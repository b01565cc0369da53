SPECIFICATION Spec
CONSTANTS
  Texts <- MCTexts
  Globs <- MCGlobs
  Users <- MCUsers
  Hosts <- MCHosts
  Digits = {"1", "2", "3", "4", "5", "6", "7"}
  Legal = {"com"}
  TwoLetters = {"uk"}
  MaxUser = 2
INVARIANTS GlobMatches BansCover
CHECK_DEADLOCK FALSE
