---------------------------- MODULE MCIrcServer ----------------------------
EXTENDS IrcServer
W(perm, temp, taken, cookie, changes, commands, drops) ==
  [trackPerm |-> perm, trackTemp |-> temp, taken |-> taken, cookie |-> cookie,
   changes |-> changes, commands |-> commands, drops |-> drops]
MCWorlds ==
  {\* Lines come and go while the list is loaded and loaded again.
   W(TRUE, TRUE, {}, FALSE, 2, 1, 0), W(TRUE, FALSE, {}, FALSE, 1, 2, 0),
   W(FALSE, TRUE, {}, FALSE, 2, 1, 0),
   \* Disconnections, nicknames in use.
   W(TRUE, TRUE, {0, 1, 2}, TRUE, 1, 0, 2), W(TRUE, FALSE, {1, 2}, FALSE, 1, 0, 2)}
=============================================================================
