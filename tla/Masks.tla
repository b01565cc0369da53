------------------------------- MODULE Masks -------------------------------
(***************************************************************************)
(* The masks by which the bot asks the server to ban a client, and the      *)
(* matching of glob patterns.  Every ban is worded by one of four pieces of *)
(* code: doAction (what a setting such as FLOODER_ACTION says), klineClones *)
(* (the automatic K-line for a pair of clones), Trap::doAction, and         *)
(* checkForSpoof, which hands a client to doAction.  Each cuts the client's *)
(* user, host and address up in its own way.                                *)
(*                                                                          *)
(* A user name, a host name, an address and a mask are sequences of         *)
(* characters; to keep them short, a label or a number is one character.    *)
(* The state is only the case under study, one at a time.                   *)
(***************************************************************************)
EXTENDS Integers, Sequences, SequencesExt, FiniteSets

CONSTANTS
  Texts, Globs,         \* what is matched with what
  Users,                \* user names, with or without "~"
  Hosts,                \* pairs of a host name and the address it stands for
  Digits,               \* the characters that are numbers
  Legal, TwoLetters,    \* top-level domains: known ones, and two-letter ones
  MaxUser               \* 8, the length user names are cut to

VARIABLES
  matching,             \* a text and a pattern
  offender,             \* a client: its user, host and address, and the address
                        \* as far as the bot knows it
  clones                \* two clients on one host, or in one class C net
vars == <<matching, offender, clones>>
None == <<>>

-----------------------------------------------------------------------------
(* Patterns *)

\* matchesChar, and matchesSpecialChar for "#", which stands for a number.
MatchesChar(test, mask) == mask = "?" \/ test = mask \/ (mask = "#" /\ test \in Digits)

\* Slip: the texts may differ in length.
FixedMatchPrefix(test, mask) ==
  Len(test) >= Len(mask) /\ \A i \in DOMAIN mask : MatchesChar(test[i], mask[i])

\* FixedMatch
FixedMatch(test, mask) ==
  test = mask \/ (Len(test) = Len(mask) /\ \A i \in DOMAIN mask : MatchesChar(test[i], mask[i]))

From(s, i) == SubSeq(s, i, Len(s))
Upto(s, i) == SubSeq(s, 1, IF i < Len(s) THEN i ELSE Len(s))
Places(s, ch) == {i \in DOMAIN s : s[i] = ch}
FirstOf(S) == IF S = {} THEN 0 ELSE CHOOSE i \in S : \A j \in S : i <= j
Star(s) == FirstOf(Places(s, "*"))       \* its first "*", or 0

\* One call of SMatch, for the text from place i and the mask from place j; fits says
\* from where the text matches each shorter end of the mask.  Before a "*" the text
\* must begin as the mask does, wherever it is taken up after one; the rest is matched
\* likewise.  A mask with one "*", its first character, is compared with the end
\* of the text.
SMatchCall(test, mask, fits, i, j) ==
  LET t == From(test, i)
      k == From(mask, j)
      p == Star(k) - 1
      rest == Tail(k)
      q == Star(rest) - 1
  IN  \/ k = <<"*">> \/ t = k
      \/ /\ k # <<>> /\ t # <<>>
         /\ \/ /\ k[1] = "*" /\ q >= 0
               /\ \E x \in DOMAIN t : /\ FixedMatch(Upto(From(t, x), q), Upto(rest, q))
                                      /\ i + x - 1 + q \in fits[j + 1 + q]
            \/ /\ k[1] = "*" /\ q = -1 /\ Len(rest) <= Len(t)
               /\ FixedMatch(From(t, Len(t) - Len(rest) + 1), rest)
            \/ p = -1 /\ FixedMatch(t, k)
            \/ /\ p > 0 /\ FixedMatch(Upto(t, p), Upto(k, p))
               /\ i + p \in fits[j + p]

\* SMatch: the mask gets shorter from call to call
SMatchPlaces(test, mask) ==
  LET fits[j \in 1 .. Len(mask) + 1] ==
        {i \in 1 .. Len(test) + 1 : SMatchCall(test, mask, fits, i, j)}
  IN  fits
SMatch(test, mask) == 1 \in SMatchPlaces(test, mask)[1]

-----------------------------------------------------------------------------
(* Cutting names up *)

HasDigit(s) == \E i \in DOMAIN s : s[i] \in Digits
LastOf(S) == IF S = {} THEN 0 ELSE CHOOSE i \in S : \A j \in S : j <= i
Before(S, i) == LastOf({j \in S : j < i})
Numeric(s, dot) == s # <<>> /\ \A i \in DOMAIN s : s[i] \in Digits \cup {dot}

\* isStrictIPv4 and isNumericIPv4, isNumericIPv6
IsIPv4(host) == Numeric(host, ".") /\ Cardinality(Places(host, ".")) = 3
IsIPv6(host) == Numeric(host, ":") /\ Cardinality(Places(host, ":")) = 7

\* getDomain: an address without its last number; a host name of up to two labels
\* as it is; else its last two labels, or three under a two-letter top level, unless
\* the third from the end has a number in it.
GetDomain(host, withDot) ==
  LET dots == Places(host, ".")
      last == LastOf(dots)
      prev == Before(dots, last)
      third == Before(dots, prev)
      after(i) == From(host, IF withDot THEN i ELSE i + 1)
  IN  IF IsIPv4(host) THEN Upto(host, IF withDot THEN last ELSE last - 1)
      ELSE IF IsIPv6(host) THEN Upto(host, LastOf(Places(host, ":")) - IF withDot THEN 0 ELSE 1)
      ELSE IF prev = 0 THEN host
      ELSE IF host[Len(host)] \notin TwoLetters \/ HasDigit(SubSeq(host, third + 1, prev - 1))
           THEN after(prev)
      ELSE IF third = 0 THEN host ELSE after(third)

\* classCMask
ClassC(ip) == Append(Upto(ip, LastOf(Places(ip, ".")) - 1), ".") \o <<"*">>

\* isDynamic
IsDynamic(user, host) == (user # <<>> /\ user[1] = "~") \/ HasDigit(host)

Cut(user) == IF Len(user) > MaxUser THEN From(user, Len(user) - MaxUser + 1) ELSE user
UserHost(user, host) == user \o <<"@">> \o host
Anyone == <<"*">>

\* klineMask
KlineMask(user, host) ==
  LET domain == GetDomain(host, TRUE)
  IN  UserHost(IF user # <<>> /\ user[1] = "~" THEN <<"~", "*">> ELSE Anyone \o Cut(user),
               IF IsIPv4(host) THEN domain \o Anyone ELSE Anyone \o domain)

-----------------------------------------------------------------------------
(* What is banned *)

Kline(mask) == [ban |-> "KLINE", mask |-> mask]
Dline(mask) == [ban |-> "DLINE", mask |-> mask]

\* Slip: a long user name is cut at the wrong end.
IdentBeginning(user) ==
  IF Len(user) > 1 /\ user[1] = "~" THEN Tail(user) ELSE Upto(user, MaxUser)

\* The user as doAction bans it.
Ident(user) == IF Len(user) > 1 /\ user[1] = "~" THEN Tail(user) ELSE Cut(user)

\* A domain with a star for what is cut off, and an address that the host may be.
Starred(d) == IF d[Len(d)] \in {".", ":"} THEN d \o Anyone ELSE Anyone \o d
AddressOf(host, ip) == IF ip = None /\ IsIPv4(host) THEN host ELSE ip

\* doAction (the one with nick, userhost and ip), for the actions that ban by user,
\* host or address; ip may be None.
DoAction(type, user, host, knownIp) ==
  LET domain == Starred(GetDomain(host, TRUE))
      ip == AddressOf(host, knownIp)
      usernet == Anyone \o Ident(user)
      byHost == UserHost(Anyone, host)
      byDomain == UserHost(usernet, domain)
      byNet == UserHost(usernet, ClassC(ip))
  IN  CASE type = "KLINE" -> {Kline(byDomain)}
        [] type = "KLINE_HOST" -> {Kline(byHost)}
        [] type = "KLINE_DOMAIN" -> {Kline(UserHost(Anyone, domain))}
        [] type = "KLINE_IP" -> {Kline(IF ip # None THEN UserHost(Anyone, ip) ELSE byHost)}
        [] type = "KLINE_USERNET" -> {Kline(IF ip # None THEN byNet ELSE byDomain)}
        [] type = "KLINE_NET" ->
             {Kline(UserHost(Anyone, IF ip # None THEN ClassC(ip) ELSE domain))}
        [] type = "SMART_KLINE" ->
             {Kline(IF IsDynamic(user, host) THEN byHost
                    ELSE IF ip = None THEN byDomain ELSE byNet)}
        [] type = "SMART_KLINE_HOST" ->
             {Kline(IF IsDynamic(user, host) THEN byHost ELSE byDomain)}
        [] type = "SMART_KLINE_IP" ->
             {Kline(IF ip # None
                    THEN IF IsDynamic(user, host) THEN UserHost(Anyone, ip) ELSE byNet
                    ELSE IF IsDynamic(user, host) THEN byHost ELSE byDomain)}
        [] type = "DLINE_IP" -> IF ip # None THEN {Dline(ip)} ELSE {}
        [] type = "DLINE_NET" -> IF ip # None THEN {Dline(ClassC(ip))} ELSE {}
Actions == {"KLINE", "KLINE_HOST", "KLINE_DOMAIN", "KLINE_IP", "KLINE_USERNET", "KLINE_NET",
            "SMART_KLINE", "SMART_KLINE_HOST", "SMART_KLINE_IP", "DLINE_IP", "DLINE_NET"}

\* Trap::doAction
TrapAction(type, user, host, ip) ==
  CASE type = "KLINE" -> {Kline(KlineMask(user, host))}
    [] type = "KLINE_HOST" -> {Kline(UserHost(Anyone, host))}
    [] type = "KLINE_DOMAIN" -> {Kline(UserHost(Anyone, GetDomain(host, TRUE)))}
    [] type = "KLINE_IP" -> IF ip # None THEN {Kline(UserHost(Anyone, ip))} ELSE {}
    [] type = "KLINE_USERNET" ->
         IF ip = None THEN {}
         ELSE {Kline(UserHost(Anyone \o (IF Len(user) > 1 /\ user[1] = "~" THEN Tail(user)
                                      ELSE user), ClassC(ip)))}
    [] type = "KLINE_NET" -> IF ip # None THEN {Kline(UserHost(Anyone, ClassC(ip)))} ELSE {}
    [] type = "DLINE_IP" -> IF ip # None THEN {Dline(ip)} ELSE {}
    [] type = "DLINE_NET" -> IF ip # None THEN {Dline(ClassC(ip))} ELSE {}
TrapActions == {"KLINE", "KLINE_HOST", "KLINE_DOMAIN", "KLINE_IP", "KLINE_USERNET",
                "KLINE_NET", "DLINE_IP", "DLINE_NET"}

\* klineClones: the user without "~"; what the two clones have in common.
KlineClones(user, host, ip, differentUser, differentIp, identd) ==
  LET net == IF ip # None THEN ClassC(ip)
             ELSE IF IsIPv4(host) THEN ClassC(host) ELSE Anyone \o GetDomain(host, TRUE)
      \* neither runs identd: any user without it
      unknown == <<"~", "*">>
  IN  IF differentIp /\ ip # None
      THEN UserHost(IF ~differentUser THEN Anyone \o user ELSE IF identd THEN Anyone ELSE unknown,
                    ClassC(ip))
      ELSE IF IsDynamic(<<>>, host) THEN UserHost(Anyone, host)
      ELSE IF ~identd THEN UserHost(unknown, net)
      ELSE IF differentUser THEN UserHost(Anyone, host)
      ELSE UserHost(Anyone \o user, net)

\* The user that a ban for clones names, and whether identd vouches for it
Bare(user) == IF user[1] = "~" THEN Tail(user) ELSE user
Identd(user) == user[1] # "~"

\* The end of checkHostClones: the second clone is compared with the first, and they
\* run identd if one of them does.
HostClonesBan(a, b) ==
  KlineClones(Bare(b.user), b.host, b.ip, Bare(a.user) # Bare(b.user), FALSE,
              Identd(a.user) \/ Identd(b.user))

\* The end of checkIpClones: so are their addresses, which share a class C net.
IpClonesBan(a, b) ==
  KlineClones(Bare(b.user), b.host, b.ip, Bare(a.user) # Bare(b.user), a.ip # b.ip,
              Identd(a.user) \/ Identd(b.user))

\* onCsClones: a client the server calls a clone.  It is the user with identd that
\* loses its first character.
CsClonesBan(c) ==
  KlineClones(IF Identd(c.user) THEN Tail(c.user) ELSE c.user, c.host, c.ip,
              FALSE, FALSE, Identd(c.user))

\* checkForSpoof: the kind of spoof a client's host is, if any.
Spoof(host, ip) ==
  LET dot == LastOf(Places(host, "."))
      tld == host[Len(host)]
  IN  IF IsIPv4(host) THEN IF host # ip THEN "fake" ELSE "none"
      ELSE IF dot # 0 /\ tld \notin Legal \cup TwoLetters THEN "topLevel"
      ELSE IF Places(host, "*") \cup Places(host, "?") \cup Places(host, "@") # {}
           THEN "character"
      ELSE "none"

-----------------------------------------------------------------------------
ASSUME TextsAssumption == \A s \in Texts \cup Globs : s \in Seq(STRING)
ASSUME UsersAssumption == MaxUser \in Nat /\ \A u \in Users : u \in Seq(STRING) /\ u # None

\* A host has a name and, unless it is an IPv6 address, an IPv4 address that may be
\* known.  The server does not let a name pass for another address, nor for one with
\* characters of a mask; the top level of a name is one that the code knows.  A name
\* may have several addresses, and an address several names or, now and then, none.
ASSUME HostsAssumption ==
  /\ {".", ":"} \cap (Legal \cup TwoLetters) = {}
  /\ \A h \in Hosts :
       /\ h.name \in Seq(STRING) /\ h.name # None /\ h.ip \in Seq(STRING)
       /\ h.ip # None => IsIPv4(h.ip)
       /\ IF IsIPv4(h.name) THEN h.name = h.ip
          ELSE /\ Places(h.name, ".") # {} => h.name[Len(h.name)] \in Legal \cup TwoLetters
               /\ \A i \in DOMAIN h.name : h.name[i] \notin {"*", "?", "@"}

Client == {[user |-> u, host |-> h.name, real |-> h.ip, ip |-> ip] :
             u \in Users, h \in Hosts, ip \in {None}}
          \cup {[user |-> u, host |-> h.name, real |-> h.ip, ip |-> h.ip] :
             u \in Users, h \in Hosts}

Init == matching = None /\ offender = None /\ clones = None
Match(text, glob) == /\ matching' = <<text, glob>> /\ UNCHANGED <<offender, clones>>
Offend(c) == offender' = c /\ UNCHANGED <<matching, clones>>
OneNet(p, q) == p # None /\ q # None /\ ClassC(p) = ClassC(q)
SameNet(a, b) == OneNet(a.ip, b.ip)
Clone(a, b) ==
  /\ a.host = b.host \/ SameNet(a, b)
  /\ clones' = <<a, b>> /\ UNCHANGED <<matching, offender>>
Next ==
  /\ matching = None /\ offender = None /\ clones = None
  /\ \/ \E text \in Texts, glob \in Globs : Match(text, glob)
     \/ \E c \in Client : Offend(c)
     \/ \E a, b \in Client : Clone(a, b)
Spec == Init /\ [][Next]_vars

-----------------------------------------------------------------------------
\* What matching should do: a "*" stands for any characters, others for one.  Where
\* the text matches the mask from place j on, if later says where it does from the next
GlobStep(text, mask, j, later) ==
  IF mask[j] = "*" THEN {i \in 1 .. Len(text) + 1 : \E k \in later : i <= k}
  ELSE {i \in 1 .. Len(text) : MatchesChar(text[i], mask[j]) /\ i + 1 \in later}
GlobPlaces(text, mask) ==
  LET f[j \in 1 .. Len(mask) + 1] ==
        IF j = Len(mask) + 1 THEN {Len(text) + 1} ELSE GlobStep(text, mask, j, f[j + 1])
  IN  f
Glob(text, mask) == 1 \in GlobPlaces(text, mask)[1]
TwoStars(mask) == \E i \in 1 .. Len(mask) - 1 : mask[i] = "*" /\ mask[i + 1] = "*"

\* SMatch finds a match just when there is one, for every pattern without two stars
\* in a row (at the end of a pattern, two stars demand a character: SMatch gives up
\* on an empty text unless the pattern is a single star).
GlobMatches ==
  matching # None /\ ~TwoStars(matching[2]) =>
    (SMatch(matching[1], matching[2]) <=> Glob(matching[1], matching[2]))

\* A server applies a K-line to the user at the host name or at the address, a D-line
\* to the address.
Covers(ban, c) ==
  IF ban.ban = "DLINE" THEN Glob(c.real, ban.mask)
  ELSE Glob(UserHost(c.user, c.host), ban.mask) \/ Glob(UserHost(c.user, c.real), ban.mask)

\* Whatever the action, the user, the host and whether the address is known, what the
\* bot bans is the client it is about.  Not so for the traps' KLINE_DOMAIN (see
\* TrapDomainCovers), nor, for hosts that are IPv6 addresses, the masks of klineMask
\* and klineClones, which put the star before the net instead of after it.  The K-line
\* for two clones bans the second, by whose host and address it is worded.  It bans
\* the first too if they have one host and its address is not used or in one net with
\* the first's; or if they are clones by their addresses, and these differ or are of
\* one host.  Clones of one address with two names are taken for clones of one host,
\* and the first may go free.
BansCover ==
  /\ offender # None =>
       /\ \A type \in Actions :
            \A ban \in DoAction(type, offender.user, offender.host, offender.ip) :
              Covers(ban, offender)
       /\ \A type \in TrapActions \ {"KLINE_DOMAIN"} :
            \/ IsIPv6(offender.host) /\ type = "KLINE"
            \/ \A ban \in TrapAction(type, offender.user, offender.host, offender.ip) :
                 Covers(ban, offender)
       /\ IsIPv6(offender.host) \/ Covers(Kline(CsClonesBan(offender)), offender)
       /\ Spoof(offender.host, offender.real) = "none"
  /\ clones # None /\ ~IsIPv6(clones[2].host) =>
       LET a == clones[1]
           b == clones[2]
       IN  /\ a.host = b.host =>
                /\ Covers(Kline(HostClonesBan(a, b)), b)
                /\ b.ip = None \/ OneNet(a.real, b.real) =>
                     Covers(Kline(HostClonesBan(a, b)), a)
           /\ SameNet(a, b) =>
                /\ Covers(Kline(IpClonesBan(a, b)), b)
                /\ a.host = b.host \/ a.ip # b.ip => Covers(Kline(IpClonesBan(a, b)), a)

\* A trap's KLINE_DOMAIN bans the client that is trapped.
TrapDomainCovers ==
  offender # None =>
    \A ban \in TrapAction("KLINE_DOMAIN", offender.user, offender.host, offender.ip) :
      Covers(ban, offender)

=============================================================================
