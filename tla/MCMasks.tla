------------------------------ MODULE MCMasks ------------------------------
EXTENDS Masks
Upto4(S) == UNION {[1 .. n -> S] : n \in 0 .. 4}
MCTexts == Upto4({"a", "1"})
MCGlobs == UNION {[1 .. n -> {"a", "1", "*", "?", "#"}] : n \in 0 .. 5}
H(name, ip) == [name |-> name, ip |-> ip]
Ip(n, k) == <<"1", ".", "2", ".", n, ".", k>>
MCHosts ==
  {\* addresses without a name, in two nets
   H(Ip("3", "4"), Ip("3", "4")), H(Ip("3", "5"), Ip("3", "5")), H(Ip("6", "4"), Ip("6", "4")),
   H(<<"1", ":", "2", ":", "3", ":", "4", ":", "5", ":", "6", ":", "1", ":", "2">>, None),
   \* names of one to five labels, under both kinds of top level, with a number
   H(<<"a">>, Ip("3", "6")), H(<<"a", ".", "com">>, Ip("3", "1")),
   H(<<"b", ".", "a", ".", "com">>, Ip("3", "2")), H(<<"b", "1", ".", "a", ".", "com">>, Ip("3", "3")),
   H(<<"a", ".", "uk">>, Ip("6", "1")), H(<<"b", ".", "a", ".", "uk">>, Ip("6", "2")),
   H(<<"1", ".", "a", ".", "uk">>, Ip("6", "3")),
   H(<<"c", ".", "b", ".", "a", ".", "uk">>, Ip("6", "5")),
   H(<<"c", ".", "b", "1", ".", "a", ".", "uk">>, Ip("6", "6")),
   H(<<"d", ".", "c", ".", "b", ".", "a", ".", "uk">>, Ip("5", "1")),
   \* an address with a name to which it does not always resolve, and with two names;
   \* a name with two addresses
   H(Ip("3", "1"), Ip("3", "1")), H(<<"c", ".", "com">>, Ip("3", "2")),
   H(<<"a", ".", "com">>, Ip("6", "7"))}
MCUsers == {<<"u">>, <<"~", "u">>, <<"u", "v", "w">>, <<"~", "u", "v", "w">>, <<"u", "w", "w">>}
=============================================================================
