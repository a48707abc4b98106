---------------------------- MODULE MCHeaderParser ----------------------------
(***************************************************************************)
(* A small instance of HeaderParser: two digits, one letter in two cases.  *)
(***************************************************************************)
EXTENDS HeaderParser

BinaryDigits == <<"0", "1">>
OneLetter == [c \in {"a", "A"} |-> "a"]

CharactersOf ==
  [ fields  |-> {"a", "A", ":", "sp", "tab", "/", "cr", "lf"},
    uri     |-> {"a", ":", "/", "sp", "tab", "1"},
    connect |-> {"a", ":", "sp", "tab", "1", "0"},
    status  |-> {"a", "sp", "tab", "+", "-", "1", "0"} ]

BeginningsOf == [p \in DOMAIN CharactersOf |-> IF p = "uri" THEN {<<>>, <<"a", ":", "/", "/">>} ELSE {<<>>}]

Occurs(s, c) == Cardinality({i \in DOMAIN s : s[i] = c})

\* Two fields, one of them continued; URIs with a host, a port and a path.
SmallTexts(p, s) ==
  CASE p = "fields" -> /\ Occurs(s, "a") <= 1 /\ Occurs(s, "A") <= 1 /\ Occurs(s, "/") <= 1
                       /\ Occurs(s, ":") <= 2 /\ Occurs(s, "sp") <= 1 /\ Occurs(s, "tab") <= 1
                       /\ Occurs(s, "cr") <= 4 /\ Occurs(s, "lf") <= 4
    [] p = "uri" -> Len(s) <= 6 \/ (Follows(s, 0, <<"a", ":", "/", "/">>) /\ Len(s) <= 10)
    [] OTHER -> Len(s) <= 6
=============================================================================
