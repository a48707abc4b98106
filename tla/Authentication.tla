---------------------------- MODULE Authentication ----------------------------
(***************************************************************************)
(* authentication: the table of users, and what it says of the value of a  *)
(* Proxy-Authorization header.  A text is the sequence of its bytes; of    *)
(* the value, scheme says whether it begins with "Basic ".                 *)
(***************************************************************************)
EXTENDS Base64

Colon == 58

\* add_user: the last password given for a name counts.
AddUser(users, name, password) ==
  [n \in DOMAIN users \cup {name} |-> IF n = name THEN password ELSE users[n]]

\* Mistaken: the name ends at the last colon.
SplitAtTheLast(text) ==
  LET colon == CHOOSE i \in DOMAIN text :
                 text[i] = Colon /\ \A j \in DOMAIN text : text[j] = Colon => j <= i
  IN  [name |-> SubSeq(text, 1, colon - 1), password |-> SubSeq(text, colon + 1, Len(text))]

\* authorization.find(':'): the name ends at the first colon.
Split(text) ==
  LET colon == CHOOSE i \in DOMAIN text :
                 text[i] = Colon /\ \A j \in DOMAIN text : text[j] = Colon => i <= j
  IN  [name |-> SubSeq(text, 1, colon - 1), password |-> SubSeq(text, colon + 1, Len(text))]

\* auth_basic, of the characters behind "Basic ".
AuthBasic(users, chars) ==
  IF ~Decodes(chars) \/ ~Contains(Decode(chars), Colon) THEN "error"
  ELSE LET given == Split(Decode(chars))
       IN  IF given.name \in DOMAIN users /\ users[given.name] = given.password THEN "ok"
           ELSE "incorrect"

\* auth: at least one character must follow the scheme.
Auth(users, value) ==
  IF value.scheme = "Basic " /\ value.chars # <<>> THEN AuthBasic(users, value.chars)
  ELSE "error"
=============================================================================
