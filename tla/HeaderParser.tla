----------------------------- MODULE HeaderParser -----------------------------
(***************************************************************************)
(* http_header_parser: the start line of a request or a reply, its URI or  *)
(* its status code, and its header fields.                                 *)
(*                                                                         *)
(* A text is a sequence of characters.  A character is a letter, a digit,  *)
(* one of "cr", "lf", "sp", "tab", "vt" (vertical tab, or form feed), "+", *)
(* "-", ":" and "/", or any other.  The words "CONNECT" and "HTTP/" count  *)
(* as one character.  There are fewer digits and shorter integers than in  *)
(* the code.                                                               *)
(***************************************************************************)
EXTENDS Integers, FiniteSets, SequencesExt

CONSTANTS
  Digits,         \* the digits, in the order of their values
  Lower,          \* std::tolower, of every letter
  PortModulus,    \* a port is kept modulo this: 2^16
  StatusModulus,  \* a status code is kept modulo this: 2^32
  LongModulus,    \* std::stoul throws from this on: 2^64
  Characters,     \* what each part of a text is written with
  Beginnings,     \* what each part may begin with
  Bounded(_, _)   \* bound: the texts of a part that are written

Digit == Range(Digits)
Letter == DOMAIN Lower
TokenChar == Letter \cup Digit \cup {"+", "-"}
Blank == {"sp", "tab"}                     \* what parse_headers takes for a space
White == {"sp", "tab", "cr", "lf", "vt"}   \* std::isspace

ASSUME ParserAssumption ==
  /\ Digits \in Seq(Digit)
  /\ IsInjective(Digits)
  /\ TokenChar \cap (White \cup {":", "/", "HTTP/"}) = {}
  /\ Digit \cap {"+", "-"} = {}
  /\ \A c \in Letter : Lower[c] \in Letter
  /\ PortModulus \in Nat \ {0}
  /\ StatusModulus \in Nat \ {0}
  /\ LongModulus \in Nat \ {0}

\* A part of a start line ends before a "cr", and has no version in it.
ASSUME TextAssumption ==
  /\ \A p \in DOMAIN Characters : Beginnings[p] \subseteq Seq(Characters[p])
  /\ \A p \in DOMAIN Characters \ {"fields"} : Characters[p] \cap {"cr", "HTTP/"} = {}

----------------------------------------------------------------------------
(* parse_headers.                                                          *)

VARIABLES
  part,    \* what is written: "fields", "uri", "connect" or "status"
  text,    \* what has been written
  parser   \* the local variables of parse_headers, after the text of "fields"

vars == <<part, text, parser>>

NewParser == [state |-> "name_start", name |-> <<>>, value |-> <<>>, headers |-> <<>>]

\* Mistaken: the spaces behind a value are kept.
StoredAsIs(p) ==
  [p EXCEPT !.headers = Append(@, [name |-> p.name, value |-> p.value]),
            !.name = <<>>, !.value = <<>>]

TrimmedRight(s) == SubSeq(s, 1, Max({0} \cup {i \in DOMAIN s : s[i] \notin Blank}))

\* A field is complete when the next line is seen not to continue it.
FieldStored(p) ==
  [p EXCEPT !.headers = Append(@, [name |-> p.name, value |-> TrimmedRight(p.value)]),
            !.name = <<>>, !.value = <<>>]

InName(p, c) == [p EXCEPT !.name = Append(@, c), !.state = "name"]
InValue(p, c) == [p EXCEPT !.value = Append(@, c), !.state = "value"]

\* One turn of the loop, with the character c.
Step(p, c) ==
  LET to(s) == [p EXCEPT !.state = s]
  IN  CASE p.state = "name_start" /\ c \in TokenChar -> InName(p, c)
        [] p.state = "name_start" /\ c = "cr" -> to("crlfcr")
        [] p.state = "name" /\ c \in TokenChar -> InName(p, c)
        [] p.state = "name" /\ c = ":" -> to("value_left_ows")
        [] p.state \in {"value_left_ows", "value"} ->
             IF c = "cr" THEN to("cr")
             ELSE IF c \in Blank /\ p.state = "value_left_ows" THEN p ELSE InValue(p, c)
        [] p.state = "cr" /\ c = "lf" -> to("crlf")
        [] p.state = "crlf" /\ c \in Blank -> InValue(p, c)
        [] p.state = "crlf" /\ c = "cr" -> [FieldStored(p) EXCEPT !.state = "crlfcr"]
        [] p.state = "crlf" /\ c \in TokenChar -> InName(FieldStored(p), c)
        [] p.state = "crlfcr" -> IF c = "lf" THEN to("complete") ELSE p
        [] p.state = "complete" -> p
        [] OTHER -> to("failed")

ParseHeaders(s) == FoldLeft(Step, NewParser, s)

\* get_header_value: the first of the fields whose names differ in case only.
SameName(n1, n2) ==
  /\ Len(n1) = Len(n2)
  /\ \A i \in DOMAIN n1 : LET low(c) == IF c \in Letter THEN Lower[c] ELSE c
                          IN  low(n1[i]) = low(n2[i])

GetHeaderValue(headers, name) ==
  LET named == {i \in DOMAIN headers : SameName(headers[i].name, name)}
  IN  IF named = {} THEN <<>> ELSE <<headers[Min(named)].value>>

----------------------------------------------------------------------------
(* The start lines.  A result is <<>> where the code returns nothing.      *)

\* The characters before the first of stops: all of them if there is none.
UpTo(s, stops) == SubSeq(s, 1, Cardinality({i \in DOMAIN s : \A k \in 1 .. i : s[k] \notin stops}))
After(s, n) == SubSeq(s, n + 1, Len(s))
Follows(s, n, what) == \A i \in DOMAIN what : n + i \in DOMAIN s /\ s[n + i] = what[i]

Number(digits) ==
  LET valueOf(d) == (CHOOSE i \in DOMAIN Digits : Digits[i] = d) - 1
  IN  FoldLeft(LAMBDA n, d : n * Len(Digits) + valueOf(d), 0, digits)

\* The characters of chars that s begins with.
Leading(s, chars) == SubSeq(s, 1, Cardinality({i \in DOMAIN s : \A k \in 1 .. i : s[k] \in chars}))
LeadingDigits(s) == Leading(s, Digit)
AllDigits(s) == s # <<>> /\ LeadingDigits(s) = s

\* std::stoul: white space and a sign may come first, and what follows the digits is
\* ignored.  A negative number is one modulo LongModulus.
Stoul(s) ==
  LET s1 == After(s, Len(Leading(s, White)))
      signed == \E sign \in {"+", "-"} : Follows(s1, 0, <<sign>>)
      digits == LeadingDigits(IF signed THEN Tail(s1) ELSE s1)
      n == Number(digits)
  IN  IF digits = <<>> \/ n >= LongModulus THEN <<>>
      ELSE IF Follows(s1, 0, <<"-">>) THEN <<(LongModulus - n) % LongModulus>>
      ELSE <<n>>

IsVersion(s) == Len(s) >= 2 /\ s[1] = "HTTP/"

DefaultPort == 80

\* The match of "(.+?):(\d+)": the places where the host may end.
ConnectSplits(uri) == {h \in 1 .. Len(uri) - 2 : uri[h + 1] = ":" /\ AllDigits(After(uri, h + 1))}

\* The matches of "(.+?)://(.+?)(:(\d+))?(/.*)": where scheme, host and port end.
UriSplits(uri) ==
  { m \in [scheme : DOMAIN uri, host : DOMAIN uri, port : DOMAIN uri] :
      /\ Follows(uri, m.scheme, <<":", "/", "/">>)
      /\ m.host > m.scheme + 3
      /\ \/ m.port = m.host
         \/ m.port > m.host + 1 /\ uri[m.host + 1] = ":" /\ AllDigits(SubSeq(uri, m.host + 2, m.port))
      /\ Follows(uri, m.port, <<"/">>) }

\* Mistaken: the host is matched greedily.
LongerHost(m1, m2) == m1.scheme < m2.scheme \/ (m1.scheme = m2.scheme /\ m1.host > m2.host)

\* The order in which the matches are tried: the shorter scheme, then the shorter host.
Preferred(m1, m2) == m1.scheme < m2.scheme \/ (m1.scheme = m2.scheme /\ m1.host < m2.host)

\* static_cast<unsigned short>(std::stoul(digits)): the match leaves nothing but digits.
WithPort(uri, digits) ==
  IF Number(digits) >= LongModulus THEN <<>>
  ELSE <<[uri EXCEPT !.port = Number(digits) % PortModulus]>>

ParseUri(method, uri) ==
  LET connects == ConnectSplits(uri)
      matches == UriSplits(uri)
      m == CHOOSE m1 \in matches : \A m2 \in matches : ~Preferred(m2, m1)
      host == CHOOSE h \in connects : \A h2 \in connects : h <= h2
      result == [scheme |-> SubSeq(uri, 1, m.scheme), host |-> SubSeq(uri, m.scheme + 4, m.host),
                 port |-> DefaultPort, path |-> After(uri, m.port)]
  IN  CASE method = <<"CONNECT">> /\ connects # {} ->
             WithPort([scheme |-> <<>>, host |-> SubSeq(uri, 1, host), port |-> DefaultPort,
                       path |-> <<>>], After(uri, host + 1))
        [] method # <<"CONNECT">> /\ matches # {} ->
             IF m.port = m.host THEN <<result>>
             ELSE WithPort(result, SubSeq(uri, m.host + 2, m.port))
        [] OTHER -> <<>>

ParseRequestHeader(s) ==
  LET method == UpTo(s, {"sp", "cr"})
      s1 == After(s, Len(method) + 1)
      written == UpTo(s1, {"sp", "cr"})
      s2 == After(s1, Len(written) + 1)
      version == UpTo(s2, {"cr"})
      fields == ParseHeaders(After(s2, Len(version) + 2))
      uri == ParseUri(method, written)
  IN  IF /\ method # <<>> /\ Follows(s, Len(method), <<"sp">>)
         /\ written # <<>> /\ Follows(s1, Len(written), <<"sp">>)
         /\ uri # <<>>
         /\ IsVersion(version) /\ Follows(s2, Len(version), <<"cr", "lf">>)
         /\ fields.state = "complete"
      THEN <<[method |-> method, uri |-> uri[1], version |-> Tail(version),
              headers |-> fields.headers]>>
      ELSE <<>>

ParseResponseHeader(s) ==
  LET version == UpTo(s, {"sp", "cr"})
      s1 == After(s, Len(version) + 1)
      status == UpTo(s1, {"sp", "cr"})
      described == Follows(s1, Len(status), <<"sp">>)
      s2 == After(s1, IF described THEN Len(status) + 1 ELSE Len(status))
      description == IF described THEN UpTo(s2, {"cr"}) ELSE <<>>
      fields == ParseHeaders(After(s2, Len(description) + 2))
      code == Stoul(status)
  IN  IF /\ IsVersion(version) /\ Follows(s, Len(version), <<"sp">>)
         /\ code # <<>>
         /\ Follows(s2, Len(description), <<"cr", "lf">>)
         /\ fields.state = "complete"
      THEN <<[version |-> Tail(version), status_code |-> code[1] % StatusModulus,
              description |-> description, headers |-> fields.headers]>>
      ELSE <<>>

----------------------------------------------------------------------------
(* Texts are written character by character.  Only parse_headers is        *)
(* followed on the way; the other parts are parsed as a whole.             *)

Init ==
  /\ part \in DOMAIN Characters
  /\ text \in Beginnings[part]
  /\ parser = NewParser

Write(c) ==
  /\ parser.state \notin {"complete", "failed"}
  /\ Bounded(part, Append(text, c))
  /\ text' = Append(text, c)
  /\ parser' = IF part = "fields" THEN Step(parser, c) ELSE parser
  /\ UNCHANGED part

Next == \E c \in Characters[part] : Write(c)

Spec == Init /\ [][Next]_vars

----------------------------------------------------------------------------
(* What a header says, read by lines and from its separators.              *)

End == <<"HTTP/", "1", "cr", "lf", "cr", "lf">>

\* An authority that ends with a ":" and a number has a port.
HostOf(authority) ==
  LET colon == Max({0} \cup {i \in DOMAIN authority : authority[i] = ":"})
  IN  IF colon > 1 /\ AllDigits(After(authority, colon)) THEN SubSeq(authority, 1, colon - 1)
      ELSE authority

PortOf(authority) ==
  IF HostOf(authority) = authority THEN 0 ELSE Number(After(authority, Len(HostOf(authority)) + 1))

NoBareCR(s) == \A i \in DOMAIN s : s[i] = "cr" /\ i < Len(s) => s[i + 1] = "lf"

\* The lines of s, without their ends, and without what follows the last end.
Lines(s) ==
  LET ends == SetToSortSeq({i \in DOMAIN s : Follows(s, i - 1, <<"cr", "lf">>)}, <)
  IN  [k \in DOMAIN ends |-> SubSeq(s, IF k = 1 THEN 1 ELSE ends[k - 1] + 2, ends[k] - 1)]

Continues(line) == line # <<>> /\ line[1] \in Blank

NameOf(line) == UpTo(line, {":"})

IsFieldLine(line) ==
  /\ NameOf(line) # <<>>
  /\ \A i \in DOMAIN NameOf(line) : line[i] \in TokenChar
  /\ Follows(line, Len(NameOf(line)), <<":">>)

\* Fields, any of them continued, and a blank line.
IsBlock(s) ==
  LET lines == Lines(s)
  IN  /\ Len(s) >= 2 /\ SubSeq(s, Len(s) - 1, Len(s)) = <<"cr", "lf">>
      /\ \A k \in DOMAIN lines :
           \/ k < Len(lines) /\ IsFieldLine(lines[k])
           \/ k < Len(lines) /\ k > 1 /\ Continues(lines[k])
           \/ k = Len(lines) /\ lines[k] = <<>>

\* The field that begins in line k: its value is all there is up to the next field,
\* less the spaces before and behind it.  (Spaces before it in a line that continues
\* an empty one stay.)
FieldAt(lines, k) ==
  LET next == Min({j \in DOMAIN lines : j > k /\ ~Continues(lines[j])})
      first == After(lines[k], Len(NameOf(lines[k])) + 1)
      left == SubSeq(first, Min({Len(first) + 1} \cup {i \in DOMAIN first : first[i] \notin Blank}), Len(first))
  IN  [name |-> NameOf(lines[k]), value |-> TrimmedRight(left \o FlattenSeq(SubSeq(lines, k + 1, next - 1)))]

FieldsOf(s) ==
  LET lines == Lines(s)
      starts == SetToSortSeq({k \in DOMAIN lines : IsFieldLine(lines[k]) /\ ~Continues(lines[k])}, <)
  IN  [n \in DOMAIN starts |-> FieldAt(lines, starts[n])]

\* The shortest ends of a block, from any point of it.
Rests ==
  LET end == <<"cr", "lf">>
  IN  {<<>>, <<"lf">>, <<"lf">> \o end, end, end \o end, <<":">> \o end \o end}
        \cup {<<c, ":">> \o end \o end : c \in Letter}

----------------------------------------------------------------------------
\* A block of fields is accepted exactly when it is one, and refused exactly when
\* nothing that could follow makes it one.  A name of an accepted block has the
\* value the first of its fields was written with, whatever their case and however the
\* lines are continued.  A carriage return is taken to be followed by a line feed; the code
\* drops what is between one that is not, at the beginning of a line, and the next
\* line feed.
FieldsAsWritten ==
  part = "fields" /\ NoBareCR(text) =>
    /\ parser.state = "complete" <=> IsBlock(text)
    /\ parser.state = "failed" <=> ~\E rest \in Rests : IsBlock(text \o rest)
    /\ IsBlock(text) =>
         LET fields == FieldsOf(text)
         IN  /\ Len(parser.headers) = Len(fields)
             /\ \A k \in DOMAIN fields :
                  LET same == {j \in DOMAIN fields : SameName(fields[j].name, fields[k].name)}
                  IN  GetHeaderValue(parser.headers, fields[k].name) = <<fields[Min(same)].value>>

\* A URI without a space is taken apart at the first "://", the next "/" and a ":" with
\* a number before that; one without these is refused, and so is a number too large
\* for stoul.  (What the code makes of an empty scheme or host is left open, and of a
\* port that does not fit.)
UriAsWritten ==
  LET parsed == ParseRequestHeader(<<"a", "sp">> \o text \o <<"sp">> \o End)
      marks == {i \in DOMAIN text : Follows(text, i - 1, <<":", "/", "/">>)}
      behind == After(text, Min(marks) + 2)
      authority == UpTo(behind, {"/"})
      host == HostOf(authority)
      uri == parsed[1].uri
  IN  /\ marks = {} \/ Contains(text, "sp") => parsed = <<>>
      /\ marks # {} /\ 1 \notin marks /\ ~Contains(text, "sp") /\ authority # <<>> =>
           /\ parsed # <<>> <=> authority # behind /\ PortOf(authority) < LongModulus
           /\ parsed # <<>> =>
                /\ uri.scheme = SubSeq(text, 1, Min(marks) - 1)
                /\ uri.host = host
                /\ uri.path = After(behind, Len(authority))
                /\ host = authority => uri.port = DefaultPort
                /\ host # authority /\ PortOf(authority) < PortModulus =>
                     uri.port = PortOf(authority)

\* CONNECT asks for a host and a number, and for nothing else.
ConnectAsWritten ==
  LET parsed == ParseRequestHeader(<<"CONNECT", "sp">> \o text \o <<"sp">> \o End)
      host == HostOf(text)
  IN  /\ parsed # <<>> <=> host # text /\ ~Contains(text, "sp") /\ PortOf(text) < LongModulus
      /\ parsed # <<>> =>
           /\ parsed[1].uri.host = host
           /\ PortOf(text) < PortModulus => parsed[1].uri.port = PortOf(text)

\* What a reply shows for its status is accepted if it begins with a number that is not
\* too large for stoul.  Before the number there may be a sign, and before that white
\* space other than the space that ends the status.  The status code is that number if it
\* fits, and the reason is the rest of the line.  (What the code makes of a "-" is left
\* open: it does not refuse it.)
StatusAsWritten ==
  LET parsed == ParseResponseHeader(<<"HTTP/", "1", "sp">> \o text \o <<"cr", "lf", "cr", "lf">>)
      begin == Min({i \in DOMAIN text : text[i] \in Digit})
      number == LeadingDigits(After(text, begin - 1))
      leads(i) == text[i] \in White \ {"sp"} \/ (i = begin - 1 /\ text[i] \in {"+", "-"})
  IN  /\ parsed # <<>> <=>
           /\ \E i \in DOMAIN text : text[i] \in Digit
           /\ \A i \in 1 .. begin - 1 : leads(i)
           /\ Number(number) < LongModulus
      /\ parsed # <<>> =>
           /\ Number(number) < StatusModulus /\ ~Contains(SubSeq(text, 1, begin - 1), "-") =>
                parsed[1].status_code = Number(number)
           /\ Contains(text, "sp") => text = UpTo(text, {"sp"}) \o <<"sp">> \o parsed[1].description
           /\ ~Contains(text, "sp") => parsed[1].description = <<>>

\* What is understood of a start line is what was written, and nothing else is accepted.
StartLinesAsWritten ==
  /\ part = "uri" => UriAsWritten
  /\ part = "connect" => ConnectAsWritten
  /\ part = "status" => StatusAsWritten
=============================================================================
