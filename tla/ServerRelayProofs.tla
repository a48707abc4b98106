-------------------------- MODULE ServerRelayProofs --------------------------
(***************************************************************************)
(* Proofs that a server connection passes on what it is given, both ways.  *)
(*                                                                         *)
(* Upstream: each origin server gets a run of consecutive requests, each   *)
(* whole before the next one begins, through kept connections,             *)
(* reconnections and tunnels.  RelayInvariant says how far the current     *)
(* connection has come, in terms of what is still on its way to it.        *)
(*                                                                         *)
(* Downstream: the client gets the replies to its requests in order, each  *)
(* whole before the next one begins, an error page only between replies    *)
(* and as the last thing, and what comes through a tunnel behind the line  *)
(* that establishes it.  ReplyInvariant says what it has got, what it is   *)
(* about to get, and what still comes from the current connection.         *)
(*                                                                         *)
(* Both are preserved by the data moves of ServerConnectionProofs, with    *)
(* the help of the invariants of ServerRequestProofs.                      *)
(***************************************************************************)
EXTENDS ServerRequestProofs

-----------------------------------------------------------------------------
(* Messages joined one behind the other. *)

\* Two sequences joined, under a name of its own: provers that see through it get
\* lost among the ways to join several.
Both(s, t) == s \o t

\* Sequences may be joined in any order.
LEMMA InAnyOrder ==
  ASSUME NEW S
  PROVE  /\ \A s, t \in Seq(S) : Both(s, t) \in Seq(S)
         /\ \A s, t, u \in Seq(S) : Both(Both(s, t), u) = Both(s, Both(t, u))
<1>1. ASSUME NEW s \in Seq(S), NEW t \in Seq(S) PROVE Both(s, t) \in Seq(S)
  BY ConcatProperties DEF Both
<1>2. ASSUME NEW s \in Seq(S), NEW t \in Seq(S), NEW u \in Seq(S)
      PROVE  Both(Both(s, t), u) = Both(s, Both(t, u))
  BY ConcatAssociative DEF Both
<1> QED
  BY <1>1, <1>2

\* The sequences got by joining the first i of parts, for each i.
Joins(parts, n, f) ==
  f = [i \in 1 .. n |-> IF i = 1 THEN parts[i] ELSE f[i - 1] \o parts[i]]

\* There are such sequences, however many parts there are.
LEMMA JoinsExist ==
  ASSUME NEW parts, NEW n \in Nat
  PROVE  \E f : Joins(parts, n, f)
<1> DEFINE bad == {m \in Nat : ~ \E f : Joins(parts, m, f)}
<1>1. SUFFICES bad = {}
  BY DEF bad
<1>2. SUFFICES ASSUME bad # {} PROVE FALSE
  OBVIOUS
<1>3. PICK m \in bad : \A k \in bad : m <= k
  BY <1>2, SmallestExists
<1>4. m # 0
  <2>1. Joins(parts, 0, [i \in 1 .. 0 |-> 0])
    BY DEF Joins
  <2> QED
    BY <1>3, <2>1
<1>5. m - 1 \in Nat /\ m - 1 \notin bad
  BY <1>3, <1>4
<1>6. PICK f : Joins(parts, m - 1, f)
  BY <1>5
<1> DEFINE g == [i \in 1 .. m |-> IF i < m THEN f[i]
                                  ELSE IF m = 1 THEN parts[i] ELSE f[m - 1] \o parts[m]]
<1>7. ASSUME NEW i \in 1 .. m
      PROVE  g[i] = IF i = 1 THEN parts[i] ELSE g[i - 1] \o parts[i]
  <2>1. CASE i < m
    <3>1. i \in 1 .. m - 1
      BY <2>1, <1>5
    <3>2. f[i] = IF i = 1 THEN parts[i] ELSE f[i - 1] \o parts[i]
      BY <3>1, <1>6 DEF Joins
    <3> QED
      BY <2>1, <3>2, <1>5
  <2>2. CASE i = m
    BY <2>2, <1>5
  <2> QED
    BY <2>1, <2>2, <1>5
<1>8. Joins(parts, m, g)
  BY <1>7 DEF Joins
<1> QED
  BY <1>3, <1>8

\* Parts that agree so far are the same joined so far.
LEMMA JoinsAgree ==
  ASSUME NEW parts, NEW more, NEW n \in Nat, NEW m \in Nat, NEW f, NEW g,
         n <= m, \A i \in 1 .. n : parts[i] = more[i],
         Joins(parts, n, f), Joins(more, m, g), n # 0
  PROVE  f[n] = g[n]
<1>0. SUFFICES \A i \in 1 .. n : f[i] = g[i]
  OBVIOUS
<1> DEFINE bad == {i \in 1 .. n : f[i] # g[i]}
<1>1. SUFFICES ASSUME bad # {} PROVE FALSE
  OBVIOUS
<1>a. bad \subseteq Nat
  OBVIOUS
<1>2. PICK i \in bad : \A k \in bad : i <= k
  <2> HIDE DEF bad
  <2> QED
    BY <1>1, <1>a, SmallestExists, Zenon
<1>b. i \in 1 .. n /\ i \in 1 .. m
  BY <1>2
<1>3. /\ f[i] = IF i = 1 THEN parts[i] ELSE f[i - 1] \o parts[i]
      /\ g[i] = IF i = 1 THEN more[i] ELSE g[i - 1] \o more[i]
  BY <1>b DEF Joins
<1>4. i # 1 => i - 1 \in 1 .. n /\ i - 1 \notin bad
  BY <1>2
<1> QED
  BY <1>2, <1>3, <1>4

\* FlattenSeq is defined by such sequences: it is the last of them.
LEMMA FlattenIsJoined ==
  ASSUME NEW parts, NEW f, Len(parts) \in Nat \ {0}, Joins(parts, Len(parts), f)
  PROVE  FlattenSeq(parts) = f[Len(parts)]
<1> DEFINE h == CHOOSE h : h = [i \in 1 .. Len(parts) |->
                                 IF i = 1 THEN parts[i] ELSE h[i - 1] \o parts[i]]
<1>0. h = CHOOSE g : Joins(parts, Len(parts), g)
  BY DEF Joins
<1>1. Joins(parts, Len(parts), h)
  <2> HIDE DEF h
  <2>1. \E g : Joins(parts, Len(parts), g)
    BY JoinsExist
  <2> QED
    BY <1>0, <2>1
<1>2. FlattenSeq(parts) = h[Len(parts)]
  BY DEF FlattenSeq
<1> HIDE DEF h
<1>3. f[Len(parts)] = h[Len(parts)]
  <2>1. PICK n \in Nat : n = Len(parts)
    OBVIOUS
  <2>2. PICK g : g = h
    OBVIOUS
  <2>3. /\ n <= n /\ n # 0
        /\ \A i \in 1 .. n : parts[i] = parts[i]
        /\ Joins(parts, n, f) /\ Joins(parts, n, g)
    BY <1>1, <2>1, <2>2
  <2>4. f[n] = g[n]
    BY <2>3, JoinsAgree
  <2> QED
    BY <2>1, <2>2, <2>4
<1> QED
  BY <1>2, <1>3

\* Some parts joined, and one more.
Joined(parts, first, last) ==
  FlattenSeq([i \in 1 .. last - first + 1 |-> parts[first + i - 1]])

\* No parts are nothing.
LEMMA JoinedNone ==
  ASSUME NEW parts, NEW first \in Int, NEW last \in Int, last < first
  PROVE  Joined(parts, first, last) = <<>>
<1>1. PICK s : s = [i \in 1 .. last - first + 1 |-> parts[first + i - 1]]
  OBVIOUS
<1>2. 1 .. last - first + 1 = {}
  OBVIOUS
<1>3. s = <<>>
  BY <1>1, <1>2
<1>4. Joined(parts, first, last) = FlattenSeq(s)
  BY <1>1 DEF Joined
<1>5. Len(s) = 0
  BY <1>3
<1> QED
  BY <1>3, <1>4, <1>5 DEF FlattenSeq

\* One more part comes behind the others.
LEMMA JoinedOneMore ==
  ASSUME NEW S, NEW parts, NEW first \in Nat, NEW last \in Nat, first <= last + 1,
         parts[last + 1] \in Seq(S)
  PROVE  Joined(parts, first, last + 1) = Joined(parts, first, last) \o parts[last + 1]
<1>1. PICK n \in Nat : n = last - first + 1
  OBVIOUS
<1>2. PICK few : few = [i \in 1 .. n |-> parts[first + i - 1]]
  OBVIOUS
<1>3. PICK more : more = [i \in 1 .. n + 1 |-> parts[first + i - 1]]
  OBVIOUS
<1>4. Joined(parts, first, last) = FlattenSeq(few)
  BY <1>1, <1>2 DEF Joined
<1>5. Joined(parts, first, last + 1)
        = FlattenSeq([i \in 1 .. (last + 1) - first + 1 |-> parts[first + i - 1]])
  BY Zenon DEF Joined
<1>6. Joined(parts, first, last + 1) = FlattenSeq(more)
  <2>1. (last + 1) - first + 1 = n + 1
    BY <1>1
  <2> QED
    BY <1>3, <1>5, <2>1, Zenon
<1>7. Len(few) = n /\ Len(more) = n + 1 /\ n + 1 \in Nat \ {0}
  BY <1>2, <1>3
<1>8. more[n + 1] = parts[last + 1] /\ \A i \in 1 .. n : few[i] = more[i]
  BY <1>1, <1>2, <1>3
<1>9. PICK g : Joins(more, n + 1, g)
  BY <1>7, JoinsExist
<1>10. FlattenSeq(more) = g[n + 1]
  BY <1>7, <1>9, FlattenIsJoined
<1>11. g[n + 1] = IF n + 1 = 1 THEN more[n + 1] ELSE g[n] \o more[n + 1]
  <2>1. n + 1 \in 1 .. n + 1 /\ (n + 1) - 1 = n
    OBVIOUS
  <2> QED
    BY <1>9, <2>1 DEF Joins
<1>12. CASE n = 0
  <2>1. FlattenSeq(few) = <<>>
    BY <1>1, <1>4, <1>12, JoinedNone
  <2>2. <<>> \o parts[last + 1] = parts[last + 1]
    BY ConcatEmptySeq
  <2> QED
    BY <1>4, <1>6, <1>8, <1>10, <1>11, <1>12, <2>1, <2>2
<1>13. CASE n # 0
  <2>1. PICK f : Joins(few, n, f)
    BY JoinsExist
  <2>2. FlattenSeq(few) = f[n]
    BY <1>7, <1>13, <2>1, FlattenIsJoined
  <2>3. f[n] = g[n]
    <3>1. PICK m \in Nat : m = n + 1
      OBVIOUS
    <3>2. /\ n <= m /\ n # 0
          /\ \A i \in 1 .. n : few[i] = more[i]
          /\ Joins(few, n, f) /\ Joins(more, m, g)
      BY <1>8, <1>9, <1>13, <2>1, <3>1
    <3> QED
      BY <3>2, JoinsAgree
  <2>4. g[n + 1] = g[n] \o more[n + 1]
    <3>1. n + 1 # 1
      BY <1>13
    <3> QED
      BY <1>11, <3>1, Zenon
  <2> QED
    BY <1>4, <1>6, <1>8, <1>10, <2>2, <2>3, <2>4, Zenon
<1> QED
  BY <1>12, <1>13

\* Only the parts in between count.
LEMMA JoinedSame ==
  ASSUME NEW parts, NEW others, NEW first \in Nat, NEW last \in Int,
         \A k \in first .. last : parts[k] = others[k]
  PROVE  Joined(parts, first, last) = Joined(others, first, last)
<1>1. \A i \in 1 .. last - first + 1 : first + i - 1 \in first .. last
  OBVIOUS
<1>2. \A i \in 1 .. last - first + 1 : parts[first + i - 1] = others[first + i - 1]
  BY <1>1
<1>3. [i \in 1 .. last - first + 1 |-> parts[first + i - 1]]
       = [i \in 1 .. last - first + 1 |-> others[first + i - 1]]
  BY <1>2, Zenon
<1> QED
  BY <1>3, Zenon DEF Joined

\* Sequences joined are a sequence.
LEMMA JoinedType ==
  ASSUME NEW S, NEW parts, NEW first \in Nat \ {0}, NEW last \in Int,
         \A k \in first .. last : parts[k] \in Seq(S)
  PROVE  Joined(parts, first, last) \in Seq(S)
<1>0. ASSUME NEW k \in Int, k < first PROVE Joined(parts, first, k) \in Seq(S)
  <2>1. first \in Int
    OBVIOUS
  <2>2. Joined(parts, first, k) = <<>>
    BY <1>0, <2>1, JoinedNone
  <2> QED
    BY <2>2
<1>1. CASE last < first
  BY <1>0, <1>1
<1>2. CASE first <= last
  <2> DEFINE bad == {k \in Nat : /\ first <= k /\ k <= last
                                 /\ Joined(parts, first, k) \notin Seq(S)}
  <2>1. last \in Nat
    BY <1>2
  <2>2. SUFFICES ASSUME bad # {} PROVE FALSE
    BY <1>2, <2>1
  <2>3. PICK k \in bad : \A j \in bad : k <= j
    <3>1. bad \subseteq Nat
      OBVIOUS
    <3> HIDE DEF bad
    <3> QED
      BY <2>2, <3>1, SmallestExists, Zenon
  <2>4. k \in Nat /\ first <= k /\ k <= last /\ Joined(parts, first, k) \notin Seq(S)
    BY <2>3
  <2>5. parts[k] \in Seq(S)
    BY <2>1, <2>4
  <2>6. PICK j \in Nat : k = j + 1
    BY <2>4
  <2>7. first \in Nat /\ first <= j + 1 /\ parts[j + 1] \in Seq(S)
    BY <2>4, <2>5, <2>6
  <2>8. Joined(parts, first, k) = Joined(parts, first, j) \o parts[k]
    BY <2>6, <2>7, JoinedOneMore
  <2>9. Joined(parts, first, j) \in Seq(S)
    <3>1. CASE first <= j
      <4>1. j \notin bad
        BY <2>3, <2>6
      <4> QED
        BY <2>4, <2>6, <3>1, <4>1
    <3>2. CASE j < first
      BY <1>0, <3>2
    <3> QED
      BY <3>1, <3>2
  <2> QED
    BY <2>4, <2>5, <2>8, <2>9, ConcatProperties
<1> QED
  BY <1>1, <1>2

\* A sequence is another with more of S behind it.
StartsWith(S, whole, s) == \E t \in Seq(S) : whole = s \o t

\* Several parts joined continue the first of them.
LEMMA JoinedFirst ==
  ASSUME NEW S, NEW parts, NEW first \in Nat \ {0}, NEW last \in Nat, first <= last,
         \A k \in first .. last : parts[k] \in Seq(S)
  PROVE  StartsWith(S, Joined(parts, first, last), parts[first])
<1>0. first \in Nat
  OBVIOUS
<1> DEFINE Follows(k) == \E t \in Seq(S) : Joined(parts, first, k) = parts[first] \o t
           bad == {k \in Nat : first <= k /\ k <= last /\ ~Follows(k)}
<1>a. SUFFICES Follows(last)
  BY DEF StartsWith
<1> HIDE DEF Follows
<1>1. SUFFICES ASSUME bad # {} PROVE FALSE
  OBVIOUS
<1>2. PICK k \in bad : \A j \in bad : k <= j
  <2>1. bad \subseteq Nat
    OBVIOUS
  <2> HIDE DEF bad
  <2> QED
    BY <1>1, <2>1, SmallestExists, Zenon
<1>3. k \in Nat /\ first <= k /\ k <= last /\ ~Follows(k)
  BY <1>2
<1>4. PICK j \in Nat : k = j + 1
  BY <1>3
<1>5. parts[k] \in Seq(S) /\ parts[first] \in Seq(S) /\ first <= j + 1 /\ parts[j + 1] \in Seq(S)
  BY <1>3, <1>4
<1>6. Joined(parts, first, k) = Joined(parts, first, j) \o parts[k]
  BY <1>0, <1>4, <1>5, JoinedOneMore
<1>7. CASE first = k
  <2>1. Joined(parts, first, j) = <<>>
    BY <1>0, <1>4, <1>7, JoinedNone
  <2>2. Joined(parts, first, k) = parts[first]
    BY <1>5, <1>6, <1>7, <2>1, ConcatEmptySeq
  <2>3. parts[first] = parts[first] \o <<>> /\ <<>> \in Seq(S)
    BY <1>5, ConcatEmptySeq, EmptySeq
  <2> QED
    BY <1>3, <2>2, <2>3 DEF Follows
<1>8. CASE first # k
  <2>1. j \notin bad /\ first <= j /\ j <= last
    BY <1>2, <1>3, <1>4, <1>8
  <2>2. PICK t \in Seq(S) : Joined(parts, first, j) = parts[first] \o t
    BY <2>1 DEF Follows
  <2>3. (parts[first] \o t) \o parts[k] = parts[first] \o (t \o parts[k])
    <3>1. PICK p \in Seq(S), q \in Seq(S) : p = parts[first] /\ q = parts[k]
      BY <1>5
    <3>2. (p \o t) \o q = p \o (t \o q)
      <4>1. Both(Both(p, t), q) = Both(p, Both(t, q))
        BY InAnyOrder
      <4> QED
        BY <4>1 DEF Both
    <3> QED
      BY <3>1, <3>2, Zenon
  <2>4. t \o parts[k] \in Seq(S)
    BY <1>5, ConcatProperties
  <2> QED
    BY <1>3, <1>6, <2>2, <2>3, <2>4 DEF Follows
<1> QED
  BY <1>7, <1>8

-----------------------------------------------------------------------------
(* The invariant. *)

\* What an origin server gets of each request made, if it gets all of it.
Messages == [k \in Made |-> ForwardedRequest(k)]

\* Those the current connection gets, up to the n-th.
UpTo(n) == Joined(Messages, Origin.request, n)

\* What is on its way to it, once the header of the request in hand has been
\* written or its tunnel is opened.
OnTheWay == to_origin \o (upgoing_buffer \o client.stream)

\* The current connection can still be written to, and was not made in vain.
Live ==
  /\ OriginConnected
  /\ timer_pending \/ state # "connect_to_origin_server"
  /\ Origin.open

\* A tunnel is the last that is asked, and nothing is sent before it is there.
TunnelsEnd ==
  /\ \A k \in Made : k # Asked => client.requests[k].method # "CONNECT"
  /\ client.tunnelled # 0 => state \in Tunnelling

\* Nothing of the request has been passed on before its header is written, and
\* nothing is being written when the proxy reads more of what it passes on.
Pristine ==
  /\ state \in Finding \cup {"write_http_request_header"} => Arriving = Latest
  /\ state \in Finding /\ Served.method = "CONNECT" => to_origin = <<>>
  /\ state \in {"report_connection_established", "read_http_request_content"} => to_origin = <<>>
  /\ state = "tunnel_transfer" /\ ops["read_client"] # "idle" => to_origin = <<>>

\* How far the current connection has come: everything up to the request in hand
\* has reached its server, or is on its way.
Stands ==
  Live =>
    /\ state \in Finding => Origin.received = UpTo(Asked - 1)
    /\ state \in Sending \cup Tunnelling => Origin.received \o OnTheWay = UpTo(Asked)
    /\ state \in Responding => Origin.received = UpTo(request_header)
    /\ state \in Waiting =>
         Origin.received = UpTo(IF Arriving = <<>> THEN Asked ELSE Asked - 1)

\* Each server has got the beginning of a run of consecutive requests.
RunsBegun ==
  \A c \in DOMAIN origins : \E rest \in Seq(Unit) :
    origins[c].received \o rest = Joined(Messages, origins[c].request, Asked)

RelayInvariant ==
  /\ TunnelsEnd
  /\ Pristine
  /\ Stands
  /\ RunsBegun

-----------------------------------------------------------------------------
(* Units, and the messages they make up. *)

\* Units of requests are units.
LEMMA UnitsAre ==
  ASSUME NEW K, K \subseteq Nat
  PROVE  /\ \A s \in Seq(SentOf(K)) : s \in Seq(Unit)
         /\ \A s \in Seq(PassedOf(K)) : s \in Seq(Unit)
<1>1. SentOf(K) \subseteq Unit /\ PassedOf(K) \subseteq Unit
  BY DEF SentOf, PassedOf, Unit, SentPart, Part
<1> QED
  BY <1>1, SeqMonotonic

\* What comes behind a whole header is passed on as it is.
LEMMA RewrittenOfBoth ==
  ASSUME NEW K, NEW s \in Seq(SentOf(K)), NEW t \in Seq(SentOf(K)), HeaderEnd(s) # 0
  PROVE  Rewritten(s \o t) = Rewritten(s) \o t
<1> DEFINE S == SentOf(K)
<1>1. s \o t \in Seq(S) /\ Len(s \o t) = Len(s) + Len(t)
      /\ \A i \in 1 .. Len(s) + Len(t) :
           (s \o t)[i] = IF i <= Len(s) THEN s[i] ELSE t[i - Len(s)]
  BY ConcatProperties
<1>2. HeaderEnd(s \o t) = HeaderEnd(s)
  BY <1>1, Beginning
<1>3. HeaderEnd(s) \in 1 .. Len(s) /\ Len(s) \in Nat /\ Len(t) \in Nat
  BY HeaderEndIsFirst
<1>4. PICK e \in Nat, m \in Nat, n \in Nat : e = HeaderEnd(s) /\ m = Len(s) /\ n = Len(t)
  BY <1>3
<1>5. PICK b : b = s \o t
  OBVIOUS
<1>6. e \in 1 .. m /\ b \in Seq(S) /\ Len(b) = m + n
  BY <1>1, <1>3, <1>4, <1>5
<1>7. b[e] = s[e]
  BY <1>1, <1>3, <1>4, <1>5
<1> DEFINE more == SubSeq(s, e + 1, m)
           all  == SubSeq(b, e + 1, m + n)
<1>8. /\ more \in Seq(S) /\ Len(more) = m - e
      /\ \A i \in 1 .. m - e : more[i] = s[e + i]
  <2>1. \A i \in e + 1 .. m : s[i] \in S
    BY <1>4, <1>6, ElementOfSeq
  <2>2. e + 1 \in Int /\ m \in Int
    OBVIOUS
  <2>3. /\ more \in Seq(S)
        /\ Len(more) = IF e + 1 <= m THEN m - (e + 1) + 1 ELSE 0
        /\ \A i \in 1 .. m - (e + 1) + 1 : more[i] = s[(e + 1) + i - 1]
    BY <2>1, <2>2, SubSeqProperties
  <2> HIDE DEF more
  <2> QED
    BY <2>3, <1>6
<1>9. /\ all \in Seq(S) /\ Len(all) = m + n - e
      /\ \A i \in 1 .. m + n - e : all[i] = b[e + i]
  <2>1. \A i \in e + 1 .. m + n : b[i] \in S
    BY <1>6, ElementOfSeq
  <2>2. e + 1 \in Int /\ m + n \in Int
    OBVIOUS
  <2>3. /\ all \in Seq(S)
        /\ Len(all) = IF e + 1 <= m + n THEN m + n - (e + 1) + 1 ELSE 0
        /\ \A i \in 1 .. m + n - (e + 1) + 1 : all[i] = b[(e + 1) + i - 1]
    BY <2>1, <2>2, SubSeqProperties
  <2> HIDE DEF all
  <2>4. e + 1 <= m + n \/ (e = m /\ n = 0)
    BY <1>6
  <2>5. m + n - (e + 1) + 1 = m + n - e /\ m + n - e \in Nat
    BY <1>6
  <2>6. Len(all) = m + n - e
    BY <2>3, <2>4, <2>5
  <2>7. \A i \in 1 .. m + n - e : (e + 1) + i - 1 = e + i
    BY <1>6
  <2> QED
    BY <2>3, <2>5, <2>6, <2>7
<1>10. Rewritten(s) = << [s[e] EXCEPT !.part = "header"] >> \o more
  BY <1>4 DEF Rewritten
<1>11. Rewritten(s \o t) = << [s[e] EXCEPT !.part = "header"] >> \o all
  <2>1. Rewritten(b) = << [b[HeaderEnd(b)] EXCEPT !.part = "header"] >>
                         \o SubSeq(b, HeaderEnd(b) + 1, Len(b))
    BY DEF Rewritten
  <2>2. HeaderEnd(b) = e
    BY <1>2, <1>4, <1>5
  <2> QED
    BY <1>5, <1>6, <1>7, <2>1, <2>2
<1> HIDE DEF more, all
<1>12. all = more \o t
  <2>1. /\ more \o t \in Seq(S) /\ Len(more \o t) = Len(more) + Len(t)
        /\ \A i \in 1 .. Len(more) + Len(t) :
             (more \o t)[i] = IF i <= Len(more) THEN more[i] ELSE t[i - Len(more)]
    BY <1>8, ConcatProperties
  <2>2. Len(all) = Len(more \o t)
    <3>1. Len(all) = m + n - e /\ Len(more) = m - e /\ Len(t) = n
      BY <1>4, <1>8, <1>9, Zenon
    <3>2. Len(more \o t) = (m - e) + n
      BY <2>1, <3>1, Zenon
    <3>3. m + n - e = (m - e) + n
      OBVIOUS
    <3> QED
      BY <3>1, <3>2, <3>3, Zenon
  <2>3. ASSUME NEW i \in 1 .. Len(all) PROVE all[i] = (more \o t)[i]
    <3>1. i \in 1 .. m + n - e /\ e + i \in 1 .. m + n
      BY <1>6, <1>9
    <3>2. all[i] = IF e + i <= m THEN s[e + i] ELSE t[(e + i) - m]
      BY <1>1, <1>4, <1>5, <1>9, <3>1
    <3>3. (more \o t)[i] = IF i <= m - e THEN more[i] ELSE t[i - (m - e)]
      <4>1. i \in 1 .. Len(more) + Len(t)
        BY <1>9, <2>1, <2>2
      <4>2. (more \o t)[i] = IF i <= Len(more) THEN more[i] ELSE t[i - Len(more)]
        BY <2>1, <4>1
      <4> QED
        BY <1>8, <4>2
    <3>4. CASE i <= m - e
      <4>1. i \in 1 .. m - e /\ e + i <= m
        BY <1>6, <3>1, <3>4
      <4> QED
        BY <1>8, <3>2, <3>3, <3>4, <4>1
    <3>5. CASE ~(i <= m - e)
      <4>1. (e + i) - m = i - (m - e) /\ ~(e + i <= m)
        BY <1>6, <3>1, <3>5
      <4> QED
        BY <3>2, <3>3, <3>5, <4>1
    <3> QED
      BY <3>4, <3>5
  <2> QED
    BY <1>9, <2>1, <2>2, <2>3, SeqEqual
<1>13. PICK h : h = [s[e] EXCEPT !.part = "header"]
  OBVIOUS
<1>14. h \in PassedOf(K)
  <2>1. s[e] \in SentOf(K)
    BY <1>4, <1>6, ElementOfSeq
  <2> QED
    BY <1>13, <2>1 DEF SentOf, PassedOf, Part
<1>15. /\ <<h>> \in Seq(PassedOf(K)) /\ more \in Seq(PassedOf(K)) /\ t \in Seq(PassedOf(K))
  <2>1. SentOf(K) \subseteq PassedOf(K)
    BY SentArePassed
  <2>2. more \in Seq(PassedOf(K)) /\ t \in Seq(PassedOf(K))
    BY <1>8, <2>1, SeqMonotonic
  <2> QED
    BY <1>14, <2>2
<1>16. (<<h>> \o more) \o t = <<h>> \o (more \o t)
  BY <1>15, ConcatAssociative
<1> QED
  BY <1>10, <1>11, <1>12, <1>13, <1>16, Zenon

\* What an origin server gets of a request: units of the request, none of a CONNECT
\* but those of its tunnel.
LEMMA MessageType ==
  ASSUME NEW k \in Nat, NEW r, r.head \in Nat \ {0}, r.content \in Seq(ContentPart),
         NEW t \in Nat, NEW w,
         w = IF r.method = "CONNECT" THEN [n \in 1 .. t |-> TunnelUnit(k, n)] ELSE Forwarded(k, r)
  PROVE  w \in Seq(PassedOf({k})) /\ w \in Seq(Unit) /\ (r.method # "CONNECT" => w # <<>>)
<1>1. SUFFICES w \in Seq(PassedOf({k})) /\ (r.method # "CONNECT" => w # <<>>)
  <2>1. {k} \subseteq Nat
    OBVIOUS
  <2> QED
    BY <2>1, UnitsAre, Zenon
<1>2. CASE r.method = "CONNECT"
  <2>1. PICK S : S = PassedOf({k})
    OBVIOUS
  <2>2. \A n \in 1 .. t : TunnelUnit(k, n) \in S
    BY <2>1 DEF TunnelUnit, PassedOf, Part
  <2>3. w = [n \in 1 .. t |-> TunnelUnit(k, n)]
    BY <1>2
  <2>4. w \in [1 .. t -> S]
    BY <2>2, <2>3
  <2>5. w \in Seq(S)
    BY <2>4, SeqDef
  <2> QED
    BY <1>2, <2>1, <2>5
<1>3. CASE r.method # "CONNECT"
  <2>1. PICK m : m = OnTheWire(k, r)
    OBVIOUS
  <2>2. m \in Seq(SentOf({k})) /\ HeaderEnd(m) # 0
    BY <2>1, OnTheWireType
  <2>3. Rewritten(m) \in Seq(PassedOf({k})) /\ Rewritten(m) # <<>>
    BY <2>2, RewrittenType
  <2> QED
    BY <1>3, <2>1, <2>3 DEF Forwarded
<1> QED
  BY <1>2, <1>3

\* The messages made.
LEMMA MessagesType ==
  ASSUME DataTypes
  PROVE  /\ DOMAIN Messages = Made /\ Asked \in Nat
         /\ \A k \in Made :
              /\ k \in Nat \ {0} /\ k <= Asked
              /\ Messages[k] \in Seq(PassedOf({k}))
              /\ Messages[k] \in Seq(Unit)
              /\ IF client.requests[k].method = "CONNECT"
                 THEN Messages[k] = [n \in 1 .. client.tunnelled |-> TunnelUnit(k, n)]
                 ELSE /\ Messages[k] = Forwarded(k, client.requests[k])
                      /\ Messages[k] # <<>>
<1>1. client.requests \in Seq(Requests) /\ client.tunnelled \in Nat
  BY DEF DataTypes
<1>2. Asked \in Nat /\ Made = 1 .. Asked
  BY <1>1 DEF Asked, Made
<1>3. ASSUME NEW k \in Made
      PROVE  /\ k \in Nat \ {0} /\ k <= Asked
             /\ Messages[k] \in Seq(PassedOf({k}))
             /\ Messages[k] \in Seq(Unit)
             /\ IF client.requests[k].method = "CONNECT"
                THEN Messages[k] = [n \in 1 .. client.tunnelled |-> TunnelUnit(k, n)]
                ELSE /\ Messages[k] = Forwarded(k, client.requests[k])
                     /\ Messages[k] # <<>>
  <2>1. k \in Nat \ {0} /\ k <= Asked
    BY <1>2
  <2>a. PICK t \in Nat : t = client.tunnelled
    BY <1>1
  <2>2. PICK r, w : r = client.requests[k] /\ w = Messages[k]
    OBVIOUS
  <2>3. r.head \in Nat \ {0} /\ r.content \in Seq(ContentPart)
    BY <1>1, <2>2, RequestType
  <2>4. w = IF r.method = "CONNECT" THEN [n \in 1 .. t |-> TunnelUnit(k, n)] ELSE Forwarded(k, r)
    BY <2>a, <2>2, Zenon DEF Messages, ForwardedRequest
  <2>5. w \in Seq(PassedOf({k})) /\ w \in Seq(Unit) /\ (r.method # "CONNECT" => w # <<>>)
    BY <2>1, <2>3, <2>4, MessageType
  <2> QED
    BY <2>1, <2>a, <2>2, <2>4, <2>5, Zenon
<1> QED
  BY <1>2, <1>3, Zenon DEF Messages

\* Messages joined are a sequence of units, and one more comes behind.
LEMMA MessagesJoined ==
  ASSUME DataTypes, NEW f \in Made, NEW n \in Int, n <= Asked
  PROVE  /\ Joined(Messages, f, n) \in Seq(Unit)
         /\ f <= n => Joined(Messages, f, n) = Joined(Messages, f, n - 1) \o Messages[n]
<1>1. PICK parts : parts = Messages
  OBVIOUS
<1>2. f \in Nat \ {0} /\ f \in Nat /\ Made = 1 .. Asked /\ Asked \in Nat
  BY MessagesType DEF Made, Asked
<1>3. \A k \in Made : parts[k] \in Seq(Unit)
  BY <1>1, MessagesType
<1>4. \A k \in f .. n : parts[k] \in Seq(Unit)
  BY <1>2, <1>3
<1>5. Joined(parts, f, n) \in Seq(Unit)
  BY <1>2, <1>4, JoinedType
<1>6. ASSUME f <= n
      PROVE  Joined(parts, f, n) = Joined(parts, f, n - 1) \o parts[n]
  <2>1. PICK last \in Nat : n = last + 1
    BY <1>2, <1>6
  <2>2. f <= last + 1 /\ parts[last + 1] \in Seq(Unit) /\ n - 1 = last
    BY <1>2, <1>4, <1>6, <2>1
  <2>3. Joined(parts, f, last + 1) = Joined(parts, f, last) \o parts[last + 1]
    BY <1>2, <2>2, JoinedOneMore
  <2> QED
    BY <2>1, <2>2, <2>3, Zenon
<1> QED
  BY <1>1, <1>5, <1>6, Zenon

-----------------------------------------------------------------------------
(* What becomes of the messages. *)

\* Only a client in its tunnel makes a message grow.
LEMMA OnlyTunnelsGrow ==
  ASSUME DataTypes, DataNext
  PROVE  /\ ClientTunnels \/ client'.tunnelled = client.tunnelled
         /\ AClientSends \/ client'.requests = client.requests
<1>1. CASE ~Arrives
  BY <1>1, OnlyArrivalsChangeEnvironment DEF environment
<1>2. CASE Arrives
  <2>1. client \in [requests : Seq(Requests), stream : Seq(SentOf(Made)),
                    received : Seq(ToldUnit), open : BOOLEAN, tunnelled : Nat]
    BY DEF DataTypes
  <2>2. \A new : /\ [client EXCEPT !.stream = new].tunnelled = client.tunnelled
                 /\ [client EXCEPT !.stream = new].requests = client.requests
                 /\ [client EXCEPT !.received = new].tunnelled = client.tunnelled
                 /\ [client EXCEPT !.received = new].requests = client.requests
                 /\ [client EXCEPT !.open = new].tunnelled = client.tunnelled
                 /\ [client EXCEPT !.open = new].requests = client.requests
    BY <2>1
  <2>3. CASE ClientDataRead
    <3>1. PICK new : client' = [client EXCEPT !.stream = new]
      BY <2>3, Zenon DEF ClientDataRead
    <3> QED
      BY <2>2, <3>1
  <2>4. CASE ClientDataWrite
    <3>1. client' = client \/ \E new : client' = [client EXCEPT !.received = new]
      BY <2>4, Zenon DEF ClientDataWrite
    <3> QED
      BY <2>2, <3>1
  <2>5. CASE ClientCloses
    BY <2>2, <2>5 DEF ClientCloses
  <2>6. CASE AClientSends
    <3>1. PICK r \in Requests : ClientSends(r)
      BY <2>6 DEF AClientSends
    <3>2. PICK a, b : client' = [client EXCEPT !.requests = a, !.stream = b]
      BY <3>1, Zenon DEF ClientSends
    <3>3. client'.tunnelled = client.tunnelled
      BY <2>1, <3>2
    <3> QED
      BY <2>6, <3>3
  <2>7. CASE ClientTunnels
    <3>1. PICK a, b : client' = [client EXCEPT !.tunnelled = a, !.stream = b]
      BY <2>7, Zenon DEF ClientTunnels
    <3>2. client'.requests = client.requests
      BY <2>1, <3>1
    <3> QED
      BY <2>7, <3>2
  <2>8. CASE \/ OriginDataRead \/ OriginDataWrite \/ EndpointConnected
             \/ (\E r \in Responses : OriginReplies(r)) \/ OriginTunnels \/ OriginCloses
    BY <2>8 DEF OriginDataRead, OriginDataWrite, EndpointConnected, OriginReplies, OriginTunnels,
       OriginCloses
  <2> QED
    BY <1>2, <2>3, <2>4, <2>5, <2>6, <2>7, <2>8 DEF Arrives, Peers, AClientSends
<1> QED
  BY <1>1, <1>2

\* Messages made stay as they are while nothing is sent through a tunnel.
LEMMA MessagesKept ==
  ASSUME DataTypes, DataNext, ~ClientTunnels
  PROVE  /\ \A k \in Made : k \in Made' /\ Messages'[k] = Messages[k]
         /\ \A f \in Made, n \in Int :
              n <= Asked => Joined(Messages', f, n) = Joined(Messages, f, n)
<1>1. ASSUME NEW k \in Made PROVE k \in Made' /\ Messages'[k] = Messages[k]
  <2>1. k \in Made' /\ client'.requests[k] = client.requests[k]
    BY RequestsGrow
  <2>2. client'.tunnelled = client.tunnelled
    BY OnlyTunnelsGrow
  <2>3. ForwardedRequest(k)' = ForwardedRequest(k)
    BY <2>1, <2>2 DEF ForwardedRequest
  <2> QED
    BY <2>1, <2>3 DEF Messages
<1>2. ASSUME NEW f \in Made, NEW n \in Int, n <= Asked
      PROVE  Joined(Messages', f, n) = Joined(Messages, f, n)
  <2>1. PICK parts, others : parts = Messages' /\ others = Messages
    OBVIOUS
  <2>2. f \in Nat /\ Made = 1 .. Asked /\ Asked \in Nat
    BY MessagesType DEF Made, Asked
  <2>3. \A k \in Made : parts[k] = others[k]
    BY <1>1, <2>1
  <2>4. \A k \in f .. n : parts[k] = others[k]
    BY <1>2, <2>2, <2>3, MessagesType
  <2>5. Joined(parts, f, n) = Joined(others, f, n)
    BY <2>2, <2>4, JoinedSame
  <2> QED
    BY <2>1, <2>5, Zenon
<1> QED
  BY <1>1, <1>2

\* The next request comes behind those before it.
LEMMA WhenOneMoreIsAsked ==
  ASSUME DataTypes, DataNext, NEW r \in Requests, ClientSends(r)
  PROVE  /\ Asked' = Asked + 1
         /\ client'.requests[Asked'] = r
         /\ client'.tunnelled = client.tunnelled
         /\ Messages'[Asked'] \in Seq(Unit)
         /\ \A f \in Made :
              Joined(Messages', f, Asked') = Joined(Messages, f, Asked) \o Messages'[Asked']
<1>1. /\ Len(client'.requests) = Len(client.requests) + 1
      /\ client'.requests[Len(client.requests) + 1] = r
  BY ClientSendsTypes
<1>2. Asked' = Asked + 1 /\ Asked \in Nat /\ client'.requests[Asked'] = r /\ Asked' \in Made'
  <2>1. Asked \in Nat
    BY MessagesType
  <2> QED
    BY <1>1, <2>1 DEF Asked, Made
<1>3. ~ClientTunnels
  <2>1. client.requests \in Seq(Requests)
    BY DEF DataTypes
  <2>2. ClientTunnels => client'.requests = client.requests
    <3>1. SUFFICES ASSUME ClientTunnels PROVE client'.requests = client.requests
      OBVIOUS
    <3>2. PICK a, b : client' = [client EXCEPT !.tunnelled = a, !.stream = b]
      BY <3>1, Zenon DEF ClientTunnels
    <3>3. client \in [requests : Seq(Requests), stream : Seq(SentOf(Made)),
                      received : Seq(ToldUnit), open : BOOLEAN, tunnelled : Nat]
      BY DEF DataTypes
    <3> QED
      BY <3>2, <3>3
  <2> QED
    BY <1>2, <2>2 DEF Asked
<1>4. client'.tunnelled = client.tunnelled
  BY <1>3, OnlyTunnelsGrow
<1>5. Messages'[Asked'] \in Seq(Unit)
  <2>1. PICK k \in Nat, t \in Nat : k = Asked' /\ t = client.tunnelled
    <3>1. client.tunnelled \in Nat
      BY DEF DataTypes
    <3>2. Asked' \in Nat
      BY <1>2
    <3> QED
      BY <3>1, <3>2
  <2>2. PICK w : w = Messages'[Asked']
    OBVIOUS
  <2>3. r.head \in Nat \ {0} /\ r.content \in Seq(ContentPart)
    BY MessagesAssumption DEF Request
  <2>4. Messages'[Asked'] = ForwardedRequest(k)'
    BY <1>2, <2>1 DEF Messages
  <2>5. w = IF r.method = "CONNECT" THEN [n \in 1 .. t |-> TunnelUnit(k, n)] ELSE Forwarded(k, r)
    BY <1>2, <1>4, <2>1, <2>2, <2>4, Zenon DEF ForwardedRequest
  <2> QED
    BY <2>2, <2>3, <2>5, MessageType
<1>6. ASSUME NEW f \in Made
      PROVE  Joined(Messages', f, Asked') = Joined(Messages, f, Asked) \o Messages'[Asked']
  <2>1. PICK parts : parts = Messages'
    OBVIOUS
  <2>2. PICK n \in Nat : n = Asked
    BY <1>2
  <2>3. f \in Nat /\ f <= n + 1 /\ parts[n + 1] \in Seq(Unit)
    <3>1. f \in Nat /\ f <= Asked
      BY MessagesType
    <3>2. n + 1 = Asked'
      BY <1>2, <2>2
    <3>3. parts[n + 1] \in Seq(Unit)
      BY <1>5, <2>1, <3>2, Zenon
    <3> QED
      BY <2>2, <3>1, <3>3
  <2>4. Joined(parts, f, n + 1) = Joined(parts, f, n) \o parts[n + 1]
    BY <2>3, JoinedOneMore
  <2>5. Joined(Messages', f, Asked) = Joined(Messages, f, Asked)
    BY <1>2, <1>3, MessagesKept
  <2> QED
    BY <1>2, <2>1, <2>2, <2>4, <2>5
<1> QED
  BY <1>2, <1>4, <1>5, <1>6

\* What a client sends through its tunnel comes behind everything else.
LEMMA WhenTunnelGrows ==
  ASSUME DataInvariant, RequestInvariant, TunnelsEnd, ClientTunnels, DataNext
  PROVE  /\ Asked' = Asked /\ Made' = Made /\ client'.requests = client.requests
         /\ \A f \in Made, n \in Int :
              n < Asked => Joined(Messages', f, n) = Joined(Messages, f, n)
         /\ \E u \in Unit :
              /\ client'.stream = client.stream \o <<u>>
              /\ \A f \in Made :
                   Joined(Messages', f, Asked) = Joined(Messages, f, Asked) \o <<u>>
<1>0. DataTypes
  BY DEF DataInvariant
<1>1. /\ state \in Tunnelling /\ request_header = Asked /\ Asked \in Made
      /\ client'.requests = client.requests
  BY WhenClientTunnels
<1>2. client.requests[Asked].method = "CONNECT"
  BY <1>1 DEF DataInvariant, RequestInHand, Serving, Served
<1>3. Asked' = Asked /\ Made' = Made /\ Made = 1 .. Asked /\ Asked \in Nat
  BY <1>0, <1>1, MessagesType DEF Asked, Made
<1>4. PICK t \in Nat : t = client.tunnelled
  BY <1>0 DEF DataTypes
<1>5. PICK u : u = TunnelUnit(Asked, t + 1)
  OBVIOUS
<1>6. u \in Unit
  BY <1>3, <1>5 DEF TunnelUnit, Unit, Part
<1>7. client'.tunnelled = t + 1 /\ client'.stream = Append(client.stream, u)
  <2>1. client' = [client EXCEPT !.tunnelled = t + 1, !.stream = Append(@, u)]
    BY <1>4, <1>5, Zenon DEF ClientTunnels, Asked
  <2>2. client \in [requests : Seq(Requests), stream : Seq(SentOf(Made)),
                    received : Seq(ToldUnit), open : BOOLEAN, tunnelled : Nat]
    BY <1>0 DEF DataTypes
  <2>3. PICK s : s = Append(client.stream, u)
    OBVIOUS
  <2>4. client' = [client EXCEPT !.tunnelled = t + 1, !.stream = s]
    BY <2>1, <2>3, Zenon
  <2> QED
    BY <2>2, <2>3, <2>4
<1>8. client'.stream = client.stream \o <<u>>
  <2>1. client.stream \in Seq(Unit)
    <3>1. Made \subseteq Nat /\ client.stream \in Seq(SentOf(Made))
      BY <1>0, <1>3 DEF DataTypes
    <3> QED
      BY <3>1, UnitsAre
  <2> QED
    BY <1>6, <1>7, <2>1, AppendIsConcat
<1>9. ASSUME NEW k \in Made, k # Asked PROVE Messages'[k] = Messages[k]
  <2>1. client.requests[k].method # "CONNECT"
    BY <1>9 DEF TunnelsEnd
  <2>2. ForwardedRequest(k)' = ForwardedRequest(k)
    BY <1>1, <2>1 DEF ForwardedRequest
  <2> QED
    BY <1>3, <2>2 DEF Messages
<1>10. Messages'[Asked] = Messages[Asked] \o <<u>>
  <2>1. PICK a, b : /\ a = [n \in 1 .. t |-> TunnelUnit(Asked, n)]
                    /\ b = [n \in 1 .. t + 1 |-> TunnelUnit(Asked, n)]
    OBVIOUS
  <2>2. Messages[Asked] = a
    BY <1>0, <1>1, <1>2, <1>4, <2>1, MessagesType
  <2>3. Messages'[Asked] = b
    <3>1. Messages'[Asked] = ForwardedRequest(Asked)'
      BY <1>1, <1>3 DEF Messages
    <3>2. ForwardedRequest(Asked)' = [n \in 1 .. client'.tunnelled |-> TunnelUnit(Asked, n)]
      BY <1>1, <1>2, <1>3, Zenon DEF ForwardedRequest
    <3> QED
      BY <1>7, <2>1, <3>1, <3>2
  <2>4. PICK S : S = Unit
    OBVIOUS
  <2>5. a \in Seq(S) /\ Len(a) = t /\ \A n \in 1 .. t : a[n] = TunnelUnit(Asked, n)
    <3>1. \A n \in 1 .. t : TunnelUnit(Asked, n) \in S
      BY <1>3, <2>4 DEF TunnelUnit, Unit, Part
    <3>2. a \in [1 .. t -> S]
      BY <2>1, <3>1
    <3> QED
      BY <2>1, <3>2, SeqDef
  <2>6. b \in Seq(S) /\ Len(b) = t + 1 /\ \A n \in 1 .. t + 1 : b[n] = TunnelUnit(Asked, n)
    <3>1. \A n \in 1 .. t + 1 : TunnelUnit(Asked, n) \in S
      BY <1>3, <2>4 DEF TunnelUnit, Unit, Part
    <3>2. b \in [1 .. t + 1 -> S]
      BY <2>1, <3>1
    <3> QED
      BY <2>1, <3>2, SeqDef
  <2>7. PICK c : c = Append(a, u)
    OBVIOUS
  <2>8. c \in Seq(S) /\ Len(c) = t + 1 /\ (\A n \in 1 .. t : c[n] = a[n]) /\ c[t + 1] = u
    BY <1>6, <2>4, <2>5, <2>7, AppendProperties
  <2>9. \A n \in 1 .. t + 1 : b[n] = c[n]
    BY <1>5, <2>5, <2>6, <2>8
  <2>10. b = c
    BY <2>6, <2>8, <2>9, SeqEqual
  <2>11. c = a \o <<u>>
    BY <1>6, <2>4, <2>5, <2>7, AppendIsConcat
  <2> QED
    BY <2>2, <2>3, <2>10, <2>11
<1>11. ASSUME NEW f \in Made, NEW n \in Int, n < Asked
       PROVE  Joined(Messages', f, n) = Joined(Messages, f, n)
  <2>1. PICK parts, others : parts = Messages' /\ others = Messages
    OBVIOUS
  <2>2. f \in Nat
    BY <1>3
  <2>3. \A k \in f .. n : k \in Made /\ k # Asked
    BY <1>3, <1>11
  <2>4. \A k \in f .. n : parts[k] = others[k]
    BY <1>9, <2>1, <2>3
  <2>5. Joined(parts, f, n) = Joined(others, f, n)
    BY <2>2, <2>4, JoinedSame
  <2> QED
    BY <2>1, <2>5, Zenon
<1>12. ASSUME NEW f \in Made
       PROVE  Joined(Messages', f, Asked) = Joined(Messages, f, Asked) \o <<u>>
  <2>1. PICK parts, others : parts = Messages' /\ others = Messages
    OBVIOUS
  <2>2. PICK n \in Nat : n = Asked - 1
    BY <1>1, <1>3
  <2>3. f \in Nat /\ f <= n + 1 /\ n + 1 = Asked /\ n < Asked /\ n \in Int
    BY <1>3, <2>2
  <2>4. others[n + 1] \in Seq(Unit)
    BY <1>0, <1>1, <2>1, <2>3, MessagesType
  <2>5. <<u>> \in Seq(Unit)
    BY <1>6
  <2>6. parts[n + 1] = others[n + 1] \o <<u>> /\ parts[n + 1] \in Seq(Unit)
    BY <1>10, <2>1, <2>3, <2>4, <2>5, ConcatProperties
  <2>7. Joined(parts, f, n + 1) = Joined(parts, f, n) \o parts[n + 1]
    BY <2>3, <2>6, JoinedOneMore
  <2>8. Joined(others, f, n + 1) = Joined(others, f, n) \o others[n + 1]
    BY <2>3, <2>4, JoinedOneMore
  <2>9. Joined(parts, f, n) = Joined(others, f, n)
    BY <1>11, <2>1, <2>3
  <2>10. Joined(others, f, n) \in Seq(Unit)
    <3>1. n <= Asked
      BY <2>3
    <3>2. Joined(Messages, f, n) \in Seq(Unit)
      BY <1>0, <2>3, <3>1, MessagesJoined
    <3> QED
      BY <2>1, <3>2, Zenon
  <2>11. (Joined(others, f, n) \o others[n + 1]) \o <<u>>
           = Joined(others, f, n) \o (others[n + 1] \o <<u>>)
    <3>1. PICK p \in Seq(Unit), q \in Seq(Unit), v \in Seq(Unit) :
            p = Joined(others, f, n) /\ q = others[n + 1] /\ v = <<u>>
      BY <2>4, <2>5, <2>10
    <3>2. (p \o q) \o v = p \o (q \o v)
      BY ConcatAssociative
    <3> QED
      BY <3>1, <3>2, Zenon
  <2> QED
    BY <2>1, <2>3, <2>6, <2>7, <2>8, <2>9, <2>11, Zenon
<1> QED
  BY <1>1, <1>3, <1>6, <1>8, <1>11, <1>12

-----------------------------------------------------------------------------
(* What becomes of the current connection. *)

\* An origin server that has closed its end does not open it again.
LEMMA OpenBefore ==
  ASSUME DataTypes, DataNext, ~EndpointConnected, origins # <<>>, Origin'.open
  PROVE  Origin.open
<1>1. CASE UNCHANGED origins
  BY <1>1 DEF Origin
<1>2. CASE OriginReplies(CHOOSE r \in Responses : OriginReplies(r)) \/ OriginTunnels \/ OriginCloses
  BY <1>2 DEF OriginReplies, OriginTunnels, OriginCloses, OriginLives
<1>3. CASE OriginDataRead \/ OriginDataWrite
  <2>1. Origin \in ServerOf(Made)
    BY OriginWritten, OriginType DEF DataTypes
  <2>2. ASSUME NEW record, OriginIs(record) PROVE Origin' = record
    <3>1. Len(origins') = Len(origins) /\ origins'[Len(origins)] = record
      BY <2>2, OriginWritten
    <3> QED
      BY <3>1 DEF Origin, Last
  <2>3. \A new : /\ [Origin EXCEPT !.stream = new].open = Origin.open
                 /\ [Origin EXCEPT !.received = new].open = Origin.open
    BY <2>1 DEF ServerOf
  <2>4. CASE OriginDataRead
    <3>1. PICK new : OriginIs([Origin EXCEPT !.stream = new])
      BY <2>4, Zenon DEF OriginDataRead
    <3> QED
      BY <2>2, <2>3, <3>1
  <2>5. CASE OriginDataWrite
    <3>1. OriginIs(Origin) \/ \E new : OriginIs([Origin EXCEPT !.received = new])
      BY <2>5, Zenon DEF OriginDataWrite
    <3> QED
      BY <2>2, <2>3, <3>1
  <2> QED
    BY <1>3, <2>4, <2>5
<1>4. CASE ~Arrives
  <2>1. UNCHANGED origins
    BY <1>4, OnlyArrivalsChangeEnvironment DEF environment
  <2> QED
    BY <1>1, <2>1
<1>5. CASE ClientDataRead \/ ClientDataWrite \/ AClientSends \/ ClientTunnels \/ ClientCloses
  <2>1. UNCHANGED origins
    BY <1>5 DEF ClientDataRead, ClientDataWrite, AClientSends, ClientSends, ClientTunnels,
       ClientCloses
  <2> QED
    BY <1>1, <2>1
<1> QED
  BY <1>2, <1>3, <1>4, <1>5 DEF Arrives, Peers, AClientSends

\* A connection that can be written to was so before, and has got what was written
\* to it meanwhile; or it has just been made.
LEMMA HowLive ==
  ASSUME ControlInvariant, DataInvariant, DataNext, Live', ~EndpointConnected
  PROVE  /\ Live
         /\ Origin \in ServerOf(Made) /\ Origin.request \in Made
         /\ Origin'.request = Origin.request
         /\ Origin'.received = Origin.received \/ Receives(Origin, Origin')
         /\ ~Reconnecting /\ ~TriesEndpoint
<1>0. DataTypes /\ OnlyItsOperations /\ ControlTypeOK /\ RequestInHand
  BY DEF DataInvariant, ControlInvariant
<1>1. "connect" \in Operation
      /\ \A p \in {"read_client", "write_client", "read_origin", "write_origin", "resolve"} :
           p # "connect"
  BY DEF Operation
<1>2. ops["connect"] # "idle" => state = "connect_to_origin_server"
  BY <1>0, <1>1, OutstandingMeans, StatesOfOutstanding
<1>3. /\ origins' # <<>> /\ origin_server_socket' = "open"
      /\ ops'["connect"] \notin {"pending", "error"}
      /\ timer_pending' \/ state' # "connect_to_origin_server"
      /\ Origin'.open
  BY DEF Live, OriginConnected
<1>4. origins # <<>> /\ Len(origins') = Len(origins)
  <2>1. DOMAIN origins' = DOMAIN origins /\ Len(origins') = Len(origins)
    BY <1>0, OriginsGrow
  <2> QED
    BY <1>3, <2>1
<1>5. Origin.open
  BY <1>0, <1>3, <1>4, OpenBefore
<1>6. /\ Origin \in ServerOf(Made) /\ Origin.request \in Made
      /\ Origin'.request = Origin.request
      /\ Origin'.received = Origin.received \/ Receives(Origin, Origin')
  <2>1. Len(origins) \in DOMAIN origins /\ Origin = origins[Len(origins)]
    BY <1>0, <1>4, OriginType, LenProperties DEF DataTypes
  <2>2. MayBecome(origins[Len(origins)], origins'[Len(origins)])
    BY <1>0, <2>1, OriginsGrow
  <2>3. Origin' = origins'[Len(origins)]
    BY <1>4 DEF Origin, Last
  <2>4. Origin \in ServerOf(Made) /\ Origin.request \in Made
    BY <1>0, <2>1, RecordsType
  <2> QED
    BY <2>1, <2>2, <2>3, <2>4, Zenon DEF MayBecome
<1>7. ~Reconnecting
  BY <1>3 DEF Reconnecting, Resolves
<1>8. ~TriesEndpoint
  <2>1. TriesEndpoint => ops'["connect"] = "pending"
    BY <1>1 DEF TriesEndpoint, Ran
  <2> QED
    BY <1>3, <2>1
<1>9. SUFFICES /\ origin_server_socket = "open"
               /\ ops["connect"] \notin {"pending", "error"}
               /\ timer_pending \/ state # "connect_to_origin_server"
  BY <1>4, <1>5, <1>6, <1>7, <1>8 DEF Live, OriginConnected
<1>10. CASE Rests
  <2>1. /\ state' = state
        /\ timer_pending' => timer_pending
        /\ origin_server_socket' = "open" => origin_server_socket = "open"
        /\ Settles("connect")
    BY <1>10 DEF Rests, Stays, Becomes
  <2>2. CASE ops'["connect"] = ops["connect"]
    BY <1>3, <2>1, <2>2
  <2>3. CASE ops["connect"] # ops'["connect"]
    <3>1. state = "connect_to_origin_server"
      BY <1>2, <2>1, <2>3 DEF Settles
    <3>2. ops'["connect"] = "error" \/ ~timer_pending'
      BY <2>1, <2>3 DEF Settles
    <3> QED
      BY <1>3, <2>1, <3>1, <3>2
  <2> QED
    BY <2>2, <2>3
<1>11. CASE Arrives
  <2>1. UNCHANGED <<timer_pending, origin_server_socket>> /\ state' = state
    BY <1>0, <1>11, ArrivalsLeave DEF Stays, Becomes
  <2>2. ops'["connect"] = ops["connect"]
    BY <1>0, <1>1, <1>11, ArrivalsLeave
  <2> QED
    BY <1>3, <2>1, <2>2
<1>12. CASE ResolvedToKept
  <2>1. /\ Ran("resolve", "ok", {"write_origin"}) \/ Ran("resolve", "ok", {"write_client"})
        /\ state = "resolve_origin_server_address" /\ origin_server_socket = "open"
    BY <1>12 DEF ResolvedToKept, SendsRequest, OpensTunnel, Becomes
  <2>2. ops'["connect"] = ops["connect"]
    BY <1>0, <1>1, <2>1, RanLeaves
  <2> QED
    BY <1>3, <2>1, <2>2
<1>13. CASE ConnectedTo
  <2>1. timer_pending /\ ops["connect"] = "ok" /\ UNCHANGED origin_server_socket
    BY <1>13 DEF ConnectedTo, SendsRequest, OpensTunnel, Ran
  <2> QED
    BY <1>3, <2>1
<1>14. CASE NotConnected
  <2>1. state = "resolve_origin_server_address" /\ ReportsError("resolve", "error")
        /\ UNCHANGED origin_server_socket
    BY <1>3, <1>14 DEF NotConnected
  <2>2. ops'["connect"] = ops["connect"]
    BY <1>0, <1>1, <2>1, RanLeaves DEF ReportsError
  <2> QED
    BY <1>3, <2>1, <2>2
<1>15. CASE TakenOnKept \/ TakenAnew
  <2>1. /\ Ran("read_client", "ok", {"write_origin"}) \/ Ran("read_client", "ok", {"resolve"})
        /\ state = "read_http_request_header"
        /\ origin_server_socket' = "open" => origin_server_socket = "open"
    BY <1>15 DEF TakenOnKept, TakenAnew, RequestTaken, SendsRequest, Resolves
  <2>2. ops'["connect"] = ops["connect"]
    BY <1>0, <1>1, <2>1, RanLeaves
  <2> QED
    BY <1>3, <2>1, <2>2
<1>16. CASE \/ Begun \/ RequestGrows \/ PassesContent \/ PassesUp \/ OriginTook \/ ResponseGrows
            \/ RelaysHeader \/ RelaysContent \/ PassesDown \/ AwaitsContent \/ AwaitsRequest
            \/ StartsTunnel
  <2>1. /\ \E o \in {"read_client", "write_client", "read_origin", "write_origin"} : \E result :
             \/ \E next \in {{"read_client"}, {"write_client"}, {"read_origin"}, {"write_origin"},
                             {"read_client", "read_origin"}} : Ran(o, result, next)
             \/ RanOut(o, result)
             \/ ops' = [ops EXCEPT !["read_client"] = "pending"] /\ UNCHANGED environment
    BY <1>16 DEF Begun, RequestGrows, PassesContent, PassesUp, OriginTook, ResponseGrows,
       RelaysHeader, RelaysContent, PassesDown, AwaitsContent, AwaitsRequest, StartsTunnel,
       ReportsError
  <2>2. ops'["connect"] = ops["connect"]
    BY <1>0, <1>1, <2>1, RanLeaves DEF ControlTypeOK
  <2>3. origin_server_socket' = "open" => origin_server_socket = "open"
    BY <1>16 DEF Begun, RequestGrows, PassesContent, PassesUp, OriginTook, ResponseGrows,
       RelaysHeader, RelaysContent, PassesDown, AwaitsContent, AwaitsRequest, StartsTunnel
  <2>4. state # "connect_to_origin_server"
    BY <1>16 DEF Begun, RequestGrows, PassesContent, PassesUp, OriginTook, ResponseGrows,
       RelaysHeader, RelaysContent, PassesDown, AwaitsContent, AwaitsRequest, StartsTunnel, Writing
  <2> QED
    BY <1>3, <2>2, <2>3, <2>4
<1> QED
  BY <1>7, <1>8, <1>10, <1>11, <1>12, <1>13, <1>14, <1>15, <1>16 DEF DataNext

-----------------------------------------------------------------------------
(* The invariant is preserved, conjunct by conjunct. *)

\* A tunnel that is open stays, and is all that the connection is for.
LEMMA TunnelsEndPreserved ==
  ASSUME ControlInvariant, DataInvariant, RequestInvariant, TunnelsEnd, DataNext
  PROVE  TunnelsEnd'
<1>0. DataTypes
  BY DEF DataInvariant
<1>1. ASSUME NEW k \in Made', k # Asked'
      PROVE  client'.requests[k].method # "CONNECT"
  <2>1. CASE ~AClientSends
    <3>1. client'.requests = client.requests
      BY <1>0, <2>1, OnlyTunnelsGrow
    <3> QED
      BY <1>1, <3>1 DEF TunnelsEnd, Made, Asked
  <2>2. CASE AClientSends
    <3>1. PICK r \in Requests : ClientSends(r)
      BY <2>2 DEF AClientSends
    <3>2. Asked' = Asked + 1 /\ Asked \in Nat /\ Made = 1 .. Asked /\ Made' = 1 .. Asked'
      BY <1>0, <3>1, WhenOneMoreIsAsked, MessagesType DEF Asked, Made
    <3>3. k \in Made
      BY <1>1, <3>2
    <3>4. client'.requests[k] = client.requests[k]
      BY <1>0, <3>3, RequestsGrow
    <3>5. CASE k # Asked
      BY <3>3, <3>4, <3>5 DEF TunnelsEnd
    <3>6. CASE k = Asked
      <4>1. Asked > 0
        BY <3>2, <3>3, <3>6
      <4>2. Answered(Asked)
        BY <3>1, <4>1 DEF ClientSends, Asked
      <4>3. Asked <= Len(replies) /\ Len(replies) <= Asked /\ Len(replies) \in Nat
        BY <1>0, <4>2 DEF Answered, DataTypes, Asked
      <4>4. Len(replies) = Asked
        BY <3>2, <4>3
      <4> QED
        BY <3>4, <3>6, <4>1, <4>4 DEF RequestInvariant, WrittenInHand
    <3> QED
      BY <3>5, <3>6
  <2> QED
    BY <2>1, <2>2
<1>2. ASSUME client'.tunnelled # 0 PROVE state' \in Tunnelling
  <2>1. CASE ClientTunnels
    <3>1. state \in Tunnelling
      BY <2>1, WhenClientTunnels
    <3>2. UNCHANGED connection_context
      BY <2>1 DEF ClientTunnels, proxy
    <3> QED
      BY <3>1, <3>2 DEF state
  <2>2. CASE ~ClientTunnels
    <3>1. state \in Tunnelling
      BY <1>0, <1>2, <2>2, OnlyTunnelsGrow DEF TunnelsEnd
    <3>2. CASE Still
      BY <3>1, <3>2 DEF Still
    <3>3. CASE RequestGrows \/ TakenOnKept \/ TakenAnew \/ PassesContent \/ AwaitsRequest
      BY <3>1, <3>3 DEF RequestGrows, TakenOnKept, TakenAnew, RequestTaken, PassesContent,
         AwaitsRequest, Tunnelling
    <3>4. CASE PassesUp \/ Arrives
      BY <3>1, <3>4 DEF PassesUp, Arrives, Stays, Becomes
    <3> QED
      BY <3>2, <3>3, <3>4, StillMoves
  <2> QED
    BY <2>1, <2>2
<1> QED
  BY <1>1, <1>2 DEF TunnelsEnd

\* A request is passed on from a state in which none of it was.
LEMMA FromTheBeginning ==
  ASSUME DataNext, state' \in Finding \cup {"write_http_request_header"}
  PROVE  state \in Finding \cup {"write_http_request_header"} \/ TakenOnKept \/ TakenAnew
<1>1. CASE Rests \/ Arrives \/ PassesUp \/ PassesDown
  BY <1>1 DEF Rests, Arrives, PassesUp, PassesDown, Stays, Becomes
<1>2. CASE Begun \/ RequestGrows
  BY <1>2 DEF Begun, RequestGrows, ReportsError, Stays, Turns, Becomes, Finding
<1>3. CASE Reconnecting \/ ResolvedToKept \/ TriesEndpoint \/ ConnectedTo
  BY <1>3 DEF Reconnecting, Reconnects, ResolvedToKept, TriesEndpoint, ConnectedTo, Finding
<1>4. CASE NotConnected \/ PassesContent \/ AwaitsContent \/ AwaitsRequest \/ StartsTunnel
  BY <1>4 DEF NotConnected, PassesContent, AwaitsContent, AwaitsRequest, StartsTunnel,
     ReportsError, Turns, Becomes, Finding
<1>5. CASE OriginTook
  BY <1>5 DEF OriginTook, Becomes, Finding, Writing
<1>6. CASE ResponseGrows \/ RelaysHeader \/ RelaysContent
  BY <1>6 DEF ResponseGrows, RelaysHeader, RelaysContent, ReportsError, Stays, Turns, Becomes,
     Finding
<1> QED
  BY <1>1, <1>2, <1>3, <1>4, <1>5, <1>6 DEF DataNext

\* When a request is accepted, what arrives is the whole of it.
LEMMA WholeWhenTaken ==
  ASSUME DataInvariant, RequestInvariant, RequestTaken, UNCHANGED environment
  PROVE  Arriving = Latest /\ Arriving' = Latest /\ Latest' = Latest /\ Arriving # <<>>
<1>1. /\ request_data' = request_data \o upgoing_buffer /\ upgoing_buffer' = <<>>
      /\ HeaderEnd(request_data') # 0 /\ state = "read_http_request_header"
      /\ UNCHANGED client
  BY DEF RequestTaken, environment
<1>2. PICK a, b, c : a = request_data /\ b = upgoing_buffer /\ c = client.stream
  OBVIOUS
<1>3. PICK S : S = SentOf(Made)
  OBVIOUS
<1>4. a \in Seq(S) /\ b \in Seq(S) /\ c \in Seq(S)
  BY <1>2, <1>3 DEF DataInvariant, DataTypes
<1>5. a \o b \in Seq(S) /\ HeaderEnd(a \o b) # 0
  BY <1>1, <1>2, <1>4, ConcatProperties
<1>6. a \o b # <<>>
  <2>1. HeaderEnd(a \o b) \in 0 .. Len(a \o b)
    BY <1>5, HeaderEndIsFirst
  <2>2. Len(<<>>) = 0
    OBVIOUS
  <2> QED
    BY <1>5, <2>1, <2>2
<1>7. (a \o b) \o c # <<>>
  BY <1>4, <1>5, <1>6, ConcatEqualIffEmpty
<1>8. Arriving = (a \o b) \o c
  BY <1>2, Zenon DEF Arriving
<1>9. Arriving = Latest
  BY <1>1, <1>7, <1>8 DEF RequestInvariant, RequestAwaited, Waiting
<1>10. Arriving' = Arriving
  <2>1. (a \o b) \o <<>> = a \o b
    BY <1>5, ConcatEmptySeq
  <2>2. Arriving' = ((a \o b) \o <<>>) \o c
    BY <1>1, <1>2, Zenon DEF Arriving
  <2> QED
    BY <1>8, <2>1, <2>2
<1> QED
  BY <1>1, <1>7, <1>8, <1>9, <1>10 DEF Latest, Asked

\* While its header has not been written, what arrived of a request is all of it.
LEMMA UntouchedPreserved ==
  ASSUME ControlInvariant, DataInvariant, RequestInvariant, Pristine, DataNext,
         state' \in Finding \cup {"write_http_request_header"}
  PROVE  Arriving' = Latest'
<1>0. DataTypes
  BY DEF DataInvariant
<1>1. CASE TakenOnKept \/ TakenAnew
  <2>1. RequestTaken /\ UNCHANGED environment
    BY <1>1 DEF TakenOnKept, TakenAnew, SendsRequest, Resolves, Ran
  <2> QED
    BY <2>1, WholeWhenTaken
<1>2. CASE ~(TakenOnKept \/ TakenAnew)
  <2>1. state \in Finding \cup {"write_http_request_header"}
    BY <1>2, FromTheBeginning
  <2>2. Arriving = Latest
    BY <2>1 DEF Pristine
  <2>3. CASE Still
    BY <2>2, <2>3 DEF Still, request, environment, Arriving, Latest, Asked
  <2>4. CASE Arrives
    <3>1. UNCHANGED request_data
      BY <1>0, <2>4, ArrivalsKeep DEF request
    <3>2. ~ClientDataRead /\ ~ClientTunnels
      BY <2>1, WhenClientIsRead, WhenClientTunnels DEF Finding, Tunnelling
    <3>3. ~AClientSends
      <4>1. state \in Serving \ Relaying
        BY <2>1 DEF Serving, Relaying, Responding, Finding, Sending
      <4> QED
        BY <4>1, WhenClientSends DEF AClientSends
    <3>4. UNCHANGED upgoing_buffer /\ client'.stream = client.stream
          /\ client'.requests = client.requests
      BY <1>0, <2>4, <3>2, <3>3, ArrivalsKeep
    <3> QED
      BY <2>2, <3>1, <3>4 DEF Arriving, Latest, Asked
  <2>5. CASE RequestGrows \/ PassesContent \/ PassesUp \/ AwaitsRequest
    BY <2>1, <2>5 DEF RequestGrows, PassesContent, PassesUp, AwaitsRequest, Finding
  <2> QED
    BY <1>2, <2>3, <2>4, <2>5, StillMoves
<1> QED
  BY <1>1, <1>2

\* The environment's steps write nothing, except to a server in its turn.
LEMMA ArrivalsWrite ==
  ASSUME ControlInvariant, DataInvariant, RequestInvariant, Arrives
  PROVE  /\ UNCHANGED to_origin \/ (OriginDataWrite /\ to_origin # <<>>)
         /\ state' = state /\ request_header' = request_header
<1>1. DataTypes
  BY DEF DataInvariant
<1>2. OriginDataWrite => to_origin # <<>>
  <2>1. to_origin = <<>> => Len(to_origin) = 0
    OBVIOUS
  <2>2. OriginDataWrite => \E n \in 1 .. Len(to_origin) : TRUE
    BY DEF OriginDataWrite
  <2> QED
    BY <2>1, <2>2
<1> QED
  BY <1>1, <1>2, ArrivalsKeep DEF request

\* Nothing is being written for a tunnel before it is established, and nothing is
\* when content is read that will be.
LEMMA NothingWrittenPreserved ==
  ASSUME ControlInvariant, DataInvariant, RequestInvariant, Pristine, DataNext
  PROVE  /\ state' \in Finding /\ Served'.method = "CONNECT" => to_origin' = <<>>
         /\ state' \in {"report_connection_established", "read_http_request_content"} =>
              to_origin' = <<>>
         /\ state' = "tunnel_transfer" /\ ops'["read_client"] # "idle" => to_origin' = <<>>
<1>0. DataTypes /\ RequestInHand /\ ControlTypeOK
  BY DEF DataInvariant, ControlInvariant
<1>a. "read_client" \in Operation /\ "write_origin" \in Operation
  BY DEF Operation
<1>1. /\ state \in Finding /\ Served.method = "CONNECT" => to_origin = <<>>
      /\ state \in {"report_connection_established", "read_http_request_content"} =>
           to_origin = <<>>
      /\ state = "tunnel_transfer" /\ ops["read_client"] # "idle" => to_origin = <<>>
      /\ state \in Waiting => to_origin = <<>>
  BY DEF Pristine, RequestInvariant, PassedOn
<1>2. CASE Rests
  <2>1. UNCHANGED <<to_origin, request_header, client>> /\ state' = state
    BY <1>2 DEF Rests, Stays, Becomes, contents, environment, writes, request
  <2>2. ops'["read_client"] # "idle" => ops["read_client"] # "idle" \/ ~timer_pending'
    BY <1>2 DEF Rests, Settles
  <2>3. ops'["read_client"] # "idle" => ops["read_client"] # "idle"
    BY <1>2 DEF Rests, Settles
  <2>4. Served' = Served
    BY <2>1 DEF Served
  <2> QED
    BY <1>1, <2>1, <2>3, <2>4
<1>3. CASE Arrives
  <2>1. /\ UNCHANGED to_origin \/ (OriginDataWrite /\ to_origin # <<>>)
        /\ state' = state /\ request_header' = request_header
    BY <1>3, ArrivalsWrite
  <2>2. ops'["read_client"] # "idle" => ops["read_client"] # "idle"
    BY <1>0, <1>a, <1>3, ArrivalsLeave
  <2>3. OriginDataWrite => state \in Writing \cup {"tunnel_transfer"}
    BY WhenOriginIsWritten
  <2>4. state \in Finding => Served' = Served
    <3>1. state \in Finding => request_header \in Made
      BY <1>0 DEF RequestInHand, Serving
    <3> QED
      BY <1>0, <2>1, <3>1, RequestsGrow DEF Served
  <2> QED
    BY <1>1, <2>1, <2>2, <2>3, <2>4 DEF Writing, Finding
<1>4. CASE Begun \/ RequestGrows
  BY <1>4 DEF Begun, RequestGrows, ReportsError, Stays, Turns, Becomes, Finding
<1>5. CASE TakenOnKept
  BY <1>5 DEF TakenOnKept, SendsRequest, Becomes, Finding
<1>6. CASE TakenAnew
  <2>1. UNCHANGED to_origin /\ state \in Waiting
    BY <1>6 DEF TakenAnew, RequestTaken, Resolves, writes, Waiting
  <2> QED
    BY <1>1, <2>1
<1>7. CASE Reconnecting
  <2>1. state \in Sending /\ state' \in Finding /\ UNCHANGED <<client, request_header>>
    BY <1>7 DEF Reconnecting, Reconnects, Resolves, Becomes, Ran, environment, request, Sending,
       Finding
  <2>2. Served'.method # "CONNECT"
    BY <1>0, <2>1 DEF RequestInHand, Serving, Served
  <2> QED
    BY <2>1, <2>2 DEF Finding
<1>8. CASE TriesEndpoint
  <2>1. /\ state \in Finding /\ state' = "connect_to_origin_server"
        /\ UNCHANGED <<client, request_header, to_origin>>
    BY <1>8 DEF TriesEndpoint, Becomes, Ran, environment, request, writes, Finding
  <2> QED
    BY <1>1, <2>1 DEF Served
<1>9. CASE ResolvedToKept \/ ConnectedTo
  <2>1. state \in Finding /\ UNCHANGED request_header
    BY <1>9 DEF ResolvedToKept, ConnectedTo, Finding, request
  <2>2. PICK o, recovers : SendsRequest(o, recovers) \/ OpensTunnel(o, recovers)
    BY <1>9 DEF ResolvedToKept, ConnectedTo
  <2>3. CASE SendsRequest(o, recovers)
    BY <2>3 DEF SendsRequest, Becomes, Finding
  <2>4. CASE OpensTunnel(o, recovers)
    <3>1. Served.method = "CONNECT" /\ UNCHANGED to_origin
      BY <2>1, <2>4 DEF OpensTunnel, Served
    <3> QED
      BY <1>1, <2>1, <3>1
  <2> QED
    BY <2>2, <2>3, <2>4
<1>10. CASE NotConnected
  BY <1>10 DEF NotConnected, ReportsError, Turns, Becomes, Finding
<1>11. CASE PassesContent
  BY <1>11 DEF PassesContent, Turns, Becomes, Finding
<1>12. CASE PassesUp
  <2>1. ops'["read_client"] = "idle" /\ state' = "tunnel_transfer"
    BY <1>a, <1>12 DEF PassesUp, Ran, Stays, Becomes
  <2> QED
    BY <2>1 DEF Finding
<1>13. CASE OriginTook
  <2>1. UNCHANGED to_origin
    BY <1>13 DEF OriginTook, contents, writes
  <2>2. CASE to_origin = <<>>
    BY <2>1, <2>2
  <2>3. CASE to_origin # <<>>
    <3>1. /\ state \in Writing \cup {"tunnel_transfer"} /\ state' = state
          /\ Ran("write_origin", "ok", {"write_origin"})
      BY <1>13, <2>3 DEF OriginTook, Becomes
    <3>2. state = "tunnel_transfer" => ops["read_client"] = "idle"
      <4>1. SUFFICES ASSUME state = "tunnel_transfer" PROVE "read_client" \notin Outstanding
        BY <1>a, OutstandingMeans
      <4>2. timer_pending /\ ops["write_origin"] = "ok"
        BY <3>1 DEF Ran
      <4>3. "write_origin" \in Outstanding /\ Outstanding \in OperationsOf(state)
        BY <1>a, <4>2, OutstandingMeans DEF ControlInvariant, OperationsFitState
      <4> QED
        BY <4>1, <4>3 DEF OperationsOf
    <3>3. ops'["read_client"] = ops["read_client"]
      BY <1>0, <1>a, <3>1, RanLeaves
    <3> QED
      BY <3>1, <3>2, <3>3 DEF Writing, Finding
  <2> QED
    BY <2>2, <2>3
<1>14. CASE ResponseGrows \/ RelaysHeader \/ RelaysContent
  BY <1>14 DEF ResponseGrows, RelaysHeader, RelaysContent, ReportsError, Stays, Turns, Becomes,
     Finding
<1>15. CASE PassesDown
  <2>1. UNCHANGED to_origin /\ state' = state /\ state = "tunnel_transfer"
    BY <1>15 DEF PassesDown, Stays, Becomes
  <2>2. ops'["read_client"] = ops["read_client"]
    BY <1>0, <1>a, <1>15, RanLeaves DEF PassesDown
  <2> QED
    BY <1>1, <2>1, <2>2 DEF Finding
<1>16. CASE AwaitsContent \/ AwaitsRequest
  BY <1>16 DEF AwaitsContent, AwaitsRequest, Turns, Becomes, Finding
<1>17. CASE StartsTunnel
  BY <1>1, <1>17 DEF StartsTunnel, contents, writes
<1> QED
  BY <1>2, <1>3, <1>4, <1>5, <1>6, <1>7, <1>8, <1>9, <1>10, <1>11, <1>12, <1>13, <1>14, <1>15,
     <1>16, <1>17 DEF DataNext

\* Nothing is passed on before its turn.
LEMMA PristinePreserved ==
  ASSUME ControlInvariant, DataInvariant, RequestInvariant, Pristine, DataNext
  PROVE  Pristine'
BY UntouchedPreserved, NothingWrittenPreserved DEF Pristine

-----------------------------------------------------------------------------
(* How far the current connection has come. *)

\* Everything on its way is a sequence of units.
LEMMA WaysType ==
  ASSUME DataTypes
  PROVE  /\ Made \subseteq Nat
         /\ to_origin \in Seq(Unit)
         /\ request_data \in Seq(Unit)
         /\ upgoing_buffer \in Seq(Unit)
         /\ client.stream \in Seq(Unit)
         /\ \A c \in DOMAIN origins : origins[c].received \in Seq(Unit)
<1>1. Made \subseteq Nat
  BY DEF Made
<1>2. /\ to_origin \in Seq(PassedOf(Made)) /\ request_data \in Seq(SentOf(Made))
      /\ upgoing_buffer \in Seq(SentOf(Made)) /\ client.stream \in Seq(SentOf(Made))
  BY DEF DataTypes
<1>3. \A c \in DOMAIN origins : origins[c].received \in Seq(PassedOf(Made))
  BY RecordsType
<1> QED
  BY <1>1, <1>2, <1>3, UnitsAre

\* A whole request, its header written anew, is the message its server gets.
LEMMA WholeIsMessage ==
  ASSUME DataTypes, NEW d \in Seq(SentOf(Made)), NEW b \in Seq(SentOf(Made)),
         HeaderEnd(d) # 0, (d \o b) \o client.stream = Latest, Asked \in Made,
         client.requests[Asked].method # "CONNECT"
  PROVE  Rewritten(d) \o (b \o client.stream) = Messages[Asked]
<1>1. PICK S, c : S = SentOf(Made) /\ c = client.stream
  OBVIOUS
<1>2. d \in Seq(S) /\ b \in Seq(S) /\ c \in Seq(S)
  BY <1>1 DEF DataTypes
<1>3. b \o c \in Seq(S)
  BY <1>2, ConcatProperties
<1>4. (d \o b) \o c = d \o (b \o c)
  BY <1>2, ConcatAssociative
<1>5. PICK more \in Seq(S) : more = b \o c
  BY <1>3
<1>6. Rewritten(d \o more) = Rewritten(d) \o more
  BY <1>1, <1>2, RewrittenOfBoth
<1>7. d \o more = Latest
  BY <1>1, <1>4, <1>5
<1>8. Messages[Asked] = Rewritten(Latest)
  BY MessagesType DEF Forwarded, Latest
<1> QED
  BY <1>1, <1>5, <1>6, <1>7, <1>8, Zenon

\* A CONNECT request is its header: nothing is on its way behind it.
LEMMA NothingBehindConnect ==
  ASSUME DataTypes, NEW d \in Seq(SentOf(Made)), NEW b \in Seq(SentOf(Made)),
         HeaderEnd(d) # 0, (d \o b) \o client.stream = Latest, Asked \in Made,
         RequestStatus(client.requests[Asked]) = Accepted,
         client.requests[Asked].method = "CONNECT"
  PROVE  b \o client.stream = <<>>
<1>1. PICK r : r = client.requests[Asked]
  OBVIOUS
<1>2. /\ r \in Requests /\ r.head \in Nat \ {0} /\ r.content \in Seq(ContentPart)
      /\ Asked \in Nat
  <2>1. client.requests \in Seq(Requests) /\ Asked \in 1 .. Len(client.requests)
    BY DEF DataTypes, Made
  <2>2. r \in Requests
    BY <1>1, <2>1, ElementOfSeq
  <2> QED
    BY <1>1, <2>1, <2>2, RequestType
<1>4. Len(r.content) = 0
  <2>1. r.content = <<>>
    BY <1>1, <1>2, TunnelsAssumption
  <2> QED
    BY <2>1
<1>5. PICK w : w = OnTheWire(Asked, r)
  OBVIOUS
<1>6. w \in Seq(SentOf({Asked})) /\ Len(w) = r.head /\ HeaderEnd(w) = r.head
  <2>1. PICK k \in Nat : k = Asked
    BY <1>2
  <2>2. /\ OnTheWire(k, r) \in Seq(SentOf({k}))
        /\ Len(OnTheWire(k, r)) = r.head + Len(r.content)
        /\ HeaderEnd(OnTheWire(k, r)) = r.head
    BY <1>2, OnTheWireType
  <2> QED
    BY <1>2, <1>4, <1>5, <2>1, <2>2
<1>7. PICK S, c : S = SentOf(Made) /\ c = client.stream
  OBVIOUS
<1>8. d \in Seq(S) /\ b \in Seq(S) /\ c \in Seq(S)
  BY <1>7 DEF DataTypes
<1>9. (d \o b) \o c = d \o (b \o c) /\ b \o c \in Seq(S)
  BY <1>8, ConcatAssociative, ConcatProperties
<1>10. PICK more \in Seq(S) : more = b \o c
  BY <1>9
<1>11. d \o more = w
  BY <1>1, <1>5, <1>7, <1>9, <1>10 DEF Latest
<1>12. /\ Len(w) = Len(d) + Len(more) /\ Len(d) \in Nat /\ Len(more) \in Nat
       /\ HeaderEnd(w) = HeaderEnd(d)
  <2>1. d \o more \in Seq(SentOf({Asked}))
    BY <1>6, <1>11
  <2>2. /\ Len(d \o more) = Len(d) + Len(more) /\ Len(d) \in Nat /\ Len(more) \in Nat
        /\ HeaderEnd(d \o more) = HeaderEnd(d)
    BY <1>8, <2>1, Beginning
  <2> QED
    BY <1>11, <2>2
<1>13. HeaderEnd(d) <= Len(d)
  BY HeaderEndIsFirst
<1>14. Len(more) = 0
  BY <1>2, <1>6, <1>12, <1>13
<1>15. more = <<>>
  BY <1>14, EmptySeq
<1> QED
  BY <1>7, <1>10, <1>15

\* A step of the proxy that neither asks nor makes a connection: how far the
\* connection has come by the last message, when what has reached its server is
\* the same.  "next" and "way" are what the step makes of the state and of OnTheWay.
StandsAfter(next, way, header, nothing) ==
  /\ next \in Finding => Origin.received = UpTo(Asked - 1)
  /\ next \in Sending \cup Tunnelling => Origin.received \o way = UpTo(Asked)
  /\ next \in Responding => Origin.received = UpTo(header)
  /\ next \in Waiting => Origin.received = UpTo(IF nothing THEN Asked ELSE Asked - 1)

\* The last message comes behind those before it.
LEMMA OneMoreUp ==
  ASSUME DataTypes, Asked \in Made, Origin.request \in Made
  PROVE  UpTo(Asked) = UpTo(Asked - 1) \o Messages[Asked] /\ UpTo(Asked - 1) \in Seq(Unit)
<1>1. PICK f \in Made : f = Origin.request
  OBVIOUS
<1>2. Asked \in Nat /\ f <= Asked
  BY MessagesType
<1>3. Asked \in Int /\ f <= Asked /\ Asked <= Asked /\ Asked - 1 \in Int /\ Asked - 1 <= Asked
  BY <1>2
<1>4. Joined(Messages, f, Asked) = Joined(Messages, f, Asked - 1) \o Messages[Asked]
  BY <1>3, MessagesJoined
<1>5. Joined(Messages, f, Asked - 1) \in Seq(Unit)
  BY <1>3, MessagesJoined
<1> QED
  BY <1>1, <1>4, <1>5 DEF UpTo

\* When on_connect writes the request, or opens the tunnel.
LEMMA StandsOnConnect ==
  ASSUME DataInvariant, Pristine, Stands, Live, request_header = Asked,
         Origin \in ServerOf(Made), state \in Finding, UNCHANGED <<request, upgoing_buffer>>,
         NEW o, NEW recovers, SendsRequest(o, recovers) \/ OpensTunnel(o, recovers), TunnelsEnd
  PROVE  StandsAfter(state', OnTheWay', request_header', (Arriving = <<>>)')
<1>0. DataTypes
  BY DEF DataInvariant
<1>1. /\ request_header \in Made /\ HeaderEnd(request_data) # 0
      /\ RequestStatus(client.requests[Asked]) = Accepted
  BY DEF DataInvariant, RequestInHand, Serving, Served
<1>2. Asked \in Made /\ UNCHANGED <<client, request_header, request_data, upgoing_buffer>>
  BY <1>1 DEF SendsRequest, OpensTunnel, Ran, environment, request
<1>3. (request_data \o upgoing_buffer) \o client.stream = Latest
  BY DEF Pristine, Arriving
<1>4. Origin.received = UpTo(Asked - 1) /\ Origin.request \in Made
  BY DEF Stands, ServerOf
<1>5. UpTo(Asked) = UpTo(Asked - 1) \o Messages[Asked] /\ UpTo(Asked - 1) \in Seq(Unit)
  BY <1>0, <1>2, <1>4, OneMoreUp
<1>6. request_data \in Seq(SentOf(Made)) /\ upgoing_buffer \in Seq(SentOf(Made))
  BY <1>0 DEF DataTypes
<1>7. CASE SendsRequest(o, recovers)
  <2>1. /\ client.requests[Asked].method # "CONNECT"
        /\ to_origin' = Rewritten(request_data) /\ state' = "write_http_request_header"
    BY <1>2, <1>7 DEF SendsRequest, Becomes
  <2>2. Rewritten(request_data) \o (upgoing_buffer \o client.stream) = Messages[Asked]
    BY <1>0, <1>1, <1>2, <1>3, <1>6, <2>1, WholeIsMessage
  <2>3. OnTheWay' = Messages[Asked]
    BY <1>2, <2>1, <2>2, Zenon DEF OnTheWay
  <2> QED
    BY <1>4, <1>5, <2>1, <2>3 DEF StandsAfter, Finding, Sending, Tunnelling, Responding, Waiting
<1>8. CASE OpensTunnel(o, recovers)
  <2>1. /\ client.requests[Asked].method = "CONNECT" /\ UNCHANGED to_origin
        /\ state' = "report_connection_established"
    BY <1>2, <1>8 DEF OpensTunnel, Becomes
  <2>2. upgoing_buffer \o client.stream = <<>>
    BY <1>0, <1>1, <1>2, <1>3, <1>6, <2>1, NothingBehindConnect
  <2>3. to_origin = <<>>
    BY <2>1 DEF Pristine, Served
  <2>4. OnTheWay' = <<>>
    <3>1. OnTheWay' = to_origin \o (upgoing_buffer \o client.stream)
      BY <1>2, <2>1, Zenon DEF OnTheWay
    <3>2. <<>> \o <<>> = <<>>
      BY EmptySeq, ConcatEmptySeq
    <3> QED
      BY <2>2, <2>3, <3>1, <3>2, Zenon
  <2>5. Messages[Asked] = <<>>
    <3>1. client.tunnelled = 0
      BY DEF TunnelsEnd, Finding, Tunnelling
    <3>2. Messages[Asked] = [n \in 1 .. client.tunnelled |-> TunnelUnit(Asked, n)]
      BY <1>0, <1>2, <2>1, MessagesType
    <3> QED
      BY <3>1, <3>2
  <2> QED
    BY <1>4, <1>5, <2>1, <2>4, <2>5
       DEF StandsAfter, Finding, Sending, Tunnelling, Responding, Waiting
<1> QED
  BY <1>7, <1>8

\* A step that leaves the phase, or leads to no phase that says anything, and
\* leaves what is on its way.
LEMMA StandsWhenLeft ==
  ASSUME Stands, Live, request_header' = request_header,
         state' \in Finding => state \in Finding,
         state' \in Sending \cup Tunnelling => state \in Sending \cup Tunnelling /\ OnTheWay' = OnTheWay,
         state' \in Responding => state \in Responding,
         state' \in Waiting => state \in Waiting /\ Arriving' = Arriving
  PROVE  StandsAfter(state', OnTheWay', request_header', (Arriving = <<>>)')
BY DEF Stands, StandsAfter

\* The proxy's steps that keep the request it has.
LEMMA StandsWhenKept ==
  ASSUME DataInvariant, RequestInvariant, Pristine, Stands, Live,
         \/ Rests \/ Begun \/ RequestGrows \/ NotConnected \/ PassesContent \/ PassesUp
         \/ ResponseGrows \/ RelaysHeader \/ RelaysContent \/ PassesDown \/ AwaitsContent
         \/ StartsTunnel
  PROVE  StandsAfter(state', OnTheWay', request_header', (Arriving = <<>>)')
<1>0. DataTypes
  BY DEF DataInvariant
<1>1. CASE Rests
  <2>1. state' = state /\ UNCHANGED <<request_data, request_header, upgoing_buffer, to_origin, client>>
    BY <1>1 DEF Rests, Stays, Becomes, contents, environment, request, buffers, writes
  <2>2. OnTheWay' = OnTheWay /\ Arriving' = Arriving
    BY <2>1 DEF OnTheWay, Arriving
  <2> QED
    BY <2>1, <2>2, StandsWhenLeft
<1>2. CASE Begun
  <2>1. /\ state \in Waiting /\ state' = "read_http_request_header"
        /\ UNCHANGED <<request_data, request_header, upgoing_buffer, client>>
    BY <1>2 DEF Begun, Turns, Becomes, contents, environment, request, buffers, Waiting
  <2>2. Arriving' = Arriving
    BY <2>1 DEF Arriving
  <2> QED
    BY <2>1, <2>2, StandsWhenLeft DEF Finding, Sending, Tunnelling, Responding
<1>3. CASE RequestGrows
  <2>1. /\ state \in Waiting /\ state' \in {"read_http_request_header", "report_error"}
        /\ UNCHANGED request_header
        /\ request_data' = request_data \o upgoing_buffer /\ upgoing_buffer' = <<>>
        /\ client' = client
    BY <1>3 DEF RequestGrows, ReportsError, Stays, Turns, Becomes, Ran, RanOut, environment, Waiting
  <2>2. Arriving' = Arriving
    <3>1. (request_data \o upgoing_buffer) \o <<>> = request_data \o upgoing_buffer
      <4>1. request_data \o upgoing_buffer \in Seq(SentOf(Made))
        BY <1>0, ConcatProperties DEF DataTypes
      <4> QED
        BY <4>1, ConcatEmptySeq
    <3>2. Arriving' = ((request_data \o upgoing_buffer) \o <<>>) \o client.stream
      BY <2>1, Zenon DEF Arriving
    <3> QED
      BY <3>1, <3>2, Zenon DEF Arriving
  <2> QED
    BY <2>1, <2>2, StandsWhenLeft DEF Finding, Sending, Tunnelling, Responding
<1>4. CASE NotConnected
  <2>1. state' = "report_error" /\ UNCHANGED request_header
    BY <1>4 DEF NotConnected, ReportsError, Turns, Becomes, request
  <2> QED
    BY <2>1, StandsWhenLeft DEF Finding, Sending, Tunnelling, Responding, Waiting
<1>5. CASE PassesContent \/ PassesUp
  <2>1. /\ to_origin' = upgoing_buffer /\ upgoing_buffer' = <<>> /\ client' = client
        /\ UNCHANGED request_header
        /\ \/ /\ state = "read_http_request_content" /\ state' = "write_http_request_content"
           \/ /\ state = "tunnel_transfer" /\ state' = state /\ ops["read_client"] = "ok"
    BY <1>5 DEF PassesContent, PassesUp, Stays, Turns, Becomes, Ran, environment, request
  <2>2. to_origin = <<>>
    BY <2>1 DEF Pristine
  <2>3. OnTheWay' = OnTheWay
    <3>1. PICK b \in Seq(SentOf(Made)), c \in Seq(SentOf(Made)) : b = upgoing_buffer /\ c = client.stream
      BY <1>0 DEF DataTypes
    <3>2. <<>> \o c = c /\ <<>> \o (b \o c) = b \o c
      BY ConcatProperties, ConcatEmptySeq
    <3>3. OnTheWay' = b \o (<<>> \o c) /\ OnTheWay = <<>> \o (b \o c)
      BY <2>1, <2>2, <3>1, Zenon DEF OnTheWay
    <3> QED
      BY <3>2, <3>3, Zenon
  <2> QED
    BY <2>1, <2>3, StandsWhenLeft DEF Finding, Sending, Tunnelling, Responding, Waiting
<1>6. CASE ResponseGrows \/ RelaysHeader \/ RelaysContent \/ AwaitsContent
  <2>1. /\ state \in Responding /\ state' \in Responding \cup {"report_error"}
        /\ UNCHANGED request_header
    BY <1>6 DEF ResponseGrows, RelaysHeader, RelaysContent, AwaitsContent, ReportsError, Stays, Turns,
       Becomes, request, contents, Responding
  <2> QED
    BY <2>1, StandsWhenLeft DEF Finding, Sending, Tunnelling, Responding, Waiting
<1>7. CASE PassesDown \/ StartsTunnel
  <2>1. /\ state \in Tunnelling /\ state' \in Tunnelling
        /\ UNCHANGED <<request_header, upgoing_buffer, to_origin, client>>
    BY <1>7 DEF PassesDown, StartsTunnel, Stays, Turns, Becomes, Ran, environment, request, contents,
       buffers, writes, Tunnelling
  <2>2. OnTheWay' = OnTheWay
    BY <2>1 DEF OnTheWay
  <2> QED
    BY <2>1, <2>2, StandsWhenLeft DEF Finding, Sending, Tunnelling, Responding, Waiting
<1> QED
  BY <1>1, <1>2, <1>3, <1>4, <1>5, <1>6, <1>7

\* When the origin server has taken what was written to it, and its reply is awaited,
\* nothing of the request is left.
LEMMA StandsWhenTaken ==
  ASSUME DataInvariant, RequestInvariant, OneAtATime', Stands, Live, Origin \in ServerOf(Made),
         OriginTook
  PROVE  StandsAfter(state', OnTheWay', request_header', (Arriving = <<>>)')
<1>0. DataTypes
  BY DEF DataInvariant
<1>1. UNCHANGED <<request_header, upgoing_buffer, to_origin, client>>
  BY DEF OriginTook, Ran, environment, request, contents, buffers, writes
<1>2. OnTheWay' = OnTheWay
  BY <1>1 DEF OnTheWay
<1>3. CASE state' # "read_http_response_header"
  <2>1. /\ state \in Sending \cup Tunnelling
        /\ state' \in Sending \cup Tunnelling
    BY <1>3 DEF OriginTook, Becomes, Sending, Tunnelling, Writing
  <2> QED
    BY <1>1, <1>2, <2>1, StandsWhenLeft DEF Finding, Sending, Tunnelling, Responding, Waiting
<1>4. CASE state' = "read_http_response_header"
  <2>1. to_origin = <<>> /\ state \in Writing
    BY <1>4 DEF OriginTook, Becomes, Writing
  <2>2. request_header = Asked
    BY <2>1 DEF RequestInvariant, OneAtATime, Serving, Sending, Relaying, Responding, Writing
  <2>3. Drained'
    <3>1. request_header' = Asked'
      BY <1>1, <2>2 DEF Asked
    <3>2. state' \in Serving /\ state' \in Responding
      BY <1>4 DEF Serving, Responding
    <3> QED
      BY <3>1, <3>2 DEF OneAtATime
  <2>4. client.stream = <<>> /\ upgoing_buffer = <<>>
    BY <1>1, <2>3 DEF Drained
  <2>5. OnTheWay = <<>>
    <3>1. OnTheWay = <<>> \o (<<>> \o <<>>)
      BY <2>1, <2>4, Zenon DEF OnTheWay
    <3>2. <<>> \o <<>> = <<>>
      BY EmptySeq, ConcatEmptySeq
    <3> QED
      BY <3>1, <3>2, Zenon
  <2>6. Origin.received \o OnTheWay = UpTo(Asked)
    BY <2>1 DEF Stands, Writing, Sending
  <2>7. Origin.received = UpTo(Asked)
    <3>1. PICK s \in Seq(PassedOf(Made)) : s = Origin.received
      BY DEF ServerOf
    <3>2. s \o <<>> = s
      BY ConcatEmptySeq
    <3> QED
      BY <2>5, <2>6, <3>1, <3>2, Zenon
  <2> QED
    BY <1>1, <1>4, <2>2, <2>7 DEF StandsAfter, Finding, Sending, Tunnelling, Responding, Waiting
<1> QED
  BY <1>3, <1>4

\* When the reply has been told and the connection waits for the next request, that
\* has all arrived or none of it has been made.
LEMMA StandsWhenAwaiting ==
  ASSUME DataInvariant, RequestInvariant, Stands, Live, AwaitsRequest
  PROVE  StandsAfter(state', OnTheWay', request_header', (Arriving = <<>>)')
<1>0. DataTypes
  BY DEF DataInvariant
<1>1. /\ state \in Relaying /\ state \in Serving /\ state \in Responding
      /\ state' = "read_http_request_header"
      /\ request_data' = <<>> /\ UNCHANGED <<upgoing_buffer, client>>
  BY DEF AwaitsRequest, ClearMessages, Turns, Becomes, Ran, environment, buffers, Relaying,
     Responding, Serving
<1>2. Origin.received = UpTo(request_header)
  BY <1>1 DEF Stands
<1>3. request_header \in Made /\ Asked \in Nat
  BY <1>0, <1>1, AskedType DEF DataInvariant, RequestInHand
<1>4. Arriving' = <<>> \o upgoing_buffer \o client.stream
  BY <1>1, Zenon DEF Arriving
<1>5. CASE request_header = Asked
  <2>1. client.stream = <<>> /\ upgoing_buffer = <<>>
    BY <1>1, <1>5 DEF RequestInvariant, OneAtATime, Drained
  <2>2. Arriving' = <<>>
    <3>1. Arriving' = (<<>> \o <<>>) \o <<>>
      BY <1>4, <2>1, Zenon
    <3>2. <<>> \o <<>> = <<>>
      BY EmptySeq, ConcatEmptySeq
    <3> QED
      BY <3>1, <3>2, Zenon
  <2> QED
    BY <1>1, <1>2, <1>5, <2>2 DEF StandsAfter, Finding, Sending, Tunnelling, Responding, Waiting
<1>6. CASE request_header # Asked
  <2>1. request_header = Asked - 1 /\ upgoing_buffer = <<>> /\ client.stream = Latest
    BY <1>1, <1>6 DEF RequestInvariant, OneAtATime
  <2>2. Latest # <<>> /\ Latest \in Seq(SentOf({Asked}))
    <3>1. Asked \in Made
      BY <1>0, <1>3, <2>1, AskedType DEF Made
    <3>2. PICK k \in Nat : k = Asked
      BY <1>3
    <3>7. PICK m : m = client.requests[Asked]
      OBVIOUS
    <3>3. m.head \in Nat \ {0} /\ m.content \in Seq(ContentPart)
      <4>1. client.requests \in Seq(Requests) /\ Asked \in Made
        BY <1>0, <3>1 DEF DataTypes
      <4> QED
        BY <3>7, <4>1, RequestType
    <3>4. /\ OnTheWire(k, m) \in Seq(SentOf({k}))
          /\ Len(OnTheWire(k, m)) = m.head + Len(m.content)
      BY <3>3, OnTheWireType
    <3>5. Len(OnTheWire(k, m)) # 0
      <4>1. Len(m.content) \in Nat
        BY <3>3, LenProperties
      <4> QED
        BY <3>3, <3>4, <4>1
    <3>6. OnTheWire(k, m) # <<>>
      BY <3>5, EmptySeq
    <3> QED
      BY <3>2, <3>4, <3>6, <3>7 DEF Latest
  <2>3. Arriving' = Latest
    <3>1. PICK w \in Seq(SentOf({Asked})) : w = Latest
      BY <2>2
    <3>2. Arriving' = (<<>> \o <<>>) \o w
      BY <1>4, <2>1, <3>1, Zenon
    <3>3. <<>> \o <<>> = <<>> /\ <<>> \o w = w
      BY EmptySeq, ConcatEmptySeq
    <3> QED
      BY <3>1, <3>2, <3>3, Zenon
  <2> QED
    BY <1>1, <1>2, <2>1, <2>2, <2>3
       DEF StandsAfter, Finding, Sending, Tunnelling, Responding, Waiting
<1> QED
  BY <1>5, <1>6

\* When a request is accepted: all of it is on its way, or waits for a connection.
LEMMA StandsWhenAccepted ==
  ASSUME DataInvariant, RequestInvariant, Stands, Live, Origin \in ServerOf(Made),
         TakenOnKept \/ TakenAnew
  PROVE  StandsAfter(state', OnTheWay', request_header', (Arriving = <<>>)')
<1>0. DataTypes
  BY DEF DataInvariant
<1>1. RequestTaken /\ UNCHANGED environment
  BY DEF TakenOnKept, TakenAnew, SendsRequest, Resolves, Ran
<1>2. /\ Arriving = Latest /\ Arriving' = Latest /\ Arriving # <<>>
      /\ Asked \in Made /\ request_header' = Asked /\ HeaderEnd(request_data') # 0
      /\ request_data' \in Seq(SentOf({Asked}))
  BY <1>1, WholeWhenTaken, WhenTaken
<1>3. state \in Waiting /\ client' = client /\ upgoing_buffer' = <<>>
  BY <1>1 DEF RequestTaken, Waiting, environment
<1>4. Origin.received = UpTo(Asked - 1) /\ Origin.request \in Made
  BY <1>2, <1>3 DEF Stands, ServerOf
<1>5. CASE TakenAnew
  <2>1. state' = "resolve_origin_server_address"
    BY <1>5 DEF TakenAnew, Resolves, Becomes
  <2> QED
    BY <1>4, <2>1 DEF StandsAfter, Finding, Sending, Tunnelling, Responding, Waiting
<1>6. CASE TakenOnKept
  <2>1. /\ client.requests[Asked].method # "CONNECT"
        /\ to_origin' = Rewritten(request_data') /\ state' = "write_http_request_header"
    BY <1>2, <1>6 DEF TakenOnKept, SendsRequest, Becomes
  <2>2. PICK d \in Seq(SentOf(Made)), b \in Seq(SentOf(Made)) : d = request_data' /\ b = <<>>
    <3>1. SentOf({Asked}) \subseteq SentOf(Made)
      BY <1>2 DEF SentOf
    <3>2. request_data' \in Seq(SentOf(Made))
      BY <1>2, <3>1, SeqMonotonic
    <3> QED
      BY <3>2, EmptySeq
  <2>3. (d \o b) \o client.stream = Latest
    BY <1>2, <1>3, <2>2, Zenon DEF Arriving
  <2>4. Rewritten(d) \o (b \o client.stream) = Messages[Asked]
    BY <1>0, <1>2, <2>1, <2>2, <2>3, WholeIsMessage
  <2>5. OnTheWay' = Messages[Asked]
    BY <1>3, <2>1, <2>2, <2>4, Zenon DEF OnTheWay
  <2>6. UpTo(Asked) = UpTo(Asked - 1) \o Messages[Asked]
    BY <1>0, <1>2, <1>4, OneMoreUp
  <2> QED
    BY <1>4, <2>1, <2>5, <2>6 DEF StandsAfter, Finding, Sending, Tunnelling, Responding, Waiting
<1> QED
  BY <1>5, <1>6

\* How far the current connection has come after a step of the proxy that does not
\* try another.
LEMMA StandsAfterMove ==
  ASSUME DataInvariant, RequestInvariant, OneAtATime', TunnelsEnd, Pristine, Stands, Live,
         Origin \in ServerOf(Made), DataNext, ~Arrives, ~Reconnecting, ~TriesEndpoint
  PROVE  StandsAfter(state', OnTheWay', request_header', (Arriving = <<>>)')
<1>1. CASE ResolvedToKept \/ ConnectedTo
  <2>1. state \in Finding /\ UNCHANGED <<request, upgoing_buffer>>
    BY <1>1 DEF ResolvedToKept, ConnectedTo, Finding, buffers
  <2>2. PICK o, recovers : SendsRequest(o, recovers) \/ OpensTunnel(o, recovers)
    BY <1>1 DEF ResolvedToKept, ConnectedTo
  <2>3. request_header = Asked
    BY <2>1 DEF RequestInvariant, OneAtATime, Serving, Finding, Relaying, Responding
  <2> QED
    BY <2>1, <2>2, <2>3, StandsOnConnect
<1>2. CASE \/ Rests \/ Begun \/ RequestGrows \/ NotConnected \/ PassesContent \/ PassesUp
           \/ ResponseGrows \/ RelaysHeader \/ RelaysContent \/ PassesDown \/ AwaitsContent
           \/ StartsTunnel
  BY <1>2, StandsWhenKept
<1> QED
  BY <1>1, <1>2, StandsWhenTaken, StandsWhenAwaiting, StandsWhenAccepted DEF DataNext

\* A step of the environment that asks nothing and writes nothing leaves what is on
\* its way.
LEMMA StandsWhenLeftByOthers ==
  ASSUME ControlInvariant, DataInvariant, RequestInvariant, Stands, Live, Arrives,
         ~AClientSends, ~ClientTunnels, ~OriginDataWrite
  PROVE  StandsAfter(state', OnTheWay', request_header', (Arriving = <<>>)')
<1>0. DataTypes
  BY DEF DataInvariant
<1>1. UNCHANGED <<request_data, request_header, to_origin>> /\ state' = state
  BY <1>0, ArrivalsKeep DEF request
<1>2. CASE ClientDataRead
  <2>1. PICK a, b, c, d, e, g : /\ a = request_data /\ b = upgoing_buffer /\ c = client.stream
                             /\ d = upgoing_buffer' /\ e = client'.stream /\ g = to_origin
    OBVIOUS
  <2>2. b = <<>> /\ d \in Seq(Unit) /\ e \in Seq(Unit) /\ d \o e = c
    <3>1. /\ upgoing_buffer = <<>>
          /\ upgoing_buffer' \in Seq(SentOf({Asked})) /\ client'.stream \in Seq(SentOf({Asked}))
          /\ upgoing_buffer' \o client'.stream = client.stream
      BY <1>2, WhenClientIsRead
    <3>2. {Asked} \subseteq Nat
      BY <1>0, AskedType
    <3> QED
      BY <2>1, <3>1, <3>2, UnitsAre
  <2>3. a \in Seq(Unit) /\ c \in Seq(Unit)
    BY <1>0, <2>1, WaysType
  <2>4. /\ <<>> \o c = c /\ a \o <<>> = a
        /\ (a \o d) \o e = a \o (d \o e)
    <3>1. <<>> \o c = c /\ a \o <<>> = a
      BY <2>3, ConcatEmptySeq
    <3>2. (a \o d) \o e = a \o (d \o e)
      <4>1. Both(Both(a, d), e) = Both(a, Both(d, e))
        BY <2>2, <2>3, InAnyOrder
      <4> QED
        BY <4>1 DEF Both
    <3> QED
      BY <3>1, <3>2, Zenon
  <2>5. OnTheWay' = g \o (d \o e) /\ OnTheWay = g \o (b \o c)
    BY <1>1, <2>1, Zenon DEF OnTheWay
  <2>6. Arriving' = (a \o d) \o e /\ Arriving = (a \o b) \o c
    BY <1>1, <2>1, Zenon DEF Arriving
  <2>7. OnTheWay' = OnTheWay
    BY <2>2, <2>4, <2>5, Zenon
  <2>8. Arriving' = Arriving
    BY <2>2, <2>4, <2>6, Zenon
  <2> QED
    BY <1>1, <2>7, <2>8, StandsWhenLeft
<1>3. CASE ~ClientDataRead
  <2>1. UNCHANGED upgoing_buffer /\ client'.stream = client.stream
    BY <1>0, <1>3, ArrivalsKeep
  <2>2. OnTheWay' = OnTheWay /\ Arriving' = Arriving
    BY <1>1, <2>1 DEF OnTheWay, Arriving
  <2> QED
    BY <1>1, <2>2, StandsWhenLeft
<1> QED
  BY <1>2, <1>3

\* What is said of the messages made stays true while no more is made of them.
LEMMA StandsWhenAfter ==
  ASSUME DataTypes, DataTypes', DataNext, ~ClientTunnels, ~AClientSends, Origin.request \in Made,
         Origin'.request = Origin.request, Origin'.received = Origin.received,
         StandsAfter(state', OnTheWay', request_header', (Arriving = <<>>)')
  PROVE  Stands'
<1>1. Asked' = Asked /\ Asked \in Nat /\ Made' = Made /\ Made = 1 .. Asked
  <2>1. client'.requests = client.requests
    BY OnlyTunnelsGrow
  <2> QED
    BY <2>1, AskedType DEF Asked, Made
<1>2. request_header' \in Int /\ request_header' <= Asked
  <2>1. request_header' \in Made' \cup {0}
    BY DEF DataTypes
  <2> QED
    BY <1>1, <2>1
<1>3. ASSUME NEW n \in Int, n <= Asked
      PROVE  Joined(Messages', Origin'.request, n) = UpTo(n)
  <2>1. PICK f \in Made : f = Origin.request
    OBVIOUS
  <2>2. Joined(Messages', f, n) = Joined(Messages, f, n)
    BY <1>3, MessagesKept
  <2> QED
    BY <2>1, <2>2 DEF UpTo
<1>4. Asked \in Int /\ Asked <= Asked /\ Asked - 1 \in Int /\ Asked - 1 <= Asked
  BY <1>1
<1>5. /\ UpTo(Asked)' = UpTo(Asked)
      /\ UpTo(Asked - 1)' = UpTo(Asked - 1)
  BY <1>1, <1>3, <1>4 DEF UpTo
<1>6. UpTo(request_header)' = UpTo(request_header')
  BY <1>2, <1>3 DEF UpTo
<1>7. state' \in Finding => Origin'.received = UpTo(Asked - 1)'
  BY <1>5 DEF StandsAfter
<1>8. state' \in Sending \cup Tunnelling => Origin'.received \o OnTheWay' = UpTo(Asked)'
  BY <1>5 DEF StandsAfter
<1>9. state' \in Responding => Origin'.received = UpTo(request_header)'
  BY <1>6 DEF StandsAfter
<1>10. state' \in Waiting =>
         Origin'.received = UpTo(IF Arriving = <<>> THEN Asked ELSE Asked - 1)'
  <2>1. CASE (Arriving = <<>>)'
    BY <1>5, <2>1 DEF StandsAfter
  <2>2. CASE (Arriving # <<>>)'
    BY <1>5, <2>2 DEF StandsAfter
  <2> QED
    BY <2>1, <2>2
<1> QED
  BY <1>7, <1>8, <1>9, <1>10 DEF Stands

\* When the client asks its next request, what it asked before has all been passed
\* on, if any connection is to be kept.
LEMMA StandsWhenAsked ==
  ASSUME DataInvariant, RequestInvariant, TunnelsEnd, Stands, Live, DataNext, AClientSends,
         Origin.request \in Made,
         Origin'.request = Origin.request, Origin'.received = Origin.received
  PROVE  Stands'
<1>0. DataTypes
  BY DEF DataInvariant
<1>1. PICK r \in Requests : ClientSends(r)
  BY DEF AClientSends
<1>2. /\ Drained
      /\ state \in Waiting => request_data = <<>>
      /\ state \in Serving => state \in Relaying /\ request_header = Asked
      /\ Asked' = Asked + 1
      /\ Latest' = OnTheWire(Asked', r)
      /\ Latest' \in Seq(SentOf({Asked'}))
      /\ client'.stream = Latest'
      /\ UNCHANGED <<upgoing_buffer, request>> /\ state' = state
  BY <1>1, WhenClientSends
<1>3. Asked \in Nat /\ UNCHANGED <<request_data, request_header>>
  BY <1>0, <1>2, AskedType DEF request
<1>4. ~ClientTunnels
  <2>1. Asked' # Asked
    BY <1>2, <1>3
  <2> QED
    BY <2>1, WhenTunnelGrows
<1>5. Joined(Messages', Origin'.request, Asked) = UpTo(Asked)
  <2>1. PICK f \in Made : f = Origin.request
    OBVIOUS
  <2>2. Joined(Messages', f, Asked) = Joined(Messages, f, Asked)
    <3>1. Asked \in Int /\ Asked <= Asked
      BY <1>3
    <3> QED
      BY <1>0, <1>4, <3>1, MessagesKept
  <2> QED
    BY <2>1, <2>2 DEF UpTo
<1>6. Asked' - 1 = Asked
  BY <1>2, <1>3
<1>7. UpTo(Asked - 1)' = UpTo(Asked)
  BY <1>5, <1>6 DEF UpTo
<1>8. state' \notin Finding \cup Sending \cup Tunnelling
  BY <1>2 DEF Serving, Finding, Sending, Tunnelling, Relaying, Responding
<1>9. state' \in Responding => Origin'.received = UpTo(request_header)'
  <2>1. SUFFICES ASSUME state' \in Responding PROVE Origin'.received = UpTo(request_header)'
    OBVIOUS
  <2>2. state \in Responding /\ state \in Serving /\ request_header' = Asked
    BY <1>2, <1>3, <2>1 DEF Serving
  <2>3. Origin.received = UpTo(Asked)
    BY <1>2, <2>2 DEF Stands
  <2>4. UpTo(request_header)' = UpTo(Asked)
    BY <1>5, <2>2 DEF UpTo
  <2> QED
    BY <2>3, <2>4
<1>10. state' \in Waiting =>
         Origin'.received = UpTo(IF Arriving = <<>> THEN Asked ELSE Asked - 1)'
  <2>1. SUFFICES ASSUME state' \in Waiting
                 PROVE  Origin'.received = UpTo(IF Arriving = <<>> THEN Asked ELSE Asked - 1)'
    OBVIOUS
  <2>2. request_data = <<>> /\ upgoing_buffer = <<>> /\ client.stream = <<>>
    BY <1>2, <2>1 DEF Drained
  <2>3. <<>> \o <<>> = <<>>
    BY EmptySeq, ConcatEmptySeq
  <2>4. Arriving = <<>>
    <3>1. Arriving = (<<>> \o <<>>) \o <<>>
      BY <2>2, Zenon DEF Arriving
    <3> QED
      BY <2>3, <3>1, Zenon
  <2>5. Origin.received = UpTo(Asked)
    BY <1>2, <2>1, <2>4 DEF Stands
  <2>6. Arriving' # <<>>
    <3>1. PICK w \in Seq(SentOf({Asked'})) : w = Latest'
      BY <1>2
    <3>2. Arriving' = (<<>> \o <<>>) \o w
      BY <1>2, <1>3, <2>2, <3>1, Zenon DEF Arriving
    <3>3. <<>> \o w = w
      BY ConcatEmptySeq
    <3>4. w # <<>>
      <4>1. PICK k \in Nat : k = Asked'
        BY <1>2, <1>3
      <4>2. r.head \in Nat \ {0} /\ r.content \in Seq(ContentPart)
        BY MessagesAssumption DEF Request
      <4>3. Len(OnTheWire(k, r)) = r.head + Len(r.content)
        BY <4>2, OnTheWireType
      <4>4. Len(r.content) \in Nat
        BY <4>2, LenProperties
      <4>5. Len(w) # 0
        BY <1>2, <3>1, <4>1, <4>2, <4>3, <4>4
      <4> QED
        BY <4>5, EmptySeq
    <3> QED
      BY <2>3, <3>2, <3>3, <3>4, Zenon
  <2>7. UpTo(IF Arriving = <<>> THEN Asked ELSE Asked - 1)' = UpTo(Asked - 1)'
    BY <2>6
  <2> QED
    BY <1>7, <2>5, <2>7
<1> QED
  BY <1>8, <1>9, <1>10 DEF Stands

\* What the client sends through its tunnel comes behind what is on its way.
LEMMA StandsWhenTunnelled ==
  ASSUME DataInvariant, RequestInvariant, TunnelsEnd, Stands, Live, DataNext, ClientTunnels,
         Origin.request \in Made, Origin.received \in Seq(Unit),
         Origin'.request = Origin.request, Origin'.received = Origin.received
  PROVE  Stands'
<1>0. DataTypes
  BY DEF DataInvariant
<1>1. state \in Tunnelling /\ state' = state /\ UNCHANGED <<to_origin, upgoing_buffer>>
  BY WhenClientTunnels DEF ClientTunnels, proxy, state, contents, buffers, writes
<1>2. Asked' = Asked
  BY WhenTunnelGrows
<1>3. PICK u \in Unit :
        /\ client'.stream = client.stream \o <<u>>
        /\ \A f \in Made : Joined(Messages', f, Asked) = Joined(Messages, f, Asked) \o <<u>>
  BY WhenTunnelGrows
<1>4. UpTo(Asked)' = UpTo(Asked) \o <<u>>
  BY <1>2, <1>3 DEF UpTo
<1>5. Origin.received \o OnTheWay = UpTo(Asked)
  BY <1>1 DEF Stands
<1>6. PICK r \in Seq(Unit), a \in Seq(Unit), b \in Seq(Unit), c \in Seq(Unit), v \in Seq(Unit) :
        /\ r = Origin.received /\ a = to_origin /\ b = upgoing_buffer /\ c = client.stream
        /\ v = <<u>>
  <2>1. <<u>> \in Seq(Unit)
    OBVIOUS
  <2>2. /\ to_origin \in Seq(Unit) /\ upgoing_buffer \in Seq(Unit)
        /\ client.stream \in Seq(Unit)
    BY <1>0, WaysType
  <2> QED
    BY <2>1, <2>2, Zenon
<1>7. r \o (a \o (b \o (c \o v))) = (r \o (a \o (b \o c))) \o v
  <2>1. Both(r, Both(a, Both(b, Both(c, v)))) = Both(Both(r, Both(a, Both(b, c))), v)
    BY InAnyOrder
  <2> QED
    BY <2>1 DEF Both
<1>8. OnTheWay' = a \o (b \o (c \o v)) /\ OnTheWay = a \o (b \o c)
  BY <1>1, <1>3, <1>6, Zenon DEF OnTheWay
<1>9. Origin'.received \o OnTheWay' = UpTo(Asked)'
  BY <1>4, <1>5, <1>6, <1>7, <1>8, Zenon
<1> QED
  BY <1>1, <1>9 DEF Stands, Finding, Sending, Tunnelling, Responding, Waiting

\* A write to a server that reads puts there what was on its way.
LEMMA WriteReceives ==
  ASSUME DataTypes, OriginDataWrite, origins # <<>>, Origin.open
  PROVE  Receives(Origin, Origin')
<1>1. PICK n \in 1 .. Len(to_origin) :
        /\ to_origin' = SubSeq(to_origin, n + 1, Len(to_origin))
        /\ OriginIs(IF Origin.open
                    THEN [Origin EXCEPT !.received = @ \o SubSeq(to_origin, 1, n)]
                    ELSE Origin)
  BY DEF OriginDataWrite
<1>2. PICK new : new = Origin.received \o SubSeq(to_origin, 1, n)
  OBVIOUS
<1>3. PICK record : record = [Origin EXCEPT !.received = new]
  OBVIOUS
<1>4. OriginIs(record)
  BY <1>1, <1>2, <1>3, Zenon
<1>5. record.received = new
  <2>1. Origin \in ServerOf(Made)
    BY OriginType DEF DataTypes
  <2> QED
    BY <1>3, <2>1 DEF ServerOf
<1>6. Origin' = record
  <2>1. Len(origins') = Len(origins) /\ origins'[Len(origins)] = record
    BY <1>4, OriginWritten
  <2> QED
    BY <2>1 DEF Origin, Last
<1> QED
  BY <1>1, <1>2, <1>5, <1>6, Zenon DEF Receives

\* What has reached a server and what is on its way to it are together the same
\* before and after a write.
LEMMA WrittenIsReceived ==
  ASSUME ControlInvariant, DataTypes, Arrives, OriginDataWrite, Receives(Origin, Origin'),
         Origin.received \in Seq(Unit)
  PROVE  /\ Origin'.received \in Seq(Unit) /\ OnTheWay' \in Seq(Unit)
         /\ Origin'.received \o OnTheWay' = Origin.received \o OnTheWay
<1>1. PICK r \in Seq(Unit), t \in Seq(Unit), b \in Seq(Unit), c \in Seq(Unit) :
        /\ r = Origin.received /\ t = to_origin /\ b = upgoing_buffer /\ c = client.stream
  BY WaysType
<1>2. PICK n \in 1 .. Len(t) :
        /\ Origin'.received = r \o SubSeq(t, 1, n)
        /\ to_origin' = SubSeq(t, n + 1, Len(t))
  BY <1>1, Zenon DEF Receives
<1>3. PICK p \in Seq(Unit), q \in Seq(Unit) :
        p = SubSeq(t, 1, n) /\ q = SubSeq(t, n + 1, Len(t)) /\ p \o q = t
  <2>1. PICK S : S = Unit
    OBVIOUS
  <2>2. t \in Seq(S)
    BY <2>1
  <2>3. /\ SubSeq(t, 1, n) \in Seq(S)
        /\ SubSeq(t, n + 1, Len(t)) \in Seq(S)
        /\ SubSeq(t, 1, n) \o SubSeq(t, n + 1, Len(t)) = t
    BY <2>2, CutInTwo
  <2> QED
    BY <2>1, <2>3, Zenon
<1>4. upgoing_buffer' = b /\ client'.stream = c
  BY <1>1 DEF OriginDataWrite, buffers
<1>5. PICK w \in Seq(Unit) : w = b \o c
  <2>1. b \o c \in Seq(Unit)
    BY ConcatProperties
  <2> QED
    BY <2>1, Zenon
<1>6. q \o w \in Seq(Unit) /\ r \o p \in Seq(Unit)
  BY ConcatProperties
<1>7. (r \o p) \o (q \o w) = r \o ((p \o q) \o w)
  <2>1. Both(Both(r, p), Both(q, w)) = Both(r, Both(Both(p, q), w))
    BY InAnyOrder
  <2> QED
    BY <2>1 DEF Both
<1>8. OnTheWay' = q \o w /\ OnTheWay = t \o w
  BY <1>1, <1>2, <1>3, <1>4, <1>5, Zenon DEF OnTheWay
<1>9. Origin'.received = r \o p
  BY <1>2, <1>3, Zenon
<1> QED
  BY <1>1, <1>3, <1>6, <1>7, <1>8, <1>9, Zenon

\* How far the current connection has come is known after every step.
LEMMA StandsPreserved ==
  ASSUME ControlInvariant, DataInvariant, DataInvariant', RequestInvariant, RequestInvariant',
         TunnelsEnd, Pristine, Stands, DataNext
  PROVE  Stands'
<1>0. DataTypes /\ DataTypes' /\ OneAtATime'
  BY DEF DataInvariant, RequestInvariant
<1>1. SUFFICES ASSUME Live' PROVE Stands'
  BY DEF Stands
<1>2. CASE EndpointConnected
  <2>1. /\ state = "connect_to_origin_server" /\ state' = state
        /\ UNCHANGED <<client, request_header>>
        /\ request_header = Asked /\ Asked \in Made
    <3>1. state = "connect_to_origin_server" /\ request_header \in Made
      BY <1>0, <1>2, TunnelsGrow DEF DataInvariant
    <3>2. UNCHANGED <<client, request_header, connection_context>>
      BY <1>2 DEF EndpointConnected, Completes, request
    <3> QED
      BY <3>1, <3>2 DEF RequestInvariant, OneAtATime, Serving, Finding, Relaying, Responding, state
  <2>2. Origin'.received = <<>> /\ Origin'.request = request_header
    <3>1. PICK record :
            /\ record = [endpoint |-> Head(endpoint_iterator), request |-> request_header,
                         stream |-> <<>>, received |-> <<>>, open |-> TRUE, tunnelled |-> 0]
            /\ origins' = Append(origins, record)
      BY <1>2, Zenon DEF EndpointConnected
    <3>2. origins \in Seq(ServerOf(Made))
      BY <1>0 DEF DataTypes
    <3>3. Len(origins') = Len(origins) + 1 /\ origins'[Len(origins) + 1] = record
      BY <3>1, <3>2, OneMore
    <3>4. Origin' = record
      BY <3>3 DEF Origin, Last
    <3> QED
      BY <3>1, <3>4
  <2>3. PICK k \in Nat : k = Asked
    BY <1>0, AskedType
  <2>4. Joined(Messages', k, k - 1) = <<>>
    <3>1. PICK parts : parts = Messages'
      OBVIOUS
    <3>2. k - 1 \in Int /\ k - 1 < k
      OBVIOUS
    <3> QED
      BY <3>1, <3>2, JoinedNone
  <2>5. UpTo(Asked - 1)' = <<>>
    BY <2>1, <2>2, <2>3, <2>4 DEF UpTo, Asked
  <2> QED
    BY <2>1, <2>2, <2>5 DEF Stands, Finding, Sending, Tunnelling, Responding, Waiting
<1>3. CASE ~EndpointConnected
  <2>1. /\ Live
        /\ Origin \in ServerOf(Made) /\ Origin.request \in Made
        /\ Origin'.request = Origin.request
        /\ Origin'.received = Origin.received \/ Receives(Origin, Origin')
        /\ ~Reconnecting /\ ~TriesEndpoint
    BY <1>1, <1>3, HowLive
  <2>2. Origin.received \in Seq(Unit)
    <3>1. Made \subseteq Nat
      BY <1>0, WaysType
    <3>2. Origin.received \in Seq(PassedOf(Made))
      BY <2>1 DEF ServerOf
    <3> QED
      BY <3>1, <3>2, UnitsAre
  <2>3. CASE ~Arrives
    <3>1. Origin'.received = Origin.received /\ ~ClientTunnels /\ ~AClientSends
      <4>1. UNCHANGED origins
        BY <2>3, OnlyArrivalsChangeEnvironment DEF environment
      <4>2. client' = client
        BY <2>3, OnlyArrivalsChangeEnvironment DEF environment
      <4>3. ~ClientTunnels
        <5>1. ClientTunnels => Stays
          BY <1>0, ContextFields DEF ClientTunnels, proxy, DataTypes
        <5> QED
          BY <2>3, <5>1 DEF Arrives, Peers
      <4>4. ~AClientSends
        <5>1. AClientSends => Stays
          BY <1>0, ContextFields DEF AClientSends, ClientSends, proxy, DataTypes
        <5> QED
          BY <2>3, <5>1 DEF Arrives, Peers, AClientSends
      <4> QED
        BY <4>1, <4>3, <4>4 DEF Origin
    <3>2. StandsAfter(state', OnTheWay', request_header', (Arriving = <<>>)')
      BY <1>0, <2>1, <2>3, StandsAfterMove
    <3> QED
      BY <1>0, <2>1, <3>1, <3>2, StandsWhenAfter
  <2>4. CASE Arrives /\ OriginDataWrite
    <3>1. Receives(Origin, Origin')
      BY <1>0, <2>1, <2>4, WriteReceives DEF Live, OriginConnected
    <3>2. Origin'.received \o OnTheWay' = Origin.received \o OnTheWay
      BY <1>0, <2>2, <2>4, <3>1, WrittenIsReceived
    <3>3. state \in Sending \cup Tunnelling /\ state' = state
      BY <1>0, <2>4, WhenOriginIsWritten, ArrivalsKeep DEF Writing, Sending, Tunnelling
    <3>4. client' = client
      BY <2>4 DEF OriginDataWrite
    <3>5. UpTo(Asked)' = UpTo(Asked)
      <4>1. Messages' = Messages
        BY <3>4 DEF Messages, Made, ForwardedRequest
      <4> QED
        BY <2>1, <3>4, <4>1 DEF UpTo, Asked
    <3>6. Origin.received \o OnTheWay = UpTo(Asked)
      BY <2>1, <3>3 DEF Stands
    <3> QED
      BY <3>2, <3>3, <3>5, <3>6 DEF Stands, Finding, Sending, Tunnelling, Responding, Waiting
  <2>5. CASE Arrives /\ ~OriginDataWrite
    <3>1. Origin'.received = Origin.received
      BY <2>1, <2>5 DEF Receives
    <3>2. CASE AClientSends
      BY <2>1, <3>1, <3>2, StandsWhenAsked
    <3>3. CASE ClientTunnels
      BY <2>1, <2>2, <3>1, <3>3, StandsWhenTunnelled
    <3>4. CASE ~AClientSends /\ ~ClientTunnels
      <4>1. StandsAfter(state', OnTheWay', request_header', (Arriving = <<>>)')
        BY <2>1, <2>5, <3>4, StandsWhenLeftByOthers
      <4> QED
        BY <1>0, <2>1, <3>1, <3>4, <4>1, StandsWhenAfter
    <3> QED
      BY <3>2, <3>3, <3>4
  <2> QED
    BY <2>3, <2>4, <2>5
<1> QED
  BY <1>2, <1>3

\* What was joined of the messages is the beginning of what is joined of them later.
LEMMA MessagesGrow ==
  ASSUME DataInvariant, RequestInvariant, TunnelsEnd, DataNext
  PROVE  \E more \in Seq(Unit) : \A f \in Made :
           Joined(Messages', f, Asked') = Joined(Messages, f, Asked) \o more
<1>0. DataTypes
  BY DEF DataInvariant
<1>1. CASE AClientSends
  <2>1. PICK r \in Requests : ClientSends(r)
    BY <1>1 DEF AClientSends
  <2>2. /\ Messages'[Asked'] \in Seq(Unit)
        /\ \A f \in Made :
             Joined(Messages', f, Asked') = Joined(Messages, f, Asked) \o Messages'[Asked']
    BY <1>0, <2>1, WhenOneMoreIsAsked
  <2> QED
    BY <2>2, Zenon
<1>2. CASE ClientTunnels
  <2>1. Asked' = Asked
    BY <1>2, WhenTunnelGrows
  <2>2. PICK u \in Unit : \A f \in Made :
          Joined(Messages', f, Asked) = Joined(Messages, f, Asked) \o <<u>>
    BY <1>2, WhenTunnelGrows
  <2>3. <<u>> \in Seq(Unit)
    OBVIOUS
  <2> QED
    BY <2>1, <2>2, <2>3, Zenon
<1>3. CASE ~AClientSends /\ ~ClientTunnels
  <2>1. Asked' = Asked /\ Asked \in Int /\ Asked <= Asked
    <3>1. client'.requests = client.requests
      BY <1>0, <1>3, OnlyTunnelsGrow
    <3> QED
      BY <1>0, <3>1, AskedType DEF Asked
  <2>2. ASSUME NEW f \in Made
        PROVE  Joined(Messages', f, Asked') = Joined(Messages, f, Asked) \o <<>>
    <3>1. Joined(Messages', f, Asked) = Joined(Messages, f, Asked)
      BY <1>0, <1>3, <2>1, MessagesKept
    <3>2. Joined(Messages, f, Asked) \in Seq(Unit)
      BY <1>0, <2>1, MessagesJoined
    <3>3. PICK s \in Seq(Unit) : s = Joined(Messages, f, Asked)
      BY <3>2
    <3>4. s \o <<>> = s
      BY ConcatEmptySeq
    <3> QED
      BY <2>1, <3>1, <3>3, <3>4, Zenon
  <2>3. <<>> \in Seq(Unit)
    BY EmptySeq
  <2> QED
    BY <2>2, <2>3, Zenon
<1> QED
  BY <1>1, <1>2, <1>3

\* What a server gets goes on where it was, whatever becomes of its connection.
LEMMA BeginsPreserved ==
  ASSUME ControlInvariant, DataInvariant, RequestInvariant, TunnelsEnd, Stands, RunsBegun, DataNext
  PROVE  RunsBegun'
<1>0. DataTypes /\ OnlyItsOperations /\ RequestInHand
  BY DEF DataInvariant
<1>1. SUFFICES ASSUME NEW c \in DOMAIN origins'
               PROVE  \E rest \in Seq(Unit) :
                        origins'[c].received \o rest
                          = Joined(Messages', origins'[c].request, Asked')
  BY DEF RunsBegun
<1>2. CASE c \in DOMAIN origins /\ origins'[c].received = origins[c].received
  <2>1. origins'[c].request = origins[c].request /\ origins[c].request \in Made
    BY <1>0, <1>2, OriginsGrow, RecordsType DEF MayBecome
  <2>2. PICK rest \in Seq(Unit) :
          origins[c].received \o rest = Joined(Messages, origins[c].request, Asked)
    BY <1>2 DEF RunsBegun
  <2>3. PICK more \in Seq(Unit) : \A f \in Made :
          Joined(Messages', f, Asked') = Joined(Messages, f, Asked) \o more
    BY MessagesGrow
  <2>4. PICK s \in Seq(Unit) : s = origins[c].received
    BY <1>0, <1>2, WaysType
  <2>5. (s \o rest) \o more = s \o (rest \o more) /\ rest \o more \in Seq(Unit)
    <3>1. Both(Both(s, rest), more) = Both(s, Both(rest, more)) /\ Both(rest, more) \in Seq(Unit)
      BY InAnyOrder
    <3> QED
      BY <3>1 DEF Both
  <2>6. s \o (rest \o more) = Joined(Messages', origins'[c].request, Asked')
    BY <2>1, <2>2, <2>3, <2>4, <2>5, Zenon
  <2> QED
    BY <1>2, <2>4, <2>5, <2>6, Zenon
<1>3. CASE c \in DOMAIN origins /\ origins'[c].received # origins[c].received
  <2>1. Receives(origins[c], origins'[c]) /\ c = Len(origins)
    BY <1>0, <1>3, OriginsGrow DEF MayBecome
  <2>2. origins # <<>> /\ OriginDataWrite /\ OriginConnected
    <3>1. origins # <<>>
      BY <1>3
    <3> QED
      BY <2>1, <3>1 DEF Receives, OriginDataWrite
  <2>3. Len(origins') = Len(origins) /\ Origin = origins[c] /\ Origin' = origins'[c]
        /\ Origin \in ServerOf(Made)
    <3>1. PICK record : OriginIs(record)
      BY <2>2, Zenon DEF OriginDataWrite
    <3>2. Len(origins') = Len(origins) /\ Origin = origins[Len(origins)] /\ Origin \in ServerOf(Made)
      BY <1>0, <2>2, <3>1, OriginWritten
    <3> QED
      BY <2>1, <3>2 DEF Origin, Last
  <2>4. Origin.open
    <3>1. SUFFICES ASSUME ~Origin.open PROVE FALSE
      OBVIOUS
    <3>2. OriginIs(Origin)
      BY <2>2, <3>1 DEF OriginDataWrite
    <3>3. origins'[c] = Origin
      BY <1>0, <1>3, <2>1, <2>2, <3>2, OriginWritten
    <3> QED
      BY <1>3, <2>3, <3>3
  <2>5. state \in Writing \cup {"tunnel_transfer"}
    BY <2>2, WhenOriginIsWritten
  <2>6. Live
    BY <2>2, <2>4, <2>5 DEF Live, Writing
  <2>7. Origin.received \o OnTheWay = UpTo(Asked)
    BY <2>5, <2>6 DEF Stands, Writing, Sending, Tunnelling
  <2>8. Arrives
    <3>1. OriginDataWrite => Stays
      BY <1>0, ContextFields DEF OriginDataWrite, Completes, DataTypes
    <3> QED
      BY <2>2, <3>1 DEF Arrives
  <2>9. OnTheWay' \in Seq(Unit) /\ Origin'.received \o OnTheWay' = Origin.received \o OnTheWay
    <3>1. Receives(Origin, Origin')
      BY <2>1, <2>3
    <3>2. Origin.received \in Seq(Unit)
      BY <1>0, <1>3, <2>3, WaysType
    <3> QED
      BY <1>0, <2>2, <2>8, <3>1, <3>2, WrittenIsReceived
  <2>10. Joined(Messages', Origin'.request, Asked') = UpTo(Asked)
    <3>1. client' = client
      BY <2>2 DEF OriginDataWrite
    <3>2. Messages' = Messages /\ Asked' = Asked
      BY <3>1 DEF Messages, Made, ForwardedRequest, Asked
    <3>3. Origin'.request = Origin.request
      BY <1>0, <1>3, <2>3, OriginsGrow DEF MayBecome
    <3> QED
      BY <3>2, <3>3 DEF UpTo
  <2>11. Origin'.received \o OnTheWay' = Joined(Messages', Origin'.request, Asked')
    BY <2>7, <2>9, <2>10
  <2> QED
    BY <2>3, <2>9, <2>11
<1>4. CASE c \notin DOMAIN origins
  <2>1. EndpointConnected
    BY <1>0, <1>4, OriginsGrow
  <2>2. request_header \in Made
    BY <1>0, <2>1, TunnelsGrow
  <2>3. client' = client
    BY <2>1 DEF EndpointConnected
  <2>4. PICK record :
          /\ record = [endpoint |-> Head(endpoint_iterator), request |-> request_header,
                       stream |-> <<>>, received |-> <<>>, open |-> TRUE, tunnelled |-> 0]
          /\ origins' = Append(origins, record)
    BY <2>1, Zenon DEF EndpointConnected
  <2>5. origins'[c] = record
    <3>1. origins \in Seq(ServerOf(Made))
      BY <1>0 DEF DataTypes
    <3> QED
      BY <1>1, <1>4, <2>4, <3>1, OneMore
  <2>6. origins'[c].received = <<>> /\ origins'[c].request = request_header
    BY <2>4, <2>5
  <2>7. Messages' = Messages /\ Asked' = Asked
    BY <2>3 DEF Messages, Made, ForwardedRequest, Asked
  <2>8. Joined(Messages, request_header, Asked) \in Seq(Unit)
    <3>1. Asked \in Int /\ Asked <= Asked
      BY <1>0, AskedType
    <3> QED
      BY <1>0, <2>2, <3>1, MessagesJoined
  <2>9. PICK rest \in Seq(Unit) : rest = Joined(Messages, request_header, Asked)
    BY <2>8
  <2>10. <<>> \o rest = rest
    BY ConcatEmptySeq
  <2> QED
    BY <2>6, <2>7, <2>9, <2>10, Zenon
<1> QED
  BY <1>2, <1>3, <1>4

-----------------------------------------------------------------------------
(* The theorems about requests. *)

\* The relay invariant holds in every reachable state: what a server has got, and
\* what is on its way to it, are the messages of consecutive requests.
THEOREM RelayIsInvariant == Spec => []RelayInvariant
<1>1. Init => RelayInvariant
  <2> SUFFICES ASSUME Init PROVE RelayInvariant
    OBVIOUS
  <2>1. /\ client.requests = <<>> /\ client.tunnelled = 0 /\ origins = <<>>
        /\ state = "read_cipher_data"
    BY DEF Init, state
  <2>2. Made = {} /\ ~Live /\ DOMAIN origins = {}
    BY <2>1 DEF Made, Live, OriginConnected
  <2> QED
    BY <2>1, <2>2 DEF RelayInvariant, TunnelsEnd, Pristine, Stands, RunsBegun, Finding
<1>2. ControlInvariant /\ DataInvariant /\ DataInvariant' /\ RequestInvariant
        /\ RequestInvariant' /\ RelayInvariant /\ [Next]_vars => RelayInvariant'
  <2> SUFFICES ASSUME ControlInvariant, DataInvariant, DataInvariant', RequestInvariant,
                      RequestInvariant', RelayInvariant, [Next]_vars
               PROVE  RelayInvariant'
    OBVIOUS
  <2>1. DataNext /\ TunnelsEnd /\ Pristine /\ Stands /\ RunsBegun
    BY DataPreserved DEF RelayInvariant
  <2>2. TunnelsEnd' /\ Pristine' /\ Stands' /\ RunsBegun'
    BY <2>1, TunnelsEndPreserved, PristinePreserved, StandsPreserved, BeginsPreserved
  <2> QED
    BY <2>2 DEF RelayInvariant
<1> QED
  BY <1>1, <1>2, ControlIsInvariant, DataIsInvariant, RequestIsInvariant, PTL DEF Spec

\* The messages from one on, as UpstreamFaithful joins them.
LEMMA ConcatenatedIsJoined ==
  ASSUME DataTypes, NEW f \in Made
  PROVE  Concatenated(f, Len(client.requests), ForwardedRequest) = Joined(Messages, f, Asked)
<1>1. f \in Nat \ {0} /\ Made = 1 .. Asked /\ Asked \in Nat
  BY AskedType DEF Made, Asked
<1>2. ASSUME NEW i \in 1 .. Asked - f + 1
      PROVE  Messages[f + i - 1] = ForwardedRequest(f + i - 1)
  <2>1. f + i - 1 \in Made
    BY <1>1
  <2> QED
    BY <2>1 DEF Messages
<1>3. [i \in 1 .. Asked - f + 1 |-> Messages[f + i - 1]]
        = [i \in 1 .. Asked - f + 1 |-> ForwardedRequest(f + i - 1)]
  BY <1>2
<1> QED
  BY <1>3, Zenon DEF Concatenated, Joined, Asked

\* Through kept connections, reconnections and tunnels, what an origin server gets is
\* a run of consecutive requests from the first of which it gets any, each whole
\* before the next one begins, in order, nothing missing and nothing twice.
THEOREM UpstreamFaithfulHolds == Spec => []UpstreamFaithful
<1>1. DataTypes /\ RelayInvariant => UpstreamFaithful
  <2> SUFFICES ASSUME DataTypes, RelayInvariant, NEW c \in DOMAIN origins,
                      origins[c].received # <<>>
               PROVE  IsPrefix(origins[c].received,
                               Concatenated(origins[c].received[1].of, Len(client.requests),
                                            ForwardedRequest))
    BY DEF UpstreamFaithful
  <2>1. PICK s \in Seq(Unit), f \in Made : s = origins[c].received /\ f = origins[c].request
    BY WaysType, RecordsType
  <2>14. PICK whole : whole = Joined(Messages, f, Asked)
    OBVIOUS
  <2>2. PICK rest \in Seq(Unit) : s \o rest = whole
    BY <2>1, <2>14 DEF RelayInvariant, RunsBegun
  <2>3. PICK parts : parts = Messages
    OBVIOUS
  <2>4. /\ f \in Nat \ {0} /\ Asked \in Nat /\ f <= Asked /\ Made = 1 .. Asked
    BY MessagesType DEF Made, Asked
  <2>5. \A k \in f .. Asked : parts[k] \in Seq(Unit)
    <3>1. \A k \in Made : parts[k] \in Seq(Unit)
      BY <2>3, MessagesType
    <3> QED
      BY <2>4, <3>1
  <2>6. PICK t \in Seq(Unit) : whole = parts[f] \o t
    <3>1. PICK last \in Nat : last = Asked
      BY <2>4
    <3>2. \E t \in Seq(Unit) : Joined(parts, f, last) = parts[f] \o t
      <4>1. PICK g \in Nat \ {0} : g = f
        BY <2>4
      <4>2. PICK S : S = Unit
        OBVIOUS
      <4>3. g <= last
        BY <2>4, <3>1, <4>1
      <4>4. \A k \in g .. last : parts[k] \in Seq(S)
        BY <2>5, <3>1, <4>1, <4>2
      <4>5. StartsWith(S, Joined(parts, g, last), parts[g])
        BY <4>3, <4>4, JoinedFirst
      <4> QED
        BY <4>1, <4>2, <4>5 DEF StartsWith
    <3> QED
      BY <2>14, <2>3, <3>1, <3>2
  <2>7. /\ Len(s \o rest) = Len(s) + Len(rest) /\ Len(s) \in Nat /\ Len(rest) \in Nat
        /\ \A i \in 1 .. Len(s) : (s \o rest)[i] = s[i]
    BY ConcatProperties, LenProperties
  <2>8. Len(s) # 0
    BY <2>1, EmptySeq
  <2>9. parts[f] # <<>>
    <3>1. SUFFICES ASSUME parts[f] = <<>> PROVE FALSE
      OBVIOUS
    <3>2. client.requests[f].method = "CONNECT"
      BY <2>3, <3>1, MessagesType
    <3>3. f = Asked
      BY <3>2 DEF RelayInvariant, TunnelsEnd
    <3>4. whole = Joined(parts, f, f - 1) \o parts[f]
      <4>1. PICK n \in Int : n = f /\ n <= Asked /\ f <= n
        BY <2>4
      <4>2. Joined(Messages, f, n) = Joined(Messages, f, n - 1) \o Messages[n]
        BY <4>1, MessagesJoined
      <4> QED
        BY <2>14, <2>3, <3>3, <4>1, <4>2
    <3>5. Joined(parts, f, f - 1) = <<>>
      <4>1. f \in Nat /\ f - 1 \in Int /\ f - 1 < f
        BY <2>4
      <4> QED
        BY <4>1, JoinedNone
    <3>6. Len(<<>> \o <<>>) = 0
      BY EmptySeq, ConcatEmptySeq
    <3> QED
      BY <2>2, <2>7, <2>8, <3>1, <3>4, <3>5, <3>6
  <2>10. s[1] = parts[f][1] /\ parts[f][1] \in PassedOf({f})
    <3>1. PICK S : S = PassedOf({f})
      OBVIOUS
    <3>2. parts[f] \in Seq(S) /\ parts[f] \in Seq(Unit)
      BY <2>3, <3>1, MessagesType
    <3>3. PICK m \in Seq(Unit) : m = parts[f] /\ m \in Seq(S)
      BY <3>2
    <3>4. Len(m) \in Nat /\ Len(m) # 0
      BY <2>9, <3>3, EmptySeq, LenProperties
    <3>5. m[1] \in S
      BY <3>3, <3>4, ElementOfSeq
    <3>6. (m \o t)[1] = m[1]
      <4>1. \A i \in 1 .. Len(m) + Len(t) :
              (m \o t)[i] = IF i <= Len(m) THEN m[i] ELSE t[i - Len(m)]
        BY ConcatProperties
      <4>2. Len(t) \in Nat
        BY LenProperties
      <4> QED
        BY <3>4, <4>1, <4>2
    <3>7. (s \o rest)[1] = s[1]
      BY <2>7, <2>8
    <3> QED
      BY <2>2, <2>6, <3>1, <3>3, <3>5, <3>6, <3>7
  <2>11. s[1].of = f
    BY <2>10 DEF PassedOf
  <2>12. Concatenated(s[1].of, Len(client.requests), ForwardedRequest) = whole
    BY <2>1, <2>11, <2>14, ConcatenatedIsJoined
  <2>13. IsPrefix(s, s \o rest)
    <3>1. SubSeq(s \o rest, 1, Len(s)) = s /\ SubSeq(s, 1, Len(s)) = s
      <4>1. SubSeq(s \o rest, 1, Len(s)) = [i \in 1 .. Len(s) |-> (s \o rest)[i]]
        BY <2>7
      <4>2. s = [i \in 1 .. Len(s) |-> s[i]] /\ SubSeq(s, 1, Len(s)) = [i \in 1 .. Len(s) |-> s[i]]
        BY <2>7
      <4> QED
        BY <2>7, <4>1, <4>2
    <3> QED
      BY <2>7, <3>1 DEF IsPrefix
  <2> QED
    BY <2>1, <2>2, <2>12, <2>13
<1>2. DataInvariant => DataTypes
  BY DEF DataInvariant
<1> QED
  BY <1>1, <1>2, DataIsInvariant, RelayIsInvariant, PTL

-----------------------------------------------------------------------------
(* What goes to the client: the invariant. *)

\* The number of replies given so far, what the client gets of each, and of the
\* first n of them.
Given == Len(replies)
Relayed == [k \in 1 .. Given |-> RelayedReply(k)]
DownTo(n) == Joined(Relayed, 1, n)

\* The timer has not run out or been given up.
Watched == timer_pending \/ state = "read_cipher_data"

\* The phases in which nothing of a reply to the request in hand goes to the client,
\* and how many replies it has had by then.
Early == Waiting \cup Finding \cup Sending \cup {"read_http_response_header"}
Done == IF state \in Waiting THEN Given ELSE request_header - 1

\* What the client has got or is about to, and what comes from the current connection.
Heard == client.received \o to_client
Coming == downgoing_buffer \o Origin.stream

\* All that the current connection sends: its reply to the request in hand, if it
\* has given one, or what has come through its tunnel.
Awaited == IF Given = request_header THEN ReplyTo(Given) ELSE <<>>
Through == [n \in 1 .. Origin.tunnelled |-> TunnelUnit(request_header, n)]

\* The last chunk comes last.
OnlyLast(s) == \A i \in 1 .. Len(s) : s[i].part = "last" => i = Len(s)

\* Every request made is answered before the next one.
RepliesCount ==
  /\ Asked > 0 => Given >= Asked - 1
  /\ state \in Waiting /\ Written => Given = Asked
  /\ state \in Relaying => Given = request_header

\* An open tunnel goes to the server that was connected to for it.
TunnelCurrent == state \in Tunnelling => origins # <<>> /\ Origin.request = request_header

\* Where a reply is read from is open, and nothing is left of the last read when the
\* next one starts.
SocketRead ==
  Watched =>
    /\ state \in Responding => origin_server_socket = "open"
    /\ ops["read_origin"] # "ok" => downgoing_buffer = <<>>

\* Nothing is being written to the client when more comes for it.
NothingUnheard ==
  Watched =>
    /\ state \in Early \cup {"read_http_response_content"} => to_client = <<>>
    /\ state = "tunnel_transfer" /\ ops["read_origin"] # "idle" => to_client = <<>>
    /\ state \in Waiting \cup Finding \cup Sending => response_data = <<>>

\* The current connection sends nothing but the reply to the request in hand, or what
\* comes through its tunnel.
StreamFits ==
  Watched =>
    /\ origin_server_socket = "open" /\ state # "connect_to_origin_server" => origins # <<>>
    /\ state \in Waiting \cup {"resolve_origin_server_address"} /\ OriginConnected =>
         Origin.stream = <<>>
    /\ state = "connect_to_origin_server" /\ ops["connect"] = "ok" =>
         /\ origins # <<>> /\ Origin.request = request_header
         /\ Origin.stream = IF Served.method = "CONNECT" THEN Through ELSE <<>>
    /\ state \in Sending /\ OriginConnected => Origin.stream = Awaited
    /\ state = "read_http_response_header" => response_data \o Coming = Awaited

\* When a reply counts as complete there is nothing more of it.
CompleteIsAll ==
  Watched /\ state \in Relaying =>
    LET context == read_response_context
    IN  /\ context.content_length # NoLength =>
             context.content_length_has_read + Len(Coming) <= context.content_length
        /\ context.chunk_checker # "none" => OnlyLast(Coming)
        /\ context.chunk_checker = "complete" => Coming = <<>>

\* What the client has heard is the beginning of this, and the rest is coming.
HeardOf(whole) ==
  \E rest \in Seq(Unit) : Heard \o rest = whole /\ (Watched => rest = Coming)

\* What a client that listens has heard: whole replies, then the one in hand as far
\* as it has come, a tunnel, or an error page.
RepliesHeard ==
  client.open =>
    /\ state \in Early => Heard = DownTo(Done)
    /\ state \in Relaying => HeardOf(DownTo(request_header))
    /\ state \in Tunnelling =>
         HeardOf(DownTo(request_header - 1) \o TunnelFromOrigin(request_header))
    /\ state = "report_error" =>
         \E m \in 0 .. Given, n \in Nat : Heard = DownTo(m) \o ErrorReply(n)

\* What any client has got is the beginning of one of these.
RepliesBegun ==
  \E rest \in Seq(Unit) :
    \/ client.received \o rest = DownTo(Given)
    \/ /\ state \in Tunnelling
       /\ client.received \o rest
            = DownTo(request_header - 1) \o TunnelFromOrigin(request_header)
    \/ \E m \in 0 .. Given, n \in Nat : client.received \o rest = DownTo(m) \o ErrorReply(n)

ReplyInvariant ==
  /\ RepliesCount
  /\ TunnelCurrent
  /\ SocketRead
  /\ NothingUnheard
  /\ StreamFits
  /\ CompleteIsAll
  /\ RepliesHeard
  /\ RepliesBegun

-----------------------------------------------------------------------------
(* Replies. *)

\* Several parts joined begin with the first ones joined.
LEMMA JoinedPrefix ==
  ASSUME NEW S, NEW parts, NEW last \in Nat, NEW m \in Nat, m <= last,
         \A k \in 1 .. last : parts[k] \in Seq(S)
  PROVE  StartsWith(S, Joined(parts, 1, last), Joined(parts, 1, m))
<1> DEFINE Follows(k) == \E t \in Seq(S) : Joined(parts, 1, k) = Joined(parts, 1, m) \o t
           bad == {k \in Nat : m <= k /\ k <= last /\ ~Follows(k)}
<1>a. SUFFICES Follows(last)
  BY DEF StartsWith
<1>b. Joined(parts, 1, m) \in Seq(S)
  <2>1. 1 \in Nat \ {0} /\ m \in Int /\ \A k \in 1 .. m : parts[k] \in Seq(S)
    OBVIOUS
  <2> QED
    BY <2>1, JoinedType
<1>c. PICK whole : whole = Joined(parts, 1, m)
  OBVIOUS
<1> HIDE DEF Follows
<1>1. SUFFICES ASSUME bad # {} PROVE FALSE
  OBVIOUS
<1>2. PICK k \in bad : \A j \in bad : k <= j
  <2>1. bad \subseteq Nat
    OBVIOUS
  <2> HIDE DEF bad
  <2> QED
    BY <1>1, <2>1, SmallestExists, Zenon
<1>3. k \in Nat /\ m <= k /\ k <= last /\ ~Follows(k)
  BY <1>2
<1>4. CASE k = m
  <2>1. whole = whole \o <<>> /\ <<>> \in Seq(S)
    BY <1>b, <1>c, ConcatEmptySeq, EmptySeq
  <2> QED
    BY <1>3, <1>4, <1>c, <2>1 DEF Follows
<1>5. CASE k # m
  <2>1. PICK j \in Nat : k = j + 1 /\ m <= j
    BY <1>3, <1>5
  <2>2. j \notin bad
    BY <1>2, <2>1
  <2>3. Follows(j)
    BY <1>3, <2>1, <2>2
  <2>4. PICK t \in Seq(S) : Joined(parts, 1, j) = whole \o t
    BY <1>c, <2>3 DEF Follows
  <2>5. parts[k] \in Seq(S) /\ 1 <= j + 1 /\ parts[j + 1] \in Seq(S) /\ 1 \in Nat
    BY <1>3, <2>1
  <2>6. Joined(parts, 1, k) = Joined(parts, 1, j) \o parts[k]
    BY <2>1, <2>5, JoinedOneMore
  <2>7. PICK one \in Seq(S) : one = parts[k]
    BY <2>5
  <2>8. (whole \o t) \o one = whole \o (t \o one) /\ t \o one \in Seq(S)
    BY <1>b, <1>c, ConcatAssociative, ConcatProperties
  <2> QED
    BY <1>3, <1>c, <2>4, <2>6, <2>7, <2>8, Zenon DEF Follows
<1> QED
  BY <1>4, <1>5

\* A reply on the wire has a header, all of its content, and nothing behind its last
\* chunk.
LEMMA ReplyShape ==
  ASSUME NEW k \in Nat, NEW r \in Responses, NEW method, NEW w, w = Reply(k, r, method)
  PROVE  /\ w \in Seq(SentOf({k}))
         /\ HeaderEnd(w) = r.head /\ r.head \in Nat \ {0} /\ r.length \in Nat
         /\ NoContent(r, method) => Len(w) = r.head
         /\ r.framing = "length" => Len(w) <= r.head + r.length
         /\ r.framing = "chunked" => OnlyLast(w)
<1>1. r \in Response
  BY MessagesAssumption
<1>2. r.head \in Nat \ {0} /\ r.length \in Nat /\ r.content \in Seq(ContentPart)
  BY <1>1 DEF Response
<1>3. PICK m : m = IF NoContent(r, method) THEN [r EXCEPT !.content = <<>>] ELSE r
  OBVIOUS
<1>4. /\ m.head = r.head
      /\ m.content = IF NoContent(r, method) THEN <<>> ELSE r.content
      /\ m.content \in Seq(ContentPart)
  BY <1>1, <1>2, <1>3 DEF Response
<1>5. w = OnTheWire(k, m)
  BY <1>3 DEF Reply
<1>6. w \in Seq(SentOf({k})) /\ Len(w) = m.head + Len(m.content) /\ HeaderEnd(w) = m.head
  BY <1>2, <1>4, <1>5, OnTheWireType
<1>7. NoContent(r, method) => Len(w) = r.head
  BY <1>2, <1>4, <1>6
<1>8. ASSUME r.framing = "length" PROVE Len(w) <= r.head + r.length
  <2>1. Len(r.content) <= r.length /\ Len(r.content) \in Nat
    BY <1>2, <1>8, OriginsAssumption
  <2>2. Len(m.content) <= r.length
    BY <1>2, <1>4, <2>1
  <2>3. Len(m.content) \in Nat
    BY <1>4
  <2> QED
    BY <1>2, <1>4, <1>6, <2>2, <2>3
<1>9. ASSUME r.framing = "chunked" PROVE OnlyLast(w)
  <2>1. \A i \in 1 .. Len(m.content) : m.content[i] = "last" => i = Len(m.content)
    BY <1>2, <1>4, <1>9, OriginsAssumption
  <2>2. PICK h \in Nat, l \in Nat : h = m.head /\ l = Len(m.content)
    BY <1>2, <1>4
  <2>3. PICK p : p = HeadParts(h)
    OBVIOUS
  <2>4. p \in Seq({"head", "end"}) /\ Len(p) = h
    BY <2>3 DEF HeadParts
  <2>a. PICK c, q : c = m.content /\ q = p \o c
    OBVIOUS
  <2>5. /\ \A i \in 1 .. h + l : q[i] = IF i <= h THEN p[i] ELSE c[i - h]
        /\ DOMAIN q = 1 .. h + l
    <3>1. PICK S : S = {"head", "end"} \cup ContentPart
      OBVIOUS
    <3>2. p \in Seq(S) /\ c \in Seq(S) /\ Len(c) = l
      BY <1>4, <2>2, <2>4, <2>a, <3>1, SeqMonotonic
    <3>3. q \in Seq(S) /\ Len(q) = h + l
          /\ \A i \in 1 .. h + l : q[i] = IF i <= h THEN p[i] ELSE c[i - h]
      BY <2>4, <2>a, <3>2, ConcatProperties
    <3> QED
      BY <3>3
  <2>6. \A i \in 1 .. h + l : w[i].part = q[i]
    <3>1. w = [n \in DOMAIN q |-> [of |-> k, part |-> q[n], n |-> n]]
      BY <1>5, <2>2, <2>3, <2>a DEF OnTheWire, Units
    <3> QED
      BY <2>5, <3>1
  <2>7. \A i \in 1 .. h : p[i] # "last"
    BY <2>4
  <2>8. Len(w) = h + l
    BY <1>6, <2>2
  <2>9. ASSUME NEW i \in 1 .. h + l, w[i].part = "last" PROVE i = h + l
    <3>1. q[i] = "last"
      BY <2>6, <2>9
    <3>2. ~(i <= h)
      BY <2>5, <2>7, <3>1
    <3>3. c[i - h] = "last" /\ i - h \in 1 .. l
      BY <2>5, <3>1, <3>2
    <3> QED
      BY <2>1, <2>2, <2>a, <3>3
  <2> QED
    BY <2>8, <2>9 DEF OnlyLast
<1> QED
  BY <1>2, <1>4, <1>6, <1>7, <1>8, <1>9

\* The replies given, as they are relayed.
LEMMA RelayedType ==
  ASSUME DataTypes
  PROVE  /\ Given \in Nat /\ Asked \in Nat /\ Given <= Asked
         /\ \A k \in 1 .. Given :
              /\ k \in Made /\ replies[k] \in Responses
              /\ ReplyTo(k) \in Seq(SentOf({k})) /\ ReplyTo(k) \in Seq(SentOf(Made))
              /\ HeaderEnd(ReplyTo(k)) # 0
              /\ Relayed[k] = Rewritten(ReplyTo(k))
              /\ Relayed[k] \in Seq(Unit)
<1>1. replies \in Seq(Responses) /\ Asked \in Nat /\ Given \in Nat /\ Given <= Asked
  BY DEF DataTypes, Asked, Given
<1>2. ASSUME NEW k \in 1 .. Given
      PROVE  /\ k \in Made /\ replies[k] \in Responses
             /\ ReplyTo(k) \in Seq(SentOf({k})) /\ ReplyTo(k) \in Seq(SentOf(Made))
             /\ HeaderEnd(ReplyTo(k)) # 0
             /\ Relayed[k] = Rewritten(ReplyTo(k))
             /\ Relayed[k] \in Seq(Unit)
  <2>1. k \in Made /\ k \in Nat /\ {k} \subseteq Nat
    BY <1>1 DEF Made, Asked
  <2>2. replies[k] \in Responses
    BY <1>1 DEF Given
  <2>3. PICK w : w = ReplyTo(k)
    OBVIOUS
  <2>4. w \in Seq(SentOf({k})) /\ HeaderEnd(w) # 0
    <3>1. HeaderEnd(w) = replies[k].head /\ replies[k].head \in Nat \ {0} /\ w \in Seq(SentOf({k}))
      BY <2>1, <2>2, <2>3, ReplyShape DEF ReplyTo
    <3> QED
      BY <3>1
  <2>5. w \in Seq(SentOf(Made))
    BY <2>1, <2>4, OfOneMade
  <2>6. Relayed[k] = Rewritten(w)
    BY <2>3 DEF Relayed, RelayedReply
  <2>7. Rewritten(w) \in Seq(PassedOf({k}))
    BY <2>4, RewrittenType
  <2>8. Rewritten(w) \in Seq(Unit)
    BY <2>1, <2>7, UnitsAre
  <2> QED
    BY <2>1, <2>2, <2>3, <2>4, <2>5, <2>6, <2>8
<1> QED
  BY <1>1, <1>2

\* Replies joined are a sequence of units, one more comes behind, and the first of
\* them are the beginning of all.
LEMMA RelayedJoined ==
  ASSUME DataTypes, NEW n \in Int, n <= Given
  PROVE  /\ DownTo(n) \in Seq(Unit)
         /\ n >= 1 => DownTo(n) = DownTo(n - 1) \o Relayed[n]
         /\ n >= 0 => StartsWith(Unit, DownTo(Given), DownTo(n))
<1>1. PICK parts : parts = Relayed
  OBVIOUS
<1>2. Given \in Nat /\ \A k \in 1 .. Given : parts[k] \in Seq(Unit)
  BY <1>1, RelayedType
<1>3. \A k \in 1 .. n : parts[k] \in Seq(Unit)
  BY <1>2
<1>4. Joined(parts, 1, n) \in Seq(Unit)
  <2>1. 1 \in Nat \ {0}
    OBVIOUS
  <2> QED
    BY <1>3, <2>1, JoinedType
<1>5. ASSUME n >= 1
      PROVE  Joined(parts, 1, n) = Joined(parts, 1, n - 1) \o parts[n]
  <2>1. PICK last \in Nat : n = last + 1
    BY <1>5
  <2>2. parts[last + 1] \in Seq(Unit) /\ 1 <= last + 1 /\ 1 \in Nat
    BY <1>3, <2>1
  <2>3. Joined(parts, 1, last + 1) = Joined(parts, 1, last) \o parts[last + 1]
    BY <2>2, JoinedOneMore
  <2>4. n - 1 = last
    BY <2>1
  <2> QED
    BY <2>1, <2>3, <2>4
<1>6. ASSUME n >= 0
      PROVE  StartsWith(Unit, Joined(parts, 1, Given), Joined(parts, 1, n))
  <2>1. n \in Nat
    BY <1>6
  <2> QED
    BY <1>2, <2>1, JoinedPrefix
<1> QED
  BY <1>1, <1>4, <1>5, <1>6, Zenon DEF DownTo

-----------------------------------------------------------------------------
(* What the steps do to what goes to the client. *)

\* The replies given are kept, and so is what the client gets of them.
LEMMA DownKept ==
  ASSUME DataTypes, DataNext
  PROVE  /\ Given <= Given'
         /\ \A n \in Int : n <= Given => Joined(Relayed', 1, n) = DownTo(n)
<1>1. replies \in Seq(Responses) /\ Given \in Nat /\ Given = Len(replies)
  BY DEF DataTypes, Given
<1>2. \A k \in 1 .. Given : k \in DOMAIN replies' /\ replies'[k] = replies[k]
  BY <1>1, RepliesGrow
<1>3. \A k \in 1 .. Given : k \in Made /\ client'.requests[k] = client.requests[k]
  BY RelayedType, RequestsGrow
<1>4. Given <= Given' /\ Given' \in Nat /\ Given' = Len(replies')
  <2>1. replies' = replies \/ \E r : replies' = Append(replies, r)
    <3>1. CASE ~Arrives
      BY <3>1, OnlyArrivalsChangeEnvironment DEF environment
    <3>2. CASE Arrives
      BY <3>2 DEF Arrives, ClientDataRead, OriginDataRead, ClientDataWrite, OriginDataWrite,
         EndpointConnected, Peers, ClientSends, ClientTunnels, ClientCloses, OriginReplies,
         OriginTunnels, OriginCloses
    <3> QED
      BY <3>1, <3>2
  <2>2. ASSUME NEW r, replies' = Append(replies, r) PROVE Len(replies') = Len(replies) + 1
    BY <1>1, <2>2
  <2> QED
    BY <1>1, <2>1, <2>2 DEF Given
<1>5. \A k \in 1 .. Given : ReplyTo(k)' = ReplyTo(k)
  BY <1>2, <1>3 DEF ReplyTo
<1>6. \A k \in 1 .. Given : Relayed'[k] = Relayed[k]
  <2>1. \A k \in 1 .. Given : k \in 1 .. Given'
    BY <1>1, <1>4
  <2>2. \A k \in 1 .. Given : RelayedReply(k)' = RelayedReply(k)
    BY <1>5 DEF RelayedReply
  <2> QED
    BY <2>1, <2>2 DEF Relayed
<1>7. ASSUME NEW n \in Int, n <= Given PROVE Joined(Relayed', 1, n) = DownTo(n)
  <2>1. \A k \in 1 .. n : k \in 1 .. Given
    BY <1>1, <1>7
  <2>2. PICK p, q : p = Relayed' /\ q = Relayed
    OBVIOUS
  <2>3. \A k \in 1 .. n : p[k] = q[k]
    BY <1>6, <2>1, <2>2
  <2>4. Joined(p, 1, n) = Joined(q, 1, n)
    BY <2>3, JoinedSame
  <2> QED
    BY <2>2, <2>4 DEF DownTo
<1> QED
  BY <1>4, <1>7

\* What is watched was watched before.
LEMMA WatchedBefore ==
  ASSUME ControlTypeOK, DataNext, Watched'
  PROVE  Watched /\ (Rests => origin_server_socket' = origin_server_socket \/ state = "read_cipher_data")
<1>1. CASE Arrives
  BY <1>1, ArrivalsLeave DEF Watched, Stays, Becomes
<1>2. CASE Rests
  BY <1>2 DEF Rests, Watched, Stays, Becomes
<1>3. CASE ~Arrives /\ ~Rests
  BY <1>3 DEF DataNext, Begun, RequestGrows, TakenOnKept, TakenAnew, Reconnecting,
     ResolvedToKept, TriesEndpoint, ConnectedTo, NotConnected, PassesContent, PassesUp,
     OriginTook, ResponseGrows, RelaysHeader, RelaysContent, PassesDown, AwaitsContent,
     AwaitsRequest, StartsTunnel, SendsRequest, OpensTunnel, Resolves, ReportsError, Ran, RanOut,
     Watched
<1> QED
  BY <1>1, <1>2, <1>3

\* A server replies to the request in hand, which has reached it, while that is being
\* sent or its reply is awaited.
LEMMA WhenReplyIsGiven ==
  ASSUME ControlInvariant, DataInvariant, RequestInvariant, RequestInvariant', RoutingInvariant,
         RepliesCount, DataNext, NEW r \in Responses, OriginReplies(r)
  PROVE  /\ Asked \in Made /\ client' = client /\ UNCHANGED <<proxy>>
         /\ Given = Asked - 1 /\ Given' = Asked /\ replies'[Asked] = r
         /\ \/ state = "report_error"
            \/ /\ state \in Sending \cup {"read_http_response_header"}
               /\ request_header = Asked
         /\ ReplyTo(Asked)' = Reply(Asked, r, client.requests[Asked].method)
         /\ OriginConnected
         /\ Origin'.stream = Origin.stream \o ReplyTo(Asked)'
         /\ Origin'.request = Origin.request
<1>1. /\ DataTypes /\ Given \in Nat /\ Asked \in Nat /\ Given <= Asked
      /\ replies \in Seq(Responses)
  BY RelayedType DEF DataInvariant, DataTypes
<1>2. /\ Given + 1 <= Asked /\ replies' = Append(replies, r)
      /\ UNCHANGED <<client, connection_context, ops, request_header>>
      /\ OriginConnected
      /\ OriginIs([Origin EXCEPT
           !.stream = @ \o Reply(Given + 1, r, client.requests[Given + 1].method),
           !.open = ResponseKeepAlive(r)])
  BY DEF OriginReplies, OriginLives, Given, Asked, proxy, control, contents, request
<1>3. Given = Asked - 1 /\ Asked > 0
  BY <1>1, <1>2 DEF RepliesCount
<1>4. Given' = Asked /\ replies'[Asked] = r
  BY <1>1, <1>2, <1>3 DEF Given
<1>5. Asked \in Made
  BY <1>1, <1>3, AskedType
<1>6. Reached' = Reached /\ Asked' = Asked
  <2>1. ~OriginDataWrite
    BY <1>1, <1>2 DEF OriginDataWrite
  <2> QED
    BY <1>1, <1>2, <2>1, NothingElseReached DEF Asked
<1>7. Written /\ client.requests[Asked].method # "CONNECT"
  <2>1. Written' /\ client'.requests[Asked'].method # "CONNECT"
    BY <1>3, <1>4, <1>6 DEF RequestInvariant, WrittenInHand, Given
  <2> QED
    BY <1>2, <1>6, <2>1 DEF Written
<1>8. PICK c \in DOMAIN origins : Has(c, Asked)
  BY <1>7 DEF Written, Reached, Has
<1>9. state \notin Waiting
  BY <1>1, <1>3, <1>7 DEF RepliesCount
<1>10. state \notin Relaying \/ request_header # Asked
  BY <1>1, <1>3 DEF RepliesCount
<1>11. request_header = Asked \/ request_header = 0
  BY <1>7 DEF RequestInvariant, WrittenInHand
<1>12. state \in Waiting \cup Serving \cup {"report_error"}
  BY <1>1, ContextTypes DEF DataTypes, ConnectionState, Waiting, Serving, Finding, Sending,
     Responding, Tunnelling
<1>13. state \in Serving => request_header \in Made /\ request_header # 0
  BY DEF DataInvariant, RequestInHand, Made
<1>14. state \notin Finding \cup {"report_connection_established"} \/ request_header # Asked
  BY <1>8 DEF RoutingInvariant, SentOnce, Unsent
<1>15. state \notin Tunnelling \/ request_header # Asked
  BY <1>7 DEF DataInvariant, RequestInHand, Served, Serving

<1>16. \/ state = "report_error"
       \/ /\ state \in Sending \cup {"read_http_response_header"}
          /\ request_header = Asked
  <2>1. CASE state # "report_error"
    <3>1. state \in Serving
      BY <1>9, <1>12, <2>1
    <3>2. request_header = Asked
      BY <1>11, <1>13, <3>1
    <3> QED
      BY <1>10, <1>14, <1>15, <3>1, <3>2 DEF Serving, Relaying, Responding
  <2> QED
    BY <2>1
<1>17. origins # <<>>
  BY <1>2 DEF OriginConnected
<1>18. PICK wire : wire = Reply(Asked, r, client.requests[Asked].method)
  OBVIOUS
<1>19. ReplyTo(Asked)' = wire
  <2>1. Asked' = Asked /\ client' = client
    BY <1>2 DEF Asked
  <2> QED
    BY <1>4, <1>18, <2>1, Zenon DEF ReplyTo
<1>20. Origin'.stream = Origin.stream \o wire /\ Origin'.request = Origin.request
  <2>1. Given + 1 = Asked
    BY <1>1, <1>3
  <2>2. PICK record : record = [Origin EXCEPT !.stream = @ \o wire, !.open = ResponseKeepAlive(r)]
    OBVIOUS
  <2>3. OriginIs(record)
    BY <1>2, <1>18, <2>1, <2>2
  <2>4. Origin \in ServerOf(Made) /\ Len(origins') = Len(origins) /\ Len(origins) \in DOMAIN origins
        /\ origins'[Len(origins)] = record
    BY <1>1, <1>17, <2>3, OriginWritten
  <2>5. Origin' = record
    BY <2>4 DEF Origin, Last
  <2> QED
    BY <2>2, <2>4, <2>5 DEF ServerOf
<1>21. client' = client /\ UNCHANGED <<proxy>>
  BY DEF OriginReplies
<1> QED
  BY <1>2, <1>3, <1>4, <1>5, <1>16, <1>18, <1>19, <1>20, <1>21

\* One more unit comes through a tunnel.
LEMMA ThroughOneMore ==
  ASSUME NEW k \in Nat, NEW n \in Nat, NEW s, NEW t,
         s = [i \in 1 .. n |-> TunnelUnit(k, i)], t = [i \in 1 .. n + 1 |-> TunnelUnit(k, i)]
  PROVE  /\ s \in Seq(Unit) /\ t \in Seq(Unit) /\ TunnelUnit(k, n + 1) \in Unit
         /\ t = s \o <<TunnelUnit(k, n + 1)>>
<1>1. \A i \in 1 .. n + 1 : TunnelUnit(k, i) \in Unit
  BY DEF TunnelUnit, Unit, Part
<1>2. PICK u \in Unit : u = TunnelUnit(k, n + 1)
  BY <1>1
<1>3. s \in Seq(Unit) /\ Len(s) = n
  BY <1>1
<1>4. t \in Seq(Unit) /\ Len(t) = n + 1
  BY <1>1
<1>5. <<u>> \in Seq(Unit) /\ Len(<<u>>) = 1 /\ <<u>>[1] = u
  OBVIOUS
<1>6. s \o <<u>> \in Seq(Unit) /\ Len(s \o <<u>>) = n + 1
      /\ \A i \in 1 .. n + 1 : (s \o <<u>>)[i] = IF i <= n THEN s[i] ELSE <<u>>[i - n]
  BY <1>3, <1>5, ConcatProperties
<1>7. \A i \in 1 .. n + 1 : t[i] = (s \o <<u>>)[i]
  <2>1. ASSUME NEW i \in 1 .. n + 1 PROVE t[i] = (s \o <<u>>)[i]
    <3>1. CASE i <= n
      BY <1>6, <3>1
    <3>2. CASE i = n + 1
      <4>1. i - n = 1 /\ ~(i <= n)
        BY <3>2
      <4> QED
        BY <1>2, <1>5, <1>6, <3>2, <4>1
    <3> QED
      BY <3>1, <3>2
  <2> QED
    BY <2>1
<1>8. t = s \o <<u>>
  BY <1>4, <1>6, <1>7, SeqEqual
<1> QED
  BY <1>2, <1>3, <1>4, <1>8

\* The far end of a tunnel speaks when the tunnel is open or its connection is made.
LEMMA WhenTunnelSpeaks ==
  ASSUME ControlInvariant, DataInvariant, DataNext, OriginTunnels
  PROVE  /\ OriginConnected /\ Origin.request \in Made /\ Origin.tunnelled \in Nat
         /\ client' = client /\ replies' = replies /\ UNCHANGED <<proxy>>
         /\ \/ state \in Tunnelling
            \/ /\ state = "connect_to_origin_server" /\ Served.method = "CONNECT"
               /\ ops["connect"] \notin {"pending", "error"}
         /\ Origin'.stream
              = Origin.stream \o <<TunnelUnit(Origin.request, Origin.tunnelled + 1)>>
         /\ Origin'.request = Origin.request
         /\ Origin'.tunnelled = Origin.tunnelled + 1
<1>1. DataTypes /\ OriginConnected /\ origins # <<>> /\ UNCHANGED <<proxy, client, replies>>
      /\ client.requests[Origin.request].method = "CONNECT"
  BY DEF DataInvariant, OriginTunnels, OriginLives, OriginConnected
<1>2. PICK n, record : /\ n = Origin.tunnelled + 1
                       /\ record = [Origin EXCEPT !.tunnelled = n,
                                      !.stream = Append(@, TunnelUnit(Origin.request, n))]
  OBVIOUS
<1>3. OriginIs(record)
  BY <1>2 DEF OriginTunnels
<1>4. Origin \in ServerOf(Made) /\ Len(origins') = Len(origins) /\ Len(origins) \in DOMAIN origins
      /\ origins'[Len(origins)] = record /\ Origin = origins[Len(origins)]
  BY <1>1, <1>3, OriginWritten
<1>5. Origin' = record
  BY <1>4 DEF Origin, Last
<1>6. Tunnels
  BY <1>1, <1>4 DEF Tunnels
<1>7. \/ state \in Tunnelling
      \/ /\ state = "connect_to_origin_server" /\ Served.method = "CONNECT"
         /\ ops["connect"] \notin {"pending", "error"}
  BY <1>6 DEF DataInvariant, TunnelIsLast
<1>8. Origin.request \in Made /\ Origin.tunnelled \in Nat /\ Made \subseteq Nat
      /\ Origin.stream \in Seq(SentOf(Made))
  BY <1>4 DEF ServerOf, Made
<1>9. PICK u : u = TunnelUnit(Origin.request, n)
  OBVIOUS
<1>10. u \in SentOf(Made)
  BY <1>2, <1>8, <1>9 DEF TunnelUnit, SentOf, SentPart
<1>11. Append(Origin.stream, u) = Origin.stream \o <<u>>
  BY <1>8, <1>10, AppendIsConcat
<1>12. Origin'.stream = Append(Origin.stream, u) /\ Origin'.request = Origin.request
       /\ Origin'.tunnelled = n
  BY <1>2, <1>4, <1>5, <1>9 DEF ServerOf
<1> QED
  BY <1>1, <1>2, <1>7, <1>8, <1>9, <1>11, <1>12

\* Replies are only given by the current connection's server.
AReplyIsGiven == \E r \in Responses : OriginReplies(r)

\* No other step but these changes what is on its way from the current connection.
LEMMA OriginStays ==
  ASSUME ControlTypeOK, DataTypes, DataNext, ~EndpointConnected, ~OriginDataRead, ~AReplyIsGiven,
         ~OriginTunnels
  PROVE  /\ Origin'.stream = Origin.stream
         /\ Origin'.request = Origin.request
         /\ Origin'.tunnelled = Origin.tunnelled
         /\ origins' = <<>> <=> origins = <<>>
         /\ replies' = replies
         /\ Arrives => downgoing_buffer' = downgoing_buffer
<1>1. CASE UNCHANGED origins
  <2>1. Origin' = Origin
    BY <1>1 DEF Origin
  <2>2. replies' = replies /\ (Arrives => downgoing_buffer' = downgoing_buffer)
    BY OnlyArrivalsChangeEnvironment DEF environment, Arrives, ClientDataRead,
       OriginDataRead, ClientDataWrite, OriginDataWrite, EndpointConnected, Peers, ClientSends,
       ClientTunnels, ClientCloses, OriginTunnels, OriginCloses, AReplyIsGiven, proxy, buffers,
       contents
  <2> QED
    BY <1>1, <2>1, <2>2
<1>2. CASE ~UNCHANGED origins
  <2>1. Arrives
    BY <1>2, OnlyArrivalsChangeEnvironment DEF environment
  <2>2. OriginDataWrite \/ OriginCloses
    BY <1>2, <2>1 DEF Arrives, ClientDataRead, OriginDataRead, ClientDataWrite,
       EndpointConnected, Peers, ClientSends, ClientTunnels, ClientCloses,
       AReplyIsGiven
  <2>3. replies' = replies /\ downgoing_buffer' = downgoing_buffer /\ origins # <<>>
    BY <2>2 DEF OriginDataWrite, OriginCloses, proxy, buffers, contents, OriginLives,
       OriginConnected
  <2>4. Origin \in ServerOf(Made)
    BY <2>3, OriginType DEF DataTypes
  <2>5. PICK record : /\ OriginIs(record)
                      /\ record.stream = Origin.stream /\ record.request = Origin.request
                      /\ record.tunnelled = Origin.tunnelled
    <3>1. CASE OriginCloses
      <4>1. OriginIs([Origin EXCEPT !.open = FALSE])
        BY <3>1 DEF OriginCloses
      <4> QED
        BY <2>4, <4>1 DEF ServerOf
    <3>2. CASE OriginDataWrite
      <4>1. \E s : OriginIs(IF Origin.open THEN [Origin EXCEPT !.received = s] ELSE Origin)
        BY <3>2 DEF OriginDataWrite
      <4>2. PICK s, record : /\ OriginIs(record)
                             /\ record = IF Origin.open THEN [Origin EXCEPT !.received = s] ELSE Origin
        BY <4>1
      <4>3. record.stream = Origin.stream /\ record.request = Origin.request
            /\ record.tunnelled = Origin.tunnelled
        BY <2>4, <4>2 DEF ServerOf
      <4> QED
        BY <4>2, <4>3
    <3> QED
      BY <2>2, <3>1, <3>2
  <2>6. Len(origins') = Len(origins) /\ Len(origins) \in DOMAIN origins
        /\ origins'[Len(origins)] = record /\ origins \in Seq(ServerOf(Made))
    BY <2>3, <2>5, OriginWritten DEF DataTypes
  <2>7. Origin' = record
    BY <2>6 DEF Origin, Last
  <2>8. origins' # <<>>
    <3>1. Len(origins) \in Nat /\ Len(origins) # 0
      BY <2>3, <2>6
    <3>2. Len(<<>>) = 0
      OBVIOUS
    <3> QED
      BY <2>6, <3>1, <3>2
  <2> QED
    BY <2>3, <2>5, <2>7, <2>8
<1> QED
  BY <1>1, <1>2

\* What is read from an origin server leaves its stream for the buffer.
LEMMA WhenOriginIsRead ==
  ASSUME ControlInvariant, DataTypes, OriginDataRead
  PROVE  /\ origins # <<>> /\ origins' # <<>>
         /\ Origin'.request = Origin.request /\ Origin'.tunnelled = Origin.tunnelled
         /\ ops["read_origin"] = "pending" /\ ops'["read_origin"] = "ok"
         /\ downgoing_buffer = <<>> => Coming' = Coming
         /\ UNCHANGED <<client, replies, connection_context, to_client, response, request_header,
                        timer_pending>>
<1>1. origins # <<>> /\ UNCHANGED <<client, replies, connection_context, to_client, response,
                                    request_header, timer_pending>>
      /\ ops["read_origin"] = "pending" /\ ops'["read_origin"] = "ok"
  BY DEF OriginDataRead, OriginConnected, Completes, writes, request, ControlInvariant,
     ControlTypeOK, Operation
<1>2. Origin \in ServerOf(Made)
  BY <1>1, OriginType DEF DataTypes
<1>3. PICK s \in Seq(SentOf(Made)) : s = Origin.stream
  BY <1>2 DEF ServerOf
<1>4. PICK n \in 1 .. Len(s) : /\ downgoing_buffer' = SubSeq(s, 1, n)
                               /\ OriginIs([Origin EXCEPT !.stream = SubSeq(@, n + 1, Len(@))])
  BY <1>3 DEF OriginDataRead
<1>5. PICK rest, record : /\ rest = SubSeq(s, n + 1, Len(s))
                          /\ record = [Origin EXCEPT !.stream = rest]
  OBVIOUS
<1>6. OriginIs(record)
  BY <1>3, <1>4, <1>5
<1>7. Len(origins') = Len(origins) /\ Len(origins) \in DOMAIN origins
      /\ origins'[Len(origins)] = record /\ origins \in Seq(ServerOf(Made))
  BY <1>1, <1>6, OriginWritten DEF DataTypes
<1>8. Origin' = record
  BY <1>7 DEF Origin, Last
<1>9. origins' # <<>>
  <2>1. Len(origins) \in Nat /\ Len(origins) # 0
    BY <1>1, <1>7
  <2>2. Len(<<>>) = 0
    OBVIOUS
  <2> QED
    BY <1>7, <2>1, <2>2
<1>10. Origin'.stream = rest /\ Origin'.request = Origin.request
       /\ Origin'.tunnelled = Origin.tunnelled
  BY <1>2, <1>5, <1>8 DEF ServerOf
<1>11. ASSUME downgoing_buffer = <<>> PROVE Coming' = Coming
  <2>1. SubSeq(s, 1, n) \o rest = s
    BY <1>5, CutInTwo
  <2>2. <<>> \o s = s
    BY <1>3, ConcatEmptySeq
  <2> QED
    BY <1>3, <1>4, <1>10, <1>11, <2>1, <2>2, Zenon DEF Coming
<1> QED
  BY <1>1, <1>9, <1>10, <1>11

\* A connection just made sends nothing yet, and is the current one.
LEMMA WhenConnectionIsMade ==
  ASSUME ControlInvariant, DataInvariant, EndpointConnected
  PROVE  /\ state = "connect_to_origin_server" /\ origins' # <<>>
         /\ Origin'.request = request_header
         /\ Origin'.stream = <<>> /\ Origin'.tunnelled = 0
         /\ UNCHANGED <<client, replies, connection_context, to_client, response, request_header,
                        timer_pending, downgoing_buffer, ops["read_origin"],
                        origin_server_socket>>
<1>1. /\ ControlTypeOK /\ OnlyItsOperations /\ origins \in Seq(ServerOf(Made))
      /\ Completes("connect", "ok")
  BY DEF ControlInvariant, DataInvariant, DataTypes, EndpointConnected
<1>2. state = "connect_to_origin_server"
  BY <1>1, OutstandingMeans, StatesOfOutstanding DEF Completes, Operation
<1>3. PICK record : /\ record = [endpoint |-> Head(endpoint_iterator), request |-> request_header,
                                 stream |-> <<>>, received |-> <<>>, open |-> TRUE,
                                 tunnelled |-> 0]
                    /\ origins' = Append(origins, record)
  BY DEF EndpointConnected
<1>4. Len(origins') = Len(origins) + 1 /\ origins'[Len(origins) + 1] = record
      /\ Len(origins) \in Nat
  BY <1>1, <1>3, OneMore
<1>5. Origin' = record
  BY <1>4 DEF Origin, Last
<1>6. origins' # <<>>
  <2>1. Len(<<>>) = 0
    OBVIOUS
  <2> QED
    BY <1>4, <2>1
<1>7. UNCHANGED <<client, replies, connection_context, to_client, response, request_header,
                  timer_pending, downgoing_buffer, ops["read_origin"], origin_server_socket>>
  BY <1>1 DEF EndpointConnected, Completes, buffers, writes, request, sockets, ControlTypeOK,
     Operation
<1> QED
  BY <1>2, <1>3, <1>5, <1>6, <1>7

\* What is written to a client that listens has been heard; a client that does not
\* gets nothing.
LEMMA WhenClientIsTold ==
  ASSUME ControlInvariant, DataTypes, ClientDataWrite
  PROVE  /\ to_client # <<>> /\ ops["write_client"] = "pending"
         /\ client'.open = client.open /\ client'.requests = client.requests
         /\ IF client.open THEN Heard' = Heard ELSE client' = client
         /\ UNCHANGED <<replies, origins, connection_context, downgoing_buffer, response,
                        request_header, timer_pending, origin_server_socket>>
<1>1. /\ client \in [requests : Seq(Requests), stream : Seq(SentOf(Made)),
                     received : Seq(ToldUnit), open : BOOLEAN, tunnelled : Nat]
      /\ to_client \in Seq(ToldUnit)
      /\ UNCHANGED <<replies, origins, connection_context, downgoing_buffer, response,
                     request_header, timer_pending, origin_server_socket>>
      /\ ops["write_client"] = "pending"
  BY DEF DataTypes, ClientDataWrite, Completes, buffers, request, sockets
<1>2. PICK n \in 1 .. Len(to_client) :
        /\ to_client' = SubSeq(to_client, n + 1, Len(to_client))
        /\ client' = IF client.open
                     THEN [client EXCEPT !.received = @ \o SubSeq(to_client, 1, n)]
                     ELSE client
  BY DEF ClientDataWrite
<1>3. PICK s, t, u : /\ s = SubSeq(to_client, 1, n) /\ t = SubSeq(to_client, n + 1, Len(to_client))
                     /\ u = client.received
  OBVIOUS
<1>4. s \in Seq(ToldUnit) /\ t \in Seq(ToldUnit) /\ s \o t = to_client /\ u \in Seq(ToldUnit)
  BY <1>1, <1>3, CutInTwo
<1>5. (u \o s) \o t = u \o (s \o t)
  <2>1. PICK S : S = ToldUnit
    OBVIOUS
  <2>2. s \in Seq(S) /\ t \in Seq(S) /\ u \in Seq(S)
    BY <1>4, <2>1, Zenon
  <2> QED
    BY <2>2, ConcatAssociative
<1>6. CASE client.open
  <2>1. client'.received = u \o s /\ client'.open = client.open
        /\ client'.requests = client.requests
    BY <1>1, <1>2, <1>3, <1>6
  <2>2. Heard' = (u \o s) \o t
    BY <1>2, <1>3, <2>1, Zenon DEF Heard
  <2>3. Heard = u \o (s \o t)
    BY <1>3, <1>4, Zenon DEF Heard
  <2>4. to_client # <<>>
    BY <1>1
  <2> QED
    BY <1>1, <1>5, <1>6, <2>1, <2>2, <2>3, <2>4
<1>7. CASE ~client.open
  <2>1. to_client # <<>>
    BY <1>1
  <2> QED
    BY <1>1, <1>2, <1>7, <2>1
<1> QED
  BY <1>6, <1>7

\* How the phases follow each other.
LEMMA HowPhases ==
  ASSUME ControlTypeOK, DataTypes, DataNext
  PROVE  /\ state' \in Waiting =>
              (state \in Waiting /\ request_header' = request_header) \/ AwaitsRequest
         /\ state' = "resolve_origin_server_address" =>
              (state' = state /\ (Rests \/ Arrives)) \/ TakenAnew \/ Reconnecting
         /\ state' = "connect_to_origin_server" =>
              (state' = state /\ (Rests \/ Arrives)) \/ TriesEndpoint
         /\ state' \in Sending =>
              \/ (state \in Sending /\ (Rests \/ Arrives \/ OriginTook \/ PassesContent))
              \/ TakenOnKept \/ ResolvedToKept \/ ConnectedTo
         /\ state' = "read_http_response_header" =>
              (state' = state /\ (Rests \/ Arrives \/ ResponseGrows)) \/ OriginTook
         /\ state' \in Relaying =>
              \/ (state \in Relaying /\ (Rests \/ Arrives \/ RelaysContent \/ AwaitsContent))
              \/ RelaysHeader
         /\ state' \in Tunnelling =>
              \/ /\ state \in Tunnelling
                 /\ Rests \/ Arrives \/ OriginTook \/ PassesUp \/ PassesDown \/ StartsTunnel
              \/ ResolvedToKept \/ ConnectedTo
         /\ state' = "report_error" =>
              \/ (state' = state /\ (Rests \/ Arrives))
              \/ RequestGrows \/ NotConnected \/ ResponseGrows
<1> USE DEF Waiting, Sending, Relaying, Responding, Tunnelling
<1>1. CASE Arrives
  BY <1>1, ArrivalsLeave DEF Stays, Becomes
<1>2. CASE Rests \/ Begun
  BY <1>2 DEF Rests, Begun, Stays, Turns, Becomes, contents, request
<1>3. CASE RequestGrows \/ TakenOnKept \/ TakenAnew \/ Reconnecting
  BY <1>3 DEF RequestGrows, TakenOnKept, TakenAnew, Reconnecting, SendsRequest, Resolves,
     ReportsError, Stays, Turns, Becomes
<1>4. CASE ResolvedToKept \/ TriesEndpoint \/ ConnectedTo \/ NotConnected
  BY <1>4 DEF ResolvedToKept, TriesEndpoint, ConnectedTo, NotConnected, SendsRequest, OpensTunnel,
     ReportsError, Stays, Turns, Becomes
<1>5. CASE PassesContent \/ PassesUp \/ OriginTook
  BY <1>5 DEF PassesContent, PassesUp, OriginTook, Stays, Turns, Becomes, Writing
<1>6. CASE ResponseGrows \/ RelaysHeader \/ RelaysContent \/ PassesDown
  BY <1>6 DEF ResponseGrows, RelaysHeader, RelaysContent, PassesDown, ReportsError, Stays, Turns,
     Becomes
<1>7. CASE AwaitsContent \/ AwaitsRequest \/ StartsTunnel
  BY <1>7 DEF AwaitsContent, AwaitsRequest, StartsTunnel, Stays, Turns, Becomes
<1> QED
  BY <1>1, <1>2, <1>3, <1>4, <1>5, <1>6, <1>7 DEF DataNext

\* The header that is relayed is the beginning of the reply to the request in hand,
\* and the rest of that comes behind it.
LEMMA WhenHeaderIsRelayed ==
  ASSUME ControlInvariant, DataInvariant, RequestInvariant, ReplyInvariant, RelaysHeader
  PROVE  /\ state = "read_http_response_header" /\ Watched /\ to_client = <<>>
         /\ request_header' = request_header /\ UNCHANGED environment
         /\ Given = request_header /\ Given \in Made
         /\ response_data' \in Seq(SentOf({Given}))
         /\ response_data' \in Seq(SentOf(Made))
         /\ HeaderEnd(response_data') # 0
         /\ HeaderEnd(response_data') = HeaderEnd(ReplyTo(Given))
         /\ Coming' \in Seq(SentOf(Made))
         /\ response_data' \o Coming' = ReplyTo(Given)
<1>1. /\ state = "read_http_response_header" /\ Watched /\ UNCHANGED environment
      /\ request_header' = request_header /\ downgoing_buffer' = <<>>
      /\ response_data' = response_data \o downgoing_buffer /\ HeaderEnd(response_data') # 0
  BY DEF RelaysHeader, Ran, Watched, request
<1>2. DataTypes /\ response_data \o Coming = Awaited /\ to_client = <<>>
  BY <1>1 DEF DataInvariant, ReplyInvariant, StreamFits, NothingUnheard, Early
<1>3. request_header \in Made
  BY <1>1 DEF DataInvariant, RequestInHand, Serving, Responding
<1>4. origins # <<>>
  BY <1>1 DEF ReplyInvariant, StreamFits, SocketRead, Responding
<1>5. PICK S : S = SentOf(Made)
  OBVIOUS
<1>6. PICK a \in Seq(S), b \in Seq(S), c \in Seq(S) :
        a = response_data /\ b = downgoing_buffer /\ c = Origin.stream
  <2>1. Origin.stream \in Seq(SentOf(Made))
    BY <1>2, <1>4, OriginType DEF DataTypes, ServerOf
  <2> QED
    BY <1>2, <1>5, <2>1 DEF DataTypes
<1>7. (a \o b) \o c = a \o (b \o c) /\ a \o b \in Seq(S)
  BY ConcatAssociative, ConcatProperties
<1>8. PICK d \in Seq(S) : d = a \o b
  BY <1>7
<1>9. response_data' = d /\ d \o c = Awaited
  BY <1>1, <1>2, <1>6, <1>7, <1>8, Zenon DEF Coming
<1>10. Coming' = c
  <2>1. Coming' = <<>> \o c
    BY <1>1, <1>6 DEF Coming, environment, Origin
  <2> QED
    BY <2>1, ConcatEmptySeq
<1>11. Given = request_header
  <2>1. SUFFICES ASSUME Given # request_header PROVE FALSE
    OBVIOUS
  <2>2. d \o c = <<>>
    BY <1>9, <2>1 DEF Awaited
  <2>3. Len(d \o c) = Len(d) + Len(c) /\ Len(<<>>) = 0 /\ Len(d) \in Nat /\ Len(c) \in Nat
    BY ConcatProperties
  <2>4. Len(d) = 0
    BY <2>2, <2>3
  <2>a. HeaderEnd(d) \in 0 .. Len(d)
    BY HeaderEndIsFirst
  <2>5. HeaderEnd(d) = 0
    BY <2>4, <2>a
  <2> QED
    BY <1>1, <1>9, <2>5
<1>12. PICK k \in Made : k = Given
  BY <1>3, <1>11
<1>13. k \in 1 .. Given
  BY <1>12 DEF Made
<1>14. d \o c = ReplyTo(k) /\ ReplyTo(k) \in Seq(SentOf({k}))
  BY <1>2, <1>9, <1>11, <1>12, <1>13, RelayedType DEF Awaited
<1>15. d \in Seq(SentOf({k})) /\ HeaderEnd(d \o c) = HeaderEnd(d)
  <2>1. d \o c \in Seq(SentOf({k})) /\ HeaderEnd(d) # 0
    BY <1>1, <1>9, <1>14
  <2> QED
    BY <2>1, Beginning
<1> QED
  BY <1>1, <1>2, <1>5, <1>9, <1>10, <1>11, <1>12, <1>14, <1>15

\* Every request made is answered before the next one.
LEMMA RepliesCountPreserved ==
  ASSUME ControlInvariant, DataInvariant, RequestInvariant, RequestInvariant', RoutingInvariant,
         ReplyInvariant, DataNext
  PROVE  RepliesCount'
<1>1. /\ DataTypes /\ ControlTypeOK /\ RepliesCount
      /\ Given \in Nat /\ Asked \in Nat /\ Given <= Asked /\ Given = Len(replies)
  BY RelayedType DEF DataInvariant, ControlInvariant, ReplyInvariant, Given
<1>2. \A u \in Reached : u.of \in 1 .. Asked
  BY <1>1, UnitsPassed DEF PassedOf, Made, Asked
<1>3. CASE Arrives
  <2>1. state' = state /\ request_header' = request_header
    BY <1>1, <1>3, ArrivalsKeep DEF request
  <2>2. CASE AReplyIsGiven
    <3>1. PICK r \in Responses : OriginReplies(r)
      BY <2>2 DEF AReplyIsGiven
    <3>2. /\ Given' = Asked /\ client' = client
          /\ state \in Sending \cup {"read_http_response_header", "report_error"}
      BY <1>1, <3>1, WhenReplyIsGiven
    <3> QED
      BY <1>1, <2>1, <3>2 DEF RepliesCount, Asked, Waiting, Sending, Relaying, Responding
  <2>3. CASE AClientSends
    <3>1. PICK r \in Requests : ClientSends(r)
      BY <2>3 DEF AClientSends
    <3>2. Asked' = Asked + 1 /\ UNCHANGED <<origins, replies>>
      BY <3>1, WhenClientSends DEF ClientSends
    <3>3. Reached' = Reached /\ Given' = Given
      BY <3>2 DEF Reached, GotBy, Given
    <3>4. ~Written'
      BY <1>1, <1>2, <3>2, <3>3 DEF Written
    <3>5. Asked > 0 => Given >= Asked
      BY <1>1, <3>1 DEF ClientSends, Answered, Asked, Given
    <3> QED
      BY <1>1, <2>1, <3>2, <3>3, <3>4, <3>5 DEF RepliesCount
  <2>4. CASE ~AReplyIsGiven /\ ~AClientSends
    <3>1. replies' = replies /\ client'.requests = client.requests
      BY <1>1, <1>3, <2>4, ArrivalsKeep DEF AReplyIsGiven
    <3>2. state \in Waiting => Reached' = Reached
      <4>1. OriginDataWrite => state \in Writing \cup {"tunnel_transfer"}
        BY WhenOriginIsWritten
      <4> QED
        BY <1>1, <4>1, NothingElseReached DEF Writing, Waiting
    <3> QED
      BY <1>1, <2>1, <3>1, <3>2 DEF RepliesCount, Asked, Given, Written
  <2> QED
    BY <2>2, <2>3, <2>4
<1>4. CASE ~Arrives
  <2>1. Asked' = Asked /\ Given' = Given /\ Written' = Written
    BY <1>4, OnlyArrivalsChangeEnvironment DEF environment, Asked, Given, Written, Reached, GotBy
  <2>2. ASSUME state' \in Waiting, Written PROVE Given = Asked
    <3>1. CASE state \in Waiting
      BY <1>1, <2>2, <3>1 DEF RepliesCount
    <3>2. CASE AwaitsRequest
      <4>1. state \in Relaying /\ state \in Serving
        BY <3>2 DEF AwaitsRequest, Relaying, Responding, Serving
      <4>2. request_header \in Made /\ Given = request_header
        BY <1>1, <4>1 DEF DataInvariant, RequestInHand, RepliesCount
      <4>3. request_header = Asked
        BY <1>1, <2>2, <4>2 DEF RequestInvariant, WrittenInHand, Made
      <4> QED
        BY <4>2, <4>3
    <3> QED
      BY <1>1, <2>2, <3>1, <3>2, HowPhases
  <2>3. ASSUME state' \in Relaying PROVE Given = request_header'
    <3>1. CASE state \in Relaying /\ (Rests \/ RelaysContent \/ AwaitsContent)
      <4>1. request_header' = request_header
        BY <3>1 DEF Rests, RelaysContent, AwaitsContent, contents, request
      <4> QED
        BY <1>1, <3>1, <4>1 DEF RepliesCount
    <3>2. CASE RelaysHeader
      BY <3>2, WhenHeaderIsRelayed
    <3> QED
      BY <1>1, <1>4, <2>3, <3>1, <3>2, HowPhases
  <2> QED
    BY <1>1, <2>1, <2>2, <2>3 DEF RepliesCount
<1> QED
  BY <1>3, <1>4

\* A connection that is made is not replaced but by the next one.
LEMMA CurrentStays ==
  ASSUME ControlInvariant, DataInvariant, RequestInvariant, RequestInvariant', RoutingInvariant,
         RepliesCount, DataNext, ~EndpointConnected, origins # <<>>
  PROVE  Origin'.request = Origin.request /\ origins' # <<>>
<1>1. DataTypes /\ ControlTypeOK
  BY DEF ControlInvariant, DataInvariant
<1>2. CASE OriginDataRead
  BY <1>1, <1>2, WhenOriginIsRead
<1>3. ASSUME AReplyIsGiven \/ OriginTunnels PROVE origins' # <<>>
  <2>1. \E record : OriginIs(record)
    BY <1>3 DEF AReplyIsGiven, OriginReplies, OriginTunnels
  <2>2. Len(origins') = Len(origins)
    BY <1>1, <2>1, OriginWritten
  <2>3. Len(origins) # 0 /\ Len(<<>>) = 0
    BY <1>1 DEF DataTypes
  <2> QED
    BY <2>2, <2>3
<1>4. CASE AReplyIsGiven
  BY <1>3, <1>4, WhenReplyIsGiven DEF AReplyIsGiven
<1>5. CASE OriginTunnels
  BY <1>3, <1>5, WhenTunnelSpeaks
<1>6. CASE ~OriginDataRead /\ ~AReplyIsGiven /\ ~OriginTunnels
  BY <1>1, <1>6, OriginStays
<1> QED
  BY <1>2, <1>4, <1>5, <1>6

\* When a tunnel is opened, its connection has just been made.
LEMMA WhenTunnelOpens ==
  ASSUME ControlInvariant, DataInvariant, ReplyInvariant, ResolvedToKept \/ ConnectedTo,
         state' \in Tunnelling
  PROVE  /\ state = "connect_to_origin_server" /\ ops["connect"] = "ok" /\ Watched
         /\ Served.method = "CONNECT" /\ request_header' = request_header
         /\ to_client = <<>> /\ to_client' = Established(request_header)
         /\ UNCHANGED <<downgoing_buffer, environment>>
         /\ origins # <<>> /\ Origin.request = request_header /\ Origin.stream = Through
<1>1. /\ request_header' = request_header /\ UNCHANGED <<downgoing_buffer, environment>>
      /\ timer_pending
      /\ OpensTunnel("resolve", TRUE) \/ OpensTunnel("connect", Recovers)
      /\ state \in Finding
  BY DEF ResolvedToKept, ConnectedTo, SendsRequest, OpensTunnel, Ran, Becomes, request, buffers,
     Tunnelling, Finding
<1>2. Served.method = "CONNECT" /\ to_client' = Established(request_header)
  BY <1>1 DEF OpensTunnel, Served
<1>3. CASE ResolvedToKept
  BY <1>1, <1>2, <1>3 DEF ResolvedToKept, DataInvariant, SocketFits
<1>4. CASE ConnectedTo
  <2>1. state = "connect_to_origin_server" /\ ops["connect"] = "ok"
    BY <1>4 DEF ConnectedTo, SendsRequest, OpensTunnel, Ran
  <2>2. Watched
    BY <1>1 DEF Watched
  <2>3. to_client = <<>> /\ origins # <<>> /\ Origin.request = request_header
        /\ Origin.stream = Through
    BY <1>2, <2>1, <2>2 DEF ReplyInvariant, NothingUnheard, StreamFits, Early, Finding
  <2> QED
    BY <1>1, <1>2, <2>1, <2>2, <2>3
<1> QED
  BY <1>3, <1>4

\* An open tunnel goes to the server that was connected to for it.
LEMMA TunnelCurrentPreserved ==
  ASSUME ControlInvariant, DataInvariant, RequestInvariant, RequestInvariant', RoutingInvariant,
         ReplyInvariant, DataNext
  PROVE  TunnelCurrent'
<1>1. DataTypes /\ ControlTypeOK /\ RepliesCount /\ TunnelCurrent
  BY DEF ControlInvariant, DataInvariant, ReplyInvariant
<1>2. SUFFICES ASSUME state' \in Tunnelling
               PROVE  origins' # <<>> /\ Origin'.request = request_header'
  BY DEF TunnelCurrent
<1>3. CASE /\ state \in Tunnelling
           /\ Rests \/ Arrives \/ OriginTook \/ PassesUp \/ PassesDown \/ StartsTunnel
  <2>1. request_header' = request_header
    BY <1>1, <1>3, ArrivalsLeave DEF Rests, OriginTook, PassesUp, PassesDown, StartsTunnel, contents,
       request
  <2>2. origins # <<>> /\ Origin.request = request_header
    BY <1>1, <1>3 DEF TunnelCurrent
  <2>3. ~EndpointConnected
    BY <1>3, WhenConnectionIsMade DEF Tunnelling
  <2> QED
    BY <1>1, <2>1, <2>2, <2>3, CurrentStays
<1>4. CASE ResolvedToKept \/ ConnectedTo
  BY <1>2, <1>4, WhenTunnelOpens DEF environment, Origin
<1> QED
  BY <1>1, <1>2, <1>3, <1>4, HowPhases

\* An operation that was not completed has not been after a step of the proxy.
LEMMA SocketReadPreserved ==
  ASSUME ControlInvariant, DataInvariant, ReplyInvariant, DataNext
  PROVE  SocketRead'
<1>1. DataTypes /\ ControlTypeOK /\ SocketRead /\ SocketFits
  BY DEF ControlInvariant, DataInvariant, ReplyInvariant
<1>2. SUFFICES ASSUME Watched'
               PROVE  /\ state' \in Responding => origin_server_socket' = "open"
                      /\ ops'["read_origin"] # "ok" => downgoing_buffer' = <<>>
  BY DEF SocketRead
<1>3. Watched
  BY <1>1, <1>2, WatchedBefore
<1>4. ASSUME state' \in Responding PROVE origin_server_socket' = "open"
  <2>1. CASE state \in Responding
    <3>1. origin_server_socket = "open"
      BY <1>1, <1>3, <2>1 DEF SocketRead
    <3>2. CASE Rests
      BY <1>1, <1>2, <2>1, <3>1, <3>2, WatchedBefore DEF Responding
    <3>3. CASE Arrives
      BY <1>1, <3>1, <3>3, ArrivalsLeave
    <3>4. CASE ResponseGrows \/ RelaysHeader \/ RelaysContent \/ AwaitsContent
      BY <3>1, <3>4 DEF ResponseGrows, RelaysHeader, RelaysContent, AwaitsContent
    <3> QED
      BY <1>1, <1>4, <2>1, <3>2, <3>3, <3>4, HowPhases DEF Relaying, Responding, OriginTook,
         Writing
  <2>2. CASE OriginTook /\ state \notin Responding
    <3>1. /\ state \in Sending /\ timer_pending /\ ops["write_origin"] = "ok"
          /\ origin_server_socket' = origin_server_socket
      BY <1>4, <2>2 DEF OriginTook, Ran, Writing, Sending, Responding, Becomes
    <3> QED
      BY <1>1, <3>1 DEF SocketFits
  <2> QED
    BY <1>1, <1>4, <2>1, <2>2, HowPhases DEF Relaying, Responding, RelaysHeader
<1>5. ASSUME ops'["read_origin"] # "ok" PROVE downgoing_buffer' = <<>>
  <2>0. "read_origin" \in Operation
    BY DEF Operation
  <2>1. CASE ResponseGrows \/ RelaysHeader \/ RelaysContent \/ PassesDown
    BY <2>1 DEF ResponseGrows, RelaysHeader, RelaysContent, PassesDown
  <2>2. SUFFICES ASSUME ~(ResponseGrows \/ RelaysHeader \/ RelaysContent \/ PassesDown)
                 PROVE  ops["read_origin"] # "ok" /\ downgoing_buffer' = downgoing_buffer
    BY <1>1, <1>3, <2>1 DEF SocketRead
  <2>3. CASE Arrives
    <3>1. ~OriginDataRead
      BY <1>1, <1>5, WhenOriginIsRead
    <3>2. ops'["read_origin"] = ops["read_origin"]
      BY <1>1, <1>5, <2>0, <2>3, ArrivalsLeave
    <3>3. downgoing_buffer' = downgoing_buffer
      BY <2>3, <3>1 DEF Arrives, ClientDataRead, ClientDataWrite, OriginDataWrite,
         EndpointConnected, Peers, ClientSends, ClientTunnels, ClientCloses, OriginReplies,
         OriginTunnels, OriginCloses, proxy, contents, buffers
    <3> QED
      BY <1>5, <3>2, <3>3
  <2>4. CASE Rests
    <3>1. downgoing_buffer' = downgoing_buffer
      BY <2>4 DEF Rests, contents, buffers
    <3>2. Settles("read_origin") \/ ops["read_origin"] # "ok"
      BY <2>4 DEF Rests
    <3>3. ASSUME Settles("read_origin") PROVE ops["read_origin"] # "ok"
      <4>1. CASE ~timer_pending'
        <5>1. state = "read_cipher_data"
          BY <1>2, <2>4, <4>1 DEF Rests, Watched, Stays, Becomes
        <5>2. ops["read_origin"] = "idle"
          BY <2>0, <5>1 DEF ControlInvariant, NotStarted, Outstanding
        <5> QED
          BY <5>2
      <4>2. CASE timer_pending'
        BY <1>5, <3>3, <4>2 DEF Settles
      <4> QED
        BY <4>1, <4>2
    <3> QED
      BY <3>1, <3>2, <3>3
  <2>5. CASE StartsTunnel \/ AwaitsContent \/ AwaitsRequest
    <3>1. /\ timer_pending /\ downgoing_buffer' = downgoing_buffer
          /\ state \in {"report_connection_established", "write_http_response_header",
                        "write_http_response_content"}
      BY <2>5 DEF StartsTunnel, AwaitsContent, AwaitsRequest, Ran, contents, buffers
    <3>2. "read_origin" \notin Outstanding
      BY <3>1, StatesOfOutstanding, <1>1 DEF DataInvariant
    <3> QED
      BY <2>0, <3>1, <3>2 DEF Outstanding
  <2>6. CASE OriginTook
    <3>1. downgoing_buffer' = downgoing_buffer
      BY <2>6 DEF OriginTook, contents, buffers
    <3>2. \/ Ran("write_origin", "ok", {"write_origin"})
          \/ Ran("write_origin", "ok", {"read_client"})
          \/ state \in Writing
      BY <2>6 DEF OriginTook
    <3>3. CASE state \in Writing
      <4>1. "read_origin" \notin Outstanding
        BY <1>1, <3>3, StatesOfOutstanding DEF DataInvariant, Writing
      <4> QED
        BY <2>0, <3>1, <4>1 DEF Outstanding
    <3>4. CASE \/ Ran("write_origin", "ok", {"write_origin"})
               \/ Ran("write_origin", "ok", {"read_client"})
      BY <1>1, <1>5, <2>0, <3>1, <3>4, RanLeaves
    <3> QED
      BY <3>2, <3>3, <3>4
  <2>7. CASE \/ Begun \/ RequestGrows \/ TakenOnKept \/ TakenAnew \/ Reconnecting
             \/ ResolvedToKept \/ TriesEndpoint \/ ConnectedTo \/ NotConnected
             \/ PassesContent \/ PassesUp
    <3>1. downgoing_buffer' = downgoing_buffer
      BY <2>7 DEF Begun, RequestGrows, TakenOnKept, TakenAnew, RequestTaken, Reconnecting,
         ResolvedToKept, TriesEndpoint, ConnectedTo, NotConnected, PassesContent, PassesUp,
         contents, buffers
    <3>2. \/ ops'["read_origin"] = ops["read_origin"]
          \/ RanOut("read_client", "ok")
          \/ \E next \in {{"read_client"}, {"write_client"}, {"write_origin"}, {"resolve"}} :
               Ran("read_client", "ok", next)
          \/ Ran("write_origin", "error", {"resolve"})
          \/ \E o \in {"resolve", "connect"}, result \in {"ok", "error"},
                next \in {{"write_client"}, {"write_origin"}, {"connect"}} : Ran(o, result, next)
      <4>1. CASE Begun
        BY <1>1, <2>0, <4>1 DEF Begun, ControlTypeOK
      <4>2. CASE RequestGrows \/ TakenOnKept \/ TakenAnew \/ PassesContent \/ PassesUp
        BY <4>2 DEF RequestGrows, TakenOnKept, TakenAnew, PassesContent, PassesUp, SendsRequest,
           Resolves, ReportsError
      <4>3. CASE Reconnecting
        BY <4>3 DEF Reconnecting, Resolves
      <4>4. CASE ResolvedToKept \/ TriesEndpoint \/ ConnectedTo \/ NotConnected
        BY <4>4 DEF ResolvedToKept, TriesEndpoint, ConnectedTo, NotConnected, SendsRequest,
           OpensTunnel, ReportsError
      <4> QED
        BY <2>7, <4>1, <4>2, <4>3, <4>4
    <3>3. ops'["read_origin"] = ops["read_origin"]
      <4>1. \A next \in {{"read_client"}, {"write_client"}, {"write_origin"}, {"resolve"}, {"connect"}} :
              "read_origin" \notin next
        OBVIOUS
      <4> QED
        BY <1>1, <2>0, <3>2, <4>1, RanLeaves
    <3> QED
      BY <1>5, <3>1, <3>3
  <2> QED
    BY <2>2, <2>3, <2>4, <2>5, <2>6, <2>7 DEF DataNext
<1> QED
  BY <1>4, <1>5

\* Nothing is being written to the client when more comes for it.
LEMMA NothingUnheardPreserved ==
  ASSUME ControlInvariant, DataInvariant, ReplyInvariant, DataNext
  PROVE  NothingUnheard'
<1>1. DataTypes /\ ControlTypeOK /\ NothingUnheard
  BY DEF ControlInvariant, DataInvariant, ReplyInvariant
<1>2. SUFFICES ASSUME Watched'
               PROVE  /\ state' \in Early \cup {"read_http_response_content"} => to_client' = <<>>
                      /\ state' = "tunnel_transfer" /\ ops'["read_origin"] # "idle"
                           => to_client' = <<>>
                      /\ state' \in Waiting \cup Finding \cup Sending => response_data' = <<>>
  BY DEF NothingUnheard
<1>3. Watched
  BY <1>1, <1>2, WatchedBefore
<1> DEFINE Silent == Early \cup {"read_http_response_content"}
           Before == Waiting \cup Finding \cup Sending
<1>4. CASE Arrives
  <2>1. /\ state' = state /\ response_data' = response_data
        /\ ClientDataWrite \/ to_client' = to_client
    BY <1>1, <1>4, ArrivalsLeave DEF Stays, Becomes, Arrives, ClientDataRead, OriginDataRead,
       OriginDataWrite, EndpointConnected, Peers, ClientSends, ClientTunnels, ClientCloses,
       OriginReplies, OriginTunnels, OriginCloses, proxy, contents, writes
  <2>2. ClientDataWrite => to_client # <<>> /\ ops'["read_origin"] = ops["read_origin"]
    BY <1>1, WhenClientIsTold, CompletesOne DEF ClientDataWrite, Operation
  <2>3. ops'["read_origin"] # "idle" => ops["read_origin"] # "idle"
    BY <1>1, <1>4, ArrivalsLeave DEF Operation
  <2> QED
    BY <1>1, <1>3, <2>1, <2>2, <2>3 DEF NothingUnheard
<1>5. CASE Rests
  <2>1. state' = state /\ response_data' = response_data /\ to_client' = to_client
    BY <1>5 DEF Rests, Stays, Becomes, contents, response, writes
  <2>2. ASSUME state = "tunnel_transfer", ops'["read_origin"] # "idle"
        PROVE  ops["read_origin"] # "idle" \/ to_client = <<>>
    <3>1. timer_pending'
      BY <1>2, <2>1, <2>2 DEF Watched
    <3> QED
      BY <1>5, <2>2, <3>1 DEF Rests, Settles
  <2> QED
    BY <1>1, <1>3, <2>1, <2>2 DEF NothingUnheard
<1>6. CASE Begun \/ TakenOnKept \/ TakenAnew \/ Reconnecting
  <2>1. state' \in Before /\ state \in Before
        /\ response_data' = response_data /\ to_client' = to_client
    BY <1>6 DEF Begun, TakenOnKept, TakenAnew, RequestTaken, Reconnecting, Reconnects,
       SendsRequest, Resolves, Turns, Becomes, contents, response, writes, Waiting, Finding, Sending
  <2> QED
    BY <1>1, <1>3, <2>1 DEF NothingUnheard, Early, Waiting, Finding, Sending
<1>7. CASE RequestGrows \/ NotConnected \/ ResponseGrows
  <2>1. CASE state' = "report_error"
    BY <2>1 DEF Early, Waiting, Finding, Sending
  <2>2. CASE state' # "report_error"
    <3>1. state' = state /\ to_client' = to_client
          /\ \/ RequestGrows /\ response_data' = response_data
             \/ state = "read_http_response_header"
      BY <1>7, <2>2 DEF RequestGrows, NotConnected, ResponseGrows, ReportsError, Turns, Stays,
         Becomes, writes, response
    <3>2. state \in Early /\ state # "tunnel_transfer"
      BY <1>7 DEF RequestGrows, NotConnected, ResponseGrows, Early, Waiting, Finding
    <3> QED
      BY <1>1, <1>3, <3>1, <3>2 DEF NothingUnheard, Waiting, Finding, Sending
  <2> QED
    BY <2>1, <2>2
<1>8. CASE ResolvedToKept \/ TriesEndpoint \/ ConnectedTo
  <2>1. /\ state \in Finding /\ response_data' = response_data
        /\ \/ state' \in Before /\ to_client' = to_client
           \/ state' = "report_connection_established"
    BY <1>8 DEF ResolvedToKept, TriesEndpoint, ConnectedTo, SendsRequest, OpensTunnel, Becomes,
       Finding, Sending, response, writes
  <2> QED
    BY <1>1, <1>3, <2>1 DEF NothingUnheard, Early, Waiting, Finding, Sending
<1>9. CASE PassesContent
  <2>1. state \in Sending /\ state' \in Sending
        /\ response_data' = response_data /\ to_client' = to_client
    BY <1>9 DEF PassesContent, Turns, Becomes, Sending, response
  <2> QED
    BY <1>1, <1>3, <2>1 DEF NothingUnheard, Early, Sending
<1>10. CASE OriginTook
  <2>1. /\ response_data' = response_data /\ to_client' = to_client
        /\ \/ state \in Sending /\ state' \in Sending \cup {"read_http_response_header"}
           \/ /\ state = "tunnel_transfer" /\ state' = state
              /\ \/ Ran("write_origin", "ok", {"write_origin"})
                 \/ Ran("write_origin", "ok", {"read_client"})
    BY <1>10 DEF OriginTook, Becomes, Writing, Sending, contents, response, writes
  <2>2. CASE state \in Sending
    BY <1>1, <1>3, <2>1, <2>2 DEF NothingUnheard, Early, Sending, Waiting, Finding
  <2>3. CASE state = "tunnel_transfer"
    <3>1. ops'["read_origin"] = ops["read_origin"]
      BY <1>1, <2>1, <2>3, RanLeaves DEF Operation, Sending
    <3> QED
      BY <1>1, <1>3, <2>1, <2>3, <3>1 DEF NothingUnheard, Early, Sending, Waiting, Finding
  <2> QED
    BY <2>1, <2>2, <2>3
<1>11. CASE PassesUp
  <2>1. /\ state = "tunnel_transfer" /\ state' = state
        /\ response_data' = response_data /\ to_client' = to_client
        /\ Ran("read_client", "ok", {"write_origin"})
    BY <1>11 DEF PassesUp, Stays, Becomes, response
  <2>2. ops'["read_origin"] = ops["read_origin"]
    BY <1>1, <2>1, RanLeaves DEF Operation
  <2> QED
    BY <1>1, <1>3, <2>1, <2>2 DEF NothingUnheard, Early, Sending, Waiting, Finding
<1>12. CASE PassesDown
  <2>1. state' = "tunnel_transfer" /\ ops'["read_origin"] = "idle"
    BY <1>12 DEF PassesDown, Stays, Becomes, Ran, Operation
  <2> QED
    BY <2>1 DEF Early, Sending, Waiting, Finding
<1>13. CASE RelaysHeader
  BY <1>13 DEF RelaysHeader, Turns, Becomes, Early, Sending, Waiting, Finding
<1>14. CASE RelaysContent
  <2>1. \/ state' = "write_http_response_content"
        \/ ~timer_pending' /\ state' = "read_http_response_content"
    BY <1>14 DEF RelaysContent, Turns, Stays, Becomes, RanOut
  <2> QED
    BY <1>2, <2>1 DEF Watched, Early, Sending, Waiting, Finding
<1>15. CASE AwaitsContent \/ AwaitsRequest \/ StartsTunnel
  <2>1. /\ to_client = <<>> /\ to_client' = to_client
        /\ AwaitsRequest => response_data' = <<>>
        /\ ~AwaitsRequest => state' \in {"read_http_response_content", "tunnel_transfer"}
    BY <1>15 DEF AwaitsContent, AwaitsRequest, StartsTunnel, ClearMessages, Turns, Becomes,
       contents, writes
  <2> QED
    BY <2>1 DEF Sending, Waiting, Finding
<1> QED
  BY <1>4, <1>5, <1>6, <1>7, <1>8, <1>9, <1>10, <1>11, <1>12, <1>13, <1>14, <1>15 DEF DataNext

\* A connection is made in one state only.
LEMMA NoneIsMade ==
  ASSUME ControlInvariant, DataInvariant, state # "connect_to_origin_server"
  PROVE  /\ ops["connect"] = "idle" /\ ~EndpointConnected
         /\ OriginConnected <=> origins # <<>> /\ origin_server_socket = "open"
         /\ state \notin Tunnelling => ~OriginTunnels \/ ~DataNext
<1>1. ops["connect"] = "idle"
  BY StatesOfOutstanding DEF DataInvariant, ControlInvariant, Outstanding, Operation
<1>2. ~EndpointConnected
  BY WhenConnectionIsMade
<1>3. OriginConnected <=> origins # <<>> /\ origin_server_socket = "open"
  BY <1>1 DEF OriginConnected
<1>4. state \notin Tunnelling => ~OriginTunnels \/ ~DataNext
  BY WhenTunnelSpeaks
<1> QED
  BY <1>1, <1>2, <1>3, <1>4

\* A reply given stays what it is.
LEMMA AwaitedStays ==
  ASSUME DataTypes, DataNext, replies' = replies, request_header \in Made,
         request_header' = request_header
  PROVE  Awaited' = Awaited /\ Given' = Given
<1>1. Given' = Given
  BY DEF Given
<1>2. ASSUME Given = request_header PROVE ReplyTo(Given)' = ReplyTo(Given)
  <2>1. client'.requests[request_header] = client.requests[request_header]
    BY RequestsGrow
  <2> QED
    BY <1>1, <1>2, <2>1 DEF ReplyTo
<1> QED
  BY <1>1, <1>2 DEF Awaited

\* A socket that is open, but for a connection being made, is the current one's.
LEMMA OpenIsCurrentPreserved ==
  ASSUME ControlInvariant, DataInvariant, RequestInvariant, RequestInvariant', RoutingInvariant,
         ReplyInvariant, DataNext, Watched', origin_server_socket' = "open",
         state' # "connect_to_origin_server"
  PROVE  origins' # <<>>
<1>1. DataTypes /\ ControlTypeOK /\ RepliesCount /\ Watched
  BY WatchedBefore DEF ControlInvariant, DataInvariant, ReplyInvariant
<1>2. CASE EndpointConnected
  BY <1>2, WhenConnectionIsMade
<1>3. CASE origins # <<>> /\ ~EndpointConnected
  BY <1>1, <1>3, CurrentStays
<1>4. CASE origins = <<>>
  <2>1. origin_server_socket # "open" \/ state = "connect_to_origin_server"
    BY <1>1, <1>4 DEF ReplyInvariant, StreamFits
  <2>2. state = "connect_to_origin_server" => ops["connect"] # "ok"
    BY <1>1, <1>4 DEF ReplyInvariant, StreamFits
  <2>3. CASE Arrives
    BY <1>1, <2>1, <2>3, ArrivalsLeave DEF Stays, Becomes
  <2>4. CASE Rests
    BY <2>1, <2>4 DEF Rests, Stays, Becomes
  <2>5. CASE TriesEndpoint
    BY <2>5 DEF TriesEndpoint, Becomes
  <2>6. CASE NotConnected \/ Begun \/ RequestGrows \/ TakenOnKept \/ TakenAnew \/ Reconnecting
             \/ ResolvedToKept
    BY <2>1, <2>6 DEF NotConnected, Begun, RequestGrows, TakenOnKept, TakenAnew, RequestTaken,
       Reconnecting, Reconnects, ResolvedToKept, Resolves
  <2>7. CASE ConnectedTo
    BY <2>2, <2>7 DEF ConnectedTo, SendsRequest, OpensTunnel, Ran
  <2>8. CASE \/ PassesContent \/ PassesUp \/ OriginTook \/ ResponseGrows \/ RelaysHeader
             \/ RelaysContent \/ PassesDown \/ AwaitsContent \/ AwaitsRequest \/ StartsTunnel
    BY <2>1, <2>8 DEF PassesContent, PassesUp, OriginTook, ResponseGrows, RelaysHeader,
       RelaysContent, PassesDown, AwaitsContent, AwaitsRequest, StartsTunnel, Writing
  <2> QED
    BY <2>3, <2>4, <2>5, <2>6, <2>7, <2>8 DEF DataNext
<1> QED
  BY <1>2, <1>3, <1>4

\* When a reply has been relayed nothing more of it comes.
LEMMA NothingComes ==
  ASSUME DataTypes, CompleteIsAll, Watched, state \in Relaying, origins # <<>>,
         ResponseComplete(read_response_context), ReplyData
  PROVE  Coming = <<>> /\ downgoing_buffer = <<>> /\ Origin.stream = <<>>
<1>1. PICK S : S = SentOf(Made)
  OBVIOUS
<1>2. PICK b \in Seq(S), c \in Seq(S) : b = downgoing_buffer /\ c = Origin.stream
  <2>1. Origin.stream \in Seq(SentOf(Made))
    BY OriginType DEF DataTypes, ServerOf
  <2> QED
    BY <1>1, <2>1 DEF DataTypes
<1>3. Coming = b \o c
  BY <1>2 DEF Coming
<1>4. Len(b \o c) = Len(b) + Len(c) /\ Len(b) \in Nat /\ Len(c) \in Nat
  BY ConcatProperties, LenProperties
<1>5. Len(Coming) = 0
  <2>1. CASE read_response_context.chunk_checker = "complete"
    <3>1. Coming = <<>>
      BY <2>1 DEF CompleteIsAll
    <3> QED
      BY <3>1, EmptySeq
  <2>2. CASE read_response_context.chunk_checker # "complete"
    <3>1. PICK l, n : /\ l = read_response_context.content_length
                      /\ n = read_response_context.content_length_has_read
      OBVIOUS
    <3>2. l \in Nat \cup {NoLength} /\ n \in Nat
      BY <3>1 DEF ReplyData, ResponseContexts
    <3>3. l # NoLength /\ n >= l
      BY <2>2, <3>1 DEF ResponseComplete
    <3>4. n + Len(Coming) <= l
      BY <3>1, <3>3 DEF CompleteIsAll
    <3> QED
      BY <1>3, <1>4, <3>2, <3>3, <3>4
  <2> QED
    BY <2>1, <2>2
<1>6. Len(b) = 0 /\ Len(c) = 0 /\ Len(b \o c) = 0
  BY <1>3, <1>4, <1>5
<1>7. b = <<>> /\ c = <<>>
  BY <1>6, EmptySeq
<1>8. <<>> \o <<>> = <<>>
  BY ConcatEmptySeq, EmptySeq
<1> QED
  BY <1>2, <1>3, <1>7, <1>8

\* Nothing is left of an earlier reply when the next connection, or the next request,
\* is looked for.
LEMMA NothingLeftPreserved ==
  ASSUME ControlInvariant, DataInvariant, RequestInvariant, RequestInvariant', RoutingInvariant,
         ReplyInvariant, DataNext, Watched', OriginConnected',
         state' \in Waiting \cup {"resolve_origin_server_address"}
  PROVE  Origin'.stream = <<>>
<1>1. DataTypes /\ ControlTypeOK /\ RepliesCount /\ Watched /\ CompleteIsAll /\ ReplyData
  BY WatchedBefore DEF ControlInvariant, DataInvariant, ReplyInvariant
<1>2. origins' # <<>> /\ origin_server_socket' = "open"
  BY DEF OriginConnected
<1>3. ASSUME state \in Waiting \cup {"resolve_origin_server_address"},
             Rests \/ Arrives \/ Begun \/ RequestGrows \/ TakenAnew
      PROVE  Origin'.stream = <<>>
  <2>1. ~EndpointConnected /\ ~OriginTunnels
        /\ (OriginConnected <=> origins # <<>> /\ origin_server_socket = "open")
    BY <1>3, NoneIsMade DEF Waiting, Tunnelling
  <2>2. ~OriginDataRead
    <3>1. "read_origin" \notin Outstanding
      BY <1>1, <1>3, StatesOfOutstanding DEF DataInvariant, Waiting
    <3> QED
      BY <3>1 DEF OriginDataRead, Completes, Outstanding, Operation
  <2>3. ~AReplyIsGiven
    BY <1>1, <1>3, WhenReplyIsGiven DEF AReplyIsGiven, Waiting, Sending
  <2>4. Origin'.stream = Origin.stream /\ origins # <<>>
    BY <1>1, <1>2, <2>1, <2>2, <2>3, OriginStays
  <2>5. origin_server_socket = "open"
    BY <1>1, <1>2, <1>3, ArrivalsLeave DEF Rests, Begun, RequestGrows, TakenAnew, Resolves
  <2> QED
    BY <1>1, <1>3, <2>1, <2>4, <2>5 DEF ReplyInvariant, StreamFits
<1>4. CASE AwaitsRequest
  <2>1. state \in Relaying /\ ResponseComplete(read_response_context) /\ origins' = origins
    BY <1>4 DEF AwaitsRequest, Ran, environment, Relaying, Responding
  <2>2. Origin.stream = <<>>
    BY <1>1, <1>2, <2>1, NothingComes
  <2> QED
    BY <2>1, <2>2 DEF Origin
<1>5. CASE Reconnecting
  BY <1>2, <1>5 DEF Reconnecting, Resolves
<1>6. state' \in Waiting /\ state \in Waiting /\ ~AwaitsRequest =>
        Rests \/ Arrives \/ Begun \/ RequestGrows
  BY DEF DataNext, TakenOnKept, TakenAnew, Reconnecting, ResolvedToKept, TriesEndpoint, ConnectedTo,
     NotConnected, PassesContent, PassesUp, OriginTook, ResponseGrows, RelaysHeader, RelaysContent,
     PassesDown, AwaitsContent, StartsTunnel, SendsRequest, OpensTunnel, Resolves, ReportsError,
     Turns, Stays, Becomes, Waiting, Reconnects, Writing
<1>7. TakenAnew => state \in Waiting
  BY DEF TakenAnew, RequestTaken, Waiting
<1> QED
  BY <1>1, <1>3, <1>4, <1>5, <1>6, <1>7, HowPhases

\* A connection just made sends nothing but what comes through its tunnel.
LEMMA JustMadePreserved ==
  ASSUME ControlInvariant, DataInvariant, RequestInvariant, RequestInvariant', RoutingInvariant,
         ReplyInvariant, DataNext, Watched', state' = "connect_to_origin_server",
         ops'["connect"] = "ok"
  PROVE  /\ origins' # <<>> /\ Origin'.request = request_header'
         /\ Origin'.stream = IF Served'.method = "CONNECT" THEN Through' ELSE <<>>
<1>1. DataTypes /\ ControlTypeOK /\ RepliesCount /\ Watched
  BY WatchedBefore DEF ControlInvariant, DataInvariant, ReplyInvariant
<1>2. ~TriesEndpoint
  BY DEF TriesEndpoint, Ran, Operation
<1>3. state = "connect_to_origin_server" /\ (Rests \/ Arrives)
  BY <1>1, <1>2, HowPhases
<1>4. request_header' = request_header /\ request_header \in Made
      /\ Served' = Served
  <2>1. request_header' = request_header /\ request_header \in Made
    BY <1>1, <1>3, ArrivalsLeave DEF Rests, contents, request, DataInvariant, RequestInHand, Serving,
       Finding
  <2> QED
    BY <1>1, <2>1, RequestsGrow DEF Served
<1>5. CASE EndpointConnected
  <2>1. origins' # <<>> /\ Origin'.request = request_header /\ Origin'.stream = <<>>
        /\ Origin'.tunnelled = 0
    BY <1>5, WhenConnectionIsMade
  <2>2. Through' = <<>>
    <3>1. [n \in 1 .. 0 |-> TunnelUnit(request_header, n)] = <<>>
      BY SMT
    <3> QED
      BY <1>4, <2>1, <3>1 DEF Through
  <2> QED
    BY <1>4, <2>1, <2>2
<1>6. CASE ~EndpointConnected
  <2>1. ops["connect"] = "ok"
    BY <1>1, <1>3, <1>6, ArrivalsLeave DEF Rests, Settles, Operation
  <2>2. /\ origins # <<>> /\ Origin.request = request_header
        /\ Origin.stream = IF Served.method = "CONNECT" THEN Through ELSE <<>>
    BY <1>1, <1>3, <2>1 DEF ReplyInvariant, StreamFits
  <2>3. CASE OriginTunnels
    <3>1. /\ Origin.request \in Made /\ Origin.tunnelled \in Nat /\ Served.method = "CONNECT"
          /\ Origin'.stream
               = Origin.stream \o <<TunnelUnit(Origin.request, Origin.tunnelled + 1)>>
          /\ Origin'.request = Origin.request
          /\ Origin'.tunnelled = Origin.tunnelled + 1
      BY <1>3, <2>3, WhenTunnelSpeaks DEF Tunnelling
    <3>2. origins' # <<>>
      BY <1>1, <1>6, <2>2, CurrentStays
    <3>3. PICK k \in Nat, n \in Nat : k = request_header /\ n = Origin.tunnelled
      BY <1>1, <1>4, <3>1, AskedType
    <3>4. PICK s, t : s = [i \in 1 .. n |-> TunnelUnit(k, i)]
                      /\ t = [i \in 1 .. n + 1 |-> TunnelUnit(k, i)]
      OBVIOUS
    <3>5. t = s \o <<TunnelUnit(k, n + 1)>>
      BY <3>4, ThroughOneMore
    <3>6. Through = s /\ Through' = t
      BY <1>4, <3>1, <3>3, <3>4 DEF Through
    <3> QED
      BY <1>4, <2>2, <3>1, <3>2, <3>3, <3>5, <3>6
  <2>4. CASE ~OriginTunnels
    <3>1. ~AReplyIsGiven
      BY <1>1, <1>3, WhenReplyIsGiven DEF AReplyIsGiven, Sending
    <3>2. ~OriginDataRead
      <4>1. "read_origin" \notin Outstanding
        BY <1>1, <1>3, StatesOfOutstanding DEF DataInvariant
      <4> QED
        BY <4>1 DEF OriginDataRead, Completes, Outstanding, Operation
    <3>3. Origin'.stream = Origin.stream /\ Origin'.request = Origin.request
          /\ Origin'.tunnelled = Origin.tunnelled /\ origins' # <<>>
      BY <1>1, <1>6, <2>2, <2>4, <3>1, <3>2, OriginStays
    <3> QED
      BY <1>4, <2>2, <3>3 DEF Through
  <2> QED
    BY <2>3, <2>4
<1> QED
  BY <1>5, <1>6

\* A request that has reached no server has no reply.
LEMMA NoneIsAwaited ==
  ASSUME DataTypes, RequestInvariant, ~Written, NEW k \in Made, k = Asked
  PROVE  Given # k
  BY AskedType DEF RequestInvariant, WrittenInHand, Given

\* A request that still looks for a connection has reached no server.
LEMMA UnsentIsNotWritten ==
  ASSUME RequestInvariant, RoutingInvariant, state \in Finding
  PROVE  request_header = Asked /\ ~Written
<1>1. request_header = Asked
  BY DEF RequestInvariant, OneAtATime, Serving, Finding, Relaying, Responding
<1>2. \A c \in DOMAIN origins : ~Has(c, request_header)
  BY DEF RoutingInvariant, SentOnce, Unsent
<1> QED
  BY <1>1, <1>2 DEF Written, Reached, Has

\* While a request is being sent, what comes from its server is its reply.
LEMMA SendingFitsPreserved ==
  ASSUME ControlInvariant, DataInvariant, RequestInvariant, RequestInvariant', RoutingInvariant,
         ReplyInvariant, DataNext, Watched', state' \in Sending, OriginConnected'
  PROVE  Origin'.stream = Awaited'
<1>1. DataTypes /\ ControlTypeOK /\ RepliesCount /\ Watched
  BY WatchedBefore DEF ControlInvariant, DataInvariant, ReplyInvariant
<1>2. origins' # <<>> /\ origin_server_socket' = "open"
  BY DEF OriginConnected
<1>3. CASE state \in Sending /\ (Rests \/ Arrives \/ OriginTook \/ PassesContent)
  <2>1. /\ ~EndpointConnected /\ ~OriginTunnels
        /\ OriginConnected <=> origins # <<>> /\ origin_server_socket = "open"
    BY <1>3, NoneIsMade DEF Sending, Tunnelling
  <2>2. ~OriginDataRead
    <3>1. "read_origin" \notin Outstanding
      BY <1>1, <1>3, StatesOfOutstanding DEF DataInvariant, Sending
    <3> QED
      BY <3>1 DEF OriginDataRead, Completes, Outstanding, Operation
  <2>3. request_header' = request_header /\ request_header \in Made
    BY <1>1, <1>3, ArrivalsLeave DEF Rests, OriginTook, PassesContent, contents, request,
       DataInvariant, RequestInHand, Serving
  <2>4. origin_server_socket = "open"
    BY <1>1, <1>2, <1>3, ArrivalsLeave DEF Rests, OriginTook, PassesContent
  <2>5. CASE AReplyIsGiven
    <3>1. PICK r \in Responses : OriginReplies(r)
      BY <2>5 DEF AReplyIsGiven
    <3>2. /\ Asked \in Made /\ client' = client
          /\ Given = Asked - 1 /\ Given' = Asked /\ request_header = Asked
          /\ OriginConnected /\ Origin'.stream = Origin.stream \o ReplyTo(Asked)'
      BY <1>1, <1>3, <3>1, WhenReplyIsGiven DEF Sending
    <3>3. Origin.stream = Awaited /\ Awaited = <<>>
      BY <1>1, <1>3, <3>2, AskedType DEF ReplyInvariant, StreamFits, Awaited
    <3>4. Asked' = Asked
      BY <3>2 DEF Asked
    <3>5. PICK w : w = ReplyTo(Asked)'
      OBVIOUS
    <3>6. w \in Seq(SentOf({Asked}))
      <4>1. PICK k \in Nat : k = Asked
        BY <1>1, AskedType
      <4>2. w = Reply(k, r, client.requests[k].method)
        BY <1>1, <3>1, <3>5, <4>1, WhenReplyIsGiven
      <4> QED
        BY <4>1, <4>2, ReplyShape
    <3>7. <<>> \o w = w
      BY <3>6, ConcatEmptySeq
    <3>8. Awaited' = ReplyTo(Given)'
      BY <2>3, <3>2 DEF Awaited
    <3>9. ReplyTo(Given)' = w
      BY <3>2, <3>4, <3>5, Zenon DEF ReplyTo
    <3> QED
      BY <3>2, <3>3, <3>5, <3>7, <3>8, <3>9
  <2>6. CASE ~AReplyIsGiven
    <3>1. Origin'.stream = Origin.stream /\ origins # <<>> /\ replies' = replies
      BY <1>1, <1>2, <2>1, <2>2, <2>6, OriginStays
    <3>2. Awaited' = Awaited
      BY <1>1, <2>3, <3>1, AwaitedStays
    <3> QED
      BY <1>1, <1>3, <2>1, <2>4, <3>1, <3>2 DEF ReplyInvariant, StreamFits
  <2> QED
    BY <2>5, <2>6
<1>4. CASE TakenOnKept
  <2>1. /\ RequestTaken /\ UNCHANGED environment /\ state = "read_http_request_header"
        /\ origin_server_socket = "open"
    BY <1>4 DEF TakenOnKept, RequestTaken, SendsRequest, Ran
  <2>2. request_header' = Asked /\ Asked \in Made /\ ~Written
    BY <2>1, WhenTaken
  <2>3. Given # request_header'
    BY <1>1, <2>2, NoneIsAwaited
  <2>4. origins # <<>> /\ OriginConnected
    BY <1>2, <2>1, NoneIsMade DEF environment
  <2>5. Origin.stream = <<>>
    BY <1>1, <2>1, <2>4 DEF ReplyInvariant, StreamFits, Waiting
  <2> QED
    BY <2>1, <2>3, <2>5 DEF environment, Origin, Awaited, Given
<1>5. CASE ResolvedToKept \/ ConnectedTo
  <2>1. /\ UNCHANGED environment /\ request_header' = request_header /\ state \in Finding
        /\ Served.method # "CONNECT"
    <3>1. UNCHANGED environment /\ request_header' = request_header /\ state \in Finding
      BY <1>5 DEF ResolvedToKept, ConnectedTo, SendsRequest, OpensTunnel, Ran, request, Finding
    <3>2. ~OpensTunnel("resolve", TRUE) /\ ~OpensTunnel("connect", Recovers)
      BY DEF OpensTunnel, Becomes, Sending
    <3> QED
      BY <1>5, <3>1, <3>2 DEF ResolvedToKept, ConnectedTo, SendsRequest, Served
  <2>2. request_header \in Made
    BY <2>1 DEF DataInvariant, RequestInHand, Serving
  <2>3. Given # request_header
    BY <1>1, <2>1, <2>2, UnsentIsNotWritten, NoneIsAwaited
  <2>4. Origin.stream = <<>>
    <3>1. CASE ResolvedToKept
      <4>1. state = "resolve_origin_server_address" /\ origin_server_socket = "open"
        BY <3>1 DEF ResolvedToKept
      <4>2. OriginConnected
        BY <1>2, <2>1, <4>1, NoneIsMade DEF environment
      <4> QED
        BY <1>1, <4>1, <4>2 DEF ReplyInvariant, StreamFits
    <3>2. CASE ConnectedTo
      <4>1. state = "connect_to_origin_server" /\ ops["connect"] = "ok"
        BY <3>2 DEF ConnectedTo, SendsRequest, OpensTunnel, Ran
      <4> QED
        BY <1>1, <2>1, <4>1 DEF ReplyInvariant, StreamFits
    <3> QED
      BY <1>5, <3>1, <3>2
  <2> QED
    BY <2>1, <2>3, <2>4 DEF environment, Origin, Awaited, Given
<1> QED
  BY <1>1, <1>3, <1>4, <1>5, HowPhases

\* While a reply's header is awaited, what has come of it and what is on its way are
\* the reply.
LEMMA HeaderFitsPreserved ==
  ASSUME ControlInvariant, DataInvariant, RequestInvariant, RequestInvariant', RoutingInvariant,
         ReplyInvariant, DataNext, Watched', state' = "read_http_response_header"
  PROVE  response_data' \o Coming' = Awaited'
<1>1. DataTypes /\ ControlTypeOK /\ RepliesCount /\ Watched /\ SocketRead /\ StreamFits
  BY WatchedBefore DEF ControlInvariant, DataInvariant, ReplyInvariant
<1>2. CASE state = "read_http_response_header"
  <2>1. origin_server_socket = "open" /\ origins # <<>> /\ request_header \in Made
        /\ response_data \o Coming = Awaited
    BY <1>1, <1>2 DEF SocketRead, StreamFits, Responding, DataInvariant, RequestInHand, Serving
  <2>2. ~EndpointConnected /\ ~OriginTunnels
    BY <1>2, NoneIsMade DEF Tunnelling
  <2>3. PICK S : S = SentOf(Made)
    OBVIOUS
  <2>4. PICK a \in Seq(S), b \in Seq(S), c \in Seq(S) :
          a = response_data /\ b = downgoing_buffer /\ c = Origin.stream
    <3>1. Origin.stream \in Seq(SentOf(Made))
      BY <1>1, <2>1, OriginType DEF DataTypes, ServerOf
    <3> QED
      BY <1>1, <2>3, <3>1 DEF DataTypes
  <2>5. CASE ResponseGrows
    <3>1. response_data' = a \o b /\ downgoing_buffer' = <<>> /\ UNCHANGED environment
          /\ request_header' = request_header
      BY <2>4, <2>5 DEF ResponseGrows, ReportsError, Ran, request
    <3>2. Origin' = Origin /\ Awaited' = Awaited
      <4>1. Given' = Given /\ ReplyTo(Given)' = ReplyTo(Given)
        BY <3>1 DEF environment, Given, ReplyTo
      <4> QED
        BY <3>1, <4>1 DEF environment, Origin, Awaited
    <3>3. Coming' = <<>> \o c /\ <<>> \o c = c
      BY <2>4, <3>1, <3>2, ConcatEmptySeq DEF Coming
    <3>4. (a \o b) \o c = a \o (b \o c)
      <4>1. Both(Both(a, b), c) = Both(a, Both(b, c))
        BY InAnyOrder
      <4> QED
        BY <4>1 DEF Both
    <3> QED
      BY <2>1, <2>4, <3>1, <3>2, <3>3, <3>4 DEF Coming
  <2>6. CASE (Rests \/ Arrives) /\ ~AReplyIsGiven
    <3>1. request_header' = request_header /\ response_data' = response_data
      BY <1>1, <2>6, ArrivalsLeave DEF Rests, contents, request, response
    <3>2. Coming' = Coming /\ replies' = replies
      <4>1. CASE OriginDataRead
        <5>1. downgoing_buffer = <<>>
          BY <1>1, <4>1 DEF SocketRead, OriginDataRead, Completes
        <5> QED
          BY <1>1, <4>1, <5>1, WhenOriginIsRead
      <4>2. CASE ~OriginDataRead
        <5>1. Origin'.stream = Origin.stream /\ replies' = replies
              /\ (Arrives => downgoing_buffer' = downgoing_buffer)
          BY <1>1, <2>2, <2>6, <4>2, OriginStays
        <5>2. downgoing_buffer' = downgoing_buffer
          BY <2>6, <5>1 DEF Rests, contents, buffers
        <5> QED
          BY <5>1, <5>2 DEF Coming
      <4> QED
        BY <4>1, <4>2
    <3>3. Awaited' = Awaited
      BY <1>1, <2>1, <3>1, <3>2, AwaitedStays
    <3> QED
      BY <2>1, <3>1, <3>2, <3>3
  <2>7. CASE AReplyIsGiven
    <3>1. PICK r \in Responses : OriginReplies(r)
      BY <2>7 DEF AReplyIsGiven
    <3>2. /\ Asked \in Made /\ client' = client /\ UNCHANGED proxy
          /\ Given = Asked - 1 /\ Given' = Asked /\ request_header = Asked
          /\ Origin'.stream = Origin.stream \o ReplyTo(Asked)'
      BY <1>1, <1>2, <3>1, WhenReplyIsGiven
    <3>3. a \o (b \o c) = <<>>
      BY <1>1, <2>1, <2>4, <3>2, AskedType DEF Awaited, Coming
    <3>4. a = <<>> /\ b = <<>> /\ c = <<>>
      <4>1. PICK d \in Seq(S) : d = b \o c
        BY ConcatProperties
      <4>2. Len(a \o d) = Len(a) + Len(d) /\ Len(b \o c) = Len(b) + Len(c)
            /\ Len(a) \in Nat /\ Len(b) \in Nat /\ Len(c) \in Nat /\ Len(d) \in Nat
        BY ConcatProperties, LenProperties
      <4>3. Len(a \o d) = 0
        BY <3>3, <4>1, EmptySeq
      <4>4. Len(a) = 0 /\ Len(b) = 0 /\ Len(c) = 0
        BY <4>1, <4>2, <4>3
      <4> QED
        BY <4>4, EmptySeq
    <3>5. PICK w : w = ReplyTo(Asked)'
      OBVIOUS
    <3>6. w \in Seq(SentOf({Asked}))
      <4>1. PICK k \in Nat : k = Asked
        BY <1>1, AskedType
      <4>2. w = Reply(k, r, client.requests[k].method)
        BY <1>1, <3>1, <3>5, <4>1, WhenReplyIsGiven
      <4> QED
        BY <4>1, <4>2, ReplyShape
    <3>7. <<>> \o w = w
      BY <3>6, ConcatEmptySeq
    <3>8. /\ response_data' = <<>> /\ downgoing_buffer' = <<>> /\ Origin'.stream = w
          /\ request_header' = Asked
      BY <2>4, <3>2, <3>4, <3>5, <3>7 DEF proxy, contents, response, buffers, request
    <3>9. response_data' \o Coming' = w
      BY <3>7, <3>8 DEF Coming
    <3>10. Awaited' = ReplyTo(Given)'
      BY <3>2, <3>8 DEF Awaited
    <3>11. Asked' = Asked
      BY <3>2 DEF Asked
    <3>12. ReplyTo(Given)' = w
      BY <3>2, <3>5, <3>11, Zenon DEF ReplyTo
    <3> QED
      BY <3>9, <3>10, <3>12
  <2> QED
    BY <1>1, <1>2, <2>5, <2>6, <2>7, HowPhases DEF OriginTook, Writing
<1>3. CASE state # "read_http_response_header"
  <2>1. OriginTook /\ state \in Sending /\ timer_pending /\ ops["write_origin"] = "ok"
        /\ UNCHANGED <<contents, environment>>
    <3>1. OriginTook
      BY <1>1, <1>3, HowPhases
    <3>2. Ran("write_origin", "ok", {"read_origin"}) /\ state \in Writing
      BY <1>3, <3>1 DEF OriginTook, Becomes, Writing
    <3> QED
      BY <3>1, <3>2 DEF OriginTook, Ran, Writing, Sending
  <2>2. origin_server_socket = "open"
    BY <2>1 DEF DataInvariant, SocketFits
  <2>3. origins # <<>> /\ OriginConnected
    BY <1>1, <2>1, <2>2, NoneIsMade DEF StreamFits, Sending
  <2>4. Origin.stream = Awaited
    BY <1>1, <2>1, <2>3 DEF StreamFits
  <2>5. response_data = <<>>
    BY <1>1, <2>1 DEF ReplyInvariant, NothingUnheard
  <2>6. downgoing_buffer = <<>>
    <3>1. "read_origin" \notin Outstanding
      BY <1>1, <2>1, StatesOfOutstanding DEF DataInvariant, Sending
    <3> QED
      BY <1>1, <3>1 DEF Outstanding, Operation, SocketRead
  <2>7. PICK c \in Seq(SentOf(Made)) : c = Origin.stream
    BY <1>1, <2>3, OriginType DEF DataTypes, ServerOf
  <2>8. <<>> \o c = c
    BY ConcatEmptySeq
  <2>9. response_data \o Coming = Awaited
    BY <2>4, <2>5, <2>6, <2>7, <2>8 DEF Coming
  <2> QED
    <3>1. Origin' = Origin /\ Given' = Given /\ ReplyTo(Given)' = ReplyTo(Given)
      BY <2>1 DEF environment, Origin, Given, ReplyTo
    <3>2. /\ Coming' = Coming /\ Awaited' = Awaited /\ response_data' = response_data
      BY <2>1, <3>1 DEF contents, request, response, buffers, Coming, Awaited
    <3> QED
      BY <2>9, <3>2
<1> QED
  BY <1>2, <1>3

\* The current connection sends nothing but the reply to the request in hand, or what
\* comes through its tunnel.
LEMMA StreamFitsPreserved ==
  ASSUME ControlInvariant, DataInvariant, RequestInvariant, RequestInvariant', RoutingInvariant,
         ReplyInvariant, DataNext
  PROVE  StreamFits'
  BY OpenIsCurrentPreserved, NothingLeftPreserved, JustMadePreserved, SendingFitsPreserved,
     HeaderFitsPreserved DEF StreamFits

\* Where only the last part of the last chunk comes last, it does so in what comes
\* later, of which there is nothing once it has come.
LEMMA OnlyLastLater ==
  ASSUME NEW S, NEW s \in Seq(S), NEW t \in Seq(S), OnlyLast(s \o t)
  PROVE  /\ OnlyLast(t)
         /\ \A i \in 1 .. Len(s) : s[i].part = "last" => t = <<>>
<1>1. PICK w : w = s \o t
  OBVIOUS
<1>2. /\ Len(w) = Len(s) + Len(t) /\ Len(s) \in Nat /\ Len(t) \in Nat
      /\ \A i \in 1 .. Len(s) + Len(t) : w[i] = IF i <= Len(s) THEN s[i] ELSE t[i - Len(s)]
  BY <1>1, ConcatProperties, LenProperties
<1>3. \A i \in 1 .. Len(w) : w[i].part = "last" => i = Len(w)
  BY <1>1 DEF OnlyLast
<1>4. ASSUME NEW i \in 1 .. Len(t), t[i].part = "last" PROVE i = Len(t)
  <2>1. PICK j \in 1 .. Len(w) : j = Len(s) + i /\ w[j] = t[i]
    <3>1. Len(s) + i \in 1 .. Len(s) + Len(t) /\ ~(Len(s) + i <= Len(s)) /\ (Len(s) + i) - Len(s) = i
      BY <1>2
    <3> QED
      BY <1>2, <3>1
  <2>2. j = Len(w)
    BY <1>3, <1>4, <2>1
  <2> QED
    BY <1>2, <2>1, <2>2
<1>5. ASSUME NEW i \in 1 .. Len(s), s[i].part = "last" PROVE t = <<>>
  <2>1. i \in 1 .. Len(w) /\ w[i] = s[i]
    BY <1>2
  <2>2. i = Len(w)
    BY <1>3, <1>5, <2>1
  <2>3. Len(t) = 0
    BY <1>2, <2>2
  <2> QED
    BY <2>3, EmptySeq
<1> QED
  BY <1>4, <1>5 DEF OnlyLast

\* A chunk checker that becomes complete has seen the last chunk.
LEMMA CompleteHasSeenLast ==
  ASSUME NEW S, NEW data \in Seq(S), NEW checker, checker # "complete",
         ChunkCheck(checker, data) = "complete"
  PROVE  \E i \in 1 .. Len(data) : data[i].part = "last"
<1>1. DOMAIN data = 1 .. Len(data)
  OBVIOUS
<1>2. \E i \in DOMAIN data : data[i].part = "last"
  BY DEF ChunkCheck
<1> QED
  BY <1>1, <1>2

\* What is known of a reply's length when its header is relayed.
LEMMA CompleteWhenHeaderIsRelayed ==
  ASSUME ControlInvariant, DataInvariant, RequestInvariant, ReplyInvariant, RelaysHeader
  PROVE  LET context == read_response_context'
         IN  /\ context.content_length # NoLength =>
                  context.content_length_has_read + Len(Coming') <= context.content_length
             /\ context.chunk_checker # "none" => OnlyLast(Coming')
             /\ context.chunk_checker = "complete" => Coming' = <<>>
<1>1. PICK S : S = SentOf(Made)
  OBVIOUS
<1>2. PICK k \in Made : k = Given
  BY WhenHeaderIsRelayed
<1>3. PICK d \in Seq(S), c \in Seq(S), w \in Seq(S) :
        d = response_data' /\ c = Coming' /\ w = ReplyTo(k) /\ d \o c = w
  <2>2. response_data' \in Seq(S) /\ Coming' \in Seq(S) /\ response_data' \o Coming' = ReplyTo(k)
    BY <1>1, <1>2, WhenHeaderIsRelayed
  <2>3. response_data' \o Coming' \in Seq(S)
    BY <2>2, ConcatProperties
  <2> QED
    BY <2>2, <2>3
<1>4. /\ Len(w) = Len(d) + Len(c) /\ Len(d) \in Nat /\ Len(c) \in Nat
      /\ \A i \in 1 .. Len(d) + Len(c) : w[i] = IF i <= Len(d) THEN d[i] ELSE c[i - Len(d)]
  BY <1>3, ConcatProperties, LenProperties
<1>5a. replies[k] \in Responses
  <2>1. DataTypes /\ k \in 1 .. Given
    BY <1>2, RelayedType DEF DataInvariant, Made
  <2> QED
    BY <2>1, RelayedType
<1>5. PICK r \in Responses, method \in {client.requests[k].method} : r = replies[k]
  BY <1>5a
<1>6. w = Reply(k, r, method) /\ k \in Nat
  BY <1>3, <1>5, AskedType DEF ReplyTo, DataInvariant
<1>7. /\ HeaderEnd(w) = r.head /\ r.head \in Nat \ {0} /\ r.length \in Nat
      /\ NoContent(r, method) => Len(w) = r.head
      /\ r.framing = "length" => Len(w) <= r.head + r.length
      /\ r.framing = "chunked" => OnlyLast(w)
  BY <1>6, ReplyShape
<1>8. HeaderEnd(d) = r.head /\ r.head \in 1 .. Len(d) /\ d[1].of = k
  <2>1. /\ HeaderEnd(d) # 0 /\ d \in Seq(SentOf({k}))
        /\ HeaderEnd(d) = HeaderEnd(w)
    BY <1>2, <1>3, WhenHeaderIsRelayed
  <2>2. HeaderEnd(d) \in 0 .. Len(d)
    BY HeaderEndIsFirst
  <2>3. d[1].of \in {k}
    BY <2>1, FirstUnit
  <2> QED
    BY <1>7, <2>1, <2>2, <2>3
<1>9. PICK content : content = SubSeq(d, r.head + 1, Len(d))
  OBVIOUS
<1>10. /\ content \in Seq(S) /\ Len(content) = Len(d) - r.head
       /\ \A i \in 1 .. Len(content) : content[i] = d[r.head + i]
  <2>1. PICK n \in 1 .. Len(d) : n = r.head
    BY <1>8
  <2>2. content = SubSeq(d, n + 1, Len(d))
    BY <1>9, <2>1
  <2>3. content \in Seq(S) /\ Len(content) = Len(d) - n
    BY <2>2, CutInTwo
  <2>4. content = [i \in 1 .. Len(d) - (n + 1) + 1 |-> d[(n + 1) + i - 1]]
    BY <1>4, <2>2
  <2>5. \A i \in 1 .. Len(d) - n : content[i] = d[n + i]
    <3>1. \A i \in 1 .. Len(d) - n : i \in 1 .. Len(d) - (n + 1) + 1 /\ (n + 1) + i - 1 = n + i
      BY <1>4
    <3> QED
      BY <2>4, <3>1
  <2> QED
    BY <2>1, <2>3, <2>5
<1>11. read_response_context' = ResponseContext(r, method, content)
  <2>1. ArrivedResponse = r /\ ArrivedContent = content
    BY <1>3, <1>5, <1>8, <1>9 DEF ArrivedResponse, ArrivedContent
  <2>2. RequestMethod = method
    BY <1>2, <1>5, WhenHeaderIsRelayed DEF RequestMethod
  <2>3. read_response_context' = ResponseContext(ArrivedResponse, RequestMethod, ArrivedContent)
    BY DEF RelaysHeader
  <2> QED
    BY <2>1, <2>2, <2>3
<1>12. PICK context : context = ResponseContext(r, method, content)
  OBVIOUS
<1>13. CASE NoContent(r, method)
  <2>1. context.content_length = 0 /\ context.content_length_has_read = 0
        /\ context.chunk_checker = "none"
    BY <1>12, <1>13 DEF ResponseContext
  <2>2. Len(c) = 0
    BY <1>4, <1>7, <1>8, <1>13
  <2> QED
    BY <1>3, <1>11, <1>12, <2>1, <2>2
<1>14. CASE ~NoContent(r, method) /\ r.framing = "length"
  <2>1. context.content_length = r.length /\ context.content_length_has_read = Len(content)
        /\ context.chunk_checker = "none"
    BY <1>12, <1>14 DEF ResponseContext
  <2>2. Len(content) + Len(c) <= r.length
    BY <1>4, <1>7, <1>8, <1>10, <1>14
  <2> QED
    BY <1>3, <1>11, <1>12, <2>1, <2>2
<1>15. CASE ~NoContent(r, method) /\ r.framing = "chunked"
  <2>1. context.content_length = NoLength /\ context.chunk_checker = ChunkCheck("open", content)
    BY <1>12, <1>15 DEF ResponseContext
  <2>2. OnlyLast(d \o c)
    BY <1>3, <1>7, <1>15
  <2>3. OnlyLast(c) /\ \A i \in 1 .. Len(d) : d[i].part = "last" => c = <<>>
    BY <2>2, OnlyLastLater
  <2>4. ASSUME ChunkCheck("open", content) = "complete" PROVE c = <<>>
    <3>1. PICK i \in 1 .. Len(content) : content[i].part = "last"
      BY <1>10, <2>4, CompleteHasSeenLast
    <3>2. r.head + i \in 1 .. Len(d) /\ d[r.head + i].part = "last"
      <4>1. d[r.head + i] = content[i]
        BY <1>10, <3>1
      <4>2. i \in 1 .. Len(d) - r.head
        BY <1>10
      <4>3. r.head + i \in 1 .. Len(d)
        BY <1>4, <1>8, <4>2
      <4> QED
        BY <3>1, <4>1, <4>3
    <3> QED
      BY <2>3, <3>2
  <2> QED
    BY <1>3, <1>11, <1>12, <2>1, <2>3, <2>4
<1>16. CASE ~NoContent(r, method) /\ r.framing \notin {"length", "chunked"}
  <2>1. context.content_length = NoLength /\ context.chunk_checker = "none"
    <3>1. r.framing \in Framing /\ r.framing # "empty"
      BY MessagesAssumption DEF Response, Framing
    <3> QED
      BY <1>12, <1>16, <3>1 DEF ResponseContext
  <2> QED
    BY <1>11, <1>12, <2>1
<1> QED
  BY <1>13, <1>14, <1>15, <1>16

\* What is known of a reply's length when more of its content is relayed.
LEMMA CompleteWhenContentIsRelayed ==
  ASSUME DataTypes, ReplyData, origins # <<>>, CompleteIsAll, Watched, RelaysContent, environment' = environment
  PROVE  LET context == read_response_context'
         IN  /\ context.content_length # NoLength =>
                  context.content_length_has_read + Len(Coming') <= context.content_length
             /\ context.chunk_checker # "none" => OnlyLast(Coming')
             /\ context.chunk_checker = "complete" => Coming' = <<>>
<1>1. PICK S : S = SentOf(Made)
  OBVIOUS
<1>2. PICK b \in Seq(S), c \in Seq(S) : b = downgoing_buffer /\ c = Origin.stream
  <2>1. Origin.stream \in Seq(SentOf(Made))
    BY OriginType DEF DataTypes, ServerOf
  <2> QED
    BY <1>1, <2>1 DEF DataTypes
<1>3. Coming = b \o c /\ Coming' = c
  <2>1. Coming' = <<>> \o c
    BY <1>2 DEF Coming, RelaysContent, environment, Origin
  <2>2. <<>> \o c = c
    BY ConcatEmptySeq
  <2> QED
    BY <1>2, <2>1, <2>2 DEF Coming
<1>4. Len(b \o c) = Len(b) + Len(c) /\ Len(b) \in Nat /\ Len(c) \in Nat
  BY ConcatProperties, LenProperties
<1>5. PICK before \in ResponseContexts : before = read_response_context
  BY DEF ReplyData
<1>6. /\ before.content_length # NoLength =>
           before.content_length_has_read + Len(b \o c) <= before.content_length
      /\ before.chunk_checker # "none" => OnlyLast(b \o c)
      /\ before.chunk_checker = "complete" => b \o c = <<>>
  BY <1>3, <1>5 DEF CompleteIsAll, RelaysContent, Relaying, Responding
<1>7. read_response_context' = Counted(before, b)
  BY <1>2, <1>5 DEF RelaysContent
<1>8. before.chunk_checker # "none" => OnlyLast(c)
  BY <1>6, OnlyLastLater
<1>9. before.chunk_checker = "complete" => c = <<>>
  <2>1. SUFFICES ASSUME before.chunk_checker = "complete" PROVE c = <<>>
    OBVIOUS
  <2>2. Len(b \o c) = 0
    BY <1>6, <2>1, EmptySeq
  <2>3. Len(c) = 0
    BY <1>4, <2>2
  <2> QED
    BY <2>3, EmptySeq
<1>10. CASE before.content_length # NoLength
  <2>1. PICK n \in Nat, l \in Nat \cup {NoLength} :
          n = before.content_length_has_read /\ l = before.content_length
    BY <1>5 DEF ResponseContexts
  <2>2. /\ Counted(before, b).content_length = l
        /\ Counted(before, b).content_length_has_read = n + Len(b)
        /\ Counted(before, b).chunk_checker = before.chunk_checker
    BY <1>5, <1>10, <2>1 DEF Counted, ResponseContexts
  <2>3. n + Len(b) + Len(c) <= l
    BY <1>4, <1>6, <1>10, <2>1 DEF NoLength
  <2> QED
    BY <1>3, <1>7, <1>8, <1>9, <2>2, <2>3
<1>11. CASE before.content_length = NoLength /\ before.chunk_checker # "none"
  <2>1. /\ Counted(before, b).content_length = NoLength
        /\ Counted(before, b).chunk_checker = ChunkCheck(before.chunk_checker, b)
    BY <1>5, <1>11 DEF Counted, ResponseContexts
  <2>2. ASSUME ChunkCheck(before.chunk_checker, b) = "complete", before.chunk_checker # "complete"
        PROVE  c = <<>>
    <3>1. PICK i \in 1 .. Len(b) : b[i].part = "last"
      BY <2>2, CompleteHasSeenLast
    <3> QED
      BY <1>6, <1>11, <3>1, OnlyLastLater
  <2> QED
    BY <1>3, <1>7, <1>8, <1>9, <1>11, <2>1, <2>2
<1>12. CASE before.content_length = NoLength /\ before.chunk_checker = "none"
  <2>1. Counted(before, b) = before
    BY <1>12 DEF Counted
  <2> QED
    BY <1>7, <1>12, <2>1
<1> QED
  BY <1>10, <1>11, <1>12

\* What comes of a reply that is being relayed is what was coming.
LEMMA ComingStays ==
  ASSUME ControlInvariant, DataInvariant, RequestInvariant, RequestInvariant', RoutingInvariant,
         ReplyInvariant, DataNext, Watched', state \in Relaying,
         Rests \/ Arrives \/ AwaitsContent
  PROVE  Coming' = Coming
<1>1. DataTypes /\ ControlTypeOK /\ RepliesCount /\ SocketRead /\ Watched
  BY WatchedBefore DEF ControlInvariant, DataInvariant, ReplyInvariant
<1>2. ~EndpointConnected /\ ~OriginTunnels
  BY NoneIsMade DEF Relaying, Responding, Tunnelling
<1>3. ~AReplyIsGiven
  BY <1>1, WhenReplyIsGiven DEF AReplyIsGiven, Relaying, Responding, Sending
<1>4. CASE OriginDataRead
  <2>1. downgoing_buffer = <<>>
    BY <1>1, <1>4 DEF SocketRead, OriginDataRead, Completes
  <2> QED
    BY <1>1, <1>4, <2>1, WhenOriginIsRead
<1>5. CASE ~OriginDataRead
  <2>1. Origin'.stream = Origin.stream /\ (Arrives => downgoing_buffer' = downgoing_buffer)
    BY <1>1, <1>2, <1>3, <1>5, OriginStays
  <2>2. downgoing_buffer' = downgoing_buffer
    BY <2>1 DEF Rests, AwaitsContent, contents, buffers
  <2> QED
    BY <2>1, <2>2 DEF Coming
<1> QED
  BY <1>4, <1>5

\* When a reply counts as complete there is nothing more of it.
LEMMA CompleteIsAllPreserved ==
  ASSUME ControlInvariant, DataInvariant, RequestInvariant, RequestInvariant', RoutingInvariant,
         ReplyInvariant, DataNext
  PROVE  CompleteIsAll'
<1>1. DataTypes /\ ControlTypeOK /\ RepliesCount /\ CompleteIsAll /\ SocketRead /\ ReplyData
  BY DEF ControlInvariant, DataInvariant, ReplyInvariant
<1>2. SUFFICES ASSUME Watched', state' \in Relaying
               PROVE  LET context == read_response_context'
                      IN  /\ context.content_length # NoLength =>
                               context.content_length_has_read + Len(Coming')
                                 <= context.content_length
                          /\ context.chunk_checker # "none" => OnlyLast(Coming')
                          /\ context.chunk_checker = "complete" => Coming' = <<>>
  BY DEF CompleteIsAll
<1>3. Watched
  BY <1>1, <1>2, WatchedBefore
<1>4. CASE RelaysHeader
  BY <1>4, CompleteWhenHeaderIsRelayed
<1>5. CASE state \in Relaying /\ RelaysContent
  <2>1. origins # <<>>
    BY <1>1, <1>3, <1>5 DEF ReplyInvariant, StreamFits, SocketRead, Relaying, Responding
  <2>2. environment' = environment
    BY <1>5 DEF RelaysContent, Ran, RanOut, environment
  <2> QED
    BY <1>1, <1>3, <1>5, <2>1, <2>2, CompleteWhenContentIsRelayed
<1>6. CASE state \in Relaying /\ (Rests \/ Arrives \/ AwaitsContent)
  <2>1. Coming' = Coming
    BY <1>2, <1>6, ComingStays
  <2>2. read_response_context' = read_response_context
    BY <1>1, <1>6, ArrivalsLeave DEF Rests, AwaitsContent, contents, response
  <2> QED
    BY <1>1, <1>3, <1>6, <2>1, <2>2 DEF CompleteIsAll
<1> QED
  BY <1>1, <1>2, <1>4, <1>5, <1>6, HowPhases

-----------------------------------------------------------------------------
(* What the client has heard. *)

\* What goes to the client is a sequence of units.
LEMMA DownType ==
  ASSUME DataTypes
  PROVE  /\ client.received \in Seq(Unit) /\ to_client \in Seq(Unit) /\ Heard \in Seq(Unit)
         /\ downgoing_buffer \in Seq(Unit)
         /\ origins # <<>> => Origin.stream \in Seq(Unit) /\ Origin.tunnelled \in Nat
         /\ \A k \in Nat : Established(k) \in Seq(Unit) /\ ErrorReply(k) \in Seq(Unit)
<1>1. Made \subseteq Nat
  BY DEF Made
<1>2. ToldUnit \subseteq Unit
  <2>1. PassedOf(Made) \subseteq Unit
    BY <1>1 DEF PassedOf, Unit
  <2>2. [of : {0}, part : {"error"}, n : Nat] \subseteq Unit
    BY DEF Unit, Part
  <2> QED
    BY <2>1, <2>2 DEF ToldUnit
<1>3. \A s \in Seq(ToldUnit) : s \in Seq(Unit)
  BY <1>2, SeqMonotonic
<1>4. \A s \in Seq(SentOf(Made)) : s \in Seq(Unit)
  BY <1>1, UnitsAre
<1>5. client.received \in Seq(Unit) /\ to_client \in Seq(Unit)
  BY <1>3 DEF DataTypes
<1>6. PICK s \in Seq(Unit), t \in Seq(Unit) : s = client.received /\ t = to_client
  BY <1>5
<1>7. s \o t \in Seq(Unit)
  BY ConcatProperties
<1>8. downgoing_buffer \in Seq(Unit)
  BY <1>4 DEF DataTypes
<1>9. origins # <<>> => Origin.stream \in Seq(Unit) /\ Origin.tunnelled \in Nat
  BY <1>4, OriginType DEF DataTypes, ServerOf
<1>10. ASSUME NEW k \in Nat PROVE Established(k) \in Seq(Unit) /\ ErrorReply(k) \in Seq(Unit)
  <2>1. PICK u \in Unit, v \in Unit :
          /\ u = [of |-> k, part |-> "established", n |-> 1]
          /\ v = [of |-> 0, part |-> "error", n |-> k]
    BY DEF Unit, Part
  <2>2. <<u>> \in Seq(Unit) /\ <<v>> \in Seq(Unit)
    OBVIOUS
  <2> QED
    BY <2>1, <2>2 DEF Established, ErrorReply
<1> QED
  BY <1>5, <1>6, <1>7, <1>8, <1>9, <1>10 DEF Heard

\* A client that is open was open, and has heard the same unless there is more to
\* write to it.
LEMMA HeardStays ==
  ASSUME ControlInvariant, DataTypes, DataNext, client'.open, Arrives \/ UNCHANGED to_client
  PROVE  client.open /\ Heard' = Heard
<1>1. CASE ClientDataWrite
  BY <1>1, WhenClientIsTold
<1>2. CASE ~ClientDataWrite
  <2>0. client \in [requests : Seq(Requests), stream : Seq(SentOf(Made)),
                     received : Seq(ToldUnit), open : BOOLEAN, tunnelled : Nat]
    BY DEF DataTypes
  <2>1. client'.open => client.open
    <3>1. CASE ~Arrives
      BY <3>1, OnlyArrivalsChangeEnvironment DEF environment
    <3>2. CASE Arrives
      BY <1>2, <2>0, <3>2 DEF Arrives, ClientDataRead, OriginDataRead, OriginDataWrite,
         EndpointConnected, Peers, ClientSends, ClientTunnels, ClientCloses, ClientLives,
         OriginReplies, OriginTunnels, OriginCloses
    <3> QED
      BY <3>1, <3>2
  <2>2. client'.received = client.received
    <3>1. CASE ~Arrives
      BY <3>1, OnlyArrivalsChangeEnvironment DEF environment
    <3>2. CASE Arrives
      BY <1>2, <2>0, <3>2 DEF Arrives, ClientDataRead, OriginDataRead, OriginDataWrite,
         EndpointConnected, Peers, ClientSends, ClientTunnels, ClientCloses,
         OriginReplies, OriginTunnels, OriginCloses
    <3> QED
      BY <3>1, <3>2
  <2>3. to_client' = to_client
    BY <1>2 DEF Arrives, ClientDataRead, OriginDataRead,
       OriginDataWrite, EndpointConnected, Peers, ClientSends, ClientTunnels, ClientCloses,
       OriginReplies, OriginTunnels, OriginCloses, proxy, contents, writes
  <2> QED
    BY <2>1, <2>2, <2>3 DEF Heard
<1> QED
  BY <1>1, <1>2

\* As many replies as the client has had in an early phase have been given.
LEMMA DoneFits ==
  ASSUME DataInvariant, RepliesCount, state \in Early
  PROVE  /\ Done \in 0 .. Given
         /\ state \notin Waiting => request_header \in Made /\ Done = request_header - 1
<1>1. DataTypes /\ Given \in Nat /\ Asked \in Nat
  BY RelayedType DEF DataInvariant
<1>2. CASE state \in Waiting
  BY <1>1, <1>2 DEF Done
<1>3. CASE state \notin Waiting
  <2>1. request_header \in Made
    BY <1>3 DEF Early, DataInvariant, RequestInHand, Serving, Responding
  <2>2. request_header \in 1 .. Asked
    BY <1>1, <2>1, AskedType
  <2>3. Given >= Asked - 1
    BY <1>1, <2>2 DEF RepliesCount
  <2> QED
    BY <1>1, <1>3, <2>1, <2>2, <2>3 DEF Done
<1> QED
  BY <1>2, <1>3

\* How the early phases are entered and kept.
LEMMA EarlyMoves ==
  ASSUME ControlTypeOK, DataTypes, DataNext, state' \in Early
  PROVE  \/ AwaitsRequest
         \/ TakenOnKept \/ TakenAnew
         \/ /\ state \in Early /\ request_header' = request_header
            /\ state \in Waiting <=> state' \in Waiting
            /\ Arrives \/ UNCHANGED <<to_client, environment>>
<1>1. CASE Rests \/ Arrives
  BY <1>1, ArrivalsLeave DEF Rests, Stays, Becomes, contents, request, writes
<1>2. CASE Begun \/ RequestGrows \/ Reconnecting
  BY <1>2 DEF Begun, RequestGrows, Reconnecting, Reconnects, Resolves, ReportsError, Ran, RanOut,
     Turns, Stays, Becomes, contents, request, writes, environment, Early, Waiting, Finding, Sending
<1>3. CASE ResolvedToKept \/ TriesEndpoint \/ ConnectedTo \/ NotConnected
  BY <1>3 DEF ResolvedToKept, TriesEndpoint, ConnectedTo, NotConnected, SendsRequest, OpensTunnel,
     ReportsError, Ran, Turns, Becomes, request, writes, environment, Early, Waiting, Finding,
     Sending
<1>4. CASE PassesContent \/ PassesUp
  BY <1>4 DEF PassesContent, PassesUp, Ran, Turns, Stays, Becomes, environment, Early, Waiting,
     Finding, Sending
<1>5. CASE OriginTook
  BY <1>5 DEF OriginTook, Ran, Becomes, contents, request, writes, environment, Early, Waiting,
     Finding, Sending, Writing
<1>6. CASE ResponseGrows \/ RelaysHeader \/ RelaysContent \/ PassesDown
  BY <1>6 DEF ResponseGrows, RelaysHeader, RelaysContent, PassesDown, ReportsError, Ran, RanOut,
     Turns, Stays, Becomes, request, writes, environment, Early, Waiting, Finding, Sending
<1>7. CASE AwaitsContent \/ StartsTunnel
  BY <1>7 DEF AwaitsContent, StartsTunnel, Turns, Becomes, Early, Waiting, Finding, Sending
<1> QED
  BY <1>1, <1>2, <1>3, <1>4, <1>5, <1>6, <1>7 DEF DataNext

\* Before a reply is relayed, the client has heard whole replies.
LEMMA EarlyHeard ==
  ASSUME ControlInvariant, DataInvariant, RequestInvariant, RequestInvariant', RoutingInvariant,
         ReplyInvariant, DataNext, client'.open, state' \in Early
  PROVE  Heard' = DownTo(Done)'
<1>1. /\ DataTypes /\ ControlTypeOK /\ RepliesCount /\ CompleteIsAll /\ SocketRead /\ ReplyData
      /\ Given \in Nat
  BY RelayedType DEF ControlInvariant, DataInvariant, ReplyInvariant
<1>2. DownTo(Done)' = Joined(Relayed', 1, Done')
  BY DEF DownTo
<1>3. SUFFICES ASSUME NEW n \in 0 .. Given, Heard' = DownTo(n), Done' = n
               PROVE  Heard' = Joined(Relayed', 1, Done')
  <2>1. SUFFICES \E n \in 0 .. Given : Heard' = DownTo(n) /\ Done' = n
    BY <1>2
  <2>2. CASE AwaitsRequest
    <3>1. /\ state \in Relaying /\ ResponseComplete(read_response_context) /\ timer_pending
          /\ UNCHANGED <<to_client, environment>> /\ state' = "read_http_request_header"
      BY <2>2 DEF AwaitsRequest, Ran, environment, Relaying, Responding, writes, Turns, Becomes
    <3>2. Watched /\ origins # <<>>
      BY <1>1, <3>1 DEF ReplyInvariant, StreamFits, SocketRead, Relaying, Responding, Watched
    <3>3. Coming = <<>>
      BY <1>1, <3>1, <3>2, NothingComes
    <3>4. client.open /\ Heard' = Heard
      BY <1>1, <3>1, HeardStays
    <3>5. Heard \o <<>> = DownTo(request_header)
      BY <3>1, <3>2, <3>3, <3>4 DEF ReplyInvariant, RepliesHeard, HeardOf
    <3>6. Heard \o <<>> = Heard
      BY <1>1, DownType, ConcatEmptySeq
    <3>7. Given = request_header /\ Done' = Given
      BY <1>1, <3>1 DEF RepliesCount, Done, Waiting, environment, Given
    <3> QED
      BY <1>1, <3>4, <3>5, <3>6, <3>7
  <2>3. CASE TakenOnKept \/ TakenAnew
    <3>1. /\ RequestTaken /\ UNCHANGED <<to_client, environment>> /\ state \in Waiting
          /\ state' \notin Waiting
      BY <2>3 DEF TakenOnKept, TakenAnew, RequestTaken, SendsRequest, Resolves, Ran, Becomes, writes,
         Waiting
    <3>2. Asked \in Made /\ request_header' = Asked /\ ~Written
      BY <3>1, WhenTaken
    <3>3. Given # Asked /\ Given <= Asked /\ Given >= Asked - 1
      BY <1>1, <3>2, NoneIsAwaited, AskedType, RelayedType DEF RepliesCount
    <3>4. Done' = Given
      BY <1>1, <3>1, <3>2, <3>3, AskedType DEF Done
    <3>5. client.open /\ Heard' = Heard
      BY <1>1, <3>1, HeardStays
    <3>6. Heard = DownTo(Given)
      BY <3>1, <3>5 DEF ReplyInvariant, RepliesHeard, Early, Done
    <3> QED
      BY <1>1, <3>4, <3>5, <3>6
  <2>4. CASE /\ state \in Early /\ request_header' = request_header
             /\ state \in Waiting <=> state' \in Waiting
             /\ Arrives \/ UNCHANGED <<to_client, environment>>
    <3>1. client.open /\ Heard' = Heard
      BY <1>1, <2>4, HeardStays
    <3>2. Heard = DownTo(Done) /\ Done \in 0 .. Given
      BY <1>1, <2>4, <3>1, DoneFits DEF ReplyInvariant, RepliesHeard
    <3>3. Done' = Done
      <4>1. CASE state \in Waiting
        <5>1. ~AReplyIsGiven
          BY <1>1, <4>1, WhenReplyIsGiven DEF AReplyIsGiven, Waiting, Sending
        <5>2. replies' = replies
          BY <1>1, <2>4, <5>1, ArrivalsKeep DEF AReplyIsGiven, environment
        <5> QED
          BY <2>4, <4>1, <5>2 DEF Done, Given
      <4>2. CASE state \notin Waiting
        BY <2>4, <4>2 DEF Done
      <4> QED
        BY <4>1, <4>2
    <3> QED
      BY <3>1, <3>2, <3>3
  <2> QED
    BY <1>1, <2>2, <2>3, <2>4, EarlyMoves
<1> QED
  <2>1. n \in Int /\ n <= Given
    BY <1>1
  <2>2. Joined(Relayed', 1, n) = DownTo(n)
    BY <1>1, <2>1, DownKept
  <2> QED
    BY <1>3, <2>2

\* What is passed down goes to the client next, and the rest of what comes behind it.
LEMMA PassedDown ==
  ASSUME DataTypes, to_client = <<>>, NEW rest \in Seq(Unit), NEW whole, Heard \o rest = whole,
         Watched => rest = Coming, Watched, origins # <<>>, UNCHANGED environment,
         to_client' = downgoing_buffer, downgoing_buffer' = <<>>
  PROVE  Coming' \in Seq(Unit) /\ Heard' \o Coming' = whole
<1>1. PICK r \in Seq(Unit), b \in Seq(Unit), c \in Seq(Unit) :
        r = client.received /\ b = downgoing_buffer /\ c = Origin.stream
  BY DownType
<1>2. Heard = r /\ Heard' = r \o b
  BY <1>1, ConcatEmptySeq DEF Heard, environment
<1>3. Coming' = c
  <2>1. Coming' = <<>> \o c
    BY <1>1 DEF Coming, environment, Origin
  <2>2. <<>> \o c = c
    BY ConcatEmptySeq
  <2> QED
    BY <2>1, <2>2
<1>4. r \o (b \o c) = whole
  BY <1>1, <1>2 DEF Coming
<1>5. (r \o b) \o c = r \o (b \o c)
  <2>1. Both(Both(r, b), c) = Both(r, Both(b, c))
    BY InAnyOrder
  <2> QED
    BY <2>1 DEF Both
<1> QED
  BY <1>1, <1>2, <1>3, <1>4, <1>5

\* While a reply is relayed, the client has heard the beginning of it.
LEMMA RelayingHeard ==
  ASSUME ControlInvariant, DataInvariant, RequestInvariant, RequestInvariant', RoutingInvariant,
         ReplyInvariant, DataNext, client'.open, state' \in Relaying
  PROVE  HeardOf(DownTo(request_header))'
<1>1. /\ DataTypes /\ ControlTypeOK /\ RepliesCount /\ SocketRead /\ NothingUnheard
      /\ Given \in Nat
  BY RelayedType DEF ControlInvariant, DataInvariant, ReplyInvariant
<1>2. SUFFICES \E rest \in Seq(Unit) : /\ Heard' \o rest = Joined(Relayed', 1, request_header')
                                       /\ Watched' => rest = Coming'
  BY DEF HeardOf, DownTo
<1>3. CASE RelaysHeader
  <2>1. /\ state = "read_http_response_header" /\ Watched /\ to_client = <<>>
        /\ request_header' = request_header /\ UNCHANGED environment
        /\ Given = request_header /\ Given \in Made
        /\ to_client' = Rewritten(response_data')
    BY <1>3, WhenHeaderIsRelayed DEF RelaysHeader
  <2>2. PICK k \in Made : k = Given
    BY <2>1
  <2>3. PICK S : S = SentOf(Made)
    OBVIOUS
  <2>4. PICK d \in Seq(S), c \in Seq(S) : d = response_data' /\ c = Coming'
    BY <1>3, <2>3, WhenHeaderIsRelayed
  <2>5. HeaderEnd(d) # 0 /\ d \o c = ReplyTo(k)
    BY <1>3, <2>2, <2>4, WhenHeaderIsRelayed
  <2>6. Rewritten(d \o c) = Rewritten(d) \o c
    BY <2>3, <2>5, RewrittenOfBoth
  <2>7. k \in 1 .. Given /\ k \in Int /\ k - 1 \in Int /\ k <= Given /\ k >= 1
    BY <1>1, <2>2, AskedType
  <2>8. Relayed[k] = Rewritten(d) \o c /\ DownTo(k) = DownTo(k - 1) \o Relayed[k]
        /\ DownTo(k - 1) \in Seq(Unit)
    <3>1. Relayed[k] = Rewritten(ReplyTo(k))
      BY <1>1, <2>7, RelayedType
    <3>2. DownTo(k) = DownTo(k - 1) \o Relayed[k]
      BY <1>1, <2>7, RelayedJoined
    <3>3. k - 1 <= Given
      BY <1>1, <2>7
    <3>4. DownTo(k - 1) \in Seq(Unit)
      BY <1>1, <2>7, <3>3, RelayedJoined
    <3> QED
      BY <2>5, <2>6, <3>1, <3>2, <3>4
  <2>9. PICK h \in Seq(Unit), e \in Seq(Unit) : h = Rewritten(d) /\ e = c
    <3>1. Made \subseteq Nat
      BY DEF Made
    <3>2. Rewritten(d) \in Seq(PassedOf(Made))
      BY <2>3, <2>5, RewrittenType
    <3> QED
      BY <2>3, <3>1, <3>2, UnitsAre
  <2>10. PICK p \in Seq(Unit), r \in Seq(Unit) : p = DownTo(k - 1) /\ r = client.received
    BY <1>1, <2>8, DownType
  <2>11. r = p
    <3>1. client.open
      BY <2>1 DEF environment
    <3>2. Heard = DownTo(Done) /\ Done = k - 1
      BY <2>1, <2>2, <3>1 DEF ReplyInvariant, RepliesHeard, Early, Done, Waiting
    <3>3. Heard = r \o <<>> /\ r \o <<>> = r
      BY <2>1, <2>10, ConcatEmptySeq DEF Heard
    <3> QED
      BY <2>10, <3>2, <3>3
  <2>12. Heard' = r \o h
    BY <2>1, <2>4, <2>9, <2>10 DEF Heard, environment
  <2>13. (r \o h) \o e = r \o (h \o e)
    <3>1. Both(Both(r, h), e) = Both(r, Both(h, e))
      BY InAnyOrder
    <3> QED
      BY <3>1 DEF Both
  <2>14. DownTo(k) = r \o (h \o e)
    BY <2>8, <2>9, <2>10, <2>11
  <2>15. Joined(Relayed', 1, k) = DownTo(k)
    BY <1>1, <2>7, DownKept
  <2> QED
    BY <2>1, <2>2, <2>4, <2>9, <2>12, <2>13, <2>14, <2>15
<1>4. ASSUME state \in Relaying, Rests \/ Arrives \/ RelaysContent \/ AwaitsContent
      PROVE  /\ request_header' = request_header
             /\ Joined(Relayed', 1, request_header) = DownTo(request_header)
  <2>1. request_header' = request_header
    BY <1>1, <1>4, ArrivalsLeave DEF Rests, RelaysContent, AwaitsContent, contents, request
  <2>2. request_header = Given /\ Given \in Int /\ Given <= Given
    BY <1>1, <1>4 DEF RepliesCount
  <2>3. Joined(Relayed', 1, Given) = DownTo(Given)
    BY <1>1, <2>2, DownKept
  <2> QED
    BY <2>1, <2>2, <2>3
<1>5. CASE state \in Relaying /\ (Rests \/ Arrives \/ AwaitsContent)
  <2>1. client.open /\ Heard' = Heard
    BY <1>1, <1>5, HeardStays DEF Rests, AwaitsContent, contents, writes
  <2>2. PICK rest \in Seq(Unit) : Heard \o rest = DownTo(request_header) /\ (Watched => rest = Coming)
    BY <1>5, <2>1 DEF ReplyInvariant, RepliesHeard, HeardOf
  <2>3. Watched' => rest = Coming'
    BY <1>1, <1>5, <2>2, WatchedBefore, ComingStays
  <2> QED
    BY <1>4, <1>5, <2>1, <2>2, <2>3
<1>6. CASE state \in Relaying /\ RelaysContent
  <2>1. /\ UNCHANGED environment /\ timer_pending /\ state = "read_http_response_content"
        /\ downgoing_buffer' = <<>>
    BY <1>6 DEF RelaysContent, Ran, RanOut
  <2>2. client.open /\ Watched
    BY <2>1 DEF environment, Watched
  <2>3. PICK rest \in Seq(Unit) : Heard \o rest = DownTo(request_header) /\ (Watched => rest = Coming)
    BY <1>6, <2>2 DEF ReplyInvariant, RepliesHeard, HeardOf
  <2>4. CASE to_client' = downgoing_buffer
    <3>1. origins # <<>> /\ to_client = <<>>
      BY <1>1, <2>1, <2>2 DEF ReplyInvariant, StreamFits, SocketRead, Responding, NothingUnheard
    <3>2. Coming' \in Seq(Unit) /\ Heard' \o Coming' = DownTo(request_header)
      BY <1>1, <2>1, <2>2, <2>3, <2>4, <3>1, PassedDown
    <3> QED
      BY <1>4, <1>6, <3>2
  <2>5. CASE ~timer_pending' /\ state' = state /\ to_client' = to_client
    <3>1. ~Watched' /\ Heard' = Heard
      BY <2>1, <2>5 DEF Watched, Heard, environment
    <3> QED
      BY <1>4, <1>6, <2>3, <3>1
  <2> QED
    BY <1>6, <2>4, <2>5 DEF RelaysContent, RanOut, Stays, Becomes
<1> QED
  BY <1>1, <1>3, <1>5, <1>6, HowPhases

\* A tunnel's units, behind what the client had before it.
LEMMA TunnelType ==
  ASSUME DataTypes, NEW k \in Made, origins # <<>>
  PROVE  /\ Established(k) \in Seq(Unit)
         /\ [n \in 1 .. Origin.tunnelled |-> TunnelUnit(k, n)] \in Seq(Unit)
         /\ TunnelFromOrigin(k)
              = Established(k) \o [n \in 1 .. Origin.tunnelled |-> TunnelUnit(k, n)]
         /\ TunnelFromOrigin(k) \in Seq(Unit)
<1>1. PICK j \in Nat : j = k
  BY AskedType
<1>2. PICK m \in Nat : m = Origin.tunnelled
  BY DownType
<1>3. [n \in 1 .. m |-> TunnelUnit(j, n)] \in Seq(Unit)
  BY ThroughOneMore
<1>4. Established(j) \in Seq(Unit)
  BY DownType
<1>5. PICK s \in Seq(Unit), t \in Seq(Unit) :
        s = Established(k) /\ t = [n \in 1 .. Origin.tunnelled |-> TunnelUnit(k, n)]
  BY <1>1, <1>2, <1>3, <1>4
<1>6. s \o t \in Seq(Unit)
  BY ConcatProperties
<1> QED
  BY <1>5, <1>6 DEF TunnelFromOrigin

\* What comes through an open tunnel, besides what its far end sends, is what was coming.
LEMMA TunnelStays ==
  ASSUME ControlInvariant, DataInvariant, RequestInvariant, RequestInvariant', RoutingInvariant,
         ReplyInvariant, DataNext, state \in Tunnelling, ~OriginTunnels,
         Rests \/ Arrives \/ OriginTook \/ PassesUp \/ StartsTunnel
  PROVE  /\ Origin'.tunnelled = Origin.tunnelled
         /\ Watched' => Coming' = Coming
<1>1. DataTypes /\ ControlTypeOK /\ RepliesCount /\ SocketRead
  BY DEF ControlInvariant, DataInvariant, ReplyInvariant
<1>2. ~EndpointConnected
  BY NoneIsMade DEF Tunnelling
<1>3. ~AReplyIsGiven
  BY <1>1, WhenReplyIsGiven DEF AReplyIsGiven, Tunnelling, Sending
<1>4. CASE OriginDataRead
  <2>1. Watched' => downgoing_buffer = <<>>
    BY <1>1, <1>4, WatchedBefore DEF SocketRead, OriginDataRead, Completes
  <2> QED
    BY <1>1, <1>4, <2>1, WhenOriginIsRead
<1>5. CASE ~OriginDataRead
  <2>1. /\ Origin'.stream = Origin.stream /\ Origin'.tunnelled = Origin.tunnelled
        /\ Arrives => downgoing_buffer' = downgoing_buffer
    BY <1>1, <1>2, <1>3, <1>5, OriginStays
  <2>2. downgoing_buffer' = downgoing_buffer
    BY <2>1 DEF Rests, OriginTook, PassesUp, StartsTunnel, contents, buffers
  <2> QED
    BY <2>1, <2>2 DEF Coming
<1> QED
  BY <1>4, <1>5

\* When a tunnel opens the client is about to hear that, behind whole replies.
LEMMA OpeningHeard ==
  ASSUME ControlInvariant, DataInvariant, RequestInvariant, RoutingInvariant, ReplyInvariant,
         DataNext, client'.open, ResolvedToKept \/ ConnectedTo, state' \in Tunnelling
  PROVE  HeardOf(DownTo(request_header - 1) \o TunnelFromOrigin(request_header))'
<1>1. /\ DataTypes /\ ControlTypeOK /\ RepliesCount /\ SocketRead
      /\ Given \in Nat
  BY RelayedType DEF ControlInvariant, DataInvariant, ReplyInvariant
<1>2. /\ state = "connect_to_origin_server" /\ Watched
      /\ to_client = <<>> /\ to_client' = Established(request_header)
      /\ request_header' = request_header /\ UNCHANGED <<downgoing_buffer, environment>>
      /\ origins # <<>> /\ Origin.request = request_header /\ Origin.stream = Through
  BY WhenTunnelOpens
<1>3. PICK k \in Made : k = request_header
  BY <1>2, DoneFits, <1>1 DEF Early, Finding, Waiting
<1>4. PICK e \in Seq(Unit), t \in Seq(Unit) :
        e = Established(k) /\ t = Through /\ TunnelFromOrigin(k) = e \o t
  BY <1>1, <1>2, <1>3, TunnelType DEF Through
<1>5. k - 1 \in Int /\ k - 1 <= Given
  BY <1>1, <1>2, <1>3, DoneFits, AskedType DEF Early, Finding, Waiting
<1>6. PICK p \in Seq(Unit), r \in Seq(Unit) : p = DownTo(k - 1) /\ r = client.received
  BY <1>1, <1>5, RelayedJoined, DownType
<1>7. r = p
  <2>1. client.open
    BY <1>2 DEF environment
  <2>2. Heard = DownTo(Done) /\ Done = k - 1
    BY <1>2, <1>3, <2>1 DEF ReplyInvariant, RepliesHeard, Early, Finding, Done, Waiting
  <2>3. Heard = r \o <<>> /\ r \o <<>> = r
    BY <1>2, <1>6, ConcatEmptySeq DEF Heard
  <2> QED
    BY <1>6, <2>2, <2>3
<1>8. Coming' = t
  <2>1. "read_origin" \notin Outstanding
    BY <1>1, <1>2, StatesOfOutstanding DEF DataInvariant
  <2>2. downgoing_buffer = <<>>
    BY <1>1, <1>2, <2>1 DEF SocketRead, Outstanding, Operation
  <2>3. Coming' = <<>> \o t
    BY <1>2, <1>4, <2>2 DEF Coming, environment, Origin
  <2>4. <<>> \o t = t
    BY ConcatEmptySeq
  <2> QED
    BY <2>3, <2>4
<1>9. Heard' = r \o e
  BY <1>2, <1>3, <1>4, <1>6 DEF Heard, environment
<1>10. (r \o e) \o t = r \o (e \o t)
  <2>1. Both(Both(r, e), t) = Both(r, Both(e, t))
    BY InAnyOrder
  <2> QED
    BY <2>1 DEF Both
<1>11. /\ DownTo(request_header - 1)' = p
       /\ TunnelFromOrigin(request_header)' = e \o t
  <2>1. Joined(Relayed', 1, k - 1) = p
    BY <1>1, <1>5, <1>6, DownKept
  <2>2. DownTo(request_header - 1)' = p
    BY <1>2, <1>3, <2>1 DEF DownTo
  <2>3. TunnelFromOrigin(request_header)' = TunnelFromOrigin(k)
    BY <1>2, <1>3 DEF TunnelFromOrigin, environment, Origin
  <2> QED
    BY <1>4, <2>2, <2>3
<1> QED
  BY <1>4, <1>7, <1>8, <1>9, <1>10, <1>11 DEF HeardOf

\* A step that leaves a tunnel open.
LEMMA TunnelGoesOn ==
  ASSUME ControlInvariant, DataInvariant, RequestInvariant, RepliesCount, DataNext,
         state \in Tunnelling, state' \in Tunnelling
  PROVE  /\ Rests \/ Arrives \/ OriginTook \/ PassesUp \/ PassesDown \/ StartsTunnel
         /\ request_header' = request_header /\ request_header \in Made
         /\ request_header - 1 \in 0 .. Given
         /\ DownTo(request_header - 1)' = DownTo(request_header - 1)
         /\ DownTo(request_header - 1) \in Seq(Unit)
<1>1. DataTypes /\ ControlTypeOK /\ Given \in Nat /\ Asked \in Nat
  BY RelayedType DEF ControlInvariant, DataInvariant
<1>2. Rests \/ Arrives \/ OriginTook \/ PassesUp \/ PassesDown \/ StartsTunnel
  BY <1>1, HowPhases DEF ResolvedToKept, ConnectedTo, Tunnelling
<1>3. request_header' = request_header
  BY <1>1, <1>2, ArrivalsLeave DEF Rests, OriginTook, PassesUp, PassesDown, StartsTunnel, contents,
     request
<1>4. request_header \in Made
  BY DEF DataInvariant, RequestInHand, Serving
<1>5. PICK k \in Made : k = request_header
  BY <1>4
<1>6. k - 1 \in 0 .. Given /\ k - 1 \in Int /\ k - 1 <= Given
  BY <1>1, <1>5, AskedType DEF RepliesCount
<1>7. Joined(Relayed', 1, k - 1) = DownTo(k - 1) /\ DownTo(k - 1) \in Seq(Unit)
  BY <1>1, <1>6, DownKept, RelayedJoined
<1>8. DownTo(request_header - 1)' = DownTo(k - 1)
  BY <1>3, <1>5, <1>7 DEF DownTo
<1> QED
  BY <1>2, <1>3, <1>5, <1>6, <1>7, <1>8

\* The far end of a tunnel adds to what comes through it.
LEMMA TunnelComes ==
  ASSUME ControlInvariant, DataInvariant, RequestInvariant, TunnelCurrent, DataNext, OriginTunnels,
         state \in Tunnelling
  PROVE  \E u \in Unit :
           /\ TunnelFromOrigin(request_header)' = TunnelFromOrigin(request_header) \o <<u>>
           /\ Origin'.stream = Origin.stream \o <<u>>
           /\ downgoing_buffer' = downgoing_buffer /\ client' = client /\ to_client' = to_client
           /\ connection_context' = connection_context /\ timer_pending' = timer_pending
<1>1. DataTypes /\ ControlTypeOK
  BY DEF ControlInvariant, DataInvariant
<1>2. origins # <<>> /\ Origin.request = request_header /\ request_header \in Made
  BY DEF TunnelCurrent, DataInvariant, RequestInHand, Serving
<1>3. /\ UNCHANGED <<proxy>> /\ client' = client /\ Origin.tunnelled \in Nat
      /\ Origin'.stream = Origin.stream \o <<TunnelUnit(Origin.request, Origin.tunnelled + 1)>>
      /\ Origin'.tunnelled = Origin.tunnelled + 1
  BY WhenTunnelSpeaks
<1>4. PICK k \in Made : k = request_header
  BY <1>2
<1>5. PICK e \in Seq(Unit) : e = Established(k)
  BY <1>1, <1>2, TunnelType
<1>6. PICK j \in Nat, n \in Nat : j = k /\ n = Origin.tunnelled
  <2>1. \E j \in Nat : j = k
    BY <1>1, AskedType
  <2> QED
    BY <1>3, <2>1
<1>7. PICK s \in Seq(Unit), t \in Seq(Unit), u \in Unit :
        /\ s = [i \in 1 .. n |-> TunnelUnit(j, i)] /\ t = [i \in 1 .. n + 1 |-> TunnelUnit(j, i)]
        /\ u = TunnelUnit(j, n + 1) /\ t = s \o <<u>>
  <2>1. PICK s, t : s = [i \in 1 .. n |-> TunnelUnit(j, i)]
                    /\ t = [i \in 1 .. n + 1 |-> TunnelUnit(j, i)]
    OBVIOUS
  <2>2. s \in Seq(Unit) /\ t \in Seq(Unit) /\ TunnelUnit(j, n + 1) \in Unit
        /\ t = s \o <<TunnelUnit(j, n + 1)>>
    BY <2>1, ThroughOneMore
  <2> QED
    BY <2>1, <2>2, Zenon
<1>8. TunnelFromOrigin(request_header) = e \o s
  BY <1>4, <1>5, <1>6, <1>7 DEF TunnelFromOrigin
<1>9. TunnelFromOrigin(request_header)' = e \o t
  BY <1>3, <1>4, <1>5, <1>6, <1>7 DEF TunnelFromOrigin, proxy, contents, request
<1>10. (e \o s) \o <<u>> = e \o (s \o <<u>>)
  <2>1. <<u>> \in Seq(Unit)
    OBVIOUS
  <2> QED
    BY <2>1, ConcatAssociative
<1> QED
  BY <1>2, <1>3, <1>4, <1>6, <1>7, <1>8, <1>9, <1>10 DEF proxy, contents, buffers, writes, control

\* More is coming.
LEMMA MoreComing ==
  ASSUME DataTypes, origins # <<>>, NEW more \in Seq(Unit), Origin'.stream = Origin.stream \o more,
         downgoing_buffer' = downgoing_buffer
  PROVE  Coming' = Coming \o more
<1>1. PICK b \in Seq(Unit), c \in Seq(Unit) : b = downgoing_buffer /\ c = Origin.stream
  BY DownType
<1>2. (b \o c) \o more = b \o (c \o more)
  <2>1. Both(Both(b, c), more) = Both(b, Both(c, more))
    BY InAnyOrder
  <2> QED
    BY <2>1 DEF Both
<1> QED
  BY <1>1, <1>2 DEF Coming

\* It is the end of what the client has heard the beginning of.
LEMMA MoreHeard ==
  ASSUME DataTypes, origins # <<>>, NEW whole, NEW more \in Seq(Unit),
         HeardOf(whole), Heard' = Heard, Watched' => Watched,
         Origin'.stream = Origin.stream \o more, downgoing_buffer' = downgoing_buffer
  PROVE  \E rest \in Seq(Unit) : Heard' \o rest = whole \o more /\ (Watched' => rest = Coming')
<1>1. PICK rest \in Seq(Unit) : Heard \o rest = whole /\ (Watched => rest = Coming)
  BY DEF HeardOf
<1>2. PICK h \in Seq(Unit) : h = Heard
  BY DownType
<1>3. (h \o rest) \o more = h \o (rest \o more)
  <2>1. Both(Both(h, rest), more) = Both(h, Both(rest, more))
    BY InAnyOrder
  <2> QED
    BY <2>1 DEF Both
<1>4. rest \o more \in Seq(Unit)
  BY ConcatProperties
<1>5. Coming' = Coming \o more
  BY MoreComing
<1> QED
  BY <1>1, <1>2, <1>3, <1>4, <1>5

\* In a tunnel the client has heard that it is established, and the beginning of what
\* came through it.
LEMMA TunnellingHeard ==
  ASSUME ControlInvariant, DataInvariant, RequestInvariant, RequestInvariant', RoutingInvariant,
         ReplyInvariant, DataNext, client'.open, state' \in Tunnelling
  PROVE  HeardOf(DownTo(request_header - 1) \o TunnelFromOrigin(request_header))'
<1>1. /\ DataTypes /\ ControlTypeOK /\ RepliesCount /\ TunnelCurrent
  BY DEF ControlInvariant, DataInvariant, ReplyInvariant
<1>2. CASE ResolvedToKept \/ ConnectedTo
  BY <1>2, OpeningHeard
<1>3. CASE state \in Tunnelling
  <2>1. /\ Rests \/ Arrives \/ OriginTook \/ PassesUp \/ PassesDown \/ StartsTunnel
        /\ request_header' = request_header /\ request_header \in Made
        /\ DownTo(request_header - 1)' = DownTo(request_header - 1)
    BY <1>1, <1>3, TunnelGoesOn
  <2>2. origins # <<>>
    BY <1>1, <1>3 DEF TunnelCurrent
  <2>3. PICK p \in Seq(Unit), t \in Seq(Unit) :
          p = DownTo(request_header - 1) /\ t = TunnelFromOrigin(request_header)
    BY <1>1, <1>3, <2>1, <2>2, TunnelGoesOn, TunnelType
  <2>4. PICK whole \in Seq(Unit) : whole = p \o t
    BY ConcatProperties
  <2>5. client.open => \E rest \in Seq(Unit) : Heard \o rest = whole /\ (Watched => rest = Coming)
    BY <1>3, <2>3, <2>4 DEF ReplyInvariant, RepliesHeard, HeardOf
  <2>6. SUFFICES \E rest \in Seq(Unit) :
                   /\ Heard' \o rest = p \o TunnelFromOrigin(request_header)'
                   /\ Watched' => rest = Coming'
    BY <2>1, <2>3 DEF HeardOf
  <2>7. CASE PassesDown
    <3>1. /\ UNCHANGED environment /\ timer_pending /\ state = "tunnel_transfer"
          /\ ops["read_origin"] = "ok"
          /\ to_client' = downgoing_buffer /\ downgoing_buffer' = <<>>
      BY <2>7 DEF PassesDown, Ran
    <3>2. client.open /\ Watched /\ to_client = <<>>
      BY <3>1 DEF environment, Watched, ReplyInvariant, NothingUnheard
    <3>3. PICK rest \in Seq(Unit) : Heard \o rest = whole /\ (Watched => rest = Coming)
      BY <2>5, <3>2
    <3>4. Coming' \in Seq(Unit) /\ Heard' \o Coming' = whole
      BY <1>1, <2>2, <3>1, <3>2, <3>3, PassedDown
    <3>5. TunnelFromOrigin(request_header)' = t
      BY <2>1, <2>3, <3>1 DEF TunnelFromOrigin, environment, Origin
    <3> QED
      BY <2>4, <3>4, <3>5
  <2>8. CASE OriginTunnels
    <3>1. PICK u \in Unit :
            /\ TunnelFromOrigin(request_header)' = t \o <<u>>
            /\ Origin'.stream = Origin.stream \o <<u>>
            /\ downgoing_buffer' = downgoing_buffer /\ client' = client /\ to_client' = to_client
            /\ connection_context' = connection_context /\ timer_pending' = timer_pending
      BY <1>1, <1>3, <2>3, <2>8, TunnelComes
    <3>2. client.open /\ Heard' = Heard /\ Watched' = Watched
      BY <3>1 DEF Heard, Watched, state
    <3>3. HeardOf(whole)
      BY <2>5, <3>2 DEF HeardOf
    <3>4. PICK more \in Seq(Unit) : more = <<u>>
      <4>1. <<u>> \in Seq(Unit)
        BY <3>1
      <4> QED
        BY <4>1
    <3>5. /\ Heard' = Heard /\ (Watched' => Watched)
          /\ Origin'.stream = Origin.stream \o more /\ downgoing_buffer' = downgoing_buffer
      BY <3>1, <3>2, <3>4
    <3>6. \E rest \in Seq(Unit) : Heard' \o rest = whole \o more /\ (Watched' => rest = Coming')
      BY <1>1, <2>2, <3>3, <3>5, MoreHeard
    <3>7. (p \o t) \o more = p \o (t \o more)
      <4>1. Both(Both(p, t), more) = Both(p, Both(t, more))
        BY InAnyOrder
      <4> QED
        BY <4>1 DEF Both
    <3>8. whole \o more = p \o TunnelFromOrigin(request_header)'
      BY <2>4, <3>1, <3>4, <3>7
    <3> QED
      BY <3>6, <3>8
  <2>9. CASE ~PassesDown /\ ~OriginTunnels
    <3>1. Origin'.tunnelled = Origin.tunnelled /\ (Watched' => Coming' = Coming)
      BY <1>3, <2>1, <2>9, TunnelStays
    <3>2. TunnelFromOrigin(request_header)' = t
      BY <2>1, <2>3, <3>1 DEF TunnelFromOrigin
    <3>3. client.open /\ Heard' = Heard
      BY <1>1, <2>1, <2>9, HeardStays DEF Rests, OriginTook, PassesUp, StartsTunnel, contents, writes
    <3>4. Watched' => Watched
      BY <1>1, WatchedBefore
    <3> QED
      BY <2>4, <2>5, <3>1, <3>2, <3>3, <3>4
  <2> QED
    BY <2>7, <2>8, <2>9
<1> QED
  BY <1>1, <1>2, <1>3, HowPhases

\* An error page comes behind whole replies.
LEMMA ErrorHeard ==
  ASSUME ControlInvariant, DataInvariant, RequestInvariant, RequestInvariant', RoutingInvariant,
         ReplyInvariant, DataNext, client'.open, state' = "report_error"
  PROVE  \E m \in 0 .. Given', n \in Nat : Heard' = Joined(Relayed', 1, m) \o ErrorReply(n)
<1>1. /\ DataTypes /\ ControlTypeOK /\ RepliesCount /\ Given \in Nat
  BY RelayedType DEF ControlInvariant, DataInvariant, ReplyInvariant
<1>2. SUFFICES \E m \in 0 .. Given, n \in Nat : Heard' = DownTo(m) \o ErrorReply(n)
  <2>1. PICK m \in 0 .. Given, n \in Nat : Heard' = DownTo(m) \o ErrorReply(n)
    BY <1>2
  <2>2. m \in Int /\ m <= Given
    BY <1>1
  <2>3. Joined(Relayed', 1, m) = DownTo(m) /\ Given <= Given'
    BY <1>1, <2>2, DownKept
  <2>4. m \in 0 .. Given'
    <3>1. Given' \in Nat
      BY RequestsGrow, <1>1 DEF Given
    <3> QED
      BY <1>1, <2>3, <3>1
  <2> QED
    BY <2>1, <2>3, <2>4
<1>3. CASE state = "report_error" /\ (Rests \/ Arrives)
  <2>1. client.open /\ Heard' = Heard
    BY <1>1, <1>3, HeardStays DEF Rests, contents, writes
  <2> QED
    BY <1>3, <2>1 DEF ReplyInvariant, RepliesHeard
<1>4. CASE RequestGrows \/ NotConnected \/ ResponseGrows
  <2>1. CASE state = "report_error"
    BY <1>4, <2>1 DEF RequestGrows, NotConnected, ResponseGrows
  <2>2. CASE state # "report_error"
    <3>1. state \in Early /\ timer_pending /\ UNCHANGED environment /\ Complains
      BY <1>4, <2>2 DEF RequestGrows, NotConnected, ResponseGrows, ReportsError, Ran, RanOut, Turns,
         Stays, Becomes, Early, Waiting, Finding
    <3>2. PICK status \in Nat : to_client' = ErrorReply(status)
      BY <3>1 DEF Complains
    <3>3. client.open /\ Watched /\ to_client = <<>>
      BY <3>1 DEF environment, Watched, ReplyInvariant, NothingUnheard
    <3>4. Heard = DownTo(Done) /\ Done \in 0 .. Given
      BY <1>1, <3>1, <3>3, DoneFits DEF ReplyInvariant, RepliesHeard
    <3>5. PICK r \in Seq(Unit) : r = client.received
      BY <1>1, DownType
    <3>6. Heard = r \o <<>> /\ r \o <<>> = r
      BY <3>3, <3>5, ConcatEmptySeq DEF Heard
    <3>7. Heard' = r \o ErrorReply(status)
      BY <3>1, <3>2, <3>5 DEF Heard, environment
    <3> QED
      BY <3>4, <3>6, <3>7
  <2> QED
    BY <2>1, <2>2
<1> QED
  BY <1>1, <1>3, <1>4, HowPhases

\* What a client that listens has heard: whole replies, then the one in hand as far
\* as it has come, a tunnel, or an error page.
LEMMA RepliesHeardPreserved ==
  ASSUME ControlInvariant, DataInvariant, RequestInvariant, RequestInvariant', RoutingInvariant,
         ReplyInvariant, DataNext
  PROVE  RepliesHeard'
  BY EarlyHeard, RelayingHeard, TunnellingHeard, ErrorHeard DEF RepliesHeard, DownTo

\* What the client has got begins all that it has heard the beginning of.
LEMMA GotBegins ==
  ASSUME DataTypes, NEW whole, NEW rest \in Seq(Unit), Heard \o rest = whole
  PROVE  \E all \in Seq(Unit) : client.received \o all = whole
<1>1. PICK r \in Seq(Unit), w \in Seq(Unit) : r = client.received /\ w = to_client
  BY DownType
<1>2. (r \o w) \o rest = r \o (w \o rest)
  <2>1. Both(Both(r, w), rest) = Both(r, Both(w, rest))
    BY InAnyOrder
  <2> QED
    BY <2>1 DEF Both
<1>3. w \o rest \in Seq(Unit)
  BY ConcatProperties
<1> QED
  BY <1>1, <1>2, <1>3 DEF Heard

\* A client that listens has got the beginning of what it hears.
LEMMA BegunWhenHeard ==
  ASSUME ControlTypeOK, DataInvariant, RepliesCount, RepliesHeard, client.open
  PROVE  RepliesBegun
<1>1. DataTypes /\ Given \in Nat
  BY RelayedType DEF DataInvariant
<1>2. CASE state \in Early
  <2>1. Heard = DownTo(Done) /\ Done \in 0 .. Given
    BY <1>2, DoneFits DEF RepliesHeard
  <2>2. PICK n \in Int : n = Done /\ n <= Given /\ n >= 0
    BY <1>1, <2>1
  <2>3. PICK rest \in Seq(Unit) : DownTo(Given) = DownTo(n) \o rest
    BY <1>1, <2>2, RelayedJoined DEF StartsWith
  <2>4. \E all \in Seq(Unit) : client.received \o all = DownTo(Given)
    BY <1>1, <2>1, <2>2, <2>3, GotBegins
  <2> QED
    BY <2>4 DEF RepliesBegun
<1>3. CASE state \in Relaying
  <2>1. PICK rest \in Seq(Unit) : Heard \o rest = DownTo(Given)
    BY <1>3 DEF RepliesHeard, HeardOf, RepliesCount
  <2>2. \E all \in Seq(Unit) : client.received \o all = DownTo(Given)
    BY <1>1, <2>1, GotBegins
  <2> QED
    BY <2>2 DEF RepliesBegun
<1>4. CASE state \in Tunnelling
  <2>1. PICK whole : whole = DownTo(request_header - 1) \o TunnelFromOrigin(request_header)
    OBVIOUS
  <2>2. PICK rest \in Seq(Unit) : Heard \o rest = whole
    BY <1>4, <2>1 DEF RepliesHeard, HeardOf
  <2>3. \E all \in Seq(Unit) : client.received \o all = whole
    BY <1>1, <2>2, GotBegins
  <2> QED
    BY <1>4, <2>1, <2>3 DEF RepliesBegun
<1>5. CASE state = "report_error"
  <2>1. PICK m \in 0 .. Given, n \in Nat : Heard = DownTo(m) \o ErrorReply(n)
    BY <1>5 DEF RepliesHeard
  <2>2. client.received \o to_client = DownTo(m) \o ErrorReply(n) /\ to_client \in Seq(Unit)
    BY <1>1, <2>1, DownType DEF Heard
  <2> QED
    BY <2>2 DEF RepliesBegun
<1>6. state \in Early \cup Relaying \cup Tunnelling \cup {"report_error"}
  BY DEF ControlTypeOK, ConnectionState, Early, Waiting, Finding, Sending, Relaying, Responding,
     Tunnelling
<1> QED
  BY <1>2, <1>3, <1>4, <1>5, <1>6

\* So it has after a step.
LEMMA BegunWhenHeardNext ==
  ControlTypeOK' /\ DataInvariant' /\ RepliesCount' /\ RepliesHeard' /\ (client.open)'
    => RepliesBegun'
<1>1. ControlTypeOK /\ DataInvariant /\ RepliesCount /\ RepliesHeard /\ client.open
        => RepliesBegun
  BY BegunWhenHeard
<1> QED
  BY <1>1, PTL

\* All the replies given begin with the first of them.
DownStarts ==
  /\ Given \in Nat
  /\ \A n \in Int : n <= Given /\ n >= 0
       => StartsWith(Unit, DownTo(Given), Joined(Relayed, 1, n))

LEMMA DownStartsNext == DataTypes' => DownStarts'
<1>1. DataTypes => DownStarts
  BY RelayedType, RelayedJoined DEF DownTo, DownStarts
<1> QED
  BY <1>1, PTL

\* The replies given later come behind those given already.
LEMMA DownGrows ==
  ASSUME DataTypes, DataTypes', DataNext
  PROVE  /\ \E more \in Seq(Unit) : DownTo(Given)' = DownTo(Given) \o more
         /\ \A m \in 0 .. Given : m \in 0 .. Given' /\ Joined(Relayed', 1, m) = DownTo(m)
<1>1. Given \in Nat
  BY RelayedType
<1>2. Given' \in Nat /\ \A n \in Int : n <= Given' /\ n >= 0
                            => StartsWith(Unit, DownTo(Given)', Joined(Relayed', 1, n))
  BY DownStartsNext DEF DownStarts
<1>3. /\ Given \in Nat /\ Given' \in Nat /\ Given <= Given'
      /\ \A n \in Int : n <= Given => Joined(Relayed', 1, n) = DownTo(n)
  BY <1>1, <1>2, DownKept
<1>4. PICK g \in Int : g = Given /\ g <= Given' /\ g >= 0
  BY <1>3
<1>5. StartsWith(Unit, DownTo(Given)', Joined(Relayed', 1, g))
  BY <1>2, <1>4
<1>6. Joined(Relayed', 1, g) = DownTo(Given)
  BY <1>3, <1>4
<1>7. \E more \in Seq(Unit) : DownTo(Given)' = DownTo(Given) \o more
  BY <1>5, <1>6 DEF StartsWith
<1>8. ASSUME NEW m \in 0 .. Given
      PROVE  m \in 0 .. Given' /\ Joined(Relayed', 1, m) = DownTo(m)
  BY <1>3
<1> QED
  BY <1>7, <1>8

\* A client that does not listen gets nothing more.
LEMMA DeafGetsNothing ==
  ASSUME DataTypes, DataNext, ~client'.open
  PROVE  client'.received = client.received
<1>0. client \in [requests : Seq(Requests), stream : Seq(SentOf(Made)),
                   received : Seq(ToldUnit), open : BOOLEAN, tunnelled : Nat]
  BY DEF DataTypes
<1>1. CASE ~Arrives
  BY <1>1, OnlyArrivalsChangeEnvironment DEF environment
<1>2. CASE ClientDataWrite
  <2>1. CASE client.open
    <3>1. PICK n \in 1 .. Len(to_client) :
            client' = [client EXCEPT !.received = @ \o SubSeq(to_client, 1, n)]
      BY <1>2, <2>1 DEF ClientDataWrite
    <3>2. client'.open = client.open
      BY <1>0, <3>1
    <3> QED
      BY <2>1, <3>2
  <2>2. CASE ~client.open
    BY <1>2, <2>2 DEF ClientDataWrite
  <2> QED
    BY <2>1, <2>2
<1>3. CASE Arrives /\ ~ClientDataWrite
  BY <1>0, <1>3 DEF Arrives, ClientDataRead, OriginDataRead, OriginDataWrite, EndpointConnected,
     Peers, ClientSends, ClientTunnels, ClientCloses, OriginReplies, OriginTunnels, OriginCloses
<1> QED
  BY <1>1, <1>2, <1>3

\* A tunnel stays open, and what comes through it comes behind what has come already.
LEMMA TunnelGrows ==
  ASSUME ControlInvariant, DataInvariant, RequestInvariant, RequestInvariant', RoutingInvariant,
         ReplyInvariant, DataNext, state \in Tunnelling, state' \in Tunnelling
  PROVE  /\ DownTo(request_header - 1)' = DownTo(request_header - 1)
         /\ DownTo(request_header - 1) \in Seq(Unit)
         /\ TunnelFromOrigin(request_header) \in Seq(Unit)
         /\ \E more \in Seq(Unit) :
              TunnelFromOrigin(request_header)' = TunnelFromOrigin(request_header) \o more
<1>1. /\ DataTypes /\ ControlTypeOK /\ RepliesCount /\ TunnelCurrent /\ origins # <<>>
  BY DEF ControlInvariant, DataInvariant, ReplyInvariant, TunnelCurrent
<1>2. /\ Rests \/ Arrives \/ OriginTook \/ PassesUp \/ PassesDown \/ StartsTunnel
      /\ request_header' = request_header /\ request_header \in Made
      /\ DownTo(request_header - 1)' = DownTo(request_header - 1)
      /\ DownTo(request_header - 1) \in Seq(Unit)
  BY <1>1, TunnelGoesOn
<1>3. PICK t \in Seq(Unit) : t = TunnelFromOrigin(request_header)
  BY <1>1, <1>2, TunnelType
<1>4. CASE OriginTunnels
  <2>1. PICK u \in Unit : TunnelFromOrigin(request_header)' = TunnelFromOrigin(request_header) \o <<u>>
    BY <1>1, <1>4, TunnelComes
  <2>2. <<u>> \in Seq(Unit)
    OBVIOUS
  <2> QED
    BY <1>2, <1>3, <2>1, <2>2
<1>5. CASE ~OriginTunnels
  <2>1. Origin'.tunnelled = Origin.tunnelled
    <3>1. CASE PassesDown
      BY <3>1 DEF PassesDown, Ran, environment, Origin
    <3>2. CASE ~PassesDown
      BY <1>2, <1>5, <3>2, TunnelStays
    <3> QED
      BY <3>1, <3>2
  <2>2. TunnelFromOrigin(request_header)' = t
    BY <1>2, <1>3, <2>1 DEF TunnelFromOrigin
  <2>3. t \o <<>> = t /\ <<>> \in Seq(Unit)
    BY ConcatEmptySeq, EmptySeq
  <2> QED
    BY <1>2, <1>3, <2>2, <2>3
<1> QED
  BY <1>4, <1>5

\* What any client has got is the beginning of whole replies, the last of them perhaps
\* cut short or a tunnel, or of whole replies and an error page.
LEMMA RepliesBegunPreserved ==
  ASSUME ControlInvariant, ControlInvariant', DataInvariant, DataInvariant', RequestInvariant,
         RequestInvariant', RoutingInvariant, ReplyInvariant, RepliesCount', RepliesHeard', DataNext,
         state \in Tunnelling => state' \in Tunnelling
  PROVE  RepliesBegun'
<1>1. CASE client'.open
  <2>1. (client.open)' /\ ControlTypeOK'
    BY <1>1 DEF ControlInvariant
  <2> QED
    BY <2>1, BegunWhenHeardNext
<1>2. CASE ~client'.open
  <2>1. DataTypes /\ DataTypes' /\ RepliesBegun
    BY DEF DataInvariant, ReplyInvariant
  <2>2. PICK r \in Seq(Unit) : r = client.received /\ r = client'.received
    BY <1>2, <2>1, DeafGetsNothing, DownType
  <2>3. PICK rest \in Seq(Unit) :
          \/ r \o rest = DownTo(Given)
          \/ /\ state \in Tunnelling
             /\ r \o rest = DownTo(request_header - 1) \o TunnelFromOrigin(request_header)
          \/ \E m \in 0 .. Given, n \in Nat : r \o rest = DownTo(m) \o ErrorReply(n)
    BY <2>1, <2>2 DEF RepliesBegun
  <2>4. CASE r \o rest = DownTo(Given)
    <3>1. PICK more \in Seq(Unit) : DownTo(Given)' = DownTo(Given) \o more
      BY <2>1, DownGrows
    <3>2. (r \o rest) \o more = r \o (rest \o more)
      <4>1. Both(Both(r, rest), more) = Both(r, Both(rest, more))
        BY InAnyOrder
      <4> QED
        BY <4>1 DEF Both
    <3>3. rest \o more \in Seq(Unit)
      BY ConcatProperties
    <3> QED
      BY <2>2, <2>4, <3>1, <3>2, <3>3 DEF RepliesBegun
  <2>5. CASE /\ state \in Tunnelling
             /\ r \o rest = DownTo(request_header - 1) \o TunnelFromOrigin(request_header)
    <3>1. state' \in Tunnelling
      BY <2>5
    <3>2. PICK p \in Seq(Unit), t \in Seq(Unit) :
            /\ p = DownTo(request_header - 1) /\ t = TunnelFromOrigin(request_header)
            /\ DownTo(request_header - 1)' = p
      BY <2>5, <3>1, TunnelGrows
    <3>3. PICK more \in Seq(Unit) : TunnelFromOrigin(request_header)' = t \o more
      BY <2>5, <3>1, <3>2, TunnelGrows
    <3>4. (r \o rest) \o more = r \o (rest \o more)
      <4>1. Both(Both(r, rest), more) = Both(r, Both(rest, more))
        BY InAnyOrder
      <4> QED
        BY <4>1 DEF Both
    <3>5. (p \o t) \o more = p \o (t \o more)
      <4>1. Both(Both(p, t), more) = Both(p, Both(t, more))
        BY InAnyOrder
      <4> QED
        BY <4>1 DEF Both
    <3>6. r \o (rest \o more)
            = DownTo(request_header - 1)' \o TunnelFromOrigin(request_header)'
      BY <2>5, <3>2, <3>3, <3>4, <3>5
    <3>7. rest \o more \in Seq(Unit)
      BY ConcatProperties
    <3> QED
      BY <2>2, <3>1, <3>6, <3>7 DEF RepliesBegun
  <2>6. CASE \E m \in 0 .. Given, n \in Nat : r \o rest = DownTo(m) \o ErrorReply(n)
    <3>1. PICK m \in 0 .. Given, n \in Nat : r \o rest = DownTo(m) \o ErrorReply(n)
      BY <2>6
    <3>2. m \in 0 .. Given' /\ Joined(Relayed', 1, m) = DownTo(m)
      BY <2>1, DownGrows
    <3> QED
      BY <2>2, <3>1, <3>2 DEF RepliesBegun, DownTo, ErrorReply
  <2> QED
    BY <2>3, <2>4, <2>5, <2>6
<1> QED
  BY <1>1, <1>2

-----------------------------------------------------------------------------
(* The theorems about replies. *)

\* A tunnel stays a tunnel.
LEMMA TunnelStaysOne ==
  ASSUME ControlTypeOK, DataTypes, DataNext, state \in Tunnelling
  PROVE  state' \in Tunnelling
<1> USE DEF Waiting, Finding, Sending, Relaying, Responding, Tunnelling
<1>1. CASE Arrives
  BY <1>1, ArrivalsLeave DEF Stays, Becomes
<1>2. CASE Rests \/ Begun
  BY <1>2 DEF Rests, Begun, Stays, Turns, Becomes, contents, request
<1>3. CASE RequestGrows \/ TakenOnKept \/ TakenAnew \/ Reconnecting
  BY <1>3 DEF RequestGrows, TakenOnKept, TakenAnew, RequestTaken, Reconnecting, Reconnects
<1>4. CASE ResolvedToKept \/ TriesEndpoint \/ ConnectedTo \/ NotConnected
  BY <1>4 DEF ResolvedToKept, TriesEndpoint, ConnectedTo, NotConnected
<1>5. CASE PassesContent \/ PassesUp \/ OriginTook
  BY <1>5 DEF PassesContent, PassesUp, OriginTook, Stays, Turns, Becomes, Writing
<1>6. CASE ResponseGrows \/ RelaysHeader \/ RelaysContent \/ PassesDown
  BY <1>6 DEF ResponseGrows, RelaysHeader, RelaysContent, PassesDown, Stays, Turns, Becomes
<1>7. CASE AwaitsContent \/ AwaitsRequest \/ StartsTunnel
  BY <1>7 DEF AwaitsContent, AwaitsRequest, StartsTunnel, Stays, Turns, Becomes
<1> QED
  BY <1>1, <1>2, <1>3, <1>4, <1>5, <1>6, <1>7 DEF DataNext

\* In the beginning nothing has come or gone.
LEMMA ReplyInvariantAtFirst ==
  ASSUME Init
  PROVE  ReplyInvariant
<1>1. /\ state = "read_cipher_data" /\ client.requests = <<>> /\ client.received = <<>>
      /\ replies = <<>> /\ to_client = <<>> /\ downgoing_buffer = <<>> /\ response_data = <<>>
      /\ origin_server_socket = "closed" /\ origins = <<>> /\ ops["connect"] = "idle"
      /\ Len(<<>>) = 0
  BY DEF Init, state, Operation
<1>2. Given = 0 /\ Asked = 0
  BY <1>1 DEF Given, Asked
<1>3. state \notin Relaying \cup Responding \cup Tunnelling \cup Sending /\ state \in Waiting
  BY <1>1 DEF Relaying, Responding, Tunnelling, Sending, Waiting
<1>4. RepliesCount
  BY <1>2, <1>3 DEF RepliesCount
<1>5. TunnelCurrent /\ SocketRead /\ CompleteIsAll
  BY <1>1, <1>3 DEF TunnelCurrent, SocketRead, CompleteIsAll
<1>6. NothingUnheard
  BY <1>1 DEF NothingUnheard
<1>7. StreamFits
  BY <1>1, <1>3 DEF StreamFits, OriginConnected
<1>8. DownTo(0) = <<>> /\ <<>> \in Seq(Unit) /\ <<>> \o <<>> = <<>>
  <2>1. 1 \in Int /\ 0 \in Int /\ 0 < 1
    OBVIOUS
  <2>2. Joined(Relayed, 1, 0) = <<>>
    BY <2>1, JoinedNone
  <2>3. <<>> \in Seq(Unit)
    OBVIOUS
  <2>4. <<>> \o <<>> = <<>>
    BY <2>3, ConcatEmptySeq
  <2> QED
    BY <2>2, <2>3, <2>4 DEF DownTo
<1>9. RepliesHeard
  <2>1. Done = 0 /\ Heard = <<>>
    BY <1>1, <1>2, <1>3, <1>8 DEF Done, Heard
  <2> QED
    BY <1>1, <1>3, <1>8, <2>1 DEF RepliesHeard
<1>10. RepliesBegun
  BY <1>1, <1>2, <1>8 DEF RepliesBegun
<1> QED
  BY <1>4, <1>5, <1>6, <1>7, <1>9, <1>10 DEF ReplyInvariant

\* Every step keeps the reply invariant.
LEMMA ReplyInvariantPreserved ==
  ASSUME ControlInvariant, ControlInvariant', DataInvariant, DataInvariant', RequestInvariant,
         RequestInvariant', RoutingInvariant, ReplyInvariant, [Next]_vars
  PROVE  ReplyInvariant'
<1>1. DataNext /\ ControlTypeOK /\ DataTypes
  BY DataPreserved DEF ControlInvariant, DataInvariant
<1>2. RepliesCount' /\ TunnelCurrent' /\ SocketRead' /\ NothingUnheard'
  BY <1>1, RepliesCountPreserved, TunnelCurrentPreserved, SocketReadPreserved,
     NothingUnheardPreserved
<1>3. StreamFits' /\ CompleteIsAll' /\ RepliesHeard'
  BY <1>1, StreamFitsPreserved, CompleteIsAllPreserved, RepliesHeardPreserved
<1>4. state \in Tunnelling => state' \in Tunnelling
  BY <1>1, TunnelStaysOne
<1>5. RepliesBegun'
  BY <1>1, <1>2, <1>3, <1>4, RepliesBegunPreserved
<1> QED
  BY <1>2, <1>3, <1>5 DEF ReplyInvariant

\* The reply invariant holds in every reachable state: what the client has got, and
\* what is on its way to it, are the replies given, in order, each whole.
THEOREM ReplyIsInvariant == Spec => []ReplyInvariant
<1>1. Init => ReplyInvariant
  BY ReplyInvariantAtFirst
<1>2. ControlInvariant /\ ControlInvariant' /\ DataInvariant /\ DataInvariant' /\ RequestInvariant
        /\ RequestInvariant' /\ RoutingInvariant /\ ReplyInvariant /\ [Next]_vars
        => ReplyInvariant'
  BY ReplyInvariantPreserved
<1> QED
  BY <1>1, <1>2, ControlIsInvariant, DataIsInvariant, RequestIsInvariant, RoutingIsInvariant, PTL
  DEF Spec

\* The first replies, as DownstreamFaithful joins them.
LEMMA RepliesConcatenated ==
  ASSUME DataTypes, NEW m \in 0 .. Given
  PROVE  Concatenated(1, m, RelayedReply) = DownTo(m)
<1>1. Given \in Nat /\ m \in Int /\ m <= Given
  BY RelayedType
<1>2. ASSUME NEW i \in 1 .. m - 1 + 1
      PROVE  Relayed[1 + i - 1] = RelayedReply(1 + i - 1)
  BY <1>1 DEF Relayed
<1>3. [i \in 1 .. m - 1 + 1 |-> Relayed[1 + i - 1]]
        = [i \in 1 .. m - 1 + 1 |-> RelayedReply(1 + i - 1)]
  BY <1>2
<1> QED
  BY <1>3, Zenon DEF Concatenated, DownTo, Joined

\* The first of two sequences is a prefix of both, and the second is what is left.
LEMMA FirstIsPrefix ==
  ASSUME NEW S, NEW a \in Seq(S), NEW b \in Seq(S)
  PROVE  IsPrefix(a, a \o b) /\ SubSeq(a \o b, Len(a) + 1, Len(a \o b)) = b
<1>1. /\ Len(a \o b) = Len(a) + Len(b) /\ Len(a) \in Nat /\ Len(b) \in Nat
      /\ \A i \in 1 .. Len(a) + Len(b) :
           (a \o b)[i] = IF i <= Len(a) THEN a[i] ELSE b[i - Len(a)]
  BY ConcatProperties, LenProperties
<1>2. PICK n \in Nat, m \in Nat : n = Len(a) /\ m = Len(b)
  BY <1>1
<1>3. a = [i \in 1 .. n |-> a[i]] /\ b = [i \in 1 .. m |-> b[i]]
  BY <1>2
<1>4. SubSeq(a \o b, 1, n) = a /\ SubSeq(a, 1, n) = a
  <2>1. SubSeq(a \o b, 1, n) = [i \in 1 .. n |-> (a \o b)[i]]
    BY <1>2
  <2>2. SubSeq(a, 1, n) = [i \in 1 .. n |-> a[i]]
    BY <1>2
  <2> QED
    BY <1>1, <1>2, <1>3, <2>1, <2>2
<1>5. SubSeq(a \o b, n + 1, n + m) = b
  <2>1. SubSeq(a \o b, n + 1, n + m) = [i \in 1 .. m |-> (a \o b)[i + n]]
    BY <1>2
  <2>2. \A i \in 1 .. m : (a \o b)[i + n] = b[i]
    BY <1>1, <1>2
  <2> QED
    BY <1>3, <2>1, <2>2
<1>6. Len(a) <= Len(a \o b)
  BY <1>1
<1> QED
  BY <1>1, <1>2, <1>4, <1>5, <1>6 DEF IsPrefix

\* The element at i of two sequences in a row.
InARow(a, b, i) == IF i <= Len(a) THEN a[i] ELSE b[i - Len(a)]

LEMMA InARowIs ==
  ASSUME NEW S, NEW a \in Seq(S), NEW b \in Seq(S)
  PROVE  /\ a \o b \in Seq(S) /\ Len(a \o b) = Len(a) + Len(b)
         /\ \A i \in 1 .. Len(a) + Len(b) : (a \o b)[i] = InARow(a, b, i)
BY ConcatProperties DEF InARow

\* Two rows are the same.  The first sequence of one begins that of the other.
SameRow(a, b, c, d) ==
  /\ Len(a) + Len(b) = Len(c) + Len(d)
  /\ \A i \in 1 .. Len(a) + Len(b) : InARow(a, b, i) = InARow(c, d, i)
Splits(S, a, b, c, d) == \E x \in Seq(S) : a \o x = c /\ x \o d = b
OneBegins(S, a, b, c, d) ==
  \/ \E x \in Seq(S) : a \o x = c
  \/ \E x \in Seq(S) : c \o x = a /\ x \o b = d

\* When two rows are the same and the first sequence of one is the shorter, it begins
\* the other, and what is left of that goes into its own second one.
LEMMA ShorterBegins ==
  ASSUME NEW S, NEW a \in Seq(S), NEW b \in Seq(S), NEW c \in Seq(S), NEW d \in Seq(S),
         SameRow(a, b, c, d), Len(a) <= Len(c)
  PROVE  Splits(S, a, b, c, d)
<1>1. PICK n \in Nat, m \in Nat, k \in Nat, l \in Nat :
        n = Len(a) /\ m = Len(b) /\ k = Len(c) /\ l = Len(d)
  BY LenProperties
<1>2. n + m = k + l /\ n <= k
  BY <1>1 DEF SameRow
<1>3. \A i \in 1 .. n + m :
        (IF i <= n THEN a[i] ELSE b[i - n]) = (IF i <= k THEN c[i] ELSE d[i - k])
  BY <1>1, <1>2 DEF InARow, SameRow
<1>5. PICK x \in Seq(S) : Len(x) = k - n /\ \A i \in 1 .. k - n : x[i] = c[i + n]
  <2>1. PICK x : x = [i \in 1 .. k - n |-> c[i + n]]
    OBVIOUS
  <2>2. x \in Seq(S) /\ Len(x) = k - n /\ \A i \in 1 .. k - n : x[i] = c[i + n]
    BY <1>1, <1>2, <2>1
  <2> QED
    BY <2>2
<1>6. /\ Len(a \o x) = k /\ a \o x \in Seq(S)
      /\ \A i \in 1 .. k : (a \o x)[i] = IF i <= n THEN a[i] ELSE x[i - n]
  <2>1. /\ a \o x \in Seq(S) /\ Len(a \o x) = Len(a) + Len(x)
        /\ \A i \in 1 .. Len(a) + Len(x) : (a \o x)[i] = InARow(a, x, i)
    BY InARowIs
  <2>2. Len(a) + Len(x) = k
    BY <1>1, <1>2, <1>5
  <2> QED
    BY <1>1, <2>1, <2>2 DEF InARow
<1>7. /\ Len(x \o d) = m /\ x \o d \in Seq(S)
      /\ \A i \in 1 .. m : (x \o d)[i] = IF i <= k - n THEN x[i] ELSE d[i - (k - n)]
  <2>1. /\ x \o d \in Seq(S) /\ Len(x \o d) = Len(x) + Len(d)
        /\ \A i \in 1 .. Len(x) + Len(d) : (x \o d)[i] = InARow(x, d, i)
    BY InARowIs
  <2>2. Len(x) + Len(d) = m
    BY <1>1, <1>2, <1>5
  <2> QED
    BY <1>5, <2>1, <2>2 DEF InARow
<1>8. ASSUME NEW i \in 1 .. k PROVE (a \o x)[i] = c[i]
  <2>1. i \in 1 .. n + m
    BY <1>2
  <2>2. CASE i <= n
    BY <1>2, <1>3, <1>6, <2>1, <2>2
  <2>3. CASE i > n
    <3>1. i - n \in 1 .. k - n /\ i - n + n = i /\ ~(i <= n)
      BY <1>2, <2>3
    <3> QED
      BY <1>5, <1>6, <3>1
  <2>4. i <= n \/ i > n
    OBVIOUS
  <2> QED
    BY <2>2, <2>3, <2>4, Zenon
<1>9. ASSUME NEW i \in 1 .. m PROVE (x \o d)[i] = b[i]
  <2>1. i + n \in 1 .. n + m /\ ~(i + n <= n) /\ i + n - n = i
    BY <1>2
  <2>2. b[i] = IF i + n <= k THEN c[i + n] ELSE d[i + n - k]
    BY <1>3, <2>1
  <2>3. i + n <= k <=> i <= k - n
    BY <1>2
  <2>4. i + n - k = i - (k - n)
    BY <1>2
  <2>5. (x \o d)[i] = IF i <= k - n THEN x[i] ELSE d[i - (k - n)]
    BY <1>7
  <2>6. i <= k - n => x[i] = c[i + n]
    <3>1. i <= k - n => i \in 1 .. k - n
      BY <1>2
    <3> QED
      BY <1>5, <3>1
  <2> QED
    BY <2>2, <2>3, <2>4, <2>5, <2>6
<1>10. a \o x = c
  BY <1>1, <1>6, <1>8, SeqEqual
<1>11. x \o d = b
  BY <1>1, <1>7, <1>9, SeqEqual
<1> QED
  BY <1>5, <1>10, <1>11 DEF Splits

\* When two rows are the same, the first sequence of one begins that of the other.
LEMMA OneBeginsTheOther ==
  ASSUME NEW S, NEW a \in Seq(S), NEW b \in Seq(S), NEW c \in Seq(S), NEW d \in Seq(S)
  PROVE  a \o b = c \o d => OneBegins(S, a, b, c, d)
<1>1. Len(a) \in Nat /\ Len(b) \in Nat /\ Len(c) \in Nat /\ Len(d) \in Nat
  BY LenProperties
<1>2. /\ Len(a \o b) = Len(a) + Len(b)
      /\ \A i \in 1 .. Len(a) + Len(b) : (a \o b)[i] = InARow(a, b, i)
  BY InARowIs
<1>3. /\ Len(c \o d) = Len(c) + Len(d)
      /\ \A i \in 1 .. Len(c) + Len(d) : (c \o d)[i] = InARow(c, d, i)
  BY InARowIs
<1>4. a \o b = c \o d => SameRow(a, b, c, d) /\ SameRow(c, d, a, b)
  BY <1>2, <1>3 DEF SameRow
<1>5. ASSUME SameRow(a, b, c, d), Len(a) <= Len(c) PROVE Splits(S, a, b, c, d)
  BY <1>5, ShorterBegins
<1>6. ASSUME SameRow(c, d, a, b), Len(c) <= Len(a) PROVE Splits(S, c, d, a, b)
  BY <1>6, ShorterBegins
<1>7. Len(a) <= Len(c) \/ Len(c) <= Len(a)
  BY <1>1
<1> QED
  BY <1>4, <1>5, <1>6, <1>7, Zenon DEF Splits, OneBegins

\* A client that has got the beginning of the first replies has got that of all.
LEMMA BeginningIsFaithful ==
  ASSUME DataTypes, NEW m \in 0 .. Given, StartsWith(Unit, DownTo(m), client.received)
  PROVE  DownstreamFaithful
<1>1. Given \in Nat /\ m \in Int /\ m <= Given /\ m >= 0
  BY RelayedType
<1>2. PICK r \in Seq(Unit), x \in Seq(Unit) : r = client.received /\ r \o x = DownTo(m)
  BY DownType DEF StartsWith
<1>3. PICK more \in Seq(Unit) : DownTo(Given) = DownTo(m) \o more
  BY <1>1, RelayedJoined DEF StartsWith
<1>4. (r \o x) \o more = r \o (x \o more)
  <2>1. Both(Both(r, x), more) = Both(r, Both(x, more))
    BY InAnyOrder
  <2> QED
    BY <2>1 DEF Both
<1>5. PICK all \in Seq(Unit) : all = x \o more
  BY ConcatProperties
<1>6. IsPrefix(r, r \o all)
  BY FirstIsPrefix
<1>7. r \o all = DownTo(Given)
  BY <1>2, <1>3, <1>4, <1>5
<1>8. Concatenated(1, Given, RelayedReply) = DownTo(Given)
  BY <1>1, RepliesConcatenated
<1> QED
  BY <1>2, <1>6, <1>7, <1>8 DEF DownstreamFaithful, Given

\* What a client may get behind whole replies.
LEMMA BehindIsFaithful ==
  ASSUME DataTypes, NEW m \in 0 .. Given, NEW x \in Seq(Unit), client.received = DownTo(m) \o x,
         IsErrorReply(x)
           \/ (m + 1 = Len(client.requests) /\ IsPrefix(x, TunnelFromOrigin(m + 1)))
  PROVE  DownstreamFaithful
<1>1. Given \in Nat /\ m \in Int /\ m <= Given
  BY RelayedType
<1>2. PICK p \in Seq(Unit) : p = DownTo(m)
  BY <1>1, RelayedJoined
<1>3. IsPrefix(p, p \o x) /\ SubSeq(p \o x, Len(p) + 1, Len(p \o x)) = x
  BY FirstIsPrefix
<1>4. Concatenated(1, m, RelayedReply) = p
  BY <1>2, RepliesConcatenated
<1>5. client.received = p \o x
  BY <1>2
<1> QED
  BY <1>3, <1>4, <1>5 DEF DownstreamFaithful, Given

\* What the client has got before an error page or with it.
LEMMA ErrorIsFaithful ==
  ASSUME DataTypes, NEW rest \in Seq(Unit), NEW m \in 0 .. Given, NEW n \in Nat,
         client.received \o rest = DownTo(m) \o ErrorReply(n)
  PROVE  DownstreamFaithful
<1>1. Given \in Nat /\ m \in Int /\ m <= Given
  BY RelayedType
<1>2. PICK r \in Seq(Unit), p \in Seq(Unit), e \in Seq(Unit) :
        r = client.received /\ p = DownTo(m) /\ e = ErrorReply(n)
  BY <1>1, DownType, RelayedJoined
<1>3. \/ \E x \in Seq(Unit) : r \o x = p
      \/ \E x \in Seq(Unit) : p \o x = r /\ x \o rest = e
  <2>1. r \o rest = p \o e
    BY <1>2
  <2>2. OneBegins(Unit, r, rest, p, e)
    BY <2>1, OneBeginsTheOther
  <2> QED
    BY <2>2 DEF OneBegins
<1>4. CASE \E x \in Seq(Unit) : r \o x = p
  <2>1. StartsWith(Unit, DownTo(m), client.received)
    BY <1>2, <1>4 DEF StartsWith
  <2> QED
    BY <2>1, BeginningIsFaithful
<1>5. CASE \E x \in Seq(Unit) : p \o x = r /\ x \o rest = e
  <2>1. PICK x \in Seq(Unit) : p \o x = r /\ x \o rest = e
    BY <1>5
  <2>2. Len(e) = 1 /\ e[1].part = "error"
    BY <1>2 DEF ErrorReply
  <2>3. /\ Len(x \o rest) = Len(x) + Len(rest) /\ Len(x) \in Nat /\ Len(rest) \in Nat
        /\ \A i \in 1 .. Len(x) + Len(rest) : (x \o rest)[i] = InARow(x, rest, i)
    BY InARowIs, LenProperties
  <2>4. CASE Len(x) = 0
    <3>1. x = <<>>
      BY <2>4, EmptySeq
    <3>2. p \o <<>> = p /\ <<>> \in Seq(Unit)
      BY ConcatEmptySeq, EmptySeq
    <3>3. r \o <<>> = p
      BY <2>1, <3>1, <3>2
    <3>4. StartsWith(Unit, DownTo(m), client.received)
      BY <1>2, <3>2, <3>3 DEF StartsWith
    <3> QED
      BY <3>4, BeginningIsFaithful
  <2>5. CASE Len(x) # 0
    <3>1. Len(x) = 1
      <4>1. Len(x \o rest) = 1
        BY <2>1, <2>2, Zenon
      <4>2. Len(x) + Len(rest) = 1
        BY <2>3, <4>1, Zenon
      <4>3. PICK a \in Nat, b \in Nat : a = Len(x) /\ b = Len(rest)
        BY LenProperties
      <4> QED
        BY <2>5, <4>2, <4>3
    <3>2. x[1] = e[1]
      BY <2>1, <2>3, <3>1 DEF InARow
    <3>3. IsErrorReply(x)
      BY <2>2, <3>1, <3>2 DEF IsErrorReply
    <3> QED
      BY <1>2, <2>1, <3>3, BehindIsFaithful
  <2> QED
    BY <2>4, <2>5
<1> QED
  BY <1>3, <1>4, <1>5

\* What the client has got before a tunnel or through it.
LEMMA TunnelIsFaithful ==
  ASSUME DataInvariant, RequestInvariant, RepliesCount, TunnelCurrent, state \in Tunnelling,
         NEW rest \in Seq(Unit),
         client.received \o rest = DownTo(request_header - 1) \o TunnelFromOrigin(request_header)
  PROVE  DownstreamFaithful
<1>1. DataTypes /\ origins # <<>> /\ Given \in Nat /\ Asked \in Nat
  BY RelayedType DEF DataInvariant, TunnelCurrent
<1>2. request_header = Asked /\ request_header \in Made
  BY DEF RequestInvariant, OneAtATime, DataInvariant, RequestInHand, Serving, Relaying, Responding,
     Tunnelling
<1>3. PICK m \in 0 .. Given : m = request_header - 1 /\ m + 1 = Asked /\ m + 1 = request_header
  <2>1. request_header \in 1 .. Asked
    BY <1>1, <1>2, AskedType
  <2>2. Given >= Asked - 1
    BY <1>1, <2>1 DEF RepliesCount
  <2> QED
    BY <1>1, <1>2, <2>1, <2>2
<1>4. PICK r \in Seq(Unit), p \in Seq(Unit), t \in Seq(Unit) :
        r = client.received /\ p = DownTo(m) /\ t = TunnelFromOrigin(m + 1)
  <2>1. TunnelFromOrigin(request_header) \in Seq(Unit)
    BY <1>1, <1>2, TunnelType
  <2>2. m \in Int /\ m <= Given
    BY <1>1
  <2> QED
    BY <1>1, <1>3, <2>1, <2>2, DownType, RelayedJoined
<1>5. \/ \E x \in Seq(Unit) : r \o x = p
      \/ \E x \in Seq(Unit) : p \o x = r /\ x \o rest = t
  <2>1. r \o rest = p \o t
    BY <1>3, <1>4
  <2>2. OneBegins(Unit, r, rest, p, t)
    BY <2>1, OneBeginsTheOther
  <2> QED
    BY <2>2 DEF OneBegins
<1>6. CASE \E x \in Seq(Unit) : r \o x = p
  <2>1. StartsWith(Unit, DownTo(m), client.received)
    BY <1>4, <1>6 DEF StartsWith
  <2> QED
    BY <1>1, <2>1, BeginningIsFaithful
<1>7. CASE \E x \in Seq(Unit) : p \o x = r /\ x \o rest = t
  <2>1. PICK x \in Seq(Unit) : p \o x = r /\ x \o rest = t
    BY <1>7
  <2>2. IsPrefix(x, x \o rest)
    BY FirstIsPrefix
  <2>3. m + 1 = Len(client.requests) /\ IsPrefix(x, TunnelFromOrigin(m + 1))
    BY <1>3, <1>4, <2>1, <2>2 DEF Asked
  <2> QED
    BY <1>1, <1>4, <2>1, <2>3, BehindIsFaithful
<1> QED
  BY <1>5, <1>6, <1>7

\* The client gets the replies to its requests in order, each whole before the next
\* begins, an error page only between replies and as the last thing, and a tunnel's
\* data only behind "200 Connection Established", in order.
THEOREM DownstreamFaithfulHolds == Spec => []DownstreamFaithful
<1>1. DataInvariant /\ RequestInvariant /\ ReplyInvariant => DownstreamFaithful
  <2> SUFFICES ASSUME DataInvariant, RequestInvariant, ReplyInvariant PROVE DownstreamFaithful
    OBVIOUS
  <2>1. /\ DataTypes /\ RepliesCount /\ TunnelCurrent /\ RepliesBegun /\ Given \in Nat
    BY RelayedType DEF DataInvariant, ReplyInvariant
  <2>2. PICK rest \in Seq(Unit) :
          \/ client.received \o rest = DownTo(Given)
          \/ /\ state \in Tunnelling
             /\ client.received \o rest
                  = DownTo(request_header - 1) \o TunnelFromOrigin(request_header)
          \/ \E m \in 0 .. Given, n \in Nat :
               client.received \o rest = DownTo(m) \o ErrorReply(n)
    BY <2>1 DEF RepliesBegun
  <2>3. CASE client.received \o rest = DownTo(Given)
    <3>1. StartsWith(Unit, DownTo(Given), client.received) /\ Given \in 0 .. Given
      BY <2>1, <2>3 DEF StartsWith
    <3> QED
      BY <2>1, <3>1, BeginningIsFaithful
  <2>4. CASE /\ state \in Tunnelling
             /\ client.received \o rest
                  = DownTo(request_header - 1) \o TunnelFromOrigin(request_header)
    BY <2>1, <2>4, TunnelIsFaithful
  <2>5. CASE \E m \in 0 .. Given, n \in Nat :
               client.received \o rest = DownTo(m) \o ErrorReply(n)
    BY <2>1, <2>5, ErrorIsFaithful
  <2> QED
    BY <2>2, <2>3, <2>4, <2>5
<1> QED
  BY <1>1, DataIsInvariant, RequestIsInvariant, ReplyIsInvariant, PTL
=============================================================================
