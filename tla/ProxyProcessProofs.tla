-------------------------- MODULE ProxyProcessProofs --------------------------
(***************************************************************************)
(* Proofs that a process loses its accept, and its connections, only by the*)
(* failures ProxyProcess names: for every configuration file, any number of*)
(* workers and connections.  And that it lets in exactly the users of its  *)
(* file, through base64, the table of users and auth: for every file and   *)
(* whatever is sent.                                                       *)
(***************************************************************************)
EXTENDS ProxyProcess, SequenceTheorems, WellFoundedInduction, TLAPS

\* The variables have their types, and the program one of its files.
Typed ==
  /\ program \in {"ahps", "ahpc"}
  /\ file \in IF program = "ahps" THEN ServerFiles ELSE ClientFiles
  /\ running \in Nat /\ returned \in Nat /\ killed \in Nat
  /\ connections \in Nat
  /\ phase \in {"starting", "loaded", "listening", "joining", "ended"}

\* The number of workers, wherever it can be read, is a number.
WorkersKnown ==
  "workers" \in DOMAIN config.map => config.map["workers"].value \in Nat

\* Nothing takes the accept away before the workers run.
Armed == phase = "listening" => accept # "none"

\* Every worker runs, has returned, or has been killed.
WorkersCounted ==
  /\ phase \in {"starting", "loaded", "listening"} => running + returned + killed = 0
  /\ phase = "joining" => running + returned + killed = config.map["workers"].value

\* No worker returns while there is work, and work never comes back.
NoneReturned == phase = "joining" /\ HasWork => returned = 0

IInv ==
  /\ Typed
  /\ WorkersKnown
  /\ Armed
  /\ AcceptLostOnlyByFailure
  /\ WorkersCounted
  /\ NoneReturned

----------------------------------------------------------------------------
(* What load_config leaves. *)

\* What is stored for "workers" is a number.
LEMMA WorkersStored ==
  ASSUME NEW value \in Seq(Int), NEW default \in Nat
  PROVE  Workers(value, default).stored.value \in Nat
<1>1. CASE value = <<>>
  BY <1>1 DEF Workers, Optional, Clamped, Stored
<1>2. CASE value # <<>>
  <2>1. value[1] \in Int
    BY <1>2
  <2> DEFINE n == IF value[1] < 1 THEN 1 ELSE IF value[1] > 16 THEN 16 ELSE value[1]
  <2>2. n \in Nat
    BY <2>1
  <2>3. Clamped(value, 1, 16) = <<n>>
    BY <1>2 DEF Clamped
  <2> HIDE DEF n
  <2> QED BY <2>2, <2>3 DEF Workers, Optional, Stored
<1> QED BY <1>1, <1>2

\* A map that was not refused holds what the settings say.
LEMMA LoadedMap ==
  ASSUME NEW settings, NEW key \in DOMAIN settings, Loaded(settings) # Refused
  PROVE  /\ Loaded(settings).map[key] = settings[key].stored
         /\ "map" \in DOMAIN Loaded(settings)
BY DEF Loaded

\* Whatever the file says, the number of workers that load_config leaves is a number.
LEMMA LoadedWorkers ==
  ASSUME NEW f \in ServerFiles \cup ClientFiles, NEW c \in {LoadServer(f), LoadClient(f)},
         "workers" \in DOMAIN c.map
  PROVE  c.map["workers"].value \in Nat
<1>1. f.workers \in Seq(Int)
  BY ProcessAssumption
<1>2. "workers" \notin DOMAIN Refused.map
  BY DEF Refused
<1>3. CASE c = LoadClient(f)
  <2>1. c = Loaded(ClientSettings(f)) /\ c # Refused
    BY <1>2, <1>3 DEF LoadClient
  <2>2. c.map["workers"] = Workers(f.workers, 2).stored
    <3>1. /\ "workers" \in DOMAIN ClientSettings(f)
          /\ ClientSettings(f)["workers"] = Workers(f.workers, 2)
      BY DEF ClientSettings
    <3> QED BY <2>1, <3>1, LoadedMap
  <2> QED BY <1>1, <2>2, WorkersStored
<1>4. CASE c = LoadServer(f)
  <2> DEFINE loaded == Loaded(ServerSettings(f))
             read == UsersOf(f)
  <2>1. loaded # Refused /\ c = RolledBack(WithUsers(loaded, read)) /\ c # Refused
    BY <1>2, <1>4 DEF LoadServer
  <2>2. loaded.map["workers"] = Workers(f.workers, 4).stored /\ "map" \in DOMAIN loaded
    <3>1. /\ "workers" \in DOMAIN ServerSettings(f)
          /\ ServerSettings(f)["workers"] = Workers(f.workers, 4)
      BY DEF ServerSettings
    <3> QED BY <2>1, <3>1, LoadedMap
  <2>3. c.map = loaded.map
    <3> HIDE DEF loaded, read
    <3> QED BY <2>1, <2>2 DEF RolledBack, WithUsers
  <2> QED BY <1>1, <2>2, <2>3, WorkersStored
<1> QED BY <1>3, <1>4

----------------------------------------------------------------------------
(* The invariant. *)

LEMMA InitIInv == Init => IInv
<1> SUFFICES ASSUME Init PROVE IInv
  OBVIOUS
<1>1. Typed
  BY DEF Init, Typed
<1>2. WorkersKnown
  BY DEF Init, WorkersKnown, Refused
<1>3. Armed /\ AcceptLostOnlyByFailure /\ WorkersCounted /\ NoneReturned
  BY DEF Init, Armed, AcceptLostOnlyByFailure, WorkersCounted, NoneReturned
<1> QED BY <1>1, <1>2, <1>3 DEF IInv

LEMMA TypedStep == IInv /\ [Next]_vars => Typed'
<1> SUFFICES ASSUME IInv, [Next]_vars PROVE Typed'
  OBVIOUS
<1> USE DEF IInv, Typed
<1>1. CASE Load
  BY <1>1 DEF Load, workers
<1>2. CASE Listen
  BY <1>2 DEF Listen, Ends, workers
<1>3. CASE StartWorkers
  <2>1. running' \in Nat
    BY <1>3 DEF StartWorkers, Readable, WorkersKnown
  <2>2. /\ phase' \in {"joining", "ended"} /\ connections' \in {0, connections}
        /\ UNCHANGED <<program, file, returned, killed>>
    BY <1>3 DEF StartWorkers, Ends
  <2> QED BY <2>1, <2>2
<1>4. CASE Join
  BY <1>4 DEF Join, Ends, workers
<1>5. CASE ConnectionStarts
  BY <1>5 DEF ConnectionStarts, Works, workers
<1>6. CASE ConnectionFailsToStart
  <2>1. Dies /\ UNCHANGED connections
    BY <1>6 DEF ConnectionFailsToStart
  <2> QED BY <2>1 DEF Dies
<1>7. CASE AcceptFailed
  BY <1>7 DEF AcceptFailed, Works, workers
<1>8. CASE ConnectionEnds
  BY <1>8 DEF ConnectionEnds, Works, workers
<1>9. CASE ConnectionThrows
  BY <1>9 DEF ConnectionThrows, Dies
<1>10. CASE Sampled
  BY <1>10 DEF Sampled, Works, workers
<1>11. CASE WorkerReturns
  BY <1>11 DEF WorkerReturns
<1>12. CASE AcceptCompletes
  BY <1>12 DEF AcceptCompletes, workers
<1>14. CASE ConnectionAborts
  BY <1>14 DEF ConnectionAborts, Ends
<1>13. CASE UNCHANGED vars
  BY <1>13 DEF vars
<1> QED
  BY <1>1, <1>2, <1>3, <1>4, <1>5, <1>6, <1>7, <1>8, <1>9, <1>10, <1>11, <1>12, <1>13, <1>14
  DEF Next, Main, Handler, Terminated

LEMMA WorkersKnownStep == IInv /\ [Next]_vars => WorkersKnown'
<1> SUFFICES ASSUME IInv, [Next]_vars PROVE WorkersKnown'
  OBVIOUS
<1>1. CASE Load
  <2>1. file \in ServerFiles \cup ClientFiles /\ config' \in {LoadServer(file), LoadClient(file)}
    BY <1>1 DEF Load, IInv, Typed
  <2> QED BY <2>1, LoadedWorkers DEF WorkersKnown
<1>2. CASE ~Load
  <2>1. config' = config
    BY <1>2 DEF Next, Main, Handler, Listen, StartWorkers, Join, ConnectionStarts,
      ConnectionFailsToStart, AcceptFailed, ConnectionEnds, ConnectionThrows, ConnectionAborts,
      Sampled, WorkerReturns, AcceptCompletes, Terminated, Works, Dies, vars
  <2> QED BY <2>1 DEF IInv, WorkersKnown
<1> QED BY <1>1, <1>2

LEMMA AcceptStep == IInv /\ [Next]_vars => Armed' /\ AcceptLostOnlyByFailure'
<1> SUFFICES ASSUME IInv, [Next]_vars PROVE Armed' /\ AcceptLostOnlyByFailure'
  OBVIOUS
<1> USE DEF IInv, Armed, AcceptLostOnlyByFailure
<1>1. CASE Load
  BY <1>1 DEF Load
<1>2. CASE Listen
  BY <1>2 DEF Listen, Ends
<1>3. CASE StartWorkers
  BY <1>3 DEF StartWorkers, Ends, Fine
<1>4. CASE Join
  BY <1>4 DEF Join, Ends
<1>5. CASE ConnectionStarts
  BY <1>5 DEF ConnectionStarts, Works
<1>6. CASE ConnectionFailsToStart
  BY <1>6 DEF ConnectionFailsToStart, Dies, ArmedBeforeStart, Fails, Typed
<1>7. CASE AcceptFailed
  BY <1>7 DEF AcceptFailed, Works, Fails
<1>8. CASE ConnectionEnds
  BY <1>8 DEF ConnectionEnds, Works, Fine
<1>9. CASE ConnectionThrows
  BY <1>9 DEF ConnectionThrows, Dies, Fails
<1>10. CASE Sampled
  BY <1>10 DEF Sampled, Works, Fine
<1>11. CASE WorkerReturns
  BY <1>11 DEF WorkerReturns
<1>12. CASE AcceptCompletes
  BY <1>12 DEF AcceptCompletes
<1>14. CASE ConnectionAborts
  BY <1>14 DEF ConnectionAborts, Ends
<1>13. CASE UNCHANGED vars
  BY <1>13 DEF vars
<1> QED
  BY <1>1, <1>2, <1>3, <1>4, <1>5, <1>6, <1>7, <1>8, <1>9, <1>10, <1>11, <1>12, <1>13, <1>14
  DEF Next, Main, Handler, Terminated

LEMMA WorkersStep == IInv /\ [Next]_vars => WorkersCounted' /\ NoneReturned'
<1> SUFFICES ASSUME IInv, [Next]_vars PROVE WorkersCounted' /\ NoneReturned'
  OBVIOUS
<1> USE DEF IInv, Typed, WorkersCounted, NoneReturned, HasWork
<1>1. CASE Load
  BY <1>1 DEF Load, workers
<1>2. CASE Listen
  BY <1>2 DEF Listen, Ends, workers
<1>3. CASE StartWorkers
  <2>1. /\ phase = "listening"
        /\ phase' = "joining" => running' = config.map["workers"].value
        /\ phase' # "joining" => phase' = "ended"
        /\ UNCHANGED <<returned, killed, config>>
    BY <1>3 DEF StartWorkers, Ends
  <2>2. returned = 0 /\ killed = 0
    BY <2>1
  <2> QED BY <2>1, <2>2, TypedStep
<1>4. CASE Join
  BY <1>4 DEF Join, Ends, workers
<1>5. CASE ConnectionStarts
  BY <1>5 DEF ConnectionStarts, Works, workers
<1>6. CASE ConnectionFailsToStart
  <2>1. accept = "ok" /\ Dies
    BY <1>6 DEF ConnectionFailsToStart
  <2> QED BY <2>1 DEF Dies
<1>7. CASE AcceptFailed
  BY <1>7 DEF AcceptFailed, Works, workers
<1>8. CASE ConnectionEnds
  BY <1>8 DEF ConnectionEnds, Works, workers
<1>9. CASE ConnectionThrows
  BY <1>9 DEF ConnectionThrows, Dies
<1>10. CASE Sampled
  BY <1>10 DEF Sampled, Works, workers
<1>11. CASE WorkerReturns
  BY <1>11 DEF WorkerReturns
<1>12. CASE AcceptCompletes
  BY <1>12 DEF AcceptCompletes, workers
<1>14. CASE ConnectionAborts
  BY <1>14 DEF ConnectionAborts, Ends
<1>13. CASE UNCHANGED vars
  BY <1>13 DEF vars
<1> QED
  BY <1>1, <1>2, <1>3, <1>4, <1>5, <1>6, <1>7, <1>8, <1>9, <1>10, <1>11, <1>12, <1>13, <1>14
  DEF Next, Main, Handler, Terminated

LEMMA StepIInv == IInv /\ [Next]_vars => IInv'
BY TypedStep, WorkersKnownStep, AcceptStep, WorkersStep DEF IInv

LEMMA Invariance == Spec => []IInv
BY InitIInv, StepIInv, PTL DEF Spec

----------------------------------------------------------------------------

\* AcceptLostOnlyByFailure holds of both programs, whatever they are configured to:
\* http_proxy_server::start_accept and http_proxy_client::start_accept.
THEOREM AcceptIsKept == Spec => []AcceptLostOnlyByFailure
<1>1. IInv => AcceptLostOnlyByFailure
  BY DEF IInv
<1> QED BY <1>1, Invariance, PTL

\* AbandonedOnlyByFailures holds: main() leaves its joins, with work outstanding,
\* only when as many workers were killed as get_workers() said (run()); what else ends
\* the process is an assertion that a handler of ahps fails.
THEOREM NothingAbandoned == Spec => AbandonedOnlyByFailures
<1>1. IInv /\ [Next]_vars =>
        [phase = "joining" /\ phase' = "ended" /\ HasWork =>
           \/ killed = config.map["workers"].value
           \/ program = "ahps" /\ "assertion" \in happened']_vars
  <2> SUFFICES ASSUME IInv, [Next]_vars, phase = "joining", phase' = "ended", HasWork
               PROVE  \/ killed = config.map["workers"].value
                      \/ program = "ahps" /\ "assertion" \in happened'
    OBVIOUS
  <2>1. Join \/ ConnectionAborts
    BY DEF Next, Main, Handler, Load, Listen, StartWorkers, ConnectionStarts,
      ConnectionFailsToStart, AcceptFailed, ConnectionEnds, ConnectionThrows, Sampled,
      WorkerReturns, AcceptCompletes, Terminated, Works, Dies, vars
  <2>2. CASE Join
    <3>1. running = 0 /\ returned = 0 /\ running + returned + killed = config.map["workers"].value
      BY <2>2 DEF Join, IInv, WorkersCounted, NoneReturned
    <3> QED BY <3>1 DEF IInv, Typed
  <2>3. CASE ConnectionAborts
    BY <2>3 DEF ConnectionAborts, WithFailingAssertion, Fails
  <2> QED BY <2>1, <2>2, <2>3
<1> QED BY <1>1, Invariance, PTL DEF Spec, AbandonedOnlyByFailures

-----------------------------------------------------------------------------
(* Numbers. *)

\* A set of naturals that is not empty has a least element.
LEMMA LeastOf ==
  ASSUME NEW T, T \subseteq Nat, T # {}
  PROVE  \E x \in T : \A y \in T : x <= y
<1>1. IsWellFoundedOn(OpToRel(<, Nat), Nat)
  BY NatLessThanWellFounded
<1>2. PICK x \in T : \A y \in T : ~ (<<y, x>> \in OpToRel(<, Nat))
  BY <1>1, WFMin
<1>3. \A y \in T : ~ (y < x)
  BY <1>2 DEF OpToRel
<1> QED BY <1>3

\* A set of naturals that has 0, and with each number the next, has them all.
LEMMA AllNaturals ==
  ASSUME NEW T, 0 \in T, \A k \in Nat : k \in T => k + 1 \in T
  PROVE  \A k \in Nat : k \in T
<1>1. IsWellFoundedOn(OpToRel(<, Nat), Nat)
  BY NatLessThanWellFounded
<1>2. SUFFICES ASSUME Nat \ T # {} PROVE FALSE
  OBVIOUS
<1>3. PICK k \in Nat \ T : \A j \in Nat \ T : ~ (<<j, k>> \in OpToRel(<, Nat))
  BY <1>1, <1>2, WFMin
<1>4. \A j \in Nat \ T : ~ (j < k)
  BY <1>3 DEF OpToRel
<1>5. k # 0 /\ k - 1 \in Nat /\ k - 1 \in T
  BY <1>4
<1>6. (k - 1) + 1 \in T
  BY <1>5
<1>7. (k - 1) + 1 = k /\ k \notin T
  OBVIOUS
<1> QED
  BY <1>6, <1>7

-----------------------------------------------------------------------------
(* Base64. *)

\* The characters of the code stand for six bits each, and '=' for none.
LEMMA Tables ==
  ASSUME NEW n \in 0 .. 63
  PROVE  /\ EncodeTable[n] \in Alphabet
         /\ EncodeTable[n] \in Nat /\ EncodeTable[n] # Pad
         /\ DecodeTable[EncodeTable[n]] = n
<1>1. EncodeTable[n] = CASE n < 26 -> n + 65
                         [] n \in 26 .. 51 -> n + 71
                         [] n \in 52 .. 61 -> n - 4
                         [] n = 62 -> 43
                         [] n = 63 -> 47
  BY DEF EncodeTable
<1> DEFINE decoded(c) == CASE c \in 65 .. 90 -> c - 65
                           [] c \in 97 .. 122 -> c - 71
                           [] c \in 48 .. 57 -> c + 4
                           [] c = 43 -> 62
                           [] c = 47 -> 63
<1>2. ASSUME NEW c \in Alphabet PROVE DecodeTable[c] = decoded(c)
  BY DEF DecodeTable
<1>3. CASE n < 26
  <2>1. EncodeTable[n] = n + 65
    BY <1>1, <1>3
  <2>2. n + 65 \in Alphabet /\ decoded(n + 65) = n
    BY <1>3 DEF Alphabet
  <2> HIDE DEF decoded
  <2> QED BY <1>2, <1>3, <2>1, <2>2 DEF Pad
<1>4. CASE n \in 26 .. 51
  <2>1. EncodeTable[n] = n + 71
    BY <1>1, <1>4
  <2>2. n + 71 \in Alphabet /\ decoded(n + 71) = n
    BY <1>4 DEF Alphabet
  <2> HIDE DEF decoded
  <2> QED BY <1>2, <1>4, <2>1, <2>2 DEF Pad
<1>5. CASE n \in 52 .. 61
  <2>1. EncodeTable[n] = n - 4
    BY <1>1, <1>5
  <2>2. n - 4 \in Alphabet /\ decoded(n - 4) = n
    BY <1>5 DEF Alphabet
  <2> HIDE DEF decoded
  <2> QED BY <1>2, <1>5, <2>1, <2>2 DEF Pad
<1>6. CASE n = 62
  <2>1. EncodeTable[n] = 43
    BY <1>1, <1>6
  <2>2. 43 \in Alphabet /\ decoded(43) = n
    BY <1>6 DEF Alphabet
  <2> HIDE DEF decoded
  <2> QED BY <1>2, <1>6, <2>1, <2>2 DEF Pad
<1>7. CASE n = 63
  <2>1. EncodeTable[n] = 47
    BY <1>1, <1>7
  <2>2. 47 \in Alphabet /\ decoded(47) = n
    BY <1>7 DEF Alphabet
  <2> HIDE DEF decoded
  <2> QED BY <1>2, <1>7, <2>1, <2>2 DEF Pad
<1> QED BY <1>3, <1>4, <1>5, <1>6, <1>7

\* A group of bytes, and the characters it becomes.
IsGroup(b) == b \in Seq(Byte) /\ Len(b) \in 1 .. 3

ByteOf(b, i) == IF Len(b) >= i THEN b[i] ELSE 0

Sextets(b) ==
  <<ByteOf(b, 1) \div 4, (ByteOf(b, 1) % 4) * 16 + ByteOf(b, 2) \div 16,
    (ByteOf(b, 2) % 16) * 4 + ByteOf(b, 3) \div 64, ByteOf(b, 3) % 64>>

\* The bytes of a group, and zero for those it does not have.
LEMMA BytesOf ==
  ASSUME NEW b, IsGroup(b)
  PROVE  /\ \A i \in 1 .. 3 : ByteOf(b, i) \in 0 .. 255
         /\ \A i \in 1 .. Len(b) : ByteOf(b, i) = b[i]
         /\ Len(b) \in 1 .. 3
<1>1. b \in Seq(Byte) /\ Len(b) \in 1 .. 3
  BY DEF IsGroup
<1>2. \A i \in 1 .. Len(b) : b[i] \in Byte
  BY <1>1
<1> QED BY <1>1, <1>2 DEF ByteOf, Byte

\* A sextet has six bits.
LEMMA SextetsType ==
  ASSUME NEW b, IsGroup(b)
  PROVE  \A i \in 1 .. 4 : Sextets(b)[i] \in 0 .. 63
<1>1. ByteOf(b, 1) \in 0 .. 255 /\ ByteOf(b, 2) \in 0 .. 255 /\ ByteOf(b, 3) \in 0 .. 255
  BY BytesOf
<1>2. /\ ByteOf(b, 1) \div 4 \in 0 .. 63
      /\ (ByteOf(b, 1) % 4) * 16 + ByteOf(b, 2) \div 16 \in 0 .. 63
      /\ (ByteOf(b, 2) % 16) * 4 + ByteOf(b, 3) \div 64 \in 0 .. 63
      /\ ByteOf(b, 3) % 64 \in 0 .. 63
  BY <1>1
<1> QED BY <1>2 DEF Sextets

\* A group becomes four characters: those of its sextets, and padding.
LEMMA EncodeGroupIs ==
  ASSUME NEW b, IsGroup(b)
  PROVE  /\ EncodeGroup(b) \in Seq(Nat) /\ Len(EncodeGroup(b)) = 4
         /\ \A i \in 1 .. 4 : EncodeGroup(b)[i] = IF i <= Len(b) + 1 THEN EncodeTable[Sextets(b)[i]]
                                                  ELSE Pad
<1> DEFINE s == Sextets(b)
           e == [i \in 1 .. 4 |-> IF i <= Len(b) + 1 THEN EncodeTable[s[i]] ELSE Pad]
           t == <<EncodeTable[s[1]], EncodeTable[s[2]], EncodeTable[s[3]], EncodeTable[s[4]]>>
<1>1. EncodeGroup(b) = [i \in 1 .. 4 |-> IF i <= Len(b) + 1 THEN t[i] ELSE Pad]
  <2>1. Len(b) \in 1 .. 3
    BY DEF IsGroup
  <2>2. /\ (IF Len(b) > 1 THEN b[2] ELSE 0) = ByteOf(b, 2)
        /\ (IF Len(b) > 2 THEN b[3] ELSE 0) = ByteOf(b, 3)
        /\ b[1] = ByteOf(b, 1)
    BY <2>1 DEF ByteOf
  <2> QED BY <2>2 DEF EncodeGroup, Sextets
<1>2. \A i \in 1 .. 4 : t[i] = EncodeTable[s[i]]
  OBVIOUS
<1>3. EncodeGroup(b) = e
  <2> HIDE DEF t, s
  <2> QED BY <1>1, <1>2
<1>4. \A i \in 1 .. 4 : e[i] \in Nat
  <2> SUFFICES ASSUME NEW i \in 1 .. 4 PROVE e[i] \in Nat
    OBVIOUS
  <2>1. s[i] \in 0 .. 63
    BY SextetsType
  <2> QED BY <2>1, Tables DEF Pad
<1> HIDE DEF s, t
<1>5. e \in Seq(Nat) /\ Len(e) = 4
  BY <1>4
<1> QED BY <1>3, <1>5 DEF s

\* Decoding undoes encoding, group by group.
LEMMA GroupRoundTrip ==
  ASSUME NEW b, IsGroup(b), NEW last \in BOOLEAN, Len(b) = 3 \/ last
  PROVE  GroupDecodes(EncodeGroup(b), last) /\ DecodeGroup(EncodeGroup(b)) = b
<1> DEFINE c == EncodeGroup(b)
           s == Sextets(b)
           d == [i \in 1 .. 4 |-> IF c[i] \in Alphabet THEN DecodeTable[c[i]] ELSE 0]
           bytes == <<d[1] * 4 + d[2] \div 16, (d[2] % 16) * 16 + d[3] \div 4,
                      (d[3] % 4) * 64 + d[4]>>
<1>1. \A i \in 1 .. 4 : s[i] \in 0 .. 63
  BY SextetsType
<1>2. /\ Len(c) = 4
      /\ \A i \in 1 .. 4 : c[i] = IF i <= Len(b) + 1 THEN EncodeTable[s[i]] ELSE Pad
  BY EncodeGroupIs
<1>3. Pad \notin Alphabet
  BY DEF Pad, Alphabet
<1>4. ASSUME NEW i \in 1 .. 4
      PROVE  /\ i <= Len(b) + 1 => c[i] \in Alphabet /\ c[i] # Pad /\ d[i] = s[i]
             /\ i > Len(b) + 1 => c[i] = Pad /\ d[i] = 0
  <2>1. s[i] \in 0 .. 63
    BY <1>1
  <2>2. /\ EncodeTable[s[i]] \in Alphabet /\ EncodeTable[s[i]] # Pad
        /\ DecodeTable[EncodeTable[s[i]]] = s[i]
    BY <2>1, Tables
  <2>3. Len(b) \in 1 .. 3
    BY DEF IsGroup
  <2> HIDE DEF c, s
  <2> QED BY <1>2, <1>3, <2>2, <2>3
<1>5. DecodeGroup(c) =
        SubSeq(bytes, 1, CASE c[3] = Pad -> 1 [] c[3] # Pad /\ c[4] = Pad -> 2 [] OTHER -> 3)
  BY DEF DecodeGroup
<1>6. Len(b) \in 1 .. 3 /\ \A i \in 1 .. Len(b) : b[i] \in 0 .. 255
  <2>1. b \in Seq(Byte) /\ Len(b) \in 1 .. 3
    BY DEF IsGroup
  <2>2. \A i \in 1 .. Len(b) : b[i] \in Byte
    BY <2>1
  <2> QED BY <2>1, <2>2 DEF Byte
<1>7. DecodeGroup(c) = SubSeq(bytes, 1, Len(b))
  <2> HIDE DEF bytes, c, d, s
  <2>1. CASE Len(b) = 1
    BY <2>1, <1>4, <1>5
  <2>2. CASE Len(b) = 2
    BY <2>2, <1>4, <1>5
  <2>3. CASE Len(b) = 3
    BY <2>3, <1>4, <1>5
  <2> QED BY <1>6, <2>1, <2>2, <2>3
<1>8. GroupDecodes(c, last)
  <2> HIDE DEF c, d, s
  <2>1. CASE Len(b) = 1
    BY <2>1, <1>2, <1>4 DEF GroupDecodes
  <2>2. CASE Len(b) = 2
    BY <2>2, <1>2, <1>4 DEF GroupDecodes
  <2>3. CASE Len(b) = 3
    BY <2>3, <1>2, <1>4 DEF GroupDecodes
  <2> QED BY <1>6, <2>1, <2>2, <2>3
<1>9. \A i \in 1 .. Len(b) : bytes[i] = b[i]
  <2> DEFINE b0 == ByteOf(b, 1)
             b1 == ByteOf(b, 2)
             b2 == ByteOf(b, 3)
  <2>1. b0 \in 0 .. 255 /\ b1 \in 0 .. 255 /\ b2 \in 0 .. 255
    BY BytesOf
  <2>2. /\ s[1] = b0 \div 4 /\ s[2] = (b0 % 4) * 16 + b1 \div 16
        /\ s[3] = (b1 % 16) * 4 + b2 \div 64 /\ s[4] = b2 % 64
    BY DEF Sextets
  <2> HIDE DEF c, s, d
  <2>4. bytes[1] = d[1] * 4 + d[2] \div 16 /\ bytes[2] = (d[2] % 16) * 16 + d[3] \div 4
        /\ bytes[3] = (d[3] % 4) * 64 + d[4]
    OBVIOUS
  <2> HIDE DEF b0, b1, b2, bytes
  <2>3. d[1] = s[1] /\ d[2] = s[2]
    <3>1. 1 \in 1 .. 4 /\ 2 \in 1 .. 4 /\ 1 <= Len(b) + 1 /\ 2 <= Len(b) + 1
      BY <1>6
    <3> QED BY <1>4, <3>1
  <2>5. bytes[1] = b0
    BY <2>1, <2>2, <2>3, <2>4
  <2>6. Len(b) >= 2 => bytes[2] = b1
    <3>1. SUFFICES ASSUME Len(b) >= 2 PROVE bytes[2] = b1
      OBVIOUS
    <3>2. d[3] = s[3]
      BY <1>4, <1>6, <3>1
    <3> QED BY <2>1, <2>2, <2>3, <2>4, <3>2
  <2>7. Len(b) = 3 => bytes[3] = b2
    <3>1. SUFFICES ASSUME Len(b) = 3 PROVE bytes[3] = b2
      OBVIOUS
    <3>2. d[3] = s[3] /\ d[4] = s[4]
      BY <1>4, <3>1
    <3> QED BY <2>1, <2>2, <2>4, <3>2
  <2>8. \A i \in 1 .. Len(b) : ByteOf(b, i) = b[i]
    BY BytesOf
  <2> QED BY <1>6, <2>5, <2>6, <2>7, <2>8 DEF b0, b1, b2
<1>10. SubSeq(bytes, 1, Len(b)) = b
  <2>1. b \in Seq(Byte)
    BY DEF IsGroup
  <2>2. Len(bytes) = 3 /\ SubSeq(bytes, 1, Len(b)) = [i \in 1 .. Len(b) |-> bytes[i]]
    <3> HIDE DEF d
    <3> QED BY <1>6
  <2>3. b = [i \in 1 .. Len(b) |-> b[i]]
    BY <2>1
  <2> HIDE DEF bytes
  <2> QED BY <1>9, <2>2, <2>3
<1> QED BY <1>7, <1>8, <1>10

\* A sequence of sequences is flattened from the left: f has what the first of them
\* make.
LEMMA FlattenSeqIs ==
  ASSUME NEW S, NEW seqs \in Seq(Seq(S)), Len(seqs) > 0
  PROVE  \E f : /\ FlattenSeq(seqs) = f[Len(seqs)]
                /\ f[1] = seqs[1]
                /\ \A i \in 2 .. Len(seqs) : f[i] = f[i - 1] \o seqs[i]
<1> DEFINE Flat(f, n) == f = [i \in 1 .. n |-> IF i = 1 THEN seqs[i] ELSE f[i - 1] \o seqs[i]]
           has == {n \in Nat : \E f : Flat(f, n)}
<1>1. Len(seqs) \in Nat
  OBVIOUS
<1>2. 0 \in has
  <2>1. Flat([i \in 1 .. 0 |-> <<>>], 0)
    OBVIOUS
  <2> QED BY <2>1
<1>3. ASSUME NEW n \in Nat, n \in has PROVE n + 1 \in has
  <2>1. PICK f : Flat(f, n)
    BY <1>3
  <2>2. PICK g : g = [i \in 1 .. n + 1 |-> IF i <= n THEN f[i]
                                           ELSE IF i = 1 THEN seqs[i] ELSE f[i - 1] \o seqs[i]]
    OBVIOUS
  <2>3. \A i \in 1 .. n : g[i] = f[i]
    BY <2>2
  <2>4. ASSUME NEW i \in 1 .. n + 1
        PROVE  g[i] = IF i = 1 THEN seqs[i] ELSE g[i - 1] \o seqs[i]
    <3>1. CASE i <= n
      <4>1. f[i] = IF i = 1 THEN seqs[i] ELSE f[i - 1] \o seqs[i]
        <5>1. \A j \in 1 .. n : f[j] = IF j = 1 THEN seqs[j] ELSE f[j - 1] \o seqs[j]
          BY <2>1
        <5> QED BY <3>1, <5>1
      <4>2. i # 1 => i - 1 \in 1 .. n
        BY <3>1
      <4> QED BY <2>3, <3>1, <4>1, <4>2
    <3>2. CASE i = n + 1
      <4>1. i # 1 => i - 1 \in 1 .. n
        BY <3>2
      <4> QED BY <2>2, <2>3, <3>2, <4>1
    <3> QED BY <3>1, <3>2
  <2>5. Flat(g, n + 1)
    BY <2>2, <2>4
  <2> HIDE DEF Flat
  <2> QED BY <2>5
<1>4. Len(seqs) \in has
  <2> HIDE DEF has
  <2> QED BY <1>1, <1>2, <1>3, AllNaturals
<1>5. PICK f : f = CHOOSE g : Flat(g, Len(seqs))
  OBVIOUS
<1>6. Flat(f, Len(seqs))
  BY <1>4, <1>5
<1>7. FlattenSeq(seqs) = f[Len(seqs)]
  BY <1>5 DEF FlattenSeq
<1>8. \A i \in 1 .. Len(seqs) : f[i] = IF i = 1 THEN seqs[i] ELSE f[i - 1] \o seqs[i]
  BY <1>6
<1>9. f[1] = seqs[1] /\ \A i \in 2 .. Len(seqs) : f[i] = f[i - 1] \o seqs[i]
  <2>1. 1 \in 1 .. Len(seqs) /\ \A i \in 2 .. Len(seqs) : i \in 1 .. Len(seqs) /\ i # 1
    BY <1>1
  <2>2. f[1] = seqs[1]
    BY <1>8, <2>1
  <2>3. ASSUME NEW i \in 2 .. Len(seqs) PROVE f[i] = f[i - 1] \o seqs[i]
    BY <1>8, <2>1
  <2> QED BY <2>2, <2>3
<1> QED BY <1>7, <1>9, Zenon

\* Where each of the sequences seqs begins in what they make together: off elements
\* come before it.
Begins(seqs, off) ==
  /\ off \in [1 .. Len(seqs) -> Nat]
  /\ off[1] = 0
  /\ \A i \in 2 .. Len(seqs) : off[i] = off[i - 1] + Len(seqs[i - 1])

\* What is joined has the elements of both, in order.
LEMMA Concatenated ==
  ASSUME NEW S, NEW s \in Seq(S), NEW t \in Seq(S), NEW r, r = s \o t, NEW n, n = Len(s)
  PROVE  /\ r \in Seq(S) /\ Len(r) = n + Len(t)
         /\ \A j \in 1 .. n : r[j] = s[j]
         /\ \A j \in 1 .. Len(t) : r[n + j] = t[j]
OBVIOUS

\* Every element of the sequences has its place in what they make together.
LEMMA FlattenSeqPlaces ==
  ASSUME NEW S, NEW seqs \in Seq(Seq(S)), Len(seqs) > 0, NEW off, Begins(seqs, off)
  PROVE  /\ FlattenSeq(seqs) \in Seq(S)
         /\ Len(FlattenSeq(seqs)) = off[Len(seqs)] + Len(seqs[Len(seqs)])
         /\ \A i \in 1 .. Len(seqs) : \A j \in 1 .. Len(seqs[i]) :
              FlattenSeq(seqs)[off[i] + j] = seqs[i][j]
<1>1. PICK f : /\ FlattenSeq(seqs) = f[Len(seqs)]
               /\ f[1] = seqs[1]
               /\ \A i \in 2 .. Len(seqs) : f[i] = f[i - 1] \o seqs[i]
  BY FlattenSeqIs
<1>2. Len(seqs) \in Nat /\ \A i \in 1 .. Len(seqs) : seqs[i] \in Seq(S) /\ Len(seqs[i]) \in Nat
  OBVIOUS
<1> DEFINE Placed(k) ==
             /\ f[k] \in Seq(S)
             /\ Len(f[k]) = off[k] + Len(seqs[k])
             /\ \A i \in 1 .. k : \A j \in 1 .. Len(seqs[i]) :
                  off[i] + j \in 1 .. Len(f[k]) /\ f[k][off[i] + j] = seqs[i][j]
           good == {k \in Nat : k < Len(seqs) => Placed(k + 1)}
<1>3. 0 \in good
  <2>1. Placed(1)
    <3>1. 1 \in 1 .. Len(seqs) /\ off[1] = 0 /\ f[1] = seqs[1]
      BY <1>1, <1>2 DEF Begins
    <3>2. seqs[1] \in Seq(S) /\ Len(seqs[1]) \in Nat
      BY <1>2, <3>1
    <3> QED BY <3>1, <3>2
  <2> HIDE DEF Placed
  <2> QED BY <2>1
<1>4. ASSUME NEW k \in Nat, k \in good PROVE k + 1 \in good
  <2>1. SUFFICES ASSUME k + 1 < Len(seqs) PROVE Placed(k + 2)
    <3> HIDE DEF Placed
    <3>1. (k + 1) + 1 = k + 2 /\ k + 1 \in Nat
      OBVIOUS
    <3> QED BY <3>1
  <2>2. Placed(k + 1)
    <3> HIDE DEF Placed
    <3> QED BY <1>2, <1>4, <2>1
  <2>3. /\ k + 1 \in 1 .. Len(seqs) /\ k + 2 \in 2 .. Len(seqs) /\ k + 2 \in 1 .. Len(seqs)
        /\ (k + 2) - 1 = k + 1
    BY <1>2, <2>1
  <2>4. f[k + 2] = f[k + 1] \o seqs[k + 2]
    BY <1>1, <2>3
  <2>5. off[k + 2] = off[k + 1] + Len(seqs[k + 1]) /\ \A i \in 1 .. Len(seqs) : off[i] \in Nat
    BY <2>3 DEF Begins
  <2>6. seqs[k + 2] \in Seq(S) /\ f[k + 1] \in Seq(S) /\ Len(f[k + 1]) = off[k + 2]
    BY <1>2, <2>2, <2>3, <2>5
  <2>7. /\ f[k + 2] \in Seq(S) /\ Len(f[k + 2]) = off[k + 2] + Len(seqs[k + 2])
        /\ \A j \in 1 .. Len(f[k + 1]) : f[k + 2][j] = f[k + 1][j]
        /\ \A j \in 1 .. Len(seqs[k + 2]) : f[k + 2][off[k + 2] + j] = seqs[k + 2][j]
    <3>1. PICK s \in Seq(S), t \in Seq(S) : s = f[k + 1] /\ t = seqs[k + 2]
      BY <2>6
    <3>2. PICK r, n : r = f[k + 2] /\ n = off[k + 2]
      OBVIOUS
    <3>3. r = s \o t /\ n = Len(s)
      BY <2>4, <2>6, <3>1, <3>2
    <3>4. /\ r \in Seq(S) /\ Len(r) = n + Len(t)
          /\ \A j \in 1 .. n : r[j] = s[j]
          /\ \A j \in 1 .. Len(t) : r[n + j] = t[j]
      BY <3>3, Concatenated
    <3> QED BY <3>1, <3>2, <3>3, <3>4
  <2> HIDE DEF Placed, good
  <2>8. ASSUME NEW i \in 1 .. k + 2, NEW j \in 1 .. Len(seqs[i])
        PROVE  off[i] + j \in 1 .. Len(f[k + 2]) /\ f[k + 2][off[i] + j] = seqs[i][j]
    <3>0. i \in 1 .. Len(seqs) /\ off[i] \in Nat /\ Len(seqs[i]) \in Nat /\ off[k + 2] \in Nat
          /\ Len(seqs[k + 2]) \in Nat
      BY <1>2, <2>1, <2>3, <2>5
    <3>1. CASE i = k + 2
      <4>1. j \in 1 .. Len(seqs[k + 2])
        BY <3>1
      <4>2. f[k + 2][off[k + 2] + j] = seqs[k + 2][j]
        BY <2>7, <4>1
      <4>3. off[k + 2] + j \in 1 .. Len(f[k + 2])
        <5>1. PICK o \in Nat, m \in Nat : o = off[k + 2] /\ m = Len(seqs[k + 2])
          BY <3>0
        <5>2. Len(f[k + 2]) = o + m /\ j \in 1 .. m
          BY <2>7, <4>1, <5>1
        <5> QED BY <5>1, <5>2
      <4> QED BY <3>1, <4>2, <4>3
    <3>2. CASE i \in 1 .. k + 1
      <4>1. off[i] + j \in 1 .. Len(f[k + 1]) /\ f[k + 1][off[i] + j] = seqs[i][j]
        BY <2>2, <3>2 DEF Placed
      <4>2. f[k + 2][off[i] + j] = seqs[i][j]
        BY <2>7, <4>1
      <4>3. Len(f[k + 1]) <= Len(f[k + 2])
        BY <2>6, <2>7, <3>0
      <4>4. Len(f[k + 1]) \in Nat /\ Len(f[k + 2]) \in Nat
        BY <2>6, <2>7, <3>0
      <4>5. off[i] + j \in 1 .. Len(f[k + 2])
        BY <4>1, <4>3, <4>4
      <4> QED BY <4>2, <4>5
    <3>3. i = k + 2 \/ i \in 1 .. k + 1
      OBVIOUS
    <3> QED BY <3>1, <3>2, <3>3
  <2> QED BY <2>6, <2>7, <2>8 DEF Placed
<1>5. Placed(Len(seqs))
  <2> HIDE DEF good
  <2>0. Len(seqs) - 1 \in Nat
    BY <1>2
  <2>1. Len(seqs) - 1 \in good
    BY <2>0, <1>3, <1>4, AllNaturals
  <2> HIDE DEF Placed
  <2>2. Len(seqs) - 1 < Len(seqs) /\ (Len(seqs) - 1) + 1 = Len(seqs)
    BY <1>2
  <2> QED BY <2>1, <2>2 DEF good
<1> QED BY <1>1, <1>5

\* The elements of the sequences are in these places of whole.
Placed(seqs, off, whole) ==
  /\ Len(whole) = off[Len(seqs)] + Len(seqs[Len(seqs)])
  /\ \A i \in 1 .. Len(seqs) : \A j \in 1 .. Len(seqs[i]) : whole[off[i] + j] = seqs[i][j]

\* Every element has its place in what FlattenSeq makes.
LEMMA FlattenSeqPlaced ==
  ASSUME NEW S, NEW seqs \in Seq(Seq(S)), Len(seqs) > 0, NEW off, Begins(seqs, off)
  PROVE  FlattenSeq(seqs) \in Seq(S) /\ Placed(seqs, off, FlattenSeq(seqs))
<1> HIDE DEF FlattenSeq
<1> QED BY FlattenSeqPlaces DEF Placed

\* Texts are cut into groups of three bytes, of which the last may be shorter.
LEMMA GroupsOfThree ==
  ASSUME NEW bytes \in Seq(Byte), bytes # <<>>
  PROVE  LET groups == Groups(bytes, 3)
             n == Len(groups)
         IN  /\ groups \in Seq(Seq(Byte)) /\ n \in Nat /\ n > 0
             /\ DOMAIN groups = 1 .. n
             /\ \A g \in 1 .. n : IsGroup(groups[g]) /\ (g < n => Len(groups[g]) = 3)
             /\ \A g \in 1 .. n : \A j \in 1 .. Len(groups[g]) :
                  groups[g][j] = bytes[3 * (g - 1) + j]
             /\ 3 * (n - 1) + Len(groups[n]) = Len(bytes)
<1> DEFINE groups == Groups(bytes, 3)
           l == Len(bytes)
           n == (l + 2) \div 3
           end(g) == IF 3 * g < l THEN 3 * g ELSE l
<1>1. l \in Nat /\ l > 0
  OBVIOUS
<1> HIDE DEF l
<1>2. n \in Nat /\ n > 0 /\ 3 * (n - 1) < l /\ l <= 3 * n
  BY <1>1
<1> HIDE DEF n
<1>3. groups = [g \in 1 .. n |-> SubSeq(bytes, 3 * (g - 1) + 1, end(g))]
  <2>1. l + 3 - 1 = l + 2
    BY <1>1
  <2> QED BY <2>1 DEF Groups, n, l
<1> HIDE DEF groups
<1>4. ASSUME NEW g \in 1 .. n
      PROVE  /\ groups[g] \in Seq(Byte)
             /\ Len(groups[g]) = end(g) - 3 * (g - 1)
             /\ \A j \in 1 .. Len(groups[g]) : groups[g][j] = bytes[3 * (g - 1) + j]
             /\ Len(groups[g]) \in 1 .. 3
             /\ g < n => Len(groups[g]) = 3
  <2>1. PICK a \in Nat, e \in Nat : a = 3 * (g - 1) /\ e = end(g)
    BY <1>1, <1>2
  <2>2. a + 1 <= e /\ e <= l /\ e - a \in 1 .. 3 /\ (g < n => e - a = 3)
    BY <1>1, <1>2, <2>1
  <2>3. groups[g] = SubSeq(bytes, a + 1, e)
    BY <1>3, <2>1
  <2> HIDE DEF end
  <2>4. /\ SubSeq(bytes, a + 1, e) \in Seq(Byte)
        /\ Len(SubSeq(bytes, a + 1, e)) = e - a
        /\ \A j \in 1 .. e - a : SubSeq(bytes, a + 1, e)[j] = bytes[a + j]
    BY <1>1, <2>2 DEF l
  <2> QED BY <2>1, <2>2, <2>3, <2>4
<1>5. groups \in Seq(Seq(Byte)) /\ Len(groups) = n /\ DOMAIN groups = 1 .. n
  <2>1. groups \in [1 .. n -> Seq(Byte)]
    BY <1>3, <1>4
  <2> QED BY <1>2, <2>1
<1>6. 3 * (n - 1) + Len(groups[n]) = l
  <2>1. n \in 1 .. n /\ end(n) = l
    BY <1>1, <1>2
  <2>2. Len(groups[n]) = end(n) - 3 * (n - 1)
    BY <1>4, <2>1
  <2> HIDE DEF end
  <2> QED BY <1>1, <1>2, <2>1, <2>2
<1> QED BY <1>2, <1>4, <1>5, <1>6 DEF groups, l, IsGroup

\* Decoding undoes encoding, and whatever was encoded can be decoded.
THEOREM RoundTrip ==
  ASSUME NEW bytes \in Seq(Byte), bytes # <<>>
  PROVE  Encode(bytes) # <<>> /\ Decodes(Encode(bytes)) /\ Decode(Encode(bytes)) = bytes
<1> DEFINE groups == Groups(bytes, 3)
           n == Len(groups)
           quads == [g \in 1 .. n |-> EncodeGroup(groups[g])]
           chars == Encode(bytes)
           back == Groups(chars, 4)
<1>1. /\ groups \in Seq(Seq(Byte)) /\ n \in Nat /\ n > 0
      /\ DOMAIN groups = 1 .. n
      /\ \A g \in 1 .. n : IsGroup(groups[g]) /\ (g < n => Len(groups[g]) = 3)
      /\ \A g \in 1 .. n : \A j \in 1 .. Len(groups[g]) :
           groups[g][j] = bytes[3 * (g - 1) + j]
      /\ 3 * (n - 1) + Len(groups[n]) = Len(bytes)
  BY GroupsOfThree
<1>2. chars = FlattenSeq(quads)
  BY <1>1 DEF Encode
<1> HIDE DEF groups, n, chars
<1>3. ASSUME NEW g \in 1 .. n PROVE quads[g] \in Seq(Nat) /\ Len(quads[g]) = 4
  <2>1. IsGroup(groups[g])
    BY <1>1
  <2> QED BY <2>1, EncodeGroupIs
<1>4. quads \in [1 .. n -> Seq(Nat)] /\ quads \in Seq(Seq(Nat)) /\ Len(quads) = n
  <2>1. quads \in [1 .. n -> Seq(Nat)]
    BY <1>3
  <2> HIDE DEF quads
  <2> QED BY <1>1, <2>1
<1>5. /\ chars \in Seq(Nat) /\ Len(chars) = 4 * n
      /\ \A g \in 1 .. n : \A j \in 1 .. 4 : chars[4 * (g - 1) + j] = quads[g][j]
  <2> DEFINE off == [g \in 1 .. n |-> 4 * (g - 1)]
  <2> HIDE DEF quads
  <2>1. /\ off \in [1 .. n -> Nat] /\ off[1] = 0
        /\ \A i \in 2 .. n : off[i] = off[i - 1] + Len(quads[i - 1])
    <3>1. off \in [1 .. n -> Nat] /\ off[1] = 0
      BY <1>1
    <3>2. ASSUME NEW i \in 2 .. n PROVE off[i] = off[i - 1] + Len(quads[i - 1])
      <4>1. i - 1 \in 1 .. n /\ i \in 1 .. n
        BY <1>1
      <4>2. Len(quads[i - 1]) = 4
        BY <1>3, <4>1
      <4> QED BY <4>1, <4>2
    <3> HIDE DEF off
    <3> QED BY <3>1, <3>2
  <2>9. FlattenSeq(quads) \in Seq(Nat) /\ Placed(quads, off, FlattenSeq(quads))
    <3> HIDE DEF off
    <3>1. Begins(quads, off)
      BY <1>4, <2>1 DEF Begins
    <3> QED BY <1>1, <1>4, <3>1, FlattenSeqPlaced
  <2>2. /\ FlattenSeq(quads) \in Seq(Nat)
        /\ Len(FlattenSeq(quads)) = off[n] + Len(quads[n])
        /\ \A i \in 1 .. n : \A j \in 1 .. Len(quads[i]) :
             FlattenSeq(quads)[off[i] + j] = quads[i][j]
    BY <1>4, <2>9 DEF Placed
  <2>3. \A i \in 1 .. n : off[i] = 4 * (i - 1) /\ Len(quads[i]) = 4
    BY <1>3
  <2> HIDE DEF off
  <2>4. off[n] = 4 * (n - 1) /\ Len(quads[n]) = 4
    BY <1>1, <2>3
  <2>5. Len(chars) = 4 * (n - 1) + 4
    BY <1>2, <2>2, <2>4
  <2>6. 4 * (n - 1) + 4 = 4 * n
    BY <1>1
  <2>7. ASSUME NEW g \in 1 .. n, NEW j \in 1 .. 4 PROVE chars[4 * (g - 1) + j] = quads[g][j]
    <3>1. off[g] = 4 * (g - 1) /\ j \in 1 .. Len(quads[g])
      BY <2>3
    <3>2. chars[off[g] + j] = quads[g][j]
      BY <1>2, <2>2, <3>1
    <3> QED BY <3>1, <3>2
  <2> QED BY <1>2, <2>2, <2>5, <2>6, <2>7
<1>6. back = quads
  <2>1. back = [g \in 1 .. n |-> SubSeq(chars, 4 * (g - 1) + 1,
                                         IF 4 * g < Len(chars) THEN 4 * g ELSE Len(chars))]
    <3>1. (Len(chars) + 4 - 1) \div 4 = n
      <4>1. PICK m : m = Len(chars) /\ m = 4 * n
        BY <1>5
      <4>2. (m + 4 - 1) \div 4 = n
        BY <1>1, <4>1
      <4> QED BY <4>1, <4>2
    <3> QED BY <3>1 DEF Groups
  <2> HIDE DEF quads
  <2>2. ASSUME NEW g \in 1 .. n PROVE back[g] = quads[g]
    <3>1. PICK a \in Nat : a = 4 * (g - 1) /\ a + 4 = 4 * g /\ a + 4 <= Len(chars)
      <4>1. 4 * (g - 1) \in Nat /\ 4 * (g - 1) + 4 = 4 * g /\ 4 * (g - 1) + 4 <= 4 * n
        BY <1>1
      <4> QED BY <1>5, <4>1
    <3>2. back[g] = SubSeq(chars, a + 1, a + 4)
      <4>1. (IF 4 * g < Len(chars) THEN 4 * g ELSE Len(chars)) = a + 4
        BY <1>1, <1>5, <3>1
      <4> HIDE DEF back
      <4> QED BY <2>1, <3>1, <4>1
    <3>3. \A j \in 1 .. 4 : chars[a + j] = quads[g][j]
      BY <1>5, <3>1
    <3>4. quads[g] = [j \in 1 .. 4 |-> quads[g][j]]
      <4>1. quads[g] \in Seq(Nat) /\ Len(quads[g]) = 4
        BY <1>3
      <4>2. quads[g] \in [1 .. 4 -> Nat]
        <5>1. quads[g] \in [1 .. Len(quads[g]) -> Nat]
          BY <4>1, LenProperties
        <5> QED BY <4>1, <5>1
      <4> QED BY <4>2
    <3>5. SubSeq(chars, a + 1, a + 4) = [j \in 1 .. 4 |-> chars[a + j]]
      <4>1. /\ SubSeq(chars, a + 1, a + 4) \in Seq(Nat)
            /\ Len(SubSeq(chars, a + 1, a + 4)) = 4
            /\ \A j \in 1 .. 4 : SubSeq(chars, a + 1, a + 4)[j] = chars[a + j]
        BY <1>5, <3>1
      <4> QED BY <4>1
    <3> QED BY <3>2, <3>3, <3>4, <3>5
  <2>3. quads = [g \in 1 .. n |-> quads[g]]
    BY DEF quads
  <2> HIDE DEF back
  <2>4. back = [g \in 1 .. n |-> back[g]]
    BY <2>1
  <2> QED BY <2>2, <2>3, <2>4
<1>7. Decodes(chars)
  <2>1. ASSUME NEW g \in 1 .. n PROVE GroupDecodes(quads[g], g = n)
    <3>1. IsGroup(groups[g]) /\ (Len(groups[g]) = 3 \/ g = n)
      <4>1. g < n \/ g = n
        BY <1>1
      <4>2. IsGroup(groups[g]) /\ (g < n => Len(groups[g]) = 3)
        BY <1>1
      <4> QED BY <4>1, <4>2
    <3>2. PICK last \in BOOLEAN : last = (g = n)
      OBVIOUS
    <3> QED BY <3>1, <3>2, GroupRoundTrip
  <2>2. DOMAIN quads = 1 .. n
    OBVIOUS
  <2> HIDE DEF back, quads
  <2> QED BY <1>4, <1>6, <2>1, <2>2 DEF Decodes, back
<1>8. Decode(chars) = FlattenSeq(groups)
  <2>1. ASSUME NEW g \in 1 .. n PROVE DecodeGroup(quads[g]) = groups[g]
    <3>1. IsGroup(groups[g]) /\ (Len(groups[g]) = 3 \/ g = n)
      <4>1. g < n \/ g = n
        BY <1>1
      <4>2. IsGroup(groups[g]) /\ (g < n => Len(groups[g]) = 3)
        BY <1>1
      <4> QED BY <4>1, <4>2
    <3>2. PICK last \in BOOLEAN : last = (g = n)
      OBVIOUS
    <3> QED BY <3>1, <3>2, GroupRoundTrip
  <2>2. DOMAIN quads = 1 .. n
    OBVIOUS
  <2> HIDE DEF quads
  <2>3. Decode(chars) = FlattenSeq([g \in 1 .. n |-> DecodeGroup(quads[g])])
    BY <1>6, <2>2 DEF Decode, back
  <2>4. [g \in 1 .. n |-> DecodeGroup(quads[g])] = groups
    <3>1. groups = [g \in 1 .. n |-> groups[g]]
      BY <1>1
    <3> QED BY <2>1, <3>1
  <2> QED BY <2>3, <2>4
<1>9. FlattenSeq(groups) = bytes
  <2> DEFINE off == [g \in 1 .. n |-> 3 * (g - 1)]
  <2>1. /\ off \in [1 .. n -> Nat] /\ off[1] = 0
        /\ \A i \in 2 .. n : off[i] = off[i - 1] + Len(groups[i - 1])
    <3>1. off \in [1 .. n -> Nat] /\ off[1] = 0
      BY <1>1
    <3>2. ASSUME NEW i \in 2 .. n PROVE off[i] = off[i - 1] + Len(groups[i - 1])
      <4>1. i - 1 \in 1 .. n /\ i - 1 < n /\ i \in 1 .. n
        BY <1>1
      <4>2. Len(groups[i - 1]) = 3
        BY <1>1, <4>1
      <4> QED BY <4>1, <4>2
    <3> HIDE DEF off
    <3> QED BY <3>1, <3>2
  <2>2. \A i \in 1 .. n : off[i] = 3 * (i - 1)
    OBVIOUS
  <2> HIDE DEF off
  <2>6. FlattenSeq(groups) \in Seq(Byte) /\ Placed(groups, off, FlattenSeq(groups))
    <3>1. groups \in [1 .. n -> Seq(Byte)]
      BY <1>1 DEF n
    <3>2. Begins(groups, off)
      BY <2>1 DEF Begins, n
    <3>3. groups \in Seq(Seq(Byte)) /\ Len(groups) > 0
      BY <1>1 DEF n
    <3> QED BY <3>2, <3>3, FlattenSeqPlaced
  <2>3. /\ FlattenSeq(groups) \in Seq(Byte)
        /\ Len(FlattenSeq(groups)) = off[n] + Len(groups[n])
        /\ \A i \in 1 .. n : \A j \in 1 .. Len(groups[i]) :
             FlattenSeq(groups)[off[i] + j] = groups[i][j]
    BY <2>6 DEF Placed, n
  <2>4. Len(FlattenSeq(groups)) = Len(bytes)
    <3>1. n \in 1 .. n
      BY <1>1
    <3> QED BY <1>1, <2>2, <2>3, <3>1
  <2>5. ASSUME NEW k \in 1 .. Len(bytes) PROVE FlattenSeq(groups)[k] = bytes[k]
    <3>1. PICK g \in 1 .. n, j \in 1 .. 3 : k = 3 * (g - 1) + j /\ j <= Len(groups[g])
      <4> DEFINE h == (k - 1) \div 3 + 1
                 i == ((k - 1) % 3) + 1
      <4>1. k = 3 * (h - 1) + i /\ i \in 1 .. 3 /\ h \in Nat /\ h >= 1
        OBVIOUS
      <4> HIDE DEF h, i
      <4>2. Len(groups[n]) \in 1 .. 3
        BY <1>1 DEF IsGroup
      <4>3. h \in 1 .. n
        <5>1. PICK m \in 1 .. 3 : m = Len(groups[n])
          BY <4>2
        <5>2. k <= 3 * (n - 1) + m
          <6>1. Len(bytes) = 3 * (n - 1) + m
            BY <1>1, <5>1
          <6> QED BY <6>1
        <5>3. n \in Nat
          BY <1>1
        <5> QED BY <4>1, <5>2, <5>3
      <4>4. CASE h < n
        <5>1. Len(groups[h]) = 3
          BY <1>1, <4>3, <4>4
        <5>2. i <= Len(groups[h])
          BY <4>1, <5>1
        <5> QED BY <4>1, <4>3, <5>2
      <4>5. CASE h = n
        <5>1. PICK m \in 1 .. 3 : m = Len(groups[n])
          BY <4>2
        <5>4. Len(bytes) = 3 * (n - 1) + m
          BY <1>1, <5>1
        <5>2. i <= m
          BY <1>1, <4>1, <4>5, <5>4
        <5> QED BY <4>1, <4>3, <4>5, <5>1, <5>2
      <4> QED BY <1>1, <4>3, <4>4, <4>5
    <3>2. j \in 1 .. Len(groups[g])
      <4>1. Len(groups[g]) \in 1 .. 3
        BY <1>1 DEF IsGroup
      <4> QED BY <3>1, <4>1
    <3>3. FlattenSeq(groups)[off[g] + j] = groups[g][j] /\ groups[g][j] = bytes[3 * (g - 1) + j]
      BY <1>1, <2>3, <3>2
    <3> QED BY <2>2, <3>1, <3>3
  <2> QED BY <2>3, <2>4, <2>5
<1>10. chars # <<>>
  BY <1>1, <1>5
<1> QED BY <1>7, <1>8, <1>9, <1>10 DEF chars

\* Nothing is encoded as nothing.
LEMMA EncodeNothing == Encode(<<>>) = <<>>
<1> DEFINE groups == Groups(<<>>, 3)
           quads == [g \in DOMAIN groups |-> EncodeGroup(groups[g])]
<1>1. (Len(<<>>) + 3 - 1) \div 3 = 0
  OBVIOUS
<1>2. DOMAIN groups = 1 .. 0
  BY <1>1 DEF Groups
<1>3. quads = <<>>
  <2> HIDE DEF groups
  <2> QED BY <1>2
<1>4. FlattenSeq(quads) = quads
  <2> HIDE DEF quads
  <2> QED BY <1>3 DEF FlattenSeq
<1> QED BY <1>3, <1>4 DEF Encode

-----------------------------------------------------------------------------
(* Authentication. *)

\* What a client sends: a name without a colon, a colon, a password.
IsCredentials(text, name, password) ==
  ~Contains(name, Colon) /\ text = name \o <<Colon>> \o password

\* The same place by place: the colon is the one at k.
ColonAt(text, k, name, password) ==
  /\ text \in Seq(Byte) /\ k = Len(name) + 1 /\ Len(text) = k + Len(password)
  /\ \A i \in 1 .. Len(name) : text[i] = name[i]
  /\ text[k] = Colon
  /\ \A i \in 1 .. Len(password) : text[k + i] = password[i]

\* The colon behind the name is the first of the text.
LEMMA CredentialsPlaces ==
  ASSUME NEW name \in Seq(Byte), NEW password \in Seq(Byte), NEW text,
         IsCredentials(text, name, password)
  PROVE  ColonAt(text, Len(name) + 1, name, password)
<1>1. PICK colon \in Byte : colon = Colon
  BY DEF Byte, Colon
<1>2. <<colon>> \in Seq(Byte)
  OBVIOUS
<1>3. PICK front \in Seq(Byte) : front = name \o <<colon>>
  BY <1>2, ConcatProperties
<1>4. text = front \o password
  BY <1>1, <1>3 DEF IsCredentials
<1>5. PICK n \in Nat, m \in Nat : n = Len(name) /\ m = n + 1
  OBVIOUS
<1>6. /\ front \in Seq(Byte) /\ Len(front) = m
      /\ \A i \in 1 .. n : front[i] = name[i]
      /\ front[m] = colon
  <2>1. PICK one \in Seq(Byte) : one = <<colon>>
    BY <1>2
  <2>3. Len(one) = 1 /\ one[1] = colon
    BY <2>1
  <2>2. /\ front \in Seq(Byte) /\ Len(front) = n + Len(one)
        /\ \A i \in 1 .. n : front[i] = name[i]
        /\ \A i \in 1 .. Len(one) : front[n + i] = one[i]
    BY <1>3, <1>5, <2>1, Concatenated
  <2> QED BY <1>5, <2>2, <2>3
<1>7. /\ text \in Seq(Byte) /\ Len(text) = m + Len(password)
      /\ \A i \in 1 .. m : text[i] = front[i]
      /\ \A i \in 1 .. Len(password) : text[m + i] = password[i]
  <2>1. m = Len(front)
    BY <1>6
  <2> QED BY <1>4, <2>1, Concatenated
<1>8. ColonAt(text, m, name, password)
  <2>1. m \in 1 .. m /\ \A i \in 1 .. n : i \in 1 .. m
    BY <1>5
  <2> QED BY <1>1, <1>5, <1>6, <1>7, <2>1 DEF ColonAt
<1> QED BY <1>5, <1>8

\* The first colon of a text.
LEMMA FirstColon ==
  ASSUME NEW text \in Seq(Byte), NEW k \in 1 .. Len(text), text[k] = Colon,
         \A j \in 1 .. k - 1 : text[j] # Colon
  PROVE  Split(text) = [name |-> SubSeq(text, 1, k - 1), password |-> SubSeq(text, k + 1, Len(text))]
<1> DEFINE IsFirst(i) == text[i] = Colon /\ \A j \in DOMAIN text : text[j] = Colon => i <= j
           c == CHOOSE i \in DOMAIN text : IsFirst(i)
<1>1. DOMAIN text = 1 .. Len(text) /\ Len(text) \in Nat
  OBVIOUS
<1>2. k \in DOMAIN text /\ IsFirst(k)
  <2>1. ASSUME NEW j \in 1 .. Len(text), text[j] = Colon PROVE k <= j
    <3>1. SUFFICES ASSUME ~(k <= j) PROVE FALSE
      OBVIOUS
    <3>2. j \in 1 .. k - 1
      BY <3>1
    <3> QED BY <2>1, <3>2
  <2> QED BY <1>1, <2>1
<1>3. c \in DOMAIN text /\ IsFirst(c)
  <2> HIDE DEF IsFirst
  <2> QED BY <1>2
<1>4. c = k
  <2>1. c <= k /\ k <= c
    BY <1>2, <1>3
  <2>2. c \in Nat
    BY <1>1, <1>3
  <2> HIDE DEF c
  <2> QED BY <2>1, <2>2
<1> QED BY <1>4 DEF Split

\* Of credentials, Split finds the name and the password.
LEMMA SplitsCredentials ==
  ASSUME NEW name \in Seq(Byte), NEW password \in Seq(Byte), NEW text,
         IsCredentials(text, name, password)
  PROVE  /\ text \in Seq(Byte) /\ text # <<>> /\ Contains(text, Colon)
         /\ Split(text) = [name |-> name, password |-> password]
<1> DEFINE k == Len(name) + 1
<1>0. ColonAt(text, k, name, password)
  BY CredentialsPlaces
<1> HIDE DEF k
<1>1. /\ text \in Seq(Byte) /\ k = Len(name) + 1 /\ Len(text) = k + Len(password)
      /\ \A i \in 1 .. Len(name) : text[i] = name[i]
      /\ text[k] = Colon
      /\ \A i \in 1 .. Len(password) : text[k + i] = password[i]
  BY <1>0 DEF ColonAt
<1>2. Len(name) \in Nat /\ Len(password) \in Nat
  OBVIOUS
<1>3. k \in 1 .. Len(text)
  BY <1>1, <1>2
<1>4. ASSUME NEW j \in 1 .. k - 1 PROVE text[j] # Colon
  <2>1. j \in 1 .. Len(name)
    BY <1>1, <1>2
  <2> QED BY <1>1, <2>1 DEF IsCredentials, Contains
<1>5. Split(text) = [name |-> SubSeq(text, 1, k - 1), password |-> SubSeq(text, k + 1, Len(text))]
  <2> HIDE DEF k
  <2> QED BY <1>1, <1>3, <1>4, FirstColon
<1>6. SubSeq(text, 1, k - 1) = name
  <2>1. k - 1 = Len(name) /\ Len(name) <= Len(text)
    BY <1>1, <1>2
  <2>2. /\ SubSeq(text, 1, Len(name)) \in Seq(Byte)
        /\ Len(SubSeq(text, 1, Len(name))) = Len(name)
        /\ \A i \in 1 .. Len(name) : SubSeq(text, 1, Len(name))[i] = text[i]
    BY <1>1, <1>2, <2>1
  <2> QED BY <1>1, <2>1, <2>2
<1>7. SubSeq(text, k + 1, Len(text)) = password
  <2>1. PICK n \in Nat, m \in Nat : n = k /\ m = Len(password) /\ Len(text) = n + m
    BY <1>1, <1>2
  <2>2. /\ SubSeq(text, n + 1, n + m) \in Seq(Byte)
        /\ Len(SubSeq(text, n + 1, n + m)) = m
        /\ \A i \in 1 .. m : SubSeq(text, n + 1, n + m)[i] = text[n + i]
    BY <1>1, <2>1
  <2>3. Len(text) = n + m /\ k + 1 = n + 1 /\ \A i \in 1 .. m : text[n + i] = password[i]
    BY <1>1, <2>1
  <2>4. SubSeq(text, n + 1, n + m) = password
    BY <2>1, <2>2, <2>3, SeqEqual
  <2> QED BY <2>3, <2>4
<1>8. text # <<>> /\ Contains(text, Colon)
  BY <1>1, <1>3 DEF Contains
<1> QED BY <1>1, <1>5, <1>6, <1>7, <1>8

\* Whatever has a colon is split into credentials.
LEMMA SplitIsCredentials ==
  ASSUME NEW text \in Seq(Byte), Contains(text, Colon)
  PROVE  IsCredentials(text, Split(text).name, Split(text).password)
<1> DEFINE colons == {i \in 1 .. Len(text) : text[i] = Colon}
<1>1. PICK k \in colons : \A j \in colons : k <= j
  <2>1. colons \subseteq Nat /\ colons # {}
    BY DEF Contains
  <2> HIDE DEF colons
  <2> QED BY <2>1, LeastOf
<1>2. k \in 1 .. Len(text) /\ text[k] = Colon /\ Len(text) \in Nat
  OBVIOUS
<1>3. ASSUME NEW j \in 1 .. k - 1 PROVE text[j] # Colon
  <2>1. j \in 1 .. Len(text) /\ ~(k <= j)
    BY <1>2
  <2> QED BY <1>1, <2>1
<1>4. Split(text) = [name |-> SubSeq(text, 1, k - 1), password |-> SubSeq(text, k + 1, Len(text))]
  BY <1>2, <1>3, FirstColon
<1>5. PICK name \in Seq(Byte), password \in Seq(Byte) :
        name = SubSeq(text, 1, k - 1) /\ password = SubSeq(text, k + 1, Len(text))
  <2>1. SubSeq(text, 1, k - 1) \in Seq(Byte)
    BY <1>2
  <2>2. SubSeq(text, k + 1, Len(text)) \in Seq(Byte)
    BY <1>2
  <2> QED BY <2>1, <2>2
<1>6. /\ Len(name) = k - 1 /\ \A i \in 1 .. k - 1 : name[i] = text[i]
      /\ Len(password) = Len(text) - k
      /\ \A i \in 1 .. Len(text) - k : password[i] = text[k + i]
  BY <1>2, <1>5
<1>7. ~Contains(name, Colon)
  BY <1>3, <1>6 DEF Contains
<1>8. PICK whole : IsCredentials(whole, name, password)
  BY <1>7 DEF IsCredentials
<1>9. /\ whole \in Seq(Byte) /\ k = Len(name) + 1 /\ Len(whole) = k + Len(password)
      /\ \A i \in 1 .. Len(name) : whole[i] = name[i]
      /\ whole[k] = Colon
      /\ \A i \in 1 .. Len(password) : whole[k + i] = password[i]
  <2>1. k = Len(name) + 1
    BY <1>2, <1>6
  <2>2. ColonAt(whole, k, name, password)
    BY <1>8, <2>1, CredentialsPlaces
  <2> QED BY <2>2 DEF ColonAt
<1>10. whole = text
  <2>1. Len(whole) = Len(text)
    <3>1. Len(whole) = k + Len(password) /\ Len(password) = Len(text) - k
      BY <1>6, <1>9, Zenon
    <3> QED BY <1>2, <3>1
  <2>2. ASSUME NEW i \in 1 .. Len(text) PROVE whole[i] = text[i]
    <3>1. CASE i < k
      <4>1. i \in 1 .. Len(name) /\ i \in 1 .. k - 1
        BY <1>2, <1>6, <3>1
      <4> QED BY <1>6, <1>9, <4>1
    <3>2. CASE i = k
      BY <1>2, <1>6, <1>9, <3>2
    <3>3. CASE i > k
      <4>1. i - k \in 1 .. Len(text) - k /\ k + (i - k) = i /\ Len(name) + 1 = k
        BY <1>2, <1>6, <3>3
      <4>2. whole[k + (i - k)] = password[i - k] /\ password[i - k] = text[k + (i - k)]
        BY <1>6, <1>9, <4>1
      <4> QED BY <4>1, <4>2
    <3> QED BY <1>2, <3>1, <3>2, <3>3
  <2> QED BY <1>9, <2>1, <2>2, SeqEqual
<1>11. Split(text).name = name /\ Split(text).password = password
  BY <1>4, <1>5
<1> QED BY <1>7, <1>8, <1>10, <1>11 DEF IsCredentials

\* auth lets in exactly who sends the name of a user, and that user's password.
THEOREM AuthLetsIn ==
  ASSUME NEW users, \A name \in DOMAIN users : name \in Seq(Byte) /\ users[name] \in Seq(Byte),
         NEW text \in Seq(Byte)
  PROVE  Auth(users, [scheme |-> "Basic ", chars |-> Encode(text)]) = "ok" <=>
           \E name \in DOMAIN users : IsCredentials(text, name, users[name])
<1> DEFINE value == [scheme |-> "Basic ", chars |-> Encode(text)]
<1>1. CASE text = <<>>
  <2>1. Auth(users, value) = "error"
    BY <1>1, EncodeNothing DEF Auth
  <2>2. ASSUME NEW name \in DOMAIN users, IsCredentials(text, name, users[name]) PROVE FALSE
    BY <1>1, <2>2, SplitsCredentials
  <2> QED BY <2>1, <2>2
<1>2. CASE text # <<>>
  <2>1. Encode(text) # <<>> /\ Decodes(Encode(text)) /\ Decode(Encode(text)) = text
    BY <1>2, RoundTrip
  <2>2. Auth(users, value) = AuthBasic(users, Encode(text))
    BY <2>1 DEF Auth
  <2>3. CASE ~Contains(text, Colon)
    <3>1. Auth(users, value) = "error"
      BY <2>1, <2>2, <2>3 DEF AuthBasic
    <3>2. ASSUME NEW name \in DOMAIN users, IsCredentials(text, name, users[name]) PROVE FALSE
      BY <2>3, <3>2, SplitsCredentials
    <3> QED BY <3>1, <3>2
  <2>4. CASE Contains(text, Colon)
    <3> DEFINE given == Split(text)
    <3>1. Auth(users, value) =
            IF given.name \in DOMAIN users /\ users[given.name] = given.password THEN "ok"
            ELSE "incorrect"
      BY <2>1, <2>2, <2>4 DEF AuthBasic
    <3>2. IsCredentials(text, given.name, given.password)
      BY <2>4, SplitIsCredentials
    <3>3. ASSUME NEW name \in DOMAIN users, IsCredentials(text, name, users[name])
          PROVE  given.name = name /\ given.password = users[name]
      <4>1. given = [name |-> name, password |-> users[name]]
        BY <3>3, SplitsCredentials
      <4> QED BY <4>1
    <3>4. Auth(users, value) = "ok" <=> given.name \in DOMAIN users /\ users[given.name] = given.password
      BY <3>1
    <3> HIDE DEF given, value
    <3>5. Auth(users, value) = "ok" <=> \E name \in DOMAIN users : IsCredentials(text, name, users[name])
      BY <3>2, <3>3, <3>4
    <3> QED BY <3>5 DEF value
  <2> QED BY <2>3, <2>4
<1> QED BY <1>1, <1>2

-----------------------------------------------------------------------------
(* The users of a configuration. *)

\* A set of numbers up to n that is not empty has a greatest element.
LEMMA GreatestOf ==
  ASSUME NEW n \in Nat, NEW s \in SUBSET (1 .. n), s # {}
  PROVE  Max(s) \in s /\ \A i \in s : i <= Max(s)
<1> DEFINE T == {n - i : i \in s}
<1>0. ASSUME NEW i \in s PROVE i \in Nat /\ n - i \in Nat
  <2>1. i \in 1 .. n
    OBVIOUS
  <2> QED BY <2>1
<1>1. PICK k \in T : \A j \in T : k <= j
  <2>1. T \subseteq Nat /\ T # {}
    BY <1>0
  <2> HIDE DEF T
  <2> QED BY <2>1, LeastOf
<1>2. PICK m \in s : k = n - m
  BY <1>1
<1>3. \A i \in s : m >= i
  <2> SUFFICES ASSUME NEW i \in s PROVE m >= i
    OBVIOUS
  <2>1. k <= n - i
    BY <1>1
  <2>2. i \in Nat /\ m \in Nat
    BY <1>0
  <2> QED BY <1>2, <2>1, <2>2
<1>4. Max(s) \in s /\ \A i \in s : Max(s) >= i
  BY <1>2, <1>3 DEF Max
<1> HIDE DEF T
<1>5. PICK top \in s : top = Max(s)
  BY <1>4
<1>6. \A i \in s : i <= top
  BY <1>0, <1>4, <1>5
<1> QED BY <1>5, <1>6

\* What is left of s without its greatest element.
Rest(s) == s \ {Max(s)}

\* What StoreUser makes of the elements of list whose places are in s.
ReadOn(domain, list, read) ==
  read = [s \in domain |->
            IF s = {} THEN [outcome |-> "true", users |-> <<>>]
            ELSE StoreUser(read[Rest(s)], list[Max(s)])]

\* There is such a function.
LEMMA ReadExists ==
  ASSUME NEW list, NEW n \in Nat
  PROVE  \E read : ReadOn(SUBSET (1 .. n), list, read)
<1> DEFINE none == [outcome |-> "true", users |-> <<>>]
           has == {k \in Nat : \E read : ReadOn(SUBSET (1 .. k), list, read)}
<1>1. 0 \in has
  <2>1. PICK read : read = [s \in SUBSET (1 .. 0) |-> none]
    OBVIOUS
  <2>2. \A s \in SUBSET (1 .. 0) : s = {}
    OBVIOUS
  <2>3. ReadOn(SUBSET (1 .. 0), list, read)
    BY <2>1, <2>2 DEF ReadOn
  <2> QED BY <2>3
<1>2. ASSUME NEW k \in Nat, k \in has PROVE k + 1 \in has
  <2>1. PICK read : ReadOn(SUBSET (1 .. k), list, read)
    BY <1>2
  <2>2. \A s \in SUBSET (1 .. k) :
          read[s] = IF s = {} THEN none ELSE StoreUser(read[Rest(s)], list[Max(s)])
    BY <2>1 DEF ReadOn
  <2>3. PICK more : more = [s \in SUBSET (1 .. k + 1) |->
                              IF s = {} THEN none
                              ELSE StoreUser(read[Rest(s)], list[Max(s)])]
    OBVIOUS
  <2>4. \A s \in SUBSET (1 .. k) : s \in SUBSET (1 .. k + 1) /\ more[s] = read[s]
    <3> SUFFICES ASSUME NEW s \in SUBSET (1 .. k)
                 PROVE  s \in SUBSET (1 .. k + 1) /\ more[s] = read[s]
      OBVIOUS
    <3>1. s \in SUBSET (1 .. k + 1)
      OBVIOUS
    <3> QED BY <2>2, <2>3, <3>1
  <2>5. ASSUME NEW s \in SUBSET (1 .. k + 1)
        PROVE  more[s] = IF s = {} THEN none ELSE StoreUser(more[Rest(s)], list[Max(s)])
    <3>1. s # {} => Rest(s) \in SUBSET (1 .. k)
      <4> SUFFICES ASSUME s # {} PROVE Rest(s) \in SUBSET (1 .. k)
        OBVIOUS
      <4>1. Max(s) \in s /\ \A i \in s : i <= Max(s)
        <5>1. k + 1 \in Nat /\ s # {}
          OBVIOUS
        <5> HIDE DEF has
        <5> QED BY <5>1, GreatestOf
      <4>2. ASSUME NEW i \in s, i # Max(s) PROVE i \in 1 .. k
        <5>1. i \in 1 .. k + 1 /\ Max(s) \in 1 .. k + 1 /\ i <= Max(s)
          BY <4>1
        <5> QED BY <4>2, <5>1
      <4> QED BY <4>2 DEF Rest
    <3> QED BY <2>3, <2>4, <3>1
  <2>6. ReadOn(SUBSET (1 .. k + 1), list, more)
    BY <2>3, <2>5 DEF ReadOn
  <2> QED BY <2>6
<1>3. n \in has
  <2> HIDE DEF has
  <2> QED BY <1>1, <1>2, AllNaturals
<1> QED BY <1>3

\* FoldLeft of StoreUser is the value of such a function.
LEMMA ReadOfList ==
  ASSUME NEW S, NEW list \in Seq(S)
  PROVE  \E read : /\ ReadOn(SUBSET (1 .. Len(list)), list, read)
                   /\ FoldLeft(StoreUser, [outcome |-> "true", users |-> <<>>], list) =
                        read[1 .. Len(list)]
<1>1. DOMAIN list = 1 .. Len(list) /\ Len(list) \in Nat
  OBVIOUS
<1>2. PICK read : read = CHOOSE r : ReadOn(SUBSET (1 .. Len(list)), list, r)
  OBVIOUS
<1>3. ReadOn(SUBSET (1 .. Len(list)), list, read)
  BY <1>1, <1>2, ReadExists
<1>4. FoldLeft(StoreUser, [outcome |-> "true", users |-> <<>>], list) =
        (CHOOSE r : ReadOn(SUBSET (DOMAIN list), list, r))[DOMAIN list]
  BY DEF FoldLeft, MapThenFoldSet, ReadOn, Rest
<1> QED BY <1>1, <1>2, <1>3, <1>4

\* The elements of list are stored one after the other.
LEMMA ReadOneByOne ==
  ASSUME NEW n \in Nat, NEW list, NEW read, ReadOn(SUBSET (1 .. n), list, read)
  PROVE  /\ read[1 .. 0] = [outcome |-> "true", users |-> <<>>]
         /\ \A k \in 0 .. n - 1 : read[1 .. k + 1] = StoreUser(read[1 .. k], list[k + 1])
<1>1. \A s \in SUBSET (1 .. n) :
        read[s] = IF s = {} THEN [outcome |-> "true", users |-> <<>>]
                  ELSE StoreUser(read[Rest(s)], list[Max(s)])
  BY DEF ReadOn
<1>2. 1 .. 0 = {} /\ 1 .. 0 \in SUBSET (1 .. n)
  OBVIOUS
<1>3. ASSUME NEW k \in 0 .. n - 1
      PROVE  read[1 .. k + 1] = StoreUser(read[1 .. k], list[k + 1])
  <2>1. PICK s : s = 1 .. k + 1
    OBVIOUS
  <2>2. s \in SUBSET (1 .. n) /\ s # {} /\ k + 1 \in Nat
    BY <2>1
  <2>3. Max(s) \in s /\ \A i \in s : i <= Max(s)
    <3>1. s \in SUBSET (1 .. k + 1)
      BY <2>1
    <3> QED BY <2>2, <3>1, GreatestOf
  <2>4. Max(s) = k + 1
    <3>1. PICK m \in 1 .. k + 1 : m = Max(s)
      BY <2>1, <2>3
    <3>2. k + 1 \in s
      BY <2>1
    <3>3. k + 1 <= m
      BY <2>3, <3>1, <3>2
    <3> QED BY <3>1, <3>3
  <2>5. Rest(s) = 1 .. k
    <3>1. (1 .. k + 1) \ {k + 1} = 1 .. k
      OBVIOUS
    <3> QED BY <2>1, <2>4, <3>1 DEF Rest
  <2> QED BY <1>1, <2>1, <2>2, <2>4, <2>5
<1> QED BY <1>1, <1>2, <1>3

\* An entry of "users" as the file may have it.
UserEntry ==
  LET maybe == {s \in Seq(Seq(Byte)) : Len(s) <= 1}
  IN  [username : maybe, password : maybe]

NameOf(list, i) == list[i].username[1]
PasswordOf(list, i) == list[i].password[1]

\* What is read of the first k entries.
UsersRead(list, k, read) ==
  /\ read = [outcome |-> read.outcome, users |-> read.users]
  /\ read.outcome = "true" =>
       /\ \A i \in 1 .. k : list[i].username # <<>> /\ list[i].password # <<>>
       /\ \A i \in 1 .. k : NameOf(list, i) \in DOMAIN read.users
       /\ \A name \in DOMAIN read.users : \E i \in 1 .. k :
            /\ NameOf(list, i) = name /\ PasswordOf(list, i) = read.users[name]
            /\ \A j \in 1 .. k : NameOf(list, j) = name => j <= i

\* StoreUser goes on from what was read of the entries before.
LEMMA StoreUserStep ==
  ASSUME NEW list, NEW k \in Nat, NEW read, UsersRead(list, k, read)
  PROVE  UsersRead(list, k + 1, StoreUser(read, list[k + 1]))
<1> DEFINE user == list[k + 1]
           next == StoreUser(read, user)
<1>1. CASE read.outcome # "true"
  BY <1>1 DEF StoreUser, UsersRead
<1>2. CASE read.outcome = "true" /\ (user.username = <<>> \/ user.password = <<>>)
  <2>1. next.outcome # "true" /\ next = [outcome |-> next.outcome, users |-> next.users]
    BY <1>2 DEF StoreUser, UsersRead
  <2> HIDE DEF next
  <2>2. UsersRead(list, k + 1, next)
    BY <2>1 DEF UsersRead
  <2> QED BY <2>2 DEF next
<1>3. CASE read.outcome = "true" /\ user.username # <<>> /\ user.password # <<>>
  <2> DEFINE new == NameOf(list, k + 1)
             users == AddUser(read.users, new, PasswordOf(list, k + 1))
  <2>1. next = [outcome |-> "true", users |-> users]
    BY <1>3 DEF StoreUser, UsersRead, NameOf, PasswordOf
  <2>2. DOMAIN users = DOMAIN read.users \cup {new}
        /\ \A name \in DOMAIN users : users[name] = IF name = new THEN PasswordOf(list, k + 1)
                                                    ELSE read.users[name]
    BY DEF AddUser
  <2> HIDE DEF users, new
  <2>3. /\ \A i \in 1 .. k : list[i].username # <<>> /\ list[i].password # <<>>
        /\ \A i \in 1 .. k : NameOf(list, i) \in DOMAIN read.users
        /\ \A name \in DOMAIN read.users : \E i \in 1 .. k :
             /\ NameOf(list, i) = name /\ PasswordOf(list, i) = read.users[name]
             /\ \A j \in 1 .. k : NameOf(list, j) = name => j <= i
    BY <1>3 DEF UsersRead
  <2>4. ASSUME NEW i \in 1 .. k + 1
        PROVE  /\ list[i].username # <<>> /\ list[i].password # <<>>
               /\ NameOf(list, i) \in DOMAIN users
    <3>1. i \in 1 .. k \/ i = k + 1
      OBVIOUS
    <3> QED BY <1>3, <2>2, <2>3, <3>1 DEF new
  <2>5. ASSUME NEW name \in DOMAIN users
        PROVE  \E i \in 1 .. k + 1 :
                 /\ NameOf(list, i) = name /\ PasswordOf(list, i) = users[name]
                 /\ \A j \in 1 .. k + 1 : NameOf(list, j) = name => j <= i
    <3>1. CASE name = new
      <4>1. k + 1 \in 1 .. k + 1 /\ \A j \in 1 .. k + 1 : j <= k + 1
        OBVIOUS
      <4>2. NameOf(list, k + 1) = name /\ PasswordOf(list, k + 1) = users[name]
        BY <2>2, <3>1 DEF new
      <4> QED BY <4>1, <4>2
    <3>2. CASE name # new
      <4>1. name \in DOMAIN read.users /\ users[name] = read.users[name]
        BY <2>2, <3>2
      <4>2. PICK i \in 1 .. k :
              /\ NameOf(list, i) = name /\ PasswordOf(list, i) = read.users[name]
              /\ \A j \in 1 .. k : NameOf(list, j) = name => j <= i
        BY <2>3, <4>1
      <4>3. ASSUME NEW j \in 1 .. k + 1, NameOf(list, j) = name PROVE j <= i
        <5>1. j # k + 1
          BY <3>2, <4>3 DEF new
        <5>2. j \in 1 .. k
          BY <5>1
        <5> QED BY <4>2, <4>3, <5>2
      <4>4. i \in 1 .. k + 1
        OBVIOUS
      <4> QED BY <4>1, <4>2, <4>3, <4>4
    <3> QED BY <3>1, <3>2
  <2>6. next.outcome = "true" /\ next.users = users
    BY <2>1
  <2>7. UsersRead(list, k + 1, next)
    <3> HIDE DEF next
    <3> QED BY <2>1, <2>4, <2>5, <2>6 DEF UsersRead
  <2> QED BY <2>7
<1> QED BY <1>1, <1>2, <1>3

\* UsersRead holds of all entries when the fold is done.
LEMMA ListRead ==
  ASSUME NEW list \in Seq(UserEntry)
  PROVE  UsersRead(list, Len(list), FoldLeft(StoreUser, [outcome |-> "true", users |-> <<>>], list))
<1>1. PICK n \in Nat : n = Len(list)
  OBVIOUS
<1>2. PICK read : /\ ReadOn(SUBSET (1 .. n), list, read)
                  /\ FoldLeft(StoreUser, [outcome |-> "true", users |-> <<>>], list) = read[1 .. n]
  BY <1>1, ReadOfList
<1>3. /\ read[1 .. 0] = [outcome |-> "true", users |-> <<>>]
      /\ \A k \in 0 .. n - 1 : read[1 .. k + 1] = StoreUser(read[1 .. k], list[k + 1])
  BY <1>2, ReadOneByOne
<1> DEFINE good == {k \in Nat : k <= n => UsersRead(list, k, read[1 .. k])}
<1>4. 0 \in good
  BY <1>3 DEF UsersRead
<1>5. ASSUME NEW k \in Nat, k \in good PROVE k + 1 \in good
  <2>1. SUFFICES ASSUME k + 1 <= n PROVE UsersRead(list, k + 1, read[1 .. k + 1])
    OBVIOUS
  <2>2. k \in 0 .. n - 1 /\ UsersRead(list, k, read[1 .. k])
    BY <1>5, <2>1
  <2> QED BY <1>3, <2>2, StoreUserStep
<1>6. n \in good
  <2> HIDE DEF good
  <2> QED BY <1>4, <1>5, AllNaturals
<1> QED BY <1>1, <1>2, <1>6

\* What load_config leaves of the file f.
LEMMA LoadedUsers ==
  ASSUME NEW f \in ServerFiles, NEW c, c = LoadServer(f)
  PROVE  /\ c.outcome = "false" => c.users = <<>>
         /\ c.outcome = "true" =>
              \/ f.auth = <<>> /\ c.users = <<>>
              \/ /\ f.auth # <<>> /\ f.users # <<>> /\ f.users[1] \in Seq(UserEntry)
                 /\ UsersRead(f.users[1], Len(f.users[1]), [outcome |-> "true", users |-> c.users])
<1> DEFINE l == Loaded(ServerSettings(f))
           u == UsersOf(f)
           w == WithUsers(l, u)
<1>1. l = Refused \/ l = [outcome |-> "true", map |-> l.map, users |-> <<>>]
  BY DEF Loaded
<1>2. Refused.outcome = "false" /\ Refused.users = <<>>
  BY DEF Refused
<1>3. CASE ~f.parses \/ l = Refused
  <2>1. c = Refused
    BY <1>3 DEF LoadServer
  <2> QED BY <1>2, <2>1
<1>4. CASE f.parses /\ l # Refused
  <2>1. c = RolledBack(w)
    BY <1>4 DEF LoadServer
  <2>2. w.outcome = u.outcome /\ w.users = u.users
    <3>1. PICK m : l = [outcome |-> "true", map |-> m, users |-> <<>>]
      BY <1>1, <1>4
    <3> HIDE DEF l, u
    <3> QED BY <3>1 DEF WithUsers
  <2> HIDE DEF w, l
  <2>3. CASE u.outcome = "false"
    <3>1. c = Refused
      BY <2>1, <2>2, <2>3 DEF RolledBack
    <3> QED BY <1>2, <3>1
  <2>4. CASE u.outcome # "false"
    <3>1. c.outcome = u.outcome /\ c.users = u.users
      BY <2>1, <2>2, <2>4 DEF RolledBack
    <3>2. CASE f.auth = <<>>
      BY <2>4, <3>1, <3>2 DEF UsersOf
    <3>3. CASE f.auth # <<>>
      <4>1. f.users # <<>>
        BY <2>4, <3>3 DEF UsersOf
      <4>2. f.users[1] \in Seq(UserEntry)
        BY <4>1, CredentialsAssumption DEF UserEntry
      <4>3. u = FoldLeft(StoreUser, [outcome |-> "true", users |-> <<>>], f.users[1])
        BY <3>3, <4>1 DEF UsersOf
      <4>4. UsersRead(f.users[1], Len(f.users[1]), u)
        BY <4>2, <4>3, ListRead
      <4> HIDE DEF u
      <4>5. u = [outcome |-> u.outcome, users |-> u.users]
        BY <4>4 DEF UsersRead
      <4>6. ASSUME c.outcome = "true" PROVE u = [outcome |-> "true", users |-> c.users]
        BY <3>1, <4>5, <4>6
      <4>7. c.outcome # "false"
        BY <2>4, <3>1
      <4> QED BY <3>3, <4>1, <4>2, <4>4, <4>6, <4>7
    <3> QED BY <3>2, <3>3
  <2> QED BY <2>3, <2>4
<1> QED BY <1>3, <1>4

\* A sequence of at most one element that is not empty has that one.
LEMMA TheOnlyOne ==
  ASSUME NEW T, NEW s \in Seq(T), Len(s) <= 1, s # <<>>
  PROVE  s[1] \in T /\ s = <<s[1]>>
<1>1. Len(s) \in Nat \ {0}
  BY EmptySeq
<1>2. Len(s) = 1
  <2>1. PICK n \in Nat \ {0} : n = Len(s) /\ n <= 1
    BY <1>1
  <2> QED BY <2>1
<1>3. PICK x \in T : x = s[1]
  BY <1>2
<1>4. <<x>> \in Seq(T) /\ Len(<<x>>) = 1 /\ <<x>>[1] = x
  OBVIOUS
<1>5. s = <<x>>
  BY <1>2, <1>3, <1>4, SeqEqual
<1> QED BY <1>3, <1>5

\* The table of users has the users of the file, each with the password that
\* ConfiguredPassword finds there.
LEMMA TableOfUsers ==
  ASSUME NEW list \in Seq(UserEntry), file.users[1] = list, NEW users,
         UsersRead(list, Len(list), [outcome |-> "true", users |-> users])
  PROVE  /\ DOMAIN users = {NameOf(list, i) : i \in DOMAIN list}
         /\ \A name \in DOMAIN users :
              /\ name \in Seq(Byte) /\ users[name] \in Seq(Byte)
              /\ ConfiguredPassword(name) = users[name]
<1> DEFINE read == [outcome |-> "true", users |-> users]
<1>1. DOMAIN list = 1 .. Len(list) /\ Len(list) \in Nat
  OBVIOUS
<1>2. /\ \A i \in 1 .. Len(list) : list[i].username # <<>> /\ list[i].password # <<>>
      /\ \A i \in 1 .. Len(list) : NameOf(list, i) \in DOMAIN users
      /\ \A name \in DOMAIN users : \E i \in 1 .. Len(list) :
           /\ NameOf(list, i) = name /\ PasswordOf(list, i) = users[name]
           /\ \A j \in 1 .. Len(list) : NameOf(list, j) = name => j <= i
  BY DEF UsersRead
<1>3. ASSUME NEW i \in 1 .. Len(list)
      PROVE  /\ NameOf(list, i) \in Seq(Byte) /\ PasswordOf(list, i) \in Seq(Byte)
             /\ list[i].username = <<NameOf(list, i)>>
  <2>1. list[i] \in UserEntry
    OBVIOUS
  <2>2. /\ list[i].username \in Seq(Seq(Byte)) /\ Len(list[i].username) <= 1
        /\ list[i].password \in Seq(Seq(Byte)) /\ Len(list[i].password) <= 1
    BY <2>1 DEF UserEntry
  <2> QED BY <1>2, <2>2, TheOnlyOne DEF NameOf, PasswordOf
<1>4. ASSUME NEW name \in DOMAIN users
      PROVE  /\ name \in Seq(Byte) /\ users[name] \in Seq(Byte)
             /\ ConfiguredPassword(name) = users[name]
  <2>1. PICK i \in 1 .. Len(list) :
          /\ NameOf(list, i) = name /\ PasswordOf(list, i) = users[name]
          /\ \A j \in 1 .. Len(list) : NameOf(list, j) = name => j <= i
    BY <1>2
  <2> DEFINE named == {j \in DOMAIN list : list[j].username = <<name>>}
             last == CHOOSE j \in named : \A m \in named : m <= j
  <2>2. \A j \in 1 .. Len(list) : list[j].username = <<name>> <=> NameOf(list, j) = name
    <3> SUFFICES ASSUME NEW j \in 1 .. Len(list)
                 PROVE  list[j].username = <<name>> <=> NameOf(list, j) = name
      OBVIOUS
    <3>1. list[j].username = <<NameOf(list, j)>>
      BY <1>3
    <3> QED BY <3>1
  <2>3. i \in named /\ \A m \in named : m <= i
    BY <1>1, <2>1, <2>2
  <2>4. last \in named /\ \A m \in named : m <= last
    <3> HIDE DEF named
    <3> QED BY <2>3
  <2>5. last = i
    <3>1. last <= i /\ i <= last
      BY <2>3, <2>4
    <3>2. last \in Nat
      BY <1>1, <2>4
    <3> HIDE DEF last
    <3> QED BY <3>1, <3>2
  <2>6. ConfiguredPassword(name) = list[last].password[1]
    BY DEF ConfiguredPassword
  <2> HIDE DEF last
  <2> QED BY <1>3, <2>1, <2>5, <2>6 DEF PasswordOf
<1>5. DOMAIN users = {NameOf(list, i) : i \in DOMAIN list}
  <2>1. ASSUME NEW name \in DOMAIN users PROVE \E i \in DOMAIN list : name = NameOf(list, i)
    BY <1>1, <1>2
  <2>2. \A i \in DOMAIN list : NameOf(list, i) \in DOMAIN users
    BY <1>1, <1>2
  <2> QED BY <2>1, <2>2
<1> QED BY <1>4, <1>5

\* load_config ran, and its outcome decides where main() goes.
Configured ==
  /\ file \in IF program = "ahps" THEN ServerFiles ELSE ClientFiles
  /\ program = "ahps" /\ phase # "starting" => config = LoadServer(file)
  /\ phase = "loaded" => config.outcome = "true"

\* main() goes where load_config tells it to.
LEMMA ConfiguredHolds == Spec => []Configured
<1>1. Init => Configured
  BY DEF Init, Configured
<1>2. Configured /\ [Next]_vars => Configured'
  <2> SUFFICES ASSUME Configured, [Next]_vars PROVE Configured'
    OBVIOUS
  <2>1. CASE Load
    BY <2>1 DEF Load, Configured
  <2>2. CASE /\ UNCHANGED <<program, file, config>> /\ phase' # "loaded" /\ phase # "starting"
    BY <2>2 DEF Configured
  <2>3. CASE UNCHANGED <<program, file, config, phase>>
    BY <2>3 DEF Configured
  <2>4. CASE Listen \/ StartWorkers \/ Join \/ ConnectionAborts
    <3>1. UNCHANGED <<program, file, config>> /\ phase' # "loaded" /\ phase # "starting"
      BY <2>4 DEF Listen, StartWorkers, Join, ConnectionAborts, Ends, workers
    <3> QED BY <2>2, <3>1
  <2>5. CASE (Handler /\ ~ConnectionAborts) \/ WorkerReturns \/ AcceptCompletes \/ Terminated \/ UNCHANGED vars
    <3>1. UNCHANGED <<program, file, config, phase>>
      BY <2>5 DEF Handler, ConnectionStarts, ConnectionFailsToStart, AcceptFailed, ConnectionEnds,
        ConnectionThrows, Sampled, WorkerReturns, AcceptCompletes, Terminated, Works, Dies, vars
    <3> QED BY <2>3, <3>1
  <2> QED BY <2>1, <2>4, <2>5 DEF Next, Main
<1> QED BY <1>1, <1>2, PTL DEF Spec

\* What was configured is what is granted.
LEMMA ConfiguredGrants == Configured => GrantedAsConfigured
<1> SUFFICES ASSUME Configured, program = "ahps",
                    phase = "loaded" \/ (phase = "ended" /\ config.outcome = "false"),
                    NEW text \in Texts
             PROVE  Auth(config.users, [scheme |-> "Basic ", chars |-> Encode(text)]) = "ok" <=>
                      /\ config.outcome = "true"
                      /\ file.auth # <<>>
                      /\ \E i \in DOMAIN file.users[1] :
                           LET name == file.users[1][i].username[1]
                           IN  /\ ~Contains(name, Colon)
                               /\ text = name \o <<Colon>> \o ConfiguredPassword(name)
  BY DEF GrantedAsConfigured
<1> DEFINE granted == Auth(config.users, [scheme |-> "Basic ", chars |-> Encode(text)]) = "ok"
           list == file.users[1]
           right(i) == IsCredentials(text, NameOf(list, i), ConfiguredPassword(NameOf(list, i)))
<1>1. file \in ServerFiles /\ config = LoadServer(file) /\ text \in Seq(Byte)
  BY CredentialsAssumption DEF Configured
<1>2. /\ config.outcome = "false" => config.users = <<>>
      /\ config.outcome = "true" =>
           \/ file.auth = <<>> /\ config.users = <<>>
           \/ /\ file.auth # <<>> /\ file.users # <<>> /\ list \in Seq(UserEntry)
              /\ UsersRead(list, Len(list), [outcome |-> "true", users |-> config.users])
  BY <1>1, LoadedUsers
<1>3. config.outcome = "true" \/ config.outcome = "false"
  BY DEF Configured
<1>4. ASSUME config.users = <<>> PROVE ~granted
  <2>1. DOMAIN config.users = {}
    BY <1>4
  <2> QED BY <1>1, <2>1, AuthLetsIn
<1>5. CASE config.outcome = "false" \/ file.auth = <<>>
  <2>1. config.users = <<>>
    BY <1>2, <1>3, <1>5
  <2>2. ~granted
    BY <1>4, <2>1
  <2>3. ~(config.outcome = "true" /\ file.auth # <<>>)
    BY <1>5
  <2> HIDE DEF granted
  <2>4. ~granted <=> ~(Auth(config.users, [scheme |-> "Basic ", chars |-> Encode(text)]) = "ok")
    BY DEF granted
  <2> QED BY <2>2, <2>3, <2>4
<1>6. CASE config.outcome = "true" /\ file.auth # <<>>
  <2>1. /\ list \in Seq(UserEntry)
        /\ UsersRead(list, Len(list), [outcome |-> "true", users |-> config.users])
    BY <1>2, <1>6
  <2>2. /\ DOMAIN config.users = {NameOf(list, i) : i \in DOMAIN list}
        /\ \A name \in DOMAIN config.users :
             /\ name \in Seq(Byte) /\ config.users[name] \in Seq(Byte)
             /\ ConfiguredPassword(name) = config.users[name]
    BY <2>1, TableOfUsers
  <2>3. granted <=> \E name \in DOMAIN config.users : IsCredentials(text, name, config.users[name])
    BY <1>1, <2>2, AuthLetsIn
  <2>4. granted <=> \E i \in DOMAIN list : right(i)
    <3> HIDE DEF granted, list
    <3> QED BY <2>2, <2>3
  <2>5. granted <=> \E i \in DOMAIN file.users[1] :
                      LET name == file.users[1][i].username[1]
                      IN  /\ ~Contains(name, Colon)
                          /\ text = name \o <<Colon>> \o ConfiguredPassword(name)
    <3> HIDE DEF granted
    <3> QED BY <2>4 DEF IsCredentials, NameOf
  <2> QED BY <1>6, <2>5
<1> QED BY <1>3, <1>5, <1>6

\* GrantedAsConfigured holds whatever the users of the file are called and whatever
\* clients send: what is encoded is decoded again, byte for byte (base64.cpp), the name
\* ends at the first colon (auth_basic), and the table of users has the last password
\* of each name (add_user), or nobody after a refusal (auto_rollback).
THEOREM GrantedAsConfiguredHolds == Spec => []GrantedAsConfigured
BY ConfiguredHolds, ConfiguredGrants, PTL
=============================================================================
