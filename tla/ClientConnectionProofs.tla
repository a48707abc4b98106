------------------------ MODULE ClientConnectionProofs ------------------------
(***************************************************************************)
(* Proofs about the relay of ahpc, for every buffer size, every bound on   *)
(* the data and every set of faults: first its operations and its one      *)
(* timer, and that it implements Watchdog; then what it does to the data,  *)
(* that it relays faithfully in both directions and that its counts agree. *)
(*                                                                         *)
(* The inductive invariant of the second part is DataInvariant, on top of  *)
(* ControlInvariant: that exactly one operation of a direction is          *)
(* outstanding is what keeps its buffers from being overwritten.           *)
(***************************************************************************)
EXTENDS ClientConnection, SequenceTheorems, TLAPS

Result == {"idle", "pending", "ok", "error"}

\* The types of the control variables.
ControlTypeOK ==
  /\ connection_state \in {"ready", "resolve_proxy_server_address",
                           "connecte_to_proxy_server"}
  /\ socket \in [Peer -> {"open", "closed"}]
  /\ ops \in [Operation -> Result]
  /\ connecting \in BOOLEAN
  /\ timer_pending \in BOOLEAN
  /\ timeout_due \in BOOLEAN

\* A connection that is not started is open, and nothing happens on it.
NotStarted ==
  connection_state = "ready" =>
    /\ Outstanding = {}
    /\ ~timer_pending
    /\ ~timeout_due
    /\ socket["user_agent"] = "open"

\* Until the name is resolved nothing but that is outstanding, and the socket to
\* the proxy server has not been opened.
NotConnecting ==
  connection_state # "connecte_to_proxy_server" =>
    /\ Outstanding \subseteq {Resolve}
    /\ ~connecting
    /\ socket["proxy_server"] = "closed"

\* Between the two halves of the resolver's handler nothing is outstanding but
\* the connection attempt it is about to make.
ConnectingAlone == connecting => Outstanding = {Connect} /\ ops[Connect] = "idle"

\* A connection whose user agent's socket is closed is not watched any more.
ClosedIsUnwatched == socket["user_agent"] = "closed" => ~timer_pending

ControlInvariant ==
  /\ ControlTypeOK
  /\ TimerDiscipline
  /\ OperationsFitState
  /\ OpenIsWatched
  /\ NotStarted
  /\ NotConnecting
  /\ ConnectingAlone
  /\ ClosedIsUnwatched

-----------------------------------------------------------------------------
(* Operations. *)

\* The six operations are different.
LEMMA OperationsDiffer ==
  /\ \A p, q \in Peer : Read(p) # Write(q) /\ (Read(p) = Read(q) => p = q)
  /\ \A p, q \in Peer : Write(p) = Write(q) => p = q
  /\ \A p \in Peer : Read(p) # Resolve /\ Read(p) # Connect
  /\ \A p \in Peer : Write(p) # Resolve /\ Write(p) # Connect
  /\ Resolve # Connect
  BY DEF Read, Write, Resolve, Connect, Peer

\* They are what Operation consists of.
LEMMA OperationsListed ==
  /\ \A p \in Peer : Read(p) \in Operation /\ Write(p) \in Operation
  /\ Resolve \in Operation /\ Connect \in Operation
  /\ \A o \in Operation :
       \/ \E p \in Peer : o = Read(p) \/ o = Write(p)
       \/ o = Resolve \/ o = Connect
  BY DEF Operation

\* The two peers, and each the other of the other.
LEMMA Peers ==
  /\ "user_agent" \in Peer /\ "proxy_server" \in Peer
  /\ \A p \in Peer : Other(p) \in Peer /\ Other(p) # p /\ Other(Other(p)) = p
  /\ \A p \in Peer : p = "user_agent" \/ p = "proxy_server"
  /\ Other("user_agent") = "proxy_server" /\ Other("proxy_server") = "user_agent"
  BY DEF Peer, Other

\* The operations whose handler has not run.
Busy == {o \in Operation : ops[o] # "idle"}

\* Outstanding, by whether the resolver's handler is half done, before a step
\* and after it.
LEMMA OutstandingIsBusy ==
  /\ ~connecting => Outstanding = Busy
  /\ connecting => Outstanding = Busy \cup {Connect}
  /\ ~connecting' => Outstanding' = Busy'
  /\ connecting' => Outstanding' = Busy' \cup {Connect}
  BY DEF Outstanding, Busy

\* A handler that returns leaves the operations it has started in place of its own.
LEMMA ReturnsOperations ==
  ASSUME NEW o, NEW started \in SUBSET Operation, NEW timed,
         ops \in [Operation -> Result], Returns(o, started, timed)
  PROVE  /\ ops' \in [Operation -> Result]
         /\ Busy' = (Busy \ {o}) \cup started
         /\ timeout_due' = timeout_due
  BY DEF Returns, Busy, Result

\* It sets the timer if it is to set it once, and never fails if that is all.
LEMMA ReturnsTimer ==
  ASSUME NEW o, NEW started, NEW timed, Returns(o, started, timed),
         \A p, q \in timed : p = q
  PROVE  timer_pending' = (timed # {}) /\ aborted' = FALSE
  BY DEF Returns

\* A direction whose operation has a turn: while the connection is watched and
\* relays, the other direction has one operation too.
LEMMA OneForEach ==
  ASSUME ControlInvariant, timer_pending, NEW p \in Peer,
         NEW o \in {Read(p), Write(Other(p))}, o \in Outstanding
  PROVE  /\ connection_state = "connecte_to_proxy_server"
         /\ ~connecting
         /\ \E x \in {Read(Other(p)), Write(p)} : Outstanding = {o, x}
<1>1. o # Resolve /\ o # Connect
  BY OperationsDiffer, Peers
<1>2. connection_state = "connecte_to_proxy_server"
  BY <1>1 DEF ControlInvariant, NotConnecting
<1>3. ~connecting
  BY <1>1 DEF ControlInvariant, ConnectingAlone
<1>4. PICK up \in {Read("user_agent"), Write("proxy_server")},
           down \in {Read("proxy_server"), Write("user_agent")} : Outstanding = {up, down}
  BY <1>1, <1>2 DEF ControlInvariant, OperationsFitState
<1>5. CASE p = "user_agent"
  <2>1. o = up
    BY <1>4, <1>5, OperationsDiffer, Peers
  <2> QED
    BY <1>2, <1>3, <1>4, <1>5, <2>1, Peers
<1>6. CASE p = "proxy_server"
  <2>1. o = down
    BY <1>4, <1>6, OperationsDiffer, Peers
  <2> QED
    BY <1>2, <1>3, <1>4, <1>6, <2>1, Peers
<1> QED
  BY <1>5, <1>6, Peers

\* One operation for each direction fits the state of a connection that relays.
LEMMA EachFits ==
  ASSUME NEW p \in Peer, NEW o \in {Read(p), Write(Other(p))},
         NEW x \in {Read(Other(p)), Write(p)}
  PROVE  \E up \in {Read("user_agent"), Write("proxy_server")},
            down \in {Read("proxy_server"), Write("user_agent")} : {o, x} = {up, down}
<1>1. CASE p = "user_agent"
  BY <1>1, Peers
<1>2. CASE p = "proxy_server"
  <2>1. o \in {Read("proxy_server"), Write("user_agent")}
        /\ x \in {Read("user_agent"), Write("proxy_server")}
    BY <1>2, Peers
  <2>2. {o, x} = {x, o}
    OBVIOUS
  <2> QED
    BY <2>1, <2>2
<1> QED
  BY <1>1, <1>2, Peers
-----------------------------------------------------------------------------
(* Every action preserves the control invariant. *)

\* A connection just constructed satisfies it.
LEMMA InitialControl ==
  ASSUME Init
  PROVE  ControlInvariant
<1>1. ControlTypeOK
  BY DEF Init, ControlTypeOK, Result
<1>2. Outstanding = {}
  BY DEF Init, Outstanding
<1>3. socket["proxy_server"] = "closed" /\ socket["user_agent"] = "open"
  BY Peers DEF Init
<1> QED
  BY <1>1, <1>2, <1>3 DEF Init, ControlInvariant, TimerDiscipline, OperationsFitState,
     OpenIsWatched, NotStarted, NotConnecting, ConnectingAlone, ClosedIsUnwatched

\* start() leaves the resolver outstanding.
LEMMA StartControl ==
  ASSUME ControlInvariant, Start
  PROVE  ControlInvariant' /\ Outstanding = {} /\ Outstanding' = {Resolve}
<1>1. /\ ~connecting /\ Outstanding = {} /\ ~timeout_due
      /\ socket["proxy_server"] = "closed" /\ socket["user_agent"] = "open"
  BY DEF ControlInvariant, NotConnecting, NotStarted, Start
<1>2. Returns(Resolve, {Resolve}, {Resolve}) /\ ops \in [Operation -> Result]
  BY DEF Start, ControlInvariant, ControlTypeOK
<1>3. /\ connection_state' = "resolve_proxy_server_address"
      /\ UNCHANGED <<socket, connecting>>
  BY DEF Start
<1>4. ops' \in [Operation -> Result] /\ Busy' = (Busy \ {Resolve}) \cup {Resolve}
      /\ timeout_due' = timeout_due
  BY <1>2, ReturnsOperations, OperationsListed
<1>5. timer_pending' = TRUE /\ aborted' = FALSE
  BY <1>2, ReturnsTimer
<1>6. Outstanding' = {Resolve}
  BY <1>1, <1>3, <1>4, OutstandingIsBusy
<1>7. ControlTypeOK'
  BY <1>1, <1>3, <1>4, <1>5 DEF ControlInvariant, ControlTypeOK
<1> QED
  BY <1>1, <1>3, <1>4, <1>5, <1>6, <1>7 DEF ControlInvariant, TimerDiscipline, OperationsFitState,
     OpenIsWatched, NotStarted, NotConnecting, ConnectingAlone, ClosedIsUnwatched

\* The first half of the resolver's handler ...
LEMMA ResolvedControl ==
  ASSUME ControlInvariant, Resolved
  PROVE  ControlInvariant' /\ Outstanding = {Resolve} /\ Outstanding' = {Connect}
<1>1. /\ Runs(Resolve, "ok") /\ Returns(Resolve, {}, {Connect})
      /\ connection_state' = "connecte_to_proxy_server"
      /\ connecting' = TRUE
      /\ UNCHANGED socket
  BY DEF Resolved
<1>2. timer_pending /\ Resolve \in Busy /\ ops \in [Operation -> Result]
  BY <1>1, OperationsListed DEF Runs, Busy, ControlInvariant, ControlTypeOK
<1>3. Outstanding = {Resolve} /\ ~connecting /\ Busy = {Resolve}
  <2>1. ~connecting
    BY <1>2, OperationsDiffer, OutstandingIsBusy DEF ControlInvariant, ConnectingAlone
  <2>2. Resolve \in Outstanding
    BY <1>2, <2>1, OutstandingIsBusy
  <2>3. Outstanding = {Resolve}
    BY <1>2, <2>2, OperationsDiffer, Peers DEF ControlInvariant, OperationsFitState
  <2> QED
    BY <2>1, <2>3, OutstandingIsBusy
<1>4. ops' \in [Operation -> Result] /\ Busy' = {} /\ timeout_due' = timeout_due
  BY <1>1, <1>2, <1>3, ReturnsOperations
<1>5. timer_pending' = TRUE /\ aborted' = FALSE
  BY <1>1, ReturnsTimer
<1>6. Outstanding' = {Connect} /\ ops'[Connect] = "idle"
  BY <1>1, <1>4, OutstandingIsBusy, OperationsListed DEF Busy
<1>7. ControlTypeOK'
  BY <1>1, <1>4, <1>5 DEF ControlInvariant, ControlTypeOK
<1>8. ~timeout_due /\ socket["user_agent"] # "closed"
  BY <1>2 DEF ControlInvariant, TimerDiscipline, ClosedIsUnwatched
<1> QED
  BY <1>1, <1>3, <1>4, <1>5, <1>6, <1>7, <1>8 DEF ControlInvariant, TimerDiscipline,
     OperationsFitState, OpenIsWatched, NotStarted, NotConnecting, ConnectingAlone,
     ClosedIsUnwatched

\* ... and the second, on_timeout perhaps having run in between.
LEMMA AsyncConnectControl ==
  ASSUME ControlInvariant, AsyncConnect
  PROVE  ControlInvariant' /\ Outstanding = {Connect} /\ Outstanding' = {Connect}
<1>1. /\ connecting /\ connecting' = FALSE
      /\ socket' = [socket EXCEPT !["proxy_server"] = "open"]
      /\ ops' = [ops EXCEPT ![Connect] = "pending"]
      /\ UNCHANGED <<connection_state, timer_pending, timeout_due, aborted>>
  BY DEF AsyncConnect
<1>2. /\ Outstanding = {Connect}
      /\ connection_state = "connecte_to_proxy_server"
  BY <1>1 DEF ControlInvariant, ConnectingAlone, NotConnecting
<1>3. ControlTypeOK'
  BY <1>1, OperationsListed, Peers DEF ControlInvariant, ControlTypeOK, Result
<1>4. Outstanding' = {Connect}
  <2>1. Busy \subseteq {Connect}
    BY <1>1, <1>2, OutstandingIsBusy
  <2>2. Busy' = {Connect}
    BY <1>1, <2>1, OperationsListed DEF Busy, ControlInvariant, ControlTypeOK
  <2> QED
    BY <1>1, <2>2, OutstandingIsBusy
<1>5. socket'["user_agent"] = socket["user_agent"]
  BY <1>1, Peers DEF ControlInvariant, ControlTypeOK
<1>6. OpenIsWatched'
  BY <1>1, <1>2, <1>4, <1>5, OperationsDiffer DEF ControlInvariant, OpenIsWatched
<1> QED
  BY <1>1, <1>2, <1>3, <1>4, <1>5, <1>6 DEF ControlInvariant, TimerDiscipline,
     OperationsFitState, NotStarted, NotConnecting, ConnectingAlone, ClosedIsUnwatched

\* on_connection_established() leaves the two reads outstanding.
LEMMA ConnectedControl ==
  ASSUME ControlInvariant, Connected
  PROVE  /\ ControlInvariant'
         /\ Outstanding = {Connect}
         /\ Outstanding' = {Read("user_agent"), Read("proxy_server")}
<1>1. /\ Runs(Connect, "ok") /\ Returns(Connect, RelayReads, TimedReads)
      /\ UNCHANGED <<connection_state, socket, connecting>>
  BY DEF Connected
<1>2. timer_pending /\ Connect \in Busy /\ ops \in [Operation -> Result]
  BY <1>1, OperationsListed DEF Runs, Busy, ControlInvariant, ControlTypeOK
<1>3. /\ Outstanding = {Connect} /\ ~connecting /\ Busy = {Connect}
      /\ connection_state = "connecte_to_proxy_server"
  <2>1. ~connecting
    BY <1>2 DEF Busy, ControlInvariant, ConnectingAlone
  <2>2. Connect \in Outstanding
    BY <1>2, <2>1, OutstandingIsBusy
  <2>3. connection_state = "connecte_to_proxy_server"
    BY <2>2, OperationsDiffer DEF ControlInvariant, NotConnecting
  <2>4. Outstanding = {Connect}
    BY <1>2, <2>2, <2>3, OperationsDiffer, Peers DEF ControlInvariant, OperationsFitState
  <2> QED
    BY <2>1, <2>3, <2>4, OutstandingIsBusy
<1>4. RelayReads \in SUBSET Operation /\ RelayReads = {Read("user_agent"), Read("proxy_server")}
  BY OperationsListed, Peers DEF RelayReads
<1>5. ops' \in [Operation -> Result] /\ Busy' = RelayReads /\ timeout_due' = timeout_due
  <2>1. /\ ops' \in [Operation -> Result]
        /\ Busy' = (Busy \ {Connect}) \cup RelayReads
        /\ timeout_due' = timeout_due
    BY <1>1, <1>2, <1>4, ReturnsOperations, Zenon
  <2> QED
    BY <1>3, <2>1
<1>6. timer_pending' = TRUE /\ aborted' = FALSE
  BY <1>1, ReturnsTimer DEF TimedReads
<1>7. Outstanding' = {Read("user_agent"), Read("proxy_server")}
  BY <1>1, <1>3, <1>4, <1>5, OutstandingIsBusy
<1>8. ControlTypeOK'
  BY <1>1, <1>5, <1>6 DEF ControlInvariant, ControlTypeOK
<1>9. ~timeout_due /\ socket["user_agent"] # "closed"
  BY <1>2 DEF ControlInvariant, TimerDiscipline, ClosedIsUnwatched
<1> QED
  BY <1>1, <1>3, <1>5, <1>6, <1>7, <1>8, <1>9 DEF ControlInvariant, TimerDiscipline,
     OperationsFitState, OpenIsWatched, NotStarted, NotConnecting, ConnectingAlone,
     ClosedIsUnwatched

\* A relay handler replaces its operation by another of its direction.
LEMMA RelayControl ==
  ASSUME ControlInvariant, NEW p \in Peer,
         NEW o \in {Read(p), Write(Other(p))}, Runs(o, "ok"),
         NEW next \in {Read(p), Write(Other(p))}, Returns(o, {next}, {next}),
         UNCHANGED <<connection_state, socket, connecting>>
  PROVE  /\ ControlInvariant'
         /\ \E x \in {Read(Other(p)), Write(p)} :
              Outstanding = {o, x} /\ Outstanding' = {next, x}
         /\ timer_pending /\ timer_pending' /\ UNCHANGED timeout_due
<1>1. timer_pending /\ o \in Busy /\ ops \in [Operation -> Result]
  BY OperationsListed, Peers DEF Runs, Busy, ControlInvariant, ControlTypeOK
<1>2. o \in Outstanding
  BY <1>1, OutstandingIsBusy
<1>3. /\ connection_state = "connecte_to_proxy_server"
      /\ ~connecting
      /\ \E x \in {Read(Other(p)), Write(p)} : Outstanding = {o, x}
  BY <1>1, <1>2, OneForEach
<1>4. PICK x \in {Read(Other(p)), Write(p)} : Outstanding = {o, x}
  BY <1>3
<1>5. /\ ops' \in [Operation -> Result]
      /\ Busy' = (Busy \ {o}) \cup {next}
      /\ timeout_due' = timeout_due
  <2>1. {next} \in SUBSET Operation
    BY OperationsListed, Peers
  <2> QED
    BY <1>1, <2>1, ReturnsOperations
<1>6. timer_pending' = TRUE /\ aborted' = FALSE
  BY ReturnsTimer
<1>7. x # o
  BY OperationsDiffer, Peers
<1>8. Outstanding' = {next, x}
  BY <1>3, <1>4, <1>5, <1>7, OutstandingIsBusy
<1>9. ControlTypeOK'
  BY <1>5, <1>6 DEF ControlInvariant, ControlTypeOK
<1>10. OperationsFitState'
  BY <1>3, <1>8, EachFits DEF OperationsFitState
<1>11. ~timeout_due /\ socket["user_agent"] # "closed"
  BY <1>1 DEF ControlInvariant, TimerDiscipline, ClosedIsUnwatched
<1> QED
  BY <1>1, <1>3, <1>4, <1>5, <1>6, <1>8, <1>9, <1>10, <1>11 DEF ControlInvariant,
     TimerDiscipline, OpenIsWatched, NotStarted, NotConnecting, ConnectingAlone,
     ClosedIsUnwatched

\* on_error leaves both sockets closed, and what is outstanding to fail.
LEMMA ErrorControl ==
  ASSUME ControlInvariant, NEW o \in Operation, OnError(o)
  PROVE  /\ ControlInvariant'
         /\ timer_pending /\ ~timer_pending' /\ ~timeout_due /\ ~timeout_due'
         /\ connection_state' = connection_state /\ connection_state # "ready"
         /\ o \in Outstanding /\ Outstanding' = Outstanding \ {o}
<1>1. /\ Runs(o, "error") /\ Returns(o, {}, {}) /\ CloseBoth
      /\ UNCHANGED <<connection_state, connecting>>
  BY DEF OnError
<1>2. timer_pending /\ o \in Busy /\ ops \in [Operation -> Result] /\ ~timeout_due
  BY <1>1 DEF Runs, Busy, ControlInvariant, ControlTypeOK, TimerDiscipline
<1>3. ~connecting /\ connection_state # "ready"
  BY <1>2, OutstandingIsBusy DEF ControlInvariant, ConnectingAlone, NotStarted, Busy
<1>4. /\ ops' \in [Operation -> Result]
      /\ Busy' = Busy \ {o}
      /\ timeout_due' = timeout_due
  <2>1. Busy' = (Busy \ {o}) \cup {} /\ ops' \in [Operation -> Result]
        /\ timeout_due' = timeout_due
    BY <1>1, <1>2, ReturnsOperations
  <2> QED
    BY <2>1
<1>5. timer_pending' = FALSE /\ aborted' = FALSE
  BY <1>1, ReturnsTimer
<1>6. Outstanding = Busy /\ Outstanding' = Outstanding \ {o}
  BY <1>1, <1>3, <1>4, OutstandingIsBusy
<1>7. socket'["user_agent"] = "closed" /\ socket'["proxy_server"] = "closed"
      /\ socket' \in [Peer -> {"open", "closed"}]
  BY <1>1, Peers DEF CloseBoth
<1>8. ControlTypeOK'
  BY <1>1, <1>4, <1>5, <1>7 DEF ControlInvariant, ControlTypeOK
<1> QED
  BY <1>1, <1>2, <1>3, <1>4, <1>5, <1>6, <1>7, <1>8 DEF ControlInvariant, TimerDiscipline,
     OperationsFitState, OpenIsWatched, NotStarted, NotConnecting, ConnectingAlone,
     ClosedIsUnwatched

\* A late completion is dropped.
LEMMA LateControl ==
  ASSUME ControlInvariant, NEW o \in Operation, LateCompletion(o)
  PROVE  /\ ControlInvariant'
         /\ ~timer_pending /\ o \in Outstanding /\ Outstanding' = Outstanding \ {o}
         /\ UNCHANGED <<connection_state, timer_pending, timeout_due, socket>>
<1>1. /\ ops[o] \in {"ok", "error"} /\ ~timer_pending
      /\ ops' = [ops EXCEPT ![o] = "idle"]
      /\ UNCHANGED <<connection_state, timer_pending, timeout_due, aborted, socket, connecting>>
  BY DEF LateCompletion
<1>2. o \in Busy /\ Busy' = Busy \ {o} /\ ops' \in [Operation -> Result]
  BY <1>1 DEF Busy, ControlInvariant, ControlTypeOK, Result
<1>3. ~connecting
  <2> SUFFICES ASSUME connecting PROVE FALSE
    OBVIOUS
  <2>1. o = Connect
    BY <1>2, OutstandingIsBusy DEF ControlInvariant, ConnectingAlone
  <2> QED
    BY <1>1, <2>1 DEF ControlInvariant, ConnectingAlone
<1>4. Outstanding = Busy /\ Outstanding' = Outstanding \ {o}
  BY <1>1, <1>2, <1>3, OutstandingIsBusy
<1>5. ControlTypeOK'
  BY <1>1, <1>2 DEF ControlInvariant, ControlTypeOK
<1>6. OpenIsWatched'
  BY <1>1, <1>4 DEF ControlInvariant, OpenIsWatched
<1> QED
  BY <1>1, <1>2, <1>3, <1>4, <1>5, <1>6 DEF ControlInvariant, TimerDiscipline,
     OperationsFitState, NotStarted, NotConnecting, ConnectingAlone, ClosedIsUnwatched

\* What leaves the operations alone leaves them outstanding.
LEMMA SameOperations ==
  ASSUME UNCHANGED <<ops, connecting>>
  PROVE  Outstanding' = Outstanding
  BY DEF Outstanding

\* The timer expires.
LEMMA ExpiryControl ==
  ASSUME ControlInvariant, TimerExpires
  PROVE  ControlInvariant' /\ Outstanding' = Outstanding
<1>1. /\ timer_pending /\ timer_pending' = FALSE /\ timeout_due' = TRUE
      /\ UNCHANGED <<connection_state, socket, ops, connecting, aborted>>
  BY DEF TimerExpires
<1>2. Outstanding' = Outstanding
  BY <1>1, SameOperations
<1> QED
  BY <1>1, <1>2 DEF ControlInvariant, ControlTypeOK, TimerDiscipline, OperationsFitState,
     OpenIsWatched, NotStarted, NotConnecting, ConnectingAlone, ClosedIsUnwatched

\* on_timeout closes both sockets, or leaves only the resolver to come back.
LEMMA TimeoutControl ==
  ASSUME ControlInvariant, OnTimeout
  PROVE  ControlInvariant' /\ Outstanding' = Outstanding
<1>1. /\ timeout_due /\ timeout_due' = FALSE
      /\ IF connection_state = "resolve_proxy_server_address" THEN UNCHANGED socket
         ELSE CloseBoth
      /\ UNCHANGED <<connection_state, ops, connecting, timer_pending, aborted>>
  BY DEF OnTimeout
<1>2. Outstanding' = Outstanding
  BY <1>1, SameOperations
<1>3. ~timer_pending /\ connection_state # "ready"
  BY <1>1 DEF ControlInvariant, TimerDiscipline, NotStarted
<1>4. CASE connection_state = "resolve_proxy_server_address"
  BY <1>1, <1>2, <1>3, <1>4 DEF ControlInvariant, ControlTypeOK, TimerDiscipline,
     OperationsFitState, OpenIsWatched, NotStarted, NotConnecting, ConnectingAlone,
     ClosedIsUnwatched
<1>5. CASE connection_state # "resolve_proxy_server_address"
  <2>1. socket'["user_agent"] = "closed" /\ socket'["proxy_server"] = "closed"
        /\ socket' \in [Peer -> {"open", "closed"}]
    BY <1>1, <1>5, Peers DEF CloseBoth
  <2> QED
    BY <1>1, <1>2, <1>3, <1>5, <2>1 DEF ControlInvariant, ControlTypeOK, TimerDiscipline,
       OperationsFitState, OpenIsWatched, NotStarted, NotConnecting, ConnectingAlone,
       ClosedIsUnwatched
<1> QED
  BY <1>4, <1>5

\* The destructor closes both sockets.
LEMMA DestroyControl ==
  ASSUME ControlInvariant, Destroy
  PROVE  ControlInvariant' /\ Outstanding' = Outstanding /\ connection_state # "ready"
<1>1. /\ CloseBoth
      /\ connection_state # "ready" /\ ~timer_pending
      /\ UNCHANGED <<connection_state, ops, connecting, timer_pending, timeout_due, aborted>>
  BY DEF Destroy, Gone
<1>2. Outstanding' = Outstanding
  BY <1>1, SameOperations
<1>3. socket'["user_agent"] = "closed" /\ socket'["proxy_server"] = "closed"
      /\ socket' \in [Peer -> {"open", "closed"}]
  BY <1>1, Peers DEF CloseBoth
<1> QED
  BY <1>1, <1>2, <1>3 DEF ControlInvariant, ControlTypeOK, TimerDiscipline,
     OperationsFitState, OpenIsWatched, NotStarted, NotConnecting, ConnectingAlone,
     ClosedIsUnwatched

\* The kernel completes an operation: nothing else of the control changes.
LEMMA KernelControl ==
  ASSUME ControlInvariant, NEW o \in Operation, NEW result \in {"ok", "error"},
         Completes(o, result)
  PROVE  /\ ControlInvariant' /\ Outstanding' = Outstanding
         /\ UNCHANGED <<connection_state, timer_pending, timeout_due, socket>>
<1>1. /\ ops[o] = "pending"
      /\ ops' = [ops EXCEPT ![o] = result]
      /\ UNCHANGED <<connection_state, connecting, timer_pending, timeout_due, aborted, socket>>
  BY DEF Completes
<1>2. ops' \in [Operation -> Result] /\ Busy' = Busy
  BY <1>1 DEF Busy, ControlInvariant, ControlTypeOK, Result
<1>3. Outstanding' = Outstanding
  BY <1>1, <1>2, OutstandingIsBusy DEF ControlInvariant, ControlTypeOK
<1>4. connecting => o # Connect
  BY <1>1 DEF ControlInvariant, ConnectingAlone
<1>5. ConnectingAlone'
  BY <1>1, <1>3, <1>4, OperationsListed DEF ControlInvariant, ControlTypeOK, ConnectingAlone
<1> QED
  BY <1>1, <1>2, <1>3, <1>5 DEF ControlInvariant, ControlTypeOK, TimerDiscipline,
     OperationsFitState, OpenIsWatched, NotStarted, NotConnecting, ClosedIsUnwatched

\* What changes no control variable preserves the invariant.
LEMMA QuietControl ==
  ASSUME ControlInvariant,
         UNCHANGED <<connection_state, socket, ops, connecting, timer_pending, timeout_due,
                     aborted>>
  PROVE  ControlInvariant' /\ Outstanding' = Outstanding
<1>1. Outstanding' = Outstanding
  BY SameOperations
<1> QED
  BY <1>1 DEF ControlInvariant, ControlTypeOK, TimerDiscipline, OperationsFitState,
     OpenIsWatched, NotStarted, NotConnecting, ConnectingAlone, ClosedIsUnwatched

-----------------------------------------------------------------------------
(* What a step does to the watch. *)

\* The action of CloseIsFinal.
Final ==
  socket["user_agent"] = "closed" \/ timeout_due =>
    /\ Outstanding' \subseteq Outstanding
    /\ socket'["user_agent"] = "open" => socket["user_agent"] = "open"

\* A step of Watchdog, or of nothing it knows of.
Watches == [Abstract!Next]_(Abstract!vars)

SafeStep == ControlInvariant' /\ Final /\ Watches

\* A handler that found the timer running, and started something, continues.
LEMMA HandlerContinues ==
  ASSUME ControlInvariant, ControlInvariant', timer_pending, timer_pending',
         UNCHANGED socket,
         NEW o \in Outstanding, NEW next \in (SUBSET Operation) \ {{}},
         Outstanding' = (Outstanding \ {o}) \cup next
  PROVE  Final /\ Watches
<1>1. ~timeout_due /\ socket["user_agent"] # "closed"
  BY DEF ControlInvariant, TimerDiscipline, ClosedIsUnwatched
<1>2. o \in Operation
  BY OperationsListed DEF Outstanding
<1>3. Abstract!Continue(o, next)
  BY DEF Abstract!Continue
<1> QED
  BY <1>1, <1>2, <1>3, Zenon DEF Final, Watches, Abstract!Next

\* What leaves the watch and the user agent's socket alone is safe.
LEMMA StutterIsSafe ==
  ASSUME ControlInvariant', Outstanding' = Outstanding,
         UNCHANGED <<connection_state, timer_pending, timeout_due, socket>>
  PROVE  SafeStep
  BY DEF SafeStep, Final, Watches, Abstract!vars

\* The handlers that begin by finding the timer running.
LEMMA HandlerIsSafe ==
  ASSUME ControlInvariant, Handler
  PROVE  SafeStep
<1>1. CASE Resolved
  <2>1. ControlInvariant' /\ Outstanding = {Resolve} /\ Outstanding' = {Connect}
    BY <1>1, ResolvedControl
  <2>2. timer_pending /\ timer_pending' /\ UNCHANGED socket
    BY <1>1 DEF Resolved, Runs, Returns
  <2>3. /\ Outstanding' = (Outstanding \ {Resolve}) \cup {Connect}
        /\ {Connect} \in (SUBSET Operation) \ {{}}
    BY <2>1, OperationsListed
  <2> QED
    BY <2>1, <2>2, <2>3, HandlerContinues DEF SafeStep
<1>2. CASE AsyncConnect
  <2>1. /\ ControlInvariant' /\ Outstanding' = Outstanding
        /\ UNCHANGED <<connection_state, timer_pending, timeout_due>>
        /\ socket'["user_agent"] = socket["user_agent"]
    BY <1>2, AsyncConnectControl, Peers DEF AsyncConnect, ControlInvariant, ControlTypeOK
  <2> QED
    BY <2>1 DEF SafeStep, Final, Watches, Abstract!vars
<1>3. CASE Connected
  <2>1. /\ ControlInvariant' /\ Outstanding = {Connect}
        /\ Outstanding' = {Read("user_agent"), Read("proxy_server")}
    BY <1>3, ConnectedControl
  <2>2. timer_pending /\ timer_pending' /\ UNCHANGED socket
    BY <1>3 DEF Connected, Runs, Returns, TimedReads
  <2>3. /\ Outstanding' = (Outstanding \ {Connect})
                            \cup {Read("user_agent"), Read("proxy_server")}
        /\ {Read("user_agent"), Read("proxy_server")} \in (SUBSET Operation) \ {{}}
    BY <2>1, OperationsListed, Peers
  <2> QED
    BY <2>1, <2>2, <2>3, HandlerContinues DEF SafeStep
<1>4. ASSUME NEW p \in Peer, DataArrived(p) \/ DataWritten(p)
      PROVE  SafeStep
  <2>1. PICK o \in {Read(p), Write(Other(p))}, next \in {Read(p), Write(Other(p))} :
          /\ Runs(o, "ok") /\ Returns(o, {next}, {next})
          /\ UNCHANGED <<connection_state, socket, connecting>>
    <3>1. CASE DataArrived(p)
      BY <3>1 DEF DataArrived
    <3>2. CASE DataWritten(p)
      BY <3>2 DEF DataWritten
    <3> QED
      BY <1>4, <3>1, <3>2
  <2>2. /\ ControlInvariant'
        /\ timer_pending /\ timer_pending'
        /\ \E x \in {Read(Other(p)), Write(p)} :
             Outstanding = {o, x} /\ Outstanding' = {next, x}
    BY <2>1, RelayControl, ZenonT(60)
  <2>3. /\ o \in Outstanding
        /\ Outstanding' = (Outstanding \ {o}) \cup {next}
    <3>1. PICK x \in {Read(Other(p)), Write(p)} :
            Outstanding = {o, x} /\ Outstanding' = {next, x}
      BY <2>2
    <3>2. x # o
      BY OperationsDiffer, Peers
    <3> QED
      BY <3>1, <3>2
  <2>4. {next} \in (SUBSET Operation) \ {{}}
    BY OperationsListed, Peers
  <2> QED
    BY <2>1, <2>2, <2>3, <2>4, HandlerContinues DEF SafeStep
<1>5. ASSUME NEW o \in Operation, OnError(o) PROVE SafeStep
  <2>1. /\ ControlInvariant'
        /\ timer_pending /\ ~timer_pending' /\ ~timeout_due /\ ~timeout_due'
        /\ connection_state' = connection_state /\ connection_state # "ready"
        /\ o \in Outstanding /\ Outstanding' = Outstanding \ {o}
    BY <1>5, ErrorControl
  <2>2. Abstract!Finish(o)
    BY <2>1 DEF Abstract!Finish
  <2>3. socket["user_agent"] # "closed"
    BY <2>1 DEF ControlInvariant, ClosedIsUnwatched
  <2> QED
    BY <2>1, <2>2, <2>3, Zenon DEF SafeStep, Final, Watches, Abstract!Next
<1>6. ASSUME NEW o \in Operation, LateCompletion(o) PROVE SafeStep
  <2>1. /\ ControlInvariant'
        /\ ~timer_pending /\ o \in Outstanding /\ Outstanding' = Outstanding \ {o}
        /\ UNCHANGED <<connection_state, timer_pending, timeout_due, socket>>
    BY <1>6, LateControl
  <2>2. connection_state # "ready"
    BY <2>1 DEF ControlInvariant, NotStarted
  <2>3. Abstract!Drain(o)
    BY <2>1, <2>2 DEF Abstract!Drain
  <2>4. Final
    BY <2>1 DEF Final
  <2> QED
    BY <2>1, <2>3, <2>4, Zenon DEF SafeStep, Watches, Abstract!Next
<1>7. CASE OnTimeout
  <2>1. ControlInvariant' /\ Outstanding' = Outstanding
    BY <1>7, TimeoutControl
  <2>2. /\ ~timer_pending /\ connection_state # "ready"
        /\ timeout_due /\ timeout_due' = FALSE
        /\ UNCHANGED <<connection_state, timer_pending>>
    BY <1>7 DEF OnTimeout, ControlInvariant, TimerDiscipline, NotStarted
  <2>3. Abstract!TimeOut
    BY <2>1, <2>2 DEF Abstract!TimeOut
  <2>4. socket'["user_agent"] = "open" => socket["user_agent"] = "open"
    BY <1>7, Peers DEF OnTimeout, CloseBoth
  <2> QED
    BY <2>1, <2>3, <2>4, Zenon DEF SafeStep, Final, Watches, Abstract!Next
<1> QED
  BY <1>1, <1>2, <1>3, <1>4, <1>5, <1>6, <1>7 DEF Handler

\* Every step keeps the invariant, starts nothing after the end, and is a step of
\* Watchdog or none.
LEMMA StepIsSafe ==
  ASSUME ControlInvariant, [Next]_vars
  PROVE  SafeStep
<1>1. CASE Start
  <2>1. ControlInvariant' /\ Outstanding = {} /\ Outstanding' = {Resolve}
    BY <1>1, StartControl
  <2>2. /\ connection_state = "ready" /\ ~timer_pending /\ ~timeout_due
        /\ socket["user_agent"] = "open"
        /\ timer_pending'
    BY <1>1 DEF Start, Returns, ControlInvariant, NotStarted
  <2>3. Abstract!Begin
    BY <2>1, <2>2, OperationsListed DEF Abstract!Begin
  <2> QED
    BY <2>1, <2>2, <2>3, Zenon DEF SafeStep, Final, Watches, Abstract!Next
<1>2. CASE Handler
  BY <1>2, HandlerIsSafe
<1>3. CASE Destroy
  <2>1. ControlInvariant' /\ Outstanding' = Outstanding
        /\ UNCHANGED <<connection_state, timer_pending, timeout_due>>
        /\ (socket'["user_agent"] = "open" => socket["user_agent"] = "open")
    BY <1>3, DestroyControl, Peers DEF Destroy, CloseBoth
  <2> QED
    BY <2>1 DEF SafeStep, Final, Watches, Abstract!vars
<1>4. CASE TimerExpires
  <2>1. ControlInvariant' /\ Outstanding' = Outstanding
    BY <1>4, ExpiryControl
  <2>2. /\ timer_pending /\ timer_pending' = FALSE /\ timeout_due' = TRUE
        /\ UNCHANGED <<connection_state, socket>>
    BY <1>4 DEF TimerExpires
  <2>3. Abstract!Expire
    BY <2>1, <2>2 DEF Abstract!Expire
  <2> QED
    BY <2>1, <2>2, <2>3, Zenon DEF SafeStep, Final, Watches, Abstract!Next
<1>5. CASE Kernel
  <2>1. PICK o \in Operation, result \in {"ok", "error"} : Completes(o, result)
    BY <1>5, OperationsListed, Peers DEF Kernel, ReadSome, WriteSome, NameResolved,
       EndpointConnected, OperationFails
  <2> QED
    BY <2>1, KernelControl, StutterIsSafe
<1>6. CASE \/ \E p \in Peer : Says(p) \/ Closes(p)
           \/ Terminated
           \/ UNCHANGED vars
  <2>1. UNCHANGED <<connection_state, socket, ops, connecting, timer_pending, timeout_due,
                    aborted>>
    BY <1>6 DEF Says, Closes, Terminated, vars
  <2> QED
    BY <2>1, QuietControl, StutterIsSafe
<1> QED
  BY <1>1, <1>2, <1>3, <1>4, <1>5, <1>6 DEF Next

-----------------------------------------------------------------------------
(* The theorems. *)

\* The control invariant holds in every reachable state of the relay.
THEOREM ControlIsInvariant == Spec => []ControlInvariant
<1>1. Init => ControlInvariant
  BY InitialControl
<1>2. ControlInvariant /\ [Next]_vars => ControlInvariant'
  BY StepIsSafe DEF SafeStep
<1> QED
  BY <1>1, <1>2, PTL DEF Spec

\* set_timer() never finds a wait queued, in whatever order the two directions,
\* the resolver's handler and on_timeout run: its assertion holds.
THEOREM TimerDisciplineHolds == Spec => []TimerDiscipline
<1>1. ControlInvariant => TimerDiscipline
  BY DEF ControlInvariant
<1> QED
  BY <1>1, ControlIsInvariant, PTL

\* While the relay is watched, each direction has exactly one operation.
THEOREM OperationsFitStateHolds == Spec => []OperationsFitState
<1>1. ControlInvariant => OperationsFitState
  BY DEF ControlInvariant
<1> QED
  BY <1>1, ControlIsInvariant, PTL

\* Only a cancelled resolver or a connection attempt that on_timeout has
\* overtaken can wait on an open socket without a timer.
THEOREM OpenIsWatchedHolds == Spec => []OpenIsWatched
<1>1. ControlInvariant => OpenIsWatched
  BY DEF ControlInvariant
<1> QED
  BY <1>1, ControlIsInvariant, PTL

\* After the timeout or the closing of the user agent's socket nothing new is
\* started, even by the resolver's handler outside the strand.
THEOREM CloseIsFinalHolds == Spec => CloseIsFinal
<1>1. ControlInvariant /\ [Next]_vars => [Final]_vars
  BY StepIsSafe DEF SafeStep
<1> QED
  BY <1>1, ControlIsInvariant, PTL DEF CloseIsFinal, Final, Spec

\* The relay implements the abstract watchdog.
THEOREM ImplementsWatchdogHolds == Spec => ImplementsWatchdog
<1>1. Init => Abstract!Init
  <2> SUFFICES ASSUME Init PROVE Abstract!Init
    OBVIOUS
  <2>1. Outstanding = {}
    BY DEF Init, Outstanding
  <2> QED
    BY <2>1 DEF Init, Abstract!Init
<1>2. ControlInvariant /\ [Next]_vars => [Abstract!Next]_(Abstract!vars)
  BY StepIsSafe DEF SafeStep, Watches
<1> QED
  BY <1>1, <1>2, ControlIsInvariant, PTL DEF ImplementsWatchdog, Abstract!Safety, Spec

-----------------------------------------------------------------------------
(* The data. *)


\* The types of the data.
DataTypeOK ==
  /\ read_buffer \in [Peer -> Seq(Units)]
  /\ write_buffer \in [Peer -> Seq(Units)]
  /\ transferred \in [Peer -> Nat]
  /\ counted_in \in [Peer -> Nat]
  /\ counted_out \in [Peer -> Nat]
  /\ peers \in [Peer -> [said : 0 .. MaxUnits, stream : Seq(Units), heard : Seq(Units),
                         open : BOOLEAN]]

\* No buffer is overrun, and no write takes more than it was given.
Bounded(p) ==
  /\ Len(read_buffer[p]) <= BufferLength
  /\ Len(write_buffer[p]) <= BufferLength
  /\ transferred[p] <= Len(write_buffer[p])

Empty(p) == read_buffer[p] = <<>> /\ write_buffer[p] = <<>> /\ transferred[p] = 0

\* What the buffers of a direction hold, by what is outstanding in it.
BuffersFit(p) ==
  /\ ops[Read(p)] = "pending" => Empty(p)
  /\ ops[Read(p)] = "ok" => write_buffer[p] = <<>> /\ transferred[p] = 0
  /\ ops[Write(Other(p))] = "pending" => read_buffer[p] = <<>> /\ transferred[p] = 0
  /\ ops[Write(Other(p))] = "ok" => read_buffer[p] = <<>>
  /\ \/ connection_state # "connecte_to_proxy_server"
     \/ connecting
     \/ ops[Connect] # "idle"
     => Empty(p)

\* RelayFaithful and CountsAgree, for one direction.
Faithful(p) ==
  LET heard == peers[Other(p)].heard
  IN  /\ IsPrefix(heard, Said(p))
      /\ peers[Other(p)].open => heard \o Held(p) \o peers[p].stream = Said(p)

Counted(p) ==
  timer_pending \/ connection_state = "ready"
    => counted_in[p] = counted_out[p] + Len(write_buffer[p])

Direction(p) == Bounded(p) /\ BuffersFit(p) /\ Faithful(p) /\ Counted(p)

DataInvariant == DataTypeOK /\ \A p \in Peer : Direction(p)

\* A direction never has two operations, and none during the connection attempt,
\* even when the connection is not watched any more.
AtMostOne ==
  \A p \in Peer :
    \A a, b \in {Read(p), Write(Other(p)), Connect} \cap Outstanding : a = b

-----------------------------------------------------------------------------
(* Sequences. *)

\* A sequence cut in two is the two pieces.
LEMMA CutInTwo ==
  ASSUME NEW S, NEW s \in Seq(S), NEW n \in 0 .. Len(s)
  PROVE  /\ SubSeq(s, 1, n) \in Seq(S) /\ Len(SubSeq(s, 1, n)) = n
         /\ SubSeq(s, n + 1, Len(s)) \in Seq(S)
         /\ Len(SubSeq(s, n + 1, Len(s))) = Len(s) - n
         /\ SubSeq(s, 1, n) \o SubSeq(s, n + 1, Len(s)) = s
<1>1. Len(s) \in Nat /\ \A i \in 1 .. Len(s) : s[i] \in S
  BY LenProperties
<1>2. SubSeq(s, 1, n) \in Seq(S) /\ Len(SubSeq(s, 1, n)) = n
  BY <1>1, SubSeqProperties
<1>3. /\ SubSeq(s, n + 1, Len(s)) \in Seq(S)
      /\ Len(SubSeq(s, n + 1, Len(s))) = Len(s) - n
  BY <1>1, SubSeqProperties
<1>4. SubSeq(s, 1, n) \o SubSeq(s, n + 1, Len(s)) = SubSeq(s, 1, Len(s))
  <2>1. 1 \in 1 .. Len(s) + 1 /\ n \in 1 - 1 .. Len(s) /\ Len(s) \in n .. Len(s)
    BY <1>1
  <2> QED
    BY <2>1, ConcatAdjacentSubSeq
<1> QED
  BY <1>2, <1>3, <1>4, SubSeqFull

\* With nothing written all of a buffer is left.
LEMMA RestOfNothing ==
  ASSUME NEW S, NEW s \in Seq(S)
  PROVE  Rest(s, 0) = s
  BY SubSeqFull, LenProperties DEF Rest

\* What is left of a buffer is a sequence shorter by what was written.
LEMMA RestProperties ==
  ASSUME NEW S, NEW s \in Seq(S), NEW n \in 0 .. Len(s)
  PROVE  /\ Rest(s, n) \in Seq(S)
         /\ Len(Rest(s, n)) = Len(s) - n
         /\ SubSeq(s, 1, n) \o Rest(s, n) = s
  BY CutInTwo DEF Rest

\* The first part of a concatenation is a prefix of it ...
LEMMA PrefixOfConcat ==
  ASSUME NEW S, NEW s \in Seq(S), NEW t \in Seq(S)
  PROVE  IsPrefix(s, s \o t)
<1>1. Len(s) \in Nat /\ Len(t) \in Nat /\ Len(s \o t) = Len(s) + Len(t)
  BY LenProperties, ConcatProperties
<1>2. SubSeq(s \o t, 1, Len(s)) = SubSeq(s, 1, Len(s))
  <2>1. CASE Len(s) = 0
    BY <2>1, SubSeqEmpty
  <2>2. CASE Len(s) # 0
    BY <1>1, <2>2, SubSeqOfConcat1
  <2> QED
    BY <2>1, <2>2
<1> QED
  BY <1>1, <1>2 DEF IsPrefix

\* ... and a prefix remains one when more is said.
LEMMA PrefixOfAppend ==
  ASSUME NEW S, NEW s \in Seq(S), NEW t \in Seq(S), NEW e \in S, IsPrefix(s, t)
  PROVE  IsPrefix(s, Append(t, e))
<1>1. Len(s) \in Nat /\ Len(t) \in Nat /\ Len(s) <= Len(t)
  BY LenProperties DEF IsPrefix
<1>2. Append(t, e) = t \o <<e>> /\ Len(Append(t, e)) = Len(t) + 1
  BY AppendIsConcat, AppendProperties
<1>3. SubSeq(t \o <<e>>, 1, Len(s)) = SubSeq(t, 1, Len(s))
  <2>1. CASE Len(s) = 0
    BY <2>1, SubSeqEmpty
  <2>2. CASE Len(s) # 0
    BY <1>1, <2>2, SubSeqOfConcat1
  <2> QED
    BY <2>1, <2>2
<1> QED
  BY <1>1, <1>2, <1>3 DEF IsPrefix

-----------------------------------------------------------------------------
(* The parts of the data invariant, before a step and after it. *)

\* What the types say of one direction.
LEMMA DirectionTypes ==
  ASSUME DataTypeOK, NEW p \in Peer
  PROVE  /\ read_buffer[p] \in Seq(Units) /\ Len(read_buffer[p]) \in Nat
         /\ write_buffer[p] \in Seq(Units) /\ Len(write_buffer[p]) \in Nat
         /\ transferred[p] \in Nat
         /\ counted_in[p] \in Nat /\ counted_out[p] \in Nat
         /\ peers[p].stream \in Seq(Units) /\ peers[p].heard \in Seq(Units)
         /\ peers[p].said \in 0 .. MaxUnits /\ peers[p].open \in BOOLEAN
         /\ Other(p) \in Peer
         /\ peers[Other(p)].heard \in Seq(Units) /\ peers[Other(p)].open \in BOOLEAN
  BY Peers, LenProperties DEF DataTypeOK

\* What a peer has said is the sequence of its units.
LEMMA SaidIsSequence ==
  ASSUME DataTypeOK, NEW p \in Peer
  PROVE  Said(p) \in Seq(Units) /\ Len(Said(p)) = peers[p].said
<1>1. peers[p].said \in 0 .. MaxUnits
  BY DirectionTypes
<1> QED
  BY <1>1, ClientAssumption DEF Said, Units

\* Nothing a direction depends on changes, but that an operation of it may fail.
SameData(p) ==
  /\ read_buffer'[p] = read_buffer[p]
  /\ write_buffer'[p] = write_buffer[p]
  /\ transferred'[p] = transferred[p]
  /\ counted_in'[p] = counted_in[p]
  /\ counted_out'[p] = counted_out[p]
  /\ peers'[p].said = peers[p].said
  /\ peers'[p].stream = peers[p].stream
  /\ peers'[Other(p)].heard = peers[Other(p)].heard
  /\ peers'[Other(p)].open => peers[Other(p)].open

SameOps(p) ==
  /\ \A o \in {Read(p), Write(Other(p))} : ops'[o] \in {ops[o], "idle", "error"}
  /\ ops'[Connect] # "idle" => ops[Connect] # "idle"
  /\ UNCHANGED <<connection_state, connecting>>
  /\ timer_pending' => timer_pending

\* A direction on which nothing happens keeps its part of the invariant.
LEMMA DirectionKept ==
  ASSUME NEW p \in Peer, Direction(p), SameData(p), SameOps(p)
  PROVE  Direction(p)'
<1>1. Bounded(p)'
  BY DEF Direction, Bounded, SameData
<1>2. BuffersFit(p)'
  BY DEF Direction, BuffersFit, Empty, SameData, SameOps
<1>3. Faithful(p)'
  BY DEF Direction, Faithful, Said, Held, Rest, SameData
<1>4. Counted(p)'
  BY DEF Direction, Counted, SameData, SameOps
<1> QED
  BY <1>1, <1>2, <1>3, <1>4 DEF Direction

\* A direction with empty buffers keeps them whatever is started or ended.
LEMMA EmptyKept ==
  ASSUME NEW p \in Peer, Direction(p), SameData(p), Empty(p),
         timer_pending' \/ connection_state' = "ready" =>
           timer_pending \/ connection_state = "ready"
  PROVE  Direction(p)'
<1>1. Bounded(p)' /\ Empty(p)'
  BY DEF Direction, Bounded, Empty, SameData
<1>2. BuffersFit(p)'
  BY <1>1 DEF BuffersFit, Empty
<1>3. Faithful(p)'
  BY DEF Direction, Faithful, Said, Held, Rest, SameData
<1>4. Counted(p)'
  BY DEF Direction, Counted, SameData
<1> QED
  BY <1>1, <1>2, <1>3, <1>4 DEF Direction

\* What is heard, held and unread makes up what was said: so what is heard is a
\* prefix of it.
LEMMA AllThereIsPrefix ==
  ASSUME NEW S, NEW h \in Seq(S), NEW w \in Seq(S), NEW st \in Seq(S)
  PROVE  IsPrefix(h, (h \o w) \o st)
<1>1. w \o st \in Seq(S)
  BY ConcatProperties
<1>2. (h \o w) \o st = h \o (w \o st)
  BY ConcatAssociative
<1> QED
  BY <1>1, <1>2, PrefixOfConcat

\* What is said joins the end of what is unread.
LEMMA SaidLast ==
  ASSUME NEW S, NEW s \in Seq(S), NEW t \in Seq(S), NEW e \in S
  PROVE  s \o Append(t, e) = Append(s \o t, e)
<1>1. <<e>> \in Seq(S) /\ s \o t \in Seq(S)
  BY ConcatProperties
<1>2. Append(t, e) = t \o <<e>> /\ Append(s \o t, e) = (s \o t) \o <<e>>
  BY <1>1, AppendIsConcat
<1>3. ASSUME NEW u \in Seq(S) PROVE s \o (t \o u) = (s \o t) \o u
  BY ConcatAssociative
<1>4. s \o (t \o <<e>>) = (s \o t) \o <<e>>
  BY <1>1, <1>3
<1> QED
  BY <1>2, <1>4

-----------------------------------------------------------------------------
(* Every action preserves the data invariant. *)

\* A connection just constructed satisfies it.
LEMMA InitialData ==
  ASSUME Init
  PROVE  DataInvariant
<1>1. DataTypeOK
  BY ClientAssumption, EmptySeq DEF Init, DataTypeOK
<1>2. ASSUME NEW p \in Peer PROVE Direction(p)
  <2>1. /\ Empty(p) /\ Len(read_buffer[p]) = 0 /\ Len(write_buffer[p]) = 0
        /\ counted_in[p] = 0 /\ counted_out[p] = 0
        /\ peers[p].said = 0 /\ peers[p].stream = <<>> /\ peers[Other(p)].heard = <<>>
    BY Peers, EmptySeq DEF Init, Empty
  <2>2. Said(p) = <<>>
    BY <2>1 DEF Said
  <2>3. Held(p) = <<>>
    BY <2>1 DEF Held, Rest, Empty
  <2>4. Faithful(p)
    BY <2>1, <2>2, <2>3 DEF Faithful, IsPrefix
  <2>5. Bounded(p) /\ Counted(p)
    BY <2>1, ClientAssumption DEF Bounded, Counted, Empty
  <2>6. BuffersFit(p)
    BY <2>1 DEF BuffersFit, Empty
  <2> QED
    BY <2>4, <2>5, <2>6 DEF Direction
<1> QED
  BY <1>1, <1>2 DEF DataInvariant

\* What a step starts it starts under the timer, one for each direction.
LEMMA AtMostOneKept ==
  ASSUME ControlInvariant, AtMostOne, [Next]_vars
  PROVE  AtMostOne'
<1>1. ControlInvariant' /\ Watches
  BY StepIsSafe DEF SafeStep
<1>2. ASSUME timer_pending', NEW p \in Peer,
             NEW a \in {Read(p), Write(Other(p)), Connect} \cap Outstanding',
             NEW b \in {Read(p), Write(Other(p)), Connect} \cap Outstanding'
      PROVE  a = b
  <2>1. \/ Outstanding' = {Resolve}
        \/ Outstanding' = {Connect}
        \/ \E up \in {Read("user_agent"), Write("proxy_server")},
              down \in {Read("proxy_server"), Write("user_agent")} : Outstanding' = {up, down}
    BY <1>1, <1>2 DEF ControlInvariant, OperationsFitState
  <2>2. CASE p = "user_agent"
    BY <1>2, <2>1, <2>2, OperationsDiffer, Peers
  <2>3. CASE p = "proxy_server"
    BY <1>2, <2>1, <2>3, OperationsDiffer, Peers
  <2> QED
    BY <2>2, <2>3, Peers
<1>3. ASSUME ~timer_pending' PROVE Outstanding' \subseteq Outstanding
  BY <1>1, <1>3 DEF Watches, Abstract!Next, Abstract!Begin, Abstract!Continue, Abstract!Finish,
     Abstract!Drain, Abstract!Expire, Abstract!TimeOut, Abstract!vars
<1>4. CASE timer_pending'
  BY <1>2, <1>4, Peers DEF AtMostOne, Read, Write, Connect
<1>5. CASE ~timer_pending'
  BY <1>3, <1>5 DEF AtMostOne, Read, Write, Connect
<1> QED
  BY <1>4, <1>5

\* While an operation of a direction is outstanding, the direction's other one
\* and the connection attempt are idle.
LEMMA OthersIdle ==
  ASSUME ControlInvariant, AtMostOne, NEW p \in Peer,
         NEW o \in {Read(p), Write(Other(p))}, ops[o] # "idle"
  PROVE  /\ connection_state = "connecte_to_proxy_server" /\ ~connecting
         /\ ops[Connect] = "idle"
         /\ \A r \in {Read(p), Write(Other(p))} : r # o => ops[r] = "idle"
<1>1. o \in Outstanding
  BY OperationsListed, Peers DEF Outstanding
<1>2. /\ o # Connect /\ o # Resolve
      /\ \A r \in {Read(p), Write(Other(p)), Connect} \cap Outstanding : r = o
  BY <1>1, OperationsDiffer, Peers DEF AtMostOne
<1>3. connection_state = "connecte_to_proxy_server"
  BY <1>1, <1>2 DEF ControlInvariant, NotConnecting
<1>4. ~connecting
  BY <1>1, <1>2 DEF ControlInvariant, ConnectingAlone
<1>5. \A r \in Operation : r \notin Outstanding => ops[r] = "idle"
  BY DEF Outstanding
<1> QED
  BY <1>2, <1>3, <1>4, <1>5, OperationsListed, Peers

\* A read has arrived: it moves to the buffer of the write.
LEMMA DataArrivedKeeps ==
  ASSUME ControlInvariant, AtMostOne, DataInvariant, NEW p \in Peer, DataArrived(p)
  PROVE  DataInvariant'
<1> DEFINE q == Other(p)
<1>1. /\ Runs(Read(p), "ok") /\ Returns(Read(p), {Write(q)}, {Write(q)})
      /\ counted_in' = [counted_in EXCEPT ![p] = @ + Len(read_buffer[p])]
      /\ write_buffer' = [write_buffer EXCEPT ![p] = read_buffer[p]]
      /\ read_buffer' = [read_buffer EXCEPT ![p] = <<>>]
      /\ UNCHANGED <<connection_state, socket, connecting, transferred, counted_out, peers>>
  BY DEF DataArrived
<1>2. /\ q \in Peer /\ q # p /\ Other(q) = p
      /\ Read(p) \in Operation /\ Write(q) \in Operation
  BY Peers, OperationsListed
<1>3. timer_pending /\ ops[Read(p)] = "ok" /\ ops \in [Operation -> Result]
  BY <1>1 DEF Runs, ControlInvariant, ControlTypeOK
<1>4. /\ connection_state = "connecte_to_proxy_server" /\ ~connecting
      /\ ops[Connect] = "idle"
  BY <1>3, OthersIdle
<1>5. \A r \in Operation : ops'[r] = IF r = Write(q) THEN "pending"
                                    ELSE IF r = Read(p) THEN "idle" ELSE ops[r]
  BY <1>1 DEF Returns
<1>6. DataTypeOK'
  <2>1. Len(read_buffer[p]) \in Nat /\ <<>> \in Seq(Units)
    BY DirectionTypes, EmptySeq DEF DataInvariant
  <2>2. read_buffer' \in [Peer -> Seq(Units)] /\ write_buffer' \in [Peer -> Seq(Units)]
    BY <1>1, <2>1 DEF DataInvariant, DataTypeOK
  <2>3. counted_in' \in [Peer -> Nat]
    BY <1>1, <2>1 DEF DataInvariant, DataTypeOK
  <2> QED
    BY <1>1, <2>2, <2>3 DEF DataInvariant, DataTypeOK
<1>7. /\ read_buffer'[p] = <<>> /\ write_buffer'[p] = read_buffer[p]
      /\ counted_in'[p] = counted_in[p] + Len(read_buffer[p])
  BY <1>1 DEF DataInvariant, DataTypeOK
<1>8. write_buffer[p] = <<>> /\ transferred[p] = 0 /\ Direction(p)
  BY <1>3 DEF DataInvariant, Direction, BuffersFit
<1>9. Direction(p)'
  <2>1. Bounded(p)'
    BY <1>1, <1>7, <1>8, DirectionTypes, EmptySeq, ClientAssumption
       DEF DataInvariant, Direction, Bounded
  <2>2. BuffersFit(p)'
    <3>1. /\ ops'[Read(p)] = "idle" /\ ops'[Write(q)] = "pending" /\ ops'[Connect] = "idle"
      BY <1>2, <1>4, <1>5, OperationsDiffer, OperationsListed
    <3> QED
      BY <1>1, <1>4, <1>7, <1>8, <3>1 DEF BuffersFit
  <2>3. Held(p)' = Held(p)
    <3>1. Rest(write_buffer[p], transferred[p]) = <<>>
      BY <1>8, RestOfNothing, EmptySeq
    <3>2. read_buffer[p] \in Seq(Units)
      BY DirectionTypes DEF DataInvariant
    <3>3. Held(p) = read_buffer[p]
      BY <3>1, <3>2, ConcatEmptySeq DEF Held
    <3>4. Rest(write_buffer[p], transferred[p])' = read_buffer[p]
      BY <1>1, <1>7, <1>8, <3>2, RestOfNothing
    <3> QED
      BY <1>7, <3>2, <3>3, <3>4, ConcatEmptySeq DEF Held
  <2>4. Faithful(p)'
    BY <1>1, <1>8, <2>3 DEF Direction, Faithful, Said
  <2>5. Counted(p)'
    BY <1>1, <1>3, <1>7, <1>8, DirectionTypes, EmptySeq DEF DataInvariant, Direction, Counted
  <2> QED
    BY <2>1, <2>2, <2>4, <2>5 DEF Direction
<1>10. Direction(q)'
  <2>1. SameData(q)
    BY <1>1, <1>2 DEF SameData, DataInvariant, DataTypeOK
  <2>2. SameOps(q)
    <3>1. /\ \A r \in {Read(q), Write(Other(q))} : r \in Operation /\ r # Write(q) /\ r # Read(p)
          /\ Connect # Write(q) /\ Connect # Read(p) /\ Connect \in Operation
      BY <1>2, OperationsDiffer, OperationsListed
    <3> QED
      BY <1>1, <1>3, <1>5, <3>1 DEF SameOps
  <2> QED
    BY <1>2, <2>1, <2>2, DirectionKept DEF DataInvariant
<1> QED
  BY <1>2, <1>6, <1>9, <1>10, Peers DEF DataInvariant

\* Some or all of a buffer has been written: what is left is written next, and
\* only when nothing is left does the direction read again.
LEMMA DataWrittenKeeps ==
  ASSUME ControlInvariant, AtMostOne, DataInvariant, NEW p \in Peer, DataWritten(p)
  PROVE  DataInvariant'
<1> DEFINE q == Other(p)
           w == write_buffer[p]
           t == transferred[p]
           next == IF t < Len(w) THEN Write(q) ELSE Read(p)
<1>1. /\ Runs(Write(q), "ok") /\ Returns(Write(q), {next}, {next})
      /\ counted_out' = [counted_out EXCEPT ![p] = @ + transferred[p]]
      /\ write_buffer' = [write_buffer EXCEPT ![p] = Rest(@, transferred[p])]
      /\ transferred' = [transferred EXCEPT ![p] = 0]
      /\ UNCHANGED <<connection_state, socket, connecting, read_buffer, counted_in, peers>>
  BY DEF DataWritten
<1>2. /\ q \in Peer /\ q # p /\ Other(q) = p
      /\ Read(p) \in Operation /\ Write(q) \in Operation
  BY Peers, OperationsListed
<1>3. timer_pending /\ ops[Write(q)] = "ok" /\ ops \in [Operation -> Result]
  BY <1>1 DEF Runs, ControlInvariant, ControlTypeOK
<1>4. /\ connection_state = "connecte_to_proxy_server" /\ ~connecting
      /\ ops[Connect] = "idle" /\ ops[Read(p)] = "idle"
  BY <1>3, OthersIdle, OperationsDiffer, Peers
<1>5. \A r \in Operation : ops'[r] = IF r = next THEN "pending"
                                    ELSE IF r = Write(q) THEN "idle" ELSE ops[r]
  BY <1>1 DEF Returns
<1>6. /\ Direction(p) /\ read_buffer[p] = <<>> /\ w \in Seq(Units) /\ t \in 0 .. Len(w)
      /\ Len(w) \in Nat /\ counted_in[p] \in Nat /\ counted_out[p] \in Nat
  BY <1>3, DirectionTypes DEF DataInvariant, Direction, BuffersFit, Bounded
<1>7. Rest(w, t) \in Seq(Units) /\ Len(Rest(w, t)) = Len(w) - t
  BY <1>6, RestProperties
<1>8. DataTypeOK'
  <2>1. write_buffer' \in [Peer -> Seq(Units)]
    BY <1>1, <1>7 DEF DataInvariant, DataTypeOK
  <2>2. transferred' \in [Peer -> Nat]
    BY <1>1 DEF DataInvariant, DataTypeOK
  <2>3. counted_out' \in [Peer -> Nat]
    BY <1>1, <1>6 DEF DataInvariant, DataTypeOK
  <2> QED
    BY <1>1, <2>1, <2>2, <2>3 DEF DataInvariant, DataTypeOK
<1>9. /\ read_buffer'[p] = <<>> /\ write_buffer'[p] = Rest(w, t) /\ transferred'[p] = 0
      /\ counted_out'[p] = counted_out[p] + t
  BY <1>1, <1>6 DEF DataInvariant, DataTypeOK
<1>10. Direction(p)'
  <2>1. Bounded(p)'
    BY <1>6, <1>7, <1>9, EmptySeq, ClientAssumption DEF Direction, Bounded
  <2>2. BuffersFit(p)'
    <3>1. CASE t < Len(w)
      <4>1. ops'[Read(p)] = "idle" /\ ops'[Write(q)] = "pending" /\ ops'[Connect] = "idle"
        BY <1>2, <1>4, <1>5, <3>1, OperationsDiffer, OperationsListed
      <4> QED
        BY <1>1, <1>4, <1>9, <4>1 DEF BuffersFit
    <3>2. CASE ~(t < Len(w))
      <4>1. ops'[Read(p)] = "pending" /\ ops'[Write(q)] = "idle" /\ ops'[Connect] = "idle"
        BY <1>2, <1>4, <1>5, <3>2, OperationsDiffer, OperationsListed
      <4>2. Rest(w, t) = <<>>
        <5>1. Len(Rest(w, t)) = 0
          BY <1>6, <1>7, <3>2
        <5> QED
          BY <1>7, <5>1, EmptySeq
      <4> QED
        BY <1>9, <4>1, <4>2 DEF BuffersFit, Empty
    <3> QED
      BY <3>1, <3>2
  <2>3. Held(p)' = Held(p)
    <3>1. Rest(Rest(w, t), 0) = Rest(w, t)
      BY <1>7, RestOfNothing
    <3> QED
      BY <1>6, <1>9, <3>1 DEF Held
  <2>4. Faithful(p)'
    BY <1>1, <1>6, <2>3 DEF Direction, Faithful, Said
  <2>5. Counted(p)'
    <3>1. counted_in[p] = counted_out[p] + Len(w)
      BY <1>3, <1>6 DEF Direction, Counted
    <3> QED
      BY <1>1, <1>6, <1>7, <1>9, <3>1 DEF Counted
  <2> QED
    BY <2>1, <2>2, <2>4, <2>5 DEF Direction
<1>11. Direction(q)'
  <2>1. SameData(q)
    BY <1>1, <1>2 DEF SameData, DataInvariant, DataTypeOK
  <2>2. SameOps(q)
    <3>1. /\ \A r \in {Read(q), Write(Other(q))} : r \in Operation /\ r # Write(q) /\ r # Read(p)
          /\ Connect # Write(q) /\ Connect # Read(p) /\ Connect \in Operation
      BY <1>2, OperationsDiffer, OperationsListed
    <3>2. next \in {Write(q), Read(p)}
      OBVIOUS
    <3> QED
      BY <1>1, <1>3, <1>5, <3>1, <3>2 DEF SameOps
  <2> QED
    BY <1>2, <2>1, <2>2, DirectionKept DEF DataInvariant
<1> QED
  BY <1>2, <1>8, <1>10, <1>11, Peers DEF DataInvariant

\* A completion changes the result of one operation and no other control.
LEMMA CompletesChanges ==
  ASSUME ControlInvariant, NEW o \in Operation, NEW result \in {"ok", "error"},
         Completes(o, result)
  PROVE  /\ ops[o] = "pending"
         /\ \A r \in Operation : ops'[r] = IF r = o THEN result ELSE ops[r]
         /\ UNCHANGED <<connection_state, connecting, timer_pending, stat>>
  BY DEF Completes, ControlInvariant, ControlTypeOK

\* A read takes the beginning of the stream, and finds empty buffers.
LEMMA ReadSomeKeeps ==
  ASSUME ControlInvariant, AtMostOne, DataInvariant, NEW p \in Peer, ReadSome(p)
  PROVE  DataInvariant'
<1> DEFINE q == Other(p)
           st == peers[p].stream
<1>1. PICK n \in 1 .. Len(st) :
        /\ n <= ReadSize
        /\ read_buffer' = [read_buffer EXCEPT ![p] = SubSeq(peers[p].stream, 1, n)]
        /\ peers' = [peers EXCEPT ![p].stream = SubSeq(@, n + 1, Len(@))]
  BY DEF ReadSome
<1>2. Completes(Read(p), "ok") /\ UNCHANGED <<write_buffer, transferred>>
  BY DEF ReadSome
<1>3. q \in Peer /\ q # p /\ Other(q) = p /\ Read(p) \in Operation
  BY Peers, OperationsListed
<1>4. /\ ops[Read(p)] = "pending"
      /\ \A r \in Operation : ops'[r] = IF r = Read(p) THEN "ok" ELSE ops[r]
      /\ UNCHANGED <<connection_state, connecting, timer_pending, counted_in, counted_out>>
  BY <1>2, <1>3, CompletesChanges DEF stat
<1>5. Direction(p) /\ Empty(p)
  BY <1>4 DEF DataInvariant, Direction, BuffersFit
<1>6. /\ st \in Seq(Units) /\ Len(st) \in Nat /\ peers[q].heard \in Seq(Units)
      /\ n \in 0 .. Len(st)
  BY <1>1, DirectionTypes DEF DataInvariant
<1>7. /\ SubSeq(st, 1, n) \in Seq(Units) /\ Len(SubSeq(st, 1, n)) = n
      /\ SubSeq(st, n + 1, Len(st)) \in Seq(Units)
      /\ SubSeq(st, 1, n) \o SubSeq(st, n + 1, Len(st)) = st
  BY <1>6, CutInTwo
<1>8. /\ read_buffer'[p] = SubSeq(st, 1, n) /\ peers'[p].stream = SubSeq(st, n + 1, Len(st))
      /\ peers'[p].said = peers[p].said
      /\ peers'[q] = peers[q] /\ read_buffer'[q] = read_buffer[q]
      /\ peers'[p].heard = peers[p].heard /\ peers'[p].open = peers[p].open
  BY <1>1, <1>3 DEF DataInvariant, DataTypeOK
<1>9. DataTypeOK'
  <2>1. peers' \in [Peer -> [said : 0 .. MaxUnits, stream : Seq(Units), heard : Seq(Units),
                             open : BOOLEAN]]
    BY <1>1, <1>7 DEF DataInvariant, DataTypeOK
  <2> QED
    BY <1>1, <1>2, <1>4, <1>7, <2>1 DEF DataInvariant, DataTypeOK
<1>10. Direction(p)'
  <2>1. Bounded(p)'
    BY <1>1, <1>2, <1>5, <1>7, <1>8 DEF Direction, Bounded, ReadSize
  <2>2. BuffersFit(p)'
    <3>1. /\ ops'[Read(p)] = "ok" /\ ops'[Write(q)] = ops[Write(q)]
          /\ ops'[Connect] = ops[Connect]
      BY <1>3, <1>4, OperationsDiffer, OperationsListed
    <3>2. /\ ops[Write(q)] = "idle" /\ ops[Connect] = "idle"
          /\ connection_state = "connecte_to_proxy_server" /\ ~connecting
      BY <1>4, OthersIdle, OperationsDiffer, Peers
    <3> QED
      BY <1>2, <1>4, <1>5, <3>1, <3>2 DEF BuffersFit, Empty
  <2>3. Faithful(p)'
    <3> DEFINE h == peers[q].heard
               a == SubSeq(st, 1, n)
               b == SubSeq(st, n + 1, Len(st))
    <3>1. Held(p) = <<>> /\ Held(p)' = a
      <4>1. Rest(<<>>, 0) = <<>>
        BY RestOfNothing, EmptySeq
      <4>2. <<>> \o <<>> = <<>> /\ <<>> \o a = a
        BY <1>7, ConcatEmptySeq, EmptySeq
      <4> HIDE DEF a
      <4>3. read_buffer'[p] = a
        BY <1>8 DEF a
      <4> QED
        BY <1>2, <1>5, <4>1, <4>2, <4>3 DEF Held, Empty
    <3>2. (h \o <<>>) \o (a \o b) = (h \o a) \o b
      <4>1. h \in Seq(Units) /\ a \in Seq(Units) /\ b \in Seq(Units)
        BY <1>6, <1>7
      <4> HIDE DEF h, a, b
      <4>2. h \o <<>> = h
        BY <4>1, ConcatEmptySeq
      <4>3. h \o (a \o b) = (h \o a) \o b
        BY <4>1
      <4> QED
        BY <4>2, <4>3
    <3> QED
      BY <1>5, <1>7, <1>8, <3>1, <3>2 DEF Direction, Faithful, Said
  <2>4. Counted(p)'
    BY <1>2, <1>4, <1>5 DEF Direction, Counted
  <2> QED
    BY <2>1, <2>2, <2>3, <2>4 DEF Direction
<1>11. Direction(q)'
  <2>1. SameData(q)
    BY <1>2, <1>3, <1>4, <1>8 DEF SameData
  <2>2. SameOps(q)
    BY <1>3, <1>4, OperationsDiffer, OperationsListed DEF SameOps
  <2> QED
    BY <1>3, <2>1, <2>2, DirectionKept DEF DataInvariant
<1> QED
  BY <1>3, <1>9, <1>10, <1>11, Peers DEF DataInvariant

\* A write hands over the beginning of its buffer.
LEMMA WriteSomeKeeps ==
  ASSUME ControlInvariant, AtMostOne, DataInvariant, NEW p \in Peer, WriteSome(p)
  PROVE  DataInvariant'
<1> DEFINE q == Other(p)
           w == write_buffer[p]
           h == peers[q].heard
<1>1. PICK n \in 1 .. Len(w) :
        /\ transferred' = [transferred EXCEPT ![p] = n]
        /\ peers' = IF peers[q].open
                    THEN [peers EXCEPT ![q].heard = @ \o SubSeq(write_buffer[p], 1, n)]
                    ELSE peers
  BY DEF WriteSome
<1>2. Completes(Write(q), "ok") /\ UNCHANGED <<read_buffer, write_buffer>>
  BY DEF WriteSome
<1>3. q \in Peer /\ q # p /\ Other(q) = p /\ Write(q) \in Operation
  BY Peers, OperationsListed
<1>4. /\ ops[Write(q)] = "pending"
      /\ \A r \in Operation : ops'[r] = IF r = Write(q) THEN "ok" ELSE ops[r]
      /\ UNCHANGED <<connection_state, connecting, timer_pending, counted_in, counted_out>>
  BY <1>2, <1>3, CompletesChanges DEF stat
<1>5. Direction(p) /\ read_buffer[p] = <<>> /\ transferred[p] = 0
  BY <1>4 DEF DataInvariant, Direction, BuffersFit
<1>6. /\ w \in Seq(Units) /\ Len(w) \in Nat /\ n \in 0 .. Len(w)
      /\ h \in Seq(Units) /\ peers[p].stream \in Seq(Units)
  BY <1>1, <1>3, DirectionTypes DEF DataInvariant
<1>7. /\ SubSeq(w, 1, n) \in Seq(Units) /\ Rest(w, n) \in Seq(Units)
      /\ SubSeq(w, 1, n) \o Rest(w, n) = w
      /\ h \o SubSeq(w, 1, n) \in Seq(Units)
  BY <1>6, CutInTwo, RestProperties, ConcatProperties
<1>8. /\ transferred'[p] = n /\ transferred'[q] = transferred[q]
      /\ peers'[p] = peers[p]
      /\ peers'[q].said = peers[q].said /\ peers'[q].stream = peers[q].stream
      /\ peers'[q].open = peers[q].open
      /\ peers'[q].heard = IF peers[q].open THEN h \o SubSeq(w, 1, n) ELSE h
  BY <1>1, <1>3 DEF DataInvariant, DataTypeOK
<1>9. DataTypeOK'
  <2>1. peers' \in [Peer -> [said : 0 .. MaxUnits, stream : Seq(Units), heard : Seq(Units),
                             open : BOOLEAN]]
    <3>1. CASE peers[q].open
      BY <1>1, <1>7, <3>1 DEF DataInvariant, DataTypeOK
    <3>2. CASE ~peers[q].open
      BY <1>1, <3>2 DEF DataInvariant, DataTypeOK
    <3> QED
      BY <3>1, <3>2
  <2>2. transferred' \in [Peer -> Nat]
    BY <1>1, <1>6 DEF DataInvariant, DataTypeOK
  <2> QED
    BY <1>2, <1>4, <2>1, <2>2 DEF DataInvariant, DataTypeOK
<1>10. Direction(p)'
  <2>1. Bounded(p)'
    BY <1>2, <1>5, <1>6, <1>8 DEF Direction, Bounded
  <2>2. BuffersFit(p)'
    <3>1. /\ ops'[Read(p)] = ops[Read(p)] /\ ops'[Write(q)] = "ok"
          /\ ops'[Connect] = ops[Connect]
      BY <1>3, <1>4, OperationsDiffer, OperationsListed
    <3>2. /\ ops[Read(p)] = "idle" /\ ops[Connect] = "idle"
          /\ connection_state = "connecte_to_proxy_server" /\ ~connecting
      BY <1>4, OthersIdle, OperationsDiffer, Peers
    <3> QED
      BY <1>2, <1>4, <1>5, <3>1, <3>2 DEF BuffersFit, Empty
  <2>3. Held(p) = w /\ Held(p)' = Rest(w, n)
    <3>1. Rest(w, 0) = w
      BY <1>6, RestOfNothing
    <3> QED
      BY <1>2, <1>5, <1>6, <1>7, <1>8, <3>1, ConcatEmptySeq DEF Held
  <2>4. Said(p)' = Said(p)
    BY <1>8 DEF Said
  <2>5. CASE peers[q].open
    <3> DEFINE a == SubSeq(w, 1, n)
               b == Rest(w, n)
               st == peers[p].stream
    <3>1. h \in Seq(Units) /\ a \in Seq(Units) /\ b \in Seq(Units)
      BY <1>6, <1>7
    <3>2. (h \o (a \o b)) \o st = Said(p)
      BY <1>5, <1>7, <2>3, <2>5 DEF Direction, Faithful
    <3>3. peers'[q].heard = h \o a /\ Held(p)' = b /\ peers'[p].stream = st
      BY <1>8, <2>3, <2>5
    <3>4. h \o (a \o b) = (h \o a) \o b
      <4> HIDE DEF h, a, b
      <4> QED
        BY <3>1
    <3>5. /\ ((h \o a) \o b) \o st = Said(p)
          /\ IsPrefix(h \o a, ((h \o a) \o b) \o st)
      <4>1. h \o a \in Seq(Units) /\ st \in Seq(Units)
        BY <1>6, <1>7
      <4> HIDE DEF h, a, b, st
      <4>2. IsPrefix(h \o a, ((h \o a) \o b) \o st)
        BY <3>1, <4>1, AllThereIsPrefix
      <4> QED
        BY <3>2, <3>4, <4>2
    <3>6. Faithful(p)'
      BY <2>4, <3>3, <3>5 DEF Faithful
    <3>7. Counted(p)'
      BY <1>2, <1>4, <1>5 DEF Direction, Counted
    <3> QED
      BY <2>1, <2>2, <3>6, <3>7 DEF Direction
  <2>6. CASE ~peers[q].open
    <3>1. Faithful(p)'
      BY <1>5, <1>8, <2>4, <2>6 DEF Direction, Faithful
    <3>2. Counted(p)'
      BY <1>2, <1>4, <1>5 DEF Direction, Counted
    <3> QED
      BY <2>1, <2>2, <3>1, <3>2 DEF Direction
  <2> QED
    BY <2>5, <2>6
<1>11. Direction(q)'
  <2>1. SameData(q)
    BY <1>2, <1>3, <1>4, <1>8 DEF SameData
  <2>2. SameOps(q)
    BY <1>3, <1>4, OperationsDiffer, OperationsListed DEF SameOps
  <2> QED
    BY <1>3, <2>1, <2>2, DirectionKept DEF DataInvariant
<1> QED
  BY <1>3, <1>9, <1>10, <1>11, Peers DEF DataInvariant

\* A peer says one unit more.
LEMMA SaysKeeps ==
  ASSUME DataInvariant, NEW p \in Peer, Says(p)
  PROVE  DataInvariant'
<1> DEFINE q == Other(p)
           st == peers[p].stream
           e == peers[p].said + 1
<1>1. /\ peers[p].said < MaxUnits
      /\ peers' = [peers EXCEPT ![p].said = @ + 1,
                                ![p].stream = Append(@, peers[p].said + 1)]
      /\ UNCHANGED <<connection_state, ops, connecting, timer_pending, read_buffer,
                     write_buffer, transferred, counted_in, counted_out>>
  BY DEF Says, buffers, stat
<1>2. q \in Peer /\ q # p /\ Other(q) = p
  BY Peers
<1>3. /\ Direction(p) /\ st \in Seq(Units) /\ peers[p].said \in 0 .. MaxUnits
      /\ peers[q].heard \in Seq(Units) /\ Said(p) \in Seq(Units)
      /\ read_buffer[p] \in Seq(Units) /\ write_buffer[p] \in Seq(Units)
      /\ transferred[p] \in 0 .. Len(write_buffer[p])
  BY DirectionTypes, SaidIsSequence DEF DataInvariant, Direction, Bounded
<1>4. e \in Units /\ e \in 0 .. MaxUnits /\ Append(st, e) \in Seq(Units)
  <2>1. e \in Units /\ e \in 0 .. MaxUnits
    <3>1. peers[p].said \in 0 .. MaxUnits /\ peers[p].said < MaxUnits
      BY <1>1, <1>3
    <3> QED
      BY <3>1, ClientAssumption DEF Units
  <2>2. st \in Seq(Units)
    BY <1>3
  <2> HIDE DEF e, st
  <2> QED
    BY <2>1, <2>2, AppendProperties
<1>5. /\ peers'[p].said = e /\ peers'[p].stream = Append(st, e)
      /\ peers'[p].heard = peers[p].heard /\ peers'[p].open = peers[p].open
      /\ peers'[q] = peers[q]
  BY <1>1, <1>2 DEF DataInvariant, DataTypeOK
<1>6. DataTypeOK'
  <2> DEFINE Record == [said : 0 .. MaxUnits, stream : Seq(Units), heard : Seq(Units),
                        open : BOOLEAN]
  <2>1. peers \in [Peer -> Record]
    BY DEF DataInvariant, DataTypeOK
  <2>2. [peers[p] EXCEPT !.said = e, !.stream = Append(st, e)] \in Record
    <3>1. peers[p] \in Record
      BY <2>1
    <3> HIDE DEF e, st
    <3> QED
      BY <1>4, <3>1
  <2>3. peers' = [peers EXCEPT ![p] = [peers[p] EXCEPT !.said = e, !.stream = Append(st, e)]]
    BY <1>1, <2>1
  <2>4. peers' \in [Peer -> Record]
    BY <2>1, <2>2, <2>3
  <2> QED
    BY <1>1, <2>4 DEF DataInvariant, DataTypeOK
<1>7. Said(p)' = Append(Said(p), e)
  BY <1>3, <1>5, SaidIsSequence, ClientAssumption DEF Said, DataInvariant
<1>8. Held(p)' = Held(p) /\ Held(p) \in Seq(Units)
  BY <1>1, <1>3, RestProperties, ConcatProperties DEF Held
<1>9. Faithful(p)'
  <2> DEFINE hh == peers[q].heard \o Held(p)
  <2>1. hh \in Seq(Units)
    BY <1>3, <1>8, ConcatProperties
  <2>2. hh \o Append(st, e) = Append(hh \o st, e)
    <3>1. hh \in Seq(Units) /\ st \in Seq(Units) /\ e \in Units
      BY <1>3, <1>4, <2>1
    <3> HIDE DEF hh, st, e
    <3> QED
      BY <3>1, SaidLast
  <2>3. IsPrefix(peers[q].heard, Append(Said(p), e))
    BY <1>3, <1>4, PrefixOfAppend DEF Direction, Faithful
  <2>4. peers[q].open => hh \o Append(st, e) = Append(Said(p), e)
    BY <1>3, <2>2 DEF Direction, Faithful
  <2> QED
    BY <1>5, <1>7, <1>8, <2>3, <2>4 DEF Faithful
<1>10. Direction(p)'
  BY <1>1, <1>3, <1>9 DEF Direction, Bounded, BuffersFit, Empty, Counted
<1>11. Direction(q)'
  <2>1. SameData(q) /\ SameOps(q)
    BY <1>1, <1>2, <1>5 DEF SameData, SameOps
  <2> QED
    BY <1>2, <2>1, DirectionKept DEF DataInvariant
<1> QED
  BY <1>2, <1>6, <1>10, <1>11, Peers DEF DataInvariant

\* A peer that closes its end leaves what it has said to be relayed.
LEMMA ClosesKeeps ==
  ASSUME DataInvariant, NEW p \in Peer, Closes(p)
  PROVE  DataInvariant'
<1>1. /\ peers' = [peers EXCEPT ![p].open = FALSE]
      /\ UNCHANGED <<connection_state, ops, connecting, timer_pending, read_buffer,
                     write_buffer, transferred, counted_in, counted_out>>
  BY DEF Closes, buffers, stat
<1>2. DataTypeOK'
  <2> DEFINE Record == [said : 0 .. MaxUnits, stream : Seq(Units), heard : Seq(Units),
                        open : BOOLEAN]
  <2>1. peers \in [Peer -> Record]
    BY DEF DataInvariant, DataTypeOK
  <2>2. [peers[p] EXCEPT !.open = FALSE] \in Record
    BY <2>1
  <2>3. peers' \in [Peer -> Record]
    BY <1>1, <2>1, <2>2
  <2> QED
    BY <1>1, <2>3 DEF DataInvariant, DataTypeOK
<1>3. ASSUME NEW r \in Peer PROVE Direction(r)'
  <2>1. ASSUME NEW s \in Peer
        PROVE  /\ peers'[s].said = peers[s].said /\ peers'[s].stream = peers[s].stream
               /\ peers'[s].heard = peers[s].heard
               /\ peers'[s].open => peers[s].open
    BY <1>1 DEF DataInvariant, DataTypeOK
  <2>2. SameData(r)
    BY <1>1, <2>1, Peers DEF SameData
  <2>3. SameOps(r)
    BY <1>1 DEF SameOps
  <2> QED
    BY <2>2, <2>3, DirectionKept DEF DataInvariant
<1> QED
  BY <1>2, <1>3 DEF DataInvariant

\* A step that leaves the data alone, and starts nothing, keeps what holds of them.
LEMMA NothingStarted ==
  ASSUME DataInvariant, UNCHANGED <<buffers, stat, peers>>, \A p \in Peer : SameOps(p)
  PROVE  DataInvariant'
<1>1. DataTypeOK'
  BY DEF DataInvariant, DataTypeOK, buffers, stat
<1>2. ASSUME NEW p \in Peer PROVE Direction(p)'
  <2>1. SameData(p)
    BY DEF SameData, buffers, stat
  <2> QED
    BY <2>1, DirectionKept DEF DataInvariant
<1> QED
  BY <1>1, <1>2 DEF DataInvariant

\* So does one that may start something while there are none.
LEMMA NoDataYet ==
  ASSUME DataInvariant, UNCHANGED <<buffers, stat, peers>>,
         \/ connection_state # "connecte_to_proxy_server"
         \/ connecting
         \/ ops[Connect] # "idle",
         timer_pending' \/ connection_state' = "ready" =>
           timer_pending \/ connection_state = "ready"
  PROVE  DataInvariant'
<1>1. DataTypeOK'
  BY DEF DataInvariant, DataTypeOK, buffers, stat
<1>2. ASSUME NEW p \in Peer PROVE Direction(p)'
  <2>1. SameData(p)
    BY DEF SameData, buffers, stat
  <2>2. Direction(p) /\ Empty(p)
    BY DEF DataInvariant, Direction, BuffersFit
  <2> QED
    BY <2>1, <2>2, EmptyKept
<1> QED
  BY <1>1, <1>2 DEF DataInvariant

\* The handlers.
LEMMA HandlerKeeps ==
  ASSUME ControlInvariant, AtMostOne, DataInvariant, Handler
  PROVE  DataInvariant'
<1>1. CASE Resolved
  <2>1. Outstanding = {Resolve} /\ timer_pending
    BY <1>1, ResolvedControl DEF Resolved, Runs
  <2>2. connection_state # "connecte_to_proxy_server"
    BY <2>1, OperationsDiffer, Peers DEF ControlInvariant, OperationsFitState
  <2>3. UNCHANGED <<buffers, stat, peers>>
    BY <1>1 DEF Resolved
  <2> QED
    BY <2>1, <2>2, <2>3, NoDataYet
<1>2. CASE AsyncConnect
  BY <1>2, NoDataYet DEF AsyncConnect
<1>3. CASE Connected
  BY <1>3, NoDataYet DEF Connected, Runs
<1>4. CASE \E p \in Peer : DataArrived(p) \/ DataWritten(p)
  BY <1>4, DataArrivedKeeps, DataWrittenKeeps
<1>5. ASSUME NEW o \in Operation, OnError(o) \/ LateCompletion(o)
      PROVE  DataInvariant'
  <2>1. /\ UNCHANGED <<connection_state, connecting>>
        /\ UNCHANGED <<buffers, stat, peers>>
        /\ timer_pending' => timer_pending
    BY <1>5 DEF OnError, LateCompletion, Runs
  <2>2. \A r \in Operation : ops'[r] \in {ops[r], "idle"}
    <3>1. ops \in [Operation -> Result]
      BY DEF ControlInvariant, ControlTypeOK
    <3>2. CASE OnError(o)
      BY <3>1, <3>2 DEF OnError, Returns
    <3>3. CASE LateCompletion(o)
      BY <3>1, <3>3 DEF LateCompletion
    <3> QED
      BY <1>5, <3>2, <3>3
  <2>3. \A p \in Peer : SameOps(p)
    BY <2>1, <2>2, OperationsListed, Peers DEF SameOps
  <2> QED
    BY <2>1, <2>3, NothingStarted
<1>6. CASE OnTimeout
  <2>1. /\ UNCHANGED <<connection_state, ops, connecting, timer_pending>>
        /\ UNCHANGED <<buffers, stat, peers>>
    BY <1>6 DEF OnTimeout
  <2> QED
    BY <2>1, NothingStarted DEF SameOps
<1> QED
  BY <1>1, <1>2, <1>3, <1>4, <1>5, <1>6 DEF Handler

\* The kernel and the resolver.
LEMMA KernelKeeps ==
  ASSUME ControlInvariant, AtMostOne, DataInvariant, Kernel
  PROVE  DataInvariant'
<1>1. CASE \E p \in Peer : ReadSome(p) \/ WriteSome(p)
  BY <1>1, ReadSomeKeeps, WriteSomeKeeps
<1>2. CASE EndpointConnected
  <2>1. Completes(Connect, "ok") /\ UNCHANGED <<buffers, peers>>
    BY <1>2 DEF EndpointConnected
  <2>2. ops[Connect] = "pending" /\ UNCHANGED <<timer_pending, connection_state, stat>>
    BY <2>1 DEF Completes
  <2> QED
    BY <2>1, <2>2, NoDataYet
<1>3. ASSUME NEW o \in Operation, NEW result \in {"ok", "error"}, Completes(o, result),
             result = "error" \/ o = Resolve, UNCHANGED <<buffers, peers>>
      PROVE  DataInvariant'
  <2>1. /\ ops[o] = "pending"
        /\ \A r \in Operation : ops'[r] = IF r = o THEN result ELSE ops[r]
        /\ UNCHANGED <<connection_state, connecting, timer_pending, stat>>
    BY <1>3, CompletesChanges
  <2>2. \A p \in Peer : SameOps(p)
    BY <1>3, <2>1, OperationsDiffer, OperationsListed, Peers DEF SameOps
  <2> QED
    BY <1>3, <2>1, <2>2, NothingStarted
<1>4. CASE NameResolved
  BY <1>3, <1>4, OperationsListed DEF NameResolved
<1>5. CASE \E o \in Operation : OperationFails(o)
  BY <1>3, <1>5 DEF OperationFails
<1> QED
  BY <1>1, <1>2, <1>4, <1>5 DEF Kernel

\* Every step.
LEMMA StepKeepsData ==
  ASSUME ControlInvariant, AtMostOne, DataInvariant, [Next]_vars
  PROVE  DataInvariant'
<1>1. CASE Start
  BY <1>1, NoDataYet DEF Start
<1>2. CASE Handler
  BY <1>2, HandlerKeeps
<1>3. CASE Kernel
  BY <1>3, KernelKeeps
<1>4. CASE \E p \in Peer : Says(p) \/ Closes(p)
  BY <1>4, SaysKeeps, ClosesKeeps
<1>5. CASE Destroy \/ TimerExpires \/ Terminated \/ UNCHANGED vars
  <2>1. /\ UNCHANGED <<connection_state, ops, connecting>>
        /\ UNCHANGED <<buffers, stat, peers>>
        /\ timer_pending' => timer_pending
    BY <1>5 DEF Destroy, TimerExpires, Terminated, vars
  <2> QED
    BY <2>1, NothingStarted DEF SameOps
<1> QED
  BY <1>1, <1>2, <1>3, <1>4, <1>5 DEF Next

-----------------------------------------------------------------------------
(* The theorems. *)

\* What holds of the data holds in every reachable state, with what the control
\* invariant says of the operations.
THEOREM DataIsInvariant == Spec => [](ControlInvariant /\ AtMostOne /\ DataInvariant)
<1>1. Init => ControlInvariant /\ AtMostOne /\ DataInvariant
  <2> SUFFICES ASSUME Init PROVE ControlInvariant /\ AtMostOne /\ DataInvariant
    OBVIOUS
  <2>1. Outstanding = {}
    BY DEF Init, Outstanding
  <2> QED
    BY <2>1, InitialControl, InitialData DEF AtMostOne
<1>2. ControlInvariant /\ AtMostOne /\ DataInvariant /\ [Next]_vars
        => (ControlInvariant /\ AtMostOne /\ DataInvariant)'
  BY StepIsSafe, AtMostOneKept, StepKeepsData DEF SafeStep
<1> QED
  BY <1>1, <1>2, PTL DEF Spec

\* The type invariant, and with it that no read overruns its buffer and no write
\* takes more than it was given.
THEOREM TypeOKHolds == Spec => []TypeOK
<1>1. ControlInvariant /\ AtMostOne /\ DataInvariant => TypeOK
  <2> SUFFICES ASSUME ControlInvariant, DataInvariant PROVE TypeOK
    OBVIOUS
  <2>1. ASSUME NEW p \in Peer
        PROVE  /\ {Len(read_buffer[p]), Len(write_buffer[p])} \subseteq 0 .. BufferLength
               /\ transferred[p] \in 0 .. BufferLength
    BY DirectionTypes, ClientAssumption DEF DataInvariant, Direction, Bounded
  <2>2. transferred \in [Peer -> 0 .. BufferLength]
    BY <2>1 DEF DataInvariant, DataTypeOK
  <2>3. aborted = FALSE
    BY DEF ControlInvariant, TimerDiscipline, ControlTypeOK
  <2> QED
    BY <2>1, <2>2, <2>3 DEF TypeOK, ControlInvariant, ControlTypeOK, Result,
       DataInvariant, DataTypeOK
<1> QED
  BY <1>1, DataIsInvariant, PTL

\* Whatever sizes the reads and the writes have, each peer hears what the other
\* said, in order, nothing missing and nothing twice.
THEOREM RelayFaithfulHolds == Spec => []RelayFaithful
<1>1. ControlInvariant /\ AtMostOne /\ DataInvariant => RelayFaithful
  BY DEF DataInvariant, Direction, Faithful, RelayFaithful
<1> QED
  BY <1>1, DataIsInvariant, PTL

\* What a direction has counted in and not out is in its write in flight.
THEOREM CountsAgreeHolds == Spec => []CountsAgree
<1>1. ControlInvariant /\ AtMostOne /\ DataInvariant => CountsAgree
  BY DEF DataInvariant, Direction, Counted, CountsAgree
<1> QED
  BY <1>1, DataIsInvariant, PTL
=============================================================================
