----------------------- MODULE ServerConnectionProofs -----------------------
(***************************************************************************)
(* Proofs about a server connection, for every choice of hosts, messages,  *)
(* bounds and faults: first its control, the operations, the timer and the *)
(* sockets, where data (what units the buffers hold) does not matter; then *)
(* its data, what units its buffers hold, what it knows of the request and *)
(* the response in hand, and which origin server it is connected to.       *)
(*                                                                         *)
(* The inductive invariant of the first part is ControlInvariant.  It is   *)
(* proved in two steps.  First, every step of the system is one of the     *)
(* control moves of ControlNext, which speaks of the control variables     *)
(* alone; second, the moves preserve the invariant, and are steps of       *)
(* Watchdog.  The second part is built in the same way: every step is one  *)
(* of the data moves of DataNext, and each conjunct of DataInvariant is    *)
(* preserved by the moves.                                                 *)
(***************************************************************************)
EXTENDS ServerConnectionSystem, SequenceTheorems, WellFoundedInduction, TLAPS

Sockets == {"open", "closed"}

\* The types of the control variables; of connection_context only that it is
\* a record with a state.
ControlTypeOK ==
  /\ "connection_state" \in DOMAIN connection_context
  /\ state \in ConnectionState
  /\ proxy_client_socket \in Sockets
  /\ origin_server_socket \in Sockets
  /\ ops \in [Operation -> {"idle", "pending", "ok", "error"}]
  /\ timer_pending \in BOOLEAN
  /\ timeout_due \in BOOLEAN
  /\ aborted \in {"no", "set_timer", "chunk_checker"}

\* A connection that is not started is open, and nothing happens on it.
NotStarted ==
  state = "read_cipher_data" =>
    /\ Outstanding = {}
    /\ ~timer_pending
    /\ ~timeout_due
    /\ proxy_client_socket = "open"

\* A connection whose client's socket is closed is not watched any more.
ClosedIsUnwatched == proxy_client_socket = "closed" => ~timer_pending

ControlInvariant ==
  /\ ControlTypeOK
  /\ TimerDiscipline
  /\ OperationsFitState
  /\ EverythingWatched
  /\ NotStarted
  /\ ClosedIsUnwatched

-----------------------------------------------------------------------------
(* What a handler's return does to the operations and the timer. *)

\* Returning after one timed call: that operation takes the place of the one
\* whose handler it was, and the timer runs.
LEMMA ReturnsOne ==
  ASSUME NEW o, NEW op \in Operation, NEW c, c = [op |-> op, timed |-> TRUE],
         ops \in [Operation -> {"idle", "pending", "ok", "error"}],
         Returns(o, {c})
  PROVE  /\ ops' \in [Operation -> {"idle", "pending", "ok", "error"}]
         /\ Outstanding' = (Outstanding \ {o}) \cup {op}
         /\ timer_pending' = TRUE
         /\ aborted' = "no"
         /\ timeout_due' = timeout_due
  BY DEF Returns, Outstanding

\* Returning without a call: the operation is over and the timer is not set.
LEMMA ReturnsNothing ==
  ASSUME NEW o,
         ops \in [Operation -> {"idle", "pending", "ok", "error"}],
         Returns(o, {})
  PROVE  /\ ops' \in [Operation -> {"idle", "pending", "ok", "error"}]
         /\ Outstanding' = Outstanding \ {o}
         /\ timer_pending' = FALSE
         /\ aborted' = "no"
         /\ timeout_due' = timeout_due
  BY DEF Returns, Outstanding

\* Returning after the two reads a tunnel begins with, of which one sets the
\* timer.
LEMMA ReturnsTunnelReads ==
  ASSUME NEW o,
         ops \in [Operation -> {"idle", "pending", "ok", "error"}],
         Returns(o, TunnelReads)
  PROVE  /\ ops' \in [Operation -> {"idle", "pending", "ok", "error"}]
         /\ Outstanding' = (Outstanding \ {o}) \cup {"read_client", "read_origin"}
         /\ timer_pending' = TRUE
         /\ aborted' = "no"
         /\ timeout_due' = timeout_due
  BY DEF Returns, Outstanding, TunnelReads, ReadClient, ReadOrigin, Operation

-----------------------------------------------------------------------------
(* The control moves. *)

\* The handler of o goes on with the operations "next", in state s.
Continues(o, next, s) ==
  /\ ops' \in [Operation -> {"idle", "pending", "ok", "error"}]
  /\ Outstanding' = (Outstanding \ {o}) \cup next
  /\ timer_pending' = TRUE
  /\ aborted' = "no"
  /\ timeout_due' = timeout_due
  /\ "connection_state" \in DOMAIN connection_context'
  /\ state' = s

\* The handler of o lets the connection go: it closes both sockets, or no
\* operation is left that would keep the connection from being destroyed.
LetsGo(o) ==
  /\ Outstanding' = Outstanding \ {o}
  /\ ~timer_pending'
  /\ UNCHANGED connection_context
  /\ \/ Outstanding' = {}
     \/ proxy_client_socket' = "closed" /\ origin_server_socket' = "closed"

\* A handler that found the timer running.
Turn(o) ==
  /\ timer_pending
  /\ o \in Outstanding
  /\ ControlTypeOK'
  /\ timeout_due' = timeout_due
  /\ aborted' # "set_timer"
  /\ state' # "read_cipher_data"
  /\ \/ /\ timer_pending'
        /\ \E next \in (SUBSET Operation) \ {{}} : Outstanding' = (Outstanding \ {o}) \cup next
        /\ Outstanding' \in OperationsOf(state')
        /\ proxy_client_socket' = proxy_client_socket
     \/ LetsGo(o)

Begins ==
  /\ state = "read_cipher_data"
  /\ Continues("start", {"read_client"}, "read_http_request_header")
  /\ UNCHANGED sockets

Drains(o) ==
  /\ ~timer_pending
  /\ o \in Outstanding
  /\ ops' \in [Operation -> {"idle", "pending", "ok", "error"}]
  /\ Outstanding' = Outstanding \ {o}
  /\ UNCHANGED <<connection_context, sockets, timer_pending, timeout_due, aborted>>

Expires ==
  /\ timer_pending
  /\ timer_pending' = FALSE
  /\ timeout_due' = TRUE
  /\ UNCHANGED <<connection_context, sockets, ops, aborted>>

TimesOut ==
  /\ timeout_due
  /\ timeout_due' = FALSE
  /\ ClosesBoth
  /\ UNCHANGED <<connection_context, ops, timer_pending, aborted>>

Destroyed ==
  /\ Gone
  /\ ClosesBoth
  /\ UNCHANGED <<connection_context, control>>

\* A step of the environment: an operation completes, a peer does something.
Quiet ==
  /\ ops' \in [Operation -> {"idle", "pending", "ok", "error"}]
  /\ Outstanding' = Outstanding
  /\ UNCHANGED <<connection_context, sockets, timer_pending, timeout_due, aborted>>

ControlNext ==
  \/ Begins
  \/ \E o \in Operation : Turn(o) \/ Drains(o)
  \/ Expires
  \/ TimesOut
  \/ Destroyed
  \/ Quiet

-----------------------------------------------------------------------------
(* What the operators shared by several handlers do. *)

\* The calls of the handlers, one by one.
LEMMA Calls ==
  /\ ReadClient = [op |-> "read_client", timed |-> TRUE]
  /\ ReadOrigin(TRUE) = [op |-> "read_origin", timed |-> TRUE]
  /\ WriteOrigin = [op |-> "write_origin", timed |-> TRUE]
  /\ WriteClient = [op |-> "write_client", timed |-> TRUE]
  /\ ResolveName = [op |-> "resolve", timed |-> TRUE]
  /\ Connect = [op |-> "connect", timed |-> TRUE]
  /\ {"read_client", "read_origin", "write_origin", "write_client", "resolve", "connect"}
       = Operation
  BY DEF ReadClient, ReadOrigin, WriteOrigin, WriteClient, ResolveName, Connect,
     Operation

\* A handler that returns after one timed call continues with that operation, in
\* the state it has put in connection_context.
LEMMA ContinuesTo ==
  ASSUME ControlTypeOK, NEW o, NEW op \in Operation, NEW c, c = [op |-> op, timed |-> TRUE],
         Returns(o, {c}), NEW s,
         "connection_state" \in DOMAIN connection_context', state' = s
  PROVE  Continues(o, {op}, s)
<1>1. ops \in [Operation -> {"idle", "pending", "ok", "error"}]
  BY DEF ControlTypeOK
<1> QED
  BY <1>1, ReturnsOne, Zenon DEF Continues

\* The same when it leaves connection_context alone ...
LEMMA ContinuesHere ==
  ASSUME ControlTypeOK, NEW o, NEW op \in Operation, NEW c, c = [op |-> op, timed |-> TRUE],
         Returns(o, {c}), UNCHANGED connection_context
  PROVE  Continues(o, {op}, state)
<1>1. "connection_state" \in DOMAIN connection_context' /\ state' = state
  BY Zenon DEF ControlTypeOK, state
<1> QED
  BY <1>1, ContinuesTo

\* ... and when it sets the state and nothing else.
LEMMA ContinuesWith ==
  ASSUME ControlTypeOK, NEW o, NEW op \in Operation, NEW c, c = [op |-> op, timed |-> TRUE],
         Returns(o, {c}), NEW s, connection_context' = Goto(s)
  PROVE  Continues(o, {op}, s)
<1>1. "connection_state" \in DOMAIN connection_context' /\ state' = s
  BY Zenon DEF ControlTypeOK, Goto, state
<1> QED
  BY <1>1, ContinuesTo

\* report_error() continues with the write of the error page.
LEMMA ReportErrorContinues ==
  ASSUME ControlTypeOK, NEW o, NEW status, ReportError(o, status)
  PROVE  Continues(o, {"write_client"}, "report_error")
  BY Calls, ContinuesWith DEF ReportError

\* Where on_connect leads: to the tunnel's 200, or to the origin's request.
ConnectsOn(o) ==
  \/ Continues(o, {"write_client"}, "report_connection_established")
  \/ Continues(o, {"write_origin"}, "write_http_request_header")

\* on_connect() continues with one of two writes.
LEMMA OnConnectContinues ==
  ASSUME ControlTypeOK, NEW o, NEW context, "connection_state" \in DOMAIN context,
         OnConnect(o, context)
  PROVE  ConnectsOn(o)
<1>1. CASE /\ Returns(o, {WriteClient})
           /\ connection_context' =
                [context EXCEPT !.connection_state = "report_connection_established"]
  <2>1. /\ "connection_state" \in DOMAIN connection_context'
        /\ state' = "report_connection_established"
    BY <1>1, Zenon DEF state
  <2> QED
    BY <1>1, <2>1, Calls, ContinuesTo DEF ConnectsOn
<1>2. CASE /\ Returns(o, {WriteOrigin})
           /\ connection_context' =
                [context EXCEPT !.connection_state = "write_http_request_header"]
  <2>1. /\ "connection_state" \in DOMAIN connection_context'
        /\ state' = "write_http_request_header"
    BY <1>2, Zenon DEF state
  <2> QED
    BY <1>2, <2>1, Calls, ContinuesTo DEF ConnectsOn
<1> QED
  BY <1>1, <1>2 DEF OnConnect

\* async_connect_to_origin_server() uses the connection it has or resolves a name.
LEMMA ConnectToOriginContinues ==
  ASSUME ControlTypeOK, NEW o, NEW socket \in Sockets, ConnectToOrigin(o, socket)
  PROVE  /\ \/ ConnectsOn(o)
            \/ Continues(o, {"resolve"}, "resolve_origin_server_address")
         /\ origin_server_socket' \in Sockets
<1> DEFINE r == client.requests[request_header']
<1>1. CASE SameOrigin(r, socket)
  <2>1. OnConnect(o, Kept) /\ origin_server_socket' = socket
    BY <1>1 DEF ConnectToOrigin
  <2>2. "connection_state" \in DOMAIN Kept
    BY Zenon DEF Kept, ControlTypeOK
  <2> QED
    BY <2>1, <2>2, OnConnectContinues
<1>2. CASE ~SameOrigin(r, socket)
  <2>1. /\ Returns(o, {ResolveName})
        /\ connection_context' =
             [Goto("resolve_origin_server_address") EXCEPT
                !.reconnect_on_error = FALSE, !.origin_server_name = r.host]
        /\ origin_server_socket' = IF r.method = "CONNECT" THEN "closed" ELSE socket
    BY <1>2 DEF ConnectToOrigin
  <2>2. /\ "connection_state" \in DOMAIN connection_context'
        /\ state' = "resolve_origin_server_address"
    BY <2>1, Zenon DEF ControlTypeOK, Goto, state
  <2>3. Continues(o, {"resolve"}, "resolve_origin_server_address")
    BY <2>1, <2>2, Calls, ContinuesTo
  <2> QED
    BY <2>1, <2>3 DEF Sockets
<1> QED
  BY <1>1, <1>2

\* on_resolved() uses the connection it has or makes one.
LEMMA OnResolvedContinues ==
  ASSUME ControlTypeOK, NEW o, NEW endpoints, NEW socket, OnResolved(o, endpoints, socket)
  PROVE  /\ \/ ConnectsOn(o)
            \/ Continues(o, {"connect"}, "connect_to_origin_server")
         /\ origin_server_socket' \in Sockets
<1>1. CASE socket = "open" /\ Contains(endpoints, connection_context.origin_server_endpoint)
  <2>1. OnConnect(o, Kept) /\ origin_server_socket' \in Sockets
    BY <1>1 DEF OnResolved, Sockets
  <2>2. "connection_state" \in DOMAIN Kept
    BY Zenon DEF Kept, ControlTypeOK
  <2> QED
    BY <2>1, <2>2, OnConnectContinues
<1>2. CASE ~(socket = "open"
             /\ Contains(endpoints, connection_context.origin_server_endpoint))
  <2>1. /\ Returns(o, {Connect})
        /\ connection_context' = ConnectingTo(Head(endpoints))
        /\ origin_server_socket' = "open"
    BY <1>2 DEF OnResolved
  <2>2. /\ "connection_state" \in DOMAIN connection_context'
        /\ state' = "connect_to_origin_server"
    BY <2>1, Zenon DEF ControlTypeOK, ConnectingTo, Goto, state
  <2>3. Continues(o, {"connect"}, "connect_to_origin_server")
    BY <2>1, <2>2, Calls, ContinuesTo
  <2> QED
    BY <2>1, <2>3 DEF Sockets
<1> QED
  BY <1>1, <1>2

-----------------------------------------------------------------------------
(* From what a handler does to the control move it makes. *)

\* Outside the tunnel the operation whose handler runs is the only one.
LEMMA Alone ==
  ASSUME ControlInvariant, NEW o \in Operation, timer_pending, o \in Outstanding,
         state # "tunnel_transfer"
  PROVE  Outstanding = {o}
<1>1. Outstanding \in OperationsOf(state) /\ state \in ConnectionState
  BY Zenon DEF ControlInvariant, ControlTypeOK, OperationsFitState
<1> QED
  BY <1>1, SMT DEF OperationsOf, ConnectionState

\* Each operation belongs to few states.
LEMMA StateOfOperation ==
  ASSUME ControlInvariant, timer_pending
  PROVE  /\ "resolve" \in Outstanding => state = "resolve_origin_server_address"
         /\ "connect" \in Outstanding => state = "connect_to_origin_server"
<1>1. Outstanding \in OperationsOf(state) /\ state \in ConnectionState
  BY Zenon DEF ControlInvariant, ControlTypeOK, OperationsFitState
<1> QED
  BY <1>1, SMT DEF OperationsOf, ConnectionState

\* An operation whose handler runs is outstanding, and watched.
LEMMA RunsOutstanding ==
  ASSUME NEW o \in Operation, NEW result, result # "idle", Runs(o, result)
  PROVE  o \in Outstanding /\ timer_pending /\ aborted = "no"
  BY DEF Runs, Outstanding

\* Outside the tunnel a handler that continues with the operation of its new
\* state makes a turn.
LEMMA TurnsOn ==
  ASSUME ControlInvariant, NEW o \in Operation, timer_pending, o \in Outstanding,
         state # "tunnel_transfer",
         NEW op \in Operation, NEW s \in ConnectionState \ {"read_cipher_data"},
         {op} \in OperationsOf(s), Continues(o, {op}, s),
         proxy_client_socket' = proxy_client_socket, origin_server_socket' \in Sockets
  PROVE  Turn(o)
<1>1. Outstanding' = {op}
  <2>1. Outstanding = {o}
    BY Alone
  <2>2. Outstanding' = (Outstanding \ {o}) \cup {op}
    BY Zenon DEF Continues
  <2> QED
    BY <2>1, <2>2, SMT
<1>2. Outstanding' \in OperationsOf(state')
  BY <1>1, Zenon DEF Continues
<1>3. ControlTypeOK'
  BY Zenon DEF Continues, ControlTypeOK, ControlInvariant
<1>4. {op} \in (SUBSET Operation) \ {{}}
  BY SMT
<1>5. \E next \in (SUBSET Operation) \ {{}} : Outstanding' = (Outstanding \ {o}) \cup next
  BY <1>4, Zenon DEF Continues
<1>6. timer_pending' /\ timeout_due' = timeout_due /\ aborted' # "set_timer"
  BY Zenon DEF Continues
<1>7. state' # "read_cipher_data"
  BY Zenon DEF Continues
<1> QED
  BY <1>2, <1>3, <1>5, <1>6, <1>7, Zenon DEF Turn

\* In the tunnel each direction goes from read to write and back.
OtherHalf ==
  [o \in {"read_client", "write_origin", "read_origin", "write_client"} |->
     CASE o = "read_client"  -> "write_origin"
       [] o = "write_origin" -> "read_client"
       [] o = "read_origin"  -> "write_client"
       [] o = "write_client" -> "read_origin"]

\* In the tunnel a handler that continues with the other half of its direction
\* makes a turn, whatever the other direction is doing.
LEMMA TurnsInTunnel ==
  ASSUME ControlInvariant, NEW o \in DOMAIN OtherHalf, timer_pending, o \in Outstanding,
         state = "tunnel_transfer",
         Continues(o, {OtherHalf[o]}, "tunnel_transfer"), UNCHANGED sockets
  PROVE  Turn(o)
<1>1. o \in Operation /\ OtherHalf[o] \in Operation
  BY SMT DEF OtherHalf, Operation
<1>2. Outstanding' = (Outstanding \ {o}) \cup {OtherHalf[o]}
  BY Zenon DEF Continues
<1>3. Outstanding' \in OperationsOf("tunnel_transfer")
  <2>1. Outstanding \in OperationsOf("tunnel_transfer")
    BY DEF ControlInvariant, OperationsFitState
  <2> QED
    BY <1>2, <2>1, SMT DEF OperationsOf, OtherHalf
<1>4. Outstanding' \in OperationsOf(state')
  BY <1>3, Zenon DEF Continues
<1>5. ControlTypeOK'
  BY Zenon DEF Continues, ControlTypeOK, ControlInvariant, sockets
<1>6. {OtherHalf[o]} \in (SUBSET Operation) \ {{}}
  BY <1>1, SMT
<1>7. \E next \in (SUBSET Operation) \ {{}} : Outstanding' = (Outstanding \ {o}) \cup next
  BY <1>2, <1>6, Zenon
<1>8. timer_pending' /\ timeout_due' = timeout_due /\ aborted' # "set_timer"
  BY Zenon DEF Continues
<1>9. state' # "read_cipher_data"
  BY Zenon DEF Continues
<1> QED
  BY <1>4, <1>5, <1>7, <1>8, <1>9, Zenon DEF Turn, sockets

\* A short write goes on with the same operation in the same state.
LEMMA TurnsAgain ==
  ASSUME ControlInvariant, NEW o \in Operation, timer_pending, o \in Outstanding,
         Continues(o, {o}, state), UNCHANGED sockets
  PROVE  Turn(o)
<1>1. Outstanding' = Outstanding
  BY SMT DEF Continues
<1>2. Outstanding' \in OperationsOf(state')
  BY <1>1, Zenon DEF Continues, ControlInvariant, OperationsFitState
<1>3. ControlTypeOK'
  BY Zenon DEF Continues, ControlTypeOK, ControlInvariant, sockets
<1>4. {o} \in (SUBSET Operation) \ {{}}
  BY SMT
<1>5. \E next \in (SUBSET Operation) \ {{}} : Outstanding' = (Outstanding \ {o}) \cup next
  BY <1>4, Zenon DEF Continues
<1>6. timer_pending' /\ timeout_due' = timeout_due /\ aborted' # "set_timer"
  BY Zenon DEF Continues
<1>7. state' # "read_cipher_data"
  BY Zenon DEF Continues, ControlInvariant, NotStarted
<1> QED
  BY <1>2, <1>3, <1>5, <1>6, <1>7, Zenon DEF Turn, sockets

\* A handler that starts nothing lets the connection go.
LEMMA TurnsAway ==
  ASSUME ControlInvariant, NEW o \in Operation, timer_pending, o \in Outstanding,
         Returns(o, {}), UNCHANGED connection_context,
         proxy_client_socket' \in Sockets, origin_server_socket' \in Sockets,
         \/ state # "tunnel_transfer"
         \/ ClosesBoth
  PROVE  Turn(o)
<1>1. ops \in [Operation -> {"idle", "pending", "ok", "error"}]
  BY DEF ControlInvariant, ControlTypeOK
<1>2. /\ ops' \in [Operation -> {"idle", "pending", "ok", "error"}]
      /\ Outstanding' = Outstanding \ {o}
      /\ timer_pending' = FALSE
      /\ aborted' = "no"
      /\ timeout_due' = timeout_due
  BY <1>1, ReturnsNothing
<1>3. state # "tunnel_transfer" => Outstanding' = {}
  <2>1. HAVE state # "tunnel_transfer"
  <2>2. Outstanding = {o}
    BY <2>1, Alone
  <2> QED
    BY <1>2, <2>2, SMT
<1>4. LetsGo(o)
  BY <1>2, <1>3, Zenon DEF LetsGo, ClosesBoth
<1>5. ControlTypeOK'
  BY <1>2, Zenon DEF ControlTypeOK, ControlInvariant, state
<1>6. state' = state /\ state # "read_cipher_data"
  BY Zenon DEF ControlInvariant, NotStarted, state
<1> QED
  BY <1>2, <1>4, <1>5, <1>6, Zenon DEF Turn

\* Reporting an error, and all that leads to an origin server, is a turn.
LEMMA ReportErrorTurns ==
  ASSUME ControlInvariant, NEW o \in Operation, timer_pending, o \in Outstanding,
         state # "tunnel_transfer", NEW status, ReportError(o, status),
         proxy_client_socket' = proxy_client_socket, origin_server_socket' \in Sockets
  PROVE  Turn(o)
<1>1. Continues(o, {"write_client"}, "report_error")
  BY ReportErrorContinues DEF ControlInvariant
<1>2. "write_client" \in Operation /\ {"write_client"} \in OperationsOf("report_error")
  BY SMT DEF Operation, OperationsOf
<1>3. "report_error" \in ConnectionState \ {"read_cipher_data"}
  BY SMT DEF ConnectionState
<1> QED
  BY <1>1, <1>2, <1>3, TurnsOn

\* Whatever async_connect_to_origin_server and on_resolved lead to is a turn.
LEMMA ConnectTurns ==
  ASSUME ControlInvariant, NEW o \in Operation, timer_pending, o \in Outstanding,
         state # "tunnel_transfer",
         \/ ConnectsOn(o)
         \/ Continues(o, {"resolve"}, "resolve_origin_server_address")
         \/ Continues(o, {"connect"}, "connect_to_origin_server"),
         proxy_client_socket' = proxy_client_socket, origin_server_socket' \in Sockets
  PROVE  Turn(o)
<1>1. /\ {"write_client"} \in OperationsOf("report_connection_established")
      /\ {"write_origin"} \in OperationsOf("write_http_request_header")
      /\ {"resolve"} \in OperationsOf("resolve_origin_server_address")
      /\ {"connect"} \in OperationsOf("connect_to_origin_server")
  BY SMT DEF OperationsOf
<1>2. /\ "report_connection_established" \in ConnectionState \ {"read_cipher_data"}
      /\ "write_http_request_header" \in ConnectionState \ {"read_cipher_data"}
      /\ "resolve_origin_server_address" \in ConnectionState \ {"read_cipher_data"}
      /\ "connect_to_origin_server" \in ConnectionState \ {"read_cipher_data"}
  BY SMT DEF ConnectionState
<1>3. {"write_client", "write_origin", "resolve", "connect"} \subseteq Operation
  BY SMT DEF Operation
<1>4. CASE Continues(o, {"write_client"}, "report_connection_established")
  BY <1>1, <1>2, <1>3, <1>4, TurnsOn
<1>5. CASE Continues(o, {"write_origin"}, "write_http_request_header")
  BY <1>1, <1>2, <1>3, <1>5, TurnsOn
<1>6. CASE Continues(o, {"resolve"}, "resolve_origin_server_address")
  BY <1>1, <1>2, <1>3, <1>6, TurnsOn
<1>7. CASE Continues(o, {"connect"}, "connect_to_origin_server")
  BY <1>1, <1>2, <1>3, <1>7, TurnsOn
<1> QED
  BY <1>4, <1>5, <1>6, <1>7 DEF ConnectsOn

-----------------------------------------------------------------------------
(* Every handler makes a turn. *)

\* on_proxy_client_data_arrived, in each of the three states it runs in.
LEMMA ClientDataTurns ==
  ASSUME ControlInvariant, OnProxyClientDataArrived
  PROVE  Turn("read_client")
<1> DEFINE o == "read_client"
<1>1. o \in Operation /\ o \in Outstanding /\ timer_pending
  <2>1. o \in Operation
    BY DEF Operation
  <2> QED
    BY <2>1, RunsOutstanding DEF OnProxyClientDataArrived
<1>2. ControlTypeOK
  BY DEF ControlInvariant
<1>3. proxy_client_socket' = proxy_client_socket
  BY DEF OnProxyClientDataArrived
<1>4. CASE RequestHeaderArrives
  <2>1. state # "tunnel_transfer"
    BY <1>4 DEF RequestHeaderArrives
  <2>2. CASE ReadMoreOfRequestHeader
    <3>1. Continues(o, {o}, state)
      BY <1>1, <1>2, <2>2, Calls, ContinuesHere DEF ReadMoreOfRequestHeader
    <3> QED
      BY <1>1, <1>3, <2>2, <3>1, TurnsAgain DEF ReadMoreOfRequestHeader, sockets
  <2>3. CASE RejectRequest
    <3>1. ReportError(o, RequestVerdict(request_data'))
      BY <2>3, Zenon DEF RejectRequest
    <3>2. origin_server_socket' \in Sockets
      BY <1>2, <2>3, Zenon DEF RejectRequest, ControlTypeOK
    <3> QED
      BY <1>1, <1>3, <2>1, <3>1, <3>2, ReportErrorTurns
  <2>4. CASE DereferenceEmptyChecker
    <3>1. /\ aborted' = "chunk_checker"
          /\ ops' = [ops EXCEPT ![o] = "idle"]
          /\ timer_pending' = FALSE
          /\ UNCHANGED <<timeout_due, connection_context, origin_server_socket>>
      BY <2>4 DEF DereferenceEmptyChecker
    <3>2. ops \in [Operation -> {"idle", "pending", "ok", "error"}]
      BY <1>2 DEF ControlTypeOK
    <3>3. /\ ops' \in [Operation -> {"idle", "pending", "ok", "error"}]
          /\ Outstanding' = Outstanding \ {o}
      BY <1>1, <3>1, <3>2, SMT DEF Outstanding
    <3>4. Outstanding' = {}
      <4>1. Outstanding = {o}
        BY <1>1, <2>1, Alone
      <4> QED
        BY <3>3, <4>1, SMT
    <3>5. LetsGo(o)
      BY <3>1, <3>3, <3>4, Zenon DEF LetsGo
    <3>6. ControlTypeOK'
      BY <1>2, <1>3, <3>1, <3>3, Zenon DEF ControlTypeOK, state
    <3>7. state' # "read_cipher_data"
      BY <1>1, <3>1, Zenon DEF ControlInvariant, NotStarted, state
    <3> QED
      BY <1>1, <3>1, <3>5, <3>6, <3>7, Zenon DEF Turn
  <2>5. CASE AcceptRequest
    <3>1. ConnectToOrigin(o, origin_server_socket)
      BY <2>5 DEF AcceptRequest
    <3>2. origin_server_socket \in Sockets
      BY <1>2 DEF ControlTypeOK
    <3> QED
      BY <1>1, <1>2, <1>3, <2>1, <3>1, <3>2, ConnectToOriginContinues, ConnectTurns
  <2> QED
    BY <1>4, <2>2, <2>3, <2>4, <2>5 DEF RequestHeaderArrives
<1>5. CASE RequestContentArrives
  <2>1. Continues(o, {"write_origin"}, "write_http_request_content")
    BY <1>2, <1>5, Calls, ContinuesWith DEF RequestContentArrives
  <2>2. "write_origin" \in Operation
        /\ {"write_origin"} \in OperationsOf("write_http_request_content")
        /\ "write_http_request_content" \in ConnectionState \ {"read_cipher_data"}
    BY SMT DEF Operation, OperationsOf, ConnectionState
  <2>3. state # "tunnel_transfer"
    BY <1>5 DEF RequestContentArrives
  <2>4. origin_server_socket' \in Sockets
    BY <1>2, <1>5, Zenon DEF RequestContentArrives, ControlTypeOK
  <2> QED
    BY <1>1, <1>3, <2>1, <2>2, <2>3, <2>4, TurnsOn
<1>6. CASE TunnelClientData
  <2>1. state = "tunnel_transfer"
    BY <1>6 DEF TunnelClientData
  <2>2. Continues(o, {"write_origin"}, "tunnel_transfer")
    BY <1>2, <1>6, <2>1, Calls, ContinuesHere DEF TunnelClientData
  <2>3. o \in DOMAIN OtherHalf /\ OtherHalf[o] = "write_origin"
    BY SMT DEF OtherHalf
  <2>4. UNCHANGED sockets
    BY <1>3, <1>6, Zenon DEF TunnelClientData, sockets
  <2> QED
    BY <1>1, <2>1, <2>2, <2>3, <2>4, TurnsInTunnel
<1> QED
  BY <1>4, <1>5, <1>6 DEF OnProxyClientDataArrived

\* on_origin_server_data_written, after a short write or a whole one.
LEMMA OriginWrittenTurns ==
  ASSUME ControlInvariant, OnOriginServerDataWritten
  PROVE  Turn("write_origin")
<1> DEFINE o == "write_origin"
<1>1. o \in Operation /\ o \in Outstanding /\ timer_pending
  <2>1. o \in Operation
    BY DEF Operation
  <2> QED
    BY <2>1, RunsOutstanding DEF OnOriginServerDataWritten
<1>2. ControlTypeOK
  BY DEF ControlInvariant
<1>3. /\ UNCHANGED sockets
      /\ proxy_client_socket' = proxy_client_socket
      /\ origin_server_socket' \in Sockets
  BY <1>2, Zenon DEF OnOriginServerDataWritten, sockets, ControlTypeOK
<1>4. ASSUME NEW c, NEW op \in Operation, NEW s, c = [op |-> op, timed |-> TRUE],
             AfterOriginWrite(c, s)
      PROVE  Continues(o, {op}, s)
  <2>1. Returns(o, {c})
    BY <1>4 DEF AfterOriginWrite
  <2>2. "connection_state" \in DOMAIN connection_context' /\ state' = s
    BY <1>2, <1>4, Zenon DEF AfterOriginWrite, ControlTypeOK, Goto, state
  <2> QED
    BY <1>2, <1>4, <2>1, <2>2, ContinuesTo
<1>5. CASE WriteRestToOrigin
  <2>1. "connection_state" \in DOMAIN connection_context' /\ state' = state
    BY <1>2, <1>5, Zenon DEF WriteRestToOrigin, ControlTypeOK, state
  <2>2. Continues(o, {o}, state)
    BY <1>1, <1>2, <1>5, <2>1, Calls, ContinuesTo DEF WriteRestToOrigin
  <2> QED
    BY <1>1, <1>3, <2>2, TurnsAgain
<1>6. CASE state = "tunnel_transfer" /\ AfterOriginWrite(ReadClient, "tunnel_transfer")
  <2>1. Continues(o, {"read_client"}, "tunnel_transfer")
    BY <1>4, <1>6, Calls
  <2>2. o \in DOMAIN OtherHalf /\ OtherHalf[o] = "read_client"
    BY SMT DEF OtherHalf
  <2> QED
    BY <1>1, <1>3, <1>6, <2>1, <2>2, TurnsInTunnel
<1>7. CASE /\ state # "tunnel_transfer"
           /\ AfterOriginWrite(ReadClient, "read_http_request_content")
  <2>1. Continues(o, {"read_client"}, "read_http_request_content")
    BY <1>4, <1>7, Calls
  <2>2. "read_client" \in Operation
        /\ {"read_client"} \in OperationsOf("read_http_request_content")
        /\ "read_http_request_content" \in ConnectionState \ {"read_cipher_data"}
    BY SMT DEF Operation, OperationsOf, ConnectionState
  <2> QED
    BY <1>1, <1>3, <1>7, <2>1, <2>2, TurnsOn
<1>8. CASE /\ state # "tunnel_transfer"
           /\ AfterOriginWrite(ReadOrigin(TRUE), "read_http_response_header")
  <2>1. Continues(o, {"read_origin"}, "read_http_response_header")
    BY <1>4, <1>8, Calls
  <2>2. "read_origin" \in Operation
        /\ {"read_origin"} \in OperationsOf("read_http_response_header")
        /\ "read_http_response_header" \in ConnectionState \ {"read_cipher_data"}
    BY SMT DEF Operation, OperationsOf, ConnectionState
  <2> QED
    BY <1>1, <1>3, <1>8, <2>1, <2>2, TurnsOn
<1> QED
  BY <1>5, <1>6, <1>7, <1>8 DEF OnOriginServerDataWritten

\* on_proxy_client_data_written, in each of the states it runs in.
LEMMA ClientWrittenTurns ==
  ASSUME ControlInvariant, OnProxyClientDataWritten
  PROVE  Turn("write_client")
<1> DEFINE o == "write_client"
<1>1. o \in Operation /\ o \in Outstanding /\ timer_pending
  <2>1. o \in Operation
    BY DEF Operation
  <2> QED
    BY <2>1, RunsOutstanding DEF OnProxyClientDataWritten
<1>2. ControlTypeOK
  BY DEF ControlInvariant
<1>3. CASE WriteRestToClient
  <2>1. Continues(o, {o}, state)
    BY <1>1, <1>2, <1>3, Calls, ContinuesHere DEF WriteRestToClient
  <2> QED
    BY <1>1, <1>3, <2>1, TurnsAgain DEF WriteRestToClient
<1>4. CASE TunnelClientWritten
  <2>1. state = "tunnel_transfer" /\ UNCHANGED sockets
    BY <1>4 DEF TunnelClientWritten
  <2>2. Continues(o, {"read_origin"}, "tunnel_transfer")
    BY <1>2, <1>4, <2>1, Calls, ContinuesHere DEF TunnelClientWritten
  <2>3. o \in DOMAIN OtherHalf /\ OtherHalf[o] = "read_origin"
    BY SMT DEF OtherHalf
  <2> QED
    BY <1>1, <2>1, <2>2, <2>3, TurnsInTunnel
<1>5. CASE state # "tunnel_transfer" /\ ReadMoreResponseContent
  <2>1. Continues(o, {"read_origin"}, "read_http_response_content")
    BY <1>2, <1>5, Calls, ContinuesWith DEF ReadMoreResponseContent
  <2>2. "read_origin" \in Operation
        /\ {"read_origin"} \in OperationsOf("read_http_response_content")
        /\ "read_http_response_content" \in ConnectionState \ {"read_cipher_data"}
    BY SMT DEF Operation, OperationsOf, ConnectionState
  <2>3. proxy_client_socket' = proxy_client_socket /\ origin_server_socket' \in Sockets
    BY <1>2, <1>5, Zenon DEF ReadMoreResponseContent, sockets, ControlTypeOK
  <2> QED
    BY <1>1, <1>5, <2>1, <2>2, <2>3, TurnsOn
<1>6. AfterReply(origin_server_socket) \in Sockets
  BY <1>2, Zenon DEF AfterReply, ControlTypeOK, Sockets
<1>7. CASE state # "tunnel_transfer" /\ ReplyRelayed
  <2>1. Continues(o, {"read_client"}, "read_http_request_header")
    BY <1>2, <1>7, Calls, ContinuesWith DEF ReplyRelayed
  <2>2. "read_client" \in Operation
        /\ {"read_client"} \in OperationsOf("read_http_request_header")
        /\ "read_http_request_header" \in ConnectionState \ {"read_cipher_data"}
    BY SMT DEF Operation, OperationsOf, ConnectionState
  <2>3. proxy_client_socket' = proxy_client_socket /\ origin_server_socket' \in Sockets
    BY <1>6, <1>7, Zenon DEF ReplyRelayed
  <2> QED
    BY <1>1, <1>7, <2>1, <2>2, <2>3, TurnsOn
<1>8. CASE state # "tunnel_transfer" /\ LastReplyRelayed
  <2>1. Returns(o, {}) /\ UNCHANGED connection_context
    BY <1>8 DEF LastReplyRelayed
  <2>2. proxy_client_socket' \in Sockets /\ origin_server_socket' \in Sockets
    BY <1>6, <1>8, Zenon DEF LastReplyRelayed, Sockets
  <2> QED
    BY <1>1, <1>8, <2>1, <2>2, TurnsAway
<1>9. CASE StartTunnelTransfer
  <2>1. /\ ops' \in [Operation -> {"idle", "pending", "ok", "error"}]
        /\ Outstanding' = (Outstanding \ {o}) \cup {"read_client", "read_origin"}
        /\ timer_pending' = TRUE
        /\ aborted' = "no"
        /\ timeout_due' = timeout_due
    BY <1>2, <1>9, ReturnsTunnelReads DEF StartTunnelTransfer, ControlTypeOK
  <2>2. "connection_state" \in DOMAIN connection_context' /\ state' = "tunnel_transfer"
    BY <1>2, <1>9, Zenon DEF StartTunnelTransfer, ControlTypeOK, Goto, state
  <2>3. state # "tunnel_transfer" /\ UNCHANGED sockets
    BY <1>9 DEF StartTunnelTransfer
  <2>4. Outstanding' = {"read_client", "read_origin"}
    <3>1. Outstanding = {o}
      BY <1>1, <2>3, Alone
    <3> QED
      BY <2>1, <3>1, SMT
  <2>5. Outstanding' \in OperationsOf(state')
    <3>1. {"read_client", "read_origin"} \in OperationsOf("tunnel_transfer")
      BY SMT DEF OperationsOf
    <3> QED
      BY <2>2, <2>4, <3>1, Zenon
  <2>6. {"read_client", "read_origin"} \in (SUBSET Operation) \ {{}}
    BY SMT DEF Operation
  <2>7. \E next \in (SUBSET Operation) \ {{}} : Outstanding' = (Outstanding \ {o}) \cup next
    BY <2>1, <2>6, Zenon
  <2>8. "tunnel_transfer" \in ConnectionState
    BY SMT DEF ConnectionState
  <2>9. ControlTypeOK'
    BY <1>2, <2>1, <2>2, <2>3, <2>8, Zenon DEF ControlTypeOK, sockets
  <2> QED
    BY <1>1, <2>1, <2>2, <2>3, <2>5, <2>7, <2>9, Zenon DEF Turn, sockets
<1>10. CASE ErrorReported
  <2>1. Returns(o, {}) /\ UNCHANGED connection_context /\ ClosesBoth
    BY <1>10 DEF ErrorReported
  <2>2. proxy_client_socket' \in Sockets /\ origin_server_socket' \in Sockets
    BY <2>1 DEF ClosesBoth, Sockets
  <2> QED
    BY <1>1, <2>1, <2>2, TurnsAway
<1> QED
  BY <1>3, <1>4, <1>5, <1>7, <1>8, <1>9, <1>10 DEF OnProxyClientDataWritten

\* on_origin_server_data_arrived, in each of the three states it runs in.
LEMMA OriginDataTurns ==
  ASSUME ControlInvariant, OnOriginServerDataArrived
  PROVE  Turn("read_origin")
<1> DEFINE o == "read_origin"
<1>1. o \in Operation /\ o \in Outstanding /\ timer_pending
  <2>1. o \in Operation
    BY DEF Operation
  <2> QED
    BY <2>1, RunsOutstanding DEF OnOriginServerDataArrived
<1>2. ControlTypeOK
  BY DEF ControlInvariant
<1>3. /\ UNCHANGED sockets
      /\ proxy_client_socket' = proxy_client_socket
      /\ proxy_client_socket' \in Sockets
      /\ origin_server_socket' \in Sockets
  BY <1>2, Zenon DEF OnOriginServerDataArrived, sockets, ControlTypeOK
<1>4. CASE ResponseHeaderArrives
  <2>1. state # "tunnel_transfer"
    BY <1>4 DEF ResponseHeaderArrives
  <2>2. CASE ReadMoreOfResponseHeader
    <3>1. Continues(o, {o}, state)
      BY <1>1, <1>2, <2>2, Calls, ContinuesHere DEF ReadMoreOfResponseHeader
    <3> QED
      BY <1>1, <1>3, <3>1, TurnsAgain
  <2>3. CASE RejectResponse
    <3>1. ReportError(o, 502)
      BY <2>3, Zenon DEF RejectResponse
    <3> QED
      BY <1>1, <1>3, <2>1, <3>1, ReportErrorTurns
  <2>4. CASE RelayResponseHeader
    <3>1. Continues(o, {"write_client"}, "write_http_response_header")
      BY <1>2, <2>4, Calls, ContinuesWith DEF RelayResponseHeader
    <3>2. "write_client" \in Operation
          /\ {"write_client"} \in OperationsOf("write_http_response_header")
          /\ "write_http_response_header" \in ConnectionState \ {"read_cipher_data"}
      BY SMT DEF Operation, OperationsOf, ConnectionState
    <3> QED
      BY <1>1, <1>3, <2>1, <3>1, <3>2, TurnsOn
  <2> QED
    BY <1>4, <2>2, <2>3, <2>4 DEF ResponseHeaderArrives
<1>5. CASE ResponseContentArrives
  <2>1. state # "tunnel_transfer"
    BY <1>5 DEF ResponseContentArrives
  <2>2. CASE /\ Returns(o, {WriteClient})
             /\ connection_context' = Goto("write_http_response_content")
    <3>1. Continues(o, {"write_client"}, "write_http_response_content")
      BY <1>2, <2>2, Calls, ContinuesWith
    <3>2. "write_client" \in Operation
          /\ {"write_client"} \in OperationsOf("write_http_response_content")
          /\ "write_http_response_content" \in ConnectionState \ {"read_cipher_data"}
      BY SMT DEF Operation, OperationsOf, ConnectionState
    <3> QED
      BY <1>1, <1>3, <2>1, <3>1, <3>2, TurnsOn
  <2>3. CASE Returns(o, {}) /\ UNCHANGED connection_context
    BY <1>1, <1>3, <2>1, <2>3, TurnsAway
  <2> QED
    BY <1>5, <2>2, <2>3 DEF ResponseContentArrives
<1>6. CASE TunnelOriginData
  <2>1. state = "tunnel_transfer"
    BY <1>6 DEF TunnelOriginData
  <2>2. Continues(o, {"write_client"}, "tunnel_transfer")
    BY <1>2, <1>6, <2>1, Calls, ContinuesHere DEF TunnelOriginData
  <2>3. o \in DOMAIN OtherHalf /\ OtherHalf[o] = "write_client"
    BY SMT DEF OtherHalf
  <2> QED
    BY <1>1, <1>3, <2>1, <2>2, <2>3, TurnsInTunnel
<1> QED
  BY <1>4, <1>5, <1>6 DEF OnOriginServerDataArrived

\* The handler of async_resolve.
LEMMA ResolverTurns ==
  ASSUME ControlInvariant, Resolved \/ ResolveError
  PROVE  Turn("resolve")
<1> DEFINE o == "resolve"
<1>1. o \in Operation /\ o \in Outstanding /\ timer_pending
  <2>1. o \in Operation
    BY DEF Operation
  <2> QED
    BY <2>1, RunsOutstanding DEF Resolved, ResolveError
<1>2. ControlTypeOK
  BY DEF ControlInvariant
<1>3. state # "tunnel_transfer"
  BY <1>1, StateOfOperation
<1>4. CASE Resolved
  <2>1. PICK endpoints \in Resolutions[connection_context.origin_server_name] :
               OnResolved(o, endpoints, origin_server_socket)
    BY <1>4, Zenon DEF Resolved
  <2>2. proxy_client_socket' = proxy_client_socket
    BY <1>4 DEF Resolved
  <2> QED
    BY <1>1, <1>2, <1>3, <2>1, <2>2, OnResolvedContinues, ConnectTurns
<1>5. CASE ResolveError
  <2>1. ReportError(o, 504)
    BY <1>5 DEF ResolveError
  <2>2. proxy_client_socket' = proxy_client_socket /\ origin_server_socket' \in Sockets
    BY <1>2, <1>5, Zenon DEF ResolveError, sockets, ControlTypeOK
  <2> QED
    BY <1>1, <1>3, <2>1, <2>2, ReportErrorTurns
<1> QED
  BY <1>4, <1>5

\* The handler of async_connect, with and without a further endpoint to try.
LEMMA ConnectHandlerTurns ==
  ASSUME ControlInvariant, Connected \/ ConnectNextEndpoint \/ ConnectError
  PROVE  Turn("connect")
<1> DEFINE o == "connect"
<1>1. o \in Operation /\ o \in Outstanding /\ timer_pending
  <2>1. o \in Operation
    BY DEF Operation
  <2> QED
    BY <2>1, RunsOutstanding DEF Connected, ConnectNextEndpoint, ConnectError
<1>2. ControlTypeOK
  BY DEF ControlInvariant
<1>3. state # "tunnel_transfer"
  BY <1>1, StateOfOperation
<1>4. CASE Connected
  <2>1. ConnectsOn(o)
    BY <1>2, <1>4, OnConnectContinues DEF Connected, ControlTypeOK
  <2>2. proxy_client_socket' = proxy_client_socket /\ origin_server_socket' \in Sockets
    BY <1>2, <1>4, Zenon DEF Connected, sockets, ControlTypeOK
  <2> QED
    BY <1>1, <1>3, <2>1, <2>2, ConnectTurns
<1>5. CASE ConnectNextEndpoint
  <2>1. /\ OnResolved(o, Tail(endpoint_iterator), "closed")
        /\ proxy_client_socket' = proxy_client_socket
    BY <1>5 DEF ConnectNextEndpoint
  <2> QED
    BY <1>1, <1>2, <1>3, <2>1, OnResolvedContinues, ConnectTurns
<1>6. CASE ConnectError
  <2>1. /\ ReportError(o, 502)
        /\ proxy_client_socket' = proxy_client_socket
        /\ origin_server_socket' = "closed"
    BY <1>6 DEF ConnectError
  <2>2. origin_server_socket' \in Sockets
    BY <2>1 DEF Sockets
  <2> QED
    BY <1>1, <1>3, <2>1, <2>2, ReportErrorTurns
<1> QED
  BY <1>4, <1>5, <1>6

\* on_error when it ends the connection: both sockets are closed.
LEMMA ErrorTurns ==
  ASSUME ControlInvariant, NEW o \in Operation, ConnectionError(o)
  PROVE  Turn(o)
<1>1. o \in Outstanding /\ timer_pending
  BY RunsOutstanding DEF ConnectionError
<1>2. /\ Returns(o, {})
      /\ ClosesBoth
      /\ UNCHANGED connection_context
  BY Zenon DEF ConnectionError
<1>3. proxy_client_socket' \in Sockets /\ origin_server_socket' \in Sockets
  BY <1>2 DEF ClosesBoth, Sockets
<1> QED
  BY <1>1, <1>2, <1>3, TurnsAway

\* on_error when it connects anew and sends the request again.
LEMMA ReconnectTurns ==
  ASSUME ControlInvariant, Reconnect
  PROVE  Turn("write_origin")
<1> DEFINE o == "write_origin"
<1>1. o \in Operation /\ o \in Outstanding /\ timer_pending
  <2>1. o \in Operation
    BY DEF Operation
  <2> QED
    BY <2>1, RunsOutstanding DEF Reconnect
<1>2. ControlTypeOK
  BY DEF ControlInvariant
<1>3. /\ ConnectToOrigin(o, "closed")
      /\ proxy_client_socket' = proxy_client_socket
      /\ state # "tunnel_transfer"
  BY DEF Reconnect, Reconnects
<1>4. "closed" \in Sockets
  BY DEF Sockets
<1> QED
  BY <1>1, <1>2, <1>3, <1>4, ConnectToOriginContinues, ConnectTurns

\* A handler that finds the timer expired only ends its operation.
LEMMA LateCompletionDrains ==
  ASSUME ControlInvariant, NEW o \in Operation, LateCompletion(o)
  PROVE  Drains(o)
<1>1. /\ ops[o] \in {"ok", "error"}
      /\ ~timer_pending
      /\ ops' = [ops EXCEPT ![o] = "idle"]
      /\ UNCHANGED <<connection_context, sockets, timer_pending, timeout_due, aborted>>
  BY Zenon DEF LateCompletion
<1>2. ops \in [Operation -> {"idle", "pending", "ok", "error"}]
  BY DEF ControlInvariant, ControlTypeOK
<1>3. /\ ops' \in [Operation -> {"idle", "pending", "ok", "error"}]
      /\ Outstanding' = Outstanding \ {o}
      /\ o \in Outstanding
  BY <1>1, <1>2, SMT DEF Outstanding
<1> QED
  BY <1>1, <1>3, Zenon DEF Drains

\* The fields of the tuples that actions leave unchanged.
LEMMA QuietStep ==
  ASSUME ControlInvariant, UNCHANGED <<connection_context, control, sockets>>
  PROVE  Quiet
<1>1. UNCHANGED <<connection_context, sockets, ops, timer_pending, timeout_due, aborted>>
  BY DEF control
<1>2. Outstanding' = Outstanding
  BY <1>1, Zenon DEF Outstanding
<1> QED
  BY <1>1, <1>2, Zenon DEF Quiet, ControlInvariant, ControlTypeOK

\* The kernel completing an operation does not end it: its handler has yet to run.
LEMMA CompletesQuietly ==
  ASSUME ControlInvariant, NEW o \in Operation, NEW result \in {"ok", "error"},
         Completes(o, result)
  PROVE  Quiet
<1>1. /\ ops[o] = "pending"
      /\ ops' = [ops EXCEPT ![o] = result]
      /\ UNCHANGED <<connection_context, sockets, timer_pending, timeout_due, aborted>>
  BY Zenon DEF Completes
<1>2. ops \in [Operation -> {"idle", "pending", "ok", "error"}]
  BY DEF ControlInvariant, ControlTypeOK
<1>3. /\ ops' \in [Operation -> {"idle", "pending", "ok", "error"}]
      /\ Outstanding' = Outstanding
  BY <1>1, <1>2, SMT DEF Outstanding
<1> QED
  BY <1>1, <1>3, Zenon DEF Quiet

\* No step of the kernel changes the control of the connection ...
LEMMA KernelIsQuiet ==
  ASSUME ControlInvariant, Kernel
  PROVE  Quiet
<1>1. {"read_client", "read_origin", "write_client", "write_origin", "resolve", "connect"}
        \subseteq Operation
  BY SMT DEF Operation
<1>2. CASE ClientDataRead
  BY <1>1, <1>2, CompletesQuietly DEF ClientDataRead
<1>3. CASE OriginDataRead
  BY <1>1, <1>3, CompletesQuietly DEF OriginDataRead
<1>4. CASE ClientDataWrite
  BY <1>1, <1>4, CompletesQuietly DEF ClientDataWrite
<1>5. CASE OriginDataWrite
  BY <1>1, <1>5, CompletesQuietly DEF OriginDataWrite
<1>6. CASE NameResolved
  BY <1>1, <1>6, CompletesQuietly DEF NameResolved
<1>7. CASE EndpointConnected
  BY <1>1, <1>7, CompletesQuietly DEF EndpointConnected
<1>8. ASSUME NEW o \in Operation, OperationFails(o) PROVE Quiet
  BY <1>8, CompletesQuietly DEF OperationFails
<1> QED
  BY <1>2, <1>3, <1>4, <1>5, <1>6, <1>7, <1>8 DEF Kernel

\* ... and no step of a peer does.
LEMMA PeersAreQuiet ==
  ASSUME ControlInvariant, Peers
  PROVE  Quiet
<1>1. UNCHANGED proxy
  <2>1. ASSUME NEW r \in Requests, ClientSends(r) PROVE UNCHANGED proxy
    BY <2>1, Zenon DEF ClientSends
  <2>2. CASE ClientTunnels
    BY <2>2, Zenon DEF ClientTunnels
  <2>3. CASE ClientCloses
    BY <2>3, Zenon DEF ClientCloses
  <2>4. ASSUME NEW r \in Responses, OriginReplies(r) PROVE UNCHANGED proxy
    BY <2>4, Zenon DEF OriginReplies
  <2>5. CASE OriginTunnels
    BY <2>5, Zenon DEF OriginTunnels
  <2>6. CASE OriginCloses
    BY <2>6, Zenon DEF OriginCloses
  <2> QED
    BY <2>1, <2>2, <2>3, <2>4, <2>5, <2>6 DEF Peers
<1> QED
  BY <1>1, QuietStep DEF proxy

-----------------------------------------------------------------------------
(* Every step of the system is a control move. *)

\* start() begins the watch.
LEMMA StartBegins ==
  ASSUME ControlInvariant, Start
  PROVE  Begins
<1>1. ControlTypeOK
  BY DEF ControlInvariant
<1>2. "read_client" \in Operation
  BY SMT DEF Operation
<1>3. Continues("start", {"read_client"}, "read_http_request_header")
  BY <1>1, <1>2, Calls, ContinuesWith DEF Start
<1> QED
  BY <1>3, Zenon DEF Start, Begins

\* Every handler makes a control move.
LEMMA HandlerMoves ==
  ASSUME ControlInvariant, Handler
  PROVE  ControlNext
<1>1. {"read_client", "read_origin", "write_client", "write_origin", "resolve", "connect"}
        \subseteq Operation
  BY SMT DEF Operation
<1>2. CASE \/ OnProxyClientDataArrived
           \/ OnOriginServerDataWritten
           \/ OnProxyClientDataWritten
           \/ OnOriginServerDataArrived
  BY <1>1, <1>2, ClientDataTurns, OriginWrittenTurns, ClientWrittenTurns, OriginDataTurns
     DEF ControlNext
<1>3. CASE Resolved \/ ResolveError
  BY <1>1, <1>3, ResolverTurns DEF ControlNext
<1>4. CASE Connected \/ ConnectNextEndpoint \/ ConnectError
  BY <1>1, <1>4, ConnectHandlerTurns DEF ControlNext
<1>5. CASE Reconnect
  BY <1>1, <1>5, ReconnectTurns DEF ControlNext
<1>6. ASSUME NEW o \in Operation, ConnectionError(o) PROVE ControlNext
  BY <1>6, ErrorTurns DEF ControlNext
<1>7. ASSUME NEW o \in Operation, LateCompletion(o) PROVE ControlNext
  BY <1>7, LateCompletionDrains DEF ControlNext
<1>8. CASE OnTimeout
  BY <1>8, Zenon DEF OnTimeout, TimesOut, ControlNext
<1> QED
  BY <1>2, <1>3, <1>4, <1>5, <1>6, <1>7, <1>8 DEF Handler

\* Every step of the system is a control move.
LEMMA StepIsControlMove ==
  ASSUME ControlInvariant, [Next]_vars
  PROVE  ControlNext
<1>1. CASE Start
  BY <1>1, StartBegins DEF ControlNext
<1>2. CASE Handler
  BY <1>2, HandlerMoves
<1>3. CASE Destroy
  BY <1>3, Zenon DEF Destroy, Destroyed, ControlNext
<1>4. CASE TimerExpires
  BY <1>4, Zenon DEF TimerExpires, Expires, ControlNext
<1>5. CASE Kernel
  BY <1>5, KernelIsQuiet DEF ControlNext
<1>6. CASE Peers
  BY <1>6, PeersAreQuiet DEF ControlNext
<1>7. CASE UNCHANGED vars
  BY <1>7, QuietStep DEF vars, ControlNext
<1> QED
  BY <1>1, <1>2, <1>3, <1>4, <1>5, <1>6, <1>7 DEF Next, Terminated

-----------------------------------------------------------------------------
(* The control moves preserve the invariant. *)

\* A connection just constructed satisfies the invariant.
LEMMA InitialControl ==
  ASSUME Init
  PROVE  ControlInvariant
<1>1. connection_context =
        [connection_state |-> "read_cipher_data", reconnect_on_error |-> FALSE,
         origin_server_name |-> NoHost, origin_server_endpoint |-> NoEndpoint]
  BY DEF Init
<1>2. "connection_state" \in DOMAIN connection_context /\ state = "read_cipher_data"
  BY <1>1 DEF state
<1>3. Outstanding = {}
  BY DEF Init, Outstanding
<1>4. ControlTypeOK
  <2>1. "read_cipher_data" \in ConnectionState /\ {"open", "closed"} \subseteq Sockets
    BY SMT DEF ConnectionState, Sockets
  <2>2. ops \in [Operation -> {"idle", "pending", "ok", "error"}]
    BY DEF Init
  <2>3. aborted \in {"no", "set_timer", "chunk_checker"}
    BY DEF Init
  <2>4. proxy_client_socket \in Sockets /\ origin_server_socket \in Sockets
    BY <2>1 DEF Init
  <2>5. timer_pending \in BOOLEAN /\ timeout_due \in BOOLEAN
    BY DEF Init
  <2> QED
    BY <1>2, <2>1, <2>2, <2>3, <2>4, <2>5, Zenon DEF ControlTypeOK
<1>5. /\ timer_pending = FALSE
      /\ timeout_due = FALSE
      /\ aborted = "no"
      /\ proxy_client_socket = "open"
  BY DEF Init
<1> QED
  BY <1>3, <1>4, <1>5 DEF ControlInvariant, TimerDiscipline, OperationsFitState,
     EverythingWatched, NotStarted, ClosedIsUnwatched

\* A turn preserves the invariant.
LEMMA TurnPreservesControl ==
  ASSUME ControlInvariant, NEW o \in Operation, Turn(o)
  PROVE  ControlInvariant'
<1>1. /\ timer_pending
      /\ ControlTypeOK'
      /\ timeout_due' = timeout_due
      /\ aborted' # "set_timer"
      /\ state' # "read_cipher_data"
  BY DEF Turn
<1>2. TimerDiscipline' /\ NotStarted'
  BY <1>1, Zenon DEF ControlInvariant, TimerDiscipline, NotStarted
<1>3. CASE /\ timer_pending'
           /\ Outstanding' \in OperationsOf(state')
           /\ proxy_client_socket' = proxy_client_socket
  BY <1>1, <1>2, <1>3, Zenon DEF ControlInvariant, OperationsFitState, EverythingWatched,
     ClosedIsUnwatched
<1>4. CASE LetsGo(o)
  <2>1. EverythingWatched'
    BY <1>4, SMT DEF LetsGo, EverythingWatched
  <2> QED
    BY <1>1, <1>2, <1>4, <2>1, Zenon DEF ControlInvariant, OperationsFitState,
       ClosedIsUnwatched, LetsGo
<1> QED
  BY <1>3, <1>4, Zenon DEF Turn

\* So does start() ...
LEMMA BeginsPreservesControl ==
  ASSUME ControlInvariant, Begins
  PROVE  ControlInvariant'
<1>1. /\ Outstanding = {}
      /\ ~timeout_due
      /\ proxy_client_socket = "open"
  BY DEF Begins, ControlInvariant, NotStarted
<1>2. /\ ops' \in [Operation -> {"idle", "pending", "ok", "error"}]
      /\ Outstanding' = (Outstanding \ {"start"}) \cup {"read_client"}
      /\ timer_pending' = TRUE
      /\ aborted' = "no"
      /\ timeout_due' = timeout_due
      /\ "connection_state" \in DOMAIN connection_context'
      /\ state' = "read_http_request_header"
      /\ UNCHANGED sockets
  BY Zenon DEF Begins, Continues
<1>3. Outstanding' = {"read_client"}
  BY <1>1, <1>2, SMT
<1>4. Outstanding' \in OperationsOf(state')
  BY <1>2, <1>3, SMT DEF OperationsOf
<1>5. "read_http_request_header" \in ConnectionState
  BY SMT DEF ConnectionState
<1>6. ControlTypeOK'
  BY <1>1, <1>2, <1>5, Zenon DEF ControlInvariant, ControlTypeOK, sockets
<1>7. NotStarted'
  BY <1>2, SMT DEF NotStarted
<1> QED
  BY <1>1, <1>2, <1>4, <1>6, <1>7, SMT DEF ControlInvariant, TimerDiscipline,
     OperationsFitState, EverythingWatched, ClosedIsUnwatched, sockets

\* ... and every other control move.
LEMMA ControlPreserved ==
  ASSUME ControlInvariant, ControlNext
  PROVE  ControlInvariant'
<1>1. CASE Begins
  BY <1>1, BeginsPreservesControl
<1>2. ASSUME NEW o \in Operation, Turn(o) PROVE ControlInvariant'
  BY <1>2, TurnPreservesControl
<1>3. ASSUME NEW o \in Operation, Drains(o) PROVE ControlInvariant'
  <2>1. /\ ~timer_pending
        /\ o \in Outstanding
        /\ ops' \in [Operation -> {"idle", "pending", "ok", "error"}]
        /\ Outstanding' = Outstanding \ {o}
        /\ UNCHANGED <<connection_context, sockets, timer_pending, timeout_due, aborted>>
    BY <1>3, Zenon DEF Drains
  <2>2. ControlTypeOK' /\ state' = state
    BY <2>1, Zenon DEF ControlInvariant, ControlTypeOK, sockets, state
  <2>3. EverythingWatched'
    BY <2>1, SMT DEF ControlInvariant, EverythingWatched, sockets
  <2>4. NotStarted'
    BY <2>1, <2>2, SMT DEF ControlInvariant, NotStarted, sockets
  <2> QED
    BY <2>1, <2>2, <2>3, <2>4, Zenon DEF ControlInvariant, TimerDiscipline,
       OperationsFitState, ClosedIsUnwatched, sockets
<1>4. CASE Expires
  <2>1. /\ timer_pending
        /\ timer_pending' = FALSE
        /\ timeout_due' = TRUE
        /\ UNCHANGED <<connection_context, sockets, ops, aborted>>
    BY <1>4 DEF Expires
  <2>2. Outstanding' = Outstanding /\ state' = state
    BY <2>1, Zenon DEF Outstanding, state
  <2>3. ControlTypeOK'
    BY <2>1, Zenon DEF ControlInvariant, ControlTypeOK, sockets, state
  <2>4. NotStarted'
    BY <2>1, <2>2, Zenon DEF ControlInvariant, NotStarted
  <2> QED
    BY <2>1, <2>2, <2>3, <2>4, Zenon DEF ControlInvariant, TimerDiscipline,
       OperationsFitState, EverythingWatched, ClosedIsUnwatched
<1>5. CASE TimesOut
  <2>1. /\ timeout_due
        /\ timeout_due' = FALSE
        /\ ClosesBoth
        /\ UNCHANGED <<connection_context, ops, timer_pending, aborted>>
    BY <1>5 DEF TimesOut
  <2>2. Outstanding' = Outstanding /\ state' = state
    BY <2>1, Zenon DEF Outstanding, state
  <2>3. ~timer_pending /\ state # "read_cipher_data"
    BY <2>1, Zenon DEF ControlInvariant, TimerDiscipline, NotStarted
  <2>4. ControlTypeOK'
    <3>1. "closed" \in Sockets /\ timeout_due' \in BOOLEAN
      BY <2>1 DEF Sockets
    <3> QED
      BY <2>1, <3>1, Zenon DEF ControlInvariant, ControlTypeOK, ClosesBoth, state
  <2>5. EverythingWatched'
    BY <2>1, SMT DEF EverythingWatched, ClosesBoth
  <2> QED
    BY <2>1, <2>2, <2>3, <2>4, <2>5, Zenon DEF ControlInvariant, TimerDiscipline,
       OperationsFitState, NotStarted, ClosedIsUnwatched
<1>6. CASE Destroyed
  <2>1. /\ Gone
        /\ ClosesBoth
        /\ UNCHANGED <<connection_context, control>>
    BY <1>6 DEF Destroyed
  <2>2. Outstanding' = Outstanding /\ state' = state
    BY <2>1, Zenon DEF Outstanding, state, control
  <2>3. ~timer_pending /\ state # "read_cipher_data"
    BY <2>1 DEF Gone
  <2>4. ControlTypeOK'
    <3>1. "closed" \in Sockets
      BY DEF Sockets
    <3> QED
      BY <2>1, <3>1, Zenon DEF ControlInvariant, ControlTypeOK, ClosesBoth, state, control
  <2>5. EverythingWatched'
    BY <2>1, SMT DEF EverythingWatched, ClosesBoth
  <2> QED
    BY <2>1, <2>2, <2>3, <2>4, <2>5, Zenon DEF ControlInvariant, TimerDiscipline,
       OperationsFitState, NotStarted, ClosedIsUnwatched, control
<1>7. CASE Quiet
  <2>1. state' = state
    BY <1>7, Zenon DEF Quiet, state
  <2> QED
    BY <1>7, <2>1, Zenon DEF Quiet, ControlInvariant, ControlTypeOK, TimerDiscipline,
       OperationsFitState, EverythingWatched, NotStarted, ClosedIsUnwatched, sockets
<1> QED
  BY <1>1, <1>2, <1>3, <1>4, <1>5, <1>6, <1>7 DEF ControlNext

-----------------------------------------------------------------------------
(* The theorems. *)

\* The control invariant holds in every reachable state.
THEOREM ControlIsInvariant == Spec => []ControlInvariant
<1>1. Init => ControlInvariant
  BY InitialControl
<1>2. ControlInvariant /\ [Next]_vars => ControlInvariant'
  BY StepIsControlMove, ControlPreserved
<1> QED
  BY <1>1, <1>2, PTL DEF Spec

\* Whatever the order in which the two directions of a tunnel, the timer and the
\* peers act, set_timer() never finds a wait queued, so its assertion holds.
THEOREM TimerDisciplineHolds == Spec => []TimerDiscipline
<1>1. ControlInvariant => TimerDiscipline
  BY DEF ControlInvariant
<1> QED
  BY <1>1, ControlIsInvariant, PTL

\* While the connection is watched, the operations outstanding are those of its
\* state: each handler starts the next operation, and only that.
THEOREM OperationsFitStateHolds == Spec => []OperationsFitState
<1>1. ControlInvariant => OperationsFitState
  BY DEF ControlInvariant
<1> QED
  BY <1>1, ControlIsInvariant, PTL

\* No operation waits on an open socket without a timer that will end it.
THEOREM EverythingWatchedHolds == Spec => []EverythingWatched
<1>1. ControlInvariant => EverythingWatched
  BY DEF ControlInvariant
<1> QED
  BY <1>1, ControlIsInvariant, PTL

\* A closed or timed-out connection starts no operation and opens no socket.
THEOREM CloseIsFinalHolds == Spec => CloseIsFinal
<1> DEFINE Final ==
      proxy_client_socket = "closed" \/ timeout_due
        => /\ Outstanding' \subseteq Outstanding
           /\ proxy_client_socket' = "open" => proxy_client_socket = "open"
           /\ origin_server_socket' = "open" => origin_server_socket = "open"
<1>1. ControlInvariant /\ [Next]_vars => Final
  <2> SUFFICES ASSUME ControlInvariant, ControlNext,
                      proxy_client_socket = "closed" \/ timeout_due
               PROVE  Final
    BY StepIsControlMove
  <2>1. ~timer_pending /\ state # "read_cipher_data"
    BY Zenon DEF ControlInvariant, TimerDiscipline, NotStarted, ClosedIsUnwatched
  <2>2. ~Begins /\ ~Expires /\ \A o \in Operation : ~Turn(o)
    BY <2>1, Zenon DEF Begins, Expires, Turn
  <2>3. ASSUME NEW o \in Operation, Drains(o) PROVE Final
    BY <2>3, SMT DEF Drains, sockets
  <2>4. CASE TimesOut
    <3>1. Outstanding' = Outstanding
      BY <2>4, Zenon DEF TimesOut, Outstanding
    <3> QED
      BY <2>4, <3>1, SMT DEF TimesOut, ClosesBoth
  <2>5. CASE Destroyed
    <3>1. Outstanding' = Outstanding
      BY <2>5, Zenon DEF Destroyed, Outstanding, control
    <3> QED
      BY <2>5, <3>1, SMT DEF Destroyed, ClosesBoth
  <2>6. CASE Quiet
    BY <2>6, SMT DEF Quiet, sockets
  <2> QED
    BY <2>2, <2>3, <2>4, <2>5, <2>6 DEF ControlNext
<1>2. ControlInvariant /\ [Next]_vars => [Final]_vars
  BY <1>1
<1> QED
  BY <1>2, ControlIsInvariant, PTL DEF CloseIsFinal, Spec

-----------------------------------------------------------------------------
(* Refinement: every control move is a step of Watchdog, or none. *)

\* A turn is a step of Watchdog: the handler continues, or finishes the watch.
LEMMA WatchedMoveRefines ==
  ASSUME ControlInvariant, ControlInvariant', NEW o \in Operation, Turn(o)
  PROVE  Abstract!Next
<1>1. timer_pending /\ o \in Outstanding /\ timeout_due' = timeout_due
      /\ state' # "read_cipher_data"
  BY DEF Turn
<1>2. ~timeout_due'
  BY <1>1 DEF ControlInvariant, TimerDiscipline
<1>3. CASE /\ timer_pending'
           /\ \E next \in (SUBSET Operation) \ {{}} : Outstanding' = (Outstanding \ {o}) \cup next
  <2>1. PICK next \in (SUBSET Operation) \ {{}} : Outstanding' = (Outstanding \ {o}) \cup next
    BY <1>3
  <2>2. Abstract!Continue(o, next)
    BY <1>1, <1>3, <2>1, Zenon DEF Abstract!Continue
  <2> QED
    BY <2>1, <2>2, Zenon DEF Abstract!Next
<1>4. CASE LetsGo(o)
  <2>1. Abstract!Finish(o)
    BY <1>1, <1>2, <1>4, Zenon DEF Abstract!Finish, LetsGo
  <2> QED
    BY <2>1, Zenon DEF Abstract!Next
<1> QED
  BY <1>3, <1>4, Zenon DEF Turn

\* Each control move is a step of Watchdog or leaves its variables alone.
LEMMA ControlMoveRefines ==
  ASSUME ControlInvariant, ControlInvariant', ControlNext
  PROVE  [Abstract!Next]_(Abstract!vars)
<1>1. CASE Begins
  <2>1. Abstract!Begin
    BY <1>1, SMT DEF Begins, Continues, Abstract!Begin, ControlInvariant, NotStarted, Operation
  <2> QED
    BY <2>1, Zenon DEF Abstract!Next
<1>2. ASSUME NEW o \in Operation, Turn(o) PROVE Abstract!Next
  BY <1>2, WatchedMoveRefines
<1>3. ASSUME NEW o \in Operation, Drains(o) PROVE Abstract!Next
  <2>1. state' = state /\ state # "read_cipher_data"
    BY <1>3, SMT DEF Drains, state, ControlInvariant, NotStarted
  <2>2. Abstract!Drain(o)
    BY <1>3, <2>1, SMT DEF Drains, Abstract!Drain
  <2> QED
    BY <2>2, Zenon DEF Abstract!Next
<1>4. CASE Expires
  <2>1. Outstanding' = Outstanding
    BY <1>4, Zenon DEF Expires, Outstanding
  <2>2. Abstract!Expire
    BY <1>4, <2>1, Zenon DEF Expires, Abstract!Expire
  <2> QED
    BY <2>2, Zenon DEF Abstract!Next
<1>5. CASE TimesOut
  <2>1. Outstanding' = Outstanding /\ state' = state
    BY <1>5, Zenon DEF TimesOut, Outstanding, state
  <2>2. ~timer_pending /\ state # "read_cipher_data"
    BY <1>5, Zenon DEF TimesOut, ControlInvariant, TimerDiscipline, NotStarted
  <2>3. Abstract!TimeOut
    BY <1>5, <2>1, <2>2, Zenon DEF TimesOut, Abstract!TimeOut
  <2> QED
    BY <2>3, Zenon DEF Abstract!Next
<1>6. CASE Destroyed
  <2>1. /\ Outstanding' = Outstanding
        /\ state' = state
        /\ timer_pending' = timer_pending
        /\ timeout_due' = timeout_due
    BY <1>6, Zenon DEF Destroyed, Outstanding, state, control
  <2> QED
    BY <2>1, Zenon DEF Abstract!vars
<1>7. CASE Quiet
  <2>1. /\ Outstanding' = Outstanding
        /\ state' = state
        /\ timer_pending' = timer_pending
        /\ timeout_due' = timeout_due
    BY <1>7, Zenon DEF Quiet, state
  <2> QED
    BY <2>1, Zenon DEF Abstract!vars
<1> QED
  BY <1>1, <1>2, <1>3, <1>4, <1>5, <1>6, <1>7 DEF ControlNext

\* The connection implements the abstract watchdog: each of its steps is one of
\* the few moves the scheduling discipline allows, or changes nothing of it.
THEOREM ImplementsWatchdogHolds == Spec => ImplementsWatchdog
<1>1. Init => Abstract!Init
  <2> SUFFICES ASSUME Init PROVE Abstract!Init
    OBVIOUS
  <2>1. Outstanding = {} /\ state = "read_cipher_data"
    <3>1. connection_context.connection_state = "read_cipher_data"
      BY DEF Init
    <3> QED
      BY <3>1 DEF Init, Outstanding, state
  <2>2. timer_pending = FALSE /\ timeout_due = FALSE
    BY DEF Init
  <2> QED
    BY <2>1, <2>2, Zenon DEF Abstract!Init
<1>2. ControlInvariant /\ ControlInvariant' /\ [Next]_vars => [Abstract!Next]_(Abstract!vars)
  BY StepIsControlMove, ControlMoveRefines
<1> QED
  BY <1>1, <1>2, ControlIsInvariant, PTL DEF ImplementsWatchdog, Abstract!Safety, Spec

-----------------------------------------------------------------------------
(* Units by the requests they belong to. *)

\* The requests made so far.
Made == 1 .. Len(client.requests)

SentPart == ContentPart \cup {"head", "end", "tunnel"}

\* Units of the requests in K, or of their replies: as their senders write them,
\* and as the proxy passes them on.
SentOf(K) == [of : K, part : SentPart, n : Nat]
PassedOf(K) == [of : K, part : Part, n : Nat]

\* What the proxy may tell the client.
ToldUnit == PassedOf(Made) \cup [of : {0}, part : {"error"}, n : Nat]

-----------------------------------------------------------------------------
(* The operators of HttpMessages. *)

\* A set of naturals that is not empty has a least element.
LEMMA SmallestExists ==
  ASSUME NEW T, T \subseteq Nat, T # {}
  PROVE  \E x \in T : \A y \in T : x <= y
<1>1. IsWellFoundedOn(OpToRel(<, Nat), Nat)
  BY NatLessThanWellFounded
<1>2. \E x \in T : \A y \in T : ~ (<<y, x>> \in OpToRel(<, Nat))
  BY <1>1, WFMin
<1>3. PICK x \in T : \A y \in T : ~ (<<y, x>> \in OpToRel(<, Nat))
  BY <1>2
<1>4. \A y \in T : ~ (y < x)
  BY <1>3 DEF OpToRel
<1> QED
  BY <1>4

\* HeaderEnd is the place of the first blank line, and 0 when there is none.
LEMMA HeaderEndIsFirst ==
  ASSUME NEW S, NEW data \in Seq(S)
  PROVE  /\ HeaderEnd(data) \in 0 .. Len(data)
         /\ HeaderEnd(data) # 0 =>
              /\ data[HeaderEnd(data)].part = "end"
              /\ \A j \in 1 .. Len(data) : data[j].part = "end" => HeaderEnd(data) <= j
         /\ HeaderEnd(data) = 0 => \A j \in 1 .. Len(data) : data[j].part # "end"
<1> DEFINE ends == {i \in DOMAIN data : data[i].part = "end"}
<1>1. DOMAIN data = 1 .. Len(data) /\ Len(data) \in Nat
  BY LenProperties
<1>2. CASE ends = {}
  <2>1. HeaderEnd(data) = 0
    BY <1>2 DEF HeaderEnd
  <2> QED
    BY <1>1, <1>2, <2>1
<1>3. CASE ends # {}
  <2>1. ends \subseteq Nat
    BY <1>1
  <2>2. \E i \in ends : \A j \in ends : i <= j
    BY <1>3, <2>1, SmallestExists, Zenon
  <2>3. HeaderEnd(data) \in ends /\ \A j \in ends : HeaderEnd(data) <= j
    BY <1>3, <2>2 DEF HeaderEnd
  <2> QED
    BY <1>1, <2>3
<1> QED
  BY <1>2, <1>3

\* Passing on what arrived up to a whole header and after it.
LEMMA RewrittenType ==
  ASSUME NEW K, NEW data \in Seq(SentOf(K)), HeaderEnd(data) # 0
  PROVE  Rewritten(data) \in Seq(PassedOf(K)) /\ Rewritten(data) # <<>>
<1> DEFINE e == HeaderEnd(data)
<1>1. e \in 1 .. Len(data) /\ Len(data) \in Nat
  BY HeaderEndIsFirst, LenProperties
<1>2. data[e] \in SentOf(K) /\ \A i \in e + 1 .. Len(data) : data[i] \in SentOf(K)
  BY <1>1, ElementOfSeq
<1>3. SentOf(K) \subseteq PassedOf(K)
  BY DEF SentOf, PassedOf, SentPart, Part, ContentPart
<1>4. [data[e] EXCEPT !.part = "header"] \in PassedOf(K)
  BY <1>2 DEF SentOf, PassedOf, Part
<1>5. << [data[e] EXCEPT !.part = "header"] >> \in Seq(PassedOf(K))
  BY <1>4
<1> DEFINE first == << [data[e] EXCEPT !.part = "header"] >>
           rest == SubSeq(data, e + 1, Len(data))
<1>6. rest \in Seq(PassedOf(K))
  BY <1>1, <1>2, <1>3, SubSeqProperties
<1>7. Rewritten(data) = first \o rest /\ Len(first) = 1
  BY DEF Rewritten
<1> HIDE DEF first, rest
<1>8. first \o rest \in Seq(PassedOf(K)) /\ Len(first \o rest) = 1 + Len(rest)
  BY <1>5, <1>6, <1>7, ConcatProperties DEF first
<1>9. Len(rest) \in Nat
  BY <1>6, LenProperties
<1>10. first \o rest # <<>>
  BY <1>8, <1>9, EmptySeq
<1> QED
  BY <1>7, <1>8, <1>10

\* A message on the wire: its units, where its header ends, and its length.
LEMMA OnTheWireType ==
  ASSUME NEW k \in Nat, NEW m, m.head \in Nat \ {0}, m.content \in Seq(ContentPart)
  PROVE  /\ OnTheWire(k, m) \in Seq(SentOf({k}))
         /\ Len(OnTheWire(k, m)) = m.head + Len(m.content)
         /\ HeaderEnd(OnTheWire(k, m)) = m.head
         /\ \A i \in 1 .. Len(OnTheWire(k, m)) : OnTheWire(k, m)[i].part # "tunnel"
<1> DEFINE head == HeadParts(m.head)
           parts == head \o m.content
           wire == OnTheWire(k, m)
<1>1. head \in Seq({"head", "end"}) /\ Len(head) = m.head
  BY DEF HeadParts
<1>2. /\ \A i \in 1 .. m.head : head[i] = IF i = m.head THEN "end" ELSE "head"
      /\ Len(m.content) \in Nat
      /\ \A i \in 1 .. Len(m.content) : m.content[i] \in ContentPart
  BY LenProperties, ElementOfSeq DEF HeadParts
<1>a. OnTheWire(k, m) = Units(k, parts)
  BY DEF OnTheWire
<1> HIDE DEF head
<1>3. head \in Seq(SentPart) /\ m.content \in Seq(SentPart)
  BY <1>1, SeqMonotonic DEF SentPart
<1>4. /\ parts \in Seq(SentPart)
      /\ Len(parts) = m.head + Len(m.content)
      /\ \A i \in 1 .. Len(parts) :
           parts[i] = IF i <= m.head THEN head[i] ELSE m.content[i - m.head]
  BY <1>1, <1>3, ConcatProperties
<1>5. DOMAIN parts = 1 .. Len(parts) /\ Len(parts) \in Nat
  BY <1>4, LenProperties
<1>6. wire = [n \in 1 .. Len(parts) |-> [of |-> k, part |-> parts[n], n |-> n]]
  BY <1>5, <1>a DEF Units
<1> HIDE DEF parts, wire
<1>7. \A n \in 1 .. Len(parts) : [of |-> k, part |-> parts[n], n |-> n] \in SentOf({k})
  BY <1>4, <1>5, ElementOfSeq DEF SentOf
<1>8. /\ wire \in Seq(SentOf({k}))
      /\ Len(wire) = Len(parts)
      /\ \A i \in 1 .. Len(parts) : wire[i].part = parts[i]
  <2>1. wire \in [1 .. Len(parts) -> SentOf({k})]
    BY <1>6, <1>7, Zenon
  <2>3. wire \in Seq(SentOf({k}))
    BY <1>5, <2>1, SeqDef
  <2>2. Len(wire) = Len(parts)
    BY <1>5, <1>6
  <2> QED
    BY <1>5, <1>6, <2>2, <2>3
<1>9. /\ m.head \in 1 .. Len(wire)
      /\ \A i \in 1 .. Len(wire) : wire[i].part = "end" <=> i = m.head
      /\ \A i \in 1 .. Len(wire) : wire[i].part # "tunnel"
  <2>1. "end" \notin ContentPart /\ "tunnel" \notin ContentPart
    BY DEF ContentPart
  <2>2. \A i \in 1 .. Len(parts) :
           IF i <= m.head THEN parts[i] = IF i = m.head THEN "end" ELSE "head"
           ELSE parts[i] \in ContentPart
    BY <1>2, <1>4
  <2>3. m.head \in 1 .. Len(wire)
    BY <1>2, <1>4, <1>8
  <2> QED
    BY <1>5, <1>8, <2>1, <2>2, <2>3
<1>10. HeaderEnd(wire) = m.head
  BY <1>8, <1>9, HeaderEndIsFirst
<1> QED
  BY <1>4, <1>8, <1>9, <1>10 DEF wire

-----------------------------------------------------------------------------
(* The invariant: types, and the request in hand. *)

OriginName == connection_context.origin_server_name
OriginEndpoint == connection_context.origin_server_endpoint
Recovers == connection_context.reconnect_on_error

ContextRecord ==
  [connection_state : ConnectionState, reconnect_on_error : BOOLEAN,
   origin_server_name : Hosts \cup {NoHost},
   origin_server_endpoint : Endpoints \cup {NoEndpoint}]

\* A connection made to an origin server for one of the requests in K, which is
\* sent units of them and sends units of the replies.
ServerOf(K) ==
  [endpoint : Endpoints, request : K, stream : Seq(SentOf(K)),
   received : Seq(PassedOf(K)), open : BOOLEAN, tunnelled : Nat]

\* Types, closer than TypeOK's: every unit belongs to a request that was made.
DataTypes ==
  /\ connection_context \in ContextRecord
  /\ request_data \in Seq(SentOf(Made))
  /\ upgoing_buffer \in Seq(SentOf(Made))
  /\ response_data \in Seq(SentOf(Made))
  /\ downgoing_buffer \in Seq(SentOf(Made))
  /\ to_origin \in Seq(PassedOf(Made))
  /\ to_client \in Seq(ToldUnit)
  /\ endpoint_iterator \in Seq(Endpoints)
  /\ request_header \in Made \cup {0}
  /\ read_request_context \in RequestContexts
  /\ client \in [requests : Seq(Requests), stream : Seq(SentOf(Made)),
                 received : Seq(ToldUnit), open : BOOLEAN, tunnelled : Nat]
  /\ origins \in Seq(ServerOf(Made))
  /\ replies \in Seq(Responses)
  /\ Len(replies) <= Len(client.requests)

\* The phases of a connection.
Waiting == {"read_cipher_data", "read_http_request_header"}
Finding == {"resolve_origin_server_address", "connect_to_origin_server"}
Sending == {"write_http_request_header", "read_http_request_content",
            "write_http_request_content"}
Responding == {"read_http_response_header", "write_http_response_header",
               "read_http_response_content", "write_http_response_content"}
Tunnelling == {"report_connection_established", "tunnel_transfer"}
Serving == Finding \cup Sending \cup Responding \cup Tunnelling

Served == client.requests[request_header]

\* From its acceptance to the end of its reply there is a request in hand, which
\* the checks accepted and the remembered name is the host of.
RequestInHand ==
  /\ state \in Waiting => request_header = 0
  /\ state \in Serving =>
       /\ request_header \in Made
       /\ RequestStatus(Served) = Accepted
       /\ Served.host = OriginName
       /\ HeaderEnd(request_data) # 0
       /\ state \in Tunnelling => Served.method = "CONNECT"
       /\ state \in Sending \cup Responding => Served.method # "CONNECT"
       /\ Served.method # "CONNECT" =>
            read_request_context.content_length =
              IF HasContent(Served) THEN Served.length ELSE 0
  /\ state = "connect_to_origin_server" => endpoint_iterator # <<>>

-----------------------------------------------------------------------------
(* What a step does to the data: the data moves. *)

\* The handler of o, whose result that was, starts the operations "next".
Ran(o, result, next) ==
  /\ timer_pending
  /\ ops[o] = result
  /\ timer_pending' = TRUE
  /\ ops' = [p \in Operation |-> IF p \in next THEN "pending"
                                 ELSE IF p = o THEN "idle" ELSE ops[p]]
  /\ UNCHANGED environment

\* ... or nothing.
RanOut(o, result) ==
  /\ timer_pending
  /\ ops[o] = result
  /\ timer_pending' = FALSE
  /\ ops' = [ops EXCEPT ![o] = "idle"]
  /\ UNCHANGED environment

\* The fields of connection_context that a step leaves.
Becomes(s, recovers, name, endpoint) ==
  /\ connection_context' =
       [connection_state |-> s, reconnect_on_error |-> recovers,
        origin_server_name |-> name, origin_server_endpoint |-> endpoint]
  /\ state' = s
  /\ Recovers' = recovers
  /\ OriginName' = name
  /\ OriginEndpoint' = endpoint

Stays == Becomes(state, Recovers, OriginName, OriginEndpoint)
Turns(s) == Becomes(s, Recovers, OriginName, OriginEndpoint)

\* An operation stays as it is, fails, or is over and not followed by another.
Settles(o) ==
  \/ ops'[o] = ops[o]
  \/ ops[o] = "pending" /\ ops'[o] = "error"
  \/ ~timer_pending' /\ ops'[o] = "idle"

\* A step that moves no data.
Rests ==
  /\ Stays
  /\ \A o \in {"read_client", "write_origin", "connect"} : Settles(o)
  /\ Settles("read_origin") \/ (ops["read_origin"] # "ok" /\ to_client = <<>>)
  /\ timer_pending' => timer_pending /\ origin_server_socket' = origin_server_socket
  /\ origin_server_socket' = "open" => origin_server_socket = "open"
  /\ UNCHANGED <<contents, environment>>

Begun ==
  /\ state = "read_cipher_data"
  /\ Turns("read_http_request_header")
  /\ ops' = [ops EXCEPT !["read_client"] = "pending"]
  /\ UNCHANGED <<origin_server_socket, contents, environment>>

Complains == \E status \in Nat : to_client' = ErrorReply(status)

\* The handler goes on to report an error.
ReportsError(o, result) ==
  /\ Ran(o, result, {"write_client"})
  /\ Turns("report_error")
  /\ Complains
  /\ UNCHANGED to_origin

\* More of a request has arrived, and it is not accepted.
RequestGrows ==
  /\ state = "read_http_request_header"
  /\ request_data' = request_data \o upgoing_buffer
  /\ upgoing_buffer' = <<>>
  /\ UNCHANGED <<origin_server_socket, request_header, read_request_context, response,
                 downgoing_buffer, endpoint_iterator>>
  /\ \/ Ran("read_client", "ok", {"read_client"}) /\ Stays /\ UNCHANGED writes
     \/ RanOut("read_client", "ok") /\ Stays /\ UNCHANGED writes
     \/ ReportsError("read_client", "ok") /\ request_data' # <<>>

\* The rest of a request's header has arrived, and it is accepted.
RequestTaken ==
  /\ state = "read_http_request_header"
  /\ request_data' = request_data \o upgoing_buffer
  /\ upgoing_buffer' = <<>>
  /\ HeaderEnd(request_data') # 0
  /\ request_header' = request_data'[1].of
  /\ LET r == client.requests[request_header']
     IN  /\ RequestStatus(r) = Accepted
         /\ read_request_context' =
              IF r.method = "CONNECT" THEN read_request_context
              ELSE RequestContext(r, Len(request_data') - HeaderEnd(request_data'))
  /\ UNCHANGED <<response, downgoing_buffer, endpoint_iterator>>

\* on_connect, for a request and for a tunnel.
SendsRequest(o, recovers) ==
  /\ client.requests[request_header'].method # "CONNECT"
  /\ Ran(o, "ok", {"write_origin"})
  /\ Becomes("write_http_request_header", recovers, OriginName, OriginEndpoint)
  /\ to_origin' = Rewritten(request_data')
  /\ UNCHANGED to_client

OpensTunnel(o, recovers) ==
  /\ client.requests[request_header'].method = "CONNECT"
  /\ Ran(o, "ok", {"write_client"})
  /\ Becomes("report_connection_established", recovers, OriginName, OriginEndpoint)
  /\ to_client' = Established(request_header')
  /\ UNCHANGED to_origin

\* The name is to be resolved, the socket being as async_connect... was given it.
Resolves(o, result, socket) ==
  LET r == client.requests[request_header']
  IN  /\ Ran(o, result, {"resolve"})
      /\ Becomes("resolve_origin_server_address", FALSE, r.host, OriginEndpoint)
      /\ origin_server_socket' = IF r.method = "CONNECT" THEN "closed" ELSE socket
      /\ UNCHANGED writes

TakenOnKept ==
  /\ RequestTaken
  /\ origin_server_socket = "open"
  /\ client.requests[request_header'].host = OriginName
  /\ SendsRequest("read_client", TRUE)
  /\ UNCHANGED origin_server_socket

TakenAnew ==
  /\ RequestTaken
  /\ Resolves("read_client", "ok", origin_server_socket)

Reconnecting ==
  /\ Reconnects
  /\ Resolves("write_origin", "error", "closed")
  /\ UNCHANGED <<request, response, buffers, endpoint_iterator>>

\* on_resolved keeps the connection it has.
ResolvedToKept ==
  /\ state = "resolve_origin_server_address"
  /\ origin_server_socket = "open"
  /\ \E endpoints \in Resolutions[OriginName] : Contains(endpoints, OriginEndpoint)
  /\ SendsRequest("resolve", TRUE) \/ OpensTunnel("resolve", TRUE)
  /\ origin_server_socket' \in {"open", "closed"}
  /\ UNCHANGED <<request, response, buffers, endpoint_iterator>>

\* on_resolved, or on_connect after a failure, tries an endpoint.
TriesEndpoint ==
  /\ \/ /\ state = "resolve_origin_server_address"
        /\ endpoint_iterator' \in Resolutions[OriginName]
        /\ Ran("resolve", "ok", {"connect"})
     \/ /\ state = "connect_to_origin_server"
        /\ Len(endpoint_iterator) > 1
        /\ endpoint_iterator' = Tail(endpoint_iterator)
        /\ Ran("connect", "error", {"connect"})
  /\ Becomes("connect_to_origin_server", Recovers, OriginName, Head(endpoint_iterator'))
  /\ origin_server_socket' = "open"
  /\ UNCHANGED <<request, response, buffers, writes>>

ConnectedTo ==
  /\ state = "connect_to_origin_server"
  /\ SendsRequest("connect", Recovers) \/ OpensTunnel("connect", Recovers)
  /\ UNCHANGED <<origin_server_socket, request, response, buffers, endpoint_iterator>>

NotConnected ==
  /\ \/ /\ state = "resolve_origin_server_address"
        /\ ReportsError("resolve", "error")
        /\ UNCHANGED origin_server_socket
     \/ /\ state = "connect_to_origin_server"
        /\ ReportsError("connect", "error")
        /\ origin_server_socket' = "closed"
  /\ UNCHANGED <<request, response, buffers, endpoint_iterator>>

\* Content goes from the client to the origin, of a request or in the tunnel.
PassesContent ==
  /\ state = "read_http_request_content"
  /\ Ran("read_client", "ok", {"write_origin"})
  /\ Turns("write_http_request_content")
  /\ read_request_context' =
       [read_request_context EXCEPT !.content_length_has_read = @ + Len(upgoing_buffer)]
  /\ to_origin' = upgoing_buffer
  /\ upgoing_buffer' = <<>>
  /\ UNCHANGED <<origin_server_socket, request_data, request_header, response,
                 downgoing_buffer, to_client, endpoint_iterator>>

PassesUp ==
  /\ state = "tunnel_transfer"
  /\ Ran("read_client", "ok", {"write_origin"})
  /\ Stays
  /\ to_origin' = upgoing_buffer
  /\ upgoing_buffer' = <<>>
  /\ UNCHANGED <<origin_server_socket, request, response, downgoing_buffer, to_client,
                 endpoint_iterator>>

\* What follows a write to the origin.
Writing == {"write_http_request_header", "write_http_request_content"}

OriginTook ==
  /\ \/ /\ to_origin # <<>>
        /\ state \in Writing \cup {"tunnel_transfer"}
        /\ Ran("write_origin", "ok", {"write_origin"})
        /\ Becomes(state, FALSE, OriginName, OriginEndpoint)
     \/ /\ to_origin = <<>>
        /\ state = "tunnel_transfer"
        /\ Ran("write_origin", "ok", {"read_client"})
        /\ Becomes("tunnel_transfer", FALSE, OriginName, OriginEndpoint)
     \/ /\ to_origin = <<>>
        /\ state \in Writing
        /\ ~RequestComplete(read_request_context)
        /\ Ran("write_origin", "ok", {"read_client"})
        /\ Becomes("read_http_request_content", FALSE, OriginName, OriginEndpoint)
     \/ /\ to_origin = <<>>
        /\ state \in Writing
        /\ RequestComplete(read_request_context)
        /\ Ran("write_origin", "ok", {"read_origin"})
        /\ Becomes("read_http_response_header", FALSE, OriginName, OriginEndpoint)
  /\ UNCHANGED <<origin_server_socket, contents>>

\* More of a response's header has arrived, and it is not relayed.
ResponseGrows ==
  /\ state = "read_http_response_header"
  /\ response_data' = response_data \o downgoing_buffer
  /\ downgoing_buffer' = <<>>
  /\ \/ Ran("read_origin", "ok", {"read_origin"}) /\ Stays /\ UNCHANGED writes
     \/ ReportsError("read_origin", "ok")
  /\ UNCHANGED <<origin_server_socket, request, read_response_context, upgoing_buffer,
                 endpoint_iterator>>

RelaysHeader ==
  /\ state = "read_http_response_header"
  /\ response_data' = response_data \o downgoing_buffer
  /\ downgoing_buffer' = <<>>
  /\ HeaderEnd(response_data') # 0
  /\ read_response_context' = ResponseContext(ArrivedResponse, RequestMethod, ArrivedContent)
  /\ Ran("read_origin", "ok", {"write_client"})
  /\ Turns("write_http_response_header")
  /\ to_client' = Rewritten(response_data')
  /\ UNCHANGED <<origin_server_socket, request, upgoing_buffer, to_origin, endpoint_iterator>>

RelaysContent ==
  /\ state = "read_http_response_content"
  /\ read_response_context' = Counted(read_response_context, downgoing_buffer)
  /\ downgoing_buffer' = <<>>
  /\ \/ /\ Ran("read_origin", "ok", {"write_client"})
        /\ Turns("write_http_response_content")
        /\ to_client' = downgoing_buffer
     \/ RanOut("read_origin", "ok") /\ Stays /\ UNCHANGED to_client
  /\ UNCHANGED <<origin_server_socket, request, response_data, upgoing_buffer, to_origin,
                 endpoint_iterator>>

PassesDown ==
  /\ state = "tunnel_transfer"
  /\ Ran("read_origin", "ok", {"write_client"})
  /\ Stays
  /\ to_client' = downgoing_buffer
  /\ downgoing_buffer' = <<>>
  /\ UNCHANGED <<origin_server_socket, request, response, upgoing_buffer, to_origin,
                 endpoint_iterator>>

\* What follows a write to the client.
AwaitsContent ==
  /\ state \in {"write_http_response_header", "write_http_response_content"}
  /\ to_client = <<>>
  /\ Ran("write_client", "ok", {"read_origin"})
  /\ Turns("read_http_response_content")
  /\ UNCHANGED <<origin_server_socket, contents>>

AwaitsRequest ==
  /\ state \in {"write_http_response_header", "write_http_response_content"}
  /\ to_client = <<>>
  /\ ResponseComplete(read_response_context)
  /\ Ran("write_client", "ok", {"read_client"})
  /\ Turns("read_http_request_header")
  /\ origin_server_socket' \in {origin_server_socket, "closed"}
  /\ ClearMessages
  /\ UNCHANGED <<buffers, writes, endpoint_iterator>>

StartsTunnel ==
  /\ state = "report_connection_established"
  /\ to_client = <<>>
  /\ Ran("write_client", "ok", {"read_client", "read_origin"})
  /\ Turns("tunnel_transfer")
  /\ UNCHANGED <<origin_server_socket, contents>>

\* The steps of the environment that move data.
Arrives ==
  /\ Stays
  /\ \/ ClientDataRead
     \/ OriginDataRead
     \/ ClientDataWrite
     \/ OriginDataWrite
     \/ EndpointConnected
     \/ Peers

DataNext ==
  \/ Rests \/ Begun
  \/ RequestGrows \/ TakenOnKept \/ TakenAnew \/ Reconnecting
  \/ ResolvedToKept \/ TriesEndpoint \/ ConnectedTo \/ NotConnected
  \/ PassesContent \/ PassesUp \/ OriginTook
  \/ ResponseGrows \/ RelaysHeader \/ RelaysContent \/ PassesDown
  \/ AwaitsContent \/ AwaitsRequest \/ StartsTunnel
  \/ Arrives

-----------------------------------------------------------------------------
(* Every step is a data move. *)

\* A handler that returns after one timed call has run.
LEMMA ReturnsRan ==
  ASSUME NEW o, NEW result, Runs(o, result),
         NEW op, NEW c, c = [op |-> op, timed |-> TRUE], Returns(o, {c})
  PROVE  Ran(o, result, {op})
<1>1. timer_pending /\ ops[o] = result
  BY DEF Runs
<1>2. timer_pending' = TRUE /\ UNCHANGED environment
  BY DEF Returns
<1>3. \A p \in Operation : (\E d \in {c} : d.op = p) <=> p \in {op}
  BY SMT
<1>4. ops' = [p \in Operation |-> IF \E d \in {c} : d.op = p THEN "pending"
                                  ELSE IF p = o THEN "idle" ELSE ops[p]]
  BY Zenon DEF Returns
<1>5. ops' = [p \in Operation |-> IF p \in {op} THEN "pending"
                                  ELSE IF p = o THEN "idle" ELSE ops[p]]
  BY <1>3, <1>4, SMT
<1> QED
  BY <1>1, <1>2, <1>5, Zenon DEF Ran

\* The calls of start_tunnel_transfer.
LEMMA ReturnsRanTunnel ==
  ASSUME NEW o, NEW result, Runs(o, result), Returns(o, TunnelReads)
  PROVE  Ran(o, result, {"read_client", "read_origin"})
<1>1. timer_pending /\ ops[o] = result
  BY DEF Runs
<1>2. timer_pending' = TRUE /\ UNCHANGED environment
  BY DEF Returns, TunnelReads, ReadClient, ReadOrigin
<1>3. \A p \in Operation : (\E d \in TunnelReads : d.op = p) <=> p \in {"read_client", "read_origin"}
  BY SMT DEF TunnelReads, ReadClient, ReadOrigin
<1>4. ops' = [p \in Operation |-> IF \E d \in TunnelReads : d.op = p THEN "pending"
                                  ELSE IF p = o THEN "idle" ELSE ops[p]]
  BY Zenon DEF Returns
<1>5. ops' = [p \in Operation |-> IF p \in {"read_client", "read_origin"} THEN "pending"
                                  ELSE IF p = o THEN "idle" ELSE ops[p]]
  BY <1>3, <1>4, SMT
<1> QED
  BY <1>1, <1>2, <1>5, Zenon DEF Ran

\* A handler that returns without a call.
LEMMA ReturnsRanOut ==
  ASSUME ControlTypeOK, NEW o \in Operation, NEW result, Runs(o, result), Returns(o, {})
  PROVE  RanOut(o, result)
<1>1. timer_pending /\ ops[o] = result
  BY DEF Runs
<1>2. timer_pending' = FALSE /\ UNCHANGED environment
  BY DEF Returns
<1>3. ops' = [p \in Operation |-> IF p = o THEN "idle" ELSE ops[p]]
  BY SMT DEF Returns
<1>4. DOMAIN ops = Operation
  BY DEF ControlTypeOK
<1>5. [ops EXCEPT ![o] = "idle"] = [p \in DOMAIN ops |-> IF p = o THEN "idle" ELSE ops[p]]
  BY <1>4
<1>6. ops' = [ops EXCEPT ![o] = "idle"]
  BY <1>3, <1>4, <1>5
<1> QED
  BY <1>1, <1>2, <1>6, Zenon DEF RanOut

\* What becomes of connection_context, by how it is assigned.
LEMMA ContextFields ==
  ASSUME connection_context \in ContextRecord
  PROVE  /\ UNCHANGED connection_context => Stays
         /\ \A s : connection_context' = Goto(s) => Turns(s)
         /\ connection_context =
              [connection_state |-> state, reconnect_on_error |-> Recovers,
               origin_server_name |-> OriginName, origin_server_endpoint |-> OriginEndpoint]
<1>1. connection_context =
        [connection_state |-> state, reconnect_on_error |-> Recovers,
         origin_server_name |-> OriginName, origin_server_endpoint |-> OriginEndpoint]
  BY DEF ContextRecord, state, Recovers, OriginName, OriginEndpoint
<1>2. \A s : Goto(s) = [connection_state |-> s, reconnect_on_error |-> Recovers,
                        origin_server_name |-> OriginName,
                        origin_server_endpoint |-> OriginEndpoint]
  BY DEF ContextRecord, Goto, Recovers, OriginName, OriginEndpoint
<1>3. ASSUME NEW s, NEW b, NEW n, NEW e,
             connection_context' =
               [connection_state |-> s, reconnect_on_error |-> b,
                origin_server_name |-> n, origin_server_endpoint |-> e]
      PROVE  Becomes(s, b, n, e)
  BY <1>3 DEF Becomes, state, Recovers, OriginName, OriginEndpoint
<1>4. UNCHANGED connection_context => Stays
  BY <1>1, <1>3 DEF Stays
<1>5. \A s : connection_context' = Goto(s) => Turns(s)
  BY <1>2, <1>3 DEF Turns
<1> QED
  BY <1>1, <1>4, <1>5

\* Fields written one by one are the record with those fields.
LEMMA ContextWritten ==
  ASSUME NEW s, NEW b, NEW n, NEW e,
         connection_context' =
           [connection_state |-> s, reconnect_on_error |-> b,
            origin_server_name |-> n, origin_server_endpoint |-> e]
  PROVE  Becomes(s, b, n, e)
  BY DEF Becomes, state, Recovers, OriginName, OriginEndpoint

\* The states in which the handler of an operation runs.
LEMMA StatesOfOperation ==
  ASSUME ControlInvariant, NEW o \in Operation, NEW result, result # "idle", Runs(o, result)
  PROVE  /\ o = "resolve" => state = "resolve_origin_server_address"
         /\ o = "connect" => state = "connect_to_origin_server"
         /\ o = "write_origin" => state \in Writing \cup {"tunnel_transfer"}
         /\ state # "read_cipher_data"
<1>1. o \in Outstanding /\ timer_pending
  BY RunsOutstanding
<1>2. Outstanding \in OperationsOf(state) /\ state \in ConnectionState
  BY <1>1, Zenon DEF ControlInvariant, ControlTypeOK, OperationsFitState
<1> QED
  BY <1>1, <1>2, SMT DEF OperationsOf, ConnectionState, Writing

-----------------------------------------------------------------------------
(* Handlers that move no data. *)

\* Ending the last operation that is watched, both sockets closed or not opened.
LEMMA EndingRests ==
  ASSUME ControlTypeOK, connection_context \in ContextRecord, NEW o \in Operation, NEW result,
         RanOut(o, result), UNCHANGED <<connection_context, contents>>,
         origin_server_socket' = "open" => origin_server_socket = "open"
  PROVE  Rests
<1>1. Stays
  BY ContextFields
<1>2. \A p \in {"read_client", "write_origin", "connect", "read_origin"} : Settles(p)
  BY DEF RanOut, Settles, ControlTypeOK, Operation
<1>3. timer_pending' = FALSE /\ UNCHANGED <<contents, environment>>
  BY DEF RanOut
<1> QED
  BY <1>1, <1>2, <1>3, Zenon DEF Rests

\* Going on with the other end, or with the same write.
LEMMA GoingOnRests ==
  ASSUME ControlTypeOK, connection_context \in ContextRecord, NEW result,
         NEW next \in {{"write_client"}, {"read_origin"}},
         Ran("write_client", result, next), UNCHANGED <<connection_context, contents>>,
         UNCHANGED origin_server_socket,
         next = {"read_origin"} => ops["read_origin"] = "idle" /\ to_client = <<>>
  PROVE  Rests
<1>1. Stays
  BY ContextFields
<1>2. \A p \in {"read_client", "write_origin", "connect"} : Settles(p)
  BY DEF Ran, Settles, ControlTypeOK, Operation
<1>3. timer_pending /\ UNCHANGED <<contents, environment>>
  BY DEF Ran
<1>4. Settles("read_origin") \/ (ops["read_origin"] # "ok" /\ to_client = <<>>)
  <2>1. CASE next = {"write_client"}
    BY <2>1 DEF Ran, Settles, ControlTypeOK, Operation
  <2>2. CASE next = {"read_origin"}
    BY <2>2
  <2> QED
    BY <2>1, <2>2
<1> QED
  BY <1>1, <1>2, <1>3, <1>4, Zenon DEF Rests

-----------------------------------------------------------------------------
(* Handlers that lead to an origin server. *)

\* The context with which on_connect is called has these fields.
HasFields(context, recovers) ==
  \E s : context = [connection_state |-> s, reconnect_on_error |-> recovers,
                    origin_server_name |-> OriginName,
                    origin_server_endpoint |-> OriginEndpoint]

\* The contexts it is called with do.
LEMMA ContextsHaveFields ==
  ASSUME connection_context \in ContextRecord
  PROVE  HasFields(Kept, TRUE) /\ HasFields(connection_context, Recovers)
<1>1. connection_context =
        [connection_state |-> state, reconnect_on_error |-> Recovers,
         origin_server_name |-> OriginName, origin_server_endpoint |-> OriginEndpoint]
  BY ContextFields
<1>2. \A recovers : [connection_context EXCEPT !.reconnect_on_error = recovers] =
        [connection_state |-> state, reconnect_on_error |-> recovers,
         origin_server_name |-> OriginName, origin_server_endpoint |-> OriginEndpoint]
  BY DEF ContextRecord, state, OriginName, OriginEndpoint
<1>3. Kept = [connection_state |-> state, reconnect_on_error |-> TRUE,
              origin_server_name |-> OriginName, origin_server_endpoint |-> OriginEndpoint]
  BY <1>2, Zenon DEF Kept
<1> QED
  BY <1>1, <1>3, Zenon DEF HasFields

\* on_connect sends the request or opens the tunnel.
LEMMA OnConnectMoves ==
  ASSUME NEW o, Runs(o, "ok"), NEW context, NEW recovers, HasFields(context, recovers),
         OnConnect(o, context)
  PROVE  SendsRequest(o, recovers) \/ OpensTunnel(o, recovers)
<1>1. PICK s : context = [connection_state |-> s, reconnect_on_error |-> recovers,
                          origin_server_name |-> OriginName,
                          origin_server_endpoint |-> OriginEndpoint]
  BY Zenon DEF HasFields
<1>2. \A t : [context EXCEPT !.connection_state = t] =
               [connection_state |-> t, reconnect_on_error |-> recovers,
                origin_server_name |-> OriginName, origin_server_endpoint |-> OriginEndpoint]
  BY <1>1
<1>3. CASE client.requests[request_header'].method = "CONNECT"
  <2>1. /\ Returns(o, {WriteClient})
        /\ connection_context' =
             [context EXCEPT !.connection_state = "report_connection_established"]
        /\ to_client' = Established(request_header')
        /\ UNCHANGED to_origin
    BY <1>3, Zenon DEF OnConnect
  <2>2. Ran(o, "ok", {"write_client"})
    BY <2>1, Calls, ReturnsRan
  <2>3. Becomes("report_connection_established", recovers, OriginName, OriginEndpoint)
    BY <1>2, <2>1, ContextWritten
  <2> QED
    BY <1>3, <2>1, <2>2, <2>3, Zenon DEF OpensTunnel
<1>4. CASE client.requests[request_header'].method # "CONNECT"
  <2>1. /\ Returns(o, {WriteOrigin})
        /\ connection_context' =
             [context EXCEPT !.connection_state = "write_http_request_header"]
        /\ to_origin' = Rewritten(request_data')
        /\ UNCHANGED to_client
    BY <1>4, Zenon DEF OnConnect
  <2>2. Ran(o, "ok", {"write_origin"})
    BY <2>1, Calls, ReturnsRan
  <2>3. Becomes("write_http_request_header", recovers, OriginName, OriginEndpoint)
    BY <1>2, <2>1, ContextWritten
  <2> QED
    BY <1>4, <2>1, <2>2, <2>3, Zenon DEF SendsRequest
<1> QED
  BY <1>3, <1>4

\* async_connect_to_origin_server keeps the connection or has the name resolved.
LEMMA ConnectToOriginMoves ==
  ASSUME connection_context \in ContextRecord, NEW o, NEW result, Runs(o, result),
         NEW socket, socket = "open" => result = "ok", ConnectToOrigin(o, socket)
  PROVE  \/ /\ socket = "open"
            /\ client.requests[request_header'].host = OriginName
            /\ SendsRequest(o, TRUE)
            /\ origin_server_socket' = socket
         \/ Resolves(o, result, socket)
<1> DEFINE r == client.requests[request_header']
<1>1. CASE SameOrigin(r, socket)
  <2>1. /\ socket = "open"
        /\ r.method # "CONNECT"
        /\ r.host = OriginName
    BY <1>1, Zenon DEF SameOrigin, OriginName
  <2>2. OnConnect(o, Kept) /\ origin_server_socket' = socket
    BY <1>1 DEF ConnectToOrigin
  <2>3. HasFields(Kept, TRUE)
    BY ContextsHaveFields
  <2>4. SendsRequest(o, TRUE) \/ OpensTunnel(o, TRUE)
    BY <2>1, <2>2, <2>3, OnConnectMoves
  <2> QED
    BY <2>1, <2>2, <2>4 DEF OpensTunnel
<1>2. CASE ~SameOrigin(r, socket)
  <2>1. /\ Returns(o, {ResolveName})
        /\ connection_context' =
             [Goto("resolve_origin_server_address") EXCEPT
                !.reconnect_on_error = FALSE, !.origin_server_name = r.host]
        /\ origin_server_socket' = IF r.method = "CONNECT" THEN "closed" ELSE socket
        /\ UNCHANGED writes
    BY <1>2 DEF ConnectToOrigin
  <2>2. Ran(o, result, {"resolve"})
    BY <2>1, Calls, ReturnsRan
  <2>3. connection_context' =
          [connection_state |-> "resolve_origin_server_address", reconnect_on_error |-> FALSE,
           origin_server_name |-> r.host, origin_server_endpoint |-> OriginEndpoint]
    BY <2>1 DEF Goto, ContextRecord, OriginEndpoint
  <2>4. Becomes("resolve_origin_server_address", FALSE, r.host, OriginEndpoint)
    BY <2>3, ContextWritten
  <2> QED
    BY <2>1, <2>2, <2>4, Zenon DEF Resolves
<1> QED
  BY <1>1, <1>2

\* on_resolved keeps the connection or tries the first endpoint.
LEMMA OnResolvedMoves ==
  ASSUME connection_context \in ContextRecord, NEW o, NEW result, Runs(o, result),
         NEW endpoints, NEW socket, socket = "open" => result = "ok",
         OnResolved(o, endpoints, socket)
  PROVE  \/ /\ socket = "open"
            /\ Contains(endpoints, OriginEndpoint)
            /\ SendsRequest(o, TRUE) \/ OpensTunnel(o, TRUE)
            /\ origin_server_socket' \in {"open", "closed"}
            /\ UNCHANGED endpoint_iterator
         \/ /\ Ran(o, result, {"connect"})
            /\ Becomes("connect_to_origin_server", Recovers, OriginName, Head(endpoints))
            /\ origin_server_socket' = "open"
            /\ endpoint_iterator' = endpoints
            /\ UNCHANGED writes
<1>1. CASE socket = "open" /\ Contains(endpoints, OriginEndpoint)
  <2>1. /\ OnConnect(o, Kept)
        /\ origin_server_socket' \in {"open", "closed"}
        /\ UNCHANGED endpoint_iterator
    BY <1>1 DEF OnResolved, OriginEndpoint
  <2>2. HasFields(Kept, TRUE)
    BY ContextsHaveFields
  <2>3. SendsRequest(o, TRUE) \/ OpensTunnel(o, TRUE)
    BY <1>1, <2>1, <2>2, OnConnectMoves
  <2> QED
    BY <1>1, <2>1, <2>3
<1>2. CASE ~(socket = "open" /\ Contains(endpoints, OriginEndpoint))
  <2>1. /\ Returns(o, {Connect})
        /\ connection_context' = ConnectingTo(Head(endpoints))
        /\ origin_server_socket' = "open"
        /\ endpoint_iterator' = endpoints
        /\ UNCHANGED writes
    BY <1>2 DEF OnResolved, OriginEndpoint
  <2>2. Ran(o, result, {"connect"})
    BY <2>1, Calls, ReturnsRan
  <2>3. connection_context' =
          [connection_state |-> "connect_to_origin_server", reconnect_on_error |-> Recovers,
           origin_server_name |-> OriginName, origin_server_endpoint |-> Head(endpoints)]
    BY <2>1 DEF ConnectingTo, Goto, ContextRecord, OriginName, Recovers
  <2>4. Becomes("connect_to_origin_server", Recovers, OriginName, Head(endpoints))
    BY <2>3, ContextWritten
  <2> QED
    BY <2>1, <2>2, <2>4
<1> QED
  BY <1>1, <1>2

\* report_error.
LEMMA ReportErrorMoves ==
  ASSUME connection_context \in ContextRecord, NEW o, NEW result, Runs(o, result),
         NEW status \in Nat, ReportError(o, status)
  PROVE  ReportsError(o, result)
<1>1. Ran(o, result, {"write_client"})
  BY Calls, ReturnsRan DEF ReportError
<1>2. Turns("report_error")
  BY ContextFields DEF ReportError
<1>3. Complains /\ UNCHANGED to_origin
  BY Zenon DEF ReportError, Complains
<1> QED
  BY <1>1, <1>2, <1>3, Zenon DEF ReportsError

\* The status of a request is a number.
LEMMA RequestStatusType == \A r : RequestStatus(r) \in Nat
<1> TAKE r
<1> DEFINE checks == RequestChecks(r)
           failed == {i \in DOMAIN checks : ~checks[i][1]}
<1>1. DOMAIN checks = 1 .. 9 /\ \A i \in 1 .. 9 : checks[i][2] \in Nat
  BY DEF RequestChecks, EmptyOptional
<1>2. RequestStatus(r) =
        IF failed = {} THEN Accepted
        ELSE checks[CHOOSE i \in failed : \A j \in failed : i <= j][2]
  BY DEF RequestStatus
<1> HIDE DEF checks
<1>3. CASE failed = {}
  BY <1>2, <1>3 DEF Accepted
<1>4. CASE failed # {}
  <2>1. failed \subseteq Nat
    BY <1>1
  <2>2. \E i \in failed : \A j \in failed : i <= j
    BY <1>4, <2>1, SmallestExists, Zenon
  <2>3. (CHOOSE i \in failed : \A j \in failed : i <= j) \in 1 .. 9
    BY <1>1, <2>2
  <2> QED
    BY <1>1, <1>2, <1>4, <2>3
<1> QED
  BY <1>3, <1>4

-----------------------------------------------------------------------------
(* The handlers, one by one. *)

\* on_proxy_client_data_arrived.
LEMMA ClientDataMoves ==
  ASSUME ControlInvariant, DataTypes, OnProxyClientDataArrived
  PROVE  RequestGrows \/ TakenOnKept \/ TakenAnew \/ PassesContent \/ PassesUp
<1> DEFINE o == "read_client"
<1>1. /\ Runs(o, "ok")
      /\ upgoing_buffer' = <<>>
      /\ UNCHANGED <<proxy_client_socket, response, downgoing_buffer, endpoint_iterator>>
  BY DEF OnProxyClientDataArrived
<1>2. connection_context \in ContextRecord /\ ControlTypeOK /\ o \in Operation
  BY DEF DataTypes, ControlInvariant, Operation
<1>3. CASE RequestHeaderArrives
  <2>1. /\ state = "read_http_request_header"
        /\ request_data' = request_data \o upgoing_buffer
    BY <1>3 DEF RequestHeaderArrives
  <2>2. CASE ReadMoreOfRequestHeader
    <3>1. Ran(o, "ok", {o})
      BY <1>1, <2>2, Calls, ReturnsRan DEF ReadMoreOfRequestHeader
    <3>2. Stays
      BY <1>2, <2>2, ContextFields DEF ReadMoreOfRequestHeader
    <3> QED
      BY <1>1, <2>1, <2>2, <3>1, <3>2, Zenon DEF ReadMoreOfRequestHeader, RequestGrows
  <2>3. CASE RejectRequest
    <3>1. RequestVerdict(request_data') \in Nat
      BY RequestStatusType DEF RequestVerdict, Incomplete
    <3>2. ReportsError(o, "ok")
      BY <1>1, <1>2, <2>3, <3>1, ReportErrorMoves DEF RejectRequest
    <3>3. request_data' # <<>>
      <4>1. HeaderEnd(<<>>) = 0
        BY DEF HeaderEnd
      <4>2. Len(<<>>) < MaxHeader
        BY EmptySeq, BoundsAssumption
      <4>3. RequestVerdict(<<>>) = Incomplete
        BY <4>1, <4>2, Zenon DEF RequestVerdict
      <4> QED
        BY <2>3, <4>3, Zenon DEF RejectRequest
    <3> QED
      BY <1>1, <2>1, <2>3, <3>2, <3>3, Zenon DEF RejectRequest, RequestGrows
  <2>4. CASE DereferenceEmptyChecker
    <3>1. Stays
      BY <1>2, <2>4, ContextFields DEF DereferenceEmptyChecker
    <3>2. RanOut(o, "ok")
      BY <1>1, <2>4, Zenon DEF DereferenceEmptyChecker, RanOut, Runs
    <3> QED
      BY <1>1, <2>1, <2>4, <3>1, <3>2, Zenon DEF DereferenceEmptyChecker, RequestGrows
  <2>5. CASE AcceptRequest
    <3> DEFINE r == client.requests[request_header']
    <3>1. /\ request_header' = request_data'[1].of
          /\ read_request_context' =
               IF r.method = "CONNECT" THEN read_request_context
               ELSE RequestContext(r, Len(request_data') - HeaderEnd(request_data'))
          /\ ConnectToOrigin(o, origin_server_socket)
      BY <2>5 DEF AcceptRequest
    <3>2. HeaderEnd(request_data') # 0 /\ RequestStatus(r) = Accepted
      <4>1. RequestVerdict(request_data') = Accepted
        BY <2>5 DEF AcceptRequest
      <4>2. HeaderEnd(request_data') # 0
        BY <4>1 DEF RequestVerdict, Accepted, Incomplete
      <4> QED
        BY <3>1, <4>1, <4>2 DEF RequestVerdict
    <3>3. RequestTaken
      BY <1>1, <2>1, <3>1, <3>2, Zenon DEF RequestTaken
    <3>4. \/ /\ origin_server_socket = "open"
             /\ r.host = OriginName
             /\ SendsRequest(o, TRUE)
             /\ origin_server_socket' = origin_server_socket
          \/ Resolves(o, "ok", origin_server_socket)
      BY <1>1, <1>2, <3>1, ConnectToOriginMoves
    <3> QED
      BY <3>3, <3>4, Zenon DEF TakenOnKept, TakenAnew
  <2> QED
    BY <1>3, <2>2, <2>3, <2>4, <2>5 DEF RequestHeaderArrives
<1>4. CASE RequestContentArrives
  <2>1. Ran(o, "ok", {"write_origin"})
    BY <1>1, <1>4, Calls, ReturnsRan DEF RequestContentArrives
  <2>2. Turns("write_http_request_content")
    BY <1>2, <1>4, ContextFields DEF RequestContentArrives
  <2> QED
    BY <1>1, <1>4, <2>1, <2>2, Zenon DEF RequestContentArrives, PassesContent
<1>5. CASE TunnelClientData
  <2>1. Ran(o, "ok", {"write_origin"})
    BY <1>1, <1>5, Calls, ReturnsRan DEF TunnelClientData
  <2>2. Stays
    BY <1>2, <1>5, ContextFields DEF TunnelClientData
  <2> QED
    BY <1>1, <1>5, <2>1, <2>2, Zenon DEF TunnelClientData, PassesUp
<1> QED
  BY <1>3, <1>4, <1>5 DEF OnProxyClientDataArrived

\* on_origin_server_data_written.
LEMMA OriginWrittenMoves ==
  ASSUME ControlInvariant, DataTypes, OnOriginServerDataWritten
  PROVE  OriginTook
<1> DEFINE o == "write_origin"
<1>1. /\ Runs(o, "ok")
      /\ UNCHANGED <<origin_server_socket, contents>>
  BY Zenon DEF OnOriginServerDataWritten, sockets
<1>2. connection_context \in ContextRecord /\ o \in Operation
  BY DEF DataTypes, Operation
<1>3. state \in Writing \cup {"tunnel_transfer"}
  BY <1>1, <1>2, StatesOfOperation
<1>4. ASSUME NEW s, connection_context' = [Goto(s) EXCEPT !.reconnect_on_error = FALSE]
      PROVE  Becomes(s, FALSE, OriginName, OriginEndpoint)
  <2>1. connection_context' =
          [connection_state |-> s, reconnect_on_error |-> FALSE,
           origin_server_name |-> OriginName, origin_server_endpoint |-> OriginEndpoint]
    BY <1>2, <1>4 DEF Goto, ContextRecord, OriginName, OriginEndpoint
  <2> QED
    BY <2>1, ContextWritten
<1>5. ASSUME NEW op, NEW c, c = [op |-> op, timed |-> TRUE], NEW s, AfterOriginWrite(c, s)
      PROVE  /\ to_origin = <<>>
             /\ Ran(o, "ok", {op})
             /\ Becomes(s, FALSE, OriginName, OriginEndpoint)
  BY <1>1, <1>4, <1>5, ReturnsRan DEF AfterOriginWrite, WholeBufferWritten
<1>6. CASE WriteRestToOrigin
  <2>1. to_origin # <<>> /\ Ran(o, "ok", {o})
    BY <1>1, <1>6, Calls, ReturnsRan DEF WriteRestToOrigin, WholeBufferWritten
  <2>2. connection_context' =
          [connection_state |-> state, reconnect_on_error |-> FALSE,
           origin_server_name |-> OriginName, origin_server_endpoint |-> OriginEndpoint]
    BY <1>2, <1>6 DEF WriteRestToOrigin, ContextRecord, state, OriginName, OriginEndpoint
  <2>3. Becomes(state, FALSE, OriginName, OriginEndpoint)
    BY <2>2, ContextWritten
  <2> QED
    BY <1>1, <1>3, <2>1, <2>3, Zenon DEF OriginTook
<1>7. CASE state = "tunnel_transfer" /\ AfterOriginWrite(ReadClient, "tunnel_transfer")
  BY <1>1, <1>5, <1>7, Calls, Zenon DEF OriginTook
<1>8. CASE /\ state \in Writing
           /\ ~RequestComplete(read_request_context)
           /\ AfterOriginWrite(ReadClient, "read_http_request_content")
  BY <1>1, <1>5, <1>8, Calls, Zenon DEF OriginTook
<1>9. CASE /\ state \in Writing
           /\ RequestComplete(read_request_context)
           /\ AfterOriginWrite(ReadOrigin(TRUE), "read_http_response_header")
  BY <1>1, <1>5, <1>9, Calls, Zenon DEF OriginTook
<1> QED
  BY <1>6, <1>7, <1>8, <1>9, Zenon DEF OnOriginServerDataWritten, Writing

\* on_proxy_client_data_written.
LEMMA ClientWrittenMoves ==
  ASSUME ControlInvariant, DataTypes, OnProxyClientDataWritten
  PROVE  Rests \/ AwaitsContent \/ AwaitsRequest \/ StartsTunnel
<1> DEFINE o == "write_client"
<1>1. /\ Runs(o, "ok")
      /\ UNCHANGED <<buffers, writes, endpoint_iterator>>
  BY DEF OnProxyClientDataWritten
<1>2. connection_context \in ContextRecord /\ ControlTypeOK /\ o \in Operation
  BY DEF DataTypes, ControlInvariant, Operation
<1>3. CASE WriteRestToClient
  <2>1. Ran(o, "ok", {o})
    BY <1>1, <1>3, Calls, ReturnsRan DEF WriteRestToClient
  <2>2. {o} # {"read_origin"}
    OBVIOUS
  <2> QED
    BY <1>1, <1>2, <1>3, <2>1, <2>2, GoingOnRests DEF WriteRestToClient, contents, sockets
<1>4. CASE to_client = <<>> /\ TunnelClientWritten
  <2>1. Ran(o, "ok", {"read_origin"})
    BY <1>1, <1>4, Calls, ReturnsRan DEF TunnelClientWritten
  <2>2. ops["read_origin"] = "idle"
    <3>1. o \in Outstanding /\ timer_pending
      BY <1>1, <1>2, RunsOutstanding
    <3>2. Outstanding \in OperationsOf("tunnel_transfer")
      BY <1>4, <3>1, Zenon DEF ControlInvariant, OperationsFitState, TunnelClientWritten
    <3>3. "read_origin" \notin Outstanding
      BY <3>1, <3>2, SMT DEF OperationsOf
    <3> QED
      BY <3>3 DEF Outstanding, Operation
  <2> QED
    BY <1>1, <1>2, <1>4, <2>1, <2>2, GoingOnRests DEF TunnelClientWritten, contents, sockets
<1>5. CASE /\ to_client = <<>>
           /\ state \in {"write_http_response_header", "write_http_response_content"}
           /\ ReadMoreResponseContent
  <2>1. Ran(o, "ok", {"read_origin"})
    BY <1>1, <1>5, Calls, ReturnsRan DEF ReadMoreResponseContent
  <2>2. Turns("read_http_response_content")
    BY <1>2, <1>5, ContextFields DEF ReadMoreResponseContent
  <2> QED
    BY <1>1, <1>5, <2>1, <2>2, Zenon DEF ReadMoreResponseContent, AwaitsContent, contents, sockets
<1>6. AfterReply(origin_server_socket) \in {origin_server_socket, "closed"}
  BY DEF AfterReply
<1>7. CASE /\ to_client = <<>>
           /\ state \in {"write_http_response_header", "write_http_response_content"}
           /\ ReplyRelayed
  <2>1. Ran(o, "ok", {"read_client"})
    BY <1>1, <1>7, Calls, ReturnsRan DEF ReplyRelayed
  <2>2. Turns("read_http_request_header")
    BY <1>2, <1>7, ContextFields DEF ReplyRelayed
  <2> QED
    BY <1>1, <1>6, <1>7, <2>1, <2>2, Zenon DEF ReplyRelayed, AwaitsRequest
<1>8. CASE LastReplyRelayed
  <2>1. RanOut(o, "ok")
    BY <1>1, <1>2, <1>8, ReturnsRanOut DEF LastReplyRelayed
  <2>2. UNCHANGED <<connection_context, contents>>
    BY <1>1, <1>8, Zenon DEF LastReplyRelayed, contents
  <2>3. origin_server_socket' = "open" => origin_server_socket = "open"
    BY <1>6, <1>8 DEF LastReplyRelayed
  <2> QED
    BY <1>2, <2>1, <2>2, <2>3, EndingRests
<1>9. CASE to_client = <<>> /\ StartTunnelTransfer
  <2>1. Ran(o, "ok", {"read_client", "read_origin"})
    BY <1>1, <1>9, ReturnsRanTunnel DEF StartTunnelTransfer
  <2>2. Turns("tunnel_transfer")
    BY <1>2, <1>9, ContextFields DEF StartTunnelTransfer
  <2> QED
    BY <1>1, <1>9, <2>1, <2>2, Zenon DEF StartTunnelTransfer, StartsTunnel, contents, sockets
<1>10. CASE ErrorReported
  <2>1. RanOut(o, "ok")
    BY <1>1, <1>2, <1>10, ReturnsRanOut DEF ErrorReported
  <2>2. UNCHANGED <<connection_context, contents>>
    BY <1>1, <1>10, Zenon DEF ErrorReported, contents
  <2>3. origin_server_socket' # "open"
    BY <1>10 DEF ErrorReported, ClosesBoth
  <2> QED
    BY <1>2, <2>1, <2>2, <2>3, EndingRests
<1> QED
  BY <1>3, <1>4, <1>5, <1>7, <1>8, <1>9, <1>10 DEF OnProxyClientDataWritten, WholeBufferWritten

\* on_origin_server_data_arrived.
LEMMA OriginDataMoves ==
  ASSUME ControlInvariant, DataTypes, OnOriginServerDataArrived
  PROVE  ResponseGrows \/ RelaysHeader \/ RelaysContent \/ PassesDown
<1> DEFINE o == "read_origin"
<1>1. /\ Runs(o, "ok")
      /\ downgoing_buffer' = <<>>
      /\ UNCHANGED <<origin_server_socket, request, upgoing_buffer, endpoint_iterator>>
  BY Zenon DEF OnOriginServerDataArrived, sockets
<1>2. connection_context \in ContextRecord /\ ControlTypeOK /\ o \in Operation
  BY DEF DataTypes, ControlInvariant, Operation
<1>3. CASE ResponseHeaderArrives
  <2>1. /\ state = "read_http_response_header"
        /\ response_data' = response_data \o downgoing_buffer
        /\ UNCHANGED to_origin
    BY <1>3 DEF ResponseHeaderArrives
  <2>2. CASE ReadMoreOfResponseHeader
    <3>1. Ran(o, "ok", {o})
      BY <1>1, <2>2, Calls, ReturnsRan DEF ReadMoreOfResponseHeader
    <3>2. Stays
      BY <1>2, <2>2, ContextFields DEF ReadMoreOfResponseHeader
    <3> QED
      BY <1>1, <2>1, <2>2, <3>1, <3>2, Zenon DEF ReadMoreOfResponseHeader, ResponseGrows, writes
  <2>3. CASE RejectResponse
    <3>1. ReportsError(o, "ok")
      BY <1>1, <1>2, <2>3, ReportErrorMoves DEF RejectResponse
    <3> QED
      BY <1>1, <2>1, <2>3, <3>1, Zenon DEF RejectResponse, ResponseGrows
  <2>4. CASE RelayResponseHeader
    <3>1. Ran(o, "ok", {"write_client"})
      BY <1>1, <2>4, Calls, ReturnsRan DEF RelayResponseHeader
    <3>2. Turns("write_http_response_header")
      BY <1>2, <2>4, ContextFields DEF RelayResponseHeader
    <3> QED
      BY <1>1, <2>1, <2>4, <3>1, <3>2, Zenon DEF RelayResponseHeader, RelaysHeader
  <2> QED
    BY <1>3, <2>2, <2>3, <2>4 DEF ResponseHeaderArrives
<1>4. CASE ResponseContentArrives
  <2>1. /\ state = "read_http_response_content"
        /\ read_response_context' = Counted(read_response_context, downgoing_buffer)
        /\ UNCHANGED <<response_data, to_origin>>
    BY <1>4 DEF ResponseContentArrives
  <2>2. CASE /\ Returns(o, {WriteClient})
             /\ connection_context' = Goto("write_http_response_content")
             /\ to_client' = downgoing_buffer
    <3>1. Ran(o, "ok", {"write_client"})
      BY <1>1, <2>2, Calls, ReturnsRan
    <3>2. Turns("write_http_response_content")
      BY <1>2, <2>2, ContextFields
    <3> QED
      BY <1>1, <2>1, <2>2, <3>1, <3>2, Zenon DEF RelaysContent
  <2>3. CASE Returns(o, {}) /\ UNCHANGED <<connection_context, to_client>>
    <3>1. RanOut(o, "ok") /\ Stays
      BY <1>1, <1>2, <2>3, ReturnsRanOut, ContextFields
    <3> QED
      BY <1>1, <2>1, <2>3, <3>1, Zenon DEF RelaysContent
  <2> QED
    BY <1>4, <2>2, <2>3 DEF ResponseContentArrives
<1>5. CASE TunnelOriginData
  <2>1. Ran(o, "ok", {"write_client"})
    BY <1>1, <1>5, Calls, ReturnsRan DEF TunnelOriginData
  <2>2. Stays
    BY <1>2, <1>5, ContextFields DEF TunnelOriginData
  <2> QED
    BY <1>1, <1>5, <2>1, <2>2, Zenon DEF TunnelOriginData, PassesDown
<1> QED
  BY <1>3, <1>4, <1>5 DEF OnOriginServerDataArrived

\* The handlers of async_resolve and async_connect, and the second connection
\* attempt after a write to a kept connection has failed.
LEMMA ConnectingMoves ==
  ASSUME ControlInvariant, DataTypes,
         \/ Resolved \/ ResolveError
         \/ Connected \/ ConnectNextEndpoint \/ ConnectError
         \/ Reconnect
  PROVE  ResolvedToKept \/ TriesEndpoint \/ ConnectedTo \/ NotConnected \/ Reconnecting
<1>1. connection_context \in ContextRecord /\ ControlTypeOK
  BY DEF DataTypes, ControlInvariant
<1>2. {"resolve", "connect", "write_origin"} \subseteq Operation
  BY DEF Operation
<1>3. CASE Resolved
  <2>1. /\ Runs("resolve", "ok")
        /\ UNCHANGED <<request, response, buffers>>
    BY <1>3 DEF Resolved
  <2>2. PICK endpoints \in Resolutions[OriginName] :
               OnResolved("resolve", endpoints, origin_server_socket)
    BY <1>3, Zenon DEF Resolved, OriginName
  <2>3. state = "resolve_origin_server_address"
    BY <1>2, <2>1, StatesOfOperation
  <2>4. \/ /\ origin_server_socket = "open"
           /\ Contains(endpoints, OriginEndpoint)
           /\ SendsRequest("resolve", TRUE) \/ OpensTunnel("resolve", TRUE)
           /\ origin_server_socket' \in {"open", "closed"}
           /\ UNCHANGED endpoint_iterator
        \/ /\ Ran("resolve", "ok", {"connect"})
           /\ Becomes("connect_to_origin_server", Recovers, OriginName, Head(endpoints))
           /\ origin_server_socket' = "open"
           /\ endpoint_iterator' = endpoints
           /\ UNCHANGED writes
    BY <1>1, <2>1, <2>2, OnResolvedMoves
  <2> QED
    BY <2>1, <2>2, <2>3, <2>4, Zenon DEF ResolvedToKept, TriesEndpoint
<1>4. CASE ConnectNextEndpoint
  <2>1. /\ Runs("connect", "error")
        /\ Len(endpoint_iterator) > 1
        /\ UNCHANGED <<request, response, buffers>>
        /\ OnResolved("connect", Tail(endpoint_iterator), "closed")
    BY <1>4 DEF ConnectNextEndpoint
  <2>2. state = "connect_to_origin_server"
    BY <1>2, <2>1, StatesOfOperation
  <2>3. /\ Ran("connect", "error", {"connect"})
        /\ Becomes("connect_to_origin_server", Recovers, OriginName,
                   Head(Tail(endpoint_iterator)))
        /\ origin_server_socket' = "open"
        /\ endpoint_iterator' = Tail(endpoint_iterator)
        /\ UNCHANGED writes
    <3>1. PICK endpoints, socket :
            endpoints = Tail(endpoint_iterator) /\ socket = "closed"
      OBVIOUS
    <3>2. OnResolved("connect", endpoints, socket) /\ socket # "open"
      BY <2>1, <3>1
    <3>3. /\ Ran("connect", "error", {"connect"})
          /\ Becomes("connect_to_origin_server", Recovers, OriginName, Head(endpoints))
          /\ origin_server_socket' = "open"
          /\ endpoint_iterator' = endpoints
          /\ UNCHANGED writes
      BY <1>1, <2>1, <3>2, OnResolvedMoves
    <3> QED
      BY <3>1, <3>3
  <2> QED
    BY <2>1, <2>2, <2>3, Zenon DEF TriesEndpoint
<1>5. CASE Connected
  <2>1. /\ Runs("connect", "ok")
        /\ UNCHANGED <<origin_server_socket, request, response, buffers, endpoint_iterator>>
        /\ OnConnect("connect", connection_context)
    BY <1>5, Zenon DEF Connected, sockets
  <2>2. state = "connect_to_origin_server"
    BY <1>2, <2>1, StatesOfOperation
  <2>3. SendsRequest("connect", Recovers) \/ OpensTunnel("connect", Recovers)
    BY <1>1, <2>1, ContextsHaveFields, OnConnectMoves
  <2> QED
    BY <2>1, <2>2, <2>3, Zenon DEF ConnectedTo
<1>6. CASE ResolveError
  <2>1. /\ Runs("resolve", "error")
        /\ ReportError("resolve", 504)
        /\ UNCHANGED <<origin_server_socket, request, response, buffers, endpoint_iterator>>
    BY <1>6, Zenon DEF ResolveError, sockets
  <2>2. state = "resolve_origin_server_address"
    BY <1>2, <2>1, StatesOfOperation
  <2>3. ReportsError("resolve", "error")
    BY <1>1, <2>1, ReportErrorMoves
  <2> QED
    BY <2>1, <2>2, <2>3 DEF NotConnected
<1>7. CASE ConnectError
  <2>1. /\ Runs("connect", "error")
        /\ ReportError("connect", 502)
        /\ origin_server_socket' = "closed"
        /\ UNCHANGED <<request, response, buffers, endpoint_iterator>>
    BY <1>7 DEF ConnectError
  <2>2. state = "connect_to_origin_server"
    BY <1>2, <2>1, StatesOfOperation
  <2>3. ReportsError("connect", "error")
    BY <1>1, <2>1, ReportErrorMoves
  <2> QED
    BY <2>1, <2>2, <2>3 DEF NotConnected
<1>8. CASE Reconnect
  <2>1. /\ Runs("write_origin", "error")
        /\ Reconnects
        /\ UNCHANGED <<request, response, buffers, endpoint_iterator>>
        /\ ConnectToOrigin("write_origin", "closed")
    BY <1>8 DEF Reconnect
  <2>2. Resolves("write_origin", "error", "closed")
    BY <1>1, <2>1, ConnectToOriginMoves
  <2> QED
    BY <2>1, <2>2 DEF Reconnecting
<1> QED
  BY <1>3, <1>4, <1>5, <1>6, <1>7, <1>8

\* Handlers, the timer and the kernel, when they only end something.
LEMMA EndingsRest ==
  ASSUME ControlInvariant, DataTypes,
         \/ \E o \in Operation : ConnectionError(o) \/ LateCompletion(o) \/ OperationFails(o)
         \/ OnTimeout \/ Destroy \/ TimerExpires \/ NameResolved \/ UNCHANGED vars
  PROVE  Rests
<1>1. connection_context \in ContextRecord /\ ControlTypeOK
  BY DEF DataTypes, ControlInvariant
<1>2. UNCHANGED connection_context => Stays
  BY <1>1, ContextFields
<1>3. ASSUME NEW o \in Operation, ConnectionError(o) PROVE Rests
  <2>1. /\ Runs(o, "error")
        /\ Returns(o, {})
        /\ ClosesBoth
        /\ UNCHANGED <<connection_context, contents>>
    BY <1>3 DEF ConnectionError
  <2>2. RanOut(o, "error") /\ origin_server_socket' # "open"
    BY <1>1, <2>1, ReturnsRanOut DEF ClosesBoth
  <2> QED
    BY <1>1, <2>1, <2>2, EndingRests
<1>4. ASSUME NEW o \in Operation, LateCompletion(o) PROVE Rests
  <2>1. /\ Stays
        /\ UNCHANGED <<contents, environment>>
        /\ ~timer_pending'
        /\ origin_server_socket' = origin_server_socket
        /\ ops' = [ops EXCEPT ![o] = "idle"]
    BY <1>2, <1>4, Zenon DEF LateCompletion, sockets
  <2>2. \A p \in {"read_client", "write_origin", "connect", "read_origin"} : Settles(p)
    BY <1>1, <2>1 DEF Settles, ControlTypeOK, Operation
  <2> QED
    BY <2>1, <2>2, Zenon DEF Rests
<1>5. ASSUME NEW o \in Operation, OperationFails(o) PROVE Rests
  <2>1. /\ Stays
        /\ UNCHANGED <<contents, environment, timer_pending, origin_server_socket>>
        /\ ops[o] = "pending"
        /\ ops' = [ops EXCEPT ![o] = "error"]
    BY <1>2, <1>5, Zenon DEF OperationFails, Completes, sockets, contents
  <2>2. \A p \in {"read_client", "write_origin", "connect", "read_origin"} : Settles(p)
    BY <1>1, <2>1 DEF Settles, ControlTypeOK, Operation
  <2> QED
    BY <2>1, <2>2, Zenon DEF Rests
<1>6. ASSUME UNCHANGED <<connection_context, contents, environment, ops>>,
             timer_pending' => timer_pending /\ origin_server_socket' = origin_server_socket,
             origin_server_socket' = "open" => origin_server_socket = "open"
      PROVE  Rests
  BY <1>2, <1>6, Zenon DEF Rests, Settles
<1>7. CASE OnTimeout
  <2>1. ~timer_pending'
    BY <1>7 DEF OnTimeout, ControlInvariant, TimerDiscipline
  <2> QED
    BY <1>6, <1>7, <2>1 DEF OnTimeout, ClosesBoth
<1>8. CASE Destroy
  <2>1. ~timer_pending'
    BY <1>8, Zenon DEF Destroy, Gone, control
  <2> QED
    BY <1>6, <1>8, <2>1 DEF Destroy, ClosesBoth, control
<1>9. CASE TimerExpires
  BY <1>6, <1>9 DEF TimerExpires, sockets
<1>10. CASE NameResolved
  <2>1. /\ Stays
        /\ UNCHANGED <<contents, environment, timer_pending, origin_server_socket>>
        /\ ops' = [ops EXCEPT !["resolve"] = "ok"]
    BY <1>2, <1>10, Zenon DEF NameResolved, Completes, sockets, contents
  <2>2. \A p \in {"read_client", "write_origin", "connect", "read_origin"} : Settles(p)
    BY <1>1, <2>1 DEF Settles, ControlTypeOK, Operation
  <2> QED
    BY <2>1, <2>2, Zenon DEF Rests
<1>11. CASE UNCHANGED vars
  BY <1>6, <1>11 DEF vars, sockets, control
<1> QED
  BY <1>3, <1>4, <1>5, <1>7, <1>8, <1>9, <1>10, <1>11

\* start().
LEMMA StartMoves ==
  ASSUME ControlInvariant, DataTypes, Start
  PROVE  Begun
<1>1. connection_context \in ContextRecord /\ ControlTypeOK
  BY DEF DataTypes, ControlInvariant
<1>2. state = "read_cipher_data" /\ Turns("read_http_request_header")
  BY <1>1, ContextFields DEF Start
<1>3. UNCHANGED <<origin_server_socket, contents, environment>>
  BY Zenon DEF Start, sockets, Returns
<1>4. ops' = [p \in Operation |-> IF p = "read_client" THEN "pending" ELSE ops[p]]
  BY SMT DEF Start, Returns, ReadClient, Operation
<1>5. DOMAIN ops = Operation
  BY <1>1 DEF ControlTypeOK
<1>6. [ops EXCEPT !["read_client"] = "pending"]
        = [p \in DOMAIN ops |-> IF p = "read_client" THEN "pending" ELSE ops[p]]
  BY <1>5
<1>7. ops' = [ops EXCEPT !["read_client"] = "pending"]
  BY <1>4, <1>5, <1>6
<1> QED
  BY <1>2, <1>3, <1>7, Zenon DEF Begun

\* Every step of the system is a data move.
LEMMA StepIsDataMove ==
  ASSUME ControlInvariant, DataTypes, [Next]_vars
  PROVE  DataNext
<1>1. connection_context \in ContextRecord
  BY DEF DataTypes
<1>2. CASE Start
  BY <1>2, StartMoves DEF DataNext
<1>3. CASE Handler
  <2>1. CASE OnProxyClientDataArrived
    BY <2>1, ClientDataMoves DEF DataNext
  <2>2. CASE OnOriginServerDataWritten
    BY <2>2, OriginWrittenMoves DEF DataNext
  <2>3. CASE OnProxyClientDataWritten
    BY <2>3, ClientWrittenMoves DEF DataNext
  <2>4. CASE OnOriginServerDataArrived
    BY <2>4, OriginDataMoves DEF DataNext
  <2>5. CASE \/ Resolved \/ ResolveError
             \/ Connected \/ ConnectNextEndpoint \/ ConnectError
             \/ Reconnect
    BY <2>5, ConnectingMoves DEF DataNext
  <2>6. CASE (\E o \in Operation : ConnectionError(o) \/ LateCompletion(o)) \/ OnTimeout
    <3>1. Rests
      BY <2>6, EndingsRest
    <3> QED
      BY <3>1 DEF DataNext
  <2> QED
    BY <1>3, <2>1, <2>2, <2>3, <2>4, <2>5, <2>6 DEF Handler
<1>4. CASE Destroy \/ TimerExpires \/ UNCHANGED vars
  BY <1>4, EndingsRest DEF DataNext
<1>5. CASE NameResolved \/ \E o \in Operation : OperationFails(o)
  <2>1. Rests
    BY <1>5, EndingsRest
  <2> QED
    BY <2>1 DEF DataNext
<1>6. CASE \/ ClientDataRead \/ OriginDataRead \/ ClientDataWrite \/ OriginDataWrite
           \/ EndpointConnected \/ Peers
  <2>1. UNCHANGED connection_context
    BY <1>6 DEF ClientDataRead, OriginDataRead, ClientDataWrite, OriginDataWrite,
       EndpointConnected, Completes, Peers, ClientSends, ClientTunnels, ClientCloses,
       OriginReplies, OriginTunnels, OriginCloses, proxy
  <2>2. Stays
    BY <1>1, <2>1, ContextFields
  <2> QED
    BY <1>6, <2>2, Zenon DEF Arrives, DataNext
<1> QED
  BY <1>2, <1>3, <1>4, <1>5, <1>6 DEF Next, Kernel, Terminated

-----------------------------------------------------------------------------
(* Operations, with or without a timer. *)

\* Whatever is outstanding belongs to the state, even when the connection is not
\* watched any more.
OnlyItsOperations ==
  Outstanding = {} \/ \E fit \in OperationsOf(state) : Outstanding \subseteq fit

\* The control moves preserve that.
LEMMA OnlyItsOperationsPreserved ==
  ASSUME ControlInvariant, OnlyItsOperations, ControlNext
  PROVE  OnlyItsOperations'
<1>1. CASE Begins
  <2>1. Outstanding = {} /\ Outstanding' = (Outstanding \ {"start"}) \cup {"read_client"}
        /\ state' = "read_http_request_header"
    BY <1>1 DEF Begins, Continues, ControlInvariant, NotStarted
  <2>2. Outstanding' = {"read_client"}
    BY <2>1, SMT
  <2>3. {"read_client"} \in OperationsOf(state')
    BY <2>1, SMT DEF OperationsOf
  <2> QED
    BY <2>2, <2>3, Zenon DEF OnlyItsOperations
<1>2. ASSUME Outstanding' \subseteq Outstanding, state' = state PROVE OnlyItsOperations'
  BY <1>2, SMT DEF OnlyItsOperations
<1>3. ASSUME NEW o \in Operation, Turn(o) PROVE OnlyItsOperations'
  <2>1. CASE Outstanding' \in OperationsOf(state')
    BY <2>1, Zenon DEF OnlyItsOperations
  <2>2. CASE LetsGo(o)
    <3>1. Outstanding' \subseteq Outstanding /\ state' = state
      BY <2>2, SMT DEF LetsGo, state
    <3> QED
      BY <1>2, <3>1
  <2> QED
    BY <1>3, <2>1, <2>2 DEF Turn
<1>4. ASSUME NEW o \in Operation, Drains(o) PROVE OnlyItsOperations'
  <2>1. Outstanding' \subseteq Outstanding /\ state' = state
    BY <1>4, SMT DEF Drains, state
  <2> QED
    BY <1>2, <2>1
<1>5. CASE Expires \/ TimesOut \/ Destroyed \/ Quiet
  <2>1. Outstanding' = Outstanding
    BY <1>5, Zenon DEF Expires, TimesOut, Destroyed, Quiet, Outstanding, control
  <2>2. state' = state
    BY <1>5, Zenon DEF Expires, TimesOut, Destroyed, Quiet, state
  <2>3. Outstanding' \subseteq Outstanding
    BY <2>1, Zenon
  <2> QED
    BY <1>2, <2>2, <2>3
<1> QED
  BY <1>1, <1>3, <1>4, <1>5 DEF ControlNext

\* The states an outstanding operation can be found in.
LEMMA StatesOfOutstanding ==
  ASSUME OnlyItsOperations, ControlTypeOK, NEW o \in Outstanding
  PROVE  /\ o = "resolve" => state = "resolve_origin_server_address"
         /\ o = "connect" => state = "connect_to_origin_server"
         /\ o = "read_client" => state \in {"read_http_request_header",
                                            "read_http_request_content", "tunnel_transfer"}
         /\ o = "write_origin" => state \in Writing \cup {"tunnel_transfer"}
         /\ o = "read_origin" => state \in {"read_http_response_header",
                                            "read_http_response_content", "tunnel_transfer"}
         /\ o = "write_client" => state \in {"write_http_response_header",
                                             "write_http_response_content",
                                             "report_connection_established", "report_error",
                                             "tunnel_transfer"}
<1>1. PICK fit \in OperationsOf(state) : Outstanding \subseteq fit
  BY DEF OnlyItsOperations
<1>2. o \in fit /\ state \in ConnectionState
  BY <1>1 DEF ControlTypeOK
<1> QED
  BY <1>2, SMT DEF OperationsOf, ConnectionState, Writing

\* An operation that is pending, completed or failed is outstanding.
LEMMA OutstandingMeans ==
  ASSUME NEW o \in Operation
  PROVE  o \in Outstanding <=> ops[o] # "idle"
  BY DEF Outstanding

-----------------------------------------------------------------------------
(* Types. *)

\* Units as sent are units as passed on, and may be told to the client.
LEMMA SentArePassed ==
  /\ \A K : SentOf(K) \subseteq PassedOf(K)
  /\ PassedOf(Made) \subseteq ToldUnit
  /\ \A s \in Seq(SentOf(Made)) : s \in Seq(PassedOf(Made)) /\ s \in Seq(ToldUnit)
  /\ \A s \in Seq(PassedOf(Made)) : s \in Seq(ToldUnit)
<1>1. \A K : SentOf(K) \subseteq PassedOf(K)
  BY DEF SentOf, PassedOf, SentPart, Part, ContentPart
<1>2. PassedOf(Made) \subseteq ToldUnit
  BY DEF ToldUnit
<1>3. \A s \in Seq(SentOf(Made)) : s \in Seq(PassedOf(Made))
  BY <1>1, SeqMonotonic
<1>4. \A s \in Seq(PassedOf(Made)) : s \in Seq(ToldUnit)
  BY <1>2, SeqMonotonic
<1> QED
  BY <1>1, <1>2, <1>3, <1>4

\* A step that asks nothing new leaves the requests made.
LEMMA SameRequests ==
  ASSUME client'.requests = client.requests
  PROVE  Made' = Made /\ ToldUnit' = ToldUnit
  BY DEF Made, ToldUnit

\* Units of one request are units of requests made.
LEMMA OfOneMade ==
  ASSUME NEW k \in Made
  PROVE  \A s \in Seq(SentOf({k})) : s \in Seq(SentOf(Made))
<1>1. SentOf({k}) \subseteq SentOf(Made)
  BY DEF SentOf
<1> QED
  BY <1>1, SeqMonotonic

\* The pages of the proxy itself.
LEMMA OwnPages ==
  /\ \A status \in Nat : ErrorReply(status) \in Seq(ToldUnit)
  /\ \A k \in Made : Established(k) \in Seq(ToldUnit)
<1>1. \A status \in Nat : [of |-> 0, part |-> "error", n |-> status] \in ToldUnit
  BY DEF ToldUnit
<1>2. \A k \in Made : [of |-> k, part |-> "established", n |-> 1] \in ToldUnit
  BY DEF ToldUnit, PassedOf, Part
<1> QED
  BY <1>1, <1>2 DEF ErrorReply, Established

\* A request that was made is one of Requests, and its parts have their types.
LEMMA RequestType ==
  ASSUME client.requests \in Seq(Requests), NEW k \in Made
  PROVE  /\ client.requests[k] \in Request
         /\ client.requests[k].host \in Hosts
         /\ client.requests[k].length \in Nat
         /\ client.requests[k].head \in Nat \ {0}
         /\ client.requests[k].content \in Seq(ContentPart)
         /\ k \in Nat
<1>1. Len(client.requests) \in Nat
  BY LenProperties
<1>2. client.requests[k] \in Requests /\ k \in Nat
  BY <1>1, ElementOfSeq DEF Made
<1> QED
  BY <1>2, MessagesAssumption DEF Request

\* A reply on the wire.
LEMMA ReplyType ==
  ASSUME NEW k \in Nat, NEW r \in Response, NEW method
  PROVE  /\ Reply(k, r, method) \in Seq(SentOf({k}))
         /\ \A i \in 1 .. Len(Reply(k, r, method)) : Reply(k, r, method)[i].part # "tunnel"
         /\ HeaderEnd(Reply(k, r, method)) # 0
<1> DEFINE m == IF NoContent(r, method) THEN [r EXCEPT !.content = <<>>] ELSE r
<1>1. m.head \in Nat \ {0} /\ m.content \in Seq(ContentPart)
  BY DEF Response
<1>2. Reply(k, r, method) = OnTheWire(k, m)
  BY DEF Reply
<1> QED
  BY <1>1, <1>2, OnTheWireType

\* The fields of connection_context.
LEMMA ContextTypes ==
  ASSUME connection_context \in ContextRecord
  PROVE  /\ state \in ConnectionState
         /\ Recovers \in BOOLEAN
         /\ OriginName \in Hosts \cup {NoHost}
         /\ OriginEndpoint \in Endpoints \cup {NoEndpoint}
  BY DEF ContextRecord, state, Recovers, OriginName, OriginEndpoint

\* Fields of their types make a record of its type ...
LEMMA BecomesTyped ==
  ASSUME NEW s \in ConnectionState, NEW recovers \in BOOLEAN,
         NEW name \in Hosts \cup {NoHost}, NEW endpoint \in Endpoints \cup {NoEndpoint},
         Becomes(s, recovers, name, endpoint)
  PROVE  connection_context' \in ContextRecord
  BY DEF Becomes, ContextRecord

\* ... after a step that leaves most of it.
LEMMA TurnsTyped ==
  ASSUME connection_context \in ContextRecord
  PROVE  /\ Stays => connection_context' \in ContextRecord
         /\ \A s \in ConnectionState : Turns(s) => connection_context' \in ContextRecord
         /\ \A s \in ConnectionState, recovers \in BOOLEAN :
              Becomes(s, recovers, OriginName, OriginEndpoint)
                => connection_context' \in ContextRecord
  BY ContextTypes, BecomesTyped DEF Stays, Turns

\* The context of an accepted request.
LEMMA RequestContextType ==
  ASSUME NEW r \in Request, NEW n \in Nat
  PROVE  RequestContext(r, n) \in RequestContexts
  BY DEF RequestContext, RequestContexts, Request, RequestKeepAlive

\* The first unit of data whose header is complete belongs to a request made.
LEMMA FirstUnit ==
  ASSUME NEW K, NEW data \in Seq(SentOf(K)), HeaderEnd(data) # 0
  PROVE  data[1].of \in K /\ Len(data) - HeaderEnd(data) \in Nat
<1>1. HeaderEnd(data) \in 1 .. Len(data) /\ Len(data) \in Nat
  BY HeaderEndIsFirst, LenProperties
<1>2. data[1] \in SentOf(K)
  BY <1>1, ElementOfSeq
<1> QED
  BY <1>1, <1>2 DEF SentOf

\* Steps that move no data.
LEMMA TypesAtRest ==
  ASSUME DataTypes, Rests \/ Begun \/ OriginTook \/ AwaitsContent \/ StartsTunnel
  PROVE  DataTypes'
<1>1. UNCHANGED <<contents, environment>>
  BY DEF Rests, Begun, OriginTook, AwaitsContent, StartsTunnel, Ran
<1>2. connection_context' \in ContextRecord
  <2>1. {"read_http_request_header", "read_http_request_content", "read_http_response_header",
         "read_http_response_content", "tunnel_transfer"} \subseteq ConnectionState
    BY DEF ConnectionState
  <2>2. connection_context \in ContextRecord /\ state \in ConnectionState /\ FALSE \in BOOLEAN
    BY ContextTypes DEF DataTypes
  <2> QED
    BY <2>1, <2>2, TurnsTyped DEF Rests, Begun, OriginTook, AwaitsContent, StartsTunnel
<1>3. Made' = Made /\ ToldUnit' = ToldUnit
  BY <1>1, SameRequests DEF environment
<1> QED
  BY <1>1, <1>2, <1>3 DEF DataTypes, contents, environment, request, response, buffers, writes

\* The types of what the proxy holds of a request, when more of it has arrived.
LEMMA RequestTakenTypes ==
  ASSUME DataTypes, RequestTaken, UNCHANGED environment
  PROVE  /\ request_data' \in Seq(SentOf(Made))
         /\ upgoing_buffer' \in Seq(SentOf(Made))
         /\ request_header' \in Made
         /\ read_request_context' \in RequestContexts
         /\ client.requests[request_header'] \in Request
         /\ client.requests[request_header'].host \in Hosts
<1>1. /\ request_data' = request_data \o upgoing_buffer
      /\ upgoing_buffer' = <<>>
      /\ HeaderEnd(request_data') # 0
      /\ request_header' = request_data'[1].of
  BY DEF RequestTaken
<1>2. request_data' \in Seq(SentOf(Made)) /\ upgoing_buffer' \in Seq(SentOf(Made))
  BY <1>1, ConcatProperties, EmptySeq DEF DataTypes
<1>3. request_header' \in Made /\ Len(request_data') - HeaderEnd(request_data') \in Nat
  BY <1>1, <1>2, FirstUnit
<1>4. /\ client.requests[request_header'] \in Request
      /\ client.requests[request_header'].host \in Hosts
  BY <1>3, RequestType DEF DataTypes
<1>5. read_request_context' \in RequestContexts
  BY <1>3, <1>4, RequestContextType DEF RequestTaken, DataTypes
<1> QED
  BY <1>2, <1>3, <1>4, <1>5

\* Steps of the handler that collects a request.
LEMMA TypesWhenRequestArrives ==
  ASSUME DataTypes, RequestGrows \/ TakenOnKept \/ TakenAnew
  PROVE  DataTypes'
<1>1. UNCHANGED environment
  BY DEF RequestGrows, TakenOnKept, TakenAnew, SendsRequest, Resolves, Ran, RanOut,
     ReportsError
<1>2. Made' = Made /\ ToldUnit' = ToldUnit
  BY <1>1, SameRequests DEF environment
<1>3. connection_context \in ContextRecord /\ OriginEndpoint \in Endpoints \cup {NoEndpoint}
  BY ContextTypes DEF DataTypes
<1>4. {"report_error", "write_http_request_header", "resolve_origin_server_address"}
        \subseteq ConnectionState /\ {TRUE, FALSE} \subseteq BOOLEAN
  BY DEF ConnectionState
<1>5. CASE RequestGrows
  <2>1. connection_context' \in ContextRecord
    BY <1>3, <1>4, <1>5, TurnsTyped DEF RequestGrows, ReportsError
  <2>2. request_data' \in Seq(SentOf(Made)) /\ upgoing_buffer' \in Seq(SentOf(Made))
    BY <1>5, ConcatProperties, EmptySeq DEF DataTypes, RequestGrows
  <2>3. to_client' \in Seq(ToldUnit) /\ UNCHANGED to_origin
    BY <1>5, OwnPages DEF DataTypes, RequestGrows, ReportsError, Complains, writes
  <2>4. UNCHANGED <<request_header, read_request_context, response, downgoing_buffer,
                    endpoint_iterator>>
    BY <1>5 DEF RequestGrows
  <2> QED
    BY <1>1, <1>2, <2>1, <2>2, <2>3, <2>4 DEF DataTypes, environment, response
<1>6. CASE TakenOnKept
  <2>1. connection_context' \in ContextRecord
    BY <1>3, <1>4, <1>6, TurnsTyped DEF TakenOnKept, SendsRequest
  <2>2. /\ request_data' \in Seq(SentOf(Made)) /\ upgoing_buffer' \in Seq(SentOf(Made))
        /\ request_header' \in Made /\ read_request_context' \in RequestContexts
        /\ HeaderEnd(request_data') # 0
        /\ UNCHANGED <<response, downgoing_buffer, endpoint_iterator>>
    BY <1>1, <1>6, RequestTakenTypes DEF TakenOnKept, RequestTaken
  <2>3. to_origin' \in Seq(PassedOf(Made)) /\ UNCHANGED to_client
    BY <1>6, <2>2, RewrittenType DEF TakenOnKept, SendsRequest
  <2> QED
    BY <1>1, <1>2, <2>1, <2>2, <2>3 DEF DataTypes, environment, response
<1>7. CASE TakenAnew
  <2>1. /\ request_data' \in Seq(SentOf(Made)) /\ upgoing_buffer' \in Seq(SentOf(Made))
        /\ request_header' \in Made /\ read_request_context' \in RequestContexts
        /\ client.requests[request_header'].host \in Hosts
        /\ UNCHANGED <<response, downgoing_buffer, endpoint_iterator>>
    BY <1>1, <1>7, RequestTakenTypes DEF TakenAnew, RequestTaken
  <2>2. connection_context' \in ContextRecord
    BY <1>3, <1>4, <1>7, <2>1, BecomesTyped DEF TakenAnew, Resolves
  <2>3. UNCHANGED <<to_origin, to_client>>
    BY <1>7 DEF TakenAnew, Resolves, writes
  <2> QED
    BY <1>1, <1>2, <2>1, <2>2, <2>3 DEF DataTypes, environment, response
<1> QED
  BY <1>5, <1>6, <1>7

\* on_connect sends units of the request in hand, or the page of the tunnel.
LEMMA OnConnectTypes ==
  ASSUME DataTypes, UNCHANGED <<request, environment>>, NEW o, NEW recovers \in BOOLEAN,
         request_header \in Made, HeaderEnd(request_data) # 0,
         SendsRequest(o, recovers) \/ OpensTunnel(o, recovers)
  PROVE  /\ connection_context' \in ContextRecord
         /\ to_origin' \in Seq(PassedOf(Made))
         /\ to_client' \in Seq(ToldUnit)
<1>1. {"write_http_request_header", "report_connection_established"} \subseteq ConnectionState
  BY DEF ConnectionState
<1>2. connection_context' \in ContextRecord
  BY <1>1, TurnsTyped DEF SendsRequest, OpensTunnel, DataTypes
<1>3. request_data' = request_data /\ request_header' = request_header
  BY DEF request
<1>4. Rewritten(request_data) \in Seq(PassedOf(Made)) /\ Established(request_header) \in Seq(ToldUnit)
  BY RewrittenType, OwnPages DEF DataTypes
<1> QED
  BY <1>2, <1>3, <1>4 DEF SendsRequest, OpensTunnel, DataTypes

\* What follows the first of several.
LEMMA LongTail ==
  ASSUME NEW S, NEW s \in Seq(S), Len(s) > 1
  PROVE  Tail(s) \in Seq(S) /\ Tail(s) # <<>>
<1>1. Len(s) \in Nat /\ s # <<>>
  BY LenProperties, EmptySeq
<1>2. PICK t : t = Tail(s)
  OBVIOUS
<1>3. t \in Seq(S) /\ Len(t) = Len(s) - 1
  BY <1>1, <1>2, HeadTailProperties
<1>4. Len(t) # 0
  BY <1>1, <1>3
<1> QED
  BY <1>2, <1>3, <1>4, EmptySeq

\* Steps towards an origin server.
LEMMA TypesWhenConnecting ==
  ASSUME DataTypes, RequestInHand,
         \/ Reconnecting \/ ResolvedToKept \/ TriesEndpoint \/ ConnectedTo \/ NotConnected
  PROVE  DataTypes'
<1>1. UNCHANGED environment
  BY DEF Reconnecting, ResolvedToKept, TriesEndpoint, ConnectedTo, NotConnected, Resolves,
     SendsRequest, OpensTunnel, ReportsError, Ran
<1>2. Made' = Made /\ ToldUnit' = ToldUnit
  BY <1>1, SameRequests DEF environment
<1>3. /\ connection_context \in ContextRecord /\ Recovers \in BOOLEAN
      /\ OriginName \in Hosts \cup {NoHost} /\ OriginEndpoint \in Endpoints \cup {NoEndpoint}
  BY ContextTypes DEF DataTypes
<1>4. {"report_error", "connect_to_origin_server", "resolve_origin_server_address"}
        \subseteq ConnectionState /\ {TRUE, FALSE} \subseteq BOOLEAN
  BY DEF ConnectionState
<1>5. UNCHANGED <<request, response, buffers>>
  BY DEF Reconnecting, ResolvedToKept, TriesEndpoint, ConnectedTo, NotConnected
<1>6. request_header \in Made /\ HeaderEnd(request_data) # 0 /\ Served.host = OriginName
      /\ OriginName \in Hosts
  <2>1. state \in Serving
    BY DEF Reconnecting, Reconnects, ResolvedToKept, TriesEndpoint, ConnectedTo, NotConnected,
       Serving, Finding, Sending
  <2>2. request_header \in Made /\ HeaderEnd(request_data) # 0 /\ Served.host = OriginName
    BY <2>1 DEF RequestInHand
  <2> QED
    BY <2>2, RequestType DEF DataTypes, Served
<1>7. SUFFICES /\ connection_context' \in ContextRecord
               /\ to_origin' \in Seq(PassedOf(Made))
               /\ to_client' \in Seq(ToldUnit)
               /\ endpoint_iterator' \in Seq(Endpoints)
  BY <1>1, <1>2, <1>5 DEF DataTypes, environment, request, response, buffers
<1>8. CASE Reconnecting
  <2>1. request_header' = request_header
    BY <1>5 DEF request
  <2>2. Becomes("resolve_origin_server_address", FALSE, OriginName, OriginEndpoint)
    BY <1>6, <1>8, <2>1 DEF Reconnecting, Resolves, Served
  <2>3. UNCHANGED <<to_origin, to_client, endpoint_iterator>>
    BY <1>8 DEF Reconnecting, Resolves, writes
  <2> QED
    BY <1>3, <1>4, <2>2, <2>3, BecomesTyped DEF DataTypes
<1>9. CASE ResolvedToKept
  <2>1. SendsRequest("resolve", TRUE) \/ OpensTunnel("resolve", TRUE)
    BY <1>9 DEF ResolvedToKept
  <2>2. UNCHANGED endpoint_iterator
    BY <1>9 DEF ResolvedToKept
  <2> QED
    BY <1>1, <1>4, <1>5, <1>6, <2>1, <2>2, OnConnectTypes DEF DataTypes
<1>10. CASE TriesEndpoint
  <2>1. endpoint_iterator' \in Seq(Endpoints) /\ endpoint_iterator' # <<>>
    <3>1. CASE endpoint_iterator' \in Resolutions[OriginName]
      BY <1>6, <3>1, HostsAssumption
    <3>2. CASE Len(endpoint_iterator) > 1 /\ endpoint_iterator' = Tail(endpoint_iterator)
      BY <3>2, LongTail DEF DataTypes
    <3> QED
      BY <1>10, <3>1, <3>2 DEF TriesEndpoint
  <2>2. Head(endpoint_iterator') \in Endpoints
    BY <2>1, HeadTailProperties
  <2>3. connection_context' \in ContextRecord
    BY <1>3, <1>4, <1>10, <2>2, BecomesTyped DEF TriesEndpoint
  <2> QED
    BY <1>10, <2>1, <2>3 DEF TriesEndpoint, writes, DataTypes
<1>11. CASE ConnectedTo
  <2>1. SendsRequest("connect", Recovers) \/ OpensTunnel("connect", Recovers)
    BY <1>11 DEF ConnectedTo
  <2>2. UNCHANGED endpoint_iterator
    BY <1>11 DEF ConnectedTo
  <2> QED
    BY <1>1, <1>3, <1>5, <1>6, <2>1, <2>2, OnConnectTypes DEF DataTypes
<1>12. CASE NotConnected
  <2>1. Turns("report_error") /\ Complains /\ UNCHANGED <<to_origin, endpoint_iterator>>
    BY <1>12 DEF NotConnected, ReportsError
  <2>2. connection_context' \in ContextRecord
    BY <1>3, <1>4, <2>1, TurnsTyped
  <2> QED
    BY <2>1, <2>2, OwnPages DEF DataTypes, Complains
<1> QED
  BY <1>8, <1>9, <1>10, <1>11, <1>12

\* Steps that pass content on, and those that collect a response.
LEMMA TypesWhenPassing ==
  ASSUME DataTypes,
         \/ PassesContent \/ PassesUp \/ PassesDown
         \/ ResponseGrows \/ RelaysHeader \/ RelaysContent \/ AwaitsRequest
  PROVE  DataTypes'
<1>1. UNCHANGED environment /\ UNCHANGED endpoint_iterator
  BY DEF PassesContent, PassesUp, PassesDown, ResponseGrows, RelaysHeader, RelaysContent,
     AwaitsRequest, ReportsError, Ran, RanOut
<1>2. Made' = Made /\ ToldUnit' = ToldUnit
  BY <1>1, SameRequests DEF environment
<1>3. connection_context' \in ContextRecord
  <2>1. {"write_http_request_content", "report_error", "write_http_response_header",
         "write_http_response_content", "read_http_request_header"} \subseteq ConnectionState
    BY DEF ConnectionState
  <2> QED
    BY <2>1, TurnsTyped DEF DataTypes, PassesContent, PassesUp, PassesDown, ResponseGrows,
       RelaysHeader, RelaysContent, AwaitsRequest, ReportsError
<1>4. << >> \in Seq(SentOf(Made))
  BY EmptySeq
<1>5. SUFFICES /\ request_data' \in Seq(SentOf(Made))
               /\ upgoing_buffer' \in Seq(SentOf(Made))
               /\ response_data' \in Seq(SentOf(Made))
               /\ downgoing_buffer' \in Seq(SentOf(Made))
               /\ to_origin' \in Seq(PassedOf(Made))
               /\ to_client' \in Seq(ToldUnit)
               /\ request_header' \in Made \cup {0}
               /\ read_request_context' \in RequestContexts
  BY <1>1, <1>2, <1>3 DEF DataTypes, environment
<1>6. CASE PassesContent
  <2>1. PICK n \in Nat : n = Len(upgoing_buffer)
    BY LenProperties DEF DataTypes
  <2>2. read_request_context' \in RequestContexts
    <3>1. read_request_context' = [read_request_context EXCEPT !.content_length_has_read = @ + n]
      BY <1>6, <2>1 DEF PassesContent
    <3>2. read_request_context \in RequestContexts
      BY DEF DataTypes
    <3> QED
      BY <3>1, <3>2 DEF RequestContexts
  <2> QED
    BY <1>4, <1>6, <2>2, SentArePassed DEF PassesContent, DataTypes, response
<1>7. CASE PassesUp
  BY <1>4, <1>7, SentArePassed DEF PassesUp, DataTypes, request, response
<1>8. CASE PassesDown
  BY <1>4, <1>8, SentArePassed DEF PassesDown, DataTypes, request, response
<1>9. CASE ResponseGrows
  <2>1. response_data' \in Seq(SentOf(Made))
    BY <1>9, ConcatProperties DEF ResponseGrows, DataTypes
  <2>2. to_client' \in Seq(ToldUnit) /\ UNCHANGED to_origin
    BY <1>9, OwnPages DEF DataTypes, ResponseGrows, ReportsError, Complains, writes
  <2> QED
    BY <1>4, <1>9, <2>1, <2>2 DEF ResponseGrows, DataTypes, request
<1>10. CASE RelaysHeader
  <2>1. response_data' \in Seq(SentOf(Made)) /\ HeaderEnd(response_data') # 0
    BY <1>10, ConcatProperties DEF RelaysHeader, DataTypes
  <2>2. to_client' \in Seq(ToldUnit)
    BY <1>10, <2>1, RewrittenType, SentArePassed DEF RelaysHeader
  <2> QED
    BY <1>4, <1>10, <2>1, <2>2 DEF RelaysHeader, DataTypes, request
<1>11. CASE RelaysContent
  BY <1>4, <1>11, SentArePassed DEF RelaysContent, DataTypes, request
<1>12. CASE AwaitsRequest
  <2>1. read_request_context' \in RequestContexts
    BY <1>12 DEF AwaitsRequest, ClearMessages, DataTypes, RequestContexts, NoLength
  <2> QED
    BY <1>4, <1>12, <2>1 DEF AwaitsRequest, ClearMessages, DataTypes, buffers, writes
<1> QED
  BY <1>6, <1>7, <1>8, <1>9, <1>10, <1>11, <1>12

\* Cutting a sequence of units in two.
LEMMA CutInTwo ==
  ASSUME NEW S, NEW s \in Seq(S), NEW n \in 1 .. Len(s)
  PROVE  /\ SubSeq(s, 1, n) \in Seq(S)
         /\ SubSeq(s, n + 1, Len(s)) \in Seq(S)
         /\ Len(SubSeq(s, 1, n)) = n
         /\ Len(SubSeq(s, n + 1, Len(s))) = Len(s) - n
         /\ SubSeq(s, 1, n) \o SubSeq(s, n + 1, Len(s)) = s
<1>1. Len(s) \in Nat /\ \A i \in 1 .. Len(s) : s[i] \in S
  BY LenProperties
<1>2. SubSeq(s, 1, n) \in Seq(S) /\ Len(SubSeq(s, 1, n)) = n
  BY <1>1, SubSeqProperties
<1>3. /\ SubSeq(s, n + 1, Len(s)) \in Seq(S)
      /\ Len(SubSeq(s, n + 1, Len(s))) = Len(s) - n
  BY <1>1, SubSeqProperties
<1>4. SubSeq(s, 1, n) \o SubSeq(s, n + 1, Len(s)) = SubSeq(s, 1, Len(s))
  <2>1. 1 \in 1 .. Len(s) + 1 /\ n \in 1 - 1 .. Len(s) /\ Len(s) \in n .. Len(s)
    BY <1>1
  <2> QED
    BY <2>1, ConcatAdjacentSubSeq
<1> QED
  BY <1>2, <1>3, <1>4, SubSeqFull

\* The connection to an origin that is current, and what may be written to its record.
LEMMA OriginType ==
  ASSUME NEW K, origins \in Seq(ServerOf(K)), origins # <<>>
  PROVE  /\ Len(origins) \in Nat \ {0}
         /\ Origin \in ServerOf(K)
         /\ Origin = origins[Len(origins)]
         /\ \A record \in ServerOf(K) : OriginIs(record) => origins' \in Seq(ServerOf(K))
<1>1. Len(origins) \in Nat \ {0}
  BY EmptySeq
<1>2. Origin = origins[Len(origins)] /\ Len(origins) \in 1 .. Len(origins)
  BY <1>1 DEF Origin, Last
<1>3. origins[Len(origins)] \in ServerOf(K)
  BY <1>2, ElementOfSeq
<1>4. \A record \in ServerOf(K) : OriginIs(record) => origins' \in Seq(ServerOf(K))
  BY <1>2, ExceptSeq DEF OriginIs
<1> QED
  BY <1>1, <1>2, <1>3, <1>4

\* The kernel's part.
LEMMA TypesWhenKernelMoves ==
  ASSUME ControlInvariant, OnlyItsOperations, DataTypes, RequestInHand, Stays,
         \/ ClientDataRead \/ OriginDataRead \/ ClientDataWrite \/ OriginDataWrite
         \/ EndpointConnected
  PROVE  DataTypes'
<1>1. connection_context' \in ContextRecord
  BY TurnsTyped DEF DataTypes
<1>2. UNCHANGED <<request, response, endpoint_iterator, replies>>
  BY DEF ClientDataRead, OriginDataRead, ClientDataWrite, OriginDataWrite, EndpointConnected,
     Completes
<1>3. client.requests \in Seq(Requests) /\ client.stream \in Seq(SentOf(Made))
      /\ client.received \in Seq(ToldUnit)
  BY DEF DataTypes
<1>4. client'.requests = client.requests
  BY DEF ClientDataRead, OriginDataRead, ClientDataWrite, OriginDataWrite, EndpointConnected,
     DataTypes
<1>5. Made' = Made /\ ToldUnit' = ToldUnit
  BY <1>4, SameRequests
<1>6. SUFFICES /\ upgoing_buffer' \in Seq(SentOf(Made))
               /\ downgoing_buffer' \in Seq(SentOf(Made))
               /\ to_origin' \in Seq(PassedOf(Made))
               /\ to_client' \in Seq(ToldUnit)
               /\ client' \in [requests : Seq(Requests), stream : Seq(SentOf(Made)),
                               received : Seq(ToldUnit), open : BOOLEAN, tunnelled : Nat]
               /\ origins' \in Seq(ServerOf(Made))
  BY <1>1, <1>2, <1>4, <1>5 DEF DataTypes, request, response
<1>7. CASE ClientDataRead
  <2>1. PICK n \in 1 .. Len(client.stream) :
               /\ upgoing_buffer' = SubSeq(client.stream, 1, n)
               /\ client' = [client EXCEPT !.stream = SubSeq(@, n + 1, Len(@))]
    BY <1>7 DEF ClientDataRead
  <2>2. /\ SubSeq(client.stream, 1, n) \in Seq(SentOf(Made))
        /\ SubSeq(client.stream, n + 1, Len(client.stream)) \in Seq(SentOf(Made))
    BY <1>3, <2>1, CutInTwo
  <2> QED
    BY <1>7, <2>1, <2>2 DEF ClientDataRead, DataTypes, writes
<1>8. CASE OriginDataRead
  <2>1. PICK n \in 1 .. Len(Origin.stream) :
               /\ downgoing_buffer' = SubSeq(Origin.stream, 1, n)
               /\ OriginIs([Origin EXCEPT !.stream = SubSeq(@, n + 1, Len(@))])
    BY <1>8 DEF OriginDataRead
  <2>2. origins # <<>>
    BY <1>8 DEF OriginDataRead, OriginConnected
  <2>3. Origin \in ServerOf(Made)
    BY <2>2, OriginType DEF DataTypes
  <2>4. /\ SubSeq(Origin.stream, 1, n) \in Seq(SentOf(Made))
        /\ SubSeq(Origin.stream, n + 1, Len(Origin.stream)) \in Seq(SentOf(Made))
    <3>1. Origin.stream \in Seq(SentOf(Made))
      BY <2>3 DEF ServerOf
    <3> QED
      BY <2>1, <3>1, CutInTwo
  <2>5. [Origin EXCEPT !.stream = SubSeq(@, n + 1, Len(@))] \in ServerOf(Made)
    BY <2>3, <2>4 DEF ServerOf
  <2>6. origins' \in Seq(ServerOf(Made))
    BY <2>1, <2>2, <2>5, OriginType DEF DataTypes
  <2> QED
    BY <1>8, <2>1, <2>4, <2>6 DEF OriginDataRead, DataTypes, writes
<1>9. CASE ClientDataWrite
  <2>1. PICK n \in 1 .. Len(to_client) :
               /\ to_client' = SubSeq(to_client, n + 1, Len(to_client))
               /\ client' = IF client.open
                            THEN [client EXCEPT !.received = @ \o SubSeq(to_client, 1, n)]
                            ELSE client
    BY <1>9 DEF ClientDataWrite
  <2>2. /\ SubSeq(to_client, 1, n) \in Seq(ToldUnit)
        /\ SubSeq(to_client, n + 1, Len(to_client)) \in Seq(ToldUnit)
    BY <2>1, CutInTwo DEF DataTypes
  <2>3. client.received \o SubSeq(to_client, 1, n) \in Seq(ToldUnit)
    BY <1>3, <2>2, ConcatProperties
  <2> QED
    BY <1>9, <2>1, <2>2, <2>3 DEF ClientDataWrite, DataTypes, buffers
<1>10. CASE OriginDataWrite
  <2>1. PICK n \in 1 .. Len(to_origin) :
               /\ to_origin' = SubSeq(to_origin, n + 1, Len(to_origin))
               /\ OriginIs(IF Origin.open
                           THEN [Origin EXCEPT !.received = @ \o SubSeq(to_origin, 1, n)]
                           ELSE Origin)
    BY <1>10 DEF OriginDataWrite
  <2>2. origins # <<>>
    BY <1>10 DEF OriginDataWrite, OriginConnected
  <2>3. Origin \in ServerOf(Made)
    BY <2>2, OriginType DEF DataTypes
  <2>4. /\ SubSeq(to_origin, 1, n) \in Seq(PassedOf(Made))
        /\ SubSeq(to_origin, n + 1, Len(to_origin)) \in Seq(PassedOf(Made))
    BY <2>1, CutInTwo DEF DataTypes
  <2>5. Origin.received \o SubSeq(to_origin, 1, n) \in Seq(PassedOf(Made))
    BY <2>3, <2>4, ConcatProperties DEF ServerOf
  <2>6. (IF Origin.open THEN [Origin EXCEPT !.received = @ \o SubSeq(to_origin, 1, n)]
         ELSE Origin) \in ServerOf(Made)
    BY <2>3, <2>5 DEF ServerOf
  <2>7. origins' \in Seq(ServerOf(Made))
    BY <2>1, <2>2, <2>6, OriginType DEF DataTypes
  <2> QED
    BY <1>10, <2>1, <2>4, <2>7 DEF OriginDataWrite, DataTypes, buffers
<1>11. CASE EndpointConnected
  <2>1. state = "connect_to_origin_server"
    <3>1. "connect" \in Operation /\ ops["connect"] = "pending"
      BY <1>11 DEF EndpointConnected, Completes, Operation
    <3> QED
      BY <3>1, OutstandingMeans, StatesOfOutstanding DEF ControlInvariant
  <2>2. request_header \in Made /\ Head(endpoint_iterator) \in Endpoints
    BY <2>1, HeadTailProperties DEF RequestInHand, DataTypes, Serving, Finding
  <2>3. << >> \in Seq(SentOf(Made)) /\ << >> \in Seq(PassedOf(Made))
    BY EmptySeq
  <2>4. [endpoint |-> Head(endpoint_iterator), request |-> request_header, stream |-> <<>>,
         received |-> <<>>, open |-> TRUE, tunnelled |-> 0] \in ServerOf(Made)
    BY <2>2, <2>3 DEF ServerOf
  <2>5. origins' \in Seq(ServerOf(Made))
    BY <1>11, <2>4, AppendProperties DEF EndpointConnected, DataTypes
  <2> QED
    BY <1>11, <2>5 DEF EndpointConnected, DataTypes, buffers, writes
<1> QED
  BY <1>7, <1>8, <1>9, <1>10, <1>11

\* More requests only make more units possible.
LEMMA MoreMade ==
  ASSUME Made \subseteq Made'
  PROVE  /\ \A s \in Seq(SentOf(Made)) : s \in Seq(SentOf(Made'))
         /\ \A s \in Seq(PassedOf(Made)) : s \in Seq(PassedOf(Made'))
         /\ \A s \in Seq(ToldUnit) : s \in Seq(ToldUnit')
         /\ \A s \in Seq(ServerOf(Made)) : s \in Seq(ServerOf(Made'))
<1>1. SentOf(Made) \subseteq SentOf(Made')
  BY DEF SentOf
<1>2. PassedOf(Made) \subseteq PassedOf(Made')
  BY DEF PassedOf
<1>3. ToldUnit \subseteq ToldUnit'
  BY <1>2 DEF ToldUnit
<1>4. Seq(SentOf(Made)) \subseteq Seq(SentOf(Made')) /\ Seq(PassedOf(Made)) \subseteq Seq(PassedOf(Made'))
  BY <1>1, <1>2, SeqMonotonic
<1>5. ServerOf(Made) \subseteq ServerOf(Made')
  BY <1>4 DEF ServerOf
<1>6. Seq(ToldUnit) \subseteq Seq(ToldUnit') /\ Seq(ServerOf(Made)) \subseteq Seq(ServerOf(Made'))
  BY <1>3, <1>5, SeqMonotonic
<1> QED
  BY <1>4, <1>6, Zenon

\* A client's next request, behind what it has sent.
LEMMA ClientSendsTypes ==
  ASSUME DataTypes, NEW r \in Requests, ClientSends(r)
  PROVE  /\ Len(client'.requests) = Len(client.requests) + 1
         /\ client'.requests = Append(client.requests, r)
         /\ client'.stream = client.stream \o OnTheWire(Len(client.requests) + 1, r)
         /\ client'.requests[Len(client.requests) + 1] = r
         /\ \A k \in Made : client'.requests[k] = client.requests[k]
         /\ Made \subseteq Made'
         /\ OnTheWire(Len(client.requests) + 1, r)
              \in Seq(SentOf({Len(client.requests) + 1}))
         /\ client' \in [requests : Seq(Requests), stream : Seq(SentOf(Made')),
                         received : Seq(ToldUnit'), open : BOOLEAN, tunnelled : Nat]
<1> DEFINE k == Len(client.requests)
<1>1. /\ client \in [requests : Seq(Requests), stream : Seq(SentOf(Made)),
                     received : Seq(ToldUnit), open : BOOLEAN, tunnelled : Nat]
      /\ k \in Nat
  BY LenProperties DEF DataTypes
<1>2. client' = [client EXCEPT !.requests = Append(client.requests, r),
                               !.stream = client.stream \o OnTheWire(k + 1, r)]
  BY DEF ClientSends
<1>3. /\ Append(client.requests, r) \in Seq(Requests)
      /\ Len(Append(client.requests, r)) = k + 1
      /\ Append(client.requests, r)[k + 1] = r
      /\ \A i \in 1 .. k : Append(client.requests, r)[i] = client.requests[i]
  BY <1>1, AppendProperties
<1>4. r.head \in Nat \ {0} /\ r.content \in Seq(ContentPart)
  BY MessagesAssumption DEF Request
<1>5. OnTheWire(k + 1, r) \in Seq(SentOf({k + 1}))
  <2>1. PICK j \in Nat : j = k + 1
    BY <1>1
  <2>2. OnTheWire(j, r) \in Seq(SentOf({j}))
    BY <1>4, OnTheWireType
  <2> QED
    BY <2>1, <2>2, Zenon
<1>6. client'.requests = Append(client.requests, r)
  BY <1>1, <1>2
<1>7. Made' = 1 .. k + 1 /\ Made = 1 .. k
  BY <1>3, <1>6 DEF Made
<1>8. Made \subseteq Made'
  BY <1>1, <1>7
<1>9. client.stream \o OnTheWire(k + 1, r) \in Seq(SentOf(Made'))
  <2>1. SentOf({k + 1}) \subseteq SentOf(Made')
    BY <1>1, <1>7 DEF SentOf
  <2>2. OnTheWire(k + 1, r) \in Seq(SentOf(Made'))
    BY <1>5, <2>1, SeqMonotonic
  <2>3. client.stream \in Seq(SentOf(Made'))
    BY <1>1, <1>8, MoreMade
  <2> QED
    BY <2>2, <2>3, ConcatProperties
<1>10. client.received \in Seq(ToldUnit')
  BY <1>1, <1>8, MoreMade
<1>11. client'.stream = client.stream \o OnTheWire(k + 1, r)
  BY <1>1, <1>2
<1>12. client' \in [requests : Seq(Requests), stream : Seq(SentOf(Made')),
                    received : Seq(ToldUnit'), open : BOOLEAN, tunnelled : Nat]
  <2> DEFINE asked == Append(client.requests, r)
             sent == client.stream \o OnTheWire(k + 1, r)
  <2>1. asked \in Seq(Requests) /\ sent \in Seq(SentOf(Made'))
    BY <1>3, <1>9
  <2>2. client' = [client EXCEPT !.requests = asked, !.stream = sent]
    BY <1>2
  <2> HIDE DEF asked, sent
  <2> QED
    BY <1>1, <1>10, <2>1, <2>2
<1> QED
  BY <1>3, <1>5, <1>6, <1>7, <1>8, <1>11, <1>12

\* The peers' part.
LEMMA TypesWhenPeersMove ==
  ASSUME DataTypes, Stays, Peers
  PROVE  DataTypes'
<1>1. connection_context' \in ContextRecord
  BY TurnsTyped DEF DataTypes
<1>2. UNCHANGED contents
  BY DEF Peers, ClientSends, ClientTunnels, ClientCloses, OriginReplies, OriginTunnels,
     OriginCloses, proxy
<1>3. client \in [requests : Seq(Requests), stream : Seq(SentOf(Made)),
                  received : Seq(ToldUnit), open : BOOLEAN, tunnelled : Nat]
      /\ Len(client.requests) \in Nat
  BY LenProperties DEF DataTypes
<1>4. CASE \E r \in Requests : ClientSends(r)
  <2>1. PICK r \in Requests : ClientSends(r)
    BY <1>4
  <2>2. UNCHANGED <<origins, replies>>
    BY <2>1 DEF ClientSends
  <2>3. /\ Made \subseteq Made' /\ Len(client'.requests) = Len(client.requests) + 1
        /\ client' \in [requests : Seq(Requests), stream : Seq(SentOf(Made')),
                        received : Seq(ToldUnit'), open : BOOLEAN, tunnelled : Nat]
    BY <2>1, ClientSendsTypes
  <2>4. Len(replies) \in Nat
    BY LenProperties DEF DataTypes
  <2>5. Len(replies') <= Len(client'.requests)
    BY <1>3, <2>2, <2>3, <2>4 DEF DataTypes
  <2> QED
    BY <1>1, <1>2, <2>2, <2>3, <2>5, MoreMade
    DEF DataTypes, contents, request, response, buffers, writes
<1>5. SUFFICES ASSUME ClientTunnels \/ ClientCloses \/ (\E r \in Responses : OriginReplies(r))
                        \/ OriginTunnels \/ OriginCloses
               PROVE  DataTypes'
  BY <1>4 DEF Peers
<1>6. client'.requests = client.requests
  BY <1>3, <1>5 DEF ClientTunnels, ClientCloses, OriginReplies, OriginTunnels, OriginCloses
<1>7. Made' = Made /\ ToldUnit' = ToldUnit
  BY <1>6, SameRequests
<1>8. SUFFICES /\ client' \in [requests : Seq(Requests), stream : Seq(SentOf(Made)),
                               received : Seq(ToldUnit), open : BOOLEAN, tunnelled : Nat]
               /\ origins' \in Seq(ServerOf(Made))
               /\ replies' \in Seq(Responses)
               /\ Len(replies') <= Len(client.requests)
  BY <1>1, <1>2, <1>6, <1>7 DEF DataTypes, contents, request, response, buffers, writes
<1>9. CASE ClientTunnels
  <2> DEFINE k == Len(client.requests)
             n == client.tunnelled + 1
  <2>1. /\ Contains(client.received, Established(k)[1])
        /\ client' = [client EXCEPT !.tunnelled = n, !.stream = Append(@, TunnelUnit(k, n))]
        /\ UNCHANGED <<origins, replies>>
    BY <1>9 DEF ClientTunnels
  <2>2. Established(k)[1] \in ToldUnit
    <3>1. PICK i \in 1 .. Len(client.received) : client.received[i] = Established(k)[1]
      BY <2>1 DEF Contains
    <3> QED
      BY <1>3, <3>1, ElementOfSeq
  <2>3. k \in Made
    BY <2>2 DEF Established, ToldUnit, PassedOf
  <2>4. n \in Nat /\ TunnelUnit(k, n) \in SentOf(Made)
    BY <1>3, <2>3 DEF TunnelUnit, SentOf, SentPart
  <2>5. Append(client.stream, TunnelUnit(k, n)) \in Seq(SentOf(Made))
    BY <1>3, <2>4, AppendProperties
  <2> DEFINE sent == Append(client.stream, TunnelUnit(k, n))
  <2>6. client' = [client EXCEPT !.tunnelled = n, !.stream = sent]
    BY <2>1
  <2>7. sent \in Seq(SentOf(Made))
    BY <2>5
  <2> HIDE DEF sent, k, n
  <2>8. client' \in [requests : Seq(Requests), stream : Seq(SentOf(Made)),
                     received : Seq(ToldUnit), open : BOOLEAN, tunnelled : Nat]
    BY <1>3, <2>4, <2>6, <2>7
  <2> QED
    BY <2>1, <2>8 DEF DataTypes
<1>10. CASE ClientCloses
  BY <1>3, <1>10 DEF ClientCloses, DataTypes
<1>11. ASSUME OriginLives
       PROVE  origins # <<>> /\ Origin \in ServerOf(Made)
  BY <1>11, OriginType DEF OriginLives, OriginConnected, DataTypes
<1>12. CASE \E r \in Responses : OriginReplies(r)
  <2>1. PICK r \in Responses : OriginReplies(r)
    BY <1>12
  <2> DEFINE k == Len(replies) + 1
             reply == Reply(k, r, client.requests[k].method)
  <2>2. /\ OriginLives /\ k <= Len(client.requests)
        /\ replies' = Append(replies, r)
        /\ OriginIs([Origin EXCEPT !.stream = @ \o reply, !.open = ResponseKeepAlive(r)])
        /\ client' = client
    BY <2>1 DEF OriginReplies
  <2>3. Len(replies) \in Nat /\ replies' \in Seq(Responses) /\ Len(replies') = k
    BY <2>2, LenProperties, AppendProperties DEF DataTypes
  <2>4. k \in Made /\ r \in Response /\ k \in Nat
    BY <1>3, <2>2, <2>3, MessagesAssumption DEF Made
  <2>5. reply \in Seq(SentOf(Made))
    BY <2>4, ReplyType, OfOneMade
  <2>6. ResponseKeepAlive(r) \in BOOLEAN
    BY DEF ResponseKeepAlive
  <2>7. origins # <<>> /\ Origin \in ServerOf(Made)
    BY <1>11, <2>2
  <2>8. PICK sent \in Seq(SentOf(Made)) : sent = Origin.stream \o reply
    BY <2>5, <2>7, ConcatProperties DEF ServerOf
  <2>9. [Origin EXCEPT !.stream = sent, !.open = ResponseKeepAlive(r)] \in ServerOf(Made)
    BY <2>6, <2>7 DEF ServerOf
  <2>10. [Origin EXCEPT !.stream = Origin.stream \o reply, !.open = ResponseKeepAlive(r)] \in ServerOf(Made)
    BY <2>8, <2>9, Zenon
  <2>11. origins' \in Seq(ServerOf(Made))
    BY <2>2, <2>7, <2>10, OriginType DEF DataTypes
  <2> QED
    BY <1>3, <2>2, <2>3, <2>11
<1>13. CASE OriginTunnels
  <2> DEFINE k == Origin.request
             n == Origin.tunnelled + 1
  <2>1. /\ OriginLives
        /\ OriginIs([Origin EXCEPT !.tunnelled = n, !.stream = Append(@, TunnelUnit(k, n))])
        /\ UNCHANGED <<client, replies>>
    BY <1>13 DEF OriginTunnels
  <2>2. origins # <<>> /\ Origin \in ServerOf(Made)
    BY <1>11, <2>1
  <2>3. n \in Nat /\ TunnelUnit(k, n) \in SentOf(Made)
    BY <2>2 DEF ServerOf, TunnelUnit, SentOf, SentPart
  <2>4. PICK sent \in Seq(SentOf(Made)) : sent = Append(Origin.stream, TunnelUnit(k, n))
    BY <2>2, <2>3, AppendProperties DEF ServerOf
  <2>5. [Origin EXCEPT !.tunnelled = n, !.stream = sent] \in ServerOf(Made)
    BY <2>2, <2>3 DEF ServerOf
  <2>6. [Origin EXCEPT !.tunnelled = n, !.stream = Append(Origin.stream, TunnelUnit(k, n))] \in ServerOf(Made)
    BY <2>4, <2>5, Zenon
  <2>7. origins' \in Seq(ServerOf(Made))
    BY <2>1, <2>2, <2>6, OriginType DEF DataTypes
  <2> QED
    BY <1>3, <2>1, <2>7 DEF DataTypes
<1>14. CASE OriginCloses
  <2>1. OriginLives /\ OriginIs([Origin EXCEPT !.open = FALSE]) /\ UNCHANGED <<client, replies>>
    BY <1>14 DEF OriginCloses
  <2>2. origins # <<>> /\ Origin \in ServerOf(Made)
    BY <1>11, <2>1
  <2>3. \A open \in BOOLEAN : [Origin EXCEPT !.open = open] \in ServerOf(Made)
    BY <2>2 DEF ServerOf
  <2>4. [Origin EXCEPT !.open = FALSE] \in ServerOf(Made)
    BY <2>3
  <2>5. origins' \in Seq(ServerOf(Made))
    BY <2>1, <2>2, <2>4, OriginType DEF DataTypes
  <2> QED
    BY <1>3, <2>1, <2>5 DEF DataTypes
<1> QED
  BY <1>5, <1>9, <1>10, <1>12, <1>13, <1>14

\* The types are kept.
LEMMA TypesPreserved ==
  ASSUME ControlInvariant, OnlyItsOperations, DataTypes, RequestInHand, DataNext
  PROVE  DataTypes'
<1>1. CASE Arrives
  BY <1>1, TypesWhenKernelMoves, TypesWhenPeersMove DEF Arrives
<1>2. CASE Rests \/ Begun \/ OriginTook \/ AwaitsContent \/ StartsTunnel
  BY <1>2, TypesAtRest
<1>3. CASE RequestGrows \/ TakenOnKept \/ TakenAnew
  BY <1>3, TypesWhenRequestArrives
<1>4. CASE Reconnecting \/ ResolvedToKept \/ TriesEndpoint \/ ConnectedTo \/ NotConnected
  BY <1>4, TypesWhenConnecting
<1>5. CASE PassesContent \/ PassesUp \/ PassesDown \/ ResponseGrows \/ RelaysHeader
             \/ RelaysContent \/ AwaitsRequest
  BY <1>5, TypesWhenPassing
<1> QED
  BY <1>1, <1>2, <1>3, <1>4, <1>5 DEF DataNext

-----------------------------------------------------------------------------
(* The request in hand is kept. *)

\* The proxy's own steps leave the peers and what was sent alone.
LEMMA OnlyArrivalsChangeEnvironment ==
  ASSUME DataNext, ~Arrives
  PROVE  UNCHANGED environment
  BY DEF DataNext, Rests, Begun, RequestGrows, TakenOnKept, TakenAnew, Reconnecting,
     ResolvedToKept, TriesEndpoint, ConnectedTo, NotConnected, PassesContent, PassesUp,
     OriginTook, ResponseGrows, RelaysHeader, RelaysContent, PassesDown, AwaitsContent,
     AwaitsRequest, StartsTunnel, SendsRequest, OpensTunnel, Resolves, ReportsError, Ran, RanOut

\* A completion is of one operation.
LEMMA CompletesOne ==
  ASSUME ControlTypeOK, NEW o \in Operation, NEW result, Completes(o, result)
  PROVE  /\ ops[o] = "pending" /\ ops'[o] = result
         /\ \A p \in Operation : p # o => ops'[p] = ops[p]
         /\ UNCHANGED <<timer_pending, timeout_due, aborted, sockets, request, response,
                        endpoint_iterator>>
<1>1. ops' = [ops EXCEPT ![o] = result] /\ DOMAIN ops = Operation
  BY DEF Completes, ControlTypeOK
<1> QED
  BY <1>1, Zenon DEF Completes

\* What the environment leaves of the connection, and which operation it completes.
LEMMA ArrivalsLeave ==
  ASSUME ControlTypeOK, Arrives
  PROVE  /\ UNCHANGED <<timer_pending, timeout_due, aborted, proxy_client_socket,
                        origin_server_socket, request_data, request_header,
                        read_request_context, response_data, read_response_context,
                        endpoint_iterator>>
         /\ Stays
         /\ \A o \in Operation :
              \/ ops'[o] = ops[o]
              \/ /\ ops[o] = "pending" /\ ops'[o] = "ok"
                 /\ \/ o = "read_client" /\ ClientDataRead
                    \/ o = "read_origin" /\ OriginDataRead
                    \/ o = "write_client" /\ ClientDataWrite
                    \/ o = "write_origin" /\ OriginDataWrite
                    \/ o = "connect" /\ EndpointConnected
<1>1. "read_client" \in Operation /\ "read_origin" \in Operation
      /\ "write_client" \in Operation /\ "write_origin" \in Operation
      /\ "connect" \in Operation
  BY DEF Operation
<1>2. Stays
  BY DEF Arrives
<1>3. CASE ClientDataRead
  BY <1>1, <1>2, <1>3, CompletesOne, Zenon DEF ClientDataRead, sockets, request, response
<1>4. CASE OriginDataRead
  BY <1>1, <1>2, <1>4, CompletesOne, Zenon DEF OriginDataRead, sockets, request, response
<1>5. CASE ClientDataWrite
  BY <1>1, <1>2, <1>5, CompletesOne, Zenon DEF ClientDataWrite, sockets, request, response
<1>6. CASE OriginDataWrite
  BY <1>1, <1>2, <1>6, CompletesOne, Zenon DEF OriginDataWrite, sockets, request, response
<1>7. CASE EndpointConnected
  BY <1>1, <1>2, <1>7, CompletesOne, Zenon DEF EndpointConnected, sockets, request, response
<1>8. CASE Peers
  <2>1. UNCHANGED proxy
    BY <1>8, Zenon DEF Peers, ClientSends, ClientTunnels, ClientCloses, OriginReplies,
       OriginTunnels, OriginCloses
  <2> QED
    BY <1>2, <2>1, Zenon DEF proxy, control, sockets, contents, request, response
<1> QED
  BY <1>3, <1>4, <1>5, <1>6, <1>7, <1>8 DEF Arrives

\* Requests are only added.
LEMMA RequestsGrow ==
  ASSUME DataTypes, DataNext
  PROVE  /\ \A k \in Made : k \in Made' /\ client'.requests[k] = client.requests[k]
         /\ Made \subseteq Made'
<1>1. CASE Arrives /\ \E r \in Requests : ClientSends(r)
  BY <1>1, ClientSendsTypes
<1>2. CASE Arrives /\ ~ \E r \in Requests : ClientSends(r)
  <2>1. client'.requests = client.requests
    BY <1>2 DEF Arrives, ClientDataRead, OriginDataRead, ClientDataWrite, OriginDataWrite,
       EndpointConnected, Peers, ClientTunnels, ClientCloses, OriginReplies, OriginTunnels,
       OriginCloses, DataTypes
  <2> QED
    BY <2>1 DEF Made
<1>3. CASE ~Arrives
  <2>1. UNCHANGED environment
    BY <1>3, OnlyArrivalsChangeEnvironment
  <2> QED
    BY <2>1 DEF Made, environment
<1> QED
  BY <1>1, <1>2, <1>3

\* A step that leaves the request and its name, and the phase it is served in.
LEMMA RequestKept ==
  ASSUME RequestInHand,
         UNCHANGED <<request_data, request_header>>,
         read_request_context'.content_length = read_request_context.content_length,
         \A k \in Made : k \in Made' /\ client'.requests[k] = client.requests[k],
         OriginName' = OriginName,
         state' \in Waiting => state \in Waiting,
         state' \in Serving => state \in Serving,
         state' \in Tunnelling => state \in Tunnelling \/ Served.method = "CONNECT",
         state' \in Sending \cup Responding =>
           state \in Sending \cup Responding \/ Served.method # "CONNECT",
         state' = "connect_to_origin_server" => endpoint_iterator' # <<>>
  PROVE  RequestInHand'
<1>1. CASE state' \in Serving
  <2>1. state \in Serving /\ request_header \in Made
    BY <1>1 DEF RequestInHand
  <2>2. Served' = Served /\ request_header' \in Made'
    BY <2>1 DEF Served
  <2>3. state' \notin Waiting
    BY <1>1 DEF Waiting, Serving, Finding, Sending, Responding, Tunnelling
  <2> QED
    BY <1>1, <2>1, <2>2, <2>3 DEF RequestInHand
<1>2. CASE state' \notin Serving
  BY <1>2 DEF RequestInHand
<1> QED
  BY <1>1, <1>2

\* A request is taken into hand when it is accepted.
LEMMA RequestTakenInHand ==
  ASSUME DataTypes, RequestTaken, UNCHANGED environment,
         state' \in {"write_http_request_header", "resolve_origin_server_address"},
         state' = "write_http_request_header" =>
           client.requests[request_header'].method # "CONNECT",
         OriginName' = client.requests[request_header'].host
  PROVE  RequestInHand'
<1>1. request_header' \in Made /\ Made' = Made
  BY RequestTakenTypes DEF Made, environment
<1>2. Served' = client.requests[request_header']
  BY DEF Served, environment
<1>3. /\ HeaderEnd(request_data') # 0
      /\ RequestStatus(Served') = Accepted
      /\ Served'.method # "CONNECT" =>
           read_request_context'.content_length =
             IF HasContent(Served') THEN Served'.length ELSE 0
  <2> PICK n : n = Len(request_data') - HeaderEnd(request_data')
    OBVIOUS
  <2> QED
    BY <1>2 DEF RequestTaken, RequestContext
<1>4. state' \notin Waiting /\ state' \notin Tunnelling /\ state' # "connect_to_origin_server"
  BY DEF Waiting, Tunnelling
<1>5. state' \in Sending \cup Responding => Served'.method # "CONNECT"
  BY <1>2 DEF Sending, Responding
<1> QED
  BY <1>1, <1>2, <1>3, <1>4, <1>5 DEF RequestInHand

\* The request in hand is kept until its reply is.
LEMMA RequestInHandPreserved ==
  ASSUME ControlInvariant, OnlyItsOperations, DataTypes, RequestInHand, DataNext
  PROVE  RequestInHand'
<1> DEFINE Same == \A k \in Made : k \in Made' /\ client'.requests[k] = client.requests[k]
<1>1. UNCHANGED environment => Same
  BY DEF environment, Made
<1>2. CASE Rests \/ Begun \/ OriginTook \/ AwaitsContent \/ StartsTunnel
  <2>1. UNCHANGED <<environment, request, endpoint_iterator>> /\ OriginName' = OriginName
    BY <1>2 DEF Rests, Begun, OriginTook, AwaitsContent, StartsTunnel, Ran, contents, Stays,
       Turns, Becomes
  <2>2. CASE Rests
    <3>1. state' = state
      BY <2>2 DEF Rests, Stays, Becomes
    <3> QED
      BY <1>1, <2>1, <3>1, RequestKept DEF request, RequestInHand
  <2>3. CASE Begun
    <3>1. state \in Waiting /\ state' = "read_http_request_header"
      BY <2>3 DEF Begun, Turns, Becomes, Waiting
    <3>2. state' \in Waiting /\ state' \notin Serving
      BY <3>1 DEF Waiting, Serving, Finding, Sending, Responding, Tunnelling
    <3> QED
      BY <2>1, <3>1, <3>2 DEF request, RequestInHand, Serving, Finding
  <2>4. CASE OriginTook
    <3>1. /\ state \in Sending \/ state = "tunnel_transfer"
          /\ state = "tunnel_transfer" => state' = state
          /\ state \in Sending => state' \in Sending \cup Responding
      BY <2>4 DEF OriginTook, Writing, Sending, Responding, Becomes
    <3> QED
      BY <1>1, <2>1, <3>1, RequestKept
      DEF request, Waiting, Serving, Finding, Sending, Responding, Tunnelling
  <2>5. CASE AwaitsContent
    <3>1. state \in Responding /\ state' = "read_http_response_content"
      BY <2>5 DEF AwaitsContent, Turns, Becomes, Responding
    <3> QED
      BY <1>1, <2>1, <3>1, RequestKept
      DEF request, Waiting, Serving, Finding, Sending, Responding, Tunnelling
  <2>6. CASE StartsTunnel
    <3>1. state \in Tunnelling /\ state' = "tunnel_transfer"
      BY <2>6 DEF StartsTunnel, Turns, Becomes, Tunnelling
    <3> QED
      BY <1>1, <2>1, <3>1, RequestKept
      DEF request, Waiting, Serving, Finding, Sending, Responding, Tunnelling
  <2> QED
    BY <1>2, <2>2, <2>3, <2>4, <2>5, <2>6
<1>3. CASE RequestGrows
  <2>1. request_header' = request_header /\ state' \in {state, "report_error"}
        /\ state = "read_http_request_header"
    BY <1>3 DEF RequestGrows, ReportsError, Stays, Turns, Becomes
  <2>2. state \in Waiting /\ state' \notin Serving /\ state' # "connect_to_origin_server"
    BY <2>1 DEF Waiting, Serving, Finding, Sending, Responding, Tunnelling
  <2> QED
    BY <2>1, <2>2 DEF RequestInHand
<1>4. CASE TakenOnKept
  BY <1>4, RequestTakenInHand DEF TakenOnKept, SendsRequest, Becomes, Ran
<1>5. CASE TakenAnew
  BY <1>5, RequestTakenInHand DEF TakenAnew, Resolves, Becomes, Ran
<1>6. CASE Reconnecting
  <2>1. UNCHANGED <<environment, request>> /\ state \in Writing
    BY <1>6 DEF Reconnecting, Resolves, Ran, Reconnects, Writing
  <2>2. state \in Serving
    BY <2>1 DEF Writing, Serving, Sending
  <2>3. Served.host = OriginName
    BY <2>2 DEF RequestInHand
  <2>4. OriginName' = OriginName /\ state' = "resolve_origin_server_address"
    BY <1>6, <2>1, <2>3 DEF Reconnecting, Resolves, Becomes, Served, request
  <2> QED
    BY <1>1, <2>1, <2>2, <2>4, RequestKept
    DEF request, Waiting, Serving, Finding, Sending, Responding, Tunnelling
<1>7. CASE ResolvedToKept \/ ConnectedTo
  <2>1. UNCHANGED <<environment, request>> /\ state \in Finding /\ OriginName' = OriginName
    BY <1>7 DEF ResolvedToKept, ConnectedTo, Finding, SendsRequest, OpensTunnel, Becomes, Ran
  <2>2. \/ state' = "write_http_request_header" /\ Served.method # "CONNECT"
        \/ state' = "report_connection_established" /\ Served.method = "CONNECT"
    BY <1>7, <2>1 DEF ResolvedToKept, ConnectedTo, SendsRequest, OpensTunnel, Becomes, Served,
       request
  <2> QED
    BY <1>1, <2>1, <2>2, RequestKept
    DEF request, Waiting, Serving, Finding, Sending, Responding, Tunnelling
<1>8. CASE TriesEndpoint
  <2>1. /\ UNCHANGED <<environment, request>> /\ state \in Finding /\ OriginName' = OriginName
        /\ state' = "connect_to_origin_server"
    BY <1>8 DEF TriesEndpoint, Finding, Becomes, Ran
  <2>2. endpoint_iterator' # <<>>
    <3>1. CASE state = "resolve_origin_server_address"
      <4>1. Served.host = OriginName /\ request_header \in Made
        BY <3>1 DEF RequestInHand, Serving, Finding
      <4>2. OriginName \in Hosts
        BY <4>1, RequestType DEF Served, DataTypes
      <4>3. endpoint_iterator' \in Resolutions[OriginName]
        BY <1>8, <3>1 DEF TriesEndpoint
      <4> QED
        BY <4>2, <4>3, HostsAssumption
    <3>2. CASE state # "resolve_origin_server_address"
      BY <1>8, <3>2, LongTail DEF TriesEndpoint, DataTypes
    <3> QED
      BY <3>1, <3>2
  <2> QED
    BY <1>1, <2>1, <2>2, RequestKept
    DEF request, Waiting, Serving, Finding, Sending, Responding, Tunnelling
<1>9. CASE NotConnected
  <2>1. state' = "report_error"
    BY <1>9 DEF NotConnected, ReportsError, Turns, Becomes
  <2> QED
    BY <2>1 DEF RequestInHand, Waiting, Serving, Finding, Sending, Responding, Tunnelling
<1>10. CASE PassesContent \/ PassesUp \/ PassesDown \/ ResponseGrows \/ RelaysHeader
              \/ RelaysContent
  <2>1. /\ UNCHANGED <<environment, request_data, request_header>>
        /\ OriginName' = OriginName
    BY <1>10 DEF PassesContent, PassesUp, PassesDown, ResponseGrows, RelaysHeader, RelaysContent,
       Ran, RanOut, ReportsError, Stays, Turns, Becomes, request
  <2>2. read_request_context'.content_length = read_request_context.content_length
    <3>1. CASE PassesContent
      <4>1. PICK n : n = Len(upgoing_buffer)
        OBVIOUS
      <4>2. read_request_context' = [read_request_context EXCEPT !.content_length_has_read = @ + n]
        BY <3>1, <4>1 DEF PassesContent
      <4>3. read_request_context \in RequestContexts
        BY DEF DataTypes
      <4> QED
        BY <4>2, <4>3 DEF RequestContexts
    <3>2. CASE ~PassesContent
      BY <1>10, <3>2 DEF PassesUp, PassesDown, ResponseGrows, RelaysHeader, RelaysContent, request
    <3> QED
      BY <3>1, <3>2
  <2>3. \/ state \in Sending /\ state' \in Sending
        \/ state = "tunnel_transfer" /\ state' = "tunnel_transfer"
        \/ state \in Responding /\ state' \in Responding \cup {"report_error"}
    BY <1>10 DEF PassesContent, PassesUp, PassesDown, ResponseGrows, RelaysHeader, RelaysContent,
       ReportsError, Stays, Turns, Becomes, Sending, Responding
  <2> QED
    BY <1>1, <2>1, <2>2, <2>3, RequestKept
    DEF Waiting, Serving, Finding, Sending, Responding, Tunnelling
<1>11. CASE AwaitsRequest
  <2>1. request_header' = 0 /\ state' = "read_http_request_header"
    BY <1>11 DEF AwaitsRequest, ClearMessages, Turns, Becomes
  <2> QED
    BY <2>1 DEF RequestInHand, Waiting, Serving, Finding, Sending, Responding, Tunnelling
<1>12. CASE Arrives
  <2>1. UNCHANGED <<request, endpoint_iterator>> /\ state' = state /\ OriginName' = OriginName
    BY <1>12 DEF Arrives, Stays, Becomes, ClientDataRead, OriginDataRead, ClientDataWrite,
       OriginDataWrite, EndpointConnected, Completes, Peers, ClientSends, ClientTunnels,
       ClientCloses, OriginReplies, OriginTunnels, OriginCloses, proxy, contents
  <2>2. Same
    BY <1>12, RequestsGrow DEF DataNext
  <2> QED
    BY <2>1, <2>2, RequestKept DEF request, RequestInHand
<1> QED
  BY <1>2, <1>3, <1>4, <1>5, <1>6, <1>7, <1>8, <1>9, <1>10, <1>11, <1>12 DEF DataNext

-----------------------------------------------------------------------------
(* What the origin servers send, and the tunnel. *)

\* A connection was made for a tunnel.
Tunnels == \E c \in DOMAIN origins : client.requests[origins[c].request].method = "CONNECT"

\* Units an origin server may have sent: of a reply it gave, or of a tunnel.
ReplyUnit ==
  {u \in SentOf(Made) : IF u.part = "tunnel" THEN Tunnels ELSE u.of \in DOMAIN replies}

\* A tunnel is for good, once its connection is made.
TunnelIsLast ==
  Tunnels =>
    \/ state \in Tunnelling
    \/ /\ state = "connect_to_origin_server"
       /\ Served.method = "CONNECT"
       /\ ops["connect"] \notin {"pending", "error"}

ReplyData ==
  /\ response_data \in Seq(ReplyUnit)
  /\ downgoing_buffer \in Seq(ReplyUnit)
  /\ \A c \in DOMAIN origins : origins[c].stream \in Seq(ReplyUnit)
  /\ read_response_context \in ResponseContexts

\* Writing to the record of the current connection leaves the others.
LEMMA OriginWritten ==
  ASSUME DataTypes, origins # <<>>, NEW record, OriginIs(record)
  PROVE  /\ Len(origins') = Len(origins) /\ DOMAIN origins' = DOMAIN origins
         /\ Len(origins) \in DOMAIN origins
         /\ \A c \in DOMAIN origins :
              origins'[c] = IF c = Len(origins) THEN record ELSE origins[c]
         /\ Origin = origins[Len(origins)] /\ Origin \in ServerOf(Made)
<1>1. DOMAIN origins = 1 .. Len(origins) /\ Len(origins) \in Nat \ {0}
  BY OriginType, LenProperties DEF DataTypes
<1>2. DOMAIN origins' = DOMAIN origins
      /\ \A c \in DOMAIN origins :
           origins'[c] = IF c = Len(origins) THEN record ELSE origins[c]
  BY <1>1 DEF OriginIs
<1>3. Len(origins') = Len(origins)
  BY <1>1, <1>2 DEF OriginIs, DataTypes
<1> QED
  BY <1>1, <1>2, <1>3, OriginType DEF DataTypes

\* A sequence with one more element.
LEMMA OneMore ==
  ASSUME NEW S, NEW s \in Seq(S), NEW e
  PROVE  /\ DOMAIN Append(s, e) = DOMAIN s \cup {Len(s) + 1}
         /\ DOMAIN s = 1 .. Len(s) /\ Len(s) \in Nat
         /\ Len(Append(s, e)) = Len(s) + 1
         /\ \A c \in DOMAIN s : Append(s, e)[c] = s[c]
         /\ Append(s, e)[Len(s) + 1] = e
<1>1. s \in Seq(S \cup {e}) /\ e \in S \cup {e}
  BY SeqMonotonic
<1>2. /\ Append(s, e) \in Seq(S \cup {e})
      /\ Len(Append(s, e)) = Len(s) + 1
      /\ \A c \in 1 .. Len(s) : Append(s, e)[c] = s[c]
      /\ Append(s, e)[Len(s) + 1] = e
  BY <1>1, AppendProperties
<1>3. /\ Len(s) \in Nat /\ DOMAIN s = 1 .. Len(s)
      /\ DOMAIN Append(s, e) = 1 .. Len(Append(s, e))
  BY <1>1, <1>2, LenProperties
<1> QED
  BY <1>2, <1>3

\* The records of the connections made.
LEMMA RecordsType ==
  ASSUME DataTypes
  PROVE  \A c \in DOMAIN origins :
           /\ origins[c] \in ServerOf(Made)
           /\ origins[c].request \in Made
           /\ origins[c].stream \in Seq(SentOf(Made))
           /\ origins[c].received \in Seq(PassedOf(Made))
<1>1. \A c \in DOMAIN origins : origins[c] \in ServerOf(Made)
  BY LenProperties, ElementOfSeq DEF DataTypes
<1> QED
  BY <1>1 DEF ServerOf

\* What may become of the record of the current connection: its request and its
\* address stay, it receives from the write in flight, it sends or is read from.
Receives(before, after) ==
  /\ OriginDataWrite
  /\ \E n \in 1 .. Len(to_origin) :
       /\ after.received = before.received \o SubSeq(to_origin, 1, n)
       /\ to_origin' = SubSeq(to_origin, n + 1, Len(to_origin))

IsRead(before, after) ==
  /\ OriginDataRead
  /\ \E n \in 1 .. Len(before.stream) :
       /\ downgoing_buffer' = SubSeq(before.stream, 1, n)
       /\ after.stream = SubSeq(before.stream, n + 1, Len(before.stream))

Sends(before, after) ==
  LET k == Len(replies) + 1
  IN  \/ \E r \in Responses :
           /\ OriginReplies(r)
           /\ after.stream = before.stream \o Reply(k, r, client.requests[k].method)
      \/ /\ OriginTunnels
         /\ \E n \in Nat : after.stream = Append(before.stream, TunnelUnit(before.request, n))

MayBecome(before, after) ==
  /\ after.request = before.request
  /\ after.endpoint = before.endpoint
  /\ after.received = before.received \/ Receives(before, after)
  /\ after.stream = before.stream \/ IsRead(before, after) \/ Sends(before, after)

\* Each step of the environment makes that of the record.
LEMMA CurrentMoves ==
  ASSUME DataTypes,
         \/ OriginDataRead \/ OriginDataWrite \/ (\E r \in Responses : OriginReplies(r))
         \/ OriginTunnels \/ OriginCloses
  PROVE  origins # <<>> /\ \E record : OriginIs(record) /\ MayBecome(Origin, record)
<1>1. origins # <<>>
  BY DEF OriginDataRead, OriginDataWrite, OriginReplies, OriginTunnels, OriginCloses,
     OriginLives, OriginConnected
<1>2. Origin \in ServerOf(Made)
  BY <1>1, OriginType DEF DataTypes
<1>3. CASE OriginDataRead
  <2>1. PICK n \in 1 .. Len(Origin.stream) :
          /\ downgoing_buffer' = SubSeq(Origin.stream, 1, n)
          /\ OriginIs([Origin EXCEPT !.stream = SubSeq(@, n + 1, Len(@))])
    BY <1>3 DEF OriginDataRead
  <2>2. PICK rest : rest = SubSeq(Origin.stream, n + 1, Len(Origin.stream))
    OBVIOUS
  <2>3. OriginIs([Origin EXCEPT !.stream = rest])
    BY <2>1, <2>2, Zenon
  <2>4. PICK record : record = [Origin EXCEPT !.stream = rest]
    OBVIOUS
  <2>5. /\ record.request = Origin.request /\ record.endpoint = Origin.endpoint
        /\ record.received = Origin.received /\ record.stream = rest
    BY <1>2, <2>4 DEF ServerOf
  <2>6. IsRead(Origin, record)
    BY <1>3, <2>1, <2>2, <2>5, Zenon DEF IsRead
  <2> QED
    BY <1>1, <2>3, <2>4, <2>5, <2>6, Zenon DEF MayBecome
<1>4. CASE OriginDataWrite
  <2>1. PICK n \in 1 .. Len(to_origin) :
          /\ to_origin' = SubSeq(to_origin, n + 1, Len(to_origin))
          /\ OriginIs(IF Origin.open
                      THEN [Origin EXCEPT !.received = @ \o SubSeq(to_origin, 1, n)]
                      ELSE Origin)
    BY <1>4 DEF OriginDataWrite
  <2>2. PICK got : got = Origin.received \o SubSeq(to_origin, 1, n)
    OBVIOUS
  <2>3. OriginIs(IF Origin.open THEN [Origin EXCEPT !.received = got] ELSE Origin)
    BY <2>1, <2>2, Zenon
  <2>4. PICK record : record = IF Origin.open THEN [Origin EXCEPT !.received = got] ELSE Origin
    OBVIOUS
  <2>5. /\ record.request = Origin.request /\ record.endpoint = Origin.endpoint
        /\ record.received = got \/ record.received = Origin.received
        /\ record.stream = Origin.stream
    BY <1>2, <2>4 DEF ServerOf
  <2>6. record.received = got => Receives(Origin, record)
    BY <1>4, <2>1, <2>2, Zenon DEF Receives
  <2> QED
    BY <1>1, <2>3, <2>4, <2>5, <2>6, Zenon DEF MayBecome
<1>5. CASE \E r \in Responses : OriginReplies(r)
  <2>1. PICK r \in Responses : OriginReplies(r)
    BY <1>5
  <2>2. PICK reply : reply = Reply(Len(replies) + 1, r, client.requests[Len(replies) + 1].method)
    OBVIOUS
  <2>3. OriginIs([Origin EXCEPT !.stream = @ \o reply, !.open = ResponseKeepAlive(r)])
    BY <2>1, <2>2 DEF OriginReplies
  <2>4. PICK sent, open : sent = Origin.stream \o reply /\ open = ResponseKeepAlive(r)
    OBVIOUS
  <2>5. OriginIs([Origin EXCEPT !.stream = sent, !.open = open])
    BY <2>3, <2>4, Zenon
  <2>6. PICK record : record = [Origin EXCEPT !.stream = sent, !.open = open]
    OBVIOUS
  <2>7. /\ record.request = Origin.request /\ record.endpoint = Origin.endpoint
        /\ record.received = Origin.received /\ record.stream = sent
    BY <1>2, <2>6 DEF ServerOf
  <2>8. Sends(Origin, record)
    BY <2>1, <2>2, <2>4, <2>7, Zenon DEF Sends
  <2> QED
    BY <1>1, <2>5, <2>6, <2>7, <2>8, Zenon DEF MayBecome
<1>6. CASE OriginTunnels
  <2> DEFINE n == Origin.tunnelled + 1
             unit == TunnelUnit(Origin.request, n)
  <2>1. OriginIs([Origin EXCEPT !.tunnelled = n, !.stream = Append(@, unit)])
    BY <1>6 DEF OriginTunnels
  <2>2. n \in Nat
    BY <1>2 DEF ServerOf
  <2> HIDE DEF n
  <2>3. PICK sent : sent = Append(Origin.stream, unit)
    OBVIOUS
  <2>4. OriginIs([Origin EXCEPT !.tunnelled = n, !.stream = sent])
    BY <2>1, <2>3, Zenon
  <2>5. PICK record : record = [Origin EXCEPT !.tunnelled = n, !.stream = sent]
    OBVIOUS
  <2>6. /\ record.request = Origin.request /\ record.endpoint = Origin.endpoint
        /\ record.received = Origin.received /\ record.stream = sent
    BY <1>2, <2>5 DEF ServerOf
  <2>7. Sends(Origin, record)
    BY <1>6, <2>2, <2>3, <2>6, Zenon DEF Sends
  <2> QED
    BY <1>1, <2>4, <2>5, <2>6, <2>7, Zenon DEF MayBecome
<1>7. CASE OriginCloses
  <2>1. \A open :
          LET record == [Origin EXCEPT !.open = open]
          IN  /\ record.request = Origin.request /\ record.endpoint = Origin.endpoint
              /\ record.received = Origin.received /\ record.stream = Origin.stream
    BY <1>2 DEF ServerOf
  <2>2. \A open : MayBecome(Origin, [Origin EXCEPT !.open = open])
    BY <2>1, Zenon DEF MayBecome
  <2> QED
    BY <1>1, <1>7, <2>2, Zenon DEF OriginCloses
<1> QED
  BY <1>3, <1>4, <1>5, <1>6, <1>7

\* Connections are only added, and what they were made for and to stays.
LEMMA OriginsGrow ==
  ASSUME DataTypes, DataNext
  PROVE  /\ \A c \in DOMAIN origins :
              /\ c \in DOMAIN origins'
              /\ MayBecome(origins[c], origins'[c])
              /\ c # Len(origins) => origins'[c] = origins[c]
         /\ ~EndpointConnected => DOMAIN origins' = DOMAIN origins /\ Len(origins') = Len(origins)
<1>1. CASE UNCHANGED origins
  BY <1>1 DEF MayBecome
<1>2. CASE \/ OriginDataRead \/ OriginDataWrite \/ (\E r \in Responses : OriginReplies(r))
           \/ OriginTunnels \/ OriginCloses
  <2>1. PICK record : origins # <<>> /\ OriginIs(record) /\ MayBecome(Origin, record)
    BY <1>2, CurrentMoves
  <2>2. \A origin : MayBecome(origin, origin)
    BY DEF MayBecome
  <2> QED
    BY <2>1, <2>2, OriginWritten
<1>3. CASE EndpointConnected
  <2>1. PICK record : origins' = Append(origins, record)
    BY <1>3 DEF EndpointConnected
  <2>2. \A origin : MayBecome(origin, origin)
    BY DEF MayBecome
  <2>3. \A c \in DOMAIN origins : c \in DOMAIN origins' /\ origins'[c] = origins[c]
    BY <2>1, OneMore DEF DataTypes
  <2> QED
    BY <1>3, <2>2, <2>3
<1>4. CASE ~Arrives
  BY <1>1, <1>4, OnlyArrivalsChangeEnvironment DEF environment
<1>5. CASE ClientDataRead \/ ClientDataWrite \/ ClientTunnels \/ ClientCloses
             \/ \E r \in Requests : ClientSends(r)
  BY <1>1, <1>5 DEF ClientDataRead, ClientDataWrite, ClientTunnels, ClientCloses, ClientSends
<1> QED
  BY <1>2, <1>3, <1>4, <1>5 DEF Arrives, Peers

\* Replies are only added.
LEMMA RepliesGrow ==
  ASSUME DataTypes, DataNext
  PROVE  \A k \in DOMAIN replies : k \in DOMAIN replies' /\ replies'[k] = replies[k]
<1>1. CASE Arrives /\ \E r \in Responses : OriginReplies(r)
  <2>1. PICK r \in Responses : replies' = Append(replies, r)
    BY <1>1 DEF OriginReplies
  <2> QED
    BY <2>1, OneMore DEF DataTypes
<1>2. CASE Arrives /\ ~ \E r \in Responses : OriginReplies(r)
  BY <1>2 DEF Arrives, ClientDataRead, OriginDataRead, ClientDataWrite, OriginDataWrite,
     EndpointConnected, Peers, ClientSends, ClientTunnels, ClientCloses, OriginTunnels, OriginCloses
<1>3. CASE ~Arrives
  BY <1>3, OnlyArrivalsChangeEnvironment DEF environment
<1> QED
  BY <1>1, <1>2, <1>3

\* A tunnel's connection stays what it is, and only the request in hand gets one.
LEMMA TunnelsGrow ==
  ASSUME ControlInvariant, OnlyItsOperations, DataTypes, RequestInHand, DataNext
  PROVE  /\ Tunnels => Tunnels'
         /\ Tunnels' => Tunnels \/ (EndpointConnected /\ Served.method = "CONNECT")
         /\ EndpointConnected => state = "connect_to_origin_server" /\ request_header \in Made
<1>1. EndpointConnected => state = "connect_to_origin_server" /\ request_header \in Made
  <2>1. EndpointConnected => "connect" \in Outstanding
    BY OutstandingMeans DEF EndpointConnected, Completes, Operation
  <2> QED
    BY <2>1, StatesOfOutstanding DEF ControlInvariant, RequestInHand, Serving, Finding
<1>2. \A c \in DOMAIN origins : origins[c].request \in Made
  BY RecordsType
<1>3. \A c \in DOMAIN origins :
        /\ c \in DOMAIN origins'
        /\ client'.requests[origins'[c].request].method
             = client.requests[origins[c].request].method
  BY <1>2, OriginsGrow, RequestsGrow DEF MayBecome
<1>4. CASE EndpointConnected
  <2>1. /\ DOMAIN origins' = DOMAIN origins \cup {Len(origins) + 1}
        /\ origins'[Len(origins) + 1].request = request_header
    BY <1>4, OneMore DEF EndpointConnected, DataTypes
  <2>2. client'.requests[request_header] = Served
    BY <1>1, <1>4, RequestsGrow DEF Served
  <2> QED
    BY <1>1, <1>3, <1>4, <2>1, <2>2 DEF Tunnels
<1>5. CASE ~EndpointConnected
  BY <1>1, <1>3, <1>5, OriginsGrow DEF Tunnels
<1> QED
  BY <1>4, <1>5

\* Once its connection is made, a tunnel is what the connection is for.
LEMMA TunnelIsLastPreserved ==
  ASSUME ControlInvariant, OnlyItsOperations, DataTypes, RequestInHand, TunnelIsLast, DataNext
  PROVE  TunnelIsLast'
<1> SUFFICES ASSUME Tunnels'
             PROVE  \/ state' \in Tunnelling
                    \/ /\ state' = "connect_to_origin_server"
                       /\ Served'.method = "CONNECT"
                       /\ ops'["connect"] \notin {"pending", "error"}
  BY DEF TunnelIsLast
<1>1. request_header \in Made /\ request_header' = request_header => Served' = Served
  BY RequestsGrow DEF Served
<1>2. CASE EndpointConnected /\ Arrives
  <2>1. state = "connect_to_origin_server" /\ request_header \in Made
    BY <1>2, TunnelsGrow
  <2>2. ops["connect"] = "pending" /\ ops'["connect"] = "ok"
    BY <1>2, Zenon DEF EndpointConnected, Completes, ControlInvariant, ControlTypeOK, Operation
  <2>3. state \notin Tunnelling /\ state' = state /\ request_header' = request_header
    BY <1>2, <2>1 DEF Tunnelling, Arrives, Stays, Becomes, EndpointConnected, Completes, request
  <2>4. Served.method = "CONNECT"
    BY <2>2, <2>3, TunnelsGrow DEF TunnelIsLast
  <2> QED
    BY <1>1, <2>1, <2>2, <2>3, <2>4
<1>3. CASE ~(EndpointConnected /\ Arrives)
  <2>1. Tunnels
    BY <1>3, TunnelsGrow, OnlyArrivalsChangeEnvironment DEF environment, Tunnels
  <2>2. CASE state \in Tunnelling
    BY <2>2 DEF DataNext, Tunnelling, Rests, Begun, RequestGrows, TakenOnKept, TakenAnew, RequestTaken,
       Reconnecting, Reconnects, ResolvedToKept, TriesEndpoint, ConnectedTo, NotConnected,
       PassesContent, PassesUp, OriginTook, Writing, ResponseGrows, RelaysHeader, RelaysContent,
       PassesDown, AwaitsContent, AwaitsRequest, StartsTunnel, Arrives, Stays, Turns, Becomes
  <2>3. CASE state = "connect_to_origin_server" /\ Served.method = "CONNECT"
               /\ ops["connect"] \notin {"pending", "error"}
    <3>1. request_header \in Made
      BY <2>3 DEF RequestInHand, Serving, Finding
    <3>2. CASE Rests
      BY <1>1, <2>3, <3>1, <3>2 DEF Rests, Stays, Becomes, Settles, contents, request
    <3>3. CASE ConnectedTo
      <4>1. client.requests[request_header'] = Served
        BY <3>3 DEF ConnectedTo, request, Served
      <4> QED
        BY <2>3, <3>3, <4>1 DEF ConnectedTo, SendsRequest, OpensTunnel, Becomes, Tunnelling
    <3>4. CASE Arrives
      <4>1. ops'["connect"] = ops["connect"]
        BY <1>3, <3>4, ArrivalsLeave DEF ControlInvariant, Operation
      <4>2. state' = state /\ request_header' = request_header
        BY <3>4, ArrivalsLeave DEF ControlInvariant, Stays, Becomes
      <4> QED
        BY <1>1, <2>3, <3>1, <4>1, <4>2
    <3>5. Rests \/ ConnectedTo \/ Arrives
      BY <2>3 DEF DataNext, Begun, RequestGrows, TakenOnKept, TakenAnew, RequestTaken,
         Reconnecting, Reconnects, ResolvedToKept, TriesEndpoint, NotConnected, ReportsError,
         PassesContent, PassesUp, OriginTook, Writing, ResponseGrows, RelaysHeader,
         RelaysContent, PassesDown, AwaitsContent, AwaitsRequest, StartsTunnel, Ran
    <3> QED
      BY <3>2, <3>3, <3>4, <3>5
  <2> QED
    BY <2>1, <2>2, <2>3 DEF TunnelIsLast
<1> QED
  BY <1>2, <1>3

\* What was sent stays sent.
LEMMA ReplyUnitsGrow ==
  ASSUME ControlInvariant, OnlyItsOperations, DataTypes, RequestInHand, DataNext
  PROVE  \A s \in Seq(ReplyUnit) : s \in Seq(ReplyUnit')
<1>1. SentOf(Made) \subseteq SentOf(Made')
  BY RequestsGrow DEF SentOf
<1>2. ReplyUnit \subseteq ReplyUnit'
  BY <1>1, TunnelsGrow, RepliesGrow DEF ReplyUnit
<1> QED
  BY <1>2, SeqMonotonic, Zenon

\* What is on its way from the origin servers.
LEMMA StreamsKept ==
  ASSUME ControlInvariant, OnlyItsOperations, DataTypes, RequestInHand, ReplyData, DataNext
  PROVE  \A c \in DOMAIN origins' : origins'[c].stream \in Seq(ReplyUnit')
<1>1. ASSUME NEW c \in DOMAIN origins
      PROVE  origins'[c].stream \in Seq(ReplyUnit')
  <2>1. /\ origins[c].stream \in Seq(ReplyUnit) /\ origins[c].stream \in Seq(ReplyUnit')
        /\ origins[c].request \in Made /\ origins[c].request \in Made'
    BY ReplyUnitsGrow, RecordsType, RequestsGrow DEF ReplyData
  <2>2. MayBecome(origins[c], origins'[c])
    BY OriginsGrow
  <2>3. CASE origins'[c].stream = origins[c].stream
    BY <2>1, <2>3
  <2>4. CASE IsRead(origins[c], origins'[c])
    <3>1. PICK n \in 1 .. Len(origins[c].stream) :
             origins'[c].stream = SubSeq(origins[c].stream, n + 1, Len(origins[c].stream))
      BY <2>4 DEF IsRead
    <3> QED
      BY <2>1, <3>1, CutInTwo
  <2>5. CASE Sends(origins[c], origins'[c]) /\ \E r \in Responses : OriginReplies(r)
    <3> DEFINE k == Len(replies) + 1
    <3>1. PICK r \in Responses :
            /\ OriginReplies(r)
            /\ origins'[c].stream = origins[c].stream \o Reply(k, r, client.requests[k].method)
      <4>1. ~OriginTunnels
        <5>1. replies' # replies
          <6>1. PICK r \in Responses : replies' = Append(replies, r)
            BY <2>5 DEF OriginReplies
          <6>2. Len(replies') = Len(replies) + 1 /\ Len(replies) \in Nat
            BY <6>1, OneMore DEF DataTypes
          <6> QED
            BY <6>2
        <5> QED
          BY <5>1 DEF OriginTunnels
      <4> QED
        BY <2>5, <4>1 DEF Sends
    <3>2. k \in Made /\ k \in DOMAIN replies' /\ k \in Nat
      <4>1. replies' = Append(replies, r) /\ k <= Len(client.requests)
        BY <3>1 DEF OriginReplies
      <4>2. Len(replies) \in Nat /\ DOMAIN replies' = DOMAIN replies \cup {k}
        BY <4>1, OneMore DEF DataTypes
      <4>3. Len(client.requests) \in Nat
        BY LenProperties DEF DataTypes
      <4> QED
        BY <4>1, <4>2, <4>3 DEF Made
    <3>3. PICK reply : reply = Reply(k, r, client.requests[k].method)
      OBVIOUS
    <3>4. r \in Response
      BY MessagesAssumption
    <3>5. /\ reply \in Seq(SentOf({k}))
          /\ \A i \in 1 .. Len(reply) : reply[i].part # "tunnel"
      BY <3>2, <3>3, <3>4, ReplyType
    <3>6. \A i \in 1 .. Len(reply) : reply[i] \in ReplyUnit'
      <4>1. SUFFICES ASSUME NEW i \in 1 .. Len(reply) PROVE reply[i] \in ReplyUnit'
        OBVIOUS
      <4>2. reply[i] \in SentOf({k})
        BY <3>5, ElementOfSeq
      <4>3. reply[i] \in SentOf(Made')
        BY <3>2, <4>2, RequestsGrow DEF SentOf
      <4> QED
        BY <3>2, <3>5, <4>2, <4>3 DEF ReplyUnit, SentOf
    <3>7. reply \in Seq(ReplyUnit')
      <4>1. Len(reply) \in Nat /\ reply \in [1 .. Len(reply) -> SentOf({k})]
        BY <3>5, LenProperties
      <4>2. reply \in [1 .. Len(reply) -> ReplyUnit']
        BY <3>6, <4>1
      <4> QED
        BY <4>1, <4>2, SeqDef
    <3> QED
      BY <2>1, <3>1, <3>3, <3>7, ConcatProperties
  <2>6. CASE Sends(origins[c], origins'[c]) /\ OriginTunnels
               /\ ~ \E r \in Responses : OriginReplies(r)
    <3>1. PICK n \in Nat :
            origins'[c].stream = Append(origins[c].stream, TunnelUnit(origins[c].request, n))
      BY <2>6 DEF Sends
    <3>2. Tunnels
      <4>1. origins # <<>> /\ client.requests[Origin.request].method = "CONNECT"
        BY <2>6 DEF OriginTunnels, OriginLives, OriginConnected
      <4>2. Len(origins) \in DOMAIN origins /\ Origin = origins[Len(origins)]
        BY <4>1, OriginType, LenProperties DEF DataTypes
      <4> QED
        BY <4>1, <4>2 DEF Tunnels
    <3>3. Tunnels'
      BY <3>2, TunnelsGrow
    <3>4. TunnelUnit(origins[c].request, n) \in ReplyUnit'
      BY <2>1, <3>3 DEF TunnelUnit, ReplyUnit, SentOf, SentPart
    <3> QED
      BY <2>1, <3>1, <3>4, AppendProperties
  <2> QED
    BY <2>2, <2>3, <2>4, <2>5, <2>6 DEF MayBecome, Sends
<1>2. CASE EndpointConnected
  <2>1. /\ DOMAIN origins' = DOMAIN origins \cup {Len(origins) + 1}
        /\ origins'[Len(origins) + 1].stream = <<>>
    BY <1>2, OneMore DEF EndpointConnected, DataTypes
  <2> QED
    BY <1>1, <2>1, EmptySeq
<1>3. CASE ~EndpointConnected
  BY <1>1, <1>3, OriginsGrow
<1> QED
  BY <1>2, <1>3

\* What the proxy knows of a response, from its header and its content.
LEMMA ResponseContextTypes ==
  /\ \A r \in Response : \A method, data : \A n \in Nat :
       Len(data) = n => ResponseContext(r, method, data) \in ResponseContexts
  /\ \A context \in ResponseContexts : \A units : \A n \in Nat :
       Len(units) = n => Counted(context, units) \in ResponseContexts
<1>1. \A chunks \in ChunkState : \A data : ChunkCheck(chunks, data) \in ChunkState
  BY DEF ChunkCheck, ChunkState
<1>2. \A r : ResponseKeepAlive(r) \in BOOLEAN
  BY DEF ResponseKeepAlive
<1>3. "open" \in ChunkState /\ "none" \in ChunkState
  BY DEF ChunkState
<1>4. ASSUME NEW r \in Response, NEW method, NEW data, NEW n \in Nat, Len(data) = n
      PROVE  ResponseContext(r, method, data) \in ResponseContexts
  <2>1. r.length \in Nat
    BY DEF Response
  <2> QED
    BY <1>1, <1>2, <1>3, <1>4, <2>1 DEF ResponseContext, ResponseContexts
<1>5. ASSUME NEW context \in ResponseContexts, NEW units, NEW n \in Nat, Len(units) = n
      PROVE  Counted(context, units) \in ResponseContexts
  <2>1. PICK chunks \in ChunkState : chunks = ChunkCheck(context.chunk_checker, units)
    BY <1>1 DEF ResponseContexts
  <2>2. CASE context.content_length # NoLength
    <3>1. Counted(context, units) = [context EXCEPT !.content_length_has_read = @ + n]
      BY <1>5, <2>2 DEF Counted
    <3> QED
      BY <3>1 DEF ResponseContexts
  <2>3. CASE context.content_length = NoLength /\ context.chunk_checker # "none"
    <3>1. Counted(context, units) = [context EXCEPT !.chunk_checker = chunks]
      BY <2>1, <2>3, Zenon DEF Counted
    <3> QED
      BY <3>1 DEF ResponseContexts
  <2>4. CASE context.content_length = NoLength /\ context.chunk_checker = "none"
    BY <2>4 DEF Counted
  <2> QED
    BY <2>2, <2>3, <2>4
<1> QED
  BY <1>4, <1>5

\* No reply is being collected in a tunnel, and none mixes with it.
LEMMA ReplyDataPreserved ==
  ASSUME ControlInvariant, OnlyItsOperations, DataTypes, RequestInHand, TunnelIsLast, ReplyData,
         DataNext
  PROVE  ReplyData'
<1>1. << >> \in Seq(ReplyUnit') /\ response_data \in Seq(ReplyUnit')
      /\ downgoing_buffer \in Seq(ReplyUnit')
  BY ReplyUnitsGrow, EmptySeq DEF ReplyData
<1>2. \A c \in DOMAIN origins' : origins'[c].stream \in Seq(ReplyUnit')
  BY StreamsKept
<1>3. SUFFICES /\ response_data' \in Seq(ReplyUnit')
               /\ downgoing_buffer' \in Seq(ReplyUnit')
               /\ read_response_context' \in ResponseContexts
  BY <1>2 DEF ReplyData
<1>4. CASE Arrives
  <2>1. UNCHANGED response
    BY <1>4, ArrivalsLeave DEF ControlInvariant, response
  <2>2. CASE OriginDataRead
    <3>1. PICK n \in 1 .. Len(Origin.stream) : downgoing_buffer' = SubSeq(Origin.stream, 1, n)
      BY <2>2 DEF OriginDataRead
    <3>2. origins # <<>>
      BY <2>2 DEF OriginDataRead, OriginConnected
    <3>3. Len(origins) \in DOMAIN origins /\ Origin = origins[Len(origins)]
      BY <3>2, OriginType, LenProperties DEF DataTypes
    <3>4. Origin.stream \in Seq(ReplyUnit')
      BY <3>3, ReplyUnitsGrow DEF ReplyData
    <3> QED
      BY <1>1, <2>1, <3>1, <3>4, CutInTwo DEF response, ReplyData
  <2>3. CASE ~OriginDataRead
    <3>1. UNCHANGED downgoing_buffer
      BY <1>4, <2>3 DEF Arrives, ClientDataRead, ClientDataWrite, OriginDataWrite,
         EndpointConnected, Peers, ClientSends, ClientTunnels, ClientCloses, OriginReplies,
         OriginTunnels, OriginCloses, proxy, contents, buffers
    <3> QED
      BY <1>1, <2>1, <3>1 DEF response, ReplyData
  <2> QED
    BY <2>2, <2>3
<1>5. CASE ResponseGrows
  BY <1>1, <1>5, ConcatProperties DEF ResponseGrows, ReplyData
<1>6. CASE RelaysHeader
  <2>1. response_data' \in Seq(ReplyUnit) /\ UNCHANGED environment
    BY <1>6, ConcatProperties DEF RelaysHeader, ReplyData, Ran
  <2>2. ~Tunnels
    BY <1>6 DEF RelaysHeader, TunnelIsLast, Tunnelling
  <2>3. ReplyUnit \subseteq SentOf(DOMAIN replies)
    BY <2>2 DEF ReplyUnit, SentOf
  <2>4. response_data' \in Seq(SentOf(DOMAIN replies)) /\ HeaderEnd(response_data') # 0
    BY <1>6, <2>1, <2>3, SeqMonotonic DEF RelaysHeader
  <2>5. response_data'[1].of \in DOMAIN replies
    BY <2>4, FirstUnit
  <2>6. ArrivedResponse \in Response
    BY <2>5, ElementOfSeq, LenProperties, MessagesAssumption DEF ArrivedResponse, DataTypes
  <2>7. Len(ArrivedContent) \in Nat
    <3>1. HeaderEnd(response_data') \in 1 .. Len(response_data') /\ Len(response_data') \in Nat
      BY <2>4, HeaderEndIsFirst, LenProperties
    <3>2. ArrivedContent \in Seq(SentOf(DOMAIN replies))
      <4>1. \A i \in HeaderEnd(response_data') + 1 .. Len(response_data') :
              response_data'[i] \in SentOf(DOMAIN replies)
        BY <2>4, <3>1, ElementOfSeq
      <4> QED
        BY <3>1, <4>1, SubSeqProperties DEF ArrivedContent
    <3> QED
      BY <3>2, LenProperties
  <2>8. ResponseContext(ArrivedResponse, RequestMethod, ArrivedContent) \in ResponseContexts
    BY <2>6, <2>7, ResponseContextTypes
  <2> QED
    BY <1>1, <1>6, <2>1, <2>8, ReplyUnitsGrow DEF RelaysHeader
<1>7. CASE RelaysContent
  <2>1. Len(downgoing_buffer) \in Nat
    BY LenProperties DEF ReplyData
  <2>2. Counted(read_response_context, downgoing_buffer) \in ResponseContexts
    BY <2>1, ResponseContextTypes DEF ReplyData
  <2> QED
    BY <1>1, <1>7, <2>2 DEF RelaysContent
<1>8. CASE PassesDown
  BY <1>1, <1>8 DEF PassesDown, response, ReplyData
<1>9. CASE AwaitsRequest
  <2>1. read_response_context' \in ResponseContexts
    BY <1>9 DEF AwaitsRequest, ClearMessages, ReplyData, ResponseContexts, ChunkState, NoLength
  <2> QED
    BY <1>1, <1>9, <2>1 DEF AwaitsRequest, ClearMessages, buffers
<1>10. CASE \/ Rests \/ Begun \/ RequestGrows \/ TakenOnKept \/ TakenAnew \/ Reconnecting
            \/ ResolvedToKept \/ TriesEndpoint \/ ConnectedTo \/ NotConnected
            \/ PassesContent \/ PassesUp \/ OriginTook \/ AwaitsContent \/ StartsTunnel
  <2>1. UNCHANGED <<response, downgoing_buffer>>
    BY <1>10 DEF Rests, Begun, RequestGrows, TakenOnKept, TakenAnew, RequestTaken, Reconnecting,
       ResolvedToKept, TriesEndpoint, ConnectedTo, NotConnected, PassesContent, PassesUp,
       OriginTook, AwaitsContent, StartsTunnel, contents, buffers
  <2> QED
    BY <1>1, <2>1 DEF response, ReplyData
<1> QED
  BY <1>4, <1>5, <1>6, <1>7, <1>8, <1>9, <1>10 DEF DataNext

-----------------------------------------------------------------------------
(* The origin's socket, and whose it is. *)

\* Where a connection to the origin is needed it is open, or a write to it fails
\* and the connection recovers from that.
SocketFits ==
  timer_pending =>
    /\ state \in Tunnelling \cup Sending \cup {"connect_to_origin_server"} =>
         origin_server_socket = "open" \/ (Reconnects /\ ops["write_origin"] # "ok")
    /\ state = "resolve_origin_server_address" /\ Served.method = "CONNECT" =>
         origin_server_socket = "closed"

\* The endpoint remembered is the one connected to, and one of the name's.
CurrentOrigin ==
  /\ state = "connect_to_origin_server" =>
       /\ Head(endpoint_iterator) = OriginEndpoint
       /\ ToSet(endpoint_iterator) \subseteq AddressesOf(OriginName)
  /\ OriginConnected /\ (timer_pending \/ state # "connect_to_origin_server") =>
       /\ Origin.endpoint = OriginEndpoint
       /\ state \notin {"resolve_origin_server_address", "report_error"} =>
            Origin.endpoint \in AddressesOf(OriginName)

\* A handler's step with another operation than these leaves them.
LEMMA RanLeaves ==
  ASSUME ControlTypeOK, NEW o, NEW result, NEW next, NEW p \in Operation, p # o, p \notin next,
         Ran(o, result, next) \/ RanOut(o, result)
  PROVE  ops'[p] = ops[p]
<1>1. CASE Ran(o, result, next)
  BY <1>1, Zenon DEF Ran
<1>2. CASE RanOut(o, result)
  BY <1>2, Zenon DEF RanOut, ControlTypeOK
<1> QED
  BY <1>1, <1>2

\* The socket fits what the connection does with it.
LEMMA SocketFitsPreserved ==
  ASSUME ControlInvariant, OnlyItsOperations, DataTypes, RequestInHand, SocketFits, DataNext
  PROVE  SocketFits'
<1>1. ControlTypeOK /\ "write_origin" \in Operation
  BY DEF ControlInvariant, Operation
<1>2. CASE Rests
  <2>1. UNCHANGED environment /\ UNCHANGED request /\ state' = state /\ Recovers' = Recovers
    BY <1>2 DEF Rests, Stays, Becomes, contents
  <2>2. Served' = Served /\ Reconnects' = Reconnects
    BY <2>1 DEF Served, environment, request, Reconnects, Recovers
  <2>3. timer_pending' => timer_pending /\ origin_server_socket' = origin_server_socket
                          /\ (ops'["write_origin"] = ops["write_origin"]
                              \/ ops'["write_origin"] = "error")
    BY <1>2 DEF Rests, Settles
  <2> QED
    BY <2>1, <2>2, <2>3 DEF SocketFits
<1>3. CASE Arrives
  <2>1. UNCHANGED <<timer_pending, origin_server_socket, request_header>>
        /\ state' = state /\ Recovers' = Recovers
    BY <1>1, <1>3, ArrivalsLeave DEF Stays, Becomes
  <2>2. Reconnects' = Reconnects
    BY <2>1 DEF Reconnects, Recovers
  <2>3. state = "resolve_origin_server_address" => Served' = Served
    BY <1>3, <2>1, RequestsGrow DEF Served, RequestInHand, Serving, Finding
  <2>4. \/ ops'["write_origin"] = ops["write_origin"]
        \/ origin_server_socket = "open" /\ ops["write_origin"] = "pending"
    BY <1>1, <1>3, ArrivalsLeave DEF OriginDataWrite, OriginConnected
  <2>5. ops["write_origin"] = "pending" => state # "resolve_origin_server_address"
    BY <1>1, OutstandingMeans, StatesOfOutstanding DEF Writing
  <2> QED
    BY <2>1, <2>2, <2>3, <2>4, <2>5 DEF SocketFits
<1>4. CASE TakenOnKept
  BY <1>4 DEF TakenOnKept, SendsRequest, Becomes, SocketFits
<1>5. CASE TakenAnew \/ Reconnecting
  <2>1. /\ state' = "resolve_origin_server_address"
        /\ client.requests[request_header'].method = "CONNECT" => origin_server_socket' = "closed"
        /\ UNCHANGED environment
    BY <1>5 DEF TakenAnew, Reconnecting, Resolves, Becomes, Ran
  <2> QED
    BY <2>1 DEF SocketFits, Served, environment, Tunnelling, Sending
<1>6. CASE ResolvedToKept
  <2>1. timer_pending /\ state = "resolve_origin_server_address" /\ origin_server_socket = "open"
    BY <1>6 DEF ResolvedToKept, SendsRequest, OpensTunnel, Ran
  <2>2. client.requests[request_header'].method # "CONNECT"
    BY <1>6, <2>1 DEF SocketFits, ResolvedToKept, request, Served
  <2>3. /\ state' = "write_http_request_header" /\ Recovers' = TRUE
        /\ Ran("resolve", "ok", {"write_origin"})
    BY <1>6, <2>2 DEF ResolvedToKept, SendsRequest, OpensTunnel, Becomes
  <2>4. ops'["write_origin"] = "pending"
    BY <1>1, <2>3, Zenon DEF Ran
  <2> QED
    BY <2>3, <2>4 DEF SocketFits, Reconnects, Recovers
<1>7. CASE TriesEndpoint
  BY <1>7 DEF TriesEndpoint, Becomes, SocketFits
<1>8. CASE ConnectedTo
  <2>1. timer_pending /\ state = "connect_to_origin_server" /\ UNCHANGED origin_server_socket
    BY <1>8 DEF ConnectedTo, SendsRequest, OpensTunnel, Ran
  <2>2. origin_server_socket = "open"
    BY <2>1 DEF SocketFits, Reconnects
  <2>3. state' # "resolve_origin_server_address"
    BY <1>8 DEF ConnectedTo, SendsRequest, OpensTunnel, Becomes
  <2> QED
    BY <2>1, <2>2, <2>3 DEF SocketFits
<1>9. CASE PassesContent \/ PassesUp \/ PassesDown \/ OriginTook \/ StartsTunnel
  <2>1. timer_pending /\ UNCHANGED origin_server_socket
    BY <1>9 DEF PassesContent, PassesUp, PassesDown, OriginTook, StartsTunnel, Ran
  <2>2. /\ state \in Tunnelling \cup Sending
        /\ state = "write_http_request_header" => ops["write_origin"] = "ok"
    BY <1>9 DEF PassesContent, PassesUp, PassesDown, OriginTook, StartsTunnel, Ran, Writing,
       Tunnelling, Sending
  <2>3. origin_server_socket = "open"
    BY <2>1, <2>2 DEF SocketFits, Reconnects
  <2>4. state' # "resolve_origin_server_address"
    BY <1>9 DEF PassesContent, PassesUp, PassesDown, OriginTook, StartsTunnel, Turns, Stays,
       Becomes, Writing
  <2> QED
    BY <2>1, <2>3, <2>4 DEF SocketFits
<1>10. CASE \/ Begun \/ RequestGrows \/ NotConnected \/ ResponseGrows \/ RelaysHeader
            \/ RelaysContent \/ AwaitsContent \/ AwaitsRequest
  <2>1. state' \in Waiting \cup Responding \cup {"report_error"}
    BY <1>10 DEF Begun, RequestGrows, NotConnected, ResponseGrows, RelaysHeader, RelaysContent,
       AwaitsContent, AwaitsRequest, ReportsError, Turns, Stays, Becomes, Waiting, Responding
  <2> QED
    BY <2>1 DEF SocketFits, Waiting, Responding, Tunnelling, Sending
<1> QED
  BY <1>2, <1>3, <1>4, <1>5, <1>6, <1>7, <1>8, <1>9, <1>10 DEF DataNext

\* A step that leaves the connection to the origin, or closes its socket.
LEMMA SameConnection ==
  ASSUME UNCHANGED origins, ops'["connect"] = ops["connect"],
         origin_server_socket' = "open" => origin_server_socket = "open"
  PROVE  OriginConnected' => OriginConnected /\ Origin' = Origin
  BY DEF OriginConnected, Origin

\* The addresses tried are the name's.
LEMMA AddressesTried ==
  /\ \A host : \A endpoints \in Resolutions[host] : ToSet(endpoints) \subseteq AddressesOf(host)
  /\ \A s \in Seq(Endpoints) : s # <<>> => Head(s) \in ToSet(s)
  /\ \A s \in Seq(Endpoints) : Len(s) > 1 => ToSet(Tail(s)) \subseteq ToSet(s)
  /\ \A s \in Seq(Endpoints) : \A e : Contains(s, e) => e \in ToSet(s)
<1>1. \A host : \A endpoints \in Resolutions[host] : ToSet(endpoints) \subseteq AddressesOf(host)
  BY DEF AddressesOf
<1>2. ASSUME NEW s \in Seq(Endpoints)
      PROVE  /\ s # <<>> => Head(s) \in ToSet(s)
             /\ Len(s) > 1 => ToSet(Tail(s)) \subseteq ToSet(s)
             /\ \A e : Contains(s, e) => e \in ToSet(s)
  <2>1. DOMAIN s = 1 .. Len(s) /\ Len(s) \in Nat
    BY LenProperties
  <2>2. s # <<>> => 1 \in DOMAIN s /\ Head(s) = s[1]
    BY <2>1, HeadTailProperties, EmptySeq
  <2>3. ASSUME Len(s) > 1
        PROVE  ToSet(Tail(s)) \subseteq ToSet(s)
    <3>1. s # <<>>
      BY <2>1, <2>3, EmptySeq
    <3>2. PICK t : t = Tail(s)
      OBVIOUS
    <3>3. /\ t \in Seq(Endpoints) /\ Len(t) = Len(s) - 1
          /\ \A i \in 1 .. Len(t) : t[i] = s[i + 1]
      BY <3>1, <3>2, HeadTailProperties
    <3>4. DOMAIN t = 1 .. Len(t)
      BY <3>3, LenProperties
    <3>5. \A i \in DOMAIN t : t[i] = s[i + 1] /\ i + 1 \in DOMAIN s
      BY <2>1, <3>3, <3>4
    <3> QED
      BY <3>2, <3>5 DEF ToSet
  <2>4. \A e : Contains(s, e) => e \in ToSet(s)
    BY <2>1 DEF Contains, ToSet
  <2> QED
    BY <2>2, <2>3, <2>4 DEF ToSet
<1> QED
  BY <1>1, <1>2

\* Who is connected is who is remembered.
LEMMA CurrentOriginPreserved ==
  ASSUME ControlInvariant, OnlyItsOperations, DataTypes, RequestInHand, CurrentOrigin, DataNext
  PROVE  CurrentOrigin'
<1> DEFINE Tried(s, name, endpoint) ==
             Head(s) = endpoint /\ ToSet(s) \subseteq AddressesOf(name)
<1>1. ControlTypeOK /\ "connect" \in Operation
      /\ \A p \in {"read_client", "write_client", "read_origin", "write_origin", "resolve"} :
           p # "connect"
  BY DEF ControlInvariant, Operation
<1>2. ops["connect"] # "idle" => state = "connect_to_origin_server"
  BY <1>1, OutstandingMeans, StatesOfOutstanding
<1>3. SUFFICES /\ state' = "connect_to_origin_server" =>
                    Tried(endpoint_iterator', OriginName', OriginEndpoint')
               /\ OriginConnected' /\ (timer_pending' \/ state' # "connect_to_origin_server") =>
                    /\ Origin'.endpoint = OriginEndpoint'
                    /\ state' \notin {"resolve_origin_server_address", "report_error"} =>
                         Origin'.endpoint \in AddressesOf(OriginName')
  BY DEF CurrentOrigin
<1>4. CASE Rests
  <2>1. /\ UNCHANGED <<origins, endpoint_iterator>> /\ state' = state
        /\ OriginName' = OriginName /\ OriginEndpoint' = OriginEndpoint
        /\ timer_pending' => timer_pending
        /\ origin_server_socket' = "open" => origin_server_socket = "open"
        /\ Settles("connect")
    BY <1>4 DEF Rests, Stays, Becomes, contents, environment
  <2>2. CASE ops'["connect"] = ops["connect"]
    BY <2>1, <2>2, SameConnection DEF CurrentOrigin
  <2>3. CASE ops["connect"] # ops'["connect"]
    <3>1. state = "connect_to_origin_server"
      BY <1>2, <2>1, <2>3 DEF Settles
    <3>2. ops'["connect"] = "error" \/ ~timer_pending'
      BY <2>1, <2>3 DEF Settles
    <3> QED
      BY <2>1, <3>1, <3>2 DEF CurrentOrigin, OriginConnected
  <2> QED
    BY <2>2, <2>3
<1>5. CASE Arrives
  <2>1. UNCHANGED <<timer_pending, origin_server_socket, endpoint_iterator>>
        /\ state' = state /\ OriginName' = OriginName /\ OriginEndpoint' = OriginEndpoint
    BY <1>1, <1>5, ArrivalsLeave DEF Stays, Becomes
  <2>2. CASE EndpointConnected
    <3>1. state = "connect_to_origin_server" /\ endpoint_iterator # <<>>
      BY <2>2, TunnelsGrow DEF RequestInHand
    <3>2. /\ Origin' = origins'[Len(origins')] /\ Len(origins') = Len(origins) + 1
          /\ origins'[Len(origins) + 1].endpoint = Head(endpoint_iterator)
      BY <2>2, OneMore DEF EndpointConnected, DataTypes, Origin, Last
    <3>3. Head(endpoint_iterator) \in ToSet(endpoint_iterator)
      BY <3>1, AddressesTried DEF DataTypes
    <3> QED
      BY <2>1, <3>1, <3>2, <3>3 DEF CurrentOrigin
  <2>3. CASE ~EndpointConnected
    <3>1. ops'["connect"] = ops["connect"]
      BY <1>1, <1>5, <2>3, ArrivalsLeave
    <3>2. Len(origins') = Len(origins) /\ DOMAIN origins' = DOMAIN origins
      BY <2>3, OriginsGrow
    <3>3. origins' # <<>> => origins # <<>>
      BY <3>2
    <3>4. OriginConnected' => OriginConnected
      BY <2>1, <3>1, <3>3 DEF OriginConnected
    <3>5. OriginConnected => Origin'.endpoint = Origin.endpoint
      <4>1. SUFFICES ASSUME origins # <<>> PROVE Origin'.endpoint = Origin.endpoint
        BY DEF OriginConnected
      <4>2. Len(origins) \in DOMAIN origins
        BY <4>1, OriginType, LenProperties DEF DataTypes
      <4>3. origins'[Len(origins)].endpoint = origins[Len(origins)].endpoint
        BY <4>2, OriginsGrow DEF MayBecome
      <4> QED
        BY <3>2, <4>3 DEF Origin, Last
    <3> QED
      BY <2>1, <3>4, <3>5 DEF CurrentOrigin
  <2> QED
    BY <2>2, <2>3
<1>6. CASE TriesEndpoint
  <2>1. /\ Ran("resolve", "ok", {"connect"}) \/ Ran("connect", "error", {"connect"})
        /\ Becomes("connect_to_origin_server", Recovers, OriginName, Head(endpoint_iterator'))
    BY <1>6 DEF TriesEndpoint
  <2>2. ops'["connect"] = "pending"
    BY <1>1, <2>1 DEF Ran
  <2>3. ToSet(endpoint_iterator') \subseteq AddressesOf(OriginName)
    <3>1. CASE endpoint_iterator' \in Resolutions[OriginName]
      BY <3>1, AddressesTried
    <3>2. CASE state = "connect_to_origin_server" /\ Len(endpoint_iterator) > 1
               /\ endpoint_iterator' = Tail(endpoint_iterator)
      <4>1. ToSet(Tail(endpoint_iterator)) \subseteq ToSet(endpoint_iterator)
        BY <3>2, AddressesTried DEF DataTypes
      <4> QED
        BY <3>2, <4>1, Zenon DEF CurrentOrigin
    <3> QED
      BY <1>6, <3>1, <3>2 DEF TriesEndpoint
  <2> QED
    BY <2>1, <2>2, <2>3 DEF Becomes, OriginConnected
<1>7. CASE Reconnecting
  BY <1>7 DEF Reconnecting, Resolves, Becomes, OriginConnected
<1>8. CASE ResolvedToKept
  <2>1. /\ Ran("resolve", "ok", {"write_origin"}) \/ Ran("resolve", "ok", {"write_client"})
        /\ OriginName' = OriginName /\ OriginEndpoint' = OriginEndpoint
        /\ state' \in {"write_http_request_header", "report_connection_established"}
        /\ state = "resolve_origin_server_address" /\ origin_server_socket = "open"
    BY <1>8 DEF ResolvedToKept, SendsRequest, OpensTunnel, Becomes
  <2>2. ops'["connect"] = ops["connect"] /\ UNCHANGED origins
    BY <1>1, <2>1, RanLeaves DEF Ran, environment
  <2>3. OriginConnected' => OriginConnected /\ Origin' = Origin
    BY <2>1, <2>2, SameConnection
  <2>4. OriginEndpoint \in AddressesOf(OriginName)
    <3>1. PICK endpoints \in Resolutions[OriginName] : Contains(endpoints, OriginEndpoint)
      BY <1>8 DEF ResolvedToKept
    <3>2. Served.host = OriginName /\ request_header \in Made
      BY <2>1 DEF RequestInHand, Serving, Finding
    <3>3. OriginName \in Hosts
      BY <3>2, RequestType DEF Served, DataTypes
    <3>4. endpoints \in Seq(Endpoints)
      BY <3>1, <3>3, HostsAssumption
    <3> QED
      BY <3>1, <3>4, AddressesTried
  <2> QED
    BY <2>1, <2>3, <2>4 DEF CurrentOrigin
<1>9. CASE ConnectedTo
  <2>1. /\ timer_pending /\ ops["connect"] = "ok" /\ UNCHANGED <<origins, origin_server_socket>>
        /\ OriginName' = OriginName /\ OriginEndpoint' = OriginEndpoint
        /\ state' \in {"write_http_request_header", "report_connection_established"}
        /\ state = "connect_to_origin_server"
    BY <1>9 DEF ConnectedTo, SendsRequest, OpensTunnel, Becomes, Ran, environment
  <2>2. OriginConnected' => OriginConnected /\ Origin' = Origin
    BY <2>1 DEF OriginConnected, Origin
  <2> QED
    BY <2>1, <2>2 DEF CurrentOrigin
<1>10. CASE NotConnected
  <2>1. CASE origin_server_socket' = "closed"
    BY <1>10, <2>1 DEF OriginConnected, NotConnected, ReportsError, Turns, Becomes
  <2>2. CASE state = "resolve_origin_server_address" /\ ReportsError("resolve", "error")
             /\ UNCHANGED origin_server_socket
    <3>1. Ran("resolve", "error", {"write_client"}) /\ Turns("report_error")
      BY <2>2 DEF ReportsError
    <3>2. ops'["connect"] = ops["connect"] /\ UNCHANGED origins
      BY <1>1, <3>1, RanLeaves DEF Ran, environment
    <3>3. OriginConnected' => OriginConnected /\ Origin' = Origin
      BY <2>2, <3>2, SameConnection
    <3> QED
      BY <2>2, <3>1, <3>3 DEF CurrentOrigin, Turns, Becomes
  <2> QED
    BY <1>10, <2>1, <2>2 DEF NotConnected
<1>11. CASE TakenOnKept \/ TakenAnew
  <2>1. /\ Ran("read_client", "ok", {"write_origin"}) \/ Ran("read_client", "ok", {"resolve"})
        /\ OriginEndpoint' = OriginEndpoint
        /\ \/ state' = "resolve_origin_server_address"
           \/ state' = "write_http_request_header" /\ OriginName' = OriginName
        /\ state = "read_http_request_header"
        /\ origin_server_socket' = "open" => origin_server_socket = "open"
    BY <1>11 DEF TakenOnKept, TakenAnew, RequestTaken, SendsRequest, Resolves, Becomes
  <2>2. ops'["connect"] = ops["connect"] /\ UNCHANGED origins
    BY <1>1, <2>1, RanLeaves DEF Ran, environment
  <2>3. OriginConnected' => OriginConnected /\ Origin' = Origin
    BY <2>1, <2>2, SameConnection
  <2> QED
    BY <2>1, <2>3 DEF CurrentOrigin
<1>12. CASE \/ Begun \/ RequestGrows \/ PassesContent \/ PassesUp \/ OriginTook \/ ResponseGrows
            \/ RelaysHeader \/ RelaysContent \/ PassesDown \/ AwaitsContent \/ AwaitsRequest
            \/ StartsTunnel
  <2>1. /\ \E o \in {"read_client", "write_client", "read_origin", "write_origin"} : \E result :
             \/ \E next \in {{"read_client"}, {"write_client"}, {"read_origin"}, {"write_origin"},
                             {"read_client", "read_origin"}} : Ran(o, result, next)
             \/ RanOut(o, result)
             \/ ops' = [ops EXCEPT !["read_client"] = "pending"] /\ UNCHANGED environment
    BY <1>12 DEF Begun, RequestGrows, PassesContent, PassesUp, OriginTook, ResponseGrows,
       RelaysHeader, RelaysContent, PassesDown, AwaitsContent, AwaitsRequest, StartsTunnel,
       ReportsError
  <2>2. ops'["connect"] = ops["connect"] /\ UNCHANGED origins
    BY <1>1, <2>1, RanLeaves DEF Ran, RanOut, environment, ControlTypeOK
  <2>3. origin_server_socket' = "open" => origin_server_socket = "open"
    BY <1>12 DEF Begun, RequestGrows, PassesContent, PassesUp, OriginTook, ResponseGrows,
       RelaysHeader, RelaysContent, PassesDown, AwaitsContent, AwaitsRequest, StartsTunnel
  <2>4. OriginName' = OriginName /\ OriginEndpoint' = OriginEndpoint
    BY <1>12 DEF Begun, RequestGrows, PassesContent, PassesUp, OriginTook, ResponseGrows,
       RelaysHeader, RelaysContent, PassesDown, AwaitsContent, AwaitsRequest, StartsTunnel,
       ReportsError, Stays, Turns, Becomes
  <2>5. /\ state \notin {"connect_to_origin_server", "resolve_origin_server_address",
                         "report_error"}
        /\ state' # "connect_to_origin_server"
    BY <1>12 DEF Begun, RequestGrows, PassesContent, PassesUp, OriginTook, ResponseGrows,
       RelaysHeader, RelaysContent, PassesDown, AwaitsContent, AwaitsRequest, StartsTunnel,
       ReportsError, Stays, Turns, Becomes, Writing
  <2>6. OriginConnected' => OriginConnected /\ Origin' = Origin
    BY <2>2, <2>3, SameConnection
  <2> QED
    BY <2>4, <2>5, <2>6 DEF CurrentOrigin
<1> QED
  BY <1>4, <1>5, <1>6, <1>7, <1>8, <1>9, <1>10, <1>11, <1>12 DEF DataNext

-----------------------------------------------------------------------------
(* The theorems. *)

DataInvariant ==
  /\ OnlyItsOperations
  /\ DataTypes
  /\ RequestInHand
  /\ TunnelIsLast
  /\ ReplyData
  /\ SocketFits
  /\ CurrentOrigin

\* A connection just constructed has no data and no request.
LEMMA InitialData ==
  ASSUME Init
  PROVE  DataInvariant
<1>1. connection_context =
        [connection_state |-> "read_cipher_data", reconnect_on_error |-> FALSE,
         origin_server_name |-> NoHost, origin_server_endpoint |-> NoEndpoint]
  BY DEF Init
<1>2. state = "read_cipher_data" /\ connection_context \in ContextRecord
  BY <1>1 DEF state, ContextRecord, ConnectionState
<1>3. OnlyItsOperations
  BY DEF Init, OnlyItsOperations, Outstanding
<1>4. /\ request_data = <<>> /\ upgoing_buffer = <<>> /\ response_data = <<>>
      /\ downgoing_buffer = <<>> /\ to_origin = <<>> /\ to_client = <<>>
      /\ endpoint_iterator = <<>> /\ request_header = 0 /\ origins = <<>> /\ replies = <<>>
      /\ client = [requests |-> <<>>, stream |-> <<>>, received |-> <<>>,
                   open |-> TRUE, tunnelled |-> 0]
  BY DEF Init
<1>5. \A S : << >> \in Seq(S)
  BY EmptySeq
<1>6. DataTypes
  <2>1. client \in [requests : Seq(Requests), stream : Seq(SentOf(Made)),
                    received : Seq(ToldUnit), open : BOOLEAN, tunnelled : Nat]
    <3>1. \A e : (\A S : e \in Seq(S)) =>
            \A open \in BOOLEAN, n \in Nat :
              [requests |-> e, stream |-> e, received |-> e, open |-> open, tunnelled |-> n]
                \in [requests : Seq(Requests), stream : Seq(SentOf(Made)),
                     received : Seq(ToldUnit), open : BOOLEAN, tunnelled : Nat]
      BY Zenon
    <3>2. TRUE \in BOOLEAN /\ 0 \in Nat
      OBVIOUS
    <3> QED
      BY <1>4, <1>5, <3>1, <3>2, Zenon
  <2>2. read_request_context \in RequestContexts
    BY DEF Init, NoRequestContext, RequestContexts, NoLength
  <2>3. Len(replies) <= Len(client.requests)
    BY <1>4
  <2> QED
    BY <1>2, <1>4, <1>5, <2>1, <2>2, <2>3 DEF DataTypes
<1>7. RequestInHand
  BY <1>2, <1>4 DEF RequestInHand, Serving, Finding, Sending, Responding, Tunnelling
<1>8. TunnelIsLast
  BY <1>4 DEF TunnelIsLast, Tunnels
<1>9. ReplyData
  <2>1. read_response_context \in ResponseContexts
    BY DEF Init, NoResponseContext, ResponseContexts, NoLength, ChunkState
  <2> QED
    BY <1>4, <1>5, <2>1 DEF ReplyData
<1>10. SocketFits /\ CurrentOrigin
  BY <1>2, <1>4 DEF Init, SocketFits, CurrentOrigin, OriginConnected
<1> QED
  BY <1>3, <1>6, <1>7, <1>8, <1>9, <1>10 DEF DataInvariant

\* Every step keeps the data invariant.
LEMMA DataPreserved ==
  ASSUME ControlInvariant, DataInvariant, [Next]_vars
  PROVE  DataInvariant' /\ DataNext
<1>1. DataNext
  BY StepIsDataMove DEF DataInvariant
<1>2. OnlyItsOperations'
  BY StepIsControlMove, OnlyItsOperationsPreserved DEF DataInvariant
<1> QED
  BY <1>1, <1>2, TypesPreserved, RequestInHandPreserved, TunnelIsLastPreserved,
     ReplyDataPreserved, SocketFitsPreserved, CurrentOriginPreserved, Zenon DEF DataInvariant

\* The data invariant holds in every reachable state.
THEOREM DataIsInvariant == Spec => []DataInvariant
<1>1. Init => DataInvariant
  BY InitialData
<1>2. ControlInvariant /\ DataInvariant /\ [Next]_vars => DataInvariant'
  BY DataPreserved
<1> QED
  BY <1>1, <1>2, ControlIsInvariant, PTL DEF Spec

\* The variables have their types: whatever is collected, buffered, written or on
\* its way is a sequence of units, and an optional's index is that of a request.
THEOREM TypeOKHolds == Spec => []TypeOK
<1>1. ControlInvariant /\ DataInvariant => TypeOK
  <2> SUFFICES ASSUME ControlInvariant, DataInvariant PROVE TypeOK
    OBVIOUS
  <2>1. Made \subseteq Nat
    BY DEF Made
  <2>2. /\ SentOf(Made) \subseteq Unit /\ ToldUnit \subseteq Unit
        /\ PassedOf(Made) \subseteq Unit
    <3>1. SentPart \subseteq Part /\ {"error"} \subseteq Part
      BY DEF SentPart, Part, ContentPart
    <3>2. PassedOf(Made) \subseteq Unit /\ SentOf(Made) \subseteq Unit
      BY <2>1, <3>1 DEF PassedOf, SentOf, Unit
    <3>3. [of : {0}, part : {"error"}, n : Nat] \subseteq Unit
      BY <3>1 DEF Unit
    <3> QED
      BY <3>2, <3>3 DEF ToldUnit
  <2>3. /\ \A s \in Seq(SentOf(Made)) : s \in Seq(Unit)
        /\ \A s \in Seq(ToldUnit) : s \in Seq(Unit)
        /\ \A s \in Seq(PassedOf(Made)) : s \in Seq(Unit)
    BY <2>2, SeqMonotonic, Zenon
  <2>4. ServerOf(Made) \subseteq OriginRecord
    BY <2>1, <2>3 DEF ServerOf, OriginRecord
  <2>5. origins \in Seq(OriginRecord)
    BY <2>4, SeqMonotonic DEF DataInvariant, DataTypes
  <2>6. client \in ClientRecord
    BY <2>3 DEF DataInvariant, DataTypes, ClientRecord
  <2> QED
    BY <2>1, <2>3, <2>5, <2>6
    DEF DataInvariant, DataTypes, ReplyData, ContextRecord, TypeOK, ControlInvariant,
        ControlTypeOK, Sockets
<1> QED
  BY <1>1, ControlIsInvariant, DataIsInvariant, PTL

\* While a request body is in transfer its length is known.
THEOREM RequestLengthKnownHolds == Spec => []RequestLengthKnown
<1>1. DataInvariant => RequestLengthKnown
  <2> SUFFICES ASSUME DataInvariant, state \in Sending
               PROVE  read_request_context.content_length # NoLength
    BY DEF RequestLengthKnown, Sending
  <2>1. /\ request_header \in Made
        /\ read_request_context.content_length = IF HasContent(Served) THEN Served.length ELSE 0
    BY DEF DataInvariant, RequestInHand, Serving
  <2>2. Served.length \in Nat
    BY <2>1, RequestType DEF Served, DataInvariant, DataTypes
  <2> QED
    BY <2>1, <2>2 DEF NoLength
<1> QED
  BY <1>1, DataIsInvariant, PTL

\* A write to an origin's socket that is closed is one the connection recovers from.
THEOREM ClosedWriteRecoversHolds == Spec => []ClosedWriteRecovers
<1>1. ControlInvariant /\ DataInvariant => ClosedWriteRecovers
  <2> SUFFICES ASSUME ControlInvariant, DataInvariant, timer_pending,
                      ops["write_origin"] # "idle", origin_server_socket = "closed"
               PROVE  Reconnects
    BY DEF ClosedWriteRecovers
  <2>1. "write_origin" \in Operation /\ "write_origin" \in Outstanding
    BY OutstandingMeans DEF Operation
  <2>2. state \in Sending \cup Tunnelling
    BY <2>1, StatesOfOutstanding
    DEF DataInvariant, ControlInvariant, Writing, Sending, Tunnelling
  <2> QED
    BY <2>2 DEF DataInvariant, SocketFits
<1> QED
  BY <1>1, ControlIsInvariant, DataIsInvariant, PTL

\* The origin remembered is the one the open socket is connected to.
THEOREM RememberedOriginIsCurrentHolds == Spec => []RememberedOriginIsCurrent
<1>1. DataInvariant => RememberedOriginIsCurrent
  BY DEF DataInvariant, CurrentOrigin, RememberedOriginIsCurrent, OriginName, OriginEndpoint
<1> QED
  BY <1>1, DataIsInvariant, PTL
=============================================================================
