--------------------------- MODULE ClientConnection ---------------------------
(***************************************************************************)
(* One http_proxy_client_connection: the object of ahpc that relays what a *)
(* user agent and the proxy server send each other, and the environment it *)
(* runs in: kernel, resolver, timer service, and the two peers.            *)
(*                                                                         *)
(* As in ServerConnection an asynchronous operation is started ("pending"),*)
(* completed by the kernel ("ok" or "error"), and ended by its handler,    *)
(* one action on the strand.  One handler is outside the strand: that of   *)
(* the resolver may overlap with on_timeout, and is two actions.           *)
(*                                                                         *)
(* The two directions run the same code, so a direction is named by the    *)
(* peer whose data flow in it, and one action stands for both.             *)
(***************************************************************************)
EXTENDS Naturals, SequencesExt

CONSTANTS
  BufferLength,  \* BUFFER_LENGTH, in units of data
  MaxUnits,      \* bound: units each peer sends
  Faults         \* what may go wrong outside the proxy

AllFaults == {"timeout", "resolve", "connect", "close"}

ASSUME ClientAssumption ==
  /\ BufferLength \in Nat \ {0}
  /\ MaxUnits \in Nat
  /\ Faults \subseteq AllFaults

Peer == {"user_agent", "proxy_server"}
Other(p) == IF p = "user_agent" THEN "proxy_server" ELSE "user_agent"

Read(p) == <<"read", p>>
Write(p) == <<"write", p>>
Resolve == <<"resolve", "proxy_server">>
Connect == <<"connect", "proxy_server">>
Operation == {Read(p) : p \in Peer} \cup {Write(p) : p \in Peer} \cup {Resolve, Connect}

VARIABLES
  connection_state,
  socket,         \* user_agent_socket and proxy_server_socket: "open" or "closed"
  ops,            \* what became of each asynchronous operation
  connecting,     \* the resolver's handler has yet to call async_connect
  timer_pending,  \* a wait is in the timer's queue: cancel() would return 1
  timeout_due,    \* the wait has expired and on_timeout is queued
  aborted,        \* the assertion in set_timer has ended the process
  read_buffer,    \* for each direction: what a completed read left there,
  write_buffer,   \* what the write in flight was given,
  transferred,    \* how much of it the last completed write took,
  counted_in,     \* the units counted by on_upgoing_recv or on_downgoing_recv,
  counted_out,    \* and those counted by on_upgoing_send or on_downgoing_send
  peers           \* the environment: units said, stream: said and not read by the
                  \* proxy, heard: what reached it, open: it has not closed its end

buffers == <<read_buffer, write_buffer, transferred>>
stat == <<counted_in, counted_out>>
vars == <<connection_state, socket, ops, connecting, timer_pending, timeout_due, aborted,
          buffers, stat, peers>>

Units == 1 .. MaxUnits

TypeOK ==
  /\ connection_state \in {"ready", "resolve_proxy_server_address",
                           "connecte_to_proxy_server"}
  /\ socket \in [Peer -> {"open", "closed"}]
  /\ ops \in [Operation -> {"idle", "pending", "ok", "error"}]
  /\ {connecting, timer_pending, timeout_due, aborted} \subseteq BOOLEAN
  /\ read_buffer \in [Peer -> Seq(Units)]
  /\ write_buffer \in [Peer -> Seq(Units)]
  /\ \A p \in Peer : {Len(read_buffer[p]), Len(write_buffer[p])} \subseteq 0 .. BufferLength
  /\ transferred \in [Peer -> 0 .. BufferLength]
  /\ counted_in \in [Peer -> Nat]
  /\ counted_out \in [Peer -> Nat]
  /\ peers \in [Peer -> [said : 0 .. MaxUnits, stream : Seq(Units), heard : Seq(Units),
                         open : BOOLEAN]]

\* The accepted connection, constructed and not started.
Init ==
  /\ connection_state = "ready"
  /\ socket = [p \in Peer |-> IF p = "user_agent" THEN "open" ELSE "closed"]
  /\ ops = [o \in Operation |-> "idle"]
  /\ connecting = FALSE
  /\ timer_pending = FALSE
  /\ timeout_due = FALSE
  /\ aborted = FALSE
  /\ read_buffer = [p \in Peer |-> <<>>]
  /\ write_buffer = [p \in Peer |-> <<>>]
  /\ transferred = [p \in Peer |-> 0]
  /\ counted_in = [p \in Peer |-> 0]
  /\ counted_out = [p \in Peer |-> 0]
  /\ peers = [p \in Peer |-> [said |-> 0, stream |-> <<>>, heard |-> <<>>, open |-> TRUE]]

-----------------------------------------------------------------------------
(* Handlers and the timer. *)

\* (Definitions marked "mistaken" are not part of the model: they are plausible
\* slips in the definition that follows them, kept to show that a property
\* notices.)
\* Mistaken: what cancel_timer() returns is ignored.
RunsAnyway(o, result) == ~aborted /\ ops[o] = result

\* The handler of o runs: the cancel_timer() it begins with returns true.
Runs(o, result) ==
  /\ ~aborted
  /\ ops[o] = result
  /\ timer_pending

\* The handler of o returns, having started the operations in "started" and set
\* the timer once for each in "timed": its assertion fails the second time.
Returns(o, started, timed) ==
  /\ ops' = [p \in Operation |-> IF p \in started THEN "pending"
                                 ELSE IF p = o THEN "idle" ELSE ops[p]]
  /\ timer_pending' = (timed # {})
  /\ aborted' = (\E p, q \in timed : p # q)
  /\ UNCHANGED timeout_due

\* A handler whose cancel_timer() returns false does nothing.
LateCompletion(o) ==
  /\ ~aborted
  /\ ops[o] \in {"ok", "error"}
  /\ ~timer_pending
  /\ ops' = [ops EXCEPT ![o] = "idle"]
  /\ UNCHANGED <<connection_state, socket, connecting, timer_pending, timeout_due, aborted,
                 buffers, stat, peers>>

CloseBoth == socket' = [p \in Peer |-> "closed"]

Start ==
  /\ connection_state = "ready"
  /\ connection_state' = "resolve_proxy_server_address"
  /\ Returns(Resolve, {Resolve}, {Resolve})
  /\ UNCHANGED <<socket, connecting, buffers, stat, peers>>

\* The resolver's handler sets the timer for the connection attempt ...
Resolved ==
  /\ Runs(Resolve, "ok")
  /\ connection_state' = "connecte_to_proxy_server"
  /\ Returns(Resolve, {}, {Connect})
  /\ connecting' = TRUE
  /\ UNCHANGED <<socket, buffers, stat, peers>>

\* ... and starts it, on the first endpoint only; on_timeout may run in between.
AsyncConnect ==
  /\ ~aborted
  /\ connecting
  /\ connecting' = FALSE
  /\ socket' = [socket EXCEPT !["proxy_server"] = "open"]
  /\ ops' = [ops EXCEPT ![Connect] = "pending"]
  /\ UNCHANGED <<connection_state, timer_pending, timeout_due, aborted, buffers, stat, peers>>

\* Mistaken: one read is forgotten.
OneReadForgotten == {Read("user_agent")}

\* on_connection_established starts a read for each direction ...
RelayReads == {Read(p) : p \in Peer}

\* Mistaken: both reads set the timer, or none does.
BothReadsTimed == RelayReads
NoReadTimed == {}

\* ... of which only one may set the timer.
TimedReads == {Read("user_agent")}

Connected ==
  /\ Runs(Connect, "ok")
  /\ Returns(Connect, RelayReads, TimedReads)
  /\ UNCHANGED <<connection_state, socket, connecting, buffers, stat, peers>>

\* Data of p have arrived and are written to the other peer.
DataArrived(p) ==
  /\ Runs(Read(p), "ok")
  /\ counted_in' = [counted_in EXCEPT ![p] = @ + Len(read_buffer[p])]
  /\ write_buffer' = [write_buffer EXCEPT ![p] = read_buffer[p]]
  /\ read_buffer' = [read_buffer EXCEPT ![p] = <<>>]
  /\ Returns(Read(p), {Write(Other(p))}, {Write(Other(p))})
  /\ UNCHANGED <<connection_state, socket, connecting, transferred, counted_out, peers>>

\* Mistaken: a short write starts again at the beginning of the buffer, or is
\* taken for a whole one.
FromTheBeginning(buffer, n) == buffer
NothingLeft(buffer, n) == <<>>

\* What is left to write: from offset + bytes_transferred on.
Rest(buffer, n) == SubSeq(buffer, n + 1, Len(buffer))

\* Data of p have been written to the other peer: the rest, or the next read.
DataWritten(p) ==
  LET next == IF transferred[p] < Len(write_buffer[p]) THEN Write(Other(p)) ELSE Read(p)
  IN  /\ Runs(Write(Other(p)), "ok")
      /\ counted_out' = [counted_out EXCEPT ![p] = @ + transferred[p]]
      /\ write_buffer' = [write_buffer EXCEPT ![p] = Rest(@, transferred[p])]
      /\ transferred' = [transferred EXCEPT ![p] = 0]
      /\ Returns(Write(Other(p)), {next}, {next})
      /\ UNCHANGED <<connection_state, socket, connecting, read_buffer, counted_in, peers>>

\* on_error: whatever failed, the connection ends.
OnError(o) ==
  /\ Runs(o, "error")
  /\ Returns(o, {}, {})
  /\ CloseBoth
  /\ UNCHANGED <<connection_state, connecting, buffers, stat, peers>>

\* While the name is being resolved on_timeout cancels the resolver and leaves
\* the user agent's socket to the destructor; later it closes both sockets.
OnTimeout ==
  /\ ~aborted
  /\ timeout_due
  /\ timeout_due' = FALSE
  /\ IF connection_state = "resolve_proxy_server_address" THEN UNCHANGED socket
     ELSE CloseBoth
  /\ UNCHANGED <<connection_state, ops, connecting, timer_pending, aborted, buffers, stat,
                 peers>>

\* The last shared_ptr to the connection is gone: no handler holds it.
Gone ==
  /\ connection_state # "ready"
  /\ \A o \in Operation : ops[o] = "idle"
  /\ ~connecting /\ ~timer_pending /\ ~timeout_due

Destroy ==
  /\ ~aborted
  /\ Gone
  /\ \E p \in Peer : socket[p] = "open"
  /\ CloseBoth
  /\ UNCHANGED <<connection_state, ops, connecting, timer_pending, timeout_due, aborted,
                 buffers, stat, peers>>

Handler ==
  \/ Resolved
  \/ AsyncConnect
  \/ Connected
  \/ \E p \in Peer : DataArrived(p) \/ DataWritten(p)
  \/ \E o \in Operation : OnError(o) \/ LateCompletion(o)
  \/ OnTimeout

-----------------------------------------------------------------------------
(* The environment. *)

Completes(o, result) ==
  /\ ~aborted
  /\ ops[o] = "pending"
  /\ ops' = [ops EXCEPT ![o] = result]
  /\ UNCHANGED <<connection_state, connecting, timer_pending, timeout_due, aborted, socket,
                 stat>>

\* Mistaken: the size of the buffer is one too large.
OnePastTheEnd == BufferLength + 1

\* The size of the buffer a read may fill.
ReadSize == BufferLength

ReadSome(p) ==
  /\ socket[p] = "open"
  /\ \E n \in 1 .. Len(peers[p].stream) :
       /\ n <= ReadSize
       /\ read_buffer' = [read_buffer EXCEPT ![p] = SubSeq(peers[p].stream, 1, n)]
       /\ peers' = [peers EXCEPT ![p].stream = SubSeq(@, n + 1, Len(@))]
  /\ Completes(Read(p), "ok")
  /\ UNCHANGED <<write_buffer, transferred>>

\* A write takes some of the buffer; for a peer that has gone that is lost.
WriteSome(p) ==
  LET q == Other(p)
  IN  /\ socket[q] = "open"
      /\ \E n \in 1 .. Len(write_buffer[p]) :
           /\ transferred' = [transferred EXCEPT ![p] = n]
           /\ peers' = IF peers[q].open
                       THEN [peers EXCEPT ![q].heard = @ \o SubSeq(write_buffer[p], 1, n)]
                       ELSE peers
      /\ Completes(Write(q), "ok")
      /\ UNCHANGED <<read_buffer, write_buffer>>

NameResolved ==
  /\ Completes(Resolve, "ok")
  /\ UNCHANGED <<buffers, peers>>

EndpointConnected ==
  /\ socket["proxy_server"] = "open"
  /\ Completes(Connect, "ok")
  /\ UNCHANGED <<buffers, peers>>

\* Closing a socket fails its operations; a read fails at the end of the stream;
\* resolving fails when on_timeout has cancelled it.
CanFail(o) ==
  \/ /\ o = Resolve
     /\ "resolve" \in Faults \/ ~(timer_pending \/ timeout_due)
  \/ /\ o = Connect
     /\ "connect" \in Faults \/ socket["proxy_server"] = "closed"
  \/ \E p \in Peer :
       \/ o = Read(p) /\ ~peers[p].open /\ peers[p].stream = <<>>
       \/ o = Write(p) /\ ~peers[p].open
       \/ o \in {Read(p), Write(p)} /\ socket[p] = "closed"

OperationFails(o) ==
  /\ Completes(o, "error")
  /\ CanFail(o)
  /\ UNCHANGED <<buffers, peers>>

TimerExpires ==
  /\ "timeout" \in Faults
  /\ ~aborted
  /\ timer_pending
  /\ timer_pending' = FALSE
  /\ timeout_due' = TRUE
  /\ UNCHANGED <<connection_state, socket, ops, connecting, aborted, buffers, stat, peers>>

\* The peer is connected to the proxy and has not closed its end.
Talks(p) ==
  /\ ~aborted
  /\ socket[p] = "open"
  /\ p = "proxy_server" => ~connecting /\ ops[Connect] \notin {"pending", "error"}
  /\ peers[p].open

Says(p) ==
  /\ Talks(p)
  /\ peers[p].said < MaxUnits
  /\ peers' = [peers EXCEPT ![p].said = @ + 1,
                            ![p].stream = Append(@, peers[p].said + 1)]
  /\ UNCHANGED <<connection_state, socket, ops, connecting, timer_pending, timeout_due,
                 aborted, buffers, stat>>

Closes(p) ==
  /\ "close" \in Faults
  /\ Talks(p)
  /\ peers' = [peers EXCEPT ![p].open = FALSE]
  /\ UNCHANGED <<connection_state, socket, ops, connecting, timer_pending, timeout_due,
                 aborted, buffers, stat>>

Kernel ==
  \/ \E p \in Peer : ReadSome(p) \/ WriteSome(p)
  \/ NameResolved
  \/ EndpointConnected
  \/ \E o \in Operation : OperationFails(o)

Ended == aborted \/ (Gone /\ \A p \in Peer : socket[p] = "closed")

Terminated == Ended /\ UNCHANGED vars

Next ==
  \/ Start
  \/ Handler
  \/ Destroy
  \/ TimerExpires
  \/ Kernel
  \/ \E p \in Peer : Says(p) \/ Closes(p)
  \/ Terminated

Spec == Init /\ [][Next]_vars

\* Worker threads run what is queued, the timer expires, the kernel and the
\* resolver complete what they can.  Nothing is assumed of the peers.
Fairness ==
  /\ WF_vars(Start)
  /\ WF_vars(Handler)
  /\ WF_vars(Destroy)
  /\ WF_vars(TimerExpires)
  /\ WF_vars(Kernel)

LiveSpec == Spec /\ Fairness
-----------------------------------------------------------------------------
(* Properties: operations and the timer. *)

\* The operations somebody will complete or is about to start.
Outstanding ==
  {o \in Operation : ops[o] # "idle"} \cup (IF connecting THEN {Connect} ELSE {})

\* The assertion in set_timer never fails, although the two directions share
\* the timer: it is never set while a wait, or on_timeout, is queued.
TimerDiscipline == ~aborted /\ ~(timer_pending /\ timeout_due)

\* As long as the connection is watched, one operation is outstanding before it
\* relays, and exactly one for each direction when it does: no handler starts a
\* second one or forgets the next, and none has both directions' turns.
OperationsFitState ==
  timer_pending =>
    IF connection_state = "resolve_proxy_server_address" THEN Outstanding = {Resolve}
    ELSE \/ Outstanding = {Connect}
         \/ \E up \in {Read("user_agent"), Write("proxy_server")},
              down \in {Read("proxy_server"), Write("user_agent")} :
              Outstanding = {up, down}

\* What can wait with an open socket and no timer: a resolver that has been
\* cancelled, and the connection attempt of a resolver's handler that on_timeout
\* has overtaken.  In both cases the user agent is not relayed any more.
OpenIsWatched ==
  ~timer_pending /\ ~timeout_due /\ connection_state # "ready" =>
    /\ socket["user_agent"] = "open" => Outstanding \in {{}, {Resolve}}
    /\ socket["proxy_server"] = "open" => Outstanding \in {{}, {Connect}}

\* Once the timeout is due or the user agent's socket is closed, nothing is
\* started any more but the connection attempt already under way, and the user
\* agent's socket stays closed.
CloseIsFinal ==
  [][ socket["user_agent"] = "closed" \/ timeout_due =>
        /\ Outstanding' \subseteq Outstanding
        /\ socket'["user_agent"] = "open" => socket["user_agent"] = "open" ]_vars

\* The connection implements the abstract watchdog: on_timeout between the two
\* halves of the resolver's handler is the only thing that may intervene, and it
\* counts as an expiry with the connection attempt outstanding.
Abstract == INSTANCE Watchdog WITH
  phase <- IF timer_pending THEN "watched"
           ELSE IF timeout_due THEN "due"
           ELSE IF connection_state = "ready" THEN "new" ELSE "over",
  outstanding <- Outstanding

ImplementsWatchdog == Abstract!Safety

\* Whatever the peers do or fail to do, the connection and its sockets are
\* released in the end.
EventuallyReleased == <>[]Ended

-----------------------------------------------------------------------------
(* Properties: the data. *)

Said(p) == [i \in 1 .. peers[p].said |-> i]

\* What the proxy holds of the data of p.
Held(p) == Rest(write_buffer[p], transferred[p]) \o read_buffer[p]

\* Each peer hears what the other says, in order, nothing missing, nothing
\* twice; while it is there to hear it, what it has not heard is in the proxy's
\* buffers or unread.
RelayFaithful ==
  \A p \in Peer :
    LET heard == peers[Other(p)].heard
    IN  /\ IsPrefix(heard, Said(p))
        /\ peers[Other(p)].open => heard \o Held(p) \o peers[p].stream = Said(p)

\* The statistics of a direction agree: while the connection runs, what has been
\* counted as received and not as sent is in the write in flight.
CountsAgree ==
  timer_pending =>
    \A p \in Peer : counted_in[p] = counted_out[p] + Len(write_buffer[p])

\* With nothing failing outside the proxy, each peer hears all the other says.
EverythingRelayed ==
  \A p \in Peer : \A n \in Units :
    peers[p].said >= n ~> Len(peers[Other(p)].heard) >= n
=============================================================================
