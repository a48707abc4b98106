----------------------- MODULE ServerConnectionSystem -----------------------
(***************************************************************************)
(* A server connection among the things it talks to: the kernel, which     *)
(* completes its operations, the client, the origin servers, the resolver  *)
(* and the timer service.  They are the environment: what the code asks of *)
(* them, with every outcome that Faults allows.  The properties of the     *)
(* connection are stated here, most of them on what the two ends get.      *)
(***************************************************************************)
EXTENDS ServerConnection

-----------------------------------------------------------------------------
(* The environment: kernel and network. *)

Origin == Last(origins)
OriginIs(record) == origins' = [origins EXCEPT ![Len(origins)] = record]

\* The connection to the last origin server is established.
OriginConnected ==
  /\ origins # <<>>
  /\ origin_server_socket = "open"
  /\ ops["connect"] \notin {"pending", "error"}

Completes(o, result) ==
  /\ aborted = "no"
  /\ ops[o] = "pending"
  /\ ops' = [ops EXCEPT ![o] = result]
  /\ UNCHANGED <<connection_context, timer_pending, timeout_due, aborted, sockets, request,
                 response, endpoint_iterator>>

\* A read returns what has arrived, up to the size of the buffer.
ClientDataRead ==
  /\ proxy_client_socket = "open"
  /\ \E n \in 1 .. Len(client.stream) :
       /\ n <= BufferLength
       /\ upgoing_buffer' = SubSeq(client.stream, 1, n)
       /\ client' = [client EXCEPT !.stream = SubSeq(@, n + 1, Len(@))]
  /\ Completes("read_client", "ok")
  /\ UNCHANGED <<downgoing_buffer, writes, origins, replies>>

OriginDataRead ==
  /\ OriginConnected
  /\ \E n \in 1 .. Len(Origin.stream) :
       /\ n <= BufferLength
       /\ downgoing_buffer' = SubSeq(Origin.stream, 1, n)
       /\ OriginIs([Origin EXCEPT !.stream = SubSeq(@, n + 1, Len(@))])
  /\ Completes("read_origin", "ok")
  /\ UNCHANGED <<upgoing_buffer, writes, client, replies>>

\* A write takes some of the buffer.  Towards a peer that has gone it may fail
\* or succeed; what it took is lost then.
ClientDataWrite ==
  /\ proxy_client_socket = "open"
  /\ \E n \in 1 .. Len(to_client) :
       /\ to_client' = SubSeq(to_client, n + 1, Len(to_client))
       /\ client' = IF client.open
                    THEN [client EXCEPT !.received = @ \o SubSeq(to_client, 1, n)]
                    ELSE client
  /\ Completes("write_client", "ok")
  /\ UNCHANGED <<buffers, to_origin, origins, replies>>

OriginDataWrite ==
  /\ OriginConnected
  /\ \E n \in 1 .. Len(to_origin) :
       /\ to_origin' = SubSeq(to_origin, n + 1, Len(to_origin))
       /\ OriginIs(IF Origin.open
                   THEN [Origin EXCEPT !.received = @ \o SubSeq(to_origin, 1, n)]
                   ELSE Origin)
  /\ Completes("write_origin", "ok")
  /\ UNCHANGED <<buffers, to_client, client, replies>>

NameResolved ==
  /\ Completes("resolve", "ok")
  /\ Resolutions[connection_context.origin_server_name] # {}
  /\ UNCHANGED <<buffers, writes, environment>>

EndpointConnected ==
  /\ origin_server_socket = "open"
  /\ origins' = Append(origins, [endpoint |-> Head(endpoint_iterator),
                                 request |-> request_header,
                                 stream |-> <<>>, received |-> <<>>, open |-> TRUE,
                                 tunnelled |-> 0])
  /\ Completes("connect", "ok")
  /\ UNCHANGED <<buffers, writes, client, replies>>

\* Closing a socket fails its operations (operation_aborted), whoever closed
\* it; resolving is not an operation of a socket.
CanFail(o) ==
  CASE o = "read_client"  -> \/ proxy_client_socket = "closed"
                             \/ ~client.open /\ client.stream = <<>>
    [] o = "write_client" -> proxy_client_socket = "closed" \/ ~client.open
    [] o = "read_origin"  -> \/ origin_server_socket = "closed"
                             \/ ~Origin.open /\ Origin.stream = <<>>
    [] o = "write_origin" -> origin_server_socket = "closed" \/ ~Origin.open
    [] o = "connect"      -> origin_server_socket = "closed" \/ "connect" \in Faults
    [] o = "resolve"      -> "resolve" \in Faults

OperationFails(o) ==
  /\ Completes(o, "error")
  /\ CanFail(o)
  /\ UNCHANGED <<buffers, writes, environment>>

TimerExpires ==
  /\ "timeout" \in Faults
  /\ aborted = "no"
  /\ timer_pending
  /\ timer_pending' = FALSE
  /\ timeout_due' = TRUE
  /\ UNCHANGED <<ops, aborted, connection_context, sockets, contents, environment>>

-----------------------------------------------------------------------------
(* The environment: the client and the origin servers. *)

proxy == <<connection_context, control, sockets, contents>>

ReplyTo(k) == Reply(k, replies[k], client.requests[k].method)

\* The client has all of the reply to its k-th request.
Answered(k) ==
  /\ k <= Len(replies)
  /\ Contains(client.received, Last(Rewritten(ReplyTo(k))))

ClientLives ==
  /\ aborted = "no"
  /\ proxy_client_socket = "open"
  /\ client.open

\* Its connection stays open after that: it did not ask otherwise, and the reply
\* did not end by closing.
KeptOpen(k) ==
  LET r == client.requests[k]
  IN  /\ RequestKeepAlive(r)
      /\ NoContent(replies[k], r.method) \/ replies[k].framing # "none"

\* A client sends its next request when it has the reply to the last one.
ClientSends(r) ==
  /\ ClientLives
  /\ LET k == Len(client.requests)
     IN  /\ k < MaxRequests
         /\ k > 0 => Answered(k) /\ KeptOpen(k)
         /\ client' = [client EXCEPT !.requests = Append(@, r),
                                     !.stream = @ \o OnTheWire(k + 1, r)]
  /\ UNCHANGED <<proxy, origins, replies>>

TunnelUnit(k, n) == [of |-> k, part |-> "tunnel", n |-> n]

ClientTunnels ==
  /\ ClientLives
  /\ client.tunnelled < MaxTunnel
  /\ LET k == Len(client.requests)
         n == client.tunnelled + 1
     IN  /\ Contains(client.received, Established(k)[1])
         /\ client' = [client EXCEPT !.tunnelled = n,
                                     !.stream = Append(@, TunnelUnit(k, n))]
  /\ UNCHANGED <<proxy, origins, replies>>

ClientCloses ==
  /\ "client_close" \in Faults
  /\ ClientLives
  /\ client' = [client EXCEPT !.open = FALSE]
  /\ UNCHANGED <<proxy, origins, replies>>

OriginLives ==
  /\ aborted = "no"
  /\ OriginConnected
  /\ Origin.open

Holds(origin, unit) == Contains(origin.received, unit)

\* An origin server may answer a request when it has its header; before it
\* closes, as a reply may say it does, it reads all of the request.
OriginReplies(r) ==
  /\ OriginLives
  /\ LET k == Len(replies) + 1
         whole == Forwarded(k, client.requests[k])
     IN  /\ k <= Len(client.requests)
         /\ Holds(Origin, whole[1])
         /\ ResponseKeepAlive(r) \/ Holds(Origin, Last(whole))
         /\ replies' = Append(replies, r)
         /\ OriginIs([Origin EXCEPT
              !.stream = @ \o Reply(k, r, client.requests[k].method),
              !.open = ResponseKeepAlive(r)])
  /\ UNCHANGED <<proxy, client>>

\* The far end of a tunnel does not speak HTTP, and may speak first.
OriginTunnels ==
  /\ OriginLives
  /\ LET k == Origin.request
         n == Origin.tunnelled + 1
     IN  /\ client.requests[k].method = "CONNECT"
         /\ n <= MaxTunnel
         /\ OriginIs([Origin EXCEPT !.tunnelled = n, !.stream = Append(@, TunnelUnit(k, n))])
  /\ UNCHANGED <<proxy, client, replies>>

OriginCloses ==
  /\ "origin_close" \in Faults
  /\ OriginLives
  /\ OriginIs([Origin EXCEPT !.open = FALSE])
  /\ UNCHANGED <<proxy, client, replies>>

-----------------------------------------------------------------------------

Kernel ==
  \/ ClientDataRead
  \/ OriginDataRead
  \/ ClientDataWrite
  \/ OriginDataWrite
  \/ NameResolved
  \/ EndpointConnected
  \/ \E o \in Operation : OperationFails(o)

Peers ==
  \/ \E r \in Requests : ClientSends(r)
  \/ ClientTunnels
  \/ ClientCloses
  \/ \E r \in Responses : OriginReplies(r)
  \/ OriginTunnels
  \/ OriginCloses

\* Nothing is left to happen: the connection is gone, or the process is.
Ended ==
  \/ aborted # "no"
  \/ Gone /\ {proxy_client_socket, origin_server_socket} = {"closed"}

Terminated == Ended /\ UNCHANGED vars

Next ==
  \/ Start
  \/ Handler
  \/ Destroy
  \/ TimerExpires
  \/ Kernel
  \/ Peers
  \/ Terminated

Spec == Init /\ [][Next]_vars

\* Worker threads run what is queued, the timer of the io_service expires, the
\* kernel and the resolver complete what they can.  Nothing is assumed of the
\* peers.  Traffic being bounded, the timer is set again only finitely often,
\* so a timer that keeps being set again is not forced to expire by this.
Fairness ==
  /\ WF_vars(Start)
  /\ WF_vars(Handler)
  /\ WF_vars(Destroy)
  /\ WF_vars(TimerExpires)
  /\ WF_vars(Kernel)

LiveSpec == Spec /\ Fairness

\* As above, with origin servers that do answer.
ResponsiveSpec == LiveSpec /\ WF_vars(\E r \in Responses : OriginReplies(r))

-----------------------------------------------------------------------------
(* Properties: operations and the timer. *)

Outstanding == {o \in Operation : ops[o] # "idle"}

\* What may be outstanding in a state: one operation, or in the tunnel one for
\* each direction.
OperationsOf(s) ==
  CASE s = "read_cipher_data" -> {}
    [] s = "resolve_origin_server_address" -> {{"resolve"}}
    [] s = "connect_to_origin_server" -> {{"connect"}}
    [] s \in {"read_http_request_header", "read_http_request_content"} -> {{"read_client"}}
    [] s \in {"write_http_request_header", "write_http_request_content"} -> {{"write_origin"}}
    [] s \in {"read_http_response_header", "read_http_response_content"} -> {{"read_origin"}}
    [] s \in {"write_http_response_header", "write_http_response_content",
              "report_connection_established", "report_error"} -> {{"write_client"}}
    [] s = "tunnel_transfer" ->
         {{"read_client", "read_origin"}, {"read_client", "write_client"},
          {"write_origin", "read_origin"}, {"write_origin", "write_client"}}

\* The assertion in set_timer never fails, although two chains of operations
\* share the timer in the tunnel: a timer is never set while a wait is queued,
\* nor while on_timeout is.
TimerDiscipline ==
  /\ aborted # "set_timer"
  /\ ~(timer_pending /\ timeout_due)

\* As long as the connection is watched, exactly the operations its state calls
\* for are outstanding: no handler starts a second one or forgets the next.
OperationsFitState == timer_pending => Outstanding \in OperationsOf(state)

\* Nothing waits unwatched: while an operation of a connection with an open
\* socket is outstanding, the timer runs or on_timeout is queued.
EverythingWatched ==
  Outstanding # {} /\ "open" \in {proxy_client_socket, origin_server_socket}
    => timer_pending \/ timeout_due

\* Once the client's socket is closed or the timeout is due, no operation is
\* started any more and no socket is opened again, whichever handlers still run.
CloseIsFinal ==
  [][ proxy_client_socket = "closed" \/ timeout_due
        => /\ Outstanding' \subseteq Outstanding
           /\ proxy_client_socket' = "open" => proxy_client_socket = "open"
           /\ origin_server_socket' = "open" => origin_server_socket = "open" ]_vars

\* The connection implements the abstract watchdog.
Abstract == INSTANCE Watchdog WITH
  phase <- IF timer_pending THEN "watched"
           ELSE IF timeout_due THEN "due"
           ELSE IF state = "read_cipher_data" THEN "new" ELSE "over",
  outstanding <- Outstanding

ImplementsWatchdog == Abstract!Safety

\* Whatever the peers do or fail to do, the connection and its sockets are
\* released in the end.
EventuallyReleased == <>[]Ended

-----------------------------------------------------------------------------
(* Properties: what goes to the origin servers. *)

AddressesOf(host) == UNION {ToSet(endpoints) : endpoints \in Resolutions[host]}

\* A kept connection is used only for requests to a host with that address:
\* no unit reaches a server its request was not meant for.
NoMisrouting ==
  \A c \in DOMAIN origins : \A i \in DOMAIN origins[c].received :
    LET k == origins[c].received[i].of
    IN  origins[c].endpoint \in AddressesOf(client.requests[k].host)

\* Reconnecting repeats no request: one that has reached an origin server over
\* one connection, if only in part, is not sent over another.
AtMostOnce ==
  \A c, d \in DOMAIN origins : \A i \in DOMAIN origins[c].received :
    \A j \in DOMAIN origins[d].received :
      origins[c].received[i].of = origins[d].received[j].of => c = d

Concatenated(first, last, message(_)) ==
  FlattenSeq([i \in 1 .. last - first + 1 |-> message(first + i - 1)])

ForwardedRequest(k) ==
  LET r == client.requests[k]
  IN  IF r.method = "CONNECT"
      THEN [n \in 1 .. client.tunnelled |-> TunnelUnit(k, n)]
      ELSE Forwarded(k, r)

\* What an origin server gets is a run of consecutive requests, each whole
\* before the next one begins, in order, nothing missing, nothing twice.
UpstreamFaithful ==
  \A c \in DOMAIN origins : origins[c].received # <<>> =>
    IsPrefix(origins[c].received,
             Concatenated(origins[c].received[1].of, Len(client.requests), ForwardedRequest))

\* The connection remembered is the connection made: reuse decides by the name
\* and the endpoint that belong to the open socket.
RememberedOriginIsCurrent ==
  timer_pending /\ OriginConnected =>
    /\ Origin.endpoint = connection_context.origin_server_endpoint
    /\ state \notin {"resolve_origin_server_address", "report_error"} =>
         Origin.endpoint \in AddressesOf(connection_context.origin_server_name)

\* Each request of a kept client connection proves itself anew: none that lacks
\* valid credentials reaches an origin server or opens a tunnel.
UnauthorizedNeverServed ==
  EnableAuth =>
    \A k \in DOMAIN client.requests : ~client.requests[k].authorized =>
      /\ ~Contains(client.received, Established(k)[1])
      /\ \A c \in DOMAIN origins : \A i \in DOMAIN origins[c].received :
           origins[c].received[i].of # k

\* A request written to a socket on_resolved has closed fails, and that failure
\* is one the connection recovers from.
ClosedWriteRecovers ==
  timer_pending /\ ops["write_origin"] # "idle" /\ origin_server_socket = "closed"
    => Reconnects

\* The length of a request body in transfer is known, so the assertions that
\* otherwise a chunk_checker exists cannot fail.
RequestLengthKnown ==
  state \in {"write_http_request_header", "read_http_request_content",
             "write_http_request_content"}
    => read_request_context.content_length # NoLength

\* No response is awaited before the whole request has been passed on.
ResponseAfterRequest ==
  state \in {"read_http_response_header", "write_http_response_header",
             "read_http_response_content", "write_http_response_content"}
    => \A u \in ToSet(client.stream \o upgoing_buffer \o to_origin) : u.of > request_header

-----------------------------------------------------------------------------
(* Properties: what goes to the client. *)

RelayedReply(k) == Rewritten(ReplyTo(k))

TunnelFromOrigin(k) ==
  Established(k) \o [n \in 1 .. Origin.tunnelled |-> TunnelUnit(k, n)]

IsErrorReply(data) == Len(data) = 1 /\ data[1].part = "error"

\* The client gets the replies to its requests in order, each whole before the
\* next begins; an error page only between replies and as the last thing; and
\* the tunnel's data only after "200 Connection Established", in order.
DownstreamFaithful ==
  \/ IsPrefix(client.received, Concatenated(1, Len(replies), RelayedReply))
  \/ \E m \in 0 .. Len(replies) :
       LET whole == Concatenated(1, m, RelayedReply)
           rest == SubSeq(client.received, Len(whole) + 1, Len(client.received))
       IN  /\ IsPrefix(whole, client.received)
           /\ \/ IsErrorReply(rest)
              \/ m + 1 = Len(client.requests) /\ IsPrefix(rest, TunnelFromOrigin(m + 1))

\* With nothing failing outside the proxy, every request gets its whole reply,
\* an error page, or a tunnel.
EveryRequestAnswered ==
  \A k \in 1 .. MaxRequests :
    Len(client.requests) >= k ~>
      \/ Answered(k)
      \/ \E i \in DOMAIN client.received :
           client.received[i].part \in {"error", "established"}

-----------------------------------------------------------------------------
(* What the assertions say of a body without Content-Length: it has a chunk  *)
(* checker.  The code does not keep to it.                                   *)

\* A chunked upload is checked by its chunk_checker, never by an empty one.
ChunkedUploadHasChecker == aborted # "chunk_checker"
=============================================================================
