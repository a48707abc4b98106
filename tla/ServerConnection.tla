-------------------------- MODULE ServerConnection --------------------------
(***************************************************************************)
(* One http_proxy_server_connection: the object that serves one client of  *)
(* ahps.  This module is the object: its members, and one action for each  *)
(* thing a completion handler does.  ServerConnectionSystem adds the peers *)
(* and the kernel, composes the two and states the properties.             *)
(*                                                                         *)
(* An asynchronous operation goes through three steps.  A handler starts   *)
(* it ("pending"); the kernel completes it ("ok" or "error") and queues    *)
(* its handler on the strand; the handler runs ("idle" again).  The strand *)
(* runs one handler at a time, so a handler is one action; anything may    *)
(* happen between the three steps.  Bytes are units of HttpMessages.       *)
(***************************************************************************)
EXTENDS HttpMessages

CONSTANTS
  Endpoints,     \* addresses of origin servers
  Resolutions,   \* the lists of endpoints the resolver may return for a host
  NoHost, NoEndpoint,
  BufferLength,  \* BUFFER_LENGTH, in units
  MaxHeader,     \* MAX_REQUEST_HEADER_LENGTH, MAX_RESPONSE_HEADER_LENGTH
  Requests,      \* what a client may ask
  Responses,     \* what an origin server may answer
  MaxRequests,   \* bound: requests per client connection
  MaxTunnel,     \* bound: units each end sends through a tunnel
  Faults         \* what may go wrong outside the proxy

AllFaults == {"timeout", "resolve", "connect", "client_close", "origin_close"}

ASSUME HostsAssumption ==
  /\ NoHost \notin Hosts
  /\ NoEndpoint \notin Endpoints
  /\ Resolutions \in [Hosts -> SUBSET (Seq(Endpoints) \ {<<>>})]

ASSUME MessagesAssumption ==
  /\ Requests \subseteq Request
  /\ Responses \subseteq Response

\* A client sends no more content with a request than the request announces.
ASSUME ClientsAssumption ==
  \A r \in Requests : RequestStatus(r) = Accepted /\ r.method # "CONNECT" =>
    Len(r.content) <= IF HasContent(r) THEN r.length ELSE 0

\* It sends nothing through a tunnel before it is told that the tunnel is there.
ASSUME TunnelsAssumption ==
  \A r \in Requests : r.method = "CONNECT" => r.content = <<>>

\* An origin server sends no more content with a response than the response announces.
ASSUME OriginsAssumption ==
  \A r \in Responses :
    /\ r.framing = "length" => Len(r.content) <= r.length
    /\ r.framing = "chunked" =>
         \A i \in DOMAIN r.content : r.content[i] = "last" => i = Len(r.content)

ASSUME BoundsAssumption ==
  /\ BufferLength \in Nat \ {0}
  /\ MaxHeader \in Nat \ {0}
  /\ MaxRequests \in Nat
  /\ MaxTunnel \in Nat
  /\ Faults \subseteq AllFaults

Operation == {"read_client", "write_client", "read_origin", "write_origin",
              "resolve", "connect"}

ConnectionState ==
  {"read_cipher_data", "resolve_origin_server_address", "connect_to_origin_server",
   "tunnel_transfer", "read_http_request_header", "write_http_request_header",
   "read_http_request_content", "write_http_request_content",
   "read_http_response_header", "write_http_response_header",
   "read_http_response_content", "write_http_response_content",
   "report_connection_established", "report_error"}

VARIABLES
  connection_context,     \* state, reconnect_on_error, name and endpoint of the origin
  proxy_client_socket,    \* "open" or "closed"
  origin_server_socket,
  ops,                    \* what became of each asynchronous operation
  timer_pending,          \* a wait is in the timer's queue: cancel() would return 1
  timeout_due,            \* the wait has expired and on_timeout is queued
  aborted,                \* "no", or the assertion that ended the process
  request_data,           \* accumulated request header (and what came with it)
  request_header,         \* index of the parsed request; 0 for an empty optional
  read_request_context,
  response_data,
  read_response_context,
  upgoing_buffer,         \* upgoing_buffer_read: what a completed read left there
  downgoing_buffer,
  to_origin,              \* what the write in flight has not written yet
  to_client,
  endpoint_iterator       \* the endpoints async_connect's handler holds

\* The environment, and the history the properties speak of.
VARIABLES
  client,    \* requests: what it asked, stream: sent and not read by the proxy,
             \* received: what it got, open: it has not closed its end,
             \* tunnelled: tunnel units sent
  origins,   \* the connections made to origin servers, oldest first: endpoint,
             \* request it was made for, received, stream, open, tunnelled
  replies    \* the reply to each request, chosen by the origin that got it

control == <<ops, timer_pending, timeout_due, aborted>>
sockets == <<proxy_client_socket, origin_server_socket>>
request == <<request_data, request_header, read_request_context>>
response == <<response_data, read_response_context>>
buffers == <<upgoing_buffer, downgoing_buffer>>
writes == <<to_origin, to_client>>
contents == <<request, response, buffers, writes, endpoint_iterator>>
environment == <<client, origins, replies>>
vars == <<connection_context, control, sockets, contents, environment>>

state == connection_context.connection_state

RequestContexts ==
  [is_proxy_client_keep_alive : BOOLEAN, content_length : Nat \cup {NoLength},
   content_length_has_read : Nat]

ResponseContexts ==
  [is_origin_server_keep_alive : BOOLEAN, content_length : Nat \cup {NoLength},
   content_length_has_read : Nat, chunk_checker : ChunkState]

ClientRecord ==
  [requests : Seq(Requests), stream : Seq(Unit), received : Seq(Unit),
   open : BOOLEAN, tunnelled : Nat]

OriginRecord ==
  [endpoint : Endpoints, request : Nat, stream : Seq(Unit), received : Seq(Unit),
   open : BOOLEAN, tunnelled : Nat]

TypeOK ==
  /\ connection_context \in
       [connection_state : ConnectionState, reconnect_on_error : BOOLEAN,
        origin_server_name : Hosts \cup {NoHost},
        origin_server_endpoint : Endpoints \cup {NoEndpoint}]
  /\ proxy_client_socket \in {"open", "closed"}
  /\ origin_server_socket \in {"open", "closed"}
  /\ ops \in [Operation -> {"idle", "pending", "ok", "error"}]
  /\ timer_pending \in BOOLEAN
  /\ timeout_due \in BOOLEAN
  /\ aborted \in {"no", "set_timer", "chunk_checker"}
  /\ request_data \in Seq(Unit)
  /\ request_header \in Nat
  /\ read_request_context \in RequestContexts
  /\ response_data \in Seq(Unit)
  /\ read_response_context \in ResponseContexts
  /\ upgoing_buffer \in Seq(Unit)
  /\ downgoing_buffer \in Seq(Unit)
  /\ to_origin \in Seq(Unit)
  /\ to_client \in Seq(Unit)
  /\ endpoint_iterator \in Seq(Endpoints)
  /\ client \in ClientRecord
  /\ origins \in Seq(OriginRecord)
  /\ replies \in Seq(Responses)

NoRequestContext ==
  [is_proxy_client_keep_alive |-> FALSE, content_length |-> NoLength,
   content_length_has_read |-> 0]

NoResponseContext ==
  [is_origin_server_keep_alive |-> FALSE, content_length |-> NoLength,
   content_length_has_read |-> 0, chunk_checker |-> "none"]

\* The accepted connection, constructed and not started.  The fields the
\* constructor leaves uninitialised are written before they are read.
Init ==
  /\ connection_context =
       [connection_state |-> "read_cipher_data", reconnect_on_error |-> FALSE,
        origin_server_name |-> NoHost, origin_server_endpoint |-> NoEndpoint]
  /\ proxy_client_socket = "open"
  /\ origin_server_socket = "closed"
  /\ ops = [o \in Operation |-> "idle"]
  /\ timer_pending = FALSE
  /\ timeout_due = FALSE
  /\ aborted = "no"
  /\ request_data = <<>>
  /\ request_header = 0
  /\ read_request_context = NoRequestContext
  /\ response_data = <<>>
  /\ read_response_context = NoResponseContext
  /\ upgoing_buffer = <<>>
  /\ downgoing_buffer = <<>>
  /\ to_origin = <<>>
  /\ to_client = <<>>
  /\ endpoint_iterator = <<>>
  /\ client = [requests |-> <<>>, stream |-> <<>>, received |-> <<>>,
               open |-> TRUE, tunnelled |-> 0]
  /\ origins = <<>>
  /\ replies = <<>>

-----------------------------------------------------------------------------
(* Handlers and the timer. *)

\* What the async_* functions start, and whether they call set_timer() first.
\* (Definitions marked "mistaken" here and below are not part of the model: they
\* are plausible slips in the definition that follows them, kept to show that a
\* property notices.)
ReadClient == [op |-> "read_client", timed |-> TRUE]
\* Mistaken: the flag is ignored.
UnwatchedRead(set_timer) == [op |-> "read_origin", timed |-> FALSE]
ReadOrigin(set_timer) == [op |-> "read_origin", timed |-> set_timer]
WriteOrigin == [op |-> "write_origin", timed |-> TRUE]
WriteClient == [op |-> "write_client", timed |-> TRUE]
ResolveName == [op |-> "resolve", timed |-> TRUE]
Connect == [op |-> "connect", timed |-> TRUE]

\* Mistaken: what cancel_timer() returns is ignored.
RunsAfterExpiry(o, result) ==
  /\ aborted = "no"
  /\ ops[o] = result

\* The handler of o runs: the cancel_timer() it begins with returns true.
Runs(o, result) ==
  /\ aborted = "no"
  /\ ops[o] = result
  /\ timer_pending

\* The handler of o returns after making these calls.  cancel_timer() has
\* emptied the timer, so set_timer()'s assertion fails iff a second call of
\* the same handler sets it.
Returns(o, calls) ==
  /\ ops' = [p \in Operation |-> IF \E c \in calls : c.op = p THEN "pending"
                                 ELSE IF p = o THEN "idle" ELSE ops[p]]
  /\ timer_pending' = (\E c \in calls : c.timed)
  /\ aborted' = IF \E c, d \in calls : c # d /\ c.timed /\ d.timed
                THEN "set_timer" ELSE "no"
  /\ UNCHANGED <<timeout_due, environment>>

\* A handler whose cancel_timer() returns false does nothing.
LateCompletion(o) ==
  /\ aborted = "no"
  /\ ops[o] \in {"ok", "error"}
  /\ ~timer_pending
  /\ ops' = [ops EXCEPT ![o] = "idle"]
  /\ UNCHANGED <<timer_pending, timeout_due, aborted, connection_context, sockets, contents,
                 environment>>

Goto(s) == [connection_context EXCEPT !.connection_state = s]

Start ==
  /\ aborted = "no"
  /\ state = "read_cipher_data"
  /\ Returns("start", {ReadClient})
  /\ connection_context' = Goto("read_http_request_header")
  /\ UNCHANGED <<sockets, contents>>

ClosesBoth == proxy_client_socket' = "closed" /\ origin_server_socket' = "closed"

OnTimeout ==
  /\ aborted = "no"
  /\ timeout_due
  /\ timeout_due' = FALSE
  /\ ClosesBoth
  /\ UNCHANGED <<ops, timer_pending, aborted, connection_context, contents, environment>>

\* The last shared_ptr to the connection is gone: no handler holds it.
Gone ==
  /\ state # "read_cipher_data"
  /\ \A o \in Operation : ops[o] = "idle"
  /\ ~timer_pending /\ ~timeout_due

Destroy ==
  /\ aborted = "no"
  /\ Gone
  /\ "open" \in {proxy_client_socket, origin_server_socket}
  /\ ClosesBoth
  /\ UNCHANGED <<control, connection_context, contents, environment>>

-----------------------------------------------------------------------------
(* What handlers share.  Each operator completes the handler of o, and uses *)
(* request_data and request_header as that handler leaves them (primed).    *)

ErrorReply(status) == << [of |-> 0, part |-> "error", n |-> status] >>

ReportError(o, status) ==
  /\ Returns(o, {WriteClient})
  /\ connection_context' = Goto("report_error")
  /\ to_client' = ErrorReply(status)
  /\ UNCHANGED to_origin

Established(k) == << [of |-> k, part |-> "established", n |-> 1] >>

\* on_connect, "context" being what its caller has made of connection_context.
OnConnect(o, context) ==
  IF client.requests[request_header'].method = "CONNECT"
  THEN /\ Returns(o, {WriteClient})
       /\ connection_context' =
            [context EXCEPT !.connection_state = "report_connection_established"]
       /\ to_client' = Established(request_header')
       /\ UNCHANGED to_origin
  ELSE /\ Returns(o, {WriteOrigin})
       /\ connection_context' =
            [context EXCEPT !.connection_state = "write_http_request_header"]
       /\ to_origin' = Rewritten(request_data')
       /\ UNCHANGED to_client

\* Mistaken: a failure of the kept connection is not recovered from.
KeptUnprotected == connection_context

\* The context with which a kept connection is used.
Kept == [connection_context EXCEPT !.reconnect_on_error = TRUE]

\* Mistaken: any open connection will do.
AnyOrigin(r, socket) ==
  /\ socket = "open"
  /\ r.method # "CONNECT"

\* async_connect_to_origin_server keeps the connection it has if that is open,
\* was made for the same host and port, and is not wanted for a tunnel.
SameOrigin(r, socket) ==
  /\ socket = "open"
  /\ r.method # "CONNECT"
  /\ r.host = connection_context.origin_server_name

ConnectToOrigin(o, socket) ==
  LET r == client.requests[request_header']
  IN  IF SameOrigin(r, socket)
      THEN /\ OnConnect(o, Kept)
           /\ origin_server_socket' = socket
      ELSE /\ Returns(o, {ResolveName})
           /\ connection_context' =
                [Goto("resolve_origin_server_address") EXCEPT
                   !.reconnect_on_error = FALSE, !.origin_server_name = r.host]
           /\ origin_server_socket' = IF r.method = "CONNECT" THEN "closed" ELSE socket
           /\ UNCHANGED writes

\* Mistaken: the endpoint connected to is not remembered.
ConnectingSomewhere(endpoint) == Goto("connect_to_origin_server")
ConnectingTo(endpoint) ==
  [Goto("connect_to_origin_server") EXCEPT !.origin_server_endpoint = endpoint]

\* on_resolved walks the endpoints: it keeps an open connection to one of
\* them, but has closed the socket by then unless it is the first.
OnResolved(o, endpoints, socket) ==
  LET endpoint == connection_context.origin_server_endpoint
  IN  IF socket = "open" /\ Contains(endpoints, endpoint)
      THEN /\ OnConnect(o, Kept)
           /\ origin_server_socket' = IF Head(endpoints) = endpoint THEN "open" ELSE "closed"
           /\ UNCHANGED endpoint_iterator
      ELSE /\ Returns(o, {Connect})
           /\ connection_context' = ConnectingTo(Head(endpoints))
           /\ origin_server_socket' = "open"
           /\ endpoint_iterator' = endpoints
           /\ UNCHANGED writes

-----------------------------------------------------------------------------
(* Data from the client: on_proxy_client_data_arrived *)

\* What the handler makes of the request data it has.
RequestVerdict(units) ==
  IF HeaderEnd(units) = 0
  THEN IF Len(units) < MaxHeader THEN Incomplete ELSE 400
  ELSE RequestStatus(client.requests[units[1].of])

ReadMoreOfRequestHeader ==
  /\ RequestVerdict(request_data') = Incomplete
  /\ Returns("read_client", {ReadClient})
  /\ UNCHANGED <<connection_context, origin_server_socket, request_header,
                 read_request_context, writes>>

\* report_error and report_authentication_failed.  What the checks had written
\* to request_header and read_request_context before they failed only decides
\* the wording of the error page.
RejectRequest ==
  /\ RequestVerdict(request_data') \notin {Accepted, EmptyOptional, Incomplete}
  /\ ReportError("read_client", RequestVerdict(request_data'))
  /\ UNCHANGED <<origin_server_socket, request_header, read_request_context>>

\* A chunked request body: the empty chunk_checker is dereferenced, and the
\* assertion inside boost::optional ends the process.
DereferenceEmptyChecker ==
  /\ RequestVerdict(request_data') = EmptyOptional
  /\ aborted' = "chunk_checker"
  /\ ops' = [ops EXCEPT !["read_client"] = "idle"]
  /\ timer_pending' = FALSE
  /\ UNCHANGED <<timeout_due, connection_context, origin_server_socket, request_header,
                 read_request_context, writes, environment>>

AcceptRequest ==
  /\ RequestVerdict(request_data') = Accepted
  /\ request_header' = request_data'[1].of
  /\ LET r == client.requests[request_header']
     IN  read_request_context' =
           IF r.method = "CONNECT" THEN read_request_context
           ELSE RequestContext(r, Len(request_data') - HeaderEnd(request_data'))
  /\ ConnectToOrigin("read_client", origin_server_socket)

RequestHeaderArrives ==
  /\ state = "read_http_request_header"
  /\ request_data' = request_data \o upgoing_buffer
  /\ \/ ReadMoreOfRequestHeader
     \/ RejectRequest
     \/ DereferenceEmptyChecker
     \/ AcceptRequest

\* The length of a body in progress is always known (RequestLengthKnown), so
\* the branches for chunked bodies here and after a write are not modelled.
RequestContentArrives ==
  /\ state = "read_http_request_content"
  /\ Returns("read_client", {WriteOrigin})
  /\ connection_context' = Goto("write_http_request_content")
  /\ read_request_context' =
       [read_request_context EXCEPT !.content_length_has_read = @ + Len(upgoing_buffer)]
  /\ to_origin' = upgoing_buffer
  /\ UNCHANGED <<origin_server_socket, request_data, request_header, to_client>>

TunnelClientData ==
  /\ state = "tunnel_transfer"
  /\ Returns("read_client", {WriteOrigin})
  /\ to_origin' = upgoing_buffer
  /\ UNCHANGED <<connection_context, origin_server_socket, request, to_client>>

OnProxyClientDataArrived ==
  /\ Runs("read_client", "ok")
  /\ \/ RequestHeaderArrives
     \/ RequestContentArrives
     \/ TunnelClientData
  /\ upgoing_buffer' = <<>>
  /\ UNCHANGED <<proxy_client_socket, response, downgoing_buffer, endpoint_iterator>>

-----------------------------------------------------------------------------
\* Mistaken: a short write is taken for a whole one.
AnyWriteWillDo(rest) == TRUE

\* bytes_transferred was not less than the size of the buffer.
WholeBufferWritten(rest) == rest = <<>>

-----------------------------------------------------------------------------
(* Data written to the origin server: on_origin_server_data_written *)

\* Mistaken: off by one.
AlmostComplete(context) == context.content_length_has_read + 1 >= context.content_length
RequestComplete(context) == context.content_length_has_read >= context.content_length

\* Mistaken: a short write leaves reconnect_on_error as it was.
RetryAfterShortWrite ==
  /\ ~WholeBufferWritten(to_origin)
  /\ Returns("write_origin", {WriteOrigin})
  /\ UNCHANGED connection_context

WriteRestToOrigin ==
  /\ ~WholeBufferWritten(to_origin)
  /\ Returns("write_origin", {WriteOrigin})
  /\ connection_context' = [connection_context EXCEPT !.reconnect_on_error = FALSE]

\* The next operation, and the state it belongs to.
AfterOriginWrite(next, s) ==
  /\ WholeBufferWritten(to_origin)
  /\ Returns("write_origin", {next})
  /\ connection_context' = [Goto(s) EXCEPT !.reconnect_on_error = FALSE]

\* A successful write clears reconnect_on_error before anything else.
OnOriginServerDataWritten ==
  /\ Runs("write_origin", "ok")
  /\ \/ WriteRestToOrigin
     \/ /\ state = "tunnel_transfer"
        /\ AfterOriginWrite(ReadClient, "tunnel_transfer")
     \/ /\ state \in {"write_http_request_header", "write_http_request_content"}
        /\ ~RequestComplete(read_request_context)
        /\ AfterOriginWrite(ReadClient, "read_http_request_content")
     \/ /\ state \in {"write_http_request_header", "write_http_request_content"}
        /\ RequestComplete(read_request_context)
        /\ AfterOriginWrite(ReadOrigin(TRUE), "read_http_response_header")
  /\ UNCHANGED <<sockets, contents>>

-----------------------------------------------------------------------------
(* Data written to the client: on_proxy_client_data_written *)

ResponseComplete(context) ==
  \/ /\ context.content_length # NoLength
     /\ context.content_length_has_read >= context.content_length
  \/ context.chunk_checker = "complete"

TunnelClientWritten ==
  /\ state = "tunnel_transfer"
  /\ Returns("write_client", {ReadOrigin(TRUE)})
  /\ UNCHANGED <<connection_context, sockets, request, response>>

ReadMoreResponseContent ==
  /\ ~ResponseComplete(read_response_context)
  /\ Returns("write_client", {ReadOrigin(TRUE)})
  /\ connection_context' = Goto("read_http_response_content")
  /\ UNCHANGED <<sockets, request, response>>

\* The origin's socket, once its reply has been relayed.
AfterReply(socket) ==
  IF read_response_context.is_origin_server_keep_alive THEN socket ELSE "closed"

\* Mistaken: the response is not cleared.
ClearRequestOnly ==
  /\ request_data' = <<>>
  /\ request_header' = 0
  /\ UNCHANGED response_data
  /\ read_request_context' = [read_request_context EXCEPT !.content_length = NoLength]
  /\ read_response_context' =
       [read_response_context EXCEPT !.content_length = NoLength, !.chunk_checker = "none"]

ClearMessages ==
  /\ request_data' = <<>>
  /\ request_header' = 0
  /\ response_data' = <<>>
  /\ read_request_context' = [read_request_context EXCEPT !.content_length = NoLength]
  /\ read_response_context' =
       [read_response_context EXCEPT !.content_length = NoLength, !.chunk_checker = "none"]

\* The whole reply is relayed: the connection waits for the next request ...
ReplyRelayed ==
  /\ ResponseComplete(read_response_context)
  /\ read_request_context.is_proxy_client_keep_alive
  /\ Returns("write_client", {ReadClient})
  /\ connection_context' = Goto("read_http_request_header")
  /\ origin_server_socket' = AfterReply(origin_server_socket)
  /\ ClearMessages
  /\ UNCHANGED proxy_client_socket

\* ... or closes the client's socket; ~http_proxy_server_connection closes the
\* other one when this handler returns.
LastReplyRelayed ==
  /\ ResponseComplete(read_response_context)
  /\ ~read_request_context.is_proxy_client_keep_alive
  /\ Returns("write_client", {})
  /\ origin_server_socket' = AfterReply(origin_server_socket)
  /\ proxy_client_socket' = "closed"
  /\ UNCHANGED <<connection_context, request, response>>

\* Mistaken: both reads set the timer, one read is forgotten, or none is timed.
BothReadsTimed == {ReadClient, ReadOrigin(TRUE)}
OneReadForgotten == {ReadClient}
NoReadTimed == {[ReadClient EXCEPT !.timed = FALSE], ReadOrigin(FALSE)}

\* start_tunnel_transfer: two reads, of which only one may set the timer.
TunnelReads == {ReadClient, ReadOrigin(FALSE)}

StartTunnelTransfer ==
  /\ state = "report_connection_established"
  /\ Returns("write_client", TunnelReads)
  /\ connection_context' = Goto("tunnel_transfer")
  /\ UNCHANGED <<sockets, request, response>>

ErrorReported ==
  /\ state = "report_error"
  /\ Returns("write_client", {})
  /\ ClosesBoth
  /\ UNCHANGED <<connection_context, request, response>>

WriteRestToClient ==
  /\ ~WholeBufferWritten(to_client)
  /\ Returns("write_client", {WriteClient})
  /\ UNCHANGED <<connection_context, sockets, request, response>>

OnProxyClientDataWritten ==
  /\ Runs("write_client", "ok")
  /\ \/ WriteRestToClient
     \/ /\ WholeBufferWritten(to_client)
        /\ \/ TunnelClientWritten
           \/ /\ state \in {"write_http_response_header", "write_http_response_content"}
              /\ ReadMoreResponseContent \/ ReplyRelayed \/ LastReplyRelayed
           \/ StartTunnelTransfer
           \/ ErrorReported
  /\ UNCHANGED <<buffers, writes, endpoint_iterator>>

-----------------------------------------------------------------------------
(* Data from the origin server: on_origin_server_data_arrived *)

ReadMoreOfResponseHeader ==
  /\ HeaderEnd(response_data') = 0
  /\ Len(response_data') < MaxHeader
  /\ Returns("read_origin", {ReadOrigin(TRUE)})
  /\ UNCHANGED <<connection_context, read_response_context, to_client>>

\* The response whose header has arrived, and the content that came with it.
ArrivedResponse == replies[response_data'[1].of]
ArrivedContent ==
  SubSeq(response_data', HeaderEnd(response_data') + 1, Len(response_data'))
RequestMethod == client.requests[request_header].method

\* What the checks had written to response_header and read_response_context is
\* not read again.
RejectResponse ==
  /\ IF HeaderEnd(response_data') = 0 THEN Len(response_data') >= MaxHeader
     ELSE ~ResponseAcceptable(ArrivedResponse, RequestMethod, ArrivedContent)
  /\ ReportError("read_origin", 502)
  /\ UNCHANGED read_response_context

RelayResponseHeader ==
  /\ HeaderEnd(response_data') # 0
  /\ ResponseAcceptable(ArrivedResponse, RequestMethod, ArrivedContent)
  /\ read_response_context' = ResponseContext(ArrivedResponse, RequestMethod, ArrivedContent)
  /\ Returns("read_origin", {WriteClient})
  /\ connection_context' = Goto("write_http_response_header")
  /\ to_client' = Rewritten(response_data')

ResponseHeaderArrives ==
  /\ state = "read_http_response_header"
  /\ response_data' = response_data \o downgoing_buffer
  /\ UNCHANGED to_origin
  /\ \/ ReadMoreOfResponseHeader
     \/ RejectResponse
     \/ RelayResponseHeader

\* read_response_context after more content.
Counted(context, units) ==
  IF context.content_length # NoLength
  THEN [context EXCEPT !.content_length_has_read = @ + Len(units)]
  ELSE IF context.chunk_checker # "none"
  THEN [context EXCEPT !.chunk_checker = ChunkCheck(@, units)]
  ELSE context

\* A malformed chunk: the handler returns, starts nothing, and so lets the
\* connection be destroyed.
ResponseContentArrives ==
  /\ state = "read_http_response_content"
  /\ read_response_context' = Counted(read_response_context, downgoing_buffer)
  /\ \/ /\ read_response_context'.chunk_checker # "failed"
        /\ Returns("read_origin", {WriteClient})
        /\ connection_context' = Goto("write_http_response_content")
        /\ to_client' = downgoing_buffer
     \/ /\ read_response_context'.chunk_checker = "failed"
        /\ Returns("read_origin", {})
        /\ UNCHANGED <<connection_context, to_client>>
  /\ UNCHANGED <<response_data, to_origin>>

TunnelOriginData ==
  /\ state = "tunnel_transfer"
  /\ Returns("read_origin", {WriteClient})
  /\ to_client' = downgoing_buffer
  /\ UNCHANGED <<connection_context, response, to_origin>>

OnOriginServerDataArrived ==
  /\ Runs("read_origin", "ok")
  /\ \/ ResponseHeaderArrives
     \/ ResponseContentArrives
     \/ TunnelOriginData
  /\ downgoing_buffer' = <<>>
  /\ UNCHANGED <<sockets, request, upgoing_buffer, endpoint_iterator>>

-----------------------------------------------------------------------------
(* Resolving, connecting, and errors. *)

Resolved ==
  /\ Runs("resolve", "ok")
  /\ UNCHANGED <<proxy_client_socket, request, response, buffers>>
  /\ \E endpoints \in Resolutions[connection_context.origin_server_name] :
       OnResolved("resolve", endpoints, origin_server_socket)

ResolveError ==
  /\ Runs("resolve", "error")
  /\ ReportError("resolve", 504)
  /\ UNCHANGED <<sockets, request, response, buffers, endpoint_iterator>>

Connected ==
  /\ Runs("connect", "ok")
  /\ UNCHANGED <<sockets, request, response, buffers, endpoint_iterator>>
  /\ OnConnect("connect", connection_context)

ConnectNextEndpoint ==
  /\ Runs("connect", "error")
  /\ Len(endpoint_iterator) > 1
  /\ UNCHANGED <<proxy_client_socket, request, response, buffers>>
  /\ OnResolved("connect", Tail(endpoint_iterator), "closed")

ConnectError ==
  /\ Runs("connect", "error")
  /\ Len(endpoint_iterator) = 1
  /\ ReportError("connect", 502)
  /\ origin_server_socket' = "closed"
  /\ UNCHANGED <<proxy_client_socket, request, response, buffers, endpoint_iterator>>

\* The kept connection to the origin turned out to be dead.
Reconnects == state = "write_http_request_header" /\ connection_context.reconnect_on_error

Reconnect ==
  /\ Runs("write_origin", "error")
  /\ Reconnects
  /\ UNCHANGED <<proxy_client_socket, request, response, buffers, endpoint_iterator>>
  /\ ConnectToOrigin("write_origin", "closed")

\* Any other failed read or write ends the connection.
ConnectionError(o) ==
  /\ o \in {"read_client", "write_client", "read_origin", "write_origin"}
  /\ Runs(o, "error")
  /\ ~Reconnects
  /\ Returns(o, {})
  /\ ClosesBoth
  /\ UNCHANGED <<connection_context, contents>>

\* The handlers, which a worker thread runs.
Handler ==
  \/ OnProxyClientDataArrived
  \/ OnOriginServerDataWritten
  \/ OnProxyClientDataWritten
  \/ OnOriginServerDataArrived
  \/ Resolved
  \/ ResolveError
  \/ Connected
  \/ ConnectNextEndpoint
  \/ ConnectError
  \/ Reconnect
  \/ \E o \in Operation : ConnectionError(o) \/ LateCompletion(o)
  \/ OnTimeout
=============================================================================
