------------------------- MODULE ServerRequestProofs -------------------------
(***************************************************************************)
(* Proofs that a server connection serves one request at a time: what is   *)
(* read from the client, passed on and told to the client belongs to the   *)
(* request in hand.  From it follow properties that relate the two ends of *)
(* the proxy: where requests go, how often, which of them, and when their  *)
(* replies are awaited.                                                    *)
(*                                                                         *)
(* RequestInvariant is preserved by the data moves of                      *)
(* ServerConnectionProofs, and so is RoutingInvariant with its help.       *)
(***************************************************************************)
EXTENDS ServerConnectionProofs

-----------------------------------------------------------------------------
(* The invariant. *)

\* The number of requests made, and the last of them as it is sent.
Asked == Len(client.requests)
Latest == OnTheWire(Asked, client.requests[Asked])

\* The states in which a reply is on its way to the client.
Relaying == Responding \ {"read_http_response_header"}

\* Nothing of the client's is on its way, or all that came last is.
Arriving == request_data \o upgoing_buffer \o client.stream
Drained == client.stream = <<>> /\ upgoing_buffer = <<>>

\* The buffer is empty while a read into it is outstanding.
ReadingFits ==
  /\ ops["read_client"] # "ok"
  /\ timer_pending \/ ops["read_client"] = "pending" \/ state = "read_cipher_data"
  => upgoing_buffer = <<>>

\* A request waited for is whole, or none has been made.
RequestAwaited ==
  /\ client.stream \in Seq(SentOf({Asked}))
  /\ upgoing_buffer \in Seq(SentOf({Asked}))
  /\ state \in Waiting => Arriving = <<>> \/ (Asked > 0 /\ Arriving = Latest)

\* The request in hand is the last one made, unless the client, having got all
\* of its reply before the proxy knows, has made the next.
OneAtATime ==
  state \in Serving =>
    /\ request_data \in Seq(SentOf({request_header}))
    /\ \/ request_header = Asked
       \/ /\ request_header = Asked - 1
          /\ state \in Relaying
          /\ upgoing_buffer = <<>>
          /\ client.stream = Latest
    /\ state \in Responding /\ request_header = Asked => Drained
    /\ state \in Finding \cup Sending /\ Served.method # "CONNECT" =>
         read_request_context.content_length_has_read + Len(upgoing_buffer)
           + Len(client.stream) = Len(Served.content)

\* What is being written to the origin server is of the request in hand.
PassedOn ==
  /\ state \in Waiting \cup Responding => to_origin = <<>>
  /\ state \in Serving \ Responding => to_origin \in Seq(PassedOf({request_header}))

\* The units that have reached the origin servers, and those told the client or
\* about to be.
GotBy(c) == ToSet(origins[c].received)
Reached == UNION {GotBy(c) : c \in DOMAIN origins}
Told == ToSet(client.received) \cup ToSet(to_client)

\* No CONNECT request is passed on.
NoTunnelPassedOn ==
  \A u \in Reached \cup ToSet(to_origin) :
    u.part = "header" => client.requests[u.of].method # "CONNECT"

\* The last request has reached an origin server, and a reply to it the client.
Written == \E u \in Reached : u.of = Asked
Replied == \E u \in Told : u.of = Asked /\ u.part \notin {"error", "established", "tunnel"}

\* A request that has reached an origin server is in hand or done with, and only
\* such a request has a reply.
WrittenInHand ==
  /\ Written =>
       request_header = Asked \/ (request_header = 0 /\ Drained /\ request_data = <<>>)
  /\ Asked > 0 /\ Len(replies) = Asked =>
       Written /\ client.requests[Asked].method # "CONNECT"

\* A reply the client gets any of is to the request in hand, or to the last one.
RepliedInHand ==
  /\ Replied =>
       \/ request_header = Asked /\ state \in Relaying
       \/ /\ request_header = 0 /\ state = "read_http_request_header"
          /\ Drained /\ request_data = <<>>
  /\ (\E u \in Told : u.part = "established") => state \in Tunnelling

RequestInvariant ==
  /\ ReadingFits
  /\ RequestAwaited
  /\ OneAtATime
  /\ PassedOn
  /\ NoTunnelPassedOn
  /\ WrittenInHand
  /\ RepliedInHand

-----------------------------------------------------------------------------
(* The invariant of where requests go. *)

Has(c, k) == \E u \in GotBy(c) : u.of = k

\* A connection is still looked for, or will be again.
Unsent ==
  \/ state \in Finding \cup {"report_connection_established"}
  \/ Reconnects /\ ops["write_origin"] \in {"pending", "error"}

\* No connection has anything of a request that still looks for one.
SentOnce ==
  /\ \A c, d \in DOMAIN origins : \A k \in Made : Has(c, k) /\ Has(d, k) => c = d
  /\ Unsent => \A c \in DOMAIN origins : ~Has(c, request_header)
  /\ state \in Sending \cup {"tunnel_transfer"} =>
       \A c \in DOMAIN origins : Has(c, request_header) => c = Len(origins)

\* Each unit is at an address of its request's host.
WellRouted ==
  \A c \in DOMAIN origins : \A u \in GotBy(c) :
    origins[c].endpoint \in AddressesOf(client.requests[u.of].host)

\* Only requests the checks accepted are passed on, and only they open tunnels.
OnlyAccepted ==
  /\ \A u \in Reached \cup ToSet(to_origin) : RequestStatus(client.requests[u.of]) = Accepted
  /\ \A u \in Told : u.part = "established" => RequestStatus(client.requests[u.of]) = Accepted

-----------------------------------------------------------------------------
(* Units in sequences. *)

\* The units of a sequence, of two sequences joined, and of what remains of one.
LEMMA UnitsIn ==
  ASSUME NEW S, NEW s \in Seq(S)
  PROVE  /\ ToSet(s) \subseteq S
         /\ ToSet(s) = {s[i] : i \in 1 .. Len(s)}
         /\ \A i \in DOMAIN s : s[i] \in ToSet(s)
         /\ \A u \in ToSet(s) : \E i \in DOMAIN s : u = s[i]
<1>1. DOMAIN s = 1 .. Len(s) /\ \A i \in 1 .. Len(s) : s[i] \in S
  BY LenProperties, ElementOfSeq
<1> QED
  BY <1>1 DEF ToSet

\* Joining sequences joins their units.
LEMMA UnitsOfBoth ==
  ASSUME NEW S, NEW s \in Seq(S), NEW t \in Seq(S)
  PROVE  ToSet(s \o t) = ToSet(s) \cup ToSet(t)
<1>1. /\ s \o t \in Seq(S)
      /\ Len(s \o t) = Len(s) + Len(t)
      /\ \A i \in 1 .. Len(s) + Len(t) : (s \o t)[i] = IF i <= Len(s) THEN s[i] ELSE t[i - Len(s)]
      /\ Len(s) \in Nat /\ Len(t) \in Nat
  BY ConcatProperties, LenProperties
<1>2. PICK both : both = s \o t
  OBVIOUS
<1>3. /\ ToSet(s) = {s[i] : i \in 1 .. Len(s)}
      /\ ToSet(t) = {t[i] : i \in 1 .. Len(t)}
      /\ ToSet(both) = {both[i] : i \in 1 .. Len(s) + Len(t)}
  <2>1. both \in Seq(S) /\ Len(both) = Len(s) + Len(t)
    BY <1>1, <1>2, Zenon
  <2> QED
    BY <2>1, UnitsIn, Zenon
<1>4. /\ \A i \in 1 .. Len(s) : i \in 1 .. Len(s) + Len(t) /\ both[i] = s[i]
      /\ \A i \in 1 .. Len(t) :
           i + Len(s) \in 1 .. Len(s) + Len(t) /\ both[i + Len(s)] = t[i]
  BY <1>1, <1>2
<1>5. \A i \in 1 .. Len(s) + Len(t) :
        \/ i \in 1 .. Len(s) /\ both[i] = s[i]
        \/ i - Len(s) \in 1 .. Len(t) /\ both[i] = t[i - Len(s)]
  BY <1>1, <1>2
<1>6. ToSet(both) = ToSet(s) \cup ToSet(t)
  BY <1>3, <1>4, <1>5
<1> QED
  BY <1>2, <1>6

\* What has been taken of a sequence, and what is left of it, are parts of it.
LEMMA UnitsOfPart ==
  ASSUME NEW S, NEW s \in Seq(S), NEW n \in 1 .. Len(s)
  PROVE  /\ ToSet(SubSeq(s, 1, n)) \subseteq ToSet(s)
         /\ ToSet(SubSeq(s, n + 1, Len(s))) \subseteq ToSet(s)
         /\ ToSet(SubSeq(s, 1, n)) \cup ToSet(SubSeq(s, n + 1, Len(s))) = ToSet(s)
<1>1. ToSet(SubSeq(s, 1, n) \o SubSeq(s, n + 1, Len(s)))
        = ToSet(SubSeq(s, 1, n)) \cup ToSet(SubSeq(s, n + 1, Len(s)))
  <2>1. SubSeq(s, 1, n) \in Seq(S) /\ SubSeq(s, n + 1, Len(s)) \in Seq(S)
    BY CutInTwo, Zenon
  <2> QED
    BY <2>1, UnitsOfBoth, Zenon
<1>2. SubSeq(s, 1, n) \o SubSeq(s, n + 1, Len(s)) = s
  BY CutInTwo, Zenon
<1> QED
  BY <1>1, <1>2, Zenon

\* Nothing comes in no units, and no units of no request are nothing.
LEMMA NoUnits ==
  /\ ToSet(<<>>) = {}
  /\ \A S : \A s \in Seq(S) : S = {} => s = <<>>
  /\ \A s \in Seq(SentOf({})) : s = <<>>
<1>1. ToSet(<<>>) = {}
  BY DEF ToSet
<1>2. ASSUME NEW S, NEW s \in Seq(S), S = {}
      PROVE  s = <<>>
  <2>1. Len(s) \in Nat /\ \A i \in 1 .. Len(s) : s[i] \in S
    BY LenProperties, ElementOfSeq
  <2>2. Len(s) = 0
    BY <1>2, <2>1
  <2> QED
    BY <2>2, EmptySeq
<1>3. SentOf({}) = {}
  BY DEF SentOf
<1> QED
  BY <1>1, <1>2, <1>3

\* The units of a message passed on: its header, and the content as it came.
LEMMA RewrittenUnits ==
  ASSUME NEW K, NEW data \in Seq(SentOf(K)), HeaderEnd(data) # 0
  PROVE  \A u \in ToSet(Rewritten(data)) :
           u \in PassedOf(K) /\ (u.part = "header" \/ u \in ToSet(data))
<1> DEFINE e == HeaderEnd(data)
           begin == [data[e] EXCEPT !.part = "header"]
           rest == SubSeq(data, e + 1, Len(data))
<1>1. e \in 1 .. Len(data) /\ Len(data) \in Nat
  BY HeaderEndIsFirst, LenProperties
<1>2. data[e] \in SentOf(K)
  BY <1>1, ElementOfSeq
<1>3. begin \in PassedOf(K) /\ begin.part = "header"
  BY <1>2 DEF SentOf, PassedOf, Part
<1>4. rest \in Seq(SentOf(K)) /\ ToSet(rest) \subseteq ToSet(data)
  BY <1>1, CutInTwo, UnitsOfPart, Zenon
<1>5. Rewritten(data) = <<begin>> \o rest
  BY DEF Rewritten
<1> HIDE DEF begin, rest
<1>6. rest \in Seq(PassedOf(K)) /\ <<begin>> \in Seq(PassedOf(K))
  BY <1>3, <1>4, SentArePassed, SeqMonotonic
<1>7. ToSet(<<begin>>) = {begin}
  BY DEF ToSet
<1>8. ToSet(Rewritten(data)) = {begin} \cup ToSet(rest)
  <2>1. PICK first : first = <<begin>>
    OBVIOUS
  <2>2. first \in Seq(PassedOf(K)) /\ ToSet(first) = {begin} /\ Rewritten(data) = first \o rest
    BY <1>5, <1>6, <1>7, <2>1
  <2>3. ToSet(first \o rest) = ToSet(first) \cup ToSet(rest)
    BY <1>6, <2>2, UnitsOfBoth
  <2> QED
    BY <2>2, <2>3, Zenon
<1>9. ToSet(rest) \subseteq PassedOf(K)
  BY <1>6, UnitsIn, Zenon
<1> QED
  BY <1>3, <1>4, <1>8, <1>9

-----------------------------------------------------------------------------
(* Steps that leave the request in hand. *)

\* A step of the proxy that takes nothing from the client: what it may write,
\* and the phases it leads to.
Still ==
  /\ UNCHANGED <<environment, request, upgoing_buffer>>
  /\ state' \in Waiting => state \in Waiting
  /\ state = "read_http_request_header" => state' = state
  /\ state' \in Serving => state \in Serving
  /\ state' \in Serving \ Responding => state \in Serving \ Responding
  /\ state' \in Finding \cup Sending => state \in Finding \cup Sending
  /\ state' \in Responding =>
       \/ state \in Responding
       \/ state \in Sending /\ to_origin = <<>> /\ RequestComplete(read_request_context)
  /\ state \in Relaying => state' \in Relaying
  /\ state \in Tunnelling => state' \in Tunnelling
  /\ \/ UNCHANGED to_origin
     \/ /\ state \in Finding /\ state' = "write_http_request_header"
        /\ Served.method # "CONNECT"
        /\ to_origin' = Rewritten(request_data)
  /\ \/ UNCHANGED to_client
     \/ Complains
     \/ /\ state \in Finding /\ state' \in Tunnelling
        /\ to_client' = Established(request_header)
     \/ /\ state = "read_http_response_header" /\ state' \in Relaying
        /\ response_data' = response_data \o downgoing_buffer
        /\ HeaderEnd(response_data') # 0
        /\ to_client' = Rewritten(response_data')
     \/ /\ state \in {"read_http_response_content", "tunnel_transfer"}
        /\ to_client' = downgoing_buffer

\* on_connect takes nothing from the client.
LEMMA OnConnectStill ==
  ASSUME state \in Finding, UNCHANGED <<request, upgoing_buffer>>,
         NEW o, NEW recovers, SendsRequest(o, recovers) \/ OpensTunnel(o, recovers)
  PROVE  Still
<1>1. request_header' = request_header /\ request_data' = request_data
  BY DEF request
<1>2. CASE SendsRequest(o, recovers)
  <2>1. /\ Served.method # "CONNECT" /\ state' = "write_http_request_header"
        /\ to_origin' = Rewritten(request_data)
        /\ UNCHANGED <<environment, to_client>>
    BY <1>1, <1>2 DEF SendsRequest, Becomes, Served, Ran
  <2> QED
    BY <2>1 DEF Still, Finding, Waiting, Serving, Sending, Responding, Relaying, Tunnelling
<1>3. CASE OpensTunnel(o, recovers)
  <2>1. /\ state' = "report_connection_established"
        /\ to_client' = Established(request_header)
        /\ UNCHANGED <<environment, to_origin>>
    BY <1>1, <1>3 DEF OpensTunnel, Becomes, Ran
  <2> QED
    BY <2>1 DEF Still, Finding, Waiting, Serving, Sending, Responding, Relaying, Tunnelling
<1> QED
  BY <1>2, <1>3

\* Which steps those are.
LEMMA StillMoves ==
  ASSUME DataNext
  PROVE  \/ RequestGrows \/ TakenOnKept \/ TakenAnew \/ PassesContent \/ PassesUp
         \/ AwaitsRequest \/ Arrives
         \/ Still
<1>1. CASE Rests \/ Begun
  <2>1. UNCHANGED <<environment, request, upgoing_buffer, writes>>
    BY <1>1 DEF Rests, Begun, contents, buffers
  <2>2. state' = state \/ (state = "read_cipher_data" /\ state' = "read_http_request_header")
    BY <1>1 DEF Rests, Begun, Stays, Turns, Becomes
  <2> QED
    BY <2>1, <2>2 DEF Still, writes, Finding, Waiting, Serving, Sending, Responding, Relaying,
       Tunnelling
<1>2. CASE Reconnecting
  <2>1. UNCHANGED <<environment, request, upgoing_buffer, writes>>
    BY <1>2 DEF Reconnecting, Resolves, Ran, buffers
  <2>2. state = "write_http_request_header" /\ state' = "resolve_origin_server_address"
    BY <1>2 DEF Reconnecting, Reconnects, Resolves, Becomes
  <2> QED
    BY <2>1, <2>2 DEF Still, writes, Finding, Waiting, Serving, Sending, Responding, Relaying,
       Tunnelling
<1>3. CASE ResolvedToKept \/ ConnectedTo
  BY <1>3, OnConnectStill DEF ResolvedToKept, ConnectedTo, buffers, Finding
<1>4. CASE TriesEndpoint
  <2>1. UNCHANGED <<environment, request, upgoing_buffer, writes>>
    BY <1>4 DEF TriesEndpoint, Ran, buffers
  <2>2. state \in Finding /\ state' \in Finding
    BY <1>4 DEF TriesEndpoint, Becomes, Finding
  <2> QED
    BY <2>1, <2>2 DEF Still, writes, Finding, Waiting, Serving, Sending, Responding, Relaying,
       Tunnelling
<1>5. CASE NotConnected \/ (ResponseGrows /\ Complains)
  <2>1. UNCHANGED <<environment, request, upgoing_buffer, to_origin>> /\ Complains
    BY <1>5 DEF NotConnected, ResponseGrows, ReportsError, Ran, buffers, writes
  <2>2. /\ state \in Finding \cup {"read_http_response_header"}
        /\ state' \in {"report_error", "read_http_response_header"}
        /\ state' = "read_http_response_header" => state' = state
    BY <1>5 DEF NotConnected, ResponseGrows, ReportsError, Stays, Turns, Becomes, Finding
  <2> QED
    BY <2>1, <2>2 DEF Still, Finding, Waiting, Serving, Sending, Responding, Relaying, Tunnelling
<1>6. CASE ResponseGrows /\ ~Complains
  <2>1. UNCHANGED <<environment, request, upgoing_buffer, writes>> /\ state' = state
    BY <1>6 DEF ResponseGrows, ReportsError, Ran, Stays, Becomes
  <2> QED
    BY <2>1 DEF Still, writes
<1>7. CASE OriginTook
  <2>1. UNCHANGED <<environment, request, upgoing_buffer, writes>>
    BY <1>7 DEF OriginTook, Ran, contents, buffers
  <2>2. \/ state' = state
        \/ state \in Writing /\ state' = "read_http_request_content"
        \/ /\ state \in Writing /\ state' = "read_http_response_header"
           /\ to_origin = <<>> /\ RequestComplete(read_request_context)
    BY <1>7 DEF OriginTook, Becomes
  <2> QED
    BY <2>1, <2>2 DEF Still, writes, Writing, Finding, Waiting, Serving, Sending, Responding,
       Relaying, Tunnelling
<1>8. CASE RelaysHeader
  <2>1. /\ UNCHANGED <<environment, request, upgoing_buffer, to_origin>>
        /\ state = "read_http_response_header" /\ state' = "write_http_response_header"
        /\ response_data' = response_data \o downgoing_buffer
        /\ HeaderEnd(response_data') # 0
        /\ to_client' = Rewritten(response_data')
    BY <1>8 DEF RelaysHeader, Ran, Turns, Becomes
  <2> QED
    BY <2>1 DEF Still, Finding, Waiting, Serving, Sending, Responding, Relaying, Tunnelling
<1>9. CASE RelaysContent \/ PassesDown
  <2>1. /\ UNCHANGED <<environment, request, upgoing_buffer, to_origin>>
        /\ to_client' \in {to_client, downgoing_buffer}
    BY <1>9 DEF RelaysContent, PassesDown, Ran, RanOut
  <2>2. \/ state \in {"read_http_response_content", "tunnel_transfer"} /\ state' = state
        \/ /\ state = "read_http_response_content"
           /\ state' = "write_http_response_content"
    BY <1>9 DEF RelaysContent, PassesDown, Turns, Stays, Becomes
  <2> QED
    BY <2>1, <2>2 DEF Still, Finding, Waiting, Serving, Sending, Responding, Relaying, Tunnelling
<1>10. CASE AwaitsContent \/ StartsTunnel
  <2>1. UNCHANGED <<environment, request, upgoing_buffer, writes>>
    BY <1>10 DEF AwaitsContent, StartsTunnel, Ran, contents, buffers
  <2>2. \/ state \in Relaying /\ state' = "read_http_response_content"
        \/ state = "report_connection_established" /\ state' = "tunnel_transfer"
    BY <1>10 DEF AwaitsContent, StartsTunnel, Turns, Becomes, Relaying, Responding
  <2> QED
    BY <2>1, <2>2 DEF Still, writes, Finding, Waiting, Serving, Sending, Responding, Relaying,
       Tunnelling
<1> QED
  BY <1>1, <1>2, <1>3, <1>4, <1>5, <1>6, <1>7, <1>8, <1>9, <1>10 DEF DataNext

-----------------------------------------------------------------------------
(* What the environment does to the data. *)

AClientSends == \E r \in Requests : ClientSends(r)

\* What each arrival leaves as it is.
LEMMA ArrivalsKeep ==
  ASSUME ControlInvariant, DataTypes, Arrives
  PROVE  /\ UNCHANGED request /\ state' = state
         /\ ClientDataRead \/ UNCHANGED upgoing_buffer
         /\ OriginDataWrite \/ UNCHANGED to_origin
         /\ AClientSends \/ client'.requests = client.requests
         /\ ClientDataRead \/ ClientTunnels \/ AClientSends \/ client'.stream = client.stream
         /\ (\E r \in Responses : OriginReplies(r)) \/ UNCHANGED replies
<1>1. UNCHANGED request /\ state' = state
  BY ArrivalsLeave DEF ControlInvariant, request, Stays, Becomes
<1>2. client' = client \/ (\E b : client' = [client EXCEPT !.open = b]) =>
        client'.requests = client.requests /\ client'.stream = client.stream
  BY DEF DataTypes
<1>3. CASE ClientDataRead
  <2>1. PICK n \in 1 .. Len(client.stream) :
          client' = [client EXCEPT !.stream = SubSeq(@, n + 1, Len(@))]
    BY <1>3, Zenon DEF ClientDataRead
  <2>2. PICK rest : rest = SubSeq(client.stream, n + 1, Len(client.stream))
    OBVIOUS
  <2>3. client' = [client EXCEPT !.stream = rest]
    BY <2>1, <2>2, Zenon
  <2>4. client'.requests = client.requests
    BY <2>3 DEF DataTypes
  <2> QED
    BY <1>1, <1>3, <2>4 DEF ClientDataRead, writes
<1>4. CASE OriginDataRead \/ OriginDataWrite \/ EndpointConnected
  BY <1>1, <1>4 DEF OriginDataRead, OriginDataWrite, EndpointConnected, writes, buffers
<1>5. CASE ClientDataWrite
  BY <1>1, <1>5 DEF ClientDataWrite, buffers, DataTypes
<1>6. CASE AClientSends
  BY <1>1, <1>6 DEF AClientSends, ClientSends, proxy, contents, buffers, writes
<1>7. CASE ClientTunnels
  BY <1>1, <1>7 DEF ClientTunnels, proxy, contents, buffers, writes, DataTypes
<1>8. CASE ClientCloses
  <2>1. PICK b : client' = [client EXCEPT !.open = b]
    BY <1>8 DEF ClientCloses
  <2> QED
    BY <1>1, <1>2, <1>8, <2>1 DEF ClientCloses, proxy, contents, buffers, writes
<1>9. CASE OriginTunnels \/ OriginCloses \/ \E r \in Responses : OriginReplies(r)
  BY <1>1, <1>9 DEF OriginTunnels, OriginCloses, OriginReplies, proxy, contents, buffers, writes
<1> QED
  BY <1>3, <1>4, <1>5, <1>6, <1>7, <1>8, <1>9 DEF Arrives, Peers, AClientSends

\* The units that have been passed on are units of requests made.
LEMMA UnitsPassed ==
  ASSUME DataTypes
  PROVE  /\ Reached \subseteq PassedOf(Made)
         /\ ToSet(to_origin) \subseteq PassedOf(Made)
         /\ Told \subseteq ToldUnit
<1>1. \A c \in DOMAIN origins : GotBy(c) \subseteq PassedOf(Made)
  BY RecordsType, UnitsIn DEF GotBy
<1>2. ToSet(client.received) \subseteq ToldUnit /\ ToSet(to_client) \subseteq ToldUnit
  BY UnitsIn DEF DataTypes
<1>3. ToSet(to_origin) \subseteq PassedOf(Made)
  BY UnitsIn DEF DataTypes
<1> QED
  BY <1>1, <1>2, <1>3 DEF Reached, Told

\* A write only tells the client what was about to be told.
LEMMA NothingElseTold ==
  ASSUME ControlInvariant, DataTypes, Arrives
  PROVE  Told' \subseteq Told
<1>1. CASE ClientDataWrite
  <2>1. PICK n \in 1 .. Len(to_client) :
          /\ to_client' = SubSeq(to_client, n + 1, Len(to_client))
          /\ client' = IF client.open
                       THEN [client EXCEPT !.received = @ \o SubSeq(to_client, 1, n)]
                       ELSE client
    BY <1>1, Zenon DEF ClientDataWrite
  <2>2. PICK taken : taken = SubSeq(to_client, 1, n)
    OBVIOUS
  <2>3. taken \in Seq(ToldUnit) /\ ToSet(taken) \subseteq ToSet(to_client)
        /\ ToSet(to_client') \subseteq ToSet(to_client)
    BY <2>1, <2>2, CutInTwo, UnitsOfPart, Zenon DEF DataTypes
  <2>4. client.received \in Seq(ToldUnit)
    BY DEF DataTypes
  <2>5. client'.received \in {client.received, client.received \o taken}
    <3>1. client' = IF client.open THEN [client EXCEPT !.received = @ \o taken] ELSE client
      BY <2>1, <2>2, Zenon
    <3> QED
      BY <3>1 DEF DataTypes
  <2>6. ToSet(client'.received) \subseteq ToSet(client.received) \cup ToSet(taken)
    BY <2>3, <2>4, <2>5, UnitsOfBoth, Zenon
  <2> QED
    BY <2>3, <2>6 DEF Told
<1>2. CASE ~ClientDataWrite
  <2>1. UNCHANGED to_client
    BY <1>2 DEF Arrives, ClientDataRead, OriginDataRead, OriginDataWrite, EndpointConnected,
       Peers, ClientSends, ClientTunnels, ClientCloses, OriginReplies, OriginTunnels,
       OriginCloses, proxy, contents, writes
  <2>2. client'.received = client.received
    BY <1>2 DEF Arrives, ClientDataRead, OriginDataRead, OriginDataWrite, EndpointConnected,
       Peers, ClientSends, ClientTunnels, ClientCloses, OriginReplies, OriginTunnels,
       OriginCloses, DataTypes
  <2> QED
    BY <2>1, <2>2 DEF Told
<1> QED
  BY <1>1, <1>2

\* An origin server gets only what is being written to it.
LEMMA NothingElseReached ==
  ASSUME DataTypes, DataNext
  PROVE  /\ \A c \in DOMAIN origins :
              /\ c \in DOMAIN origins'
              /\ GotBy(c) \subseteq GotBy(c)'
              /\ \/ GotBy(c)' = GotBy(c)
                 \/ /\ OriginDataWrite /\ c = Len(origins)
                    /\ GotBy(c)' \subseteq GotBy(c) \cup ToSet(to_origin)
         /\ \A c \in DOMAIN origins' \ DOMAIN origins : EndpointConnected /\ GotBy(c)' = {}
         /\ Reached \subseteq Reached'
         /\ Reached' \subseteq Reached \cup ToSet(to_origin)
         /\ OriginDataWrite \/ Reached' = Reached
<1>1. ASSUME NEW c \in DOMAIN origins
      PROVE  /\ c \in DOMAIN origins'
             /\ GotBy(c) \subseteq GotBy(c)'
             /\ \/ GotBy(c)' = GotBy(c)
                \/ /\ OriginDataWrite /\ c = Len(origins)
                   /\ GotBy(c)' \subseteq GotBy(c) \cup ToSet(to_origin)
  <2>1. c \in DOMAIN origins' /\ MayBecome(origins[c], origins'[c])
        /\ (c # Len(origins) => origins'[c] = origins[c])
    BY OriginsGrow
  <2>2. CASE origins'[c].received = origins[c].received
    BY <2>1, <2>2 DEF GotBy
  <2>3. CASE origins'[c].received # origins[c].received
    <3>1. c = Len(origins) /\ Receives(origins[c], origins'[c])
      BY <2>1, <2>3 DEF MayBecome
    <3>2. PICK n \in 1 .. Len(to_origin) :
            origins'[c].received = origins[c].received \o SubSeq(to_origin, 1, n)
      BY <3>1, Zenon DEF Receives
    <3>3. PICK taken : taken = SubSeq(to_origin, 1, n)
      OBVIOUS
    <3>4. taken \in Seq(PassedOf(Made)) /\ ToSet(taken) \subseteq ToSet(to_origin)
      BY <3>3, CutInTwo, UnitsOfPart, Zenon DEF DataTypes
    <3>5. origins[c].received \in Seq(PassedOf(Made))
      BY RecordsType
    <3>6. ToSet(origins[c].received \o taken) = ToSet(origins[c].received) \cup ToSet(taken)
      BY <3>4, <3>5, UnitsOfBoth, Zenon
    <3>7. GotBy(c)' = GotBy(c) \cup ToSet(taken)
      BY <3>2, <3>3, <3>6, Zenon DEF GotBy
    <3> QED
      BY <2>1, <3>1, <3>4, <3>7 DEF Receives
  <2> QED
    BY <2>2, <2>3
<1>2. ASSUME NEW c \in DOMAIN origins' \ DOMAIN origins
      PROVE  EndpointConnected /\ GotBy(c)' = {}
  <2>1. EndpointConnected
    BY OriginsGrow
  <2>2. PICK record : /\ origins' = Append(origins, record)
                      /\ record.received = <<>>
    BY <2>1 DEF EndpointConnected
  <2>a. origins \in Seq(ServerOf(Made))
    BY DEF DataTypes
  <2>b. /\ DOMAIN origins' = DOMAIN origins \cup {Len(origins) + 1}
        /\ origins'[Len(origins) + 1] = record
    BY <2>2, <2>a, OneMore, Zenon
  <2>3. c = Len(origins) + 1
    BY <2>b
  <2>4. origins'[c] = record
    BY <2>b, <2>3
  <2> QED
    BY <2>1, <2>2, <2>4, NoUnits DEF GotBy
<1>3. Reached \subseteq Reached'
  BY <1>1 DEF Reached
<1>4. Reached' \subseteq Reached \cup ToSet(to_origin)
  BY <1>1, <1>2 DEF Reached
<1>5. OriginDataWrite \/ Reached' = Reached
  BY <1>1, <1>2 DEF Reached
<1> QED
  BY <1>1, <1>2, <1>3, <1>4, <1>5

-----------------------------------------------------------------------------
(* What the client's steps meet. *)

\* A client that has all of a reply has been told some of it.
LEMMA AnsweredIsReplied ==
  ASSUME DataTypes, Asked > 0, Answered(Asked)
  PROVE  Replied
<1>1. Asked \in Made /\ Asked \in Nat /\ Asked \in DOMAIN replies
  BY LenProperties DEF DataTypes, Answered, Asked, Made
<1>2. replies[Asked] \in Response
  BY <1>1, MessagesAssumption, ElementOfSeq, LenProperties DEF DataTypes
<1>3. PICK method : ReplyTo(Asked) = Reply(Asked, replies[Asked], method)
  BY DEF ReplyTo
<1>4. PICK whole : whole = ReplyTo(Asked)
  OBVIOUS
<1>5. /\ whole \in Seq(SentOf({Asked})) /\ HeaderEnd(whole) # 0
      /\ \A i \in 1 .. Len(whole) : whole[i].part # "tunnel"
  BY <1>1, <1>2, <1>3, <1>4, ReplyType
<1>6. PICK told : told = Rewritten(whole)
  OBVIOUS
<1>7. told \in Seq(PassedOf({Asked})) /\ told # <<>>
  BY <1>5, <1>6, RewrittenType
<1>8. Len(told) \in 1 .. Len(told) /\ Last(told) \in ToSet(told)
  BY <1>7, EmptySeq, UnitsIn DEF Last
<1>9. \A u \in ToSet(told) :
        u.of = Asked /\ u.part \notin {"error", "established", "tunnel"}
  <2>1. \A u \in ToSet(told) :
          u \in PassedOf({Asked}) /\ (u.part = "header" \/ u \in ToSet(whole))
    BY <1>5, <1>6, RewrittenUnits
  <2>2. \A u \in ToSet(whole) : u \in SentOf({Asked}) /\ u.part # "tunnel"
    BY <1>5, UnitsIn
  <2> QED
    BY <2>1, <2>2 DEF PassedOf, SentOf, SentPart, ContentPart
<1>10. Last(told) \in ToSet(client.received)
  <2>1. Contains(client.received, Last(told))
    BY <1>4, <1>6 DEF Answered
  <2> QED
    BY <2>1, UnitsIn DEF Contains, DataTypes
<1> QED
  BY <1>8, <1>9, <1>10 DEF Replied, Told

\* With no request made there is nothing of one.
LEMMA NothingAsked ==
  ASSUME DataTypes, Asked = 0
  PROVE  Drained /\ request_data = <<>> /\ request_header = 0 /\ Made = {}
<1>1. Made = {}
  BY DEF Asked, Made
<1> QED
  BY <1>1, NoUnits DEF DataTypes, Drained

\* Numbers of requests.
LEMMA AskedType ==
  ASSUME DataTypes
  PROVE  Asked \in Nat /\ (Asked > 0 <=> Asked \in Made) /\ \A k \in Made : k \in 1 .. Asked
BY LenProperties DEF DataTypes, Asked, Made

\* When a client asks, nothing of the last request is left, and the connection
\* waits or is about to learn that it has sent the last of the reply.
LEMMA WhenClientSends ==
  ASSUME DataInvariant, RequestInvariant, NEW r \in Requests, ClientSends(r)
  PROVE  /\ Drained
         /\ state \in Waiting => request_data = <<>>
         /\ state \in Serving => state \in Relaying /\ request_header = Asked
         /\ Asked' = Asked + 1
         /\ Latest' = OnTheWire(Asked', r)
         /\ Latest' \in Seq(SentOf({Asked'}))
         /\ client'.stream = Latest'
         /\ UNCHANGED <<upgoing_buffer, request>> /\ state' = state
<1>1. DataTypes /\ Asked \in Nat
  BY AskedType DEF DataInvariant
<1>2. /\ Drained
      /\ state \in Waiting => request_data = <<>>
      /\ state \in Serving => state \in Relaying /\ request_header = Asked
  <2>1. CASE Asked = 0
    <3>1. Drained /\ request_data = <<>> /\ Made = {}
      BY <1>1, <2>1, NothingAsked
    <3> QED
      BY <3>1 DEF DataInvariant, RequestInHand
  <2>2. CASE Asked > 0
    <3>1. Answered(Asked)
      BY <2>2 DEF ClientSends, Asked
    <3>2. Replied
      BY <1>1, <2>2, <3>1, AnsweredIsReplied
    <3>3. \/ request_header = Asked /\ state \in Relaying
          \/ state = "read_http_request_header" /\ Drained /\ request_data = <<>>
      BY <3>2 DEF RequestInvariant, RepliedInHand
    <3>4. state \in Relaying => state \in Responding /\ state \in Serving /\ state \notin Waiting
      BY DEF Relaying, Serving, Responding, Waiting
    <3>5. state = "read_http_request_header" => state \notin Serving
      BY DEF Serving, Finding, Sending, Responding, Tunnelling
    <3>6. request_header = Asked /\ state \in Relaying => Drained
      BY <3>4 DEF RequestInvariant, OneAtATime
    <3> QED
      BY <3>3, <3>4, <3>5, <3>6
  <2> QED
    BY <1>1, <2>1, <2>2
<1>3. /\ Asked' = Asked + 1
      /\ client'.stream = client.stream \o OnTheWire(Asked + 1, r)
      /\ client'.requests[Asked + 1] = r
      /\ OnTheWire(Asked + 1, r) \in Seq(SentOf({Asked + 1}))
  BY <1>1, ClientSendsTypes DEF Asked
<1>4. client'.stream = OnTheWire(Asked + 1, r)
  BY <1>2, <1>3, ConcatEmptySeq DEF Drained
<1>5. Latest' = OnTheWire(Asked', r)
  BY <1>3 DEF Latest
<1>6. UNCHANGED <<upgoing_buffer, request>> /\ state' = state
  BY DEF ClientSends, proxy, contents, buffers, state
<1> QED
  BY <1>2, <1>3, <1>4, <1>5, <1>6

\* A read from the client returns the beginning of what it has sent.
LEMMA WhenClientIsRead ==
  ASSUME ControlInvariant, DataInvariant, RequestInvariant, ClientDataRead
  PROVE  /\ upgoing_buffer = <<>>
         /\ state \in {"read_http_request_header", "read_http_request_content",
                       "tunnel_transfer"}
         /\ client.stream # <<>>
         /\ upgoing_buffer' \in Seq(SentOf({Asked}))
         /\ client'.stream \in Seq(SentOf({Asked}))
         /\ upgoing_buffer' \o client'.stream = client.stream
         /\ Len(upgoing_buffer') + Len(client'.stream) = Len(client.stream)
         /\ client'.requests = client.requests
<1>1. ops["read_client"] = "pending"
  BY DEF ClientDataRead, Completes
<1>2. "read_client" \in Outstanding
  BY <1>1, OutstandingMeans DEF Operation
<1>3. state \in {"read_http_request_header", "read_http_request_content", "tunnel_transfer"}
  BY <1>2, StatesOfOutstanding DEF ControlInvariant, DataInvariant
<1>4. upgoing_buffer = <<>>
  BY <1>1 DEF RequestInvariant, ReadingFits
<1>5. client.stream \in Seq(SentOf({Asked}))
  BY DEF RequestInvariant, RequestAwaited
<1>6. PICK n \in 1 .. Len(client.stream) :
        /\ upgoing_buffer' = SubSeq(client.stream, 1, n)
        /\ client' = [client EXCEPT !.stream = SubSeq(@, n + 1, Len(@))]
  BY Zenon DEF ClientDataRead
<1>7. PICK read : read = SubSeq(client.stream, 1, n)
  OBVIOUS
<1>8. PICK rest : rest = SubSeq(client.stream, n + 1, Len(client.stream))
  OBVIOUS
<1>9. /\ read \in Seq(SentOf({Asked})) /\ rest \in Seq(SentOf({Asked}))
      /\ Len(read) = n /\ Len(rest) = Len(client.stream) - n
      /\ read \o rest = client.stream
  BY <1>5, <1>7, <1>8, CutInTwo, Zenon
<1>10. upgoing_buffer' = read /\ client' = [client EXCEPT !.stream = rest]
  BY <1>6, <1>7, <1>8, Zenon
<1>11. client'.stream = rest /\ client'.requests = client.requests
  BY <1>10 DEF DataInvariant, DataTypes
<1>12. Len(client.stream) \in Nat /\ n \in Nat /\ client.stream # <<>>
  BY <1>5, <1>6, LenProperties, EmptySeq
<1>13. Len(read) + Len(rest) = Len(client.stream)
  BY <1>9, <1>12
<1> QED
  BY <1>3, <1>4, <1>9, <1>10, <1>11, <1>12, <1>13

\* What is written to an origin server is of the last request made.
LEMMA WhenOriginIsWritten ==
  ASSUME ControlInvariant, DataInvariant, RequestInvariant, OriginDataWrite
  PROVE  /\ state \in Writing \cup {"tunnel_transfer"}
         /\ request_header = Asked /\ Asked \in Made
         /\ to_origin' \in Seq(PassedOf({Asked}))
         /\ ToSet(to_origin) \subseteq PassedOf({Asked})
         /\ ToSet(to_origin') \subseteq ToSet(to_origin)
<1>1. "write_origin" \in Outstanding
  BY OutstandingMeans DEF OriginDataWrite, Completes, Operation
<1>2. state \in Writing \cup {"tunnel_transfer"}
  BY <1>1, StatesOfOutstanding DEF ControlInvariant, DataInvariant
<1>3. state \in Serving \ Responding /\ state \notin Relaying
  BY <1>2 DEF Writing, Serving, Sending, Tunnelling, Responding, Relaying
<1>4. request_header = Asked /\ Asked \in Made
  BY <1>3 DEF RequestInvariant, OneAtATime, DataInvariant, RequestInHand
<1>5. to_origin \in Seq(PassedOf({Asked}))
  BY <1>3, <1>4 DEF RequestInvariant, PassedOn
<1>6. PICK n \in 1 .. Len(to_origin) : to_origin' = SubSeq(to_origin, n + 1, Len(to_origin))
  BY Zenon DEF OriginDataWrite
<1>7. to_origin' \in Seq(PassedOf({Asked})) /\ ToSet(to_origin') \subseteq ToSet(to_origin)
  BY <1>5, <1>6, CutInTwo, UnitsOfPart, Zenon
<1>8. ToSet(to_origin) \subseteq PassedOf({Asked})
  BY <1>5, UnitsIn, Zenon
<1> QED
  BY <1>2, <1>4, <1>7, <1>8

\* A client that sends through a tunnel has been told that it is established.
LEMMA WhenClientTunnels ==
  ASSUME DataInvariant, RequestInvariant, ClientTunnels
  PROVE  /\ state \in Tunnelling
         /\ request_header = Asked /\ Asked \in Made
         /\ client'.stream \in Seq(SentOf({Asked}))
         /\ client'.requests = client.requests
<1>1. Established(Asked)[1] \in ToSet(client.received)
  BY UnitsIn DEF ClientTunnels, Asked, Contains, DataInvariant, DataTypes
<1>2. Established(Asked)[1] \in Told /\ Established(Asked)[1].part = "established"
  BY <1>1 DEF Told, Established
<1>3. state \in Tunnelling
  BY <1>2 DEF RequestInvariant, RepliedInHand
<1>4. state \in Serving /\ state \notin Relaying
  BY <1>3 DEF Serving, Tunnelling, Relaying, Responding
<1>5. request_header = Asked /\ Asked \in Made
  BY <1>4 DEF RequestInvariant, OneAtATime, DataInvariant, RequestInHand
<1>6. PICK n \in Nat : n = client.tunnelled + 1
  BY DEF DataInvariant, DataTypes
<1>7. TunnelUnit(Asked, n) \in SentOf({Asked})
  BY DEF TunnelUnit, SentOf, SentPart
<1>8. client.stream \in Seq(SentOf({Asked}))
  BY DEF RequestInvariant, RequestAwaited
<1>9. PICK more : more = Append(client.stream, TunnelUnit(Asked, n))
  OBVIOUS
<1>10. more \in Seq(SentOf({Asked}))
  BY <1>7, <1>8, <1>9, AppendProperties
<1>11. client' = [client EXCEPT !.tunnelled = n, !.stream = more]
  BY <1>6, <1>9, Zenon DEF ClientTunnels, Asked
<1>12. client'.stream = more /\ client'.requests = client.requests
  BY <1>11 DEF DataInvariant, DataTypes
<1> QED
  BY <1>3, <1>5, <1>10, <1>12

\* The beginning of a sequence of units has their types, and ends its header
\* where the whole does.
LEMMA Beginning ==
  ASSUME NEW S, NEW K, NEW s \in Seq(S), NEW t \in Seq(S), s \o t \in Seq(SentOf(K))
  PROVE  /\ s \in Seq(SentOf(K))
         /\ Len(s \o t) = Len(s) + Len(t)
         /\ Len(s) \in Nat /\ Len(t) \in Nat
         /\ HeaderEnd(s) # 0 => HeaderEnd(s \o t) = HeaderEnd(s)
<1>1. PICK both : both = s \o t
  OBVIOUS
<1>2. /\ Len(both) = Len(s) + Len(t)
      /\ \A i \in 1 .. Len(s) + Len(t) : both[i] = IF i <= Len(s) THEN s[i] ELSE t[i - Len(s)]
      /\ Len(s) \in Nat /\ Len(t) \in Nat
  BY <1>1, ConcatProperties, LenProperties
<1>3. \A i \in 1 .. Len(s) : both[i] = s[i] /\ i \in 1 .. Len(both)
  BY <1>2
<1>4. both \in Seq(SentOf(K))
  BY <1>1
<1>5. \A i \in 1 .. Len(s) : s[i] \in SentOf(K)
  BY <1>3, <1>4, ElementOfSeq
<1>6. s \in Seq(SentOf(K))
  <2>1. s \in [1 .. Len(s) -> SentOf(K)]
    BY <1>5, LenProperties
  <2> QED
    BY <1>2, <2>1, SeqDef
<1>7. ASSUME HeaderEnd(s) # 0
      PROVE  HeaderEnd(both) = HeaderEnd(s)
  <2>1. /\ HeaderEnd(s) \in 1 .. Len(s)
        /\ s[HeaderEnd(s)].part = "end"
        /\ \A j \in 1 .. Len(s) : s[j].part = "end" => HeaderEnd(s) <= j
    BY <1>2, <1>7, HeaderEndIsFirst
  <2>2. /\ HeaderEnd(both) \in 0 .. Len(both)
        /\ HeaderEnd(both) # 0 =>
             /\ both[HeaderEnd(both)].part = "end"
             /\ \A j \in 1 .. Len(both) : both[j].part = "end" => HeaderEnd(both) <= j
        /\ HeaderEnd(both) = 0 => \A j \in 1 .. Len(both) : both[j].part # "end"
    BY <1>4, HeaderEndIsFirst
  <2>3. HeaderEnd(both) # 0
    BY <1>3, <2>1, <2>2
  <2>4. HeaderEnd(both) <= HeaderEnd(s)
    BY <1>3, <2>1, <2>2, <2>3
  <2>5. HeaderEnd(s) <= HeaderEnd(both)
    BY <1>2, <1>3, <2>1, <2>2, <2>3, <2>4
  <2> QED
    BY <1>2, <2>1, <2>2, <2>4, <2>5
<1> QED
  BY <1>1, <1>2, <1>6, <1>7

\* What has arrived when a request is accepted is the beginning of the last one
\* made, of which nothing has been passed on yet; the rest is on its way.
LEMMA WhenTaken ==
  ASSUME DataInvariant, RequestInvariant, RequestTaken, UNCHANGED environment
  PROVE  /\ Asked \in Made /\ request_header' = Asked
         /\ request_data' \in Seq(SentOf({Asked}))
         /\ HeaderEnd(request_data') # 0
         /\ ~Written /\ ~Replied
         /\ client.requests[Asked].method # "CONNECT" =>
              read_request_context'.content_length_has_read + Len(client.stream)
                = Len(client.requests[Asked].content)
<1>1. /\ state = "read_http_request_header" /\ state \in Waiting /\ request_header = 0
      /\ request_data' = request_data \o upgoing_buffer
      /\ HeaderEnd(request_data') # 0
      /\ request_header' = request_data'[1].of
  BY DEF RequestTaken, Waiting, DataInvariant, RequestInHand
<1>2. /\ request_data' \in Seq(SentOf(Made)) /\ client.stream \in Seq(SentOf(Made))
      /\ request_data \in Seq(SentOf(Made))
  BY RequestTakenTypes DEF DataInvariant, DataTypes
<1> DEFINE data == request_data'
<1>3. data # <<>>
  <2>1. HeaderEnd(data) \in 0 .. Len(data) /\ HeaderEnd(data) # 0
    BY <1>1, <1>2, HeaderEndIsFirst
  <2> QED
    BY <2>1, EmptySeq
<1> HIDE DEF data
<1>4. Arriving = data \o client.stream
  BY <1>1, Zenon DEF Arriving, data
<1>5. Arriving # <<>>
  BY <1>2, <1>3, <1>4, ConcatEqualIffEmpty DEF data
<1>6. Asked > 0 /\ Asked \in Made /\ Asked \in Nat /\ data \o client.stream = Latest
  BY <1>1, <1>4, <1>5, AskedType DEF RequestInvariant, RequestAwaited, DataInvariant
<1>7. PICK r : r = client.requests[Asked]
  OBVIOUS
<1>8. r \in Requests /\ r \in Request /\ r.head \in Nat \ {0} /\ r.content \in Seq(ContentPart)
      /\ r.length \in Nat /\ Len(r.content) \in Nat
  <2>1. Asked \in 1 .. Len(client.requests)
    BY <1>6 DEF Made
  <2>2. r \in Requests
    BY <1>7, <2>1, ElementOfSeq DEF DataInvariant, DataTypes
  <2> QED
    BY <1>6, <1>7, <2>2, RequestType, LenProperties DEF DataInvariant, DataTypes
<1>9. /\ Latest \in Seq(SentOf({Asked}))
      /\ Len(Latest) = r.head + Len(r.content)
      /\ HeaderEnd(Latest) = r.head
  BY <1>6, <1>7, <1>8, OnTheWireType DEF Latest
<1>10. /\ data \in Seq(SentOf({Asked})) /\ HeaderEnd(data) # 0
       /\ Len(Latest) = Len(data) + Len(client.stream)
       /\ HeaderEnd(data) = r.head
       /\ Len(data) \in Nat /\ Len(client.stream) \in Nat
  <2>1. /\ data \in Seq(SentOf(Made)) /\ client.stream \in Seq(SentOf(Made))
        /\ data \o client.stream \in Seq(SentOf({Asked}))
        /\ HeaderEnd(data) # 0
    BY <1>1, <1>2, <1>6, <1>9 DEF data
  <2>2. /\ data \in Seq(SentOf({Asked}))
        /\ Len(data \o client.stream) = Len(data) + Len(client.stream)
        /\ Len(data) \in Nat /\ Len(client.stream) \in Nat
        /\ HeaderEnd(data \o client.stream) = HeaderEnd(data)
    <3>1. PICK S : data \in Seq(S) /\ client.stream \in Seq(S)
      BY <2>1
    <3>2. PICK late \in Seq(S) : late = client.stream
      BY <3>1
    <3>3. PICK early \in Seq(S) : early = data
      BY <3>1
    <3>4. early \o late \in Seq(SentOf({Asked})) /\ HeaderEnd(early) # 0
      BY <2>1, <3>2, <3>3
    <3>5. /\ early \in Seq(SentOf({Asked}))
          /\ Len(early \o late) = Len(early) + Len(late)
          /\ Len(early) \in Nat /\ Len(late) \in Nat
          /\ HeaderEnd(early \o late) = HeaderEnd(early)
      BY <3>4, Beginning
    <3> QED
      BY <3>2, <3>3, <3>5
  <2> QED
    BY <1>6, <1>9, <2>1, <2>2, Zenon
<1>11. request_header' = Asked
  <2>1. data[1].of \in {Asked}
    BY <1>10, FirstUnit
  <2> QED
    BY <1>1, <2>1 DEF data
<1>12. ~Written
  <2>1. SUFFICES ASSUME Written PROVE FALSE
    OBVIOUS
  <2>2. request_data = <<>> /\ upgoing_buffer = <<>>
    BY <1>1, <1>6, <2>1 DEF RequestInvariant, WrittenInHand, Drained
  <2> QED
    BY <1>1, <1>2, <1>3, <2>2, ConcatEmptySeq DEF data
<1>13. ~Replied
  <2>1. SUFFICES ASSUME Replied PROVE FALSE
    OBVIOUS
  <2>2. request_data = <<>> /\ upgoing_buffer = <<>>
    BY <1>1, <1>6, <2>1 DEF RequestInvariant, RepliedInHand, Drained
  <2> QED
    BY <1>1, <1>2, <1>3, <2>2, ConcatEmptySeq DEF data
<1>14. ASSUME r.method # "CONNECT"
       PROVE  read_request_context'.content_length_has_read + Len(client.stream)
                = Len(r.content)
  <2>1. HeaderEnd(data) \in 0 .. Len(data)
    BY <1>10, HeaderEndIsFirst
  <2>2. PICK n \in Nat : n = Len(data) - HeaderEnd(data)
    BY <1>8, <1>10, <2>1
  <2>3. n + Len(client.stream) = Len(r.content)
    <3>1. PICK e \in Nat : e = r.head
      BY <1>8
    <3>2. PICK c \in Nat : c = Len(r.content)
      BY <1>8
    <3>3. Len(data) + Len(client.stream) = e + c /\ n = Len(data) - e
      BY <1>9, <1>10, <2>2, <3>1, <3>2, Zenon
    <3>4. n + Len(client.stream) = c
      BY <1>10, <3>3
    <3> QED
      BY <3>2, <3>4
  <2>4. RequestStatus(r) = Accepted /\ read_request_context' = RequestContext(r, n)
    BY <1>7, <1>11, <1>14, <2>2 DEF RequestTaken, data
  <2>5. Len(r.content) <= (IF HasContent(r) THEN r.length ELSE 0)
    BY <1>8, <1>14, <2>4, ClientsAssumption
  <2>6. read_request_context'.content_length_has_read = IF HasContent(r) THEN n ELSE 0
    BY <2>4 DEF RequestContext
  <2> QED
    BY <1>8, <1>10, <2>2, <2>3, <2>5, <2>6
<1> QED
  BY <1>1, <1>6, <1>7, <1>10, <1>11, <1>12, <1>13, <1>14 DEF data

-----------------------------------------------------------------------------
(* The invariant is preserved, conjunct by conjunct. *)

\* A completed read from the client waits for its own handler.
LEMMA HandlersKeepRead ==
  ASSUME ControlInvariant, DataInvariant, DataNext, Still \/ AwaitsRequest, ~Rests, ~Begun,
         ~(RequestGrows \/ TakenOnKept \/ TakenAnew \/ PassesContent \/ PassesUp \/ Arrives)
  PROVE  timer_pending /\ (ops["read_client"] = "ok" => ops'["read_client"] = "ok")
<1>1. ControlTypeOK /\ "read_client" \in Operation /\ OnlyItsOperations
  BY DEF ControlInvariant, Operation, DataInvariant
<1>2. CASE OriginTook \/ AwaitsRequest \/ StartsTunnel
  <2>1. timer_pending
    BY <1>2 DEF OriginTook, AwaitsRequest, StartsTunnel, Ran
  <2>2. Outstanding \in OperationsOf(state)
    BY <2>1 DEF ControlInvariant, OperationsFitState
  <2>3. \/ state \in Writing \cup {"tunnel_transfer"} /\ "write_origin" \in Outstanding
        \/ state \in {"write_http_response_header", "write_http_response_content",
                      "report_connection_established"}
    BY <1>2 DEF OriginTook, AwaitsRequest, StartsTunnel, Ran, Outstanding, Operation
  <2>4. "read_client" \notin Outstanding
    BY <2>2, <2>3 DEF OperationsOf, Writing
  <2> QED
    BY <1>1, <2>1, <2>4, OutstandingMeans
<1>3. CASE Reconnecting \/ ResolvedToKept \/ TriesEndpoint \/ ConnectedTo \/ NotConnected
           \/ ResponseGrows \/ RelaysHeader \/ RelaysContent \/ PassesDown \/ AwaitsContent
  <2>1. PICK o \in Operation, result \in {"ok", "error"}, next \in SUBSET Operation :
          /\ Ran(o, result, next) \/ RanOut(o, result)
          /\ o # "read_client" /\ "read_client" \notin next
    <3>1. /\ {"resolve"} \in SUBSET Operation /\ {"connect"} \in SUBSET Operation
          /\ {"write_origin"} \in SUBSET Operation /\ {"read_origin"} \in SUBSET Operation
          /\ {"write_client"} \in SUBSET Operation
          /\ {"resolve", "connect", "write_origin", "write_client", "read_origin"}
               \subseteq Operation
      BY DEF Operation
    <3>2. \A o \in Operation, result \in {"ok", "error"} :
            ReportsError(o, result) => Ran(o, result, {"write_client"})
      BY DEF ReportsError
    <3> QED
      BY <1>3, <3>1, <3>2 DEF Reconnecting, Resolves, ResolvedToKept, SendsRequest, OpensTunnel,
         TriesEndpoint, ConnectedTo, NotConnected, ResponseGrows, RelaysHeader, RelaysContent,
         PassesDown, AwaitsContent
  <2>2. timer_pending
    BY <2>1 DEF Ran, RanOut
  <2> QED
    BY <1>1, <2>1, <2>2, RanLeaves
<1> QED
  BY <1>2, <1>3 DEF DataNext

\* The client's buffer is empty when a read into it is started.
LEMMA ReadingFitsPreserved ==
  ASSUME ControlInvariant, DataInvariant, RequestInvariant, DataNext
  PROVE  ReadingFits'
<1>1. ControlTypeOK /\ "read_client" \in Operation
  BY DEF ControlInvariant, Operation
<1>2. ReadingFits
  BY DEF RequestInvariant
<1>3. CASE Arrives
  <2>1. UNCHANGED timer_pending /\ state' = state
    BY <1>3, ArrivalsLeave DEF ControlInvariant, Stays, Becomes
  <2>2. CASE ClientDataRead
    <3>1. ops'["read_client"] = "ok"
      BY <1>1, <2>2, CompletesOne DEF ClientDataRead
    <3> QED
      BY <3>1 DEF ReadingFits
  <2>3. CASE ~ClientDataRead
    <3>1. ops'["read_client"] = ops["read_client"]
      BY <1>1, <1>3, <2>3, ArrivalsLeave DEF Operation
    <3>2. UNCHANGED upgoing_buffer
      BY <1>3, <2>3, ArrivalsKeep DEF DataInvariant
    <3> QED
      BY <1>2, <2>1, <3>1, <3>2 DEF ReadingFits
  <2> QED
    BY <2>2, <2>3
<1>4. CASE RequestGrows \/ TakenOnKept \/ TakenAnew \/ PassesContent \/ PassesUp
  BY <1>4 DEF RequestGrows, TakenOnKept, TakenAnew, RequestTaken, PassesContent, PassesUp,
     ReadingFits
<1>5. CASE ~(RequestGrows \/ TakenOnKept \/ TakenAnew \/ PassesContent \/ PassesUp \/ Arrives)
  <2>0. Still \/ AwaitsRequest
    BY <1>5, StillMoves
  <2>1. UNCHANGED upgoing_buffer
    BY <2>0 DEF Still, AwaitsRequest, buffers
  <2> SUFFICES ASSUME upgoing_buffer # <<>>,
                      ops'["read_client"] # "ok",
                      \/ timer_pending' \/ ops'["read_client"] = "pending"
                      \/ state' = "read_cipher_data"
               PROVE  FALSE
    BY <2>1 DEF ReadingFits
  <2>2. \/ ops["read_client"] = "ok"
        \/ ~timer_pending /\ ops["read_client"] # "pending" /\ state # "read_cipher_data"
    BY <1>2 DEF ReadingFits
  <2>3. ops["read_client"] = "ok" => state # "read_cipher_data"
    BY <1>1, StatesOfOutstanding, OutstandingMeans DEF DataInvariant
  <2>4. CASE Rests
    BY <2>2, <2>3, <2>4 DEF Rests, Settles, Stays, Becomes
  <2>5. CASE Begun
    BY <2>2, <2>3, <2>5 DEF Begun
  <2>6. CASE ~Rests /\ ~Begun
    BY <1>5, <2>0, <2>2, <2>6, HandlersKeepRead
  <2> QED
    BY <2>4, <2>5, <2>6
<1> QED
  BY <1>3, <1>4, <1>5

\* A request waited for is whole: what has been read of it and what has not are
\* its units in order.
LEMMA RequestAwaitedPreserved ==
  ASSUME ControlInvariant, DataInvariant, RequestInvariant, DataNext
  PROVE  RequestAwaited'
<1>1. /\ client.stream \in Seq(SentOf({Asked}))
      /\ upgoing_buffer \in Seq(SentOf({Asked}))
      /\ state \in Waiting => Arriving = <<>> \/ (Asked > 0 /\ Arriving = Latest)
  BY DEF RequestInvariant, RequestAwaited
<1>2. /\ DataTypes
      /\ client.stream \in Seq(SentOf(Made)) /\ upgoing_buffer \in Seq(SentOf(Made))
      /\ request_data \in Seq(SentOf(Made))
  BY DEF DataInvariant, DataTypes
<1>3. CASE Still
  BY <1>1, <1>3 DEF Still, environment, request, RequestAwaited, Arriving, Asked, Latest
<1>4. CASE RequestGrows
  <2>1. /\ request_data' = request_data \o upgoing_buffer /\ upgoing_buffer' = <<>>
        /\ state \in Waiting
    BY <1>4 DEF RequestGrows, Waiting
  <2>2. UNCHANGED client
    BY <1>4 DEF RequestGrows, ReportsError, Ran, RanOut, environment
  <2>3. request_data \o upgoing_buffer \in Seq(SentOf(Made))
    BY <1>2, ConcatProperties
  <2>4. (request_data \o upgoing_buffer) \o <<>> = request_data \o upgoing_buffer
    BY <2>3, ConcatEmptySeq
  <2>5. Arriving' = Arriving
    BY <2>1, <2>2, <2>4, Zenon DEF Arriving
  <2> QED
    BY <1>1, <2>1, <2>2, <2>5, EmptySeq DEF RequestAwaited, Asked, Latest
<1>5. CASE TakenOnKept \/ TakenAnew \/ PassesContent \/ PassesUp
  <2>1. /\ upgoing_buffer' = <<>> /\ UNCHANGED client /\ state' \notin Waiting
    BY <1>5 DEF TakenOnKept, TakenAnew, RequestTaken, SendsRequest, Resolves, PassesContent,
       PassesUp, Ran, environment, Stays, Turns, Becomes, Waiting
  <2> QED
    BY <1>1, <2>1, EmptySeq DEF RequestAwaited, Asked
<1>6. CASE AwaitsRequest
  <2>1. /\ UNCHANGED <<client, upgoing_buffer>> /\ request_data' = <<>>
        /\ state \in Responding /\ state \in Serving
    BY <1>6 DEF AwaitsRequest, ClearMessages, Ran, environment, buffers, Responding, Serving
  <2>2. \/ Drained
        \/ request_header = Asked - 1 /\ upgoing_buffer = <<>> /\ client.stream = Latest
    BY <2>1 DEF RequestInvariant, OneAtATime
  <2>3. request_header \in Made /\ Asked \in Nat /\ Asked > 0
    BY <1>2, <2>1, AskedType DEF DataInvariant, RequestInHand
  <2>4. upgoing_buffer = <<>> /\ client.stream \in {<<>>, Latest}
    BY <2>2 DEF Drained
  <2>5. <<>> \o <<>> = <<>> /\ \A s \in Seq(SentOf(Made)) : <<>> \o s = s
    BY ConcatEmptySeq, EmptySeq
  <2>6. Arriving' = client.stream
    BY <1>2, <2>1, <2>4, <2>5 DEF Arriving
  <2> QED
    BY <1>1, <2>1, <2>3, <2>4, <2>6 DEF RequestAwaited, Asked, Latest
<1>7. CASE Arrives
  <2>1. UNCHANGED request /\ state' = state
    BY <1>2, <1>7, ArrivalsKeep
  <2>2. CASE ClientDataRead
    <3>1. /\ upgoing_buffer = <<>>
          /\ upgoing_buffer' \in Seq(SentOf({Asked}))
          /\ client'.stream \in Seq(SentOf({Asked}))
          /\ upgoing_buffer' \o client'.stream = client.stream
          /\ client'.requests = client.requests
      BY <2>2, WhenClientIsRead
    <3>2. PICK read : read = upgoing_buffer'
      OBVIOUS
    <3>3. PICK rest : rest = client'.stream
      OBVIOUS
    <3>4. read \in Seq(SentOf({Asked} \cup Made)) /\ rest \in Seq(SentOf({Asked} \cup Made))
          /\ request_data \in Seq(SentOf({Asked} \cup Made))
      <4>1. SentOf({Asked}) \subseteq SentOf({Asked} \cup Made)
            /\ SentOf(Made) \subseteq SentOf({Asked} \cup Made)
        BY DEF SentOf
      <4> QED
        BY <1>2, <3>1, <3>2, <3>3, <4>1, SeqMonotonic
    <3>5. (request_data \o read) \o rest = request_data \o (read \o rest)
      BY <3>4, ConcatAssociative
    <3>6. request_data \o <<>> = request_data
      BY <1>2, ConcatEmptySeq
    <3>7. Arriving' = Arriving
      BY <2>1, <3>1, <3>2, <3>3, <3>5, <3>6, Zenon DEF Arriving, request
    <3> QED
      BY <1>1, <2>1, <3>1, <3>7 DEF RequestAwaited, Asked, Latest
  <2>3. CASE AClientSends
    <3>1. PICK r \in Requests : ClientSends(r)
      BY <2>3 DEF AClientSends
    <3>2. /\ upgoing_buffer' = <<>> /\ client'.stream = Latest'
          /\ Latest' \in Seq(SentOf({Asked'}))
          /\ Asked' > 0
          /\ state \in Waiting => request_data = <<>>
      BY <1>2, <3>1, WhenClientSends, AskedType DEF Drained
    <3>3. <<>> \o <<>> = <<>> /\ <<>> \o Latest' = Latest'
      BY <3>2, ConcatEmptySeq, EmptySeq
    <3>4. state \in Waiting => Arriving' = Latest'
      BY <2>1, <3>2, <3>3 DEF Arriving, request
    <3> QED
      BY <2>1, <3>2, <3>4, EmptySeq DEF RequestAwaited
  <2>4. CASE ClientTunnels
    <3>1. /\ state \in Tunnelling
          /\ client'.stream \in Seq(SentOf({Asked}))
          /\ client'.requests = client.requests
      BY <2>4, WhenClientTunnels
    <3>2. UNCHANGED upgoing_buffer
      BY <2>4 DEF ClientTunnels, proxy, contents, buffers
    <3> QED
      BY <1>1, <2>1, <3>1, <3>2 DEF RequestAwaited, Asked, Waiting, Tunnelling
  <2>5. CASE ~(ClientDataRead \/ AClientSends \/ ClientTunnels)
    <3>1. /\ UNCHANGED upgoing_buffer /\ client'.stream = client.stream
          /\ client'.requests = client.requests
      BY <1>2, <1>7, <2>5, ArrivalsKeep
    <3> QED
      BY <1>1, <2>1, <3>1 DEF RequestAwaited, Asked, Latest, Arriving, request
  <2> QED
    BY <2>2, <2>3, <2>4, <2>5
<1> QED
  BY <1>3, <1>4, <1>5, <1>6, <1>7, StillMoves

\* The request in hand is the last one made, or the one before it with all of its
\* reply told; and what the proxy awaits of it is what is on its way.
LEMMA OneAtATimePreserved ==
  ASSUME ControlInvariant, DataInvariant, RequestInvariant, DataNext
  PROVE  OneAtATime'
<1>1. DataTypes /\ Asked \in Nat /\ OneAtATime
  BY AskedType DEF DataInvariant, RequestInvariant
<1>2. state \in Serving =>
        /\ request_header \in Made
        /\ state \in Sending \cup Responding => Served.method # "CONNECT"
        /\ state \in Tunnelling => Served.method = "CONNECT"
        /\ RequestStatus(Served) = Accepted
        /\ Served.method # "CONNECT" =>
             read_request_context.content_length = IF HasContent(Served) THEN Served.length ELSE 0
  BY DEF DataInvariant, RequestInHand
<1>3. /\ client.stream \in Seq(SentOf(Made)) /\ upgoing_buffer \in Seq(SentOf(Made))
      /\ read_request_context \in RequestContexts
      /\ Len(client.stream) \in Nat /\ Len(upgoing_buffer) \in Nat
  BY LenProperties DEF DataInvariant, DataTypes
<1>4. CASE Still
  <2>1. /\ UNCHANGED <<client, upgoing_buffer, request_data, request_header, read_request_context>>
        /\ Asked' = Asked /\ Latest' = Latest /\ Served' = Served
    BY <1>4 DEF Still, environment, request, Asked, Latest, Served
  <2> SUFFICES ASSUME state' \in Serving PROVE OneAtATime'
    BY DEF OneAtATime
  <2>2. state \in Serving
    BY <1>4 DEF Still
  <2>3. ASSUME state \in Sending, RequestComplete(read_request_context)
        PROVE  Drained
    <3>1. /\ state \notin Relaying /\ state \in Serving
          /\ state \in Finding \cup Sending /\ Served.method # "CONNECT"
      BY <1>2, <2>3 DEF Sending, Serving, Relaying, Responding
    <3>2. request_header = Asked /\ request_header \in Made
      BY <1>1, <1>2, <3>1 DEF OneAtATime
    <3>3. /\ Served \in Requests /\ Served.length \in Nat /\ Len(Served.content) \in Nat
          /\ Served \in Request
      <4>1. request_header \in 1 .. Len(client.requests)
        BY <3>2 DEF Made
      <4>2. Served \in Requests
        BY <1>1, <4>1, ElementOfSeq DEF DataTypes, Served
      <4> QED
        BY <1>1, <3>2, <4>2, RequestType, LenProperties DEF DataTypes, Served
    <3>4. Len(Served.content) <= IF HasContent(Served) THEN Served.length ELSE 0
      BY <1>2, <3>1, <3>3, ClientsAssumption
    <3>5. read_request_context.content_length_has_read + Len(upgoing_buffer)
            + Len(client.stream) = Len(Served.content)
      BY <1>1, <3>1 DEF OneAtATime
    <3>6. read_request_context.content_length_has_read
            >= IF HasContent(Served) THEN Served.length ELSE 0
      BY <1>2, <2>3, <3>1 DEF RequestComplete
    <3>7. read_request_context.content_length_has_read \in Nat
      BY <1>3 DEF RequestContexts
    <3>8. Len(upgoing_buffer) = 0 /\ Len(client.stream) = 0
      BY <1>3, <3>3, <3>4, <3>5, <3>6, <3>7
    <3> QED
      BY <1>3, <3>8, EmptySeq DEF Drained
  <2>4. state' \in Responding /\ request_header = Asked => Drained
    BY <1>1, <1>4, <2>2, <2>3 DEF OneAtATime, Still
  <2>5. Drained' = Drained
    BY <2>1 DEF Drained
  <2>6. /\ state \in Relaying => state' \in Relaying
        /\ state' \in Finding \cup Sending => state \in Finding \cup Sending
    BY <1>4 DEF Still
  <2>7. request_data \in Seq(SentOf({request_header}))
    BY <1>1, <2>2 DEF OneAtATime
  <2>8. \/ request_header = Asked
        \/ /\ request_header = Asked - 1 /\ state \in Relaying
           /\ upgoing_buffer = <<>> /\ client.stream = Latest
    BY <1>1, <2>2 DEF OneAtATime
  <2>9. state \in Finding \cup Sending /\ Served.method # "CONNECT" =>
          read_request_context.content_length_has_read + Len(upgoing_buffer)
            + Len(client.stream) = Len(Served.content)
    BY <1>1, <2>2 DEF OneAtATime
  <2> QED
    BY <2>1, <2>4, <2>5, <2>6, <2>7, <2>8, <2>9 DEF OneAtATime
<1>5. CASE RequestGrows \/ AwaitsRequest
  <2>1. state' \in {"read_http_request_header", "report_error"}
    BY <1>5 DEF RequestGrows, ReportsError, AwaitsRequest, Stays, Turns, Becomes
  <2> QED
    BY <2>1 DEF OneAtATime, Serving, Finding, Sending, Responding, Tunnelling
<1>6. CASE TakenOnKept \/ TakenAnew
  <2>1. /\ RequestTaken /\ UNCHANGED environment /\ upgoing_buffer' = <<>>
        /\ state' \in {"write_http_request_header", "resolve_origin_server_address"}
    BY <1>6 DEF TakenOnKept, TakenAnew, RequestTaken, SendsRequest, Resolves, Ran, Becomes
  <2>2. /\ request_header' = Asked
        /\ request_data' \in Seq(SentOf({Asked}))
        /\ client.requests[Asked].method # "CONNECT" =>
             read_request_context'.content_length_has_read + Len(client.stream)
               = Len(client.requests[Asked].content)
    BY <2>1, WhenTaken
  <2>3. Asked' = Asked /\ client' = client /\ Served' = client.requests[Asked]
    BY <2>1, <2>2 DEF environment, Asked, Served
  <2>4. read_request_context'.content_length_has_read \in Nat /\ Len(upgoing_buffer') = 0
    BY <2>1, <1>1, RequestTakenTypes, EmptySeq DEF RequestContexts
  <2>5. state' \notin Responding
    BY <2>1 DEF Responding
  <2>6. Served'.method # "CONNECT" =>
          read_request_context'.content_length_has_read + Len(upgoing_buffer')
            + Len(client'.stream) = Len(Served'.content)
    BY <1>3, <2>2, <2>3, <2>4
  <2> QED
    BY <2>2, <2>3, <2>5, <2>6 DEF OneAtATime
<1>7. CASE PassesContent \/ PassesUp
  <2>1. /\ UNCHANGED <<client, request_data, request_header>> /\ upgoing_buffer' = <<>>
        /\ Asked' = Asked /\ Served' = Served
    BY <1>7 DEF PassesContent, PassesUp, request, Ran, environment, Asked, Served
  <2>2. /\ state \in Serving /\ state \notin Relaying /\ state' \notin Responding
        /\ state' \notin Relaying
    BY <1>7 DEF PassesContent, PassesUp, Stays, Turns, Becomes, Serving, Relaying, Responding,
       Sending, Tunnelling
  <2>3. request_header = Asked /\ request_data \in Seq(SentOf({request_header}))
    BY <1>1, <2>2 DEF OneAtATime
  <2>4. ASSUME state' \in Finding \cup Sending, Served.method # "CONNECT"
        PROVE  read_request_context'.content_length_has_read + Len(upgoing_buffer')
                 + Len(client'.stream) = Len(Served'.content)
    <3>1. PassesContent /\ state \in Sending
      BY <1>7, <2>4 DEF PassesContent, PassesUp, Stays, Becomes, Finding, Sending
    <3>2. read_request_context.content_length_has_read + Len(upgoing_buffer)
            + Len(client.stream) = Len(Served.content)
      BY <1>1, <2>2, <2>4, <3>1 DEF OneAtATime
    <3>3. read_request_context'.content_length_has_read
            = read_request_context.content_length_has_read + Len(upgoing_buffer)
      BY <1>3, <3>1 DEF PassesContent, RequestContexts
    <3>4. read_request_context.content_length_has_read \in Nat /\ Len(upgoing_buffer') = 0
      BY <1>3, <2>1, EmptySeq DEF RequestContexts
    <3> QED
      BY <1>3, <2>1, <3>2, <3>3, <3>4
  <2> QED
    BY <2>1, <2>2, <2>3, <2>4 DEF OneAtATime
<1>8. CASE Arrives
  <2> SUFFICES ASSUME state' \in Serving PROVE OneAtATime'
    BY DEF OneAtATime
  <2>1. UNCHANGED request /\ state' = state /\ state \in Serving
    BY <1>1, <1>8, ArrivalsKeep
  <2>2. /\ request_data \in Seq(SentOf({request_header}))
        /\ \/ request_header = Asked
           \/ /\ request_header = Asked - 1 /\ state \in Relaying
              /\ upgoing_buffer = <<>> /\ client.stream = Latest
        /\ state \in Responding /\ request_header = Asked => Drained
        /\ state \in Finding \cup Sending /\ Served.method # "CONNECT" =>
             read_request_context.content_length_has_read + Len(upgoing_buffer)
               + Len(client.stream) = Len(Served.content)
    BY <1>1, <2>1 DEF OneAtATime
  <2>3. CASE ClientDataRead
    <3>1. /\ state \in {"read_http_request_header", "read_http_request_content",
                        "tunnel_transfer"}
          /\ upgoing_buffer = <<>>
          /\ Len(upgoing_buffer') + Len(client'.stream) = Len(client.stream)
          /\ client'.requests = client.requests
          /\ upgoing_buffer' \in Seq(SentOf({Asked})) /\ client'.stream \in Seq(SentOf({Asked}))
      BY <2>3, WhenClientIsRead
    <3>2. state \notin Responding /\ state \notin Relaying
      BY <3>1 DEF Responding, Relaying
    <3>3. Asked' = Asked /\ Served' = Served
      BY <2>1, <3>1 DEF Asked, Served, request
    <3>4. Len(upgoing_buffer') \in Nat /\ Len(client'.stream) \in Nat /\ Len(upgoing_buffer) = 0
      BY <3>1, LenProperties, EmptySeq
    <3>5. read_request_context.content_length_has_read \in Nat
      BY <1>3 DEF RequestContexts
    <3>6. state \in Finding \cup Sending /\ Served.method # "CONNECT" =>
            read_request_context.content_length_has_read + Len(upgoing_buffer')
              + Len(client'.stream) = Len(Served.content)
      BY <1>3, <2>2, <3>1, <3>4, <3>5
    <3> QED
      BY <2>1, <2>2, <3>2, <3>3, <3>6 DEF OneAtATime, request
  <2>4. CASE AClientSends
    <3>1. PICK r \in Requests : ClientSends(r)
      BY <2>4 DEF AClientSends
    <3>2. /\ upgoing_buffer' = <<>> /\ client'.stream = Latest'
          /\ state \in Relaying /\ request_header = Asked /\ Asked' = Asked + 1
      BY <2>1, <3>1, WhenClientSends DEF Drained
    <3>3. request_header' = Asked' - 1 /\ request_header' # Asked'
      BY <1>1, <2>1, <3>2 DEF request
    <3>4. state \notin Finding \cup Sending
      BY <3>2 DEF Relaying, Responding, Finding, Sending
    <3> QED
      BY <2>1, <2>2, <3>2, <3>3, <3>4 DEF OneAtATime, request
  <2>5. CASE ClientTunnels
    <3>1. /\ state \in Tunnelling /\ request_header = Asked
          /\ client'.requests = client.requests
      BY <2>5, WhenClientTunnels
    <3>2. state \notin Responding /\ state \notin Finding \cup Sending
      BY <3>1 DEF Tunnelling, Responding, Finding, Sending
    <3>3. Asked' = Asked
      BY <3>1 DEF Asked
    <3> QED
      BY <2>1, <2>2, <3>1, <3>2, <3>3 DEF OneAtATime, request
  <2>6. CASE ~(ClientDataRead \/ AClientSends \/ ClientTunnels)
    <3>1. /\ UNCHANGED upgoing_buffer /\ client'.stream = client.stream
          /\ client'.requests = client.requests
      BY <1>1, <1>8, <2>6, ArrivalsKeep
    <3>2. Asked' = Asked /\ Latest' = Latest /\ Served' = Served /\ Drained' = Drained
      BY <2>1, <3>1 DEF Asked, Latest, Served, Drained, request
    <3> QED
      BY <2>1, <2>2, <3>1, <3>2 DEF OneAtATime, request
  <2> QED
    BY <2>3, <2>4, <2>5, <2>6
<1> QED
  BY <1>4, <1>5, <1>6, <1>7, <1>8, StillMoves

\* What is being written to an origin server is of the request in hand, and
\* nothing is once its reply is awaited.
LEMMA PassedOnPreserved ==
  ASSUME ControlInvariant, DataInvariant, RequestInvariant, DataNext
  PROVE  PassedOn'
<1>1. /\ DataTypes
      /\ state \in Waiting \cup Responding => to_origin = <<>>
      /\ state \in Serving \ Responding => to_origin \in Seq(PassedOf({request_header}))
  BY DEF DataInvariant, RequestInvariant, PassedOn
<1>2. CASE Still
  <2>1. request_header' = request_header
    BY <1>2 DEF Still, request
  <2>2. CASE UNCHANGED to_origin
    <3>1. state' \in Waiting \cup Responding => to_origin = <<>>
      BY <1>1, <1>2 DEF Still
    <3>2. state' \in Serving \ Responding => state \in Serving \ Responding
      BY <1>2 DEF Still
    <3> QED
      BY <1>1, <2>1, <2>2, <3>1, <3>2 DEF PassedOn
  <2>3. CASE ~UNCHANGED to_origin
    <3>1. /\ state \in Finding /\ state' = "write_http_request_header"
          /\ to_origin' = Rewritten(request_data)
      BY <1>2, <2>3 DEF Still
    <3>2. state \in Serving
      BY <3>1 DEF Serving
    <3>3. request_data \in Seq(SentOf({request_header})) /\ HeaderEnd(request_data) # 0
      BY <3>2 DEF DataInvariant, RequestInHand, RequestInvariant, OneAtATime
    <3>4. Rewritten(request_data) \in Seq(PassedOf({request_header}))
      BY <3>3, RewrittenType
    <3> QED
      BY <2>1, <3>1, <3>4 DEF PassedOn, Waiting, Responding
  <2> QED
    BY <2>2, <2>3
<1>3. CASE RequestGrows
  <2>1. /\ UNCHANGED to_origin /\ state \in Waiting
        /\ state' \in {"read_http_request_header", "report_error"}
    BY <1>3 DEF RequestGrows, ReportsError, Stays, Turns, Becomes, writes, Waiting
  <2> QED
    BY <1>1, <2>1 DEF PassedOn, Serving, Finding, Sending, Responding, Tunnelling
<1>4. CASE TakenOnKept \/ TakenAnew
  <2>1. RequestTaken /\ UNCHANGED environment /\ state \in Waiting
    BY <1>4 DEF TakenOnKept, TakenAnew, RequestTaken, SendsRequest, Resolves, Ran, Waiting
  <2>2. PICK data : data = request_data'
    OBVIOUS
  <2>3. /\ request_header' = Asked
        /\ data \in Seq(SentOf({Asked})) /\ HeaderEnd(data) # 0
    BY <2>1, <2>2, WhenTaken
  <2>4. Rewritten(data) \in Seq(PassedOf({Asked}))
    BY <2>3, RewrittenType
  <2>5. \/ to_origin' = Rewritten(data) /\ state' = "write_http_request_header"
        \/ UNCHANGED to_origin /\ state' = "resolve_origin_server_address"
    BY <1>4, <2>2 DEF TakenOnKept, TakenAnew, SendsRequest, Resolves, Becomes, writes
  <2> QED
    BY <1>1, <2>1, <2>3, <2>4, <2>5, EmptySeq DEF PassedOn, Waiting, Responding
<1>5. CASE PassesContent \/ PassesUp
  <2>1. /\ to_origin' = upgoing_buffer /\ request_header' = request_header
        /\ state \in Serving /\ state \notin Relaying
        /\ state' \notin Waiting \cup Responding
    BY <1>5 DEF PassesContent, PassesUp, request, Stays, Turns, Becomes, Serving, Sending,
       Tunnelling, Relaying, Responding, Waiting
  <2>2. request_header = Asked
    BY <2>1 DEF RequestInvariant, OneAtATime
  <2>3. upgoing_buffer \in Seq(SentOf({Asked}))
    BY DEF RequestInvariant, RequestAwaited
  <2>4. SentOf({Asked}) \subseteq PassedOf({Asked})
    BY SentArePassed
  <2>5. upgoing_buffer \in Seq(PassedOf({Asked}))
    BY <2>3, <2>4, SeqMonotonic
  <2> QED
    BY <2>1, <2>2, <2>5 DEF PassedOn
<1>6. CASE AwaitsRequest
  <2>1. /\ UNCHANGED to_origin /\ state \in Responding
        /\ state' = "read_http_request_header"
    BY <1>6 DEF AwaitsRequest, writes, Responding, Turns, Becomes
  <2> QED
    BY <1>1, <2>1 DEF PassedOn, Serving, Finding, Sending, Responding, Tunnelling
<1>7. CASE Arrives
  <2>1. state' = state /\ request_header' = request_header
    BY <1>1, <1>7, ArrivalsKeep DEF request
  <2>2. CASE OriginDataWrite
    <3>1. /\ state \in Writing \cup {"tunnel_transfer"}
          /\ request_header = Asked
          /\ to_origin' \in Seq(PassedOf({Asked}))
      BY <2>2, WhenOriginIsWritten
    <3> QED
      BY <2>1, <3>1 DEF PassedOn, Writing, Waiting, Responding
  <2>3. CASE ~OriginDataWrite
    <3>1. UNCHANGED to_origin
      BY <1>1, <1>7, <2>3, ArrivalsKeep
    <3> QED
      BY <1>1, <2>1, <3>1 DEF PassedOn
  <2> QED
    BY <2>2, <2>3
<1> QED
  BY <1>2, <1>3, <1>4, <1>5, <1>6, <1>7, StillMoves

\* What is written to an origin server next was being written, comes from the
\* client, or is a request with its header, which is not for a tunnel.
LEMMA WhatIsPassedOn ==
  ASSUME ControlInvariant, DataInvariant, RequestInvariant, DataNext,
         NEW u \in Reached' \cup ToSet(to_origin')
  PROVE  /\ u.of \in Made /\ client'.requests[u.of] = client.requests[u.of]
         /\ \/ u \in Reached \cup ToSet(to_origin)
            \/ /\ u.of = request_header' /\ request_header' \in Made
               /\ state' \in Serving
               /\ u.part = "header" => client.requests[u.of].method # "CONNECT"
<1>1. DataTypes
  BY DEF DataInvariant
<1>2. Reached' \subseteq Reached \cup ToSet(to_origin)
  BY <1>1, NothingElseReached
<1>3. \/ u \in Reached \cup ToSet(to_origin)
      \/ /\ u.of = request_header' /\ request_header' \in Made
         /\ state' \in Serving
         /\ u.part = "header" => client.requests[u.of].method # "CONNECT"
  <2> SUFFICES ASSUME u \in ToSet(to_origin'), u \notin ToSet(to_origin)
               PROVE  /\ u.of = request_header' /\ request_header' \in Made
                      /\ state' \in Serving
                      /\ u.part = "header" => client.requests[u.of].method # "CONNECT"
    BY <1>2
  <2>1. to_origin' # to_origin
    OBVIOUS
  <2>2. CASE Still
    <3>1. /\ state \in Finding /\ state' = "write_http_request_header"
          /\ Served.method # "CONNECT"
          /\ to_origin' = Rewritten(request_data)
          /\ request_header' = request_header
      BY <2>1, <2>2 DEF Still, request
    <3>2. state \in Serving
      BY <3>1 DEF Serving
    <3>3. /\ request_data \in Seq(SentOf({request_header})) /\ HeaderEnd(request_data) # 0
          /\ request_header \in Made
      BY <3>2 DEF DataInvariant, RequestInHand, RequestInvariant, OneAtATime
    <3>4. u \in PassedOf({request_header})
      BY <3>1, <3>3, RewrittenUnits
    <3> QED
      BY <3>1, <3>3, <3>4 DEF PassedOf, Served, Serving, Sending
  <2>3. CASE TakenOnKept \/ TakenAnew
    <3>1. PICK data : data = request_data'
      OBVIOUS
    <3>2. /\ RequestTaken /\ UNCHANGED environment
          /\ client.requests[request_header'].method # "CONNECT"
          /\ to_origin' = Rewritten(data)
          /\ state' = "write_http_request_header"
      BY <2>1, <2>3, <3>1 DEF TakenOnKept, TakenAnew, SendsRequest, Resolves, Ran, writes, Becomes
    <3>3. /\ request_header' = Asked /\ Asked \in Made
          /\ data \in Seq(SentOf({Asked})) /\ HeaderEnd(data) # 0
      BY <3>1, <3>2, WhenTaken
    <3>4. u \in PassedOf({Asked})
      BY <3>2, <3>3, RewrittenUnits
    <3> QED
      BY <3>2, <3>3, <3>4 DEF PassedOf, Serving, Sending
  <2>4. CASE PassesContent \/ PassesUp
    <3>1. /\ to_origin' = upgoing_buffer /\ request_header' = request_header
          /\ state \in Serving /\ state \notin Relaying /\ state' \in Serving
      BY <2>4 DEF PassesContent, PassesUp, request, Stays, Turns, Becomes, Serving, Sending,
         Tunnelling, Relaying, Responding
    <3>2. request_header = Asked /\ request_header \in Made
      BY <3>1 DEF RequestInvariant, OneAtATime, DataInvariant, RequestInHand
    <3>3. upgoing_buffer \in Seq(SentOf({Asked}))
      BY DEF RequestInvariant, RequestAwaited
    <3>4. u \in SentOf({Asked})
      BY <3>1, <3>3, UnitsIn
    <3>5. u.of = Asked /\ u.part \in SentPart
      BY <3>4 DEF SentOf
    <3> QED
      BY <3>1, <3>2, <3>5 DEF SentPart, ContentPart
  <2>5. CASE RequestGrows \/ AwaitsRequest
    BY <2>1, <2>5 DEF RequestGrows, ReportsError, AwaitsRequest, writes
  <2>6. CASE Arrives
    <3>1. OriginDataWrite
      BY <1>1, <2>1, <2>6, ArrivalsKeep
    <3> QED
      BY <3>1, WhenOriginIsWritten
  <2> QED
    BY <2>2, <2>3, <2>4, <2>5, <2>6, StillMoves
<1>4. u.of \in Made
  BY <1>1, <1>3, UnitsPassed DEF PassedOf
<1> QED
  BY <1>1, <1>3, <1>4, RequestsGrow

\* No CONNECT request is passed on.
LEMMA NoTunnelPassedOnPreserved ==
  ASSUME ControlInvariant, DataInvariant, RequestInvariant, DataNext
  PROVE  NoTunnelPassedOn'
<1>1. NoTunnelPassedOn
  BY DEF RequestInvariant
<1>2. ASSUME NEW u \in Reached' \cup ToSet(to_origin'), u.part = "header"
      PROVE  client'.requests[u.of].method # "CONNECT"
  BY <1>1, <1>2, WhatIsPassedOn DEF NoTunnelPassedOn
<1> QED
  BY <1>2 DEF NoTunnelPassedOn

\* A request some of which has reached an origin server stays in hand until it is
\* answered, and nothing of it is left then.
LEMMA WrittenInHandPreserved ==
  ASSUME ControlInvariant, DataInvariant, RequestInvariant, DataNext
  PROVE  WrittenInHand'
<1>1. /\ DataTypes /\ Asked \in Nat
      /\ \A k \in Made : k \in 1 .. Asked
      /\ Len(replies) \in Nat /\ Len(replies) <= Asked
  BY AskedType, LenProperties DEF DataInvariant, DataTypes, Asked
<1>2. /\ Written =>
           request_header = Asked \/ (request_header = 0 /\ Drained /\ request_data = <<>>)
      /\ Asked > 0 /\ Len(replies) = Asked =>
           Written /\ client.requests[Asked].method # "CONNECT"
  BY DEF RequestInvariant, WrittenInHand
<1>3. /\ Reached \subseteq Reached'
      /\ OriginDataWrite \/ Reached' = Reached
  BY <1>1, NothingElseReached
<1>4. \A u \in Reached : u.of \in Made
  BY <1>1, UnitsPassed DEF PassedOf
<1>5. Written => Asked > 0
  BY <1>1, <1>4 DEF Written
<1>6. Asked' = Asked => (Written => Written')
  BY <1>3 DEF Written
<1>7. ASSUME ~Arrives
      PROVE  /\ Asked' = Asked /\ Written' = Written
             /\ UNCHANGED <<client, replies>>
  <2>1. UNCHANGED environment
    BY <1>7, OnlyArrivalsChangeEnvironment
  <2> QED
    BY <2>1 DEF environment, Asked, Written, Reached, GotBy
<1>8. CASE Still /\ ~Arrives
  <2>1. UNCHANGED <<request, upgoing_buffer>>
    BY <1>8 DEF Still
  <2> QED
    BY <1>2, <1>7, <1>8, <2>1 DEF WrittenInHand, request, Drained
<1>9. CASE RequestGrows /\ ~Arrives
  <2>1. /\ request_data' = request_data \o upgoing_buffer /\ upgoing_buffer' = <<>>
        /\ request_header = 0 /\ request_header' = request_header
    BY <1>9 DEF RequestGrows, Waiting, DataInvariant, RequestInHand
  <2>2. Written => request_data' = <<>> /\ Drained'
    <3>1. Written => request_data = <<>> /\ Drained
      BY <1>1, <1>2, <1>5, <2>1
    <3>2. Drained /\ request_data = <<>> => request_data' = <<>> /\ Drained'
      BY <1>7, <1>9, <2>1, ConcatEmptySeq, EmptySeq DEF Drained
    <3> QED
      BY <3>1, <3>2
  <2> QED
    BY <1>2, <1>7, <1>9, <2>1, <2>2 DEF WrittenInHand
<1>10. CASE (TakenOnKept \/ TakenAnew) /\ ~Arrives
  <2>1. RequestTaken /\ UNCHANGED environment
    BY <1>10 DEF TakenOnKept, TakenAnew, RequestTaken, SendsRequest, Resolves, Ran
  <2>2. request_header' = Asked
    BY <2>1, WhenTaken
  <2> QED
    BY <1>2, <1>7, <1>10, <2>2 DEF WrittenInHand
<1>11. CASE (PassesContent \/ PassesUp) /\ ~Arrives
  <2>1. /\ request_header' = request_header
        /\ state \in Serving /\ state \notin Relaying
    BY <1>11 DEF PassesContent, PassesUp, request, Serving, Sending, Tunnelling, Relaying,
       Responding
  <2>2. request_header = Asked
    BY <2>1 DEF RequestInvariant, OneAtATime
  <2> QED
    BY <1>2, <1>7, <1>11, <2>1, <2>2 DEF WrittenInHand
<1>12. CASE AwaitsRequest /\ ~Arrives
  <2>1. /\ request_header' = 0 /\ request_data' = <<>> /\ UNCHANGED upgoing_buffer
        /\ state \in Responding /\ state \in Serving
    BY <1>12 DEF AwaitsRequest, ClearMessages, buffers, Responding, Serving
  <2>2. request_header \in Made /\ (request_header = Asked => Drained)
    BY <2>1 DEF DataInvariant, RequestInHand, RequestInvariant, OneAtATime
  <2>3. Written => Drained
    BY <1>1, <1>2, <2>2
  <2> QED
    BY <1>2, <1>7, <1>12, <2>1, <2>3 DEF WrittenInHand, Drained
<1>13. CASE Arrives
  <2>1. UNCHANGED request
    BY <1>1, <1>13, ArrivalsKeep
  <2>2. CASE AClientSends
    <3>1. PICK r \in Requests : ClientSends(r)
      BY <2>2 DEF AClientSends
    <3>2. Asked' = Asked + 1 /\ UNCHANGED <<origins, replies>>
      BY <3>1, WhenClientSends DEF ClientSends
    <3>3. Reached' = Reached
      BY <3>2 DEF Reached, GotBy
    <3>4. ~Written'
      BY <1>1, <1>4, <3>2, <3>3 DEF Written
    <3>5. Len(replies') # Asked'
      BY <1>1, <3>2
    <3> QED
      BY <3>4, <3>5 DEF WrittenInHand
  <2>3. CASE OriginDataWrite /\ ~AClientSends
    <3>1. request_header = Asked
      BY <2>3, WhenOriginIsWritten
    <3>2. client' = client /\ UNCHANGED replies
      BY <2>3 DEF OriginDataWrite
    <3> QED
      BY <1>2, <1>6, <2>1, <3>1, <3>2 DEF WrittenInHand, Asked, request
  <2>4. CASE (\E r \in Responses : OriginReplies(r)) /\ ~OriginDataWrite
    <3>1. UNCHANGED <<client, upgoing_buffer>>
      BY <2>4 DEF OriginReplies, proxy, contents, buffers
    <3>2. Asked' = Asked /\ Drained' = Drained /\ Written' = Written
      BY <1>3, <2>4, <3>1 DEF Asked, Drained, Written
    <3>3. ASSUME Asked > 0, Len(replies') = Asked
          PROVE  Written /\ client.requests[Asked].method # "CONNECT"
      <4>1. PICK r \in Responses : OriginReplies(r)
        BY <2>4
      <4>2. Len(replies') = Len(replies) + 1
        BY <1>1, <4>1, OneMore DEF OriginReplies, DataTypes
      <4>3. Len(replies) + 1 = Asked
        BY <3>3, <4>2
      <4>4. Holds(Origin, Forwarded(Asked, client.requests[Asked])[1]) /\ origins # <<>>
        BY <4>1, <4>3 DEF OriginReplies, OriginLives, OriginConnected
      <4>5. PICK u : u = Forwarded(Asked, client.requests[Asked])[1]
        OBVIOUS
      <4>6. u.of = Asked /\ u.part = "header"
        <5>1. PICK wire : wire = OnTheWire(Asked, client.requests[Asked])
          OBVIOUS
        <5>2. wire \in Seq(SentOf({Asked})) /\ HeaderEnd(wire) # 0
          BY <1>1, <3>3, <5>1, AskedType, RequestType, OnTheWireType DEF DataTypes
        <5>3. PICK e : e = HeaderEnd(wire)
          OBVIOUS
        <5>4. PICK rest : rest = SubSeq(wire, e + 1, Len(wire))
          OBVIOUS
        <5>5. e \in 1 .. Len(wire)
          BY <5>2, <5>3, HeaderEndIsFirst
        <5>6. rest \in Seq(SentOf({Asked})) /\ wire[e] \in SentOf({Asked})
          BY <5>2, <5>4, <5>5, CutInTwo, ElementOfSeq
        <5>7. PICK first : first = [wire[e] EXCEPT !.part = "header"]
          OBVIOUS
        <5>8. first.of = Asked /\ first.part = "header" /\ first \in PassedOf({Asked})
          BY <5>6, <5>7 DEF SentOf, PassedOf, Part
        <5>9. rest \in Seq(PassedOf({Asked}))
          BY <5>6, SentArePassed, SeqMonotonic
        <5>10. Forwarded(Asked, client.requests[Asked]) = <<first>> \o rest
          BY <5>1, <5>3, <5>4, <5>7, Zenon DEF Forwarded, Rewritten
        <5>11. (<<first>> \o rest)[1] = first
          BY <5>8, <5>9
        <5> QED
          BY <4>5, <5>8, <5>10, <5>11
      <4>7. u \in Reached
        <5>1. Len(origins) \in DOMAIN origins /\ Origin = origins[Len(origins)]
          BY <1>1, <4>4, OriginType, LenProperties DEF DataTypes
        <5>2. u \in ToSet(Origin.received)
          BY <1>1, <4>4, <4>5, <5>1, RecordsType, UnitsIn DEF Holds, Contains
        <5> QED
          BY <5>1, <5>2 DEF Reached, GotBy
      <4> QED
        BY <4>6, <4>7 DEF Written, RequestInvariant, NoTunnelPassedOn
    <3> QED
      BY <1>2, <2>1, <3>1, <3>2, <3>3 DEF WrittenInHand, request
  <2>5. CASE ~(AClientSends \/ OriginDataWrite \/ \E r \in Responses : OriginReplies(r))
    <3>1. client'.requests = client.requests /\ UNCHANGED replies
      BY <1>1, <1>13, <2>5, ArrivalsKeep
    <3>2. Asked' = Asked /\ Written' = Written
      BY <1>3, <2>5, <3>1 DEF Asked, Written
    <3>3. CASE ClientDataRead
      <4>1. client.stream # <<>>
        BY <3>3, WhenClientIsRead
      <4> QED
        BY <1>2, <2>1, <3>1, <3>2, <4>1 DEF WrittenInHand, Drained, request
    <3>4. CASE ClientTunnels
      <4>1. request_header = Asked
        BY <3>4, WhenClientTunnels
      <4> QED
        BY <1>2, <2>1, <3>1, <3>2, <4>1 DEF WrittenInHand, request
    <3>5. CASE ~(ClientDataRead \/ ClientTunnels)
      <4>1. Drained' = Drained
        BY <1>1, <1>13, <2>5, <3>5, ArrivalsKeep DEF Drained
      <4> QED
        BY <1>2, <2>1, <3>1, <3>2, <4>1 DEF WrittenInHand, request
    <3> QED
      BY <3>3, <3>4, <3>5
  <2> QED
    BY <2>2, <2>3, <2>4, <2>5
<1> QED
  BY <1>8, <1>9, <1>10, <1>11, <1>12, <1>13, StillMoves

\* What the client is told next is the proxy's own page, or comes from an origin
\* server whose reply is awaited.
LEMMA WhatIsTold ==
  ASSUME ControlInvariant, DataInvariant, RequestInvariant, DataNext, Still,
         NEW u \in Told', u \notin Told
  PROVE  \/ u.part = "error"
         \/ u.part = "established" /\ state' \in Tunnelling /\ u.of = request_header
         \/ /\ u.part # "established"
            /\ state = "read_http_response_header" /\ state' \in Relaying
         \/ /\ u.part # "established"
            /\ state \in {"read_http_response_content", "tunnel_transfer"}
            /\ u.part # "tunnel" => u.of \in DOMAIN replies
<1>1. UNCHANGED client
  BY DEF Still, environment
<1>2. u \in ToSet(to_client') /\ to_client' # to_client
  BY <1>1 DEF Told
<1>3. CASE Complains
  <2>1. PICK status \in Nat : to_client' = ErrorReply(status)
    BY <1>3 DEF Complains
  <2>2. u = [of |-> 0, part |-> "error", n |-> status]
    BY <1>2, <2>1 DEF ErrorReply, ToSet
  <2> QED
    BY <2>2
<1>4. CASE state' \in Tunnelling /\ to_client' = Established(request_header)
  <2>1. u = [of |-> request_header, part |-> "established", n |-> 1]
    BY <1>2, <1>4 DEF Established, ToSet
  <2> QED
    BY <1>4, <2>1
<1>5. CASE /\ state = "read_http_response_header" /\ state' \in Relaying
           /\ response_data' = response_data \o downgoing_buffer
           /\ HeaderEnd(response_data') # 0
           /\ to_client' = Rewritten(response_data')
  <2>1. PICK data : data = response_data \o downgoing_buffer
    OBVIOUS
  <2>2. data \in Seq(SentOf(Made))
    BY <2>1, ConcatProperties DEF DataInvariant, DataTypes
  <2>3. u.part = "header" \/ u \in ToSet(data)
    BY <1>2, <1>5, <2>1, <2>2, RewrittenUnits
  <2>4. ToSet(data) \subseteq SentOf(Made)
    BY <2>2, UnitsIn, Zenon
  <2>5. \A v \in SentOf(Made) : v.part # "established"
    BY DEF SentOf, SentPart, ContentPart
  <2>6. u.part # "established"
    BY <2>3, <2>4, <2>5
  <2> QED
    BY <1>5, <2>6
<1>6. CASE /\ state \in {"read_http_response_content", "tunnel_transfer"}
           /\ to_client' = downgoing_buffer
  <2>1. downgoing_buffer \in Seq(ReplyUnit)
    BY DEF DataInvariant, ReplyData
  <2>2. u \in ReplyUnit
    BY <1>2, <1>6, <2>1, UnitsIn
  <2>3. u.part \in SentPart /\ (u.part # "tunnel" => u.of \in DOMAIN replies)
    BY <2>2 DEF ReplyUnit, SentOf
  <2> QED
    BY <1>6, <2>3 DEF SentPart, ContentPart
<1> QED
  BY <1>2, <1>3, <1>4, <1>5, <1>6 DEF Still

\* Whatever part of a reply the client has or is about to get, the reply is to the
\* request in hand, or to the last one and complete.
LEMMA RepliedInHandPreserved ==
  ASSUME ControlInvariant, DataInvariant, RequestInvariant, DataNext
  PROVE  RepliedInHand'
<1> DEFINE Opened == \E u \in Told : u.part = "established"
<1>1. /\ DataTypes /\ Asked \in Nat
      /\ \A k \in Made : k \in 1 .. Asked
      /\ Len(replies) \in Nat /\ Len(replies) <= Asked /\ DOMAIN replies = 1 .. Len(replies)
  BY AskedType, LenProperties DEF DataInvariant, DataTypes, Asked
<1>2. /\ Replied =>
           \/ request_header = Asked /\ state \in Relaying
           \/ /\ request_header = 0 /\ state = "read_http_request_header"
              /\ Drained /\ request_data = <<>>
      /\ Opened => state \in Tunnelling
  BY DEF RequestInvariant, RepliedInHand
<1>3. SUFFICES /\ Replied' =>
                    \/ request_header' = Asked' /\ state' \in Relaying
                    \/ /\ request_header' = 0 /\ state' = "read_http_request_header"
                       /\ Drained' /\ request_data' = <<>>
               /\ Opened' => state' \in Tunnelling
  BY DEF RepliedInHand
<1>4. Told' \subseteq Told /\ Asked' = Asked => (Replied' => Replied) /\ (Opened' => Opened)
  BY DEF Replied
<1>5. ASSUME ~Arrives
      PROVE  UNCHANGED client /\ Asked' = Asked
  BY <1>5, OnlyArrivalsChangeEnvironment DEF environment, Asked
<1>6. ASSUME UNCHANGED <<client, to_client>>
      PROVE  Told' \subseteq Told /\ Asked' = Asked
  BY <1>6 DEF Told, Asked
<1>7. CASE Still /\ ~Arrives
  <2>1. /\ UNCHANGED <<request_header, request_data, upgoing_buffer>>
        /\ Drained' = Drained
        /\ state \in Relaying => state' \in Relaying
        /\ state \in Tunnelling => state' \in Tunnelling
        /\ state = "read_http_request_header" => state' = state
    BY <1>5, <1>7 DEF Still, request, Drained
  <2>2. Opened' => state' \in Tunnelling
    <3>1. ASSUME NEW u \in Told', u.part = "established"
          PROVE  state' \in Tunnelling
      <4>1. CASE u \in Told
        BY <1>2, <2>1, <3>1, <4>1
      <4>2. CASE u \notin Told
        BY <1>7, <3>1, <4>2, WhatIsTold
      <4> QED
        BY <4>1, <4>2
    <3> QED
      BY <3>1
  <2>3. ASSUME NEW u \in Told', u.of = Asked, u.part \notin {"error", "established", "tunnel"}
        PROVE  \/ request_header' = Asked' /\ state' \in Relaying
               \/ /\ request_header' = 0 /\ state' = "read_http_request_header"
                  /\ Drained' /\ request_data' = <<>>
    <3>1. CASE u \in Told
      <4>1. Replied
        BY <2>3, <3>1 DEF Replied
      <4> QED
        BY <1>2, <1>5, <1>7, <2>1, <4>1
    <3>2. CASE u \notin Told
      <4>1. \/ state = "read_http_response_header" /\ state' \in Relaying
            \/ /\ state \in {"read_http_response_content", "tunnel_transfer"}
               /\ Asked \in DOMAIN replies
        BY <1>7, <2>3, <3>2, WhatIsTold
      <4>2. state \in Serving /\ request_header \in Made
        BY <4>1 DEF Serving, Responding, Tunnelling, DataInvariant, RequestInHand
      <4>3. CASE state = "read_http_response_header" /\ state' \in Relaying
        <5>1. request_header = Asked
          BY <4>2, <4>3 DEF RequestInvariant, OneAtATime, Relaying
        <5> QED
          BY <1>5, <1>7, <2>1, <4>3, <5>1
      <4>4. CASE /\ state \in {"read_http_response_content", "tunnel_transfer"}
                 /\ Asked \in DOMAIN replies
        <5>1. Asked > 0 /\ Len(replies) = Asked
          <6>1. PICK n \in Nat : n = Len(replies)
            BY <1>1
          <6>2. Asked \in 1 .. n /\ n <= Asked
            BY <1>1, <4>4, <6>1, Zenon
          <6>3. Asked > 0 /\ n = Asked
            BY <1>1, <6>2
          <6> QED
            BY <6>1, <6>3, Zenon
        <5>2. Written /\ client.requests[Asked].method # "CONNECT"
          BY <5>1 DEF RequestInvariant, WrittenInHand
        <5>3. request_header = Asked
          <6>1. request_header \in 1 .. Asked
            BY <1>1, <4>2, Zenon
          <6>2. request_header # 0
            BY <1>1, <6>1
          <6> QED
            BY <5>2, <6>2 DEF RequestInvariant, WrittenInHand
        <5>4. state # "tunnel_transfer"
          BY <4>2, <5>2, <5>3 DEF DataInvariant, RequestInHand, Served, Tunnelling
        <5>5. state \in Relaying
          BY <4>4, <5>4 DEF Relaying, Responding
        <5> QED
          BY <1>5, <1>7, <2>1, <5>3, <5>5
      <4> QED
        BY <4>1, <4>3, <4>4
    <3> QED
      BY <3>1, <3>2
  <2> QED
    BY <1>5, <1>7, <2>2, <2>3 DEF Replied
<1>8. CASE RequestGrows /\ ~Arrives
  <2>1. /\ request_data' = request_data \o upgoing_buffer /\ upgoing_buffer' = <<>>
        /\ request_header = 0 /\ request_header' = request_header
        /\ state = "read_http_request_header" /\ state \notin Tunnelling
    BY <1>8 DEF RequestGrows, Waiting, DataInvariant, RequestInHand, Tunnelling
  <2>2. Drained /\ request_data = <<>> => request_data' = <<>> /\ Drained'
    BY <1>5, <1>8, <2>1, ConcatEmptySeq, EmptySeq DEF Drained
  <2>3. \/ UNCHANGED to_client /\ state' = state
        \/ Complains /\ request_data' # <<>>
    BY <1>8 DEF RequestGrows, ReportsError, Stays, Becomes, writes
  <2>4. \A u \in Told' : u \in Told \/ u.part = "error"
    <3>1. Complains => \A u \in ToSet(to_client') : u.part = "error"
      BY DEF Complains, ErrorReply, ToSet
    <3> QED
      BY <1>5, <1>8, <2>3, <3>1 DEF Told
  <2>5. (Replied' => Replied) /\ (Opened' => Opened)
    BY <1>5, <1>8, <2>4 DEF Replied
  <2>6. Replied => Drained /\ request_data = <<>>
    BY <1>2, <2>1 DEF Relaying, Responding
  <2> QED
    BY <1>2, <2>1, <2>2, <2>3, <2>5, <2>6
<1>9. CASE (TakenOnKept \/ TakenAnew) /\ ~Arrives
  <2>1. /\ RequestTaken /\ UNCHANGED environment /\ UNCHANGED to_client
        /\ state \notin Tunnelling
    BY <1>9 DEF TakenOnKept, TakenAnew, RequestTaken, SendsRequest, Resolves, Ran, writes,
       Tunnelling
  <2>2. ~Replied
    BY <2>1, WhenTaken
  <2> QED
    BY <1>2, <1>4, <1>5, <1>6, <1>9, <2>1, <2>2
<1>10. CASE (PassesContent \/ PassesUp) /\ ~Arrives
  <2>1. /\ UNCHANGED to_client /\ state \notin Relaying
        /\ state # "read_http_request_header"
        /\ state \in Tunnelling => state' \in Tunnelling
    BY <1>10 DEF PassesContent, PassesUp, Stays, Becomes, Tunnelling, Relaying, Responding
  <2> QED
    BY <1>2, <1>4, <1>5, <1>6, <1>10, <2>1
<1>11. CASE AwaitsRequest /\ ~Arrives
  <2>1. /\ UNCHANGED <<to_client, upgoing_buffer>>
        /\ request_header' = 0 /\ request_data' = <<>>
        /\ state' = "read_http_request_header"
        /\ state \notin Tunnelling /\ state \in Responding /\ state \in Serving
    BY <1>11 DEF AwaitsRequest, ClearMessages, writes, buffers, Turns, Becomes, Tunnelling,
       Responding, Serving
  <2>2. Replied => Drained
    BY <1>2, <2>1 DEF RequestInvariant, OneAtATime
  <2>3. Drained' = Drained
    BY <1>5, <1>11, <2>1 DEF Drained
  <2> QED
    BY <1>2, <1>4, <1>5, <1>6, <1>11, <2>1, <2>2, <2>3
<1>12. CASE Arrives
  <2>1. UNCHANGED request /\ state' = state /\ Told' \subseteq Told
    BY <1>1, <1>12, ArrivalsKeep, NothingElseTold
  <2>2. Opened' => state' \in Tunnelling
    BY <1>2, <2>1
  <2>3. CASE AClientSends
    <3>1. PICK r \in Requests : ClientSends(r)
      BY <2>3 DEF AClientSends
    <3>2. Asked' = Asked + 1
      BY <3>1, WhenClientSends
    <3>3. \A u \in Told : u.of # Asked + 1
      BY <1>1, UnitsPassed DEF ToldUnit, PassedOf
    <3>4. ~Replied'
      BY <2>1, <3>2, <3>3 DEF Replied
    <3> QED
      BY <2>2, <3>4
  <2>4. CASE ~AClientSends
    <3>1. client'.requests = client.requests
      BY <1>1, <1>12, <2>4, ArrivalsKeep
    <3>2. Asked' = Asked /\ (Replied' => Replied)
      BY <1>4, <2>1, <3>1 DEF Asked
    <3>3. CASE ClientDataRead
      <4>1. client.stream # <<>> /\ state \notin Relaying
        BY <3>3, WhenClientIsRead DEF Relaying, Responding
      <4> QED
        BY <1>2, <2>2, <3>2, <4>1 DEF Drained
    <3>4. CASE ClientTunnels
      <4>1. state \in Tunnelling
        BY <3>4, WhenClientTunnels
      <4> QED
        BY <1>2, <2>2, <3>2, <4>1 DEF Tunnelling, Relaying, Responding
    <3>5. CASE ~(ClientDataRead \/ ClientTunnels)
      <4>1. Drained' = Drained
        BY <1>1, <1>12, <2>4, <3>5, ArrivalsKeep DEF Drained
      <4> QED
        BY <1>2, <2>1, <2>2, <3>2, <4>1 DEF request
    <3> QED
      BY <3>3, <3>4, <3>5
  <2> QED
    BY <2>3, <2>4
<1> QED
  BY <1>7, <1>8, <1>9, <1>10, <1>11, <1>12, StillMoves

\* A connection just constructed has no request.
LEMMA InitialRequest ==
  ASSUME Init
  PROVE  RequestInvariant
<1>1. /\ Asked = 0 /\ Drained /\ request_data = <<>> /\ request_header = 0
      /\ state = "read_cipher_data" /\ to_origin = <<>> /\ to_client = <<>>
      /\ client.received = <<>> /\ origins = <<>> /\ replies = <<>>
      /\ ops["read_client"] = "idle"
  BY DEF Init, Asked, Drained, state, Operation
<1>2. state \in Waiting /\ state \notin Serving
  BY <1>1 DEF Waiting, Serving, Finding, Sending, Responding, Tunnelling
<1>3. Reached = {} /\ Told = {} /\ ToSet(to_origin) = {}
  BY <1>1, NoUnits DEF Reached, Told
<1>4. Arriving = <<>>
  <2>1. <<>> \o <<>> = <<>>
    BY ConcatEmptySeq, EmptySeq
  <2> QED
    BY <1>1, <2>1 DEF Arriving, Drained
<1>5. ReadingFits /\ RequestAwaited /\ OneAtATime /\ PassedOn
  BY <1>1, <1>2, <1>4, EmptySeq DEF ReadingFits, RequestAwaited, OneAtATime, PassedOn, Drained
<1>6. NoTunnelPassedOn /\ WrittenInHand /\ RepliedInHand
  BY <1>1, <1>3 DEF NoTunnelPassedOn, WrittenInHand, RepliedInHand, Written, Replied
<1> QED
  BY <1>5, <1>6 DEF RequestInvariant

\* Every step keeps the request invariant.
LEMMA RequestPreserved ==
  ASSUME ControlInvariant, DataInvariant, RequestInvariant, [Next]_vars
  PROVE  RequestInvariant'
<1>1. DataNext
  BY DataPreserved
<1> QED
  BY <1>1, ReadingFitsPreserved, RequestAwaitedPreserved, OneAtATimePreserved,
     PassedOnPreserved, NoTunnelPassedOnPreserved, WrittenInHandPreserved,
     RepliedInHandPreserved, Zenon DEF RequestInvariant

\* The request invariant holds in every reachable state: what is read from the
\* client, passed on and told belongs to one request at a time.
THEOREM RequestIsInvariant == Spec => []RequestInvariant
<1>1. Init => RequestInvariant
  BY InitialRequest
<1>2. ControlInvariant /\ DataInvariant /\ RequestInvariant /\ [Next]_vars => RequestInvariant'
  BY RequestPreserved
<1> QED
  BY <1>1, <1>2, ControlIsInvariant, DataIsInvariant, PTL DEF Spec

-----------------------------------------------------------------------------
(* Where requests go. *)

\* A connection gets of a request only what is being written to it, and a write
\* is of the request in hand.
LEMMA WhatReaches ==
  ASSUME ControlInvariant, DataInvariant, RequestInvariant, DataNext,
         NEW c \in DOMAIN origins', NEW u \in GotBy(c)'
  PROVE  /\ c \in DOMAIN origins
         /\ \/ u \in GotBy(c)
            \/ /\ OriginDataWrite /\ c = Len(origins)
               /\ u.of = request_header /\ request_header = Asked
               /\ request_header' = request_header
<1>1. DataTypes
  BY DEF DataInvariant
<1>2. c \in DOMAIN origins
  BY <1>1, NothingElseReached
<1>3. CASE OriginDataWrite /\ c = Len(origins) /\ u \in ToSet(to_origin)
  <2>1. request_header = Asked /\ u \in PassedOf({Asked})
    BY <1>3, WhenOriginIsWritten
  <2>2. request_header' = request_header
    BY <1>3 DEF OriginDataWrite, Completes, request
  <2> QED
    BY <1>2, <1>3, <2>1, <2>2 DEF PassedOf
<1>4. CASE u \in GotBy(c)
  BY <1>2, <1>4
<1> QED
  BY <1>1, <1>2, <1>3, <1>4, NothingElseReached

\* How a request comes to be one that looks for a connection, or is on its way
\* over one.
LEMMA HowUnsent ==
  ASSUME ControlInvariant, DataInvariant, RequestInvariant, DataNext
  PROVE  /\ Unsent' =>
              /\ ~OriginDataWrite
              /\ \/ Unsent /\ request_header' = request_header
                 \/ RequestTaken /\ UNCHANGED environment
         /\ state' \in Sending \cup {"tunnel_transfer"} =>
              \/ Unsent /\ request_header' = request_header /\ ~OriginDataWrite
              \/ /\ state \in Sending \cup {"tunnel_transfer"}
                 /\ request_header' = request_header
              \/ RequestTaken /\ UNCHANGED environment
<1> DEFINE Sent(s) == s \in Sending \cup {"tunnel_transfer"}
           Searches(s) == s \in Finding \cup {"report_connection_established"}
           Recovering == /\ state = "write_http_request_header" /\ Recovers
                         /\ ops["write_origin"] \in {"pending", "error"}
<1>1. /\ ControlTypeOK /\ OnlyItsOperations
      /\ "write_origin" \in Operation /\ "connect" \in Operation
  BY DEF ControlInvariant, Operation, DataInvariant
<1>2. /\ Unsent <=> Searches(state) \/ Recovering
      /\ Unsent' <=> Searches(state') \/ Recovering'
  BY DEF Unsent, Reconnects, Recovers
<1>3. SUFFICES /\ Searches(state') \/ Recovering' =>
                    /\ ~OriginDataWrite
                    /\ \/ (Searches(state) \/ Recovering) /\ request_header' = request_header
                       \/ RequestTaken /\ UNCHANGED environment
               /\ Sent(state') =>
                    \/ /\ Searches(state) \/ Recovering
                       /\ request_header' = request_header /\ ~OriginDataWrite
                    \/ Sent(state) /\ request_header' = request_header
                    \/ RequestTaken /\ UNCHANGED environment
  BY <1>2
<1>4. CASE OriginDataWrite
  <2>1. state' = state /\ request_header' = request_header
    BY <1>4 DEF OriginDataWrite, Completes, request, state
  <2>2. ops'["write_origin"] = "ok"
    BY <1>1, <1>4, CompletesOne DEF OriginDataWrite
  <2>3. ~Searches(state)
    BY <1>4, WhenOriginIsWritten DEF Writing, Finding
  <2> QED
    BY <2>1, <2>2, <2>3
<1>5. CASE Rests
  <2>1. /\ state' = state /\ Recovers' = Recovers /\ request_header' = request_header
        /\ Settles("write_origin")
    BY <1>5 DEF Rests, Stays, Becomes, contents, request
  <2>2. ops'["write_origin"] \in {"pending", "error"} =>
          ops["write_origin"] \in {"pending", "error"}
    BY <2>1 DEF Settles
  <2> QED
    BY <1>4, <2>1, <2>2
<1>6. CASE Arrives /\ ~OriginDataWrite
  <2>1. /\ state' = state /\ Recovers' = Recovers /\ request_header' = request_header
    BY <1>1, <1>6, ArrivalsLeave DEF Stays, Becomes
  <2>2. ops'["write_origin"] = ops["write_origin"]
    BY <1>1, <1>6, ArrivalsLeave
  <2> QED
    BY <1>6, <2>1, <2>2
<1>7. CASE TakenOnKept \/ TakenAnew
  <2>1. RequestTaken /\ UNCHANGED environment
    BY <1>7 DEF TakenOnKept, TakenAnew, SendsRequest, Resolves, Ran
  <2> QED
    BY <1>4, <2>1
<1>8. CASE Reconnecting
  <2>1. Recovering /\ request_header' = request_header
    BY <1>8 DEF Reconnecting, Reconnects, Resolves, Ran, Recovers, request
  <2> QED
    BY <1>4, <2>1
<1>9. CASE ResolvedToKept \/ TriesEndpoint \/ ConnectedTo
  <2>1. state \in Finding /\ request_header' = request_header
    BY <1>9 DEF ResolvedToKept, TriesEndpoint, ConnectedTo, Finding, request
  <2> QED
    BY <1>4, <2>1
<1>10. CASE OriginTook \/ PassesContent
  <2>1. /\ request_header' = request_header
        /\ state \in Sending \cup {"tunnel_transfer"}
        /\ state' \notin Finding \cup {"report_connection_established"}
        /\ state' = "write_http_request_header" => ~Recovers'
    BY <1>10 DEF OriginTook, PassesContent, Turns, Becomes, contents, request, Writing, Sending,
       Finding
  <2> QED
    BY <1>4, <2>1
<1>11. CASE PassesUp \/ PassesDown \/ StartsTunnel
  <2>1. /\ request_header' = request_header
        /\ state \in {"report_connection_established", "tunnel_transfer"}
        /\ state' = "tunnel_transfer"
    BY <1>11 DEF PassesUp, PassesDown, StartsTunnel, Stays, Turns, Becomes, contents, request
  <2> QED
    BY <1>4, <2>1 DEF Finding
<1>12. CASE \/ Begun \/ RequestGrows \/ NotConnected \/ ResponseGrows \/ RelaysHeader
            \/ RelaysContent \/ AwaitsContent \/ AwaitsRequest
  <2>1. state' \in Responding \cup {"read_http_request_header", "report_error"}
    BY <1>12 DEF Begun, RequestGrows, NotConnected, ResponseGrows, RelaysHeader, RelaysContent,
       AwaitsContent, AwaitsRequest, ReportsError, Stays, Turns, Becomes, Responding
  <2>2. ~Searches(state') /\ ~Sent(state') /\ state' # "write_http_request_header"
    BY <2>1 DEF Responding, Finding, Sending
  <2> QED
    BY <2>2
<1> QED
  BY <1>4, <1>5, <1>6, <1>7, <1>8, <1>9, <1>10, <1>11, <1>12 DEF DataNext

\* No request is sent over a second connection once any of it has been sent.
LEMMA SentOncePreserved ==
  ASSUME ControlInvariant, DataInvariant, RequestInvariant, SentOnce, DataNext
  PROVE  SentOnce'
<1>1. /\ \A c, d \in DOMAIN origins : \A k \in Made : Has(c, k) /\ Has(d, k) => c = d
      /\ Unsent => \A c \in DOMAIN origins : ~Has(c, request_header)
      /\ state \in Sending \cup {"tunnel_transfer"} =>
           \A c \in DOMAIN origins : Has(c, request_header) => c = Len(origins)
  BY DEF SentOnce
<1>2. DataTypes /\ Asked \in Nat
  BY AskedType DEF DataInvariant
<1>3. ASSUME NEW c \in DOMAIN origins', NEW k, Has(c, k)'
      PROVE  /\ c \in DOMAIN origins /\ k \in Made
             /\ \/ Has(c, k)
                \/ OriginDataWrite /\ c = Len(origins) /\ k = request_header
  <2>1. PICK u \in GotBy(c)' : u.of = k
    BY <1>3 DEF Has
  <2>2. /\ c \in DOMAIN origins
        /\ u \in GotBy(c) \/ (OriginDataWrite /\ c = Len(origins) /\ k = request_header)
    BY <2>1, WhatReaches
  <2>3. k \in Made
    <3>1. u \in Reached'
      BY <2>1 DEF Reached
    <3> QED
      BY <2>1, <3>1, WhatIsPassedOn
  <2> QED
    BY <2>1, <2>2, <2>3 DEF Has
<1>4. ASSUME OriginDataWrite
      PROVE  /\ state \in Sending \cup {"tunnel_transfer"}
             /\ Len(origins') = Len(origins)
  <2>1. ~EndpointConnected
    <3>1. ops'["write_origin"] = "ok" /\ ops["write_origin"] = "pending"
      BY <1>4, CompletesOne DEF OriginDataWrite, ControlInvariant, Operation
    <3>2. EndpointConnected => ops'["write_origin"] = ops["write_origin"]
      BY CompletesOne DEF EndpointConnected, ControlInvariant, Operation
    <3> QED
      BY <3>1, <3>2
  <2> QED
    BY <1>2, <1>4, <2>1, OriginsGrow, WhenOriginIsWritten DEF Writing, Sending
<1>5. ASSUME NEW c \in DOMAIN origins', NEW d \in DOMAIN origins', NEW k \in Made',
             Has(c, k)', Has(d, k)'
      PROVE  c = d
  BY <1>1, <1>3, <1>4, <1>5
<1>6. ASSUME Unsent', NEW c \in DOMAIN origins', Has(c, request_header)'
      PROVE  FALSE
  <2>1. CASE RequestTaken /\ UNCHANGED environment
    <3>1. request_header' = Asked /\ ~Written
      BY <2>1, WhenTaken
    <3>2. Has(c, Asked)
      BY <1>6, <2>1, <3>1 DEF Has, GotBy, environment
    <3> QED
      BY <1>6, <2>1, <3>1, <3>2 DEF Written, Reached, Has, environment
  <2>2. CASE ~OriginDataWrite /\ Unsent /\ request_header' = request_header
    <3>1. Has(c, request_header)'
      BY <1>6
    <3>2. PICK k : k = request_header
      OBVIOUS
    <3>3. Has(c, k)'
      BY <2>2, <3>1, <3>2 DEF Has
    <3>4. c \in DOMAIN origins /\ Has(c, k)
      BY <1>3, <2>2, <3>3
    <3> QED
      BY <1>1, <2>2, <3>2, <3>4
  <2> QED
    BY <1>6, <2>1, <2>2, HowUnsent
<1>7. ASSUME state' \in Sending \cup {"tunnel_transfer"},
             NEW c \in DOMAIN origins', Has(c, request_header)'
      PROVE  c = Len(origins')
  <2>1. CASE RequestTaken /\ UNCHANGED environment
    <3>1. request_header' = Asked /\ ~Written
      BY <2>1, WhenTaken
    <3>2. Has(c, Asked)
      BY <1>7, <2>1, <3>1 DEF Has, GotBy, environment
    <3> QED
      BY <1>7, <2>1, <3>1, <3>2 DEF Written, Reached, Has, environment
  <2>2. PICK k : k = request_header
    OBVIOUS
  <2>3. request_header' = request_header => Has(c, k)'
    BY <1>7, <2>2 DEF Has
  <2>4. CASE ~OriginDataWrite /\ Unsent /\ request_header' = request_header
    BY <1>1, <1>3, <2>2, <2>3, <2>4
  <2>5. CASE /\ state \in Sending \cup {"tunnel_transfer"}
             /\ request_header' = request_header
    <3>1. c = Len(origins)
      BY <1>1, <1>3, <2>2, <2>3, <2>5
    <3>2. ~EndpointConnected
      <4>1. EndpointConnected => state = "connect_to_origin_server"
        <5>1. EndpointConnected => "connect" \in Outstanding
          BY OutstandingMeans DEF EndpointConnected, Completes, Operation
        <5> QED
          BY <5>1, StatesOfOutstanding DEF ControlInvariant, DataInvariant
      <4> QED
        BY <2>5, <4>1 DEF Sending
    <3> QED
      BY <1>2, <3>1, <3>2, OriginsGrow
  <2> QED
    BY <1>7, <2>1, <2>4, <2>5, HowUnsent
<1> QED
  BY <1>5, <1>6, <1>7 DEF SentOnce

\* A unit goes to an address of the host that its request names.
LEMMA WellRoutedPreserved ==
  ASSUME ControlInvariant, DataInvariant, RequestInvariant, WellRouted, DataNext
  PROVE  WellRouted'
<1>1. DataTypes
  BY DEF DataInvariant
<1>2. SUFFICES ASSUME NEW c \in DOMAIN origins', NEW u \in GotBy(c)'
               PROVE  origins'[c].endpoint \in AddressesOf(client'.requests[u.of].host)
  BY DEF WellRouted, AddressesOf
<1>3. /\ c \in DOMAIN origins
      /\ origins'[c].endpoint = origins[c].endpoint
      /\ client'.requests[u.of] = client.requests[u.of]
  <2>1. c \in DOMAIN origins
    BY WhatReaches
  <2>2. MayBecome(origins[c], origins'[c])
    BY <1>1, <2>1, OriginsGrow
  <2>3. u \in Reached'
    BY DEF Reached
  <2>4. client'.requests[u.of] = client.requests[u.of]
    BY <2>3, WhatIsPassedOn
  <2> QED
    BY <2>1, <2>2, <2>4 DEF MayBecome
<1>4. CASE u \in GotBy(c)
  BY <1>3, <1>4 DEF WellRouted
<1>5. CASE OriginDataWrite /\ c = Len(origins) /\ u.of = request_header
  <2>1. state \in Writing \cup {"tunnel_transfer"} /\ OriginConnected
    BY <1>5, WhenOriginIsWritten DEF OriginDataWrite
  <2>2. /\ state \in Serving
        /\ state \notin {"resolve_origin_server_address", "connect_to_origin_server",
                         "report_error"}
    BY <2>1 DEF Writing, Serving, Sending, Tunnelling
  <2>3. Origin.endpoint \in AddressesOf(OriginName) /\ Served.host = OriginName
    BY <2>1, <2>2 DEF DataInvariant, CurrentOrigin, RequestInHand
  <2>4. Origin = origins[c]
    BY <1>1, <1>5, <2>1, OriginType DEF DataTypes, OriginConnected
  <2> QED
    BY <1>3, <1>5, <2>3, <2>4 DEF Served
<1> QED
  BY <1>4, <1>5, WhatReaches

\* What is passed on, and what opens a tunnel, is a request the checks accepted.
LEMMA OnlyAcceptedPreserved ==
  ASSUME ControlInvariant, DataInvariant, RequestInvariant, OnlyAccepted, DataNext
  PROVE  OnlyAccepted'
<1>1. DataTypes /\ RequestInHand'
  BY RequestInHandPreserved DEF DataInvariant
<1>2. ASSUME NEW u \in Reached' \cup ToSet(to_origin')
      PROVE  RequestStatus(client'.requests[u.of]) = Accepted
  <2>1. client'.requests[u.of] = client.requests[u.of]
    BY WhatIsPassedOn
  <2>2. CASE u \in Reached \cup ToSet(to_origin)
    BY <2>1, <2>2 DEF OnlyAccepted
  <2>3. CASE u.of = request_header' /\ state' \in Serving
    BY <1>1, <2>3 DEF RequestInHand, Served
  <2> QED
    BY <2>2, <2>3, WhatIsPassedOn
<1>3. ASSUME NEW u \in Told', u.part = "established"
      PROVE  RequestStatus(client'.requests[u.of]) = Accepted
  <2>1. CASE u \in Told
    <3>1. u \in ToldUnit
      BY <1>1, <2>1, UnitsPassed
    <3>2. u.of \in Made
      BY <1>3, <3>1 DEF ToldUnit, PassedOf
    <3>3. client'.requests[u.of] = client.requests[u.of]
      BY <1>1, <3>2, RequestsGrow
    <3> QED
      BY <1>3, <2>1, <3>3 DEF OnlyAccepted
  <2>2. CASE u \notin Told /\ Still
    <3>1. state' \in Tunnelling /\ u.of = request_header
      BY <1>3, <2>2, WhatIsTold
    <3>2. request_header' = request_header /\ state' \in Serving
      BY <2>2, <3>1 DEF Still, request, Serving
    <3> QED
      BY <1>1, <3>1, <3>2 DEF RequestInHand, Served
  <2>3. CASE u \notin Told /\ ~Still
    <3>1. ~Arrives
      BY <1>1, <2>3, NothingElseTold
    <3>2. UNCHANGED client
      BY <3>1, OnlyArrivalsChangeEnvironment DEF environment
    <3>3. UNCHANGED to_client \/ Complains
      BY <2>3, <3>1, StillMoves DEF RequestGrows, TakenOnKept, TakenAnew, PassesContent,
         PassesUp, AwaitsRequest, ReportsError, SendsRequest, Resolves, writes
    <3>4. Complains => \A v \in ToSet(to_client') : v.part = "error"
      BY DEF Complains, ErrorReply, ToSet
    <3> QED
      BY <1>3, <2>3, <3>2, <3>3, <3>4 DEF Told
  <2> QED
    BY <2>1, <2>2, <2>3
<1> QED
  BY <1>2, <1>3 DEF OnlyAccepted

-----------------------------------------------------------------------------
(* The properties that the invariants imply. *)

RoutingInvariant ==
  /\ SentOnce
  /\ WellRouted
  /\ OnlyAccepted

\* Every request is sent over one connection at most, to an address of its host,
\* and only if the checks accepted it, in every reachable state.
THEOREM RoutingIsInvariant == Spec => []RoutingInvariant
<1>1. Init => RoutingInvariant
  <2> SUFFICES ASSUME Init PROVE RoutingInvariant
    OBVIOUS
  <2>1. /\ origins = <<>> /\ DOMAIN origins = {} /\ to_origin = <<>> /\ to_client = <<>>
        /\ client.received = <<>>
        /\ state = "read_cipher_data" /\ ~Reconnects
    BY DEF Init, state, Reconnects
  <2>2. Reached = {} /\ Told = {} /\ ToSet(to_origin) = {}
    BY <2>1, NoUnits DEF Reached, Told
  <2> QED
    BY <2>1, <2>2 DEF RoutingInvariant, SentOnce, WellRouted, OnlyAccepted
<1>2. ControlInvariant /\ DataInvariant /\ RequestInvariant /\ RoutingInvariant /\ [Next]_vars
        => RoutingInvariant'
  BY DataPreserved, SentOncePreserved, WellRoutedPreserved, OnlyAcceptedPreserved, Zenon
  DEF RoutingInvariant
<1> QED
  BY <1>1, <1>2, ControlIsInvariant, DataIsInvariant, RequestIsInvariant, PTL DEF Spec

\* No response is awaited before the whole request has been passed on: what the
\* client has sent besides belongs to its next one.
THEOREM ResponseAfterRequestHolds == Spec => []ResponseAfterRequest
<1>1. DataInvariant /\ RequestInvariant => ResponseAfterRequest
  <2> SUFFICES ASSUME DataInvariant, RequestInvariant, state \in Responding,
                      NEW u \in ToSet(client.stream \o upgoing_buffer \o to_origin)
               PROVE  u.of > request_header
    BY DEF ResponseAfterRequest, Responding
  <2>1. state \in Serving /\ state \in Waiting \cup Responding
    BY DEF Serving
  <2>2. to_origin = <<>> /\ request_header \in Made /\ Asked \in Nat
    BY <2>1, AskedType DEF RequestInvariant, PassedOn, DataInvariant, RequestInHand
  <2>3. client.stream \in Seq(SentOf({Asked})) /\ upgoing_buffer \in Seq(SentOf({Asked}))
    BY DEF RequestInvariant, RequestAwaited
  <2>4. PICK sent : sent = client.stream \o upgoing_buffer
    OBVIOUS
  <2>5. sent \in Seq(SentOf({Asked})) /\ sent \o <<>> = sent
    BY <2>3, <2>4, ConcatProperties, ConcatEmptySeq
  <2>6. u \in ToSet(sent)
    BY <2>2, <2>4, <2>5, Zenon
  <2>7. u.of = Asked
    <3>1. u \in SentOf({Asked})
      BY <2>5, <2>6, UnitsIn, Zenon
    <3> QED
      BY <3>1 DEF SentOf
  <2>8. CASE request_header = Asked
    <3>1. client.stream = <<>> /\ upgoing_buffer = <<>>
      BY <2>1, <2>8 DEF RequestInvariant, OneAtATime, Drained
    <3>2. sent = <<>>
      BY <2>4, <3>1, ConcatEmptySeq, EmptySeq
    <3> QED
      BY <2>6, <3>2, NoUnits
  <2>9. CASE request_header = Asked - 1
    BY <2>2, <2>7, <2>9
  <2> QED
    BY <2>1, <2>8, <2>9 DEF RequestInvariant, OneAtATime
<1> QED
  BY <1>1, DataIsInvariant, RequestIsInvariant, PTL

\* What an origin server has received, unit by unit.
LEMMA UnitsReceived ==
  ASSUME DataTypes
  PROVE  \A c \in DOMAIN origins : \A i \in DOMAIN origins[c].received :
           /\ origins[c].received[i] \in GotBy(c)
           /\ origins[c].received[i].of \in Made
<1>1. ASSUME NEW c \in DOMAIN origins, NEW i \in DOMAIN origins[c].received
      PROVE  origins[c].received[i] \in GotBy(c) /\ origins[c].received[i].of \in Made
  <2>1. origins[c].received \in Seq(PassedOf(Made))
    BY RecordsType
  <2>2. origins[c].received[i] \in GotBy(c) /\ origins[c].received[i] \in PassedOf(Made)
    BY <2>1, UnitsIn DEF GotBy
  <2> QED
    BY <2>2 DEF PassedOf
<1> QED
  BY <1>1

\* A request some of which has reached an origin server over one connection is not
\* sent over another, whichever connections are lost meanwhile.
THEOREM AtMostOnceHolds == Spec => []AtMostOnce
<1>1. DataInvariant /\ RoutingInvariant => AtMostOnce
  BY UnitsReceived DEF DataInvariant, RoutingInvariant, SentOnce, Has, AtMostOnce
<1> QED
  BY <1>1, DataIsInvariant, RoutingIsInvariant, PTL

\* No unit reaches a server that the request it belongs to was not meant for, kept
\* connections included.
THEOREM NoMisroutingHolds == Spec => []NoMisrouting
<1>1. DataInvariant /\ RoutingInvariant => NoMisrouting
  BY UnitsReceived DEF DataInvariant, RoutingInvariant, WellRouted, NoMisrouting
<1> QED
  BY <1>1, DataIsInvariant, RoutingIsInvariant, PTL

\* A request the checks accept passes each of them: every other outcome is a
\* status of its own.
LEMMA AcceptedPassesChecks ==
  \A r : RequestStatus(r) = Accepted => \A i \in 1 .. 9 : RequestChecks(r)[i][1]
<1> SUFFICES ASSUME NEW r, NEW i \in 1 .. 9, ~RequestChecks(r)[i][1]
             PROVE  RequestStatus(r) # Accepted
  OBVIOUS
<1> DEFINE checks == RequestChecks(r)
           failed == {j \in DOMAIN checks : ~checks[j][1]}
<1>1. DOMAIN checks = 1 .. 9 /\ \A j \in 1 .. 9 : checks[j][2] # Accepted
  BY DEF RequestChecks, EmptyOptional, Accepted
<1>2. RequestStatus(r) =
        IF failed = {} THEN Accepted
        ELSE checks[CHOOSE j \in failed : \A l \in failed : j <= l][2]
  BY DEF RequestStatus
<1>3. ~checks[i][1]
  OBVIOUS
<1> HIDE DEF checks
<1>4. failed # {} /\ failed \subseteq Nat
  BY <1>1, <1>3
<1>5. \E j \in failed : \A l \in failed : j <= l
  BY <1>4, SmallestExists, Zenon
<1>6. (CHOOSE j \in failed : \A l \in failed : j <= l) \in 1 .. 9
  BY <1>1, <1>5
<1> QED
  BY <1>1, <1>2, <1>4, <1>6

\* With authentication enabled, a request without valid credentials neither
\* reaches an origin server nor opens a tunnel, wherever in the connection it comes.
THEOREM UnauthorizedNeverServedHolds == Spec => []UnauthorizedNeverServed
<1>1. ASSUME NEW r, r.authorized \in BOOLEAN, EnableAuth, RequestStatus(r) = Accepted
      PROVE  r.authorized
  <2>1. RequestChecks(r)[4][1]
    BY <1>1, AcceptedPassesChecks
  <2>2. RequestChecks(r)[4] = <<EnableAuth => r.authorized, 407>>
    BY DEF RequestChecks
  <2>3. RequestChecks(r)[4][1] = (EnableAuth => r.authorized)
    BY <1>1, <2>2
  <2>4. EnableAuth => r.authorized
    BY <2>1, <2>3, Zenon
  <2> QED
    BY <1>1, <2>4, Zenon
<1>2. DataInvariant /\ RoutingInvariant => UnauthorizedNeverServed
  <2> SUFFICES ASSUME DataInvariant, RoutingInvariant, EnableAuth,
                      NEW k \in DOMAIN client.requests, ~client.requests[k].authorized
               PROVE  /\ ~Contains(client.received, Established(k)[1])
                      /\ \A c \in DOMAIN origins : \A i \in DOMAIN origins[c].received :
                           origins[c].received[i].of # k
    BY DEF UnauthorizedNeverServed
  <2>1. RequestStatus(client.requests[k]) # Accepted
    <3>1. client.requests[k].authorized \in BOOLEAN
      <4>1. client.requests[k] \in Requests
        BY LenProperties, ElementOfSeq DEF DataInvariant, DataTypes
      <4> QED
        BY <4>1, MessagesAssumption DEF Request
    <3> QED
      BY <1>1, <3>1
  <2>2. ~Contains(client.received, Established(k)[1])
    <3>1. Established(k)[1].of = k /\ Established(k)[1].part = "established"
      BY DEF Established
    <3>2. PICK u : u = Established(k)[1]
      OBVIOUS
    <3>3. client.received \in Seq(ToldUnit)
      BY DEF DataInvariant, DataTypes
    <3>4. Contains(client.received, u) => u \in ToSet(client.received)
      BY <3>3, UnitsIn DEF Contains
    <3> QED
      BY <2>1, <3>1, <3>2, <3>4 DEF RoutingInvariant, OnlyAccepted, Told
  <2>3. ASSUME NEW c \in DOMAIN origins, NEW i \in DOMAIN origins[c].received
        PROVE  origins[c].received[i].of # k
    <3>1. origins[c].received[i] \in Reached
      BY UnitsReceived DEF DataInvariant, Reached
    <3> QED
      BY <2>1, <3>1 DEF RoutingInvariant, OnlyAccepted
  <2> QED
    BY <2>2, <2>3
<1> QED
  BY <1>2, DataIsInvariant, RoutingIsInvariant, PTL
=============================================================================
