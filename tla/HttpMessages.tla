---------------------------- MODULE HttpMessages ----------------------------
(***************************************************************************)
(* HTTP messages as http_proxy_server_connection sees them, and the checks *)
(* its two header handlers make of them (on_proxy_client_data_arrived,     *)
(* on_origin_server_data_arrived).                                         *)
(*                                                                         *)
(* A message is a record of the fields the code branches on.  On the wire  *)
(* it is a sequence of units: the header block takes "head" units, the     *)
(* last of which carries the blank line, and the content follows.  A unit  *)
(* knows which message it belongs to ("of") and its place there ("n"), so  *)
(* that a lost, repeated, reordered or misdelivered unit shows.            *)
(***************************************************************************)
EXTENDS Integers, SequencesExt

CONSTANTS
  Hosts,        \* the (host, port) pairs requests are for
  EnableAuth    \* http_proxy_server_config's "auth"

ASSUME EnableAuthAssumption == EnableAuth \in BOOLEAN

\* Statuses a request check can end in, besides those the client is sent.
Accepted      == 0
EmptyOptional == 1      \* an empty boost::optional is dereferenced
Incomplete    == 2      \* the blank line has not arrived yet
NoLength      == -1     \* content_length is an empty optional

ContentPart == {"body", "last", "bad"}

Part == {"head", "end",                    \* header block, its blank line
         "header",                         \* header block, rewritten
         "error", "established", "tunnel"} \cup ContentPart

Unit == [of : Nat, part : Part, n : Nat]

Token == {"none", "close", "keep-alive", "other"}
Framing == {"none", "length", "bad_length", "chunked", "other_encoding"}

Request ==
  [parses : BOOLEAN, method : STRING, version : STRING, authorized : BOOLEAN,
   scheme : STRING, host : Hosts, proxy_connection : Token, connection : Token,
   framing : Framing, length : Nat, head : Nat \ {0}, content : Seq(ContentPart)]

Response ==
  [parses : BOOLEAN, version : STRING, status : Nat, connection : Token,
   framing : Framing, length : Nat, head : Nat \ {0}, content : Seq(ContentPart)]

-----------------------------------------------------------------------------
(* Units on the wire. *)

Units(k, parts) == [n \in DOMAIN parts |-> [of |-> k, part |-> parts[n], n |-> n]]

HeadParts(h) == [n \in 1 .. h |-> IF n = h THEN "end" ELSE "head"]

\* Message m, the k-th of its direction, as its sender writes it.
OnTheWire(k, m) == Units(k, HeadParts(m.head) \o m.content)

\* find("\r\n\r\n"): the position of the first blank line, 0 for npos.
HeaderEnd(data) ==
  LET ends == {i \in DOMAIN data : data[i].part = "end"}
  IN  IF ends = {} THEN 0 ELSE CHOOSE i \in ends : \A j \in ends : i <= j

\* The header block written anew by the proxy, followed by the content that
\* arrived with it.
Rewritten(data) ==
  LET e == HeaderEnd(data)
  IN  << [data[e] EXCEPT !.part = "header"] >> \o SubSeq(data, e + 1, Len(data))

\* The k-th message as the proxy passes it on.
Forwarded(k, m) == Rewritten(OnTheWire(k, m))

-----------------------------------------------------------------------------
(* Chunked content: what http_chunk_checker says of a sequence of units.   *)
(* "open" is every automaton state between the start and the last chunk.   *)

ChunkState == {"none", "open", "complete", "failed"}

ChunkCheck(state, data) ==
  LET wrong(i) == \/ data[i].part # "body" /\ data[i].part # "last"
                  \/ state = "complete"
                  \/ data[i].part = "last" /\ i # Len(data)
  IN  IF \E i \in DOMAIN data : wrong(i) THEN "failed"
      ELSE IF \E i \in DOMAIN data : data[i].part = "last" THEN "complete"
      ELSE state

-----------------------------------------------------------------------------
(* Request checks, in the order of the code. *)

HasContent(r) == r.method \in {"POST", "PUT"}

\* Mistaken: credentials are asked for only after the branch for CONNECT.
TunnelsNeedNoCredentials(r) ==
  << <<r.parses, 400>>,
     <<r.method \in {"GET", "HEAD", "POST", "PUT", "DELETE", "CONNECT"}, 405>>,
     <<r.version \in {"1.0", "1.1"}, 505>>,
     <<r.method # "CONNECT" /\ EnableAuth => r.authorized, 407>> >>

RequestChecks(r) ==
  << <<r.parses, 400>>,
     <<r.method \in {"GET", "HEAD", "POST", "PUT", "DELETE", "CONNECT"}, 405>>,
     <<r.version \in {"1.0", "1.1"}, 505>>,
     <<EnableAuth => r.authorized, 407>>,
     <<r.method # "CONNECT" => r.scheme = "http", 400>>,
     <<HasContent(r) => r.framing # "bad_length", 400>>,
     <<HasContent(r) => r.framing # "chunked", EmptyOptional>>,
     <<HasContent(r) => r.framing # "other_encoding", 400>>,
     <<HasContent(r) => r.framing # "none", 411>> >>

RequestStatus(r) ==
  LET checks == RequestChecks(r)
      failed == {i \in DOMAIN checks : ~checks[i][1]}
  IN  IF failed = {} THEN Accepted
      ELSE checks[CHOOSE i \in failed : \A j \in failed : i <= j][2]

\* Proxy-Connection takes precedence over Connection.
RequestKeepAlive(r) ==
  LET token == IF r.proxy_connection # "none" THEN r.proxy_connection ELSE r.connection
  IN  IF r.version = "1.1" THEN token # "close" ELSE token = "keep-alive"

\* Mistaken: content that came with the header is not counted; it is counted
\* one short; the length of an empty body is left open.
EarlyContentNotCounted(r, arrived) ==
  [is_proxy_client_keep_alive |-> RequestKeepAlive(r),
   content_length             |-> IF HasContent(r) THEN r.length ELSE 0,
   content_length_has_read    |-> 0]

CountedOneShort(r, arrived) ==
  [is_proxy_client_keep_alive |-> RequestKeepAlive(r),
   content_length             |-> IF HasContent(r) THEN r.length ELSE 0,
   content_length_has_read    |-> IF HasContent(r) THEN arrived - 1 ELSE 0]

EmptyBodyLengthOpen(r, arrived) ==
  [is_proxy_client_keep_alive |-> RequestKeepAlive(r),
   content_length             |-> IF HasContent(r) THEN r.length ELSE NoLength,
   content_length_has_read    |-> IF HasContent(r) THEN arrived ELSE 0]

\* read_request_context of an accepted request, "arrived" units of whose
\* content came together with its header.
RequestContext(r, arrived) ==
  [is_proxy_client_keep_alive |-> RequestKeepAlive(r),
   content_length             |-> IF HasContent(r) THEN r.length ELSE 0,
   content_length_has_read    |-> IF HasContent(r) THEN arrived ELSE 0]

-----------------------------------------------------------------------------
(* Response checks: every failure is a 502. *)

\* A response that has no content, whatever its header says.
NoContent(r, method) == method = "HEAD" \/ r.status \in {204, 304}

ResponseKeepAlive(r) ==
  IF r.connection = "none" THEN r.version = "1.1" ELSE r.connection = "keep-alive"

\* "data" is the content that arrived together with the header.
ResponseAcceptable(r, method, data) ==
  /\ r.parses
  /\ r.version \in {"1.0", "1.1"}
  /\ r.status >= 100 /\ r.status <= 700
  /\ r.connection # "other"
  /\ \/ NoContent(r, method)
     \/ r.framing = "length"
     \/ r.framing = "chunked" /\ ChunkCheck("open", data) # "failed"
     \/ r.framing = "none" /\ ~ResponseKeepAlive(r)

ResponseContext(r, method, data) ==
  LET framing == IF NoContent(r, method) THEN "empty" ELSE r.framing
  IN  [is_origin_server_keep_alive |-> ResponseKeepAlive(r),
       content_length |-> CASE framing = "empty"  -> 0
                            [] framing = "length" -> r.length
                            [] OTHER              -> NoLength,
       content_length_has_read |-> IF framing = "length" THEN Len(data) ELSE 0,
       chunk_checker |-> IF framing = "chunked" THEN ChunkCheck("open", data) ELSE "none"]

\* What the k-th reply looks like when its origin server has sent all of it.
Reply(k, r, method) ==
  OnTheWire(k, IF NoContent(r, method) THEN [r EXCEPT !.content = <<>>] ELSE r)
=============================================================================
