# A TLA+ model of azure-http-proxy

azure-http-proxy is a pair of programs around one idea: `ahpc` runs next to the
browser and relays every connection to `ahps`, which speaks HTTP with the browser
and with origin servers. Both are single processes built on boost::asio: an
`io_service`, a few worker threads, and one object per connection whose completion
handlers run on a strand under one timer.

This directory holds TLA+ modules that model the code, TLC configurations that
check them on small instances, and proofs checked by TLAPS. `PROJECT.json` maps
every definition that models code to the lines it models, and lists the runs, the
mutants that show each property can fail, the hazards the properties are for, and
the theorems.

## Inventory

| component | state | operations | what makes it hard |
|---|---|---|---|
| **server connection** (`http_proxy_server_connection.*`) | connection state and remembered origin, two sockets, one timer, request and response being assembled, buffers of the writes in flight | `start`, four data handlers, resolve and connect handlers, `on_error`, `on_timeout` | two chains of operations under one timer in a tunnel; completion racing timeout; keep-alive to client and origin; reuse and reconnection; short writes; counting content |
| **request and response checks** (in the same file) | none: decisions on a header | first check that fails decides the status | order of the checks, framing of bodies, keep-alive by version |
| **chunk checker** (`http_chunk_checker.hpp`) | automaton, 32-bit size, bytes read | `check`, `is_complete`, `is_fail` | pieces cut anywhere, size overflow |
| **header parser** (`http_header_parser.*`) | none | parse a request or response header, look a field up | continued lines, names in any case, regular expressions that prefer the shorter match, ports of 16 bits, what `stoul` accepts |
| **authentication** (`authentication.*`, `base64.*`) | user table | `auth`, `add_user`, `remove_all_users` | decoding what a client sends, where the name ends, doubled names |
| **server process** (`http_proxy_server.*`, main) | acceptor, worker threads | `run`, `start_accept` | accept is re-armed only after success; an exception ends a worker, a failed assertion all of them |
| **client connection** (`http_proxy_client_connection.*`) | state, two sockets, one timer, two buffers each way | `start`, four relay handlers, `on_error`, `on_timeout` | the tunnel discipline again; a resolver handler outside the strand |
| **client process** (`http_proxy_client.*`, main) | acceptor, worker threads, statistics timer | as the server | as the server |
| **client statistics** (`http_proxy_client_stat.*`) | atomic counters, four queues of five rates | `on_*`, `callback` every second | sampling while connections add; 32-bit sums |
| **configuration** (`http_proxy_*_config.*`) | a map of typed values | `load_config`, getters | rollback, clamping, a default stored as another type than it is read as |
| **encryption** (`encrypt.hpp`, `key_generator.hpp`) | ciphers | OpenSSL calls | not used by either connection in this commit |

The acceptor of a process creates a connection and calls `start()`; from then on
the connection lives by the `shared_ptr` its handlers hold, and dies when the last
of them returns. Connections share nothing but the configuration, the user table
and, in `ahpc`, the statistics. A connection talks to its peers through sockets, to
the resolver, and to the timer. `PROJECT.json` lists, under "hazards", what of this
is hard to test, at its line.

What makes each component correct:

- server connection: bytes reach the right peer, once, in order, complete; every
  request is answered; what is refused is refused; no operation waits unwatched and
  everything is released; the timer's assertion never fails.
- checks: the first failed check decides; a body's length is known before it is
  read; keep-alive follows version and header.
- chunk checker: complete exactly at the end of a well-formed body, however cut.
- client connection: as a tunnel of the server connection.
- processes: they keep accepting while they run; a connection that throws costs one
  worker and no other connection.
- statistics: totals are the sum of what was counted, rates lose nothing.
- configuration: what `load_config` accepts, the getters can read; what it refuses
  leaves nothing behind.
- header parser: what is accepted is a header, and is understood as it was written.
- authentication: exactly the configured users are let in.

## Modules

| module | models | composed with |
|---|---|---|
| `Watchdog` | the abstract specification of a connection's scheduling: operations outstanding under one timer | implemented by `ServerConnectionSystem` and by `ClientConnection` |
| `HttpMessages` | messages as the fields the code branches on, their units on the wire, and the checks of requests and responses as operators | extended by `ServerConnection` |
| `ServerConnection` | the connection object: its members as variables, one action for each thing a handler does | |
| `ServerConnectionSystem` | the environment (kernel, client, origin servers, resolver, timer), `Next`, fairness, and all properties | extends `ServerConnection`; `Abstract == INSTANCE Watchdog WITH ...` |
| `MCServerConnection` | constants of the runs | extends `ServerConnectionSystem` |
| `ServerConnectionProofs` | the theorems about the server connection's operations and timer, then about its data and the origin server it is connected to | extends `ServerConnectionSystem`, `TLAPS` |
| `ServerRequestProofs` | the theorems about one request at a time: where it goes, how often, and when its reply is awaited | extends `ServerConnectionProofs` |
| `ServerRelayProofs` | the theorems about what each origin server and the client get | extends `ServerRequestProofs` |
| `ClientConnection` | the relay of `ahpc`: its members, one action for each thing a handler does, its environment, and all properties | `Abstract == INSTANCE Watchdog WITH ...` |
| `MCClientConnection` | constants of the runs | extends `ClientConnection` |
| `ClientConnectionProofs` | the theorems about the relay: its operations and timer, and the data it relays | extends `ClientConnection`, `TLAPS` |
| `ChunkChecker` | the automaton of `http_chunk_checker`, and what a chunked body is | `HttpMessages.ChunkCheck` is its verdict on a piece |
| `ChunkCheckerProofs` | the theorems about its members and its verdict | extends `ChunkChecker`, `TLAPS` |
| `HeaderParser` | the automaton of `parse_headers`, the start lines and URIs, and what a header is | its results are the fields of `Request` and `Response` |
| `HeaderParserProofs` | the theorem about the start lines | extends `HeaderParser`, `TLAPS` |
| `Base64` | encoding and decoding in groups, with both tables | |
| `Authentication` | the table of users and the verdict on a header's value | extends `Base64` |
| `Configuration` | what `load_config` of both programs makes of a file, and what the getters read | extends `Authentication`: loading fills the table of users |
| `ProxyProcess` | `main()`, acceptor, workers, exceptions, failed assertions, the lives of connections, for `ahps` and `ahpc` | extends `Configuration` |
| `ProxyProcessProofs` | the theorems about the processes and the users they let in | extends `ProxyProcess`, `TLAPS` |
| `ClientStatistics` | one of the four counters: total, rate, speed and queue of rates, counted and sampled by several workers | |
| `ClientStatisticsProofs` | the theorems about the counters, and lemmas about folds and remainders | extends `ClientStatistics`, `TLAPS` |
| `MCChunkChecker`, `MCHeaderParser`, `MCProxyProcess`, `MCClientStatistics` | constants of the runs | extend the module they are named after |

### How the model follows the code

*Handlers.* An asynchronous operation is started by a handler (`ops[o] =
"pending"`), completed by the kernel (`"ok"` or `"error"`: the handler is queued on
the strand) and ended by its handler. The strand runs one handler at a time, so a
handler is one action and everything else may happen between two of them. `Runs(o,
result)` is the beginning of a handler, `if (cancel_timer())`; `Returns(o, calls)`
is its end, naming the `async_*` functions it calls and whether each sets the timer;
`LateCompletion` is a handler whose `cancel_timer()` returned false. `set_timer()`'s
assertion fails if a handler sets the timer twice (`aborted = "set_timer"`).

*The timer* is two booleans. `timer_pending` says a wait is queued, which is what
`cancel()` counts; `timeout_due` says it has expired and `on_timeout` is queued but
has not run. Between the two, handlers find `cancel_timer()` false.

*Data.* A message is a record of the fields the code looks at (`Request`,
`Response`), and a sequence of units on the wire. A unit carries the number of its
message and its place in it, so a lost, repeated or misdelivered byte is visible. The
header block ends in a unit that carries the blank line; the proxy rewrites the block
into one unit and passes content on as it came. The parsed header is represented by
the index of the request it was parsed from.

*Connections to origin servers* are kept in `origins`, oldest first; only the last
one can be the open socket. The others remain as history.

*Lifetime.* `Gone` says no handler holds the connection; `Destroy` is the
destructor, which closes the sockets.

*The client connection* follows the same conventions; what is different in it:

- The code of the two directions is the same with the names exchanged, so a
  direction is named by the peer whose data flow in it: `Read(p)` reads from `p`,
  `Write(Other(p))` writes what was read, and `DataArrived(p)` and `DataWritten(p)`
  stand for the handlers of both. The state `tunnel_transfer` is never set by the
  code, so the relay stays in `connecte_to_proxy_server`.
- The resolver's handler is not wrapped in the strand. It runs on any worker, so
  `on_timeout` may run between its `set_timer()` and its `async_connect`. It is two
  actions, `Resolved` and `AsyncConnect`, with `connecting` between them. The two would
  also race on the proxy server's socket; whichever of `open` and `close` comes first,
  the outcome is that of one of the two orders. Only the first endpoint is
  tried, as in the code.
- In the state that resolves the name `on_timeout` cancels the resolver and closes
  nothing. The user agent's socket is then closed by the destructor, when the
  cancelled resolver's handler has returned.
- The calls of the statistics are part of the handlers: `counted_in` and
  `counted_out` are what one connection adds in each direction. What becomes of it is
  in `ClientStatistics`.

*The chunk checker and the header parser* are followed character by character, since
what they get wrong, if anything, is at a character. A run generates every text up to
its bounds, one character per step, so the state after each prefix is checked and
not only the end; a body cut into pieces is nothing else, as only the members go from
one call of `check()` to the next. The automaton is the code's; next to it stands
what the text is, defined without any automaton (`IsBody` by chunks and their sizes,
`IsBlock` by lines, `UriAsWritten` by its separators), and the properties compare the
two. Characters are classes: what the code does not tell apart is one character. The
base of the digits and the widths of integers are constants, 2 and a few bits in the
runs, so that sizes and ports wrap within the bounds. Strings the parser compares
as a whole ("CONNECT", "HTTP/") are one character. The regular expressions are the
sets of their matches, `ConnectSplits` and `UriSplits`, of which the non-greedy
operators prefer the one with the shorter scheme, then the shorter host. White space
is what each place of the code takes for it: the start lines are cut at a space (and at
a CR), so a tab is a character of a method or a URI like any other; `parse_headers` skips
and trims spaces and tabs (`Blank`); and `stoul`, which gets the status as it stands,
skips all of `std::isspace` (`White`), takes a sign, and stops behind the digits (`Stoul`).

*Configuration.* A file is a record with `<<>>` for a key that is absent or of the
wrong JSON type, which the code does not tell apart. A setting is stored with the
type of the `boost::any`, and `Readable` is whether the getter's `any_cast` finds it:
that is where the defaults of `timeout` and `workers` differ from the values of a
file. `StoreUser` is a turn of the loop over "users", which fills the table of the
singleton as it goes, `RolledBack` the deleter of `auto_rollback`.

*Processes.* `ProxyProcess` is both programs; `program` decides the order of
`start_accept()` and the connection's start (`ArmedBeforeStart`) and whether the
statistics' timer keeps the io_service busy (`WithStatistics`). A connection is only
counted: it is accepted, its handlers run or throw, it is released. Why it is released
is shown by the runs `release` and `relay`. An exception leaves `io_service::run()` and
ends its worker (`Dies`); an assertion that fails in a connection's handler ends the
process (`ConnectionAborts`), which happens in `ahps` only (`WithFailingAssertion`: the
run `chunked_upload` shows how, and `ClientConnectionProofs` that nothing the handlers
of `ahpc` assert can fail). `WorkerReturns` is `run()` finding no work. When all workers
have ended, `main()` destroys what is left (`Ends`).

*Statistics.* Each atomic operation is an action where another worker can act before
it: the addition to the total, the addition to the bytes, the exchange, the store of the
rate, the store of the speed. The store and the queue need no actions of their own, since
no other handler reads them; neither does the timer, which cannot expire before it is
armed again. The four counters do not interact, so one is modelled.

### What is left out of these modules

- `encrypt.hpp` and `key_generator.hpp`: wrappers of OpenSSL that neither connection
  uses in this commit; of the RSA keys only the verdict of `load_config` remains.
- The cipher handshakes: the server's `read_cipher_data` (lines 449-572) is not
  reached, `start()` goes straight to the request header; the client's is commented
  out.
- The branches for a chunked request body (lines 741-744 and 966-974):
  `RequestLengthKnown` shows they cannot be reached, because the process ends
  before, at line 713. A dereference of an empty `boost::optional` is an assertion;
  the build (`-O3` without `NDEBUG`) keeps assertions.
- Of the header parser, `erase_header` (the connection rewrites the header by
  `Rewritten`).
- Of the configuration, finding and reading the file, and JSON numbers that do not
  fit in the types they are cast to.
- Of the statistics, `current_connections`, which nothing reads.
- Partial updates of a context by a check that then fails: they are not read again
  except for the wording of the error page.
- Clients that send a request before they have the reply to the last one, or more
  content than a request announces (`ClientsAssumption`), or data for a tunnel before
  they have the 200 (`TunnelsAssumption`), and origin servers that send more than a
  reply announces (`OriginsAssumption`). None of this is handled by the code (see the hazards without a
  property).

## Runs

Units are few because the code only distinguishes none, some and all: a buffer takes
2 units, a header block up to 3 (4 is too long), a body up to 2, so headers and
bodies arrive in one piece, in several, and with or without each other; every write
may be cut after any unit. A tunnel carries three units each way, the
least at which losing the rest of a cut write shows. Two requests per connection are
the least at which keep-alive, reuse, reconnection and clearing matter; what a third meets is the state
the second met. Host `b` has two addresses of which it shares one with host `a`, in
either order, so that a kept connection is found first, found last, or not found. The
relay's peers send up to three units each way through buffers of two.

| run | specification | question |
|---|---|---|
| `keep_alive` | `Spec`, all faults | Is anything lost, repeated, misrouted or left unwatched, over two requests to two hosts, when connections are kept, reused, found dead, and replaced? |
| `messages` | `ResponsiveSpec`, no faults | Every request and response the handlers tell apart, in all pieces: is each request answered, each body counted right, each request without credentials refused? |
| `tunnel` | `Spec`, all faults | Two chains of operations under one timer: do they ever set it twice, and does the connection implement `Watchdog`? |
| `release` | `LiveSpec`, all faults | Is the connection released whatever the peers stop doing? |
| `relay` | `LiveSpec`, all faults | Does the client connection keep the timer's discipline with a resolver's handler outside the strand, implement `Watchdog`, relay both ways without loss, and is it released whatever the peers stop doing? |
| `relay_complete` | `LiveSpec`, no faults | Does all that is said arrive? |
| `chunked_upload` | `Spec` | Expected violation: a chunked request body ends the process. |
| `chunks` | `Spec` | After every prefix of every text of up to twelve characters: is the verdict right? |
| `headers` | `Spec` | Is every block of fields, URI, authority and status understood as it was written, and nothing else accepted? |
| `processes` | `LiveSpec`, all faults | What makes a process deaf, what makes it give up connections, who is let in? |
| `statistics` | `LiveSpec` | Do the samples add up while several workers count, and does the speed follow them? |
| `defaults` | `Spec`, no faults | Expected violation: a file without `timeout` or `workers` is accepted and cannot be used. |

A chunked body of twelve characters holds two chunks with data and the last one, with an
extension or a size of two digits; sizes wrap modulo four. A block of fields has two of
them, whose names differ in case, with a continued line, spaces on either side and every
place for a stray CR or LF; URIs have up to six characters behind the scheme, so a host
with colons and slashes in it, a port of up to three digits and a path; a status of six
characters has room for white space, a sign, a number that does not fit and what follows
it. There are tabs in all of them. The files of `processes` vary in every key the code
branches on; binding, accepting, throwing and asserting fail or do not; up to three
workers and three connections are enough for exceptions to end some and not others. Two
workers and three rates in a queue are the least at which counting is cut by a sample
and a queue overflows.

Properties, by what they are about:

- *operations and the timer*: `TimerDiscipline`, `OperationsFitState`,
  `EverythingWatched`, `CloseIsFinal`, `ImplementsWatchdog`, `EventuallyReleased`;
- *towards origin servers*: `UpstreamFaithful` (a run of consecutive requests, whole,
  in order), `AtMostOnce` (never the same request over two connections),
  `NoMisrouting`, `RememberedOriginIsCurrent`, `ClosedWriteRecovers` (the loop in
  `on_resolved` may leave a closed socket to write to), `UnauthorizedNeverServed`;
- *bodies*: `RequestLengthKnown`, `ResponseAfterRequest`;
- *towards the client*: `DownstreamFaithful` (replies whole and in order, an error
  page only between them and last, tunnel data only after the 200),
  `EveryRequestAnswered`;
- *in the relay*: `OpenIsWatched` (what exactly may wait on an open socket without a
  timer: a resolver that was cancelled, and a connection attempt that `on_timeout` has
  overtaken), `RelayFaithful` (heard, held and unread together are what was said),
  `CountsAgree`, `EverythingRelayed`, and its own `TimerDiscipline`,
  `OperationsFitState`, `CloseIsFinal`, `ImplementsWatchdog`, `EventuallyReleased`;
- *of texts*: `VerdictIsRight` (complete exactly at the end of a body, failed exactly
  when nothing that follows could make one), the chunk checker's `TypeOK` (which
  includes that no more is read of a chunk than its size), `FieldsAsWritten`,
  `StartLinesAsWritten`;
- *of processes*: `AcceptLostOnlyByFailure` (what alone makes a running process deaf,
  and that an exception never does it to `ahpc`), `AbandonedOnlyByFailures` (work is
  given up only when each worker was killed by an exception of its own, or when a
  handler of `ahps` failed an assertion; `ahpc` never does that),
  `DeafServerEnds`, `GrantedAsConfigured` (from the JSON file to the header of a
  request: exactly the configured names and passwords are let in, and nobody if the
  file was refused);
- *of the statistics*: `SamplesAddUp`, `SpeedIsAmongRates`, `SpeedFallsToZero`.

`VerdictIsRight` is stated for sizes that fit in the checker's 32 bits,
`FieldsAsWritten` for texts whose CRs are followed by LF, `StartLinesAsWritten` for
ports and codes that fit (which texts are accepted it says of all of them; what code a
"-" before the number gives is left open), and `SpeedIsAmongRates` for sums that fit in
an int. The model has the behaviour beyond these limits too (the size wraps, the text
after a stray CR is skipped, the port is cut, -1 becomes the largest code, the sum turns
negative), but no property observes it: the hazards that describe it say so.

Deadlock is checked where timeouts are possible: `Terminated` is the only way to
stop. In `messages` and `relay_complete` nothing fails, so a connection may wait for
its peers for ever, and deadlock is not checked; nor is it in `headers`, where a
text ends.

### Fairness

`LiveSpec` assumes weak fairness of `Start`, `Handler` and `Destroy` (worker threads
run what is queued), `Kernel` (an operation that can complete does) and
`TimerExpires`. Nothing is assumed of client and origin servers: that is what the
timer is for. `ResponsiveSpec` adds that origin servers answer. Traffic is bounded in
the model, so the timer is set finitely often and must expire in the end; with
endless traffic in one direction of a tunnel the code keeps setting it, and the
stalled direction is never timed out (listed as a hazard).

In `ProxyProcess`, `main()` goes on, queued handlers run and a worker without work
returns; that connections end is the result of `release` and `relay`, taken over as
fairness of `ConnectionEnds`. Nothing is assumed of clients or of accepting. In
`ClientStatistics` a handler that has begun goes on and the timer expires; nothing
has to be counted.

### The findings

`chunked_upload`: for a POST or PUT with `Transfer-Encoding: chunked` line 692 sets
`chunk_checker` to an empty optional and line 713 dereferences it. Lines 741 and 968
assert that such a request has a checker.

`defaults`: `load_config` stores the defaults `240ul` and `4ul` (lines 81 and 88), and
that of the client `240ul` and `2ul` (lines 123 and 130), whose type is `unsigned long`,
and the getters read `unsigned int`. README.md lists both settings as not mandatory.
Without `workers` the program ends at once; without `timeout` each accepted connection
ends a worker, and in `ahps` the first one ends accepting.

## Proofs

`ServerConnectionProofs` proves, for every choice of the constants (hosts,
endpoints, messages, buffer and header sizes, bounds, faults):

- `ControlIsInvariant`: the inductive invariant `ControlInvariant`;
- from it `TimerDisciplineHolds`, `OperationsFitStateHolds`,
  `EverythingWatchedHolds`, and the action property `CloseIsFinalHolds`;
- `ImplementsWatchdogHolds`: `Spec => ImplementsWatchdog`, every step of the
  connection is a step of `Watchdog` or leaves it alone.

None of the three invariants is inductive. That a handler which lets the connection
go leaves nothing unwatched needs to know that its operation was the only one
(`OperationsFitState`) unless it closes both sockets; that a late handler does nothing
needs that a closed or timed-out connection has no wait queued (`TimerDiscipline`,
`ClosedIsUnwatched`); that `start()` sets an empty timer needs `NotStarted`.
`ControlInvariant` is their conjunction with the types of the control variables.

The argument has two layers. `StepIsControlMove` shows that each of the system's
actions is one of the moves of `ControlNext` (a handler's turn, a drained completion,
expiry, timeout, destruction, start, or a quiet step of the environment), with one
lemma per handler and one step per branch of it. `ControlPreserved` and
`ControlMoveRefines` then speak of those moves alone. The data never matters: nothing
is assumed of what buffers and messages hold, so the theorems do not rest on the type
invariant of the data, nor on any of the named assumptions about the constants.

Three modules prove what the server connection does with its data: the second part of
`ServerConnectionProofs`, `ServerRequestProofs` and `ServerRelayProofs`. Each extends
the one before, and an invariant of one is a hypothesis of the next, never the reverse.

The second part of `ServerConnectionProofs` has one layer more. `StepIsDataMove` shows that each action is one
of the moves of `DataNext` (a header or content is read, a message is passed on, a
reply is relayed, a peer or the kernel moves units, ...); all that is proved about
data in the three modules is proved of these moves. `DataIsInvariant` proves
`DataInvariant`, and from it follow:

- `TypeOKHolds`, `RequestLengthKnownHolds`, `ClosedWriteRecoversHolds`,
  `RememberedOriginIsCurrentHolds`.

The conjuncts of `DataInvariant` lean on each other. A request's length is known only
if the request in hand passed the checks (`RequestInHand`), which holds of a handler's
state only if no other handler can run in it (`OnlyItsOperations`); that the open
socket is to an address of the remembered host (`CurrentOrigin`) needs that it was
opened to the endpoint being tried (`SocketFits`) for the request in hand; and that
request is the last one if the connection is a tunnel (`TunnelIsLast`). `DataTypes`
says more than `TypeOK`: to which requests the units in each buffer can belong.

`ServerRequestProofs` relates the two ends of the proxy. `RequestIsInvariant` proves
`RequestInvariant`, that a connection serves one request at a time, and
`RoutingIsInvariant` proves `RoutingInvariant` with its help. From them follow:

- `ResponseAfterRequestHolds`, `AtMostOnceHolds`, `NoMisroutingHolds`,
  `UnauthorizedNeverServedHolds`.

None of these is inductive, for what the code decides by is not in them. It
stops reading a body when its count reaches the length, so that a response is awaited
after the *whole* request needs `RequestAwaited`: what has been counted, what is in
the buffers and what the client still has on its way are the request (`Latest`). It
clears the context when a reply has been written, so that the next request is
not mixed up with the last needs `OneAtATime` (what is on its way from the client
is of one request), `PassedOn` (what has been passed on is of the request in hand, once
there is one) and `WrittenInHand`, `RepliedInHand` (what has reached the client is of
that request too, or of one that is finished). `AtMostOnce` is then `SentOnce`: if
some unit of the request in hand has reached a server, the connection is not one that
`on_error` would replace. `NoMisrouting` is `WellRouted`, for the connections that are
history and the current one; `UnauthorizedNeverServed` is `OnlyAccepted`.

`ServerRelayProofs` is about what is passed on, first upstream, then downstream. It
proves `RelayInvariant` (`RelayIsInvariant`), `ReplyInvariant` (`ReplyIsInvariant`) and

- `UpstreamFaithfulHolds`, `DownstreamFaithfulHolds`.

Upstream, `Stands` is the heart of it: what has reached the current origin server, followed by
what is on its way there (in the buffer being written, read and not yet written, or
still in the client's stream), is the requests of that connection joined, up to the
one in hand while it is being sent and up to the one before while a server is still
being looked for. `RunsBegun` keeps of this what remains true of a connection that
is given up. `Pristine` says that a header has not been touched while a server
is looked for, since reconnecting passes it on again from the start; `TunnelsEnd` that
nothing is asked behind a CONNECT. `UpstreamFaithful` is the existence of a number of
whole messages and a beginning of the next; it is read off `RunsBegun` by the least
number of messages that reach so far. Joining messages is a fold, which the
provers cannot unfold at every length; the proofs replace it by the sequence of
its partial results (`Joins`), whose existence and properties are shown by the
least number for which they fail (`SmallestExists`), since the library's induction
theorems cannot be instantiated.

Downstream, `RepliesHeard` says what an open client has heard, that is, what it has
received and what is being written to it: whole replies while a request is read,
sent or its reply's header awaited; the beginning of the reply in hand while
that is relayed, the rest of which is what still comes from the current connection;
the 200 and what has come through, in a tunnel; whole replies and an error
page after an error. It is not inductive by itself. That what comes is the rest of *this*
reply needs `StreamFits` (a connection, kept or new, sends nothing but the reply to
the request in hand, and a kept one has nothing left of the last reply when the next
request goes out) and `RepliesCount` (requests are answered in order, and a new one is
read only when the last has been answered). That nothing of a reply is lost when the
code counts it as complete needs `CompleteIsAll`: the count of content read and what
still comes do not exceed the announced length, and the last chunk is the last thing
that comes. That a buffer is never written over before it is sent needs `SocketRead` and
`NothingUnheard`. `RepliesBegun` keeps of all this what remains true when the client
has closed; `DownstreamFaithful` is read off it, since of two rows of the same
sequences the first of one begins that of the other (`OneBeginsTheOther`).

What the three modules assume of the constants is named in `ServerConnection`:
`HostsAssumption` (a host resolves to a nonempty list of endpoints),
`MessagesAssumption` (messages are records of the fields modelled),
`BoundsAssumption`, for `ServerRequestProofs` also `ClientsAssumption` (no more content
than announced), for `ServerRelayProofs` `TunnelsAssumption` (nothing is sent through
a tunnel that is not there) and `OriginsAssumption` (no more content than a response
announces, and nothing behind the last chunk). The last three exclude peers that do not
keep to HTTP: clients the code loses data of or forwards too much of, which are
listed as hazards, and servers whose surplus it would take for the beginning of the
next reply. All of them hold in the runs, which evaluate them.

`ClientConnectionProofs` proves the same six facts of the client connection, with
`OpenIsWatched` in the place of `EverythingWatched`. Its `ControlInvariant` needs two
parts the server's does not: `ConnectingAlone`, that nothing is outstanding while the
resolver's handler is between its two halves (so that `on_timeout` is all that can
intervene), and `NotConnecting`, that the proxy server's socket is closed until then.
The overtaken connection attempt is why the refinement mapping counts it as
outstanding from the first half on: for `Watchdog` it is an expiry with one operation
left to drain. `StepIsSafe` goes through the actions, one lemma each.

Its second part proves of the relay's data, for every buffer size, amount of data
and set of faults:

- `TypeOKHolds`: the types, with no buffer overrun and no write taking more than it
  was given;
- `RelayFaithfulHolds` and `CountsAgreeHolds`.

`RelayFaithful` says that what was heard, what the proxy holds and what is unread
make up what was said. It is not inductive: a completed read overwrites the read
buffer, and the handler overwrites the write buffer, so both must be known to be
empty at that moment. `BuffersFit` says what each buffer holds by what is outstanding
in its direction; `AtMostOne`, that a direction never has two operations, even after
the connection is not watched any more. While it is watched that is
`OperationsFitState`; afterwards it follows from the refinement of `Watchdog`, whose
steps start nothing outside the phase "watched". So the data rest on the control, and
the control on nothing of the data. The proofs use `ClientAssumption`, that the
buffer has at least one unit.

`ChunkCheckerProofs` proves `TypeOKHolds` for every base and width. That no more is
read of a chunk than its size is not inductive: while the size is still being read it may
wrap to a smaller one. `Sound` adds that nothing of the chunk has been read by then.

`VerdictIsRightHolds` is about every text whose sizes fit, of any length. For the proof a
text is read by places. What follows one of the `ChunkStarts` has at most one line
and one end (`OneLine`, `OneEnd`), and stays the same piece when the text goes on
(`PieceGoesOn`). The inductive invariant, `Placed`, is that there is a place with
whole chunks before it, and `Where` ties each state of the checker to what there is of
the piece after that place: its digits and their number so far, its line, how much
of its data, its end. It is an invariant only while the sizes fit, and sizes that fit
in a text fitted in every text it began with (`SizesFitBefore`). From `Where` follows
the verdict: once the checker has failed nothing that follows makes a body (`Dead`), and
before that one of the texts that `Ends` describes does (`CanGoOn`). `Number` and
`ChunkStarts` are folds; that the functions these stand for exist is shown too
(`NumberOfDigits`, `ChunkStartsAre`). All that is assumed is `ChunkAssumption`.

`ProxyProcessProofs` proves, for any files, faults and number of connections:

- `AcceptIsKept`: `AcceptLostOnlyByFailure`;
- `NothingAbandoned`: `AbandonedOnlyByFailures`;
- `RoundTrip`, `AuthLetsIn` and with them `GrantedAsConfiguredHolds`.

`AbandonedOnlyByFailures` rests on an invariant over the whole life of the process:
running, returned and killed workers are as many as were configured
(`WorkersCounted`), and none has returned while there is work (`NoneReturned`), since work
that is gone never comes back. What was configured is a number because `load_config`
leaves nothing else (`WorkersKnown`, from the lemmas about `Configuration`), which
needs only that files contain integers (`ProcessAssumption`).

`GrantedAsConfigured` goes through four parts of the code. Decoding undoes encoding for
every sequence of bytes (`RoundTrip`): group by group by the arithmetic of
the sextets and the two tables (`GroupRoundTrip`), and as a whole because every element
has its place in what the groups make together (`FlattenSeqPlaces`). Whatever has a
colon is split into a name without one and a password in exactly one way
(`SplitIsCredentials`, `SplitsCredentials`), so that `auth` lets in exactly who sends a
user of the table (`AuthLetsIn`). Entry by entry the table gets the last
password of each name, or the outcome is not `true` (`UsersRead`, `StoreUserStep`). And
after a refusal nothing of it is left (`LoadedUsers`). `FlattenSeq` and the `FoldLeft` of
`StoreUser` are recursive functions of the community modules; that these exist is
shown here too (`FlattenSeqIs`, `ReadExists`). `CredentialsAssumption` says that names,
passwords and what clients send are bytes.

`ClientStatisticsProofs` proves, for any number of workers, any sizes of pieces, any
widths of the counters and any length of the queue:

- `SamplesAddUpHolds`, which is inductive once the counters are known to be integers;
- `SpeedIsAmongRatesHolds`: between two callbacks the speed is the average of the queue
  (`SpeedIsAverage`), and the average of rates whose sum fits lies among them.

`InFlight` and `Average` are folds of the community modules. Three groups of lemmas
say what these compute: that the recursive function a fold stands for exists on every
finite set (`FoldExists`, by the number of elements); that a sum does not depend on
the order of its terms and follows a change of one of them (`AnyOrder`,
`SumChanges`); that a fold from left to right is the last of the running sums
(`FoldRuns`), which lie between multiples of the least and the largest term
(`RunningBounds`) and do not wrap while the last one fits (`NothingWraps`). Each is shown
by the smallest set or least number it would fail for (`SmallestSetExists`,
`LeastExists`). The remainders are those of any word, not only of powers of two
(`SameRemainder`). `StatisticsAssumption` is all that is assumed: finitely many workers,
and a total at least as wide as a sample, by a whole factor.

`HeaderParserProofs` proves `StartLinesAsWrittenHolds`, for any digits and letters, any
widths of ports, status codes and longs, and texts of every length. All the invariant it
needs is that the text is written with the characters of its part (`Written`); the work
is in what the operators make of such a text. They cut it at the first of some
characters: `UpToIs` and `DigitsAre` say where, by the places before the cut, and
`RequestRead` and `ReplyRead` with them that a request line and a status line are read
back into the parts they were made of. What `stoul` makes of a status is read by places
too: how many characters are white space, whether a sign follows, where the digits end
(`Reads`, `StoulReads`). These digits are the first there are in the text exactly when
nothing stands before them that may not (`StatusIsAsWritten`). The port of a CONNECT is
behind the only colon that has nothing but digits behind it, which is the last one
(`LastColon`, `HostSplits`), so that the shortest host and the longest are the same. Of
the matches of a URI the one the code prefers is the least (`MatchIs`): its scheme ends
at the first "://" and its path begins with the next "/", for there is a match that
does, and none before it. What `std::stoul` makes of digits is a number (`NumberIsNat`):
a fold, whose recursive function is shown to exist (`DigitsExist`). `ParserAssumption`
keeps digits and letters apart from the separators, and digits from the signs;
`TextAssumption` keeps CR, at which the code ends a part of a start line, and a second
version out of the part.

Trying to prove this showed a claim to be false that the runs had confirmed: that the
port is the default exactly when none is written. A URI may well say `:80`; the runs
have fewer digits than that takes. `UriAsWritten` now says that it is the default if none is
written, and the number that is written otherwise.

Only model-checked: `FieldsAsWritten`, which compares the parser with a reading of the
text that sorts its line ends, cuts it at them and puts lines together again; a proof
needs what each of these operators of the community modules makes of texts of every
length. And liveness (`EventuallyReleased`, `EveryRequestAnswered`, `EverythingRelayed`,
`DeafServerEnds`, `SpeedFallsToZero`), which is out of the prover's reach.

## Plan

In this order:

1. *done*: `Watchdog`, `HttpMessages`, `ServerConnection`, `ServerConnectionSystem`,
   their runs, the control theorems.
2. *done*: `ClientConnection`, its runs, its control and data theorems.
3. *done*: `ChunkChecker`, its run and the theorems about its members and its verdict.
4. *done*: `Configuration`, `ProxyProcess`, their runs and theorems.
5. *done*: `ClientStatistics`.
6. *done*: `HeaderParser`, `Base64`, `Authentication`.
7. *done*: the data of the server connection: its types, where requests go, how
   often, what each origin server gets and what the client gets; the statistics.
8. *done*: proofs of `GrantedAsConfigured`, first that decoding undoes encoding, of
   `VerdictIsRight` and of `StartLinesAsWritten`. To do: `FieldsAsWritten`.
9. The verdicts `ChunkCheck` gives on units of content as a refinement of
   `ChunkChecker` on their characters.
