----------------------------- MODULE ProxyProcess -----------------------------
(***************************************************************************)
(* A process: main() of ahps or ahpc, the acceptor, the worker threads that*)
(* run the io_service, and the connections they serve.  The two programs   *)
(* are the same but for the order of two calls in the accept handler and   *)
(* for the statistics, whose timer is always waiting in ahpc.              *)
(*                                                                         *)
(* A connection is what the process sees of one: it was accepted, its      *)
(* handlers run on the workers, and in the end it is released (the runs of *)
(* the connections show that it is).  The workers are alike, so they are   *)
(* counted and not named.                                                  *)
(***************************************************************************)
EXTENDS Configuration

CONSTANTS
  ServerFiles, ClientFiles,  \* configuration files
  Texts,                     \* what clients send as credentials, before it is encoded
  MaxConnections,            \* bound: connections open at the same time
  Faults                     \* what may go wrong: "bind", "accept", "exception", "assertion"

ASSUME ProcessAssumption ==
  /\ MaxConnections \in Nat
  /\ Faults \subseteq {"bind", "accept", "exception", "assertion"}
  /\ \A f \in ServerFiles \cup ClientFiles : f.workers \in Seq(Int)

\* What clients send is bytes, and so are the names and passwords of a file; an entry
\* of its users may lack either.
ASSUME CredentialsAssumption ==
  LET maybe == {s \in Seq(Seq(Byte)) : Len(s) <= 1}
  IN  /\ Texts \subseteq Seq(Byte)
      /\ \A f \in ServerFiles :
           f.users # <<>> => f.users[1] \in Seq([username : maybe, password : maybe])

VARIABLES
  program,      \* "ahps" or "ahpc"
  file,         \* its configuration file
  config,       \* what load_config left: its outcome, config_map, the table of users
  phase,        \* where main() is
  accept,       \* the asynchronous accept: "none", "pending", "ok" or "error"
  running,      \* workers in io_service::run()
  returned,     \* workers whose run() has returned: it had no work left
  killed,       \* workers that an exception has ended
  connections,  \* connections being served
  statistics,   \* the timer of the statistics is waiting
  happened      \* history: the failures so far

vars == <<program, file, config, phase, accept, running, returned, killed, connections,
          statistics, happened>>

workers == <<running, returned, killed>>

Init ==
  /\ \/ program = "ahps" /\ file \in ServerFiles
     \/ program = "ahpc" /\ file \in ClientFiles
  /\ config = Refused
  /\ phase = "starting"
  /\ accept = "none"
  /\ running = 0 /\ returned = 0 /\ killed = 0
  /\ connections = 0
  /\ statistics = FALSE
  /\ happened = {}

Fails(what) == happened' = happened \cup {what}
Fine == UNCHANGED happened

\* main() returns or unwinds, or the process is aborted: io_service, acceptor and
\* connections are gone.
Ends ==
  /\ phase' = "ended"
  /\ accept' = "none"
  /\ connections' = 0
  /\ statistics' = FALSE

----------------------------------------------------------------------------
(* main(), until the workers run.                                          *)

Load ==
  /\ phase = "starting"
  /\ config' = IF program = "ahps" THEN LoadServer(file) ELSE LoadClient(file)
  /\ phase' = IF config'.outcome = "true" THEN "loaded" ELSE "ended"
  /\ UNCHANGED <<program, file, accept, workers, connections, statistics, happened>>

\* Mistaken: ahps has such a timer too.
EveryProgram == {"ahps", "ahpc"}

\* Only ahpc starts the statistics.
WithStatistics == {"ahpc"}

\* open, bind, listen and the first start_accept; each of the first three may throw.
Listen ==
  /\ phase = "loaded"
  /\ \/ /\ phase' = "listening"
        /\ accept' = "pending"
        /\ statistics' = (program \in WithStatistics)
        /\ Fine
        /\ UNCHANGED connections
     \/ "bind" \in Faults /\ Ends /\ Fails("bind")
  /\ UNCHANGED <<program, file, config, workers>>

\* The loop that creates the workers reads get_workers() and may throw.
StartWorkers ==
  /\ phase = "listening"
  /\ \/ /\ Readable(config.map, "workers")
        /\ running' = config.map["workers"].value
        /\ phase' = "joining"
        /\ Fine
        /\ UNCHANGED <<accept, connections, statistics>>
     \/ /\ ~Readable(config.map, "workers")
        /\ Ends
        /\ Fails("workers unreadable")
        /\ UNCHANGED running
  /\ UNCHANGED <<program, file, config, returned, killed>>

\* All workers have been joined.
Join ==
  /\ phase = "joining"
  /\ running = 0
  /\ Ends
  /\ UNCHANGED <<program, file, config, workers, happened>>

----------------------------------------------------------------------------
(* The workers.                                                            *)

\* A worker runs a handler that returns.
Works ==
  /\ phase = "joining"
  /\ running > 0
  /\ UNCHANGED <<program, file, config, phase, workers, statistics>>

\* Mistaken: an exception stops the io_service under all workers.
DieTogether ==
  /\ phase = "joining"
  /\ running > 0
  /\ running' = 0
  /\ killed' = killed + 1
  /\ UNCHANGED <<program, file, config, phase, returned, statistics>>

\* A worker runs a handler that throws: the exception leaves io_service::run().
Dies ==
  /\ phase = "joining"
  /\ running > 0
  /\ running' = running - 1
  /\ killed' = killed + 1
  /\ UNCHANGED <<program, file, config, phase, returned, statistics>>

\* Mistaken: ahpc accepts again behind the connection's start, like ahps.
AcceptedLast(p) == "none"

\* Whether accept is armed when the connection's constructor or start() throws:
\* ahpc calls start_accept() before them, ahps after.
ArmedBeforeStart(p) == IF p = "ahpc" THEN "pending" ELSE "none"

\* The connection's constructor (ahpc) or its first set_timer() (ahps) reads the timeout.
ConnectionStarts ==
  /\ accept = "ok"
  /\ Readable(config.map, "timeout")
  /\ Works
  /\ accept' = "pending"
  /\ connections' = connections + 1
  /\ Fine

ConnectionFailsToStart ==
  /\ accept = "ok"
  /\ Dies
  /\ accept' = ArmedBeforeStart(program)
  /\ \/ ~Readable(config.map, "timeout") /\ Fails("timeout unreadable")
     \/ Readable(config.map, "timeout") /\ "exception" \in Faults /\ Fails("exception in accept")
  /\ UNCHANGED connections

\* The accept handler ignores an error, and nothing accepts any more.
AcceptFailed ==
  /\ accept = "error"
  /\ Works
  /\ accept' = "none"
  /\ Fails("accept")
  /\ UNCHANGED connections

\* The last handler of a connection returns.
ConnectionEnds ==
  /\ connections > 0
  /\ Works
  /\ connections' = connections - 1
  /\ Fine
  /\ UNCHANGED accept

\* A handler of a connection throws; the connection lives on if another handler
\* holds it.
ConnectionThrows ==
  /\ "exception" \in Faults
  /\ connections > 0
  /\ Dies
  /\ connections' \in {connections - 1, connections}
  /\ Fails("exception")
  /\ UNCHANGED accept

\* The programs with a connection some handler of which fails an assertion: ahps gets
\* there by a chunked request body (the run chunked_upload); what the handlers of ahpc
\* assert holds (TimerDiscipline of ClientConnection).
WithFailingAssertion == {"ahps"}

\* abort(): the process is gone with all its workers.
ConnectionAborts ==
  /\ "assertion" \in Faults
  /\ program \in WithFailingAssertion
  /\ phase = "joining"
  /\ running > 0
  /\ connections > 0
  /\ Ends
  /\ running' = 0
  /\ Fails("assertion")
  /\ UNCHANGED <<program, file, config, returned, killed>>

\* The timer of the statistics expires; the callback samples and arms it again.
Sampled ==
  /\ statistics
  /\ Works
  /\ Fine
  /\ UNCHANGED <<accept, connections>>

\* Something is outstanding in the io_service, or a handler is queued.
HasWork == accept # "none" \/ connections > 0 \/ statistics

WorkerReturns ==
  /\ phase = "joining"
  /\ running > 0
  /\ ~HasWork
  /\ running' = running - 1
  /\ returned' = returned + 1
  /\ UNCHANGED <<program, file, config, phase, accept, killed, connections, statistics, happened>>

----------------------------------------------------------------------------
(* The kernel.                                                             *)

AcceptCompletes ==
  /\ phase \in {"listening", "joining"}
  /\ accept = "pending"
  /\ \/ accept' = "ok" /\ connections < MaxConnections
     \/ accept' = "error" /\ "accept" \in Faults
  /\ UNCHANGED <<program, file, config, phase, workers, connections, statistics, happened>>

Terminated == phase = "ended" /\ UNCHANGED vars

Handler ==
  \/ ConnectionStarts
  \/ ConnectionFailsToStart
  \/ AcceptFailed
  \/ ConnectionEnds
  \/ ConnectionThrows
  \/ ConnectionAborts
  \/ Sampled

Main ==
  \/ Load
  \/ Listen
  \/ StartWorkers
  \/ Join

Next ==
  \/ Main
  \/ Handler
  \/ WorkerReturns
  \/ AcceptCompletes
  \/ Terminated

Spec == Init /\ [][Next]_vars

\* Threads run: main() goes on, queued handlers are run, run() returns when it has
\* no work.  ConnectionEnds is fair because every connection is released in the end.
\* Nothing is assumed of clients: AcceptCompletes may never happen.
Fairness ==
  /\ WF_vars(Main)
  /\ WF_vars(ConnectionStarts \/ ConnectionFailsToStart \/ AcceptFailed)
  /\ WF_vars(ConnectionEnds)
  /\ WF_vars(WorkerReturns)

LiveSpec == Spec /\ Fairness

----------------------------------------------------------------------------
\* While a worker is left, accept is outstanding or its handler queued, unless an
\* accept has failed or, in ahps, the handler of one has thrown: nothing else makes a
\* running process deaf, and an exception never does it to ahpc (start_accept comes
\* before create there).
AcceptLostOnlyByFailure ==
  phase = "joining" /\ accept = "none" =>
    \/ "accept" \in happened
    \/ program = "ahps" /\ happened \cap {"exception in accept", "timeout unreadable"} # {}

\* A process gives up connections, or an accept, only if each of its workers was killed
\* by an exception, or if a handler of ahps failed an assertion: no worker returns as
\* long as there is work, an exception costs one worker and no more, and ahpc is never
\* aborted.
AbandonedOnlyByFailures ==
  [][ phase = "joining" /\ phase' = "ended" /\ HasWork =>
        \/ killed = config.map["workers"].value
        \/ program = "ahps" /\ "assertion" \in happened' ]_vars

\* A server that does not accept any more finishes the connections it has and ends,
\* so that whoever started it can start it again.  (ahpc does not: the timer of the
\* statistics keeps its workers for ever.)
DeafServerEnds ==
  (program = "ahps" /\ phase = "joining" /\ accept = "none") ~> (phase = "ended")

\* Whoever sends the name and the password of a configured user is let in, nobody
\* else is, and nobody if the configuration was refused, however far its users had
\* been read.  A name with a colon in it can never be sent.
ConfiguredPassword(name) ==
  LET named == {i \in DOMAIN file.users[1] : file.users[1][i].username = <<name>>}
  IN  file.users[1][CHOOSE i \in named : \A j \in named : j <= i].password[1]

GrantedAsConfigured ==
  program = "ahps" /\ (phase = "loaded" \/ (phase = "ended" /\ config.outcome = "false")) =>
    \A text \in Texts :
      Auth(config.users, [scheme |-> "Basic ", chars |-> Encode(text)]) = "ok" <=>
        /\ config.outcome = "true"
        /\ file.auth # <<>>
        /\ \E i \in DOMAIN file.users[1] :
             LET name == file.users[1][i].username[1]
             IN  /\ ~Contains(name, Colon)
                 /\ text = name \o <<Colon>> \o ConfiguredPassword(name)

\* What the README says of the keys of a file: timeout and workers may be left out.
OptionalSettingsMayBeOmitted ==
  happened \cap {"timeout unreadable", "workers unreadable"} = {}
=============================================================================
