------------------------------ MODULE Watchdog ------------------------------
(***************************************************************************)
(* The scheduling discipline every connection object of the proxy follows: *)
(* all its asynchronous operations run under ONE timer.  An initiating     *)
(* function calls set_timer(), and every completion handler starts with    *)
(* "if (cancel_timer())", so a handler acts only while the timer has not   *)
(* expired, and what it does is either to start further operations, the    *)
(* timer running again, or to let the connection go.                       *)
(*                                                                         *)
(* This is the abstract specification: it knows neither HTTP nor sockets,  *)
(* only which operations are outstanding and whether they are watched.     *)
(* Both connections implement it: Watchdog!Safety is a PROPERTY of         *)
(* ServerConnectionSystem and of ClientConnection, and a theorem of each.  *)
(***************************************************************************)
CONSTANT Operation      \* the names of the asynchronous operations

VARIABLES
  phase,        \* "new", "watched" (timer running), "due" (the timer has
                \* expired, on_timeout is queued) or "over"
  outstanding   \* the operations whose handler has not run yet

vars == <<phase, outstanding>>

TypeOK ==
  /\ phase \in {"new", "watched", "due", "over"}
  /\ outstanding \in SUBSET Operation

Init ==
  /\ phase = "new"
  /\ outstanding = {}

\* start(): the first operations, under a running timer.
Begin ==
  /\ phase = "new"
  /\ phase' = "watched"
  /\ outstanding' \in (SUBSET Operation) \ {{}}

\* A handler whose cancel_timer() succeeded starts the operations "next" and
\* sets the timer again.
Continue(o, next) ==
  /\ phase = "watched"
  /\ o \in outstanding
  /\ outstanding' = (outstanding \ {o}) \cup next
  /\ phase' = "watched"

\* A handler whose cancel_timer() succeeded starts nothing: the connection is
\* closed, and nothing will watch it any more.
Finish(o) ==
  /\ phase = "watched"
  /\ o \in outstanding
  /\ outstanding' = outstanding \ {o}
  /\ phase' = "over"

\* A handler whose cancel_timer() failed does nothing at all.
Drain(o) ==
  /\ phase \in {"due", "over"}
  /\ o \in outstanding
  /\ outstanding' = outstanding \ {o}
  /\ UNCHANGED phase

Expire ==
  /\ phase = "watched"
  /\ phase' = "due"
  /\ UNCHANGED outstanding

\* on_timeout(): the sockets are closed, which makes what is outstanding fail.
TimeOut ==
  /\ phase = "due"
  /\ phase' = "over"
  /\ UNCHANGED outstanding

Next ==
  \/ Begin
  \/ \E o \in Operation :
       \/ \E next \in (SUBSET Operation) \ {{}} : Continue(o, next)
       \/ Finish(o)
       \/ Drain(o)
  \/ Expire
  \/ TimeOut

Safety == Init /\ [][Next]_vars

\* A handler and the timer service keep running.
Fairness ==
  /\ WF_vars(Expire)
  /\ WF_vars(TimeOut)
  /\ \A o \in Operation : WF_vars(Drain(o))

Spec == Safety /\ Fairness
=============================================================================
