-------------------------- MODULE ServiceLifecycle --------------------------
(***************************************************************************)
(* What ThreadFn() gives to a class derived from ServiceThread: which of   *)
(* its callbacks may run when.  The application asks (Ask); the service    *)
(* thread runs one callback at a time; Start, Stop and Finalize each use   *)
(* up a request of their own, so they never run unasked; after a failed    *)
(* Initialize, and after Finalize, nothing runs.                           *)
(*                                                                         *)
(* It is less than the comments of service_thread.h say: the value that    *)
(* ServiceIteration() returns ends nothing here, as in ThreadFn, which     *)
(* only looks whether it is positive; the header has a negative one finish *)
(* the thread (lines 48 and 49).                                           *)
(***************************************************************************)

Requests  == {"initialize", "start", "stop", "finalize"}
Callbacks == {"Initialize", "Start", "Iteration", "Stop", "Finalize"}
Phases    == {"new", "failed", "stopped", "started", "closing", "finalized"}

VARIABLES
  phase,    \* how far the service has got
  running,  \* the callback being executed, or "none"
  asked     \* the requests that no callback has used up yet

vars == <<phase, running, asked>>

TypeOK ==
  /\ phase \in Phases
  /\ running \in Callbacks \cup {"none"}
  /\ asked \subseteq Requests

Init ==
  /\ phase = "new"
  /\ running = "none"
  /\ asked = {}

Ask(r) ==
  /\ asked' = asked \cup {r}
  /\ UNCHANGED <<phase, running>>

-----------------------------------------------------------------------------
(* A callback begins in the phase it belongs to, and uses up its request.  *)

Begin(callback, from, used) ==
  /\ running = "none"
  /\ phase = from
  /\ used \subseteq asked
  /\ running' = callback
  /\ asked' = asked \ used
  /\ UNCHANGED phase

\* cmd_initialize_ is the one request that is never used up.
BeginInitialize ==
  /\ "initialize" \in asked
  /\ Begin("Initialize", "new", {})

BeginStart     == Begin("Start", "stopped", {"start"})
BeginIteration == Begin("Iteration", "started", {})
BeginStop      == Begin("Stop", "started", {"stop"})
BeginFinalize  == Begin("Finalize", "closing", {"finalize"})

\* A service that is stopped or started may be closed, once that is asked.
Close ==
  /\ running = "none"
  /\ phase \in {"stopped", "started"}
  /\ "finalize" \in asked
  /\ phase' = "closing"
  /\ UNCHANGED <<running, asked>>

End(callback, into) ==
  /\ running = callback
  /\ running' = "none"
  /\ phase' \in into
  /\ UNCHANGED asked

EndInitialize == End("Initialize", {"stopped", "failed"})
EndStart      == End("Start", {"started"})
EndIteration  == End("Iteration", {"started"})   \* with any value
EndStop       == End("Stop", {"stopped"})
EndFinalize   == End("Finalize", {"finalized"})

-----------------------------------------------------------------------------
Next ==
  \/ \E r \in Requests : Ask(r)
  \/ BeginInitialize \/ EndInitialize
  \/ BeginStart      \/ EndStart
  \/ BeginIteration  \/ EndIteration
  \/ BeginStop       \/ EndStop
  \/ Close
  \/ BeginFinalize   \/ EndFinalize

Spec == Init /\ [][Next]_vars
=============================================================================
