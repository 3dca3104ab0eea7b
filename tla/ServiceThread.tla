---------------------------- MODULE ServiceThread ----------------------------
(***************************************************************************)
(* teletraffic::ServiceThread (service_thread.cpp): one object, the        *)
(* service thread that its Init() creates, and the application threads     *)
(* (Clients) that call Init, Start, Stop and the destructor.               *)
(*                                                                         *)
(* The two sides share internal_state_, which only the service thread      *)
(* writes and which everybody reads without a lock, the four cmd_ flags,   *)
(* only touched under lock_, and thread_exit_.  One action below is one    *)
(* access to that shared data: a critical section touches a single flag,   *)
(* so it is one step, and each read of internal_state_ is a step of its    *)
(* own.  The build (CMakeLists.txt sets "-Wall -g") leaves the unlocked    *)
(* word reads as plain loads, and every polling loop calls usleep, so a    *)
(* read returns the current value.  A poll that fails is a stuttering      *)
(* step: a client may therefore miss a state that does not last.           *)
(*                                                                         *)
(* The clients call Start and Stop whenever they like, even at the same    *)
(* time; the object is only initialised once, and destroyed when no call   *)
(* is in progress.  Two variables are history, which no guard of the code  *)
(* reads: mode is what the finished calls have told the application, and   *)
(* disturbed holds the calls that cannot tell it anything, because another *)
(* call was made at the same time or because a request for the opposite    *)
(* was still pending when they began.                                      *)
(***************************************************************************)
EXTENDS Integers

CONSTANTS
  Clients,          \* the application threads
  IterationResults  \* what ServiceIteration() may return

ASSUME ConstantsAssumption ==
  /\ IterationResults \in SUBSET Int
  /\ IterationResults # {}

VARIABLES
  internal_state,   \* internal_state_
  cmd,              \* the cmd_ flags that are true
  thread_exit,      \* thread_exit_
  wait_for,         \* wait_for, local to ThreadFn
  svc,              \* where the service thread is in ThreadFn
  op,               \* op[c]: the member function client c is in
  at,               \* at[c]: where c is in that function
  mode,             \* history: what the calls so far have told the application
  disturbed         \* history: the clients whose call another one spoils

service == <<internal_state, cmd, wait_for, svc>>
client  == <<op, at, mode, disturbed>>
vars    == <<service, thread_exit, client>>

-----------------------------------------------------------------------------
Flags == {"initialize", "start", "stop", "finalize"}

InternalState ==
  {"kNull", "kCrashed", "kNotInitialized", "kInitializing", "kStopping",
   "kStopped", "kStarting", "kStarted", "kFinalizing", "kFinalized"}

\* The states in which ThreadFn calls a function of the derived class.
CallbackStates ==
  {"kInitializing", "kStarting", "kStarted", "kStopping", "kFinalizing"}

Requests == {"Start", "Stop", "Finalize"}
Ops      == Requests \cup {"none", "Init"}

\* "base" and "join" are the base class destructor, entered when the derived
\* part of the object is gone.
ClientSteps == {"idle", "create", "boot", "cmd", "wait", "verdict", "check",
                "base", "join"}

\* "callback" is inside ServiceInitialize, ServiceStart, ..., ServiceFinalize.
ServiceSteps == {"none", "boot", "top", "case", "callback", "check_stop",
                 "check_finalize", "done"}

Modes == {"new", "initializing", "failed", "stopped", "started", "unknown",
          "destroying", "destroyed"}

Flag   == [Init  |-> "initialize", Start    |-> "start",
           Stop  |-> "stop",       Finalize |-> "finalize"]

\* Mutant: Finalize() is content with the state before the last.
TargetEarly == [Start |-> "kStarted", Stop |-> "kStopped", Finalize |-> "kFinalizing"]

\* Mutant: Stop() is content with the state before the last.
TargetStopping == [Start |-> "kStarted", Stop |-> "kStopping", Finalize |-> "kFinalized"]

Target == [Start |-> "kStarted", Stop |-> "kStopped", Finalize |-> "kFinalized"]

\* What a return from Start() or Stop() tells the application.
Outcome == [Start |-> "started", Stop |-> "stopped"]

Alive   == mode \notin {"destroying", "destroyed"}
AllIdle == \A c \in Clients : at[c] = "idle"

Init ==
  /\ internal_state = "kNull"
  /\ cmd = {}
  /\ thread_exit = FALSE
  /\ wait_for = 0
  /\ svc = "none"
  /\ op = [c \in Clients |-> "none"]
  /\ at = [c \in Clients |-> "idle"]
  /\ mode = "new"
  /\ disturbed = {}

-----------------------------------------------------------------------------
(* The application enters a member function.                               *)

\* The opposite of what the call asks for is still to be done.
Opposed(o) == (o = "Start" /\ "stop" \in cmd) \/ (o = "Stop" /\ "start" \in cmd)

Disturbed(c, o) ==
  IF AllIdle THEN {d \in {c} : Opposed(o)}
             ELSE {c} \cup {d \in Clients : at[d] # "idle"}

Enter(c, o, step) ==
  /\ at[c] = "idle"
  /\ op' = [op EXCEPT ![c] = o]
  /\ at' = [at EXCEPT ![c] = step]
  /\ disturbed' = Disturbed(c, o)
  /\ UNCHANGED <<service, thread_exit>>

CallInit(c) ==
  /\ mode = "new"
  /\ Enter(c, "Init", "create")
  /\ mode' = "initializing"

CallStart(c) ==
  /\ Alive
  /\ Enter(c, "Start", "check")
  /\ UNCHANGED mode

CallStop(c) ==
  /\ Alive
  /\ Enter(c, "Stop", "check")
  /\ UNCHANGED mode

\* delete: the derived class's destructor does nothing but call Finalize().
CallDestructor(c) ==
  /\ Alive
  /\ AllIdle
  /\ Enter(c, "Finalize", "check")
  /\ mode' = "destroying"

-----------------------------------------------------------------------------
(* The steps of the member functions.                                      *)

Goto(c, step) ==
  /\ at' = [at EXCEPT ![c] = step]
  /\ UNCHANGED <<op, mode, disturbed>>

\* Nobody can tell the state of the service from a disturbed call, unless
\* it is a state for good.
Known(c, outcome) ==
  IF c \in disturbed /\ outcome \in {"started", "stopped"} THEN "unknown" ELSE outcome

Return(c, outcome) ==
  /\ at' = [at EXCEPT ![c] = "idle"]
  /\ op' = [op EXCEPT ![c] = "none"]
  /\ mode' = Known(c, outcome)
  /\ disturbed' = disturbed \ {c}

\* Init(): pthread_create succeeds ...
Create(c) ==
  /\ at[c] = "create"
  /\ svc' = "boot"
  /\ Goto(c, "boot")
  /\ UNCHANGED <<internal_state, cmd, wait_for, thread_exit>>

\* ... or fails.
CreateFails(c) ==
  /\ at[c] = "create"
  /\ Return(c, "failed")
  /\ UNCHANGED <<service, thread_exit>>

\* Init(): wait for the thread to leave kNull.
AwaitBoot(c) ==
  /\ at[c] = "boot"
  /\ internal_state # "kNull"
  /\ IF internal_state = "kCrashed" THEN Return(c, "failed") ELSE Goto(c, "cmd")
  /\ UNCHANGED <<service, thread_exit>>

\* Start(), Stop(), Finalize(): the early returns.  internal_state_ never
\* goes back to kNull, so the two reads are worth one.  The destructor
\* ignores the value that Finalize() returns.
Check(c) ==
  /\ at[c] = "check"
  /\ IF internal_state \in {"kNull", "kCrashed"}
       THEN IF op[c] = "Finalize" THEN Goto(c, "base") ELSE Return(c, mode)
       ELSE Goto(c, "cmd")
  /\ UNCHANGED <<service, thread_exit>>

\* Raise the flag, under lock_.
Command(c) ==
  /\ at[c] = "cmd"
  /\ cmd' = cmd \cup {Flag[op[c]]}
  /\ Goto(c, "wait")
  /\ UNCHANGED <<internal_state, wait_for, svc, thread_exit>>

\* Init(): poll until the verdict of ServiceInitialize() is known ...
AwaitVerdict(c) ==
  /\ at[c] = "wait"
  /\ op[c] = "Init"
  /\ internal_state \in {"kStopped", "kCrashed"}
  /\ Goto(c, "verdict")
  /\ UNCHANGED <<service, thread_exit>>

\* ... and read the state again to choose the value to return.
Verdict(c) ==
  /\ at[c] = "verdict"
  /\ Return(c, IF internal_state = "kCrashed" THEN "failed" ELSE "stopped")
  /\ UNCHANGED <<service, thread_exit>>

\* Start(), Stop(), Finalize(): poll until the state asked for is seen.
AwaitTarget(c) ==
  /\ at[c] = "wait"
  /\ op[c] \in Requests
  /\ internal_state = Target[op[c]]
  /\ IF op[c] = "Finalize" THEN Goto(c, "base") ELSE Return(c, Outcome[op[c]])
  /\ UNCHANGED <<service, thread_exit>>

\* ~ServiceThread(): nothing to join if no thread was created.
BaseDestructor(c) ==
  /\ at[c] = "base"
  /\ IF internal_state = "kNull"
       THEN Return(c, "destroyed") /\ UNCHANGED thread_exit
       ELSE thread_exit' = TRUE /\ Goto(c, "join")
  /\ UNCHANGED service

\* Mutant: the destructor does not wait for the thread.
JoinNobody(c) ==
  /\ at[c] = "join"
  /\ Return(c, "destroyed")
  /\ UNCHANGED <<service, thread_exit>>

\* pthread_join, and the end of the object.
Join(c) ==
  /\ at[c] = "join"
  /\ svc = "done"
  /\ Return(c, "destroyed")
  /\ UNCHANGED <<service, thread_exit>>

-----------------------------------------------------------------------------
(* The service thread: ThreadFn().                                         *)

\* Mutant: the new thread does not leave kNull.
ThreadBootSilent ==
  /\ svc = "boot"
  /\ svc' = "top"
  /\ UNCHANGED <<internal_state, cmd, wait_for, thread_exit, client>>

ThreadBoot ==
  /\ svc = "boot"
  /\ internal_state' = "kNotInitialized"
  /\ svc' = "top"
  /\ UNCHANGED <<cmd, wait_for, thread_exit, client>>

\* while (1) { if (thread_exit_) break; switch ...
LoopTop ==
  /\ svc = "top"
  /\ svc' = IF thread_exit THEN "done" ELSE "case"
  /\ UNCHANGED <<internal_state, cmd, wait_for, thread_exit, client>>

CaseNotInitialized ==
  /\ svc = "case"
  /\ internal_state = "kNotInitialized"
  /\ internal_state' = IF "initialize" \in cmd THEN "kInitializing" ELSE internal_state
  /\ svc' = "top"
  /\ UNCHANGED <<cmd, wait_for, thread_exit, client>>

\* Mutant: the service starts by itself.
CaseStoppedAutostart ==
  /\ svc = "case"
  /\ internal_state = "kStopped"
  /\ internal_state' = "kStarting"
  /\ svc' = "check_finalize"
  /\ UNCHANGED <<cmd, wait_for, thread_exit, client>>

CaseStopped ==
  /\ svc = "case"
  /\ internal_state = "kStopped"
  /\ internal_state' = IF "start" \in cmd THEN "kStarting" ELSE internal_state
  /\ svc' = "check_finalize"
  /\ UNCHANGED <<cmd, wait_for, thread_exit, client>>

\* Mutant: an iteration clears cmd_stop_ before the loop has looked at it.
ClearedUnserved(s) ==
  CASE s = "kStarting"                 -> {"start"}
    [] s \in {"kStarted", "kStopping"} -> {"stop"}
    [] s = "kFinalizing"               -> {"finalize"}
    [] OTHER                           -> {}

\* The flag that the critical section of the case clears; cmd_initialize_
\* is not cleared, the assignment is commented out.
Cleared(s) ==
  CASE s = "kStarting"   -> {"start"}
    [] s = "kStopping"   -> {"stop"}
    [] s = "kFinalizing" -> {"finalize"}
    [] OTHER             -> {}

\* kInitializing, kStarting, kStarted, kStopping, kFinalizing: clear the
\* flag and call the function of the derived class.
CallbackBegins ==
  /\ svc = "case"
  /\ internal_state \in CallbackStates
  /\ cmd' = cmd \ Cleared(internal_state)
  /\ svc' = "callback"
  /\ UNCHANGED <<internal_state, wait_for, thread_exit, client>>

\* The states that follow the return of a callback.  Only the value of
\* ServiceInitialize() is looked at.
After(s) ==
  CASE s = "kInitializing" -> {"kStopped", "kCrashed"}
    [] s = "kStarting"     -> {"kStarted"}
    [] s = "kStopping"     -> {"kStopped"}
    [] s = "kFinalizing"   -> {"kFinalized"}

CallbackReturns ==
  /\ svc = "callback"
  /\ internal_state # "kStarted"
  /\ internal_state' \in After(internal_state)
  /\ svc' = "top"
  /\ UNCHANGED <<cmd, wait_for, thread_exit, client>>

IterationReturns ==
  /\ svc = "callback"
  /\ internal_state = "kStarted"
  /\ wait_for' \in IterationResults
  /\ svc' = "check_stop"
  /\ UNCHANGED <<internal_state, cmd, thread_exit, client>>

CheckStop ==
  /\ svc = "check_stop"
  /\ internal_state' = IF "stop" \in cmd THEN "kStopping" ELSE internal_state
  /\ svc' = "check_finalize"
  /\ UNCHANGED <<cmd, wait_for, thread_exit, client>>

\* Mutant: a service that is started is not finalized.
CheckFinalizeStopped ==
  /\ svc = "check_finalize"
  /\ internal_state' = IF "finalize" \in cmd /\ internal_state = "kStopped"
                         THEN "kFinalizing" ELSE internal_state
  /\ svc' = "top"
  /\ UNCHANGED <<cmd, wait_for, thread_exit, client>>

\* Finalize takes precedence over what the step before decided.
CheckFinalize ==
  /\ svc = "check_finalize"
  /\ internal_state' = IF "finalize" \in cmd THEN "kFinalizing" ELSE internal_state
  /\ svc' = "top"
  /\ UNCHANGED <<cmd, wait_for, thread_exit, client>>

\* kFinalized and kCrashed: sleep.
CaseOver ==
  /\ svc = "case"
  /\ internal_state \in {"kFinalized", "kCrashed"}
  /\ svc' = "top"
  /\ UNCHANGED <<internal_state, cmd, wait_for, thread_exit, client>>

-----------------------------------------------------------------------------
Call(c) == CallInit(c) \/ CallStart(c) \/ CallStop(c) \/ CallDestructor(c)

ClientStep(c) ==
  \/ Create(c)  \/ CreateFails(c)  \/ AwaitBoot(c)
  \/ Check(c)   \/ Command(c)      \/ AwaitVerdict(c) \/ Verdict(c)
  \/ AwaitTarget(c)
  \/ BaseDestructor(c) \/ Join(c)

ThreadStep ==
  \/ ThreadBoot      \/ LoopTop
  \/ CaseNotInitialized \/ CaseStopped \/ CaseOver
  \/ CallbackBegins  \/ CallbackReturns \/ IterationReturns
  \/ CheckStop       \/ CheckFinalize

\* The end: the object is gone and its memory with it.
Gone == mode = "destroyed" /\ UNCHANGED vars

Next ==
  \/ \E c \in Clients : Call(c) \/ ClientStep(c)
  \/ ThreadStep
  \/ Gone

Spec == Init /\ [][Next]_vars

\* Threads are scheduled and callbacks return; nobody has to make a call.
Fairness ==
  /\ WF_vars(ThreadStep)
  /\ \A c \in Clients : WF_vars(ClientStep(c))

FairSpec == Spec /\ Fairness

-----------------------------------------------------------------------------
(* Types, and the fact that internal_state_ leaves kNull with the first    *)
(* step of the new thread and for good: the assertions of ThreadFn on      *)
(* kNull and on an unknown state cannot fail.                              *)
TypeOK ==
  /\ internal_state \in InternalState
  /\ cmd \subseteq Flags
  /\ thread_exit \in BOOLEAN
  /\ wait_for \in IterationResults \cup {0}
  /\ svc \in ServiceSteps
  /\ op \in [Clients -> Ops]
  /\ at \in [Clients -> ClientSteps]
  /\ mode \in Modes
  /\ disturbed \subseteq Clients
  /\ internal_state = "kNull" <=> svc \in {"none", "boot"}

(* Once Finalize() is over, the derived part of the object is destroyed:   *)
(* no ServiceXxx() function of it is, or will ever be, executing in the    *)
(* service thread.  This is why every derived destructor calls Finalize(). *)
DerivedPartGone == mode = "destroyed" \/ \E c \in Clients : at[c] \in {"base", "join"}
NoCallbackOnDestroyedObject == DerivedPartGone => svc # "callback"

(* When ~ServiceThread() is over there is no service thread left that      *)
(* could touch the freed object.                                           *)
NoThreadOnDestroyedObject == mode = "destroyed" => svc \in {"none", "done"}

(* What the last call told the application stays true until the next one:  *)
(* after a Stop() that nothing disturbed the service stays stopped, after  *)
(* a Start() it stays started, however many redundant calls came before;   *)
(* one whose Init() failed never runs.                                     *)
CallersViewIsTrue ==
  /\ AllIdle /\ mode = "stopped" => internal_state = "kStopped"
  /\ AllIdle /\ mode = "started" => internal_state = "kStarted"
  /\ mode = "failed" => internal_state \in {"kNull", "kCrashed"}

(* A call that does not return was disturbed.  The states that the calls   *)
(* poll for need not last, and a poll can miss them for ever; but only if  *)
(* another call is in progress or the opposite request was still pending   *)
(* when the call began.                                                    *)
CallsReturn ==
  \A c \in Clients : at[c] # "idle" ~> at[c] = "idle" \/ c \in disturbed

(* "Stopped, start it again with Start()." (service_thread.h:79): a        *)
(* service that is stopped starts when somebody is calling Start().        *)
StoppedUntilStart ==
  [][internal_state = "kStopped" /\ internal_state' = "kStarting"
       => \E c \in Clients : op[c] = "Start"]_vars

(* The destructor returns, whatever requests were left pending.            *)
DestructorReturns == mode = "destroying" ~> mode = "destroyed"

-----------------------------------------------------------------------------
(* The callbacks run as in ServiceLifecycle: in order, one at a time,      *)
(* Start, Stop and Finalize each on a request of their own, and none after *)
(* a failed Initialize or after Finalize.                                  *)

Phase ==
  CASE internal_state \in {"kNull", "kNotInitialized", "kInitializing"} -> "new"
    [] internal_state = "kCrashed"                -> "failed"
    [] internal_state \in {"kStopped", "kStarting"} -> "stopped"
    [] internal_state \in {"kStarted", "kStopping"} -> "started"
    [] internal_state = "kFinalizing"             -> "closing"
    [] internal_state = "kFinalized"              -> "finalized"

CallbackOf ==
  [kInitializing |-> "Initialize", kStarting |-> "Start", kStarted |-> "Iteration",
   kStopping |-> "Stop", kFinalizing |-> "Finalize"]

Running == IF svc = "callback" THEN CallbackOf[internal_state] ELSE "none"

L == INSTANCE ServiceLifecycle
       WITH phase <- Phase, running <- Running, asked <- cmd

Lifecycle == L!Spec
=============================================================================
