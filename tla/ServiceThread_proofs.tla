------------------------ MODULE ServiceThread_proofs ------------------------
(***************************************************************************)
(* Theorems about ServiceThread, for every set of clients, every set of    *)
(* iteration results and every order of calls.                             *)
(***************************************************************************)
EXTENDS ServiceThread, TLAPS

Typed ==
  /\ internal_state \in InternalState
  /\ cmd \subseteq Flags
  /\ thread_exit \in BOOLEAN
  /\ wait_for \in IterationResults \cup {0}
  /\ svc \in ServiceSteps
  /\ op \in [Clients -> Ops]
  /\ at \in [Clients -> ClientSteps]
  /\ mode \in Modes
  /\ disturbed \subseteq Clients

-----------------------------------------------------------------------------
(* The inductive invariant of the safety theorems, in named parts.         *)

\* Which function a client is in follows from where it is in it.
CallOK(c) ==
  /\ at[c] = "idle" <=> op[c] = "none"
  /\ at[c] \in {"create", "boot", "verdict"} => op[c] = "Init"
  /\ at[c] = "check" => op[c] \in Requests
  /\ at[c] \in {"base", "join"} => op[c] = "Finalize"

\* Init() is called once; the destructor has the object for itself.
Protocol ==
  /\ \A c \in Clients : op[c] = "Init" => mode # "new"
  /\ \A c, d \in Clients : op[c] = "Init" /\ op[d] = "Init" => c = d
  /\ \A c \in Clients : op[c] = "Finalize" => mode = "destroying"
  /\ mode = "destroying" => \A c \in Clients : op[c] \in {"none", "Finalize"}
  /\ \A c, d \in Clients : op[c] = "Finalize" /\ op[d] = "Finalize" => c = d
  /\ mode = "destroyed" => \A c \in Clients : op[c] = "none"

\* There is a service thread from the creation to the join.
ThreadExists ==
  /\ internal_state = "kNull" <=> svc \in {"none", "boot"}
  /\ mode = "new" => svc = "none"
  /\ \A c \in Clients : at[c] = "create" => svc = "none"
  /\ svc = "boot" => \E c \in Clients : at[c] = "boot"
  /\ mode = "destroyed" => svc \in {"none", "done"}

\* Where ThreadFn is and the state it is in.
StepOK ==
  /\ svc = "callback" => internal_state \in CallbackStates
  /\ svc = "check_stop" => internal_state = "kStarted"
  /\ svc = "check_finalize" =>
       internal_state \in {"kStopped", "kStarting", "kStarted", "kStopping"}

\* ThreadFn enters a state because of a flag, which its callback clears.
FlagOK ==
  /\ internal_state = "kInitializing" => "initialize" \in cmd
  /\ internal_state = "kStarting" /\ svc # "callback" => "start" \in cmd
  /\ internal_state = "kStopping" /\ svc # "callback" => "stop" \in cmd
  /\ internal_state = "kFinalizing" /\ svc # "callback" => "finalize" \in cmd

\* ~ServiceThread() runs when the service is over, or never began.
DestructorOK ==
  /\ \A c \in Clients :
       at[c] = "base" => internal_state \in {"kNull", "kCrashed", "kFinalized"}
  /\ \A c \in Clients :
       at[c] = "join" => internal_state \in {"kCrashed", "kFinalized"}

IInv ==
  /\ Typed
  /\ \A c \in Clients : CallOK(c)
  /\ Protocol
  /\ ThreadExists
  /\ StepOK
  /\ FlagOK
  /\ DestructorOK

-----------------------------------------------------------------------------
(* Every action preserves the types, given where the callers and the       *)
(* service thread are when they read a table.                              *)
LEMMA TypedStep == IInv /\ [Next]_vars => Typed'
<1> SUFFICES ASSUME Typed, \A c \in Clients : CallOK(c), StepOK, [Next]_vars
             PROVE  Typed'
  BY DEF IInv
<1> USE DEF Typed, InternalState, Flags, ServiceSteps, Ops, Requests, ClientSteps,
            Modes, service, client
<1>1. CASE UNCHANGED vars
  BY <1>1 DEF vars
<1>2. ASSUME NEW c \in Clients, Call(c) PROVE Typed'
  <2>1. CASE CallInit(c)
    BY <2>1 DEF CallInit, Enter, Disturbed
  <2>2. CASE CallStart(c)
    BY <2>2 DEF CallStart, Enter, Disturbed
  <2>3. CASE CallStop(c)
    BY <2>3 DEF CallStop, Enter, Disturbed
  <2>4. CASE CallDestructor(c)
    BY <2>4 DEF CallDestructor, Enter, Disturbed
  <2> QED
    BY <1>2, <2>1, <2>2, <2>3, <2>4 DEF Call
<1>3. ASSUME NEW c \in Clients, ClientStep(c) PROVE Typed'
  <2>1. CASE Create(c) \/ CreateFails(c)
    BY <2>1 DEF Create, CreateFails, Goto, Return, Known
  <2>2. CASE AwaitBoot(c)
    BY <2>2 DEF AwaitBoot, Goto, Return, Known
  <2>7. CASE Check(c)
    <3>1. CASE at' = [at EXCEPT ![c] = "idle"]
      BY <2>7, <3>1 DEF Check, Goto, Return, Known
    <3>2. CASE at' # [at EXCEPT ![c] = "idle"]
      BY <2>7, <3>2 DEF Check, Goto, Return, Known
    <3> QED
      BY <3>1, <3>2
  <2>3. CASE Command(c)
    <3>1. at[c] = "cmd" /\ UNCHANGED <<internal_state, wait_for, svc, thread_exit, op, mode, disturbed>>
      BY <2>3 DEF Command, Goto
    <3>2. cmd' \subseteq Flags
      <4>1. CallOK(c)
        OBVIOUS
      <4>2. op[c] \in Requests \cup {"Init"}
        BY <2>3, <4>1 DEF Command, CallOK
      <4>3. Flag[op[c]] \in Flags
        BY <4>2 DEF Flag
      <4> QED
        BY <2>3, <4>3 DEF Command
    <3>3. at' \in [Clients -> ClientSteps]
      BY <2>3 DEF Command, Goto
    <3> QED
      BY <3>1, <3>2, <3>3
  <2>4. CASE AwaitVerdict(c) \/ Verdict(c)
    BY <2>4 DEF AwaitVerdict, Verdict, Goto, Return, Known
  <2>5. CASE AwaitTarget(c)
    BY <2>5 DEF AwaitTarget, Goto, Return, Known, Outcome
  <2>6. CASE BaseDestructor(c) \/ Join(c)
    BY <2>6 DEF BaseDestructor, Join, Goto, Return, Known
  <2> QED
    BY <1>3, <2>1, <2>2, <2>3, <2>4, <2>5, <2>6, <2>7 DEF ClientStep
<1>4. CASE ThreadStep
  <2>1. CASE ThreadBoot \/ LoopTop
    BY <2>1 DEF ThreadBoot, LoopTop
  <2>2. CASE CaseNotInitialized \/ CaseStopped \/ CaseOver
    BY <2>2 DEF CaseNotInitialized, CaseStopped, CaseOver
  <2>3. CASE CallbackBegins
    BY <2>3 DEF CallbackBegins, Cleared
  <2>4. CASE CallbackReturns \/ IterationReturns
    BY <2>4 DEF CallbackReturns, IterationReturns, After, StepOK, CallbackStates
  <2>5. CASE CheckStop \/ CheckFinalize
    BY <2>5 DEF CheckStop, CheckFinalize
  <2> QED
    BY <1>4, <2>1, <2>2, <2>3, <2>4, <2>5 DEF ThreadStep
<1> QED
  BY <1>1, <1>2, <1>3, <1>4 DEF Next, Gone
-----------------------------------------------------------------------------
(* IInv is inductive.                                                      *)
LEMMA Inductive == IInv /\ [Next]_vars => IInv'
<1> SUFFICES ASSUME IInv, [Next]_vars, Typed' PROVE IInv'
  BY TypedStep
<1> USE DEF IInv, CallOK, Protocol, ThreadExists, StepOK, FlagOK, DestructorOK, service
<1>1. CASE UNCHANGED vars
  BY <1>1 DEF vars, client
<1>2. ASSUME NEW c \in Clients, Call(c) PROVE IInv'
  <2> USE DEF Typed, Requests
  <2>1. CASE CallInit(c)
    BY <2>1 DEF CallInit, Enter, Disturbed, Alive
  <2>2. CASE CallStart(c)
    BY <2>2 DEF CallStart, Enter, Disturbed, Alive
  <2>3. CASE CallStop(c)
    BY <2>3 DEF CallStop, Enter, Disturbed, Alive
  <2>4. CASE CallDestructor(c)
    BY <2>4 DEF CallDestructor, Enter, Disturbed, Alive, AllIdle
  <2> QED
    BY <1>2, <2>1, <2>2, <2>3, <2>4 DEF Call
<1>3. ASSUME NEW c \in Clients, ClientStep(c) PROVE IInv'
  <2> USE DEF Typed, Requests
  <2>1. CASE Create(c)
    BY <2>1 DEF Create, Goto
  <2>2. CASE CreateFails(c)
    BY <2>2 DEF CreateFails, Return, Known
  <2>3. CASE AwaitBoot(c)
    BY <2>3 DEF AwaitBoot, Goto, Return, Known
  <2>4. CASE Check(c)
    BY <2>4 DEF Check, Goto, Return, Known
  <2>5. CASE Command(c)
    BY <2>5 DEF Command, Goto
  <2>6. CASE AwaitVerdict(c)
    BY <2>6 DEF AwaitVerdict, Goto
  <2>7. CASE Verdict(c)
    BY <2>7 DEF Verdict, Return, Known
  <2>8. CASE AwaitTarget(c)
    BY <2>8 DEF AwaitTarget, Goto, Return, Known, Outcome, Target
  <2>9. CASE BaseDestructor(c)
    BY <2>9 DEF BaseDestructor, Goto, Return, Known
  <2>10. CASE Join(c)
    BY <2>10 DEF Join, Return, Known
  <2> QED
    BY <1>3, <2>1, <2>2, <2>3, <2>4, <2>5, <2>6, <2>7, <2>8, <2>9, <2>10 DEF ClientStep
<1>4. CASE ThreadStep
  <2> USE DEF client
  <2>1. CASE ThreadBoot
    BY <2>1 DEF ThreadBoot
  <2>2. CASE LoopTop
    BY <2>2 DEF LoopTop
  <2>3. CASE CaseNotInitialized
    BY <2>3 DEF CaseNotInitialized
  <2>4. CASE CaseStopped
    BY <2>4 DEF CaseStopped
  <2>5. CASE CaseOver
    BY <2>5 DEF CaseOver
  <2>6. CASE CallbackBegins
    BY <2>6 DEF CallbackBegins, Cleared, CallbackStates
  <2>7. CASE CallbackReturns
    BY <2>7 DEF CallbackReturns, After, CallbackStates
  <2>8. CASE IterationReturns
    BY <2>8 DEF IterationReturns
  <2>9. CASE CheckStop
    BY <2>9 DEF CheckStop
  <2>10. CASE CheckFinalize
    BY <2>10 DEF CheckFinalize
  <2> QED
    BY <1>4, <2>1, <2>2, <2>3, <2>4, <2>5, <2>6, <2>7, <2>8, <2>9, <2>10 DEF ThreadStep
<1> QED
  BY <1>1, <1>2, <1>3, <1>4 DEF Next, Gone

LEMMA Invariant == Spec => []IInv
<1>1. Init => IInv
  BY DEF Init, IInv, Typed, CallOK, Protocol, ThreadExists, StepOK, FlagOK, DestructorOK,
         InternalState, Flags, ServiceSteps, Ops, ClientSteps, Modes
<1> QED
  BY <1>1, Inductive, PTL DEF Spec

-----------------------------------------------------------------------------
(* The types, and the assertions of ThreadFn: internal_state_ is kNull     *)
(* exactly as long as no thread has taken its first step.                  *)
THEOREM TypeCorrect == Spec => []TypeOK
<1>1. IInv => TypeOK
  BY DEF IInv, Typed, ThreadExists, TypeOK
<1> QED
  BY <1>1, Invariant, PTL

(* Whatever calls the clients make, in whatever order, no callback runs in *)
(* an object whose derived part is destroyed, ...                          *)
THEOREM DestructionIsSafe == Spec => []NoCallbackOnDestroyedObject
<1>1. IInv => NoCallbackOnDestroyedObject
  BY DEF IInv, ThreadExists, StepOK, DestructorOK, CallbackStates, DerivedPartGone,
         NoCallbackOnDestroyedObject
<1> QED
  BY <1>1, Invariant, PTL

(* ... and no service thread is left when the object is gone.              *)
THEOREM ThreadIsJoined == Spec => []NoThreadOnDestroyedObject
<1>1. IInv => NoThreadOnDestroyedObject
  BY DEF IInv, ThreadExists, NoThreadOnDestroyedObject
<1> QED
  BY <1>1, Invariant, PTL

-----------------------------------------------------------------------------
(* A step of ServiceThread is a step of ServiceLifecycle or stutters.      *)
LEMMA LifecycleStep == IInv /\ [Next]_vars => [L!Next]_(L!vars)
<1> SUFFICES ASSUME IInv, [Next]_vars PROVE [L!Next]_(L!vars)
  OBVIOUS
<1> USE DEF L!vars, L!Next, Phase, Running
<1>1. ASSUME UNCHANGED service PROVE UNCHANGED L!vars
  BY <1>1 DEF service
<1>2. ASSUME NEW c \in Clients, Call(c) PROVE UNCHANGED service
  BY <1>2 DEF Call, CallInit, CallStart, CallStop, CallDestructor, Enter
<1>3. ASSUME NEW c \in Clients, ClientStep(c) PROVE [L!Next]_(L!vars)
  <2>1. CASE Create(c)
    BY <2>1 DEF Create, IInv, ThreadExists
  <2>2. CASE Command(c)
    <3>1. Flag[op[c]] \in L!Requests
      <4>1. CallOK(c) /\ op[c] \in Ops
        BY DEF IInv, Typed
      <4>2. op[c] \in Requests \cup {"Init"}
        BY <2>2, <4>1 DEF Command, CallOK, Ops
      <4> QED
        BY <4>2 DEF Requests, Flag, L!Requests
    <3>2. L!Ask(Flag[op[c]])
      BY <2>2 DEF Command, L!Ask
    <3> QED
      BY <3>1, <3>2
  <2>3. CASE ~Create(c) /\ ~Command(c)
    <3>1. UNCHANGED service
      BY <1>3, <2>3 DEF ClientStep, CreateFails, AwaitBoot, Check, AwaitVerdict, Verdict,
                        AwaitTarget, BaseDestructor, Join
    <3> QED
      BY <3>1, <1>1
  <2> QED
    BY <2>1, <2>2, <2>3
<1>4. CASE ThreadStep
  <2> USE DEF L!Begin, L!End
  <2>1. CASE ThreadBoot \/ LoopTop \/ CaseNotInitialized \/ CaseStopped \/ CaseOver \/ CheckStop
    BY <2>1 DEF ThreadBoot, LoopTop, CaseNotInitialized, CaseStopped, CaseOver, CheckStop,
                IInv, ThreadExists, StepOK
  <2>2. CASE CheckFinalize
    BY <2>2 DEF CheckFinalize, L!Close, IInv, StepOK
  <2>3. CASE CallbackBegins
    <3>1. L!BeginInitialize \/ L!BeginStart \/ L!BeginIteration \/ L!BeginStop
            \/ L!BeginFinalize
      BY <2>3 DEF CallbackBegins, CallbackStates, Cleared, CallbackOf, IInv, FlagOK,
                  L!BeginInitialize, L!BeginStart, L!BeginIteration, L!BeginStop,
                  L!BeginFinalize
    <3> QED
      BY <3>1
  <2>4. CASE CallbackReturns
    <3>1. L!EndInitialize \/ L!EndStart \/ L!EndStop \/ L!EndFinalize
      BY <2>4 DEF CallbackReturns, After, CallbackOf, CallbackStates, IInv, StepOK,
                  L!EndInitialize, L!EndStart, L!EndStop, L!EndFinalize
    <3> QED
      BY <3>1
  <2>5. CASE IterationReturns
    BY <2>5 DEF IterationReturns, CallbackOf, L!EndIteration
  <2> QED
    BY <1>4, <2>1, <2>2, <2>3, <2>4, <2>5 DEF ThreadStep
<1> QED
  BY <1>1, <1>2, <1>3, <1>4 DEF Next, Gone, vars

(* Every behaviour of ServiceThread, for any clients, runs the callbacks   *)
(* of the derived class in the order ServiceLifecycle allows.              *)
THEOREM ImplementsLifecycle == Spec => Lifecycle
<1>1. Init => L!Init
  BY DEF Init, L!Init, Phase, Running
<1> QED
  BY <1>1, LifecycleStep, Invariant, PTL DEF Spec, L!Spec, Lifecycle

-----------------------------------------------------------------------------
(* What IInv needs in addition for the callers' view to be true.           *)

\* Nothing is asked of a thread that has not begun; nothing of a service
\* is finalized but by the destructor.
Beginnings ==
  /\ internal_state = "kNull" =>
       cmd = {} /\ \A c \in Clients : at[c] \notin {"cmd", "wait", "verdict"}
  /\ mode \in {"destroying", "destroyed"} \/
       ("finalize" \notin cmd /\ internal_state \notin {"kFinalizing", "kFinalized"})

\* Only Init() says that a service has failed, and it says so once.
Failure ==
  /\ \A c \in Clients : op[c] = "Init" => mode \in {"initializing", "unknown"}
  /\ mode = "failed" => svc = "none" \/ internal_state = "kCrashed"
  /\ mode = "failed" /\ svc = "none" => \A c \in Clients : at[c] # "create"
  /\ mode = "initializing" => \E c \in Clients : op[c] = "Init"
  /\ mode \in {"stopped", "started"} =>
       internal_state \in {"kStopped", "kStarting", "kStarted", "kStopping"}

\* A call that is not disturbed is the only one, and no opposite request
\* comes up while it lasts.
Undisturbed(c) ==
  at[c] # "idle" /\ c \notin disturbed =>
    /\ \A d \in Clients : d # c => at[d] = "idle"
    /\ op[c] = "Init" => "start" \notin cmd
    /\ op[c] = "Init" /\ at[c] = "verdict" => internal_state \in {"kStopped", "kCrashed"}
    /\ op[c] = "Start" => "stop" \notin cmd
    /\ op[c] = "Stop" => "start" \notin cmd

\* Between two calls no request is pending that would make the last answer
\* untrue.
Quiet ==
  AllIdle =>
    /\ mode = "stopped" => internal_state = "kStopped" /\ "start" \notin cmd
    /\ mode = "started" => internal_state = "kStarted" /\ "stop" \notin cmd

ViewInv ==
  /\ Beginnings
  /\ Failure
  /\ \A c \in Clients : Undisturbed(c)
  /\ Quiet

LEMMA ViewStep ==
  ASSUME IInv, ViewInv, [Next]_vars
  PROVE  ViewInv'
<1> USE DEF ViewInv, Beginnings, Failure, Undisturbed, Quiet, AllIdle, service
<1>1. CASE UNCHANGED vars
  BY <1>1 DEF vars, client
<1>2. ASSUME NEW c \in Clients, Call(c) PROVE ViewInv'
  <2> USE DEF IInv, Typed, CallOK, Protocol, ThreadExists, Alive, Enter, Disturbed, Opposed
  <2>1. CASE CallInit(c)
    BY <2>1 DEF CallInit
  <2>2. CASE CallStart(c)
    BY <2>2 DEF CallStart
  <2>3. CASE CallStop(c)
    BY <2>3 DEF CallStop
  <2>4. CASE CallDestructor(c)
    BY <2>4 DEF CallDestructor
  <2> QED
    BY <1>2, <2>1, <2>2, <2>3, <2>4 DEF Call
<1>3. ASSUME NEW c \in Clients, ClientStep(c) PROVE ViewInv'
  <2> USE DEF IInv, Typed, CallOK, Protocol, ThreadExists, Requests, Ops
  <2>1. CASE Create(c)
    BY <2>1 DEF Create, Goto
  <2>2. CASE CreateFails(c)
    BY <2>2 DEF CreateFails, Return, Known
  <2>3. CASE AwaitBoot(c)
    BY <2>3 DEF AwaitBoot, Goto, Return, Known
  <2>4. CASE Check(c)
    <3>1. CASE op[c] = "Finalize" \/ internal_state \notin {"kNull", "kCrashed"}
      BY <2>4, <3>1 DEF Check, Goto
    <3>2. CASE op[c] # "Finalize" /\ internal_state \in {"kNull", "kCrashed"}
      <4>1. Return(c, mode) /\ UNCHANGED service
        BY <2>4, <3>2 DEF Check
      <4>2. mode' = mode
        BY <4>1, <3>2 DEF Return, Known
      <4>3. op[c] # "Init"
        BY <2>4 DEF Check
      <4> QED
        BY <2>4, <3>2, <4>1, <4>2, <4>3 DEF Check, Return
    <3> QED
      BY <3>1, <3>2
  <2>5. CASE Command(c)
    BY <2>5 DEF Command, Goto, Flag
  <2>6. CASE AwaitVerdict(c)
    BY <2>6 DEF AwaitVerdict, Goto
  <2>7. CASE Verdict(c)
    BY <2>7 DEF Verdict, Return, Known
  <2>8. CASE AwaitTarget(c)
    BY <2>8 DEF AwaitTarget, Goto, Return, Known, Outcome, Target
  <2>9. CASE BaseDestructor(c)
    BY <2>9 DEF BaseDestructor, Goto, Return, Known
  <2>10. CASE Join(c)
    BY <2>10 DEF Join, Return, Known
  <2> QED
    BY <1>3, <2>1, <2>2, <2>3, <2>4, <2>5, <2>6, <2>7, <2>8, <2>9, <2>10 DEF ClientStep
<1>4. CASE ThreadStep
  <2> USE DEF client, IInv, Typed, CallOK, Protocol, ThreadExists, StepOK, FlagOK
  <2>1. CASE ThreadBoot
    BY <2>1 DEF ThreadBoot
  <2>2. CASE LoopTop
    BY <2>2 DEF LoopTop
  <2>3. CASE CaseNotInitialized
    BY <2>3 DEF CaseNotInitialized
  <2>4. CASE CaseStopped
    BY <2>4 DEF CaseStopped
  <2>5. CASE CaseOver
    BY <2>5 DEF CaseOver
  <2>6. CASE CallbackBegins
    BY <2>6 DEF CallbackBegins, Cleared, CallbackStates
  <2>7. CASE CallbackReturns
    BY <2>7 DEF CallbackReturns, After, CallbackStates
  <2>8. CASE IterationReturns
    BY <2>8 DEF IterationReturns
  <2>9. CASE CheckStop
    BY <2>9 DEF CheckStop
  <2>10. CASE CheckFinalize
    BY <2>10 DEF CheckFinalize
  <2> QED
    BY <1>4, <2>1, <2>2, <2>3, <2>4, <2>5, <2>6, <2>7, <2>8, <2>9, <2>10 DEF ThreadStep
<1> QED
  BY <1>1, <1>2, <1>3, <1>4 DEF Next, Gone

(* What a call told the application stays true until the next one, for any *)
(* calls before it: only a call that was disturbed tells it nothing.       *)
THEOREM CallersViewHolds == Spec => []CallersViewIsTrue
<1>1. Init => ViewInv
  BY DEF Init, ViewInv, Beginnings, Failure, Undisturbed, Quiet, AllIdle
<1>2. IInv /\ ViewInv /\ [Next]_vars => ViewInv'
  BY ViewStep
<1>3. IInv /\ ViewInv => CallersViewIsTrue
  BY DEF IInv, ThreadExists, ViewInv, Failure, Quiet, CallersViewIsTrue
<1> QED
  BY <1>1, <1>2, <1>3, Invariant, PTL DEF Spec
=============================================================================
