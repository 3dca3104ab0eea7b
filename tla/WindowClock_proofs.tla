-------------------------- MODULE WindowClock_proofs --------------------------
(***************************************************************************)
(* The stopwatch and the windows that are measured with it, for any clock, *)
(* any duration of a window and any width of an int.                       *)
(***************************************************************************)
EXTENDS WindowClock, TLAPS

-----------------------------------------------------------------------------
(* Arithmetic.                                                             *)
LEMMA MilliBounds ==
  ASSUME NEW us \in Nat
  PROVE  us \div Milli \in 0 .. us
<1>1. Milli \in Nat \ {0}
  BY StopwatchAssumption
<1>2. PICK q \in Int : q = us \div Milli
  BY <1>1
<1>3. q * Milli <= us /\ us < q * Milli + Milli
  BY <1>1, <1>2
<1>4. q >= 0
  BY <1>1, <1>3
<1>5. q <= q * Milli
  <2>1. /\ q \in Nat /\ Milli - 1 \in Nat
        /\ \A a, b \in Nat : a * b \in Nat /\ a * (b + 1) = a * b + a
    BY <1>1, <1>4
  <2>2. q * (Milli - 1) \in Nat /\ q * ((Milli - 1) + 1) = q * (Milli - 1) + q
    BY <2>1
  <2>3. (Milli - 1) + 1 = Milli
    BY <1>1
  <2> QED
    BY <2>1, <2>2, <2>3
<1>6. q * Milli \in Int
  BY <1>1
<1> QED
  BY <1>2, <1>3, <1>4, <1>5, <1>6

\* An int is right as long as the time is not too long for it.
LEMMA IntIsRight ==
  ASSUME NEW us \in Nat
  PROVE  AsInt(us) \in Int /\ (2 * us < IntRange => AsInt(us) = us)
<1>1. IntRange \in Nat \ {0}
  BY IntAssumption
<1>2. us % IntRange \in Int
  BY <1>1
<1>3. us < IntRange => us % IntRange = us
  BY <1>1
<1> QED
  BY <1>1, <1>2, <1>3 DEF AsInt

\* A time that is at most d after a moment is so after a later one.
LEMMA Later ==
  ASSUME NEW t \in Nat, NEW from \in Nat, NEW to \in Nat, NEW d \in Nat,
         t <= from + d, from <= to
  PROVE  t <= to + d
OBVIOUS

-----------------------------------------------------------------------------
(* The stopwatch.                                                          *)
WatchOK == StopwatchTypeOK /\ MillisecondsFollow

WatchStep ==
  /\ Start \/ Stop \/ Reset \/ ElapsedMicroseconds \/ ElapsedMilliseconds \/ UNCHANGED watch
  /\ UNCHANGED now

LEMMA WatchInit == StopwatchInit => WatchOK
<1> SUFFICES ASSUME StopwatchInit PROVE WatchOK
  OBVIOUS
<1>1. now = 0 /\ time0 = 0 /\ elapsed_us = 0 /\ elapsed_ms = 0 /\ is_running = FALSE
  BY DEF StopwatchInit
<1>2. StopwatchTypeOK
  <2>1. is_running \in BOOLEAN
    BY <1>1
  <2>2. now \in 0 .. MaxTime /\ time0 \in 0 .. now
    BY <1>1, StopwatchAssumption
  <2>3. elapsed_us \in 0 .. now - time0 /\ elapsed_ms \in 0 .. elapsed_us
    BY <1>1
  <2> QED
    BY <2>1, <2>2, <2>3 DEF StopwatchTypeOK
<1>3. 0 \div Milli \in 0 .. 0
  BY MilliBounds
<1> QED
  BY <1>1, <1>2, <1>3 DEF WatchOK, MillisecondsFollow

LEMMA ElapsedType == ASSUME WatchOK PROVE Elapsed \in 0 .. now - time0 /\ elapsed_us <= Elapsed
BY DEF WatchOK, StopwatchTypeOK, Elapsed

LEMMA TickKeepsWatch ==
  ASSUME WatchOK, Tick, UNCHANGED watch
  PROVE  WatchOK'
<1>1. UNCHANGED <<time0, is_running, elapsed_us, elapsed_ms>>
  BY DEF watch
<1>2. StopwatchTypeOK'
  BY <1>1, StopwatchAssumption DEF WatchOK, StopwatchTypeOK, Tick
<1> QED
  BY <1>1, <1>2 DEF WatchOK, MillisecondsFollow

\* Every call keeps the stopwatch in order and does not set time0_ back.
LEMMA CallKeepsWatch ==
  ASSUME WatchOK, WatchStep
  PROVE  WatchOK' /\ time0 <= time0' /\ time0' <= now
<1> USE StopwatchAssumption
<1>1. /\ now \in 0 .. MaxTime /\ now' = now /\ time0 \in 0 .. now /\ is_running \in BOOLEAN
      /\ elapsed_us \in 0 .. now - time0 /\ elapsed_ms \in 0 .. elapsed_us
      /\ ~is_running => elapsed_ms = elapsed_us \div Milli
  BY DEF WatchOK, WatchStep, StopwatchTypeOK, MillisecondsFollow
<1>2. Elapsed \in 0 .. now - time0 /\ elapsed_us <= Elapsed /\ (~is_running => Elapsed = elapsed_us)
  BY <1>1 DEF Elapsed
<1>3. Elapsed \in Nat /\ Elapsed \div Milli \in 0 .. Elapsed /\ 0 \div Milli = 0
  BY <1>1, <1>2, MilliBounds
<1> HIDE StopwatchAssumption
<1>4. CASE Start
  BY <1>1, <1>3, <1>4 DEF Start, WatchOK, StopwatchTypeOK, MillisecondsFollow
<1>5. CASE Stop
  <2>1. UNCHANGED <<now, time0>> /\ is_running' = FALSE /\ elapsed_us' = Elapsed
    BY <1>1, <1>5 DEF Stop
  <2>2. elapsed_ms' = Elapsed \div Milli
    BY <1>1, <1>2, <1>5 DEF Stop
  <2>3. MillisecondsFollow'
    BY <2>1, <2>2 DEF MillisecondsFollow
  <2>4. is_running' \in BOOLEAN
    BY <2>1
  <2>5. StopwatchTypeOK'
    BY <1>1, <1>2, <1>3, <2>1, <2>2, <2>4 DEF StopwatchTypeOK
  <2> QED
    BY <1>1, <2>1, <2>3, <2>5 DEF WatchOK
<1>6. CASE Reset
  BY <1>1, <1>3, <1>6 DEF Reset, WatchOK, StopwatchTypeOK, MillisecondsFollow
<1>7. CASE ElapsedMicroseconds
  BY <1>1, <1>2, <1>7 DEF ElapsedMicroseconds, WatchOK, StopwatchTypeOK, MillisecondsFollow
<1>8. CASE ElapsedMilliseconds
  BY <1>1, <1>2, <1>3, <1>8 DEF ElapsedMilliseconds, WatchOK, StopwatchTypeOK, MillisecondsFollow
<1>9. CASE UNCHANGED watch
  BY <1>1, <1>9 DEF watch, WatchOK, StopwatchTypeOK, MillisecondsFollow
<1> QED
  BY <1>4, <1>5, <1>6, <1>7, <1>8, <1>9 DEF WatchStep

\* Every step of the specification is a tick or a call.
LEMMA StepsCall ==
  ASSUME Application \/ Service, UNCHANGED <<now, owner>>
  PROVE  WatchStep
<1>1. Application => WatchStep
  BY DEF Application, WatchStep
<1>2. BeginInitialize \/ Initialized \/ DropConnection \/ ClearWatch \/ Accept => WatchStep
  BY DEF BeginInitialize, Initialized, DropConnection, ClearWatch, Accept, WatchStep
<1>3. AcceptFails \/ NotOver \/ Over \/ PushWindow \/ Finalized => WatchStep
  BY DEF AcceptFails, NotOver, Over, PushWindow, Finalized, WatchStep
<1> QED
  BY <1>1, <1>2, <1>3 DEF Service

-----------------------------------------------------------------------------
(* The refinement: what the stopwatch shows is a Timer.                    *)
LEMMA TickAdvances ==
  ASSUME WatchOK, TimePasses
  PROVE  [Shown!Next]_(Shown!vars)
<1>1. now \in Nat /\ time0 \in Nat /\ now' = now + 1 /\ UNCHANGED <<time0, is_running, elapsed_us>>
  BY StopwatchAssumption DEF WatchOK, StopwatchTypeOK, TimePasses, Tick, watch
<1>2. CASE is_running
  BY <1>1, <1>2 DEF Elapsed, Shown!Advance, Shown!Next
<1>3. CASE ~is_running
  BY <1>1, <1>3 DEF Elapsed, Shown!vars
<1> QED
  BY <1>2, <1>3

LEMMA CallShows ==
  ASSUME WatchOK, WatchStep
  PROVE  [Shown!Next]_(Shown!vars)
<1>1. now' = now /\ now - now = 0 /\ is_running \in BOOLEAN
  BY StopwatchAssumption DEF WatchOK, StopwatchTypeOK, WatchStep
<1>2. CASE Start
  <2>1. CASE is_running
    BY <1>1, <1>2, <2>1 DEF Start, Elapsed, Shown!vars
  <2>2. CASE ~is_running
    BY <1>1, <1>2, <2>2 DEF Start, Elapsed, Shown!Start, Shown!Next
  <2> QED
    BY <2>1, <2>2
<1>3. CASE Stop
  BY <1>1, <1>3 DEF Stop, Elapsed, Shown!Stop, Shown!Next
<1>4. CASE Reset
  BY <1>1, <1>4 DEF Reset, Elapsed, Shown!Reset, Shown!Next
<1>5. CASE ElapsedMicroseconds
  BY <1>1, <1>5 DEF ElapsedMicroseconds, Elapsed, Shown!vars
<1>6. CASE ElapsedMilliseconds
  BY <1>1, <1>6 DEF ElapsedMilliseconds, Elapsed, Shown!vars
<1>7. CASE UNCHANGED watch
  BY <1>1, <1>7 DEF watch, Elapsed, Shown!vars
<1> QED
  BY <1>2, <1>3, <1>4, <1>5, <1>6, <1>7 DEF WatchStep

-----------------------------------------------------------------------------
(* The inductive invariant.  A window ends before the stopwatch is set     *)
(* again; a window that is measured is measured by a stopwatch that runs;  *)
(* and the service has never seen a window to be too old.                  *)
Ended ==
  \A i \in 1 .. Len(windows) :
    windows[i].from <= windows[i].to /\ windows[i].to <= time0

StepOK ==
  /\ step \in {"clear", "accept"} =>
       owner = "ByteStreamRx" /\ ~connected /\ ~is_running /\ windows = <<>>
  /\ step = "begin" => owner = "ByteStreamRx"
  /\ step \in {"ready", "push"} => owner # "application"
  /\ step \in {"ready", "push"} /\ (owner = "TeletrafficRx" \/ connected) => is_running
  /\ step = "push" => /\ owner = "TeletrafficRx" \/ connected
                      /\ elapsed_us > WindowDuration
  /\ connected => since <= time0
  /\ checked <= time0 + WindowDuration

WindowsOK ==
  Ended /\ WindowsDoNotOverlap /\ WindowsLieInTheConnection /\ OnlyAPauseSpoilsADuration

IInv ==
  /\ TypeOK /\ MillisecondsFollow
  /\ StepOK
  /\ WindowsOK

LEMMA Numbers ==
  ASSUME TypeOK
  PROVE  /\ now \in Nat /\ time0 \in Nat /\ time0 <= now /\ elapsed_us \in Nat
         /\ time0 + elapsed_us <= now /\ checked \in Nat /\ since \in Nat
         /\ WindowDuration \in Nat /\ IntRange \in Nat
         /\ Elapsed \in Nat /\ elapsed_us <= Elapsed /\ Elapsed <= now - time0
         /\ is_running => Elapsed = now - time0
BY WindowAssumption, IntAssumption, StopwatchAssumption DEF TypeOK, StopwatchTypeOK, Elapsed

LEMMA InitEstablishes == Init => IInv
<1> SUFFICES ASSUME Init PROVE IInv
  OBVIOUS
<1>1. WatchOK
  BY WatchInit DEF Init
<1>2. <<>> \in Seq(Window) /\ Len(<<>>) = 0
  OBVIOUS
<1>3. now = 0 /\ time0 = 0 /\ checked = 0 /\ since = 0 /\ WindowDuration \in Nat
  BY WindowAssumption DEF Init, StopwatchInit
<1>4. TypeOK
  <2>1. StopwatchTypeOK /\ checked \in 0 .. now /\ since \in 0 .. now
    BY <1>1, <1>3 DEF WatchOK
  <2>2. /\ owner \in {"TeletrafficRx", "ByteStreamRx", "application"}
        /\ step \in {"out", "begin", "ready", "clear", "accept", "push"}
        /\ connected \in BOOLEAN
        /\ windows \in Seq(Window)
    BY <1>2 DEF Init
  <2> QED
    BY <2>1, <2>2 DEF TypeOK
<1>5. StepOK
  BY <1>3 DEF Init, StepOK
<1>6. WindowsOK
  BY <1>2 DEF Init, WindowsOK, Ended, WindowsDoNotOverlap, WindowsLieInTheConnection, OnlyAPauseSpoilsADuration
<1> QED
  BY <1>1, <1>4, <1>5, <1>6 DEF WatchOK, IInv

\* The windows that are stored stay in order as long as none is added.
LEMMA SameWindows ==
  ASSUME IInv, UNCHANGED <<windows, owner>>, time0 <= time0', time0' \in Nat,
         since' = since \/ windows = <<>>
  PROVE  WindowsOK'
<1>1. windows \in Seq(Window) /\ time0 \in Nat /\ WindowsOK
  BY Numbers DEF IInv, TypeOK
<1>2. ASSUME NEW i \in 1 .. Len(windows) PROVE windows[i].from \in Nat /\ windows[i].to \in Nat
  <2>1. windows[i] \in Window
    BY <1>1
  <2> QED
    BY <2>1 DEF Window
<1>3. Ended'
  BY <1>1, <1>2 DEF WindowsOK, Ended
<1>4. WindowsDoNotOverlap' /\ OnlyAPauseSpoilsADuration'
  BY <1>1 DEF WindowsOK, WindowsDoNotOverlap, OnlyAPauseSpoilsADuration
<1>5. WindowsLieInTheConnection'
  BY <1>1 DEF WindowsOK, WindowsLieInTheConnection
<1> QED
  BY <1>3, <1>4, <1>5 DEF WindowsOK

LEMMA TimePassesStep == ASSUME IInv, TimePasses PROVE IInv'
<1>1. /\ now \in Nat /\ now' = now + 1
      /\ UNCHANGED <<time0, is_running, elapsed_us, owner, step, connected, checked, since, windows>>
  BY Numbers DEF IInv, TimePasses, Tick, watch, service
<1>2. WatchOK'
  BY TickKeepsWatch DEF IInv, TypeOK, WatchOK, TimePasses
<1>3. WindowsOK'
  BY <1>1, SameWindows, Numbers DEF IInv
<1>4. TypeOK'
  BY <1>1, <1>2 DEF IInv, WatchOK, TypeOK
<1>5. StepOK'
  BY <1>1 DEF IInv, StepOK
<1> QED
  BY <1>2, <1>3, <1>4, <1>5 DEF IInv, WatchOK

LEMMA CallStep ==
  ASSUME IInv, Application \/ Service, UNCHANGED <<now, owner>>
  PROVE  /\ WatchOK' /\ time0 <= time0' /\ time0' \in Nat /\ time0' <= now
         /\ elapsed_us' \in Nat
<1>1. WatchOK' /\ time0 <= time0' /\ time0' <= now
  BY StepsCall, CallKeepsWatch DEF IInv, TypeOK, WatchOK
<1>2. now' = now /\ now \in Nat
  BY Numbers DEF IInv
<1>3. time0' \in 0 .. now' /\ elapsed_us' \in 0 .. now' - time0'
  BY <1>1 DEF WatchOK, StopwatchTypeOK
<1>4. time0' \in Nat /\ elapsed_us' \in Nat
  BY <1>2, <1>3
<1> QED
  BY <1>1, <1>4

\* All steps but the two that write windows_.
LEMMA OtherStep ==
  ASSUME IInv, UNCHANGED <<now, owner>>,
         \/ Application \/ BeginInitialize \/ Initialized \/ ClearWatch \/ Accept
         \/ AcceptFails \/ NotOver \/ Over \/ Finalized
  PROVE  IInv'
<1>1. /\ now \in Nat /\ time0 \in Nat /\ time0 <= now /\ checked \in Nat /\ checked <= now
      /\ WindowDuration \in Nat /\ since \in Nat /\ since <= now
  BY Numbers DEF IInv, TypeOK
<1>2. /\ WatchOK' /\ time0 <= time0' /\ time0' \in Nat /\ time0' <= now
      /\ elapsed_us' \in Nat
  BY CallStep DEF Service
<1>3. TypeOK /\ MillisecondsFollow /\ StepOK /\ WindowsOK
  BY DEF IInv
<1>4. is_running \in BOOLEAN /\ is_running' \in BOOLEAN
  BY <1>2, <1>3 DEF TypeOK, WatchOK, StopwatchTypeOK
<1>c. connected' \in BOOLEAN
  BY <1>3 DEF TypeOK, Application, BeginInitialize, Initialized, ClearWatch, Accept,
     AcceptFails, NotOver, Over, Finalized, service
<1> DEFINE Rest ==
      /\ windows' = windows
      /\ step' \in {"out", "begin", "ready", "clear", "accept", "push"}
      /\ checked' \in 0 .. now /\ since' \in 0 .. now
      /\ since' = since \/ windows = <<>>
      /\ StepOK'
<1>5. ASSUME Application PROVE Rest
  <2>1. UNCHANGED <<step, connected, checked, since, windows>> /\ owner = "application"
    BY <1>5 DEF Application, service
  <2>2. step \notin {"clear", "accept", "ready", "push", "begin"}
    BY <1>3, <2>1 DEF StepOK
  <2>3. connected' => since' <= time0'
    BY <1>1, <1>2, <1>3, <2>1 DEF StepOK
  <2>4. checked' <= time0' + WindowDuration
    <3>1. checked' = checked /\ checked <= time0 + WindowDuration
      BY <1>3, <2>1 DEF StepOK
    <3>2. time0 <= time0' /\ time0' \in Nat
      BY <1>2
    <3>3. time0 \in Nat /\ checked \in Nat /\ WindowDuration \in Nat
      BY <1>1
    <3>4. checked <= time0' + WindowDuration
      BY <3>1, <3>2, <3>3, Later
    <3> QED
      BY <3>1, <3>4
  <2>5. step' \notin {"clear", "accept", "ready", "push", "begin"}
    BY <2>1, <2>2
  <2>6. StepOK'
    BY <2>3, <2>4, <2>5 DEF StepOK
  <2> QED
    BY <1>1, <1>3, <2>1, <2>6 DEF TypeOK
<1>6. ASSUME BeginInitialize PROVE Rest
  <2>1. /\ owner = "ByteStreamRx" /\ step' = "begin" /\ time0' = now
        /\ UNCHANGED <<connected, checked, since, windows>>
    BY <1>6 DEF BeginInitialize, Reset
  <2>2. StepOK'
    BY <1>1, <1>3, <2>1 DEF StepOK
  <2> QED
    BY <1>1, <1>3, <2>1, <2>2 DEF TypeOK
<1>7. ASSUME Initialized PROVE Rest
  <2>1. /\ owner # "application" /\ step' = "ready" /\ is_running' = TRUE
        /\ UNCHANGED <<connected, since, windows>>
        /\ is_running => checked' = checked /\ time0' = time0
        /\ ~is_running => checked' = now /\ time0' = now
    BY <1>7 DEF Initialized, Start
  <2>2. checked' \in 0 .. now /\ checked' <= time0' + WindowDuration
    BY <1>1, <1>3, <2>1 DEF StepOK
  <2>3. StepOK'
    BY <1>1, <1>2, <1>3, <2>1, <2>2 DEF StepOK
  <2> QED
    BY <1>1, <1>3, <2>1, <2>2, <2>3 DEF TypeOK
<1>8. ASSUME ClearWatch PROVE Rest
  <2>1. /\ step = "clear" /\ step' = "accept" /\ time0' = now /\ is_running' = is_running
        /\ UNCHANGED <<connected, checked, since, windows>>
    BY <1>8 DEF ClearWatch, Reset
  <2>2. StepOK'
    BY <1>1, <1>3, <2>1 DEF StepOK
  <2> QED
    BY <1>1, <1>3, <2>1, <2>2 DEF TypeOK
<1>9. ASSUME Accept PROVE Rest
  <2>1. owner = "ByteStreamRx" /\ ~is_running /\ windows = <<>>
    BY <1>3, <1>9 DEF Accept, StepOK
  <2>2. /\ step' = "ready" /\ connected' = TRUE /\ checked' = now /\ since' = now
        /\ windows' = windows /\ is_running' = TRUE /\ time0' = now
    BY <1>9, <2>1 DEF Accept, Start
  <2>3. StepOK'
    BY <1>1, <1>3, <2>1, <2>2 DEF StepOK
  <2> QED
    BY <1>1, <1>3, <2>1, <2>2, <2>3 DEF TypeOK
<1>10. ASSUME AcceptFails PROVE Rest
  <2>1. /\ owner = "ByteStreamRx" /\ ~connected /\ step' = "ready"
        /\ UNCHANGED <<time0, is_running, connected, checked, since, windows>>
    BY <1>3, <1>10 DEF AcceptFails, StepOK, watch
  <2>2. StepOK'
    BY <1>1, <1>3, <2>1 DEF StepOK
  <2> QED
    BY <1>1, <1>3, <2>1, <2>2 DEF TypeOK
<1>11. ASSUME NotOver PROVE Rest
  <2>1. /\ step = "ready"
        /\ owner = "TeletrafficRx" \/ connected
        /\ Elapsed <= WindowDuration /\ checked' = now
        /\ UNCHANGED <<time0, is_running, step, connected, since, windows>>
    BY <1>11 DEF NotOver, Measures, ElapsedMicroseconds
  <2>2. is_running
    BY <1>3, <2>1 DEF StepOK
  <2>3. Elapsed = now - time0
    BY <1>3, <2>2, Numbers
  <2>4. now <= time0 + WindowDuration
    BY <1>1, <2>1, <2>3
  <2>5. StepOK'
    BY <1>1, <1>3, <2>1, <2>2, <2>4 DEF StepOK
  <2> QED
    BY <1>1, <1>3, <2>1, <2>5 DEF TypeOK
<1>12. ASSUME Over PROVE Rest
  <2>1. /\ step = "ready"
        /\ owner = "TeletrafficRx" \/ connected
        /\ Elapsed > WindowDuration /\ elapsed_us' = Elapsed /\ step' = "push"
        /\ UNCHANGED <<time0, is_running, connected, checked, since, windows>>
    BY <1>12 DEF Over, Measures, ElapsedMicroseconds
  <2>2. StepOK'
    BY <1>1, <1>3, <2>1 DEF StepOK
  <2> QED
    BY <1>1, <1>3, <2>1, <2>2 DEF TypeOK
<1>13. ASSUME Finalized PROVE Rest
  <2>1. step' = "out" /\ UNCHANGED <<time0, connected, checked, since, windows>>
    BY <1>13 DEF Finalized, Stop, watch
  <2>2. StepOK'
    BY <1>1, <1>3, <2>1 DEF StepOK
  <2> QED
    BY <1>1, <1>3, <2>1, <2>2 DEF TypeOK
<1>14. Rest
  BY <1>5, <1>6, <1>7, <1>8, <1>9, <1>10, <1>11, <1>12, <1>13
<1>15. WindowsOK'
  BY <1>2, <1>14, SameWindows
<1>16. TypeOK'
  BY <1>2, <1>3, <1>c, <1>14 DEF TypeOK, WatchOK
<1> QED
  BY <1>2, <1>14, <1>15, <1>16 DEF IInv, WatchOK

LEMMA DropConnectionStep ==
  ASSUME IInv, DropConnection, UNCHANGED <<now, owner>>
  PROVE  IInv'
<1>1. WatchOK' /\ time0 <= time0' /\ time0' \in Nat
  BY CallStep DEF Service
<1>2. /\ owner = "ByteStreamRx" /\ step' = "clear" /\ connected' = FALSE /\ windows' = <<>>
      /\ is_running' = FALSE /\ UNCHANGED <<time0, checked, since>>
  BY DEF DropConnection, Stop
<1>3. <<>> \in Seq(Window) /\ Len(<<>>) = 0
  OBVIOUS
<1>4. TypeOK'
  BY <1>1, <1>2, <1>3 DEF IInv, TypeOK, WatchOK
<1>5. StepOK'
  BY <1>2 DEF IInv, StepOK
<1>6. WindowsOK'
  BY <1>2, <1>3 DEF WindowsOK, Ended, WindowsDoNotOverlap, WindowsLieInTheConnection, OnlyAPauseSpoilsADuration
<1> QED
  BY <1>1, <1>4, <1>5, <1>6 DEF IInv, WatchOK

LEMMA PushWindowStep ==
  ASSUME IInv, PushWindow, UNCHANGED <<now, owner>>
  PROVE  IInv'
<1>1. WatchOK' /\ time0 <= time0' /\ time0' \in Nat
  BY CallStep DEF Service
<1>2. /\ step = "push" /\ windows' = Append(windows, Measured)
      /\ time0' = now /\ checked' = now /\ step' = "ready"
      /\ UNCHANGED <<is_running, connected, since>>
  BY DEF PushWindow, Reset
<1>3. TypeOK /\ StepOK /\ WindowsOK
  BY DEF IInv
<1>4. /\ now \in Nat /\ time0 \in Nat /\ elapsed_us \in Nat /\ time0 + elapsed_us <= now
      /\ checked \in Nat /\ checked <= now /\ since \in Nat /\ since <= now
      /\ WindowDuration \in Nat /\ IntRange \in Nat
      /\ elapsed_us > WindowDuration /\ checked <= time0 + WindowDuration
      /\ owner # "application" /\ is_running /\ (connected => since <= time0)
      /\ owner = "TeletrafficRx" \/ connected
  BY <1>2, <1>3, Numbers DEF TypeOK, StepOK
<1>5. Measured \in Window
  BY <1>4, IntIsRight DEF Measured, Window, Duration
<1>6. /\ Measured.from = time0 /\ Measured.to = time0 + elapsed_us
      /\ Measured.duration = Duration(elapsed_us) /\ Measured.checked = checked
  BY DEF Measured
<1>7. /\ windows \in Seq(Window) /\ Len(windows) \in Nat /\ Len(windows') = Len(windows) + 1
      /\ windows' \in Seq(Window)
      /\ windows'[Len(windows')] = Measured
      /\ \A i \in 1 .. Len(windows) : windows'[i] = windows[i] /\ windows[i].from \in Nat /\ windows[i].to \in Nat
  <2>1. windows \in Seq(Window)
    BY <1>3 DEF TypeOK
  <2>2. /\ Len(windows') = Len(windows) + 1 /\ windows' \in Seq(Window) /\ Len(windows) \in Nat
        /\ windows'[Len(windows) + 1] = Measured
        /\ \A i \in 1 .. Len(windows) : windows'[i] = windows[i] /\ windows[i] \in Window
    BY <1>2, <1>5, <2>1
  <2> QED
    BY <2>1, <2>2 DEF Window
<1>8. TypeOK'
  BY <1>1, <1>2, <1>3, <1>4, <1>7 DEF TypeOK, WatchOK
<1>9. StepOK'
  BY <1>2, <1>3, <1>4 DEF StepOK
<1>10. ASSUME NEW i \in 1 .. Len(windows') PROVE i \in 1 .. Len(windows) \/ i = Len(windows')
  BY <1>7
<1>11. Ended'
  <2>1. ASSUME NEW i \in 1 .. Len(windows')
        PROVE  windows'[i].from <= windows'[i].to /\ windows'[i].to <= time0'
    <3>1. CASE i \in 1 .. Len(windows)
      BY <1>2, <1>3, <1>4, <1>7, <3>1 DEF WindowsOK, Ended
    <3>2. CASE i = Len(windows')
      BY <1>2, <1>4, <1>6, <1>7, <3>2
    <3> QED
      BY <1>10, <3>1, <3>2
  <2> QED
    BY <2>1 DEF Ended
<1>12. WindowsDoNotOverlap'
  <2>1. ASSUME NEW i \in 1 .. Len(windows'), NEW j \in 1 .. Len(windows'), i < j
        PROVE  windows'[i].to <= windows'[j].from
    <3>1. i \in 1 .. Len(windows)
      BY <1>7, <2>1
    <3>2. CASE j \in 1 .. Len(windows)
      BY <1>3, <1>7, <2>1, <3>1, <3>2 DEF WindowsOK, WindowsDoNotOverlap
    <3>3. CASE j = Len(windows')
      BY <1>3, <1>6, <1>7, <3>1, <3>3 DEF WindowsOK, Ended
    <3> QED
      BY <1>10, <3>2, <3>3
  <2> QED
    BY <2>1 DEF WindowsDoNotOverlap
<1>13. WindowsLieInTheConnection'
  <2>1. ASSUME owner = "ByteStreamRx", NEW i \in 1 .. Len(windows')
        PROVE  since <= windows'[i].from
    <3>1. CASE i \in 1 .. Len(windows)
      BY <1>3, <1>7, <2>1, <3>1 DEF WindowsOK, WindowsLieInTheConnection
    <3>2. CASE i = Len(windows')
      BY <1>4, <1>6, <1>7, <2>1, <3>2
    <3> QED
      BY <1>10, <3>1, <3>2
  <2> QED
    BY <1>2, <2>1 DEF WindowsLieInTheConnection
<1>14. OnlyAPauseSpoilsADuration'
  <2> DEFINE Good(w) ==
        \/ w.duration = w.to - w.from /\ w.duration > WindowDuration
        \/ 2 * (WindowDuration + (w.to - w.checked)) >= IntRange
  <2>1. Good(Measured)
    <3>1. CASE 2 * elapsed_us < IntRange
      <4>1. Measured.duration = elapsed_us
        BY <1>4, <1>6, <3>1, IntIsRight DEF Duration
      <4> QED
        BY <1>4, <1>6, <4>1
    <3>2. CASE 2 * elapsed_us >= IntRange
      BY <1>4, <1>6, <3>2
    <3> QED
      BY <1>4, <3>1, <3>2
  <2>2. \A i \in 1 .. Len(windows) : Good(windows[i])
    BY <1>3 DEF WindowsOK, OnlyAPauseSpoilsADuration
  <2>3. \A i \in 1 .. Len(windows') : Good(windows'[i])
    <3> HIDE DEF Good
    <3> QED
      BY <1>7, <1>10, <2>1, <2>2
  <2> QED
    BY <2>3 DEF OnlyAPauseSpoilsADuration
<1> QED
  BY <1>1, <1>8, <1>9, <1>11, <1>12, <1>13, <1>14 DEF IInv, WatchOK, WindowsOK

LEMMA Invariant == Spec => []IInv
<1>1. IInv /\ UNCHANGED vars => IInv'
  <2> SUFFICES ASSUME IInv, UNCHANGED vars PROVE IInv'
    OBVIOUS
  <2>1. UNCHANGED <<now, time0, is_running, elapsed_us, elapsed_ms, owner, step, connected, checked, since, windows>>
    BY DEF vars, watch, service
  <2>2. TypeOK' /\ MillisecondsFollow' /\ StepOK'
    BY <2>1 DEF IInv, TypeOK, StopwatchTypeOK, MillisecondsFollow, StepOK
  <2>3. WindowsOK'
    BY <2>1 DEF IInv, WindowsOK, Ended, WindowsDoNotOverlap, WindowsLieInTheConnection, OnlyAPauseSpoilsADuration
  <2> QED
    BY <2>2, <2>3 DEF IInv
<1>2. IInv /\ (Application \/ Service) /\ UNCHANGED <<now, owner>> => IInv'
  BY OtherStep, DropConnectionStep, PushWindowStep DEF Service
<1>3. IInv /\ [Next]_vars => IInv'
  BY <1>1, <1>2, TimePassesStep DEF Next
<1> QED
  BY InitEstablishes, <1>3, PTL DEF Spec

(* Types: the clock is never behind the moment that is counted from, and   *)
(* the milliseconds are never more than the microseconds.                  *)
THEOREM TypeCorrect == Spec => []TypeOK
BY Invariant, PTL DEF IInv

(* For any clock, a stopwatch that stands shows the same time in both      *)
(* units, whatever was called before.                                      *)
THEOREM UnitsAgree == Spec => []MillisecondsFollow
BY Invariant, PTL DEF IInv

(* For any duration of a window and any number of stops, starts and        *)
(* initializations, no time is counted in two windows.                     *)
THEOREM NoOverlap == Spec => []WindowsDoNotOverlap
BY Invariant, PTL DEF IInv, WindowsOK

(* The time that ByteStreamRx waits for a connection is in none of the     *)
(* windows that can be read, however often it has waited.                  *)
THEOREM InTheConnection == Spec => []WindowsLieInTheConnection
BY Invariant, PTL DEF IInv, WindowsOK

(* For any width of an int, only a pause that is as long as half of its    *)
(* range, less one window, spoils a duration.                              *)
THEOREM DurationsHold == Spec => []OnlyAPauseSpoilsADuration
BY Invariant, PTL DEF IInv, WindowsOK

(* A stopwatch shows a Timer, for any clock and whoever calls it.          *)
THEOREM ImplementsTimer == Spec => ShowsTheTime
<1>1. Init => Shown!Init
  BY DEF Init, StopwatchInit, Elapsed, Shown!Init
<1>2. IInv => WatchOK
  BY DEF IInv, TypeOK, WatchOK
<1>3. UNCHANGED vars => UNCHANGED Shown!vars
  BY DEF vars, watch, Elapsed, Shown!vars
<1>4. IInv /\ [Next]_vars => [Shown!Next]_(Shown!vars)
  BY <1>2, <1>3, TickAdvances, StepsCall, CallShows DEF Next
<1> QED
  BY <1>1, <1>4, Invariant, PTL DEF Spec, Shown!Spec, ShowsTheTime
=============================================================================
