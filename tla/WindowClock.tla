----------------------------- MODULE WindowClock -----------------------------
(***************************************************************************)
(* The time of the measurement windows: when TeletrafficRx and             *)
(* ByteStreamRx start, read and reset their stopwatch, and what they make  *)
(* of it.  TeletrafficRx and ByteStreamRx know only that a window is over; *)
(* here the moments are kept, and everything else is left out.             *)
(*                                                                         *)
(* Time passes between any two steps.  A service that is stopped, a        *)
(* pcap_next() or a read() that waits, and a mutex that is taken are all   *)
(* no more than this.                                                      *)
(***************************************************************************)
EXTENDS Stopwatch, MachineInt, Sequences

CONSTANT
  WindowDuration    \* window_duration_

ASSUME WindowAssumption == WindowDuration \in Nat

VARIABLES
  owner,     \* whose stopwatch it is; an "application" calls what it likes
  step,      \* "out" of service, "begin", "ready" for ServiceIteration(), and
             \* in it: "clear", "accept" and "push"
  connected, \* ByteStreamRx has a connection
  checked,   \* the last time that the window was begun or found not over
  since,     \* when the connection was accepted
  windows    \* the windows that are stored

service == <<step, connected, checked, since, windows>>
vars    == <<now, watch, owner, service>>

Init ==
  /\ StopwatchInit
  /\ owner \in {"TeletrafficRx", "ByteStreamRx", "application"}
  /\ step = "out"
  /\ connected = FALSE
  /\ checked = 0
  /\ since = 0
  /\ windows = <<>>

TimePasses == Tick /\ UNCHANGED <<watch, owner, service>>

-----------------------------------------------------------------------------
(* ServiceInitialize().  ByteStreamRx resets the stopwatch that            *)
(* TeletrafficRx has reset when it was constructed.                        *)
BeginInitialize ==
  /\ owner = "ByteStreamRx" /\ step = "out"
  /\ step' = "begin"
  /\ Reset
  /\ UNCHANGED <<connected, checked, since, windows>>

\* For a TeletrafficRx that is initialized again it is still running.
Initialized ==
  /\ \/ owner = "TeletrafficRx" /\ step = "out"
     \/ owner = "ByteStreamRx" /\ step = "begin"
  /\ step' = "ready"
  /\ Start
  /\ checked' = IF is_running THEN checked ELSE now
  /\ UNCHANGED <<connected, since, windows>>

-----------------------------------------------------------------------------
(* The next connection of ByteStreamRx.                                    *)

\* Mutant: the stopwatch is not stopped.
DropConnectionRuns ==
  /\ owner = "ByteStreamRx" /\ step = "ready"
  /\ step' = "clear"
  /\ connected' = FALSE
  /\ windows' = <<>>
  /\ UNCHANGED <<watch, checked, since>>

\* The windows are cleared ...
DropConnection ==
  /\ owner = "ByteStreamRx" /\ step = "ready"
  /\ step' = "clear"
  /\ connected' = FALSE
  /\ windows' = <<>>
  /\ Stop
  /\ UNCHANGED <<checked, since>>

ClearWatch ==
  /\ step = "clear"
  /\ step' = "accept"
  /\ Reset
  /\ UNCHANGED <<connected, checked, since, windows>>

\* ... and the time does not count until there is a connection.
Accept ==
  /\ step = "accept"
  /\ step' = "ready"
  /\ connected' = TRUE
  /\ Start
  /\ checked' = now
  /\ since' = now
  /\ UNCHANGED windows

AcceptFails ==
  /\ step = "accept"
  /\ step' = "ready"
  /\ UNCHANGED <<watch, connected, checked, since, windows>>

-----------------------------------------------------------------------------
(* The rest of ServiceIteration(), after a packet, data, or nothing.       *)
Measures == step = "ready" /\ (owner = "TeletrafficRx" \/ connected)

NotOver ==
  /\ Measures
  /\ Elapsed <= WindowDuration
  /\ ElapsedMicroseconds
  /\ checked' = now
  /\ UNCHANGED <<step, connected, since, windows>>

Over ==
  /\ Measures
  /\ Elapsed > WindowDuration
  /\ ElapsedMicroseconds
  /\ step' = "push"
  /\ UNCHANGED <<connected, checked, since, windows>>

\* TeletrafficRx keeps a duration in an int, ByteStreamRx in 64 bits.
Duration(us) == IF owner = "TeletrafficRx" THEN AsInt(us) ELSE us

\* us, the time that was read; nothing has changed it since.
Measured ==
  [from |-> time0, to |-> time0 + elapsed_us, duration |-> Duration(elapsed_us), checked |-> checked]

\* Mutant: the stopwatch is not reset.
PushWindowNoReset ==
  /\ step = "push"
  /\ windows' = Append(windows, Measured)
  /\ checked' = now
  /\ step' = "ready"
  /\ UNCHANGED <<watch, connected, since>>

PushWindow ==
  /\ step = "push"
  /\ windows' = Append(windows, Measured)
  /\ Reset
  /\ checked' = now
  /\ step' = "ready"
  /\ UNCHANGED <<connected, since>>

\* ServiceFinalize().  TeletrafficRx leaves the stopwatch alone.
Finalized ==
  /\ step = "ready"
  /\ step' = "out"
  /\ IF owner = "ByteStreamRx" THEN Stop ELSE UNCHANGED watch
  /\ UNCHANGED <<connected, checked, since, windows>>

-----------------------------------------------------------------------------
\* The test programs use a stopwatch without a service.
Application ==
  /\ owner = "application"
  /\ Start \/ Stop \/ Reset \/ ElapsedMicroseconds \/ ElapsedMilliseconds
  /\ UNCHANGED service

Service ==
  \/ BeginInitialize \/ Initialized
  \/ DropConnection \/ ClearWatch \/ Accept \/ AcceptFails
  \/ NotOver \/ Over \/ PushWindow
  \/ Finalized

Next ==
  \/ TimePasses
  \/ (Application \/ Service) /\ UNCHANGED <<now, owner>>

Spec == Init /\ [][Next]_vars

-----------------------------------------------------------------------------
Window == [from : Nat, to : Nat, duration : Int, checked : Nat]

TypeOK ==
  /\ StopwatchTypeOK
  /\ owner \in {"TeletrafficRx", "ByteStreamRx", "application"}
  /\ step \in {"out", "begin", "ready", "clear", "accept", "push"}
  /\ connected \in BOOLEAN
  /\ checked \in 0 .. now
  /\ since \in 0 .. now
  /\ windows \in Seq(Window)

(* No time is counted in two windows, whatever stops, starts and other     *)
(* initializations come between them.                                      *)
WindowsDoNotOverlap ==
  \A i, j \in 1 .. Len(windows) : i < j => windows[i].to <= windows[j].from

(* The windows of ByteStreamRx that can be read are of the connection it   *)
(* has: the time that it waited for it is in none of them.                 *)
WindowsLieInTheConnection ==
  owner = "ByteStreamRx" => \A i \in 1 .. Len(windows) : since <= windows[i].from

(* A window is longer than window_duration_, and its duration is right, or *)
(* the service was not looking for so long that an int cannot hold it (35  *)
(* minutes): a pause is all that can spoil it.                             *)
OnlyAPauseSpoilsADuration ==
  \A i \in 1 .. Len(windows) :
    LET w == windows[i] IN
    \/ w.duration = w.to - w.from /\ w.duration > WindowDuration
    \/ 2 * (WindowDuration + (w.to - w.checked)) >= IntRange
=============================================================================
