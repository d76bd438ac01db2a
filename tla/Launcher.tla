------------------------------ MODULE Launcher ------------------------------
(***************************************************************************)
(* PS2-DriveForge.exe, which starts the WinUI process and waits for the    *)
(* first of its ready event, its end and a time-out, and the startup of    *)
(* that process up to its event.                                           *)
(***************************************************************************)
VARIABLES
  launcher,  \* where wWinMain is
  event,     \* the ready event: "none" without a handle, else "unset" or "set"
  winui      \* the WinUI process

launcherVars == <<launcher, event, winui>>

Unready == {"starting", "activated"}           \* the process before its event
Over == {"closed", "crashed", "failed"}        \* "failed": before its window was ready

LauncherTypeOK ==
  /\ launcher \in {"checking", "waiting", "asking", "done"}
  /\ event \in {"none", "unset", "set"}
  /\ winui \in {"none", "running"} \cup Unready \cup Over

LauncherInit ==
  /\ launcher = "checking"
  /\ event = "none" /\ winui = "none"

(***************************************************************************)
(* wWinMain.                                                               *)
(***************************************************************************)
\* fallback_dialog() is up.
Ask == launcher' = "asking"

\* --legacy, with launch_legacy() found or not, and --self-test.
WithoutWinui ==
  /\ launcher = "checking"
  /\ launcher' = "done"
  /\ UNCHANGED <<event, winui>>

\* The executable is missing, or no event, or no process.
CannotLaunch ==
  /\ launcher = "checking"
  /\ Ask
  /\ UNCHANGED <<event, winui>>

LaunchWinui ==
  /\ launcher = "checking"
  /\ launcher' = "waiting" /\ event' = "unset" /\ winui' = "starting"

\* Bug variant: the end of the process counts as an answer like any other.
WaitEndsQuietly ==
  /\ launcher = "waiting"
  /\ event = "set" \/ winui \in Over
  /\ launcher' = "done" /\ event' = "none"
  /\ UNCHANGED winui

\* WaitForMultipleObjects() returns the process if both are signalled.
WaitEnds ==
  /\ launcher = "waiting"
  /\ event = "set" \/ winui \in Over
  /\ IF winui \in Over THEN Ask ELSE launcher' = "done"
  /\ event' = "none"
  /\ UNCHANGED winui

\* After fifteen seconds the process is taken for a slow one.
WaitTimesOut ==
  /\ launcher = "waiting"
  /\ event = "unset" /\ winui \notin Over
  /\ launcher' = "done" /\ event' = "none"
  /\ UNCHANGED winui

WaitFails ==
  /\ launcher = "waiting"
  /\ Ask
  /\ event' = "none"
  /\ UNCHANGED winui

\* fallback_dialog(): the Win32 frontend, the log, or nothing.
Answered ==
  /\ launcher = "asking"
  /\ launcher' = "done"
  /\ UNCHANGED <<event, winui>>

(***************************************************************************)
(* App::OnLaunched(): every exception ends the process.                    *)
(***************************************************************************)
Activated ==
  /\ winui = "starting"
  /\ winui' = "activated"
  /\ UNCHANGED <<launcher, event>>

\* signal_launcher_ready(): the launcher may have closed its event by now.
SignalReady ==
  /\ winui = "activated"
  /\ winui' = "running"
  /\ event' = IF event = "unset" THEN "set" ELSE event
  /\ UNCHANGED <<launcher>>

StartupFails ==
  /\ winui \in Unready
  /\ winui' = "failed"
  /\ UNCHANGED <<launcher, event>>

Waiting == WaitEnds \/ WaitTimesOut \/ WaitFails
Startup == Activated \/ SignalReady \/ StartupFails
Launching == WithoutWinui \/ CannotLaunch \/ LaunchWinui \/ Waiting \/ Answered \/ Startup
=============================================================================
