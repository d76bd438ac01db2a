------------------------------- MODULE Desktop -------------------------------
(***************************************************************************)
(* The desktop: the launcher, the WinUI window it starts as far as mounts  *)
(* go, the helper process that window starts, and the drive letters all of *)
(* them look at.  The window has nothing of the helper but a handle, and   *)
(* nothing of the volume but the attributes of its root.                   *)
(*                                                                         *)
(* An open source is taken for granted; opening one enables the Mount      *)
(* button whatever is mounted.  MainWindow has the rest of the window.     *)
(***************************************************************************)
EXTENDS MountHelper, Launcher

VARIABLES
  ui,         \* where the UI thread is; ShellExecuteExW() keeps it until UAC is answered
  mountPoint, \* mount_point_
  holds,      \* mount_process_ is not null
  timer,      \* mount_timer_ runs
  unmountable \* the Unmount button is enabled

windowVars == <<ui, mountPoint, holds, timer, unmountable>>
vars == <<allHelperVars, launcherVars, windowVars>>
outside == <<controllerVars, helperVars, systemVars, launcherVars>>

Open == winui = "running"
Idle == Open /\ ui = "idle"

TypeOK ==
  /\ HelperTypeOK /\ LauncherTypeOK
  /\ ui \in {"idle", "choosing", "launching", "asking", "closing"}
  /\ mountPoint \in Letters \cup {None}
  /\ {holds, timer, unmountable} \subseteq BOOLEAN

NoWindow ==
  /\ ui = "idle" /\ mountPoint = None
  /\ holds = FALSE /\ timer = FALSE /\ unmountable = FALSE
WindowGone ==
  /\ ui' = "idle" /\ mountPoint' = None
  /\ holds' = FALSE /\ timer' = FALSE /\ unmountable' = FALSE

Init == HelperInit /\ LauncherInit /\ NoWindow

(***************************************************************************)
(* poll_mount_state().                                                     *)
(***************************************************************************)
\* GetFileAttributesW() of a root: another volume may have no medium, and the
\* volume of a helper that has died may or may not answer.
Looks(letter) ==
  IF drives[letter] = "free" THEN {FALSE}
  ELSE IF drives[letter] = "ours" /\ ~Orphaned(letter) THEN {TRUE} ELSE BOOLEAN

\* Bug variant: a letter that does not answer is taken for an unmounted one.
PollMountByLetter ==
  \E seen \in IF mountPoint = None THEN {FALSE} ELSE Looks(mountPoint) :
    /\ unmountable' = seen
    /\ IF seen \/ mountPoint = None
       THEN UNCHANGED <<mountPoint, holds, timer>>
       ELSE mountPoint' = None /\ holds' = FALSE /\ timer' = FALSE

\* Bug variant: a mounted volume is news only once.
PollMountOnce ==
  \E seen \in IF mountPoint = None THEN {FALSE} ELSE Looks(mountPoint) :
    IF seen
    THEN unmountable' = TRUE /\ timer' = FALSE /\ UNCHANGED <<mountPoint, holds>>
    ELSE IF mountPoint # None /\ holds /\ helper = "exited"
    THEN unmountable' = FALSE /\ mountPoint' = None /\ holds' = FALSE /\ timer' = FALSE
    ELSE unmountable' = (unmountable /\ mountPoint # None) /\ UNCHANGED <<mountPoint, holds, timer>>

PollMount ==
  \E seen \in IF mountPoint = None THEN {FALSE} ELSE Looks(mountPoint) :
    IF seen
    THEN unmountable' = TRUE /\ UNCHANGED <<mountPoint, holds, timer>>
    ELSE IF mountPoint # None /\ holds /\ helper = "exited"
    THEN unmountable' = FALSE /\ mountPoint' = None /\ holds' = FALSE /\ timer' = FALSE
    ELSE unmountable' = (unmountable /\ mountPoint # None) /\ UNCHANGED <<mountPoint, holds, timer>>

\* A tick of the timer, or the mount page is shown.
Tick == Idle /\ timer /\ PollMount /\ UNCHANGED <<outside, ui>>
ShowPage == Idle /\ PollMount /\ UNCHANGED <<outside, ui>>

(***************************************************************************)
(* start_mount().                                                          *)
(***************************************************************************)
ClickMount ==
  /\ Idle
  /\ IF mountPoint = None THEN UNCHANGED <<mountPoint, holds, timer, unmountable>> ELSE PollMount
  /\ ui' = IF mountPoint' = None THEN "choosing" ELSE "idle"
  /\ UNCHANGED outside

\* No helper in the package, or no letter.
CannotMount ==
  /\ Open /\ ui = "choosing"
  /\ ui' = "idle"
  /\ UNCHANGED <<outside, mountPoint, holds, timer, unmountable>>

Choose ==
  /\ Open /\ ui = "choosing" /\ Unused # {}
  /\ mountPoint' = LetterChosen /\ ui' = "launching"
  /\ UNCHANGED <<outside, holds, timer, unmountable>>

\* Cancelled in UAC, or no process.
LaunchFails ==
  /\ Open /\ ui = "launching"
  /\ mountPoint' = None /\ ui' = "idle"
  /\ UNCHANGED <<outside, holds, timer, unmountable>>

\* The poll at the end finds a helper that has hardly begun, and what else may
\* have taken the letter meanwhile.
LaunchHelper ==
  /\ Open /\ ui = "launching"
  /\ Launched(mountPoint)
  /\ holds' = TRUE /\ timer' = TRUE /\ ui' = "idle"
  /\ \E seen \in Looks(mountPoint) : unmountable' = (unmountable \/ seen)
  /\ UNCHANGED <<launcherVars, mountPoint>>

(***************************************************************************)
(* request_unmount(), from the button and when the window closes.          *)
(***************************************************************************)
ClickUnmount ==
  /\ Idle /\ unmountable /\ mountPoint # None
  /\ ui' = "asking"
  /\ UNCHANGED <<outside, mountPoint, holds, timer, unmountable>>

UnmountAnswered ==
  /\ Open /\ ui = "asking"
  /\ ui' = "idle"
  /\ \/ removers' = removers \cup {mountPoint} /\ timer' = TRUE
     \/ UNCHANGED <<removers, timer>>
  /\ UNCHANGED <<controllerVars, helperVars, drives, started, launcherVars,
                 mountPoint, holds, unmountable>>

\* A window with nothing mounted closes at once.
Close ==
  /\ Idle
  /\ IF mountPoint = None
     THEN winui' = "closed" /\ WindowGone
     ELSE ui' = "closing" /\ UNCHANGED <<winui, mountPoint, holds, timer, unmountable>>
  /\ UNCHANGED <<allHelperVars, launcher, event>>

\* on_closed() and then the destructor, which gives the handle up.
CloseAnswered ==
  /\ Open /\ ui = "closing"
  /\ removers' = removers \cup {mountPoint} \/ UNCHANGED removers
  /\ winui' = "closed" /\ WindowGone
  /\ UNCHANGED <<controllerVars, helperVars, drives, started, launcher, event>>

WinuiCrashes ==
  /\ Open
  /\ winui' = "crashed" /\ WindowGone
  /\ UNCHANGED <<allHelperVars, launcher, event>>

User == ClickMount \/ ClickUnmount \/ ShowPage \/ Close
Shell == CannotMount \/ Choose \/ LaunchFails \/ LaunchHelper \/ UnmountAnswered \/ CloseAnswered
Window == User \/ Shell \/ Tick \/ WinuiCrashes

Next ==
  \/ Helper /\ UNCHANGED <<launcherVars, windowVars>>
  \/ Launching /\ UNCHANGED <<allHelperVars, windowVars>>
  \/ Window

Spec == Init /\ [][Next]_vars

\* The threads of the helper, Dokan and the `--unmount` processes go on, the
\* timer ticks, the launcher waits no longer than its time-out, and UAC closes
\* by itself.  A tick is due however often a dialog holds the UI thread.  Nothing
\* makes a user act, a process die or another volume leave.
Beside == UNCHANGED <<launcherVars, windowVars>>
FairSpec ==
  /\ Spec
  /\ WF_vars(Main /\ Beside) /\ WF_vars(Console /\ Beside)
  /\ WF_vars(DokanSteps /\ Beside) /\ WF_vars(Reclaim /\ Beside)
  /\ WF_vars((\E l \in Letters : Remove(l)) /\ Beside)
  /\ WF_vars((Waiting \/ Answered) /\ UNCHANGED <<allHelperVars, windowVars>>)
  /\ WF_vars(Shell) /\ SF_vars(Tick)

(***************************************************************************)
(* Properties.                                                             *)
(***************************************************************************)
\* While the window is open, a helper it has started and that still runs is the
\* one it shows, holds and polls: the mount point is not given up while a
\* process may mount there (poll_mount_state clears it by the handle only).
MountIsNeverForgotten ==
  Open /\ helper \in Alive => mountPoint = point /\ holds /\ timer

\* Another volume has the letter the helper was given.
Taken == \E l \in Letters : l = point /\ drives[l] = "other"

\* The end of a helper, by whatever cause, is noticed: the window offers to
\* mount again, unless another volume has taken the letter (then the window
\* takes that one for its own) or the window is gone.
EndedHelperIsNoticed ==
  (Open /\ holds /\ helper = "exited")
    ~> (mountPoint = None \/ Taken \/ ~Open)

\* Once Dokan has accepted a removal, from the window, a terminal or Explorer,
\* the helper ends by itself: its polling, its join and its worker lead there.
RemovalEndsHelper == removed /\ Registered ~> helper = "exited"

\* If the modern frontend ends while the launcher waits, the user is asked
\* what to do, although the event may be set as well.
EarlyEndIsAsked == launcher = "waiting" /\ winui \in Over ~> launcher = "asking"

=============================================================================
