---------------------------- MODULE DesktopProofs ----------------------------
(***************************************************************************)
(* Theorems about Desktop, for any letters and any number of helpers.      *)
(*                                                                         *)
(* The window knows its helper by a handle and a letter, and clears both   *)
(* in one place.  That they never come apart rests on what the UI thread   *)
(* is doing: it chooses a letter only when no helper runs (ChoosingInv),   *)
(* what it holds while one runs is that helper (HoldingInv), a window that *)
(* is not open yet has started nothing (StartupInv), and a helper, once    *)
(* started, has a mount point and alone runs a console handler (HelperInv).*)
(***************************************************************************)
EXTENDS Desktop, WellFoundedInduction, TLAPS

HoldingInv == Open /\ helper \in Alive => mountPoint = point /\ holds /\ timer

ChoosingInv ==
  /\ Open /\ ui \in {"choosing", "launching"} => helper \notin Alive
  /\ ui \in {"launching", "asking", "closing"} => mountPoint \in Letters

StartupInv ==
  /\ launcher = "checking" => winui = "none"
  /\ winui \in {"none"} \cup Unready => helper = "none" /\ ui = "idle"

HelperInv ==
  /\ helper # "none" => point \in Letters
  /\ handler # "none" => helper \in Alive

IInv == TypeOK /\ HoldingInv /\ ChoosingInv /\ StartupInv /\ HelperInv

(***************************************************************************)
(* The letter chosen.                                                      *)
(***************************************************************************)

\* choose_mount_letter() returns a letter that is free.
LEMMA ChosenIsUnused ==
  ASSUME Unused # {} PROVE LetterChosen \in Unused
<1>1. Unused \subseteq Nat
  BY LetterFacts DEF Unused
<1> DEFINE less == {ss \in Nat \X Nat : ss[1] < ss[2]}
<1>2. less = OpToRel(<, Nat)
  BY Zenon DEF OpToRel
<1>3. IsWellFoundedOn(less, Nat)
  BY <1>2, NatLessThanWellFounded, Zenon
<1>4. PICK x \in Unused : \A y \in Unused : ~ (<<y, x>> \in less)
  BY <1>1, <1>3, WFMin, Zenon
<1>5. ASSUME NEW y \in Unused PROVE x <= y
  <2>1. x \in Nat /\ y \in Nat
    BY <1>1
  <2>2. y < x => <<y, x>> \in less
    BY <2>1
  <2> HIDE DEF less
  <2> QED BY <1>4, <2>1, <2>2
<1> QED BY <1>5 DEF LetterChosen, Min

(***************************************************************************)
(* The steps, one by one.                                                  *)
(***************************************************************************)
HelperStep == Helper /\ UNCHANGED <<launcherVars, windowVars>>
LaunchingStep == Launching /\ UNCHANGED <<allHelperVars, windowVars>>

\* Every step of the specification is one of these.
LEMMA StepCases ==
  ASSUME [Next]_vars
  PROVE  \/ HelperStep \/ LaunchingStep
         \/ Tick \/ ShowPage \/ ClickMount \/ CannotMount \/ Choose \/ LaunchFails
         \/ LaunchHelper \/ ClickUnmount \/ UnmountAnswered \/ Close \/ CloseAnswered
         \/ WinuiCrashes \/ UNCHANGED vars
BY DEF Next, Window, User, Shell, HelperStep, LaunchingStep

\* Every step of the helper, of Dokan and of the letters is one of these.
LEMMA HelperCases ==
  ASSUME Helper
  PROVE  \/ SourceRefused \/ SourceOpened \/ StartFails \/ StartSucceeds
         \/ PollingOver \/ WaitReturns \/ Returns \/ Killed
         \/ Interrupt \/ HandlerLooks \/ HandlerRequests \/ HandlerCrashes
         \/ Registers \/ Unregisters
         \/ (DokanRefuses \/ MountedCallback \/ MainReturns \/ Worker)
              /\ UNCHANGED <<helperVars, systemVars>>
         \/ Reclaim \/ RemovedElsewhere \/ OtherVolume
         \/ \E l \in Letters : Remove(l)
BY DEF Helper, Main, Console, DokanSteps

(***************************************************************************)
(* Types.                                                                  *)
(***************************************************************************)

\* What the controller does by itself keeps its types.
LEMMA ControllerTyped ==
  ASSUME ControllerTypeOK,
         \/ Worker \/ DokanRefuses \/ DokanRegisters \/ MountedCallback \/ UnmountedCallback
         \/ MainReturns \/ RemovedFromOutside \/ RequestUnmount \/ Joined \/ StartRefused
         \/ \E s \in Sources : Started(s)
         \/ UNCHANGED controllerVars
  PROVE  ControllerTypeOK'
<1> USE DEF ControllerTypeOK, WorkerStates, Serving
<1>1. CASE Worker
  BY <1>1 DEF Worker, ClearMounted, ClearRunning, EndRun
<1>2. CASE DokanRefuses \/ DokanRegisters \/ MountedCallback \/ UnmountedCallback \/ MainReturns
  BY <1>2 DEF DokanRefuses, DokanRegisters, MountedCallback, UnmountedCallback, MainReturns
<1>3. CASE RemovedFromOutside \/ RequestUnmount
  BY <1>3 DEF RemovedFromOutside, RequestUnmount, Registered
<1>4. CASE Joined
  BY <1>4 DEF Joined, Joinable, mainVars
<1>5. CASE StartRefused
  BY <1>5 DEF StartRefused
<1>6. CASE \E s \in Sources : Started(s)
  BY <1>6 DEF Started
<1>7. CASE UNCHANGED controllerVars
  BY <1>7 DEF controllerVars, mainVars
<1> QED BY <1>1, <1>2, <1>3, <1>4, <1>5, <1>6, <1>7

\* The letters stay letters of somebody.
LEMMA DrivesTyped ==
  ASSUME drives \in [Letters -> {"free", "ours", "other"}],
         \/ UNCHANGED drives
         \/ \E l, who : who \in {"free", "ours", "other"} /\ drives' = [drives EXCEPT ![l] = who]
  PROVE  drives' \in [Letters -> {"free", "ours", "other"}]
OBVIOUS

\* The helper's steps keep the types of its state.
LEMMA HelperTyped ==
  ASSUME HelperTypeOK, Helper PROVE HelperTypeOK'
<1> USE DEF HelperTypeOK, Alive, Hooked, helperVars, systemVars
<1>1. ControllerTypeOK'
  <2>1. CASE Killed
    BY <2>1 DEF Killed, ControllerTypeOK, WorkerStates
  <2>2. CASE ~Killed
    BY <2>2, HelperCases, ControllerTyped
       DEF SourceRefused, SourceOpened, StartFails, StartSucceeds, PollingOver, WaitReturns,
           Returns, Interrupt, HandlerLooks, HandlerRequests, HandlerCrashes, Registers,
           Unregisters, Reclaim, RemovedElsewhere, OtherVolume, Remove
  <2> QED BY <2>1, <2>2
<1>2. drives' \in [Letters -> {"free", "ours", "other"}]
  BY HelperCases, DrivesTyped
     DEF SourceRefused, SourceOpened, StartFails, StartSucceeds, PollingOver, WaitReturns,
         Returns, Killed, Interrupt, HandlerLooks, HandlerRequests, HandlerCrashes, Registers,
         Unregisters, Reclaim, RemovedElsewhere, OtherVolume, Remove
<1>3. /\ helper' \in Alive \cup {"none", "exited"}
      /\ point' = point
      /\ handler' \in {"none", "entered", "running", "using"}
      /\ removers' \in SUBSET removers
      /\ started' = started
  BY HelperCases
     DEF SourceRefused, SourceOpened, StartFails, StartSucceeds, PollingOver, WaitReturns,
         Returns, Killed, Exit, Interrupt, HandlerLooks, HandlerRequests, HandlerCrashes,
         Registers, Unregisters, Reclaim, RemovedElsewhere, OtherVolume, Remove
<1> QED BY <1>1, <1>2, <1>3

\* The launcher's steps keep the types of its state.
LEMMA LauncherTyped ==
  ASSUME LauncherTypeOK, Launching PROVE LauncherTypeOK'
BY DEF LauncherTypeOK, Launching, WithoutWinui, CannotLaunch, Ask, LaunchWinui, Waiting,
       WaitEnds, WaitTimesOut, WaitFails, Answered, Startup, Activated, SignalReady,
       StartupFails, Unready, Over

\* A poll keeps the types of what it writes, and forgets a mount point only
\* with the handle of an ended helper (poll_mount_state).
LEMMA PollTyped ==
  ASSUME TypeOK, PollMount
  PROVE  /\ mountPoint' \in {mountPoint, None}
         /\ {holds', timer', unmountable'} \subseteq BOOLEAN
         /\ helper # "exited" => mountPoint' = mountPoint /\ holds' = holds /\ timer' = timer
<1> DEFINE Seen == IF mountPoint = None THEN {FALSE} ELSE Looks(mountPoint)
<1>1. PICK seen \in Seen : PollMount!(seen)
  BY DEF PollMount
<1>2. seen \in BOOLEAN
  BY <1>1 DEF Looks
<1> HIDE DEF Seen
<1> QED BY <1>1, <1>2 DEF TypeOK

\* Where the window's steps may lead, as far as its own state goes: the letters
\* it hands to UAC and to `--unmount` are letters.
LEMMA WindowTyped ==
  ASSUME IInv, Window PROVE TypeOK'
<1> USE DEF TypeOK, outside, helperVars, systemVars, allHelperVars, launcherVars
<1>1. CASE Tick \/ ShowPage \/ ClickMount
  <2>1. PollMount \/ UNCHANGED <<mountPoint, holds, timer, unmountable>>
    BY <1>1 DEF Tick, ShowPage, ClickMount
  <2>2. /\ mountPoint' \in {mountPoint, None}
        /\ {holds', timer', unmountable'} \subseteq BOOLEAN
    BY <2>1, PollTyped DEF IInv
  <2>3. UNCHANGED outside /\ ui' \in {"idle", "choosing", "launching", "asking", "closing"}
    BY <1>1 DEF Tick, ShowPage, ClickMount, Idle, IInv
  <2>4. UNCHANGED controllerVars
    BY <2>3
  <2> QED BY <2>2, <2>3, <2>4, ControllerTyped DEF HelperTypeOK, LauncherTypeOK, IInv
<1>2. CASE CannotMount \/ LaunchFails
  BY <1>2, ControllerTyped DEF CannotMount, LaunchFails, HelperTypeOK, LauncherTypeOK, IInv
<1>3. CASE Choose
  <2>1. LetterChosen \in Letters
    BY <1>3, ChosenIsUnused DEF Choose, Unused
  <2> QED BY <1>3, <2>1, ControllerTyped DEF Choose, HelperTypeOK, LauncherTypeOK, IInv
<1>4. CASE LaunchHelper
  <2>1. mountPoint \in Letters
    BY <1>4 DEF LaunchHelper, ChoosingInv, IInv
  <2>2. unmountable' \in BOOLEAN
    BY <1>4 DEF LaunchHelper, Looks, IInv
  <2> QED BY <1>4, <2>1, <2>2, ControllerTyped, LetterFacts
          DEF LaunchHelper, Launched, HelperTypeOK, LauncherTypeOK, IInv, Alive
<1>5. CASE ClickUnmount
  BY <1>5, ControllerTyped DEF ClickUnmount, HelperTypeOK, LauncherTypeOK, IInv
<1>6. CASE UnmountAnswered
  <2>1. mountPoint \in Letters
    BY <1>6 DEF UnmountAnswered, ChoosingInv, IInv
  <2>2. removers' \subseteq Letters /\ timer' \in BOOLEAN
    BY <1>6, <2>1 DEF UnmountAnswered, HelperTypeOK, IInv
  <2>3. /\ UNCHANGED <<controllerVars, helperVars, drives, started, launcherVars>>
        /\ UNCHANGED <<mountPoint, holds, unmountable>> /\ ui' = "idle"
    BY <1>6 DEF UnmountAnswered
  <2>4. HelperTypeOK'
    BY <2>2, <2>3, ControllerTyped DEF HelperTypeOK, IInv
  <2> QED BY <2>2, <2>3, <2>4 DEF LauncherTypeOK, IInv
<1>7. CASE Close \/ WinuiCrashes
  BY <1>7, ControllerTyped
     DEF Close, WinuiCrashes, WindowGone, HelperTypeOK, LauncherTypeOK, IInv, Over
<1>8. CASE CloseAnswered
  <2>1. mountPoint \in Letters
    BY <1>8 DEF CloseAnswered, ChoosingInv, IInv
  <2> QED BY <1>8, <2>1, ControllerTyped
          DEF CloseAnswered, WindowGone, HelperTypeOK, LauncherTypeOK, IInv, Over
<1> QED BY <1>1, <1>2, <1>3, <1>4, <1>5, <1>6, <1>7, <1>8 DEF Window, User, Shell

\* TypeOK is kept.
LEMMA TypeStep ==
  ASSUME IInv, [Next]_vars PROVE TypeOK'
<1>1. CASE HelperStep
  BY <1>1, HelperTyped DEF IInv, TypeOK, HelperStep, LauncherTypeOK, launcherVars, windowVars
<1>2. CASE LaunchingStep
  <2>1. LauncherTypeOK'
    BY <1>2, LauncherTyped DEF IInv, TypeOK, LaunchingStep
  <2>2. ControllerTypeOK'
    BY <1>2, ControllerTyped DEF IInv, TypeOK, HelperTypeOK, LaunchingStep, allHelperVars
  <2>3. UNCHANGED <<helperVars, systemVars, windowVars>>
    BY <1>2 DEF LaunchingStep, allHelperVars
  <2>4. HelperTypeOK'
    BY <2>2, <2>3 DEF IInv, TypeOK, HelperTypeOK, helperVars, systemVars
  <2> QED BY <2>1, <2>3, <2>4 DEF IInv, TypeOK, windowVars
<1>3. CASE Window
  BY <1>3, WindowTyped
<1>4. CASE UNCHANGED vars
  BY <1>4, ControllerTyped
     DEF IInv, TypeOK, HelperTypeOK, LauncherTypeOK, vars, allHelperVars, helperVars,
         systemVars, launcherVars, windowVars
<1> QED BY <1>1, <1>2, <1>3, <1>4 DEF Next, HelperStep, LaunchingStep

(***************************************************************************)
(* What holds of the helper and the window together.                       *)
(***************************************************************************)

\* Nothing but the window starts a helper; whatever else happens it goes on
\* with its mount point or ends, and its console handler ends with it.
LEMMA HelperKeeps ==
  ASSUME IInv, Helper
  PROVE  /\ helper' \in Alive => helper \in Alive
         /\ helper' = "none" <=> helper = "none"
         /\ HelperInv'
<1> USE DEF IInv, HelperInv, Alive, Hooked, helperVars, systemVars
<1>1. point' = point
  BY HelperCases
     DEF SourceRefused, SourceOpened, StartFails, StartSucceeds, PollingOver, WaitReturns,
         Returns, Killed, Exit, Interrupt, HandlerLooks, HandlerRequests, HandlerCrashes,
         Registers, Unregisters, Reclaim, RemovedElsewhere, OtherVolume, Remove
<1>2. /\ helper' \in Alive => helper \in Alive
      /\ helper' = "none" <=> helper = "none"
      /\ handler' # "none" => helper' \in Alive
  BY HelperCases
     DEF SourceRefused, SourceOpened, StartFails, StartSucceeds, PollingOver, WaitReturns,
         Returns, Killed, Exit, Interrupt, HandlerLooks, HandlerRequests, HandlerCrashes,
         Registers, Unregisters, Reclaim, RemovedElsewhere, OtherVolume, Remove
<1> QED BY <1>1, <1>2

\* Only the startup of the WinUI process opens the window, and it is reached from
\* the launcher alone.
LEMMA LaunchingKeeps ==
  ASSUME IInv, LaunchingStep
  PROVE  /\ Open' => Open \/ winui \in Unready
         /\ StartupInv'
BY DEF IInv, StartupInv, Open, LaunchingStep, Launching, WithoutWinui, CannotLaunch, Ask,
       LaunchWinui, Waiting, WaitEnds, WaitTimesOut, WaitFails, Answered, Startup, Activated,
       SignalReady, StartupFails, Unready, Over, allHelperVars, helperVars, windowVars

\* The rest of the invariant is kept.
LEMMA WindowInvStep ==
  ASSUME IInv, [Next]_vars
  PROVE  HoldingInv' /\ ChoosingInv' /\ StartupInv' /\ HelperInv'
<1> USE DEF IInv, HoldingInv, ChoosingInv, StartupInv, Open, Idle, outside, helperVars,
            systemVars, allHelperVars, launcherVars
<1>1. CASE HelperStep
  <2>1. point' = point
    BY <1>1, HelperCases
       DEF SourceRefused, SourceOpened, StartFails, StartSucceeds, PollingOver, WaitReturns,
           Returns, Killed, Exit, Interrupt, HandlerLooks, HandlerRequests, HandlerCrashes,
           Registers, Unregisters, Reclaim, RemovedElsewhere, OtherVolume, Remove, HelperStep
  <2> QED BY <1>1, <2>1, HelperKeeps DEF HelperStep, windowVars
<1>2. CASE LaunchingStep
  <2>1. Open' => Open \/ winui \in Unready
    BY <1>2, LaunchingKeeps
  <2>2. StartupInv'
    BY <1>2, LaunchingKeeps
  <2>3. UNCHANGED <<helper, point, handler, ui, mountPoint, holds, timer>>
    BY <1>2 DEF LaunchingStep, windowVars
  <2> QED BY <2>1, <2>2, <2>3 DEF HelperInv, Alive, Hooked
<1>3. CASE Tick \/ ShowPage \/ ClickMount
  <2>1. UNCHANGED outside
    BY <1>3 DEF Tick, ShowPage, ClickMount
  <2>2. helper \in Alive => mountPoint' = mountPoint /\ holds' = holds /\ timer' = timer
    BY <1>3, PollTyped DEF Tick, ShowPage, ClickMount, Alive, Hooked
  <2>3. ui = "idle" /\ (ui' = "idle" \/ (ui' = "choosing" /\ mountPoint' = None))
    <3>1. CASE Tick \/ ShowPage
      BY <3>1 DEF Tick, ShowPage
    <3>2. CASE ClickMount
      BY <3>2 DEF ClickMount
    <3> QED BY <1>3, <3>1, <3>2
  <2>4. helper \in Alive => mountPoint # None
    BY <1>3, LetterFacts DEF Tick, ShowPage, ClickMount, HelperInv, Alive, Hooked
  <2> QED BY <1>3, <2>1, <2>2, <2>3, <2>4
          DEF HelperInv, Tick, ShowPage, ClickMount, Unready, Alive, Hooked
<1>4. CASE CannotMount \/ LaunchFails
  BY <1>4 DEF CannotMount, LaunchFails, HelperInv, Unready
<1>5. CASE Choose
  <2>1. LetterChosen \in Letters
    BY <1>5, ChosenIsUnused DEF Choose, Unused
  <2> QED BY <1>5, <2>1 DEF Choose, HelperInv, Unready
<1>6. CASE LaunchHelper
  BY <1>6 DEF LaunchHelper, Launched, HelperInv, Unready, Alive, Hooked
<1>7. CASE ClickUnmount
  BY <1>7 DEF ClickUnmount, HelperInv, Unready, TypeOK
<1>8. CASE UnmountAnswered
  BY <1>8 DEF UnmountAnswered, HelperInv, Unready
<1>9. CASE Close \/ CloseAnswered \/ WinuiCrashes
  BY <1>9 DEF Close, CloseAnswered, WinuiCrashes, WindowGone, HelperInv, Unready, TypeOK,
              NoWindow
<1>10. CASE UNCHANGED vars
  BY <1>10 DEF vars, windowVars, HelperInv
<1> QED BY StepCases, <1>1, <1>2, <1>3, <1>4, <1>5, <1>6, <1>7, <1>8, <1>9, <1>10

(***************************************************************************)
(* The theorems.                                                           *)
(***************************************************************************)

\* The invariant holds of every reachable state.
THEOREM Invariant == Spec => []IInv
<1>1. Init => IInv
  <2> SUFFICES ASSUME Init PROVE IInv
    OBVIOUS
  <2>1. ControllerTypeOK
    BY DEF Init, HelperInit, ControllerInit, ControllerTypeOK, WorkerStates
  <2>2. drives \in [Letters -> {"free", "ours", "other"}]
    BY DEF Init, HelperInit
  <2>3. HelperTypeOK
    BY <2>1, <2>2, LetterFacts DEF Init, HelperInit, HelperTypeOK
  <2>4. TypeOK
    BY <2>3 DEF Init, LauncherInit, NoWindow, TypeOK, LauncherTypeOK
  <2> QED BY <2>4
          DEF Init, HelperInit, LauncherInit, NoWindow, IInv, HoldingInv, ChoosingInv,
              StartupInv, HelperInv, Open
<1>2. IInv /\ [Next]_vars => IInv'
  BY TypeStep, WindowInvStep DEF IInv
<1> QED BY <1>1, <1>2, PTL DEF Spec

\* The state of the launcher, the window, the helper and the letters has its
\* types: every letter the window hands to a process is one (start_mount).
THEOREM TypeCorrect == Spec => []TypeOK
<1>1. IInv => TypeOK
  BY DEF IInv
<1> QED BY <1>1, Invariant, PTL

\* While the window is open, a helper it started and that runs is the one it
\* shows, holds and polls (poll_mount_state, start_mount, on_closed).
THEOREM HelperNeverForgotten == Spec => []MountIsNeverForgotten
<1>1. IInv => MountIsNeverForgotten
  BY DEF IInv, HoldingInv, MountIsNeverForgotten
<1> QED BY <1>1, Invariant, PTL
=============================================================================
