-------------------------- MODULE Win32MountProofs --------------------------
(***************************************************************************)
(* Theorems about Win32Mount, for any set of sources and drives.           *)
(*                                                                         *)
(* What the window relies on is spread over several variables.  The        *)
(* inductive invariant names it: which stretch of run() each atomic        *)
(* covers (WorkerInv), that a message box or a half-done handler excludes  *)
(* a running mount (WindowInv), that current_physical_ and current_image_  *)
(* lead back to the open source (SourceInv), what the last refresh of the  *)
(* menu is still good for (MenuInv), and that a box a discovery put up     *)
(* stays above every other question while nothing is open (BoxInv), and     *)
(* that no worker exists behind the box of a refused start (RefusedInv).   *)
(***************************************************************************)
EXTENDS Win32Mount, SequenceTheorems, TLAPS

WorkerInv ==
  /\ running <=> worker \in Serving \cup {"returned", "cleared"}
  /\ mounted => worker \in Serving \cup {"returned"}
  /\ worker # "none" => controller

WindowInv ==
  /\ modal # <<>> => ~running /\ gui \in {"pumping", "finish"}
  /\ gui = "start" => session # None /\ ~running /\ "mount" \in menu
  /\ gui = "finish" => ~running
  /\ gui \in {"request", "refresh"} => worker # "none"

SourceInv ==
  /\ session = Reopened
  /\ MountServesOpenSource

MenuInv ==
  /\ running /\ gui # "refresh" => "unmount" \in menu
  /\ worker = "none" /\ session # None /\ gui # "closed" => "mount" \in menu
  /\ session # None => menu # {}

BoxInv ==
  \A i \in 1 .. Len(modal) : modal[i].for = "discovery" =>
    /\ session = None /\ ~discovering
    /\ \A j \in (i + 1) .. Len(modal) : modal[j].kind # "ask"

RefusedInv ==
  \A i \in 1 .. Len(modal) : modal[i].kind = "refused" => worker = "none"

IInv == TypeOK /\ WorkerInv /\ WindowInv /\ SourceInv /\ MenuInv /\ BoxInv /\ RefusedInv

(***************************************************************************)
(* Pushing and popping message boxes.                                      *)
(***************************************************************************)

\* Append adds the box on top and moves no other (MessageBoxW nests).
LEMMA Pushed ==
  ASSUME NEW S, NEW m \in Seq(S), NEW b \in S
  PROVE  /\ Append(m, b) \in Seq(S)
         /\ Len(Append(m, b)) = Len(m) + 1
         /\ Append(m, b)[Len(m) + 1] = b
         /\ \A i \in 1 .. Len(m) : Append(m, b)[i] = m[i]
OBVIOUS

\* Pop takes the innermost box and moves no other.
LEMMA Popped ==
  ASSUME NEW S, NEW m \in Seq(S), m # <<>>
  PROVE  /\ Pop(m) \in Seq(S)
         /\ Len(Pop(m)) = Len(m) - 1
         /\ Len(m) \in Nat \ {0}
         /\ Box(m) \in S
         /\ \A i \in 1 .. Len(m) - 1 : Pop(m)[i] = m[i]
<1>1. Len(m) \in Nat \ {0}
  OBVIOUS
<1>2. Box(m) \in S
  BY <1>1 DEF Box
<1>3. /\ Pop(m) \in Seq(S)
      /\ Len(Pop(m)) = Len(m) - 1
      /\ \A i \in 1 .. Len(m) - 1 : Pop(m)[i] = m[i]
  <2> DEFINE n == Len(m) - 1
             p == SubSeq(m, 1, n)
  <2>1. n \in Nat /\ \A i \in 1 .. n : m[i] \in S
    BY <1>1
  <2> HIDE DEF n
  <2>2. /\ p \in Seq(S)
        /\ Len(p) = IF 1 <= n THEN n - 1 + 1 ELSE 0
        /\ \A i \in 1 .. n - 1 + 1 : p[i] = m[1 + i - 1]
    BY <2>1, SubSeqProperties
  <2> HIDE DEF p
  <2>3. Len(p) = n
    BY <2>1, <2>2
  <2>4. ASSUME NEW i \in 1 .. n PROVE p[i] = m[i]
    <3>1. i \in 1 .. n - 1 + 1 /\ 1 + i - 1 = i
      BY <2>1
    <3> QED BY <2>2, <3>1
  <2>5. Pop(m) = p
    BY DEF Pop, p, n
  <2> QED BY <2>2, <2>3, <2>4, <2>5 DEF n
<1> QED BY <1>1, <1>2, <1>3

\* The three kinds of box are boxes.
LEMMA BoxesTyped ==
  /\ \A s \in Sources, by \in {"user", "discovery"} : AskToOpen(s, by) \in BoxType
  /\ StoppedBox \in BoxType /\ RefusedBox \in BoxType
<1>1. ASSUME NEW s \in Sources, NEW by \in {"user", "discovery"}
      PROVE  AskToOpen(s, by) \in BoxType
  BY <1>1 DEF AskToOpen, BoxType
<1>2. StoppedBox \in BoxType
  BY DEF StoppedBox, BoxType
<1>3. RefusedBox \in BoxType
  BY DEF RefusedBox, BoxType
<1> QED BY <1>1, <1>2, <1>3

\* Only a question asks to open, and what it asks about is a source.
LEMMA AsksAboutSources ==
  ASSUME TypeOK, Shows("ask") PROVE Box(modal).source \in Sources
<1>1. Box(modal) \in BoxType
  BY Popped DEF TypeOK, Shows
<1> QED BY <1>1 DEF BoxType, Shows

\* Nothing runs behind a refused start.
LEMMA InnermostRefused ==
  ASSUME TypeOK, RefusedInv, Shows("refused") PROVE worker = "none"
<1>1. Len(modal) \in 1 .. Len(modal)
  BY Popped DEF TypeOK, Shows
<1> QED BY <1>1 DEF RefusedInv, Shows, Box

(***************************************************************************)
(* The steps, one by one.                                                  *)
(***************************************************************************)

\* The steps that touch the controller and nothing of the window.
ControllerStep ==
  /\ Worker \/ Dokan \/ RemovedFromOutside
  /\ UNCHANGED <<sourceVars, windowVars, discovering>>

\* Every step of the specification is one of these.
LEMMA StepCases ==
  ASSUME [Next]_vars
  PROVE  \/ OpenSource \/ AnswerYes \/ AnswerNo \/ Rescan \/ MountReadOnly \/ Unmount
         \/ RefusalRead \/ ReasonRead \/ Destroy
         \/ StartMount \/ RefreshMenu \/ SendRequest \/ FinishMountController \/ WindowClosed
         \/ PollMount \/ DiscoveryComplete \/ ControllerStep \/ UNCHANGED vars
BY DEF Next, UserStep, WindowStep, MountStep, OutsideStep, ControllerStep, Exited

\* What the atomics say of run() is kept.
LEMMA WorkerInvStep ==
  ASSUME TypeOK, WorkerInv, WindowInv, RefusedInv, [Next]_vars
  PROVE  WorkerInv'
<1>1. CASE OpenSource
  BY <1>1, DrivesAreSources, NoneIsNoSource
     DEF WorkerInv, WindowInv, Serving, Ready, Pumping, Shows, vars,
         controllerVars, mainVars, sourceVars, windowVars, OpenSource,
         LoadDevice, Adopt, MenuWhen, TypeOK, ControllerTypeOK
<1>2. CASE AnswerYes
  BY <1>2, AsksAboutSources, DrivesAreSources, NoneIsNoSource
     DEF WorkerInv, WindowInv, Serving, Ready, Pumping, Shows, vars,
         controllerVars, mainVars, sourceVars, windowVars, AnswerYes,
         Adopt, MenuWhen, TypeOK, ControllerTypeOK
<1>3. CASE AnswerNo
  BY <1>3, DrivesAreSources, NoneIsNoSource
     DEF WorkerInv, WindowInv, Serving, Ready, Pumping, Shows, vars,
         controllerVars, mainVars, sourceVars, windowVars, AnswerNo,
         TypeOK, ControllerTypeOK
<1>4. CASE Rescan
  BY <1>4, DrivesAreSources, NoneIsNoSource
     DEF WorkerInv, WindowInv, Serving, Ready, Pumping, Shows, vars,
         controllerVars, mainVars, sourceVars, windowVars, Rescan, TypeOK,
         ControllerTypeOK
<1>5. CASE MountReadOnly
  BY <1>5, DrivesAreSources, NoneIsNoSource
     DEF WorkerInv, WindowInv, Serving, Ready, Pumping, Shows, vars,
         controllerVars, mainVars, sourceVars, windowVars, MountReadOnly,
         TypeOK, ControllerTypeOK
<1>6. CASE Unmount
  BY <1>6, DrivesAreSources, NoneIsNoSource
     DEF WorkerInv, WindowInv, Serving, Ready, Pumping, Shows, vars,
         controllerVars, mainVars, sourceVars, windowVars, Unmount, TypeOK,
         ControllerTypeOK
<1>7. CASE RefusalRead
  <2>1. worker = "none"
    BY <1>7, InnermostRefused DEF RefusalRead
  <2> QED BY <1>7, <2>1 DEF WorkerInv, RefusalRead, controllerVars, mainVars, Serving
<1>8. CASE ReasonRead
  BY <1>8, DrivesAreSources, NoneIsNoSource
     DEF WorkerInv, WindowInv, Serving, Ready, Pumping, Shows, vars,
         controllerVars, mainVars, sourceVars, windowVars, ReasonRead,
         TypeOK, ControllerTypeOK
<1>9. CASE Destroy
  BY <1>9, DrivesAreSources, NoneIsNoSource
     DEF WorkerInv, WindowInv, Serving, Ready, Pumping, Shows, vars,
         controllerVars, mainVars, sourceVars, windowVars, Destroy,
         RequestUnmount, TypeOK, ControllerTypeOK
<1>10. CASE StartMount
  BY <1>10, DrivesAreSources, NoneIsNoSource
     DEF WorkerInv, WindowInv, Serving, Ready, Pumping, Shows, vars,
         controllerVars, mainVars, sourceVars, windowVars, StartMount,
         Started, StartRefused, Joinable, Reopened, TypeOK,
         ControllerTypeOK
<1>11. CASE RefreshMenu
  BY <1>11, DrivesAreSources, NoneIsNoSource
     DEF WorkerInv, WindowInv, Serving, Ready, Pumping, Shows, vars,
         controllerVars, mainVars, sourceVars, windowVars, RefreshMenu,
         MenuWhen, TypeOK, ControllerTypeOK
<1>12. CASE SendRequest
  BY <1>12, DrivesAreSources, NoneIsNoSource
     DEF WorkerInv, WindowInv, Serving, Ready, Pumping, Shows, vars,
         controllerVars, mainVars, sourceVars, windowVars, SendRequest,
         RequestUnmount, UnmountAccepted, TypeOK, ControllerTypeOK
<1>13. CASE FinishMountController
  BY <1>13, DrivesAreSources, NoneIsNoSource
     DEF WorkerInv, WindowInv, Serving, Ready, Pumping, Shows, vars,
         controllerVars, mainVars, sourceVars, windowVars,
         FinishMountController, Joined, Joinable, MenuWhen, TypeOK,
         ControllerTypeOK
<1>14. CASE WindowClosed
  BY <1>14, DrivesAreSources, NoneIsNoSource
     DEF WorkerInv, WindowInv, Serving, Ready, Pumping, Shows, vars,
         controllerVars, mainVars, sourceVars, windowVars, WindowClosed,
         Joined, Joinable, TypeOK, ControllerTypeOK
<1>15. CASE PollMount
  BY <1>15, DrivesAreSources, NoneIsNoSource
     DEF WorkerInv, WindowInv, Serving, Ready, Pumping, Shows, vars,
         controllerVars, mainVars, sourceVars, windowVars, PollMount,
         TypeOK, ControllerTypeOK
<1>16. CASE DiscoveryComplete
  BY <1>16, DrivesAreSources, NoneIsNoSource
     DEF WorkerInv, WindowInv, Serving, Ready, Pumping, Shows, vars,
         controllerVars, mainVars, sourceVars, windowVars,
         DiscoveryComplete, LoadDevice, Adopt, MenuWhen, AutoOpen, TypeOK,
         ControllerTypeOK
<1>17. CASE ControllerStep
  BY <1>17, DrivesAreSources, NoneIsNoSource
     DEF WorkerInv, WindowInv, Serving, Ready, Pumping, Shows, vars,
         controllerVars, mainVars, sourceVars, windowVars, ControllerStep,
         Worker, Dokan, ClearMounted, ClearRunning, EndRun, DokanRefuses,
         DokanRegisters, MountedCallback, UnmountedCallback, MainReturns,
         RemovedFromOutside, Registered, TypeOK, ControllerTypeOK
<1>18. CASE UNCHANGED vars
  BY <1>18, DrivesAreSources, NoneIsNoSource
     DEF WorkerInv, WindowInv, Serving, Ready, Pumping, Shows, vars,
         controllerVars, mainVars, sourceVars, windowVars, TypeOK,
         ControllerTypeOK
<1> QED BY StepCases, <1>1, <1>2, <1>3, <1>4, <1>5, <1>6, <1>7, <1>8, <1>9, <1>10, <1>11, <1>12, <1>13, <1>14, <1>15, <1>16, <1>17, <1>18

\* A half-done handler and an open box keep excluding a running mount.
LEMMA WindowInvStep ==
  ASSUME TypeOK, WorkerInv, WindowInv, MenuInv, [Next]_vars
  PROVE  WindowInv'
<1>1. CASE OpenSource
  BY <1>1, DrivesAreSources, NoneIsNoSource
     DEF WorkerInv, WindowInv, MenuInv, Serving, Ready, Pumping, Shows,
         vars, controllerVars, mainVars, sourceVars, windowVars,
         OpenSource, LoadDevice, Adopt, MenuWhen, TypeOK, ControllerTypeOK
<1>2. CASE AnswerYes
  BY <1>2, AsksAboutSources, DrivesAreSources, NoneIsNoSource
     DEF WorkerInv, WindowInv, MenuInv, Serving, Ready, Pumping, Shows,
         vars, controllerVars, mainVars, sourceVars, windowVars, AnswerYes,
         Adopt, MenuWhen, TypeOK, ControllerTypeOK
<1>3. CASE AnswerNo
  BY <1>3, DrivesAreSources, NoneIsNoSource
     DEF WorkerInv, WindowInv, MenuInv, Serving, Ready, Pumping, Shows,
         vars, controllerVars, mainVars, sourceVars, windowVars, AnswerNo,
         TypeOK, ControllerTypeOK
<1>4. CASE Rescan
  BY <1>4, DrivesAreSources, NoneIsNoSource
     DEF WorkerInv, WindowInv, MenuInv, Serving, Ready, Pumping, Shows,
         vars, controllerVars, mainVars, sourceVars, windowVars, Rescan,
         TypeOK, ControllerTypeOK
<1>5. CASE MountReadOnly
  BY <1>5, DrivesAreSources, NoneIsNoSource
     DEF WorkerInv, WindowInv, MenuInv, Serving, Ready, Pumping, Shows,
         vars, controllerVars, mainVars, sourceVars, windowVars,
         MountReadOnly, TypeOK, ControllerTypeOK
<1>6. CASE Unmount
  BY <1>6, DrivesAreSources, NoneIsNoSource
     DEF WorkerInv, WindowInv, MenuInv, Serving, Ready, Pumping, Shows,
         vars, controllerVars, mainVars, sourceVars, windowVars, Unmount,
         TypeOK, ControllerTypeOK
<1>7. CASE RefusalRead
  BY <1>7, DrivesAreSources, NoneIsNoSource
     DEF WorkerInv, WindowInv, MenuInv, Serving, Ready, Pumping, Shows,
         vars, controllerVars, mainVars, sourceVars, windowVars,
         RefusalRead, TypeOK, ControllerTypeOK
<1>8. CASE ReasonRead
  BY <1>8, DrivesAreSources, NoneIsNoSource
     DEF WorkerInv, WindowInv, MenuInv, Serving, Ready, Pumping, Shows,
         vars, controllerVars, mainVars, sourceVars, windowVars,
         ReasonRead, TypeOK, ControllerTypeOK
<1>9. CASE Destroy
  BY <1>9, DrivesAreSources, NoneIsNoSource
     DEF WorkerInv, WindowInv, MenuInv, Serving, Ready, Pumping, Shows,
         vars, controllerVars, mainVars, sourceVars, windowVars, Destroy,
         RequestUnmount, TypeOK, ControllerTypeOK
<1>10. CASE StartMount
  BY <1>10, DrivesAreSources, NoneIsNoSource
     DEF WorkerInv, WindowInv, MenuInv, Serving, Ready, Pumping, Shows,
         vars, controllerVars, mainVars, sourceVars, windowVars,
         StartMount, Started, StartRefused, Joinable, Reopened, TypeOK,
         ControllerTypeOK
<1>11. CASE RefreshMenu
  BY <1>11, DrivesAreSources, NoneIsNoSource
     DEF WorkerInv, WindowInv, MenuInv, Serving, Ready, Pumping, Shows,
         vars, controllerVars, mainVars, sourceVars, windowVars,
         RefreshMenu, MenuWhen, TypeOK, ControllerTypeOK
<1>12. CASE SendRequest
  BY <1>12, DrivesAreSources, NoneIsNoSource
     DEF WorkerInv, WindowInv, MenuInv, Serving, Ready, Pumping, Shows,
         vars, controllerVars, mainVars, sourceVars, windowVars,
         SendRequest, RequestUnmount, UnmountAccepted, TypeOK,
         ControllerTypeOK
<1>13. CASE FinishMountController
  BY <1>13, DrivesAreSources, NoneIsNoSource
     DEF WorkerInv, WindowInv, MenuInv, Serving, Ready, Pumping, Shows,
         vars, controllerVars, mainVars, sourceVars, windowVars,
         FinishMountController, Joined, Joinable, MenuWhen, TypeOK,
         ControllerTypeOK
<1>14. CASE WindowClosed
  BY <1>14, DrivesAreSources, NoneIsNoSource
     DEF WorkerInv, WindowInv, MenuInv, Serving, Ready, Pumping, Shows,
         vars, controllerVars, mainVars, sourceVars, windowVars,
         WindowClosed, Joined, Joinable, TypeOK, ControllerTypeOK
<1>15. CASE PollMount
  BY <1>15, DrivesAreSources, NoneIsNoSource
     DEF WorkerInv, WindowInv, MenuInv, Serving, Ready, Pumping, Shows,
         vars, controllerVars, mainVars, sourceVars, windowVars, PollMount,
         TypeOK, ControllerTypeOK
<1>16. CASE DiscoveryComplete
  BY <1>16, DrivesAreSources, NoneIsNoSource
     DEF WorkerInv, WindowInv, MenuInv, Serving, Ready, Pumping, Shows,
         vars, controllerVars, mainVars, sourceVars, windowVars,
         DiscoveryComplete, LoadDevice, Adopt, MenuWhen, AutoOpen, TypeOK,
         ControllerTypeOK
<1>17. CASE ControllerStep
  BY <1>17, DrivesAreSources, NoneIsNoSource
     DEF WorkerInv, WindowInv, MenuInv, Serving, Ready, Pumping, Shows,
         vars, controllerVars, mainVars, sourceVars, windowVars,
         ControllerStep, Worker, Dokan, ClearMounted, ClearRunning, EndRun,
         DokanRefuses, DokanRegisters, MountedCallback, UnmountedCallback,
         MainReturns, RemovedFromOutside, Registered, TypeOK,
         ControllerTypeOK
<1>18. CASE UNCHANGED vars
  BY <1>18, DrivesAreSources, NoneIsNoSource
     DEF WorkerInv, WindowInv, MenuInv, Serving, Ready, Pumping, Shows,
         vars, controllerVars, mainVars, sourceVars, windowVars, TypeOK,
         ControllerTypeOK
<1> QED BY StepCases, <1>1, <1>2, <1>3, <1>4, <1>5, <1>6, <1>7, <1>8, <1>9, <1>10, <1>11, <1>12, <1>13, <1>14, <1>15, <1>16, <1>17, <1>18

\* The reopened source stays the open one, and so does the mounted one.
LEMMA SourceInvStep ==
  ASSUME TypeOK, WorkerInv, WindowInv, SourceInv, [Next]_vars
  PROVE  SourceInv'
<1>1. CASE OpenSource
  BY <1>1, DrivesAreSources, NoneIsNoSource
     DEF WorkerInv, WindowInv, SourceInv, MountServesOpenSource, Reopened,
         Serving, Ready, Pumping, Shows, vars, controllerVars, mainVars,
         sourceVars, windowVars, OpenSource, LoadDevice, Adopt, MenuWhen,
         TypeOK, ControllerTypeOK
<1>2. CASE AnswerYes
  BY <1>2, AsksAboutSources, DrivesAreSources, NoneIsNoSource
     DEF WorkerInv, WindowInv, SourceInv, MountServesOpenSource, Reopened,
         Serving, Ready, Pumping, Shows, vars, controllerVars, mainVars,
         sourceVars, windowVars, AnswerYes, Adopt, MenuWhen, TypeOK,
         ControllerTypeOK
<1>3. CASE AnswerNo
  BY <1>3, DrivesAreSources, NoneIsNoSource
     DEF WorkerInv, WindowInv, SourceInv, MountServesOpenSource, Reopened,
         Serving, Ready, Pumping, Shows, vars, controllerVars, mainVars,
         sourceVars, windowVars, AnswerNo, TypeOK, ControllerTypeOK
<1>4. CASE Rescan
  BY <1>4, DrivesAreSources, NoneIsNoSource
     DEF WorkerInv, WindowInv, SourceInv, MountServesOpenSource, Reopened,
         Serving, Ready, Pumping, Shows, vars, controllerVars, mainVars,
         sourceVars, windowVars, Rescan, TypeOK, ControllerTypeOK
<1>5. CASE MountReadOnly
  BY <1>5, DrivesAreSources, NoneIsNoSource
     DEF WorkerInv, WindowInv, SourceInv, MountServesOpenSource, Reopened,
         Serving, Ready, Pumping, Shows, vars, controllerVars, mainVars,
         sourceVars, windowVars, MountReadOnly, TypeOK, ControllerTypeOK
<1>6. CASE Unmount
  BY <1>6, DrivesAreSources, NoneIsNoSource
     DEF WorkerInv, WindowInv, SourceInv, MountServesOpenSource, Reopened,
         Serving, Ready, Pumping, Shows, vars, controllerVars, mainVars,
         sourceVars, windowVars, Unmount, TypeOK, ControllerTypeOK
<1>7. CASE RefusalRead
  BY <1>7, DrivesAreSources, NoneIsNoSource
     DEF WorkerInv, WindowInv, SourceInv, MountServesOpenSource, Reopened,
         Serving, Ready, Pumping, Shows, vars, controllerVars, mainVars,
         sourceVars, windowVars, RefusalRead, TypeOK, ControllerTypeOK
<1>8. CASE ReasonRead
  BY <1>8, DrivesAreSources, NoneIsNoSource
     DEF WorkerInv, WindowInv, SourceInv, MountServesOpenSource, Reopened,
         Serving, Ready, Pumping, Shows, vars, controllerVars, mainVars,
         sourceVars, windowVars, ReasonRead, TypeOK, ControllerTypeOK
<1>9. CASE Destroy
  BY <1>9, DrivesAreSources, NoneIsNoSource
     DEF WorkerInv, WindowInv, SourceInv, MountServesOpenSource, Reopened,
         Serving, Ready, Pumping, Shows, vars, controllerVars, mainVars,
         sourceVars, windowVars, Destroy, RequestUnmount, TypeOK,
         ControllerTypeOK
<1>10. CASE StartMount
  BY <1>10, DrivesAreSources, NoneIsNoSource
     DEF WorkerInv, WindowInv, SourceInv, MountServesOpenSource, Reopened,
         Serving, Ready, Pumping, Shows, vars, controllerVars, mainVars,
         sourceVars, windowVars, StartMount, Started, StartRefused,
         Joinable, TypeOK, ControllerTypeOK
<1>11. CASE RefreshMenu
  BY <1>11, DrivesAreSources, NoneIsNoSource
     DEF WorkerInv, WindowInv, SourceInv, MountServesOpenSource, Reopened,
         Serving, Ready, Pumping, Shows, vars, controllerVars, mainVars,
         sourceVars, windowVars, RefreshMenu, MenuWhen, TypeOK,
         ControllerTypeOK
<1>12. CASE SendRequest
  BY <1>12, DrivesAreSources, NoneIsNoSource
     DEF WorkerInv, WindowInv, SourceInv, MountServesOpenSource, Reopened,
         Serving, Ready, Pumping, Shows, vars, controllerVars, mainVars,
         sourceVars, windowVars, SendRequest, RequestUnmount,
         UnmountAccepted, TypeOK, ControllerTypeOK
<1>13. CASE FinishMountController
  BY <1>13, DrivesAreSources, NoneIsNoSource
     DEF WorkerInv, WindowInv, SourceInv, MountServesOpenSource, Reopened,
         Serving, Ready, Pumping, Shows, vars, controllerVars, mainVars,
         sourceVars, windowVars, FinishMountController, Joined, Joinable,
         MenuWhen, TypeOK, ControllerTypeOK
<1>14. CASE WindowClosed
  BY <1>14, DrivesAreSources, NoneIsNoSource
     DEF WorkerInv, WindowInv, SourceInv, MountServesOpenSource, Reopened,
         Serving, Ready, Pumping, Shows, vars, controllerVars, mainVars,
         sourceVars, windowVars, WindowClosed, Joined, Joinable, TypeOK,
         ControllerTypeOK
<1>15. CASE PollMount
  BY <1>15, DrivesAreSources, NoneIsNoSource
     DEF WorkerInv, WindowInv, SourceInv, MountServesOpenSource, Reopened,
         Serving, Ready, Pumping, Shows, vars, controllerVars, mainVars,
         sourceVars, windowVars, PollMount, TypeOK, ControllerTypeOK
<1>16. CASE DiscoveryComplete
  BY <1>16, DrivesAreSources, NoneIsNoSource
     DEF WorkerInv, WindowInv, SourceInv, MountServesOpenSource, Reopened,
         Serving, Ready, Pumping, Shows, vars, controllerVars, mainVars,
         sourceVars, windowVars, DiscoveryComplete, LoadDevice, Adopt,
         MenuWhen, AutoOpen, TypeOK, ControllerTypeOK
<1>17. CASE ControllerStep
  BY <1>17, DrivesAreSources, NoneIsNoSource
     DEF WorkerInv, WindowInv, SourceInv, MountServesOpenSource, Reopened,
         Serving, Ready, Pumping, Shows, vars, controllerVars, mainVars,
         sourceVars, windowVars, ControllerStep, Worker, Dokan,
         ClearMounted, ClearRunning, EndRun, DokanRefuses, DokanRegisters,
         MountedCallback, UnmountedCallback, MainReturns,
         RemovedFromOutside, Registered, TypeOK, ControllerTypeOK
<1>18. CASE UNCHANGED vars
  BY <1>18, DrivesAreSources, NoneIsNoSource
     DEF WorkerInv, WindowInv, SourceInv, MountServesOpenSource, Reopened,
         Serving, Ready, Pumping, Shows, vars, controllerVars, mainVars,
         sourceVars, windowVars, TypeOK, ControllerTypeOK
<1> QED BY StepCases, <1>1, <1>2, <1>3, <1>4, <1>5, <1>6, <1>7, <1>8, <1>9, <1>10, <1>11, <1>12, <1>13, <1>14, <1>15, <1>16, <1>17, <1>18

\* The menu stays good for what the window can be asked next.
LEMMA MenuInvStep ==
  ASSUME TypeOK, WorkerInv, WindowInv, MenuInv, [Next]_vars
  PROVE  MenuInv'
<1>1. CASE OpenSource
  BY <1>1, DrivesAreSources, NoneIsNoSource
     DEF WorkerInv, WindowInv, MenuInv, Serving, Ready, Pumping, Shows,
         vars, controllerVars, mainVars, sourceVars, windowVars,
         OpenSource, LoadDevice, Adopt, MenuWhen, TypeOK, ControllerTypeOK
<1>2. CASE AnswerYes
  BY <1>2, AsksAboutSources, DrivesAreSources, NoneIsNoSource
     DEF WorkerInv, WindowInv, MenuInv, Serving, Ready, Pumping, Shows,
         vars, controllerVars, mainVars, sourceVars, windowVars, AnswerYes,
         Adopt, MenuWhen, TypeOK, ControllerTypeOK
<1>3. CASE AnswerNo
  BY <1>3, DrivesAreSources, NoneIsNoSource
     DEF WorkerInv, WindowInv, MenuInv, Serving, Ready, Pumping, Shows,
         vars, controllerVars, mainVars, sourceVars, windowVars, AnswerNo,
         TypeOK, ControllerTypeOK
<1>4. CASE Rescan
  BY <1>4, DrivesAreSources, NoneIsNoSource
     DEF WorkerInv, WindowInv, MenuInv, Serving, Ready, Pumping, Shows,
         vars, controllerVars, mainVars, sourceVars, windowVars, Rescan,
         TypeOK, ControllerTypeOK
<1>5. CASE MountReadOnly
  BY <1>5, DrivesAreSources, NoneIsNoSource
     DEF WorkerInv, WindowInv, MenuInv, Serving, Ready, Pumping, Shows,
         vars, controllerVars, mainVars, sourceVars, windowVars,
         MountReadOnly, TypeOK, ControllerTypeOK
<1>6. CASE Unmount
  BY <1>6, DrivesAreSources, NoneIsNoSource
     DEF WorkerInv, WindowInv, MenuInv, Serving, Ready, Pumping, Shows,
         vars, controllerVars, mainVars, sourceVars, windowVars, Unmount,
         TypeOK, ControllerTypeOK
<1>7. CASE RefusalRead
  BY <1>7, DrivesAreSources, NoneIsNoSource
     DEF WorkerInv, WindowInv, MenuInv, Serving, Ready, Pumping, Shows,
         vars, controllerVars, mainVars, sourceVars, windowVars,
         RefusalRead, TypeOK, ControllerTypeOK
<1>8. CASE ReasonRead
  BY <1>8, DrivesAreSources, NoneIsNoSource
     DEF WorkerInv, WindowInv, MenuInv, Serving, Ready, Pumping, Shows,
         vars, controllerVars, mainVars, sourceVars, windowVars,
         ReasonRead, TypeOK, ControllerTypeOK
<1>9. CASE Destroy
  BY <1>9, DrivesAreSources, NoneIsNoSource
     DEF WorkerInv, WindowInv, MenuInv, Serving, Ready, Pumping, Shows,
         vars, controllerVars, mainVars, sourceVars, windowVars, Destroy,
         RequestUnmount, TypeOK, ControllerTypeOK
<1>10. CASE StartMount
  BY <1>10, DrivesAreSources, NoneIsNoSource
     DEF WorkerInv, WindowInv, MenuInv, Serving, Ready, Pumping, Shows,
         vars, controllerVars, mainVars, sourceVars, windowVars,
         StartMount, Started, StartRefused, Joinable, Reopened, TypeOK,
         ControllerTypeOK
<1>11. CASE RefreshMenu
  BY <1>11, DrivesAreSources, NoneIsNoSource
     DEF WorkerInv, WindowInv, MenuInv, Serving, Ready, Pumping, Shows,
         vars, controllerVars, mainVars, sourceVars, windowVars,
         RefreshMenu, MenuWhen, TypeOK, ControllerTypeOK
<1>12. CASE SendRequest
  BY <1>12, DrivesAreSources, NoneIsNoSource
     DEF WorkerInv, WindowInv, MenuInv, Serving, Ready, Pumping, Shows,
         vars, controllerVars, mainVars, sourceVars, windowVars,
         SendRequest, RequestUnmount, UnmountAccepted, TypeOK,
         ControllerTypeOK
<1>13. CASE FinishMountController
  BY <1>13, DrivesAreSources, NoneIsNoSource
     DEF WorkerInv, WindowInv, MenuInv, Serving, Ready, Pumping, Shows,
         vars, controllerVars, mainVars, sourceVars, windowVars,
         FinishMountController, Joined, Joinable, MenuWhen, TypeOK,
         ControllerTypeOK
<1>14. CASE WindowClosed
  BY <1>14, DrivesAreSources, NoneIsNoSource
     DEF WorkerInv, WindowInv, MenuInv, Serving, Ready, Pumping, Shows,
         vars, controllerVars, mainVars, sourceVars, windowVars,
         WindowClosed, Joined, Joinable, TypeOK, ControllerTypeOK
<1>15. CASE PollMount
  BY <1>15, DrivesAreSources, NoneIsNoSource
     DEF WorkerInv, WindowInv, MenuInv, Serving, Ready, Pumping, Shows,
         vars, controllerVars, mainVars, sourceVars, windowVars, PollMount,
         TypeOK, ControllerTypeOK
<1>16. CASE DiscoveryComplete
  BY <1>16, DrivesAreSources, NoneIsNoSource
     DEF WorkerInv, WindowInv, MenuInv, Serving, Ready, Pumping, Shows,
         vars, controllerVars, mainVars, sourceVars, windowVars,
         DiscoveryComplete, LoadDevice, Adopt, MenuWhen, AutoOpen, TypeOK,
         ControllerTypeOK
<1>17. CASE ControllerStep
  BY <1>17, DrivesAreSources, NoneIsNoSource
     DEF WorkerInv, WindowInv, MenuInv, Serving, Ready, Pumping, Shows,
         vars, controllerVars, mainVars, sourceVars, windowVars,
         ControllerStep, Worker, Dokan, ClearMounted, ClearRunning, EndRun,
         DokanRefuses, DokanRegisters, MountedCallback, UnmountedCallback,
         MainReturns, RemovedFromOutside, Registered, TypeOK,
         ControllerTypeOK
<1>18. CASE UNCHANGED vars
  BY <1>18, DrivesAreSources, NoneIsNoSource
     DEF WorkerInv, WindowInv, MenuInv, Serving, Ready, Pumping, Shows,
         vars, controllerVars, mainVars, sourceVars, windowVars, TypeOK,
         ControllerTypeOK
<1> QED BY StepCases, <1>1, <1>2, <1>3, <1>4, <1>5, <1>6, <1>7, <1>8, <1>9, <1>10, <1>11, <1>12, <1>13, <1>14, <1>15, <1>16, <1>17, <1>18

(***************************************************************************)
(* The boxes.                                                              *)
(***************************************************************************)

\* Answering the innermost box, when that opens nothing, keeps BoxInv.
LEMMA PopKeepsBoxes ==
  ASSUME TypeOK, BoxInv, modal # <<>>, modal' = Pop(modal),
         UNCHANGED <<session, discovering>>
  PROVE  BoxInv'
<1>1. /\ Len(modal') = Len(modal) - 1 /\ Len(modal) \in Nat
      /\ \A i \in 1 .. Len(modal) - 1 : modal'[i] = modal[i]
  BY Popped DEF TypeOK
<1>2. ASSUME NEW i \in 1 .. Len(modal'), modal'[i].for = "discovery"
      PROVE  /\ session' = None /\ ~discovering'
             /\ \A j \in (i + 1) .. Len(modal') : modal'[j].kind # "ask"
  <2>1. i \in 1 .. Len(modal) /\ modal[i].for = "discovery"
    BY <1>1, <1>2
  <2>2. /\ session = None /\ ~discovering
        /\ \A j \in (i + 1) .. Len(modal) : modal[j].kind # "ask"
    BY <2>1 DEF BoxInv
  <2>3. ASSUME NEW j \in (i + 1) .. Len(modal') PROVE modal'[j].kind # "ask"
    <3>1. j \in (i + 1) .. Len(modal) /\ j \in 1 .. Len(modal) - 1
      BY <1>1, <1>2
    <3> QED BY <1>1, <2>2, <3>1
  <2> QED BY <2>2, <2>3
<1> QED BY <1>2 DEF BoxInv

\* So does a box that no discovery put up and that does not ask.
LEMMA NoticeKeepsBoxes ==
  ASSUME TypeOK, BoxInv, NEW b \in BoxType, b.kind # "ask", b.for = "user",
         modal' = Append(modal, b), UNCHANGED <<session, discovering>>
  PROVE  BoxInv'
<1>1. /\ Len(modal') = Len(modal) + 1 /\ Len(modal) \in Nat
      /\ modal'[Len(modal) + 1] = b
      /\ \A i \in 1 .. Len(modal) : modal'[i] = modal[i]
  BY Pushed DEF TypeOK
<1>2. ASSUME NEW i \in 1 .. Len(modal'), modal'[i].for = "discovery"
      PROVE  /\ session' = None /\ ~discovering'
             /\ \A j \in (i + 1) .. Len(modal') : modal'[j].kind # "ask"
  <2>1. i \in 1 .. Len(modal) /\ modal[i].for = "discovery"
    <3>1. i # Len(modal) + 1
      BY <1>1, <1>2
    <3> QED BY <1>1, <1>2, <3>1
  <2>2. /\ session = None /\ ~discovering
        /\ \A j \in (i + 1) .. Len(modal) : modal[j].kind # "ask"
    BY <2>1 DEF BoxInv
  <2>3. ASSUME NEW j \in (i + 1) .. Len(modal') PROVE modal'[j].kind # "ask"
    <3>1. CASE j = Len(modal) + 1
      BY <1>1, <3>1
    <3>2. CASE j # Len(modal) + 1
      <4>1. j \in (i + 1) .. Len(modal) /\ j \in 1 .. Len(modal)
        BY <1>1, <3>2, <2>1
      <4> QED BY <1>1, <2>2, <4>1
    <3> QED BY <3>1, <3>2
  <2> QED BY <2>2, <2>3
<1> QED BY <1>2 DEF BoxInv

\* Over no box at all, any user's box will do.
LEMMA FirstBoxKept ==
  ASSUME modal = <<>>, NEW b \in BoxType, b.for = "user", modal' = Append(modal, b)
  PROVE  BoxInv'
<1>1. Len(modal') = 1 /\ modal'[1] = b
  BY Pushed DEF TypeOK
<1> QED BY <1>1 DEF BoxInv

\* A window without boxes satisfies BoxInv.
LEMMA NoBoxes == ASSUME modal' = <<>> PROVE BoxInv' /\ RefusedInv'
BY DEF BoxInv, RefusedInv

\* A question that a discovery left open stays innermost among the questions.
LEMMA BoxInvStep ==
  ASSUME TypeOK, WindowInv, BoxInv, [Next]_vars
  PROVE  BoxInv'
<1>u. ASSUME UNCHANGED <<session, modal, discovering>> PROVE BoxInv'
  BY <1>u DEF BoxInv
<1>1. CASE OpenSource
  <2>1. modal = <<>>
    BY <1>1 DEF OpenSource, Ready
  <2>2. PICK s \in Sources : LoadDevice(s, "user")
    BY <1>1 DEF OpenSource
  <2>3. CASE UNCHANGED modal
    BY <2>1, <2>3, NoBoxes
  <2>4. CASE modal' = Append(modal, AskToOpen(s, "user"))
    <3>1. AskToOpen(s, "user") \in BoxType /\ AskToOpen(s, "user").for = "user"
      BY BoxesTyped DEF AskToOpen
    <3> QED BY <2>1, <2>4, <3>1, FirstBoxKept
  <2> QED BY <2>2, <2>3, <2>4 DEF LoadDevice
<1>2. CASE AnswerYes
  <2>1. /\ Len(modal') = Len(modal) - 1 /\ Len(modal) \in Nat \ {0}
        /\ \A i \in 1 .. Len(modal) - 1 : modal'[i] = modal[i]
    BY <1>2, Popped DEF TypeOK, AnswerYes, Shows
  <2>2. modal[Len(modal)].kind = "ask"
    BY <1>2 DEF AnswerYes, Shows, Box
  <2>3. ASSUME NEW i \in 1 .. Len(modal') PROVE modal'[i].for # "discovery"
    <3>1. i \in 1 .. Len(modal) /\ Len(modal) \in (i + 1) .. Len(modal)
      BY <2>1
    <3>2. modal[i].for # "discovery"
      BY <2>2, <3>1 DEF BoxInv
    <3> QED BY <2>1, <3>2
  <2> QED BY <2>3 DEF BoxInv
<1>3. CASE AnswerNo
  BY <1>3, PopKeepsBoxes DEF AnswerNo, Shows, sourceVars
<1>4. CASE Rescan
  BY <1>4, NoBoxes DEF Rescan, Ready, windowVars
<1>5. CASE MountReadOnly
  BY <1>5, <1>u DEF MountReadOnly, sourceVars
<1>6. CASE Unmount
  BY <1>6, <1>u DEF Unmount, sourceVars
<1>7. CASE RefusalRead
  BY <1>7, PopKeepsBoxes DEF RefusalRead, Shows, sourceVars
<1>8. CASE ReasonRead
  BY <1>8, PopKeepsBoxes DEF ReasonRead, Shows, sourceVars
<1>9. CASE Destroy
  BY <1>9, NoBoxes DEF Destroy, Ready
<1>10. CASE StartMount
  <2>1. modal = <<>>
    BY <1>10 DEF WindowInv, StartMount
  <2>2. CASE UNCHANGED modal
    BY <2>1, <2>2, NoBoxes
  <2>3. CASE modal' = Append(modal, RefusedBox)
    BY <2>1, <2>3, FirstBoxKept, BoxesTyped DEF RefusedBox
  <2> QED BY <1>10, <2>2, <2>3 DEF StartMount
<1>11. CASE RefreshMenu
  BY <1>11, <1>u DEF RefreshMenu, sourceVars
<1>12. CASE SendRequest
  BY <1>12, <1>u DEF SendRequest, sourceVars
<1>13. CASE FinishMountController
  BY <1>13, <1>u DEF FinishMountController, sourceVars
<1>14. CASE WindowClosed
  BY <1>14, <1>u DEF WindowClosed, sourceVars
<1>15. CASE PollMount
  <2>1. CASE UNCHANGED modal
    BY <1>15, <2>1, <1>u DEF PollMount, sourceVars
  <2>2. CASE modal' = Append(modal, StoppedBox)
    <3>1. StoppedBox \in BoxType /\ StoppedBox.kind # "ask" /\ StoppedBox.for = "user"
      BY BoxesTyped DEF StoppedBox
    <3> QED BY <1>15, <2>2, <3>1, NoticeKeepsBoxes DEF PollMount, sourceVars
  <2> QED BY <1>15, <2>1, <2>2 DEF PollMount
<1>16. CASE DiscoveryComplete
  <2>1. \A i \in 1 .. Len(modal) : modal[i].for # "discovery"
    BY <1>16 DEF BoxInv, DiscoveryComplete
  <2>2. CASE UNCHANGED modal
    BY <2>1, <2>2 DEF BoxInv
  <2>3. ASSUME NEW d \in Drives, modal' = Append(modal, AskToOpen(d, "discovery")),
               session = None, UNCHANGED session
        PROVE  BoxInv'
    <3>1. AskToOpen(d, "discovery") \in BoxType
      BY BoxesTyped, DrivesAreSources
    <3>2. /\ Len(modal') = Len(modal) + 1 /\ Len(modal) \in Nat
          /\ \A i \in 1 .. Len(modal) : modal'[i] = modal[i]
      BY <2>3, <3>1, Pushed DEF TypeOK
    <3>3. ASSUME NEW i \in 1 .. Len(modal'), modal'[i].for = "discovery"
          PROVE  i = Len(modal')
      BY <2>1, <3>2, <3>3
    <3>4. session' = None /\ ~discovering'
      BY <1>16, <2>3 DEF DiscoveryComplete
    <3>5. \A i \in 1 .. Len(modal') : i = Len(modal') => (i + 1) .. Len(modal') = {}
      BY <3>2
    <3> QED BY <3>3, <3>4, <3>5 DEF BoxInv
  <2> QED BY <1>16, <2>2, <2>3 DEF DiscoveryComplete, LoadDevice, AutoOpen, sourceVars
<1>17. CASE ControllerStep
  BY <1>17, <1>u DEF ControllerStep, sourceVars, windowVars
<1>18. CASE UNCHANGED vars
  BY <1>18, <1>u DEF vars, sourceVars, windowVars
<1> QED BY StepCases, <1>1, <1>2, <1>3, <1>4, <1>5, <1>6, <1>7, <1>8, <1>9, <1>10, <1>11,
           <1>12, <1>13, <1>14, <1>15, <1>16, <1>17, <1>18

\* Taking the innermost box away keeps RefusedInv while no worker starts.
LEMMA PopKeepsRefused ==
  ASSUME TypeOK, RefusedInv, modal # <<>>, modal' = Pop(modal), UNCHANGED worker
  PROVE  RefusedInv'
<1>1. /\ Len(modal') = Len(modal) - 1 /\ Len(modal) \in Nat
      /\ \A i \in 1 .. Len(modal) - 1 : modal'[i] = modal[i]
  BY Popped DEF TypeOK
<1> QED BY <1>1 DEF RefusedInv

\* So does any box put on top that is not itself a refusal.
LEMMA PushKeepsRefused ==
  ASSUME TypeOK, RefusedInv, NEW b \in BoxType, b.kind # "refused",
         modal' = Append(modal, b), UNCHANGED worker
  PROVE  RefusedInv'
<1>1. /\ Len(modal') = Len(modal) + 1 /\ Len(modal) \in Nat
      /\ modal'[Len(modal) + 1] = b
      /\ \A i \in 1 .. Len(modal) : modal'[i] = modal[i]
  BY Pushed DEF TypeOK
<1>2. ASSUME NEW i \in 1 .. Len(modal'), modal'[i].kind = "refused" PROVE worker' = "none"
  <2>1. i \in 1 .. Len(modal)
    <3>1. i # Len(modal) + 1
      BY <1>1, <1>2
    <3> QED BY <1>1, <3>1
  <2> QED BY <1>1, <1>2, <2>1 DEF RefusedInv
<1> QED BY <1>2 DEF RefusedInv

\* No worker exists behind the box of a refused start.
LEMMA RefusedInvStep ==
  ASSUME TypeOK, WorkerInv, WindowInv, RefusedInv, [Next]_vars
  PROVE  RefusedInv'
<1>u. ASSUME UNCHANGED modal, worker' \in {worker, "none"} PROVE RefusedInv'
  BY <1>u DEF RefusedInv
<1>a. \A s \in Sources, by \in {"user", "discovery"} :
        AskToOpen(s, by) \in BoxType /\ AskToOpen(s, by).kind # "refused"
  BY BoxesTyped DEF AskToOpen
<1>1. CASE OpenSource
  BY <1>1, <1>a, <1>u, PushKeepsRefused DEF OpenSource, LoadDevice, controllerVars, mainVars
<1>2. CASE AnswerYes
  BY <1>2, PopKeepsRefused DEF AnswerYes, Shows, controllerVars, mainVars
<1>3. CASE AnswerNo
  BY <1>3, PopKeepsRefused DEF AnswerNo, Shows, controllerVars, mainVars
<1>4. CASE Rescan
  BY <1>4, <1>u DEF Rescan, controllerVars, mainVars, windowVars
<1>5. CASE MountReadOnly
  BY <1>5, <1>u DEF MountReadOnly, controllerVars, mainVars
<1>6. CASE Unmount
  BY <1>6, <1>u DEF Unmount, controllerVars, mainVars
<1>7. CASE RefusalRead
  BY <1>7, PopKeepsRefused DEF RefusalRead, Shows, controllerVars, mainVars
<1>8. CASE ReasonRead
  BY <1>8, PopKeepsRefused DEF ReasonRead, Shows, controllerVars, mainVars
<1>9. CASE Destroy
  BY <1>9, NoBoxes DEF Destroy, Ready
<1>10. CASE StartMount
  <2>1. modal = <<>>
    BY <1>10 DEF WindowInv, StartMount
  <2>2. CASE UNCHANGED modal
    BY <2>1, <2>2, NoBoxes
  <2>3. CASE StartRefused
    BY <2>3 DEF RefusedInv, StartRefused
  <2> QED BY <1>10, <2>2, <2>3 DEF StartMount
<1>11. CASE RefreshMenu
  BY <1>11, <1>u DEF RefreshMenu, controllerVars, mainVars
<1>12. CASE SendRequest
  BY <1>12, <1>u DEF SendRequest, controllerVars, mainVars, RequestUnmount
<1>13. CASE FinishMountController
  BY <1>13, <1>u DEF FinishMountController, controllerVars, mainVars, Joined
<1>14. CASE WindowClosed
  BY <1>14, <1>u DEF WindowClosed, controllerVars, mainVars, Joined
<1>15. CASE PollMount
  <2>1. CASE UNCHANGED modal
    BY <1>15, <2>1, <1>u DEF PollMount, controllerVars, mainVars
  <2>2. CASE modal' = Append(modal, StoppedBox)
    BY <1>15, <2>2, BoxesTyped, PushKeepsRefused DEF PollMount, StoppedBox, controllerVars, mainVars
  <2> QED BY <1>15, <2>1, <2>2 DEF PollMount
<1>16. CASE DiscoveryComplete
  BY <1>16, <1>a, <1>u, DrivesAreSources, PushKeepsRefused
     DEF DiscoveryComplete, LoadDevice, sourceVars, controllerVars, mainVars
<1>17. CASE ControllerStep
  <2>1. CASE modal = <<>>
    BY <1>17, <2>1, NoBoxes DEF ControllerStep, windowVars
  <2>2. CASE worker = "none"
    BY <1>17, <2>2 DEF ControllerStep, Worker, Dokan, ClearMounted, ClearRunning, EndRun,
       DokanRefuses, DokanRegisters, MountedCallback, UnmountedCallback, MainReturns,
       RemovedFromOutside, Registered
  <2>3. CASE modal # <<>> /\ worker # "none"
    BY <1>17, <2>3 DEF RefusedInv, ControllerStep, windowVars
  <2> QED BY <2>1, <2>2, <2>3
<1>18. CASE UNCHANGED vars
  BY <1>18, <1>u DEF vars, windowVars, controllerVars, mainVars
<1> QED BY StepCases, <1>1, <1>2, <1>3, <1>4, <1>5, <1>6, <1>7, <1>8, <1>9, <1>10, <1>11,
           <1>12, <1>13, <1>14, <1>15, <1>16, <1>17, <1>18

\* Every variable keeps its type.
LEMMA TypeStep ==
  ASSUME TypeOK, SourceInv, WindowInv, [Next]_vars
  PROVE  TypeOK'
<1>a. \A s \in Sources, by \in {"user", "discovery"} :
        Append(modal, AskToOpen(s, by)) \in Seq(BoxType)
  BY BoxesTyped, Pushed DEF TypeOK
<1>b. /\ Append(modal, StoppedBox) \in Seq(BoxType)
      /\ Append(modal, RefusedBox) \in Seq(BoxType)
  BY BoxesTyped, Pushed DEF TypeOK
<1>p. modal # <<>> => Pop(modal) \in Seq(BoxType)
  BY Popped DEF TypeOK
<1>s. session # None => Reopened \in Sources
  BY DEF SourceInv, TypeOK
<1>1. CASE OpenSource
  BY <1>1, <1>a, DrivesAreSources
     DEF TypeOK, ControllerTypeOK, WorkerStates, Serving, Commands,
         GuiStates, vars, controllerVars, mainVars, sourceVars, windowVars,
         OpenSource, LoadDevice, Adopt, MenuWhen
<1>2. CASE AnswerYes
  BY <1>2, <1>p, AsksAboutSources, DrivesAreSources
     DEF TypeOK, ControllerTypeOK, WorkerStates, Serving, Commands,
         GuiStates, vars, controllerVars, mainVars, sourceVars, windowVars,
         AnswerYes, Shows, Adopt, MenuWhen
<1>3. CASE AnswerNo
  BY <1>3, <1>p
     DEF TypeOK, ControllerTypeOK, WorkerStates, Serving, Commands,
         GuiStates, vars, controllerVars, mainVars, sourceVars, windowVars,
         AnswerNo, Shows
<1>4. CASE Rescan
  BY <1>4
     DEF TypeOK, ControllerTypeOK, WorkerStates, Serving, Commands,
         GuiStates, vars, controllerVars, mainVars, sourceVars, windowVars,
         Rescan
<1>5. CASE MountReadOnly
  BY <1>5
     DEF TypeOK, ControllerTypeOK, WorkerStates, Serving, Commands,
         GuiStates, vars, controllerVars, mainVars, sourceVars, windowVars,
         MountReadOnly
<1>6. CASE Unmount
  BY <1>6
     DEF TypeOK, ControllerTypeOK, WorkerStates, Serving, Commands,
         GuiStates, vars, controllerVars, mainVars, sourceVars, windowVars,
         Unmount
<1>7. CASE RefusalRead
  BY <1>7, <1>p
     DEF TypeOK, ControllerTypeOK, WorkerStates, Serving, Commands,
         GuiStates, vars, controllerVars, mainVars, sourceVars, windowVars,
         RefusalRead, Shows
<1>8. CASE ReasonRead
  BY <1>8, <1>p
     DEF TypeOK, ControllerTypeOK, WorkerStates, Serving, Commands,
         GuiStates, vars, controllerVars, mainVars, sourceVars, windowVars,
         ReasonRead, Shows
<1>9. CASE Destroy
  BY <1>9
     DEF TypeOK, ControllerTypeOK, WorkerStates, Serving, Commands,
         GuiStates, vars, controllerVars, mainVars, sourceVars, windowVars,
         Destroy, RequestUnmount
<1>10. CASE StartMount
  BY <1>10, <1>b, <1>s
     DEF TypeOK, ControllerTypeOK, WorkerStates, Serving, Commands,
         GuiStates, vars, controllerVars, mainVars, sourceVars, windowVars,
         StartMount, Started, StartRefused, WindowInv
<1>11. CASE RefreshMenu
  BY <1>11
     DEF TypeOK, ControllerTypeOK, WorkerStates, Serving, Commands,
         GuiStates, vars, controllerVars, mainVars, sourceVars, windowVars,
         RefreshMenu, MenuWhen
<1>12. CASE SendRequest
  BY <1>12
     DEF TypeOK, ControllerTypeOK, WorkerStates, Serving, Commands,
         GuiStates, vars, controllerVars, mainVars, sourceVars, windowVars,
         SendRequest, RequestUnmount
<1>13. CASE FinishMountController
  BY <1>13
     DEF TypeOK, ControllerTypeOK, WorkerStates, Serving, Commands,
         GuiStates, vars, controllerVars, mainVars, sourceVars, windowVars,
         FinishMountController, Joined, MenuWhen
<1>14. CASE WindowClosed
  BY <1>14
     DEF TypeOK, ControllerTypeOK, WorkerStates, Serving, Commands,
         GuiStates, vars, controllerVars, mainVars, sourceVars, windowVars,
         WindowClosed, Joined
<1>15. CASE PollMount
  BY <1>15, <1>b
     DEF TypeOK, ControllerTypeOK, WorkerStates, Serving, Commands,
         GuiStates, vars, controllerVars, mainVars, sourceVars, windowVars,
         PollMount
<1>16. CASE DiscoveryComplete
  BY <1>16, <1>a, DrivesAreSources
     DEF TypeOK, ControllerTypeOK, WorkerStates, Serving, Commands,
         GuiStates, vars, controllerVars, mainVars, sourceVars, windowVars,
         DiscoveryComplete, LoadDevice, Adopt, MenuWhen
<1>17. CASE ControllerStep
  BY <1>17
     DEF TypeOK, ControllerTypeOK, WorkerStates, Serving, Commands,
         GuiStates, vars, controllerVars, mainVars, sourceVars, windowVars,
         ControllerStep, Worker, Dokan, ClearMounted, ClearRunning, EndRun,
         DokanRefuses, DokanRegisters, MountedCallback, UnmountedCallback,
         MainReturns, RemovedFromOutside
<1>18. CASE UNCHANGED vars
  BY <1>18
     DEF TypeOK, ControllerTypeOK, WorkerStates, Serving, Commands,
         GuiStates, vars, controllerVars, mainVars, sourceVars, windowVars
<1> QED BY StepCases, <1>1, <1>2, <1>3, <1>4, <1>5, <1>6, <1>7, <1>8, <1>9, <1>10, <1>11,
           <1>12, <1>13, <1>14, <1>15, <1>16, <1>17, <1>18

(***************************************************************************)
(* Theorems.                                                               *)
(***************************************************************************)

\* The window that has just come up satisfies the invariant.
LEMMA InitInv == ASSUME Init PROVE IInv
<1>1. TypeOK
  <2>1. modal \in Seq(BoxType)
    BY EmptySeq DEF Init
  <2> QED BY <2>1 DEF Init, ControllerInit, TypeOK, ControllerTypeOK, WorkerStates, Commands, GuiStates
<1>2. WorkerInv /\ WindowInv /\ SourceInv /\ MenuInv
  BY DEF Init, ControllerInit, Serving, WorkerInv, WindowInv, SourceInv, MenuInv, Reopened,
     MountServesOpenSource
<1>3. BoxInv /\ RefusedInv
  BY DEF Init, BoxInv, RefusedInv
<1> QED BY <1>1, <1>2, <1>3 DEF IInv

\* Whatever the user, the timer, the worker and Dokan do, and in whatever
\* order, the invariant holds.
THEOREM Invariance == Spec => []IInv
<1>1. Init => IInv
  BY InitInv
<1>2. IInv /\ [Next]_vars => IInv'
  BY TypeStep, WorkerInvStep, WindowInvStep, SourceInvStep, MenuInvStep, BoxInvStep, RefusedInvStep
     DEF IInv
<1> QED BY <1>1, <1>2, PTL DEF Spec

\* Type correctness.
THEOREM TypeCorrect == Spec => []TypeOK
BY Invariance, PTL DEF IInv

\* No callback of Dokan finds the runtime gone, and no worker outlives its
\* controller, not even when the window is closed during a mount.
THEOREM RuntimeSafe == Spec => []RuntimeOutlivesDokan
<1>1. IInv => RuntimeOutlivesDokan
  BY NoneIsNoSource
     DEF IInv, RuntimeOutlivesDokan, WorkerInv, SourceInv, MountServesOpenSource, TypeOK
<1> QED BY <1>1, Invariance, PTL

\* Explorer never shows another source than the window.
THEOREM ServesOpenSource == Spec => []MountServesOpenSource
BY Invariance, PTL DEF IInv, SourceInv

\* The menu never leaves the user without a way on.
THEOREM WayOn == Spec => []MenuOffersAWayOn
<1>1. IInv => MenuOffersAWayOn
  BY DEF IInv, MenuOffersAWayOn, WorkerInv, WindowInv, MenuInv, Ready, Pumping
<1> QED BY <1>1, Invariance, PTL

\* A discovery never takes an open source away.
THEOREM OpenSourceKept == Spec => DiscoveryNeverReplaces
<1>1. ASSUME IInv, DiscoveryComplete PROVE session \in {None, session'}
  BY <1>1 DEF DiscoveryComplete, AutoOpen, sourceVars
<1>2. ASSUME IInv, Shows("ask"), Box(modal).for = "discovery"
      PROVE  session = None
  <2>1. Len(modal) \in 1 .. Len(modal)
    BY <1>2, Popped DEF IInv, TypeOK, Shows
  <2> QED BY <1>2, <2>1 DEF IInv, BoxInv, Box
<1>3. IInv => (DiscoveryComplete \/ (Shows("ask") /\ Box(modal).for = "discovery" /\ AnswerYes)
                 => session \in {None, session'})
  BY <1>1, <1>2
<1> QED BY <1>3, Invariance, PTL DEF DiscoveryNeverReplaces
=============================================================================
