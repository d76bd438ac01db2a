----------------------------- MODULE Win32Mount -----------------------------
(***************************************************************************)
(* The Win32 window as a client of DokanyMountController: which source is  *)
(* open, the read-only mount of it, the poll timer, and discovery.         *)
(*                                                                         *)
(* All of it runs on one thread, but a message box pumps messages: while   *)
(* one is up the timer and the discovery message are still dispatched, and *)
(* menu commands and WM_DESTROY are not, because its owner is disabled.    *)
(* modal is the stack of message boxes whose caller still has something to *)
(* do.  Boxes that only inform are left out.  A handler that joins the     *)
(* worker, or reads the controller twice, is as many actions as it has     *)
(* places where the worker can come in between; gui says which is next.    *)
(***************************************************************************)
EXTENDS DokanyController, Integers, Sequences

CONSTANT Drives   \* the sources discovery finds; the others are images
ASSUME DrivesAreSources == Drives \subseteq Sources

VARIABLES
  session,     \* the source App::session_ reads, None when it is null
  physical,    \* current_physical_
  image,       \* current_image_
  controller,  \* mount_controller_ is not null
  timer,       \* the mount timer is set
  menu,        \* which of the Mount and Unmount commands are enabled
  modal,       \* the open message boxes, innermost last
  gui,         \* what the thread is doing
  discovering  \* discovery_running_

sourceVars == <<session, physical, image>>
windowVars == <<controller, timer, menu, modal, gui>>
vars == <<controllerVars, sourceVars, windowVars, discovering>>

\* Message boxes: load_device asks whether to open a damaged source,
\* poll_mount reports why a mount stopped, mount_read_only why none started.
\* Bug variant: the box remembers a source that has been moved from.
AskAboutMoved(s, by) == [kind |-> "ask", source |-> None, for |-> by]

AskToOpen(s, by) == [kind |-> "ask", source |-> s, for |-> by]
StoppedBox       == [kind |-> "stopped", source |-> None, for |-> "user"]
RefusedBox       == [kind |-> "refused", source |-> None, for |-> "user"]
BoxType ==
  [kind : {"ask"}, source : Sources, for : {"user", "discovery"}]
    \cup [kind : {"stopped", "refused"}, source : {None}, for : {"user"}]

Box(m) == m[Len(m)]
Pop(m) == SubSeq(m, 1, Len(m) - 1)

Commands == {"mount", "unmount"}
GuiStates == {"pumping", "start", "request", "refresh", "finish", "close", "closed"}

Pumping == gui = "pumping"
Ready   == Pumping /\ modal = <<>>
Shows(kind) == Pumping /\ modal # <<>> /\ Box(modal).kind = kind

TypeOK ==
  /\ ControllerTypeOK
  /\ {session, physical, image} \subseteq Sources \cup {None}
  /\ {controller, timer, discovering} \subseteq BOOLEAN
  /\ menu \subseteq Commands
  /\ modal \in Seq(BoxType)
  /\ gui \in GuiStates

\* The window is up, nothing is open and the first discovery is running.
Init ==
  /\ ControllerInit
  /\ session = None /\ physical = None /\ image = None
  /\ controller = FALSE /\ timer = FALSE /\ menu = {}
  /\ modal = <<>> /\ gui = "pumping"
  /\ discovering = TRUE

\* update_action_menu() with a session open.
MenuWhen(isRunning) == IF isRunning THEN {"unmount"} ELSE {"mount"}

(***************************************************************************)
(* Opening a source.                                                       *)
(***************************************************************************)
\* Bug variant: opening an image does not reset the drive.
AdoptBesides(s) ==
  /\ session' = s
  /\ IF s \in Drives THEN physical' = s /\ image' = None
                     ELSE image' = s /\ UNCHANGED physical
  /\ menu' = MenuWhen(running)

Adopt(s) ==
  /\ session' = s
  /\ IF s \in Drives THEN physical' = s /\ image' = None
                     ELSE image' = s /\ physical' = None
  /\ menu' = MenuWhen(running)

\* load_device() after its scan: clean, or damaged enough to ask.  A source
\* without an APA MBR changes nothing.
LoadDevice(s, by) ==
  /\ ~running
  /\ \/ Adopt(s) /\ UNCHANGED modal
     \/ modal' = Append(modal, AskToOpen(s, by)) /\ UNCHANGED <<sourceVars, menu>>

OpenSource ==
  /\ Ready
  /\ \E s \in Sources : LoadDevice(s, "user")
  /\ UNCHANGED <<controllerVars, controller, timer, gui, discovering>>

AnswerYes ==
  /\ Shows("ask")
  /\ Adopt(Box(modal).source)
  /\ modal' = Pop(modal)
  /\ UNCHANGED <<controllerVars, controller, timer, gui, discovering>>

AnswerNo ==
  /\ Shows("ask")
  /\ modal' = Pop(modal)
  /\ UNCHANGED <<controllerVars, sourceVars, controller, timer, menu, gui, discovering>>

Rescan ==
  /\ Ready /\ ~discovering
  /\ discovering' = TRUE
  /\ UNCHANGED <<controllerVars, sourceVars, windowVars>>

\* discovery_complete(): one drive and no session opens the drive.
AutoOpen == session = None
DiscoveryComplete ==
  /\ Pumping /\ discovering
  /\ discovering' = FALSE
  /\ \/ AutoOpen /\ \E d \in Drives : LoadDevice(d, "discovery")
     \/ UNCHANGED <<sourceVars, menu, modal>>
  /\ UNCHANGED <<controllerVars, controller, timer, gui>>

(***************************************************************************)
(* Mounting.  mount_read_only() opens the source a second time, replaces   *)
(* the controller, which joins the worker of an old one, and starts.       *)
(***************************************************************************)
MountReadOnly ==
  /\ Ready /\ "mount" \in menu
  /\ session # None /\ ~running
  /\ gui' = "start"
  /\ UNCHANGED <<controllerVars, sourceVars, controller, timer, menu, modal, discovering>>

Reopened == IF physical # None THEN physical ELSE image

StartMount ==
  /\ gui = "start" /\ Joinable
  /\ controller' = TRUE
  /\ \/ Started(Reopened) /\ timer' = TRUE /\ gui' = "refresh" /\ UNCHANGED modal
     \/ StartRefused /\ modal' = Append(modal, RefusedBox)
        /\ gui' = "pumping" /\ UNCHANGED timer
  /\ UNCHANGED <<sourceVars, menu, discovering>>

RefusalRead ==
  /\ Shows("refused")
  /\ modal' = Pop(modal) /\ controller' = FALSE
  /\ UNCHANGED <<controllerVars, sourceVars, timer, menu, gui, discovering>>

RefreshMenu ==
  /\ gui = "refresh"
  /\ menu' = MenuWhen(running) /\ gui' = "pumping"
  /\ UNCHANGED <<controllerVars, sourceVars, controller, timer, modal, discovering>>

(***************************************************************************)
(* Unmounting and polling.                                                 *)
(***************************************************************************)
Unmount ==
  /\ Ready /\ "unmount" \in menu /\ controller
  /\ gui' = IF running THEN "request" ELSE "finish"
  /\ UNCHANGED <<controllerVars, sourceVars, controller, timer, menu, modal, discovering>>

SendRequest ==
  /\ gui = "request"
  /\ RequestUnmount
  /\ IF UnmountAccepted THEN timer' = TRUE /\ gui' = "refresh"
                        ELSE gui' = "pumping" /\ UNCHANGED timer
  /\ UNCHANGED <<sourceVars, controller, menu, modal, discovering>>

\* What poll_mount() finds when it has something to do.
PollMount ==
  /\ Pumping /\ timer
  /\ timer' = FALSE
  /\ \/ ~controller /\ UNCHANGED <<modal, gui>>
     \/ controller /\ mounted /\ gui' = "refresh" /\ UNCHANGED modal
     \/ controller /\ ~mounted /\ ~running /\ error
        /\ modal' = Append(modal, StoppedBox) /\ UNCHANGED gui
     \/ controller /\ ~mounted /\ ~running /\ ~error
        /\ gui' = "finish" /\ UNCHANGED modal
  /\ UNCHANGED <<controllerVars, sourceVars, controller, menu, discovering>>

ReasonRead ==
  /\ Shows("stopped")
  /\ modal' = Pop(modal) /\ gui' = "finish"
  /\ UNCHANGED <<controllerVars, sourceVars, controller, timer, menu, discovering>>

\* Bug variant: without update_action_menu().
FinishQuietly ==
  /\ gui = "finish" /\ Joined
  /\ controller' = FALSE
  /\ gui' = "pumping"
  /\ UNCHANGED <<sourceVars, timer, menu, modal, discovering>>

\* finish_mount_controller()
FinishMountController ==
  /\ gui = "finish" /\ Joined
  /\ controller' = FALSE
  /\ menu' = IF session # None THEN MenuWhen(FALSE) ELSE {}
  /\ gui' = "pumping"
  /\ UNCHANGED <<sourceVars, timer, modal, discovering>>

(***************************************************************************)
(* WM_DESTROY: the timer is killed, ~App asks for the unmount, whatever    *)
(* the answer, and joins the worker.                                       *)
(***************************************************************************)
Destroy ==
  /\ Ready
  /\ timer' = FALSE /\ gui' = "close" /\ discovering' = FALSE
  /\ RequestUnmount
  /\ UNCHANGED <<sourceVars, controller, menu, modal>>

WindowClosed ==
  /\ gui = "close" /\ Joined
  /\ controller' = FALSE /\ gui' = "closed"
  /\ UNCHANGED <<sourceVars, timer, menu, modal, discovering>>

\* The process has exited.
Exited == gui = "closed" /\ UNCHANGED vars

UserStep ==
  OpenSource \/ AnswerYes \/ AnswerNo \/ Rescan \/ MountReadOnly \/ Unmount
    \/ RefusalRead \/ ReasonRead \/ Destroy

\* What the window's thread does without being asked.
WindowStep ==
  StartMount \/ RefreshMenu \/ SendRequest \/ FinishMountController \/ WindowClosed

MountStep == (Worker \/ Dokan) /\ UNCHANGED <<sourceVars, windowVars, discovering>>
OutsideStep == RemovedFromOutside /\ UNCHANGED <<sourceVars, windowVars, discovering>>

Next ==
  \/ UserStep \/ WindowStep \/ PollMount \/ DiscoveryComplete
  \/ MountStep \/ OutsideStep \/ Exited

Spec == Init /\ [][Next]_vars

\* Neither the window's thread, the worker nor Dokan stops between two steps,
\* and a user at the menu is not for ever faster than a 100 ms timer, so a
\* timer that keeps having something to do is dispatched.  Nobody has to
\* touch the window.
FairSpec ==
  /\ Spec
  /\ WF_vars(WindowStep) /\ SF_vars(PollMount) /\ WF_vars(MountStep)

-----------------------------------------------------------------------------
(***************************************************************************)
(* Properties.                                                             *)
(***************************************************************************)

\* Dokan's callbacks dereference the runtime from any thread for as long as
\* run() is inside DokanMain, and run() uses the controller until it ends:
\* nothing the window does takes either away before that.
RuntimeOutlivesDokan ==
  /\ worker \in Serving => runtime # None
  /\ worker # "none" => controller

\* While a mount runs, what Explorer shows is the source the window shows.
\* The mount opens the source a second time from current_physical_ or
\* current_image_, and load_device looks at the mount once, before its box.
MountServesOpenSource ==
  running => session # None /\ runtime = session

\* The menu is refreshed only at certain moments, so it can be stale, but it
\* never leaves the user without a way on: a running mount can be unmounted,
\* a window without a controller can mount, and a controller whose mount has
\* stopped is collected by either command.
MenuOffersAWayOn ==
  Ready /\ session # None =>
    /\ running => "unmount" \in menu
    /\ ~controller => "mount" \in menu
    /\ controller /\ ~running => menu # {}

\* A discovery, whether it opens the drive at once or asks first, never
\* replaces a source that is open.  The drive is chosen when the discovery
\* ends and adopted when its box is answered, and the box may lie over one
\* in which the user is opening something else.
DiscoveryNeverReplaces ==
  [][DiscoveryComplete \/ (Shows("ask") /\ Box(modal).for = "discovery" /\ AnswerYes)
       => session \in {None, session'}]_vars

\* The window does not poll for ever: every mount that was started, and
\* every unmount that was accepted, ends the polling.
PollingEnds == timer ~> ~timer

\* dokany_mount.hpp: the destructors "may safely ignore" whether Dokan took
\* the unmount, so closing the window ends.
ClosingEnds == gui = "close" ~> gui = "closed"
=============================================================================
