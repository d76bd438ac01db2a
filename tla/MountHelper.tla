----------------------------- MODULE MountHelper -----------------------------
(***************************************************************************)
(* PS2-DriveForge-Mount.exe: the process that mounts one source at one     *)
(* drive letter and stays until the volume goes.  Its main thread starts   *)
(* the controller, watches it for a while and joins it; a second thread,   *)
(* the system's, runs the console handler when Ctrl+C is pressed or the    *)
(* session ends.  `--unmount` runs the same program as another process.    *)
(*                                                                         *)
(* The drive letters are shared with the rest of the system.               *)
(***************************************************************************)
EXTENDS DokanyController, FiniteSets, FiniteSetsExt

CONSTANTS
  Letters,      \* "C:" is the least of them
  MaxProcesses  \* bound: helpers started to mount

ASSUME LetterFacts == Letters \subseteq Nat /\ None \notin Letters /\ MaxProcesses \in Nat

VARIABLES
  drives,     \* who has a letter: nobody, the volume of the helper, another
  helper,     \* the main thread of the helper, "exited" until its handle is closed
  point,      \* --mount
  handler,    \* the thread of console_handler()
  removers,   \* the letters of the `--unmount` processes that run
  started     \* helpers started so far

helperVars == <<helper, point, handler>>
systemVars == <<drives, removers, started>>
allHelperVars == <<controllerVars, helperVars, systemVars>>

\* The helper's main thread once start() has been called and it has a handler.
Hooked == {"polling", "joining"}
Alive == {"opening", "starting"} \cup Hooked \cup {"leaving"}

HelperTypeOK ==
  /\ ControllerTypeOK
  /\ drives \in [Letters -> {"free", "ours", "other"}]
  /\ helper \in Alive \cup {"none", "exited"}
  /\ point \in Letters \cup {None}
  /\ handler \in {"none", "entered", "running", "using"}
  /\ removers \subseteq Letters
  /\ started \in 0 .. MaxProcesses

HelperInit ==
  /\ ControllerInit
  /\ drives \in [Letters -> {"free", "other"}]
  /\ helper = "none" /\ point = None /\ handler = "none"
  /\ removers = {} /\ started = 0

\* darkness_policy::choose_mount_letter(GetLogicalDrives())
Unused == { l \in Letters : drives[l] = "free" }
\* Bug variant: the drive bits are counted from B:.
LetterBefore == Min(Unused) - 1
LetterChosen == Min(Unused)

(***************************************************************************)
(* The main thread.                                                        *)
(***************************************************************************)
\* ShellExecuteExW() has made the process.
Launched(letter) ==
  /\ helper \in {"none", "exited"} /\ started < MaxProcesses
  /\ helper' = "opening" /\ point' = letter /\ handler' = "none"
  /\ started' = started + 1
  /\ UNCHANGED <<controllerVars, drives, removers>>

\* The process is gone, and every thread of it.
Exit ==
  /\ helper' = "exited" /\ handler' = "none"
  /\ UNCHANGED <<point, removers, started>>

\* The source cannot be opened (raw access, sharing).
SourceRefused ==
  /\ helper = "opening"
  /\ Exit
  /\ UNCHANGED <<controllerVars, drives>>

SourceOpened ==
  /\ helper = "opening"
  /\ helper' = "starting"
  /\ UNCHANGED <<controllerVars, point, handler, systemVars>>

StartFails ==
  /\ helper = "starting"
  /\ StartRefused
  /\ Exit
  /\ UNCHANGED drives

\* start(), and then g_controller and SetConsoleCtrlHandler().
StartSucceeds ==
  /\ helper = "starting"
  /\ \E s \in Sources : Started(s)
  /\ helper' = "polling"
  /\ UNCHANGED <<point, handler, systemVars>>

\* Bug variant: the loop waits for the mount and nothing else.
PollingMounted ==
  /\ helper = "polling" /\ mounted
  /\ helper' = "joining"
  /\ UNCHANGED <<controllerVars, point, handler, systemVars>>

\* Mounted, failed, or five seconds have passed.
PollingOver ==
  /\ helper = "polling"
  /\ helper' = "joining"
  /\ UNCHANGED <<controllerVars, point, handler, systemVars>>

WaitReturns ==
  /\ helper = "joining"
  /\ Joined
  /\ helper' = "leaving"
  /\ UNCHANGED <<point, handler, systemVars>>

\* The handler is taken off; the exit code tells the window's wording.
Returns ==
  /\ helper = "leaving"
  /\ Exit
  /\ UNCHANGED <<controllerVars, drives>>

Main == SourceRefused \/ SourceOpened \/ StartFails \/ StartSucceeds
          \/ PollingOver \/ WaitReturns \/ Returns

\* Ctrl+C before there is a handler, the task manager, or the end of the
\* session: no destructor runs.
Killed ==
  /\ helper \in Alive
  /\ runtime' = None /\ worker' = "none" /\ running' = FALSE /\ mounted' = FALSE
  /\ UNCHANGED <<error, failed, announced, removed, drives>>
  /\ Exit

(***************************************************************************)
(* console_handler(): three reads of what the main thread may drop.        *)
(***************************************************************************)
Interrupt ==
  /\ helper \in Hooked /\ handler = "none"
  /\ handler' = "entered"
  /\ UNCHANGED <<controllerVars, helper, point, systemVars>>

HandlerLooks ==
  /\ \/ handler = "entered" /\ handler' = IF running THEN "running" ELSE "none"
     \/ handler = "running" /\ handler' = IF runtime # None THEN "using" ELSE "none"
  /\ UNCHANGED <<controllerVars, helper, point, systemVars>>

\* The mount point is read from the runtime; one that is gone is undefined
\* behaviour, which at best names no mount point and at worst ends the process.
HandlerRequests ==
  /\ handler = "using"
  /\ \/ runtime # None /\ RequestUnmount
     \/ runtime = None /\ UNCHANGED controllerVars
  /\ handler' = "none"
  /\ UNCHANGED <<helper, point, systemVars>>

HandlerCrashes ==
  /\ handler = "using" /\ runtime = None
  /\ Exit
  /\ UNCHANGED <<controllerVars, drives>>

Console == HandlerLooks \/ HandlerRequests \/ HandlerCrashes

(***************************************************************************)
(* Dokan, with the letters, and the `--unmount` processes.                 *)
(***************************************************************************)
\* The mount manager gives a letter to one volume only.
Registers ==
  /\ DokanRegisters
  /\ drives[point] = "free"
  /\ drives' = [drives EXCEPT ![point] = "ours"]
  /\ UNCHANGED <<helperVars, removers, started>>

Unregisters ==
  /\ UnmountedCallback
  /\ drives' = [drives EXCEPT ![point] = "free"]
  /\ UNCHANGED <<helperVars, removers, started>>

DokanSteps ==
  \/ Registers \/ Unregisters
  \/ (DokanRefuses \/ MountedCallback \/ MainReturns \/ Worker)
       /\ UNCHANGED <<helperVars, systemVars>>

\* The driver removes the volume of a process that has been killed.
Orphaned(letter) == drives[letter] = "ours" /\ ~(letter = point /\ Registered)
Reclaim ==
  /\ \E l \in Letters : Orphaned(l) /\ drives' = [drives EXCEPT ![l] = "free"]
  /\ UNCHANGED <<controllerVars, helperVars, removers, started>>

\* remove_dokany_mount_point(): of any volume of Dokan's, if there is one.
Remove(letter) ==
  /\ letter \in removers
  /\ removers' = removers \ {letter}
  /\ IF drives[letter] = "ours" /\ ~Orphaned(letter)
     THEN /\ RequestUnmount
          /\ UNCHANGED drives
     ELSE /\ \/ UNCHANGED drives
             \/ drives[letter] = "other" /\ drives' = [drives EXCEPT ![letter] = "free"]
          /\ UNCHANGED controllerVars
  /\ UNCHANGED <<helperVars, started>>

\* An eject in Explorer, or `--unmount` on a command line.
RemovedElsewhere ==
  /\ RemovedFromOutside
  /\ UNCHANGED <<helperVars, systemVars>>

\* Other volumes come and go.
OtherVolume ==
  /\ \E l \in Letters :
       \/ drives[l] = "free" /\ drives' = [drives EXCEPT ![l] = "other"]
       \/ drives[l] = "other" /\ drives' = [drives EXCEPT ![l] = "free"]
  /\ UNCHANGED <<controllerVars, helperVars, removers, started>>

Helper ==
  \/ Main \/ Killed \/ Interrupt \/ Console
  \/ DokanSteps \/ Reclaim \/ RemovedElsewhere
  \/ \E l \in Letters : Remove(l)
  \/ OtherVolume
=============================================================================
