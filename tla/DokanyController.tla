-------------------------- MODULE DokanyController --------------------------
(***************************************************************************)
(* DokanyMountController: the worker thread that sits in DokanMain while a *)
(* volume is mounted, the atomics it leaves behind for the frontend, and   *)
(* the runtime (source, session, view) its callbacks read.                 *)
(*                                                                         *)
(* Dokan itself is external.  It either refuses the mount or registers the *)
(* mount point some time after start() has returned; it accepts a removal, *)
(* from this process or another, only of a registered point; it calls      *)
(* Mounted on DokanMain's thread and Unmounted on an event thread, before  *)
(* DokanMain returns.  A frontend extends this module with the thread that *)
(* calls start, request_unmount and wait.                                  *)
(***************************************************************************)
CONSTANTS
  Sources,  \* what can be opened: disk images and physical drives
  None      \* no source

ASSUME NoneIsNoSource == None \notin Sources

VARIABLES
  runtime,   \* the source inside MountRuntime, None when there is none
  worker,    \* where run() is; "none" when the thread is not joinable
  running,   \* Impl::running
  mounted,   \* Impl::mounted
  error,     \* Impl::error is not empty
  failed,    \* what DokanMain returned was not DOKAN_SUCCESS
  announced, \* Dokan has called Mounted
  removed    \* Dokan has accepted the removal of the mount point

mainVars == <<worker, failed, announced, removed>>
controllerVars == <<runtime, running, mounted, error, mainVars>>

Serving == {"mounting", "serving", "leaving"}            \* inside DokanMain
WorkerStates == Serving \cup {"none", "returned", "cleared", "stopped", "ended"}

ControllerTypeOK ==
  /\ runtime \in Sources \cup {None}
  /\ worker \in WorkerStates
  /\ {running, mounted, error, failed, announced, removed} \subseteq BOOLEAN

ControllerInit ==
  /\ runtime = None /\ worker = "none"
  /\ running = FALSE /\ mounted = FALSE /\ error = FALSE
  /\ failed = FALSE /\ announced = FALSE /\ removed = FALSE

(***************************************************************************)
(* What the frontend calls.  start() succeeds once the scan of the source  *)
(* has found an APA MBR.                                                   *)
(***************************************************************************)
Started(source) ==
  /\ runtime' = source
  /\ worker' = "mounting" /\ running' = TRUE /\ mounted' = FALSE
  /\ error' = FALSE /\ failed' = FALSE /\ announced' = FALSE /\ removed' = FALSE

\* The scan failed: the runtime is gone again and only the error stays.
StartRefused ==
  /\ runtime' = None /\ worker' = "none" /\ running' = FALSE /\ mounted' = FALSE
  /\ error' = TRUE /\ failed' = FALSE /\ announced' = FALSE /\ removed' = FALSE

\* DokanRemoveMountPoint knows the mount point.
Registered == worker = "serving"

\* request_unmount() returns true.
UnmountAccepted == ~running \/ runtime = None \/ Registered

RequestUnmount ==
  /\ removed' = (removed \/ (running /\ runtime # None /\ Registered))
  /\ UNCHANGED <<runtime, running, mounted, error, worker, failed, announced>>

\* wait() has joined the worker.  The frontend drops the controller after it.
Joinable == worker \in {"none", "ended"}
\* Bug variant: wait() drops the runtime without joining.
Detached ==
  /\ runtime' = None
  /\ UNCHANGED <<running, mounted, error, mainVars>>

Joined ==
  /\ Joinable
  /\ worker' = "none"
  /\ runtime' = IF running THEN runtime ELSE None
  /\ UNCHANGED <<running, mounted, error, failed, announced, removed>>

(***************************************************************************)
(* Dokan.                                                                  *)
(***************************************************************************)
DokanRefuses ==
  /\ worker = "mounting"
  /\ worker' = "returned" /\ failed' = TRUE
  /\ UNCHANGED <<runtime, running, mounted, error, announced, removed>>

DokanRegisters ==
  /\ worker = "mounting"
  /\ worker' = "serving"
  /\ UNCHANGED <<runtime, running, mounted, error, failed, announced, removed>>

\* Bug variant: the callback does not reach Impl::mounted.
MountedUnseen ==
  /\ worker \in {"serving", "leaving"} /\ ~announced
  /\ announced' = TRUE
  /\ UNCHANGED <<runtime, running, mounted, error, worker, failed, removed>>

MountedCallback ==
  /\ worker \in {"serving", "leaving"} /\ ~announced
  /\ announced' = TRUE /\ mounted' = TRUE
  /\ UNCHANGED <<runtime, running, error, worker, failed, removed>>

\* `--unmount` from another process, or an eject in Explorer.
RemovedFromOutside ==
  /\ Registered /\ ~removed
  /\ removed' = TRUE
  /\ UNCHANGED <<runtime, running, mounted, error, worker, failed, announced>>

UnmountedCallback ==
  /\ worker = "serving" /\ removed
  /\ worker' = "leaving" /\ mounted' = FALSE
  /\ UNCHANGED <<runtime, running, error, failed, announced, removed>>

MainReturns ==
  /\ worker = "leaving" /\ announced
  /\ worker' = "returned"
  /\ UNCHANGED <<runtime, running, mounted, error, failed, announced, removed>>

(***************************************************************************)
(* The rest of run(): three stores, each visible on its own, and the       *)
(* error, which is set after running has gone false.                       *)
(***************************************************************************)
ClearMounted ==
  /\ worker = "returned"
  /\ worker' = "cleared" /\ mounted' = FALSE
  /\ UNCHANGED <<runtime, running, error, failed, announced, removed>>

ClearRunning ==
  /\ worker = "cleared"
  /\ worker' = "stopped" /\ running' = FALSE
  /\ UNCHANGED <<runtime, mounted, error, failed, announced, removed>>

EndRun ==
  /\ worker = "stopped"
  /\ worker' = "ended" /\ error' = (error \/ failed)
  /\ UNCHANGED <<runtime, running, mounted, failed, announced, removed>>

Worker == ClearMounted \/ ClearRunning \/ EndRun
Dokan  == DokanRefuses \/ DokanRegisters \/ MountedCallback \/ UnmountedCallback \/ MainReturns
=============================================================================
