------------------------------ MODULE HostView ------------------------------
(***************************************************************************)
(* The two programs that show a partition to Windows: the process of a     *)
(* mount and the window with its Files page.  Each has a session of its    *)
(* own on the disk, so that nothing one does is seen by the other, and a   *)
(* behaviour is of one of them.                                            *)
(***************************************************************************)
EXTENDS MountView, FilesPage

VARIABLE program \* "mount" or "window"

vars == <<program, viewVars, filesVars>>

TypeOK == ViewTypeOK /\ PageTypeOK

Init == program \in {"mount", "window"} /\ ViewInit /\ FilesInit

Next ==
  \/ program = "mount" /\ Mounting /\ UNCHANGED <<program, filesVars>>
  \/ program = "window" /\ Files /\ UNCHANGED <<program, viewVars>>

Spec == Init /\ [][Next]_vars
=============================================================================
