------------------------------ MODULE FilesPage ------------------------------
(***************************************************************************)
(* The Files page of the WinUI window and the thread its exports run on.   *)
(* The list shows a directory of the session there was when it was filled; *)
(* the path is where the page believes to be.  An export takes the entry   *)
(* from the list before the folder picker and the path after it, and the   *)
(* session when its thread begins; a source that is opened meanwhile       *)
(* replaces the session at once and clears the path when its lambda runs,  *)
(* in the picker too.                                                      *)
(*                                                                         *)
(* Every session has the same tree; one partition stands for all, a change *)
(* of the partition for a new start at its root.  A second export waits    *)
(* for the first one.                                                      *)
(***************************************************************************)
EXTENDS HostExport

CONSTANTS
  MaxOpens, \* bound: sources opened after the first
  MaxPath   \* bound: names in a path

ASSUME PageFacts == MaxOpens \in Nat /\ MaxPath \in Nat

VARIABLES
  session,  \* of the controller, by number
  news,     \* handle_finish() is in the queue
  path,     \* current_pfs_path_
  list,     \* visible_file_entries_: the session and the path they were listed from
  picked,   \* what is to be exported while the picker is open
  order     \* what the export thread was given, until it has its session

pageVars == <<session, news, path, list, picked, order>>
filesVars == <<pageVars, exportVars>>

Nothing == [session |-> 0, path |-> <<>>, name |-> None, intact |-> TRUE, from |-> <<>>]
NoList == [session |-> 0, path |-> None, intact |-> TRUE]

PageTypeOK ==
  /\ ExportTypeOK
  /\ session \in 0 .. MaxOpens /\ news \in BOOLEAN
  /\ Len(path) <= MaxPath
  /\ list.session \in 0 .. MaxOpens /\ list.intact \in BOOLEAN
  /\ {picked.intact, order.intact} \subseteq BOOLEAN

FilesInit ==
  /\ ExportInit
  /\ session = 0 /\ news = FALSE /\ path = <<>> /\ list = NoList
  /\ picked = Nothing /\ order = Nothing

Picking == picked # Nothing
Ordered == order # Nothing
\* The thread that ran before is joined when a new one takes its place.
Free == outcome # "crashed" /\ ~Picking /\ ~(Ordered /\ Running)

(***************************************************************************)
(* Paths are those of the disk.                                            *)
(***************************************************************************)
EntriesNamed(node, name) == { e \in Range(Entries[node]) : e.name = name }
Child(node, name) ==
  IF node \in Dirs /\ EntriesNamed(node, name) # {}
  THEN (CHOOSE e \in EntriesNamed(node, name) : TRUE).node ELSE None
Resolved(names) == FoldLeft(Child, Root, names)

(***************************************************************************)
(* browse_current_pfs() at a path: a browse that fails leaves the list.    *)
(***************************************************************************)
BrowseAt(names) ==
  /\ path' = names
  /\ \/ Resolved(names) \in Dirs /\ list' = [session |-> session, path |-> names, intact |-> TRUE]
     \/ list' = [list EXCEPT !.intact = FALSE]

\* refresh_pfs_partitions(): the partitions are listed anew and one of them is
\* selected, which starts at its root as any choice of a partition does.
Restart == BrowseAt(<<>>)

\* The page is shown, or a partition is chosen.
Show == Free /\ (BrowseAt(path) \/ Restart)
             /\ UNCHANGED <<session, news, picked, order, exportVars>>

EntriesOf == IF list.path = None THEN {} ELSE Range(Entries[Resolved(list.path)])

Enter ==
  /\ Free /\ Len(path) < MaxPath
  /\ \E e \in EntriesOf : e.node \in Dirs /\ BrowseAt(Append(path, e.name))
  /\ UNCHANGED <<session, news, picked, order, exportVars>>

Parent(names) == IF names = <<>> THEN <<>> ELSE Front(names)

\* Bug variant: the page goes up and the list is left for the next browse.
UpOnly ==
  /\ Free
  /\ path' = Parent(path) /\ UNCHANGED list
  /\ UNCHANGED <<session, news, picked, order, exportVars>>

Up ==
  /\ Free
  /\ BrowseAt(Parent(path))
  /\ UNCHANGED <<session, news, picked, order, exportVars>>

(***************************************************************************)
(* export_selected_entry().                                                *)
(***************************************************************************)
Pick ==
  /\ Free /\ ~Ordered
  /\ \E e \in EntriesOf :
       picked' = [session |-> list.session, path |-> <<>>, name |-> e.name,
                  intact |-> list.intact, from |-> Append(list.path, e.name)]
  /\ UNCHANGED <<session, news, path, list, order, exportVars>>

PickerCancelled ==
  /\ Picking
  /\ picked' = Nothing
  /\ UNCHANGED <<session, news, path, list, order, exportVars>>

PickerAnswered ==
  /\ Picking
  /\ order' = [picked EXCEPT !.path = Append(path, picked.name)]
  /\ picked' = Nothing
  /\ UNCHANGED <<session, news, path, list, exportVars>>

\* NativeSessionController::export_to_host() on the thread.
ExportBegins ==
  /\ Ordered
  /\ \/ \E node \in Nodes : node = Resolved(order.path) /\ StartExport(node, Sanitized(order.name))
     \/ ExportFails
  /\ order' = Nothing
  /\ UNCHANGED <<session, news, path, list, picked>>

(***************************************************************************)
(* The opener publishes, and its lambda runs, picker or not.               *)
(***************************************************************************)
Publish ==
  /\ outcome # "crashed" /\ session < MaxOpens
  /\ session' = session + 1 /\ news' = TRUE
  /\ UNCHANGED <<path, list, picked, order, exportVars>>

HandleFinish ==
  /\ news /\ outcome # "crashed" /\ ~(Ordered /\ Running)
  /\ news' = FALSE
  /\ Restart
  /\ picked' = IF Picking THEN [picked EXCEPT !.intact = FALSE] ELSE picked
  /\ UNCHANGED <<session, order, exportVars>>

Page == Show \/ Enter \/ Up \/ Pick \/ PickerCancelled \/ PickerAnswered \/ ExportBegins
Opening == Publish \/ HandleFinish
Files == Page \/ Opening \/ (Exporting /\ UNCHANGED pageVars)

(***************************************************************************)
(* Properties.                                                             *)
(***************************************************************************)
\* What is exported is the entry that was selected, in the session and the
\* directory its list showed, unless a source was published before the export
\* had its session, a lambda of an opener ran under the picker, or a browse had
\* failed since the list was filled.
ExportIsOfSelection == order.intact /\ order.session = session => order.path = order.from
=============================================================================
