------------------------------ MODULE MountView ------------------------------
(***************************************************************************)
(* The mounted volume: ReadOnlyMountView under Dokan's callbacks, and      *)
(* Explorer above them, which opens what listings have shown to it.  A     *)
(* handle is a path for Dokan: each call on it walks the path again from   *)
(* the top, one browse of the session for each directory on the way.       *)
(*                                                                         *)
(* The session keeps a listing until it is evicted.  While the device      *)
(* fails, a browse may fail, or succeed with inodes it could not read.     *)
(* The two directories above the partitions come from the scan.            *)
(***************************************************************************)
EXTENDS HostNames

CONSTANTS
  Fixed,    \* directories made of the scan: the top and "Partitions"
  Top,
  Threads,  \* Dokan's
  MaxDepth  \* bound: components of a path

ASSUME ViewFacts == Fixed \subseteq Dirs /\ Top \in Fixed /\ MaxDepth \in Nat

VARIABLES
  cache,    \* browse_cache_: the nodes whose inode could not be read, by directory
  faulty,   \* the device fails at the moment
  calls,    \* the callback a thread of Dokan's is in
  handle,   \* what Explorer has open: the names to it and the node it was shown as
  shown,    \* the listing of the handle that Explorer shows: [dir, lost]
  degraded  \* history: directories that were listed with an unreadable inode

viewVars == <<cache, faulty, calls, handle, shown, degraded>>

Path == { s \in Seq(Name) : Len(s) <= MaxDepth }
Idle == [op |-> "none", names |-> <<>>, want |-> None, utf8 |-> TRUE,
         phase |-> "idle", at |-> Top, rest |-> <<>>, via |-> {}]
IsCall(c) ==
  /\ c.op \in {"none", "create", "info", "read", "find", "status"}
  /\ Len(c.names) <= MaxDepth /\ Len(c.rest) <= MaxDepth
  /\ c.want \in Nodes \cup {None} /\ c.utf8 \in BOOLEAN
  /\ c.phase \in {"idle", "lookup", "found", "answered"}
  /\ c.at \in Nodes /\ c.via \subseteq Nodes

ViewTypeOK ==
  /\ \A d \in Dirs \ Fixed : cache[d] = None \/ cache[d] \subseteq Nodes
  /\ faulty \in BOOLEAN
  /\ \A t \in Threads : IsCall(calls[t])
  /\ handle.want \in Nodes /\ Len(handle.names) <= MaxDepth
  /\ shown = None \/ (shown.dir \in Dirs /\ shown.lost \subseteq Nodes)
  /\ degraded \subseteq Dirs \ Fixed

TopHandle == [names |-> <<>>, want |-> Top, utf8 |-> TRUE]
ViewInit ==
  /\ cache = [d \in Dirs \ Fixed |-> None]
  /\ faulty = FALSE
  /\ calls = [t \in Threads |-> Idle]
  /\ handle = TopHandle /\ shown = None
  /\ degraded = {}

(***************************************************************************)
(* Listings and names.                                                     *)
(***************************************************************************)
\* make_entry_aliases(), make_partition_aliases(): what is readable and a
\* directory or a regular file gets a name.
Listed(dir, lost) ==
  FoldLeft(LAMBDA listing, entry : IF entry.node \notin lost /\ Kind[entry.node] # "other"
                                   THEN Append(listing, entry) ELSE listing,
           <<>>, Entries[dir])
Names(dir, lost) == HostNamesOf(Listed(dir, lost))

\* find_alias(): the entries whose name Windows takes for this one.  At most one.
Found(dir, lost, name) ==
  { i \in DOMAIN Listed(dir, lost) : Same(Names(dir, lost)[i], name) }

\* utf8_to_wide() and wide_to_utf8(): bytes that are not UTF-8 come back as others.
Shown(name) == [name EXCEPT !.utf8 = TRUE]

\* DriveSession::browse().
ChildrenOf(dir) == { Entries[dir][i].node : i \in DOMAIN Entries[dir] }
Listings(dir) ==
  IF dir \in Fixed THEN {{}}
  ELSE IF cache[dir] # None THEN {cache[dir]}
  ELSE IF faulty THEN SUBSET ChildrenOf(dir) ELSE {{}}
BrowseMayFail(dir) == faulty /\ dir \in Dirs \ Fixed /\ cache[dir] = None

Browsed(dir, lost) ==
  /\ cache' = IF dir \in Fixed THEN cache ELSE [cache EXCEPT ![dir] = lost]
  /\ degraded' = IF lost = {} THEN degraded ELSE degraded \cup {dir}

(***************************************************************************)
(* Explorer calls, on the handle or for something it is shown in it.       *)
(***************************************************************************)
Entered(op, names, want, utf8) ==
  [op |-> op, names |-> names, want |-> want, utf8 |-> utf8,
   phase |-> IF names = <<>> THEN "found" ELSE "lookup", at |-> Top, rest |-> names, via |-> {}]

\* A read and a listing that fail walk the path once more, for the status.
Failing(call) ==
  IF call.op \in {"read", "find"} THEN Entered("status", call.names, None, FALSE) ELSE Idle

Begin(t, op, names, want, utf8) ==
  /\ calls[t].phase = "idle"
  /\ calls' = [calls EXCEPT ![t] = Entered(op, names, want, utf8)]
  /\ UNCHANGED <<cache, faulty, handle, shown, degraded>>

Call(t) == \E op \in {"info", "read", "find"} : Begin(t, op, handle.names, handle.want, handle.utf8)

Open(t) ==
  /\ shown # None /\ Len(handle.names) < MaxDepth
  /\ \E i \in DOMAIN Listed(shown.dir, shown.lost) :
       LET name == Names(shown.dir, shown.lost)[i]
       IN Begin(t, "create", Append(handle.names, Shown(name)),
                Listed(shown.dir, shown.lost)[i].node, handle.utf8 /\ name.utf8)

CloseHandle == handle' = TopHandle /\ shown' = None /\ UNCHANGED <<cache, faulty, calls, degraded>>

(***************************************************************************)
(* lookup(), a component at a time.                                        *)
(***************************************************************************)
\* The entry with that name, a directory unless the path ends here.
Leads(call, lost) ==
  { Listed(call.at, lost)[i].node : i \in Found(call.at, lost, Head(call.rest)) }
    \cap { n \in Nodes : Kind[n] = "dir" \/ Tail(call.rest) = <<>> }
Advanced(call, node) ==
  [call EXCEPT !.at = node, !.rest = Tail(@), !.via = @ \cup {call.at},
               !.phase = IF Tail(call.rest) = <<>> THEN "found" ELSE "lookup"]

Step(t) ==
  /\ calls[t].phase = "lookup"
  /\ \E lost \in Listings(calls[t].at) :
       /\ Browsed(calls[t].at, lost)
       /\ \/ \E node \in Leads(calls[t], lost) : calls' = [calls EXCEPT ![t] = Advanced(@, node)]
          \/ Leads(calls[t], lost) = {} /\ calls' = [calls EXCEPT ![t] = Failing(@)]
  /\ UNCHANGED <<faulty, handle, shown>>

StepFails(t) ==
  /\ calls[t].phase = "lookup" /\ BrowseMayFail(calls[t].at)
  /\ calls' = [calls EXCEPT ![t] = Failing(@)]
  /\ UNCHANGED <<cache, faulty, handle, shown, degraded>>

(***************************************************************************)
(* The callbacks.                                                          *)
(***************************************************************************)
\* dokany_policy::evaluate(): NT dispositions 0 to 5, of which 1 and 3 open.
Request == [disposition : 0 .. 6, write : BOOLEAN, delete : BOOLEAN,
            directoryOnly : BOOLEAN, fileOnly : BOOLEAN]
Granted(request, node) ==
  /\ request.disposition \in {1, 3}
  /\ ~request.write /\ ~request.delete
  /\ request.fileOnly => Kind[node] # "dir"
  /\ request.directoryOnly => Kind[node] = "dir"

Arrived(t, op) == calls[t].op = op /\ calls[t].phase = "found"
Answer(t) == calls' = [calls EXCEPT ![t].phase = "answered"]

\* create_file(): of all it may be asked for, some is granted and some is not.
Create(t) ==
  /\ Arrived(t, "create")
  /\ \E granted \in { Granted(request, calls[t].at) : request \in Request } :
       IF granted
       THEN /\ handle' = [names |-> calls[t].names, want |-> calls[t].want, utf8 |-> calls[t].utf8]
            /\ shown' = None
            /\ Answer(t)
       ELSE calls' = [calls EXCEPT ![t] = Idle] /\ UNCHANGED <<handle, shown>>
  /\ UNCHANGED <<cache, faulty, degraded>>

\* get_file_information() tells the kind and the size of what the lookup found.
Inform(t) ==
  /\ Arrived(t, "info")
  /\ Answer(t)
  /\ UNCHANGED <<cache, faulty, handle, shown, degraded>>

\* read_file() reads by the path of the disk.
ReadBytes(t) ==
  /\ Arrived(t, "read") /\ Kind[calls[t].at] = "file"
  /\ Answer(t)
  /\ UNCHANGED <<cache, faulty, handle, shown, degraded>>

ReadFails(t) ==
  /\ Arrived(t, "read")
  /\ Kind[calls[t].at] # "file" \/ faulty
  /\ calls' = [calls EXCEPT ![t] = Failing(@)]
  /\ UNCHANGED <<cache, faulty, handle, shown, degraded>>

\* find_files() lists what the lookup found with one more browse.
Find(t) ==
  /\ Arrived(t, "find") /\ Kind[calls[t].at] = "dir"
  /\ \E lost \in Listings(calls[t].at) :
       /\ Browsed(calls[t].at, lost)
       /\ shown' = IF handle.names = calls[t].names
                   THEN [dir |-> calls[t].at, lost |-> lost] ELSE shown
  /\ Answer(t)
  /\ UNCHANGED <<faulty, handle>>

FindFails(t) ==
  /\ Arrived(t, "find")
  /\ Kind[calls[t].at] # "dir" \/ BrowseMayFail(calls[t].at)
  /\ calls' = [calls EXCEPT ![t] = Failing(@)]
  /\ UNCHANGED <<cache, faulty, handle, shown, degraded>>

Finish(t) ==
  /\ calls[t].phase = "answered" \/ Arrived(t, "status")
  /\ calls' = [calls EXCEPT ![t] = Idle]
  /\ UNCHANGED <<cache, faulty, handle, shown, degraded>>

(***************************************************************************)
(* What happens beside: bounded_store() makes room, the device fails and   *)
(* recovers.                                                               *)
(***************************************************************************)
Evict ==
  /\ \E d \in Dirs \ Fixed : cache[d] # None /\ cache' = [cache EXCEPT ![d] = None]
  /\ UNCHANGED <<faulty, calls, handle, shown, degraded>>

\* Calls on other handles list a directory meanwhile.
Elsewhere ==
  /\ \E d \in Dirs \ Fixed : cache[d] = None /\ \E lost \in Listings(d) : Browsed(d, lost)
  /\ UNCHANGED <<faulty, calls, handle, shown>>

Device == faulty' = ~faulty /\ UNCHANGED <<cache, calls, handle, shown, degraded>>

Callback(t) ==
  \/ Step(t) \/ StepFails(t)
  \/ Create(t) \/ Inform(t) \/ ReadBytes(t) \/ ReadFails(t) \/ Find(t) \/ FindFails(t) \/ Finish(t)

Mounting ==
  \/ \E t \in Threads : Open(t) \/ Call(t) \/ Callback(t)
  \/ CloseHandle \/ Evict \/ Elsewhere \/ Device

(***************************************************************************)
(* Properties.                                                             *)
(***************************************************************************)
Answered(t) == calls[t].phase = "answered"

\* What is opened, read or listed under a name is the entry which the listing
\* showed under that name, unless a directory on the way has been listed with
\* an unreadable inode (whose entry has no name and may leave it to another)
\* or the name is not UTF-8.
ShownNameLeadsToItsEntry ==
  \A t \in Threads :
    Answered(t) /\ calls[t].utf8 /\ calls[t].via \cap degraded = {} => calls[t].at = calls[t].want

\* mount_view.hpp:69 "PFS and APA names are mapped to deterministic Windows-safe
\* aliases": an open file stays the file it is.
NamesStayWithTheirEntries ==
  \A t \in Threads : Answered(t) /\ calls[t].utf8 => calls[t].at = calls[t].want
=============================================================================
