----------------------------- MODULE HostExport -----------------------------
(***************************************************************************)
(* export_to_host(): a file or a tree of the partition copied to the host. *)
(* The recursion of export_node() is the stack of the directories it is    *)
(* in, with the names given in each; the file that is being written is     *)
(* beside it.  Anything read may be unreadable, anything written on the    *)
(* host may fail.  A first error ends the whole export.                    *)
(*                                                                         *)
(* The host compares paths without case, and so are they kept here.        *)
(***************************************************************************)
EXTENDS HostNames

CONSTANTS
  Chunks,     \* reads of 1 MiB in a file
  MaxNesting  \* the depth at which an export gives up (256 in the code)

ASSUME ExportFacts == Chunks \in [Nodes -> Nat] /\ MaxNesting \in Nat

VARIABLES
  stack,   \* directories being exported: [node, path, next, names]
  writing, \* the output file: [node, path, left], or none
  host,    \* what this export has put on the host: [node, state], by path
  skipped, \* warnings, by directory and index of the entry
  outcome  \* ExportResult

exportVars == <<stack, writing, host, skipped, outcome>>

NoFile == [node |-> Root, path |-> <<>>, left |-> 0]

ExportTypeOK ==
  /\ \A i \in DOMAIN stack :
       /\ stack[i].node \in Dirs /\ stack[i].path \in DOMAIN host
       /\ stack[i].next \in 1 .. Len(Entries[stack[i].node]) + 1
       /\ Len(stack[i].names) < stack[i].next
  /\ writing = NoFile \/ (Kind[writing.node] = "file" /\ writing.path \in DOMAIN host
                          /\ writing.left \in 0 .. Chunks[writing.node])
  /\ \A p \in DOMAIN host : host[p].node \in Nodes /\ host[p].state \in {"part", "closed", "dir"}
  /\ outcome \in {"none", "running", "ok", "error", "crashed"}

ExportInit ==
  /\ stack = <<>> /\ writing = NoFile /\ host = <<>>
  /\ skipped = {} /\ outcome = "none"

Running == outcome = "running"
On(path, node, state) ==
  host' = [p \in DOMAIN host \cup {path} |->
             IF p = path THEN [node |-> node, state |-> state] ELSE host[p]]

(***************************************************************************)
(* export_node() for a node that has been read, into the directories above *)
(* it.                                                                     *)
(***************************************************************************)
\* Bug variant: what the call for a child returns is not looked at.
FailsUnseen(above) == stack' = above /\ writing' = NoFile /\ UNCHANGED <<skipped, outcome>>

\* Every call on the way returns false.
Fails(above) == stack' = <<>> /\ writing' = NoFile /\ outcome' = "error" /\ UNCHANGED skipped

\* Too deep, or the host refuses the file or the directory above it.
Refused(above, node) ==
  /\ Len(above) > MaxNesting \/ Kind[node] # "other"
  /\ Fails(above) /\ UNCHANGED host

Opens(above, node, path) ==
  /\ Kind[node] = "file"
  /\ On(path, node, "part")
  /\ writing' = [node |-> node, path |-> path, left |-> Chunks[node]]
  /\ stack' = above
  /\ UNCHANGED <<skipped, outcome>>

Skips(above, node, entry) ==
  /\ Kind[node] = "other"
  /\ stack' = above /\ skipped' = skipped \cup {entry}
  /\ UNCHANGED <<writing, host, outcome>>

Active(above) == { above[i].node : i \in DOMAIN above }

\* The directory is made, and then it cannot be listed, or its entries follow.
Enters(above, node, path) ==
  /\ Kind[node] = "dir" /\ node \notin Active(above)
  /\ On(path, node, "dir")
  /\ \/ Fails(above)
     \/ /\ stack' = Append(above, [node |-> node, path |-> path, next |-> 1, names |-> <<>>])
        /\ UNCHANGED <<writing, skipped, outcome>>

\* Up to a depth; an active directory and a refusal of the host end the export.
Visits(above, node, path, entry) ==
  \/ Refused(above, node)
  \/ /\ Len(above) <= MaxNesting
     /\ Opens(above, node, path) \/ Skips(above, node, entry) \/ Enters(above, node, path)

(***************************************************************************)
(* Steps.                                                                  *)
(***************************************************************************)
\* The node of the path given has been resolved, or has not.
StartExport(node, name) ==
  LET path == <<Upper(name)>>
      Put(state) == host' = [p \in {path} |-> [node |-> node, state |-> state]]
      Goes(frames, file) == stack' = frames /\ writing' = file /\ outcome' = "running"
  IN /\ ~Running /\ outcome # "crashed" /\ skipped' = {}
     /\ \/ Kind[node] = "file" /\ Put("part")
           /\ Goes(<<>>, [node |-> node, path |-> path, left |-> Chunks[node]])
        \/ Kind[node] = "dir" /\ Put("dir")
           /\ \/ Goes(<<[node |-> node, path |-> path, next |-> 1, names |-> <<>>]>>, NoFile)
              \/ stack' = <<>> /\ writing' = NoFile /\ outcome' = "error"
        \/ Kind[node] = "other" /\ host' = <<>> /\ Goes(<<>>, NoFile)

ExportFails ==
  /\ ~Running /\ outcome # "crashed"
  /\ outcome' = "error" /\ stack' = <<>> /\ writing' = NoFile /\ host' = <<>> /\ skipped' = {}

Chunk ==
  /\ Running /\ writing.left > 0
  /\ writing' = [writing EXCEPT !.left = @ - 1]
  /\ UNCHANGED <<stack, host, skipped, outcome>>

\* Bug variant: what has been written of a file stays when the rest fails.
ChunkFailsOpen ==
  /\ Running /\ writing.left > 0
  /\ Fails(stack) /\ UNCHANGED host

\* Bug variant: the file is removed and goes on being written.
ChunkFailsStuck ==
  /\ Running /\ writing.left > 0
  /\ host' = [p \in DOMAIN host \ {writing.path} |-> host[p]]
  /\ UNCHANGED <<stack, writing, skipped, outcome>>

\* The device or the host fails: the broken file is removed.  Nobody looks at
\* whether it was; here the host lets go of a file it has just made.
ChunkFails ==
  /\ Running /\ writing.left > 0
  /\ host' = [p \in DOMAIN host \ {writing.path} |-> host[p]]
  /\ Fails(stack)

\* The stream is closed by its destructor: whether that could write the rest,
\* nobody looks.
EndFile ==
  /\ Running /\ writing # NoFile /\ writing.left = 0
  /\ On(writing.path, writing.node, "closed")
  /\ writing' = NoFile
  /\ UNCHANGED <<stack, skipped, outcome>>

Frame == Last(stack)
Above == Front(stack)
Busy == Running /\ writing = NoFile /\ stack # <<>>
More == Frame.next \in DOMAIN Entries[Frame.node]
Current == Entries[Frame.node][Frame.next]
ThisEntry == <<Frame.path, Frame.next>>

Unreadable ==
  /\ Busy /\ More
  /\ stack' = Append(Above, [Frame EXCEPT !.next = @ + 1])
  /\ skipped' = skipped \cup {ThisEntry}
  /\ UNCHANGED <<writing, host, outcome>>

\* utf8_path() throws for what is not UTF-8, and no thread of an export catches.
Undecodable ==
  /\ Busy /\ More /\ ~Current.name.utf8
  /\ outcome' = "crashed"
  /\ UNCHANGED <<stack, writing, host, skipped>>

NextEntry ==
  /\ Busy /\ More /\ Current.name.utf8
  /\ LET name == FreeName(Sanitized(Current.name), Range(Frame.names))
         rest == [Frame EXCEPT !.next = @ + 1, !.names = Append(@, name)]
     IN Visits(Append(Above, rest), Current.node, Append(Frame.path, Upper(name)), ThisEntry)

EndDirectory ==
  /\ Busy /\ ~More
  /\ stack' = Above
  /\ UNCHANGED <<writing, host, skipped, outcome>>

EndExport ==
  /\ Running /\ writing = NoFile /\ stack = <<>>
  /\ outcome' = "ok"
  /\ UNCHANGED <<stack, writing, host, skipped>>

Exporting == Chunk \/ ChunkFails \/ EndFile \/ Unreadable \/ Undecodable \/ NextEntry \/ EndDirectory \/ EndExport

(***************************************************************************)
(* Properties.                                                             *)
(***************************************************************************)
\* What an export has copied it neither replaces nor removes, although names
\* of one directory may be one name to the host (pfs_export.cpp:173-175).
CopiesStay ==
  [][\A p \in DOMAIN host :
       Running /\ host[p].state = "closed"
         => p \in DOMAIN host' /\ host'[p] = host[p]]_exportVars

\* An export that has ended, also by an error in the middle of a tree, leaves
\* no file behind that it has not written to the end.
NoBrokenFileStays == ~Running => \A p \in DOMAIN host : host[p].state # "part"

\* An export that reports success has every entry of every directory it made on
\* the host or among the warnings, under names of their own.
Children(path) == { p \in DOMAIN host : p # <<>> /\ Front(p) = path }
SuccessIsComplete ==
  outcome = "ok" =>
    \A p \in DOMAIN host : host[p].state = "dir" =>
      Cardinality(Children(p)) + Cardinality({ e \in skipped : e[1] = p })
        = Len(Entries[host[p].node])
=============================================================================
