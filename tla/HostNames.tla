------------------------------ MODULE HostNames ------------------------------
(***************************************************************************)
(* A PFS tree under names Windows accepts: sanitize_host_filename() and    *)
(* the suffixes that keep two names of one directory apart, as the mounted *)
(* view and the host export apply them.                                    *)
(*                                                                         *)
(* A name is a word, what Windows objects to in it, and the numbers that   *)
(* follow it ("foo_2" is the word foo with the tail <<2>>).  The words of  *)
(* one directory are distinct names; a name with a separator in it is      *)
(* SessionCache's matter.                                                  *)
(***************************************************************************)
EXTENDS Naturals, Sequences, FiniteSetsExt, SequencesExt

CONSTANTS
  Nodes,    \* inodes
  Root,     \* of the partition
  Kind,     \* [Nodes -> {"dir", "file", "other"}]: "other" is neither
  Entries,  \* a directory's entries in the order of the disk: [name, node]
  Words,
  Folded,   \* uppercase_ascii() of a word
  Reserved, \* CON, NUL, ...
  None

\* Names of the disk: the character Windows rejects, and whether it is UTF-8.
\* Names of the host: the same with "_" for the character and an underscore in
\* front of a device's name.
Name == [word : Words, odd : {"none", "_", ":", "?", "."}, device : BOOLEAN,
         tail : Seq(Nat), utf8 : BOOLEAN]

ASSUME TreeFacts ==
  /\ Root \in Nodes
  /\ Kind \in [Nodes -> {"dir", "file", "other"}] /\ Kind[Root] = "dir"
  /\ \A d \in Nodes : Kind[d] = "dir" => Entries[d] \in Seq([name : Name, node : Nodes])
  /\ None \notin Nodes
  /\ Folded \in [Words -> Words] /\ Reserved \subseteq Words

Dirs == { n \in Nodes : Kind[n] = "dir" }

\* sanitize_host_filename(): every character Windows rejects, and a dot or a
\* space at the end, becomes the same underscore.
Sanitized(name) ==
  [name EXCEPT !.odd = IF @ = "none" THEN "none" ELSE "_",
               !.device = @ \/ (name.word \in Reserved /\ name.tail = <<>>)]

\* Windows compares without case (of ASCII).
Upper(name) == [name EXCEPT !.word = Folded[@]]
Same(a, b) == Upper(a) = Upper(b)

Suffixed(name, k) == [name EXCEPT !.tail = Append(@, k)]

\* Bug variant: names are compared as PFS compares them.
FreeNameExact(base, taken) ==
  IF base \notin taken THEN base
  ELSE Suffixed(base, Min({ k \in 2 .. Len(base.tail) + 9 : Suffixed(base, k) \notin taken }))

\* The base, or the base with the first suffix that is free.  There are fewer
\* names taken than suffixes to try.
FreeName(base, taken) ==
  LET used == { Upper(n) : n \in taken }
  IN IF Upper(base) \notin used THEN base
     ELSE Suffixed(base, Min({ k \in 2 .. Cardinality(taken) + 2 : Upper(Suffixed(base, k)) \notin used }))

\* One name for each entry of a listing, in its order.
HostNamesOf(listing) ==
  FoldLeft(LAMBDA names, entry : Append(names, FreeName(Sanitized(entry.name), Range(names))),
           <<>>, listing)
=============================================================================
