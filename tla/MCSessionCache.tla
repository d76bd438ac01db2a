--------------------------- MODULE MCSessionCache ---------------------------
(* Two PFS partitions.  P1 holds a file a, a directory d with a file b in   *)
(* it, and c, whose inode is corrupt; P2 holds another a.                   *)
EXTENDS SessionCache

McRoots == [P1 |-> "root1", P2 |-> "root2"]
McKind  == [root1 |-> "dir", root2 |-> "dir", d |-> "dir",
            a1 |-> "file", a2 |-> "file", b |-> "file", c |-> "corrupt"]

McEntry(name, node) == [name |-> name, node |-> node]
McEntries == [root1 |-> << McEntry("a", "a1"), McEntry("d", "d"), McEntry("c", "c") >>,
              root2 |-> << McEntry("a", "a2") >>,
              d     |-> << McEntry("b", "b") >>]
McParts == [a |-> <<"a">>, b |-> <<"b">>, c |-> <<"c">>, d |-> <<"d">>] @@ ("d/b" :> <<"d", "b">>)

McCall(op, part, path) == [op |-> op, part |-> part, path |-> path]
McCalls ==
  { McCall("browse", "P1", <<>>), McCall("browse", "P2", <<>>), McCall("browse", "P1", <<"a">>),
    McCall("stat", "P1", <<"a">>), McCall("stat", "P2", <<"a">>),
    McCall("browse", "P1", <<"d">>), McCall("read", "P1", <<"d", "b">>),
    McCall("export", "hdl", <<>>), McCall("export", "P1", <<"d">>) }

\* A directory in which two entries have the same name and a name holds a
\* separator: list_directory() refuses neither.
McOddEntries ==
  [McEntries EXCEPT !["root1"] =
     << McEntry("a", "a1"), McEntry("a", "b"), McEntry("d/b", "a2"), McEntry("d", "d") >>]
McOddCalls == { McCall("browse", "P1", <<>>), McCall("stat", "P1", <<"a">>),
                McCall("stat", "P1", <<"d", "b">>) }

\* Threads are interchangeable.
McSymmetry == Permutations(Threads)
=============================================================================
