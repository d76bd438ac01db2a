----------------------------- MODULE MCHostView -----------------------------
(* A partition with a device's name for its own.  Three names of its root  *)
(* and two of the directory in it become one on Windows, or would; that    *)
(* directory has also a special file and a link back to the root.          *)
EXTENDS HostView
CONSTANTS top, parts, r, d, f1, f2, f3, f4, s, t1

Plain(w) == [word |-> w, odd |-> "none", device |-> FALSE, tail |-> <<>>, utf8 |-> TRUE]
Odd(w, character) == [Plain(w) EXCEPT !.odd = character]
At(name, node) == [name |-> name, node |-> node]

MCNodes == {top, parts, r, d, f1, f2, f3, f4, s}
MCKind == [n \in MCNodes |->
  IF n \in {top, parts, r, d} THEN "dir" ELSE IF n = s THEN "other" ELSE "file"]
MCEntries == [n \in {top, parts, r, d} |->
  CASE n = top   -> <<At(Plain("partitions"), parts)>>
    [] n = parts -> <<At(Plain("con"), r)>>
    [] n = r     -> <<At([Plain("foo") EXCEPT !.tail = <<2>>], d), At(Plain("foo"), f1), At(Plain("FOO"), f2)>>
    [] n = d     -> <<At(Odd("x", ":"), f3), At([Odd("x", "_") EXCEPT !.utf8 = FALSE], f4),
                      At(Odd("x", "?"), r), At(Plain("dev"), s)>>]
MCWords == {"foo", "FOO", "x", "con", "dev", "partitions"}
MCFolded == [w \in MCWords |-> IF w = "FOO" THEN "foo" ELSE w]
MCChunks == [n \in MCNodes |-> IF n = f1 THEN 0 ELSE IF n = f2 THEN 2 ELSE 1]
=============================================================================
