---------------------------- MODULE MCReadPath ----------------------------
(* Thirteen bytes in pages of three, so the last page is cut.  Three large  *)
(* requests that follow each other, single bytes in two pages (one more     *)
(* than the cache holds), two bytes across a page boundary, an empty        *)
(* request at the end, and one past it.                                     *)
EXTENDS ReadPath

McRequest(o, l) == [off |-> o, len |-> l]
McRequests ==
  { McRequest(0, 4), McRequest(4, 4), McRequest(8, 4),
    McRequest(1, 1), McRequest(12, 1),
    McRequest(2, 2), McRequest(13, 0), McRequest(11, 4) }
McBadSets == { {}, {9}, {2} }
=============================================================================
