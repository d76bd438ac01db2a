------------------------------ MODULE MCOnDisk ------------------------------
(* A disk of 56 sectors of two bytes with an MBR, a PFS partition with a    *)
(* sub-partition, an HDL partition and a header no chain leads to; and      *)
(* what damage can make of them.  Zones of four sectors.                    *)
EXTENDS PfsRead, TLC

McExtent(s, l) == [start |-> s, length |-> l]
McNoSubs == [i \in 1 .. 2 |-> McExtent(0, 0)]
McHeader(at, length, type, next, prev) ==
  [sound |-> TRUE, sony |-> TRUE, start |-> at, length |-> length, next |-> next,
   prev |-> prev, type |-> type, isSub |-> FALSE, nsub |-> 0, subs |-> McNoSubs]

McDisk ==
  (0  :> McHeader(0, 8, "mbr", 8, 40)) @@
  (8  :> [McHeader(8, 24, "pfs", 32, 0) EXCEPT !.nsub = 1, !.subs[1] = McExtent(40, 14)]) @@
  (32 :> McHeader(32, 8, "hdl", 40, 8)) @@
  (40 :> [McHeader(40, 14, "pfs", 0, 32) EXCEPT !.isSub = TRUE]) @@
  (54 :> McHeader(54, 2, "free", 0, 40))

\* Faults that leave the links alone.
McFaults(d) ==
  { d } \cup { [d EXCEPT ![at].sound = FALSE] : at \in {0, 8, 40} }
    \cup { [d EXCEPT ![0].sony = FALSE], [d EXCEPT ![32].length = 30], [d EXCEPT ![8].start = 12],
           [d EXCEPT ![8].subs[1].length = 20], [d EXCEPT ![8].nsub = 3],
           [d EXCEPT ![40].prev = 8], [d EXCEPT ![40].isSub = FALSE] }

McLinks == {0, 8, 32, 40, 54, 60}
McDamaged ==
  UNION { McFaults([McDisk EXCEPT ![0].next = n0, ![8].next = n8, ![32].next = n32,
                                  ![40].next = n40])
          : n0 \in {0, 8, 32}, n8 \in McLinks, n32 \in McLinks, n40 \in McLinks }
McDisks == McDamaged \cup McFaults(McDisk)

(* PFS metadata, by the sector it is at: the superblock at sector 2 of the  *)
(* main partition, the root inode in zone 1, SEGI records in zone 1 of the  *)
(* sub-partition and in zone 5 of the main partition.                       *)
McAt(number, subpart) == [number |-> number, subpart |-> subpart]
McBlock(number, subpart, count) == [number |-> number, subpart |-> subpart, count |-> count]
McSuper == [kind |-> "super", sound |-> TRUE, zoneSectors |-> 4, numSubs |-> 1,
            root |-> McAt(1, 0), log |-> McAt(2, 0)]
McInode(d1, d2, n, next, segments) ==
  [kind |-> "segd", sound |-> TRUE, numberData |-> n, next |-> next, size |-> 40,
   segments |-> segments, data |-> <<d1, d2>>]
McSegi(d1, d2, next, sound) ==
  [kind |-> "segi", sound |-> sound, next |-> next, data |-> <<d1, d2>>]

\* Two zones in a row, one of them, their neighbour in the other extent, and
\* blocks that are empty, run out of their extent, or are of no extent.
McBlocks ==
  { McBlock(2, 0, 1), McBlock(3, 0, 1), McBlock(3, 0, 2), McBlock(3, 1, 1), McBlock(2, 1, 1),
    McBlock(2, 0, 0), McBlock(5, 0, 2), McBlock(0, 2, 1) }
McNone == McAt(0, 0)
McA == McAt(1, 1)
McB == McAt(5, 0)

McRecords(root, a, b) == (10 :> McSuper) @@ (12 :> root) @@ (44 :> a) @@ (28 :> b)
McPlain == McSegi(McBlock(4, 0, 1), McBlock(2, 1, 1), McNone, TRUE)
McDirect ==
  { McRecords(McInode(d1, d2, n, McNone, 0), McPlain, McPlain) :
      d1 \in McBlocks, d2 \in McBlocks, n \in {2, 3} }
McIndirect ==
  { McRecords(McInode(McBlock(2, 0, 1), d2, n, next, segments),
              McSegi(McBlock(4, 0, 1), a2, nextA, TRUE), McSegi(b1, McBlock(2, 0, 1), McNone, sound)) :
      d2 \in {McBlock(3, 0, 1), McBlock(2, 1, 1)}, n \in {5, 6, 8}, next \in {McNone, McA, McB},
      segments \in {0, 1}, a2 \in {McBlock(3, 1, 1), McBlock(2, 0, 0)},
      nextA \in {McNone, McA, McB, McAt(9, 9)}, b1 \in {McBlock(2, 1, 1)}, sound \in BOOLEAN }

McContent(r, b) == [records |-> r, bad |-> b]
McOddSupers ==
  { [McRecords(McInode(McBlock(2, 0, 2), McBlock(2, 1, 1), 3, McNone, 0), McPlain, McPlain)
       EXCEPT ![10] = s] :
      s \in { [McSuper EXCEPT !.sound = FALSE], [McSuper EXCEPT !.numSubs = 2],
              [McSuper EXCEPT !.numSubs = 0], [McSuper EXCEPT !.root.subpart = 2] } }
McFull == { McContent(r, {}) : r \in McDirect \cup McIndirect \cup McOddSupers }
            \cup { McContent(McRecords(McInode(McBlock(2, 0, 2), McBlock(2, 1, 1), 3, McNone, 0),
                                       McPlain, McPlain), {s}) : s \in {10, 12, 17, 20, 48} }
McOne == { McContent(McRecords(McInode(McBlock(2, 0, 2), McBlock(3, 1, 1), 3, McNone, 0),
                               McPlain, McPlain), {}) }
McContents ==
  [d \in McDisks |-> IF d = McDisk THEN McFull
                     ELSE IF d \in McFaults(McDisk) THEN McOne
                     ELSE {McContent(<<>>, {})}]

McPlaces == { McAt(1, 0), McAt(1, 1), McAt(9, 0) }
McRequest(o, l) == [offset |-> o, length |-> l]
McRequests ==
  { McRequest(0, 8), McRequest(3, 10), McRequest(7, 3), McRequest(9, 22), McRequest(0, 40),
    McRequest(24, 7), McRequest(5, 0), McRequest(39, 2) }
=============================================================================
