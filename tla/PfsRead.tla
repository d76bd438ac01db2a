------------------------------- MODULE PfsRead -------------------------------
(***************************************************************************)
(* pfs::Reader on a volume of a PFS partition the scan has found: the      *)
(* probe, the load of an inode, and read(), which first walks the block    *)
(* descriptors of the file, in the inode and in a chain of SEGI records,   *)
(* and merges neighbours into runs, and then copies the requested bytes    *)
(* run by run, in batches of sectors and single sectors at the edges.      *)
(*                                                                         *)
(* The bytes of the disk are its addresses, so that what is read shows     *)
(* where it was read.  A metadata record is on the disk at the sector it   *)
(* starts at, and is not sound if its magic or checksum is wrong, or the   *)
(* version or zone size of the superblock.  The 32-bit limits on sector    *)
(* numbers lie beyond the length of any extent, which is checked as well,  *)
(* and are not modelled apart from it.                                     *)
(***************************************************************************)
EXTENDS ApaScan

CONSTANTS
  SectorSize,         \* kSectorSize, 512 bytes
  SuperSector,        \* kSuperSector, 8192
  InodeMaxBlocks,     \* kInodeMaxBlocks, 114: descriptor 0 is the inode itself
  IndirectMaxBlocks,  \* kIndirectMaxBlocks, 123: descriptor 0 is the SEGI itself
  MaxRun,             \* the largest count of a descriptor, 65535
  Batch,              \* sectors read at once, 128
  Contents,           \* for each disk what it may hold: records [records, bad]
  Places,             \* where inodes are looked for: records [number, subpart]
  Requests            \* the reads made: records [offset, length]

ASSUME ReadSizes ==
  /\ SectorSize \in Nat \ {0} /\ SuperSector \in Nat /\ Batch \in Nat \ {0}
  /\ InodeMaxBlocks \in Nat \ {0} /\ IndirectMaxBlocks \in Nat \ {0} /\ MaxRun \in Nat

\* struct BlockInfo and the records built from it.
BlockInfo == [number : Nat, subpart : Nat, count : 0 .. MaxRun]
Place == [number : Nat, subpart : Nat]
Super ==
  [kind : {"super"}, sound : BOOLEAN, zoneSectors : Nat \ {0}, numSubs : Nat,
   root : Place, log : Place]
Inode ==
  [kind : {"segd"}, sound : BOOLEAN, numberData : Nat, next : Place, size : Nat,
   segments : Nat, data : [1 .. (InodeMaxBlocks - 1) -> BlockInfo]]
Segment ==
  [kind : {"segi"}, sound : BOOLEAN, next : Place,
   data : [1 .. (IndirectMaxBlocks - 1) -> BlockInfo]]
ASSUME ContentFacts ==
  \A disk \in Disks : \A c \in Contents[disk] :
    /\ c.bad \subseteq 0 .. (DeviceSize - 1)
    /\ \A at \in DOMAIN c.records : c.records[at] \in Super \cup Inode \cup Segment
ASSUME RequestFacts == Requests \subseteq [offset : Nat, length : Nat]

VARIABLES
  records,  \* the PFS metadata on the disk, by first sector
  bad,      \* sectors that cannot be read
  extents,  \* ApaVolume::extents_: the main partition and its subs
  super,    \* the superblock of a valid probe
  inode,    \* the inode read
  request,  \* offset and length of the read
  reading,  \* "closed", "probe", "open", "walk", "copy" or "done"
  walk,     \* the locals of the first loop
  out,      \* the bytes copied
  answer    \* what read() gives back

readVars == <<inode, request, walk, out, answer>>
diskVars == <<records, bad>>
pfsVars == <<diskVars, extents, super, reading, readVars>>
vars == <<scanVars, pfsVars>>

Failed == [ok |-> FALSE, bytes |-> <<>>]
Pending == [ok |-> TRUE, bytes |-> <<>>]
NoRecord == [kind |-> "none"]

AtMost(a, b) == IF a <= b THEN a ELSE b
-----------------------------------------------------------------------------
(* ApaVolume.                                                              *)

\* ApaVolume's constructor: extent 0 is the main partition.
ExtentsOf(p) == << [start |-> p.start, length |-> p.length] >> \o p.subs
HasExtent(sub) == sub + 1 \in DOMAIN extents

\* Bug variant: a read may run on behind the extent.
StartsInExtent(sub, sector, count) ==
  HasExtent(sub) /\ sector < extents[sub + 1].length

\* The checks of read_sectors().
InExtent(sub, sector, count) ==
  HasExtent(sub) /\ sector + count <= extents[sub + 1].length

\* Where a sector of an extent is on the device.
Physical(sub, sector) == extents[sub + 1].start + sector

\* read_sectors() can be served.
Readable(sub, sector, count) ==
  /\ InExtent(sub, sector, count)
  /\ Physical(sub, sector) + count <= DeviceSize
  /\ \A s \in Physical(sub, sector) .. (Physical(sub, sector) + count - 1) : s \notin bad
-----------------------------------------------------------------------------
(* Metadata.                                                               *)

ZoneBytes == super.zoneSectors * SectorSize

\* The record a BlockInfo leads to.  A metadata block is 1024 bytes and its
\* number is shifted by log2(zone / 1024): that is zoneSectors sectors.
RecordAt(block) ==
  LET sector == block.number * super.zoneSectors IN
  IF /\ block.subpart <= super.numSubs
     /\ Readable(block.subpart, sector, 2)
     /\ Physical(block.subpart, sector) \in DOMAIN records
  THEN records[Physical(block.subpart, sector)]
  ELSE NoRecord

\* probe(), for a main partition of type PFS; what only draws a warning is
\* left out.
ProbeValid ==
  /\ Readable(0, SuperSector, 1)
  /\ Physical(0, SuperSector) \in DOMAIN records
  /\ LET s == records[Physical(0, SuperSector)] IN
       /\ s.kind = "super" /\ s.sound
       /\ s.numSubs <= Len(extents) - 1
       /\ s.root.subpart <= s.numSubs /\ s.log.subpart <= s.numSubs

\* The inode at a place, read_inode().
IsInode(block) ==
  LET r == RecordAt(block) IN
  /\ r.kind = "segd" /\ r.sound
  /\ r.numberData # 0
  /\ r.numberData > InodeMaxBlocks => r.next.number # 0

\* read_segment_descriptor()
IsSegment(block) ==
  block.number # 0 /\ RecordAt(block).kind = "segi" /\ RecordAt(block).sound
-----------------------------------------------------------------------------
(* read(), the walk.                                                       *)

NoWalk == [global |-> 1, logical |-> 0, segment |-> NoRecord, next |-> [number |-> 0, subpart |-> 0],
           loaded |-> 0, runs |-> <<>>]

RequestEnd == request.offset + request.length
Walking == walk.global < inode.numberData /\ walk.logical < RequestEnd

Local(global) == (global - InodeMaxBlocks) % IndirectMaxBlocks
IsDirect(global) == global < InodeMaxBlocks
IsSegmentItself(global) == ~IsDirect(global) /\ Local(global) = 0

\* The descriptor of an index that is no SEGI itself.  A SEGI has been loaded
\* by then: the index of the first one is InodeMaxBlocks.
Descriptor ==
  IF IsDirect(walk.global) THEN inode.data[walk.global]
                           ELSE walk.segment.data[Local(walk.global)]

Run(block, logical) == [block |-> block, logical |-> logical]
RunEnd(run) == run.logical + run.block.count * ZoneBytes

\* Bug variant: runs are merged by zone number alone.
MergesAcross(run, block) ==
  /\ run.block.number + run.block.count = block.number
  /\ run.block.count + block.count <= MaxRun

\* Bug variant: the count of a merged run may outgrow its field.
MergesBeyond(run, block) ==
  run.block.subpart = block.subpart /\ run.block.number + run.block.count = block.number

\* The block continues the last run on the disk.  It does so in the file.
Merges(run, block) ==
  /\ run.block.subpart = block.subpart
  /\ run.block.number + run.block.count = block.number
  /\ run.block.count + block.count <= MaxRun

WithBlock(runs, block, logical) ==
  IF runs # <<>> /\ Merges(runs[Len(runs)], block)
  THEN [runs EXCEPT ![Len(runs)].block.count = @ + block.count]
  ELSE Append(runs, Run(block, logical))

End(a) ==
  /\ reading' = "done" /\ answer' = a
  /\ UNCHANGED <<inode, request, walk, out>>

\* The index of a SEGI itself: load it.
LoadSegment ==
  /\ reading = "walk" /\ Walking /\ IsSegmentItself(walk.global)
  /\ IF IsSegment(walk.next)
     THEN LET s == RecordAt(walk.next) IN
          /\ walk' = [walk EXCEPT !.global = @ + 1, !.loaded = @ + 1,
                                  !.segment = s, !.next = s.next]
          /\ UNCHANGED <<reading, inode, request, out, answer>>
     ELSE End(Failed)
  /\ UNCHANGED <<scanVars, diskVars, extents, super>>

\* A block of the file, which joins the runs if the request touches it.
TakeBlock ==
  LET block == Descriptor
      end == walk.logical + block.count * ZoneBytes IN
  /\ reading = "walk" /\ Walking /\ ~IsSegmentItself(walk.global)
  /\ IF block.count = 0 THEN End(Failed)
     ELSE /\ walk' = [walk EXCEPT !.global = @ + 1, !.logical = end,
                        !.runs = IF end > request.offset
                                 THEN WithBlock(@, block, walk.logical) ELSE @]
          /\ UNCHANGED <<reading, inode, request, out, answer>>
  /\ UNCHANGED <<scanVars, diskVars, extents, super>>

EndWalk ==
  /\ reading = "walk" /\ ~Walking
  /\ reading' = "copy"
  /\ UNCHANGED <<scanVars, diskVars, extents, super, readVars>>
-----------------------------------------------------------------------------
(* read(), the copy.                                                       *)

Position == request.offset + Len(out)
Missing == request.length - Len(out)

\* The run the next byte is in: the first that does not end before it.
OpenRuns == { i \in DOMAIN walk.runs : Position < RunEnd(walk.runs[i]) }

\* One turn of the loop in read_zone_bytes(): a batch of whole sectors, or
\* part of one.
Piece(within, wanted) ==
  IF within % SectorSize = 0 /\ wanted >= SectorSize
  THEN LET sectors == AtMost(wanted \div SectorSize, Batch)
       IN  [count |-> sectors, from |-> 0, take |-> sectors * SectorSize]
  ELSE [count |-> 1, from |-> within % SectorSize,
        take |-> AtMost(wanted, SectorSize - (within % SectorSize))]

\* What a read of the device gives from byte `from` of a sector on.
BytesAt(sub, sector, from, count) ==
  [i \in 1 .. count |-> Physical(sub, sector) * SectorSize + from + i - 1]

\* The next piece of a run.
CopyFrom(run) ==
  LET within == IF Position > run.logical THEN Position - run.logical ELSE 0
      piece  == Piece(within, AtMost(run.block.count * ZoneBytes - within, Missing))
      sub    == run.block.subpart
      sector == run.block.number * super.zoneSectors + within \div SectorSize
  IN  IF sub <= super.numSubs /\ Readable(sub, sector, piece.count)
      THEN /\ out' = out \o BytesAt(sub, sector, piece.from, piece.take)
           /\ UNCHANGED <<reading, inode, request, walk, answer>>
      ELSE End(Failed)

CopyPiece ==
  /\ reading = "copy" /\ Missing # 0 /\ OpenRuns # {}
  /\ \E i \in OpenRuns :
       /\ \A j \in OpenRuns : i <= j
       /\ CopyFrom(walk.runs[i])
  /\ UNCHANGED <<scanVars, diskVars, extents, super>>

\* The descriptors do not cover the request, or there were more SEGI records
\* than the inode says, or all is well.
EndCopy ==
  /\ reading = "copy" /\ (Missing = 0 \/ OpenRuns = {})
  /\ End(IF Missing # 0 \/ (inode.segments # 0 /\ walk.loaded > inode.segments)
         THEN Failed ELSE [ok |-> TRUE, bytes |-> out])
  /\ UNCHANGED <<scanVars, diskVars, extents, super>>
-----------------------------------------------------------------------------
(* Opening a volume and asking for a read.                                 *)

NoInode == [kind |-> "none", numberData |-> 0]
NoRequest == [offset |-> 0, length |-> 0]
NoSuper == [kind |-> "none", numSubs |-> 0]

\* Any main partition of type PFS, also of a disk with errors, which the
\* frontends offer to open.
OpenVolume ==
  /\ scanning = "done" /\ mbrValid /\ reading = "closed"
  /\ \E i \in DOMAIN partitions :
       /\ partitions[i].type = "pfs" /\ ~partitions[i].isSub
       /\ extents' = ExtentsOf(partitions[i])
  /\ reading' = "probe"
  /\ UNCHANGED <<scanVars, diskVars, super, readVars>>

Probe ==
  /\ reading = "probe"
  /\ IF ProbeValid
     THEN /\ super' = records[Physical(0, SuperSector)]
          /\ reading' = "open"
          /\ UNCHANGED extents
     ELSE reading' = "closed" /\ extents' = <<>> /\ UNCHANGED super
  /\ UNCHANGED <<scanVars, diskVars, readVars>>

\* root() and read_inode(), for the root or what a directory entry says.
ReadInode ==
  /\ reading = "open" /\ inode = NoInode
  /\ \E place \in Places \cup {super.root} :
       IsInode(place) /\ inode' = RecordAt(place)
  /\ UNCHANGED <<scanVars, diskVars, extents, super, reading, request, walk, out, answer>>

InFile(q) == q.offset <= inode.size /\ q.length <= inode.size - q.offset

Read ==
  /\ reading = "open" /\ inode # NoInode
  /\ \E q \in Requests :
       /\ request' = q
       /\ \/ ~InFile(q) /\ reading' = "done" /\ answer' = Failed
          \/ InFile(q) /\ q.length = 0 /\ reading' = "done" /\ answer' = Pending
          \/ InFile(q) /\ q.length # 0 /\ reading' = "walk" /\ UNCHANGED answer
  /\ walk' = [NoWalk EXCEPT !.next = inode.next]
  /\ UNCHANGED <<scanVars, diskVars, extents, super, inode, out>>

Init ==
  /\ ScanInit
  /\ \E c \in Contents[headers] : records = c.records /\ bad = c.bad
  /\ extents = <<>> /\ super = NoSuper /\ reading = "closed"
  /\ inode = NoInode /\ request = NoRequest /\ walk = NoWalk /\ out = <<>> /\ answer = Pending

Next ==
  \/ Scan /\ UNCHANGED pfsVars
  \/ OpenVolume \/ Probe \/ ReadInode \/ Read
  \/ LoadSegment \/ TakeBlock \/ EndWalk \/ CopyPiece \/ EndCopy

Spec == Init /\ [][Next]_vars
-----------------------------------------------------------------------------
(* What a file holds, said without walks, runs and batches.                *)

\* Segment(k) is the SEGI that k next links lead to, or no record.
SegmentChain ==
  LET chain[k \in 0 .. inode.numberData] ==
        IF k = 0 THEN inode
        ELSE IF chain[k - 1].kind # "none" /\ IsSegment(chain[k - 1].next)
        THEN RecordAt(chain[k - 1].next) ELSE NoRecord
  IN  chain

IsMetadata(g) == g >= InodeMaxBlocks /\ (g - InodeMaxBlocks) % IndirectMaxBlocks = 0

\* The zones descriptor g stands for.
ZonesOfBlock(chain, g) ==
  LET k == IF g < InodeMaxBlocks THEN 0 ELSE 1 + ((g - InodeMaxBlocks) \div IndirectMaxBlocks)
      i == IF g < InodeMaxBlocks THEN g ELSE (g - InodeMaxBlocks) % IndirectMaxBlocks
  IN  IF IsMetadata(g) \/ chain[k].kind = "none" THEN <<>>
      ELSE LET b == chain[k].data[i]
           IN  [z \in 1 .. b.count |-> [subpart |-> b.subpart, number |-> b.number + z - 1]]

\* The zones of the first g descriptors, in the order of the file.
Zones(chain, g) == FlattenSeq([i \in 1 .. g |-> ZonesOfBlock(chain, i)])

\* The descriptors up to g are there and reach the end of the request.
Reaches(chain, g) ==
  /\ Len(Zones(chain, g)) * ZoneBytes >= RequestEnd
  /\ \A i \in 1 .. g : IF IsMetadata(i)
                        THEN chain[1 + ((i - InodeMaxBlocks) \div IndirectMaxBlocks)].kind # "none"
                        ELSE ZonesOfBlock(chain, i) # <<>>

\* The bytes of the request, if the file has them all.
FileBytes(zones) ==
  LET ZoneOf(i) == zones[(i \div ZoneBytes) + 1]
      SectorOf(i) == ZoneOf(i).number * super.zoneSectors + ((i % ZoneBytes) \div SectorSize)
      wanted == request.offset .. (RequestEnd - 1)
  IN  IF \A i \in wanted : ZoneOf(i).subpart <= super.numSubs
                            /\ Readable(ZoneOf(i).subpart, SectorOf(i), 1)
      THEN [ok |-> TRUE,
            bytes |-> [j \in 1 .. request.length |->
                         LET i == request.offset + j - 1
                         IN  Physical(ZoneOf(i).subpart, SectorOf(i)) * SectorSize + (i % SectorSize)]]
      ELSE Failed

RightAnswer ==
  IF RequestEnd > inode.size THEN Failed
  ELSE IF request.length = 0 THEN [ok |-> TRUE, bytes |-> <<>>]
  ELSE LET chain == SegmentChain
           reach == { g \in 1 .. (inode.numberData - 1) : Reaches(chain, g) }
       IN  IF reach = {} THEN Failed
           ELSE LET g == CHOOSE m \in reach : \A n \in reach : m <= n
                    segments == { i \in 1 .. g : IsMetadata(i) }
                IN  IF inode.segments # 0 /\ Cardinality(segments) > inode.segments THEN Failed
                    ELSE FileBytes(Zones(chain, g))
-----------------------------------------------------------------------------
TypeOK ==
  /\ ScanTypeOK
  /\ bad \subseteq 0 .. (DeviceSize - 1)
  /\ reading \in {"closed", "probe", "open", "walk", "copy", "done"}
  /\ reading # "closed" => extents # <<>>
  /\ request \in Requests \cup {NoRequest}
  /\ walk.global \in Nat /\ walk.logical \in Nat /\ walk.loaded \in Nat
  /\ \A i \in DOMAIN walk.runs : walk.runs[i].block.count \in 1 .. MaxRun
  /\ Len(out) <= request.length

\* A read gives exactly the bytes of the file: across zones, main and
\* sub-partitions, inode and SEGI records, aligned or not; and it fails only
\* if one of them cannot be read or the descriptors that lead to it are
\* damaged, not for what lies behind the request.
AnswerIsContent == reading = "done" => answer = RightAnswer

\* No descriptor, however damaged, makes a read show a byte from outside the
\* extents of its partition.
BytesOfPartition ==
  \A i \in DOMAIN out : \E e \in DOMAIN extents :
    out[i] \div SectorSize \in extents[e].start .. (extents[e].start + extents[e].length - 1)
=============================================================================
