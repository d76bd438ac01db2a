------------------------------- MODULE ApaScan -------------------------------
(***************************************************************************)
(* apa::Reader::scan(): the walk along the chain of partition headers of a *)
(* disk that may be damaged in any way, and build_partition_catalog().     *)
(*                                                                         *)
(* All sizes and places are in sectors.  A header that cannot be used      *)
(* (unreadable, wrong magic or checksum) is not sound, however it came to  *)
(* that: every such header ends the walk with one error.                   *)
(***************************************************************************)
EXTENDS Naturals, FiniteSets, Sequences, SequencesExt

CONSTANTS
  DeviceSize,  \* sectors of the device
  HeaderSize,  \* kHeaderSize, two sectors
  MaxSub,      \* kMaxSub, 64
  MaxHeaders,  \* max_headers
  Disks        \* the disks to start from: from places to headers

Extent == [start : Nat, length : Nat]
Header ==
  [sound : BOOLEAN, sony : BOOLEAN, start : Nat, length : Nat, next : Nat, prev : Nat,
   type : {"mbr", "pfs", "hdl", "free", "other"}, isSub : BOOLEAN,
   nsub : Nat, subs : [1 .. MaxSub -> Extent]]

ASSUME ScanSizes ==
  /\ DeviceSize \in Nat /\ HeaderSize \in Nat \ {0}
  /\ MaxSub \in Nat /\ MaxHeaders \in Nat \ {0}
ASSUME DiskFacts ==
  \A disk \in Disks : DOMAIN disk \subseteq Nat /\ \A at \in DOMAIN disk : disk[at] \in Header

VARIABLES
  headers,    \* the headers on the disk; other places hold none
  scanning,   \* "mbr", "walk" or "done"
  mbrValid,   \* ScanResult::mbr_valid
  partitions, \* ScanResult::partitions
  issues,     \* ScanResult::issues
  lba,        \* current_lba
  walked,     \* visited, in the order of insertion
  expected    \* expected_prev

resultVars == <<mbrValid, partitions, issues>>
walkVars == <<lba, walked, expected>>
scanVars == <<headers, scanning, resultVars, walkVars>>

\* range_fits(), sector_extent_fits()
RangeFits(start, length) == start <= DeviceSize /\ length <= DeviceSize - start
ExtentFits(e) == RangeFits(e.start, e.length)

\* read_header() and the checks of magic and checksum.
Sound(at) == RangeFits(at, HeaderSize) /\ at \in DOMAIN headers /\ headers[at].sound

Issue(severity, at, what) == [severity |-> severity, lba |-> at, what |-> what]
Error(at, what) == Issue("error", at, what)
Warning(at, what) == Issue("warning", at, what)

\* ScanResult::ok()
Ok == mbrValid /\ \A i \in issues : i.severity # "error"

\* nsub may exceed what the header has room for.
Subs(h) == SubSeq(h.subs, 1, IF h.nsub <= MaxSub THEN h.nsub ELSE MaxSub)

TotalSectors(h) == FoldLeft(LAMBDA n, s : n + s.length, h.length, Subs(h))

\* What the result says of a header: struct Partition.
PartitionOf(h) ==
  [start |-> h.start, length |-> h.length, type |-> h.type, isSub |-> h.isSub,
   subs |-> Subs(h), total |-> TotalSectors(h)]

\* Bug variant: the sub-partitions are not looked at.
MainOutside(h) == ~ExtentFits(h)

\* An extent, of the partition or of a sub-partition, leaves the device.
Outside(h) == ~ExtentFits(h) \/ \E i \in DOMAIN Subs(h) : ~ExtentFits(Subs(h)[i])

\* What is wrong with a sound header.
Departures(at) ==
  LET h == headers[at]
      warnings == { what \in {"start", "prev", "nsub"} :
                      \/ what = "start" /\ h.start # at
                      \/ what = "prev" /\ partitions # <<>> /\ h.prev # expected
                      \/ what = "nsub" /\ h.nsub > MaxSub }
  IN  { Warning(at, what) : what \in warnings }
        \cup (IF Outside(h) THEN {Error(at, "extent")} ELSE {})

ScanInit ==
  /\ headers \in Disks
  /\ scanning = "mbr" /\ mbrValid = FALSE /\ partitions = <<>> /\ issues = {}
  /\ lba = 0 /\ walked = <<>> /\ expected = 0

\* The walk ends with an error.
Stop(error) ==
  /\ scanning' = "done"
  /\ issues' = issues \cup {error}
  /\ UNCHANGED <<mbrValid, partitions>>

\* The header at LBA 0, whose next links start the walk.
ReadMbr ==
  /\ scanning = "mbr"
  /\ IF Sound(0) /\ headers[0].sony
     THEN /\ mbrValid' = TRUE /\ scanning' = "walk"
          /\ expected' = headers[0].prev
          /\ UNCHANGED <<partitions, issues>>
     ELSE Stop(Error(0, "mbr")) /\ UNCHANGED expected
  /\ UNCHANGED <<headers, lba, walked>>

\* Bug variant: the walk ends only where the chain closes.
VisitedNever == FALSE

\* visited.insert() finds the place in the set.
VisitedBefore == \E i \in DOMAIN walked : walked[i] = lba

\* The next link lies on the device: go there, unless that is one too many.
Follow(next, found) ==
  /\ expected' = lba /\ lba' = next
  /\ IF Len(partitions) + 1 = MaxHeaders
     THEN scanning' = "done" /\ issues' = found \cup {Error(next, "limit")}
     ELSE issues' = found /\ UNCHANGED scanning

\* The rest of an iteration, for a sound header.
Keep(h) ==
  LET found == issues \cup Departures(lba) IN
  /\ partitions' = Append(partitions, PartitionOf(h))
  /\ \/ h.next = 0 /\ scanning' = "done" /\ issues' = found /\ UNCHANGED <<lba, expected>>
     \/ /\ h.next # 0 /\ ~RangeFits(h.next, HeaderSize)
        /\ scanning' = "done" /\ issues' = found \cup {Error(h.next, "next")}
        /\ UNCHANGED <<lba, expected>>
     \/ h.next # 0 /\ RangeFits(h.next, HeaderSize) /\ Follow(h.next, found)
  /\ UNCHANGED mbrValid

\* One iteration of the loop.
Visit ==
  /\ scanning = "walk"
  /\ IF VisitedBefore
     THEN Stop(Error(lba, "cycle")) /\ UNCHANGED walkVars
     ELSE /\ walked' = Append(walked, lba)
          /\ IF Sound(lba) THEN Keep(headers[lba])
                           ELSE Stop(Error(lba, "header")) /\ UNCHANGED <<lba, expected>>
  /\ UNCHANGED headers

Scan == ReadMbr \/ Visit
-----------------------------------------------------------------------------
(* The catalog the frontends list, built from the partitions found.        *)

NoEntries ==
  [entries |-> <<>>, mains |-> 0, subs |-> 0, hdl |-> 0, pfs |-> 0,
   hdlSectors |-> 0, pfsSectors |-> 0, freeSectors |-> 0]

\* Bug variant: headers of sub-partitions are counted as well.
AnyOfType(p, type) == p.type = type

\* The loop goes on to the next header before the switch for a sub-partition.
MainOfType(p, type) == ~p.isSub /\ p.type = type

\* One iteration, for a partition found.
Entered(catalog, p, all) ==
  LET One(counted) == IF counted THEN 1 ELSE 0
      Sectors(type) == IF MainOfType(p, type) THEN p.total ELSE 0
  IN  [entries |-> IF all \/ ~p.isSub THEN Append(catalog.entries, p) ELSE catalog.entries,
       mains |-> catalog.mains + One(~p.isSub), subs |-> catalog.subs + One(p.isSub),
       hdl |-> catalog.hdl + One(MainOfType(p, "hdl")),
       pfs |-> catalog.pfs + One(MainOfType(p, "pfs")),
       hdlSectors |-> catalog.hdlSectors + Sectors("hdl"),
       pfsSectors |-> catalog.pfsSectors + Sectors("pfs"),
       freeSectors |-> catalog.freeSectors + Sectors("free")]

\* build_partition_catalog()
Catalog(all) ==
  FoldLeft(LAMBDA catalog, p : Entered(catalog, p, all), NoEntries, partitions)
-----------------------------------------------------------------------------
ScanTypeOK ==
  /\ scanning \in {"mbr", "walk", "done"} /\ mbrValid \in BOOLEAN
  /\ lba \in Nat /\ expected \in Nat
  /\ walked \in Seq(Nat) /\ Len(walked) <= MaxHeaders
  /\ Len(partitions) \in {Len(walked), Len(walked) - 1}
  /\ scanning = "walk" => Len(partitions) < MaxHeaders

\* Whatever the links say, the partitions found are those of the headers met
\* by following next from the MBR, in that order and none of them twice.
PartitionsFollowChain ==
  /\ \A i \in DOMAIN partitions :
       /\ Sound(walked[i])
       /\ partitions[i] = PartitionOf(headers[walked[i]])
  /\ partitions # <<>> => walked[1] = 0
  /\ \A i \in DOMAIN walked : i > 1 => walked[i] = headers[walked[i - 1]].next
  /\ \A i, j \in DOMAIN walked : i # j => walked[i] # walked[j]

\* A disk without a fatal fault, said without the walk: a chain of different
\* sound headers leads from the MBR through all its next links back to 0, and
\* all it describes lies on the device.
Chains ==
  UNION { { c \in [1 .. n -> DOMAIN headers] : c[1] = 0 } : n \in 1 .. MaxHeaders }
OnDevice(h) ==
  \A e \in {[start |-> h.start, length |-> h.length]} \cup Range(Subs(h)) :
    e.start + e.length <= DeviceSize
Intact ==
  /\ Sound(0) /\ headers[0].sony
  /\ \E c \in Chains :
       /\ \A i \in DOMAIN c : Sound(c[i]) /\ OnDevice(headers[c[i]])
       /\ \A i, j \in DOMAIN c : i # j => c[i] # c[j]
       /\ \A i \in DOMAIN c : headers[c[i]].next = IF i = Len(c) THEN 0 ELSE c[i + 1]

\* ok() says exactly whether the disk is intact: no damage of any header goes
\* unnoticed and none is made up, and then the result covers the whole chain.
OkMeansIntact ==
  scanning = "done" =>
    /\ Ok <=> Intact
    /\ Ok => headers[walked[Len(partitions)]].next = 0

\* On a disk whose sub-partitions are each listed by one main of their type,
\* the sectors the catalog counts for a type are those of all its headers:
\* none is counted by its own header and by its main, and none is left out.
SubHeaders == { s \in DOMAIN partitions : partitions[s].isSub }
Described ==
  { o \in (DOMAIN partitions) \X (1 .. MaxSub) :
      ~partitions[o[1]].isSub /\ o[2] \in DOMAIN partitions[o[1]].subs }
Describes(o, s) ==
  LET e == partitions[o[1]].subs[o[2]] IN
  /\ partitions[o[1]].type = partitions[s].type
  /\ e.start = partitions[s].start /\ e.length = partitions[s].length
Consistent ==
  /\ \A s \in SubHeaders : Cardinality({ o \in Described : Describes(o, s) }) = 1
  /\ \A o \in Described : Cardinality({ s \in SubHeaders : Describes(o, s) }) = 1

SectorsOfType(type) ==
  FoldLeft(LAMBDA n, p : IF p.type = type THEN n + p.length ELSE n, 0, partitions)

CatalogCountsOnce ==
  scanning = "done" /\ Consistent =>
    /\ Catalog(TRUE).hdlSectors = SectorsOfType("hdl")
    /\ Catalog(TRUE).pfsSectors = SectorsOfType("pfs")
    /\ Catalog(FALSE).mains + Catalog(FALSE).subs = Len(Catalog(TRUE).entries)
=============================================================================
