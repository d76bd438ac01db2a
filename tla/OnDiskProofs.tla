---------------------------- MODULE OnDiskProofs ----------------------------
(***************************************************************************)
(* Theorems about the scan of a disk and the reads of the files on it, for *)
(* every disk, however damaged, every contents of its PFS partitions and   *)
(* every request.                                                          *)
(*                                                                         *)
(* The first part is about the steps of ApaScan, the second about those of *)
(* PfsRead, with the theorems that rest on the invariant IInv.  The third  *)
(* is about what a read answers: the recursive definitions of the model    *)
(* step by step, the zones of a file, the runs the walk makes of them, and *)
(* the invariant ContentInv, which needs IInv in each of its steps.  The   *)
(* last is about the catalog: what a fold comes to, prefix by prefix, and  *)
(* the counting of sectors by a bijection.                                 *)
(***************************************************************************)
EXTENDS PfsRead, FiniteSetTheorems, SequenceTheorems, TLAPS

USE DEF resultVars, walkVars, scanVars

Parts == { PartitionOf(h) : h \in Header }

NoError == \A i \in issues : i.severity # "error"

ScanTypes ==
  /\ headers \in Disks
  /\ scanning \in {"mbr", "walk", "done"} /\ mbrValid \in BOOLEAN
  /\ lba \in Nat /\ expected \in Nat
  /\ walked \in Seq(Nat) /\ partitions \in Seq(Parts)

\* How the locals of the walk fit together.
WalkShape ==
  /\ scanning = "mbr" => walked = <<>> /\ partitions = <<>> /\ lba = 0 /\ issues = {} /\ ~mbrValid
  /\ Len(partitions) \in {Len(walked), Len(walked) - 1}
  /\ Len(walked) <= MaxHeaders
  /\ scanning = "walk" =>
       /\ mbrValid
       /\ Len(partitions) = Len(walked) /\ Len(walked) < MaxHeaders
       /\ lba = IF walked = <<>> THEN 0 ELSE headers[walked[Len(walked)]].next

\* What a result without errors has seen.
NothingMissed ==
  /\ mbrValid => Sound(0) /\ headers[0].sony
  /\ NoError => \A i \in DOMAIN partitions : ~Outside(headers[walked[i]])
  /\ scanning = "done" /\ mbrValid /\ NoError =>
       /\ partitions # <<>> /\ Len(partitions) = Len(walked)
       /\ headers[walked[Len(walked)]].next = 0

\* A chain of n headers c makes the disk intact.
Proves(c, n) ==
  /\ c \in [1 .. n -> DOMAIN headers] /\ c[1] = 0
  /\ \A i \in 1 .. n : Sound(c[i]) /\ ~Outside(headers[c[i]])
  /\ \A i, j \in 1 .. n : i # j => c[i] # c[j]
  /\ \A i \in 1 .. n : headers[c[i]].next = IF i = n THEN 0 ELSE c[i + 1]

\* On an intact disk the walk goes along its chain and finds no error.
NothingMadeUp ==
  Sound(0) /\ headers[0].sony =>
    \A n \in 1 .. MaxHeaders : \A c \in [1 .. n -> DOMAIN headers] : Proves(c, n) =>
      /\ NoError /\ (scanning # "mbr" => mbrValid)
      /\ Len(walked) <= n /\ \A i \in 1 .. Len(walked) : walked[i] = c[i]
      /\ scanning = "walk" => Len(walked) < n /\ lba = c[Len(walked) + 1]

ScanInv ==
  ScanTypes /\ WalkShape /\ PartitionsFollowChain /\ NothingMissed /\ NothingMadeUp
-----------------------------------------------------------------------------
LEMMA HeaderFacts ==
  ASSUME ScanTypes, NEW at, at \in DOMAIN headers
  PROVE  headers[at] \in Header /\ at \in Nat
BY DiskFacts DEF ScanTypes

LEMMA ErrorCounts ==
  ASSUME NEW at, NEW what, Error(at, what) \in issues'
  PROVE  ~NoError'
<1>1. Error(at, what).severity = "error"
  BY DEF Error, Issue
<1>. QED BY <1>1 DEF NoError

\* The disk does not change, nor what can be said of it.
LEMMA SameDisk ==
  ASSUME headers' = headers
  PROVE  /\ \A at : Sound(at)' <=> Sound(at)
         /\ \A n, c : Proves(c, n)' <=> Proves(c, n)
<1>1. \A at : Sound(at)' <=> Sound(at)
  BY DEF Sound
<1>. QED BY <1>1 DEF Proves

LEMMA SubsType ==
  ASSUME NEW h \in Header
  PROVE  Subs(h) \in Seq(Extent)
<1>1. h.subs \in [1 .. MaxSub -> Extent] /\ MaxSub \in Nat /\ h.nsub \in Nat
  BY ScanSizes DEF Header
<1>2. h.subs \in Seq(Extent) /\ Len(h.subs) = MaxSub
  BY <1>1
<1>. QED BY <1>1, <1>2 DEF Subs

\* An extent lies on the device, or leaves it.
LEMMA OutsideIsNotOnDevice ==
  ASSUME NEW h \in Header
  PROVE  OnDevice(h) <=> ~Outside(h)
<1>1. Subs(h) \in Seq(Extent)
  BY SubsType
<1>2. \A i \in DOMAIN Subs(h) : Subs(h)[i] \in Extent
  BY <1>1
<1>3. ASSUME NEW e \in Extent PROVE ExtentFits(e) <=> e.start + e.length <= DeviceSize
  BY ScanSizes DEF ExtentFits, RangeFits, Extent
<1>4. h.start \in Nat /\ h.length \in Nat
  BY DEF Header
<1>5. ExtentFits(h) <=> h.start + h.length <= DeviceSize
  BY <1>4, ScanSizes DEF ExtentFits, RangeFits
<1>6. OnDevice(h) <=> /\ h.start + h.length <= DeviceSize
                      /\ \A i \in DOMAIN Subs(h) : Subs(h)[i].start + Subs(h)[i].length <= DeviceSize
  <2> DEFINE own == [start |-> h.start, length |-> h.length]
  <2>1. Range(Subs(h)) = { Subs(h)[i] : i \in DOMAIN Subs(h) }
    BY DEF Range
  <2>2. OnDevice(h) <=> /\ own.start + own.length <= DeviceSize
                        /\ \A e \in Range(Subs(h)) : e.start + e.length <= DeviceSize
    BY DEF OnDevice
  <2>3. own.start = h.start /\ own.length = h.length
    OBVIOUS
  <2>. QED BY <2>1, <2>2, <2>3
<1>. QED BY <1>2, <1>3, <1>5, <1>6 DEF Outside
-----------------------------------------------------------------------------
LEMMA ScanInitInv == ScanInit => ScanInv
<1>. SUFFICES ASSUME ScanInit PROVE ScanInv
  OBVIOUS
<1>1. ScanTypes
  <2>. HIDE DEF Parts
  <2>1. <<>> \in Seq(Nat) /\ <<>> \in Seq(Parts)
    OBVIOUS
  <2>. QED BY <2>1 DEF ScanInit, ScanTypes
<1>5. WalkShape
  <2>1. Len(<<>>) = 0 /\ 0 <= MaxHeaders
    BY ScanSizes
  <2>. QED BY <2>1 DEF ScanInit, WalkShape
<1>2. PartitionsFollowChain
  BY DEF ScanInit, PartitionsFollowChain
<1>3. NothingMissed
  BY DEF ScanInit, NothingMissed
<1>4. NothingMadeUp
  BY DEF ScanInit, NothingMadeUp, NoError
<1>. QED BY <1>1, <1>2, <1>3, <1>4, <1>5 DEF ScanInv

LEMMA ScanStays == ScanInv /\ UNCHANGED scanVars => ScanInv'
<1>. SUFFICES ASSUME ScanInv, UNCHANGED scanVars PROVE ScanInv'
  OBVIOUS
<1>. USE DEF ScanInv
<1>1. ScanTypes' /\ WalkShape'
  BY DEF ScanTypes, WalkShape
<1>2. PartitionsFollowChain'
  BY DEF PartitionsFollowChain, Sound
<1>3. NothingMissed' /\ NothingMadeUp'
  BY DEF NothingMissed, NothingMadeUp, Proves, Sound, NoError
<1>. QED BY <1>1, <1>2, <1>3

LEMMA ReadMbrStep == ScanInv /\ ReadMbr => ScanInv'
<1>. SUFFICES ASSUME ScanInv, ReadMbr PROVE ScanInv'
  OBVIOUS
<1>. USE DEF ScanInv
<1>1. /\ headers' = headers /\ lba' = lba /\ walked' = walked /\ partitions' = partitions
      /\ walked = <<>> /\ partitions = <<>> /\ lba = 0 /\ issues = {} /\ ~mbrValid
      /\ (Sound(0) <=> Sound(0)')
  BY DEF ReadMbr, Stop, WalkShape, Sound
<1>2. CASE Sound(0) /\ headers[0].sony
  <2>1. mbrValid' = TRUE /\ scanning' = "walk" /\ expected' = headers[0].prev /\ issues' = issues
    BY <1>2 DEF ReadMbr
  <2>2. headers[0].prev \in Nat
    BY <1>2, HeaderFacts DEF Sound, Header
  <2>3. ScanTypes' /\ WalkShape'
    BY <1>1, <2>1, <2>2, ScanSizes DEF ScanTypes, WalkShape
  <2>4. PartitionsFollowChain' /\ NothingMissed'
    BY <1>1, <1>2, <2>1 DEF PartitionsFollowChain, NothingMissed
  <2>5. NothingMadeUp'
    BY <1>1, <2>1 DEF NothingMadeUp, NoError, Proves
  <2>. QED BY <2>3, <2>4, <2>5
<1>3. CASE ~(Sound(0) /\ headers[0].sony)
  <2>1. scanning' = "done" /\ issues' = issues \cup {Error(0, "mbr")} /\ mbrValid' = mbrValid
        /\ expected' = expected
    BY <1>3 DEF ReadMbr, Stop
  <2>2. ScanTypes' /\ WalkShape'
    BY <1>1, <2>1, ScanSizes DEF ScanTypes, WalkShape
  <2>3. PartitionsFollowChain' /\ NothingMissed' /\ NothingMadeUp'
    BY <1>1, <1>3, <2>1 DEF PartitionsFollowChain, NothingMissed, NothingMadeUp
  <2>. QED BY <2>2, <2>3
<1>. QED BY <1>2, <1>3
-----------------------------------------------------------------------------
(* One iteration of the walk.                                              *)

\* An iteration that goes on at a place not met before.
Fresh == /\ ScanInv /\ Visit /\ ~VisitedBefore

LEMMA FreshFacts ==
  ASSUME Fresh
  PROVE  /\ scanning = "walk" /\ mbrValid /\ headers' = headers /\ lba \in Nat
         /\ Len(walked) \in Nat /\ Len(walked) < MaxHeaders /\ MaxHeaders \in Nat
         /\ walked' = Append(walked, lba) /\ walked' \in Seq(Nat)
         /\ Len(walked') = Len(walked) + 1
         /\ \A i \in 1 .. Len(walked) : walked'[i] = walked[i]
         /\ walked'[Len(walked) + 1] = lba
         /\ DOMAIN walked = 1 .. Len(walked) /\ DOMAIN walked' = 1 .. (Len(walked) + 1)
         /\ Len(partitions) = Len(walked) /\ DOMAIN partitions = 1 .. Len(walked)
<1>. USE DEF Fresh, ScanInv
<1>1. scanning = "walk" /\ headers' = headers /\ walked' = Append(walked, lba)
  BY DEF Visit
<1>2. walked \in Seq(Nat) /\ lba \in Nat /\ MaxHeaders \in Nat
  BY ScanSizes DEF ScanTypes
<1>3. mbrValid /\ Len(partitions) = Len(walked) /\ Len(walked) < MaxHeaders
  BY <1>1 DEF WalkShape
<1>4. DOMAIN partitions = 1 .. Len(partitions)
  <2>. HIDE DEF Parts
  <2>. QED BY DEF ScanTypes
<1>. QED BY <1>1, <1>2, <1>3, <1>4

\* The places stay a path along the links, and each occurs once.
LEMMA FreshPath ==
  ASSUME Fresh
  PROVE  /\ walked'[1] = 0
         /\ \A i \in DOMAIN walked' : i > 1 => walked'[i] = headers'[walked'[i - 1]].next
         /\ \A i, j \in DOMAIN walked' : i # j => walked'[i] # walked'[j]
<1>. USE FreshFacts
<1>1. walked = <<>> => Len(walked) = 0 /\ lba = 0
  BY DEF Fresh, ScanInv, WalkShape
<1>2. walked # <<>> => Len(walked) > 0 /\ lba = headers[walked[Len(walked)]].next
  <2>1. walked \in Seq(Nat)
    BY DEF Fresh, ScanInv, ScanTypes
  <2>. QED BY <2>1 DEF Fresh, ScanInv, WalkShape
<1>3. walked # <<>> => walked[1] = 0
  <2>1. walked # <<>> => partitions # <<>>
    BY <1>2
  <2>. QED BY <2>1 DEF Fresh, ScanInv, PartitionsFollowChain
<1>4. walked'[1] = 0
  BY <1>1, <1>2, <1>3
<1>5. ASSUME NEW i \in DOMAIN walked', i > 1
      PROVE  walked'[i] = headers'[walked'[i - 1]].next
  <2>1. CASE i \in 1 .. Len(walked)
    <3>1. i - 1 \in 1 .. Len(walked)
      BY <1>5, <2>1
    <3>2. walked[i] = headers[walked[i - 1]].next
      BY <1>5, <2>1 DEF Fresh, ScanInv, PartitionsFollowChain
    <3>. QED BY <2>1, <3>1, <3>2
  <2>2. CASE i = Len(walked) + 1
    <3>1. walked # <<>> /\ i - 1 = Len(walked) /\ Len(walked) \in 1 .. Len(walked)
      BY <1>5, <2>2, <1>1
    <3>. QED BY <1>2, <2>2, <3>1
  <2>. QED BY <2>1, <2>2
<1>6. \A i \in 1 .. Len(walked) : walked[i] # lba
  BY DEF Fresh, VisitedBefore
<1>7. \A i, j \in 1 .. Len(walked) : i # j => walked[i] # walked[j]
  BY DEF Fresh, ScanInv, PartitionsFollowChain
<1>8. \A i, j \in DOMAIN walked' : i # j => walked'[i] # walked'[j]
  BY <1>6, <1>7
<1>. QED BY <1>4, <1>5, <1>8

\* On an intact disk the place of a walk is the next of its chain, not met before.
LEMMA OnTheChain ==
  ASSUME ScanInv, scanning = "walk", Sound(0), headers[0].sony,
         NEW n \in 1 .. MaxHeaders, NEW c \in [1 .. n -> DOMAIN headers], Proves(c, n)
  PROVE  /\ NoError /\ mbrValid /\ Len(walked) \in Nat /\ n \in Nat /\ n <= MaxHeaders
         /\ Len(walked) < n /\ lba = c[Len(walked) + 1]
         /\ \A i \in 1 .. Len(walked) : walked[i] = c[i]
         /\ ~VisitedBefore /\ Sound(lba) /\ ~Outside(headers[lba])
         /\ headers[lba].next = IF Len(walked) + 1 = n THEN 0 ELSE c[Len(walked) + 2]
<1>1. /\ NoError /\ mbrValid /\ Len(walked) < n /\ lba = c[Len(walked) + 1]
      /\ \A i \in 1 .. Len(walked) : walked[i] = c[i]
  BY DEF ScanInv, NothingMadeUp
<1>2. walked \in Seq(Nat) /\ Len(walked) \in Nat /\ DOMAIN walked = 1 .. Len(walked)
  BY DEF ScanInv, ScanTypes
<1>3. n \in Nat /\ n <= MaxHeaders /\ Len(walked) + 1 \in 1 .. n
  BY <1>1, <1>2, ScanSizes
<1>4. Sound(lba) /\ ~Outside(headers[lba])
  BY <1>1, <1>3 DEF Proves
<1>5. \A i \in 1 .. Len(walked) : i \in 1 .. n /\ i # Len(walked) + 1
  BY <1>2, <1>3
<1>6. ~VisitedBefore
  BY <1>1, <1>2, <1>3, <1>5 DEF Proves, VisitedBefore
<1>7. headers[lba].next = IF Len(walked) + 1 = n THEN 0 ELSE c[(Len(walked) + 1) + 1]
  BY <1>1, <1>3 DEF Proves
<1>. QED BY <1>1, <1>2, <1>3, <1>4, <1>6, <1>7

\* Going where it has been, or meeting a header that is not sound.
LEMMA StopStep == ScanInv /\ Visit /\ (VisitedBefore \/ ~Sound(lba)) => ScanInv'
<1>. SUFFICES ASSUME ScanInv, Visit, VisitedBefore \/ ~Sound(lba) PROVE ScanInv'
  OBVIOUS
<1>1. PICK what \in {"cycle", "header"} :
        /\ scanning = "walk" /\ scanning' = "done" /\ issues' = issues \cup {Error(lba, what)}
        /\ UNCHANGED <<headers, mbrValid, partitions, lba, expected>>
        /\ walked' = IF VisitedBefore THEN walked ELSE Append(walked, lba)
  BY DEF Visit, Stop
<1>2. ~NoError'
  BY <1>1, ErrorCounts
<1>3. \A at : Sound(at)' <=> Sound(at)
  BY <1>1, SameDisk
<1>4. NothingMissed'
  BY <1>1, <1>2, <1>3 DEF ScanInv, NothingMissed
<1>5. NothingMadeUp'
  <2>. SUFFICES ASSUME Sound(0), headers[0].sony, NEW n \in 1 .. MaxHeaders,
                       NEW c \in [1 .. n -> DOMAIN headers], Proves(c, n)
                PROVE  FALSE
    BY <1>1, SameDisk DEF NothingMadeUp
  <2>. QED BY <1>1, OnTheChain
<1>6. CASE VisitedBefore
  <2>1. ScanTypes' /\ WalkShape'
    BY <1>1, <1>6, ScanSizes DEF ScanInv, ScanTypes, WalkShape
  <2>2. PartitionsFollowChain'
    BY <1>1, <1>3, <1>6 DEF ScanInv, PartitionsFollowChain
  <2>. QED BY <1>4, <1>5, <2>1, <2>2 DEF ScanInv
<1>7. CASE ~VisitedBefore
  <2>1. Fresh
    BY <1>7 DEF Fresh
  <2>2. ScanTypes'
    BY <1>1, <2>1, FreshFacts DEF ScanInv, ScanTypes
  <2>3. WalkShape'
    <3>1. Len(partitions') = Len(walked') - 1 /\ Len(walked') <= MaxHeaders
      <4>1. Len(partitions') = Len(partitions)
        BY <1>1
      <4>2. /\ Len(walked) \in Nat /\ Len(walked) < MaxHeaders /\ MaxHeaders \in Nat
            /\ Len(walked') = Len(walked) + 1 /\ Len(partitions) = Len(walked)
        BY <2>1, FreshFacts
      <4>. HIDE <1>1
      <4>. QED BY <4>1, <4>2
    <3>. QED BY <1>1, <3>1 DEF WalkShape
  <2>4. PartitionsFollowChain'
    <3>1. \A i \in DOMAIN partitions : Sound(walked[i]) /\ partitions[i] = PartitionOf(headers[walked[i]])
      BY DEF ScanInv, PartitionsFollowChain
    <3>2. \A i \in DOMAIN partitions : walked'[i] = walked[i]
      BY <2>1, FreshFacts
    <3>. QED BY <1>1, <1>3, <2>1, <3>1, <3>2, FreshPath DEF PartitionsFollowChain
  <2>. QED BY <1>4, <1>5, <2>2, <2>3, <2>4 DEF ScanInv
<1>. QED BY <1>6, <1>7

\* What is wrong with a header is an error exactly if an extent leaves the device.
LEMMA DepartureErrors ==
  ASSUME NEW at
  PROVE  (\E i \in Departures(at) : i.severity = "error") <=> Outside(headers[at])
<1> DEFINE warnings == { what \in {"start", "prev", "nsub"} :
                           \/ what = "start" /\ headers[at].start # at
                           \/ what = "prev" /\ partitions # <<>> /\ headers[at].prev # expected
                           \/ what = "nsub" /\ headers[at].nsub > MaxSub }
<1>1. Departures(at) = { Warning(at, what) : what \in warnings }
                         \cup (IF Outside(headers[at]) THEN {Error(at, "extent")} ELSE {})
  BY DEF Departures
<1>2. \A what : Warning(at, what).severity = "warning" /\ Error(at, what).severity = "error"
  BY DEF Warning, Error, Issue
<1>. HIDE DEF warnings
<1>. QED BY <1>1, <1>2

\* A sound header at a new place: what an iteration leaves behind.
LEMMA KeepFacts ==
  ASSUME Fresh, Sound(lba)
  PROVE  /\ headers[lba] \in Header /\ lba \in DOMAIN headers
         /\ partitions' = Append(partitions, PartitionOf(headers[lba]))
         /\ partitions' \in Seq(Parts) /\ Len(partitions') = Len(walked) + 1
         /\ DOMAIN partitions' = 1 .. (Len(walked) + 1)
         /\ \A i \in 1 .. Len(walked) : partitions'[i] = partitions[i]
         /\ partitions'[Len(walked) + 1] = PartitionOf(headers[lba])
         /\ mbrValid' /\ issues \subseteq issues' /\ Departures(lba) \subseteq issues'
         /\ scanning' \in {"walk", "done"} /\ lba' \in Nat /\ expected' \in Nat
<1>1. lba \in DOMAIN headers /\ headers[lba] \in Header
  BY HeaderFacts DEF Fresh, ScanInv, Sound
<1>2. PartitionOf(headers[lba]) \in Parts
  BY <1>1 DEF Parts
<1>3. Keep(headers[lba])
  BY DEF Fresh, Visit
<1>4. partitions \in Seq(Parts) /\ lba \in Nat /\ expected \in Nat
  BY DEF Fresh, ScanInv, ScanTypes
<1>5. partitions' = Append(partitions, PartitionOf(headers[lba]))
  BY <1>3 DEF Keep
<1>6. /\ partitions' \in Seq(Parts) /\ Len(partitions') = Len(partitions) + 1
      /\ \A i \in 1 .. Len(partitions) : partitions'[i] = partitions[i]
      /\ partitions'[Len(partitions) + 1] = PartitionOf(headers[lba])
      /\ DOMAIN partitions' = 1 .. (Len(partitions) + 1)
  <2>. HIDE DEF Parts
  <2>. QED BY <1>2, <1>4, <1>5
<1>7. Len(partitions) = Len(walked) /\ mbrValid /\ scanning = "walk"
  BY FreshFacts
<1>8. mbrValid' /\ scanning' \in {"walk", "done"}
  BY <1>3, <1>7 DEF Keep, Follow
<1>9. issues \subseteq issues' /\ Departures(lba) \subseteq issues'
  BY <1>3 DEF Keep, Follow
<1>10. lba' \in {lba, headers[lba].next} /\ expected' \in {expected, lba}
  BY <1>3 DEF Keep, Follow
<1>11. headers[lba].next \in Nat
  BY <1>1 DEF Header
<1>. QED BY <1>1, <1>4, <1>5, <1>6, <1>7, <1>8, <1>9, <1>10, <1>11

\* How an iteration ends: at the end of the chain, with an error, or going on.
LEMMA KeepOutcomes ==
  ASSUME Fresh, Sound(lba)
  PROVE  \/ /\ scanning' = "done" /\ headers[lba].next = 0
            /\ issues' = issues \cup Departures(lba)
         \/ /\ scanning' = "done" /\ ~NoError' /\ headers[lba].next # 0
            /\ \/ ~RangeFits(headers[lba].next, HeaderSize)
               \/ Len(walked) + 1 = MaxHeaders
         \/ /\ scanning' = "walk" /\ headers[lba].next # 0 /\ lba' = headers[lba].next
            /\ Len(walked) + 1 # MaxHeaders
            /\ issues' = issues \cup Departures(lba)
<1>1. Keep(headers[lba])
  BY DEF Fresh, Visit
<1>2. Len(partitions) = Len(walked) /\ scanning = "walk"
  BY FreshFacts
<1>3. CASE headers[lba].next = 0
  BY <1>1, <1>3 DEF Keep
<1>4. CASE headers[lba].next # 0 /\ ~RangeFits(headers[lba].next, HeaderSize)
  BY <1>1, <1>4, ErrorCounts DEF Keep
<1>5. CASE headers[lba].next # 0 /\ RangeFits(headers[lba].next, HeaderSize)
  <2>1. Follow(headers[lba].next, issues \cup Departures(lba))
    BY <1>1, <1>5 DEF Keep
  <2>2. CASE Len(walked) + 1 = MaxHeaders
    <3>1. scanning' = "done" /\ Error(headers[lba].next, "limit") \in issues'
      BY <1>2, <2>1, <2>2 DEF Follow
    <3>2. ~NoError'
      BY <3>1, ErrorCounts
    <3>. QED BY <1>5, <2>2, <3>1, <3>2
  <2>3. CASE Len(walked) + 1 # MaxHeaders
    BY <1>2, <1>5, <2>1, <2>3 DEF Follow
  <2>. QED BY <2>2, <2>3
<1>. QED BY <1>3, <1>4, <1>5

LEMMA KeepStep == Fresh /\ Sound(lba) => ScanInv'
<1>. SUFFICES ASSUME Fresh, Sound(lba) PROVE ScanInv'
  OBVIOUS
<1>. USE FreshFacts, KeepFacts
<1>1. ScanTypes'
  <2>. HIDE DEF Parts
  <2>. QED BY DEF Fresh, ScanInv, ScanTypes
<1>2. WalkShape'
  <2>1. scanning' = "walk" => Len(walked) + 1 # MaxHeaders /\ lba' = headers[lba].next
    BY KeepOutcomes
  <2>2. walked' # <<>>
    OBVIOUS
  <2>. QED BY <2>1, <2>2 DEF WalkShape
<1>3. PartitionsFollowChain'
  <2>1. \A i \in DOMAIN partitions' :
          Sound(walked'[i]) /\ partitions'[i] = PartitionOf(headers'[walked'[i]])
    <3>1. \A i \in 1 .. Len(walked) : Sound(walked[i]) /\ partitions[i] = PartitionOf(headers[walked[i]])
      BY DEF Fresh, ScanInv, PartitionsFollowChain
    <3>2. \A i \in 1 .. (Len(walked) + 1) : i \in 1 .. Len(walked) \/ i = Len(walked) + 1
      OBVIOUS
    <3>. QED BY <3>1, <3>2
  <2>2. \A i \in DOMAIN partitions' : (Sound(walked[i]))'
    BY <2>1 DEF Sound
  <2>3. walked'[1] = 0
    BY FreshPath
  <2>. QED BY <2>1, <2>2, <2>3, FreshPath DEF PartitionsFollowChain
<1>4. NoError' => NoError /\ ~Outside(headers[lba])
  BY DepartureErrors DEF NoError
<1>5. NothingMissed'
  <2>1. mbrValid' => Sound(0)' /\ headers'[0].sony
    BY SameDisk DEF Fresh, ScanInv, NothingMissed
  <2>2. NoError' => \A i \in DOMAIN partitions' : ~Outside(headers[walked'[i]])
    <3>1. NoError' => \A i \in 1 .. Len(walked) : ~Outside(headers[walked[i]])
      BY <1>4 DEF Fresh, ScanInv, NothingMissed
    <3>2. \A i \in 1 .. (Len(walked) + 1) : i \in 1 .. Len(walked) \/ i = Len(walked) + 1
      OBVIOUS
    <3>. QED BY <1>4, <3>1, <3>2
  <2>3. scanning' = "done" /\ NoError' => headers[lba].next = 0
    BY KeepOutcomes
  <2>4. Len(partitions') = Len(walked') /\ walked'[Len(walked')] = lba
    OBVIOUS
  <2>5. partitions' # <<>>
    <3>1. Len(walked) + 1 # 0
      OBVIOUS
    <3>. QED BY <3>1
  <2>. QED BY <2>1, <2>2, <2>3, <2>4, <2>5 DEF NothingMissed
<1>6. NothingMadeUp'
  <2>. SUFFICES ASSUME Sound(0), headers[0].sony, NEW n \in 1 .. MaxHeaders,
                       NEW c \in [1 .. n -> DOMAIN headers], Proves(c, n)
                PROVE  /\ NoError' /\ (scanning' # "mbr" => mbrValid')
                       /\ Len(walked') <= n /\ \A i \in 1 .. Len(walked') : walked'[i] = c[i]
                       /\ scanning' = "walk" => Len(walked') < n /\ lba' = c[Len(walked') + 1]
    BY SameDisk DEF NothingMadeUp
  <2>1. /\ NoError /\ n \in Nat /\ n <= MaxHeaders /\ Len(walked) < n
        /\ lba = c[Len(walked) + 1] /\ \A i \in 1 .. Len(walked) : walked[i] = c[i]
        /\ ~Outside(headers[lba])
        /\ headers[lba].next = IF Len(walked) + 1 = n THEN 0 ELSE c[Len(walked) + 2]
    BY OnTheChain DEF Fresh
  <2>2. headers[lba].next # 0 =>
          Len(walked) + 1 < n /\ headers[lba].next = c[Len(walked) + 2]
          /\ RangeFits(headers[lba].next, HeaderSize)
    <3>1. Len(walked) + 1 # n => Len(walked) + 2 \in 1 .. n
      BY <2>1
    <3>2. Len(walked) + 1 # n => Sound(c[Len(walked) + 2])
      BY <3>1 DEF Proves
    <3>. QED BY <2>1, <3>2 DEF Sound
  <2>3. issues' = issues \cup Departures(lba)
    BY <2>1, <2>2, KeepOutcomes
  <2>4. NoError'
    BY <2>1, <2>3, DepartureErrors DEF NoError
  <2>5. \A i \in 1 .. Len(walked') : walked'[i] = c[i]
    <3>1. \A i \in 1 .. Len(walked') : i \in 1 .. Len(walked) \/ i = Len(walked) + 1
      OBVIOUS
    <3>. QED BY <2>1, <3>1
  <2>6. scanning' = "walk" => headers[lba].next # 0 /\ lba' = headers[lba].next
    BY KeepOutcomes
  <2>. QED BY <2>1, <2>2, <2>4, <2>5, <2>6
<1>. QED BY <1>1, <1>2, <1>3, <1>5, <1>6 DEF ScanInv

LEMMA ScanStep == ScanInv /\ Scan => ScanInv'
BY ReadMbrStep, StopStep, KeepStep DEF Scan, Fresh
-----------------------------------------------------------------------------
(* What follows.                                                           *)

LEMMA ScanTypeOfInv == ScanInv => ScanTypeOK
BY DEF ScanInv, ScanTypes, WalkShape, ScanTypeOK

\* The places of a walk without errors are a chain that makes the disk intact.
LEMMA WalkIsChain ==
  ASSUME ScanInv, scanning = "done", Ok
  PROVE  Intact /\ headers[walked[Len(partitions)]].next = 0
<1> DEFINE n == Len(walked)
<1>1. mbrValid /\ NoError
  BY DEF Ok, NoError
<1>2. /\ Sound(0) /\ headers[0].sony
      /\ \A i \in DOMAIN partitions : ~Outside(headers[walked[i]])
      /\ partitions # <<>> /\ Len(partitions) = n /\ headers[walked[n]].next = 0
  BY <1>1 DEF ScanInv, NothingMissed
<1>3. /\ walked \in Seq(Nat) /\ n \in Nat /\ DOMAIN walked = 1 .. n /\ n <= MaxHeaders
      /\ DOMAIN partitions = 1 .. n /\ n # 0
  <2>. HIDE DEF Parts
  <2>. QED BY <1>2 DEF ScanInv, ScanTypes, WalkShape
<1>4. /\ walked[1] = 0
      /\ \A i \in 1 .. n : Sound(walked[i])
      /\ \A i \in 1 .. n : i > 1 => walked[i] = headers[walked[i - 1]].next
      /\ \A i, j \in 1 .. n : i # j => walked[i] # walked[j]
  BY <1>2, <1>3 DEF ScanInv, PartitionsFollowChain
<1>5. \A i \in 1 .. n : walked[i] \in DOMAIN headers /\ OnDevice(headers[walked[i]])
  BY <1>2, <1>3, <1>4, HeaderFacts, OutsideIsNotOnDevice DEF ScanInv, Sound
<1>6. walked \in Chains
  <2>1. walked \in [1 .. n -> DOMAIN headers] /\ n \in 1 .. MaxHeaders
    BY <1>3, <1>5, ScanSizes
  <2>. QED BY <1>4, <2>1 DEF Chains
<1>7. \A i \in 1 .. n : headers[walked[i]].next = IF i = n THEN 0 ELSE walked[i + 1]
  <2>. SUFFICES ASSUME NEW i \in 1 .. n, i # n PROVE headers[walked[i]].next = walked[i + 1]
    BY <1>2
  <2>. HIDE DEF n
  <2>1. i + 1 \in 1 .. n /\ i + 1 > 1 /\ (i + 1) - 1 = i
    BY <1>3
  <2>2. walked[i + 1] = headers[walked[(i + 1) - 1]].next
    BY <1>4, <2>1
  <2>. QED BY <2>1, <2>2
<1>8. \E c \in Chains :
        /\ \A i \in DOMAIN c : Sound(c[i]) /\ OnDevice(headers[c[i]])
        /\ \A i, j \in DOMAIN c : i # j => c[i] # c[j]
        /\ \A i \in DOMAIN c : headers[c[i]].next = IF i = Len(c) THEN 0 ELSE c[i + 1]
  <2>. HIDE DEF Chains
  <2>1. /\ \A i \in DOMAIN walked : Sound(walked[i]) /\ OnDevice(headers[walked[i]])
        /\ \A i, j \in DOMAIN walked : i # j => walked[i] # walked[j]
    BY <1>3, <1>4, <1>5
  <2>2. \A i \in DOMAIN walked : headers[walked[i]].next = IF i = Len(walked) THEN 0 ELSE walked[i + 1]
    BY <1>3, <1>7
  <2>. QED BY <1>6, <2>1, <2>2
<1>. QED BY <1>2, <1>8 DEF Intact

\* On an intact disk the walk ends without errors.
LEMMA IntactIsOk ==
  ASSUME ScanInv, scanning = "done", Intact
  PROVE  Ok
<1>1. PICK c \in Chains :
        /\ \A i \in DOMAIN c : Sound(c[i]) /\ OnDevice(headers[c[i]])
        /\ \A i, j \in DOMAIN c : i # j => c[i] # c[j]
        /\ \A i \in DOMAIN c : headers[c[i]].next = IF i = Len(c) THEN 0 ELSE c[i + 1]
  BY DEF Intact
<1>2. PICK n \in 1 .. MaxHeaders : c \in [1 .. n -> DOMAIN headers] /\ c[1] = 0
  BY DEF Chains
<1>3. DOMAIN c = 1 .. n /\ Len(c) = n
  BY <1>2, ScanSizes
<1>4. \A i \in 1 .. n : ~Outside(headers[c[i]])
  BY <1>1, <1>2, <1>3, HeaderFacts, OutsideIsNotOnDevice DEF ScanInv
<1>5. Proves(c, n)
  BY <1>1, <1>2, <1>3, <1>4 DEF Proves
<1>. QED BY <1>2, <1>5 DEF ScanInv, NothingMadeUp, Intact, Ok, NoError

LEMMA OkOfInv == ScanInv => OkMeansIntact
BY WalkIsChain, IntactIsOk DEF OkMeansIntact
-----------------------------------------------------------------------------
USE DEF diskVars, readVars, pfsVars

Records == Super \cup Inode \cup Segment
Runs == [block : [number : Nat, subpart : Nat, count : 1 .. MaxRun], logical : Nat]
Walks ==
  [global : Nat, logical : Nat, segment : Segment \cup {NoRecord}, next : Place,
   loaded : Nat, runs : Seq(Runs)]

DiskInv ==
  /\ bad \subseteq 0 .. (DeviceSize - 1)
  /\ \A at \in DOMAIN records : records[at] \in Records

\* What has been opened.
VolumeInv ==
  /\ reading \in {"closed", "probe", "open", "walk", "copy", "done"}
  /\ extents \in Seq(Extent)
  /\ reading # "closed" => extents # <<>>
  /\ reading \notin {"closed", "probe"} => super \in Super
  /\ inode = NoInode \/ inode \in Inode
  /\ reading \in {"walk", "copy"} => inode \in Inode

\* What is being read.
ReadInv ==
  /\ request \in Requests \cup {NoRequest}
  /\ walk \in Walks
  /\ reading = "walk" => walk.global # 0 /\ (walk.global > InodeMaxBlocks => walk.segment \in Segment)
  /\ out \in Seq(Nat) /\ Len(out) <= request.length
  /\ reading \notin {"copy", "done"} => out = <<>>

PfsInv == DiskInv /\ VolumeInv /\ ReadInv /\ BytesOfPartition
IInv == ScanInv /\ PfsInv
-----------------------------------------------------------------------------
(* Division, and where the bytes of a piece are.                           *)

\* Division with remainder.
LEMMA Remainder ==
  ASSUME NEW a \in Nat, NEW d \in Nat \ {0}
  PROVE  /\ a \div d \in Nat /\ a % d \in 0 .. (d - 1)
         /\ a = (a \div d) * d + (a % d) /\ (a \div d) * d \in Nat
  BY SMT

\* A byte of n sectors from sector p on lies in one of them.
LEMMA SectorOfByte ==
  ASSUME NEW d \in Nat \ {0}, NEW p \in Nat, NEW n \in Nat, NEW x \in Nat, x < n * d
  PROVE  (p * d + x) \div d \in p .. (p + n - 1)
<1>1. x \div d \in Nat /\ x % d \in 0 .. (d - 1) /\ x = (x \div d) * d + (x % d)
  BY Remainder
<1>2. (p * d + x) \div d = p + (x \div d)
  BY <1>1, SMTT(30)
<1>3. x \div d < n
  BY <1>1, SMTT(30)
<1>. QED BY <1>1, <1>2, <1>3

LEMMA ProductOrder ==
  ASSUME NEW a \in Nat, NEW b \in Nat, NEW d \in Nat, a <= b
  PROVE  a * d <= b * d /\ a * d \in Nat /\ b * d \in Nat
  BY SMT

\* A piece is part of its sectors and of what is wanted.
LEMMA PieceFits ==
  ASSUME NEW within \in Nat, NEW wanted \in Nat \ {0}
  PROVE  LET p == Piece(within, wanted) IN
         /\ p.count \in Nat /\ p.from \in Nat /\ p.take \in Nat
         /\ p.from + p.take <= p.count * SectorSize /\ p.take <= wanted
<1>1. SectorSize \in Nat \ {0} /\ Batch \in Nat
  BY ReadSizes
<1>2. CASE within % SectorSize = 0 /\ wanted >= SectorSize
  <2> DEFINE n == AtMost(wanted \div SectorSize, Batch)
  <2>1. /\ wanted \div SectorSize \in Nat /\ (wanted \div SectorSize) * SectorSize \in Nat
        /\ (wanted \div SectorSize) * SectorSize <= wanted
    BY <1>1, Remainder
  <2>2. n \in Nat /\ n <= wanted \div SectorSize
    BY <1>1, <2>1 DEF AtMost
  <2>. HIDE DEF n
  <2>3. n * SectorSize <= (wanted \div SectorSize) * SectorSize /\ n * SectorSize \in Nat
    BY <1>1, <2>1, <2>2, ProductOrder
  <2>4. Piece(within, wanted) = [count |-> n, from |-> 0, take |-> n * SectorSize]
    BY <1>2 DEF Piece, n
  <2>5. n * SectorSize <= wanted
    BY <2>1, <2>3
  <2>. QED BY <2>2, <2>3, <2>4, <2>5
<1>3. CASE ~(within % SectorSize = 0 /\ wanted >= SectorSize)
  <2>1. within % SectorSize \in 0 .. (SectorSize - 1)
    BY <1>1, Remainder
  <2>2. Piece(within, wanted) =
          [count |-> 1, from |-> within % SectorSize,
           take |-> AtMost(wanted, SectorSize - (within % SectorSize))]
    BY <1>3 DEF Piece
  <2>. QED BY <1>1, <2>1, <2>2 DEF AtMost
<1>. QED BY <1>2, <1>3

\* What read_sectors() serves lies in an extent of the partition.
LEMMA ServedBytes ==
  ASSUME extents \in Seq(Extent), NEW sub \in Nat, NEW sector \in Nat, NEW count \in Nat,
         InExtent(sub, sector, count),
         NEW from \in Nat, NEW take \in Nat, from + take <= count * SectorSize
  PROVE  LET bytes == BytesAt(sub, sector, from, take) IN
         /\ bytes \in Seq(Nat) /\ Len(bytes) = take
         /\ \A i \in DOMAIN bytes : \E e \in DOMAIN extents :
              bytes[i] \div SectorSize \in extents[e].start .. (extents[e].start + extents[e].length - 1)
<1> DEFINE e == sub + 1
           p == Physical(sub, sector)
           bytes == BytesAt(sub, sector, from, take)
<1>1. /\ e \in DOMAIN extents /\ extents[e].start \in Nat /\ extents[e].length \in Nat
      /\ sector + count <= extents[e].length
  <2>1. e \in DOMAIN extents /\ sector + count <= extents[e].length
    BY DEF InExtent, HasExtent
  <2>2. extents[e] \in Extent
    BY <2>1
  <2>. QED BY <2>1, <2>2 DEF Extent
<1>2. p = extents[e].start + sector /\ p \in Nat
  BY <1>1 DEF Physical
<1>3. SectorSize \in Nat \ {0}
  BY ReadSizes
<1>. HIDE DEF e, p
<1>4. p * SectorSize \in Nat
  BY <1>2, <1>3, ProductOrder
<1>5. bytes = [i \in 1 .. take |-> p * SectorSize + from + i - 1]
  BY DEF BytesAt, p
<1>6. bytes \in Seq(Nat) /\ Len(bytes) = take /\ DOMAIN bytes = 1 .. take
  <2>1. \A i \in 1 .. take : p * SectorSize + from + i - 1 \in Nat
    BY <1>4
  <2>. QED BY <1>5, <2>1
<1>7. ASSUME NEW i \in 1 .. take
      PROVE  bytes[i] \div SectorSize \in extents[e].start .. (extents[e].start + extents[e].length - 1)
  <2> DEFINE x == from + i - 1
  <2>1. x \in Nat /\ x < count * SectorSize
    <3>1. count * SectorSize \in Nat
      BY <1>3, ProductOrder
    <3>. QED BY <3>1
  <2>2. bytes[i] = p * SectorSize + x
    BY <1>4, <1>5
  <2>. HIDE DEF x
  <2>3. bytes[i] \div SectorSize \in p .. (p + count - 1)
    BY <1>2, <1>3, <2>1, <2>2, SectorOfByte
  <2> DEFINE q == bytes[i] \div SectorSize
  <2>4. q \in p .. (p + count - 1)
    BY <2>3
  <2>. HIDE DEF q
  <2>5. q \in extents[e].start .. (extents[e].start + extents[e].length - 1)
    <3>1. ASSUME NEW s \in Nat, NEW l \in Nat, NEW t, t = s + sector, sector + count <= l,
                 NEW y \in t .. (t + count - 1)
          PROVE  y \in s .. (s + l - 1)
      BY <3>1
    <3>. QED BY <1>1, <1>2, <2>4, <3>1
  <2>. QED BY <2>5 DEF q
<1>. QED BY <1>1, <1>6, <1>7
-----------------------------------------------------------------------------
(* What the records, the requests and the runs are.                        *)

LEMMA RecordKinds ==
  ASSUME NEW r \in Records \cup {NoRecord}
  PROVE  /\ r.kind = "super" => r \in Super
         /\ r.kind = "segd" => r \in Inode
         /\ r.kind = "segi" => r \in Segment
BY DEF Records, Super, Inode, Segment, NoRecord

LEMMA RecordAtType ==
  ASSUME DiskInv, NEW block
  PROVE  RecordAt(block) \in Records \cup {NoRecord}
BY DEF DiskInv, RecordAt

LEMMA RequestType ==
  ASSUME ReadInv
  PROVE  request.offset \in Nat /\ request.length \in Nat
<1>1. CASE request \in Requests
  BY <1>1, RequestFacts
<1>2. CASE request = NoRequest
  BY <1>2 DEF NoRequest
<1>. QED BY <1>1, <1>2 DEF ReadInv

LEMMA SizesType ==
  /\ SectorSize \in Nat \ {0} /\ MaxRun \in Nat
  /\ InodeMaxBlocks \in Nat \ {0} /\ IndirectMaxBlocks \in Nat \ {0}
BY ReadSizes

\* A zone has at least one byte.
LEMMA ZoneBytesType ==
  ASSUME super \in Super
  PROVE  ZoneBytes \in Nat \ {0} /\ super.zoneSectors \in Nat /\ super.numSubs \in Nat
<1>1. super.zoneSectors \in Nat \ {0} /\ super.numSubs \in Nat
  BY DEF Super
<1>. QED BY <1>1, SizesType, SMT DEF ZoneBytes

\* The parts of a walk.
LEMMA WalkParts ==
  ASSUME walk \in Walks
  PROVE  /\ walk.global \in Nat /\ walk.logical \in Nat /\ walk.loaded \in Nat
         /\ walk.next \in Place /\ walk.segment \in Segment \cup {NoRecord}
         /\ walk.runs \in Seq(Runs)
BY DEF Walks
-----------------------------------------------------------------------------
LEMMA InitIInv == Init => IInv
<1>. SUFFICES ASSUME Init PROVE IInv
  OBVIOUS
<1>1. ScanInv
  BY ScanInitInv DEF Init
<1>2. DiskInv
  <2>1. headers \in Disks
    BY DEF Init, ScanInit
  <2>. QED BY <2>1, ContentFacts DEF Init, DiskInv, Records
<1>3. VolumeInv
  BY DEF Init, VolumeInv
<1>4. ReadInv
  <2>1. NoWalk \in Walks
    BY DEF NoWalk, Walks, Place
  <2>2. out = <<>> /\ Len(out) = 0 /\ request.length = 0
    BY DEF Init, NoRequest
  <2>. QED BY <2>1, <2>2 DEF Init, ReadInv
<1>5. BytesOfPartition
  BY DEF Init, BytesOfPartition
<1>. QED BY <1>1, <1>2, <1>3, <1>4, <1>5 DEF IInv, PfsInv

LEMMA PfsStays == PfsInv /\ UNCHANGED pfsVars => PfsInv'
<1>. SUFFICES ASSUME PfsInv, UNCHANGED pfsVars PROVE PfsInv'
  OBVIOUS
<1>. USE DEF PfsInv
<1>1. DiskInv'
  BY DEF DiskInv
<1>2. VolumeInv'
  BY DEF VolumeInv
<1>3. ReadInv'
  BY DEF ReadInv
<1>4. BytesOfPartition'
  BY DEF BytesOfPartition
<1>. QED BY <1>1, <1>2, <1>3, <1>4

LEMMA NothingRead ==
  ASSUME out' = <<>>
  PROVE  BytesOfPartition'
BY DEF BytesOfPartition

LEMMA OpenVolumeStep == IInv /\ OpenVolume => PfsInv'
<1>. SUFFICES ASSUME IInv, OpenVolume PROVE PfsInv'
  OBVIOUS
<1>. USE DEF IInv, PfsInv
<1>1. /\ reading = "closed" /\ reading' = "probe"
      /\ UNCHANGED <<scanVars, records, bad, super, inode, request, walk, out, answer>>
  BY DEF OpenVolume
<1>2. PICK i \in DOMAIN partitions : extents' = ExtentsOf(partitions[i])
  BY DEF OpenVolume
<1>3. extents' \in Seq(Extent) /\ extents' # <<>>
  <2>1. partitions[i] \in Parts
    BY DEF ScanInv, ScanTypes
  <2>2. PICK h \in Header : partitions[i] = PartitionOf(h)
    BY <2>1 DEF Parts
  <2>3. Subs(h) \in Seq(Extent)
    BY SubsType
  <2>4. [start |-> h.start, length |-> h.length] \in Extent
    BY DEF Header, Extent
  <2>5. extents' = << [start |-> h.start, length |-> h.length] >> \o Subs(h)
    BY <1>2, <2>2 DEF ExtentsOf, PartitionOf
  <2>. HIDE DEF Subs
  <2>. QED BY <2>3, <2>4, <2>5
<1>4. DiskInv'
  BY <1>1 DEF DiskInv
<1>5. VolumeInv'
  BY <1>1, <1>3 DEF VolumeInv
<1>6. ReadInv' /\ out' = <<>>
  BY <1>1 DEF ReadInv
<1>. QED BY <1>4, <1>5, <1>6, NothingRead

LEMMA ProbeStep == IInv /\ Probe => PfsInv'
<1>. SUFFICES ASSUME IInv, Probe PROVE PfsInv'
  OBVIOUS
<1>. USE DEF IInv, PfsInv
<1>1. /\ reading = "probe" /\ reading' \in {"open", "closed"}
      /\ UNCHANGED <<scanVars, records, bad, inode, request, walk, out, answer>>
  BY DEF Probe
<1>2. DiskInv'
  BY <1>1 DEF DiskInv
<1>3. VolumeInv'
  <2>1. CASE ProbeValid
    <3>1. super' = records[Physical(0, SuperSector)] /\ reading' = "open" /\ extents' = extents
      BY <2>1 DEF Probe
    <3>2. super' \in Super
      BY <2>1, <3>1, RecordKinds DEF ProbeValid, DiskInv
    <3>. QED BY <1>1, <3>1, <3>2 DEF VolumeInv
  <2>2. CASE ~ProbeValid
    <3>1. reading' = "closed" /\ extents' = <<>> /\ super' = super
      BY <2>2 DEF Probe
    <3>. QED BY <1>1, <3>1 DEF VolumeInv
  <2>. QED BY <2>1, <2>2
<1>4. ReadInv' /\ out' = <<>>
  BY <1>1 DEF ReadInv
<1>. QED BY <1>2, <1>3, <1>4, NothingRead

LEMMA ReadInodeStep == IInv /\ ReadInode => PfsInv'
<1>. SUFFICES ASSUME IInv, ReadInode PROVE PfsInv'
  OBVIOUS
<1>. USE DEF IInv, PfsInv
<1>1. PICK place : IsInode(place) /\ inode' = RecordAt(place)
  BY DEF ReadInode
<1>2. /\ reading = "open" /\ reading' = reading
      /\ UNCHANGED <<scanVars, records, bad, extents, super, request, walk, out, answer>>
  BY DEF ReadInode
<1>3. inode' \in Inode
  BY <1>1, RecordAtType, RecordKinds DEF IsInode
<1>4. DiskInv'
  BY <1>2 DEF DiskInv
<1>5. VolumeInv'
  BY <1>2, <1>3 DEF VolumeInv
<1>6. ReadInv' /\ out' = <<>>
  BY <1>2 DEF ReadInv
<1>. QED BY <1>4, <1>5, <1>6, NothingRead

LEMMA ReadStep == IInv /\ Read => PfsInv'
<1>. SUFFICES ASSUME IInv, Read PROVE PfsInv'
  OBVIOUS
<1>. USE DEF IInv, PfsInv
<1>1. /\ reading = "open" /\ inode # NoInode /\ reading' \in {"done", "walk"}
      /\ request' \in Requests /\ walk' = [NoWalk EXCEPT !.next = inode.next]
      /\ UNCHANGED <<scanVars, records, bad, extents, super, inode, out>>
  BY DEF Read
<1>2. inode \in Inode
  BY <1>1 DEF VolumeInv
<1>3. DiskInv'
  BY <1>1 DEF DiskInv
<1>4. VolumeInv'
  BY <1>1, <1>2 DEF VolumeInv
<1>5. walk' \in Walks /\ walk'.global = 1
  <2>1. inode.next \in Place
    BY <1>2 DEF Inode
  <2>2. walk' = [global |-> 1, logical |-> 0, segment |-> NoRecord, next |-> inode.next,
                 loaded |-> 0, runs |-> <<>>]
    BY <1>1 DEF NoWalk
  <2>3. <<>> \in Seq(Runs)
    OBVIOUS
  <2>. QED BY <2>1, <2>2, <2>3 DEF Walks
<1>6. out' = <<>> /\ Len(out') = 0 /\ request'.length \in Nat
  BY <1>1, RequestFacts DEF ReadInv
<1>7. ReadInv'
  BY <1>1, <1>5, <1>6, SizesType DEF ReadInv
<1>. QED BY <1>3, <1>4, <1>6, <1>7, NothingRead

\* The read ends.
LEMMA EndStep ==
  ASSUME IInv, reading \in {"walk", "copy"}, NEW a, End(a),
         UNCHANGED <<scanVars, diskVars, extents, super>>
  PROVE  PfsInv'
<1>. USE DEF IInv, PfsInv
<1>1. reading' = "done" /\ UNCHANGED <<inode, request, walk, out>>
  BY DEF End
<1>2. DiskInv'
  BY DEF DiskInv
<1>3. VolumeInv'
  BY <1>1 DEF VolumeInv
<1>4. ReadInv'
  BY <1>1 DEF ReadInv
<1>5. BytesOfPartition'
  BY <1>1 DEF BytesOfPartition
<1>. QED BY <1>2, <1>3, <1>4, <1>5

\* The walk goes on.
LEMMA WalkOn ==
  ASSUME IInv, reading = "walk", UNCHANGED <<scanVars, diskVars, extents, super>>,
         UNCHANGED <<reading, inode, request, out, answer>>,
         walk' \in Walks, walk'.global # 0,
         walk'.global > InodeMaxBlocks => walk'.segment \in Segment
  PROVE  PfsInv'
<1>. USE DEF IInv, PfsInv
<1>1. DiskInv' /\ VolumeInv'
  BY DEF DiskInv, VolumeInv
<1>2. ReadInv' /\ out' = <<>>
  BY DEF ReadInv
<1>. QED BY <1>1, <1>2, NothingRead

LEMMA LoadSegmentStep == IInv /\ LoadSegment => PfsInv'
<1>. SUFFICES ASSUME IInv, LoadSegment PROVE PfsInv'
  OBVIOUS
<1>1. reading = "walk" /\ UNCHANGED <<scanVars, diskVars, extents, super>>
  BY DEF LoadSegment
<1>2. CASE IsSegment(walk.next)
  <2> DEFINE s == RecordAt(walk.next)
  <2>1. /\ walk' = [walk EXCEPT !.global = @ + 1, !.loaded = @ + 1, !.segment = s, !.next = s.next]
        /\ UNCHANGED <<reading, inode, request, out, answer>>
    BY <1>2 DEF LoadSegment
  <2>2. s \in Segment
    BY <1>2, RecordAtType, RecordKinds DEF IInv, PfsInv, IsSegment
  <2>. HIDE DEF s
  <2>3. walk \in Walks
    BY DEF IInv, PfsInv, ReadInv
  <2>4. s.next \in Place
    BY <2>2 DEF Segment
  <2>5. walk' \in Walks /\ walk'.global # 0 /\ walk'.segment \in Segment
    <3>1. walk' = [global |-> walk.global + 1, logical |-> walk.logical, segment |-> s,
                   next |-> s.next, loaded |-> walk.loaded + 1, runs |-> walk.runs]
      BY <2>1, <2>3 DEF Walks
    <3>2. walk.global + 1 \in Nat /\ walk.global + 1 # 0 /\ walk.loaded + 1 \in Nat
      BY <2>3, WalkParts
    <3>. QED BY <2>2, <2>3, <2>4, <3>1, <3>2, WalkParts DEF Walks
  <2>. QED BY <1>1, <2>1, <2>5, WalkOn
<1>3. CASE ~IsSegment(walk.next)
  BY <1>1, <1>3, EndStep DEF LoadSegment
<1>. QED BY <1>2, <1>3

\* The descriptor of an index the walk has reached.
LEMMA DescriptorType ==
  ASSUME IInv, reading = "walk", ~IsSegmentItself(walk.global)
  PROVE  Descriptor \in BlockInfo /\ walk.global # InodeMaxBlocks
<1> DEFINE g == walk.global
<1>1. /\ g \in Nat /\ g # 0 /\ (g > InodeMaxBlocks => walk.segment \in Segment)
      /\ inode \in Inode
  BY WalkParts DEF IInv, PfsInv, ReadInv, VolumeInv
<1>. HIDE DEF g
<1>2. g # InodeMaxBlocks
  <2>. SUFFICES ASSUME g = InodeMaxBlocks PROVE FALSE
    OBVIOUS
  <2>1. 0 % IndirectMaxBlocks = 0
    BY SizesType, SMT
  <2>2. InodeMaxBlocks - InodeMaxBlocks = 0 /\ ~(InodeMaxBlocks < InodeMaxBlocks)
    BY SizesType
  <2>3. IsSegmentItself(g)
    BY <2>1, <2>2 DEF IsSegmentItself, IsDirect, Local
  <2>. QED BY <2>3 DEF g
<1>3. CASE IsDirect(g)
  <2>1. g \in 1 .. (InodeMaxBlocks - 1)
    BY <1>1, <1>3, SizesType DEF IsDirect
  <2>2. inode.data[g] \in BlockInfo
    BY <1>1, <2>1 DEF Inode
  <2>. QED BY <1>2, <1>3, <2>2 DEF Descriptor, g
<1>4. CASE ~IsDirect(g)
  <2>1. g > InodeMaxBlocks /\ g - InodeMaxBlocks \in Nat
    BY <1>1, <1>2, <1>4, SizesType DEF IsDirect
  <2>2. Local(g) \in 0 .. (IndirectMaxBlocks - 1)
    BY <2>1, SizesType, Remainder DEF Local
  <2>3. Local(g) # 0
    BY <1>4 DEF IsSegmentItself, g
  <2>4. Local(g) \in 1 .. (IndirectMaxBlocks - 1)
    BY <2>2, <2>3, SizesType
  <2>5. walk.segment.data[Local(g)] \in BlockInfo
    BY <1>1, <2>1, <2>4 DEF Segment
  <2>. QED BY <1>2, <1>4, <2>5 DEF Descriptor, g
<1>. QED BY <1>3, <1>4

\* A merged run still has a count that fits its field.
LEMMA WithBlockType ==
  ASSUME NEW runs \in Seq(Runs), NEW block \in BlockInfo, block.count # 0, NEW logical \in Nat
  PROVE  WithBlock(runs, block, logical) \in Seq(Runs)
<1>1. block.number \in Nat /\ block.subpart \in Nat /\ block.count \in 1 .. MaxRun
  BY SizesType DEF BlockInfo
<1>2. CASE runs # <<>> /\ Merges(runs[Len(runs)], block)
  <2> DEFINE n == Len(runs)
             r == runs[n]
             count == r.block.count + block.count
             new == [block |-> [number |-> r.block.number, subpart |-> r.block.subpart, count |-> count],
                     logical |-> r.logical]
  <2>1. n \in 1 .. Len(runs) /\ r \in Runs
    BY <1>2
  <2>2. /\ r.block \in [number : Nat, subpart : Nat, count : 1 .. MaxRun]
        /\ r.block.number \in Nat /\ r.block.subpart \in Nat /\ r.block.count \in 1 .. MaxRun
        /\ r.logical \in Nat
    BY <2>1 DEF Runs
  <2>3. count \in 1 .. MaxRun
    BY <1>1, <1>2, <2>2, SizesType DEF Merges
  <2>4. new \in Runs
    BY <2>2, <2>3 DEF Runs
  <2>5. [r EXCEPT !.block.count = @ + block.count] = new
    <3>1. [r.block EXCEPT !.count = @ + block.count] = new.block
      BY <2>2
    <3>2. ASSUME NEW b, b = [r.block EXCEPT !.count = @ + block.count]
          PROVE  [r EXCEPT !.block = b] = [block |-> b, logical |-> r.logical]
      <4>1. r = [block |-> r.block, logical |-> r.logical]
        BY <2>1 DEF Runs
      <4>. QED BY <4>1
    <3>. QED BY <3>1, <3>2
  <2>6. WithBlock(runs, block, logical) = [runs EXCEPT ![n] = new]
    BY <1>2, <2>5 DEF WithBlock
  <2>. HIDE DEF new, n
  <2>. QED BY <2>1, <2>4, <2>6
<1>3. CASE ~(runs # <<>> /\ Merges(runs[Len(runs)], block))
  <2>1. Run(block, logical) \in Runs
    <3>1. block \in [number : Nat, subpart : Nat, count : 1 .. MaxRun]
      BY <1>1 DEF BlockInfo
    <3>. QED BY <3>1 DEF Run, Runs
  <2>2. WithBlock(runs, block, logical) = Append(runs, Run(block, logical))
    BY <1>3 DEF WithBlock
  <2>. QED BY <2>1, <2>2
<1>. QED BY <1>2, <1>3

LEMMA TakeBlockStep == IInv /\ TakeBlock => PfsInv'
<1>. SUFFICES ASSUME IInv, TakeBlock PROVE PfsInv'
  OBVIOUS
<1> DEFINE block == Descriptor
           end == walk.logical + block.count * ZoneBytes
           runs == IF end > request.offset THEN WithBlock(walk.runs, block, walk.logical) ELSE walk.runs
<1>1. reading = "walk" /\ ~IsSegmentItself(walk.global) /\ UNCHANGED <<scanVars, diskVars, extents, super>>
  BY DEF TakeBlock
<1>2. block \in BlockInfo /\ walk.global # InodeMaxBlocks
  BY <1>1, DescriptorType
<1>3. walk \in Walks /\ super \in Super /\ (walk.global > InodeMaxBlocks => walk.segment \in Segment)
  BY <1>1 DEF IInv, PfsInv, ReadInv, VolumeInv
<1>4. CASE block.count = 0
  BY <1>1, <1>4, EndStep DEF TakeBlock
<1>5. CASE block.count # 0
  <2>1. /\ walk' = [walk EXCEPT !.global = @ + 1, !.logical = end,
                       !.runs = IF end > request.offset THEN WithBlock(@, block, walk.logical) ELSE @]
        /\ UNCHANGED <<reading, inode, request, out, answer>>
    BY <1>5 DEF TakeBlock
  <2>2. block.count \in Nat /\ block.count * ZoneBytes \in Nat
    BY <1>2, <1>3, ZoneBytesType, ProductOrder, SizesType DEF BlockInfo
  <2>3. runs \in Seq(Runs)
    BY <1>2, <1>3, <1>5, WalkParts, WithBlockType
  <2>4. end \in Nat
    BY <1>3, <2>2, WalkParts
  <2>. HIDE DEF block
  <2>5. walk' = [global |-> walk.global + 1, logical |-> end, segment |-> walk.segment,
                 next |-> walk.next, loaded |-> walk.loaded, runs |-> runs]
    BY <1>3, <2>1 DEF Walks
  <2>6. walk.global + 1 \in Nat /\ walk.global + 1 # 0
        /\ (walk.global + 1 > InodeMaxBlocks => walk.segment \in Segment)
    BY <1>2, <1>3, WalkParts, SizesType
  <2>. HIDE DEF end, runs
  <2>7. walk' \in Walks
    BY <1>3, <2>3, <2>4, <2>5, <2>6, WalkParts DEF Walks
  <2>. QED BY <1>1, <2>1, <2>5, <2>6, <2>7, WalkOn
<1>. QED BY <1>4, <1>5

LEMMA EndWalkStep == IInv /\ EndWalk => PfsInv'
<1>. SUFFICES ASSUME IInv, EndWalk PROVE PfsInv'
  OBVIOUS
<1>. USE DEF IInv, PfsInv
<1>1. /\ reading = "walk" /\ reading' = "copy"
      /\ UNCHANGED <<scanVars, diskVars, extents, super, readVars>>
  BY DEF EndWalk
<1>2. DiskInv' /\ VolumeInv'
  BY <1>1 DEF DiskInv, VolumeInv
<1>3. ReadInv' /\ BytesOfPartition'
  BY <1>1 DEF ReadInv, BytesOfPartition
<1>. QED BY <1>2, <1>3

\* A piece that is read is in the partition and no more than what is missing.
LEMMA CopyFromStep ==
  ASSUME IInv, reading = "copy", NEW run \in Runs, Position < RunEnd(run), Missing # 0,
         CopyFrom(run), UNCHANGED <<scanVars, diskVars, extents, super>>
  PROVE  PfsInv'
<1> DEFINE within == IF Position > run.logical THEN Position - run.logical ELSE 0
           wanted == AtMost(run.block.count * ZoneBytes - within, Missing)
           piece  == Piece(within, wanted)
           sub    == run.block.subpart
           sector == run.block.number * super.zoneSectors + within \div SectorSize
           bytes  == BytesAt(sub, sector, piece.from, piece.take)
<1>1. /\ super \in Super /\ extents \in Seq(Extent) /\ out \in Seq(Nat)
      /\ Len(out) \in Nat /\ Len(out) <= request.length
      /\ request.offset \in Nat /\ request.length \in Nat
  BY RequestType DEF IInv, PfsInv, ReadInv, VolumeInv
<1>2. /\ run.logical \in Nat /\ run.block.number \in Nat /\ sub \in Nat
      /\ run.block.count \in Nat \ {0}
  <2>1. run.block \in [number : Nat, subpart : Nat, count : 1 .. MaxRun] /\ run.logical \in Nat
    BY DEF Runs
  <2>. QED BY <2>1, SizesType
<1>3. ZoneBytes \in Nat \ {0} /\ super.zoneSectors \in Nat
  BY <1>1, ZoneBytesType
<1>4. run.block.count * ZoneBytes \in Nat \ {0}
  BY <1>2, <1>3, SMT
<1>5. Position \in Nat /\ Missing \in Nat \ {0}
  BY <1>1 DEF Position, Missing
<1>6. within \in Nat /\ within < run.block.count * ZoneBytes
  BY <1>2, <1>4, <1>5 DEF RunEnd
<1>. HIDE DEF within
<1>7. wanted \in Nat \ {0} /\ wanted <= Missing
  BY <1>4, <1>5, <1>6 DEF AtMost
<1>. HIDE DEF wanted
<1>8. /\ piece.count \in Nat /\ piece.from \in Nat /\ piece.take \in Nat
      /\ piece.from + piece.take <= piece.count * SectorSize /\ piece.take <= wanted
  BY <1>6, <1>7, PieceFits
<1>. HIDE DEF piece
<1>9. sector \in Nat
  <2>1. run.block.number * super.zoneSectors \in Nat
    BY <1>2, <1>3, ProductOrder
  <2>2. within \div SectorSize \in Nat
    BY <1>6, SizesType, Remainder
  <2>. QED BY <2>1, <2>2
<1>. HIDE DEF sector, sub
<1>10. CASE sub <= super.numSubs /\ Readable(sub, sector, piece.count)
  <2>1. /\ out' = out \o bytes
        /\ UNCHANGED <<reading, inode, request, walk, answer>>
    BY <1>10 DEF CopyFrom, within, wanted, piece, sector, sub
  <2>2. InExtent(sub, sector, piece.count)
    BY <1>10 DEF Readable
  <2>3. /\ bytes \in Seq(Nat) /\ Len(bytes) = piece.take
        /\ \A i \in DOMAIN bytes : \E e \in DOMAIN extents :
             bytes[i] \div SectorSize \in extents[e].start .. (extents[e].start + extents[e].length - 1)
    BY <1>1, <1>2, <1>8, <1>9, <2>2, ServedBytes DEF sub
  <2>. HIDE DEF bytes
  <2>4. out' \in Seq(Nat) /\ Len(out') = Len(out) + piece.take
    <3>1. ASSUME NEW s \in Seq(Nat), NEW t \in Seq(Nat)
          PROVE  s \o t \in Seq(Nat) /\ Len(s \o t) = Len(s) + Len(t)
      OBVIOUS
    <3>. QED BY <1>1, <2>1, <2>3, <3>1
  <2>5. Len(out') <= request.length
    BY <1>1, <1>5, <1>7, <1>8, <2>4 DEF Missing
  <2>6. BytesOfPartition'
    <3>. SUFFICES ASSUME NEW i \in DOMAIN out'
                  PROVE  \E e \in DOMAIN extents :
                    out'[i] \div SectorSize \in extents[e].start .. (extents[e].start + extents[e].length - 1)
      BY DEF BytesOfPartition
    <3>1. CASE i \in DOMAIN out
      <4>1. out'[i] = out[i]
        BY <1>1, <2>1, <2>3, <3>1
      <4>. QED BY <3>1, <4>1 DEF IInv, PfsInv, BytesOfPartition
    <3>2. CASE i \notin DOMAIN out
      <4>1. i - Len(out) \in DOMAIN bytes /\ out'[i] = bytes[i - Len(out)]
        BY <1>1, <2>1, <2>3, <3>2
      <4>. QED BY <2>3, <4>1
    <3>. QED BY <3>1, <3>2
  <2>7. DiskInv' /\ VolumeInv'
    BY <2>1 DEF IInv, PfsInv, DiskInv, VolumeInv
  <2>8. ReadInv'
    BY <2>1, <2>4, <2>5 DEF IInv, PfsInv, ReadInv
  <2>. QED BY <2>6, <2>7, <2>8 DEF PfsInv
<1>11. CASE ~(sub <= super.numSubs /\ Readable(sub, sector, piece.count))
  <2>1. End(Failed)
    BY <1>11 DEF CopyFrom, within, wanted, piece, sector, sub
  <2>. QED BY <2>1, EndStep
<1>. QED BY <1>10, <1>11

LEMMA CopyPieceStep == IInv /\ CopyPiece => PfsInv'
<1>. SUFFICES ASSUME IInv, CopyPiece PROVE PfsInv'
  OBVIOUS
<1>1. PICK i \in OpenRuns : CopyFrom(walk.runs[i])
  BY DEF CopyPiece
<1>2. reading = "copy" /\ Missing # 0 /\ UNCHANGED <<scanVars, diskVars, extents, super>>
  BY DEF CopyPiece
<1>3. walk.runs \in Seq(Runs)
  BY WalkParts DEF IInv, PfsInv, ReadInv
<1>4. walk.runs[i] \in Runs /\ Position < RunEnd(walk.runs[i])
  BY <1>3 DEF OpenRuns
<1>. QED BY <1>1, <1>2, <1>4, CopyFromStep

LEMMA EndCopyStep == IInv /\ EndCopy => PfsInv'
BY EndStep DEF EndCopy
-----------------------------------------------------------------------------
LEMMA StepIInv == IInv /\ [Next]_vars => IInv'
<1>. SUFFICES ASSUME IInv, [Next]_vars PROVE IInv'
  OBVIOUS
<1>1. CASE Scan /\ UNCHANGED pfsVars
  BY <1>1, ScanStep, PfsStays DEF IInv
<1>2. CASE UNCHANGED vars
  BY <1>2, ScanStays, PfsStays DEF IInv, vars
<1>3. CASE /\ UNCHANGED scanVars
           /\ \/ OpenVolume \/ Probe \/ ReadInode \/ Read
              \/ LoadSegment \/ TakeBlock \/ EndWalk \/ CopyPiece \/ EndCopy
  <2>1. ScanInv'
    BY <1>3, ScanStays DEF IInv
  <2>2. PfsInv'
    BY <1>3, OpenVolumeStep, ProbeStep, ReadInodeStep, ReadStep, LoadSegmentStep, TakeBlockStep,
       EndWalkStep, CopyPieceStep, EndCopyStep
  <2>. QED BY <2>1, <2>2 DEF IInv
<1>4. Next /\ ~(Scan /\ UNCHANGED pfsVars) => UNCHANGED scanVars
  BY DEF Next, OpenVolume, Probe, ReadInode, Read, LoadSegment, TakeBlock, EndWalk, CopyPiece, EndCopy
<1>. QED BY <1>1, <1>2, <1>3, <1>4 DEF Next

\* The inductive invariant holds in every reachable state.
THEOREM Invariance == Spec => []IInv
<1>. QED BY InitIInv, StepIInv, PTL DEF Spec

LEMMA TypeOfIInv == IInv => TypeOK
<1>. SUFFICES ASSUME IInv PROVE TypeOK
  OBVIOUS
<1>1. ScanTypeOK
  BY ScanTypeOfInv DEF IInv
<1>2. walk.runs \in Seq(Runs) /\ walk.global \in Nat /\ walk.logical \in Nat /\ walk.loaded \in Nat
  BY WalkParts DEF IInv, PfsInv, ReadInv
<1>3. \A i \in DOMAIN walk.runs : walk.runs[i].block.count \in 1 .. MaxRun
  <2>1. \A r \in Runs : r.block.count \in 1 .. MaxRun
    BY DEF Runs
  <2>2. \A i \in DOMAIN walk.runs : walk.runs[i] \in Runs
    BY <1>2
  <2>. QED BY <2>1, <2>2
<1>. QED BY <1>1, <1>2, <1>3 DEF IInv, PfsInv, DiskInv, VolumeInv, ReadInv, TypeOK

\* Type correctness of the scan (Reader::scan, apa.cpp) and of the reader
\* (pfs.cpp); the count of a merged run fits its 16 bits.
THEOREM TypeCorrect == Spec => []TypeOK
<1>. QED BY Invariance, TypeOfIInv, PTL

\* The result of Reader::scan() follows the chain of headers, each once.
THEOREM ChainFollowed == Spec => []PartitionsFollowChain
<1>1. IInv => PartitionsFollowChain
  BY DEF IInv, ScanInv
<1>. QED BY <1>1, Invariance, PTL

\* ScanResult::ok() says exactly whether the disk is intact.
THEOREM OkIsRight == Spec => []OkMeansIntact
<1>1. IInv => OkMeansIntact
  BY OkOfInv DEF IInv
<1>. QED BY <1>1, Invariance, PTL

\* No read of pfs::Reader shows a byte from outside its partition, whatever
\* the descriptors say.
THEOREM StaysInPartition == Spec => []BytesOfPartition
<1>1. IInv => BytesOfPartition
  BY DEF IInv, PfsInv
<1>. QED BY <1>1, Invariance, PTL
-----------------------------------------------------------------------------
(* What a read answers.  Recursive functions are shown to exist, and to be  *)
(* what they are, by least counterexample.                                  *)

\* A set of numbers without 0 has a first: the one before is not in it.
LEMMA FirstOf ==
  ASSUME NEW S, S \subseteq Nat, S # {}, 0 \notin S
  PROVE  \E m \in S : m - 1 \in Nat /\ m - 1 \notin S
<1> DEFINE less == {ss \in Nat \X Nat : ss[1] < ss[2]}
<1>1. less = OpToRel(<, Nat)
  BY Zenon DEF OpToRel
<1>2. IsWellFoundedOn(less, Nat)
  BY <1>1, NatLessThanWellFounded, Zenon
<1>3. PICK m \in S : \A y \in S : ~ (<<y, m>> \in less)
  BY <1>2, WFMin, Zenon
<1>4. m \in Nat /\ m - 1 \in Nat /\ m - 1 < m
  BY SMT
<1>5. <<m - 1, m>> \in less
  BY <1>4
<1>. HIDE DEF less
<1>. QED BY <1>3, <1>4, <1>5

\* A function defined from 0 on, each value from the one before.
Recursive(h, n, V, b, G) ==
  /\ h \in [0 .. n -> V] /\ h[0] = b
  /\ \A k \in 1 .. n : h[k] = G[k][h[k - 1]]

LEMMA RecursionExists ==
  ASSUME NEW V, NEW b \in V, NEW n \in Nat, NEW G \in [1 .. n -> [V -> V]]
  PROVE  \E h : Recursive(h, n, V, b, G)
<1> DEFINE Good(m) == \E h : Recursive(h, m, V, b, G)
           wrong == { m \in 0 .. n : ~ Good(m) }
<1>1. wrong = {} => Good(n)
  <2>. HIDE DEF Good
  <2>. QED OBVIOUS
<1>. SUFFICES ASSUME wrong # {} PROVE FALSE
  BY <1>1
<1>2. 0 \notin wrong
  <2> DEFINE h == [k \in 0 .. 0 |-> b]
  <2>1. Recursive(h, 0, V, b, G)
    BY DEF Recursive
  <2>. QED BY <2>1
<1>3. PICK m \in wrong : m - 1 \in Nat /\ m - 1 \notin wrong
  <2>1. wrong \subseteq Nat
    OBVIOUS
  <2>. HIDE DEF wrong
  <2>. QED BY <1>2, <2>1, FirstOf
<1>4. m \in 1 .. n /\ m - 1 \in 0 .. n
  BY <1>3
<1>5. PICK h : Recursive(h, m - 1, V, b, G)
  BY <1>3, <1>4
<1> DEFINE g == [k \in 0 .. m |-> IF k = m THEN G[m][h[m - 1]] ELSE h[k]]
<1>6. h[m - 1] \in V /\ G[m] \in [V -> V]
  BY <1>4, <1>5 DEF Recursive
<1>7. g \in [0 .. m -> V] /\ g[0] = b
  <2>1. \A k \in 0 .. m : k # m => k \in 0 .. (m - 1)
    BY <1>4
  <2>. QED BY <1>4, <1>5, <1>6, <2>1 DEF Recursive
<1>8. ASSUME NEW k \in 1 .. m PROVE g[k] = G[k][g[k - 1]]
  <2>1. CASE k = m
    <3>1. g[k - 1] = h[m - 1]
      BY <1>4, <2>1
    <3>. QED BY <1>4, <2>1, <3>1
  <2>2. CASE k # m
    <3>1. k \in 1 .. (m - 1) /\ k \in 0 .. m /\ k - 1 \in 0 .. m /\ k - 1 # m
      BY <1>4, <2>2
    <3>. QED BY <1>5, <2>2, <3>1 DEF Recursive
  <2>. QED BY <2>1, <2>2
<1>. HIDE DEF g
<1>9. Recursive(g, m, V, b, G)
  BY <1>7, <1>8 DEF Recursive
<1>10. m \notin wrong
  BY <1>9
<1>. QED BY <1>3, <1>10

\* The concatenations of the first k of n sequences.
Concats(h, n, T, b) ==
  /\ b \in [1 .. n -> Seq(T)] /\ h \in [0 .. n -> Seq(T)] /\ h[0] = <<>>
  /\ \A k \in 1 .. n : h[k] = h[k - 1] \o b[k]

LEMMA ConcatsExist ==
  ASSUME NEW T, NEW n \in Nat, NEW b \in [1 .. n -> Seq(T)]
  PROVE  \E h : Concats(h, n, T, b)
<1> DEFINE V == Seq(T)
           G == [k \in 1 .. n |-> [s \in V |-> s \o b[k]]]
<1>1. <<>> \in V
  OBVIOUS
<1>2. G \in [1 .. n -> [V -> V]]
  <2>1. \A k \in 1 .. n : \A s \in V : s \o b[k] \in V
    OBVIOUS
  <2>. HIDE DEF V
  <2>. QED BY <2>1
<1>3. PICK h : Recursive(h, n, V, <<>>, G)
  <2>. HIDE DEF V, G
  <2>. QED BY <1>1, <1>2, RecursionExists
<1>4. ASSUME NEW k \in 1 .. n PROVE h[k] = h[k - 1] \o b[k]
  <2>1. k - 1 \in 0 .. n
    OBVIOUS
  <2>2. h[k - 1] \in V
    <3>. HIDE DEF V, G
    <3>. QED BY <1>3, <2>1 DEF Recursive
  <2>3. h[k] = G[k][h[k - 1]]
    <3>. HIDE DEF V, G
    <3>. QED BY <1>3 DEF Recursive
  <2>. HIDE DEF V
  <2>. QED BY <2>2, <2>3
<1>5. h \in [0 .. n -> Seq(T)] /\ h[0] = <<>>
  BY <1>3 DEF Recursive
<1>. QED BY <1>4, <1>5 DEF Concats

FirstFew(b, k) == [i \in 1 .. k |-> b[i]]

\* FlattenSeq() concatenates.
LEMMA FlattenIsConcat ==
  ASSUME NEW T, NEW n \in Nat, NEW b, NEW h, Concats(h, n, T, b)
  PROVE  \A k \in 0 .. n : FlattenSeq(FirstFew(b, k)) = h[k]
<1>. b \in [1 .. n -> Seq(T)]
  BY DEF Concats
<1>. SUFFICES ASSUME NEW k \in 0 .. n PROVE FlattenSeq(FirstFew(b, k)) = h[k]
  OBVIOUS
<1> DEFINE s == [i \in 1 .. k |-> b[i]]
<1>. FirstFew(b, k) = s
  BY DEF FirstFew
<1>1. k \in Nat /\ Len(s) = k
  OBVIOUS
<1>2. CASE k = 0
  <2>1. s = <<>>
    BY <1>2
  <2>. QED BY <1>1, <1>2, <2>1 DEF FlattenSeq, Concats
<1>3. CASE k # 0
  <2> DEFINE Is(f) == f = [i \in 1 .. k |-> IF i = 1 THEN s[i] ELSE f[i - 1] \o s[i]]
             it == CHOOSE f : Is(f)
  <2>1. FlattenSeq(s) = it[k]
    BY <1>1, <1>3 DEF FlattenSeq
  <2>2. h[1] = b[1]
    <3>1. 1 \in 1 .. n /\ 1 - 1 = 0
      BY <1>1, <1>3
    <3>2. b[1] \in Seq(T) /\ h[0] = <<>>
      BY <3>1 DEF Concats
    <3>3. h[1] = h[1 - 1] \o b[1]
      BY <3>1, Zenon DEF Concats
    <3>. QED BY <3>1, <3>2, <3>3
  <2>3. \E f : Is(f)
    <3> DEFINE f == [i \in 1 .. k |-> h[i]]
    <3>1. ASSUME NEW i \in 1 .. k
          PROVE  f[i] = IF i = 1 THEN s[i] ELSE f[i - 1] \o s[i]
      <4>1. CASE i = 1
        BY <2>2, <4>1
      <4>2. CASE i # 1
        <5>1. i \in 1 .. n /\ i - 1 \in 1 .. k
          BY <4>2
        <5>. QED BY <4>2, <5>1 DEF Concats
      <4>. QED BY <4>1, <4>2
    <3>2. Is(f)
      BY <3>1
    <3>. QED BY <3>2
  <2>4. Is(it)
    <3>. HIDE DEF Is
    <3>. QED BY <2>3
  <2>. HIDE DEF it
  <2>5. \A i \in 1 .. k : it[i] = IF i = 1 THEN b[i] ELSE it[i - 1] \o b[i]
    BY <2>4
  <2> DEFINE wrong == { i \in 1 .. k : it[i] # h[i] }
  <2>6. wrong = {}
    <3>. SUFFICES ASSUME wrong # {} PROVE FALSE
      OBVIOUS
    <3>1. PICK m \in wrong : m - 1 \in Nat /\ m - 1 \notin wrong
      <4>1. wrong \subseteq Nat /\ 0 \notin wrong
        OBVIOUS
      <4>. HIDE DEF wrong
      <4>. QED BY <4>1, FirstOf
    <3>2. m # 1
      BY <2>2, <2>5
    <3>3. m \in 1 .. n /\ m - 1 \in 1 .. k
      BY <3>1, <3>2
    <3>4. it[m - 1] = h[m - 1]
      BY <3>1, <3>3
    <3>5. it[m] = it[m - 1] \o b[m] /\ h[m] = h[m - 1] \o b[m]
      BY <2>5, <3>2, <3>3 DEF Concats
    <3>. QED BY <3>4, <3>5
  <2>7. k \in 1 .. k
    BY <1>1, <1>3
  <2>. QED BY <2>1, <2>6, <2>7
<1>. QED BY <1>2, <1>3
-----------------------------------------------------------------------------
(* The file of an inode.                                                   *)

Zone == [subpart : Nat, number : Nat]
Links == {inode} \cup Segment \cup {NoRecord}

\* The SEGI records in front of descriptor g, and the zones up to it.
LoadedAt(g) == IF g < InodeMaxBlocks THEN 0 ELSE 1 + ((g - InodeMaxBlocks) \div IndirectMaxBlocks)
Metadata(g) == { i \in 1 .. g : IsMetadata(i) }
BlockZones(g) == ZonesOfBlock(SegmentChain, g)
ZonesTo(g) == Zones(SegmentChain, g)
LastBlock == inode.numberData - 1

\* Quotient and remainder are what they are.
LEMMA DivUnique ==
  ASSUME NEW d \in Nat \ {0}, NEW q \in Nat, NEW r \in 0 .. (d - 1), NEW a, a = q * d + r
  PROVE  a \div d = q /\ a % d = r
<1>1. q * d \in Nat /\ r \in Nat
  BY SMT
<1>. a \in Nat
  BY <1>1
<1>2. /\ a \div d \in Nat /\ a % d \in 0 .. (d - 1)
      /\ a = (a \div d) * d + (a % d) /\ (a \div d) * d \in Nat
  BY <1>1, Remainder
<1> DEFINE p == a \div d
           s == a % d
<1>. HIDE DEF p, s
<1>3. p \in Nat /\ s \in 0 .. (d - 1) /\ p * d + s = q * d + r
  BY <1>2 DEF p, s
<1>4. ASSUME NEW x \in Nat, NEW y \in Nat, x < y PROVE x * d + d <= y * d
  <2>1. (x + 1) * d <= y * d
    BY <1>4, ProductOrder
  <2>2. (x + 1) * d = x * d + d
    BY SMT
  <2>. QED BY <2>1, <2>2
<1>5. p * d \in Nat
  BY <1>3, SMT
<1>6. ~(p < q) /\ ~(q < p)
  BY <1>1, <1>3, <1>4, <1>5
<1>7. p = q
  BY <1>3, <1>6
<1>8. s = r
  BY <1>1, <1>3, <1>7
<1>. QED BY <1>7, <1>8 DEF p, s

\* The number of SEGI records grows at their indices.
LEMMA LoadedSteps ==
  ASSUME NEW g \in Nat
  PROVE  /\ LoadedAt(g) \in 0 .. g
         /\ LoadedAt(g + 1) = IF IsMetadata(g + 1) THEN LoadedAt(g) + 1 ELSE LoadedAt(g)
         /\ g + 1 < InodeMaxBlocks <=> LoadedAt(g + 1) = 0
         /\ IsMetadata(g + 1) <=> IsSegmentItself(g + 1)
<1> DEFINE I == InodeMaxBlocks
           J == IndirectMaxBlocks
<1>1. I \in Nat \ {0} /\ J \in Nat \ {0}
  BY SizesType
<1>. HIDE DEF I, J
<1>2. ASSUME NEW a \in Nat
      PROVE  a \div J \in 0 .. a /\ a % J \in 0 .. (J - 1) /\ a = (a \div J) * J + (a % J)
  <2>1. a \div J \in Nat /\ a % J \in 0 .. (J - 1) /\ a = (a \div J) * J + (a % J)
    BY <1>1, Remainder
  <2> DEFINE q == a \div J
  <2>2. ASSUME NEW n \in Nat PROVE n <= n * J
    BY <1>1, SMT
  <2>3. q <= q * J /\ q * J \in Nat
    BY <1>1, <2>1, <2>2, SMT
  <2>. HIDE DEF q
  <2>4. q <= a
    BY <2>1, <2>3 DEF q
  <2>. QED BY <2>1, <2>4 DEF q
<1>3. ASSUME NEW a \in Nat
      PROVE  (a + 1) \div J = IF (a + 1) % J = 0 THEN (a \div J) + 1 ELSE a \div J
  <2> DEFINE q == a \div J
             r == a % J
  <2>1. q \in Nat /\ r \in 0 .. (J - 1) /\ a = q * J + r /\ q * J \in Nat
    BY <1>1, <1>2, SMT
  <2>. HIDE DEF q, r
  <2>2. CASE r = J - 1
    <3>1. a + 1 = (q + 1) * J + 0
      BY <1>1, <2>1, <2>2, SMT
    <3>2. q + 1 \in Nat /\ 0 \in 0 .. (J - 1)
      BY <1>1, <2>1
    <3> DEFINE b == a + 1
    <3>3. b = (q + 1) * J + 0
      BY <3>1
    <3>. HIDE DEF b
    <3>4. b \div J = q + 1 /\ b % J = 0
      BY <1>1, <3>2, <3>3, DivUnique
    <3>. QED BY <3>4 DEF b, q
  <2>3. CASE r # J - 1
    <3>1. a + 1 = q * J + (r + 1) /\ r + 1 \in 0 .. (J - 1)
      BY <1>1, <2>1, <2>3
    <3> DEFINE b == a + 1
               t == r + 1
    <3>2. b = q * J + t /\ t \in 0 .. (J - 1) /\ t # 0
      BY <2>1, <3>1
    <3>. HIDE DEF b, t
    <3>3. b \div J = q /\ b % J = t
      BY <1>1, <2>1, <3>2, DivUnique
    <3>. QED BY <3>2, <3>3 DEF b, q
  <2>. QED BY <2>2, <2>3
<1>4. 0 \div J = 0 /\ 0 % J = 0
  BY <1>1, SMT
<1>5. \A n \in Nat : LoadedAt(n) = IF n < I THEN 0 ELSE 1 + ((n - I) \div J)
  BY DEF LoadedAt, I, J
<1>6. \A n \in Nat : IsMetadata(n) <=> n >= I /\ (n - I) % J = 0
  BY DEF IsMetadata, I, J
<1>7. LoadedAt(g) \in 0 .. g
  <2>1. CASE g < I
    BY <1>5, <2>1
  <2>2. CASE ~(g < I)
    <3>1. g - I \in Nat
      BY <1>1, <2>2
    <3>2. (g - I) \div J \in 0 .. (g - I)
      BY <1>2, <3>1
    <3>. QED BY <1>1, <1>5, <2>2, <3>1, <3>2
  <2>. QED BY <2>1, <2>2
<1>8. LoadedAt(g + 1) = IF IsMetadata(g + 1) THEN LoadedAt(g) + 1 ELSE LoadedAt(g)
  <2>1. CASE g + 1 < I
    BY <1>1, <1>5, <1>6, <2>1
  <2>2. CASE g + 1 = I
    <3>1. (g + 1) - I = 0 /\ g < I
      BY <1>1, <2>2
    <3>2. IsMetadata(g + 1) /\ LoadedAt(g + 1) = 1 + (0 \div J) /\ LoadedAt(g) = 0
      BY <1>4, <1>5, <1>6, <2>2, <3>1
    <3>. QED BY <1>4, <3>2
  <2>3. CASE g + 1 > I
    <3>1. g - I \in Nat /\ (g + 1) - I = (g - I) + 1
      BY <1>1, <2>3
    <3>2. /\ LoadedAt(g + 1) = 1 + (((g - I) + 1) \div J)
          /\ LoadedAt(g) = 1 + ((g - I) \div J)
          /\ IsMetadata(g + 1) <=> ((g - I) + 1) % J = 0
      BY <1>1, <1>5, <1>6, <2>3, <3>1
    <3>3. (g - I) \div J \in Nat
      BY <1>2, <3>1
    <3>. QED BY <1>3, <3>1, <3>2, <3>3
  <2>. QED BY <1>1, <2>1, <2>2, <2>3
<1>9. g + 1 < I <=> LoadedAt(g + 1) = 0
  <2>1. CASE g + 1 < I
    BY <1>5, <2>1
  <2>2. CASE ~(g + 1 < I)
    <3>1. (g + 1) - I \in Nat
      BY <1>1, <2>2
    <3>2. LoadedAt(g + 1) = 1 + (((g + 1) - I) \div J)
      BY <1>5, <2>2
    <3>3. ((g + 1) - I) \div J \in Nat
      BY <1>2, <3>1
    <3>. QED BY <2>2, <3>2, <3>3
  <2>. QED BY <2>1, <2>2
<1>10. IsMetadata(g + 1) <=> IsSegmentItself(g + 1)
  BY <1>1, <1>6 DEF IsSegmentItself, IsDirect, Local, I, J
<1>. QED BY <1>7, <1>8, <1>9, <1>10 DEF I

\* The chain of SEGI records.
LEMMA ChainFacts ==
  ASSUME DiskInv, inode \in Inode
  PROVE  /\ SegmentChain \in [0 .. inode.numberData -> Links] /\ SegmentChain[0] = inode
         /\ \A k \in 1 .. inode.numberData :
              /\ SegmentChain[k] \in Segment \cup {NoRecord}
              /\ SegmentChain[k] =
                   IF SegmentChain[k - 1].kind # "none" /\ IsSegment(SegmentChain[k - 1].next)
                   THEN RecordAt(SegmentChain[k - 1].next) ELSE NoRecord
<1> DEFINE n == inode.numberData
           Next1(r) == IF r.kind # "none" /\ IsSegment(r.next) THEN RecordAt(r.next) ELSE NoRecord
           G == [k \in 1 .. n |-> [r \in Links |-> Next1(r)]]
           Is(f) == f = [k \in 0 .. n |-> IF k = 0 THEN inode ELSE Next1(f[k - 1])]
           c == CHOOSE f : Is(f)
<1>1. n \in Nat
  BY DEF Inode
<1>2. \A r : Next1(r) \in Segment \cup {NoRecord}
  BY RecordAtType, RecordKinds DEF IsSegment
<1>3. \E h : Recursive(h, n, Links, inode, G)
  <2>1. G \in [1 .. n -> [Links -> Links]]
    BY <1>2 DEF Links
  <2>2. inode \in Links
    BY DEF Links
  <2>. HIDE DEF G
  <2>. QED BY <1>1, <2>1, <2>2, RecursionExists
<1>4. PICK h : Recursive(h, n, Links, inode, G)
  BY <1>3
<1>5. h \in [0 .. n -> Links] /\ h[0] = inode
  BY <1>4 DEF Recursive
<1>6. ASSUME NEW k \in 1 .. n PROVE h[k] = Next1(h[k - 1])
  <2>1. k - 1 \in 0 .. n
    BY <1>1
  <2>2. h[k] = G[k][h[k - 1]] /\ h[k - 1] \in Links
    <3>. HIDE DEF G
    <3>. QED BY <1>4, <2>1 DEF Recursive
  <2>. HIDE DEF Next1
  <2>. QED BY <2>2
<1>7. Is(h)
  <2>1. h = [k \in 0 .. n |-> h[k]]
    BY <1>5
  <2>2. ASSUME NEW k \in 0 .. n PROVE h[k] = IF k = 0 THEN inode ELSE Next1(h[k - 1])
    <3>1. k = 0 \/ k \in 1 .. n
      BY <1>1
    <3>. HIDE DEF Next1
    <3>. QED BY <1>5, <1>6, <3>1
  <2>. HIDE DEF Next1
  <2>. QED BY <2>1, <2>2
<1>8. SegmentChain = c
  BY DEF SegmentChain
<1>9. Is(SegmentChain)
  <2>. HIDE DEF Is
  <2>. QED BY <1>7, <1>8
<1>10. /\ DOMAIN SegmentChain = 0 .. n
       /\ \A k \in 0 .. n : SegmentChain[k] = IF k = 0 THEN inode ELSE Next1(SegmentChain[k - 1])
  <2> DEFINE s == SegmentChain
  <2>1. Is(s)
    BY <1>9
  <2>. HIDE DEF s, Next1
  <2>2. /\ DOMAIN s = 0 .. n
        /\ \A k \in 0 .. n : s[k] = IF k = 0 THEN inode ELSE Next1(s[k - 1])
    BY <2>1
  <2>. QED BY <2>2 DEF s
<1> DEFINE s == SegmentChain
<1>11. s[0] = inode /\ \A k \in 1 .. n : s[k] = Next1(s[k - 1])
  <2>1. 0 \in 0 .. n /\ \A k \in 1 .. n : k \in 0 .. n /\ k # 0
    BY <1>1
  <2>. HIDE DEF Next1
  <2>. QED BY <1>10, <2>1
<1>12. \A k \in 1 .. n : s[k] \in Segment \cup {NoRecord}
  <2>. HIDE DEF s, Next1
  <2>. QED BY <1>2, <1>11
<1>13. s \in [0 .. n -> Links]
  <2>1. s = [k \in 0 .. n |-> s[k]]
    BY <1>9
  <2>2. \A k \in 0 .. n : s[k] \in Links
    <3>1. \A k \in 0 .. n : k = 0 \/ k \in 1 .. n
      BY <1>1
    <3>. HIDE DEF s, Next1
    <3>. QED BY <1>11, <1>12, <3>1 DEF Links
  <2>. HIDE DEF s
  <2>. QED BY <2>1, <2>2
<1>. QED BY <1>11, <1>12, <1>13

\* The zones a descriptor adds, and those of the descriptors up to it.
LEMMA BlockZonesAre ==
  ASSUME DiskInv, inode \in Inode, NEW g \in 1 .. LastBlock
  PROVE  /\ LoadedAt(g) \in 0 .. inode.numberData
         /\ BlockZones(g) \in Seq(Zone)
         /\ IsMetadata(g) => BlockZones(g) = <<>>
         /\ ~IsMetadata(g) /\ SegmentChain[LoadedAt(g)].kind # "none" =>
              LET b == SegmentChain[LoadedAt(g)].data[IF g < InodeMaxBlocks THEN g ELSE Local(g)] IN
              /\ b \in BlockInfo
              /\ BlockZones(g) =
                   [z \in 1 .. b.count |-> [subpart |-> b.subpart, number |-> b.number + z - 1]]
<1> DEFINE k == LoadedAt(g)
           c == SegmentChain
           i == IF g < InodeMaxBlocks THEN g ELSE Local(g)
           b == c[k].data[i]
<1>1. inode.numberData \in Nat /\ g \in Nat /\ g - 1 \in Nat /\ g <= inode.numberData
  BY DEF Inode, LastBlock
<1>2. k \in 0 .. inode.numberData
  <2>1. k \in 0 .. g
    BY <1>1, LoadedSteps
  <2>. HIDE DEF k
  <2>. QED BY <1>1, <2>1
<1>3. g < InodeMaxBlocks <=> k = 0
  <2>1. (g - 1) + 1 = g
    BY <1>1
  <2>. QED BY <1>1, <2>1, LoadedSteps
<1>4. /\ c[0] = inode /\ c[k] \in Links
      /\ k # 0 => c[k] \in Segment \cup {NoRecord}
  BY <1>2, ChainFacts
<1>5. BlockZones(g) = IF IsMetadata(g) \/ c[k].kind = "none" THEN <<>>
                      ELSE [z \in 1 .. b.count |-> [subpart |-> b.subpart, number |-> b.number + z - 1]]
  BY DEF BlockZones, ZonesOfBlock, LoadedAt, Local
<1>. HIDE DEF c, k
<1>6. ASSUME ~IsMetadata(g), c[k].kind # "none"
      PROVE  b \in BlockInfo
  <2>1. CASE g < InodeMaxBlocks
    <3>1. k = 0 /\ c[k] = inode /\ i \in 1 .. (InodeMaxBlocks - 1)
      BY <1>1, <1>3, <1>4, <2>1, SizesType
    <3>. QED BY <3>1 DEF Inode
  <2>2. CASE ~(g < InodeMaxBlocks)
    <3>1. c[k] \in Segment
      BY <1>3, <1>4, <1>6, <2>2 DEF NoRecord
    <3>2. g - InodeMaxBlocks \in Nat
      BY <1>1, <2>2, SizesType
    <3>3. Local(g) \in 0 .. (IndirectMaxBlocks - 1)
      BY <3>2, SizesType, Remainder DEF Local
    <3>4. Local(g) # 0
      BY <1>1, <1>6, <2>2, SizesType DEF IsMetadata, Local
    <3>5. i \in 1 .. (IndirectMaxBlocks - 1)
      BY <2>2, <3>3, <3>4, SizesType
    <3>. HIDE DEF i
    <3>. QED BY <3>1, <3>5 DEF Segment
  <2>. QED BY <2>1, <2>2
<1>. HIDE DEF b
<1>7. BlockZones(g) \in Seq(Zone)
  <2>1. CASE IsMetadata(g) \/ c[k].kind = "none"
    BY <1>5, <2>1
  <2>2. CASE ~(IsMetadata(g) \/ c[k].kind = "none")
    <3>1. b.number \in Nat /\ b.subpart \in Nat /\ b.count \in Nat
      BY <1>6, <2>2, SizesType DEF BlockInfo
    <3>2. \A z \in 1 .. b.count : [subpart |-> b.subpart, number |-> b.number + z - 1] \in Zone
      BY <3>1 DEF Zone
    <3>3. [z \in 1 .. b.count |-> [subpart |-> b.subpart, number |-> b.number + z - 1]] \in Seq(Zone)
      BY <3>1, <3>2
    <3>. QED BY <1>5, <2>2, <3>3
  <2>. QED BY <2>1, <2>2
<1>. QED BY <1>2, <1>5, <1>6, <1>7 DEF b, c, k

LEMMA ZonesGrow ==
  ASSUME DiskInv, inode \in Inode
  PROVE  /\ ZonesTo(0) = <<>>
         /\ \A g \in 1 .. LastBlock : ZonesTo(g) = ZonesTo(g - 1) \o BlockZones(g)
         /\ \A g \in 0 .. LastBlock : ZonesTo(g) \in Seq(Zone)
<1> DEFINE b == [i \in 1 .. LastBlock |-> BlockZones(i)]
<1>1. LastBlock \in Nat \/ LastBlock = -1
  BY DEF LastBlock, Inode
<1>2. CASE LastBlock \in Nat
  <2>1. b \in [1 .. LastBlock -> Seq(Zone)]
    BY BlockZonesAre
  <2>2. PICK h : Concats(h, LastBlock, Zone, b)
    <3>. HIDE DEF b
    <3>. QED BY <1>2, <2>1, ConcatsExist
  <2>3. ASSUME NEW g \in 0 .. LastBlock PROVE ZonesTo(g) = h[g]
    <3> DEFINE s == [i \in 1 .. g |-> BlockZones(i)]
    <3>1. ZonesTo(g) = FlattenSeq(s)
      BY Zenon DEF ZonesTo, Zones, BlockZones
    <3>2. s = FirstFew(b, g)
      <4>1. \A i \in 1 .. g : i \in 1 .. LastBlock
        BY <1>2
      <4>. QED BY <4>1 DEF FirstFew
    <3>3. FlattenSeq(s) = h[g]
      <4>. HIDE DEF b, s
      <4>1. \A k \in 0 .. LastBlock : FlattenSeq(FirstFew(b, k)) = h[k]
        BY <1>2, <2>2, FlattenIsConcat
      <4>. QED BY <3>2, <4>1
    <3>. QED BY <3>1, <3>2, <3>3
  <2>4. ZonesTo(0) = <<>> /\ \A g \in 0 .. LastBlock : ZonesTo(g) \in Seq(Zone)
    BY <1>2, <2>2, <2>3 DEF Concats
  <2>5. ASSUME NEW g \in 1 .. LastBlock PROVE ZonesTo(g) = ZonesTo(g - 1) \o BlockZones(g)
    <3>1. g \in 0 .. LastBlock /\ g - 1 \in 0 .. LastBlock
      BY <1>2
    <3>2. h[g] = h[g - 1] \o b[g] /\ b[g] = BlockZones(g)
      BY <2>2 DEF Concats
    <3>. QED BY <2>3, <3>1, <3>2
  <2>. QED BY <2>4, <2>5
<1>3. CASE LastBlock = -1
  <2>1. [i \in 1 .. 0 |-> BlockZones(i)] = <<>>
    OBVIOUS
  <2>2. ZonesTo(0) = FlattenSeq(<<>>)
    <3>1. ZonesTo(0) = FlattenSeq([i \in 1 .. 0 |-> BlockZones(i)])
      BY DEF ZonesTo, Zones, BlockZones
    <3>. QED BY <2>1, <3>1
  <2>. QED BY <1>3, <2>2 DEF FlattenSeq
<1>. QED BY <1>1, <1>2, <1>3
-----------------------------------------------------------------------------
(* What the walk knows: the runs are the zones of the descriptors passed.  *)

\* Descriptor i leads on.
Present(i) ==
  IF IsMetadata(i) THEN SegmentChain[LoadedAt(i)].kind # "none" ELSE BlockZones(i) # <<>>

\* A run stands for zones that follow one another in the file.
RunShows(run, zones) ==
  \E f \in 0 .. Len(zones) :
    /\ run.logical = f * ZoneBytes /\ f + run.block.count <= Len(zones)
    /\ \A z \in 1 .. run.block.count :
         zones[f + z] = [subpart |-> run.block.subpart, number |-> run.block.number + z - 1]

\* The runs follow one another, from the start of the request or before to
\* the last of the zones.
RunsRight(runs, zones) ==
  /\ \A j \in DOMAIN runs : RunShows(runs[j], zones)
  /\ \A j \in 1 .. (Len(runs) - 1) : RunEnd(runs[j]) = runs[j + 1].logical
  /\ runs = <<>> => Len(zones) * ZoneBytes <= request.offset
  /\ runs # <<>> =>
       /\ runs[1].logical <= request.offset /\ request.offset < Len(zones) * ZoneBytes
       /\ RunEnd(runs[Len(runs)]) = Len(zones) * ZoneBytes

\* The walk has passed g descriptors.
WalkAt(g) ==
  /\ walk.global = g + 1 /\ g + 1 \in 1 .. inode.numberData
  /\ walk.loaded = LoadedAt(g) /\ walk.loaded = Cardinality(Metadata(g))
  /\ SegmentChain[walk.loaded].kind # "none" /\ walk.next = SegmentChain[walk.loaded].next
  /\ walk.loaded # 0 => walk.segment = SegmentChain[walk.loaded]
  /\ \A i \in 1 .. g : Present(i)
  /\ walk.logical = Len(ZonesTo(g)) * ZoneBytes
  /\ \A m \in 0 .. (g - 1) : Len(ZonesTo(m)) * ZoneBytes < RequestEnd
  /\ RunsRight(walk.runs, ZonesTo(g))

\* A byte of the file is what a read of the device gives.
ZoneOf(zones, i) == zones[(i \div ZoneBytes) + 1]
SectorOf(zones, i) ==
  ZoneOf(zones, i).number * super.zoneSectors + ((i % ZoneBytes) \div SectorSize)
ByteReadable(zones, i) ==
  ZoneOf(zones, i).subpart <= super.numSubs /\ Readable(ZoneOf(zones, i).subpart, SectorOf(zones, i), 1)
ByteOf(zones, i) ==
  Physical(ZoneOf(zones, i).subpart, SectorOf(zones, i)) * SectorSize + (i % SectorSize)

OutRight(zones) ==
  \A j \in 1 .. Len(out) :
    LET i == request.offset + j - 1 IN
    /\ i < Len(zones) * ZoneBytes
    /\ ByteReadable(zones, i) /\ out[j] = ByteOf(zones, i)

\* The file is the one that is wanted, the walk and the copy are on the way
\* to what it holds, and what has been answered is right.
ContentInv ==
  /\ inode # NoInode => inode.numberData # 0
  /\ reading \in {"walk", "copy"} =>
       /\ request.length # 0 /\ RequestEnd <= inode.size
       /\ \E g \in Nat :
            WalkAt(g) /\ (reading = "copy" => ~Walking /\ OutRight(ZonesTo(g)))
  /\ AnswerIsContent

\* The zones of a file stay what they are.
LEMMA SameChain ==
  ASSUME UNCHANGED <<diskVars, extents, super, inode>>
  PROVE  /\ SegmentChain' = SegmentChain /\ ZoneBytes' = ZoneBytes
         /\ \A g : ZonesTo(g)' = ZonesTo(g) /\ BlockZones(g)' = BlockZones(g) /\ Present(g)' = Present(g)
<1>1. SegmentChain' = SegmentChain
  BY DEF SegmentChain, IsSegment, RecordAt, Readable, InExtent, HasExtent, Physical
<1>2. ZoneBytes' = ZoneBytes
  BY DEF ZoneBytes
<1>3. \A g : ZonesTo(g)' = ZonesTo(g) /\ BlockZones(g)' = BlockZones(g) /\ Present(g)' = Present(g)
  BY <1>1 DEF ZonesTo, BlockZones, Present
<1>. QED BY <1>1, <1>2, <1>3

\* The file and what it holds stay what they are while it is read.
LEMMA SameFile ==
  ASSUME UNCHANGED <<diskVars, extents, super, inode, request>>
  PROVE  /\ SegmentChain' = SegmentChain /\ RightAnswer' = RightAnswer
         /\ ZoneBytes' = ZoneBytes /\ RequestEnd' = RequestEnd
         /\ \A g : ZonesTo(g)' = ZonesTo(g) /\ BlockZones(g)' = BlockZones(g) /\ Present(g)' = Present(g)
<1>1. SegmentChain' = SegmentChain
  BY SameChain
<1>2. ZoneBytes' = ZoneBytes /\ RequestEnd' = RequestEnd
  BY SameChain DEF RequestEnd
<1>3. \A g : ZonesTo(g)' = ZonesTo(g) /\ BlockZones(g)' = BlockZones(g) /\ Present(g)' = Present(g)
  BY SameChain
<1>4. RightAnswer' = RightAnswer
  <2> DEFINE reach == { g \in 1 .. LastBlock : Reaches(SegmentChain, g) }
             Result(R) ==
               IF RequestEnd > inode.size THEN Failed
               ELSE IF request.length = 0 THEN [ok |-> TRUE, bytes |-> <<>>]
               ELSE IF R = {} THEN Failed
               ELSE LET g == CHOOSE m \in R : \A n \in R : m <= n IN
                    IF inode.segments # 0 /\ Cardinality(Metadata(g)) > inode.segments
                    THEN Failed ELSE FileBytes(ZonesTo(g))
  <2>1. RightAnswer = Result(reach)
    BY DEF RightAnswer, LastBlock, Metadata, ZonesTo
  <2>2. RightAnswer' = (Result(reach))'
    BY DEF RightAnswer, LastBlock, Metadata, ZonesTo
  <2>3. \A z : FileBytes(z)' = FileBytes(z)
    BY DEF FileBytes, Readable, InExtent, HasExtent, Physical, ZoneBytes, RequestEnd
  <2>4. reach' = reach
    <3>1. \A g : Reaches(SegmentChain, g)' = Reaches(SegmentChain, g)
      BY <1>1, <1>2 DEF Reaches
    <3>. QED BY <3>1 DEF LastBlock
  <2>. HIDE DEF reach
  <2>5. (Result(reach))' = Result(reach)
    BY <1>2, <1>3, <2>3, <2>4
  <2>. QED BY <2>1, <2>2, <2>5
<1>. QED BY <1>1, <1>2, <1>3, <1>4

LEMMA ReachesIs ==
  ASSUME NEW g \in Nat
  PROVE  Reaches(SegmentChain, g) <=>
           Len(ZonesTo(g)) * ZoneBytes >= RequestEnd /\ \A i \in 1 .. g : Present(i)
<1>1. ASSUME NEW i \in 1 .. g, IsMetadata(i)
      PROVE  LoadedAt(i) = 1 + ((i - InodeMaxBlocks) \div IndirectMaxBlocks)
  BY <1>1, SizesType DEF IsMetadata, LoadedAt
<1>. QED BY <1>1 DEF Reaches, Present, ZonesTo, BlockZones

\* The requests that are neither empty nor behind the file.
Wanted == request.length # 0 /\ RequestEnd <= inode.size

LEMMA WantedAnswer ==
  ASSUME RequestEnd \in Nat, inode \in Inode, Wanted
  PROVE  LET reach == { g \in 1 .. LastBlock : Reaches(SegmentChain, g) } IN
         /\ reach = {} => RightAnswer = Failed
         /\ \A g \in reach : (\A m \in reach : g <= m) =>
              RightAnswer = IF inode.segments # 0 /\ Cardinality(Metadata(g)) > inode.segments
                            THEN Failed ELSE FileBytes(ZonesTo(g))
<1> DEFINE reach == { g \in 1 .. LastBlock : Reaches(SegmentChain, g) }
           Result(g) == IF inode.segments # 0 /\ Cardinality(Metadata(g)) > inode.segments
                        THEN Failed ELSE FileBytes(ZonesTo(g))
           first == CHOOSE m \in reach : \A n \in reach : m <= n
<1>1. RightAnswer = IF reach = {} THEN Failed ELSE Result(first)
  <2>1. inode.size \in Nat /\ ~(RequestEnd > inode.size) /\ request.length # 0
    BY DEF Inode, Wanted
  <2>. QED BY <2>1 DEF RightAnswer, LastBlock, Metadata, ZonesTo
<1>2. ASSUME NEW g \in reach, \A m \in reach : g <= m PROVE first = g
  <2>1. first \in reach /\ \A n \in reach : first <= n
    <3>. HIDE DEF reach
    <3>. QED BY <1>2
  <2>2. g \in Int /\ first \in Int
    BY <2>1
  <2>. HIDE DEF reach, first
  <2>. QED BY <1>2, <2>1, <2>2
<1>. HIDE DEF reach, first, Result
<1>3. /\ reach = {} => RightAnswer = Failed
      /\ \A g \in reach : (\A m \in reach : g <= m) => RightAnswer = Result(g)
  BY <1>1, <1>2
<1>. QED BY <1>3 DEF reach, Result

\* No number of descriptors reaches the end of the request.
LEMMA NoneReaches ==
  ASSUME RequestEnd \in Nat, inode \in Inode, Wanted,
         \A g \in 1 .. LastBlock : Len(ZonesTo(g)) * ZoneBytes < RequestEnd \/ \E i \in 1 .. g : ~Present(i),
         super \in Super, DiskInv
  PROVE  RightAnswer = Failed
<1>1. ASSUME NEW g \in 1 .. LastBlock PROVE ~Reaches(SegmentChain, g)
  <2>1. g \in Nat /\ g \in 0 .. LastBlock
    BY DEF LastBlock, Inode
  <2>2. ZonesTo(g) \in Seq(Zone) /\ ZoneBytes \in Nat
    BY <2>1, ZonesGrow, ZoneBytesType
  <2>3. Len(ZonesTo(g)) * ZoneBytes \in Nat
    BY <2>2, ProductOrder
  <2>. QED BY <2>1, <2>3, ReachesIs
<1>. QED BY <1>1, WantedAnswer

\* The first g descriptors reach it, and no fewer.
LEMMA ReachedFirst ==
  ASSUME RequestEnd \in Nat, inode \in Inode, Wanted, super \in Super, DiskInv,
         NEW g \in 1 .. LastBlock, Len(ZonesTo(g)) * ZoneBytes >= RequestEnd,
         \A i \in 1 .. g : Present(i),
         \A m \in 0 .. (g - 1) : Len(ZonesTo(m)) * ZoneBytes < RequestEnd
  PROVE  RightAnswer = IF inode.segments # 0 /\ Cardinality(Metadata(g)) > inode.segments
                       THEN Failed ELSE FileBytes(ZonesTo(g))
<1>1. LastBlock \in Int /\ g \in Nat
  BY DEF LastBlock, Inode
<1>2. Reaches(SegmentChain, g)
  BY <1>1, ReachesIs
<1>3. ASSUME NEW m \in 1 .. LastBlock, Reaches(SegmentChain, m) PROVE g <= m
  <2>. SUFFICES ASSUME m < g PROVE FALSE
    BY <1>1
  <2>1. m \in Nat /\ m \in 0 .. LastBlock /\ m \in 0 .. (g - 1)
    BY <1>1
  <2>2. ZonesTo(m) \in Seq(Zone) /\ ZoneBytes \in Nat
    BY <2>1, ZonesGrow, ZoneBytesType
  <2>3. Len(ZonesTo(m)) * ZoneBytes \in Nat
    BY <2>2, ProductOrder
  <2>. QED BY <1>3, <2>1, <2>3, ReachesIs
<1>. QED BY <1>2, <1>3, WantedAnswer
-----------------------------------------------------------------------------
(* The runs.                                                               *)

\* Products by a zone's bytes are as their factors are.
LEMMA Factors ==
  ASSUME NEW d \in Nat \ {0}, NEW a \in Nat, NEW b \in Nat
  PROVE  /\ a * d \in Nat /\ b * d \in Nat /\ (a + b) * d = a * d + b * d
         /\ a * d < b * d <=> a < b
         /\ a * d = b * d <=> a = b
<1>1. a * d \in Nat /\ b * d \in Nat /\ (a + b) * d = a * d + b * d
  BY SMT
<1>2. ASSUME NEW x \in Nat, NEW y \in Nat, x < y PROVE x * d < y * d
  <2>1. (x + 1) * d <= y * d
    BY <1>2, ProductOrder
  <2>2. (x + 1) * d = x * d + d /\ x * d \in Nat /\ y * d \in Nat
    BY SMT
  <2>. QED BY <2>1, <2>2
<1>3. a < b \/ a = b \/ b < a
  OBVIOUS
<1>. QED BY <1>1, <1>2, <1>3

LEMMA RunParts ==
  ASSUME NEW run \in Runs
  PROVE  /\ run.logical \in Nat /\ run.block.number \in Nat /\ run.block.subpart \in Nat
         /\ run.block.count \in Nat \ {0} /\ run.block.count <= MaxRun
<1>1. run.block \in [number : Nat, subpart : Nat, count : 1 .. MaxRun] /\ run.logical \in Nat
  BY DEF Runs
<1>. QED BY <1>1, SizesType

LEMMA JoinedZones ==
  ASSUME NEW zones \in Seq(Zone), NEW new \in Seq(Zone)
  PROVE  /\ zones \o new \in Seq(Zone) /\ Len(zones \o new) = Len(zones) + Len(new)
         /\ \A i \in 1 .. Len(zones) : (zones \o new)[i] = zones[i]
         /\ \A i \in 1 .. Len(new) : (zones \o new)[Len(zones) + i] = new[i]
<1> DEFINE both == zones \o new
<1>1. /\ both \in Seq(Zone) /\ Len(both) = Len(zones) + Len(new)
      /\ \A i \in 1 .. (Len(zones) + Len(new)) :
           both[i] = IF i <= Len(zones) THEN zones[i] ELSE new[i - Len(zones)]
  BY Zenon, ConcatProperties
<1>2. Len(zones) \in Nat /\ Len(new) \in Nat
  OBVIOUS
<1>. HIDE DEF both
<1>3. ASSUME NEW i \in 1 .. Len(zones) PROVE both[i] = zones[i]
  BY <1>1, <1>2
<1>4. ASSUME NEW i \in 1 .. Len(new) PROVE both[Len(zones) + i] = new[i]
  <2>1. /\ Len(zones) + i \in 1 .. (Len(zones) + Len(new))
        /\ ~(Len(zones) + i <= Len(zones)) /\ (Len(zones) + i) - Len(zones) = i
    BY <1>2
  <2>. QED BY <1>1, <2>1
<1>. QED BY <1>1, <1>3, <1>4 DEF both

\* What a run stands for is not changed by what follows.
LEMMA StillShown ==
  ASSUME NEW run \in Runs, NEW zones \in Seq(Zone), NEW new \in Seq(Zone), RunShows(run, zones)
  PROVE  RunShows(run, zones \o new)
<1>1. PICK f \in 0 .. Len(zones) :
        /\ run.logical = f * ZoneBytes /\ f + run.block.count <= Len(zones)
        /\ \A z \in 1 .. run.block.count :
             zones[f + z] = [subpart |-> run.block.subpart, number |-> run.block.number + z - 1]
  BY DEF RunShows
<1>2. Len(zones) \in Nat /\ Len(new) \in Nat /\ run.block.count \in Nat
  BY RunParts
<1>3. f \in 0 .. Len(zones \o new) /\ f + run.block.count <= Len(zones \o new)
  BY <1>1, <1>2, JoinedZones
<1>4. ASSUME NEW z \in 1 .. run.block.count PROVE (zones \o new)[f + z] = zones[f + z]
  <2>1. f + z \in 1 .. Len(zones)
    BY <1>1, <1>2
  <2>. QED BY <2>1, JoinedZones
<1>. QED BY <1>1, <1>3, <1>4 DEF RunShows

\* Where a block of the file has its zones.
NewZones(block) ==
  [z \in 1 .. block.count |-> [subpart |-> block.subpart, number |-> block.number + z - 1]]

LEMMA NewZonesType ==
  ASSUME NEW block \in BlockInfo, block.count # 0
  PROVE  /\ NewZones(block) \in Seq(Zone) /\ Len(NewZones(block)) = block.count
         /\ block.count \in Nat \ {0} /\ block.number \in Nat /\ block.subpart \in Nat
         /\ \A z \in 1 .. block.count :
              NewZones(block)[z] = [subpart |-> block.subpart, number |-> block.number + z - 1]
<1>1. block.count \in Nat \ {0} /\ block.number \in Nat /\ block.subpart \in Nat
  BY SizesType DEF BlockInfo
<1>2. \A z \in 1 .. block.count :
        [subpart |-> block.subpart, number |-> block.number + z - 1] \in Zone
  BY <1>1 DEF Zone
<1>3. NewZones(block) \in [1 .. block.count -> Zone]
  BY <1>2 DEF NewZones
<1>4. NewZones(block) \in Seq(Zone) /\ Len(NewZones(block)) = block.count
  BY <1>1, <1>3
<1>. QED BY <1>1, <1>4 DEF NewZones

\* A block in front of the request adds no run.
LEMMA RunsStay ==
  ASSUME super \in Super, request.offset \in Nat,
         NEW runs \in Seq(Runs), NEW zones \in Seq(Zone), RunsRight(runs, zones),
         NEW new \in Seq(Zone), (Len(zones) + Len(new)) * ZoneBytes <= request.offset
  PROVE  RunsRight(runs, zones \o new)
<1>1. ZoneBytes \in Nat \ {0} /\ Len(zones) \in Nat /\ Len(new) \in Nat
  BY ZoneBytesType
<1>2. Len(zones) * ZoneBytes <= (Len(zones) + Len(new)) * ZoneBytes
      /\ Len(zones) * ZoneBytes \in Nat /\ (Len(zones) + Len(new)) * ZoneBytes \in Nat
  BY <1>1, ProductOrder
<1>3. runs = <<>>
  BY <1>2 DEF RunsRight
<1>4. Len(zones \o new) = Len(zones) + Len(new)
  BY JoinedZones
<1>. QED BY <1>3, <1>4 DEF RunsRight

\* A run of its own.
LEMMA RunsAppend ==
  ASSUME super \in Super, request.offset \in Nat,
         NEW runs \in Seq(Runs), NEW zones \in Seq(Zone), RunsRight(runs, zones),
         NEW block \in BlockInfo, block.count # 0,
         (Len(zones) + block.count) * ZoneBytes > request.offset
  PROVE  RunsRight(Append(runs, Run(block, Len(zones) * ZoneBytes)), zones \o NewZones(block))
<1> DEFINE run == Run(block, Len(zones) * ZoneBytes)
           all == Append(runs, run)
           new == NewZones(block)
           n == Len(runs)
<1>1. ZoneBytes \in Nat \ {0} /\ Len(zones) \in Nat /\ n \in Nat
  BY ZoneBytesType
<1>2. /\ new \in Seq(Zone) /\ Len(new) = block.count
      /\ block.count \in Nat \ {0} /\ block.number \in Nat /\ block.subpart \in Nat
      /\ \A z \in 1 .. block.count :
           new[z] = [subpart |-> block.subpart, number |-> block.number + z - 1]
  BY NewZonesType
<1>3. Len(zones) * ZoneBytes \in Nat
  BY <1>1, ProductOrder
<1>4. run.logical = Len(zones) * ZoneBytes /\ run.block = block /\ run \in Runs
  <2>1. block \in [number : Nat, subpart : Nat, count : 1 .. MaxRun]
    BY <1>2, SizesType DEF BlockInfo
  <2>. QED BY <1>3, <2>1 DEF Run, Runs
<1>. HIDE DEF run, new
<1>5. /\ Len(all) = n + 1 /\ all[n + 1] = run /\ all # <<>>
      /\ \A j \in 1 .. n : all[j] = runs[j]
  BY <1>1, <1>4
<1>6. Len(zones \o new) = Len(zones) + block.count
  BY <1>2, JoinedZones
<1>. HIDE DEF all
<1>7. RunShows(run, zones \o new)
  <2>1. \A z \in 1 .. block.count :
          (zones \o new)[Len(zones) + z] = [subpart |-> block.subpart, number |-> block.number + z - 1]
    BY <1>2, JoinedZones
  <2>2. Len(zones) \in 0 .. Len(zones \o new) /\ Len(zones) + block.count <= Len(zones \o new)
    BY <1>1, <1>2, <1>6
  <2>. QED BY <1>4, <2>1, <2>2 DEF RunShows
<1>8. ASSUME NEW j \in DOMAIN all PROVE RunShows(all[j], zones \o new)
  <2>1. CASE j \in 1 .. n
    <3>1. runs[j] \in Runs /\ RunShows(runs[j], zones)
      BY <2>1 DEF RunsRight
    <3>. QED BY <1>2, <1>5, <2>1, <3>1, StillShown
  <2>2. CASE j \notin 1 .. n
    <3>1. j = n + 1
      <4>1. DOMAIN all = 1 .. (n + 1)
        BY <1>5 DEF all
      <4>. QED BY <1>1, <2>2, <4>1
    <3>. QED BY <1>5, <1>7, <3>1
  <2>. QED BY <2>1, <2>2
<1>9. RunEnd(run) = Len(zones \o new) * ZoneBytes
  BY <1>1, <1>2, <1>4, <1>6, Factors DEF RunEnd
<1>10. runs # <<>> => n \in 1 .. n /\ RunEnd(runs[n]) = Len(zones) * ZoneBytes /\ runs[1].logical <= request.offset
  BY <1>1 DEF RunsRight
<1>11. runs = <<>> => n = 0 /\ Len(zones) * ZoneBytes <= request.offset
  BY DEF RunsRight
<1>12. ASSUME NEW j \in 1 .. (Len(all) - 1) PROVE RunEnd(all[j]) = all[j + 1].logical
  <2>1. CASE j = n
    BY <1>1, <1>4, <1>5, <1>10, <1>12, <2>1
  <2>2. CASE j # n
    <3>1. j \in 1 .. (n - 1) /\ j \in 1 .. n /\ j + 1 \in 1 .. n
      BY <1>1, <1>5, <2>2
    <3>. QED BY <1>5, <3>1 DEF RunsRight
  <2>. QED BY <2>1, <2>2
<1>13. all[1].logical <= request.offset
  <2>1. CASE runs = <<>>
    BY <1>4, <1>5, <1>11, <2>1
  <2>2. CASE runs # <<>>
    <3>1. 1 \in 1 .. n
      BY <1>1, <1>10, <2>2
    <3>. QED BY <1>5, <1>10, <2>2, <3>1
  <2>. QED BY <2>1, <2>2
<1>14. request.offset < Len(zones \o new) * ZoneBytes
  <2>1. (Len(zones) + block.count) * ZoneBytes \in Nat
    BY <1>1, <1>2, ProductOrder
  <2>. QED BY <1>6, <2>1
<1>15. RunsRight(all, zones \o new)
  BY <1>1, <1>5, <1>8, <1>9, <1>12, <1>13, <1>14 DEF RunsRight
<1>. QED BY <1>15 DEF all, run, new

\* A run that ends where the zones end goes on with m more.
LEMMA RunArithmetic ==
  ASSUME NEW d \in Nat \ {0}, NEW f \in Nat, NEW c \in Nat, NEW m \in Nat, NEW l \in Nat,
         f * d + c * d = l * d
  PROVE  f + c = l /\ f * d + (c + m) * d = (l + m) * d
<1>1. /\ f * d \in Nat /\ c * d \in Nat /\ m * d \in Nat /\ l * d \in Nat
      /\ (f + c) * d = f * d + c * d /\ (c + m) * d = c * d + m * d /\ (l + m) * d = l * d + m * d
  BY Factors
<1> DEFINE s == f + c
<1>2. s \in Nat /\ s * d = l * d
  BY <1>1
<1>. HIDE DEF s
<1>3. s = l
  BY <1>2, Factors
<1>. QED BY <1>1, <1>3 DEF s

LEMMA RunIndex ==
  ASSUME NEW f \in Nat, NEW c \in Nat, NEW m \in Nat, NEW b \in Nat, NEW z \in 1 .. (c + m)
  PROVE  /\ z <= c => z \in 1 .. c /\ f + z \in 1 .. (f + c)
         /\ ~(z <= c) => /\ z - c \in 1 .. m /\ (f + c) + (z - c) = f + z
                         /\ (b + c) + (z - c) - 1 = b + z - 1
OBVIOUS

LEMMA JoinedRun ==
  ASSUME super \in Super, NEW zones \in Seq(Zone), NEW block \in BlockInfo, block.count # 0,
         NEW old \in Runs, RunShows(old, zones), RunEnd(old) = Len(zones) * ZoneBytes,
         Merges(old, block),
         NEW run \in Runs, run.logical = old.logical, run.block.subpart = old.block.subpart,
         run.block.number = old.block.number, run.block.count = old.block.count + block.count
  PROVE  /\ RunShows(run, zones \o NewZones(block))
         /\ RunEnd(run) = (Len(zones) + block.count) * ZoneBytes
<1> DEFINE c == old.block.count
           m == block.count
           b == old.block.number
           l == Len(zones)
           d == ZoneBytes
           new == NewZones(block)
           both == zones \o new
<1>1. d \in Nat \ {0} /\ l \in Nat
  BY ZoneBytesType
<1>2. /\ new \in Seq(Zone) /\ Len(new) = m /\ m \in Nat \ {0}
      /\ \A z \in 1 .. m :
           new[z] = [subpart |-> block.subpart, number |-> block.number + z - 1]
  BY NewZonesType
<1>3. c \in Nat \ {0} /\ b \in Nat /\ old.logical \in Nat
  BY RunParts
<1>4. /\ run.block.count = c + m /\ run.block.number = b /\ run.block.subpart = old.block.subpart
      /\ old.block.subpart = block.subpart /\ block.number = b + c
  BY DEF Merges
<1>. HIDE DEF new
<1>5. /\ Len(both) = l + m
      /\ \A i \in 1 .. l : both[i] = zones[i]
      /\ \A i \in 1 .. m : both[l + i] = new[i]
  <2>1. /\ Len(both) = l + Len(new)
        /\ \A i \in 1 .. l : both[i] = zones[i]
        /\ \A i \in 1 .. Len(new) : both[l + i] = new[i]
    BY <1>2, JoinedZones, Zenon
  <2>. QED BY <1>2, <2>1, Zenon
<1>6. PICK f \in 0 .. l :
        /\ old.logical = f * d /\ f + c <= l
        /\ \A z \in 1 .. c : zones[f + z] = [subpart |-> old.block.subpart, number |-> b + z - 1]
  BY DEF RunShows
<1>7. f * d + c * d = l * d
  BY <1>6 DEF RunEnd
<1>8. RunEnd(run) = f * d + (c + m) * d
  BY <1>4, <1>6 DEF RunEnd
<1>. HIDE DEF c, m, b, l, d, both
<1>9. f \in Nat /\ f + c = l /\ f * d + (c + m) * d = (l + m) * d
  <2>1. f \in Nat /\ c \in Nat /\ m \in Nat
    BY <1>1, <1>2, <1>3
  <2>. QED BY <1>1, <1>7, <2>1, RunArithmetic
<1>10. ASSUME NEW z \in 1 .. (c + m)
       PROVE  both[f + z] = [subpart |-> block.subpart, number |-> b + z - 1]
  <2>1. /\ z <= c => z \in 1 .. c /\ f + z \in 1 .. (f + c)
        /\ ~(z <= c) => /\ z - c \in 1 .. m /\ (f + c) + (z - c) = f + z
                        /\ (b + c) + (z - c) - 1 = b + z - 1
    <3>1. f \in Nat /\ c \in Nat /\ m \in Nat /\ b \in Nat
      BY <1>2, <1>3, <1>9
    <3>. QED BY <3>1, RunIndex
  <2>2. CASE z <= c
    <3>1. both[f + z] = zones[f + z]
      BY <1>5, <1>9, <2>1, <2>2
    <3>. QED BY <1>4, <1>6, <2>1, <2>2, <3>1
  <2>3. CASE ~(z <= c)
    <3> DEFINE i == z - c
    <3>1. i \in 1 .. m /\ l + i = f + z /\ (b + c) + i - 1 = b + z - 1
      BY <1>9, <2>1, <2>3
    <3>. HIDE DEF i
    <3>2. both[f + z] = [subpart |-> block.subpart, number |-> (b + c) + i - 1]
      BY <1>2, <1>4, <1>5, <3>1
    <3>. QED BY <3>1, <3>2
  <2>. QED BY <2>2, <2>3
<1>11. RunShows(run, both)
  <2>1. run.block.count = c + m /\ run.logical = f * d
    BY <1>4, <1>6
  <2>2. f \in 0 .. Len(both) /\ f + (c + m) <= Len(both)
    BY <1>1, <1>2, <1>3, <1>5, <1>9
  <2>. QED BY <1>4, <1>10, <2>1, <2>2 DEF RunShows, d
<1>. QED BY <1>8, <1>9, <1>11 DEF both, new, l, d, m

\* The last run goes on.
LEMMA RunsJoin ==
  ASSUME super \in Super, request.offset \in Nat,
         NEW zones \in Seq(Zone), NEW new \in Seq(Zone),
         NEW runs \in Seq(Runs), RunsRight(runs, zones), runs # <<>>,
         NEW run \in Runs, run.logical = runs[Len(runs)].logical,
         RunShows(run, zones \o new), RunEnd(run) = (Len(zones) + Len(new)) * ZoneBytes
  PROVE  RunsRight([runs EXCEPT ![Len(runs)] = run], zones \o new)
<1> DEFINE n == Len(runs)
           all == [runs EXCEPT ![n] = run]
           both == zones \o new
<1>1. ZoneBytes \in Nat \ {0} /\ Len(zones) \in Nat /\ Len(new) \in Nat /\ n \in Nat \ {0} /\ n \in 1 .. n
  BY ZoneBytesType
<1>2. /\ all \in Seq(Runs) /\ Len(all) = n /\ all[n] = run /\ DOMAIN all = 1 .. n
      /\ \A j \in 1 .. n : j # n => all[j] = runs[j]
  BY <1>1
<1>3. Len(both) = Len(zones) + Len(new)
  BY JoinedZones
<1>. HIDE DEF all, both
<1>4. ASSUME NEW j \in 1 .. n, j # n PROVE RunShows(runs[j], both)
  <2>1. runs[j] \in Runs
    BY <1>1
  <2>2. RunShows(runs[j], zones)
    BY <1>1 DEF RunsRight
  <2>. QED BY <2>1, <2>2, StillShown DEF both
<1>5. ASSUME NEW j \in DOMAIN all PROVE RunShows(all[j], both)
  <2>1. j \in 1 .. n
    BY <1>2
  <2>2. CASE j = n
    BY <1>2, <2>2 DEF both
  <2>3. CASE j # n
    BY <1>2, <1>4, <2>1, <2>3
  <2>. QED BY <2>2, <2>3
<1>6. ASSUME NEW j \in 1 .. (n - 1) PROVE RunEnd(all[j]) = all[j + 1].logical
  <2>. j \in 1 .. n /\ j + 1 \in 1 .. n /\ j # n
    BY <1>1
  <2>1. all[j] = runs[j]
    BY <1>2
  <2>2. RunEnd(runs[j]) = runs[j + 1].logical
    BY DEF RunsRight
  <2>3. all[j + 1].logical = runs[j + 1].logical
    <3>1. CASE j + 1 = n
      BY <1>2, <3>1
    <3>2. CASE j + 1 # n
      BY <1>2, <3>2
    <3>. QED BY <3>1, <3>2
  <2>. QED BY <2>1, <2>2, <2>3
<1>7. runs[1].logical <= request.offset /\ request.offset < Len(zones) * ZoneBytes
  BY DEF RunsRight
<1>8. all[1].logical = runs[1].logical
  <2>1. 1 \in 1 .. n
    BY <1>1
  <2>2. CASE n = 1
    BY <1>2, <2>2
  <2>3. CASE n # 1
    BY <1>2, <2>1, <2>3
  <2>. QED BY <2>2, <2>3
<1>9. request.offset < Len(both) * ZoneBytes
  <2>1. Len(zones) * ZoneBytes <= Len(both) * ZoneBytes
        /\ Len(zones) * ZoneBytes \in Nat /\ Len(both) * ZoneBytes \in Nat
    <3>1. Len(both) \in Nat /\ Len(zones) <= Len(both)
      BY <1>1, <1>3
    <3>. QED BY <1>1, <3>1, ProductOrder
  <2>. QED BY <1>7, <2>1
<1>10. all # <<>>
  BY <1>1, <1>2
<1>11. RunsRight(all, both)
  BY <1>2, <1>3, <1>5, <1>6, <1>7, <1>8, <1>9, <1>10 DEF RunsRight
<1>. QED BY <1>11 DEF all, both

\* The runs after a block the request touches.
LEMMA RunsWithBlock ==
  ASSUME super \in Super, request.offset \in Nat,
         NEW runs \in Seq(Runs), NEW zones \in Seq(Zone), RunsRight(runs, zones),
         NEW block \in BlockInfo, block.count # 0,
         (Len(zones) + block.count) * ZoneBytes > request.offset
  PROVE  RunsRight(WithBlock(runs, block, Len(zones) * ZoneBytes), zones \o NewZones(block))
<1>1. CASE runs # <<>> /\ Merges(runs[Len(runs)], block)
  <2> DEFINE n == Len(runs)
             r == runs[n]
             new == [block |-> [number |-> r.block.number, subpart |-> r.block.subpart,
                                count |-> r.block.count + block.count],
                     logical |-> r.logical]
  <2>1. n \in 1 .. Len(runs) /\ r \in Runs
    BY <1>1
  <2>2. /\ r.block \in [number : Nat, subpart : Nat, count : 1 .. MaxRun]
        /\ r.logical \in Nat
    BY <2>1 DEF Runs
  <2>3. r.block.count + block.count \in 1 .. MaxRun
    BY <1>1, <2>1, RunParts, SizesType DEF Merges, BlockInfo
  <2>4. new \in Runs
    BY <2>2, <2>3 DEF Runs
  <2>5. [r EXCEPT !.block.count = @ + block.count] = new
    <3>1. [r.block EXCEPT !.count = @ + block.count] = new.block
      BY <2>2
    <3>2. ASSUME NEW b, b = [r.block EXCEPT !.count = @ + block.count]
          PROVE  [r EXCEPT !.block = b] = [block |-> b, logical |-> r.logical]
      <4>1. r = [block |-> r.block, logical |-> r.logical]
        BY <2>1 DEF Runs
      <4>. HIDE DEF r
      <4>. QED BY <4>1
    <3>. QED BY <3>1, <3>2
  <2>6. WithBlock(runs, block, Len(zones) * ZoneBytes) = [runs EXCEPT ![n] = new]
    BY <1>1, <2>5 DEF WithBlock
  <2>7. /\ new.logical = r.logical /\ new.block.subpart = r.block.subpart
        /\ new.block.number = r.block.number /\ new.block.count = r.block.count + block.count
    OBVIOUS
  <2>. HIDE DEF new
  <2>8. RunShows(r, zones) /\ RunEnd(r) = Len(zones) * ZoneBytes
    BY <1>1, <2>1 DEF RunsRight
  <2>9. /\ RunShows(new, zones \o NewZones(block))
        /\ RunEnd(new) = (Len(zones) + block.count) * ZoneBytes
    <3>. HIDE DEF r
    <3>1. r \in Runs /\ Merges(r, block)
      BY <1>1, <2>1 DEF r
    <3>. QED BY <2>4, <2>7, <2>8, <3>1, JoinedRun
  <2>10. NewZones(block) \in Seq(Zone) /\ Len(NewZones(block)) = block.count
    BY NewZonesType
  <2>11. RunsRight([runs EXCEPT ![n] = new], zones \o NewZones(block))
    BY <1>1, <2>4, <2>7, <2>9, <2>10, RunsJoin
  <2>. QED BY <2>6, <2>11
<1>2. CASE ~(runs # <<>> /\ Merges(runs[Len(runs)], block))
  BY <1>2, RunsAppend DEF WithBlock
<1>. QED BY <1>1, <1>2
-----------------------------------------------------------------------------
(* The steps of a read give what the file holds.                           *)

\* What holds while a read is under way, g descriptors after its start.
LEMMA ReadingFacts ==
  ASSUME IInv, ContentInv, reading \in {"walk", "copy"}
  PROVE  LET g == walk.global - 1 IN
         /\ DiskInv /\ super \in Super /\ inode \in Inode /\ extents \in Seq(Extent)
         /\ walk \in Walks /\ Wanted /\ WalkAt(g)
         /\ reading = "copy" => ~Walking /\ OutRight(ZonesTo(g))
         /\ RequestEnd \in Nat /\ request.offset \in Nat /\ request.length \in Nat \ {0}
         /\ g \in Nat /\ walk.global = g + 1 /\ g \in 0 .. LastBlock /\ LastBlock \in Nat
         /\ ZoneBytes \in Nat \ {0}
         /\ ZonesTo(g) \in Seq(Zone) /\ Len(ZonesTo(g)) \in Nat
         /\ walk.logical = Len(ZonesTo(g)) * ZoneBytes /\ walk.logical \in Nat
<1> DEFINE g == walk.global - 1
<1>1. /\ DiskInv /\ super \in Super /\ inode \in Inode /\ extents \in Seq(Extent)
      /\ walk \in Walks
  BY DEF IInv, PfsInv, VolumeInv, ReadInv
<1>2. Wanted /\ WalkAt(g) /\ (reading = "copy" => ~Walking /\ OutRight(ZonesTo(g)))
  <2>1. PICK n \in Nat : WalkAt(n) /\ (reading = "copy" => ~Walking /\ OutRight(ZonesTo(n)))
    BY DEF ContentInv
  <2>2. n = g
    BY <2>1 DEF WalkAt
  <2>. QED BY <2>1, <2>2 DEF ContentInv, Wanted
<1>3. request.offset \in Nat /\ request.length \in Nat
  BY RequestType DEF IInv, PfsInv
<1>4. RequestEnd \in Nat /\ request.length \in Nat \ {0}
  BY <1>2, <1>3 DEF RequestEnd, Wanted
<1>5. walk.global \in Nat /\ inode.numberData \in Nat
  BY <1>1, WalkParts DEF Inode
<1>6. /\ walk.global = g + 1 /\ g + 1 \in 1 .. inode.numberData
      /\ walk.logical = Len(ZonesTo(g)) * ZoneBytes
  BY <1>2 DEF WalkAt
<1>7. g \in Nat /\ g \in 0 .. LastBlock /\ LastBlock \in Nat
  BY <1>5, <1>6 DEF LastBlock
<1>. HIDE DEF g
<1>8. ZonesTo(g) \in Seq(Zone)
  BY <1>1, <1>7, ZonesGrow
<1>9. ZoneBytes \in Nat \ {0} /\ Len(ZonesTo(g)) \in Nat /\ walk.logical \in Nat
  BY <1>1, <1>8, ZoneBytesType, WalkParts
<1>. QED BY <1>1, <1>2, <1>3, <1>4, <1>6, <1>7, <1>8, <1>9 DEF g

\* A read that ends with the right answer.
LEMMA EndsRight ==
  ASSUME IInv, ContentInv, reading \in {"walk", "copy"}, End(RightAnswer),
         UNCHANGED <<scanVars, diskVars, extents, super>>
  PROVE  ContentInv'
<1>1. reading' = "done" /\ answer' = RightAnswer /\ UNCHANGED <<inode, request>>
  BY DEF End
<1>2. RightAnswer' = RightAnswer
  BY <1>1, SameFile
<1>3. inode' # NoInode => inode'.numberData # 0
  BY <1>1 DEF ContentInv
<1>. QED BY <1>1, <1>2, <1>3 DEF ContentInv, AnswerIsContent

\* No descriptors reach the end of the request when the walk runs out of them
\* before, or when the next one does not lead on.
LEMMA WalkEndsShort ==
  ASSUME IInv, ContentInv, reading \in {"walk", "copy"}, walk.logical < RequestEnd,
         walk.global < inode.numberData => ~Present(walk.global)
  PROVE  RightAnswer = Failed
<1> DEFINE g == walk.global - 1
<1>1. /\ DiskInv /\ super \in Super /\ inode \in Inode /\ Wanted /\ WalkAt(g)
      /\ RequestEnd \in Nat /\ g \in Nat /\ walk.global = g + 1 /\ LastBlock \in Nat
      /\ walk.logical = Len(ZonesTo(g)) * ZoneBytes
  BY ReadingFacts
<1>2. \A m \in 0 .. (g - 1) : Len(ZonesTo(m)) * ZoneBytes < RequestEnd
  BY <1>1 DEF WalkAt
<1>. HIDE DEF g
<1>3. ASSUME NEW m \in 1 .. LastBlock
      PROVE  Len(ZonesTo(m)) * ZoneBytes < RequestEnd \/ \E i \in 1 .. m : ~Present(i)
  <2>1. CASE m <= g
    <3>1. m = g \/ m \in 0 .. (g - 1)
      BY <1>1, <2>1
    <3>. QED BY <1>1, <1>2, <3>1
  <2>2. CASE m > g
    <3>1. walk.global \in 1 .. m /\ walk.global < inode.numberData
      BY <1>1, <2>2 DEF LastBlock, Inode
    <3>. QED BY <3>1
  <2>. QED BY <1>1, <2>1, <2>2
<1>. QED BY <1>1, <1>3, NoneReaches

\* Another descriptor has been passed.
LEMMA PassedOne ==
  ASSUME IInv, ContentInv, reading = "walk", Walking,
         UNCHANGED <<scanVars, diskVars, extents, super, reading, inode, request>>,
         Present(walk.global),
         walk'.global = walk.global + 1,
         walk'.loaded = LoadedAt(walk.global),
         walk'.loaded = Cardinality(Metadata(walk.global)),
         SegmentChain[walk'.loaded].kind # "none",
         walk'.next = SegmentChain[walk'.loaded].next,
         walk'.loaded # 0 => walk'.segment = SegmentChain[walk'.loaded],
         walk'.logical = Len(ZonesTo(walk.global)) * ZoneBytes,
         RunsRight(walk'.runs, ZonesTo(walk.global))
  PROVE  ContentInv'
<1>0. PICK n : n = walk.global
  OBVIOUS
<1> DEFINE g == walk.global - 1
<1>1. /\ Wanted /\ WalkAt(g) /\ RequestEnd \in Nat /\ g \in Nat /\ n = g + 1
      /\ walk.logical = Len(ZonesTo(g)) * ZoneBytes
      /\ inode \in Inode
  BY <1>0, ReadingFacts
<1>. HIDE DEF g
<1>2. n < inode.numberData /\ walk.logical < RequestEnd
  BY <1>0 DEF Walking
<1>3. \A i \in 1 .. n : Present(i)
  <2>1. \A i \in 1 .. g : Present(i)
    BY <1>1 DEF WalkAt
  <2>2. \A i \in 1 .. n : i = n \/ i \in 1 .. g
    BY <1>1
  <2>. QED BY <1>0, <2>1, <2>2
<1>4. \A m \in 0 .. (n - 1) : Len(ZonesTo(m)) * ZoneBytes < RequestEnd
  <2>1. \A m \in 0 .. (g - 1) : Len(ZonesTo(m)) * ZoneBytes < RequestEnd
    BY <1>1 DEF WalkAt
  <2>2. \A m \in 0 .. (n - 1) : m = g \/ m \in 0 .. (g - 1)
    BY <1>1
  <2>. QED BY <1>1, <1>2, <2>1, <2>2
<1>5. n + 1 \in 1 .. inode.numberData
  BY <1>1, <1>2 DEF Inode
<1>6. /\ SegmentChain' = SegmentChain /\ ZoneBytes' = ZoneBytes /\ RequestEnd' = RequestEnd
      /\ \A i : ZonesTo(i)' = ZonesTo(i) /\ Present(i)' = Present(i)
  BY SameFile
<1>7. \A runs, zones : RunsRight(runs, zones)' <=> RunsRight(runs, zones)
  BY <1>6 DEF RunsRight, RunShows, RunEnd
<1>8. RunsRight(walk.runs, ZonesTo(n))'
  BY <1>0, <1>6, <1>7
<1>9. WalkAt(n)'
  BY <1>0, <1>3, <1>4, <1>5, <1>6, <1>8 DEF WalkAt
<1>10. n \in Nat
  BY <1>1
<1>11. request' = request /\ inode' = inode /\ reading' = "walk"
  OBVIOUS
<1>12. AnswerIsContent'
  BY DEF AnswerIsContent
<1>. QED BY <1>1, <1>6, <1>9, <1>10, <1>11, <1>12 DEF ContentInv, Wanted

\* The numbers of SEGI records passed.
LEMMA MetadataGrows ==
  ASSUME NEW g \in Nat, NEW k \in Nat, k = Cardinality(Metadata(g))
  PROVE  Cardinality(Metadata(g + 1)) = IF IsMetadata(g + 1) THEN k + 1 ELSE k
<1>1. IsFiniteSet(Metadata(g)) /\ g + 1 \notin Metadata(g)
  <2>1. IsFiniteSet(1 .. g)
    BY FS_Interval
  <2>2. Metadata(g) \subseteq 1 .. g
    BY DEF Metadata
  <2>3. IsFiniteSet(Metadata(g))
    BY <2>1, <2>2, FS_Subset
  <2>. QED BY <2>2, <2>3
<1>2. \A i : i \in 1 .. (g + 1) <=> i = g + 1 \/ i \in 1 .. g
  OBVIOUS
<1>3. CASE IsMetadata(g + 1)
  <2>1. Metadata(g + 1) = Metadata(g) \cup {g + 1}
    BY <1>2, <1>3 DEF Metadata
  <2>2. Cardinality(Metadata(g) \cup {g + 1}) = Cardinality(Metadata(g)) + 1
    BY <1>1, FS_AddElement
  <2>. QED BY <1>3, <2>1, <2>2
<1>4. CASE ~IsMetadata(g + 1)
  <2>1. Metadata(g + 1) = Metadata(g)
    BY <1>2, <1>4 DEF Metadata
  <2>. QED BY <1>4, <2>1
<1>. QED BY <1>3, <1>4

LEMMA LoadSegmentRight == IInv /\ ContentInv /\ LoadSegment => ContentInv'
<1>. SUFFICES ASSUME IInv, ContentInv, LoadSegment PROVE ContentInv'
  OBVIOUS
<1> DEFINE g == walk.global - 1
           n == walk.global
           c == SegmentChain
           k == walk.loaded
<1>1. /\ reading = "walk" /\ Walking /\ IsSegmentItself(n)
      /\ UNCHANGED <<scanVars, diskVars, extents, super>>
  BY DEF LoadSegment
<1>2. /\ DiskInv /\ super \in Super /\ inode \in Inode /\ walk \in Walks
      /\ WalkAt(g) /\ g \in Nat /\ n = g + 1 /\ LastBlock \in Nat
      /\ ZonesTo(g) \in Seq(Zone) /\ walk.logical = Len(ZonesTo(g)) * ZoneBytes
  BY <1>1, ReadingFacts
<1>3. /\ k = LoadedAt(g) /\ k = Cardinality(Metadata(g)) /\ c[k].kind # "none"
      /\ walk.next = c[k].next /\ RunsRight(walk.runs, ZonesTo(g))
  BY <1>2 DEF WalkAt
<1>4. n < inode.numberData /\ walk.logical < RequestEnd
  BY <1>1 DEF Walking
<1>5. IsMetadata(n) /\ LoadedAt(n) = k + 1 /\ k \in 0 .. g
  BY <1>1, <1>2, <1>3, LoadedSteps
<1>6. k \in Nat /\ (k + 1) - 1 = k /\ k + 1 # 0
  BY <1>2, <1>5
<1>7. k + 1 \in 1 .. inode.numberData /\ n \in 1 .. LastBlock /\ n \in 0 .. LastBlock
  <2> DEFINE all == inode.numberData
  <2>1. all \in Nat /\ LastBlock = all - 1 /\ n < all /\ g \in Nat /\ n = g + 1 /\ k \in 0 .. g
    BY <1>2, <1>4, <1>5 DEF LastBlock, Inode
  <2>. HIDE DEF all, n, g, k
  <2>. QED BY <2>1 DEF all
<1>8. c[k + 1] = IF IsSegment(walk.next) THEN RecordAt(walk.next) ELSE NoRecord
  <2>1. c[k + 1] = IF c[(k + 1) - 1].kind # "none" /\ IsSegment(c[(k + 1) - 1].next)
                   THEN RecordAt(c[(k + 1) - 1].next) ELSE NoRecord
    BY <1>2, <1>7, ChainFacts
  <2>. QED BY <1>3, <1>6, <2>1
<1>. HIDE DEF g, c, k
<1>9. CASE IsSegment(walk.next)
  <2> DEFINE s == RecordAt(walk.next)
  <2>1. /\ walk' = [walk EXCEPT !.global = @ + 1, !.loaded = @ + 1, !.segment = s, !.next = s.next]
        /\ UNCHANGED <<reading, inode, request, out, answer>>
    BY <1>9 DEF LoadSegment
  <2>2. s.kind = "segi" /\ s = c[k + 1]
    BY <1>8, <1>9 DEF IsSegment
  <2>. HIDE DEF s
  <2>3. walk' = [global |-> walk.global + 1, logical |-> walk.logical, segment |-> s,
                 next |-> s.next, loaded |-> walk.loaded + 1, runs |-> walk.runs]
    BY <1>2, <2>1 DEF Walks
  <2>4. /\ walk'.global = n + 1 /\ walk'.logical = walk.logical /\ walk'.segment = s
        /\ walk'.next = s.next /\ walk'.loaded = k + 1 /\ walk'.runs = walk.runs
    BY <2>3 DEF k
  <2>5. ZonesTo(n) = ZonesTo(g)
    <3>1. BlockZones(n) = <<>>
      BY <1>2, <1>5, <1>7, BlockZonesAre
    <3>2. ZonesTo(n) = ZonesTo(g) \o <<>>
      <4>1. \A i \in 1 .. LastBlock : ZonesTo(i) = ZonesTo(i - 1) \o BlockZones(i)
        BY <1>2, ZonesGrow
      <4>2. n - 1 = g
        BY <1>2
      <4>. HIDE DEF n
      <4>. QED BY <1>7, <3>1, <4>1, <4>2
    <3>3. \A z \in Seq(Zone) : z \o <<>> = z
      OBVIOUS
    <3>. QED BY <1>2, <3>2, <3>3
  <2>6. Present(n)
    BY <1>5, <2>2 DEF Present, c
  <2>7. k + 1 = Cardinality(Metadata(n))
    BY <1>2, <1>3, <1>5, <1>6, MetadataGrows
  <2>8. UNCHANGED <<scanVars, diskVars, extents, super, reading, inode, request>>
    BY <1>1, <2>1
  <2>9. SegmentChain[walk'.loaded] = s /\ s.kind # "none"
    BY <2>2, <2>4 DEF c
  <2>. QED BY <1>1, <1>2, <1>3, <1>5, <2>4, <2>5, <2>6, <2>7, <2>8, <2>9, PassedOne
<1>10. CASE ~IsSegment(walk.next)
  <2>1. End(Failed)
    BY <1>10 DEF LoadSegment
  <2>2. ~Present(n)
    BY <1>5, <1>8, <1>10 DEF Present, c, NoRecord
  <2>3. RightAnswer = Failed
    BY <1>1, <1>4, <2>2, WalkEndsShort
  <2>. QED BY <1>1, <2>1, <2>3, EndsRight
<1>. QED BY <1>9, <1>10

LEMMA TakeBlockRight == IInv /\ ContentInv /\ TakeBlock => ContentInv'
<1>. SUFFICES ASSUME IInv, ContentInv, TakeBlock PROVE ContentInv'
  OBVIOUS
<1> DEFINE g == walk.global - 1
           n == walk.global
           c == SegmentChain
           k == walk.loaded
           block == Descriptor
           end == walk.logical + block.count * ZoneBytes
           runs == IF end > request.offset THEN WithBlock(walk.runs, block, walk.logical) ELSE walk.runs
           zones == ZonesTo(g)
           new == NewZones(block)
<1>1. /\ reading = "walk" /\ Walking /\ ~IsSegmentItself(n)
      /\ UNCHANGED <<scanVars, diskVars, extents, super>>
  BY DEF TakeBlock
<1>2. /\ DiskInv /\ super \in Super /\ inode \in Inode /\ walk \in Walks
      /\ WalkAt(g) /\ g \in Nat /\ n = g + 1 /\ LastBlock \in Nat
      /\ zones \in Seq(Zone) /\ walk.logical = Len(zones) * ZoneBytes
      /\ ZoneBytes \in Nat \ {0} /\ request.offset \in Nat
  BY <1>1, ReadingFacts
<1>3. /\ k = LoadedAt(g) /\ k = Cardinality(Metadata(g)) /\ c[k].kind # "none"
      /\ walk.next = c[k].next /\ RunsRight(walk.runs, zones)
      /\ k # 0 => walk.segment = c[k]
  BY <1>2 DEF WalkAt
<1>4. n < inode.numberData /\ walk.logical < RequestEnd
  BY <1>1 DEF Walking
<1>5. ~IsMetadata(n) /\ LoadedAt(n) = k /\ k \in 0 .. g /\ (n < InodeMaxBlocks <=> k = 0)
  BY <1>1, <1>2, <1>3, LoadedSteps
<1>6. n \in 1 .. LastBlock /\ n \in 0 .. LastBlock /\ n - 1 = g
  BY <1>2, <1>4 DEF LastBlock, Inode
<1>7. block = c[k].data[IF n < InodeMaxBlocks THEN n ELSE Local(n)]
  <2>1. CASE n < InodeMaxBlocks
    <3>1. c[k] = inode
      BY <1>2, <1>5, <2>1, ChainFacts
    <3>. QED BY <2>1, <3>1 DEF Descriptor, IsDirect
  <2>2. CASE ~(n < InodeMaxBlocks)
    BY <1>3, <1>5, <2>2 DEF Descriptor, IsDirect
  <2>. QED BY <2>1, <2>2
<1>8. block \in BlockInfo /\ BlockZones(n) = new
  <2>1. ~IsMetadata(n) /\ SegmentChain[LoadedAt(n)].kind # "none"
    BY <1>3, <1>5
  <2>. QED BY <1>2, <1>5, <1>6, <1>7, <2>1, BlockZonesAre DEF NewZones
<1>. HIDE DEF g, c, k, block, zones, new
<1>9. CASE block.count = 0
  <2>1. End(Failed)
    BY <1>9 DEF TakeBlock, block
  <2>2. new = <<>>
    BY <1>9 DEF new, NewZones
  <2>3. ~Present(n)
    BY <1>5, <1>8, <2>2 DEF Present
  <2>4. RightAnswer = Failed
    BY <1>1, <1>4, <2>3, WalkEndsShort
  <2>. QED BY <1>1, <2>1, <2>4, EndsRight
<1>10. CASE block.count # 0
  <2>1. /\ walk' = [walk EXCEPT !.global = @ + 1, !.logical = end,
                       !.runs = IF end > request.offset THEN WithBlock(@, block, walk.logical) ELSE @]
        /\ UNCHANGED <<reading, inode, request, out, answer>>
    BY <1>10 DEF TakeBlock, block
  <2>2. /\ new \in Seq(Zone) /\ Len(new) = block.count /\ block.count \in Nat \ {0}
    BY <1>8, <1>10, NewZonesType DEF new
  <2>3. ZonesTo(n) = zones \o new
    BY <1>2, <1>6, <1>8, ZonesGrow DEF zones
  <2>4. Len(ZonesTo(n)) = Len(zones) + block.count /\ Len(zones) \in Nat
    BY <1>2, <2>2, <2>3, JoinedZones
  <2>5. end = (Len(zones) + block.count) * ZoneBytes /\ end \in Nat
    BY <1>2, <2>2, <2>4, Factors
  <2>6. walk.runs \in Seq(Runs)
    BY <1>2, WalkParts
  <2>. HIDE DEF end
  <2>7. RunsRight(runs, ZonesTo(n))
    <3>1. CASE end > request.offset
      <4>1. runs = WithBlock(walk.runs, block, Len(zones) * ZoneBytes)
        BY <1>2, <3>1
      <4>2. RunsRight(WithBlock(walk.runs, block, Len(zones) * ZoneBytes), zones \o NewZones(block))
        BY <1>2, <1>3, <1>8, <1>10, <2>5, <2>6, <3>1, RunsWithBlock
      <4>. QED BY <2>3, <4>1, <4>2 DEF new
    <3>2. CASE ~(end > request.offset)
      <4>1. (Len(zones) + Len(new)) * ZoneBytes <= request.offset
        BY <1>2, <2>2, <2>5, <3>2
      <4>2. RunsRight(walk.runs, zones \o new)
        BY <1>2, <1>3, <2>2, <2>6, <4>1, RunsStay
      <4>. QED BY <2>3, <3>2, <4>2
    <3>. QED BY <3>1, <3>2
  <2>8. walk' = [global |-> walk.global + 1, logical |-> end, segment |-> walk.segment,
                 next |-> walk.next, loaded |-> walk.loaded, runs |-> runs]
    BY <1>2, <2>1 DEF Walks
  <2>. HIDE DEF runs
  <2>9. /\ walk'.global = n + 1 /\ walk'.logical = end /\ walk'.segment = walk.segment
        /\ walk'.next = walk.next /\ walk'.loaded = k /\ walk'.runs = runs
    BY <2>8 DEF k
  <2>10. Present(n)
    <3>1. BlockZones(n) # <<>>
      BY <1>8, <2>2
    <3>. QED BY <1>5, <3>1 DEF Present
  <2>11. k = Cardinality(Metadata(n))
    <3>1. k \in Nat
      BY <1>5
    <3>. QED BY <1>2, <1>3, <1>5, <3>1, MetadataGrows
  <2>12. UNCHANGED <<scanVars, diskVars, extents, super, reading, inode, request>>
    BY <1>1, <2>1
  <2>13. /\ SegmentChain[walk'.loaded].kind # "none"
         /\ walk'.next = SegmentChain[walk'.loaded].next
         /\ walk'.loaded # 0 => walk'.segment = SegmentChain[walk'.loaded]
    BY <1>3, <2>9 DEF c
  <2>14. walk'.logical = Len(ZonesTo(n)) * ZoneBytes
    BY <2>4, <2>5, <2>9
  <2>. QED BY <1>1, <1>5, <2>7, <2>9, <2>10, <2>11, <2>12, <2>13, <2>14, PassedOne
<1>. QED BY <1>9, <1>10

LEMMA EndWalkRight == IInv /\ ContentInv /\ EndWalk => ContentInv'
<1>. SUFFICES ASSUME IInv, ContentInv, EndWalk PROVE ContentInv'
  OBVIOUS
<1>1. /\ reading = "walk" /\ reading' = "copy" /\ ~Walking
      /\ UNCHANGED <<scanVars, diskVars, extents, super, inode, request, walk, out, answer>>
  BY DEF EndWalk
<1>2. PICK g \in Nat : WalkAt(g)
  BY <1>1 DEF ContentInv
<1>3. /\ SegmentChain' = SegmentChain /\ ZoneBytes' = ZoneBytes /\ RequestEnd' = RequestEnd
      /\ \A i : ZonesTo(i)' = ZonesTo(i) /\ Present(i)' = Present(i)
  BY <1>1, SameFile
<1>4. \A runs, zones : RunsRight(runs, zones)' <=> RunsRight(runs, zones)
  BY <1>1, <1>3 DEF RunsRight, RunShows, RunEnd
<1>5. WalkAt(g)'
  BY <1>1, <1>2, <1>3, <1>4 DEF WalkAt
<1>6. out' = <<>>
  BY <1>1 DEF IInv, PfsInv, ReadInv
<1>7. OutRight(ZonesTo(g))'
  BY <1>6 DEF OutRight
<1>8. (~Walking)'
  BY <1>1, <1>3 DEF Walking
<1>9. AnswerIsContent'
  BY <1>1 DEF AnswerIsContent
<1>10. /\ inode' # NoInode => inode'.numberData # 0
       /\ request'.length # 0 /\ RequestEnd' <= inode'.size
  BY <1>1, <1>3 DEF ContentInv
<1>. QED BY <1>5, <1>7, <1>8, <1>9, <1>10 DEF ContentInv

\* A read whose descriptors reach its end fails if a wanted byte cannot be read.
LEMMA UnreadableByte ==
  ASSUME NEW zones, NEW i \in request.offset .. (RequestEnd - 1), ~ByteReadable(zones, i)
  PROVE  FileBytes(zones) = Failed
BY DEF FileBytes, ByteReadable, ZoneOf, SectorOf

\* The descriptors passed by the walk reach the end of the request.
LEMMA WalkReached ==
  ASSUME IInv, ContentInv, reading = "copy", walk.logical >= RequestEnd
  PROVE  RightAnswer = IF inode.segments # 0 /\ walk.loaded > inode.segments
                       THEN Failed ELSE FileBytes(ZonesTo(walk.global - 1))
<1> DEFINE g == walk.global - 1
<1>1. /\ DiskInv /\ super \in Super /\ inode \in Inode /\ Wanted /\ WalkAt(g)
      /\ RequestEnd \in Nat /\ request.length \in Nat \ {0} /\ request.offset \in Nat
      /\ g \in Nat /\ LastBlock \in Nat /\ g \in 0 .. LastBlock
      /\ walk.logical = Len(ZonesTo(g)) * ZoneBytes /\ ZoneBytes \in Nat \ {0}
  BY ReadingFacts
<1>2. /\ \A m \in 0 .. (g - 1) : Len(ZonesTo(m)) * ZoneBytes < RequestEnd
      /\ \A i \in 1 .. g : Present(i)
      /\ walk.loaded = Cardinality(Metadata(g))
  BY <1>1 DEF WalkAt
<1>. HIDE DEF g
<1>3. g # 0
  <2>. SUFFICES ASSUME g = 0 PROVE FALSE
    OBVIOUS
  <2>1. ZonesTo(g) = <<>> /\ RequestEnd # 0
    BY <1>1, ZonesGrow DEF RequestEnd
  <2>2. 0 * ZoneBytes = 0
    BY <1>1, SMT
  <2>3. walk.logical = 0
    BY <1>1, <2>1, <2>2
  <2>. QED BY <1>1, <2>1, <2>3
<1>4. g \in 1 .. LastBlock
  BY <1>1, <1>3
<1>5. RightAnswer = IF inode.segments # 0 /\ Cardinality(Metadata(g)) > inode.segments
                    THEN Failed ELSE FileBytes(ZonesTo(g))
  BY <1>1, <1>2, <1>4, ReachedFirst
<1>. QED BY <1>2, <1>5 DEF g

\* A copy that meets a wanted byte that cannot be read fails rightly.
LEMMA CopyFailsRight ==
  ASSUME IInv, ContentInv, reading = "copy",
         NEW i \in request.offset .. (RequestEnd - 1),
         ~ByteReadable(ZonesTo(walk.global - 1), i)
  PROVE  RightAnswer = Failed
<1>1. /\ RequestEnd \in Nat /\ walk.logical \in Nat /\ ~Walking
      /\ walk.global \in Nat /\ inode.numberData \in Nat
  BY ReadingFacts, WalkParts DEF Inode
<1>2. CASE walk.logical >= RequestEnd
  BY <1>2, WalkReached, UnreadableByte
<1>3. CASE walk.logical < RequestEnd
  <2>1. ~(walk.global < inode.numberData)
    BY <1>1, <1>3 DEF Walking
  <2>. QED BY <1>3, <2>1, WalkEndsShort
<1>. QED BY <1>1, <1>2, <1>3

LEMMA EndCopyRight == IInv /\ ContentInv /\ EndCopy => ContentInv'
<1>. SUFFICES ASSUME IInv, ContentInv, EndCopy PROVE ContentInv'
  OBVIOUS
<1> DEFINE g == walk.global - 1
           zones == ZonesTo(g)
           Short == Missing # 0
           More == inode.segments # 0 /\ walk.loaded > inode.segments
           a == IF Short \/ More THEN Failed ELSE [ok |-> TRUE, bytes |-> out]
<1>1. /\ reading = "copy" /\ (Missing = 0 \/ OpenRuns = {}) /\ End(a)
      /\ UNCHANGED <<scanVars, diskVars, extents, super>>
  BY DEF EndCopy
<1>2. /\ super \in Super /\ WalkAt(g) /\ ~Walking /\ OutRight(zones)
      /\ RequestEnd \in Nat /\ request.offset \in Nat /\ request.length \in Nat \ {0}
      /\ inode \in Inode /\ walk \in Walks /\ g \in Nat /\ walk.global = g + 1
      /\ walk.logical = Len(zones) * ZoneBytes /\ walk.logical \in Nat
  BY <1>1, ReadingFacts
<1>3. out \in Seq(Nat) /\ Len(out) \in Nat /\ Len(out) <= request.length
  BY DEF IInv, PfsInv, ReadInv
<1>4. Missing = request.length - Len(out) /\ Position = request.offset + Len(out)
      /\ RequestEnd = request.offset + request.length
  BY DEF Missing, Position, RequestEnd
<1>5. RunsRight(walk.runs, zones) /\ walk.runs \in Seq(Runs)
  BY <1>2, WalkParts DEF WalkAt
<1>. HIDE DEF g, zones
<1>6. CASE Short
  <2>1. OpenRuns = {} /\ Position < RequestEnd
    BY <1>1, <1>2, <1>3, <1>4, <1>6
  <2>2. walk.logical < RequestEnd
    <3>1. CASE walk.runs = <<>>
      <4>1. Len(zones) * ZoneBytes <= request.offset
        BY <1>5, <3>1 DEF RunsRight
      <4>. QED BY <1>2, <1>4, <4>1
    <3>2. CASE walk.runs # <<>>
      <4> DEFINE n == Len(walk.runs)
      <4>1. n \in DOMAIN walk.runs /\ walk.runs[n] \in Runs
        BY <1>5, <3>2
      <4>2. RunEnd(walk.runs[n]) = Len(zones) * ZoneBytes
        BY <1>5, <3>2 DEF RunsRight
      <4>3. ~(Position < RunEnd(walk.runs[n]))
        BY <2>1, <4>1 DEF OpenRuns
      <4>. HIDE DEF n
      <4>4. Position \in Nat
        BY <1>2, <1>3, <1>4
      <4>. QED BY <1>2, <2>1, <4>2, <4>3, <4>4
    <3>. QED BY <3>1, <3>2
  <2>3. ~(walk.global < inode.numberData)
    BY <1>2, <2>2 DEF Walking
  <2>4. RightAnswer = Failed
    BY <1>1, <2>2, <2>3, WalkEndsShort
  <2>. QED BY <1>1, <1>6, <2>4, EndsRight
<1>7. CASE ~Short
  <2>1. Len(out) = request.length
    BY <1>2, <1>3, <1>4, <1>7
  <2>2. \A j \in 1 .. request.length :
          LET i == request.offset + j - 1 IN
          i < Len(zones) * ZoneBytes /\ ByteReadable(zones, i) /\ out[j] = ByteOf(zones, i)
    BY <1>2, <2>1, Zenon DEF OutRight
  <2>3. walk.logical >= RequestEnd
    <3>1. request.length \in 1 .. request.length /\ request.offset + request.length - 1 = RequestEnd - 1
      <4> DEFINE l == request.length
                 o == request.offset
      <4>1. l \in Nat \ {0} /\ o \in Nat /\ RequestEnd = o + l
        BY <1>2 DEF RequestEnd
      <4>. HIDE DEF l, o
      <4>. QED BY <4>1 DEF l, o
    <3>2. RequestEnd - 1 < Len(zones) * ZoneBytes
      BY <2>2, <3>1
    <3>. QED BY <1>2, <3>2
  <2>4. RightAnswer = IF More THEN Failed ELSE FileBytes(zones)
    BY <1>1, <2>3, WalkReached DEF zones, g
  <2>5. ASSUME NEW i \in request.offset .. (RequestEnd - 1) PROVE ByteReadable(zones, i)
    <3> DEFINE o == request.offset
               l == request.length
               e == RequestEnd
               j == i - o + 1
    <3>1. o \in Nat /\ l \in Nat /\ e = o + l /\ i \in o .. (e - 1)
      BY <1>2, <1>4
    <3>2. j \in 1 .. l /\ o + j - 1 = i
      <4>. HIDE DEF o, l, e
      <4>. QED BY <3>1
    <3>. HIDE DEF j
    <3>. QED BY <2>2, <3>2
  <2>6. FileBytes(zones) =
          [ok |-> TRUE, bytes |-> [j \in 1 .. request.length |-> ByteOf(zones, request.offset + j - 1)]]
    BY <2>5 DEF FileBytes, ByteReadable, ByteOf, ZoneOf, SectorOf
  <2>7. out = [j \in 1 .. request.length |-> ByteOf(zones, request.offset + j - 1)]
    <3>1. out = [j \in 1 .. request.length |-> out[j]]
      BY <1>3, <2>1
    <3>. QED BY <2>2, <3>1
  <2>8. a = RightAnswer
    BY <1>7, <2>4, <2>6, <2>7
  <2>. QED BY <1>1, <2>8, EndsRight
<1>. QED BY <1>6, <1>7
-----------------------------------------------------------------------------
(* A piece of a run.                                                       *)

\* Byte w of a run from zone `number` on that starts f zones into the file.
LiesIn(number, f, w) ==
  LET i == f * ZoneBytes + w
      z == w \div ZoneBytes IN
  /\ z \in Nat /\ i \div ZoneBytes = f + z
  /\ i % SectorSize = w % SectorSize
  /\ (number + z) * super.zoneSectors + ((i % ZoneBytes) \div SectorSize)
       = number * super.zoneSectors + (w \div SectorSize)

LEMMA RunByte ==
  ASSUME super \in Super, NEW f \in Nat, NEW w \in Nat, NEW number \in Nat
  PROVE  LiesIn(number, f, w)
<1> DEFINE d == SectorSize
           k == super.zoneSectors
           Z == ZoneBytes
           z == w \div Z
           r == w % Z
           q == r \div d
           s == r % d
           i == f * Z + w
<1>1. d \in Nat \ {0} /\ k \in Nat \ {0} /\ Z \in Nat \ {0} /\ Z = k * d
  BY SizesType, ZoneBytesType DEF ZoneBytes, Super
<1>. HIDE DEF d, k, Z
<1>2. z \in Nat /\ r \in 0 .. (Z - 1) /\ w = z * Z + r
  BY <1>1, Remainder
<1>. HIDE DEF z, r
<1>3. r \in Nat
  BY <1>1, <1>2
<1>4. q \in Nat /\ s \in 0 .. (d - 1) /\ r = q * d + s
  BY <1>1, <1>3, Remainder
<1>. HIDE DEF q, s
<1>5. i = (f + z) * Z + r
  <2>1. (f + z) * Z = f * Z + z * Z /\ f * Z \in Nat /\ z * Z \in Nat
    BY <1>1, <1>2, Factors
  <2>. QED BY <1>2, <1>3, <2>1
<1>. HIDE DEF i
<1>6. i \div Z = f + z /\ i % Z = r
  <2> DEFINE n == f + z
  <2>1. n \in Nat /\ i = n * Z + r
    BY <1>2, <1>5
  <2>. HIDE DEF n
  <2>2. i \div Z = n /\ i % Z = r
    BY <1>1, <1>2, <2>1, DivUnique
  <2>. QED BY <2>2 DEF n
<1>7. ASSUME NEW m \in Nat
      PROVE  /\ (m * Z + r) \div d = m * k + q /\ (m * Z + r) % d = s
             /\ m * k \in Nat
  <2> DEFINE p == m * k + q
             y == m * Z + r
  <2>1. m * k \in Nat /\ q * d \in Nat /\ (m * k) * d \in Nat
    BY <1>1, <1>4, SMT
  <2>2. m * Z = (m * k) * d
    BY <1>1, SMT
  <2>3. p * d = (m * k) * d + q * d
    BY <1>1, <1>4, <2>1, Factors
  <2>4. p \in Nat /\ y = p * d + s
    BY <1>4, <2>1, <2>2, <2>3
  <2>. HIDE DEF p, y
  <2>5. y \div d = p /\ y % d = s
    BY <1>1, <1>4, <2>4, DivUnique
  <2>. QED BY <2>1, <2>5 DEF p, y
<1>8. w \div d = z * k + q /\ w % d = s /\ z * k \in Nat
  BY <1>2, <1>7
<1>9. i % d = s
  <2> DEFINE n == f + z
  <2>1. n \in Nat /\ i = n * Z + r
    BY <1>2, <1>5
  <2>. HIDE DEF n
  <2>. QED BY <1>7, <2>1
<1>10. (number + z) * k = number * k + z * k /\ number * k \in Nat
  BY <1>1, <1>2, Factors
<1>11. (number + z) * k + q = number * k + (w \div d)
  BY <1>4, <1>8, <1>10
<1>. QED BY <1>2, <1>6, <1>8, <1>9, <1>11 DEF i, z, q, d, k, Z, LiesIn

\* What is read for byte `at` of a piece, from byte `within` of its run on, is
\* byte within + at of the run; each sector of the piece holds a wanted byte.
LEMMA PieceBytes ==
  ASSUME NEW within \in Nat, NEW wanted \in Nat \ {0}
  PROVE  LET p == Piece(within, wanted)
             first == within \div SectorSize IN
         /\ first \in Nat /\ first * SectorSize + p.from = within /\ p.count # 0
         /\ \A at \in 0 .. (p.take - 1) :
              (within + at) \div SectorSize \in first .. (first + p.count - 1)
         /\ \A s \in 0 .. (p.count - 1) :
              \E at \in 0 .. (wanted - 1) : (within + at) \div SectorSize = first + s
<1> DEFINE d == SectorSize
           p == Piece(within, wanted)
           first == within \div d
           r == within % d
<1>1. d \in Nat \ {0} /\ Batch \in Nat \ {0}
  BY ReadSizes
<1>2. first \in Nat /\ r \in 0 .. (d - 1) /\ within = first * d + r /\ first * d \in Nat
  BY <1>1, Remainder
<1>3. /\ p.count \in Nat /\ p.from \in Nat /\ p.take \in Nat
      /\ p.from + p.take <= p.count * d /\ p.take <= wanted
  BY PieceFits
<1>4. \/ r = 0 /\ p.from = 0 /\ p.take = p.count * d
      \/ p.from = r /\ p.count = 1
  BY DEF Piece
<1>9. p.count # 0
  <2>1. CASE r = 0 /\ wanted >= d
    <3> DEFINE n == wanted \div d
               m == wanted % d
    <3>1. n \in Nat /\ m \in 0 .. (d - 1) /\ wanted = n * d + m
      BY <1>1, Remainder
    <3>. HIDE DEF n, m
    <3>2. n # 0
      <4>. SUFFICES ASSUME n = 0 PROVE FALSE
        OBVIOUS
      <4>1. 0 * d = 0
        BY <1>1, SMT
      <4>. QED BY <1>1, <2>1, <3>1, <4>1
    <3>3. p.count = AtMost(n, Batch)
      BY <2>1 DEF Piece, n
    <3>. HIDE DEF p
    <3>. QED BY <1>1, <3>1, <3>2, <3>3 DEF AtMost
  <2>2. CASE ~(r = 0 /\ wanted >= d)
    BY <2>2 DEF Piece
  <2>. QED BY <2>1, <2>2
<1>. HIDE DEF d, p, first, r
<1>5. p.from = r
  BY <1>4
<1>6. first * d + p.from = within
  BY <1>2, <1>5
<1>7. ASSUME NEW at \in 0 .. (p.take - 1)
      PROVE  (within + at) \div d \in first .. (first + p.count - 1)
  <2> DEFINE x == p.from + at
             y == within + at
             n == p.count
  <2>1. x \in Nat /\ x < n * d /\ n \in Nat /\ n * d \in Nat
    <3>1. n * d \in Nat
      BY <1>1, <1>3, ProductOrder
    <3>. QED BY <1>3, <3>1
  <2>2. y = first * d + x
    BY <1>2, <1>3, <1>6
  <2>. HIDE DEF x, y, n
  <2>3. y \div d \in first .. (first + n - 1)
    BY <1>1, <1>2, <2>1, <2>2, SectorOfByte
  <2>. QED BY <2>3 DEF y, n
<1>8. ASSUME NEW s \in 0 .. (p.count - 1)
      PROVE  \E at \in 0 .. (wanted - 1) : (within + at) \div d = first + s
  <2>1. CASE s = 0
    <3>1. 0 \in 0 .. (wanted - 1) /\ within + 0 = within /\ first + s = first
      BY <1>2, <2>1
    <3>2. within \div d = first
      BY DEF first, d
    <3>. QED BY <3>1, <3>2
  <2>2. CASE s # 0
    <3>1. r = 0 /\ p.take = p.count * d /\ s \in Nat
      BY <1>3, <1>4, <2>2
    <3>2. s * d < p.count * d /\ s * d \in Nat
      BY <1>1, <1>3, Factors
    <3>3. s * d \in 0 .. (wanted - 1)
      BY <1>3, <3>1, <3>2
    <3> DEFINE y == within + s * d
               n == first + s
    <3>4. y = n * d + 0 /\ n \in Nat /\ 0 \in 0 .. (d - 1)
      <4>1. n * d = first * d + s * d
        BY <1>1, <1>2, <3>1, Factors
      <4>. QED BY <1>1, <1>2, <3>1, <3>2, <4>1
    <3>. HIDE DEF y, n
    <3>5. y \div d = n
      BY <1>1, <3>4, DivUnique
    <3>. QED BY <3>3, <3>5 DEF y, n
  <2>. QED BY <2>1, <2>2
<1>. QED BY <1>2, <1>6, <1>7, <1>8, <1>9 DEF d, p, first

\* The zones of a run, and what byte w of it is.
ShowsFrom(run, zones, f) ==
  /\ f + run.block.count <= Len(zones)
  /\ \A z \in 1 .. run.block.count :
       zones[f + z] = [subpart |-> run.block.subpart, number |-> run.block.number + z - 1]
ByteShown(run, zones, f, w) ==
  LET i == f * ZoneBytes + w
      sector == run.block.number * super.zoneSectors + w \div SectorSize IN
  /\ i \in Nat /\ i < Len(zones) * ZoneBytes
  /\ ByteReadable(zones, i) <=>
       run.block.subpart <= super.numSubs /\ Readable(run.block.subpart, sector, 1)
  /\ ByteOf(zones, i) = Physical(run.block.subpart, sector) * SectorSize + (w % SectorSize)

LEMMA ByteInRun ==
  ASSUME super \in Super, NEW zones \in Seq(Zone), NEW run \in Runs,
         NEW f \in Nat, ShowsFrom(run, zones, f),
         NEW w \in Nat, w < run.block.count * ZoneBytes
  PROVE  ByteShown(run, zones, f, w)
<1> DEFINE i == f * ZoneBytes + w
           b == run.block.number
           c == run.block.count
           sub == run.block.subpart
           z == w \div ZoneBytes
           sector == b * super.zoneSectors + (w \div SectorSize)
<1>1. b \in Nat /\ c \in Nat \ {0} /\ sub \in Nat
  BY RunParts
<1>0. /\ f + c <= Len(zones)
      /\ \A x \in 1 .. c : zones[f + x] = [subpart |-> sub, number |-> b + x - 1]
  BY DEF ShowsFrom
<1>2. ZoneBytes \in Nat \ {0} /\ Len(zones) \in Nat
  BY ZoneBytesType
<1>3. /\ z \in Nat /\ i \div ZoneBytes = f + z /\ i % SectorSize = w % SectorSize
      /\ (b + z) * super.zoneSectors + ((i % ZoneBytes) \div SectorSize) = sector
  <2>1. LiesIn(b, f, w)
    <3>. HIDE DEF b
    <3>. QED BY <1>1, RunByte
  <2>. QED BY <2>1, Zenon DEF LiesIn
<1>4. w = z * ZoneBytes + (w % ZoneBytes) /\ w % ZoneBytes \in Nat /\ z * ZoneBytes \in Nat
  <2>1. /\ w % ZoneBytes \in 0 .. (ZoneBytes - 1)
        /\ w = z * ZoneBytes + (w % ZoneBytes) /\ z * ZoneBytes \in Nat
    BY <1>2, Remainder, Zenon
  <2>2. \A x, y : x \in 0 .. y => x \in Nat
    OBVIOUS
  <2>. QED BY <2>1, <2>2, Zenon
<1>. HIDE DEF b, c, sub, z, sector
<1>5. z < c
  <2>1. z * ZoneBytes < c * ZoneBytes
    <3>1. w < c * ZoneBytes /\ c * ZoneBytes \in Nat
      BY <1>1, <1>2, Factors DEF c
    <3>. QED BY <1>4, <3>1
  <2>. QED BY <1>1, <1>2, <1>3, <2>1, Factors
<1>6. z + 1 \in 1 .. c /\ (f + z) + 1 = f + (z + 1) /\ b + (z + 1) - 1 = b + z
  BY <1>1, <1>3, <1>5
<1>7. ZoneOf(zones, i) = [subpart |-> sub, number |-> b + z]
  <2>1. ZoneOf(zones, i) = zones[f + (z + 1)]
    BY <1>3, <1>6 DEF ZoneOf
  <2>. QED BY <1>0, <1>6, <2>1
<1>8. SectorOf(zones, i) = sector
  BY <1>3, <1>7 DEF SectorOf
<1>9. i \in Nat /\ i < Len(zones) * ZoneBytes
  <2>1. f * ZoneBytes + c * ZoneBytes = (f + c) * ZoneBytes /\ f * ZoneBytes \in Nat
        /\ c * ZoneBytes \in Nat
    BY <1>1, <1>2, Factors
  <2>2. (f + c) * ZoneBytes <= Len(zones) * ZoneBytes /\ Len(zones) * ZoneBytes \in Nat
    <3>1. f + c \in Nat /\ f + c <= Len(zones)
      BY <1>0, <1>1
    <3>. QED BY <1>2, <3>1, ProductOrder
  <2>3. w < c * ZoneBytes
    BY DEF c
  <2>. QED BY <2>1, <2>2, <2>3
<1>10. /\ ByteReadable(zones, i) <=> sub <= super.numSubs /\ Readable(sub, sector, 1)
       /\ ByteOf(zones, i) = Physical(sub, sector) * SectorSize + (w % SectorSize)
  BY <1>3, <1>7, <1>8 DEF ByteReadable, ByteOf
<1>. QED BY <1>9, <1>10 DEF b, sub, sector, ByteShown

\* Sectors can be read together just when each can be read.
LEMMA ReadableEach ==
  ASSUME extents \in Seq(Extent), NEW sub \in Nat, NEW sector \in Nat, NEW n \in Nat \ {0}
  PROVE  Readable(sub, sector, n) <=> \A s \in 0 .. (n - 1) : Readable(sub, sector + s, 1)
<1> DEFINE start == extents[sub + 1].start
           length == extents[sub + 1].length
<1>1. DeviceSize \in Nat
  BY ScanSizes
<1>2. HasExtent(sub) => start \in Nat /\ length \in Nat
  <2>1. HasExtent(sub) => extents[sub + 1] \in Extent
    BY DEF HasExtent
  <2>. QED BY <2>1 DEF Extent
<1>3. \A x, m : Readable(sub, x, m) <=>
        /\ HasExtent(sub) /\ x + m <= length /\ (start + x) + m <= DeviceSize
        /\ \A t \in (start + x) .. ((start + x) + m - 1) : t \notin bad
  BY DEF Readable, InExtent, Physical
<1>. HIDE DEF start, length
<1>4. CASE ~HasExtent(sub)
  <2>1. ~Readable(sub, sector, n) /\ ~Readable(sub, sector + 0, 1)
    BY <1>3, <1>4
  <2>2. 0 \in 0 .. (n - 1)
    OBVIOUS
  <2>. QED BY <2>1, <2>2
<1>5. CASE HasExtent(sub)
  <2>1. start \in Nat /\ length \in Nat
    BY <1>2, <1>5
  <2>2. ASSUME Readable(sub, sector, n), NEW s \in 0 .. (n - 1) PROVE Readable(sub, sector + s, 1)
    <3>1. /\ sector + n <= length /\ (start + sector) + n <= DeviceSize
          /\ \A t \in (start + sector) .. ((start + sector) + n - 1) : t \notin bad
      BY <1>3, <2>2
    <3>2. (sector + s) + 1 <= length /\ (start + (sector + s)) + 1 <= DeviceSize
      BY <1>1, <2>1, <3>1
    <3>3. ASSUME NEW t \in (start + (sector + s)) .. ((start + (sector + s)) + 1 - 1) PROVE t \notin bad
      <4>1. t \in (start + sector) .. ((start + sector) + n - 1)
        BY <2>1
      <4>. QED BY <3>1, <4>1
    <3>. QED BY <1>3, <1>5, <3>2, <3>3
  <2>3. ASSUME \A s \in 0 .. (n - 1) : Readable(sub, sector + s, 1) PROVE Readable(sub, sector, n)
    <3>1. ASSUME NEW s \in 0 .. (n - 1)
          PROVE  /\ (sector + s) + 1 <= length /\ (start + (sector + s)) + 1 <= DeviceSize
                 /\ start + (sector + s) \notin bad
      <4>1. /\ (sector + s) + 1 <= length /\ (start + (sector + s)) + 1 <= DeviceSize
            /\ \A t \in (start + (sector + s)) .. ((start + (sector + s)) + 1 - 1) : t \notin bad
        BY <1>3, <2>3
      <4>2. start + (sector + s) \in (start + (sector + s)) .. ((start + (sector + s)) + 1 - 1)
        BY <2>1
      <4>. QED BY <4>1, <4>2
    <3>2. n - 1 \in 0 .. (n - 1) /\ (sector + (n - 1)) + 1 = sector + n
          /\ (start + (sector + (n - 1))) + 1 = (start + sector) + n
      BY <2>1
    <3>3. sector + n <= length /\ (start + sector) + n <= DeviceSize
      BY <3>1, <3>2
    <3>4. ASSUME NEW t \in (start + sector) .. ((start + sector) + n - 1) PROVE t \notin bad
      <4> DEFINE s == t - (start + sector)
      <4>1. s \in 0 .. (n - 1) /\ start + (sector + s) = t
        BY <2>1
      <4>. HIDE DEF s
      <4>. QED BY <3>1, <4>1
    <3>. QED BY <1>3, <1>5, <3>3, <3>4
  <2>. QED BY <2>2, <2>3
<1>. QED BY <1>4, <1>5

\* Byte within + at of a run is byte `from` + at of the sectors from `first` on.
LEMMA SameByte ==
  ASSUME NEW d \in Nat \ {0}, NEW base \in Nat, NEW first \in Nat, NEW from \in Nat,
         NEW within \in Nat, NEW at \in Nat, first * d + from = within
  PROVE  (base + ((within + at) \div d)) * d + ((within + at) % d) = (base + first) * d + (from + at)
<1> DEFINE y == within + at
           q == y \div d
           r == y % d
<1>1. y \in Nat /\ y = within + at
  OBVIOUS
<1>. HIDE DEF y
<1>2. q \in Nat /\ r \in Nat /\ y = q * d + r /\ q * d \in Nat
  <2>1. q \in Nat /\ r \in 0 .. (d - 1) /\ y = q * d + r /\ q * d \in Nat
    BY <1>1, Remainder
  <2>. HIDE DEF q, r
  <2>. QED BY <2>1
<1>. HIDE DEF q, r
<1>3. (base + q) * d = base * d + q * d /\ (base + first) * d = base * d + first * d
      /\ base * d \in Nat /\ first * d \in Nat
  BY <1>2, Factors
<1>. QED BY <1>1, <1>2, <1>3 DEF q, r, y

\* A piece that is read is what the file holds, and one that cannot be read
\* holds a wanted byte that cannot be read.
LEMMA CopyFromRight ==
  ASSUME IInv, ContentInv, reading = "copy", NEW run \in Runs,
         RunShows(run, ZonesTo(walk.global - 1)),
         run.logical <= Position, Position < RunEnd(run), Missing # 0,
         CopyFrom(run), UNCHANGED <<scanVars, diskVars, extents, super>>
  PROVE  ContentInv'
<1> DEFINE g == walk.global - 1
           zones == ZonesTo(g)
           Z == ZoneBytes
           d == SectorSize
           o == request.offset
           e == RequestEnd
           m == Missing
           n == Len(out)
           p == Position
           within == IF Position > run.logical THEN Position - run.logical ELSE 0
           wanted == AtMost(run.block.count * ZoneBytes - within, Missing)
           piece  == Piece(within, wanted)
           sub    == run.block.subpart
           start  == run.block.number * super.zoneSectors
           first  == within \div SectorSize
           sector == start + first
           bytes  == BytesAt(sub, sector, piece.from, piece.take)
           served == sub <= super.numSubs /\ Readable(sub, sector, piece.count)
<1>1. /\ super \in Super /\ extents \in Seq(Extent) /\ zones \in Seq(Zone)
      /\ WalkAt(g) /\ ~Walking /\ OutRight(zones) /\ g \in Nat /\ walk.global = g + 1
      /\ o \in Nat /\ request.length \in Nat \ {0} /\ e \in Nat /\ Z \in Nat \ {0}
  BY ReadingFacts
<1>2. out \in Seq(Nat) /\ n \in Nat /\ n <= request.length
  BY DEF IInv, PfsInv, ReadInv
<1>3. /\ run.logical \in Nat /\ run.block.number \in Nat /\ sub \in Nat
      /\ run.block.count \in Nat \ {0} /\ d \in Nat \ {0} /\ super.zoneSectors \in Nat
  BY <1>1, RunParts, SizesType, ZoneBytesType
<1>4. PICK f \in 0 .. Len(zones) :
        /\ run.logical = f * Z /\ f + run.block.count <= Len(zones)
        /\ \A z \in 1 .. run.block.count :
             zones[f + z] = [subpart |-> sub, number |-> run.block.number + z - 1]
  BY DEF RunShows
<1>. HIDE DEF zones, g
<1>5. f \in Nat
  OBVIOUS
<1>6. p = o + n /\ p \in Nat /\ p + m = e /\ m \in Nat \ {0}
  <2> DEFINE l == request.length
  <2>1. p = o + n /\ m = l - n /\ e = o + l /\ m # 0
    BY DEF Position, Missing, RequestEnd
  <2>2. o \in Nat /\ l \in Nat /\ n \in Nat /\ n <= l
    BY <1>1, <1>2
  <2>. HIDE DEF p, o, m, e, l, n
  <2>. QED BY <2>1, <2>2
<1>. HIDE DEF o, e, m, n
<1>7. run.block.count * Z \in Nat
  BY <1>1, <1>3, ProductOrder
<1>8. within \in Nat /\ within < run.block.count * Z /\ p = f * Z + within
  <2> DEFINE l == run.logical
             size == run.block.count * Z
  <2>1. l \in Nat /\ l <= p /\ p < l + size /\ l = f * Z /\ size \in Nat
    <3>1. l = f * Z
      BY <1>4
    <3>2. l <= p /\ p < l + size
      BY DEF RunEnd
    <3>. QED BY <1>3, <1>7, <3>1, <3>2
  <2>2. within = p - l
    BY <1>6, <2>1
  <2>. HIDE DEF within, p, l, size
  <2>3. within \in Nat /\ within < size /\ p = l + within
    <3>1. p \in Nat
      BY <1>6
    <3>. QED BY <2>1, <2>2, <3>1
  <2>. QED BY <2>1, <2>3 DEF size
<1>. HIDE DEF within, p
<1>9. wanted \in Nat \ {0} /\ wanted <= m /\ within + wanted <= run.block.count * Z
  BY <1>6, <1>7, <1>8 DEF AtMost, m
<1>. HIDE DEF wanted
<1>10. /\ piece.count \in Nat /\ piece.from \in Nat /\ piece.take \in Nat /\ piece.take <= wanted
  BY <1>8, <1>9, PieceFits
<1>11. /\ first \in Nat /\ first * d + piece.from = within /\ piece.count # 0
       /\ \A at \in 0 .. (piece.take - 1) :
            (within + at) \div d \in first .. (first + piece.count - 1)
       /\ \A s \in 0 .. (piece.count - 1) :
            \E at \in 0 .. (wanted - 1) : (within + at) \div d = first + s
  BY <1>8, <1>9, PieceBytes
<1>. HIDE DEF piece, first
<1>12. start \in Nat
  BY <1>3, ProductOrder
\* The byte of the file `at` bytes behind the position.
<1>13. ASSUME NEW at \in 0 .. (wanted - 1)
       PROVE  /\ p + at \in Nat /\ p + at < Len(zones) * Z /\ p + at \in o .. (e - 1)
              /\ ByteReadable(zones, p + at) <=>
                   sub <= super.numSubs /\ Readable(sub, start + ((within + at) \div d), 1)
              /\ ByteOf(zones, p + at) =
                   Physical(sub, start + ((within + at) \div d)) * d + ((within + at) % d)
  <2> DEFINE w == within + at
  <2>1. w \in Nat /\ w < run.block.count * ZoneBytes /\ p + at = f * Z + w
    <3>1. f * Z \in Nat
      BY <1>1, <1>5, ProductOrder
    <3>. QED BY <1>7, <1>8, <1>9, <3>1
  <2>2. p + at \in o .. (e - 1)
    BY <1>1, <1>2, <1>6, <1>9
  <2>. HIDE DEF w
  <2>3. /\ f * Z + w \in Nat /\ f * Z + w < Len(zones) * Z
        /\ ByteReadable(zones, f * Z + w) <=>
             sub <= super.numSubs /\ Readable(sub, start + (w \div d), 1)
        /\ ByteOf(zones, f * Z + w) = Physical(sub, start + (w \div d)) * d + (w % d)
    <3>. HIDE DEF Z, d, start, sub
    <3>1. ShowsFrom(run, zones, f)
      BY <1>4 DEF ShowsFrom, sub
    <3>2. ByteShown(run, zones, f, w)
      BY <1>1, <1>5, <2>1, <3>1, ByteInRun
    <3>. QED BY <3>2, Zenon DEF ByteShown, Z, d, start, sub
  <2>. HIDE DEF p, d, Z
  <2>. QED BY <2>1, <2>2, <2>3 DEF w
<1>. HIDE DEF start, sub, d, Z
<1>14. CASE served
  <2>1. /\ out' = out \o bytes
        /\ UNCHANGED <<reading, inode, request, walk, answer>>
    BY <1>14 DEF CopyFrom, within, wanted, piece, sub, start, first, d, Z, p, m
  <2>2. sector \in Nat /\ sub \in Nat /\ sub <= super.numSubs /\ Readable(sub, sector, piece.count)
    BY <1>3, <1>11, <1>12, <1>14 DEF sub
  <2> DEFINE base == extents[sub + 1].start
  <2>3. base \in Nat
    <3>1. extents[sub + 1] \in Extent
      BY <1>1, <2>2 DEF Readable, InExtent, HasExtent
    <3>. QED BY <3>1 DEF Extent
  <2>. HIDE DEF sector
  <2>4. /\ bytes \in Seq(Nat) /\ Len(bytes) = piece.take
        /\ \A at \in 0 .. (piece.take - 1) : bytes[at + 1] = (base + sector) * d + (piece.from + at)
    <3>1. bytes \in Seq(Nat) /\ Len(bytes) = piece.take
      <4>1. InExtent(sub, sector, piece.count)
        BY <2>2 DEF Readable
      <4>2. piece.from + piece.take <= piece.count * SectorSize
        BY <1>8, <1>9, PieceFits DEF piece
      <4>. QED BY <1>1, <1>10, <2>2, <4>1, <4>2, ServedBytes
    <3>2. (base + sector) * d \in Nat
      <4> DEFINE x == base + sector
      <4>1. x \in Nat /\ d \in Nat
        BY <1>3, <2>2, <2>3
      <4>. HIDE DEF x
      <4>2. x * d \in Nat
        BY <4>1, ProductOrder
      <4>. QED BY <4>2 DEF x
    <3>3. bytes = [i \in 1 .. piece.take |-> (base + sector) * d + piece.from + i - 1]
      BY DEF BytesAt, Physical, base, d
    <3>. HIDE DEF bytes, base
    <3>4. ASSUME NEW at \in 0 .. (piece.take - 1)
          PROVE  bytes[at + 1] = (base + sector) * d + (piece.from + at)
      <4>1. at + 1 \in 1 .. piece.take
        BY <1>10
      <4> DEFINE x == (base + sector) * d
      <4>2. x \in Nat /\ bytes[at + 1] = x + piece.from + (at + 1) - 1
        BY <3>2, <3>3, <4>1
      <4>. HIDE DEF x
      <4>3. bytes[at + 1] = x + (piece.from + at)
        BY <1>10, <4>2
      <4>. QED BY <4>3 DEF x
    <3>. QED BY <3>1, <3>4
  <2>. HIDE DEF bytes, base
  <2>5. ASSUME NEW at \in 0 .. (piece.take - 1)
        PROVE  /\ p + at < Len(zones) * Z
               /\ ByteReadable(zones, p + at) /\ bytes[at + 1] = ByteOf(zones, p + at)
    <3> DEFINE q == (within + at) \div d
               s == q - first
    <3>1. at \in 0 .. (wanted - 1) /\ at \in Nat
      BY <1>9, <1>10
    <3>2. q \in first .. (first + piece.count - 1)
      BY <1>11
    <3>. HIDE DEF q
    <3>3. s \in 0 .. (piece.count - 1) /\ start + q = sector + s /\ q \in Nat
      BY <1>10, <1>11, <1>12, <3>2 DEF sector
    <3>. HIDE DEF s
    <3>4. Readable(sub, start + q, 1)
      <4>1. piece.count \in Nat \ {0}
        BY <1>10, <1>11
      <4>. QED BY <1>1, <2>2, <3>3, <4>1, ReadableEach
    <3>5. /\ p + at < Len(zones) * Z /\ ByteReadable(zones, p + at)
          /\ ByteOf(zones, p + at) = Physical(sub, start + q) * d + ((within + at) % d)
      BY <1>13, <2>2, <3>1, <3>4 DEF q
    <3>6. Physical(sub, start + q) = (base + start) + q /\ base + sector = (base + start) + first
      BY <1>11, <1>12, <2>3, <3>3 DEF Physical, base, sector
    <3>7. ((base + start) + q) * d + ((within + at) % d) = ((base + start) + first) * d + (piece.from + at)
      <4> DEFINE b == base + start
                 from == piece.from
      <4>1. /\ b \in Nat /\ d \in Nat \ {0} /\ from \in Nat /\ first \in Nat /\ within \in Nat
            /\ at \in Nat /\ first * d + from = within
        BY <1>3, <1>8, <1>10, <1>11, <1>12, <2>3, <3>1 DEF d
      <4>. HIDE DEF b, from
      <4>2. (b + ((within + at) \div d)) * d + ((within + at) % d) = (b + first) * d + (from + at)
        BY <4>1, SameByte
      <4>. QED BY <4>2 DEF b, from, q
    <3>. QED BY <2>4, <3>5, <3>6, <3>7
  <2>6. ASSUME NEW j \in 1 .. Len(out')
        PROVE  /\ o + j - 1 < Len(zones) * Z
               /\ ByteReadable(zones, o + j - 1) /\ out'[j] = ByteOf(zones, o + j - 1)
    <3>1. CASE j \in 1 .. n
      <4>1. out'[j] = out[j]
        BY <1>2, <2>1, <2>4, <3>1 DEF n
      <4>. QED BY <1>1, <3>1, <4>1 DEF OutRight, n, o, Z
    <3>2. CASE j \notin 1 .. n
      <4> DEFINE at == j - n - 1
      <4>1. j \in Nat /\ n < j /\ j <= n + piece.take /\ out'[j] = bytes[j - n]
        BY <1>2, <1>10, <2>1, <2>4, <3>2 DEF n
      <4>2. at \in 0 .. (piece.take - 1) /\ at + 1 = j - n /\ o + j - 1 = p + at
        BY <1>1, <1>2, <1>6, <1>10, <4>1
      <4>. HIDE DEF at
      <4>. QED BY <2>5, <4>1, <4>2
    <3>. QED BY <3>1, <3>2
  <2>7. PICK w \in Nat : w = g
    BY <1>1
  <2>8. /\ UNCHANGED <<scanVars, diskVars, extents, super, reading, inode, request, walk, answer>>
        /\ SegmentChain' = SegmentChain /\ ZoneBytes' = ZoneBytes /\ RequestEnd' = RequestEnd
        /\ \A i : ZonesTo(i)' = ZonesTo(i) /\ Present(i)' = Present(i)
    BY <2>1, SameFile
  <2>9. \A runs, zs : RunsRight(runs, zs)' <=> RunsRight(runs, zs)
    BY <2>8 DEF RunsRight, RunShows, RunEnd
  <2>10. WalkAt(w)'
    <3>1. WalkAt(w)
      BY <1>1, <2>7
    <3>. QED BY <2>8, <2>9, <3>1 DEF WalkAt
  <2>11. (~Walking)'
    BY <1>1, <2>8 DEF Walking
  <2>12. OutRight(ZonesTo(w))'
    <3>1. \A zs, i : /\ ByteReadable(zs, i)' <=> ByteReadable(zs, i)
                     /\ ByteOf(zs, i)' = ByteOf(zs, i)
      BY <2>8 DEF ByteReadable, ByteOf, ZoneOf, SectorOf, Readable, InExtent, HasExtent, Physical
    <3>2. zones = ZonesTo(w)
      BY <2>7 DEF zones
    <3>3. \A j \in 1 .. Len(out') :
            /\ request.offset + j - 1 < Len(ZonesTo(w)) * ZoneBytes
            /\ ByteReadable(ZonesTo(w), request.offset + j - 1)
            /\ out'[j] = ByteOf(ZonesTo(w), request.offset + j - 1)
      BY <2>6, <3>2 DEF o, Z
    <3>. QED BY <2>8, <3>1, <3>3 DEF OutRight
  <2>13. reading' = "copy" /\ AnswerIsContent'
    BY <2>8 DEF AnswerIsContent
  <2>14. /\ inode' # NoInode => inode'.numberData # 0
         /\ request'.length # 0 /\ RequestEnd' <= inode'.size
    BY <2>8 DEF ContentInv
  <2>. QED BY <2>10, <2>11, <2>12, <2>13, <2>14 DEF ContentInv
<1>15. CASE ~served
  <2>1. End(Failed)
    BY <1>15 DEF CopyFrom, within, wanted, piece, sub, start, first, d, Z, p, m
  <2>2. \E at \in 0 .. (wanted - 1) : ~ByteReadable(zones, p + at)
    <3>1. CASE sub <= super.numSubs
      <4>1. sector \in Nat /\ piece.count \in Nat \ {0}
        BY <1>10, <1>11, <1>12
      <4>2. PICK s \in 0 .. (piece.count - 1) : ~Readable(sub, sector + s, 1)
        <5>. HIDE DEF sector
        <5>. QED BY <1>1, <1>3, <1>15, <3>1, <4>1, ReadableEach DEF sub
      <4>3. PICK at \in 0 .. (wanted - 1) : (within + at) \div d = first + s
        BY <1>11
      <4>4. sector + s = start + (first + s)
        BY <1>11, <1>12
      <4>. QED BY <1>13, <4>2, <4>3, <4>4
    <3>2. CASE ~(sub <= super.numSubs)
      <4>1. 0 \in 0 .. (wanted - 1)
        BY <1>9
      <4>. QED BY <1>13, <3>2, <4>1
    <3>. QED BY <3>1, <3>2
  <2>3. RightAnswer = Failed
    BY <1>13, <2>2, CopyFailsRight DEF zones, g, o, e
  <2>. QED BY <2>1, <2>3, EndsRight
<1>. QED BY <1>14, <1>15

LEMMA CopyPieceRight == IInv /\ ContentInv /\ CopyPiece => ContentInv'
<1>. SUFFICES ASSUME IInv, ContentInv, CopyPiece PROVE ContentInv'
  OBVIOUS
<1> DEFINE runs == walk.runs
           zones == ZonesTo(walk.global - 1)
<1>1. PICK i \in OpenRuns : (\A j \in OpenRuns : i <= j) /\ CopyFrom(runs[i])
  BY DEF CopyPiece
<1>2. reading = "copy" /\ Missing # 0 /\ UNCHANGED <<scanVars, diskVars, extents, super>>
  BY DEF CopyPiece
<1>3. walk \in Walks /\ WalkAt(walk.global - 1) /\ request.offset \in Nat
  BY <1>2, ReadingFacts
<1>4. runs \in Seq(Runs) /\ RunsRight(runs, zones)
  BY <1>3, WalkParts DEF WalkAt
<1>. HIDE DEF runs, zones
<1>5. /\ i \in 1 .. Len(runs) /\ runs[i] \in Runs /\ Position < RunEnd(runs[i])
      /\ RunShows(runs[i], zones) /\ runs[i].logical \in Nat
  <2>1. i \in DOMAIN runs /\ Position < RunEnd(runs[i])
    BY DEF OpenRuns, runs
  <2>2. runs[i] \in Runs /\ i \in 1 .. Len(runs)
    BY <1>4, <2>1
  <2>. QED BY <1>4, <2>1, <2>2, RunParts DEF RunsRight
<1>6. Position \in Nat /\ request.offset <= Position
  <2>1. Len(out) \in Nat
    BY DEF IInv, PfsInv, ReadInv
  <2>. QED BY <1>3, <2>1 DEF Position
<1>7. runs[i].logical <= Position
  <2>1. CASE i = 1
    <3>1. runs # <<>>
      BY <1>4, <1>5
    <3>2. runs[1].logical <= request.offset
      BY <1>4, <3>1 DEF RunsRight
    <3>. QED BY <1>3, <1>5, <1>6, <2>1, <3>2
  <2>2. CASE i # 1
    <3> DEFINE j == i - 1
    <3>1. j \in 1 .. (Len(runs) - 1) /\ j \in DOMAIN runs /\ j + 1 = i /\ ~(i <= j)
      BY <1>4, <1>5, <2>2
    <3>. HIDE DEF j
    <3>2. ~(Position < RunEnd(runs[j]))
      BY <1>1, <3>1 DEF OpenRuns, runs
    <3>3. RunEnd(runs[j]) = runs[i].logical
      BY <1>4, <3>1 DEF RunsRight
    <3>. QED BY <1>5, <1>6, <3>2, <3>3
  <2>. QED BY <2>1, <2>2
<1>. QED BY <1>1, <1>2, <1>5, <1>7, CopyFromRight DEF zones
-----------------------------------------------------------------------------
(* Opening a volume and asking for a read, and the theorem.                *)

\* Where nothing is being read or answered there is little to say.
LEMMA NotReading ==
  ASSUME reading' \notin {"walk", "copy", "done"}, inode' # NoInode => inode'.numberData # 0
  PROVE  ContentInv'
BY DEF ContentInv, AnswerIsContent

LEMMA InitContent == Init => ContentInv
<1>. SUFFICES ASSUME Init PROVE ContentInv
  OBVIOUS
<1>1. reading = "closed" /\ inode = NoInode
  BY DEF Init
<1>. QED BY <1>1 DEF ContentInv, AnswerIsContent

LEMMA ContentStays == ContentInv /\ UNCHANGED pfsVars => ContentInv'
<1>. SUFFICES ASSUME ContentInv, UNCHANGED pfsVars PROVE ContentInv'
  OBVIOUS
<1>1. /\ SegmentChain' = SegmentChain /\ ZoneBytes' = ZoneBytes /\ RequestEnd' = RequestEnd
      /\ RightAnswer' = RightAnswer
      /\ \A i : ZonesTo(i)' = ZonesTo(i) /\ Present(i)' = Present(i)
  BY SameFile
<1>2. \A runs, zones : RunsRight(runs, zones)' <=> RunsRight(runs, zones)
  BY <1>1 DEF RunsRight, RunShows, RunEnd
<1>3. \A g \in Nat : WalkAt(g)' <=> WalkAt(g)
  BY <1>1, <1>2 DEF WalkAt
<1>4. \A zones : OutRight(zones)' <=> OutRight(zones)
  <2>1. \A zones, i : /\ ByteReadable(zones, i)' <=> ByteReadable(zones, i)
                      /\ ByteOf(zones, i)' = ByteOf(zones, i)
    BY <1>1 DEF ByteReadable, ByteOf, ZoneOf, SectorOf, Readable, InExtent, HasExtent, Physical
  <2>. QED BY <1>1, <2>1 DEF OutRight
<1>5. Walking' <=> Walking
  BY <1>1 DEF Walking
<1>6. \A g \in Nat : OutRight(ZonesTo(g))' <=> OutRight(ZonesTo(g))
  BY <1>1, <1>4 DEF OutRight
<1>. QED BY <1>1, <1>3, <1>5, <1>6 DEF ContentInv, AnswerIsContent

LEMMA OpenVolumeRight == IInv /\ ContentInv /\ OpenVolume => ContentInv'
BY NotReading DEF OpenVolume, ContentInv

LEMMA ProbeRight == IInv /\ ContentInv /\ Probe => ContentInv'
BY NotReading DEF Probe, ContentInv

LEMMA ReadInodeRight == IInv /\ ContentInv /\ ReadInode => ContentInv'
BY NotReading DEF ReadInode, IsInode

\* The walk starts before the first descriptor.
LEMMA WalkStarts ==
  ASSUME super \in Super, inode \in Inode, inode.numberData # 0, DiskInv,
         UNCHANGED <<diskVars, extents, super, inode>>,
         walk' = [NoWalk EXCEPT !.next = inode.next], request'.offset \in Nat
  PROVE  WalkAt(0)'
<1>1. /\ walk'.global = 1 /\ walk'.logical = 0 /\ walk'.loaded = 0 /\ walk'.runs = <<>>
      /\ walk'.next = inode.next
  BY DEF NoWalk
<1>2. LoadedAt(0) = 0
  BY SizesType DEF LoadedAt
<1>3. Metadata(0) = {} /\ Cardinality(Metadata(0)) = 0
  <2>1. Metadata(0) = {}
    BY DEF Metadata
  <2>. QED BY <2>1, FS_EmptySet
<1>4. inode.numberData \in Nat \ {0} /\ inode.kind = "segd"
  BY DEF Inode
<1>5. SegmentChain[0] = inode
  BY <1>4, ChainFacts
<1>6. ZonesTo(0) = <<>> /\ Len(ZonesTo(0)) * ZoneBytes = 0
  <2>1. ZonesTo(0) = <<>>
    BY <1>4, ZonesGrow
  <2>2. 0 * ZoneBytes = 0
    BY ZoneBytesType, SMT
  <2>. QED BY <2>1, <2>2
<1>7. /\ SegmentChain' = SegmentChain /\ ZoneBytes' = ZoneBytes
      /\ ZonesTo(0)' = ZonesTo(0)
  BY SameChain
<1>8. RunsRight(walk.runs, ZonesTo(0))'
  BY <1>1, <1>6, <1>7 DEF RunsRight
<1>9. 0 + 1 \in 1 .. inode'.numberData
  BY <1>4
<1>. QED BY <1>1, <1>2, <1>3, <1>4, <1>5, <1>6, <1>7, <1>8, <1>9 DEF WalkAt

LEMMA ReadRight == IInv /\ ContentInv /\ Read => ContentInv'
<1>. SUFFICES ASSUME IInv, ContentInv, Read PROVE ContentInv'
  OBVIOUS
<1>1. /\ reading = "open" /\ inode # NoInode
      /\ walk' = [NoWalk EXCEPT !.next = inode.next]
      /\ UNCHANGED <<scanVars, diskVars, extents, super, inode, out>>
  BY DEF Read
<1>2. /\ DiskInv /\ super \in Super /\ inode \in Inode /\ inode.numberData # 0
  BY <1>1 DEF IInv, PfsInv, VolumeInv, ContentInv
<1>3. PICK q \in Requests :
        /\ request' = q
        /\ \/ ~InFile(q) /\ reading' = "done" /\ answer' = Failed
           \/ InFile(q) /\ q.length = 0 /\ reading' = "done" /\ answer' = Pending
           \/ InFile(q) /\ q.length # 0 /\ reading' = "walk" /\ UNCHANGED answer
  BY DEF Read
<1>4. q.offset \in Nat /\ q.length \in Nat /\ inode.size \in Nat
  BY <1>2, RequestFacts DEF Inode
<1>5. RequestEnd' = q.offset + q.length /\ inode' = inode /\ request' = q
  BY <1>1, <1>3 DEF RequestEnd
<1>6. InFile(q) <=> RequestEnd' <= inode'.size
  BY <1>4, <1>5 DEF InFile
<1>7. CASE ~InFile(q) /\ reading' = "done" /\ answer' = Failed
  <2>1. RequestEnd' > inode'.size
    BY <1>4, <1>5, <1>6, <1>7
  <2>2. RightAnswer' = Failed
    BY <2>1 DEF RightAnswer
  <2>. QED BY <1>2, <1>5, <1>7, <2>2 DEF ContentInv, AnswerIsContent
<1>8. CASE InFile(q) /\ q.length = 0 /\ reading' = "done" /\ answer' = Pending
  <2>1. ~(RequestEnd' > inode'.size) /\ request'.length = 0
    BY <1>4, <1>5, <1>6, <1>8
  <2>2. RightAnswer' = Pending
    BY <2>1 DEF RightAnswer, Pending
  <2>. QED BY <1>2, <1>5, <1>8, <2>2 DEF ContentInv, AnswerIsContent
<1>9. CASE InFile(q) /\ q.length # 0 /\ reading' = "walk" /\ UNCHANGED answer
  <2>1. request'.offset \in Nat
    BY <1>4, <1>5
  <2>2. WalkAt(0)'
    BY <1>1, <1>2, <2>1, WalkStarts
  <2>. QED BY <1>2, <1>5, <1>6, <1>9, <2>2 DEF ContentInv, AnswerIsContent
<1>. QED BY <1>3, <1>7, <1>8, <1>9

LEMMA StepContent == IInv /\ ContentInv /\ [Next]_vars => ContentInv'
<1>. SUFFICES ASSUME IInv, ContentInv, [Next]_vars PROVE ContentInv'
  OBVIOUS
<1>1. CASE UNCHANGED pfsVars
  BY <1>1, ContentStays
<1>2. CASE ~UNCHANGED pfsVars
  <2>1. OpenVolume \/ Probe \/ ReadInode \/ Read \/ LoadSegment \/ TakeBlock \/ EndWalk
        \/ CopyPiece \/ EndCopy
    BY <1>2 DEF Next, vars
  <2>. QED BY <2>1, OpenVolumeRight, ProbeRight, ReadInodeRight, ReadRight, LoadSegmentRight,
              TakeBlockRight, EndWalkRight, CopyPieceRight, EndCopyRight
<1>. QED BY <1>1, <1>2

\* A read answers exactly the bytes of the file, or fails if one of them or
\* the descriptors that lead to them cannot be had (Reader::read, pfs.cpp).
THEOREM AnswerRight == Spec => []AnswerIsContent
<1>1. Init => IInv /\ ContentInv
  BY InitIInv, InitContent
<1>2. (IInv /\ ContentInv) /\ [Next]_vars => (IInv /\ ContentInv)'
  BY StepIInv, StepContent
<1>3. ContentInv => AnswerIsContent
  BY DEF ContentInv
<1>. QED BY <1>1, <1>2, <1>3, PTL DEF Spec
(***************************************************************************)
(* Folds, of which the catalog is one.                                     *)
(***************************************************************************)

\* A set of numbers with a member has a smallest one.
LEMMA SmallestOf ==
  ASSUME NEW S, S \subseteq Nat, S # {}
  PROVE  \E m \in S : \A j \in S : m <= j
<1> DEFINE less == {ss \in Nat \X Nat : ss[1] < ss[2]}
<1>1. less = OpToRel(<, Nat)
  BY Zenon DEF OpToRel
<1>2. IsWellFoundedOn(less, Nat)
  BY <1>1, NatLessThanWellFounded, Zenon
<1>3. PICK m \in S : \A y \in S : ~ (<<y, m>> \in less)
  BY <1>2, WFMin, Zenon
<1>4. ASSUME NEW y \in S PROVE m <= y
  <2>1. m \in Nat /\ y \in Nat
    OBVIOUS
  <2>2. y < m => <<y, m>> \in less
    BY <2>1
  <2> HIDE DEF less
  <2> QED BY <1>3, <2>1, <2>2
<1> QED BY <1>4

\* The largest number of an interval, and what is left without it.
LEMMA MaxOfInterval ==
  ASSUME NEW n \in Nat, NEW s \in SUBSET (1 .. n), n \in s
  PROVE  Max(s) = n
<1>1. \A y \in s : n >= y
  OBVIOUS
<1>2. Max(s) \in s /\ \A y \in s : Max(s) >= y
  BY <1>1 DEF Max
<1>3. PICK m : m = Max(s)
  OBVIOUS
<1>4. m \in s /\ n >= m /\ m >= n
  BY <1>1, <1>2, <1>3
<1> QED BY <1>3, <1>4

\* An interval from 1 is one that is shorter, and its largest number.
LEMMA IntervalGrows ==
  ASSUME NEW n \in Nat, NEW k \in 1 .. n
  PROVE  /\ 1 .. k \in SUBSET (1 .. n) /\ 1 .. k # {}
         /\ (1 .. k) \ {k} = 1 .. k - 1
         /\ Max(1 .. k) = k
<1>1. k \in Nat /\ k >= 1 /\ k <= n
  OBVIOUS
<1>2. 1 .. k \in SUBSET (1 .. n) /\ k \in 1 .. k
  BY <1>1
<1>3. ASSUME NEW x PROVE x \in (1 .. k) \ {k} <=> x \in 1 .. k - 1
  BY <1>1
<1>4. Max(1 .. k) = k
  BY <1>1, <1>2, MaxOfInterval
<1> QED BY <1>2, <1>3, <1>4

\* Numbers up to n have a largest.
LEMMA MaxOfNumbers ==
  ASSUME NEW n \in Nat, NEW u \in SUBSET (1 .. n), u # {}
  PROVE  Max(u) \in 1 .. n
<1> DEFINE down == { n - y : y \in u }
<1>1. down \subseteq Nat /\ down # {}
  <2>1. \A y \in u : n - y \in Nat
    OBVIOUS
  <2> QED BY <2>1
<1>2. PICK d \in down : \A j \in down : d <= j
  <2> HIDE DEF down
  <2> QED BY <1>1, SmallestOf
<1>3. PICK m \in u : d = n - m
  BY <1>2
<1>4. ASSUME NEW y \in u PROVE m >= y
  <2>1. n - m <= n - y
    BY <1>2, <1>3
  <2>2. m \in Nat /\ y \in Nat
    OBVIOUS
  <2> QED BY <2>1, <2>2
<1>5. Max(u) \in u
  BY <1>4 DEF Max
<1> QED BY <1>5

\* FoldLeft() goes over the numbers of a sequence by its largest.
HasFold(V, b, n, G) ==
  \E f \in [SUBSET (1 .. n) -> V] : \A s \in SUBSET (1 .. n) :
    f[s] = IF s = {} THEN b ELSE G[Max(s)][f[s \ {Max(s)}]]

\* Along the prefixes of the sequence it takes one step at a time.
StepsAlong(V, b, n, G, f) ==
  /\ \A k \in 0 .. n : f[1 .. k] \in V
  /\ f[1 .. 0] = b
  /\ \A k \in 1 .. n : f[1 .. k] = G[k][f[1 .. k - 1]]

\* Steps that stay in V have a fold.
LEMMA FoldOf ==
  ASSUME NEW V, NEW b \in V, NEW n \in Nat, NEW G \in [1 .. n -> [V -> V]]
  PROVE  HasFold(V, b, n, G)
<1> DEFINE Folds(f, m) ==
             \A s \in SUBSET (1 .. m) :
               f[s] = IF s = {} THEN b ELSE G[Max(s)][f[s \ {Max(s)}]]
           Good(m) == \E f \in [SUBSET (1 .. m) -> V] : Folds(f, m)
           missed == { m \in 0 .. n : ~ Good(m) }
<1>0. missed = {} => Good(n)
  <2> HIDE DEF Good
  <2> QED OBVIOUS
<1> SUFFICES ASSUME missed # {} PROVE FALSE
  BY <1>0 DEF HasFold
<1>1. 0 \notin missed
  <2> DEFINE f == [s \in SUBSET (1 .. 0) |-> b]
  <2>1. f \in [SUBSET (1 .. 0) -> V] /\ Folds(f, 0)
    <3>1. \A s \in SUBSET (1 .. 0) : s = {}
      OBVIOUS
    <3> QED BY <3>1
  <2> QED BY <2>1
<1>2. PICK m \in missed : m - 1 \in Nat /\ m - 1 \notin missed
  <2>1. missed \subseteq Nat
    OBVIOUS
  <2> HIDE DEF missed
  <2> QED BY <1>1, <2>1, FirstOf
<1>3. m \in 1 .. n /\ m - 1 \in 0 .. n
  BY <1>2
<1>4. PICK f \in [SUBSET (1 .. m - 1) -> V] : Folds(f, m - 1)
  BY <1>2, <1>3
<1> DEFINE g == [s \in SUBSET (1 .. m) |-> IF m \in s THEN G[m][f[s \ {m}]] ELSE f[s]]
<1>5. ASSUME NEW s \in SUBSET (1 .. m)
      PROVE  /\ m \in s => s \ {m} \in SUBSET (1 .. m - 1)
             /\ m \notin s => s \in SUBSET (1 .. m - 1)
  BY <1>3
<1>6. g \in [SUBSET (1 .. m) -> V]
  <2>1. G[m] \in [V -> V]
    BY <1>3
  <2> QED BY <1>5, <2>1
<1>7. ASSUME NEW s \in SUBSET (1 .. m)
      PROVE  g[s] = IF s = {} THEN b ELSE G[Max(s)][g[s \ {Max(s)}]]
  <2>1. CASE m \in s
    <3>1. Max(s) = m
      BY <1>3, <2>1, MaxOfInterval
    <3>2. s \ {m} \in SUBSET (1 .. m) /\ g[s \ {m}] = f[s \ {m}]
      BY <1>5, <2>1
    <3>3. g[s] = G[m][f[s \ {m}]] /\ s # {}
      BY <2>1
    <3> HIDE DEF g
    <3> QED BY <3>1, <3>2, <3>3
  <2>2. CASE m \notin s
    <3>1. s \in SUBSET (1 .. m - 1) /\ g[s] = f[s]
      BY <1>5, <2>2
    <3>2. s \ {Max(s)} \in SUBSET (1 .. m) /\ m \notin s \ {Max(s)}
      BY <2>2
    <3>3. g[s \ {Max(s)}] = f[s \ {Max(s)}]
      BY <3>2
    <3>4. f[s] = IF s = {} THEN b ELSE G[Max(s)][f[s \ {Max(s)}]]
      BY <1>4, <3>1
    <3> QED BY <3>1, <3>3, <3>4
  <2> QED BY <2>1, <2>2
<1> HIDE DEF g
<1>8. Folds(g, m)
  BY <1>7
<1>9. m \notin missed
  <2> HIDE DEF Folds
  <2> QED BY <1>6, <1>8
<1> QED BY <1>2, <1>9

\* A fold whose steps stay in V stays there along the whole sequence.
LEMMA FoldRuns ==
  ASSUME NEW V, NEW b \in V, NEW n \in Nat, NEW G \in [1 .. n -> [V -> V]], NEW f,
         f[{}] = b,
         \A k \in 1 .. n : f[1 .. k - 1] \in V => f[1 .. k] = G[k][f[1 .. k - 1]]
  PROVE  StepsAlong(V, b, n, G, f)
<1> DEFINE missed == { k \in 0 .. n : f[1 .. k] \notin V }
<1>1. f[1 .. 0] = b
  <2>1. 1 .. 0 = {}
    OBVIOUS
  <2> QED BY <2>1
<1>2. missed = {}
  <2> SUFFICES ASSUME missed # {} PROVE FALSE
    OBVIOUS
  <2>1. missed \subseteq Nat /\ 0 \notin missed
    BY <1>1
  <2>2. PICK m \in missed : m - 1 \in Nat /\ m - 1 \notin missed
    <3> HIDE DEF missed
    <3> QED BY <2>1, FirstOf
  <2>3. m \in 1 .. n /\ m - 1 \in 0 .. n
    BY <2>2
  <2>4. f[1 .. m - 1] \in V
    BY <2>2, <2>3
  <2>5. f[1 .. m] = G[m][f[1 .. m - 1]] /\ G[m] \in [V -> V]
    BY <2>3, <2>4
  <2> QED BY <2>2, <2>4, <2>5
<1>3. \A k \in 0 .. n : f[1 .. k] \in V
  BY <1>2
<1>4. \A k \in 1 .. n : f[1 .. k] = G[k][f[1 .. k - 1]]
  <2> TAKE k \in 1 .. n
  <2>1. k - 1 \in 0 .. n
    OBVIOUS
  <2> QED BY <1>3, <2>1
<1> QED BY <1>1, <1>3, <1>4 DEF StepsAlong

(***************************************************************************)
(* What the catalog counts.                                                *)
(***************************************************************************)

\* What a header describes has sectors of its own and those of its parts.
LEMMA TotalAdds ==
  ASSUME NEW h \in Header
  PROVE  \E sum \in [0 .. Len(Subs(h)) -> Nat] :
           /\ sum[0] = h.length
           /\ \A k \in 1 .. Len(Subs(h)) : sum[k] = sum[k - 1] + Subs(h)[k].length
           /\ TotalSectors(h) = sum[Len(Subs(h))]
<1> DEFINE parts == Subs(h)
           n == Len(parts)
           G == [k \in 1 .. n |-> [x \in Nat |-> x + parts[k].length]]
           Is(f) == f = [u \in SUBSET DOMAIN parts |->
                           IF u = {} THEN h.length ELSE f[u \ {Max(u)}] + parts[Max(u)].length]
           it == CHOOSE f : Is(f)
<1>1. TotalSectors(h) = it[DOMAIN parts]
  BY DEF TotalSectors, FoldLeft, MapThenFoldSet
<1>2. parts \in Seq(Extent) /\ h.length \in Nat
  BY SubsType DEF Header
<1> HIDE DEF parts
<1>3. n \in Nat /\ DOMAIN parts = 1 .. n
  BY <1>2
<1>4. G \in [1 .. n -> [Nat -> Nat]]
  <2>1. ASSUME NEW k \in 1 .. n PROVE parts[k].length \in Nat
    <3>1. parts[k] \in Extent
      BY <1>2, <1>3
    <3> QED BY <3>1 DEF Extent
  <2> HIDE DEF n
  <2> QED BY <2>1
<1>5. ASSUME NEW u \in SUBSET (1 .. n), u # {}
      PROVE  Max(u) \in 1 .. n
  BY <1>3, <1>5, MaxOfNumbers
<1>6. \E f : Is(f)
  <2>1. PICK f \in [SUBSET (1 .. n) -> Nat] : \A s \in SUBSET (1 .. n) :
           f[s] = IF s = {} THEN h.length ELSE G[Max(s)][f[s \ {Max(s)}]]
    <3>1. HasFold(Nat, h.length, n, G)
      <4> HIDE DEF n, G
      <4> QED BY <1>2, <1>3, <1>4, FoldOf
    <3> QED BY <3>1 DEF HasFold
  <2>2. ASSUME NEW s \in SUBSET (1 .. n), s # {}
        PROVE  G[Max(s)][f[s \ {Max(s)}]] = f[s \ {Max(s)}] + parts[Max(s)].length
    <3>1. Max(s) \in 1 .. n /\ f[s \ {Max(s)}] \in Nat
      BY <1>5, <2>2
    <3> QED BY <3>1
  <2> HIDE DEF n, G
  <2>3. \A s \in SUBSET (1 .. n) :
           f[s] = IF s = {} THEN h.length ELSE f[s \ {Max(s)}] + parts[Max(s)].length
    BY <2>1, <2>2
  <2>4. Is(f)
    BY <1>3, <2>1, <2>3
  <2> QED BY <2>4
<1>7. Is(it)
  <2> HIDE DEF Is
  <2> QED BY <1>6
<1> HIDE DEF it
<1>8. it[{}] = h.length
  BY <1>7
<1>9. ASSUME NEW k \in 1 .. n
      PROVE  it[1 .. k] = it[1 .. k - 1] + parts[k].length
  <2>1. /\ 1 .. k \in SUBSET (1 .. n) /\ 1 .. k # {} /\ (1 .. k) \ {k} = 1 .. k - 1
        /\ Max(1 .. k) = k
    BY <1>3, IntervalGrows
  <2> QED BY <1>3, <1>7, <2>1
<1>10. StepsAlong(Nat, h.length, n, G, it)
  <2>1. \A k \in 1 .. n : it[1 .. k - 1] \in Nat => it[1 .. k] = G[k][it[1 .. k - 1]]
    BY <1>9
  <2> HIDE DEF n, G
  <2> QED BY <1>2, <1>3, <1>4, <1>8, <2>1, FoldRuns
<1> DEFINE sum == [k \in 0 .. n |-> it[1 .. k]]
<1>11. sum \in [0 .. n -> Nat] /\ sum[0] = h.length
  BY <1>3, <1>10 DEF StepsAlong
<1>12. ASSUME NEW k \in 1 .. n PROVE sum[k] = sum[k - 1] + parts[k].length
  <2>1. k - 1 \in 0 .. n /\ k \in 0 .. n
    BY <1>3
  <2> QED BY <1>9, <2>1
<1>13. TotalSectors(h) = sum[n]
  BY <1>1, <1>3
<1> HIDE DEF sum
<1> QED BY <1>11, <1>12, <1>13 DEF parts

\* The reference adds the sectors of each header of the type.
LEMMA TypeAdds ==
  ASSUME ScanTypes, NEW type
  PROVE  \E sum \in [0 .. Len(partitions) -> Nat] :
           /\ sum[0] = 0
           /\ \A k \in 1 .. Len(partitions) :
                sum[k] = IF partitions[k].type = type THEN sum[k - 1] + partitions[k].length
                         ELSE sum[k - 1]
           /\ SectorsOfType(type) = sum[Len(partitions)]
<1> DEFINE n == Len(partitions)
           With(x, k) == IF partitions[k].type = type THEN x + partitions[k].length ELSE x
           G == [k \in 1 .. n |-> [x \in Nat |-> With(x, k)]]
           Is(f) == f = [u \in SUBSET DOMAIN partitions |->
                           IF u = {} THEN 0 ELSE With(f[u \ {Max(u)}], Max(u))]
           it == CHOOSE f : Is(f)
<1>1. SectorsOfType(type) = it[DOMAIN partitions]
  BY DEF SectorsOfType, FoldLeft, MapThenFoldSet
<1>2. partitions \in Seq(Parts)
  BY DEF ScanTypes
<1>3. n \in Nat /\ DOMAIN partitions = 1 .. n
  BY <1>2
<1>4. G \in [1 .. n -> [Nat -> Nat]]
  <2>1. ASSUME NEW k \in 1 .. n PROVE partitions[k].length \in Nat
    <3>1. partitions[k] \in Parts
      BY <1>2, <1>3
    <3> QED BY <3>1 DEF Parts, PartitionOf, Header
  <2> HIDE DEF n
  <2> QED BY <2>1
<1>5. ASSUME NEW u \in SUBSET (1 .. n), u # {}
      PROVE  Max(u) \in 1 .. n
  BY <1>3, <1>5, MaxOfNumbers
<1>6. \E f : Is(f)
  <2>1. PICK f \in [SUBSET (1 .. n) -> Nat] : \A s \in SUBSET (1 .. n) :
           f[s] = IF s = {} THEN 0 ELSE G[Max(s)][f[s \ {Max(s)}]]
    <3>1. HasFold(Nat, 0, n, G)
      <4> HIDE DEF n, G
      <4> QED BY <1>3, <1>4, FoldOf
    <3> QED BY <3>1 DEF HasFold
  <2>2. ASSUME NEW s \in SUBSET (1 .. n), s # {}
        PROVE  G[Max(s)][f[s \ {Max(s)}]] = With(f[s \ {Max(s)}], Max(s))
    <3>1. Max(s) \in 1 .. n /\ f[s \ {Max(s)}] \in Nat
      BY <1>5, <2>2
    <3> HIDE DEF With
    <3> QED BY <3>1
  <2> HIDE DEF n, G, With
  <2>3. \A s \in SUBSET (1 .. n) :
           f[s] = IF s = {} THEN 0 ELSE With(f[s \ {Max(s)}], Max(s))
    BY <2>1, <2>2
  <2>4. Is(f)
    BY <1>3, <2>1, <2>3
  <2> QED BY <2>4
<1>7. Is(it)
  <2> HIDE DEF Is
  <2> QED BY <1>6
<1> HIDE DEF it, With
<1>8. it[{}] = 0
  BY <1>7
<1>9. ASSUME NEW k \in 1 .. n
      PROVE  it[1 .. k] = With(it[1 .. k - 1], k)
  <2>1. /\ 1 .. k \in SUBSET (1 .. n) /\ 1 .. k # {} /\ (1 .. k) \ {k} = 1 .. k - 1
        /\ Max(1 .. k) = k
    BY <1>3, IntervalGrows
  <2> QED BY <1>3, <1>7, <2>1
<1>10. StepsAlong(Nat, 0, n, G, it)
  <2>1. \A k \in 1 .. n : it[1 .. k - 1] \in Nat => it[1 .. k] = G[k][it[1 .. k - 1]]
    BY <1>9
  <2>2. PICK none \in Nat : none = 0
    OBVIOUS
  <2> HIDE DEF n, G
  <2>3. StepsAlong(Nat, none, n, G, it)
    BY <1>3, <1>4, <1>8, <2>1, <2>2, FoldRuns
  <2> QED BY <2>2, <2>3
<1> DEFINE sum == [k \in 0 .. n |-> it[1 .. k]]
<1>11. sum \in [0 .. n -> Nat] /\ sum[0] = 0
  BY <1>3, <1>10 DEF StepsAlong
<1>12. ASSUME NEW k \in 1 .. n PROVE sum[k] = With(sum[k - 1], k)
  <2>1. k - 1 \in 0 .. n /\ k \in 0 .. n
    BY <1>3
  <2> QED BY <1>9, <2>1
<1>13. SectorsOfType(type) = sum[n]
  BY <1>1, <1>3
<1> HIDE DEF sum
<1> QED BY <1>11, <1>12, <1>13 DEF With

Catalogs ==
  [entries : Seq(Parts), mains : Nat, subs : Nat, hdl : Nat, pfs : Nat,
   hdlSectors : Nat, pfsSectors : Nat, freeSectors : Nat]

\* What a partition of the result is.
LEMMA PartFacts ==
  ASSUME NEW p \in Parts
  PROVE  /\ p.total \in Nat /\ p.length \in Nat /\ p.isSub \in BOOLEAN
         /\ p.subs \in Seq(Extent) /\ Len(p.subs) <= MaxSub
         /\ \E sum \in [0 .. Len(p.subs) -> Nat] :
              /\ sum[0] = p.length
              /\ \A k \in 1 .. Len(p.subs) : sum[k] = sum[k - 1] + p.subs[k].length
              /\ p.total = sum[Len(p.subs)]
<1>1. PICK h \in Header : p = PartitionOf(h)
  BY DEF Parts
<1>2. p.total = TotalSectors(h) /\ p.length = h.length /\ p.isSub = h.isSub /\ p.subs = Subs(h)
  BY <1>1 DEF PartitionOf
<1>3. PICK sum \in [0 .. Len(Subs(h)) -> Nat] :
           /\ sum[0] = h.length
           /\ \A k \in 1 .. Len(Subs(h)) : sum[k] = sum[k - 1] + Subs(h)[k].length
           /\ TotalSectors(h) = sum[Len(Subs(h))]
  BY TotalAdds
<1>4. Subs(h) \in Seq(Extent) /\ Len(Subs(h)) <= MaxSub
  <2>1. h.subs \in [1 .. MaxSub -> Extent] /\ MaxSub \in Nat /\ h.nsub \in Nat
    BY ScanSizes DEF Header
  <2>2. h.subs \in Seq(Extent) /\ Len(h.subs) = MaxSub
    BY <2>1
  <2> QED BY <2>1, <2>2 DEF Subs
<1>5. TotalSectors(h) \in Nat
  <2>1. Len(Subs(h)) \in 0 .. Len(Subs(h))
    BY <1>4
  <2> QED BY <1>3, <2>1
<1>6. h.length \in Nat /\ h.isSub \in BOOLEAN
  BY DEF Header
<1> QED BY <1>2, <1>3, <1>4, <1>5, <1>6

\* One iteration of the loop keeps the catalog one.
LEMMA EnteredType ==
  ASSUME NEW catalog \in Catalogs, NEW p \in Parts, NEW all
  PROVE  Entered(catalog, p, all) \in Catalogs
<1>1. p.total \in Nat
  BY PartFacts
<1>2. Append(catalog.entries, p) \in Seq(Parts) /\ catalog.entries \in Seq(Parts)
  BY DEF Catalogs
<1>3. ASSUME NEW a \in Nat, NEW b
      PROVE  a + (IF b THEN 1 ELSE 0) \in Nat /\ a + (IF b THEN p.total ELSE 0) \in Nat
  BY <1>1
<1> QED BY <1>2, <1>3 DEF Entered, Catalogs

\* build_partition_catalog() enters one partition after the other.
LEMMA CatalogAdds ==
  ASSUME ScanTypes, NEW all
  PROVE  \E c \in [0 .. Len(partitions) -> Catalogs] :
           /\ c[0] = NoEntries
           /\ \A k \in 1 .. Len(partitions) : c[k] = Entered(c[k - 1], partitions[k], all)
           /\ Catalog(all) = c[Len(partitions)]
<1> DEFINE n == Len(partitions)
           G == [k \in 1 .. n |-> [x \in Catalogs |-> Entered(x, partitions[k], all)]]
           Is(f) == f = [u \in SUBSET DOMAIN partitions |->
                           IF u = {} THEN NoEntries
                           ELSE Entered(f[u \ {Max(u)}], partitions[Max(u)], all)]
           it == CHOOSE f : Is(f)
<1>1. Catalog(all) = it[DOMAIN partitions]
  BY DEF Catalog, FoldLeft, MapThenFoldSet
<1>2. partitions \in Seq(Parts) /\ NoEntries \in Catalogs
  BY DEF ScanTypes, NoEntries, Catalogs
<1>3. n \in Nat /\ DOMAIN partitions = 1 .. n
  BY <1>2
<1>4. G \in [1 .. n -> [Catalogs -> Catalogs]]
  <2>1. ASSUME NEW k \in 1 .. n, NEW x \in Catalogs PROVE Entered(x, partitions[k], all) \in Catalogs
    <3>1. partitions[k] \in Parts
      BY <1>2, <1>3
    <3> QED BY <3>1, EnteredType
  <2> HIDE DEF n
  <2> QED BY <2>1
<1>5. ASSUME NEW u \in SUBSET (1 .. n), u # {}
      PROVE  Max(u) \in 1 .. n
  BY <1>3, <1>5, MaxOfNumbers
<1>6. \E f : Is(f)
  <2>1. PICK f \in [SUBSET (1 .. n) -> Catalogs] : \A s \in SUBSET (1 .. n) :
           f[s] = IF s = {} THEN NoEntries ELSE G[Max(s)][f[s \ {Max(s)}]]
    <3>1. HasFold(Catalogs, NoEntries, n, G)
      <4> HIDE DEF n, G
      <4> QED BY <1>2, <1>3, <1>4, FoldOf
    <3> QED BY <3>1 DEF HasFold
  <2>2. ASSUME NEW s \in SUBSET (1 .. n), s # {}
        PROVE  G[Max(s)][f[s \ {Max(s)}]] = Entered(f[s \ {Max(s)}], partitions[Max(s)], all)
    <3>1. Max(s) \in 1 .. n /\ f[s \ {Max(s)}] \in Catalogs
      BY <1>5, <2>2
    <3> QED BY <3>1
  <2> HIDE DEF n, G
  <2>3. \A s \in SUBSET (1 .. n) :
           f[s] = IF s = {} THEN NoEntries
                  ELSE Entered(f[s \ {Max(s)}], partitions[Max(s)], all)
    BY <2>1, <2>2
  <2>4. Is(f)
    BY <1>3, <2>1, <2>3
  <2> QED BY <2>4
<1>7. Is(it)
  <2> HIDE DEF Is
  <2> QED BY <1>6
<1> HIDE DEF it
<1>8. it[{}] = NoEntries
  BY <1>7
<1>9. ASSUME NEW k \in 1 .. n
      PROVE  it[1 .. k] = Entered(it[1 .. k - 1], partitions[k], all)
  <2>1. /\ 1 .. k \in SUBSET (1 .. n) /\ 1 .. k # {} /\ (1 .. k) \ {k} = 1 .. k - 1
        /\ Max(1 .. k) = k
    BY <1>3, IntervalGrows
  <2> QED BY <1>3, <1>7, <2>1
<1>10. StepsAlong(Catalogs, NoEntries, n, G, it)
  <2>1. \A k \in 1 .. n : it[1 .. k - 1] \in Catalogs => it[1 .. k] = G[k][it[1 .. k - 1]]
    BY <1>9
  <2> HIDE DEF n, G
  <2> QED BY <1>2, <1>3, <1>4, <1>8, <2>1, FoldRuns
<1> DEFINE c == [k \in 0 .. n |-> it[1 .. k]]
<1>11. c \in [0 .. n -> Catalogs] /\ c[0] = NoEntries
  BY <1>3, <1>10 DEF StepsAlong
<1>12. ASSUME NEW k \in 1 .. n PROVE c[k] = Entered(c[k - 1], partitions[k], all)
  <2>1. k - 1 \in 0 .. n /\ k \in 0 .. n
    BY <1>3
  <2> QED BY <1>9, <2>1
<1>13. Catalog(all) = c[n]
  BY <1>1, <1>3
<1> HIDE DEF c
<1> QED BY <1>11, <1>12, <1>13
\* Sectors are told apart by the header that describes them, by the extent of
\* it they lie in, 0 being its own, and by their place there.
Units(i, j, count) == { <<i, j, k>> : k \in 1 .. count }

\* An extent has as many sectors as its length says.
LEMMA UnitsCount ==
  ASSUME NEW i, NEW j, NEW count \in Nat
  PROVE  IsFiniteSet(Units(i, j, count)) /\ Cardinality(Units(i, j, count)) = count
<1> DEFINE f == [k \in 1 .. count |-> <<i, j, k>>]
<1>1. f \in Bijection(1 .. count, Units(i, j, count))
  <2>1. f \in [1 .. count -> Units(i, j, count)]
    BY DEF Units
  <2>2. \A a, b \in 1 .. count : f[a] = f[b] => a = b
    OBVIOUS
  <2>3. \A t \in Units(i, j, count) : \E s \in 1 .. count : f[s] = t
    BY DEF Units
  <2> HIDE DEF f
  <2> QED BY <2>1, <2>2, <2>3 DEF Bijection, Injection, Surjection, IsInjective
<1>2. ExistsBijection(1 .. count, Units(i, j, count))
  BY <1>1 DEF ExistsBijection
<1>3. IsFiniteSet(1 .. count) /\ Cardinality(1 .. count) = count
  <2>1. /\ IsFiniteSet(1 .. count)
        /\ Cardinality(1 .. count) = IF 1 > count THEN 0 ELSE count - 1 + 1
    BY FS_Interval
  <2> QED BY <2>1
<1> QED BY <1>2, <1>3, FS_Bijection

\* Sets without a common member have as many members as their sizes add up to.
LEMMA SizesAdd ==
  ASSUME NEW n \in Nat, NEW X, NEW sum \in [0 .. n -> Nat],
         \A k \in 0 .. n : IsFiniteSet(X[k]),
         \A j, k \in 0 .. n : j # k => X[j] \cap X[k] = {},
         sum[0] = Cardinality(X[0]),
         \A k \in 1 .. n : sum[k] = sum[k - 1] + Cardinality(X[k])
  PROVE  /\ IsFiniteSet(UNION { X[k] : k \in 0 .. n })
         /\ Cardinality(UNION { X[k] : k \in 0 .. n }) = sum[n]
<1> DEFINE All(m) == UNION { X[k] : k \in 0 .. m }
           Good(m) == IsFiniteSet(All(m)) /\ Cardinality(All(m)) = sum[m]
           missed == { m \in 0 .. n : ~ Good(m) }
<1>1. missed = {} => Good(n)
  <2> HIDE DEF Good
  <2> QED OBVIOUS
<1> SUFFICES ASSUME missed # {} PROVE FALSE
  BY <1>1
<1>2. 0 \notin missed
  <2>1. All(0) = X[0]
    <3>1. 0 .. 0 = {0}
      OBVIOUS
    <3> QED BY <3>1
  <2>2. 0 \in 0 .. n
    OBVIOUS
  <2> HIDE DEF All
  <2> QED BY <2>1, <2>2
<1>3. PICK m \in missed : m - 1 \in Nat /\ m - 1 \notin missed
  <2>1. missed \subseteq Nat
    OBVIOUS
  <2> HIDE DEF missed
  <2> QED BY <1>2, <2>1, FirstOf
<1>4. m \in 1 .. n /\ m - 1 \in 0 .. n /\ m \in 0 .. n
  BY <1>3
<1>5. Good(m - 1)
  BY <1>3, <1>4
<1>6. All(m) = All(m - 1) \cup X[m]
  <2>1. \A k : k \in 0 .. m <=> (k \in 0 .. m - 1 \/ k = m)
    BY <1>4
  <2> QED BY <2>1
<1>7. All(m - 1) \cap X[m] = {}
  <2>1. \A k \in 0 .. m - 1 : k \in 0 .. n /\ k # m
    BY <1>4
  <2>2. \A k \in 0 .. m - 1 : X[k] \cap X[m] = {}
    BY <1>4, <2>1
  <2> HIDE DEF missed
  <2> QED BY <2>2, Zenon
<1>8. IsFiniteSet(X[m]) /\ Cardinality(X[m]) \in Nat
  BY <1>4, FS_CardinalityType
<1>9. sum[m] = sum[m - 1] + Cardinality(X[m]) /\ sum[m - 1] \in Nat
  BY <1>4
<1> HIDE DEF All
<1>10. /\ IsFiniteSet(All(m - 1) \cup X[m])
       /\ Cardinality(All(m - 1) \cup X[m])
            = Cardinality(All(m - 1)) + Cardinality(X[m]) - Cardinality(All(m - 1) \cap X[m])
  BY <1>5, <1>8, FS_Union
<1>11. Cardinality(All(m - 1) \cap X[m]) = 0
  BY <1>7, FS_EmptySet
<1>12. Good(m)
  <2>1. PICK a \in Nat : a = Cardinality(All(m - 1)) /\ a = sum[m - 1]
    BY <1>5, <1>9
  <2>2. PICK c \in Nat : c = Cardinality(X[m])
    BY <1>8
  <2>3. PICK d : d = Cardinality(All(m))
    OBVIOUS
  <2>4. d = a + c - 0 /\ sum[m] = a + c
    BY <1>6, <1>9, <1>10, <1>11, <2>1, <2>2, <2>3
  <2>5. d = sum[m]
    BY <2>4
  <2> QED BY <1>6, <1>10, <2>3, <2>5
<1> QED BY <1>3, <1>12

\* The sectors of an extent of a partition found, and all that it describes.
ExtentOf(i, j) ==
  Units(i, j, IF j = 0 THEN partitions[i].length ELSE partitions[i].subs[j].length)
AllOf(i) == UNION { ExtentOf(i, j) : j \in 0 .. Len(partitions[i].subs) }

\* The total of a partition counts everything it describes.
LEMMA TotalCounts ==
  ASSUME ScanTypes, NEW i \in DOMAIN partitions
  PROVE  IsFiniteSet(AllOf(i)) /\ Cardinality(AllOf(i)) = partitions[i].total
<1> DEFINE p == partitions[i]
           n == Len(p.subs)
           X == [j \in 0 .. n |-> ExtentOf(i, j)]
<1>1. p \in Parts
  BY DEF ScanTypes
<1>2. p.length \in Nat /\ p.subs \in Seq(Extent) /\ n \in Nat
  BY <1>1, PartFacts
<1>3. PICK sum \in [0 .. n -> Nat] :
           /\ sum[0] = p.length
           /\ \A k \in 1 .. n : sum[k] = sum[k - 1] + p.subs[k].length
           /\ p.total = sum[n]
  BY <1>1, PartFacts
<1>4. IsFiniteSet(X[0]) /\ Cardinality(X[0]) = p.length
  <2>1. X[0] = Units(i, 0, p.length)
    BY <1>2 DEF ExtentOf
  <2> QED BY <1>2, <2>1, UnitsCount
<1>5. ASSUME NEW k \in 1 .. n
      PROVE  IsFiniteSet(X[k]) /\ Cardinality(X[k]) = p.subs[k].length
  <2>1. X[k] = Units(i, k, p.subs[k].length)
    BY <1>2 DEF ExtentOf
  <2>2. p.subs[k] \in Extent
    BY <1>2
  <2>3. p.subs[k].length \in Nat
    BY <2>2 DEF Extent
  <2> QED BY <2>1, <2>3, UnitsCount
<1>6. \A k \in 0 .. n : IsFiniteSet(X[k])
  <2>1. \A k \in 0 .. n : k = 0 \/ k \in 1 .. n
    BY <1>2
  <2> QED BY <1>4, <1>5, <2>1
<1>7. \A j, k \in 0 .. n : j # k => X[j] \cap X[k] = {}
  BY DEF ExtentOf, Units
<1>8. \A k \in 1 .. n : sum[k] = sum[k - 1] + Cardinality(X[k])
  BY <1>3, <1>5
<1>9. sum[0] = Cardinality(X[0])
  BY <1>3, <1>4
<1>10. AllOf(i) = UNION { X[k] : k \in 0 .. n }
  BY DEF AllOf
<1> HIDE DEF X, n
<1>11. /\ IsFiniteSet(UNION { X[k] : k \in 0 .. n })
       /\ Cardinality(UNION { X[k] : k \in 0 .. n }) = sum[n]
  BY <1>2, <1>6, <1>7, <1>8, <1>9, SizesAdd
<1> QED BY <1>3, <1>10, <1>11
\* The sectors of all headers of a type, and those its mains describe.
TypeUnits(type) ==
  UNION { IF partitions[i].type = type THEN ExtentOf(i, 0) ELSE {} : i \in DOMAIN partitions }
MainUnits(type) ==
  UNION { IF MainOfType(partitions[i], type) THEN AllOf(i) ELSE {} : i \in DOMAIN partitions }

\* Sizes added up header by header are that of all sets together.
LEMMA HeadersAdd ==
  ASSUME NEW n \in Nat, NEW S, NEW sum \in [0 .. n -> Nat],
         \A k \in 1 .. n : IsFiniteSet(S[k]),
         \A j, k \in 1 .. n : j # k => S[j] \cap S[k] = {},
         sum[0] = 0,
         \A k \in 1 .. n : sum[k] = sum[k - 1] + Cardinality(S[k])
  PROVE  /\ IsFiniteSet(UNION { S[k] : k \in 1 .. n })
         /\ Cardinality(UNION { S[k] : k \in 1 .. n }) = sum[n]
<1> DEFINE X == [k \in 0 .. n |-> IF k = 0 THEN {} ELSE S[k]]
<1>1. X[0] = {} /\ \A k \in 1 .. n : X[k] = S[k]
  BY SMT
<1>2. \A k \in 0 .. n : k = 0 \/ k \in 1 .. n
  BY SMT
<1>3. UNION { X[k] : k \in 0 .. n } = UNION { S[k] : k \in 1 .. n }
  <2>1. \A k \in 1 .. n : k \in 0 .. n
    OBVIOUS
  <2> HIDE DEF X
  <2> QED BY <1>1, <1>2, <2>1
<1> HIDE DEF X
<1>4. IsFiniteSet({}) /\ Cardinality({}) = 0
  BY FS_EmptySet
<1>5. \A k \in 0 .. n : IsFiniteSet(X[k])
  BY <1>1, <1>2, <1>4
<1>6. \A j, k \in 0 .. n : j # k => X[j] \cap X[k] = {}
  BY <1>1, <1>2
<1>7. sum[0] = Cardinality(X[0])
  BY <1>1, <1>4
<1>8. \A k \in 1 .. n : sum[k] = sum[k - 1] + Cardinality(X[k])
  BY <1>1
<1>9. /\ IsFiniteSet(UNION { X[k] : k \in 0 .. n })
      /\ Cardinality(UNION { X[k] : k \in 0 .. n }) = sum[n]
  BY <1>5, <1>6, <1>7, <1>8, SizesAdd
<1> QED BY <1>3, <1>9

\* The reference is the number of sectors of the headers of the type.
LEMMA TypeCounts ==
  ASSUME ScanTypes, NEW type
  PROVE  IsFiniteSet(TypeUnits(type)) /\ Cardinality(TypeUnits(type)) = SectorsOfType(type)
<1> DEFINE n == Len(partitions)
           S == [k \in 1 .. n |-> IF partitions[k].type = type THEN ExtentOf(k, 0) ELSE {}]
<1>1. n \in Nat /\ DOMAIN partitions = 1 .. n /\ \A k \in 1 .. n : partitions[k] \in Parts
  BY DEF ScanTypes
<1>2. PICK sum \in [0 .. n -> Nat] :
           /\ sum[0] = 0
           /\ \A k \in 1 .. n :
                sum[k] = IF partitions[k].type = type THEN sum[k - 1] + partitions[k].length
                         ELSE sum[k - 1]
           /\ SectorsOfType(type) = sum[n]
  BY TypeAdds
<1> HIDE DEF n
<1>3. ASSUME NEW k \in 1 .. n
      PROVE  /\ IsFiniteSet(S[k])
             /\ sum[k] = sum[k - 1] + Cardinality(S[k])
  <2>1. sum[k - 1] \in Nat
    <3>1. k - 1 \in 0 .. n
      BY <1>1
    <3> QED BY <3>1
  <2>2. CASE partitions[k].type = type
    <3>1. partitions[k].length \in Nat
      BY <1>1, PartFacts
    <3>2. S[k] = Units(k, 0, partitions[k].length)
      BY <2>2 DEF ExtentOf
    <3>3. IsFiniteSet(S[k]) /\ Cardinality(S[k]) = partitions[k].length
      BY <3>1, <3>2, UnitsCount
    <3> HIDE DEF S
    <3> QED BY <1>2, <2>2, <3>3
  <2>3. CASE partitions[k].type # type
    <3>1. S[k] = {}
      BY <2>3
    <3>2. IsFiniteSet(S[k]) /\ Cardinality(S[k]) = 0
      BY <3>1, FS_EmptySet
    <3>3. sum[k] = sum[k - 1]
      BY <1>2, <2>3
    <3> HIDE DEF S
    <3> QED BY <2>1, <3>2, <3>3
  <2> QED BY <2>2, <2>3
<1>4. \A j, k \in 1 .. n : j # k => S[j] \cap S[k] = {}
  BY DEF ExtentOf, Units
<1>5. TypeUnits(type) = UNION { S[k] : k \in 1 .. n }
  BY <1>1 DEF TypeUnits
<1> HIDE DEF S
<1>6. \A k \in 1 .. n : IsFiniteSet(S[k])
  BY <1>3
<1>7. \A k \in 1 .. n : sum[k] = sum[k - 1] + Cardinality(S[k])
  BY <1>3
<1>8. /\ IsFiniteSet(UNION { S[k] : k \in 1 .. n })
      /\ Cardinality(UNION { S[k] : k \in 1 .. n }) = sum[n]
  <2>1. n \in Nat /\ sum[0] = 0
    BY <1>1, <1>2
  <2> QED BY <1>4, <1>6, <1>7, <2>1, HeadersAdd
<1> QED BY <1>2, <1>5, <1>8

\* Adding the totals of the mains of a type counts the sectors they describe.
LEMMA MainsCount ==
  ASSUME ScanTypes, NEW type, NEW sum \in [0 .. Len(partitions) -> Nat],
         sum[0] = 0,
         \A k \in 1 .. Len(partitions) :
           sum[k] = sum[k - 1]
                      + (IF MainOfType(partitions[k], type) THEN partitions[k].total ELSE 0)
  PROVE  /\ IsFiniteSet(MainUnits(type))
         /\ Cardinality(MainUnits(type)) = sum[Len(partitions)]
<1> DEFINE n == Len(partitions)
           S == [k \in 1 .. n |-> IF MainOfType(partitions[k], type) THEN AllOf(k) ELSE {}]
<1>1. n \in Nat /\ DOMAIN partitions = 1 .. n
  BY DEF ScanTypes
<1>2. \A k \in 1 .. n :
        sum[k] = sum[k - 1] + (IF MainOfType(partitions[k], type) THEN partitions[k].total ELSE 0)
  OBVIOUS
<1> HIDE DEF n
<1>3. ASSUME NEW k \in 1 .. n
      PROVE  /\ IsFiniteSet(S[k])
             /\ sum[k] = sum[k - 1] + Cardinality(S[k])
  <2>1. CASE MainOfType(partitions[k], type)
    <3>1. S[k] = AllOf(k)
      BY <2>1
    <3>2. IsFiniteSet(S[k]) /\ Cardinality(S[k]) = partitions[k].total
      <4> HIDE DEF S
      <4> QED BY <1>1, <3>1, TotalCounts
    <3> HIDE DEF S
    <3> QED BY <1>2, <2>1, <3>2
  <2>2. CASE ~ MainOfType(partitions[k], type)
    <3>1. S[k] = {}
      BY <2>2
    <3>2. IsFiniteSet(S[k]) /\ Cardinality(S[k]) = 0
      BY <3>1, FS_EmptySet
    <3> HIDE DEF S
    <3> QED BY <1>2, <2>2, <3>2
  <2> QED BY <2>1, <2>2
<1>4. \A j, k \in 1 .. n : j # k => S[j] \cap S[k] = {}
  <2>1. \A j : \A t \in AllOf(j) : t[1] = j
    BY DEF AllOf, ExtentOf, Units
  <2> QED BY <2>1
<1>5. MainUnits(type) = UNION { S[k] : k \in 1 .. n }
  BY <1>1 DEF MainUnits
<1> HIDE DEF S
<1>6. \A k \in 1 .. n : IsFiniteSet(S[k])
  BY <1>3
<1>7. \A k \in 1 .. n : sum[k] = sum[k - 1] + Cardinality(S[k])
  BY <1>3
<1>8. sum \in [0 .. n -> Nat]
  BY DEF n
<1>9. /\ IsFiniteSet(UNION { S[k] : k \in 1 .. n })
      /\ Cardinality(UNION { S[k] : k \in 1 .. n }) = sum[n]
  BY <1>1, <1>4, <1>6, <1>7, <1>8, HeadersAdd
<1> QED BY <1>5, <1>9 DEF n

\* The catalog counts the sectors that the mains of the type describe.
LEMMA CatalogSectors ==
  ASSUME ScanTypes, NEW all
  PROVE  /\ IsFiniteSet(MainUnits("hdl")) /\ IsFiniteSet(MainUnits("pfs"))
         /\ Catalog(all).hdlSectors = Cardinality(MainUnits("hdl"))
         /\ Catalog(all).pfsSectors = Cardinality(MainUnits("pfs"))
<1> DEFINE n == Len(partitions)
<1>1. PICK c \in [0 .. n -> Catalogs] :
           /\ c[0] = NoEntries
           /\ \A k \in 1 .. n : c[k] = Entered(c[k - 1], partitions[k], all)
           /\ Catalog(all) = c[n]
  BY CatalogAdds
<1>2. n \in Nat
  BY DEF ScanTypes
<1> HIDE DEF n
<1> DEFINE hdl == [k \in 0 .. n |-> c[k].hdlSectors]
           pfs == [k \in 0 .. n |-> c[k].pfsSectors]
<1>3. hdl \in [0 .. n -> Nat] /\ pfs \in [0 .. n -> Nat]
  BY DEF Catalogs
<1>4. hdl[0] = 0 /\ pfs[0] = 0
  BY <1>1, <1>2 DEF NoEntries
<1>5. ASSUME NEW k \in 1 .. n
      PROVE  /\ hdl[k] = hdl[k - 1]
                           + (IF MainOfType(partitions[k], "hdl") THEN partitions[k].total ELSE 0)
             /\ pfs[k] = pfs[k - 1]
                           + (IF MainOfType(partitions[k], "pfs") THEN partitions[k].total ELSE 0)
  <2>1. k - 1 \in 0 .. n /\ k \in 0 .. n
    BY <1>2
  <2>2. c[k] = Entered(c[k - 1], partitions[k], all)
    BY <1>1
  <2>3. /\ c[k].hdlSectors = c[k - 1].hdlSectors
                + (IF MainOfType(partitions[k], "hdl") THEN partitions[k].total ELSE 0)
        /\ c[k].pfsSectors = c[k - 1].pfsSectors
                + (IF MainOfType(partitions[k], "pfs") THEN partitions[k].total ELSE 0)
    BY <2>2 DEF Entered
  <2> QED BY <2>1, <2>3
<1>6. n \in 0 .. n /\ hdl[n] = Catalog(all).hdlSectors /\ pfs[n] = Catalog(all).pfsSectors
  BY <1>1, <1>2
<1> HIDE DEF hdl, pfs
<1>7. IsFiniteSet(MainUnits("hdl")) /\ Cardinality(MainUnits("hdl")) = hdl[n]
  BY <1>3, <1>4, <1>5, MainsCount DEF n
<1>8. IsFiniteSet(MainUnits("pfs")) /\ Cardinality(MainUnits("pfs")) = pfs[n]
  BY <1>3, <1>4, <1>5, MainsCount DEF n
<1> QED BY <1>6, <1>7, <1>8
\* On a consistent disk the headers of sub-partitions and the extents the mains
\* list pair off.
LEMMA Owners ==
  ASSUME ScanTypes, Consistent
  PROVE  \E own \in [SubHeaders -> Described] :
           /\ \A s \in SubHeaders : Describes(own[s], s)
           /\ \A s, t \in SubHeaders : own[s] = own[t] => s = t
           /\ \A o \in Described : \E s \in SubHeaders : own[s] = o
<1>1. IsFiniteSet(DOMAIN partitions) /\ IsFiniteSet(1 .. MaxSub)
  <2>1. DOMAIN partitions = 1 .. Len(partitions) /\ Len(partitions) \in Nat
    BY DEF ScanTypes
  <2>2. IsFiniteSet(1 .. Len(partitions)) /\ IsFiniteSet(1 .. MaxSub)
    BY <2>1, ScanSizes, FS_Interval
  <2> QED BY <2>1, <2>2
<1>2. ASSUME NEW s \in SubHeaders
      PROVE  \E o \in Described : \A x : x \in Described /\ Describes(x, s) <=> x = o
  <2> DEFINE S == { o \in Described : Describes(o, s) }
  <2>1. IsFiniteSet(S)
    <3>1. IsFiniteSet((DOMAIN partitions) \X (1 .. MaxSub))
      BY <1>1, FS_Product
    <3>2. S \in SUBSET ((DOMAIN partitions) \X (1 .. MaxSub))
      BY DEF Described
    <3> HIDE DEF S
    <3> QED BY <3>1, <3>2, FS_Subset
  <2>2. Cardinality(S) = 1
    BY DEF Consistent
  <2>3. \E x : S = {x}
    <3> HIDE DEF S
    <3> QED BY <2>1, <2>2, FS_Singleton
  <2> QED BY <2>3
<1>3. ASSUME NEW o \in Described
      PROVE  \E s \in SubHeaders : \A x : x \in SubHeaders /\ Describes(o, x) <=> x = s
  <2> DEFINE S == { s \in SubHeaders : Describes(o, s) }
  <2>1. IsFiniteSet(S)
    <3>1. S \in SUBSET DOMAIN partitions
      BY DEF SubHeaders
    <3> HIDE DEF S
    <3> QED BY <1>1, <3>1, FS_Subset
  <2>2. Cardinality(S) = 1
    BY DEF Consistent
  <2>3. \E x : S = {x}
    <3> HIDE DEF S
    <3> QED BY <2>1, <2>2, FS_Singleton
  <2> QED BY <2>3
<1> DEFINE own == [s \in SubHeaders |-> CHOOSE o \in Described : Describes(o, s)]
<1>4. ASSUME NEW s \in SubHeaders
      PROVE  own[s] \in Described /\ Describes(own[s], s)
  <2>1. \E o \in Described : Describes(o, s)
    BY <1>2
  <2>2. (CHOOSE o \in Described : Describes(o, s)) \in Described
    BY <2>1
  <2>3. Describes(CHOOSE o \in Described : Describes(o, s), s)
    BY <2>1
  <2> QED BY <2>2, <2>3
<1>5. own \in [SubHeaders -> Described]
  BY <1>4
<1> HIDE DEF own
<1>6. \A s, t \in SubHeaders : own[s] = own[t] => s = t
  <2> SUFFICES ASSUME NEW s \in SubHeaders, NEW t \in SubHeaders, own[s] = own[t]
               PROVE  s = t
    OBVIOUS
  <2>1. own[s] \in Described /\ Describes(own[s], s) /\ Describes(own[s], t)
    BY <1>4
  <2>2. PICK u \in SubHeaders : \A x : x \in SubHeaders /\ Describes(own[s], x) <=> x = u
    BY <1>3, <2>1
  <2> QED BY <2>1, <2>2
<1>7. ASSUME NEW o \in Described PROVE \E s \in SubHeaders : own[s] = o
  <2>1. PICK s \in SubHeaders : Describes(o, s)
    BY <1>3
  <2>2. PICK v \in Described : \A x : x \in Described /\ Describes(x, s) <=> x = v
    BY <1>2
  <2>3. own[s] = o
    BY <1>4, <2>1, <2>2
  <2> QED BY <2>3
<1> QED BY <1>4, <1>5, <1>6, <1>7

\* What the sectors of the two counts are.
LEMMA TypeUnit ==
  ASSUME ScanTypes, NEW type, NEW u
  PROVE  u \in TypeUnits(type) <=>
           \E i \in DOMAIN partitions : \E k \in 1 .. partitions[i].length :
             partitions[i].type = type /\ u = <<i, 0, k>>
BY DEF TypeUnits, ExtentOf, Units

LEMMA MainUnit ==
  ASSUME ScanTypes, NEW type, NEW u
  PROVE  u \in MainUnits(type) <=>
           \E i \in DOMAIN partitions :
             /\ ~partitions[i].isSub /\ partitions[i].type = type
             /\ \/ \E k \in 1 .. partitions[i].length : u = <<i, 0, k>>
                \/ \E o \in Described :
                     /\ o[1] = i
                     /\ \E k \in 1 .. partitions[i].subs[o[2]].length : u = <<i, o[2], k>>
<1>1. ASSUME NEW i \in DOMAIN partitions
      PROVE  u \in AllOf(i) <=>
               \/ \E k \in 1 .. partitions[i].length : u = <<i, 0, k>>
               \/ \E j \in 1 .. Len(partitions[i].subs) :
                    \E k \in 1 .. partitions[i].subs[j].length : u = <<i, j, k>>
  <2>1. partitions[i] \in Parts
    BY DEF ScanTypes
  <2>2. Len(partitions[i].subs) \in Nat
    BY <2>1, PartFacts
  <2>3. \A j : j \in 0 .. Len(partitions[i].subs) <=> j = 0 \/ j \in 1 .. Len(partitions[i].subs)
    BY <2>2
  <2>4. u \in AllOf(i) <=> u \in ExtentOf(i, 0) \/ \E j \in 1 .. Len(partitions[i].subs) : u \in ExtentOf(i, j)
    BY <2>3 DEF AllOf
  <2>5. u \in ExtentOf(i, 0) <=> \E k \in 1 .. partitions[i].length : u = <<i, 0, k>>
    BY DEF ExtentOf, Units
  <2>6. ASSUME NEW j \in 1 .. Len(partitions[i].subs)
        PROVE  u \in ExtentOf(i, j) <=> \E k \in 1 .. partitions[i].subs[j].length : u = <<i, j, k>>
    BY <2>2 DEF ExtentOf, Units
  <2> QED BY <2>4, <2>5, <2>6
<1>2. ASSUME NEW i \in DOMAIN partitions, ~partitions[i].isSub
      PROVE  \A j : j \in 1 .. Len(partitions[i].subs) <=> <<i, j>> \in Described
  <2>1. partitions[i] \in Parts
    BY DEF ScanTypes
  <2>2. /\ partitions[i].subs \in Seq(Extent)
        /\ Len(partitions[i].subs) <= MaxSub /\ MaxSub \in Nat
    BY <2>1, PartFacts, ScanSizes
  <2>3. /\ DOMAIN partitions[i].subs = 1 .. Len(partitions[i].subs)
        /\ \A j \in 1 .. Len(partitions[i].subs) : j \in 1 .. MaxSub
    BY <2>2
  <2> QED BY <1>2, <2>3 DEF Described
<1>3. \A o \in Described : o = <<o[1], o[2]>>
  BY DEF Described
<1>4. ASSUME NEW i \in DOMAIN partitions, ~partitions[i].isSub
      PROVE  (\E j \in 1 .. Len(partitions[i].subs) :
                \E k \in 1 .. partitions[i].subs[j].length : u = <<i, j, k>>)
              <=> \E o \in Described :
                    /\ o[1] = i
                    /\ \E k \in 1 .. partitions[i].subs[o[2]].length : u = <<i, o[2], k>>
  <2>1. ASSUME NEW j \in 1 .. Len(partitions[i].subs)
        PROVE  <<i, j>> \in Described /\ <<i, j>>[1] = i /\ <<i, j>>[2] = j
    BY <1>2, <1>4
  <2>2. ASSUME NEW o \in Described, o[1] = i
        PROVE  o[2] \in 1 .. Len(partitions[i].subs)
    BY <1>2, <1>3, <1>4, <2>2
  <2> QED BY <2>1, <2>2
<1>5. u \in MainUnits(type) <=>
        \E i \in DOMAIN partitions :
          ~partitions[i].isSub /\ partitions[i].type = type /\ u \in AllOf(i)
  BY DEF MainUnits, MainOfType
<1> QED BY <1>1, <1>4, <1>5
\* On a consistent disk they pair off: a sector of a sub-partition's header is
\* one of the extent that its main lists.
LEMMA SameUnits ==
  ASSUME ScanTypes, Consistent, NEW type
  PROVE  ExistsBijection(TypeUnits(type), MainUnits(type))
<1>1. PICK own \in [SubHeaders -> Described] :
           /\ \A s \in SubHeaders : Describes(own[s], s)
           /\ \A s, t \in SubHeaders : own[s] = own[t] => s = t
           /\ \A o \in Described : \E s \in SubHeaders : own[s] = o
  BY Owners
<1>2. ASSUME NEW s \in SubHeaders
      PROVE  /\ own[s][1] \in DOMAIN partitions /\ own[s][2] \in 1 .. MaxSub
             /\ ~partitions[own[s][1]].isSub
             /\ partitions[own[s][1]].type = partitions[s].type
             /\ partitions[own[s][1]].subs[own[s][2]].length = partitions[s].length
  <2>1. own[s] \in Described /\ Describes(own[s], s)
    BY <1>1
  <2> QED BY <2>1 DEF Described, Describes
<1> DEFINE Pair(i, k) == IF partitions[i].isSub THEN <<own[i][1], own[i][2], k>> ELSE <<i, 0, k>>
           f == [u \in TypeUnits(type) |-> Pair(u[1], u[3])]
<1>3. ASSUME NEW i \in DOMAIN partitions, NEW k \in 1 .. partitions[i].length,
             partitions[i].type = type
      PROVE  Pair(i, k) \in MainUnits(type)
  <2>1. CASE partitions[i].isSub
    <3>1. i \in SubHeaders /\ own[i] \in Described
      BY <1>1, <2>1 DEF SubHeaders
    <3>2. PICK o \in Described : o = own[i]
      BY <3>1
    <3>3. /\ ~partitions[o[1]].isSub /\ o[1] \in DOMAIN partitions /\ partitions[o[1]].type = type
          /\ k \in 1 .. partitions[o[1]].subs[o[2]].length
      BY <1>2, <1>3, <3>1, <3>2
    <3>4. Pair(i, k) = <<o[1], o[2], k>>
      BY <2>1, <3>2
    <3> HIDE DEF Pair
    <3> QED BY <3>3, <3>4, MainUnit
  <2>2. CASE ~partitions[i].isSub
    <3>1. Pair(i, k) = <<i, 0, k>>
      BY <2>2
    <3> HIDE DEF Pair
    <3> QED BY <1>3, <2>2, <3>1, MainUnit
  <2> QED BY <2>1, <2>2
<1>4. ASSUME NEW i \in DOMAIN partitions, NEW k \in 1 .. partitions[i].length,
             partitions[i].type = type
      PROVE  <<i, 0, k>> \in TypeUnits(type) /\ f[<<i, 0, k>>] = Pair(i, k)
  <2>1. <<i, 0, k>> \in TypeUnits(type)
    BY <1>4, TypeUnit
  <2>2. <<i, 0, k>>[1] = i /\ <<i, 0, k>>[3] = k
    OBVIOUS
  <2> HIDE DEF Pair
  <2> QED BY <2>1, <2>2
<1>5. ASSUME NEW u \in TypeUnits(type)
      PROVE  \E i \in DOMAIN partitions : \E k \in 1 .. partitions[i].length :
               partitions[i].type = type /\ u = <<i, 0, k>> /\ f[u] = Pair(i, k)
  <2> HIDE DEF f, Pair
  <2> QED BY <1>4, TypeUnit
<1>6. f \in [TypeUnits(type) -> MainUnits(type)]
  <2>1. \A u \in TypeUnits(type) : f[u] \in MainUnits(type)
    <3> HIDE DEF f, Pair
    <3> QED BY <1>3, <1>5
  <2> QED BY <2>1
<1>7. ASSUME NEW i \in DOMAIN partitions, NEW j \in DOMAIN partitions, NEW k, NEW m,
             Pair(i, k) = Pair(j, m)
      PROVE  i = j /\ k = m
  <2>1. k = m
    BY <1>7
  <2>2. CASE partitions[i].isSub /\ partitions[j].isSub
    <3>1. i \in SubHeaders /\ j \in SubHeaders
      BY <2>2 DEF SubHeaders
    <3>2. own[i][1] = own[j][1] /\ own[i][2] = own[j][2]
      BY <1>7, <2>2
    <3>3. own[i] = own[j]
      <4>1. own[i] \in Described /\ own[j] \in Described
        BY <1>1, <3>1
      <4> QED BY <3>2, <4>1 DEF Described
    <3> QED BY <1>1, <2>1, <3>1, <3>3
  <2>3. CASE ~partitions[i].isSub /\ ~partitions[j].isSub
    BY <1>7, <2>3
  <2>4. ASSUME NEW s \in SubHeaders PROVE own[s][2] # 0
    BY <1>2, <2>4, ScanSizes
  <2>5. CASE partitions[i].isSub /\ ~partitions[j].isSub
    <3>1. i \in SubHeaders
      BY <2>5 DEF SubHeaders
    <3> QED BY <1>7, <2>4, <2>5, <3>1
  <2>6. CASE ~partitions[i].isSub /\ partitions[j].isSub
    <3>1. j \in SubHeaders
      BY <2>6 DEF SubHeaders
    <3> QED BY <1>7, <2>4, <2>6, <3>1
  <2> QED BY <2>2, <2>3, <2>5, <2>6
<1>8. \A u, v \in TypeUnits(type) : f[u] = f[v] => u = v
  <2> HIDE DEF f, Pair
  <2> SUFFICES ASSUME NEW u \in TypeUnits(type), NEW v \in TypeUnits(type), f[u] = f[v]
               PROVE  u = v
    OBVIOUS
  <2>1. PICK i \in DOMAIN partitions : \E k \in 1 .. partitions[i].length :
           u = <<i, 0, k>> /\ f[u] = Pair(i, k)
    BY <1>5
  <2>2. PICK j \in DOMAIN partitions : \E m \in 1 .. partitions[j].length :
           v = <<j, 0, m>> /\ f[v] = Pair(j, m)
    BY <1>5
  <2> QED BY <1>7, <2>1, <2>2
<1>9. ASSUME NEW t \in MainUnits(type) PROVE \E u \in TypeUnits(type) : f[u] = t
  <2>1. PICK i \in DOMAIN partitions :
             /\ ~partitions[i].isSub /\ partitions[i].type = type
             /\ \/ \E k \in 1 .. partitions[i].length : t = <<i, 0, k>>
                \/ \E o \in Described :
                     /\ o[1] = i
                     /\ \E k \in 1 .. partitions[i].subs[o[2]].length : t = <<i, o[2], k>>
    BY MainUnit
  <2>2. CASE \E k \in 1 .. partitions[i].length : t = <<i, 0, k>>
    <3>1. PICK k \in 1 .. partitions[i].length : t = <<i, 0, k>>
      BY <2>2
    <3>2. Pair(i, k) = t
      BY <2>1, <3>1
    <3> HIDE DEF f, Pair
    <3> QED BY <1>4, <2>1, <3>2
  <2>3. CASE \E o \in Described :
               /\ o[1] = i
               /\ \E k \in 1 .. partitions[i].subs[o[2]].length : t = <<i, o[2], k>>
    <3>1. PICK o \in Described :
               /\ o[1] = i
               /\ \E k \in 1 .. partitions[i].subs[o[2]].length : t = <<i, o[2], k>>
      BY <2>3
    <3>2. PICK k \in 1 .. partitions[i].subs[o[2]].length : t = <<i, o[2], k>>
      BY <3>1
    <3>3. PICK s \in SubHeaders : own[s] = o
      BY <1>1
    <3>4. s \in DOMAIN partitions /\ partitions[s].isSub
      BY DEF SubHeaders
    <3>5. partitions[s].type = type /\ k \in 1 .. partitions[s].length
      BY <1>2, <2>1, <3>1, <3>2, <3>3
    <3>6. Pair(s, k) = t
      BY <3>1, <3>2, <3>3, <3>4
    <3> HIDE DEF f, Pair
    <3> QED BY <1>4, <3>4, <3>5, <3>6
  <2> QED BY <2>1, <2>2, <2>3
<1> HIDE DEF f
<1>10. f \in Bijection(TypeUnits(type), MainUnits(type))
  BY <1>6, <1>8, <1>9 DEF Bijection, Injection, Surjection, IsInjective
<1> QED BY <1>10 DEF ExistsBijection

\* Every header is counted as a main or as a sub-partition, and shown with all.
LEMMA CatalogHeaders ==
  ASSUME ScanTypes
  PROVE  Catalog(FALSE).mains + Catalog(FALSE).subs = Len(Catalog(TRUE).entries)
<1> DEFINE n == Len(partitions)
<1>1. PICK c \in [0 .. n -> Catalogs] :
           /\ c[0] = NoEntries
           /\ \A k \in 1 .. n : c[k] = Entered(c[k - 1], partitions[k], FALSE)
           /\ Catalog(FALSE) = c[n]
  BY CatalogAdds
<1>2. PICK d \in [0 .. n -> Catalogs] :
           /\ d[0] = NoEntries
           /\ \A k \in 1 .. n : d[k] = Entered(d[k - 1], partitions[k], TRUE)
           /\ Catalog(TRUE) = d[n]
  BY CatalogAdds
<1>3. n \in Nat
  BY DEF ScanTypes
<1> HIDE DEF n
<1> DEFINE Good(k) == c[k].mains + c[k].subs = Len(d[k].entries)
           missed == { k \in 0 .. n : ~ Good(k) }
<1>4. missed = {} => Good(n)
  <2> HIDE DEF Good
  <2> QED BY <1>3
<1>5. missed = {}
  <2> SUFFICES ASSUME missed # {} PROVE FALSE
    OBVIOUS
  <2>1. 0 \notin missed
    <3>1. c[0].mains = 0 /\ c[0].subs = 0 /\ d[0].entries = <<>>
      BY <1>1, <1>2 DEF NoEntries
    <3>2. Len(d[0].entries) = 0
      BY <3>1
    <3> QED BY <3>1, <3>2
  <2>2. PICK m \in missed : m - 1 \in Nat /\ m - 1 \notin missed
    <3>1. missed \subseteq Nat
      OBVIOUS
    <3> HIDE DEF missed
    <3> QED BY <2>1, <3>1, FirstOf
  <2>3. m \in 1 .. n /\ m - 1 \in 0 .. n
    BY <1>3, <2>2
  <2>4. c[m - 1].mains + c[m - 1].subs = Len(d[m - 1].entries)
    BY <2>2, <2>3
  <2>5. /\ c[m] = Entered(c[m - 1], partitions[m], FALSE)
        /\ d[m] = Entered(d[m - 1], partitions[m], TRUE)
    BY <1>1, <1>2, <2>3
  <2>6. /\ c[m - 1].mains \in Nat /\ c[m - 1].subs \in Nat
        /\ d[m - 1].entries \in Seq(Parts)
    BY <2>3 DEF Catalogs
  <2>7. partitions[m] \in Parts
    BY <2>3 DEF ScanTypes, n
  <2>8. Len(d[m].entries) = Len(d[m - 1].entries) + 1
    <3>1. d[m].entries = Append(d[m - 1].entries, partitions[m])
      BY <2>5 DEF Entered
    <3> QED BY <2>6, <2>7, <3>1
  <2>9. \/ c[m].mains = c[m - 1].mains + 1 /\ c[m].subs = c[m - 1].subs + 0
        \/ c[m].mains = c[m - 1].mains + 0 /\ c[m].subs = c[m - 1].subs + 1
    BY <2>5 DEF Entered
  <2>10. Good(m)
    <3>1. PICK a \in Nat : a = c[m - 1].mains
      BY <2>6
    <3>2. PICK b \in Nat : b = c[m - 1].subs
      BY <2>6
    <3>3. Len(d[m].entries) = a + b + 1
      BY <2>4, <2>8, <3>1, <3>2
    <3>4. \/ c[m].mains = a + 1 /\ c[m].subs = b + 0
          \/ c[m].mains = a + 0 /\ c[m].subs = b + 1
      BY <2>9, <3>1, <3>2
    <3> QED BY <3>3, <3>4
  <2> QED BY <2>2, <2>10
<1> QED BY <1>1, <1>2, <1>4, <1>5

\* On a disk whose sub-partitions are each listed by one main of their type,
\* the catalog counts every sector of a type once, whether it is given to a
\* main or to a sub-partition (build_partition_catalog() after scan()).
THEOREM CatalogCounts == Spec => []CatalogCountsOnce
<1>1. IInv => CatalogCountsOnce
  <2> SUFFICES ASSUME IInv, Consistent PROVE
        /\ Catalog(TRUE).hdlSectors = SectorsOfType("hdl")
        /\ Catalog(TRUE).pfsSectors = SectorsOfType("pfs")
        /\ Catalog(FALSE).mains + Catalog(FALSE).subs = Len(Catalog(TRUE).entries)
    BY DEF CatalogCountsOnce
  <2>1. ScanTypes
    BY DEF IInv, ScanInv
  <2>2. ASSUME NEW type
        PROVE  /\ IsFiniteSet(MainUnits(type))
                    => Cardinality(MainUnits(type)) = SectorsOfType(type)
    BY <2>1, TypeCounts, SameUnits, FS_Bijection
  <2> QED BY <2>1, <2>2, CatalogSectors, CatalogHeaders
<1> QED BY <1>1, Invariance, PTL
====
