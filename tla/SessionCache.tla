---------------------------- MODULE SessionCache ----------------------------
(***************************************************************************)
(* DriveSession of src/host/drive_session.cpp: the operations every        *)
(* frontend uses (browse, stat, read_file, clear_caches) and the four      *)
(* bounded caches they share, filled by pfs::Reader.  Several threads call *)
(* at once: Dokany callbacks, the window, an export.                       *)
(*                                                                         *)
(* Each section under cache_mutex_ is one action and each parse of the     *)
(* image is one action; parses run outside the mutex.  The image never     *)
(* changes.  The device may fail for a while: a parse made while it is     *)
(* faulty may lose any of its reads.                                       *)
(*                                                                         *)
(* A path is a sequence of names, what normalize_cache_path() leaves of a  *)
(* string.  The page cache below is in ReadPath.                           *)
(***************************************************************************)
EXTENDS Naturals, FiniteSets, Sequences, SequencesExt

CONSTANTS
  Threads,
  Calls,      \* the calls made: records [op, part, path]
  Roots,      \* root inode of each PFS main partition of the scan
  Kind,       \* "dir", "file" or "corrupt" for each inode
  Entries,    \* for each directory inode its entries [name, node], in order
  Parts,      \* for each name the components its separators split it into
  MaxProbes,  \* kMaxProbeCacheEntries, 256
  MaxListings,\* kMaxBrowseCacheEntries, 1024
  MaxStats,   \* kMaxStatCacheEntries, 8192
  MaxNodes    \* kMaxNodeCacheEntries, 8192

ASSUME Limits ==
  /\ MaxProbes \in Nat \ {0} /\ MaxListings \in Nat \ {0}
  /\ MaxStats \in Nat \ {0} /\ MaxNodes \in Nat \ {0}
ASSUME TreeFacts ==
  /\ "none" \notin DOMAIN Kind
  /\ \A p \in DOMAIN Roots : Roots[p] \in DOMAIN Kind
  /\ \A d \in DOMAIN Kind :
       Kind[d] = "dir" => Entries[d] \in Seq([name : DOMAIN Parts, node : DOMAIN Kind])
  /\ \A name \in DOMAIN Parts : Parts[name] \in Seq(DOMAIN Parts)
ASSUME CallFacts ==
  \A c \in Calls : c.op \in {"browse", "stat", "read", "export"} /\ c.path \in Seq(DOMAIN Parts)

VARIABLES
  faulty,     \* reads of the device may fail now
  everFaulty, \* history: they could fail at some time
  call,       \* per thread: the call it is making
  pc,         \* per thread: where it is
  found,      \* per thread: what its parse found
  answer,     \* per thread: what the call returns
  probes,     \* probe_cache_: partition -> valid?
  listings,   \* browse_cache_: key -> directory and its listing
  stats,      \* stat_cache_: key -> inode
  nodes       \* node_cache_: key -> inode

caches     == <<probes, listings, stats, nodes>>
threadVars == <<call, pc, found, answer>>
device     == <<faulty, everFaulty>>
vars       == <<device, threadVars, caches>>

NoNode     == "none"
Just(node) == [node |-> node, listing |-> <<>>]
NoCall     == [op |-> "none", part |-> "none", path |-> <<>>]
NoAnswer   == [state |-> "pending"]
Error      == [state |-> "error"]
Ok(f)      == [state |-> "ok", node |-> f.node, listing |-> f.listing]
Empty      == [k \in {} |-> NoNode]
-----------------------------------------------------------------------------
(* The parser: what pfs::Reader finds on a device that can be read.        *)

\* read_inode(): an inode that fails its checks is no node.
Inode(node) == IF Kind[node] = "corrupt" THEN NoNode ELSE node

\* find_if over the entries: the first with this name.
Step(dir, name) ==
  IF dir = NoNode \/ Kind[dir] # "dir" THEN NoNode
  ELSE LET named == { i \in DOMAIN Entries[dir] : Entries[dir][i].name = name }
       IN  IF named = {} THEN NoNode
           ELSE Inode(Entries[dir][CHOOSE i \in named : \A j \in named : i <= j].node)

\* Reader::resolve()
Resolve(part, path) ==
  IF part \in DOMAIN Roots THEN FoldLeft(Step, Inode(Roots[part]), path) ELSE NoNode

\* A listing shows every entry; an inode that cannot be read is only flagged.
Listing(dir, lost) ==
  [ i \in DOMAIN Entries[dir] |->
      LET e == Entries[dir][i]
      IN  [name |-> e.name,
           node |-> IF e.node \in lost THEN NoNode ELSE Inode(e.node)] ]

\* What a call should answer.
Parsed(c) ==
  LET node == Resolve(c.part, c.path) IN
  IF node = NoNode THEN Error
  ELSE CASE c.op = "browse" -> IF Kind[node] = "dir"
                              THEN Ok([node |-> node, listing |-> Listing(node, {})])
                              ELSE Error
         [] c.op \in {"stat", "export"} -> Ok(Just(node))
         [] c.op = "read" -> IF Kind[node] = "file" THEN Ok(Just(node)) ELSE Error
-----------------------------------------------------------------------------
(* The caches.                                                             *)

Put(map, k, v) == [x \in DOMAIN map \cup {k} |-> IF x = k THEN v ELSE map[x]]

\* Bug variant: room is made one entry too late.
LateStore(map, k, v, max) ==
  IF k \notin DOMAIN map /\ Cardinality(DOMAIN map) > max
    THEN { Put([x \in DOMAIN map \ {e} |-> map[x]], k, v) : e \in DOMAIN map }
    ELSE { Put(map, k, v) }

\* bounded_store(): begin() of an unordered_map is any entry.
BoundedStore(map, k, v, max) ==
  IF k \notin DOMAIN map /\ Cardinality(DOMAIN map) >= max
    THEN { Put([x \in DOMAIN map \ {e} |-> map[x]], k, v) : e \in DOMAIN map }
    ELSE { Put(map, k, v) }

\* Bug variant: the key forgets the partition.
KeyOfPath(part, path) == <<"", path>>

\* make_cache_key()
Key(part, path) == <<part, path>>

\* Bug variant: the key of a child is its name alone.
BareName(part, path, name) == Key(part, Parts[name])

\* make_cache_key() of child_path(): separators in a name split it.
ChildKey(part, path, name) == Key(part, path \o Parts[name])

\* What browse() stores of a directory: itself, then every child whose inode
\* could be read.  Later entries may evict earlier ones.
StoreReadable(map, part, path, dir, max) ==
  FoldLeft(LAMBDA maps, e :
             IF e.node = NoNode THEN maps
             ELSE UNION { BoundedStore(m, ChildKey(part, path, e.name), e.node, max) : m \in maps },
           BoundedStore(map, Key(part, path), dir.node, max), dir.listing)
-----------------------------------------------------------------------------
Init ==
  /\ faulty \in BOOLEAN /\ everFaulty = faulty
  /\ call = [t \in Threads |-> NoCall]
  /\ pc = [t \in Threads |-> "idle"]
  /\ found = [t \in Threads |-> Just(NoNode)]
  /\ answer = [t \in Threads |-> NoAnswer]
  /\ probes = Empty /\ listings = Empty /\ stats = Empty /\ nodes = Empty

GoTo(t, where) == pc' = [pc EXCEPT ![t] = where] /\ UNCHANGED <<call, found, answer>>

Finish(t, a) ==
  /\ pc' = [pc EXCEPT ![t] = "done"]
  /\ answer' = [answer EXCEPT ![t] = a]
  /\ found' = [found EXCEPT ![t] = Just(NoNode)]
  /\ UNCHANGED call

Carry(t, where, what) ==
  /\ pc' = [pc EXCEPT ![t] = where]
  /\ found' = [found EXCEPT ![t] = what]
  /\ UNCHANGED <<call, answer>>

KeyOf(t) == Key(call[t].part, call[t].path)

\* find_partition() and its type: only PFS main partitions go on.
EnterParser(t) ==
  IF call[t].part \in DOMAIN Roots THEN GoTo(t, "probe") ELSE Finish(t, Error)

\* A frontend calls; read_file() and export_to_host() check the partition
\* first of all.
Start(t, c) ==
  /\ pc[t] = "idle"
  /\ call' = [call EXCEPT ![t] = c]
  /\ pc' = [pc EXCEPT ![t] = CASE c.op = "browse" -> "listing"
                               [] c.op = "stat" -> "stat"
                               [] OTHER -> "enter"]
  /\ UNCHANGED <<device, found, answer, caches>>

Enter(t) ==
  /\ pc[t] = "enter"
  /\ EnterParser(t)
  /\ UNCHANGED <<device, caches>>

BrowseLookup(t) ==
  /\ pc[t] = "listing"
  /\ IF KeyOf(t) \in DOMAIN listings
       THEN Finish(t, Ok(listings[KeyOf(t)]))
       ELSE EnterParser(t)
  /\ UNCHANGED <<device, caches>>

StatLookup(t) ==
  /\ pc[t] = "stat"
  /\ IF KeyOf(t) \in DOMAIN stats
       THEN Finish(t, Ok(Just(stats[KeyOf(t)])))
       ELSE GoTo(t, "node")
  /\ UNCHANGED <<device, caches>>

\* stat() looks the node up in a second critical section ...
NodeLookup(t) ==
  /\ pc[t] = "node"
  /\ IF KeyOf(t) \in DOMAIN nodes
       THEN Carry(t, "keep", Just(nodes[KeyOf(t)]))
       ELSE EnterParser(t)
  /\ UNCHANGED <<device, caches>>

\* ... and keeps what it found in a third.
StatKeep(t) ==
  /\ pc[t] = "keep"
  /\ stats' \in BoundedStore(stats, KeyOf(t), found[t].node, MaxStats)
  /\ Finish(t, Ok(found[t]))
  /\ UNCHANGED <<device, probes, listings, nodes>>

\* Behind a valid probe: read_file() looks for the node first, and
\* export_to_host() goes past the caches.
AfterProbe(t, valid) ==
  IF ~ valid THEN Finish(t, Error)
  ELSE GoTo(t, CASE call[t].op = "read" -> "file"
                 [] call[t].op = "export" -> "export"
                 [] OTHER -> "parse")

ProbeLookup(t) ==
  /\ pc[t] = "probe"
  /\ IF call[t].part \in DOMAIN probes
       THEN AfterProbe(t, probes[call[t].part])
       ELSE GoTo(t, "probing")
  /\ UNCHANGED <<device, caches>>

\* pfs::probe() outside the lock.
Probe(t) ==
  /\ pc[t] = "probing"
  /\ \/ GoTo(t, "keepValid")
     \/ faulty /\ GoTo(t, "keepInvalid")
  /\ UNCHANGED <<device, caches>>

\* The result is kept whether it is valid or not.
ProbeKeep(t) ==
  /\ pc[t] \in {"keepValid", "keepInvalid"}
  /\ LET valid == pc[t] = "keepValid"
     IN  /\ probes' \in BoundedStore(probes, call[t].part, valid, MaxProbes)
         /\ AfterProbe(t, valid)
  /\ UNCHANGED <<device, listings, stats, nodes>>

FileLookup(t) ==
  /\ pc[t] = "file"
  /\ IF KeyOf(t) \in DOMAIN nodes
       THEN Carry(t, "data", Just(nodes[KeyOf(t)]))
       ELSE GoTo(t, "parse")
  /\ UNCHANGED <<device, caches>>

\* list_directory() and every child's inode: any of them may be lost.
ParseDirectory(t, node) ==
  \E lost \in SUBSET { Entries[node][i].node : i \in DOMAIN Entries[node] } :
    /\ lost # {} => faulty
    /\ Carry(t, "publish", [node |-> node, listing |-> Listing(node, lost)])

\* resolve(), and what browse() does after it.
Parse(t) ==
  LET c == call[t]
      node == Resolve(c.part, c.path) IN
  /\ pc[t] = "parse"
  /\ \/ (faulty \/ node = NoNode) /\ Finish(t, Error)
     \/ /\ node # NoNode
        /\ \/ c.op # "browse" /\ Carry(t, "publish", Just(node))
           \/ c.op = "browse" /\ Kind[node] # "dir" /\ Finish(t, Error)
           \/ c.op = "browse" /\ Kind[node] = "dir" /\ ParseDirectory(t, node)
  /\ UNCHANGED <<device, caches>>

\* browse() publishes nodes, stats and the listing in one critical section.
BrowsePublish(t) ==
  LET c == call[t] IN
  /\ pc[t] = "publish" /\ c.op = "browse"
  /\ nodes' \in StoreReadable(nodes, c.part, c.path, found[t], MaxNodes)
  /\ stats' \in StoreReadable(stats, c.part, c.path, found[t], MaxStats)
  /\ listings' \in BoundedStore(listings, KeyOf(t), found[t], MaxListings)
  /\ Finish(t, Ok(found[t]))
  /\ UNCHANGED <<device, probes>>

\* stat() and read_file() publish one node and one stat.
NodePublish(t) ==
  /\ pc[t] = "publish" /\ call[t].op # "browse"
  /\ nodes' \in BoundedStore(nodes, KeyOf(t), found[t].node, MaxNodes)
  /\ stats' \in BoundedStore(stats, KeyOf(t), found[t].node, MaxStats)
  /\ IF call[t].op = "stat" THEN Finish(t, Ok(found[t])) ELSE Carry(t, "data", found[t])
  /\ UNCHANGED <<device, probes, listings>>

\* The data of a regular file, read by its node.
ReadData(t) ==
  /\ pc[t] = "data"
  /\ LET regular == Kind[found[t].node] = "file"
     IN  \/ (faulty \/ ~ regular) /\ Finish(t, Error)
         \/ regular /\ Finish(t, Ok(found[t]))
  /\ UNCHANGED <<device, caches>>

\* pfs::export_to_host() as far as the session sees it: done or failed.
Export(t) ==
  LET node == Resolve(call[t].part, call[t].path) IN
  /\ pc[t] = "export"
  /\ \/ (faulty \/ node = NoNode) /\ Finish(t, Error)
     \/ node # NoNode /\ Finish(t, Ok(Just(node)))
  /\ UNCHANGED <<device, caches>>

Take(t) ==
  /\ pc[t] = "done"
  /\ pc' = [pc EXCEPT ![t] = "idle"]
  /\ call' = [call EXCEPT ![t] = NoCall]
  /\ answer' = [answer EXCEPT ![t] = NoAnswer]
  /\ UNCHANGED <<device, found, caches>>

ClearCaches ==
  /\ probes' = Empty /\ listings' = Empty /\ stats' = Empty /\ nodes' = Empty
  /\ UNCHANGED <<device, threadVars>>

\* The device stops or resumes answering.
Fault == ~ faulty /\ faulty' = TRUE /\ everFaulty' = TRUE /\ UNCHANGED <<threadVars, caches>>
Heal  == faulty /\ faulty' = FALSE /\ UNCHANGED <<everFaulty, threadVars, caches>>

Advance(t) ==
  \/ Enter(t) \/ BrowseLookup(t) \/ StatLookup(t) \/ NodeLookup(t) \/ StatKeep(t)
  \/ ProbeLookup(t) \/ Probe(t) \/ ProbeKeep(t) \/ FileLookup(t) \/ Parse(t)
  \/ BrowsePublish(t) \/ NodePublish(t) \/ ReadData(t) \/ Export(t)

Next ==
  \/ \E t \in Threads : \/ \E c \in Calls : Start(t, c)
                        \/ Advance(t)
                        \/ Take(t)
  \/ ClearCaches
  \/ Fault
  \/ Heal

Spec == Init /\ [][Next]_vars
-----------------------------------------------------------------------------
\* No cache outgrows its limit, also when one browse() stores many entries.
CachesWithinLimits ==
  /\ Cardinality(DOMAIN probes) <= MaxProbes
  /\ Cardinality(DOMAIN listings) <= MaxListings
  /\ Cardinality(DOMAIN stats) <= MaxStats
  /\ Cardinality(DOMAIN nodes) <= MaxNodes

TypeOK ==
  /\ CachesWithinLimits
  /\ faulty \in BOOLEAN /\ everFaulty \in BOOLEAN
  /\ call \in [Threads -> Calls \cup {NoCall}]
  /\ pc \in [Threads -> {"idle", "listing", "stat", "node", "keep", "enter", "probe", "probing",
                         "keepValid", "keepInvalid", "file", "parse", "publish", "data", "export", "done"}]
  /\ \A t \in Threads : answer[t].state \in {"pending", "error", "ok"}
  /\ \A t \in Threads : pc[t] \in {"keep", "data"} => found[t].node \in DOMAIN Kind
  /\ DOMAIN probes \subseteq DOMAIN Roots
  /\ \A k \in DOMAIN listings : Kind[Resolve(k[1], k[2])] = "dir"

\* The listing the parser would give, with some inodes flagged unreadable.
Shows(listing, true) ==
  /\ DOMAIN listing = DOMAIN true
  /\ \A i \in DOMAIN true : /\ listing[i].name = true[i].name
                            /\ listing[i].node \in {true[i].node, NoNode}

\* Every answer is the one the parser gives for that path without any cache,
\* whatever other calls, evictions and clears came between; only a device that
\* failed at some time explains a failure or an entry flagged unreadable.
AnswersAreTheParsers ==
  \A t \in Threads : pc[t] = "done" =>
    LET right == Parsed(call[t]) IN
    \/ answer[t] = right
    \/ everFaulty /\ answer[t] = Error
    \/ /\ everFaulty /\ call[t].op = "browse" /\ right # Error /\ answer[t] # Error
       /\ Shows(answer[t].listing, right.listing)

\* The caches memoize what the parser finds, across partitions and threads.
CachesAgreeWithParser ==
  /\ \A k \in DOMAIN nodes : nodes[k] = Resolve(k[1], k[2])
  /\ \A k \in DOMAIN stats : stats[k] = Resolve(k[1], k[2])
  /\ \A k \in DOMAIN listings : Shows(listings[k].listing, Listing(Resolve(k[1], k[2]), {}))
  /\ \A p \in DOMAIN probes : probes[p] \/ everFaulty

\* What architecture.md says the session retains: validated results.  A probe
\* that failed because the device did is retained as well.
RetainsValidatedResults == \A p \in DOMAIN probes : probes[p]
=============================================================================
