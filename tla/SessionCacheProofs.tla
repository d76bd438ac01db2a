------------------------- MODULE SessionCacheProofs -------------------------
(***************************************************************************)
(* Theorems about SessionCache, for any tree, any calls, any number of     *)
(* threads and any limits.                                                 *)
(*                                                                         *)
(* What a cache holds agrees with the parser (CacheInv), and so does what  *)
(* a thread has found and carries from one critical section to the next    *)
(* (Carries).  A browse stores a child under the path of its directory and *)
(* its name: that this is where the parser finds it needs names that       *)
(* differ within a directory and hold no separator (WellNamed).            *)
(*                                                                         *)
(* resolve() and the stores of a browse are folds.  What they preserve is  *)
(* shown by least counterexample (FirstOf, FoldOf).                        *)
(***************************************************************************)
EXTENDS SessionCache, FiniteSetTheorems, SequenceTheorems, TLAPS

\* The names of a directory lead each to one entry of it.  The parser refuses no
\* directory that breaks this.
WellNamed ==
  \A d \in DOMAIN Kind : Kind[d] = "dir" =>
    /\ \A i \in DOMAIN Entries[d] : Parts[Entries[d][i].name] = <<Entries[d][i].name>>
    /\ \A i, j \in DOMAIN Entries[d] : Entries[d][i].name = Entries[d][j].name => i = j

Keys == (DOMAIN Roots) \X Seq(DOMAIN Parts)

\* An inode kept under a key is one the parser finds there.
Agrees(k, node) ==
  /\ k \in Keys /\ node \in DOMAIN Kind
  /\ WellNamed => node = Resolve(k[1], k[2])

\* The maps node_cache_ and stat_cache_ can be.
Maps(max) ==
  { m \in UNION { [D -> DOMAIN Kind] : D \in SUBSET Keys } :
      /\ IsFiniteSet(DOMAIN m) /\ Cardinality(DOMAIN m) <= max
      /\ \A k \in DOMAIN m : Agrees(k, m[k]) }

\* A listing that is the parser's, up to inodes lost to a fault.
RightListing(k, f) ==
  /\ k \in Keys
  /\ f.node = Resolve(k[1], k[2]) /\ f.node \in DOMAIN Kind /\ Kind[f.node] = "dir"
  /\ Shows(f.listing, Listing(f.node, {}))
  /\ everFaulty \/ f.listing = Listing(f.node, {})

CacheInv ==
  /\ IsFiniteSet(DOMAIN probes) /\ Cardinality(DOMAIN probes) <= MaxProbes
  /\ \A p \in DOMAIN probes :
       p \in DOMAIN Roots /\ probes[p] \in BOOLEAN /\ (probes[p] \/ everFaulty)
  /\ IsFiniteSet(DOMAIN listings) /\ Cardinality(DOMAIN listings) <= MaxListings
  /\ \A k \in DOMAIN listings : RightListing(k, listings[k])
  /\ stats \in Maps(MaxStats) /\ nodes \in Maps(MaxNodes)

\* A browse and an export go by no node a cache holds.
Named(c) == WellNamed \/ c.op \in {"browse", "export"}

\* What a call may return: the parser's answer, or after a fault less of it.
RightAnswer(c, a) ==
  \/ a = Parsed(c)
  \/ everFaulty /\ a = Error
  \/ /\ everFaulty /\ c.op = "browse" /\ Parsed(c) # Error /\ a # Error
     /\ Shows(a.listing, Parsed(c).listing)

\* Where a thread is past find_partition(), or past a cache that was.
InPartition ==
  {"probe", "probing", "keepValid", "keepInvalid", "file", "parse", "publish", "export",
   "keep", "data"}
Places ==
  InPartition \cup {"idle", "listing", "stat", "node", "enter", "done"}

\* Which calls get where.
Fits(c, place) ==
  /\ place # "idle" => c \in Calls
  /\ place \in InPartition => c.part \in DOMAIN Roots
  /\ place = "listing" => c.op = "browse"
  /\ place \in {"stat", "node", "keep"} => c.op = "stat"
  /\ place \in {"file", "data"} => c.op = "read"
  /\ place = "export" => c.op = "export"
  /\ place \in {"parse", "publish"} => c.op \in {"browse", "stat", "read"}

\* What a call carries from one critical section to the next is still the
\* parser's, whatever happens to the caches meanwhile.
Carries(c, place, f) ==
  /\ place \in {"keep", "data"} => f = Just(f.node) /\ Agrees(Key(c.part, c.path), f.node)
  /\ place = "publish" =>
       IF c.op = "browse"
         THEN RightListing(Key(c.part, c.path), f)
         ELSE f = Just(Resolve(c.part, c.path)) /\ f.node \in DOMAIN Kind

\* The state of one thread.
ThreadAt(t) ==
  /\ Fits(call[t], pc[t])
  /\ Carries(call[t], pc[t], found[t])
  /\ pc[t] = "keepInvalid" => everFaulty
  /\ answer[t].state \in {"pending", "error", "ok"}
  /\ pc[t] = "done" => (Named(call[t]) => RightAnswer(call[t], answer[t]))

ThreadTypes ==
  /\ call \in [Threads -> Calls \cup {NoCall}]
  /\ pc \in [Threads -> Places]
  /\ found = [t \in Threads |-> found[t]]
  /\ answer = [t \in Threads |-> answer[t]]
ThreadInv == \A t \in Threads : ThreadAt(t)
FaultInv  == faulty \in BOOLEAN /\ everFaulty \in BOOLEAN /\ (faulty => everFaulty)

IInv == CacheInv /\ ThreadTypes /\ ThreadInv /\ FaultInv

(***************************************************************************)
(* Folds.                                                                  *)
(***************************************************************************)

\* A set of numbers with a member has a smallest one.
LEMMA SmallestOf ==
  ASSUME NEW S, S \subseteq Nat, S # {}
  PROVE  \E m \in S : \A j \in S : m <= j
<1> DEFINE less == {ss \in Nat \X Nat : ss[1] < ss[2]}
<1>1. less = OpToRel(<, Nat)
  BY Zenon DEF OpToRel
<1>2. IsWellFoundedOn(less, Nat)
  BY <1>1, NatLessThanWellFounded, Zenon
<1>3. PICK m \in S : \A y \in S : ~ (<<y, m>> \in less)
  BY <1>2, WFMin, Zenon
<1>4. ASSUME NEW y \in S PROVE m <= y
  <2>1. m \in Nat /\ y \in Nat
    OBVIOUS
  <2>2. y < m => <<y, m>> \in less
    BY <2>1
  <2> HIDE DEF less
  <2> QED BY <1>3, <2>1, <2>2
<1> QED BY <1>4

\* A set of counterexamples without 0 has a first one: the number before it is
\* none.
LEMMA FirstOf ==
  ASSUME NEW S, S \subseteq Nat, S # {}, 0 \notin S
  PROVE  \E m \in S : m - 1 \in Nat /\ m - 1 \notin S
<1>1. PICK m \in S : \A j \in S : m <= j
  BY SmallestOf
<1>2. m \in Nat /\ m # 0
  OBVIOUS
<1>3. m - 1 \in Nat /\ ~ (m <= m - 1)
  BY <1>2
<1> QED BY <1>1, <1>3

\* The largest number of an interval, and what is left without it.
LEMMA MaxOfInterval ==
  ASSUME NEW n \in Nat, NEW s \in SUBSET (1 .. n), n \in s
  PROVE  Max(s) = n
<1>1. \A y \in s : n >= y
  OBVIOUS
<1>2. Max(s) \in s /\ \A y \in s : Max(s) >= y
  BY <1>1 DEF Max
<1>3. PICK m : m = Max(s)
  OBVIOUS
<1>4. m \in s /\ n >= m /\ m >= n
  BY <1>1, <1>2, <1>3
<1> QED BY <1>3, <1>4

\* An interval from 1 is one that is shorter, and its largest number.
LEMMA IntervalGrows ==
  ASSUME NEW n \in Nat, NEW k \in 1 .. n
  PROVE  /\ 1 .. k \in SUBSET (1 .. n) /\ 1 .. k # {}
         /\ (1 .. k) \ {k} = 1 .. k - 1
         /\ Max(1 .. k) = k
<1>1. k \in Nat /\ k >= 1 /\ k <= n
  OBVIOUS
<1>2. 1 .. k \in SUBSET (1 .. n) /\ k \in 1 .. k
  BY <1>1
<1>3. ASSUME NEW x PROVE x \in (1 .. k) \ {k} <=> x \in 1 .. k - 1
  BY <1>1
<1>4. Max(1 .. k) = k
  BY <1>1, <1>2, MaxOfInterval
<1> QED BY <1>2, <1>3, <1>4

\* Numbers up to n have a largest.
LEMMA MaxOfNumbers ==
  ASSUME NEW n \in Nat, NEW u \in SUBSET (1 .. n), u # {}
  PROVE  Max(u) \in 1 .. n
<1> DEFINE down == { n - y : y \in u }
<1>1. down \subseteq Nat /\ down # {}
  <2>1. \A y \in u : n - y \in Nat
    OBVIOUS
  <2> QED BY <2>1
<1>2. PICK d \in down : \A j \in down : d <= j
  <2> HIDE DEF down
  <2> QED BY <1>1, SmallestOf
<1>3. PICK m \in u : d = n - m
  BY <1>2
<1>4. ASSUME NEW y \in u PROVE m >= y
  <2>1. n - m <= n - y
    BY <1>2, <1>3
  <2>2. m \in Nat /\ y \in Nat
    OBVIOUS
  <2> QED BY <2>1, <2>2
<1>5. Max(u) \in u
  BY <1>4 DEF Max
<1> QED BY <1>5

\* FoldLeft() goes over the numbers of a sequence by its largest.
HasFold(V, b, n, G) ==
  \E f \in [SUBSET (1 .. n) -> V] : \A s \in SUBSET (1 .. n) :
    f[s] = IF s = {} THEN b ELSE G[Max(s)][f[s \ {Max(s)}]]

\* Along the prefixes of the sequence it takes one step at a time.
StepsAlong(V, b, n, G, f) ==
  /\ \A k \in 0 .. n : f[1 .. k] \in V
  /\ f[1 .. 0] = b
  /\ \A k \in 1 .. n : f[1 .. k] = G[k][f[1 .. k - 1]]

\* Steps that stay in V have a fold.
LEMMA FoldOf ==
  ASSUME NEW V, NEW b \in V, NEW n \in Nat, NEW G \in [1 .. n -> [V -> V]]
  PROVE  HasFold(V, b, n, G)
<1> DEFINE Folds(f, m) ==
             \A s \in SUBSET (1 .. m) :
               f[s] = IF s = {} THEN b ELSE G[Max(s)][f[s \ {Max(s)}]]
           Good(m) == \E f \in [SUBSET (1 .. m) -> V] : Folds(f, m)
           bad == { m \in 0 .. n : ~ Good(m) }
<1>0. bad = {} => Good(n)
  <2> HIDE DEF Good
  <2> QED OBVIOUS
<1> SUFFICES ASSUME bad # {} PROVE FALSE
  BY <1>0 DEF HasFold
<1>1. 0 \notin bad
  <2> DEFINE f == [s \in SUBSET (1 .. 0) |-> b]
  <2>1. f \in [SUBSET (1 .. 0) -> V] /\ Folds(f, 0)
    <3>1. \A s \in SUBSET (1 .. 0) : s = {}
      OBVIOUS
    <3> QED BY <3>1
  <2> QED BY <2>1
<1>2. PICK m \in bad : m - 1 \in Nat /\ m - 1 \notin bad
  <2>1. bad \subseteq Nat
    OBVIOUS
  <2> HIDE DEF bad
  <2> QED BY <1>1, <2>1, FirstOf
<1>3. m \in 1 .. n /\ m - 1 \in 0 .. n
  BY <1>2
<1>4. PICK f \in [SUBSET (1 .. m - 1) -> V] : Folds(f, m - 1)
  BY <1>2, <1>3
<1> DEFINE g == [s \in SUBSET (1 .. m) |-> IF m \in s THEN G[m][f[s \ {m}]] ELSE f[s]]
<1>5. ASSUME NEW s \in SUBSET (1 .. m)
      PROVE  /\ m \in s => s \ {m} \in SUBSET (1 .. m - 1)
             /\ m \notin s => s \in SUBSET (1 .. m - 1)
  BY <1>3
<1>6. g \in [SUBSET (1 .. m) -> V]
  <2>1. G[m] \in [V -> V]
    BY <1>3
  <2> QED BY <1>5, <2>1
<1>7. ASSUME NEW s \in SUBSET (1 .. m)
      PROVE  g[s] = IF s = {} THEN b ELSE G[Max(s)][g[s \ {Max(s)}]]
  <2>1. CASE m \in s
    <3>1. Max(s) = m
      BY <1>3, <2>1, MaxOfInterval
    <3>2. s \ {m} \in SUBSET (1 .. m) /\ g[s \ {m}] = f[s \ {m}]
      BY <1>5, <2>1
    <3>3. g[s] = G[m][f[s \ {m}]] /\ s # {}
      BY <2>1
    <3> HIDE DEF g
    <3> QED BY <3>1, <3>2, <3>3
  <2>2. CASE m \notin s
    <3>1. s \in SUBSET (1 .. m - 1) /\ g[s] = f[s]
      BY <1>5, <2>2
    <3>2. s \ {Max(s)} \in SUBSET (1 .. m) /\ m \notin s \ {Max(s)}
      BY <2>2
    <3>3. g[s \ {Max(s)}] = f[s \ {Max(s)}]
      BY <3>2
    <3>4. f[s] = IF s = {} THEN b ELSE G[Max(s)][f[s \ {Max(s)}]]
      BY <1>4, <3>1
    <3> QED BY <3>1, <3>3, <3>4
  <2> QED BY <2>1, <2>2
<1> HIDE DEF g
<1>8. Folds(g, m)
  BY <1>7
<1>9. m \notin bad
  <2> HIDE DEF Folds
  <2> QED BY <1>6, <1>8
<1> QED BY <1>2, <1>9

\* A fold whose steps stay in V stays there along the whole sequence.
LEMMA FoldRuns ==
  ASSUME NEW V, NEW b \in V, NEW n \in Nat, NEW G \in [1 .. n -> [V -> V]], NEW f,
         f[{}] = b,
         \A k \in 1 .. n : f[1 .. k - 1] \in V => f[1 .. k] = G[k][f[1 .. k - 1]]
  PROVE  StepsAlong(V, b, n, G, f)
<1> DEFINE bad == { k \in 0 .. n : f[1 .. k] \notin V }
<1>1. f[1 .. 0] = b
  <2>1. 1 .. 0 = {}
    OBVIOUS
  <2> QED BY <2>1
<1>2. bad = {}
  <2> SUFFICES ASSUME bad # {} PROVE FALSE
    OBVIOUS
  <2>1. bad \subseteq Nat /\ 0 \notin bad
    BY <1>1
  <2>2. PICK m \in bad : m - 1 \in Nat /\ m - 1 \notin bad
    <3> HIDE DEF bad
    <3> QED BY <2>1, FirstOf
  <2>3. m \in 1 .. n /\ m - 1 \in 0 .. n
    BY <2>2
  <2>4. f[1 .. m - 1] \in V
    BY <2>2, <2>3
  <2>5. f[1 .. m] = G[m][f[1 .. m - 1]] /\ G[m] \in [V -> V]
    BY <2>3, <2>4
  <2> QED BY <2>2, <2>4, <2>5
<1>3. \A k \in 0 .. n : f[1 .. k] \in V
  BY <1>2
<1>4. \A k \in 1 .. n : f[1 .. k] = G[k][f[1 .. k - 1]]
  <2> TAKE k \in 1 .. n
  <2>1. k - 1 \in 0 .. n
    OBVIOUS
  <2> QED BY <1>3, <2>1
<1> QED BY <1>1, <1>3, <1>4 DEF StepsAlong

(***************************************************************************)
(* resolve().                                                              *)
(***************************************************************************)

Found == DOMAIN Kind \cup {NoNode}

\* One component of a path leads to an inode or to none.
LEMMA StepFinds ==
  ASSUME NEW dir \in Found, NEW name
  PROVE  Step(dir, name) \in Found
<1> DEFINE named == { i \in DOMAIN Entries[dir] : Entries[dir][i].name = name }
<1> SUFFICES ASSUME dir # NoNode, Kind[dir] = "dir", named # {}
             PROVE  Inode(Entries[dir][CHOOSE i \in named : \A j \in named : i <= j].node) \in Found
  BY DEF Step, Found
<1>1. Entries[dir] \in Seq([name : DOMAIN Parts, node : DOMAIN Kind])
  BY TreeFacts DEF Found
<1>2. named \subseteq Nat
  BY <1>1
<1>3. \E i \in named : \A j \in named : i <= j
  <2> HIDE DEF named
  <2> QED BY <1>2, SmallestOf
<1>4. (CHOOSE i \in named : \A j \in named : i <= j) \in named
  <2> HIDE DEF named
  <2> QED BY <1>3
<1>5. ASSUME NEW i \in named PROVE Entries[dir][i].node \in DOMAIN Kind
  <2>1. i \in DOMAIN Entries[dir]
    OBVIOUS
  <2> HIDE DEF named
  <2>2. PICK e : e = Entries[dir][i]
    OBVIOUS
  <2>3. DOMAIN Entries[dir] = 1 .. Len(Entries[dir])
    BY <1>1
  <2>4. e \in [name : DOMAIN Parts, node : DOMAIN Kind]
    BY <1>1, <2>1, <2>2, <2>3, ElementOfSeq, Zenon
  <2> QED BY <2>2, <2>4
<1> HIDE DEF named
<1> QED BY <1>4, <1>5 DEF Inode, Found

\* resolve() goes along a path from the root, one component at a time.
LEMMA ResolveWalks ==
  ASSUME NEW part \in DOMAIN Roots, NEW path \in Seq(DOMAIN Parts)
  PROVE  \E h \in [0 .. Len(path) -> Found] :
           /\ h[0] = Inode(Roots[part])
           /\ \A k \in 1 .. Len(path) : h[k] = Step(h[k - 1], path[k])
           /\ Resolve(part, path) = h[Len(path)]
<1> DEFINE n == Len(path)
           b == Inode(Roots[part])
           G == [k \in 1 .. n |-> [x \in Found |-> Step(x, path[k])]]
           Is(f) == f = [u \in SUBSET DOMAIN path |->
                           IF u = {} THEN b ELSE Step(f[u \ {Max(u)}], path[Max(u)])]
           it == CHOOSE f : Is(f)
<1>1. Resolve(part, path) = it[DOMAIN path]
  BY DEF Resolve, FoldLeft, MapThenFoldSet
<1>2. n \in Nat /\ DOMAIN path = 1 .. n
  OBVIOUS
<1>3. b \in Found
  BY TreeFacts DEF Inode, Found
<1>4. G \in [1 .. n -> [Found -> Found]]
  BY StepFinds
<1>5. ASSUME NEW u \in SUBSET (1 .. n), u # {}
      PROVE  Max(u) \in 1 .. n
  BY <1>2, <1>5, MaxOfNumbers
<1>6. \E f : Is(f)
  <2>1. PICK f \in [SUBSET (1 .. n) -> Found] : \A s \in SUBSET (1 .. n) :
           f[s] = IF s = {} THEN b ELSE G[Max(s)][f[s \ {Max(s)}]]
    <3>1. HasFold(Found, b, n, G)
      <4> HIDE DEF n, b, G
      <4> QED BY <1>2, <1>3, <1>4, FoldOf
    <3> QED BY <3>1 DEF HasFold
  <2>2. ASSUME NEW s \in SUBSET (1 .. n), s # {}
        PROVE  G[Max(s)][f[s \ {Max(s)}]] = Step(f[s \ {Max(s)}], path[Max(s)])
    <3>1. Max(s) \in 1 .. n /\ f[s \ {Max(s)}] \in Found
      BY <1>5, <2>2
    <3> QED BY <3>1
  <2> HIDE DEF n, b, G
  <2>3. \A s \in SUBSET (1 .. n) :
           f[s] = IF s = {} THEN b ELSE Step(f[s \ {Max(s)}], path[Max(s)])
    BY <2>1, <2>2
  <2>4. Is(f)
    BY <1>2, <2>1, <2>3
  <2> QED BY <2>4
<1>7. Is(it)
  <2> HIDE DEF Is
  <2> QED BY <1>6
<1> HIDE DEF it
<1>8. it[{}] = b
  BY <1>7
<1>9. ASSUME NEW k \in 1 .. n
      PROVE  it[1 .. k] = Step(it[1 .. k - 1], path[k])
  <2>1. /\ 1 .. k \in SUBSET (1 .. n) /\ 1 .. k # {} /\ (1 .. k) \ {k} = 1 .. k - 1
        /\ Max(1 .. k) = k
    BY <1>2, IntervalGrows
  <2> HIDE DEF b
  <2> QED BY <1>2, <1>7, <2>1
<1>10. StepsAlong(Found, b, n, G, it)
  <2>1. \A k \in 1 .. n : it[1 .. k - 1] \in Found => it[1 .. k] = G[k][it[1 .. k - 1]]
    BY <1>9
  <2> HIDE DEF n, b, G
  <2> QED BY <1>2, <1>3, <1>4, <1>8, <2>1, FoldRuns
<1> DEFINE h == [k \in 0 .. n |-> it[1 .. k]]
<1>11. h \in [0 .. n -> Found] /\ h[0] = b
  BY <1>10, <1>2 DEF StepsAlong
<1>12. ASSUME NEW k \in 1 .. n PROVE h[k] = Step(h[k - 1], path[k])
  <2>1. k - 1 \in 0 .. n /\ k \in 0 .. n
    BY <1>2
  <2> QED BY <1>9, <2>1
<1>13. Resolve(part, path) = h[n]
  BY <1>1, <1>2
<1> HIDE DEF h
<1> QED BY <1>11, <1>12, <1>13


\* The path of a child leads one step on from where its directory's does.
LEMMA ResolveChild ==
  ASSUME NEW part \in DOMAIN Roots, NEW path \in Seq(DOMAIN Parts), NEW name \in DOMAIN Parts
  PROVE  Resolve(part, path \o <<name>>) = Step(Resolve(part, path), name)
<1> DEFINE n == Len(path)
           child == path \o <<name>>
<1>1. /\ n \in Nat /\ child \in Seq(DOMAIN Parts) /\ Len(child) = n + 1 /\ child[n + 1] = name
      /\ \A k \in 1 .. n : child[k] = path[k]
  OBVIOUS
<1>2. PICK h \in [0 .. n -> Found] :
        /\ h[0] = Inode(Roots[part])
        /\ \A k \in 1 .. n : h[k] = Step(h[k - 1], path[k])
        /\ Resolve(part, path) = h[n]
  BY ResolveWalks
<1> HIDE DEF child
<1>3. PICK g \in [0 .. n + 1 -> Found] :
        /\ g[0] = Inode(Roots[part])
        /\ \A k \in 1 .. n + 1 : g[k] = Step(g[k - 1], child[k])
        /\ Resolve(part, child) = g[n + 1]
  <2>1. PICK g \in [0 .. Len(child) -> Found] :
          /\ g[0] = Inode(Roots[part])
          /\ \A k \in 1 .. Len(child) : g[k] = Step(g[k - 1], child[k])
          /\ Resolve(part, child) = g[Len(child)]
    BY <1>1, ResolveWalks
  <2> QED BY <1>1, <2>1
<1> DEFINE bad == { k \in 0 .. n : g[k] # h[k] }
<1>4. bad = {}
  <2> SUFFICES ASSUME bad # {} PROVE FALSE
    OBVIOUS
  <2>1. bad \subseteq Nat /\ 0 \notin bad
    BY <1>2, <1>3
  <2>2. PICK m \in bad : m - 1 \in Nat /\ m - 1 \notin bad
    <3> HIDE DEF bad
    <3> QED BY <2>1, FirstOf
  <2>3. m \in 1 .. n /\ m \in 1 .. n + 1 /\ m - 1 \in 0 .. n
    BY <1>1, <2>2
  <2>4. g[m - 1] = h[m - 1] /\ child[m] = path[m]
    BY <1>1, <2>2, <2>3
  <2>5. g[m] = Step(g[m - 1], child[m]) /\ h[m] = Step(h[m - 1], path[m])
    BY <1>2, <1>3, <2>3
  <2> QED BY <2>2, <2>4, <2>5
<1>5. g[n] = h[n]
  <2>1. n \in 0 .. n
    BY <1>1
  <2> QED BY <1>4, <2>1
<1>6. g[n + 1] = Step(g[n], name)
  <2>1. n + 1 \in 1 .. n + 1 /\ (n + 1) - 1 = n
    BY <1>1
  <2> QED BY <1>1, <1>3, <2>1
<1> QED BY <1>2, <1>3, <1>5, <1>6 DEF child

\* In a directory with good names, a name leads to its entry.
LEMMA NameLeads ==
  ASSUME WellNamed, NEW d \in DOMAIN Kind, Kind[d] = "dir", NEW i \in DOMAIN Entries[d]
  PROVE  Step(d, Entries[d][i].name) = Inode(Entries[d][i].node)
<1> DEFINE named == { j \in DOMAIN Entries[d] : Entries[d][j].name = Entries[d][i].name }
<1>1. d # NoNode
  BY TreeFacts DEF NoNode
<1>2. named = {i}
  BY DEF WellNamed
<1>3. i \in Nat
  <2>1. Entries[d] \in Seq([name : DOMAIN Parts, node : DOMAIN Kind])
    BY TreeFacts
  <2> QED BY <2>1
<1>4. (CHOOSE j \in named : \A k \in named : j <= k) = i
  <2> HIDE DEF named
  <2> QED BY <1>2, <1>3
<1> QED BY <1>1, <1>2, <1>4 DEF Step

\* What a listing shows of an entry is where the parser finds it.
LEMMA ChildAgrees ==
  ASSUME NEW part, NEW path, NEW f, RightListing(<<part, path>>, f),
         NEW i \in DOMAIN f.listing, f.listing[i].node # NoNode
  PROVE  Agrees(ChildKey(part, path, f.listing[i].name), f.listing[i].node)
<1> DEFINE dir == f.node
           e == Entries[dir][i]
<1>1. /\ part \in DOMAIN Roots /\ path \in Seq(DOMAIN Parts)
      /\ dir \in DOMAIN Kind /\ Kind[dir] = "dir" /\ dir = Resolve(part, path)
  BY DEF RightListing, Keys
<1>2. /\ DOMAIN f.listing = DOMAIN Entries[dir]
      /\ f.listing[i].name = e.name
      /\ f.listing[i].node \in {Inode(e.node), NoNode}
  BY DEF RightListing, Shows, Listing
<1>3. e \in [name : DOMAIN Parts, node : DOMAIN Kind]
  <2>1. Entries[dir] \in Seq([name : DOMAIN Parts, node : DOMAIN Kind])
    BY <1>1, TreeFacts
  <2>2. i \in 1 .. Len(Entries[dir])
    BY <1>2, <2>1
  <2> QED BY <2>1, <2>2, ElementOfSeq, Zenon
<1>4. f.listing[i].node = Inode(e.node) /\ Inode(e.node) \in DOMAIN Kind
  BY <1>2, <1>3 DEF Inode
<1>5. <<part, path \o Parts[e.name]>> \in Keys
  <2>1. Parts[e.name] \in Seq(DOMAIN Parts)
    BY <1>3, TreeFacts
  <2>2. path \o Parts[e.name] \in Seq(DOMAIN Parts)
    BY <1>1, <2>1, ConcatProperties, Zenon
  <2> QED BY <1>1, <2>2, Zenon DEF Keys
<1>6. ASSUME WellNamed PROVE Inode(e.node) = Resolve(part, path \o Parts[e.name])
  <2>1. Parts[e.name] = <<e.name>>
    BY <1>1, <1>2, <1>6 DEF WellNamed
  <2>2. Step(dir, e.name) = Inode(e.node)
    BY <1>1, <1>2, <1>6, NameLeads
  <2>3. Resolve(part, path \o <<e.name>>) = Step(dir, e.name)
    BY <1>1, <1>3, ResolveChild
  <2> QED BY <2>1, <2>2, <2>3
<1> HIDE DEF e, dir
<1> QED BY <1>2, <1>4, <1>5, <1>6 DEF Agrees, ChildKey, Key

(***************************************************************************)
(* The caches.                                                             *)
(***************************************************************************)

\* bounded_store() keeps what it evicts nothing of, adds one entry and stays
\* within the limit.
LEMMA StoreStaysBounded ==
  ASSUME NEW map, NEW k, NEW v, NEW max \in Nat \ {0},
         IsFiniteSet(DOMAIN map), Cardinality(DOMAIN map) <= max,
         NEW m \in BoundedStore(map, k, v, max)
  PROVE  /\ IsFiniteSet(DOMAIN m) /\ Cardinality(DOMAIN m) <= max
         /\ m = [x \in DOMAIN m |-> m[x]]
         /\ \A x \in DOMAIN m : (x = k /\ m[x] = v) \/ (x \in DOMAIN map /\ m[x] = map[x])
<1>1. Cardinality(DOMAIN map) \in Nat
  BY FS_CardinalityType
<1>2. CASE k \notin DOMAIN map /\ Cardinality(DOMAIN map) >= max
  <2>1. PICK e \in DOMAIN map : m = Put([x \in DOMAIN map \ {e} |-> map[x]], k, v)
    BY <1>2 DEF BoundedStore
  <2>2. DOMAIN m = (DOMAIN map \ {e}) \cup {k}
    BY <2>1 DEF Put
  <2>3. IsFiniteSet(DOMAIN map \ {e})
        /\ Cardinality(DOMAIN map \ {e}) = Cardinality(DOMAIN map) - 1
    BY FS_RemoveElement
  <2>4. IsFiniteSet(DOMAIN m) /\ Cardinality(DOMAIN m) = Cardinality(DOMAIN map)
    <3>1. k \notin DOMAIN map \ {e}
      BY <1>2
    <3> DEFINE D == DOMAIN map \ {e}
    <3>2. IsFiniteSet(D \cup {k}) /\ Cardinality(D \cup {k}) = Cardinality(D) + 1
      <4> HIDE DEF D
      <4> QED BY <2>3, <3>1, FS_AddElement DEF D
    <3>3. Cardinality(D) + 1 = Cardinality(DOMAIN map)
      BY <1>1, <2>3
    <3> QED BY <2>2, <3>2, <3>3
  <2>5. \A x \in DOMAIN m : m[x] = IF x = k THEN v ELSE map[x]
    BY <2>1 DEF Put
  <2> QED BY <2>1, <2>2, <2>4, <2>5 DEF Put
<1>3. CASE ~ (k \notin DOMAIN map /\ Cardinality(DOMAIN map) >= max)
  <2>1. m = Put(map, k, v)
    BY <1>3 DEF BoundedStore
  <2>2. DOMAIN m = DOMAIN map \cup {k}
    BY <2>1 DEF Put
  <2>3. IsFiniteSet(DOMAIN m) /\ Cardinality(DOMAIN m) <= max
    <3>1. IsFiniteSet(DOMAIN m)
          /\ Cardinality(DOMAIN m) = IF k \in DOMAIN map THEN Cardinality(DOMAIN map)
                                     ELSE Cardinality(DOMAIN map) + 1
      BY <2>2, FS_AddElement
    <3> QED BY <1>1, <1>3, <3>1
  <2>4. \A x \in DOMAIN m : m[x] = IF x = k THEN v ELSE map[x]
    BY <2>1 DEF Put
  <2> QED BY <2>1, <2>2, <2>3, <2>4 DEF Put
<1> QED BY <1>2, <1>3

\* An inode that agrees can be stored.
LEMMA StoreAgrees ==
  ASSUME NEW max \in Nat \ {0}, NEW map \in Maps(max), NEW k, NEW node, Agrees(k, node)
  PROVE  BoundedStore(map, k, node, max) \in SUBSET Maps(max)
<1> SUFFICES ASSUME NEW m \in BoundedStore(map, k, node, max) PROVE m \in Maps(max)
  OBVIOUS
<1>1. IsFiniteSet(DOMAIN map) /\ Cardinality(DOMAIN map) <= max
      /\ \A x \in DOMAIN map : Agrees(x, map[x])
  BY DEF Maps
<1>2. /\ IsFiniteSet(DOMAIN m) /\ Cardinality(DOMAIN m) <= max
      /\ m = [x \in DOMAIN m |-> m[x]]
      /\ \A x \in DOMAIN m : (x = k /\ m[x] = node) \/ (x \in DOMAIN map /\ m[x] = map[x])
  BY <1>1, StoreStaysBounded
<1>3. \A x \in DOMAIN m : Agrees(x, m[x])
  BY <1>1, <1>2
<1>4. DOMAIN m \in SUBSET Keys /\ m \in [DOMAIN m -> DOMAIN Kind]
  BY <1>2, <1>3 DEF Agrees
<1> QED BY <1>2, <1>3, <1>4 DEF Maps


\* What browse() stores in node_cache_ and stat_cache_ agrees with the parser,
\* whatever the stores of one listing evict.
LEMMA ReadableStored ==
  ASSUME NEW max \in Nat \ {0}, NEW map \in Maps(max), NEW part, NEW path, NEW f,
         RightListing(<<part, path>>, f)
  PROVE  StoreReadable(map, part, path, f, max) \in SUBSET Maps(max)
<1> DEFINE seq == f.listing
           n == Len(Entries[f.node])
           V == SUBSET Maps(max)
           b == BoundedStore(map, Key(part, path), f.node, max)
           Stored(maps, e) ==
             IF e.node = NoNode THEN maps
             ELSE UNION { BoundedStore(m, ChildKey(part, path, e.name), e.node, max) : m \in maps }
           G == [k \in 1 .. n |-> [maps \in V |-> Stored(maps, seq[k])]]
           Is(g) == g = [u \in SUBSET DOMAIN seq |->
                           IF u = {} THEN b ELSE Stored(g[u \ {Max(u)}], seq[Max(u)])]
           it == CHOOSE g : Is(g)
<1>1. StoreReadable(map, part, path, f, max) = it[DOMAIN seq]
  BY DEF StoreReadable, FoldLeft, MapThenFoldSet
<1>2. n \in Nat /\ DOMAIN seq = 1 .. n
  <2>1. Entries[f.node] \in Seq([name : DOMAIN Parts, node : DOMAIN Kind])
    BY TreeFacts DEF RightListing
  <2>2. DOMAIN seq = DOMAIN Entries[f.node]
    BY DEF RightListing, Shows, Listing
  <2> QED BY <2>1, <2>2
<1>3. b \in V
  <2>1. Agrees(Key(part, path), f.node)
    BY DEF RightListing, Agrees, Key
  <2> QED BY <2>1, StoreAgrees
<1>4. G \in [1 .. n -> [V -> V]]
  <2> SUFFICES ASSUME NEW k \in 1 .. n, NEW maps \in V PROVE Stored(maps, seq[k]) \in V
    BY Zenon
  <2>1. CASE seq[k].node = NoNode
    BY <2>1
  <2>2. CASE seq[k].node # NoNode
    <3>1. Agrees(ChildKey(part, path, seq[k].name), seq[k].node)
      BY <1>2, <2>2, ChildAgrees
    <3>2. \A m \in maps :
            BoundedStore(m, ChildKey(part, path, seq[k].name), seq[k].node, max) \in V
      BY <3>1, StoreAgrees
    <3> QED BY <2>2, <3>2
  <2> QED BY <2>1, <2>2
<1> HIDE DEF n, b, V, Stored, seq
<1>5. \E g : Is(g)
  <2>1. HasFold(V, b, n, G)
    <3> HIDE DEF G
    <3> QED BY <1>2, <1>3, <1>4, FoldOf
  <2>2. PICK g \in [SUBSET (1 .. n) -> V] : \A s \in SUBSET (1 .. n) :
           g[s] = IF s = {} THEN b ELSE G[Max(s)][g[s \ {Max(s)}]]
    BY <2>1 DEF HasFold
  <2>3. ASSUME NEW s \in SUBSET (1 .. n), s # {}
        PROVE  G[Max(s)][g[s \ {Max(s)}]] = Stored(g[s \ {Max(s)}], seq[Max(s)])
    <3>1. Max(s) \in 1 .. n /\ g[s \ {Max(s)}] \in V
      BY <1>2, <2>3, MaxOfNumbers
    <3> QED BY <3>1
  <2>4. \A s \in SUBSET (1 .. n) :
           g[s] = IF s = {} THEN b ELSE Stored(g[s \ {Max(s)}], seq[Max(s)])
    <3> HIDE DEF G
    <3> QED BY <2>2, <2>3
  <2>5. Is(g)
    BY <1>2, <2>2, <2>4
  <2> QED BY <2>5
<1>6. Is(it)
  <2> HIDE DEF Is
  <2> QED BY <1>5
<1> HIDE DEF it
<1>7. it[{}] = b
  BY <1>6
<1>8. ASSUME NEW k \in 1 .. n
      PROVE  it[1 .. k] = Stored(it[1 .. k - 1], seq[k])
  <2>1. /\ 1 .. k \in SUBSET (1 .. n) /\ 1 .. k # {} /\ (1 .. k) \ {k} = 1 .. k - 1
        /\ Max(1 .. k) = k
    BY <1>2, IntervalGrows
  <2> QED BY <1>2, <1>6, <2>1
<1>9. StepsAlong(V, b, n, G, it)
  <2>1. \A k \in 1 .. n : it[1 .. k - 1] \in V => it[1 .. k] = G[k][it[1 .. k - 1]]
    BY <1>8
  <2> HIDE DEF G
  <2> QED BY <1>2, <1>3, <1>4, <1>7, <2>1, FoldRuns
<1>10. it[1 .. n] \in V
  <2>1. n \in 0 .. n
    BY <1>2
  <2> QED BY <1>9, <2>1 DEF StepsAlong
<1> QED BY <1>1, <1>2, <1>10 DEF V


(***************************************************************************)
(* Answers.                                                                *)
(***************************************************************************)

\* A failure is right when the parser fails or the device did.
LEMMA ErrorIsRight ==
  ASSUME NEW c, everFaulty \/ Resolve(c.part, c.path) = NoNode
                  \/ (c.op = "browse" /\ Kind[Resolve(c.part, c.path)] # "dir")
                  \/ (c.op = "read" /\ Kind[Resolve(c.part, c.path)] # "file")
  PROVE  RightAnswer(c, Error) /\ Error.state = "error"
BY DEF RightAnswer, Parsed, Error

\* An inode is right when the parser finds it, for read() a regular file.
LEMMA NodeIsRight ==
  ASSUME NEW c, NEW node, node = Resolve(c.part, c.path), node # NoNode,
         \/ c.op \in {"stat", "export"}
         \/ c.op = "read" /\ Kind[node] = "file"
  PROVE  RightAnswer(c, Ok(Just(node)))
BY DEF RightAnswer, Parsed

\* A listing is right when it is the parser's, or after a fault shows it.
LEMMA ListingIsRight ==
  ASSUME NEW c, c.op = "browse", NEW f, RightListing(Key(c.part, c.path), f)
  PROVE  RightAnswer(c, Ok(f))
<1> DEFINE node == Resolve(c.part, c.path)
<1>1. f.node = node /\ node # NoNode /\ Kind[node] = "dir"
  BY TreeFacts DEF RightListing, Key, NoNode
<1>2. Parsed(c) = Ok([node |-> node, listing |-> Listing(node, {})])
  BY <1>1 DEF Parsed
<1>3. CASE f.listing = Listing(node, {})
  BY <1>1, <1>2, <1>3 DEF RightAnswer, Ok
<1>4. CASE f.listing # Listing(node, {})
  <2>1. everFaulty /\ Shows(f.listing, Listing(node, {}))
    BY <1>1, <1>4 DEF RightListing
  <2>2. Parsed(c) # Error /\ Ok(f) # Error
    BY <1>2 DEF Ok, Error
  <2>3. Ok(f).listing = f.listing /\ Parsed(c).listing = Listing(node, {})
    BY <1>2 DEF Ok
  <2> QED BY <2>1, <2>2, <2>3 DEF RightAnswer
<1> QED BY <1>3, <1>4

(***************************************************************************)
(* Steps of a thread.                                                      *)
(***************************************************************************)

\* A step of thread t leaves it making call c at a place, having found f and
\* answered a.
Leaves(t, c, place, f, a) ==
  /\ call' = [call EXCEPT ![t] = c]
  /\ pc' = [pc EXCEPT ![t] = place]
  /\ found' = [found EXCEPT ![t] = f]
  /\ answer' = [answer EXCEPT ![t] = a]

Threaded == ThreadTypes /\ ThreadInv /\ FaultInv

\* Such a step keeps the threads right when it leaves t so.
LEMMA ThreadSteps ==
  ASSUME Threaded, NEW t \in Threads, NEW c \in Calls \cup {NoCall}, NEW place \in Places,
         NEW f, NEW a, Leaves(t, c, place, f, a), UNCHANGED device,
         Fits(c, place), Carries(c, place, f), place = "keepInvalid" => everFaulty,
         a.state \in {"pending", "error", "ok"},
         place = "done" => (Named(c) => RightAnswer(c, a))
  PROVE  Threaded'
<1>1. everFaulty' = everFaulty /\ FaultInv'
  BY DEF Threaded, FaultInv, device
<1>2. ThreadTypes'
  BY DEF Threaded, ThreadTypes, Leaves
<1>3. ASSUME NEW u \in Threads PROVE ThreadAt(u)'
  <2>1. CASE u = t
    <3>1. call'[u] = c /\ pc'[u] = place /\ found'[u] = f /\ answer'[u] = a
      BY <2>1 DEF Threaded, ThreadTypes, Leaves
    <3> QED BY <1>1, <3>1 DEF ThreadAt, Fits, Carries, RightAnswer, RightListing
  <2>2. CASE u # t
    <3>1. call'[u] = call[u] /\ pc'[u] = pc[u] /\ found'[u] = found[u] /\ answer'[u] = answer[u]
      BY <2>2 DEF Threaded, ThreadTypes, Leaves
    <3>2. ThreadAt(u)
      BY DEF Threaded, ThreadInv
    <3> QED BY <1>1, <3>1, <3>2 DEF ThreadAt, Fits, Carries, RightAnswer, RightListing
  <2> QED BY <2>1, <2>2
<1> QED BY <1>1, <1>2, <1>3 DEF Threaded, ThreadInv

\* A call returns.
LEMMA CallFinishes ==
  ASSUME Threaded, NEW t \in Threads, pc[t] # "idle", NEW a, Finish(t, a), UNCHANGED device,
         a.state \in {"error", "ok"}, Named(call[t]) => RightAnswer(call[t], a)
  PROVE  Threaded'
<1>1. Leaves(t, call[t], "done", Just(NoNode), a)
  BY DEF Finish, Leaves, Threaded, ThreadTypes
<1>2. Fits(call[t], "done")
  <2>1. call[t] \in Calls
    BY DEF Threaded, ThreadInv, ThreadAt, Fits
  <2> QED BY <2>1 DEF Fits, InPartition
<1>3. Carries(call[t], "done", Just(NoNode))
  BY DEF Carries
<1>4. call[t] \in Calls \cup {NoCall} /\ "done" \in Places
  BY DEF Threaded, ThreadTypes, Places
<1> QED BY <1>1, <1>2, <1>3, <1>4, ThreadSteps

\* A call goes on to a place where it carries nothing.
LEMMA CallGoesOn ==
  ASSUME Threaded, NEW t \in Threads, NEW place \in Places \ {"done", "keep", "data", "publish"},
         GoTo(t, place), UNCHANGED device,
         Fits(call[t], place), place = "keepInvalid" => everFaulty
  PROVE  Threaded'
<1>1. Leaves(t, call[t], place, found[t], answer[t])
  BY DEF GoTo, Leaves, Threaded, ThreadTypes
<1>2. Carries(call[t], place, found[t])
  BY DEF Carries
<1>3. call[t] \in Calls \cup {NoCall} /\ answer[t].state \in {"pending", "error", "ok"}
  BY DEF Threaded, ThreadTypes, ThreadInv, ThreadAt
<1> QED BY <1>1, <1>2, <1>3, ThreadSteps

\* A call goes on with what it found.
LEMMA CallCarriesOn ==
  ASSUME Threaded, NEW t \in Threads, NEW place \in {"keep", "data", "publish"}, NEW f,
         Carry(t, place, f), UNCHANGED device, Fits(call[t], place), Carries(call[t], place, f)
  PROVE  Threaded'
<1>1. Leaves(t, call[t], place, f, answer[t])
  BY DEF Carry, Leaves, Threaded, ThreadTypes
<1>2. call[t] \in Calls \cup {NoCall} /\ answer[t].state \in {"pending", "error", "ok"}
      /\ place \in Places
  BY DEF Threaded, ThreadTypes, ThreadInv, ThreadAt, Places, InPartition
<1> QED BY <1>1, <1>2, ThreadSteps


\* Past find_partition() a call is in a PFS partition; if it gets no further,
\* so does the parser.
LEMMA EnterStep ==
  ASSUME Threaded, NEW t \in Threads, pc[t] # "idle", EnterParser(t), UNCHANGED device
  PROVE  Threaded'
<1>1. call[t] \in Calls
  BY DEF Threaded, ThreadInv, ThreadAt, Fits
<1>2. CASE call[t].part \in DOMAIN Roots
  <2>1. GoTo(t, "probe")
    BY <1>2 DEF EnterParser
  <2>2. Fits(call[t], "probe") /\ "probe" \in Places \ {"done", "keep", "data", "publish"}
    BY <1>1, <1>2 DEF Fits, Places, InPartition
  <2> QED BY <2>1, <2>2, CallGoesOn
<1>3. CASE call[t].part \notin DOMAIN Roots
  <2>1. Finish(t, Error)
    BY <1>3 DEF EnterParser
  <2>2. RightAnswer(call[t], Error) /\ Error.state = "error"
    <3>1. Resolve(call[t].part, call[t].path) = NoNode
      BY <1>3 DEF Resolve
    <3> QED BY <3>1, ErrorIsRight
  <2> QED BY <2>1, <2>2, CallFinishes
<1> QED BY <1>2, <1>3

\* Behind its probe a call goes on if the probe is valid; an invalid one comes
\* of a fault.
LEMMA AfterProbeStep ==
  ASSUME Threaded, NEW t \in Threads, pc[t] \in {"probe", "keepValid", "keepInvalid"},
         NEW valid, valid \/ everFaulty, AfterProbe(t, valid), UNCHANGED device
  PROVE  Threaded'
<1>1. call[t] \in Calls /\ call[t].part \in DOMAIN Roots
  BY DEF Threaded, ThreadInv, ThreadAt, Fits, InPartition
<1>2. CASE ~ valid
  <2>1. Finish(t, Error)
    BY <1>2 DEF AfterProbe
  <2>2. RightAnswer(call[t], Error) /\ Error.state = "error"
    BY <1>2, ErrorIsRight
  <2> QED BY <2>1, <2>2, CallFinishes
<1>3. CASE valid
  <2> DEFINE place == CASE call[t].op = "read" -> "file"
                        [] call[t].op = "export" -> "export"
                        [] OTHER -> "parse"
  <2>1. GoTo(t, place)
    BY <1>3 DEF AfterProbe
  <2>2. call[t].op \in {"browse", "stat", "read", "export"}
    BY <1>1, CallFacts
  <2>3. Fits(call[t], place) /\ place \in Places \ {"done", "keep", "data", "publish"}
        /\ place # "keepInvalid"
    BY <1>1, <2>2 DEF Fits, Places, InPartition
  <2> HIDE DEF place
  <2> QED BY <2>1, <2>3, CallGoesOn
<1> QED BY <1>2, <1>3

\* Stored entries stay right when the caches do.
LEMMA CachesStay ==
  ASSUME CacheInv, UNCHANGED device, UNCHANGED caches
  PROVE  CacheInv'
BY DEF CacheInv, caches, device, RightListing

\* What a thread knows where it is.
LEMMA ThreadKnows ==
  ASSUME Threaded, NEW t \in Threads
  PROVE  /\ Fits(call[t], pc[t]) /\ Carries(call[t], pc[t], found[t])
         /\ pc[t] = "keepInvalid" => everFaulty
         /\ faulty => everFaulty
BY DEF Threaded, ThreadInv, ThreadAt, FaultInv

\* A node kept under a key of the call.
LEMMA NodeKept ==
  ASSUME NEW c, NEW map, NEW max, map \in Maps(max), Key(c.part, c.path) \in DOMAIN map
  PROVE  /\ Agrees(Key(c.part, c.path), map[Key(c.part, c.path)])
         /\ c.part \in DOMAIN Roots
BY DEF Maps, Agrees, Keys, Key

\* Of a node that agrees, a call may answer what it is.
LEMMA AgreedIsRight ==
  ASSUME WellNamed, NEW c, NEW node, Agrees(Key(c.part, c.path), node),
         \/ c.op \in {"stat", "export"}
         \/ c.op = "read" /\ Kind[node] = "file"
  PROVE  RightAnswer(c, Ok(Just(node)))
<1>1. node = Resolve(c.part, c.path) /\ node # NoNode
  BY TreeFacts DEF Agrees, Key, NoNode
<1> QED BY <1>1, NodeIsRight

(***************************************************************************)
(* The steps that read the caches.                                         *)
(***************************************************************************)

LEMMA StartStep ==
  ASSUME IInv, NEW t \in Threads, NEW c \in Calls, Start(t, c)
  PROVE  IInv'
<1> DEFINE place == CASE c.op = "browse" -> "listing"
                      [] c.op = "stat" -> "stat"
                      [] OTHER -> "enter"
<1>1. Threaded /\ UNCHANGED device
  BY DEF IInv, Threaded, Start
<1>2. Leaves(t, c, place, found[t], answer[t])
  BY <1>1 DEF Start, Leaves, Threaded, ThreadTypes
<1>3. Fits(c, place) /\ Carries(c, place, found[t]) /\ place \in Places
      /\ place \notin {"keepInvalid", "done"}
  BY DEF Fits, Carries, Places, InPartition
<1>4. answer[t].state \in {"pending", "error", "ok"}
  BY <1>1 DEF Threaded, ThreadInv, ThreadAt
<1> HIDE DEF place
<1>5. Threaded'
  BY <1>1, <1>2, <1>3, <1>4, ThreadSteps
<1>6. CacheInv'
  BY CachesStay DEF IInv, Start
<1> QED BY <1>5, <1>6 DEF IInv, Threaded

LEMMA EnterMoves ==
  ASSUME IInv, NEW t \in Threads, Enter(t)
  PROVE  IInv'
<1>1. Threaded'
  BY EnterStep DEF IInv, Threaded, Enter
<1>2. CacheInv'
  BY CachesStay DEF IInv, Enter
<1> QED BY <1>1, <1>2 DEF IInv, Threaded

LEMMA BrowseLookupStep ==
  ASSUME IInv, NEW t \in Threads, BrowseLookup(t)
  PROVE  IInv'
<1> SUFFICES Threaded'
  BY CachesStay DEF IInv, Threaded, BrowseLookup
<1>1. Threaded /\ UNCHANGED device /\ pc[t] = "listing"
  BY DEF IInv, Threaded, BrowseLookup
<1>2. CASE KeyOf(t) \in DOMAIN listings
  <2>1. Finish(t, Ok(listings[KeyOf(t)]))
    BY <1>2 DEF BrowseLookup
  <2>2. RightListing(Key(call[t].part, call[t].path), listings[KeyOf(t)])
    BY <1>2 DEF IInv, CacheInv, KeyOf
  <2>3. call[t].op = "browse"
    BY <1>1, ThreadKnows DEF Fits
  <2>4. RightAnswer(call[t], Ok(listings[KeyOf(t)]))
    BY <2>2, <2>3, ListingIsRight
  <2>5. Ok(listings[KeyOf(t)]).state = "ok"
    BY DEF Ok
  <2> QED BY <1>1, <2>1, <2>4, <2>5, CallFinishes
<1>3. CASE KeyOf(t) \notin DOMAIN listings
  BY <1>1, <1>3, EnterStep DEF BrowseLookup
<1> QED BY <1>2, <1>3

LEMMA StatLookupStep ==
  ASSUME IInv, NEW t \in Threads, StatLookup(t)
  PROVE  IInv'
<1> SUFFICES Threaded'
  BY CachesStay DEF IInv, Threaded, StatLookup
<1>1. Threaded /\ UNCHANGED device /\ pc[t] = "stat"
  BY DEF IInv, Threaded, StatLookup
<1>2. call[t].op = "stat" /\ call[t] \in Calls
  BY <1>1, ThreadKnows DEF Fits
<1>3. CASE KeyOf(t) \in DOMAIN stats
  <2> DEFINE node == stats[KeyOf(t)]
  <2>1. Finish(t, Ok(Just(node)))
    BY <1>3 DEF StatLookup
  <2>2. Agrees(Key(call[t].part, call[t].path), node)
    BY <1>3, NodeKept DEF IInv, CacheInv, KeyOf
  <2>3. Named(call[t]) => RightAnswer(call[t], Ok(Just(node)))
    BY <1>2, <2>2, AgreedIsRight DEF Named
  <2>4. Ok(Just(node)).state = "ok"
    BY DEF Ok
  <2> QED BY <1>1, <2>1, <2>3, <2>4, CallFinishes
<1>4. CASE KeyOf(t) \notin DOMAIN stats
  <2>1. GoTo(t, "node")
    BY <1>4 DEF StatLookup
  <2>2. Fits(call[t], "node") /\ "node" \in Places \ {"done", "keep", "data", "publish"}
    BY <1>2 DEF Fits, Places, InPartition
  <2> QED BY <1>1, <2>1, <2>2, CallGoesOn
<1> QED BY <1>3, <1>4

LEMMA NodeLookupStep ==
  ASSUME IInv, NEW t \in Threads, NodeLookup(t)
  PROVE  IInv'
<1> SUFFICES Threaded'
  BY CachesStay DEF IInv, Threaded, NodeLookup
<1>1. Threaded /\ UNCHANGED device /\ pc[t] = "node"
  BY DEF IInv, Threaded, NodeLookup
<1>2. call[t].op = "stat" /\ call[t] \in Calls
  BY <1>1, ThreadKnows DEF Fits
<1>3. CASE KeyOf(t) \in DOMAIN nodes
  <2> DEFINE node == nodes[KeyOf(t)]
  <2>1. Carry(t, "keep", Just(node))
    BY <1>3 DEF NodeLookup
  <2>2. Agrees(Key(call[t].part, call[t].path), node) /\ call[t].part \in DOMAIN Roots
    BY <1>3, NodeKept DEF IInv, CacheInv, KeyOf
  <2>3. Fits(call[t], "keep")
    BY <1>2, <2>2 DEF Fits, InPartition
  <2>4. Carries(call[t], "keep", Just(node))
    BY <2>2 DEF Carries, Just
  <2> QED BY <1>1, <2>1, <2>3, <2>4, CallCarriesOn
<1>4. CASE KeyOf(t) \notin DOMAIN nodes
  BY <1>1, <1>4, EnterStep DEF NodeLookup
<1> QED BY <1>3, <1>4

LEMMA ProbeLookupStep ==
  ASSUME IInv, NEW t \in Threads, ProbeLookup(t)
  PROVE  IInv'
<1> SUFFICES Threaded'
  BY CachesStay DEF IInv, Threaded, ProbeLookup
<1>1. Threaded /\ UNCHANGED device /\ pc[t] = "probe"
  BY DEF IInv, Threaded, ProbeLookup
<1>2. CASE call[t].part \in DOMAIN probes
  <2>1. probes[call[t].part] \/ everFaulty
    BY <1>2 DEF IInv, CacheInv
  <2>2. AfterProbe(t, probes[call[t].part])
    BY <1>2 DEF ProbeLookup
  <2> QED BY <1>1, <2>1, <2>2, AfterProbeStep
<1>3. CASE call[t].part \notin DOMAIN probes
  <2>1. GoTo(t, "probing")
    BY <1>3 DEF ProbeLookup
  <2>2. Fits(call[t], "probing") /\ "probing" \in Places \ {"done", "keep", "data", "publish"}
    BY <1>1, ThreadKnows DEF Fits, Places, InPartition
  <2> QED BY <1>1, <2>1, <2>2, CallGoesOn
<1> QED BY <1>2, <1>3

LEMMA FileLookupStep ==
  ASSUME IInv, NEW t \in Threads, FileLookup(t)
  PROVE  IInv'
<1> SUFFICES Threaded'
  BY CachesStay DEF IInv, Threaded, FileLookup
<1>1. Threaded /\ UNCHANGED device /\ pc[t] = "file"
  BY DEF IInv, Threaded, FileLookup
<1>2. call[t].op = "read" /\ call[t] \in Calls /\ call[t].part \in DOMAIN Roots
  BY <1>1, ThreadKnows DEF Fits, InPartition
<1>3. CASE KeyOf(t) \in DOMAIN nodes
  <2> DEFINE node == nodes[KeyOf(t)]
  <2>1. Carry(t, "data", Just(node))
    BY <1>3 DEF FileLookup
  <2>2. Agrees(Key(call[t].part, call[t].path), node)
    BY <1>3, NodeKept DEF IInv, CacheInv, KeyOf
  <2>3. Fits(call[t], "data")
    BY <1>2 DEF Fits, InPartition
  <2>4. Carries(call[t], "data", Just(node))
    BY <2>2 DEF Carries, Just
  <2> QED BY <1>1, <2>1, <2>3, <2>4, CallCarriesOn
<1>4. CASE KeyOf(t) \notin DOMAIN nodes
  <2>1. GoTo(t, "parse")
    BY <1>4 DEF FileLookup
  <2>2. Fits(call[t], "parse") /\ "parse" \in Places \ {"done", "keep", "data", "publish"}
    BY <1>2 DEF Fits, Places, InPartition
  <2> QED BY <1>1, <2>1, <2>2, CallGoesOn
<1> QED BY <1>3, <1>4


(***************************************************************************)
(* The steps outside the mutex.                                            *)
(***************************************************************************)

LEMMA ProbeStep ==
  ASSUME IInv, NEW t \in Threads, Probe(t)
  PROVE  IInv'
<1> SUFFICES Threaded'
  BY CachesStay DEF IInv, Threaded, Probe
<1>1. Threaded /\ UNCHANGED device /\ pc[t] = "probing"
  BY DEF IInv, Threaded, Probe
<1>2. /\ Fits(call[t], "keepValid") /\ "keepValid" \in Places \ {"done", "keep", "data", "publish"}
      /\ Fits(call[t], "keepInvalid")
      /\ "keepInvalid" \in Places \ {"done", "keep", "data", "publish"}
  BY <1>1, ThreadKnows DEF Fits, Places, InPartition
<1>3. CASE GoTo(t, "keepValid")
  BY <1>1, <1>2, <1>3, CallGoesOn
<1>4. CASE faulty /\ GoTo(t, "keepInvalid")
  <2>1. everFaulty
    BY <1>1, <1>4, ThreadKnows
  <2> QED BY <1>1, <1>2, <1>4, <2>1, CallGoesOn
<1> QED BY <1>3, <1>4 DEF Probe

\* A listing shows every entry, whichever inodes are lost.
LEMMA ListingShows ==
  ASSUME NEW dir, NEW lost
  PROVE  /\ Shows(Listing(dir, lost), Listing(dir, {}))
         /\ lost = {} => Listing(dir, lost) = Listing(dir, {})
BY DEF Shows, Listing

LEMMA ParseStep ==
  ASSUME IInv, NEW t \in Threads, Parse(t)
  PROVE  IInv'
<1> DEFINE c == call[t]
           node == Resolve(c.part, c.path)
<1> SUFFICES Threaded'
  BY CachesStay DEF IInv, Threaded, Parse
<1>1. Threaded /\ UNCHANGED device /\ pc[t] = "parse"
  BY DEF IInv, Threaded, Parse
<1>2. /\ c \in Calls /\ c.part \in DOMAIN Roots /\ c.path \in Seq(DOMAIN Parts)
      /\ c.op \in {"browse", "stat", "read"}
      /\ faulty => everFaulty
  BY <1>1, ThreadKnows, CallFacts DEF Fits, InPartition
<1>3. Fits(c, "publish")
  BY <1>2 DEF Fits
<1>4. node \in Found
  <2>1. PICK h \in [0 .. Len(c.path) -> Found] : node = h[Len(c.path)]
    BY <1>2, ResolveWalks
  <2>2. Len(c.path) \in 0 .. Len(c.path)
    BY <1>2
  <2> QED BY <2>1, <2>2
<1>5. Key(c.part, c.path) \in Keys /\ Key(c.part, c.path)[1] = c.part /\ Key(c.part, c.path)[2] = c.path
  BY <1>2 DEF Keys, Key
<1>6. CASE (faulty \/ node = NoNode) /\ Finish(t, Error)
  <2>1. RightAnswer(c, Error) /\ Error.state = "error"
    BY <1>2, <1>6, ErrorIsRight
  <2> QED BY <1>1, <1>6, <2>1, CallFinishes
<1>7. CASE node # NoNode /\ c.op # "browse" /\ Carry(t, "publish", Just(node))
  <2>1. Carries(c, "publish", Just(node))
    BY <1>4, <1>7 DEF Carries, Just, Found
  <2> QED BY <1>1, <1>3, <1>7, <2>1, CallCarriesOn
<1>8. CASE node # NoNode /\ c.op = "browse" /\ Kind[node] # "dir" /\ Finish(t, Error)
  <2>1. RightAnswer(c, Error) /\ Error.state = "error"
    BY <1>8, ErrorIsRight
  <2> QED BY <1>1, <1>8, <2>1, CallFinishes
<1>9. CASE node # NoNode /\ c.op = "browse" /\ Kind[node] = "dir" /\ ParseDirectory(t, node)
  <2>1. PICK lost : /\ lost # {} => faulty
                    /\ Carry(t, "publish", [node |-> node, listing |-> Listing(node, lost)])
    BY <1>9 DEF ParseDirectory
  <2> DEFINE f == [node |-> node, listing |-> Listing(node, lost)]
  <2>2. RightListing(Key(c.part, c.path), f)
    <3>1. Shows(f.listing, Listing(f.node, {})) /\ (everFaulty \/ f.listing = Listing(f.node, {}))
      BY <1>2, <2>1, ListingShows
    <3>2. f.node = node /\ node \in DOMAIN Kind
      BY <1>4, <1>9 DEF Found
    <3> HIDE DEF f
    <3> QED BY <1>5, <1>9, <3>1, <3>2 DEF RightListing
  <2>3. Carries(c, "publish", f)
    BY <1>9, <2>2 DEF Carries
  <2> HIDE DEF f
  <2>4. Carry(t, "publish", f)
    BY <2>1 DEF f
  <2> QED BY <1>1, <1>3, <2>3, <2>4, CallCarriesOn
<1> QED BY <1>6, <1>7, <1>8, <1>9 DEF Parse

LEMMA ReadDataStep ==
  ASSUME IInv, NEW t \in Threads, ReadData(t)
  PROVE  IInv'
<1> DEFINE c == call[t]
           node == found[t].node
<1> SUFFICES Threaded'
  BY CachesStay DEF IInv, Threaded, ReadData
<1>1. Threaded /\ UNCHANGED device /\ pc[t] = "data"
  BY DEF IInv, Threaded, ReadData
<1>2. /\ c.op = "read" /\ found[t] = Just(node) /\ Agrees(Key(c.part, c.path), node)
      /\ faulty => everFaulty
  BY <1>1, ThreadKnows DEF Fits, Carries
<1>3. CASE (faulty \/ Kind[node] # "file") /\ Finish(t, Error)
  <2>1. Named(c) => RightAnswer(c, Error)
    BY <1>2, <1>3, ErrorIsRight DEF Agrees, Key, Named
  <2>2. Error.state = "error"
    BY DEF Error
  <2> QED BY <1>1, <1>3, <2>1, <2>2, CallFinishes
<1>4. CASE Kind[node] = "file" /\ Finish(t, Ok(found[t]))
  <2>1. Named(c) => RightAnswer(c, Ok(found[t]))
    BY <1>2, <1>4, AgreedIsRight DEF Named
  <2>2. Ok(found[t]).state = "ok"
    BY DEF Ok
  <2> QED BY <1>1, <1>4, <2>1, <2>2, CallFinishes
<1> QED BY <1>3, <1>4 DEF ReadData

LEMMA ExportStep ==
  ASSUME IInv, NEW t \in Threads, Export(t)
  PROVE  IInv'
<1> DEFINE c == call[t]
           node == Resolve(c.part, c.path)
<1> SUFFICES Threaded'
  BY CachesStay DEF IInv, Threaded, Export
<1>1. Threaded /\ UNCHANGED device /\ pc[t] = "export"
  BY DEF IInv, Threaded, Export
<1>2. c.op = "export" /\ (faulty => everFaulty)
  BY <1>1, ThreadKnows DEF Fits
<1>3. CASE (faulty \/ node = NoNode) /\ Finish(t, Error)
  <2>1. RightAnswer(c, Error) /\ Error.state = "error"
    BY <1>2, <1>3, ErrorIsRight
  <2> QED BY <1>1, <1>3, <2>1, CallFinishes
<1>4. CASE node # NoNode /\ Finish(t, Ok(Just(node)))
  <2>1. RightAnswer(c, Ok(Just(node)))
    BY <1>2, <1>4, NodeIsRight
  <2>2. Ok(Just(node)).state = "ok"
    BY DEF Ok
  <2> QED BY <1>1, <1>4, <2>1, <2>2, CallFinishes
<1> QED BY <1>3, <1>4 DEF Export

(***************************************************************************)
(* The steps that write the caches.                                        *)
(***************************************************************************)

LEMMA StatKeepStep ==
  ASSUME IInv, NEW t \in Threads, StatKeep(t)
  PROVE  IInv'
<1>1. Threaded /\ UNCHANGED device /\ pc[t] = "keep"
  BY DEF IInv, Threaded, StatKeep
<1>2. /\ call[t].op = "stat" /\ found[t] = Just(found[t].node)
      /\ Agrees(Key(call[t].part, call[t].path), found[t].node)
  BY <1>1, ThreadKnows DEF Fits, Carries
<1>3. Threaded'
  <2>1. Named(call[t]) => RightAnswer(call[t], Ok(found[t]))
    BY <1>2, AgreedIsRight DEF Named
  <2>2. Ok(found[t]).state = "ok"
    BY DEF Ok
  <2>3. Finish(t, Ok(found[t]))
    BY DEF StatKeep
  <2> QED BY <1>1, <2>1, <2>2, <2>3, CallFinishes
<1>4. stats' \in Maps(MaxStats)
  BY <1>2, StoreAgrees, Limits DEF IInv, CacheInv, StatKeep, KeyOf
<1>5. CacheInv'
  BY <1>1, <1>4 DEF IInv, CacheInv, StatKeep, device, RightListing
<1> QED BY <1>3, <1>5 DEF IInv, Threaded

LEMMA ProbeKeepStep ==
  ASSUME IInv, NEW t \in Threads, ProbeKeep(t)
  PROVE  IInv'
<1> DEFINE valid == pc[t] = "keepValid"
<1>1. Threaded /\ UNCHANGED device /\ pc[t] \in {"keepValid", "keepInvalid"}
  BY DEF IInv, Threaded, ProbeKeep
<1>2. call[t].part \in DOMAIN Roots /\ (valid \/ everFaulty) /\ valid \in BOOLEAN
  BY <1>1, ThreadKnows DEF Fits, InPartition
<1>3. AfterProbe(t, valid) /\ probes' \in BoundedStore(probes, call[t].part, valid, MaxProbes)
  BY DEF ProbeKeep
<1> HIDE DEF valid
<1>4. Threaded'
  BY <1>1, <1>2, <1>3, AfterProbeStep
<1>5. /\ IsFiniteSet(DOMAIN probes') /\ Cardinality(DOMAIN probes') <= MaxProbes
      /\ \A p \in DOMAIN probes' :
           \/ p = call[t].part /\ probes'[p] = valid
           \/ p \in DOMAIN probes /\ probes'[p] = probes[p]
  BY <1>3, StoreStaysBounded, Limits DEF IInv, CacheInv
<1>6. CacheInv'
  BY <1>1, <1>2, <1>5 DEF IInv, CacheInv, ProbeKeep, device, RightListing
<1> QED BY <1>4, <1>6 DEF IInv, Threaded

LEMMA BrowsePublishStep ==
  ASSUME IInv, NEW t \in Threads, BrowsePublish(t)
  PROVE  IInv'
<1> DEFINE c == call[t]
<1>1. Threaded /\ UNCHANGED device /\ pc[t] = "publish" /\ c.op = "browse"
  BY DEF IInv, Threaded, BrowsePublish
<1>2. RightListing(Key(c.part, c.path), found[t])
  BY <1>1, ThreadKnows DEF Carries
<1>3. Threaded'
  <2>1. RightAnswer(c, Ok(found[t]))
    BY <1>1, <1>2, ListingIsRight
  <2>2. Ok(found[t]).state = "ok"
    BY DEF Ok
  <2>3. Finish(t, Ok(found[t]))
    BY DEF BrowsePublish
  <2> QED BY <1>1, <2>1, <2>2, <2>3, CallFinishes
<1>4. nodes' \in Maps(MaxNodes) /\ stats' \in Maps(MaxStats)
  <2>1. StoreReadable(nodes, c.part, c.path, found[t], MaxNodes) \in SUBSET Maps(MaxNodes)
    BY <1>2, ReadableStored, Limits DEF IInv, CacheInv, Key
  <2>2. StoreReadable(stats, c.part, c.path, found[t], MaxStats) \in SUBSET Maps(MaxStats)
    BY <1>2, ReadableStored, Limits DEF IInv, CacheInv, Key
  <2> QED BY <2>1, <2>2 DEF BrowsePublish
<1>5. /\ IsFiniteSet(DOMAIN listings') /\ Cardinality(DOMAIN listings') <= MaxListings
      /\ \A k \in DOMAIN listings' :
           \/ k = KeyOf(t) /\ listings'[k] = found[t]
           \/ k \in DOMAIN listings /\ listings'[k] = listings[k]
  <2>1. listings' \in BoundedStore(listings, KeyOf(t), found[t], MaxListings)
    BY DEF BrowsePublish
  <2> QED BY <2>1, StoreStaysBounded, Limits DEF IInv, CacheInv
<1>6. \A k \in DOMAIN listings' : RightListing(k, listings'[k])
  BY <1>2, <1>5 DEF IInv, CacheInv, KeyOf
<1>7. CacheInv'
  BY <1>1, <1>4, <1>5, <1>6 DEF IInv, CacheInv, BrowsePublish, device, RightListing
<1> QED BY <1>3, <1>7 DEF IInv, Threaded

LEMMA NodePublishStep ==
  ASSUME IInv, NEW t \in Threads, NodePublish(t)
  PROVE  IInv'
<1> DEFINE c == call[t]
           node == Resolve(c.part, c.path)
<1>1. Threaded /\ UNCHANGED device /\ pc[t] = "publish" /\ c.op # "browse"
  BY DEF IInv, Threaded, NodePublish
<1>2. /\ c \in Calls /\ c.part \in DOMAIN Roots /\ c.path \in Seq(DOMAIN Parts)
      /\ c.op \in {"stat", "read"}
  BY <1>1, ThreadKnows, CallFacts DEF Fits, InPartition
<1>3. found[t] = Just(node) /\ found[t].node = node /\ node \in DOMAIN Kind
  <2>1. found[t] = Just(node) /\ found[t].node \in DOMAIN Kind
    BY <1>1, ThreadKnows DEF Carries
  <2>2. Just(node).node = node
    BY DEF Just
  <2> QED BY <2>1, <2>2
<1>4. Agrees(Key(c.part, c.path), node)
  BY <1>2, <1>3 DEF Agrees, Keys, Key
<1>5. Threaded'
  <2>1. CASE c.op = "stat"
    <3>1. Finish(t, Ok(found[t]))
      BY <2>1 DEF NodePublish
    <3>2. RightAnswer(c, Ok(found[t]))
      <4>1. node # NoNode
        BY <1>3, TreeFacts DEF NoNode
      <4> QED BY <1>3, <2>1, <4>1, NodeIsRight
    <3>3. Ok(found[t]).state = "ok"
      BY DEF Ok
    <3> QED BY <1>1, <3>1, <3>2, <3>3, CallFinishes
  <2>2. CASE c.op = "read"
    <3>1. Carry(t, "data", found[t])
      BY <2>2 DEF NodePublish
    <3>2. Fits(c, "data")
      BY <1>2, <2>2 DEF Fits
    <3>3. Carries(c, "data", found[t])
      BY <1>3, <1>4 DEF Carries
    <3> QED BY <1>1, <3>1, <3>2, <3>3, CallCarriesOn
  <2> QED BY <1>2, <2>1, <2>2
<1>6. nodes' \in Maps(MaxNodes) /\ stats' \in Maps(MaxStats)
  BY <1>3, <1>4, StoreAgrees, Limits DEF IInv, CacheInv, NodePublish, KeyOf
<1>7. CacheInv'
  BY <1>1, <1>6 DEF IInv, CacheInv, NodePublish, device, RightListing
<1> QED BY <1>5, <1>7 DEF IInv, Threaded

(***************************************************************************)
(* The other steps.                                                        *)
(***************************************************************************)

LEMMA TakeStep ==
  ASSUME IInv, NEW t \in Threads, Take(t)
  PROVE  IInv'
<1>1. Threaded /\ UNCHANGED device
  BY DEF IInv, Threaded, Take
<1>2. Leaves(t, NoCall, "idle", found[t], NoAnswer)
  BY <1>1 DEF Take, Leaves, Threaded, ThreadTypes
<1>3. Fits(NoCall, "idle") /\ Carries(NoCall, "idle", found[t]) /\ "idle" \in Places
      /\ NoAnswer.state \in {"pending", "error", "ok"}
  BY DEF Fits, Carries, Places, InPartition, NoAnswer
<1>4. Threaded'
  BY <1>1, <1>2, <1>3, ThreadSteps
<1>5. CacheInv'
  BY CachesStay DEF IInv, Take
<1> QED BY <1>4, <1>5 DEF IInv, Threaded

\* Empty caches are right.
LEMMA EmptyIsRight ==
  /\ DOMAIN Empty = {} /\ IsFiniteSet({}) /\ Cardinality({}) = 0
  /\ \A max \in Nat : Empty \in Maps(max)
<1>1. DOMAIN Empty = {} /\ IsFiniteSet({}) /\ Cardinality({}) = 0
  BY FS_EmptySet DEF Empty
<1>2. Empty \in [{} -> DOMAIN Kind] /\ {} \in SUBSET Keys
  BY DEF Empty
<1> QED BY <1>1, <1>2 DEF Maps

LEMMA ClearStep ==
  ASSUME IInv, ClearCaches
  PROVE  IInv'
<1>1. CacheInv'
  BY EmptyIsRight, Limits DEF ClearCaches, CacheInv
<1>2. Threaded'
  BY DEF IInv, Threaded, ClearCaches, device, threadVars, ThreadTypes, ThreadInv, FaultInv,
         ThreadAt, Fits, Carries, RightAnswer, RightListing
<1> QED BY <1>1, <1>2 DEF IInv, Threaded

\* What was right before a fault is right after it.
LEMMA FaultStep ==
  ASSUME IInv, Fault \/ Heal
  PROVE  IInv'
<1>1. /\ UNCHANGED <<threadVars, caches>> /\ everFaulty' \in BOOLEAN /\ faulty' \in BOOLEAN
      /\ (everFaulty => everFaulty') /\ (faulty' => everFaulty')
  BY DEF IInv, FaultInv, Fault, Heal
<1>2. CacheInv'
  BY <1>1 DEF IInv, CacheInv, caches, RightListing
<1>3. ASSUME NEW t \in Threads PROVE ThreadAt(t)'
  <2>1. ThreadAt(t)
    BY DEF IInv, ThreadInv
  <2> QED BY <1>1, <2>1 DEF threadVars, ThreadAt, Fits, Carries, RightAnswer, RightListing
<1>4. ThreadTypes'
  BY <1>1 DEF IInv, threadVars, ThreadTypes
<1> QED BY <1>1, <1>2, <1>3, <1>4 DEF IInv, ThreadInv, FaultInv


(***************************************************************************)
(* The theorems.                                                           *)
(***************************************************************************)

LEMMA InitIsRight == Init => IInv
<1> SUFFICES ASSUME Init PROVE IInv
  OBVIOUS
<1>1. CacheInv
  BY EmptyIsRight, Limits DEF Init, CacheInv
<1>2. ThreadTypes /\ FaultInv
  BY DEF Init, ThreadTypes, FaultInv, Places
<1>3. ASSUME NEW t \in Threads PROVE ThreadAt(t)
  <2>1. pc[t] = "idle" /\ answer[t].state = "pending"
    BY DEF Init, NoAnswer
  <2> QED BY <2>1 DEF ThreadAt, Fits, Carries, InPartition
<1> QED BY <1>1, <1>2, <1>3 DEF IInv, ThreadInv

LEMMA NextIsRight == IInv /\ [Next]_vars => IInv'
<1> SUFFICES ASSUME IInv, [Next]_vars PROVE IInv'
  OBVIOUS
<1>1. ASSUME NEW t \in Threads, NEW c \in Calls, Start(t, c) PROVE IInv'
  BY <1>1, StartStep
<1>2. ASSUME NEW t \in Threads, Advance(t) PROVE IInv'
  BY <1>2, EnterMoves, BrowseLookupStep, StatLookupStep, NodeLookupStep, StatKeepStep,
     ProbeLookupStep, ProbeStep, ProbeKeepStep, FileLookupStep, ParseStep, BrowsePublishStep,
     NodePublishStep, ReadDataStep, ExportStep DEF Advance
<1>3. ASSUME NEW t \in Threads, Take(t) PROVE IInv'
  BY <1>3, TakeStep
<1>4. CASE ClearCaches
  BY <1>4, ClearStep
<1>5. CASE Fault \/ Heal
  BY <1>5, FaultStep
<1>6. CASE UNCHANGED vars
  <2>1. CacheInv'
    BY <1>6, CachesStay DEF IInv, vars
  <2>2. Threaded'
    BY <1>6 DEF IInv, Threaded, vars, device, threadVars, ThreadTypes, ThreadInv, FaultInv,
       ThreadAt, Fits, Carries, RightAnswer, RightListing
  <2> QED BY <2>1, <2>2 DEF IInv, Threaded
<1> QED BY <1>1, <1>2, <1>3, <1>4, <1>5, <1>6 DEF Next

\* The inductive invariant.
THEOREM Invariance == Spec => []IInv
BY InitIsRight, NextIsRight, PTL DEF Spec

\* The state has its types and no cache outgrows its limit, also while one
\* browse() stores a whole directory (bounded_store).
THEOREM TypeCorrect == Spec => []TypeOK
<1>1. IInv => TypeOK
  <2> SUFFICES ASSUME IInv PROVE TypeOK
    OBVIOUS
  <2>1. CachesWithinLimits
    BY DEF IInv, CacheInv, Maps, CachesWithinLimits
  <2>2. faulty \in BOOLEAN /\ everFaulty \in BOOLEAN /\ DOMAIN probes \subseteq DOMAIN Roots
    BY DEF IInv, FaultInv, CacheInv
  <2>3. call \in [Threads -> Calls \cup {NoCall}] /\ pc \in [Threads -> Places]
    BY DEF IInv, ThreadTypes
  <2>4. ASSUME NEW t \in Threads
        PROVE  /\ answer[t].state \in {"pending", "error", "ok"}
               /\ pc[t] \in {"keep", "data"} => found[t].node \in DOMAIN Kind
    BY DEF IInv, ThreadInv, ThreadAt, Carries, Agrees
  <2>5. \A k \in DOMAIN listings : Kind[Resolve(k[1], k[2])] = "dir"
    BY DEF IInv, CacheInv, RightListing
  <2>6. Places = {"idle", "listing", "stat", "node", "keep", "enter", "probe", "probing",
                  "keepValid", "keepInvalid", "file", "parse", "publish", "data", "export",
                  "done"}
    BY DEF Places, InPartition
  <2> QED BY <2>1, <2>2, <2>3, <2>4, <2>5, <2>6 DEF TypeOK
<1> QED BY <1>1, Invariance, PTL

\* In a tree with good names every call returns what the parser returns of its
\* path without any cache, whatever the other threads do and the caches evict;
\* only a fault explains less (browse, stat, read_file, export_to_host).
THEOREM AnswersRight == WellNamed => (Spec => []AnswersAreTheParsers)
<1> SUFFICES ASSUME WellNamed PROVE Spec => []AnswersAreTheParsers
  OBVIOUS
<1>1. IInv => AnswersAreTheParsers
  BY DEF IInv, ThreadInv, ThreadAt, RightAnswer, Named, AnswersAreTheParsers
<1> QED BY <1>1, Invariance, PTL

\* Whatever the names, a browse and an export return what the parser does: what
\* they show is their own listing, or one kept under their own path.
BrowsesAreTheParsers ==
  \A t \in Threads : pc[t] = "done" /\ call[t].op \in {"browse", "export"} =>
    RightAnswer(call[t], answer[t])

THEOREM BrowsesRight == Spec => []BrowsesAreTheParsers
<1>1. IInv => BrowsesAreTheParsers
  BY DEF IInv, ThreadInv, ThreadAt, Named, BrowsesAreTheParsers
<1> QED BY <1>1, Invariance, PTL

\* In such a tree the caches memoize what the parser finds.
THEOREM CachesRight == WellNamed => (Spec => []CachesAgreeWithParser)
<1> SUFFICES ASSUME WellNamed PROVE Spec => []CachesAgreeWithParser
  OBVIOUS
<1>1. IInv => CachesAgreeWithParser
  BY DEF IInv, CacheInv, Maps, Agrees, RightListing, CachesAgreeWithParser
<1> QED BY <1>1, Invariance, PTL

=============================================================================
