--------------------------- MODULE HostViewProofs ---------------------------
(***************************************************************************)
(* Theorems about HostView, for any tree, any names and any number of      *)
(* threads and of sources opened meanwhile.                                *)
(*                                                                         *)
(* An export: a directory counts its entries, those passed have a place on *)
(* the host or a warning (CountInv), as long as each takes a place that is *)
(* free.  That it does rests on the names given (NamesInv) and on the      *)
(* suffixes, of which there are more than names (FreeNameIsFree).          *)
(*                                                                         *)
(* The mount: what a listing showed under a path of names is a node some   *)
(* way along them leads to (LeadsTo), and a call is on such a way          *)
(* (Walked).  Below a directory that was listed with an unreadable inode a *)
(* way may lead anywhere; before it there is one way only, because no two  *)
(* names of a listing are one to Windows (NamesApart, OneWay).             *)
(***************************************************************************)
EXTENDS HostView, FiniteSetTheorems, SequenceTheorems, TLAPS

FrameType == [node : Dirs, path : Seq(Name), next : Nat \ {0}, names : Seq(Name)]
FileType == [node : Nodes, path : Seq(Name), left : Nat]
PlacedType == [node : Nodes, state : {"part", "closed", "dir"}]

ExportType ==
  /\ stack \in Seq(FrameType) /\ writing \in FileType
  /\ host \in [DOMAIN host -> PlacedType]
  /\ DOMAIN host \in SUBSET Seq(Name) /\ IsFiniteSet(DOMAIN host)
  /\ skipped \in SUBSET (Seq(Name) \X Nat) /\ IsFiniteSet(skipped)

\* The file being written is the one that is not complete.
WritingInv ==
  /\ writing = NoFile \/ Kind[writing.node] = "file"
  /\ Running /\ Kind[writing.node] = "file"
       => writing.path \in DOMAIN host /\ host[writing.path].state = "part"
  /\ \A p \in DOMAIN host : host[p].state = "part" =>
       Running /\ Kind[writing.node] = "file" /\ writing.path = p

\* The directories on the stack are different ones that have been made.
StackInv ==
  Running =>
    /\ \A i \in DOMAIN stack :
         /\ stack[i].path \in DOMAIN host
         /\ host[stack[i].path] = [node |-> stack[i].node, state |-> "dir"]
         /\ stack[i].next <= Len(Entries[stack[i].node]) + 1
    /\ \A i, j \in DOMAIN stack : i # j => stack[i].path # stack[j].path

\* Nothing is on the host without the directory it is in.
TreeInv ==
  Running => \A p \in DOMAIN host : p # <<>> /\ (Len(p) > 1 => Front(p) \in DOMAIN host)

\* What is in a directory on the stack has one of the names given there.
NamesInv ==
  Running =>
    \A i \in DOMAIN stack : \A p \in DOMAIN host : Front(p) = stack[i].path =>
      \E j \in DOMAIN stack[i].names : p = Append(stack[i].path, Upper(stack[i].names[j]))

\* Of a directory that has been left every entry is accounted for, of one on
\* the stack those before the next.
SkippedIn(place) == { e \in skipped : e[1] = place }
Count(place) == Cardinality(Children(place)) + Cardinality(SkippedIn(place))
Due(place) ==
  /\ \A i \in DOMAIN stack : stack[i].path = place => Count(place) = stack[i].next - 1
  /\ (\A i \in DOMAIN stack : stack[i].path # place)
       => Count(place) = Len(Entries[host[place].node])
CountInv ==
  Running \/ outcome = "ok" =>
    /\ \A e \in skipped :
         /\ e[1] \in DOMAIN host
         /\ \A i \in DOMAIN stack : stack[i].path = e[1] => e[2] < stack[i].next
    /\ \A p \in DOMAIN host : host[p].state = "dir" => Due(p)

EndInv == outcome = "ok" => stack = <<>> /\ writing = NoFile

ExportInv ==
  ExportType /\ WritingInv /\ StackInv /\ TreeInv /\ NamesInv /\ CountInv /\ EndInv

OrderType ==
  [session : Nat, path : Seq(Name), name : Name, intact : BOOLEAN, from : Seq(Name)]

\* The list is of the path, unless a browse has failed or the session is new.
ListInv ==
  /\ session \in Nat /\ path \in Seq(Name)
  /\ list \in [session : Nat, path : Seq(Name) \cup {None}, intact : BOOLEAN]
  /\ list.session <= session
  /\ list.path # None =>
       /\ Resolved(list.path) \in Dirs
       /\ list.intact /\ list.session = session => list.path = path

\* So is what was picked from it, and what the thread of an export is given.
PickedInv ==
  picked = Nothing
    \/ (/\ picked \in OrderType /\ picked.session <= session
        /\ picked.intact /\ picked.session = session
             => picked.from = Append(path, picked.name))
OrderInv ==
  order = Nothing
    \/ (/\ order \in OrderType /\ order.session <= session
        /\ ExportIsOfSelection)

PageInv == ListInv /\ PickedInv /\ OrderInv

IInv == ExportInv /\ PageInv

(***************************************************************************)
(* Folds.                                                                  *)
(***************************************************************************)

\* A set of numbers with a member has a smallest one.
LEMMA SmallestOf ==
  ASSUME NEW S, S \subseteq Nat, S # {}
  PROVE  \E m \in S : \A j \in S : m <= j
<1> DEFINE less == {ss \in Nat \X Nat : ss[1] < ss[2]}
<1>1. less = OpToRel(<, Nat)
  BY Zenon DEF OpToRel
<1>2. IsWellFoundedOn(less, Nat)
  BY <1>1, NatLessThanWellFounded, Zenon
<1>3. PICK m \in S : \A y \in S : ~ (<<y, m>> \in less)
  BY <1>2, WFMin, Zenon
<1>4. ASSUME NEW y \in S PROVE m <= y
  <2>1. m \in Nat /\ y \in Nat
    OBVIOUS
  <2>2. y < m => <<y, m>> \in less
    BY <2>1
  <2> HIDE DEF less
  <2> QED BY <1>3, <2>1, <2>2
<1> QED BY <1>4

\* A set of counterexamples without 0 has a first one: the number before it is
\* none.
LEMMA FirstOf ==
  ASSUME NEW S, S \subseteq Nat, S # {}, 0 \notin S
  PROVE  \E m \in S : m - 1 \in Nat /\ m - 1 \notin S
<1>1. PICK m \in S : \A j \in S : m <= j
  BY SmallestOf
<1>2. m \in Nat /\ m # 0
  OBVIOUS
<1>3. m - 1 \in Nat /\ ~ (m <= m - 1)
  BY <1>2
<1> QED BY <1>1, <1>3

\* The largest number of an interval, and what is left without it.
LEMMA MaxOfInterval ==
  ASSUME NEW n \in Nat, NEW s \in SUBSET (1 .. n), n \in s
  PROVE  Max(s) = n
<1>1. \A y \in s : n >= y
  OBVIOUS
<1>2. Max(s) \in s /\ \A y \in s : Max(s) >= y
  BY <1>1 DEF Max
<1>3. PICK m : m = Max(s)
  OBVIOUS
<1>4. m \in s /\ n >= m /\ m >= n
  BY <1>1, <1>2, <1>3
<1> QED BY <1>3, <1>4

\* An interval from 1 is one that is shorter, and its largest number.
LEMMA IntervalGrows ==
  ASSUME NEW n \in Nat, NEW k \in 1 .. n
  PROVE  /\ 1 .. k \in SUBSET (1 .. n) /\ 1 .. k # {}
         /\ (1 .. k) \ {k} = 1 .. k - 1
         /\ Max(1 .. k) = k
<1>1. k \in Nat /\ k >= 1 /\ k <= n
  OBVIOUS
<1>2. 1 .. k \in SUBSET (1 .. n) /\ k \in 1 .. k
  BY <1>1
<1>3. ASSUME NEW x PROVE x \in (1 .. k) \ {k} <=> x \in 1 .. k - 1
  BY <1>1
<1>4. Max(1 .. k) = k
  BY <1>1, <1>2, MaxOfInterval
<1> QED BY <1>2, <1>3, <1>4

\* Numbers up to n have a largest.
LEMMA MaxOfNumbers ==
  ASSUME NEW n \in Nat, NEW u \in SUBSET (1 .. n), u # {}
  PROVE  Max(u) \in 1 .. n
<1> DEFINE down == { n - y : y \in u }
<1>1. down \subseteq Nat /\ down # {}
  <2>1. \A y \in u : n - y \in Nat
    OBVIOUS
  <2> QED BY <2>1
<1>2. PICK d \in down : \A j \in down : d <= j
  <2> HIDE DEF down
  <2> QED BY <1>1, SmallestOf
<1>3. PICK m \in u : d = n - m
  BY <1>2
<1>4. ASSUME NEW y \in u PROVE m >= y
  <2>1. n - m <= n - y
    BY <1>2, <1>3
  <2>2. m \in Nat /\ y \in Nat
    OBVIOUS
  <2> QED BY <2>1, <2>2
<1>5. Max(u) \in u
  BY <1>4 DEF Max
<1> QED BY <1>5

\* FoldLeft() goes over the numbers of a sequence by its largest.
HasFold(V, b, n, G) ==
  \E f \in [SUBSET (1 .. n) -> V] : \A s \in SUBSET (1 .. n) :
    f[s] = IF s = {} THEN b ELSE G[Max(s)][f[s \ {Max(s)}]]

\* Along the prefixes of the sequence it takes one step at a time.
StepsAlong(V, b, n, G, f) ==
  /\ \A k \in 0 .. n : f[1 .. k] \in V
  /\ f[1 .. 0] = b
  /\ \A k \in 1 .. n : f[1 .. k] = G[k][f[1 .. k - 1]]

\* Steps that stay in V have a fold.
LEMMA FoldOf ==
  ASSUME NEW V, NEW b \in V, NEW n \in Nat, NEW G \in [1 .. n -> [V -> V]]
  PROVE  HasFold(V, b, n, G)
<1> DEFINE Folds(f, m) ==
             \A s \in SUBSET (1 .. m) :
               f[s] = IF s = {} THEN b ELSE G[Max(s)][f[s \ {Max(s)}]]
           Good(m) == \E f \in [SUBSET (1 .. m) -> V] : Folds(f, m)
           bad == { m \in 0 .. n : ~ Good(m) }
<1>0. bad = {} => Good(n)
  <2> HIDE DEF Good
  <2> QED OBVIOUS
<1> SUFFICES ASSUME bad # {} PROVE FALSE
  BY <1>0 DEF HasFold
<1>1. 0 \notin bad
  <2> DEFINE f == [s \in SUBSET (1 .. 0) |-> b]
  <2>1. f \in [SUBSET (1 .. 0) -> V] /\ Folds(f, 0)
    <3>1. \A s \in SUBSET (1 .. 0) : s = {}
      OBVIOUS
    <3> QED BY <3>1
  <2> QED BY <2>1
<1>2. PICK m \in bad : m - 1 \in Nat /\ m - 1 \notin bad
  <2>1. bad \subseteq Nat
    OBVIOUS
  <2> HIDE DEF bad
  <2> QED BY <1>1, <2>1, FirstOf
<1>3. m \in 1 .. n /\ m - 1 \in 0 .. n
  BY <1>2
<1>4. PICK f \in [SUBSET (1 .. m - 1) -> V] : Folds(f, m - 1)
  BY <1>2, <1>3
<1> DEFINE g == [s \in SUBSET (1 .. m) |-> IF m \in s THEN G[m][f[s \ {m}]] ELSE f[s]]
<1>5. ASSUME NEW s \in SUBSET (1 .. m)
      PROVE  /\ m \in s => s \ {m} \in SUBSET (1 .. m - 1)
             /\ m \notin s => s \in SUBSET (1 .. m - 1)
  BY <1>3
<1>6. g \in [SUBSET (1 .. m) -> V]
  <2>1. G[m] \in [V -> V]
    BY <1>3
  <2> QED BY <1>5, <2>1
<1>7. ASSUME NEW s \in SUBSET (1 .. m)
      PROVE  g[s] = IF s = {} THEN b ELSE G[Max(s)][g[s \ {Max(s)}]]
  <2>1. CASE m \in s
    <3>1. Max(s) = m
      BY <1>3, <2>1, MaxOfInterval
    <3>2. s \ {m} \in SUBSET (1 .. m) /\ g[s \ {m}] = f[s \ {m}]
      BY <1>5, <2>1
    <3>3. g[s] = G[m][f[s \ {m}]] /\ s # {}
      BY <2>1
    <3> HIDE DEF g
    <3> QED BY <3>1, <3>2, <3>3
  <2>2. CASE m \notin s
    <3>1. s \in SUBSET (1 .. m - 1) /\ g[s] = f[s]
      BY <1>5, <2>2
    <3>2. s \ {Max(s)} \in SUBSET (1 .. m) /\ m \notin s \ {Max(s)}
      BY <2>2
    <3>3. g[s \ {Max(s)}] = f[s \ {Max(s)}]
      BY <3>2
    <3>4. f[s] = IF s = {} THEN b ELSE G[Max(s)][f[s \ {Max(s)}]]
      BY <1>4, <3>1
    <3> QED BY <3>1, <3>3, <3>4
  <2> QED BY <2>1, <2>2
<1> HIDE DEF g
<1>8. Folds(g, m)
  BY <1>7
<1>9. m \notin bad
  <2> HIDE DEF Folds
  <2> QED BY <1>6, <1>8
<1> QED BY <1>2, <1>9

\* A fold whose steps stay in V stays there along the whole sequence.
LEMMA FoldRuns ==
  ASSUME NEW V, NEW b \in V, NEW n \in Nat, NEW G \in [1 .. n -> [V -> V]], NEW f,
         f[{}] = b,
         \A k \in 1 .. n : f[1 .. k - 1] \in V => f[1 .. k] = G[k][f[1 .. k - 1]]
  PROVE  StepsAlong(V, b, n, G, f)
<1> DEFINE bad == { k \in 0 .. n : f[1 .. k] \notin V }
<1>1. f[1 .. 0] = b
  <2>1. 1 .. 0 = {}
    OBVIOUS
  <2> QED BY <2>1
<1>2. bad = {}
  <2> SUFFICES ASSUME bad # {} PROVE FALSE
    OBVIOUS
  <2>1. bad \subseteq Nat /\ 0 \notin bad
    BY <1>1
  <2>2. PICK m \in bad : m - 1 \in Nat /\ m - 1 \notin bad
    <3> HIDE DEF bad
    <3> QED BY <2>1, FirstOf
  <2>3. m \in 1 .. n /\ m - 1 \in 0 .. n
    BY <2>2
  <2>4. f[1 .. m - 1] \in V
    BY <2>2, <2>3
  <2>5. f[1 .. m] = G[m][f[1 .. m - 1]] /\ G[m] \in [V -> V]
    BY <2>3, <2>4
  <2> QED BY <2>2, <2>4, <2>5
<1>3. \A k \in 0 .. n : f[1 .. k] \in V
  BY <1>2
<1>4. \A k \in 1 .. n : f[1 .. k] = G[k][f[1 .. k - 1]]
  <2> TAKE k \in 1 .. n
  <2>1. k - 1 \in 0 .. n
    OBVIOUS
  <2> QED BY <1>3, <2>1
<1> QED BY <1>1, <1>3, <1>4 DEF StepsAlong

(***************************************************************************)
(* Names.                                                                  *)
(***************************************************************************)

\* A non-empty set of natural numbers has its Min in it.
LEMMA MinOfNaturals ==
  ASSUME NEW S, S \subseteq Nat, S # {} PROVE Min(S) \in S
BY SmallestOf DEF Min

\* sanitize_host_filename() and the comparison of Windows make names of names.
LEMMA NamesTyped ==
  ASSUME NEW name \in Name
  PROVE  /\ Sanitized(name) \in Name
         /\ Upper(name) \in Name
         /\ \A k \in Nat : Suffixed(name, k) \in Name
<1>1. Folded[name.word] \in Words
  BY TreeFacts DEF Name
<1>2. Sanitized(name) \in Name
  BY DEF Name, Sanitized
<1>3. Upper(name) \in Name
  BY <1>1 DEF Name, Upper
<1>4. ASSUME NEW k \in Nat PROVE Suffixed(name, k) \in Name
  <2>1. name.tail \in Seq(Nat)
    BY DEF Name
  <2>2. Append(name.tail, k) \in Seq(Nat)
    BY <2>1
  <2> QED BY <2>1, <2>2 DEF Name, Suffixed
<1> QED BY <1>2, <1>3, <1>4

\* Different suffixes make different names, whatever their case.
LEMMA SuffixesDiffer ==
  ASSUME NEW name \in Name, NEW j \in Nat, NEW k \in Nat,
         Upper(Suffixed(name, j)) = Upper(Suffixed(name, k))
  PROVE  j = k
<1>1. Suffixed(name, j) \in Name /\ Suffixed(name, k) \in Name
  BY NamesTyped
<1>2. Upper(Suffixed(name, j)).tail = Suffixed(name, j).tail
      /\ Upper(Suffixed(name, k)).tail = Suffixed(name, k).tail
  BY <1>1 DEF Upper, Name
<1>3. Suffixed(name, j).tail = Append(name.tail, j) /\ Suffixed(name, k).tail = Append(name.tail, k)
  BY DEF Suffixed, Name
<1>4. Append(name.tail, j) = Append(name.tail, k)
  BY <1>2, <1>3
<1>5. name.tail \in Seq(Nat)
  BY DEF Name
<1> QED BY <1>4, <1>5

\* The name given to an entry is none that is taken: there are more suffixes to
\* try than names (unique_host_name).
LEMMA FreeNameIsFree ==
  ASSUME NEW base \in Name, NEW names \in Seq(Name)
  PROVE  /\ FreeName(base, Range(names)) \in Name
         /\ \A i \in DOMAIN names : Upper(FreeName(base, Range(names))) # Upper(names[i])
<1> DEFINE taken == Range(names)
           used == { Upper(n) : n \in taken }
           ks == 2 .. Cardinality(taken) + 2
           free == { k \in ks : Upper(Suffixed(base, k)) \notin used }
<1>1. IsFiniteSet(taken) /\ Cardinality(taken) \in Nat
  <2>1. names \in Surjection(1 .. Len(names), taken)
    BY DEF Surjection, Range
  <2>2. IsFiniteSet(1 .. Len(names))
    BY FS_Interval
  <2> QED BY <2>1, <2>2, FS_Surjection, FS_CardinalityType
<1>2. IsFiniteSet(used) /\ Cardinality(used) <= Cardinality(taken) /\ Cardinality(used) \in Nat
  <2>1. [n \in taken |-> Upper(n)] \in Surjection(taken, used)
    BY DEF Surjection
  <2> HIDE DEF used
  <2> QED BY <1>1, <2>1, FS_Surjection, FS_CardinalityType
<1>3. IsFiniteSet(ks) /\ Cardinality(ks) = Cardinality(taken) + 1
  <2>1. ASSUME NEW c \in Nat
        PROVE  IsFiniteSet(2 .. c + 2) /\ Cardinality(2 .. c + 2) = c + 1
    <3>1. 2 \in Int /\ c + 2 \in Int /\ ~(2 > c + 2) /\ (c + 2) - 2 + 1 = c + 1
      OBVIOUS
    <3> QED BY <3>1, FS_Interval
  <2> HIDE DEF taken
  <2> QED BY <1>1, <2>1
<1>4. free # {}
  <2> SUFFICES ASSUME free = {} PROVE FALSE
    OBVIOUS
  <2> DEFINE g == [k \in ks |-> Upper(Suffixed(base, k))]
  <2>1. g \in [ks -> used]
    OBVIOUS
  <2>2. \A j, k \in ks : g[j] = g[k] => j = k
    BY <1>1, SuffixesDiffer
  <2> HIDE DEF g, ks, used
  <2> QED BY <1>1, <1>2, <1>3, <2>1, <2>2, FS_PigeonHole
<1>5. free \subseteq Nat
  BY <1>1
<1>6. Min(free) \in free
  BY <1>4, <1>5, MinOfNaturals
<1>7. FreeName(base, taken) = IF Upper(base) \notin used THEN base ELSE Suffixed(base, Min(free))
  BY DEF FreeName
<1>8. FreeName(base, taken) \in Name /\ Upper(FreeName(base, taken)) \notin used
  <2> HIDE DEF taken
  <2> QED BY <1>1, <1>6, <1>7, NamesTyped
<1>9. \A i \in DOMAIN names : Upper(names[i]) \in used
  BY DEF Range
<1> QED BY <1>8, <1>9

(***************************************************************************)
(* The names of a listing.                                                 *)
(***************************************************************************)

Entry == [name : Name, node : Nodes]
Keeps(listing, entry, lost) ==
  IF entry.node \notin lost /\ Kind[entry.node] # "other" THEN Append(listing, entry) ELSE listing

\* What is listed of a directory are entries.
LEMMA ListedTyped ==
  ASSUME NEW dir \in Dirs, NEW lost
  PROVE  Listed(dir, lost) \in Seq(Entry)
<1> DEFINE entries == Entries[dir]
           n == Len(entries)
           V == Seq(Entry)
           G == [k \in 1 .. n |-> [x \in V |-> Keeps(x, entries[k], lost)]]
           Is(f) == f = [u \in SUBSET DOMAIN entries |->
                           IF u = {} THEN <<>> ELSE Keeps(f[u \ {Max(u)}], entries[Max(u)], lost)]
           it == CHOOSE f : Is(f)
<1>1. Listed(dir, lost) = it[DOMAIN entries]
  BY DEF Listed, FoldLeft, MapThenFoldSet, Keeps
<1>2. entries \in Seq(Entry)
  BY TreeFacts DEF Dirs, Entry
<1> HIDE DEF entries
<1>3. n \in Nat /\ DOMAIN entries = 1 .. n /\ <<>> \in V
  BY <1>2
<1>4. G \in [1 .. n -> [V -> V]]
  <2>1. ASSUME NEW k \in 1 .. n, NEW x \in V PROVE Keeps(x, entries[k], lost) \in V
    <3>1. entries[k] \in Entry
      BY <1>2
    <3>2. Append(x, entries[k]) \in V
      BY <3>1
    <3> QED BY <3>2 DEF Keeps
  <2> HIDE DEF n, V
  <2> QED BY <2>1
<1>5. ASSUME NEW u \in SUBSET (1 .. n), u # {}
      PROVE  Max(u) \in 1 .. n
  BY <1>3, <1>5, MaxOfNumbers
<1>6. \E f : Is(f)
  <2>1. PICK f \in [SUBSET (1 .. n) -> V] : \A s \in SUBSET (1 .. n) :
           f[s] = IF s = {} THEN <<>> ELSE G[Max(s)][f[s \ {Max(s)}]]
    <3>1. HasFold(V, <<>>, n, G)
      <4> HIDE DEF n, V, G
      <4> QED BY <1>3, <1>4, FoldOf
    <3> QED BY <3>1 DEF HasFold
  <2>2. ASSUME NEW s \in SUBSET (1 .. n), s # {}
        PROVE  G[Max(s)][f[s \ {Max(s)}]] = Keeps(f[s \ {Max(s)}], entries[Max(s)], lost)
    <3>1. Max(s) \in 1 .. n /\ f[s \ {Max(s)}] \in V
      BY <1>5, <2>2
    <3> QED BY <3>1
  <2> HIDE DEF n, V, G
  <2>3. \A s \in SUBSET (1 .. n) :
           f[s] = IF s = {} THEN <<>> ELSE Keeps(f[s \ {Max(s)}], entries[Max(s)], lost)
    BY <2>1, <2>2
  <2>4. Is(f)
    BY <1>3, <2>1, <2>3
  <2> QED BY <2>4
<1>7. Is(it)
  <2> HIDE DEF Is
  <2> QED BY <1>6
<1> HIDE DEF it
<1>8. it[{}] = <<>>
  BY <1>7
<1>9. ASSUME NEW k \in 1 .. n
      PROVE  it[1 .. k] = Keeps(it[1 .. k - 1], entries[k], lost)
  <2>1. /\ 1 .. k \in SUBSET (1 .. n) /\ 1 .. k # {} /\ (1 .. k) \ {k} = 1 .. k - 1
        /\ Max(1 .. k) = k
    BY <1>3, IntervalGrows
  <2> QED BY <1>3, <1>7, <2>1
<1>10. StepsAlong(V, <<>>, n, G, it)
  <2>1. \A k \in 1 .. n : it[1 .. k - 1] \in V => it[1 .. k] = G[k][it[1 .. k - 1]]
    BY <1>9
  <2> HIDE DEF n, V, G
  <2> QED BY <1>3, <1>4, <1>8, <2>1, FoldRuns
<1>11. it[1 .. n] \in V
  BY <1>3, <1>10 DEF StepsAlong
<1> QED BY <1>1, <1>3, <1>11

NextName(names, entry) == Append(names, FreeName(Sanitized(entry.name), Range(names)))

\* No two names of a listing are one to Windows (make_entry_aliases(),
\* unique_host_name()).
LEMMA NamesApart ==
  ASSUME NEW listing \in Seq(Entry)
  PROVE  /\ HostNamesOf(listing) \in Seq(Name)
         /\ Len(HostNamesOf(listing)) = Len(listing)
         /\ \A i, j \in 1 .. Len(listing) :
              Upper(HostNamesOf(listing)[i]) = Upper(HostNamesOf(listing)[j]) => i = j
<1> DEFINE n == Len(listing)
           V == Seq(Name)
           G == [k \in 1 .. n |-> [x \in V |-> NextName(x, listing[k])]]
           Is(f) == f = [u \in SUBSET DOMAIN listing |->
                           IF u = {} THEN <<>> ELSE NextName(f[u \ {Max(u)}], listing[Max(u)])]
           it == CHOOSE f : Is(f)
<1>1. HostNamesOf(listing) = it[DOMAIN listing]
  BY DEF HostNamesOf, FoldLeft, MapThenFoldSet, NextName
<1>2. n \in Nat /\ DOMAIN listing = 1 .. n /\ <<>> \in V
  OBVIOUS
<1>3. ASSUME NEW k \in 1 .. n, NEW x \in V
      PROVE  /\ FreeName(Sanitized(listing[k].name), Range(x)) \in Name
             /\ \A i \in DOMAIN x :
                  Upper(FreeName(Sanitized(listing[k].name), Range(x))) # Upper(x[i])
             /\ NextName(x, listing[k]) \in V
  <2>1. listing[k] \in Entry
    OBVIOUS
  <2>2. Sanitized(listing[k].name) \in Name
    BY <2>1, NamesTyped DEF Entry
  <2>3. /\ FreeName(Sanitized(listing[k].name), Range(x)) \in Name
        /\ \A i \in DOMAIN x :
             Upper(FreeName(Sanitized(listing[k].name), Range(x))) # Upper(x[i])
    BY <2>2, FreeNameIsFree
  <2> QED BY <2>3 DEF NextName
<1>4. G \in [1 .. n -> [V -> V]]
  <2> HIDE DEF n, V
  <2> QED BY <1>3
<1>5. ASSUME NEW u \in SUBSET (1 .. n), u # {}
      PROVE  Max(u) \in 1 .. n
  BY <1>2, <1>5, MaxOfNumbers
<1>6. \E f : Is(f)
  <2>1. PICK f \in [SUBSET (1 .. n) -> V] : \A s \in SUBSET (1 .. n) :
           f[s] = IF s = {} THEN <<>> ELSE G[Max(s)][f[s \ {Max(s)}]]
    <3>1. HasFold(V, <<>>, n, G)
      <4> HIDE DEF n, V, G
      <4> QED BY <1>2, <1>4, FoldOf
    <3> QED BY <3>1 DEF HasFold
  <2>2. ASSUME NEW s \in SUBSET (1 .. n), s # {}
        PROVE  G[Max(s)][f[s \ {Max(s)}]] = NextName(f[s \ {Max(s)}], listing[Max(s)])
    <3>1. Max(s) \in 1 .. n /\ f[s \ {Max(s)}] \in V
      BY <1>5, <2>2
    <3> QED BY <3>1
  <2> HIDE DEF n, V, G
  <2>3. \A s \in SUBSET (1 .. n) :
           f[s] = IF s = {} THEN <<>> ELSE NextName(f[s \ {Max(s)}], listing[Max(s)])
    BY <2>1, <2>2
  <2>4. Is(f)
    BY <1>2, <2>1, <2>3
  <2> QED BY <2>4
<1>7. Is(it)
  <2> HIDE DEF Is
  <2> QED BY <1>6
<1> HIDE DEF it
<1>8. it[{}] = <<>>
  BY <1>7
<1>9. ASSUME NEW k \in 1 .. n
      PROVE  it[1 .. k] = NextName(it[1 .. k - 1], listing[k])
  <2>1. /\ 1 .. k \in SUBSET (1 .. n) /\ 1 .. k # {} /\ (1 .. k) \ {k} = 1 .. k - 1
        /\ Max(1 .. k) = k
    BY <1>2, IntervalGrows
  <2> QED BY <1>2, <1>7, <2>1
<1>10. StepsAlong(V, <<>>, n, G, it)
  <2>1. \A k \in 1 .. n : it[1 .. k - 1] \in V => it[1 .. k] = G[k][it[1 .. k - 1]]
    BY <1>9
  <2> HIDE DEF n, V, G
  <2> QED BY <1>2, <1>4, <1>8, <2>1, FoldRuns
<1> DEFINE Apart(k) ==
             /\ Len(it[1 .. k]) = k
             /\ \A i, j \in 1 .. k : Upper(it[1 .. k][i]) = Upper(it[1 .. k][j]) => i = j
           wrong == { k \in 0 .. n : ~ Apart(k) }
<1>11. wrong = {}
  <2> SUFFICES ASSUME wrong # {} PROVE FALSE
    OBVIOUS
  <2>1. wrong \subseteq Nat /\ 0 \notin wrong
    <3>1. 1 .. 0 = {}
      OBVIOUS
    <3> QED BY <1>8, <3>1
  <2>2. PICK m \in wrong : m - 1 \in Nat /\ m - 1 \notin wrong
    <3> HIDE DEF wrong
    <3> QED BY <2>1, FirstOf
  <2>3. m \in 1 .. n /\ m - 1 \in 0 .. n
    BY <1>2, <2>2
  <2> DEFINE x == it[1 .. m - 1]
             new == FreeName(Sanitized(listing[m].name), Range(x))
  <2>4. x \in Seq(Name)
    BY <1>10, <2>3 DEF StepsAlong
  <2>5. /\ Len(x) = m - 1
        /\ \A i, j \in 1 .. m - 1 : Upper(x[i]) = Upper(x[j]) => i = j
    BY <2>2, <2>3
  <2>6. new \in Name /\ \A i \in DOMAIN x : Upper(new) # Upper(x[i])
    BY <1>3, <2>3, <2>4
  <2>7. it[1 .. m] = Append(x, new)
    BY <1>9, <2>3 DEF NextName
  <2> HIDE DEF x, new
  <2>8. /\ Len(Append(x, new)) = m /\ Append(x, new)[m] = new
        /\ \A i \in 1 .. m - 1 : Append(x, new)[i] = x[i] /\ i \in DOMAIN x
    BY <2>3, <2>4, <2>5, <2>6
  <2>9. ASSUME NEW i \in 1 .. m, NEW j \in 1 .. m,
               Upper(Append(x, new)[i]) = Upper(Append(x, new)[j])
        PROVE  i = j
    <3>1. (i = m \/ i \in 1 .. m - 1) /\ (j = m \/ j \in 1 .. m - 1)
      BY <2>3
    <3> QED BY <2>5, <2>6, <2>8, <2>9, <3>1
  <2>10. Apart(m)
    BY <2>7, <2>8, <2>9
  <2> HIDE DEF Apart
  <2> QED BY <2>2, <2>10
<1>12. Apart(n) /\ it[1 .. n] \in Seq(Name)
  <2>1. n \in 0 .. n
    BY <1>2
  <2>2. Apart(n)
    <3> HIDE DEF Apart, n
    <3> QED BY <1>11, <2>1
  <2>3. it[1 .. n] \in Seq(Name)
    BY <1>10, <2>1 DEF StepsAlong
  <2> QED BY <2>2, <2>3
<1> QED BY <1>1, <1>2, <1>12

(***************************************************************************)
(* The host.                                                               *)
(***************************************************************************)

\* Putting a file or a directory on the host changes nothing else there.
LEMMA Put ==
  ASSUME host \in [DOMAIN host -> PlacedType], NEW p, NEW node, NEW state, On(p, node, state)
  PROVE  /\ DOMAIN host' = DOMAIN host \cup {p}
         /\ host'[p] = [node |-> node, state |-> state]
         /\ \A q \in DOMAIN host : q # p => host'[q] = host[q]
BY DEF On

(***************************************************************************)
(* The stack.                                                              *)
(***************************************************************************)

\* Replacing the innermost directory changes no other.
LEMMA Replaced ==
  ASSUME NEW T, NEW s \in Seq(T), s # <<>>, NEW x \in T
  PROVE  /\ Len(s) \in Nat \ {0} /\ Last(s) = s[Len(s)] /\ Last(s) \in T
         /\ Front(s) \in Seq(T) /\ Len(Front(s)) = Len(s) - 1
         /\ \A i \in 1 .. Len(s) - 1 : Front(s)[i] = s[i]
         /\ Append(Front(s), x) \in Seq(T)
         /\ Len(Append(Front(s), x)) = Len(s)
         /\ \A i \in 1 .. Len(s) - 1 : Append(Front(s), x)[i] = s[i]
         /\ Append(Front(s), x)[Len(s)] = x
<1>1. Len(s) \in Nat \ {0}
  OBVIOUS
<1>2. Last(s) = s[Len(s)] /\ Last(s) \in T
  BY <1>1 DEF Last
<1>3. /\ Front(s) \in Seq(T) /\ Len(Front(s)) = Len(s) - 1
      /\ \A i \in 1 .. Len(s) - 1 : Front(s)[i] = s[i]
  <2> DEFINE n == Len(s) - 1
             f == SubSeq(s, 1, n)
  <2>1. n \in Nat /\ \A i \in 1 .. n : s[i] \in T
    BY <1>1
  <2> HIDE DEF n
  <2>2. /\ f \in Seq(T)
        /\ Len(f) = IF 1 <= n THEN n - 1 + 1 ELSE 0
        /\ \A i \in 1 .. n - 1 + 1 : f[i] = s[1 + i - 1]
    BY <2>1, SubSeqProperties
  <2> HIDE DEF f
  <2>3. Len(f) = n
    BY <2>1, <2>2
  <2>4. ASSUME NEW i \in 1 .. n PROVE f[i] = s[i]
    <3>1. i \in 1 .. n - 1 + 1 /\ 1 + i - 1 = i
      BY <2>1
    <3> QED BY <2>2, <3>1
  <2>5. Front(s) = f
    BY DEF Front, f, n
  <2> QED BY <2>2, <2>3, <2>4, <2>5 DEF n
<1> HIDE DEF Front
<1>4. /\ Append(Front(s), x) \in Seq(T)
      /\ Len(Append(Front(s), x)) = Len(s)
      /\ \A i \in 1 .. Len(s) - 1 : Append(Front(s), x)[i] = s[i]
      /\ Append(Front(s), x)[Len(s)] = x
  BY <1>1, <1>3
<1> QED BY <1>1, <1>2, <1>3, <1>4

\* The same, of the directories of an export.
LEMMA WithInnermost ==
  \A s \in Seq(FrameType) : \A x \in FrameType : s # <<>> =>
    /\ Append(Front(s), x) \in Seq(FrameType)
    /\ Len(Append(Front(s), x)) = Len(s)
    /\ \A i \in 1 .. Len(s) - 1 : Append(Front(s), x)[i] = s[i]
    /\ Append(Front(s), x)[Len(s)] = x
BY Replaced

\* The directory of a path is the path without its last name.
LEMMA FrontOfChild ==
  ASSUME NEW T, NEW s \in Seq(T), NEW x \in T
  PROVE  /\ Append(s, x) \in Seq(T) /\ Len(Append(s, x)) = Len(s) + 1
         /\ Append(s, x)[Len(s) + 1] = x
         /\ \A i \in 1 .. Len(s) : Append(s, x)[i] = s[i]
         /\ Front(Append(s, x)) = s
<1>1. /\ Append(s, x) \in Seq(T) /\ Len(Append(s, x)) = Len(s) + 1
      /\ Append(s, x)[Len(s) + 1] = x
      /\ \A i \in 1 .. Len(s) : Append(s, x)[i] = s[i]
  OBVIOUS
<1>2. ASSUME NEW a \in Seq(T), Len(a) = Len(s) + 1, \A i \in 1 .. Len(s) : a[i] = s[i]
      PROVE  Front(a) = s
  <2>1. a # <<>>
    BY <1>2
  <2>2. /\ Front(a) \in Seq(T) /\ Len(Front(a)) = Len(a) - 1
        /\ \A i \in 1 .. Len(a) - 1 : Front(a)[i] = a[i]
    BY <2>1, Replaced
  <2>3. Len(Front(a)) = Len(s) /\ \A i \in 1 .. Len(s) : Front(a)[i] = s[i]
    BY <1>2, <2>2
  <2> QED BY <2>2, <2>3, SeqEqual
<1> QED BY <1>1, <1>2

\* The names given, and one more.
LEMMA OneMoreName ==
  \A s \in Seq(Name) : \A x \in Name :
    /\ Append(s, x) \in Seq(Name)
    /\ DOMAIN Append(s, x) = 1 .. Len(s) + 1
    /\ Append(s, x)[Len(s) + 1] = x
    /\ \A j \in 1 .. Len(s) : Append(s, x)[j] = s[j]
    /\ DOMAIN s = 1 .. Len(s) /\ Len(s) \in Nat
BY FrontOfChild

(***************************************************************************)
(* Counting what a directory has.                                          *)
(***************************************************************************)

\* What is put on the host is one more child of its directory and of no other.
LEMMA ChildrenOfPlaced ==
  ASSUME IsFiniteSet(DOMAIN host), NEW p, p \notin DOMAIN host, p # <<>>,
         DOMAIN host' = DOMAIN host \cup {p}, NEW d
  PROVE  /\ Cardinality(Children(d)) \in Nat
         /\ Cardinality(Children(d)') = IF Front(p) = d THEN Cardinality(Children(d)) + 1
                                        ELSE Cardinality(Children(d))
<1>1. IsFiniteSet(Children(d)) /\ Cardinality(Children(d)) \in Nat
  BY FS_Subset, FS_CardinalityType DEF Children
<1>2. CASE Front(p) = d
  <2>1. Children(d)' = Children(d) \cup {p} /\ p \notin Children(d)
    BY <1>2 DEF Children
  <2> QED BY <1>1, <1>2, <2>1, FS_AddElement
<1>3. CASE Front(p) # d
  <2>1. Children(d)' = Children(d)
    BY <1>3 DEF Children
  <2> QED BY <1>1, <1>3, <2>1
<1> QED BY <1>2, <1>3

\* An entry that is skipped is one more of its directory and of no other.
LEMMA SkippedOfPassed ==
  ASSUME IsFiniteSet(skipped), NEW e, e \notin skipped, skipped' = skipped \cup {e}, NEW d
  PROVE  /\ Cardinality(SkippedIn(d)) \in Nat
         /\ Cardinality(SkippedIn(d)') = IF e[1] = d THEN Cardinality(SkippedIn(d)) + 1
                                         ELSE Cardinality(SkippedIn(d))
<1>1. IsFiniteSet(SkippedIn(d)) /\ Cardinality(SkippedIn(d)) \in Nat
  BY FS_Subset, FS_CardinalityType DEF SkippedIn
<1>2. CASE e[1] = d
  <2>1. SkippedIn(d)' = SkippedIn(d) \cup {e} /\ e \notin SkippedIn(d)
    BY <1>2 DEF SkippedIn
  <2> QED BY <1>1, <1>2, <2>1, FS_AddElement
<1>3. CASE e[1] # d
  <2>1. SkippedIn(d)' = SkippedIn(d)
    BY <1>3 DEF SkippedIn
  <2> QED BY <1>1, <1>3, <2>1
<1> QED BY <1>2, <1>3

\* One more and one less.
LEMMA MoreAndLess ==
  /\ \A n \in Nat \ {0} : (n - 1) + 1 = n /\ (n + 1) - 1 = n
  /\ \A m \in Nat \ {0} : \A n \in Nat : m <= n => m + 1 <= n + 1
OBVIOUS

\* Counts are numbers.
LEMMA CountTyped ==
  ASSUME ExportType, NEW d
  PROVE  Cardinality(Children(d)) \in Nat /\ Cardinality(SkippedIn(d)) \in Nat
<1>1. IsFiniteSet(Children(d)) /\ IsFiniteSet(SkippedIn(d))
  BY FS_Subset DEF ExportType, Children, SkippedIn
<1> QED BY <1>1, FS_CardinalityType

(***************************************************************************)
(* Where the export looks at the next entry of a directory.                *)
(***************************************************************************)
NewName == FreeName(Sanitized(Current.name), Range(Frame.names))
Place == Append(Frame.path, Upper(NewName))

\* The entry and the directory are what their types say.
LEMMA AtEntry ==
  ASSUME ExportInv, Busy, More
  PROVE  /\ Frame \in FrameType /\ Frame = stack[Len(stack)] /\ Len(stack) \in Nat \ {0}
         /\ Frame.next <= Len(Entries[Frame.node]) /\ Len(Entries[Frame.node]) \in Nat
         /\ Current \in [name : Name, node : Nodes]
         /\ NewName \in Name
<1>1. Frame \in FrameType /\ Frame = stack[Len(stack)] /\ Len(stack) \in Nat \ {0}
  <2>1. stack \in Seq(FrameType) /\ stack # <<>>
    BY DEF ExportInv, ExportType, Busy
  <2>2. \A x \in FrameType : Last(stack) = stack[Len(stack)] /\ Last(stack) \in FrameType
    BY <2>1, Replaced
  <2>3. Len(stack) \in Nat \ {0} /\ stack[Len(stack)] \in FrameType
    BY <2>1
  <2> QED BY <2>2, <2>3 DEF Frame
<1>2. Entries[Frame.node] \in Seq([name : Name, node : Nodes])
  BY <1>1, TreeFacts DEF FrameType, Dirs
<1>3. /\ Frame.next <= Len(Entries[Frame.node]) /\ Len(Entries[Frame.node]) \in Nat
      /\ Current \in [name : Name, node : Nodes]
  <2>1. Frame.next \in Nat \ {0}
    BY <1>1 DEF FrameType
  <2>2. ASSUME NEW T, NEW t \in Seq(T), NEW n \in Nat \ {0}, n \in DOMAIN t
        PROVE  n <= Len(t) /\ Len(t) \in Nat /\ t[n] \in T
    BY <2>2
  <2> QED BY <1>2, <2>1, <2>2 DEF More, Current
<1>4. NewName \in Name
  <2>1. Current.name \in Name
    BY <1>3
  <2>2. Frame.names \in Seq(Name)
    BY <1>1 DEF FrameType
  <2> QED BY <2>1, <2>2, NamesTyped, FreeNameIsFree DEF NewName
<1> QED BY <1>1, <1>3, <1>4

\* The place the entry would take on the host is free.
LEMMA PlaceIsFree ==
  ASSUME ExportInv, Busy, More
  PROVE  /\ Place \in Seq(Name) \ DOMAIN host
         /\ Front(Place) = Frame.path /\ Len(Place) = Len(Frame.path) + 1
         /\ Place # <<>> /\ Frame.path \in DOMAIN host
<1>1. /\ Frame \in FrameType /\ NewName \in Name /\ Upper(NewName) \in Name
      /\ Len(stack) \in DOMAIN stack /\ Frame = stack[Len(stack)]
  BY AtEntry, NamesTyped DEF ExportInv, ExportType
<1>2. Frame.path \in Seq(Name) /\ Frame.names \in Seq(Name)
  BY <1>1 DEF FrameType
<1>3. /\ Place \in Seq(Name) /\ Len(Place) = Len(Frame.path) + 1
      /\ Place[Len(Frame.path) + 1] = Upper(NewName)
      /\ Front(Place) = Frame.path
  BY <1>1, <1>2, FrontOfChild DEF Place
<1>4. Place \notin DOMAIN host
  <2> SUFFICES ASSUME Place \in DOMAIN host PROVE FALSE
    OBVIOUS
  <2>1. PICK j \in DOMAIN Frame.names : Place = Append(Frame.path, Upper(Frame.names[j]))
    BY <1>1, <1>3 DEF ExportInv, NamesInv, Busy
  <2>2. Frame.names[j] \in Name
    BY <1>2
  <2>3. Place[Len(Frame.path) + 1] = Upper(Frame.names[j])
    BY <1>2, <2>1, <2>2, NamesTyped, FrontOfChild
  <2>4. Upper(NewName) # Upper(Frame.names[j])
    <3>1. Current.name \in Name
      BY AtEntry
    <3> QED BY <1>2, <3>1, NamesTyped, FreeNameIsFree DEF NewName
  <2> QED BY <1>3, <2>3, <2>4
<1>5. Frame.path \in DOMAIN host
  BY <1>1 DEF ExportInv, StackInv, Busy
<1>6. Place # <<>>
  BY <1>2, <1>3
<1> QED BY <1>3, <1>4, <1>5, <1>6

(***************************************************************************)
(* The steps of an export, by what they do.                                *)
(***************************************************************************)

\* An entry is passed over: it is recorded, or has been already.
LEMMA Passing ==
  ASSUME ExportInv, Busy, More, NEW R \in FrameType,
         R.path = Frame.path, R.node = Frame.node, R.next = Frame.next + 1,
         \A j \in DOMAIN Frame.names : j \in DOMAIN R.names /\ R.names[j] = Frame.names[j],
         stack' = Append(Above, R), skipped' = skipped \cup {ThisEntry},
         UNCHANGED <<writing, host, outcome>>
  PROVE  ExportInv'
<1> DEFINE L == Len(stack)
<1>1. /\ Frame \in FrameType /\ Frame = stack[L] /\ L \in Nat \ {0}
      /\ Frame.next <= Len(Entries[Frame.node]) /\ Len(Entries[Frame.node]) \in Nat
      /\ stack \in Seq(FrameType)
  BY AtEntry DEF ExportInv, ExportType
<1>2. /\ stack' \in Seq(FrameType) /\ Len(stack') = L
      /\ \A i \in 1 .. L - 1 : stack'[i] = stack[i]
      /\ stack'[L] = R
  BY <1>1, Replaced DEF Busy, Above
<1>3. /\ Frame.next \in Nat \ {0} /\ Frame.path \in Seq(Name)
      /\ ThisEntry = <<Frame.path, Frame.next>>
  BY <1>1 DEF FrameType, ThisEntry
<1>4. ThisEntry \notin skipped
  BY <1>1, <1>3 DEF ExportInv, CountInv, Busy
<1>5. ExportType'
  <2>1. ThisEntry \in Seq(Name) \X Nat
    BY <1>3
  <2>2. IsFiniteSet(skipped')
    BY FS_AddElement DEF ExportInv, ExportType
  <2>3. skipped' \in SUBSET (Seq(Name) \X Nat)
    BY <2>1 DEF ExportInv, ExportType
  <2> QED BY <1>2, <2>2, <2>3 DEF ExportInv, ExportType
<1>6. WritingInv'
  BY DEF ExportInv, WritingInv, Running
<1>7. DOMAIN stack = 1 .. L /\ DOMAIN stack' = 1 .. L
  BY <1>1, <1>2
<1> HIDE DEF L
<1>8. ASSUME NEW i \in 1 .. L
      PROVE  /\ stack'[i].path = stack[i].path /\ stack'[i].node = stack[i].node
             /\ stack[i].next \in Nat
             /\ \/ i # L /\ stack'[i] = stack[i]
                \/ i = L /\ stack'[i] = R /\ stack[i] = Frame
  <2>1. stack[i] \in FrameType
    BY <1>1, <1>7
  <2>2. i \in 1 .. L - 1 \/ i = L
    BY <1>1
  <2> QED BY <1>1, <1>2, <2>1, <2>2 DEF FrameType
<1>9. StackInv'
  <2>1. ASSUME NEW i \in 1 .. L
        PROVE  /\ stack'[i].path \in DOMAIN host
               /\ host[stack'[i].path] = [node |-> stack'[i].node, state |-> "dir"]
               /\ stack'[i].next <= Len(Entries[stack'[i].node]) + 1
    <3>1. /\ stack[i].path \in DOMAIN host
          /\ host[stack[i].path] = [node |-> stack[i].node, state |-> "dir"]
          /\ stack[i].next <= Len(Entries[stack[i].node]) + 1
      BY <1>7 DEF ExportInv, StackInv, Busy
    <3>2. CASE i # L /\ stack'[i] = stack[i]
      BY <3>1, <3>2
    <3>3. CASE i = L /\ stack'[i] = R /\ stack[i] = Frame
      <4>1. Frame.next + 1 <= Len(Entries[Frame.node]) + 1
        BY <1>1, <1>3, MoreAndLess, Zenon
      <4>2. stack'[i].path = Frame.path /\ stack'[i].node = Frame.node /\ stack'[i].next = Frame.next + 1
        BY <3>3
      <4> QED BY <3>1, <3>3, <4>1, <4>2
    <3> QED BY <1>8, <3>2, <3>3
  <2>2. ASSUME NEW i \in 1 .. L, NEW j \in 1 .. L, i # j PROVE stack'[i].path # stack'[j].path
    <3>1. stack[i].path # stack[j].path
      BY <1>7, <2>2 DEF ExportInv, StackInv, Busy
    <3>2. stack'[i].path = stack[i].path /\ stack'[j].path = stack[j].path
      BY <1>8
    <3> QED BY <3>1, <3>2
  <2> QED BY <1>7, <2>1, <2>2 DEF StackInv
<1>10. TreeInv'
  BY DEF ExportInv, TreeInv, Running
<1>11. NamesInv'
  <2>1. ASSUME NEW i \in 1 .. L, NEW p \in DOMAIN host, Front(p) = stack'[i].path
        PROVE  \E j \in DOMAIN stack'[i].names :
                 p = Append(stack'[i].path, Upper(stack'[i].names[j]))
    <3>1. stack'[i].path = stack[i].path
      BY <1>8
    <3>2. PICK j \in DOMAIN stack[i].names : p = Append(stack[i].path, Upper(stack[i].names[j]))
      BY <1>7, <2>1, <3>1 DEF ExportInv, NamesInv, Busy
    <3>3. j \in DOMAIN stack'[i].names /\ stack'[i].names[j] = stack[i].names[j]
      BY <1>8, <3>2
    <3> QED BY <3>1, <3>2, <3>3
  <2> QED BY <1>7, <2>1 DEF NamesInv
<1>12. CountInv'
  <2>1. ASSUME NEW e \in skipped'
        PROVE  /\ e[1] \in DOMAIN host
               /\ \A i \in DOMAIN stack' : stack'[i].path = e[1] => e[2] < stack'[i].next
    <3>1. Frame.path \in DOMAIN host
      BY PlaceIsFree
    <3>2. CASE e = ThisEntry
      <4>1. e[1] = Frame.path /\ e[2] = Frame.next
        BY <1>3, <3>2
      <4>2. ASSUME NEW i \in 1 .. L, stack[i].path = Frame.path PROVE i = L
        BY <1>1, <1>7, <4>2 DEF ExportInv, StackInv, Busy
      <4> QED BY <1>1, <1>3, <1>7, <1>8, <3>1, <4>1, <4>2
    <3>3. CASE e \in skipped
      <4>1. e[1] \in DOMAIN host /\ e[2] \in Nat
        BY <3>3 DEF ExportInv, CountInv, Busy, ExportType
      <4>2. ASSUME NEW i \in 1 .. L, stack[i].path = e[1] PROVE e[2] < stack[i].next
        BY <1>7, <3>3, <4>2 DEF ExportInv, CountInv, Busy
      <4>3. ASSUME NEW i \in 1 .. L, stack'[i].path = e[1] PROVE e[2] < stack'[i].next
        <5>1. stack[i].path = e[1] /\ e[2] < stack[i].next /\ stack[i].next \in Nat
          BY <1>8, <4>2, <4>3
        <5>2. stack'[i].next = stack[i].next \/ stack'[i].next = stack[i].next + 1
          <6>1. CASE i # L /\ stack'[i] = stack[i]
            BY <6>1
          <6>2. CASE i = L /\ stack'[i] = R /\ stack[i] = Frame
            BY <6>2
          <6> QED BY <1>8, <6>1, <6>2
        <5>3. ASSUME NEW a \in Nat, NEW b \in Nat, NEW c, a < b, c = b \/ c = b + 1 PROVE a < c
          BY <5>3
        <5> QED BY <4>1, <5>1, <5>2, <5>3
      <4> QED BY <1>7, <4>1, <4>3
    <3> QED BY <3>2, <3>3
  <2>2. ASSUME NEW p \in DOMAIN host, host[p].state = "dir"
        PROVE  Due(p)'
    <3>1. Due(p)
      BY <2>2 DEF ExportInv, CountInv, Busy
    <3>2. /\ Children(p)' = Children(p)
          /\ Cardinality(Children(p)) \in Nat /\ Cardinality(SkippedIn(p)) \in Nat
          /\ Cardinality(SkippedIn(p)') = IF Frame.path = p THEN Cardinality(SkippedIn(p)) + 1
                                          ELSE Cardinality(SkippedIn(p))
      <4>1. IsFiniteSet(skipped) /\ ThisEntry[1] = Frame.path
        BY <1>3 DEF ExportInv, ExportType
      <4>2. Children(p)' = Children(p)
        BY DEF Children
      <4>3. Cardinality(Children(p)) \in Nat
        BY CountTyped DEF ExportInv
      <4> QED BY <1>4, <4>1, <4>2, <4>3, SkippedOfPassed
    <3>3. Count(p) \in Nat /\ Count(p)' = IF Frame.path = p THEN Count(p) + 1 ELSE Count(p)
      BY <3>2 DEF Count
    <3>4. ASSUME NEW i \in DOMAIN stack', stack'[i].path = p
          PROVE  Count(p)' = stack'[i].next - 1
      <4>1. i \in 1 .. L /\ stack[i].path = p /\ Count(p) = stack[i].next - 1
        BY <1>7, <1>8, <3>1, <3>4 DEF Due
      <4>2. i = L <=> Frame.path = p
        BY <1>1, <1>7, <4>1 DEF ExportInv, StackInv, Busy
      <4>3. CASE i # L /\ stack'[i] = stack[i]
        BY <3>3, <4>1, <4>2, <4>3
      <4>4. CASE i = L /\ stack'[i] = R /\ stack[i] = Frame
        <5>1. Count(p)' = Count(p) + 1 /\ Count(p) = Frame.next - 1 /\ stack'[i].next = Frame.next + 1
          BY <3>3, <4>1, <4>2, <4>4
        <5>2. (Frame.next - 1) + 1 = Frame.next /\ (Frame.next + 1) - 1 = Frame.next
          BY <1>3, MoreAndLess, Zenon
        <5>3. Count(p)' = (Frame.next - 1) + 1 /\ stack'[i].next - 1 = (Frame.next + 1) - 1
          BY <5>1, Zenon
        <5> QED BY <5>2, <5>3, Zenon
      <4> QED BY <1>8, <4>1, <4>3, <4>4
    <3>5. ASSUME \A i \in DOMAIN stack' : stack'[i].path # p
          PROVE  Count(p)' = Len(Entries[host[p].node])
      <4>1. \A i \in DOMAIN stack : stack[i].path # p
        BY <1>7, <1>8, <3>5
      <4>2. Frame.path # p
        BY <1>1, <1>7, <4>1
      <4> QED BY <3>1, <3>3, <4>1, <4>2 DEF Due
    <3> QED BY <3>4, <3>5 DEF Due
  <2> QED BY <2>1, <2>2 DEF CountInv, Running
<1>13. EndInv'
  BY DEF EndInv, Busy, Running
<1> QED BY <1>5, <1>6, <1>9, <1>10, <1>11, <1>12, <1>13 DEF ExportInv

\* An entry is put on the host under its name: a file that is to be written, or
\* a directory whose entries follow.
LEMMA Placing ==
  ASSUME ExportInv, Busy, More, NEW R \in FrameType,
         R.path = Frame.path, R.node = Frame.node, R.next = Frame.next + 1,
         R.names = Append(Frame.names, NewName),
         NEW kind \in {"part", "dir"}, NEW N \in FrameType, N.path = Place, N.next = 1,
         kind = "dir" => N.node = Current.node,
         stack' = IF kind = "dir" THEN Append(Append(Above, R), N) ELSE Append(Above, R),
         On(Place, Current.node, kind),
         writing' \in FileType,
         kind = "part" => Kind[writing'.node] = "file" /\ writing'.path = Place,
         kind = "dir" => writing' = NoFile,
         UNCHANGED <<skipped, outcome>>
  PROVE  ExportInv'
<1> DEFINE L == Len(stack)
           M == IF kind = "dir" THEN L + 1 ELSE L
<1>1. /\ Frame \in FrameType /\ Frame = stack[L] /\ L \in Nat \ {0}
      /\ Frame.next <= Len(Entries[Frame.node]) /\ Len(Entries[Frame.node]) \in Nat
      /\ Current.node \in Nodes /\ NewName \in Name
      /\ stack \in Seq(FrameType)
  BY AtEntry DEF ExportInv, ExportType
<1>2. /\ stack' \in Seq(FrameType) /\ Len(stack') = M
      /\ \A i \in 1 .. L - 1 : stack'[i] = stack[i]
      /\ stack'[L] = R
      /\ kind = "dir" => stack'[M] = N
  <2> DEFINE t == Append(Above, R)
  <2>1. /\ t \in Seq(FrameType) /\ Len(t) = L
        /\ \A i \in 1 .. L - 1 : t[i] = stack[i]
        /\ t[L] = R
    <3>1. stack # <<>> /\ Above = Front(stack)
      BY DEF Busy, Above
    <3>2. /\ Append(Front(stack), R) \in Seq(FrameType)
          /\ Len(Append(Front(stack), R)) = Len(stack)
          /\ \A i \in 1 .. Len(stack) - 1 : Append(Front(stack), R)[i] = stack[i]
          /\ Append(Front(stack), R)[Len(stack)] = R
      BY <1>1, <3>1, WithInnermost
    <3> QED BY <1>1, <3>1, <3>2
  <2> HIDE DEF t
  <2>2. /\ Append(t, N) \in Seq(FrameType) /\ Len(Append(t, N)) = L + 1
        /\ Append(t, N)[L + 1] = N
        /\ \A i \in 1 .. L : Append(t, N)[i] = t[i]
    BY <2>1, FrontOfChild
  <2>3. CASE kind = "dir"
    <3>1. stack' = Append(t, N) /\ M = L + 1
      BY <2>3 DEF t
    <3>2. L \in 1 .. L /\ \A i \in 1 .. L - 1 : i \in 1 .. L
      BY <1>1
    <3> QED BY <2>1, <2>2, <3>1, <3>2
  <2>4. CASE kind # "dir"
    <3>1. stack' = t /\ M = L
      BY <2>4 DEF t
    <3> QED BY <2>1, <2>4, <3>1
  <2> QED BY <2>3, <2>4
<1>3. /\ Frame.next \in Nat \ {0} /\ Frame.path \in Seq(Name) /\ Frame.names \in Seq(Name)
      /\ Place \in Seq(Name) \ DOMAIN host /\ Front(Place) = Frame.path /\ Place # <<>>
      /\ Len(Place) = Len(Frame.path) + 1 /\ Frame.path \in DOMAIN host
      /\ Place # Frame.path
  BY <1>1, PlaceIsFree DEF FrameType
<1>4. /\ DOMAIN host' = DOMAIN host \cup {Place}
      /\ host'[Place] = [node |-> Current.node, state |-> kind]
      /\ \A q \in DOMAIN host : host'[q] = host[q]
  <2>1. host \in [DOMAIN host -> PlacedType]
    BY DEF ExportInv, ExportType
  <2>2. /\ DOMAIN host' = DOMAIN host \cup {Place}
        /\ host'[Place] = [node |-> Current.node, state |-> kind]
        /\ \A q \in DOMAIN host : q # Place => host'[q] = host[q]
    BY <2>1 DEF On
  <2> QED BY <1>3, <2>2
<1>5. ExportType'
  <2>1. IsFiniteSet(DOMAIN host') /\ DOMAIN host' \in SUBSET Seq(Name)
    BY <1>3, <1>4, FS_AddElement DEF ExportInv, ExportType
  <2>2. host' \in [DOMAIN host' -> PlacedType]
    BY <1>1 DEF On, ExportInv, ExportType, PlacedType
  <2> QED BY <1>2, <2>1, <2>2 DEF ExportInv, ExportType
<1>6. WritingInv'
  <2>1. \A q \in DOMAIN host : host[q].state # "part"
    BY TreeFacts DEF ExportInv, WritingInv, Busy, NoFile
  <2>2. CASE kind = "part"
    BY <1>4, <2>1, <2>2 DEF WritingInv, Busy, Running
  <2>3. CASE kind = "dir"
    BY <1>4, <2>1, <2>3, TreeFacts DEF WritingInv, Busy, Running, NoFile
  <2> QED BY <2>2, <2>3
<1>7. /\ DOMAIN stack = 1 .. L /\ DOMAIN stack' = 1 .. M /\ M \in {L, L + 1}
      /\ M = L + 1 <=> kind = "dir"
  BY <1>1, <1>2
<1> HIDE DEF L, M
\* Every directory of the new stack is one of the old, the one that was
\* innermost, or the new one.
<1>8. ASSUME NEW i \in 1 .. M
      PROVE  \/ /\ i \in 1 .. L /\ i # L /\ stack'[i] = stack[i]
             \/ /\ i \in 1 .. L /\ i = L /\ stack'[i] = R /\ stack[i] = Frame
             \/ /\ i = L + 1 /\ kind = "dir" /\ stack'[i] = N
  BY <1>1, <1>2, <1>7
<1>9. ASSUME NEW i \in 1 .. L
      PROVE  /\ stack[i].path \in DOMAIN host
             /\ host[stack[i].path] = [node |-> stack[i].node, state |-> "dir"]
             /\ stack[i].next <= Len(Entries[stack[i].node]) + 1
             /\ stack[i].next \in Nat
             /\ i # L => stack[i].path # Frame.path
  <2>1. stack[i] \in FrameType
    BY <1>1, <1>7
  <2>2. L \in 1 .. L
    BY <1>1
  <2>3. i # L => stack[i].path # stack[L].path
    BY <1>7, <2>2 DEF ExportInv, StackInv, Busy
  <2> QED BY <1>1, <1>7, <2>1, <2>3 DEF ExportInv, StackInv, Busy, FrameType
<1>10. ASSUME NEW i \in 1 .. M
       PROVE  \/ /\ i \in 1 .. L /\ stack'[i].path = stack[i].path
              \/ /\ i = L + 1 /\ kind = "dir" /\ stack'[i].path = Place
  BY <1>8
<1>10a. ASSUME NEW i \in 1 .. L
      PROVE  i \in 1 .. M /\ i # L + 1 /\ stack'[i].path = stack[i].path
  <2>1. i \in 1 .. M /\ i # L + 1
    BY <1>1, <1>7
  <2> QED BY <1>10, <2>1
<1>11. StackInv'
  <2>1. ASSUME NEW i \in 1 .. M
        PROVE  /\ stack'[i].path \in DOMAIN host'
               /\ host'[stack'[i].path] = [node |-> stack'[i].node, state |-> "dir"]
               /\ stack'[i].next <= Len(Entries[stack'[i].node]) + 1
    <3>1. CASE i \in 1 .. L /\ i # L /\ stack'[i] = stack[i]
      <4>1. /\ stack[i].path \in DOMAIN host
            /\ host[stack[i].path] = [node |-> stack[i].node, state |-> "dir"]
            /\ stack[i].next <= Len(Entries[stack[i].node]) + 1
        BY <1>9, <3>1
      <4>2. stack[i].path \in DOMAIN host' /\ host'[stack[i].path] = host[stack[i].path]
        BY <1>4, <4>1
      <4> QED BY <3>1, <4>1, <4>2
    <3>2. CASE i \in 1 .. L /\ i = L /\ stack'[i] = R /\ stack[i] = Frame
      <4>1. /\ Frame.path \in DOMAIN host
            /\ host[Frame.path] = [node |-> Frame.node, state |-> "dir"]
        <5>1. host[stack[i].path] = [node |-> stack[i].node, state |-> "dir"] /\ stack[i].path \in DOMAIN host
          BY <1>9, <3>2
        <5> QED BY <3>2, <5>1
      <4>2. Frame.next + 1 <= Len(Entries[Frame.node]) + 1
        BY <1>1, <1>3, MoreAndLess, Zenon
      <4>3. stack'[i].path = Frame.path /\ stack'[i].node = Frame.node /\ stack'[i].next = Frame.next + 1
        BY <3>2
      <4> QED BY <1>4, <4>1, <4>2, <4>3
    <3>3. CASE i = L + 1 /\ kind = "dir" /\ stack'[i] = N
      <4>1. Len(Entries[N.node]) \in Nat
        BY TreeFacts DEF FrameType, Dirs
      <4>2. 1 <= Len(Entries[N.node]) + 1
        BY <4>1
      <4>3. stack'[i].path = Place /\ stack'[i].node = Current.node /\ stack'[i].next = 1
            /\ N.node = Current.node
        BY <3>3
      <4> QED BY <1>4, <3>3, <4>2, <4>3
    <3> QED BY <1>8, <3>1, <3>2, <3>3
  <2>2. ASSUME NEW i \in 1 .. M, NEW j \in 1 .. M, i # j PROVE stack'[i].path # stack'[j].path
    <3>1. CASE i \in 1 .. L /\ j \in 1 .. L
      <4>1. stack[i].path # stack[j].path
        BY <1>7, <2>2, <3>1 DEF ExportInv, StackInv, Busy
      <4>2. stack'[i].path = stack[i].path /\ stack'[j].path = stack[j].path
        BY <1>10a, <3>1
      <4> QED BY <4>1, <4>2
    <3>2. CASE ~(i \in 1 .. L /\ j \in 1 .. L)
      BY <1>3, <1>9, <1>10, <2>2, <3>2
    <3> QED BY <3>1, <3>2
  <2> QED BY <1>7, <2>1, <2>2 DEF StackInv
<1>12. TreeInv'
  BY <1>3, <1>4 DEF ExportInv, TreeInv, Running, Busy
<1>13. NamesInv'
  <2>1. ASSUME NEW i \in 1 .. M, NEW p \in DOMAIN host', Front(p) = stack'[i].path
        PROVE  \E j \in DOMAIN stack'[i].names :
                 p = Append(stack'[i].path, Upper(stack'[i].names[j]))
    <3>1. CASE i \in 1 .. L /\ i # L /\ stack'[i] = stack[i]
      <4>1. p \in DOMAIN host
        <5>1. Front(p) # Frame.path
          BY <1>9, <2>1, <3>1
        <5> QED BY <1>3, <1>4, <5>1
      <4>2. Front(p) = stack[i].path /\ i \in DOMAIN stack
        BY <1>7, <2>1, <3>1
      <4>3. \E j \in DOMAIN stack[i].names : p = Append(stack[i].path, Upper(stack[i].names[j]))
        BY <4>1, <4>2 DEF ExportInv, NamesInv, Busy
      <4> QED BY <3>1, <4>3
    <3>2. CASE i \in 1 .. L /\ i = L /\ stack'[i] = R /\ stack[i] = Frame
      <4>1. /\ Append(Frame.names, NewName) \in Seq(Name)
            /\ DOMAIN Append(Frame.names, NewName) = 1 .. Len(Frame.names) + 1
            /\ Append(Frame.names, NewName)[Len(Frame.names) + 1] = NewName
            /\ \A j \in 1 .. Len(Frame.names) : Append(Frame.names, NewName)[j] = Frame.names[j]
            /\ DOMAIN Frame.names = 1 .. Len(Frame.names) /\ Len(Frame.names) \in Nat
        BY <1>1, <1>3, OneMoreName
      <4>2. CASE p = Place
        <5>1. Len(Frame.names) + 1 \in DOMAIN R.names /\ R.names[Len(Frame.names) + 1] = NewName
          BY <4>1
        <5>2. p = Append(R.path, Upper(R.names[Len(Frame.names) + 1]))
          BY <4>2, <5>1 DEF Place
        <5> QED BY <3>2, <5>1, <5>2
      <4>3. CASE p \in DOMAIN host
        <5>1. PICK j \in DOMAIN Frame.names : p = Append(Frame.path, Upper(Frame.names[j]))
          <6>1. Front(p) = Frame.path /\ i \in DOMAIN stack /\ stack[i] = Frame
            BY <1>7, <2>1, <3>2
          <6> QED BY <4>3, <6>1 DEF ExportInv, NamesInv, Busy
        <5>2. j \in DOMAIN R.names /\ R.names[j] = Frame.names[j]
          BY <4>1, <5>1
        <5> QED BY <3>2, <5>1, <5>2
      <4> QED BY <1>4, <4>2, <4>3
    <3>3. CASE i = L + 1 /\ kind = "dir" /\ stack'[i] = N
      <4>1. Front(p) = Place
        BY <2>1, <3>3
      <4>2. p # Place
        BY <1>3, <4>1
      <4>3. p \in DOMAIN host /\ p \in Seq(Name) /\ p # <<>>
        BY <1>4, <4>2 DEF ExportInv, ExportType, TreeInv, Busy
      <4>4. Len(p) - 1 = Len(Place)
        <5>1. PICK n \in Name : TRUE
          BY <1>1
        <5> QED BY <4>1, <4>3, <5>1, Replaced
      <4>5. Len(p) > 1
        BY <1>3, <4>3, <4>4
      <4> QED BY <1>3, <4>1, <4>3, <4>5 DEF ExportInv, TreeInv, Busy
    <3> QED BY <1>8, <3>1, <3>2, <3>3
  <2> QED BY <1>7, <2>1 DEF NamesInv
<1>14. CountInv'
  <2>1. ASSUME NEW e \in skipped
        PROVE  /\ e[1] \in DOMAIN host'
               /\ \A i \in DOMAIN stack' : stack'[i].path = e[1] => e[2] < stack'[i].next
    <3>1. e[1] \in DOMAIN host /\ e[2] \in Nat
      BY DEF ExportInv, CountInv, Busy, ExportType
    <3>2. ASSUME NEW i \in 1 .. M, stack'[i].path = e[1] PROVE e[2] < stack'[i].next
      <4>1. i \in 1 .. L /\ stack[i].path = e[1]
        BY <1>3, <1>10, <3>1, <3>2
      <4>2. e[2] < stack[i].next /\ stack[i].next \in Nat
        BY <1>7, <1>9, <4>1 DEF ExportInv, CountInv, Busy
      <4>3. stack'[i].next = stack[i].next \/ stack'[i].next = stack[i].next + 1
        <5>1. i # L + 1
          BY <1>1, <4>1
        <5>2. CASE stack'[i] = stack[i]
          BY <5>2
        <5>3. CASE stack'[i] = R /\ stack[i] = Frame
          BY <5>3
        <5> QED BY <1>8, <5>1, <5>2, <5>3
      <4>4. ASSUME NEW a \in Nat, NEW b \in Nat, NEW c, a < b, c = b \/ c = b + 1 PROVE a < c
        BY <4>4
      <4> QED BY <3>1, <4>2, <4>3, <4>4
    <3> QED BY <1>4, <1>7, <3>1, <3>2
  <2>2. ASSUME NEW p \in DOMAIN host', host'[p].state = "dir"
        PROVE  Due(p)'
    <3>1. /\ Cardinality(Children(p)) \in Nat
          /\ Cardinality(Children(p)') = IF Frame.path = p THEN Cardinality(Children(p)) + 1
                                         ELSE Cardinality(Children(p))
      BY <1>3, <1>4, ChildrenOfPlaced DEF ExportInv, ExportType
    <3>2. SkippedIn(p)' = SkippedIn(p) /\ Cardinality(SkippedIn(p)) \in Nat
      BY CountTyped DEF ExportInv, SkippedIn
    <3>3. Count(p) \in Nat /\ Count(p)' = IF Frame.path = p THEN Count(p) + 1 ELSE Count(p)
      BY <3>1, <3>2 DEF Count
    <3>4. CASE p \in DOMAIN host
      <4>1. Due(p) /\ host'[p] = host[p] /\ p # Place
        BY <1>3, <1>4, <2>2, <3>4 DEF ExportInv, CountInv, Busy
      <4>2. ASSUME NEW i \in 1 .. M, stack'[i].path = p PROVE Count(p)' = stack'[i].next - 1
        <5>1. i \in 1 .. L /\ stack[i].path = p /\ i # L + 1
          BY <1>10, <1>10a, <4>1, <4>2
        <5>2. Count(p) = stack[i].next - 1 /\ stack[i].next \in Nat
          BY <1>7, <1>9, <4>1, <5>1 DEF Due
        <5>3. CASE i # L /\ stack'[i] = stack[i]
          <6>1. Frame.path # p
            BY <1>9, <5>1, <5>3
          <6> QED BY <3>3, <5>2, <5>3, <6>1
        <5>4. CASE i = L /\ stack'[i] = R /\ stack[i] = Frame
          <6>1. Frame.path = p /\ Count(p)' = Count(p) + 1
            BY <3>3, <5>1, <5>4
          <6>2. stack'[i].next = Frame.next + 1 /\ Count(p) = Frame.next - 1
            BY <5>2, <5>4
          <6>3. (Frame.next - 1) + 1 = Frame.next /\ (Frame.next + 1) - 1 = Frame.next
            BY <1>3, MoreAndLess, Zenon
          <6>4. Count(p)' = (Frame.next - 1) + 1 /\ stack'[i].next - 1 = (Frame.next + 1) - 1
            BY <6>1, <6>2, Zenon
          <6> QED BY <6>3, <6>4, Zenon
        <5> QED BY <1>8, <5>1, <5>3, <5>4
      <4>3. ASSUME \A i \in 1 .. M : stack'[i].path # p
            PROVE  Count(p)' = Len(Entries[host'[p].node])
        <5>1. ASSUME NEW i \in 1 .. L PROVE stack[i].path # p
          <6>1. i \in 1 .. M /\ i # L + 1
            BY <1>1, <1>7
          <6> QED BY <1>10, <4>3, <6>1
        <5>2. L \in 1 .. L
          BY <1>1
        <5>3. Frame.path # p
          BY <1>1, <5>1, <5>2
        <5> QED BY <1>7, <3>3, <4>1, <5>1, <5>3 DEF Due
      <4> QED BY <1>7, <4>2, <4>3 DEF Due
    <3>5. CASE p = Place
      <4>1. kind = "dir"
        BY <1>4, <2>2, <3>5
      <4>2. Children(p) = {} /\ SkippedIn(p) = {}
        <5>1. ASSUME NEW q \in DOMAIN host, q # <<>>, Front(q) = Place PROVE FALSE
          <6>1. q \in Seq(Name)
            BY DEF ExportInv, ExportType
          <6>2. Len(q) - 1 = Len(Place) /\ Len(q) \in Nat
            <7>1. PICK n \in Name : TRUE
              BY <1>1
            <7> QED BY <5>1, <6>1, <7>1, Replaced
          <6>3. Len(q) > 1
            BY <1>3, <6>2
          <6> QED BY <1>3, <5>1, <6>3 DEF ExportInv, TreeInv, Busy
        <5>2. SkippedIn(p) = {}
          BY <1>3, <3>5 DEF ExportInv, CountInv, Busy, SkippedIn
        <5> QED BY <3>5, <5>1, <5>2 DEF Children
      <4>3. Count(p)' = 0
        <5>1. Count(p) = 0
          BY <4>2, FS_EmptySet DEF Count
        <5> QED BY <1>3, <3>3, <3>5, <5>1
      <4>4. ASSUME NEW i \in 1 .. M, stack'[i].path = p PROVE stack'[i] = N
        BY <1>3, <1>8, <1>9, <1>10, <3>5, <4>4
      <4>5. M \in 1 .. M /\ stack'[M].path = p
        BY <1>1, <1>2, <1>7, <3>5, <4>1
      <4> QED BY <1>7, <4>3, <4>4, <4>5 DEF Due
    <3> QED BY <1>4, <3>4, <3>5
  <2> QED BY <2>1, <2>2 DEF CountInv, Running
<1>15. EndInv'
  BY DEF EndInv, Busy, Running
<1> QED BY <1>5, <1>6, <1>11, <1>12, <1>13, <1>14, <1>15 DEF ExportInv

\* While no file is being written, all that is on the host is complete.
LEMMA NothingPartial ==
  ASSUME ExportInv, writing = NoFile
  PROVE  \A p \in DOMAIN host : host[p].state # "part"
BY TreeFacts DEF ExportInv, WritingInv, NoFile

\* An export ends with an error, or the program with it.
LEMMA Ending ==
  ASSUME ExportType', writing' = NoFile, outcome' \in {"error", "crashed"},
         \A p \in DOMAIN host' : host'[p].state # "part"
  PROVE  ExportInv'
BY DEF ExportInv, WritingInv, StackInv, TreeInv, NamesInv, CountInv, EndInv, Running

\* Every call on the way returns false.
LEMMA FailsStep ==
  ASSUME NEW above, ExportInv, Fails(above),
         host' \in [DOMAIN host' -> PlacedType],
         DOMAIN host' \in SUBSET Seq(Name), IsFiniteSet(DOMAIN host'),
         \A p \in DOMAIN host' : host'[p].state # "part"
  PROVE  ExportInv'
<1>1. NoFile \in FileType /\ <<>> \in Seq(FrameType)
  BY TreeFacts DEF NoFile, FileType
<1>2. ExportType'
  BY <1>1 DEF ExportInv, ExportType, Fails
<1>3. writing' = NoFile /\ outcome' \in {"error", "crashed"}
  BY DEF Fails
<1> QED BY <1>2, <1>3, Ending

\* A chunk of a file is written.
LEMMA ChunkStep ==
  ASSUME ExportInv, Chunk
  PROVE  ExportInv'
<1>1. /\ writing' \in FileType
      /\ writing'.node = writing.node /\ writing'.path = writing.path
  <2>1. ASSUME NEW w \in FileType, w.left > 0
        PROVE  /\ [w EXCEPT !.left = @ - 1] \in FileType
               /\ [w EXCEPT !.left = @ - 1].node = w.node
               /\ [w EXCEPT !.left = @ - 1].path = w.path
    BY <2>1 DEF FileType
  <2> QED BY <2>1 DEF Chunk, ExportInv, ExportType
<1>2. writing # NoFile
  BY DEF Chunk, NoFile
<1>3. ExportType'
  BY <1>1 DEF ExportInv, ExportType, Chunk
<1>4. WritingInv'
  BY <1>1, <1>2 DEF ExportInv, WritingInv, Chunk, Running
<1>5. StackInv' /\ TreeInv' /\ NamesInv'
  BY DEF ExportInv, StackInv, TreeInv, NamesInv, Chunk, Running
<1>6. CountInv'
  BY DEF ExportInv, CountInv, Due, Count, Children, SkippedIn, Chunk, Running
<1>7. EndInv'
  BY DEF EndInv, Chunk, Running
<1> QED BY <1>3, <1>4, <1>5, <1>6, <1>7 DEF ExportInv

\* The device or the host fails: the broken file is removed.
LEMMA ChunkFailsStep ==
  ASSUME ExportInv, ChunkFails
  PROVE  ExportInv'
<1>1. /\ DOMAIN host' = DOMAIN host \ {writing.path}
      /\ \A p \in DOMAIN host' : host'[p] = host[p]
      /\ host' \in [DOMAIN host' -> PlacedType]
  BY DEF ChunkFails, ExportInv, ExportType
<1>2. IsFiniteSet(DOMAIN host') /\ DOMAIN host' \in SUBSET Seq(Name)
  BY <1>1, FS_Subset DEF ExportInv, ExportType
<1>3. \A p \in DOMAIN host' : host'[p].state # "part"
  BY <1>1 DEF ExportInv, WritingInv
<1>4. Fails(stack)
  BY DEF ChunkFails
<1> QED BY <1>1, <1>2, <1>3, <1>4, FailsStep

\* The last of a file is written.
LEMMA EndFileStep ==
  ASSUME ExportInv, EndFile
  PROVE  ExportInv'
<1>1. /\ Kind[writing.node] = "file"
      /\ writing.path \in DOMAIN host /\ host[writing.path].state = "part"
      /\ writing \in FileType
  BY DEF EndFile, ExportInv, WritingInv, ExportType
<1>2. /\ DOMAIN host' = DOMAIN host
      /\ host'[writing.path].state = "closed"
      /\ \A q \in DOMAIN host : q # writing.path => host'[q] = host[q]
      /\ host' \in [DOMAIN host -> PlacedType]
  BY <1>1 DEF EndFile, On, ExportInv, ExportType, PlacedType, FileType
<1>3. ExportType'
  <2>1. NoFile \in FileType
    BY TreeFacts DEF NoFile, FileType
  <2> QED BY <1>2, <2>1 DEF ExportInv, ExportType, EndFile
<1>4. WritingInv'
  <2>1. ASSUME NEW p \in DOMAIN host, host'[p].state = "part" PROVE FALSE
    BY <1>2, <2>1 DEF ExportInv, WritingInv
  <2>2. writing' = NoFile /\ Kind[writing'.node] # "file"
    BY TreeFacts DEF EndFile, NoFile
  <2> QED BY <1>2, <2>1, <2>2 DEF WritingInv
<1>5. StackInv'
  <2>1. ASSUME NEW i \in DOMAIN stack PROVE stack[i].path # writing.path
    <3>1. host[stack[i].path] = [node |-> stack[i].node, state |-> "dir"]
      BY DEF EndFile, ExportInv, StackInv
    <3> QED BY <1>1, <3>1
  <2> QED BY <1>2, <2>1 DEF EndFile, ExportInv, StackInv, Running
<1>6. TreeInv' /\ NamesInv'
  BY <1>2 DEF EndFile, ExportInv, TreeInv, NamesInv, Running
<1>7. CountInv'
  <2>1. ASSUME NEW p \in DOMAIN host, host'[p].state = "dir"
        PROVE  Due(p)'
    <3>1. host'[p] = host[p]
      BY <1>2, <2>1
    <3>2. Due(p)
      BY <2>1, <3>1 DEF ExportInv, CountInv, EndFile
    <3>3. Count(p)' = Count(p)
      BY <1>2 DEF Count, Children, SkippedIn, EndFile
    <3> QED BY <3>1, <3>2, <3>3 DEF Due, EndFile
  <2> QED BY <1>2, <2>1 DEF ExportInv, CountInv, EndFile
<1>8. EndInv'
  BY DEF EndInv, EndFile, Running
<1> QED BY <1>3, <1>4, <1>5, <1>6, <1>7, <1>8 DEF ExportInv

\* A directory is left.
LEMMA EndDirectoryStep ==
  ASSUME ExportInv, EndDirectory
  PROVE  ExportInv'
<1> DEFINE L == Len(stack)
<1>1. /\ stack \in Seq(FrameType) /\ L \in Nat \ {0}
      /\ Frame = stack[L] /\ Frame \in FrameType
      /\ stack' \in Seq(FrameType) /\ Len(stack') = L - 1
      /\ \A i \in 1 .. L - 1 : stack'[i] = stack[i]
  <2>1. stack \in Seq(FrameType) /\ stack # <<>> /\ stack' = Front(stack) /\ Frame = Last(stack)
    BY DEF EndDirectory, Busy, ExportInv, ExportType, Above, Frame
  <2>2. PICK x \in FrameType : TRUE
    BY <2>1
  <2> QED BY <2>1, <2>2, Replaced
<1>2. DOMAIN stack = 1 .. L /\ DOMAIN stack' = 1 .. L - 1
  BY <1>1
<1> HIDE DEF L
<1>3. \A i \in 1 .. L - 1 : i \in 1 .. L /\ i # L
  BY <1>1
<1>4. ExportType'
  BY <1>1 DEF ExportInv, ExportType, EndDirectory
<1>5. WritingInv'
  BY DEF ExportInv, WritingInv, EndDirectory, Busy, Running
<1>6. StackInv'
  BY <1>1, <1>2, <1>3 DEF ExportInv, StackInv, EndDirectory, Busy, Running
<1>7. TreeInv'
  BY DEF ExportInv, TreeInv, EndDirectory, Busy, Running
<1>8. NamesInv'
  <2>1. ASSUME NEW i \in 1 .. L - 1, NEW p \in DOMAIN host, Front(p) = stack'[i].path
        PROVE  \E j \in DOMAIN stack'[i].names :
                 p = Append(stack'[i].path, Upper(stack'[i].names[j]))
    <3>1. i \in DOMAIN stack /\ stack'[i] = stack[i]
      BY <1>1, <1>2, <1>3
    <3> QED BY <2>1, <3>1 DEF ExportInv, NamesInv, EndDirectory, Busy
  <2> QED BY <1>2, <2>1 DEF NamesInv, EndDirectory
<1>9. Frame.next - 1 = Len(Entries[Frame.node])
  <2>1. Entries[Frame.node] \in Seq([name : Name, node : Nodes]) /\ Frame.next \in Nat \ {0}
    BY <1>1, TreeFacts DEF FrameType, Dirs
  <2>2. Frame.next <= Len(Entries[Frame.node]) + 1
    <3>1. L \in DOMAIN stack
      BY <1>1, <1>2
    <3> QED BY <1>1, <3>1 DEF ExportInv, StackInv, EndDirectory, Busy
  <2>3. ASSUME NEW T, NEW t \in Seq(T), NEW n \in Nat \ {0}, n <= Len(t) + 1, n \notin DOMAIN t
        PROVE  n - 1 = Len(t)
    BY <2>3
  <2> QED BY <2>1, <2>2, <2>3 DEF EndDirectory, More
<1>10. CountInv'
  <2>1. ASSUME NEW p \in DOMAIN host, host[p].state = "dir"
        PROVE  Due(p)'
    <3>1. Due(p)
      BY <2>1 DEF ExportInv, CountInv, EndDirectory, Busy
    <3>2. Count(p)' = Count(p)
      BY DEF Count, Children, SkippedIn, EndDirectory
    <3>3. ASSUME NEW i \in 1 .. L - 1, stack'[i].path = p PROVE Count(p)' = stack'[i].next - 1
      BY <1>1, <1>2, <1>3, <3>1, <3>2, <3>3 DEF Due
    <3>4. ASSUME \A i \in 1 .. L - 1 : stack'[i].path # p
          PROVE  Count(p)' = Len(Entries[host[p].node])
      <4>1. CASE Frame.path = p
        <5>1. L \in DOMAIN stack /\ stack[L].path = p
          BY <1>1, <1>2, <4>1
        <5>2. host[p].node = Frame.node
          <6>1. host[stack[L].path] = [node |-> stack[L].node, state |-> "dir"]
            BY <5>1 DEF ExportInv, StackInv, EndDirectory, Busy
          <6> QED BY <1>1, <5>1, <6>1
        <5> QED BY <1>1, <1>9, <3>1, <3>2, <5>1, <5>2 DEF Due
      <4>2. CASE Frame.path # p
        <5>1. ASSUME NEW i \in 1 .. L PROVE stack[i].path # p
          <6>1. i \in 1 .. L - 1 \/ i = L
            BY <1>1
          <6> QED BY <1>1, <3>4, <4>2, <6>1
        <5> QED BY <1>2, <3>1, <3>2, <5>1 DEF Due
      <4> QED BY <4>1, <4>2
    <3> QED BY <1>2, <3>3, <3>4 DEF Due, EndDirectory
  <2>2. ASSUME NEW e \in skipped
        PROVE  /\ e[1] \in DOMAIN host
               /\ \A i \in 1 .. L - 1 : stack'[i].path = e[1] => e[2] < stack'[i].next
    BY <1>1, <1>2, <1>3 DEF ExportInv, CountInv, EndDirectory, Busy
  <2> QED BY <1>2, <2>1, <2>2 DEF CountInv, EndDirectory
<1>11. EndInv'
  BY DEF EndInv, EndDirectory, Busy, Running
<1> QED BY <1>4, <1>5, <1>6, <1>7, <1>8, <1>10, <1>11 DEF ExportInv

\* The export has come to its end.
LEMMA EndExportStep ==
  ASSUME ExportInv, EndExport
  PROVE  ExportInv'
<1>1. ExportType'
  BY DEF ExportInv, ExportType, EndExport
<1>2. WritingInv'
  BY NothingPartial DEF WritingInv, EndExport, Running
<1>3. StackInv' /\ TreeInv' /\ NamesInv' /\ EndInv'
  BY DEF StackInv, TreeInv, NamesInv, EndInv, EndExport, Running
<1>4. CountInv'
  BY DEF ExportInv, CountInv, Due, Count, Children, SkippedIn, EndExport, Running
<1> QED BY <1>1, <1>2, <1>3, <1>4 DEF ExportInv

\* An entry cannot be read.
LEMMA UnreadableStep ==
  ASSUME ExportInv, Unreadable
  PROVE  ExportInv'
<1>1. Frame \in FrameType
  BY AtEntry DEF Unreadable
<1> DEFINE R == [Frame EXCEPT !.next = @ + 1]
<1>2. /\ R \in FrameType /\ R.path = Frame.path /\ R.node = Frame.node
      /\ R.next = Frame.next + 1 /\ R.names = Frame.names
  BY <1>1 DEF FrameType
<1>3. /\ Busy /\ More /\ stack' = Append(Above, R) /\ skipped' = skipped \cup {ThisEntry}
      /\ UNCHANGED <<writing, host, outcome>>
  BY DEF Unreadable
<1> HIDE DEF R
<1>4. \A j \in DOMAIN Frame.names : j \in DOMAIN R.names /\ R.names[j] = Frame.names[j]
  BY <1>2
<1> QED BY <1>2, <1>3, <1>4, Passing

\* An entry whose name is not UTF-8 ends the program.
LEMMA UndecodableStep ==
  ASSUME ExportInv, Undecodable
  PROVE  ExportInv'
<1>1. ExportType' /\ writing' = NoFile /\ outcome' \in {"error", "crashed"}
  BY DEF ExportInv, ExportType, Undecodable, Busy
<1>2. \A p \in DOMAIN host' : host'[p].state # "part"
  BY NothingPartial DEF Undecodable, Busy
<1> QED BY <1>1, <1>2, Ending

\* The directory with the names given so far, after an entry.
LEMMA NextFrame ==
  ASSUME NEW F \in FrameType, NEW name \in Name
  PROVE  LET R == [F EXCEPT !.next = @ + 1, !.names = Append(@, name)]
         IN /\ R \in FrameType /\ R.path = F.path /\ R.node = F.node
            /\ R.next = F.next + 1 /\ R.names = Append(F.names, name)
            /\ \A j \in DOMAIN F.names : j \in DOMAIN R.names /\ R.names[j] = F.names[j]
<1> DEFINE R == [F EXCEPT !.next = @ + 1, !.names = Append(@, name)]
<1>1. F.names \in Seq(Name) /\ F.next \in Nat \ {0} /\ F.path \in Seq(Name) /\ F.node \in Dirs
  BY DEF FrameType
<1>2. /\ Append(F.names, name) \in Seq(Name)
      /\ \A j \in DOMAIN F.names :
           j \in DOMAIN Append(F.names, name) /\ Append(F.names, name)[j] = F.names[j]
  BY <1>1
<1>3. R.path = F.path /\ R.node = F.node /\ R.next = F.next + 1 /\ R.names = Append(F.names, name)
  BY DEF FrameType
<1>4. ASSUME NEW n \in Nat \ {0}, NEW names \in Seq(Name)
      PROVE  [F EXCEPT !.next = n, !.names = names] \in FrameType
  BY DEF FrameType
<1>5. R \in FrameType
  <2>1. F.next + 1 \in Nat \ {0}
    BY <1>1
  <2> QED BY <1>2, <1>4, <2>1
<1> QED BY <1>2, <1>3, <1>5

\* The next entry is visited.
LEMMA NextEntryStep ==
  ASSUME ExportInv, NextEntry
  PROVE  ExportInv'
<1> DEFINE R == [Frame EXCEPT !.next = @ + 1, !.names = Append(@, NewName)]
           above == Append(Above, R)
<1>1. /\ Busy /\ More /\ writing = NoFile
      /\ Visits(above, Current.node, Place, ThisEntry)
  BY DEF NextEntry, NewName, Place, Busy
<1>2. Frame \in FrameType /\ NewName \in Name /\ Current.node \in Nodes
  BY <1>1, AtEntry
<1>3. /\ R \in FrameType /\ R.path = Frame.path /\ R.node = Frame.node
      /\ R.next = Frame.next + 1 /\ R.names = Append(Frame.names, NewName)
      /\ \A j \in DOMAIN Frame.names : j \in DOMAIN R.names /\ R.names[j] = Frame.names[j]
  BY <1>2, NextFrame
<1> HIDE DEF R
<1>4. /\ Place \in Seq(Name) /\ Place \notin DOMAIN host
  BY <1>1, PlaceIsFree
<1>5. /\ host \in [DOMAIN host -> PlacedType] /\ DOMAIN host \in SUBSET Seq(Name)
      /\ IsFiniteSet(DOMAIN host) /\ writing \in FileType
      /\ \A p \in DOMAIN host : host[p].state # "part"
  BY <1>1, NothingPartial DEF ExportInv, ExportType
<1>6. CASE Refused(above, Current.node)
  <2>1. Fails(above) /\ host' = host
    BY <1>6 DEF Refused
  <2> QED BY <1>5, <2>1, FailsStep
<1>7. CASE Opens(above, Current.node, Place)
  <2> DEFINE N == [node |-> Root, path |-> Place, next |-> 1, names |-> <<>>]
  <2>1. N \in FrameType /\ N.path = Place /\ N.next = 1
    BY <1>4, TreeFacts DEF FrameType, Dirs
  <2>2. /\ Kind[writing'.node] = "file" /\ writing'.path = Place /\ writing' \in FileType
    BY <1>2, <1>4, <1>7, ExportFacts DEF Opens, FileType
  <2>3. /\ stack' = Append(Above, R) /\ On(Place, Current.node, "part")
        /\ UNCHANGED <<skipped, outcome>>
    BY <1>7 DEF Opens
  <2> HIDE DEF N
  <2> QED BY <1>1, <1>3, <2>1, <2>2, <2>3, Placing
<1>8. CASE Skips(above, Current.node, ThisEntry)
  <2>1. /\ stack' = Append(Above, R) /\ skipped' = skipped \cup {ThisEntry}
        /\ UNCHANGED <<writing, host, outcome>>
    BY <1>8 DEF Skips
  <2> QED BY <1>1, <1>3, <2>1, Passing
<1>9. CASE Enters(above, Current.node, Place)
  <2>1. Kind[Current.node] = "dir" /\ On(Place, Current.node, "dir")
    BY <1>9 DEF Enters
  <2>2. CASE Fails(above)
    <3>1. /\ DOMAIN host' = DOMAIN host \cup {Place}
          /\ host' \in [DOMAIN host' -> PlacedType]
          /\ host'[Place].state = "dir"
          /\ \A p \in DOMAIN host : host'[p] = host[p]
      BY <1>2, <1>4, <1>5, <2>1 DEF On, PlacedType
    <3>2. IsFiniteSet(DOMAIN host') /\ DOMAIN host' \in SUBSET Seq(Name)
      BY <1>4, <1>5, <3>1, FS_AddElement
    <3>3. \A p \in DOMAIN host' : host'[p].state # "part"
      BY <1>5, <3>1
    <3> QED BY <2>2, <3>1, <3>2, <3>3, FailsStep
  <2> DEFINE N == [node |-> Current.node, path |-> Place, next |-> 1, names |-> <<>>]
  <2>3. CASE stack' = Append(above, N) /\ UNCHANGED <<writing, skipped, outcome>>
    <3>1. N \in FrameType /\ N.path = Place /\ N.next = 1 /\ N.node = Current.node
      BY <1>2, <1>4, <2>1 DEF FrameType, Dirs
    <3>2. writing' \in FileType /\ writing' = NoFile
      BY <1>1, <1>5, <2>3
    <3>3. stack' = Append(Append(Above, R), N) /\ UNCHANGED <<skipped, outcome>>
      BY <2>3
    <3> HIDE DEF N
    <3> QED BY <1>1, <1>3, <2>1, <3>1, <3>2, <3>3, Placing
  <2> QED BY <1>9, <2>2, <2>3 DEF Enters
<1> QED BY <1>1, <1>6, <1>7, <1>8, <1>9 DEF Visits

\* An export begins with nothing on the host but what it puts there first.
LEMMA StartStep ==
  ASSUME NEW node \in Nodes, NEW name \in Name, StartExport(node, name)
  PROVE  ExportInv'
<1> DEFINE top == <<Upper(name)>>
           frame == [node |-> node, path |-> top, next |-> 1, names |-> <<>>]
<1>1. /\ top \in Seq(Name) /\ top # <<>> /\ Len(top) = 1 /\ ~(Len(top) > 1)
      /\ skipped' = {} /\ IsFiniteSet({}) /\ IsFiniteSet({top})
      /\ <<>> \in Seq(FrameType) /\ NoFile \in FileType /\ Kind[NoFile.node] = "dir"
  <2>1. top \in Seq(Name) /\ top # <<>> /\ Len(top) = 1 /\ ~(Len(top) > 1)
    BY NamesTyped
  <2>2. skipped' = {} /\ IsFiniteSet({}) /\ IsFiniteSet({top})
    BY FS_EmptySet, FS_Singleton DEF StartExport
  <2>3. <<>> \in Seq(FrameType)
    OBVIOUS
  <2>4. NoFile \in FileType /\ Kind[NoFile.node] = "dir"
    BY TreeFacts DEF NoFile, FileType
  <2> QED BY <2>1, <2>2, <2>3, <2>4
<1>2. CASE /\ Kind[node] = "file"
           /\ host' = [p \in {top} |-> [node |-> node, state |-> "part"]]
           /\ stack' = <<>> /\ outcome' = "running"
           /\ writing' = [node |-> node, path |-> top, left |-> Chunks[node]]
  <2>1. DOMAIN host' = {top} /\ host'[top].state = "part" /\ host' \in [{top} -> PlacedType]
    BY <1>2 DEF PlacedType
  <2>2. writing' \in FileType /\ writing'.node = node /\ writing'.path = top
    BY <1>1, <1>2, ExportFacts DEF FileType
  <2> HIDE DEF top
  <2>3. ExportType'
    BY <1>1, <1>2, <2>1, <2>2 DEF ExportType
  <2>4. WritingInv' /\ EndInv'
    BY <1>2, <2>1, <2>2 DEF WritingInv, EndInv, Running
  <2>5. StackInv' /\ NamesInv'
    BY <1>2 DEF StackInv, NamesInv
  <2>6. TreeInv'
    <3>1. \A p \in {top} : p # <<>> /\ ~(Len(p) > 1)
      BY <1>1, Zenon
    <3> QED BY <2>1, <3>1 DEF TreeInv
  <2>7. CountInv'
    BY <1>1, <1>2, <2>1 DEF CountInv
  <2> QED BY <2>3, <2>4, <2>5, <2>6, <2>7 DEF ExportInv
<1>3. CASE /\ Kind[node] = "dir"
           /\ host' = [p \in {top} |-> [node |-> node, state |-> "dir"]]
           /\ \/ stack' = <<frame>> /\ writing' = NoFile /\ outcome' = "running"
              \/ stack' = <<>> /\ writing' = NoFile /\ outcome' = "error"
  <2>1. /\ DOMAIN host' = {top} /\ host'[top] = [node |-> node, state |-> "dir"]
        /\ host' \in [{top} -> PlacedType]
    BY <1>3 DEF PlacedType
  <2>2. frame \in FrameType /\ <<frame>> \in Seq(FrameType)
    BY <1>1, <1>3 DEF FrameType, Dirs
  <2>3. ExportType'
    BY <1>1, <1>3, <2>1, <2>2 DEF ExportType
  <2>4. CASE stack' = <<>>
    <3>1. writing' = NoFile /\ outcome' = "error"
      BY <1>3, <2>4
    <3>2. \A p \in DOMAIN host' : host'[p].state # "part"
      BY <2>1
    <3> QED BY <2>3, <3>1, <3>2, Ending
  <2>5. CASE stack' = <<frame>>
    <3>1. writing' = NoFile /\ outcome' = "running"
      BY <1>3, <2>5
    <3>2. /\ DOMAIN stack' = {1} /\ stack'[1].node = node /\ stack'[1].path = top
          /\ stack'[1].next = 1
      BY <2>5
    <3>3. Front(top) # top
      <4>1. Front(top) = <<>>
        BY <1>1 DEF Front
      <4> QED BY <1>1, <4>1
    <3> HIDE DEF top, frame
    <3>4. WritingInv' /\ EndInv'
      BY <1>1, <2>1, <3>1 DEF WritingInv, EndInv
    <3>5. StackInv'
      <4>1. Len(Entries[node]) \in Nat
        BY <1>3, TreeFacts
      <4>2. 1 <= Len(Entries[node]) + 1
        BY <4>1
      <4> QED BY <2>1, <3>2, <4>2 DEF StackInv
    <3>6. TreeInv' /\ NamesInv'
      <4>1. TreeInv'
        <5>1. \A p \in {top} : p # <<>> /\ ~(Len(p) > 1)
          BY <1>1, Zenon
        <5> QED BY <2>1, <5>1 DEF TreeInv
      <4>2. NamesInv'
        BY <2>1, <3>2, <3>3 DEF NamesInv
      <4> QED BY <4>1, <4>2
    <3>7. CountInv'
      <4>1. Children(top)' = {} /\ SkippedIn(top)' = {}
        BY <1>1, <2>1, <3>3 DEF Children, SkippedIn
      <4>2. Count(top)' = 0
        BY <4>1, FS_EmptySet DEF Count
      <4>3. Due(top)'
        BY <3>2, <4>2 DEF Due
      <4> QED BY <1>1, <2>1, <4>3 DEF CountInv
    <3> QED BY <2>3, <3>4, <3>5, <3>6, <3>7 DEF ExportInv
  <2> QED BY <1>3, <2>4, <2>5
<1>4. CASE host' = <<>> /\ stack' = <<>> /\ writing' = NoFile /\ outcome' = "running"
  <2>1. DOMAIN host' = {} /\ host' \in [{} -> PlacedType]
    BY <1>4
  <2>2. ExportType'
    BY <1>1, <1>4, <2>1 DEF ExportType
  <2>3. WritingInv' /\ StackInv' /\ TreeInv' /\ NamesInv' /\ CountInv' /\ EndInv'
    BY <1>1, <1>4, <2>1 DEF WritingInv, StackInv, TreeInv, NamesInv, CountInv, EndInv
  <2> QED BY <2>2, <2>3 DEF ExportInv
<1> QED BY <1>2, <1>3, <1>4 DEF StartExport

\* What is asked for cannot be found or read.
LEMMA ExportFailsStep ==
  ASSUME ExportFails
  PROVE  ExportInv'
<1>1. DOMAIN host' = {} /\ host' \in [{} -> PlacedType]
  BY DEF ExportFails
<1>2. ExportType'
  BY <1>1, TreeFacts, FS_EmptySet DEF ExportType, ExportFails, NoFile, FileType
<1>3. writing' = NoFile /\ outcome' \in {"error", "crashed"}
  BY DEF ExportFails
<1> QED BY <1>1, <1>2, <1>3, Ending

\* A step of an export keeps its invariant.
LEMMA ExportingStep ==
  ASSUME ExportInv, Exporting
  PROVE  ExportInv'
BY ChunkStep, ChunkFailsStep, EndFileStep, UnreadableStep, UndecodableStep, NextEntryStep,
   EndDirectoryStep, EndExportStep DEF Exporting

\* Nothing of it depends on anything else.
LEMMA ExportStays ==
  ASSUME ExportInv, UNCHANGED exportVars
  PROVE  ExportInv'
<1>1. ExportType' /\ EndInv'
  BY DEF ExportInv, ExportType, EndInv, exportVars
<1>2. WritingInv' /\ TreeInv'
  BY DEF ExportInv, WritingInv, TreeInv, Running, exportVars
<1>3. StackInv' /\ NamesInv'
  BY DEF ExportInv, StackInv, NamesInv, Running, exportVars
<1>4. CountInv'
  BY DEF ExportInv, CountInv, Due, Count, Children, SkippedIn, Running, exportVars
<1> QED BY <1>1, <1>2, <1>3, <1>4 DEF ExportInv

(***************************************************************************)
(* The page.                                                               *)
(***************************************************************************)

\* A browse leaves a list that is of the path, or that says it is not.
LEMMA BrowseStep ==
  ASSUME ListInv, NEW names \in Seq(Name), BrowseAt(names), session' = session
  PROVE  ListInv'
<1>1. CASE Resolved(names) \in Dirs /\ list' = [session |-> session, path |-> names, intact |-> TRUE]
  <2>1. /\ list'.session = session /\ list'.path = names /\ path' = names
        /\ list' \in [session : Nat, path : Seq(Name) \cup {None}, intact : BOOLEAN]
    BY <1>1 DEF ListInv, BrowseAt
  <2>2. Resolved(list'.path) = Resolved(names)
    BY <2>1
  <2>3. session <= session
    BY DEF ListInv
  <2> QED BY <1>1, <2>1, <2>2, <2>3 DEF ListInv
<1>2. CASE list' = [list EXCEPT !.intact = FALSE]
  <2>1. /\ list'.session = list.session /\ list'.path = list.path /\ list'.intact = FALSE
        /\ path' = names
        /\ list' \in [session : Nat, path : Seq(Name) \cup {None}, intact : BOOLEAN]
    BY <1>2 DEF ListInv, BrowseAt
  <2> QED BY <2>1 DEF ListInv
<1> QED BY <1>1, <1>2 DEF BrowseAt

\* What the list shows are entries of a directory.
LEMMA EntryListed ==
  ASSUME ListInv, NEW e \in EntriesOf
  PROVE  e.name \in Name /\ list.path \in Seq(Name)
<1>1. list.path # None /\ e \in Range(Entries[Resolved(list.path)])
  BY DEF EntriesOf
<1>2. Entries[Resolved(list.path)] \in Seq([name : Name, node : Nodes])
  BY <1>1, TreeFacts DEF ListInv, Dirs
<1>3. ASSUME NEW T, NEW s \in Seq(T), e \in Range(s) PROVE e \in T
  BY <1>3 DEF Range
<1>4. e \in [name : Name, node : Nodes]
  BY <1>1, <1>2, <1>3
<1> QED BY <1>1, <1>4 DEF ListInv

\* The page is shown, or a partition or a directory chosen.
LEMMA BrowsingStep ==
  ASSUME PageInv, Show \/ Enter \/ Up
  PROVE  PageInv' /\ UNCHANGED exportVars
<1>1. ListInv /\ PickedInv /\ OrderInv
  BY DEF PageInv
<1>2. /\ picked = Nothing /\ UNCHANGED <<session, picked, order, exportVars>>
      /\ \E names \in Seq(Name) : BrowseAt(names)
  <2>1. CASE Show
    <3>1. path \in Seq(Name) /\ <<>> \in Seq(Name)
      BY <1>1 DEF ListInv
    <3> QED BY <2>1, <3>1 DEF Show, Restart, Free, Picking
  <2>2. CASE Enter
    <3>1. PICK e \in EntriesOf : BrowseAt(Append(path, e.name))
      BY <2>2 DEF Enter
    <3>2. Append(path, e.name) \in Seq(Name)
      BY <1>1, EntryListed DEF ListInv
    <3> QED BY <2>2, <3>1, <3>2 DEF Enter, Free, Picking
  <2>3. CASE Up
    <3>1. Parent(path) \in Seq(Name)
      <4>1. path \in Seq(Name)
        BY <1>1 DEF ListInv
      <4>2. path # <<>> => Front(path) \in Seq(Name)
        <5>1. ASSUME path # <<>> PROVE \E x : x \in Name
          BY <4>1, <5>1
        <5> QED BY <4>1, <5>1, Replaced
      <4> QED BY <4>1, <4>2 DEF Parent
    <3> QED BY <2>3, <3>1 DEF Up, Free, Picking
  <2> QED BY <2>1, <2>2, <2>3
<1>3. ListInv'
  BY <1>1, <1>2, BrowseStep
<1>4. PickedInv' /\ OrderInv'
  BY <1>1, <1>2 DEF PickedInv, OrderInv, ExportIsOfSelection
<1> QED BY <1>2, <1>3, <1>4 DEF PageInv

\* The entry is taken from the list.
LEMMA PickStep ==
  ASSUME PageInv, Pick
  PROVE  PageInv'
<1>1. ListInv /\ OrderInv
  BY DEF PageInv
<1>2. PICK e \in EntriesOf :
        picked' = [session |-> list.session, path |-> <<>>, name |-> e.name,
                   intact |-> list.intact, from |-> Append(list.path, e.name)]
  BY DEF Pick
<1>3. e.name \in Name /\ list.path \in Seq(Name) /\ list.path # None
  BY <1>1, EntryListed DEF EntriesOf
<1>4. Append(list.path, e.name) \in Seq(Name) /\ <<>> \in Seq(Name)
  BY <1>3
<1>5. picked' \in OrderType /\ picked'.session = list.session /\ picked'.intact = list.intact
      /\ picked'.name = e.name /\ picked'.from = Append(list.path, e.name)
  BY <1>1, <1>2, <1>3, <1>4 DEF OrderType, ListInv
<1>6. PickedInv'
  BY <1>1, <1>3, <1>5 DEF PickedInv, ListInv, Pick
<1>7. ListInv'
  BY <1>1 DEF ListInv, Pick
<1>8. OrderInv'
  BY <1>1 DEF OrderInv, ExportIsOfSelection, Pick
<1> QED BY <1>6, <1>7, <1>8 DEF PageInv

\* The picker is closed.
LEMMA PickerStep ==
  ASSUME PageInv, PickerCancelled \/ PickerAnswered
  PROVE  PageInv'
<1>1. ListInv /\ PickedInv /\ OrderInv
  BY DEF PageInv
<1>2. UNCHANGED <<session, path, list>> /\ picked' = Nothing /\ picked # Nothing
  BY DEF PickerCancelled, PickerAnswered, Picking
<1>3. ListInv'
  BY <1>1, <1>2 DEF ListInv
<1>4. PickedInv'
  BY <1>2 DEF PickedInv
<1>5. CASE PickerCancelled
  <2>1. OrderInv'
    BY <1>1, <1>5 DEF OrderInv, ExportIsOfSelection, PickerCancelled
  <2> QED BY <1>3, <1>4, <2>1 DEF PageInv
<1>6. CASE PickerAnswered
  <2>1. picked \in OrderType /\ Append(path, picked.name) \in Seq(Name)
    BY <1>1, <1>2 DEF PickedInv, OrderType, ListInv
  <2>2. ASSUME NEW s \in Seq(Name)
        PROVE  LET o == [picked EXCEPT !.path = s]
               IN /\ o \in OrderType /\ o.path = s /\ o.session = picked.session
                  /\ o.intact = picked.intact /\ o.from = picked.from
    BY <2>1 DEF OrderType
  <2>3. /\ order' \in OrderType /\ order'.path = Append(path, picked.name)
        /\ order'.session = picked.session /\ order'.intact = picked.intact
        /\ order'.from = picked.from
    BY <1>6, <2>1, <2>2 DEF PickerAnswered
  <2>4. OrderInv'
    BY <1>1, <1>2, <2>3 DEF PickedInv, OrderInv, ExportIsOfSelection
  <2> QED BY <1>3, <1>4, <2>4 DEF PageInv
<1> QED BY <1>5, <1>6

\* The thread of the export has its session.
LEMMA BeginStep ==
  ASSUME PageInv, ExportBegins
  PROVE  PageInv' /\ ExportInv'
<1>1. ListInv /\ PickedInv /\ OrderInv
  BY DEF PageInv
<1>2. ListInv' /\ PickedInv'
  BY <1>1 DEF ListInv, PickedInv, ExportBegins
<1>3. OrderInv'
  BY DEF OrderInv, ExportBegins
<1>4. order.name \in Name
  BY <1>1 DEF OrderInv, OrderType, ExportBegins, Ordered
<1>5. Sanitized(order.name) \in Name
  BY <1>4, NamesTyped
<1>6. ExportInv'
  <2>1. CASE \E node \in Nodes : StartExport(node, Sanitized(order.name))
    BY <1>5, <2>1, StartStep
  <2>2. CASE ExportFails
    BY <2>2, ExportFailsStep
  <2> QED BY <2>1, <2>2 DEF ExportBegins
<1> QED BY <1>2, <1>3, <1>6 DEF PageInv

\* A source is published: what was taken from the source before it is of a
\* session that is no more.
LEMMA PublishStep ==
  ASSUME PageInv, Publish
  PROVE  PageInv'
<1>1. ListInv /\ PickedInv /\ OrderInv
  BY DEF PageInv
<1>2. /\ session' = session + 1 /\ session \in Nat /\ UNCHANGED <<path, list, picked, order>>
  BY <1>1 DEF Publish, ListInv
<1>3. \A n \in Nat : n <= session => n <= session' /\ n # session'
  BY <1>2
<1>4. ListInv'
  <2>1. list'.session <= session' /\ list'.session # session'
    BY <1>1, <1>2, <1>3 DEF ListInv
  <2>2. session' \in Nat
    BY <1>2
  <2> QED BY <1>1, <1>2, <2>1, <2>2 DEF ListInv
<1>5. PickedInv'
  BY <1>1, <1>2, <1>3 DEF PickedInv, OrderType
<1>6. OrderInv'
  BY <1>1, <1>2, <1>3 DEF OrderInv, OrderType, ExportIsOfSelection
<1> QED BY <1>4, <1>5, <1>6 DEF PageInv

\* The lambda of the opener starts the page anew, under the picker too.
LEMMA HandleFinishStep ==
  ASSUME PageInv, HandleFinish
  PROVE  PageInv'
<1>1. ListInv /\ PickedInv /\ OrderInv
  BY DEF PageInv
<1>2. UNCHANGED <<session, order>> /\ BrowseAt(<<>>) /\ <<>> \in Seq(Name)
  BY DEF HandleFinish, Restart
<1>3. ListInv'
  BY <1>1, <1>2, BrowseStep
<1>4. PickedInv'
  <2>1. CASE picked = Nothing
    BY <2>1 DEF PickedInv, HandleFinish, Picking
  <2>2. CASE picked # Nothing
    <3>1. picked' = [picked EXCEPT !.intact = FALSE] /\ picked \in OrderType
          /\ picked.session <= session
      BY <1>1, <2>2 DEF PickedInv, HandleFinish, Picking
    <3>2. picked' \in OrderType /\ picked'.session = picked.session /\ picked'.intact = FALSE
      BY <3>1 DEF OrderType
    <3> QED BY <1>2, <3>1, <3>2 DEF PickedInv
  <2> QED BY <2>1, <2>2
<1>5. OrderInv'
  BY <1>1, <1>2 DEF OrderInv, ExportIsOfSelection
<1> QED BY <1>3, <1>4, <1>5 DEF PageInv

\* Nothing of the page depends on anything else.
LEMMA PageStays ==
  ASSUME PageInv, UNCHANGED pageVars
  PROVE  PageInv'
<1>1. ListInv /\ PickedInv /\ OrderInv
  BY DEF PageInv
<1>2. ListInv'
  BY <1>1 DEF ListInv, pageVars
<1>3. PickedInv' /\ OrderInv'
  BY <1>1 DEF PickedInv, OrderInv, ExportIsOfSelection, pageVars
<1> QED BY <1>2, <1>3 DEF PageInv

(***************************************************************************)
(* The ways that lead to a node of the mounted volume.                     *)
(***************************************************************************)

\* The listing of a directory that could be read shows the node under the name.
Shows(dir, name, node) ==
  /\ dir \in Dirs
  /\ \E i \in DOMAIN Listed(dir, {}) :
       Listed(dir, {})[i].node = node /\ Same(Names(dir, {})[i], name)

\* The first k names lead along g, except that below a directory of D they may
\* lead anywhere.
Along(D, names, k, g) ==
  /\ k \in 0 .. Len(names) /\ g \in [0 .. k -> Nodes] /\ g[0] = Top
  /\ \A i \in 1 .. k : g[i - 1] \in D \/ Shows(g[i - 1], names[i], g[i])

LeadsTo(D, names, node) ==
  \E g : Along(D, names, Len(names), g) /\ g[Len(names)] = node

\* A call has come to where it is along the names that are not its rest.
Walked(D, c) ==
  \E k \in 0 .. Len(c.names) : \E g :
    /\ Along(D, c.names, k, g) /\ g[k] = c.at
    /\ \A i \in 0 .. k - 1 : g[i] \in c.via
    /\ Len(c.rest) = Len(c.names) - k
    /\ \A i \in 1 .. Len(c.rest) : c.rest[i] = c.names[k + i]

Asked == {"create", "info", "read", "find"}
CallType ==
  [op : Asked \cup {"none", "status"}, names : Path, want : Nodes \cup {None},
   utf8 : BOOLEAN, phase : {"idle", "lookup", "found", "answered"}, at : Nodes,
   rest : Path, via : SUBSET Nodes]

CallInv(D, c) ==
  /\ c \in CallType
  /\ c.op \in Asked => c.want \in Nodes /\ (c.utf8 => LeadsTo(D, c.names, c.want))
  /\ c.phase = "answered" => c.op \in Asked
  /\ c.phase = "lookup" => c.rest # <<>> /\ c.at \in Dirs
  /\ c.phase \in {"found", "answered"} => c.rest = <<>>
  /\ c.phase # "idle" => Walked(D, c)

\* A node is shown under one name, and a name shows one node.
LEMMA OneNode ==
  ASSUME NEW dir, NEW name, NEW a, NEW b, Shows(dir, name, a), Shows(dir, name, b)
  PROVE  a = b
<1> DEFINE listing == Listed(dir, {})
           names == HostNamesOf(listing)
<1>1. listing \in Seq(Entry)
  BY ListedTyped DEF Shows
<1>2. PICK i \in DOMAIN listing : listing[i].node = a /\ Upper(names[i]) = Upper(name)
  BY DEF Shows, Names, Same
<1>3. PICK j \in DOMAIN listing : listing[j].node = b /\ Upper(names[j]) = Upper(name)
  BY DEF Shows, Names, Same
<1> HIDE DEF listing
<1>4. DOMAIN listing = 1 .. Len(listing)
  BY <1>1
<1>5. i = j
  BY <1>1, <1>2, <1>3, <1>4, NamesApart
<1> QED BY <1>2, <1>3, <1>5

\* Two ways along the same names are one, as long as the first does not come
\* through D.
LEMMA OneWay ==
  ASSUME NEW D, NEW names, Len(names) \in Nat, NEW a, NEW b,
         Along(D, names, Len(names), a), Along(D, names, Len(names), b),
         \A i \in 0 .. Len(names) - 1 : a[i] \notin D
  PROVE  a[Len(names)] = b[Len(names)]
<1> DEFINE n == Len(names)
           wrong == { i \in 0 .. n : a[i] # b[i] }
<1>1. wrong = {}
  <2> SUFFICES ASSUME wrong # {} PROVE FALSE
    OBVIOUS
  <2>1. wrong \subseteq Nat /\ 0 \notin wrong
    BY DEF Along
  <2>2. PICK m \in wrong : m - 1 \in Nat /\ m - 1 \notin wrong
    <3> HIDE DEF wrong
    <3> QED BY <2>1, FirstOf
  <2>3. m \in 1 .. n /\ m - 1 \in 0 .. n /\ m - 1 \in 0 .. n - 1
    BY <2>2
  <2>4. a[m - 1] = b[m - 1] /\ a[m - 1] \notin D
    BY <2>2, <2>3
  <2>5. Shows(a[m - 1], names[m], a[m]) /\ Shows(a[m - 1], names[m], b[m])
    BY <2>3, <2>4 DEF Along
  <2>6. a[m] = b[m]
    BY <2>5, OneNode
  <2> QED BY <2>2, <2>6
<1>2. n \in 0 .. n
  OBVIOUS
<1> QED BY <1>1, <1>2

\* What is found stays found when more directories are in D.
LEMMA MoreDegraded ==
  ASSUME NEW D, NEW E, D \subseteq E
  PROVE  /\ \A names, node : LeadsTo(D, names, node) => LeadsTo(E, names, node)
         /\ \A c : CallInv(D, c) => CallInv(E, c)
<1>1. ASSUME NEW names, NEW k, NEW g, Along(D, names, k, g) PROVE Along(E, names, k, g)
  BY <1>1 DEF Along
<1>2. ASSUME NEW names, NEW node, LeadsTo(D, names, node) PROVE LeadsTo(E, names, node)
  BY <1>1, <1>2 DEF LeadsTo
<1>3. ASSUME NEW c, Walked(D, c) PROVE Walked(E, c)
  BY <1>1, <1>3 DEF Walked
<1> QED BY <1>2, <1>3 DEF CallInv

\* One name more leads one step further.
LEMMA OneStep ==
  ASSUME NEW D, NEW names, NEW k, NEW g, Along(D, names, k, g),
         Len(names) \in Nat, k + 1 <= Len(names), NEW node \in Nodes,
         g[k] \in D \/ Shows(g[k], names[k + 1], node)
  PROVE  \E h : /\ Along(D, names, k + 1, h) /\ h[k + 1] = node
                /\ \A i \in 0 .. k : h[i] = g[i]
<1> DEFINE h == [i \in 0 .. k + 1 |-> IF i = k + 1 THEN node ELSE g[i]]
<1>1. k \in Nat
  BY DEF Along
<1>2. h[k + 1] = node /\ \A i \in 0 .. k : h[i] = g[i]
  BY <1>1
<1>3. h \in [0 .. k + 1 -> Nodes] /\ k + 1 \in 0 .. Len(names) /\ h[0] = Top
  BY <1>1 DEF Along
<1>4. ASSUME NEW i \in 1 .. k + 1
      PROVE  h[i - 1] \in D \/ Shows(h[i - 1], names[i], h[i])
  <2>1. CASE i = k + 1
    <3>1. h[i - 1] = g[k]
      BY <1>1, <2>1
    <3> HIDE DEF h
    <3> QED BY <1>2, <2>1, <3>1
  <2>2. CASE i \in 1 .. k
    <3>1. h[i - 1] = g[i - 1] /\ h[i] = g[i]
      BY <1>1, <2>2
    <3> HIDE DEF h
    <3> QED BY <2>2, <3>1 DEF Along
  <2> QED BY <1>1, <2>1, <2>2
<1> HIDE DEF h
<1>5. Along(D, names, k + 1, h)
  BY <1>3, <1>4 DEF Along
<1> QED BY <1>2, <1>5

\* A path and one more name.
LEMMA LongerPath ==
  ASSUME NEW D, NEW names \in Seq(Name), NEW name \in Name, NEW dir, NEW node \in Nodes,
         LeadsTo(D, names, dir), dir \in D \/ Shows(dir, name, node)
  PROVE  LeadsTo(D, Append(names, name), node)
<1> DEFINE n == Len(names)
           longer == Append(names, name)
<1>1. /\ n \in Nat /\ Len(longer) = n + 1 /\ longer[n + 1] = name
      /\ \A i \in 1 .. n : longer[i] = names[i]
  BY FrontOfChild
<1> HIDE DEF longer
<1>2. PICK g : Along(D, names, n, g) /\ g[n] = dir
  BY DEF LeadsTo
<1>3. Along(D, longer, n, g)
  <2>1. n \in 0 .. Len(longer)
    BY <1>1
  <2> QED BY <1>1, <1>2, <2>1 DEF Along
<1>4. PICK h : Along(D, longer, n + 1, h) /\ h[n + 1] = node
  <2>1. n + 1 <= Len(longer) /\ Len(longer) \in Nat
    BY <1>1
  <2>2. g[n] \in D \/ Shows(g[n], longer[n + 1], node)
    BY <1>1, <1>2
  <2> HIDE DEF n
  <2> QED BY <1>3, <2>1, <2>2, OneStep
<1>5. LeadsTo(D, longer, node)
  BY <1>1, <1>4 DEF LeadsTo
<1> QED BY <1>5 DEF longer

(***************************************************************************)
(* What a call becomes.                                                    *)
(***************************************************************************)

\* The parts of a call without changes.
LEMMA TopFacts == Top \in Nodes /\ Top \in Dirs /\ <<>> \in Path /\ MaxDepth \in Nat
BY ViewFacts DEF Dirs, Path

\* A thread that has nothing to do.
LEMMA IdleInv ==
  ASSUME NEW D
  PROVE  CallInv(D, Idle)
BY TopFacts DEF CallInv, CallType, Idle, Asked

\* A call begins at the top.
LEMMA EnteredInv ==
  ASSUME NEW D, NEW op \in Asked \cup {"status"}, NEW names \in Path,
         NEW want \in Nodes \cup {None}, NEW utf8 \in BOOLEAN,
         op \in Asked => want \in Nodes /\ (utf8 => LeadsTo(D, names, want))
  PROVE  CallInv(D, Entered(op, names, want, utf8))
<1> DEFINE c == Entered(op, names, want, utf8)
<1>1. /\ c.op = op /\ c.names = names /\ c.want = want /\ c.utf8 = utf8 /\ c.at = Top
      /\ c.rest = names /\ c.via = {} /\ c.phase \in {"lookup", "found"}
      /\ c.phase = "found" <=> names = <<>>
      /\ c \in CallType
  BY TopFacts DEF Entered, CallType
<1> HIDE DEF c
<1>2. Walked(D, c)
  <2> DEFINE g == [i \in 0 .. 0 |-> Top]
  <2>1. Len(names) \in Nat /\ 0 \in 0 .. Len(names)
    BY DEF Path
  <2>2. Along(D, names, 0, g) /\ g[0] = c.at
    BY <1>1, <2>1, TopFacts DEF Along
  <2> HIDE DEF g
  <2>3. Len(c.rest) = Len(c.names) - 0 /\ \A i \in 1 .. Len(c.rest) : c.rest[i] = c.names[0 + i]
    BY <1>1, <2>1
  <2>4. \A i \in 0 .. 0 - 1 : g[i] \in c.via
    OBVIOUS
  <2> QED BY <1>1, <2>1, <2>2, <2>3, <2>4 DEF Walked
<1>3. CallInv(D, c)
  BY <1>1, <1>2, TopFacts DEF CallInv
<1> QED BY <1>3 DEF c

\* A call that fails walks its path for the status, or is over.
LEMMA FailingInv ==
  ASSUME NEW D, NEW c, CallInv(D, c)
  PROVE  CallInv(D, Failing(c))
<1>1. c.names \in Path
  BY DEF CallInv, CallType
<1>2. CallInv(D, Entered("status", c.names, None, FALSE))
  <2>1. "status" \notin Asked /\ "status" \in Asked \cup {"status"} /\ FALSE \in BOOLEAN
    BY DEF Asked
  <2> QED BY <1>1, <2>1, EnteredInv
<1> QED BY <1>2, IdleInv DEF Failing

\* A call has found what its path leads to, and answers.
LEMMA AnsweredInv ==
  ASSUME NEW D, NEW c, CallInv(D, c), c.phase = "found", c.op \in Asked
  PROVE  CallInv(D, [c EXCEPT !.phase = "answered"])
<1> DEFINE e == [c EXCEPT !.phase = "answered"]
<1>1. /\ e \in CallType /\ e.op = c.op /\ e.names = c.names /\ e.want = c.want
      /\ e.utf8 = c.utf8 /\ e.at = c.at /\ e.rest = c.rest /\ e.via = c.via
      /\ e.phase = "answered"
  BY DEF CallInv, CallType
<1> HIDE DEF e
<1>2. Walked(D, e)
  <2>1. Walked(D, c)
    BY DEF CallInv
  <2> QED BY <1>1, <2>1 DEF Walked
<1>3. CallInv(D, e)
  BY <1>1, <1>2 DEF CallInv
<1> QED BY <1>3 DEF e

\* The first of the names that are left.
LEMMA FirstOfRest ==
  ASSUME NEW s \in Path, s # <<>>
  PROVE  /\ Len(s) \in Nat \ {0} /\ Head(s) = s[1] /\ Tail(s) \in Path
         /\ Len(Tail(s)) = Len(s) - 1
         /\ \A i \in 1 .. Len(s) - 1 : Tail(s)[i] = s[i + 1]
<1>1. /\ Len(s) \in Nat \ {0} /\ Head(s) = s[1] /\ Tail(s) \in Seq(Name)
      /\ Len(Tail(s)) = Len(s) - 1
      /\ \A i \in 1 .. Len(s) - 1 : Tail(s)[i] = s[i + 1]
  BY DEF Path
<1>2. Len(Tail(s)) <= MaxDepth
  BY <1>1, TopFacts DEF Path
<1> QED BY <1>1, <1>2 DEF Path

\* A component of the path leads on.
LEMMA AdvancedInv ==
  ASSUME NEW D, NEW c, CallInv(D, c), c.phase = "lookup",
         NEW lost, lost = {} \/ c.at \in D, NEW node \in Leads(c, lost)
  PROVE  CallInv(D, Advanced(c, node))
<1> DEFINE e == Advanced(c, node)
<1>1. c \in CallType /\ c.rest # <<>> /\ c.at \in Dirs /\ Walked(D, c)
  BY DEF CallInv
<1>2. /\ Len(c.rest) \in Nat \ {0} /\ Head(c.rest) = c.rest[1] /\ Tail(c.rest) \in Path
      /\ Len(Tail(c.rest)) = Len(c.rest) - 1
      /\ \A i \in 1 .. Len(c.rest) - 1 : Tail(c.rest)[i] = c.rest[i + 1]
  BY <1>1, FirstOfRest DEF CallType
<1>3. node \in Nodes /\ (Kind[node] = "dir" \/ Tail(c.rest) = <<>>)
  BY DEF Leads
<1>4. /\ e.op = c.op /\ e.names = c.names /\ e.want = c.want /\ e.utf8 = c.utf8
      /\ e.at = node /\ e.rest = Tail(c.rest) /\ e.via = c.via \cup {c.at}
      /\ e.phase = IF Tail(c.rest) = <<>> THEN "found" ELSE "lookup"
      /\ e \in CallType
  BY <1>1, <1>2, <1>3 DEF Advanced, CallType
<1>5. c.at \in D \/ Shows(c.at, Head(c.rest), node)
  <2> SUFFICES ASSUME lost = {} PROVE Shows(c.at, Head(c.rest), node)
    OBVIOUS
  <2>1. PICK i \in Found(c.at, {}, Head(c.rest)) : node = Listed(c.at, {})[i].node
    BY DEF Leads
  <2> QED BY <1>1, <2>1 DEF Found, Shows
<1> HIDE DEF e
<1>6. Walked(D, e)
  <2>0. PICK k \in 0 .. Len(c.names) : \E g :
          /\ Along(D, c.names, k, g) /\ g[k] = c.at
          /\ \A i \in 0 .. k - 1 : g[i] \in c.via
          /\ Len(c.rest) = Len(c.names) - k
          /\ \A i \in 1 .. Len(c.rest) : c.rest[i] = c.names[k + i]
    BY <1>1 DEF Walked
  <2>1. PICK g :
          /\ Along(D, c.names, k, g) /\ g[k] = c.at
          /\ \A i \in 0 .. k - 1 : g[i] \in c.via
          /\ Len(c.rest) = Len(c.names) - k
          /\ \A i \in 1 .. Len(c.rest) : c.rest[i] = c.names[k + i]
    BY <2>0
  <2>2. Len(c.names) \in Nat
    BY <1>1 DEF CallType, Path
  <2>3. k \in Nat /\ k + 1 <= Len(c.names) /\ k + 1 \in 0 .. Len(c.names)
    BY <1>2, <2>1, <2>2
  <2>4. Head(c.rest) = c.names[k + 1]
    BY <1>2, <2>1
  <2>5. PICK h : /\ Along(D, c.names, k + 1, h) /\ h[k + 1] = node
                 /\ \A i \in 0 .. k : h[i] = g[i]
    BY <1>3, <1>5, <2>1, <2>2, <2>3, <2>4, OneStep
  <2>6. \A i \in 0 .. (k + 1) - 1 : h[i] \in e.via
    <3>1. ASSUME NEW i \in 0 .. k PROVE h[i] \in e.via
      <4>1. i = k \/ i \in 0 .. k - 1
        BY <2>3
      <4> QED BY <1>4, <2>1, <2>5, <4>1
    <3>2. (k + 1) - 1 = k
      BY <2>3
    <3> QED BY <3>1, <3>2
  <2>7. Len(e.rest) = Len(e.names) - (k + 1)
    BY <1>2, <1>4, <2>1, <2>2, <2>3
  <2>8. ASSUME NEW i \in 1 .. Len(e.rest) PROVE e.rest[i] = e.names[(k + 1) + i]
    <3>1. i \in 1 .. Len(c.rest) - 1 /\ i + 1 \in 1 .. Len(c.rest) /\ k + (i + 1) = (k + 1) + i
      BY <1>2, <1>4, <2>3
    <3> QED BY <1>2, <1>4, <2>1, <3>1
  <2>9. /\ k + 1 \in 0 .. Len(e.names)
        /\ Along(D, e.names, k + 1, h) /\ h[k + 1] = e.at
    BY <1>4, <2>3, <2>5
  <2>10. PICK j : j = k + 1
    OBVIOUS
  <2> QED BY <2>6, <2>7, <2>8, <2>9, <2>10 DEF Walked
<1>7. e.phase = "lookup" => e.rest # <<>> /\ e.at \in Dirs
  BY <1>3, <1>4 DEF Dirs
<1>8. CallInv(D, e)
  BY <1>4, <1>6, <1>7 DEF CallInv
<1> QED BY <1>8 DEF e

\* What an answer is of is what was wanted, unless the way to it came through D.
LEMMA AnswerIsWanted ==
  ASSUME NEW D, NEW c, CallInv(D, c), c.phase = "answered", c.utf8, c.via \cap D = {}
  PROVE  c.at = c.want
<1>1. c \in CallType /\ c.rest = <<>> /\ Walked(D, c) /\ LeadsTo(D, c.names, c.want)
  BY DEF CallInv
<1> DEFINE n == Len(c.names)
<1>2. n \in Nat /\ Len(c.rest) = 0
  BY <1>1 DEF CallType, Path
<1> DEFINE Way(k, g) == /\ Along(D, c.names, k, g) /\ g[k] = c.at
                        /\ \A i \in 0 .. k - 1 : g[i] \in c.via
                        /\ Len(c.rest) = n - k
<1>3. PICK k \in 0 .. n : \E g : Way(k, g)
  BY <1>1 DEF Walked
<1>4. PICK g : Way(k, g)
  BY <1>3
<1>5. k = n
  BY <1>2, <1>4
<1>6. PICK h : Along(D, c.names, n, h) /\ h[n] = c.want
  BY <1>1 DEF LeadsTo
<1>7. \A i \in 0 .. n - 1 : g[i] \notin D
  BY <1>4, <1>5
<1>8. Along(D, c.names, n, g) /\ g[n] = c.at
  BY <1>4, <1>5
<1>9. g[n] = h[n]
  BY <1>2, <1>6, <1>7, <1>8, OneWay
<1> QED BY <1>6, <1>8, <1>9

(***************************************************************************)
(* The invariant of the mounted volume.                                    *)
(***************************************************************************)

\* A listing is kept as it was made; one that lost an entry was seen.
CacheInv ==
  /\ cache \in [Dirs \ Fixed -> (SUBSET Nodes) \cup {None}]
  /\ \A dir \in Dirs \ Fixed : cache[dir] \in {None, {}} \/ dir \in degraded
  /\ faulty \in BOOLEAN /\ degraded \in SUBSET (Dirs \ Fixed)

CallsInv ==
  calls \in [Threads -> CallType] /\ \A t \in Threads : CallInv(degraded, calls[t])

\* What is open is what its names lead to, and so is what is shown of it.
HandleInv ==
  /\ handle \in [names : Path, want : Nodes, utf8 : BOOLEAN]
  /\ handle.utf8 => LeadsTo(degraded, handle.names, handle.want)
ShownInv ==
  shown # None =>
    /\ shown \in [dir : Dirs, lost : SUBSET Nodes]
    /\ shown.lost = {} \/ shown.dir \in degraded
    /\ LeadsTo(degraded, handle.names, shown.dir)

ViewInv == CacheInv /\ CallsInv /\ HandleInv /\ ShownInv

\* One call changes, and no directory is read again that was degraded.
LEMMA CallsBecome ==
  ASSUME CallsInv, degraded \subseteq degraded', NEW t \in Threads, NEW c,
         CallInv(degraded', c), calls' = [calls EXCEPT ![t] = c]
  PROVE  CallsInv'
<1>1. c \in CallType
  BY DEF CallInv
<1>2. calls' \in [Threads -> CallType]
  BY <1>1 DEF CallsInv
<1>3. ASSUME NEW u \in Threads PROVE CallInv(degraded', calls'[u])
  <2>1. calls'[u] = IF u = t THEN c ELSE calls[u]
    BY DEF CallsInv
  <2>2. CallInv(degraded, calls[u])
    BY DEF CallsInv
  <2> QED BY <2>1, <2>2, MoreDegraded
<1> QED BY <1>2, <1>3 DEF CallsInv

\* No call changes.
LEMMA CallsStay ==
  ASSUME CallsInv, degraded \subseteq degraded', calls' = calls
  PROVE  CallsInv'
BY MoreDegraded DEF CallsInv

\* What is open stays open.
LEMMA HandleStays ==
  ASSUME HandleInv, degraded \subseteq degraded', handle' = handle
  PROVE  HandleInv'
BY MoreDegraded DEF HandleInv

\* What is shown stays shown.
LEMMA ShownStays ==
  ASSUME ShownInv, degraded \subseteq degraded', handle' = handle, shown' = shown
  PROVE  ShownInv'
BY MoreDegraded DEF ShownInv

\* Nothing is read.
LEMMA CacheStays ==
  ASSUME CacheInv, UNCHANGED <<cache, faulty, degraded>>
  PROVE  CacheInv'
BY DEF CacheInv

\* A directory is browsed: what it loses, it has lost from then on.
LEMMA BrowsedStep ==
  ASSUME CacheInv, NEW dir \in Dirs, NEW lost \in Listings(dir), Browsed(dir, lost),
         faulty' = faulty
  PROVE  /\ CacheInv' /\ degraded \subseteq degraded'
         /\ lost \in SUBSET Nodes /\ (lost = {} \/ dir \in degraded')
<1>1. ChildrenOf(dir) \subseteq Nodes
  <2>1. Entries[dir] \in Seq(Entry)
    BY TreeFacts DEF Dirs, Entry
  <2>2. ASSUME NEW i \in DOMAIN Entries[dir] PROVE Entries[dir][i].node \in Nodes
    <3>1. Entries[dir][i] \in Entry
      BY <2>1
    <3> QED BY <3>1 DEF Entry
  <2> QED BY <2>2 DEF ChildrenOf
<1>2. degraded \subseteq degraded' /\ (lost = {} \/ dir \in degraded')
  BY DEF Browsed
<1>3. lost \in SUBSET Nodes /\ (lost = {} \/ dir \notin Fixed)
  BY <1>1 DEF Listings, CacheInv
<1>4. degraded' \in SUBSET (Dirs \ Fixed)
  BY <1>3 DEF Browsed, CacheInv
<1>5. cache' \in [Dirs \ Fixed -> (SUBSET Nodes) \cup {None}]
  BY <1>3 DEF Browsed, CacheInv
<1>6. ASSUME NEW e \in Dirs \ Fixed PROVE cache'[e] \in {None, {}} \/ e \in degraded'
  BY <1>2 DEF Browsed, CacheInv
<1> QED BY <1>2, <1>3, <1>4, <1>5, <1>6 DEF CacheInv

(***************************************************************************)
(* The steps of the mount.                                                 *)
(***************************************************************************)

\* A thread begins a call.
LEMMA BeginCall ==
  ASSUME ViewInv, NEW t \in Threads, NEW op \in Asked, NEW names \in Path, NEW want \in Nodes,
         NEW utf8 \in BOOLEAN, utf8 => LeadsTo(degraded, names, want),
         Begin(t, op, names, want, utf8)
  PROVE  ViewInv'
<1>1. CallInv(degraded', Entered(op, names, want, utf8)) /\ degraded' = degraded
  BY EnteredInv DEF Begin
<1>2. CallsInv'
  BY <1>1, CallsBecome DEF ViewInv, Begin
<1>3. CacheInv' /\ HandleInv' /\ ShownInv'
  BY <1>1, CacheStays, HandleStays, ShownStays DEF ViewInv, Begin
<1> QED BY <1>2, <1>3 DEF ViewInv

\* A call on the handle.
LEMMA CallStep ==
  ASSUME ViewInv, NEW t \in Threads, Call(t)
  PROVE  ViewInv'
<1>1. PICK op \in {"info", "read", "find"} : Begin(t, op, handle.names, handle.want, handle.utf8)
  BY DEF Call
<1>2. op \in Asked
  BY DEF Asked
<1>3. /\ handle.names \in Path /\ handle.want \in Nodes /\ handle.utf8 \in BOOLEAN
      /\ handle.utf8 => LeadsTo(degraded, handle.names, handle.want)
  BY DEF ViewInv, HandleInv
<1> QED BY <1>1, <1>2, <1>3, BeginCall

\* What is shown in the listing is opened.
LEMMA OpenStep ==
  ASSUME ViewInv, NEW t \in Threads, Open(t)
  PROVE  ViewInv'
<1> DEFINE listing == Listed(shown.dir, shown.lost)
           names == HostNamesOf(listing)
<1>1. shown # None /\ Len(handle.names) < MaxDepth
  BY DEF Open
<1>2. PICK i \in DOMAIN listing :
        Begin(t, "create", Append(handle.names, Shown(names[i])), listing[i].node,
              handle.utf8 /\ names[i].utf8)
  BY DEF Open, Names
<1>3. /\ shown.dir \in Dirs /\ (shown.lost = {} \/ shown.dir \in degraded)
      /\ LeadsTo(degraded, handle.names, shown.dir)
  BY <1>1 DEF ViewInv, ShownInv
<1>4. listing \in Seq(Entry)
  BY <1>3, ListedTyped
<1>5. Shows(shown.dir, names[i], listing[i].node) \/ shown.dir \in degraded
  <2> SUFFICES ASSUME shown.lost = {} PROVE Shows(shown.dir, names[i], listing[i].node)
    BY <1>3
  <2> QED BY <1>2, <1>3 DEF Shows, Names, Same
<1> HIDE DEF listing
<1>6. listing[i].node \in Nodes /\ names[i] \in Name
  <2>1. DOMAIN listing = 1 .. Len(listing) /\ listing[i] \in Entry
    BY <1>4
  <2>2. names \in Seq(Name) /\ Len(names) = Len(listing)
    BY <1>4, NamesApart
  <2> HIDE DEF names
  <2> QED BY <2>1, <2>2 DEF Entry
<1> HIDE DEF names
<1>7. /\ Shown(names[i]) \in Name /\ names[i].utf8 \in BOOLEAN
      /\ names[i].utf8 => Shown(names[i]) = names[i]
  BY <1>6 DEF Shown, Name
<1>8. handle.names \in Seq(Name) /\ Append(handle.names, Shown(names[i])) \in Path
  <2>1. handle.names \in Seq(Name) /\ MaxDepth \in Nat
    BY TopFacts DEF ViewInv, HandleInv, Path
  <2>2. /\ Append(handle.names, Shown(names[i])) \in Seq(Name)
        /\ Len(Append(handle.names, Shown(names[i]))) = Len(handle.names) + 1
    BY <1>7, <2>1
  <2>3. Len(handle.names) \in Nat
    BY <2>1
  <2> QED BY <1>1, <2>1, <2>2, <2>3 DEF Path
<1>9. ASSUME handle.utf8 /\ names[i].utf8
      PROVE  LeadsTo(degraded, Append(handle.names, Shown(names[i])), listing[i].node)
  BY <1>3, <1>5, <1>6, <1>7, <1>8, <1>9, LongerPath
<1>10. (handle.utf8 /\ names[i].utf8) \in BOOLEAN /\ "create" \in Asked
  BY DEF Asked
<1> QED BY <1>2, <1>6, <1>8, <1>9, <1>10, BeginCall

\* A component is looked up.
LEMMA StepStep ==
  ASSUME ViewInv, NEW t \in Threads, Step(t)
  PROVE  ViewInv'
<1>1. PICK lost \in Listings(calls[t].at) :
        /\ Browsed(calls[t].at, lost)
        /\ \/ \E node \in Leads(calls[t], lost) :
                calls' = [calls EXCEPT ![t] = Advanced(calls[t], node)]
           \/ calls' = [calls EXCEPT ![t] = Failing(calls[t])]
  BY DEF Step, ViewInv, CallsInv
<1>2. calls[t].phase = "lookup" /\ UNCHANGED <<faulty, handle, shown>>
  BY DEF Step
<1>3. CallInv(degraded, calls[t]) /\ calls[t].at \in Dirs
  BY <1>2 DEF ViewInv, CallsInv, CallInv
<1>4. CacheInv' /\ degraded \subseteq degraded' /\ (lost = {} \/ calls[t].at \in degraded')
  BY <1>1, <1>2, <1>3, BrowsedStep DEF ViewInv
<1>5. CallInv(degraded', calls[t])
  BY <1>3, <1>4, MoreDegraded
<1>6. CallsInv'
  <2>1. CallInv(degraded', Failing(calls[t]))
    BY <1>5, FailingInv
  <2>2. \A node \in Leads(calls[t], lost) : CallInv(degraded', Advanced(calls[t], node))
    BY <1>2, <1>4, <1>5, AdvancedInv
  <2> QED BY <1>1, <1>4, <2>1, <2>2, CallsBecome DEF ViewInv
<1>7. HandleInv' /\ ShownInv'
  BY <1>2, <1>4, HandleStays, ShownStays DEF ViewInv
<1> QED BY <1>4, <1>6, <1>7 DEF ViewInv

\* A call becomes another, and nothing else changes.
LEMMA OnlyCall ==
  ASSUME ViewInv, NEW t \in Threads, NEW c, CallInv(degraded, c),
         calls' = [calls EXCEPT ![t] = c],
         UNCHANGED <<cache, faulty, handle, shown, degraded>>
  PROVE  ViewInv'
<1>1. degraded \subseteq degraded' /\ CallInv(degraded', c)
  OBVIOUS
<1>2. CallsInv'
  BY <1>1, CallsBecome DEF ViewInv
<1> QED BY <1>1, <1>2, CacheStays, HandleStays, ShownStays DEF ViewInv

\* A call fails.
LEMMA CallFails ==
  ASSUME ViewInv, NEW t \in Threads, StepFails(t) \/ ReadFails(t) \/ FindFails(t)
  PROVE  ViewInv'
<1>1. /\ calls' = [calls EXCEPT ![t] = Failing(calls[t])]
      /\ UNCHANGED <<cache, faulty, handle, shown, degraded>>
  BY DEF StepFails, ReadFails, FindFails, ViewInv, CallsInv
<1>2. CallInv(degraded, Failing(calls[t]))
  BY FailingInv DEF ViewInv, CallsInv
<1> QED BY <1>1, <1>2, OnlyCall

\* A call is answered.
LEMMA AnswerStep ==
  ASSUME ViewInv, NEW t \in Threads, Inform(t) \/ ReadBytes(t)
  PROVE  ViewInv'
<1>1. /\ calls' = [calls EXCEPT ![t] = [calls[t] EXCEPT !.phase = "answered"]]
      /\ UNCHANGED <<cache, faulty, handle, shown, degraded>>
      /\ calls[t].phase = "found" /\ calls[t].op \in Asked
  BY DEF Inform, ReadBytes, Answer, Arrived, Asked
<1>2. CallInv(degraded, [calls[t] EXCEPT !.phase = "answered"])
  BY <1>1, AnsweredInv DEF ViewInv, CallsInv
<1> QED BY <1>1, <1>2, OnlyCall

\* A call is over.
LEMMA FinishStep ==
  ASSUME ViewInv, NEW t \in Threads, Finish(t)
  PROVE  ViewInv'
BY IdleInv, OnlyCall DEF Finish

\* A file is opened, or is not.
LEMMA CreateStep ==
  ASSUME ViewInv, NEW t \in Threads, Create(t)
  PROVE  ViewInv'
<1>1. /\ UNCHANGED <<cache, faulty, degraded>> /\ degraded \subseteq degraded'
      /\ calls[t].phase = "found" /\ calls[t].op = "create" /\ calls[t].op \in Asked
  BY DEF Create, Arrived, Asked
<1>2. CallInv(degraded, calls[t])
  BY DEF ViewInv, CallsInv
<1>3. CASE /\ handle' = [names |-> calls[t].names, want |-> calls[t].want, utf8 |-> calls[t].utf8]
           /\ shown' = None /\ Answer(t)
  <2>1. CallInv(degraded', [calls[t] EXCEPT !.phase = "answered"])
    BY <1>1, <1>2, AnsweredInv
  <2>2. CallsInv'
    BY <1>1, <1>3, <2>1, CallsBecome DEF ViewInv, Answer
  <2>3. HandleInv'
    <3>1. /\ calls[t].names \in Path /\ calls[t].want \in Nodes /\ calls[t].utf8 \in BOOLEAN
          /\ calls[t].utf8 => LeadsTo(degraded', calls[t].names, calls[t].want)
      BY <1>1, <1>2 DEF CallInv, CallType
    <3>2. handle'.names = calls[t].names /\ handle'.want = calls[t].want
          /\ handle'.utf8 = calls[t].utf8
          /\ handle' \in [names : Path, want : Nodes, utf8 : BOOLEAN]
      BY <1>3, <3>1
    <3> QED BY <3>1, <3>2 DEF HandleInv
  <2>4. ShownInv'
    BY <1>3 DEF ShownInv
  <2> QED BY <1>1, <2>2, <2>3, <2>4, CacheStays DEF ViewInv
<1>4. CASE calls' = [calls EXCEPT ![t] = Idle] /\ UNCHANGED <<handle, shown>>
  BY <1>1, <1>4, IdleInv, OnlyCall
<1> QED BY <1>3, <1>4 DEF Create

\* The names of a call that has found its node lead there.
LEMMA FoundLeads ==
  ASSUME NEW D, NEW c, CallInv(D, c), c.phase = "found"
  PROVE  LeadsTo(D, c.names, c.at)
<1>1. c.rest = <<>> /\ Len(c.names) \in Nat
  BY DEF CallInv, CallType, Path
<1>2. PICK k \in 0 .. Len(c.names) : \E g :
        Along(D, c.names, k, g) /\ g[k] = c.at /\ Len(c.rest) = Len(c.names) - k
  BY DEF CallInv, Walked
<1>3. k = Len(c.names)
  BY <1>1, <1>2
<1> QED BY <1>2, <1>3 DEF LeadsTo

\* A directory is listed, and Explorer shows what it has open.
LEMMA FindStep ==
  ASSUME ViewInv, NEW t \in Threads, Find(t)
  PROVE  ViewInv'
<1>1. /\ calls[t].phase = "found" /\ calls[t].op \in Asked /\ Kind[calls[t].at] = "dir"
      /\ UNCHANGED <<faulty, handle>>
      /\ calls' = [calls EXCEPT ![t] = [calls[t] EXCEPT !.phase = "answered"]]
  BY DEF Find, Arrived, Answer, Asked
<1>2. PICK lost \in Listings(calls[t].at) :
        /\ Browsed(calls[t].at, lost)
        /\ shown' = IF handle.names = calls[t].names
                    THEN [dir |-> calls[t].at, lost |-> lost] ELSE shown
  BY DEF Find
<1>3. CallInv(degraded, calls[t]) /\ calls[t].at \in Dirs
  BY <1>1 DEF ViewInv, CallsInv, CallInv, CallType, Dirs
<1>4. /\ CacheInv' /\ degraded \subseteq degraded' /\ lost \in SUBSET Nodes
      /\ (lost = {} \/ calls[t].at \in degraded')
  BY <1>1, <1>2, <1>3, BrowsedStep DEF ViewInv
<1>5. CallInv(degraded', calls[t])
  BY <1>3, <1>4, MoreDegraded
<1>6. CallsInv'
  <2>1. CallInv(degraded', [calls[t] EXCEPT !.phase = "answered"])
    BY <1>1, <1>5, AnsweredInv
  <2> QED BY <1>1, <1>4, <2>1, CallsBecome DEF ViewInv
<1>7. HandleInv'
  BY <1>1, <1>4, HandleStays DEF ViewInv
<1>8. ShownInv'
  <2>1. CASE handle.names = calls[t].names
    <3>1. LeadsTo(degraded', handle'.names, calls[t].at)
      BY <1>1, <1>5, <2>1, FoundLeads
    <3>2. shown'.dir = calls[t].at /\ shown'.lost = lost
          /\ shown' \in [dir : Dirs, lost : SUBSET Nodes]
      BY <1>2, <1>3, <1>4, <2>1
    <3> QED BY <1>4, <3>1, <3>2 DEF ShownInv
  <2>2. CASE handle.names # calls[t].names
    BY <1>1, <1>2, <1>4, <2>2, ShownStays DEF ViewInv
  <2> QED BY <2>1, <2>2
<1> QED BY <1>4, <1>6, <1>7, <1>8 DEF ViewInv

\* What happens beside the calls.
LEMMA BesideStep ==
  ASSUME ViewInv, CloseHandle \/ Evict \/ Elsewhere \/ Device
  PROVE  ViewInv'
<1>1. CASE CloseHandle
  <2>1. UNCHANGED <<cache, faulty, calls, degraded>> /\ degraded \subseteq degraded'
        /\ handle' = TopHandle /\ shown' = None
    BY <1>1 DEF CloseHandle
  <2>2. LeadsTo(degraded, <<>>, Top)
    <3> DEFINE g == [i \in 0 .. 0 |-> Top]
    <3>1. Along(degraded, <<>>, Len(<<>>), g) /\ g[Len(<<>>)] = Top
      BY TopFacts DEF Along
    <3> HIDE DEF g
    <3> QED BY <3>1 DEF LeadsTo
  <2>3. HandleInv'
    BY <2>1, <2>2, TopFacts DEF HandleInv, TopHandle
  <2>4. ShownInv'
    BY <2>1 DEF ShownInv
  <2> QED BY <2>1, <2>3, <2>4, CacheStays, CallsStay DEF ViewInv
<1>2. CASE Evict
  <2>1. UNCHANGED <<faulty, calls, handle, shown, degraded>> /\ degraded \subseteq degraded'
    BY <1>2 DEF Evict
  <2>2. PICK dir \in Dirs \ Fixed : cache' = [cache EXCEPT ![dir] = None]
    BY <1>2 DEF Evict
  <2>3. CacheInv'
    BY <2>1, <2>2 DEF ViewInv, CacheInv
  <2> QED BY <2>1, <2>3, CallsStay, HandleStays, ShownStays DEF ViewInv
<1>3. CASE Elsewhere
  <2>1. UNCHANGED <<faulty, calls, handle, shown>>
    BY <1>3 DEF Elsewhere
  <2>2. PICK dir \in Dirs \ Fixed : \E lost \in Listings(dir) : Browsed(dir, lost)
    BY <1>3 DEF Elsewhere
  <2>3. CacheInv' /\ degraded \subseteq degraded'
    BY <2>1, <2>2, BrowsedStep DEF ViewInv
  <2> QED BY <2>1, <2>3, CallsStay, HandleStays, ShownStays DEF ViewInv
<1>4. CASE Device
  <2>1. UNCHANGED <<cache, calls, handle, shown, degraded>> /\ degraded \subseteq degraded'
        /\ faulty' = ~faulty
    BY <1>4 DEF Device
  <2>2. CacheInv'
    BY <2>1 DEF ViewInv, CacheInv
  <2> QED BY <2>1, <2>2, CallsStay, HandleStays, ShownStays DEF ViewInv
<1> QED BY <1>1, <1>2, <1>3, <1>4

\* The mount begins with nothing open.
LEMMA ViewBegins ==
  ASSUME ViewInit
  PROVE  ViewInv
<1>1. CacheInv
  BY DEF ViewInit, CacheInv
<1>2. CallsInv
  BY IdleInv DEF ViewInit, CallsInv, CallInv
<1>3. LeadsTo(degraded, <<>>, Top)
  <2> DEFINE g == [i \in 0 .. 0 |-> Top]
  <2>1. Along(degraded, <<>>, Len(<<>>), g) /\ g[Len(<<>>)] = Top
    BY TopFacts DEF Along
  <2> HIDE DEF g
  <2> QED BY <2>1 DEF LeadsTo
<1>4. HandleInv /\ ShownInv
  BY <1>3, TopFacts DEF ViewInit, HandleInv, ShownInv, TopHandle
<1> QED BY <1>1, <1>2, <1>4 DEF ViewInv

\* A step of the mount keeps its invariant.
LEMMA MountingStep ==
  ASSUME ViewInv, Mounting
  PROVE  ViewInv'
<1>1. CASE \E t \in Threads : Open(t) \/ Call(t)
  BY <1>1, OpenStep, CallStep
<1>2. CASE \E t \in Threads : Callback(t)
  <2>1. PICK t \in Threads : Callback(t)
    BY <1>2
  <2> QED BY <2>1, StepStep, CallFails, AnswerStep, FinishStep, CreateStep, FindStep DEF Callback
<1>3. CASE CloseHandle \/ Evict \/ Elsewhere \/ Device
  BY <1>3, BesideStep
<1> QED BY <1>1, <1>2, <1>3 DEF Mounting

\* Nothing of the mount changes.
LEMMA ViewStays ==
  ASSUME ViewInv, UNCHANGED viewVars
  PROVE  ViewInv'
<1>1. UNCHANGED <<cache, faulty, calls, handle, shown, degraded>> /\ degraded \subseteq degraded'
  BY DEF viewVars
<1> QED BY <1>1, CacheStays, CallsStay, HandleStays, ShownStays DEF ViewInv

(***************************************************************************)
(* The bounds of what the window and its exports keep.                     *)
(***************************************************************************)

\* A directory that is left, or that was being exported when the program ended,
\* has given fewer names than it has passed entries.
FramesIn ==
  \A i \in DOMAIN stack :
    /\ stack[i].path \in DOMAIN host
    /\ stack[i].next <= Len(Entries[stack[i].node]) + 1
Few(frames) == \A i \in DOMAIN frames : Len(frames[i].names) < frames[i].next

BoundInv ==
  /\ outcome \in {"none", "running", "ok", "error", "crashed"}
  /\ ~Running => writing = NoFile
  /\ outcome \in {"none", "ok", "error"} => stack = <<>>
  /\ FramesIn /\ Few(stack)
  /\ writing = NoFile \/ writing.left <= Chunks[writing.node]

PageBounds == session <= MaxOpens /\ news \in BOOLEAN /\ Len(path) <= MaxPath

\* One directory more.
LEMMA FewMore ==
  ASSUME NEW s \in Seq(FrameType), Few(s), NEW x \in FrameType, Len(x.names) < x.next
  PROVE  Append(s, x) \in Seq(FrameType) /\ Few(Append(s, x))
<1>1. /\ Append(s, x) \in Seq(FrameType) /\ Len(Append(s, x)) = Len(s) + 1
      /\ Append(s, x)[Len(s) + 1] = x
      /\ \A i \in 1 .. Len(s) : Append(s, x)[i] = s[i]
  BY FrontOfChild
<1>2. ASSUME NEW a \in Seq(FrameType), Len(a) = Len(s) + 1, a[Len(s) + 1] = x,
             \A i \in 1 .. Len(s) : a[i] = s[i], NEW i \in DOMAIN a
      PROVE  Len(a[i].names) < a[i].next
  <2>1. i = Len(s) + 1 \/ i \in 1 .. Len(s)
    BY <1>2
  <2>2. CASE i \in 1 .. Len(s)
    <3>1. i \in DOMAIN s
      BY <2>2
    <3> QED BY <1>2, <2>2, <3>1 DEF Few
  <2> QED BY <1>2, <2>1, <2>2
<1>3. ASSUME NEW a \in Seq(FrameType), Len(a) = Len(s) + 1, a[Len(s) + 1] = x,
             \A i \in 1 .. Len(s) : a[i] = s[i]
      PROVE  Few(a)
  BY <1>2, <1>3 DEF Few
<1> QED BY <1>1, <1>3

\* One directory less.
LEMMA FewLess ==
  ASSUME NEW s \in Seq(FrameType), s # <<>>, Few(s)
  PROVE  Front(s) \in Seq(FrameType) /\ Few(Front(s))
<1>1. /\ Front(s) \in Seq(FrameType) /\ Len(Front(s)) = Len(s) - 1
      /\ \A i \in 1 .. Len(s) - 1 : Front(s)[i] = s[i]
  <2>1. \E x : x \in FrameType
    OBVIOUS
  <2> QED BY <2>1, Replaced
<1>2. ASSUME NEW i \in DOMAIN Front(s) PROVE i \in DOMAIN s /\ Front(s)[i] = s[i]
  <2>1. DOMAIN Front(s) = 1 .. Len(s) - 1 /\ DOMAIN s = 1 .. Len(s) /\ Len(s) \in Nat
    BY <1>1
  <2> QED BY <1>1, <2>1
<1> QED BY <1>1, <1>2 DEF Few

\* While an export runs its directories are on the host, as are those it had
\* come to when an error ended it, because there are none.
LEMMA FramesAre ==
  ASSUME ExportInv, Running \/ stack = <<>>
  PROVE  FramesIn
<1>1. CASE Running
  BY <1>1 DEF ExportInv, StackInv, FramesIn
<1>2. CASE stack = <<>>
  BY <1>2 DEF FramesIn
<1> QED BY <1>1, <1>2

\* An export that is over holds nothing.
LEMMA OverBounds ==
  ASSUME stack = <<>>, writing = NoFile, outcome \in {"ok", "error"}
  PROVE  BoundInv
BY DEF BoundInv, FramesIn, Few, Running

\* An export that runs: what is left to say of its bounds.
LEMMA RunningBounds ==
  ASSUME ExportInv, Running, Few(stack),
         writing = NoFile \/ writing.left <= Chunks[writing.node]
  PROVE  BoundInv
BY FramesAre DEF BoundInv, Running

\* The export begins.
LEMMA BeginBounds ==
  ASSUME ExportInv', BoundInv, ExportBegins
  PROVE  BoundInv'
<1>1. CASE ExportFails
  BY <1>1, OverBounds DEF ExportFails, BoundInv, FramesIn, Few, Running
<1>2. ASSUME NEW node \in Nodes, NEW name, StartExport(node, name)
      PROVE  BoundInv'
  <2> DEFINE place == <<Upper(name)>>
             frame == [node |-> node, path |-> place, next |-> 1, names |-> <<>>]
  <2>1. CASE stack' = <<>> /\ writing' = NoFile /\ outcome' = "error"
    BY <2>1 DEF BoundInv, FramesIn, Few, Running
  <2>2. CASE stack' = <<>> /\ outcome' = "running"
             /\ writing' = [node |-> node, path |-> place, left |-> Chunks[node]]
    <3>1. writing'.left = Chunks[writing'.node] /\ Chunks[node] \in Nat
      BY <2>2, ExportFacts
    <3>2. writing'.left <= Chunks[writing'.node]
      BY <2>2, <3>1
    <3> QED BY <2>2, <3>2 DEF BoundInv, FramesIn, Few, Running
  <2>3. CASE stack' = <<frame>> /\ writing' = NoFile /\ outcome' = "running"
    <3>1. Few(<<frame>>)
      BY DEF Few
    <3>2. Few(stack)'
      BY <2>3, <3>1
    <3>3. FramesIn'
      BY <2>3 DEF ExportInv, StackInv, FramesIn, Running
    <3> QED BY <2>3, <3>2, <3>3 DEF BoundInv, Running
  <2>4. CASE stack' = <<>> /\ writing' = NoFile /\ outcome' = "running"
    BY <2>4 DEF BoundInv, FramesIn, Few, Running
  <2> QED BY <1>2, <2>1, <2>2, <2>3, <2>4 DEF StartExport
<1> QED BY <1>1, <1>2 DEF ExportBegins

\* The next entry is visited: the directory has given one name more and passed
\* one entry more.
LEMMA NextBounds ==
  ASSUME ExportInv, ExportInv', BoundInv, NextEntry
  PROVE  BoundInv'
<1> DEFINE R == [Frame EXCEPT !.next = @ + 1, !.names = Append(@, NewName)]
           above == Append(Above, R)
<1>1. /\ Busy /\ More /\ Running /\ writing = NoFile /\ stack # <<>>
      /\ Visits(above, Current.node, Place, ThisEntry)
  BY DEF NextEntry, NewName, Place, Busy
<1>2. /\ Frame \in FrameType /\ NewName \in Name /\ Current.node \in Nodes
      /\ Frame = stack[Len(stack)] /\ Len(stack) \in DOMAIN stack /\ stack \in Seq(FrameType)
  BY <1>1, AtEntry DEF ExportInv, ExportType
<1>3. /\ R \in FrameType /\ R.path = Frame.path /\ R.node = Frame.node
      /\ R.next = Frame.next + 1 /\ R.names = Append(Frame.names, NewName)
      /\ \A j \in DOMAIN Frame.names : j \in DOMAIN R.names /\ R.names[j] = Frame.names[j]
  BY <1>2, NextFrame
<1>4. Len(R.names) < R.next
  <2>1. Frame.names \in Seq(Name) /\ Frame.next \in Nat
    BY <1>2 DEF FrameType
  <2>2. Len(Append(Frame.names, NewName)) = Len(Frame.names) + 1 /\ Len(Frame.names) \in Nat
    BY <1>2, <2>1
  <2>3. Len(Frame.names) < Frame.next
    BY <1>2 DEF BoundInv, Few
  <2> HIDE DEF R
  <2> QED BY <1>3, <2>1, <2>2, <2>3
<1> HIDE DEF R
<1>5. above \in Seq(FrameType) /\ Few(above)
  <2>1. Above \in Seq(FrameType) /\ Few(Above)
    BY <1>1, <1>2, FewLess DEF BoundInv, Above
  <2> QED BY <1>3, <1>4, <2>1, FewMore
<1> HIDE DEF above
<1>6. CASE Fails(above)
  BY <1>6 DEF BoundInv, FramesIn, Few, Running, Fails
<1>7. CASE Opens(above, Current.node, Place)
  <2>1. /\ stack' = above /\ outcome' = outcome
        /\ writing' = [node |-> Current.node, path |-> Place, left |-> Chunks[Current.node]]
    BY <1>7 DEF Opens
  <2>2. Chunks[Current.node] \in Nat
    BY <1>2, ExportFacts
  <2>3. writing'.left <= Chunks[writing'.node]
    BY <2>1, <2>2
  <2>4. FramesIn'
    BY <1>1, <2>1 DEF ExportInv, StackInv, FramesIn, Running
  <2> QED BY <1>1, <1>5, <2>1, <2>3, <2>4 DEF BoundInv, Running
<1>8. CASE Skips(above, Current.node, ThisEntry)
  <2>1. stack' = above /\ UNCHANGED <<writing, outcome>>
    BY <1>8 DEF Skips
  <2>2. FramesIn'
    BY <1>1, <2>1 DEF ExportInv, StackInv, FramesIn, Running
  <2> QED BY <1>1, <1>5, <2>1, <2>2 DEF BoundInv, Running
<1> DEFINE N == [node |-> Current.node, path |-> Place, next |-> 1, names |-> <<>>]
<1>9. CASE /\ Kind[Current.node] = "dir" /\ stack' = Append(above, N)
           /\ UNCHANGED <<writing, skipped, outcome>>
  <2>1. N \in FrameType /\ Len(N.names) < N.next
    <3>1. Place \in Seq(Name)
      BY <1>1, PlaceIsFree
    <3> QED BY <1>2, <1>9, <3>1 DEF FrameType, Dirs
  <2> HIDE DEF N
  <2>2. Few(stack')
    BY <1>5, <1>9, <2>1, FewMore
  <2>3. FramesIn'
    BY <1>1, <1>9 DEF ExportInv, StackInv, FramesIn, Running
  <2> QED BY <1>1, <1>9, <2>2, <2>3 DEF BoundInv, Running
<1> QED BY <1>1, <1>6, <1>7, <1>8, <1>9 DEF Visits, Refused, Enters

\* A step of an export.
LEMMA ExportBounds ==
  ASSUME ExportInv, ExportInv', BoundInv, Exporting
  PROVE  BoundInv'
<1>1. CASE Chunk
  <2>1. /\ Running /\ writing.left > 0 /\ writing' = [writing EXCEPT !.left = @ - 1]
        /\ UNCHANGED <<stack, host, skipped, outcome>>
    BY <1>1 DEF Chunk
  <2>2. writing \in FileType /\ writing # NoFile
    BY <2>1 DEF ExportInv, ExportType, NoFile
  <2>3. /\ writing'.node = writing.node /\ writing'.left = writing.left - 1
        /\ writing.left \in Nat /\ Chunks[writing.node] \in Nat
    BY <2>1, <2>2, ExportFacts DEF FileType
  <2>4. writing.left <= Chunks[writing.node]
    BY <2>2 DEF BoundInv
  <2>5. ASSUME NEW m \in Nat, NEW n \in Nat, m <= n PROVE m - 1 <= n
    BY <2>5
  <2>6. writing'.left <= Chunks[writing'.node]
    BY <2>3, <2>4, <2>5
  <2> QED BY <2>1, <2>6 DEF BoundInv, FramesIn, Running
<1>2. CASE ChunkFails
  BY <1>2 DEF BoundInv, FramesIn, Few, Running, ChunkFails, Fails
<1>3. CASE EndFile
  <2>1. Running /\ writing' = NoFile /\ UNCHANGED <<stack, outcome>>
    BY <1>3 DEF EndFile
  <2>2. FramesIn'
    BY <2>1 DEF ExportInv, StackInv, FramesIn, Running
  <2> QED BY <2>1, <2>2 DEF BoundInv, Running
<1>4. CASE Unreadable
  <2> DEFINE R == [Frame EXCEPT !.next = @ + 1]
  <2>1. /\ Busy /\ More /\ Running /\ stack # <<>> /\ stack' = Append(Above, R)
        /\ UNCHANGED <<writing, outcome>>
    BY <1>4 DEF Unreadable, Busy
  <2>2. /\ Frame \in FrameType /\ Frame = stack[Len(stack)] /\ Len(stack) \in DOMAIN stack
        /\ stack \in Seq(FrameType)
    BY <2>1, AtEntry DEF ExportInv, ExportType
  <2>3. R \in FrameType /\ R.next = Frame.next + 1 /\ R.names = Frame.names
    <3>1. Frame.next + 1 \in Nat \ {0}
      BY <2>2 DEF FrameType
    <3>2. ASSUME NEW n \in Nat \ {0}
          PROVE  LET F == [Frame EXCEPT !.next = n]
                 IN F \in FrameType /\ F.next = n /\ F.names = Frame.names
      BY <2>2 DEF FrameType
    <3> QED BY <3>1, <3>2
  <2> HIDE DEF R
  <2>4. Len(R.names) < R.next
    <3>1. Len(Frame.names) \in Nat /\ Frame.next \in Nat
      BY <2>2 DEF FrameType
    <3>2. Len(Frame.names) < Frame.next
      BY <2>2 DEF BoundInv, Few
    <3> QED BY <2>3, <3>1, <3>2
  <2>5. Few(stack')
    <3>1. Above \in Seq(FrameType) /\ Few(Above)
      BY <2>1, <2>2, FewLess DEF BoundInv, Above
    <3> QED BY <2>1, <2>3, <2>4, <3>1, FewMore
  <2>6. FramesIn'
    BY <2>1 DEF ExportInv, StackInv, FramesIn, Running
  <2> QED BY <2>1, <2>5, <2>6 DEF BoundInv, Running
<1>5. CASE Undecodable
  BY <1>5 DEF BoundInv, FramesIn, Running, Undecodable, Busy
<1>6. CASE NextEntry
  BY <1>6, NextBounds
<1>7. CASE EndDirectory
  <2>1. Running /\ stack # <<>> /\ stack' = Front(stack) /\ UNCHANGED <<writing, outcome>>
    BY <1>7 DEF EndDirectory, Busy, Above
  <2>2. Few(stack')
    BY <2>1, FewLess DEF BoundInv, ExportInv, ExportType
  <2>3. FramesIn'
    BY <2>1 DEF ExportInv, StackInv, FramesIn, Running
  <2> QED BY <2>1, <2>2, <2>3 DEF BoundInv, Running
<1>8. CASE EndExport
  BY <1>8 DEF BoundInv, FramesIn, Few, Running, EndExport
<1> QED BY <1>1, <1>2, <1>3, <1>4, <1>5, <1>6, <1>7, <1>8 DEF Exporting

\* A path is no longer than it may be.
LEMMA PageBoundsStep ==
  ASSUME PageInv, PageBounds,
         Show \/ Enter \/ Up \/ Pick \/ PickerCancelled \/ PickerAnswered
           \/ Publish \/ HandleFinish
  PROVE  PageBounds'
<1>1. /\ path \in Seq(Name) /\ Len(path) <= MaxPath /\ Len(path) \in Nat
      /\ Len(<<>>) <= MaxPath /\ session \in Nat /\ MaxPath \in Nat /\ MaxOpens \in Nat
  BY PageFacts DEF PageInv, ListInv, PageBounds
<1>2. CASE Show
  BY <1>1, <1>2 DEF Show, Restart, BrowseAt, PageBounds
<1>3. CASE Enter
  <2>1. PICK e \in EntriesOf : BrowseAt(Append(path, e.name))
    BY <1>3 DEF Enter
  <2>2. e.name \in Name
    BY <2>1, EntryListed DEF PageInv
  <2>3. Len(Append(path, e.name)) = Len(path) + 1 /\ Len(path) < MaxPath
    BY <1>1, <1>3, <2>2 DEF Enter
  <2>4. Len(Append(path, e.name)) <= MaxPath
    BY <1>1, <2>3
  <2> QED BY <1>3, <2>1, <2>4 DEF Enter, BrowseAt, PageBounds
<1>4. CASE Up
  <2>1. Len(Parent(path)) <= MaxPath
    <3>1. CASE path = <<>>
      BY <1>1, <3>1 DEF Parent
    <3>2. CASE path # <<>>
      <4>1. \E x : x \in Name
        BY <1>1, <3>2
      <4>2. Len(Front(path)) = Len(path) - 1
        BY <1>1, <3>2, <4>1, Replaced
      <4>3. Len(Front(path)) <= MaxPath
        BY <1>1, <4>2
      <4> QED BY <3>2, <4>3 DEF Parent
    <3> QED BY <3>1, <3>2
  <2> QED BY <1>4, <2>1 DEF Up, BrowseAt, PageBounds
<1>5. CASE Pick \/ PickerCancelled \/ PickerAnswered
  BY <1>5 DEF Pick, PickerCancelled, PickerAnswered, PageBounds
<1>6. CASE Publish
  BY <1>1, <1>6 DEF Publish, PageBounds
<1>7. CASE HandleFinish
  BY <1>1, <1>7 DEF HandleFinish, Restart, BrowseAt, PageBounds
<1> QED BY <1>2, <1>3, <1>4, <1>5, <1>6, <1>7

(***************************************************************************)
(* The steps of the two programs.                                          *)
(***************************************************************************)

\* A step is one of the mount or of the window.
LEMMA StepCases ==
  ASSUME [Next]_vars
  PROVE  \/ UNCHANGED <<exportVars, pageVars>>
         \/ /\ UNCHANGED exportVars
            /\ Show \/ Enter \/ Up \/ Pick \/ PickerCancelled \/ PickerAnswered
                 \/ Publish \/ HandleFinish
         \/ ExportBegins
         \/ Exporting /\ UNCHANGED pageVars
<1>1. CASE UNCHANGED vars
  BY <1>1 DEF vars, filesVars
<1>2. CASE program = "mount" /\ Mounting /\ UNCHANGED <<program, filesVars>>
  BY <1>2 DEF filesVars
<1>3. CASE program = "window" /\ Files /\ UNCHANGED <<program, viewVars>>
  <2>1. Show \/ Enter \/ Up \/ Pick \/ PickerCancelled \/ PickerAnswered \/ ExportBegins
          \/ Publish \/ HandleFinish \/ (Exporting /\ UNCHANGED pageVars)
    BY <1>3 DEF Files, Page, Opening
  <2>2. Show \/ Enter \/ Up \/ Pick \/ PickerCancelled \/ PickerAnswered \/ Publish \/ HandleFinish
          => UNCHANGED exportVars
    BY DEF Show, Enter, Up, Pick, PickerCancelled, PickerAnswered, Publish, HandleFinish
  <2> QED BY <2>1, <2>2
<1> QED BY <1>1, <1>2, <1>3 DEF Next

\* The inductive invariant holds in every state of every behaviour.
THEOREM Invariant == Spec => []IInv
<1>1. Init => IInv
  <2> SUFFICES ASSUME Init PROVE IInv
    OBVIOUS
  <2>1. stack = <<>> /\ writing = NoFile /\ host = <<>> /\ skipped = {} /\ outcome = "none"
    BY DEF Init, FilesInit, ExportInit
  <2>2. /\ session = 0 /\ path = <<>> /\ list = NoList /\ picked = Nothing /\ order = Nothing
    BY DEF Init, FilesInit
  <2>3. DOMAIN host = {} /\ host \in [{} -> PlacedType]
    BY <2>1
  <2>4. ExportType
    BY <2>1, <2>3, TreeFacts, FS_EmptySet DEF ExportType, NoFile, FileType
  <2>5. WritingInv /\ StackInv /\ TreeInv /\ NamesInv /\ CountInv /\ EndInv
    BY <2>1, <2>3 DEF WritingInv, StackInv, TreeInv, NamesInv, CountInv, EndInv, Running
  <2>6. PageInv
    BY <2>2 DEF PageInv, ListInv, PickedInv, OrderInv, NoList
  <2> QED BY <2>4, <2>5, <2>6 DEF IInv, ExportInv
<1>2. IInv /\ [Next]_vars => IInv'
  <2> SUFFICES ASSUME ExportInv, PageInv, [Next]_vars PROVE ExportInv' /\ PageInv'
    BY DEF IInv
  <2>1. CASE UNCHANGED <<exportVars, pageVars>>
    BY <2>1, ExportStays, PageStays
  <2>2. CASE /\ UNCHANGED exportVars
             /\ Show \/ Enter \/ Up \/ Pick \/ PickerCancelled \/ PickerAnswered
                  \/ Publish \/ HandleFinish
    <3>1. ExportInv'
      BY <2>2, ExportStays
    <3>2. PageInv'
      BY <2>2, BrowsingStep, PickStep, PickerStep, PublishStep, HandleFinishStep
    <3> QED BY <3>1, <3>2
  <2>3. CASE ExportBegins
    BY <2>3, BeginStep
  <2>4. CASE Exporting /\ UNCHANGED pageVars
    BY <2>4, ExportingStep, PageStays
  <2> QED BY <2>1, <2>2, <2>3, <2>4, StepCases
<1> QED BY <1>1, <1>2, PTL DEF Spec

\* An export that is over, whether it succeeded, failed in the middle of a tree
\* or took the program with it, leaves no file on the host that has not been
\* written to the end (copy_file() removes what it could not finish).
THEOREM NoPartialFile == Spec => []NoBrokenFileStays
<1>1. IInv => NoBrokenFileStays
  BY DEF IInv, ExportInv, WritingInv, NoBrokenFileStays
<1> QED BY <1>1, Invariant, PTL

\* Success means all of the tree: every entry of every directory that was made
\* has its own place on the host or its warning.
THEOREM SuccessIsOfAll == Spec => []SuccessIsComplete
<1>1. IInv => SuccessIsComplete
  <2> SUFFICES ASSUME ExportInv, outcome = "ok", NEW p \in DOMAIN host, host[p].state = "dir"
               PROVE  Count(p) = Len(Entries[host[p].node])
    BY DEF IInv, SuccessIsComplete, Count, SkippedIn
  <2>1. Due(p) /\ stack = <<>>
    BY DEF ExportInv, CountInv, EndInv
  <2> QED BY <2>1 DEF Due
<1> QED BY <1>1, Invariant, PTL

\* What is exported is what was selected in the list, as long as the session
\* and the list it was selected from are those of the export
\* (export_selected_entry).
THEOREM SelectionIsExported == Spec => []ExportIsOfSelection
<1>1. IInv => ExportIsOfSelection
  BY DEF IInv, PageInv, OrderInv, ExportIsOfSelection, Nothing
<1> QED BY <1>1, Invariant, PTL

\* What an export has copied it neither replaces nor removes: no two entries of
\* a directory are given one name (unique_host_name).
THEOREM NothingIsOverwritten == Spec => CopiesStay
<1>1. IInv /\ [Next]_vars
        => [\A p \in DOMAIN host :
              Running /\ host[p].state = "closed"
                => p \in DOMAIN host' /\ host'[p] = host[p]]_exportVars
  <2> SUFFICES ASSUME ExportInv, [Next]_vars, Running,
                      NEW p \in DOMAIN host, host[p].state = "closed", host' # host
               PROVE  p \in DOMAIN host' /\ host'[p] = host[p]
    BY DEF IInv
  <2>1. Exporting
    BY StepCases DEF exportVars, ExportBegins, StartExport, ExportFails
  <2>2. ChunkFails \/ EndFile \/ NextEntry
    BY <2>1 DEF Exporting, Chunk, Unreadable, Undecodable, EndDirectory, EndExport
  <2>3. CASE ChunkFails
    <3>1. p # writing.path
      BY <2>3, TreeFacts DEF ExportInv, WritingInv, ChunkFails, NoFile
    <3> QED BY <2>3, <3>1 DEF ChunkFails
  <2>4. CASE EndFile
    <3>1. p # writing.path
      BY <2>4 DEF ExportInv, WritingInv, EndFile
    <3> QED BY <2>4, <3>1 DEF EndFile, On
  <2>5. CASE NextEntry
    <3>1. Busy /\ More
      BY <2>5 DEF NextEntry
    <3>2. On(Place, Current.node, "part") \/ On(Place, Current.node, "dir")
      BY <2>5 DEF NextEntry, NewName, Place, Visits, Refused, Opens, Skips, Enters
    <3>3. Place \notin DOMAIN host
      BY <3>1, PlaceIsFree
    <3> QED BY <3>2, <3>3 DEF On
  <2> QED BY <2>2, <2>3, <2>4, <2>5
<1> QED BY <1>1, Invariant, PTL DEF Spec, CopiesStay

\* The mount keeps its own invariant.
THEOREM ViewInvariant == Spec => []ViewInv
<1>1. Init => ViewInv
  BY ViewBegins DEF Init
<1>2. ViewInv /\ [Next]_vars => ViewInv'
  <2> SUFFICES ASSUME ViewInv, [Next]_vars PROVE ViewInv'
    OBVIOUS
  <2>1. UNCHANGED viewVars \/ Mounting
    BY DEF Next, vars
  <2> QED BY <2>1, MountingStep, ViewStays
<1> QED BY <1>1, <1>2, PTL DEF Spec

\* What is opened, read or listed under a name is the entry that the listing
\* showed under that name, unless a directory on the way has been listed with an
\* unreadable inode or the name is not UTF-8 (make_entry_aliases(), lookup()).
THEOREM NameLeadsToEntry == Spec => []ShownNameLeadsToItsEntry
<1>1. ViewInv => ShownNameLeadsToItsEntry
  BY AnswerIsWanted DEF ViewInv, CallsInv, ShownNameLeadsToItsEntry, Answered
<1> QED BY <1>1, ViewInvariant, PTL

\* Exports and the page keep within their bounds.
THEOREM WithinBounds == Spec => [](BoundInv /\ PageBounds)
<1>1. Init => BoundInv /\ PageBounds
  <2> SUFFICES ASSUME Init PROVE BoundInv /\ PageBounds
    OBVIOUS
  <2>1. stack = <<>> /\ writing = NoFile /\ outcome = "none"
        /\ session = 0 /\ news = FALSE /\ path = <<>>
    BY DEF Init, FilesInit, ExportInit
  <2>2. FramesIn /\ Few(stack)
    BY <2>1 DEF FramesIn, Few
  <2>3. BoundInv
    BY <2>1, <2>2 DEF BoundInv, Running
  <2>4. PageBounds
    <3>1. Len(<<>>) = 0 /\ FALSE \in BOOLEAN /\ 0 <= MaxOpens /\ 0 <= MaxPath
      BY PageFacts
    <3> QED BY <2>1, <3>1 DEF PageBounds
  <2> QED BY <2>3, <2>4
<1>2. IInv /\ IInv' /\ BoundInv /\ PageBounds /\ [Next]_vars => (BoundInv /\ PageBounds)'
  <2> SUFFICES ASSUME IInv, IInv', BoundInv, PageBounds, [Next]_vars
               PROVE  BoundInv' /\ PageBounds'
    OBVIOUS
  <2>1. ExportInv /\ ExportInv' /\ PageInv
    BY DEF IInv
  <2>2. UNCHANGED exportVars => BoundInv'
    BY DEF exportVars, BoundInv, FramesIn, Few, Running
  <2>3. UNCHANGED pageVars => PageBounds'
    BY DEF pageVars, PageBounds
  <2>4. CASE /\ UNCHANGED exportVars
             /\ Show \/ Enter \/ Up \/ Pick \/ PickerCancelled \/ PickerAnswered
                  \/ Publish \/ HandleFinish
    BY <2>1, <2>2, <2>4, PageBoundsStep
  <2>5. CASE ExportBegins
    <3>1. PageBounds'
      BY <2>5 DEF ExportBegins, PageBounds
    <3> QED BY <2>1, <2>5, <3>1, BeginBounds
  <2>6. CASE Exporting /\ UNCHANGED pageVars
    BY <2>1, <2>3, <2>6, ExportBounds
  <2> QED BY <2>2, <2>3, <2>4, <2>5, <2>6, StepCases
<1> QED BY <1>1, <1>2, Invariant, PTL DEF Spec

\* Every variable of the mount and of the window has its type.
THEOREM TypeCorrect == Spec => []TypeOK
<1>1. ViewInv => ViewTypeOK
  <2> SUFFICES ASSUME ViewInv PROVE ViewTypeOK
    OBVIOUS
  <2>1. \A dir \in Dirs \ Fixed : cache[dir] = None \/ cache[dir] \subseteq Nodes
    BY DEF ViewInv, CacheInv
  <2>2. ASSUME NEW t \in Threads PROVE IsCall(calls[t])
    BY DEF ViewInv, CallsInv, CallType, Asked, Path, IsCall
  <2>3. handle.want \in Nodes /\ Len(handle.names) <= MaxDepth
    BY DEF ViewInv, HandleInv, Path
  <2>4. shown = None \/ (shown.dir \in Dirs /\ shown.lost \subseteq Nodes)
    BY DEF ViewInv, ShownInv
  <2> QED BY <2>1, <2>2, <2>3, <2>4 DEF ViewInv, CacheInv, ViewTypeOK
<1>2. IInv /\ BoundInv /\ PageBounds => PageTypeOK
  <2> SUFFICES ASSUME ExportInv, PageInv, BoundInv, PageBounds PROVE PageTypeOK
    BY DEF IInv
  <2>1. ASSUME NEW i \in DOMAIN stack
        PROVE  /\ stack[i].node \in Dirs /\ stack[i].path \in DOMAIN host
               /\ stack[i].next \in 1 .. Len(Entries[stack[i].node]) + 1
               /\ Len(stack[i].names) < stack[i].next
    <3>1. stack[i] \in FrameType
      BY DEF ExportInv, ExportType
    <3>2. stack[i].node \in Dirs /\ stack[i].next \in Nat \ {0}
      BY <3>1 DEF FrameType
    <3>3. Entries[stack[i].node] \in Seq(Entry)
      BY <3>2, TreeFacts DEF Dirs, Entry
    <3>4. Len(Entries[stack[i].node]) \in Nat
      BY <3>3
    <3>5. stack[i].next <= Len(Entries[stack[i].node]) + 1 /\ stack[i].path \in DOMAIN host
          /\ Len(stack[i].names) < stack[i].next
      BY DEF BoundInv, FramesIn, Few
    <3> QED BY <3>2, <3>4, <3>5
  <2>2. writing = NoFile
          \/ (Kind[writing.node] = "file" /\ writing.path \in DOMAIN host
                /\ writing.left \in 0 .. Chunks[writing.node])
    <3> SUFFICES ASSUME writing # NoFile
                 PROVE  /\ Kind[writing.node] = "file" /\ writing.path \in DOMAIN host
                        /\ writing.left \in 0 .. Chunks[writing.node]
      OBVIOUS
    <3>1. Running /\ writing.left <= Chunks[writing.node]
      BY DEF BoundInv
    <3>2. Kind[writing.node] = "file" /\ writing.path \in DOMAIN host
      BY <3>1 DEF ExportInv, WritingInv
    <3>3. writing.left \in Nat /\ Chunks[writing.node] \in Nat
      BY ExportFacts DEF ExportInv, ExportType, FileType
    <3> QED BY <3>1, <3>2, <3>3
  <2>3. \A p \in DOMAIN host : host[p].node \in Nodes /\ host[p].state \in {"part", "closed", "dir"}
    BY DEF ExportInv, ExportType, PlacedType
  <2>4. ExportTypeOK
    BY <2>1, <2>2, <2>3 DEF ExportTypeOK, BoundInv
  <2>5. session \in 0 .. MaxOpens /\ list.session \in 0 .. MaxOpens /\ list.intact \in BOOLEAN
    <3>1. session \in Nat /\ list.session \in Nat /\ list.intact \in BOOLEAN
          /\ list.session <= session /\ session <= MaxOpens /\ MaxOpens \in Nat
      BY PageFacts DEF PageInv, ListInv, PageBounds
    <3> QED BY <3>1
  <2>6. picked.intact \in BOOLEAN /\ order.intact \in BOOLEAN
    <3>1. Nothing.intact \in BOOLEAN /\ \A o \in OrderType : o.intact \in BOOLEAN
      BY DEF Nothing, OrderType
    <3> QED BY <3>1 DEF PageInv, PickedInv, OrderInv
  <2> QED BY <2>4, <2>5, <2>6 DEF PageTypeOK, PageBounds
<1> QED BY <1>1, <1>2, Invariant, ViewInvariant, WithinBounds, PTL DEF TypeOK
=============================================================================
