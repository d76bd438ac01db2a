-------------------------- MODULE ReadPathProofs --------------------------
(***************************************************************************)
(* Theorems about the read path, for every device size, page size, cache   *)
(* limit, look-ahead, number of threads and set of requests.               *)
(***************************************************************************)
EXTENDS ReadPath, FiniteSetTheorems, TLAPS

USE DEF readerVars, aheadVars

Extents == [off : Nat, len : Nat]

\* The stages of a request the page cache has passed down.
Below == {"lookup", "small", "large", "exact", "grown", "return"}

\* What the page cache asks the read-ahead layer for.
Passed(q) == IF Bypasses(q) THEN q ELSE PageFill(q)

Excused(q) == ~ InDevice(q) \/ ReachOf(q) \cap bad # {}

\* One reader's request q, stage st, inner request i, handed-up result g and
\* answer a fit together.
Coherent(q, st, i, g, a) ==
  /\ i \in Extents /\ InDevice(i)
  /\ st = "idle" => a = Idle
  /\ st \in Below \cup {"cache"} => a = Waiting
  /\ st = "done" => \/ a = Failed /\ Excused(q)
                    \/ a = Read(Content(q)) /\ InDevice(q)
  /\ st \in Below => InDevice(q) /\ q.len # 0 /\ i = Passed(q)
  /\ st = "return" => \/ g = Failed /\ ReachOf(q) \cap bad # {}
                      \/ g = Read(Content(i)) /\ Bytes(i) \cap bad = {}
  /\ st # "return" => g = Idle

ReadersCoherent ==
  /\ request \in [Readers -> Requests]
  /\ stage \in [Readers -> Stages]
  /\ DOMAIN inner = Readers /\ DOMAIN got = Readers /\ DOMAIN answer = Readers
  /\ inner = [r \in Readers |-> inner[r]]
  /\ got = [r \in Readers |-> got[r]]
  /\ answer = [r \in Readers |-> answer[r]]
  /\ \A r \in Readers : Coherent(request[r], stage[r], inner[r], got[r], answer[r])

WholePage(p) == PageFill([off |-> p * PageSize, len |-> 0])

\* A page as it must be cached.
GoodPage(p, page) ==
  /\ p \in Nat /\ p * PageSize <= Size
  /\ page = [valid |-> WholePage(p).len, bytes |-> Content(WholePage(p))]
  /\ Bytes(WholePage(p)) \cap bad = {}

PagesCoherent ==
  /\ IsFiniteSet(DOMAIN pages)
  /\ Cardinality(DOMAIN pages) <= MaxPages
  /\ \A p \in DOMAIN pages : GoodPage(p, pages[p])

Held(w) == [off |-> w.start, len |-> w.size]

WindowCoherent ==
  /\ window.start \in Nat /\ window.size \in Nat
  /\ window.start + window.size <= Size
  /\ window.data = Content(Held(window))
  /\ Bytes(Held(window)) \cap bad = {}

Rest == bad \subseteq 0 .. (Size - 1) /\ lastEnd \in 0 .. NoLast /\ clearing \in BOOLEAN

IInv == ReadersCoherent /\ PagesCoherent /\ WindowCoherent /\ Rest
-----------------------------------------------------------------------------
(* Pages, windows and slices.                                              *)

\* Division with remainder.
LEMMA Division ==
  ASSUME NEW a \in Nat, NEW d \in Nat \ {0}
  PROVE  /\ a \div d \in Nat /\ a % d \in 0 .. (d - 1)
         /\ a = (a \div d) * d + (a % d)
         /\ (a \div d) * d \in Nat
  BY SMT

\* A multiple of the page size is the start of its own page.
LEMMA PageStart ==
  ASSUME NEW p \in Nat
  PROVE  /\ p * PageSize \in Nat /\ (p * PageSize) \div PageSize = p
         /\ WholePage(p).off = p * PageSize
  BY PageType, SMT DEF WholePage, PageFill, PageOf

\* A request the page cache serves lies within the page it fills.
LEMMA FillHoldsRequest ==
  ASSUME NEW q \in Extents, InDevice(q), q.len # 0
  PROVE  /\ PageFill(q) \in Extents /\ InDevice(PageFill(q))
         /\ PageFill(q).off + InPage(q) = q.off
         /\ InPage(q) \in Nat /\ PageOf(q) \in Nat
         /\ PageFill(q).len <= PageSize
         /\ PageFill(q).off <= q.off
         /\ PageFill(q).off = (q.off \div PageSize) * PageSize
         /\ PageFill(q) = WholePage(PageOf(q))
         /\ PageOf(q) * PageSize <= Size
         /\ ~ Bypasses(q) => InPage(q) + q.len <= PageFill(q).len
<1>1. q.off \in Nat /\ q.len \in Nat \ {0} /\ q.off + q.len <= Size
  BY SizeType, SMT DEF Extents, InDevice
<1>2. PageSize \in Nat \ {0}
  BY PageType
<1>3. /\ PageOf(q) \in Nat /\ InPage(q) \in 0 .. (PageSize - 1)
      /\ q.off = PageOf(q) * PageSize + InPage(q)
      /\ PageOf(q) * PageSize \in Nat
  BY <1>1, <1>2, Division DEF PageOf, InPage
<1>4. PageOf(q) * PageSize <= q.off
  BY <1>1, <1>2, <1>3, SMT
<1> DEFINE s == PageOf(q) * PageSize
<1>5. /\ PageFill(q).off = s
      /\ PageFill(q).len = IF PageSize <= Size - s THEN PageSize ELSE Size - s
      /\ PageFill(q) = [off |-> s, len |-> IF PageSize <= Size - s THEN PageSize ELSE Size - s]
  BY DEF PageFill
<1>6. PageFill(q) \in Extents /\ InDevice(PageFill(q)) /\ PageFill(q).len <= PageSize
  <2> HIDE DEF s
  <2> QED BY <1>1, <1>2, <1>3, <1>4, <1>5, SizeType, SMT DEF Extents, InDevice, s
<1>7. PageFill(q) = WholePage(PageOf(q))
  <2>1. PageOf([off |-> PageOf(q) * PageSize, len |-> 0]) = PageOf(q)
    BY <1>3, PageStart DEF PageOf
  <2> QED BY <2>1 DEF WholePage, PageFill
<1>8. ~ Bypasses(q) => InPage(q) + q.len <= PageFill(q).len
  <2> SUFFICES ASSUME ~ Bypasses(q) PROVE InPage(q) + q.len <= PageFill(q).len
    OBVIOUS
  <2> DEFINE last == q.off + q.len - 1
  <2>1. last \in Nat
    BY <1>1, SMT
  <2>2. last \div PageSize = PageOf(q)
    BY DEF Bypasses
  <2>3. last = PageOf(q) * PageSize + (last % PageSize) /\ last % PageSize \in 0 .. (PageSize - 1)
    BY <2>1, <2>2, <1>2, Division
  <2> HIDE DEF last
  <2>4. q.off + q.len = last + 1
    BY <1>1, SMT DEF last
  <2> QED BY <1>1, <1>2, <1>3, <1>5, <2>3, <2>4, SizeType, SMT
<1>9. q.off = s + InPage(q) /\ s <= q.off /\ s = (q.off \div PageSize) * PageSize
  BY <1>3, <1>4 DEF PageOf
<1>10. s <= Size
  BY <1>1, <1>3, <1>9, SizeType, SMT
<1>11. PageFill(q).off + InPage(q) = q.off /\ PageFill(q).off <= q.off
  <2> HIDE DEF s
  <2> QED BY <1>5, <1>9
<1> QED
  BY <1>3, <1>5, <1>6, <1>7, <1>8, <1>9, <1>10, <1>11

\* Any part of a range's content is the content of that part.
LEMMA SliceOfContent ==
  ASSUME NEW q \in Extents, NEW p \in Extents, NEW at \in Nat,
         p.off + at = q.off, at + q.len <= p.len
  PROVE  Slice(Content(p), at, q.len) = Content(q)
  BY SMT DEF Slice, Content, Extents

\* The grown request starts with the request and stays within the device.
LEMMA GrownHoldsRequest ==
  ASSUME NEW q \in Extents, InDevice(q)
  PROVE  /\ Grown(q) \in Extents /\ InDevice(Grown(q))
         /\ Grown(q).off = q.off /\ q.len <= Grown(q).len
         /\ Grown(q).len <= q.len + LookAhead
  BY SizeType, LimitType, SMT DEF Extents, InDevice, Grown

\* Whatever is read for a request lies within its reach.
LEMMA PassedWithinReach ==
  ASSUME NEW q \in Extents, InDevice(q), q.len # 0
  PROVE  /\ Passed(q) \in Extents /\ InDevice(Passed(q))
         /\ Bytes(Passed(q)) \subseteq ReachOf(q)
         /\ Bytes(Grown(Passed(q))) \subseteq ReachOf(q)
<1> DEFINE i == Passed(q)
<1> DEFINE from == (q.off \div PageSize) * PageSize
<1>1. q.off \in Nat /\ q.len \in Nat \ {0} /\ from \in Nat /\ from <= q.off
  <2>1. q.off \in Nat /\ q.len \in Nat \ {0}
    BY SMT DEF Extents
  <2>2. PageFill(q).off <= q.off /\ PageFill(q).off = from /\ PageFill(q) \in Extents
    BY FillHoldsRequest
  <2> QED BY <2>1, <2>2 DEF Extents
<1>2. i \in Extents /\ InDevice(i) /\ from <= i.off /\ i.off <= q.off
      /\ i.len <= q.len + PageSize
  <2>1. CASE Bypasses(q)
    <3>1. i = q
      BY <2>1 DEF Passed
    <3> HIDE DEF i, from
    <3> QED BY <1>1, <3>1, PageType, SMT
  <2>2. CASE ~ Bypasses(q)
    <3>1. i = PageFill(q)
      BY <2>2 DEF Passed
    <3>2. PageFill(q) \in Extents /\ InDevice(PageFill(q)) /\ PageFill(q).off = from
          /\ PageFill(q).len <= PageSize
      BY FillHoldsRequest
    <3> HIDE DEF i, from
    <3> QED BY <1>1, <3>1, <3>2, PageType, SMT DEF Extents
  <2> QED BY <2>1, <2>2
<1>3. Grown(i) \in Extents /\ InDevice(Grown(i)) /\ Grown(i).off = i.off
      /\ i.len <= Grown(i).len /\ Grown(i).len <= i.len + LookAhead
  BY <1>2, GrownHoldsRequest
<1>4. ReachOf(q) = { b \in 0 .. (Size - 1) :
                       from <= b /\ b < q.off + q.len + PageSize + LookAhead }
  BY DEF ReachOf
<1> HIDE DEF i, from
<1>5. Bytes(i) \subseteq ReachOf(q)
  BY <1>1, <1>2, <1>4, SizeType, PageType, LimitType, SMT DEF Bytes, Extents, InDevice
<1>6. Bytes(Grown(i)) \subseteq ReachOf(q)
  BY <1>1, <1>2, <1>3, <1>4, SizeType, PageType, LimitType, SMT DEF Bytes, Extents, InDevice
<1> QED BY <1>2, <1>5, <1>6 DEF i

\* The four outcomes of a read are different.
LEMMA Outcomes ==
  ASSUME NEW d
  PROVE  /\ Read(d) \notin {Idle, Waiting, Failed} /\ Failed \notin {Idle, Waiting}
         /\ Idle # Waiting /\ Read(d).data = d
  <1>1. Idle.state = "idle" /\ Waiting.state = "waiting" /\ Failed.state = "failed"
        /\ Read(d).state = "read" /\ Read(d).data = d
    BY DEF Idle, Waiting, Failed, Read
  <1> QED BY <1>1, SMT
-----------------------------------------------------------------------------
(* The initial states.                                                     *)

LEMMA InitIInv == Init => IInv
<1> SUFFICES ASSUME Init PROVE IInv
  OBVIOUS
<1>1. ReadersCoherent
  <2>1. request \in [Readers -> Requests]
    BY RequestType DEF Init
  <2>2. stage \in [Readers -> Stages]
    BY DEF Init, Stages
  <2>3. /\ DOMAIN inner = Readers /\ DOMAIN got = Readers /\ DOMAIN answer = Readers
        /\ inner = [r \in Readers |-> inner[r]]
        /\ got = [r \in Readers |-> got[r]]
        /\ answer = [r \in Readers |-> answer[r]]
    BY DEF Init
  <2>4. Nothing \in Extents /\ InDevice(Nothing)
    BY SizeType, SMT DEF Nothing, Extents, InDevice
  <2>5. ASSUME NEW r \in Readers
        PROVE  Coherent(request[r], stage[r], inner[r], got[r], answer[r])
    <3>1. stage[r] = "idle" /\ inner[r] = Nothing /\ got[r] = Idle /\ answer[r] = Idle
      BY DEF Init
    <3> QED BY <2>4, <3>1 DEF Coherent, Below
  <2> QED BY <2>1, <2>2, <2>3, <2>5 DEF ReadersCoherent
<1>2. PagesCoherent
  <2>1. DOMAIN pages = {}
    BY DEF Init, NoPages
  <2> QED BY <2>1, PageType, FS_EmptySet, SMT DEF PagesCoherent
<1>3. WindowCoherent
  <2>1. window.start = 0 /\ window.size = 0 /\ window.data = <<>>
    BY DEF Init, NoWindow, NoData
  <2>2. Content(Held(window)) = <<>>
    BY <2>1, SMT DEF Content, Held
  <2>3. Bytes(Held(window)) = {}
    BY <2>1, SMT DEF Bytes, Held
  <2> QED BY <2>1, <2>2, <2>3, SizeType, SMT DEF WindowCoherent
<1>4. Rest
  <2>1. bad \subseteq 0 .. (Size - 1)
    BY BadType DEF Init
  <2>2. lastEnd \in 0 .. NoLast
    BY SizeType, SMT DEF Init, NoLast
  <2>3. clearing \in BOOLEAN
    BY DEF Init
  <2> QED BY <2>1, <2>2, <2>3 DEF Rest
<1> QED BY <1>1, <1>2, <1>3, <1>4 DEF IInv
-----------------------------------------------------------------------------
(* One reader moves and the others stay.                                   *)

LEMMA ReaderMoves ==
  ASSUME ReadersCoherent, NEW r \in Readers, bad' = bad,
         NEW q \in Requests, NEW st \in Stages, NEW i, NEW g, NEW a,
         request' = [request EXCEPT ![r] = q],
         stage' = [stage EXCEPT ![r] = st],
         inner' = [inner EXCEPT ![r] = i],
         got' = [got EXCEPT ![r] = g],
         answer' = [answer EXCEPT ![r] = a],
         Coherent(q, st, i, g, a)
  PROVE  ReadersCoherent'
<1>1. request' \in [Readers -> Requests] /\ stage' \in [Readers -> Stages]
  BY DEF ReadersCoherent
<1>2. /\ DOMAIN inner' = Readers /\ DOMAIN got' = Readers /\ DOMAIN answer' = Readers
      /\ inner' = [x \in Readers |-> inner'[x]]
      /\ got' = [x \in Readers |-> got'[x]]
      /\ answer' = [x \in Readers |-> answer'[x]]
  BY DEF ReadersCoherent
<1>3. ASSUME NEW x \in Readers
      PROVE  Coherent(request[x], stage[x], inner[x], got[x], answer[x])'
  <2>1. CASE x = r
    <3>1. /\ request'[x] = q /\ stage'[x] = st /\ inner'[x] = i
          /\ got'[x] = g /\ answer'[x] = a
      BY <2>1 DEF ReadersCoherent
    <3> QED BY <3>1 DEF Coherent, Excused
  <2>2. CASE x # r
    <3>1. /\ request'[x] = request[x] /\ stage'[x] = stage[x] /\ inner'[x] = inner[x]
          /\ got'[x] = got[x] /\ answer'[x] = answer[x]
      BY <2>2 DEF ReadersCoherent
    <3>2. Coherent(request[x], stage[x], inner[x], got[x], answer[x])
      BY DEF ReadersCoherent
    <3> QED BY <3>1, <3>2 DEF Coherent, Excused
  <2> QED BY <2>1, <2>2
<1> QED BY <1>1, <1>2, <1>3 DEF ReadersCoherent

\* A variable that stays keeps the reader's value.
LEMMA Stays ==
  ASSUME ReadersCoherent, NEW r \in Readers
  PROVE  /\ request = [request EXCEPT ![r] = request[r]]
         /\ inner = [inner EXCEPT ![r] = inner[r]]
         /\ got = [got EXCEPT ![r] = got[r]]
         /\ answer = [answer EXCEPT ![r] = answer[r]]
  BY DEF ReadersCoherent

LEMMA ReaderFacts ==
  ASSUME ReadersCoherent, NEW r \in Readers
  PROVE  /\ request[r] \in Requests /\ request[r] \in Extents /\ stage[r] \in Stages
         /\ Coherent(request[r], stage[r], inner[r], got[r], answer[r])
         /\ inner[r] \in Extents /\ InDevice(inner[r])
<1>1. request[r] \in Requests /\ stage[r] \in Stages
      /\ Coherent(request[r], stage[r], inner[r], got[r], answer[r])
  BY DEF ReadersCoherent
<1>2. request[r] \in Extents
  BY <1>1, RequestType DEF Extents
<1> QED BY <1>1, <1>2 DEF Coherent

\* The layers below the mutexes keep their parts when they are not touched.
LEMMA CachesStay ==
  ASSUME PagesCoherent, WindowCoherent, bad' = bad
  PROVE  /\ pages' = pages => PagesCoherent'
         /\ window' = window => WindowCoherent'
<1>1. ASSUME pages' = pages PROVE PagesCoherent'
  BY <1>1 DEF PagesCoherent, GoodPage
<1>2. ASSUME window' = window PROVE WindowCoherent'
  BY <1>2 DEF WindowCoherent
<1> QED BY <1>1, <1>2

\* What the medium answers.
LEMMA MediumAnswers ==
  ASSUME NEW q
  PROVE  \/ Medium(q) = Failed /\ Bytes(q) \cap bad # {}
         \/ Medium(q) = Read(Content(q)) /\ Medium(q) # Failed /\ Bytes(q) \cap bad = {}
  BY Outcomes DEF Medium
-----------------------------------------------------------------------------
(* The steps.                                                              *)

LEMMA AskStep ==
  ASSUME IInv, NEW r \in Readers, NEW q \in Requests, Ask(r, q)
  PROVE  IInv'
<1>1. ReadersCoherent /\ PagesCoherent /\ WindowCoherent /\ Rest
  BY DEF IInv
<1>2. Coherent(request[r], stage[r], inner[r], got[r], answer[r])
  BY <1>1, ReaderFacts
<1>3. stage[r] = "idle"
  BY DEF Ask
<1>4. Coherent(q, "cache", inner[r], got[r], Waiting)
  BY <1>2, <1>3 DEF Coherent, Below
<1>5. ReadersCoherent'
  <2>1. "cache" \in Stages
    BY DEF Stages
  <2>2. inner' = [inner EXCEPT ![r] = inner[r]] /\ got' = [got EXCEPT ![r] = got[r]]
    BY <1>1, Stays DEF Ask
  <2> QED BY <1>1, <1>4, <2>1, <2>2, ReaderMoves DEF Ask
<1>6. PagesCoherent' /\ WindowCoherent' /\ Rest'
  BY <1>1, CachesStay DEF Ask, Rest
<1> QED BY <1>5, <1>6 DEF IInv

\* The page cache answers a request: q's content, or a failure that is excused.
LEMMA ReplyStep ==
  ASSUME IInv, NEW r \in Readers, NEW a, stage[r] = "cache", Reply(r, a),
         bad' = bad, request' = request, pages' = pages, window' = window,
         lastEnd' = lastEnd, clearing' = clearing,
         \/ a = Failed /\ Excused(request[r])
         \/ a = Read(Content(request[r])) /\ InDevice(request[r])
  PROVE  IInv'
<1>1. ReadersCoherent /\ PagesCoherent /\ WindowCoherent /\ Rest
  BY DEF IInv
<1>2. Coherent(request[r], stage[r], inner[r], got[r], answer[r])
      /\ request[r] \in Requests
  BY <1>1, ReaderFacts
<1>3. Coherent(request[r], "done", inner[r], got[r], a)
  BY <1>2 DEF Coherent, Below
<1>4. ReadersCoherent'
  <2>1. "done" \in Stages
    BY DEF Stages
  <2>2. inner' = [inner EXCEPT ![r] = inner[r]] /\ got' = [got EXCEPT ![r] = got[r]]
        /\ request' = [request EXCEPT ![r] = request[r]]
    BY <1>1, Stays DEF Reply
  <2> QED BY <1>1, <1>2, <1>3, <2>1, <2>2, ReaderMoves DEF Reply
<1>5. PagesCoherent' /\ WindowCoherent' /\ Rest'
  BY <1>1, CachesStay DEF Rest
<1> QED BY <1>4, <1>5 DEF IInv

\* The page cache passes a request down.
LEMMA PassDownStep ==
  ASSUME IInv, NEW r \in Readers, stage[r] = "cache",
         PassDown(r, Passed(request[r])),
         InDevice(request[r]), request[r].len # 0,
         bad' = bad, request' = request, pages' = pages, window' = window,
         lastEnd' = lastEnd, clearing' = clearing
  PROVE  IInv'
<1>1. ReadersCoherent /\ PagesCoherent /\ WindowCoherent /\ Rest
  BY DEF IInv
<1>2. Coherent(request[r], stage[r], inner[r], got[r], answer[r])
      /\ request[r] \in Requests /\ request[r] \in Extents
  BY <1>1, ReaderFacts
<1>3. Passed(request[r]) \in Extents /\ InDevice(Passed(request[r]))
  BY <1>2, PassedWithinReach
<1>4. Coherent(request[r], "lookup", Passed(request[r]), got[r], Waiting)
  BY <1>2, <1>3 DEF Coherent, Below
<1>5. ReadersCoherent'
  <2>1. "lookup" \in Stages
    BY DEF Stages
  <2>2. got' = [got EXCEPT ![r] = got[r]] /\ request' = [request EXCEPT ![r] = request[r]]
    BY <1>1, Stays DEF PassDown
  <2> QED BY <1>1, <1>2, <1>4, <2>1, <2>2, ReaderMoves DEF PassDown
<1>6. PagesCoherent' /\ WindowCoherent' /\ Rest'
  BY <1>1, CachesStay DEF Rest
<1> QED BY <1>5, <1>6 DEF IInv

\* A cached page serves exactly the requested bytes.
LEMMA CachedPageServes ==
  ASSUME PagesCoherent, NEW q \in Extents, InDevice(q), q.len # 0, CachedPage(q)
  PROVE  Slice(pages[PageOf(q)].bytes, InPage(q), q.len) = Content(q)
<1>1. GoodPage(PageOf(q), pages[PageOf(q)])
  BY DEF PagesCoherent, CachedPage
<1>2. PageFill(q) = WholePage(PageOf(q)) /\ PageFill(q) \in Extents
      /\ PageFill(q).off + InPage(q) = q.off /\ InPage(q) \in Nat
  BY FillHoldsRequest
<1>3. pages[PageOf(q)].valid = PageFill(q).len
      /\ pages[PageOf(q)].bytes = Content(PageFill(q))
  BY <1>1, <1>2 DEF GoodPage
<1>4. InPage(q) + q.len <= PageFill(q).len
  BY <1>3 DEF CachedPage
<1> QED BY <1>2, <1>3, <1>4, SliceOfContent

LEMMA CacheLookupStep ==
  ASSUME IInv, NEW r \in Readers, CacheLookup(r)
  PROVE  IInv'
<1> DEFINE q == request[r]
<1>1. ReadersCoherent /\ PagesCoherent
  BY DEF IInv
<1>2. q \in Extents
  BY <1>1, ReaderFacts
<1>3. stage[r] = "cache" /\ bad' = bad /\ request' = request /\ pages' = pages
      /\ window' = window /\ lastEnd' = lastEnd /\ clearing' = clearing
  BY DEF CacheLookup
<1>4. CASE ~ InDevice(q) /\ Reply(r, Failed)
  BY <1>3, <1>4, ReplyStep DEF Excused
<1>5. CASE InDevice(q) /\ q.len = 0 /\ Reply(r, Read(NoData))
  <2>1. NoData = Content(q)
    BY <1>5, SMT DEF NoData, Content
  <2> QED BY <1>3, <1>5, <2>1, ReplyStep
<1>6. CASE InDevice(q) /\ q.len # 0 /\ Bypasses(q) /\ PassDown(r, q)
  <2>1. Passed(q) = q
    BY <1>6 DEF Passed
  <2> QED BY <1>3, <1>6, <2>1, PassDownStep
<1>7. CASE InDevice(q) /\ q.len # 0 /\ ~ Bypasses(q) /\ CachedPage(q)
           /\ Reply(r, Read(Slice(pages[PageOf(q)].bytes, InPage(q), q.len)))
  <2>1. Slice(pages[PageOf(q)].bytes, InPage(q), q.len) = Content(q)
    BY <1>1, <1>2, <1>7, CachedPageServes
  <2> QED BY <1>3, <1>7, <2>1, ReplyStep
<1>8. CASE InDevice(q) /\ q.len # 0 /\ ~ Bypasses(q) /\ ~ CachedPage(q)
           /\ PassDown(r, PageFill(q))
  <2>1. Passed(q) = PageFill(q)
    BY <1>8 DEF Passed
  <2> QED BY <1>3, <1>8, <2>1, PassDownStep
<1> QED BY <1>4, <1>5, <1>6, <1>7, <1>8 DEF CacheLookup

\* The read-ahead layer moves on.
LEMMA GoToStep ==
  ASSUME IInv, NEW r \in Readers, NEW s \in Below \ {"return"},
         stage[r] \in Below \ {"return"}, GoTo(r, s),
         UNCHANGED aheadVars
  PROVE  IInv'
<1>1. ReadersCoherent /\ PagesCoherent /\ WindowCoherent /\ Rest
  BY DEF IInv
<1>2. Coherent(request[r], stage[r], inner[r], got[r], answer[r])
      /\ request[r] \in Requests
  BY <1>1, ReaderFacts
<1>3. Coherent(request[r], s, inner[r], got[r], answer[r])
  BY <1>2 DEF Coherent, Below
<1>4. ReadersCoherent'
  <2>1. s \in Stages
    BY DEF Below, Stages
  <2>2. /\ inner' = [inner EXCEPT ![r] = inner[r]] /\ got' = [got EXCEPT ![r] = got[r]]
        /\ request' = [request EXCEPT ![r] = request[r]]
        /\ answer' = [answer EXCEPT ![r] = answer[r]]
    BY <1>1, Stays DEF GoTo
  <2>3. bad' = bad /\ stage' = [stage EXCEPT ![r] = s] /\ s \in Stages
    BY <2>1 DEF GoTo
  <2> QED BY <1>1, <1>2, <1>3, <2>2, <2>3, ReaderMoves
<1>5. PagesCoherent' /\ WindowCoherent' /\ Rest'
  BY <1>1, CachesStay DEF Rest, GoTo
<1> QED BY <1>4, <1>5 DEF IInv

\* The read-ahead layer answers: the content of the inner request, or a
\* failure within reach.
LEMMA HandUpStep ==
  ASSUME IInv, NEW r \in Readers, NEW a, stage[r] \in Below \ {"return"}, HandUp(r, a),
         WindowCoherent', lastEnd' \in 0 .. NoLast,
         \/ a = Failed /\ ReachOf(request[r]) \cap bad # {}
         \/ a = Read(Content(inner[r])) /\ Bytes(inner[r]) \cap bad = {}
  PROVE  IInv'
<1>1. ReadersCoherent /\ PagesCoherent /\ WindowCoherent /\ Rest
  BY DEF IInv
<1>2. Coherent(request[r], stage[r], inner[r], got[r], answer[r])
      /\ request[r] \in Requests
  BY <1>1, ReaderFacts
<1>3. Coherent(request[r], "return", inner[r], a, answer[r])
  BY <1>2 DEF Coherent, Below
<1>4. ReadersCoherent'
  <2>1. "return" \in Stages
    BY DEF Stages
  <2>2. /\ inner' = [inner EXCEPT ![r] = inner[r]]
        /\ request' = [request EXCEPT ![r] = request[r]]
        /\ answer' = [answer EXCEPT ![r] = answer[r]]
    BY <1>1, Stays DEF HandUp
  <2> QED BY <1>1, <1>2, <1>3, <2>1, <2>2, ReaderMoves DEF HandUp
<1>5. PagesCoherent' /\ Rest'
  BY <1>1, CachesStay DEF Rest, HandUp
<1> QED BY <1>4, <1>5 DEF IInv

\* What a reader below the page cache knows about its inner request.
LEMMA InnerFacts ==
  ASSUME IInv, NEW r \in Readers, stage[r] \in Below
  PROVE  /\ inner[r] \in Extents /\ InDevice(inner[r])
         /\ End(inner[r]) \in 0 .. NoLast
         /\ Bytes(inner[r]) \subseteq ReachOf(request[r])
         /\ Bytes(Grown(inner[r])) \subseteq ReachOf(request[r])
<1>1. /\ request[r] \in Extents /\ inner[r] \in Extents /\ InDevice(inner[r])
      /\ Coherent(request[r], stage[r], inner[r], got[r], answer[r])
  BY ReaderFacts DEF IInv
<1>2. InDevice(request[r]) /\ request[r].len # 0 /\ inner[r] = Passed(request[r])
  BY <1>1 DEF Coherent
<1>3. End(inner[r]) \in 0 .. NoLast
  BY <1>1, SizeType, SMT DEF End, NoLast, InDevice, Extents
<1> QED BY <1>1, <1>2, <1>3, PassedWithinReach

\* A read of the inner request itself answers as HandUpStep wants it.
LEMMA InnerRead ==
  ASSUME IInv, NEW r \in Readers, stage[r] \in Below
  PROVE  LET a == Medium(inner[r]) IN
         \/ a = Failed /\ ReachOf(request[r]) \cap bad # {}
         \/ a = Read(Content(inner[r])) /\ Bytes(inner[r]) \cap bad = {}
<1>1. Bytes(inner[r]) \subseteq ReachOf(request[r])
  BY InnerFacts
<1>2. \/ Medium(inner[r]) = Failed /\ Bytes(inner[r]) \cap bad # {}
      \/ Medium(inner[r]) = Read(Content(inner[r])) /\ Bytes(inner[r]) \cap bad = {}
  BY MediumAnswers
<1> QED BY <1>1, <1>2

LEMMA WindowLookupStep ==
  ASSUME IInv, NEW r \in Readers, WindowLookup(r)
  PROVE  IInv'
<1> DEFINE q == inner[r]
<1>1. WindowCoherent /\ Rest
  BY DEF IInv
<1>2. stage[r] = "lookup"
  BY DEF WindowLookup
<1>3. q \in Extents /\ InDevice(q) /\ End(q) \in 0 .. NoLast
  BY <1>2, InnerFacts DEF Below
<1>4. CASE InWindow(q)
  <2>1. HandUp(r, Read(WindowBytes(q))) /\ lastEnd' = End(q) /\ window' = window
    BY <1>4 DEF WindowLookup
  <2>2. /\ q.off \in Nat /\ q.len \in Nat
        /\ window.start \in Nat /\ window.size \in Nat
        /\ window.start <= q.off /\ q.off + q.len <= window.start + window.size
    BY <1>1, <1>3, <1>4 DEF Extents, WindowCoherent, InWindow, End
  <2>3. /\ Held(window) \in Extents /\ q.off - window.start \in Nat
        /\ Held(window).off + (q.off - window.start) = q.off
        /\ (q.off - window.start) + q.len <= Held(window).len
    BY <2>2, SMT DEF Held, Extents
  <2>4. WindowBytes(q) = Content(q)
    BY <1>1, <1>3, <2>3, SliceOfContent DEF WindowBytes, WindowCoherent
  <2>5. Bytes(q) \cap bad = {}
    <3>1. Bytes(q) \subseteq Bytes(Held(window))
      BY <2>2, SMT DEF Bytes, Held
    <3> QED BY <1>1, <3>1 DEF WindowCoherent
  <2>6. WindowCoherent'
    BY <1>1, <2>1 DEF WindowCoherent, HandUp
  <2> QED BY <1>2, <1>3, <2>1, <2>4, <2>5, <2>6, HandUpStep DEF Below
<1>5. CASE ~ InWindow(q)
  <2>1. GoTo(r, IF q.len < Trigger THEN "small" ELSE "large") /\ UNCHANGED aheadVars
    BY <1>5 DEF WindowLookup
  <2>2. (IF q.len < Trigger THEN "small" ELSE "large") \in Below \ {"return"}
    BY DEF Below
  <2> QED BY <1>2, <2>1, <2>2, GoToStep DEF Below
<1> QED BY <1>4, <1>5

LEMMA ReadSmallStep ==
  ASSUME IInv, NEW r \in Readers, ReadSmall(r)
  PROVE  IInv'
<1>1. stage[r] \in Below \ {"return"} /\ HandUp(r, Medium(inner[r])) /\ window' = window
  BY DEF ReadSmall, Below
<1>2. WindowCoherent'
  BY <1>1, CachesStay DEF IInv, HandUp
<1>3. lastEnd' \in 0 .. NoLast
  <2>1. lastEnd' = lastEnd \/ lastEnd' = NoLast
    BY DEF ReadSmall
  <2> QED BY <2>1, SizeType, SMT DEF IInv, Rest, NoLast
<1> QED BY <1>1, <1>2, <1>3, InnerRead, HandUpStep

LEMMA DecideStep ==
  ASSUME IInv, NEW r \in Readers, Decide(r)
  PROVE  IInv'
<1>1. stage[r] \in Below \ {"return"} /\ UNCHANGED aheadVars
      /\ GoTo(r, IF inner[r].off = lastEnd THEN "grown" ELSE "exact")
  BY DEF Decide, Below
<1>2. (IF inner[r].off = lastEnd THEN "grown" ELSE "exact") \in Below \ {"return"}
  BY DEF Below
<1> QED BY <1>1, <1>2, GoToStep

LEMMA ReadExactStep ==
  ASSUME IInv, NEW r \in Readers, ReadExact(r)
  PROVE  IInv'
<1>1. stage[r] \in Below \ {"return"} /\ HandUp(r, Medium(inner[r])) /\ window' = window
  BY DEF ReadExact, Below
<1>2. WindowCoherent'
  BY <1>1, CachesStay DEF IInv, HandUp
<1>3. lastEnd' \in 0 .. NoLast
  <2>1. lastEnd' = lastEnd \/ lastEnd' = End(inner[r])
    BY DEF ReadExact
  <2>2. End(inner[r]) \in 0 .. NoLast
    BY <1>1, InnerFacts
  <2> QED BY <2>1, <2>2 DEF IInv, Rest
<1> QED BY <1>1, <1>2, <1>3, InnerRead, HandUpStep

LEMMA ReadGrownStep ==
  ASSUME IInv, NEW r \in Readers, ReadGrown(r)
  PROVE  IInv'
<1> DEFINE q == inner[r]
<1> DEFINE a == Medium(Grown(q))
<1>1. stage[r] \in Below \ {"return"}
  BY DEF ReadGrown, Below
<1>2. q \in Extents /\ InDevice(q) /\ End(q) \in 0 .. NoLast
      /\ Bytes(Grown(q)) \subseteq ReachOf(request[r])
  BY <1>1, InnerFacts
<1>3. /\ Grown(q) \in Extents /\ InDevice(Grown(q))
      /\ Grown(q).off = q.off /\ q.len <= Grown(q).len
  BY <1>2, GrownHoldsRequest
<1>4. \/ a = Failed /\ Bytes(Grown(q)) \cap bad # {}
      \/ a = Read(Content(Grown(q))) /\ a # Failed /\ Bytes(Grown(q)) \cap bad = {}
  BY MediumAnswers
<1>5. CASE a = Failed /\ Bytes(Grown(q)) \cap bad # {}
  <2>1. HandUp(r, Failed) /\ UNCHANGED aheadVars
    BY <1>5 DEF ReadGrown
  <2>2. WindowCoherent' /\ lastEnd' \in 0 .. NoLast
    BY <2>1, CachesStay DEF IInv, HandUp, Rest
  <2>3. ReachOf(request[r]) \cap bad # {}
    BY <1>2, <1>5
  <2> QED BY <1>1, <2>1, <2>2, <2>3, HandUpStep
<1>6. CASE a = Read(Content(Grown(q))) /\ a # Failed /\ Bytes(Grown(q)) \cap bad = {}
  <2>1. InstallWindow(r, a)
    BY <1>6 DEF ReadGrown
  <2>2. a.data = Content(Grown(q))
    BY <1>6, Outcomes
  <2>3. HandUp(r, Read(Slice(a.data, 0, q.len))) /\ window' = Loaded(q, a.data)
        /\ lastEnd' = End(q)
    BY <2>1 DEF InstallWindow
  <2>4. Slice(a.data, 0, q.len) = Content(q)
    <3>1. Grown(q).off + 0 = q.off /\ 0 + q.len <= Grown(q).len
      BY <1>2, <1>3, SMT DEF Extents
    <3> QED BY <1>2, <1>3, <2>2, <3>1, SliceOfContent
  <2>5. /\ window'.start = Grown(q).off /\ window'.size = Grown(q).len
        /\ window'.data = Content(Grown(q))
    BY <1>3, <2>2, <2>3 DEF Loaded
  <2>6. WindowCoherent'
    <3>1. Grown(q).off \in Nat /\ Grown(q).len \in Nat /\ Grown(q).off + Grown(q).len <= Size
      BY <1>3, SizeType, SMT DEF Extents, InDevice
    <3>2. Held(window') = [off |-> Grown(q).off, len |-> Grown(q).len]
      BY <2>5 DEF Held
    <3>3. Content(Held(window')) = Content(Grown(q))
          /\ Bytes(Held(window')) = Bytes(Grown(q))
      BY <3>2 DEF Content, Bytes
    <3>4. bad' = bad
      BY <2>3 DEF HandUp
    <3> QED BY <1>6, <2>5, <3>1, <3>3, <3>4 DEF WindowCoherent
  <2>7. Bytes(q) \cap bad = {}
    <3>1. Bytes(q) \subseteq Bytes(Grown(q))
      BY <1>2, <1>3, SMT DEF Bytes, Extents
    <3> QED BY <1>6, <3>1
  <2>8. lastEnd' \in 0 .. NoLast
    BY <1>2, <2>3
  <2> QED BY <1>1, <2>3, <2>4, <2>6, <2>7, <2>8, HandUpStep
<1> QED BY <1>4, <1>5, <1>6

\* Storing a whole page, with whatever page made room for it, keeps the cache
\* a mirror of the medium and within its budget.
LEMMA StoredCoherent ==
  ASSUME PagesCoherent, NEW p, NEW page, GoodPage(p, page), bad' = bad,
         pages' \in Stored(p, page)
  PROVE  PagesCoherent'
<1>1. IsFiniteSet(DOMAIN pages) /\ Cardinality(DOMAIN pages) <= MaxPages
  BY DEF PagesCoherent
<1>2. MaxPages \in Nat \ {0} /\ Cardinality(DOMAIN pages) \in Nat
  BY <1>1, PageType, FS_CardinalityType
<1>3. PICK kept \in SUBSET DOMAIN pages :
        /\ pages' = With(kept, p, page)
        /\ p \notin kept => Cardinality(kept) < MaxPages
        /\ IsFiniteSet(kept) /\ Cardinality(kept) <= MaxPages
  <2>1. CASE p \notin DOMAIN pages /\ Cardinality(DOMAIN pages) >= MaxPages
    <3>1. PICK victim \in DOMAIN pages : pages' = With(DOMAIN pages \ {victim}, p, page)
      BY <2>1 DEF Stored
    <3>2. IsFiniteSet(DOMAIN pages \ {victim})
          /\ Cardinality(DOMAIN pages \ {victim}) = Cardinality(DOMAIN pages) - 1
      BY <1>1, FS_RemoveElement
    <3>3. Cardinality(DOMAIN pages \ {victim}) < MaxPages
      BY <1>1, <1>2, <3>2, SMT
    <3>4. Cardinality(DOMAIN pages \ {victim}) <= MaxPages
      BY <1>1, <1>2, <3>2, SMT
    <3> QED BY <3>1, <3>2, <3>3, <3>4
  <2>2. CASE ~ (p \notin DOMAIN pages /\ Cardinality(DOMAIN pages) >= MaxPages)
    <3>1. pages' = With(DOMAIN pages, p, page)
      BY <2>2 DEF Stored
    <3>2. p \notin DOMAIN pages => Cardinality(DOMAIN pages) < MaxPages
      BY <1>2, <2>2, SMT
    <3> QED BY <1>1, <3>1, <3>2
  <2> QED BY <2>1, <2>2
<1>4. DOMAIN pages' = kept \cup {p}
  BY <1>3 DEF With
<1>5. IsFiniteSet(kept \cup {p}) /\ Cardinality(kept \cup {p}) <= MaxPages
  <2>1. CASE p \in kept
    <3>1. kept \cup {p} = kept
      BY <2>1
    <3> QED BY <1>3, <3>1
  <2>2. CASE p \notin kept
    <3>1. IsFiniteSet(kept \cup {p}) /\ Cardinality(kept \cup {p}) = Cardinality(kept) + 1
      BY <1>3, <2>2, FS_AddElement
    <3>2. Cardinality(kept) \in Nat /\ Cardinality(kept) < MaxPages
      BY <1>3, <2>2, FS_CardinalityType
    <3> QED BY <1>2, <3>1, <3>2, SMT
  <2> QED BY <2>1, <2>2
<1>6. ASSUME NEW k \in DOMAIN pages' PROVE GoodPage(k, pages[k])'
  <2>1. pages'[k] = IF k = p THEN page ELSE pages[k]
    BY <1>3, <1>4 DEF With
  <2>2. GoodPage(k, pages'[k])
    BY <1>3, <1>4, <2>1 DEF PagesCoherent
  <2> QED BY <2>2 DEF GoodPage
<1> QED BY <1>4, <1>5, <1>6 DEF PagesCoherent

\* What Return tells the caller.
LEMMA ReturnAnswers ==
  ASSUME IInv, NEW r \in Readers, Return(r)
  PROVE  LET q == request[r] IN
         \/ /\ answer' = [answer EXCEPT ![r] = Failed] /\ Excused(q)
            /\ pages' = pages
         \/ /\ answer' = [answer EXCEPT ![r] = Read(Content(q))] /\ InDevice(q)
            /\ pages' = pages \/ \E page : /\ GoodPage(PageOf(q), page)
                                           /\ pages' \in Stored(PageOf(q), page)
<1> DEFINE q == request[r]
<1> DEFINE i == inner[r]
<1>1. /\ q \in Extents /\ i \in Extents
      /\ Coherent(q, stage[r], i, got[r], answer[r])
  BY ReaderFacts DEF IInv
<1>2. stage[r] = "return"
  BY DEF Return
<1>3. InDevice(q) /\ q.len # 0 /\ i = Passed(q)
  BY <1>1, <1>2 DEF Coherent, Below
<1>4. CASE got[r] = Failed /\ ReachOf(q) \cap bad # {}
  BY <1>4 DEF Return, Excused
<1>5. CASE got[r] = Read(Content(i)) /\ Bytes(i) \cap bad = {}
  <2>1. got[r] # Failed /\ got[r].data = Content(i)
    BY <1>5, Outcomes
  <2>2. CASE Bypasses(q)
    <3>1. i = q
      BY <1>3, <2>2 DEF Passed
    <3>2. answer' = [answer EXCEPT ![r] = got[r]] /\ pages' = pages
      BY <2>2 DEF Return
    <3> QED BY <1>3, <1>5, <3>1, <3>2
  <2>3. CASE ~ Bypasses(q)
    <3>1. i = PageFill(q)
      BY <1>3, <2>3 DEF Passed
    <3>2. /\ PageFill(q) = WholePage(PageOf(q)) /\ PageFill(q) \in Extents
          /\ PageFill(q).off + InPage(q) = q.off
          /\ InPage(q) \in Nat /\ PageOf(q) \in Nat /\ PageOf(q) * PageSize <= Size
          /\ InPage(q) + q.len <= PageFill(q).len
      BY <1>1, <1>3, <2>3, FillHoldsRequest
    <3>3. ~ (InPage(q) + q.len > i.len)
      BY <1>1, <3>1, <3>2, SMT DEF Extents
    <3> DEFINE page == [valid |-> i.len, bytes |-> got[r].data]
    <3>4. /\ answer' = [answer EXCEPT ![r] = Read(Slice(got[r].data, InPage(q), q.len))]
          /\ pages' \in Stored(PageOf(q), page)
      BY <2>1, <2>3, <3>3 DEF Return
    <3>5. Slice(got[r].data, InPage(q), q.len) = Content(q)
      BY <1>1, <2>1, <3>1, <3>2, SliceOfContent
    <3>6. GoodPage(PageOf(q), page)
      BY <1>5, <2>1, <3>1, <3>2 DEF GoodPage
    <3> QED BY <1>3, <3>4, <3>5, <3>6
  <2> QED BY <2>2, <2>3
<1> QED BY <1>1, <1>2, <1>4, <1>5 DEF Coherent

LEMMA ReturnStep ==
  ASSUME IInv, NEW r \in Readers, Return(r)
  PROVE  IInv'
<1>1. ReadersCoherent /\ PagesCoherent /\ WindowCoherent /\ Rest
  BY DEF IInv
<1>2. request[r] \in Requests
  BY <1>1, ReaderFacts
<1>3. /\ stage' = [stage EXCEPT ![r] = "done"] /\ got' = [got EXCEPT ![r] = Idle]
      /\ inner' = [inner EXCEPT ![r] = Nothing] /\ bad' = bad
      /\ request' = request /\ window' = window /\ lastEnd' = lastEnd
      /\ clearing' = clearing
  BY DEF Return
<1>4. PICK a : /\ answer' = [answer EXCEPT ![r] = a]
               /\ \/ a = Failed /\ Excused(request[r])
                  \/ a = Read(Content(request[r])) /\ InDevice(request[r])
  BY ReturnAnswers
<1>5. ReadersCoherent'
  <2>1. Nothing \in Extents /\ InDevice(Nothing)
    BY SizeType, SMT DEF Nothing, Extents, InDevice
  <2>2. Coherent(request[r], "done", Nothing, Idle, a)
    BY <1>4, <2>1 DEF Coherent, Below
  <2>3. request' = [request EXCEPT ![r] = request[r]] /\ "done" \in Stages
    BY <1>1, <1>3, Stays DEF Stages
  <2> QED BY <1>1, <1>2, <1>3, <1>4, <2>2, <2>3, ReaderMoves
<1>6. PagesCoherent'
  <2>1. CASE pages' = pages
    BY <1>1, <1>3, <2>1, CachesStay
  <2>2. CASE \E page : /\ GoodPage(PageOf(request[r]), page)
                       /\ pages' \in Stored(PageOf(request[r]), page)
    BY <1>1, <1>3, <2>2, StoredCoherent
  <2> QED BY <2>1, <2>2, ReturnAnswers
<1>7. WindowCoherent' /\ Rest'
  BY <1>1, <1>3, CachesStay DEF Rest
<1> QED BY <1>5, <1>6, <1>7 DEF IInv

LEMMA TakeStep ==
  ASSUME IInv, NEW r \in Readers, Take(r)
  PROVE  IInv'
<1>1. ReadersCoherent /\ PagesCoherent /\ WindowCoherent /\ Rest
  BY DEF IInv
<1>2. Coherent(request[r], stage[r], inner[r], got[r], answer[r])
      /\ request[r] \in Requests
  BY <1>1, ReaderFacts
<1>3. /\ stage[r] = "done" /\ stage' = [stage EXCEPT ![r] = "idle"]
      /\ answer' = [answer EXCEPT ![r] = Idle] /\ bad' = bad
      /\ request' = request /\ inner' = inner /\ got' = got
      /\ pages' = pages /\ window' = window /\ lastEnd' = lastEnd
      /\ clearing' = clearing
  BY DEF Take
<1>4. Coherent(request[r], "idle", inner[r], got[r], Idle)
  BY <1>2, <1>3 DEF Coherent, Below
<1>5. ReadersCoherent'
  <2>1. /\ request' = [request EXCEPT ![r] = request[r]]
        /\ inner' = [inner EXCEPT ![r] = inner[r]]
        /\ got' = [got EXCEPT ![r] = got[r]] /\ "idle" \in Stages
    BY <1>1, <1>3, Stays DEF Stages
  <2> QED BY <1>1, <1>2, <1>3, <1>4, <2>1, ReaderMoves
<1>6. PagesCoherent' /\ WindowCoherent' /\ Rest'
  BY <1>1, <1>3, CachesStay DEF Rest
<1> QED BY <1>5, <1>6 DEF IInv

\* Steps that leave every reader alone.
LEMMA ReadersStay ==
  ASSUME ReadersCoherent, UNCHANGED readerVars, bad' = bad
  PROVE  ReadersCoherent'
<1>1. request' = request /\ stage' = stage /\ inner' = inner /\ got' = got
      /\ answer' = answer
  OBVIOUS
<1> QED BY <1>1 DEF ReadersCoherent, Coherent, Excused

LEMMA ClearPagesStep ==
  ASSUME IInv, ClearPages
  PROVE  IInv'
<1>1. ReadersCoherent'
  BY ReadersStay DEF IInv, ClearPages
<1>2. PagesCoherent'
  <2>1. DOMAIN pages' = {}
    BY DEF ClearPages, NoPages
  <2> QED BY <2>1, PageType, FS_EmptySet, SMT DEF PagesCoherent
<1>3. WindowCoherent' /\ Rest'
  BY CachesStay DEF IInv, ClearPages, Rest
<1> QED BY <1>1, <1>2, <1>3 DEF IInv

LEMMA ClearWindowStep ==
  ASSUME IInv, ClearWindow
  PROVE  IInv'
<1>1. ReadersCoherent' /\ PagesCoherent'
  BY ReadersStay, CachesStay DEF IInv, ClearWindow
<1>2. WindowCoherent'
  <2>1. window'.start = 0 /\ window'.size = 0 /\ window'.data = <<>>
    BY DEF ClearWindow, NoWindow, NoData
  <2>2. Content(Held(window')) = <<>>
    BY <2>1, SMT DEF Content, Held
  <2>3. Bytes(Held(window')) = {}
    BY <2>1, SMT DEF Bytes, Held
  <2> QED BY <2>1, <2>2, <2>3, SizeType, SMT DEF WindowCoherent
<1>3. Rest'
  <2>1. lastEnd' \in 0 .. NoLast
    BY SizeType, SMT DEF ClearWindow, NoLast
  <2> QED BY <2>1 DEF IInv, Rest, ClearWindow
<1> QED BY <1>1, <1>2, <1>3 DEF IInv

LEMMA StepIInv == IInv /\ [Next]_vars => IInv'
<1> SUFFICES ASSUME IInv, [Next]_vars PROVE IInv'
  OBVIOUS
<1>1. ASSUME NEW r \in Readers, NEW q \in Requests, Ask(r, q) PROVE IInv'
  BY <1>1, AskStep
<1>2. ASSUME NEW r \in Readers, Serve(r) PROVE IInv'
  BY <1>2, CacheLookupStep, WindowLookupStep, ReadSmallStep, DecideStep, ReadExactStep,
     ReadGrownStep, ReturnStep DEF Serve
<1>3. ASSUME NEW r \in Readers, Take(r) PROVE IInv'
  BY <1>3, TakeStep
<1>4. CASE ClearPages
  BY <1>4, ClearPagesStep
<1>5. CASE ClearWindow
  BY <1>5, ClearWindowStep
<1>6. CASE UNCHANGED vars
  <2>1. UNCHANGED readerVars /\ bad' = bad /\ pages' = pages /\ window' = window
        /\ lastEnd' = lastEnd /\ clearing' = clearing
    BY <1>6 DEF vars
  <2> QED BY <2>1, ReadersStay, CachesStay DEF IInv, Rest
<1> QED BY <1>1, <1>2, <1>3, <1>4, <1>5, <1>6 DEF Next

\* The inductive invariant: every reader's request, stage and answer fit
\* together, and both caches mirror the medium.
THEOREM Invariance == Spec => []IInv
  BY InitIInv, StepIInv, PTL DEF Spec
-----------------------------------------------------------------------------
(* What the invariant gives.                                               *)

LEMMA TypeOfIInv == IInv => TypeOK
<1> SUFFICES ASSUME IInv PROVE TypeOK
  OBVIOUS
<1>1. bad \subseteq 0 .. (Size - 1) /\ lastEnd \in 0 .. NoLast /\ clearing \in BOOLEAN
  BY DEF IInv, Rest
<1>2. request \in [Readers -> Requests] /\ stage \in [Readers -> Stages]
  BY DEF IInv, ReadersCoherent
<1>3. ASSUME NEW r \in Readers
      PROVE  /\ inner[r].off \in Nat /\ inner[r].len \in Nat /\ InDevice(inner[r])
             /\ Shown(got[r], inner[r].len) /\ Shown(answer[r], request[r].len)
  <2>1. /\ Coherent(request[r], stage[r], inner[r], got[r], answer[r])
        /\ inner[r] \in Extents /\ InDevice(inner[r]) /\ stage[r] \in Stages
    BY ReaderFacts DEF IInv
  <2>2. ASSUME NEW q PROVE Shown(Read(Content(q)), q.len)
    BY Outcomes DEF Shown, Content
  <2>3. Shown(Failed, inner[r].len) /\ Shown(Idle, inner[r].len)
        /\ \A n : Shown(Idle, n) /\ Shown(Waiting, n) /\ Shown(Failed, n)
    BY DEF Shown
  <2>4. Shown(got[r], inner[r].len)
    BY <2>1, <2>2, <2>3 DEF Coherent
  <2>5. Shown(answer[r], request[r].len)
    <3>1. \/ answer[r] \in {Idle, Waiting, Failed}
          \/ answer[r] = Read(Content(request[r]))
      BY <2>1 DEF Coherent, Stages, Below
    <3> QED BY <2>2, <2>3, <3>1
  <2>6. inner[r].off \in Nat /\ inner[r].len \in Nat
    BY <2>1 DEF Extents
  <2> QED BY <2>1, <2>4, <2>5, <2>6
<1>4. ASSUME NEW p \in DOMAIN pages PROVE p * PageSize + pages[p].valid <= Size
  <2>1. GoodPage(p, pages[p])
    BY DEF IInv, PagesCoherent
  <2>2. p * PageSize \in Nat /\ WholePage(p).off = p * PageSize
    BY <2>1, PageStart DEF GoodPage
  <2>3. pages[p].valid = WholePage(p).len
    BY <2>1 DEF GoodPage
  <2> DEFINE at == p * PageSize
  <2>4. WholePage(p).len = IF PageSize <= Size - at THEN PageSize ELSE Size - at
    <3>1. PageOf([off |-> p * PageSize, len |-> 0]) = p
      BY <2>1, PageStart DEF PageOf, GoodPage
    <3> QED BY <3>1 DEF WholePage, PageFill
  <2>5. at \in Nat /\ at <= Size
    BY <2>1, <2>2 DEF GoodPage
  <2> HIDE DEF at
  <2>6. at + pages[p].valid <= Size
    BY <2>3, <2>4, <2>5, SizeType, PageType, SMT
  <2> QED BY <2>6 DEF at
<1>5. window.start + window.size <= Size
  BY DEF IInv, WindowCoherent
<1> QED BY <1>1, <1>2, <1>3, <1>4, <1>5 DEF TypeOK

\* Type correctness: in particular no window, page or inner request of either
\* layer's read() reaches past the end of the device.
THEOREM TypeCorrect == Spec => []TypeOK
  BY Invariance, TypeOfIInv, PTL

LEMMA MirrorOfIInv == IInv => CachesMirrorMedium
<1> SUFFICES ASSUME IInv PROVE CachesMirrorMedium
  OBVIOUS
<1>1. ASSUME NEW p \in DOMAIN pages PROVE GoodPage(p, pages[p])
  BY DEF IInv, PagesCoherent
<1>2. WindowCoherent
  BY DEF IInv
<1> QED BY <1>1, <1>2 DEF CachesMirrorMedium, GoodPage, WholePage, WindowCoherent, Held

\* Both caches mirror the medium, however reads and clear_caches() interleave.
THEOREM MirrorCorrect == Spec => []CachesMirrorMedium
  BY Invariance, MirrorOfIInv, PTL

\* kMaxPages bounds the page cache although fills run outside its mutex.
THEOREM WithinBudget == Spec => []PagesWithinBudget
<1>1. IInv => PagesWithinBudget
  BY DEF IInv, PagesCoherent, PagesWithinBudget
<1> QED BY <1>1, Invariance, PTL
-----------------------------------------------------------------------------
(* The two layers implement an exact block device.                         *)

LEMMA SameAnswers ==
  /\ Device!Idle = Idle /\ Device!Waiting = Waiting /\ Device!Failed = Failed
  /\ \A d : Device!Read(d) = Read(d)
  /\ \A q : Device!Content(q) = Content(q) /\ (Device!InDevice(q) <=> InDevice(q))
  BY DEF Device!Idle, Device!Waiting, Device!Failed, Device!Read, Device!Content,
         Device!InDevice, Idle, Waiting, Failed, Read, Content, InDevice

LEMMA InitRefines == Init => Device!DeviceInit
<1> SUFFICES ASSUME Init PROVE Device!DeviceInit
  OBVIOUS
<1>1. bad \subseteq 0 .. (Size - 1)
  BY BadType DEF Init
<1>2. request \in [Readers -> Requests]
  BY RequestType DEF Init
<1>3. answer = [r \in Readers |-> Device!Idle]
  BY SameAnswers DEF Init
<1> QED BY <1>1, <1>2, <1>3 DEF Device!DeviceInit

\* An answer put in place of Waiting is a Succeed or a Fail of the device.
LEMMA AnswerRefines ==
  ASSUME NEW r \in Readers, NEW a, answer[r] = Waiting,
         answer' = [answer EXCEPT ![r] = a], bad' = bad, request' = request,
         \/ a = Failed /\ Excused(request[r])
         \/ a = Read(Content(request[r])) /\ InDevice(request[r])
  PROVE  Device!DeviceNext
<1>1. CASE a = Failed /\ Excused(request[r])
  <2>1. Device!Fail(r)
    BY <1>1, SameAnswers DEF Device!Fail, Excused
  <2> QED BY <2>1 DEF Device!DeviceNext
<1>2. CASE a = Read(Content(request[r])) /\ InDevice(request[r])
  <2>1. Device!Succeed(r)
    BY <1>2, SameAnswers DEF Device!Succeed
  <2> QED BY <2>1 DEF Device!DeviceNext
<1> QED BY <1>1, <1>2

LEMMA StepRefines == IInv /\ [Next]_vars => [Device!DeviceNext]_Device!deviceVars
<1> SUFFICES ASSUME IInv, [Next]_vars PROVE [Device!DeviceNext]_Device!deviceVars
  OBVIOUS
<1> DEFINE Same == bad' = bad /\ request' = request /\ answer' = answer
<1> USE DEF Device!deviceVars
<1>1. ASSUME NEW r \in Readers, NEW q \in Requests, Ask(r, q)
      PROVE  [Device!DeviceNext]_Device!deviceVars
  <2>1. answer[r] = Device!Idle
    BY <1>1, ReaderFacts, SameAnswers DEF IInv, Ask, Coherent
  <2>2. Device!Ask(r, q)
    BY <1>1, <2>1, SameAnswers DEF Ask, Device!Ask
  <2> QED BY <2>2 DEF Device!DeviceNext
<1>2. ASSUME NEW r \in Readers, Take(r)
      PROVE  [Device!DeviceNext]_Device!deviceVars
  <2>1. answer[r] \notin {Idle, Waiting}
    <3>1. stage[r] = "done"
      BY <1>2 DEF Take
    <3>2. answer[r] = Failed \/ answer[r] = Read(Content(request[r]))
      BY <3>1, ReaderFacts DEF IInv, Coherent
    <3> QED BY <3>2, Outcomes
  <2>2. Device!Take(r)
    BY <1>2, <2>1, SameAnswers DEF Take, Device!Take
  <2> QED BY <2>2 DEF Device!DeviceNext
<1>3. ASSUME NEW r \in Readers, CacheLookup(r)
      PROVE  [Device!DeviceNext]_Device!deviceVars
  <2> DEFINE q == request[r]
  <2>1. stage[r] = "cache" /\ bad' = bad /\ request' = request
    BY <1>3 DEF CacheLookup
  <2>2. answer[r] = Waiting /\ q \in Extents
    BY <2>1, ReaderFacts DEF IInv, Coherent
  <2>3. ASSUME NEW i, PassDown(r, i) PROVE Same
    <3>1. answer = [answer EXCEPT ![r] = answer[r]]
      BY Stays DEF IInv
    <3> QED BY <2>1, <2>2, <2>3, <3>1 DEF PassDown
  <2>4. CASE ~ InDevice(q) /\ Reply(r, Failed)
    BY <2>1, <2>2, <2>4, AnswerRefines DEF Reply, Excused
  <2>5. CASE InDevice(q) /\ q.len = 0 /\ Reply(r, Read(NoData))
    <3>1. NoData = Content(q)
      BY <2>5, SMT DEF NoData, Content
    <3> QED BY <2>1, <2>2, <2>5, <3>1, AnswerRefines DEF Reply
  <2>6. CASE InDevice(q) /\ q.len # 0 /\ CachedPage(q)
             /\ Reply(r, Read(Slice(pages[PageOf(q)].bytes, InPage(q), q.len)))
    <3>1. Slice(pages[PageOf(q)].bytes, InPage(q), q.len) = Content(q)
      BY <2>2, <2>6, CachedPageServes DEF IInv
    <3> QED BY <2>1, <2>2, <2>6, <3>1, AnswerRefines DEF Reply
  <2> QED BY <1>3, <2>3, <2>4, <2>5, <2>6 DEF CacheLookup
<1>4. ASSUME NEW r \in Readers, Return(r)
      PROVE  [Device!DeviceNext]_Device!deviceVars
  <2>1. stage[r] = "return" /\ bad' = bad /\ request' = request
    BY <1>4 DEF Return
  <2>2. answer[r] = Waiting
    BY <2>1, ReaderFacts DEF IInv, Coherent, Below
  <2>3. PICK a : /\ answer' = [answer EXCEPT ![r] = a]
                 /\ \/ a = Failed /\ Excused(request[r])
                    \/ a = Read(Content(request[r])) /\ InDevice(request[r])
    BY <1>4, ReturnAnswers
  <2> QED BY <2>1, <2>2, <2>3, AnswerRefines
<1>5. ASSUME NEW r \in Readers,
             \/ WindowLookup(r) \/ ReadSmall(r) \/ Decide(r) \/ ReadExact(r) \/ ReadGrown(r)
      PROVE  Same
  BY <1>5 DEF WindowLookup, ReadSmall, Decide, ReadExact, ReadGrown, InstallWindow, GoTo, HandUp
<1>6. CASE ClearPages \/ ClearWindow
  BY <1>6 DEF ClearPages, ClearWindow
<1>7. CASE UNCHANGED vars
  BY <1>7 DEF vars
<1> QED BY <1>1, <1>2, <1>3, <1>4, <1>5, <1>6, <1>7 DEF Next, Serve

\* Refinement: whatever the caches do, a reader sees an exact block device
\* whose failures lie within reach of the request.
THEOREM Refinement == Spec => ImplementsBlockDevice
<1>1. Spec => []IInv
  BY Invariance
<1> QED BY <1>1, InitRefines, StepRefines, PTL DEF Spec, ImplementsBlockDevice, Device!DeviceSpec
=============================================================================
