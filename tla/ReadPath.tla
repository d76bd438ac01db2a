------------------------------ MODULE ReadPath ------------------------------
(***************************************************************************)
(* The read path of one DriveSession: the 4 KiB metadata page cache        *)
(* (ReadCacheBlockDevice) on top of the adaptive sequential read-ahead     *)
(* (ReadAheadBlockDevice) on top of the medium.  Any number of threads     *)
(* read through it at once: Dokany callbacks, the browser, the enrichment  *)
(* workers, an export.                                                     *)
(*                                                                         *)
(* Each section the code runs under a layer's mutex is one action; the     *)
(* medium is read outside the mutexes.  A byte's value is its address, so  *)
(* a stale page, a misplaced window or a wrong slice shows in the answer.  *)
(* The telemetry counters are left out: nothing reads them back.           *)
(***************************************************************************)
EXTENDS Naturals, FiniteSets, Sequences

CONSTANTS
  Readers,
  Size,             \* bytes of the device
  PageSize,         \* kPageSize, 4096 in the code
  DirectThreshold,  \* kDirectReadThreshold, 1024
  MaxPages,         \* kMaxPages, 4096
  Trigger,          \* kTriggerBytes, 32 KiB
  LookAhead,        \* kLookAheadBytes, 256 KiB
  Requests,         \* the requests made: records [off, len]
  BadSets           \* the sets of unreadable bytes to start from

ASSUME SizeType  == Size \in Nat
ASSUME PageType  == PageSize \in Nat \ {0} /\ MaxPages \in Nat \ {0}
ASSUME LimitType == DirectThreshold \in Nat /\ Trigger \in Nat /\ LookAhead \in Nat
ASSUME RequestType == Requests \subseteq [off : Nat, len : Nat] /\ Requests # {}
ASSUME BadType == BadSets \subseteq SUBSET (0 .. (Size - 1))

VARIABLES
  bad,       \* unreadable bytes of the medium
  request,   \* per reader: the request being served
  stage,     \* per reader: where its read() is
  inner,     \* per reader: the request the page cache passes down
  got,       \* per reader: what the read-ahead layer hands up
  answer,    \* per reader: what read() returns
  pages,     \* ReadCacheBlockDevice::pages_
  window,    \* ReadAheadBlockDevice::window_start_ and window_
  lastEnd,   \* last_request_end_, or NoLast when has_last_request_ is false
  clearing   \* DriveSession::clear_caches() is between its two layers

readerVars == <<request, stage, inner, got, answer>>
aheadVars  == <<window, lastEnd>>
vars       == <<bad, readerVars, pages, aheadVars, clearing>>

Idle       == [state |-> "idle"]
Waiting    == [state |-> "waiting"]
Failed     == [state |-> "failed"]
Read(data) == [state |-> "read", data |-> data]

NoData   == <<>>
NoPages  == [p \in {} |-> NoData]
NoLast   == Size + 1
NoWindow == [start |-> 0, size |-> 0, data |-> NoData]
Nothing  == [off |-> 0, len |-> 0]

Bytes(q)        == q.off .. (q.off + q.len - 1)
Content(q)      == [i \in 1 .. q.len |-> q.off + i - 1]
InDevice(q)     == q.off <= Size /\ q.len <= Size - q.off
Slice(d, at, n) == [i \in 1 .. n |-> d[at + i]]

\* A read of the medium succeeds when every byte of the range can be read.
Medium(q) == IF Bytes(q) \cap bad = {} THEN Read(Content(q)) ELSE Failed

Init ==
  /\ bad \in BadSets
  /\ request \in [Readers -> {CHOOSE q \in Requests : TRUE}]
  /\ stage = [r \in Readers |-> "idle"]
  /\ inner = [r \in Readers |-> Nothing]
  /\ got = [r \in Readers |-> Idle]
  /\ answer = [r \in Readers |-> Idle]
  /\ pages = NoPages
  /\ window = NoWindow
  /\ lastEnd = NoLast
  /\ clearing = FALSE
-----------------------------------------------------------------------------
(* The page cache, on the way down.                                        *)

PageOf(q)  == q.off \div PageSize
InPage(q)  == q.off % PageSize
\* The page of the request, cut at the end of the device.
PageFill(q) ==
  LET start == PageOf(q) * PageSize
  IN  [off |-> start, len |-> IF PageSize <= Size - start THEN PageSize ELSE Size - start]

Bypasses(q) ==
  \/ q.len >= DirectThreshold
  \/ (q.off + q.len - 1) \div PageSize # PageOf(q)

Reply(r, a) ==
  /\ answer' = [answer EXCEPT ![r] = a]
  /\ stage' = [stage EXCEPT ![r] = "done"]
  /\ UNCHANGED <<inner, got>>

PassDown(r, q) ==
  /\ inner' = [inner EXCEPT ![r] = q]
  /\ stage' = [stage EXCEPT ![r] = "lookup"]
  /\ answer' = [answer EXCEPT ![r] = Waiting]
  /\ UNCHANGED got

CachedPage(q) ==
  PageOf(q) \in DOMAIN pages /\ InPage(q) + q.len <= pages[PageOf(q)].valid

\* read(), down to the page lookup under the shared lock.
Ask(r, q) ==
  /\ stage[r] = "idle"
  /\ request' = [request EXCEPT ![r] = q]
  /\ stage' = [stage EXCEPT ![r] = "cache"]
  /\ answer' = [answer EXCEPT ![r] = Waiting]
  /\ UNCHANGED <<bad, inner, got, pages, aheadVars, clearing>>

CacheLookup(r) ==
  LET q == request[r] IN
  /\ stage[r] = "cache"
  /\ \/ ~ InDevice(q) /\ Reply(r, Failed)
     \/ InDevice(q) /\ q.len = 0 /\ Reply(r, Read(NoData))
     \/ /\ InDevice(q) /\ q.len # 0
        /\ \/ Bypasses(q) /\ PassDown(r, q)
           \/ /\ ~ Bypasses(q) /\ CachedPage(q)
              /\ Reply(r, Read(Slice(pages[PageOf(q)].bytes, InPage(q), q.len)))
           \/ ~ Bypasses(q) /\ ~ CachedPage(q) /\ PassDown(r, PageFill(q))
  /\ UNCHANGED <<bad, request, pages, aheadVars, clearing>>
-----------------------------------------------------------------------------
(* The read-ahead layer.                                                   *)

HandUp(r, a) ==
  /\ got' = [got EXCEPT ![r] = a]
  /\ stage' = [stage EXCEPT ![r] = "return"]
  /\ UNCHANGED <<bad, request, inner, answer, pages, clearing>>

GoTo(r, s) ==
  /\ stage' = [stage EXCEPT ![r] = s]
  /\ UNCHANGED <<bad, request, inner, got, answer, pages, clearing>>

End(q) == q.off + q.len

InWindow(q) ==
  /\ window.size # 0
  /\ q.off >= window.start
  /\ End(q) <= window.start + window.size

\* Bug variant: the copy starts at the front of the window.
WindowFront(q) == Slice(window.data, 0, q.len)

WindowBytes(q) == Slice(window.data, q.off - window.start, q.len)

\* First locked section: a request inside the window is served from it, of
\* whatever size, and counts as the latest request of the sequence.
WindowLookup(r) ==
  LET q == inner[r] IN
  /\ stage[r] = "lookup"
  /\ IF InWindow(q)
       THEN /\ HandUp(r, Read(WindowBytes(q)))
            /\ lastEnd' = End(q)
            /\ UNCHANGED window
       ELSE /\ GoTo(r, IF q.len < Trigger THEN "small" ELSE "large")
            /\ UNCHANGED aheadVars

\* A small miss goes straight to the medium and, when it succeeds, ends the
\* sequence.
ReadSmall(r) ==
  LET a == Medium(inner[r]) IN
  /\ stage[r] = "small"
  /\ HandUp(r, a)
  /\ lastEnd' = IF a = Failed THEN lastEnd ELSE NoLast
  /\ UNCHANGED window

\* Second locked section: should_prefetch.
Decide(r) ==
  /\ stage[r] = "large"
  /\ GoTo(r, IF inner[r].off = lastEnd THEN "grown" ELSE "exact")
  /\ UNCHANGED aheadVars

ReadExact(r) ==
  LET a == Medium(inner[r]) IN
  /\ stage[r] = "exact"
  /\ HandUp(r, a)
  /\ lastEnd' = IF a = Failed THEN lastEnd ELSE End(inner[r])
  /\ UNCHANGED window

\* Bug variant: the look-ahead runs past the end of the device.
UncutGrown(q) == [off |-> q.off, len |-> q.len + LookAhead]

\* The request grown by the look-ahead, cut at the end of the device.
Grown(q) ==
  [off |-> q.off,
   len |-> IF q.len + LookAhead <= Size - q.off THEN q.len + LookAhead ELSE Size - q.off]

\* Bug variant: the window is taken to start behind the request it served.
ShiftedWindow(q, data) == [start |-> End(q), size |-> Grown(q).len, data |-> data]

Loaded(q, data) == [start |-> q.off, size |-> Grown(q).len, data |-> data]

InstallWindow(r, a) ==
  LET q == inner[r] IN
  /\ HandUp(r, Read(Slice(a.data, 0, q.len)))
  /\ window' = Loaded(q, a.data)
  /\ lastEnd' = End(q)

\* When the grown read fails, the request fails: there is no exact retry.
ReadGrown(r) ==
  LET a == Medium(Grown(inner[r])) IN
  /\ stage[r] = "grown"
  /\ \/ a = Failed /\ HandUp(r, Failed) /\ UNCHANGED aheadVars
     \/ a # Failed /\ InstallWindow(r, a)
-----------------------------------------------------------------------------
(* The page cache, on the way up.                                          *)

With(kept, p, page) == [k \in kept \cup {p} |-> IF k = p THEN page ELSE pages[k]]

\* insert_or_assign after making room: begin() of an unordered_map is any page.
Stored(p, page) ==
  IF p \notin DOMAIN pages /\ Cardinality(DOMAIN pages) >= MaxPages
    THEN { With(DOMAIN pages \ {victim}, p, page) : victim \in DOMAIN pages }
    ELSE { With(DOMAIN pages, p, page) }

Return(r) ==
  LET q == request[r] IN
  /\ stage[r] = "return"
  /\ stage' = [stage EXCEPT ![r] = "done"]
  /\ got' = [got EXCEPT ![r] = Idle]
  /\ inner' = [inner EXCEPT ![r] = Nothing]
  /\ IF Bypasses(q) \/ got[r] = Failed
       THEN answer' = [answer EXCEPT ![r] = got[r]] /\ UNCHANGED pages
       ELSE IF InPage(q) + q.len > inner[r].len
       THEN answer' = [answer EXCEPT ![r] = Failed] /\ UNCHANGED pages
       ELSE /\ answer' = [answer EXCEPT ![r] = Read(Slice(got[r].data, InPage(q), q.len))]
            /\ pages' \in Stored(PageOf(q), [valid |-> inner[r].len, bytes |-> got[r].data])
  /\ UNCHANGED <<bad, request, aheadVars, clearing>>

\* The caller takes the answer and may read again.
Take(r) ==
  /\ stage[r] = "done"
  /\ stage' = [stage EXCEPT ![r] = "idle"]
  /\ answer' = [answer EXCEPT ![r] = Idle]
  /\ UNCHANGED <<bad, request, inner, got, pages, aheadVars, clearing>>
-----------------------------------------------------------------------------
(* DriveSession::clear_caches(), from any thread: first one layer, then    *)
(* the other, each under its own mutex.                                    *)

ClearPages ==
  /\ ~ clearing
  /\ clearing' = TRUE
  /\ pages' = NoPages
  /\ UNCHANGED <<bad, readerVars, aheadVars>>

ClearWindow ==
  /\ clearing
  /\ clearing' = FALSE
  /\ window' = NoWindow
  /\ lastEnd' = NoLast
  /\ UNCHANGED <<bad, readerVars, pages>>

Serve(r) ==
  \/ CacheLookup(r)
  \/ WindowLookup(r)
  \/ ReadSmall(r)
  \/ Decide(r)
  \/ ReadExact(r)
  \/ ReadGrown(r)
  \/ Return(r)

Next ==
  \/ \E r \in Readers : \/ \E q \in Requests : Ask(r, q)
                        \/ Serve(r)
                        \/ Take(r)
  \/ ClearPages
  \/ ClearWindow

Spec == Init /\ [][Next]_vars
-----------------------------------------------------------------------------
Stages == {"idle", "cache", "lookup", "small", "large", "exact", "grown", "return", "done"}
Shown(a, n) == a \in {Idle, Waiting, Failed} \/ a = Read([i \in 1 .. n |-> a.data[i]])

\* Shapes of the state: no window, page or inner request reaches past the end
\* of the device (the cuts in read() of both layers).
TypeOK ==
  /\ bad \subseteq 0 .. (Size - 1)
  /\ request \in [Readers -> Requests]
  /\ stage \in [Readers -> Stages]
  /\ \A r \in Readers : inner[r].off \in Nat /\ inner[r].len \in Nat /\ InDevice(inner[r])
  /\ \A r \in Readers : Shown(got[r], inner[r].len) /\ Shown(answer[r], request[r].len)
  /\ \A p \in DOMAIN pages : p * PageSize + pages[p].valid <= Size
  /\ window.start + window.size <= Size
  /\ lastEnd \in 0 .. NoLast
  /\ clearing \in BOOLEAN

\* Whatever the threads interleave and whenever the caches are cleared, a
\* cached page holds its whole page of the medium and the window holds the
\* bytes from its start, all of them bytes that can be read.
CachesMirrorMedium ==
  /\ \A p \in DOMAIN pages :
       LET page == PageFill([off |-> p * PageSize, len |-> 0])
       IN  pages[p] = [valid |-> page.len, bytes |-> Content(page)] /\ Bytes(page) \cap bad = {}
  /\ LET held == [off |-> window.start, len |-> window.size]
     IN  window.data = Content(held) /\ Bytes(held) \cap bad = {}

\* kMaxPages holds although fills run outside the mutex and several threads
\* may be about to store at once.
PagesWithinBudget == Cardinality(DOMAIN pages) <= MaxPages

\* The bytes whose failure may fail a request: those from the start of the
\* first page it touches up to one page and one look-ahead past its end.
ReachOf(q) ==
  { b \in 0 .. (Size - 1) :
      /\ (q.off \div PageSize) * PageSize <= b
      /\ b < q.off + q.len + PageSize + LookAhead }

\* Both layers together keep the promise of a BlockDevice: an answer is exactly
\* the requested bytes, and only a range outside the device or an unreadable
\* byte within reach fails a request.
Device == INSTANCE BlockDevice WITH Reach <- ReachOf
ImplementsBlockDevice == Device!DeviceSpec

\* What block_device.hpp promises: a read returns false when the complete
\* requested range could not be read.  The grown read of the read-ahead and
\* the page fill fail ranges that can be read.
ReadableRangeSucceeds ==
  \A r \in Readers :
    answer[r] = Failed => ~ InDevice(request[r]) \/ Bytes(request[r]) \cap bad # {}
=============================================================================
