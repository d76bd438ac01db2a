--------------------------- MODULE HdlEnrichment ---------------------------
(***************************************************************************)
(* enrich_hdl_catalog() of src/host/hdl_enrichment.cpp, the host scheduler *)
(* of HDLoader metadata reads, with the serial reader of src/core/hdl.cpp  *)
(* it falls back to on rotational and unknown media.                       *)
(*                                                                         *)
(* Workers share two atomic counters (next, completed), a vector written   *)
(* without a lock (each worker writes only the index it claimed) and the   *)
(* mutex that serialises the progress callback.  Each atomic access of the *)
(* code is one action, so every interleaving of the workers, of the        *)
(* caller's cancellation and of the join is explored.                      *)
(***************************************************************************)
EXTENDS Naturals, FiniteSets, Sequences

CONSTANTS
  StartLba,    \* StartLba[p]: header.start of HDL main p, in chain order
  N,           \* number of HDL mains
  Overrides,   \* values of HdlEnrichmentOptions::max_in_flight_override
  MediaClasses \* values of StorageCharacteristics::media_class

ASSUME CandidateCount == N \in Nat
ASSUME StartLbaType   == StartLba \in [1 .. N -> Nat]
ASSUME OverridesType  == Overrides \subseteq Nat

VARIABLES
  stop,       \* stop_token: the caller has requested cancellation
  order,      \* `partitions`: the HDL mains after std::sort
  width,      \* HdlEnrichmentPolicy::max_in_flight
  main,       \* where the calling thread is
  pc, idx,    \* per worker: where it is, and its local `index`
  done,       \* per worker: its local `done`
  next,       \* shared counter of claimed candidates
  completed,  \* shared counter of resolved candidates
  results,    \* shared vector of results, one slot per candidate
  calls,      \* history: the progress callbacks made, in order
  atStop,     \* history: the value of next when the stop was requested
  catalog     \* the CatalogResult returned

callerVars == <<stop, atStop, order, width, main, catalog>>
localVars  == <<pc, idx, done>>
workVars   == <<next, completed, results, calls>>
vars       == <<callerVars, localVars, workVars>>

Candidates == 0 .. (N - 1)
Workers    == 1 .. N
NoResult   == "none"
Outcome    == {"ok", "unreadable"}
NoCatalog  == [returned |-> FALSE, entries |-> {}, cancelled |-> FALSE]

AtMost(a, b) == IF a <= b THEN a ELSE b

\* hdl_mains_by_lba(): std::sort by start LBA.  Headers whose start field lies
\* about their place only draw a warning, so equal keys exist, and std::sort
\* may leave them in any order.
HdlMainsByLba ==
  { o \in [Candidates -> 1 .. N] :
      /\ \A i, j \in Candidates : i # j => o[i] # o[j]
      /\ \A i, j \in Candidates : i < j => StartLba[o[i]] <= StartLba[o[j]] }

\* Bug variant: the developer override is not capped by the candidates.
UncappedOverride(media, override) ==
  IF N = 0 THEN 0
  ELSE IF override # 0 THEN override
  ELSE IF media = "solid_state" THEN AtMost(4, N)
  ELSE 1

\* choose_hdl_enrichment_policy()
MaxInFlight(media, override) ==
  IF N = 0 THEN 0
  ELSE IF override # 0 THEN AtMost(override, N)
  ELSE IF media = "solid_state" THEN AtMost(4, N)
  ELSE 1

\* The entries vector is filled by one loop over the slots, skipping the empty
\* ones: it is the set of filled slots, in LBA order.
Returned(entries) ==
  [returned |-> TRUE, entries |-> entries, cancelled |-> entries # Candidates]

Filled == { i \in Candidates : results[i] # NoResult }

Init ==
  /\ stop = FALSE
  /\ order \in HdlMainsByLba
  /\ \E media \in MediaClasses, override \in Overrides :
       width = MaxInFlight(media, override)
  /\ main = IF N = 0 THEN "returned" ELSE IF width <= 1 THEN "serial" ELSE "join"
  /\ pc = [w \in Workers |-> IF width > 1 /\ w <= width THEN "check" ELSE "exit"]
  /\ idx = [w \in Workers |-> 0]
  /\ done = [w \in Workers |-> 0]
  /\ next = 0
  /\ completed = 0
  /\ results = [i \in Candidates |-> NoResult]
  /\ calls = <<>>
  /\ atStop = 0
  /\ catalog = IF N = 0 THEN Returned({}) ELSE NoCatalog
-----------------------------------------------------------------------------
(* The caller's stop_source, from another thread at any time.              *)

RequestStop ==
  /\ ~ stop
  /\ stop' = TRUE
  /\ atStop' = next
  /\ UNCHANGED <<localVars, workVars, order, width, main, catalog>>
-----------------------------------------------------------------------------
(* A worker of the concurrent path.                                        *)

CheckStop(w) ==
  /\ pc[w] = "check"
  /\ pc' = [pc EXCEPT ![w] = IF stop THEN "exit" ELSE "claim"]
  /\ UNCHANGED <<callerVars, workVars, idx, done>>

\* Bug variant: a load and a store where the code has one fetch_add; the store
\* of a worker that lags behind moves the counter back.
ClaimTorn(w) ==
  /\ pc[w] = "claim"
  /\ next' \in {next, next + 1}
  /\ idx' = [idx EXCEPT ![w] = IF next >= N THEN 0 ELSE next]
  /\ pc' = [pc EXCEPT ![w] = IF next >= N THEN "exit" ELSE "read"]
  /\ UNCHANGED <<callerVars, done, completed, results, calls>>

\* Bug variant: a worker that finds nothing left goes round again.
ClaimSpins(w) ==
  /\ pc[w] = "claim"
  /\ next' = IF next >= N THEN next ELSE next + 1
  /\ idx' = [idx EXCEPT ![w] = IF next >= N THEN 0 ELSE next]
  /\ pc' = [pc EXCEPT ![w] = IF next >= N THEN "check" ELSE "read"]
  /\ UNCHANGED <<callerVars, done, completed, results, calls>>

\* next.fetch_add(1)
Claim(w) ==
  /\ pc[w] = "claim"
  /\ next' = next + 1
  /\ idx' = [idx EXCEPT ![w] = IF next >= N THEN 0 ELSE next]
  /\ pc' = [pc EXCEPT ![w] = IF next >= N THEN "exit" ELSE "read"]
  /\ UNCHANGED <<callerVars, done, completed, results, calls>>

\* read_game_info() and the store into the worker's own slot.  Any read may
\* fail and any header may be malformed.
ReadGame(w, outcome) ==
  /\ pc[w] = "read"
  /\ results' = [results EXCEPT ![idx[w]] = outcome]
  /\ pc' = [pc EXCEPT ![w] = "count"]
  /\ UNCHANGED <<callerVars, idx, done, next, completed, calls>>

\* completed.fetch_add(1) + 1, before the progress mutex is taken
Count(w) ==
  /\ pc[w] = "count"
  /\ completed' = completed + 1
  /\ done' = [done EXCEPT ![w] = completed + 1]
  /\ pc' = [pc EXCEPT ![w] = "notify"]
  /\ UNCHANGED <<callerVars, idx, next, results, calls>>

\* The callback under progress_mutex: one at a time, so one action.  The locals
\* go out of scope with the iteration.
Notify(w) ==
  /\ pc[w] = "notify"
  /\ calls' = Append(calls, [done |-> done[w], index |-> idx[w],
                             result |-> results[idx[w]]])
  /\ pc' = [pc EXCEPT ![w] = "check"]
  /\ idx' = [idx EXCEPT ![w] = 0]
  /\ done' = [done EXCEPT ![w] = 0]
  /\ UNCHANGED <<callerVars, next, completed, results>>

Worker(w) ==
  \/ CheckStop(w)
  \/ Claim(w)
  \/ \E outcome \in Outcome : ReadGame(w, outcome)
  \/ Count(w)
  \/ Notify(w)

\* Bug variant: the slots are gathered before the workers have left.
GatherEarly ==
  /\ main = "join"
  /\ stop \/ next >= N
  /\ main' = "returned"
  /\ catalog' = Returned(Filled)
  /\ UNCHANGED <<localVars, workVars, stop, order, width, atStop>>

\* workers.clear() joins, then the slots are gathered.
Join ==
  /\ main = "join"
  /\ \A w \in Workers : pc[w] = "exit"
  /\ main' = "returned"
  /\ catalog' = Returned(Filled)
  /\ UNCHANGED <<localVars, workVars, stop, order, width, atStop>>
-----------------------------------------------------------------------------
(* hdl::read_catalog(), the serial path, on the calling thread.  next is   *)
(* its loop cursor and completed the size of its entries vector.           *)

SerialCheck ==
  /\ main = "serial"
  /\ next < N
  /\ IF stop
       THEN /\ main' = "returned"
            /\ catalog' = [Returned(Filled) EXCEPT !.cancelled = TRUE]
            /\ next' = next
       ELSE /\ main' = "reading"
            /\ next' = next + 1
            /\ UNCHANGED catalog
  /\ UNCHANGED <<localVars, stop, order, width, completed, results, calls, atStop>>

SerialRead(outcome) ==
  /\ main = "reading"
  /\ results' = [results EXCEPT ![next - 1] = outcome]
  /\ completed' = completed + 1
  /\ calls' = Append(calls, [done |-> completed + 1, index |-> next - 1,
                             result |-> outcome])
  /\ main' = "serial"
  /\ UNCHANGED <<localVars, stop, order, width, next, atStop, catalog>>

\* The loop ends without a further look at the stop token.
SerialReturn ==
  /\ main = "serial"
  /\ next = N
  /\ main' = "returned"
  /\ catalog' = [Returned(Filled) EXCEPT !.cancelled = FALSE]
  /\ UNCHANGED <<localVars, workVars, stop, order, width, atStop>>

Caller ==
  \/ Join
  \/ SerialCheck
  \/ \E outcome \in Outcome : SerialRead(outcome)
  \/ SerialReturn

Next ==
  \/ RequestStop
  \/ \E w \in Workers : Worker(w)
  \/ Caller

\* Threads that can run do run; nobody has to press Cancel.
Fairness ==
  /\ \A w \in Workers : WF_vars(Worker(w))
  /\ WF_vars(Caller)

Spec     == Init /\ [][Next]_vars
FairSpec == Spec /\ Fairness
-----------------------------------------------------------------------------
(* Properties.                                                             *)

CatalogType ==
  [returned : BOOLEAN, entries : SUBSET Candidates, cancelled : BOOLEAN]

\* Every variable keeps its type.  width never exceeds the candidates, and the
\* claim counter overshoots them by one per worker at most, so the fetch_add
\* of size_t cannot wrap round to an index already claimed.
TypeOK ==
  /\ stop \in BOOLEAN
  /\ order \in [Candidates -> 1 .. N]
  /\ width \in 0 .. N
  /\ main \in {"serial", "reading", "join", "returned"}
  /\ pc \in [Workers -> {"check", "claim", "read", "count", "notify", "exit"}]
  /\ idx \in [Workers -> Nat]
  /\ done \in [Workers -> Nat]
  /\ next \in 0 .. (N + width)
  /\ completed \in Nat
  /\ results \in [Candidates -> Outcome \cup {NoResult}]
  /\ calls \in Seq([done : Nat, index : Candidates, result : Outcome])
  /\ atStop \in Nat
  /\ catalog \in CatalogType

\* Progress is reported exactly once per candidate, with the result that ends
\* in the catalog, and no two reports carry the same count: a frontend that
\* adds up what it is told never counts a partition twice.  (The counts may
\* arrive out of order: they are taken before the progress mutex.)
OneReportPerCandidate ==
  /\ \A a, b \in 1 .. Len(calls) :
       a # b => /\ calls[a].index # calls[b].index
                /\ calls[a].done # calls[b].done
  /\ \A a \in 1 .. Len(calls) : results[calls[a].index] = calls[a].result
  /\ catalog.returned =>
       { calls[a].index : a \in 1 .. Len(calls) } = catalog.entries

\* What comes back is resolved, is marked cancelled exactly when a candidate
\* is missing, and a candidate is missing only after a stop request.
CancelledIffIncomplete ==
  catalog.returned =>
    /\ catalog.entries = Filled
    /\ catalog.cancelled <=> catalog.entries # Candidates
    /\ catalog.cancelled => stop

\* "Returned entries are always in physical-LBA order regardless of completion
\* order" (hdl_enrichment.hpp:28), also when the call was cancelled: nothing
\* that was left out lies before anything that came back.
LowestLbasFirst ==
  catalog.returned =>
    \A i \in catalog.entries, j \in Candidates \ catalog.entries :
      StartLba[order[i]] <= StartLba[order[j]]

\* After the stop request at most one more candidate per worker is started.
StopIsPrompt == stop => next <= atStop + width

\* The call returns: no worker waits for another one, and the join ends.
CallReturns == <>(main = "returned")

Reader == INSTANCE CatalogRead WITH taken <- AtMost(next, N)

\* The scheduler implements the abstract catalog reader: whichever worker
\* resolves what in which order, the catalog is a prefix of the LBA order.
ImplementsCatalogRead == Reader!CatalogReadSpec
=============================================================================
