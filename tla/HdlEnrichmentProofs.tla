------------------------ MODULE HdlEnrichmentProofs ------------------------
(***************************************************************************)
(* Theorems about the enrichment scheduler, for every number of HDL mains, *)
(* every override and every media class.                                   *)
(***************************************************************************)
EXTENDS HdlEnrichment, FiniteSetTheorems, SequenceTheorems, TLAPS

USE DEF callerVars, localVars, workVars

Holding(w) == pc[w] \in {"read", "count", "notify"}

Claimers == { w \in Workers : pc[w] = "claim" }
Alive    == { w \in Workers : pc[w] # "exit" }

\* Which thread may be where: either the calling thread reads alone, or it
\* waits for width workers.
Roles ==
  /\ N # 0 => width >= 1
  /\ main = "join" => width >= 1
  /\ main # "join" => \A w \in Workers : pc[w] = "exit"
  /\ \A w \in Workers : width < w => pc[w] = "exit"
  /\ main \in {"serial", "reading"} => width <= 1 /\ next <= N /\ N # 0
  /\ main = "reading" => next >= 1
  /\ main = "join" => \A w \in 1 .. width : pc[w] = "exit" => stop \/ next >= N
  /\ main = "returned" <=> catalog.returned

\* A claimed candidate belongs to one worker until it has been reported, and a
\* slot is empty exactly while its candidate is unclaimed or being read.
Claims ==
  /\ \A w \in Workers : Holding(w) => idx[w] \in Candidates /\ idx[w] < next
  /\ \A v, w \in Workers : v # w /\ Holding(v) /\ Holding(w) => idx[v] # idx[w]
  /\ \A w \in Workers : pc[w] = "read" => results[idx[w]] = NoResult
  /\ \A w \in Workers : pc[w] \in {"count", "notify"} => results[idx[w]] # NoResult
  /\ \A i \in Candidates : next <= i => results[i] = NoResult
  /\ \A i \in Candidates : i < next /\ results[i] = NoResult =>
       \/ \E w \in Workers : pc[w] = "read" /\ idx[w] = i
       \/ main = "reading" /\ i = next - 1
  /\ main = "reading" => results[next - 1] = NoResult

\* The reports made so far, and the counts still to be reported.
Reports ==
  /\ \A a \in 1 .. Len(calls) : results[calls[a].index] = calls[a].result
  /\ \A a \in 1 .. Len(calls) : calls[a].done <= completed
  /\ \A a \in 1 .. Len(calls) : \A w \in Workers :
       Holding(w) => calls[a].index # idx[w]
  /\ \A a \in 1 .. Len(calls) : \A w \in Workers :
       pc[w] = "notify" => calls[a].done # done[w]
  /\ \A w \in Workers : pc[w] = "notify" => done[w] <= completed
  /\ \A v, w \in Workers :
       v # w /\ pc[v] = "notify" /\ pc[w] = "notify" => done[v] # done[w]
  /\ \A a, b \in 1 .. Len(calls) :
       a # b => calls[a].index # calls[b].index /\ calls[a].done # calls[b].done
  /\ \A i \in Candidates : results[i] # NoResult =>
       \/ \E w \in Workers : Holding(w) /\ idx[w] = i
       \/ \E a \in 1 .. Len(calls) : calls[a].index = i

\* Nobody claims past the end more than once, nobody claims twice after a stop.
Overshoot ==
  /\ N <= next => next + Cardinality(Alive) <= N + width
  /\ stop => next + Cardinality(Claimers) <= atStop + width
  /\ stop => atStop <= next

\* The answer, once given.
Answer ==
  /\ catalog.returned => /\ catalog.entries = Filled
                         /\ stop \/ next >= N
                         /\ catalog.cancelled <=> catalog.entries # Candidates
  /\ ~ catalog.returned => catalog = NoCatalog

Sorted == order \in HdlMainsByLba

IInv ==
  TypeOK /\ Roles /\ Claims /\ Reports /\ Overshoot /\ Answer /\ Sorted
-----------------------------------------------------------------------------
(* The initial states.                                                     *)

LEMMA PolicyRange ==
  ASSUME NEW media, NEW override \in Overrides
  PROVE  /\ MaxInFlight(media, override) \in 0 .. N
         /\ N # 0 => MaxInFlight(media, override) \in 1 .. N
  BY CandidateCount, OverridesType, SMT DEF MaxInFlight, AtMost

LEMMA InitIInv == Init => IInv
<1> SUFFICES ASSUME Init PROVE IInv
  OBVIOUS
<1>1. width \in 0 .. N /\ (N # 0 => width \in 1 .. N)
  BY PolicyRange DEF Init
<1>2. order \in [Candidates -> 1 .. N] /\ Sorted
  BY DEF Init, Sorted, HdlMainsByLba
<1>3. Filled = {}
  BY DEF Init, Filled
<1>4. catalog \in CatalogType
  <2>1. CASE N = 0
    BY <2>1, SMT DEF Init, CatalogType, Returned, Candidates
  <2>2. CASE N # 0
    BY <2>2, SMT DEF Init, CatalogType, NoCatalog
  <2> QED BY <2>1, <2>2
<1>5. TypeOK
  <2>1. calls \in Seq([done : Nat, index : Candidates, result : Outcome])
    BY DEF Init
  <2>2. pc \in [Workers -> {"check", "claim", "read", "count", "notify", "exit"}]
    BY DEF Init
  <2>3. main \in {"serial", "reading", "join", "returned"}
    BY DEF Init
  <2>4. /\ idx \in [Workers -> Nat]
        /\ done \in [Workers -> Nat]
        /\ results \in [Candidates -> Outcome \cup {NoResult}]
    BY DEF Init
  <2>5. next \in 0 .. (N + width) /\ completed \in Nat /\ atStop \in Nat
    BY <1>1, CandidateCount, SMT DEF Init
  <2>6. stop \in BOOLEAN
    BY DEF Init
  <2> QED
    BY <1>1, <1>2, <1>4, <2>1, <2>2, <2>3, <2>4, <2>5, <2>6 DEF TypeOK
<1>6. Roles
  BY <1>1, CandidateCount, SMT DEF Init, Roles, Workers, Returned, NoCatalog
<1>7. Claims
  BY <1>1, CandidateCount, SMT DEF Init, Claims, Holding, Candidates
<1>8. Reports
  BY CandidateCount, SMT DEF Init, Reports, Holding
<1>9. Overshoot
  <2>1. CASE N = 0
    <3>1. Alive = {}
      BY <2>1 DEF Alive, Workers
    <3> QED BY <2>1, <3>1, <1>1, FS_EmptySet, SMT DEF Init, Overshoot
  <2>2. CASE N # 0
    BY <2>2, CandidateCount, SMT DEF Init, Overshoot
  <2> QED BY <2>1, <2>2
<1>10. Answer
  <2>1. CASE N = 0
    <3>1. next >= N
      BY <2>1, SMT DEF Init
    <3>2. catalog = [returned |-> TRUE, entries |-> {},
                     cancelled |-> {} # Candidates]
      BY <2>1, Zenon DEF Init, Returned
    <3> QED BY <1>3, <3>1, <3>2, Zenon DEF Answer
  <2>2. CASE N # 0
    BY <2>2, Zenon DEF Init, Answer, NoCatalog
  <2> QED BY <2>1, <2>2
<1> QED BY <1>2, <1>5, <1>6, <1>7, <1>8, <1>9, <1>10 DEF IInv
-----------------------------------------------------------------------------
(* Cardinalities of sets of workers.                                       *)

LEMMA WorkerSets ==
  ASSUME N \in Nat, NEW S \in SUBSET Workers
  PROVE  IsFiniteSet(S) /\ Cardinality(S) \in Nat
<1>1. IsFiniteSet(Workers)
  BY FS_Interval, SMT DEF Workers
<1> QED BY <1>1, FS_Subset, FS_CardinalityType

LEMMA CallType ==
  ASSUME TypeOK, NEW a \in 1 .. Len(calls)
  PROVE  /\ calls[a].index \in Candidates
         /\ calls[a].done \in Nat
         /\ calls[a].result \in Outcome
         /\ calls[a].result # NoResult
<1>1. calls \in Seq([done : Nat, index : Candidates, result : Outcome])
  BY DEF TypeOK
<1>2. calls[a] \in [done : Nat, index : Candidates, result : Outcome]
  BY <1>1, ElementOfSeq
<1>3. /\ calls[a].index \in Candidates
      /\ calls[a].done \in Nat
      /\ calls[a].result \in Outcome
  BY <1>2, Zenon
<1> QED BY <1>3, SMT DEF Outcome, NoResult

LEMMA StartedWorkers ==
  ASSUME TypeOK, Roles, NEW S \in SUBSET Alive
  PROVE  /\ IsFiniteSet(S)
         /\ Cardinality(S) \in Nat
         /\ Cardinality(S) <= width
<1>1. width \in Nat /\ S \in SUBSET (1 .. width)
  BY CandidateCount, SMT DEF TypeOK, Roles, Alive, Workers
<1>2. IsFiniteSet(1 .. width) /\ Cardinality(1 .. width) = width
  BY <1>1, FS_Interval, SMT
<1> QED BY <1>1, <1>2, FS_Subset, FS_CardinalityType

-----------------------------------------------------------------------------
(* The caller's cancellation.                                              *)

LEMMA RequestStopInv == IInv /\ RequestStop => IInv'
<1> SUFFICES ASSUME IInv, RequestStop PROVE IInv'
  OBVIOUS
<1> USE DEF IInv
<1>1. TypeOK'
  BY SMT DEF TypeOK, RequestStop
<1>2. Roles'
  BY SMT DEF Roles, RequestStop, TypeOK
<1>3. Claims'
  BY DEF Claims, RequestStop, Holding
<1>4. Reports'
  BY DEF Reports, RequestStop, Holding
<1>5. Overshoot'
  <2>1. Alive' = Alive /\ Claimers' = Claimers
    BY DEF Alive, Claimers, RequestStop
  <2>2. Claimers \in SUBSET Alive
    BY DEF Alive, Claimers
  <2>3. Cardinality(Claimers) \in Nat /\ Cardinality(Claimers) <= width
    BY <2>2, StartedWorkers
  <2> QED
    BY <2>1, <2>3, SMT DEF Overshoot, RequestStop, TypeOK
<1>6. Answer'
  BY DEF Answer, RequestStop, Filled
<1>7. Sorted'
  BY DEF Sorted, RequestStop
<1> QED BY <1>1, <1>2, <1>3, <1>4, <1>5, <1>6, <1>7
-----------------------------------------------------------------------------
(* The steps of a worker.  A worker that runs runs during the join.        *)

LEMMA Running ==
  ASSUME Roles, Answer, NEW w \in Workers, pc[w] # "exit"
  PROVE  main = "join" /\ ~ catalog.returned /\ catalog = NoCatalog /\ w \in Alive
  BY DEF Roles, Answer, Alive

LEMMA CheckStopInv ==
  ASSUME IInv, NEW w \in Workers, CheckStop(w)
  PROVE  IInv'
<1> USE DEF IInv
<1>0. main = "join" /\ ~ catalog.returned
  BY Running DEF CheckStop
<1>1. TypeOK'
  BY SMT DEF TypeOK, CheckStop
<1>2. Roles'
  BY <1>0, SMT DEF Roles, CheckStop, TypeOK, Workers
<1>3. Claims'
  BY SMT DEF Claims, CheckStop, Holding, TypeOK
<1>4. Reports'
  <2>1. UNCHANGED <<calls, results, completed, idx, done>>
    BY DEF CheckStop
  <2>2. \A v \in Workers : /\ Holding(v)' <=> Holding(v)
                           /\ pc'[v] = "notify" <=> pc[v] = "notify"
    BY SMT DEF CheckStop, Holding, TypeOK
  <2> HIDE DEF Holding
  <2> QED BY <2>1, <2>2 DEF Reports
<1>5. Overshoot'
  <2>1. CASE stop
    <3>1. Alive' = Alive \ {w} /\ Claimers' = Claimers
      BY <2>1 DEF Alive, Claimers, CheckStop, TypeOK
    <3>2. Cardinality(Alive) \in Nat /\ Cardinality(Alive') <= Cardinality(Alive)
      BY <3>1, StartedWorkers, FS_RemoveElement, FS_Subset
    <3>3. Cardinality(Alive') \in Nat /\ Cardinality(Claimers) \in Nat
      BY <3>1, StartedWorkers DEF Alive, Claimers
    <3> QED
      BY <2>1, <3>1, <3>2, <3>3, CandidateCount, SMT DEF Overshoot, CheckStop, TypeOK
  <2>2. CASE ~ stop
    <3>1. Alive' = Alive
      BY <2>2 DEF Alive, CheckStop, TypeOK
    <3> QED
      BY <2>2, <3>1 DEF Overshoot, CheckStop
  <2> QED BY <2>1, <2>2
<1>6. Answer'
  BY <1>0 DEF Answer, CheckStop
<1>7. Sorted'
  BY DEF Sorted, CheckStop
<1> QED BY <1>1, <1>2, <1>3, <1>4, <1>5, <1>6, <1>7

LEMMA ClaimInv ==
  ASSUME IInv, NEW w \in Workers, Claim(w)
  PROVE  IInv'
<1> USE DEF IInv
<1>0. main = "join" /\ ~ catalog.returned /\ w \in Alive
  BY Running DEF Claim
<1>a. /\ Cardinality(Alive) \in Nat
      /\ Cardinality(Claimers) \in Nat
      /\ Cardinality(Alive) <= width
      /\ IsFiniteSet(Alive) /\ IsFiniteSet(Claimers)
  <2>1. Claimers \in SUBSET Alive
    BY DEF Alive, Claimers
  <2> QED BY <2>1, StartedWorkers
<1>b. Cardinality(Alive) >= 1
  <2>1. {w} \in SUBSET Alive
    BY <1>0
  <2>2. Cardinality({w}) <= Cardinality(Alive)
    BY <2>1, <1>a, FS_Subset
  <2> QED BY <2>2, <1>a, FS_Singleton, SMT
<1>c. next \in Nat /\ width \in Nat /\ atStop \in Nat
  BY CandidateCount, SMT DEF TypeOK
<1>1. TypeOK'
  <2>1. next + 1 <= N + width
    BY <1>a, <1>b, <1>c, CandidateCount, SMT DEF Overshoot
  <2> QED BY <2>1, <1>c, CandidateCount, SMT DEF TypeOK, Claim
<1>2. Roles'
  BY <1>0, <1>c, CandidateCount, SMT DEF Roles, Claim, TypeOK, Workers
<1>3. Claims'
  BY <1>0, <1>c, CandidateCount, SMTT(20) DEF Claims, Claim, Holding, TypeOK, Candidates
<1>4. Reports'
  <2>1. UNCHANGED <<calls, results, completed, done>>
    BY DEF Claim
  <2>2. \A v \in Workers : /\ pc'[v] # "notify" \/ pc[v] = "notify"
                           /\ Holding(v) => (Holding(v)' /\ idx'[v] = idx[v])
                           /\ Holding(v)' => \/ Holding(v) /\ idx'[v] = idx[v]
                                             \/ idx'[v] = next /\ next < N
    BY <1>c, CandidateCount, SMT DEF Claim, Holding, TypeOK
  <2>3. \A a \in 1 .. Len(calls) : next < N => calls[a].index # next
    <3>1. ASSUME NEW a \in 1 .. Len(calls) PROVE calls[a].result # NoResult
      BY CallType
    <3>2. next < N => results[next] = NoResult
      BY <1>c, CandidateCount, SMT DEF Claims, Candidates
    <3> QED BY <3>1, <3>2 DEF Reports
  <2> HIDE DEF Holding
  <2> QED BY <2>1, <2>2, <2>3 DEF Reports
<1>5. Overshoot'
  <2>1. Claimers' = Claimers \ {w}
    BY <1>c, CandidateCount, SMT DEF Claimers, Claim, TypeOK
  <2>2. Cardinality(Claimers') = Cardinality(Claimers) - 1
    <3>1. w \in Claimers
      BY DEF Claimers, Claim
    <3> QED BY <2>1, <3>1, <1>a, FS_RemoveElement
  <2>3. CASE next >= N
    <3>1. Alive' = Alive \ {w}
      BY <2>3 DEF Alive, Claim, TypeOK
    <3>2. Cardinality(Alive') = Cardinality(Alive) - 1
      BY <3>1, <1>0, <1>a, FS_RemoveElement
    <3> QED
      BY <2>2, <2>3, <3>2, <1>a, <1>c, CandidateCount, SMT DEF Overshoot, Claim
  <2>4. CASE ~ (next >= N)
    <3>1. Alive' = Alive
      BY <2>4 DEF Alive, Claim, TypeOK
    <3> QED
      BY <2>2, <2>4, <3>1, <1>a, <1>c, CandidateCount, SMT DEF Overshoot, Claim
  <2> QED BY <2>3, <2>4
<1>6. Answer'
  BY <1>0 DEF Answer, Claim
<1>7. Sorted'
  BY DEF Sorted, Claim
<1> QED BY <1>1, <1>2, <1>3, <1>4, <1>5, <1>6, <1>7

LEMMA ReadGameInv ==
  ASSUME IInv, NEW w \in Workers, NEW outcome \in Outcome, ReadGame(w, outcome)
  PROVE  IInv'
<1> USE DEF IInv
<1>0. main = "join" /\ ~ catalog.returned
  BY Running DEF ReadGame
<1>a. idx[w] \in Candidates /\ idx[w] < next /\ results[idx[w]] = NoResult
  BY DEF Claims, Holding, ReadGame
<1>b. outcome # NoResult
  BY SMT DEF Outcome, NoResult
<1>c. /\ results'[idx[w]] = outcome
      /\ \A i \in Candidates : i # idx[w] => results'[i] = results[i]
  BY <1>a, SMT DEF ReadGame, TypeOK
<1>1. TypeOK'
  BY <1>a, SMT DEF TypeOK, ReadGame
<1>2. Roles'
  BY <1>0, SMT DEF Roles, ReadGame, TypeOK, Workers
<1>d. \A v \in Workers : /\ Holding(v)' <=> Holding(v)
                         /\ pc'[v] = "notify" <=> pc[v] = "notify"
                         /\ v # w => pc'[v] = pc[v]
  BY SMT DEF ReadGame, Holding, TypeOK
<1>e. pc[w] = "read" /\ pc'[w] = "count"
  BY SMT DEF ReadGame, TypeOK
<1>3. Claims'
  BY <1>0, <1>a, <1>b, <1>c, <1>e, CandidateCount, SMT
     DEF Claims, ReadGame, Holding, TypeOK, Candidates
<1>4. Reports'
  <2>1. UNCHANGED <<calls, completed, idx, done>>
    BY DEF ReadGame
  <2>2. \A a \in 1 .. Len(calls) : /\ calls[a].index # idx[w]
                                   /\ calls[a].index \in Candidates
    BY <1>e, CallType DEF Reports, Holding
  <2>3. Holding(w)
    BY <1>e, Zenon DEF Holding
  <2> HIDE DEF Holding
  <2> QED BY <1>b, <1>c, <1>d, <2>1, <2>2, <2>3 DEF Reports
<1>5. Overshoot'
  <2>1. Alive' = Alive /\ Claimers' = Claimers
    BY SMT DEF Alive, Claimers, ReadGame, TypeOK
  <2> QED BY <2>1 DEF Overshoot, ReadGame
<1>6. Answer'
  BY <1>0 DEF Answer, ReadGame
<1>7. Sorted'
  BY DEF Sorted, ReadGame
<1> QED BY <1>1, <1>2, <1>3, <1>4, <1>5, <1>6, <1>7

LEMMA CountInv ==
  ASSUME IInv, NEW w \in Workers, Count(w)
  PROVE  IInv'
<1> USE DEF IInv
<1>0. main = "join" /\ ~ catalog.returned
  BY Running DEF Count
<1>1. TypeOK'
  BY SMT DEF TypeOK, Count
<1>2. Roles'
  BY <1>0, SMT DEF Roles, Count, TypeOK, Workers
<1>a. \A v \in Workers : /\ Holding(v)' <=> Holding(v)
                         /\ pc'[v] \in {"count", "notify"} =>
                              pc[v] \in {"count", "notify"}
                         /\ pc'[v] = "read" <=> pc[v] = "read"
  BY SMT DEF Count, Holding, TypeOK
<1>3. Claims'
  <2>1. UNCHANGED <<next, idx, results, main>>
    BY DEF Count
  <2> HIDE DEF Holding
  <2> QED BY <1>a, <2>1 DEF Claims
<1>4. Reports'
  <2>1. UNCHANGED <<calls, idx, results>>
    BY DEF Count
  <2>2. completed \in Nat /\ completed' = completed + 1
    BY DEF Count, TypeOK
  <2>3. /\ \A a \in 1 .. Len(calls) : calls[a].done \in Nat
        /\ \A v \in Workers : done[v] \in Nat
    BY CallType DEF TypeOK
  <2>4. /\ \A v \in Workers \ {w} : pc'[v] = pc[v] /\ done'[v] = done[v]
        /\ done'[w] = completed + 1
    BY SMT DEF Count, TypeOK
  <2>5. /\ \A a \in 1 .. Len(calls) : calls[a].done <= completed'
        /\ \A a \in 1 .. Len(calls) : \A v \in Workers :
             pc'[v] = "notify" => calls[a].done # done'[v]
        /\ \A v \in Workers : pc'[v] = "notify" => done'[v] <= completed'
        /\ \A u, v \in Workers :
             u # v /\ pc'[u] = "notify" /\ pc'[v] = "notify" => done'[u] # done'[v]
    BY <2>2, <2>3, <2>4, SMT DEF Reports
  <2> HIDE DEF Holding
  <2> QED BY <1>a, <2>1, <2>5 DEF Reports
<1>5. Overshoot'
  <2>1. Alive' = Alive /\ Claimers' = Claimers
    BY SMT DEF Alive, Claimers, Count, TypeOK
  <2> QED BY <2>1 DEF Overshoot, Count
<1>6. Answer'
  BY <1>0 DEF Answer, Count
<1>7. Sorted'
  BY DEF Sorted, Count
<1> QED BY <1>1, <1>2, <1>3, <1>4, <1>5, <1>6, <1>7

\* What a further report does to the history.
LEMMA AppendCall ==
  ASSUME TypeOK,
         NEW r \in [done : Nat, index : Candidates, result : Outcome],
         calls' = Append(calls, r)
  PROVE  /\ calls' \in Seq([done : Nat, index : Candidates, result : Outcome])
         /\ Len(calls) \in Nat
         /\ Len(calls') = Len(calls) + 1
         /\ \A a \in 1 .. Len(calls) : calls'[a] = calls[a]
         /\ calls'[Len(calls) + 1] = r
<1>1. calls \in Seq([done : Nat, index : Candidates, result : Outcome])
  BY DEF TypeOK
<1> QED BY <1>1, AppendProperties, LenProperties, SMT

LEMMA NotifyInv ==
  ASSUME IInv, NEW w \in Workers, Notify(w)
  PROVE  IInv'
<1> USE DEF IInv
<1> DEFINE r == [done |-> done[w], index |-> idx[w], result |-> results[idx[w]]]
<1>0. main = "join" /\ ~ catalog.returned
  BY Running DEF Notify
<1>a. idx[w] \in Candidates /\ results[idx[w]] # NoResult
  BY DEF Claims, Holding, Notify
<1>b. r \in [done : Nat, index : Candidates, result : Outcome]
  <2>1. done[w] \in Nat /\ results[idx[w]] \in Outcome
    BY <1>a, SMT DEF TypeOK
  <2> QED BY <1>a, <2>1, Zenon
<1>c. /\ calls' \in Seq([done : Nat, index : Candidates, result : Outcome])
      /\ Len(calls) \in Nat
      /\ Len(calls') = Len(calls) + 1
      /\ \A a \in 1 .. Len(calls) : calls'[a] = calls[a]
      /\ calls'[Len(calls) + 1] = r
  <2>1. calls' = Append(calls, r)
    BY DEF Notify
  <2> HIDE DEF r
  <2> QED BY <1>b, <2>1, AppendCall
<1>d. r.done = done[w] /\ r.index = idx[w] /\ r.result = results[idx[w]]
  OBVIOUS
<1> HIDE DEF r
<1>e. \A v \in Workers : v # w => /\ pc'[v] = pc[v]
                                 /\ idx'[v] = idx[v]
                                 /\ done'[v] = done[v]
  BY DEF Notify, TypeOK
<1>f. pc[w] = "notify" /\ pc'[w] = "check"
  BY DEF Notify, TypeOK
<1>1. TypeOK'
  <2>1. /\ pc' \in [Workers -> {"check", "claim", "read", "count", "notify", "exit"}]
        /\ idx' \in [Workers -> Nat]
        /\ done' \in [Workers -> Nat]
    BY SMT DEF TypeOK, Notify
  <2> QED BY <1>c, <2>1 DEF TypeOK, Notify
<1>2. Roles'
  BY <1>0, <1>e, <1>f, SMT DEF Roles, Notify, Workers
<1>3. Claims'
  BY <1>0, <1>e, <1>f, SMT DEF Claims, Notify, Holding
<1>4. Reports'
  <2>1. UNCHANGED <<results, completed>>
    BY DEF Notify
  <2>2. Holding(w) /\ ~ Holding(w)'
    BY <1>f, SMT DEF Holding
  <2>3. \A v \in Workers : Holding(v)' =>
          v # w /\ Holding(v) /\ idx'[v] = idx[v]
    BY <1>e, <2>2 DEF Holding
  <2>4. \A b \in 1 .. Len(calls') : \/ b \in 1 .. Len(calls) /\ calls'[b] = calls[b]
                                    \/ b = Len(calls) + 1 /\ calls'[b] = r
    BY <1>c, SMT
  <2>5. \A b \in 1 .. Len(calls) : b \in 1 .. Len(calls')
    BY <1>c, SMT
  <2>6. Len(calls) + 1 \in 1 .. Len(calls')
    BY <1>c, SMT
  <2>7. \A v \in Workers : Holding(v)' => idx'[v] # r.index
    BY <1>d, <2>2, <2>3 DEF Claims
  <2>8. \A b \in 1 .. Len(calls) : calls[b].index # r.index /\ calls[b].done # r.done
    BY <1>d, <1>f, <2>2 DEF Reports
  <2>9. \A v \in Workers : pc'[v] = "notify" => v # w /\ pc[v] = "notify" /\ done'[v] = done[v]
    BY <1>e, <1>f
  <2>10. \A i \in Candidates : results[i] # NoResult =>
           \/ \E v \in Workers : Holding(v)' /\ idx'[v] = i
           \/ \E b \in 1 .. Len(calls') : calls'[b].index = i
    <3>1. SUFFICES ASSUME NEW i \in Candidates, results[i] # NoResult
                   PROVE  \/ \E v \in Workers : Holding(v)' /\ idx'[v] = i
                          \/ \E b \in 1 .. Len(calls') : calls'[b].index = i
      OBVIOUS
    <3>2. CASE \E v \in Workers : Holding(v) /\ idx[v] = i
      <4>1. PICK v \in Workers : Holding(v) /\ idx[v] = i
        BY <3>2
      <4>2. CASE v = w
        BY <1>c, <1>d, <2>6, <4>1, <4>2
      <4>3. CASE v # w
        BY <1>e, <4>1, <4>3 DEF Holding
      <4> QED BY <4>2, <4>3
    <3>3. CASE \E b \in 1 .. Len(calls) : calls[b].index = i
      BY <3>3, <1>c, <2>5
    <3> QED BY <3>1, <3>2, <3>3 DEF Reports
  <2> HIDE DEF Holding
  <2>11. \A b \in 1 .. Len(calls') :
           /\ results[calls'[b].index] = calls'[b].result
           /\ calls'[b].done <= completed
    BY <1>d, <1>f, <2>4 DEF Reports
  <2>12. \A b \in 1 .. Len(calls') : \A v \in Workers :
           /\ Holding(v)' => calls'[b].index # idx'[v]
           /\ pc'[v] = "notify" => calls'[b].done # done'[v]
    BY <1>d, <1>f, <2>3, <2>4, <2>7, <2>9 DEF Reports
  <2>13. \A b, c \in 1 .. Len(calls') :
           b # c => calls'[b].index # calls'[c].index /\ calls'[b].done # calls'[c].done
    BY <2>4, <2>8 DEF Reports
  <2>14. /\ \A v \in Workers : pc'[v] = "notify" => done'[v] <= completed
         /\ \A u, v \in Workers :
              u # v /\ pc'[u] = "notify" /\ pc'[v] = "notify" => done'[u] # done'[v]
    BY <2>9 DEF Reports
  <2> QED BY <2>1, <2>10, <2>11, <2>12, <2>13, <2>14 DEF Reports
<1>5. Overshoot'
  <2>1. Alive' = Alive /\ Claimers' = Claimers
    BY <1>e, <1>f DEF Alive, Claimers
  <2> QED BY <2>1 DEF Overshoot, Notify
<1>6. Answer'
  BY <1>0 DEF Answer, Notify
<1>7. Sorted'
  BY DEF Sorted, Notify
<1> QED BY <1>1, <1>2, <1>3, <1>4, <1>5, <1>6, <1>7

-----------------------------------------------------------------------------
(* The calling thread: the join, and the serial reader.                    *)

LEMMA NobodyRuns ==
  ASSUME Roles, main # "join"
  PROVE  /\ \A w \in Workers : pc[w] = "exit"
         /\ \A w \in Workers : ~ Holding(w)
         /\ Alive = {} /\ Claimers = {}
<1>1. \A w \in Workers : pc[w] = "exit"
  BY DEF Roles
<1> QED BY <1>1, SMT DEF Holding, Alive, Claimers

LEMMA JoinInv == IInv /\ Join => IInv'
<1> SUFFICES ASSUME IInv, Join PROVE IInv'
  OBVIOUS
<1> USE DEF IInv
<1>0. catalog' = [returned |-> TRUE, entries |-> Filled,
                  cancelled |-> Filled # Candidates]
  BY DEF Join, Returned
<1>a. main' = "returned" /\ catalog'.returned /\ (\A w \in Workers : pc'[w] = "exit")
  BY <1>0 DEF Join
<1>b. stop \/ next >= N
  <2>1. width \in 1 .. N
    BY CandidateCount, SMT DEF Roles, Join, TypeOK
  <2> QED BY <2>1, CandidateCount, SMT DEF Roles, Join, Workers
<1>1. TypeOK'
  <2>1. catalog' \in CatalogType
    BY <1>0 DEF CatalogType, Filled
  <2> QED BY <2>1 DEF TypeOK, Join
<1>2. Roles'
  BY <1>a, SMT DEF Roles, Join
<1>3. Claims'
  <2>1. UNCHANGED <<pc, idx, next, results>> /\ main = "join" /\ main' = "returned"
    BY DEF Join
  <2> QED BY <2>1 DEF Claims, Holding
<1>4. Reports'
  BY DEF Reports, Join, Holding
<1>5. Overshoot'
  BY DEF Overshoot, Join, Alive, Claimers
<1>6. Answer'
  <2>1. Filled' = Filled /\ UNCHANGED <<stop, next>>
    BY DEF Filled, Join
  <2> QED BY <1>0, <1>b, <2>1, Zenon DEF Answer
<1>7. Sorted'
  BY DEF Sorted, Join
<1> QED BY <1>1, <1>2, <1>3, <1>4, <1>5, <1>6, <1>7

LEMMA SerialCheckInv == IInv /\ SerialCheck => IInv'
<1> SUFFICES ASSUME IInv, SerialCheck PROVE IInv'
  OBVIOUS
<1> USE DEF IInv
<1>0. /\ main = "serial" /\ ~ catalog.returned /\ catalog = NoCatalog
      /\ next \in Candidates /\ next \in Nat /\ width \in 0 .. N /\ atStop \in Nat
  BY CandidateCount, SMT DEF SerialCheck, Roles, Answer, TypeOK, Candidates
<1>a. results[next] = NoResult
  BY <1>0, SMT DEF Claims
<1>b. UNCHANGED <<stop, order, width, pc, idx, done, completed, results, calls, atStop>>
  BY DEF SerialCheck
<1>c. /\ \A w \in Workers : pc[w] = "exit"
      /\ \A w \in Workers : ~ Holding(w)
      /\ Alive = {} /\ Claimers = {}
  BY <1>0, NobodyRuns
<1>d. Alive' = {} /\ Claimers' = {} /\ Cardinality({}) = 0
  BY <1>b, <1>c, FS_EmptySet DEF Alive, Claimers
<1>4. Reports'
  BY <1>b DEF Reports, Holding
<1>7. Sorted'
  BY <1>b DEF Sorted
<1>e. CASE stop
  <2>0. next' = next /\ main' = "returned"
    BY <1>e DEF SerialCheck
  <2>1. catalog' = [returned |-> TRUE, entries |-> Filled, cancelled |-> TRUE]
    BY <1>e, Zenon DEF SerialCheck, Returned
  <2>2. Filled \in SUBSET Candidates /\ Filled # Candidates /\ Filled' = Filled
    BY <1>0, <1>a, <1>b DEF Filled
  <2>3. TypeOK'
    <3>1. catalog' \in CatalogType
      BY <2>1, <2>2 DEF CatalogType
    <3> QED BY <1>b, <2>0, <3>1 DEF TypeOK
  <2>4. Roles'
    BY <1>b, <1>c, <2>0, <2>1, SMT DEF Roles
  <2>5. Claims'
    BY <1>0, <1>b, <2>0, SMT DEF Claims, Holding
  <2>6. Overshoot'
    BY <1>b, <1>c, <1>d, <2>0 DEF Overshoot
  <2>7. Answer'
    BY <1>b, <1>e, <2>1, <2>2, Zenon DEF Answer
  <2> QED BY <1>4, <1>7, <2>3, <2>4, <2>5, <2>6, <2>7
<1>f. CASE ~ stop
  <2>0. next' = next + 1 /\ main' = "reading" /\ catalog' = catalog
    BY <1>f DEF SerialCheck
  <2>w. width >= 1
    BY <1>0, CandidateCount, SMT DEF SerialCheck, Roles, TypeOK
  <2>3. TypeOK'
    BY <1>0, <1>b, <2>0, <2>w, CandidateCount, SMT DEF TypeOK, SerialCheck
  <2>4. Roles'
    BY <1>0, <1>b, <1>c, <2>0, CandidateCount, SMT DEF Roles, SerialCheck
  <2>5. Claims'
    BY <1>0, <1>a, <1>b, <1>c, <2>0, CandidateCount, SMT DEF Claims, Holding, Candidates
  <2>6. Overshoot'
    BY <1>0, <1>b, <1>d, <1>f, <2>0, <2>w, CandidateCount, SMT DEF Overshoot, Candidates
  <2>7. Answer'
    BY <1>0, <2>0 DEF Answer
  <2> QED BY <1>4, <1>7, <2>3, <2>4, <2>5, <2>6, <2>7
<1> QED BY <1>e, <1>f

LEMMA SerialReturnInv == IInv /\ SerialReturn => IInv'
<1> SUFFICES ASSUME IInv, SerialReturn PROVE IInv'
  OBVIOUS
<1> USE DEF IInv
<1>0. main = "serial" /\ main' = "returned" /\ ~ catalog.returned /\ next = N
  BY DEF SerialReturn, Roles
<1>b. UNCHANGED <<stop, order, width, pc, idx, done, next, completed, results,
                  calls, atStop>>
  BY DEF SerialReturn
<1>c. /\ \A w \in Workers : pc[w] = "exit"
      /\ \A w \in Workers : ~ Holding(w)
  BY <1>0, NobodyRuns
<1>d. Filled = Candidates /\ Filled' = Filled
  <2>1. \A i \in Candidates : results[i] # NoResult
    BY <1>0, <1>c, CandidateCount, SMT DEF Claims, Candidates
  <2> QED BY <1>b, <2>1 DEF Filled
<1>e. catalog' = [returned |-> TRUE, entries |-> Filled, cancelled |-> FALSE]
  BY Zenon DEF SerialReturn, Returned
<1>1. TypeOK'
  <2>1. catalog' \in CatalogType
    BY <1>e DEF CatalogType, Filled
  <2> QED BY <1>0, <1>b, <2>1 DEF TypeOK
<1>2. Roles'
  BY <1>0, <1>b, <1>c, <1>e, SMT DEF Roles
<1>3. Claims'
  BY <1>0, <1>b, SMT DEF Claims, Holding
<1>4. Reports'
  BY <1>b DEF Reports, Holding
<1>5. Overshoot'
  BY <1>b DEF Overshoot, Alive, Claimers
<1>6. Answer'
  <2>1. next' >= N
    BY <1>0, <1>b, CandidateCount, SMT
  <2> QED BY <1>d, <1>e, <2>1, Zenon DEF Answer
<1>7. Sorted'
  BY <1>b DEF Sorted
<1> QED BY <1>1, <1>2, <1>3, <1>4, <1>5, <1>6, <1>7

LEMMA SerialReadInv ==
  ASSUME IInv, NEW outcome \in Outcome, SerialRead(outcome)
  PROVE  IInv'
<1> USE DEF IInv
<1> DEFINE r == [done |-> completed + 1, index |-> next - 1, result |-> outcome]
<1>0. main = "reading" /\ main' = "serial" /\ ~ catalog.returned
  BY DEF SerialRead, Roles
<1>a. /\ next - 1 \in Candidates /\ next \in Nat /\ next >= 1 /\ next <= N
      /\ completed \in Nat
  BY <1>0, CandidateCount, SMT DEF Roles, TypeOK, Candidates
<1>b. UNCHANGED <<stop, order, width, pc, idx, done, next, atStop, catalog>>
  BY DEF SerialRead
<1>c. /\ \A w \in Workers : pc[w] = "exit"
      /\ \A w \in Workers : ~ Holding(w) /\ ~ Holding(w)'
  BY <1>0, <1>b, NobodyRuns DEF Holding
<1>d. results[next - 1] = NoResult /\ outcome # NoResult
  BY <1>0, SMT DEF Claims, Outcome, NoResult
<1>e. /\ results'[next - 1] = outcome
      /\ \A i \in Candidates : i # next - 1 => results'[i] = results[i]
      /\ completed' = completed + 1
  BY <1>a, SMT DEF SerialRead, TypeOK
<1>f. r \in [done : Nat, index : Candidates, result : Outcome]
  BY <1>a, SMT
<1>g. /\ calls' \in Seq([done : Nat, index : Candidates, result : Outcome])
      /\ Len(calls) \in Nat
      /\ Len(calls') = Len(calls) + 1
      /\ \A a \in 1 .. Len(calls) : calls'[a] = calls[a]
      /\ calls'[Len(calls) + 1] = r
  <2>1. calls' = Append(calls, r)
    BY DEF SerialRead
  <2> HIDE DEF r
  <2> QED BY <1>f, <2>1, AppendCall
<1>h. r.done = completed + 1 /\ r.index = next - 1 /\ r.result = outcome
  OBVIOUS
<1> HIDE DEF r
<1>1. TypeOK'
  <2>1. results' \in [Candidates -> Outcome \cup {NoResult}]
    BY <1>a, SMT DEF TypeOK, SerialRead
  <2> QED BY <1>a, <1>b, <1>e, <1>g, <1>0, <2>1, SMT DEF TypeOK
<1>2. Roles'
  BY <1>0, <1>b, SMT DEF Roles
<1>3. Claims'
  BY <1>0, <1>a, <1>b, <1>c, <1>d, <1>e, CandidateCount, SMT
     DEF Claims, Holding, Candidates
<1>4. Reports'
  <2>1. \A b \in 1 .. Len(calls') : \/ b \in 1 .. Len(calls) /\ calls'[b] = calls[b]
                                    \/ b = Len(calls) + 1 /\ calls'[b] = r
    BY <1>g, SMT
  <2>2. \A b \in 1 .. Len(calls) : b \in 1 .. Len(calls')
    BY <1>g, SMT
  <2>3. Len(calls) + 1 \in 1 .. Len(calls')
    BY <1>g, SMT
  <2>4. \A b \in 1 .. Len(calls) : /\ calls[b].index \in Candidates
                                   /\ calls[b].index # next - 1
                                   /\ calls[b].done < completed + 1
    BY <1>a, <1>d, CallType, SMT DEF Reports
  <2>5. \A b \in 1 .. Len(calls') :
          /\ results'[calls'[b].index] = calls'[b].result
          /\ calls'[b].done <= completed'
    <3>1. ASSUME NEW b \in 1 .. Len(calls)
          PROVE  /\ results'[calls[b].index] = calls[b].result
                 /\ calls[b].done <= completed'
      BY <1>a, <1>e, <2>4, CallType, SMT DEF Reports
    <3>2. results'[r.index] = r.result /\ r.done <= completed'
      BY <1>a, <1>e, <1>h, SMT
    <3> QED BY <2>1, <3>1, <3>2
  <2>6. \A b, c \in 1 .. Len(calls') :
          b # c => calls'[b].index # calls'[c].index /\ calls'[b].done # calls'[c].done
    <3>1. \A b \in 1 .. Len(calls) : calls[b].index # r.index /\ calls[b].done # r.done
      BY <1>a, <1>h, <2>4, CallType, SMT
    <3> QED BY <2>1, <3>1 DEF Reports
  <2>7. \A i \in Candidates : results'[i] # NoResult =>
          \E b \in 1 .. Len(calls') : calls'[b].index = i
    <3>1. SUFFICES ASSUME NEW i \in Candidates, results'[i] # NoResult
                   PROVE  \E b \in 1 .. Len(calls') : calls'[b].index = i
      OBVIOUS
    <3>2. CASE i = next - 1
      BY <1>g, <1>h, <2>3, <3>2
    <3>3. CASE i # next - 1
      <4>1. \E b \in 1 .. Len(calls) : calls[b].index = i
        BY <1>c, <1>e, <3>1, <3>3 DEF Reports
      <4> QED BY <1>g, <2>2, <4>1
    <3> QED BY <3>2, <3>3
  <2>8. \A w \in Workers : ~ (pc'[w] = "notify")
    BY <1>b, <1>c, SMT
  <2> HIDE DEF Holding
  <2> QED BY <1>c, <2>5, <2>6, <2>7, <2>8 DEF Reports
<1>5. Overshoot'
  BY <1>b DEF Overshoot, Alive, Claimers
<1>6. Answer'
  BY <1>0, <1>b DEF Answer
<1>7. Sorted'
  BY <1>b DEF Sorted
<1> QED BY <1>1, <1>2, <1>3, <1>4, <1>5, <1>6, <1>7
-----------------------------------------------------------------------------
(* The theorems.                                                           *)

LEMMA NextIInv == IInv /\ [Next]_vars => IInv'
<1> SUFFICES ASSUME IInv, [Next]_vars PROVE IInv'
  OBVIOUS
<1>1. CASE RequestStop
  BY <1>1, RequestStopInv
<1>2. ASSUME NEW w \in Workers, Worker(w) PROVE IInv'
  BY <1>2, CheckStopInv, ClaimInv, ReadGameInv, CountInv, NotifyInv DEF Worker
<1>3. CASE Caller
  BY <1>3, JoinInv, SerialCheckInv, SerialReadInv, SerialReturnInv DEF Caller
<1>4. CASE UNCHANGED vars
  <2>1. /\ TypeOK' <=> TypeOK
        /\ Roles' <=> Roles
        /\ Claims' <=> Claims
        /\ Reports' <=> Reports
        /\ Overshoot' <=> Overshoot
        /\ Answer' <=> Answer
        /\ Sorted' <=> Sorted
    BY <1>4 DEF vars, TypeOK, Roles, Claims, Reports, Overshoot, Answer, Sorted,
                Holding, Alive, Claimers, Filled
  <2> QED BY <2>1 DEF IInv
<1> QED BY <1>1, <1>2, <1>3, <1>4 DEF Next

\* The strengthening is inductive: it holds in every reachable state.
THEOREM Invariance == Spec => []IInv
  BY InitIInv, NextIInv, PTL DEF Spec

\* Every variable keeps its type, for any number of partitions and workers; in
\* particular the claim counter stays within one step per worker of the end.
THEOREM TypeCorrect == Spec => []TypeOK
<1>1. IInv => TypeOK
  BY DEF IInv
<1> QED BY <1>1, Invariance, PTL

\* At the end nobody holds a candidate, so what was claimed is resolved.
LEMMA ReturnedIsPrefix ==
  ASSUME IInv, main # "reading", \A w \in Workers : pc[w] = "exit"
  PROVE  \A i \in Candidates : i \in Filled <=> i < next
<1>1. \A w \in Workers : ~ (pc[w] = "read")
  BY SMT
<1>2. \A i \in Candidates : i < next => results[i] # NoResult
  BY <1>1, Zenon DEF IInv, Claims
<1>3. \A i \in Candidates : ~ (i < next) => next <= i
  BY CandidateCount, SMT DEF IInv, TypeOK, Candidates
<1>4. \A i \in Candidates : ~ (i < next) => results[i] = NoResult
  BY <1>3, Zenon DEF IInv, Claims
<1> QED BY <1>2, <1>4 DEF Filled

\* Each partition is reported exactly once, with a count of its own, and what
\* was reported is what comes back.
THEOREM ReportedOnce == Spec => []OneReportPerCandidate
<1>1. IInv => OneReportPerCandidate
  <2> SUFFICES ASSUME IInv PROVE OneReportPerCandidate
    OBVIOUS
  <2>1. ASSUME catalog.returned
        PROVE  { calls[a].index : a \in 1 .. Len(calls) } = catalog.entries
    <3>1. \A w \in Workers : ~ Holding(w)
      BY <2>1, NobodyRuns DEF IInv, Roles
    <3>2. \A i \in Filled : \E a \in 1 .. Len(calls) : calls[a].index = i
      BY <3>1 DEF IInv, Reports, Filled
    <3>3. \A a \in 1 .. Len(calls) : calls[a].index \in Filled
      BY CallType DEF IInv, Reports, Filled
    <3>4. catalog.entries = Filled
      BY <2>1 DEF IInv, Answer
    <3> QED BY <3>2, <3>3, <3>4
  <2> QED BY <2>1 DEF IInv, Reports, OneReportPerCandidate
<1> QED BY <1>1, Invariance, PTL

\* A catalog is marked cancelled exactly when it is incomplete, and only a stop
\* request makes it so.
THEOREM CancelledCorrectly == Spec => []CancelledIffIncomplete
<1>1. IInv => CancelledIffIncomplete
  <2> SUFFICES ASSUME IInv, catalog.returned
               PROVE  /\ catalog.entries = Filled
                      /\ catalog.cancelled <=> catalog.entries # Candidates
                      /\ catalog.cancelled => stop
    BY DEF CancelledIffIncomplete
  <2>1. main = "returned"
    BY DEF IInv, Roles
  <2>2. next >= N => Filled = Candidates
    <3>1. \A i \in Candidates : i \in Filled <=> i < next
      BY <2>1, ReturnedIsPrefix DEF IInv, Roles
    <3>2. next >= N => \A i \in Candidates : i < next
      BY CandidateCount, SMT DEF Candidates, IInv, TypeOK
    <3> QED BY <3>1, <3>2 DEF Filled
  <2> QED BY <2>2 DEF IInv, Answer
<1> QED BY <1>1, Invariance, PTL

\* What comes back lies before everything that was left out, in LBA order.
THEOREM LowestFirst == Spec => []LowestLbasFirst
<1>1. IInv => LowestLbasFirst
  <2> SUFFICES ASSUME IInv, catalog.returned,
                      NEW i \in catalog.entries, NEW j \in Candidates \ catalog.entries
               PROVE  StartLba[order[i]] <= StartLba[order[j]]
    BY DEF LowestLbasFirst
  <2>1. main = "returned" /\ catalog.entries = Filled
    BY DEF IInv, Roles, Answer
  <2>2. i \in Candidates /\ i < next /\ ~ (j < next)
    BY <2>1, ReturnedIsPrefix DEF Filled, IInv, Roles
  <2>3. i < j
    BY <2>2, CandidateCount, SMT DEF IInv, TypeOK, Candidates
  <2> QED BY <2>2, <2>3 DEF IInv, Sorted, HdlMainsByLba
<1> QED BY <1>1, Invariance, PTL

\* After the stop request no worker starts more than one further candidate.
THEOREM PromptStop == Spec => []StopIsPrompt
<1>1. IInv => StopIsPrompt
  <2> SUFFICES ASSUME IInv, stop PROVE next <= atStop + width
    BY DEF StopIsPrompt
  <2>1. Cardinality(Claimers) \in Nat
    <3>1. Claimers \in SUBSET Alive
      BY DEF Alive, Claimers
    <3> QED BY <3>1, StartedWorkers DEF IInv
  <2> QED BY <2>1, CandidateCount, SMT DEF IInv, Overshoot, TypeOK
<1> QED BY <1>1, Invariance, PTL
-----------------------------------------------------------------------------
(* The scheduler implements the abstract catalog reader.                   *)

LEMMA TakenFacts ==
  ASSUME IInv
  PROVE  /\ AtMost(next, N) \in 0 .. N
         /\ next < N => AtMost(next, N) = next /\ AtMost(next + 1, N) = next + 1
         /\ ~ (next < N) => AtMost(next, N) = N /\ AtMost(next + 1, N) = N
         /\ \A i \in Candidates : i < AtMost(next, N) <=> i < next
         /\ 0 .. (AtMost(next, N) - 1) = { i \in Candidates : i < next }
  BY CandidateCount, SMT DEF AtMost, IInv, TypeOK, Candidates

LEMMA InitRefines == Init => Reader!SpecInit
<1> SUFFICES ASSUME Init PROVE Reader!SpecInit
  OBVIOUS
<1>1. AtMost(next, N) = 0
  BY CandidateCount, SMT DEF Init, AtMost
<1> QED
  BY <1>1 DEF Init, Reader!SpecInit, Candidates, Reader!Candidates, NoResult,
              Reader!NoResult, NoCatalog, Reader!NoCatalog, Returned, Reader!Returned

\* The answer given at the end is the abstract one.
LEMMA ReturnRefines ==
  ASSUME IInv, main # "join" \/ (\A w \in Workers : pc[w] = "exit"), main # "reading",
         ~ catalog.returned, stop \/ next >= N,
         catalog' = [returned |-> TRUE, entries |-> Filled,
                     cancelled |-> Filled # Candidates],
         UNCHANGED <<stop, next, results>>
  PROVE  Reader!SpecReturn
<1>1. \A i \in Candidates : i \in Filled <=> i < next
  BY ReturnedIsPrefix DEF IInv, Roles
<1>2. Filled = 0 .. (AtMost(next, N) - 1)
  BY <1>1, TakenFacts DEF Filled
<1>3. stop \/ AtMost(next, N) = N
  BY TakenFacts, CandidateCount, SMT DEF IInv, TypeOK
<1>4. \A i \in 0 .. (AtMost(next, N) - 1) : results[i] # NoResult
  BY <1>2 DEF Filled
<1> QED
  BY <1>2, <1>3, <1>4 DEF Reader!SpecReturn, Reader!Returned, NoResult,
     Reader!NoResult, Candidates, Reader!Candidates

LEMMA NextRefines ==
  IInv /\ [Next]_vars => [Reader!SpecNext]_(Reader!specVars)
<1> SUFFICES ASSUME IInv, [Next]_vars
             PROVE  Reader!SpecNext \/ UNCHANGED Reader!specVars
  OBVIOUS
<1>1. CASE RequestStop
  BY <1>1 DEF RequestStop, Reader!SpecNext, Reader!SpecStop
<1>2. ASSUME NEW w \in Workers, CheckStop(w) \/ Count(w) \/ Notify(w)
      PROVE  UNCHANGED Reader!specVars
  BY <1>2 DEF CheckStop, Count, Notify, Reader!specVars
<1>3. ASSUME NEW w \in Workers, Claim(w)
      PROVE  Reader!SpecTake \/ UNCHANGED Reader!specVars
  <2>1. ~ catalog.returned
    BY <1>3, Running DEF IInv, Claim
  <2>2. \/ AtMost(next, N) < N /\ AtMost(next + 1, N) = AtMost(next, N) + 1
        \/ AtMost(next + 1, N) = AtMost(next, N)
    BY TakenFacts, CandidateCount, SMT DEF IInv, TypeOK
  <2> QED BY <1>3, <2>1, <2>2 DEF Claim, Reader!SpecTake, Reader!specVars
<1>4. ASSUME NEW w \in Workers, NEW outcome \in Outcome, ReadGame(w, outcome)
      PROVE  \E i \in Candidates : Reader!SpecResolve(i, outcome)
  <2>1. idx[w] \in Candidates /\ idx[w] < next /\ results[idx[w]] = NoResult
    BY <1>4 DEF IInv, Claims, Holding, ReadGame
  <2>2. idx[w] < AtMost(next, N)
    BY <2>1, TakenFacts
  <2> QED BY <1>4, <2>1, <2>2 DEF ReadGame, Reader!SpecResolve, NoResult, Reader!NoResult
<1>5. CASE Join
  <2>1. stop \/ next >= N
    <3>1. width \in 1 .. N
      BY <1>5, CandidateCount, SMT DEF IInv, Roles, Join, TypeOK
    <3> QED BY <1>5, <3>1, CandidateCount, SMT DEF IInv, Roles, Join, Workers
  <2>2. ~ catalog.returned /\ main # "reading"
    BY <1>5 DEF Join, IInv, Roles
  <2> QED
    BY <1>5, <2>1, <2>2, ReturnRefines DEF Join, Returned, Reader!SpecNext
<1>6. CASE SerialCheck
  <2>1. next < N /\ ~ catalog.returned /\ main # "reading" /\ main # "join"
        /\ next \in Candidates
    BY <1>6, CandidateCount, SMT DEF SerialCheck, IInv, Roles, TypeOK, Candidates
  <2>2. CASE stop
    <3>1. catalog' = [returned |-> TRUE, entries |-> Filled, cancelled |-> TRUE]
      BY <1>6, <2>2, Zenon DEF SerialCheck, Returned
    <3>2. Filled # Candidates
      <4>1. results[next] = NoResult
        BY <2>1, SMT DEF IInv, Claims, TypeOK
      <4> QED BY <2>1, <4>1 DEF Filled
    <3>3. UNCHANGED <<stop, next, results>>
      BY <1>6, <2>2 DEF SerialCheck
    <3> QED BY <2>1, <2>2, <3>1, <3>2, <3>3, ReturnRefines DEF Reader!SpecNext
  <2>3. CASE ~ stop
    <3>1. AtMost(next, N) < N /\ AtMost(next + 1, N) = AtMost(next, N) + 1
      BY <2>1, TakenFacts, CandidateCount, SMT DEF IInv, TypeOK
    <3> QED BY <1>6, <2>1, <2>3, <3>1
            DEF SerialCheck, Reader!SpecNext, Reader!SpecTake
  <2> QED BY <2>2, <2>3
<1>7. ASSUME NEW outcome \in Outcome, SerialRead(outcome)
      PROVE  \E i \in Candidates : Reader!SpecResolve(i, outcome)
  <2>1. next - 1 \in Candidates /\ results[next - 1] = NoResult /\ next - 1 < next
    BY <1>7, CandidateCount, SMT DEF SerialRead, IInv, Roles, Claims, TypeOK, Candidates
  <2>2. next - 1 < AtMost(next, N)
    BY <2>1, TakenFacts
  <2> QED BY <1>7, <2>1, <2>2 DEF SerialRead, Reader!SpecResolve, NoResult, Reader!NoResult
<1>8. CASE SerialReturn
  <2>1. main # "reading" /\ main # "join" /\ ~ catalog.returned /\ next >= N
    BY <1>8, CandidateCount, SMT DEF SerialReturn, IInv, Roles
  <2>2. \A i \in Candidates : i \in Filled <=> i < next
    BY <2>1, ReturnedIsPrefix DEF IInv, Roles
  <2>3. Filled = Candidates
    <3>1. \A i \in Candidates : i < next
      BY <2>1, CandidateCount, SMT DEF Candidates, IInv, TypeOK
    <3> QED BY <2>2, <3>1 DEF Filled
  <2>4. catalog' = [returned |-> TRUE, entries |-> Filled, cancelled |-> FALSE]
    BY <1>8, Zenon DEF SerialReturn, Returned
  <2>5. UNCHANGED <<stop, next, results>>
    BY <1>8 DEF SerialReturn
  <2> QED BY <2>1, <2>3, <2>4, <2>5, ReturnRefines DEF Reader!SpecNext
<1>9. CASE UNCHANGED vars
  BY <1>9 DEF vars, Reader!specVars
<1>10. ASSUME NEW w \in Workers, Worker(w)
       PROVE  Reader!SpecNext \/ UNCHANGED Reader!specVars
  BY <1>2, <1>3, <1>4, <1>10 DEF Worker, Reader!SpecNext, Reader!Candidates,
     Candidates, Outcome, Reader!Outcome
<1>11. CASE Caller
  BY <1>5, <1>6, <1>7, <1>8, <1>11 DEF Caller, Reader!SpecNext, Reader!Candidates,
     Candidates, Outcome, Reader!Outcome
<1> QED BY <1>1, <1>9, <1>10, <1>11 DEF Next

\* For every number of partitions, every worker count and every interleaving,
\* the scheduler behaves as the abstract reader that takes candidates in LBA
\* order and answers with exactly what it took.
THEOREM Refinement == Spec => ImplementsCatalogRead
<1>1. ImplementsCatalogRead <=>
        Reader!SpecInit /\ [][Reader!SpecNext]_(Reader!specVars)
  BY DEF ImplementsCatalogRead, Reader!CatalogReadSpec
<1> QED BY <1>1, Invariance, InitRefines, NextRefines, PTL DEF Spec
=============================================================================
