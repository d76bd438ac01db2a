---------------------------- MODULE CatalogRead ----------------------------
(***************************************************************************)
(* What a caller of enrich_hdl_catalog() may rely on, whatever the number  *)
(* of threads that do the work: candidates are taken in physical-LBA       *)
(* order, every candidate taken is resolved exactly once, and the catalog  *)
(* handed back holds exactly the candidates taken.  A cancelled catalog is *)
(* therefore a prefix of the complete one, never a catalog with holes.     *)
(*                                                                         *)
(* Candidates are named by their position in LBA order, from 0 as in the   *)
(* code's vectors.  This is an abstract specification: it has no lines of  *)
(* code of its own, HdlEnrichment implements it.                           *)
(***************************************************************************)
EXTENDS Naturals

CONSTANT N              \* number of HDL main partitions found by the scan

VARIABLES
  stop,      \* the caller has requested cancellation
  taken,     \* candidates 0 .. taken-1 have been handed to some reader
  results,   \* outcome of each candidate
  catalog    \* what the call returned, NoCatalog before that

specVars == <<stop, taken, results, catalog>>

Candidates == 0 .. (N - 1)
NoResult   == "none"
Outcome    == {"ok", "unreadable"}
NoCatalog  == [returned |-> FALSE, entries |-> {}, cancelled |-> FALSE]

\* The entries are the candidates with a result.  Their sequence is theirs in
\* LBA order, because the vector is filled by one loop over the positions.
Returned(entries) ==
  [returned |-> TRUE, entries |-> entries, cancelled |-> entries # Candidates]

SpecInit ==
  /\ stop = FALSE
  /\ taken = 0
  /\ results = [i \in Candidates |-> NoResult]
  /\ catalog = IF N = 0 THEN Returned({}) ELSE NoCatalog

SpecStop ==
  /\ stop' = TRUE
  /\ UNCHANGED <<taken, results, catalog>>

SpecTake ==
  /\ ~ catalog.returned
  /\ taken < N
  /\ taken' = taken + 1
  /\ UNCHANGED <<stop, results, catalog>>

SpecResolve(i, outcome) ==
  /\ i < taken
  /\ results[i] = NoResult
  /\ results' = [results EXCEPT ![i] = outcome]
  /\ UNCHANGED <<stop, taken, catalog>>

SpecReturn ==
  /\ ~ catalog.returned
  /\ taken = N \/ stop
  /\ \A i \in 0 .. (taken - 1) : results[i] # NoResult
  /\ catalog' = Returned(0 .. (taken - 1))
  /\ UNCHANGED <<stop, taken, results>>

SpecNext ==
  \/ SpecStop
  \/ SpecTake
  \/ \E i \in Candidates, outcome \in Outcome : SpecResolve(i, outcome)
  \/ SpecReturn

CatalogReadSpec == SpecInit /\ [][SpecNext]_specVars
=============================================================================
