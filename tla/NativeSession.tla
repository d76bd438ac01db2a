--------------------------- MODULE NativeSession ---------------------------
(***************************************************************************)
(* NativeSessionController: the session and the management model the WinUI *)
(* window, its opener thread and its enrichment thread share under one     *)
(* mutex.  Every operator below is one critical section, so that what      *)
(* happens between two of them is left to the module that extends this     *)
(* one.                                                                    *)
(***************************************************************************)
EXTENDS Naturals

CONSTANTS
  Sources,      \* disk images and physical drives that can be opened
  None,         \* no source
  Lbas,         \* where an HDL game can start
  HdlMains      \* the LBAs of the HDL mains of each source

ASSUME SourceFacts ==
  /\ None \notin Sources
  /\ HdlMains \in [Sources -> SUBSET Lbas]

VARIABLES
  session, \* the source of session_, None before the first one
  model    \* model_: its identity, its source, what its HDL rows hold

sessionVars == <<session, model>>

(***************************************************************************)
(* A row holds the source its metadata was read from, and None while it is *)
(* pending.  The identity stands for the object a shared_ptr points to:    *)
(* whoever holds one keeps it from being reused.                           *)
(***************************************************************************)
MainsOf(s) == IF s = None THEN {} ELSE HdlMains[s]

NoModel == [id |-> 0, of |-> None, rows |-> [lba \in {} |-> None]]

NewModel(s) ==
  [id |-> model.id + 1, of |-> s, rows |-> [lba \in MainsOf(s) |-> None]]

PendingRows(m) == { lba \in DOMAIN m.rows : m.rows[lba] = None }

SessionTypeOK ==
  /\ session \in Sources \cup {None}
  /\ DOMAIN model = {"id", "of", "rows"}
  /\ model.id \in Nat /\ model.of = session
  /\ model.rows \in [MainsOf(session) -> Sources \cup {None}]

SessionInit == session = None /\ model = NoModel

\* What the window copies: SessionSnapshot.
Snapshot == [of |-> session, rows |-> model.rows]

\* Bug variant: the session is set first, the model some time later.
PublishSession(s) == session' = s /\ UNCHANGED model

\* open_source(), once the scan has found an APA MBR: both pointers change
\* under one lock.
Publish(s) == session' = s /\ model' = NewModel(s)

\* reset_enrichment(): the same catalog, every row pending again.
ResetModel ==
  /\ model' = IF session = None THEN model ELSE NewModel(session)
  /\ UNCHANGED session

\* ManagementModel::apply_hdl_result(): a result for an LBA the model has no
\* HDL main at is ignored.
Applied(m, lba, from) ==
  IF lba \in DOMAIN m.rows THEN [m EXCEPT !.rows[lba] = from] ELSE m

\* Bug variant: the result goes into whatever model is there now.
AnyCurrent(id) == TRUE

\* The callback of enrich_hdl() runs for the model it was started for.
StillCurrent(id) == model.id = id
=============================================================================
