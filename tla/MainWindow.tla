----------------------------- MODULE MainWindow -----------------------------
(***************************************************************************)
(* The WinUI window: the UI thread with its dispatcher queue, and the      *)
(* three std::jthreads it starts to discover drives, to open a source and  *)
(* to read HDL metadata.  A thread hands its results to the UI thread as   *)
(* lambdas on the queue, which run in order and only while the UI thread   *)
(* is not inside another handler.  Starting a thread again first stops and *)
(* joins the one before it on the UI thread.                               *)
(*                                                                         *)
(* The session and the model are shared under the controller's mutex; the  *)
(* window shows a copy, and remembers by itself which drive or image it    *)
(* opened, to mount that.                                                  *)
(***************************************************************************)
EXTENDS NativeSession, Sequences

CONSTANTS
  Drives,     \* the sources that are physical drives
  MaxCommands \* bound: commands of the user that start a thread

ASSUME WindowFacts == Drives \subseteq Sources /\ MaxCommands \in Nat

VARIABLES
  shown,         \* snapshot_
  current,       \* current_physical_ or current_image_
  offered,       \* the drives in the selector
  cancelEnabled, \* CancelEnrichmentButton
  state,         \* EnrichmentStateText
  busy,          \* source_busy_
  opener,        \* source_thread_: phase, source, who asked
  reader,        \* enrichment_thread_: phase, model and rows still to report
  scanner,       \* discovery_thread_: phase, user_requested, stop
  queue,         \* the lambdas on the dispatcher queue
  ui,            \* what the UI thread is doing
  commands       \* commands the user has left

viewVars == <<shown, current, offered, cancelEnabled, state>>
threadVars == <<busy, opener, reader, scanner>>
vars == <<sessionVars, viewVars, threadVars, queue, ui, commands>>

Askers == {"user", "auto", "rescan"}
ReaderPhases == {"none", "started", "reading", "posting", "returned", "ended"}
UiStates == {"idle", "joinReader", "joinToReset", "joinScanner", "closing", "gone"}

Finish(source, ok) == [kind |-> "finish", source |-> source, ok |-> ok]
Discovered(drives, user) == [kind |-> "discovered", drives |-> drives, user |-> user]
Progress == [kind |-> "progress"]
Done(cancelled) == [kind |-> "done", cancelled |-> cancelled]

Message ==
  [kind : {"finish"}, source : Sources, ok : BOOLEAN]
    \cup [kind : {"discovered"}, drives : SUBSET Drives, user : BOOLEAN]
    \cup [kind : {"progress"}] \cup [kind : {"done"}, cancelled : BOOLEAN]

OpenerType ==
  [phase : {"none", "opening", "posting"}, source : Sources \cup {None}, by : Askers]
ReaderType ==
  [phase : ReaderPhases, id : Nat, of : Sources \cup {None},
   left : SUBSET Lbas, stop : BOOLEAN]
ScannerType ==
  [phase : {"none", "scanning", "ended"}, user : BOOLEAN, stop : BOOLEAN]

IdleOpener == [phase |-> "none", source |-> None, by |-> "user"]
NoReader == [phase |-> "none", id |-> 0, of |-> None, left |-> {}, stop |-> FALSE]

TypeOK ==
  /\ SessionTypeOK
  /\ shown.of \in Sources \cup {None}
  /\ shown.rows \in [MainsOf(shown.of) -> Sources \cup {None}]
  /\ current \in Sources \cup {None} /\ offered \subseteq Drives
  /\ cancelEnabled \in BOOLEAN /\ state \in {"none", "loading", "ready", "cancelled"}
  /\ busy \in BOOLEAN
  /\ opener \in OpenerType /\ reader \in ReaderType /\ scanner \in ScannerType
  /\ queue \in Seq(Message)
  /\ ui \in UiStates /\ commands \in 0 .. MaxCommands

Post(m) == queue' = Append(queue, m)

Reading == reader.phase \in ReaderPhases \ {"none", "ended"}

(***************************************************************************)
(* Starting a thread, on the UI thread.                                    *)
(***************************************************************************)
\* if (enrichment_thread_.joinable()) enrichment_thread_.request_stop()
StopReader ==
  reader' = IF reader.phase = "none" THEN reader ELSE [reader EXCEPT !.stop = TRUE]

\* open_physical_async(), open_image_async(): one open at a time, and the
\* metadata of the open source is no longer wanted.
OpenAsync(s, by) ==
  IF busy THEN UNCHANGED <<busy, opener, reader>>
  ELSE /\ busy' = TRUE
       /\ opener' = [phase |-> "opening", source |-> s, by |-> by]
       /\ StopReader

\* start_enrichment() after its join: nothing to read, or a new thread.
\* total_hdl is that of the snapshot.
BeginReading(snap) ==
  IF DOMAIN snap.rows = {}
  THEN /\ reader' = NoReader
       /\ cancelEnabled' = FALSE /\ state' = "none"
  ELSE /\ reader' = [NoReader EXCEPT !.phase = "started"]
       /\ cancelEnabled' = TRUE /\ state' = "loading"

\* start_enrichment(): the join is only waited for when there is a thread.
StartEnrichment(snap, joining) ==
  IF reader.phase = "none"
  THEN BeginReading(snap) /\ UNCHANGED ui
  ELSE /\ reader' = [reader EXCEPT !.stop = TRUE]
       /\ ui' = joining
       /\ UNCHANGED <<cancelEnabled, state>>

\* start_discovery() after its join.
BeginScan(user) ==
  /\ scanner' = [phase |-> "scanning", user |-> user, stop |-> FALSE]
  /\ offered' = {}

(***************************************************************************)
(* The commands of the user.  A command that starts a thread uses up one   *)
(* of MaxCommands.                                                         *)
(***************************************************************************)
Command == ui = "idle" /\ commands > 0 /\ commands' = commands - 1

Open ==
  /\ Command
  /\ \E s \in offered \cup (Sources \ Drives) : OpenAsync(s, "user")
  /\ UNCHANGED <<sessionVars, viewVars, scanner, queue, ui>>

Rescan ==
  /\ Command
  /\ IF scanner.phase = "none"
     THEN BeginScan(TRUE) /\ UNCHANGED ui
     ELSE /\ scanner' = [scanner EXCEPT !.stop = TRUE]
          /\ ui' = "joinScanner"
          /\ UNCHANGED offered
  /\ UNCHANGED <<sessionVars, shown, current, cancelEnabled, state,
                 busy, opener, reader, queue>>

RefreshMetadata ==
  /\ Command
  /\ shown.of # None
  /\ IF reader.phase = "none"
     THEN /\ ResetModel
          /\ shown' = [of |-> session, rows |-> model'.rows]
          /\ BeginReading(shown')
          /\ UNCHANGED ui
     ELSE /\ reader' = [reader EXCEPT !.stop = TRUE]
          /\ ui' = "joinToReset"
          /\ UNCHANGED <<sessionVars, shown, cancelEnabled, state>>
  /\ UNCHANGED <<current, offered, busy, opener, scanner, queue>>

CancelEnrichment ==
  /\ ui = "idle" /\ cancelEnabled
  /\ reader.phase # "none"
  /\ reader' = [reader EXCEPT !.stop = TRUE]
  /\ UNCHANGED <<sessionVars, viewVars, busy, opener, scanner, queue, ui, commands>>

\* Once a second while a source is shown.
TelemetryTick ==
  /\ ui = "idle" /\ shown.of # None
  /\ shown' = Snapshot
  /\ UNCHANGED <<sessionVars, current, offered, cancelEnabled, state, threadVars,
                 queue, ui, commands>>

(***************************************************************************)
(* The UI thread comes back from a join.                                   *)
(***************************************************************************)
JoinedReader ==
  /\ ui \in {"joinReader", "joinToReset"}
  /\ reader.phase = "ended"
  /\ ui' = "idle"
  /\ IF ui = "joinToReset"
     THEN ResetModel /\ shown' = [of |-> session, rows |-> model'.rows]
     ELSE UNCHANGED <<sessionVars, shown>>
  /\ BeginReading(shown')
  /\ UNCHANGED <<current, offered, busy, opener, scanner, queue, commands>>

JoinedScanner ==
  /\ ui = "joinScanner"
  /\ scanner.phase = "ended"
  /\ ui' = "idle"
  /\ BeginScan(TRUE)
  /\ UNCHANGED <<sessionVars, shown, current, cancelEnabled, state,
                 busy, opener, reader, queue, commands>>

(***************************************************************************)
(* The UI thread runs the lambda at the head of the queue.                 *)
(***************************************************************************)
Handle(kind) ==
  /\ ui = "idle" /\ queue # <<>> /\ Head(queue).kind = kind
  /\ queue' = Tail(queue)

\* Bug variant: a source that is shown already needs no more.
FinishUnlessShown ==
  /\ Handle("finish")
  /\ busy' = FALSE
  /\ IF Head(queue).ok /\ shown.of # Head(queue).source
     THEN /\ current' = Head(queue).source
          /\ shown' = Snapshot
          /\ StartEnrichment(Snapshot, "joinReader")
     ELSE UNCHANGED <<current, shown, reader, cancelEnabled, state, ui>>
  /\ UNCHANGED <<sessionVars, offered, opener, scanner, commands>>

\* Bug variant: a failed open leaves source_busy_ set.
FinishOfSuccess ==
  /\ Handle("finish")
  /\ IF Head(queue).ok
     THEN /\ busy' = FALSE
          /\ current' = Head(queue).source
          /\ shown' = Snapshot
          /\ StartEnrichment(Snapshot, "joinReader")
     ELSE UNCHANGED <<busy, current, shown, reader, cancelEnabled, state, ui>>
  /\ UNCHANGED <<sessionVars, offered, opener, scanner, commands>>

\* finish_source_open()
HandleFinish ==
  /\ Handle("finish")
  /\ busy' = FALSE
  /\ IF Head(queue).ok
     THEN /\ current' = Head(queue).source
          /\ shown' = Snapshot
          /\ StartEnrichment(Snapshot, "joinReader")
     ELSE UNCHANGED <<current, shown, reader, cancelEnabled, state, ui>>
  /\ UNCHANGED <<sessionVars, offered, opener, scanner, commands>>

\* Bug variant: the one drive is opened whatever is shown.
OpensOnlyDrive(drives, user) == drives # {} /\ \A d, e \in drives : d = e

\* Who handle_discovery() opens its one drive for.  While nothing is shown
\* it does so by itself.
OpensDrive(drives, user) ==
  /\ drives # {} /\ \A d, e \in drives : d = e
  /\ shown.of = None \/ user

HandleDiscovered ==
  /\ Handle("discovered")
  /\ offered' = Head(queue).drives
  /\ IF OpensDrive(offered', Head(queue).user)
     THEN OpenAsync(CHOOSE d \in offered' : TRUE,
                    IF shown.of # None /\ Head(queue).user THEN "rescan" ELSE "auto")
     ELSE UNCHANGED <<busy, opener, reader>>
  /\ UNCHANGED <<sessionVars, shown, current, cancelEnabled, state, scanner, ui, commands>>

HandleProgress ==
  /\ Handle("progress")
  /\ shown' = Snapshot
  /\ UNCHANGED <<sessionVars, current, offered, cancelEnabled, state, threadVars,
                 ui, commands>>

HandleDone ==
  /\ Handle("done")
  /\ shown' = Snapshot
  /\ cancelEnabled' = FALSE
  /\ state' = IF Head(queue).cancelled THEN "cancelled" ELSE "ready"
  /\ UNCHANGED <<sessionVars, current, offered, threadVars, ui, commands>>

(***************************************************************************)
(* The opener thread.  An open fails at a stop, at the device or at the    *)
(* scan; a new session is published before the UI thread hears of it.      *)
(***************************************************************************)
OpenPublishes ==
  /\ opener.phase = "opening"
  /\ Publish(opener.source)
  /\ opener' = [opener EXCEPT !.phase = "posting"]
  /\ UNCHANGED <<viewVars, busy, reader, scanner, queue, ui, commands>>

OpenPosts ==
  /\ opener.phase = "posting"
  /\ Post(Finish(opener.source, TRUE))
  /\ opener' = IdleOpener
  /\ UNCHANGED <<sessionVars, viewVars, busy, reader, scanner, ui, commands>>

OpenFails ==
  /\ opener.phase = "opening"
  /\ Post(Finish(opener.source, FALSE))
  /\ opener' = IdleOpener
  /\ UNCHANGED <<sessionVars, viewVars, busy, reader, scanner, ui, commands>>

Opener == OpenPublishes \/ OpenPosts \/ OpenFails

(***************************************************************************)
(* The enrichment thread: enrich_hdl(), then the closing lambda.  The      *)
(* scheduler below it reports every HDL main once, and may leave some out  *)
(* once it has been asked to stop (CatalogRead).                           *)
(***************************************************************************)
ReaderCaptures ==
  /\ reader.phase = "started"
  /\ reader' = IF session = None THEN [reader EXCEPT !.phase = "returned"]
               ELSE [reader EXCEPT !.phase = "reading", !.id = model.id,
                                   !.of = session, !.left = MainsOf(session)]
  /\ UNCHANGED <<sessionVars, viewVars, busy, opener, scanner, queue, ui, commands>>

ReaderReports ==
  /\ reader.phase = "reading"
  /\ \E lba \in reader.left :
       IF StillCurrent(reader.id)
       THEN /\ model' = Applied(model, lba, reader.of)
            /\ reader' = [reader EXCEPT !.phase = "posting", !.left = @ \ {lba}]
       ELSE /\ reader' = [reader EXCEPT !.left = @ \ {lba}]
            /\ UNCHANGED model
  /\ UNCHANGED <<session, viewVars, busy, opener, scanner, queue, ui, commands>>

\* Bug variant: the lambda is run before the thread goes on.
ReaderSends ==
  /\ ui = "idle"
  /\ reader.phase = "posting"
  /\ Post(Progress)
  /\ reader' = [reader EXCEPT !.phase = "reading"]
  /\ UNCHANGED <<sessionVars, viewVars, busy, opener, scanner, ui, commands>>

ReaderPosts ==
  /\ reader.phase = "posting"
  /\ Post(Progress)
  /\ reader' = [reader EXCEPT !.phase = "reading"]
  /\ UNCHANGED <<sessionVars, viewVars, busy, opener, scanner, ui, commands>>

ReaderReturns ==
  /\ reader.phase = "reading"
  /\ reader.left = {} \/ reader.stop
  /\ reader' = [reader EXCEPT !.phase = "returned"]
  /\ UNCHANGED <<sessionVars, viewVars, busy, opener, scanner, queue, ui, commands>>

\* Bug variant: the end is reported the same with and without a stop.
ReaderEndsWell ==
  /\ reader.phase = "returned"
  /\ Post(Done(FALSE))
  /\ reader' = [reader EXCEPT !.phase = "ended"]
  /\ UNCHANGED <<sessionVars, viewVars, busy, opener, scanner, ui, commands>>

ReaderEnds ==
  /\ reader.phase = "returned"
  /\ Post(Done(reader.stop))
  /\ reader' = [reader EXCEPT !.phase = "ended"]
  /\ UNCHANGED <<sessionVars, viewVars, busy, opener, scanner, ui, commands>>

Reader == ReaderCaptures \/ ReaderReports \/ ReaderPosts \/ ReaderReturns \/ ReaderEnds

(***************************************************************************)
(* The discovery thread looks at the stop only after the discovery.        *)
(***************************************************************************)
Scan ==
  /\ scanner.phase = "scanning"
  /\ scanner' = [scanner EXCEPT !.phase = "ended"]
  /\ IF scanner.stop THEN UNCHANGED queue
     ELSE \E drives \in SUBSET Drives : Post(Discovered(drives, scanner.user))
  /\ UNCHANGED <<sessionVars, viewVars, busy, opener, reader, ui, commands>>

(***************************************************************************)
(* The window goes.  Its lambdas find no window any more; its members are  *)
(* destroyed from the last to the first, so that every thread is joined    *)
(* before the controller.                                                  *)
(***************************************************************************)
Destroy ==
  /\ ui = "idle"
  /\ ui' = "closing"
  /\ StopReader
  /\ scanner' = [scanner EXCEPT !.stop = TRUE]
  /\ UNCHANGED <<sessionVars, viewVars, busy, opener, queue, commands>>

Destroyed ==
  /\ ui = "closing"
  /\ ~Reading /\ opener.phase = "none" /\ scanner.phase # "scanning"
  /\ ui' = "gone"
  /\ UNCHANGED <<sessionVars, viewVars, threadVars, queue, commands>>

(***************************************************************************)
(* The specification.  No handler waits for anything but a join, so a      *)
(* lambda on the queue is run; every thread goes on; the user owes         *)
(* nothing.                                                                *)
(***************************************************************************)
Init ==
  /\ SessionInit
  /\ shown = Snapshot /\ current = None /\ offered = {}
  /\ cancelEnabled = FALSE /\ state = "none"
  /\ busy = FALSE /\ opener = IdleOpener /\ reader = NoReader
  /\ scanner = [phase |-> "scanning", user |-> FALSE, stop |-> FALSE]
  /\ queue = <<>> /\ ui = "idle" /\ commands = MaxCommands

User == Open \/ Rescan \/ RefreshMetadata \/ CancelEnrichment \/ Destroy
Dispatch == HandleFinish \/ HandleDiscovered \/ HandleProgress \/ HandleDone
UiThread == Dispatch \/ JoinedReader \/ JoinedScanner \/ Destroyed

Next == User \/ TelemetryTick \/ UiThread \/ Opener \/ Reader \/ Scan

Spec == Init /\ [][Next]_vars
Fairness == WF_vars(UiThread) /\ WF_vars(Opener) /\ WF_vars(Reader) /\ WF_vars(Scan)
FairSpec == Spec /\ Fairness

(***************************************************************************)
(* Properties.                                                             *)
(***************************************************************************)
\* What a row of the management model shows was read from the source the
\* model is of, although two sources can have a game at the same LBA and an
\* enrichment started for one can still be reporting when the other has been
\* published: stale work does not mutate the new model
\* (docs/rc-hardware-checklist.md:78, the test of model_ in enrich_hdl()).
RowsComeFromTheirSource ==
  \A lba \in DOMAIN model.rows : model.rows[lba] \in {None, session}

\* A discovery that opens its one drive unasked does so while nothing is open
\* (darkness_policy.hpp:9-10), wherever an open the user asked for meanwhile
\* has got to: not started, opening, published, or waiting in the queue.
UnaskedOpenReplacesNothing ==
  opener.phase = "opening" /\ opener.by = "auto" => session = None

\* Nothing is going on that the window has not been told of.
Settled ==
  ui = "idle" /\ queue = <<>> /\ ~busy /\ ~Reading

\* Once everything has settled the window shows the session and the rows the
\* controller has, and what it would mount is that session's source, whatever
\* opens failed, overlapped a discovery or replaced a source whose metadata
\* was being read.
SettledWindowShowsSession ==
  Settled => shown = Snapshot /\ current = session

\* A settled window that says the metadata is ready has no row pending: every
\* result the callback dropped belonged to a model that has been replaced.
ReadyMeansRead ==
  Settled /\ state = "ready" => PendingRows(model) = {}

\* Where in the queue the result of an open is waiting.
Waiting == { i \in DOMAIN queue : queue[i].kind = "finish" }

\* At most one open is under way, from the click until its result has been
\* handled, and source_busy_ says so all along: no second opener can replace
\* the first one's thread, or have its result taken for the other's.
OneOpenAtATime ==
  /\ busy <=> opener.phase # "none" \/ Waiting # {}
  /\ \A i, j \in Waiting : i = j
  /\ Waiting # {} => opener.phase = "none"

\* The UI thread never blocks for good: every join it starts, also those of
\* the destructor, ends.
WindowReturns == ui \notin {"idle", "gone"} ~> ui \in {"idle", "gone"}

\* An open the window has started is answered, unless the window goes first.
OpenIsAnswered == busy ~> (~busy \/ ui \in {"closing", "gone"})

(***************************************************************************)
(* What the documents say and the window does not do.                      *)
(***************************************************************************)
\* "rescan never silently replaces an open source" (docs/testing.md:97).
RescanReplacesNothing ==
  opener.phase = "opening" /\ opener.by = "rescan" => session = None

\* "HDL metadata enrichment stays optional/progressive/cancellable"
\* (docs/release-process.md:63): while an enrichment runs that nobody has
\* stopped, and the window has handled all it was sent, Cancel can be used.
RunningEnrichmentIsCancellable ==
  ui = "idle" /\ queue = <<>> /\ Reading /\ ~reader.stop => cancelEnabled
=============================================================================
