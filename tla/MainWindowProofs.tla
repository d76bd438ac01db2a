-------------------------- MODULE MainWindowProofs --------------------------
(***************************************************************************)
(* Theorems about MainWindow, for any sources, drives and games, and any   *)
(* number of commands.                                                     *)
(*                                                                         *)
(* The inductive invariant adds to the type invariant: an open in flight   *)
(* is one thread or one message on the queue and source_busy_ is set       *)
(* (OneOpenAtATime); a session the window has not shown yet belongs to an  *)
(* open in flight (NewsInv); and an enrichment that still holds the        *)
(* current model was started for the current session (ReaderInv).  What    *)
(* the window shows is the session, unless a thread or the queue has news  *)
(* for it (ShownInv); and a row is pending only while somebody is going to *)
(* read it, or the last word on the reading is that it was cancelled       *)
(* (ReadyInv).                                                             *)
(***************************************************************************)
EXTENDS MainWindow, SequenceTheorems, TLAPS

USE DEF sessionVars, viewVars, threadVars, vars

NewsInv ==
  /\ opener.phase # "none" => opener.source \in Sources
  /\ session # None /\ shown.of = None =>
       \/ opener.phase = "posting"
       \/ \E i \in Waiting : queue[i].ok

ReaderInv ==
  /\ RowsComeFromTheirSource
  /\ reader.id <= model.id
  /\ reader.phase \in {"reading", "posting"} /\ reader.id = model.id => reader.of = session

OpenInv == OneOpenAtATime /\ NewsInv /\ UnaskedOpenReplacesNothing

\* A session is published and its open has not been handled yet.
News == opener.phase = "posting" \/ \E i \in Waiting : queue[i].ok

\* A result is in the rows and its lambda has not been handled yet.
RowNews == reader.phase = "posting" \/ \E i \in DOMAIN queue : queue[i].kind = "progress"

ShownInv ==
  /\ opener.phase = "posting" => opener.source = session
  /\ \A i \in Waiting : queue[i].ok => queue[i].source = session
  /\ current = session \/ News
  /\ shown = Snapshot \/ News \/ RowNews

\* Where in the queue an enrichment reports its end, and what the state text
\* will say when the last of them has been handled.
Ends == { i \in DOMAIN queue : queue[i].kind = "done" }
EndsCancelled ==
  \/ Ends = {} /\ state # "ready"
  \/ \E i \in Ends : queue[i].cancelled /\ \A j \in Ends : j <= i

\* The rows are going to be read by the thread there is, unless it was stopped.
BeingRead ==
  \/ reader.phase = "started"
  \/ /\ reader.phase \in {"reading", "posting"}
     /\ reader.id = model.id /\ PendingRows(model) \subseteq reader.left
  \/ Reading /\ reader.stop

\* The window starts another enrichment before it settles, or never settles.
Overtaken == News \/ ui \in {"joinReader", "joinToReset", "closing", "gone"}

ReadyInv ==
  /\ ui = "joinReader" => ~busy /\ shown.of = session
  /\ reader.phase \in {"reading", "posting"} => session # None
  /\ PendingRows(model) # {} =>
       Overtaken \/ BeingRead \/ (~Reading /\ EndsCancelled)

IInv == TypeOK /\ OpenInv /\ ReaderInv /\ ShownInv /\ ReadyInv

(***************************************************************************)
(* Lemmas about the operators.                                             *)
(***************************************************************************)

\* What the four kinds of lambdas carry.
LEMMA MessageFields ==
  ASSUME NEW m \in Message
  PROVE  /\ m.kind \in {"finish", "discovered", "progress", "done"}
         /\ m.kind = "finish" => m.source \in Sources /\ m.ok \in BOOLEAN
         /\ m.kind = "discovered" => m.drives \in SUBSET Drives /\ m.user \in BOOLEAN
         /\ m.kind = "done" => m.cancelled \in BOOLEAN
BY DEF Message

\* What the threads put on the queue are such lambdas.
LEMMA Messages ==
  /\ \A s \in Sources, ok \in BOOLEAN : Finish(s, ok) \in Message
  /\ \A d \in SUBSET Drives, u \in BOOLEAN : Discovered(d, u) \in Message
  /\ Progress \in Message
  /\ \A c \in BOOLEAN : Done(c) \in Message
<1>1. ASSUME NEW s \in Sources, NEW ok \in BOOLEAN PROVE Finish(s, ok) \in Message
  BY DEF Finish, Message
<1>2. ASSUME NEW d \in SUBSET Drives, NEW u \in BOOLEAN PROVE Discovered(d, u) \in Message
  BY DEF Discovered, Message
<1>3. Progress \in Message
  BY DEF Progress, Message
<1>4. ASSUME NEW c \in BOOLEAN PROVE Done(c) \in Message
  BY DEF Done, Message
<1> QED BY <1>1, <1>2, <1>3, <1>4

\* A lambda posted at the end waits there, behind the ones that waited before.
LEMMA Posted ==
  ASSUME TypeOK, NEW m \in Message, Post(m)
  PROVE  /\ queue' \in Seq(Message)
         /\ \A i \in Waiting : i \in Waiting' /\ queue'[i] = queue[i]
         /\ Waiting' = Waiting \cup (IF m.kind = "finish" THEN {Len(queue) + 1} ELSE {})
         /\ queue'[Len(queue) + 1] = m
         /\ Waiting \subseteq 1 .. Len(queue)
<1>1. queue \in Seq(Message)
  BY DEF TypeOK
<1>2. /\ queue' \in Seq(Message)
      /\ Len(queue') = Len(queue) + 1
      /\ \A i \in 1 .. Len(queue) : queue'[i] = queue[i]
      /\ queue'[Len(queue) + 1] = m
  BY <1>1, AppendProperties DEF Post
<1>3. DOMAIN queue = 1 .. Len(queue) /\ DOMAIN queue' = 1 .. Len(queue') /\ Len(queue) \in Nat
  BY <1>1, <1>2, LenProperties
<1>4. 1 .. Len(queue') = (1 .. Len(queue)) \cup {Len(queue) + 1}
  BY <1>2, <1>3
<1>5. Waiting \subseteq 1 .. Len(queue)
  BY <1>3 DEF Waiting
<1>6. Waiting' = { i \in DOMAIN queue' : queue'[i].kind = "finish" }
  BY DEF Waiting
<1>7. \A i \in Waiting : i \in Waiting' /\ queue'[i] = queue[i]
  BY <1>2, <1>3, <1>4, <1>6 DEF Waiting
<1>8. Waiting' = Waiting \cup (IF m.kind = "finish" THEN {Len(queue) + 1} ELSE {})
  BY <1>2, <1>3, <1>4, <1>6 DEF Waiting
<1> QED BY <1>2, <1>5, <1>7, <1>8

\* Taking the lambda at the head moves every other one place forward.
LEMMA Taken ==
  ASSUME TypeOK, NEW kind, Handle(kind)
  PROVE  /\ Head(queue) \in Message /\ Head(queue).kind = kind
         /\ queue' \in Seq(Message)
         /\ \A i \in Waiting' : i + 1 \in Waiting /\ queue'[i] = queue[i + 1]
         /\ \A i \in Waiting : i = 1 \/ (i - 1 \in Waiting' /\ queue'[i - 1] = queue[i])
         /\ Waiting \subseteq Nat /\ Waiting' \subseteq Nat \ {0}
         /\ kind = "finish" <=> 1 \in Waiting
         /\ queue[1] = Head(queue)
<1>1. queue \in Seq(Message) /\ queue # <<>> /\ queue' = Tail(queue)
  BY DEF TypeOK, Handle
<1>2. /\ Head(queue) \in Message
      /\ queue' \in Seq(Message)
      /\ Len(queue') = Len(queue) - 1
      /\ \A i \in 1 .. Len(queue') : queue'[i] = queue[i + 1]
  BY <1>1, HeadTailProperties
<1>3. DOMAIN queue = 1 .. Len(queue) /\ DOMAIN queue' = 1 .. Len(queue') /\ Len(queue) \in Nat \ {0}
  BY <1>1, <1>2, LenProperties, EmptySeq
<1>4. Head(queue) = queue[1]
  BY <1>1
<1>5. Waiting' = { i \in DOMAIN queue' : queue'[i].kind = "finish" }
  BY DEF Waiting
<1>6. \A i \in Waiting' : i + 1 \in Waiting /\ queue'[i] = queue[i + 1]
  BY <1>2, <1>3, <1>5 DEF Waiting
<1>7. \A i \in Waiting : i = 1 \/ (i - 1 \in Waiting' /\ queue'[i - 1] = queue[i])
  <2> SUFFICES ASSUME NEW i \in Waiting, i # 1
               PROVE  i - 1 \in Waiting' /\ queue'[i - 1] = queue[i]
    OBVIOUS
  <2>1. i \in 2 .. Len(queue) /\ queue[i].kind = "finish"
    BY <1>3 DEF Waiting
  <2>2. i - 1 \in 1 .. Len(queue') /\ (i - 1) + 1 = i
    BY <1>2, <1>3, <2>1
  <2>3. queue'[i - 1] = queue[i]
    BY <1>2, <2>2
  <2> QED BY <1>3, <1>5, <2>1, <2>2, <2>3
<1>8. Waiting \subseteq Nat /\ Waiting' \subseteq Nat \ {0}
  BY <1>2, <1>3, <1>5 DEF Waiting
<1>9. Head(queue).kind = kind /\ (kind = "finish" <=> 1 \in Waiting)
  BY <1>3, <1>4 DEF Handle, Waiting
<1> QED BY <1>2, <1>4, <1>6, <1>7, <1>8, <1>9

\* Asking the enrichment to stop changes nothing else about it.
LEMMA Stopped ==
  ASSUME TypeOK, \/ StopReader \/ UNCHANGED reader
                 \/ reader' = [reader EXCEPT !.stop = TRUE]
  PROVE  /\ reader' \in ReaderType
         /\ reader'.phase = reader.phase /\ reader'.id = reader.id /\ reader'.of = reader.of
BY DEF TypeOK, ReaderType, StopReader

\* A reader that moves on or has less left to report is still one.
LEMMA Narrowed ==
  ASSUME NEW r \in ReaderType, NEW p \in ReaderPhases, NEW left \in SUBSET Lbas
  PROVE  /\ [r EXCEPT !.left = left] \in ReaderType
         /\ [r EXCEPT !.phase = p, !.left = left] \in ReaderType
BY DEF ReaderType

\* A new thread, or none, holds no model.
LEMMA Begun ==
  ASSUME NEW snap, BeginReading(snap)
  PROVE  /\ reader' \in ReaderType
         /\ reader'.phase \in {"none", "started"} /\ reader'.id = 0
         /\ cancelEnabled' \in BOOLEAN /\ state' \in {"none", "loading", "ready", "cancelled"}
<1>1. NoReader \in ReaderType /\ NoReader.phase = "none" /\ NoReader.id = 0
  BY DEF NoReader, ReaderType, ReaderPhases
<1>2. CASE reader' = NoReader /\ cancelEnabled' = FALSE /\ state' = "none"
  BY <1>1, <1>2
<1>3. CASE /\ reader' = [NoReader EXCEPT !.phase = "started"]
           /\ cancelEnabled' = TRUE /\ state' = "loading"
  BY <1>1, <1>3 DEF ReaderType, ReaderPhases
<1> QED BY <1>2, <1>3 DEF BeginReading

\* What the window copies has the type of a copy.
LEMMA SnapshotType ==
  ASSUME SessionTypeOK
  PROVE  /\ Snapshot.of = session /\ Snapshot.of \in Sources \cup {None}
         /\ Snapshot.rows \in [MainsOf(Snapshot.of) -> Sources \cup {None}]
BY DEF SessionTypeOK, Snapshot

\* A new model is one of its source, with every row pending.
LEMMA NewModelFacts ==
  ASSUME SessionTypeOK, NEW s \in Sources
  PROVE  /\ DOMAIN NewModel(s) = {"id", "of", "rows"}
         /\ NewModel(s).id \in Nat /\ NewModel(s).id > model.id
         /\ NewModel(s).of = s
         /\ NewModel(s).rows \in [MainsOf(s) -> Sources \cup {None}]
         /\ \A lba \in DOMAIN NewModel(s).rows : NewModel(s).rows[lba] = None
BY DEF SessionTypeOK, NewModel

(***************************************************************************)
(* Type correctness, one action at a time.                                 *)
(***************************************************************************)

\* Publishing a session and resetting the model keep them in step.
LEMMA SessionTypeStep ==
  ASSUME SessionTypeOK, \/ \E s \in Sources : Publish(s)
                        \/ ResetModel
                        \/ UNCHANGED sessionVars
  PROVE  SessionTypeOK' /\ model'.id >= model.id /\ (session # None => session' # None)
<1>1. CASE \E s \in Sources : Publish(s)
  BY <1>1, NewModelFacts, SourceFacts DEF Publish, SessionTypeOK
<1>2. CASE ResetModel
  BY <1>2, NewModelFacts DEF ResetModel, SessionTypeOK
<1>3. CASE UNCHANGED sessionVars
  BY <1>3 DEF SessionTypeOK, MainsOf
<1> QED BY <1>1, <1>2, <1>3

\* A handler that goes on to start_enrichment() leaves the types alone.
LEMMA StartType ==
  ASSUME TypeOK, NEW snap, NEW joining \in UiStates, StartEnrichment(snap, joining)
  PROVE  /\ reader' \in ReaderType /\ ui' \in UiStates
         /\ cancelEnabled' \in BOOLEAN /\ state' \in {"none", "loading", "ready", "cancelled"}
BY Begun, Stopped DEF StartEnrichment, TypeOK


\* The drives discovery finds, and those offered, can be opened.
LEMMA OpenAsyncType ==
  ASSUME TypeOK, NEW s \in Sources, NEW by \in Askers, OpenAsync(s, by)
  PROVE  busy' \in BOOLEAN /\ opener' \in OpenerType /\ reader' \in ReaderType
<1>1. CASE busy
  BY <1>1 DEF OpenAsync, TypeOK
<1>2. CASE ~busy
  BY <1>2, Stopped DEF OpenAsync, OpenerType, TypeOK
<1> QED BY <1>1, <1>2

\* The lambda of a result opens nothing but a drive.
LEMMA OnlyDrive ==
  ASSUME NEW drives \in SUBSET Drives, NEW user, OpensDrive(drives, user)
  PROVE  (CHOOSE d \in drives : TRUE) \in Sources
BY WindowFacts DEF OpensDrive

\* No step of any thread leaves the types.
LEMMA TypeStep ==
  ASSUME TypeOK, NewsInv, [Next]_vars
  PROVE  TypeOK'
<1> USE DEF TypeOK
<1>1. CASE Open
  <2>1. offered \cup (Sources \ Drives) \subseteq Sources
    BY WindowFacts
  <2>2. busy' \in BOOLEAN /\ opener' \in OpenerType /\ reader' \in ReaderType
    BY <1>1, <2>1, OpenAsyncType DEF Open, Askers
  <2> QED BY <1>1, <2>2, SessionTypeStep, WindowFacts DEF Open, Command, MainsOf
<1>2. CASE Rescan
  <2>1. scanner' \in ScannerType /\ offered' \subseteq Drives /\ ui' \in UiStates
    <3>1. CASE scanner.phase = "none"
      <4>1. BeginScan(TRUE) /\ ui' = ui
        BY <1>2, <3>1 DEF Rescan
      <4>2. scanner' \in ScannerType
        BY <4>1 DEF BeginScan, ScannerType
      <4> QED BY <4>1, <4>2 DEF BeginScan
    <3>2. CASE scanner.phase # "none"
      <4>1. scanner' \in ScannerType
        BY <1>2, <3>2 DEF Rescan, ScannerType
      <4> QED BY <1>2, <3>2, <4>1 DEF Rescan, UiStates
    <3> QED BY <3>1, <3>2
  <2> QED BY <1>2, <2>1, SessionTypeStep, WindowFacts DEF Rescan, Command, MainsOf
<1>3. CASE RefreshMetadata
  <2>1. SessionTypeOK' /\ commands' \in 0 .. MaxCommands
    BY <1>3, SessionTypeStep, WindowFacts DEF RefreshMetadata, Command
  <2>2. CASE reader.phase = "none"
    <3>1. /\ shown'.of \in Sources \cup {None}
          /\ shown'.rows \in [MainsOf(shown'.of) -> Sources \cup {None}]
      <4>1. session' = session /\ shown' = [of |-> session, rows |-> model'.rows]
        BY <1>3, <2>2 DEF RefreshMetadata, ResetModel
      <4> QED BY <2>1, <4>1 DEF SessionTypeOK
    <3>2. /\ reader' \in ReaderType /\ cancelEnabled' \in BOOLEAN
          /\ state' \in {"none", "loading", "ready", "cancelled"}
      <4>1. PICK snap : BeginReading(snap)
        BY <1>3, <2>2 DEF RefreshMetadata
      <4> QED BY <4>1, Begun
    <3> QED BY <1>3, <2>1, <2>2, <3>1, <3>2 DEF RefreshMetadata
  <2>3. CASE reader.phase # "none"
    BY <1>3, <2>1, <2>3, Stopped DEF RefreshMetadata, UiStates, MainsOf
  <2> QED BY <2>2, <2>3
<1>4. CASE CancelEnrichment
  BY <1>4, Stopped, SessionTypeStep DEF CancelEnrichment, MainsOf
<1>5. CASE Destroy
  <2>1. scanner' \in ScannerType
    BY <1>5 DEF Destroy, ScannerType
  <2> QED BY <1>5, <2>1, Stopped, SessionTypeStep DEF Destroy, MainsOf, UiStates
<1>6. CASE TelemetryTick \/ HandleProgress \/ HandleDone
  <2>1. /\ shown'.of \in Sources \cup {None}
        /\ shown'.rows \in [MainsOf(shown'.of) -> Sources \cup {None}]
    BY <1>6, SnapshotType DEF TelemetryTick, HandleProgress, HandleDone
  <2>2. CASE TelemetryTick
    BY <2>1, <2>2, SessionTypeStep DEF TelemetryTick
  <2>3. CASE HandleProgress
    BY <2>1, <2>3, SessionTypeStep, Taken DEF HandleProgress
  <2>4. CASE HandleDone
    BY <2>1, <2>4, SessionTypeStep, Taken DEF HandleDone
  <2> QED BY <1>6, <2>2, <2>3, <2>4
<1>7. CASE JoinedReader
  <2>1. SessionTypeOK'
    BY <1>7, SessionTypeStep DEF JoinedReader
  <2>2. /\ shown'.of \in Sources \cup {None}
        /\ shown'.rows \in [MainsOf(shown'.of) -> Sources \cup {None}]
    <3>1. CASE ui = "joinToReset"
      <4>1. session' = session /\ shown' = [of |-> session, rows |-> model'.rows]
        BY <1>7, <3>1 DEF JoinedReader, ResetModel
      <4> QED BY <2>1, <4>1 DEF SessionTypeOK
    <3>2. CASE ui # "joinToReset"
      BY <1>7, <3>2 DEF JoinedReader
    <3> QED BY <3>1, <3>2
  <2>3. /\ reader' \in ReaderType /\ cancelEnabled' \in BOOLEAN
        /\ state' \in {"none", "loading", "ready", "cancelled"}
    <3>1. PICK snap : BeginReading(snap)
      BY <1>7 DEF JoinedReader
    <3> QED BY <3>1, Begun
  <2> QED BY <1>7, <2>1, <2>2, <2>3 DEF JoinedReader, UiStates
<1>8. CASE JoinedScanner
  <2>1. scanner' \in ScannerType /\ offered' \subseteq Drives /\ ui' \in UiStates
    BY <1>8 DEF JoinedScanner, BeginScan, ScannerType, UiStates
  <2> QED BY <1>8, <2>1, SessionTypeStep DEF JoinedScanner, MainsOf
<1>9. CASE HandleFinish
  <2>1. Head(queue).source \in Sources /\ queue' \in Seq(Message)
    BY <1>9, Taken, MessageFields DEF HandleFinish
  <2>2. /\ shown'.of \in Sources \cup {None}
        /\ shown'.rows \in [MainsOf(shown'.of) -> Sources \cup {None}]
    BY <1>9, SnapshotType DEF HandleFinish
  <2>3. /\ reader' \in ReaderType /\ cancelEnabled' \in BOOLEAN /\ ui' \in UiStates
        /\ state' \in {"none", "loading", "ready", "cancelled"}
    <3>1. CASE Head(queue).ok
      <4>1. StartEnrichment(Snapshot, "joinReader") /\ "joinReader" \in UiStates
        BY <1>9, <3>1 DEF HandleFinish, UiStates
      <4> QED BY <4>1, StartType
    <3>2. CASE ~Head(queue).ok
      BY <1>9, <3>2 DEF HandleFinish
    <3> QED BY <3>1, <3>2
  <2> QED BY <1>9, <2>1, <2>2, <2>3, SessionTypeStep DEF HandleFinish
<1>10. CASE HandleDiscovered
  <2>1. offered' \in SUBSET Drives /\ queue' \in Seq(Message)
    BY <1>10, Taken, MessageFields DEF HandleDiscovered
  <2>2. busy' \in BOOLEAN /\ opener' \in OpenerType /\ reader' \in ReaderType
    <3>1. CASE OpensDrive(offered', Head(queue).user)
      <4>1. PICK by \in Askers : OpenAsync(CHOOSE d \in offered' : TRUE, by)
        BY <1>10, <3>1 DEF HandleDiscovered, Askers
      <4>2. (CHOOSE d \in offered' : TRUE) \in Sources
        BY <2>1, <3>1, OnlyDrive
      <4> QED BY <4>1, <4>2, OpenAsyncType
    <3>2. CASE ~OpensDrive(offered', Head(queue).user)
      BY <1>10, <3>2 DEF HandleDiscovered
    <3> QED BY <3>1, <3>2
  <2> QED BY <1>10, <2>1, <2>2, SessionTypeStep DEF HandleDiscovered, MainsOf
<1>11. CASE OpenPublishes
  <2>1. opener.source \in Sources /\ opener' \in OpenerType
    BY <1>11 DEF OpenPublishes, NewsInv, OpenerType
  <2> QED BY <1>11, <2>1, SessionTypeStep DEF OpenPublishes, MainsOf
<1>12. CASE OpenPosts \/ OpenFails
  <2>1. opener.source \in Sources
    BY <1>12 DEF OpenPosts, OpenFails, NewsInv
  <2>2. PICK ok \in BOOLEAN : Post(Finish(opener.source, ok))
    BY <1>12 DEF OpenPosts, OpenFails
  <2>3. queue' \in Seq(Message)
    BY <2>1, <2>2, Messages, Posted
  <2>4. opener' \in OpenerType
    <3>1. IdleOpener \in OpenerType
      BY DEF IdleOpener, OpenerType, Askers
    <3> QED BY <1>12, <3>1 DEF OpenPosts, OpenFails
  <2> QED BY <1>12, <2>3, <2>4, SessionTypeStep DEF OpenPosts, OpenFails, MainsOf
<1>13. CASE ReaderCaptures
  <2>1. MainsOf(session) \in SUBSET Lbas
    BY SourceFacts DEF MainsOf, SessionTypeOK
  <2>2. reader' \in ReaderType
    BY <1>13, <2>1 DEF ReaderCaptures, ReaderType, ReaderPhases, SessionTypeOK
  <2> QED BY <1>13, <2>2, SessionTypeStep DEF ReaderCaptures, MainsOf
<1>14. CASE ReaderReports
  <2>1. reader' \in ReaderType
    <3>1. PICK lba \in reader.left :
            \/ reader' = [reader EXCEPT !.phase = "posting", !.left = reader.left \ {lba}]
            \/ reader' = [reader EXCEPT !.left = reader.left \ {lba}]
      BY <1>14 DEF ReaderReports
    <3>2. reader.left \ {lba} \in SUBSET Lbas /\ "posting" \in ReaderPhases
      BY DEF ReaderType, ReaderPhases
    <3>3. /\ [reader EXCEPT !.left = reader.left \ {lba}] \in ReaderType
          /\ [reader EXCEPT !.phase = "posting", !.left = reader.left \ {lba}] \in ReaderType
      <4>1. reader \in ReaderType
        OBVIOUS
      <4> QED BY <3>2, <4>1, Narrowed
    <3> QED BY <3>1, <3>3
  <2>2. SessionTypeOK'
    BY <1>14 DEF ReaderReports, Applied, SessionTypeOK, ReaderType
  <2> QED BY <1>14, <2>1, <2>2 DEF ReaderReports, MainsOf
<1>15. CASE ReaderPosts \/ ReaderReturns \/ ReaderEnds
  <2>1. reader' \in ReaderType
    BY <1>15 DEF ReaderPosts, ReaderReturns, ReaderEnds, ReaderType, ReaderPhases
  <2>2. queue' \in Seq(Message)
    BY <1>15, Messages, Posted DEF ReaderPosts, ReaderReturns, ReaderEnds, ReaderType
  <2> QED BY <1>15, <2>1, <2>2, SessionTypeStep DEF ReaderPosts, ReaderReturns, ReaderEnds, MainsOf
<1>16. CASE Scan
  <2>1. scanner' \in ScannerType
    BY <1>16 DEF Scan, ScannerType
  <2>2. queue' \in Seq(Message)
    BY <1>16, Messages, Posted DEF Scan, ScannerType
  <2> QED BY <1>16, <2>1, <2>2, SessionTypeStep DEF Scan, MainsOf
<1>17. CASE Destroyed
  BY <1>17, SessionTypeStep DEF Destroyed, MainsOf, UiStates
<1>18. CASE UNCHANGED vars
  BY <1>18, SessionTypeStep DEF MainsOf
<1> QED BY <1>1, <1>2, <1>3, <1>4, <1>5, <1>6, <1>7, <1>8, <1>9, <1>10, <1>11, <1>12,
           <1>13, <1>14, <1>15, <1>16, <1>17, <1>18
        DEF Next, User, UiThread, Dispatch, Opener, Reader
(***************************************************************************)
(* At most one open, and what the window has not heard of yet.             *)
(***************************************************************************)
\* The window catches up with the session, or does not look.
Looks == shown' = shown \/ shown'.of = session

\* Nothing of the invariant changes when no open moves.
LEMMA QuietStep ==
  ASSUME TypeOK, OpenInv, UNCHANGED <<session, busy, opener>>, Looks,
         Waiting' = Waiting, \A i \in Waiting : queue'[i] = queue[i]
  PROVE  OpenInv'
BY DEF OpenInv, OneOpenAtATime, NewsInv, UnaskedOpenReplacesNothing, Looks

\* A lambda that is not the result of an open changes nothing of it either.
LEMMA PostStep ==
  ASSUME TypeOK, OpenInv, UNCHANGED <<session, busy, opener, shown>>,
         NEW m \in Message, m.kind # "finish", Post(m)
  PROVE  OpenInv'
BY Posted, QuietStep DEF Looks

\* Handling such a lambda moves a waiting result one place forward.
LEMMA HandleStep ==
  ASSUME TypeOK, OpenInv, NEW kind, kind # "finish", Handle(kind),
         UNCHANGED <<session, busy, opener>>, Looks
  PROVE  OpenInv'
<1>1. /\ \A i \in Waiting' : i + 1 \in Waiting /\ queue'[i] = queue[i + 1]
      /\ \A i \in Waiting : i - 1 \in Waiting' /\ queue'[i - 1] = queue[i]
      /\ Waiting \subseteq Nat /\ Waiting' \subseteq Nat
  BY Taken
<1>2. OneOpenAtATime'
  <2>1. Waiting' = {} <=> Waiting = {}
    BY <1>1
  <2>2. ASSUME NEW i \in Waiting', NEW j \in Waiting' PROVE i = j
    <3>1. i + 1 = j + 1
      BY <1>1 DEF OpenInv, OneOpenAtATime
    <3> QED BY <1>1, <3>1
  <2> QED BY <2>1, <2>2 DEF OpenInv, OneOpenAtATime
<1>3. NewsInv'
  BY <1>1 DEF OpenInv, NewsInv, Looks
<1> QED BY <1>2, <1>3 DEF OpenInv, UnaskedOpenReplacesNothing

\* An open starts when there is none: then the window has seen the session.
LEMMA OpenAsyncStep ==
  ASSUME TypeOK, OpenInv, NEW s \in Sources, NEW by, OpenAsync(s, by), UNCHANGED <<session, shown>>,
         by = "auto" => shown.of = None,
         Waiting = {} => Waiting' = {}, busy => OpenInv'
  PROVE  OpenInv'
<1> SUFFICES ASSUME ~busy PROVE OpenInv'
  OBVIOUS
<1>1. opener.phase = "none" /\ Waiting = {} /\ Waiting' = {}
  BY DEF OpenInv, OneOpenAtATime
<1>2. session = None \/ shown.of # None
  BY <1>1 DEF OpenInv, NewsInv
<1>3. busy' = TRUE /\ opener' = [phase |-> "opening", source |-> s, by |-> by]
  BY DEF OpenAsync
<1>4. OneOpenAtATime'
  BY <1>1, <1>3 DEF OneOpenAtATime
<1> QED BY <1>2, <1>3, <1>4 DEF OpenInv, NewsInv, UnaskedOpenReplacesNothing

\* Every step keeps the opens in order.
LEMMA OpenStep ==
  ASSUME TypeOK, OpenInv, [Next]_vars
  PROVE  OpenInv'
<1>1. CASE Open
  <2>1. PICK s \in Sources : OpenAsync(s, "user")
    BY <1>1, WindowFacts DEF Open, TypeOK
  <2>2. UNCHANGED <<session, shown, queue>> /\ Waiting' = Waiting
    BY <1>1 DEF Open, Waiting
  <2>3. busy => OpenInv'
    BY <2>1, <2>2, QuietStep DEF OpenAsync, Looks
  <2> QED BY <2>1, <2>2, <2>3, OpenAsyncStep
<1>2. CASE Rescan \/ CancelEnrichment \/ Destroy \/ JoinedScanner \/ Destroyed
             \/ ReaderCaptures \/ ReaderReports \/ ReaderReturns \/ UNCHANGED vars
  <2>1. UNCHANGED <<session, busy, opener, shown, queue>>
    BY <1>2 DEF Rescan, CancelEnrichment, Destroy, JoinedScanner, Destroyed,
                ReaderCaptures, ReaderReports, ReaderReturns
  <2> QED BY <2>1, QuietStep DEF Looks, Waiting
<1>3. CASE RefreshMetadata \/ TelemetryTick \/ JoinedReader
  <2>1. UNCHANGED <<session, busy, opener, queue>> /\ Looks
    BY <1>3 DEF RefreshMetadata, TelemetryTick, JoinedReader, Looks, ResetModel, Snapshot
  <2> QED BY <2>1, QuietStep DEF Waiting
<1>4. CASE ReaderPosts \/ ReaderEnds
  <2>1. PICK m \in Message : m.kind # "finish" /\ Post(m)
    BY <1>4, Messages DEF ReaderPosts, ReaderEnds, Progress, Done, TypeOK, ReaderType
  <2> QED BY <1>4, <2>1, PostStep DEF ReaderPosts, ReaderEnds
<1>5. CASE Scan
  <2>1. CASE scanner.stop
    BY <1>5, <2>1, QuietStep DEF Scan, Looks, Waiting
  <2>2. CASE ~scanner.stop
    <3>1. PICK m \in Message : m.kind # "finish" /\ Post(m)
      BY <1>5, <2>2, Messages DEF Scan, Discovered, TypeOK, ScannerType
    <3> QED BY <1>5, <3>1, PostStep DEF Scan
  <2> QED BY <2>1, <2>2
<1>6. CASE HandleProgress \/ HandleDone
  <2>1. UNCHANGED <<session, busy, opener>> /\ Looks
    BY <1>6 DEF HandleProgress, HandleDone, Looks, Snapshot
  <2> QED BY <1>6, <2>1, HandleStep DEF HandleProgress, HandleDone
<1>7. CASE HandleDiscovered
  <2>1. Handle("discovered") /\ UNCHANGED <<session, shown>> /\ Looks
        /\ offered' \in SUBSET Drives
    BY <1>7, Taken, MessageFields DEF HandleDiscovered, Looks
  <2>2. CASE ~OpensDrive(offered', Head(queue).user)
    BY <1>7, <2>1, <2>2, HandleStep DEF HandleDiscovered
  <2>3. CASE OpensDrive(offered', Head(queue).user)
    <3>1. PICK by : /\ OpenAsync(CHOOSE d \in offered' : TRUE, by)
                    /\ by = IF shown.of # None /\ Head(queue).user THEN "rescan" ELSE "auto"
      BY <1>7, <2>3 DEF HandleDiscovered
    <3>2. (CHOOSE d \in offered' : TRUE) \in Sources
      BY <2>1, <2>3, OnlyDrive
    <3>3. by = "auto" => shown.of = None
      BY <2>3, <3>1 DEF OpensDrive
    <3>4. busy => OpenInv'
      BY <2>1, <3>1, HandleStep DEF OpenAsync
    <3>5. Waiting = {} => Waiting' = {}
      BY <2>1, Taken
    <3> QED BY <2>1, <3>1, <3>2, <3>3, <3>4, <3>5, OpenAsyncStep
  <2> QED BY <2>2, <2>3
<1>8. CASE OpenPublishes
  <2>1. /\ opener.phase = "opening" /\ opener' = [opener EXCEPT !.phase = "posting"]
        /\ session' = opener.source /\ UNCHANGED <<busy, shown, queue>> /\ Waiting' = Waiting
    BY <1>8 DEF OpenPublishes, Publish, Waiting
  <2>2. opener'.phase = "posting" /\ opener'.source = opener.source
    BY <2>1 DEF TypeOK, OpenerType
  <2> QED BY <2>1, <2>2 DEF OpenInv, OneOpenAtATime, NewsInv, UnaskedOpenReplacesNothing
<1>9. CASE OpenPosts \/ OpenFails
  <2>1. /\ opener.phase # "none" /\ opener' = IdleOpener /\ UNCHANGED <<session, busy, shown>>
        /\ opener.source \in Sources /\ opener'.phase = "none"
    <3>1. IdleOpener.phase = "none"
      BY DEF IdleOpener
    <3> QED BY <1>9, <3>1 DEF OpenPosts, OpenFails, OpenInv, NewsInv
  <2>2. Waiting = {} /\ busy
    BY <2>1 DEF OpenInv, OneOpenAtATime
  <2>3. PICK ok \in BOOLEAN : Post(Finish(opener.source, ok)) /\ (opener.phase = "posting" => ok)
    BY <1>9 DEF OpenPosts, OpenFails
  <2>4. Finish(opener.source, ok) \in Message /\ Finish(opener.source, ok).kind = "finish"
        /\ Finish(opener.source, ok).ok = ok
    BY <2>1, Messages DEF Finish
  <2>5. Waiting' = {Len(queue) + 1} /\ queue'[Len(queue) + 1].ok = ok
    BY <2>2, <2>3, <2>4, Posted
  <2>6. OneOpenAtATime'
    BY <2>1, <2>2, <2>5 DEF OneOpenAtATime
  <2>7. NewsInv'
    BY <2>1, <2>2, <2>3, <2>5 DEF OpenInv, NewsInv
  <2> QED BY <2>1, <2>6, <2>7 DEF OpenInv, UnaskedOpenReplacesNothing
<1>10. CASE HandleFinish
  <2>1. /\ Handle("finish") /\ busy' = FALSE /\ UNCHANGED <<session, opener>>
        /\ IF Head(queue).ok THEN shown' = Snapshot ELSE shown' = shown
    BY <1>10 DEF HandleFinish
  <2>2. Waiting = {1} /\ Waiting' = {} /\ opener.phase = "none" /\ queue[1] = Head(queue)
    BY <2>1, Taken DEF OpenInv, OneOpenAtATime
  <2>3. OneOpenAtATime'
    BY <2>1, <2>2 DEF OneOpenAtATime
  <2>4. NewsInv'
    BY <2>1, <2>2 DEF OpenInv, NewsInv, Snapshot
  <2> QED BY <2>1, <2>2, <2>3, <2>4 DEF OpenInv, UnaskedOpenReplacesNothing
<1> QED BY <1>1, <1>2, <1>3, <1>4, <1>5, <1>6, <1>7, <1>8, <1>9, <1>10
        DEF Next, User, UiThread, Dispatch, Opener, Reader
(***************************************************************************)
(* Whose results the rows hold.                                            *)
(***************************************************************************)

\* Every step keeps the rows to the results of their own source.
LEMMA ReaderStep ==
  ASSUME TypeOK, NewsInv, ReaderInv, [Next]_vars
  PROVE  ReaderInv'
<1> USE DEF ReaderInv
<1>1. CASE OpenPublishes
  <2>1. opener.source \in Sources /\ session' = opener.source
        /\ model' = NewModel(opener.source) /\ reader' = reader
    BY <1>1 DEF OpenPublishes, Publish, NewsInv
  <2>2. reader.id < model'.id
    BY <2>1, NewModelFacts DEF TypeOK, ReaderType, SessionTypeOK
  <2> QED BY <2>1, <2>2, NewModelFacts DEF RowsComeFromTheirSource, TypeOK, ReaderType, SessionTypeOK
<1>2. CASE ReaderReports
  <2>1. PICK lba \in reader.left :
          IF StillCurrent(reader.id)
          THEN /\ model' = Applied(model, lba, reader.of)
               /\ reader' = [reader EXCEPT !.phase = "posting", !.left = @ \ {lba}]
          ELSE reader' = [reader EXCEPT !.left = @ \ {lba}] /\ UNCHANGED model
    BY <1>2 DEF ReaderReports
  <2>2. reader.phase = "reading" /\ session' = session
    BY <1>2 DEF ReaderReports
  <2>3. reader'.id = reader.id /\ reader'.of = reader.of
    BY <2>1 DEF TypeOK, ReaderType
  <2>4. CASE StillCurrent(reader.id)
    <3>1. reader.of = session
      BY <2>2, <2>4 DEF StillCurrent
    <3>2. model'.id = model.id /\ RowsComeFromTheirSource'
      BY <2>1, <2>2, <2>4, <3>1 DEF Applied, RowsComeFromTheirSource, TypeOK, SessionTypeOK
    <3> QED BY <2>2, <2>3, <3>1, <3>2
  <2>5. CASE ~StillCurrent(reader.id)
    BY <2>1, <2>2, <2>3, <2>5 DEF StillCurrent, RowsComeFromTheirSource
  <2> QED BY <2>4, <2>5
<1>3. CASE RefreshMetadata \/ JoinedReader
  <2>1. /\ session' = session
        /\ model' = model \/ (session # None /\ model' = NewModel(session))
    BY <1>3 DEF RefreshMetadata, JoinedReader, ResetModel
  <2>2. model'.id >= model.id /\ model'.id \in Nat /\ RowsComeFromTheirSource'
    BY <2>1, NewModelFacts DEF RowsComeFromTheirSource, TypeOK, SessionTypeOK
  <2>3. CASE \E snap : BeginReading(snap)
    <3>1. reader'.phase \in {"none", "started"} /\ reader'.id = 0
      BY <2>3, Begun
    <3> QED BY <2>2, <3>1 DEF TypeOK, SessionTypeOK
  <2>4. CASE reader' = [reader EXCEPT !.stop = TRUE] /\ model' = model
    BY <2>1, <2>2, <2>4, Stopped
  <2> QED
    <3>1. CASE RefreshMetadata
      BY <3>1, <2>3, <2>4 DEF RefreshMetadata
    <3>2. CASE JoinedReader
      <4>1. BeginReading(shown')
        BY <3>2 DEF JoinedReader
      <4> QED BY <2>3, <4>1
    <3> QED BY <1>3, <3>1, <3>2
<1>4. CASE ReaderCaptures
  BY <1>4 DEF ReaderCaptures, TypeOK, ReaderType, SessionTypeOK, RowsComeFromTheirSource
<1>5. CASE ReaderPosts \/ ReaderReturns \/ ReaderEnds
  <2>1. /\ reader'.id = reader.id /\ reader'.of = reader.of /\ UNCHANGED sessionVars
        /\ reader'.phase \in {"reading", "posting"} => reader.phase \in {"reading", "posting"}
    BY <1>5 DEF ReaderPosts, ReaderReturns, ReaderEnds, TypeOK, ReaderType
  <2> QED BY <2>1 DEF RowsComeFromTheirSource
<1>6. CASE HandleFinish
  <2>1. UNCHANGED sessionVars /\ RowsComeFromTheirSource'
    BY <1>6 DEF HandleFinish, RowsComeFromTheirSource
  <2>2. CASE \E snap : BeginReading(snap)
    <3>1. reader'.phase \in {"none", "started"} /\ reader'.id = 0
      BY <2>2, Begun
    <3> QED BY <2>1, <3>1 DEF TypeOK, SessionTypeOK
  <2>3. CASE reader' = [reader EXCEPT !.stop = TRUE] \/ UNCHANGED reader
    BY <2>1, <2>3, Stopped
  <2> QED BY <1>6, <2>2, <2>3 DEF HandleFinish, StartEnrichment
<1>7. CASE Open \/ HandleDiscovered \/ CancelEnrichment \/ Destroy
  <2>1. UNCHANGED sessionVars /\ (StopReader \/ UNCHANGED reader
                                    \/ reader' = [reader EXCEPT !.stop = TRUE])
    BY <1>7 DEF Open, HandleDiscovered, CancelEnrichment, Destroy, OpenAsync
  <2> QED BY <2>1, Stopped DEF RowsComeFromTheirSource
<1>8. CASE \/ Rescan \/ TelemetryTick \/ JoinedScanner \/ HandleProgress \/ HandleDone
           \/ OpenPosts \/ OpenFails \/ Scan \/ Destroyed \/ UNCHANGED vars
  <2>1. UNCHANGED <<sessionVars, reader>>
    BY <1>8 DEF Rescan, TelemetryTick, JoinedScanner, HandleProgress, HandleDone,
                OpenPosts, OpenFails, Scan, Destroyed
  <2> QED BY <2>1 DEF RowsComeFromTheirSource
<1> QED BY <1>1, <1>2, <1>3, <1>4, <1>5, <1>6, <1>7, <1>8
        DEF Next, User, UiThread, Dispatch, Opener, Reader

(***************************************************************************)
(* What the window shows.                                                  *)
(***************************************************************************)

\* Every lambda on the queue but the new one stays where it is.
LEMMA QueuePosted ==
  ASSUME TypeOK, NEW m \in Message, Post(m)
  PROVE  /\ DOMAIN queue' = DOMAIN queue \cup {Len(queue) + 1}
         /\ \A i \in DOMAIN queue : queue'[i] = queue[i] /\ i < Len(queue) + 1
         /\ queue'[Len(queue) + 1] = m
         /\ DOMAIN queue \subseteq Nat /\ Len(queue) + 1 \in Nat
<1>1. queue \in Seq(Message) /\ queue' = Append(queue, m)
  BY DEF TypeOK, Post
<1>2. /\ Len(queue') = Len(queue) + 1 /\ Len(queue) \in Nat
      /\ \A i \in 1 .. Len(queue) : queue'[i] = queue[i]
      /\ queue'[Len(queue) + 1] = m
      /\ queue' \in Seq(Message)
  BY <1>1, AppendProperties, LenProperties
<1>3. DOMAIN queue = 1 .. Len(queue) /\ DOMAIN queue' = 1 .. Len(queue')
  BY <1>1, <1>2, LenProperties
<1> QED BY <1>2, <1>3

\* Every lambda on the queue but the head moves one place forward.
LEMMA QueueTaken ==
  ASSUME TypeOK, NEW kind, Handle(kind)
  PROVE  /\ \A i \in DOMAIN queue : i = 1 \/ (i - 1 \in DOMAIN queue' /\ queue'[i - 1] = queue[i])
         /\ \A i \in DOMAIN queue' : i + 1 \in DOMAIN queue /\ queue'[i] = queue[i + 1]
         /\ 1 \in DOMAIN queue /\ queue[1] = Head(queue) /\ Head(queue).kind = kind
         /\ DOMAIN queue \subseteq Nat \ {0} /\ DOMAIN queue' \subseteq Nat \ {0}
<1>1. queue \in Seq(Message) /\ queue # <<>> /\ queue' = Tail(queue)
  BY DEF TypeOK, Handle
<1>2. /\ queue' \in Seq(Message)
      /\ Len(queue') = Len(queue) - 1
      /\ \A i \in 1 .. Len(queue') : queue'[i] = queue[i + 1]
  BY <1>1, HeadTailProperties
<1>3. DOMAIN queue = 1 .. Len(queue) /\ DOMAIN queue' = 1 .. Len(queue') /\ Len(queue) \in Nat \ {0}
  BY <1>1, <1>2, LenProperties, EmptySeq
<1>4. ASSUME NEW i \in DOMAIN queue, i # 1 PROVE i - 1 \in DOMAIN queue' /\ queue'[i - 1] = queue[i]
  <2>1. i - 1 \in 1 .. Len(queue') /\ (i - 1) + 1 = i
    BY <1>2, <1>3, <1>4
  <2> QED BY <1>2, <1>3, <2>1
<1>5. \A i \in DOMAIN queue' : i + 1 \in DOMAIN queue /\ queue'[i] = queue[i + 1]
  BY <1>2, <1>3
<1>6. 1 \in DOMAIN queue /\ queue[1] = Head(queue) /\ Head(queue).kind = kind
  BY <1>1, <1>3 DEF Handle
<1> QED BY <1>3, <1>4, <1>5, <1>6

\* No news gets lost, so that what it is news of can wait.
LEMMA ShownQuiet ==
  ASSUME ShownInv, UNCHANGED <<session, current>>, News => News',
         opener'.phase = "posting" => opener.phase = "posting" /\ opener'.source = opener.source,
         \A i \in Waiting' : queue'[i].ok => queue'[i].source = session,
         \/ shown' = Snapshot'
         \/ UNCHANGED <<shown, model>> /\ (RowNews => RowNews')
  PROVE  ShownInv'
<1>1. Snapshot' = [of |-> session', rows |-> model'.rows]
  BY DEF Snapshot
<1>2. UNCHANGED <<shown, model>> => (shown = Snapshot => shown' = Snapshot')
  BY DEF Snapshot
<1> QED BY <1>2 DEF ShownInv

\* A step that leaves the queue and the opens alone, or starts one.
LEMMA ShownStill ==
  ASSUME TypeOK, ShownInv, UNCHANGED <<session, current, queue>>,
         opener' = opener \/ (opener.phase = "none" /\ opener'.phase = "opening"),
         \/ shown' = Snapshot'
         \/ UNCHANGED <<shown, model>> /\ (reader.phase = "posting" => reader'.phase = "posting")
  PROVE  ShownInv'
<1>1. Waiting' = Waiting
  BY DEF Waiting
<1>2. News => News'
  BY <1>1 DEF News
<1>3. \A i \in Waiting' : queue'[i].ok => queue'[i].source = session
  BY <1>1 DEF ShownInv
<1>4. UNCHANGED <<shown, model>> /\ (reader.phase = "posting" => reader'.phase = "posting")
        => (RowNews => RowNews')
  BY DEF RowNews
<1> QED BY <1>2, <1>3, <1>4, ShownQuiet

\* A thread posts a lambda that is not the result of an open.
LEMMA ShownPost ==
  ASSUME TypeOK, ShownInv, UNCHANGED <<sessionVars, current, shown, opener>>,
         NEW m \in Message, m.kind # "finish", Post(m),
         reader.phase = "posting" => reader'.phase = "posting" \/ m.kind = "progress"
  PROVE  ShownInv'
<1>1. Waiting' = Waiting /\ \A i \in Waiting : queue'[i] = queue[i]
  BY Posted
<1>2. News => News'
  BY <1>1 DEF News
<1>3. \A i \in Waiting' : queue'[i].ok => queue'[i].source = session
  BY <1>1 DEF ShownInv
<1>4. RowNews => RowNews'
  BY QueuePosted DEF RowNews
<1> QED BY <1>2, <1>3, <1>4, ShownQuiet

\* The window handles such a lambda.
LEMMA ShownHandle ==
  ASSUME TypeOK, ShownInv, NEW kind, kind # "finish", Handle(kind),
         UNCHANGED <<sessionVars, current>>,
         opener' = opener \/ (opener.phase = "none" /\ opener'.phase = "opening"),
         \/ shown' = Snapshot'
         \/ /\ UNCHANGED shown /\ kind # "progress"
            /\ reader.phase = "posting" => reader'.phase = "posting"
  PROVE  ShownInv'
<1>1. /\ \A i \in Waiting' : i + 1 \in Waiting /\ queue'[i] = queue[i + 1]
      /\ \A i \in Waiting : i - 1 \in Waiting' /\ queue'[i - 1] = queue[i]
  BY Taken
<1>2. News => News'
  BY <1>1 DEF News
<1>3. \A i \in Waiting' : queue'[i].ok => queue'[i].source = session
  BY <1>1 DEF ShownInv
<1>4. kind # "progress" /\ (reader.phase = "posting" => reader'.phase = "posting")
        => (RowNews => RowNews')
  BY QueueTaken DEF RowNews
<1> QED BY <1>2, <1>3, <1>4, ShownQuiet

\* An open the window starts is none that has news already.
LEMMA OpenerMoves ==
  ASSUME TypeOK, OpenInv, NEW s, NEW by, OpenAsync(s, by)
  PROVE  /\ opener' = opener \/ (opener.phase = "none" /\ opener'.phase = "opening")
         /\ reader'.phase = reader.phase /\ reader'.id = reader.id /\ reader'.left = reader.left
         /\ reader.stop => reader'.stop
         /\ busy' # busy => ~busy
<1>1. UNCHANGED reader \/ StopReader
  BY DEF OpenAsync
<1>2. /\ reader'.phase = reader.phase /\ reader'.id = reader.id /\ reader'.left = reader.left
      /\ reader.stop => reader'.stop
  BY <1>1 DEF StopReader, TypeOK, ReaderType
<1>3. ~busy => opener.phase = "none"
  BY DEF OpenInv, OneOpenAtATime
<1> QED BY <1>2, <1>3 DEF OpenAsync, TypeOK

\* Every step keeps the window in the know, or somebody has news for it.
LEMMA ShownStep ==
  ASSUME TypeOK, OpenInv, ShownInv, [Next]_vars
  PROVE  ShownInv'
<1>1. CASE Open
  <2>1. PICK s : OpenAsync(s, "user")
    BY <1>1 DEF Open
  <2> QED BY <1>1, <2>1, OpenerMoves, ShownStill DEF Open
<1>2. CASE Rescan \/ JoinedScanner \/ Destroyed \/ ReaderCaptures \/ ReaderReturns \/ UNCHANGED vars
  <2>1. /\ UNCHANGED <<sessionVars, current, queue, opener, shown>>
        /\ reader.phase = "posting" => reader'.phase = "posting"
    BY <1>2 DEF Rescan, JoinedScanner, Destroyed, ReaderCaptures, ReaderReturns
  <2> QED BY <2>1, ShownStill
<1>3. CASE CancelEnrichment \/ Destroy
  <2>1. /\ UNCHANGED <<sessionVars, current, queue, opener, shown>>
        /\ StopReader \/ reader' = [reader EXCEPT !.stop = TRUE]
    BY <1>3 DEF CancelEnrichment, Destroy
  <2> QED BY <2>1, Stopped, ShownStill
<1>4. CASE RefreshMetadata
  <2>1. UNCHANGED <<session, current, queue, opener>>
    BY <1>4 DEF RefreshMetadata, ResetModel
  <2>2. CASE reader.phase = "none"
    BY <1>4, <2>1, <2>2, ShownStill DEF RefreshMetadata, Snapshot
  <2>3. CASE reader.phase # "none"
    <3>1. UNCHANGED <<shown, model>> /\ reader' = [reader EXCEPT !.stop = TRUE]
      BY <1>4, <2>3 DEF RefreshMetadata
    <3> QED BY <2>1, <3>1, Stopped, ShownStill
  <2> QED BY <2>2, <2>3
<1>5. CASE TelemetryTick
  BY <1>5, ShownStill DEF TelemetryTick, Snapshot
<1>6. CASE JoinedReader
  <2>1. UNCHANGED <<session, current, queue, opener>> /\ reader.phase = "ended"
    BY <1>6 DEF JoinedReader, ResetModel
  <2>2. CASE ui = "joinToReset"
    BY <1>6, <2>1, <2>2, ShownStill DEF JoinedReader, Snapshot
  <2>3. CASE ui # "joinToReset"
    BY <1>6, <2>1, <2>3, ShownStill DEF JoinedReader
  <2> QED BY <2>2, <2>3
<1>7. CASE ReaderPosts \/ ReaderEnds
  <2>1. PICK m \in Message : /\ m.kind # "finish" /\ Post(m)
                             /\ reader.phase = "posting" => m.kind = "progress"
    BY <1>7, Messages DEF ReaderPosts, ReaderEnds, Progress, Done, TypeOK, ReaderType
  <2> QED BY <1>7, <2>1, ShownPost DEF ReaderPosts, ReaderEnds
<1>8. CASE Scan
  <2>1. CASE scanner.stop
    BY <1>8, <2>1, ShownStill DEF Scan
  <2>2. CASE ~scanner.stop
    <3>1. PICK m \in Message : m.kind # "finish" /\ Post(m)
      BY <1>8, <2>2, Messages DEF Scan, Discovered, TypeOK, ScannerType
    <3> QED BY <1>8, <3>1, ShownPost DEF Scan
  <2> QED BY <2>1, <2>2
<1>9. CASE HandleProgress \/ HandleDone
  <2>1. UNCHANGED <<sessionVars, current, opener>> /\ shown' = Snapshot'
    BY <1>9 DEF HandleProgress, HandleDone, Snapshot
  <2> QED BY <1>9, <2>1, ShownHandle DEF HandleProgress, HandleDone
<1>10. CASE HandleDiscovered
  <2>1. Handle("discovered") /\ UNCHANGED <<sessionVars, shown, current>>
    BY <1>10 DEF HandleDiscovered
  <2>2. /\ opener' = opener \/ (opener.phase = "none" /\ opener'.phase = "opening")
        /\ reader'.phase = reader.phase
    <3>1. CASE OpensDrive(offered', Head(queue).user)
      <4>1. PICK s, by : OpenAsync(s, by)
        BY <1>10, <3>1 DEF HandleDiscovered
      <4> QED BY <4>1, OpenerMoves
    <3>2. CASE ~OpensDrive(offered', Head(queue).user)
      BY <1>10, <3>2 DEF HandleDiscovered
    <3> QED BY <3>1, <3>2
  <2> QED BY <2>1, <2>2, ShownHandle
<1>11. CASE OpenPublishes
  <2>1. /\ opener.phase = "opening" /\ opener' = [opener EXCEPT !.phase = "posting"]
        /\ session' = opener.source /\ UNCHANGED queue
    BY <1>11 DEF OpenPublishes, Publish
  <2>2. opener'.phase = "posting" /\ opener'.source = session'
    BY <2>1 DEF TypeOK, OpenerType
  <2>3. Waiting' = {}
    BY <2>1 DEF OpenInv, OneOpenAtATime, Waiting
  <2> QED BY <2>2, <2>3 DEF ShownInv, News
<1>12. CASE OpenPosts \/ OpenFails
  <2>1. /\ UNCHANGED <<sessionVars, current, shown, reader>>
        /\ opener'.phase = "none" /\ opener.phase \in {"opening", "posting"}
        /\ opener.source \in Sources
    <3>1. IdleOpener.phase = "none"
      BY DEF IdleOpener
    <3> QED BY <1>12, <3>1 DEF OpenPosts, OpenFails, OpenInv, NewsInv
  <2>2. Waiting = {}
    BY <2>1 DEF OpenInv, OneOpenAtATime
  <2>3. PICK ok \in BOOLEAN : Post(Finish(opener.source, ok)) /\ (opener.phase = "posting" <=> ok)
    BY <1>12 DEF OpenPosts, OpenFails
  <2>4. Finish(opener.source, ok) \in Message /\ Finish(opener.source, ok).kind = "finish"
        /\ Finish(opener.source, ok).ok = ok /\ Finish(opener.source, ok).source = opener.source
    BY <2>1, Messages DEF Finish
  <2>5. /\ Waiting' = {Len(queue) + 1} /\ queue'[Len(queue) + 1].ok = ok
        /\ queue'[Len(queue) + 1].source = opener.source
    BY <2>2, <2>3, <2>4, Posted
  <2>6. News <=> ok
    BY <2>2, <2>3 DEF News
  <2>7. News' <=> ok
    BY <2>1, <2>5 DEF News
  <2>8. RowNews => RowNews'
    BY <2>1, <2>3, <2>4, QueuePosted DEF RowNews
  <2>9. Snapshot' = Snapshot
    BY <2>1 DEF Snapshot
  <2> QED BY <2>1, <2>3, <2>5, <2>6, <2>7, <2>8, <2>9 DEF ShownInv
<1>13. CASE HandleFinish
  <2>1. /\ Handle("finish") /\ UNCHANGED <<sessionVars, opener>>
        /\ IF Head(queue).ok THEN shown' = Snapshot /\ current' = Head(queue).source
           ELSE UNCHANGED <<shown, current, reader>>
    BY <1>13 DEF HandleFinish
  <2>2. Waiting = {1} /\ Waiting' = {} /\ opener.phase = "none" /\ queue[1] = Head(queue)
    BY <2>1, Taken DEF OpenInv, OneOpenAtATime
  <2>3. Snapshot' = Snapshot
    BY <2>1 DEF Snapshot
  <2>4. CASE Head(queue).ok
    BY <2>1, <2>2, <2>3, <2>4 DEF ShownInv
  <2>5. CASE ~Head(queue).ok
    <3>1. ~News
      BY <2>2, <2>5 DEF News
    <3>2. RowNews => RowNews'
      BY <2>1, <2>5, QueueTaken DEF RowNews
    <3> QED BY <2>1, <2>2, <2>3, <2>5, <3>1, <3>2 DEF ShownInv
  <2> QED BY <2>4, <2>5
<1>14. CASE ReaderReports
  <2>1. UNCHANGED <<session, current, queue, opener, shown>> /\ reader.phase = "reading"
    BY <1>14 DEF ReaderReports
  <2>2. model' = model \/ reader'.phase = "posting"
    BY <1>14 DEF ReaderReports, TypeOK, ReaderType
  <2>3. Waiting' = Waiting /\ (News <=> News')
    BY <2>1 DEF Waiting, News
  <2>4. shown = Snapshot => shown' = Snapshot' \/ RowNews'
    BY <2>1, <2>2 DEF Snapshot, RowNews
  <2>5. RowNews => RowNews'
    BY <2>1 DEF RowNews
  <2> QED BY <2>1, <2>3, <2>4, <2>5 DEF ShownInv
<1> QED BY <1>1, <1>2, <1>3, <1>4, <1>5, <1>6, <1>7, <1>8, <1>9, <1>10, <1>11, <1>12, <1>13, <1>14
        DEF Next, User, UiThread, Dispatch, Opener, Reader

(***************************************************************************)
(* What the window says about the metadata.                                *)
(***************************************************************************)

\* Other lambdas do not change what the last end on the queue says.
LEMMA EndsPosted ==
  ASSUME TypeOK, EndsCancelled, UNCHANGED state, NEW m \in Message, m.kind # "done", Post(m)
  PROVE  EndsCancelled'
<1>1. /\ DOMAIN queue' = DOMAIN queue \cup {Len(queue) + 1}
      /\ \A i \in DOMAIN queue : queue'[i] = queue[i]
      /\ queue'[Len(queue) + 1] = m
  BY QueuePosted
<1>2. Ends' = { i \in DOMAIN queue' : queue'[i].kind = "done" }
  BY DEF Ends
<1>3. Ends' = Ends /\ \A i \in Ends : queue'[i] = queue[i]
  BY <1>1, <1>2 DEF Ends
<1> QED BY <1>3 DEF EndsCancelled

LEMMA EndsTaken ==
  ASSUME TypeOK, EndsCancelled, UNCHANGED state, NEW kind, kind # "done", Handle(kind)
  PROVE  EndsCancelled'
<1>1. /\ \A i \in Ends' : i + 1 \in Ends /\ queue'[i] = queue[i + 1]
      /\ \A i \in Ends : i - 1 \in Ends' /\ queue'[i - 1] = queue[i]
      /\ Ends \subseteq Nat /\ Ends' \subseteq Nat
  <2>1. Ends' = { i \in DOMAIN queue' : queue'[i].kind = "done" }
    BY DEF Ends
  <2> QED BY <2>1, QueueTaken DEF Ends
<1>2. CASE Ends = {} /\ state # "ready"
  BY <1>1, <1>2 DEF EndsCancelled
<1>3. CASE \E i \in Ends : queue[i].cancelled /\ \A j \in Ends : j <= i
  <2>1. PICK i \in Ends : queue[i].cancelled /\ \A j \in Ends : j <= i
    BY <1>3
  <2>2. i - 1 \in Ends' /\ queue'[i - 1] = queue[i]
    BY <1>1
  <2>3. ASSUME NEW j \in Ends' PROVE j <= i - 1
    <3>1. j + 1 <= i
      BY <1>1, <2>1
    <3> QED BY <1>1, <3>1
  <2> QED BY <2>1, <2>2, <2>3 DEF EndsCancelled
<1> QED BY <1>2, <1>3 DEF EndsCancelled

\* The state text takes over what the end it is told of says.
LEMMA EndsHandled ==
  ASSUME TypeOK, EndsCancelled, Handle("done"),
         state' = IF Head(queue).cancelled THEN "cancelled" ELSE "ready"
  PROVE  EndsCancelled'
<1>1. /\ \A i \in Ends' : i + 1 \in Ends /\ queue'[i] = queue[i + 1]
      /\ \A i \in Ends : i = 1 \/ (i - 1 \in Ends' /\ queue'[i - 1] = queue[i])
      /\ Ends \subseteq Nat \ {0} /\ Ends' \subseteq Nat \ {0}
      /\ 1 \in Ends /\ queue[1] = Head(queue)
  <2>1. Ends' = { i \in DOMAIN queue' : queue'[i].kind = "done" }
    BY DEF Ends
  <2> QED BY <2>1, QueueTaken DEF Ends
<1>2. PICK i \in Ends : queue[i].cancelled /\ \A j \in Ends : j <= i
  BY <1>1 DEF EndsCancelled
<1>3. CASE i = 1
  <2>1. state' = "cancelled"
    BY <1>1, <1>2, <1>3
  <2>2. Ends' = {}
    <3> SUFFICES ASSUME NEW j \in Ends' PROVE FALSE
      OBVIOUS
    <3>1. j + 1 <= 1 /\ j \in Nat \ {0}
      BY <1>1, <1>2, <1>3
    <3> QED BY <3>1
  <2> QED BY <2>1, <2>2 DEF EndsCancelled
<1>4. CASE i # 1
  <2>1. i - 1 \in Ends' /\ queue'[i - 1] = queue[i]
    BY <1>1, <1>4
  <2>2. ASSUME NEW j \in Ends' PROVE j <= i - 1
    <3>1. j + 1 <= i
      BY <1>1, <1>2
    <3> QED BY <1>1, <3>1
  <2> QED BY <1>2, <2>1, <2>2 DEF EndsCancelled
<1> QED BY <1>3, <1>4

\* The news of an open stay on the queue when another lambda is handled or
\* posted.
LEMMA NewsStay ==
  ASSUME TypeOK, News, opener' = opener \/ (opener.phase = "none" /\ opener'.phase = "opening"),
         \/ UNCHANGED queue
         \/ \E m \in Message : Post(m)
         \/ \E kind : kind # "finish" /\ Handle(kind)
  PROVE  News'
<1>1. CASE UNCHANGED queue
  BY <1>1 DEF News, Waiting
<1>2. ASSUME NEW m \in Message, Post(m) PROVE News'
  <2>1. \A i \in Waiting : i \in Waiting' /\ queue'[i] = queue[i]
    BY <1>2, Posted
  <2> QED BY <2>1 DEF News
<1>3. ASSUME NEW kind, kind # "finish", Handle(kind) PROVE News'
  <2>1. \A i \in Waiting : i - 1 \in Waiting' /\ queue'[i - 1] = queue[i]
    BY <1>3, Taken
  <2> QED BY <2>1 DEF News
<1> QED BY <1>1, <1>2, <1>3

\* The thread is only asked to stop, or left alone.
SameReader ==
  /\ reader'.phase = reader.phase /\ reader'.id = reader.id /\ reader'.left = reader.left
  /\ reader.stop => reader'.stop

LEMMA StopIsSame ==
  ASSUME TypeOK, \/ StopReader \/ UNCHANGED reader \/ reader' = [reader EXCEPT !.stop = TRUE]
  PROVE  SameReader
BY DEF SameReader, StopReader, TypeOK, ReaderType

\* A step of somebody else leaves the rows and who is to read them alone.
LEMMA ReadyQuiet ==
  ASSUME TypeOK, ReadyInv, UNCHANGED sessionVars, SameReader, News => News',
         EndsCancelled => EndsCancelled',
         \/ UNCHANGED <<ui, shown>> /\ (busy' => busy)
         \/ /\ ui \notin {"joinReader", "joinToReset"} /\ ui' # "joinReader"
            /\ ui \in {"closing", "gone"} => ui' \in {"closing", "gone"}
  PROVE  ReadyInv'
<1>1. BeingRead => BeingRead'
  BY DEF BeingRead, Reading, SameReader, PendingRows
<1>2. Overtaken => Overtaken'
  BY DEF Overtaken
<1>3. ~Reading => ~Reading'
  BY DEF Reading, SameReader
<1>4. PendingRows(model)' = PendingRows(model)
  BY DEF PendingRows
<1>5. (ui = "joinReader" => ~busy /\ shown.of = session)'
  BY DEF ReadyInv
<1>6. (reader.phase \in {"reading", "posting"} => session # None)'
  BY DEF ReadyInv, SameReader
<1> QED BY <1>1, <1>2, <1>3, <1>4, <1>5, <1>6 DEF ReadyInv

\* A thread that has just been started reads everything there is to read.
LEMMA BegunReady ==
  ASSUME NEW snap, BeginReading(snap), DOMAIN snap.rows = DOMAIN model'.rows
  PROVE  /\ PendingRows(model)' # {} => BeingRead'
         /\ reader'.phase \notin {"reading", "posting"}
<1>1. CASE DOMAIN snap.rows = {}
  BY <1>1 DEF BeginReading, NoReader, PendingRows
<1>2. CASE DOMAIN snap.rows # {}
  <2>1. reader'.phase = "started"
    BY <1>2 DEF BeginReading, NoReader
  <2> QED BY <2>1 DEF BeingRead
<1> QED BY <1>1, <1>2

\* The steps of the enrichment thread.
LEMMA ReadyReader ==
  ASSUME TypeOK, ReaderInv, ReadyInv, Reader
  PROVE  ReadyInv'
<1>1. UNCHANGED <<session, state, busy, opener, ui, shown>>
  BY DEF Reader, ReaderCaptures, ReaderReports, ReaderPosts, ReaderReturns, ReaderEnds
<1>2. News => News'
  BY <1>1, Messages, NewsStay
  DEF Reader, ReaderCaptures, ReaderReports, ReaderPosts, ReaderReturns, ReaderEnds, TypeOK, ReaderType
<1>3. Overtaken => Overtaken'
  BY <1>1, <1>2 DEF Overtaken
<1>4. (ui = "joinReader" => ~busy /\ shown.of = session)'
  BY <1>1 DEF ReadyInv
<1>5. CASE ReaderCaptures
  <2>1. UNCHANGED model
    BY <1>5 DEF ReaderCaptures
  <2>2. CASE session = None
    <3>1. PendingRows(model)' = {}
      BY <2>1, <2>2 DEF PendingRows, TypeOK, SessionTypeOK, MainsOf
    <3>2. reader'.phase = "returned"
      BY <1>5, <2>2 DEF ReaderCaptures, TypeOK, ReaderType
    <3> QED BY <1>4, <3>1, <3>2 DEF ReadyInv
  <2>3. CASE session # None
    <3>1. reader'.phase = "reading" /\ reader'.id = model.id /\ reader'.left = MainsOf(session)
      BY <1>5, <2>3 DEF ReaderCaptures, TypeOK, ReaderType
    <3>2. PendingRows(model)' \subseteq reader'.left
      BY <2>1, <3>1 DEF PendingRows, TypeOK, SessionTypeOK
    <3>3. BeingRead'
      BY <2>1, <3>1, <3>2 DEF BeingRead
    <3> QED BY <1>1, <1>4, <2>3, <3>3 DEF ReadyInv
  <2> QED BY <2>2, <2>3
<1>6. CASE ReaderReports
  <2>1. PICK lba \in reader.left :
          IF StillCurrent(reader.id)
          THEN /\ model' = Applied(model, lba, reader.of)
               /\ reader' = [reader EXCEPT !.phase = "posting", !.left = @ \ {lba}]
          ELSE reader' = [reader EXCEPT !.left = @ \ {lba}] /\ UNCHANGED model
    BY <1>6 DEF ReaderReports
  <2>2. /\ reader.phase = "reading" /\ session # None
        /\ reader'.phase \in {"reading", "posting"} /\ reader'.id = reader.id
        /\ reader'.left = reader.left \ {lba} /\ reader'.stop = reader.stop
    BY <1>6, <2>1 DEF ReaderReports, ReadyInv, TypeOK, ReaderType
  <2>3. PendingRows(model)' \subseteq PendingRows(model)
    <3>1. CASE StillCurrent(reader.id)
      <4>1. reader.of = session /\ model' = Applied(model, lba, reader.of)
        BY <2>1, <2>2, <3>1 DEF ReaderInv, StillCurrent
      <4> QED BY <2>2, <4>1 DEF PendingRows, Applied, TypeOK, SessionTypeOK
    <3>2. CASE ~StillCurrent(reader.id)
      BY <2>1, <3>2 DEF PendingRows
    <3> QED BY <3>1, <3>2
  <2>4. BeingRead => BeingRead'
    <3>1. CASE Reading /\ reader.stop
      BY <2>2, <3>1 DEF BeingRead, Reading, ReaderPhases
    <3>2. CASE reader.id = model.id /\ PendingRows(model) \subseteq reader.left
      <4>1. reader.of = session /\ model' = Applied(model, lba, reader.of)
        BY <2>1, <2>2, <3>2 DEF ReaderInv, StillCurrent
      <4>2. model'.id = model.id
        BY <4>1 DEF Applied, TypeOK, SessionTypeOK
      <4>3. lba \notin PendingRows(model)'
        BY <2>2, <4>1 DEF PendingRows, Applied, TypeOK, SessionTypeOK
      <4> QED BY <2>2, <2>3, <3>2, <4>2, <4>3 DEF BeingRead
    <3> QED BY <2>2, <3>1, <3>2 DEF BeingRead
  <2>5. Reading
    BY <2>2 DEF Reading, ReaderPhases
  <2> QED BY <1>1, <1>3, <1>4, <2>2, <2>3, <2>4, <2>5 DEF ReadyInv
<1>7. CASE ReaderPosts
  <2>1. /\ reader.phase = "posting" /\ reader'.phase = "reading" /\ UNCHANGED model
        /\ reader'.id = reader.id /\ reader'.left = reader.left /\ reader'.stop = reader.stop
    BY <1>7 DEF ReaderPosts, TypeOK, ReaderType
  <2>2. Reading /\ (BeingRead => BeingRead')
    BY <2>1 DEF BeingRead, Reading, ReaderPhases, PendingRows
  <2> QED BY <1>1, <1>3, <1>4, <2>1, <2>2 DEF ReadyInv, PendingRows
<1>8. CASE ReaderReturns
  <2>1. /\ reader.phase = "reading" /\ reader'.phase = "returned" /\ UNCHANGED model
        /\ reader'.stop = reader.stop /\ (reader.left = {} \/ reader.stop)
    BY <1>8 DEF ReaderReturns, TypeOK, ReaderType
  <2>2. Reading /\ (BeingRead => BeingRead' \/ PendingRows(model) = {})
    BY <2>1 DEF BeingRead, Reading, ReaderPhases, PendingRows
  <2> QED BY <1>3, <1>4, <2>1, <2>2 DEF ReadyInv, PendingRows
<1>9. CASE ReaderEnds
  <2>1. /\ reader.phase = "returned" /\ reader'.phase = "ended" /\ UNCHANGED model
        /\ Post(Done(reader.stop)) /\ reader.stop \in BOOLEAN
    BY <1>9 DEF ReaderEnds, TypeOK, ReaderType
  <2>2. Reading /\ ~Reading'
    BY <2>1 DEF Reading, ReaderPhases
  <2>3. reader.stop => EndsCancelled'
    <3>1. Done(reader.stop) \in Message /\ Done(reader.stop).kind = "done"
          /\ Done(reader.stop).cancelled = reader.stop
      BY <2>1, Messages DEF Done
    <3>2. /\ DOMAIN queue' = DOMAIN queue \cup {Len(queue) + 1}
          /\ \A i \in DOMAIN queue : i < Len(queue) + 1
          /\ queue'[Len(queue) + 1] = Done(reader.stop)
          /\ DOMAIN queue \subseteq Nat /\ Len(queue) + 1 \in Nat
      BY <2>1, <3>1, QueuePosted
    <3>3. Len(queue) + 1 \in Ends' /\ \A j \in Ends' : j <= Len(queue) + 1
      <4>1. Ends' = { i \in DOMAIN queue' : queue'[i].kind = "done" }
        BY DEF Ends
      <4> QED BY <3>1, <3>2, <4>1
    <3> QED BY <3>1, <3>2, <3>3 DEF EndsCancelled
  <2>4. BeingRead => reader.stop
    BY <2>1 DEF BeingRead
  <2> QED BY <1>3, <1>4, <2>1, <2>2, <2>3, <2>4 DEF ReadyInv, PendingRows
<1> QED BY <1>5, <1>6, <1>7, <1>8, <1>9 DEF Reader

\* Every step keeps a pending row somebody's business.
LEMMA ReadyStep ==
  ASSUME TypeOK, TypeOK', OpenInv, ReaderInv, ReadyInv, [Next]_vars
  PROVE  ReadyInv'
<1>1. CASE Reader
  BY <1>1, ReadyReader
<1>2. CASE Open
  <2>1. PICK s : OpenAsync(s, "user")
    BY <1>2 DEF Open
  <2>2. SameReader /\ (News => News')
    BY <1>2, <2>1, OpenerMoves, NewsStay DEF Open, SameReader
  <2>3. UNCHANGED <<sessionVars, queue, state, ui>> /\ ui = "idle"
    BY <1>2 DEF Open, Command
  <2>4. EndsCancelled => EndsCancelled'
    BY <2>3 DEF EndsCancelled, Ends
  <2> QED BY <2>2, <2>3, <2>4, ReadyQuiet
<1>3. CASE Rescan \/ CancelEnrichment \/ Destroy \/ JoinedScanner \/ TelemetryTick \/ Destroyed
             \/ UNCHANGED vars
  <2>1. /\ UNCHANGED <<sessionVars, queue, state, opener, busy>>
        /\ StopReader \/ UNCHANGED reader \/ reader' = [reader EXCEPT !.stop = TRUE]
        /\ \/ UNCHANGED <<ui, shown>>
           \/ /\ ui \notin {"joinReader", "joinToReset"} /\ ui' # "joinReader"
              /\ ui \in {"closing", "gone"} => ui' \in {"closing", "gone"}
    BY <1>3 DEF Rescan, Command, CancelEnrichment, Destroy, JoinedScanner, TelemetryTick, Destroyed
  <2>2. SameReader /\ (News => News') /\ (EndsCancelled => EndsCancelled')
    BY <2>1, StopIsSame, NewsStay DEF EndsCancelled, Ends
  <2> QED BY <2>1, <2>2, ReadyQuiet
<1>4. CASE RefreshMetadata \/ JoinedReader
  <2>1. CASE JoinedReader \/ (RefreshMetadata /\ reader.phase = "none")
    <3>0. BeginReading(shown')
      BY <2>1 DEF RefreshMetadata, JoinedReader
    <3>1. DOMAIN shown'.rows = DOMAIN model'.rows
      <4>1. CASE shown' = [of |-> session, rows |-> model'.rows]
        BY <4>1
      <4>2. CASE JoinedReader /\ ui # "joinToReset"
        <5>1. shown'.of = session /\ session' = session
          BY <4>2 DEF JoinedReader, ReadyInv
        <5>2. /\ shown'.rows \in [MainsOf(shown'.of) -> Sources \cup {None}]
              /\ model'.rows \in [MainsOf(session') -> Sources \cup {None}]
          BY DEF TypeOK, SessionTypeOK
        <5> QED BY <5>1, <5>2
      <4> QED BY <2>1, <4>1, <4>2 DEF RefreshMetadata, JoinedReader, ResetModel
    <3>2. ui' = "idle"
      BY <2>1 DEF RefreshMetadata, JoinedReader, Command
    <3> QED BY <3>0, <3>1, <3>2, BegunReady DEF ReadyInv
  <2>2. CASE RefreshMetadata /\ reader.phase # "none"
    <3>1. ui' = "joinToReset" /\ UNCHANGED session /\ reader' = [reader EXCEPT !.stop = TRUE]
      BY <2>2 DEF RefreshMetadata
    <3>2. reader'.phase = reader.phase
      BY <3>1, Stopped
    <3> QED BY <3>1, <3>2 DEF ReadyInv, Overtaken
  <2> QED BY <1>4, <2>1, <2>2
<1>5. CASE HandleProgress \/ HandleDone
  <2>1. UNCHANGED <<sessionVars, ui, reader, opener>> /\ ui = "idle"
    BY <1>5 DEF HandleProgress, HandleDone, Handle
  <2>2. News => News'
    BY <1>5, <2>1, NewsStay DEF HandleProgress, HandleDone
  <2>3. EndsCancelled => EndsCancelled'
    BY <1>5, EndsTaken, EndsHandled DEF HandleProgress, HandleDone
  <2> QED BY <2>1, <2>2, <2>3, StopIsSame, ReadyQuiet
<1>6. CASE HandleDiscovered
  <2>1. Handle("discovered") /\ UNCHANGED <<sessionVars, ui, state>> /\ ui = "idle"
    BY <1>6 DEF HandleDiscovered, Handle
  <2>2. /\ opener' = opener \/ (opener.phase = "none" /\ opener'.phase = "opening")
        /\ SameReader
    <3>1. CASE OpensDrive(offered', Head(queue).user)
      <4>1. PICK s, by : OpenAsync(s, by)
        BY <1>6, <3>1 DEF HandleDiscovered
      <4> QED BY <4>1, OpenerMoves DEF SameReader
    <3>2. CASE ~OpensDrive(offered', Head(queue).user)
      BY <1>6, <3>2 DEF HandleDiscovered, SameReader
    <3> QED BY <3>1, <3>2
  <2>3. (News => News') /\ (EndsCancelled => EndsCancelled')
    BY <2>1, <2>2, NewsStay, EndsTaken
  <2> QED BY <2>1, <2>2, <2>3, ReadyQuiet
<1>7. CASE HandleFinish
  <2>1. /\ Handle("finish") /\ UNCHANGED sessionVars /\ ui = "idle" /\ busy' = FALSE
    BY <1>7 DEF HandleFinish, Handle
  <2>2. CASE Head(queue).ok
    <3>1. StartEnrichment(Snapshot, "joinReader") /\ shown' = Snapshot
      BY <1>7, <2>2 DEF HandleFinish
    <3>2. CASE reader.phase = "none"
      <4>1. DOMAIN Snapshot.rows = DOMAIN model'.rows
        BY <2>1 DEF Snapshot
      <4>2. BeginReading(Snapshot) /\ ui' = "idle"
        BY <2>1, <3>1, <3>2 DEF StartEnrichment
      <4> QED BY <4>1, <4>2, BegunReady DEF ReadyInv
    <3>3. CASE reader.phase # "none"
      <4>1. ui' = "joinReader" /\ reader' = [reader EXCEPT !.stop = TRUE]
        BY <3>1, <3>3 DEF StartEnrichment
      <4>2. reader'.phase = reader.phase
        BY <4>1, Stopped
      <4> QED BY <2>1, <3>1, <4>1, <4>2 DEF ReadyInv, Overtaken, Snapshot
    <3> QED BY <3>2, <3>3
  <2>3. CASE ~Head(queue).ok
    <3>1. UNCHANGED <<shown, reader, state, ui, opener>>
      BY <1>7, <2>3 DEF HandleFinish
    <3>2. ~News
      <4>1. 1 \in Waiting /\ queue[1] = Head(queue)
        BY <2>1, Taken
      <4> QED BY <2>3, <4>1 DEF OpenInv, OneOpenAtATime, News
    <3>3. EndsCancelled => EndsCancelled'
      BY <2>1, <3>1, EndsTaken
    <3> QED BY <2>1, <3>1, <3>2, <3>3, StopIsSame, ReadyQuiet
  <2> QED BY <2>2, <2>3
<1>8. CASE OpenPublishes
  <2>1. /\ session' = opener.source /\ opener.source \in Sources /\ UNCHANGED ui
        /\ opener.phase = "opening" /\ opener' = [opener EXCEPT !.phase = "posting"]
    BY <1>8 DEF OpenPublishes, Publish, OpenInv, NewsInv
  <2>2. News'
    BY <2>1 DEF News, TypeOK, OpenerType
  <2>3. busy /\ session' # None
    BY <2>1, SourceFacts DEF OpenInv, OneOpenAtATime
  <2> QED BY <2>1, <2>2, <2>3 DEF ReadyInv, Overtaken
<1>9. CASE OpenPosts \/ OpenFails
  <2>1. /\ UNCHANGED <<sessionVars, reader, state, ui, shown, busy>>
        /\ opener.phase # "none" /\ opener.source \in Sources
    BY <1>9 DEF OpenPosts, OpenFails, OpenInv, NewsInv
  <2>2. PICK ok \in BOOLEAN : Post(Finish(opener.source, ok)) /\ (opener.phase = "posting" => ok)
    BY <1>9 DEF OpenPosts, OpenFails
  <2>3. Finish(opener.source, ok) \in Message /\ Finish(opener.source, ok).kind = "finish"
        /\ Finish(opener.source, ok).ok = ok
    BY <2>1, Messages DEF Finish
  <2>4. Waiting = {}
    BY <2>1 DEF OpenInv, OneOpenAtATime
  <2>5. News => News'
    BY <2>2, <2>3, <2>4, Posted DEF News
  <2>6. EndsCancelled => EndsCancelled'
    BY <2>1, <2>2, <2>3, EndsPosted
  <2> QED BY <2>1, <2>5, <2>6, StopIsSame, ReadyQuiet
<1>10. CASE Scan
  <2>1. UNCHANGED <<sessionVars, reader, state, ui, shown, busy, opener>>
    BY <1>10 DEF Scan
  <2>2. CASE UNCHANGED queue
    <3>1. (News => News') /\ (EndsCancelled => EndsCancelled')
      BY <2>1, <2>2, NewsStay DEF EndsCancelled, Ends
    <3> QED BY <2>1, <3>1, StopIsSame, ReadyQuiet
  <2>3. CASE ~scanner.stop
    <3>1. PICK m \in Message : m.kind # "done" /\ Post(m)
      BY <1>10, <2>3, Messages DEF Scan, Discovered, TypeOK, ScannerType
    <3>2. (News => News') /\ (EndsCancelled => EndsCancelled')
      BY <2>1, <3>1, NewsStay, EndsPosted
    <3> QED BY <2>1, <3>2, StopIsSame, ReadyQuiet
  <2> QED BY <1>10, <2>2, <2>3 DEF Scan
<1> QED BY <1>1, <1>2, <1>3, <1>4, <1>5, <1>6, <1>7, <1>8, <1>9, <1>10
        DEF Next, User, UiThread, Dispatch, Opener

(***************************************************************************)
(* Theorems.                                                               *)
(***************************************************************************)

\* The window that has just come up satisfies the invariant.
LEMMA InitInv == ASSUME Init PROVE IInv
<1>1. session = None /\ model = [id |-> 0, of |-> None, rows |-> [lba \in {} |-> None]]
      /\ shown = [of |-> session, rows |-> model.rows]
  BY DEF Init, SessionInit, NoModel, Snapshot
<1>2. model.rows \in [MainsOf(None) -> Sources \cup {None}]
  BY <1>1 DEF MainsOf
<1>3. queue = <<>> /\ queue \in Seq(Message) /\ Waiting = {}
  BY EmptySeq DEF Init, Waiting
<1>4. opener \in OpenerType /\ opener.phase = "none"
  BY DEF Init, IdleOpener, OpenerType, Askers
<1>5. reader \in ReaderType /\ reader.phase = "none" /\ reader.id = 0
  BY DEF Init, NoReader, ReaderType, ReaderPhases
<1>6. scanner \in ScannerType
  BY DEF Init, ScannerType
<1>a. SessionTypeOK
  <2>1. \A r : /\ DOMAIN [id |-> 0, of |-> None, rows |-> r] = {"id", "of", "rows"}
               /\ [id |-> 0, of |-> None, rows |-> r].id = 0
               /\ [id |-> 0, of |-> None, rows |-> r].of = None
    OBVIOUS
  <2>2. DOMAIN model = {"id", "of", "rows"} /\ model.id = 0 /\ model.of = None
    BY <1>1, <2>1
  <2> QED BY <1>1, <1>2, <2>2 DEF SessionTypeOK
<1>b. shown.of \in Sources \cup {None} /\ shown.rows \in [MainsOf(shown.of) -> Sources \cup {None}]
  BY <1>1, <1>2
<1>c. /\ current = None /\ offered = {} /\ cancelEnabled = FALSE /\ state = "none"
      /\ busy = FALSE /\ ui = "idle" /\ commands = MaxCommands
  BY DEF Init
<1>d. ui \in UiStates /\ commands \in 0 .. MaxCommands
  BY <1>c, WindowFacts DEF UiStates
<1>7. TypeOK
  BY <1>a, <1>b, <1>c, <1>d, <1>3, <1>4, <1>5, <1>6 DEF TypeOK
<1>8. OpenInv
  BY <1>1, <1>3, <1>4 DEF Init, OpenInv, OneOpenAtATime, NewsInv, UnaskedOpenReplacesNothing
<1>9. ReaderInv
  BY <1>1, <1>5 DEF ReaderInv, RowsComeFromTheirSource
<1>10. ShownInv
  BY <1>1, <1>3, <1>4 DEF Init, ShownInv, Snapshot
<1>11. ReadyInv
  BY <1>1, <1>5, <1>c DEF ReadyInv, PendingRows
<1> QED BY <1>7, <1>8, <1>9, <1>10, <1>11 DEF IInv

\* Whatever the user and the three threads do, and in whatever order their
\* lambdas reach the window, the invariant holds.
THEOREM Invariance == Spec => []IInv
<1>1. Init => IInv
  BY InitInv
<1>2. IInv /\ [Next]_vars => IInv'
  BY TypeStep, OpenStep, ReaderStep, ShownStep, ReadyStep DEF IInv, OpenInv
<1> QED BY <1>1, <1>2, PTL DEF Spec

\* Type correctness; the model is always one of the session's source.
THEOREM TypeCorrect == Spec => []TypeOK
BY Invariance, PTL DEF IInv

\* Stale work never mutates a new model.
THEOREM RowsKeepTheirSource == Spec => []RowsComeFromTheirSource
BY Invariance, PTL DEF IInv, ReaderInv

\* Nothing is opened unasked over an open source.
THEOREM NothingReplacedUnasked == Spec => []UnaskedOpenReplacesNothing
BY Invariance, PTL DEF IInv, OpenInv

\* source_busy_ covers an open from the click to its handled result.
THEOREM SingleOpen == Spec => []OneOpenAtATime
BY Invariance, PTL DEF IInv, OpenInv

\* Once everything has settled, the window shows the session and its rows, and
\* would mount the session's source.
THEOREM SettledWindowIsRight == Spec => []SettledWindowShowsSession
<1>1. IInv => SettledWindowShowsSession
  <2> SUFFICES ASSUME IInv, Settled PROVE shown = Snapshot /\ current = session
    BY DEF SettledWindowShowsSession
  <2>1. DOMAIN queue = {} /\ Waiting = {} /\ opener.phase = "none"
    BY DEF Settled, Waiting, IInv, OpenInv, OneOpenAtATime
  <2>2. reader.phase # "posting"
    BY DEF Settled, Reading, ReaderPhases
  <2> QED BY <2>1, <2>2 DEF IInv, ShownInv, News, RowNews
<1> QED BY <1>1, Invariance, PTL

\* A settled window says the metadata is ready only when no row is pending.
THEOREM ReadyIsTrue == Spec => []ReadyMeansRead
<1>1. IInv => ReadyMeansRead
  <2> SUFFICES ASSUME IInv, Settled, state = "ready" PROVE PendingRows(model) = {}
    BY DEF ReadyMeansRead
  <2>1. DOMAIN queue = {} /\ Waiting = {} /\ Ends = {} /\ opener.phase = "none"
    BY DEF Settled, Waiting, Ends, IInv, OpenInv, OneOpenAtATime
  <2>2. ~Overtaken
    BY <2>1 DEF Settled, Overtaken, News
  <2>3. ~BeingRead
    BY DEF Settled, BeingRead, Reading, ReaderPhases
  <2> QED BY <2>1, <2>2, <2>3 DEF IInv, ReadyInv, EndsCancelled
<1> QED BY <1>1, Invariance, PTL
=============================================================================
