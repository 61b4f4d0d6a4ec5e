------------------------- MODULE DossierCacheProofs -------------------------
(***************************************************************************)
(* Theorems about DossierCache, for any requests, confirmations and        *)
(* events.                                                                 *)
(***************************************************************************)
EXTENDS DossierCache, TLAPS

----------------------------------------------------------------------------
(* The inductive invariant                                                 *)

\* Every id is of one event, which is committed, inserted, or of the edit that
\* has the lock; an edit of the row is among the committed ones.
Numbered ==
    /\ \A n \in timeline.events : n \in 1 .. ids /\ n <= timeline.last
    /\ timeline.last \in timeline.events \union {0}
    /\ \A n \in inserted : n \in 1 .. ids /\ n \notin timeline.events
    /\ row.edits \subseteq timeline.events
    /\ writer # None =>
         /\ writer.id \in 1 .. ids
         /\ writer.id \notin timeline.events \union inserted
         /\ writer.row.edits = row.edits \union {writer.id}

\* A dossier of a row and a timeline that belong together: it is the truth until
\* the next event, and of the events it has, it has the edits.  What it lacks below
\* its last event came late.
Fair(d) ==
    /\ d.timeline.events \subseteq timeline.events
    /\ d.timeline.last <= timeline.last
    /\ d.row.edits = d.timeline.events \intersect row.edits
    /\ \A n \in timeline.events \ d.timeline.events : n <= d.timeline.last => n \in late
    /\ d.timeline.events = timeline.events => d = Truth

\* What an edit is to make of the row, the request that has the lock has seen.
Seen(r) ==
    /\ request[r].pc # "flushed" => request[r].view.edits \subseteq row.edits
    /\ request[r].pc = "flushed" =>
         writer # None /\ writer.who = r /\ request[r].view.edits \subseteq writer.row.edits
    /\ writer # None /\ writer.who = r => request[r].pc = "flushed"
    /\ request[r].pc = "listed" =>
         /\ request[r].view.edits \subseteq request[r].timeline.events
         /\ \A n \in request[r].timeline.events : n <= request[r].timeline.last

Before == {"idle", "read", "flushed", "patched", "listed", "built", "ready"}

\* Who is not torn builds what is fair, and who was not stored across finds the
\* snapshot as it was loaded, and then as it was stored.
Made(r) ==
    /\ request[r].pc \in {"listed", "built", "ready"} /\ r \notin torn => Fair(Build(r))
    /\ request[r].pc \in Before /\ snapshot # None =>
         snapshot.maker # r /\ snapshot.dater # r
    /\ request[r].pc = "stored" => snapshot # None
    /\ request[r].pc = "ready" /\ request[r].loaded # None => snapshot # None
    /\ request[r].pc = "ready" /\ r \notin overtaken => snapshot = request[r].loaded
    /\ request[r].pc = "stored" /\ r \notin overtaken => snapshot.payload = Build(r)
    /\ request[r].pc = "answered" =>
         \/ request[r].view.edits \subseteq request[r].answer.row.edits
         \/ r \in misled \union overtaken

Fits(r) == Seen(r) /\ Made(r)

Kept == snapshot # None /\ ~ Suspect(snapshot) =>
            /\ Fair(snapshot.payload)
            /\ snapshot.event = snapshot.payload.timeline.last

Sound == /\ TypeOK
         /\ Numbered
         /\ Kept
         /\ \A r \in Requests : Fits(r)

----------------------------------------------------------------------------
(* Types                                                                   *)

RequestPcs == {"idle", "read", "flushed", "patched", "listed", "built", "ready", "stored",
               "answered", "failed"}
Handlers == [pc : RequestPcs, view : Rows, timeline : Timelines, loaded : SnapshotOrNone,
             answer : Dossiers]

CaseTyped ==
    /\ row \in Rows /\ timeline \in Timelines /\ ids \in Nat /\ inserted \subseteq Nat
    /\ extra \in 0..MaxEvents /\ writer \in Writers \union {None}
    /\ confirm \in [Confirms -> {"idle", "flushed", "over"}] /\ late \subseteq Nat

Typed ==
    /\ CaseTyped
    /\ snapshot \in SnapshotOrNone
    /\ request \in [Requests -> Handlers]
    /\ torn \subseteq Requests /\ misled \subseteq Requests /\ overtaken \subseteq Requests

LEMMA Types == (TypeOK <=> Typed) /\ (TypeOK' <=> Typed')
  BY DEF TypeOK, Typed, CaseTyped, Handlers, RequestPcs

LEMMA HandlerTyped ==
  ASSUME TypeOK, NEW r \in Requests
  PROVE  /\ request[r] \in Handlers
         /\ Build(r) \in Dossiers
         /\ \A a \in Dossiers, pc \in RequestPcs : Handler(pc, request[r].view, a) \in Handlers
         /\ snapshot # None => snapshot.payload \in Dossiers
<1>1. request[r] \in Handlers /\ snapshot \in SnapshotOrNone
  BY Types DEF Typed
<1> QED
  BY <1>1 DEF Handlers, Build, Dossiers, Handler, SnapshotOrNone, Snapshots, NoEvents, Timelines

\* A handler with some of its fields replaced.
LEMMA HandlerMoved ==
  ASSUME NEW h \in Handlers, NEW pc \in RequestPcs
  PROVE  /\ [h EXCEPT !.pc = pc] \in Handlers
         /\ \A view \in Rows : [h EXCEPT !.pc = pc, !.view = view] \in Handlers
         /\ \A t \in Timelines : [h EXCEPT !.pc = pc, !.timeline = t] \in Handlers
         /\ \A s \in SnapshotOrNone : [h EXCEPT !.pc = pc, !.loaded = s] \in Handlers
  BY ZenonT(60) DEF Handlers

LEMMA Pcs == \A pc \in {"idle", "read", "flushed", "patched", "listed", "built", "ready",
                       "stored", "answered", "failed"} : pc \in RequestPcs
  BY DEF RequestPcs

----------------------------------------------------------------------------
(* A step of one request, with the case and the snapshot as they are       *)

LEMMA RequestStep ==
  ASSUME Sound, NEW r \in Requests, NEW h \in Handlers,
         request' = [request EXCEPT ![r] = h], UNCHANGED frame,
         torn' \in {torn, torn \union {r}}, misled' \in {misled, misled \union {r}},
         request'[r] = h => Fits(r)'
  PROVE  Sound'
<1>1. request'[r] = h /\ \A q \in Requests \ {r} : request'[q] = request[q]
  BY Types DEF Sound, Typed
<1>2. TypeOK'
  <2>1. Typed
    BY Types DEF Sound
  <2>2. Typed'
    BY <2>1 DEF Typed, CaseTyped, frame, case
  <2> QED
    BY <2>2, Types
<1>3. Numbered' /\ Kept'
  BY DEF Sound, Numbered, Kept, Fair, Suspect, Truth, frame, case
<1>4. ASSUME NEW q \in Requests
      PROVE  Fits(q)'
  <2>1. CASE q = r
    BY <1>1, <2>1
  <2>2. CASE q # r
    BY <1>1, <2>2 DEF Sound, Fits, Seen, Made, Fair, Build, Truth, frame, case
  <2> QED
    BY <2>1, <2>2
<1> QED
  BY <1>2, <1>3, <1>4 DEF Sound

LEMMA ReadRowSound ==
  ASSUME Sound, NEW r \in Requests, ReadRow(r)
  PROVE  Sound'
<1> DEFINE h == [request[r] EXCEPT !.pc = "read", !.view = row]
<1>1. h \in Handlers /\ h.pc = "read" /\ h.view = row
  <2>1. request[r] \in Handlers /\ row \in Rows /\ "read" \in RequestPcs
    BY HandlerTyped, Types, Pcs DEF Sound, Typed, CaseTyped
  <2>2. h \in Handlers
    BY <2>1, HandlerMoved
  <2> QED
    BY <2>1, <2>2 DEF Handlers
<1>2. request' = [request EXCEPT ![r] = h] /\ UNCHANGED <<frame, torn, misled>>
  BY DEF ReadRow
<1> HIDE DEF h
<1>3. ASSUME request'[r] = h
      PROVE  Fits(r)'
  BY <1>1, <1>2, <1>3 DEF ReadRow, Sound, Fits, Seen, Made, Before, frame, case
<1> QED
  BY <1>1, <1>2, <1>3, RequestStep

\* A request that read the row as it still is builds what is fair.
LEMMA LoadTimelineSound ==
  ASSUME Sound, NEW r \in Requests, LoadTimeline(r)
  PROVE  Sound'
<1> DEFINE h == [request[r] EXCEPT !.pc = "listed", !.timeline = timeline]
<1>1. request[r] \in Handlers /\ timeline \in Timelines /\ "listed" \in RequestPcs
  BY Types, HandlerTyped, Pcs DEF Sound, Typed, CaseTyped
<1>2. h \in Handlers /\ h.pc = "listed" /\ h.view = request[r].view /\ h.timeline = timeline
  <2>1. h \in Handlers
    BY <1>1, HandlerMoved
  <2> QED
    BY <1>1, <2>1 DEF Handlers
<1>3. /\ request' = [request EXCEPT ![r] = h] /\ UNCHANGED <<frame, misled>>
      /\ torn' = torn \/ torn' = torn \union {r}
      /\ r \notin torn' => request[r].view = row
      /\ request[r].pc \in {"read", "patched"}
  BY DEF LoadTimeline
<1> HIDE DEF h
<1>4. ASSUME request'[r] = h
      PROVE  Fits(r)'
  <2>1. /\ request[r].view.edits \subseteq row.edits /\ row.edits \subseteq timeline.events
        /\ \A n \in timeline.events : n <= timeline.last
        /\ ~ (writer # None /\ writer.who = r)
    BY <1>3 DEF Sound, Numbered, Fits, Seen
  <2>2. Seen(r)'
    BY <1>2, <1>3, <1>4, <2>1 DEF Seen, frame, case
  <2>3. r \notin torn' => Build(r)' = Truth
    BY <1>2, <1>3, <1>4 DEF Build, Truth
  <2>4. Fair(Truth)
    BY <1>1, <2>1 DEF Fair, Truth, Timelines
  <2>5. Fair(Build(r))' \/ r \in torn'
    BY <1>3, <2>3, <2>4 DEF Fair, Truth, frame, case
  <2>6. Made(r)'
    BY <1>2, <1>3, <1>4, <2>5 DEF Sound, Fits, Made, Before, frame, case
  <2> QED
    BY <2>2, <2>6 DEF Fits
<1> QED
  BY <1>2, <1>3, <1>4, RequestStep

\* An answer that has the edits of the row the request read.
LEMMA AnswerSound ==
  ASSUME Sound, NEW r \in Requests, NEW answer \in Dossiers, Answer(r, answer),
         request[r].pc \in {"listed", "stored"}, UNCHANGED <<frame, torn>>,
         misled' \in {misled, misled \union {r}},
         \/ request[r].view.edits \subseteq answer.row.edits
         \/ r \in misled' \union overtaken
  PROVE  Sound'
<1> DEFINE h == Handler("answered", request[r].view, answer)
<1>1. h \in Handlers
  BY HandlerTyped DEF Sound, RequestPcs
<1>2. h.pc = "answered" /\ h.view = request[r].view /\ h.answer = answer
  BY DEF Handler
<1>3. request' = [request EXCEPT ![r] = h]
  BY DEF Answer
<1> HIDE DEF h
<1>4. ASSUME request'[r] = h
      PROVE  Fits(r)'
  BY <1>2, <1>4 DEF Sound, Fits, Seen, Made, Before, frame, case
<1> QED
  BY <1>1, <1>3, <1>4, RequestStep

LEMMA AnswerOpenSound ==
  ASSUME Sound, NEW r \in Requests, AnswerOpen(r)
  PROVE  Sound'
<1>1. Build(r) \in Dossiers /\ Build(r).row = request[r].view
  BY HandlerTyped DEF Sound, Build
<1> QED
  BY <1>1, AnswerSound DEF AnswerOpen

\* A request goes on to look at the snapshot, and to what it has loaded of it.
LEMMA GoesOn ==
  ASSUME Sound, NEW r \in Requests, NEW pc \in {"built", "ready"}, NEW s \in SnapshotOrNone,
         request[r].pc \in {"listed", "built"}, UNCHANGED <<frame, torn, misled>>,
         request' = [request EXCEPT ![r] = [request[r] EXCEPT !.pc = pc, !.loaded = s]],
         pc = "ready" => s = snapshot
  PROVE  Sound'
<1> DEFINE h == [request[r] EXCEPT !.pc = pc, !.loaded = s]
<1>1. /\ h \in Handlers /\ h.pc = pc /\ h.view = request[r].view
      /\ h.timeline = request[r].timeline /\ h.loaded = s
  <2>1. request[r] \in Handlers /\ pc \in RequestPcs
    BY HandlerTyped, Pcs DEF Sound
  <2>2. h \in Handlers
    BY <2>1, HandlerMoved
  <2> QED
    BY <2>1, <2>2 DEF Handlers
<1> HIDE DEF h
<1>2. request' = [request EXCEPT ![r] = h]
  BY DEF h
<1>3. ASSUME request'[r] = h
      PROVE  Fits(r)'
  <2>1. Build(r)' = Build(r)
    BY <1>1, <1>3 DEF Build
  <2>2. Fair(Build(r)) => Fair(Build(r))'
    BY <2>1 DEF Fair, Truth, frame, case
  <2>3. Seen(r)'
    BY <1>1, <1>3 DEF Sound, Fits, Seen, frame, case
  <2>4. Made(r)'
    BY <1>1, <1>3, <2>2 DEF Sound, Fits, Made, Before, frame, case
  <2> QED
    BY <2>3, <2>4 DEF Fits
<1> QED
  BY <1>1, <1>2, <1>3, RequestStep

\* A snapshot that is current and to be trusted has the edits of the row.
LEMMA CurrentHasEdits ==
  ASSUME Sound, NEW r \in Requests, request[r].pc = "listed", Current(r, snapshot),
         ~ Suspect(snapshot), ~ Outrun(snapshot)
  PROVE  request[r].view.edits \subseteq snapshot.payload.row.edits
<1>1. /\ snapshot # None /\ Fair(snapshot.payload)
      /\ request[r].timeline.last = snapshot.payload.timeline.last
      /\ late \subseteq snapshot.payload.timeline.events
  BY DEF Sound, Kept, Current, Outrun
<1>2. /\ request[r].view.edits \subseteq row.edits /\ row.edits \subseteq timeline.events
      /\ \A n \in request[r].view.edits : n <= request[r].timeline.last
  BY DEF Sound, Numbered, Fits, Seen
<1>3. ASSUME NEW n \in request[r].view.edits
      PROVE  n \in snapshot.payload.timeline.events
  BY <1>1, <1>2, <1>3 DEF Fair
<1> QED
  BY <1>1, <1>2, <1>3 DEF Fair

LEMMA LookSound ==
  ASSUME Sound, NEW r \in Requests, Look(r)
  PROVE  Sound'
<1>1. /\ request[r].pc = "listed" /\ request[r] \in Handlers /\ snapshot \in SnapshotOrNone
      /\ UNCHANGED <<frame, torn>>
  BY HandlerTyped, Types DEF Look, Sound, Typed
<1>2. CASE r \in Refreshes
  <2>1. /\ request' = [request EXCEPT ![r] = [request[r] EXCEPT !.pc = "built",
                                                               !.loaded = request[r].loaded]]
        /\ misled' = misled
    BY <1>1, <1>2 DEF Look, Handlers
  <2>2. request[r].loaded \in SnapshotOrNone
    BY <1>1 DEF Handlers
  <2> QED
    BY <1>1, <2>1, <2>2, GoesOn
<1>3. CASE r \notin Refreshes /\ Current(r, snapshot)
  <2>1. /\ Answer(r, snapshot.payload)
        /\ misled' = IF Suspect(snapshot) \/ Outrun(snapshot) THEN misled \union {r}
                     ELSE misled
    BY <1>3 DEF Look
  <2>2. snapshot.payload \in Dossiers
    BY <1>3, HandlerTyped DEF Sound, Current
  <2>3. r \in misled' \/ request[r].view.edits \subseteq snapshot.payload.row.edits
    BY <1>1, <1>3, <2>1, CurrentHasEdits
  <2> QED
    BY <1>1, <2>1, <2>2, <2>3, AnswerSound
<1>4. CASE r \notin Refreshes /\ ~ Current(r, snapshot)
  <2> DEFINE pc == IF snapshot = None THEN "built" ELSE "ready"
  <2>1. /\ request' = [request EXCEPT ![r] = [request[r] EXCEPT !.pc = pc, !.loaded = snapshot]]
        /\ misled' = misled
    BY <1>4 DEF Look
  <2>2. pc \in {"built", "ready"}
    OBVIOUS
  <2> HIDE DEF pc
  <2> QED
    BY <1>1, <2>1, <2>2, GoesOn
<1> QED
  BY <1>2, <1>3, <1>4

LEMMA LoadSnapshotSound ==
  ASSUME Sound, NEW r \in Requests, LoadSnapshot(r)
  PROVE  Sound'
<1>1. /\ request[r].pc = "built" /\ snapshot \in SnapshotOrNone
      /\ UNCHANGED <<frame, torn, misled>>
      /\ request' = [request EXCEPT ![r] = [request[r] EXCEPT !.pc = "ready",
                                                             !.loaded = snapshot]]
  BY Types DEF LoadSnapshot, Sound, Typed
<1> QED
  BY <1>1, GoesOn

\* What a request that nobody stored across reads again is what it built.
LEMMA RefreshSound ==
  ASSUME Sound, NEW r \in Requests, Refresh(r)
  PROVE  Sound'
<1>1. /\ request[r].pc = "stored" /\ snapshot # None
      /\ r \in overtaken \/ snapshot.payload.row = request[r].view
  <2>1. request[r].pc = "stored"
    BY DEF Refresh
  <2>2. snapshot # None /\ (r \notin overtaken => snapshot.payload = Build(r))
    BY <2>1 DEF Sound, Fits, Made
  <2> QED
    BY <2>1, <2>2 DEF Build
<1>2. snapshot.payload \in Dossiers
  BY <1>1, HandlerTyped DEF Sound
<1> QED
  BY <1>1, <1>2, AnswerSound DEF Refresh

----------------------------------------------------------------------------
(* The store                                                               *)

\* Behind the payload and the event is r where they are what r has, and else who
\* was before.
Stored(r, new) ==
    \/ new.maker = r /\ new.dater = r /\ new.payload = Build(r)
       /\ new.event = request[r].timeline.last
    \/ new.maker # new.dater
    \/ /\ snapshot # None /\ new.maker = snapshot.maker /\ new.dater = snapshot.dater
       /\ new.payload = snapshot.payload /\ new.event = snapshot.event

LEMMA WrittenStored ==
  ASSUME Sound, NEW r \in Requests, request[r].pc = "ready", NEW old \in Snapshots,
         old = request[r].loaded
  PROVE  LET new == Written(r, old, snapshot)
         IN  /\ new \in Snapshots /\ new.maker \in {r, snapshot.maker}
             /\ new.dater \in {r, snapshot.dater}
             /\ Stored(r, new)
             /\ snapshot = old => new.payload = Build(r)
<1> DEFINE last    == request[r].timeline.last
           event   == IF last = old.event THEN snapshot.event ELSE last
           payload == IF Build(r) = old.payload THEN snapshot.payload ELSE Build(r)
           maker   == IF payload = Build(r) THEN r ELSE snapshot.maker
           dater   == IF event = last THEN r ELSE snapshot.dater
           status  == IF request[r].view.status = old.status THEN snapshot.status
                      ELSE request[r].view.status
           new     == [status |-> status, event |-> event, payload |-> payload,
                       maker |-> maker, dater |-> dater]
<1>1. Written(r, old, snapshot) = new
  BY DEF Written
<1>2. /\ snapshot \in Snapshots /\ snapshot.maker # r /\ snapshot.dater # r
      /\ request[r] \in Handlers /\ Build(r) \in Dossiers
  <2>1. snapshot \in SnapshotOrNone /\ request[r].loaded # None
    BY Types, NoneAssumption DEF Sound, Typed
  <2> QED
    BY <2>1, HandlerTyped DEF Sound, Fits, Made, Before, SnapshotOrNone
<1>3. /\ last \in Nat /\ request[r].view.status \in Statuses
      /\ snapshot.event \in Nat /\ snapshot.payload \in Dossiers /\ snapshot.status \in Statuses
      /\ snapshot.maker \in Requests /\ snapshot.dater \in Requests
  BY <1>2 DEF Handlers, Timelines, Rows, Snapshots
<1>4. /\ event \in Nat /\ payload \in Dossiers /\ status \in Statuses
      /\ maker \in Requests /\ dater \in Requests
  BY <1>2, <1>3
<1>5. new \in Snapshots
  BY <1>4 DEF Snapshots
<1>6. Stored(r, new)
  <2>1. CASE maker = r /\ dater = r
    <3>1. payload = Build(r) /\ event = last
      BY <1>2, <2>1
    <3> QED
      BY <2>1, <3>1 DEF Stored
  <2>2. CASE maker # dater
    BY <2>2 DEF Stored
  <2>3. CASE maker # r /\ dater # r
    <3>1. payload = snapshot.payload /\ event = snapshot.event
      BY <2>3
    <3>2. snapshot # None
      BY <1>2, NoneAssumption
    <3> QED
      BY <2>3, <3>1, <3>2 DEF Stored
  <2> QED
    BY <2>1, <2>2, <2>3
<1>7. snapshot = old => new.payload = Build(r)
  OBVIOUS
<1>8. new.maker \in {r, snapshot.maker} /\ new.dater \in {r, snapshot.dater}
  OBVIOUS
<1> HIDE DEF new
<1> QED
  BY <1>1, <1>5, <1>6, <1>7, <1>8

LEMMA StoreSound ==
  ASSUME Sound, NEW r \in Requests, Store(r)
  PROVE  Sound'
<1>1. /\ request[r].pc = "ready" /\ request[r] \in Handlers /\ UNCHANGED <<case, torn, misled>>
      /\ overtaken' = overtaken \union
            {q \in Requests \ {r} : request[q].pc \in {"ready", "stored"}}
      /\ Typed
  BY HandlerTyped, Types DEF Store, Sound
<1>2. CASE request[r].loaded = None /\ snapshot # None
  <2> DEFINE h == Handler("failed", request[r].view, request[r].answer)
  <2>1. h \in Handlers /\ h.pc = "failed" /\ h.view = request[r].view
    <3>1. request[r].answer \in Dossiers
      BY <1>1 DEF Handlers
    <3> QED
      BY <3>1, HandlerTyped DEF Sound, Handler, RequestPcs
  <2>2. request' = [request EXCEPT ![r] = h] /\ snapshot' = snapshot
    BY <1>2 DEF Store
  <2> HIDE DEF h
  <2>3. request'[r] = h /\ \A q \in Requests \ {r} : request'[q] = request[q]
    BY <1>1, <2>2 DEF Typed
  <2>4. Typed'
    BY <1>1, <2>1, <2>2 DEF Typed, CaseTyped, case
  <2>5. Numbered' /\ Kept'
    BY <1>1, <2>2 DEF Sound, Numbered, Kept, Fair, Suspect, Truth, case
  <2>6. Fits(r)'
    BY <1>1, <2>1, <2>2, <2>3 DEF Sound, Fits, Seen, Made, Before, case
  <2>7. ASSUME NEW q \in Requests \ {r}
        PROVE  Fits(q)'
    BY <1>1, <2>2, <2>3 DEF Sound, Fits, Seen, Made, Fair, Build, Truth, case
  <2> QED
    BY <2>4, <2>5, <2>6, <2>7, Types DEF Sound
<1>3. CASE request[r].loaded # None \/ snapshot = None
  <2> DEFINE h == [request[r] EXCEPT !.pc = "stored"]
  <2>1. request' = [request EXCEPT ![r] = h]
    BY <1>3 DEF Store
  <2>2. /\ h \in Handlers /\ h.pc = "stored" /\ h.view = request[r].view
        /\ h.timeline = request[r].timeline
    <3>1. request[r] \in Handlers /\ "stored" \in RequestPcs
      BY <1>1, Pcs DEF Typed
    <3>2. h \in Handlers
      BY <3>1, HandlerMoved
    <3> QED
      BY <3>1, <3>2 DEF Handlers
  <2> HIDE DEF h
  <2>3. request'[r] = h /\ \A q \in Requests \ {r} : request'[q] = request[q]
    BY <1>1, <2>1 DEF Typed
  <2>4. /\ snapshot' \in Snapshots
        /\ snapshot'.maker = r \/ (snapshot # None /\ snapshot'.maker = snapshot.maker)
        /\ snapshot'.dater = r \/ (snapshot # None /\ snapshot'.dater = snapshot.dater)
        /\ Stored(r, snapshot')
        /\ snapshot = request[r].loaded => snapshot'.payload = Build(r)
    <3>1. CASE request[r].loaded # None
      <4>1. request[r].loaded \in Snapshots /\ snapshot # None
        BY <1>1, <3>1 DEF Handlers, SnapshotOrNone, Sound, Fits, Made
      <4>2. snapshot' = Written(r, request[r].loaded, snapshot)
        BY <3>1 DEF Store
      <4> QED
        BY <1>1, <4>1, <4>2, WrittenStored
    <3>2. CASE request[r].loaded = None /\ snapshot = None
      <4>1. snapshot' = [status |-> request[r].view.status, event |-> request[r].timeline.last,
                         payload |-> Build(r), maker |-> r, dater |-> r]
        BY <3>2 DEF Store
      <4>2. Build(r) \in Dossiers /\ request[r].view.status \in Statuses
              /\ request[r].timeline.last \in Nat
        BY <1>1, HandlerTyped DEF Sound, Handlers, Rows, Timelines
      <4> QED
        BY <4>1, <4>2 DEF Snapshots, Stored
    <3> QED
      BY <1>3, <3>1, <3>2
  <2>5. snapshot' # None
    BY <2>4, NoneAssumption
  <2>6. Typed'
    BY <1>1, <2>1, <2>2, <2>4 DEF Typed, CaseTyped, case, SnapshotOrNone
  <2>7. Numbered'
    BY <1>1 DEF Sound, Numbered, case
  <2>8. ASSUME ~ Suspect(snapshot')
        PROVE  Fair(snapshot'.payload) /\ snapshot'.event = snapshot'.payload.timeline.last
    <3>1. CASE /\ snapshot'.maker = r /\ snapshot'.payload = Build(r)
               /\ snapshot'.event = request[r].timeline.last
      <4>1. r \notin torn
        BY <1>1, <2>8, <3>1 DEF Suspect
      <4> QED
        BY <1>1, <3>1, <4>1 DEF Sound, Fits, Made, Build
    <3>2. CASE /\ snapshot # None /\ snapshot'.maker = snapshot.maker
               /\ snapshot'.dater = snapshot.dater
               /\ snapshot'.payload = snapshot.payload /\ snapshot'.event = snapshot.event
      BY <2>8, <3>2 DEF Sound, Kept, Suspect
    <3> QED
      BY <2>4, <2>8, <3>1, <3>2 DEF Stored, Suspect
  <2>9. Kept'
    BY <1>1, <2>8 DEF Kept, Fair, Suspect, Truth, case
  <2>10. Fits(r)'
    <3>1. Build(r)' = Build(r)
      BY <2>2, <2>3 DEF Build
    <3>2. Seen(r)'
      BY <1>1, <2>2, <2>3 DEF Sound, Fits, Seen, case
    <3>3. Made(r)'
      BY <1>1, <2>2, <2>3, <2>4, <2>5, <3>1 DEF Sound, Fits, Made, Before
    <3> QED
      BY <3>2, <3>3 DEF Fits
  <2>11. ASSUME NEW q \in Requests \ {r}
         PROVE  Fits(q)'
    <3>1. request'[q] = request[q] /\ Build(q)' = Build(q) /\ (Fair(Build(q)) => Fair(Build(q))')
      BY <1>1, <2>3 DEF Build, Fair, Truth, case
    <3>2. Seen(q)'
      BY <1>1, <3>1 DEF Sound, Fits, Seen, case
    <3>3. Made(q)'
      BY <1>1, <2>4, <2>5, <3>1 DEF Sound, Fits, Made, Before
    <3> QED
      BY <3>2, <3>3 DEF Fits
  <2> QED
    BY <2>6, <2>7, <2>9, <2>10, <2>11, Types DEF Sound
<1> QED
  BY <1>2, <1>3

----------------------------------------------------------------------------
(* The case                                                                *)

\* An event that is committed leaves what is fair so: if it comes late, that is
\* kept.
LEMMA CommitFair ==
  ASSUME Sound, NEW id \in 1 .. ids, id \notin timeline.events, Publish(id), row' \in Rows,
         row'.edits \in {row.edits, row.edits \union {id}},
         NEW d \in Dossiers, Fair(d)
  PROVE  Fair(d)'
<1>1. /\ timeline \in Timelines /\ ids \in Nat /\ late \subseteq Nat
      /\ d.timeline \in Timelines /\ d.row \in Rows /\ id \in Nat
  BY Types DEF Sound, Typed, CaseTyped, Dossiers
<1>2. /\ timeline'.events = timeline.events \union {id}
      /\ timeline'.last = IF id > timeline.last THEN id ELSE timeline.last
      /\ late' = IF id < timeline.last THEN late \union {id} ELSE late
  BY DEF Publish
<1>3. timeline.last \in Nat /\ d.timeline.last \in Nat /\ id # timeline.last
  BY <1>1 DEF Timelines, Sound, Numbered
<1>4. d.timeline.last <= timeline'.last
  BY <1>2, <1>3 DEF Fair
<1>5. d.row.edits = d.timeline.events \intersect row'.edits
  BY DEF Fair
<1>6. \A n \in timeline'.events \ d.timeline.events : n <= d.timeline.last => n \in late'
  BY <1>2, <1>3 DEF Fair
<1>7. d.timeline.events \subseteq timeline'.events /\ d.timeline.events # timeline'.events
  BY <1>2 DEF Fair
<1> QED
  BY <1>4, <1>5, <1>6, <1>7 DEF Fair

\* A change of the case: what was fair stays so, and no request loses what it saw.
LEMMA CaseStep ==
  ASSUME Sound, CaseTyped', Numbered', request' \in [Requests -> Handlers],
         UNCHANGED <<snapshot, history>>,
         ASSUME NEW d \in Dossiers, Fair(d) PROVE Fair(d)',
         \A r \in Requests : Seen(r)',
         \A r \in Requests : \/ request'[r] = request[r]
                             \/ request[r].pc \in Before /\ request'[r].pc \in {"flushed", "patched"}
  PROVE  Sound'
<1>1. Typed'
  BY Types DEF Typed, Sound, history
<1>2. \A d \in Dossiers : Fair(d) => Fair(d)'
  OBVIOUS
<1>3. Kept'
  BY <1>2, HandlerTyped DEF Sound, Kept, Suspect, history, SnapshotOrNone, Snapshots, TypeOK
<1>4. ASSUME NEW r \in Requests
      PROVE  Made(r)'
  <2>1. CASE request'[r] = request[r]
    <3>1. Build(r)' = Build(r) /\ (Fair(Build(r)) => Fair(Build(r))')
      BY <1>2, <2>1, HandlerTyped DEF Build, Sound
    <3> QED
      BY <2>1, <3>1 DEF Sound, Fits, Made, history
  <2>2. CASE request[r].pc \in Before /\ request'[r].pc \in {"flushed", "patched"}
    BY <2>2 DEF Sound, Fits, Made, Before, history
  <2> QED
    BY <2>1, <2>2
<1> QED
  BY <1>1, <1>3, <1>4, Types DEF Sound, Fits

\* The edit is seen by nobody until it is committed.
LEMMA LockKeeps ==
  ASSUME Sound, NEW e \in Editors, NEW newRow \in Rows, Lock(e, newRow),
         newRow.edits = row.edits \union {ids + 1},
         confirm' \in [Confirms -> {"idle", "flushed", "over"}]
  PROVE  /\ CaseTyped' /\ Numbered' /\ UNCHANGED <<row, timeline, late, snapshot, history>>
         /\ writer = None /\ writer' # None /\ writer'.who = e /\ writer'.row = newRow
         /\ \A d \in Dossiers : Fair(d) => Fair(d)'
<1>1. /\ writer = None /\ ids' = ids + 1 /\ Typed
      /\ writer' = [who |-> e, id |-> ids + 1, row |-> newRow]
      /\ UNCHANGED <<row, timeline, inserted, extra, late, snapshot, history>>
  BY Types DEF Lock, Sound
<1>2. writer' \in Writers /\ writer' # None
  BY <1>1, NoneAssumption DEF Writers, Typed, CaseTyped
<1>3. CaseTyped'
  BY <1>1, <1>2 DEF Typed, CaseTyped
<1>4. Numbered'
  <2>1. ids \in Nat /\ timeline.events \subseteq Nat /\ inserted \subseteq Nat
    BY <1>1 DEF Typed, CaseTyped, Timelines
  <2> QED
    BY <1>1, <2>1 DEF Sound, Numbered
<1>5. \A d \in Dossiers : Fair(d) => Fair(d)'
  BY <1>1 DEF Fair, Truth
<1> QED
  BY <1>1, <1>2, <1>3, <1>4, <1>5

LEMMA PatchSound ==
  ASSUME Sound, NEW p \in Requests, Patch(p)
  PROVE  Sound'
<1>1. PICK status \in Statuses :
         /\ Lock(p, [status |-> IF status = request[p].view.status THEN row.status ELSE status,
                     edits  |-> row.edits \union {ids + 1}])
         /\ request' = [request EXCEPT ![p].pc = "flushed",
                          ![p].view = [status |-> status, edits |-> @.edits \union {ids + 1}]]
  BY DEF Patch
<1>2. p \in Editors /\ request[p].pc = "read" /\ confirm' = confirm /\ Typed
  BY Types DEF Patch, Editors, Sound
<1> DEFINE view   == [status |-> status, edits |-> request[p].view.edits \union {ids + 1}]
           newRow == [status |-> IF status = request[p].view.status THEN row.status ELSE status,
                      edits  |-> row.edits \union {ids + 1}]
           h      == [request[p] EXCEPT !.pc = "flushed", !.view = view]
<1>3. request[p] \in Handlers /\ ids + 1 \in Nat /\ row \in Rows
  BY <1>2, HandlerTyped DEF Sound, Typed, CaseTyped
<1>4. view \in Rows /\ newRow \in Rows
  BY <1>3 DEF Rows, Handlers
<1>5. h \in Handlers /\ h.pc = "flushed" /\ h.view = view
  <2>1. "flushed" \in RequestPcs
    BY Pcs
  <2>2. h \in Handlers
    BY <1>3, <1>4, <2>1, HandlerMoved
  <2> QED
    BY <1>3, <2>2 DEF Handlers
<1>6. request' = [request EXCEPT ![p] = h]
  BY <1>1
<1>7. /\ CaseTyped' /\ Numbered' /\ UNCHANGED <<row, timeline, late, snapshot, history>>
      /\ writer = None /\ writer' # None /\ writer'.who = p /\ writer'.row = newRow
      /\ \A d \in Dossiers : Fair(d) => Fair(d)'
  BY <1>1, <1>2, <1>4, LockKeeps DEF Typed, CaseTyped
<1>8. view.edits \subseteq newRow.edits
  BY <1>2 DEF Sound, Fits, Seen
<1> HIDE DEF h, view, newRow
<1>9. request'[p] = h /\ \A r \in Requests \ {p} : request'[r] = request[r]
  BY <1>2, <1>6 DEF Typed
<1>10. ASSUME NEW r \in Requests
       PROVE  Seen(r)'
  <2>1. CASE r = p
    BY <1>5, <1>7, <1>8, <1>9, <2>1 DEF Seen
  <2>2. CASE r # p
    BY <1>7, <1>9, <2>2 DEF Sound, Fits, Seen
  <2> QED
    BY <2>1, <2>2
<1>11. request' \in [Requests -> Handlers]
  BY <1>2, <1>5, <1>6 DEF Typed
<1> QED
  BY <1>2, <1>5, <1>7, <1>9, <1>10, <1>11, CaseStep DEF Before

LEMMA ConfirmSound ==
  ASSUME Sound, NEW k \in Confirms, Confirm(k)
  PROVE  Sound'
<1> DEFINE newRow == [row EXCEPT !.edits = @ \union {ids + 1}]
<1>1. /\ Lock(k, newRow) /\ request' = request /\ Typed
      /\ confirm' = [confirm EXCEPT ![k] = "flushed"]
  BY Types DEF Confirm, Sound
<1>2. newRow \in Rows /\ newRow.edits = row.edits \union {ids + 1}
  BY <1>1 DEF Rows, Typed, CaseTyped
<1> HIDE DEF newRow
<1>3. /\ CaseTyped' /\ Numbered' /\ UNCHANGED <<row, timeline, late, snapshot, history>>
      /\ writer = None /\ writer' # None /\ writer'.who = k
      /\ \A d \in Dossiers : Fair(d) => Fair(d)'
  BY <1>1, <1>2, LockKeeps DEF Editors, Typed, CaseTyped
<1>4. k \notin Requests
  BY RequestsAssumption DEF Requests, Editors
<1>5. \A r \in Requests : Seen(r)'
  BY <1>1, <1>3, <1>4 DEF Sound, Fits, Seen
<1> QED
  BY <1>1, <1>3, <1>5, CaseStep DEF Typed

LEMMA CommitEditSound ==
  ASSUME Sound, CommitEdit
  PROVE  Sound'
<1> DEFINE who == writer.who
<1>1. /\ writer # None /\ row' = writer.row /\ Publish(writer.id) /\ writer' = None
      /\ request' = [r \in Requests |-> IF r = who
                                      THEN [request[r] EXCEPT !.pc = "patched"] ELSE request[r]]
      /\ confirm' = [k \in Confirms |-> IF k = who THEN "over" ELSE confirm[k]]
      /\ UNCHANGED <<ids, inserted, extra, snapshot, history>> /\ Typed
  BY Types DEF CommitEdit, Sound
<1>2. writer \in Writers /\ row' \in Rows /\ row'.edits = row.edits \union {writer.id}
  BY <1>1 DEF Typed, CaseTyped, Writers, Sound, Numbered
<1>3. writer.id \in 1 .. ids /\ writer.id \notin timeline.events \union inserted /\ ids \in Nat
  BY <1>1 DEF Sound, Numbered, Typed, CaseTyped
<1>4. timeline \in Timelines /\ timeline' = [events |-> timeline.events \union {writer.id},
            last |-> IF writer.id > timeline.last THEN writer.id ELSE timeline.last]
  BY <1>1 DEF Publish, Typed, CaseTyped
<1>5. CaseTyped'
  <2>1. timeline' \in Timelines
    BY <1>3, <1>4 DEF Timelines
  <2>2. late' \subseteq Nat
    BY <1>1, <1>3 DEF Publish, Typed, CaseTyped
  <2> QED
    BY <1>1, <1>2, <2>1, <2>2 DEF Typed, CaseTyped
<1>6. Numbered'
  BY <1>1, <1>2, <1>3, <1>4 DEF Sound, Numbered, Timelines
<1>7. \A d \in Dossiers : Fair(d) => Fair(d)'
  BY <1>1, <1>2, <1>3, CommitFair
<1>8. request' \in [Requests -> Handlers]
  BY <1>1, HandlerMoved DEF Typed, RequestPcs
<1>9. ASSUME NEW r \in Requests
      PROVE  /\ Seen(r)'
             /\ \/ request'[r] = request[r]
                \/ request[r].pc \in Before /\ request'[r].pc \in {"flushed", "patched"}
  <2>1. CASE r = who
    <3>1. request'[r] = [request[r] EXCEPT !.pc = "patched"] /\ request[r] \in Handlers
      BY <1>1, <2>1 DEF Typed
    <3>2. request'[r].pc = "patched" /\ request'[r].view = request[r].view
      BY <3>1 DEF Handlers
    <3>3. request[r].pc = "flushed" /\ request[r].view.edits \subseteq row'.edits
      BY <1>1, <2>1 DEF Sound, Fits, Seen
    <3> QED
      BY <1>1, <3>2, <3>3 DEF Seen, Before
  <2>2. CASE r # who
    <3>1. request'[r] = request[r]
      BY <1>1, <2>2
    <3> QED
      BY <1>1, <1>2, <2>2, <3>1 DEF Sound, Fits, Seen
  <2> QED
    BY <2>1, <2>2
<1> QED
  BY <1>1, <1>5, <1>6, <1>7, <1>8, <1>9, CaseStep

LEMMA InsertEventSound ==
  ASSUME Sound, InsertEvent
  PROVE  Sound'
<1>1. /\ ids' = ids + 1 /\ inserted' = inserted \union {ids + 1} /\ Typed
      /\ UNCHANGED <<row, timeline, writer, confirm, late, snapshot, request, history>>
      /\ extra' \in 0 .. MaxEvents
  BY Types, BoundAssumption DEF InsertEvent, Sound, Typed, CaseTyped
<1>2. CaseTyped'
  BY <1>1 DEF Typed, CaseTyped
<1>3. Numbered'
  <2>1. /\ ids \in Nat /\ timeline.events \subseteq Nat /\ inserted \subseteq Nat
        /\ writer # None => writer.id \in Nat
    BY <1>1 DEF Typed, CaseTyped, Timelines, Writers
  <2>2. \A n \in Nat : n <= ids => n <= ids' /\ n # ids + 1
    BY <1>1, <2>1
  <2>3. Numbered
    BY DEF Sound
  <2>4. ids + 1 \notin timeline.events /\ ids + 1 \in 1 .. ids'
    BY <1>1, <2>1, <2>3 DEF Numbered
  <2>5. writer # None => writer.id # ids + 1
    BY <1>1, <2>1, <2>3 DEF Numbered
  <2>6. \A n \in 1 .. ids : n \in 1 .. ids'
    BY <1>1, <2>1
  <2> QED
    BY <1>1, <2>3, <2>4, <2>5, <2>6 DEF Numbered
<1>4. \A d \in Dossiers : Fair(d) => Fair(d)'
  BY <1>1 DEF Fair, Truth
<1>5. \A r \in Requests : Seen(r)'
  BY <1>1 DEF Sound, Fits, Seen
<1> QED
  BY <1>1, <1>2, <1>3, <1>4, <1>5, CaseStep DEF Typed

LEMMA CommitEventSound ==
  ASSUME Sound, NEW id \in inserted, CommitEvent(id)
  PROVE  Sound'
<1>1. /\ Publish(id) /\ inserted' = inserted \ {id} /\ Typed
      /\ UNCHANGED <<row, ids, extra, writer, confirm, snapshot, request, history>>
  BY Types DEF CommitEvent, Sound
<1>2. id \in 1 .. ids /\ id \notin timeline.events /\ ids \in Nat /\ row \in Rows
  BY <1>1 DEF Sound, Numbered, Typed, CaseTyped
<1>3. timeline \in Timelines /\ timeline' = [events |-> timeline.events \union {id},
            last |-> IF id > timeline.last THEN id ELSE timeline.last]
  BY <1>1 DEF Publish, Typed, CaseTyped
<1>4. CaseTyped'
  <2>1. timeline' \in Timelines
    BY <1>2, <1>3 DEF Timelines
  <2>2. late' \subseteq Nat
    BY <1>1, <1>2 DEF Publish, Typed, CaseTyped
  <2> QED
    BY <1>1, <2>1, <2>2 DEF Typed, CaseTyped
<1>5. Numbered'
  BY <1>1, <1>2, <1>3 DEF Sound, Numbered, Timelines
<1>6. \A d \in Dossiers : Fair(d) => Fair(d)'
  BY <1>1, <1>2, CommitFair
<1>7. \A r \in Requests : Seen(r)'
  BY <1>1 DEF Sound, Fits, Seen
<1> QED
  BY <1>1, <1>4, <1>5, <1>6, <1>7, CaseStep DEF Typed

----------------------------------------------------------------------------
(* The specification                                                       *)

LEMMA InitSound == Init => Sound
<1> SUFFICES ASSUME Init PROVE Sound
  OBVIOUS
<1>1. row \in Rows /\ row.edits = {} /\ timeline = NoEvents
  BY DEF Init, Rows, Statuses
<1>2. request = [r \in Requests |->
                   [pc |-> "idle", view |-> row, timeline |-> NoEvents, loaded |-> None,
                    answer |-> [row |-> row, timeline |-> NoEvents]]]
  BY DEF Init, Handler
<1>3. NoEvents \in Timelines /\ NoEvents.events = {} /\ NoEvents.last = 0
  BY DEF NoEvents, Timelines
<1>4. request \in [Requests -> Handlers]
  BY <1>1, <1>2, <1>3 DEF Handlers, RequestPcs, SnapshotOrNone, Dossiers
<1>5. Typed
  BY <1>1, <1>3, <1>4, BoundAssumption DEF Init, Typed, CaseTyped, SnapshotOrNone
<1>6. Numbered /\ Kept
  BY <1>1, <1>3 DEF Init, Numbered, Kept
<1>7. \A r \in Requests : Fits(r)
  <2>1. ASSUME NEW r \in Requests
        PROVE  request[r].pc = "idle" /\ request[r].view.edits = {}
    BY <1>1, <1>2
  <2>2. writer = None /\ snapshot = None
    BY DEF Init
  <2> QED
    BY <1>1, <2>1, <2>2 DEF Fits, Seen, Made
<1> QED
  BY <1>5, <1>6, <1>7, Types DEF Sound

LEMMA NextSound == Sound /\ [Next]_vars => Sound'
<1> SUFFICES ASSUME Sound, [Next]_vars PROVE Sound'
  OBVIOUS
<1>1. ASSUME NEW r \in Requests, Request(r)
      PROVE  Sound'
  BY <1>1, ReadRowSound, PatchSound, LoadTimelineSound, AnswerOpenSound, LookSound,
     LoadSnapshotSound, StoreSound, RefreshSound DEF Request
<1>2. ASSUME NEW k \in Confirms, Confirm(k)
      PROVE  Sound'
  BY <1>2, ConfirmSound
<1>3. ASSUME NEW id \in inserted, CommitEvent(id)
      PROVE  Sound'
  BY <1>3, CommitEventSound
<1>4. CASE CommitEdit \/ InsertEvent
  BY <1>4, CommitEditSound, InsertEventSound
<1>5. CASE UNCHANGED vars
  <2>1. Typed'
    BY <1>5, Types DEF Sound, Typed, CaseTyped, vars, case, history
  <2>2. Numbered' /\ Kept'
    BY <1>5 DEF Sound, Numbered, Kept, Fair, Suspect, Truth, vars, case, history
  <2>3. ASSUME NEW r \in Requests
        PROVE  Fits(r)'
    BY <1>5 DEF Sound, Fits, Seen, Made, Fair, Build, Truth, vars, case, history
  <2> QED
    BY <2>1, <2>2, <2>3, Types DEF Sound
<1> QED
  BY <1>1, <1>2, <1>3, <1>4, <1>5 DEF Next

LEMMA AlwaysSound == Spec => []Sound
  BY InitSound, NextSound, PTL DEF Spec

----------------------------------------------------------------------------
(* Theorems                                                                *)

\* Types are kept: above all, a snapshot is always made by a request.
THEOREM TypeCorrect == Spec => []TypeOK
<1>1. Sound => TypeOK
  BY DEF Sound
<1> QED
  BY <1>1, AlwaysSound, PTL

\* A snapshot that passes for current says what the case says, unless its maker
\* was overtaken between its reads, its payload and its event are of two requests,
\* or it lacks an event that came late.
THEOREM StaleCause == Spec => []StaleHasCause
<1>1. ASSUME Sound, Serves, ~ Suspect(snapshot), ~ Outrun(snapshot)
      PROVE  snapshot.payload = Truth
  <2>1. /\ Fair(snapshot.payload) /\ late \subseteq snapshot.payload.timeline.events
        /\ snapshot.payload.timeline.last = timeline.last
    BY <1>1 DEF Serves, Sound, Kept, Outrun
  <2>2. \A n \in timeline.events : n <= timeline.last
    BY <1>1 DEF Sound, Numbered
  <2>3. snapshot.payload.timeline.events = timeline.events
    BY <2>1, <2>2 DEF Fair
  <2> QED
    BY <2>1, <2>3 DEF Fair
<1>2. Sound => StaleHasCause
  BY <1>1 DEF StaleHasCause
<1> QED
  BY <1>2, AlwaysSound, PTL

\* No answer is older than the row its request read, but for who was stored across
\* or served a snapshot that has a cause to be stale.
THEOREM AnswersNotOlder == Spec => []AnswerNotOlder
<1>1. Sound => AnswerNotOlder
  BY DEF Sound, Fits, Made, AnswerNotOlder
<1> QED
  BY <1>1, AlwaysSound, PTL
=============================================================================
