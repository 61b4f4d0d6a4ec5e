---------------------------- MODULE DossierCache ----------------------------
(***************************************************************************)
(* The dossier of one case and the snapshot that is kept of it once the    *)
(* case is closed (case_dossier_store.py), next to the requests that       *)
(* change the case: PATCH /cases and profile_confirm.                      *)
(*                                                                         *)
(* A request reads the row of the case, then its timeline, then the        *)
(* snapshot, builds a dossier of the first two and stores it in the third; *)
(* nothing holds the three together.  A snapshot counts as current when it *)
(* has the status of the row and the id of the last timeline event.        *)
(*                                                                         *)
(* A dossier is what it is built from: the status, the edits the row has   *)
(* and the timeline.  Each edit is to a column of its own, and named by    *)
(* the event that is committed with it.  Postgres reads committed rows.    *)
(*                                                                         *)
(* An event gets its id, of a sequence, when it is inserted, and is seen   *)
(* when it is committed.  An edit locks the row of the case before its     *)
(* event is inserted (the ORM flushes Case before CaseTimeline) and until  *)
(* both are committed, so edits are numbered as they commit.  The events   *)
(* of a tool and of the case's creation lock nothing that an edit locks:   *)
(* of one of these and an edit, or of two of these, the lower id may be    *)
(* committed last.                                                         *)
(***************************************************************************)
EXTENDS Naturals, FiniteSets

CONSTANTS Gets,       \* GET /cases/{id}, .../dossier and /internal/cases/status
          Refreshes,  \* GET /cases/{id}/dossier?refresh=true
          Patches,    \* PATCH /cases/{id}
          Confirms,   \* profile_confirm
          MaxEvents,  \* bound: events of a tool or of the case's creation
          None        \* no row in case_dossiers, no lock on the row

Statuses == {"open", "closed", "resolved"}
Terminal == {"closed", "resolved"}
Requests == Gets \union Refreshes \union Patches
Editors  == Patches \union Confirms

ASSUME RequestsAssumption ==
    /\ Gets \intersect (Refreshes \union Patches \union Confirms) = {}
    /\ Refreshes \intersect Editors = {}
    /\ Patches \intersect Confirms = {}
    /\ None \notin Requests
ASSUME BoundAssumption == MaxEvents \in Nat

VARIABLES row,       \* the case: its status and the edits it has
          timeline,  \* its events that are committed, and the highest id of them
          ids,       \* the last id the sequence gave
          inserted,  \* the events, not of an edit, that are not yet committed
          extra,     \* how many events are not of an edit
          writer,    \* the edit that has the lock: who, its event, what it makes of the row
          snapshot,  \* the row in case_dossiers
          request,   \* [Requests -> the handler]
          confirm,   \* [Confirms -> profile_confirm]
          late,      \* history: the events committed after one with a higher id
          torn,      \* history: the requests overtaken between their two reads
          misled,    \* history: those answered with a snapshot not to be trusted
          overtaken  \* history: those another one stored across

case == <<row, timeline, ids, inserted, extra, writer, confirm, late>>
history == <<torn, misled, overtaken>>
vars == <<case, snapshot, request, history>>

Rows      == [status : Statuses, edits : SUBSET Nat]
Timelines == [events : SUBSET Nat, last : Nat]
Dossiers  == [row : Rows, timeline : Timelines]
Writers   == [who : Editors, id : Nat, row : Rows]
\* maker and dater are history: whose payload and whose event the columns hold.
Snapshots == [status : Statuses, event : Nat, payload : Dossiers,
              maker : Requests, dater : Requests]
SnapshotOrNone == Snapshots \union {None}

ASSUME NoneAssumption == None \notin Snapshots \union Writers

NoEvents == [events |-> {}, last |-> 0]

TypeOK ==
    /\ row \in Rows
    /\ timeline \in Timelines
    /\ ids \in Nat
    /\ inserted \subseteq Nat
    /\ extra \in 0..MaxEvents
    /\ writer \in Writers \union {None}
    /\ snapshot \in SnapshotOrNone
    /\ request \in [Requests ->
         [pc : {"idle", "read", "flushed", "patched", "listed", "built", "ready", "stored",
                "answered", "failed"},
          view : Rows, timeline : Timelines, loaded : SnapshotOrNone, answer : Dossiers]]
    /\ confirm \in [Confirms -> {"idle", "flushed", "over"}]
    /\ late \subseteq Nat
    /\ torn \subseteq Requests
    /\ misled \subseteq Requests
    /\ overtaken \subseteq Requests

\* The empty handler of a request: it has read view and, once it is over, answered.
Handler(pc, view, answer) ==
    [pc |-> pc, view |-> view, timeline |-> NoEvents, loaded |-> None, answer |-> answer]

frame == <<case, snapshot, overtaken>>

----------------------------------------------------------------------------
(* Changes of the case                                                     *)

\* require_case_access.
ReadRow(r) ==
    /\ request[r].pc = "idle"
    /\ request' = [request EXCEPT ![r].pc = "read", ![r].view = row]
    /\ UNCHANGED <<frame, torn, misled>>

\* The row is written, and locked, and the event inserted.
Lock(editor, newRow) ==
    /\ writer = None
    /\ ids' = ids + 1
    /\ writer' = [who |-> editor, id |-> ids + 1, row |-> newRow]
    /\ UNCHANGED <<row, timeline, inserted, extra, late, snapshot, history>>

\* The edit and its event, and the status if the body has another one than the
\* row that was read: a column that keeps its value is not written.  The
\* request goes on with the row it read and its own changes.
Patch(p) ==
    /\ p \in Patches
    /\ request[p].pc = "read"
    /\ \E status \in Statuses :
         /\ Lock(p, [status |-> IF status = request[p].view.status THEN row.status ELSE status,
                     edits  |-> row.edits \union {ids + 1}])
         /\ request' = [request EXCEPT ![p].pc = "flushed",
                          ![p].view = [status |-> status, edits |-> @.edits \union {ids + 1}]]
    /\ UNCHANGED confirm

\* The confirmed fields and their event are one transaction.
Confirm(k) ==
    /\ confirm[k] = "idle"
    /\ Lock(k, [row EXCEPT !.edits = @ \union {ids + 1}])
    /\ confirm' = [confirm EXCEPT ![k] = "flushed"]
    /\ UNCHANGED request

\* An event is seen from its commit on.
Publish(id) ==
    /\ timeline' = [events |-> timeline.events \union {id},
                    last   |-> IF id > timeline.last THEN id ELSE timeline.last]
    /\ late' = IF id < timeline.last THEN late \union {id} ELSE late

CommitEdit ==
    /\ writer # None
    /\ row' = writer.row
    /\ Publish(writer.id)
    /\ writer' = None
    /\ request' = [r \in Requests |-> IF r = writer.who
                                      THEN [request[r] EXCEPT !.pc = "patched"] ELSE request[r]]
    /\ confirm' = [k \in Confirms |-> IF k = writer.who THEN "over" ELSE confirm[k]]
    /\ UNCHANGED <<ids, inserted, extra, snapshot, history>>

\* case_created and tool_result: an event that changes nothing in the row.
InsertEvent ==
    /\ extra < MaxEvents
    /\ extra' = extra + 1
    /\ ids' = ids + 1
    /\ inserted' = inserted \union {ids + 1}
    /\ UNCHANGED <<row, timeline, writer, confirm, late, snapshot, request, history>>

CommitEvent(id) ==
    /\ id \in inserted
    /\ Publish(id)
    /\ inserted' = inserted \ {id}
    /\ UNCHANGED <<row, ids, extra, writer, confirm, snapshot, request, history>>

----------------------------------------------------------------------------
(* get_case_dossier_payload                                                *)

\* The events are read after the row: what was committed in between is among
\* them and not in the row.
LoadTimeline(r) ==
    /\ request[r].pc = IF r \in Patches THEN "patched" ELSE "read"
    /\ request' = [request EXCEPT ![r].pc = "listed", ![r].timeline = timeline]
    /\ torn' = IF request[r].view = row THEN torn ELSE torn \union {r}
    /\ UNCHANGED <<frame, misled>>

\* Mutant of Build: the timeline is left out.
BuildRowOnly(r) == request[r].view

Build(r) == [row |-> request[r].view, timeline |-> request[r].timeline]
IsTerminal(r) == request[r].view.status \in Terminal

Answer(r, answer) == request' = [request EXCEPT ![r] = Handler("answered", @.view, answer)]

\* The dossier of a case that is not closed is built for each answer.
AnswerOpen(r) ==
    /\ request[r].pc = "listed"
    /\ ~ IsTerminal(r)
    /\ Answer(r, Build(r))
    /\ UNCHANGED <<frame, torn, misled>>

\* Mutant of Current: any snapshot of the status will do.
CurrentByStatus(r, s) == s # None /\ s.status = request[r].view.status

Current(r, s) ==
    /\ s # None
    /\ s.status = request[r].view.status
    /\ s.event = request[r].timeline.last

\* Its payload is of a request that was overtaken between its reads, or of
\* another request than its event.
Suspect(s) == s.maker \in torn \/ s.maker # s.dater

\* It was built before an event came late.
Outrun(s) == ~ late \subseteq s.payload.timeline.events

\* The snapshot is looked at, unless a refresh is asked for.
Look(r) ==
    /\ request[r].pc = "listed"
    /\ IsTerminal(r)
    /\ IF r \in Refreshes
       THEN /\ request' = [request EXCEPT ![r].pc = "built"]
            /\ UNCHANGED misled
       ELSE IF Current(r, snapshot)
       THEN /\ Answer(r, snapshot.payload)
            /\ misled' = IF Suspect(snapshot) \/ Outrun(snapshot) THEN misled \union {r}
                         ELSE misled
       ELSE /\ request' = [request EXCEPT
                 ![r].pc = IF snapshot = None THEN "built" ELSE "ready",
                 ![r].loaded = snapshot]
            /\ UNCHANGED misled
    /\ UNCHANGED <<frame, torn>>

\* It is looked for once more before it is written.
LoadSnapshot(r) ==
    /\ request[r].pc = "built"
    /\ request' = [request EXCEPT ![r].pc = "ready", ![r].loaded = snapshot]
    /\ UNCHANGED <<frame, torn, misled>>

\* Mutant of Written: the payload is changed in place and not noticed.
WrittenOldPayload(r, old, s) ==
    [s EXCEPT !.status = request[r].view.status, !.event = request[r].timeline.last]

\* What an update makes of s: it writes the columns whose values differ from
\* those that were loaded.
Written(r, old, s) ==
    LET last    == request[r].timeline.last
        event   == IF last = old.event THEN s.event ELSE last
        payload == IF Build(r) = old.payload THEN s.payload ELSE Build(r)
    IN  [status  |-> IF request[r].view.status = old.status THEN s.status
                     ELSE request[r].view.status,
         event   |-> event,
         payload |-> payload,
         maker   |-> IF payload = Build(r) THEN r ELSE s.maker,
         dater   |-> IF event = last THEN r ELSE s.dater]

\* One row per case: of two that insert it, the second fails.
Store(r) ==
    /\ request[r].pc = "ready"
    /\ IF request[r].loaded # None
       THEN /\ snapshot' = Written(r, request[r].loaded, snapshot)
            /\ request' = [request EXCEPT ![r].pc = "stored"]
       ELSE IF snapshot = None
       THEN /\ snapshot' = [status |-> request[r].view.status,
                            event |-> request[r].timeline.last,
                            payload |-> Build(r), maker |-> r, dater |-> r]
            /\ request' = [request EXCEPT ![r].pc = "stored"]
       ELSE /\ request' = [request EXCEPT ![r] = Handler("failed", @.view, @.answer)]
            /\ UNCHANGED snapshot
    /\ overtaken' = overtaken \union
         {q \in Requests \ {r} : request[q].pc \in {"ready", "stored"}}
    /\ UNCHANGED <<case, torn, misled>>

\* The row is read again after the commit: that is the answer.
Refresh(r) ==
    /\ request[r].pc = "stored"
    /\ Answer(r, snapshot.payload)
    /\ UNCHANGED <<frame, torn, misled>>

Init ==
    /\ row = [status |-> "open", edits |-> {}]
    /\ timeline = NoEvents
    /\ ids = 0 /\ inserted = {} /\ extra = 0
    /\ writer = None
    /\ snapshot = None
    /\ request = [r \in Requests |->
                     Handler("idle", row, [row |-> row, timeline |-> NoEvents])]
    /\ confirm = [k \in Confirms |-> "idle"]
    /\ late = {} /\ torn = {} /\ misled = {} /\ overtaken = {}

Request(r) ==
    \/ ReadRow(r) \/ Patch(r) \/ LoadTimeline(r) \/ AnswerOpen(r) \/ Look(r)
    \/ LoadSnapshot(r) \/ Store(r) \/ Refresh(r)

Next ==
    \/ \E r \in Requests : Request(r)
    \/ \E k \in Confirms : Confirm(k)
    \/ CommitEdit
    \/ InsertEvent
    \/ \E id \in inserted : CommitEvent(id)

Spec == Init /\ [][Next]_vars

----------------------------------------------------------------------------
(* Properties                                                              *)

Truth == [row |-> row, timeline |-> timeline]

\* The snapshot the next request would serve.
Serves == /\ snapshot # None
          /\ row.status \in Terminal
          /\ snapshot.status = row.status
          /\ snapshot.event = timeline.last

\* No dossier is older than the row its request read, its own edit included,
\* unless another request stored between its look at the snapshot and its last
\* reading of it, or it was served a snapshot with one of the causes of
\* StaleHasCause.
AnswerNotOlder ==
    \A r \in Requests :
        request[r].pc = "answered" =>
            \/ request[r].view.edits \subseteq request[r].answer.row.edits
            \/ r \in misled \union overtaken

\* A snapshot that is served says what the case says, with three causes why it
\* may not.  A request that was overtaken between its reads made it: it read the
\* row before an edit and the timeline after it, and stores the old row under the
\* new event.  Or its payload and the event it is under are of two requests that
\* stored across each other.  Or an event, with or without an edit, came late:
\* its id is lower than that of an event that was committed before it, so that it
\* does not change the last id by which a snapshot counts as current.
StaleHasCause ==
    Serves => snapshot.payload = Truth \/ Suspect(snapshot) \/ Outrun(snapshot)
=============================================================================
