-------------------------- MODULE SuggestPipeline --------------------------
(***************************************************************************)
(* What a suggest task makes and who gets to see it: run_task of the       *)
(* worker between the claim and the release, the three caches tasks of one *)
(* conversation share, the moderation of what goes in and comes out, and   *)
(* the two ways an operator follows a task, the event stream and polling.  *)
(*                                                                         *)
(* apps/worker/app/main.py, moderator.py, llm_client.py, and               *)
(* suggest_stream and suggest_status of copilot.py.  Who may run a task is *)
(* SuggestQueue's subject: here a task is run by one worker at a time, and *)
(* a worker that dies leaves the task to the reclaim loop of another one.  *)
(*                                                                         *)
(* A text is one of a few kinds that moderation and _stabilize_draft_ghost *)
(* tell apart.  The keys of the caches name a conversation and its last    *)
(* message: a task shares them with others that read more or fewer         *)
(* messages (max_messages), in which moderation may find something else,   *)
(* and a value expires after ten minutes.  So the caches are no variables: *)
(* a lookup finds nothing, or what any task may have kept there.           *)
(***************************************************************************)
EXTENDS Naturals, FiniteSets

CONSTANTS Tasks,      \* suggest task ids
          Cancelable, \* bound: the tasks an operator cancels
          None,       \* no value under a key
          MaxFaults   \* bound: workers killed, commands and calls that raise

ASSUME ConstantsAssumption ==
    /\ Cancelable \subseteq Tasks
    /\ MaxFaults \in Nat

VARIABLES task,      \* run_task of each task
          meta,      \* the status in its record
          result,    \* the text under its result key
          state,     \* the state of the conversation: last_draft, and who made
                     \* last_analyze
          cancelKey, \* the tasks with a cancel key
          stream,    \* suggest_stream of each task
          poll,      \* the tasks suggest_status has read a success of
          silent,    \* history: the tasks whose end no event tells this stream of
          lost,      \* history: the tasks whose worker stopped before the result
          unaudited, \* history: the tasks whose stream was not moderated
          expired,   \* history: the tasks whose result key has expired
          faults     \* how much of the bound was used

redisVars == <<meta, result, state, cancelKey>>
vars == <<task, redisVars, stream, poll, silent, lost, unaudited, expired, faults>>

Terminal == {"succeeded", "failed", "canceled"}
Status   == {"queued", "running"} \union Terminal
Modes    == {"ok", "warn", "block"}
Makers   == {"llm", "stub"}

\* The model's drafts and streams, good, bad or claiming a block too early;
\* the template of a safe mode; what replaces a text that moderation flags, or
\* a claim.
Streams == {"stream", "bad_stream", "claim_stream"}
ByModel == {"draft", "bad_draft", "claim_draft"} \union Streams
Texts   == ByModel \union {"template", "fallback", "instead"}

ASSUME NoneAssumption == None \notin Texts \union Status

\* before there is a draft, while it is looked at, when it is stored, and when the
\* run has ended: at the handler of its exception or its cancellation, between the
\* two commands of _set_status, cut off, or over
Storing   == {"event", "commit", "tell", "result", "report"}
Preparing == {"waiting", "claimed", "input", "analyze", "rag", "draft"}
Ended     == {"failing", "canceling", "untold", "dead", "over"}
Pcs == Preparing \union {"stream", "streaming", "audit", "final", "state"}
       \union Storing \union Ended

New == [pc |-> "waiting", mode |-> "ok", prev |-> "stub", analysis |-> "stub",
        cached |-> FALSE, found |-> FALSE, text |-> None, delta |-> None,
        streamed |-> FALSE, blocks |-> FALSE, verdict |-> "ok", summary |-> "ok"]

TypeOK ==
    /\ task \in [Tasks -> [pc : Pcs, mode : Modes, prev : Makers, analysis : Makers,
                           cached : BOOLEAN, found : BOOLEAN, text : Texts \union {None},
                           delta : Streams \union {None}, streamed : BOOLEAN,
                           blocks : BOOLEAN, verdict : {"ok", "block"}, summary : Modes]]
    /\ \A t \in Tasks : task[t].text = None <=> task[t].pc \in Preparing \union Ended
    /\ meta \in [Tasks -> Status]
    /\ result \in [Tasks -> Texts \union {None}]
    /\ state \in [draft : Texts \union {None}, analysis : Makers]
    /\ cancelKey \subseteq Tasks
    /\ stream \in [Tasks -> [pc : {"idle", "read", "on"}, shown : Texts \union {None},
                             heard : Status \union {None}]]
    /\ poll \subseteq Tasks
    /\ silent \subseteq Tasks
    /\ lost \subseteq Tasks
    /\ unaudited \subseteq Tasks
    /\ expired \subseteq Tasks
    /\ faults \in 0 .. MaxFaults

----------------------------------------------------------------------------
(* moderator.py                                                            *)

Flags == {"prompt_injection", "secrets_request", "remote_access"}

\* moderation_mode of what _scan finds in the messages
ModerationMode(flags) ==
    CASE flags = {} -> "ok"
      [] Cardinality(flags) >= 2 -> "block"
      [] OTHER -> "warn"

\* moderate_output: the warnings of the templates and of the fallback itself
\* name what its patterns look for.
Flagged(text) == text \in {"bad_draft", "bad_stream", "template", "fallback"}
OutputMode(text) == IF Flagged(text) THEN "block" ELSE "ok"

\* summarize_security_moderation: the worst of its parts
Worst(modes) == IF "block" \in modes THEN "block"
                ELSE IF "warn" \in modes THEN "warn" ELSE "ok"

\* Mutant of AfterModeration: a text of the cache was moderated before.
AfterModerationTrusting(text) == IF text = "bad_draft" THEN text ELSE "fallback"

\* _output_fallback
AfterModeration(text) == IF Flagged(text) THEN "fallback" ELSE text

\* _stabilize_draft_ghost: blocks says that the phase is not Explain and
\* block_card is on the list of tools.
Claims(text) == text \in {"claim_draft", "claim_stream"}

Stabilized(t, text) == IF task[t].blocks /\ Claims(text) THEN "instead" ELSE text

----------------------------------------------------------------------------
(* Redis: the record of a task and its channel                             *)

\* A published text or status reaches the stream that has subscribed.
Shown(t, text) == IF stream[t].pc = "on" THEN [stream[t] EXCEPT !.shown = text]
                  ELSE stream[t]
Heard(t, status) == IF stream[t].pc = "on" THEN [stream[t] EXCEPT !.heard = status]
                    ELSE stream[t]

Show(t, text)    == stream' = [stream EXCEPT ![t] = Shown(t, text)]
Tell(t, status)  == stream' = [stream EXCEPT ![t] = Heard(t, status)]
Store(t, status) == meta' = [meta EXCEPT ![t] = status]

Go(t, pc) == task' = [task EXCEPT ![t].pc = pc]
Leave(t, pc) == task' = [task EXCEPT ![t] = [New EXCEPT !.pc = pc, !.mode = task[t].mode]]

readers == <<poll, silent, lost, unaudited, expired>>

\* One more fault, within the bound.
Fault == faults < MaxFaults /\ faults' = faults + 1

\* An end is stored, and no event has told of it yet.
Untold(t) ==
    \/ task[t].pc \in {"tell", "untold"}
    \/ task[t].pc = "failing" /\ meta[t] \in Terminal

\* RuntimeError('canceled'), where the flag is looked at.
AtCheck(t) ==
    \/ task[t].pc = "input"
    \/ task[t].pc = "final" /\ ~ task[t].streamed

Cancel(t) ==
    /\ t \in Cancelable \ cancelKey
    /\ cancelKey' = cancelKey \union {t}
    /\ UNCHANGED <<task, meta, result, state, stream, readers, faults>>

----------------------------------------------------------------------------
(* run_task                                                                *)

\* _claim_task
Claim(t) ==
    /\ task[t].pc = "waiting"
    /\ meta[t] \notin Terminal
    /\ Store(t, "running")
    /\ Go(t, "claimed")
    /\ UNCHANGED <<result, state, cancelKey, stream, readers, faults>>

\* Canceled before it began.
DropCanceled(t) ==
    /\ task[t].pc = "claimed"
    /\ t \in cancelKey
    /\ Store(t, "canceled")
    /\ Leave(t, "untold")
    /\ UNCHANGED <<result, state, cancelKey, stream, readers, faults>>

\* The status is published and the state read.
Begin(t) ==
    /\ task[t].pc = "claimed"
    /\ t \notin cancelKey
    /\ Tell(t, "running")
    /\ task' = [task EXCEPT ![t].pc = "input", ![t].prev = state.analysis]
    /\ UNCHANGED <<redisVars, readers, faults>>

\* The messages are read and moderated, to the same effect in every run of the
\* task.
ModerateInput(t) ==
    /\ task[t].pc = "input"
    /\ t \notin cancelKey
    /\ Go(t, "analyze")
    /\ UNCHANGED <<redisVars, stream, readers, faults>>

\* llm_client.analyze: the model, with the stub where none is configured; a safe
\* mode goes to the stub at once.
Analysts(mode) == IF mode = "ok" THEN {"llm", "stub"} ELSE {"stub"}

\* _hydrate_analyze: facts, risk, flags and tags of the last analysis are taken over,
\* so that one with anything of the model in it stays the model's.
Hydrated(made, prev) == IF prev = "llm" THEN "llm" ELSE made

\* _run_analyze: the cache, filled by tasks of any mode, or what is then kept.
Analyze(t) ==
    /\ task[t].pc = "analyze"
    /\ \E cached \in BOOLEAN :
       \E made \in IF cached THEN Makers ELSE Analysts(task[t].mode) :
          task' = [task EXCEPT ![t].pc = "rag", ![t].cached = cached,
                               ![t].analysis = Hydrated(made, task[t].prev)]
    /\ UNCHANGED <<redisVars, stream, readers, faults>>

\* What a search finds and its cache keeps, as it was found.
Chunks == {"clean", "mixed"}

\* From the search or its cache; a chunk that moderate_retrieved_chunks blocks is
\* taken out of either.
Retrieve(t) ==
    /\ task[t].pc = "rag"
    /\ task[t].mode = "ok"
    /\ \E raw \in Chunks :
          task' = [task EXCEPT ![t].pc = "draft", ![t].found = raw = "mixed"]
    /\ UNCHANGED <<redisVars, stream, readers, faults>>

SkipRetrieval(t) ==
    /\ task[t].pc = "rag"
    /\ task[t].mode # "ok"
    /\ Go(t, "draft")
    /\ UNCHANGED <<redisVars, stream, readers, faults>>

\* Mutant of DraftTexts: a warning does not keep the model out.
DraftTextsWarned(mode) ==
    IF mode = "block" THEN {"template"} ELSE {"draft", "bad_draft", "claim_draft"}

\* _run_draft without a cache: a template in a safe mode.
DraftTexts(mode) ==
    IF mode = "ok" THEN {"draft", "bad_draft", "claim_draft"} ELSE {"template"}

\* What a task has kept is moderated, and kept again by the task that finds it.
KeptDrafts == {AfterModeration(text) : text \in UNION {DraftTexts(mode) : mode \in Modes}}

\* _run_draft, moderate_model_output and _output_fallback; the draft is kept.
Draft(t) ==
    /\ task[t].pc = "draft"
    /\ \E cached, blocks \in BOOLEAN :
       \E text \in IF cached THEN KeptDrafts ELSE DraftTexts(task[t].mode) :
          task' = [task EXCEPT
                     ![t].pc = IF task[t].mode = "ok" THEN "stream" ELSE "final",
                     ![t].text = AfterModeration(text), ![t].verdict = OutputMode(text),
                     ![t].blocks = blocks, ![t].cached = task[t].cached \/ cached]
    /\ UNCHANGED <<redisVars, stream, readers, faults>>

\* stream_ghost: the deltas are published as they come ...
StreamDelta(t) ==
    /\ task[t].pc = "stream"
    /\ t \notin cancelKey
    /\ \E text \in Streams :
          /\ task' = [task EXCEPT ![t].pc = "streaming", ![t].delta = text]
          /\ Show(t, text)
    /\ UNCHANGED <<redisVars, readers, faults>>

\* Mutant of StreamNothing: what was collected is taken, also if it is nothing.
StreamNothingTaken(t) ==
    /\ task[t].pc \in {"stream", "streaming"}
    /\ task' = [task EXCEPT ![t].pc = "final", ![t].text = task[t].delta,
                            ![t].delta = None]
    /\ UNCHANGED <<redisVars, stream, readers, faults>>

\* ... or there is none, or the flag, like any exception, ends the stream: the
\* draft stays, and what was shown is replaced by it.
StreamNothing(t) ==
    /\ task[t].pc \in {"stream", "streaming"}
    /\ task' = [task EXCEPT ![t].pc = "final", ![t].delta = None]
    /\ UNCHANGED <<redisVars, stream, readers, faults>>

\* The streamed text takes the place of the draft, and is moderated after it
\* was shown.
StreamEnds(t) ==
    /\ task[t].pc = "streaming"
    /\ task' = [task EXCEPT ![t].pc = "audit", ![t].text = Stabilized(t, task[t].delta)]
    /\ UNCHANGED <<redisVars, stream, readers, faults>>

\* Mutant of AuditStream: the summary is of the draft that was replaced.
AuditStreamOldVerdict(t) ==
    /\ task[t].pc = "audit"
    /\ LET text == AfterModeration(task[t].text) IN
       /\ task' = [task EXCEPT ![t].pc = "final", ![t].streamed = TRUE, ![t].text = text]
       /\ IF text # task[t].delta THEN Show(t, text) ELSE UNCHANGED stream
    /\ UNCHANGED <<redisVars, readers, faults>>

\* The row moderation_output_stream; then the fallback, published if the text
\* is not the one that was shown.
AuditStream(t) ==
    /\ task[t].pc = "audit"
    /\ LET text == AfterModeration(task[t].text) IN
       /\ task' = [task EXCEPT ![t].pc = "final", ![t].streamed = TRUE, ![t].text = text,
                               ![t].verdict = OutputMode(task[t].text)]
       /\ IF text # task[t].delta THEN Show(t, text) ELSE UNCHANGED stream
    /\ UNCHANGED <<redisVars, readers, faults>>

\* The row cannot be written: `except Exception` goes on with the streamed text
\* in the draft, which nothing moderates any more.
AuditStreamRaises(t) ==
    /\ task[t].pc = "audit"
    /\ Fault
    /\ unaudited' = unaudited \union {t}
    /\ task' = [task EXCEPT ![t].pc = "final"]
    /\ UNCHANGED <<redisVars, stream, poll, silent, lost, expired>>

\* The row is written and what replaces the text cannot be published: it is sent
\* in pieces later.
AuditStreamUnseen(t) ==
    /\ task[t].pc = "audit"
    /\ LET text == AfterModeration(task[t].text) IN
       /\ text # task[t].delta
       /\ task' = [task EXCEPT ![t].pc = "final", ![t].text = text,
                               ![t].verdict = OutputMode(task[t].text)]
    /\ Fault
    /\ UNCHANGED <<redisVars, stream, readers>>

\* Stabilized once more; sent in pieces if nothing was streamed; summarized.
Finish(t) ==
    /\ task[t].pc = "final"
    /\ task[t].streamed \/ t \notin cancelKey
    /\ LET text == Stabilized(t, task[t].text)
           parts == {task[t].mode, task[t].verdict}
                    \union (IF task[t].mode = "ok" /\ task[t].found THEN {"block"} ELSE {})
       IN  /\ task' = [task EXCEPT ![t].pc = "state", ![t].text = text,
                                   ![t].summary = Worst(parts), ![t].delta = None]
           /\ IF task[t].streamed THEN UNCHANGED stream ELSE Show(t, text)
    /\ UNCHANGED <<redisVars, readers, faults>>

StoreState(t) ==
    /\ task[t].pc = "state"
    /\ state' = [draft |-> task[t].text, analysis |-> task[t].analysis]
    /\ Go(t, "event")
    /\ UNCHANGED <<meta, result, cancelKey, stream, readers, faults>>

\* The event 'result'
PublishResult(t) ==
    /\ task[t].pc = "event"
    /\ Show(t, task[t].text)
    /\ Go(t, "commit")
    /\ UNCHANGED <<redisVars, readers, faults>>

StoreSucceeded(t) ==
    /\ task[t].pc = "commit"
    /\ Store(t, "succeeded")
    /\ Go(t, "tell")
    /\ UNCHANGED <<result, state, cancelKey, stream, readers, faults>>

TellSucceeded(t) ==
    /\ task[t].pc = "tell"
    /\ Tell(t, "succeeded")
    /\ Go(t, "result")
    /\ UNCHANGED <<redisVars, readers, faults>>

\* Mutant of StoreResult: a streamed text was delivered already.
StoreResultUnlessStreamed(t) ==
    /\ task[t].pc = "result"
    /\ result' = [result EXCEPT ![t] = IF task[t].streamed THEN @ ELSE task[t].text]
    /\ Go(t, "report")
    /\ UNCHANGED <<meta, state, cancelKey, stream, readers, faults>>

StoreResult(t) ==
    /\ task[t].pc = "result"
    /\ result' = [result EXCEPT ![t] = task[t].text]
    /\ Go(t, "report")
    /\ UNCHANGED <<meta, state, cancelKey, stream, readers, faults>>

\* The suggest_ready row and event, then the release.
Report(t) ==
    /\ task[t].pc = "report"
    /\ Leave(t, "over")
    /\ UNCHANGED <<redisVars, stream, readers, faults>>

\* The flag is seen; at the pieces, some may have been published.
StopCanceled(t) ==
    /\ AtCheck(t)
    /\ t \in cancelKey
    /\ Leave(t, "canceling")
    /\ UNCHANGED <<redisVars, stream, readers, faults>>

\* Stopped where a success is stored and its result is not.
LostAt(t) == IF task[t].pc \in {"tell", "result"} THEN lost \union {t} ELSE lost

\* Any other exception inside the try block and outside the stream.
Fail(t) ==
    /\ task[t].pc \in {"input", "analyze", "rag", "draft", "final", "state"} \union Storing
    /\ Fault
    /\ lost' = LostAt(t)
    /\ Leave(t, "failing")
    /\ UNCHANGED <<redisVars, stream, poll, silent, unaudited, expired>>

\* _set_status of either handler: the record ...
StoreEnd(t) ==
    /\ task[t].pc \in {"failing", "canceling"}
    /\ Store(t, IF task[t].pc = "failing" THEN "failed" ELSE "canceled")
    /\ Go(t, "untold")
    /\ UNCHANGED <<result, state, cancelKey, stream, readers, faults>>

\* Mutant of TellEnd: an end is stored and told to nobody.
TellEndQuietly(t) ==
    /\ task[t].pc = "untold"
    /\ Go(t, "over")
    /\ UNCHANGED <<redisVars, stream, readers, faults>>

\* ... then the event.
TellEnd(t) ==
    /\ task[t].pc = "untold"
    /\ Tell(t, meta[t])
    /\ Go(t, "over")
    /\ UNCHANGED <<redisVars, readers, faults>>

\* A RuntimeError that is not 'canceled' is raised again: a KafkaError, an
\* embedding provider without a URL.  So is what a handler's own _set_status
\* raises.  The task is released as it is.
Raise(t) ==
    /\ task[t].pc \in {"input", "rag", "report", "failing", "canceling", "untold"}
    /\ Fault
    /\ Leave(t, "over")
    /\ silent' = IF task[t].pc = "report" THEN silent ELSE silent \union {t}
    /\ UNCHANGED <<redisVars, stream, poll, lost, unaudited, expired>>

\* The worker dies, or a command raises before the try block: nothing is released.
Die(t) ==
    /\ task[t].pc \notin {"waiting", "dead", "over"}
    /\ Fault
    /\ Leave(t, "dead")
    /\ silent' = IF Untold(t) THEN silent \union {t} ELSE silent
    /\ lost' = LostAt(t)
    /\ UNCHANGED <<redisVars, stream, poll, unaudited, expired>>

\* Mutant of Reclaim: the index entry is dropped, whatever the status.
ReclaimDrops(t) ==
    /\ task[t].pc = "dead"
    /\ Go(t, "over")
    /\ UNCHANGED <<redisVars, stream, readers, faults>>

\* _reclaim_expired_tasks drops a task that has ended, cancels or requeues any
\* other, and publishes nothing.
Reclaim(t) ==
    /\ task[t].pc = "dead"
    /\ LET ended    == meta[t] \in Terminal
           canceled == ~ ended /\ t \in cancelKey
       IN  /\ Go(t, IF ended \/ canceled THEN "over" ELSE "waiting")
           /\ Store(t, CASE ended -> meta[t] [] canceled -> "canceled" [] OTHER -> "queued")
           /\ silent' = IF canceled THEN silent \union {t} ELSE silent
    /\ UNCHANGED <<result, state, cancelKey, stream, poll, lost, unaudited, expired, faults>>

RunStep(t) ==
    \/ Claim(t) \/ DropCanceled(t) \/ Begin(t) \/ ModerateInput(t) \/ Analyze(t)
    \/ Retrieve(t) \/ SkipRetrieval(t) \/ Draft(t) \/ StreamDelta(t) \/ StreamNothing(t)
    \/ StreamEnds(t) \/ AuditStream(t) \/ Finish(t) \/ StoreState(t) \/ PublishResult(t)
    \/ StoreSucceeded(t) \/ TellSucceeded(t) \/ StoreResult(t) \/ Report(t)
    \/ StopCanceled(t) \/ StoreEnd(t) \/ TellEnd(t) \/ Reclaim(t)

\* The result key has a time to live, the record has none.
ExpireResult(t) ==
    /\ result[t] # None
    /\ result' = [result EXCEPT ![t] = None]
    /\ expired' = expired \union {t}
    /\ UNCHANGED <<task, meta, state, cancelKey, stream, poll, silent, lost, unaudited, faults>>

----------------------------------------------------------------------------
(* suggest_stream and suggest_status                                       *)

\* The record is read ...
OpenStream(t) ==
    /\ stream[t].pc = "idle"
    /\ stream' = [stream EXCEPT ![t].pc = "read", ![t].heard = meta[t]]
    /\ UNCHANGED <<task, redisVars, readers, faults>>

\* ... the channel joined afterwards, and the record that was read sent as the
\* first event.  The generator never ends by itself.
Subscribe(t) ==
    /\ stream[t].pc = "read"
    /\ stream' = [stream EXCEPT ![t].pc = "on"]
    /\ silent' = IF meta[t] \in Terminal \ {stream[t].heard} /\ ~ Untold(t)
                 THEN silent \union {t} ELSE silent
    /\ UNCHANGED <<task, redisVars, poll, lost, unaudited, expired, faults>>

\* The record is read: any other status is answered at once ...
PollRecord(t) ==
    /\ t \notin poll
    /\ meta[t] = "succeeded"
    /\ poll' = poll \union {t}
    /\ UNCHANGED <<task, redisVars, stream, silent, lost, unaudited, expired, faults>>

\* ... a success with what is under the result key by then.
PollResult(t) ==
    /\ t \in poll
    /\ poll' = poll \ {t}
    /\ UNCHANGED <<task, redisVars, stream, silent, lost, unaudited, expired, faults>>

----------------------------------------------------------------------------
Init ==
    /\ \E flags \in [Tasks -> SUBSET Flags] :
          task = [t \in Tasks |-> [New EXCEPT !.mode = ModerationMode(flags[t])]]
    /\ meta = [t \in Tasks |-> "queued"]
    /\ result = [t \in Tasks |-> None]
    /\ state \in [draft : {None}, analysis : Makers]  \* left by an earlier suggest
    /\ cancelKey = {}
    /\ stream = [t \in Tasks |-> [pc |-> "idle", shown |-> None, heard |-> None]]
    /\ poll = {}
    /\ silent = {} /\ lost = {} /\ unaudited = {} /\ expired = {}
    /\ faults = 0

Next ==
    \E t \in Tasks :
        \/ RunStep(t) \/ Cancel(t) \/ ExpireResult(t)
        \/ AuditStreamRaises(t) \/ AuditStreamUnseen(t) \/ Fail(t) \/ Raise(t) \/ Die(t)
        \/ OpenStream(t) \/ Subscribe(t) \/ PollRecord(t) \/ PollResult(t)

Spec == Init /\ [][Next]_vars

\* asyncio runs the steps of a task that a worker has, will claim or will reclaim.
Fairness == \A t \in Tasks : WF_vars(RunStep(t)) /\ WF_vars(Subscribe(t))

FairSpec == Spec /\ Fairness

----------------------------------------------------------------------------
(* Properties                                                              *)

\* Every way a text comes, from the model, a stream, a safe mode or a cache, is
\* checked before it is stored.  A text of the model or of a template that moderation
\* flags is never stored, neither as the result of a task nor in the state of the
\* conversation, but the fallback in its place: the exception is a stream whose
\* audit row could not be written.  And no stored text says that a card is blocked
\* while the tool that blocks it is still on the list.
StoredIsModerated ==
    /\ state.draft \in {"bad_draft", "bad_stream", "template"} => unaudited # {}
    /\ \A t \in Tasks :
         result[t] \in {"bad_draft", "bad_stream", "template"} => t \in unaudited
    /\ \A t \in Tasks :
         task[t].pc \in Storing /\ task[t].blocks => ~ Claims(task[t].text)

\* A summary that says 'ok' speaks of the text that is stored, not of one that
\* was replaced, of the messages and of the chunks that were found.
SummaryIsOfThisText ==
    \A t \in Tasks :
        task[t].pc \in Storing /\ task[t].summary = "ok" /\ t \notin unaudited =>
            ~ Flagged(task[t].text) /\ task[t].mode = "ok" /\ ~ task[t].found

\* In a safe mode neither the analysis nor the draft is the model's, unless the
\* cache brought one that another task of the conversation had made: it is
\* shared by tasks that read fewer or more messages.  An analysis may also have
\* taken over what the last one, in the state the task began with, had of the
\* model; a draft may not.
SafeModeNeedsNoModel ==
    \A t \in Tasks :
        task[t].pc \in Storing
        /\ task[t].mode # "ok" /\ ~ task[t].cached =>
             /\ task[t].analysis = "stub" \/ task[t].prev = "llm"
             /\ task[t].text \notin ByModel

\* When a task has come to an end, a stream on it was told of that end last, and
\* shows, if it shows a text, the one that is stored: deltas that moderation, the
\* stabilizer or an exception made void were replaced.  An end may come in silence
\* (StreamLearnsOutcome has the ways), and the result key of a success may be
\* missing, because the worker stopped before it or because it has expired.
ShownIsStored ==
    \A t \in Tasks :
        task[t].pc = "over" /\ meta[t] \in Terminal
        /\ stream[t].pc = "on" /\ t \notin silent =>
            /\ stream[t].heard = meta[t]
            /\ meta[t] = "succeeded" /\ stream[t].shown # None
               /\ t \notin lost \union expired =>
                 stream[t].shown = result[t]

\* A poll that reads a success without a draft met the worker between its two
\* commands, or one that failed or died there, or came after the result key had
\* expired, which the record does not.
DraftlessSuccess ==
    [][\A t \in Tasks :
         t \in poll \ poll' /\ result[t] = None =>
            (task[t].pc \in {"tell", "result"} \/ t \in lost \union expired)]_vars

\* An operator who watches a task is told of its end, unless it came in one of
\* the ways that publish nothing: before the stream had subscribed; at the hands of
\* a reclaim; by an exception that is raised again, the handler's own among them;
\* or between the record and the event, where the worker died.
StreamLearnsOutcome ==
    \A t \in Tasks :
        stream[t].pc = "on" ~> (stream[t].heard \in Terminal \/ t \in silent)
=============================================================================
