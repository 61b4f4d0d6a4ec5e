# Verification of the LLM copilot's server side

This directory holds TLA+ models of the parts of the copilot that keep state,
the TLC configurations that model-check them on small instances, and theorems
about them that the TLA+ proof system checks. `PROJECT.json` ties every
definition to the lines it models, every run to its properties, and every
hazard of the code to the properties that would show it.

    tlasany M.tla                          parse a module
    tlc -workers 2 -config X.cfg MCM.tla   check a configuration
    tlapm MProofs.tla                      check the proofs of a module

## 1. The system

Operators talk to clients about bank cards. For every message an operator may
ask for a suggestion (a *suggest task*), may have a tool executed (block the
card, open a case, ...) and may confirm facts. Four processes share three
stores:

| process | code | state it owns |
| --- | --- | --- |
| backend (FastAPI) | `apps/backend` | conversations, cases, timelines, dossier snapshots, audit rows, documents in Postgres; the copilot state and the records of suggest tasks in Redis |
| worker | `apps/worker/app/main.py` | leases, the running index and the results of suggest tasks in Redis; it also writes the copilot state and the tasks' records |
| mcp-tools (FastAPI) | `apps/mcp_tools` | idempotency keys in Redis |
| Kafka | external | events nobody in this repository acts on |

All of them are asyncio programs: every `await` is a point at which another
coroutine or process may run. None of them uses a Redis transaction or a lock
between processes, apart from the lease of a suggest task.

### Inventory

**Suggest queue** (`routes/copilot.py`, `worker/app/main.py`). State: the record
of each task (queued, running, succeeded, failed, canceled), the list
`copilot:queue:suggest`, the lease and cancel flag of each task, the sorted set
`copilot:tasks:running`, the results. Operations: submit, poll, cancel; pop,
claim, run, heartbeat, release, reclaim. Hard: popping and listing are separate
commands; records are read, changed and written back whole; leases run out;
processes are killed; names are used again. Correct if no task is run twice at
once, none is lost, and an outcome stays.

**Pipeline and stream of a suggest task** (`run_task`, `moderator.py`,
`llm_client.py`, `GET /suggest/{id}/stream`). State: three caches the tasks of a
conversation share, the draft, what was streamed, one pubsub subscription per
request. Hard: a text is shown before it is moderated; the caches are shared by
tasks in different modes; the record is read, then the channel subscribed; the
reclaim loop publishes nothing. Correct if nothing flagged is stored, the
operator is left with the text that is, and a stream learns of the outcome.

**Tool execution** (`mcp_tools/.../tools.py`, `routes/internal.py`). State: a
meta key and a result key per idempotency key; the case and its `case_created`
row. Operations: execute, create a case on the backend's internal route. Hard:
check and reservation are separated by the tool; the caller gives up while the
work goes on; two commits make one case; keys expire. Correct if a retry does
not repeat an effect and is never given another call's result.

**State engine** (`libs/common/state_engine.py`, parts of
`analyze_guardrails.py`, `copilot_postprocess.py`). Pure functions from an
analysis to a plan, from a tool's result to the next plan, from a plan to a
phase, and from all of it to the set of enabled tools. Correct if the three fit
each other for each intent and each sequence of results.

**Copilot state** (`copilot:state:<conversation>`; `execute_tool`,
`profile_confirm`, `run_task`). One JSON value that three handlers read, hold
across model calls, tools and commits, and write back whole. Correct if it
stays of one piece, no confirmed action is undone without a trace, and the gate
before a tool lets nothing through without its reason.

**Case file** (`routes/internal.py`, `routes/cases.py`, `case_readiness.py`, the
facts and the risk of `case_dossier.py`). State: the row of a case and its first
timeline entry. Operations: create, PATCH, confirm; readers compute phase,
tools, readiness and risk each time. Hard: creation is two commits; a PATCH
sends lists from an older screen; the rules exist twice, for the worker and for
cases. Correct if what a case asks for, shows and offers fits what the worker
asked and what was confirmed.

**Dossier snapshot** (`routes/cases.py`, `libs/common/case_dossier_store.py`).
State: case rows, timeline events, one snapshot per closed case. Operations:
read (which may store the snapshot), PATCH, confirm. Hard: row, timeline and
snapshot are read one after the other. Correct if a snapshot that passes for
current is.

**Document index** (`routes/docs.py`, `rag_docs.py`). State: documents, their
chunks with vectors, objects in MinIO. Operations: upload, seed, reindex, one
or all. Hard: old chunks are deleted and committed before new ones exist;
requests overlap.

**Chat bus** (`routes/chat.py`, `core/bus.py`). State: messages in Postgres,
channels in Redis, a bounded queue per subscriber. Hard: commit, publish and
audit are separate; slow subscribers lose events. Correct if who listens before
listing misses nothing and an answer "ok" means what it says.

**Kafka bus** (`libs/common/kafka_bus.py`). State: the one producer of a
process. Hard: start is under a lock, stop is not. Correct if no caller waits
for ever and no producer is left open.

**Dossier texts**, **moderation patterns**, **authentication**: pure
decisions on one request. **Audit**, **retrieval and ranking**, **language
model**, **masking**, **wording**, **schemas**, **start-up**: no state that a
handler acts on, numbers or text TLC cannot judge.

How they interact: submit queues a task; the worker's outcome is read by polls
and streams; the pipeline reads the copilot state when it starts and replaces
it when it ends; `execute_tool` reads it, calls mcp-tools over HTTP (which for
`create_case` calls the backend), has the result explained, and replaces the
state; `profile_confirm` commits facts to a case and strikes them off the
state; cases, facts and events are what dossiers are made of.

### Plan

| order | module | status |
| --- | --- | --- |
| 1 | `SuggestQueue`: queue, lease, heartbeat, reclaim, crashes | done; all safety proved |
| 2 | `ToolIdempotency`: execute, the internal case route, expiry | done; all proved |
| 3 | `CopilotPlan`: the state engine as operators | done; lemmas in the proofs of 4 and 8 |
| 4 | `CopilotState`: the three writers, on top of `CopilotPlan` | done; all proved |
| 5 | `DossierCache`: snapshots next to PATCH and confirm | done; all proved |
| 6 | `SuggestTask`, the task as an operator sees it, and `SuggestRefinement`: `SuggestQueue` implements it | done; proved |
| 7 | `SuggestPipeline`: moderation, caches, streamed texts, stream and poll | done; all safety proved |
| 8 | `CaseFile`: creation, readiness, PATCH and confirm of a case | done; all proved |
| 9 | `DocIndex`: delete, embed, insert in batches; overlapping reindex | done; all proved |
| 10 | `KafkaBus`, and `ChatBus` composed with it | done; all safety proved |

Every safety property that a passing run checks is also a theorem (section 4);
of the properties of those runs, only the three of liveness are not. A module
that is proved about declares no recursive operator.

How the modules are composed: `CopilotState` and `CaseFile` EXTEND
`CopilotPlan`, whose operators are their rules; `ChatBus` EXTENDS `KafkaBus` and
takes its `Call` as part of its own steps; `SuggestRefinement` EXTENDS
`SuggestQueue` and instantiates `SuggestTask`.

## 2. The modules

Each model has its constants and their assumptions in the module, an `MC` module
that EXTENDS it with the small sets, and one `.cfg` per question. Histories
(variables that no guard reads) are marked as such where they are declared.
Operators called *Mutant of X* are not part of any specification: each is a
plausible bug in the code X stands for, kept to see that a property of a run
would notice it.

### SuggestQueue

One action is one Redis command, or the step of a coroutine between two.

| state | code |
| --- | --- |
| `meta`, `result`, `cancelKey` | `copilot:task:<id>`, its `:result` and `:cancel` |
| `queue`, `lease`, `index` | `copilot:queue:suggest`, `:lease`, `copilot:tasks:running` (a score is fresh or due) |
| `creating` | a request of `suggest` between SET and RPUSH |
| `loop[w]` | `main` with `_claim_task` inlined: Pop, LoadClaimed, CheckLease, TakeLease, StoreRunning, Spawn |
| `job[s]` | `run_task` in a slot of the semaphore, with `_release_task` at its end |
| `hb[s]` | `_heartbeat_loop` of that job |
| `rec[w]` | `_reclaim_expired_tasks`: Scan, then one entry at a time |
| `live` | worker processes; `Crash` kills one at any point, `StartWorker` starts it or another name |
| `mishap`, `spent` | history of causes of loss; bounds |

The pipeline is cut at every check of the cancel flag and at every write of the
task's keys; what it computes is left out. `_set_status` is one action, since
the status it writes does not depend on what it read. A cancel flag lives for an
hour and outlasts its task. Time is two actions: a lease expires when nobody
renews it (`LeaseExpires`), or although its owner is at work (`OwnerStalls`,
bounded by `MaxLapses`); an index entry falls due. `CheckLease` is the GET of the
lease and, if the worker owns it, the EXPIRE (`main.py:161` and `:169`): that a lease
of an earlier process under the same name runs out between the two is an
`OwnerStalls` after it. `RuntimeError`s other than "canceled" come from the
embeddings client without a base URL and from Kafka's errors; they leave `run_task`
without an outcome.

A task that was hit by such a mishap is *disturbed*, and the guarantees are for
the others; `LossesNamed` says that the list of mishaps is complete.

### SuggestTask and SuggestRefinement

`SuggestTask` is what `GET /suggest/{id}` promises, without queue, lease or
heartbeat: a task is accepted once, claimed and given back only while nobody is
at it, and gets its outcome from who is at work on it, or canceled if somebody
asked. `Revoke` is part of the promise because the code has it: a success may
become a failure, and any outcome running again, as long as the worker has not
left. The mapping: `status` is the record, `working` the tasks a coroutine of
`run_task` is at, `asked` the cancel keys, `answered` the result keys.
`ImplementsSuggestTask` is checked in `SuggestQueue_faults`, where no lease
lapses under its owner (`MaxLapses = 0`).

### SuggestPipeline

`run_task` between the claim and the release, and who gets to see what it makes.

| state | code |
| --- | --- |
| `task[t]` | the locals of `run_task`: mode of the input, analysis, draft, streamed text, verdicts |
| `meta`, `result`, `cancelKey` | the keys of the task, as in `SuggestQueue` |
| `state` | `last_draft` of the conversation's state, and whether `last_analyze` has anything of the model in it |
| `stream[t]` | `suggest_stream`: record read, or subscribed; what it heard and shows last |
| `poll` | `suggest_status` between its two reads |

The texts are the few kinds that moderation and `_stabilize_draft_ghost` tell
apart: good, flagged, claiming a block, the template of a safe mode, and what
replaces them. A lookup in a cache finds nothing, or what a task of any mode may
have left there. `Claim`, `Begin`, `Analyze`, `Retrieve`, `Draft`, `StreamDelta`,
`StreamEnds`, `AuditStream`, `Finish`, `StoreState`, `PublishResult`,
`StoreSucceeded`, `TellSucceeded`, `StoreResult`, `Report` are its awaits in order.
The analysis is the model's if the model made it or if `_hydrate_analyze` takes
over what the last one had of the model's (`prev`, read at `Begin`).

`Fail` and `StopCanceled` lead to the handlers of `run_task`, `StoreEnd` and
`TellEnd` are the two commands of their `_set_status`: the record, then the event.
Between any two steps the worker may die (`Die`), or the handler raise in its
turn (`Raise`); a dead worker's task is looked at by the reclaim loop some time
later (`Reclaim`), and may be canceled in between. A result key expires
(`ExpireResult`), a record does not. Histories: `silent`, the tasks of whose end no
event tells the stream; `lost`, those whose worker stopped between success and
result; `unaudited`, those whose streamed text nothing moderated; `expired`, those
whose result key ran out.

### ToolIdempotency

The calls that use one idempotency key. Parameters stand for the tool and the
hash and determine the scope: the tool and what `_idem_scope` takes from the
parameters, which together make the names of the keys. A result is named after
the call that made it, so `OwnResult` can tell whose a caller
got. `Arrive`, `Lookup`, `Cached`, `Announce` (the audit row and the event),
`RunHere` or `Post` and `Receive`, `Report`, `StoreMeta`, `StoreResult` are the
awaits of `execute` in order; `CommitCase` and `CommitTimeline` are the two
commits of `internal_create_case`, which go on when `Fail` ends the call that
waits for them. Both keys have the same TTL, so they expire in the order in
which they were set (`expiry`, `Expire`).

### CopilotPlan and CopilotState

`CopilotPlan` has no variables. `Steps`, `BuildPlan`, `ApplyDone`,
`ReducePlanAfterAnalyze`, `ReducePlanAfterTool`, `PhaseFromPlan` and
`ResolveTools` are the functions of `state_engine.py` of those names. A plan is
its steps, the set of those done, and the current one. `Facts` are what the
analysis of a text may find (subtype of a dispute, status of the card, who has
it, channel, resolution, requested actions, ...), `Fits` the combinations the
detectors of `analyze_guardrails.py` can produce for an intent, `Merge` what
`_hydrate_analyze` keeps from the state before, `Missing` and
`AnalyzedPhase` what `normalize_analyze` derives. A dispute, for example, always
says Collect.

`CopilotState` has the state (`copilot:state:<conversation>`), the lists of
confirmed facts of the conversation's cases, and three kinds of requests:

* a *suggest* reads the state at its start (`BeginSuggest`) and replaces it at
  its end (`StoreSuggest`), with any text of `Texts`;
* a *call* of `execute_tool` reads state and latest case (`LoadForTool`), is
  let through or refused (`Gate`), takes effect (`Effect`) and replaces the
  state by the one it read, with the plan moved on (`StoreTool`); it may fail
  before or after taking effect (`FailCall`), and one that timed out may take
  effect later (pc `late`);
* a *confirm* reads a case (`ReadCase`), commits its list (`CommitConfirm`),
  reads the state (`LoadForConfirm`) and strikes the facts off (`StoreConfirm`).

The histories `overwritten` and `undone` name the requests whose write another
one replaced after having read what was there before it; `undone` also a
confirmation that adds nothing to the list it read and so writes nothing, when
the list in the row is another by then. (The proof needs that: with three
confirmations the fields of such a one need not be in the row.) The record that a suggest puts
in place has a `shown` field: the tools its sidebar enables.
`DoneHasCause` names one exception: the step `status_check` is ticked off by
`get_case_status` and also by an analysis that knows the case. (The first never
happens at this commit: `execute_tool` resolves the tools without the analysis,
and `resolve_tools` then refuses `get_case_status` in a plan of StatusWhatNext,
state_engine.py:382-386.)
Left out here: the caches (in `SuggestPipeline`; what they hold is an analysis
the same text could give), wording, audit and timeline rows, the pending facts of
a case (in `CaseFile`).

### CaseFile

One case from its creation on. `row` is the row of the case, `analysis` the
`last_analyze` its creation found, `stage` where the two commits of
`internal_create_case` are, `request` the handlers of PATCH and confirm with the
row they had read. `CreateRow` is `build_case_seed` and the first
commit, `CreateEvent` the second, `CreateCut` the death in between. The edits are
`Read` and then `CommitConfirm` of a set of fields or `CommitPatch` of a body;
their `Commit` writes the columns that differ from what was read (`Column`). A body
has any of the columns and in its lists any names, which need not be those of a
screen; a list in another order is another value. Of the names without a rule, which
the routes accept too, `"other"` is one. `View` is
what every reader computes: `InferCasePhase`, `ResolveTools` of `CopilotPlan`,
`Score`, `ReadinessStatus`, `NextAction`; `CaseFacts` is the analysis a dossier
recovers from the timeline. Histories: `unseen` has for each request the fields
that another one moved in a list since it read; `lost` those that are in neither list
since a request wrote over what it had not seen; `patched` what bodies did: the
fields in neither list since one left them out, those one asked for, and which
of priority and reason one has set.

Proving for all requests and analyses brought up what an earlier instance of
the run did not reach: who disputes a subscription, or a
charge taken twice, of a card the conversation has as lost gets a case of medium
priority (`_priority` of `internal.py`) beside a dossier that states a
high risk (`case_dossier.py:283`): `LostCardDisputed` names it, and the run now
has such texts.

### DocIndex

`objects` is the bucket, `row` the documents, `chunks` the rows retrieval reads,
`req` the requests (upload, seed, reindex of one or all). `Put`, `SelectRow`,
`Upsert` or `InsertTwice`, `Load`, `SetMeta`, `Clear`, `InsertBatch` are their
commits and calls in order; `Fail` ends a request at any of them. Histories:
`spoiled` names the documents on which the last request failed or met another,
`met` those two were at, `shared` of a request the documents at which another one
was meanwhile.

A file is a list of blocks with a section, a length, and whether it is a mandatory
step. `ChunkBlocks` is `chunk_blocks`: `Kept` is what `clean_blocks` leaves,
`Taken` one round of the loop, with `section`, `size`, `parts` and `metas` for the
chunk that is being collected and `done` for those that were flushed; a block
`Fits`, or the chunk is closed and `Restarted` with its own tail. `Collected` is
the loop, a recursive function on the number of blocks, so that `CutRight` can
speak of the chunks by quantifiers alone. `AreBlocks` and `NoneAssumption` say
what a list of blocks is, and that no file, document or row is mistaken for the
absence of one.

### KafkaBus and ChatBus

`KafkaBus` is one producer shared by coroutines: `Call`, `Lock`, `Started` or
`GivesUp` (the twelve attempts are one choice), `Sent` or `SendFails`,
`Stopped` or `StopRaises`, `Retry`. It has no specification of its own; who
publishes, and when, is the composing module's. `LeftOpenOnlyByLateStop` lets
two kinds of `stop` leave a producer open, the one that raised and the one that came
after another caller's. That the late caller finds the producer it was stopping
closed already, as an earlier wording had it, fails with three callers and three
errors: the first stop of `k1` raises and leaves it open, a third caller starts
`k2`, and the second stopper of `k1` forgets `k2`.

`ChatBus` has the posts (`Commit`, `Publish`, `KafkaEvent`, `Audit`,
`AuditEvent`, `Answer`, or `Raise` and `BusRaised`) and the clients that `List`,
`Subscribe` and `Unsubscribe`. An event goes to the connections that listen when
it is published (`wire`), is read by the `_reader` into a bounded queue
(`Read`), and sent (`Receive`). When `get_message` raises, the reader ends and closes
its connection (`ReaderEnds`); nobody looks at its task, so that the subscription
stays and the client goes on waiting at its queue. History: `published`.

### DossierCache

One case, its timeline and its snapshot; a dossier is the row and the timeline it
is built from. Each edit has a column of its own (that confirmations of one
column may lose each other's is in `CopilotState`). `ReadRow`, `LoadTimeline`,
`Look`, `LoadSnapshot`, `Store` and `Refresh` are the awaits of
`get_case_dossier_payload` and of the routes before it. An edit, by `Patch` or
`Confirm`, locks the row and inserts its event (`Lock`), and both are seen from
`CommitEdit` on. An event of a tool or of the case's creation (`InsertEvent`,
`CommitEvent`) takes no lock that an edit waits for. Ids are of a sequence, given
at the insert: edits are numbered as they commit, but between an edit and
another event, or between two of these, the lower id may be committed last
(`Publish`, history `late`). A snapshot that exists is updated by the columns
that differ from what was loaded, as the unit of work does (`Written`); two
inserts make the second fail. Histories: `torn`, the requests whose row had
changed when they read the timeline; `misled`, those answered with a snapshot
that has one of the causes of `StaleHasCause`; `overtaken`, those another request
stored across; and of a snapshot `maker` and `dater`, who wrote its payload and
its event. These can be different requests, since a refresh writes only the
columns that differ. A PATCH without a body and a confirmation of nothing write
`updated_at` alone, which no dossier has.

## 3. What the runs show

The `TypeOK` that every module with runs has is left out of the table.

Deadlock checking is on in `ChatBus_posts`, where a client may always come back.
It is off elsewhere: a system whose requests are all answered, or whose bounds
are all spent, has nothing left to do.

| run | instance | distinct states | shows |
| --- | --- | --- | --- |
| `SuggestQueue_faults` | 1 task, 2 slots, one live process of two names, 3 kills, 3 failing commands, 6 requeues | 242 k | `AtMostOneRunner`, `LossesNamed`, `CanceledInQueue`, `ImplementsSuggestTask` |
| `SuggestQueue_live` | 2 kills, 1 error, 1 lapse | 470 k | `EverySuggestEnds` |
| `SuggestPipeline_watched` | 1 task of any mode, any cache contents and earlier analysis, 2 faults, a cancel | 513 k | `StoredIsModerated`, `SummaryIsOfThisText`, `SafeModeNeedsNoModel`, `ShownIsStored`, `DraftlessSuccess`, `StreamLearnsOutcome` |
| `ToolIdempotency_calls` | 3 calls of one key, `create_case` and another tool | 102 k | `OwnResult`, `AnsweredNotRerun`, `AnsweredCaseIsWhole` |
| `CopilotState_dispute` | 1 suggest, 2 calls of 3 tools, 2 confirms, all modes | 192 k | `LossesNamed`, `BlockHasReason` |
| `CopilotState_plans` | 2 suggests of 8 texts that make every plan, 2 calls of all 9 tools | 791 k | `OnePiece`, `DoneHasCause`, `GateKeepsToSidebar`, `ResultMovesOn` |
| `CaseFile_edits` | every kind of analysis, 2 confirms, 1 PATCH of 7 bodies | 674 k | `CaseCoversAnalysis`, `SeedIsView`, `OffersFit`, `ConfirmedStays` |
| `DossierCache_races` | 1 GET, 1 refresh, 1 PATCH, 1 confirm, 1 other event | 1.40 M | `StaleHasCause`, `AnswerNotOlder` |
| `DocIndex_races` | 3 requests, 2 at once, 4 files, 2 failures; 14 k lists of up to 4 blocks | 143 k | `IndexedAsStored`, `TwinsNeedTwoRequests`, `ChunksCutRight` |
| `ChatBus_posts` | 2 posts of two events each, 1 client with a queue of 1, 3 producers, 2 errors of broker, database or chat bus | 477 k | `NothingMissed`, `LeftOpenOnlyByLateStop`, `PostsAreAnswered` |

Why the bounds are enough. A hazard of the queue takes one task and the
coroutines that can hold it: a loop, two jobs, two heartbeats, a reclaim pass;
two slots and three kills give each of them a chance to be cut off and to meet
its successor, and three failing commands cover a command of each. Keys are per
task, so that tasks meet only in the queue and in the scan. The tasks of a
pipeline meet only in the caches, which hold whatever any of them could have
left; two faults let a second run follow a killed one and fail in its turn. In
the state, a lost update takes one reader and one writer in between; two of each
kind let a third one come on top. In a case, a loss takes a reader and a writer;
two confirmations and a PATCH let one overlap both others, and the bodies are one
of each kind: a status, a priority and a reason, either list, both, all. A torn dossier takes
one reader and one edit, a taint one more of each. Requests to the index
disagree two at a time; a third one, after them, shows what repairs it, and the
longest file has three chunks in batches of two (128 in the code), so that a
failure falls between two batches. A queue of one event is full at once (100 in
the code), and the second post makes it run over, or comes after the reader's end.
Three producers are one in use, one being stopped and one left open, and two errors
are what it takes: two callers fail, and one of them is late with its stop.

Symmetry is used where the calls, or the confirmations, differ in nothing but
their names and only invariants are checked.

Two processes at a time. The compose file starts one worker, and `MaxLive = 1`
is that deployment. With `MaxLive = 2`, one kill and one slot each, every property
of `faults` but `LossesNamed` fails (tried while modelling, and without
`ImplementsSuggestTask`): both reclaim loops may requeue the same task, as a pass
has no claim of its own.

### Fairness

`FairSpec` of `SuggestQueue` has weak fairness on: the backend's handler between
its two commands; key expiry and the passing of deadlines; each loop, job,
heartbeat and reclaim coroutine, which asyncio runs whenever it is ready and
whose awaits on Redis return or raise; and the start of some worker when none is
alive, that is, an operator or an orchestrator who restarts it. No fairness is
assumed of clients, kills, failing commands or stalls.

`FairSpec` of `SuggestPipeline` has weak fairness on the steps of a task, which
run whenever its coroutine is ready, when a worker claims it, or when one reclaims
it (`SuggestQueue_live` is about these two), and on the subscription of a stream
that was opened. `FairSpec` of `ChatBus` has strong fairness on the steps of each
post: a caller that waits for the lock of `kafka_bus.py` can take it again and
again between the turns of others, and asyncio's lock goes to its waiters in
order. Nothing is assumed of clients or errors.

### Disagreements with the repository's own words

Each is a run that TLC must find violated; the quoted lines are in `PROJECT.json`.

* `SuggestQueue_final`: the heartbeat's read-modify-write brings a finished task
  back to "running", and nothing corrects it, since the release takes it out of
  the index.
* `ToolIdempotency_once`: two overlapping calls with one key both take effect.

Observed as well. A property that holds names some of them as its exceptions:

* "succeeded" is stored before the result is, so a poll in between sees a success
  without a draft (`worker/app/main.py:1104` and `:1110`; `src/README.md:359`
  shows both together as the final answer). So does every poll after the result
  has expired (`main.py:1113`), since the record never does (`DraftlessSuccess`).
* The tools a sidebar shows are not those the gate accepts (`copilot.py:261`
  resolves them again, with the case's lists and in normal mode, against
  `copilot_postprocess.py:264-269`; `src/README.md:477`); `GateKeepsToSidebar`
  names the four ways in which the gate lets more through. One of them is a safe
  mode, to which the gate pays no attention.
* A request overtaken between row and timeline stores the old row under the new
  event, and it is served from then on (`case_dossier_store.py:84`;
  `StaleHasCause` names it).
* The result of a tool may be committed under a lower id than an edit that was
  committed before it (`copilot.py:405`): a snapshot made in between lacks it and
  passes for current all the same (`StaleHasCause` names it).
* When the audit row of a streamed text cannot be written, the text is stored
  unmoderated (`worker/app/main.py:1039`; `StoredIsModerated` names it).
* The caches are shared by tasks in different modes: a safe mode may store what
  the model made for another task (`main.py:951`), and its analysis takes over
  facts, risk, flags and tags of the last one, which the model may have made
  (`main.py:672`; `SafeModeNeedsNoModel` names both).
* The reclaim loop cancels and requeues without an event (`main.py:245`), and drops
  a task whose worker died between storing an end and publishing it
  (`main.py:144`): a stream on such a task is not told (`StreamLearnsOutcome`).
* The tail that a chunk takes over from the one before brings neither its
  section nor its mark, and the length is not looked at again
  (`rag_chunking.py:99`; `ChunksCutRight`).
* After a broker error two callers may stop producers at once, and the later one
  forgets the producer a third has just started (`kafka_bus.py:61`;
  `LeftOpenOnlyByLateStop`).
* The reader of a subscription that Redis fails once ends for good, and its client is
  sent nothing any more, without a sign (`bus.py:117`; `NothingMissed` names it).
* A post that is answered with an error may be stored; a second attempt stores
  the message twice (`chat.py:100`).
* A PATCH takes its lists as they come: a field that its body leaves out of one and
  that is not in the other is neither asked for nor confirmed any more, and a
  confirmed field is withdrawn (`cases.py:181`; `CaseCoversAnalysis` and
  `ConfirmedStays` name it). It may also give a case of high risk a low priority, or
  ask for a merchant where none is disputed (`OffersFit`).
* A case never recovers the channel of a CardNotWorking, so that
  `toggle_online_payments` is offered once and not again (`SeedIsView`); a
  merchant the client names is both confirmed and asked for; a StatusWhatNext case created without a known case
  offers nothing, also after its `case_id` is confirmed (`OffersFit`).
* The same idempotency key with another `case_id` is another scope and is
  executed, where `src/README.md:201` promises 409 (`tools.py:23-26`).
* A message about the same thing builds the plan from nothing: the step a tool
  had completed is open again (`worker/app/main.py:444`; `src/README.md:63` says
  that only a tool's result changes the state).
* A text that names a case ticks off `status_check` without any tool
  (`state_engine.py:234`).
* `create_case` without an intent in the request asks a string for `.value` and
  fails (`copilot.py:294`).
* After `create_case`, `get_transactions` leaves the current step at the creation
  that is done; blocking the card in a dispute moves
  the plan back to its first open step (`ResultMovesOn` names it); a `create_case`
  while a lost card's plan is at Collect skips the block.
* No tool's result moves a CardNotWorking plan past `decide_resolution`, so that
  branch of `reduce_plan_after_tool` (`state_engine.py:282-285`) is never taken.

## 4. What is proved

For every value of the constants that satisfies the modules' assumptions, not
only for the small sets of the runs:

| module | theorem | says |
| --- | --- | --- |
| `SuggestQueueProofs` | `TypeCorrect` | `Spec => []TypeOK` |
| | `OneRunner` | `MaxLive = 1`: `Spec => []AtMostOneRunner` |
| | `NothingElseLost` | `MaxLive = 1`: `Spec => []LossesNamed` |
| | `NeverSucceeds` | `MaxLive = 1`: `Spec => CanceledInQueue` |
| | `Implements` | `MaxLive = 1`, `MaxLapses = 0`: `Spec => ImplementsSuggestTask` |
| `SuggestPipelineProofs` | `TypeCorrect`, `Moderated`, `Summarized`, `SafeModes`, `Watched` | `Spec => []P` for `TypeOK`, `StoredIsModerated`, `SummaryIsOfThisText`, `SafeModeNeedsNoModel`, `ShownIsStored` |
| | `Draftless` | `Spec => DraftlessSuccess` (an action property) |
| `ToolIdempotencyProofs` | `TypeCorrect`, `ResultIsOwn`, `RetryDoesNotRun`, `ToldOfWholeCase` | `Spec => []P` for `TypeOK`, `OwnResult`, `AnsweredNotRerun`, `AnsweredCaseIsWhole` |
| `CopilotStateProofs` | `TypeCorrect`, `StateIsOfOnePiece`, `LossesAreNamed` | `Spec => []P` for `TypeOK`, `OnePiece`, `LossesNamed` |
| | `DoneCause`, `BlockReason`, `GateAndSidebar` | `Spec => []P` for `DoneHasCause`, `BlockHasReason`, `GateKeepsToSidebar` |
| | `ResultsMoveOn` | `Spec => ResultMovesOn` (an action property) |
| `CaseFileProofs` | `TypeCorrect`, `CoversAnalysis`, `SeedIsShown`, `Offers` | `Spec => []P` for `TypeOK`, `CaseCoversAnalysis`, `SeedIsView`, `OffersFit` |
| | `Confirmed` | `Spec => ConfirmedStays` (an action property) |
| `DossierCacheProofs` | `TypeCorrect`, `StaleCause`, `AnswersNotOlder` | `Spec => []P` for `TypeOK`, `StaleHasCause`, `AnswerNotOlder` |
| `DocIndexProofs` | `TypeCorrect`, `IndexIsOfTheObject`, `NoTwinsAlone`, `CutsRight` | `Spec => []P` for `TypeOK`, `IndexedAsStored`, `TwinsNeedTwoRequests`, `ChunksCutRight` |
| `ChatBusProofs` | `TypeCorrect`, `NothingIsMissed` | `Spec => []P` for `TypeOK`, `NothingMissed` |
| | `OkMeansDone` | a post answered 'ok' is stored, published and audited: the safety half of `PostsAreAnswered` |
| | `LeftOpen` | `Spec => LeftOpenOnlyByLateStop` (an action property) |

*SuggestQueue, types.* `TypeOK` is not inductive: what the reclaim loop pushes is a
task only because a loop past its scan holds one. `Typed` adds that, `HandsOK`, and
the proof has one lemma per coroutine.

*SuggestQueue, who has a task.* `Sound` of `SuggestQueueProofs` says of every task
that is not disturbed that it is in one place: with the backend, in the queue, in
the claim loop or the reclaim loop at one of their steps, in a job, or with
nobody; and what its record, its lease and its index entry are there. Every step
moves it to a next place or leaves it where it is. That no two coroutines run it, and
that it is not lost without a mishap, can be read off the places. `MaxLive = 1` is
what makes the place single, and the deployment's: the compose file starts one
worker process, under a name that may change with a restart. Without it
`AtMostOneRunner` is false (section 3).

*SuggestQueue, canceled in the queue.* `CanceledInQueue` is `[](A => []B)`. In
between stands `Doomed`: a lease of the task has lapsed under its owner, or the flag
is set and no run of it is past the check that looks for the flag first (`Stopped`).
A queued task whose flag is set is doomed, since `Sound` has nobody at it; every step
keeps it doomed, since nothing takes a flag away and a spawned job begins at that
check; and who is doomed has not succeeded.

*The refinement.* One lemma per kind of step: it changes the record, the set of
tasks at work, the cancel flag or the result in a way `SuggestTask` has, or
leaves them alone. After a lapse a task may be claimed while its first owner is
still at work, which `SuggestTask` does not allow: hence `MaxLapses = 0`.

*SuggestPipeline.* Tasks share the conversation's state and the bound on faults,
and nothing else, so that `Sound` is a conjunction over tasks: of the record
(`RecordFits`), of text and verdict (`TextFits`), of mode and origin (`ModeFits`),
of the draft (`DraftFits`), of what the stream heard and shows (`StreamFits`), at
each step of `run_task`. `OthersFit` keeps those of the tasks a step is not about.
The steps that end a run have a lemma in common (`EndStays`): they leave nothing
of it but the record, and a stream that missed the end of it is `silent`.

*ToolIdempotency.* `ResultsMade` says that a result key is of a call with those
parameters which did its work, `AnswersMade` the same of an answer, `Remembered`
that an answered call left its meta key and its result key until a key of the
scope expires, `Replays` that a call which came later is, until then, at no step
but one that finds them, or refused.

*OnePiece.* A handler writes back what it read, so the stored state alone says
too little. `Whole` asserts of the state and of the snapshot each call and each
confirmation holds that it fits: its steps are those of its intent, the done and
the current one are among them, its phase is the plan's. Lemmas on the state
engine (`ApplyDoneKeeps`, `StateOfFits`, `WithPlanFits`, `StrikeFits`) say that each of the
three ways to make a new state yields one that fits; one lemma per action.

*CopilotState, losses.* `LossInv` has two halves. `WritesKept`: the state, and
every snapshot a handler holds, has the result of every call, and not the missing
fields of any confirmation, that wrote before and that no named write replaced.
`CommitsKept`: the list of a case, and the one a confirmation read of it, has the
fields of every confirmation committed before that is not `undone`.

*DoneHasCause.* `CauseInv` asserts the cause of every done step, of the state
and of every snapshot, and that a call which passed the gate has a tool listed
for the intent of its plan. An analysis ticks no step of a tool
but `status_check`, for a case it knows (`AnalysisTicksNoTool`), a result ticks only a step its tool completes
(`ResultTicksItsStep`), and calls that succeeded stay so (`CauseStays`).

*BlockHasReason.* `ReasonInv` follows the consent: in the list of a case, or in
the list a confirmation read and will write back, it is there only after some
confirmation committed it; `BlockNeedsReason` turns the gate's decision into
the disjuncts of the property.

*ResultMovesOn and GateKeepsToSidebar.* A tool that passed the gate is listed for
its plan (`CauseInv`), and `ResultPhase` goes through the steps it can complete
there. `FreshMade` says that a state nobody wrote since the suggest is the one
its text made, so that the two ways to resolve the tools, with the analysis and
without, can be compared rule by rule (`BeyondSidebar`).

*CaseFile.* The lists of a case are copied by handlers and written
back whole. `Agrees` relates a copy to the row: they differ only at fields that
were moved since it was read. `RowKept` says of the row that each field the
case asked for is pending, confirmed, lost, or left out by a body, and that it
asks for no others than it may. `WritesFile` shows that a commit keeps both if it drops
nothing its handler has seen but what a body leaves out (`Keeps`), and
`ConfirmWrites` and `PatchWrites` that those of the code are of that kind. What a
case asks for and offers is then a matter of the
rules: `MissingRequired` compares the worker's list of required fields with the
case's, intent by intent; `ToolsOfFacts`, `BlockedTools` and `ActHasTool` are
about `resolve_tools`.

*DossierCache.* An edit is named by its event, so that a row belongs to a timeline
if it has the edits whose events the timeline has. `Fair` says so of a dossier,
and that it is the truth while no event is added, and that an event it lacks below
its last one came late. `Made` says it of what a request builds that is not torn, and
`Kept` of a snapshot that is not suspect. `Numbered` is about the ids: that of the
edit with the lock is higher than those of the edits before it, and nobody's else.

*DocIndex, requests.* `TypeOK` is not inductive: that there is an object under the
key of a row, or under the one a reindex has read with it, is an invariant of its
own (`RowsKeyed`, `Keyed`). Requests run into each other only at a document both
hold, and `SharingKnown` says that both then know, and that `met` does. So a request
is either at a document it shares, where nothing is claimed, or alone, and then
`Alone` says step by step what it finds there: the row it has read, the object it
put, the chunks it inserted so far. `SettledElse` has the documents no request is at
work on, `TwinsNeedTwoRequests` those that one cleared alone. Each action writes of one
document, so that its lemma owes only `Written` of that one, and what is so of the
others is carried over.

*DocIndex, chunks.* What `Collected` computes for every list of blocks needs an
induction on the number of blocks, and the induction theorems of the library take
an operator as a parameter. `WFMin` of `WellFoundedInduction` does not: any nonempty
set of naturals has a least member. If the chunks were wrong after some block, there
would be a first such block, and one round of the loop would spoil what was `Right`
before it, which `TakenRight` excludes. `Right` adds that the blocks of the tags are
those of the text, and speaks of the chunk being collected as if it were closed now.

*ChatBus and KafkaBus.* `StartsAlone` says that who starts a producer has the lock,
and that there is none meanwhile: no start replaces a producer, so that the only steps
which forget one are those of `stop`. Of a client, `Fits` relates what it got, has
queued or is sent (`HeardBy`) to what was published since it subscribed (`Follows`):
the same messages without those dropped, in that order, ending with the latest; and
who subscribed before it listed found the earlier ones listed. When a reader ends,
what is on the wire is the end of what its client follows, so that it still follows a
beginning of what was published (`FollowsBegins`). `PostFits` has what a post has done
by each of its steps.

### Model-checked only

* Liveness, which needs fairness and ENABLED: `EverySuggestEnds`,
  `StreamLearnsOutcome`, `PostsAreAnswered`.
* That the two properties of the runs that expect a violation do not hold.

## 5. Not modelled

* The texts: prompts, drafts, explanations, moderation and masking patterns,
  the detectors that turn a text into facts. They are choices here.
* Retrieval and ranking: weights and vectors.
* Audit rows: added and displayed, never acted on.
* In `CopilotState`, PATCH /cases as a writer of the confirmed facts and the
  pending facts of a case: both are in `CaseFile`, where the copilot state is not.
* Authentication, of operators and between services: a decision on the headers of
  one request, with no state and nothing that runs beside it.
* `create_conversation` and the paging of lists; the in-memory `Broadcast`, which
  the deployment does not use.
* `tool_state_sync`, which only its tests call.
* Migrations, metrics, health checks, start-up, the evaluation scripts.
