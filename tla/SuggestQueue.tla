---------------------------- MODULE SuggestQueue ----------------------------
(***************************************************************************)
(* The life of a suggest task: the backend stores its record and queues    *)
(* its id in Redis; a worker process pops it, claims it under a lease,     *)
(* runs the pipeline while a heartbeat renews the lease, stores the        *)
(* outcome and releases the lease; a reclaim loop in every worker requeues *)
(* the running tasks whose lease has expired.                              *)
(*                                                                         *)
(* apps/worker/app/main.py and the suggest routes of the backend's         *)
(* copilot.py.  One action is one Redis command (or one coroutine step     *)
(* between two of them): every await is a point where the other coroutines *)
(* and processes run.  _set_status is one action: it reads the record and  *)
(* writes it back, and the only field followed here, the status, does not  *)
(* depend on what was read.                                                *)
(*                                                                         *)
(* A worker's name is hostname:pid, which all its coroutines share and     *)
(* which a restarted container may have again, so a name that crashed can  *)
(* be started once more.                                                   *)
(***************************************************************************)
EXTENDS Naturals, Sequences, FiniteSets

CONSTANTS Workers,      \* worker names
          Tasks,        \* suggest task ids
          NoWorker,     \* the value of a missing lease
          NoTask,       \* a coroutine that holds no task
          Concurrency,  \* WORKER_CONCURRENCY: jobs a process runs at a time
          ReclaimBatch, \* WORKER_RECLAIM_BATCH: index entries of one pass
          Cancelable,   \* bound: the tasks an operator cancels
          MaxLive,      \* worker processes alive at the same time
          MaxCrashes,   \* bound: processes killed
          MaxErrors,    \* bound: Redis commands that raise outside a pipeline
          MaxLapses,    \* bound: leases lost although their owner is at work
          MaxRequeues   \* bound: tasks put back into the queue

ASSUME NamesAssumption == NoWorker \notin Workers /\ NoTask \notin Tasks

ASSUME BoundsAssumption ==
    /\ Concurrency \in Nat \ {0}
    /\ ReclaimBatch \in Nat \ {0}
    /\ Cancelable \subseteq Tasks
    /\ MaxLive \in Nat \ {0}
    /\ MaxCrashes \in Nat
    /\ MaxErrors \in Nat
    /\ MaxLapses \in Nat
    /\ MaxRequeues \in Nat

VARIABLES meta,      \* copilot:task:<id>, its status ("none": no record)
          queue,     \* copilot:queue:suggest
          lease,     \* copilot:task:<id>:lease, the owner's name
          index,     \* copilot:tasks:running: absent, fresh or due (score <= now)
          cancelKey, \* the tasks with a copilot:task:<id>:cancel key
          result,    \* the tasks with a copilot:task:<id>:result key
          creating,  \* suggest requests between the two commands of the backend
          live,      \* the worker processes alive
          loop,      \* main: the pop-and-claim loop of each worker
          job,       \* run_task: one coroutine per slot of a worker's semaphore
          hb,        \* _heartbeat_loop of each slot
          rec,       \* _reclaim_loop of each worker
          mishap,    \* history: what last left a task with nobody to finish it
          spent      \* how much of each bound was used

redisVars  == <<meta, queue, lease, index, cancelKey, result>>
workerVars == <<live, loop, job, hb, rec>>
vars == <<redisVars, creating, workerVars, mishap, spent>>

Terminal == {"succeeded", "failed", "canceled"}
Status   == {"none", "queued", "running"} \union Terminal
Slots    == Workers \X (1 .. Concurrency)

LoopPc == {"off", "idle", "popped", "loaded", "vacant", "leased", "stored",
           "draining"}
JobPc  == {"free", "start", "abort", "input", "draft", "stream", "chunks",
           "commit", "result", "report", "canceling", "failing", "finally",
           "release", "unlease", "unindex"}
HbPc   == {"off", "sleep", "owned", "loaded", "stored", "ended", "dead"}
RecPc  == {"off", "wait", "next", "extend", "load", "verify", "cancel",
           "drop", "requeue", "unlist", "push"}
Mishaps == {"none", "orphan", "popped", "reclaim", "released", "lapse"}

TaskOrNone == Tasks \union {NoTask}

TypeOK ==
    /\ meta \in [Tasks -> Status]
    /\ queue \in Seq(Tasks)
    /\ lease \in [Tasks -> Workers \union {NoWorker}]
    /\ index \in [Tasks -> {"absent", "fresh", "due"}]
    /\ cancelKey \subseteq Tasks
    /\ result \subseteq Tasks
    /\ creating \subseteq Tasks
    /\ live \subseteq Workers
    /\ loop \in [Workers -> [pc : LoopPc, task : TaskOrNone]]
    /\ job \in [Slots -> [pc : JobPc, task : TaskOrNone]]
    /\ hb \in [Slots -> HbPc]
    /\ rec \in [Workers -> [pc : RecPc, task : TaskOrNone, todo : SUBSET Tasks]]
    /\ mishap \in [Tasks -> Mishaps]
    /\ spent \in [crashes : 0 .. MaxCrashes, errors : 0 .. MaxErrors,
                  lapses : 0 .. MaxLapses, requeues : 0 .. MaxRequeues]

----------------------------------------------------------------------------
(* Helpers                                                                 *)

At(pc, t) == [pc |-> pc, task |-> t]
LoopIdle  == At("idle", NoTask)
LoopOff   == At("off", NoTask)
Free      == At("free", NoTask)
RecOff    == [pc |-> "off", task |-> NoTask, todo |-> {}]
RecWait   == [pc |-> "wait", task |-> NoTask, todo |-> {}]

Store(t, status) == meta' = [meta EXCEPT ![t] = status]
GoLoop(w, pc)    == loop' = [loop EXCEPT ![w].pc = pc]
GoJob(s, pc)     == job' = [job EXCEPT ![s].pc = pc]
GoRec(w, pc)     == rec' = [rec EXCEPT ![w].pc = pc]

\* A lapse stays on record; of the other causes the last one does.
Undisturbed(t)   == mishap[t] # "lapse"
Blame(ts, cause) ==
    mishap' = [t \in Tasks |-> IF t \in ts /\ Undisturbed(t) THEN cause ELSE mishap[t]]

TerminalTasks == {t \in Tasks : meta[t] \in Terminal}
Running(t)    == {s \in Slots : job[s].pc # "free" /\ job[s].task = t}

SlotsOf(w)    == {s \in Slots : s[1] = w}
ClaimPcs      == {"popped", "loaded", "vacant", "leased", "stored"}
InLoop(w, t)  == loop[w].pc \in ClaimPcs /\ loop[w].task = t
InReclaim(w, t) == rec[w].pc \in {"unlist", "push"} /\ rec[w].task = t

\* The loops of w end where they are: a task popped but not yet indexed, or
\* taken out of the index but not yet queued, is in nobody's list.
LoseHandsOf(w) ==
    mishap' = [t \in Tasks |->
                 IF meta[t] \in Terminal \/ ~ Undisturbed(t) THEN mishap[t]
                 ELSE IF InLoop(w, t) THEN "popped"
                 ELSE IF InReclaim(w, t) THEN "reclaim"
                 ELSE mishap[t]]

\* A worker renews a lease and the index score beside it in time as long as
\* it is about to spawn the job (both are a few commands old), or runs it and
\* its heartbeat neither returned nor raised.  hb is "off" before the heartbeat
\* starts and after it is stopped, both within seconds of a renewal.
Beats(w, t) ==
    \/ loop[w].pc \in {"leased", "stored"} /\ loop[w].task = t
    \/ \E s \in SlotsOf(w) : job[s].task = t /\ hb[s] \notin {"ended", "dead"}

Kept(t) == \E w \in live : lease[t] = w /\ Beats(w, t)

\* An error beyond those a pipeline handles, taken from its bound.
SpendError == /\ spent.errors < MaxErrors
              /\ spent' = [spent EXCEPT !.errors = @ + 1]

----------------------------------------------------------------------------
(* The backend's routes                                                    *)

\* suggest: the record is stored first ...
Submit(t) ==
    /\ meta[t] = "none"
    /\ Store(t, "queued")
    /\ creating' = creating \union {t}
    /\ UNCHANGED <<queue, lease, index, cancelKey, result, workerVars, mishap, spent>>

\* ... and the id queued by a second command.
Enqueue(t) ==
    /\ t \in creating
    /\ queue' = Append(queue, t)
    /\ creating' = creating \ {t}
    /\ UNCHANGED <<meta, lease, index, cancelKey, result, workerVars, mishap, spent>>

\* The request dies between the two.
SubmitFails(t) ==
    /\ t \in creating
    /\ SpendError
    /\ creating' = creating \ {t}
    /\ Blame({t}, "orphan")
    /\ UNCHANGED <<redisVars, workerVars>>

\* cancel: accepted whatever the status is.  The flag's hour-long TTL is
\* taken to outlast the task.
Cancel(t) ==
    /\ t \in Cancelable
    /\ meta[t] # "none"
    /\ t \notin cancelKey
    /\ cancelKey' = cancelKey \union {t}
    /\ UNCHANGED <<meta, queue, lease, index, result, creating, workerVars, mishap, spent>>

----------------------------------------------------------------------------
(* main and _claim_task                                                    *)

loopFrame == <<cancelKey, result, creating, live, hb, rec, mishap, spent>>

Discard(w) == loop' = [loop EXCEPT ![w] = LoopIdle]

\* semaphore.acquire and blpop
Pop(w) ==
    /\ loop[w].pc = "idle"
    /\ \E s \in SlotsOf(w) : job[s].pc = "free"
    /\ queue # <<>>
    /\ loop' = [loop EXCEPT ![w] = At("popped", Head(queue))]
    /\ queue' = Tail(queue)
    /\ UNCHANGED <<meta, lease, index, job, loopFrame>>

\* A task with no record or a terminal status is dropped.
LoadClaimed(w) ==
    /\ loop[w].pc = "popped"
    /\ IF meta[loop[w].task] \in {"none"} \union Terminal
       THEN Discard(w)
       ELSE GoLoop(w, "loaded")
    /\ UNCHANGED <<redisVars, job, loopFrame>>

\* Another owner's lease: the popped id is discarded, alive or not that owner.
CheckLease(w) ==
    /\ loop[w].pc = "loaded"
    /\ LET owner == lease[loop[w].task] IN
       \/ owner \notin {w, NoWorker} /\ Discard(w)
       \/ owner = NoWorker /\ GoLoop(w, "vacant")
       \/ owner = w /\ GoLoop(w, "leased")
    /\ UNCHANGED <<redisVars, job, loopFrame>>

\* SET NX EX
TakeLease(w) ==
    /\ loop[w].pc = "vacant"
    /\ LET t == loop[w].task IN
       \/ /\ lease[t] = NoWorker
          /\ lease' = [lease EXCEPT ![t] = w]
          /\ GoLoop(w, "leased")
       \/ lease[t] # NoWorker /\ Discard(w) /\ UNCHANGED lease
    /\ UNCHANGED <<meta, queue, index, job, loopFrame>>

\* The record loaded before the lease was taken, now with 'running'.
StoreRunning(w) ==
    /\ loop[w].pc = "leased"
    /\ Store(loop[w].task, "running")
    /\ GoLoop(w, "stored")
    /\ UNCHANGED <<queue, lease, index, job, loopFrame>>

\* Mutant of Spawn: no index entry before the first heartbeat.
SpawnUnlisted(w) ==
    /\ loop[w].pc = "stored"
    /\ \E s \in SlotsOf(w) :
         /\ job[s].pc = "free"
         /\ \A r \in SlotsOf(w) : r[2] < s[2] => job[r].pc # "free"
         /\ job' = [job EXCEPT ![s] = At("start", loop[w].task)]
    /\ loop' = [loop EXCEPT ![w] = LoopIdle]
    /\ UNCHANGED <<redisVars, creating, live, hb, rec, mishap, spent>>

\* zadd, then the job is spawned in a free slot.
Spawn(w) ==
    /\ loop[w].pc = "stored"
    /\ index' = [index EXCEPT ![loop[w].task] = "fresh"]
    /\ \E s \in SlotsOf(w) :
         /\ job[s].pc = "free"
         /\ \A r \in SlotsOf(w) : r[2] < s[2] => job[r].pc # "free"
         /\ job' = [job EXCEPT ![s] = At("start", loop[w].task)]
    /\ loop' = [loop EXCEPT ![w] = LoopIdle]
    /\ UNCHANGED <<meta, queue, lease, loopFrame>>

\* A command of the loop raises: main leaves it, cancels the reclaim loop
\* and waits for the jobs in flight.
MainRaises(w) ==
    /\ loop[w].pc \in {"idle"} \union ClaimPcs
    /\ SpendError
    /\ loop' = [loop EXCEPT ![w] = At("draining", NoTask)]
    /\ rec' = [rec EXCEPT ![w] = RecOff]
    /\ LoseHandsOf(w)
    /\ UNCHANGED <<redisVars, creating, live, job, hb>>

\* The last job in flight is over: the process ends.
MainExits(w) ==
    /\ loop[w].pc = "draining"
    /\ \A s \in SlotsOf(w) : job[s].pc = "free"
    /\ loop' = [loop EXCEPT ![w] = LoopOff]
    /\ live' = live \ {w}
    /\ UNCHANGED <<redisVars, creating, job, hb, rec, mishap, spent>>

LoopStep(w) == \/ Pop(w) \/ LoadClaimed(w) \/ CheckLease(w) \/ TakeLease(w)
               \/ StoreRunning(w) \/ Spawn(w) \/ MainExits(w)

----------------------------------------------------------------------------
(* run_task                                                                *)

jobFrame == <<queue, cancelKey, creating, live, loop, rec, spent>>

\* Mutant of Start: the flag is consumed by the check.
StartConsumesFlag(s) ==
    /\ job[s].pc = "start"
    /\ IF job[s].task \in cancelKey
       THEN GoJob(s, "abort") /\ UNCHANGED hb
       ELSE GoJob(s, "input") /\ hb' = [hb EXCEPT ![s] = "sleep"]
    /\ cancelKey' = cancelKey \ {job[s].task}
    /\ UNCHANGED <<meta, queue, lease, index, result, creating, live, loop, rec, mishap, spent>>

\* The cancel flag is checked once before the heartbeat starts.
Start(s) ==
    /\ job[s].pc = "start"
    /\ IF job[s].task \in cancelKey
       THEN GoJob(s, "abort") /\ UNCHANGED hb
       ELSE GoJob(s, "input") /\ hb' = [hb EXCEPT ![s] = "sleep"]
    /\ UNCHANGED <<meta, lease, index, result, mishap, jobFrame>>

\* Canceled before it began: stored, then released without a finally.
StoreAborted(s) ==
    /\ job[s].pc = "abort"
    /\ Store(job[s].task, "canceled")
    /\ GoJob(s, "release")
    /\ UNCHANGED <<lease, index, result, hb, mishap, jobFrame>>

\* Moderation and redaction of the input, then the second check.
CheckInput(s) ==
    /\ job[s].pc = "input"
    /\ GoJob(s, IF job[s].task \in cancelKey THEN "canceling" ELSE "draft")
    /\ UNCHANGED <<meta, lease, index, result, hb, mishap, jobFrame>>

\* Analyze, retrieval, draft.  Only mode 'ok' streams.
Draft(s) ==
    /\ job[s].pc = "draft"
    /\ \E next \in {"stream", "chunks"} : GoJob(s, next)
    /\ UNCHANGED <<meta, lease, index, result, hb, mishap, jobFrame>>

\* The model's answer is streamed; a cancel flag seen at a delta raises
\* RuntimeError('canceled'), which the block's own `except Exception` turns
\* into "not streamed", as it does any other error.
Stream(s) ==
    /\ job[s].pc = "stream"
    /\ \E next \in {"commit", "chunks"} : GoJob(s, next)
    /\ UNCHANGED <<meta, lease, index, result, hb, mishap, jobFrame>>

\* The draft's text in pieces, each behind a check: the last look at the flag.
SendChunks(s) ==
    /\ job[s].pc = "chunks"
    /\ GoJob(s, IF job[s].task \in cancelKey THEN "canceling" ELSE "commit")
    /\ UNCHANGED <<meta, lease, index, result, hb, mishap, jobFrame>>

\* Status first ...
StoreSucceeded(s) ==
    /\ job[s].pc = "commit"
    /\ Store(job[s].task, "succeeded")
    /\ GoJob(s, "result")
    /\ UNCHANGED <<lease, index, result, hb, mishap, jobFrame>>

\* ... result second.
StoreResult(s) ==
    /\ job[s].pc = "result"
    /\ result' = result \union {job[s].task}
    /\ GoJob(s, "report")
    /\ UNCHANGED <<meta, lease, index, hb, mishap, jobFrame>>

\* The suggest_ready audit row and event.
Report(s) ==
    /\ job[s].pc = "report"
    /\ GoJob(s, "finally")
    /\ UNCHANGED <<meta, lease, index, result, hb, mishap, jobFrame>>

\* except Exception: any step of the try block may raise, the ones after the
\* status was stored too.
PipelineRaises(s) ==
    /\ job[s].pc \in {"input", "draft", "chunks", "commit", "result", "report"}
    /\ GoJob(s, "failing")
    /\ UNCHANGED <<meta, lease, index, result, hb, mishap, jobFrame>>

\* except RuntimeError, not 'canceled': raised again, and no status is stored.
\* An embedding provider without a URL and a KafkaError are of this kind.
PipelineRaisesRuntimeError(s) ==
    /\ job[s].pc \in {"input", "draft", "report"}
    /\ GoJob(s, "finally")
    /\ UNCHANGED <<meta, lease, index, result, hb, mishap, jobFrame>>

StoreCanceled(s) ==
    /\ job[s].pc = "canceling"
    /\ Store(job[s].task, "canceled")
    /\ GoJob(s, "finally")
    /\ UNCHANGED <<lease, index, result, hb, mishap, jobFrame>>

\* Mutant of StoreFailed: a status TaskStatus does not have.
StoreFailedAsError(s) ==
    /\ job[s].pc = "failing"
    /\ Store(job[s].task, "error")
    /\ GoJob(s, "finally")
    /\ UNCHANGED <<lease, index, result, hb, mishap, jobFrame>>

StoreFailed(s) ==
    /\ job[s].pc = "failing"
    /\ Store(job[s].task, "failed")
    /\ GoJob(s, "finally")
    /\ UNCHANGED <<lease, index, result, hb, mishap, jobFrame>>

\* The heartbeat is canceled and awaited; one that died raises here, and the
\* release below it is skipped.
StopHeartbeat(s) ==
    /\ job[s].pc = "finally"
    /\ IF hb[s] = "dead"
       THEN job' = [job EXCEPT ![s] = Free] /\ hb' = [hb EXCEPT ![s] = "off"]
       ELSE /\ GoJob(s, "release")
            /\ hb' = [hb EXCEPT ![s] = IF @ = "ended" THEN "ended" ELSE "off"]
    /\ UNCHANGED <<meta, lease, index, result, mishap, jobFrame>>

\* _release_task: owner read ...
CheckOwner(s) ==
    /\ job[s].pc = "release"
    /\ GoJob(s, IF lease[job[s].task] = s[1] THEN "unlease" ELSE "unindex")
    /\ UNCHANGED <<meta, lease, index, result, hb, mishap, jobFrame>>

\* ... lease deleted by key, whoever holds it by then ...
DeleteLease(s) ==
    /\ job[s].pc = "unlease"
    /\ lease' = [lease EXCEPT ![job[s].task] = NoWorker]
    /\ GoJob(s, "unindex")
    /\ UNCHANGED <<meta, index, result, hb, mishap, jobFrame>>

\* ... index entry removed always, a status other than a terminal one
\* notwithstanding; the slot is given back.
Unindex(s) ==
    /\ job[s].pc = "unindex"
    /\ index' = [index EXCEPT ![job[s].task] = "absent"]
    /\ job' = [job EXCEPT ![s] = Free]
    /\ hb' = [hb EXCEPT ![s] = "off"]
    /\ Blame({job[s].task} \ TerminalTasks, "released")
    /\ UNCHANGED <<meta, lease, result, jobFrame>>

\* A command outside the try block raises: the slot is given back and the
\* rest of the coroutine does not run.  In an except clause: only its rest.
JobRaises(s) ==
    /\ job[s].pc \in {"start", "abort", "canceling", "failing",
                      "release", "unlease", "unindex"}
    /\ SpendError
    /\ IF job[s].pc \in {"canceling", "failing"}
       THEN GoJob(s, "finally") /\ UNCHANGED hb
       ELSE job' = [job EXCEPT ![s] = Free] /\ hb' = [hb EXCEPT ![s] = "off"]
    /\ UNCHANGED <<redisVars, creating, live, loop, rec, mishap>>

JobStep(s) == \/ Start(s) \/ StoreAborted(s) \/ CheckInput(s) \/ Draft(s)
              \/ Stream(s) \/ SendChunks(s) \/ StoreSucceeded(s)
              \/ StoreResult(s) \/ Report(s) \/ StoreCanceled(s)
              \/ StoreFailed(s) \/ StopHeartbeat(s) \/ CheckOwner(s)
              \/ DeleteLease(s) \/ Unindex(s)

----------------------------------------------------------------------------
(* _heartbeat_loop                                                         *)

hbFrame == <<queue, lease, cancelKey, result, creating, live, loop, job, rec>>

\* Mutant of Wake: the owner test is inverted.
WakeInverted(s) ==
    /\ hb[s] = "sleep"
    /\ hb' = [hb EXCEPT ![s] = IF lease[job[s].task] = s[1] THEN "ended" ELSE "owned"]
    /\ UNCHANGED <<meta, index, spent, mishap, hbFrame>>

\* The timer fires; the owner is read.
Wake(s) ==
    /\ hb[s] = "sleep"
    /\ hb' = [hb EXCEPT ![s] = IF lease[job[s].task] = s[1] THEN "owned" ELSE "ended"]
    /\ UNCHANGED <<meta, index, spent, mishap, hbFrame>>

\* The lease is renewed and the record read: only a running task goes on.
Renew(s) ==
    /\ hb[s] = "owned"
    /\ hb' = [hb EXCEPT ![s] = IF meta[job[s].task] = "running" THEN "loaded" ELSE "ended"]
    /\ UNCHANGED <<meta, index, spent, mishap, hbFrame>>

\* The whole record goes back, the status read before included.
StoreBeat(s) ==
    /\ hb[s] = "loaded"
    /\ Store(job[s].task, "running")
    /\ hb' = [hb EXCEPT ![s] = "stored"]
    /\ UNCHANGED <<index, spent, mishap, hbFrame>>

ExtendIndex(s) ==
    /\ hb[s] = "stored"
    /\ index' = [index EXCEPT ![job[s].task] = "fresh"]
    /\ hb' = [hb EXCEPT ![s] = "sleep"]
    /\ UNCHANGED <<meta, spent, mishap, hbFrame>>

\* A command of the heartbeat raises: nothing renews the lease any more.
BeatRaises(s) ==
    /\ hb[s] \in {"sleep", "owned", "loaded", "stored"}
    /\ spent.lapses < MaxLapses
    /\ spent' = [spent EXCEPT !.lapses = @ + 1]
    /\ hb' = [hb EXCEPT ![s] = "dead"]
    /\ Blame({job[s].task}, "lapse")
    /\ UNCHANGED <<meta, index, hbFrame>>

BeatStep(s) == Wake(s) \/ Renew(s) \/ StoreBeat(s) \/ ExtendIndex(s)

----------------------------------------------------------------------------
(* _reclaim_expired_tasks                                                  *)

recFrame == <<cancelKey, result, creating, live, loop, job, hb, mishap>>

\* zrangebyscore: up to a batch of the entries whose deadline has passed.
Scan(w) ==
    /\ rec[w].pc = "wait"
    /\ LET due == {t \in Tasks : index[t] = "due"} IN
       \E batch \in SUBSET due :
         /\ batch # {}
         /\ \/ batch = due /\ Cardinality(due) <= ReclaimBatch
            \/ Cardinality(batch) = ReclaimBatch
         /\ rec' = [rec EXCEPT ![w] = [pc |-> "next", task |-> NoTask, todo |-> batch]]
    /\ UNCHANGED <<meta, queue, lease, index, spent, recFrame>>

\* Mutant of NextExpired: an entry past its deadline is enough, lease or not.
NextExpiredUnleased(w) ==
    /\ rec[w].pc = "next"
    /\ \/ /\ rec[w].todo = {}
          /\ rec' = [rec EXCEPT ![w] = RecWait]
       \/ \E t \in rec[w].todo :
            rec' = [rec EXCEPT ![w] =
                      [pc |-> "load", task |-> t, todo |-> rec[w].todo \ {t}]]
    /\ UNCHANGED <<meta, queue, lease, index, spent, recFrame>>

\* The next id of the batch: its lease is read.
NextExpired(w) ==
    /\ rec[w].pc = "next"
    /\ \/ /\ rec[w].todo = {}
          /\ rec' = [rec EXCEPT ![w] = RecWait]
       \/ \E t \in rec[w].todo :
            rec' = [rec EXCEPT ![w] =
                      [pc |-> IF lease[t] # NoWorker THEN "extend" ELSE "load",
                       task |-> t, todo |-> rec[w].todo \ {t}]]
    /\ UNCHANGED <<meta, queue, lease, index, spent, recFrame>>

\* An owner is alive, or was less than a TTL ago.
ExtendOwned(w) ==
    /\ rec[w].pc = "extend"
    /\ index' = [index EXCEPT ![rec[w].task] = "fresh"]
    /\ GoRec(w, "next")
    /\ UNCHANGED <<meta, queue, lease, spent, recFrame>>

LoadExpired(w) ==
    /\ rec[w].pc = "load"
    /\ GoRec(w, IF meta[rec[w].task] = "running" THEN "verify" ELSE "drop")
    /\ UNCHANGED <<meta, queue, lease, index, spent, recFrame>>

\* Mutant of CheckCancel: a task whose worker is gone is canceled.
CheckCancelAlways(w) ==
    /\ rec[w].pc = "verify"
    /\ GoRec(w, "cancel")
    /\ UNCHANGED <<meta, queue, lease, index, spent, recFrame>>

CheckCancel(w) ==
    /\ rec[w].pc = "verify"
    /\ GoRec(w, IF rec[w].task \in cancelKey THEN "cancel" ELSE "requeue")
    /\ UNCHANGED <<meta, queue, lease, index, spent, recFrame>>

StoreReclaimCanceled(w) ==
    /\ rec[w].pc = "cancel"
    /\ Store(rec[w].task, "canceled")
    /\ GoRec(w, "drop")
    /\ UNCHANGED <<queue, lease, index, spent, recFrame>>

DropExpired(w) ==
    /\ rec[w].pc = "drop"
    /\ index' = [index EXCEPT ![rec[w].task] = "absent"]
    /\ GoRec(w, "next")
    /\ UNCHANGED <<meta, queue, lease, spent, recFrame>>

\* Requeueing is three commands: the record, whose requeue_count the code
\* raises without a limit, ...
StoreQueued(w) ==
    /\ rec[w].pc = "requeue"
    /\ spent.requeues < MaxRequeues
    /\ spent' = [spent EXCEPT !.requeues = @ + 1]
    /\ Store(rec[w].task, "queued")
    /\ GoRec(w, "unlist")
    /\ UNCHANGED <<queue, lease, index, recFrame>>

\* ... the index, ...
Unlist(w) ==
    /\ rec[w].pc = "unlist"
    /\ index' = [index EXCEPT ![rec[w].task] = "absent"]
    /\ GoRec(w, "push")
    /\ UNCHANGED <<meta, queue, lease, spent, recFrame>>

\* ... and the queue.
Requeue(w) ==
    /\ rec[w].pc = "push"
    /\ queue' = Append(queue, rec[w].task)
    /\ GoRec(w, "next")
    /\ UNCHANGED <<meta, lease, index, spent, recFrame>>

\* _reclaim_loop survives an error; the pass does not.
ReclaimRaises(w) ==
    /\ rec[w].pc \notin {"off", "wait"}
    /\ SpendError
    /\ rec' = [rec EXCEPT ![w] = RecWait]
    /\ Blame({t \in Tasks \ TerminalTasks : InReclaim(w, t)}, "reclaim")
    /\ UNCHANGED <<redisVars, creating, live, loop, job, hb>>

ReclaimStep(w) == \/ Scan(w) \/ NextExpired(w) \/ ExtendOwned(w)
                  \/ LoadExpired(w) \/ CheckCancel(w) \/ StoreReclaimCanceled(w)
                  \/ DropExpired(w) \/ StoreQueued(w) \/ Unlist(w) \/ Requeue(w)

----------------------------------------------------------------------------
(* Time and processes                                                      *)

\* The TTL of a lease runs out, because nothing renews it.
LeaseExpires(t) ==
    /\ lease[t] # NoWorker
    /\ ~ Kept(t)
    /\ lease' = [lease EXCEPT ![t] = NoWorker]
    /\ UNCHANGED <<meta, queue, index, cancelKey, result, creating, workerVars, mishap, spent>>

\* The owner's process stalls for longer than the TTL, its heartbeat with it:
\* the lease is gone and the deadline in the index, never later than the
\* lease's, has passed.  From here on two runs of the task can meet, and one's
\* release or reclaim can remove the index entry of the other.
OwnerStalls(t) ==
    /\ Kept(t)
    /\ spent.lapses < MaxLapses
    /\ spent' = [spent EXCEPT !.lapses = @ + 1]
    /\ lease' = [lease EXCEPT ![t] = NoWorker]
    /\ index' = [index EXCEPT ![t] = IF @ = "absent" THEN @ ELSE "due"]
    /\ Blame({t}, "lapse")
    /\ UNCHANGED <<meta, queue, cancelKey, result, creating, workerVars>>

\* The score of an index entry that nobody extends falls behind the clock.
DeadlinePasses(t) ==
    /\ index[t] = "fresh"
    /\ \A w \in live : ~ Beats(w, t)
    /\ index' = [index EXCEPT ![t] = "due"]
    /\ UNCHANGED <<meta, queue, lease, cancelKey, result, creating, workerVars, mishap, spent>>

StartWorker(w) ==
    /\ w \notin live
    /\ Cardinality(live) < MaxLive
    /\ live' = live \union {w}
    /\ loop' = [loop EXCEPT ![w] = LoopIdle]
    /\ rec' = [rec EXCEPT ![w] = RecWait]
    /\ UNCHANGED <<redisVars, creating, job, hb, mishap, spent>>

\* The process is killed: its coroutines are gone, what Redis holds stays.
Crash(w) ==
    /\ w \in live
    /\ spent.crashes < MaxCrashes
    /\ spent' = [spent EXCEPT !.crashes = @ + 1]
    /\ live' = live \ {w}
    /\ loop' = [loop EXCEPT ![w] = LoopOff]
    /\ job' = [s \in Slots |-> IF s[1] = w THEN Free ELSE job[s]]
    /\ hb' = [s \in Slots |-> IF s[1] = w THEN "off" ELSE hb[s]]
    /\ rec' = [rec EXCEPT ![w] = RecOff]
    /\ LoseHandsOf(w)
    /\ UNCHANGED <<redisVars, creating>>

----------------------------------------------------------------------------
Init ==
    /\ meta = [t \in Tasks |-> "none"]
    /\ queue = <<>>
    /\ lease = [t \in Tasks |-> NoWorker]
    /\ index = [t \in Tasks |-> "absent"]
    /\ cancelKey = {}
    /\ result = {}
    /\ creating = {}
    /\ live = {}
    /\ loop = [w \in Workers |-> LoopOff]
    /\ job = [s \in Slots |-> Free]
    /\ hb = [s \in Slots |-> "off"]
    /\ rec = [w \in Workers |-> RecOff]
    /\ mishap = [t \in Tasks |-> "none"]
    /\ spent = [crashes |-> 0, errors |-> 0, lapses |-> 0, requeues |-> 0]

Next ==
    \/ \E t \in Tasks : \/ Submit(t) \/ Enqueue(t) \/ SubmitFails(t) \/ Cancel(t)
                        \/ LeaseExpires(t) \/ OwnerStalls(t) \/ DeadlinePasses(t)
    \/ \E w \in Workers : \/ StartWorker(w) \/ Crash(w) \/ MainRaises(w)
                          \/ ReclaimRaises(w) \/ LoopStep(w) \/ ReclaimStep(w)
    \/ \E s \in Slots : \/ JobStep(s) \/ BeatStep(s) \/ BeatRaises(s) \/ JobRaises(s)
                        \/ PipelineRaises(s) \/ PipelineRaisesRuntimeError(s)

Spec == Init /\ [][Next]_vars

\* asyncio runs every coroutine that can run, Redis keys expire, and the
\* operator of the service starts a worker again when none is alive.
Fairness ==
    /\ \A t \in Tasks : /\ WF_vars(Enqueue(t))
                        /\ WF_vars(LeaseExpires(t))
                        /\ WF_vars(DeadlinePasses(t))
    /\ \A w \in Workers : WF_vars(LoopStep(w)) /\ WF_vars(ReclaimStep(w))
    /\ \A s \in Slots : WF_vars(JobStep(s)) /\ WF_vars(BeatStep(s))
    /\ WF_vars(\E w \in Workers : StartWorker(w))

FairSpec == Spec /\ Fairness

----------------------------------------------------------------------------
(* Properties                                                              *)

\* No task is run by two coroutines at a time, a crashed and reclaimed one
\* included: two runs would send two drafts to one operator, and the first to
\* finish deletes the other's lease by key (_release_task).
AtMostOneRunner ==
    \A t \in Tasks : Undisturbed(t) => Cardinality(Running(t)) <= 1

Copies(t) == {n \in 1 .. Len(queue) : queue[n] = t}

\* A task without an outcome is somewhere a worker will find it: about to be
\* queued, queued, popped and being claimed, run, or listed as running in the
\* index that the reclaim loop reads.
Tracked(t) ==
    \/ t \in creating
    \/ Copies(t) # {}
    \/ Running(t) # {}
    \/ \E w \in Workers : InLoop(w, t) \/ InReclaim(w, t)
    \/ index[t] # "absent" /\ meta[t] = "running"

\* The only ways to lose a task are those the code has: the request that dies
\* between its two commands, the process that dies with a popped id in hand or
\* in the middle of requeueing, and the job that releases a task whose record
\* still says 'running'.
LossesNamed ==
    \A t \in Tasks : meta[t] \in {"queued", "running"} /\ mishap[t] = "none" => Tracked(t)

\* _TERMINAL_TASK_STATUSES: what _claim_task calls terminal stays as it is.
TerminalIsFinal ==
    [][\A t \in Tasks : meta[t] \in Terminal => meta'[t] \in Terminal]_vars

\* A flag set while the task is queued keeps it from ever succeeding, whether
\* the claim, the job's first check or the reclaim loop is the one to see it.
CanceledInQueue ==
    \A t \in Tasks : [](t \in cancelKey /\ meta[t] = "queued" =>
                         [](meta[t] # "succeeded" \/ ~ Undisturbed(t)))

\* Every accepted task comes to an outcome unless it is lost in one of the
\* ways LossesNamed admits.
EverySuggestEnds ==
    \A t \in Tasks : meta[t] = "queued" ~> meta[t] \in Terminal \/ mishap[t] # "none"
=============================================================================
