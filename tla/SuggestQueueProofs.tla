------------------------- MODULE SuggestQueueProofs -------------------------
(***************************************************************************)
(* Theorems about SuggestQueue, for any tasks, worker names and bounds.    *)
(* First the types.  Then, with one worker process alive at a time, who    *)
(* has a task in hand: no two coroutines run a task, no task is lost but   *)
(* in the ways the code names, and SuggestQueue implements SuggestTask as  *)
(* long as no lease lapses.                                                *)
(*                                                                         *)
(* These three rest on one invariant, Sound.  It says of every task whose  *)
(* lease has not lapsed that it is in one place: with the backend, in the  *)
(* queue, in the hands of a claim loop at some step, of a job, of a        *)
(* reclaim loop, or with nobody; and what its record, its lease and its    *)
(* index entry are at that place.                                          *)
(***************************************************************************)
EXTENDS SuggestRefinement, FiniteSetTheorems, TLAPS

(***************************************************************************)
(* Type correctness.  Pushing an id back to the queue is well typed only   *)
(* because a reclaim loop past its scan holds a task, so HandsOK goes      *)
(* along.                                                                  *)
(***************************************************************************)
Handling == {"extend", "load", "verify", "cancel", "drop", "requeue", "unlist",
             "push"}

HandsOK ==
    /\ \A w \in Workers : loop[w].pc \in ClaimPcs => loop[w].task \in Tasks
    /\ \A s \in Slots : job[s].pc # "free" => job[s].task \in Tasks
    /\ \A w \in Workers : rec[w].pc \in Handling => rec[w].task \in Tasks

Typed == TypeOK /\ HandsOK

LEMMA InitTyped == Init => Typed
  BY BoundsAssumption DEF Init, Typed, TypeOK, HandsOK, At, LoopOff, Free, RecOff, Status, LoopPc,
     JobPc, HbPc, RecPc, Mishaps, TaskOrNone, ClaimPcs, Handling

\* What each helper leaves of the types.
LEMMA StoreTyped ==
  ASSUME TypeOK, NEW t, NEW status \in Status, Store(t, status)
  PROVE  meta' \in [Tasks -> Status]
  BY DEF TypeOK, Store

LEMMA SetLoopTyped ==
  ASSUME Typed, NEW w \in Workers, NEW l \in [pc : LoopPc, task : TaskOrNone],
         l.pc \in ClaimPcs => l.task \in Tasks,
         loop' = [loop EXCEPT ![w] = l]
  PROVE  /\ loop' \in [Workers -> [pc : LoopPc, task : TaskOrNone]]
         /\ \A v \in Workers : loop'[v].pc \in ClaimPcs => loop'[v].task \in Tasks
  BY DEF Typed, TypeOK, HandsOK

LEMMA GoLoopTyped ==
  ASSUME Typed, NEW w \in Workers, NEW pc \in LoopPc, loop[w].pc \in ClaimPcs,
         GoLoop(w, pc)
  PROVE  /\ loop' \in [Workers -> [pc : LoopPc, task : TaskOrNone]]
         /\ \A v \in Workers : loop'[v].pc \in ClaimPcs => loop'[v].task \in Tasks
<1>1. loop' = [loop EXCEPT ![w] = [pc |-> pc, task |-> loop[w].task]]
  <2>1. loop[w] = [pc |-> loop[w].pc, task |-> loop[w].task]
    BY DEF Typed, TypeOK
  <2>2. [loop[w] EXCEPT !.pc = pc] = [pc |-> pc, task |-> loop[w].task]
    BY <2>1
  <2> QED
    BY <2>2 DEF GoLoop
<1>2. loop[w].task \in Tasks
  BY DEF Typed, HandsOK
<1> QED
  BY <1>1, <1>2, SetLoopTyped DEF TaskOrNone

LEMMA SetJobTyped ==
  ASSUME Typed, NEW s \in Slots, NEW j \in [pc : JobPc, task : TaskOrNone],
         j.pc # "free" => j.task \in Tasks,
         job' = [job EXCEPT ![s] = j]
  PROVE  /\ job' \in [Slots -> [pc : JobPc, task : TaskOrNone]]
         /\ \A r \in Slots : job'[r].pc # "free" => job'[r].task \in Tasks
  BY DEF Typed, TypeOK, HandsOK

LEMMA GoJobTyped ==
  ASSUME Typed, NEW s \in Slots, NEW pc \in JobPc, job[s].pc # "free",
         GoJob(s, pc)
  PROVE  /\ job' \in [Slots -> [pc : JobPc, task : TaskOrNone]]
         /\ \A r \in Slots : job'[r].pc # "free" => job'[r].task \in Tasks
<1>1. job' = [job EXCEPT ![s] = [pc |-> pc, task |-> job[s].task]]
  <2>1. job[s] = [pc |-> job[s].pc, task |-> job[s].task]
    BY DEF Typed, TypeOK
  <2>2. [job[s] EXCEPT !.pc = pc] = [pc |-> pc, task |-> job[s].task]
    BY <2>1
  <2> QED
    BY <2>2 DEF GoJob
<1>2. job[s].task \in Tasks
  BY DEF Typed, HandsOK
<1> QED
  BY <1>1, <1>2, SetJobTyped DEF TaskOrNone

LEMMA SetRecTyped ==
  ASSUME Typed, NEW w \in Workers,
         NEW r \in [pc : RecPc, task : TaskOrNone, todo : SUBSET Tasks],
         r.pc \in Handling => r.task \in Tasks,
         rec' = [rec EXCEPT ![w] = r]
  PROVE  /\ rec' \in [Workers -> [pc : RecPc, task : TaskOrNone, todo : SUBSET Tasks]]
         /\ \A v \in Workers : rec'[v].pc \in Handling => rec'[v].task \in Tasks
  BY DEF Typed, TypeOK, HandsOK

LEMMA GoRecTyped ==
  ASSUME Typed, NEW w \in Workers, NEW pc \in RecPc, rec[w].pc \in Handling,
         GoRec(w, pc)
  PROVE  /\ rec' \in [Workers -> [pc : RecPc, task : TaskOrNone, todo : SUBSET Tasks]]
         /\ \A v \in Workers : rec'[v].pc \in Handling => rec'[v].task \in Tasks
<1>1. rec' = [rec EXCEPT ![w] = [pc |-> pc, task |-> rec[w].task, todo |-> rec[w].todo]]
  <2>1. rec[w] = [pc |-> rec[w].pc, task |-> rec[w].task, todo |-> rec[w].todo]
    BY DEF Typed, TypeOK
  <2>2. [rec[w] EXCEPT !.pc = pc] = [pc |-> pc, task |-> rec[w].task, todo |-> rec[w].todo]
    BY <2>1
  <2> QED
    BY <2>2 DEF GoRec
<1>2. rec[w].task \in Tasks /\ rec[w].todo \in SUBSET Tasks
  BY DEF Typed, TypeOK, HandsOK
<1> QED
  BY <1>1, <1>2, SetRecTyped DEF TaskOrNone

LEMMA BlameTyped ==
  ASSUME TypeOK, NEW ts, NEW cause \in Mishaps, Blame(ts, cause)
  PROVE  mishap' \in [Tasks -> Mishaps]
  BY DEF TypeOK, Blame

LEMMA LoseHandsTyped ==
  ASSUME TypeOK, NEW w \in Workers, LoseHandsOf(w)
  PROVE  mishap' \in [Tasks -> Mishaps]
  BY DEF TypeOK, LoseHandsOf, Mishaps

LEMMA SpendErrorTyped ==
  ASSUME TypeOK, SpendError
  PROVE  spent' \in [crashes : 0 .. MaxCrashes, errors : 0 .. MaxErrors,
                     lapses : 0 .. MaxLapses, requeues : 0 .. MaxRequeues]
  BY BoundsAssumption, SMTT(30) DEF TypeOK, SpendError

LEMMA SpendCrashTyped ==
  ASSUME TypeOK, spent.crashes < MaxCrashes, spent' = [spent EXCEPT !.crashes = @ + 1]
  PROVE  spent' \in [crashes : 0 .. MaxCrashes, errors : 0 .. MaxErrors,
                     lapses : 0 .. MaxLapses, requeues : 0 .. MaxRequeues]
  BY BoundsAssumption, SMTT(30) DEF TypeOK

LEMMA SpendLapseTyped ==
  ASSUME TypeOK, spent.lapses < MaxLapses, spent' = [spent EXCEPT !.lapses = @ + 1]
  PROVE  spent' \in [crashes : 0 .. MaxCrashes, errors : 0 .. MaxErrors,
                     lapses : 0 .. MaxLapses, requeues : 0 .. MaxRequeues]
<1>1. spent.lapses + 1 \in 0 .. MaxLapses
  BY BoundsAssumption DEF TypeOK
<1> QED
  BY <1>1 DEF TypeOK

LEMMA SpendRequeueTyped ==
  ASSUME TypeOK, spent.requeues < MaxRequeues, spent' = [spent EXCEPT !.requeues = @ + 1]
  PROVE  spent' \in [crashes : 0 .. MaxCrashes, errors : 0 .. MaxErrors,
                     lapses : 0 .. MaxLapses, requeues : 0 .. MaxRequeues]
<1>1. spent.requeues + 1 \in 0 .. MaxRequeues
  BY BoundsAssumption DEF TypeOK
<1> QED
  BY <1>1 DEF TypeOK

\* A request of the backend, and the passage of time.
LEMMA BackendTyped ==
  ASSUME Typed, NEW t \in Tasks,
         Submit(t) \/ Enqueue(t) \/ SubmitFails(t) \/ Cancel(t) \/ LeaseExpires(t) \/ OwnerStalls(t) \/ DeadlinePasses(t)
  PROVE  Typed'
<1> USE DEF Typed, TypeOK, HandsOK, redisVars, workerVars
<1>1. CASE Submit(t)
  BY <1>1, StoreTyped
     DEF Submit, Status, Terminal
<1>2. CASE Enqueue(t)
  BY <1>2
     DEF Enqueue
<1>3. CASE SubmitFails(t)
  BY <1>3, BlameTyped, SpendErrorTyped
     DEF SubmitFails, Mishaps
<1>4. CASE Cancel(t)
  BY <1>4
     DEF Cancel
<1>5. CASE LeaseExpires(t)
  BY <1>5
     DEF LeaseExpires
<1>6. CASE OwnerStalls(t)
  BY <1>6, BlameTyped, SpendLapseTyped
     DEF OwnerStalls, Mishaps
<1>7. CASE DeadlinePasses(t)
  BY <1>7
     DEF DeadlinePasses
<1> QED
  BY <1>1, <1>2, <1>3, <1>4, <1>5, <1>6, <1>7

\* The claim loop and the process around it.
LEMMA LoopTyped ==
  ASSUME Typed, NEW w \in Workers,
         Pop(w) \/ LoadClaimed(w) \/ CheckLease(w) \/ TakeLease(w) \/ StoreRunning(w) \/ Spawn(w) \/ MainRaises(w) \/ MainExits(w) \/ StartWorker(w) \/ Crash(w)
  PROVE  Typed'
<1> USE DEF Typed, TypeOK, HandsOK, redisVars, workerVars
<1>1. CASE Pop(w)
  BY <1>1, SetLoopTyped
     DEF Pop, loopFrame, LoopPc, ClaimPcs, At, TaskOrNone
<1>2. CASE LoadClaimed(w)
  BY <1>2, GoLoopTyped, SetLoopTyped
     DEF LoadClaimed, loopFrame, LoopPc, ClaimPcs, Discard, LoopIdle, At, TaskOrNone
<1>3. CASE CheckLease(w)
  BY <1>3, GoLoopTyped, SetLoopTyped
     DEF CheckLease, loopFrame, LoopPc, ClaimPcs, Discard, LoopIdle, At, TaskOrNone
<1>4. CASE TakeLease(w)
  <2>1. CASE /\ lease[loop[w].task] = NoWorker
             /\ lease' = [lease EXCEPT ![loop[w].task] = w]
             /\ GoLoop(w, "leased")
    BY <1>4, <2>1, GoLoopTyped DEF TakeLease, loopFrame, LoopPc, ClaimPcs
  <2>2. CASE Discard(w) /\ UNCHANGED lease
    BY <1>4, <2>2, SetLoopTyped DEF TakeLease, loopFrame, LoopPc, ClaimPcs, Discard, LoopIdle,
       At, TaskOrNone
  <2> QED
    BY <1>4, <2>1, <2>2 DEF TakeLease
<1>5. CASE StoreRunning(w)
  BY <1>5, StoreTyped, GoLoopTyped
     DEF StoreRunning, loopFrame, Status, Terminal, LoopPc, ClaimPcs
<1>6. CASE Spawn(w)
  <2> PICK s \in SlotsOf(w) : job' = [job EXCEPT ![s] = At("start", loop[w].task)]
    BY <1>6 DEF Spawn
  <2>1. s \in Slots /\ loop[w].task \in Tasks
    BY <1>6 DEF SlotsOf, Spawn, ClaimPcs
  <2>2. At("start", loop[w].task) \in [pc : JobPc, task : TaskOrNone]
    BY <2>1 DEF At, JobPc, TaskOrNone
  <2>3. /\ job' \in [Slots -> [pc : JobPc, task : TaskOrNone]]
        /\ \A r \in Slots : job'[r].pc # "free" => job'[r].task \in Tasks
    BY <2>1, <2>2, SetJobTyped DEF At
  <2>4. /\ loop' \in [Workers -> [pc : LoopPc, task : TaskOrNone]]
        /\ \A v \in Workers : loop'[v].pc \in ClaimPcs => loop'[v].task \in Tasks
    BY <1>6, SetLoopTyped DEF Spawn, LoopIdle, At, LoopPc, ClaimPcs, TaskOrNone
  <2> QED
    BY <1>6, <2>3, <2>4 DEF Spawn, loopFrame
<1>7. CASE MainRaises(w)
  BY <1>7, SetLoopTyped, SetRecTyped, LoseHandsTyped, SpendErrorTyped
     DEF MainRaises, LoopPc, ClaimPcs, At, TaskOrNone, RecOff, RecPc, Handling
<1>8. CASE MainExits(w)
  BY <1>8, SetLoopTyped
     DEF MainExits, LoopPc, ClaimPcs, LoopOff, At, TaskOrNone
<1>9. CASE StartWorker(w)
  BY <1>9, SetLoopTyped, SetRecTyped
     DEF StartWorker, LoopPc, ClaimPcs, LoopIdle, At, TaskOrNone, RecWait, RecPc, Handling
<1>10. CASE Crash(w)
  <2>1. /\ loop' \in [Workers -> [pc : LoopPc, task : TaskOrNone]]
        /\ \A v \in Workers : loop'[v].pc \in ClaimPcs => loop'[v].task \in Tasks
    BY <1>10, SetLoopTyped DEF Crash, LoopOff, At, LoopPc, ClaimPcs, TaskOrNone
  <2>2. /\ job' \in [Slots -> [pc : JobPc, task : TaskOrNone]]
        /\ \A r \in Slots : job'[r].pc # "free" => job'[r].task \in Tasks
    BY <1>10 DEF Crash, Free, At, JobPc, TaskOrNone
  <2>3. hb' \in [Slots -> HbPc]
    BY <1>10 DEF Crash, HbPc
  <2>4. /\ rec' \in [Workers -> [pc : RecPc, task : TaskOrNone, todo : SUBSET Tasks]]
        /\ \A v \in Workers : rec'[v].pc \in Handling => rec'[v].task \in Tasks
    BY <1>10, SetRecTyped DEF Crash, RecOff, RecPc, Handling, TaskOrNone
  <2> QED
    BY <1>10, <2>1, <2>2, <2>3, <2>4, LoseHandsTyped, SpendCrashTyped DEF Crash
<1> QED
  BY <1>1, <1>2, <1>3, <1>4, <1>5, <1>6, <1>7, <1>8, <1>9, <1>10

\* A job.
LEMMA JobTyped ==
  ASSUME Typed, NEW s \in Slots,
         Start(s) \/ StoreAborted(s) \/ CheckInput(s) \/ Draft(s) \/ Stream(s) \/ SendChunks(s) \/ StoreSucceeded(s) \/ StoreResult(s) \/ Report(s) \/ StoreCanceled(s) \/ StoreFailed(s) \/ StopHeartbeat(s) \/ CheckOwner(s) \/ DeleteLease(s) \/ Unindex(s) \/ PipelineRaises(s) \/ PipelineRaisesRuntimeError(s) \/ JobRaises(s)
  PROVE  Typed'
<1> USE DEF Typed, TypeOK, HandsOK, redisVars, workerVars
<1>1. CASE Start(s)
  BY <1>1, GoJobTyped
     DEF Start, jobFrame, JobPc, HbPc
<1>2. CASE StoreAborted(s)
  BY <1>2, StoreTyped, GoJobTyped
     DEF StoreAborted, jobFrame, Status, Terminal, JobPc
<1>3. CASE CheckInput(s)
  BY <1>3, GoJobTyped
     DEF CheckInput, jobFrame, JobPc
<1>4. CASE Draft(s)
  BY <1>4, GoJobTyped
     DEF Draft, jobFrame, JobPc
<1>5. CASE Stream(s)
  BY <1>5, GoJobTyped
     DEF Stream, jobFrame, JobPc
<1>6. CASE SendChunks(s)
  BY <1>6, GoJobTyped
     DEF SendChunks, jobFrame, JobPc
<1>7. CASE StoreSucceeded(s)
  BY <1>7, StoreTyped, GoJobTyped
     DEF StoreSucceeded, jobFrame, Status, Terminal, JobPc
<1>8. CASE StoreResult(s)
  BY <1>8, GoJobTyped
     DEF StoreResult, jobFrame, JobPc
<1>9. CASE Report(s)
  BY <1>9, GoJobTyped
     DEF Report, jobFrame, JobPc
<1>10. CASE StoreCanceled(s)
  BY <1>10, StoreTyped, GoJobTyped
     DEF StoreCanceled, jobFrame, Status, Terminal, JobPc
<1>11. CASE StoreFailed(s)
  BY <1>11, StoreTyped, GoJobTyped
     DEF StoreFailed, jobFrame, Status, Terminal, JobPc
<1>12. CASE StopHeartbeat(s)
  BY <1>12, GoJobTyped, SetJobTyped
     DEF StopHeartbeat, jobFrame, JobPc, Free, At, TaskOrNone, HbPc
<1>13. CASE CheckOwner(s)
  BY <1>13, GoJobTyped
     DEF CheckOwner, jobFrame, JobPc
<1>14. CASE DeleteLease(s)
  BY <1>14, GoJobTyped
     DEF DeleteLease, jobFrame, JobPc
<1>15. CASE Unindex(s)
  BY <1>15, SetJobTyped, BlameTyped
     DEF Unindex, jobFrame, Free, JobPc, At, TaskOrNone, Mishaps, HbPc
<1>16. CASE PipelineRaises(s)
  BY <1>16, GoJobTyped
     DEF PipelineRaises, jobFrame, JobPc
<1>17. CASE PipelineRaisesRuntimeError(s)
  BY <1>17, GoJobTyped
     DEF PipelineRaisesRuntimeError, jobFrame, JobPc
<1>18. CASE JobRaises(s)
  BY <1>18, GoJobTyped, SetJobTyped, SpendErrorTyped
     DEF JobRaises, JobPc, Free, At, TaskOrNone, HbPc
<1> QED
  BY <1>1, <1>2, <1>3, <1>4, <1>5, <1>6, <1>7, <1>8, <1>9, <1>10, <1>11, <1>12, <1>13, <1>14, <1>15, <1>16, <1>17, <1>18

\* A heartbeat.
LEMMA BeatTyped ==
  ASSUME Typed, NEW s \in Slots,
         Wake(s) \/ Renew(s) \/ StoreBeat(s) \/ ExtendIndex(s) \/ BeatRaises(s)
  PROVE  Typed'
<1> USE DEF Typed, TypeOK, HandsOK, redisVars, workerVars
<1>1. CASE Wake(s)
  BY <1>1
     DEF Wake, hbFrame, HbPc
<1>2. CASE Renew(s)
  BY <1>2
     DEF Renew, hbFrame, HbPc
<1>3. CASE StoreBeat(s)
  BY <1>3, StoreTyped
     DEF StoreBeat, hbFrame, Status, Terminal, HbPc
<1>4. CASE ExtendIndex(s)
  BY <1>4
     DEF ExtendIndex, hbFrame, HbPc
<1>5. CASE BeatRaises(s)
  BY <1>5, BlameTyped, SpendLapseTyped
     DEF BeatRaises, hbFrame, Mishaps, HbPc
<1> QED
  BY <1>1, <1>2, <1>3, <1>4, <1>5

\* The reclaim loop.
LEMMA ReclaimTyped ==
  ASSUME Typed, NEW w \in Workers,
         Scan(w) \/ NextExpired(w) \/ ExtendOwned(w) \/ LoadExpired(w) \/ CheckCancel(w) \/ StoreReclaimCanceled(w) \/ DropExpired(w) \/ StoreQueued(w) \/ Unlist(w) \/ Requeue(w) \/ ReclaimRaises(w)
  PROVE  Typed'
<1> USE DEF Typed, TypeOK, HandsOK, redisVars, workerVars
<1>1. CASE Scan(w)
  BY <1>1, SetRecTyped
     DEF Scan, recFrame, RecPc, Handling, TaskOrNone
<1>2. CASE NextExpired(w)
  <2>1. CASE rec' = [rec EXCEPT ![w] = RecWait]
    BY <1>2, <2>1, SetRecTyped DEF NextExpired, recFrame, RecWait, RecPc, Handling, TaskOrNone
  <2>2. ASSUME NEW t \in rec[w].todo, NEW pc \in {"extend", "load"},
               rec' = [rec EXCEPT ![w] = [pc |-> pc, task |-> t, todo |-> rec[w].todo \ {t}]]
        PROVE  Typed'
    <3>1. [pc |-> pc, task |-> t, todo |-> rec[w].todo \ {t}]
             \in [pc : RecPc, task : TaskOrNone, todo : SUBSET Tasks]
      BY DEF RecPc, TaskOrNone
    <3>2. t \in Tasks
      OBVIOUS
    <3>3. /\ rec' \in [Workers -> [pc : RecPc, task : TaskOrNone, todo : SUBSET Tasks]]
          /\ \A v \in Workers : rec'[v].pc \in Handling => rec'[v].task \in Tasks
      BY <2>2, <3>1, <3>2, SetRecTyped
    <3> QED
      BY <1>2, <3>3 DEF NextExpired, recFrame
  <2> QED
    BY <1>2, <2>1, <2>2 DEF NextExpired
<1>3. CASE ExtendOwned(w)
  BY <1>3, GoRecTyped
     DEF ExtendOwned, recFrame, RecPc, Handling
<1>4. CASE LoadExpired(w)
  BY <1>4, GoRecTyped
     DEF LoadExpired, recFrame, RecPc, Handling
<1>5. CASE CheckCancel(w)
  BY <1>5, GoRecTyped
     DEF CheckCancel, recFrame, RecPc, Handling
<1>6. CASE StoreReclaimCanceled(w)
  BY <1>6, StoreTyped, GoRecTyped
     DEF StoreReclaimCanceled, recFrame, Status, Terminal, RecPc, Handling
<1>7. CASE DropExpired(w)
  BY <1>7, GoRecTyped
     DEF DropExpired, recFrame, RecPc, Handling
<1>8. CASE StoreQueued(w)
  BY <1>8, StoreTyped, GoRecTyped, SpendRequeueTyped
     DEF StoreQueued, recFrame, Status, Terminal, RecPc, Handling
<1>9. CASE Unlist(w)
  BY <1>9, GoRecTyped
     DEF Unlist, recFrame, RecPc, Handling
<1>10. CASE Requeue(w)
  BY <1>10, GoRecTyped
     DEF Requeue, recFrame, RecPc, Handling
<1>11. CASE ReclaimRaises(w)
  BY <1>11, SetRecTyped, BlameTyped, SpendErrorTyped
     DEF ReclaimRaises, RecWait, RecPc, Handling, TaskOrNone, Mishaps
<1> QED
  BY <1>1, <1>2, <1>3, <1>4, <1>5, <1>6, <1>7, <1>8, <1>9, <1>10, <1>11

\* Every step of the system.
LEMMA StepTyped == Typed /\ [Next]_vars => Typed'
<1> SUFFICES ASSUME Typed, [Next]_vars PROVE Typed'
  OBVIOUS
<1>1. CASE UNCHANGED vars
  BY <1>1 DEF vars, redisVars, workerVars, Typed, TypeOK, HandsOK
<1>2. CASE Next
  BY <1>2, BackendTyped, LoopTyped, JobTyped, BeatTyped, ReclaimTyped
     DEF Next, LoopStep, ReclaimStep, JobStep, BeatStep
<1> QED
  BY <1>1, <1>2

\* The types of all variables hold for ever, whatever the numbers of tasks,
\* workers, crashes, errors and requeues: in particular only tasks are queued.
THEOREM TypeCorrect == Spec => []TypeOK
<1>1. Spec => []Typed
  BY InitTyped, StepTyped, PTL DEF Spec
<1>2. Typed => TypeOK
  BY DEF Typed
<1> QED
  BY <1>1, <1>2, PTL

----------------------------------------------------------------------------
(* Who has a task in hand                                                  *)

----------------------------------------------------------------------------
(* The invariant                                                           *)

\* The places of a task, those of a loop named for its step.  A reclaim loop has
\* taken a task on from the moment it has found it running without an owner; before
\* that, and when it only drops it, it is seeking.
Early    == {"creating", "queue", "popped", "loaded", "vacant"}
Takings  == {"verify", "cancel", "requeue", "unlist", "push"}
Seekings == {"extend", "load", "drop"}
Places   == Early \union {"leased", "stored", "job", "nobody"} \union Takings

Sought(t) == \E w \in Workers : \/ t \in rec[w].todo
                                \/ rec[w].pc \in Seekings /\ rec[w].task = t

Queued(t) == \E n \in 1 .. Len(queue) : queue[n] = t
Once(t)   == \A m, n \in 1 .. Len(queue) : queue[m] = t /\ queue[n] = t => m = n

\* One process is alive, and only a process that is alive has coroutines.
Processes ==
    /\ IsFiniteSet(live)
    /\ \A v, w \in live : v = w
    /\ \A w \in Workers \ live : loop[w].pc = "off" /\ rec[w].pc = "off"
    /\ \A w \in Workers : /\ rec[w].pc \in {"off", "wait"} => rec[w].todo = {}
                          /\ loop[w].pc = "draining" => rec[w].pc = "off"
    /\ \A s \in Slots : /\ job[s].pc # "free" => s[1] \in live
                        /\ job[s].pc = "free" => hb[s] = "off"

InBackend(p, t) ==
    /\ t \in creating => p = "creating"
    /\ Queued(t) => p = "queue"
    /\ Once(t)

InClaim(p, t) ==
    \A w \in Workers :
        loop[w].pc \in ClaimPcs /\ loop[w].task = t =>
            /\ p = loop[w].pc
            /\ loop[w].pc \in {"leased", "stored"} => lease[t] = w

InRec(p, t) ==
    \A w \in Workers :
        rec[w].task = t =>
            /\ rec[w].pc \in Takings => p = rec[w].pc
            /\ rec[w].pc \in Seekings => t \notin rec[w].todo
            /\ rec[w].pc = "load" => lease[t] = NoWorker
            /\ rec[w].pc = "drop" => meta[t] # "running"

\* A heartbeat that goes on keeps the lease and the index entry; one that has ended
\* has seen an outcome.
Unended == {"start", "abort", "input", "draft", "stream", "chunks", "commit", "canceling"}
Job(s, t) ==
    /\ job[s].pc \in Unended => meta[t] = "running"
    /\ job[s].pc \in {"result", "report", "failing"} => meta[t] \in {"running", "succeeded"}
    /\ job[s].pc \in {"abort", "canceling"} => t \in cancelKey
    /\ hb[s] # "dead"
    /\ job[s].pc \in {"start", "abort"} => hb[s] = "off"
    /\ job[s].pc \in {"release", "unlease", "unindex"} => hb[s] \in {"off", "ended"}
    /\ hb[s] = "ended" => meta[t] \in Terminal /\ lease[t] \in {NoWorker, s[1]}
    /\ hb[s] # "ended" => /\ index[t] = "fresh" /\ ~ Sought(t)
                          /\ job[s].pc # "unindex" => lease[t] = s[1]
    /\ job[s].pc = "unindex" => lease[t] = NoWorker

InJob(p, t) ==
    \A s \in Slots :
        job[s].pc # "free" /\ job[s].task = t =>
            /\ p = "job"
            /\ \A r \in Slots : job[r].pc # "free" /\ job[r].task = t => r = s
            /\ Job(s, t)

\* What Redis holds of a task that is at p.
Holds(p, t) ==
    /\ p \in Early => meta[t] = "queued" /\ index[t] = "absent" /\ lease[t] = NoWorker
    /\ p = "leased" => meta[t] = "queued" /\ index[t] = "absent"
    /\ p = "stored" => meta[t] = "running" /\ index[t] = "absent"
    /\ p \in Takings => lease[t] = NoWorker
    /\ p \in {"verify", "cancel", "requeue"} => meta[t] = "running" /\ index[t] # "absent"
    /\ p = "cancel" => t \in cancelKey
    /\ p \in {"unlist", "push"} => meta[t] = "queued"
    /\ p = "push" => index[t] = "absent"
    /\ p = "job" => meta[t] \in {"running"} \union Terminal
    /\ p \notin {"job", "nobody"} => ~ Sought(t)
    /\ p = "nobody" /\ meta[t] \in {"queued", "running"} /\ mishap[t] = "none" =>
          meta[t] = "running" /\ index[t] # "absent"
    /\ meta[t] = "none" => /\ p = "nobody" /\ index[t] = "absent"
                           /\ lease[t] = NoWorker /\ ~ Sought(t)
    /\ Sought(t) /\ meta[t] = "running" => index[t] # "absent"

\* ... and somebody there has it.
InHand(p, t) ==
    /\ p = "creating" => t \in creating
    /\ p = "queue" => Queued(t)
    /\ p \in ClaimPcs => \E w \in Workers : InLoop(w, t)
    /\ p \in Takings => \E w \in Workers : rec[w].task = t /\ rec[w].pc \in Takings
    /\ p = "job" => \E s \in Slots : job[s].pc # "free" /\ job[s].task = t

Located(p, t) ==
    /\ InBackend(p, t) /\ InClaim(p, t) /\ InRec(p, t) /\ InJob(p, t)
    /\ Holds(p, t) /\ InHand(p, t)

Sound == /\ Typed
         /\ Processes
         /\ \A t \in Tasks : Undisturbed(t) => \E p \in Places : Located(p, t)

----------------------------------------------------------------------------
(* A step that leaves a task alone                                         *)

SameHands(t) ==
    /\ t \in creating' <=> t \in creating
    /\ Queued(t)' <=> Queued(t)
    /\ Once(t)'
    /\ \A w \in Workers : loop'[w] = loop[w] \/ (~ InLoop(w, t) /\ ~ InLoop(w, t)')
    /\ \A w \in Workers :
         \/ rec'[w] = rec[w]
         \/ /\ rec[w].pc \in Takings => rec[w].task # t
            /\ rec'[w].pc \in Takings \union Seekings => rec'[w].task # t
            /\ t \in rec'[w].todo => t \in rec[w].todo
    /\ \A s \in Slots : \/ job'[s] = job[s] /\ hb'[s] = hb[s]
                        \/ /\ job[s].pc = "free" \/ job[s].task # t
                           /\ job'[s].pc = "free" \/ job'[s].task # t

SameKeys(t) ==
    /\ meta'[t] = meta[t] /\ index'[t] = index[t] /\ lease'[t] = lease[t]
    /\ t \in cancelKey => t \in cancelKey'
    /\ mishap'[t] = "none" => mishap[t] = "none"

LEMMA SoughtBefore ==
  ASSUME NEW t \in Tasks, SameHands(t), Sought(t)'
  PROVE  Sought(t)
  BY DEF SameHands, Sought

LEMMA Apart ==
  ASSUME NEW t \in Tasks, NEW p \in Places, Located(p, t), SameHands(t), SameKeys(t)
  PROVE  Located(p, t)'
<1>1. Sought(t)' => Sought(t)
  BY SoughtBefore
<1>2. InBackend(p, t)'
  BY DEF Located, InBackend, SameHands
<1>3. InClaim(p, t)'
  BY DEF Located, InClaim, InLoop, SameHands, SameKeys
<1>4. InRec(p, t)'
  BY DEF Located, InRec, SameHands, SameKeys, Seekings
<1>5. InJob(p, t)'
  BY <1>1 DEF Located, InJob, Job, SameHands, SameKeys
<1>6. Holds(p, t)'
  BY <1>1 DEF Located, Holds, SameKeys
<1>7. InHand(p, t)'
  BY DEF Located, InHand, InLoop, SameHands
<1> QED
  BY <1>2, <1>3, <1>4, <1>5, <1>6, <1>7 DEF Located

----------------------------------------------------------------------------
(* The queue                                                               *)

LEMMA Pushed ==
  ASSUME queue \in Seq(Tasks), NEW t \in Tasks, queue' = Append(queue, t), NEW u \in Tasks
  PROVE  /\ Queued(u)' <=> Queued(u) \/ u = t
         /\ Once(u) /\ (u # t \/ ~ Queued(u)) => Once(u)'
<1>1. /\ Len(queue') = Len(queue) + 1 /\ Len(queue) \in Nat
      /\ \A n \in 1 .. Len(queue') : queue'[n] = IF n \in 1 .. Len(queue) THEN queue[n] ELSE t
  OBVIOUS
<1> QED
  BY <1>1 DEF Queued, Once

LEMMA Taken ==
  ASSUME queue \in Seq(Tasks), queue # <<>>, queue' = Tail(queue), NEW u \in Tasks
  PROVE  /\ Queued(Head(queue))
         /\ u # Head(queue) => (Queued(u)' <=> Queued(u))
         /\ Once(u) => Once(u)'
         /\ Once(Head(queue)) /\ Queued(u)' => u # Head(queue)
<1>1. /\ Len(queue') = Len(queue) - 1 /\ Len(queue) \in Nat /\ Len(queue) >= 1
      /\ \A n \in 1 .. Len(queue') : queue'[n] = queue[n + 1]
      /\ Head(queue) = queue[1]
  OBVIOUS
<1> QED
  BY <1>1 DEF Queued, Once

LEMMA SameQueue ==
  ASSUME queue' = queue, NEW u \in Tasks, Once(u)
  PROVE  (Queued(u)' <=> Queued(u)) /\ Once(u)'
  BY DEF Queued, Once

----------------------------------------------------------------------------
(* Where a task is after a step                                            *)

\* Who has a task: at most one place has it.
LEMMA OnePlace ==
  ASSUME NEW t \in Tasks, NEW p \in Places, Located(p, t)
  PROVE  /\ t \in creating => p = "creating"
         /\ Queued(t) => p = "queue"
         /\ Once(t)
         /\ \A w \in Workers : InLoop(w, t) => p = loop[w].pc
         /\ \A w \in Workers : rec[w].task = t /\ rec[w].pc \in Takings => p = rec[w].pc
         /\ \A s \in Slots : job[s].pc # "free" /\ job[s].task = t => p = "job" /\ Job(s, t)
         /\ Holds(p, t)
  BY DEF Located, InBackend, InClaim, InLoop, InRec, InJob

LEMMA BackendLocated ==
  ASSUME Sound, Typed', NEW t \in Tasks,
         Submit(t) \/ Enqueue(t) \/ SubmitFails(t) \/ Cancel(t) \/ LeaseExpires(t)
           \/ OwnerStalls(t) \/ DeadlinePasses(t),
         NEW u \in Tasks, Undisturbed(u), Undisturbed(u)', NEW p \in Places, Located(p, u)
  PROVE  \E q \in Places : Located(q, u)'
<1> USE DEF redisVars, workerVars
<1>0. Once(u) /\ (queue' = queue => (Queued(u)' <=> Queued(u)) /\ Once(u)')
  BY OnePlace, SameQueue
<1>1. ASSUME u # t
      PROVE  Located(p, u)'
  <2>1. SameHands(u)
    BY <1>0, <1>1, Pushed DEF Sound, Typed, TypeOK, SameHands, Submit, Enqueue, SubmitFails, Cancel,
       LeaseExpires, OwnerStalls, DeadlinePasses
  <2>2. SameKeys(u)
    BY <1>1 DEF Sound, Typed, TypeOK, SameKeys, Submit, Enqueue, SubmitFails, Cancel,
       LeaseExpires, OwnerStalls, DeadlinePasses, Store, Blame
  <2> QED
    BY <2>1, <2>2, Apart
<1> DEFINE Here == /\ InClaim(p, u) /\ InRec(p, u) /\ InJob(p, u) /\ Holds(p, u) /\ InHand(p, u)
<1> USE DEF Places, Early, Takings, Seekings
<1>H. Here
  BY DEF Located
<1>2. ASSUME u = t, Submit(t)
      PROVE  Located("creating", u)'
  <2>1. meta[u] = "none" /\ p = "nobody" /\ meta'[u] = "queued"
    BY <1>2, <1>H DEF Submit, Store, Holds, Sound, Typed, TypeOK
  <2>2. InBackend("creating", u)'
    BY <1>0, <1>2, <2>1, OnePlace DEF InBackend, Submit
  <2>3. InClaim("creating", u)'
    BY <1>2, <1>H, <2>1 DEF InClaim, Submit, ClaimPcs
  <2>4. InRec("creating", u)'
    BY <1>2, <1>H, <2>1 DEF InRec, Submit
  <2>5. InJob("creating", u)'
    BY <1>2, <1>H, <2>1 DEF InJob, Submit
  <2>6. Holds("creating", u)'
    BY <1>2, <1>H, <2>1 DEF Holds, Submit, Sought
  <2>7. InHand("creating", u)'
    BY <1>0, <2>2, Pushed, <1>2 DEF InHand, ClaimPcs, Submit, Sound, Typed, TypeOK
  <2> QED
    BY <2>2, <2>3, <2>4, <2>5, <2>6, <2>7 DEF Located
<1>3. ASSUME u = t, Enqueue(t)
      PROVE  Located("queue", u)'
  <2>1. p = "creating"
    BY <1>3, OnePlace DEF Enqueue
  <2>2. InBackend("queue", u)'
    BY <1>3, <2>1, OnePlace, Pushed DEF InBackend, Enqueue, Sound, Typed, TypeOK
  <2>3. InClaim("queue", u)'
    BY <1>3, <1>H, <2>1 DEF InClaim, Enqueue, ClaimPcs
  <2>4. InRec("queue", u)'
    BY <1>3, <1>H, <2>1 DEF InRec, Enqueue
  <2>5. InJob("queue", u)'
    BY <1>3, <1>H, <2>1 DEF InJob, Enqueue
  <2>6. Holds("queue", u)'
    BY <1>3, <1>H, <2>1 DEF Holds, Enqueue, Sought
  <2>7. InHand("queue", u)'
    BY <1>0, <2>2, Pushed, <1>3 DEF InHand, ClaimPcs, Enqueue, Sound, Typed, TypeOK
  <2> QED
    BY <2>2, <2>3, <2>4, <2>5, <2>6, <2>7 DEF Located
<1>4. ASSUME u = t, SubmitFails(t)
      PROVE  Located("nobody", u)'
  <2>1. p = "creating" /\ mishap'[u] # "none"
    BY <1>4, OnePlace DEF SubmitFails, Blame
  <2>2. InBackend("nobody", u)'
    BY <1>0, <1>4, <2>1, OnePlace DEF InBackend, SubmitFails
  <2>3. InClaim("nobody", u)'
    BY <1>4, <1>H, <2>1 DEF InClaim, SubmitFails, ClaimPcs
  <2>4. InRec("nobody", u)'
    BY <1>4, <1>H, <2>1 DEF InRec, SubmitFails
  <2>5. InJob("nobody", u)'
    BY <1>4, <1>H, <2>1 DEF InJob, SubmitFails
  <2>6. Holds("nobody", u)'
    BY <1>4, <1>H, <2>1 DEF Holds, SubmitFails, Sought
  <2>7. InHand("nobody", u)'
    BY <1>0, <2>2, Pushed, <1>4 DEF InHand, ClaimPcs, SubmitFails, Sound, Typed, TypeOK
  <2> QED
    BY <2>2, <2>3, <2>4, <2>5, <2>6, <2>7 DEF Located
<1>5. ASSUME Cancel(t)
      PROVE  Located(p, u)'
  BY <1>0, <1>5, Apart DEF SameHands, SameKeys, Cancel
<1>6. ASSUME u = t, LeaseExpires(t)
      PROVE  Located(p, u)'
  <2>0. /\ lease'[u] = NoWorker
        /\ UNCHANGED <<meta, queue, index, cancelKey, creating, loop, rec, job, mishap>>
    BY <1>6 DEF LeaseExpires, Sound, Typed, TypeOK
  <2>a. InBackend(p, u)'
    BY <1>0, <2>0, OnePlace DEF InBackend
  <2>b. InRec(p, u)'
    BY <1>H, <2>0 DEF InRec
  <2>c. Holds(p, u)'
    BY <1>H, <2>0 DEF Holds, Sought
  <2>d. InHand(p, u)'
    BY <1>0, <1>H, <2>0 DEF InHand, InLoop
  <2>2. InClaim(p, u)'
    <3>1. ASSUME NEW w \in Workers, loop[w].pc \in {"leased", "stored"}, loop[w].task = u
          PROVE  Kept(u)
      BY <1>H, <3>1 DEF InClaim, ClaimPcs, Kept, Beats, Sound, Processes
    <3> QED
      BY <1>6, <1>H, <3>1 DEF InClaim, LeaseExpires
  <2>3. InJob(p, u)'
    <3>1. ASSUME NEW s \in Slots, job[s].pc # "free", job[s].task = u
          PROVE  Job(s, u)'
      <4>1. s[1] \in live /\ s \in SlotsOf(s[1])
        BY <3>1 DEF Sound, Processes, SlotsOf
      <4>2. hb[s] # "ended" /\ job[s].pc # "unindex" => Kept(u)
        BY <1>H, <3>1, <4>1 DEF InJob, Job, Kept, Beats
      <4> QED
        BY <1>6, <1>H, <3>1, <4>2 DEF InJob, Job, Sought, LeaseExpires, Sound, Typed, TypeOK
    <3> QED
      BY <1>6, <1>H, <3>1 DEF InJob, LeaseExpires
  <2> QED
    BY <2>a, <2>b, <2>c, <2>d, <2>2, <2>3 DEF Located
<1>7. ASSUME u = t, OwnerStalls(t)
      PROVE  FALSE
  BY <1>7 DEF OwnerStalls, Blame, Undisturbed
<1>8. ASSUME u = t, DeadlinePasses(t)
      PROVE  Located(p, u)'
  <2>0. /\ index[u] = "fresh" /\ index'[u] = "due"
        /\ UNCHANGED <<meta, queue, lease, cancelKey, creating, loop, rec, job, mishap>>
    BY <1>8 DEF DeadlinePasses, Sound, Typed, TypeOK
  <2>a. InBackend(p, u)'
    BY <1>0, <2>0, OnePlace DEF InBackend
  <2>b. InClaim(p, u)' /\ InRec(p, u)'
    BY <1>H, <2>0 DEF InClaim, InRec
  <2>c. Holds(p, u)'
    BY <1>H, <2>0 DEF Holds, Sought
  <2>d. InHand(p, u)'
    BY <1>0, <1>H, <2>0 DEF InHand, InLoop
  <2>2. ASSUME NEW s \in Slots, job[s].pc # "free", job[s].task = u
        PROVE  Job(s, u)'
    <3>1. s[1] \in live /\ s \in SlotsOf(s[1])
      BY <2>2 DEF Sound, Processes, SlotsOf
    <3>2. hb[s] = "ended"
      BY <1>8, <1>H, <2>2, <3>1 DEF InJob, Job, DeadlinePasses, Beats
    <3> QED
      BY <1>8, <1>H, <2>2, <3>2 DEF InJob, Job, DeadlinePasses
  <2>3. InJob(p, u)'
    BY <1>8, <1>H, <2>2 DEF InJob, DeadlinePasses
  <2> QED
    BY <2>a, <2>b, <2>c, <2>d, <2>3 DEF Located
<1> QED
  BY <1>1, <1>2, <1>3, <1>4, <1>5, <1>6, <1>7, <1>8

\* A task that nobody has any more, its keys as they were.
LEMMA LeftToNobody ==
  ASSUME NEW u \in Tasks, NEW p \in Places, Located(p, u),
         u \notin creating', ~ Queued(u)', Once(u)',
         \A v \in Workers : ~ InLoop(v, u)',
         \A v \in Workers :
            \/ rec'[v] = rec[v] /\ ~ (rec[v].pc \in Takings /\ rec[v].task = u)
            \/ rec'[v] \in {RecOff, RecWait},
         \A s \in Slots : job'[s].pc = "free" \/ job'[s].task # u,
         meta'[u] = meta[u], lease'[u] = lease[u],
         \/ index'[u] = index[u]
         \/ index'[u] = "absent" /\ (~ Sought(u) \/ meta[u] # "running"),
         mishap'[u] = "none" /\ meta[u] \in {"queued", "running"} =>
            meta[u] = "running" /\ index'[u] # "absent"
  PROVE  Located("nobody", u)'
<1> USE DEF Places, Early, Takings, Seekings, RecOff, RecWait
<1>1. Sought(u)' => Sought(u)
  BY DEF Sought
<1>2. InBackend("nobody", u)'
  BY DEF InBackend
<1>3. InClaim("nobody", u)'
  BY DEF InClaim, InLoop
<1>4. InRec("nobody", u)'
  <2>1. InRec(p, u)
    BY DEF Located
  <2> QED
    BY <2>1 DEF InRec
<1>5. InJob("nobody", u)'
  BY DEF InJob
<1>6. Holds("nobody", u)'
  BY <1>1 DEF Located, Holds
<1>7. InHand("nobody", u)'
  BY DEF InHand, ClaimPcs
<1> QED
  BY <1>2, <1>3, <1>4, <1>5, <1>6, <1>7 DEF Located

\* The claim loop goes on with its task.
LEMMA LoopMoves ==
  ASSUME Sound, NEW u \in Tasks, NEW p \in Places, Located(p, u),
         NEW w \in Workers, InLoop(w, u), NEW q \in ClaimPcs, GoLoop(w, q),
         UNCHANGED <<queue, creating, job, hb, rec, cancelKey>>,
         q \in {"leased", "stored"} => lease'[u] = w,
         Holds(q, u)'
  PROVE  Located(q, u)'
<1> USE DEF Places, Early, Takings, Seekings, ClaimPcs
<1>1. /\ p = loop[w].pc /\ u \notin creating /\ ~ Queued(u) /\ Once(u) /\ ~ Sought(u)
      /\ \A s \in Slots : job[s].pc = "free" \/ job[s].task # u
      /\ \A v \in Workers : ~ (rec[v].pc \in Takings /\ rec[v].task = u)
  BY OnePlace DEF InLoop, Holds
<1>2. loop'[w].pc = q /\ loop'[w].task = u
  BY DEF GoLoop, InLoop, Sound, Typed, TypeOK
<1>3. ASSUME NEW v \in Workers, InLoop(v, u)'
      PROVE  v = w
  BY <1>3 DEF GoLoop, InLoop, Sound, Processes, Typed, TypeOK
<1>4. InBackend(q, u)'
  BY <1>1, SameQueue DEF InBackend
<1>5. InClaim(q, u)'
  BY <1>2, <1>3 DEF InClaim, InLoop
<1>6. InRec(q, u)'
  BY <1>1 DEF InRec, Sought
<1>7. InJob(q, u)'
  BY <1>1 DEF InJob
<1>8. InHand(q, u)'
  BY <1>2 DEF InHand, InLoop
<1> QED
  BY <1>4, <1>5, <1>6, <1>7, <1>8 DEF Located

LEMMA ClaimLocated ==
  ASSUME Sound, Typed', NEW w \in Workers,
         Pop(w) \/ LoadClaimed(w) \/ CheckLease(w) \/ TakeLease(w) \/ StoreRunning(w),
         NEW u \in Tasks, Undisturbed(u), NEW p \in Places, Located(p, u)
  PROVE  \E q \in Places : Located(q, u)'
<1> USE DEF Places, Early, Takings, Seekings, ClaimPcs, loopFrame, redisVars
<1> DEFINE Mine == loop[w].pc \in ClaimPcs /\ loop[w].task = u
<1>1. CASE Pop(w) /\ u # Head(queue)
  <2>1. SameHands(u)
    BY <1>1, OnePlace, Taken
       DEF Pop, SameHands, InLoop, At, Sound, Typed, TypeOK
  <2> QED
    BY <1>1, <2>1, Apart DEF Pop, SameKeys
<1>2. CASE Pop(w) /\ u = Head(queue)
  <2>1. /\ p = "queue" /\ ~ Queued(u)' /\ Once(u)' /\ u \notin creating' /\ ~ Sought(u)
    BY <1>2, OnePlace, Taken DEF Pop, Holds, Sound, Typed, TypeOK
  <2>2. loop'[w] = At("popped", u) /\ \A v \in Workers : v # w => loop'[v] = loop[v]
    BY <1>2 DEF Pop, Sound, Typed, TypeOK
  <2>3. InBackend("popped", u)'
    BY <2>1 DEF InBackend
  <2>4. InClaim("popped", u)'
    BY <2>1, <2>2, OnePlace DEF InClaim, InLoop, At
  <2>5. InRec("popped", u)'
    BY <1>2, <2>1, OnePlace DEF InRec, Sought, Pop
  <2>6. InJob("popped", u)'
    BY <1>2, <2>1, OnePlace DEF InJob, Pop
  <2>7. Holds("popped", u)'
    <3>1. Holds(p, u) /\ UNCHANGED <<meta, index, lease, cancelKey, rec, mishap>>
      BY <1>2, OnePlace DEF Pop
    <3> QED
      BY <2>1, <3>1 DEF Holds, Sought
  <2>8. InHand("popped", u)'
    BY <2>2 DEF InHand, InLoop, At
  <2> QED
    BY <2>3, <2>4, <2>5, <2>6, <2>7, <2>8 DEF Located
<1>3. CASE ~ Pop(w) /\ ~ Mine
  <2>1. SameHands(u)
    <3>1. /\ UNCHANGED <<queue, creating, rec, job, hb>>
          /\ \A v \in Workers : v # w => loop'[v] = loop[v]
      BY <1>3 DEF LoadClaimed, CheckLease, TakeLease, StoreRunning, Discard, GoLoop, Sound, Typed, TypeOK
    <3>2. loop[w].pc \in ClaimPcs
      BY <1>3 DEF LoadClaimed, CheckLease, TakeLease, StoreRunning
    <3>3. loop'[w].pc = "idle" \/ loop'[w].task = loop[w].task
      BY <1>3 DEF LoadClaimed, CheckLease, TakeLease, StoreRunning, Discard, LoopIdle, GoLoop, At,
           Sound, Typed, TypeOK
    <3>4. ~ InLoop(w, u) /\ ~ InLoop(w, u)'
      BY <1>3, <3>2, <3>3 DEF InLoop
    <3> QED
      BY <3>1, <3>4, OnePlace, SameQueue DEF SameHands
  <2>2. SameKeys(u)
    BY <1>3
       DEF LoadClaimed, CheckLease, TakeLease, StoreRunning, Store, SameKeys, Sound, Typed, TypeOK
  <2> QED
    BY <2>1, <2>2, Apart
<1>4. CASE ~ Pop(w) /\ Mine
  <2>1. p = loop[w].pc /\ Holds(p, u) /\ InLoop(w, u)
    BY <1>4, OnePlace DEF InLoop
  <2>2. CASE LoadClaimed(w)
    <3>1. GoLoop(w, "loaded") /\ Holds("loaded", u)'
      BY <1>4, <2>1, <2>2 DEF LoadClaimed, Holds, Terminal, Sought
    <3> QED
      BY <2>1, <2>2, <3>1, LoopMoves DEF LoadClaimed
  <2>3. CASE CheckLease(w)
    <3>1. GoLoop(w, "vacant") /\ Holds("vacant", u)'
      BY <1>4, <2>1, <2>3, NamesAssumption DEF CheckLease, Holds, Sought
    <3> QED
      BY <2>1, <2>3, <3>1, LoopMoves DEF CheckLease
  <2>4. CASE TakeLease(w)
    <3>1. GoLoop(w, "leased") /\ lease'[u] = w /\ Holds("leased", u)'
      BY <1>4, <2>1, <2>4 DEF TakeLease, Holds, Sought, Sound, Typed, TypeOK
    <3> QED
      BY <2>1, <2>4, <3>1, LoopMoves DEF TakeLease
  <2>5. CASE StoreRunning(w)
    <3>1. GoLoop(w, "stored") /\ lease'[u] = w /\ Holds("stored", u)'
      BY <1>4, <2>1, <2>5 DEF StoreRunning, Store, Holds, Sought, Located, InClaim,
         Sound, Typed, TypeOK
    <3> QED
      BY <2>1, <2>5, <3>1, LoopMoves DEF StoreRunning
  <2> QED
    BY <1>4, <2>2, <2>3, <2>4, <2>5
<1> QED
  BY <1>1, <1>2, <1>3, <1>4

\* A job is spawned for the task of the claim loop.
LEMMA SpawnLocated ==
  ASSUME Sound, Typed', NEW w \in Workers, Spawn(w),
         NEW u \in Tasks, Undisturbed(u), NEW p \in Places, Located(p, u)
  PROVE  \E q \in Places : Located(q, u)'
<1> USE DEF Places, Early, Takings, Seekings, ClaimPcs, loopFrame
<1>1. PICK s \in SlotsOf(w) :
        /\ job[s].pc = "free"
        /\ job' = [job EXCEPT ![s] = At("start", loop[w].task)]
  BY DEF Spawn
<1>2. s \in Slots /\ s[1] = w /\ hb[s] = "off"
  BY <1>1 DEF SlotsOf, Sound, Processes
<1>3. job'[s] = At("start", loop[w].task) /\ \A r \in Slots : r # s => job'[r] = job[r]
  BY <1>1, <1>2 DEF Sound, Typed, TypeOK
<1>4. loop'[w] = LoopIdle /\ \A v \in Workers : v # w => loop'[v] = loop[v]
  BY DEF Spawn, Sound, Typed, TypeOK
<1>5. CASE loop[w].task # u
  <2>1. SameHands(u)
    BY <1>1, <1>3, <1>4, <1>5, OnePlace, SameQueue DEF Spawn, SameHands, InLoop, LoopIdle, At
  <2>2. SameKeys(u)
    BY <1>5 DEF Spawn, SameKeys, Sound, Typed, TypeOK
  <2> QED
    BY <2>1, <2>2, Apart
<1>6. CASE loop[w].task = u
  <2>1. /\ p = "stored" /\ Holds(p, u) /\ ~ Sought(u) /\ lease[u] = w
        /\ u \notin creating /\ ~ Queued(u) /\ Once(u)
        /\ \A r \in Slots : job[r].pc = "free" \/ job[r].task # u
    BY <1>6, OnePlace DEF Spawn, InLoop, Holds, Located, InClaim
  <2>2. /\ job'[s].pc = "start" /\ job'[s].task = u
        /\ \A r \in Slots : job'[r].pc # "free" /\ job'[r].task = u => r = s
    BY <1>3, <1>6, <2>1 DEF At
  <2>3. ~ Sought(u)' /\ index'[u] = "fresh" /\ meta'[u] = "running" /\ lease'[u] = w
        /\ hb'[s] = "off"
    BY <1>2, <1>6, <2>1 DEF Spawn, Sought, Holds, Sound, Typed, TypeOK
  <2>4. \A v \in Workers : ~ InLoop(v, u)'
    <3>1. \A v \in Workers : InLoop(v, u) => v = w
      BY DEF InLoop, Spawn, Sound, Processes
    <3> QED
      BY <1>4, <3>1 DEF InLoop, LoopIdle, At
  <2>5. InBackend("job", u)'
    BY <2>1, SameQueue DEF InBackend, Spawn
  <2>6. InClaim("job", u)'
    BY <2>4 DEF InClaim, InLoop
  <2>7. InRec("job", u)'
    BY <2>1, OnePlace DEF InRec, Sought, Spawn
  <2>8. Job(s, u)'
    BY <1>2, <2>2, <2>3 DEF Job, Unended
  <2>9. InJob("job", u)'
    BY <2>2, <2>8 DEF InJob
  <2>10. Holds("job", u)'
    BY <2>3 DEF Holds
  <2>11. InHand("job", u)'
    BY <1>2, <2>2 DEF InHand
  <2> QED
    BY <2>5, <2>6, <2>7, <2>9, <2>10, <2>11 DEF Located
<1> QED
  BY <1>5, <1>6

\* What loses the loops of a process, or its jobs with them.
LEMMA ProcessLocated ==
  ASSUME Sound, Typed', NEW w \in Workers,
         MainRaises(w) \/ MainExits(w) \/ StartWorker(w) \/ Crash(w) \/ ReclaimRaises(w),
         NEW u \in Tasks, Undisturbed(u), Undisturbed(u)', NEW p \in Places, Located(p, u)
  PROVE  \E q \in Places : Located(q, u)'
<1> USE DEF Places, Early, Takings, Seekings, ClaimPcs, redisVars, workerVars
<1> DEFINE Rec == rec[w].pc \in Takings /\ rec[w].task = u
           Run == \E s \in SlotsOf(w) : job[s].pc # "free" /\ job[s].task = u
<1>1. Once(u) /\ (Queued(u)' <=> Queued(u)) /\ Once(u)'
  BY OnePlace, SameQueue DEF MainRaises, MainExits, StartWorker, Crash, ReclaimRaises
<1>2. UNCHANGED <<meta, index, lease, queue, cancelKey, creating>>
  BY DEF MainRaises, MainExits, StartWorker, Crash, ReclaimRaises
<1>3. CASE MainExits(w) \/ StartWorker(w)
  <2>1. SameHands(u)
    BY <1>1, <1>3, OnePlace
       DEF MainExits, StartWorker, SameHands, InLoop, LoopOff, LoopIdle, RecWait, At,
           Sound, Processes, Typed, TypeOK
  <2>2. SameKeys(u)
    BY <1>2, <1>3 DEF SameKeys, MainExits, StartWorker
  <2> QED
    BY <2>1, <2>2, Apart
<1>4. ASSUME w \in live
      PROVE  /\ \A v \in Workers : v # w => loop[v].pc = "off" /\ rec[v].pc = "off"
             /\ \A s \in Slots : s[1] = w \/ job[s].pc = "free"
  BY <1>4 DEF Sound, Processes
<1>5. CASE MainRaises(w)
  <2>1. w \in live
    BY <1>5 DEF MainRaises, Sound, Processes
  <2>2. /\ loop'[w].pc = "draining" /\ \A v \in Workers : v # w => loop'[v] = loop[v]
        /\ rec'[w] = RecOff /\ \A v \in Workers : v # w => rec'[v] = rec[v]
        /\ UNCHANGED <<job, hb>>
    BY <1>5 DEF MainRaises, At, Sound, Typed, TypeOK
  <2>3. CASE InLoop(w, u) \/ Rec
    <3>1. /\ u \notin creating' /\ ~ Queued(u)' /\ Holds(p, u)
          /\ \A s \in Slots : job[s].pc = "free" \/ job[s].task # u
      BY <1>1, <1>2, <2>3, OnePlace DEF InLoop
    <3>2. \A v \in Workers : ~ InLoop(v, u)'
      BY <1>4, <2>1, <2>2 DEF InLoop
    <3>3. mishap'[u] = "none" /\ meta[u] \in {"queued", "running"} =>
            meta[u] = "running" /\ index[u] # "absent"
      <4>1. /\ mishap'[u] = IF meta[u] \in Terminal \/ ~ Undisturbed(u) THEN mishap[u]
                              ELSE IF InLoop(w, u) THEN "popped"
                              ELSE IF InReclaim(w, u) THEN "reclaim"
                              ELSE mishap[u]
            /\ meta' = meta
        BY <1>2, <1>5 DEF MainRaises, LoseHandsOf
      <4>2. ASSUME mishap'[u] = "none", meta[u] \in {"queued", "running"}
            PROVE  rec[w].pc \in {"verify", "cancel", "requeue"} /\ p = rec[w].pc
        BY <2>3, <4>1, <4>2, OnePlace DEF InReclaim, Terminal
      <4> QED
        BY <3>1, <4>2 DEF Holds
    <3> QED
      BY <1>1, <1>2, <1>4, <2>1, <2>2, <3>1, <3>2, <3>3, LeftToNobody
  <2>4. CASE ~ InLoop(w, u) /\ ~ Rec
    <3>1. SameHands(u)
      BY <1>1, <1>2, <2>2, <2>4 DEF SameHands, InLoop, RecOff
    <3>2. SameKeys(u)
      BY <1>2, <1>5 DEF SameKeys, MainRaises, LoseHandsOf, Terminal
    <3> QED
      BY <3>1, <3>2, Apart
  <2> QED
    BY <2>3, <2>4
<1>6. CASE ReclaimRaises(w)
  <2>1. w \in live
    BY <1>6 DEF ReclaimRaises, Sound, Processes
  <2>2. /\ rec'[w] = RecWait /\ \A v \in Workers : v # w => rec'[v] = rec[v]
        /\ UNCHANGED <<loop, job, hb>>
    BY <1>6 DEF ReclaimRaises, Sound, Typed, TypeOK
  <2>3. CASE Rec
    <3>1. /\ u \notin creating' /\ ~ Queued(u)' /\ Holds(p, u)
          /\ \A s \in Slots : job[s].pc = "free" \/ job[s].task # u
          /\ \A v \in Workers : ~ InLoop(v, u)
      BY <1>1, <1>2, <2>3, OnePlace DEF InLoop
    <3>2. \A v \in Workers : ~ InLoop(v, u)'
      BY <2>2, <3>1 DEF InLoop
    <3>3. mishap'[u] = "none" /\ meta[u] \in {"queued", "running"} =>
            meta[u] = "running" /\ index[u] # "absent"
      BY <1>6, <2>3, <3>1, OnePlace
         DEF ReclaimRaises, Blame, TerminalTasks, InReclaim, Holds, Undisturbed, Terminal
    <3> QED
      BY <1>1, <1>2, <1>4, <2>1, <2>2, <3>1, <3>2, <3>3, LeftToNobody
  <2>4. CASE ~ Rec
    <3>1. SameHands(u)
      BY <1>1, <1>2, <2>2, <2>4 DEF SameHands, InLoop, RecWait
    <3>2. SameKeys(u)
      BY <1>2, <1>6 DEF SameKeys, ReclaimRaises, Blame
    <3> QED
      BY <3>1, <3>2, Apart
  <2> QED
    BY <2>3, <2>4
<1>7. CASE Crash(w)
  <2>1. w \in live
    BY <1>7 DEF Crash
  <2>2. /\ loop'[w] = LoopOff /\ \A v \in Workers : v # w => loop'[v] = loop[v]
        /\ rec'[w] = RecOff /\ \A v \in Workers : v # w => rec'[v] = rec[v]
        /\ \A s \in Slots : IF s[1] = w THEN job'[s] = Free
                            ELSE job'[s] = job[s] /\ hb'[s] = hb[s]
    BY <1>7 DEF Crash, Sound, Typed, TypeOK
  <2>3. CASE InLoop(w, u) \/ Rec \/ Run
    <3>1. u \notin creating' /\ ~ Queued(u)' /\ Holds(p, u)
      BY <1>1, <1>2, <2>3, OnePlace DEF InLoop, SlotsOf
    <3>2. /\ \A v \in Workers : ~ InLoop(v, u)'
          /\ \A s \in Slots : job'[s].pc = "free"
      BY <1>4, <2>1, <2>2 DEF InLoop, LoopOff, Free, At
    <3>3. mishap'[u] = "none" /\ meta[u] \in {"queued", "running"} =>
            meta[u] = "running" /\ index[u] # "absent"
      <4>1. CASE InLoop(w, u) \/ Rec
        BY <1>7, <4>1, <3>1, OnePlace
           DEF Crash, LoseHandsOf, InReclaim, InLoop, Holds, Undisturbed, Terminal
      <4>2. CASE Run
        <5>1. PICK s \in Slots : job[s].pc # "free" /\ job[s].task = u
          BY <4>2 DEF SlotsOf
        <5>2. Job(s, u) /\ p = "job"
          BY <5>1, OnePlace
        <5> QED
          BY <3>1, <5>2 DEF Job, Holds, Terminal
      <4> QED
        BY <2>3, <4>1, <4>2
    <3> QED
      BY <1>1, <1>2, <1>4, <2>1, <2>2, <3>1, <3>2, <3>3, LeftToNobody
  <2>4. CASE ~ InLoop(w, u) /\ ~ Rec /\ ~ Run
    <3>1. SameHands(u)
      BY <1>1, <1>2, <2>2, <2>4 DEF SameHands, InLoop, LoopOff, RecOff, Free, At, SlotsOf
    <3>2. SameKeys(u)
      BY <1>2, <1>7 DEF SameKeys, Crash, LoseHandsOf, Terminal
    <3> QED
      BY <3>1, <3>2, Apart
  <2> QED
    BY <2>3, <2>4
<1> QED
  BY <1>3, <1>5, <1>6, <1>7

\* A job goes on with its task.
LEMMA JobMoves ==
  ASSUME NEW u \in Tasks, NEW p \in Places, Located(p, u),
         NEW s \in Slots, job[s].pc # "free", job[s].task = u,
         job'[s].pc # "free", job'[s].task = u,
         \A r \in Slots : r # s => job'[r] = job[r] /\ hb'[r] = hb[r],
         UNCHANGED <<queue, creating, loop, rec>>,
         lease'[u] \in {lease[u], NoWorker},
         meta'[u] \in {"running"} \union Terminal,
         Job(s, u)'
  PROVE  Located("job", u)'
<1> USE DEF Places, Early, Takings, Seekings, ClaimPcs
<1>1. /\ p = "job" /\ u \notin creating /\ ~ Queued(u) /\ Once(u)
      /\ \A v \in Workers : ~ InLoop(v, u) /\ ~ (rec[v].pc \in Takings /\ rec[v].task = u)
  BY OnePlace DEF InLoop
<1>2. (Sought(u)' => Sought(u)) /\ (Sought(u)' => meta'[u] # "running")
  BY DEF Sought, Job, Terminal
<1>3. InBackend("job", u)'
  BY <1>1, SameQueue DEF InBackend
<1>4. InClaim("job", u)'
  BY <1>1 DEF InClaim, InLoop
<1>5. InRec("job", u)'
  <2>1. InRec(p, u)
    BY DEF Located
  <2>2. \A v \in Workers : rec[v].pc \in Seekings /\ rec[v].task = u => Sought(u)'
    BY DEF Sought
  <2> QED
    BY <1>1, <1>2, <2>1, <2>2 DEF InRec
<1>6. InJob("job", u)'
  <2>1. \A r \in Slots : job'[r].pc # "free" /\ job'[r].task = u => r = s
    BY <1>1 DEF Located, InJob
  <2> QED
    BY <2>1 DEF InJob
<1>7. Holds("job", u)'
  BY <1>1, <1>2 DEF Holds, Terminal
<1>8. InHand("job", u)'
  BY DEF InHand
<1> QED
  BY <1>3, <1>4, <1>5, <1>6, <1>7, <1>8 DEF Located

LEMMA GoesOn ==
  ASSUME Typed, NEW s \in Slots, NEW pc, GoJob(s, pc)
  PROVE  /\ job'[s].pc = pc /\ job'[s].task = job[s].task
         /\ \A r \in Slots : r # s => job'[r] = job[r]
  BY DEF GoJob, Typed, TypeOK

\* What a step of a job leaves alone.
LEMMA JobKeeps ==
  ASSUME Typed, NEW s \in Slots,
         JobStep(s) \/ JobRaises(s) \/ PipelineRaises(s) \/ PipelineRaisesRuntimeError(s)
  PROVE  /\ job[s].pc # "free"
         /\ \A r \in Slots : r # s => job'[r] = job[r] /\ hb'[r] = hb[r]
         /\ job'[s] = Free \/ (job'[s].task = job[s].task /\ job'[s].pc # "free")
         /\ UNCHANGED <<queue, cancelKey, creating, loop, rec, live>>
<1> USE DEF jobFrame, redisVars
<1>1. job[s].pc # "free" /\ UNCHANGED <<queue, cancelKey, creating, loop, rec, live>>
  BY DEF JobStep, Start, StoreAborted, CheckInput, Draft, Stream, SendChunks, StoreSucceeded,
       StoreResult, Report, StoreCanceled, StoreFailed, StopHeartbeat, CheckOwner, DeleteLease,
       Unindex, JobRaises, PipelineRaises, PipelineRaisesRuntimeError
<1>2. \A r \in Slots : r # s => hb'[r] = hb[r]
  BY DEF Typed, TypeOK, JobStep, Start, StoreAborted, CheckInput, Draft, Stream, SendChunks, StoreSucceeded,
       StoreResult, Report, StoreCanceled, StoreFailed, StopHeartbeat, CheckOwner, DeleteLease,
       Unindex, JobRaises, PipelineRaises, PipelineRaisesRuntimeError
<1>3. job' = [job EXCEPT ![s] = Free] \/ \E pc \in JobPc \ {"free"} : GoJob(s, pc)
  BY DEF JobPc, JobStep, Start, StoreAborted, CheckInput, Draft, Stream, SendChunks, StoreSucceeded,
       StoreResult, Report, StoreCanceled, StoreFailed, StopHeartbeat, CheckOwner, DeleteLease,
       Unindex, JobRaises, PipelineRaises, PipelineRaisesRuntimeError
<1> QED
  BY <1>1, <1>2, <1>3, GoesOn DEF Typed, TypeOK

LEMMA JobLocated ==
  ASSUME Sound, Typed', NEW s \in Slots,
         JobStep(s) \/ JobRaises(s) \/ PipelineRaises(s) \/ PipelineRaisesRuntimeError(s),
         NEW u \in Tasks, Undisturbed(u), NEW p \in Places, Located(p, u)
  PROVE  \E q \in Places : Located(q, u)'
<1> USE DEF Places, Early, Takings, Seekings, ClaimPcs, jobFrame, redisVars
<1>1. /\ job[s].pc # "free"
      /\ \A r \in Slots : r # s => job'[r] = job[r] /\ hb'[r] = hb[r]
      /\ job'[s] = Free \/ (job'[s].task = job[s].task /\ job'[s].pc # "free")
      /\ UNCHANGED <<queue, cancelKey, creating, loop, rec>>
  BY JobKeeps DEF Sound
<1>2. Typed /\ Once(u) /\ (Queued(u)' <=> Queued(u)) /\ Once(u)'
  BY <1>1, OnePlace, SameQueue DEF Sound
<1>3. CASE job[s].task # u
  <2>1. SameHands(u)
    BY <1>1, <1>2, <1>3 DEF SameHands, InLoop, Free, At
  <2>2. UNCHANGED <<meta[u], index[u], lease[u]>> /\ (mishap'[u] = "none" => mishap[u] = "none")
    BY <1>2, <1>3
       DEF Typed, TypeOK, Store, Blame, JobStep, Start, StoreAborted, CheckInput, Draft, Stream, SendChunks, StoreSucceeded,
       StoreResult, Report, StoreCanceled, StoreFailed, StopHeartbeat, CheckOwner, DeleteLease,
       Unindex, JobRaises, PipelineRaises, PipelineRaisesRuntimeError
  <2> QED
    BY <1>1, <2>1, <2>2, Apart DEF SameKeys
<1>4. CASE job[s].task = u
  <2>1. p = "job" /\ Job(s, u) /\ Holds(p, u)
    BY <1>1, <1>4, OnePlace
  <2>2. (Sought(u)' <=> Sought(u)) /\ s[1] # NoWorker
    BY <1>1, NamesAssumption DEF Sought, Slots
  <2>3. /\ u \notin creating /\ ~ Queued(u) /\ \A v \in Workers : ~ InLoop(v, u)
        /\ \A v \in Workers : ~ (rec[v].pc \in Takings /\ rec[v].task = u)
        /\ \A r \in Slots : r # s => job[r].pc = "free" \/ job[r].task # u
    BY <1>1, <1>4, <2>1, OnePlace DEF InLoop, Located, InJob
  <2>4. CASE job'[s] = Free
    <3>1. \A pc \in JobPc : GoJob(s, pc) => pc = "free"
      BY <1>2, <2>4, GoesOn DEF Free, At
    <3>2. Unindex(s) \/ JobRaises(s)
      BY <2>1, <3>1 DEF JobPc, Job, JobStep, Start, StoreAborted, CheckInput, Draft, Stream,
         SendChunks, StoreSucceeded, StoreResult, Report, StoreCanceled, StoreFailed,
         StopHeartbeat, CheckOwner, DeleteLease, PipelineRaises, PipelineRaisesRuntimeError
    <3>3. UNCHANGED <<meta, lease>> /\ (JobRaises(s) => UNCHANGED index)
      BY <3>2 DEF Unindex, JobRaises
    <3>4. hb[s] = "ended" \/ (index[u] = "fresh" /\ ~ Sought(u))
      BY <2>1 DEF Job
    <3>5. CASE Unindex(s)
      <4>1. index'[u] = "absent" /\ mishap'[u] = IF meta[u] \in Terminal THEN mishap[u] ELSE "released"
        BY <1>2, <1>4, <3>5 DEF Unindex, Blame, TerminalTasks, Undisturbed, Typed, TypeOK
      <4>2. \/ meta[u] \in Terminal
            \/ ~ Sought(u) /\ mishap'[u] = "released"
        BY <2>1, <3>4, <4>1 DEF Job
      <4> QED
        BY <1>1, <1>2, <2>3, <2>4, <3>3, <4>1, <4>2, LeftToNobody DEF Free, At, InLoop, Terminal
    <3>6. CASE JobRaises(s)
      <4>1. meta[u] \in {"queued", "running"} => meta[u] = "running" /\ index[u] # "absent"
        BY <2>1, <3>4 DEF Holds, Job, Terminal
      <4> QED
        BY <1>1, <1>2, <2>3, <2>4, <3>3, <3>6, <4>1, LeftToNobody DEF Free, At, InLoop, JobRaises
    <3> QED
      BY <3>2, <3>5, <3>6
  <2>5. CASE job'[s] # Free
    <3> DEFINE Goal == /\ lease'[u] \in {lease[u], NoWorker}
                       /\ meta'[u] \in {"running"} \union Terminal
                       /\ Job(s, u)'
    <3>1. ASSUME Start(s) PROVE Goal
      BY <1>1, <1>2, <1>4, <2>1, <2>2, <2>5, <3>1, GoesOn
         DEF Start, Job, Holds, Unended, Terminal, Typed, TypeOK
    <3>2. ASSUME StoreAborted(s) PROVE Goal
      BY <1>1, <1>2, <1>4, <2>1, <2>2, <2>5, <3>2, GoesOn
         DEF StoreAborted, Store, Job, Holds, Unended, Terminal, Typed, TypeOK
    <3>3. ASSUME CheckInput(s) PROVE Goal
      BY <1>1, <1>2, <1>4, <2>1, <2>2, <2>5, <3>3, GoesOn
         DEF CheckInput, Job, Holds, Unended, Terminal, Typed, TypeOK
    <3>4. ASSUME Draft(s) PROVE Goal
      BY <1>1, <1>2, <1>4, <2>1, <2>2, <2>5, <3>4, GoesOn
         DEF Draft, Job, Holds, Unended, Terminal, Typed, TypeOK
    <3>5. ASSUME Stream(s) PROVE Goal
      BY <1>1, <1>2, <1>4, <2>1, <2>2, <2>5, <3>5, GoesOn
         DEF Stream, Job, Holds, Unended, Terminal, Typed, TypeOK
    <3>6. ASSUME SendChunks(s) PROVE Goal
      BY <1>1, <1>2, <1>4, <2>1, <2>2, <2>5, <3>6, GoesOn
         DEF SendChunks, Job, Holds, Unended, Terminal, Typed, TypeOK
    <3>7. ASSUME StoreSucceeded(s) PROVE Goal
      BY <1>1, <1>2, <1>4, <2>1, <2>2, <2>5, <3>7, GoesOn
         DEF StoreSucceeded, Store, Job, Holds, Unended, Terminal, Typed, TypeOK
    <3>8. ASSUME StoreResult(s) PROVE Goal
      BY <1>1, <1>2, <1>4, <2>1, <2>2, <2>5, <3>8, GoesOn
         DEF StoreResult, Job, Holds, Unended, Terminal, Typed, TypeOK
    <3>9. ASSUME Report(s) PROVE Goal
      BY <1>1, <1>2, <1>4, <2>1, <2>2, <2>5, <3>9, GoesOn
         DEF Report, Job, Holds, Unended, Terminal, Typed, TypeOK
    <3>10. ASSUME StoreCanceled(s) PROVE Goal
      BY <1>1, <1>2, <1>4, <2>1, <2>2, <2>5, <3>10, GoesOn
         DEF StoreCanceled, Store, Job, Holds, Unended, Terminal, Typed, TypeOK
    <3>11. ASSUME StoreFailed(s) PROVE Goal
      BY <1>1, <1>2, <1>4, <2>1, <2>2, <2>5, <3>11, GoesOn
         DEF StoreFailed, Store, Job, Holds, Unended, Terminal, Typed, TypeOK
    <3>12. ASSUME StopHeartbeat(s) PROVE Goal
      BY <1>1, <1>2, <1>4, <2>1, <2>2, <2>5, <3>12, GoesOn
         DEF StopHeartbeat, Job, Holds, Unended, Terminal, Typed, TypeOK
    <3>13. ASSUME CheckOwner(s) PROVE Goal
      BY <1>1, <1>2, <1>4, <2>1, <2>2, <2>5, <3>13, GoesOn
         DEF CheckOwner, Job, Holds, Unended, Terminal, Typed, TypeOK
    <3>14. ASSUME DeleteLease(s) PROVE Goal
      BY <1>1, <1>2, <1>4, <2>1, <2>2, <2>5, <3>14, GoesOn
         DEF DeleteLease, Job, Holds, Unended, Terminal, Typed, TypeOK
    <3>15. ASSUME PipelineRaises(s) PROVE Goal
      BY <1>1, <1>2, <1>4, <2>1, <2>2, <2>5, <3>15, GoesOn
         DEF PipelineRaises, Job, Holds, Unended, Terminal, Typed, TypeOK
    <3>16. ASSUME PipelineRaisesRuntimeError(s) PROVE Goal
      BY <1>1, <1>2, <1>4, <2>1, <2>2, <2>5, <3>16, GoesOn
         DEF PipelineRaisesRuntimeError, Job, Holds, Unended, Terminal, Typed, TypeOK
    <3>17. ASSUME JobRaises(s) PROVE Goal
      BY <1>1, <1>2, <1>4, <2>1, <2>2, <2>5, <3>17, GoesOn
         DEF JobRaises, Job, Holds, Unended, Terminal, Typed, TypeOK
    <3>18. Goal
      BY <2>5, <3>1, <3>2, <3>3, <3>4, <3>5, <3>6, <3>7, <3>8, <3>9, <3>10, <3>11, <3>12, <3>13, <3>14, <3>15, <3>16, <3>17 DEF JobStep, Unindex, Typed, TypeOK
    <3> QED
      BY <1>1, <1>4, <2>5, <3>18, JobMoves
  <2> QED
    BY <2>4, <2>5
<1> QED
  BY <1>3, <1>4

\* A heartbeat.
LEMMA BeatLocated ==
  ASSUME Sound, Typed', NEW s \in Slots, BeatStep(s) \/ BeatRaises(s),
         NEW u \in Tasks, Undisturbed(u), Undisturbed(u)', NEW p \in Places, Located(p, u)
  PROVE  \E q \in Places : Located(q, u)'
<1> USE DEF Places, Early, Takings, Seekings, ClaimPcs, hbFrame
<1>1. /\ job[s].pc # "free" /\ hb[s] \notin {"off", "ended"}
      /\ UNCHANGED <<queue, lease, cancelKey, creating, loop, job, rec>>
      /\ \A r \in Slots : r # s => hb'[r] = hb[r]
  BY DEF BeatStep, Wake, Renew, StoreBeat, ExtendIndex, BeatRaises, Sound, Processes, Typed, TypeOK
<1>2. Typed /\ Once(u) /\ (Queued(u)' <=> Queued(u)) /\ Once(u)'
  BY <1>1, OnePlace, SameQueue DEF Sound
<1>3. CASE job[s].task # u
  <2>1. SameHands(u)
    BY <1>1, <1>2, <1>3 DEF SameHands, InLoop
  <2>2. UNCHANGED <<meta[u], index[u]>> /\ (mishap'[u] = "none" => mishap[u] = "none")
    BY <1>2, <1>3 DEF BeatStep, Wake, Renew, StoreBeat, ExtendIndex, BeatRaises, Store, Blame,
       Typed, TypeOK
  <2> QED
    BY <1>1, <2>1, <2>2, Apart DEF SameKeys
<1>4. CASE job[s].task = u
  <2>1. p = "job" /\ Job(s, u) /\ Holds(p, u)
    BY <1>1, <1>4, OnePlace
  <2>2. Sought(u)' <=> Sought(u)
    BY <1>1 DEF Sought
  <2>3. ~ BeatRaises(s)
    BY <1>4 DEF BeatRaises, Blame, Undisturbed
  <2> DEFINE Goal == meta'[u] \in {"running"} \union Terminal /\ Job(s, u)'
  <2>4. ASSUME Wake(s) PROVE Goal
    BY <1>1, <1>2, <1>4, <2>1, <2>2, <2>4 DEF Wake, Job, Holds, Terminal, Typed, TypeOK
  <2>5. ASSUME Renew(s) PROVE Goal
    BY <1>1, <1>2, <1>4, <2>1, <2>2, <2>5 DEF Renew, Job, Holds, Unended, Terminal, Typed, TypeOK
  <2>6. ASSUME StoreBeat(s) PROVE Goal
    BY <1>1, <1>2, <1>4, <2>1, <2>2, <2>6 DEF StoreBeat, Store, Job, Holds, Terminal, Typed, TypeOK
  <2>7. ASSUME ExtendIndex(s) PROVE Goal
    BY <1>1, <1>2, <1>4, <2>1, <2>2, <2>7 DEF ExtendIndex, Job, Holds, Terminal, Typed, TypeOK
  <2> QED
    BY <1>1, <1>4, <2>3, <2>4, <2>5, <2>6, <2>7, JobMoves DEF BeatStep
<1> QED
  BY <1>3, <1>4

\* What a reclaim loop seeks nobody has, unless it is a job whose heartbeat has ended.
LEMMA SoughtIsLoose ==
  ASSUME NEW u \in Tasks, NEW p \in Places, Located(p, u), Sought(u)
  PROVE  /\ p \in {"nobody", "job"} /\ meta[u] # "none"
         /\ u \notin creating /\ ~ Queued(u) /\ Once(u)
         /\ \A w \in Workers : ~ InLoop(w, u) /\ ~ (rec[w].pc \in Takings /\ rec[w].task = u)
         /\ p = "job" => meta[u] # "running"
<1> USE DEF Places, Early, Takings, ClaimPcs
<1>1. p \in {"nobody", "job"} /\ meta[u] # "none"
  BY OnePlace DEF Holds
<1>2. ASSUME p = "job"
      PROVE  meta[u] # "running"
  <2>1. PICK s \in Slots : job[s].pc # "free" /\ job[s].task = u
    BY <1>2 DEF Located, InHand
  <2> QED
    BY <2>1, OnePlace DEF Job, Terminal
<1> QED
  BY <1>1, <1>2, OnePlace DEF InLoop

\* A reclaim loop goes on with the task it has taken on.
LEMMA RecMoves ==
  ASSUME Sound, NEW u \in Tasks, NEW p \in Places, Located(p, u),
         NEW w \in Workers, rec[w].pc \in Takings, rec[w].task = u,
         NEW q \in Takings, GoRec(w, q),
         UNCHANGED <<queue, lease, creating, loop, job, hb, cancelKey>>,
         ~ Sought(u)' => Holds(q, u)'
  PROVE  Located(q, u)'
<1> USE DEF Places, Early, Takings, Seekings, ClaimPcs
<1>1. /\ p = rec[w].pc /\ u \notin creating /\ ~ Queued(u) /\ Once(u) /\ ~ Sought(u)
      /\ \A v \in Workers : ~ InLoop(v, u)
      /\ \A s \in Slots : job[s].pc = "free" \/ job[s].task # u
  BY OnePlace DEF InLoop, Holds
<1>2. /\ rec'[w].pc = q /\ rec'[w].task = u /\ rec'[w].todo = rec[w].todo
      /\ \A v \in Workers : v # w => rec'[v] = rec[v] /\ rec[v].pc = "off"
  BY DEF GoRec, Sound, Processes, Typed, TypeOK
<1>3. ~ Sought(u)'
  BY <1>1, <1>2 DEF Sought
<1>4. InBackend(q, u)'
  BY <1>1, SameQueue DEF InBackend
<1>5. InClaim(q, u)' /\ InJob(q, u)'
  BY <1>1 DEF InClaim, InJob, InLoop
<1>6. InRec(q, u)'
  BY <1>2 DEF InRec
<1>7. InHand(q, u)'
  BY <1>2 DEF InHand
<1> QED
  BY <1>3, <1>4, <1>5, <1>6, <1>7 DEF Located

LEMMA ReclaimLocated ==
  ASSUME Sound, Typed', NEW w \in Workers, ReclaimStep(w),
         NEW u \in Tasks, Undisturbed(u), NEW p \in Places, Located(p, u)
  PROVE  \E q \in Places : Located(q, u)'
<1> USE DEF Places, Early, Takings, Seekings, ClaimPcs, recFrame
<1>1. /\ rec[w].pc # "off" /\ \A v \in Workers : v # w => rec'[v] = rec[v] /\ rec[v].pc = "off"
      /\ \A v \in Workers : v # w => rec[v].todo = {}
      /\ UNCHANGED <<lease, cancelKey, creating, loop, job, hb, mishap>>
  <2>1. rec[w].pc # "off" /\ UNCHANGED <<lease, cancelKey, creating, loop, job, hb, mishap>>
    BY DEF ReclaimStep, Scan, NextExpired, ExtendOwned, LoadExpired, CheckCancel,
       StoreReclaimCanceled, DropExpired, StoreQueued, Unlist, Requeue
  <2>2. \A v \in Workers : v # w => rec'[v] = rec[v]
    BY DEF ReclaimStep, Scan, NextExpired, ExtendOwned, LoadExpired, CheckCancel,
       StoreReclaimCanceled, DropExpired, StoreQueued, Unlist, Requeue, GoRec,
       Sound, Typed, TypeOK
  <2> QED
    BY <2>1, <2>2 DEF Sound, Processes
<1>2. Typed /\ Once(u) /\ (queue' = queue => (Queued(u)' <=> Queued(u)) /\ Once(u)')
  BY OnePlace, SameQueue DEF Sound
<1>3. \A pc \in RecPc : GoRec(w, pc) =>
        rec'[w].pc = pc /\ rec'[w].task = rec[w].task /\ rec'[w].todo = rec[w].todo
  BY <1>2 DEF GoRec, Typed, TypeOK
<1>4. /\ InBackend(p, u) /\ InClaim(p, u) /\ InRec(p, u) /\ InJob(p, u)
      /\ Holds(p, u) /\ InHand(p, u)
  BY DEF Located
<1>5. CASE Scan(w)
  <2>1. PICK batch \in SUBSET {t \in Tasks : index[t] = "due"} :
          rec' = [rec EXCEPT ![w] = [pc |-> "next", task |-> NoTask, todo |-> batch]]
    BY <1>5 DEF Scan
  <2>2. rec'[w] = [pc |-> "next", task |-> NoTask, todo |-> batch] /\ rec[w].pc = "wait"
    BY <1>2, <1>5, <2>1 DEF Scan, Typed, TypeOK
  <2>3. UNCHANGED <<meta, index, queue>>
    BY <1>5 DEF Scan
  <2>4. CASE u \notin batch
    <3>1. SameHands(u)
      BY <1>1, <1>2, <2>2, <2>3, <2>4 DEF SameHands
    <3> QED
      BY <1>1, <2>3, <3>1, Apart DEF SameKeys
  <2>5. CASE u \in batch
    <3>1. index[u] = "due"
      BY <2>5
    <3>2. p \in {"nobody", "job"} /\ meta[u] # "none"
      BY <1>1, <1>4, <2>2, <3>1 DEF Holds, InHand
    <3>3. InBackend(p, u)'
      BY <1>1, <1>2, <1>4, <2>3 DEF InBackend
    <3>4. InClaim(p, u)' /\ InHand(p, u)'
      BY <1>1, <1>4, <3>2 DEF InClaim, InHand
    <3>5. InRec(p, u)'
      BY <1>1, <1>4, <2>2, <2>3 DEF InRec
    <3>6. InJob(p, u)'
      BY <1>1, <1>4, <2>3, <3>1 DEF InJob, Job
    <3>7. Holds(p, u)'
      BY <1>4, <2>3, <3>1, <3>2, <1>1 DEF Holds
    <3> QED
      BY <3>3, <3>4, <3>5, <3>6, <3>7 DEF Located
  <2> QED
    BY <2>4, <2>5
<1>6. CASE NextExpired(w)
  <2>1. UNCHANGED <<meta, index, queue>> /\ rec[w].pc = "next"
    BY <1>6 DEF NextExpired
  <2>2. CASE rec' = [rec EXCEPT ![w] = RecWait]
    <3>1. rec'[w] = RecWait
      BY <1>2, <2>2 DEF Typed, TypeOK
    <3>2. SameHands(u)
      BY <1>1, <1>2, <2>1, <3>1 DEF SameHands, RecWait
    <3> QED
      BY <1>1, <2>1, <3>2, Apart DEF SameKeys
  <2>3. ASSUME NEW t \in rec[w].todo,
               rec' = [rec EXCEPT ![w] =
                         [pc |-> IF lease[t] # NoWorker THEN "extend" ELSE "load",
                          task |-> t, todo |-> rec[w].todo \ {t}]]
        PROVE  Located(p, u)'
    <3>1. rec'[w] = [pc |-> IF lease[t] # NoWorker THEN "extend" ELSE "load",
                     task |-> t, todo |-> rec[w].todo \ {t}]
      BY <1>2, <2>3 DEF Typed, TypeOK
    <3>2. CASE u # t
      <4>1. SameHands(u)
        BY <1>1, <1>2, <2>1, <3>1, <3>2 DEF SameHands
      <4> QED
        BY <1>1, <2>1, <4>1, Apart DEF SameKeys
    <3>3. CASE u = t
      <4>1. Sought(u)
        BY <2>3, <3>3 DEF Sought
      <4>2. p \in {"nobody", "job"}
        BY <4>1, SoughtIsLoose
      <4>3. InBackend(p, u)'
        BY <1>1, <1>2, <1>4, <2>1 DEF InBackend
      <4>4. InClaim(p, u)' /\ InHand(p, u)'
        BY <1>1, <1>4, <4>2 DEF InClaim, InHand
      <4>5. InRec(p, u)'
        BY <1>1, <1>4, <2>1, <3>1, <3>3 DEF InRec
      <4>6. InJob(p, u)'
        BY <1>1, <1>4, <2>1, <4>1 DEF InJob, Job
      <4>7. Holds(p, u)'
        BY <1>1, <1>4, <2>1, <4>1, <4>2 DEF Holds
      <4> QED
        BY <4>3, <4>4, <4>5, <4>6, <4>7 DEF Located
    <3> QED
      BY <3>2, <3>3
  <2> QED
    BY <1>6, <2>2, <2>3 DEF NextExpired
<1>7. CASE rec[w].pc \in Takings \union Seekings /\ rec[w].task # u
  <2>1. /\ rec'[w].task = rec[w].task /\ rec'[w].todo = rec[w].todo
        /\ queue' = queue \/ queue' = Append(queue, rec[w].task)
    BY <1>3, <1>7 DEF ReclaimStep, Scan, NextExpired, ExtendOwned, LoadExpired, CheckCancel,
       StoreReclaimCanceled, DropExpired, StoreQueued, Unlist, Requeue, RecPc
  <2>2. rec[w].task \in Tasks
    BY <1>2, <1>7 DEF Typed, HandsOK, Handling
  <2>3. (Queued(u)' <=> Queued(u)) /\ Once(u)'
    BY <1>2, <1>7, <2>1, <2>2, Pushed DEF Typed, TypeOK
  <2>4. SameHands(u)
    BY <1>1, <1>7, <2>1, <2>3 DEF SameHands
  <2>5. SameKeys(u)
    BY <1>1, <1>2, <1>7, <2>2 DEF SameKeys, ReclaimStep, Scan, NextExpired, ExtendOwned,
       LoadExpired, CheckCancel, StoreReclaimCanceled, DropExpired, StoreQueued, Unlist, Requeue,
       Store, Typed, TypeOK
  <2> QED
    BY <2>4, <2>5, Apart
<1>8. CASE rec[w].pc \in Seekings /\ rec[w].task = u
  <2>1. Sought(u) /\ u \notin rec[w].todo
    BY <1>4, <1>8 DEF Sought, InRec
  <2>2. /\ p \in {"nobody", "job"} /\ meta[u] # "none"
        /\ u \notin creating /\ ~ Queued(u)
        /\ \A v \in Workers : ~ InLoop(v, u)
        /\ p = "job" => meta[u] # "running"
    BY <2>1, SoughtIsLoose
  <2>3. queue' = queue
    BY <1>8 DEF ReclaimStep, Scan, NextExpired, ExtendOwned, LoadExpired, CheckCancel,
       StoreReclaimCanceled, DropExpired, StoreQueued, Unlist, Requeue
  <2>4. \A q \in {"nobody", "job", "verify"} : InBackend(q, u)' /\ InClaim(q, u)'
    BY <1>1, <1>2, <2>2, <2>3 DEF InBackend, InClaim, InLoop
  <2>5. CASE ExtendOwned(w)
    <3>1. rec'[w].pc = "next" /\ rec'[w].todo = rec[w].todo /\ meta' = meta /\ index'[u] = "fresh"
      BY <1>2, <1>3, <1>8, <2>5 DEF ExtendOwned, RecPc, Typed, TypeOK
    <3>2. ~ Sought(u)'
      BY <1>1, <2>1, <3>1 DEF Sought
    <3>3. InRec(p, u)' /\ InHand(p, u)'
      BY <1>1, <1>4, <2>2, <3>1 DEF InRec, InHand
    <3>4. InJob(p, u)'
      BY <1>1, <1>4, <2>1, <3>1, <3>2 DEF InJob, Job
    <3>5. Holds(p, u)'
      BY <1>1, <1>4, <2>2, <3>1, <3>2 DEF Holds
    <3> QED
      BY <2>2, <2>4, <3>3, <3>4, <3>5 DEF Located
  <2>6. CASE LoadExpired(w) /\ meta[u] = "running"
    <3>1. /\ rec'[w].pc = "verify" /\ rec'[w].task = u /\ rec'[w].todo = rec[w].todo
          /\ meta' = meta /\ index' = index /\ lease[u] = NoWorker
      BY <1>3, <1>4, <1>8, <2>6 DEF LoadExpired, RecPc, InRec
    <3>2. ~ Sought(u)'
      BY <1>1, <2>1, <3>1 DEF Sought
    <3>3. InRec("verify", u)' /\ InHand("verify", u)'
      BY <1>1, <3>1 DEF InRec, InHand
    <3>4. InJob("verify", u)'
      BY <1>1, <2>2, <2>6, OnePlace DEF InJob
    <3>5. Holds("verify", u)'
      BY <1>1, <1>4, <2>1, <2>6, <3>1, <3>2 DEF Holds
    <3> QED
      BY <2>4, <3>3, <3>4, <3>5 DEF Located
  <2>7. CASE LoadExpired(w) /\ meta[u] # "running"
    <3>1. /\ rec'[w].pc = "drop" /\ rec'[w].task = u /\ rec'[w].todo = rec[w].todo
          /\ meta' = meta /\ index' = index
      BY <1>3, <1>8, <2>7 DEF LoadExpired, RecPc
    <3>2. InRec(p, u)' /\ InHand(p, u)'
      BY <1>1, <1>4, <2>1, <2>2, <2>7, <3>1 DEF InRec, InHand
    <3>3. InJob(p, u)'
      BY <1>1, <1>4, <2>1, <3>1 DEF InJob, Job
    <3>4. Holds(p, u)'
      BY <1>1, <1>4, <2>2, <2>7, <3>1 DEF Holds
    <3> QED
      BY <2>2, <2>4, <3>2, <3>3, <3>4 DEF Located
  <2>8. CASE DropExpired(w)
    <3>1. /\ rec'[w].pc = "next" /\ rec'[w].todo = rec[w].todo /\ meta' = meta
          /\ index'[u] = "absent" /\ meta[u] # "running"
      BY <1>2, <1>3, <1>4, <1>8, <2>8 DEF DropExpired, RecPc, InRec, Typed, TypeOK
    <3>2. ~ Sought(u)'
      BY <1>1, <2>1, <3>1 DEF Sought
    <3>3. InRec(p, u)' /\ InHand(p, u)'
      BY <1>1, <1>4, <2>2, <3>1 DEF InRec, InHand
    <3>4. InJob(p, u)'
      BY <1>1, <1>4, <2>1, <3>1, <3>2 DEF InJob, Job
    <3>5. Holds(p, u)'
      BY <1>1, <1>4, <2>2, <3>1, <3>2 DEF Holds
    <3> QED
      BY <2>2, <2>4, <3>3, <3>4, <3>5 DEF Located
  <2> QED
    BY <1>8, <2>5, <2>6, <2>7, <2>8, <1>5, <1>6
       DEF ReclaimStep, CheckCancel, StoreReclaimCanceled, StoreQueued, Unlist, Requeue
<1>9. CASE rec[w].pc \in Takings /\ rec[w].task = u
  <2>1. p = rec[w].pc /\ u \notin creating /\ ~ Queued(u) /\ ~ Sought(u)
    BY <1>9, OnePlace DEF Holds
  <2>2. /\ \A v \in Workers : ~ InLoop(v, u)
        /\ \A s \in Slots : job[s].pc = "free" \/ job[s].task # u
    BY <2>1, <1>9, OnePlace DEF InLoop
  <2>3. CASE CheckCancel(w)
    <3>1. PICK q \in {"cancel", "requeue"} : GoRec(w, q) /\ (q = "cancel" => u \in cancelKey)
      BY <1>9, <2>3 DEF CheckCancel
    <3>2. ~ Sought(u)' => Holds(q, u)'
      BY <1>1, <1>4, <1>9, <2>1, <2>3, <3>1 DEF CheckCancel, Holds
    <3> QED
      BY <1>1, <1>9, <2>3, <3>1, <3>2, RecMoves DEF CheckCancel
  <2>4. CASE StoreReclaimCanceled(w)
    <3>1. /\ rec'[w].pc = "drop" /\ rec'[w].task = u /\ rec'[w].todo = rec[w].todo
          /\ meta'[u] = "canceled" /\ UNCHANGED <<index, queue>>
      BY <1>2, <1>3, <1>9, <2>4 DEF StoreReclaimCanceled, Store, RecPc, Typed, TypeOK
    <3>2. u \notin rec[w].todo
      BY <2>1 DEF Sought
    <3>3. InBackend("nobody", u)'
      BY <1>1, <1>2, <2>1, <3>1 DEF InBackend
    <3>4. InClaim("nobody", u)' /\ InJob("nobody", u)' /\ InHand("nobody", u)'
      BY <1>1, <2>2 DEF InClaim, InJob, InHand, InLoop
    <3>5. InRec("nobody", u)'
      BY <1>1, <3>1, <3>2 DEF InRec
    <3>6. Holds("nobody", u)'
      BY <3>1 DEF Holds
    <3> QED
      BY <3>3, <3>4, <3>5, <3>6 DEF Located
  <2>5. CASE StoreQueued(w)
    <3>1. ~ Sought(u)' => Holds("unlist", u)'
      BY <1>1, <1>2, <1>4, <1>9, <2>1, <2>5 DEF StoreQueued, Store, Holds, Typed, TypeOK
    <3> QED
      BY <1>1, <1>9, <2>5, <3>1, RecMoves DEF StoreQueued
  <2>6. CASE Unlist(w)
    <3>1. ~ Sought(u)' => Holds("push", u)'
      BY <1>1, <1>2, <1>4, <1>9, <2>1, <2>6 DEF Unlist, Holds, Typed, TypeOK
    <3> QED
      BY <1>1, <1>9, <2>6, <3>1, RecMoves DEF Unlist
  <2>7. CASE Requeue(w)
    <3>1. /\ rec'[w].pc = "next" /\ rec'[w].task = u /\ rec'[w].todo = rec[w].todo
          /\ queue' = Append(queue, u) /\ UNCHANGED <<meta, index>>
      BY <1>3, <1>9, <2>7 DEF Requeue, RecPc
    <3>2. Queued(u)' /\ Once(u)'
      BY <1>2, <2>1, <3>1, Pushed DEF Typed, TypeOK
    <3>3. InBackend("queue", u)' /\ InHand("queue", u)'
      BY <1>1, <2>1, <3>2 DEF InBackend, InHand
    <3>4. InClaim("queue", u)' /\ InJob("queue", u)'
      BY <1>1, <2>2 DEF InClaim, InJob, InLoop
    <3>5. InRec("queue", u)'
      BY <1>1, <3>1 DEF InRec
    <3>6. ~ Sought(u)'
      BY <1>1, <2>1, <3>1 DEF Sought
    <3>7. Holds("queue", u)'
      BY <1>1, <1>4, <1>9, <2>1, <2>7, <3>1, <3>6 DEF Requeue, Holds
    <3> QED
      BY <3>3, <3>4, <3>5, <3>7 DEF Located
  <2> QED
    BY <1>9, <2>3, <2>4, <2>5, <2>6, <2>7, <1>5, <1>6
       DEF ReclaimStep, ExtendOwned, LoadExpired, DropExpired
<1> QED
  BY <1>5, <1>6, <1>7, <1>8, <1>9
     DEF ReclaimStep, ExtendOwned, LoadExpired, CheckCancel, StoreReclaimCanceled, DropExpired,
         StoreQueued, Unlist, Requeue

----------------------------------------------------------------------------
(* The invariant is kept                                                   *)

\* Coroutines are only those of the process that is alive.
LEMMA ProcessesKept ==
  ASSUME Sound, Typed', [Next]_vars, MaxLive = 1
  PROVE  Processes'
<1> USE DEF redisVars, workerVars
<1>0. Typed /\ Processes
  BY DEF Sound
<1>1. ASSUME NEW t \in Tasks,
             Submit(t) \/ Enqueue(t) \/ SubmitFails(t) \/ Cancel(t) \/ LeaseExpires(t)
               \/ OwnerStalls(t) \/ DeadlinePasses(t)
      PROVE  Processes'
  BY <1>0, <1>1 DEF Processes, Submit, Enqueue, SubmitFails, Cancel, LeaseExpires, OwnerStalls,
     DeadlinePasses
<1>2. ASSUME NEW w \in Workers, StartWorker(w)
      PROVE  Processes'
  <2>1. live = {}
    BY <1>0, <1>2, FS_EmptySet, FS_CardinalityType DEF StartWorker, Processes
  <2>2. live' = {w} /\ IsFiniteSet(live')
    BY <1>0, <1>2, <2>1, FS_AddElement DEF StartWorker, Processes
  <2>3. /\ loop'[w].pc = "idle" /\ rec'[w] = RecWait
        /\ \A v \in Workers : v # w => loop'[v] = loop[v] /\ rec'[v] = rec[v]
        /\ UNCHANGED <<job, hb>>
    BY <1>0, <1>2 DEF StartWorker, LoopIdle, At, Typed, TypeOK
  <2> QED
    BY <1>0, <2>1, <2>2, <2>3 DEF Processes, RecWait
<1>3. ASSUME NEW w \in Workers, Crash(w)
      PROVE  Processes'
  <2>1. IsFiniteSet(live') /\ live' = live \ {w}
    BY <1>0, <1>3, FS_Subset DEF Crash, Processes
  <2>2. /\ loop'[w].pc = "off" /\ rec'[w] = RecOff
        /\ \A v \in Workers : v # w => loop'[v] = loop[v] /\ rec'[v] = rec[v]
        /\ \A s \in Slots : IF s[1] = w THEN job'[s].pc = "free" /\ hb'[s] = "off"
                            ELSE job'[s] = job[s] /\ hb'[s] = hb[s]
    BY <1>0, <1>3 DEF Crash, LoopOff, Free, At, Typed, TypeOK
  <2> QED
    BY <1>0, <2>1, <2>2 DEF Processes, RecOff
<1>4. ASSUME NEW w \in Workers, MainExits(w)
      PROVE  Processes'
  <2>1. IsFiniteSet(live') /\ live' = live \ {w}
    BY <1>0, <1>4, FS_Subset DEF MainExits, Processes
  <2>2. /\ loop'[w].pc = "off" /\ loop[w].pc = "draining"
        /\ \A v \in Workers : v # w => loop'[v] = loop[v]
        /\ UNCHANGED <<rec, job, hb>>
        /\ \A s \in Slots : s[1] = w => job[s].pc = "free"
    BY <1>0, <1>4 DEF MainExits, LoopOff, At, SlotsOf, Typed, TypeOK
  <2> QED
    BY <1>0, <2>1, <2>2 DEF Processes
<1>5. ASSUME NEW w \in Workers, MainRaises(w) \/ ReclaimRaises(w)
      PROVE  Processes'
  <2>1. /\ \A v \in Workers : v # w => loop'[v] = loop[v] /\ rec'[v] = rec[v]
        /\ \/ loop'[w].pc = "draining" /\ rec'[w] = RecOff /\ loop[w].pc # "off"
           \/ loop' = loop /\ rec'[w] = RecWait /\ rec[w].pc # "off"
        /\ UNCHANGED <<job, hb, live>>
    BY <1>0, <1>5 DEF MainRaises, ReclaimRaises, At, ClaimPcs, Typed, TypeOK
  <2> QED
    BY <1>0, <2>1 DEF Processes, RecOff, RecWait
<1>6. ASSUME NEW w \in Workers,
             Pop(w) \/ LoadClaimed(w) \/ CheckLease(w) \/ TakeLease(w) \/ StoreRunning(w)
      PROVE  Processes'
  <2>1. /\ \A v \in Workers : v # w => loop'[v] = loop[v]
        /\ loop[w].pc # "off" /\ loop'[w].pc # "draining"
        /\ UNCHANGED <<live, rec, job, hb>>
    BY <1>0, <1>6 DEF Pop, LoadClaimed, CheckLease, TakeLease, StoreRunning, Discard, LoopIdle,
       GoLoop, At, loopFrame, Typed, TypeOK
  <2> QED
    BY <1>0, <2>1 DEF Processes
<1>7. ASSUME NEW w \in Workers, Spawn(w)
      PROVE  Processes'
  <2>1. PICK s \in Slots : s[1] = w /\ job' = [job EXCEPT ![s] = At("start", loop[w].task)]
    BY <1>7 DEF Spawn, SlotsOf
  <2>2. /\ \A v \in Workers : v # w => loop'[v] = loop[v]
        /\ loop[w].pc # "off" /\ loop'[w].pc # "draining"
        /\ job'[s].pc # "free" /\ \A r \in Slots : r # s => job'[r] = job[r]
        /\ UNCHANGED <<live, rec, hb>>
    BY <1>0, <1>7, <2>1 DEF Spawn, LoopIdle, At, loopFrame, Typed, TypeOK
  <2> QED
    BY <1>0, <2>1, <2>2 DEF Processes
<1>8. ASSUME NEW w \in Workers, ReclaimStep(w)
      PROVE  Processes'
  <2>1. rec[w].pc # "off" /\ UNCHANGED <<live, loop, job, hb>>
    BY <1>8 DEF ReclaimStep, Scan, NextExpired, ExtendOwned, LoadExpired, CheckCancel,
       StoreReclaimCanceled, DropExpired, StoreQueued, Unlist, Requeue, recFrame
  <2>2. rec'[w] = RecWait \/ rec'[w].pc \notin {"off", "wait"}
    <3>1. \A pc \in RecPc : GoRec(w, pc) => rec'[w].pc = pc
      BY <1>0 DEF GoRec, Typed, TypeOK
    <3>2. CASE Scan(w) \/ NextExpired(w)
      <4>1. \A r : rec' = [rec EXCEPT ![w] = r] => rec'[w] = r
        BY <1>0 DEF Typed, TypeOK
      <4>2. \E r : (r = RecWait \/ r.pc \in {"next", "extend", "load"}) /\ rec' = [rec EXCEPT ![w] = r]
        BY <3>2 DEF Scan, NextExpired
      <4> QED
        BY <4>1, <4>2
    <3>3. CASE ~ Scan(w) /\ ~ NextExpired(w)
      BY <1>8, <3>1, <3>3 DEF ReclaimStep, ExtendOwned, LoadExpired, CheckCancel,
         StoreReclaimCanceled, DropExpired, StoreQueued, Unlist, Requeue, RecPc
    <3> QED
      BY <3>2, <3>3
  <2>3. \A v \in Workers : v # w => rec'[v] = rec[v]
    BY <1>0, <1>8 DEF ReclaimStep, Scan, NextExpired, ExtendOwned, LoadExpired, CheckCancel, GoRec,
       StoreReclaimCanceled, DropExpired, StoreQueued, Unlist, Requeue, Typed, TypeOK
  <2> QED
    BY <1>0, <2>1, <2>2, <2>3 DEF Processes, RecWait
<1>9. ASSUME NEW s \in Slots, JobStep(s) \/ JobRaises(s) \/ PipelineRaises(s)
                                \/ PipelineRaisesRuntimeError(s)
      PROVE  Processes'
  <2>1. /\ job[s].pc # "free"
        /\ \A r \in Slots : r # s => job'[r] = job[r] /\ hb'[r] = hb[r]
        /\ UNCHANGED <<loop, rec, live>>
    BY <1>0, <1>9, JobKeeps
  <2>2. job'[s].pc = "free" => hb'[s] = "off"
    <3>1. \A pc \in JobPc : GoJob(s, pc) => job'[s].pc = pc
      BY <1>0, GoesOn
    <3> QED
      BY <1>0, <1>9, <3>1 DEF JobPc, JobStep, Start, StoreAborted, CheckInput, Draft, Stream,
         SendChunks, StoreSucceeded, StoreResult, Report, StoreCanceled, StoreFailed,
         StopHeartbeat, CheckOwner, DeleteLease, Unindex, JobRaises, PipelineRaises,
         PipelineRaisesRuntimeError, Typed, TypeOK
  <2> QED
    BY <1>0, <2>1, <2>2 DEF Processes
<1>10. ASSUME NEW s \in Slots, BeatStep(s) \/ BeatRaises(s)
       PROVE  Processes'
  <2>1. /\ hb[s] # "off" /\ \A r \in Slots : r # s => hb'[r] = hb[r]
        /\ UNCHANGED <<live, loop, rec, job>>
    BY <1>0, <1>10 DEF BeatStep, Wake, Renew, StoreBeat, ExtendIndex, BeatRaises, hbFrame,
       Typed, TypeOK
  <2> QED
    BY <1>0, <2>1 DEF Processes
<1>11. CASE UNCHANGED vars
  BY <1>0, <1>11 DEF vars, Processes
<1> QED
  BY <1>1, <1>2, <1>3, <1>4, <1>5, <1>6, <1>7, <1>8, <1>9, <1>10, <1>11
     DEF Next, LoopStep

\* A lapse stays on record.
LEMMA LapseStays ==
  ASSUME Typed, Next, NEW u \in Tasks, Undisturbed(u)'
  PROVE  Undisturbed(u)
<1>1. \/ mishap' = mishap
      \/ \E ts, cause : Blame(ts, cause)
      \/ \E w \in Workers : LoseHandsOf(w)
  BY ZenonT(60) DEF Next, Submit, Enqueue, SubmitFails, Cancel, LeaseExpires, OwnerStalls, DeadlinePasses,
     StartWorker, Crash, MainRaises, ReclaimRaises, LoopStep, Pop, LoadClaimed, CheckLease,
     TakeLease, StoreRunning, Spawn, MainExits, ReclaimStep, Scan, NextExpired, ExtendOwned,
     LoadExpired, CheckCancel, StoreReclaimCanceled, DropExpired, StoreQueued, Unlist, Requeue,
     JobStep, Start, StoreAborted, CheckInput, Draft, Stream, SendChunks, StoreSucceeded,
     StoreResult, Report, StoreCanceled, StoreFailed, StopHeartbeat, CheckOwner, DeleteLease,
     Unindex, JobRaises, PipelineRaises, PipelineRaisesRuntimeError, BeatStep, Wake, Renew,
     StoreBeat, ExtendIndex, BeatRaises, loopFrame, recFrame
<1> QED
  BY <1>1 DEF Blame, LoseHandsOf, Undisturbed

LEMMA StepSound == ASSUME MaxLive = 1 PROVE Sound /\ [Next]_vars => Sound'
<1> SUFFICES ASSUME Sound, [Next]_vars PROVE Sound'
  OBVIOUS
<1>1. Typed /\ Typed'
  BY StepTyped DEF Sound
<1>2. Processes'
  BY <1>1, ProcessesKept
<1>3. CASE UNCHANGED vars
  BY <1>1, <1>2, <1>3 DEF Sound, vars, redisVars, workerVars, Undisturbed, Located, InBackend,
     Queued, Once, InClaim, InRec, InJob, Job, Sought, Holds, InHand, InLoop
<1>4. ASSUME Next, NEW u \in Tasks, Undisturbed(u)'
      PROVE  \E q \in Places : Located(q, u)'
  <2>1. Undisturbed(u)
    BY <1>1, <1>4, LapseStays
  <2>2. PICK p \in Places : Located(p, u)
    BY <2>1 DEF Sound
  <2> QED
    BY <1>1, <1>4, <2>1, <2>2, BackendLocated, ClaimLocated, SpawnLocated, ProcessLocated,
       JobLocated, BeatLocated, ReclaimLocated
       DEF Next, LoopStep
<1> QED
  BY <1>1, <1>2, <1>3, <1>4 DEF Sound

LEMMA InitSound == Init => Sound
<1> SUFFICES ASSUME Init PROVE Sound
  OBVIOUS
<1>1. Typed
  BY InitTyped
<1>2. Processes
  BY FS_EmptySet DEF Init, Processes, LoopOff, RecOff, Free, At
<1>3. ASSUME NEW t \in Tasks
      PROVE  Located("nobody", t)
  <2> USE DEF Init, Early, Takings, Seekings, Places, ClaimPcs, LoopOff, RecOff, Free, At
  <2>1. InBackend("nobody", t)
    BY DEF InBackend, Queued, Once
  <2>2. InClaim("nobody", t) /\ InRec("nobody", t) /\ InJob("nobody", t)
    BY DEF InClaim, InRec, InJob
  <2>3. Holds("nobody", t) /\ InHand("nobody", t)
    BY DEF Holds, Sought, InHand
  <2> QED
    BY <2>1, <2>2, <2>3 DEF Located
<1> QED
  BY <1>1, <1>2, <1>3 DEF Sound, Places

LEMMA AlwaysSound == ASSUME MaxLive = 1 PROVE Spec => []Sound
  BY InitSound, StepSound, PTL DEF Spec

----------------------------------------------------------------------------
(* Theorems                                                                *)

\* No two coroutines run one task, whatever crashes, restarts, errors and
\* reclaims there were, as long as its own lease has not lapsed.
THEOREM OneRunner == ASSUME MaxLive = 1 PROVE Spec => []AtMostOneRunner
<1>1. ASSUME Sound, NEW t \in Tasks, Undisturbed(t)
      PROVE  Cardinality(Running(t)) <= 1
  <2>1. PICK p \in Places : Located(p, t)
    BY <1>1 DEF Sound
  <2>2. \A r, s \in Running(t) : r = s
    BY <2>1 DEF Located, InJob, Running
  <2>3. Running(t) = {} \/ \E s : Running(t) = {s}
    BY <2>2
  <2> QED
    BY <2>3, FS_EmptySet, FS_Singleton
<1>2. Sound => AtMostOneRunner
  BY <1>1 DEF AtMostOneRunner
<1> QED
  BY <1>2, AlwaysSound, PTL

\* A task without an outcome is somewhere a worker will find it, unless it was
\* lost in one of the ways mishap names.
THEOREM NothingElseLost == ASSUME MaxLive = 1 PROVE Spec => []LossesNamed
<1>1. ASSUME Sound, NEW t \in Tasks, meta[t] \in {"queued", "running"}, mishap[t] = "none"
      PROVE  Tracked(t)
  <2>1. PICK p \in Places : Located(p, t)
    BY <1>1 DEF Sound, Undisturbed
  <2>2. CASE p = "nobody"
    BY <1>1, <2>1, <2>2 DEF Located, Holds, Tracked
  <2>3. CASE p = "creating" \/ p = "queue"
    BY <2>1, <2>3 DEF Located, InHand, Queued, Copies, Tracked
  <2>4. CASE p \in ClaimPcs \/ p = "job"
    BY <2>1, <2>4 DEF Located, InHand, Running, Tracked
  <2>5. CASE p \in {"verify", "cancel", "requeue"}
    BY <2>1, <2>5 DEF Located, Holds, Tracked
  <2>6. CASE p \in {"unlist", "push"}
    <3>1. \E w \in Workers : rec[w].task = t /\ rec[w].pc = p
      BY <2>1, <2>6 DEF Located, InHand, InRec, Takings
    <3> QED
      BY <2>6, <3>1 DEF InReclaim, Tracked
  <2> QED
    BY <2>2, <2>3, <2>4, <2>5, <2>6 DEF Places, Early, Takings, ClaimPcs
<1>2. Sound => LossesNamed
  BY <1>1 DEF LossesNamed
<1> QED
  BY <1>2, AlwaysSound, PTL

----------------------------------------------------------------------------
(* A task that is canceled in the queue                                    *)

\* The flag is set, and no run of t is past the check that looks for it first.
Unbegun == {"free", "start", "abort", "release", "unlease", "unindex"}

Stopped(t) ==
    /\ t \in cancelKey /\ meta[t] # "succeeded"
    /\ \A s \in Slots : job[s].task = t => job[s].pc \in Unbegun

\* What CanceledInQueue says of t from then on, and why
Doomed(t)  == ~ Undisturbed(t) \/ Stopped(t)
Refused(t) == meta[t] # "succeeded" \/ ~ Undisturbed(t)
Flagged(t) == t \in cancelKey /\ meta[t] = "queued"

\* Nobody runs a task whose record says 'queued'.
LEMMA DoomedInQueue ==
  ASSUME Sound, NEW t \in Tasks, Flagged(t)
  PROVE  Doomed(t)
<1> SUFFICES ASSUME Undisturbed(t) PROVE Stopped(t)
  BY DEF Doomed
<1>1. PICK p \in Places : Located(p, t)
  BY DEF Sound
<1>2. \A s \in Slots : job[s].pc = "free" \/ job[s].task # t
  BY <1>1 DEF Located, InJob, Holds, Terminal, Flagged
<1> QED
  BY <1>2 DEF Stopped, Unbegun, Flagged

\* A job that began sees the flag before it does anything else.
LEMMA StoppedJob ==
  ASSUME Typed, NEW t \in Tasks, Stopped(t), NEW s \in Slots,
         JobStep(s) \/ JobRaises(s) \/ PipelineRaises(s) \/ PipelineRaisesRuntimeError(s)
  PROVE  Stopped(t)'
<1> USE DEF Typed, TypeOK, Store, GoJob, Free, At, JobStep, Start, StoreAborted, CheckInput, Draft,
        Stream, SendChunks, StoreSucceeded, StoreResult, Report, StoreCanceled, StoreFailed,
        StopHeartbeat, CheckOwner, DeleteLease, Unindex, JobRaises, PipelineRaises,
        PipelineRaisesRuntimeError, jobFrame, redisVars
<1>1. job[s].task = t => job[s].pc \in Unbegun
  BY DEF Stopped
<1>2. cancelKey' = cancelKey /\ \A r \in Slots \ {s} : job'[r] = job[r]
  OBVIOUS
<1>3. meta'[t] # "succeeded"
  BY <1>1 DEF Stopped, Unbegun
<1>4. job'[s].task = t => job'[s].pc \in Unbegun
  BY <1>1 DEF Stopped, Unbegun
<1> QED
  BY <1>2, <1>3, <1>4 DEF Stopped

\* Nothing a step does lets t go on: no success is stored, no flag is taken away, and
\* a job that is spawned is at its first check.
Harmless(t) ==
    /\ cancelKey \subseteq cancelKey'
    /\ meta[t] # "succeeded" => meta'[t] # "succeeded"
    /\ \A s \in Slots : job'[s] = job[s] \/ job'[s].pc \in Unbegun

LEMMA HarmlessStops ==
  ASSUME NEW t \in Tasks, Stopped(t), Harmless(t)
  PROVE  Stopped(t)'
BY DEF Stopped, Harmless

LEMMA KeptHarmless ==
  ASSUME NEW t \in Tasks, cancelKey \subseteq cancelKey', job' = job, meta' = meta
  PROVE  Harmless(t)
BY DEF Harmless

\* What a step stores unless the task succeeds
OtherStatus == Status \ {"succeeded"}

LEMMA Others == {"queued", "running", "canceled"} \subseteq OtherStatus
BY DEF OtherStatus, Status, Terminal

LEMMA StoreHarmless ==
  ASSUME Typed, NEW t \in Tasks, cancelKey' = cancelKey, job' = job,
         NEW u, NEW status \in OtherStatus, Store(u, status)
  PROVE  Harmless(t)
BY DEF Typed, TypeOK, Store, Harmless, OtherStatus

LEMMA BackendHarmless ==
  ASSUME Typed, NEW t \in Tasks, NEW u \in Tasks,
         \/ Submit(u) \/ Enqueue(u) \/ SubmitFails(u) \/ Cancel(u)
         \/ LeaseExpires(u) \/ OwnerStalls(u) \/ DeadlinePasses(u)
  PROVE  Harmless(t)
<1>1. CASE Submit(u)
  <2>1. cancelKey' = cancelKey /\ job' = job /\ Store(u, "queued")
    BY <1>1 DEF Submit, workerVars
  <2> QED
    BY <2>1, StoreHarmless, Others
<1>2. CASE ~ Submit(u)
  <2>1. cancelKey \subseteq cancelKey' /\ job' = job /\ meta' = meta
    BY <1>2 DEF Enqueue, SubmitFails, Cancel, LeaseExpires, OwnerStalls, DeadlinePasses,
       redisVars, workerVars
  <2> QED
    BY <2>1, KeptHarmless
<1> QED
  BY <1>1, <1>2

LEMMA LoopHarmless ==
  ASSUME Typed, NEW t \in Tasks, NEW w \in Workers, LoopStep(w)
  PROVE  Harmless(t)
<1>1. CASE Spawn(w)
  <2>1. PICK r \in SlotsOf(w) : job' = [job EXCEPT ![r] = At("start", loop[w].task)]
    BY <1>1 DEF Spawn
  <2>2. \A s \in Slots : job'[s] = job[s] \/ job'[s].pc \in Unbegun
    BY <2>1 DEF Typed, TypeOK, At, Unbegun
  <2>3. cancelKey' = cancelKey /\ meta' = meta
    BY <1>1 DEF Spawn, loopFrame
  <2> QED
    BY <2>2, <2>3 DEF Harmless
<1>2. CASE StoreRunning(w)
  <2>1. cancelKey' = cancelKey /\ job' = job /\ Store(loop[w].task, "running")
    BY <1>2 DEF StoreRunning, loopFrame
  <2> QED
    BY <2>1, StoreHarmless, Others
<1>3. CASE Pop(w) \/ LoadClaimed(w) \/ CheckLease(w) \/ TakeLease(w) \/ MainExits(w)
  <2>1. cancelKey' = cancelKey /\ job' = job /\ meta' = meta
    BY <1>3 DEF Pop, LoadClaimed, CheckLease, TakeLease, MainExits, loopFrame, redisVars
  <2> QED
    BY <2>1, KeptHarmless
<1> QED
  BY <1>1, <1>2, <1>3 DEF LoopStep

LEMMA ReclaimHarmless ==
  ASSUME Typed, NEW t \in Tasks, NEW w \in Workers, ReclaimStep(w)
  PROVE  Harmless(t)
<1>1. cancelKey' = cancelKey /\ job' = job
  <2>1. UNCHANGED recFrame
    BY Zenon DEF ReclaimStep, Scan, NextExpired, ExtendOwned, LoadExpired, CheckCancel,
       StoreReclaimCanceled, DropExpired, StoreQueued, Unlist, Requeue
  <2> QED
    BY <2>1 DEF recFrame
<1>2. CASE StoreReclaimCanceled(w)
  <2>1. Store(rec[w].task, "canceled")
    BY <1>2 DEF StoreReclaimCanceled
  <2> QED
    BY <1>1, <2>1, StoreHarmless, Others
<1>3. CASE StoreQueued(w)
  <2>1. Store(rec[w].task, "queued")
    BY <1>3 DEF StoreQueued
  <2> QED
    BY <1>1, <2>1, StoreHarmless, Others
<1>4. CASE ~ StoreReclaimCanceled(w) /\ ~ StoreQueued(w)
  <2>1. meta' = meta
    BY <1>4 DEF ReclaimStep, Scan, NextExpired, ExtendOwned, LoadExpired, CheckCancel,
       DropExpired, Unlist, Requeue
  <2> QED
    BY <1>1, <2>1, KeptHarmless
<1> QED
  BY <1>2, <1>3, <1>4

LEMMA BeatHarmless ==
  ASSUME Typed, NEW t \in Tasks, NEW s \in Slots, BeatStep(s) \/ BeatRaises(s)
  PROVE  Harmless(t)
<1>1. cancelKey' = cancelKey /\ job' = job
  BY DEF BeatStep, Wake, Renew, StoreBeat, ExtendIndex, BeatRaises, hbFrame, redisVars
<1>2. CASE StoreBeat(s)
  <2>1. Store(job[s].task, "running")
    BY <1>2 DEF StoreBeat
  <2> QED
    BY <1>1, <2>1, StoreHarmless, Others
<1>3. CASE ~ StoreBeat(s)
  <2>1. meta' = meta
    BY <1>3 DEF BeatStep, Wake, Renew, ExtendIndex, BeatRaises, redisVars
  <2> QED
    BY <1>1, <2>1, KeptHarmless
<1> QED
  BY <1>2, <1>3

LEMMA ProcessHarmless ==
  ASSUME Typed, NEW t \in Tasks, NEW w \in Workers,
         StartWorker(w) \/ Crash(w) \/ MainRaises(w) \/ ReclaimRaises(w)
  PROVE  Harmless(t)
<1>1. cancelKey' = cancelKey /\ meta' = meta
  BY DEF StartWorker, Crash, MainRaises, ReclaimRaises, redisVars
<1>2. CASE Crash(w)
  <2>1. \A s \in Slots : job'[s] = job[s] \/ job'[s].pc \in Unbegun
    BY <1>2 DEF Crash, Free, At, Unbegun
  <2> QED
    BY <1>1, <2>1 DEF Harmless
<1>3. CASE ~ Crash(w)
  <2>1. job' = job
    BY <1>3 DEF StartWorker, MainRaises, ReclaimRaises
  <2> QED
    BY <1>1, <2>1, KeptHarmless
<1> QED
  BY <1>2, <1>3

LEMMA DoomedStays ==
  ASSUME Typed, NEW t \in Tasks, Doomed(t), [Next]_vars
  PROVE  Doomed(t)'
<1>1. CASE UNCHANGED vars
  BY <1>1 DEF Doomed, Stopped, Undisturbed, vars, redisVars, workerVars
<1>2. CASE Next
  <2>1. ~ Undisturbed(t) => ~ Undisturbed(t)'
    BY <1>2, LapseStays
  <2>2. Stopped(t) => Stopped(t)'
    BY <1>2, StoppedJob, HarmlessStops, BackendHarmless, LoopHarmless, ReclaimHarmless,
       BeatHarmless, ProcessHarmless
       DEF Next
  <2> QED
    BY <2>1, <2>2 DEF Doomed
<1> QED
  BY <1>1, <1>2

\* A task whose flag is set while it is queued never succeeds, unless its lease
\* lapses: the runs that are still to come, after any number of crashes and
\* reclaims, all stop at their first check.
THEOREM NeverSucceeds == ASSUME MaxLive = 1 PROVE Spec => CanceledInQueue
<1>1. ASSUME NEW t \in Tasks
      PROVE  Spec => [](Flagged(t) => []Refused(t))
  <2>1. Sound => Typed /\ (Flagged(t) => Doomed(t))
    BY DoomedInQueue DEF Sound
  <2>2. Typed /\ Doomed(t) /\ [Next]_vars => Doomed(t)'
    BY DoomedStays
  <2>3. Doomed(t) => Refused(t)
    BY DEF Doomed, Refused, Stopped
  <2>4. Spec => []Sound
    BY AlwaysSound
  <2> QED
    BY <2>1, <2>2, <2>3, <2>4, PTL DEF Spec
<1> QED
  BY <1>1 DEF CanceledInQueue, Flagged, Refused

----------------------------------------------------------------------------
(* SuggestQueue implements SuggestTask                                     *)

Working == {t \in Tasks : Running(t) # {}}

NoLapse == \A t \in Tasks : Undisturbed(t)

\* The bound leaves no lapse.
LEMMA NoLapseKept ==
  ASSUME MaxLapses = 0, Typed, NoLapse, [Next]_vars
  PROVE  NoLapse'
<1>1. /\ \A t \in Tasks : ~ OwnerStalls(t)
      /\ \A s \in Slots : ~ BeatRaises(s)
  BY DEF Typed, TypeOK, OwnerStalls, BeatRaises
<1>2. CASE UNCHANGED vars
  BY <1>2 DEF vars, NoLapse, Undisturbed
<1>3. CASE Next
  <2>1. \/ mishap' = mishap
        \/ \E ts : Blame(ts, "orphan") \/ Blame(ts, "released") \/ Blame(ts, "reclaim")
        \/ \E w \in Workers : LoseHandsOf(w)
    BY <1>1, <1>3, ZenonT(60) DEF Next, Submit, Enqueue, SubmitFails, Cancel, LeaseExpires, DeadlinePasses,
       StartWorker, Crash, MainRaises, ReclaimRaises, LoopStep, Pop, LoadClaimed, CheckLease,
       TakeLease, StoreRunning, Spawn, MainExits, ReclaimStep, Scan, NextExpired, ExtendOwned,
       LoadExpired, CheckCancel, StoreReclaimCanceled, DropExpired, StoreQueued, Unlist, Requeue,
       JobStep, Start, StoreAborted, CheckInput, Draft, Stream, SendChunks, StoreSucceeded,
       StoreResult, Report, StoreCanceled, StoreFailed, StopHeartbeat, CheckOwner, DeleteLease,
       Unindex, JobRaises, PipelineRaises, PipelineRaisesRuntimeError, BeatStep, Wake, Renew,
       StoreBeat, ExtendIndex, loopFrame, jobFrame, hbFrame, recFrame
  <2> QED
    BY <2>1 DEF NoLapse, Blame, LoseHandsOf, Undisturbed
<1> QED
  BY <1>2, <1>3

\* Who works, and on what.
LEMMA SameWorking ==
  ASSUME job' = job
  PROVE  Working' = Working
  BY DEF Working, Running

\* The abstract task sees nothing of it.
Silent == UNCHANGED <<meta, Working, cancelKey, result>>

LEMMA SilentStutters ==
  ASSUME Silent
  PROVE  UNCHANGED Task!vars
  BY DEF Silent, Working, Task!vars

LEMMA BackendRefines ==
  ASSUME Typed, NEW t \in Tasks,
         Submit(t) \/ Enqueue(t) \/ SubmitFails(t) \/ Cancel(t) \/ LeaseExpires(t)
           \/ OwnerStalls(t) \/ DeadlinePasses(t)
  PROVE  [Task!Next]_(Task!vars)
<1> USE DEF redisVars, workerVars
<1>1. Working' = Working
  BY SameWorking DEF Submit, Enqueue, SubmitFails, Cancel, LeaseExpires, OwnerStalls, DeadlinePasses
<1>2. CASE Submit(t)
  <2>1. Task!Accept(t)
    BY <1>1, <1>2 DEF Submit, Store, Working, Task!Accept, Task!Becomes
  <2> QED
    BY <2>1 DEF Task!Next
<1>3. CASE Cancel(t)
  <2>1. Task!Ask(t)
    BY <1>1, <1>3 DEF Cancel, Working, Task!Ask
  <2> QED
    BY <2>1 DEF Task!Next
<1>4. CASE Enqueue(t) \/ SubmitFails(t) \/ LeaseExpires(t) \/ OwnerStalls(t) \/ DeadlinePasses(t)
  <2>1. Silent
    BY <1>1, <1>4 DEF Silent, Enqueue, SubmitFails, LeaseExpires, OwnerStalls, DeadlinePasses
  <2> QED
    BY <2>1, SilentStutters
<1> QED
  BY <1>2, <1>3, <1>4

\* A claim is the claim of a queued task nobody works on, a spawn its beginning.
LEMMA LoopRefines ==
  ASSUME Sound, NoLapse, NEW w \in Workers, LoopStep(w) \/ StartWorker(w) \/ MainRaises(w)
  PROVE  [Task!Next]_(Task!vars)
<1> USE DEF redisVars, workerVars, loopFrame, ClaimPcs
<1>0. Typed
  BY DEF Sound
<1>1. CASE Pop(w) \/ LoadClaimed(w) \/ CheckLease(w) \/ TakeLease(w) \/ MainExits(w)
             \/ StartWorker(w) \/ MainRaises(w)
  <2>1. Silent
    BY <1>1, SameWorking DEF Silent, Pop, LoadClaimed, CheckLease, TakeLease, MainExits,
       StartWorker, MainRaises
  <2> QED
    BY <2>1, SilentStutters
<1>2. ASSUME loop[w].pc \in {"leased", "stored"}
      PROVE  /\ loop[w].task \in Tasks
             /\ meta[loop[w].task] = IF loop[w].pc = "leased" THEN "queued" ELSE "running"
             /\ Running(loop[w].task) = {}
  <2>1. loop[w].task \in Tasks
    BY <1>0, <1>2 DEF Typed, HandsOK
  <2>2. PICK p \in Places : Located(p, loop[w].task)
    BY <2>1 DEF Sound, NoLapse
  <2>3. p = loop[w].pc /\ Holds(p, loop[w].task)
    BY <1>2, <2>1, <2>2, OnePlace DEF InLoop
  <2> QED
    BY <1>2, <2>1, <2>2, <2>3, OnePlace DEF Holds, Running
<1>3. CASE StoreRunning(w)
  <2>1. Task!Claim(loop[w].task) /\ loop[w].task \in Tasks
    BY <1>2, <1>3, SameWorking DEF StoreRunning, Store, Working, Task!Claim, Task!Becomes
  <2> QED
    BY <2>1 DEF Task!Next
<1>4. CASE Spawn(w)
  <2>1. PICK s \in Slots : job[s].pc = "free" /\ job' = [job EXCEPT ![s] = At("start", loop[w].task)]
    BY <1>4 DEF Spawn, SlotsOf
  <2>2. job'[s] = At("start", loop[w].task) /\ \A r \in Slots : r # s => job'[r] = job[r]
    BY <1>0, <2>1 DEF Typed, TypeOK
  <2>3. Working' = Working \union {loop[w].task}
    BY <1>2, <1>4, <2>1, <2>2 DEF Spawn, Working, Running, At
  <2>4. Task!Begin(loop[w].task) /\ loop[w].task \in Tasks
    BY <1>2, <1>4, <2>3 DEF Spawn, Working, Task!Begin
  <2> QED
    BY <2>4 DEF Task!Next
<1> QED
  BY <1>1, <1>3, <1>4 DEF LoopStep

\* A reclaim loop cancels or gives back what nobody works on.
LEMMA ReclaimRefines ==
  ASSUME Sound, NoLapse, NEW w \in Workers, ReclaimStep(w) \/ ReclaimRaises(w)
  PROVE  [Task!Next]_(Task!vars)
<1> USE DEF redisVars, workerVars, recFrame, Takings
<1>0. Typed
  BY DEF Sound
<1>1. Working' = Working
  BY SameWorking DEF ReclaimStep, ReclaimRaises, Scan, NextExpired, ExtendOwned, LoadExpired,
     CheckCancel, StoreReclaimCanceled, DropExpired, StoreQueued, Unlist, Requeue
<1>2. ASSUME rec[w].pc \in {"cancel", "requeue"}
      PROVE  /\ rec[w].task \in Tasks /\ meta[rec[w].task] = "running"
             /\ rec[w].pc = "cancel" => rec[w].task \in cancelKey
             /\ Running(rec[w].task) = {}
  <2>1. rec[w].task \in Tasks
    BY <1>0, <1>2 DEF Typed, HandsOK, Handling
  <2>2. PICK p \in Places : Located(p, rec[w].task)
    BY <2>1 DEF Sound, NoLapse
  <2>3. p = rec[w].pc /\ Holds(p, rec[w].task)
    BY <1>2, <2>1, <2>2, OnePlace
  <2> QED
    BY <1>2, <2>1, <2>2, <2>3, OnePlace DEF Holds, Running
<1>3. CASE StoreReclaimCanceled(w)
  <2>1. Task!Finish(rec[w].task, "canceled") /\ rec[w].task \in Tasks
    BY <1>1, <1>2, <1>3 DEF StoreReclaimCanceled, Store, Working, Task!Finish, Task!Becomes
  <2> QED
    BY <2>1 DEF Task!Next, Task!Outcomes
<1>4. CASE StoreQueued(w)
  <2>1. Task!GiveBack(rec[w].task) /\ rec[w].task \in Tasks
    BY <1>1, <1>2, <1>4 DEF StoreQueued, Store, Working, Task!GiveBack, Task!Becomes
  <2> QED
    BY <2>1 DEF Task!Next
<1>5. CASE ~ StoreReclaimCanceled(w) /\ ~ StoreQueued(w)
  <2>1. Silent
    BY <1>1, <1>5 DEF Silent, ReclaimStep, ReclaimRaises, Scan, NextExpired, ExtendOwned,
       LoadExpired, CheckCancel, DropExpired, Unlist, Requeue
  <2> QED
    BY <2>1, SilentStutters
<1> QED
  BY <1>3, <1>4, <1>5

\* A job gives its task an outcome and a draft while it works on it, and leaves.
LEMMA JobRefines ==
  ASSUME Sound, NoLapse, NEW s \in Slots,
         JobStep(s) \/ JobRaises(s) \/ PipelineRaises(s) \/ PipelineRaisesRuntimeError(s)
  PROVE  [Task!Next]_(Task!vars)
<1> USE DEF redisVars, jobFrame
<1>0. Typed
  BY DEF Sound
<1>1. PICK t \in Tasks : t = job[s].task
  BY <1>0, JobKeeps DEF Typed, HandsOK
<1>2. PICK p \in Places : Located(p, t)
  BY DEF Sound, NoLapse
<1>3. /\ job[s].pc # "free" /\ Job(s, t) /\ p = "job" /\ Holds(p, t) /\ InJob(p, t)
      /\ \A r \in Slots : r # s => job'[r] = job[r]
      /\ job'[s] = Free \/ (job'[s].task = t /\ job'[s].pc # "free")
      /\ UNCHANGED cancelKey
  BY <1>0, <1>1, <1>2, JobKeeps, OnePlace DEF Located
<1>4. t \in Working
  BY <1>1, <1>3 DEF Working, Running
<1>5. \A pc \in JobPc \ {"free"} : GoJob(s, pc) => Working' = Working
  <2>1. ASSUME NEW pc \in JobPc \ {"free"}, GoJob(s, pc)
        PROVE  \A r \in Slots, u \in Tasks :
                  (job'[r].pc # "free" /\ job'[r].task = u) <=> (job[r].pc # "free" /\ job[r].task = u)
    BY <1>0, <1>3, <2>1, GoesOn
  <2> QED
    BY <2>1 DEF Working, Running
<1>6. CASE Unindex(s) \/ (JobRaises(s) /\ job'[s] = Free)
  <2>1. job'[s] = Free /\ UNCHANGED <<meta, result>>
    BY <1>0, <1>6 DEF Unindex, JobRaises, Typed, TypeOK
  <2>2. Working' = Working \ {t}
    <3>1. \A r \in Slots : r # s => job[r].pc = "free" \/ job[r].task # t
      BY <1>1, <1>3 DEF InJob
    <3>2. \A u \in Tasks \ {t} : Running(u)' = Running(u)
      BY <1>1, <1>3, <2>1 DEF Running, Free, At
    <3>3. Running(t)' = {}
      BY <1>3, <2>1, <3>1 DEF Running, Free, At
    <3> QED
      BY <3>2, <3>3 DEF Working
  <2>3. Task!Leave({t})
    BY <1>3, <2>1, <2>2 DEF Working, Task!Leave
  <2> QED
    BY <2>3 DEF Task!Next
<1>7. CASE Start(s) \/ CheckInput(s) \/ Draft(s) \/ Stream(s) \/ SendChunks(s) \/ Report(s)
             \/ StopHeartbeat(s) \/ CheckOwner(s) \/ DeleteLease(s) \/ PipelineRaises(s)
             \/ PipelineRaisesRuntimeError(s) \/ (JobRaises(s) /\ job'[s] # Free)
  <2>1. UNCHANGED <<meta, result, cancelKey>>
    BY <1>3, <1>7 DEF Start, CheckInput, Draft, Stream, SendChunks, Report, StopHeartbeat,
       CheckOwner, DeleteLease, PipelineRaises, PipelineRaisesRuntimeError, JobRaises
  <2>2. \E pc \in JobPc \ {"free"} : GoJob(s, pc)
    <3>1. CASE Start(s)
      BY <3>1 DEF Start, JobPc
    <3>2. CASE CheckInput(s)
      BY <3>2 DEF CheckInput, JobPc
    <3>3. CASE Draft(s) \/ Stream(s)
      BY <3>3 DEF Draft, Stream, JobPc
    <3>4. CASE SendChunks(s) \/ Report(s)
      BY <3>4 DEF SendChunks, Report, JobPc
    <3>5. CASE StopHeartbeat(s)
      BY <1>3, <3>5 DEF StopHeartbeat, Job, JobPc
    <3>6. CASE CheckOwner(s)
      BY <3>6 DEF CheckOwner, JobPc
    <3>7. CASE DeleteLease(s) \/ PipelineRaises(s) \/ PipelineRaisesRuntimeError(s)
      BY <3>7 DEF DeleteLease, PipelineRaises, PipelineRaisesRuntimeError, JobPc
    <3>8. CASE JobRaises(s) /\ job'[s] # Free
      <4>1. job' # [job EXCEPT ![s] = Free]
        BY <1>0, <3>8 DEF Typed, TypeOK
      <4> QED
        BY <3>8, <4>1 DEF JobRaises, JobPc
    <3> QED
      BY <1>7, <3>1, <3>2, <3>3, <3>4, <3>5, <3>6, <3>7, <3>8
  <2> QED
    BY <1>5, <2>1, <2>2, SilentStutters DEF Silent
<1>8. CASE StoreAborted(s) \/ StoreCanceled(s)
  <2>1. meta[t] = "running" /\ t \in cancelKey
    BY <1>3, <1>8 DEF StoreAborted, StoreCanceled, Job, Unended
  <2>2. Working' = Working
    BY <1>5, <1>8 DEF StoreAborted, StoreCanceled, JobPc
  <2>3. Task!Finish(t, "canceled")
    BY <1>1, <1>3, <1>8, <2>1, <2>2 DEF StoreAborted, StoreCanceled, Store, Working,
       Task!Finish, Task!Becomes
  <2> QED
    BY <2>3 DEF Task!Next, Task!Outcomes
<1>9. CASE StoreSucceeded(s)
  <2>1. meta[t] = "running" /\ Working' = Working
    BY <1>3, <1>5, <1>9 DEF StoreSucceeded, Job, Unended, JobPc
  <2>2. Task!Finish(t, "succeeded")
    BY <1>1, <1>3, <1>4, <1>9, <2>1 DEF StoreSucceeded, Store, Working, Task!Finish, Task!Becomes
  <2> QED
    BY <2>2 DEF Task!Next, Task!Outcomes
<1>10. CASE StoreResult(s)
  <2>1. meta[t] \in {"running", "succeeded"} /\ Working' = Working
    BY <1>3, <1>5, <1>10 DEF StoreResult, Job, JobPc
  <2>2. Task!Answer(t)
    BY <1>1, <1>3, <1>4, <1>10, <2>1 DEF StoreResult, Working, Task!Answer
  <2> QED
    BY <2>2 DEF Task!Next
<1>11. CASE StoreFailed(s)
  <2>1. meta[t] \in {"running", "succeeded"} /\ Working' = Working
    BY <1>3, <1>5, <1>11 DEF StoreFailed, Job, JobPc
  <2>2. Task!Finish(t, "failed") \/ Task!Revoke(t)
    BY <1>1, <1>3, <1>4, <1>11, <2>1 DEF StoreFailed, Store, Working, Task!Finish, Task!Revoke,
       Task!Becomes
  <2> QED
    BY <2>2 DEF Task!Next, Task!Outcomes
<1> QED
  BY <1>6, <1>7, <1>8, <1>9, <1>10, <1>11 DEF JobStep

\* A heartbeat that stores a record back after the outcome has revoked it.
LEMMA BeatRefines ==
  ASSUME MaxLapses = 0, Sound, NoLapse, NEW s \in Slots, BeatStep(s) \/ BeatRaises(s)
  PROVE  [Task!Next]_(Task!vars)
<1> USE DEF hbFrame
<1>0. Typed
  BY DEF Sound
<1>1. /\ job[s].pc # "free" /\ ~ BeatRaises(s)
      /\ Working' = Working /\ UNCHANGED <<cancelKey, result>>
  BY <1>0, SameWorking DEF BeatStep, Wake, Renew, StoreBeat, ExtendIndex, BeatRaises, Sound,
     Processes, Typed, TypeOK
<1>2. CASE ~ StoreBeat(s)
  <2>1. Silent
    BY <1>1, <1>2 DEF Silent, BeatStep, Wake, Renew, ExtendIndex
  <2> QED
    BY <2>1, SilentStutters
<1>3. CASE StoreBeat(s)
  <2>1. PICK t \in Tasks : t = job[s].task
    BY <1>0, <1>1 DEF Typed, HandsOK
  <2>2. PICK p \in Places : Located(p, t)
    BY DEF Sound, NoLapse
  <2>3. t \in Working /\ p = "job" /\ Holds(p, t)
    BY <1>1, <2>1, <2>2, OnePlace DEF Working, Running
  <2>4. meta' = [meta EXCEPT ![t] = "running"] /\ meta[t] \in {"running"} \union Terminal
    BY <1>3, <2>1, <2>3 DEF StoreBeat, Store, Holds
  <2>5. CASE meta[t] = "running"
    <3>1. Silent
      BY <1>0, <1>1, <2>4, <2>5 DEF Silent, Typed, TypeOK
    <3> QED
      BY <3>1, SilentStutters
  <2>6. CASE meta[t] \in Terminal
    <3>1. Task!Revoke(t)
      BY <1>1, <2>3, <2>4, <2>6 DEF Working, Task!Revoke, Task!Becomes, Task!Outcomes, Terminal
    <3> QED
      BY <3>1 DEF Task!Next
  <2> QED
    BY <2>4, <2>5, <2>6
<1> QED
  BY <1>2, <1>3

\* A process that dies leaves all it was at.
LEMMA CrashRefines ==
  ASSUME NEW w \in Workers, Crash(w)
  PROVE  [Task!Next]_(Task!vars)
<1> DEFINE gone == Working \ Working'
<1>1. UNCHANGED <<meta, cancelKey, result>>
  BY DEF Crash, redisVars
<1>2. \A t \in Tasks : Running(t)' \subseteq Running(t)
  BY DEF Crash, Running, Free, At
<1>3. Working' \subseteq Working /\ Working' \subseteq Tasks /\ Working \subseteq Tasks
  BY <1>2 DEF Working
<1>4. Working' = Working \ gone /\ gone \in SUBSET Tasks
  BY <1>3
<1>5. Task!Leave(gone)
  BY <1>1, <1>4 DEF Working, Task!Leave
<1> QED
  BY <1>4, <1>5 DEF Task!Next

LEMMA StepRefines ==
  ASSUME MaxLapses = 0, Sound, NoLapse, [Next]_vars
  PROVE  [Task!Next]_(Task!vars)
<1>1. CASE UNCHANGED vars
  <2>1. Silent
    BY <1>1, SameWorking DEF Silent, vars, redisVars, workerVars
  <2> QED
    BY <2>1, SilentStutters
<1>2. CASE Next
  <2>1. Typed
    BY DEF Sound
  <2>2. ASSUME NEW t \in Tasks,
               Submit(t) \/ Enqueue(t) \/ SubmitFails(t) \/ Cancel(t) \/ LeaseExpires(t)
                 \/ OwnerStalls(t) \/ DeadlinePasses(t)
        PROVE  [Task!Next]_(Task!vars)
    BY <2>1, <2>2, BackendRefines
  <2>3. ASSUME NEW w \in Workers,
               \/ StartWorker(w) \/ Crash(w) \/ MainRaises(w)
               \/ ReclaimRaises(w) \/ LoopStep(w) \/ ReclaimStep(w)
        PROVE  [Task!Next]_(Task!vars)
    BY <2>3, LoopRefines, CrashRefines, ReclaimRefines
  <2>4. ASSUME NEW s \in Slots,
               \/ JobStep(s) \/ BeatStep(s) \/ BeatRaises(s) \/ JobRaises(s)
               \/ PipelineRaises(s) \/ PipelineRaisesRuntimeError(s)
        PROVE  [Task!Next]_(Task!vars)
    BY <2>4, JobRefines, BeatRefines
  <2> QED
    BY <1>2, <2>2, <2>3, <2>4 DEF Next
<1> QED
  BY <1>1, <1>2

LEMMA InitRefines == Init => Task!Init
  BY DEF Init, Task!Init, Running, Free, At

\* A poll of the task, whatever queues, leases, heartbeats and crashes there are,
\* sees what SuggestTask allows: no outcome from somebody who is not at work on
\* the task, no task claimed or given back while somebody is, no draft after a
\* failure.
THEOREM Implements ==
  ASSUME MaxLive = 1, MaxLapses = 0
  PROVE  Spec => ImplementsSuggestTask
<1>1. Init => NoLapse
  BY DEF Init, NoLapse, Undisturbed
<1>2. Sound /\ NoLapse /\ [Next]_vars => NoLapse'
  BY NoLapseKept DEF Sound
<1>3. Spec => []NoLapse
  BY <1>1, <1>2, AlwaysSound, PTL DEF Spec
<1>4. Sound /\ NoLapse /\ [Next]_vars => [Task!Next]_(Task!vars)
  BY StepRefines
<1> QED
  BY <1>3, <1>4, InitRefines, AlwaysSound, PTL DEF Spec, ImplementsSuggestTask, Task!Spec
=============================================================================
