------------------------ MODULE SuggestPipelineProofs ------------------------
(***************************************************************************)
(* Theorems about SuggestPipeline, for any number of tasks of the          *)
(* conversation and any number of faults: what is stored was moderated,    *)
(* a summary speaks of the text that is stored, a safe mode does without   *)
(* the model, an operator sees what is stored, and a success without a     *)
(* draft is met in two steps of the worker only.                           *)
(*                                                                         *)
(* Tasks share the state of the conversation and the bound on faults, and  *)
(* nothing else: the invariant is one of each task, and a step of a task   *)
(* leaves it alone for every other.                                        *)
(***************************************************************************)
EXTENDS SuggestPipeline, TLAPS

----------------------------------------------------------------------------
(* The invariant                                                           *)

\* What no audited text is.
Unmoderated == {"bad_draft", "bad_stream", "template"}

\* A record is 'running' from the claim to the success, whose event follows it, or
\* to the handler of what ended the run.
RecordFits(t) ==
    /\ task[t].pc = "waiting" <=> meta[t] = "queued"
    /\ task[t].pc \in {"tell", "result", "report"} => meta[t] = "succeeded"
    /\ task[t].pc \notin {"waiting", "tell", "result", "report"} \union (Ended \ {"canceling"}) =>
         meta[t] = "running"
    /\ task[t].pc = "failing" => meta[t] \in {"running", "succeeded"}
    /\ task[t].pc = "untold" => meta[t] \in {"failed", "canceled"}

\* A text is moderated when it is made and again when a stream replaces it; until
\* then its verdict is of the draft.
TextFits(t) ==
    /\ task[t].pc = "streaming" => task[t].delta # None
    /\ task[t].pc \notin Preparing \union {"audit"} \union Ended =>
         t \in unaudited \/ task[t].text \notin Unmoderated
    /\ task[t].pc \notin Preparing \union {"audit"} \union Ended /\ task[t].verdict = "ok" =>
         t \in unaudited \/ ~ Flagged(task[t].text)
    /\ task[t].pc \in {"state"} \union Storing /\ task[t].blocks => ~ Claims(task[t].text)
    /\ task[t].pc \in {"state"} \union Storing /\ task[t].summary = "ok" =>
         task[t].verdict = "ok" /\ task[t].mode = "ok" /\ ~ task[t].found

\* A run begins without an analysis; a safe mode never streams, and of the model it
\* has what it found or took over.
ModeFits(t) ==
    /\ task[t].pc \in {"waiting", "claimed"} \union Ended => task[t].analysis = "stub"
    /\ task[t].mode # "ok" =>
         /\ task[t].pc \notin {"stream", "streaming", "audit"}
         /\ ~ task[t].cached => /\ task[t].analysis = "stub" \/ task[t].prev = "llm"
                                /\ task[t].text \notin ByModel

\* Who succeeded has stored a draft, is about to, or stopped there; it may expire.
DraftFits(t) ==
    /\ result[t] \in Unmoderated => t \in unaudited
    /\ t \in poll \/ meta[t] = "succeeded" =>
         result[t] # None \/ task[t].pc \in {"tell", "result"} \/ t \in lost \/ t \in expired
    /\ task[t].pc = "report" => result[t] = task[t].text \/ t \in expired

\* The event 'result' brings every stream the text that is stored after it.
StreamFits(t) ==
    /\ stream[t].pc # "on" => stream[t].shown = None
    /\ stream[t].pc = "on" /\ t \notin silent /\ meta[t] \in Terminal /\ ~ Untold(t) =>
         stream[t].heard = meta[t]
    /\ task[t].pc \in {"commit", "tell", "result", "report"} =>
         stream[t].shown \in {None, task[t].text}
    /\ task[t].pc \in Ended /\ meta[t] = "succeeded" /\ t \notin lost /\ t \notin expired =>
         stream[t].shown \in {None, result[t]}

Fits(t) == /\ RecordFits(t) /\ TextFits(t) /\ ModeFits(t) /\ DraftFits(t) /\ StreamFits(t)

Sound == /\ TypeOK
         /\ state.draft \in Unmoderated => unaudited # {}
         /\ \A t \in Tasks : Fits(t)

----------------------------------------------------------------------------
(* Types                                                                   *)

Run == [pc : Pcs, mode : Modes, prev : Makers, analysis : Makers, cached : BOOLEAN,
        found : BOOLEAN, text : Texts \union {None}, delta : Streams \union {None},
        streamed : BOOLEAN, blocks : BOOLEAN, verdict : {"ok", "block"}, summary : Modes]

Viewer == [pc : {"idle", "read", "on"}, shown : Texts \union {None},
           heard : Status \union {None}]

Kept == [draft : Texts \union {None}, analysis : Makers]

LEMMA Shapes ==
  ASSUME NEW r \in Run, NEW pc \in Pcs
  PROVE  /\ [r EXCEPT !.pc = pc] \in Run
         /\ \A found \in BOOLEAN : [r EXCEPT !.pc = pc, !.found = found] \in Run
         /\ \A delta \in Streams \union {None} : [r EXCEPT !.pc = pc, !.delta = delta] \in Run
         /\ \A text \in Texts \union {None} : [r EXCEPT !.pc = pc, !.text = text] \in Run
         /\ \A prev \in Makers : [r EXCEPT !.pc = pc, !.prev = prev] \in Run
         /\ \A text \in Texts \union {None}, verdict \in {"ok", "block"} :
              [r EXCEPT !.pc = pc, !.text = text, !.verdict = verdict] \in Run
         /\ \A text \in Texts \union {None}, verdict \in {"ok", "block"} :
              [r EXCEPT !.pc = pc, !.streamed = TRUE, !.text = text, !.verdict = verdict] \in Run
         /\ \A text \in Texts \union {None}, verdict \in {"ok", "block"}, blocks, cached \in BOOLEAN :
              [r EXCEPT !.pc = pc, !.text = text, !.verdict = verdict, !.blocks = blocks,
                        !.cached = cached] \in Run
         /\ \A made \in Makers, cached \in BOOLEAN :
              [r EXCEPT !.pc = pc, !.cached = cached, !.analysis = made] \in Run
         /\ \A text \in Texts \union {None}, sum \in Modes :
              [r EXCEPT !.pc = pc, !.text = text, !.summary = sum, !.delta = None] \in Run
  BY ZenonT(40) DEF Run

LEMMA NewShape ==
  ASSUME NEW mode \in Modes, NEW pc \in Pcs
  PROVE  /\ [New EXCEPT !.pc = pc, !.mode = mode] \in Run
         /\ [New EXCEPT !.mode = mode] \in Run
  BY DEF Run, New, Modes, Makers, Pcs, Preparing, Ended

LEMMA Landed ==
  ASSUME task \in [Tasks -> Run], NEW t \in Tasks, NEW q \in Run, task' = [task EXCEPT ![t] = q]
  PROVE  task' \in [Tasks -> Run] /\ task'[t] = q /\ \A u \in Tasks \ {t} : task'[u] = task[u]
  OBVIOUS

LEMMA ShowLands ==
  ASSUME stream \in [Tasks -> Viewer], NEW t \in Tasks, NEW text \in Texts, Show(t, text)
  PROVE  /\ stream' \in [Tasks -> Viewer]
         /\ stream'[t].pc = stream[t].pc /\ stream'[t].heard = stream[t].heard
         /\ stream'[t].shown = IF stream[t].pc = "on" THEN text ELSE stream[t].shown
         /\ \A u \in Tasks \ {t} : stream'[u] = stream[u]
<1>1. Shown(t, text) \in Viewer
  BY DEF Shown, Viewer
<1> QED
  BY <1>1 DEF Show, Shown, Viewer

LEMMA TellLands ==
  ASSUME stream \in [Tasks -> Viewer], NEW t \in Tasks, NEW status \in Status, Tell(t, status)
  PROVE  /\ stream' \in [Tasks -> Viewer]
         /\ stream'[t].pc = stream[t].pc /\ stream'[t].shown = stream[t].shown
         /\ stream'[t].heard = IF stream[t].pc = "on" THEN status ELSE stream[t].heard
         /\ \A u \in Tasks \ {t} : stream'[u] = stream[u]
<1>1. Heard(t, status) \in Viewer
  BY DEF Heard, Viewer
<1> QED
  BY <1>1 DEF Tell, Heard, Viewer

Types ==
    /\ task \in [Tasks -> Run] /\ stream \in [Tasks -> Viewer]
    /\ \A t \in Tasks : task[t].text = None <=> task[t].pc \in Preparing \union Ended
    /\ meta \in [Tasks -> Status]
    /\ result \in [Tasks -> Texts \union {None}]
    /\ state \in Kept
    /\ cancelKey \subseteq Tasks /\ poll \subseteq Tasks /\ silent \subseteq Tasks
    /\ lost \subseteq Tasks /\ unaudited \subseteq Tasks /\ expired \subseteq Tasks
    /\ faults \in 0 .. MaxFaults

LEMMA Typed == (TypeOK <=> Types) /\ (TypeOK' <=> Types')
  BY DEF TypeOK, Types, Run, Viewer, Kept

----------------------------------------------------------------------------
(* A step of a task                                                        *)

\* What a task has, and what of it a step of another leaves as it is.
Same(u) == /\ UNCHANGED <<task[u], meta[u], result[u], stream[u]>>
           /\ u \in poll' <=> u \in poll
           /\ u \in silent' <=> u \in silent
           /\ u \in lost' <=> u \in lost
           /\ u \in unaudited' <=> u \in unaudited
           /\ u \in expired' <=> u \in expired

LEMMA OthersFit ==
  ASSUME NEW u \in Tasks, Fits(u), Same(u)
  PROVE  Fits(u)'
  BY DEF Fits, RecordFits, TextFits, ModeFits, DraftFits, StreamFits, Same, Untold

Stays(t) == TypeOK' /\ Fits(t)' /\ \A u \in Tasks \ {t} : Same(u)

LEMMA Of ==
  ASSUME TypeOK, NEW t \in Tasks
  PROVE  /\ Types /\ task \in [Tasks -> Run] /\ task[t] \in Run
         /\ stream \in [Tasks -> Viewer] /\ stream[t] \in Viewer
         /\ task[t].text = None <=> task[t].pc \in Preparing \union Ended
  BY Typed DEF Types

\* What a step of t may do to anything but its run.
Bounded(t) ==
    /\ meta' \in [Tasks -> Status] /\ result' \in [Tasks -> Texts \union {None}]
    /\ stream' \in [Tasks -> Viewer] /\ state' \in Kept
    /\ cancelKey' \subseteq Tasks /\ poll' \subseteq Tasks /\ silent' \subseteq Tasks
    /\ lost' \subseteq Tasks /\ unaudited' \subseteq Tasks /\ expired' \subseteq Tasks
    /\ faults' \in 0 .. MaxFaults
    /\ \A u \in Tasks \ {t} :
         /\ UNCHANGED <<meta[u], result[u], stream[u]>>
         /\ u \in poll' <=> u \in poll
         /\ u \in silent' <=> u \in silent
         /\ u \in lost' <=> u \in lost
         /\ u \in unaudited' <=> u \in unaudited
         /\ u \in expired' <=> u \in expired

LEMMA RunMoves ==
  ASSUME TypeOK, NEW t \in Tasks, Bounded(t), NEW q \in Run, task' = [task EXCEPT ![t] = q],
         q.text = None <=> q.pc \in Preparing \union Ended
  PROVE  TypeOK' /\ task'[t] = q /\ \A u \in Tasks \ {t} : Same(u)
<1>1. task' \in [Tasks -> Run] /\ task'[t] = q /\ \A u \in Tasks \ {t} : task'[u] = task[u]
  BY Of, Landed
<1>2. Types'
  BY <1>1, Of DEF Types, Bounded
<1> QED
  BY <1>1, <1>2, Typed DEF Same, Bounded

LEMMA GoMoves ==
  ASSUME TypeOK, NEW t \in Tasks, Bounded(t), NEW pc \in Pcs, Go(t, pc),
         pc \in Preparing \union Ended <=> task[t].pc \in Preparing \union Ended
  PROVE  /\ TypeOK' /\ task'[t] = [task[t] EXCEPT !.pc = pc]
         /\ \A u \in Tasks \ {t} : Same(u)
<1> DEFINE q == [task[t] EXCEPT !.pc = pc]
<1>1. task' = [task EXCEPT ![t] = q] /\ q \in Run
  BY Of, Shapes DEF Go
<1>2. q.text = None <=> q.pc \in Preparing \union Ended
  BY Of DEF Run
<1> QED
  BY <1>1, <1>2, RunMoves

LEMMA LeaveMoves ==
  ASSUME TypeOK, NEW t \in Tasks, Bounded(t), NEW pc \in Ended, Leave(t, pc)
  PROVE  /\ TypeOK' /\ \A u \in Tasks \ {t} : Same(u)
         /\ task'[t].pc = pc /\ task'[t].mode = task[t].mode /\ task'[t].text = None
         /\ task'[t].analysis = "stub" /\ None \notin ByModel
<1> USE DEF Pcs, Preparing, Ended
<1> DEFINE q == [New EXCEPT !.pc = pc, !.mode = task[t].mode]
<1>1. task' = [task EXCEPT ![t] = q]
  BY DEF Leave
<1>2. task[t].mode \in Modes
  BY Of DEF Run
<1>3. q \in Run /\ q.text = None /\ q.pc = pc /\ q.mode = task[t].mode /\ q.analysis = "stub"
  BY <1>2, NewShape DEF New
<1>4. TypeOK' /\ task'[t] = q /\ \A u \in Tasks \ {t} : Same(u)
  BY <1>1, <1>3, RunMoves
<1> QED
  BY <1>3, <1>4, NoneAssumption DEF Texts

LEMMA RunStays ==
  ASSUME TypeOK, NEW t \in Tasks, Bounded(t), task' = task
  PROVE  TypeOK' /\ \A u \in Tasks \ {t} : Same(u)
<1>1. Types'
  BY Of DEF Types, Bounded
<1> QED
  BY <1>1, Typed DEF Same, Bounded

LEMMA Untouched ==
  ASSUME TypeOK, NEW t \in Tasks, UNCHANGED <<redisVars, stream, readers, faults>>
  PROVE  Bounded(t) /\ UNCHANGED <<meta, result, state, stream, poll, silent, lost, unaudited, expired>>
  BY Of DEF Types, Bounded, redisVars, readers

\* A fault is counted within its bound.
LEMMA FaultCounted == TypeOK /\ Fault => faults' \in 0 .. MaxFaults
  BY ConstantsAssumption DEF TypeOK, Fault

LEMMA ShowBounded ==
  ASSUME TypeOK, NEW t \in Tasks, NEW text \in Texts, Show(t, text),
         UNCHANGED <<redisVars, readers, faults>>
  PROVE  Bounded(t) /\ UNCHANGED <<meta, result, state, poll, silent, lost, unaudited, expired>>
  BY Of, ShowLands DEF Types, Bounded, redisVars, readers

LEMMA TellBounded ==
  ASSUME TypeOK, NEW t \in Tasks, NEW status \in Status, Tell(t, status),
         UNCHANGED <<redisVars, readers, faults>>
  PROVE  Bounded(t) /\ UNCHANGED <<meta, result, state, poll, silent, lost, unaudited, expired>>
  BY Of, TellLands DEF Types, Bounded, redisVars, readers

LEMMA ModerateInputStays ==
  ASSUME TypeOK, NEW t \in Tasks, Fits(t), ModerateInput(t)
  PROVE  Stays(t)
<1> USE DEF Pcs, Preparing, Storing, Ended
<1>1. Go(t, "analyze")
  BY DEF ModerateInput
<1>2. Bounded(t) /\ UNCHANGED <<meta, result, state, stream, poll, silent, lost, unaudited, expired>>
  BY Untouched DEF ModerateInput
<1>3. TypeOK' /\ task'[t] = [task[t] EXCEPT !.pc = "analyze"] /\ \A u \in Tasks \ {t} : Same(u)
  BY <1>1, <1>2, GoMoves DEF ModerateInput
<1> QED
  BY <1>2, <1>3, Of DEF Stays, ModerateInput, Run, Fits, RecordFits, TextFits, ModeFits, DraftFits, StreamFits, Untold

LEMMA AnalyzeStays ==
  ASSUME TypeOK, NEW t \in Tasks, Fits(t), Analyze(t)
  PROVE  Stays(t)
<1> USE DEF Pcs, Preparing, Storing, Ended
<1>1. PICK cached \in BOOLEAN, made \in Makers :
        /\ task' = [task EXCEPT ![t].pc = "rag", ![t].cached = cached, ![t].analysis = made]
        /\ task[t].mode # "ok" /\ ~ cached => made = "stub" \/ task[t].prev = "llm"
  BY DEF Analyze, Analysts, Hydrated, Makers
<1> DEFINE q == [task[t] EXCEPT !.pc = "rag", !.cached = cached, !.analysis = made]
<1>2. task' = [task EXCEPT ![t] = q]
  BY <1>1, Of DEF Run
<1>3. q \in Run
  BY Of, Shapes
<1>4. q.text = None <=> q.pc \in Preparing \union Ended
  BY Of DEF Analyze, Run
<1>5. Bounded(t) /\ UNCHANGED <<meta, result, state, stream, poll, silent, lost, unaudited, expired>>
  BY Untouched DEF Analyze
<1>6. TypeOK' /\ task'[t] = q /\ \A u \in Tasks \ {t} : Same(u)
  BY <1>2, <1>3, <1>4, <1>5, RunMoves
<1> QED
  BY <1>1, <1>5, <1>6, Of DEF Stays, Analyze, Run, Fits, RecordFits, TextFits, ModeFits, DraftFits, StreamFits, Untold

LEMMA DraftStays ==
  ASSUME TypeOK, NEW t \in Tasks, Fits(t), Draft(t)
  PROVE  Stays(t)
<1> USE DEF Pcs, Preparing, Storing, Ended
<1>0. /\ KeptDrafts \subseteq {"draft", "claim_draft", "fallback"}
      /\ \A mode : DraftTexts(mode) \subseteq {"draft", "bad_draft", "claim_draft", "template"}
  BY DEF KeptDrafts, DraftTexts, AfterModeration, Flagged
<1>1. PICK cached \in BOOLEAN, blocks \in BOOLEAN :
        \E text \in IF cached THEN KeptDrafts ELSE DraftTexts(task[t].mode) :
          task' = [task EXCEPT
                     ![t].pc = IF task[t].mode = "ok" THEN "stream" ELSE "final",
                     ![t].text = AfterModeration(text), ![t].verdict = OutputMode(text),
                     ![t].blocks = blocks, ![t].cached = task[t].cached \/ cached]
  BY DEF Draft
<1>2. PICK text \in IF cached THEN KeptDrafts ELSE DraftTexts(task[t].mode) :
          task' = [task EXCEPT
                     ![t].pc = IF task[t].mode = "ok" THEN "stream" ELSE "final",
                     ![t].text = AfterModeration(text), ![t].verdict = OutputMode(text),
                     ![t].blocks = blocks, ![t].cached = task[t].cached \/ cached]
  BY <1>1
<1>3. /\ text \in {"draft", "bad_draft", "claim_draft", "template", "fallback"}
      /\ task[t].mode # "ok" /\ ~ cached => text = "template"
  BY <1>0, <1>2 DEF DraftTexts
<1>4. PICK pc \in {"stream", "final"}, final \in Texts \ Unmoderated, verdict \in {"ok", "block"},
           kept \in BOOLEAN :
        /\ task' = [task EXCEPT ![t].pc = pc, ![t].text = final, ![t].verdict = verdict,
                                ![t].blocks = blocks, ![t].cached = kept]
        /\ pc = "stream" <=> task[t].mode = "ok"
        /\ verdict = "ok" => ~ Flagged(final)
        /\ task[t].mode # "ok" /\ ~ kept => final \notin ByModel /\ ~ task[t].cached
  <2>1. /\ AfterModeration(text) \in Texts \ Unmoderated /\ OutputMode(text) \in {"ok", "block"}
        /\ OutputMode(text) = "ok" => ~ Flagged(AfterModeration(text))
        /\ text = "template" => AfterModeration(text) \notin ByModel
        /\ task[t].cached \/ cached \in BOOLEAN
    BY <1>3, Of DEF AfterModeration, OutputMode, Flagged, Texts, ByModel, Streams, Unmoderated, Run
  <2> QED
    BY <1>2, <1>3, <2>1
<1> DEFINE q == [task[t] EXCEPT !.pc = pc, !.text = final, !.verdict = verdict,
                                !.blocks = blocks, !.cached = kept]
<1>5. task' = [task EXCEPT ![t] = q]
  BY <1>4, Of DEF Run
<1>6. q \in Run
  BY <1>4, Of, Shapes, ZenonT(60)
<1>7. q.text # None /\ q.pc \in {"stream", "final"}
  BY <1>4, Of, NoneAssumption DEF Run
<1>8. Bounded(t) /\ UNCHANGED <<meta, result, state, stream, poll, silent, lost, unaudited, expired>>
  BY Untouched DEF Draft
<1>9. TypeOK' /\ task'[t] = q /\ \A u \in Tasks \ {t} : Same(u)
  BY <1>5, <1>6, <1>7, <1>8, RunMoves
<1>10. /\ q.pc = pc /\ q.text = final /\ q.verdict = verdict /\ q.cached = kept
       /\ q.mode = task[t].mode /\ q.analysis = task[t].analysis /\ q.prev = task[t].prev
  BY <1>6, Of DEF Run
<1>11. task[t].pc = "draft"
  BY DEF Draft
<1> HIDE DEF q
<1>12. RecordFits(t)' /\ TextFits(t)'
  BY <1>4, <1>8, <1>9, <1>10, <1>11 DEF Fits, RecordFits, TextFits
<1>13. ModeFits(t)'
  BY <1>4, <1>9, <1>10, <1>11 DEF Fits, ModeFits
<1>14. DraftFits(t)' /\ StreamFits(t)'
  BY <1>4, <1>8, <1>9, <1>10, <1>11 DEF Fits, DraftFits, StreamFits, Untold
<1> QED
  BY <1>9, <1>12, <1>13, <1>14 DEF Stays, Fits

LEMMA SkipRetrievalStays ==
  ASSUME TypeOK, NEW t \in Tasks, Fits(t), SkipRetrieval(t)
  PROVE  Stays(t)
<1> USE DEF Pcs, Preparing, Storing, Ended
<1>1. Go(t, "draft")
  BY DEF SkipRetrieval
<1>2. Bounded(t) /\ UNCHANGED <<meta, result, state, stream, poll, silent, lost, unaudited, expired>>
  BY Untouched DEF SkipRetrieval
<1>3. TypeOK' /\ task'[t] = [task[t] EXCEPT !.pc = "draft"] /\ \A u \in Tasks \ {t} : Same(u)
  BY <1>1, <1>2, GoMoves DEF SkipRetrieval
<1> QED
  BY <1>2, <1>3, Of DEF Stays, SkipRetrieval, Run, Fits, RecordFits, TextFits, ModeFits, DraftFits, StreamFits, Untold

LEMMA StreamNothingStays ==
  ASSUME TypeOK, NEW t \in Tasks, Fits(t), StreamNothing(t)
  PROVE  Stays(t)
<1> USE DEF Pcs, Preparing, Storing, Ended
<1> DEFINE q == [task[t] EXCEPT !.pc = "final", !.delta = None]
<1>1. task' = [task EXCEPT ![t] = q]
  BY Of DEF StreamNothing, Go, Run
<1>2. q \in Run
  BY Of, Shapes
<1>3. q.text = None <=> q.pc \in Preparing \union Ended
  BY Of DEF StreamNothing, Run
<1>4. Bounded(t) /\ UNCHANGED <<meta, result, state, stream, poll, silent, lost, unaudited, expired>>
  BY Untouched DEF StreamNothing
<1>5. TypeOK' /\ task'[t] = q /\ \A u \in Tasks \ {t} : Same(u)
  BY <1>1, <1>2, <1>3, <1>4, RunMoves
<1> QED
  BY <1>4, <1>5, Of DEF Stays, StreamNothing, Run, Fits, RecordFits, TextFits, ModeFits, DraftFits, StreamFits, Untold

LEMMA RetrieveStays ==
  ASSUME TypeOK, NEW t \in Tasks, Fits(t), Retrieve(t)
  PROVE  Stays(t)
<1> USE DEF Pcs, Preparing, Storing, Ended
<1>0. PICK found \in BOOLEAN : task' = [task EXCEPT ![t].pc = "draft", ![t].found = found]
  BY DEF Retrieve
<1> DEFINE q == [task[t] EXCEPT !.pc = "draft", !.found = found]
<1>1. task' = [task EXCEPT ![t] = q]
  BY <1>0, Of DEF Run
<1>2. q \in Run
  BY Of, Shapes
<1>3. q.text = None <=> q.pc \in Preparing \union Ended
  BY Of DEF Retrieve, Run
<1>4. Bounded(t) /\ UNCHANGED <<meta, result, state, stream, poll, silent, lost, unaudited, expired>>
  BY Untouched DEF Retrieve
<1>5. TypeOK' /\ task'[t] = q /\ \A u \in Tasks \ {t} : Same(u)
  BY <1>1, <1>2, <1>3, <1>4, RunMoves
<1> QED
  BY <1>4, <1>5, Of DEF Stays, Retrieve, Run, Fits, RecordFits, TextFits, ModeFits, DraftFits, StreamFits, Untold

LEMMA StreamEndsStays ==
  ASSUME TypeOK, NEW t \in Tasks, Fits(t), StreamEnds(t)
  PROVE  Stays(t)
<1> USE DEF Pcs, Preparing, Storing, Ended
<1>0. PICK text \in Texts : text = Stabilized(t, task[t].delta)
  BY Of DEF StreamEnds, Stabilized, Fits, TextFits, Run, Texts, ByModel
<1> DEFINE q == [task[t] EXCEPT !.pc = "audit", !.text = text]
<1>1. task' = [task EXCEPT ![t] = q]
  BY <1>0, Of DEF StreamEnds, Run
<1>2. q \in Run
  BY Of, Shapes
<1>3. q.text # None /\ q.pc = "audit"
  BY Of, NoneAssumption DEF Run
<1>4. Bounded(t) /\ UNCHANGED <<meta, result, state, stream, poll, silent, lost, unaudited, expired>>
  BY Untouched DEF StreamEnds
<1>5. TypeOK' /\ task'[t] = q /\ \A u \in Tasks \ {t} : Same(u)
  BY <1>1, <1>2, <1>3, <1>4, RunMoves
<1> QED
  BY <1>4, <1>5, Of DEF Stays, StreamEnds, Run, Fits, RecordFits, TextFits, ModeFits, DraftFits, StreamFits, Untold

LEMMA StreamDeltaStays ==
  ASSUME TypeOK, NEW t \in Tasks, Fits(t), StreamDelta(t)
  PROVE  Stays(t)
<1> USE DEF Pcs, Preparing, Storing, Ended
<1>0. PICK delta \in Streams :
        task' = [task EXCEPT ![t].pc = "streaming", ![t].delta = delta] /\ Show(t, delta)
  BY DEF StreamDelta
<1>d. delta \in Texts /\ delta # None
  BY NoneAssumption DEF Texts, ByModel
<1> DEFINE q == [task[t] EXCEPT !.pc = "streaming", !.delta = delta]
<1>1. task' = [task EXCEPT ![t] = q]
  BY <1>0, Of DEF Run
<1>2. q \in Run
  BY Of, Shapes
<1>3. q.text = None <=> q.pc \in Preparing \union Ended
  BY Of DEF StreamDelta, Run
<1>4. Bounded(t) /\ UNCHANGED <<meta, result, state, poll, silent, lost, unaudited, expired>>
  BY <1>0, <1>d, ShowBounded DEF StreamDelta
<1>5. TypeOK' /\ task'[t] = q /\ \A u \in Tasks \ {t} : Same(u)
  BY <1>1, <1>2, <1>3, <1>4, RunMoves
<1>6. /\ stream'[t].pc = stream[t].pc /\ stream'[t].heard = stream[t].heard
      /\ stream'[t].shown = IF stream[t].pc = "on" THEN delta ELSE stream[t].shown
  BY <1>0, <1>d, Of, ShowLands
<1>7. /\ q.pc = "streaming" /\ q.delta = delta /\ task[t].pc = "stream"
      /\ q.text = task[t].text /\ q.mode = task[t].mode /\ q.cached = task[t].cached
      /\ q.analysis = task[t].analysis /\ q.prev = task[t].prev /\ q.verdict = task[t].verdict
  BY <1>2, Of DEF Run, StreamDelta
<1> HIDE DEF q
<1>8. RecordFits(t)' /\ TextFits(t)' /\ ModeFits(t)'
  BY <1>d, <1>4, <1>5, <1>7 DEF Fits, RecordFits, TextFits, ModeFits
<1>9. DraftFits(t)' /\ StreamFits(t)'
  BY <1>d, <1>4, <1>5, <1>6, <1>7 DEF Fits, DraftFits, StreamFits, Terminal, Untold
<1> QED
  BY <1>5, <1>8, <1>9 DEF Stays, Fits

LEMMA AuditStreamStays ==
  ASSUME TypeOK, NEW t \in Tasks, Fits(t), AuditStream(t)
  PROVE  Stays(t)
<1> USE DEF Pcs, Preparing, Storing, Ended
<1>1. task[t].pc = "audit" /\ task[t].text \in Texts
  BY Of DEF AuditStream, Run
<1>2. PICK text \in Texts \ Unmoderated, verdict \in {"ok", "block"} :
        /\ text = AfterModeration(task[t].text) /\ verdict = OutputMode(task[t].text)
        /\ verdict = "ok" => ~ Flagged(text)
  BY <1>1 DEF AfterModeration, OutputMode, Flagged, Texts, Unmoderated
<1> DEFINE q == [task[t] EXCEPT !.pc = "final", !.streamed = TRUE, !.text = text,
                                !.verdict = verdict]
<1>3. task' = [task EXCEPT ![t] = q]
  BY <1>2, Of DEF AuditStream, Run
<1>4. q \in Run
  BY Of, Shapes
<1>5. q.text # None /\ q.pc = "final"
  BY Of, NoneAssumption DEF Run
<1>6. /\ Bounded(t) /\ UNCHANGED <<meta, result, state, poll, silent, lost, unaudited, expired>>
      /\ stream'[t].pc = stream[t].pc /\ stream'[t].heard = stream[t].heard
      /\ stream[t].pc # "on" => stream'[t].shown = stream[t].shown
  <2>1. CASE Show(t, text)
    BY <2>1, ShowBounded, ShowLands, Of DEF AuditStream
  <2>2. CASE UNCHANGED stream
    BY <2>2, Untouched DEF AuditStream
  <2> QED
    BY <1>2, <2>1, <2>2 DEF AuditStream
<1>7. TypeOK' /\ task'[t] = q /\ \A u \in Tasks \ {t} : Same(u)
  BY <1>3, <1>4, <1>5, <1>6, RunMoves
<1> QED
  BY <1>1, <1>2, <1>6, <1>7, Of DEF Stays, Run, Terminal, Fits, RecordFits, TextFits, ModeFits, DraftFits, StreamFits, Untold

LEMMA AuditStreamUnseenStays ==
  ASSUME TypeOK, NEW t \in Tasks, Fits(t), AuditStreamUnseen(t)
  PROVE  Stays(t)
<1> USE DEF Pcs, Preparing, Storing, Ended
<1>1. task[t].pc = "audit" /\ task[t].text \in Texts
  BY Of DEF AuditStreamUnseen, Run
<1>2. PICK text \in Texts \ Unmoderated, verdict \in {"ok", "block"} :
        /\ text = AfterModeration(task[t].text) /\ verdict = OutputMode(task[t].text)
        /\ verdict = "ok" => ~ Flagged(text)
  BY <1>1 DEF AfterModeration, OutputMode, Flagged, Texts, Unmoderated
<1> DEFINE q == [task[t] EXCEPT !.pc = "final", !.text = text, !.verdict = verdict]
<1>3. task' = [task EXCEPT ![t] = q]
  BY <1>2, Of DEF AuditStreamUnseen, Run
<1>4. q \in Run
  BY Of, Shapes
<1>5. q.text # None /\ q.pc = "final"
  BY Of, NoneAssumption DEF Run
<1>6. Bounded(t) /\ UNCHANGED <<meta, result, state, stream, poll, silent, lost, unaudited, expired>>
  <2>1. faults' \in 0 .. MaxFaults
    BY FaultCounted DEF AuditStreamUnseen
  <2>2. UNCHANGED <<redisVars, stream, readers>>
    BY DEF AuditStreamUnseen
  <2> QED
    BY <2>1, <2>2, Of DEF Bounded, Types, redisVars, readers
<1>7. TypeOK' /\ task'[t] = q /\ \A u \in Tasks \ {t} : Same(u)
  BY <1>3, <1>4, <1>5, <1>6, RunMoves
<1> QED
  BY <1>1, <1>2, <1>6, <1>7, Of DEF Stays, Run, Terminal, Fits, RecordFits, TextFits, ModeFits, DraftFits, StreamFits, Untold

LEMMA AuditStreamRaisesStays ==
  ASSUME TypeOK, NEW t \in Tasks, Fits(t), AuditStreamRaises(t)
  PROVE  Stays(t)
<1> USE DEF Pcs, Preparing, Storing, Ended
<1>1. task[t].pc = "audit" /\ Go(t, "final")
  BY DEF AuditStreamRaises, Go
<1>2. /\ Bounded(t) /\ UNCHANGED <<meta, result, state, stream, poll, silent, lost, expired>>
      /\ t \in unaudited'
  BY Of, FaultCounted DEF AuditStreamRaises, Bounded, Types, redisVars
<1>3. TypeOK' /\ task'[t] = [task[t] EXCEPT !.pc = "final"] /\ \A u \in Tasks \ {t} : Same(u)
  BY <1>1, <1>2, GoMoves
<1> QED
  BY <1>1, <1>2, <1>3, Of DEF Stays, Run, Fits, RecordFits, TextFits, ModeFits, DraftFits, StreamFits, Untold

LEMMA FinishStays ==
  ASSUME TypeOK, NEW t \in Tasks, Fits(t), Finish(t)
  PROVE  Stays(t)
<1> USE DEF Pcs, Preparing, Storing, Ended
<1>1. task[t].pc = "final" /\ task[t].text \in Texts
  BY Of DEF Finish, Run
<1>2. PICK text \in Texts, sum \in Modes :
        /\ task' = [task EXCEPT ![t].pc = "state", ![t].text = text, ![t].summary = sum,
                                ![t].delta = None]
        /\ text = Stabilized(t, task[t].text)
        /\ sum = "ok" => task[t].mode = "ok" /\ task[t].verdict = "ok" /\ ~ task[t].found
        /\ IF task[t].streamed THEN UNCHANGED stream ELSE Show(t, text)
  <2> DEFINE parts == {task[t].mode, task[t].verdict}
                        \union (IF task[t].mode = "ok" /\ task[t].found THEN {"block"} ELSE {})
  <2>1. Worst(parts) = "ok" => task[t].mode = "ok" /\ task[t].verdict = "ok" /\ ~ task[t].found
    BY Of DEF Worst, Run, Modes
  <2>2. Worst(parts) \in Modes /\ Stabilized(t, task[t].text) \in Texts
    BY <1>1 DEF Worst, Modes, Stabilized, Texts
  <2> QED
    BY <2>1, <2>2 DEF Finish
<1>3. /\ task[t].blocks => ~ Claims(text)
      /\ task[t].text \notin Unmoderated => text \notin Unmoderated
      /\ ~ Flagged(task[t].text) => ~ Flagged(text)
      /\ task[t].text \notin ByModel => text \notin ByModel
  BY <1>2 DEF Stabilized, Claims, Flagged, Unmoderated, ByModel, Streams
<1> DEFINE q == [task[t] EXCEPT !.pc = "state", !.text = text, !.summary = sum, !.delta = None]
<1>4. task' = [task EXCEPT ![t] = q]
  BY <1>2, Of DEF Run
<1>5. q \in Run
  BY Of, Shapes
<1>6. q.text # None /\ q.pc = "state"
  BY Of, NoneAssumption DEF Run
<1>7. /\ Bounded(t) /\ UNCHANGED <<meta, result, state, poll, silent, lost, unaudited, expired>>
      /\ stream'[t].pc = stream[t].pc /\ stream'[t].heard = stream[t].heard
      /\ stream[t].pc # "on" => stream'[t].shown = stream[t].shown
  <2>1. CASE Show(t, text)
    BY <2>1, ShowBounded, ShowLands, Of DEF Finish
  <2>2. CASE UNCHANGED stream
    BY <2>2, Untouched DEF Finish
  <2> QED
    BY <1>2, <2>1, <2>2
<1>8. TypeOK' /\ task'[t] = q /\ \A u \in Tasks \ {t} : Same(u)
  BY <1>4, <1>5, <1>6, <1>7, RunMoves
<1> QED
  BY <1>1, <1>2, <1>3, <1>7, <1>8, Of DEF Stays, Run, Terminal, Fits, RecordFits, TextFits, ModeFits, DraftFits, StreamFits, Untold

LEMMA StoreStateStays ==
  ASSUME TypeOK, NEW t \in Tasks, Fits(t), StoreState(t)
  PROVE  Stays(t)
<1> USE DEF Pcs, Preparing, Storing, Ended
<1>1. Go(t, "event")
  BY DEF StoreState
<1>k. state' \in Kept
  BY Of DEF StoreState, Kept, Run
<1>2. Bounded(t) /\ UNCHANGED <<meta, result, stream, poll, silent, lost, unaudited, expired>>
  BY <1>k, Of DEF StoreState, Bounded, Types, readers
<1>3. TypeOK' /\ task'[t] = [task[t] EXCEPT !.pc = "event"] /\ \A u \in Tasks \ {t} : Same(u)
  BY <1>1, <1>2, GoMoves DEF StoreState
<1> QED
  BY <1>2, <1>3, Of DEF Stays, StoreState, Run, Fits, RecordFits, TextFits, ModeFits, DraftFits, StreamFits, Untold

LEMMA PublishResultStays ==
  ASSUME TypeOK, NEW t \in Tasks, Fits(t), PublishResult(t)
  PROVE  Stays(t)
<1> USE DEF Pcs, Preparing, Storing, Ended
<1>0. task[t].text \in Texts
  BY Of DEF PublishResult, Run
<1>1. Go(t, "commit")
  BY DEF PublishResult
<1>2. Bounded(t) /\ UNCHANGED <<meta, result, state, poll, silent, lost, unaudited, expired>>
  BY <1>0, ShowBounded DEF PublishResult
<1>3. TypeOK' /\ task'[t] = [task[t] EXCEPT !.pc = "commit"] /\ \A u \in Tasks \ {t} : Same(u)
  BY <1>1, <1>2, GoMoves DEF PublishResult
<1>4. /\ stream'[t].pc = stream[t].pc /\ stream'[t].heard = stream[t].heard
      /\ stream'[t].shown = IF stream[t].pc = "on" THEN task[t].text ELSE stream[t].shown
  BY <1>0, Of, ShowLands DEF PublishResult
<1> QED
  BY <1>2, <1>3, <1>0, <1>4, Of DEF Stays, PublishResult, Run, Terminal, Fits, RecordFits, TextFits, ModeFits, DraftFits, StreamFits, Untold

LEMMA StoreSucceededStays ==
  ASSUME TypeOK, NEW t \in Tasks, Fits(t), StoreSucceeded(t)
  PROVE  Stays(t)
<1> USE DEF Pcs, Preparing, Storing, Ended
<1>1. Go(t, "tell")
  BY DEF StoreSucceeded
<1>2. /\ Bounded(t) /\ UNCHANGED <<result, state, stream, poll, silent, lost, unaudited, expired>>
      /\ meta'[t] = "succeeded"
  BY Of DEF StoreSucceeded, Store, Bounded, Types, Status, Terminal, readers
<1>3. TypeOK' /\ task'[t] = [task[t] EXCEPT !.pc = "tell"] /\ \A u \in Tasks \ {t} : Same(u)
  BY <1>1, <1>2, GoMoves DEF StoreSucceeded
<1> QED
  BY <1>2, <1>3, Of DEF Stays, StoreSucceeded, Run, Terminal, Fits, RecordFits, TextFits, ModeFits, DraftFits, StreamFits, Untold

LEMMA TellSucceededStays ==
  ASSUME TypeOK, NEW t \in Tasks, Fits(t), TellSucceeded(t)
  PROVE  Stays(t)
<1> USE DEF Pcs, Preparing, Storing, Ended
<1>0. "succeeded" \in Status
  BY DEF Status, Terminal
<1>1. Go(t, "result")
  BY DEF TellSucceeded
<1>2. Bounded(t) /\ UNCHANGED <<meta, result, state, poll, silent, lost, unaudited, expired>>
  BY <1>0, TellBounded DEF TellSucceeded
<1>3. TypeOK' /\ task'[t] = [task[t] EXCEPT !.pc = "result"] /\ \A u \in Tasks \ {t} : Same(u)
  BY <1>1, <1>2, GoMoves DEF TellSucceeded
<1>4. /\ stream'[t].pc = stream[t].pc /\ stream'[t].shown = stream[t].shown
      /\ stream'[t].heard = IF stream[t].pc = "on" THEN "succeeded" ELSE stream[t].heard
  BY <1>0, Of, TellLands DEF TellSucceeded
<1> QED
  BY <1>2, <1>3, <1>4, Of DEF Stays, TellSucceeded, Run, Terminal, Fits, RecordFits, TextFits, ModeFits, DraftFits, StreamFits, Untold

LEMMA StoreResultStays ==
  ASSUME TypeOK, NEW t \in Tasks, Fits(t), StoreResult(t)
  PROVE  Stays(t)
<1> USE DEF Pcs, Preparing, Storing, Ended
<1>0. task[t].text \in Texts /\ task[t].text # None
  BY Of DEF StoreResult, Run
<1>1. Go(t, "report")
  BY DEF StoreResult
<1>2. /\ Bounded(t) /\ UNCHANGED <<meta, state, stream, poll, silent, lost, unaudited, expired>>
      /\ result'[t] = task[t].text
  BY <1>0, Of DEF StoreResult, Bounded, Types, readers
<1>3. TypeOK' /\ task'[t] = [task[t] EXCEPT !.pc = "report"] /\ \A u \in Tasks \ {t} : Same(u)
  BY <1>1, <1>2, GoMoves DEF StoreResult
<1> QED
  BY <1>2, <1>3, <1>0, Of DEF Stays, StoreResult, Run, Terminal, Fits, RecordFits, TextFits, ModeFits, DraftFits, StreamFits, Untold

LEMMA StoreLands ==
  ASSUME TypeOK, NEW t \in Tasks, NEW status \in Status, Store(t, status),
         UNCHANGED <<result, state, cancelKey, stream, readers, faults>>
  PROVE  Bounded(t) /\ meta'[t] = status /\ UNCHANGED <<result, stream, poll, silent, lost, unaudited, expired>>
  BY Of DEF Store, Bounded, Types, readers

LEMMA ClaimStays ==
  ASSUME TypeOK, NEW t \in Tasks, Fits(t), Claim(t)
  PROVE  Stays(t)
<1> USE DEF Pcs, Preparing, Storing, Ended
<1>1. Go(t, "claimed") /\ task[t].pc = "waiting"
  BY DEF Claim
<1>2. /\ Bounded(t) /\ meta'[t] = "running"
      /\ UNCHANGED <<result, stream, poll, silent, lost, unaudited, expired>>
  BY StoreLands DEF Claim, Status, Terminal
<1>3. TypeOK' /\ task'[t] = [task[t] EXCEPT !.pc = "claimed"] /\ \A u \in Tasks \ {t} : Same(u)
  BY <1>1, <1>2, GoMoves
<1> QED
  BY <1>1, <1>2, <1>3, Of DEF Stays, Run, Terminal, Fits, RecordFits, TextFits, ModeFits, DraftFits, StreamFits, Untold

LEMMA BeginStays ==
  ASSUME TypeOK, NEW t \in Tasks, Fits(t), Begin(t)
  PROVE  Stays(t)
<1> USE DEF Pcs, Preparing, Storing, Ended
<1> DEFINE q == [task[t] EXCEPT !.pc = "input", !.prev = state.analysis]
<1>1. task' = [task EXCEPT ![t] = q] /\ task[t].pc = "claimed"
  BY Of DEF Begin, Run
<1>2. state.analysis \in Makers
  BY Of DEF Types, Kept
<1>3. q \in Run
  BY <1>2, Of, Shapes
<1>4. q.text = None /\ q.pc = "input"
  BY <1>1, Of DEF Run
<1>5. "running" \in Status
  BY DEF Status
<1>6. Bounded(t) /\ UNCHANGED <<meta, result, state, poll, silent, lost, unaudited, expired>>
  BY <1>5, TellBounded DEF Begin
<1>7. /\ stream'[t].pc = stream[t].pc /\ stream'[t].shown = stream[t].shown
      /\ stream'[t].heard = IF stream[t].pc = "on" THEN "running" ELSE stream[t].heard
  BY <1>5, Of, TellLands DEF Begin
<1>8. TypeOK' /\ task'[t] = q /\ \A u \in Tasks \ {t} : Same(u)
  BY <1>1, <1>3, <1>4, <1>6, RunMoves
<1>9. q.mode = task[t].mode /\ q.cached = task[t].cached /\ None \notin ByModel
  BY Of, NoneAssumption DEF Run, Texts
<1>10. meta[t] = "running" /\ meta'[t] = "running"
  BY <1>1, <1>6 DEF Fits, RecordFits
<1> HIDE DEF q
<1>11. RecordFits(t)' /\ TextFits(t)' /\ DraftFits(t)' /\ StreamFits(t)'
  BY <1>1, <1>4, <1>6, <1>7, <1>8, <1>10 DEF Terminal, Fits, RecordFits, TextFits, ModeFits, DraftFits, StreamFits, Untold
<1>12. ModeFits(t)'
  <2>1. task[t].analysis = "stub" /\ q.analysis = task[t].analysis
    BY <1>1, Of DEF q, Run, Fits, ModeFits
  <2> QED
    BY <1>1, <1>4, <1>8, <1>9, <2>1 DEF Fits, ModeFits
<1> QED
  BY <1>8, <1>11, <1>12 DEF Stays, Fits

\* A run that ends, whether its record changes or not, leaves nothing but it.
LEMMA EndStays ==
  ASSUME TypeOK, NEW t \in Tasks, Fits(t), NEW pc \in Ended, Leave(t, pc), Bounded(t),
         UNCHANGED <<result, state, stream, poll, unaudited, expired>>,
         task[t].pc \notin {"waiting", "over", "dead"},
         t \in silent => t \in silent',
         Untold(t) => t \in silent' \/ pc = "failing",
         t \in lost \/ task[t].pc \in {"tell", "result"} => t \in lost',
         \/ /\ meta'[t] = meta[t]
            /\ pc = "failing" => task[t].pc \notin Ended
            /\ pc = "canceling" => meta[t] = "running"
            /\ pc # "untold"
         \/ pc = "untold" /\ meta'[t] = "canceled" /\ task[t].pc = "claimed"
  PROVE  Stays(t)
<1> USE DEF Pcs, Preparing, Storing, Ended
<1>1. /\ TypeOK' /\ \A u \in Tasks \ {t} : Same(u)
      /\ task'[t].pc = pc /\ task'[t].mode = task[t].mode /\ task'[t].text = None
      /\ task'[t].analysis = "stub" /\ None \notin ByModel
  BY LeaveMoves
<1>2. RecordFits(t)'
  BY <1>1, Of DEF Fits, RecordFits
<1>3. TextFits(t)' /\ ModeFits(t)'
  BY <1>1 DEF Fits, TextFits, ModeFits
<1>4. DraftFits(t)'
  BY <1>1 DEF Fits, RecordFits, DraftFits
<1>5. StreamFits(t)'
  BY <1>1 DEF Terminal, Fits, RecordFits, DraftFits, StreamFits, Untold
<1> QED
  BY <1>1, <1>2, <1>3, <1>4, <1>5 DEF Stays, Fits

LEMMA ReportStays ==
  ASSUME TypeOK, NEW t \in Tasks, Fits(t), Report(t)
  PROVE  Stays(t)
<1>1. Bounded(t) /\ UNCHANGED <<meta, result, state, stream, poll, silent, lost, unaudited, expired>>
  BY Untouched DEF Report
<1> QED
  BY <1>1, EndStays DEF Report, Ended, Untold

LEMMA DropCanceledStays ==
  ASSUME TypeOK, NEW t \in Tasks, Fits(t), DropCanceled(t)
  PROVE  Stays(t)
<1>1. /\ Bounded(t) /\ meta'[t] = "canceled"
      /\ UNCHANGED <<result, stream, poll, silent, lost, unaudited, expired>>
  BY StoreLands DEF DropCanceled, Status, Terminal
<1> QED
  BY <1>1, EndStays DEF DropCanceled, Ended, Untold

LEMMA StopCanceledStays ==
  ASSUME TypeOK, NEW t \in Tasks, Fits(t), StopCanceled(t)
  PROVE  Stays(t)
<1>1. Bounded(t) /\ UNCHANGED <<meta, result, state, stream, poll, silent, lost, unaudited, expired>>
  BY Untouched DEF StopCanceled
<1>2. task[t].pc \in {"input", "final"} /\ meta[t] = "running"
  BY DEF StopCanceled, AtCheck, Fits, RecordFits, Ended
<1> QED
  BY <1>1, <1>2, EndStays DEF StopCanceled, Ended, Untold

LEMMA FailStays ==
  ASSUME TypeOK, NEW t \in Tasks, Fits(t), Fail(t)
  PROVE  Stays(t)
<1> USE DEF Storing, Ended
<1>1. /\ task[t].pc \in {"input", "analyze", "rag", "draft", "final", "state"} \union Storing
      /\ Leave(t, "failing") /\ UNCHANGED <<meta, result, state, stream, poll, silent, unaudited, expired>>
      /\ lost' = LostAt(t)
  BY DEF Fail, redisVars
<1>2. Bounded(t)
  BY <1>1, Of, FaultCounted DEF Fail, LostAt, Types, Bounded, redisVars
<1>3. t \in lost \/ task[t].pc \in {"tell", "result"} => t \in lost'
  BY <1>1 DEF LostAt
<1> QED
  BY <1>1, <1>2, <1>3, EndStays

LEMMA RaiseStays ==
  ASSUME TypeOK, NEW t \in Tasks, Fits(t), Raise(t)
  PROVE  Stays(t)
<1> USE DEF Ended
<1>1. /\ task[t].pc \in {"input", "rag", "report", "failing", "canceling", "untold"}
      /\ Leave(t, "over") /\ UNCHANGED <<meta, result, state, stream, poll, lost, unaudited, expired>>
      /\ silent' = IF task[t].pc = "report" THEN silent ELSE silent \union {t}
  BY DEF Raise, redisVars
<1>2. Bounded(t)
  BY <1>1, Of, FaultCounted DEF Raise, Types, Bounded, redisVars
<1> QED
  BY <1>1, <1>2, EndStays DEF Untold

LEMMA DieStays ==
  ASSUME TypeOK, NEW t \in Tasks, Fits(t), Die(t)
  PROVE  Stays(t)
<1> USE DEF Ended
<1>1. /\ task[t].pc \notin {"waiting", "dead", "over"} /\ Leave(t, "dead")
      /\ UNCHANGED <<meta, result, state, stream, poll, unaudited, expired>>
      /\ silent' = IF Untold(t) THEN silent \union {t} ELSE silent
      /\ lost' = LostAt(t)
  BY DEF Die, redisVars
<1>2. Bounded(t)
  BY <1>1, Of, FaultCounted DEF Die, LostAt, Types, Bounded, redisVars
<1>3. t \in lost \/ task[t].pc \in {"tell", "result"} => t \in lost'
  BY <1>1 DEF LostAt
<1> QED
  BY <1>1, <1>2, <1>3, EndStays

LEMMA StoreEndStays ==
  ASSUME TypeOK, NEW t \in Tasks, Fits(t), StoreEnd(t)
  PROVE  Stays(t)
<1> USE DEF Pcs, Preparing, Storing, Ended
<1>1. PICK status \in {"failed", "canceled"} : Store(t, status)
  BY DEF StoreEnd
<1>2. Go(t, "untold") /\ task[t].pc \in {"failing", "canceling"}
  BY DEF StoreEnd
<1>3. /\ Bounded(t) /\ meta'[t] = status
      /\ UNCHANGED <<result, stream, poll, silent, lost, unaudited, expired>>
  BY <1>1, StoreLands DEF StoreEnd, Status, Terminal
<1>4. TypeOK' /\ task'[t] = [task[t] EXCEPT !.pc = "untold"] /\ \A u \in Tasks \ {t} : Same(u)
  BY <1>2, <1>3, GoMoves
<1> QED
  BY <1>2, <1>3, <1>4, Of DEF Stays, Run, Terminal, Fits, RecordFits, TextFits, ModeFits, DraftFits, StreamFits, Untold

LEMMA TellEndStays ==
  ASSUME TypeOK, NEW t \in Tasks, Fits(t), TellEnd(t)
  PROVE  Stays(t)
<1> USE DEF Pcs, Preparing, Storing, Ended
<1>0. meta[t] \in {"failed", "canceled"} /\ meta[t] \in Status
  BY DEF TellEnd, Fits, RecordFits, Status, Terminal
<1>1. Go(t, "over") /\ task[t].pc = "untold"
  BY DEF TellEnd
<1>2. Bounded(t) /\ UNCHANGED <<meta, result, state, poll, silent, lost, unaudited, expired>>
  BY <1>0, TellBounded DEF TellEnd
<1>3. /\ stream'[t].pc = stream[t].pc /\ stream'[t].shown = stream[t].shown
      /\ stream'[t].heard = IF stream[t].pc = "on" THEN meta[t] ELSE stream[t].heard
  BY <1>0, Of, TellLands DEF TellEnd
<1>4. TypeOK' /\ task'[t] = [task[t] EXCEPT !.pc = "over"] /\ \A u \in Tasks \ {t} : Same(u)
  BY <1>1, <1>2, GoMoves
<1> QED
  BY <1>0, <1>1, <1>2, <1>3, <1>4, Of DEF Stays, Run, Terminal, Fits, RecordFits, TextFits, ModeFits, DraftFits, StreamFits, Untold

LEMMA ReclaimStays ==
  ASSUME TypeOK, NEW t \in Tasks, Fits(t), Reclaim(t)
  PROVE  Stays(t)
<1> USE DEF Pcs, Preparing, Storing, Ended
<1>1. PICK pc \in {"waiting", "over"}, status \in Status :
        /\ Go(t, pc) /\ Store(t, status)
        /\ \/ meta[t] \in Terminal /\ pc = "over" /\ status = meta[t] /\ silent' = silent
           \/ pc = "over" /\ status = "canceled" /\ t \in silent'
           \/ pc = "waiting" /\ status = "queued" /\ silent' = silent
  BY Of DEF Reclaim, Types, Status, Terminal
<1>2. /\ task[t].pc = "dead" /\ silent' \in {silent, silent \union {t}}
      /\ UNCHANGED <<result, state, cancelKey, stream, poll, lost, unaudited, expired, faults>>
  BY DEF Reclaim
<1>3. Bounded(t) /\ meta'[t] = status
  BY <1>1, <1>2, Of DEF Types, Bounded, Store
<1>4. TypeOK' /\ task'[t] = [task[t] EXCEPT !.pc = pc] /\ \A u \in Tasks \ {t} : Same(u)
  BY <1>1, <1>2, <1>3, GoMoves
<1> QED
  BY <1>1, <1>2, <1>3, <1>4, Of DEF Stays, Run, Terminal, Fits, RecordFits, TextFits, ModeFits, DraftFits, StreamFits, Untold

LEMMA ExpireResultStays ==
  ASSUME TypeOK, NEW t \in Tasks, Fits(t), ExpireResult(t)
  PROVE  Stays(t)
<1>1. /\ UNCHANGED <<task, meta, state, cancelKey, stream, poll, silent, lost, unaudited, faults>>
      /\ expired' = expired \union {t} /\ result' = [result EXCEPT ![t] = None]
  BY DEF ExpireResult
<1>2. Bounded(t) /\ result'[t] = None
  BY <1>1, Of DEF Types, Bounded
<1>3. TypeOK' /\ \A u \in Tasks \ {t} : Same(u)
  BY <1>1, <1>2, RunStays
<1>4. None \notin Unmoderated
  BY NoneAssumption DEF Unmoderated, Texts, ByModel, Streams
<1> QED
  BY <1>1, <1>2, <1>3, <1>4 DEF Stays, Fits, RecordFits, TextFits, ModeFits, DraftFits, StreamFits, Untold

----------------------------------------------------------------------------
(* The operator                                                            *)

LEMMA CancelStays ==
  ASSUME TypeOK, NEW t \in Tasks, Fits(t), Cancel(t)
  PROVE  Stays(t)
<1>1. Bounded(t) /\ task' = task
  BY Of, ConstantsAssumption DEF Cancel, Types, Bounded, readers
<1> QED
  BY <1>1, RunStays DEF Stays, Cancel, readers, Fits, RecordFits, TextFits, ModeFits, DraftFits, StreamFits, Untold

LEMMA StreamStays ==
  ASSUME TypeOK, NEW t \in Tasks, Fits(t), OpenStream(t) \/ Subscribe(t)
  PROVE  Stays(t)
<1>1. UNCHANGED <<task, redisVars, poll, lost, unaudited, expired, faults>> /\ stream[t].pc \in {"idle", "read"}
  BY DEF OpenStream, Subscribe, readers
<1>2. /\ stream' \in [Tasks -> Viewer] /\ \A u \in Tasks \ {t} : stream'[u] = stream[u]
      /\ stream'[t].shown = stream[t].shown
      /\ \/ stream'[t].pc = "read" /\ silent' = silent
         \/ /\ stream'[t].pc = "on" /\ stream'[t].heard = stream[t].heard
            /\ silent' \in {silent, silent \union {t}}
            /\ meta[t] \in Terminal \ {stream[t].heard} /\ ~ Untold(t) => t \in silent'
  <2>1. CASE OpenStream(t)
    <3> DEFINE v == [stream[t] EXCEPT !.pc = "read", !.heard = meta[t]]
    <3>1. stream' = [stream EXCEPT ![t] = v]
      BY <2>1, Of DEF OpenStream, Viewer
    <3>2. v \in Viewer /\ v.pc = "read" /\ v.shown = stream[t].shown
      BY Of DEF Viewer, Types
    <3> QED
      BY <2>1, <3>1, <3>2, Of DEF OpenStream, readers
  <2>2. CASE Subscribe(t)
    <3> DEFINE v == [stream[t] EXCEPT !.pc = "on"]
    <3>1. stream' = [stream EXCEPT ![t] = v]
      BY <2>2, Of DEF Subscribe, Viewer
    <3>2. v \in Viewer /\ v.pc = "on" /\ v.shown = stream[t].shown /\ v.heard = stream[t].heard
      BY Of DEF Viewer
    <3> QED
      BY <2>2, <3>1, <3>2, Of DEF Subscribe
  <2> QED
    BY <2>1, <2>2
<1>3. Bounded(t)
  BY <1>1, <1>2, Of DEF Types, Bounded, redisVars
<1>4. TypeOK' /\ \A u \in Tasks \ {t} : Same(u)
  BY <1>1, <1>3, RunStays
<1> QED
  BY <1>1, <1>2, <1>4 DEF Stays, redisVars, Fits, RecordFits, TextFits, ModeFits, DraftFits, StreamFits, Untold

LEMMA PollStays ==
  ASSUME TypeOK, NEW t \in Tasks, Fits(t), PollRecord(t) \/ PollResult(t)
  PROVE  Stays(t)
<1>1. /\ UNCHANGED <<task, redisVars, stream, silent, lost, unaudited, expired, faults>>
      /\ poll' \in {poll \union {t}, poll \ {t}}
      /\ t \in poll' => meta[t] = "succeeded"
  BY DEF PollRecord, PollResult
<1>2. Bounded(t)
  BY <1>1, Of DEF Types, Bounded, redisVars
<1>3. TypeOK' /\ \A u \in Tasks \ {t} : Same(u)
  BY <1>1, <1>2, RunStays
<1> QED
  BY <1>1, <1>3 DEF Stays, redisVars, Fits, RecordFits, TextFits, ModeFits, DraftFits, StreamFits, Untold

----------------------------------------------------------------------------
(* The specification                                                       *)

StepOf(t) == \/ RunStep(t) \/ Cancel(t) \/ ExpireResult(t)
             \/ AuditStreamRaises(t) \/ AuditStreamUnseen(t) \/ Fail(t) \/ Raise(t) \/ Die(t)
             \/ OpenStream(t) \/ Subscribe(t) \/ PollRecord(t) \/ PollResult(t)

LEMMA StepStays ==
  ASSUME TypeOK, NEW t \in Tasks, Fits(t), StepOf(t)
  PROVE  Stays(t)
  BY ClaimStays, DropCanceledStays, BeginStays, ModerateInputStays, AnalyzeStays, RetrieveStays, SkipRetrievalStays, DraftStays,
     StreamDeltaStays, StreamNothingStays, StreamEndsStays, AuditStreamStays,
     AuditStreamRaisesStays, FinishStays, StoreStateStays, PublishResultStays,
     StoreSucceededStays, TellSucceededStays, StoreResultStays, ReportStays, StopCanceledStays,
     StoreEndStays, TellEndStays, ReclaimStays, ExpireResultStays, AuditStreamUnseenStays,
     FailStays, RaiseStays, DieStays, CancelStays, StreamStays, PollStays
     DEF StepOf, RunStep

\* The state of the conversation is a moderated text, or one of a task whose stream
\* was not audited, which is not forgotten.
LEMMA StateKept ==
  ASSUME TypeOK, NEW t \in Tasks, Fits(t), StepOf(t), state.draft \in Unmoderated => unaudited # {}
  PROVE  state'.draft \in Unmoderated => unaudited' # {}
<1>1. unaudited \subseteq unaudited'
  BY DEF StepOf, RunStep, Claim, DropCanceled, StoreEnd, TellEnd, Reclaim, ExpireResult,
     AuditStreamUnseen, Begin, ModerateInput, Analyze, Retrieve, SkipRetrieval, Draft,
     StreamDelta, StreamNothing, StreamEnds, AuditStream, Finish, StoreState, PublishResult,
     StoreSucceeded, TellSucceeded, StoreResult, Report, StopCanceled, Cancel,
     AuditStreamRaises, Fail, Raise, Die, OpenStream, Subscribe, PollRecord, PollResult, readers
<1>2. CASE StoreState(t)
  BY <1>1, <1>2 DEF StoreState, Fits, TextFits, Preparing, Ended
<1>3. CASE ~ StoreState(t)
  <2>1. state' = state
    BY <1>3 DEF StepOf, RunStep, Claim, DropCanceled, StoreEnd, TellEnd, Reclaim, ExpireResult,
     AuditStreamUnseen, Begin, ModerateInput, Analyze, Retrieve, SkipRetrieval, Draft,
       StreamDelta, StreamNothing, StreamEnds, AuditStream, Finish, PublishResult,
       StoreSucceeded, TellSucceeded, StoreResult, Report, StopCanceled, Cancel,
       AuditStreamRaises, Fail, Raise, Die, OpenStream, Subscribe, PollRecord, PollResult,
       redisVars
  <2> QED
    BY <1>1, <2>1
<1> QED
  BY <1>2, <1>3

LEMMA StepSound == Sound /\ [Next]_vars => Sound'
<1> SUFFICES ASSUME Sound, [Next]_vars PROVE Sound'
  OBVIOUS
<1>1. CASE UNCHANGED vars
  <2>1. TypeOK'
    BY <1>1 DEF Sound, TypeOK, vars, redisVars
  <2>2. ASSUME NEW u \in Tasks PROVE Fits(u)'
    BY <1>1, <2>2, OthersFit DEF Sound, vars, redisVars, Same
  <2> QED
    BY <1>1, <2>1, <2>2 DEF Sound, vars, redisVars
<1>2. CASE Next
  <2>1. PICK t \in Tasks : StepOf(t)
    BY <1>2 DEF Next, StepOf
  <2>2. Stays(t)
    BY <2>1, StepStays DEF Sound
  <2>3. ASSUME NEW u \in Tasks PROVE Fits(u)'
    BY <2>2, <2>3, OthersFit DEF Sound, Stays
  <2> QED
    BY <2>1, <2>2, <2>3, StateKept DEF Sound, Stays
<1> QED
  BY <1>1, <1>2

LEMMA InitSound == Init => Sound
<1> SUFFICES ASSUME Init PROVE Sound
  OBVIOUS
<1>1. PICK flags \in [Tasks -> SUBSET Flags] :
        task = [t \in Tasks |-> [New EXCEPT !.mode = ModerationMode(flags[t])]]
  BY DEF Init
<1>2. \A t \in Tasks : ModerationMode(flags[t]) \in Modes
  BY DEF ModerationMode, Modes
<1>3. task \in [Tasks -> Run]
  <2>1. \A t \in Tasks : [New EXCEPT !.mode = ModerationMode(flags[t])] \in Run
    BY <1>2, NewShape DEF Pcs, Preparing
  <2> QED
    BY <1>1, <2>1
<1>4. \A t \in Tasks : /\ task[t].pc = "waiting" /\ task[t].text = None
                       /\ task[t].analysis = "stub"
  BY <1>1 DEF New
<1>5. stream \in [Tasks -> Viewer]
  BY DEF Init, Viewer
<1>6. Types
  BY <1>3, <1>4, <1>5, ConstantsAssumption DEF Init, Types, Status, Preparing, Kept
<1>7. None \notin Unmoderated \union ByModel
  BY NoneAssumption DEF Unmoderated, Texts, ByModel, Streams
<1>8. \A t \in Tasks : Fits(t)
  BY <1>4, <1>7 DEF Init, Fits, RecordFits, TextFits, ModeFits, DraftFits, StreamFits, Untold, Preparing,
     Storing, Ended, Terminal
<1> QED
  BY <1>6, <1>7, <1>8, Typed DEF Sound, Init

LEMMA AlwaysSound == Spec => []Sound
  BY InitSound, StepSound, PTL DEF Spec

----------------------------------------------------------------------------
(* Theorems                                                                *)

\* Every variable has its type, and a run has a text exactly from the draft on.
THEOREM TypeCorrect == Spec => []TypeOK
  BY AlwaysSound, PTL DEF Sound

\* Nothing flagged is stored but a stream whose audit row could not be written, and
\* no stored text claims a block that is still to be done.
THEOREM Moderated == Spec => []StoredIsModerated
<1>1. Sound => StoredIsModerated
  BY DEF Sound, StoredIsModerated, Fits, TextFits, DraftFits, Unmoderated
<1> QED
  BY <1>1, AlwaysSound, PTL

\* A summary is of the text that is stored.
THEOREM Summarized == Spec => []SummaryIsOfThisText
<1>1. Sound => SummaryIsOfThisText
  BY DEF Sound, SummaryIsOfThisText, Fits, TextFits, Preparing, Storing, Ended
<1> QED
  BY <1>1, AlwaysSound, PTL

\* A safe mode does without the model, but for what a cache brings and what its
\* analysis takes over from the last one.
THEOREM SafeModes == Spec => []SafeModeNeedsNoModel
<1>1. Sound => SafeModeNeedsNoModel
  BY DEF Sound, SafeModeNeedsNoModel, Fits, ModeFits
<1> QED
  BY <1>1, AlwaysSound, PTL

\* A stream is told of the end of its task last, and shows what is stored.
THEOREM Watched == Spec => []ShownIsStored
<1>1. Sound => ShownIsStored
  BY DEF Sound, ShownIsStored, Fits, StreamFits, Untold, Ended
<1> QED
  BY <1>1, AlwaysSound, PTL

\* A success without a draft is met between two commands of the worker, or after
\* one that stopped there, or when the result key has expired.
THEOREM Draftless == Spec => DraftlessSuccess
<1>1. ASSUME Sound, NEW t \in Tasks, t \in poll \ poll', result[t] = None
      PROVE  task[t].pc \in {"tell", "result"} \/ t \in lost \union expired
  BY <1>1 DEF Sound, Fits, DraftFits
<1>2. Sound /\ [Next]_vars => [\A t \in Tasks :
         t \in poll \ poll' /\ result[t] = None =>
            (task[t].pc \in {"tell", "result"} \/ t \in lost \union expired)]_vars
  BY <1>1
<1> QED
  BY <1>2, AlwaysSound, PTL DEF Spec, DraftlessSuccess
====
