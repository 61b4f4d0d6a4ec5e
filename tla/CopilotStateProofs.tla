------------------------- MODULE CopilotStateProofs -------------------------
(***************************************************************************)
(* Theorems about CopilotPlan and CopilotState, for any requests, texts    *)
(* and fields: the types, the state of one piece, and what becomes of a    *)
(* write that another handler's write follows.                             *)
(***************************************************************************)
EXTENDS CopilotState, SequenceTheorems, TLAPS

(***************************************************************************)
(* Plans.                                                                  *)
(***************************************************************************)

\* A plan that is the one of an intent, at one of its steps.
PlanOf(plan, intent) ==
    /\ plan \in Plans
    /\ plan.steps = Steps(intent)
    /\ plan.done \subseteq StepsIn(plan)
    /\ plan.current \in StepsIn(plan)

\* Every plan has three to five steps.
LEMMA StepsShape ==
  ASSUME NEW intent \in Intents
  PROVE  \E n \in 3..5 : DOMAIN Steps(intent) = 1..n /\ Len(Steps(intent)) = n
  <1>1. CASE intent = "SuspiciousTransaction"
    <2>1. Steps(intent) = <<"collect_core", "risk_check", "act_get_txn", "case_create",
                            "explain_next">>
      BY <1>1 DEF Steps, HighRisk
    <2> QED  BY <2>1
  <1>2. CASE intent \in HighRisk
    <2>1. Steps(intent) = <<"collect_risk", "block_now", "case_or_escalate",
                            "explain_reissue">>
      BY <1>2 DEF Steps, HighRisk
    <2> QED  BY <2>1
  <1>3. CASE intent = "UnblockReissue"
    <2>1. Steps(intent) = <<"collect_resolution", "verify_resolution_path",
                            "execute_resolution", "explain_resolution">>
      BY <1>3 DEF Steps, HighRisk
    <2> QED  BY <2>1
  <1>4. CASE intent = "CardNotWorking"
    <2>1. Steps(intent) = <<"identify_channel", "check_limits_settings",
                            "decide_resolution", "explain_resolution">>
      BY <1>4 DEF Steps, HighRisk
    <2> QED  BY <2>1
  <1>5. CASE intent = "StatusWhatNext"
    <2>1. Steps(intent) = <<"identify_case", "status_check", "next_step">>
      BY <1>5 DEF Steps, HighRisk
    <2> QED  BY <2>1
  <1>6. CASE intent = "Unknown"
    <2>1. Steps(intent) = <<"collect", "act", "explain">>
      BY <1>6 DEF Steps, HighRisk
    <2> QED  BY <2>1
  <1> QED  BY <1>1, <1>2, <1>3, <1>4, <1>5, <1>6 DEF Intents, HighRisk

LEMMA StepsKnown ==
  ASSUME NEW intent \in Intents, NEW i \in DOMAIN Steps(intent)
  PROVE  Steps(intent)[i] \in StepIds
  BY DEF StepIds

\* The first open step exists.
LEMMA MinOfFew ==
  ASSUME NEW S \in SUBSET (1..5), S # {}
  PROVE  Min(S) \in S
  <1>1. \E i \in S : \A j \in S : i =< j
    <2>1. CASE 1 \in S  BY <2>1
    <2>2. CASE 1 \notin S /\ 2 \in S  BY <2>2
    <2>3. CASE 1 \notin S /\ 2 \notin S /\ 3 \in S  BY <2>3
    <2>4. CASE 1 \notin S /\ 2 \notin S /\ 3 \notin S /\ 4 \in S  BY <2>4
    <2>5. CASE S \subseteq {5}
      <3>1. S = {5}  BY <2>5
      <3> QED  BY <3>1
    <2> QED  BY <2>1, <2>2, <2>3, <2>4, <2>5
  <1> QED  BY <1>1 DEF Min

\* What is done afterwards.
LEMMA DoneOf ==
  ASSUME NEW plan, NEW ids, NEW fallback
  PROVE  ApplyDone(plan, ids, fallback).done = plan.done \union (ids \intersect StepsIn(plan))
  BY DEF ApplyDone

\* Whatever is done and whatever the fallback is, the plan stays one of its
\* intent, with a current step of its own.
LEMMA ApplyDoneKeeps ==
  ASSUME NEW intent \in Intents, NEW plan, plan \in Plans, plan.steps = Steps(intent),
         plan.done \subseteq StepsIn(plan), NEW ids, NEW fallback
  PROVE  PlanOf(ApplyDone(plan, ids, fallback), intent)
  <1> DEFINE steps == Steps(intent)
             done  == plan.done \union (ids \intersect StepsIn(plan))
             open  == {i \in DOMAIN plan.steps : plan.steps[i] \notin done}
             at    == IF open = {} THEN Len(plan.steps) ELSE Min(open)
             new   == ApplyDone(plan, ids, fallback)
  <1>1. PICK n \in 3..5 : DOMAIN steps = 1..n /\ Len(steps) = n
    BY StepsShape
  <1>2. DOMAIN steps = 1..n
    BY <1>1
  <1>3. at \in DOMAIN steps
    <2>1. open \in SUBSET (1..5)
      BY <1>2
    <2> QED  BY <1>1, <1>2, <2>1, MinOfFew
  <1>4. steps[at] \in StepsIn(plan)
    BY <1>3 DEF StepsIn
  <1>5. new = [steps |-> plan.steps, done |-> done,
               current |-> IF fallback \in StepsIn(plan) THEN fallback ELSE plan.steps[at]]
    BY DEF ApplyDone
  <1>6. StepsIn(new) = StepsIn(plan) /\ StepsIn(plan) \subseteq StepIds
    BY <1>5, StepsKnown DEF StepsIn
  <1>7. done \subseteq StepsIn(plan)
    OBVIOUS
  <1>8. new.current \in StepsIn(plan)
    BY <1>4, <1>5
  <1>9. new \in Plans
    BY <1>5, <1>6, <1>7, <1>8 DEF Plans
  <1>10. new.steps = Steps(intent)
    BY <1>5
  <1>11. new.done \subseteq StepsIn(new)
    <2>1. new.done = done
      BY <1>5
    <2> QED  BY <1>6, <1>7, <2>1
  <1>12. new.current \in StepsIn(new)
    BY <1>6, <1>8
  <1> QED  BY <1>9, <1>10, <1>11, <1>12 DEF PlanOf

LEMMA BuildPlanFits ==
  ASSUME NEW intent \in Intents
  PROVE  PlanOf(BuildPlan(intent), intent)
  <1> DEFINE plan == BuildPlan(intent)
  <1>1. PICK n \in 3..5 : DOMAIN Steps(intent) = 1..n /\ Len(Steps(intent)) = n
    BY StepsShape
  <1>2. plan = [steps |-> Steps(intent), done |-> {}, current |-> Steps(intent)[1]]
    BY DEF BuildPlan, Steps, Intents, HighRisk
  <1>3. 1 \in DOMAIN Steps(intent)
    BY <1>1
  <1>4. plan.current \in StepsIn(plan)
    BY <1>2, <1>3 DEF StepsIn
  <1>5. plan \in Plans
    BY <1>2, <1>3, StepsKnown DEF Plans
  <1> QED  BY <1>2, <1>4, <1>5 DEF PlanOf

\* Both reductions are applications of ApplyDone.
LEMMA AnalyzeApplies ==
  ASSUME NEW plan, NEW phase
  PROVE  \E ids, fallback :
            ReducePlanAfterAnalyze(plan, phase) = ApplyDone(plan, ids, fallback)
  <1> DEFINE has(id) == id \in StepsIn(plan)
  <1>1. CASE phase = "Collect"
    BY <1>1 DEF ReducePlanAfterAnalyze
  <1>2. CASE phase = "Act"
    BY <1>2 DEF ReducePlanAfterAnalyze
  <1>3. CASE phase # "Collect" /\ phase # "Act"
    BY <1>3 DEF ReducePlanAfterAnalyze
  <1> QED  BY <1>1, <1>2, <1>3

LEMMA ToolApplies ==
  ASSUME NEW plan, NEW tool
  PROVE  \E ids, fallback :
            ReducePlanAfterTool(plan, tool) = ApplyDone(plan, ids, fallback)
  <1>1. CASE tool = "get_transactions"  BY <1>1 DEF ReducePlanAfterTool
  <1>2. CASE tool = "create_case"       BY <1>2 DEF ReducePlanAfterTool
  <1>3. CASE tool = "get_case_status"   BY <1>3 DEF ReducePlanAfterTool
  <1>4. CASE tool = "block_card"        BY <1>4 DEF ReducePlanAfterTool
  <1>5. CASE tool \notin {"get_transactions", "create_case", "get_case_status", "block_card"}
    BY <1>5 DEF ReducePlanAfterTool
  <1> QED  BY <1>1, <1>2, <1>3, <1>4, <1>5

\* What is done stays done.
LEMMA ToolKeepsDone ==
  ASSUME NEW plan, NEW tool
  PROVE  plan.done \subseteq ReducePlanAfterTool(plan, tool).done
  <1>1. PICK ids, fallback : ReducePlanAfterTool(plan, tool) = ApplyDone(plan, ids, fallback)
    BY ToolApplies
  <1> QED  BY <1>1, DoneOf

\* A tool's result leaves the plan one of its intent.
LEMMA ToolKeepsPlan ==
  ASSUME NEW intent \in Intents, NEW plan, PlanOf(plan, intent), NEW tool
  PROVE  PlanOf(ReducePlanAfterTool(plan, tool), intent)
  <1>1. PICK ids, fallback : ReducePlanAfterTool(plan, tool) = ApplyDone(plan, ids, fallback)
    BY ToolApplies
  <1> QED  BY <1>1, ApplyDoneKeeps DEF PlanOf

LEMMA AnalyzeKeepsPlan ==
  ASSUME NEW intent \in Intents, NEW plan, PlanOf(plan, intent), NEW phase
  PROVE  PlanOf(ReducePlanAfterAnalyze(plan, phase), intent)
  <1>1. PICK ids, fallback :
           ReducePlanAfterAnalyze(plan, phase) = ApplyDone(plan, ids, fallback)
    BY AnalyzeApplies
  <1> QED  BY <1>1, ApplyDoneKeeps DEF PlanOf

LEMMA PhaseTyped ==
  ASSUME NEW plan
  PROVE  PhaseFromPlan(plan) \in Phases
  BY DEF PhaseFromPlan, Phases

(***************************************************************************)
(* What the worker makes of a text.                                        *)
(***************************************************************************)

LEMMA MissingTyped ==
  ASSUME NEW intent, NEW facts
  PROVE  Missing(intent, facts) \subseteq Fields
  <1>1. CASE intent = "SuspiciousTransaction"
    BY <1>1 DEF Missing, Fields, TxnRequired
  <1>2. CASE intent # "SuspiciousTransaction"
    BY <1>2 DEF Missing, Fields
  <1> QED  BY <1>1, <1>2

LEMMA ToolsTyped ==
  ASSUME NEW intent, NEW phase, NEW missing, NEW confirmed, NEW client, NEW mode, NEW facts
  PROVE  ResolveTools(intent, phase, missing, confirmed, client, mode, facts)
            \subseteq ToolName
  <1>1. Listed(intent, phase) \subseteq ToolName
    BY DEF Listed, ToolName, HighRisk
  <1> QED  BY <1>1 DEF ResolveTools

LEMMA MergeTyped ==
  ASSUME NEW facts \in Facts, NEW prev \in Facts
  PROVE  Merge(facts, prev) \in Facts
  BY DEF Merge, Facts

\* The three facts that normalising changes, field by field.
LEMMA ExceptFacts ==
  ASSUME NEW merged \in Facts, NEW subtype, NEW channel, NEW possession
  PROVE  [merged EXCEPT !.subtype = subtype, !.channel = channel,
                        !.possession = possession] =
           [subtype |-> subtype, card |-> merged.card, actions |-> merged.actions,
            status |-> merged.status, signals |-> merged.signals, channel |-> channel,
            possession |-> possession]
  <1> DEFINE new  == [merged EXCEPT !.subtype = subtype, !.channel = channel,
                                    !.possession = possession]
             flat == [subtype |-> subtype, card |-> merged.card, actions |-> merged.actions,
                      status |-> merged.status, signals |-> merged.signals,
                      channel |-> channel, possession |-> possession]
             names == {"subtype", "card", "actions", "status", "signals", "channel",
                       "possession"}
  <1>1. DOMAIN merged = names
    BY DEF Facts
  <1>2. new = [f \in names |-> IF f = "possession" THEN possession
                               ELSE IF f = "channel" THEN channel
                               ELSE IF f = "subtype" THEN subtype ELSE merged[f]]
    BY <1>1
  <1>3. flat = [f \in names |-> flat[f]]
    OBVIOUS
  <1>4. \A f \in names : flat[f] = IF f = "possession" THEN possession
                                    ELSE IF f = "channel" THEN channel
                                    ELSE IF f = "subtype" THEN subtype ELSE merged[f]
    OBVIOUS
  <1> HIDE DEF new, flat, names
  <1>5. new = flat
    BY <1>2, <1>3, <1>4
  <1> QED  BY <1>5 DEF new, flat

LEMMA NormalizedTyped ==
  ASSUME NEW text, text.facts \in Facts, NEW merged \in Facts
  PROVE  Normalized(text, merged) \in Facts
  <1> DEFINE subtype    == IF text.intent = "CardNotWorking" THEN text.facts.subtype
                           ELSE merged.subtype
             channel    == IF text.intent = "CardNotWorking" THEN text.facts.channel
                           ELSE merged.channel
             possession == IF merged.card \in {"with_client", "lost"} THEN "known"
                           ELSE merged.possession
  <1>1. Normalized(text, merged) =
           [subtype |-> subtype, card |-> merged.card, actions |-> merged.actions,
            status |-> merged.status, signals |-> merged.signals, channel |-> channel,
            possession |-> possession]
    <2>1. Normalized(text, merged) =
             [merged EXCEPT !.subtype = subtype, !.channel = channel,
                            !.possession = possession]
      <3>1. CASE text.intent = "CardNotWorking"  BY <3>1, Zenon DEF Normalized
      <3>2. CASE text.intent # "CardNotWorking"  BY <3>2, Zenon DEF Normalized
      <3> QED  BY <3>1, <3>2
    <2> HIDE DEF subtype, channel, possession
    <2> QED  BY <2>1, ExceptFacts, Zenon
  <1>2. subtype \in {"unknown", "suspicious", "recurring_subscription", "duplicate_charge"}
    BY DEF Facts
  <1>3. channel \in {"unknown", "online", "pos"}
    BY DEF Facts
  <1>4. possession \in {"unknown", "known"}
    BY DEF Facts
  <1>5. /\ merged.card \in {"unknown", "with_client", "blocked", "lost", "damaged"}
        /\ merged.actions \in SUBSET {"block_card", "unblock_card"}
        /\ merged.status \in {"unknown", "case_unknown", "case_known", "waiting_review"}
        /\ merged.signals \in BOOLEAN
    BY DEF Facts
  <1> HIDE DEF subtype, channel, possession
  <1> QED  BY <1>1, <1>2, <1>3, <1>4, <1>5 DEF Facts

\* A state of one piece: the steps are those of its intent and the phase is
\* the one its plan is in.
WellFormed(s) ==
    /\ s \in States
    /\ PlanOf(s.plan, s.intent)
    /\ s.phase = PhaseFromPlan(s.plan)

LEMMA StateOfFits ==
  ASSUME NEW text \in Texts, NEW prev \in Facts, NEW mode \in SafeModes
  PROVE  WellFormed(StateOf(text, prev, mode))
  <1> DEFINE seen    == Normalized(text, Merge(text.facts, prev))
             facts   == Merge(seen, prev)
             missing == Missing(text.intent, seen)
             plan    == ReducePlanAfterAnalyze(BuildPlan(text.intent),
                                               AnalyzedPhase(text.intent, seen))
             phase   == PhaseFromPlan(plan)
             shown   == ResolveTools(text.intent,
                                     IF mode = "block" THEN "Collect" ELSE phase,
                                     missing, {}, FALSE, "ok", facts)
  <1>1. text.intent \in Intents /\ text.facts \in Facts
    BY TextsAssumption
  <1>2. seen \in Facts /\ facts \in Facts
    BY <1>1, MergeTyped, NormalizedTyped
  <1>3. missing \subseteq Fields
    BY MissingTyped
  <1>4. PlanOf(plan, text.intent)
    BY <1>1, BuildPlanFits, AnalyzeKeepsPlan
  <1>5. phase \in Phases
    BY PhaseTyped
  <1>6. shown \subseteq ToolName
    BY ToolsTyped
  <1>7. mode \in {"ok", "warn", "block"}
    BY InputsAssumption
  <1>8. StateOf(text, prev, mode) =
           [intent |-> text.intent, phase |-> phase, plan |-> plan, missing |-> missing,
            facts |-> facts, shown |-> shown]
    BY DEF StateOf
  <1> HIDE DEF seen, facts, missing, plan, phase, shown
  <1>9. plan \in Plans
    BY <1>4 DEF PlanOf
  <1>10. StateOf(text, prev, mode) \in States
    BY <1>1, <1>2, <1>3, <1>5, <1>6, <1>7, <1>8, <1>9 DEF States
  <1>11. phase = PhaseFromPlan(plan)
    BY DEF phase
  <1> QED  BY <1>4, <1>8, <1>10, <1>11 DEF WellFormed

LEMMA WithPlanFits ==
  ASSUME NEW s, WellFormed(s), NEW plan, PlanOf(plan, s.intent)
  PROVE  WellFormed(WithPlan(s, plan))
  <1>1. PhaseFromPlan(plan) \in Phases /\ plan \in Plans
    BY PhaseTyped DEF PlanOf
  <1> DEFINE new == WithPlan(s, plan)
  <1>2. new \in States /\ new.plan = plan /\ new.intent = s.intent
           /\ new.phase = PhaseFromPlan(plan)
    BY <1>1 DEF WithPlan, WellFormed, States
  <1> QED  BY <1>2 DEF WellFormed

LEMMA StrikeFits ==
  ASSUME NEW s, WellFormed(s), NEW fields
  PROVE  WellFormed([s EXCEPT !.missing = @ \ fields])
  <1> DEFINE new == [s EXCEPT !.missing = @ \ fields]
  <1>1. new \in States /\ new.plan = s.plan /\ new.intent = s.intent /\ new.phase = s.phase
    BY DEF WellFormed, States
  <1> QED  BY <1>1 DEF WellFormed

(***************************************************************************)
(* The state is of one piece.  A handler writes back what it read, so what *)
(* the handlers have read is of one piece as well.                         *)
(***************************************************************************)
StateWhole    == state # NoState => WellFormed(state)
CallsWhole    == \A c \in Calls : call[c].pc \in {"loaded", "allowed", "late", "done"} =>
                    WellFormed(call[c].snap)
ConfirmsWhole == \A k \in Confirms : confirm[k].pc = "loaded" => WellFormed(confirm[k].snap)

Whole == TypeOK /\ StateWhole /\ CallsWhole /\ ConfirmsWhole

LEMMA InitWhole == Init => Whole
  <1> SUFFICES ASSUME Init PROVE Whole
    OBVIOUS
  <1>1. EmptyFacts \in Facts
    BY DEF EmptyFacts, NoFacts, Facts
  <1>2. cases \in Seq(SUBSET Fields)
    BY EmptySeq DEF Init
  <1>3. TypeOK
    BY <1>1, <1>2 DEF Init, TypeOK, StateOrNone, ToolName
  <1> QED  BY <1>3 DEF Init, Whole, StateWhole, CallsWhole, ConfirmsWhole

LEMMA FactsOfState ==
  ASSUME TypeOK, state # NoState
  PROVE  state \in States /\ state.facts \in Facts
  BY DEF TypeOK, StateOrNone, States

LEMMA BeginSuggestWhole ==
  ASSUME Whole, NEW u \in Suggests, BeginSuggest(u)
  PROVE  Whole'
  <1>1. (IF state = NoState THEN EmptyFacts ELSE state.facts) \in Facts
    BY FactsOfState, ZenonT(60) DEF Whole, EmptyFacts, NoFacts, Facts
  <1>2. TypeOK'
    BY <1>1 DEF Whole, TypeOK, BeginSuggest, past
  <1> QED  BY <1>2 DEF Whole, StateWhole, CallsWhole, ConfirmsWhole, BeginSuggest, WellFormed

LEMMA StoreSuggestWhole ==
  ASSUME Whole, NEW u \in Suggests, StoreSuggest(u)
  PROVE  Whole'
  <1>1. PICK text \in Texts, mode \in SafeModes :
           state' = StateOf(text, suggest[u].prev, mode)
    BY DEF StoreSuggest
  <1>2. suggest[u].prev \in Facts
    BY DEF Whole, TypeOK
  <1>3. WellFormed(state')
    BY <1>1, <1>2, StateOfFits
  <1>4. EmptyFacts \in Facts
    BY DEF EmptyFacts, NoFacts, Facts
  <1>5. TypeOK'
    BY <1>3, <1>4 DEF Whole, TypeOK, StoreSuggest, WellFormed, StateOrNone, Writers
  <1>6. StateWhole'
    BY <1>3 DEF StateWhole, WellFormed
  <1> QED  BY <1>5, <1>6 DEF Whole, CallsWhole, ConfirmsWhole, StoreSuggest, WellFormed

LEMMA EndSuggestWhole ==
  ASSUME Whole, NEW u \in Suggests, EndSuggest(u)
  PROVE  Whole'
  <1>1. EmptyFacts \in Facts
    BY DEF EmptyFacts, NoFacts, Facts
  <1>2. TypeOK'
    BY <1>1 DEF Whole, TypeOK, EndSuggest, past
  <1> QED  BY <1>2 DEF Whole, StateWhole, CallsWhole, ConfirmsWhole, EndSuggest, WellFormed

LEMMA LoadForToolWhole ==
  ASSUME Whole, NEW c \in Calls, NEW tool \in Tools, NEW client \in BOOLEAN,
         NEW named \in BOOLEAN, LoadForTool(c, tool, client, named)
  PROVE  Whole'
  <1>1. tool \in ToolName
    BY InputsAssumption
  <1>2. TypeOK'
    BY <1>1 DEF Whole, TypeOK, LoadForTool, callFrame, Writers
  <1>3. CallsWhole'
    <2> SUFFICES ASSUME NEW d \in Calls, call'[d].pc \in {"loaded", "allowed", "late", "done"}
                 PROVE  WellFormed(call'[d].snap)
      BY DEF CallsWhole, WellFormed
    <2>1. CASE d = c
      BY <2>1 DEF Whole, TypeOK, StateWhole, LoadForTool
    <2>2. CASE d # c
      BY <2>2 DEF Whole, TypeOK, CallsWhole, LoadForTool
    <2> QED  BY <2>1, <2>2
  <1> QED  BY <1>2, <1>3 DEF Whole, StateWhole, ConfirmsWhole, LoadForTool, callFrame, WellFormed

\* A step that only moves a call on among the places where its snapshot counts.
LEMMA CallMoves ==
  ASSUME TypeOK, CallsWhole, NEW c \in Calls, NEW pc,
         call[c].pc \in {"loaded", "allowed", "late", "done"} \/ pc \in {"ok", "refused", "failed"},
         call' = [call EXCEPT ![c].pc = pc]
  PROVE  CallsWhole'
  <1> SUFFICES ASSUME NEW d \in Calls, call'[d].pc \in {"loaded", "allowed", "late", "done"}
               PROVE  WellFormed(call'[d].snap)
    BY DEF CallsWhole, WellFormed
  <1>1. call'[d].snap = call[d].snap
    BY DEF TypeOK
  <1>2. call[d].pc \in {"loaded", "allowed", "late", "done"}
    BY DEF TypeOK
  <1> QED  BY <1>1, <1>2 DEF CallsWhole

CallRecs == [pc : {"idle", "loaded", "allowed", "done", "late", "ok", "refused", "failed"},
             tool : ToolName, client : BOOLEAN, named : BOOLEAN, snap : StateOrNone]

ConfirmRecs == [pc : {"idle", "read", "committed", "loaded", "over"},
                fields : SUBSET Fields, case : Nat,
                base : SUBSET Fields, snap : StateOrNone]

\* A call that moves on keeps its type, ...
LEMMA CallMoved ==
  ASSUME TypeOK, NEW c \in Calls,
         NEW pc \in {"allowed", "refused", "failed", "done", "late", "ok"},
         call' = [call EXCEPT ![c].pc = pc]
  PROVE  call' \in [Calls -> CallRecs]
  <1>1. call \in [Calls -> CallRecs]
    BY DEF TypeOK, CallRecs
  <1>2. [call[c] EXCEPT !.pc = pc] \in CallRecs
    BY <1>1 DEF CallRecs
  <1>3. call' = [call EXCEPT ![c] = [call[c] EXCEPT !.pc = pc]]
    OBVIOUS
  <1> QED  BY <1>1, <1>2, <1>3

\* ... a confirmation likewise.
LEMMA ConfirmMoved ==
  ASSUME TypeOK, NEW k \in Confirms,
         NEW pc \in {"committed", "over"},
         confirm' = [confirm EXCEPT ![k].pc = pc]
  PROVE  confirm' \in [Confirms -> ConfirmRecs]
  <1>1. confirm \in [Confirms -> ConfirmRecs]
    BY DEF TypeOK, ConfirmRecs
  <1>2. [confirm[k] EXCEPT !.pc = pc] \in ConfirmRecs
    BY <1>1 DEF ConfirmRecs
  <1>3. confirm' = [confirm EXCEPT ![k] = [confirm[k] EXCEPT !.pc = pc]]
    OBVIOUS
  <1> QED  BY <1>1, <1>2, <1>3

LEMMA CallTyped ==
  ASSUME TypeOK, NEW c \in Calls,
         NEW pc \in {"allowed", "refused", "failed", "done", "late", "ok"},
         call' = [call EXCEPT ![c].pc = pc],
         cases' \in Seq(SUBSET Fields),
         UNCHANGED <<state, suggest, confirm, stale, overwritten, behind, undone>>
  PROVE  TypeOK'
  <1>1. call' \in [Calls -> CallRecs]
    BY CallMoved
  <1> QED  BY <1>1 DEF TypeOK, CallRecs

LEMMA GateWhole ==
  ASSUME Whole, NEW c \in Calls, Gate(c)
  PROVE  Whole'
  <1> DEFINE pc == IF call[c].tool \in Permitted(call[c].snap, call[c].client, Confirmed)
                   THEN "allowed" ELSE "refused"
  <1>1. /\ call[c].pc = "loaded"
        /\ call' = [call EXCEPT ![c].pc = pc]
        /\ pc \in {"allowed", "refused"}
        /\ UNCHANGED <<state, cases, stale, overwritten, callFrame>>
    BY DEF Gate
  <1> HIDE DEF pc
  <1>2. TypeOK'
    <2>1. cases' \in Seq(SUBSET Fields)
      BY <1>1 DEF Whole, TypeOK
    <2> QED  BY <1>1, <2>1, CallTyped DEF Whole, callFrame
  <1>3. CallsWhole'
    BY <1>1, CallMoves DEF Whole
  <1> QED  BY <1>2, <1>3 DEF Whole, StateWhole, ConfirmsWhole, Gate, callFrame, WellFormed

LEMMA DerivedTyped ==
  ASSUME NEW s
  PROVE  Derived(s) \subseteq SUBSET Fields
  BY DEF Derived, Fields, TxnRequired

LEMMA EffectWhole ==
  ASSUME Whole, NEW c \in Calls, Effect(c)
  PROVE  Whole'
  <1> DEFINE pc == IF call[c].pc = "late" THEN "failed" ELSE "done"
  <1>1. /\ call[c].pc \in {"allowed", "late"}
        /\ call' = [call EXCEPT ![c].pc = pc]
        /\ pc \in {"failed", "done"}
        /\ UNCHANGED <<state, stale, overwritten, callFrame>>
    BY DEF Effect
  <1> HIDE DEF pc
  <1>2. cases' \in Seq(SUBSET Fields)
    <2>1. CASE UNCHANGED cases
      BY <2>1 DEF Whole, TypeOK
    <2>2. CASE \E fields \in Derived(state) : cases' = Append(cases, fields)
      BY <2>2, DerivedTyped, AppendProperties DEF Whole, TypeOK
    <2> QED  BY <2>1, <2>2 DEF Effect
  <1>3. TypeOK'
    BY <1>1, <1>2, CallTyped DEF Whole, callFrame
  <1>4. CallsWhole'
    BY <1>1, CallMoves DEF Whole
  <1> QED  BY <1>3, <1>4 DEF Whole, StateWhole, ConfirmsWhole, Effect, callFrame, WellFormed

LEMMA FailCallWhole ==
  ASSUME Whole, NEW c \in Calls, FailCall(c)
  PROVE  Whole'
  <1> DEFINE pc == IF call[c].pc = "allowed" THEN "late" ELSE "failed"
  <1>1. /\ call[c].pc \in {"loaded", "allowed", "done"}
        /\ call' = [call EXCEPT ![c].pc = pc]
        /\ pc \in {"failed", "late"}
        /\ UNCHANGED <<state, cases, stale, overwritten, callFrame>>
    BY DEF FailCall
  <1> HIDE DEF pc
  <1>2. TypeOK'
    <2>1. cases' \in Seq(SUBSET Fields)
      BY <1>1 DEF Whole, TypeOK
    <2> QED  BY <1>1, <2>1, CallTyped DEF Whole, callFrame
  <1>3. CallsWhole'
    BY <1>1, CallMoves DEF Whole
  <1> QED  BY <1>2, <1>3 DEF Whole, StateWhole, ConfirmsWhole, FailCall, callFrame, WellFormed

\* What NoteWrite leaves of the histories' types.
LEMMA NoteWriteTyped ==
  ASSUME TypeOK, NEW x \in Writers, NoteWrite(x)
  PROVE  overwritten' \subseteq Writers /\ stale' \in [Writers -> SUBSET Writers]
  BY DEF TypeOK, NoteWrite

LEMMA StoreToolWhole ==
  ASSUME Whole, NEW c \in Calls, StoreTool(c)
  PROVE  Whole'
  <1> DEFINE new == WithPlan(call[c].snap, Reduced(c))
  <1>1. /\ call[c].pc = "done"
        /\ state' = new
        /\ call' = [call EXCEPT ![c].pc = "ok"]
        /\ NoteWrite(c)
        /\ UNCHANGED <<cases, callFrame>>
    BY DEF StoreTool, StoreAnswer
  <1>2. WellFormed(call[c].snap)
    BY <1>1 DEF Whole, CallsWhole
  <1>3. PlanOf(Reduced(c), call[c].snap.intent)
    BY <1>2, ToolKeepsPlan DEF Reduced, WellFormed, States
  <1>4. WellFormed(state')
    BY <1>1, <1>2, <1>3, WithPlanFits
  <1> HIDE DEF new
  <1>5. c \in Writers
    BY DEF Writers
  <1>6. overwritten' \subseteq Writers /\ stale' \in [Writers -> SUBSET Writers]
    BY <1>1, <1>5, NoteWriteTyped DEF Whole
  <1>7. state' \in StateOrNone
    BY <1>4 DEF WellFormed, StateOrNone
  <1>8. TypeOK'
    <2>1. call' \in [Calls -> CallRecs]
      BY <1>1, CallMoved DEF Whole
    <2>2. UNCHANGED <<cases, suggest, confirm, behind, undone>>
      BY <1>1 DEF callFrame
    <2> QED  BY <1>6, <1>7, <2>1, <2>2 DEF Whole, TypeOK, CallRecs
  <1>9. CallsWhole'
    BY <1>1, CallMoves DEF Whole
  <1>10. StateWhole'
    BY <1>4 DEF StateWhole, WellFormed
  <1> QED  BY <1>1, <1>8, <1>9, <1>10 DEF Whole, ConfirmsWhole, callFrame, WellFormed

LEMMA ReadCaseWhole ==
  ASSUME Whole, NEW k \in Confirms, NEW fields \in Confirmable, NEW n \in DOMAIN cases,
         ReadCase(k, fields, n)
  PROVE  Whole'
  <1>1. fields \subseteq Fields
    BY InputsAssumption
  <1>2. n \in Nat /\ cases[n] \subseteq Fields
    BY DEF Whole, TypeOK
  <1>3. TypeOK'
    BY <1>1, <1>2 DEF Whole, TypeOK, StateOrNone, ReadCase, confirmFrame
  <1>4. ConfirmsWhole'
    BY DEF Whole, TypeOK, ConfirmsWhole, ReadCase, WellFormed
  <1> QED  BY <1>3, <1>4 DEF Whole, StateWhole, CallsWhole, ReadCase, confirmFrame, WellFormed

LEMMA CommitConfirmWhole ==
  ASSUME Whole, NEW k \in Confirms, CommitConfirm(k)
  PROVE  Whole'
  <1> DEFINE n == confirm[k].case
             list == confirm[k].base \union confirm[k].fields
  <1>1. cases' \in Seq(SUBSET Fields)
    <2>1. list \subseteq Fields
      BY DEF Whole, TypeOK
    <2>2. cases' = cases \/ cases' = [cases EXCEPT ![n] = list]
      BY DEF CommitConfirm
    <2> HIDE DEF list
    <2>3. [cases EXCEPT ![n] = list] \in Seq(SUBSET Fields)
      <3>1. cases \in Seq(SUBSET Fields)
        BY DEF Whole, TypeOK
      <3>2. CASE n \in 1..Len(cases)
        BY <2>1, <3>1, <3>2, ExceptSeq
      <3>3. CASE n \notin DOMAIN cases
        <4>1. [cases EXCEPT ![n] = list] = [i \in DOMAIN cases |-> cases[i]]
          BY <3>3
        <4>2. cases = [i \in DOMAIN cases |-> cases[i]]
          BY <3>1
        <4> QED  BY <3>1, <4>1, <4>2
      <3> QED  BY <3>1, <3>2, <3>3
    <2> QED  BY <2>2, <2>3 DEF Whole, TypeOK
  <1>2. /\ behind' \in [Confirms -> SUBSET Confirms]
        /\ undone' \subseteq Confirms
    BY DEF Whole, TypeOK, CommitConfirm
  <1>3. /\ confirm[k].pc = "read"
        /\ confirm' = [confirm EXCEPT ![k].pc = "committed"]
        /\ UNCHANGED <<state, stale, overwritten, confirmFrame>>
    BY DEF CommitConfirm
  <1>4. TypeOK'
    <2>1. confirm' \in [Confirms -> ConfirmRecs]
      BY <1>3, ConfirmMoved DEF Whole
    <2>2. UNCHANGED <<state, call, suggest, stale, overwritten>>
      BY <1>3 DEF confirmFrame
    <2> QED  BY <1>1, <1>2, <2>1, <2>2 DEF Whole, TypeOK, ConfirmRecs
  <1>5. ConfirmsWhole'
    BY <1>3 DEF Whole, TypeOK, ConfirmsWhole, WellFormed
  <1> QED  BY <1>3, <1>4, <1>5 DEF Whole, StateWhole, CallsWhole, confirmFrame, WellFormed

LEMMA LoadForConfirmWhole ==
  ASSUME Whole, NEW k \in Confirms, LoadForConfirm(k)
  PROVE  Whole'
  <1>1. WellFormed(state)
    BY DEF Whole, StateWhole, LoadForConfirm
  <1>2. /\ confirm' = [confirm EXCEPT ![k].pc = "loaded", ![k].snap = state]
        /\ stale' = [stale EXCEPT ![k] = {}]
        /\ UNCHANGED <<state, cases, overwritten, behind, undone, confirmFrame>>
    BY DEF LoadForConfirm
  <1>3. confirm' \in [Confirms -> [pc : {"idle", "read", "committed", "loaded", "over"},
                                   fields : SUBSET Fields, case : Nat,
                                   base : SUBSET Fields, snap : StateOrNone]]
    <2> DEFINE entry == [pc : {"idle", "read", "committed", "loaded", "over"},
                         fields : SUBSET Fields, case : Nat,
                         base : SUBSET Fields, snap : StateOrNone]
    <2>1. confirm \in [Confirms -> entry] /\ state \in StateOrNone
      BY DEF Whole, TypeOK
    <2>2. confirm' = [confirm EXCEPT ![k] = [@ EXCEPT !.pc = "loaded", !.snap = state]]
      BY <1>2, <2>1
    <2>3. [confirm[k] EXCEPT !.pc = "loaded", !.snap = state] \in entry
      BY <2>1
    <2> HIDE DEF entry
    <2>4. confirm' \in [Confirms -> entry]
      BY <2>1, <2>2, <2>3
    <2> QED  BY <2>4 DEF entry
  <1>4. TypeOK'
    <2>1. stale' \in [Writers -> SUBSET Writers]
      BY <1>2 DEF Whole, TypeOK, Writers
    <2>2. UNCHANGED <<state, cases, call, suggest, overwritten, behind, undone>>
      BY <1>2 DEF confirmFrame
    <2> QED  BY <1>3, <2>1, <2>2 DEF Whole, TypeOK
  <1>5. ConfirmsWhole'
    <2> SUFFICES ASSUME NEW j \in Confirms, confirm'[j].pc = "loaded"
                 PROVE  WellFormed(confirm'[j].snap)
      BY DEF ConfirmsWhole, WellFormed
    <2>1. CASE j = k
      BY <1>1, <2>1 DEF Whole, TypeOK, LoadForConfirm
    <2>2. CASE j # k
      BY <2>2 DEF Whole, TypeOK, ConfirmsWhole, LoadForConfirm
    <2> QED  BY <2>1, <2>2
  <1> QED  BY <1>4, <1>5 DEF Whole, StateWhole, CallsWhole, LoadForConfirm, confirmFrame, WellFormed

LEMMA StoreConfirmWhole ==
  ASSUME Whole, NEW k \in Confirms, StoreConfirm(k)
  PROVE  Whole'
  <1>1. WellFormed(confirm[k].snap)
    BY DEF Whole, ConfirmsWhole, StoreConfirm
  <1>2. WellFormed(state')
    BY <1>1, StrikeFits DEF StoreConfirm
  <1>3. k \in Writers
    BY DEF Writers
  <1>4. overwritten' \subseteq Writers /\ stale' \in [Writers -> SUBSET Writers]
    BY <1>3, NoteWriteTyped DEF Whole, StoreConfirm
  <1>5. state' \in StateOrNone
    BY <1>2 DEF WellFormed, StateOrNone
  <1>6. /\ confirm' = [confirm EXCEPT ![k].pc = "over"]
        /\ UNCHANGED <<cases, behind, undone, confirmFrame>>
    BY DEF StoreConfirm
  <1>7. TypeOK'
    <2>1. confirm' \in [Confirms -> ConfirmRecs]
      BY <1>6, ConfirmMoved DEF Whole
    <2>2. UNCHANGED <<cases, call, suggest, behind, undone>>
      BY <1>6 DEF confirmFrame
    <2> QED  BY <1>4, <1>5, <2>1, <2>2 DEF Whole, TypeOK, ConfirmRecs
  <1>8. ConfirmsWhole'
    BY <1>6 DEF Whole, TypeOK, ConfirmsWhole, WellFormed
  <1>9. StateWhole'
    BY <1>2 DEF StateWhole, WellFormed
  <1> QED  BY <1>6, <1>7, <1>8, <1>9 DEF Whole, CallsWhole, confirmFrame, WellFormed

LEMMA ExpireStateWhole ==
  ASSUME Whole, ExpireState
  PROVE  Whole'
  <1>1. TypeOK'
    BY DEF Whole, TypeOK, ExpireState, StateOrNone
  <1> QED  BY <1>1 DEF Whole, StateWhole, CallsWhole, ConfirmsWhole, ExpireState, WellFormed

LEMMA StutterWhole ==
  ASSUME Whole, UNCHANGED vars
  PROVE  Whole'
  <1>1. TypeOK'
    BY DEF Whole, TypeOK, vars
  <1> QED  BY <1>1 DEF Whole, StateWhole, CallsWhole, ConfirmsWhole, WellFormed, vars

LEMMA NextWhole == Whole /\ [Next]_vars => Whole'
  <1> SUFFICES ASSUME Whole, [Next]_vars PROVE Whole'
    OBVIOUS
  <1>1. ASSUME NEW u \in Suggests, Suggest(u) PROVE Whole'
    BY <1>1, BeginSuggestWhole, StoreSuggestWhole, EndSuggestWhole DEF Suggest
  <1>2. ASSUME NEW c \in Calls, ExecuteTool(c) PROVE Whole'
    BY <1>2, LoadForToolWhole, GateWhole, EffectWhole, StoreToolWhole, FailCallWhole
    DEF ExecuteTool
  <1>3. ASSUME NEW k \in Confirms, ProfileConfirm(k) PROVE Whole'
    BY <1>3, ReadCaseWhole, CommitConfirmWhole, LoadForConfirmWhole, StoreConfirmWhole
    DEF ProfileConfirm
  <1> QED  BY <1>1, <1>2, <1>3, ExpireStateWhole, StutterWhole DEF Next

\* Types are kept, for any requests, texts and fields.
THEOREM TypeCorrect == Spec => []TypeOK
  <1>1. Whole => TypeOK
    BY DEF Whole
  <1> QED  BY <1>1, InitWhole, NextWhole, PTL DEF Spec

\* Whatever the handlers interleave, whichever of them wins, the state is of
\* one piece: execute_tool resolves the tools of the plan the operator sees.
THEOREM StateIsOfOnePiece == Spec => []OnePiece
  <1>1. Whole => OnePiece
    BY DEF Whole, StateWhole, WellFormed, PlanOf, OnePiece, HasState
  <1> QED  BY <1>1, InitWhole, NextWhole, PTL DEF Spec

(***************************************************************************)
(* What was written stays, or its loss is named.  A handler that holds a   *)
(* state it read holds with it every write before its read that is not     *)
(* lost; and the list of a case that a confirmation has read has in it     *)
(* what was committed before, or others have committed since.              *)
(***************************************************************************)

\* What a call, or a confirm, that succeeded left is in the state s.
CallIn(r, s)    == /\ s # NoState
                   /\ ReducePlanAfterTool(r.snap.plan, r.tool).done \subseteq s.plan.done
ConfirmIn(r, s) == s # NoState /\ r.fields \intersect s.missing = {}

Rec(x)      == IF x \in Calls THEN call[x] ELSE confirm[x]
In(x, r, s) == IF x \in Calls THEN CallIn(r, s) ELSE ConfirmIn(r, s)
Snap(x)     == Rec(x).snap

StateHas  == \A x \in Writers \ overwritten : Wrote(x) => In(x, Rec(x), state)
SnapsHave == \A d \in Writers : Holding(d) =>
                \A x \in Writers \ (overwritten \union stale[d]) :
                   Wrote(x) => In(x, Rec(x), Snap(d))

Committed(k) == confirm[k].pc \in {"committed", "loaded", "over"}

CaseKnown == \A k \in Confirms : confirm[k].pc # "idle" => confirm[k].case \in DOMAIN cases
CasesHave == \A k \in Confirms \ undone :
                Committed(k) => confirm[k].fields \subseteq cases[confirm[k].case]
ListsHave == \A k \in Confirms : confirm[k].pc = "read" =>
                /\ behind[k] = {} => confirm[k].base = cases[confirm[k].case]
                /\ \A j \in Confirms \ (undone \union behind[k]) :
                      Committed(j) /\ confirm[j].case = confirm[k].case =>
                         confirm[j].fields \subseteq confirm[k].base

WritesKept  == StateHas /\ SnapsHave
CommitsKept == CaseKnown /\ CasesHave /\ ListsHave
LossInv     == WritesKept /\ CommitsKept

LEMMA InitLoss == Init => LossInv
  BY DEF Init, LossInv, WritesKept, StateHas, SnapsHave, CommitsKept, CaseKnown, CasesHave,
         ListsHave, Committed, Wrote, Holding, Writers

\* The next state has what the one before had.
Builds(old, new) == old # NoState => /\ new # NoState
                                     /\ old.plan.done \subseteq new.plan.done
                                     /\ new.missing \subseteq old.missing

LEMMA BuildsKeeps ==
  ASSUME NEW x, NEW r, NEW old, NEW new, In(x, r, old), Builds(old, new)
  PROVE  In(x, r, new)
  BY DEF In, CallIn, ConfirmIn, Builds

\* A step that writes nothing: who holds a state held it before, or has read
\* the one there is.
LEMMA QuietKeeps ==
  ASSUME WritesKept, state' = state, overwritten' = overwritten,
         \A x \in Writers : Wrote(x)' => Wrote(x) /\ Rec(x)' = Rec(x),
         \A d \in Writers : Holding(d)' =>
            \/ Holding(d) /\ Snap(d)' = Snap(d) /\ stale'[d] = stale[d]
            \/ Snap(d)' = state
  PROVE  WritesKept'
  <1>1. StateHas'
    <2> SUFFICES ASSUME NEW x \in Writers, x \notin overwritten, Wrote(x)'
                 PROVE  In(x, Rec(x)', state')
      BY DEF StateHas, In, CallIn, ConfirmIn
    <2>1. In(x, Rec(x), state)
      BY DEF WritesKept, StateHas
    <2> QED  BY <2>1
  <1>2. SnapsHave'
    <2> SUFFICES ASSUME NEW d \in Writers, Holding(d)',
                        NEW x \in Writers, x \notin overwritten, x \notin stale'[d], Wrote(x)'
                 PROVE  In(x, Rec(x)', Snap(d)')
      BY DEF SnapsHave, In, CallIn, ConfirmIn
    <2>1. CASE Holding(d) /\ Snap(d)' = Snap(d) /\ stale'[d] = stale[d]
      <3>1. In(x, Rec(x), Snap(d))
        BY <2>1 DEF WritesKept, SnapsHave
      <3> QED  BY <2>1, <3>1
    <2>2. CASE Snap(d)' = state
      <3>1. In(x, Rec(x), state)
        BY DEF WritesKept, StateHas
      <3> QED  BY <2>2, <3>1
    <2> QED  BY <2>1, <2>2
  <1> QED  BY <1>1, <1>2 DEF WritesKept

\* A new state that builds on none: what was written counts as lost.
LEMMA LossyKeeps ==
  ASSUME WritesKept, UNCHANGED <<call, confirm, stale>>,
         overwritten' = overwritten \union {x \in Writers : Wrote(x)}
  PROVE  WritesKept'
  <1>1. \A x : Wrote(x)' = Wrote(x)
    BY DEF Wrote
  <1>2. StateHas'
    BY <1>1 DEF StateHas
  <1>3. SnapsHave'
    BY <1>1 DEF SnapsHave
  <1> QED  BY <1>2, <1>3 DEF WritesKept

\* A write of what was read, with something added: it loses what was written
\* since the read, and the states others hold do not have it.
LEMMA WriteKeeps ==
  ASSUME WritesKept, NEW w \in Writers, Holding(w), NoteWrite(w),
         Builds(Snap(w), state'), In(w, Rec(w)', state'),
         \A x \in Writers \ {w} : Wrote(x)' => Wrote(x) /\ Rec(x)' = Rec(x),
         \A d \in Writers : Holding(d)' => d # w /\ Holding(d) /\ Snap(d)' = Snap(d)
  PROVE  WritesKept'
  <1>1. /\ overwritten' = overwritten \union stale[w]
        /\ \A d \in Writers : d # w /\ Holding(d) => stale'[d] = stale[d] \union {w}
    BY DEF NoteWrite
  <1>2. StateHas'
    <2> SUFFICES ASSUME NEW x \in Writers, x \notin overwritten', Wrote(x)'
                 PROVE  In(x, Rec(x)', state')
      BY DEF StateHas, In, CallIn, ConfirmIn
    <2>1. CASE x # w
      <3>1. Wrote(x) /\ Rec(x)' = Rec(x)
        BY <2>1
      <3>2. In(x, Rec(x), Snap(w))
        BY <1>1, <3>1 DEF WritesKept, SnapsHave
      <3> QED  BY <3>1, <3>2, BuildsKeeps
    <2> QED  BY <2>1
  <1>3. SnapsHave'
    <2> SUFFICES ASSUME NEW d \in Writers, Holding(d)',
                        NEW x \in Writers, x \notin overwritten', x \notin stale'[d], Wrote(x)'
                 PROVE  In(x, Rec(x)', Snap(d)')
      BY DEF SnapsHave, In, CallIn, ConfirmIn
    <2>1. d # w /\ Holding(d) /\ Snap(d)' = Snap(d)
      OBVIOUS
    <2>2. x # w /\ x \notin overwritten /\ x \notin stale[d]
      BY <1>1, <2>1
    <2>3. Wrote(x) /\ Rec(x)' = Rec(x)
      BY <2>2
    <2>4. In(x, Rec(x), Snap(d))
      BY <2>1, <2>2, <2>3 DEF WritesKept, SnapsHave
    <2> QED  BY <2>1, <2>3, <2>4
  <1> QED  BY <1>2, <1>3 DEF WritesKept

\* A step that leaves the lists there are, and where the confirms are with them.
LEMMA ListsFrame ==
  ASSUME CommitsKept, UNCHANGED <<behind, undone>>,
         \A n \in DOMAIN cases : n \in DOMAIN cases' /\ cases'[n] = cases[n],
         \A k \in Confirms : /\ confirm'[k].fields = confirm[k].fields
                             /\ confirm'[k].case = confirm[k].case
                             /\ confirm'[k].base = confirm[k].base
                             /\ confirm'[k].pc = "idle" <=> confirm[k].pc = "idle"
                             /\ confirm'[k].pc = "read" <=> confirm[k].pc = "read"
                             /\ Committed(k)' <=> Committed(k)
  PROVE  CommitsKept'
  <1>1. CaseKnown'
    BY DEF CommitsKept, CaseKnown
  <1>2. CasesHave'
    <2> SUFFICES ASSUME NEW k \in Confirms, k \notin undone, Committed(k)
                 PROVE  confirm[k].fields \subseteq cases'[confirm[k].case]
      BY DEF CasesHave
    <2>1. confirm[k].case \in DOMAIN cases
      BY DEF CommitsKept, CaseKnown, Committed
    <2> QED  BY <2>1 DEF CommitsKept, CasesHave
  <1>3. ListsHave'
    <2> SUFFICES ASSUME NEW k \in Confirms, confirm[k].pc = "read"
                 PROVE  /\ behind[k] = {} => confirm[k].base = cases'[confirm[k].case]
                        /\ \A j \in Confirms \ (undone \union behind[k]) :
                              Committed(j) /\ confirm[j].case = confirm[k].case =>
                                 confirm[j].fields \subseteq confirm[k].base
      BY DEF ListsHave
    <2>1. confirm[k].case \in DOMAIN cases
      BY DEF CommitsKept, CaseKnown
    <2> QED  BY <2>1 DEF CommitsKept, ListsHave
  <1> QED  BY <1>1, <1>2, <1>3 DEF CommitsKept

LEMMA ConfirmIsNoCall == \A k \in Confirms : k \notin Calls
  BY NamesAssumption

\* A step of the calls, or of none, and of no confirm.
LEMMA OtherStepLists ==
  ASSUME CommitsKept, UNCHANGED <<confirm, behind, undone>>,
         \A n \in DOMAIN cases : n \in DOMAIN cases' /\ cases'[n] = cases[n]
  PROVE  CommitsKept'
  BY ListsFrame DEF Committed

(***************************************************************************)
(* The steps of the calls.                                                 *)
(***************************************************************************)
Held == {"loaded", "allowed", "done"}

LEMMA LoadForToolLoss ==
  ASSUME TypeOK, LossInv, NEW c \in Calls, NEW tool, NEW client, NEW named,
         LoadForTool(c, tool, client, named)
  PROVE  LossInv'
  <1>1. /\ UNCHANGED <<state, cases, overwritten, confirm, behind, undone>>
        /\ call'[c].pc \in {"refused", "loaded"} /\ call'[c].snap = state
        /\ \A d \in Calls : d # c => call'[d] = call[d]
        /\ \A d \in Writers : d # c => stale'[d] = stale[d]
    BY DEF LoadForTool, callFrame, TypeOK
  <1>2. \A x \in Writers : Wrote(x)' => Wrote(x) /\ Rec(x)' = Rec(x)
    BY <1>1 DEF Wrote, Rec
  <1>3. \A d \in Writers : Holding(d)' =>
            \/ Holding(d) /\ Snap(d)' = Snap(d) /\ stale'[d] = stale[d]
            \/ Snap(d)' = state
    BY <1>1 DEF Holding, Snap, Rec
  <1>4. WritesKept'
    BY <1>1, <1>2, <1>3, QuietKeeps DEF LossInv
  <1>5. CommitsKept'
    BY <1>1, OtherStepLists DEF LossInv
  <1> QED  BY <1>4, <1>5 DEF LossInv

\* A call that moves on without an answer.
LEMMA CallMovesLoss ==
  ASSUME TypeOK, WritesKept, NEW c \in Calls, NEW pc, pc # "ok",
         pc \in Held => call[c].pc \in Held,
         call' = [call EXCEPT ![c].pc = pc],
         UNCHANGED <<state, stale, overwritten, confirm>>
  PROVE  WritesKept'
  <1>1. /\ call'[c].pc = pc /\ call'[c].snap = call[c].snap
        /\ \A d \in Calls : d # c => call'[d] = call[d]
    BY DEF TypeOK
  <1>2. \A x \in Writers : Wrote(x)' => Wrote(x) /\ Rec(x)' = Rec(x)
    BY <1>1 DEF Wrote, Rec
  <1>3. \A d \in Writers : Holding(d)' => Holding(d) /\ Snap(d)' = Snap(d)
    BY <1>1 DEF Holding, Snap, Rec, Held
  <1> QED  BY <1>2, <1>3, QuietKeeps

LEMMA GateLoss ==
  ASSUME TypeOK, LossInv, NEW c \in Calls, Gate(c)
  PROVE  LossInv'
  <1> DEFINE pc == IF call[c].tool \in Permitted(call[c].snap, call[c].client, Confirmed)
                   THEN "allowed" ELSE "refused"
  <1>1. /\ call[c].pc = "loaded"
        /\ call' = [call EXCEPT ![c].pc = pc]
        /\ pc \in {"allowed", "refused"}
        /\ UNCHANGED <<state, cases, stale, overwritten, confirm, behind, undone>>
    BY DEF Gate, callFrame
  <1> HIDE DEF pc
  <1>2. WritesKept'
    BY <1>1, CallMovesLoss DEF LossInv, Held
  <1>3. CommitsKept'
    BY <1>1, OtherStepLists DEF LossInv
  <1> QED  BY <1>2, <1>3 DEF LossInv

LEMMA EffectLoss ==
  ASSUME TypeOK, LossInv, NEW c \in Calls, Effect(c)
  PROVE  LossInv'
  <1> DEFINE pc == IF call[c].pc = "late" THEN "failed" ELSE "done"
  <1>1. /\ call' = [call EXCEPT ![c].pc = pc]
        /\ pc \in {"failed", "done"} /\ (pc = "done" => call[c].pc = "allowed")
        /\ UNCHANGED <<state, stale, overwritten, confirm, behind, undone>>
    BY DEF Effect, callFrame
  <1> HIDE DEF pc
  <1>2. WritesKept'
    BY <1>1, CallMovesLoss DEF LossInv, Held
  <1>3. \A n \in DOMAIN cases : n \in DOMAIN cases' /\ cases'[n] = cases[n]
    <2>1. CASE UNCHANGED cases
      BY <2>1
    <2>2. CASE \E fields \in Derived(state) : cases' = Append(cases, fields)
      BY <2>2, DerivedTyped, AppendProperties DEF TypeOK
    <2> QED  BY <2>1, <2>2 DEF Effect
  <1>4. CommitsKept'
    BY <1>1, <1>3, OtherStepLists DEF LossInv
  <1> QED  BY <1>2, <1>4 DEF LossInv

LEMMA FailCallLoss ==
  ASSUME TypeOK, LossInv, NEW c \in Calls, FailCall(c)
  PROVE  LossInv'
  <1> DEFINE pc == IF call[c].pc = "allowed" THEN "late" ELSE "failed"
  <1>1. /\ call' = [call EXCEPT ![c].pc = pc]
        /\ pc \in {"late", "failed"}
        /\ UNCHANGED <<state, cases, stale, overwritten, confirm, behind, undone>>
    BY DEF FailCall, callFrame
  <1> HIDE DEF pc
  <1>2. WritesKept'
    BY <1>1, CallMovesLoss DEF LossInv, Held
  <1>3. CommitsKept'
    BY <1>1, OtherStepLists DEF LossInv
  <1> QED  BY <1>2, <1>3 DEF LossInv

\* The answer is the plan that was read, with the tool's steps done.
LEMMA ReducedBuilds ==
  ASSUME NEW c \in Calls, WellFormed(call[c].snap)
  PROVE  LET new == WithPlan(call[c].snap, Reduced(c))
         IN  Builds(call[c].snap, new) /\ CallIn(call[c], new)
  <1> DEFINE snap == call[c].snap
             new  == WithPlan(snap, Reduced(c))
  <1>1. /\ new \in States /\ new.plan = Reduced(c) /\ new.missing = snap.missing
    <2>1. PlanOf(Reduced(c), snap.intent)
      BY ToolKeepsPlan DEF Reduced, WellFormed, States
    <2>2. Reduced(c) \in Plans /\ PhaseFromPlan(Reduced(c)) \in Phases
      BY <2>1, PhaseTyped DEF PlanOf
    <2> QED  BY <2>2 DEF WithPlan, WellFormed, States
  <1>2. new # NoState
    BY <1>1, NoStateAssumption
  <1>3. snap.plan.done \subseteq Reduced(c).done
    BY ToolKeepsDone DEF Reduced
  <1> QED  BY <1>1, <1>2, <1>3 DEF Builds, CallIn, Reduced

LEMMA StoreToolLoss ==
  ASSUME Whole, LossInv, NEW c \in Calls, StoreTool(c)
  PROVE  LossInv'
  <1> DEFINE new == WithPlan(call[c].snap, Reduced(c))
  <1>1. /\ call[c].pc = "done"
        /\ state' = new
        /\ call' = [call EXCEPT ![c].pc = "ok"]
        /\ NoteWrite(c)
        /\ UNCHANGED <<cases, confirm, behind, undone>>
    BY DEF StoreTool, StoreAnswer, callFrame
  <1>2. /\ call'[c].pc = "ok" /\ call'[c].snap = call[c].snap /\ call'[c].tool = call[c].tool
        /\ \A d \in Calls : d # c => call'[d] = call[d]
    BY <1>1 DEF Whole, TypeOK
  <1>3. c \in Writers /\ Holding(c) /\ Snap(c) = call[c].snap /\ Rec(c)' = call'[c]
    BY <1>1 DEF Writers, Holding, Snap, Rec
  <1>4. Builds(call[c].snap, new) /\ CallIn(call[c], new)
    BY <1>1, ReducedBuilds DEF Whole, CallsWhole
  <1>5. Builds(Snap(c), state') /\ In(c, Rec(c)', state')
    BY <1>1, <1>2, <1>3, <1>4 DEF In, CallIn
  <1>6. \A x \in Writers \ {c} : Wrote(x)' => Wrote(x) /\ Rec(x)' = Rec(x)
    BY <1>1, <1>2 DEF Wrote, Rec
  <1>7. \A d \in Writers : Holding(d)' => d # c /\ Holding(d) /\ Snap(d)' = Snap(d)
    BY <1>1, <1>2 DEF Holding, Snap, Rec
  <1>8. WritesKept'
    <2> HIDE DEF new
    <2> QED  BY <1>1, <1>3, <1>5, <1>6, <1>7, WriteKeeps DEF LossInv
  <1>9. CommitsKept'
    BY <1>1, OtherStepLists DEF LossInv
  <1> QED  BY <1>8, <1>9 DEF LossInv

(***************************************************************************)
(* The steps of the confirms.                                              *)
(***************************************************************************)
LEMMA ReadCaseLoss ==
  ASSUME TypeOK, LossInv, NEW k \in Confirms, NEW fields, NEW n \in DOMAIN cases,
         ReadCase(k, fields, n)
  PROVE  LossInv'
  <1>1. /\ confirm[k].pc = "idle"
        /\ confirm'[k].pc = "read" /\ confirm'[k].case = n /\ confirm'[k].base = cases[n]
        /\ \A j \in Confirms : j # k => confirm'[j] = confirm[j]
        /\ behind'[k] = {}
        /\ \A j \in Confirms : j # k => behind'[j] = behind[j]
        /\ UNCHANGED <<state, cases, stale, overwritten, undone, call>>
    BY DEF ReadCase, confirmFrame, TypeOK
  <1>2. \A x \in Writers : Wrote(x)' => Wrote(x) /\ Rec(x)' = Rec(x)
    BY <1>1, ConfirmIsNoCall DEF Wrote, Rec, Writers
  <1>3. \A d \in Writers : Holding(d)' => Holding(d) /\ Snap(d)' = Snap(d)
    BY <1>1, ConfirmIsNoCall DEF Holding, Snap, Rec, Writers
  <1>4. WritesKept'
    BY <1>1, <1>2, <1>3, QuietKeeps DEF LossInv
  <1>5. \A j \in Confirms : Committed(j)' => j # k /\ Committed(j) /\ confirm'[j] = confirm[j]
    BY <1>1 DEF Committed
  <1>6. CaseKnown'
    BY <1>1 DEF LossInv, CommitsKept, CaseKnown
  <1>7. CasesHave'
    BY <1>1, <1>5 DEF LossInv, CommitsKept, CasesHave
  <1>8. ListsHave'
    <2> SUFFICES ASSUME NEW j \in Confirms, confirm'[j].pc = "read"
                 PROVE  /\ behind'[j] = {} => confirm'[j].base = cases[confirm'[j].case]
                        /\ \A i \in Confirms \ (undone \union behind'[j]) :
                              Committed(i)' /\ confirm'[i].case = confirm'[j].case =>
                                 confirm'[i].fields \subseteq confirm'[j].base
      BY <1>1 DEF ListsHave
    <2>1. CASE j = k
      BY <1>1, <1>5, <2>1 DEF LossInv, CommitsKept, CasesHave
    <2>2. CASE j # k
      BY <1>1, <1>5, <2>2 DEF LossInv, CommitsKept, ListsHave
    <2> QED  BY <2>1, <2>2
  <1> QED  BY <1>4, <1>6, <1>7, <1>8 DEF LossInv, CommitsKept

\* The list goes into the row, or was there: what others committed since the
\* read is lost, and counts as lost, and what they commit next is behind it.
LEMMA CommitConfirmLoss ==
  ASSUME TypeOK, LossInv, NEW k \in Confirms, CommitConfirm(k)
  PROVE  LossInv'
  <1> DEFINE n      == confirm[k].case
             list   == confirm[k].base \union confirm[k].fields
             writes == ~ confirm[k].fields \subseteq confirm[k].base
  <1>1. /\ confirm[k].pc = "read"
        /\ confirm'[k].pc = "committed"
        /\ confirm'[k].fields = confirm[k].fields /\ confirm'[k].case = n
        /\ \A j \in Confirms : j # k => confirm'[j] = confirm[j]
        /\ UNCHANGED <<state, stale, overwritten, call>>
    BY DEF CommitConfirm, confirmFrame, TypeOK
  <1>2. \A j \in Confirms :
           behind'[j] = IF j # k /\ confirm[j].pc = "read" /\ confirm[j].case = n
                        THEN behind[j] \union {k} ELSE behind[j]
    BY DEF CommitConfirm
  <1>3. /\ undone \subseteq undone'
        /\ writes => behind[k] \subseteq undone'
        /\ ~ writes /\ behind[k] # {} => k \in undone'
    BY DEF CommitConfirm
  <1>4. n \in DOMAIN cases
    BY <1>1 DEF LossInv, CommitsKept, CaseKnown
  <1>5. /\ DOMAIN cases' = DOMAIN cases
        /\ \A m \in DOMAIN cases : m # n => cases'[m] = cases[m]
        /\ writes => cases'[n] = list
        /\ ~ writes => cases' = cases
    BY <1>4 DEF CommitConfirm
  <1>6. WritesKept'
    <2>1. \A x \in Writers : Wrote(x)' => Wrote(x) /\ Rec(x)' = Rec(x)
      BY <1>1, ConfirmIsNoCall DEF Wrote, Rec, Writers
    <2>2. \A d \in Writers : Holding(d)' => Holding(d) /\ Snap(d)' = Snap(d)
      BY <1>1, ConfirmIsNoCall DEF Holding, Snap, Rec, Writers
    <2> QED  BY <1>1, <2>1, <2>2, QuietKeeps DEF LossInv
  <1>7. \A j \in Confirms : Committed(j)' => j = k \/ (Committed(j) /\ confirm'[j] = confirm[j])
    BY <1>1 DEF Committed
  <1>8. CaseKnown'
    BY <1>1, <1>4, <1>5 DEF LossInv, CommitsKept, CaseKnown
  <1>9. CasesHave'
    <2> SUFFICES ASSUME NEW j \in Confirms, j \notin undone', Committed(j)'
                 PROVE  confirm'[j].fields \subseteq cases'[confirm'[j].case]
      BY DEF CasesHave
    <2>1. CASE j = k
      <3>1. CASE writes
        BY <1>1, <1>5, <2>1, <3>1
      <3>2. CASE ~ writes
        <4>1. confirm[k].base = cases[n]
          BY <1>1, <1>3, <2>1, <3>2 DEF LossInv, CommitsKept, ListsHave
        <4> QED  BY <1>1, <1>5, <2>1, <3>2, <4>1
      <3> QED  BY <3>1, <3>2
    <2>2. CASE j # k
      <3>1. /\ Committed(j) /\ confirm'[j] = confirm[j] /\ j \notin undone
            /\ confirm[j].case \in DOMAIN cases
        BY <1>3, <1>7, <2>2 DEF LossInv, CommitsKept, CaseKnown, Committed
      <3>2. confirm[j].fields \subseteq cases[confirm[j].case]
        BY <3>1 DEF LossInv, CommitsKept, CasesHave
      <3>3. CASE writes /\ confirm[j].case = n
        <4>1. j \notin behind[k]
          BY <1>3, <3>3
        <4>2. confirm[j].fields \subseteq confirm[k].base
          BY <1>1, <3>1, <3>3, <4>1 DEF LossInv, CommitsKept, ListsHave
        <4> QED  BY <1>5, <3>1, <3>3, <4>2
      <3>4. CASE ~ (writes /\ confirm[j].case = n)
        BY <1>5, <3>1, <3>2, <3>4
      <3> QED  BY <3>3, <3>4
    <2> QED  BY <2>1, <2>2
  <1>10. ListsHave'
    <2> SUFFICES ASSUME NEW j \in Confirms, confirm'[j].pc = "read"
                 PROVE  /\ behind'[j] = {} => confirm'[j].base = cases'[confirm'[j].case]
                        /\ \A i \in Confirms \ (undone' \union behind'[j]) :
                              Committed(i)' /\ confirm'[i].case = confirm'[j].case =>
                                 confirm'[i].fields \subseteq confirm'[j].base
      BY DEF ListsHave
    <2>1. j # k /\ confirm'[j] = confirm[j] /\ confirm[j].pc = "read"
      BY <1>1
    <2>2. confirm[j].case \in DOMAIN cases
      BY <2>1 DEF LossInv, CommitsKept, CaseKnown
    <2>3. behind'[j] = {} => confirm'[j].base = cases'[confirm'[j].case]
      <3> SUFFICES ASSUME behind'[j] = {}
                   PROVE  confirm[j].base = cases'[confirm[j].case]
        BY <2>1
      <3>1. behind[j] = {} /\ confirm[j].case # n
        BY <1>2, <2>1
      <3>2. cases'[confirm[j].case] = cases[confirm[j].case]
        BY <1>5, <2>2, <3>1
      <3> QED  BY <2>1, <3>1, <3>2 DEF LossInv, CommitsKept, ListsHave
    <2>4. ASSUME NEW i \in Confirms, i \notin undone', i \notin behind'[j],
                 Committed(i)', confirm'[i].case = confirm'[j].case
          PROVE  confirm'[i].fields \subseteq confirm'[j].base
      <3>1. i # k
        BY <1>1, <1>2, <2>1, <2>4
      <3>2. Committed(i) /\ confirm'[i] = confirm[i] /\ i \notin undone
        BY <1>3, <1>7, <2>4, <3>1
      <3>3. i \notin behind[j]
        BY <1>2, <2>4
      <3> QED  BY <2>1, <2>4, <3>2, <3>3 DEF LossInv, CommitsKept, ListsHave
    <2> QED  BY <2>3, <2>4
  <1> QED  BY <1>6, <1>8, <1>9, <1>10 DEF LossInv, CommitsKept

LEMMA LoadForConfirmLoss ==
  ASSUME TypeOK, LossInv, NEW k \in Confirms, LoadForConfirm(k)
  PROVE  LossInv'
  <1>1. /\ confirm[k].pc = "committed" /\ confirm'[k].pc = "loaded"
        /\ confirm'[k].snap = state
        /\ confirm'[k].fields = confirm[k].fields /\ confirm'[k].case = confirm[k].case
        /\ confirm'[k].base = confirm[k].base
        /\ \A j \in Confirms : j # k => confirm'[j] = confirm[j]
        /\ \A d \in Writers : d # k => stale'[d] = stale[d]
        /\ UNCHANGED <<state, cases, overwritten, behind, undone, call>>
    BY DEF LoadForConfirm, confirmFrame, TypeOK
  <1>2. \A x \in Writers : Wrote(x)' => Wrote(x) /\ Rec(x)' = Rec(x)
    BY <1>1, ConfirmIsNoCall DEF Wrote, Rec, Writers
  <1>3. \A d \in Writers : Holding(d)' =>
            \/ Holding(d) /\ Snap(d)' = Snap(d) /\ stale'[d] = stale[d]
            \/ Snap(d)' = state
    BY <1>1, ConfirmIsNoCall DEF Holding, Snap, Rec, Writers
  <1>4. WritesKept'
    BY <1>1, <1>2, <1>3, QuietKeeps DEF LossInv
  <1>5. CommitsKept'
    BY <1>1, ListsFrame DEF LossInv, Committed
  <1> QED  BY <1>4, <1>5 DEF LossInv

\* What is written back is what was read, with fewer fields missing.
LEMMA StrikeBuilds ==
  ASSUME NEW k \in Confirms, WellFormed(confirm[k].snap)
  PROVE  LET new == [confirm[k].snap EXCEPT !.missing = @ \ confirm[k].fields]
         IN  Builds(confirm[k].snap, new) /\ ConfirmIn(confirm[k], new)
  <1> DEFINE snap == confirm[k].snap
             new  == [snap EXCEPT !.missing = @ \ confirm[k].fields]
  <1>1. /\ new \in States /\ new.plan = snap.plan
        /\ new.missing = snap.missing \ confirm[k].fields
    BY DEF WellFormed, States
  <1>2. new # NoState
    BY <1>1, NoStateAssumption
  <1> QED  BY <1>1, <1>2 DEF Builds, ConfirmIn

LEMMA StoreConfirmLoss ==
  ASSUME Whole, LossInv, NEW k \in Confirms, StoreConfirm(k)
  PROVE  LossInv'
  <1> DEFINE new == [confirm[k].snap EXCEPT !.missing = @ \ confirm[k].fields]
  <1>1. /\ confirm[k].pc = "loaded"
        /\ state' = new
        /\ confirm' = [confirm EXCEPT ![k].pc = "over"]
        /\ NoteWrite(k)
        /\ UNCHANGED <<cases, behind, undone, call>>
    BY DEF StoreConfirm, confirmFrame
  <1>2. /\ confirm'[k].pc = "over" /\ confirm'[k].snap = confirm[k].snap
        /\ confirm'[k].fields = confirm[k].fields /\ confirm'[k].case = confirm[k].case
        /\ confirm'[k].base = confirm[k].base
        /\ \A j \in Confirms : j # k => confirm'[j] = confirm[j]
    BY <1>1 DEF Whole, TypeOK
  <1>3. k \in Writers /\ Holding(k) /\ Snap(k) = confirm[k].snap /\ Rec(k)' = confirm'[k]
    BY <1>1, ConfirmIsNoCall DEF Writers, Holding, Snap, Rec
  <1>4. Builds(confirm[k].snap, new) /\ ConfirmIn(confirm[k], new)
    BY <1>1, StrikeBuilds DEF Whole, ConfirmsWhole
  <1>5. Builds(Snap(k), state') /\ In(k, Rec(k)', state')
    BY <1>1, <1>2, <1>3, <1>4, ConfirmIsNoCall DEF In, ConfirmIn
  <1>6. \A x \in Writers \ {k} : Wrote(x)' => Wrote(x) /\ Rec(x)' = Rec(x)
    BY <1>1, <1>2 DEF Wrote, Rec, Writers
  <1>7. \A d \in Writers : Holding(d)' => d # k /\ Holding(d) /\ Snap(d)' = Snap(d)
    BY <1>1, <1>2, ConfirmIsNoCall DEF Holding, Snap, Rec, Writers
  <1> HIDE DEF new
  <1>8. WritesKept'
    BY <1>1, <1>3, <1>5, <1>6, <1>7, WriteKeeps DEF LossInv
  <1>9. CommitsKept'
    BY <1>1, <1>2, ListsFrame DEF LossInv, Committed
  <1> QED  BY <1>8, <1>9 DEF LossInv

LEMMA NextLoss == Whole /\ LossInv /\ [Next]_vars => LossInv'
  <1> SUFFICES ASSUME Whole, LossInv, [Next]_vars PROVE LossInv'
    OBVIOUS
  <1> USE DEF Whole
  <1>1. ASSUME UNCHANGED <<state, cases, call, confirm, stale, overwritten, behind, undone>>
        PROVE  LossInv'
    <2>1. WritesKept'
      BY <1>1, QuietKeeps DEF LossInv, Wrote, Rec, Holding, Snap
    <2>2. CommitsKept'
      BY <1>1, OtherStepLists DEF LossInv
    <2> QED  BY <2>1, <2>2 DEF LossInv
  <1>2. ASSUME UNCHANGED <<cases, call, confirm, stale, behind, undone>>,
               overwritten' = overwritten \union {x \in Writers : Wrote(x)}
        PROVE  LossInv'
    BY <1>2, LossyKeeps, OtherStepLists DEF LossInv
  <1>3. ASSUME NEW u \in Suggests, Suggest(u) PROVE LossInv'
    <2>1. CASE BeginSuggest(u)  BY <1>1, <2>1 DEF BeginSuggest, past
    <2>2. CASE StoreSuggest(u)  BY <1>2, <2>2 DEF StoreSuggest
    <2>3. CASE EndSuggest(u)    BY <1>1, <2>3 DEF EndSuggest, past
    <2> QED  BY <1>3, <2>1, <2>2, <2>3 DEF Suggest
  <1>4. ASSUME NEW c \in Calls, ExecuteTool(c) PROVE LossInv'
    BY <1>4, LoadForToolLoss, GateLoss, EffectLoss, StoreToolLoss, FailCallLoss
    DEF ExecuteTool
  <1>5. ASSUME NEW k \in Confirms, ProfileConfirm(k) PROVE LossInv'
    BY <1>5, ReadCaseLoss, CommitConfirmLoss, LoadForConfirmLoss, StoreConfirmLoss
    DEF ProfileConfirm
  <1>6. ASSUME ExpireState PROVE LossInv'
    BY <1>2, <1>6 DEF ExpireState
  <1> QED  BY <1>1, <1>3, <1>4, <1>5, <1>6 DEF Next, vars

\* A tool's result stays in the plan, and the confirmed fields off the missing
\* ones and in the list of their case, unless it was lost in one of the ways
\* that are named: whatever the handlers interleave.
THEOREM LossesAreNamed == Spec => []LossesNamed
  <1>1. LossInv => LossesNamed
    <2> SUFFICES ASSUME LossInv PROVE LossesNamed
      OBVIOUS
    <2>1. ASSUME NEW c \in Calls, c \notin overwritten, call[c].pc = "ok"
          PROVE  HasState /\ ReducePlanAfterTool(call[c].snap.plan, call[c].tool).done
                                \subseteq state.plan.done
      BY <2>1 DEF LossInv, WritesKept, StateHas, Wrote, Writers, Rec, In, CallIn, HasState
    <2>2. ASSUME NEW k \in Confirms, k \notin overwritten, confirm[k].pc = "over"
          PROVE  HasState /\ confirm[k].fields \intersect state.missing = {}
      BY <2>2, ConfirmIsNoCall
      DEF LossInv, WritesKept, StateHas, Wrote, Writers, Rec, In, ConfirmIn, HasState
    <2>3. ASSUME NEW k \in Confirms, k \notin undone,
                 confirm[k].pc \in {"committed", "loaded", "over"}
          PROVE  confirm[k].fields \subseteq cases[confirm[k].case]
      BY <2>3 DEF LossInv, CommitsKept, CasesHave, Committed
    <2> QED  BY <2>1, <2>2, <2>3 DEF LossesNamed
  <1> QED  BY <1>1, InitWhole, NextWhole, InitLoss, NextLoss, PTL DEF Spec

----------------------------------------------------------------------------
(***************************************************************************)
(* Four theorems on the tools, for any requests, texts and fields.         *)
(*                                                                         *)
(* A tool's step is done only if such a tool succeeded: an analysis ticks  *)
(* no tool's step; a result ticks the step of its tool, since execute_tool *)
(* let only tools through that are listed for the intent of the plan; and  *)
(* every plan a handler has read was in the state once, so what is done in *)
(* it had its cause then, and a call that succeeded stays so.              *)
(*                                                                         *)
(* No card is blocked without a reason: what the gate takes for consent is *)
(* in the list of a case, no new case starts with it, and the lists that   *)
(* confirmations have read and write back hold it only after one of them   *)
(* committed it.                                                           *)
(*                                                                         *)
(* A result never moves the phase back: a tool that completes a step is on *)
(* no list of a plan that is at its explanation.                           *)
(*                                                                         *)
(* What the gate lets through and the sidebar does not show: a state that  *)
(* nobody but a suggest wrote is one the worker made of some text, and for *)
(* each of those the two answers are compared.                             *)
(***************************************************************************)

\* The tools' steps that are done in s have their cause among the calls, or in
\* the analysis that knew the case.
CausedAmong(calls, step) ==
    \E c \in Calls : calls[c].pc = "ok" /\ calls[c].tool \in Completes(step)
DoneCaused(calls, s) ==
    \A step \in s.plan.done \intersect ToolSteps :
        CausedAmong(calls, step) \/ AnsweredByAnalysis(s, step)

(***************************************************************************)
(* What the reductions tick off.                                           *)
(***************************************************************************)

\* The steps of a plan, as a set.
LEMMA StepSets ==
  ASSUME NEW plan
  PROVE  /\ plan.steps = Steps("SuspiciousTransaction") =>
              StepsIn(plan) = {"collect_core", "risk_check", "act_get_txn", "case_create",
                               "explain_next"}
         /\ \A intent \in HighRisk : plan.steps = Steps(intent) =>
              StepsIn(plan) = {"collect_risk", "block_now", "case_or_escalate",
                               "explain_reissue"}
         /\ plan.steps = Steps("UnblockReissue") =>
              StepsIn(plan) = {"collect_resolution", "verify_resolution_path",
                               "execute_resolution", "explain_resolution"}
         /\ plan.steps = Steps("CardNotWorking") =>
              StepsIn(plan) = {"identify_channel", "check_limits_settings",
                               "decide_resolution", "explain_resolution"}
         /\ plan.steps = Steps("StatusWhatNext") =>
              StepsIn(plan) = {"identify_case", "status_check", "next_step"}
         /\ plan.steps = Steps("Unknown") => StepsIn(plan) = {"collect", "act", "explain"}
  <1>1. Steps("SuspiciousTransaction") =
           <<"collect_core", "risk_check", "act_get_txn", "case_create", "explain_next">>
    BY DEF Steps, HighRisk
  <1>2. \A intent \in HighRisk : Steps(intent) =
           <<"collect_risk", "block_now", "case_or_escalate", "explain_reissue">>
    BY DEF Steps, HighRisk
  <1>3. Steps("UnblockReissue") =
           <<"collect_resolution", "verify_resolution_path", "execute_resolution",
             "explain_resolution">>
    BY DEF Steps, HighRisk
  <1>4. Steps("CardNotWorking") =
           <<"identify_channel", "check_limits_settings", "decide_resolution",
             "explain_resolution">>
    BY DEF Steps, HighRisk
  <1>5. Steps("StatusWhatNext") = <<"identify_case", "status_check", "next_step">>
    BY DEF Steps, HighRisk
  <1>6. Steps("Unknown") = <<"collect", "act", "explain">>
    BY DEF Steps, HighRisk
  <1>7. ASSUME NEW a, NEW b, NEW c, plan.steps = <<a, b, c>>
        PROVE  StepsIn(plan) = {a, b, c}
    <2>1. DOMAIN plan.steps = {1, 2, 3}
      BY <1>7
    <2> QED  BY <1>7, <2>1 DEF StepsIn
  <1>8. ASSUME NEW a, NEW b, NEW c, NEW d, plan.steps = <<a, b, c, d>>
        PROVE  StepsIn(plan) = {a, b, c, d}
    <2>1. DOMAIN plan.steps = {1, 2, 3, 4}
      BY <1>8
    <2> QED  BY <1>8, <2>1 DEF StepsIn
  <1>9. ASSUME NEW a, NEW b, NEW c, NEW d, NEW e, plan.steps = <<a, b, c, d, e>>
        PROVE  StepsIn(plan) = {a, b, c, d, e}
    <2>1. DOMAIN plan.steps = {1, 2, 3, 4, 5}
      BY <1>9
    <2> QED  BY <1>9, <2>1 DEF StepsIn
  <1>10. plan.steps = Steps("SuspiciousTransaction") =>
            StepsIn(plan) = {"collect_core", "risk_check", "act_get_txn", "case_create",
                             "explain_next"}
    BY <1>1, <1>9
  <1>11. \A intent \in HighRisk : plan.steps = Steps(intent) =>
            StepsIn(plan) = {"collect_risk", "block_now", "case_or_escalate",
                             "explain_reissue"}
    BY <1>2, <1>8
  <1>12. plan.steps = Steps("UnblockReissue") =>
            StepsIn(plan) = {"collect_resolution", "verify_resolution_path",
                             "execute_resolution", "explain_resolution"}
    BY <1>3, <1>8
  <1>13. plan.steps = Steps("CardNotWorking") =>
            StepsIn(plan) = {"identify_channel", "check_limits_settings",
                             "decide_resolution", "explain_resolution"}
    BY <1>4, <1>8
  <1>14. plan.steps = Steps("StatusWhatNext") =>
            StepsIn(plan) = {"identify_case", "status_check", "next_step"}
    BY <1>5, <1>7
  <1>15. plan.steps = Steps("Unknown") => StepsIn(plan) = {"collect", "act", "explain"}
    BY <1>6, <1>7
  <1> QED  BY <1>10, <1>11, <1>12, <1>13, <1>14, <1>15

\* An analysis ticks no step of a tool, but the status of a case it knows.
LEMMA AnalysisTicksNoTool ==
  ASSUME NEW intent \in Intents, NEW facts
  PROVE  LET done == ReducePlanAfterAnalyze(BuildPlan(intent),
                                            AnalyzedPhase(intent, facts)).done
         IN  \A step \in done \intersect ToolSteps :
                step = "status_check" /\ facts.status = "case_known"
  <1> DEFINE plan  == BuildPlan(intent)
             phase == AnalyzedPhase(intent, facts)
  <1>1. plan.done = {} /\ plan.steps = Steps(intent)
    BY DEF BuildPlan
  <1>2. CASE phase = "Collect"
    <2>1. ReducePlanAfterAnalyze(plan, phase) = ApplyDone(plan, {}, "")
      BY <1>2 DEF ReducePlanAfterAnalyze
    <2>2. ApplyDone(plan, {}, "").done = plan.done \union ({} \intersect StepsIn(plan))
      BY DoneOf
    <2>3. ApplyDone(plan, {}, "").done = {}
      BY <1>1, <2>2
    <2> QED  BY <2>1, <2>3
  <1>3. CASE phase = "Act"
    <2>1. intent \in {"LostStolen", "UnblockReissue", "CardNotWorking", "BlockCard"}
      BY <1>3 DEF AnalyzedPhase
    <2>2. ReducePlanAfterAnalyze(plan, phase).done
             \subseteq {"collect_risk", "collect_resolution", "verify_resolution_path",
                        "identify_channel"}
      <3>1. CASE intent \in HighRisk
        <4>1. StepsIn(plan) = {"collect_risk", "block_now", "case_or_escalate",
                               "explain_reissue"}
          BY <1>1, <3>1, StepSets
        <4> QED  BY <1>1, <1>3, <4>1, DoneOf DEF ReducePlanAfterAnalyze
      <3>2. CASE intent = "UnblockReissue"
        <4>1. StepsIn(plan) = {"collect_resolution", "verify_resolution_path",
                               "execute_resolution", "explain_resolution"}
          BY <1>1, <3>2, StepSets
        <4> QED  BY <1>1, <1>3, <4>1, DoneOf DEF ReducePlanAfterAnalyze
      <3>3. CASE intent = "CardNotWorking"
        <4>1. StepsIn(plan) = {"identify_channel", "check_limits_settings",
                               "decide_resolution", "explain_resolution"}
          BY <1>1, <3>3, StepSets
        <4> QED  BY <1>1, <1>3, <4>1, DoneOf DEF ReducePlanAfterAnalyze
      <3> QED  BY <2>1, <3>1, <3>2, <3>3 DEF HighRisk
    <2> QED  BY <2>2 DEF ToolSteps, Completes
  <1>4. CASE phase = "Explain"
    <2>1. intent = "StatusWhatNext"
      BY <1>4 DEF AnalyzedPhase
    <2>2. StepsIn(plan) = {"identify_case", "status_check", "next_step"}
      BY <1>1, <2>1, StepSets
    <2>3. ReducePlanAfterAnalyze(plan, phase).done \subseteq {"identify_case", "status_check"}
      BY <1>1, <1>4, <2>2, DoneOf DEF ReducePlanAfterAnalyze
    <2>4. facts.status = "case_known"
      BY <1>4, <2>1 DEF AnalyzedPhase, Missing
    <2> QED  BY <2>3, <2>4 DEF ToolSteps, Completes
  <1> QED  BY <1>2, <1>3, <1>4 DEF AnalyzedPhase

\* The result of a listed tool ticks, of the steps of tools, only its own.
LEMMA ResultTicksItsStep ==
  ASSUME NEW intent \in Intents, NEW phase \in Phases, NEW plan, plan.steps = Steps(intent),
         NEW tool \in Listed(intent, phase),
         NEW step \in ReducePlanAfterTool(plan, tool).done \intersect ToolSteps,
         step \notin plan.done
  PROVE  tool \in Completes(step)
  <1>1. CASE tool = "get_transactions"
    BY <1>1, DoneOf DEF ReducePlanAfterTool, Completes
  <1>2. CASE tool = "create_case"
    BY <1>2, DoneOf DEF ReducePlanAfterTool, Completes
  <1>3. CASE tool = "get_case_status"
    <2>1. step = "status_check"
      BY <1>3, DoneOf DEF ReducePlanAfterTool
    <2> QED  BY <1>3, <2>1 DEF Completes
  <1>4. CASE tool = "block_card"
    BY <1>4, DoneOf DEF ReducePlanAfterTool, Completes
  <1>5. CASE tool \notin {"get_transactions", "create_case", "get_case_status", "block_card"}
    <2>1. CASE intent \in HighRisk
      <3>1. tool = "reissue_card"
        BY <1>5, <2>1 DEF Listed, HighRisk
      <3>2. StepsIn(plan) = {"collect_risk", "block_now", "case_or_escalate",
                             "explain_reissue"}
        BY <2>1, StepSets
      <3>3. step = "case_or_escalate"
        BY <1>5, <3>2, DoneOf DEF ReducePlanAfterTool
      <3> QED  BY <3>1, <3>3 DEF Completes
    <2>2. CASE intent = "UnblockReissue"
      <3>1. tool \in {"unblock_card", "reissue_card"}
        BY <1>5, <2>2 DEF Listed, HighRisk
      <3>2. StepsIn(plan) = {"collect_resolution", "verify_resolution_path",
                             "execute_resolution", "explain_resolution"}
        BY <2>2, StepSets
      <3>3. step = "execute_resolution"
        BY <1>5, <3>2, DoneOf DEF ReducePlanAfterTool
      <3> QED  BY <3>1, <3>3 DEF Completes
    <2>3. CASE intent = "CardNotWorking"
      <3>1. tool \in {"get_card_limits", "toggle_online_payments", "reissue_card"}
        BY <1>5, <2>3 DEF Listed, HighRisk
      <3>2. StepsIn(plan) = {"identify_channel", "check_limits_settings",
                             "decide_resolution", "explain_resolution"}
        BY <2>3, StepSets
      <3>3. step = "check_limits_settings"
        BY <1>5, <3>2, DoneOf DEF ReducePlanAfterTool
      <3> QED  BY <3>1, <3>3 DEF Completes
    <2>4. CASE intent \in {"SuspiciousTransaction", "StatusWhatNext", "Unknown"}
      BY <1>5, <2>4 DEF Listed, HighRisk
    <2> QED  BY <2>1, <2>2, <2>3, <2>4 DEF Intents, HighRisk
  <1> QED  BY <1>1, <1>2, <1>3, <1>4, <1>5

(***************************************************************************)
(* The invariant, for the state and for every state a handler has read.    *)
(***************************************************************************)
Holds  == {"loaded", "allowed", "late", "done"}
Passed == {"allowed", "late", "done"}

StateCaused    == state # NoState => DoneCaused(call, state)
CallsCaused    == \A c \in Calls : call[c].pc \in Holds => DoneCaused(call, call[c].snap)
ConfirmsCaused == \A k \in Confirms :
                     confirm[k].pc = "loaded" => DoneCaused(call, confirm[k].snap)
PassedListed   == \A c \in Calls :
                     call[c].pc \in Passed =>
                        call[c].tool \in Listed(call[c].snap.intent, call[c].snap.phase)

CauseInv == StateCaused /\ CallsCaused /\ ConfirmsCaused /\ PassedListed

\* A call that succeeded is over, whatever the step is.
OkStays == \A c \in Calls : call[c].pc = "ok" => call'[c] = call[c]

LEMMA CauseStays ==
  ASSUME NEW before, NEW after, \A c \in Calls : before[c].pc = "ok" => after[c] = before[c],
         NEW s, DoneCaused(before, s)
  PROVE  DoneCaused(after, s)
  BY DEF DoneCaused, CausedAmong

\* What a step has to show: of the calls it leaves alone nothing, and of the
\* state and the confirms it leaves alone nothing either.
LEMMA FrameCause ==
  ASSUME CauseInv, OkStays
  PROVE  /\ state' = state => StateCaused'
         /\ confirm' = confirm => ConfirmsCaused'
         /\ \A c \in Calls :
              call'[c].snap = call[c].snap /\ call[c].pc \in Holds =>
                 DoneCaused(call', call'[c].snap)
  <1>1. state' = state => StateCaused'
    BY CauseStays DEF CauseInv, StateCaused, OkStays
  <1>2. confirm' = confirm => ConfirmsCaused'
    BY CauseStays DEF CauseInv, ConfirmsCaused, OkStays
  <1>3. ASSUME NEW c \in Calls, call'[c].snap = call[c].snap, call[c].pc \in Holds
        PROVE  DoneCaused(call', call'[c].snap)
    <2>1. DoneCaused(call, call[c].snap)
      BY <1>3 DEF CauseInv, CallsCaused
    <2>2. DoneCaused(call', call[c].snap)
      BY <2>1, CauseStays DEF OkStays
    <2> QED  BY <1>3, <2>2
  <1> QED  BY <1>1, <1>2, <1>3

\* A step that changes no call and no state a handler has read.
LEMMA QuietCause ==
  ASSUME CauseInv, call' = call, confirm' = confirm, StateCaused'
  PROVE  CauseInv'
  BY DEF CauseInv, CallsCaused, ConfirmsCaused, PassedListed

\* A step of one call that leaves the state and the confirms alone.
LEMMA CallStepCause ==
  ASSUME TypeOK, CauseInv, NEW c \in Calls, call[c].pc # "ok", NEW pc,
         call' = [call EXCEPT ![c].pc = pc], state' = state, confirm' = confirm,
         pc \in Holds => call[c].pc \in Holds,
         pc \in Passed => call[c].tool \in Listed(call[c].snap.intent, call[c].snap.phase)
  PROVE  CauseInv'
  <1>1. OkStays
    BY DEF OkStays, TypeOK
  <1>2. \A d \in Calls : /\ call'[d].snap = call[d].snap
                         /\ call'[d].tool = call[d].tool
                         /\ d # c => call'[d].pc = call[d].pc
    BY DEF TypeOK
  <1>3. call'[c].pc = pc
    BY DEF TypeOK
  <1>4. StateCaused' /\ ConfirmsCaused'
    BY <1>1, FrameCause
  <1>5. CallsCaused'
    <2> SUFFICES ASSUME NEW d \in Calls, call'[d].pc \in Holds
                 PROVE  DoneCaused(call', call'[d].snap)
      BY DEF CallsCaused
    <2>1. call[d].pc \in Holds
      BY <1>2, <1>3
    <2> QED  BY <1>1, <1>2, <2>1, FrameCause
  <1>6. PassedListed'
    <2> SUFFICES ASSUME NEW d \in Calls, call'[d].pc \in Passed
                 PROVE  call[d].tool \in Listed(call[d].snap.intent, call[d].snap.phase)
      BY <1>2 DEF PassedListed
    <2>1. CASE d = c
      BY <1>3, <2>1
    <2>2. CASE d # c
      BY <1>2, <2>2 DEF CauseInv, PassedListed
    <2> QED  BY <2>1, <2>2
  <1> QED  BY <1>4, <1>5, <1>6 DEF CauseInv

LEMMA InitCause == Init => CauseInv
  BY DEF Init, CauseInv, StateCaused, CallsCaused, ConfirmsCaused, PassedListed, Holds, Passed

\* The plan of a suggest is new: of what a tool would tick off, only the status
\* of a case that the analysis knows is done.
LEMMA StoreSuggestCause ==
  ASSUME Whole, CauseInv, NEW u \in Suggests, StoreSuggest(u)
  PROVE  CauseInv'
  <1>1. PICK text \in Texts, mode \in SafeModes :
           state' = StateOf(text, suggest[u].prev, mode)
    BY DEF StoreSuggest
  <1>2. call' = call /\ confirm' = confirm
    BY DEF StoreSuggest
  <1> DEFINE seen == Normalized(text, Merge(text.facts, suggest[u].prev))
  <1>3. state'.plan = ReducePlanAfterAnalyze(BuildPlan(text.intent),
                                             AnalyzedPhase(text.intent, seen))
    BY <1>1 DEF StateOf
  <1>4. text.intent \in Intents
    BY TextsAssumption
  <1>5. seen.status = "case_known" => state'.facts.status = "case_known"
    BY <1>1 DEF StateOf, Merge
  <1> HIDE DEF seen
  <1>6. DoneCaused(call', state')
    BY <1>3, <1>4, <1>5, AnalysisTicksNoTool DEF DoneCaused, AnsweredByAnalysis
  <1> QED  BY <1>2, <1>6, QuietCause DEF StateCaused

LEMMA LoadForToolCause ==
  ASSUME Whole, CauseInv, NEW c \in Calls, NEW tool, NEW client, NEW named,
         LoadForTool(c, tool, client, named)
  PROVE  CauseInv'
  <1> DEFINE pc == IF state = NoState THEN "refused" ELSE "loaded"
             new == [pc |-> pc, tool |-> tool, client |-> client, named |-> named,
                     snap |-> state]
  <1>1. /\ call[c].pc = "idle"
        /\ call' = [call EXCEPT ![c] = new]
        /\ UNCHANGED <<state, confirm>>
    BY DEF LoadForTool, callFrame
  <1>2. /\ call'[c] = new
        /\ \A d \in Calls : d # c => call'[d] = call[d]
    BY <1>1 DEF Whole, TypeOK
  <1>3. OkStays
    BY <1>1, <1>2 DEF OkStays
  <1>4. StateCaused' /\ ConfirmsCaused'
    BY <1>1, <1>3, FrameCause
  <1>5. call'[c].pc \in Holds => state # NoState
    BY <1>2 DEF Holds
  <1>6. call'[c].snap = state' /\ call'[c].pc \notin Passed
    BY <1>1, <1>2 DEF Passed
  <1> HIDE DEF pc, new
  <1>7. CallsCaused'
    <2> SUFFICES ASSUME NEW d \in Calls, call'[d].pc \in Holds
                 PROVE  DoneCaused(call', call'[d].snap)
      BY DEF CallsCaused
    <2>1. CASE d = c
      BY <1>1, <1>4, <1>5, <1>6, <2>1 DEF StateCaused
    <2>2. CASE d # c
      BY <1>2, <1>3, <2>2, FrameCause
    <2> QED  BY <2>1, <2>2
  <1>8. PassedListed'
    BY <1>2, <1>6 DEF CauseInv, PassedListed
  <1> QED  BY <1>4, <1>7, <1>8 DEF CauseInv

\* Only a listed tool is let through.
LEMMA GateCause ==
  ASSUME Whole, CauseInv, NEW c \in Calls, Gate(c)
  PROVE  CauseInv'
  <1> DEFINE passes == call[c].tool \in Permitted(call[c].snap, call[c].client, Confirmed)
             pc     == IF passes THEN "allowed" ELSE "refused"
  <1>1. /\ call[c].pc = "loaded"
        /\ call' = [call EXCEPT ![c].pc = pc]
        /\ UNCHANGED <<state, confirm>>
    BY DEF Gate, callFrame
  <1>2. passes => call[c].tool \in Listed(call[c].snap.intent, call[c].snap.phase)
    BY DEF Permitted, ResolveTools
  <1>3. pc \in Passed => passes
    BY DEF Passed
  <1> HIDE DEF passes, pc
  <1> QED  BY <1>1, <1>2, <1>3, CallStepCause DEF Whole, Holds

LEMMA PassedMovesCause ==
  ASSUME Whole, CauseInv, NEW c \in Calls, call[c].pc \in Passed, NEW pc,
         call' = [call EXCEPT ![c].pc = pc], state' = state, confirm' = confirm
  PROVE  CauseInv'
  <1>1. call[c].pc \in Holds /\ call[c].pc # "ok"
    BY DEF Passed, Holds
  <1>2. call[c].tool \in Listed(call[c].snap.intent, call[c].snap.phase)
    BY DEF CauseInv, PassedListed
  <1> QED  BY <1>1, <1>2, CallStepCause DEF Whole

LEMMA EffectCause ==
  ASSUME Whole, CauseInv, NEW c \in Calls, Effect(c)
  PROVE  CauseInv'
  <1> DEFINE pc == IF call[c].pc = "late" THEN "failed" ELSE "done"
  <1>1. /\ call[c].pc \in Passed
        /\ call' = [call EXCEPT ![c].pc = pc]
        /\ UNCHANGED <<state, confirm>>
    BY DEF Effect, callFrame, Passed
  <1> HIDE DEF pc
  <1> QED  BY <1>1, PassedMovesCause

LEMMA FailCallCause ==
  ASSUME Whole, CauseInv, NEW c \in Calls, FailCall(c)
  PROVE  CauseInv'
  <1> DEFINE pc == IF call[c].pc = "allowed" THEN "late" ELSE "failed"
  <1>1. /\ call[c].pc \in {"loaded", "allowed", "done"}
        /\ call' = [call EXCEPT ![c].pc = pc]
        /\ UNCHANGED <<state, confirm>>
    BY DEF FailCall, callFrame
  <1>2. CASE call[c].pc = "loaded"
    <2>1. pc = "failed"
      BY <1>2
    <2>2. call' = [call EXCEPT ![c].pc = "failed"]
      BY <1>1, <2>1
    <2> QED  BY <1>1, <1>2, <2>2, CallStepCause DEF Whole, Holds, Passed
  <1>3. CASE call[c].pc \in {"allowed", "done"}
    <2>1. call[c].pc \in Passed
      BY <1>3 DEF Passed
    <2> HIDE DEF pc
    <2> QED  BY <1>1, <2>1, PassedMovesCause
  <1> QED  BY <1>1, <1>2, <1>3

\* The result of a tool: its own step has it for a cause, the others had theirs
\* when the state was read.
LEMMA StoreToolCause ==
  ASSUME Whole, CauseInv, NEW c \in Calls, StoreTool(c)
  PROVE  CauseInv'
  <1> DEFINE snap == call[c].snap
             new  == WithPlan(snap, Reduced(c))
  <1>1. /\ call[c].pc = "done"
        /\ state' = new
        /\ call' = [call EXCEPT ![c].pc = "ok"]
        /\ UNCHANGED confirm
    BY DEF StoreTool, StoreAnswer, callFrame
  <1>2. OkStays
    BY <1>1 DEF OkStays, Whole, TypeOK
  <1>3. \A d \in Calls : /\ call'[d].snap = call[d].snap
                         /\ call'[d].tool = call[d].tool
                         /\ d # c => call'[d].pc = call[d].pc
    BY <1>1 DEF Whole, TypeOK
  <1>4. call'[c].pc = "ok" /\ call'[c].tool = call[c].tool
    BY <1>1 DEF Whole, TypeOK
  <1>5. DoneCaused(call', snap)
    BY <1>1, <1>2, <1>3, FrameCause DEF Holds
  <1>6. WellFormed(snap)
    BY <1>1 DEF Whole, CallsWhole
  <1>7. /\ snap.intent \in Intents /\ snap.phase \in Phases
        /\ snap.plan.steps = Steps(snap.intent)
    BY <1>6 DEF WellFormed, States, PlanOf
  <1>8. call[c].tool \in Listed(snap.intent, snap.phase)
    BY <1>1 DEF CauseInv, PassedListed, Passed
  <1>9. new.plan = ReducePlanAfterTool(snap.plan, call[c].tool)
    BY <1>6 DEF WithPlan, Reduced, WellFormed, States
  <1>9a. new.facts = snap.facts
    BY <1>6 DEF WithPlan, WellFormed, States
  <1> HIDE DEF snap, new
  <1>10. ASSUME NEW step \in new.plan.done \intersect ToolSteps
         PROVE  CausedAmong(call', step) \/ AnsweredByAnalysis(new, step)
    <2>1. CASE step \in snap.plan.done
      BY <1>5, <2>1, <1>9a DEF DoneCaused, AnsweredByAnalysis
    <2>2. CASE step \notin snap.plan.done
      <3>1. call[c].tool \in Completes(step)
        BY <1>7, <1>8, <1>9, <2>2, ResultTicksItsStep
      <3> QED  BY <1>4, <3>1 DEF CausedAmong
    <2> QED  BY <2>1, <2>2
  <1>11. StateCaused'
    BY <1>1, <1>10 DEF StateCaused, DoneCaused
  <1>12. CallsCaused'
    <2> SUFFICES ASSUME NEW d \in Calls, call'[d].pc \in Holds
                 PROVE  DoneCaused(call', call'[d].snap)
      BY DEF CallsCaused
    <2>1. d # c
      BY <1>4 DEF Holds
    <2> QED  BY <1>2, <1>3, <2>1, FrameCause
  <1>13. PassedListed'
    <2> SUFFICES ASSUME NEW d \in Calls, call'[d].pc \in Passed
                 PROVE  call[d].tool \in Listed(call[d].snap.intent, call[d].snap.phase)
      BY <1>3 DEF PassedListed
    <2>1. d # c
      BY <1>4 DEF Passed
    <2> QED  BY <1>3, <2>1 DEF CauseInv, PassedListed
  <1>14. ConfirmsCaused'
    BY <1>1, <1>2, FrameCause
  <1> QED  BY <1>11, <1>12, <1>13, <1>14 DEF CauseInv

\* A step of one confirm that leaves the state and the calls alone.
LEMMA ConfirmStepCause ==
  ASSUME CauseInv, NEW k \in Confirms, call' = call, state' = state,
         \A j \in Confirms : j # k => confirm'[j] = confirm[j],
         confirm'[k].pc = "loaded" => DoneCaused(call, confirm'[k].snap)
  PROVE  CauseInv'
  <1>1. ConfirmsCaused'
    BY DEF CauseInv, ConfirmsCaused
  <1> QED  BY <1>1 DEF CauseInv, StateCaused, CallsCaused, PassedListed

LEMMA ReadCaseCause ==
  ASSUME Whole, CauseInv, NEW k \in Confirms, NEW fields, NEW n, ReadCase(k, fields, n)
  PROVE  CauseInv'
  <1>1. confirm'[k].pc = "read" /\ \A j \in Confirms : j # k => confirm'[j] = confirm[j]
    BY DEF ReadCase, Whole, TypeOK
  <1>2. call' = call /\ state' = state
    BY DEF ReadCase, confirmFrame
  <1> QED  BY <1>1, <1>2, ConfirmStepCause

LEMMA CommitConfirmCause ==
  ASSUME Whole, CauseInv, NEW k \in Confirms, CommitConfirm(k)
  PROVE  CauseInv'
  <1>1. confirm' = [confirm EXCEPT ![k].pc = "committed"] /\ call' = call /\ state' = state
    BY DEF CommitConfirm, confirmFrame
  <1>2. confirm'[k].pc = "committed" /\ \A j \in Confirms : j # k => confirm'[j] = confirm[j]
    BY <1>1 DEF Whole, TypeOK
  <1> QED  BY <1>1, <1>2, ConfirmStepCause

LEMMA LoadForConfirmCause ==
  ASSUME Whole, CauseInv, NEW k \in Confirms, LoadForConfirm(k)
  PROVE  CauseInv'
  <1>1. /\ state # NoState
        /\ confirm' = [confirm EXCEPT ![k].pc = "loaded", ![k].snap = state]
        /\ call' = call /\ state' = state
    BY DEF LoadForConfirm, confirmFrame
  <1>2. confirm'[k].snap = state /\ \A j \in Confirms : j # k => confirm'[j] = confirm[j]
    BY <1>1 DEF Whole, TypeOK
  <1>3. DoneCaused(call, state)
    BY <1>1 DEF CauseInv, StateCaused
  <1> QED  BY <1>1, <1>2, <1>3, ConfirmStepCause

LEMMA StoreConfirmCause ==
  ASSUME Whole, CauseInv, NEW k \in Confirms, StoreConfirm(k)
  PROVE  CauseInv'
  <1>1. /\ confirm[k].pc = "loaded"
        /\ state' = [confirm[k].snap EXCEPT !.missing = @ \ confirm[k].fields]
        /\ confirm' = [confirm EXCEPT ![k].pc = "over"]
        /\ call' = call
    BY DEF StoreConfirm, confirmFrame
  <1>2. confirm[k].snap \in States
    BY <1>1 DEF Whole, ConfirmsWhole, WellFormed
  <1>3. state'.plan = confirm[k].snap.plan /\ state'.facts = confirm[k].snap.facts
    BY <1>1, <1>2 DEF States
  <1>4. DoneCaused(call, confirm[k].snap)
    BY <1>1 DEF CauseInv, ConfirmsCaused
  <1>5. StateCaused'
    BY <1>1, <1>3, <1>4 DEF StateCaused, DoneCaused, AnsweredByAnalysis
  <1>6. ConfirmsCaused'
    <2> SUFFICES ASSUME NEW j \in Confirms, confirm'[j].pc = "loaded"
                 PROVE  DoneCaused(call', confirm'[j].snap)
      BY DEF ConfirmsCaused
    <2>1. confirm[j].pc = "loaded" /\ confirm'[j].snap = confirm[j].snap
      BY <1>1 DEF Whole, TypeOK
    <2> QED  BY <1>1, <2>1 DEF CauseInv, ConfirmsCaused
  <1> QED  BY <1>1, <1>5, <1>6 DEF CauseInv, CallsCaused, PassedListed

LEMMA NextCause == Whole /\ CauseInv /\ [Next]_vars => CauseInv'
  <1> SUFFICES ASSUME Whole, CauseInv, [Next]_vars PROVE CauseInv'
    OBVIOUS
  <1>1. ASSUME UNCHANGED <<state, call, confirm>> PROVE CauseInv'
    BY <1>1 DEF CauseInv, StateCaused, CallsCaused, ConfirmsCaused, PassedListed
  <1>2. ASSUME NEW u \in Suggests, Suggest(u) PROVE CauseInv'
    <2>1. CASE BeginSuggest(u)  BY <1>1, <2>1 DEF BeginSuggest
    <2>2. CASE StoreSuggest(u)  BY <2>2, StoreSuggestCause
    <2>3. CASE EndSuggest(u)    BY <1>1, <2>3 DEF EndSuggest
    <2> QED  BY <1>2, <2>1, <2>2, <2>3 DEF Suggest
  <1>3. ASSUME NEW c \in Calls, ExecuteTool(c) PROVE CauseInv'
    BY <1>3, LoadForToolCause, GateCause, EffectCause, StoreToolCause, FailCallCause
    DEF ExecuteTool
  <1>4. ASSUME NEW k \in Confirms, ProfileConfirm(k) PROVE CauseInv'
    BY <1>4, ReadCaseCause, CommitConfirmCause, LoadForConfirmCause, StoreConfirmCause
    DEF ProfileConfirm
  <1>5. ASSUME ExpireState PROVE CauseInv'
    BY <1>5, QuietCause DEF ExpireState, StateCaused
  <1> QED  BY <1>1, <1>2, <1>3, <1>4, <1>5 DEF Next, vars

\* A step that a tool completes is done only if such a tool succeeded: an
\* analysis ticks none of them off but the status of a case it knows, and a stale
\* write only what was done when its handler read the state.
THEOREM DoneCause == Spec => []DoneHasCause
  <1>1. CauseInv => DoneHasCause
    BY DEF CauseInv, StateCaused, DoneCaused, CausedAmong, DoneHasCause, HasState, Succeeded
  <1> QED  BY <1>1, InitWhole, NextWhole, InitCause, NextCause, PTL DEF Spec

(***************************************************************************)
(* The block's reason.                                                     *)
(***************************************************************************)
Consent == "customer_confirm_block"
Agreed(k) == Consent \in confirm[k].fields /\ confirm[k].pc \in {"committed", "loaded", "over"}
Consented == \E k \in Confirms : Agreed(k)

Reason(c) == call[c].client \/ call[c].snap.intent \in HighRisk \/ Consented

BlocksReasoned == \A c \in Calls :
    call[c].tool = "block_card" /\ call[c].pc \in Passed \union {"ok"} => Reason(c)
CasesAgreed == \A n \in DOMAIN cases : Consent \in cases[n] => Consented
BasesAgreed == \A k \in Confirms :
    confirm[k].pc = "read" /\ Consent \in confirm[k].base => Consented

ReasonInv == BlocksReasoned /\ CasesAgreed /\ BasesAgreed

LEMMA InitReason == Init => ReasonInv
  BY DEF Init, ReasonInv, BlocksReasoned, CasesAgreed, BasesAgreed, Passed

\* What the gate asks of a block, with the analysis left out.
LEMMA BlockNeedsReason ==
  ASSUME NEW snap, NEW client, NEW confirmed,
         "block_card" \in Permitted(snap, client, confirmed)
  PROVE  client \/ snap.intent \in HighRisk \/ Consent \in confirmed
  <1>1. BlockEnabled(snap.intent, confirmed, client, NoFacts)
    BY DEF Permitted, ResolveTools, Enabled
  <1>2. ~ NoFacts.signals
    BY DEF NoFacts
  <1> QED  BY <1>1, <1>2 DEF BlockEnabled, Consent

\* A step of the calls, given the cases it leaves.
LEMMA CallStepReason ==
  ASSUME Whole, ReasonInv, NEW c \in Calls, confirm' = confirm,
         \A d \in Calls : d # c => call'[d] = call[d],
         CasesAgreed',
         call'[c].tool = "block_card" /\ call'[c].pc \in Passed \union {"ok"} => Reason(c)'
  PROVE  ReasonInv'
  <1>1. Consented' = Consented
    BY DEF Consented, Agreed
  <1>2. BasesAgreed'
    BY <1>1 DEF ReasonInv, BasesAgreed
  <1>3. BlocksReasoned'
    BY <1>1 DEF ReasonInv, BlocksReasoned, Reason
  <1> QED  BY <1>2, <1>3 DEF ReasonInv

LEMMA LoadForToolReason ==
  ASSUME Whole, ReasonInv, NEW c \in Calls, NEW tool, NEW client, NEW named,
         LoadForTool(c, tool, client, named)
  PROVE  ReasonInv'
  <1>1. /\ call'[c].pc \notin Passed \union {"ok"}
        /\ \A d \in Calls : d # c => call'[d] = call[d]
    BY DEF LoadForTool, Whole, TypeOK, Passed
  <1>2. confirm' = confirm /\ cases' = cases
    BY DEF LoadForTool, callFrame
  <1>3. CasesAgreed'
    BY <1>2 DEF ReasonInv, CasesAgreed, Consented, Agreed
  <1> QED  BY <1>1, <1>2, <1>3, CallStepReason

LEMMA GateReason ==
  ASSUME Whole, ReasonInv, NEW c \in Calls, Gate(c)
  PROVE  ReasonInv'
  <1> DEFINE passes == call[c].tool \in Permitted(call[c].snap, call[c].client, Confirmed)
             pc     == IF passes THEN "allowed" ELSE "refused"
  <1>1. /\ call' = [call EXCEPT ![c].pc = pc]
        /\ confirm' = confirm /\ cases' = cases
    BY DEF Gate, callFrame
  <1>2. pc \in Passed \union {"ok"} => passes
    BY DEF Passed
  <1>3. passes /\ call[c].tool = "block_card" => Reason(c)
    <2>1. Consent \in Confirmed => Consented
      <3>1. CASE cases = <<>>
        BY <3>1 DEF Confirmed
      <3>2. CASE cases # <<>>
        <4>1. Len(cases) \in DOMAIN cases
          BY <3>2 DEF Whole, TypeOK
        <4> QED  BY <3>2, <4>1 DEF Confirmed, ReasonInv, CasesAgreed
      <3> QED  BY <3>1, <3>2
    <2> QED  BY <2>1, BlockNeedsReason DEF Reason
  <1> HIDE DEF passes, pc
  <1>4. /\ call'[c].pc = pc /\ call'[c].tool = call[c].tool
        /\ call'[c].client = call[c].client /\ call'[c].snap = call[c].snap
        /\ \A d \in Calls : d # c => call'[d] = call[d]
    BY <1>1 DEF Whole, TypeOK
  <1>5. CasesAgreed'
    BY <1>1 DEF ReasonInv, CasesAgreed, Consented, Agreed
  <1>6. Reason(c)' = Reason(c)
    BY <1>1, <1>4 DEF Reason, Consented, Agreed
  <1> QED  BY <1>1, <1>2, <1>3, <1>4, <1>5, <1>6, CallStepReason

\* A call that was let through had its reason then.
LEMMA PassedMovesReason ==
  ASSUME Whole, ReasonInv, NEW c \in Calls, NEW pc,
         call[c].pc \in Passed \/ pc = "failed",
         call' = [call EXCEPT ![c].pc = pc], confirm' = confirm, CasesAgreed'
  PROVE  ReasonInv'
  <1>1. /\ call'[c].pc = pc /\ call'[c].tool = call[c].tool
        /\ call'[c].client = call[c].client /\ call'[c].snap = call[c].snap
        /\ \A d \in Calls : d # c => call'[d] = call[d]
    BY DEF Whole, TypeOK
  <1>2. Reason(c)' = Reason(c)
    BY <1>1 DEF Reason, Consented, Agreed
  <1>3. call'[c].tool = "block_card" /\ call'[c].pc \in Passed \union {"ok"} => Reason(c)'
    BY <1>1, <1>2 DEF ReasonInv, BlocksReasoned, Passed
  <1> QED  BY <1>1, <1>3, CallStepReason

LEMMA EffectReason ==
  ASSUME Whole, ReasonInv, NEW c \in Calls, Effect(c)
  PROVE  ReasonInv'
  <1> DEFINE pc == IF call[c].pc = "late" THEN "failed" ELSE "done"
  <1>1. /\ call[c].pc \in Passed
        /\ call' = [call EXCEPT ![c].pc = pc]
        /\ confirm' = confirm
    BY DEF Effect, callFrame, Passed
  <1> HIDE DEF pc
  <1>2. Consented' = Consented
    BY <1>1 DEF Consented, Agreed
  <1>3. CASE cases' = cases
    BY <1>1, <1>2, <1>3, PassedMovesReason DEF ReasonInv, CasesAgreed
  <1>4. CASE \E fields \in Derived(state) : cases' = Append(cases, fields)
    <2>1. PICK fields \in Derived(state) : cases' = Append(cases, fields)
      BY <1>4
    <2>2. Consent \notin fields
      BY DEF Derived, Consent
    <2>3. CasesAgreed'
      <3> SUFFICES ASSUME NEW n \in DOMAIN cases', Consent \in cases'[n]
                   PROVE  Consented
        BY <1>2 DEF CasesAgreed
      <3>1. n \in DOMAIN cases /\ cases'[n] = cases[n]
        BY <2>1, <2>2, AppendProperties, DerivedTyped DEF Whole, TypeOK
      <3> QED  BY <3>1 DEF ReasonInv, CasesAgreed
    <2> QED  BY <1>1, <2>3, PassedMovesReason
  <1> QED  BY <1>3, <1>4 DEF Effect

LEMMA StoreToolReason ==
  ASSUME Whole, ReasonInv, NEW c \in Calls, StoreTool(c)
  PROVE  ReasonInv'
  <1>1. /\ call[c].pc \in Passed
        /\ call' = [call EXCEPT ![c].pc = "ok"]
        /\ confirm' = confirm /\ cases' = cases
    BY DEF StoreTool, StoreAnswer, callFrame, Passed
  <1>2. CasesAgreed'
    BY <1>1 DEF ReasonInv, CasesAgreed, Consented, Agreed
  <1> QED  BY <1>1, <1>2, PassedMovesReason

LEMMA FailCallReason ==
  ASSUME Whole, ReasonInv, NEW c \in Calls, FailCall(c)
  PROVE  ReasonInv'
  <1> DEFINE pc == IF call[c].pc = "allowed" THEN "late" ELSE "failed"
  <1>1. /\ call' = [call EXCEPT ![c].pc = pc]
        /\ confirm' = confirm /\ cases' = cases
    BY DEF FailCall, callFrame
  <1>2. call[c].pc \in Passed \/ pc = "failed"
    BY DEF Passed
  <1> HIDE DEF pc
  <1>3. CasesAgreed'
    BY <1>1 DEF ReasonInv, CasesAgreed, Consented, Agreed
  <1> QED  BY <1>1, <1>2, <1>3, PassedMovesReason

\* A step of one confirm that leaves the calls alone and what was agreed agreed.
LEMMA ConfirmStepReason ==
  ASSUME Whole, ReasonInv, NEW k \in Confirms, call' = call,
         \A j \in Confirms : j # k => confirm'[j] = confirm[j],
         Agreed(k) => Agreed(k)',
         CasesAgreed',
         confirm'[k].pc = "read" /\ Consent \in confirm'[k].base => Consented'
  PROVE  ReasonInv'
  <1>1. Consented => Consented'
    BY DEF Consented, Agreed
  <1>2. BlocksReasoned'
    BY <1>1 DEF ReasonInv, BlocksReasoned, Reason
  <1>3. BasesAgreed'
    BY <1>1 DEF ReasonInv, BasesAgreed
  <1> QED  BY <1>2, <1>3 DEF ReasonInv

LEMMA ReadCaseReason ==
  ASSUME Whole, ReasonInv, NEW k \in Confirms, NEW fields, NEW n \in DOMAIN cases,
         ReadCase(k, fields, n)
  PROVE  ReasonInv'
  <1>1. /\ confirm[k].pc = "idle"
        /\ confirm'[k].base = cases[n]
        /\ \A j \in Confirms : j # k => confirm'[j] = confirm[j]
        /\ call' = call /\ cases' = cases
    BY DEF ReadCase, confirmFrame, Whole, TypeOK
  <1>2. ~ Agreed(k)
    BY <1>1 DEF Agreed
  <1>3. Consented => Consented'
    BY <1>1, <1>2 DEF Consented, Agreed
  <1>4. CasesAgreed'
    BY <1>1, <1>3 DEF ReasonInv, CasesAgreed
  <1>5. Consent \in confirm'[k].base => Consented'
    BY <1>1, <1>3 DEF ReasonInv, CasesAgreed
  <1> QED  BY <1>1, <1>2, <1>4, <1>5, ConfirmStepReason

\* The list written back: what it holds was in the list that was read or is in
\* the request, which is committed with it.
LEMMA CommitConfirmReason ==
  ASSUME Whole, ReasonInv, NEW k \in Confirms, CommitConfirm(k)
  PROVE  ReasonInv'
  <1> DEFINE n    == confirm[k].case
             list == confirm[k].base \union confirm[k].fields
  <1>1. /\ confirm[k].pc = "read"
        /\ confirm' = [confirm EXCEPT ![k].pc = "committed"]
        /\ cases' = cases \/ cases' = [cases EXCEPT ![n] = list]
        /\ call' = call
    BY DEF CommitConfirm, confirmFrame
  <1>2. /\ confirm'[k].pc = "committed" /\ confirm'[k].fields = confirm[k].fields
        /\ \A j \in Confirms : j # k => confirm'[j] = confirm[j]
    BY <1>1 DEF Whole, TypeOK
  <1>3. Consented => Consented'
    BY <1>1, <1>2 DEF Consented, Agreed
  <1>4. Consent \in list => Consented'
    <2>1. CASE Consent \in confirm[k].fields
      BY <1>2, <2>1 DEF Consented, Agreed
    <2>2. CASE Consent \in confirm[k].base
      BY <1>1, <1>3, <2>2 DEF ReasonInv, BasesAgreed
    <2> QED  BY <2>1, <2>2
  <1> HIDE DEF list, n
  <1>5. CasesAgreed'
    <2> SUFFICES ASSUME NEW m \in DOMAIN cases', Consent \in cases'[m]
                 PROVE  Consented'
      BY DEF CasesAgreed
    <2>1. m \in DOMAIN cases /\ (cases'[m] = cases[m] \/ cases'[m] = list)
      BY <1>1
    <2> QED  BY <1>3, <1>4, <2>1 DEF ReasonInv, CasesAgreed
  <1>6. Agreed(k) => Agreed(k)'
    BY <1>1 DEF Agreed
  <1> QED  BY <1>1, <1>2, <1>5, <1>6, ConfirmStepReason

LEMMA LaterConfirmReason ==
  ASSUME Whole, ReasonInv, NEW k \in Confirms, LoadForConfirm(k) \/ StoreConfirm(k)
  PROVE  ReasonInv'
  <1>1. call' = call /\ cases' = cases
    BY DEF LoadForConfirm, StoreConfirm, confirmFrame
  <1>2. /\ confirm'[k].pc \in {"loaded", "over"} /\ confirm'[k].fields = confirm[k].fields
        /\ \A j \in Confirms : j # k => confirm'[j] = confirm[j]
    BY DEF LoadForConfirm, StoreConfirm, Whole, TypeOK
  <1>3. Agreed(k) => Agreed(k)'
    BY <1>2 DEF Agreed
  <1>4. Consented => Consented'
    BY <1>2, <1>3 DEF Consented, Agreed
  <1>5. CasesAgreed'
    BY <1>1, <1>4 DEF ReasonInv, CasesAgreed
  <1> QED  BY <1>1, <1>2, <1>3, <1>5, ConfirmStepReason

LEMMA NextReason == Whole /\ ReasonInv /\ [Next]_vars => ReasonInv'
  <1> SUFFICES ASSUME Whole, ReasonInv, [Next]_vars PROVE ReasonInv'
    OBVIOUS
  <1>1. ASSUME UNCHANGED <<cases, call, confirm>> PROVE ReasonInv'
    BY <1>1 DEF ReasonInv, BlocksReasoned, CasesAgreed, BasesAgreed, Reason, Consented, Agreed
  <1>2. ASSUME NEW u \in Suggests, Suggest(u) PROVE ReasonInv'
    BY <1>1, <1>2 DEF Suggest, BeginSuggest, StoreSuggest, EndSuggest
  <1>3. ASSUME NEW c \in Calls, ExecuteTool(c) PROVE ReasonInv'
    BY <1>3, LoadForToolReason, GateReason, EffectReason, StoreToolReason, FailCallReason
    DEF ExecuteTool
  <1>4. ASSUME NEW k \in Confirms, ProfileConfirm(k) PROVE ReasonInv'
    BY <1>4, ReadCaseReason, CommitConfirmReason, LaterConfirmReason DEF ProfileConfirm
  <1>5. ASSUME ExpireState PROVE ReasonInv'
    BY <1>1, <1>5 DEF ExpireState
  <1> QED  BY <1>1, <1>2, <1>3, <1>4, <1>5 DEF Next, vars

\* No card is blocked without a reason: the request says the client agreed, a
\* confirmation that was committed does, or the conversation was about a lost
\* card or a block when the request came.
THEOREM BlockReason == Spec => []BlockHasReason
  <1>1. ReasonInv => BlockHasReason
    BY DEF ReasonInv, BlocksReasoned, Reason, Consented, Agreed, Consent, BlockHasReason, Passed
  <1> QED  BY <1>1, InitWhole, NextWhole, InitReason, NextReason, PTL DEF Spec

(***************************************************************************)
(* A result never moves the phase back.                                    *)
(***************************************************************************)

\* A tool that completes a step is listed in no plan that is at its
\* explanation, get_case_status apart.
LEMMA CompletersListed ==
  ASSUME NEW intent \in Intents, NEW phase \in Phases, NEW step,
         NEW tool \in Listed(intent, phase), tool \in Completes(step)
  PROVE  phase # "Explain" \/ tool = "get_case_status"
  BY DEF Listed, Completes

\* After the result of a tool that completes a step of the plan there is
\* something to do with a tool, or it is time to explain.
LEMMA ResultPhase ==
  ASSUME NEW intent \in Intents, NEW plan, plan.steps = Steps(intent),
         NEW step \in StepsIn(plan), NEW tool \in Completes(step)
  PROVE  /\ PhaseFromPlan(ReducePlanAfterTool(plan, tool)) \in {"Act", "Explain"}
         /\ tool = "get_case_status" =>
              PhaseFromPlan(ReducePlanAfterTool(plan, tool)) = "Explain"
  <1>1. CASE intent = "SuspiciousTransaction"
    <2>1. StepsIn(plan) = {"collect_core", "risk_check", "act_get_txn", "case_create",
                           "explain_next"}
      BY <1>1, StepSets
    <2>2. tool \in {"get_transactions", "create_case"}
      BY <2>1 DEF Completes
    <2>3. ReducePlanAfterTool(plan, tool).current
             \in {"act_get_txn", "case_create", "explain_next"}
      BY <2>1, <2>2 DEF ReducePlanAfterTool, ApplyDone
    <2> QED  BY <2>2, <2>3 DEF PhaseFromPlan
  <1>2. CASE intent \in HighRisk
    <2>1. StepsIn(plan) = {"collect_risk", "block_now", "case_or_escalate", "explain_reissue"}
      BY <1>2, StepSets
    <2>2. tool \in {"block_card", "create_case", "reissue_card"}
      BY <2>1 DEF Completes
    <2>3. ReducePlanAfterTool(plan, tool).current \in {"case_or_escalate", "explain_reissue"}
      BY <2>1, <2>2 DEF ReducePlanAfterTool, ApplyDone
    <2> QED  BY <2>2, <2>3 DEF PhaseFromPlan
  <1>3. CASE intent = "UnblockReissue"
    <2>1. StepsIn(plan) = {"collect_resolution", "verify_resolution_path",
                           "execute_resolution", "explain_resolution"}
      BY <1>3, StepSets
    <2>2. tool \in {"unblock_card", "reissue_card"}
      BY <2>1 DEF Completes
    <2>3. ReducePlanAfterTool(plan, tool).current = "explain_resolution"
      BY <2>1, <2>2 DEF ReducePlanAfterTool, ApplyDone
    <2> QED  BY <2>2, <2>3 DEF PhaseFromPlan
  <1>4. CASE intent = "CardNotWorking"
    <2>1. StepsIn(plan) = {"identify_channel", "check_limits_settings",
                           "decide_resolution", "explain_resolution"}
      BY <1>4, StepSets
    <2>2. tool \in {"get_card_limits", "toggle_online_payments", "reissue_card"}
      BY <2>1 DEF Completes
    <2>3. ReducePlanAfterTool(plan, tool).current = "decide_resolution"
      BY <2>1, <2>2 DEF ReducePlanAfterTool, ApplyDone
    <2> QED  BY <2>2, <2>3 DEF PhaseFromPlan
  <1>5. CASE intent = "StatusWhatNext"
    <2>1. StepsIn(plan) = {"identify_case", "status_check", "next_step"}
      BY <1>5, StepSets
    <2>2. tool = "get_case_status"
      BY <2>1 DEF Completes
    <2>3. ReducePlanAfterTool(plan, tool).current = "next_step"
      BY <2>1, <2>2 DEF ReducePlanAfterTool, ApplyDone
    <2> QED  BY <2>2, <2>3 DEF PhaseFromPlan
  <1>6. CASE intent = "Unknown"
    <2>1. StepsIn(plan) = {"collect", "act", "explain"}
      BY <1>6, StepSets
    <2>2. tool \in {"create_case", "get_transactions", "block_card"}
      BY <2>1 DEF Completes
    <2>3. ReducePlanAfterTool(plan, tool).current = "explain"
      BY <2>1, <2>2 DEF ReducePlanAfterTool, ApplyDone
    <2> QED  BY <2>2, <2>3 DEF PhaseFromPlan
  <1> QED  BY <1>1, <1>2, <1>3, <1>4, <1>5, <1>6 DEF Intents, HighRisk

MovesOn(c) ==
    call[c].pc = "done" /\ call'[c].pc = "ok" =>
        \/ Rank(state'.phase) >= Rank(call[c].snap.phase)
        \/ \A step \in StepsIn(call[c].snap.plan) : call[c].tool \notin Completes(step)

LEMMA StoreToolMovesOn ==
  ASSUME Whole, CauseInv, NEW c \in Calls, StoreTool(c)
  PROVE  MovesOn(c)
  <1> DEFINE snap == call[c].snap
  <1> SUFFICES ASSUME NEW step \in StepsIn(snap.plan), call[c].tool \in Completes(step)
               PROVE  Rank(state'.phase) >= Rank(snap.phase)
    BY DEF MovesOn
  <1>1. call[c].pc = "done" /\ state' = WithPlan(snap, Reduced(c))
    BY DEF StoreTool, StoreAnswer
  <1>2. WellFormed(snap)
    BY <1>1 DEF Whole, CallsWhole
  <1>3. snap.intent \in Intents /\ snap.phase \in Phases /\ snap.plan.steps = Steps(snap.intent)
    BY <1>2 DEF WellFormed, States, PlanOf
  <1>4. call[c].tool \in Listed(snap.intent, snap.phase)
    BY <1>1 DEF CauseInv, PassedListed, Passed
  <1>5. snap.phase \in {"Collect", "Act"} \/ call[c].tool = "get_case_status"
    BY <1>3, <1>4, CompletersListed DEF Phases
  <1>6. state'.phase = PhaseFromPlan(Reduced(c))
    BY <1>1, <1>2 DEF WithPlan, WellFormed, States
  <1>7. /\ state'.phase \in {"Act", "Explain"}
        /\ call[c].tool = "get_case_status" => state'.phase = "Explain"
    BY <1>3, <1>6, ResultPhase DEF Reduced
  <1> QED  BY <1>3, <1>5, <1>7 DEF Rank, Phases

\* No other step makes a call succeed.
LEMMA OnlyStoreToolSucceeds ==
  ASSUME TypeOK, [Next]_vars, NEW c \in Calls, call[c].pc = "done", call'[c].pc = "ok"
  PROVE  StoreTool(c)
  <1>1. call' # call
    OBVIOUS
  <1>2. PICK d \in Calls : ExecuteTool(d)
    BY <1>1 DEF Next, vars, Suggest, BeginSuggest, StoreSuggest, EndSuggest, ProfileConfirm,
                ReadCase, CommitConfirm, LoadForConfirm, StoreConfirm, confirmFrame,
                ExpireState
  <1>3. ASSUME NEW tool, NEW client, NEW named, LoadForTool(d, tool, client, named)
        PROVE  FALSE
    BY <1>3 DEF LoadForTool, TypeOK
  <1>4. ~ Gate(d)
    BY DEF Gate, TypeOK
  <1>5. ~ Effect(d)
    BY DEF Effect, TypeOK
  <1>6. ~ FailCall(d)
    BY DEF FailCall, TypeOK
  <1>7. StoreTool(d)
    BY <1>2, <1>3, <1>4, <1>5, <1>6 DEF ExecuteTool
  <1>8. d = c
    BY <1>7 DEF StoreTool, StoreAnswer, TypeOK
  <1> QED  BY <1>7, <1>8

\* The result of a tool whose step is in the plan never moves the phase back,
\* on whatever state it is written: execute_tool let it through for its phase.
THEOREM ResultsMoveOn == Spec => ResultMovesOn
  <1>1. Whole /\ CauseInv /\ [Next]_vars =>
           [\A c \in Calls :
               call[c].pc = "done" /\ call'[c].pc = "ok" =>
                  \/ Rank(state'.phase) >= Rank(call[c].snap.phase)
                  \/ \A step \in StepsIn(call[c].snap.plan) :
                        call[c].tool \notin Completes(step)]_vars
    BY OnlyStoreToolSucceeds, StoreToolMovesOn DEF MovesOn, Whole
  <1> QED
    BY <1>1, InitWhole, NextWhole, InitCause, NextCause, PTL DEF Spec, ResultMovesOn

(***************************************************************************)
(* The gate and the sidebar.                                               *)
(***************************************************************************)

\* A state that nobody but a suggest wrote is one that the worker made of a
\* text.
FreshMade ==
    Fresh => \E text \in Texts, prev \in Facts, mode \in SafeModes :
                state = StateOf(text, prev, mode)

LEMMA NextFresh == Whole /\ FreshMade /\ [Next]_vars => FreshMade'
  <1> SUFFICES ASSUME Whole, FreshMade, [Next]_vars, Fresh'
               PROVE  \E text \in Texts, prev \in Facts, mode \in SafeModes :
                         state' = StateOf(text, prev, mode)
    BY DEF FreshMade
  <1>1. ASSUME state' = state, overwritten' = {} => overwritten = {},
               \A x \in Writers : Wrote(x) => Wrote(x)'
        PROVE  \E text \in Texts, prev \in Facts, mode \in SafeModes :
                  state' = StateOf(text, prev, mode)
    BY <1>1 DEF Fresh, FreshMade, HasState
  <1>2. ASSUME NEW u \in Suggests, StoreSuggest(u)
        PROVE  \E text \in Texts, prev \in Facts, mode \in SafeModes :
                  state' = StateOf(text, prev, mode)
    <2>1. suggest[u].prev \in Facts
      BY DEF Whole, TypeOK
    <2> QED  BY <1>2, <2>1 DEF StoreSuggest
  <1>3. ASSUME NEW u \in Suggests, BeginSuggest(u) \/ EndSuggest(u)
        PROVE  UNCHANGED <<state, overwritten, call, confirm>>
    BY <1>3 DEF BeginSuggest, EndSuggest, past
  <1>4. ASSUME UNCHANGED <<state, overwritten, call, confirm>>
        PROVE  \E text \in Texts, prev \in Facts, mode \in SafeModes :
                  state' = StateOf(text, prev, mode)
    BY <1>1, <1>4 DEF Wrote
  <1>5. ASSUME NEW c \in Calls, ExecuteTool(c), ~ StoreTool(c)
        PROVE  /\ UNCHANGED <<state, overwritten, confirm>>
               /\ \A d \in Calls : call[d].pc = "ok" => call'[d].pc = "ok"
    BY <1>5 DEF ExecuteTool, LoadForTool, Gate, Effect, FailCall, callFrame, Whole, TypeOK
  <1>6. ASSUME NEW c \in Calls, StoreTool(c) PROVE FALSE
    <2>1. call'[c].pc = "ok"
      BY <1>6 DEF StoreTool, StoreAnswer, Whole, TypeOK
    <2> QED  BY <2>1 DEF Fresh, Wrote, Writers
  <1>7. ASSUME NEW k \in Confirms, ProfileConfirm(k), ~ StoreConfirm(k)
        PROVE  /\ UNCHANGED <<state, overwritten, call>>
               /\ \A j \in Confirms : confirm[j].pc = "over" => confirm'[j].pc = "over"
    BY <1>7 DEF ProfileConfirm, ReadCase, CommitConfirm, LoadForConfirm, confirmFrame, Whole,
                TypeOK
  <1>8. ASSUME NEW k \in Confirms, StoreConfirm(k) PROVE FALSE
    <2>1. confirm'[k].pc = "over"
      BY <1>8 DEF StoreConfirm, Whole, TypeOK
    <2> QED  BY <2>1, ConfirmIsNoCall DEF Fresh, Wrote, Writers
  <1>9. ~ ExpireState
    BY DEF ExpireState, Fresh, HasState
  <1>10. ASSUME NEW c \in Calls, ExecuteTool(c)
         PROVE  \E text \in Texts, prev \in Facts, mode \in SafeModes :
                   state' = StateOf(text, prev, mode)
    <2>1. \A x \in Writers : Wrote(x) => Wrote(x)'
      BY <1>5, <1>6, <1>10 DEF Wrote
    <2> QED  BY <1>1, <1>5, <1>6, <1>10, <2>1
  <1>11. ASSUME NEW k \in Confirms, ProfileConfirm(k)
         PROVE  \E text \in Texts, prev \in Facts, mode \in SafeModes :
                   state' = StateOf(text, prev, mode)
    <2>1. \A x \in Writers : Wrote(x) => Wrote(x)'
      BY <1>7, <1>8, <1>11 DEF Wrote, Writers
    <2> QED  BY <1>1, <1>7, <1>8, <1>11, <2>1
  <1> QED  BY <1>2, <1>3, <1>4, <1>9, <1>10, <1>11 DEF Next, vars, Suggest

\* For a dispute, and for a text no intent was found in, the worker's plan is
\* at its first step.
LEMMA DisputeCollects ==
  ASSUME NEW intent \in {"SuspiciousTransaction", "Unknown"}, NEW facts
  PROVE  PhaseFromPlan(ReducePlanAfterAnalyze(BuildPlan(intent),
                                              AnalyzedPhase(intent, facts))) = "Collect"
  <1> DEFINE plan == BuildPlan(intent)
             new  == ApplyDone(plan, {}, "")
  <1>1. AnalyzedPhase(intent, facts) = "Collect"
    BY DEF AnalyzedPhase
  <1>2. ReducePlanAfterAnalyze(plan, AnalyzedPhase(intent, facts)) = new
    BY <1>1 DEF ReducePlanAfterAnalyze
  <1>3. plan.steps = Steps(intent) /\ plan.done = {}
    BY DEF BuildPlan
  <1>4. "" \notin StepsIn(plan)
    <2> HIDE DEF plan
    <2>1. CASE intent = "SuspiciousTransaction"
      <3>1. StepsIn(plan) = {"collect_core", "risk_check", "act_get_txn", "case_create",
                             "explain_next"}
        BY <1>3, <2>1, StepSets
      <3> QED  BY <3>1
    <2>2. CASE intent = "Unknown"
      <3>1. StepsIn(plan) = {"collect", "act", "explain"}
        BY <1>3, <2>2, StepSets
      <3> QED  BY <3>1
    <2> QED  BY <2>1, <2>2
  <1>5. \E n \in 3..5 : DOMAIN Steps(intent) = 1..n
    BY StepsShape DEF Intents
  <1>6. new.current = Steps(intent)[1]
    <2>1. {i \in DOMAIN plan.steps : plan.steps[i] \notin plan.done \union ({} \intersect StepsIn(plan))}
             = DOMAIN Steps(intent)
      BY <1>3
    <2>2. Min(DOMAIN Steps(intent)) = 1
      BY <1>5 DEF Min
    <2>3. DOMAIN Steps(intent) # {}
      BY <1>5
    <2> QED  BY <1>3, <1>4, <2>1, <2>2, <2>3 DEF ApplyDone
  <1>7. Steps(intent)[1] \in {"collect_core", "collect"}
    BY DEF Steps, HighRisk
  <1> QED  BY <1>2, <1>6, <1>7 DEF PhaseFromPlan

\* What the gate lets through and the sidebar does not show.
LEMMA BeyondSidebar ==
  ASSUME NEW text \in Texts, NEW prev \in Facts, NEW mode \in SafeModes, NEW s,
         s = StateOf(text, prev, mode),
         NEW tool \in Permitted(s, FALSE, {}) \ s.shown
  PROVE  /\ tool \in {"get_case_status", "reissue_card", "toggle_online_payments",
                      "block_card"}
         /\ tool = "block_card" => s.intent \in HighRisk
  <1> DEFINE intent  == text.intent
             seen    == Normalized(text, Merge(text.facts, prev))
             facts   == Merge(seen, prev)
             missing == Missing(intent, seen)
             phase   == PhaseFromPlan(ReducePlanAfterAnalyze(BuildPlan(intent),
                                                             AnalyzedPhase(intent, seen)))
             beside  == IF mode = "block" THEN "Collect" ELSE phase
  <1>1. intent \in Intents
    BY TextsAssumption
  <1>2. /\ s.intent = intent /\ s.phase = phase /\ s.missing = missing
        /\ s.shown = ResolveTools(intent, beside, missing, {}, FALSE, "ok", facts)
    BY DEF StateOf
  <1>3. phase \in Phases
    BY PhaseTyped
  <1>4. intent \in {"SuspiciousTransaction", "Unknown"} => phase = "Collect"
    BY DisputeCollects
  <1> HIDE DEF seen, facts, missing, phase, intent
  <1>5. /\ tool \in Listed(intent, phase)
        /\ Enabled(tool, intent, phase, missing, {}, FALSE, NoFacts)
        /\ ~ (tool \in Listed(intent, beside)
              /\ Enabled(tool, intent, beside, missing, {}, FALSE, facts))
    BY <1>2 DEF Permitted, ResolveTools
  <1>6. tool \in {"create_case", "get_case_status", "get_transactions", "block_card",
                  "unblock_card", "reissue_card", "get_card_limits", "toggle_online_payments"}
    BY <1>5 DEF Listed
  <1>7. tool # "create_case"
    BY <1>1, <1>3, <1>5 DEF Listed, Open, Enabled, Phases
  <1>8. tool # "get_transactions"
    <2> SUFFICES ASSUME tool = "get_transactions" PROVE FALSE
      OBVIOUS
    <2>1. intent \in {"SuspiciousTransaction", "Unknown"}
      BY <1>1, <1>5 DEF Listed, Intents
    <2>2. tool \notin Open(intent, phase)
      BY <1>4, <2>1 DEF Open
    <2> QED  BY <1>5, <2>2 DEF Enabled, TransactionsEnabled, NoFacts
  <1>9. tool # "unblock_card"
    BY <1>5 DEF Enabled, UnblockEnabled, NoFacts
  <1>10. tool # "get_card_limits"
    BY <1>1, <1>3, <1>5 DEF Listed, Enabled, Phases, HighRisk
  <1>11. tool = "block_card" => intent \in HighRisk
    BY <1>5 DEF Enabled, BlockEnabled, NoFacts
  <1> QED  BY <1>2, <1>6, <1>7, <1>8, <1>9, <1>10, <1>11

\* Beside a fresh draft, and without a case, execute_tool runs nothing that the
\* sidebar does not enable but a status, a reissue, the online payments and the
\* block of a card at high risk.
THEOREM GateAndSidebar == Spec => []GateKeepsToSidebar
  <1>1. Init => FreshMade
    BY DEF Init, FreshMade, Fresh, HasState
  <1>2. FreshMade => GateKeepsToSidebar
    <2> SUFFICES ASSUME FreshMade, Fresh, cases = <<>>,
                        NEW tool \in Permitted(state, FALSE, Confirmed) \ state.shown
                 PROVE  /\ tool \in {"get_case_status", "reissue_card",
                                     "toggle_online_payments", "block_card"}
                        /\ tool = "block_card" => state.intent \in HighRisk
      BY DEF GateKeepsToSidebar
    <2>1. Confirmed = {}
      BY DEF Confirmed
    <2> QED  BY <2>1, BeyondSidebar DEF FreshMade
  <1> QED  BY <1>1, <1>2, InitWhole, NextWhole, NextFresh, PTL DEF Spec
=============================================================================
