----------------------------- MODULE CopilotPlan -----------------------------
(***************************************************************************)
(* The deterministic core of the copilot: which steps the plan of an       *)
(* intent has, what an analysis and a tool's result do to it, which phase  *)
(* it is in, and which tools are enabled.                                  *)
(*                                                                         *)
(* libs/common/state_engine.py, with what feeds it: the missing fields and *)
(* the phase that analyze_guardrails.py computes, and the merge of an      *)
(* analysis with the one before it (_hydrate_analyze of the worker).       *)
(*                                                                         *)
(* A tool has a label and a reason in the code; here it is a name, and a   *)
(* list of tools the set of the enabled ones.  Facts that no rule tells    *)
(* apart share a value: "lost" is also stolen,                              *)
(* "duplicate_charge" also reversal_pending, "suspicious" also the other   *)
(* known subtypes, "waiting_review" also resolved, "pos" also atm.         *)
(***************************************************************************)
EXTENDS Naturals, Sequences, FiniteSetsExt

Intents == {"BlockCard", "UnblockReissue", "LostStolen", "SuspiciousTransaction",
            "CardNotWorking", "StatusWhatNext", "Unknown"}
Phases  == {"Collect", "Act", "Explain"}

ToolName == {"create_case", "get_case_status", "get_transactions", "block_card",
             "unblock_card", "reissue_card", "get_card_limits", "set_card_limits",
             "toggle_online_payments"}

HighRisk == {"BlockCard", "LostStolen"}

TxnRequired == {"card_in_possession", "txn_amount_confirm", "txn_datetime_confirm"}

Fields == TxnRequired \union {"merchant_name_confirm", "customer_confirm_block",
                              "problem_channel_confirm", "case_id"}

Facts == [subtype    : {"unknown", "suspicious", "recurring_subscription",
                        "duplicate_charge"},
          card       : {"unknown", "with_client", "blocked", "lost", "damaged"},
          actions    : SUBSET {"block_card", "unblock_card"},
          status     : {"unknown", "case_unknown", "case_known", "waiting_review"},
          signals    : BOOLEAN,
          channel    : {"unknown", "online", "pos"},
          possession : {"unknown", "known"}]

\* What resolve_tools assumes of the facts when it is given no analysis: of
\* the channel it asks only of an analysis that there is.
NoFacts == [subtype |-> "unknown", card |-> "unknown", actions |-> {},
            status |-> "unknown", signals |-> FALSE, channel |-> "online",
            possession |-> "unknown"]

----------------------------------------------------------------------------
(* Plans                                                                   *)

\* The steps of build_plan, in their order.
Steps(intent) ==
    CASE intent = "SuspiciousTransaction" ->
           <<"collect_core", "risk_check", "act_get_txn", "case_create", "explain_next">>
      [] intent \in HighRisk ->
           <<"collect_risk", "block_now", "case_or_escalate", "explain_reissue">>
      [] intent = "UnblockReissue" ->
           <<"collect_resolution", "verify_resolution_path", "execute_resolution",
             "explain_resolution">>
      [] intent = "CardNotWorking" ->
           <<"identify_channel", "check_limits_settings", "decide_resolution",
             "explain_resolution">>
      [] intent = "StatusWhatNext" -> <<"identify_case", "status_check", "next_step">>
      [] OTHER -> <<"collect", "act", "explain">>

StepsIn(plan) == {plan.steps[i] : i \in DOMAIN plan.steps}
StepIds == UNION {{Steps(n)[i] : i \in DOMAIN Steps(n)} : n \in Intents}
Plans   == [steps : {Steps(n) : n \in Intents}, done : SUBSET StepIds, current : StepIds]

BuildPlan(intent) ==
    [steps |-> Steps(intent), done |-> {}, current |-> Head(Steps(intent))]

\* Mutant of ApplyDone: without a fallback there is no current step.
ApplyDoneFallbackOnly(plan, ids, fallback) ==
    [steps   |-> plan.steps,
     done    |-> plan.done \union (ids \intersect StepsIn(plan)),
     current |-> fallback]

\* The current step: the fallback if the plan has it, else the first that is
\* not done, else the last.
ApplyDone(plan, ids, fallback) ==
    LET done == plan.done \union (ids \intersect StepsIn(plan))
        open == {i \in DOMAIN plan.steps : plan.steps[i] \notin done}
    IN  [steps   |-> plan.steps,
         done    |-> done,
         current |-> IF fallback \in StepsIn(plan) THEN fallback
                     ELSE plan.steps[IF open = {} THEN Len(plan.steps) ELSE Min(open)]]

\* Mutant of ReducePlanAfterAnalyze: an analysis that asks for the block ticks it off.
ReducePlanAfterAnalyzeBlocks(plan, phase) ==
    IF phase = "Act" /\ "block_now" \in StepsIn(plan)
    THEN ApplyDone(plan, {"collect_risk", "block_now"}, "case_or_escalate")
    ELSE ApplyDone(plan, {}, "")

ReducePlanAfterAnalyze(plan, phase) ==
    LET has(id) == id \in StepsIn(plan) IN
    IF phase = "Collect" THEN ApplyDone(plan, {}, "")
    ELSE IF phase = "Act" THEN
        CASE has("act_get_txn") -> ApplyDone(plan, {"collect_core", "risk_check"}, "act_get_txn")
          [] has("block_now")   -> ApplyDone(plan, {"collect_risk"}, "block_now")
          [] has("status_check") -> ApplyDone(plan, {"identify_case"}, "status_check")
          [] has("verify_resolution_path") ->
               ApplyDone(plan, {"collect_resolution", "verify_resolution_path"},
                         "execute_resolution")
          [] has("check_limits_settings") ->
               ApplyDone(plan, {"identify_channel"}, "check_limits_settings")
          [] OTHER -> ApplyDone(plan, {"collect"}, "act")
    ELSE
        CASE has("explain_next") ->
               ApplyDone(plan, {"collect_core", "risk_check", "act_get_txn", "case_create"},
                         "explain_next")
          [] has("explain_reissue") ->
               ApplyDone(plan, {"collect_risk", "block_now", "case_or_escalate"},
                         "explain_reissue")
          [] has("next_step") -> ApplyDone(plan, {"identify_case", "status_check"}, "next_step")
          [] has("explain_resolution") ->
               ApplyDone(plan, StepsIn(plan) \ {"explain_resolution"}, "explain_resolution")
          [] OTHER -> ApplyDone(plan, {"collect", "act"}, "explain")

ReducePlanAfterTool(plan, tool) ==
    LET has(id) == id \in StepsIn(plan) IN
    CASE tool = "get_transactions" ->
           IF has("act_get_txn")
           THEN ApplyDone(plan, {"act_get_txn"},
                          IF has("case_create") THEN "case_create" ELSE "explain_next")
           ELSE ApplyDone(plan, {"act"}, "explain")
      [] tool = "create_case" ->
           IF has("case_create")
           THEN ApplyDone(plan, {"case_create"},
                          IF has("act_get_txn") /\ "act_get_txn" \notin plan.done
                          THEN "act_get_txn" ELSE "explain_next")
           ELSE IF has("case_or_escalate")
           THEN ApplyDone(plan, {"case_or_escalate"}, "explain_reissue")
           ELSE ApplyDone(plan, {"act"}, "explain")
      [] tool = "get_case_status" ->
           IF has("status_check")
           THEN ApplyDone(plan, {"status_check"}, "next_step")
           ELSE ApplyDone(plan, {}, "explain")
      [] tool = "block_card" ->
           IF has("block_now")
           THEN ApplyDone(plan, {"block_now"},
                          IF has("case_or_escalate") THEN "case_or_escalate"
                          ELSE "explain_reissue")
           ELSE ApplyDone(plan, {"act"}, "explain")
      [] OTHER ->
           IF has("case_or_escalate")
           THEN ApplyDone(plan, {"case_or_escalate"}, "explain_reissue")
           ELSE IF has("execute_resolution")
           THEN ApplyDone(plan, {"execute_resolution"}, "explain_resolution")
           ELSE IF has("check_limits_settings")
           THEN ApplyDone(plan, {"check_limits_settings"}, "decide_resolution")
           ELSE IF has("decide_resolution")
           THEN ApplyDone(plan, {"decide_resolution"}, "explain_resolution")
           ELSE ApplyDone(plan, {"act"}, "explain")

\* Mutant of PhaseFromPlan: the list of the steps of a phase lacks one.
PhaseFromPlanForgets(plan) ==
    IF plan.current \in {"act", "act_get_txn", "block_now", "execute_resolution",
                         "check_limits_settings"} THEN "Act"
    ELSE IF plan.current \in {"explain_reissue", "explain_resolution"} THEN "Explain"
    ELSE "Collect"

PhaseFromPlan(plan) ==
    CASE plan.current \in {"explain", "explain_next", "explain_reissue", "next_step",
                           "explain_resolution"} -> "Explain"
      [] plan.current \in {"act", "act_get_txn", "case_create", "block_now",
                           "case_or_escalate", "status_check", "execute_resolution",
                           "check_limits_settings", "decide_resolution"} -> "Act"
      [] OTHER -> "Collect"

----------------------------------------------------------------------------
(* Tools                                                                   *)

\* allowed_tools: the tools on the list of an intent in a phase ...
Listed(intent, phase) ==
    CASE intent = "StatusWhatNext" -> {"get_case_status"}
      [] intent = "CardNotWorking" /\ phase # "Explain" ->
           {"get_card_limits", "toggle_online_payments", "reissue_card"}
      [] intent = "UnblockReissue" /\ phase # "Explain" ->
           {"unblock_card", "reissue_card", "get_case_status"}
      [] intent \in HighRisk /\ phase # "Explain" ->
           {"block_card", "create_case", "reissue_card"}
      [] intent \in {"SuspiciousTransaction", "Unknown"} /\ phase # "Explain" ->
           {"create_case", "get_transactions", "block_card"}
      [] OTHER -> {"get_case_status"}

\* ... and those of them that the list enables.
Open(intent, phase) ==
    CASE phase = "Collect" -> Listed(intent, phase) \intersect {"create_case"}
      [] phase = "Act" /\ intent = "CardNotWorking" ->
           {"get_card_limits", "toggle_online_payments"}
      [] OTHER -> Listed(intent, phase)

\* The rules of resolve_tools, one per tool that has one.  client: the request
\* says client_confirmed.
TransactionsEnabled(open, missing, facts) ==
    /\ missing \intersect
         (TxnRequired \union (IF facts.subtype = "recurring_subscription"
                              THEN {"merchant_name_confirm"} ELSE {})) = {}
    /\ open \/ facts.subtype \in {"recurring_subscription", "duplicate_charge"}

\* Mutant of BlockEnabled: what the rule for a dispute leaves over needs no consent.
BlockEnabledByDefault(intent, confirmed, client, facts) ==
    facts.subtype \in {"recurring_subscription", "duplicate_charge"} =>
        client \/ "customer_confirm_block" \in confirmed \/ "block_card" \in facts.actions

BlockEnabled(intent, confirmed, client, facts) ==
    LET consent == client \/ "customer_confirm_block" \in confirmed IN
    /\ facts.subtype \in {"recurring_subscription", "duplicate_charge"} =>
          consent \/ "block_card" \in facts.actions
    /\ consent \/ intent \in HighRisk \/ facts.signals

ReissueEnabled(open, intent, facts) ==
    \/ intent \in {"LostStolen", "UnblockReissue"} /\ facts.card \in {"lost", "damaged"}
    \/ intent = "CardNotWorking" /\ facts.card = "damaged"
    \/ intent # "CardNotWorking" /\ open

UnblockEnabled(missing, facts) ==
    /\ "unblock_card" \in facts.actions
    /\ facts.status # "case_unknown"
    /\ ~ facts.signals
    /\ facts.card # "lost"
    /\ "case_id" \notin missing

StatusEnabled(open, intent, missing, facts) ==
    \/ facts.status \in {"case_known", "waiting_review"} /\ "case_id" \notin missing
    \/ intent # "StatusWhatNext" /\ open

Enabled(tool, intent, phase, missing, confirmed, client, facts) ==
    LET open == tool \in Open(intent, phase)
        left == missing \ confirmed
    IN  CASE tool = "get_transactions" -> TransactionsEnabled(open, left, facts)
          [] tool = "block_card"       -> BlockEnabled(intent, confirmed, client, facts)
          [] tool = "reissue_card"     -> ReissueEnabled(open, intent, facts)
          [] tool = "unblock_card"     -> UnblockEnabled(left, facts)
          [] tool = "get_case_status"  -> StatusEnabled(open, intent, left, facts)
          [] tool = "get_card_limits"  -> "problem_channel_confirm" \notin left
          [] tool = "toggle_online_payments" ->
               "problem_channel_confirm" \notin left /\ facts.channel = "online"
          [] OTHER -> open

SafeTools == {"create_case", "get_case_status"}

ResolveTools(intent, phase, missing, confirmed, client, safeMode, facts) ==
    {tool \in Listed(intent, phase) :
       /\ Enabled(tool, intent, phase, missing, confirmed, client, facts)
       /\ safeMode # "ok" => tool \in SafeTools}

----------------------------------------------------------------------------
(* Analyses                                                                *)

\* _detect_intent: what the text must contain for an intent to be found.  The
\* model may add facts of its own, but who has the card follows from its state.
Fits(intent, facts) ==
    /\ intent = "LostStolen" => facts.card = "lost"
    /\ intent = "StatusWhatNext" => facts.status # "unknown"
    /\ intent = "BlockCard" => "block_card" \in facts.actions
    /\ intent = "SuspiciousTransaction" => facts.subtype # "unknown" \/ facts.signals
    /\ facts.card \in {"with_client", "lost"} => facts.possession = "known"

\* _normalized_missing_fields: the fields to ask for ...
Missing(intent, facts) ==
    CASE intent = "StatusWhatNext" ->
           IF facts.status = "case_known" THEN {} ELSE {"case_id"}
      [] intent = "LostStolen" ->
           IF facts.card = "lost" \/ facts.signals THEN {} ELSE {"customer_confirm_block"}
      [] intent = "UnblockReissue" ->
           IF "unblock_card" \in facts.actions THEN {"case_id"} ELSE {}
      [] intent = "CardNotWorking" ->
           IF facts.card = "damaged" \/ facts.channel # "unknown" THEN {}
           ELSE {"problem_channel_confirm"}
      [] intent = "BlockCard" ->
           IF "block_card" \in facts.actions \/ facts.signals THEN {}
           ELSE {"customer_confirm_block"}
      [] intent = "SuspiciousTransaction" ->
           {"txn_amount_confirm", "txn_datetime_confirm"}
           \union (IF facts.possession = "unknown" THEN {"card_in_possession"} ELSE {})
           \union (IF "block_card" \in facts.actions THEN {"customer_confirm_block"} ELSE {})
           \union (IF facts.subtype = "recurring_subscription"
                   THEN {"merchant_name_confirm"} ELSE {})
      [] OTHER -> {}

\* ... and the phase, which is Collect for a dispute whatever is known of it.
AnalyzedPhase(intent, facts) ==
    CASE intent = "StatusWhatNext" /\ Missing(intent, facts) = {} -> "Explain"
      [] intent \in {"LostStolen", "UnblockReissue", "CardNotWorking", "BlockCard"}
         /\ Missing(intent, facts) = {} -> "Act"
      [] OTHER -> "Collect"

\* _hydrate_analyze: what the new text does not tell is taken from before.
Merge(facts, prev) ==
    LET keep(new, old) == IF new = "unknown" THEN old ELSE new IN
    [subtype    |-> keep(facts.subtype, prev.subtype),
     card       |-> keep(facts.card, prev.card),
     actions    |-> facts.actions \union prev.actions,
     status     |-> keep(facts.status, prev.status),
     signals    |-> facts.signals \/ prev.signals,
     channel    |-> keep(facts.channel, prev.channel),
     possession |-> keep(facts.possession, prev.possession)]

\* The worker hydrates twice, and the second time normalize_analyze meets the
\* merged facts: the missing fields and the phase are those of a conversation,
\* not of its last text.  For a card that does not work it drops the subtype
\* and the channel again that the text does not tell.
Normalized(text, merged) ==
    [merged EXCEPT
       !.subtype = IF text.intent = "CardNotWorking" THEN text.facts.subtype ELSE @,
       !.channel = IF text.intent = "CardNotWorking" THEN text.facts.channel ELSE @,
       !.possession = IF merged.card \in {"with_client", "lost"} THEN "known" ELSE @]
=============================================================================
