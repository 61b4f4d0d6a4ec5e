---------------------------- MODULE CopilotState ----------------------------
(***************************************************************************)
(* The copilot state of one conversation, one JSON value in Redis, and the *)
(* three handlers that replace it: a suggest task of the worker            *)
(* (run_task), an operator's tool (execute_tool) and the confirmation of a *)
(* profile field (profile_confirm).                                        *)
(*                                                                         *)
(* Each reads the value, awaits for as long as a model, a tool or a commit *)
(* takes, and writes a whole value back; nothing orders them.  The cases   *)
(* of the conversation, whose latest one holds the confirmed fields, are   *)
(* rows of Postgres that execute_tool and profile_confirm read and write   *)
(* along the way.                                                          *)
(*                                                                         *)
(* The sidebar of the last draft is the set of tools it shows as enabled.  *)
(* The caches of analyses and drafts are left out: they give an analysis   *)
(* of the same messages again.                                             *)
(***************************************************************************)
EXTENDS CopilotPlan

CONSTANTS Suggests,      \* suggest tasks
          Calls,         \* requests to /copilot/tools/execute
          Confirms,      \* requests to /copilot/profile/confirm
          Texts,         \* what the messages say: [intent : Intents, facts : Facts]
          SafeModes,     \* what moderation makes of them: ok, warn, block
          Tools,         \* the tools operators ask for
          Confirmable,   \* the sets of fields they confirm
          NoState        \* no value under the key

ASSUME TextsAssumption ==
    Texts \subseteq {t \in [intent : Intents, facts : Facts] : Fits(t.intent, t.facts)}
ASSUME InputsAssumption ==
    /\ SafeModes \subseteq {"ok", "warn", "block"}
    /\ Tools \subseteq ToolName
    /\ Confirmable \subseteq SUBSET Fields
ASSUME NamesAssumption == Calls \intersect Confirms = {}

VARIABLES state,       \* copilot:state:<conversation>
          cases,       \* the confirmed fields of each case, oldest first
          suggest,     \* [Suggests -> run_task, from its read to its write]
          call,        \* [Calls -> execute_tool]
          confirm,     \* [Confirms -> profile_confirm]
          stale,       \* history: the writes since each handler's read
          overwritten, \* history: the writes a later one did not build on
          behind,      \* history: the commits since each confirm's read
          undone       \* history: the confirms another confirm wrote over, or
                       \* that others committed before without it

vars == <<state, cases, suggest, call, confirm, stale, overwritten, behind, undone>>
past == <<stale, overwritten, behind, undone>>

States == [intent : Intents, phase : Phases, plan : Plans, missing : SUBSET Fields,
           facts : Facts, shown : SUBSET ToolName]
StateOrNone == States \union {NoState}

ASSUME NoStateAssumption == NoState \notin States

Writers == Calls \union Confirms
EmptyFacts == [NoFacts EXCEPT !.channel = "unknown"]

TypeOK ==
    /\ state \in StateOrNone
    /\ cases \in Seq(SUBSET Fields)
    /\ suggest \in [Suggests -> [pc : {"idle", "read", "over"}, prev : Facts]]
    /\ call \in [Calls -> [pc : {"idle", "loaded", "allowed", "done", "late", "ok",
                                 "refused", "failed"},
                           tool : ToolName, client : BOOLEAN, named : BOOLEAN,
                           snap : StateOrNone]]
    /\ confirm \in [Confirms -> [pc : {"idle", "read", "committed", "loaded", "over"},
                                 fields : SUBSET Fields, case : Nat,
                                 base : SUBSET Fields, snap : StateOrNone]]
    /\ stale \in [Writers -> SUBSET Writers]
    /\ overwritten \subseteq Writers
    /\ behind \in [Confirms -> SUBSET Confirms]
    /\ undone \subseteq Confirms

----------------------------------------------------------------------------
(* History                                                                 *)

Holding(x) == IF x \in Calls THEN call[x].pc \in {"loaded", "allowed", "done"}
                             ELSE confirm[x].pc = "loaded"
Wrote(x)   == IF x \in Calls THEN call[x].pc = "ok" ELSE confirm[x].pc = "over"

\* x replaces the state it read, and with it what was written in between.
NoteWrite(x) ==
    /\ overwritten' = overwritten \union stale[x]
    /\ stale' = [y \in Writers |->
                   IF y # x /\ Holding(y) THEN stale[y] \union {x} ELSE {}]

----------------------------------------------------------------------------
(* run_task                                                                *)

\* The state is read before everything else; only the analysis in it is used.
BeginSuggest(u) ==
    /\ suggest[u].pc = "idle"
    /\ suggest' = [suggest EXCEPT ![u] =
                     [pc |-> "read",
                      prev |-> IF state = NoState THEN EmptyFacts ELSE state.facts]]
    /\ UNCHANGED <<state, cases, call, confirm, past>>

\* What the worker makes of a text: a plan built from nothing, and a sidebar
\* whose tools repair_draft resolves for the draft's phase, which is Collect
\* for the draft of a blocked text.
StateOf(text, prev, mode) ==
    LET seen    == Normalized(text, Merge(text.facts, prev))
        facts   == Merge(seen, prev)
        missing == Missing(text.intent, seen)
        plan    == ReducePlanAfterAnalyze(BuildPlan(text.intent),
                                          AnalyzedPhase(text.intent, seen))
        phase   == PhaseFromPlan(plan)
    IN  [intent |-> text.intent, phase |-> phase, plan |-> plan, missing |-> missing,
         facts |-> facts,
         shown |-> ResolveTools(text.intent, IF mode = "block" THEN "Collect" ELSE phase,
                                missing, {}, FALSE, "ok", facts)]

StoreSuggest(u) ==
    /\ suggest[u].pc = "read"
    /\ \E text \in Texts, mode \in SafeModes :
          state' = StateOf(text, suggest[u].prev, mode)
    /\ suggest' = [suggest EXCEPT ![u] = [pc |-> "over", prev |-> EmptyFacts]]
    /\ overwritten' = overwritten \union {x \in Writers : Wrote(x)}
    /\ UNCHANGED <<cases, call, confirm, stale, behind, undone>>

\* The task fails or is canceled before its write.
EndSuggest(u) ==
    /\ suggest[u].pc = "read"
    /\ suggest' = [suggest EXCEPT ![u] = [pc |-> "over", prev |-> EmptyFacts]]
    /\ UNCHANGED <<state, cases, call, confirm, past>>

----------------------------------------------------------------------------
(* execute_tool                                                            *)

callFrame == <<suggest, confirm, behind, undone>>

\* 409 without a state.  client: params has client_confirmed; named: it has
\* an intent.
LoadForTool(c, tool, client, named) ==
    /\ call[c].pc = "idle"
    /\ call' = [call EXCEPT ![c] = [pc |-> IF state = NoState THEN "refused" ELSE "loaded",
                                    tool |-> tool, client |-> client, named |-> named,
                                    snap |-> state]]
    /\ stale' = [stale EXCEPT ![c] = {}]
    /\ UNCHANGED <<state, cases, overwritten, callFrame>>

\* Mutant of Permitted: a tool in the wrong phase is let through.
PermittedInAnyPhase(snap, client, confirmed) ==
    ResolveTools(snap.intent, "Act", snap.missing, confirmed, client, "ok", NoFacts)

\* The latest case is read and the tools are resolved: without the analysis,
\* and in no safe mode.  403 for a tool not listed, 409 for one disabled.
Permitted(snap, client, confirmed) ==
    ResolveTools(snap.intent, snap.phase, snap.missing, confirmed, client, "ok", NoFacts)

Confirmed == IF cases = <<>> THEN {} ELSE cases[Len(cases)]

Gate(c) ==
    /\ call[c].pc = "loaded"
    /\ call' = [call EXCEPT ![c].pc =
                  IF call[c].tool \in Permitted(call[c].snap, call[c].client, Confirmed)
                  THEN "allowed" ELSE "refused"]
    /\ UNCHANGED <<state, cases, stale, overwritten, callFrame>>

\* _derive_confirmed_fields of internal.py, of the analysis in the state by
\* then: the fields of the new case that the tools ask for.
Derived(s) ==
    IF s = NoState THEN {{}}
    ELSE LET held == IF s.facts.card = "with_client" THEN {"card_in_possession"} ELSE {}
         IN  {held} \union (IF s.facts.subtype = "recurring_subscription"
                            THEN {held \union {"merchant_name_confirm"}} ELSE {})

\* The tool takes effect in mcp-tools, even of a request that was given up.  A
\* create_case without an intent never gets there: execute_tool asks the string
\* it read for its .value.
Effect(c) ==
    /\ call[c].pc \in {"allowed", "late"}
    /\ IF call[c].tool = "create_case"
       THEN /\ call[c].named
            /\ \E fields \in Derived(state) : cases' = Append(cases, fields)
       ELSE UNCHANGED cases
    /\ call' = [call EXCEPT ![c].pc = IF @ = "late" THEN "failed" ELSE "done"]
    /\ UNCHANGED <<state, stale, overwritten, callFrame>>

WithPlan(s, plan) == [s EXCEPT !.plan = plan, !.phase = PhaseFromPlan(plan)]

Reduced(c) == ReducePlanAfterTool(call[c].snap.plan, call[c].tool)

StoreAnswer(c, new) ==
    /\ call[c].pc = "done"
    /\ state' = new
    /\ call' = [call EXCEPT ![c].pc = "ok"]
    /\ NoteWrite(c)
    /\ UNCHANGED <<cases, callFrame>>

\* Mutant of StoreTool: the state is read again, the plan is still the old one.
StoreToolIntoCurrent(c) ==
    StoreAnswer(c, WithPlan(IF state = NoState THEN call[c].snap ELSE state, Reduced(c)))

\* Mutant of StoreTool: the missing fields are computed again.
StoreToolAsksAgain(c) ==
    LET snap == call[c].snap IN
    StoreAnswer(c, [WithPlan(snap, Reduced(c))
                       EXCEPT !.missing = Missing(snap.intent, snap.facts)])

\* The state read at the start, with the plan the tool's result reduces.
StoreTool(c) == StoreAnswer(c, WithPlan(call[c].snap, Reduced(c)))

\* mcp-tools answers with an error or too late, or the request dies.
FailCall(c) ==
    /\ call[c].pc \in {"loaded", "allowed", "done"}
    /\ call' = [call EXCEPT ![c].pc = IF @ = "allowed" THEN "late" ELSE "failed"]
    /\ UNCHANGED <<state, cases, stale, overwritten, callFrame>>

----------------------------------------------------------------------------
(* profile_confirm                                                         *)

confirmFrame == <<suggest, call>>

\* The case the request names, or the latest, and its lists; without a case
\* nothing is stored.
ReadCase(k, fields, n) ==
    /\ confirm[k].pc = "idle"
    /\ confirm' = [confirm EXCEPT ![k] =
                     [pc |-> "read", fields |-> fields, case |-> n,
                      base |-> cases[n], snap |-> NoState]]
    /\ behind' = [behind EXCEPT ![k] = {}]
    /\ UNCHANGED <<state, cases, stale, overwritten, undone, confirmFrame>>

\* The whole list goes into the row, unless the ORM finds it unchanged.
CommitConfirm(k) ==
    /\ confirm[k].pc = "read"
    /\ LET n == confirm[k].case
           writes == ~ confirm[k].fields \subseteq confirm[k].base
       IN  /\ cases' = IF writes
                       THEN [cases EXCEPT ![n] = confirm[k].base \union confirm[k].fields]
                       ELSE cases
           /\ undone' = undone \union (IF writes THEN behind[k]
                                     ELSE {j \in {k} : behind[k] # {}})
           /\ behind' = [j \in Confirms |->
                           IF j # k /\ confirm[j].pc = "read" /\ confirm[j].case = n
                           THEN behind[j] \union {k} ELSE behind[j]]
    /\ confirm' = [confirm EXCEPT ![k].pc = "committed"]
    /\ UNCHANGED <<state, stale, overwritten, confirmFrame>>

\* The state, if there is one, is read ...
LoadForConfirm(k) ==
    /\ confirm[k].pc = "committed"
    /\ state # NoState
    /\ confirm' = [confirm EXCEPT ![k].pc = "loaded", ![k].snap = state]
    /\ stale' = [stale EXCEPT ![k] = {}]
    /\ UNCHANGED <<state, cases, overwritten, behind, undone, confirmFrame>>

\* ... and written back without the fields among the missing ones.
StoreConfirm(k) ==
    /\ confirm[k].pc = "loaded"
    /\ state' = [confirm[k].snap EXCEPT !.missing = @ \ confirm[k].fields]
    /\ confirm' = [confirm EXCEPT ![k].pc = "over"]
    /\ NoteWrite(k)
    /\ UNCHANGED <<cases, behind, undone, confirmFrame>>

----------------------------------------------------------------------------
\* The key's TTL of a day runs out.
ExpireState ==
    /\ state # NoState
    /\ state' = NoState
    /\ overwritten' = overwritten \union {x \in Writers : Wrote(x)}
    /\ UNCHANGED <<cases, suggest, call, confirm, stale, behind, undone>>

Init ==
    /\ state = NoState
    /\ cases = <<>>
    /\ suggest = [u \in Suggests |-> [pc |-> "idle", prev |-> EmptyFacts]]
    /\ call = [c \in Calls |-> [pc |-> "idle", tool |-> "create_case", client |-> FALSE,
                                named |-> FALSE, snap |-> NoState]]
    /\ confirm = [k \in Confirms |-> [pc |-> "idle", fields |-> {}, case |-> 0,
                                      base |-> {}, snap |-> NoState]]
    /\ stale = [x \in Writers |-> {}]
    /\ overwritten = {}
    /\ behind = [k \in Confirms |-> {}]
    /\ undone = {}

Suggest(u) == BeginSuggest(u) \/ StoreSuggest(u) \/ EndSuggest(u)

\* Of the parameters of a request those are told apart that its tool reads.
ExecuteTool(c) ==
    \/ \E tool \in Tools, client, named \in BOOLEAN :
         /\ client => tool = "block_card"
         /\ named => tool = "create_case"
         /\ LoadForTool(c, tool, client, named)
    \/ Gate(c) \/ Effect(c) \/ StoreTool(c) \/ FailCall(c)
ProfileConfirm(k) ==
    \/ \E fields \in Confirmable, n \in DOMAIN cases : ReadCase(k, fields, n)
    \/ CommitConfirm(k) \/ LoadForConfirm(k) \/ StoreConfirm(k)

Next ==
    \/ \E u \in Suggests : Suggest(u)
    \/ \E c \in Calls : ExecuteTool(c)
    \/ \E k \in Confirms : ProfileConfirm(k)
    \/ ExpireState

Spec == Init /\ [][Next]_vars

----------------------------------------------------------------------------
(* Properties                                                              *)

HasState == state # NoState

\* Whoever wrote last, the state is of one piece: the steps are those of its
\* intent and the phase is the one its plan is in, so that execute_tool
\* resolves the tools of the plan the operator sees.
OnePiece ==
    HasState => /\ state.plan.steps = Steps(state.intent)
                /\ state.plan.done \subseteq StepsIn(state.plan)
                /\ state.plan.current \in StepsIn(state.plan)
                /\ state.phase = PhaseFromPlan(state.plan)

\* The tools whose result completes a step.
Completes(step) ==
    CASE step = "act_get_txn"      -> {"get_transactions"}
      [] step = "case_create"      -> {"create_case"}
      [] step = "block_now"        -> {"block_card"}
      [] step = "case_or_escalate" -> {"create_case", "reissue_card"}
      [] step = "status_check"     -> {"get_case_status"}
      [] step = "execute_resolution" -> {"unblock_card", "reissue_card"}
      [] step = "check_limits_settings" ->
           {"get_card_limits", "toggle_online_payments", "reissue_card"}
      [] step = "act"              -> {"create_case", "get_transactions", "block_card"}
      [] OTHER -> {}

ToolSteps == {step \in StepIds : Completes(step) # {}}
Succeeded(c) == call[c].pc = "ok"

\* reduce_plan_after_analyze ticks off status_check for a case that is known.
AnsweredByAnalysis(s, step) == step = "status_check" /\ s.facts.status = "case_known"

\* A step that a tool completes is done only if such a tool succeeded in this
\* conversation.  The exception is status_check: an analysis ticks it off without
\* get_case_status as soon as the case is known, from this text or an earlier one.
\* No other analysis, and no stale write, ticks a tool's step off.
DoneHasCause ==
    HasState => \A step \in state.plan.done \intersect ToolSteps :
                   \/ \E c \in Calls : Succeeded(c) /\ call[c].tool \in Completes(step)
                   \/ AnsweredByAnalysis(state, step)

\* A tool's result stays in the plan, the confirmed fields off the missing ones
\* and in the list of their case, until a later suggest or the TTL replaces the
\* state, or a handler that had read the state, or the case, before writes it
\* back; or the confirmation finds its fields in a list that another had
\* replaced by then, and writes nothing: the ways a lost update happens here.
LossesNamed ==
    /\ \A c \in Calls \ overwritten :
          call[c].pc = "ok" =>
             /\ HasState
             /\ ReducePlanAfterTool(call[c].snap.plan, call[c].tool).done
                   \subseteq state.plan.done
    /\ \A k \in Confirms \ overwritten :
          confirm[k].pc = "over" =>
             HasState /\ confirm[k].fields \intersect state.missing = {}
    /\ \A k \in Confirms \ undone :
          confirm[k].pc \in {"committed", "loaded", "over"} =>
             confirm[k].fields \subseteq cases[confirm[k].case]

\* No card is blocked without a reason: the request says the client agreed,
\* or somebody confirmed it to the case, or the conversation was about a lost
\* card or a block when the request came.
BlockHasReason ==
    \A c \in Calls :
        call[c].tool = "block_card" /\ call[c].pc \in {"allowed", "done", "ok"} =>
            \/ call[c].client
            \/ call[c].snap.intent \in HighRisk
            \/ \E k \in Confirms : /\ "customer_confirm_block" \in confirm[k].fields
                                  /\ confirm[k].pc \in {"committed", "loaded", "over"}

\* The result of a tool whose step is in the plan never moves the phase back.
\* (That of a tool without one may: blocking the card in a dispute leaves the
\* plan at its first open step.)
Rank(phase) == CASE phase = "Collect" -> 1 [] phase = "Act" -> 2 [] OTHER -> 3

ResultMovesOn ==
    [][\A c \in Calls :
         call[c].pc = "done" /\ call'[c].pc = "ok" =>
            \/ Rank(state'.phase) >= Rank(call[c].snap.phase)
            \/ \A step \in StepsIn(call[c].snap.plan) : call[c].tool \notin Completes(step)]_vars

\* The state is the one a suggest left, and no tool or confirmation wrote since.
Fresh == HasState /\ overwritten = {} /\ \A x \in Writers : ~ Wrote(x)

\* What execute_tool would run now although the sidebar beside the draft does
\* not enable it: it asks neither the analysis nor the safe mode (the README
\* calls the sidebar the source of truth).  Without a case that is no more than
\* a status, a reissue, the online payments and the block of a card at high
\* risk: a case, the transactions and an unblock need what the sidebar shows.
GateKeepsToSidebar ==
    Fresh /\ cases = <<>> =>
        LET beyond == Permitted(state, FALSE, Confirmed) \ state.shown
        IN  /\ beyond \subseteq {"get_case_status", "reissue_card",
                                 "toggle_online_payments", "block_card"}
            /\ "block_card" \in beyond => state.intent \in HighRisk
=============================================================================
