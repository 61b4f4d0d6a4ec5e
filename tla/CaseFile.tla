------------------------------ MODULE CaseFile ------------------------------
(***************************************************************************)
(* The file of one case: the row a tool creates from the analysis of a     *)
(* conversation, the fields it asks for and those it has confirmed, and    *)
(* what every reader computes from it again: phase, tools, readiness, risk.*)
(*                                                                         *)
(* internal.py (build_case_seed and the two commits of a creation),        *)
(* cases.py (_case_payload, patch_case), profile_confirm of copilot.py,    *)
(* case_readiness.py, and of case_dossier.py the facts a reader recovers   *)
(* from the timeline and the risk it states.                               *)
(*                                                                         *)
(* A handler reads the row, and its commit writes the columns that differ  *)
(* from what it read.  A PATCH takes what its body says of any columns.    *)
(***************************************************************************)
EXTENDS CopilotPlan

CONSTANTS Confirms,    \* requests to /copilot/profile/confirm
          Patches,     \* requests to PATCH /cases/<id>
          Texts,       \* analyses of the conversation: [intent, facts]
          NoAnalysis,  \* a conversation with no (readable) analysis
          OtherIntents,\* the intents a request names whatever the analysis says
          Named,       \* the sets of fields that a confirmation names
          Bodies       \* what a PATCH sends

\* The lists are of any names; of those without a rule one stands for all.
Names    == Fields \union {"other"}
Statuses == {"open", "closed"}
Levels   == {"low", "medium", "high"}
Reasons  == {"unknown", "suspicious", "recurring_subscription", "duplicate_charge"}
Rows     == [intent : Intents, priority : Levels, reason : Reasons,
             confirmed : SUBSET Names, pending : SUBSET Names, status : Statuses]

\* columns: those it has; reordered: the lists that have another order than the one
\* that was read, if not other names.
Columns == {"status", "priority", "reason", "confirmed", "pending"}
AnyBody == [columns : SUBSET Columns, reordered : SUBSET {"confirmed", "pending"},
            status : Statuses, priority : Levels, reason : Reasons,
            confirmed : SUBSET Names, pending : SUBSET Names]

ASSUME TextsAssumption ==
    /\ Texts \subseteq {t \in [intent : Intents, facts : Facts] : Fits(t.intent, t.facts)}
    /\ NoAnalysis \notin Texts
    /\ OtherIntents \subseteq Intents
ASSUME NamesAssumption == Confirms \intersect Patches = {}
ASSUME BodiesAssumption ==
    /\ Named \subseteq SUBSET Names
    /\ Bodies \subseteq AnyBody

VARIABLES stage,     \* internal_create_case: before, between and after its commits
          analysis,  \* the last_analyze it found
          row,       \* the row of the case
          request,   \* the handlers of Confirms and Patches, and the row they read
          unseen,    \* history: the fields that changed lists since a request's reading
          lost,      \* history: those in neither list since a request wrote over what
                     \* it had not seen
          patched    \* history: what the bodies of PATCHes did, see NothingPatched

vars == <<stage, analysis, row, request, unseen, lost, patched>>
past == <<unseen, lost, patched>>

Requests == Confirms \union Patches

\* left: the fields in neither list since a body left them out; asked: those a
\* body put among the pending ones; columns: the others that a body had.
NothingPatched == [left |-> {}, asked |-> {}, columns |-> {}]

\* No row yet.
FirstRow == [intent |-> "Unknown", priority |-> "medium", reason |-> "unknown",
             confirmed |-> {}, pending |-> {}, status |-> "open"]

TypeOK ==
    /\ stage \in {"before", "row", "created", "cut"}
    /\ analysis \in Texts \union {NoAnalysis}
    /\ row \in Rows
    /\ request \in [Requests -> [pc : {"idle", "read", "over"}, base : Rows]]
    /\ unseen \in [Requests -> SUBSET Names]
    /\ lost \subseteq Names
    /\ patched \in [left : SUBSET Names, asked : SUBSET Names,
                    columns : SUBSET {"priority", "reason"}]

----------------------------------------------------------------------------
(* case_readiness.py                                                       *)

KnownStatus == {"case_known", "waiting_review"}

\* required_pending_fields without an analysis ...
RequiredByIntent(intent) ==
    CASE intent = "SuspiciousTransaction" -> TxnRequired \union {"customer_confirm_block"}
      [] intent \in HighRisk              -> {"customer_confirm_block"}
      [] intent = "StatusWhatNext"        -> {"case_id"}
      [] intent = "CardNotWorking"        -> {"problem_channel_confirm"}
      [] OTHER                            -> {}

\* Mutant of Required: a subscription is asked for no merchant.
RequiredNoMerchant(intent, facts) ==
    IF intent = "SuspiciousTransaction"
    THEN TxnRequired \ (IF facts.possession = "known" THEN {"card_in_possession"} ELSE {})
    ELSE Missing(intent, facts)

\* ... and with one.
Required(intent, facts) ==
    CASE intent = "StatusWhatNext" ->
           IF facts.status \in KnownStatus THEN {} ELSE {"case_id"}
      [] intent = "LostStolen" ->
           IF facts.card = "lost" \/ "block_card" \in facts.actions \/ facts.signals
           THEN {} ELSE {"customer_confirm_block"}
      [] intent = "BlockCard" ->
           IF "block_card" \in facts.actions \/ facts.signals
           THEN {} ELSE {"customer_confirm_block"}
      [] intent = "UnblockReissue" ->
           IF "unblock_card" \in facts.actions /\ facts.status \notin KnownStatus
           THEN {"case_id"} ELSE {}
      [] intent = "CardNotWorking" ->
           IF facts.card = "damaged" \/ facts.channel # "unknown" THEN {}
           ELSE {"problem_channel_confirm"}
      [] intent = "SuspiciousTransaction" ->
           {"txn_amount_confirm", "txn_datetime_confirm"}
           \union (IF facts.possession = "known" \/ facts.card \in {"with_client", "lost"}
                   THEN {} ELSE {"card_in_possession"})
           \union (IF facts.subtype = "recurring_subscription"
                   THEN {"merchant_name_confirm"} ELSE {})
           \union (IF "block_card" \in facts.actions
                   THEN {"customer_confirm_block"} ELSE {})
      [] OTHER -> {}

\* _FIELD_RULES: what a missing field costs, whether it blocks the case, and
\* which tools it is said to block.
Weight(f) ==
    CASE f = "card_in_possession" -> 30
      [] f \in {"txn_amount_confirm", "txn_datetime_confirm"} -> 25
      [] f = "merchant_name_confirm" -> 12
      [] f = "customer_confirm_block" -> 10
      [] f = "problem_channel_confirm" -> 22
      [] f = "case_id" -> 35
      [] OTHER -> 12

Severe(f) == f \in Fields \ {"merchant_name_confirm", "customer_confirm_block"}

BlocksTools(f) ==
    CASE f \in TxnRequired \union {"merchant_name_confirm"} ->
           {"get_transactions", "create_case"}
      [] f = "customer_confirm_block" -> {"block_card"}
      [] f = "problem_channel_confirm" ->
           {"get_card_limits", "toggle_online_payments", "reissue_card"}
      [] f = "case_id" -> {"get_case_status", "unblock_card"}
      [] OTHER -> {}

Terminal(status) == status = "closed"

\* Mutant of InferCasePhase: only a tool moves a case out of Collect.
InferCasePhaseCollects(intent, pending, status) ==
    IF Terminal(status) THEN "Explain"
    ELSE IF intent = "StatusWhatNext" /\ pending = {} THEN "Explain" ELSE "Collect"

InferCasePhase(intent, pending, status) ==
    IF Terminal(status) THEN "Explain"
    ELSE IF pending # {} THEN "Collect"
    ELSE IF intent = "StatusWhatNext" THEN "Explain" ELSE "Act"

PreferredTool(intent, facts) ==
    CASE intent = "StatusWhatNext" -> "get_case_status"
      [] intent \in HighRisk -> "block_card"
      [] intent = "UnblockReissue" ->
           IF "unblock_card" \in facts.actions THEN "unblock_card" ELSE "reissue_card"
      [] intent = "CardNotWorking" ->
           IF facts.card = "damaged" THEN "reissue_card"
           ELSE IF facts.channel = "online" THEN "toggle_online_payments"
           ELSE "get_card_limits"
      [] intent = "SuspiciousTransaction" ->
           IF facts.subtype \in {"recurring_subscription", "duplicate_charge"}
           THEN "get_transactions" ELSE "create_case"
      [] OTHER -> "none"

\* _suggest_next_action: the tools it may name, or a word for the other
\* answers (which question is asked depends on the order of the list).
NextAction(intent, pending, tools, status, facts) ==
    IF Terminal(status) THEN {"completed"}
    ELSE IF pending # {} THEN {"ask"}
    ELSE IF tools = {} THEN {"wait"}
    ELSE IF PreferredTool(intent, facts) \in tools THEN {PreferredTool(intent, facts)}
    ELSE tools

Score(pending, status) ==
    LET cost == MapThenSumSet(Weight, pending)
    IN  IF Terminal(status) THEN 100 ELSE Max({0, 100 - cost})

ReadinessStatus(pending, tools, status) ==
    IF Terminal(status) THEN "completed"
    ELSE IF \E f \in pending : Severe(f) THEN "needs_info"
    ELSE IF tools # {} THEN "ready" ELSE "in_progress"

\* What a reader is shown of a case: phase, tools, then build_readiness of them.
View(intent, lists, status, facts) ==
    LET phase == InferCasePhase(intent, lists.pending, status)
        tools == ResolveTools(intent, phase, lists.pending, lists.confirmed, FALSE,
                              "ok", facts)
    IN  [phase |-> phase, tools |-> tools,
         score |-> Score(lists.pending, status),
         ready |-> ReadinessStatus(lists.pending, tools, status),
         next  |-> NextAction(intent, lists.pending, tools, status, facts)]

----------------------------------------------------------------------------
(* internal.py: what a case is created with                                *)

\* _derive_confirmed_fields; hint: the analysis names the merchant.
ConfirmedAtFirst(text, hint) ==
    IF text = NoAnalysis THEN {}
    ELSE (IF text.facts.card = "with_client" THEN {"card_in_possession"} ELSE {})
         \union (IF hint /\ text.facts.subtype = "recurring_subscription"
                 THEN {"merchant_name_confirm"} ELSE {})

Priority(intent, text) ==
    CASE intent \in HighRisk -> "high"
      [] intent = "SuspiciousTransaction" ->
           IF /\ text # NoAnalysis
              /\ ~ text.facts.signals
              /\ text.facts.subtype \in {"recurring_subscription", "duplicate_charge"}
           THEN "medium" ELSE "high"
      [] intent = "StatusWhatNext" -> "low"
      [] OTHER -> "medium"

\* Mutant of Reason: the intent, whatever the subtype.
ReasonIntent(intent, text) == intent

\* _derive_dispute_reason, as far as a reader parses it again.
Reason(intent, text) ==
    IF text # NoAnalysis /\ intent = "SuspiciousTransaction"
    THEN text.facts.subtype ELSE "unknown"

SeedLists(intent, text, hint) ==
    [confirmed |-> ConfirmedAtFirst(text, hint),
     pending   |-> IF text = NoAnalysis THEN RequiredByIntent(intent)
                   ELSE Required(intent, text.facts)]

SeedFacts(text) == IF text = NoAnalysis THEN NoFacts ELSE text.facts

\* build_case_seed and the first commit: the row.
CreateRow(text, named, hint) ==
    LET intent == IF named # "Unknown" \/ text = NoAnalysis THEN named ELSE text.intent
        lists  == SeedLists(intent, text, hint)
    IN  /\ stage = "before"
        /\ stage' = "row"
        /\ analysis' = text
        /\ row' = [intent |-> intent, priority |-> Priority(intent, text),
                   reason |-> Reason(intent, text), confirmed |-> lists.confirmed,
                   pending |-> lists.pending, status |-> "open"]
        /\ UNCHANGED <<request, past>>

\* The second commit: the timeline entry with the snapshot of the analysis.
CreateEvent ==
    /\ stage = "row"
    /\ stage' = "created"
    /\ UNCHANGED <<analysis, row, request, past>>

\* The request dies between the two.
CreateCut ==
    /\ stage = "row"
    /\ stage' = "cut"
    /\ UNCHANGED <<analysis, row, request, past>>

----------------------------------------------------------------------------
(* case_dossier.py: what a reader recovers                                 *)

\* extract_case_domain_context: the snapshot, or the context stored without
\* one; with no such entry, what the row says.
Recovered ==
    IF stage = "created" THEN
        IF analysis # NoAnalysis
        THEN [intent |-> analysis.intent, facts |-> analysis.facts]
        ELSE [intent |-> row.intent, facts |-> [NoFacts EXCEPT !.channel = "unknown"]]
    ELSE [intent |-> row.intent,
          facts  |-> [NoFacts EXCEPT
                        !.channel = "unknown",
                        !.subtype = IF row.intent = "SuspiciousTransaction" THEN row.reason
                                    ELSE "unknown",
                        !.status = IF row.intent = "StatusWhatNext" THEN "case_known"
                                   ELSE "unknown"]]

\* Mutant of CaseFacts: the state of the card is not taken over.
CaseFactsNoCard ==
    [Recovered.facts EXCEPT !.channel = "unknown", !.card = "unknown"]

\* build_analyze_from_case_context: the channel is never recovered, and who has
\* the card follows from its state and the confirmed fields.
CaseFacts ==
    LET facts == Recovered.facts IN
    [facts EXCEPT !.channel = "unknown",
                  !.possession = IF facts.card \in {"with_client", "lost"}
                                    \/ "card_in_possession" \in row.confirmed
                                 THEN "known" ELSE "unknown"]

CaseView == View(row.intent, row, row.status, CaseFacts)

\* _risk_summary, when something other than the model's own estimate decides.
RiskIsHigh ==
    \/ Recovered.facts.signals
    \/ Recovered.facts.card = "lost"
    \/ Recovered.intent \in HighRisk

----------------------------------------------------------------------------
(* The handlers that edit a case                                           *)

Exists == stage \in {"row", "created", "cut"}

\* The handler reads the row: require_case_access, or profile_confirm's select.
Read(q) ==
    /\ Exists
    /\ request[q].pc = "idle"
    /\ request' = [request EXCEPT ![q] = [pc |-> "read", base |-> row]]
    /\ UNCHANGED <<stage, analysis, row, past>>

\* A column is written only if the handler gave it another value than it read.
Column(now, base, new) == IF new = base THEN now ELSE new

\* The fields of which a list differs.
Moved(old, new) ==
    (old.confirmed \ new.confirmed) \union (new.confirmed \ old.confirmed)
    \union (old.pending \ new.pending) \union (new.pending \ old.pending)

InNeither(fields, r) == fields \ (r.confirmed \union r.pending)

\* The commit of the row that q made of the one it read; rewritten: the lists it
\* writes although they have the same names.
Commit(q, new, rewritten) ==
    LET base == request[q].base
        done == [intent    |-> row.intent,
                 priority  |-> Column(row.priority, base.priority, new.priority),
                 reason    |-> Column(row.reason, base.reason, new.reason),
                 confirmed |-> IF "confirmed" \in rewritten THEN new.confirmed
                               ELSE Column(row.confirmed, base.confirmed, new.confirmed),
                 pending   |-> IF "pending" \in rewritten THEN new.pending
                               ELSE Column(row.pending, base.pending, new.pending),
                 status    |-> Column(row.status, base.status, new.status)]
    IN  /\ request[q].pc = "read"
        /\ row' = done
        /\ request' = [request EXCEPT ![q] = [pc |-> "over", base |-> FirstRow]]
        /\ lost' = InNeither(lost \union unseen[q], done)
        /\ unseen' = [r \in Requests |->
                        IF r # q /\ request[r].pc = "read"
                        THEN unseen[r] \union Moved(row, done) ELSE {}]
        /\ UNCHANGED <<stage, analysis>>

\* Mutant of CommitConfirm: the list of the request replaces the one of the row.
CommitConfirmReplaces(k, fields) ==
    /\ Commit(k, [request[k].base EXCEPT !.confirmed = fields, !.pending = @ \ fields], {})
    /\ UNCHANGED patched

CommitConfirm(k, fields) ==
    /\ Commit(k, [request[k].base EXCEPT !.confirmed = @ \union fields,
                                         !.pending = @ \ fields], {})
    /\ UNCHANGED patched

\* The fields that a list of the body does not have, and those it asks for.
NotConfirmed(body) == IF "confirmed" \in body.columns THEN Names \ body.confirmed ELSE {}
NotPending(body)   == IF "pending" \in body.columns THEN Names \ body.pending ELSE {}
AsksFor(body)      == IF "pending" \in body.columns THEN body.pending ELSE {}

\* A list with the names that were read is still another one in another order.
CommitPatch(p, body) ==
    LET Sent(c) == IF c \in body.columns THEN body[c] ELSE request[p].base[c] IN
    /\ Commit(p, [intent |-> row.intent, priority |-> Sent("priority"),
                  reason |-> Sent("reason"), status |-> Sent("status"),
                  confirmed |-> Sent("confirmed"), pending |-> Sent("pending")],
              body.reordered \intersect body.columns)
    /\ patched' = [left    |-> InNeither(patched.left \union NotConfirmed(body)
                                         \union NotPending(body), row'),
                   asked   |-> patched.asked \union (AsksFor(body) \ row.pending),
                   columns |-> patched.columns
                               \union (body.columns \intersect {"priority", "reason"})]

----------------------------------------------------------------------------
Init ==
    /\ stage = "before"
    /\ analysis = NoAnalysis
    /\ row = FirstRow
    /\ request = [q \in Requests |-> [pc |-> "idle", base |-> FirstRow]]
    /\ unseen = [q \in Requests |-> {}]
    /\ lost = {}
    /\ patched = NothingPatched

Next ==
    \/ \E text \in Texts \union {NoAnalysis}, hint \in BOOLEAN :
         \E named \in OtherIntents \union
                      (IF text = NoAnalysis THEN {} ELSE {text.intent}) :
            CreateRow(text, named, hint)
    \/ CreateEvent \/ CreateCut
    \/ \E q \in Requests : Read(q)
    \/ \E k \in Confirms, fields \in Named : CommitConfirm(k, fields)
    \/ \E p \in Patches, body \in Bodies : CommitPatch(p, body)

Spec == Init /\ [][Next]_vars

----------------------------------------------------------------------------
(* Properties                                                              *)

\* What a case takes for known: the number of a case whose status the client
\* tells, and the consent of a client who lost the card and asks for the block.
TakenForKnown(intent) ==
    IF intent = "LostStolen" THEN {"customer_confirm_block"}
    ELSE IF analysis.facts.status \in KnownStatus THEN {"case_id"} ELSE {}

\* The one high risk the priority does not know of: who disputes a subscription
\* or a charge taken twice, of a card that the conversation has as lost.
LostCardDisputed ==
    /\ row.intent = "SuspiciousTransaction"
    /\ analysis.facts.subtype \in {"recurring_subscription", "duplicate_charge"}
    /\ analysis.facts.card = "lost"
    /\ ~ analysis.facts.signals

\* A case created for the intent of its analysis covers that analysis.  The two
\* lists of required fields, the one the worker asks the client for
\* (analyze_guardrails.py) and the one a case is created with
\* (case_readiness.py), are written independently: a field the worker asks for is
\* pending or confirmed on the case, unless the case takes it for known, a request
\* wrote over it without having seen it, or a PATCH left it out of a list.  So are
\* the priority it is given and the risk its dossier states: where the case is about
\* money or a card in other hands, a high risk has a high priority, but for one kind
\* of dispute and for a priority that a PATCH has set.
CaseCoversAnalysis ==
    Exists /\ analysis # NoAnalysis /\ row.intent = analysis.intent =>
        /\ Missing(row.intent, analysis.facts) \ (row.pending \union row.confirmed)
              \subseteq lost \union patched.left \union TakenForKnown(row.intent)
        /\ RiskIsHigh /\ row.intent \in HighRisk \union {"SuspiciousTransaction"}
              => row.priority = "high" \/ LostCardDisputed \/ "priority" \in patched.columns

\* What a body says against a field that is confirmed.
Withdrawn(body) == AsksFor(body) \union NotConfirmed(body)

\* A confirmed field leaves the row, or is asked for again, only by the hand of a
\* handler that had read the row before the lists were changed at that field, or by
\* a PATCH whose body has the list and says so, from an older screen perhaps.
ConfirmedStays ==
    [][\A f \in row.confirmed :
          \/ f \in row'.confirmed /\ (f \in row'.pending => f \in row.pending)
          \/ \E q \in Requests :
                /\ request[q].pc = "read" /\ request'[q].pc = "over"
                /\ f \in unseen[q]
          \/ \E p \in Patches, body \in Bodies :
                CommitPatch(p, body) /\ f \in Withdrawn(body)]_vars

\* The readiness stored with the creation (created_payload) is what every later
\* reader computes again from the row and the timeline, as long as nothing was
\* edited: but the channel is never recovered, so toggle_online_payments is
\* offered once and not again.
Unedited == \A q \in Requests : request[q].pc # "over"

SeedIsView ==
    stage = "created" /\ Unedited =>
        LET seed == View(row.intent, row, "open", SeedFacts(analysis)) IN
        /\ seed.tools \ {"toggle_online_payments"} = CaseView.tools
        /\ seed.phase = CaseView.phase /\ seed.score = CaseView.score

\* The tools that stay open although f is missing and shown to block them: a case
\* can be created at any time, and the block of a card needs no consent where the
\* risk is high.  A PATCH may ask for a merchant where no subscription is disputed,
\* or for a channel where the card is damaged, and take back the reason for which a
\* merchant was asked.
StaysOpen(f) ==
    {"create_case"}
    \union (IF row.intent \in HighRisk \/ CaseFacts.signals THEN {"block_card"} ELSE {})
    \union (IF f \in patched.asked \intersect {"merchant_name_confirm",
                                               "problem_channel_confirm"}
            THEN BlocksTools(f) ELSE {})
    \union (IF f = "merchant_name_confirm" /\ "reason" \in patched.columns
            THEN BlocksTools(f) ELSE {})

\* What a case offers fits what it is.  Closed, it offers nothing that changes
\* anything.  Open, a missing field blocks the tools it is shown with
\* (blocks_tools), except for those whose rule in resolve_tools asks for something
\* else.  And with nothing left to ask it has a tool to go on with, unless the
\* client asked for a status without telling of a case: the number they give later
\* does not enable get_case_status.
OffersFit ==
    Exists =>
        /\ CaseView.ready = "completed" => CaseView.tools \subseteq {"get_case_status"}
        /\ ~ Terminal(row.status) => \A f \in row.pending \ row.confirmed :
              BlocksTools(f) \intersect CaseView.tools \subseteq StaysOpen(f)
        /\ CaseView.next = {"wait"} =>
              row.intent = "StatusWhatNext" /\ CaseFacts.status \notin KnownStatus
=============================================================================
