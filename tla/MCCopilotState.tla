--------------------------- MODULE MCCopilotState ---------------------------
(***************************************************************************)
(* Instances of CopilotState.  A text is what normalize_analyze finds in   *)
(* the messages; the facts not named are unknown.                          *)
(***************************************************************************)
EXTENDS CopilotState, TLC

CONSTANTS u1, u2, c1, c2, k1, k2

Dispute(subtype, actions) ==
    [intent |-> "SuspiciousTransaction",
     facts |-> [EmptyFacts EXCEPT !.subtype = subtype, !.actions = actions]]
Lost     == [intent |-> "LostStolen",
             facts |-> [EmptyFacts EXCEPT !.card = "lost", !.possession = "known"]]
Reissue  == [intent |-> "UnblockReissue", facts |-> EmptyFacts]
Unblock  == [intent |-> "UnblockReissue",
             facts |-> [EmptyFacts EXCEPT !.actions = {"unblock_card"},
                                          !.status = "case_known"]]
Broken   == [intent |-> "CardNotWorking",
             facts |-> [EmptyFacts EXCEPT !.channel = "pos"]]
Known    == [intent |-> "StatusWhatNext",
             facts |-> [EmptyFacts EXCEPT !.status = "case_known"]]
Other    == [intent |-> "Unknown", facts |-> EmptyFacts]

OneSuggest  == {u1}
TwoSuggests == {u1, u2}
TwoCalls    == {c1, c2}
TwoConfirms == {k1, k2}
None        == {}
SafeOrNot   == {"ok", "block"}
AllModes    == {"ok", "warn", "block"}

EveryTool    == ToolName

\* A text or two for each plan there is.
TextPerPlan  == {Lost, Reissue, Unblock, Broken, Known, Other,
                 Dispute("suspicious", {"block_card"}), Dispute("recurring_subscription", {})}
BlockTexts   == {Dispute("suspicious", {"block_card"})}
DisputeTools == {"create_case", "get_transactions", "block_card"}
TxnFields    == {TxnRequired, {"customer_confirm_block"}}

\* Calls, and confirmations, differ in nothing but their names.
Symmetry    == Permutations(Calls) \union Permutations(Confirms)
=============================================================================
