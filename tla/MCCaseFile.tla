----------------------------- MODULE MCCaseFile -----------------------------
(* The instances of CaseFile that TLC checks.                              *)
EXTENDS CaseFile, TLC

CONSTANTS k1, k2, p1

TwoConfirms == {k1, k2}
OnePatch == {p1}
Symmetry == Permutations(TwoConfirms)

\* The facts the rules of an intent look at; the others are unknown.
Varied(intent, over) == {t \in [intent : {intent}, facts : over] : Fits(t.intent, t.facts)}

Some(subtypes, cards, actions, statuses, channels) ==
    [subtype : subtypes, card : cards, actions : actions, status : statuses,
     signals : BOOLEAN, channel : channels, possession : {"unknown", "known"}]

Every(field) == CASE field = "subtype" -> {"unknown", "suspicious",
                                           "recurring_subscription", "duplicate_charge"}
                  [] field = "card" -> {"unknown", "with_client", "blocked", "lost", "damaged"}
                  [] field = "status" -> {"unknown", "case_unknown", "case_known",
                                          "waiting_review"}
                  [] OTHER -> {"unknown", "online", "pos"}

Asked == {{}, {"block_card"}, {"unblock_card"}}

CaseTexts ==
    Varied("SuspiciousTransaction", Some(Every("subtype"), {"unknown", "with_client", "lost"},
                                         {{}, {"block_card"}}, {"unknown"}, {"unknown"}))
    \union Varied("LostStolen", Some({"unknown"}, {"lost"}, {{}, {"block_card"}},
                                     {"unknown"}, {"unknown"}))
    \union Varied("BlockCard", Some({"unknown"}, {"unknown", "lost"}, {{"block_card"}},
                                    {"unknown"}, {"unknown"}))
    \union Varied("UnblockReissue", Some({"unknown"}, {"unknown", "blocked", "lost", "damaged"},
                                         Asked, Every("status"), {"unknown"}))
    \union Varied("CardNotWorking", Some({"unknown"}, {"unknown", "damaged"}, {{}},
                                         {"unknown"}, Every("channel")))
    \union Varied("StatusWhatNext", Some({"unknown"}, {"unknown"}, {{}}, Every("status"),
                                         {"unknown"}))
    \union Varied("Unknown", Some({"unknown"}, {"unknown"}, {{}}, {"unknown"}, {"unknown"}))

SomeNamed == {{"customer_confirm_block", "other"}, {"card_in_possession"}}

\* What a body says of the columns it has, and what the others would be.
Body(columns, confirmed, pending, reordered) ==
    [columns |-> columns, reordered |-> reordered, status |-> "closed", priority |-> "low",
     reason |-> "duplicate_charge", confirmed |-> confirmed, pending |-> pending]

SomeBodies ==
    {Body({"status"}, {}, {}, {}), Body({"priority", "reason"}, {}, {}, {}),
     Body({"confirmed"}, {"card_in_possession"}, {}, {}), Body({"pending"}, {}, {}, {}),
     Body({"pending", "reason"}, {}, {"merchant_name_confirm", "problem_channel_confirm"}, {}),
     Body({"confirmed", "pending"}, {}, {}, {"confirmed", "pending"}),
     Body(Columns, {"txn_amount_confirm"}, {"customer_confirm_block"}, {})}

Others == {"LostStolen", "StatusWhatNext"}
=============================================================================
