--------------------------- MODULE MCDossierCache ---------------------------
(***************************************************************************)
(* Instances of DossierCache.                                              *)
(***************************************************************************)
EXTENDS DossierCache, TLC

CONSTANTS g1, f1, p1, k1

OneGet     == {g1}
OneRefresh == {f1}
OnePatch   == {p1}
OneConfirm == {k1}
=============================================================================
