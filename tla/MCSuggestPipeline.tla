------------------------ MODULE MCSuggestPipeline ------------------------
(* The instance of SuggestPipeline that TLC checks.                        *)
EXTENDS SuggestPipeline

CONSTANT t1

OneTask == {t1}
=============================================================================
