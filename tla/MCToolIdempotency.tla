------------------------- MODULE MCToolIdempotency -------------------------
(***************************************************************************)
(* Instances of ToolIdempotency: p and q are parameters of create_case in  *)
(* one conversation, bad has no conversation, other is for another tool.   *)
(***************************************************************************)
EXTENDS ToolIdempotency, TLC

CONSTANTS c1, c2, c3, p, q, bad, other, here, there, nowhere

TwoCalls   == {c1, c2}
ThreeCalls == {c1, c2, c3}
OneParam   == {p}
AllParams  == {p, q, bad, other}
BadParams  == {bad}
NoParams   == {}
OneScope   == {here}
Creations  == {here, nowhere}
AllScopes  == {here, there, nowhere}
Scoping    == [x \in Params |-> IF x = other THEN there ELSE IF x = bad THEN nowhere ELSE here]
Symmetry   == Permutations(Calls)
=============================================================================
