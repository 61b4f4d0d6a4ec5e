----------------------------- MODULE MCChatBus -----------------------------
(* The instance of ChatBus that TLC checks.                                *)
EXTENDS ChatBus

CONSTANTS p1, p2, x1, k1, k2, k3

TwoPosts       == {p1, p2}
OneClient      == {x1}
ThreeProducers == {k1, k2, k3}
=============================================================================
