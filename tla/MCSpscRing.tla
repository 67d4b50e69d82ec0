----------------------------- MODULE MCSpscRing -----------------------------
(* Instances of SpscRing for TLC. *)
EXTENDS SpscRing
CONSTANTS p1, p2, v1, v2

OneProducer == {p1}
TwoProducers == {p1, p2}
TwoValues == {v1, v2}
=============================================================================
