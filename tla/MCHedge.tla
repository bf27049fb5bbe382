------------------------------ MODULE MCHedge ------------------------------
(* Instances of Hedge for TLC: one maker order of two contracts, resting on *)
(* Kalshi and hedged on Polymarket US, so that one order can leave two      *)
(* obligations behind or one of size two.                                   *)
EXTENDS Hedge

CONSTANT m1

SizeTwo  == [m \in Makers |-> 2]
HomeEach == [m \in Makers |-> "kalshi"]
=============================================================================
