---------------------------- MODULE MCMakerExit ----------------------------
(* An instance of MakerExit for TLC: an older lot of two contracts and a   *)
(* younger one of a single contract.  On PM-US one order after another for *)
(* the older lot, enough of them for a second hedge; there, a group of the *)
(* two, which may fill in part; on Kalshi, two exits at once, of which one *)
(* may cross.                                                              *)
EXTENDS MakerExit

OpenEach == [l \in Lots |-> IF l = 1 THEN 2 ELSE 1]

InTurn  == [lots |-> {1}, depth |-> 2, shapes |-> {"RestPmUs"},
            crosses |-> {}, orders |-> 3]
Grouped == [lots |-> Lots, depth |-> 2, shapes |-> {"RestPmUs"},
            crosses |-> {}, orders |-> 2]
AtOnce  == [lots |-> Lots, depth |-> 1, shapes |-> {"RestKalshi"},
            crosses |-> {2}, orders |-> 2]
EachScene == {InTurn, Grouped, AtOnce}
=============================================================================
