------------------------------- MODULE MCFills -------------------------------
(* An instance of Fills for TLC: three trades, the first and the last two    *)
(* pieces of one order that are whole contracts only together.               *)
EXTENDS Fills

CONSTANTS a, b

OrderEach == [t \in Ids |-> IF t = 2 THEN b ELSE a]
CountEach == [t \in Ids |-> CASE t = 1 -> 3 [] t = 2 -> 2 [] OTHER -> 1]
=============================================================================
