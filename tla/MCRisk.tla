------------------------------- MODULE MCRisk -------------------------------
(* An instance of Risk for TLC: one relationship, quoted on one side, whose  *)
(* fills open baskets in one direction; the ledger it starts on holds a lot  *)
(* in the other.                                                             *)
EXTENDS Risk

CONSTANTS rel, bid

RelEach == [s \in Slots |-> rel]
DirEach == [s \in Slots |-> "standard"]
BookEach == [r \in Rels |-> [d \in Dirs |-> IF d = "inverse" THEN 1 ELSE 0]]

(* The engine's orders and its cash are one half of the figures, the book    *)
(* the other, and a stray touches the book alone.  So that TLC need not take *)
(* every pair of their states, a stray comes while no cash is spendable, and *)
(* checks, fills and the ledger poll go on after it, but no order is placed. *)
MCNext ==
    \/ /\ strays = 0 /\ Next
       /\ strays' > 0 => balancePoll = Idle /\ cash = Unspendable
    \/ /\ strays > 0
       /\ \/ Checking /\ placed' = placed
          \/ Trading \/ LedgerRead \/ LedgerApply \/ Restart

MCSpec == Init /\ [][MCNext]_vars
=============================================================================
