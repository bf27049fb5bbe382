------------------------------ MODULE MCCancel ------------------------------
(* Model values for Cancel; the quoter's orders are interchangeable. *)
EXTENDS Cancel

OrderSymmetry == Permutations(Orders)
=============================================================================
