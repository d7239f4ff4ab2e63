------------------------- MODULE MCProcessPayment -------------------------
(***************************************************************************)
(* ProcessPayment for TLC.                                                 *)
(***************************************************************************)
EXTENDS ProcessPayment, TLC

\* Handlers are interchangeable, and so are payments.
Symmetry == Permutations(Handler) \cup Permutations(Payment)
=============================================================================
