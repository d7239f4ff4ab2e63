-------------------------- MODULE MCPaymentService --------------------------
(***************************************************************************)
(* PaymentService for TLC.                                                 *)
(***************************************************************************)
EXTENDS PaymentService, TLC

\* Requests, bodies, API processes and handlers are interchangeable.
Symmetry ==
  Permutations(Payment) \cup Permutations(Body)
    \cup Permutations(Process) \cup Permutations(Handler)
=============================================================================
