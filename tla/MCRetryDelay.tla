--------------------------- MODULE MCRetryDelay ---------------------------
(***************************************************************************)
(* RetryDelay for TLC.                                                     *)
(***************************************************************************)
EXTENDS RetryDelay, TLC

\* Events are interchangeable.
Symmetry == Permutations(Event)
=============================================================================
