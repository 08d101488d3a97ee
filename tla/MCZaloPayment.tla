-------------------------- MODULE MCZaloPayment --------------------------
(* Small instances of ZaloPayment for TLC. *)
EXTENDS ZaloPayment, TLC

\* Slots are interchangeable where no liveness is checked.
Symmetry == Permutations(Callers)

==========================================================================
