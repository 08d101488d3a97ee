------------------------ MODULE MCOrderLifecycle ------------------------
(* Small instances of OrderLifecycle for TLC. *)
EXTENDS OrderLifecycle, TLC

Symmetry == Permutations(Requests)

=============================================================================
