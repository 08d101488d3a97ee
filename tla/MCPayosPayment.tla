-------------------------- MODULE MCPayosPayment --------------------------
(* Small instances of PayosPayment for TLC. *)
EXTENDS PayosPayment, TLC

\* Codes and slots are interchangeable where no liveness is checked.
Symmetry == Permutations(Codes) \cup Permutations(Payers)

\* A notification for any code may come unsent, and say anything; or one that
\* says a payment failed, of one code; or none.
AnyUnsent == Codes \X {"PAID", "FAILED"}

OneUnsent == {<<CHOOSE c \in Codes : TRUE, "FAILED">>}

NoneUnsent == {}

===========================================================================
