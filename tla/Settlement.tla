---------------------------- MODULE Settlement ----------------------------
(***************************************************************************)
(* What the shop promises about money, whoever handles the payment: the    *)
(* gateway's money and the courier's cash are never taken back by the      *)
(* shop's own steps, and an order shows PAID only once it has been funded. *)
(* The gateways' modules implement it under a refinement mapping.          *)
(* A payment may stop showing: a save of a stale copy reverts it.          *)
(***************************************************************************)
CONSTANT Orders

VARIABLES
    funded,     \* the orders whose money has arrived, as far as the shop can
                \* know: a gateway's notification may be taken at its word
    paid        \* the orders that show PAID

svars == <<funded, paid>>

SInit == funded = {} /\ paid = {}

\* Money arrives, orders are shown as paid or no longer so, or both at once.
Settle ==
    /\ funded' \in SUBSET Orders /\ funded \subseteq funded'
    /\ paid' \in SUBSET funded'

SettlementSpec == SInit /\ [][Settle]_svars

===========================================================================
