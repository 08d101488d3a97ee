-------------------------- MODULE MCInventory --------------------------
(* Small instances of Inventory for TLC. *)
EXTENDS Inventory, TLC

CONSTANTS l1, l2, i1, s1, s2, o1, o2

\* One import, whose lots all hold the same variant.
ImportOf1 == [l \in Lots |-> i1]
SkuOf1 == [l \in Lots |-> s1]

\* Every order asks for one piece of it.
Want1 == [o \in Orders |-> [s \in Skus |-> 1]]

\* Endpoints next to those that could spoil what they do.
Uses(ops, lots, orders, q) ==
    [ops |-> ops \cup {"createExportOrder"}, lots |-> lots, orders |-> orders, quantities |-> {q}]

\* Two orders that take from one lot, or one order that can take from two:
\* every lot and every order, so that the sets stay symmetric.
Mixes1 ==
    {Uses({"createManyExport", "updateRemainingQuantity", "removeExport"}, {l}, Orders, 2) : l \in Lots}
    \cup {Uses({"updateRemainingQuantity", "removeExport"}, Lots, {o}, 1) : o \in Orders}
    \cup {Uses({"updateImport", "updateQuantitySold", "updateRemainingQuantity"}, {l}, {o}, 2) : l \in Lots, o \in Orders}
    \cup {Uses({"updateQuantitySold", "removeExport"}, {l}, Orders, 2) : l \in Lots}
    \cup {Uses({"updateExport", "removeImport", "updateRemainingQuantity"}, {l}, Orders, 2) : l \in Lots}

Symmetry == Permutations(Lots) \cup Permutations(Orders) \cup Permutations(Clerks)

========================================================================
