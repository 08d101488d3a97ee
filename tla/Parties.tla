------------------------------ MODULE Parties ------------------------------
(***************************************************************************)
(* What the modules of the shop front have in common: Vouchers, Cart,      *)
(* Addresses, Accounts, Catalogue, Reviews, Roles, Categories, Logos,      *)
(* Blogs and Statistics.                                                   *)
(***************************************************************************)
EXTENDS Integers, FiniteSets, Sequences

CONSTANTS
    Customers, \* rows of Customer
    Skus,      \* rows of Skus, the variants of products
    Clerks,    \* slots for the requests that run at the same time
    MaxRows,   \* bounds the rows that are ever inserted into one table
    Mixes      \* bounds what is in use together: one of these

VARIABLE inUse \* the endpoints, and how many rows each table may get

ASSUME PartiesAssumption ==
    /\ IsFiniteSet(Clerks) /\ Clerks # {}
    /\ MaxRows \in Nat
    /\ \A mix \in Mixes : mix.rows \in 0 .. MaxRows

Rows == 1 .. MaxRows

\* A table is the sequence of the rows that were ever inserted; which of them
\* are still there is another variable.
HasRoom(table) == Len(table) < inUse.rows

\* The endpoint is one of those in use.
Uses(endpoint) == endpoint \in inUse.ops

============================================================================
