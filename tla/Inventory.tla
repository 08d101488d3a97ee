------------------------------ MODULE Inventory ------------------------------
(***************************************************************************)
(* The goods in the warehouses: DetailImportService, ImportService and     *)
(* ExportService.                                                          *)
(*                                                                         *)
(* An import brings lots.  A lot's row says how many pieces were imported, *)
(* how many are sold and how many remain; an export takes pieces from the  *)
(* lots for an order, one line per order and lot.  Nothing ties the three  *)
(* numbers to the lines but the handlers, each of which computes absolute  *)
(* numbers from rows it read a while ago:                                  *)
(*   - an export writes the remainder that it read, less what it takes;    *)
(*   - an update of an import starts the remainder anew from what is sold; *)
(*   - updateRemainingQuantity starts it anew from the lines;              *)
(*   - updateQuantitySold saves the whole row it read;                     *)
(*   - an update of an export writes no remainder at all.                  *)
(* syncInventory asks for a column that Detail_export does not have, and   *)
(* swallows the error: it takes no step.                                   *)
(*                                                                         *)
(* Of an order only what these handlers tell apart is kept: whether it is  *)
(* CONFIRMED, DELIVERED or FAILED_DELIVERY.  OrderLifecycle moves it.      *)
(* Requests name no negative quantity, though the DTOs would let them.     *)
(***************************************************************************)
EXTENDS Integers, FiniteSets, FiniteSetsExt

CONSTANTS
    Lots,      \* rows of Detail_import
    Imports,   \* rows of Import
    ImportOf,  \* the import that brings a lot
    Skus,      \* variants of products
    SkuOf,     \* the variant a lot holds
    Orders,    \* orders
    Want,      \* how many pieces of each variant an order asks for
    Mixes,     \* bounds what is in use together: one of these
    Clerks,    \* slots for the requests that run at the same time
    MaxQty,    \* bounds the pieces of a lot
    SoldBound  \* bounds quantity_sold, which can be counted up without end

Endpoints == {"updateImport", "removeImport", "createExportOrder", "createManyExport",
              "removeExport", "updateExport", "updateRemainingQuantity",
              "updateQuantitySold"}

Mix == [ops: SUBSET Endpoints, lots: SUBSET Lots, orders: SUBSET Orders,
        quantities: SUBSET (0 .. MaxQty)]

ASSUME InventoryAssumption ==
    /\ IsFiniteSet(Lots) /\ IsFiniteSet(Orders)
    /\ ImportOf \in [Lots -> Imports]
    /\ SkuOf \in [Lots -> Skus]
    /\ Want \in [Orders -> [Skus -> Nat]]
    /\ Mixes \subseteq Mix
    /\ MaxQty \in Nat
    /\ SoldBound \in Nat

Status == {"none", "OTHER", "CONFIRMED", "DELIVERED", "FAILED_DELIVERY"}

\* The statuses in which updateQuantitySold counts.
Final == {"DELIVERED", "FAILED_DELIVERY"}

LotRow == [import: 0 .. MaxQty, sold: -SoldBound .. SoldBound,
           remaining: 0 .. MaxQty + SoldBound]

Columns == {"import", "sold", "remaining"}

BlankRow == [import |-> 0, sold |-> 0, remaining |-> 0]

\* The pieces that export lines may name: <<order, lot, number>>.  A line's
\* quantity_export is how many it names.
Pieces == Orders \X Lots \X (1 .. MaxQty)

Exports == {"createExportOrder", "createManyExport"}

Job == [phase: {"idle", "loaded", "diffed"},
        op: {"none", "updateImport", "updateRemainingQuantity",
             "updateQuantitySold"} \cup Exports,
        orders: SUBSET Orders, plan: SUBSET Pieces,
        copy: [Lots -> LotRow], touch: SUBSET Lots, gone: SUBSET Lots,
        dirty: [Lots -> SUBSET Columns], sound: SUBSET Lots]

IdleJob == [phase |-> "idle", op |-> "none", orders |-> {}, plan |-> {},
            copy |-> [l \in Lots |-> BlankRow], touch |-> {}, gone |-> {},
            dirty |-> [l \in Lots |-> {}], sound |-> {}]

VARIABLES
    inUse,    \* the endpoints, lots, orders and quantities in use
    stock,    \* the lots that have a row
    removed,  \* the lots that had one
    lot,      \* their rows
    status,   \* each order's order_status
    exports,  \* the orders with an export
    lines,    \* the pieces that the export lines name
    job,      \* the requests in flight
    balanced, \* ghost: the lots that nothing has put out of balance
    revised,  \* ghost: the orders whose export was updated
    left      \* ghost: the lots with goods in a delivered or failed order

vars == <<inUse, stock, removed, lot, status, exports, lines, job, balanced, revised, left>>

---------------------------------------------------------------------------
(* Helpers *)

Busy(k) == job[k].phase # "idle"

LinesOf(o) == {p \in lines : p[1] = o}

LotsOf(set) == {p[2] : p \in set}

From(set, l) == {p \in set : p[2] = l}

\* SUM(quantity_export) of a lot's lines.
Out(l) == Cardinality(From(lines, l))

\* The pieces of variant s that a set names for order o.
Sent(set, o, s) == {p \in set : p[1] = o /\ SkuOf[p[2]] = s}

\* Pieces are numbered from one on; which ones a line names makes no matter.
Packed(set) ==
    \A p \in set : p[3] > 1 => <<p[1], p[2], p[3] - 1>> \in set

\* Something about the lots in set changed: no copy of them is sound.
Disturb(set) == [k \in Clerks |-> [job[k] EXCEPT !.sound = @ \ set]]

Answer(k, set) == [Disturb(set) EXCEPT ![k] = IdleJob]

\* The lots with goods in an order that has come to an end.
Leave(newStatus, newLines) ==
    left' = left \cup {p[2] : p \in {q \in newLines : newStatus[q[1]] \in Final}}

\* What a step of a request leaves alone until it commits.
Database == <<inUse, stock, removed, lot, status, exports, lines, balanced, revised, left>>

---------------------------------------------------------------------------
(* Imports *)

CreateImport(l, q) ==
    /\ l \in inUse.lots \ (stock \cup removed)
    /\ stock' = stock \cup {l}
    /\ lot' = [lot EXCEPT ![l] = [import |-> q, sold |-> 0, remaining |-> q]]
    /\ balanced' = balanced \cup {l}
    /\ UNCHANGED <<inUse, removed, status, exports, lines, job, revised, left>>

\* Deletes the rows of set; their export lines go with them.
Delete(set) ==
    /\ stock' = stock \ set
    /\ removed' = removed \cup set
    /\ lines' = {p \in lines : p[2] \notin set}

RemoveImport(i) ==
    LET set == {l \in stock : ImportOf[l] = i} IN
    /\ "removeImport" \in inUse.ops
    /\ set # {}
    /\ Delete(set)
    /\ job' = Disturb(set)
    /\ UNCHANGED <<inUse, lot, status, exports, balanced, revised, left>>

\* The remainder after an update of the import.  What is exported and not yet
\* counted as sold is back in stock, and a lot that is sold out is full again.
NewRemaining(q, sold) == IF q > 0 /\ q - sold > 0 THEN q - sold ELSE q

\* The row after an update that names quantity q for lot l, if any.
Edited(l, q) ==
    IF l \in DOMAIN q
      THEN [lot[l] EXCEPT !.import = q[l], !.remaining = NewRemaining(q[l], lot[l].sold)]
      ELSE [lot[l] EXCEPT !.remaining = 0]

\* DetailImportService.update keeps the lots named, with new quantities q for
\* some of them, and deletes the other lots of the import.
UpdateImport(k, i, keep, q) ==
    LET set == {l \in stock : ImportOf[l] = i} IN
    /\ "updateImport" \in inUse.ops
    /\ ~Busy(k)
    /\ keep \subseteq set /\ DOMAIN q \subseteq keep
    /\ set # {}
    /\ job' = [job EXCEPT ![k] = [IdleJob EXCEPT
          !.phase = "loaded", !.op = "updateImport",
          !.touch = keep, !.gone = set \ keep,
          !.copy = [l \in Lots |-> IF l \in keep THEN Edited(l, q) ELSE BlankRow],
          !.sound = {l \in keep : Out(l) <= lot[l].sold
                                  /\ (l \in DOMAIN q => lot[l].sold < q[l])
                                  /\ (l \notin DOMAIN q => lot[l].sold <= lot[l].import)}]]
    /\ UNCHANGED Database

---------------------------------------------------------------------------
(* Orders *)

Remaining(s) ==
    MapThenSumSet(LAMBDA l : lot[l].remaining, {l \in stock : SkuOf[l] = s})

\* createOrder looks whether the goods are there, and reserves nothing.
CreateOrder(o) ==
    /\ o \in inUse.orders
    /\ status[o] = "none"
    /\ \A s \in Skus : Want[o][s] > 0 =>
          /\ \E l \in stock : SkuOf[l] = s
          /\ Remaining(s) >= Want[o][s]
    /\ status' = [status EXCEPT ![o] = "OTHER"]
    /\ UNCHANGED <<inUse, stock, removed, lot, exports, lines, job, balanced, revised, left>>

\* OrderLifecycle: staff move the order, stale saves move it back.
MoveOrder(o, s) ==
    /\ status[o] \notin {"none", s} /\ s # "none"
    /\ s \in Final => "updateQuantitySold" \in inUse.ops
    /\ status' = [status EXCEPT ![o] = s]
    /\ Leave(status', lines)
    /\ UNCHANGED <<inUse, stock, removed, lot, exports, lines, job, balanced, revised>>

---------------------------------------------------------------------------
(* Exports *)

\* The lines of a request: for each variant it names, all that the order asks.
\* Variants that it does not name are not asked for.
Plans(os) ==
    {plan \in SUBSET (os \X stock \X (1 .. MaxQty)) :
        /\ Packed(plan)
        /\ \A o \in os, s \in Skus :
              Cardinality(Sent(plan, o, s)) \in {0, Want[o][s]}}

\* Mutant: any rest is enough.
EnoughMutant(plan, l) == lot[l].remaining > 0

\* Whether a lot has what the plan takes from it.
Enough(plan, l) == Cardinality(From(plan, l)) <= lot[l].remaining

\* Mutant: what is taken is not counted.
TakesMutant(plan, l) == lot[l]

\* A lot's row, counted down in memory.
Takes(plan, l) == [lot[l] EXCEPT !.remaining = @ - Cardinality(From(plan, l))]

\* The orders and the lots are read and compared.  (The lots are read after
\* the orders; no step of a lot looks at an order that is being exported.)
StartExport(k, op, os, plan) ==
    LET set == LotsOf(plan) IN
    /\ op \in inUse.ops
    /\ ~Busy(k)
    /\ \A o \in os : status[o] = "CONFIRMED"
    /\ set \subseteq stock
    /\ \A l \in set : Enough(plan, l)
    /\ job' = [job EXCEPT ![k] = [IdleJob EXCEPT
          !.phase = "loaded", !.op = op, !.orders = os, !.plan = plan,
          !.touch = set, !.sound = set,
          !.copy = [l \in Lots |-> IF l \in set THEN Takes(plan, l) ELSE BlankRow]]]
    /\ UNCHANGED Database

CreateExportOrder(k, o, plan) == StartExport(k, "createExportOrder", {o}, plan)

\* The orders of createManyExport are those that its lines name.
CreateManyExport(k, os, plan) ==
    /\ \A o \in os : \E p \in plan : p[1] = o
    /\ StartExport(k, "createManyExport", os, plan)

\* Mutant: order_id is not unique.
CommitExportMutant(k) ==
    LET j == job[k] IN
    /\ j.phase = "loaded" /\ j.op \in Exports
    /\ j.touch \subseteq stock
    /\ exports' = exports \cup j.orders
    /\ lines' = lines \cup j.plan
    /\ lot' = [l \in Lots |-> IF l \in j.touch
                                THEN [lot[l] EXCEPT !.remaining = j.copy[l].remaining]
                                ELSE lot[l]]
    /\ status' = [o \in Orders |-> IF o \in j.orders THEN "OTHER" ELSE status[o]]
    /\ revised' = revised \ j.orders
    /\ balanced' = balanced \ (j.touch \ j.sound)
    /\ job' = Answer(k, j.touch)
    /\ Leave(status', lines')
    /\ UNCHANGED <<inUse, stock, removed>>

\* The export (its order_id is unique), its lines (whose lots must exist), the
\* remainders as computed, and the orders: EXPORTED.
CommitExport(k) ==
    LET j == job[k] IN
    /\ j.phase = "loaded" /\ j.op \in Exports
    /\ j.orders \cap exports = {}
    /\ j.touch \subseteq stock
    /\ exports' = exports \cup j.orders
    /\ lines' = lines \cup j.plan
    /\ lot' = [l \in Lots |-> IF l \in j.touch
                                THEN [lot[l] EXCEPT !.remaining = j.copy[l].remaining]
                                ELSE lot[l]]
    /\ status' = [o \in Orders |-> IF o \in j.orders THEN "OTHER" ELSE status[o]]
    /\ revised' = revised \ j.orders
    /\ balanced' = balanced \ (j.touch \ j.sound)
    /\ job' = Answer(k, j.touch)
    /\ Leave(status', lines')
    /\ UNCHANGED <<inUse, stock, removed>>

\* The export and its lines go; remainders and order stay as they are.
RemoveExport(o) ==
    /\ "removeExport" \in inUse.ops
    /\ o \in exports
    /\ exports' = exports \ {o}
    /\ lines' = lines \ LinesOf(o)
    /\ job' = Disturb(LotsOf(LinesOf(o)))
    /\ UNCHANGED <<inUse, stock, removed, lot, status, balanced, revised, left>>

\* UpdateExport replaces the lines.  It compares what a line grows by with the
\* remainder, but not the lines with the order, and its last statement sets
\* every remainder to itself.  (One step: it writes no row that others save.)
UpdateExport(o, plan) ==
    LET more(l) == Cardinality(From(plan, l)) - Cardinality(From(LinesOf(o), l))
        set == LotsOf(plan \cup LinesOf(o))
    IN
    /\ "updateExport" \in inUse.ops
    /\ o \in exports
    /\ plan # LinesOf(o)
    /\ LotsOf(plan) \subseteq stock
    /\ \A l \in LotsOf(plan) : more(l) <= lot[l].remaining
    /\ lines' = (lines \ LinesOf(o)) \cup plan
    /\ revised' = revised \cup {o}
    /\ balanced' = balanced \ {l \in set : more(l) > 0}
    /\ job' = Disturb(set)
    /\ Leave(status, lines')
    /\ UNCHANGED <<inUse, stock, removed, lot, status, exports>>

---------------------------------------------------------------------------
(* Counting *)

\* What remains when all that is exported is taken away.
Recounted(row, out) == IF row.import - out > 0 THEN row.import - out ELSE 0

\* updateRemainingQuantity, of one of the lots in its list; a lot whose
\* remainder stays the same is not saved.
UpdateRemainingQuantity(k, l) ==
    LET n == Recounted(lot[l], Out(l)) IN
    /\ "updateRemainingQuantity" \in inUse.ops
    /\ ~Busy(k)
    /\ l \in stock
    /\ n # lot[l].remaining
    /\ job' = [job EXCEPT ![k] = [IdleJob EXCEPT
          !.phase = "loaded", !.op = "updateRemainingQuantity", !.touch = {l},
          !.copy[l] = [lot[l] EXCEPT !.remaining = n],
          !.sound = IF Out(l) <= lot[l].import THEN {l} ELSE {}]]
    /\ UNCHANGED Database

\* Mutant: an order on its way counts too.
CountsMutant(s) == s # "none"

\* Whether an order in status s may be counted.
Counts(s) == s \in Final

\* updateQuantitySold of order o's export, by the status step or by PATCH
\* detail-import/:id, which may be repeated.
UpdateQuantitySold(k, o) ==
    LET set == LotsOf(LinesOf(o))
        n(l) == Cardinality(From(LinesOf(o), l))
        sold(l) == IF status[o] = "FAILED_DELIVERY" THEN lot[l].sold - n(l)
                                                    ELSE lot[l].sold + n(l)
    IN
    /\ "updateQuantitySold" \in inUse.ops
    /\ ~Busy(k)
    /\ o \in exports /\ set # {}
    /\ Counts(status[o])
    /\ \A l \in set : sold(l) \in -SoldBound .. SoldBound
    /\ job' = [job EXCEPT ![k] = [IdleJob EXCEPT
          !.phase = "loaded", !.op = "updateQuantitySold", !.touch = set, !.sound = set,
          !.copy = [l \in Lots |-> IF l \in set THEN [lot[l] EXCEPT !.sold = sold(l)]
                                                ELSE BlankRow]]]
    /\ UNCHANGED Database

\* The columns that a save compares: updateRemainingQuantity has selected
\* three of them only.
SavedColumns(op) ==
    IF op = "updateRemainingQuantity" THEN {"import", "remaining"} ELSE Columns

\* save reads the rows again, and keeps the columns that differ.
Diff(k) ==
    LET j == job[k] IN
    /\ j.phase = "loaded" /\ j.op \notin Exports
    /\ j.touch \subseteq stock
    /\ job' = [job EXCEPT ![k] = [j EXCEPT
          !.phase = "diffed",
          !.dirty = [l \in Lots |->
             IF l \in j.touch THEN {c \in SavedColumns(j.op) : j.copy[l][c] # lot[l][c]}
                              ELSE {}]]]
    /\ UNCHANGED Database

\* The row after the UPDATE.
SavedRow(j, l) ==
    LET src(c) == IF c \in j.dirty[l] THEN j.copy[l][c] ELSE lot[l][c]
    IN  [import |-> src("import"), sold |-> src("sold"), remaining |-> src("remaining")]

\* The lots that a save leaves in balance: those whose copy is sound (a sound
\* remainder that was counted anew mends the lot), and those in balance of
\* which only quantity_sold is written.
Balance(j) ==
    (balanced \ {l \in j.touch : ~(j.dirty[l] \subseteq {"sold"})})
    \cup (j.sound \cap (IF j.op = "updateQuantitySold" THEN balanced ELSE Lots))

Save(k) ==
    LET j == job[k] IN
    /\ j.phase = "diffed"
    /\ Delete(j.gone)
    /\ lot' = [l \in Lots |-> IF l \in j.touch THEN SavedRow(j, l) ELSE lot[l]]
    /\ balanced' = Balance(j)
    /\ job' = Answer(k, j.touch \cup j.gone)
    /\ UNCHANGED <<inUse, status, exports, revised, left>>

\* A request dies: at a check, in the database or with the server.
Abort(k) ==
    /\ Busy(k)
    /\ job' = [job EXCEPT ![k] = IdleJob]
    /\ UNCHANGED Database

---------------------------------------------------------------------------

Init ==
    /\ inUse \in Mixes
    /\ stock = {} /\ removed = {}
    /\ lot = [l \in Lots |-> BlankRow]
    /\ status = [o \in Orders |-> "none"]
    /\ exports = {} /\ lines = {}
    /\ job = [k \in Clerks |-> IdleJob]
    /\ balanced = {} /\ revised = {} /\ left = {}

Next ==
    \/ \E l \in Lots, q \in inUse.quantities : CreateImport(l, q)
    \/ \E i \in Imports : RemoveImport(i)
    \/ \E o \in Orders : CreateOrder(o) \/ RemoveExport(o)
    \/ \E o \in Orders, s \in Status : MoveOrder(o, s)
    \/ \E o \in Orders : \E plan \in SUBSET ({o} \X stock \X (1 .. MaxQty)) :
          Packed(plan) /\ UpdateExport(o, plan)
    \/ \E k \in Clerks :
          \/ \E i \in Imports, keep \in SUBSET Lots : \E set \in SUBSET keep :
                \E q \in [set -> inUse.quantities] : UpdateImport(k, i, keep, q)
          \/ \E o \in Orders : \E plan \in Plans({o}) : CreateExportOrder(k, o, plan)
          \/ \E os \in SUBSET Orders : os # {} /\
                \E plan \in Plans(os) : CreateManyExport(k, os, plan)
          \/ \E l \in Lots : UpdateRemainingQuantity(k, l)
          \/ \E o \in Orders : UpdateQuantitySold(k, o)
          \/ CommitExport(k) \/ Diff(k) \/ Save(k) \/ Abort(k)

Spec == Init /\ [][Next]_vars

---------------------------------------------------------------------------
(* Properties *)

\* The type invariant.
TypeOK ==
    /\ inUse \in Mixes
    /\ stock \subseteq Lots /\ removed \subseteq Lots
    /\ lot \in [Lots -> LotRow]
    /\ status \in [Orders -> Status]
    /\ exports \subseteq Orders
    /\ lines \subseteq Pieces
    /\ job \in [Clerks -> Job]
    /\ balanced \subseteq Lots /\ revised \subseteq Orders /\ left \subseteq Lots

\* What remains in a lot and what the export lines name is together no more
\* than was imported, however exports, counts and saves overlap, unless the
\* lot was put out of balance: by a save of a copy that was out of date, by an
\* update of its import while goods are on their way or after it is sold out,
\* or by an update of an export that takes more.  Counting the lot again
\* mends it (executeExportOrder, createManyExport, updateRemainingQuantity).
BooksBalance ==
    \A l \in stock \cap balanced : Out(l) + lot[l].remaining <= lot[l].import

\* An export that nobody updated sends an order no more of any variant than it
\* asked for, even if two requests export the order from different lots at
\* the same time (executeExportOrder, createManyExport).
ExportFitsOrder ==
    \A o \in exports \ revised, s \in Skus :
        Cardinality(Sent(lines, o, s)) <= Want[o][s]

\* Only the end of an order that took goods from a lot changes what is sold of
\* it, whichever stale rows are saved (updateQuantitySold).
SoldWasSent == \A l \in stock : lot[l].sold # 0 => l \in left

\* Lines belong to exports and lots that are there; the lots of ended orders
\* are in left.
LinesInv ==
    \A p \in lines :
        /\ p[1] \in exports /\ p[2] \in stock
        /\ status[p[1]] \in Final => p[2] \in left

\* What a request in flight may hold.
JobInv(j) ==
    /\ j.op # "none"
    /\ j.touch \subseteq stock \cup removed /\ j.sound \subseteq j.touch
    /\ j.phase = "diffed" => j.op \notin Exports
    /\ \A l \in j.touch : j.copy[l].sold # 0 => l \in left
    /\ j.op \in Exports =>
          /\ j.plan \subseteq j.orders \X j.touch \X (1 .. MaxQty)
          /\ \A o \in j.orders, s \in Skus : Cardinality(Sent(j.plan, o, s)) <= Want[o][s]
          /\ \A l \in j.sound :
                j.copy[l].remaining = lot[l].remaining - Cardinality(From(j.plan, l))
    /\ j.op = "updateQuantitySold" =>
          \A l \in j.sound : /\ j.copy[l].import = lot[l].import
                             /\ j.copy[l].remaining = lot[l].remaining
    /\ j.op \in {"updateImport", "updateRemainingQuantity"} =>
          \A l \in j.sound : Out(l) + j.copy[l].remaining <= j.copy[l].import
    /\ j.phase = "diffed" =>
          \A l \in j.sound, c \in {"import", "remaining"} :
              c \notin j.dirty[l] => j.copy[l][c] = lot[l][c]

\* The inductive invariant: what the lots promise, what the lines name, and
\* what requests in flight may still write (all the handlers of this module).
InventoryInv ==
    /\ TypeOK /\ LinesInv /\ BooksBalance /\ ExportFitsOrder /\ SoldWasSent
    /\ \A k \in Clerks : Busy(k) => JobInv(job[k])

============================================================================
