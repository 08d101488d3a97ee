-------------------------- MODULE OrderLifecycle --------------------------
(***************************************************************************)
(* The life of an order as OrderService and ExportService drive it.        *)
(*                                                                         *)
(* Every endpoint that touches an order follows one shape: find the row,   *)
(* check it, assign a few columns of the entity in memory, and save the    *)
(* entity inside a READ COMMITTED transaction.  No row is locked by the    *)
(* find, and no version column exists, so requests on the same order       *)
(* interleave.  A request is therefore a job with three steps:             *)
(*                                                                         *)
(*   load    the handler's action: find, checks, assignments;              *)
(*   Diff    TypeORM's save re-reads the row and keeps the columns whose   *)
(*           value in memory differs from the value in the database;       *)
(*   Commit  the UPDATE of exactly those columns, with what else the       *)
(*           transaction writes.                                           *)
(*                                                                         *)
(* updateNormalOrderStatus saves twice.  If its first save writes the row, *)
(* it also locks it, so its second save rewrites whatever differs by then; *)
(* if not, the second save compares anew (Resave).  It also loads every    *)
(* relation of the order, and a save compares the loaded relations too: an *)
(* export it did not see is detached from the order.                       *)
(*                                                                         *)
(* A check that throws leaves the database alone: such a request takes no  *)
(* step.  A transaction that fails after the load is rolled back: Abort.   *)
(* Roles are not modelled: an action is taken by a user who holds the role *)
(* the handler asks for.                                                   *)
(***************************************************************************)
EXTENDS Integers

CONSTANTS
    Orders,          \* the orders' ids
    NoOrder,         \* the order of a free slot
    Requests,        \* slots for the requests that run at the same time
    Ops,             \* the endpoints in use, a subset of AllOps
    Methods,         \* the payment methods in use
    PaymentWrites,   \* payment statuses a payment handler may save
    CreditBound      \* bounds credited[o]

AllOps == {"confirmOrder", "exportOrder", "createExportOrder", "handOverOrder",
           "deliverOrder", "shipOrder", "shipOrderSuccess",
           "failedDeliveryOrder", "cancelOrder", "updateNormalOrderStatus",
           "updateNormalPaymentFailed", "update", "remove", "removeExport"}

OrderStatus == {"CANCELLED", "PENDING", "CONFIRMED", "EXPORTED", "HAND_OVERED",
                "DELIVERING", "SHIPPING", "DELIVERED", "FAILED_DELIVERY"}

PaymentStatus == {"FAILED", "PENDING", "PAID", "REFUNDED", "CANCELLED",
                  "PROCESSING", "EXPIRED"}

\* The payment_method_id of a row written without the relation being loaded.
NoMethod == "NONE"

ASSUME LifecycleAssumption ==
    /\ NoOrder \notin Orders
    /\ Ops \subseteq AllOps
    /\ Methods \subseteq {"COD", "PAYOS", "ZALOPAY"}
    /\ PaymentWrites \subseteq PaymentStatus
    /\ CreditBound \in Nat

Row == [order_status: OrderStatus, payment_status: PaymentStatus,
        paymentMethod: Methods \cup {NoMethod}]

Columns == {"order_status", "payment_status", "paymentMethod"}

\* The row that an order has in table export; a loose one lost its order_id.
ExportRow == {"none", "linked", "loose"}

NewRow(m) == [order_status |-> "PENDING", payment_status |-> "PENDING",
              paymentMethod |-> m]

Job == [phase: {"idle", "loaded", "diffed"}, op: AllOps \cup {"none"},
        order: Orders \cup {NoOrder}, entity: Row, exported: BOOLEAN,
        dirty: SUBSET (Columns \cup {"export"}), insert: BOOLEAN,
        saves: {1, 2}, credits: BOOLEAN]

IdleJob == [phase |-> "idle", op |-> "none", order |-> NoOrder,
            entity |-> NewRow(NoMethod), exported |-> FALSE,
            dirty |-> {}, insert |-> FALSE, saves |-> 1, credits |-> FALSE]

VARIABLES
    live,       \* the orders that have a row
    order,      \* the row of each order (meaningless unless live)
    export,     \* the export row of each order
    credited,   \* how often an order's goods were added to quantity_sold
    job,        \* the requests in flight
    seen,       \* ghost: the order statuses ever committed for an order
    clean       \* ghost: no two requests on the order overlapped, and no
                \* payment handler wrote it

vars == <<live, order, export, credited, job, seen, clean>>

---------------------------------------------------------------------------
(* Helpers *)

Busy(r) == job[r].phase # "idle"

\* Handlers whose find does not load the relation never write its column.
LoadsMethod(op) ==
    op \in {"confirmOrder", "shipOrderSuccess", "cancelOrder", "update",
            "updateNormalOrderStatus", "updateNormalPaymentFailed"}

SavedColumns(op) ==
    IF LoadsMethod(op) THEN Columns ELSE Columns \ {"paymentMethod"}

\* updateNormalOrderStatus finds the order with every relation.
LoadsAll(op) == op \in {"updateNormalOrderStatus", "updateNormalPaymentFailed"}

\* How often the handler saves the order.
Saves(op) == IF op = "updateNormalOrderStatus" THEN 2 ELSE 1

\* The statuses handleCancelOrder refuses.  HAND_OVERED is not among them.
NonCancelStatus == {"EXPORTED", "DELIVERING", "SHIPPING", "DELIVERED",
                    "CANCELLED", "FAILED_DELIVERY"}

\* The handler op has found order o, passed its checks and holds entity e.
Hold(r, o, op, e) ==
    /\ op \in Ops
    /\ ~Busy(r)
    /\ o \in live
    /\ job' = [job EXCEPT ![r] =
                  [IdleJob EXCEPT
                     !.phase = "loaded", !.op = op, !.order = o, !.entity = e,
                     !.exported = LoadsAll(op) /\ export[o] = "linked",
                     !.saves = Saves(op)]]
    /\ clean' = [clean EXCEPT ![o] =
                    @ /\ \A q \in Requests : Busy(q) => job[q].order # o]
    /\ UNCHANGED <<live, order, export, credited, seen>>

\* The same, for the handlers that only move the order to status s.
Advance(r, o, op, from, s) ==
    /\ order[o].order_status \in from
    /\ Hold(r, o, op, [order[o] EXCEPT !.order_status = s])

\* Mutant: the cash of a COD delivery is not recorded.
DeliveredRowMutant(row) == [row EXCEPT !.order_status = "DELIVERED"]

\* What a courier's success leaves in the row: a COD order is paid in cash.
DeliveredRow(row) ==
    [row EXCEPT !.order_status = "DELIVERED",
                !.payment_status = IF row.paymentMethod = "COD" THEN "PAID" ELSE @]

---------------------------------------------------------------------------
(* Creation and deletion *)

\* createOrder: the row of a new order, with the columns' defaults.
CreateOrder(o, m) ==
    /\ seen[o] = {}
    /\ live' = live \cup {o}
    /\ order' = [order EXCEPT ![o] = NewRow(m)]
    /\ seen' = [seen EXCEPT ![o] = {"PENDING"}]
    /\ UNCHANGED <<export, credited, job, clean>>

\* remove: deletes the row whatever its status; the export row goes with it.
Remove(o) ==
    /\ "remove" \in Ops
    /\ o \in live
    /\ live' = live \ {o}
    /\ export' = [export EXCEPT ![o] = IF @ = "linked" THEN "none" ELSE @]
    /\ clean' = [clean EXCEPT ![o] =
                    @ /\ \A q \in Requests : Busy(q) => job[q].order # o]
    /\ UNCHANGED <<order, credited, job, seen>>

\* ExportService.remove: the export row goes, the order keeps its status.
RemoveExport(o) ==
    /\ "removeExport" \in Ops
    /\ export[o] # "none"
    /\ export' = [export EXCEPT ![o] = "none"]
    /\ UNCHANGED <<live, order, credited, job, seen, clean>>

---------------------------------------------------------------------------
(* The handlers: find, check, assign *)

\* confirmOrder: its check of the current status is commented out.
ConfirmOrder(r, o) ==
    /\ order[o].paymentMethod # NoMethod
    /\ Advance(r, o, "confirmOrder", OrderStatus, "CONFIRMED")

ExportOrder(r, o) == Advance(r, o, "exportOrder", {"CONFIRMED"}, "EXPORTED")

\* Mutant: the export is created, the order's status is not set.
CreateExportOrderMutant(r, o) ==
    Advance(r, o, "createExportOrder", {"CONFIRMED"}, "CONFIRMED")

\* executeExportOrder, seen from the order: the lots are module Inventory's.
CreateExportOrder(r, o) ==
    Advance(r, o, "createExportOrder", {"CONFIRMED"}, "EXPORTED")

\* Mutant: no check of the status, as in confirmOrder.
HandOverOrderMutant(r, o) ==
    Advance(r, o, "handOverOrder", OrderStatus, "HAND_OVERED")

HandOverOrder(r, o) ==
    Advance(r, o, "handOverOrder", {"EXPORTED"}, "HAND_OVERED")

DeliverOrder(r, o) ==
    Advance(r, o, "deliverOrder", {"HAND_OVERED"}, "DELIVERING")

ShipOrder(r, o) == Advance(r, o, "shipOrder", {"DELIVERING"}, "SHIPPING")

ShipOrderSuccess(r, o) ==
    /\ order[o].order_status = "SHIPPING"
    /\ order[o].paymentMethod # NoMethod
    /\ Hold(r, o, "shipOrderSuccess", DeliveredRow(order[o]))

FailedDeliveryOrder(r, o) ==
    Advance(r, o, "failedDeliveryOrder", {"DELIVERING", "SHIPPING"},
            "FAILED_DELIVERY")

CancelOrder(r, o) ==
    Advance(r, o, "cancelOrder", OrderStatus \ NonCancelStatus, "CANCELLED")

\* Mutant: the cash is recorded when the courier leaves.
NormalNextMutant(row) ==
    CASE row.order_status = "CONFIRMED"  -> [row EXCEPT !.order_status = "EXPORTED"]
      [] row.order_status = "EXPORTED"   -> [row EXCEPT !.order_status = "DELIVERING"]
      [] row.order_status = "DELIVERING" -> [DeliveredRow(row) EXCEPT !.order_status = "SHIPPING"]
      [] row.order_status = "SHIPPING"   -> [row EXCEPT !.order_status = "DELIVERED"]
      [] OTHER                           -> row

\* updateNormalOrderStatusLogic past its checks.  HAND_OVERED, DELIVERED and
\* FAILED_DELIVERY are not cases of its switch: the row is saved as it is.
NormalNext(row) ==
    CASE row.order_status = "CONFIRMED"  -> [row EXCEPT !.order_status = "EXPORTED"]
      [] row.order_status = "EXPORTED"   -> [row EXCEPT !.order_status = "DELIVERING"]
      [] row.order_status = "DELIVERING" -> [row EXCEPT !.order_status = "SHIPPING"]
      [] row.order_status = "SHIPPING"   -> DeliveredRow(row)
      [] OTHER                           -> row

UpdateNormalOrderStatus(r, o) ==
    /\ order[o].order_status \notin {"CANCELLED", "PENDING"}
    /\ order[o].paymentMethod # NoMethod
    /\ order[o].payment_status # "FAILED"
    /\ order[o].payment_status = "PENDING" => order[o].paymentMethod = "COD"
    /\ Hold(r, o, "updateNormalOrderStatus", NormalNext(order[o]))

\* Mutant: a failed payment is handled before the check of the status.
UpdateNormalPaymentFailedMutant(r, o) ==
    /\ order[o].payment_status = "FAILED"
    /\ Hold(r, o, "updateNormalPaymentFailed",
            [order[o] EXCEPT !.order_status = "FAILED_DELIVERY"])

\* The same endpoint when the payment failed.  A COD order goes to
\* FAILED_DELIVERY.  For the others cancelOrder saves CANCELLED through its
\* own copy of the row, but the caller then saves the copy it read before,
\* in the same transaction: the columns end as that copy had them.
UpdateNormalPaymentFailed(r, o) ==
    LET row == order[o] IN
    /\ row.order_status \notin {"CANCELLED", "PENDING"}
    /\ row.payment_status = "FAILED"
    /\ \/ /\ row.paymentMethod = "COD"
          /\ Hold(r, o, "updateNormalPaymentFailed",
                  [row EXCEPT !.order_status = "FAILED_DELIVERY"])
       \/ /\ row.paymentMethod \notin {"COD", NoMethod}
          /\ Hold(r, o, "updateNormalPaymentFailed", row)

\* checkStatusUpdate: the statuses that freeze the payment method, and those
\* that refuse any update.  HAND_OVERED and FAILED_DELIVERY are not named.
FreezesMethod == {"CONFIRMED", "EXPORTED", "DELIVERING", "SHIPPING"}
RefusesUpdate == {"DELIVERED", "CANCELLED"}

\* Mutant: the new payment method starts unpaid.
UpdateMutant(r, o, m) ==
    LET row == order[o] IN
    /\ row.order_status \notin RefusesUpdate
    /\ row.order_status \in FreezesMethod => m = row.paymentMethod
    /\ Hold(r, o, "update", [row EXCEPT !.paymentMethod = m,
                                        !.payment_status = "PENDING"])

\* update with an empty list of details (any other list throws).  An order
\* that lost its payment method passes only when the body names none either
\* (the id of the lost one is read), in a status that does not compare them.
Update(r, o, m) ==
    LET row == order[o] IN
    /\ row.order_status \notin RefusesUpdate
    /\ row.order_status \in FreezesMethod => m = row.paymentMethod
    /\ NoMethod \in {m, row.paymentMethod} =>
          m = row.paymentMethod /\ row.order_status \notin FreezesMethod
    /\ Hold(r, o, "update", [row EXCEPT !.paymentMethod = m])

---------------------------------------------------------------------------
(* The save *)

\* A failed payment that was not to be cash: the cancelOrder inside
\* updateNormalOrderStatus finds the order again, and may refuse.
CancelsFirst(j) == j.op = "updateNormalPaymentFailed" /\ j.entity.paymentMethod # "COD"

\* Of two saves in a transaction the first has locked the row (cancelOrder's
\* always, the other's if a column differed): the second rewrites it all.
Rewrites(j) == j.saves = 2 \/ CancelsFirst(j)

\* A request once its save has read the row again, and compared.
Compared(j) ==
    [j EXCEPT !.phase = "diffed",
              !.insert = j.order \notin live,
              !.dirty = {c \in SavedColumns(j.op) : j.entity[c] # order[j.order][c]}
                        \cup (IF LoadsAll(j.op) /\ j.exported # (export[j.order] = "linked")
                               THEN {"export"} ELSE {})]

\* manager.save, first half.
Diff(r) ==
    /\ job[r].phase = "loaded"
    /\ CancelsFirst(job[r]) =>
          /\ job[r].order \in live
          /\ order[job[r].order].order_status \notin NonCancelStatus
    /\ job' = [job EXCEPT ![r] = Compared(job[r])]
    /\ UNCHANGED <<live, order, export, credited, seen, clean>>

\* The row a commit leaves: the dirty columns come from memory; a row that
\* was missing is inserted, its payment method only if it was loaded.
SavedRow(j) ==
    LET src(c) == IF j.insert \/ Rewrites(j) \/ c \in j.dirty
                    THEN j.entity[c] ELSE order[j.order][c]
    IN  [order_status   |-> src("order_status"),
         payment_status |-> src("payment_status"),
         paymentMethod  |-> IF j.insert /\ ~LoadsMethod(j.op)
                              THEN NoMethod ELSE src("paymentMethod")]

\* An export that a stale list detaches from its order, or attaches again.
Relinked(e) ==
    CASE e = "linked" -> "loose" [] e = "loose" -> "linked" [] OTHER -> e

\* The export row after a save that found it to differ from the copy: one
\* that is not in the copy is detached, one that is gets its order back.
Attached(j) ==
    CASE j.exported /\ export[j.order] = "loose"   -> "linked"
      [] ~j.exported /\ export[j.order] = "linked" -> "loose"
      [] OTHER                                     -> export[j.order]

FirstExport(j) == IF "export" \in j.dirty THEN Attached(j) ELSE export[j.order]

SavedExport(j) ==
    IF j.op = "createExportOrder" THEN "linked"
    ELSE IF LoadsAll(j.op) /\ Rewrites(j) THEN Attached(j) ELSE FirstExport(j)

\* The status that updateNormalOrderStatusLogic reads back after its save.
FirstStatus(j) ==
    IF j.insert \/ "order_status" \in j.dirty
      THEN j.entity.order_status ELSE order[j.order].order_status

\* If that is DELIVERED it calls updateQuantitySold.
Credits(j) ==
    IF j.saves = 2 THEN FirstStatus(j) = "DELIVERED" ELSE j.credits

\* The first of two saves had nothing to write (a column that is not modelled
\* may differ too: then it is Commit's turn); on to the second.
Resave(r) ==
    LET j == job[r] IN
    /\ j.phase = "diffed" /\ j.saves = 2
    /\ j.order \in live /\ ~j.insert
    /\ j.dirty \cap Columns = {}
    /\ Credits(j) => FirstExport(j) = "linked"
    /\ job' = [job EXCEPT ![r] = [j EXCEPT !.phase = "loaded", !.dirty = {},
                                          !.saves = 1, !.credits = Credits(j)]]
    /\ UNCHANGED <<live, order, export, credited, seen, clean>>

Sold(j) == IF Credits(j) THEN [credited EXCEPT ![j.order] = @ + 1] ELSE credited

\* manager.save, second half, and the rest of the transaction: the export
\* row of createExportOrder, which order_id's unique constraint admits once,
\* and the credit to quantity_sold, which needs the order's export.
Commit(r) ==
    LET j == job[r]
        o == j.order
        row == SavedRow(j)
    IN
    /\ j.phase = "diffed"
    /\ j.insert <=> o \notin live
    /\ j.op = "createExportOrder" => export[o] # "linked" /\ ~j.insert
    /\ Credits(j) =>
          /\ j.saves = 2 => FirstExport(j) = "linked"
          /\ credited[o] < CreditBound
    /\ live' = live \cup {o}
    /\ order' = [order EXCEPT ![o] = row]
    /\ export' = [export EXCEPT ![o] = SavedExport(j)]
    /\ credited' = Sold(j)
    /\ seen' = [seen EXCEPT ![o] = @ \cup {row.order_status}]
    /\ job' = [job EXCEPT ![r] = IdleJob]
    /\ UNCHANGED clean

\* The transaction fails (a constraint, a null export, a lost connection, a
\* restart) or its UPDATE matches no row any more: nothing is written.
Abort(r) ==
    /\ Busy(r)
    /\ job' = [job EXCEPT ![r] = IdleJob]
    /\ UNCHANGED <<live, order, export, credited, seen, clean>>

---------------------------------------------------------------------------
(* The payment handlers, as the rest of the order's code sees them: each   *)
(* saves a payment status and an order status that is PENDING, CANCELLED   *)
(* or one the handler once read; only a handler that loaded the payment    *)
(* method or the export may write it back.  PayosPayment and ZaloPayment   *)
(* detail them.                                                            *)

PaymentHandlerSave(o, row) ==
    /\ seen[o] # {}
    /\ row.order_status \in seen[o] \cup {"PENDING", "CANCELLED"}
    /\ row.payment_status \in PaymentWrites
    /\ row.paymentMethod \in
          Methods \cup (IF o \in live THEN {order[o].paymentMethod} ELSE {NoMethod})
    /\ live' = live \cup {o}
    /\ order' = [order EXCEPT ![o] = row]
    /\ seen' = [seen EXCEPT ![o] = @ \cup {row.order_status}]
    /\ clean' = [clean EXCEPT ![o] = FALSE]
    /\ export' \in {export, [export EXCEPT ![o] = Relinked(@)]}
    /\ UNCHANGED <<credited, job>>

---------------------------------------------------------------------------

Handle(r, o) ==
    \/ ConfirmOrder(r, o)
    \/ ExportOrder(r, o)
    \/ CreateExportOrder(r, o)
    \/ HandOverOrder(r, o)
    \/ DeliverOrder(r, o)
    \/ ShipOrder(r, o)
    \/ ShipOrderSuccess(r, o)
    \/ FailedDeliveryOrder(r, o)
    \/ CancelOrder(r, o)
    \/ UpdateNormalOrderStatus(r, o)
    \/ UpdateNormalPaymentFailed(r, o)
    \/ \E m \in Methods \cup {NoMethod} : Update(r, o, m)

Init ==
    /\ live = {}
    /\ order = [o \in Orders |-> NewRow(NoMethod)]
    /\ export = [o \in Orders |-> "none"]
    /\ credited = [o \in Orders |-> 0]
    /\ job = [r \in Requests |-> IdleJob]
    /\ seen = [o \in Orders |-> {}]
    /\ clean = [o \in Orders |-> TRUE]

\* What the handlers of module order and export do.
StaffStep ==
    \/ \E o \in Orders :
          \/ \E m \in Methods : CreateOrder(o, m)
          \/ Remove(o)
          \/ RemoveExport(o)
          \/ \E r \in Requests : Handle(r, o)
    \/ \E r \in Requests : Diff(r) \/ Resave(r) \/ Abort(r)

StaffNext == StaffStep \/ \E r \in Requests : Commit(r)

Next ==
    \/ StaffNext
    \/ \E o \in Orders, row \in Row : PaymentHandlerSave(o, row)

Spec == Init /\ [][Next]_vars

---------------------------------------------------------------------------
(* Properties *)

\* The type invariant.
TypeOK ==
    /\ live \subseteq Orders
    /\ order \in [Orders -> Row]
    /\ export \in [Orders -> ExportRow]
    /\ credited \in [Orders -> Nat]
    /\ job \in [Requests -> Job]
    /\ seen \in [Orders -> SUBSET OrderStatus]
    /\ clean \in [Orders -> BOOLEAN]

\* The statuses one of which an order must have had before it may show s.
\* Every other status can be entered at any time.
Precursors(s) ==
    CASE s = "EXPORTED"        -> {"CONFIRMED"}
      [] s = "HAND_OVERED"     -> {"EXPORTED"}
      [] s = "DELIVERING"      -> {"EXPORTED", "HAND_OVERED"}
      [] s = "SHIPPING"        -> {"DELIVERING"}
      [] s = "DELIVERED"       -> {"SHIPPING"}
      [] s = "FAILED_DELIVERY" -> {"CONFIRMED"}
      [] OTHER                 -> {}

Justified(s, past) == Precursors(s) # {} => Precursors(s) \cap past # {}

\* However requests on an order interleave, abort or overwrite each other
\* with stale copies, no stage of the fulfilment is ever skipped: an order
\* that shows DELIVERED was committed as SHIPPING before, SHIPPING as
\* DELIVERING, and so on down to CONFIRMED (the status checks of
\* exportOrder ... failedDeliveryOrder and updateNormalOrderStatusLogic).
StatusTrail ==
    \A o \in Orders :
        /\ o \in live => order[o].order_status \in seen[o]
        /\ \A s \in seen[o] : Justified(s, seen[o])

\* Goods and status agree with the past: an export row exists only for an
\* order that was committed as EXPORTED, quantity_sold was credited only for
\* an order that was committed as DELIVERED, and only requests that overlap
\* can tear an export from its order (createExportOrder,
\* updateNormalOrderStatus, updateNormalOrderStatusLogic).
WarehouseTrail ==
    /\ \A o \in Orders : export[o] # "none" => "EXPORTED" \in seen[o]
    /\ \A o \in Orders : credited[o] > 0 => "DELIVERED" \in seen[o]
    /\ \A o \in Orders : clean[o] => export[o] # "loose"

\* Requests that never overlapped on an order, and no payment handler, leave
\* a delivered COD order paid, whatever the path of endpoints that led there
\* (shipOrderSuccess, updateNormalOrderStatusLogic, update).
CodSettled ==
    \A o \in live :
        clean[o] /\ order[o].paymentMethod = "COD" /\ order[o].order_status = "DELIVERED"
            => order[o].payment_status = "PAID"

\* No two requests work on the order at once.
Alone(o) ==
    \A p, q \in Requests :
        Busy(p) /\ Busy(q) /\ job[p].order = o /\ job[q].order = o => p = q

Settled(row) ==
    row.paymentMethod = "COD" /\ row.order_status = "DELIVERED"
        => row.payment_status = "PAID"

\* The inductive invariant behind the three properties.  A request in flight
\* may hold a status from long ago, but one whose precursors are in the
\* past; the columns it will not write hold values from the past; and on a
\* clean order it still sees the row it read.
JobInv(r) ==
    LET j == job[r]
        o == j.order
    IN
    /\ o \in Orders
    /\ j.op \in AllOps
    /\ seen[o] # {}
    /\ Justified(j.entity.order_status, seen[o])
    /\ j.op = "createExportOrder" => j.entity.order_status = "EXPORTED"
    /\ j.phase = "diffed" /\ ~j.insert /\ "order_status" \notin j.dirty
          => j.entity.order_status \in seen[o]
    /\ j.credits => "DELIVERED" \in seen[o]
    /\ "export" \in j.dirty => LoadsAll(j.op)
    /\ clean[o] =>
          /\ o \in live
          /\ Settled(j.entity)
          /\ LoadsAll(j.op) /\ ~j.exported => export[o] # "linked"
          /\ \A c \in Columns \ SavedColumns(j.op) : j.entity[c] = order[o][c]
          /\ j.phase = "diffed" =>
                /\ ~j.insert
                /\ \A c \in Columns \ j.dirty : j.entity[c] = order[o][c]

LifecycleInv ==
    /\ TypeOK
    /\ StatusTrail
    /\ WarehouseTrail
    /\ \A o \in live : clean[o] => Settled(order[o])
    /\ \A o \in Orders : clean[o] => Alone(o)
    /\ \A r \in Requests : Busy(r) => JobInv(r)

\* A copy of order o's row, in the table or in memory, claims nothing that did
\* not happen: money that came (from the orders in funded, by a gateway), or
\* a payment that a gateway refused (those in refused).
Honest(row, o, funded, refused) ==
    /\ row.paymentMethod \in Methods
    /\ row.payment_status = "PAID" => o \in funded \/ "DELIVERED" \in seen[o]
    /\ row.payment_status = "FAILED" => o \in refused

\* What staff requests keep true whatever the gateways do, if no order is
\* removed.  A request may be about to record, with a delivery, its cash.
StaffHonest(funded, refused) ==
    /\ \A o \in live : Honest(order[o], o, funded, refused)
    /\ \A r \in Requests : Busy(r) =>
          /\ job[r].order \in live
          /\ \/ Honest(job[r].entity, job[r].order, funded, refused)
             \/ /\ job[r].entity.paymentMethod \in Methods
                /\ job[r].entity.payment_status = "PAID"
                /\ job[r].entity.order_status = "DELIVERED"

\* PATCH /orders/:id "Update order information, except order status"
\* (order.controller.ts:413): saving an update leaves the status as it is.
UpdateKeepsStatus ==
    [][\A r \in Requests :
          /\ job[r].op = "update"
          /\ job[r].phase = "diffed"
          /\ job[r].order \in live
          /\ job'[r].phase = "idle"
          => order'[job[r].order].order_status = order[job[r].order].order_status]_vars

\* "The status can not be updated because the process is complete" is what
\* order.service.ts:915 says of CANCELLED: a cancelled order stays cancelled.
CancelledIsFinal ==
    [][\A o \in live : order[o].order_status = "CANCELLED" /\ o \in live'
          => order'[o].order_status = "CANCELLED"]_vars

=============================================================================
