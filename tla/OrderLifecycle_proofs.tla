---------------------- MODULE OrderLifecycle_proofs ----------------------
(***************************************************************************)
(* LifecycleInv is an inductive invariant of OrderLifecycle, for every set *)
(* of orders, any number of requests in flight and any set of endpoints.   *)
(*                                                                         *)
(* The argument.  The past (seen) only grows, so a status whose precursors *)
(* are in the past stays justified however stale the copy that holds it    *)
(* becomes.  Each handler either assigns a status whose precursor it has   *)
(* just read, hence in the past, or keeps the status it read.  A commit    *)
(* writes a status that is justified (a dirty column) or leaves one that   *)
(* is already in the past (a clean column).                                *)
(***************************************************************************)
EXTENDS OrderLifecycle, TLAPS

\* A status justified by some past stays justified as the past grows.
LEMMA JustifiedMonotone ==
    ASSUME NEW s, NEW past, NEW more, past \subseteq more, Justified(s, past)
    PROVE  Justified(s, more)
BY DEF Justified

\* An order that shows anything but PENDING or CANCELLED was CONFIRMED once.
LEMMA ConfirmedOnce ==
    ASSUME NEW past \in SUBSET OrderStatus,
           \A s \in past : Justified(s, past),
           NEW t \in past, t \notin {"PENDING", "CANCELLED"}
    PROVE  "CONFIRMED" \in past
<1>1. \A s \in past : Precursors(s) # {} => Precursors(s) \cap past # {}
  BY DEF Justified
<1>2. "EXPORTED" \in past => "CONFIRMED" \in past
  BY <1>1 DEF Precursors
<1>3. "HAND_OVERED" \in past => "EXPORTED" \in past
  BY <1>1 DEF Precursors
<1>4. "DELIVERING" \in past => "EXPORTED" \in past \/ "HAND_OVERED" \in past
  BY <1>1 DEF Precursors
<1>5. "SHIPPING" \in past => "DELIVERING" \in past
  BY <1>1 DEF Precursors
<1>6. "DELIVERED" \in past => "SHIPPING" \in past
  BY <1>1 DEF Precursors
<1>7. "FAILED_DELIVERY" \in past => "CONFIRMED" \in past
  BY <1>1 DEF Precursors
<1>8. QED
  BY <1>2, <1>3, <1>4, <1>5, <1>6, <1>7 DEF OrderStatus

\* What a handler may hold after its checks: op is the endpoint, e the entity.
Holdable(o, op, e) ==
    /\ op \in AllOps
    /\ e \in Row
    /\ Justified(e.order_status, seen[o])
    /\ op = "createExportOrder" => e.order_status = "EXPORTED"
    /\ clean[o] => Settled(e)
    /\ "paymentMethod" \notin SavedColumns(op)
          => e.paymentMethod = order[o].paymentMethod

\* A handler's load does nothing but hold such an entity.
LEMMA HandleHolds ==
    ASSUME LifecycleInv, NEW r \in Requests, NEW o \in Orders, Handle(r, o)
    PROVE  \E op, e : Hold(r, o, op, e) /\ Holdable(o, op, e)
<1> DEFINE row == order[o]
<1>1. o \in live
  BY DEF Handle, ConfirmOrder, ExportOrder, CreateExportOrder, HandOverOrder,
         DeliverOrder, ShipOrder, ShipOrderSuccess, FailedDeliveryOrder,
         CancelOrder, UpdateNormalOrderStatus, UpdateNormalPaymentFailed,
         Update, Advance, Hold
<1>2. /\ row \in Row
      /\ row.order_status \in OrderStatus
      /\ row.payment_status \in PaymentStatus
      /\ row.paymentMethod \in Methods \cup {NoMethod}
      /\ row.order_status \in seen[o]
      /\ seen[o] \in SUBSET OrderStatus
      /\ \A s \in seen[o] : Justified(s, seen[o])
      /\ Justified(row.order_status, seen[o])
      /\ clean[o] => Settled(row)
  BY <1>1 DEF LifecycleInv, TypeOK, StatusTrail, Row
<1>3. row.order_status \notin {"PENDING", "CANCELLED"} => "CONFIRMED" \in seen[o]
  BY <1>2, ConfirmedOnce
<1>4. ASSUME NEW op, NEW from, NEW s \in OrderStatus,
             Advance(r, o, op, from, s), op \in AllOps,
             row.order_status \in from => Justified(s, seen[o]),
             op = "createExportOrder" => s = "EXPORTED",
             s # "DELIVERED"
      PROVE  \E op1, e : Hold(r, o, op1, e) /\ Holdable(o, op1, e)
  <2> DEFINE e == [row EXCEPT !.order_status = s]
  <2>1. Hold(r, o, op, e) /\ row.order_status \in from
    BY <1>4 DEF Advance
  <2>2. e \in Row /\ e.order_status = s /\ e.paymentMethod = row.paymentMethod
    BY <1>2 DEF Row
  <2>3. Settled(e)
    BY <2>2, <1>4 DEF Settled
  <2>4. Holdable(o, op, e)
    BY <2>1, <2>2, <2>3, <1>4 DEF Holdable
  <2>5. QED
    BY <2>1, <2>4
<1>5. CASE ConfirmOrder(r, o)
  <2>1. Advance(r, o, "confirmOrder", OrderStatus, "CONFIRMED")
    BY <1>5 DEF ConfirmOrder
  <2>2. Justified("CONFIRMED", seen[o])
    BY DEF Justified, Precursors
  <2>3. QED
    BY <2>1, <2>2, <1>4 DEF AllOps, OrderStatus
<1>6. CASE ExportOrder(r, o)
  <2>1. row.order_status \in {"CONFIRMED"} => Justified("EXPORTED", seen[o])
    BY <1>2 DEF Justified, Precursors
  <2>2. QED
    BY <2>1, <1>4, <1>6 DEF ExportOrder, AllOps, OrderStatus
<1>7. CASE CreateExportOrder(r, o)
  <2>1. row.order_status \in {"CONFIRMED"} => Justified("EXPORTED", seen[o])
    BY <1>2 DEF Justified, Precursors
  <2>2. QED
    BY <2>1, <1>4, <1>7 DEF CreateExportOrder, AllOps, OrderStatus
<1>8. CASE HandOverOrder(r, o)
  <2>1. row.order_status \in {"EXPORTED"} => Justified("HAND_OVERED", seen[o])
    BY <1>2 DEF Justified, Precursors
  <2>2. QED
    BY <2>1, <1>4, <1>8 DEF HandOverOrder, AllOps, OrderStatus
<1>9. CASE DeliverOrder(r, o)
  <2>1. row.order_status \in {"HAND_OVERED"} => Justified("DELIVERING", seen[o])
    BY <1>2 DEF Justified, Precursors
  <2>2. QED
    BY <2>1, <1>4, <1>9 DEF DeliverOrder, AllOps, OrderStatus
<1>10. CASE ShipOrder(r, o)
  <2>1. row.order_status \in {"DELIVERING"} => Justified("SHIPPING", seen[o])
    BY <1>2 DEF Justified, Precursors
  <2>2. QED
    BY <2>1, <1>4, <1>10 DEF ShipOrder, AllOps, OrderStatus
<1>11. row.order_status = "SHIPPING" =>
          /\ DeliveredRow(row) \in Row
          /\ Justified(DeliveredRow(row).order_status, seen[o])
          /\ Settled(DeliveredRow(row))
  BY <1>2 DEF DeliveredRow, Row, OrderStatus, PaymentStatus, Justified,
              Precursors, Settled
<1>12. CASE ShipOrderSuccess(r, o)
  <2>1. /\ Hold(r, o, "shipOrderSuccess", DeliveredRow(row))
        /\ row.order_status = "SHIPPING"
    BY <1>12 DEF ShipOrderSuccess
  <2>2. Holdable(o, "shipOrderSuccess", DeliveredRow(row))
    BY <2>1, <1>11 DEF Holdable, AllOps, SavedColumns, LoadsMethod, Columns
  <2>3. QED
    BY <2>1, <2>2
<1>13. CASE FailedDeliveryOrder(r, o)
  <2>1. row.order_status \in {"DELIVERING", "SHIPPING"}
          => Justified("FAILED_DELIVERY", seen[o])
    BY <1>3 DEF Justified, Precursors
  <2>2. QED
    BY <2>1, <1>4, <1>13 DEF FailedDeliveryOrder, AllOps, OrderStatus
<1>14. CASE CancelOrder(r, o)
  <2>1. Justified("CANCELLED", seen[o])
    BY DEF Justified, Precursors
  <2>2. QED
    BY <2>1, <1>4, <1>14 DEF CancelOrder, AllOps, OrderStatus
<1>15. CASE UpdateNormalOrderStatus(r, o)
  <2> DEFINE e == NormalNext(row)
  <2>1. Hold(r, o, "updateNormalOrderStatus", e)
    BY <1>15 DEF UpdateNormalOrderStatus
  <2>2. /\ e \in Row
        /\ Justified(e.order_status, seen[o])
        /\ clean[o] => Settled(e)
    <3>1. CASE row.order_status = "CONFIRMED"
      BY <3>1, <1>2 DEF NormalNext, Row, OrderStatus, Justified, Precursors, Settled
    <3>2. CASE row.order_status = "EXPORTED"
      BY <3>2, <1>2 DEF NormalNext, Row, OrderStatus, Justified, Precursors, Settled
    <3>3. CASE row.order_status = "DELIVERING"
      BY <3>3, <1>2 DEF NormalNext, Row, OrderStatus, Justified, Precursors, Settled
    <3>4. CASE row.order_status = "SHIPPING"
      <4>1. e = DeliveredRow(row)
        BY <3>4 DEF NormalNext
      <4>2. QED
        BY <4>1, <3>4, <1>11
    <3>5. CASE row.order_status \notin {"CONFIRMED", "EXPORTED", "DELIVERING", "SHIPPING"}
      <4>1. e = row
        BY <3>5 DEF NormalNext
      <4>2. QED
        BY <4>1, <1>2
    <3>6. QED
      BY <3>1, <3>2, <3>3, <3>4, <3>5
  <2>3. Holdable(o, "updateNormalOrderStatus", e)
    BY <2>2 DEF Holdable, AllOps, SavedColumns, LoadsMethod, Columns
  <2>4. QED
    BY <2>1, <2>3
<1>16. CASE UpdateNormalPaymentFailed(r, o)
  <2> DEFINE e == [row EXCEPT !.order_status = "FAILED_DELIVERY"]
  <2>1. row.order_status \notin {"CANCELLED", "PENDING"}
    BY <1>16 DEF UpdateNormalPaymentFailed
  <2>2. CASE Hold(r, o, "updateNormalPaymentFailed", e)
    <3>1. e \in Row /\ e.order_status = "FAILED_DELIVERY"
      BY <1>2 DEF Row, OrderStatus
    <3>2. Justified(e.order_status, seen[o])
      BY <3>1, <2>1, <1>3 DEF Justified, Precursors
    <3>3. Holdable(o, "updateNormalPaymentFailed", e)
      BY <3>1, <3>2 DEF Holdable, AllOps, SavedColumns, LoadsMethod, Columns, Settled
    <3>4. QED
      BY <2>2, <3>3
  <2>3. CASE Hold(r, o, "updateNormalPaymentFailed", row)
    <3>1. Holdable(o, "updateNormalPaymentFailed", row)
      BY <1>2 DEF Holdable, AllOps, SavedColumns, LoadsMethod, Columns
    <3>2. QED
      BY <2>3, <3>1
  <2>4. QED
    BY <1>16, <2>2, <2>3 DEF UpdateNormalPaymentFailed
<1>17. ASSUME NEW m \in Methods \cup {NoMethod}, Update(r, o, m)
       PROVE  \E op, e : Hold(r, o, op, e) /\ Holdable(o, op, e)
  <2> DEFINE e == [row EXCEPT !.paymentMethod = m]
  <2>1. Hold(r, o, "update", e) /\ row.order_status # "DELIVERED"
    BY <1>17 DEF Update, RefusesUpdate
  <2>2. e \in Row /\ e.order_status = row.order_status
    BY <1>2, <1>17 DEF Row
  <2>3. Holdable(o, "update", e)
    BY <2>1, <2>2, <1>2 DEF Holdable, AllOps, SavedColumns, LoadsMethod, Columns, Settled
  <2>4. QED
    BY <2>1, <2>3
<1>18. QED
  BY <1>5, <1>6, <1>7, <1>8, <1>9, <1>10, <1>12, <1>13, <1>14, <1>15, <1>16,
     <1>17 DEF Handle

---------------------------------------------------------------------------

\* A job's invariant survives a step that leaves its slot alone, only adds to
\* its order's past, and either dirties its order or leaves the row alone.
LEMMA JobInvKept ==
    ASSUME LifecycleInv, NEW r \in Requests, Busy(r), job'[r] = job[r],
           seen[job[r].order] \subseteq seen'[job[r].order],
           clean'[job[r].order] =>
              /\ clean[job[r].order]
              /\ job[r].order \in live'
              /\ order'[job[r].order] = order[job[r].order]
              /\ export'[job[r].order] \in {export[job[r].order], "none"}
    PROVE  JobInv(r)'
<1> DEFINE o == job[r].order
<1>1. JobInv(r)
  BY DEF LifecycleInv
<1>2. Justified(job[r].entity.order_status, seen'[o])
  BY <1>1, JustifiedMonotone DEF JobInv
<1>3. QED
  BY <1>1, <1>2 DEF JobInv, SavedColumns, LoadsMethod, LoadsAll, Columns, Settled

\* A step that changes one request in flight, and no table.
LEMMA MovedJobInv ==
    ASSUME LifecycleInv, NEW r \in Requests, Busy(r), NEW j \in Job,
           job' = [job EXCEPT ![r] = j], j.order = job[r].order,
           UNCHANGED <<live, order, export, credited, seen, clean>>,
           JobInv(r)'
    PROVE  LifecycleInv'
<1>1. TypeOK
  BY DEF LifecycleInv
<1>2. job'[r] = j /\ \A q \in Requests \ {r} : job'[q] = job[q]
  BY <1>1 DEF TypeOK
<1>3. TypeOK'
  BY <1>1 DEF TypeOK
<1>4. StatusTrail' /\ WarehouseTrail'
  BY DEF LifecycleInv, StatusTrail, WarehouseTrail
<1>5. \A p \in live' : clean'[p] => Settled(order'[p])
  BY DEF LifecycleInv
<1>6. \A q \in Requests : Busy(q)' => Busy(q) /\ job'[q].order = job[q].order
  BY <1>2 DEF Busy
<1>7. \A p \in Orders : clean'[p] => Alone(p)'
  BY <1>6 DEF LifecycleInv, Alone
<1>8. ASSUME NEW q \in Requests, Busy(q)'
      PROVE  JobInv(q)'
  <2>1. CASE q = r
    BY <2>1
  <2>2. CASE q # r
    <3>1. job'[q] = job[q] /\ Busy(q) /\ JobInv(q)
      BY <2>2, <1>2, <1>8 DEF Busy, LifecycleInv
    <3>2. QED
      BY <3>1, JobInvKept DEF JobInv
  <2>3. QED
    BY <2>1, <2>2
<1>9. QED
  BY <1>3, <1>4, <1>5, <1>7, <1>8 DEF LifecycleInv

LEMMA HoldInv ==
    ASSUME LifecycleInv, NEW r \in Requests, NEW o \in Orders, NEW op, NEW e,
           Hold(r, o, op, e), Holdable(o, op, e)
    PROVE  LifecycleInv'
<1> DEFINE x == LoadsAll(op) /\ export[o] = "linked"
           newJob == [IdleJob EXCEPT
                        !.phase = "loaded", !.op = op, !.order = o, !.entity = e,
                        !.exported = x, !.saves = Saves(op)]
<1>1. /\ job' = [job EXCEPT ![r] = newJob]
      /\ o \in live
      /\ ~Busy(r)
      /\ UNCHANGED <<live, order, export, credited, seen>>
      /\ clean' = [clean EXCEPT ![o] =
                      @ /\ \A q \in Requests : Busy(q) => job[q].order # o]
  BY DEF Hold
<1>2. TypeOK
  BY DEF LifecycleInv
<1>3. /\ newJob \in Job
      /\ newJob.phase = "loaded" /\ newJob.op = op /\ newJob.order = o
      /\ newJob.entity = e /\ newJob.exported = x
      /\ newJob.credits = FALSE /\ newJob.dirty = {}
  <2>1. IdleJob \in Job /\ IdleJob.credits = FALSE /\ IdleJob.dirty = {}
    BY DEF IdleJob, Job, NewRow, Row, OrderStatus, PaymentStatus, AllOps
  <2>2. x \in BOOLEAN /\ Saves(op) \in {1, 2} /\ op \in AllOps /\ e \in Row
    BY DEF Saves, LoadsAll, Holdable
  <2> HIDE DEF x
  <2>3. QED
    BY <2>1, <2>2 DEF Job
<1> HIDE DEF newJob
<1>4. job'[r] = newJob /\ \A q \in Requests \ {r} : job'[q] = job[q]
  BY <1>1, <1>2 DEF TypeOK
<1>5. /\ \A p \in Orders \ {o} : clean'[p] = clean[p]
      /\ clean'[o] => clean[o] /\ \A q \in Requests : Busy(q) => job[q].order # o
      /\ clean' \in [Orders -> BOOLEAN]
  BY <1>1, <1>2 DEF TypeOK
<1>6. TypeOK'
  BY <1>1, <1>2, <1>3, <1>5 DEF TypeOK
<1>7. StatusTrail' /\ WarehouseTrail'
  BY <1>1, <1>5 DEF LifecycleInv, StatusTrail, WarehouseTrail
<1>8. \A p \in live' : clean'[p] => Settled(order'[p])
  BY <1>1, <1>2, <1>5 DEF LifecycleInv, TypeOK
<1>9. ASSUME NEW p \in Orders, clean'[p]
      PROVE  Alone(p)'
  <2>1. clean[p] /\ Alone(p)
    BY <1>5, <1>9 DEF LifecycleInv
  <2>2. CASE p = o
    BY <2>2, <1>3, <1>4, <1>5, <1>9 DEF Alone, Busy
  <2>3. CASE p # o
    BY <2>1, <2>3, <1>3, <1>4 DEF Alone, Busy
  <2>4. QED
    BY <2>2, <2>3
<1>10. ASSUME NEW q \in Requests, Busy(q)'
       PROVE  JobInv(q)'
  <2>1. CASE q = r
    <3>1. job'[q] = newJob
      BY <2>1, <1>4
    <3>2. seen[o] # {} /\ o \in live'
      BY <1>1 DEF LifecycleInv, StatusTrail
    <3>3. "paymentMethod" \notin SavedColumns(op) => e.paymentMethod = order'[o].paymentMethod
      BY <1>1 DEF Holdable
    <3>4. \A c \in Columns \ SavedColumns(op) : c = "paymentMethod"
      BY DEF Columns, SavedColumns
    <3>5. \A c \in Columns \ SavedColumns(op) : e[c] = order'[o][c]
      BY <3>3, <3>4
    <3>6. clean'[o] => Settled(e)
      BY <1>5 DEF Holdable
    <3>7. Justified(e.order_status, seen'[o])
      BY <1>1 DEF Holdable
    <3>8. LoadsAll(op) /\ ~x => export'[o] # "linked"
      BY <1>1
    <3> HIDE DEF x
    <3>9. QED
      BY <3>1, <3>2, <3>5, <3>6, <3>7, <3>8, <1>1, <1>3 DEF JobInv, Holdable, SavedColumns,
            LoadsMethod, LoadsAll, Columns, Settled
  <2>2. CASE q # r
    <3>1. job'[q] = job[q] /\ Busy(q)
      BY <2>2, <1>4, <1>10 DEF Busy
    <3>2. job[q].order \in Orders
      BY <3>1 DEF LifecycleInv, JobInv
    <3>3. clean'[job[q].order] => clean[job[q].order] /\ job[q].order \in live
      BY <3>1, <3>2, <1>5 DEF LifecycleInv, JobInv
    <3>4. QED
      BY <3>1, <3>3, <1>1, JobInvKept
  <2>3. QED
    BY <2>1, <2>2
<1>11. QED
  BY <1>6, <1>7, <1>8, <1>9, <1>10 DEF LifecycleInv

LEMMA DiffInv ==
    ASSUME LifecycleInv, NEW r \in Requests, Diff(r)
    PROVE  LifecycleInv'
<1> DEFINE j == job[r]
           o == j.order
           columns == {c \in SavedColumns(j.op) : j.entity[c] # order[o][c]}
           dirty == columns \cup (IF LoadsAll(j.op) /\ j.exported # (export[o] = "linked")
                                   THEN {"export"} ELSE {})
           newJob == Compared(j)
<1>1. /\ j.phase = "loaded" /\ Busy(r)
      /\ UNCHANGED <<live, order, export, credited, seen, clean>>
      /\ job' = [job EXCEPT ![r] = newJob]
  BY DEF Diff, Busy
<1>2. TypeOK /\ JobInv(r)
  BY <1>1 DEF LifecycleInv
<1>3. j \in Job /\ o \in Orders /\ j.entity \in Row
  BY <1>2 DEF TypeOK, JobInv, Job
<1>4. dirty \in SUBSET (Columns \cup {"export"}) /\ ("export" \in dirty => LoadsAll(j.op))
  BY DEF SavedColumns, Columns
<1>5. /\ newJob \in Job
      /\ newJob.phase = "diffed" /\ newJob.op = j.op /\ newJob.order = o
      /\ newJob.entity = j.entity /\ newJob.exported = j.exported
      /\ newJob.credits = j.credits /\ newJob.dirty = dirty
      /\ newJob.insert = (o \notin live)
  BY <1>3, <1>4 DEF Job, Compared
<1> HIDE DEF newJob
<1>6. job'[r] = newJob
  BY <1>1, <1>2 DEF TypeOK
<1>7. "order_status" \in SavedColumns(j.op)
  BY DEF SavedColumns, Columns
<1>8. o \in live /\ "order_status" \notin dirty => j.entity.order_status \in seen[o]
  BY <1>3, <1>7 DEF LifecycleInv, StatusTrail
<1>9. clean[o] => /\ o \in live /\ Settled(j.entity)
                  /\ LoadsAll(j.op) /\ ~j.exported => export[o] # "linked"
                  /\ \A c \in Columns \ SavedColumns(j.op) : j.entity[c] = order[o][c]
  BY <1>2 DEF JobInv
<1>10. clean[o] => \A c \in Columns \ dirty : j.entity[c] = order[o][c]
  BY <1>9
<1> HIDE DEF columns, dirty
<1>11. /\ j.op \in AllOps /\ seen[o] # {}
       /\ Justified(j.entity.order_status, seen[o])
       /\ j.op = "createExportOrder" => j.entity.order_status = "EXPORTED"
       /\ j.credits => "DELIVERED" \in seen[o]
  BY <1>2 DEF JobInv
<1>12. JobInv(r)' <=>
          /\ newJob.order \in Orders
          /\ newJob.op \in AllOps
          /\ seen[o] # {}
          /\ Justified(newJob.entity.order_status, seen[o])
          /\ newJob.op = "createExportOrder" => newJob.entity.order_status = "EXPORTED"
          /\ newJob.phase = "diffed" /\ ~newJob.insert /\ "order_status" \notin newJob.dirty
                => newJob.entity.order_status \in seen[o]
          /\ newJob.credits => "DELIVERED" \in seen[o]
          /\ "export" \in newJob.dirty => LoadsAll(newJob.op)
          /\ clean[o] =>
                /\ o \in live
                /\ Settled(newJob.entity)
                /\ LoadsAll(newJob.op) /\ ~newJob.exported => export[o] # "linked"
                /\ \A c \in Columns \ SavedColumns(newJob.op) : newJob.entity[c] = order[o][c]
                /\ newJob.phase = "diffed" =>
                      /\ ~newJob.insert
                      /\ \A c \in Columns \ newJob.dirty : newJob.entity[c] = order[o][c]
  BY <1>1, <1>5, <1>6 DEF JobInv, Justified
<1>13. JobInv(r)'
  BY <1>3, <1>4, <1>5, <1>8, <1>9, <1>10, <1>11, <1>12
<1>14. QED
  BY <1>1, <1>5, <1>13, MovedJobInv

LEMMA ResaveInv ==
    ASSUME LifecycleInv, NEW r \in Requests, Resave(r)
    PROVE  LifecycleInv'
<1> DEFINE j == job[r]
           o == j.order
           k == Credits(j)
           newJob == [j EXCEPT !.phase = "loaded", !.dirty = {}, !.saves = 1, !.credits = k]
<1>1. /\ j.phase = "diffed" /\ Busy(r) /\ j.saves = 2
      /\ o \in live /\ ~j.insert /\ j.dirty \cap Columns = {}
      /\ UNCHANGED <<live, order, export, credited, seen, clean>>
      /\ job' = [job EXCEPT ![r] = newJob]
  BY DEF Resave, Busy
<1>2. TypeOK /\ JobInv(r)
  BY <1>1 DEF LifecycleInv
<1>3. j \in Job /\ o \in Orders /\ k \in BOOLEAN
  BY <1>1, <1>2 DEF TypeOK, JobInv, Credits
<1>4. k => "DELIVERED" \in seen[o]
  BY <1>1, <1>3 DEF Credits, FirstStatus, Columns, LifecycleInv, StatusTrail
<1> HIDE DEF k
<1>5. /\ newJob \in Job
      /\ newJob.phase = "loaded" /\ newJob.op = j.op /\ newJob.order = o
      /\ newJob.entity = j.entity /\ newJob.exported = j.exported
      /\ newJob.credits = k /\ newJob.dirty = {}
  BY <1>3 DEF Job
<1> HIDE DEF newJob
<1>6. job'[r] = newJob
  BY <1>1, <1>2 DEF TypeOK
<1>7. JobInv(r)'
  BY <1>1, <1>2, <1>4, <1>5, <1>6 DEF JobInv, Justified, SavedColumns, LoadsMethod,
     LoadsAll, Columns, Settled
<1>8. QED
  BY <1>1, <1>5, <1>7, MovedJobInv

LEMMA CommitInv ==
    ASSUME LifecycleInv, NEW r \in Requests, Commit(r)
    PROVE  LifecycleInv'
<1> DEFINE j == job[r]
           o == j.order
           row == SavedRow(j)
           credits == Credits(j)
<1>1. /\ j.phase = "diffed" /\ Busy(r)
      /\ j.insert <=> o \notin live
      /\ j.op = "createExportOrder" => ~j.insert
      /\ live' = live \cup {o}
      /\ order' = [order EXCEPT ![o] = row]
      /\ export' = [export EXCEPT ![o] = SavedExport(j)]
      /\ credited' = IF credits THEN [credited EXCEPT ![o] = @ + 1] ELSE credited
      /\ seen' = [seen EXCEPT ![o] = @ \cup {row.order_status}]
      /\ job' = [job EXCEPT ![r] = IdleJob]
      /\ clean' = clean
  BY DEF Commit, Busy, Sold
<1>2. TypeOK /\ JobInv(r)
  BY <1>1 DEF LifecycleInv
<1>3. j \in Job /\ o \in Orders /\ j.entity \in Row /\ order[o] \in Row
  BY <1>2 DEF TypeOK, JobInv, Job
<1>4. /\ row.order_status = IF j.insert \/ Rewrites(j) \/ "order_status" \in j.dirty
                              THEN j.entity.order_status ELSE order[o].order_status
      /\ row.payment_status = IF j.insert \/ Rewrites(j) \/ "payment_status" \in j.dirty
                              THEN j.entity.payment_status ELSE order[o].payment_status
      /\ row.paymentMethod \in {NoMethod, j.entity.paymentMethod, order[o].paymentMethod}
      /\ ~j.insert => row.paymentMethod = IF Rewrites(j) \/ "paymentMethod" \in j.dirty
                              THEN j.entity.paymentMethod ELSE order[o].paymentMethod
      /\ row = [order_status |-> row.order_status,
                payment_status |-> row.payment_status,
                paymentMethod |-> row.paymentMethod]
  BY DEF SavedRow
<1>19. credits => "DELIVERED" \in seen[o] \cup {row.order_status}
  BY <1>1, <1>2, <1>3, <1>4 DEF Credits, FirstStatus, JobInv, LifecycleInv, StatusTrail
<1>20. /\ SavedExport(j) \in ExportRow
       /\ SavedExport(j) # "none" => export[o] # "none" \/ j.op = "createExportOrder"
       /\ clean[o] => SavedExport(j) # "loose"
  <2>1. Attached(j) \in ExportRow /\ (Attached(j) # "none" => export[o] # "none")
    BY <1>2, <1>3 DEF Attached, ExportRow, TypeOK
  <2>2. clean[o] /\ LoadsAll(j.op) => Attached(j) # "loose"
    BY <1>2, <1>3 DEF Attached, JobInv, LifecycleInv, WarehouseTrail
  <2>3. "export" \in j.dirty /\ clean[o] => LoadsAll(j.op)
    BY <1>1, <1>2 DEF JobInv
  <2>4. QED
    BY <2>1, <2>2, <2>3, <1>2, <1>3 DEF SavedExport, FirstExport, ExportRow, TypeOK,
       LifecycleInv, WarehouseTrail
<1> HIDE DEF row, credits
<1>5. row \in Row /\ row.order_status \in OrderStatus
  BY <1>3, <1>4 DEF Row
<1>6. IdleJob \in Job
  BY DEF IdleJob, Job, NewRow, Row, OrderStatus, PaymentStatus, AllOps
<1>7. TypeOK'
  BY <1>1, <1>2, <1>3, <1>5, <1>6, <1>20 DEF TypeOK
<1>8. /\ seen'[o] = seen[o] \cup {row.order_status}
      /\ order'[o] = row
      /\ \A p \in Orders \ {o} : seen'[p] = seen[p] /\ order'[p] = order[p]
      /\ job'[r] = IdleJob
      /\ \A q \in Requests \ {r} : job'[q] = job[q]
  BY <1>1, <1>2, <1>3 DEF TypeOK
<1>9. Justified(row.order_status, seen'[o])
  <2>1. CASE j.insert \/ Rewrites(j) \/ "order_status" \in j.dirty
    BY <2>1, <1>2, <1>4, <1>8, JustifiedMonotone DEF JobInv
  <2>2. CASE ~(j.insert \/ Rewrites(j) \/ "order_status" \in j.dirty)
    <3>1. row.order_status \in seen[o]
      BY <2>2, <1>1, <1>3, <1>4 DEF LifecycleInv, StatusTrail
    <3>2. QED
      BY <3>1, <1>3, <1>8, JustifiedMonotone DEF LifecycleInv, StatusTrail
  <2>3. QED
    BY <2>1, <2>2
<1>10. StatusTrail'
  <2>1. ASSUME NEW p \in Orders, NEW s \in seen'[p]
        PROVE  Justified(s, seen'[p])
    <3>1. CASE p = o /\ s = row.order_status
      BY <3>1, <1>9
    <3>2. CASE ~(p = o /\ s = row.order_status)
      BY <3>2, <2>1, <1>8, JustifiedMonotone DEF LifecycleInv, StatusTrail
    <3>3. QED
      BY <3>1, <3>2
  <2>2. \A p \in Orders : p \in live' => order'[p].order_status \in seen'[p]
    BY <1>1, <1>8 DEF LifecycleInv, StatusTrail
  <2>3. QED
    BY <2>1, <2>2 DEF StatusTrail
<1>11. j.op = "createExportOrder" => "EXPORTED" \in seen'[o]
  BY <1>1, <1>2, <1>4, <1>8 DEF JobInv
<1>12. WarehouseTrail'
  <2>1. \A p \in Orders : export'[p] # "none" => "EXPORTED" \in seen'[p]
    BY <1>1, <1>2, <1>8, <1>11, <1>20 DEF LifecycleInv, WarehouseTrail, TypeOK
  <2>2. \A p \in Orders : credited'[p] > 0 => "DELIVERED" \in seen'[p]
    <3>1. \A p \in Orders : credited'[p] = credited[p] \/ (p = o /\ credits)
      BY <1>1, <1>2 DEF TypeOK
    <3>2. QED
      BY <3>1, <1>2, <1>3, <1>8, <1>19 DEF LifecycleInv, WarehouseTrail, TypeOK
  <2>3. \A p \in Orders : clean'[p] => export'[p] # "loose"
    BY <1>1, <1>2, <1>20 DEF LifecycleInv, WarehouseTrail, TypeOK
  <2>4. QED
    BY <2>1, <2>2, <2>3 DEF WarehouseTrail
<1>13. clean[o] => Settled(row)
  <2>1. SUFFICES ASSUME clean[o] PROVE Settled(row)
    OBVIOUS
  <2>2. /\ ~j.insert /\ Settled(j.entity)
        /\ \A c \in Columns \ j.dirty : j.entity[c] = order[o][c]
    BY <2>1, <1>1, <1>2 DEF JobInv
  <2>3. /\ "order_status" \notin j.dirty => j.entity.order_status = order[o].order_status
        /\ "payment_status" \notin j.dirty => j.entity.payment_status = order[o].payment_status
        /\ "paymentMethod" \notin j.dirty => j.entity.paymentMethod = order[o].paymentMethod
    BY <2>2 DEF Columns
  <2>4. QED
    BY <2>2, <2>3, <1>4 DEF Settled
<1>14. \A p \in live' : clean'[p] => Settled(order'[p])
  BY <1>1, <1>2, <1>8, <1>13 DEF LifecycleInv, TypeOK
<1>15. \A q \in Requests : Busy(q)' => q # r /\ Busy(q) /\ job'[q] = job[q]
  BY <1>8 DEF Busy, IdleJob
<1>16. \A p \in Orders : clean'[p] => Alone(p)'
  BY <1>1, <1>15 DEF LifecycleInv, Alone
<1>17. ASSUME NEW q \in Requests, Busy(q)'
       PROVE  JobInv(q)'
  <2>1. q # r /\ Busy(q) /\ job'[q] = job[q] /\ JobInv(q)
    BY <1>15, <1>17 DEF LifecycleInv
  <2>2. job[q].order \in Orders
    BY <2>1 DEF JobInv
  <2>3. clean[o] => job[q].order # o
    BY <2>1, <1>1, <1>3 DEF LifecycleInv, Alone
  <2>4. clean'[job[q].order] =>
           /\ clean[job[q].order]
           /\ job[q].order \in live'
           /\ order'[job[q].order] = order[job[q].order]
           /\ export'[job[q].order] = export[job[q].order]
    BY <2>1, <2>2, <2>3, <1>1, <1>2, <1>8 DEF JobInv, TypeOK
  <2>5. seen[job[q].order] \subseteq seen'[job[q].order]
    BY <2>2, <1>8
  <2>6. QED
    BY <2>1, <2>4, <2>5, JobInvKept
<1>18. QED
  BY <1>7, <1>10, <1>12, <1>14, <1>16, <1>17 DEF LifecycleInv

LEMMA AbortInv ==
    ASSUME LifecycleInv, NEW r \in Requests, Abort(r)
    PROVE  LifecycleInv'
<1>1. /\ UNCHANGED <<live, order, export, credited, seen, clean>>
      /\ job' = [job EXCEPT ![r] = IdleJob]
      /\ TypeOK
  BY DEF Abort, LifecycleInv
<1>2. IdleJob \in Job
  BY DEF IdleJob, Job, NewRow, Row, OrderStatus, PaymentStatus, AllOps
<1>3. TypeOK'
  BY <1>1, <1>2 DEF TypeOK
<1>4. \A q \in Requests : Busy(q)' => Busy(q) /\ job'[q] = job[q]
  BY <1>1 DEF TypeOK, Busy, IdleJob
<1>5. StatusTrail' /\ WarehouseTrail'
  BY <1>1 DEF LifecycleInv, StatusTrail, WarehouseTrail
<1>6. \A p \in live' : clean'[p] => Settled(order'[p])
  BY <1>1 DEF LifecycleInv
<1>7. \A p \in Orders : clean'[p] => Alone(p)'
  BY <1>1, <1>4 DEF LifecycleInv, Alone
<1>8. ASSUME NEW q \in Requests, Busy(q)'
      PROVE  JobInv(q)'
  <2>1. Busy(q) /\ job'[q] = job[q] /\ JobInv(q)
    BY <1>4, <1>8 DEF LifecycleInv
  <2>2. QED
    BY <2>1, <1>1, JobInvKept DEF JobInv
<1>9. QED
  BY <1>3, <1>5, <1>6, <1>7, <1>8 DEF LifecycleInv

---------------------------------------------------------------------------

\* The steps that no request in flight takes keep every job's invariant.
LEMMA JobsKept ==
    ASSUME LifecycleInv, UNCHANGED job,
           \A o \in Orders : seen[o] \subseteq seen'[o],
           \A o \in Orders : clean'[o] /\ (\E q \in Requests : Busy(q) /\ job[q].order = o) =>
              /\ clean[o]
              /\ o \in live'
              /\ order'[o] = order[o]
              /\ export'[o] \in {export[o], "none"}
    PROVE  \A q \in Requests : Busy(q)' => JobInv(q)'
<1> SUFFICES ASSUME NEW q \in Requests, Busy(q)'
             PROVE  JobInv(q)'
  OBVIOUS
<1>1. job'[q] = job[q] /\ Busy(q)
  BY DEF Busy
<1>2. job[q].order \in Orders
  BY <1>1 DEF LifecycleInv, JobInv
<1>3. QED
  BY <1>1, <1>2, JobInvKept

LEMMA CreateOrderInv ==
    ASSUME LifecycleInv, NEW o \in Orders, NEW m \in Methods, CreateOrder(o, m)
    PROVE  LifecycleInv'
<1>1. /\ seen[o] = {}
      /\ live' = live \cup {o}
      /\ order' = [order EXCEPT ![o] = NewRow(m)]
      /\ seen' = [seen EXCEPT ![o] = {"PENDING"}]
      /\ UNCHANGED <<export, credited, job, clean>>
      /\ TypeOK
  BY DEF CreateOrder, LifecycleInv
<1>2. NewRow(m) \in Row /\ NewRow(m).order_status = "PENDING"
  BY DEF NewRow, Row, OrderStatus, PaymentStatus
<1>3. TypeOK'
  BY <1>1, <1>2 DEF TypeOK, OrderStatus
<1>4. \A p \in Orders : seen[p] \subseteq seen'[p]
  BY <1>1 DEF TypeOK
<1>5. StatusTrail'
  BY <1>1, <1>2 DEF LifecycleInv, TypeOK, StatusTrail, Justified, Precursors
<1>6. WarehouseTrail'
  BY <1>1, <1>4 DEF LifecycleInv, WarehouseTrail
<1>7. \A p \in live' : clean'[p] => Settled(order'[p])
  BY <1>1, <1>2 DEF LifecycleInv, TypeOK, Settled
<1>8. \A p \in Orders : clean'[p] => Alone(p)'
  BY <1>1 DEF LifecycleInv, Alone, Busy
<1>9. \A q \in Requests : Busy(q)' => JobInv(q)'
  <2>1. \A q \in Requests : Busy(q) => job[q].order # o /\ job[q].order \in Orders
    BY <1>1 DEF LifecycleInv, JobInv
  <2>2. \A p \in Orders :
           clean'[p] /\ (\E q \in Requests : Busy(q) /\ job[q].order = p)
              => clean[p] /\ p \in live' /\ order'[p] = order[p] /\ export'[p] = export[p]
    BY <2>1, <1>1 DEF LifecycleInv, JobInv, TypeOK
  <2>3. QED
    BY <2>2, <1>1, <1>4, JobsKept
<1>10. QED
  BY <1>3, <1>5, <1>6, <1>7, <1>8, <1>9 DEF LifecycleInv

LEMMA RemoveInv ==
    ASSUME LifecycleInv, NEW o \in Orders, Remove(o)
    PROVE  LifecycleInv'
<1>1. /\ live' = live \ {o}
      /\ export' = [export EXCEPT ![o] = IF @ = "linked" THEN "none" ELSE @]
      /\ clean' = [clean EXCEPT ![o] =
                      @ /\ \A q \in Requests : Busy(q) => job[q].order # o]
      /\ UNCHANGED <<order, credited, job, seen>>
      /\ TypeOK
  BY DEF Remove, LifecycleInv
<1>2. /\ \A p \in Orders : clean'[p] => clean[p]
      /\ clean'[o] => \A q \in Requests : Busy(q) => job[q].order # o
      /\ clean' \in [Orders -> BOOLEAN]
  BY <1>1 DEF TypeOK
<1>3. TypeOK' /\ StatusTrail' /\ WarehouseTrail'
  BY <1>1, <1>2 DEF LifecycleInv, TypeOK, StatusTrail, WarehouseTrail, ExportRow
<1>4. \A p \in live' : clean'[p] => Settled(order'[p])
  BY <1>1, <1>2 DEF LifecycleInv, TypeOK
<1>5. \A p \in Orders : clean'[p] => Alone(p)'
  BY <1>1, <1>2 DEF LifecycleInv, Alone, Busy
<1>6. \A q \in Requests : Busy(q)' => JobInv(q)'
  <2>1. \A p \in Orders :
           clean'[p] /\ (\E q \in Requests : Busy(q) /\ job[q].order = p)
              => clean[p] /\ p \in live' /\ order'[p] = order[p] /\ export'[p] = export[p]
    BY <1>1, <1>2 DEF LifecycleInv, JobInv, TypeOK
  <2>2. QED
    BY <2>1, <1>1, JobsKept
<1>7. QED
  BY <1>3, <1>4, <1>5, <1>6 DEF LifecycleInv

LEMMA RemoveExportInv ==
    ASSUME LifecycleInv, NEW o \in Orders, RemoveExport(o)
    PROVE  LifecycleInv'
<1>1. export' = [export EXCEPT ![o] = "none"] /\ UNCHANGED <<live, order, credited, job, seen, clean>>
  BY DEF RemoveExport
<1>2. TypeOK' /\ StatusTrail' /\ WarehouseTrail'
  BY <1>1 DEF LifecycleInv, TypeOK, StatusTrail, WarehouseTrail, ExportRow
<1>3. \A q \in Requests : Busy(q)' => JobInv(q)'
  <2>1. \A p \in Orders : export'[p] \in {export[p], "none"}
    BY <1>1 DEF LifecycleInv, TypeOK
  <2>2. QED
    BY <2>1, <1>1, JobsKept DEF LifecycleInv, JobInv
<1>4. \A p \in Orders : clean'[p] => Alone(p)'
  BY <1>1 DEF LifecycleInv, Alone, Busy
<1>5. QED
  BY <1>1, <1>2, <1>3, <1>4 DEF LifecycleInv

LEMMA PaymentHandlerSaveInv ==
    ASSUME LifecycleInv, NEW o \in Orders, NEW row \in Row, PaymentHandlerSave(o, row)
    PROVE  LifecycleInv'
<1>1. /\ row.order_status \in seen[o] \cup {"PENDING", "CANCELLED"}
      /\ live' = live \cup {o}
      /\ order' = [order EXCEPT ![o] = row]
      /\ seen' = [seen EXCEPT ![o] = @ \cup {row.order_status}]
      /\ clean' = [clean EXCEPT ![o] = FALSE]
      /\ export' \in {export, [export EXCEPT ![o] = Relinked(@)]}
      /\ UNCHANGED <<credited, job>>
      /\ TypeOK
  BY DEF PaymentHandlerSave, LifecycleInv
<1>2. /\ seen'[o] = seen[o] \cup {row.order_status} /\ order'[o] = row /\ ~clean'[o]
      /\ \A p \in Orders \ {o} : /\ seen'[p] = seen[p]
                                 /\ order'[p] = order[p]
                                 /\ clean'[p] = clean[p]
                                 /\ export'[p] = export[p]
      /\ export' \in [Orders -> ExportRow]
      /\ export[o] = "none" <=> export'[o] = "none"
  BY <1>1 DEF TypeOK, ExportRow, Relinked
<1>3. TypeOK'
  BY <1>1, <1>2 DEF TypeOK, Row
<1>4. Justified(row.order_status, seen'[o])
  <2>1. row.order_status \in {"PENDING", "CANCELLED"} => Justified(row.order_status, seen'[o])
    BY DEF Justified, Precursors
  <2>2. row.order_status \in seen[o] => Justified(row.order_status, seen'[o])
    BY <1>2, JustifiedMonotone DEF LifecycleInv, StatusTrail
  <2>3. QED
    BY <2>1, <2>2, <1>1
<1>5. StatusTrail'
  <2>1. ASSUME NEW p \in Orders, NEW s \in seen'[p]
        PROVE  Justified(s, seen'[p])
    <3>1. CASE p = o /\ s = row.order_status
      BY <3>1, <1>4
    <3>2. CASE ~(p = o /\ s = row.order_status)
      BY <3>2, <2>1, <1>2, JustifiedMonotone DEF LifecycleInv, StatusTrail
    <3>3. QED
      BY <3>1, <3>2
  <2>2. \A p \in Orders : p \in live' => order'[p].order_status \in seen'[p]
    BY <1>1, <1>2 DEF LifecycleInv, StatusTrail
  <2>3. QED
    BY <2>1, <2>2 DEF StatusTrail
<1>6. WarehouseTrail'
  BY <1>1, <1>2 DEF LifecycleInv, WarehouseTrail
<1>7. \A p \in live' : clean'[p] => Settled(order'[p])
  BY <1>1, <1>2 DEF LifecycleInv, TypeOK
<1>8. \A p \in Orders : clean'[p] => Alone(p)'
  BY <1>1, <1>2 DEF LifecycleInv, Alone, Busy
<1>9. \A q \in Requests : Busy(q)' => JobInv(q)'
  <2>1. \A p \in Orders :
           clean'[p] /\ (\E q \in Requests : Busy(q) /\ job[q].order = p)
              => clean[p] /\ p \in live' /\ order'[p] = order[p] /\ export'[p] = export[p]
    BY <1>1, <1>2 DEF LifecycleInv, JobInv
  <2>2. \A p \in Orders : seen[p] \subseteq seen'[p]
    BY <1>2
  <2>3. QED
    BY <2>1, <2>2, <1>1, JobsKept
<1>10. QED
  BY <1>3, <1>5, <1>6, <1>7, <1>8, <1>9 DEF LifecycleInv

---------------------------------------------------------------------------

LEMMA InitInv == Init => LifecycleInv
<1> SUFFICES ASSUME Init PROVE LifecycleInv
  OBVIOUS
<1>1. IdleJob \in Job /\ NewRow(NoMethod) \in Row
  BY DEF IdleJob, Job, NewRow, Row, OrderStatus, PaymentStatus, AllOps
<1>2. TypeOK
  BY <1>1 DEF Init, TypeOK, ExportRow
<1>3. StatusTrail /\ WarehouseTrail
  BY DEF Init, StatusTrail, WarehouseTrail
<1>4. \A r \in Requests : ~Busy(r)
  BY DEF Init, Busy, IdleJob
<1>5. QED
  BY <1>2, <1>3, <1>4 DEF LifecycleInv, Init, Alone

LEMMA NextInv == LifecycleInv /\ [Next]_vars => LifecycleInv'
<1> SUFFICES ASSUME LifecycleInv, [Next]_vars PROVE LifecycleInv'
  OBVIOUS
<1>1. ASSUME NEW r \in Requests, NEW o \in Orders, Handle(r, o)
      PROVE  LifecycleInv'
  BY <1>1, HandleHolds, HoldInv
<1>2. CASE UNCHANGED vars
  BY <1>2 DEF vars, LifecycleInv, TypeOK, StatusTrail, WarehouseTrail, Alone, JobInv, Busy
<1>3. QED
  BY <1>1, <1>2, DiffInv, ResaveInv, CommitInv, AbortInv, CreateOrderInv, RemoveInv,
     RemoveExportInv, PaymentHandlerSaveInv DEF Next, StaffNext, StaffStep

---------------------------------------------------------------------------
(* Money: what staff requests do to the claims of PAID and FAILED *)

\* A handler's load holds an honest entity, or records a delivery's cash.
LEMMA HandleHonest ==
    ASSUME LifecycleInv, NEW r \in Requests, NEW o \in Orders, Handle(r, o),
           NEW funded, NEW refused, StaffHonest(funded, refused)
    PROVE  /\ o \in live
           /\ \E op, e :
                /\ Hold(r, o, op, e)
                /\ \/ Honest(e, o, funded, refused)
                   \/ /\ e.paymentMethod \in Methods
                      /\ e.payment_status = "PAID"
                      /\ e.order_status = "DELIVERED"
<1> DEFINE row == order[o]
           fine(e) == \/ Honest(e, o, funded, refused)
                      \/ /\ e.paymentMethod \in Methods
                         /\ e.payment_status = "PAID"
                         /\ e.order_status = "DELIVERED"
<1>1. o \in live
  BY DEF Handle, ConfirmOrder, ExportOrder, CreateExportOrder, HandOverOrder,
         DeliverOrder, ShipOrder, ShipOrderSuccess, FailedDeliveryOrder,
         CancelOrder, UpdateNormalOrderStatus, UpdateNormalPaymentFailed,
         Update, Advance, Hold
<1>2. Honest(row, o, funded, refused) /\ row \in Row
  BY <1>1 DEF StaffHonest, LifecycleInv, TypeOK
<1>3. \A s : fine([row EXCEPT !.order_status = s])
  BY <1>2 DEF Honest, Row
<1>4. ASSUME NEW op, NEW from, NEW s, Advance(r, o, op, from, s)
      PROVE  \E op1, e : Hold(r, o, op1, e) /\ fine(e)
  BY <1>3, <1>4 DEF Advance
<1>5. fine(row) /\ fine(DeliveredRow(row)) /\ \A m \in Methods : fine([row EXCEPT !.paymentMethod = m])
  BY <1>2 DEF Honest, Row, DeliveredRow
<1>6. fine(NormalNext(row))
  BY <1>3, <1>5 DEF NormalNext
<1> HIDE DEF fine
<1>7. \E op, e : Hold(r, o, op, e) /\ fine(e)
  <2>1. CASE ConfirmOrder(r, o)
    BY <2>1, <1>4 DEF ConfirmOrder
  <2>2. CASE \/ ExportOrder(r, o) \/ CreateExportOrder(r, o) \/ HandOverOrder(r, o)
             \/ DeliverOrder(r, o) \/ ShipOrder(r, o) \/ FailedDeliveryOrder(r, o)
             \/ CancelOrder(r, o)
    BY <2>2, <1>4 DEF ExportOrder, CreateExportOrder, HandOverOrder, DeliverOrder,
       ShipOrder, FailedDeliveryOrder, CancelOrder
  <2>3. CASE ShipOrderSuccess(r, o)
    BY <2>3, <1>5 DEF ShipOrderSuccess
  <2>4. CASE UpdateNormalOrderStatus(r, o)
    BY <2>4, <1>6 DEF UpdateNormalOrderStatus
  <2>5. CASE UpdateNormalPaymentFailed(r, o)
    BY <2>5, <1>3, <1>5 DEF UpdateNormalPaymentFailed
  <2>6. ASSUME NEW m \in Methods \cup {NoMethod}, Update(r, o, m)
        PROVE  \E op, e : Hold(r, o, op, e) /\ fine(e)
    <3>1. m \in Methods
      BY <2>6, <1>2 DEF Update, Honest
    <3>2. QED
      BY <2>6, <3>1, <1>5 DEF Update
  <2>7. QED
    BY <2>1, <2>2, <2>3, <2>4, <2>5, <2>6 DEF Handle
<1>8. QED
  BY <1>1, <1>7 DEF fine

\* No handler takes a payment out of the copy that it will save.
LEMMA HandleKeepsPaid ==
    ASSUME LifecycleInv, NEW r \in Requests, NEW o \in Orders, Handle(r, o)
    PROVE  \E op, e :
              /\ Hold(r, o, op, e)
              /\ order[o].payment_status = "PAID" => e.payment_status = "PAID"
<1> DEFINE row == order[o]
           keeps(e) == row.payment_status = "PAID" => e.payment_status = "PAID"
<1>1. row \in Row
  BY DEF LifecycleInv, TypeOK
<1>2. \A s : keeps([row EXCEPT !.order_status = s])
  BY <1>1 DEF Row
<1>3. ASSUME NEW op, NEW from, NEW s, Advance(r, o, op, from, s)
      PROVE  \E op1, e : Hold(r, o, op1, e) /\ keeps(e)
  BY <1>2, <1>3 DEF Advance
<1>4. keeps(row) /\ keeps(DeliveredRow(row)) /\ \A m \in Methods \cup {NoMethod} : keeps([row EXCEPT !.paymentMethod = m])
  BY <1>1 DEF Row, DeliveredRow
<1>5. keeps(NormalNext(row))
  BY <1>2, <1>4 DEF NormalNext
<1> HIDE DEF keeps
<1>6. \E op, e : Hold(r, o, op, e) /\ keeps(e)
  <2>1. CASE ConfirmOrder(r, o)
    BY <2>1, <1>3 DEF ConfirmOrder
  <2>2. CASE \/ ExportOrder(r, o) \/ CreateExportOrder(r, o) \/ HandOverOrder(r, o)
             \/ DeliverOrder(r, o) \/ ShipOrder(r, o) \/ FailedDeliveryOrder(r, o)
             \/ CancelOrder(r, o)
    BY <2>2, <1>3 DEF ExportOrder, CreateExportOrder, HandOverOrder, DeliverOrder,
       ShipOrder, FailedDeliveryOrder, CancelOrder
  <2>3. CASE ShipOrderSuccess(r, o)
    BY <2>3, <1>4 DEF ShipOrderSuccess
  <2>4. CASE UpdateNormalOrderStatus(r, o)
    BY <2>4, <1>5 DEF UpdateNormalOrderStatus
  <2>5. CASE UpdateNormalPaymentFailed(r, o)
    BY <2>5, <1>2, <1>4 DEF UpdateNormalPaymentFailed
  <2>6. ASSUME NEW m \in Methods \cup {NoMethod}, Update(r, o, m)
        PROVE  \E op, e : Hold(r, o, op, e) /\ keeps(e)
    BY <2>6, <1>4 DEF Update
  <2>7. QED
    BY <2>1, <2>2, <2>3, <2>4, <2>5, <2>6 DEF Handle
<1>7. QED
  BY <1>6 DEF keeps

\* A commit writes what its request held, or what the row had.
LEMMA CommitHonest ==
    ASSUME LifecycleInv, NEW r \in Requests, Commit(r),
           NEW funded, NEW refused, StaffHonest(funded, refused)
    PROVE  StaffHonest(funded, refused)'
<1> DEFINE j == job[r]
           o == j.order
           row == SavedRow(j)
<1>1. /\ j.phase = "diffed" /\ Busy(r)
      /\ j.insert <=> o \notin live
      /\ live' = live \cup {o}
      /\ order' = [order EXCEPT ![o] = row]
      /\ seen' = [seen EXCEPT ![o] = @ \cup {row.order_status}]
      /\ job' = [job EXCEPT ![r] = IdleJob]
      /\ TypeOK /\ JobInv(r)
  BY DEF Commit, Busy, LifecycleInv
<1>2. o \in live /\ o \in Orders /\ ~j.insert /\ Honest(order[o], o, funded, refused)
  BY <1>1 DEF StaffHonest, JobInv
<1>3. /\ row.order_status = IF Rewrites(j) \/ "order_status" \in j.dirty
                              THEN j.entity.order_status ELSE order[o].order_status
      /\ row.payment_status = IF Rewrites(j) \/ "payment_status" \in j.dirty
                              THEN j.entity.payment_status ELSE order[o].payment_status
      /\ row.paymentMethod = IF Rewrites(j) \/ "paymentMethod" \in j.dirty
                              THEN j.entity.paymentMethod ELSE order[o].paymentMethod
  BY <1>2 DEF SavedRow
<1>4. \/ Honest(j.entity, o, funded, refused)
      \/ /\ j.entity.paymentMethod \in Methods
         /\ j.entity.payment_status = "PAID"
         /\ j.entity.order_status = "DELIVERED"
  BY <1>1 DEF StaffHonest
<1>5. "order_status" \notin j.dirty => j.entity.order_status \in seen[o]
  BY <1>1, <1>2 DEF JobInv
<1> HIDE DEF row
<1>6. /\ seen'[o] = seen[o] \cup {row.order_status}
      /\ order'[o] = row
      /\ \A p \in Orders \ {o} : seen'[p] = seen[p] /\ order'[p] = order[p]
      /\ \A p \in Orders : seen[p] \subseteq seen'[p]
      /\ job'[r] = IdleJob
      /\ \A q \in Requests \ {r} : job'[q] = job[q]
      /\ live' = live /\ live \subseteq Orders
  BY <1>1, <1>2 DEF TypeOK
<1>7. /\ row.paymentMethod \in Methods
      /\ row.payment_status = "PAID" => o \in funded \/ "DELIVERED" \in seen'[o]
      /\ row.payment_status = "FAILED" => o \in refused
  BY <1>2, <1>3, <1>4, <1>5, <1>6 DEF Honest
<1>8. \A p \in live' : Honest(order[p], p, funded, refused)'
  BY <1>6, <1>7 DEF StaffHonest, Honest
<1>9. ~Busy(r)' /\ \A q \in Requests \ {r} : Busy(q)' => Busy(q)
  BY <1>6 DEF Busy, IdleJob
<1>10. \A q \in Requests \ {r} : Busy(q) => job[q].order \in live
  BY DEF StaffHonest
<1>11. QED
  BY <1>6, <1>8, <1>9, <1>10 DEF StaffHonest, Honest

\* Unless orders are removed, staff requests never delete a row, and add to the orders' past.
LEMMA StaffGrows ==
    ASSUME LifecycleInv, "remove" \notin Ops, StaffNext
    PROVE  live \subseteq live' /\ \A o \in Orders : seen[o] \subseteq seen'[o]
<1>1. ASSUME NEW o \in Orders, NEW m \in Methods, CreateOrder(o, m)
      PROVE  live \subseteq live' /\ \A u \in Orders : seen[u] \subseteq seen'[u]
  BY <1>1 DEF CreateOrder, LifecycleInv, TypeOK
<1>2. ASSUME NEW o \in Orders, Remove(o) PROVE FALSE
  BY <1>2 DEF Remove
<1>3. ASSUME NEW r \in Requests, NEW o \in Orders, Handle(r, o)
      PROVE  UNCHANGED <<live, seen>>
  BY <1>3, HandleHolds DEF Hold
<1>4. ASSUME NEW r \in Requests, Commit(r)
      PROVE  live \subseteq live' /\ \A u \in Orders : seen[u] \subseteq seen'[u]
  BY <1>4 DEF Commit, LifecycleInv, TypeOK
<1>5. QED
  BY <1>1, <1>2, <1>3, <1>4 DEF StaffNext, StaffStep, RemoveExport, Diff, Resave, Abort

\* However staff requests overlap, what rows and copies claim stays honest.
LEMMA StaffStaysHonest ==
    ASSUME LifecycleInv, "remove" \notin Ops, StaffNext,
           NEW funded, NEW refused, StaffHonest(funded, refused)
    PROVE  StaffHonest(funded, refused)'
<1>1. TypeOK
  BY DEF LifecycleInv
<1>2. ASSUME NEW o \in Orders, NEW m \in Methods, CreateOrder(o, m)
      PROVE  StaffHonest(funded, refused)'
  <2>1. /\ live' = live \cup {o} /\ order' = [order EXCEPT ![o] = NewRow(m)]
        /\ seen[o] = {} /\ seen' = [seen EXCEPT ![o] = {"PENDING"}] /\ job' = job
    BY <1>2 DEF CreateOrder
  <2>2. /\ \A p \in Orders : seen[p] \subseteq seen'[p]
        /\ \A p \in Orders \ {o} : order'[p] = order[p]
        /\ order'[o] = NewRow(m)
        /\ live \subseteq Orders
    BY <1>1, <2>1 DEF TypeOK
  <2>3. \A r \in Requests : Busy(r)' <=> Busy(r)
    BY <2>1 DEF Busy
  <2>4. QED
    BY <2>1, <2>2, <2>3 DEF StaffHonest, Honest, NewRow
<1>3. ASSUME NEW o \in Orders, RemoveExport(o)
      PROVE  StaffHonest(funded, refused)'
  BY <1>3 DEF RemoveExport, StaffHonest, Honest, Busy
<1>4. ASSUME NEW r \in Requests, NEW o \in Orders, Handle(r, o)
      PROVE  StaffHonest(funded, refused)'
  <2>1. PICK op, e :
            /\ Hold(r, o, op, e)
            /\ \/ Honest(e, o, funded, refused)
               \/ /\ e.paymentMethod \in Methods
                  /\ e.payment_status = "PAID"
                  /\ e.order_status = "DELIVERED"
    BY <1>4, HandleHonest
  <2> DEFINE j == [IdleJob EXCEPT
                     !.phase = "loaded", !.op = op, !.order = o, !.entity = e,
                     !.exported = LoadsAll(op) /\ export[o] = "linked",
                     !.saves = Saves(op)]
  <2>2. o \in live /\ job' = [job EXCEPT ![r] = j] /\ UNCHANGED <<live, order, seen>>
    BY <2>1 DEF Hold
  <2>3. j.order = o /\ j.entity = e
    BY DEF IdleJob
  <2> HIDE DEF j
  <2>4. job'[r] = j /\ \A q \in Requests \ {r} : job'[q] = job[q]
    BY <1>1, <2>2 DEF TypeOK
  <2>5. \A q \in Requests \ {r} : Busy(q)' <=> Busy(q)
    BY <2>4 DEF Busy
  <2>6. QED
    BY <2>1, <2>2, <2>3, <2>4, <2>5 DEF StaffHonest, Honest
<1>5. ASSUME NEW r \in Requests, NEW j, Busy(r), job' = [job EXCEPT ![r] = j],
             UNCHANGED <<live, order, seen>>,
             \/ j = IdleJob
             \/ j.order = job[r].order /\ j.entity = job[r].entity
      PROVE  StaffHonest(funded, refused)'
  <2>1. job'[r] = j /\ \A q \in Requests \ {r} : job'[q] = job[q]
    BY <1>1, <1>5 DEF TypeOK
  <2>2. \A q \in Requests : Busy(q)' => Busy(q)
    BY <1>5, <2>1 DEF Busy
  <2>3. j = IdleJob => ~Busy(r)'
    BY <2>1 DEF Busy, IdleJob
  <2>4. QED
    BY <1>5, <2>1, <2>2, <2>3 DEF StaffHonest, Honest
<1>6. ASSUME NEW r \in Requests, Diff(r)
      PROVE  StaffHonest(funded, refused)'
  <2>1. /\ Busy(r) /\ job' = [job EXCEPT ![r] = Compared(job[r])]
        /\ UNCHANGED <<live, order, seen>>
    BY <1>6 DEF Diff, Busy
  <2>2. job[r] \in Job
    BY <1>1 DEF TypeOK
  <2>3. Compared(job[r]).order = job[r].order /\ Compared(job[r]).entity = job[r].entity
    BY <2>2 DEF Compared, Job
  <2>4. QED
    BY <1>5, <2>1, <2>3
<1>7. ASSUME NEW r \in Requests, Resave(r)
      PROVE  StaffHonest(funded, refused)'
  <2> DEFINE j == [job[r] EXCEPT !.phase = "loaded", !.dirty = {},
                                 !.saves = 1, !.credits = Credits(job[r])]
  <2>1. Busy(r) /\ job' = [job EXCEPT ![r] = j] /\ UNCHANGED <<live, order, seen>>
    BY <1>7 DEF Resave, Busy
  <2>2. job[r] \in Job
    BY <1>1 DEF TypeOK
  <2>3. j.order = job[r].order /\ j.entity = job[r].entity
    BY <2>2 DEF Job
  <2> HIDE DEF j
  <2>4. QED
    BY <1>5, <2>1, <2>3
<1>8. ASSUME NEW r \in Requests, Abort(r)
      PROVE  StaffHonest(funded, refused)'
  BY <1>5, <1>8 DEF Abort
<1>9. \A o \in Orders : ~Remove(o)
  BY DEF Remove
<1>10. QED
  BY <1>2, <1>3, <1>4, <1>6, <1>7, <1>8, <1>9, CommitHonest DEF StaffNext, StaffStep

\* The inductive invariant holds of every behaviour of the order handlers.
THEOREM LifecycleInvariant == Spec => []LifecycleInv
  BY InitInv, NextInv, PTL DEF Spec

\* The handlers keep the types of every column and table (order.entity.ts).
THEOREM Typing == Spec => []TypeOK
<1>1. LifecycleInv => TypeOK
  BY DEF LifecycleInv
<1>2. QED
  BY <1>1, LifecycleInvariant, PTL

\* No stage of the fulfilment is skipped, whatever the number of requests
\* that interleave on an order (OrderService's status checks).
THEOREM StatusesHaveATrail == Spec => []StatusTrail
<1>1. LifecycleInv => StatusTrail
  BY DEF LifecycleInv
<1>2. QED
  BY <1>1, LifecycleInvariant, PTL

\* Export rows and sales credits presuppose the status they stand for
\* (createExportOrder, updateNormalOrderStatusLogic).
THEOREM WarehouseHasATrail == Spec => []WarehouseTrail
<1>1. LifecycleInv => WarehouseTrail
  BY DEF LifecycleInv
<1>2. QED
  BY <1>1, LifecycleInvariant, PTL

\* Requests that never overlap leave a delivered COD order paid
\* (shipOrderSuccess, updateNormalOrderStatusLogic).
THEOREM CodIsSettled == Spec => []CodSettled
<1>1. LifecycleInv => CodSettled
  BY DEF LifecycleInv, CodSettled, Settled
<1>2. QED
  BY <1>1, LifecycleInvariant, PTL

=============================================================================
