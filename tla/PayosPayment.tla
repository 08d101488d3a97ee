--------------------------- MODULE PayosPayment ---------------------------
(***************************************************************************)
(* Payment of an order through a PayOS link: PayosService, the gateway as  *)
(* the service uses it, and the staff requests of OrderLifecycle on the    *)
(* same orders.                                                            *)
(*                                                                         *)
(* A payment request has the shape of a staff request, with a call to the  *)
(* gateway in the middle or in front: load, call, assign, Diff, Commit.    *)
(* What was loaded is not read again after the call.  The UPDATE of the    *)
(* order locks its row until the commit, so the transaction row, which is  *)
(* saved next, is compared and written in one step.  Without that lock (no *)
(* column of the order is dirty, or the two saves run side by side) both   *)
(* rows are compared at PDiff.                                             *)
(*                                                                         *)
(* The save of an order that was loaded with its list of transactions also *)
(* compares that list: a transaction that is not in it loses its order.    *)
(***************************************************************************)
EXTENDS OrderLifecycle

CONSTANTS
    Codes,      \* the codes generateUniqueNumberWithFindAll may draw
    NoCode,     \* the code of a request that has none yet
    Payers,     \* slots for the payment requests that run at the same time
    Unsent      \* notifications that may come though PayOS does not send them

ASSUME PayosAssumption ==
    /\ "PAYOS" \in Methods
    /\ PaymentWrites = PaymentStatus
    /\ "remove" \notin Ops
    /\ NoCode \notin Codes
    /\ Unsent \subseteq Codes \X {"PAID", "FAILED"}

LinkStatus == {"none", "PENDING", "PAID", "CANCELLED", "EXPIRED", "FAILED"}

Link == [status: LinkStatus, order: Orders \cup {NoOrder}]

Txn == [status: PaymentStatus \cup {"none"}, order: Orders \cup {NoOrder}]

PJob == [phase: {"idle", "calling", "loaded", "diffed"},
         op: {"none", "create", "cancelPay", "hook", "stray", "check"},
         code: Codes \cup {NoCode}, order: Orders \cup {NoOrder},
         entity: Row, status: PaymentStatus,
         dirty: SUBSET Columns, tdirty: SUBSET {"status", "order"},
         orphans: SUBSET Codes]

\* What a staff request has of the order's transactions: those it loaded, and
\* those its save found missing in its list, or missing in the table.
Held == [list: SUBSET Codes, orphans: SUBSET Codes, adopts: SUBSET Codes]

NothingHeld == [list |-> {}, orphans |-> {}, adopts |-> {}]

IdlePJob == [phase |-> "idle", op |-> "none", code |-> NoCode, order |-> NoOrder,
             entity |-> NewRow(NoMethod), status |-> "PENDING",
             dirty |-> {}, tdirty |-> {}, orphans |-> {}]

VARIABLES
    link,    \* the gateway: each code's payment link
    txn,     \* table payment_transaction, by payment_order_id
    hooks,   \* the codes of which the gateway still has to notify the shop
    strays,  \* ghost: those that were handled
    pjob,    \* the payment requests in flight
    held,    \* the transactions that each staff request holds
    calm     \* ghost: no two requests of any kind overlapped on the order

pvars == <<link, txn, hooks, strays, pjob, held, calm>>
allvars == <<vars, pvars>>

---------------------------------------------------------------------------
(* Helpers *)

PBusy(p) == pjob[p].phase # "idle"

\* At most one request, of whatever kind, works on order o.
Peace(o) ==
    /\ Alone(o)
    /\ \A p, q \in Payers :
          PBusy(p) /\ PBusy(q) /\ pjob[p].order = o /\ pjob[q].order = o => p = q
    /\ \A p \in Payers, r \in Requests :
          ~(PBusy(p) /\ pjob[p].order = o /\ Busy(r) /\ job[r].order = o)

Watch == calm' = [o \in Orders |-> calm[o] /\ Peace(o)']

Put(p, j) == pjob' = [pjob EXCEPT ![p] = j]

\* The columns a payment request's copy of the order writes back: only
\* createOrderPayment loads the payment method.
PSavedColumns(op) ==
    IF op = "create" THEN Columns ELSE Columns \ {"paymentMethod"}

---------------------------------------------------------------------------
(* createOrderPayment *)

\* The checks: no transaction yet, method PAYOS, the order PENDING.
CreateLoad(p, o) ==
    /\ ~PBusy(p)
    /\ o \in live
    /\ \A c \in Codes : txn[c].order # o
    /\ order[o].paymentMethod = "PAYOS"
    /\ order[o].order_status = "PENDING"
    /\ Put(p, [IdlePJob EXCEPT !.phase = "calling", !.op = "create",
                               !.order = o, !.entity = order[o]])
    /\ UNCHANGED <<vars, link, txn, hooks, strays, held>>
    /\ Watch

\* The gateway makes the link; the copy of the order is assigned.
CreateLink(p, c) ==
    LET j == pjob[p] IN
    /\ j.phase = "calling" /\ j.op = "create"
    /\ link[c].status = "none"
    /\ link' = [link EXCEPT ![c] = [status |-> "PENDING", order |-> j.order]]
    /\ Put(p, [j EXCEPT !.phase = "loaded", !.code = c, !.status = "PENDING",
                        !.entity.order_status = "PENDING",
                        !.entity.payment_status = "PENDING"])
    /\ UNCHANGED <<vars, txn, hooks, strays, held>>
    /\ Watch

---------------------------------------------------------------------------
(* cancelOrderPayment *)

\* Mutant: the gateway's refusal is swallowed.
CancelLinkMutant(p, c) ==
    /\ ~PBusy(p)
    /\ txn[c].status # "none"
    /\ link' = [link EXCEPT ![c].status = IF @ = "PENDING" THEN "CANCELLED" ELSE @]
    /\ Put(p, [IdlePJob EXCEPT !.phase = "calling", !.op = "cancelPay",
                               !.code = c, !.order = link[c].order])
    /\ UNCHANGED <<vars, txn, hooks, strays, held>>
    /\ Watch

\* The gateway cancels first, and refuses a link that is not PENDING.
CancelLink(p, c) ==
    /\ ~PBusy(p)
    /\ txn[c].status # "none"
    /\ link[c].status = "PENDING"
    /\ link' = [link EXCEPT ![c].status = "CANCELLED"]
    /\ Put(p, [IdlePJob EXCEPT !.phase = "calling", !.op = "cancelPay",
                               !.code = c, !.order = link[c].order])
    /\ UNCHANGED <<vars, txn, hooks, strays, held>>
    /\ Watch

\* Then the transaction and its order are found, and cancelled unchecked.
CancelLoad(p) ==
    LET j == pjob[p]
        o == txn[j.code].order
    IN
    /\ j.phase = "calling" /\ j.op = "cancelPay"
    /\ o # NoOrder
    /\ Put(p, [j EXCEPT !.phase = "loaded", !.order = o, !.status = "CANCELLED",
                        !.entity = [order[o] EXCEPT !.order_status = "CANCELLED",
                                                    !.payment_status = "CANCELLED"]])
    /\ UNCHANGED <<vars, link, txn, hooks, strays, held>>
    /\ Watch

---------------------------------------------------------------------------
(* handleWebhook *)

\* A transaction already PAID is acknowledged and left alone.
HookKnown(c) ==
    /\ c \in hooks
    /\ txn[c].status = "PAID"
    /\ txn[c].order # NoOrder
    /\ hooks' = hooks \ {c}
    /\ UNCHANGED <<vars, link, txn, strays, pjob, held, calm>>

\* Mutant: the notification's success flag is not looked at.
HookRowMutant(row, success) == [row EXCEPT !.payment_status = "PAID"]

HookRow(row, success) ==
    IF success THEN [row EXCEPT !.payment_status = "PAID"]
               ELSE [row EXCEPT !.payment_status = "FAILED",
                                !.order_status = "CANCELLED"]

\* A notification that says claim of any other transaction is read with the
\* order (a transaction without one throws, and the gateway will call again).
Notified(p, c, op, claim) ==
    LET o == txn[c].order IN
    /\ ~PBusy(p)
    /\ txn[c].status # "PAID"
    /\ o # NoOrder
    /\ Put(p, [IdlePJob EXCEPT !.phase = "loaded", !.op = op, !.code = c,
                               !.order = o, !.entity = HookRow(order[o], claim = "PAID"),
                               !.status = claim])
    /\ UNCHANGED <<vars, link, txn, held>>
    /\ Watch

\* Mutant: the notification is acknowledged before it is handled.
HookMutant(p, c) ==
    /\ c \in hooks
    /\ Notified(p, c, "hook", link[c].status)
    /\ hooks' = hooks \ {c}
    /\ UNCHANGED strays

\* The gateway's own notification.
Hook(p, c) ==
    /\ c \in hooks
    /\ Notified(p, c, "hook", link[c].status)
    /\ UNCHANGED <<hooks, strays>>

\* The route is public, the signature of the body is not looked at, and the
\* gateway is not asked: any notification of a known code is believed.
StrayHook(p, c, claim) ==
    /\ Notified(p, c, "stray", claim)
    /\ strays' = strays \cup {<<c, claim>>}
    /\ UNCHANGED hooks

---------------------------------------------------------------------------
(* CheckPayosPaymentStatus, called by the customer and by the cron job     *)
(* checkPendingPaymentOrder *)

\* The early returns look at the order as loaded, before the gateway's answer.
CheckLoad(p, c) ==
    LET o == txn[c].order IN
    /\ ~PBusy(p)
    /\ o # NoOrder
    /\ order[o].payment_status \notin {"PAID", "CANCELLED", "FAILED", "EXPIRED"}
    /\ order[o].order_status # "CANCELLED"
    /\ Put(p, [IdlePJob EXCEPT !.phase = "calling", !.op = "check", !.code = c,
                               !.order = o, !.entity = order[o],
                               !.status = txn[c].status])
    /\ UNCHANGED <<vars, link, txn, hooks, strays, held>>
    /\ Watch

\* Mutant: PAID confirms the order as well.
AnsweredMutant(j, status) ==
    IF status = "PAID"
      THEN [j EXCEPT !.phase = "loaded", !.entity.payment_status = "PAID",
                     !.entity.order_status = "CONFIRMED"]
      ELSE [j EXCEPT !.phase = "loaded", !.entity.payment_status = status,
                     !.entity.order_status = "CANCELLED", !.status = status]

\* Mutant: an expired link counts as cancelled.
AnsweredMutant2(j, status) ==
    IF status = "PAID"
      THEN [j EXCEPT !.phase = "loaded", !.entity.payment_status = "PAID",
                     !.entity.order_status = "PENDING"]
      ELSE [j EXCEPT !.phase = "loaded", !.entity.payment_status = status,
                     !.entity.order_status = "CANCELLED", !.status = "CANCELLED"]

\* PAID sends the order back to PENDING and forgets the transaction.
Answered(j, status) ==
    IF status = "PAID"
      THEN [j EXCEPT !.phase = "loaded", !.entity.payment_status = "PAID",
                     !.entity.order_status = "PENDING"]
      ELSE [j EXCEPT !.phase = "loaded", !.entity.payment_status = status,
                     !.entity.order_status = "CANCELLED", !.status = status]

\* A link still PENDING changes nothing: the order read was PENDING too.
CheckAnswer(p) ==
    LET j == pjob[p]
        status == link[j.code].status
    IN
    /\ j.phase = "calling" /\ j.op = "check"
    /\ Put(p, IF status = "PENDING" THEN IdlePJob ELSE Answered(j, status))
    /\ UNCHANGED <<vars, link, txn, hooks, strays, held>>
    /\ Watch

---------------------------------------------------------------------------
(* The save *)

\* The rows are read again and compared.  createOrderPayment saves the order
\* with its (empty) list of transactions: a transaction found now is orphaned.
PDiff(p) ==
    LET j == pjob[p] IN
    /\ j.phase = "loaded"
    /\ Put(p, [j EXCEPT
          !.phase = "diffed",
          !.dirty = {c \in PSavedColumns(j.op) : j.entity[c] # order[j.order][c]},
          !.tdirty = {f \in {"status", "order"} : txn[j.code][f] # j[f]},
          !.orphans = IF j.op = "create"
                        THEN {c \in Codes : txn[c].order = j.order} ELSE {}])
    /\ UNCHANGED <<vars, link, txn, hooks, strays, held>>
    /\ Watch

PSavedRow(j) ==
    LET src(c) == IF c \in j.dirty THEN j.entity[c] ELSE order[j.order][c]
    IN  [order_status   |-> src("order_status"),
         payment_status |-> src("payment_status"),
         paymentMethod  |-> src("paymentMethod")]

\* The save of the order has locked its row by the time the transaction is
\* compared: a column differs, maybe payment_url, payment_time or
\* payment_url_expired.  cancelOrderPayment saves the two side by side.
LocksFirst(j) ==
    \/ j.op = "create"
    \/ /\ j.op \in {"hook", "stray", "check"}
       /\ j.dirty # {} \/ j.entity.payment_status \in {"PAID", "EXPIRED"}

PSavedTxn(j) ==
    LET src(f) == IF LocksFirst(j) \/ f \in j.tdirty THEN j[f] ELSE txn[j.code][f]
    IN  [status |-> src("status"), order |-> src("order")]

\* The answer to a notification may get lost: the gateway then calls again.
PCommit(p) ==
    LET j == pjob[p]
        row == PSavedRow(j)
    IN
    /\ j.phase = "diffed"
    /\ order' = [order EXCEPT ![j.order] = row]
    /\ seen' = [seen EXCEPT ![j.order] = @ \cup {row.order_status}]
    /\ clean' = [clean EXCEPT ![j.order] = FALSE]
    /\ txn' = [c \in Codes |->
                  IF c = j.code THEN PSavedTxn(j)
                  ELSE IF c \in j.orphans THEN [txn[c] EXCEPT !.order = NoOrder]
                  ELSE txn[c]]
    /\ hooks' \in {hooks} \cup (IF j.op = "hook" THEN {hooks \ {j.code}} ELSE {})
    /\ Put(p, IdlePJob)
    /\ UNCHANGED <<live, export, credited, job, link, strays, held>>
    /\ Watch

\* The request dies: at the gateway, in the database or with the server.
PAbort(p) ==
    /\ PBusy(p)
    /\ Put(p, IdlePJob)
    /\ UNCHANGED <<vars, link, txn, hooks, strays, held>>
    /\ Watch

---------------------------------------------------------------------------
(* The gateway.  A customer learns of a link when its transaction commits. *)

Settle(c, status) ==
    /\ txn[c].status # "none"
    /\ link[c].status = "PENDING"
    /\ link' = [link EXCEPT ![c].status = status]
    /\ UNCHANGED <<vars, txn, strays, pjob, held, calm>>

Pay(c) == Settle(c, "PAID") /\ hooks' = hooks \cup {c}

Decline(c) == Settle(c, "FAILED") /\ hooks' = hooks \cup {c}

Expire(c) == Settle(c, "EXPIRED") /\ UNCHANGED hooks

\* The customer leaves the checkout page by its cancelUrl.
Leave(c) == Settle(c, "CANCELLED") /\ UNCHANGED hooks

---------------------------------------------------------------------------

(* The staff requests.  updateNormalOrderStatus loads the transactions.    *)

OfOrder(o) == {c \in Codes : txn[c].order = o}

\* What request r holds after its step.
NextHeld(r) ==
    LET j == job'[r]
        has == OfOrder(j.order)
    IN  IF j = job[r] THEN held[r]
        ELSE IF j.phase = "idle" \/ ~LoadsAll(j.op) THEN NothingHeld
        ELSE IF ~Busy(r) THEN [NothingHeld EXCEPT !.list = has]
        ELSE IF j.phase = "diffed"
               THEN [held[r] EXCEPT !.orphans = has \ held[r].list, !.adopts = held[r].list \ has]
        ELSE [NothingHeld EXCEPT !.list = held[r].list]

\* The transactions after r's commit: a second save compares the list again.
Regrouped(r) ==
    LET o == job[r].order
        again == LoadsAll(job[r].op) /\ Rewrites(job[r])
        orphans == IF again THEN OfOrder(o) \ held[r].list ELSE held[r].orphans
        adopts == IF again THEN held[r].list ELSE held[r].adopts
    IN  [c \in Codes |-> [txn[c] EXCEPT !.order = IF c \in orphans THEN NoOrder
                                                  ELSE IF c \in adopts THEN o ELSE @]]

Staff ==
    /\ \/ StaffStep /\ UNCHANGED txn
       \/ \E r \in Requests : Commit(r) /\ txn' = Regrouped(r)
    /\ held' = [r \in Requests |-> NextHeld(r)]
    /\ UNCHANGED <<link, hooks, strays, pjob>>
    /\ Watch

PInit ==
    /\ Init
    /\ link = [c \in Codes |-> [status |-> "none", order |-> NoOrder]]
    /\ txn = [c \in Codes |-> [status |-> "none", order |-> NoOrder]]
    /\ hooks = {}
    /\ strays = {}
    /\ pjob = [p \in Payers |-> IdlePJob]
    /\ held = [r \in Requests |-> NothingHeld]
    /\ calm = [o \in Orders |-> TRUE]

PNext ==
    \/ Staff
    \/ \E p \in Payers :
          \/ \E o \in Orders : CreateLoad(p, o)
          \/ \E c \in Codes : CreateLink(p, c) \/ CancelLink(p, c)
                              \/ Hook(p, c) \/ CheckLoad(p, c)
          \/ \E n \in Unsent : StrayHook(p, n[1], n[2])
          \/ CancelLoad(p) \/ CheckAnswer(p) \/ PDiff(p) \/ PCommit(p) \/ PAbort(p)
    \/ \E c \in Codes : HookKnown(c) \/ Pay(c) \/ Decline(c) \/ Expire(c) \/ Leave(c)

PSpec == PInit /\ [][PNext]_allvars

\* A request is answered or dies; the gateway repeats a notification until it
\* is acknowledged, and the database does not fail every attempt of it.
PFairness ==
    /\ \A p \in Payers :
          WF_allvars(CancelLoad(p) \/ CheckAnswer(p) \/ PDiff(p) \/ PCommit(p) \/ PAbort(p))
    /\ \A c \in Codes :
          /\ WF_allvars(HookKnown(c))
          /\ SF_allvars(\E p \in Payers : Hook(p, c))
          /\ SF_allvars(\E p \in Payers : pjob[p].op = "hook" /\ pjob[p].code = c /\ PDiff(p))
          /\ SF_allvars(\E p \in Payers : pjob[p].op = "hook" /\ pjob[p].code = c /\ PCommit(p))

PFairSpec == PSpec /\ PFairness

---------------------------------------------------------------------------
(* Properties *)

\* The type invariant.
PTypeOK ==
    /\ TypeOK
    /\ link \in [Codes -> Link]
    /\ txn \in [Codes -> Txn]
    /\ hooks \subseteq Codes
    /\ strays \subseteq Unsent
    /\ pjob \in [Payers -> PJob]
    /\ held \in [Requests -> Held]
    /\ calm \in [Orders -> BOOLEAN]

\* The outcomes of code c that handlers may have been told of.
Told(c) == {link[c].status} \cup {claim \in {"PAID", "FAILED"} : <<c, claim>> \in strays}

\* However stale the copies that payment requests save, a transaction never
\* makes up an outcome: one that left PENDING agrees with its link, or with a
\* notification that PayOS did not send and nobody checked (handleWebhook,
\* cancelOrderPayment, CheckPayosPaymentStatus).
GatewayAgreement ==
    \A c \in Codes : txn[c].status \in {"none", "PENDING"} \cup Told(c)

\* The orders that PayOS took money for, or was said to have; and with them
\* those whose money arrived in cash at the door.
PaidAsTold ==
    {o \in Orders : \E c \in Codes : link[c].order = o /\ "PAID" \in Told(c)}

Funded == PaidAsTold \cup {o \in Orders : "DELIVERED" \in seen[o]}

ShownPaid == {o \in live : order[o].payment_status = "PAID"}

\* An order shows PAID only if the gateway took the money for it, a courier
\* delivered it, or a notification that was not checked said that it was paid:
\* no overwriting and no failed request makes up a payment (handleWebhook,
\* CheckPayosPaymentStatus, shipOrderSuccess, update).
PaidIsFunded == ShownPaid \subseteq Funded

Money == INSTANCE Settlement WITH funded <- Funded, paid <- ShownPaid

\* Nor is money that came ever taken back: notifications, polls and staff
\* requests, however they overlap, crash or save stale copies, implement the
\* settlement (the same handlers, and cancelOrderPayment).
SettlesMoney == Money!SettlementSpec

\* If requests on the order never overlapped, then money the gateway took and
\* notified shows in the order, through every later request on it.
CalmMoneyShows ==
    \A c \in Codes : LET o == link[c].order IN
        link[c].status = "PAID" /\ c \notin hooks /\ calm[o]
            => order[o].payment_status = "PAID" /\ txn[c] = [status |-> "PAID", order |-> o]

\* What a payment request in flight may hold: an order that exists, a status
\* from its past or one that a payment handler assigns, and a transaction
\* status that is PENDING or an outcome it was told.
PJobInv(j) ==
    /\ j.order \in Orders
    /\ j.op # "none"
    /\ j.op # "create" => j.code \in Codes /\ txn[j.code].status # "none"
    /\ j.phase = "calling" /\ j.op \in {"create", "check"}
          => j.order \in live /\ j.entity.order_status \in seen[j.order]
    /\ j.phase \in {"loaded", "diffed"} =>
          /\ j.order \in live
          /\ j.code \in Codes /\ link[j.code].status # "none"
          /\ j.entity.order_status \in seen[j.order] \cup {"PENDING", "CANCELLED"}
    /\ j.phase # "calling" \/ j.op = "check" => j.status \in {"PENDING"} \cup Told(j.code)
    /\ j.op = "cancelPay" => link[j.code].status = "CANCELLED"
    /\ j.op = "create" => j.entity.paymentMethod = "PAYOS" /\ j.status = "PENDING"
    /\ "paymentMethod" \in j.dirty => j.op = "create"

\* The inductive invariant of the payment handlers.
PayosInv ==
    /\ PTypeOK
    /\ GatewayAgreement
    /\ \A c \in Codes :
          /\ txn[c].status # "none" => link[c].status # "none"
          /\ txn[c].order # NoOrder => txn[c].status # "none"
          /\ txn[c].order \in live \cup {NoOrder}
          /\ link[c].status # "none" <=> link[c].order \in Orders
          /\ c \in hooks => link[c].status \in {"PAID", "FAILED"}
    /\ \A r \in Requests : \A c \in held[r].list \cup held[r].adopts : txn[c].status # "none"
    /\ \A p \in Payers : PBusy(p) => PJobInv(pjob[p])

\* A request's link belongs to its order, and its copy of the order claims no
\* money that did not come.
PayerMoney(j) ==
    /\ j.code \in Codes => link[j.code].status # "none" /\ j.order = link[j.code].order
    /\ j.phase # "calling" \/ j.op # "cancelPay" =>
          Honest(j.entity, j.order, PaidAsTold, Orders)

\* What the gateway says of a link goes to the order it was made for: rows and
\* copies of transactions never point at another.  With it, what copies of the
\* order claim of money is true.
PayosMoneyInv ==
    /\ StaffHonest(PaidAsTold, Orders)
    /\ \A c \in Codes : txn[c].order \in {NoOrder, link[c].order}
    /\ \A r \in Requests :
          /\ held[r].adopts \subseteq held[r].list
          /\ \A c \in held[r].list : Busy(r) /\ link[c].order = job[r].order
    /\ \A p \in Payers : PBusy(p) => PayerMoney(pjob[p])

\* An order whose requests took turns has one transaction, which is up to date,
\* as soon as the gateway's last notification was handled.
CalmCode(c) ==
    LET o == link[c].order IN
    /\ link[c].status \notin {"none", "PENDING"} => txn[c].status # "none"
    /\ txn[c].status # "none" /\ calm[o] =>
          /\ txn[c].order = o
          /\ \A d \in Codes : txn[d].status # "none" /\ link[d].order = o => d = c
          /\ link[c].status = "PAID" => c \in hooks \/ txn[c].status = "PAID"
          /\ txn[c].status = "PAID" => order[o].payment_status = "PAID"

\* The payment request that has such an order to itself orphans nothing, found
\* no transaction before it makes one, and brings the payment if there is one.
CalmPayer(j) ==
    /\ \A c \in j.orphans : txn[c].status # "none" /\ link[c].order = j.order
    /\ j.op = "hook" =>
          link[j.code].status \in {"PAID", "FAILED"} /\ j.status = link[j.code].status
    /\ j.op = "stray" /\ j.status = "PAID" => j.entity.payment_status = "PAID"
    /\ j.op = "cancelPay" => j.status # "PAID"
    /\ j.op = "check" /\ j.phase # "calling" => link[j.code].status # "PENDING"
    /\ j.op \in {"hook", "check"} /\ j.phase # "calling" /\ link[j.code].status = "PAID"
          => j.entity.payment_status = "PAID"
    /\ calm[j.order] =>
          /\ j.orphans = {}
          /\ j.op = "create" => OfOrder(j.order) = {}
          /\ j.op = "stray" => txn[j.code].status # "PAID"
          /\ j.op = "check" => \/ j.status = txn[j.code].status /\ j.status # "PAID"
                               \/ j.phase # "calling" /\ j.status = link[j.code].status
          /\ j.phase = "diffed" /\ "payment_status" \notin j.dirty
                => j.entity.payment_status = order[j.order].payment_status
          /\ j.phase = "diffed" /\ "status" \notin j.tdirty
                => j.status = txn[j.code].status

\* The staff request that has such an order to itself knows of the payment and
\* of the transaction.
CalmStaff(r) ==
    LET o == job[r].order IN
    /\ \A c \in held[r].orphans : txn[c].status # "none" /\ link[c].order = o
    /\ calm[o] =>
          /\ order[o].payment_status = "PAID" => job[r].entity.payment_status = "PAID"
          /\ held[r].orphans = {}
          /\ LoadsAll(job[r].op) => OfOrder(o) \subseteq held[r].list

\* The inductive invariant behind CalmMoneyShows.
PayosCalmInv ==
    /\ \A o \in Orders : calm[o] => Peace(o)
    /\ \A c \in Codes : CalmCode(c)
    /\ \A p \in Payers : PBusy(p) => CalmPayer(pjob[p])
    /\ \A r \in Requests : Busy(r) => CalmStaff(r)

\* The payment handlers do to orders what OrderLifecycle lets them do, so its
\* invariants hold of the two together.
ImplementsLifecycle == Spec

\* The notification of a payment is repeated until the transaction is PAID,
\* through failures, crashes and overlapping requests, unless a second
\* createOrderPayment took the transaction away from its order.
PaidIsRecorded ==
    \A c \in Codes :
        c \in hooks /\ link[c].status = "PAID"
            ~> (txn[c].status = "PAID" \/ txn[c].order = NoOrder)

\* "The order already has a payment transaction" (payos.service.ts:176) turns
\* a second link away: an order has at most one transaction.
OneTransaction ==
    \A c, d \in Codes : txn[c].order = txn[d].order /\ txn[c].order # NoOrder => c = d

=============================================================================
