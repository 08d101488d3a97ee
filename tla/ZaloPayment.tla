---------------------------- MODULE ZaloPayment ----------------------------
(***************************************************************************)
(* Payment of an order through ZaloPay: ZaloPaymentService, the gateway as *)
(* the service uses it, and the staff requests of OrderLifecycle on the    *)
(* same orders.                                                            *)
(*                                                                         *)
(* A payment leaves two rows beside the order in the table                 *)
(* order_payment_method_option: app_trans_id, which createOrder inserts    *)
(* and which names the payment to the gateway, and zp_trans_id, which the  *)
(* callback or the status check inserts.  The table admits one row of each *)
(* kind per order.  app_trans_id is made of the order's id and the day, so *)
(* the gateway refuses a second payment of an order on the same day, and   *)
(* nothing but the option rows refuses one on the next.                    *)
(*                                                                         *)
(* Every save here compares the order's list of options as well: rows of   *)
(* the database that the handler did not have in its list lose their       *)
(* order, rows it has and the database has not get it back.  The callback  *)
(* finds the order by a condition on its options, and so has only the row  *)
(* that met the condition in its list.                                     *)
(*                                                                         *)
(* verifyCallback returns from inside the transaction's function and never *)
(* tells the gateway of a success: to the gateway every callback fails, so *)
(* it may call again at any time.                                          *)
(***************************************************************************)
EXTENDS OrderLifecycle, FiniteSets

CONSTANTS
    Callers,    \* slots for the payment requests that run at the same time
    MaxDay,     \* bounds today
    MaxRow,     \* tells apart the zp_trans_id rows of an order in use
    MaxInFlight \* bounds the requests of all kinds in flight

ASSUME ZaloAssumption ==
    /\ Methods # {}
    /\ PaymentWrites = PaymentStatus
    /\ Ops \cap {"remove", "updateNormalOrderStatus", "updateNormalPaymentFailed"} = {}
    /\ MaxDay \in Nat \ {0}
    /\ MaxRow \in Nat
    /\ MaxInFlight \in Nat

Days == 1 .. MaxDay

\* An app_trans_id: convertUUIDToAppTransId joins the day and the order's id.
Trans == Orders \X Days

\* MADE: the gateway has made the payment, the customer does not know of it.
TransStatus == {"none", "MADE", "PENDING", "PAID", "FAILED"}

\* The option rows that are linked to an order: the day in app_trans_id and
\* the number of the zp_trans_id row, 0 where there is none.
Options == [app: 0 .. MaxDay, zp: 0 .. MaxRow]

NoOptions == [app |-> 0, zp |-> 0]

ZJob == [phase: {"idle", "calling", "loaded", "diffed"},
         op: {"none", "createOrder", "verifyCallback", "checkOrderStatus"},
         order: Orders \cup {NoOrder}, day: 0 .. MaxDay, entity: Row,
         exported: BOOLEAN, expiry: 0 .. MaxDay, list: Options, found: Options,
         dirty: SUBSET (Columns \cup {"export", "expiry"})]

IdleZJob == [phase |-> "idle", op |-> "none", order |-> NoOrder, day |-> 0,
             entity |-> NewRow(NoMethod), exported |-> FALSE, expiry |-> 0,
             list |-> NoOptions, found |-> NoOptions, dirty |-> {}]

VARIABLES
    today,   \* the day that app_trans_id is made of
    trans,   \* the gateway: each payment's status
    lapsed,  \* the payments whose payment_url_expired has passed
    opt,     \* the option rows of each order
    expiry,  \* payment_url_expired: the day of the payment it was set for
    zjob,    \* the payment requests in flight
    stale,   \* payment_url_expired as each staff request loaded it
    told,    \* ghost: payments a handler has committed as PAID
    puzzled, \* ghost: orders that ZaloPay answered of with an unknown return_code
    calm     \* ghost: no two requests of any kind overlapped on the order

zvars == <<today, trans, lapsed, opt, expiry, zjob, stale, told, puzzled, calm>>
allvars == <<vars, zvars>>

---------------------------------------------------------------------------
(* Helpers *)

ZBusy(z) == zjob[z].phase # "idle"

\* At most one request, of whatever kind, works on order o.
Peace(o) ==
    /\ Alone(o)
    /\ \A z, y \in Callers :
          ZBusy(z) /\ ZBusy(y) /\ zjob[z].order = o /\ zjob[y].order = o => z = y
    /\ \A z \in Callers, r \in Requests :
          ~(ZBusy(z) /\ zjob[z].order = o /\ Busy(r) /\ job[r].order = o)

Watch == calm' = [o \in Orders |-> calm[o] /\ Peace(o)']

Put(z, j) == zjob' = [zjob EXCEPT ![z] = j]

\* Only createOrder finds the order with its other relations.
ZLoadsAll(op) == op = "createOrder"

ZSavedColumns(op) ==
    IF ZLoadsAll(op) THEN Columns ELSE Columns \ {"paymentMethod"}

\* Handler op has found order o; its copy of the row is to become e.
Loaded(o, op, e) ==
    [IdleZJob EXCEPT !.op = op, !.order = o, !.entity = e,
                     !.exported = ZLoadsAll(op) /\ export[o] = "linked",
                     !.expiry = expiry[o], !.list = opt[o]]

\* What a step of a payment request leaves alone until it commits.
Database == <<vars, today, lapsed, opt, expiry, stale, told, puzzled>>

---------------------------------------------------------------------------
(* createOrder *)

\* Mutant: an order that is not found is not refused.
CreateLoadMutant(z, o) ==
    /\ ~ZBusy(z)
    /\ opt[o] = NoOptions
    /\ Put(z, [Loaded(o, "createOrder", order[o]) EXCEPT !.phase = "calling"])
    /\ UNCHANGED <<Database, trans>>
    /\ Watch

\* The only check: the order has no options yet.  Its status, its payment
\* status and its payment method are not looked at.
CreateLoad(z, o) ==
    /\ ~ZBusy(z)
    /\ o \in live
    /\ opt[o] = NoOptions
    /\ Put(z, [Loaded(o, "createOrder", order[o]) EXCEPT !.phase = "calling"])
    /\ UNCHANGED <<Database, trans>>
    /\ Watch

\* Mutant: payment_url_expired is not assigned.
CreateAnswerMutant(z) ==
    LET j == zjob[z]
        t == <<j.order, today>>
    IN
    /\ j.phase = "calling" /\ j.op = "createOrder"
    /\ trans[t] = "none"
    /\ trans' = [trans EXCEPT ![t] = "MADE"]
    /\ Put(z, [j EXCEPT !.phase = "loaded", !.day = today])
    /\ UNCHANGED Database
    /\ Watch

\* The gateway makes the payment, unless it has one of that name already.
CreateAnswer(z) ==
    LET j == zjob[z]
        t == <<j.order, today>>
    IN
    /\ j.phase = "calling" /\ j.op = "createOrder"
    /\ trans[t] = "none"
    /\ trans' = [trans EXCEPT ![t] = "MADE"]
    /\ Put(z, [j EXCEPT !.phase = "loaded", !.day = today, !.expiry = today])
    /\ UNCHANGED Database
    /\ Watch

---------------------------------------------------------------------------
(* verifyCallback, past the check of the MAC *)

\* Mutant: the callback is believed without asking what it reports.
CallbackMutant(z, o) ==
    LET d == opt[o].app IN
    /\ ~ZBusy(z)
    /\ d # 0
    /\ trans[<<o, d>>] \in {"PENDING", "PAID"}
    /\ Put(z, [Loaded(o, "verifyCallback", [order[o] EXCEPT !.payment_status = "PAID"])
                 EXCEPT !.phase = "loaded", !.day = d, !.list.zp = 0])
    /\ UNCHANGED <<Database, trans>>
    /\ Watch

\* Mutant: the order is found with all its options.
CallbackMutant2(z, o) ==
    LET d == opt[o].app IN
    /\ ~ZBusy(z)
    /\ d # 0
    /\ trans[<<o, d>>] = "PAID"
    /\ Put(z, [Loaded(o, "verifyCallback", [order[o] EXCEPT !.payment_status = "PAID"])
                 EXCEPT !.phase = "loaded", !.day = d])
    /\ UNCHANGED <<Database, trans>>
    /\ Watch

\* The order is found by its app_trans_id, with that row alone in its list.
\* (An app_trans_id that lost its order is "not found": answered, no step.)
Callback(z, o) ==
    LET d == opt[o].app IN
    /\ ~ZBusy(z)
    /\ d # 0
    /\ trans[<<o, d>>] = "PAID"
    /\ Put(z, [Loaded(o, "verifyCallback", [order[o] EXCEPT !.payment_status = "PAID"])
                 EXCEPT !.phase = "loaded", !.day = d, !.list.zp = 0])
    /\ UNCHANGED <<Database, trans>>
    /\ Watch

---------------------------------------------------------------------------
(* checkOrderStatus, called by the customer and by the cron job            *)
(* checkPendingPaymentOrder *)

CheckLoad(z, o) ==
    /\ ~ZBusy(z)
    /\ o \in live
    /\ opt[o].app # 0
    /\ Put(z, [Loaded(o, "checkOrderStatus", order[o])
                 EXCEPT !.phase = "calling", !.day = opt[o].app])
    /\ UNCHANGED <<Database, trans>>
    /\ Watch

\* Mutant: PROCESSING fails the payment, expired or not.
OutcomeMutant(j, status) ==
    CASE status = "PAID" -> [payment_status |-> "PAID", order_status |-> "PENDING"]
      [] OTHER           -> [payment_status |-> "FAILED", order_status |-> "CANCELLED"]

\* Mutant: PAID confirms the order as well.
OutcomeMutant2(j, status) ==
    CASE status = "PAID" ->
            [payment_status |-> "PAID", order_status |-> "CONFIRMED"]
      [] status \in {"FAILED", "UNKNOWN"} ->
            [payment_status |-> "FAILED", order_status |-> "CANCELLED"]
      [] OTHER ->
            [payment_status |-> "PENDING", order_status |-> "PENDING"]

\* The switch over the gateway's return_code.  PROCESSING counts as FAILED
\* once the expiry that was loaded with the order has passed, and so does a
\* return_code that the switch does not know, always.
Outcome(j, status) ==
    CASE status = "PAID" ->
            [payment_status |-> "PAID", order_status |-> "PENDING"]
      [] \/ status \in {"FAILED", "UNKNOWN"}
         \/ status # "PAID" /\ <<j.order, j.expiry>> \in lapsed ->
            [payment_status |-> "FAILED", order_status |-> "CANCELLED"]
      [] OTHER ->
            [payment_status |-> "PENDING", order_status |-> "PENDING"]

\* The outcome is assigned to the copy of an order that was not PAID in it.
Assign(z, status) ==
    LET j == zjob[z]
        out == Outcome(j, status)
    IN
    /\ j.entity.payment_status # "PAID"
    /\ Put(z, [j EXCEPT !.phase = "loaded",
                        !.entity.payment_status = out.payment_status,
                        !.entity.order_status = out.order_status])

\* The gateway answers what it knows of the payment.  An order that was PAID
\* when it was loaded is left alone; PROCESSING without an expiry throws (a
\* null date): Abort.
CheckAnswer(z) ==
    LET j == zjob[z]
        status == trans[<<j.order, j.day>>]
    IN
    /\ j.phase = "calling" /\ j.op = "checkOrderStatus"
    /\ \/ /\ j.entity.payment_status = "PAID"
          /\ Put(z, IdleZJob)
       \/ /\ status \in {"MADE", "PENDING"} => j.expiry # 0
          /\ Assign(z, status)
    /\ UNCHANGED <<Database, trans>>
    /\ Watch

\* Or it answers with any other return_code, whatever became of the payment.
CheckUnknown(z) ==
    /\ zjob[z].phase = "calling" /\ zjob[z].op = "checkOrderStatus"
    /\ Assign(z, "UNKNOWN")
    /\ puzzled' = puzzled \cup {zjob[z].order}
    /\ UNCHANGED <<vars, today, trans, lapsed, opt, expiry, stale, told>>
    /\ Watch

---------------------------------------------------------------------------
(* The save *)

\* The order's row and its options are read again, and compared.
ZDiff(z) ==
    LET j == zjob[z]
        o == j.order
    IN
    /\ j.phase = "loaded"
    /\ Put(z, [j EXCEPT !.phase = "diffed",
          !.found = opt[o],
          !.dirty = {c \in ZSavedColumns(j.op) : j.entity[c] # order[o][c]}
                    \cup (IF ZLoadsAll(j.op) /\ j.exported # (export[o] = "linked")
                            THEN {"export"} ELSE {})
                    \cup (IF j.expiry # expiry[o] THEN {"expiry"} ELSE {})])
    /\ UNCHANGED <<Database, trans>>
    /\ Watch

ZSavedRow(j) ==
    LET src(c) == IF c \in j.dirty THEN j.entity[c] ELSE order[j.order][c]
    IN  [order_status   |-> src("order_status"),
         payment_status |-> src("payment_status"),
         paymentMethod  |-> src("paymentMethod")]

\* The links after the comparison: what was found and is not in the list is
\* detached, what is in the list and was not found is attached.
Linked(have, list, found) ==
    IF list = found THEN have
    ELSE IF list # 0 THEN list
    ELSE IF have = found THEN 0 ELSE have

\* Attaching comes before detaching, and a second row of a kind is refused.
Attaches(have, list, found) == list \notin {0, found} => have = 0

\* Then the option row of the handler itself is inserted.
InsertsApp(j) == j.op = "createOrder"

\* Mutant: the status check does not store zp_trans_id.
InsertsZpMutant(j) == j.op = "verifyCallback"

InsertsZp(j) == j.op = "verifyCallback" \/ (j.op = "checkOrderStatus" /\ j.list.zp = 0)

\* A row that no order and no other request points at is as good as new.
Unused(z) ==
    (1 .. MaxRow) \ {zjob[y].list.zp : y \in {y \in Callers \ {z} : zjob[y].order = zjob[z].order}}

NewZp(z) == CHOOSE n \in Unused(z) : TRUE

\* The request dies: at the gateway, in the database, at a unique constraint
\* or with the server.
ZAbort(z) ==
    /\ ZBusy(z)
    /\ Put(z, IdleZJob)
    /\ UNCHANGED <<Database, trans>>
    /\ Watch

\* The transaction commits; createOrder's answer tells the customer the URL.
ZCommit(z) ==
    LET j == zjob[z]
        o == j.order
        row == ZSavedRow(j)
        app == Linked(opt[o].app, j.list.app, j.found.app)
        zp == Linked(opt[o].zp, j.list.zp, j.found.zp)
    IN
    /\ j.phase = "diffed"
    /\ Attaches(opt[o].app, j.list.app, j.found.app)
    /\ Attaches(opt[o].zp, j.list.zp, j.found.zp)
    /\ InsertsApp(j) => app = 0
    /\ InsertsZp(j) => zp = 0 /\ Unused(z) # {}
    /\ order' = [order EXCEPT ![o] = row]
    /\ seen' = [seen EXCEPT ![o] = @ \cup {row.order_status}]
    /\ clean' = [clean EXCEPT ![o] = FALSE]
    /\ export' = [export EXCEPT ![o] = IF "export" \in j.dirty THEN Attached(j) ELSE @]
    /\ expiry' = [expiry EXCEPT ![o] = IF "expiry" \in j.dirty THEN j.expiry ELSE @]
    /\ opt' = [opt EXCEPT ![o] = [app |-> IF InsertsApp(j) THEN j.day ELSE app,
                                  zp |-> IF InsertsZp(j) THEN NewZp(z) ELSE zp]]
    /\ trans' = IF InsertsApp(j) THEN [trans EXCEPT ![<<o, j.day>>] = "PENDING"] ELSE trans
    /\ told' = IF ~InsertsApp(j) /\ j.entity.payment_status = "PAID"
                 THEN told \cup {<<o, j.day>>} ELSE told
    /\ Put(z, IdleZJob)
    /\ UNCHANGED <<live, credited, job, today, lapsed, stale, puzzled>>
    /\ Watch

---------------------------------------------------------------------------
(* The gateway and the clock *)

SettleTrans(t, status) ==
    /\ trans[t] = "PENDING"
    /\ trans' = [trans EXCEPT ![t] = status]
    /\ UNCHANGED <<Database, zjob, calm>>

\* A payment begun in time may be finished after the expiry.
Pay(t) == SettleTrans(t, "PAID")

Decline(t) == SettleTrans(t, "FAILED")

Lapse(t) ==
    /\ trans[t] # "none"
    /\ t \notin lapsed
    /\ lapsed' = lapsed \cup {t}
    /\ UNCHANGED <<vars, today, trans, opt, expiry, zjob, stale, told, puzzled, calm>>

\* Links live for fifteen minutes, far less than a day.
NextDay ==
    /\ today < MaxDay
    /\ \A t \in Trans : trans[t] # "none" /\ t[2] < today => t \in lapsed
    /\ today' = today + 1
    /\ UNCHANGED <<vars, trans, lapsed, opt, expiry, zjob, stale, told, puzzled, calm>>

---------------------------------------------------------------------------
(* The staff requests: their copies hold payment_url_expired too. *)

NoCopy == [copy |-> 0, dirty |-> FALSE]

NextStale(r) ==
    LET j == job'[r] IN
    IF j = job[r] THEN stale[r]
    ELSE IF j.phase = "idle" THEN NoCopy
    ELSE IF ~Busy(r) THEN [copy |-> expiry[j.order], dirty |-> FALSE]
    ELSE [stale[r] EXCEPT !.dirty = stale[r].copy # expiry[j.order]]

Staff ==
    /\ \/ StaffStep /\ UNCHANGED expiry
       \/ \E r \in Requests :
             /\ Commit(r)
             /\ expiry' = IF stale[r].dirty
                            THEN [expiry EXCEPT ![job[r].order] = stale[r].copy]
                            ELSE expiry
    /\ stale' = [r \in Requests |-> NextStale(r)]
    /\ UNCHANGED <<today, trans, lapsed, opt, zjob, told, puzzled>>
    /\ Watch

ZInit ==
    /\ Init
    /\ today = 1
    /\ trans = [t \in Trans |-> "none"]
    /\ lapsed = {}
    /\ opt = [o \in Orders |-> NoOptions]
    /\ expiry = [o \in Orders |-> 0]
    /\ zjob = [z \in Callers |-> IdleZJob]
    /\ stale = [r \in Requests |-> NoCopy]
    /\ told = {}
    /\ puzzled = {}
    /\ calm = [o \in Orders |-> TRUE]

\* The slots of both kinds that are taken.
InFlight == {z \in Callers : ZBusy(z)} \cup {r \in Requests : Busy(r)}

ZStep ==
    \/ Staff
    \/ \E z \in Callers :
          \/ \E o \in Orders : CreateLoad(z, o) \/ Callback(z, o) \/ CheckLoad(z, o)
          \/ CreateAnswer(z) \/ CheckAnswer(z) \/ CheckUnknown(z)
          \/ ZDiff(z) \/ ZCommit(z) \/ ZAbort(z)
    \/ \E t \in Trans : Pay(t) \/ Decline(t) \/ Lapse(t)
    \/ NextDay

ZNext == ZStep /\ Cardinality(InFlight') <= MaxInFlight

ZSpec == ZInit /\ [][ZNext]_allvars

\* A request is answered or dies.  The gateway, which is never told of a
\* success, repeats the callback of a payment, and the database does not fail
\* every attempt of it.
ZFairness ==
    /\ \A z \in Callers :
          WF_allvars(\/ CreateAnswer(z) \/ CheckAnswer(z) \/ CheckUnknown(z)
                     \/ ZDiff(z) \/ ZCommit(z) \/ ZAbort(z))
    /\ \A o \in Orders :
          LET Of(z) == zjob[z].op = "verifyCallback" /\ zjob[z].order = o IN
          /\ SF_allvars(\E z \in Callers : Callback(z, o))
          /\ SF_allvars(\E z \in Callers : Of(z) /\ ZDiff(z))
          /\ SF_allvars(\E z \in Callers : Of(z) /\ ZCommit(z))

ZFairSpec == ZSpec /\ ZFairness

---------------------------------------------------------------------------
(* Properties *)

\* The type invariant.
ZTypeOK ==
    /\ TypeOK
    /\ today \in Days
    /\ trans \in [Trans -> TransStatus]
    /\ lapsed \subseteq Trans
    /\ opt \in [Orders -> Options]
    /\ expiry \in [Orders -> 0 .. MaxDay]
    /\ zjob \in [Callers -> ZJob]
    /\ stale \in [Requests -> [copy: 0 .. MaxDay, dirty: BOOLEAN]]
    /\ told \subseteq Trans
    /\ puzzled \subseteq Orders
    /\ calm \in [Orders -> BOOLEAN]

\* The orders that ZaloPay took money for, and those whose money arrived
\* there or in cash at the door.
PaidByZalo == {o \in Orders : \E d \in Days : trans[<<o, d>>] = "PAID"}

Funded == PaidByZalo \cup {o \in Orders : "DELIVERED" \in seen[o]}

\* The orders with a payment that ZaloPay refused or that expired, and those
\* that it answered of in a way the handler does not know.
Refused ==
    puzzled \cup
    {o \in Orders : \E d \in Days : trans[<<o, d>>] = "FAILED" \/ <<o, d>> \in lapsed}

ShownPaid == {o \in live : order[o].payment_status = "PAID"}

Money == INSTANCE Settlement WITH funded <- Funded, paid <- ShownPaid

\* Callbacks, checks and staff requests, however they overlap, crash or save
\* stale copies, implement the settlement: no order shows PAID without money
\* (verifyCallback, checkOrderStatus, shipOrderSuccess).
SettlesMoney == Money!SettlementSpec

\* An order shows FAILED only if ZaloPay refused one of its payments, one
\* expired, or a check was answered with a return_code that is not 1, 2 or 3:
\* no stale expiry and no stale copy makes up a failure (checkOrderStatus).
FailureIsReal ==
    \A o \in live : order[o].payment_status = "FAILED" => o \in Refused

\* What a payment request in flight may hold.  Only the createOrder that made
\* a payment can make it known.
ZJobInv(j) ==
    /\ j.op # "none"
    /\ j.order \in live
    /\ Honest(j.entity, j.order, PaidByZalo, Refused)
    /\ j.entity.order_status \in seen[j.order] \cup {"PENDING", "CANCELLED"}
    /\ j.op # "createOrder" => j.day \in Days
    /\ j.op = "createOrder" /\ j.phase # "calling" =>
          j.day \in Days /\ trans[<<j.order, j.day>>] = "MADE"

\* The inductive invariant behind SettlesMoney, FailureIsReal and the
\* refinement of OrderLifecycle.
ZaloInv ==
    /\ ZTypeOK
    /\ StaffHonest(PaidByZalo, Refused)
    /\ \A o \in Orders : opt[o].app # 0 => o \in live
    /\ \A z \in Callers : ZBusy(z) => ZJobInv(zjob[z])
    /\ \A z, y \in Callers :
          /\ zjob[z].op = "createOrder" /\ zjob[z].phase \in {"loaded", "diffed"}
          /\ zjob[y].op = "createOrder" /\ zjob[y].phase \in {"loaded", "diffed"}
          /\ zjob[z].order = zjob[y].order /\ zjob[z].day = zjob[y].day
          => z = y

\* If requests on the order took turns, a payment that a callback or a check
\* recorded keeps showing, and the order keeps both of its option rows.
CalmMoneyShows ==
    \A o \in Orders, d \in Days : calm[o] /\ <<o, d>> \in told =>
        order[o].payment_status = "PAID" /\ opt[o].app = d /\ opt[o].zp # 0

\* If requests took turns, the payment a customer can still pay for is the
\* one its order points at, so a callback for it will be found.
CalmLinkIsKnown ==
    \A o \in Orders, d \in Days : calm[o] =>
        /\ trans[<<o, d>>] \in {"PENDING", "PAID"} => opt[o].app = d
        /\ expiry[o] = opt[o].app

\* An order whose requests took turns points at the one payment it has, and
\* shows what a handler was told of it.
CalmOrder(o) ==
    /\ expiry[o] = opt[o].app
    /\ \A d \in Days :
          /\ trans[<<o, d>>] \notin {"none", "MADE"} => opt[o].app = d
          /\ <<o, d>> \in told =>
                order[o].payment_status = "PAID" /\ opt[o].app = d /\ opt[o].zp # 0

\* The payment request that has such an order to itself holds its options and
\* its expiry as they are, and a payment that was recorded.
CalmCaller(j) ==
    LET o == j.order IN
    /\ j.op = "createOrder" => opt[o] = NoOptions
    /\ j.op # "createOrder" => j.day = opt[o].app
    /\ j.list = IF j.op = "verifyCallback" THEN [opt[o] EXCEPT !.zp = 0] ELSE opt[o]
    /\ j.expiry = IF j.op = "createOrder" /\ j.phase # "calling" THEN j.day ELSE expiry[o]
    /\ j.entity.payment_status # "PAID" => \A d \in Days : <<o, d>> \notin told
    /\ j.phase = "diffed" =>
          /\ j.found = opt[o]
          /\ "payment_status" \notin j.dirty =>
                j.entity.payment_status = order[o].payment_status
          /\ "expiry" \notin j.dirty => j.expiry = expiry[o]

\* So does the staff request that has it to itself.
CalmStaff(r) ==
    LET o == job[r].order IN
    /\ order[o].payment_status = "PAID" => job[r].entity.payment_status = "PAID"
    /\ stale[r].copy = expiry[o]

\* The inductive invariant behind CalmMoneyShows and CalmLinkIsKnown.
ZaloCalmInv ==
    /\ \A o \in Orders : calm[o] => Peace(o) /\ CalmOrder(o)
    /\ \A z \in Callers : ZBusy(z) /\ calm[zjob[z].order] => CalmCaller(zjob[z])
    /\ \A r \in Requests : Busy(r) /\ calm[job[r].order] => CalmStaff(r)

\* Money that ZaloPay took is recorded in the end: the callback is repeated
\* through failures, crashes and overlapping requests, unless the order's
\* link was taken over by the next day's (createOrder, verifyCallback).
ZPaidIsRecorded ==
    \A o \in Orders, d \in Days :
        trans[<<o, d>>] = "PAID" ~> (<<o, d>> \in told \/ opt[o].app # d)

\* The handlers do to orders what OrderLifecycle lets them do.
ZImplementsLifecycle == Spec

============================================================================
