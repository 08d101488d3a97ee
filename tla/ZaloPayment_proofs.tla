------------------------ MODULE ZaloPayment_proofs ------------------------
(***************************************************************************)
(* ZaloInv is an inductive invariant of ZaloPayment; every step of it is a *)
(* step of OrderLifecycle or leaves the orders alone, and a step of        *)
(* Settlement: for any number of orders, days and requests in flight.      *)
(*                                                                         *)
(* The argument.  ZaloPay never takes a payment back, so a copy of a row   *)
(* that claims PAID or FAILED stays true however long a request holds it   *)
(* (FAILED may be no more than an answer with an unknown return_code);     *)
(* and of the payments with one name the gateway makes one, so the request *)
(* that made it is the only one that can write it down.                    *)
(***************************************************************************)
EXTENDS ZaloPayment, OrderLifecycle_proofs

\* What no step undoes.
Grows ==
    /\ live \subseteq live'
    /\ \A o \in Orders : seen[o] \subseteq seen'[o]
    /\ PaidByZalo \subseteq PaidByZalo'
    /\ Refused \subseteq Refused'

\* The request holds a payment that it made and has not written down.
Making(z) == zjob[z].op = "createOrder" /\ zjob[z].phase \in {"loaded", "diffed"}

\* The gateway made each of them for one request.
MakersDiffer ==
    \A z, y \in Callers :
        /\ Making(z) /\ Making(y)
        /\ zjob[z].order = zjob[y].order /\ zjob[z].day = zjob[y].day
        => z = y

\* What is made stays so, but for the payments in set T.
MadeKept(T) == \A t \in Trans \ T : trans[t] = "MADE" => trans'[t] = "MADE"

LEMMA ZaloInvParts ==
    ZaloInv <=> /\ ZTypeOK
                /\ StaffHonest(PaidByZalo, Refused)
                /\ \A o \in Orders : opt[o].app # 0 => o \in live
                /\ \A z \in Callers : ZBusy(z) => ZJobInv(zjob[z])
                /\ MakersDiffer
BY DEF ZaloInv, MakersDiffer, Making

LEMMA JobFacts ==
    ASSUME ZaloInv, NEW z \in Callers, ZBusy(z)
    PROVE  /\ zjob[z] \in ZJob
           /\ ZJobInv(zjob[z])
           /\ zjob[z].order \in live /\ zjob[z].order \in Orders
<1>1. zjob[z] \in ZJob /\ ZJobInv(zjob[z]) /\ TypeOK
  BY DEF ZaloInv, ZTypeOK
<1>2. QED
  BY <1>1 DEF ZJobInv, TypeOK

\* If rows and copies stay, their claims stay true.
LEMMA HonestGrows ==
    ASSUME ZaloInv, Grows, UNCHANGED <<live, order, job>>
    PROVE  StaffHonest(PaidByZalo, Refused)'
<1>1. StaffHonest(PaidByZalo, Refused) /\ TypeOK
  BY DEF ZaloInv, ZTypeOK
<1>2. live \subseteq Orders
  BY <1>1 DEF TypeOK
<1>3. QED
  BY <1>1, <1>2 DEF StaffHonest, Honest, Grows, Busy

\* A request that did not move is as good as before.
LEMMA ZJobKept ==
    ASSUME ZaloInv, Grows, NEW z \in Callers, ZBusy(z), zjob'[z] = zjob[z],
           Making(z) => trans'[<<zjob[z].order, zjob[z].day>>] = "MADE"
    PROVE  ZJobInv(zjob[z])'
<1>1. /\ zjob[z] \in ZJob /\ ZJobInv(zjob[z])
      /\ zjob[z].order \in live /\ zjob[z].order \in Orders
  BY JobFacts
<1>2. zjob[z].op = "createOrder" /\ zjob[z].phase # "calling" => Making(z)
  BY <1>1 DEF ZJob, ZBusy, Making
<1>3. QED
  BY <1>1, <1>2 DEF ZJobInv, Honest, Grows

\* It is enough to look at the tables and at the request that moved.
LEMMA ZFrame ==
    ASSUME ZaloInv, Grows, ZTypeOK', StaffHonest(PaidByZalo, Refused)',
           \A o \in Orders : opt'[o].app # 0 => o \in live',
           NEW z \in Callers, \A y \in Callers \ {z} : zjob'[y] = zjob[y],
           ZBusy(z)' => ZJobInv(zjob[z])',
           MadeKept(IF Making(z) THEN {<<zjob[z].order, zjob[z].day>>} ELSE {}),
           Making(z)' =>
              \/ /\ Making(z)
                 /\ zjob'[z].order = zjob[z].order /\ zjob'[z].day = zjob[z].day
              \/ trans[<<zjob'[z].order, zjob'[z].day>>] # "MADE"
    PROVE  ZaloInv' /\ Grows
<1>1. \A y \in Callers \ {z} : Making(y)' <=> Making(y)
  BY DEF Making
<1>2. ASSUME NEW y \in Callers, Making(y)
      PROVE  /\ <<zjob[y].order, zjob[y].day>> \in Trans
             /\ trans[<<zjob[y].order, zjob[y].day>>] = "MADE"
  <2>1. ZBusy(y)
    BY <1>2 DEF Making, ZBusy
  <2>2. ZJobInv(zjob[y]) /\ zjob[y].order \in Orders
    BY <2>1, JobFacts
  <2>3. QED
    BY <1>2, <2>2 DEF ZJobInv, Making, Trans
<1>3. ASSUME NEW y \in Callers \ {z}, Making(y)
      PROVE  trans'[<<zjob[y].order, zjob[y].day>>] = "MADE"
  <2>1. Making(z) => <<zjob[y].order, zjob[y].day>> # <<zjob[z].order, zjob[z].day>>
    BY <1>3, ZaloInvParts DEF MakersDiffer
  <2>2. QED
    BY <1>2, <1>3, <2>1 DEF MadeKept
<1>4. ASSUME NEW y \in Callers \ {z}, ZBusy(y)'
      PROVE  ZJobInv(zjob[y])'
  <2>1. zjob'[y] = zjob[y] /\ ZBusy(y)
    BY <1>4 DEF ZBusy
  <2>2. QED
    BY <2>1, <1>3, ZJobKept
<1>5. MakersDiffer'
  <2> SUFFICES ASSUME NEW y \in Callers \ {z}, Making(z)', Making(y)'
               PROVE  <<zjob'[y].order, zjob'[y].day>> # <<zjob'[z].order, zjob'[z].day>>
    BY <1>1, ZaloInvParts DEF MakersDiffer
  <2>1. Making(y) /\ zjob'[y] = zjob[y]
    BY <1>1
  <2>2. trans[<<zjob[y].order, zjob[y].day>>] = "MADE"
    BY <1>2, <2>1
  <2>3. Making(z) => <<zjob[y].order, zjob[y].day>> # <<zjob[z].order, zjob[z].day>>
    BY <2>1, ZaloInvParts DEF MakersDiffer
  <2>4. QED
    BY <2>1, <2>2, <2>3
<1>6. QED
  BY <1>4, <1>5 DEF ZaloInv, MakersDiffer, Making

---------------------------------------------------------------------------
(* The steps of a request before it writes *)

LEMMA DayType == \A d \in Days : d \in 0 .. MaxDay
BY ZaloAssumption DEF Days

LEMMA IdleType == IdleZJob \in ZJob /\ IdleZJob.phase = "idle"
BY ZaloAssumption DEF IdleZJob, ZJob, NewRow, Row, OrderStatus, PaymentStatus, Options, NoOptions

LEMMA LoadedType ==
    ASSUME ZaloInv, NEW o \in Orders, NEW op \in {"createOrder", "verifyCallback", "checkOrderStatus"},
           NEW e \in Row
    PROVE  /\ Loaded(o, op, e) \in ZJob
           /\ Loaded(o, op, e).order = o /\ Loaded(o, op, e).op = op
           /\ Loaded(o, op, e).entity = e
           /\ Loaded(o, op, e).list = opt[o]
<1>1. expiry[o] \in 0 .. MaxDay /\ opt[o] \in Options
  BY DEF ZaloInv, ZTypeOK
<1>2. QED
  BY <1>1, IdleType DEF Loaded, ZJob, IdleZJob

LEMMA MoveInv ==
    ASSUME ZaloInv, NEW z \in Callers, UNCHANGED <<Database, trans>>, Watch,
           NEW j \in ZJob, Put(z, j), j.phase # "idle" => ZJobInv(j),
           j.op = "createOrder" /\ j.phase \in {"loaded", "diffed"} =>
              Making(z) /\ j.order = zjob[z].order /\ j.day = zjob[z].day
    PROVE  ZaloInv' /\ Grows
<1>1. UNCHANGED <<live, order, export, credited, job, seen, clean,
                  today, trans, lapsed, opt, expiry, stale, told, puzzled>>
  BY DEF Database, vars
<1>2. ZTypeOK
  BY DEF ZaloInv
<1>3. zjob'[z] = j /\ \A y \in Callers \ {z} : zjob'[y] = zjob[y]
  BY <1>2 DEF Put, ZTypeOK
<1>4. ZTypeOK'
  BY <1>1, <1>2 DEF Put, ZTypeOK, TypeOK, Watch
<1>5. Grows
  BY <1>1 DEF Grows, PaidByZalo, Refused
<1>6. StaffHonest(PaidByZalo, Refused)'
  BY <1>1, <1>5, HonestGrows
<1>7. ZBusy(z)' => ZJobInv(zjob[z])'
  BY <1>1, <1>3 DEF ZBusy, ZJobInv, Honest, PaidByZalo, Refused
<1>8. MadeKept(IF Making(z) THEN {<<zjob[z].order, zjob[z].day>>} ELSE {})
  BY <1>1 DEF MadeKept
<1>9. Making(z)' => Making(z) /\ zjob'[z].order = zjob[z].order /\ zjob'[z].day = zjob[z].day
  BY <1>3 DEF Making
<1>10. \A o \in Orders : opt'[o].app # 0 => o \in live'
  BY <1>1 DEF ZaloInv
<1>11. QED
  BY <1>3, <1>4, <1>5, <1>6, <1>7, <1>8, <1>9, <1>10, ZFrame

LEMMA OrderFacts ==
    ASSUME ZaloInv, LifecycleInv, NEW o \in live
    PROVE  /\ o \in Orders /\ order[o] \in Row
           /\ order[o].order_status \in seen[o]
           /\ Honest(order[o], o, PaidByZalo, Refused)
BY DEF LifecycleInv, TypeOK, StatusTrail, ZaloInv, StaffHonest

LEMMA CreateLoadInv ==
    ASSUME ZaloInv, LifecycleInv, NEW z \in Callers, NEW o \in Orders, CreateLoad(z, o)
    PROVE  ZaloInv' /\ Grows
<1> DEFINE l == Loaded(o, "createOrder", order[o])
           j == [l EXCEPT !.phase = "calling"]
<1>1. o \in live /\ Put(z, j) /\ UNCHANGED <<Database, trans>> /\ Watch
  BY DEF CreateLoad
<1>2. /\ order[o] \in Row /\ order[o].order_status \in seen[o]
      /\ Honest(order[o], o, PaidByZalo, Refused)
  BY <1>1, OrderFacts
<1>3. l \in ZJob /\ l.order = o /\ l.op = "createOrder" /\ l.entity = order[o]
  BY <1>2, LoadedType
<1> HIDE DEF l
<1>4. /\ j \in ZJob /\ j.phase = "calling"
      /\ j.order = o /\ j.op = "createOrder" /\ j.entity = order[o]
  BY <1>3 DEF ZJob
<1> HIDE DEF j
<1>5. ZJobInv(j)
  BY <1>1, <1>2, <1>4 DEF ZJobInv
<1>6. QED
  BY <1>1, <1>4, <1>5, MoveInv

\* A callback is believed because ZaloPay took the money.
LEMMA CallbackInv ==
    ASSUME ZaloInv, LifecycleInv, NEW z \in Callers, NEW o \in Orders, Callback(z, o)
    PROVE  ZaloInv' /\ Grows
<1> DEFINE d == opt[o].app
           e == [order[o] EXCEPT !.payment_status = "PAID"]
           l == Loaded(o, "verifyCallback", e)
           j == [l EXCEPT !.phase = "loaded", !.day = d, !.list.zp = 0]
<1>1. /\ d # 0 /\ trans[<<o, d>>] = "PAID"
      /\ Put(z, j) /\ UNCHANGED <<Database, trans>> /\ Watch
  BY DEF Callback
<1>2. /\ o \in live
      /\ order[o] \in Row /\ order[o].order_status \in seen[o]
      /\ Honest(order[o], o, PaidByZalo, Refused)
  BY <1>1, OrderFacts DEF ZaloInv
<1>3. d \in Days /\ opt[o] \in Options
  BY <1>1, ZaloAssumption DEF ZaloInv, ZTypeOK, Options, Days
<1>4. o \in PaidByZalo
  BY <1>1, <1>3 DEF PaidByZalo
<1>5. /\ e \in Row /\ e.order_status \in seen[o]
      /\ Honest(e, o, PaidByZalo, Refused)
  BY <1>2, <1>4 DEF Row, PaymentStatus, Honest
<1> HIDE DEF e, d
<1>6. /\ l \in ZJob /\ l.order = o /\ l.op = "verifyCallback" /\ l.entity = e
      /\ l.list = opt[o]
  BY <1>5, LoadedType
<1> HIDE DEF l
<1>7. l.list \in Options /\ [l.list EXCEPT !.zp = 0] \in Options
  BY <1>3, <1>6, ZaloAssumption DEF Options
<1>8. /\ j \in ZJob /\ j.phase = "loaded" /\ j.day = d
      /\ j.order = o /\ j.op = "verifyCallback" /\ j.entity = e
  BY <1>3, <1>6, <1>7, DayType DEF ZJob
<1> HIDE DEF j
<1>9. ZJobInv(j)
  BY <1>2, <1>3, <1>5, <1>8 DEF ZJobInv
<1>10. QED
  BY <1>1, <1>8, <1>9, MoveInv

LEMMA CheckLoadInv ==
    ASSUME ZaloInv, LifecycleInv, NEW z \in Callers, NEW o \in Orders, CheckLoad(z, o)
    PROVE  ZaloInv' /\ Grows
<1> DEFINE d == opt[o].app
           l == Loaded(o, "checkOrderStatus", order[o])
           j == [l EXCEPT !.phase = "calling", !.day = d]
<1>1. /\ o \in live /\ d # 0
      /\ Put(z, j) /\ UNCHANGED <<Database, trans>> /\ Watch
  BY DEF CheckLoad
<1>2. /\ order[o] \in Row /\ order[o].order_status \in seen[o]
      /\ Honest(order[o], o, PaidByZalo, Refused)
  BY <1>1, OrderFacts
<1>3. d \in Days
  BY <1>1, ZaloAssumption DEF ZaloInv, ZTypeOK, Options, Days
<1>4. l \in ZJob /\ l.order = o /\ l.op = "checkOrderStatus" /\ l.entity = order[o]
  BY <1>2, LoadedType
<1> HIDE DEF l, d
<1>5. /\ j \in ZJob /\ j.phase = "calling" /\ j.day = d
      /\ j.order = o /\ j.op = "checkOrderStatus" /\ j.entity = order[o]
  BY <1>3, <1>4, DayType DEF ZJob
<1> HIDE DEF j
<1>6. ZJobInv(j)
  BY <1>1, <1>2, <1>3, <1>5 DEF ZJobInv
<1>7. QED
  BY <1>1, <1>5, <1>6, MoveInv

\* The answer assigns what ZaloPay says of the payment.
LEMMA CheckAnswerInv ==
    ASSUME ZaloInv, NEW z \in Callers, CheckAnswer(z)
    PROVE  ZaloInv' /\ Grows
<1> DEFINE i == zjob[z]
           status == trans[<<i.order, i.day>>]
           out == Outcome(i, status)
           e == [i.entity EXCEPT !.payment_status = out.payment_status,
                                 !.order_status = out.order_status]
           j == [i EXCEPT !.phase = "loaded", !.entity.payment_status = out.payment_status,
                          !.entity.order_status = out.order_status]
<1>1. /\ i.phase = "calling" /\ i.op = "checkOrderStatus"
      /\ Put(z, IdleZJob) \/ Put(z, j)
      /\ UNCHANGED <<Database, trans>> /\ Watch
  BY DEF CheckAnswer, Assign
<1>2. i \in ZJob /\ ZJobInv(i) /\ i.order \in live /\ i.order \in Orders
  BY <1>1, JobFacts DEF ZBusy
<1>3. i.day \in Days /\ i.entity \in Row /\ i.expiry \in 0 .. MaxDay
  BY <1>1, <1>2 DEF ZJobInv, ZJob
<1>4. status # "UNKNOWN"
  BY <1>2, <1>3 DEF ZaloInv, ZTypeOK, Trans, TransStatus
<1>5. /\ out.payment_status \in {"PAID", "FAILED", "PENDING"}
      /\ out.order_status \in {"PENDING", "CANCELLED"}
      /\ out.payment_status = "PAID" => i.order \in PaidByZalo
      /\ out.payment_status = "FAILED" => i.order \in Refused
  <2>1. CASE status = "PAID"
    <3>1. out = [payment_status |-> "PAID", order_status |-> "PENDING"]
      BY <2>1 DEF Outcome
    <3>2. i.order \in PaidByZalo
      BY <2>1, <1>2, <1>3 DEF PaidByZalo
    <3>3. QED
      BY <3>1, <3>2
  <2>2. CASE status = "FAILED"
    BY <2>2, <1>2, <1>3 DEF Outcome, Refused
  <2>3. CASE status \notin {"PAID", "FAILED"} /\ <<i.order, i.expiry>> \in lapsed
    <3>1. i.expiry \in Days
      BY <2>3 DEF ZaloInv, ZTypeOK, Trans
    <3>2. QED
      BY <2>3, <3>1, <1>2 DEF Outcome, Refused
  <2>4. CASE status \notin {"PAID", "FAILED"} /\ <<i.order, i.expiry>> \notin lapsed
    BY <2>4, <1>4 DEF Outcome
  <2>5. QED
    BY <2>1, <2>2, <2>3, <2>4
<1> HIDE DEF out
<1>6. /\ e \in Row /\ e.order_status \in {"PENDING", "CANCELLED"}
      /\ Honest(e, i.order, PaidByZalo, Refused)
  BY <1>2, <1>3, <1>5 DEF Row, OrderStatus, PaymentStatus, Honest, ZJobInv
<1>7. /\ j \in ZJob /\ j.phase = "loaded" /\ j.day = i.day
      /\ j.order = i.order /\ j.op = "checkOrderStatus" /\ j.entity = e
  BY <1>1, <1>2, <1>6 DEF ZJob
<1> HIDE DEF j, e
<1>8. ZJobInv(j)
  BY <1>2, <1>3, <1>6, <1>7 DEF ZJobInv
<1>9. CASE Put(z, IdleZJob)
  BY <1>1, <1>9, IdleType, MoveInv
<1>10. CASE Put(z, j)
  BY <1>1, <1>7, <1>8, <1>10, MoveInv
<1>11. QED
  BY <1>1, <1>9, <1>10

LEMMA ZDiffInv ==
    ASSUME ZaloInv, NEW z \in Callers, ZDiff(z)
    PROVE  ZaloInv' /\ Grows
<1> DEFINE i == zjob[z]
           d == {c \in ZSavedColumns(i.op) : i.entity[c] # order[i.order][c]}
                \cup (IF ZLoadsAll(i.op) /\ i.exported # (export[i.order] = "linked")
                        THEN {"export"} ELSE {})
                \cup (IF i.expiry # expiry[i.order] THEN {"expiry"} ELSE {})
           j == [i EXCEPT !.phase = "diffed", !.found = opt[i.order], !.dirty = d]
<1>1. i.phase = "loaded" /\ Put(z, j) /\ UNCHANGED <<Database, trans>> /\ Watch
  BY DEF ZDiff
<1>2. i \in ZJob /\ ZJobInv(i) /\ i.order \in Orders
  BY <1>1, JobFacts DEF ZBusy
<1>3. d \in SUBSET (Columns \cup {"export", "expiry"}) /\ opt[i.order] \in Options
  BY <1>2 DEF ZSavedColumns, Columns, ZaloInv, ZTypeOK
<1> HIDE DEF d
<1>4. /\ j \in ZJob /\ j.phase = "diffed" /\ j.day = i.day
      /\ j.order = i.order /\ j.op = i.op /\ j.entity = i.entity
  BY <1>2, <1>3 DEF ZJob
<1> HIDE DEF j
<1>5. ZJobInv(j)
  BY <1>1, <1>2, <1>4 DEF ZJobInv
<1>6. j.op = "createOrder" => Making(z)
  BY <1>1, <1>4 DEF Making
<1>7. QED
  BY <1>1, <1>4, <1>5, <1>6, MoveInv

LEMMA ZAbortInv ==
    ASSUME ZaloInv, NEW z \in Callers, ZAbort(z)
    PROVE  ZaloInv' /\ Grows
BY IdleType, MoveInv DEF ZAbort

---------------------------------------------------------------------------
(* The steps that write the tables *)

\* A copy that was honest stays so.
LEMMA HonestStill ==
    ASSUME Grows, NEW o \in Orders, NEW row, Honest(row, o, PaidByZalo, Refused)
    PROVE  /\ row.paymentMethod \in Methods
           /\ row.payment_status = "PAID" => o \in PaidByZalo' \/ "DELIVERED" \in seen'[o]
           /\ row.payment_status = "FAILED" => o \in Refused'
BY DEF Grows, Honest

\* Only the request that has it at hand makes a payment.
LEMMA CreateAnswerInv ==
    ASSUME ZaloInv, NEW z \in Callers, CreateAnswer(z)
    PROVE  ZaloInv' /\ Grows
<1> DEFINE i == zjob[z]
           t == <<i.order, today>>
           j == [i EXCEPT !.phase = "loaded", !.day = today, !.expiry = today]
<1>1. /\ i.phase = "calling" /\ i.op = "createOrder"
      /\ trans[t] = "none" /\ trans' = [trans EXCEPT ![t] = "MADE"]
      /\ Put(z, j) /\ Watch
      /\ UNCHANGED <<live, order, export, credited, job, seen, clean,
                     today, lapsed, opt, expiry, stale, told, puzzled>>
  BY DEF CreateAnswer, Database, vars
<1>2. i \in ZJob /\ ZJobInv(i) /\ i.order \in Orders /\ i.order \in live
  BY <1>1, JobFacts DEF ZBusy
<1>3. ZTypeOK /\ today \in Days /\ today \in 0 .. MaxDay /\ t \in Trans
  BY <1>2, DayType DEF ZaloInv, ZTypeOK, Trans
<1>4. /\ trans' \in [Trans -> TransStatus] /\ trans'[t] = "MADE"
      /\ \A u \in Trans \ {t} : trans'[u] = trans[u]
  BY <1>1, <1>3 DEF ZTypeOK, TransStatus
<1>5. /\ j \in ZJob /\ j.phase = "loaded" /\ j.day = today
      /\ j.order = i.order /\ j.op = "createOrder" /\ j.entity = i.entity
  BY <1>1, <1>2, <1>3 DEF ZJob
<1> HIDE DEF j
<1>6. zjob'[z] = j /\ \A y \in Callers \ {z} : zjob'[y] = zjob[y]
  BY <1>1, <1>3 DEF Put, ZTypeOK
<1>7. ZTypeOK'
  BY <1>1, <1>3, <1>4, <1>5 DEF Put, ZTypeOK, TypeOK, Watch
<1>8. \A u \in Trans : trans[u] \in {"PAID", "FAILED"} => trans'[u] = trans[u]
  BY <1>1, <1>4
<1>9. Grows
  BY <1>1, <1>8 DEF Grows, PaidByZalo, Refused, Trans
<1>10. StaffHonest(PaidByZalo, Refused)'
  BY <1>1, <1>9, HonestGrows
<1>11. /\ i.entity.paymentMethod \in Methods
       /\ i.entity.payment_status = "PAID" =>
             i.order \in PaidByZalo' \/ "DELIVERED" \in seen'[i.order]
       /\ i.entity.payment_status = "FAILED" => i.order \in Refused'
       /\ i.entity.order_status \in seen[i.order] \cup {"PENDING", "CANCELLED"}
  BY <1>2, <1>9, HonestStill DEF ZJobInv
<1>12. ZJobInv(zjob[z])'
  BY <1>1, <1>2, <1>3, <1>4, <1>5, <1>6, <1>11 DEF ZJobInv, Honest
<1>13. ~Making(z) /\ MadeKept({})
  BY <1>1, <1>4 DEF Making, MadeKept
<1>14. trans[<<zjob'[z].order, zjob'[z].day>>] # "MADE"
  BY <1>1, <1>5, <1>6
<1>15. \A o \in Orders : opt'[o].app # 0 => o \in live'
  BY <1>1 DEF ZaloInv
<1>16. QED
  BY <1>6, <1>7, <1>9, <1>10, <1>12, <1>13, <1>14, <1>15, ZFrame

\* An unknown return_code fails the payment, and the order is remembered.
LEMMA CheckUnknownInv ==
    ASSUME ZaloInv, NEW z \in Callers, CheckUnknown(z)
    PROVE  ZaloInv' /\ Grows
<1> DEFINE i == zjob[z]
           e == [i.entity EXCEPT !.payment_status = "FAILED", !.order_status = "CANCELLED"]
           j == [i EXCEPT !.phase = "loaded", !.entity.payment_status = "FAILED",
                          !.entity.order_status = "CANCELLED"]
<1>1. /\ i.phase = "calling" /\ i.op = "checkOrderStatus"
      /\ puzzled' = puzzled \cup {i.order} /\ Watch
      /\ UNCHANGED <<live, order, export, credited, job, seen, clean,
                     today, trans, lapsed, opt, expiry, stale, told>>
  BY DEF CheckUnknown, vars
<1>2. Put(z, j)
  <2> DEFINE out == Outcome(i, "UNKNOWN")
             a == [i EXCEPT !.phase = "loaded", !.entity.payment_status = out.payment_status,
                            !.entity.order_status = out.order_status]
  <2>1. out.payment_status = "FAILED" /\ out.order_status = "CANCELLED"
    BY DEF Outcome
  <2>2. Put(z, a)
    BY DEF CheckUnknown, Assign
  <2> HIDE DEF out
  <2>3. a = j
    BY <2>1
  <2>4. QED
    BY <2>2, <2>3
<1>3. i \in ZJob /\ ZJobInv(i) /\ i.order \in Orders /\ i.order \in live
  BY <1>1, JobFacts DEF ZBusy
<1>4. ZTypeOK /\ i.day \in Days /\ i.entity \in Row
  BY <1>1, <1>3 DEF ZaloInv, ZJobInv, ZJob
<1>5. /\ e \in Row /\ e.order_status = "CANCELLED" /\ e.payment_status = "FAILED"
      /\ e.paymentMethod = i.entity.paymentMethod
  BY <1>4 DEF Row, OrderStatus, PaymentStatus
<1>6. /\ j \in ZJob /\ j.phase = "loaded" /\ j.day = i.day
      /\ j.order = i.order /\ j.op = "checkOrderStatus" /\ j.entity = e
  BY <1>1, <1>3, <1>5 DEF ZJob
<1> HIDE DEF j, e
<1>7. zjob'[z] = j /\ \A y \in Callers \ {z} : zjob'[y] = zjob[y]
  BY <1>2, <1>4 DEF Put, ZTypeOK
<1>8. ZTypeOK'
  BY <1>1, <1>2, <1>3, <1>4, <1>6 DEF Put, ZTypeOK, TypeOK, Watch
<1>9. Grows
  BY <1>1 DEF Grows, PaidByZalo, Refused
<1>10. StaffHonest(PaidByZalo, Refused)'
  BY <1>1, <1>9, HonestGrows
<1>11. i.order \in Refused' /\ i.entity.paymentMethod \in Methods
  BY <1>1, <1>3 DEF Refused, ZJobInv, Honest
<1>12. ZJobInv(zjob[z])'
  BY <1>1, <1>3, <1>4, <1>5, <1>6, <1>7, <1>11 DEF ZJobInv, Honest
<1>13. ~Making(z)' /\ MadeKept(IF Making(z) THEN {<<i.order, i.day>>} ELSE {})
  BY <1>1, <1>6, <1>7 DEF Making, MadeKept
<1>14. \A o \in Orders : opt'[o].app # 0 => o \in live'
  BY <1>1 DEF ZaloInv
<1>15. QED
  BY <1>7, <1>8, <1>9, <1>10, <1>12, <1>13, <1>14, ZFrame

LEMMA LinkedType ==
    ASSUME NEW n \in Nat, NEW have \in 0 .. n, NEW list \in 0 .. n, NEW found
    PROVE  Linked(have, list, found) \in 0 .. n
BY DEF Linked

\* What a commit does to the orders is a PaymentHandlerSave.
LEMMA ZCommitOrder ==
    ASSUME ZaloInv, LifecycleInv, NEW z \in Callers, ZCommit(z)
    PROVE  /\ ZSavedRow(zjob[z]) \in Row
           /\ Honest(ZSavedRow(zjob[z]), zjob[z].order, PaidByZalo, Refused)
           /\ PaymentHandlerSave(zjob[z].order, ZSavedRow(zjob[z]))
<1> DEFINE i == zjob[z]
           o == i.order
           row == ZSavedRow(i)
<1>1. /\ i.phase = "diffed"
      /\ order' = [order EXCEPT ![o] = row]
      /\ seen' = [seen EXCEPT ![o] = @ \cup {row.order_status}]
      /\ clean' = [clean EXCEPT ![o] = FALSE]
      /\ export' = [export EXCEPT ![o] = IF "export" \in i.dirty THEN Attached(i) ELSE @]
      /\ UNCHANGED <<live, credited, job>>
  BY DEF ZCommit
<1>2. i \in ZJob /\ ZJobInv(i) /\ o \in live
  BY <1>1, JobFacts DEF ZBusy
<1>3. i.entity \in Row
  BY <1>2 DEF ZJob
<1>4. /\ o \in Orders /\ order[o] \in Row /\ order[o].order_status \in seen[o]
      /\ Honest(order[o], o, PaidByZalo, Refused)
  BY <1>2, OrderFacts
<1>5. /\ row.order_status \in {i.entity.order_status, order[o].order_status}
      /\ row.payment_status \in {i.entity.payment_status, order[o].payment_status}
      /\ row.paymentMethod \in {i.entity.paymentMethod, order[o].paymentMethod}
      /\ row = [order_status |-> row.order_status,
                payment_status |-> row.payment_status,
                paymentMethod |-> row.paymentMethod]
  BY DEF ZSavedRow
<1> HIDE DEF row
<1>6. row \in Row
  BY <1>3, <1>4, <1>5 DEF Row
<1>7. Honest(row, o, PaidByZalo, Refused)
  BY <1>2, <1>4, <1>5 DEF Honest, ZJobInv
<1>8. row.order_status \in seen[o] \cup {"PENDING", "CANCELLED"}
  BY <1>2, <1>4, <1>5 DEF ZJobInv
<1>9. row.paymentMethod \in Methods /\ row.payment_status \in PaymentWrites
  BY <1>6, <1>7, ZaloAssumption DEF Row, Honest
<1>10. export' \in {export, [export EXCEPT ![o] = Relinked(@)]}
  <2>1. export \in [Orders -> ExportRow]
    BY DEF LifecycleInv, TypeOK
  <2>2. Attached(i) \in {export[o], Relinked(export[o])}
    BY DEF Attached, Relinked
  <2>3. QED
    BY <1>1, <1>4, <2>1, <2>2
<1>11. live' = live \cup {o} /\ seen[o] # {}
  BY <1>1, <1>2, <1>4
<1>12. PaymentHandlerSave(o, row)
  BY <1>1, <1>8, <1>9, <1>10, <1>11 DEF PaymentHandlerSave
<1>13. QED
  BY <1>6, <1>7, <1>12 DEF row

LEMMA ZCommitInv ==
    ASSUME ZaloInv, LifecycleInv, NEW z \in Callers, ZCommit(z)
    PROVE  ZaloInv' /\ Grows
<1> DEFINE i == zjob[z]
           o == i.order
           t == <<o, i.day>>
           row == ZSavedRow(i)
           app == Linked(opt[o].app, i.list.app, i.found.app)
           zp == Linked(opt[o].zp, i.list.zp, i.found.zp)
           links == [app |-> IF InsertsApp(i) THEN i.day ELSE app,
                     zp |-> IF InsertsZp(i) THEN NewZp(z) ELSE zp]
<1>1. /\ i.phase = "diffed"
      /\ InsertsZp(i) => Unused(z) # {}
      /\ order' = [order EXCEPT ![o] = row]
      /\ seen' = [seen EXCEPT ![o] = @ \cup {row.order_status}]
      /\ expiry' = [expiry EXCEPT ![o] = IF "expiry" \in i.dirty THEN i.expiry ELSE @]
      /\ opt' = [opt EXCEPT ![o] = links]
      /\ trans' = IF InsertsApp(i) THEN [trans EXCEPT ![t] = "PENDING"] ELSE trans
      /\ told' = IF ~InsertsApp(i) /\ i.entity.payment_status = "PAID"
                   THEN told \cup {t} ELSE told
      /\ Put(z, IdleZJob) /\ Watch
      /\ UNCHANGED <<live, credited, job, today, lapsed, stale, puzzled>>
  BY DEF ZCommit
<1>2. i \in ZJob /\ ZJobInv(i) /\ o \in live /\ o \in Orders
  BY <1>1, JobFacts DEF ZBusy
<1>3. /\ row \in Row /\ Honest(row, o, PaidByZalo, Refused)
      /\ PaymentHandlerSave(o, row)
  BY ZCommitOrder
<1>4. LifecycleInv'
  BY <1>2, <1>3, NextInv DEF Next
<1> HIDE DEF row
<1>5. i.day \in Days /\ i.day \in 0 .. MaxDay /\ t \in Trans
  <2>1. i.day \in Days
    BY <1>1, <1>2 DEF ZJobInv
  <2>2. QED
    BY <1>2, <2>1, DayType DEF Trans
<1>6. InsertsApp(i) => trans[t] = "MADE" /\ Making(z)
  BY <1>1, <1>2 DEF InsertsApp, ZJobInv, Making
<1>7. links \in Options
  <2>1. opt[o] \in Options /\ i.list \in Options
    BY <1>2 DEF ZaloInv, ZTypeOK, ZJob
  <2>2. /\ opt[o].app \in 0 .. MaxDay /\ opt[o].zp \in 0 .. MaxRow
        /\ i.list.app \in 0 .. MaxDay /\ i.list.zp \in 0 .. MaxRow
    BY <2>1 DEF Options
  <2>3. app \in 0 .. MaxDay /\ zp \in 0 .. MaxRow
    BY <2>2, LinkedType, ZaloAssumption
  <2>4. InsertsZp(i) => NewZp(z) \in 0 .. MaxRow
    <3>1. InsertsZp(i) => NewZp(z) \in Unused(z)
      BY <1>1 DEF NewZp
    <3>2. Unused(z) \subseteq 0 .. MaxRow
      BY ZaloAssumption DEF Unused
    <3>3. QED
      BY <3>1, <3>2
  <2> HIDE DEF app, zp
  <2>5. QED
    BY <1>5, <2>3, <2>4 DEF Options
<1> HIDE DEF links
<1>8. ZTypeOK /\ TypeOK'
  BY <1>4 DEF ZaloInv, LifecycleInv
<1>9. /\ trans' \in [Trans -> TransStatus]
      /\ \A u \in Trans \ {t} : trans'[u] = trans[u]
      /\ \A u \in Trans : trans[u] \in {"PAID", "FAILED"} => trans'[u] = trans[u]
      /\ ~InsertsApp(i) => trans' = trans
  BY <1>1, <1>5, <1>6, <1>8 DEF ZTypeOK, TransStatus
<1>10. zjob'[z] = IdleZJob /\ \A y \in Callers \ {z} : zjob'[y] = zjob[y]
  BY <1>1, <1>8 DEF Put, ZTypeOK
<1>11. ZTypeOK'
  <2>1. zjob' \in [Callers -> ZJob]
    BY <1>1, <1>8, IdleType DEF Put, ZTypeOK
  <2>2. opt' \in [Orders -> Options] /\ told' \subseteq Trans
    BY <1>1, <1>5, <1>7, <1>8 DEF ZTypeOK
  <2>3. expiry' \in [Orders -> 0 .. MaxDay]
    BY <1>1, <1>2, <1>8 DEF ZTypeOK, ZJob
  <2>4. calm' \in [Orders -> BOOLEAN]
    BY <1>1, <1>8 DEF ZTypeOK, Watch
  <2>5. QED
    BY <1>1, <1>8, <1>9, <2>1, <2>2, <2>3, <2>4 DEF ZTypeOK
<1>12. /\ \A p \in Orders : seen[p] \subseteq seen'[p]
       /\ order'[o] = row /\ \A p \in Orders \ {o} : order'[p] = order[p]
  BY <1>1, <1>8 DEF ZTypeOK, TypeOK
<1>13. Grows
  BY <1>1, <1>9, <1>12 DEF Grows, PaidByZalo, Refused, Trans
<1>14. StaffHonest(PaidByZalo, Refused)'
  <2>1. live \subseteq Orders /\ StaffHonest(PaidByZalo, Refused)
    BY <1>8 DEF ZTypeOK, TypeOK, ZaloInv
  <2>2. /\ row.paymentMethod \in Methods
        /\ row.payment_status = "PAID" => o \in PaidByZalo' \/ "DELIVERED" \in seen'[o]
        /\ row.payment_status = "FAILED" => o \in Refused'
    BY <1>2, <1>3, <1>13, HonestStill
  <2>3. \A p \in live' : Honest(order[p], p, PaidByZalo, Refused)'
    BY <1>1, <1>12, <1>13, <2>1, <2>2 DEF StaffHonest, Honest, Grows
  <2>4. QED
    BY <1>1, <1>13, <2>1, <2>3 DEF StaffHonest, Honest, Grows, Busy
<1>15. \A p \in Orders : opt'[p].app # 0 => p \in live'
  BY <1>1, <1>2, <1>8 DEF ZaloInv, ZTypeOK
<1>16. ~ZBusy(z)' /\ ~Making(z)'
  BY <1>10 DEF ZBusy, Making, IdleZJob
<1>17. MadeKept(IF Making(z) THEN {t} ELSE {})
  BY <1>6, <1>9 DEF MadeKept
<1>18. QED
  BY <1>10, <1>11, <1>13, <1>14, <1>15, <1>16, <1>17, ZFrame

\* Steps of the gateway, the clock and the staff: no payment request moves.
LEMMA ZStill ==
    ASSUME ZaloInv, Grows, ZTypeOK', StaffHonest(PaidByZalo, Refused)',
           MadeKept({}), UNCHANGED <<zjob, opt>>
    PROVE  ZaloInv' /\ Grows
<1>1. ASSUME NEW z \in Callers, ZBusy(z)'
      PROVE  ZJobInv(zjob[z])'
  <2>1. ZBusy(z)
    BY <1>1 DEF ZBusy
  <2>2. Making(z) => /\ <<zjob[z].order, zjob[z].day>> \in Trans
                     /\ trans[<<zjob[z].order, zjob[z].day>>] = "MADE"
    BY <2>1, JobFacts DEF ZJobInv, Making, Trans
  <2>3. QED
    BY <2>1, <2>2, ZJobKept DEF MadeKept
<1>2. MakersDiffer'
  BY ZaloInvParts DEF MakersDiffer, Making
<1>3. \A o \in Orders : opt'[o].app # 0 => o \in live'
  BY DEF ZaloInv, Grows
<1>4. QED
  BY <1>1, <1>2, <1>3 DEF ZaloInv, MakersDiffer, Making

LEMMA SettleTransInv ==
    ASSUME ZaloInv, NEW t \in Trans, NEW s \in {"PAID", "FAILED"}, SettleTrans(t, s)
    PROVE  ZaloInv' /\ Grows
<1>1. /\ trans[t] = "PENDING" /\ trans' = [trans EXCEPT ![t] = s]
      /\ UNCHANGED <<live, order, export, credited, job, seen, clean,
                     today, lapsed, opt, expiry, stale, told, puzzled, zjob, calm>>
  BY DEF SettleTrans, Database, vars
<1>2. ZTypeOK
  BY DEF ZaloInv
<1>3. /\ trans' \in [Trans -> TransStatus]
      /\ \A u \in Trans : trans[u] # "PENDING" => trans'[u] = trans[u]
  BY <1>1, <1>2 DEF ZTypeOK, TransStatus
<1>4. ZTypeOK'
  BY <1>1, <1>2, <1>3 DEF ZTypeOK, TypeOK
<1>5. Grows /\ MadeKept({})
  BY <1>1, <1>3 DEF Grows, PaidByZalo, Refused, Trans, MadeKept
<1>6. QED
  BY <1>1, <1>4, <1>5, HonestGrows, ZStill

LEMMA LapseInv ==
    ASSUME ZaloInv, NEW t \in Trans, Lapse(t)
    PROVE  ZaloInv' /\ Grows
<1>1. /\ lapsed' = lapsed \cup {t}
      /\ UNCHANGED <<live, order, export, credited, job, seen, clean,
                     today, trans, opt, expiry, stale, told, puzzled, zjob, calm>>
  BY DEF Lapse, vars
<1>2. ZTypeOK'
  BY <1>1 DEF ZaloInv, ZTypeOK, TypeOK
<1>3. Grows /\ MadeKept({})
  BY <1>1 DEF Grows, PaidByZalo, Refused, Trans, MadeKept
<1>4. QED
  BY <1>1, <1>2, <1>3, HonestGrows, ZStill

LEMMA NextDayInv ==
    ASSUME ZaloInv, NextDay
    PROVE  ZaloInv' /\ Grows
<1>1. /\ today < MaxDay /\ today' = today + 1
      /\ UNCHANGED <<live, order, export, credited, job, seen, clean,
                     lapsed, trans, opt, expiry, stale, told, puzzled, zjob, calm>>
  BY DEF NextDay, vars
<1>2. today' \in Days
  BY <1>1, ZaloAssumption DEF ZaloInv, ZTypeOK, Days
<1>3. ZTypeOK'
  BY <1>1, <1>2 DEF ZaloInv, ZTypeOK, TypeOK
<1>4. Grows /\ MadeKept({})
  BY <1>1 DEF Grows, PaidByZalo, Refused, MadeKept
<1>5. QED
  BY <1>1, <1>3, <1>4, HonestGrows, ZStill

LEMMA StaffInv ==
    ASSUME ZaloInv, LifecycleInv, Staff
    PROVE  ZaloInv' /\ Grows
<1>1. /\ stale' = [r \in Requests |-> NextStale(r)]
      /\ UNCHANGED <<today, trans, lapsed, opt, zjob, told, puzzled>>
      /\ Watch /\ StaffNext
  BY DEF Staff, StaffNext
<1>2. LifecycleInv' /\ "remove" \notin Ops
  BY <1>1, NextInv, ZaloAssumption DEF Next
<1>3. live \subseteq live' /\ \A o \in Orders : seen[o] \subseteq seen'[o]
  BY <1>1, <1>2, StaffGrows
<1>4. PaidByZalo' = PaidByZalo /\ Refused' = Refused
  BY <1>1 DEF PaidByZalo, Refused
<1>5. Grows /\ MadeKept({})
  BY <1>1, <1>3, <1>4 DEF Grows, MadeKept
<1>6. \A F, R : StaffHonest(F, R) =>
          /\ \A o \in live' : /\ order'[o].paymentMethod \in Methods
                              /\ order'[o].payment_status = "PAID" => o \in F \/ "DELIVERED" \in seen'[o]
                              /\ order'[o].payment_status = "FAILED" => o \in R
          /\ \A r \in Requests : job'[r].phase # "idle" =>
                LET e == job'[r].entity
                    o == job'[r].order
                IN
                /\ o \in live'
                /\ \/ /\ e.paymentMethod \in Methods
                      /\ e.payment_status = "PAID" => o \in F \/ "DELIVERED" \in seen'[o]
                      /\ e.payment_status = "FAILED" => o \in R
                   \/ /\ e.paymentMethod \in Methods
                      /\ e.payment_status = "PAID"
                      /\ e.order_status = "DELIVERED"
  BY <1>1, <1>2, StaffStaysHonest DEF StaffHonest, Honest, Busy
<1>7. StaffHonest(PaidByZalo, Refused)'
  <2>1. StaffHonest(PaidByZalo, Refused)
    BY DEF ZaloInv
  <2>2. QED
    BY <1>4, <1>6, <2>1 DEF StaffHonest, Honest, Busy
<1>8. /\ stale \in [Requests -> [copy: 0 .. MaxDay, dirty: BOOLEAN]]
      /\ expiry \in [Orders -> 0 .. MaxDay] /\ 0 \in 0 .. MaxDay /\ ZTypeOK
  BY ZaloAssumption DEF ZaloInv, ZTypeOK
<1>9. expiry' \in [Orders -> 0 .. MaxDay]
  <2>1. CASE UNCHANGED expiry
    BY <2>1, <1>8
  <2>2. ASSUME NEW r \in Requests, Commit(r),
               expiry' = IF stale[r].dirty
                           THEN [expiry EXCEPT ![job[r].order] = stale[r].copy]
                           ELSE expiry
        PROVE  expiry' \in [Orders -> 0 .. MaxDay]
    BY <2>2, <1>8
  <2>3. QED
    BY <2>1, <2>2 DEF Staff
<1>10. \A r \in Requests : NextStale(r) \in [copy: 0 .. MaxDay, dirty: BOOLEAN]
  <2> SUFFICES ASSUME NEW r \in Requests
               PROVE  NextStale(r) \in [copy: 0 .. MaxDay, dirty: BOOLEAN]
    OBVIOUS
  <2>1. CASE job'[r] = job[r] \/ job'[r].phase = "idle"
    BY <2>1, <1>8 DEF NextStale, NoCopy
  <2>2. CASE job'[r] # job[r] /\ job'[r].phase # "idle" /\ ~Busy(r)
    <3>1. job'[r].order \in Orders
      BY <2>2, <1>2 DEF LifecycleInv, JobInv, Busy
    <3>2. QED
      BY <2>2, <3>1, <1>8 DEF NextStale
  <2>3. CASE job'[r] # job[r] /\ job'[r].phase # "idle" /\ Busy(r)
    BY <2>3, <1>8 DEF NextStale
  <2>4. QED
    BY <2>1, <2>2, <2>3
<1>11. ZTypeOK'
  BY <1>1, <1>2, <1>8, <1>9, <1>10 DEF ZTypeOK, LifecycleInv, Watch
<1>12. QED
  BY <1>1, <1>5, <1>7, <1>11, ZStill

---------------------------------------------------------------------------

LEMMA ZInitInv == ZInit => ZaloInv
<1> SUFFICES ASSUME ZInit PROVE ZaloInv
  OBVIOUS
<1>1. TypeOK
  BY InitInv DEF ZInit, LifecycleInv
<1>2. ZTypeOK
  BY <1>1, IdleType, ZaloAssumption DEF ZInit, ZTypeOK, TransStatus, Options, NoOptions, NoCopy, Days
<1>3. StaffHonest(PaidByZalo, Refused)
  BY DEF ZInit, Init, StaffHonest, Busy, IdleJob
<1>4. QED
  BY <1>2, <1>3 DEF ZInit, ZaloInv, NoOptions, ZBusy, IdleZJob

\* Every step of the payment handlers is a step of OrderLifecycle or a stutter.
LEMMA ZStepImplements ==
    ASSUME ZaloInv, LifecycleInv, [ZNext]_allvars
    PROVE  [Next]_vars
<1>1. CASE Staff
  BY <1>1 DEF Staff, StaffNext, Next
<1>2. ASSUME NEW z \in Callers, ZCommit(z)
      PROVE  Next
  <2>1. zjob[z].order \in Orders
    BY <1>2, JobFacts DEF ZCommit, ZBusy
  <2>2. QED
    BY <1>2, <2>1, ZCommitOrder DEF Next
<1>3. QED
  BY <1>1, <1>2 DEF ZNext, ZStep, allvars, Database, CreateLoad, Callback, CheckLoad,
     CreateAnswer, CheckAnswer, CheckUnknown, ZDiff, ZAbort, Pay, Decline, SettleTrans, Lapse, NextDay

LEMMA ZNextInv ==
    ZaloInv /\ LifecycleInv /\ [ZNext]_allvars => ZaloInv' /\ LifecycleInv' /\ Grows
<1> SUFFICES ASSUME ZaloInv, LifecycleInv, [ZNext]_allvars
             PROVE  ZaloInv' /\ LifecycleInv' /\ Grows
  OBVIOUS
<1>1. LifecycleInv'
  BY ZStepImplements, NextInv
<1>2. CASE UNCHANGED allvars
  <2>1. UNCHANGED <<live, order, export, credited, job, seen, clean,
                    today, trans, lapsed, opt, expiry, zjob, stale, told, puzzled, calm>>
    BY <1>2 DEF allvars, vars, zvars
  <2>2. ZTypeOK'
    BY <2>1 DEF ZaloInv, ZTypeOK, TypeOK
  <2>3. Grows /\ MadeKept({})
    BY <2>1 DEF Grows, PaidByZalo, Refused, MadeKept
  <2>4. QED
    BY <1>1, <2>1, <2>2, <2>3, HonestGrows, ZStill
<1>3. ASSUME NEW t \in Trans, Pay(t) \/ Decline(t) \/ Lapse(t)
      PROVE  ZaloInv' /\ Grows
  BY <1>3, SettleTransInv, LapseInv DEF Pay, Decline
<1>4. ASSUME NEW z \in Callers,
             \/ \E o \in Orders : CreateLoad(z, o) \/ Callback(z, o) \/ CheckLoad(z, o)
             \/ CreateAnswer(z) \/ CheckAnswer(z) \/ CheckUnknown(z)
             \/ ZDiff(z) \/ ZCommit(z) \/ ZAbort(z)
      PROVE  ZaloInv' /\ Grows
  BY <1>4, CreateLoadInv, CallbackInv, CheckLoadInv, CreateAnswerInv, CheckAnswerInv,
     CheckUnknownInv, ZDiffInv, ZCommitInv, ZAbortInv
<1>5. QED
  BY <1>1, <1>2, <1>3, <1>4, StaffInv, NextDayInv DEF ZNext, ZStep

\* Whatever overlaps, copies of an order claim nothing that did not happen
\* (createOrder, verifyCallback, checkOrderStatus and the staff's endpoints).
THEOREM ZaloInvariant == ZSpec => [](ZaloInv /\ LifecycleInv)
<1>1. ZInit => ZaloInv /\ LifecycleInv
  BY ZInitInv, InitInv DEF ZInit
<1>2. QED
  BY <1>1, ZNextInv, PTL DEF ZSpec

\* ZaloPayment implements OrderLifecycle.
THEOREM ZaloImplementsLifecycle == ZSpec => ZImplementsLifecycle
<1>1. ZInit => Init
  BY DEF ZInit
<1>2. ZaloInv /\ LifecycleInv /\ [ZNext]_allvars => [Next]_vars
  BY ZStepImplements
<1>3. QED
  BY <1>1, <1>2, ZaloInvariant, PTL DEF ZSpec, Spec, ZImplementsLifecycle

\* An order shows FAILED only if ZaloPay refused a payment of it, one expired,
\* or a check was answered with an unknown return_code (checkOrderStatus).
THEOREM ZaloFailureIsReal == ZSpec => []FailureIsReal
<1>1. ZaloInv => FailureIsReal
  BY DEF ZaloInv, StaffHonest, Honest, FailureIsReal
<1>2. QED
  BY <1>1, ZaloInvariant, PTL

\* Money is never lost at the gateway and PAID is never made up: ZaloPayment
\* implements Settlement (verifyCallback, checkOrderStatus, shipOrderSuccess).
THEOREM ZaloSettlesMoney == ZSpec => SettlesMoney
<1>1. ZInit => Money!SInit
  <2> SUFFICES ASSUME ZInit PROVE Money!SInit
    OBVIOUS
  <2>1. ShownPaid = {}
    BY DEF ZInit, Init, ShownPaid
  <2>2. PaidByZalo = {}
    BY DEF ZInit, PaidByZalo, Trans
  <2>3. Funded = {}
    BY <2>2 DEF ZInit, Init, Funded
  <2>4. QED
    BY <2>1, <2>3 DEF Money!SInit
<1>2. ASSUME ZaloInv', LifecycleInv', Grows
      PROVE  Money!Settle
  <2>1. Funded \subseteq Funded' /\ Funded' \in SUBSET Orders
    BY <1>2 DEF Grows, Funded, PaidByZalo
  <2>2. ShownPaid' \subseteq Funded'
    BY <1>2 DEF ZaloInv, StaffHonest, Honest, ShownPaid, Funded, LifecycleInv, TypeOK
  <2>3. QED
    BY <2>1, <2>2 DEF Money!Settle
<1>3. ZaloInv /\ LifecycleInv /\ [ZNext]_allvars => Money!Settle
  BY <1>2, ZNextInv
<1>4. QED
  BY <1>1, <1>3, ZaloInvariant, PTL DEF ZSpec, SettlesMoney, Money!SettlementSpec

---------------------------------------------------------------------------
(* Orders whose requests take turns.  Whoever works on a calm order has it *)
(* to itself, so what it loaded is what its commit finds: the lists of     *)
(* options agree, no row changes hands, and the payment stays recorded.    *)

\* A step leaves alone what the calm invariant says of order o.
Untouched(o) ==
    /\ o \in live => order'[o] = order[o]
    /\ opt'[o] = opt[o] /\ expiry'[o] = expiry[o]
    /\ \A d \in Days :
          /\ <<o, d>> \in told' => <<o, d>> \in told
          /\ trans'[<<o, d>>] \notin {"none", "MADE"} => trans[<<o, d>>] \notin {"none", "MADE"}

LEMMA DaysPositive == \A d \in Days : d # 0
BY ZaloAssumption DEF Days

\* The part of the calm invariant about order o.
LEMMA OrderCalmKept ==
    ASSUME ZaloInv, NEW o \in Orders, CalmOrder(o), Untouched(o)
    PROVE  CalmOrder(o)'
<1>1. ASSUME NEW d \in Days, <<o, d>> \in told
      PROVE  order'[o] = order[o]
  <2>1. opt[o].app # 0
    BY <1>1, DaysPositive DEF CalmOrder
  <2>2. QED
    BY <2>1 DEF ZaloInv, Untouched
<1>2. QED
  BY <1>1 DEF CalmOrder, Untouched

\* The payment requests in Z and the staff requests in S moved, and touched no
\* order but those that they worked on.
LEMMA CalmFrame ==
    ASSUME ZaloInv, LifecycleInv, ZaloCalmInv,
           NEW Z \in SUBSET Callers, NEW S \in SUBSET Requests,
           \A z \in Callers \ Z : zjob'[z] = zjob[z],
           \A r \in Requests \ S : job'[r] = job[r] /\ stale'[r] = stale[r],
           \A o \in Orders : calm'[o] =>
              /\ calm[o] /\ Peace(o)'
              /\ \/ Untouched(o)
                 \/ /\ CalmOrder(o)'
                    /\ \/ \E z \in Z : ZBusy(z) /\ zjob[z].order = o
                       \/ \E r \in S : Busy(r) /\ job[r].order = o,
           \A z \in Z : ZBusy(z)' /\ calm'[zjob'[z].order] => CalmCaller(zjob[z])',
           \A r \in S : Busy(r)' /\ calm'[job'[r].order] => CalmStaff(r)'
    PROVE  ZaloCalmInv'
<1>1. \A o \in Orders : calm[o] => Peace(o) /\ CalmOrder(o)
  BY DEF ZaloCalmInv
<1>2. ASSUME NEW z \in Callers \ Z, ZBusy(z)', calm'[zjob'[z].order]
      PROVE  CalmCaller(zjob[z])'
  <2> DEFINE o == zjob[z].order
  <2>1. zjob'[z] = zjob[z] /\ ZBusy(z) /\ calm'[o]
    BY <1>2 DEF ZBusy
  <2>2. o \in live /\ o \in Orders
    BY <2>1, JobFacts
  <2>3. calm[o] /\ Peace(o)
    BY <1>1, <2>1, <2>2
  <2>4. Untouched(o)
    <3>1. /\ \A y \in Z : ZBusy(y) => zjob[y].order # o
          /\ \A r \in S : Busy(r) => job[r].order # o
      BY <2>1, <2>3 DEF Peace
    <3>2. QED
      BY <2>1, <2>2, <3>1
  <2>5. CalmCaller(zjob[z])
    BY <2>1, <2>3 DEF ZaloCalmInv
  <2>6. QED
    BY <2>1, <2>2, <2>4, <2>5 DEF CalmCaller, Untouched
<1>3. ASSUME NEW r \in Requests \ S, Busy(r)', calm'[job'[r].order]
      PROVE  CalmStaff(r)'
  <2> DEFINE o == job[r].order
  <2>1. job'[r] = job[r] /\ stale'[r] = stale[r] /\ Busy(r) /\ calm'[o]
    BY <1>3 DEF Busy
  <2>2. o \in live /\ o \in Orders
    BY <2>1 DEF ZaloInv, StaffHonest, ZTypeOK, TypeOK
  <2>3. calm[o] /\ Peace(o)
    BY <1>1, <2>1, <2>2
  <2>4. Untouched(o)
    <3>1. /\ \A z \in Z : ZBusy(z) => zjob[z].order # o
          /\ \A q \in S : Busy(q) => job[q].order # o
      BY <2>1, <2>3 DEF Peace, Alone
    <3>2. QED
      BY <2>1, <2>2, <3>1
  <2>5. CalmStaff(r)
    BY <2>1, <2>3 DEF ZaloCalmInv
  <2>6. QED
    BY <2>1, <2>2, <2>4, <2>5 DEF CalmStaff, Untouched
<1>4. ASSUME NEW o \in Orders, calm'[o]
      PROVE  Peace(o)' /\ CalmOrder(o)'
  BY <1>1, <1>4, OrderCalmKept
<1>5. QED
  BY <1>2, <1>3, <1>4 DEF ZaloCalmInv

\* A step that leaves every order alone, and moves at most one request.
LEMMA CalmerFrame ==
    ASSUME ZaloInv, LifecycleInv, ZaloCalmInv,
           NEW Z \in SUBSET Callers, NEW S \in SUBSET Requests,
           \A z \in Callers \ Z : zjob'[z] = zjob[z],
           \A r \in Requests \ S : job'[r] = job[r] /\ stale'[r] = stale[r],
           Watch, \A o \in Orders : Untouched(o),
           \A z \in Z : ZBusy(z)' /\ calm'[zjob'[z].order] => CalmCaller(zjob[z])',
           \A r \in S : Busy(r)' /\ calm'[job'[r].order] => CalmStaff(r)'
    PROVE  ZaloCalmInv'
<1>1. \A o \in Orders : calm'[o] => calm[o] /\ Peace(o)'
  BY DEF Watch
<1>2. QED
  BY <1>1, CalmFrame

LEMMA CalmMove ==
    ASSUME ZaloInv, LifecycleInv, ZaloCalmInv, NEW z \in Callers, Watch,
           UNCHANGED <<vars, opt, expiry, stale, told>>,
           \A t \in Trans : trans'[t] \notin {"none", "MADE"} => trans'[t] = trans[t],
           NEW j, Put(z, j),
           j.phase # "idle" => j.order \in Orders /\ (calm[j.order] => CalmCaller(j))
    PROVE  ZaloCalmInv'
<1>1. UNCHANGED <<live, order, export, credited, job, seen, clean,
                  opt, expiry, stale, told>>
  BY DEF vars
<1>2. zjob'[z] = j /\ \A y \in Callers \ {z} : zjob'[y] = zjob[y]
  BY DEF Put, ZaloInv, ZTypeOK
<1>3. \A o \in Orders : Untouched(o)
  BY <1>1 DEF Untouched, Trans
<1>4. \A y \in {z} : ZBusy(y)' /\ calm'[zjob'[y].order] => CalmCaller(zjob[y])'
  <2> SUFFICES ASSUME j.phase # "idle", calm'[j.order]
               PROVE  CalmCaller(zjob[z])'
    BY <1>2 DEF ZBusy
  <2>1. calm[j.order]
    BY DEF Watch
  <2>2. QED
    BY <1>1, <1>2, <2>1 DEF CalmCaller
<1>5. {z} \in SUBSET Callers /\ {} \in SUBSET Requests
  OBVIOUS
<1>6. \A r \in Requests \ {} : job'[r] = job[r] /\ stale'[r] = stale[r]
  BY <1>1
<1>7. QED
  BY <1>2, <1>3, <1>4, <1>5, <1>6, CalmerFrame

\* What a calm order that is loaded was never told, if it is not PAID.
LEMMA NotTold ==
    ASSUME ZaloCalmInv, NEW o \in Orders, calm[o]
    PROVE  /\ order[o].payment_status # "PAID" => \A d \in Days : <<o, d>> \notin told
           /\ opt[o] = NoOptions => \A d \in Days : <<o, d>> \notin told
BY DaysPositive DEF ZaloCalmInv, CalmOrder, NoOptions

LEMMA CalmLoads ==
    ASSUME ZaloInv, LifecycleInv, ZaloCalmInv, NEW z \in Callers, NEW o \in Orders,
           CreateLoad(z, o) \/ Callback(z, o) \/ CheckLoad(z, o)
    PROVE  ZaloCalmInv'
<1>1. ASSUME NEW j, Put(z, j), UNCHANGED <<Database, trans>>, Watch,
             j.phase \in {"calling", "loaded"}, j.order = o, j.expiry = expiry[o],
             j.op = "createOrder" => opt[o] = NoOptions /\ j.phase = "calling",
             j.op # "createOrder" => j.day = opt[o].app,
             j.list = IF j.op = "verifyCallback" THEN [opt[o] EXCEPT !.zp = 0] ELSE opt[o],
             j.entity.payment_status # "PAID" => order[o].payment_status # "PAID"
      PROVE  ZaloCalmInv'
  <2>1. calm[o] => CalmCaller(j)
    BY <1>1, NotTold DEF CalmCaller
  <2>2. UNCHANGED <<vars, opt, expiry, stale, told>> /\ UNCHANGED trans
    BY <1>1 DEF Database
  <2>3. QED
    BY <1>1, <2>1, <2>2, CalmMove
<1>2. CASE CreateLoad(z, o)
  <2> DEFINE j == [Loaded(o, "createOrder", order[o]) EXCEPT !.phase = "calling"]
  <2>1. /\ Put(z, j) /\ UNCHANGED <<Database, trans>> /\ Watch
        /\ opt[o] = NoOptions
    BY <1>2 DEF CreateLoad
  <2>2. /\ j.phase = "calling" /\ j.op = "createOrder" /\ j.order = o
        /\ j.list = opt[o] /\ j.entity = order[o] /\ j.expiry = expiry[o]
    BY DEF Loaded, IdleZJob
  <2> HIDE DEF j
  <2>3. QED
    BY <1>1, <2>1, <2>2
<1>3. CASE CheckLoad(z, o)
  <2> DEFINE j == [Loaded(o, "checkOrderStatus", order[o])
                     EXCEPT !.phase = "calling", !.day = opt[o].app]
  <2>1. Put(z, j) /\ UNCHANGED <<Database, trans>> /\ Watch
    BY <1>3 DEF CheckLoad
  <2>2. /\ j.phase = "calling" /\ j.op = "checkOrderStatus" /\ j.order = o
        /\ j.list = opt[o] /\ j.entity = order[o] /\ j.expiry = expiry[o]
        /\ j.day = opt[o].app
    BY DEF Loaded, IdleZJob
  <2> HIDE DEF j
  <2>3. QED
    BY <1>1, <2>1, <2>2
<1>4. CASE Callback(z, o)
  <2> DEFINE e == [order[o] EXCEPT !.payment_status = "PAID"]
             j == [Loaded(o, "verifyCallback", e)
                     EXCEPT !.phase = "loaded", !.day = opt[o].app, !.list.zp = 0]
  <2>1. Put(z, j) /\ UNCHANGED <<Database, trans>> /\ Watch
    BY <1>4 DEF Callback
  <2>2. e.payment_status = "PAID"
    BY DEF ZaloInv, ZTypeOK, TypeOK, Row
  <2> HIDE DEF e
  <2>3. /\ j.phase = "loaded" /\ j.op = "verifyCallback" /\ j.order = o
        /\ j.list = [opt[o] EXCEPT !.zp = 0] /\ j.entity = e /\ j.expiry = expiry[o]
        /\ j.day = opt[o].app
    BY DEF Loaded, IdleZJob
  <2> HIDE DEF j
  <2>4. QED
    BY <1>1, <2>1, <2>2, <2>3
<1>5. QED
  BY <1>2, <1>3, <1>4

LEMMA CalmAnswers ==
    ASSUME ZaloInv, LifecycleInv, ZaloCalmInv, NEW z \in Callers,
           CreateAnswer(z) \/ CheckAnswer(z) \/ CheckUnknown(z)
    PROVE  ZaloCalmInv'
<1> DEFINE i == zjob[z]
<1>1. i \in ZJob /\ i.order \in Orders /\ ZBusy(z)
  BY JobFacts DEF CreateAnswer, CheckAnswer, CheckUnknown, ZBusy
<1>2. calm[i.order] => CalmCaller(i)
  BY <1>1 DEF ZaloCalmInv
<1>3. CASE CreateAnswer(z)
  <2> DEFINE t == <<i.order, today>>
             j == [i EXCEPT !.phase = "loaded", !.day = today, !.expiry = today]
  <2>1. /\ i.op = "createOrder" /\ trans' = [trans EXCEPT ![t] = "MADE"]
        /\ Put(z, j) /\ UNCHANGED <<vars, opt, expiry, stale, told>> /\ Watch
    BY <1>3 DEF CreateAnswer, Database
  <2>2. \A u \in Trans : trans'[u] \notin {"none", "MADE"} => trans'[u] = trans[u]
    BY <2>1 DEF ZaloInv, ZTypeOK
  <2>3. /\ j.phase = "loaded" /\ j.op = "createOrder" /\ j.order = i.order
        /\ j.day = j.expiry /\ j.list = i.list /\ j.entity = i.entity
    BY <1>1, <2>1 DEF ZJob
  <2> HIDE DEF j
  <2>4. calm[i.order] => CalmCaller(j)
    BY <1>2, <2>1, <2>3 DEF CalmCaller
  <2>5. QED
    BY <1>1, <2>1, <2>2, <2>3, <2>4, CalmMove
<1>4. ASSUME CheckAnswer(z) \/ CheckUnknown(z), NEW status, Assign(z, status)
      PROVE  ZaloCalmInv'
  <2> DEFINE out == Outcome(i, status)
             j == [i EXCEPT !.phase = "loaded", !.entity.payment_status = out.payment_status,
                            !.entity.order_status = out.order_status]
  <2>1. /\ i.op = "checkOrderStatus" /\ UNCHANGED trans /\ Watch
        /\ UNCHANGED <<vars, opt, expiry, stale, told>>
    BY <1>4 DEF CheckAnswer, CheckUnknown, Database
  <2>2. Put(z, j) /\ i.entity.payment_status # "PAID"
    BY <1>4 DEF Assign
  <2>3. /\ j.phase = "loaded" /\ j.op = "checkOrderStatus" /\ j.order = i.order
        /\ j.day = i.day /\ j.list = i.list /\ j.expiry = i.expiry
    BY <1>1, <2>1 DEF ZJob
  <2> HIDE DEF j
  <2>4. calm[i.order] => CalmCaller(j)
    BY <1>2, <2>1, <2>2, <2>3 DEF CalmCaller
  <2>5. QED
    BY <1>1, <2>1, <2>2, <2>3, <2>4, CalmMove
<1>5. CASE CheckAnswer(z) /\ Put(z, IdleZJob)
  <2>1. UNCHANGED <<vars, opt, expiry, stale, told>> /\ UNCHANGED trans /\ Watch
    BY <1>5 DEF CheckAnswer, Database
  <2>2. QED
    BY <1>5, <2>1, CalmMove, IdleType
<1>6. QED
  BY <1>3, <1>4, <1>5 DEF CheckAnswer, CheckUnknown

LEMMA CalmDiff ==
    ASSUME ZaloInv, LifecycleInv, ZaloCalmInv, NEW z \in Callers, ZDiff(z)
    PROVE  ZaloCalmInv'
<1> DEFINE i == zjob[z]
           d == {c \in ZSavedColumns(i.op) : i.entity[c] # order[i.order][c]}
                \cup (IF ZLoadsAll(i.op) /\ i.exported # (export[i.order] = "linked")
                        THEN {"export"} ELSE {})
                \cup (IF i.expiry # expiry[i.order] THEN {"expiry"} ELSE {})
           j == [i EXCEPT !.phase = "diffed", !.found = opt[i.order], !.dirty = d]
<1>1. i.phase = "loaded" /\ Put(z, j) /\ UNCHANGED <<Database, trans>> /\ Watch
  BY DEF ZDiff
<1>2. i \in ZJob /\ i.order \in Orders /\ ZBusy(z)
  BY <1>1, JobFacts DEF ZBusy
<1>3. calm[i.order] => CalmCaller(i)
  BY <1>2 DEF ZaloCalmInv
<1>4. /\ "payment_status" \notin d =>
            i.entity.payment_status = order[i.order].payment_status
      /\ "expiry" \notin d => i.expiry = expiry[i.order]
  BY DEF ZSavedColumns, Columns
<1> HIDE DEF d
<1>5. /\ j.phase = "diffed" /\ j.op = i.op /\ j.order = i.order /\ j.day = i.day
      /\ j.list = i.list /\ j.expiry = i.expiry /\ j.entity = i.entity
      /\ j.found = opt[i.order] /\ j.dirty = d
  BY <1>2 DEF ZJob
<1> HIDE DEF j
<1>6. calm[i.order] => CalmCaller(j)
  BY <1>1, <1>3, <1>4, <1>5 DEF CalmCaller
<1>7. UNCHANGED <<vars, opt, expiry, stale, told>> /\ UNCHANGED trans
  BY <1>1 DEF Database
<1>8. QED
  BY <1>1, <1>2, <1>5, <1>6, <1>7, CalmMove

\* The commit finds the options as its request loaded them, so it loses none,
\* and writes the payment if it had been recorded or is recorded now.
LEMMA CommittedOrder ==
    ASSUME ZaloInv, LifecycleInv, ZaloCalmInv, NEW z \in Callers, ZCommit(z),
           NEW o \in Orders, o = zjob[z].order, calm'[o]
    PROVE  CalmOrder(o)'
<1> DEFINE i == zjob[z]
           t == <<o, i.day>>
           app == Linked(opt[o].app, i.list.app, i.found.app)
           zp == Linked(opt[o].zp, i.list.zp, i.found.zp)
           links == [app |-> IF InsertsApp(i) THEN i.day ELSE app,
                     zp |-> IF InsertsZp(i) THEN NewZp(z) ELSE zp]
<1>1. /\ i.phase = "diffed" /\ ZBusy(z)
      /\ InsertsZp(i) => Unused(z) # {}
      /\ order' = [order EXCEPT ![o] = ZSavedRow(i)]
      /\ expiry' = [expiry EXCEPT ![o] = IF "expiry" \in i.dirty THEN i.expiry ELSE @]
      /\ opt' = [opt EXCEPT ![o] = links]
      /\ trans' = IF InsertsApp(i) THEN [trans EXCEPT ![t] = "PENDING"] ELSE trans
      /\ told' = IF ~InsertsApp(i) /\ i.entity.payment_status = "PAID"
                   THEN told \cup {t} ELSE told
      /\ Watch
  BY DEF ZCommit, ZBusy
<1>2. i \in ZJob /\ ZJobInv(i) /\ o \in Orders
  BY <1>1, JobFacts
<1>3. calm[o] /\ CalmCaller(i) /\ CalmOrder(o)
  BY <1>1, <1>2 DEF Watch, ZaloCalmInv
<1>4. i.day \in Days /\ i.day # 0
  BY <1>1, <1>2, DaysPositive DEF ZJobInv
<1>5. opt[o] \in Options /\ i.found = opt[o]
  BY <1>1, <1>2, <1>3 DEF CalmCaller, ZaloInv, ZTypeOK
<1>6. app = opt[o].app /\ zp = i.list.zp
  <2>1. i.list.app = opt[o].app /\ i.list.zp \in {0, opt[o].zp}
    BY <1>3, <1>5 DEF CalmCaller, Options
  <2>2. QED
    BY <1>5, <2>1 DEF Linked
<1>7. InsertsZp(i) => NewZp(z) # 0
  <2>1. InsertsZp(i) => NewZp(z) \in Unused(z)
    BY <1>1 DEF NewZp
  <2>2. 0 \notin Unused(z)
    BY ZaloAssumption DEF Unused
  <2>3. QED
    BY <2>1, <2>2
<1> HIDE DEF app, zp
<1>8. /\ links.app = i.day
      /\ ~InsertsApp(i) => links.zp # 0 /\ opt[o].app = i.day
  <2>1. ~InsertsApp(i) => opt[o].app = i.day
    BY <1>3 DEF CalmCaller, InsertsApp
  <2>2. ~InsertsApp(i) /\ ~InsertsZp(i) => i.list.zp # 0
    BY <1>1, <1>2 DEF InsertsApp, InsertsZp, ZJobInv, ZJob
  <2>3. QED
    BY <1>6, <1>7, <2>1, <2>2
<1> HIDE DEF links
<1>9. /\ order'[o].payment_status = i.entity.payment_status
      /\ expiry'[o] = i.expiry /\ opt'[o] = links
  <2>1. ZSavedRow(i).payment_status = i.entity.payment_status
    BY <1>1, <1>3 DEF ZSavedRow, CalmCaller
  <2>2. expiry'[o] = i.expiry
    BY <1>1, <1>2, <1>3 DEF CalmCaller, ZaloInv, ZTypeOK
  <2>3. QED
    BY <1>1, <1>2, <2>1, <2>2 DEF ZaloInv, ZTypeOK, TypeOK
<1>10. i.expiry = i.day
  BY <1>1, <1>3, <1>8 DEF CalmCaller, CalmOrder, InsertsApp
<1>11. InsertsApp(i) => opt[o].app = 0
  BY <1>3 DEF CalmCaller, InsertsApp, NoOptions
<1>12. ASSUME NEW d \in Days, trans'[<<o, d>>] \notin {"none", "MADE"}
       PROVE  d = i.day
  <2>1. CASE InsertsApp(i) /\ d # i.day
    <3>1. trans'[<<o, d>>] = trans[<<o, d>>]
      BY <1>1, <1>2, <2>1 DEF ZaloInv, ZTypeOK, Trans
    <3>2. QED
      BY <1>3, <1>11, <1>12, <2>1, <3>1, DaysPositive DEF CalmOrder
  <2>2. CASE ~InsertsApp(i)
    BY <1>1, <1>3, <1>8, <1>12, <2>2 DEF CalmOrder
  <2>3. QED
    BY <2>1, <2>2
<1>13. ASSUME NEW d \in Days, <<o, d>> \in told'
       PROVE  order'[o].payment_status = "PAID" /\ d = i.day /\ ~InsertsApp(i)
  <2>1. CASE <<o, d>> \in told
    <3>1. opt[o].app = d /\ i.entity.payment_status = "PAID"
      BY <1>3, <2>1 DEF CalmOrder, CalmCaller
    <3>2. ~InsertsApp(i)
      BY <1>11, <3>1, DaysPositive
    <3>3. QED
      BY <1>8, <1>9, <3>1, <3>2
  <2>2. CASE <<o, d>> \notin told
    BY <1>1, <1>9, <1>13, <2>2
  <2>3. QED
    BY <2>1, <2>2
<1>14. QED
  BY <1>8, <1>9, <1>10, <1>12, <1>13 DEF CalmOrder

LEMMA CalmCommit ==
    ASSUME ZaloInv, LifecycleInv, ZaloCalmInv, NEW z \in Callers, ZCommit(z)
    PROVE  ZaloCalmInv'
<1> DEFINE i == zjob[z]
           o == i.order
           t == <<o, i.day>>
<1>1. /\ ZBusy(z) /\ Watch /\ UNCHANGED <<job, stale>>
      /\ zjob'[z] = IdleZJob /\ \A y \in Callers \ {z} : zjob'[y] = zjob[y]
  BY DEF ZCommit, ZBusy, Put, ZaloInv, ZTypeOK
<1>2. o \in Orders
  BY <1>1, JobFacts
<1>3. ASSUME NEW p \in Orders \ {o}
      PROVE  Untouched(p)
  <2>1. order'[p] = order[p] /\ opt'[p] = opt[p] /\ expiry'[p] = expiry[p]
    BY <1>3 DEF ZCommit, ZaloInv, ZTypeOK, TypeOK
  <2>2. ASSUME NEW d \in Days
        PROVE  /\ <<p, d>> # t /\ trans'[<<p, d>>] = trans[<<p, d>>]
               /\ <<p, d>> \in told' => <<p, d>> \in told
    BY <1>3 DEF ZCommit, ZaloInv, ZTypeOK, Trans
  <2>3. QED
    BY <2>1, <2>2 DEF Untouched
<1>4. \A p \in Orders : calm'[p] =>
         /\ calm[p] /\ Peace(p)'
         /\ Untouched(p) \/ (CalmOrder(p)' /\ \E y \in {z} : ZBusy(y) /\ zjob[y].order = p)
  <2>1. \A p \in Orders : p = o /\ calm'[p] => CalmOrder(p)'
    BY CommittedOrder
  <2>2. QED
    BY <1>1, <1>3, <2>1 DEF Watch
<1>5. {z} \in SUBSET Callers /\ {} \in SUBSET Requests
  OBVIOUS
<1>6. \A y \in {z} : ~ZBusy(y)'
  BY <1>1, IdleType DEF ZBusy
<1>7. QED
  BY <1>1, <1>4, <1>5, <1>6, CalmFrame

\* Steps that no request takes.
LEMMA CalmStill ==
    ASSUME ZaloInv, LifecycleInv, ZaloCalmInv,
           UNCHANGED <<vars, opt, expiry, zjob, stale, told, calm>>,
           \A t \in Trans : trans'[t] \notin {"none", "MADE"} => trans[t] \notin {"none", "MADE"}
    PROVE  ZaloCalmInv'
<1>1. UNCHANGED <<live, order, export, credited, job, seen, clean>>
  BY DEF vars
<1>2. \A o \in Orders : Untouched(o)
  BY <1>1 DEF Untouched, Trans
<1>3. \A o \in Orders : calm'[o] => calm[o] /\ Peace(o)'
  BY <1>1 DEF ZaloCalmInv, Peace, Alone, Busy, ZBusy
<1>4. {} \in SUBSET Callers /\ {} \in SUBSET Requests
  OBVIOUS
<1>5. \A o \in Orders : calm'[o] =>
         /\ calm[o] /\ Peace(o)'
         /\ \/ Untouched(o)
            \/ /\ CalmOrder(o)'
               /\ \/ \E z \in {} : ZBusy(z) /\ zjob[z].order = o
                  \/ \E r \in {} : Busy(r) /\ job[r].order = o
  BY <1>2, <1>3
<1>6. /\ \A z \in Callers \ {} : zjob'[z] = zjob[z]
      /\ \A r \in Requests \ {} : job'[r] = job[r] /\ stale'[r] = stale[r]
  BY <1>1
<1>7. QED
  BY <1>4, <1>5, <1>6, CalmFrame

---------------------------------------------------------------------------
(* The staff's requests on a calm order *)

\* A staff step that leaves the live orders' rows and expiries alone.
LEMMA CalmStaffMove ==
    ASSUME ZaloInv, LifecycleInv, ZaloCalmInv, NEW S \in SUBSET Requests, Staff,
           UNCHANGED expiry, \A o \in live : order'[o] = order[o],
           \A q \in Requests \ S : job'[q] = job[q],
           \A r \in S : Busy(r)' /\ calm'[job'[r].order] => CalmStaff(r)'
    PROVE  ZaloCalmInv'
<1>1. /\ UNCHANGED <<today, trans, lapsed, opt, zjob, told>> /\ Watch
      /\ \A q \in Requests : stale'[q] = NextStale(q)
  BY DEF Staff
<1>2. \A q \in Requests \ S : job'[q] = job[q] /\ stale'[q] = stale[q]
  BY <1>1 DEF NextStale
<1>3. \A o \in Orders : Untouched(o)
  BY <1>1 DEF Untouched
<1>4. {} \in SUBSET Callers /\ \A z \in Callers \ {} : zjob'[z] = zjob[z]
  BY <1>1
<1>5. QED
  BY <1>1, <1>2, <1>3, <1>4, CalmerFrame

LEMMA OneCalmStaffMove ==
    ASSUME ZaloInv, LifecycleInv, ZaloCalmInv, NEW r \in Requests, Staff,
           UNCHANGED expiry, \A o \in live : order'[o] = order[o],
           \A q \in Requests \ {r} : job'[q] = job[q],
           Busy(r)' /\ calm'[job'[r].order] => CalmStaff(r)'
    PROVE  ZaloCalmInv'
<1>1. {r} \in SUBSET Requests
      /\ \A q \in {r} : Busy(q)' /\ calm'[job'[q].order] => CalmStaff(q)'
  OBVIOUS
<1>2. QED
  BY <1>1, CalmStaffMove

LEMMA CalmHandle ==
    ASSUME ZaloInv, LifecycleInv, ZaloCalmInv, NEW r \in Requests, NEW o \in Orders,
           Handle(r, o), Staff, UNCHANGED expiry
    PROVE  ZaloCalmInv'
<1>1. PICK op, e : /\ Hold(r, o, op, e)
                   /\ order[o].payment_status = "PAID" => e.payment_status = "PAID"
  BY HandleKeepsPaid
<1> DEFINE j == [IdleJob EXCEPT
                   !.phase = "loaded", !.op = op, !.order = o, !.entity = e,
                   !.exported = LoadsAll(op) /\ export[o] = "linked",
                   !.saves = Saves(op)]
<1>2. /\ ~Busy(r) /\ job' = [job EXCEPT ![r] = j]
      /\ UNCHANGED <<live, order, export, credited, seen>>
  BY <1>1 DEF Hold
<1>3. j.phase = "loaded" /\ j.op = op /\ j.order = o /\ j.entity = e
  BY DEF IdleJob
<1> HIDE DEF j
<1>4. job'[r] = j /\ \A q \in Requests \ {r} : job'[q] = job[q]
  BY <1>2 DEF LifecycleInv, TypeOK
<1>5. stale'[r].copy = expiry[o]
  <2>1. j # job[r]
    BY <1>2, <1>3 DEF Busy
  <2>2. stale'[r] = NextStale(r)
    BY DEF Staff
  <2>3. QED
    BY <1>2, <1>3, <1>4, <2>1, <2>2 DEF NextStale
<1>6. CalmStaff(r)'
  BY <1>1, <1>2, <1>3, <1>4, <1>5 DEF CalmStaff
<1>7. QED
  BY <1>2, <1>4, <1>6, OneCalmStaffMove

LEMMA CalmStaffDiff ==
    ASSUME ZaloInv, LifecycleInv, ZaloCalmInv, NEW r \in Requests,
           Diff(r) \/ Resave(r), Staff, UNCHANGED expiry
    PROVE  ZaloCalmInv'
<1> DEFINE i == job[r]
<1>1. Busy(r) /\ i \in Job /\ i.order \in Orders
  BY DEF Diff, Resave, Busy, LifecycleInv, TypeOK, JobInv
<1>2. PICK j : /\ job' = [job EXCEPT ![r] = j]
               /\ j.order = i.order /\ j.entity = i.entity
               /\ j.phase \in {"loaded", "diffed"} \ {i.phase}
  <2>1. CASE Diff(r)
    <3>1. /\ Compared(i).order = i.order /\ Compared(i).entity = i.entity
          /\ Compared(i).phase = "diffed"
      BY <1>1 DEF Compared, Job
    <3>2. QED
      BY <2>1, <3>1 DEF Diff
  <2>2. CASE Resave(r)
    <3> DEFINE j == [i EXCEPT !.phase = "loaded", !.dirty = {}, !.saves = 1,
                              !.credits = Credits(i)]
    <3>1. job' = [job EXCEPT ![r] = j] /\ i.phase = "diffed"
      BY <2>2 DEF Resave
    <3>2. j.order = i.order /\ j.entity = i.entity /\ j.phase = "loaded"
      BY <1>1 DEF Job
    <3> HIDE DEF j
    <3>3. QED
      BY <3>1, <3>2
  <2>3. QED
    BY <2>1, <2>2
<1>3. job'[r] = j /\ (\A q \in Requests \ {r} : job'[q] = job[q]) /\ UNCHANGED order
  BY <1>2 DEF LifecycleInv, TypeOK, Diff, Resave
<1>4. stale'[r].copy = stale[r].copy
  <2>1. j # i /\ j.phase # "idle" /\ stale'[r] = NextStale(r)
    BY <1>2 DEF Staff
  <2>2. stale[r] \in [copy: 0 .. MaxDay, dirty: BOOLEAN]
    BY DEF ZaloInv, ZTypeOK
  <2>3. QED
    BY <1>1, <1>3, <2>1, <2>2 DEF NextStale
<1>5. calm'[i.order] => CalmStaff(r)
  BY <1>1 DEF Staff, Watch, ZaloCalmInv
<1>6. calm'[i.order] => CalmStaff(r)'
  BY <1>2, <1>3, <1>4, <1>5 DEF CalmStaff
<1>7. QED
  BY <1>2, <1>3, <1>6, OneCalmStaffMove

LEMMA CalmOtherStaff ==
    ASSUME ZaloInv, LifecycleInv, ZaloCalmInv, Staff, UNCHANGED expiry,
           \/ \E r \in Requests : Abort(r)
           \/ \E o \in Orders : RemoveExport(o) \/ \E m \in Methods : CreateOrder(o, m)
    PROVE  ZaloCalmInv'
<1>1. ASSUME NEW r \in Requests, Abort(r)
      PROVE  ZaloCalmInv'
  <2>1. /\ job'[r] = IdleJob /\ UNCHANGED order
        /\ \A q \in Requests \ {r} : job'[q] = job[q]
    BY <1>1 DEF Abort, LifecycleInv, TypeOK
  <2>2. ~Busy(r)'
    BY <2>1 DEF Busy, IdleJob
  <2>3. QED
    BY <2>1, <2>2, OneCalmStaffMove
<1>2. ASSUME NEW o \in Orders, RemoveExport(o) \/ \E m \in Methods : CreateOrder(o, m)
      PROVE  ZaloCalmInv'
  <2>1. UNCHANGED job
    BY <1>2 DEF RemoveExport, CreateOrder
  <2>2. \A u \in live : order'[u] = order[u]
    <3>1. CASE RemoveExport(o)
      BY <3>1 DEF RemoveExport
    <3>2. ASSUME NEW m \in Methods, CreateOrder(o, m)
          PROVE  \A u \in live : order'[u] = order[u]
      <4>1. o \notin live
        BY <3>2 DEF CreateOrder, LifecycleInv, StatusTrail
      <4>2. QED
        BY <3>2, <4>1 DEF CreateOrder, LifecycleInv, TypeOK
    <3>3. QED
      BY <1>2, <3>1, <3>2
  <2>3. {} \in SUBSET Requests
    OBVIOUS
  <2>4. QED
    BY <2>1, <2>2, <2>3, CalmStaffMove
<1>3. QED
  BY <1>1, <1>2

\* A commit writes the payment and the expiry that its copy knows of.
LEMMA CalmStaffCommit ==
    ASSUME ZaloInv, LifecycleInv, ZaloCalmInv, NEW r \in Requests, Commit(r), Staff,
           expiry' = IF stale[r].dirty
                       THEN [expiry EXCEPT ![job[r].order] = stale[r].copy]
                       ELSE expiry
    PROVE  ZaloCalmInv'
<1> DEFINE j == job[r]
           u == j.order
<1>1. Busy(r) /\ u \in live /\ u \in Orders
  BY DEF Commit, Busy, ZaloInv, StaffHonest, ZTypeOK, TypeOK
<1>2. /\ order'[u] = SavedRow(j) /\ \A o \in Orders \ {u} : order'[o] = order[o]
      /\ job'[r] = IdleJob /\ \A q \in Requests \ {r} : job'[q] = job[q]
  BY <1>1 DEF Commit, LifecycleInv, TypeOK
<1>3. UNCHANGED <<trans, opt, zjob, told>> /\ Watch
  BY DEF Staff
<1>4. \A q \in Requests \ {r} : job'[q] = job[q] /\ stale'[q] = stale[q]
  BY <1>2 DEF Staff, NextStale
<1>5. /\ \A o \in Orders \ {u} : expiry'[o] = expiry[o]
      /\ expiry'[u] \in {expiry[u], stale[r].copy}
  BY <1>1 DEF ZaloInv, ZTypeOK
<1>6. \A o \in Orders \ {u} : Untouched(o)
  BY <1>2, <1>3, <1>5 DEF Untouched
<1>7. ASSUME NEW o \in Orders, o = u, calm'[o]
      PROVE  CalmOrder(o)'
  <2>1. calm[o] /\ CalmOrder(o) /\ CalmStaff(r)
    BY <1>1, <1>3, <1>7 DEF Watch, ZaloCalmInv
  <2>2. expiry'[o] = expiry[o]
    BY <1>5, <1>7, <2>1 DEF CalmStaff
  <2>3. order[o].payment_status = "PAID" => order'[o].payment_status = "PAID"
    <3>1. order[o].payment_status = "PAID" => SavedRow(j).payment_status = "PAID"
      BY <1>7, <2>1 DEF SavedRow, CalmStaff
    <3>2. QED
      BY <1>2, <1>7, <3>1
  <2>4. QED
    BY <1>3, <2>1, <2>2, <2>3 DEF CalmOrder
<1>8. {} \in SUBSET Callers /\ {r} \in SUBSET Requests
  OBVIOUS
<1>9. \A q \in {r} : ~Busy(q)'
  BY <1>2 DEF Busy, IdleJob
<1>10. \A o \in Orders : calm'[o] =>
          /\ calm[o] /\ Peace(o)'
          /\ Untouched(o) \/ (CalmOrder(o)' /\ \E q \in {r} : Busy(q) /\ job[q].order = o)
  BY <1>1, <1>3, <1>6, <1>7 DEF Watch
<1>11. \A z \in Callers \ {} : zjob'[z] = zjob[z]
  BY <1>3
<1>12. QED
  BY <1>4, <1>8, <1>9, <1>10, <1>11, CalmFrame

LEMMA CalmStaffStep ==
    ASSUME ZaloInv, LifecycleInv, ZaloCalmInv, Staff
    PROVE  ZaloCalmInv'
<1>1. CASE StaffStep /\ UNCHANGED expiry
  <2>1. "remove" \notin Ops
    BY ZaloAssumption
  <2>2. \A o \in Orders : ~Remove(o)
    BY <2>1 DEF Remove
  <2>3. QED
    BY <1>1, <2>2, CalmHandle, CalmStaffDiff, CalmOtherStaff DEF StaffStep
<1>2. ASSUME NEW r \in Requests, Commit(r),
             expiry' = IF stale[r].dirty
                         THEN [expiry EXCEPT ![job[r].order] = stale[r].copy]
                         ELSE expiry
      PROVE  ZaloCalmInv'
  BY <1>2, CalmStaffCommit
<1>3. QED
  BY <1>1, <1>2 DEF Staff

---------------------------------------------------------------------------

LEMMA CalmNext ==
    ZaloInv /\ LifecycleInv /\ ZaloCalmInv /\ [ZNext]_allvars => ZaloCalmInv'
<1> SUFFICES ASSUME ZaloInv, LifecycleInv, ZaloCalmInv, [ZNext]_allvars
             PROVE  ZaloCalmInv'
  OBVIOUS
<1>1. CASE UNCHANGED allvars
  BY <1>1, CalmStill DEF allvars, zvars
<1>2. ASSUME NEW t \in Trans, Pay(t) \/ Decline(t)
      PROVE  ZaloCalmInv'
  <2>1. UNCHANGED <<vars, opt, expiry, zjob, stale, told, calm>>
    BY <1>2 DEF Pay, Decline, SettleTrans, Database
  <2>2. \A u \in Trans : trans'[u] \notin {"none", "MADE"} => trans[u] \notin {"none", "MADE"}
    BY <1>2 DEF Pay, Decline, SettleTrans, ZaloInv, ZTypeOK
  <2>3. QED
    BY <2>1, <2>2, CalmStill
<1>3. ASSUME NextDay \/ \E t \in Trans : Lapse(t)
      PROVE  ZaloCalmInv'
  <2>1. UNCHANGED <<vars, opt, expiry, zjob, stale, told, calm>> /\ UNCHANGED trans
    BY <1>3 DEF NextDay, Lapse
  <2>2. QED
    BY <2>1, CalmStill
<1>4. ASSUME NEW z \in Callers,
             \/ \E o \in Orders : CreateLoad(z, o) \/ Callback(z, o) \/ CheckLoad(z, o)
             \/ CreateAnswer(z) \/ CheckAnswer(z) \/ CheckUnknown(z)
             \/ ZDiff(z) \/ ZCommit(z) \/ ZAbort(z)
      PROVE  ZaloCalmInv'
  <2>1. CASE ZAbort(z)
    <3>1. UNCHANGED <<vars, opt, expiry, stale, told>> /\ UNCHANGED trans
      BY <2>1 DEF ZAbort, Database
    <3>2. QED
      BY <2>1, <3>1, CalmMove, IdleType DEF ZAbort
  <2>2. QED
    BY <1>4, <2>1, CalmLoads, CalmAnswers, CalmDiff, CalmCommit
<1>5. QED
  BY <1>1, <1>2, <1>3, <1>4, CalmStaffStep DEF ZNext, ZStep

LEMMA CalmInit == ZInit => ZaloCalmInv
<1> SUFFICES ASSUME ZInit PROVE ZaloCalmInv
  OBVIOUS
<1>1. \A z \in Callers : ~ZBusy(z)
  BY IdleType DEF ZInit, ZBusy
<1>2. \A r \in Requests : ~Busy(r)
  BY DEF ZInit, Init, Busy, IdleJob
<1>3. \A o \in Orders : CalmOrder(o)
  BY DEF ZInit, CalmOrder, NoOptions, Trans
<1>4. QED
  BY <1>1, <1>2, <1>3 DEF ZaloCalmInv, Peace, Alone

\* Whoever works on an order whose requests took turns holds its options, its
\* expiry and its payment as the tables have them (zalo-payment.service.ts).
THEOREM ZaloCalmInvariant == ZSpec => []ZaloCalmInv
<1>1. ZInit => ZaloInv /\ LifecycleInv /\ ZaloCalmInv
  BY ZInitInv, InitInv, CalmInit DEF ZInit
<1>2. ZaloInv /\ LifecycleInv /\ ZaloCalmInv /\ [ZNext]_allvars
         => (ZaloInv /\ LifecycleInv /\ ZaloCalmInv)'
  BY ZNextInv, CalmNext
<1>3. QED
  BY <1>1, <1>2, PTL DEF ZSpec

\* A payment that a callback or a check recorded keeps showing, with both of
\* the order's option rows, if requests on the order took turns.
THEOREM ZaloCalmMoneyShows == ZSpec => []CalmMoneyShows
<1>1. ZaloCalmInv => CalmMoneyShows
  BY DEF ZaloCalmInv, CalmOrder, CalmMoneyShows
<1>2. QED
  BY <1>1, ZaloCalmInvariant, PTL

\* The payment that a customer can still pay for is the one its order points
\* at, if requests on the order took turns (createOrder, verifyCallback).
THEOREM ZaloCalmLinkIsKnown == ZSpec => []CalmLinkIsKnown
<1>1. ZaloCalmInv => CalmLinkIsKnown
  BY DEF ZaloCalmInv, CalmOrder, CalmLinkIsKnown
<1>2. QED
  BY <1>1, ZaloCalmInvariant, PTL


===========================================================================
