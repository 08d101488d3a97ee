----------------------- MODULE PayosPayment_proofs -----------------------
(***************************************************************************)
(* PayosInv is an inductive invariant of PayosPayment, and every step of   *)
(* PayosPayment is a step of OrderLifecycle or leaves the orders alone,    *)
(* for any number of orders, codes and requests in flight.                 *)
(*                                                                         *)
(* The argument.  A link leaves PENDING once and for all, so an outcome    *)
(* that a request read from the gateway stays the link's outcome however   *)
(* long the request holds it; what a notification claimed, sent by PayOS   *)
(* or not, is kept in strays; and the orders' past only grows, so the      *)
(* status of a stale copy stays one that the order had.                    *)
(***************************************************************************)
EXTENDS PayosPayment, OrderLifecycle_proofs

\* What no step undoes: rows and links exist for good, the past grows, and an
\* outcome is final.
Grows ==
    /\ live \subseteq live'
    /\ \A o \in Orders : seen[o] \subseteq seen'[o]
    /\ strays \subseteq strays'
    /\ \A c \in Codes :
          /\ txn[c].status # "none" => txn'[c].status # "none"
          /\ link[c].status # "none" =>
                link'[c].status # "none" /\ link'[c].order = link[c].order
          /\ link[c].status \notin {"none", "PENDING"} => link'[c] = link[c]

\* The part of PayosInv about the two tables.
CodesInv ==
    \A c \in Codes :
       /\ txn[c].status \in {"none", "PENDING"} \cup Told(c)
       /\ txn[c].status # "none" => link[c].status # "none"
       /\ txn[c].order # NoOrder => txn[c].status # "none"
       /\ txn[c].order \in live \cup {NoOrder}
       /\ link[c].status # "none" <=> link[c].order \in Orders
       /\ c \in hooks => link[c].status \in {"PAID", "FAILED"}

\* The part about the lists that staff requests hold.
HeldInv ==
    \A r \in Requests : \A c \in held[r].list \cup held[r].adopts : txn[c].status # "none"

LEMMA PayosInvParts ==
    PayosInv <=> /\ PTypeOK
                 /\ CodesInv
                 /\ HeldInv
                 /\ \A p \in Payers : PBusy(p) => PJobInv(pjob[p])
BY DEF PayosInv, CodesInv, HeldInv, GatewayAgreement

\* Lists that nobody touches stay as good as the table.
LEMMA HeldKept ==
    ASSUME PayosInv, Grows, UNCHANGED held
    PROVE  HeldInv'
<1>1. held \in [Requests -> Held] /\ HeldInv
  BY PayosInvParts DEF PTypeOK
<1>2. \A r \in Requests : held[r].list \subseteq Codes /\ held[r].adopts \subseteq Codes
  BY <1>1 DEF Held
<1>3. QED
  BY <1>1, <1>2 DEF HeldInv, Grows

\* What handlers were told stays told.
LEMMA TellsOn ==
    ASSUME Grows, NEW c \in Codes
    PROVE  Told(c) \subseteq {"none", "PENDING"} \cup Told(c)'
BY DEF Grows, Told

\* What a request holds stays admissible as the system grows.
LEMMA PJobKept ==
    ASSUME PayosInv, Grows, NEW p \in Payers, PBusy(p), pjob'[p] = pjob[p]
    PROVE  PJobInv(pjob[p])'
<1>1. pjob[p] \in PJob /\ PJobInv(pjob[p])
  BY DEF PayosInv, PTypeOK
<1>2. pjob[p].status # "none" /\ pjob[p].phase \in {"calling", "loaded", "diffed"}
  BY <1>1 DEF PJob, PaymentStatus, PBusy
<1>3. QED
  BY <1>1, <1>2, TellsOn DEF PJobInv, Grows

\* It is enough to look at the tables and at the request that moved.
LEMMA PFrame ==
    ASSUME PayosInv, Grows, PTypeOK', CodesInv', NEW p \in Payers,
           UNCHANGED held, \A q \in Payers \ {p} : pjob'[q] = pjob[q],
           PBusy(p)' => PJobInv(pjob[p])'
    PROVE  PayosInv' /\ Grows
<1>1. ASSUME NEW q \in Payers \ {p}, PBusy(q)'
      PROVE  PJobInv(pjob[q])'
  <2>1. pjob'[q] = pjob[q] /\ PBusy(q)
    BY <1>1 DEF PBusy
  <2>2. QED
    BY <2>1, PJobKept
<1>2. \A q \in Payers : PBusy(q)' => PJobInv(pjob[q])'
  BY <1>1
<1>3. GatewayAgreement'
  BY DEF CodesInv, GatewayAgreement
<1>4. QED
  BY <1>2, <1>3, HeldKept DEF PayosInv, CodesInv, HeldInv

\* A step that only moves request p on, to something admissible.
LEMMA MoveInv ==
    ASSUME PayosInv, NEW p \in Payers, UNCHANGED <<vars, link, txn, hooks, strays, held>>, Watch,
           \E j \in PJob : Put(p, j) /\ (j.phase # "idle" => PJobInv(j))
    PROVE  PayosInv' /\ Grows
<1>1. PICK j \in PJob : Put(p, j) /\ (j.phase # "idle" => PJobInv(j))
  OBVIOUS
<1>2. PTypeOK
  BY DEF PayosInv
<1>3. pjob'[p] = j /\ \A q \in Payers \ {p} : pjob'[q] = pjob[q]
  BY <1>1, <1>2 DEF Put, PTypeOK
<1>4. UNCHANGED <<live, order, export, credited, job, seen, clean>>
  BY DEF vars
<1>5. PTypeOK'
  BY <1>1, <1>2, <1>4 DEF Put, PTypeOK, TypeOK, Watch
<1>6. Grows /\ CodesInv'
  BY <1>4, PayosInvParts DEF Grows, CodesInv, Told
<1>7. PBusy(p)' => PJobInv(pjob[p])'
  BY <1>1, <1>3, <1>4 DEF PBusy, PJobInv, Told
<1>8. QED
  BY <1>3, <1>5, <1>6, <1>7, PFrame

\* What the rows of an order that exists are good for.
LEMMA OrderFacts ==
    ASSUME LifecycleInv, NEW o \in live
    PROVE  o \in Orders /\ order[o] \in Row /\ order[o].order_status \in seen[o]
BY DEF LifecycleInv, TypeOK, StatusTrail

LEMMA IdleType == IdlePJob \in PJob
BY DEF IdlePJob, PJob, NewRow, Row, OrderStatus, PaymentStatus

LEMMA CreateLoadInv ==
    ASSUME PayosInv, LifecycleInv, NEW p \in Payers, NEW o \in Orders, CreateLoad(p, o)
    PROVE  PayosInv' /\ Grows
<1> DEFINE j == [IdlePJob EXCEPT !.phase = "calling", !.op = "create",
                                 !.order = o, !.entity = order[o]]
<1>1. o \in live /\ order[o].paymentMethod = "PAYOS" /\ Put(p, j)
  BY DEF CreateLoad
<1>2. order[o] \in Row /\ order[o].order_status \in seen[o]
  BY <1>1, OrderFacts
<1>3. /\ j \in PJob
      /\ j.phase = "calling" /\ j.op = "create" /\ j.order = o
      /\ j.entity = order[o] /\ j.status = "PENDING" /\ j.dirty = {}
  BY <1>2, IdleType DEF PJob, IdlePJob
<1> HIDE DEF j
<1>4. PJobInv(j)
  BY <1>1, <1>2, <1>3 DEF PJobInv
<1>5. QED
  BY <1>1, <1>3, <1>4, MoveInv DEF CreateLoad

LEMMA CancelLoadInv ==
    ASSUME PayosInv, LifecycleInv, NEW p \in Payers, CancelLoad(p)
    PROVE  PayosInv' /\ Grows
<1> DEFINE i == pjob[p]
           o == txn[i.code].order
           e == [order[o] EXCEPT !.order_status = "CANCELLED",
                                 !.payment_status = "CANCELLED"]
           j == [i EXCEPT !.phase = "loaded", !.order = o, !.status = "CANCELLED",
                          !.entity = e]
<1>1. i.phase = "calling" /\ i.op = "cancelPay" /\ o # NoOrder /\ Put(p, j)
  BY DEF CancelLoad
<1>2. i \in PJob /\ PJobInv(i)
  BY <1>1 DEF PayosInv, PTypeOK, PBusy
<1>3. i.code \in Codes /\ txn[i.code].status # "none" /\ link[i.code].status = "CANCELLED"
  BY <1>1, <1>2 DEF PJobInv
<1>4. o \in live
  BY <1>1, <1>3, PayosInvParts DEF CodesInv
<1>5. o \in Orders /\ order[o] \in Row
  BY <1>4, OrderFacts
<1>6. e \in Row /\ e.order_status = "CANCELLED"
  BY <1>5 DEF Row, OrderStatus, PaymentStatus
<1> HIDE DEF e
<1>7. /\ j \in PJob
      /\ j.phase = "loaded" /\ j.op = "cancelPay" /\ j.order = o /\ j.code = i.code
      /\ j.entity = e /\ j.status = "CANCELLED" /\ j.dirty = i.dirty
  BY <1>1, <1>2, <1>5, <1>6 DEF PJob, PaymentStatus
<1>8. "paymentMethod" \notin j.dirty
  BY <1>1, <1>2, <1>7 DEF PJobInv
<1> HIDE DEF j
<1>9. PJobInv(j)
  BY <1>3, <1>4, <1>5, <1>6, <1>7, <1>8 DEF PJobInv, Told
<1>10. QED
  BY <1>1, <1>7, <1>9, MoveInv DEF CancelLoad

LEMMA NotifiedInv ==
    ASSUME PayosInv, LifecycleInv, NEW p \in Payers, NEW c \in Codes,
           NEW op \in {"hook", "stray"}, NEW claim \in {"PAID", "FAILED"},
           Notified(p, c, op, claim), claim \in Told(c)', Grows,
           CodesInv', strays' \subseteq Unsent, UNCHANGED hooks
    PROVE  PayosInv' /\ Grows
<1> DEFINE o == txn[c].order
           e == HookRow(order[o], claim = "PAID")
           j == [IdlePJob EXCEPT !.phase = "loaded", !.op = op, !.code = c,
                                 !.order = o, !.entity = e, !.status = claim]
<1>1. /\ o # NoOrder /\ Put(p, j) /\ Watch
      /\ UNCHANGED <<live, order, export, credited, job, seen, clean, link, txn, held>>
  BY DEF Notified, vars
<1>2. o \in live /\ txn[c].status # "none" /\ link[c].status # "none"
  BY <1>1, PayosInvParts DEF CodesInv
<1>3. o \in Orders /\ order[o] \in Row /\ order[o].order_status \in seen[o]
  BY <1>2, OrderFacts
<1>4. e \in Row /\ e.order_status \in {order[o].order_status, "CANCELLED"}
  BY <1>3 DEF HookRow, Row, OrderStatus, PaymentStatus
<1>5. claim \in PaymentStatus
  BY DEF PaymentStatus
<1> HIDE DEF e
<1>6. /\ j \in PJob
      /\ j.phase = "loaded" /\ j.op = op /\ j.order = o /\ j.code = c
      /\ j.entity = e /\ j.status = claim /\ j.dirty = {}
  BY <1>3, <1>4, <1>5, IdleType DEF PJob, IdlePJob
<1> HIDE DEF j
<1>7. pjob'[p] = j /\ \A q \in Payers \ {p} : pjob'[q] = pjob[q]
  BY <1>1 DEF Put, PayosInv, PTypeOK
<1>8. PTypeOK'
  BY <1>1, <1>6 DEF Put, PayosInv, PTypeOK, TypeOK, Watch
<1>9. PJobInv(pjob[p])'
  BY <1>1, <1>2, <1>3, <1>4, <1>6, <1>7 DEF PJobInv
<1>10. QED
  BY <1>1, <1>7, <1>8, <1>9, PFrame

LEMMA HookInv ==
    ASSUME PayosInv, LifecycleInv, NEW p \in Payers, NEW c \in Codes, Hook(p, c)
    PROVE  PayosInv' /\ Grows
<1>1. /\ UNCHANGED <<live, seen, link, txn, hooks, strays>>
      /\ Notified(p, c, "hook", link[c].status)
  BY DEF Hook, Notified, vars
<1>2. link[c].status \in {"PAID", "FAILED"} /\ CodesInv /\ strays \subseteq Unsent
  BY PayosInvParts DEF Hook, CodesInv, PTypeOK
<1>3. CodesInv' /\ Grows /\ link[c].status \in Told(c)'
  BY <1>1, <1>2 DEF CodesInv, Grows, Told
<1>4. QED
  BY <1>1, <1>2, <1>3, NotifiedInv

LEMMA StrayHookInv ==
    ASSUME PayosInv, LifecycleInv, NEW p \in Payers, NEW n \in Unsent,
           StrayHook(p, n[1], n[2])
    PROVE  PayosInv' /\ Grows
<1> DEFINE c == n[1]
           claim == n[2]
<1>1. c \in Codes /\ claim \in {"PAID", "FAILED"} /\ <<c, claim>> = n
  BY PayosAssumption
<1> HIDE DEF c, claim
<1>2. /\ UNCHANGED <<live, seen, link, txn, hooks>>
      /\ strays' = strays \cup {<<c, claim>>}
      /\ Notified(p, c, "stray", claim)
  BY DEF StrayHook, Notified, vars, c, claim
<1>3. CodesInv /\ strays \subseteq Unsent
  BY PayosInvParts DEF PTypeOK
<1>4. \A d \in Codes : Told(d) \subseteq Told(d)'
  BY <1>2 DEF Told
<1>5. CodesInv' /\ Grows
  BY <1>2, <1>3, <1>4 DEF CodesInv, Grows
<1>6. claim \in Told(c)' /\ strays' \subseteq Unsent
  BY <1>1, <1>2, <1>3 DEF Told
<1>7. QED
  BY <1>1, <1>2, <1>5, <1>6, NotifiedInv

LEMMA CheckLoadInv ==
    ASSUME PayosInv, LifecycleInv, NEW p \in Payers, NEW c \in Codes, CheckLoad(p, c)
    PROVE  PayosInv' /\ Grows
<1> DEFINE o == txn[c].order
           j == [IdlePJob EXCEPT !.phase = "calling", !.op = "check", !.code = c,
                                 !.order = o, !.entity = order[o],
                                 !.status = txn[c].status]
<1>1. o # NoOrder /\ Put(p, j)
  BY DEF CheckLoad
<1>2. /\ o \in live /\ txn[c].status # "none"
      /\ txn[c].status \in {"PENDING"} \cup Told(c)
      /\ txn[c].status \in PaymentStatus
  BY <1>1, PayosInvParts DEF CodesInv, PTypeOK, Txn
<1>3. o \in Orders /\ order[o] \in Row /\ order[o].order_status \in seen[o]
  BY <1>2, OrderFacts
<1>4. /\ j \in PJob
      /\ j.phase = "calling" /\ j.op = "check" /\ j.order = o /\ j.code = c
      /\ j.entity = order[o] /\ j.status = txn[c].status /\ j.dirty = {}
  BY <1>2, <1>3, IdleType DEF PJob, IdlePJob
<1> HIDE DEF j
<1>5. PJobInv(j)
  BY <1>2, <1>3, <1>4 DEF PJobInv
<1>6. QED
  BY <1>1, <1>4, <1>5, MoveInv DEF CheckLoad

LEMMA CheckAnswerInv ==
    ASSUME PayosInv, NEW p \in Payers, CheckAnswer(p)
    PROVE  PayosInv' /\ Grows
<1> DEFINE i == pjob[p]
           s == link[i.code].status
           j == Answered(i, s)
<1>1. i.phase = "calling" /\ i.op = "check" /\ Put(p, IF s = "PENDING" THEN IdlePJob ELSE j)
  BY DEF CheckAnswer
<1>2. i \in PJob /\ PJobInv(i) /\ PTypeOK
  BY <1>1 DEF PayosInv, PTypeOK, PBusy
<1>3. i.code \in Codes /\ txn[i.code].status # "none" /\ s \in LinkStatus
  BY <1>1, <1>2 DEF PJobInv, PTypeOK, Link
<1>4. s # "none"
  BY <1>3, PayosInvParts DEF CodesInv
<1>5. s \in PaymentStatus
  BY <1>3, <1>4 DEF LinkStatus, PaymentStatus
<1>6. i.entity \in Row /\ i.status \in PaymentStatus
  BY <1>2 DEF PJob
<1>7. /\ j \in PJob
      /\ j.phase = "loaded" /\ j.op = "check" /\ j.order = i.order /\ j.code = i.code
      /\ j.entity.order_status \in {"PENDING", "CANCELLED"}
      /\ j.status \in {i.status, s} /\ j.dirty = i.dirty
  <2>1. CASE s = "PAID"
    <3> DEFINE e == [i.entity EXCEPT !.payment_status = "PAID", !.order_status = "PENDING"]
    <3>1. e \in Row /\ e.order_status = "PENDING"
      BY <1>6 DEF Row, OrderStatus, PaymentStatus
    <3>2. j = [i EXCEPT !.phase = "loaded", !.entity = e]
      BY <2>1, <1>2 DEF Answered, PJob
    <3> HIDE DEF e
    <3>3. QED
      BY <3>1, <3>2, <1>1, <1>2 DEF PJob
  <2>2. CASE s # "PAID"
    <3> DEFINE e == [i.entity EXCEPT !.payment_status = s, !.order_status = "CANCELLED"]
    <3>1. e \in Row /\ e.order_status = "CANCELLED"
      BY <1>5, <1>6 DEF Row, OrderStatus, PaymentStatus
    <3>2. j = [i EXCEPT !.phase = "loaded", !.entity = e, !.status = s]
      BY <2>2, <1>2 DEF Answered, PJob
    <3> HIDE DEF e
    <3>3. QED
      BY <3>1, <3>2, <1>1, <1>2, <1>5 DEF PJob
  <2>3. QED
    BY <2>1, <2>2
<1> HIDE DEF j
<1>8. PJobInv(j)
  BY <1>1, <1>2, <1>3, <1>4, <1>7 DEF PJobInv, Told
<1>9. CASE s = "PENDING"
  BY <1>9, <1>1, IdleType, MoveInv DEF CheckAnswer, IdlePJob
<1>10. CASE s # "PENDING"
  BY <1>10, <1>1, <1>7, <1>8, MoveInv DEF CheckAnswer
<1>11. QED
  BY <1>9, <1>10

LEMMA PDiffInv ==
    ASSUME PayosInv, NEW p \in Payers, PDiff(p)
    PROVE  PayosInv' /\ Grows
<1> DEFINE i == pjob[p]
           d == {c \in PSavedColumns(i.op) : i.entity[c] # order[i.order][c]}
           t == {f \in {"status", "order"} : txn[i.code][f] # i[f]}
           w == IF i.op = "create" THEN {c \in Codes : txn[c].order = i.order} ELSE {}
           j == [i EXCEPT !.phase = "diffed", !.dirty = d, !.tdirty = t, !.orphans = w]
<1>1. i.phase = "loaded" /\ Put(p, j)
  BY DEF PDiff
<1>2. i \in PJob /\ PJobInv(i)
  BY <1>1 DEF PayosInv, PTypeOK, PBusy
<1>3. /\ d \in SUBSET Columns /\ t \in SUBSET {"status", "order"} /\ w \in SUBSET Codes
      /\ "paymentMethod" \in d => i.op = "create"
  BY DEF PSavedColumns, Columns
<1> HIDE DEF d, t, w
<1>4. /\ j \in PJob
      /\ j.phase = "diffed" /\ j.op = i.op /\ j.order = i.order /\ j.code = i.code
      /\ j.entity = i.entity /\ j.status = i.status /\ j.dirty = d
  BY <1>2, <1>3 DEF PJob
<1> HIDE DEF j
<1>5. PJobInv(j)
  BY <1>1, <1>2, <1>3, <1>4 DEF PJobInv
<1>6. QED
  BY <1>1, <1>4, <1>5, MoveInv DEF PDiff

LEMMA PAbortInv ==
    ASSUME PayosInv, NEW p \in Payers, PAbort(p)
    PROVE  PayosInv' /\ Grows
<1>1. IdlePJob.phase = "idle"
  BY DEF IdlePJob
<1>2. QED
  BY <1>1, IdleType, MoveInv DEF PAbort

---------------------------------------------------------------------------
(* The steps that write the tables *)

LEMMA CreateLinkInv ==
    ASSUME PayosInv, NEW p \in Payers, NEW c \in Codes, CreateLink(p, c)
    PROVE  PayosInv' /\ Grows
<1> DEFINE i == pjob[p]
           e == [i.entity EXCEPT !.order_status = "PENDING", !.payment_status = "PENDING"]
           j == [i EXCEPT !.phase = "loaded", !.code = c, !.status = "PENDING",
                          !.entity = e]
           k == [i EXCEPT !.phase = "loaded", !.code = c, !.status = "PENDING",
                          !.entity.order_status = "PENDING",
                          !.entity.payment_status = "PENDING"]
<1>1. /\ i.phase = "calling" /\ i.op = "create" /\ link[c].status = "none"
      /\ link' = [link EXCEPT ![c] = [status |-> "PENDING", order |-> i.order]]
      /\ Put(p, k)
      /\ UNCHANGED <<live, order, export, credited, job, seen, clean, txn, hooks, strays, held>>
      /\ Watch
  BY DEF CreateLink, vars
<1>2. i \in PJob /\ PJobInv(i) /\ PTypeOK /\ CodesInv
  BY <1>1, PayosInvParts DEF PTypeOK, PBusy
<1>3. /\ i.order \in live /\ i.order \in Orders /\ i.entity \in Row
      /\ i.entity.paymentMethod = "PAYOS"
      /\ "paymentMethod" \in i.dirty => i.op = "create"
  BY <1>1, <1>2 DEF PJobInv, PJob
<1>4. e \in Row /\ e.order_status = "PENDING" /\ e.paymentMethod = "PAYOS"
  BY <1>3 DEF Row, OrderStatus, PaymentStatus
<1>5. k = j
  BY <1>2 DEF PJob
<1> HIDE DEF e, k
<1>6. /\ j \in PJob
      /\ j.phase = "loaded" /\ j.op = "create" /\ j.order = i.order /\ j.code = c
      /\ j.entity = e /\ j.status = "PENDING" /\ j.dirty = i.dirty
  BY <1>1, <1>2, <1>4 DEF PJob, PaymentStatus
<1> HIDE DEF j
<1>7. pjob' = [pjob EXCEPT ![p] = j]
  BY <1>1, <1>5 DEF Put
<1>8. pjob'[p] = j /\ \A q \in Payers \ {p} : pjob'[q] = pjob[q]
  BY <1>2, <1>7 DEF PTypeOK
<1>9. /\ link'[c] = [status |-> "PENDING", order |-> i.order]
      /\ \A b \in Codes \ {c} : link'[b] = link[b]
  BY <1>1, <1>2 DEF PTypeOK
<1>10. PTypeOK'
  <2>1. link' \in [Codes -> Link]
    BY <1>1, <1>2, <1>3 DEF PTypeOK, Link, LinkStatus
  <2>2. QED
    BY <2>1, <1>1, <1>2, <1>6, <1>7 DEF PTypeOK, TypeOK, Watch
<1>11. Grows
  BY <1>1, <1>9 DEF Grows
<1>12. CodesInv'
  BY <1>1, <1>2, <1>3, <1>9, <1>11, TellsOn DEF CodesInv
<1>13. PJobInv(pjob[p])'
  BY <1>1, <1>3, <1>4, <1>6, <1>8, <1>9 DEF PJobInv
<1>14. QED
  BY <1>1, <1>8, <1>10, <1>11, <1>12, <1>13, PFrame

LEMMA CancelLinkInv ==
    ASSUME PayosInv, NEW p \in Payers, NEW c \in Codes, CancelLink(p, c)
    PROVE  PayosInv' /\ Grows
<1> DEFINE o == link[c].order
           j == [IdlePJob EXCEPT !.phase = "calling", !.op = "cancelPay",
                                 !.code = c, !.order = o]
<1>1. /\ txn[c].status # "none" /\ link[c].status = "PENDING"
      /\ link' = [link EXCEPT ![c].status = "CANCELLED"]
      /\ pjob' = [pjob EXCEPT ![p] = j]
      /\ UNCHANGED <<live, order, export, credited, job, seen, clean, txn, hooks, strays, held>>
      /\ Watch
  BY DEF CancelLink, vars, Put
<1>2. PTypeOK /\ CodesInv
  BY PayosInvParts
<1>3. o \in Orders /\ link[c] \in Link
  BY <1>1, <1>2 DEF PTypeOK, CodesInv
<1>4. /\ j \in PJob
      /\ j.phase = "calling" /\ j.op = "cancelPay" /\ j.order = o /\ j.code = c
      /\ j.dirty = {}
  BY <1>3, IdleType DEF PJob, IdlePJob
<1> HIDE DEF j
<1>5. pjob'[p] = j /\ \A q \in Payers \ {p} : pjob'[q] = pjob[q]
  BY <1>1, <1>2 DEF PTypeOK
<1>6. /\ link'[c].status = "CANCELLED" /\ link'[c].order = o
      /\ \A b \in Codes \ {c} : link'[b] = link[b]
  BY <1>1, <1>2, <1>3 DEF PTypeOK, Link
<1>7. PTypeOK'
  <2>1. link' \in [Codes -> Link]
    BY <1>1, <1>2, <1>3 DEF PTypeOK, Link, LinkStatus
  <2>2. QED
    BY <2>1, <1>1, <1>2, <1>4 DEF PTypeOK, TypeOK, Watch
<1>8. Grows
  BY <1>1, <1>6 DEF Grows
<1>9. CodesInv'
  BY <1>1, <1>2, <1>3, <1>6, <1>8, TellsOn DEF CodesInv
<1>10. PJobInv(pjob[p])'
  BY <1>1, <1>3, <1>4, <1>5, <1>6 DEF PJobInv
<1>11. QED
  BY <1>1, <1>5, <1>7, <1>8, <1>9, <1>10, PFrame

\* A commit does to the order what OrderLifecycle lets a payment handler do.
LEMMA PCommitOrder ==
    ASSUME PayosInv, LifecycleInv, NEW p \in Payers, PCommit(p)
    PROVE  /\ pjob[p].order \in live /\ pjob[p].order \in Orders
           /\ PSavedRow(pjob[p]) \in Row
           /\ PaymentHandlerSave(pjob[p].order, PSavedRow(pjob[p]))
<1> DEFINE i == pjob[p]
           o == i.order
           row == PSavedRow(i)
<1>1. /\ i.phase = "diffed"
      /\ order' = [order EXCEPT ![o] = row]
      /\ seen' = [seen EXCEPT ![o] = @ \cup {row.order_status}]
      /\ clean' = [clean EXCEPT ![o] = FALSE]
      /\ UNCHANGED <<live, export, credited, job>>
  BY DEF PCommit
<1>2. i \in PJob /\ PJobInv(i)
  BY <1>1 DEF PayosInv, PTypeOK, PBusy
<1>3. o \in live /\ i.entity \in Row
  BY <1>1, <1>2 DEF PJobInv, PJob
<1>4. o \in Orders /\ order[o] \in Row /\ order[o].order_status \in seen[o]
  BY <1>3, OrderFacts
<1>5. /\ row.order_status \in {i.entity.order_status, order[o].order_status}
      /\ row.payment_status \in {i.entity.payment_status, order[o].payment_status}
      /\ row.paymentMethod = IF "paymentMethod" \in i.dirty
                               THEN i.entity.paymentMethod ELSE order[o].paymentMethod
      /\ row = [order_status |-> row.order_status,
                payment_status |-> row.payment_status,
                paymentMethod |-> row.paymentMethod]
  BY DEF PSavedRow
<1> HIDE DEF row
<1>6. row \in Row
  BY <1>3, <1>4, <1>5 DEF Row
<1>7. row.order_status \in seen[o] \cup {"PENDING", "CANCELLED"}
  BY <1>1, <1>2, <1>4, <1>5 DEF PJobInv
<1>8. row.paymentMethod \in Methods \cup {order[o].paymentMethod}
  BY <1>2, <1>5, PayosAssumption DEF PJobInv
<1>9. row.payment_status \in PaymentWrites
  BY <1>6, PayosAssumption DEF Row
<1>10. live \cup {o} = live
  BY <1>3
<1>11. PaymentHandlerSave(o, row)
  BY <1>1, <1>3, <1>4, <1>7, <1>8, <1>9, <1>10 DEF PaymentHandlerSave
<1>12. QED
  BY <1>3, <1>4, <1>6, <1>11 DEF row

LEMMA PCommitInv ==
    ASSUME PayosInv, LifecycleInv, NEW p \in Payers, PCommit(p)
    PROVE  PayosInv' /\ Grows
<1> DEFINE i == pjob[p]
           saved == PSavedTxn(i)
<1>1. /\ i.phase = "diffed"
      /\ txn' = [c \in Codes |->
                    IF c = i.code THEN saved
                    ELSE IF c \in i.orphans THEN [txn[c] EXCEPT !.order = NoOrder]
                    ELSE txn[c]]
      /\ hooks' \in {hooks} \cup (IF i.op = "hook" THEN {hooks \ {i.code}} ELSE {})
      /\ pjob' = [pjob EXCEPT ![p] = IdlePJob]
      /\ UNCHANGED <<live, link, strays, held>>
      /\ Watch
  BY DEF PCommit, Put
<1>2. i \in PJob /\ PJobInv(i) /\ PTypeOK /\ CodesInv
  BY <1>1, PayosInvParts DEF PTypeOK, PBusy
<1>3. /\ i.code \in Codes /\ link[i.code].status # "none"
      /\ i.status \in {"PENDING"} \cup Told(i.code) /\ i.status \in PaymentStatus
      /\ i.order \in live /\ i.order \in Orders
      /\ i.op # "create" => txn[i.code].status # "none"
      /\ txn[i.code] \in Txn
  BY <1>1, <1>2 DEF PJobInv, PJob, PTypeOK
<1>4. /\ saved.status \in {i.status, txn[i.code].status}
      /\ saved.order \in {i.order, txn[i.code].order}
      /\ i.op = "create" => saved.status = i.status
      /\ saved = [status |-> saved.status, order |-> saved.order]
  BY DEF PSavedTxn, LocksFirst
<1> HIDE DEF saved
<1>5. /\ saved \in Txn
      /\ saved.status \in {"PENDING"} \cup Told(i.code)
      /\ saved.status # "none"
      /\ saved.order \in live \cup {NoOrder}
  <2>1. i.status # "none"
    BY <1>3 DEF PaymentStatus
  <2>2. saved.status # "none"
    BY <2>1, <1>3, <1>4
  <2>3. QED
    BY <2>2, <1>2, <1>3, <1>4 DEF Txn, CodesInv
<1>6. \A c \in Codes :
         /\ txn'[c] \in Txn
         /\ c = i.code => txn'[c] = saved
         /\ c # i.code => /\ txn'[c].status = txn[c].status
                          /\ txn'[c].order \in {txn[c].order, NoOrder}
  BY <1>1, <1>2, <1>5 DEF PTypeOK, Txn
<1>7. txn' \in [Codes -> Txn]
  BY <1>1, <1>6
<1>8. PaymentHandlerSave(i.order, PSavedRow(i)) /\ PSavedRow(i) \in Row
  BY PCommitOrder
<1>9. LifecycleInv' /\ \A o \in Orders : seen[o] \subseteq seen'[o]
  BY <1>3, <1>8, PaymentHandlerSaveInv DEF PaymentHandlerSave, LifecycleInv, TypeOK
<1>10. PTypeOK'
  BY <1>1, <1>2, <1>7, <1>9, IdleType DEF PTypeOK, LifecycleInv, Watch
<1>11. Grows
  BY <1>1, <1>5, <1>6, <1>9 DEF Grows
<1>12. CodesInv'
  <2>1. \A c \in Codes : Told(c)' = Told(c)
    BY <1>1 DEF Told
  <2>2. QED
    BY <2>1, <1>1, <1>2, <1>3, <1>5, <1>6 DEF CodesInv
<1>13. ~PBusy(p)' /\ \A q \in Payers \ {p} : pjob'[q] = pjob[q]
  BY <1>1, <1>2 DEF PTypeOK, PBusy, IdlePJob
<1>14. QED
  BY <1>1, <1>10, <1>11, <1>12, <1>13, PFrame

\* A step that no payment request takes.
LEMMA PStill ==
    ASSUME PayosInv, Grows, PTypeOK', CodesInv', HeldInv', UNCHANGED pjob
    PROVE  PayosInv' /\ Grows
<1>1. \A q \in Payers : PBusy(q)' => PBusy(q) /\ pjob'[q] = pjob[q]
  BY DEF PBusy
<1>2. \A q \in Payers : PBusy(q)' => PJobInv(pjob[q])'
  BY <1>1, PJobKept
<1>3. GatewayAgreement'
  BY DEF CodesInv, GatewayAgreement
<1>4. QED
  BY <1>2, <1>3 DEF PayosInv, CodesInv, HeldInv

LEMMA SettleInv ==
    ASSUME PayosInv, NEW c \in Codes, NEW s \in {"PAID", "FAILED", "EXPIRED", "CANCELLED"},
           Settle(c, s), hooks' \in {hooks, hooks \cup {c}},
           s \in {"EXPIRED", "CANCELLED"} => hooks' = hooks
    PROVE  PayosInv' /\ Grows
<1>1. /\ txn[c].status # "none" /\ link[c].status = "PENDING"
      /\ link' = [link EXCEPT ![c].status = s]
      /\ UNCHANGED <<live, order, export, credited, job, seen, clean, txn, strays, pjob, held, calm>>
  BY DEF Settle, vars
<1>2. PTypeOK /\ CodesInv /\ link[c] \in Link
  BY PayosInvParts DEF PTypeOK
<1>3. /\ link'[c].status = s /\ link'[c].order = link[c].order
      /\ \A b \in Codes \ {c} : link'[b] = link[b]
  BY <1>1, <1>2 DEF PTypeOK, Link
<1>4. link' \in [Codes -> Link]
  BY <1>1, <1>2 DEF PTypeOK, Link, LinkStatus
<1>5. PTypeOK'
  BY <1>1, <1>2, <1>4 DEF PTypeOK, TypeOK
<1>6. Grows
  BY <1>1, <1>3 DEF Grows
<1>7. CodesInv'
  BY <1>1, <1>2, <1>3, <1>6, TellsOn DEF CodesInv
<1>8. QED
  BY <1>1, <1>5, <1>6, <1>7, HeldKept, PStill

\* What a staff request holds after a step is of the right type, and lists
\* transactions that exist.
LEMMA NextHeldGood ==
    ASSUME PayosInv, LifecycleInv', NEW r \in Requests
    PROVE  /\ NextHeld(r) \in Held
           /\ \A c \in NextHeld(r).list \cup NextHeld(r).adopts : txn[c].status # "none"
<1> DEFINE j == job'[r]
           has == OfOrder(j.order)
           good(h) == /\ h \in Held
                      /\ \A c \in h.list \cup h.adopts : txn[c].status # "none"
<1>1. held[r] \in Held /\ PTypeOK /\ CodesInv /\ HeldInv
  BY PayosInvParts DEF PTypeOK
<1>2. /\ held[r].list \in SUBSET Codes /\ held[r].orphans \in SUBSET Codes
      /\ held[r].adopts \in SUBSET Codes
      /\ \A c \in held[r].list \cup held[r].adopts : txn[c].status # "none"
  BY <1>1 DEF Held, HeldInv
<1>3. CASE j = job[r]
  BY <1>2, <1>1, <1>3 DEF NextHeld
<1>4. good(NothingHeld)
  BY DEF NothingHeld, Held
<1>5. CASE j.phase = "idle" \/ ~LoadsAll(j.op)
  BY <1>1, <1>2, <1>4, <1>5 DEF NextHeld
<1>6. CASE j # job[r] /\ j.phase # "idle" /\ LoadsAll(j.op)
  <2>1. j.order \in Orders
    BY <1>6 DEF LifecycleInv, JobInv, Busy
  <2>2. has \in SUBSET Codes /\ \A c \in has : txn[c].status # "none"
    BY <2>1, <1>1, LifecycleAssumption DEF OfOrder, CodesInv
  <2> HIDE DEF has
  <2>3. good([NothingHeld EXCEPT !.list = has])
    BY <2>2 DEF NothingHeld, Held
  <2>4. good([held[r] EXCEPT !.orphans = has \ held[r].list, !.adopts = held[r].list \ has])
    <3> DEFINE w == has \ held[r].list
               a == held[r].list \ has
               h == [held[r] EXCEPT !.orphans = w, !.adopts = a]
    <3>1. w \in SUBSET Codes /\ a \in SUBSET Codes
      BY <2>2, <1>2
    <3>2. \A c \in held[r].list \cup a : txn[c].status # "none"
      BY <1>2
    <3> HIDE DEF w, a
    <3>3. h \in Held /\ h.list = held[r].list /\ h.adopts = a
      BY <3>1, <1>1, <1>2 DEF Held
    <3> HIDE DEF h
    <3>4. good(h)
      BY <3>2, <3>3
    <3>5. QED
      BY <3>4 DEF h, w, a
  <2>5. good([NothingHeld EXCEPT !.list = held[r].list])
    BY <1>2 DEF NothingHeld, Held
  <2> HIDE DEF good
  <2>6. good(NextHeld(r))
    <3>1. NextHeld(r) = IF ~Busy(r) THEN [NothingHeld EXCEPT !.list = has]
             ELSE IF j.phase = "diffed"
               THEN [held[r] EXCEPT !.orphans = has \ held[r].list,
                                    !.adopts = held[r].list \ has]
               ELSE [NothingHeld EXCEPT !.list = held[r].list]
      BY <1>6 DEF NextHeld, has
    <3>2. QED
      BY <3>1, <2>3, <2>4, <2>5
  <2>7. QED
    BY <2>6 DEF good
<1>7. QED
  BY <1>3, <1>5, <1>6

\* What a staff request's commit may do to a transaction's order.
Relinks(c) ==
    /\ txn'[c].status = txn[c].status
    /\ \/ txn'[c].order = NoOrder
       \/ txn'[c].order = txn[c].order
       \/ txn'[c].order \in live' /\ txn[c].status # "none"

LEMMA RegroupedGood ==
    ASSUME PayosInv, LifecycleInv, NEW r \in Requests, Commit(r), txn' = Regrouped(r)
    PROVE  txn' \in [Codes -> Txn] /\ \A c \in Codes : Relinks(c)
<1> DEFINE o == job[r].order
           again == LoadsAll(job[r].op) /\ Rewrites(job[r])
           orphans == IF again THEN OfOrder(o) \ held[r].list ELSE held[r].orphans
           adopts == IF again THEN held[r].list ELSE held[r].adopts
           to(c) == IF c \in orphans THEN NoOrder
                    ELSE IF c \in adopts THEN o ELSE txn[c].order
<1>1. o \in Orders /\ o \in live'
  BY DEF Commit, LifecycleInv, JobInv, Busy
<1>2. \A c \in adopts : txn[c].status # "none"
  BY PayosInvParts DEF HeldInv
<1>3. ASSUME NEW c \in Codes
      PROVE  \/ to(c) = NoOrder
             \/ to(c) = txn[c].order
             \/ to(c) = o /\ txn[c].status # "none"
  <2> HIDE DEF orphans, adopts
  <2>1. QED
    BY <1>2
<1>4. txn' = [c \in Codes |-> [txn[c] EXCEPT !.order = to(c)]]
  BY DEF Regrouped
<1> HIDE DEF to
<1>5. ASSUME NEW c \in Codes
      PROVE  txn'[c] \in Txn /\ txn'[c].status = txn[c].status /\ txn'[c].order = to(c)
  <2>1. txn[c] \in Txn
    BY PayosInvParts DEF PTypeOK
  <2>2. to(c) \in Orders \cup {NoOrder}
    BY <2>1, <1>1, <1>3 DEF Txn
  <2>3. txn'[c] = [txn[c] EXCEPT !.order = to(c)]
    BY <1>4
  <2>4. QED
    BY <2>1, <2>2, <2>3 DEF Txn
<1>6. txn' \in [Codes -> Txn]
  BY <1>4, <1>5
<1>7. QED
  BY <1>1, <1>3, <1>5, <1>6 DEF Relinks

LEMMA StaffInv ==
    ASSUME PayosInv, LifecycleInv, Staff
    PROVE  PayosInv' /\ Grows
<1>1. Watch /\ UNCHANGED <<link, hooks, strays, pjob>> /\ held' = [r \in Requests |-> NextHeld(r)]
  BY DEF Staff
<1>2. StaffNext
  BY DEF Staff, StaffNext
<1>3. LifecycleInv'
  BY <1>2, NextInv DEF Next
<1>4. PTypeOK /\ CodesInv
  BY PayosInvParts
<1>5. live \subseteq live' /\ \A o \in Orders : seen[o] \subseteq seen'[o]
  BY <1>2, StaffGrows, PayosAssumption
<1>6. txn' \in [Codes -> Txn] /\ \A c \in Codes : Relinks(c)
  <2>1. CASE UNCHANGED txn
    BY <2>1, <1>4 DEF PTypeOK, Relinks
  <2>2. CASE ~UNCHANGED txn
    BY <2>2, RegroupedGood DEF Staff
  <2>3. QED
    BY <2>1, <2>2
<1>7. Grows
  BY <1>1, <1>5, <1>6 DEF Grows, Relinks
<1>8. CodesInv'
  BY <1>1, <1>4, <1>5, <1>6, <1>7, TellsOn DEF CodesInv, Relinks
<1>9. \A r \in Requests : /\ held'[r] \in Held
                          /\ \A c \in held'[r].list \cup held'[r].adopts : txn[c].status # "none"
  BY <1>1, <1>3, NextHeldGood
<1>10. held' \in [Requests -> Held]
  BY <1>1, <1>3, NextHeldGood
<1>11. HeldInv'
  <2>1. \A r \in Requests : held'[r].list \subseteq Codes /\ held'[r].adopts \subseteq Codes
    BY <1>9 DEF Held
  <2>2. QED
    BY <2>1, <1>6, <1>9 DEF HeldInv, Relinks
<1>12. PTypeOK'
  BY <1>1, <1>3, <1>4, <1>6, <1>10 DEF PTypeOK, LifecycleInv, Watch
<1>13. QED
  BY <1>1, <1>7, <1>8, <1>11, <1>12, PStill

---------------------------------------------------------------------------

\* Every step of the payment handlers is a step of OrderLifecycle or a stutter.
LEMMA StepImplements ==
    ASSUME PayosInv, LifecycleInv, [PNext]_allvars
    PROVE  [Next]_vars
<1>1. CASE Staff
  BY <1>1 DEF Staff, StaffNext, Next
<1>2. ASSUME NEW p \in Payers, PCommit(p)
      PROVE  Next
  BY <1>2, PCommitOrder DEF Next
<1>3. QED
  BY <1>1, <1>2 DEF PNext, allvars, CreateLoad, CreateLink, CancelLink, CancelLoad,
     Hook, StrayHook, Notified, HookKnown, CheckLoad, CheckAnswer, PDiff, PAbort, Pay, Decline, Expire, Leave, Settle

LEMMA PInitInv == PInit => PayosInv
<1> SUFFICES ASSUME PInit PROVE PayosInv
  OBVIOUS
<1>1. TypeOK
  BY InitInv DEF PInit, LifecycleInv
<1>2. PTypeOK
  BY <1>1, IdleType DEF PInit, PTypeOK, Link, LinkStatus, Txn, Held, NothingHeld
<1>3. CodesInv
  BY LifecycleAssumption DEF PInit, CodesInv, Told
<1>4. \A p \in Payers : ~PBusy(p)
  BY DEF PInit, PBusy, IdlePJob
<1>5. HeldInv
  BY DEF PInit, HeldInv, NothingHeld
<1>6. QED
  BY <1>2, <1>3, <1>4, <1>5, PayosInvParts

LEMMA PNextInv ==
    PayosInv /\ LifecycleInv /\ [PNext]_allvars => PayosInv' /\ LifecycleInv' /\ Grows
<1> SUFFICES ASSUME PayosInv, LifecycleInv, [PNext]_allvars
             PROVE  PayosInv' /\ LifecycleInv' /\ Grows
  OBVIOUS
<1>1. LifecycleInv'
  BY StepImplements, NextInv
<1>2. ASSUME NEW c \in Codes, HookKnown(c)
      PROVE  PayosInv' /\ Grows
  <2>1. /\ hooks' \subseteq hooks
        /\ UNCHANGED <<live, order, export, credited, job, seen, clean, link, txn, strays, pjob, held, calm>>
    BY <1>2 DEF HookKnown, vars
  <2>2. PTypeOK /\ CodesInv
    BY PayosInvParts
  <2>3. PTypeOK' /\ CodesInv' /\ Grows
    BY <2>1, <2>2 DEF PTypeOK, TypeOK, CodesInv, Grows, Told
  <2>4. QED
    BY <2>1, <2>3, HeldKept, PStill
<1>3. ASSUME NEW c \in Codes, Pay(c) \/ Decline(c) \/ Expire(c) \/ Leave(c)
      PROVE  PayosInv' /\ Grows
  BY <1>3, SettleInv DEF Pay, Decline, Expire, Leave
<1>4. CASE UNCHANGED allvars
  <2>1. UNCHANGED <<live, order, export, credited, job, seen, clean, link, txn, hooks, strays, pjob, held, calm>>
    BY <1>4 DEF allvars, vars, pvars
  <2>2. PTypeOK /\ CodesInv
    BY PayosInvParts
  <2>3. PTypeOK' /\ CodesInv' /\ Grows
    BY <2>1, <2>2 DEF PTypeOK, TypeOK, CodesInv, Grows, Told
  <2>4. QED
    BY <1>1, <2>1, <2>3, HeldKept, PStill
<1>5. QED
  BY <1>1, <1>2, <1>3, <1>4, StaffInv, CreateLoadInv, CreateLinkInv, CancelLinkInv,
     HookInv, StrayHookInv, CheckLoadInv, CancelLoadInv, CheckAnswerInv, PDiffInv, PCommitInv,
     PAbortInv DEF PNext

---------------------------------------------------------------------------
(* Money *)

\* Links keep their order, and paid ones stay paid.
LinksKept ==
    /\ PaidAsTold \subseteq PaidAsTold'
    /\ \A c \in Codes :
          link[c].status # "none" => link'[c].status # "none" /\ link'[c].order = link[c].order

LEMMA PaidStays ==
    ASSUME CodesInv, Grows
    PROVE  PaidAsTold \subseteq PaidAsTold'
<1>1. ASSUME NEW o \in Orders, NEW c \in Codes, link[c].order = o, "PAID" \in Told(c)
      PROVE  link'[c].order = o /\ "PAID" \in Told(c)'
  BY <1>1, TellsOn DEF CodesInv, Grows
<1>2. QED
  BY <1>1 DEF PaidAsTold

\* Rows and copies that stay keep their claims.
LEMMA StaffHonestKept ==
    ASSUME LifecycleInv, StaffHonest(PaidAsTold, Orders), Grows, LinksKept,
           UNCHANGED <<live, order, job>>
    PROVE  StaffHonest(PaidAsTold, Orders)'
<1>1. live \subseteq Orders
  BY DEF LifecycleInv, TypeOK
<1>2. QED
  BY <1>1 DEF StaffHonest, Honest, Grows, LinksKept, Busy

\* So does a payment request that did not move.
LEMMA PayerMoneyKept ==
    ASSUME PayosInv, LifecycleInv, Grows, LinksKept, NEW p \in Payers, PBusy(p),
           PayerMoney(pjob[p]), pjob'[p] = pjob[p]
    PROVE  PayerMoney(pjob[p])'
<1>1. pjob[p].order \in Orders
  BY DEF PayosInv, PJobInv
<1>2. QED
  BY <1>1 DEF PayerMoney, Honest, Grows, LinksKept

\* It is enough to look at the rows, the transactions, and the request that moved.
LEMMA MoneyFrame ==
    ASSUME PayosInv, PayosMoneyInv, LifecycleInv, Grows, LinksKept,
           StaffHonest(PaidAsTold, Orders)',
           \A c \in Codes : txn'[c].order \in {NoOrder, link'[c].order},
           UNCHANGED <<held, job>>,
           NEW p \in Payers, \A q \in Payers \ {p} : pjob'[q] = pjob[q],
           PBusy(p)' => PayerMoney(pjob[p])'
    PROVE  PayosMoneyInv'
<1>1. ASSUME NEW q \in Payers, PBusy(q)'
      PROVE  PayerMoney(pjob[q])'
  <2>1. CASE q # p
    <3>1. pjob'[q] = pjob[q] /\ PBusy(q)
      BY <1>1, <2>1 DEF PBusy
    <3>2. QED
      BY <3>1, PayerMoneyKept DEF PayosMoneyInv
  <2>2. QED
    BY <1>1, <2>1
<1>2. ASSUME NEW r \in Requests
      PROVE  /\ held'[r].adopts \subseteq held'[r].list
             /\ \A c \in held'[r].list : Busy(r)' /\ link'[c].order = job'[r].order
  <2>1. \A c \in held[r].list : c \in Codes /\ link[c].status # "none"
    <3>1. held[r] \in Held /\ HeldInv /\ CodesInv
      BY PayosInvParts DEF PTypeOK
    <3>2. QED
      BY <3>1 DEF Held, HeldInv, CodesInv
  <2>2. QED
    BY <2>1 DEF PayosMoneyInv, LinksKept, Busy
<1>3. QED
  BY <1>1, <1>2 DEF PayosMoneyInv

\* A step that only moves a payment request on.
LEMMA MoneyMove ==
    ASSUME PayosInv, PayosMoneyInv, LifecycleInv, Grows, NEW p \in Payers,
           UNCHANGED <<vars, link, txn, hooks, strays, held>>, NEW j, Put(p, j),
           j.phase # "idle" => PayerMoney(j)
    PROVE  PayosMoneyInv'
<1>1. UNCHANGED <<live, order, export, credited, job, seen, clean>>
  BY DEF vars
<1>2. pjob'[p] = j /\ \A q \in Payers \ {p} : pjob'[q] = pjob[q]
  BY DEF Put, PayosInv, PTypeOK
<1>3. LinksKept
  BY DEF LinksKept, PaidAsTold, Told
<1>4. StaffHonest(PaidAsTold, Orders)'
  BY <1>1, <1>3, StaffHonestKept DEF PayosMoneyInv
<1>5. \A c \in Codes : txn'[c].order \in {NoOrder, link'[c].order}
  BY DEF PayosMoneyInv
<1>6. PBusy(p)' => PayerMoney(pjob[p])'
  BY <1>1, <1>2 DEF PBusy, PayerMoney, Honest, PaidAsTold, Told
<1>7. QED
  BY <1>1, <1>2, <1>3, <1>4, <1>5, <1>6, MoneyFrame

LEMMA HonestRow ==
    ASSUME PayosMoneyInv, LifecycleInv, NEW o \in live
    PROVE  Honest(order[o], o, PaidAsTold, Orders) /\ order[o] \in Row /\ o \in Orders
BY DEF PayosMoneyInv, StaffHonest, LifecycleInv, TypeOK

\* Where a transaction has an order, it is its link's.
LEMMA OwnOrder ==
    ASSUME PayosInv, PayosMoneyInv, NEW c \in Codes, txn[c].order # NoOrder
    PROVE  /\ txn[c].order = link[c].order /\ link[c].status # "none"
           /\ txn[c].order \in live
BY PayosInvParts DEF PayosMoneyInv, CodesInv

LEMMA LoadsMoney ==
    ASSUME PayosInv, PayosMoneyInv, LifecycleInv, Grows, NEW p \in Payers,
           \/ \E o \in Orders : CreateLoad(p, o)
           \/ \E c \in Codes : Hook(p, c) \/ CheckLoad(p, c)
           \/ \E n \in Unsent : StrayHook(p, n[1], n[2])
           \/ CancelLoad(p)
    PROVE  PayosMoneyInv'
<1>1. ASSUME NEW o \in Orders, CreateLoad(p, o)
      PROVE  PayosMoneyInv'
  <2> DEFINE j == [IdlePJob EXCEPT !.phase = "calling", !.op = "create",
                                   !.order = o, !.entity = order[o]]
  <2>1. o \in live /\ Put(p, j) /\ UNCHANGED <<vars, link, txn, hooks, strays, held>>
    BY <1>1 DEF CreateLoad
  <2>2. j.entity = order[o] /\ j.order = o /\ j.code \notin Codes
    BY PayosAssumption DEF IdlePJob
  <2> HIDE DEF j
  <2>3. PayerMoney(j)
    BY <2>1, <2>2, HonestRow DEF PayerMoney
  <2>4. QED
    BY <2>1, <2>3, MoneyMove
<1>2. ASSUME NEW c \in Codes, NEW op, NEW claim, Notified(p, c, op, claim),
             claim \in Told(c)'
      PROVE  PayosMoneyInv'
  <2> DEFINE o == txn[c].order
             e == HookRow(order[o], claim = "PAID")
             j == [IdlePJob EXCEPT !.phase = "loaded", !.op = op, !.code = c,
                                   !.order = o, !.entity = e, !.status = claim]
  <2>1. /\ o # NoOrder /\ Put(p, j)
        /\ UNCHANGED <<live, order, export, credited, job, seen, clean, link, txn, held>>
    BY <1>2 DEF Notified, vars
  <2>2. o = link[c].order /\ link[c].status # "none" /\ o \in live
    BY <2>1, OwnOrder
  <2>3. Honest(order[o], o, PaidAsTold, Orders) /\ order[o] \in Row /\ o \in Orders
    BY <2>2, HonestRow
  <2>4. PaidAsTold \subseteq PaidAsTold' /\ (claim = "PAID" => o \in PaidAsTold')
    BY <1>2, <2>1, <2>2, <2>3, PayosInvParts, PaidStays DEF PaidAsTold
  <2>5. /\ e.paymentMethod \in Methods
        /\ e.payment_status = "PAID" => o \in PaidAsTold' \/ "DELIVERED" \in seen'[o]
    BY <2>1, <2>3, <2>4 DEF Honest, HookRow, Row
  <2>6. j.entity = e /\ j.order = o /\ j.code = c
    BY DEF IdlePJob
  <2> HIDE DEF j, e
  <2>7. pjob'[p] = j /\ \A q \in Payers \ {p} : pjob'[q] = pjob[q]
    BY <2>1 DEF Put, PayosInv, PTypeOK
  <2>8. PayerMoney(pjob[p])'
    BY <2>1, <2>2, <2>3, <2>5, <2>6, <2>7 DEF PayerMoney, Honest
  <2>9. LinksKept
    BY <2>1, <2>4 DEF LinksKept
  <2>10. StaffHonest(PaidAsTold, Orders)'
    BY <2>1, <2>9, StaffHonestKept DEF PayosMoneyInv
  <2>11. \A d \in Codes : txn'[d].order \in {NoOrder, link'[d].order}
    BY <2>1 DEF PayosMoneyInv
  <2>12. QED
    BY <2>1, <2>7, <2>8, <2>9, <2>10, <2>11, MoneyFrame
<1>3. ASSUME NEW c \in Codes, CheckLoad(p, c)
      PROVE  PayosMoneyInv'
  <2> DEFINE o == txn[c].order
             j == [IdlePJob EXCEPT !.phase = "calling", !.op = "check", !.code = c,
                                   !.order = o, !.entity = order[o],
                                   !.status = txn[c].status]
  <2>1. o # NoOrder /\ Put(p, j) /\ UNCHANGED <<vars, link, txn, hooks, strays, held>>
    BY <1>3 DEF CheckLoad
  <2>2. o = link[c].order /\ link[c].status # "none" /\ o \in live
    BY <2>1, OwnOrder
  <2>3. j.entity = order[o] /\ j.order = o /\ j.code = c
    BY DEF IdlePJob
  <2> HIDE DEF j
  <2>4. PayerMoney(j)
    BY <2>2, <2>3, HonestRow DEF PayerMoney
  <2>5. QED
    BY <2>1, <2>4, MoneyMove
<1>4. CASE CancelLoad(p)
  <2> DEFINE i == pjob[p]
             o == txn[i.code].order
             e == [order[o] EXCEPT !.order_status = "CANCELLED",
                                   !.payment_status = "CANCELLED"]
             j == [i EXCEPT !.phase = "loaded", !.order = o, !.status = "CANCELLED",
                            !.entity = e]
  <2>1. /\ i.phase = "calling" /\ i.op = "cancelPay" /\ o # NoOrder /\ Put(p, j)
        /\ UNCHANGED <<vars, link, txn, hooks, strays, held>>
    BY <1>4 DEF CancelLoad
  <2>2. i \in PJob /\ i.code \in Codes
    BY <2>1 DEF PayosInv, PTypeOK, PBusy, PJobInv
  <2>3. o = link[i.code].order /\ link[i.code].status # "none" /\ o \in live
    BY <2>1, <2>2, OwnOrder
  <2>4. Honest(e, o, PaidAsTold, Orders)
    BY <2>3, HonestRow DEF Honest, Row
  <2>5. j.entity = e /\ j.order = o /\ j.code = i.code
    BY <2>2 DEF PJob
  <2> HIDE DEF j, e
  <2>6. PayerMoney(j)
    BY <2>3, <2>4, <2>5 DEF PayerMoney
  <2>7. QED
    BY <2>1, <2>6, MoneyMove
<1>5. ASSUME NEW c \in Codes, Hook(p, c)
      PROVE  PayosMoneyInv'
  <2>1. Notified(p, c, "hook", link[c].status) /\ UNCHANGED link
    BY <1>5 DEF Hook, Notified
  <2>2. QED
    BY <2>1, <1>2 DEF Told
<1>6. ASSUME NEW n \in Unsent, StrayHook(p, n[1], n[2])
      PROVE  PayosMoneyInv'
  <2>1. /\ n[1] \in Codes /\ n[2] \in {"PAID", "FAILED"}
        /\ Notified(p, n[1], "stray", n[2]) /\ <<n[1], n[2]>> \in strays'
    BY <1>6, PayosAssumption DEF StrayHook
  <2>2. n[2] \in Told(n[1])'
    BY <2>1 DEF Told
  <2>3. QED
    BY <2>1, <2>2, <1>2
<1>7. QED
  BY <1>1, <1>3, <1>4, <1>5, <1>6

\* PAID is what the gateway answers of the order's own link.
LEMMA CheckAnswerMoney ==
    ASSUME PayosInv, PayosMoneyInv, LifecycleInv, Grows, NEW p \in Payers, CheckAnswer(p)
    PROVE  PayosMoneyInv'
<1> DEFINE i == pjob[p]
           s == link[i.code].status
           j == Answered(i, s)
<1>1. /\ i.phase = "calling" /\ i.op = "check"
      /\ Put(p, IF s = "PENDING" THEN IdlePJob ELSE j)
      /\ UNCHANGED <<vars, link, txn, hooks, strays, held>>
  BY DEF CheckAnswer
<1>2. i \in PJob /\ i.code \in Codes /\ i.order \in Orders
  BY <1>1 DEF PayosInv, PTypeOK, PBusy, PJobInv
<1>3. PayerMoney(i) /\ Honest(i.entity, i.order, PaidAsTold, Orders)
  BY <1>1 DEF PayosMoneyInv, PBusy, PayerMoney
<1>4. s = "PAID" => i.order \in PaidAsTold
  BY <1>2, <1>3 DEF PayerMoney, PaidAsTold, Told
<1>5. /\ j.code = i.code /\ j.order = i.order
      /\ j.entity.paymentMethod = i.entity.paymentMethod
      /\ j.entity.payment_status = IF s = "PAID" THEN "PAID" ELSE s
  BY <1>2 DEF Answered, PJob, Row
<1> HIDE DEF j
<1>6. PayerMoney(j)
  BY <1>2, <1>3, <1>4, <1>5 DEF PayerMoney, Honest
<1>7. IdlePJob.phase = "idle"
  BY DEF IdlePJob
<1>8. QED
  BY <1>1, <1>6, <1>7, MoneyMove

LEMMA PDiffMoney ==
    ASSUME PayosInv, PayosMoneyInv, LifecycleInv, Grows, NEW p \in Payers, PDiff(p)
    PROVE  PayosMoneyInv'
<1> DEFINE i == pjob[p]
           j == [i EXCEPT
                 !.phase = "diffed",
                 !.dirty = {c \in PSavedColumns(i.op) : i.entity[c] # order[i.order][c]},
                 !.tdirty = {f \in {"status", "order"} : txn[i.code][f] # i[f]},
                 !.orphans = IF i.op = "create"
                               THEN {c \in Codes : txn[c].order = i.order} ELSE {}]
<1>1. i.phase = "loaded" /\ Put(p, j) /\ UNCHANGED <<vars, link, txn, hooks, strays, held>>
  BY DEF PDiff
<1>2. i \in PJob /\ PayerMoney(i)
  BY <1>1 DEF PayosInv, PTypeOK, PBusy, PayosMoneyInv
<1>3. j.code = i.code /\ j.order = i.order /\ j.entity = i.entity
  BY <1>2 DEF PJob
<1> HIDE DEF j
<1>4. PayerMoney(j)
  BY <1>1, <1>2, <1>3 DEF PayerMoney
<1>5. QED
  BY <1>1, <1>4, MoneyMove

LEMMA PAbortMoney ==
    ASSUME PayosInv, PayosMoneyInv, LifecycleInv, Grows, NEW p \in Payers, PAbort(p)
    PROVE  PayosMoneyInv'
<1>1. IdlePJob.phase = "idle"
  BY DEF IdlePJob
<1>2. QED
  BY <1>1, MoneyMove DEF PAbort

\* The gateway's own steps: a link is made, or leaves PENDING.
LEMMA GatewayMoney ==
    ASSUME PayosInv, PayosMoneyInv, LifecycleInv, Grows, NEW c \in Codes,
           \/ \E p \in Payers : CreateLink(p, c) \/ CancelLink(p, c)
           \/ Pay(c) \/ Decline(c) \/ Expire(c) \/ Leave(c)
    PROVE  PayosMoneyInv'
<1>1. PTypeOK /\ CodesInv /\ PaidAsTold \subseteq PaidAsTold'
  BY PayosInvParts, PaidStays
<1>2. ASSUME NEW p \in Payers, CreateLink(p, c)
      PROVE  PayosMoneyInv'
  <2> DEFINE i == pjob[p]
             e == [i.entity EXCEPT !.order_status = "PENDING", !.payment_status = "PENDING"]
             j == [i EXCEPT !.phase = "loaded", !.code = c, !.status = "PENDING",
                            !.entity.order_status = "PENDING",
                            !.entity.payment_status = "PENDING"]
  <2>1. /\ i.phase = "calling" /\ i.op = "create" /\ link[c].status = "none"
        /\ link' = [link EXCEPT ![c] = [status |-> "PENDING", order |-> i.order]]
        /\ Put(p, j)
        /\ UNCHANGED <<live, order, export, credited, job, seen, clean, txn, hooks, strays, held>>
    BY <1>2 DEF CreateLink, vars
  <2>2. /\ link'[c] = [status |-> "PENDING", order |-> i.order]
        /\ \A b \in Codes \ {c} : link'[b] = link[b]
    BY <1>1, <2>1 DEF PTypeOK
  <2>3. LinksKept
    BY <1>1, <2>1, <2>2 DEF LinksKept
  <2>4. \A b \in Codes : txn'[b].order \in {NoOrder, link'[b].order}
    BY <1>1, <2>1, <2>2 DEF PayosMoneyInv, CodesInv
  <2>5. /\ i \in PJob /\ i.order \in Orders
        /\ Honest(i.entity, i.order, PaidAsTold, Orders)
    BY <2>1 DEF PayosInv, PTypeOK, PBusy, PJobInv, PayosMoneyInv, PayerMoney
  <2>6. /\ pjob'[p] = j /\ \A q \in Payers \ {p} : pjob'[q] = pjob[q]
    BY <1>1, <2>1 DEF Put, PTypeOK
  <2>7. /\ j.code = c /\ j.order = i.order
        /\ j.entity.paymentMethod = i.entity.paymentMethod
        /\ j.entity.payment_status = "PENDING"
    BY <2>5 DEF PJob, Row
  <2> HIDE DEF j
  <2>8. PayerMoney(pjob[p])'
    BY <2>2, <2>5, <2>6, <2>7 DEF PayerMoney, Honest
  <2>9. StaffHonest(PaidAsTold, Orders)'
    BY <2>1, <2>3, StaffHonestKept DEF PayosMoneyInv
  <2>10. QED
    BY <2>1, <2>3, <2>4, <2>6, <2>8, <2>9, MoneyFrame
<1>3. ASSUME NEW s, link[c].status = "PENDING", link' = [link EXCEPT ![c].status = s],
             UNCHANGED <<live, order, job, txn, held>>, s # "none"
      PROVE  LinksKept /\ StaffHonest(PaidAsTold, Orders)'
             /\ \A b \in Codes : txn'[b].order \in {NoOrder, link'[b].order}
  <2>1. /\ link'[c].order = link[c].order /\ link'[c].status = s
        /\ \A b \in Codes \ {c} : link'[b] = link[b]
    BY <1>1, <1>3 DEF PTypeOK, Link
  <2>2. LinksKept
    BY <1>1, <1>3, <2>1 DEF LinksKept
  <2>3. QED
    BY <1>3, <2>1, <2>2, StaffHonestKept DEF PayosMoneyInv
<1>4. ASSUME NEW p \in Payers, CancelLink(p, c)
      PROVE  PayosMoneyInv'
  <2> DEFINE j == [IdlePJob EXCEPT !.phase = "calling", !.op = "cancelPay",
                                   !.code = c, !.order = link[c].order]
  <2>1. /\ link[c].status = "PENDING" /\ link' = [link EXCEPT ![c].status = "CANCELLED"]
        /\ Put(p, j)
        /\ UNCHANGED <<live, order, export, credited, job, seen, clean, txn, hooks, strays, held>>
    BY <1>4 DEF CancelLink, vars
  <2>2. /\ LinksKept /\ StaffHonest(PaidAsTold, Orders)'
        /\ \A b \in Codes : txn'[b].order \in {NoOrder, link'[b].order}
    BY <1>3, <2>1
  <2>3. pjob'[p] = j /\ \A q \in Payers \ {p} : pjob'[q] = pjob[q]
    BY <1>1, <2>1 DEF Put, PTypeOK
  <2>4. j.code = c /\ j.order = link[c].order /\ j.phase = "calling" /\ j.op = "cancelPay"
    BY DEF IdlePJob
  <2> HIDE DEF j
  <2>5. PayerMoney(pjob[p])'
    BY <2>1, <2>2, <2>3, <2>4 DEF PayerMoney, LinksKept
  <2>6. QED
    BY <2>1, <2>2, <2>3, <2>5, MoneyFrame
<1>5. ASSUME NEW s \in {"PAID", "FAILED", "EXPIRED", "CANCELLED"}, Settle(c, s)
      PROVE  PayosMoneyInv'
  <2>1. /\ link[c].status = "PENDING" /\ link' = [link EXCEPT ![c].status = s]
        /\ UNCHANGED <<live, order, export, credited, job, seen, clean, txn, pjob, held>>
    BY <1>5 DEF Settle, vars
  <2>2. /\ LinksKept /\ StaffHonest(PaidAsTold, Orders)'
        /\ \A b \in Codes : txn'[b].order \in {NoOrder, link'[b].order}
    BY <1>3, <2>1
  <2>3. \A q \in Payers : PBusy(q)' => PayerMoney(pjob[q])'
    BY <2>1, <2>2, PayerMoneyKept DEF PBusy, PayosMoneyInv
  <2>4. \A r \in Requests : \A b \in held[r].list : b \in Codes /\ link[b].status # "none"
    <3>1. held \in [Requests -> Held] /\ HeldInv
      BY PayosInvParts DEF PTypeOK
    <3>2. QED
      BY <1>1, <3>1 DEF Held, HeldInv, CodesInv
  <2>5. QED
    BY <2>1, <2>2, <2>3, <2>4 DEF PayosMoneyInv, LinksKept, Busy
<1>6. QED
  BY <1>2, <1>4, <1>5 DEF Pay, Decline, Expire, Leave

\* A commit writes what was honest to rows whose claims were.
LEMMA PCommitMoney ==
    ASSUME PayosInv, PayosMoneyInv, LifecycleInv, Grows, NEW p \in Payers, PCommit(p)
    PROVE  PayosMoneyInv'
<1> DEFINE i == pjob[p]
           o == i.order
           row == PSavedRow(i)
           saved == PSavedTxn(i)
<1>1. /\ i.phase = "diffed"
      /\ order' = [order EXCEPT ![o] = row]
      /\ seen' = [seen EXCEPT ![o] = @ \cup {row.order_status}]
      /\ txn' = [c \in Codes |->
                    IF c = i.code THEN saved
                    ELSE IF c \in i.orphans THEN [txn[c] EXCEPT !.order = NoOrder]
                    ELSE txn[c]]
      /\ pjob' = [pjob EXCEPT ![p] = IdlePJob]
      /\ UNCHANGED <<live, job, link, strays, held>>
  BY DEF PCommit, Put
<1>2. i \in PJob /\ PJobInv(i) /\ PayerMoney(i)
  BY <1>1 DEF PayosInv, PTypeOK, PBusy, PayosMoneyInv
<1>3. /\ o \in live /\ o \in Orders /\ i.code \in Codes
      /\ Honest(i.entity, o, PaidAsTold, Orders) /\ o = link[i.code].order
  BY <1>1, <1>2, PCommitOrder DEF PJobInv, PayerMoney
<1>4. Honest(order[o], o, PaidAsTold, Orders)
  BY <1>3, HonestRow
<1>5. Honest(row, o, PaidAsTold, Orders)
  <2>1. /\ row.payment_status \in {i.entity.payment_status, order[o].payment_status}
        /\ row.paymentMethod \in {i.entity.paymentMethod, order[o].paymentMethod}
    BY DEF PSavedRow
  <2>2. QED
    BY <1>3, <1>4, <2>1 DEF Honest
<1>6. saved.order \in {NoOrder, link[i.code].order}
  BY <1>3 DEF PSavedTxn, PayosMoneyInv
<1> HIDE DEF row, saved
<1>7. LinksKept
  BY <1>1 DEF LinksKept, PaidAsTold, Told
<1>8. /\ live \subseteq Orders
      /\ order'[o] = row /\ \A u \in Orders \ {o} : order'[u] = order[u]
      /\ \A u \in Orders : seen[u] \subseteq seen'[u]
  BY <1>1, <1>3 DEF LifecycleInv, TypeOK
<1>9. StaffHonest(PaidAsTold, Orders)'
  <2>1. PaidAsTold' = PaidAsTold
    BY <1>1 DEF PaidAsTold, Told
  <2>2. \A u \in live' : Honest(order[u], u, PaidAsTold, Orders)'
    BY <1>1, <1>5, <1>8, <2>1 DEF PayosMoneyInv, StaffHonest, Honest
  <2>3. QED
    BY <1>1, <1>8, <2>1, <2>2 DEF PayosMoneyInv, StaffHonest, Honest, Busy
<1>10. \A c \in Codes : txn'[c].order \in {NoOrder, link'[c].order}
  <2>1. \A c \in Codes : txn[c] \in Txn
    BY DEF PayosInv, PTypeOK
  <2>2. \A c \in Codes : [txn[c] EXCEPT !.order = NoOrder].order = NoOrder
    BY <2>1 DEF Txn
  <2>3. QED
    BY <1>1, <1>6, <2>2 DEF PayosMoneyInv
<1>11. ~PBusy(p)' /\ \A q \in Payers \ {p} : pjob'[q] = pjob[q]
  BY <1>1 DEF PBusy, IdlePJob, PayosInv, PTypeOK
<1>12. QED
  BY <1>1, <1>7, <1>9, <1>10, <1>11, MoneyFrame

\* A request works on one order until it ends.
LEMMA JobOrderKept ==
    ASSUME LifecycleInv, StaffNext, NEW r \in Requests, Busy(r), job'[r].phase # "idle"
    PROVE  job'[r].order = job[r].order
<1>1. \A q \in Requests : job[q] \in Job
  BY DEF LifecycleInv, TypeOK
<1>2. ASSUME NEW q \in Requests, NEW j, job' = [job EXCEPT ![q] = j],
             q = r => j.phase = "idle" \/ j.order = job[r].order
      PROVE  job'[r].order = job[r].order
  BY <1>2 DEF LifecycleInv, TypeOK
<1>3. ASSUME NEW q \in Requests, NEW o \in Orders, Handle(q, o)
      PROVE  job'[r].order = job[r].order
  <2>1. PICK op, e : Hold(q, o, op, e)
    BY <1>3, HandleHolds
  <2>2. q # r
    BY <2>1 DEF Hold
  <2>3. QED
    BY <2>1, <2>2, <1>2 DEF Hold
<1>4. ASSUME NEW q \in Requests, Diff(q)
      PROVE  job'[r].order = job[r].order
  <2>1. Compared(job[q]).order = job[q].order
    BY <1>1 DEF Compared, Job
  <2>2. QED
    BY <2>1, <1>2, <1>4 DEF Diff
<1>5. ASSUME NEW q \in Requests, Resave(q)
      PROVE  job'[r].order = job[r].order
  <2> DEFINE j == [job[q] EXCEPT !.phase = "loaded", !.dirty = {},
                                 !.saves = 1, !.credits = Credits(job[q])]
  <2>1. j.order = job[q].order /\ job' = [job EXCEPT ![q] = j]
    BY <1>1, <1>5 DEF Job, Resave
  <2> HIDE DEF j
  <2>2. QED
    BY <2>1, <1>2
<1>6. ASSUME NEW q \in Requests, Abort(q) \/ Commit(q)
      PROVE  job'[r].order = job[r].order
  <2>1. job' = [job EXCEPT ![q] = IdleJob] /\ IdleJob.phase = "idle"
    BY <1>6 DEF Abort, Commit, IdleJob
  <2>2. QED
    BY <2>1, <1>2
<1>7. QED
  BY <1>3, <1>4, <1>5, <1>6 DEF StaffNext, StaffStep, CreateOrder, Remove, RemoveExport

\* The list that a request holds is of its order's transactions.
LEMMA HeldMoney ==
    ASSUME PayosInv, PayosMoneyInv, LifecycleInv, LifecycleInv', StaffNext, UNCHANGED link,
           NEW r \in Requests
    PROVE  /\ NextHeld(r).adopts \subseteq NextHeld(r).list
           /\ \A c \in NextHeld(r).list : Busy(r)' /\ link'[c].order = job'[r].order
<1> DEFINE j == job'[r]
           has == OfOrder(j.order)
<1>1. /\ held[r] \in Held /\ held[r].adopts \subseteq held[r].list
      /\ \A c \in held[r].list : Busy(r) /\ link[c].order = job[r].order
  BY DEF PayosInv, PTypeOK, PayosMoneyInv
<1>2. CASE j = job[r]
  BY <1>1, <1>2 DEF NextHeld, Busy
<1>3. CASE j # job[r] /\ (j.phase = "idle" \/ ~LoadsAll(j.op))
  BY <1>3 DEF NextHeld, NothingHeld
<1>4. CASE j # job[r] /\ j.phase # "idle" /\ LoadsAll(j.op) /\ ~Busy(r)
  <2>1. j.order \in Orders
    BY <1>4 DEF LifecycleInv, JobInv, Busy
  <2>2. \A c \in has : link[c].order = j.order
    BY <2>1, LifecycleAssumption DEF OfOrder, PayosMoneyInv
  <2>3. NextHeld(r).list = has /\ NextHeld(r).adopts = {}
    BY <1>4 DEF NextHeld, NothingHeld
  <2>4. QED
    BY <1>4, <2>2, <2>3 DEF Busy
<1>5. CASE j # job[r] /\ j.phase # "idle" /\ LoadsAll(j.op) /\ Busy(r)
  <2>1. j.order = job[r].order
    BY <1>5, JobOrderKept
  <2>2. NextHeld(r).list = held[r].list /\ NextHeld(r).adopts \subseteq held[r].list
    <3>1. CASE j.phase = "diffed"
      <4>1. NextHeld(r) = [held[r] EXCEPT !.orphans = has \ held[r].list,
                                          !.adopts = held[r].list \ has]
        BY <1>5, <3>1 DEF NextHeld
      <4>2. QED
        BY <1>1, <4>1 DEF Held
    <3>2. CASE j.phase # "diffed"
      BY <1>5, <3>2 DEF NextHeld, NothingHeld
    <3>3. QED
      BY <3>1, <3>2
  <2>3. QED
    BY <1>1, <1>5, <2>1, <2>2 DEF Busy
<1>6. QED
  BY <1>2, <1>3, <1>4, <1>5

LEMMA StaffMoney ==
    ASSUME PayosInv, PayosMoneyInv, LifecycleInv, LifecycleInv', Grows, Staff
    PROVE  PayosMoneyInv'
<1>1. /\ held' = [r \in Requests |-> NextHeld(r)]
      /\ UNCHANGED <<link, hooks, strays, pjob>> /\ StaffNext
  BY DEF Staff, StaffNext
<1>2. PaidAsTold' = PaidAsTold /\ LinksKept
  BY <1>1 DEF PaidAsTold, LinksKept, Told
<1>3. \A F, R : StaffHonest(F, R) =>
          /\ \A o \in live' : /\ order'[o].paymentMethod \in Methods
                              /\ order'[o].payment_status = "PAID" => o \in F \/ "DELIVERED" \in seen'[o]
                              /\ order'[o].payment_status = "FAILED" => o \in R
          /\ \A r \in Requests : job'[r].phase # "idle" =>
                LET e == job'[r].entity
                    o == job'[r].order
                IN
                /\ o \in live'
                /\ \/ /\ e.paymentMethod \in Methods
                      /\ e.payment_status = "PAID" => o \in F \/ "DELIVERED" \in seen'[o]
                      /\ e.payment_status = "FAILED" => o \in R
                   \/ /\ e.paymentMethod \in Methods
                      /\ e.payment_status = "PAID"
                      /\ e.order_status = "DELIVERED"
  BY <1>1, StaffStaysHonest, PayosAssumption DEF StaffHonest, Honest, Busy
<1>4. StaffHonest(PaidAsTold, Orders)'
  <2>1. StaffHonest(PaidAsTold, Orders)
    BY DEF PayosMoneyInv
  <2>2. QED
    BY <1>2, <1>3, <2>1 DEF StaffHonest, Honest, Busy
<1>5. \A c \in Codes : txn'[c].order \in {NoOrder, link'[c].order}
  <2>1. CASE UNCHANGED txn
    BY <1>1, <2>1 DEF PayosMoneyInv
  <2>2. ASSUME NEW r \in Requests, Commit(r), txn' = Regrouped(r), NEW c \in Codes
        PROVE  txn'[c].order \in {NoOrder, link'[c].order}
    <3> DEFINE o == job[r].order
               again == LoadsAll(job[r].op) /\ Rewrites(job[r])
               orphans == IF again THEN OfOrder(o) \ held[r].list ELSE held[r].orphans
               adopts == IF again THEN held[r].list ELSE held[r].adopts
               to == IF c \in orphans THEN NoOrder
                     ELSE IF c \in adopts THEN o ELSE txn[c].order
    <3>1. txn'[c] = [txn[c] EXCEPT !.order = to]
      BY <2>2 DEF Regrouped
    <3>2. txn[c] \in Txn
      BY DEF PayosInv, PTypeOK
    <3>3. txn'[c].order = to
      BY <3>1, <3>2 DEF Txn
    <3>4. c \in adopts => o = link[c].order
      BY DEF PayosMoneyInv
    <3>5. QED
      BY <1>1, <3>3, <3>4 DEF PayosMoneyInv
  <2>3. QED
    BY <2>1, <2>2 DEF Staff
<1>6. \A r \in Requests :
          /\ held'[r].adopts \subseteq held'[r].list
          /\ \A c \in held'[r].list : Busy(r)' /\ link'[c].order = job'[r].order
  BY <1>1, HeldMoney
<1>7. \A q \in Payers : PBusy(q)' => PayerMoney(pjob[q])'
  BY <1>1, <1>2, PayerMoneyKept DEF PBusy, PayosMoneyInv
<1>8. QED
  BY <1>4, <1>5, <1>6, <1>7 DEF PayosMoneyInv

LEMMA PMoneyNext ==
    PayosInv /\ LifecycleInv /\ PayosMoneyInv /\ [PNext]_allvars => PayosMoneyInv'
<1> SUFFICES ASSUME PayosInv, LifecycleInv, PayosMoneyInv, [PNext]_allvars
             PROVE  PayosMoneyInv'
  OBVIOUS
<1>1. LifecycleInv' /\ Grows
  BY PNextInv
<1>2. ASSUME UNCHANGED <<live, order, job, seen, link, txn, strays, pjob, held>>
      PROVE  PayosMoneyInv'
  <2>1. PaidAsTold' = PaidAsTold
    BY <1>2 DEF PaidAsTold, Told
  <2>2. QED
    BY <1>2, <2>1 DEF PayosMoneyInv, StaffHonest, Honest, PayerMoney, Busy, PBusy
<1>3. ASSUME NEW c \in Codes, HookKnown(c)
      PROVE  PayosMoneyInv'
  BY <1>2, <1>3 DEF HookKnown, vars
<1>4. CASE UNCHANGED allvars
  BY <1>2, <1>4 DEF allvars, vars, pvars
<1>5. ASSUME NEW p \in Payers,
             \/ \E o \in Orders : CreateLoad(p, o)
             \/ \E c \in Codes : CreateLink(p, c) \/ CancelLink(p, c)
                                 \/ Hook(p, c) \/ CheckLoad(p, c)
             \/ \E n \in Unsent : StrayHook(p, n[1], n[2])
             \/ CancelLoad(p) \/ CheckAnswer(p) \/ PDiff(p) \/ PCommit(p) \/ PAbort(p)
      PROVE  PayosMoneyInv'
  BY <1>1, <1>5, LoadsMoney, GatewayMoney, CheckAnswerMoney, PDiffMoney, PCommitMoney, PAbortMoney
<1>6. ASSUME NEW c \in Codes, Pay(c) \/ Decline(c) \/ Expire(c) \/ Leave(c)
      PROVE  PayosMoneyInv'
  BY <1>1, <1>6, GatewayMoney
<1>7. QED
  BY <1>1, <1>3, <1>4, <1>5, <1>6, StaffMoney DEF PNext

LEMMA PMoneyInit == PInit => PayosMoneyInv
<1> SUFFICES ASSUME PInit PROVE PayosMoneyInv
  OBVIOUS
<1>1. StaffHonest(PaidAsTold, Orders)
  BY DEF PInit, Init, StaffHonest, Busy, IdleJob
<1>2. QED
  BY <1>1 DEF PInit, PayosMoneyInv, NothingHeld, PBusy, IdlePJob

\* The inductive invariant of the payment handlers, on top of OrderLifecycle's.
THEOREM PayosInvariant == PSpec => [](PayosInv /\ LifecycleInv)
<1>1. PInit => PayosInv /\ LifecycleInv
  BY PInitInv, InitInv DEF PInit
<1>2. QED
  BY <1>1, PNextInv, PTL DEF PSpec

\* A transaction never claims an outcome that neither the gateway has nor an
\* unchecked notification gave (handleWebhook, cancelOrderPayment,
\* CheckPayosPaymentStatus).
THEOREM GatewayAgrees == PSpec => []GatewayAgreement
<1>1. PayosInv => GatewayAgreement
  BY DEF PayosInv
<1>2. QED
  BY <1>1, PayosInvariant, PTL

\* What rows and copies claim of money is true, whatever overlaps.
THEOREM PayosMoneyInvariant == PSpec => []PayosMoneyInv
<1>1. PInit => PayosMoneyInv
  BY PMoneyInit
<1>2. PayosInv /\ LifecycleInv /\ PayosMoneyInv /\ [PNext]_allvars => PayosMoneyInv'
  BY PMoneyNext
<1>3. QED
  BY <1>1, <1>2, PayosInvariant, PTL DEF PSpec

\* No interleaving makes up a payment that nobody told of (handleWebhook, CheckPayosPaymentStatus,
\* shipOrderSuccess, updateNormalOrderStatusLogic, update).
THEOREM PayosPaidIsFunded == PSpec => []PaidIsFunded
<1>1. LifecycleInv /\ PayosMoneyInv => PaidIsFunded
  BY DEF PayosMoneyInv, StaffHonest, Honest, PaidIsFunded, ShownPaid, Funded, LifecycleInv, TypeOK
<1>2. QED
  BY <1>1, PayosInvariant, PayosMoneyInvariant, PTL

\* Nor is what was told of a payment taken back: PayosPayment implements
\* Settlement.
THEOREM PayosSettlesMoney == PSpec => SettlesMoney
<1>1. PInit => Money!SInit
  <2> SUFFICES ASSUME PInit PROVE Money!SInit
    OBVIOUS
  <2>1. ShownPaid = {} /\ PaidAsTold = {}
    BY DEF PInit, Init, ShownPaid, PaidAsTold, Told
  <2>2. QED
    BY <2>1 DEF PInit, Init, Funded, Money!SInit
<1>2. ASSUME PayosInv, PayosMoneyInv', LifecycleInv', Grows
      PROVE  Money!Settle
  <2>1. PaidAsTold \subseteq PaidAsTold'
    BY <1>2, PayosInvParts, PaidStays
  <2>2. Funded \subseteq Funded' /\ Funded' \in SUBSET Orders
    BY <1>2, <2>1 DEF Grows, Funded, PaidAsTold
  <2>3. ShownPaid' \subseteq Funded'
    BY <1>2 DEF PayosMoneyInv, StaffHonest, Honest, ShownPaid, Funded, LifecycleInv, TypeOK
  <2>4. QED
    BY <2>2, <2>3 DEF Money!Settle
<1>3. PayosInv /\ LifecycleInv /\ PayosMoneyInv' /\ [PNext]_allvars => Money!Settle
  BY <1>2, PNextInv
<1>4. QED
  BY <1>1, <1>3, PayosInvariant, PayosMoneyInvariant, PTL DEF PSpec, SettlesMoney, Money!SettlementSpec

\* PayosPayment implements OrderLifecycle.
THEOREM PayosImplementsLifecycle == PSpec => ImplementsLifecycle
<1>1. PInit => Init
  BY DEF PInit
<1>2. PayosInv /\ LifecycleInv /\ [PNext]_allvars => [Next]_vars
  BY StepImplements
<1>3. QED
  BY <1>1, <1>2, PayosInvariant, PTL DEF PSpec, Spec, ImplementsLifecycle

\* So no payment handler lets an order skip a stage of its fulfilment.
THEOREM PayosStatusesHaveATrail == PSpec => []StatusTrail
  BY PayosImplementsLifecycle, StatusesHaveATrail, PTL DEF ImplementsLifecycle

---------------------------------------------------------------------------
(***************************************************************************)
(* Money that the gateway took and notified shows in the order, as long as *)
(* the requests on the order take turns: CalmMoneyShows of PayosPayment,   *)
(* for any number of orders, codes and requests.                           *)
(*                                                                         *)
(* The argument.  Whoever works on a calm order has it to itself, so the   *)
(* steps of all others leave the rows alone that its copies were made of,  *)
(* and its own copies stay true until it commits.  A calm order never gets *)
(* a second transaction, so nothing that another link's outcome says can   *)
(* overwrite the payment.                                                  *)
(***************************************************************************)

\* What the earlier invariants say.
Sound == PayosInv /\ LifecycleInv /\ PayosMoneyInv

\* A step leaves the rows of order o alone, and its transactions.
Untouched(o) ==
    /\ o \in live => order'[o] = order[o]
    /\ \A c \in Codes : o \in {link[c].order, link'[c].order} => txn'[c] = txn[c]

\* What the invariants say of one code.
LEMMA CodeFacts ==
    ASSUME Sound, NEW c \in Codes
    PROVE  /\ link[c] \in Link /\ txn[c] \in Txn
           /\ txn[c].status \in {"none", "PENDING"} \cup Told(c)
           /\ txn[c].status # "none" => link[c].status # "none"
           /\ txn[c].order # NoOrder => txn[c].status # "none" /\ txn[c].order = link[c].order
           /\ link[c].status # "none" => link[c].order \in Orders
BY PayosInvParts DEF Sound, CodesInv, PTypeOK, PayosMoneyInv

\* What they say of a payment request in flight.
LEMMA PayerFacts ==
    ASSUME Sound, NEW p \in Payers, PBusy(p)
    PROVE  /\ pjob[p] \in PJob /\ PJobInv(pjob[p]) /\ PayerMoney(pjob[p])
           /\ pjob[p].order \in Orders /\ pjob[p].order # NoOrder
           /\ pjob[p].phase \in {"calling", "loaded", "diffed"}
           /\ pjob[p].op \in {"create", "cancelPay", "hook", "stray", "check"}
<1>1. pjob[p] \in PJob /\ PJobInv(pjob[p]) /\ PayerMoney(pjob[p])
  BY DEF Sound, PayosInv, PTypeOK, PayosMoneyInv
<1>2. QED
  BY <1>1, LifecycleAssumption DEF PJob, PBusy, PJobInv

\* What they say of a staff request in flight.
LEMMA RequestFacts ==
    ASSUME Sound, NEW r \in Requests, Busy(r)
    PROVE  /\ job[r] \in Job /\ job[r].order \in live
           /\ job[r].order \in Orders /\ job[r].order # NoOrder
           /\ held[r] \in Held
           /\ held[r].adopts \subseteq held[r].list
           /\ \A c \in held[r].list : link[c].order = job[r].order
<1>1. /\ job[r] \in Job /\ live \subseteq Orders /\ held[r] \in Held
      /\ job[r].order \in live
  BY DEF Sound, LifecycleInv, TypeOK, PayosInv, PTypeOK, PayosMoneyInv, StaffHonest
<1>2. QED
  BY <1>1, LifecycleAssumption DEF Sound, PayosMoneyInv

\* The transactions of an order are those of its links.
LEMMA OfOrderFacts ==
    ASSUME Sound, NEW o \in Orders
    PROVE  \A c \in OfOrder(o) : /\ c \in Codes /\ link[c].order = o
                                 /\ txn[c].status # "none"
BY CodeFacts, LifecycleAssumption DEF OfOrder

\* No step takes a link away from its order.
LEMMA LinksStay ==
    ASSUME Sound, Grows
    PROVE  LinksKept
BY PayosInvParts, PaidStays DEF Sound, Grows, LinksKept

---------------------------------------------------------------------------
(* Who does not move keeps what it knows *)

\* A payment request that did not move, on an order that no one else touched.
LEMMA PayerKept ==
    ASSUME Sound, Sound', Grows, LinksKept, NEW p \in Payers, PBusy(p), CalmPayer(pjob[p]),
           pjob'[p] = pjob[p],
           LET o == pjob[p].order IN calm'[o] => calm[o] /\ Untouched(o)
    PROVE  CalmPayer(pjob[p])'
<1> DEFINE j == pjob[p]
           o == j.order
<1>1. /\ j \in PJob /\ PJobInv(j) /\ PayerMoney(j) /\ o \in Orders /\ o # NoOrder
      /\ j.phase \in {"calling", "loaded", "diffed"}
      /\ j.op \in {"create", "cancelPay", "hook", "stray", "check"}
  BY PayerFacts
<1>2. ASSUME NEW c \in Codes, txn[c].status # "none"
      PROVE  /\ txn'[c].status # "none" /\ link'[c].order = link[c].order
             /\ link[c].status # "none"
             /\ link[c].status # "PENDING" => link'[c] = link[c]
  <2>1. link[c].status # "none" /\ txn'[c].status # "none"
    BY <1>2, CodeFacts DEF Grows
  <2>2. QED
    BY <2>1 DEF Grows, LinksKept
<1>3. \A c \in j.orphans : txn'[c].status # "none" /\ link'[c].order = o
  BY <1>1, <1>2 DEF CalmPayer, PJob
<1>4. j.op \in {"hook", "stray", "check"} => j.code \in Codes /\ txn[j.code].status # "none"
  BY <1>1 DEF PJobInv
<1>5. /\ j.op = "hook" =>
            link'[j.code].status \in {"PAID", "FAILED"} /\ j.status = link'[j.code].status
      /\ j.op = "stray" /\ j.status = "PAID" => j.entity.payment_status = "PAID"
      /\ j.op = "cancelPay" => j.status # "PAID"
      /\ j.op = "check" /\ j.phase # "calling" => link'[j.code].status # "PENDING"
      /\ j.op \in {"hook", "check"} /\ j.phase # "calling" /\ link'[j.code].status = "PAID"
            => j.entity.payment_status = "PAID"
  BY <1>2, <1>4 DEF CalmPayer
<1>6. ASSUME calm'[o]
      PROVE  /\ j.orphans = {}
             /\ j.op = "create" => OfOrder(o)' = {}
             /\ j.op = "stray" => txn'[j.code].status # "PAID"
             /\ j.op = "check" =>
                   \/ j.status = txn'[j.code].status /\ j.status # "PAID"
                   \/ j.phase # "calling" /\ j.status = link'[j.code].status
             /\ j.phase = "diffed" /\ "payment_status" \notin j.dirty
                   => j.entity.payment_status = order'[o].payment_status
             /\ j.phase = "diffed" /\ "status" \notin j.tdirty
                   => j.status = txn'[j.code].status
  <2>1. calm[o] /\ Untouched(o)
    BY <1>6
  <2>2. \A c \in OfOrder(o)' : c \in OfOrder(o)
    <3>1. \A c \in OfOrder(o)' : c \in Codes /\ txn'[c].order = o /\ link'[c].order = o
      BY <1>1, OfOrderFacts DEF OfOrder, Sound, PayosMoneyInv
    <3>2. QED
      BY <2>1, <3>1 DEF Untouched, OfOrder
  <2>3. j.op \in {"stray", "check"} \/ j.phase = "diffed" => txn'[j.code] = txn[j.code]
    BY <1>1, <1>4, <2>1 DEF Untouched, PayerMoney, PJobInv
  <2>4. ASSUME j.phase = "diffed" PROVE order'[o] = order[o]
    BY <1>1, <2>1, <2>4 DEF PJobInv, Untouched
  <2>5. QED
    BY <2>1, <2>2, <2>3, <2>4, <1>2, <1>4 DEF CalmPayer
<1>7. QED
  BY <1>3, <1>5, <1>6 DEF CalmPayer, OfOrder

\* A staff request that did not move, on an order that no one else touched.
LEMMA StaffKept ==
    ASSUME Sound, Sound', Grows, LinksKept, NEW r \in Requests, Busy(r), CalmStaff(r),
           job'[r] = job[r], held'[r] = held[r],
           LET o == job[r].order IN calm'[o] => calm[o] /\ Untouched(o)
    PROVE  CalmStaff(r)'
<1> DEFINE o == job[r].order
<1>1. o \in live /\ o \in Orders /\ o # NoOrder /\ held[r] \in Held
  BY RequestFacts
<1>2. \A c \in held[r].orphans : txn'[c].status # "none" /\ link'[c].order = o
  <2>1. \A c \in held[r].orphans : c \in Codes /\ txn[c].status # "none" /\ link[c].order = o
    BY <1>1 DEF Held, CalmStaff
  <2>2. \A c \in held[r].orphans : link[c].status # "none" /\ txn'[c].status # "none"
    BY <2>1, CodeFacts DEF Grows
  <2>3. QED
    BY <2>1, <2>2 DEF LinksKept
<1>3. ASSUME calm'[o]
      PROVE  /\ order'[o] = order[o] /\ calm[o]
             /\ \A c \in OfOrder(o)' : c \in OfOrder(o)
  <2>1. \A c \in OfOrder(o)' : c \in Codes /\ txn'[c].order = o /\ link'[c].order = o
    BY <1>1, OfOrderFacts DEF OfOrder, Sound, PayosMoneyInv
  <2>2. QED
    BY <1>1, <1>3, <2>1 DEF Untouched, OfOrder
<1>4. QED
  BY <1>2, <1>3 DEF CalmStaff, OfOrder

\* The transaction of an order that no one touched.
LEMMA CodeKept ==
    ASSUME Sound, Sound', Grows, LinksKept, NEW c \in Codes,
           \A d \in Codes : CalmCode(d),
           UNCHANGED link,
           calm'[link[c].order] => calm[link[c].order] /\ Untouched(link[c].order),
           c \in hooks => c \in hooks' \/ ~calm'[link[c].order]
    PROVE  CalmCode(c)'
<1> DEFINE o == link[c].order
<1>1. link[c].status \notin {"none", "PENDING"} => txn'[c].status # "none"
  BY DEF CalmCode, Grows
<1>2. ASSUME txn'[c].status # "none", calm'[o]
      PROVE  /\ txn'[c].order = o
             /\ \A d \in Codes : txn'[d].status # "none" /\ link[d].order = o => d = c
             /\ link[c].status = "PAID" => c \in hooks' \/ txn'[c].status = "PAID"
             /\ txn'[c].status = "PAID" => order'[o].payment_status = "PAID"
  <2>1. calm[o] /\ Untouched(o)
    BY <1>2
  <2>2. \A d \in Codes : link[d].order = o => txn'[d] = txn[d]
    BY <2>1 DEF Untouched
  <2>3. txn[c].status # "none" /\ txn[c].order = o
    BY <1>2, <2>1, <2>2 DEF CalmCode
  <2>4. o \in live
    BY <2>3, CodeFacts, PayosInvParts, LifecycleAssumption DEF Sound, CodesInv
  <2>5. order'[o] = order[o]
    BY <2>1, <2>4 DEF Untouched
  <2>6. QED
    BY <1>2, <2>1, <2>2, <2>3, <2>5 DEF CalmCode
<1>3. QED
  BY <1>1, <1>2 DEF CalmCode

\* A step of payment request p: the others are as they were, and p only
\* touches the order that it worked on.
LEMMA PayerStep ==
    ASSUME Sound, Sound', Grows, LinksKept, PayosCalmInv, NEW p \in Payers,
           UNCHANGED <<job, held>>, \A q \in Payers \ {p} : pjob'[q] = pjob[q],
           Watch,
           \A o \in Orders : calm'[o] => Untouched(o) \/ (PBusy(p) /\ pjob[p].order = o),
           PBusy(p)' => CalmPayer(pjob[p])',
           \A c \in Codes : CalmCode(c)'
    PROVE  PayosCalmInv'
<1>1. \A o \in Orders : calm'[o] => calm[o] /\ Peace(o) /\ Peace(o)'
  BY DEF Watch, PayosCalmInv
<1>2. ASSUME NEW q \in Payers \ {p}, PBusy(q)'
      PROVE  CalmPayer(pjob[q])'
  <2>1. pjob'[q] = pjob[q] /\ PBusy(q)
    BY <1>2 DEF PBusy
  <2>2. pjob[q].order \in Orders
    BY <2>1, PayerFacts
  <2>3. ASSUME calm'[pjob[q].order] PROVE Untouched(pjob[q].order)
    <3>1. PBusy(p) => pjob[p].order # pjob[q].order
      BY <1>1, <2>1, <2>2, <2>3 DEF Peace
    <3>2. QED
      BY <2>2, <2>3, <3>1
  <2>4. QED
    BY <1>1, <2>1, <2>2, <2>3, PayerKept DEF PayosCalmInv
<1>3. ASSUME NEW r \in Requests, Busy(r)'
      PROVE  CalmStaff(r)'
  <2>1. job'[r] = job[r] /\ held'[r] = held[r] /\ Busy(r)
    BY <1>3 DEF Busy
  <2>2. job[r].order \in Orders
    BY <2>1, RequestFacts
  <2>3. ASSUME calm'[job[r].order] PROVE Untouched(job[r].order)
    <3>1. PBusy(p) => pjob[p].order # job[r].order
      BY <1>1, <2>1, <2>2, <2>3 DEF Peace
    <3>2. QED
      BY <2>2, <2>3, <3>1
  <2>4. QED
    BY <1>1, <2>1, <2>2, <2>3, StaffKept DEF PayosCalmInv
<1>4. QED
  BY <1>1, <1>2, <1>3 DEF PayosCalmInv

\* A step that only moves payment request p on.
LEMMA CalmMove ==
    ASSUME Sound, Sound', Grows, LinksKept, PayosCalmInv, NEW p \in Payers,
           UNCHANGED <<vars, link, txn, hooks, held>>, Watch, NEW j, Put(p, j),
           j.phase # "idle" => j.order \in Orders /\ CalmPayer(j)
    PROVE  PayosCalmInv'
<1>1. UNCHANGED <<live, order, export, credited, job, seen, clean, link, txn, hooks, held>>
  BY DEF vars
<1>2. pjob'[p] = j /\ \A q \in Payers \ {p} : pjob'[q] = pjob[q]
  BY DEF Put, Sound, PayosInv, PTypeOK
<1>3. \A o \in Orders : Untouched(o) /\ (calm'[o] => calm[o])
  BY <1>1 DEF Untouched, Watch
<1>4. PBusy(p)' => CalmPayer(pjob[p])'
  BY <1>1, <1>2, <1>3 DEF PBusy, CalmPayer, OfOrder
<1>5. ASSUME NEW c \in Codes
      PROVE  CalmCode(c)'
  <2>1. \A d \in Codes : CalmCode(d)
    BY DEF PayosCalmInv
  <2>2. CASE link[c].order \in Orders
    BY <1>1, <1>3, <2>1, <2>2, CodeKept
  <2>3. CASE link[c].order \notin Orders
    <3>1. txn[c].status = "none" /\ link[c].status = "none"
      BY <2>3, CodeFacts
    <3>2. QED
      BY <1>1, <3>1 DEF CalmCode
  <2>4. QED
    BY <1>1, <2>2, <2>3
<1>6. \A o \in Orders : calm'[o] => Untouched(o) \/ (PBusy(p) /\ pjob[p].order = o)
  BY <1>3
<1>7. UNCHANGED <<job, held>>
  BY <1>1
<1>8. \A q \in Payers \ {p} : pjob'[q] = pjob[q]
  BY <1>2
<1>9. \A c \in Codes : CalmCode(c)'
  BY <1>5
<1>10. QED
  BY <1>4, <1>6, <1>7, <1>8, <1>9, PayerStep

---------------------------------------------------------------------------
(* The steps of a payment request that leave the tables alone *)

\* A request starts with true copies, and finds no transaction to make one.
LEMMA LoadsCalm ==
    ASSUME Sound, Sound', Grows, LinksKept, PayosCalmInv, NEW p \in Payers,
           \/ \E o \in Orders : CreateLoad(p, o)
           \/ \E c \in Codes : Hook(p, c) \/ CheckLoad(p, c)
           \/ \E n \in Unsent : StrayHook(p, n[1], n[2])
    PROVE  PayosCalmInv'
<1>1. ASSUME NEW o \in Orders, CreateLoad(p, o)
      PROVE  PayosCalmInv'
  <2> DEFINE j == [IdlePJob EXCEPT !.phase = "calling", !.op = "create",
                                   !.order = o, !.entity = order[o]]
  <2>1. /\ Put(p, j) /\ UNCHANGED <<vars, link, txn, hooks, strays, held>> /\ Watch
        /\ OfOrder(o) = {}
    BY <1>1 DEF CreateLoad, OfOrder
  <2>2. j.phase = "calling" /\ j.op = "create" /\ j.order = o /\ j.orphans = {}
    BY DEF IdlePJob
  <2> HIDE DEF j
  <2>3. CalmPayer(j)
    BY <2>1, <2>2 DEF CalmPayer
  <2>4. QED
    BY <2>1, <2>2, <2>3, CalmMove
<1>2. ASSUME NEW c \in Codes, NEW op \in {"hook", "stray"}, NEW claim,
             Notified(p, c, op, claim), UNCHANGED hooks,
             op = "hook" => link[c].status \in {"PAID", "FAILED"} /\ claim = link[c].status
      PROVE  PayosCalmInv'
  <2> DEFINE o == txn[c].order
             e == HookRow(order[o], claim = "PAID")
             j == [IdlePJob EXCEPT !.phase = "loaded", !.op = op, !.code = c,
                                   !.order = o, !.entity = e, !.status = claim]
  <2>1. /\ o # NoOrder /\ Put(p, j) /\ txn[c].status # "PAID"
        /\ UNCHANGED <<vars, link, txn, hooks, held>> /\ Watch
    BY <1>2 DEF Notified
  <2>2. o \in live /\ o \in Orders /\ order[o] \in Row
    BY <2>1, OwnOrder, HonestRow DEF Sound
  <2>3. claim = "PAID" => e.payment_status = "PAID"
    BY <2>2 DEF HookRow, Row
  <2>4. /\ j.phase = "loaded" /\ j.op = op /\ j.order = o /\ j.orphans = {}
        /\ j.code = c /\ j.status = claim /\ j.entity = e
    BY DEF IdlePJob
  <2> HIDE DEF j, e
  <2>5. CalmPayer(j)
    BY <1>2, <2>1, <2>3, <2>4 DEF CalmPayer
  <2>6. QED
    BY <2>1, <2>2, <2>4, <2>5, CalmMove
<1>3. ASSUME NEW c \in Codes, CheckLoad(p, c)
      PROVE  PayosCalmInv'
  <2> DEFINE o == txn[c].order
             j == [IdlePJob EXCEPT !.phase = "calling", !.op = "check", !.code = c,
                                   !.order = o, !.entity = order[o],
                                   !.status = txn[c].status]
  <2>1. /\ o # NoOrder /\ Put(p, j) /\ order[o].payment_status # "PAID"
        /\ UNCHANGED <<vars, link, txn, hooks, strays, held>> /\ Watch
    BY <1>3 DEF CheckLoad
  <2>2. o \in Orders /\ (calm[o] => txn[c].status # "PAID")
    BY <2>1, OwnOrder, HonestRow DEF Sound, PayosCalmInv, CalmCode
  <2>3. /\ j.phase = "calling" /\ j.op = "check" /\ j.order = o /\ j.orphans = {}
        /\ j.code = c /\ j.status = txn[c].status
    BY DEF IdlePJob
  <2> HIDE DEF j
  <2>4. CalmPayer(j)
    BY <2>2, <2>3 DEF CalmPayer
  <2>5. QED
    BY <2>1, <2>2, <2>3, <2>4, CalmMove
<1>4. ASSUME NEW c \in Codes, Hook(p, c)
      PROVE  PayosCalmInv'
  <2>1. link[c].status \in {"PAID", "FAILED"}
    BY <1>4, PayosInvParts DEF Hook, Sound, CodesInv
  <2>2. QED
    BY <1>4, <2>1, <1>2 DEF Hook
<1>5. ASSUME NEW n \in Unsent, StrayHook(p, n[1], n[2])
      PROVE  PayosCalmInv'
  BY <1>5, <1>2, PayosAssumption DEF StrayHook
<1>6. QED
  BY <1>1, <1>3, <1>4, <1>5

LEMMA CancelLoadCalm ==
    ASSUME Sound, Sound', Grows, LinksKept, PayosCalmInv, NEW p \in Payers, CancelLoad(p)
    PROVE  PayosCalmInv'
<1> DEFINE i == pjob[p]
           o == txn[i.code].order
           e == [order[o] EXCEPT !.order_status = "CANCELLED",
                                 !.payment_status = "CANCELLED"]
           j == [i EXCEPT !.phase = "loaded", !.order = o, !.status = "CANCELLED",
                          !.entity = e]
<1>1. /\ i.phase = "calling" /\ i.op = "cancelPay" /\ o # NoOrder /\ Put(p, j)
      /\ UNCHANGED <<vars, link, txn, hooks, strays, held>> /\ Watch
  BY DEF CancelLoad
<1>2. i \in PJob /\ i.code \in Codes /\ i.order = link[i.code].order /\ CalmPayer(i)
  BY <1>1, PayerFacts DEF PBusy, PJobInv, PayerMoney, PayosCalmInv
<1>3. o = i.order /\ o \in Orders
  BY <1>1, <1>2, OwnOrder, HonestRow DEF Sound
<1>4. /\ j.phase = "loaded" /\ j.op = "cancelPay" /\ j.order = i.order
      /\ j.orphans = i.orphans /\ j.status = "CANCELLED"
  BY <1>1, <1>2, <1>3 DEF PJob
<1> HIDE DEF j
<1>5. CalmPayer(j)
  BY <1>1, <1>2, <1>4 DEF CalmPayer
<1>6. QED
  BY <1>1, <1>3, <1>4, <1>5, CalmMove

\* An answer other than PENDING is final.
LEMMA CheckAnswerCalm ==
    ASSUME Sound, Sound', Grows, LinksKept, PayosCalmInv, NEW p \in Payers, CheckAnswer(p)
    PROVE  PayosCalmInv'
<1> DEFINE i == pjob[p]
           s == link[i.code].status
           j == Answered(i, s)
<1>1. /\ i.phase = "calling" /\ i.op = "check"
      /\ Put(p, IF s = "PENDING" THEN IdlePJob ELSE j)
      /\ UNCHANGED <<vars, link, txn, hooks, strays, held>> /\ Watch
  BY DEF CheckAnswer
<1>2. i \in PJob /\ i.order \in Orders /\ CalmPayer(i)
  BY <1>1, PayerFacts DEF PBusy, PayosCalmInv
<1>3. CASE s = "PENDING"
  BY <1>1, <1>3, CalmMove DEF IdlePJob
<1>4. CASE s # "PENDING"
  <2>1. /\ j.phase = "loaded" /\ j.code = i.code /\ j.order = i.order /\ j.op = "check"
        /\ j.orphans = i.orphans
        /\ s = "PAID" => j.entity.payment_status = "PAID" /\ j.status = i.status
        /\ s # "PAID" => j.status = s
    BY <1>1, <1>2 DEF Answered, PJob, Row
  <2> HIDE DEF j
  <2>2. CalmPayer(j)
    BY <1>1, <1>2, <1>4, <2>1 DEF CalmPayer
  <2>3. QED
    BY <1>1, <1>2, <1>4, <2>1, <2>2, CalmMove
<1>5. QED
  BY <1>3, <1>4

\* The rows that are compared are the ones the copies were made of.
LEMMA PDiffCalm ==
    ASSUME Sound, Sound', Grows, LinksKept, PayosCalmInv, NEW p \in Payers, PDiff(p)
    PROVE  PayosCalmInv'
<1> DEFINE i == pjob[p]
           d == {c \in PSavedColumns(i.op) : i.entity[c] # order[i.order][c]}
           t == {f \in {"status", "order"} : txn[i.code][f] # i[f]}
           w == IF i.op = "create" THEN OfOrder(i.order) ELSE {}
           j == [i EXCEPT !.phase = "diffed", !.dirty = d, !.tdirty = t, !.orphans = w]
<1>1. /\ i.phase = "loaded" /\ Put(p, j)
      /\ UNCHANGED <<vars, link, txn, hooks, strays, held>> /\ Watch
  BY DEF PDiff, OfOrder
<1>2. i \in PJob /\ i.order \in Orders /\ CalmPayer(i)
  BY <1>1, PayerFacts DEF PBusy, PayosCalmInv
<1>3. "payment_status" \notin d => i.entity.payment_status = order[i.order].payment_status
  BY DEF PSavedColumns, Columns
<1>4. "status" \notin t => i.status = txn[i.code].status
  OBVIOUS
<1> HIDE DEF d, t
<1>5. \A c \in w : txn[c].status # "none" /\ link[c].order = i.order
  BY <1>2, OfOrderFacts
<1>6. calm[i.order] => w = {}
  BY <1>2 DEF CalmPayer
<1> HIDE DEF w
<1>7. /\ j.phase = "diffed" /\ j.code = i.code /\ j.order = i.order /\ j.op = i.op
      /\ j.status = i.status /\ j.entity = i.entity /\ j.orphans = w /\ j.dirty = d
      /\ j.tdirty = t
  BY <1>2 DEF PJob
<1> HIDE DEF j
<1>8. CalmPayer(j)
  BY <1>1, <1>2, <1>3, <1>4, <1>5, <1>6, <1>7 DEF CalmPayer
<1>9. QED
  BY <1>1, <1>2, <1>7, <1>8, CalmMove

LEMMA PAbortCalm ==
    ASSUME Sound, Sound', Grows, LinksKept, PayosCalmInv, NEW p \in Payers, PAbort(p)
    PROVE  PayosCalmInv'
<1>1. IdlePJob.phase = "idle"
  BY DEF IdlePJob
<1>2. QED
  BY <1>1, CalmMove DEF PAbort

---------------------------------------------------------------------------
(* The gateway's steps *)

\* A link that changes without its order's transactions.
LEMMA LinkCodes ==
    ASSUME Sound, PayosCalmInv, NEW c \in Codes, UNCHANGED <<txn, order>>,
           \A o \in Orders : calm'[o] => calm[o],
           \A b \in Codes \ {c} : link'[b] = link[b],
           \A b \in Codes \ {c} : b \in hooks => b \in hooks',
           txn[c].status # "none" => link'[c].order = link[c].order,
           link'[c].status \notin {"none", "PENDING"} => txn[c].status # "none",
           link'[c].status = "PAID" => c \in hooks'
    PROVE  \A b \in Codes : CalmCode(b)'
<1>1. \A b \in Codes : CalmCode(b)
  BY DEF PayosCalmInv
<1>2. \A b \in Codes : txn[b].status # "none" =>
          link[b].order \in Orders /\ link'[b].order = link[b].order
  BY CodeFacts
<1>3. ASSUME NEW b \in Codes
      PROVE  CalmCode(b)'
  <2>1. link'[b].status \notin {"none", "PENDING"} => txn'[b].status # "none"
    BY <1>1 DEF CalmCode
  <2>2. ASSUME txn[b].status # "none", calm'[link'[b].order]
        PROVE  /\ txn[b].order = link'[b].order
               /\ \A d \in Codes : txn[d].status # "none" /\ link'[d].order = link'[b].order
                                     => d = b
               /\ link'[b].status = "PAID" => b \in hooks' \/ txn[b].status = "PAID"
               /\ txn[b].status = "PAID" => order[link'[b].order].payment_status = "PAID"
    <3>1. calm[link[b].order]
      BY <1>2, <2>2
    <3>2. QED
      BY <1>1, <1>2, <2>2, <3>1 DEF CalmCode
  <2>3. QED
    BY <2>1, <2>2 DEF CalmCode
<1>4. QED
  BY <1>3

LEMMA CreateLinkCalm ==
    ASSUME Sound, Sound', Grows, LinksKept, PayosCalmInv, NEW p \in Payers, NEW c \in Codes,
           CreateLink(p, c)
    PROVE  PayosCalmInv'
<1> DEFINE i == pjob[p]
           j == [i EXCEPT !.phase = "loaded", !.code = c, !.status = "PENDING",
                          !.entity.order_status = "PENDING",
                          !.entity.payment_status = "PENDING"]
<1>1. /\ i.phase = "calling" /\ i.op = "create" /\ link[c].status = "none"
      /\ link' = [link EXCEPT ![c] = [status |-> "PENDING", order |-> i.order]]
      /\ Put(p, j) /\ Watch
      /\ UNCHANGED <<live, order, export, credited, job, seen, clean, txn, hooks, strays, held>>
  BY DEF CreateLink, vars
<1>2. i \in PJob /\ i.order \in Orders /\ CalmPayer(i)
  BY <1>1, PayerFacts DEF PBusy, PayosCalmInv
<1>3. /\ link'[c] = [status |-> "PENDING", order |-> i.order]
      /\ \A b \in Codes \ {c} : link'[b] = link[b]
  BY <1>1 DEF Sound, PayosInv, PTypeOK
<1>4. /\ pjob'[p] = j /\ \A q \in Payers \ {p} : pjob'[q] = pjob[q]
  BY <1>1 DEF Put, Sound, PayosInv, PTypeOK
<1>5. /\ j.phase = "loaded" /\ j.op = "create" /\ j.order = i.order
      /\ j.orphans = i.orphans
  BY <1>1, <1>2 DEF PJob
<1> HIDE DEF j
<1>6. txn[c].status = "none"
  BY <1>1, CodeFacts
<1>7. \A o \in Orders : calm'[o] => calm[o]
  BY <1>1 DEF Watch
<1>8. \A b \in Codes : CalmCode(b)'
  BY <1>1, <1>3, <1>6, <1>7, LinkCodes
<1>9. CalmPayer(pjob[p])'
  <2>1. \A b \in i.orphans : b \in Codes /\ b # c
    BY <1>2, <1>6 DEF PJob, CalmPayer
  <2>2. QED
    BY <1>1, <1>2, <1>3, <1>4, <1>5, <1>7, <2>1 DEF CalmPayer, OfOrder
<1>10. \A o \in Orders : Untouched(o)
  BY <1>1 DEF Untouched
<1>11. QED
  BY <1>1, <1>4, <1>8, <1>9, <1>10, PayerStep

LEMMA CancelLinkCalm ==
    ASSUME Sound, Sound', Grows, LinksKept, PayosCalmInv, NEW p \in Payers, NEW c \in Codes,
           CancelLink(p, c)
    PROVE  PayosCalmInv'
<1> DEFINE j == [IdlePJob EXCEPT !.phase = "calling", !.op = "cancelPay",
                                 !.code = c, !.order = link[c].order]
<1>1. /\ txn[c].status # "none" /\ link[c].status = "PENDING"
      /\ link' = [link EXCEPT ![c].status = "CANCELLED"]
      /\ Put(p, j) /\ Watch
      /\ UNCHANGED <<live, order, export, credited, job, seen, clean, txn, hooks, strays, held>>
  BY DEF CancelLink, vars
<1>2. /\ link'[c].status = "CANCELLED" /\ link'[c].order = link[c].order
      /\ \A b \in Codes \ {c} : link'[b] = link[b]
  BY <1>1 DEF Sound, PayosInv, PTypeOK, Link
<1>3. pjob'[p] = j /\ \A q \in Payers \ {p} : pjob'[q] = pjob[q]
  BY <1>1 DEF Put, Sound, PayosInv, PTypeOK
<1>4. /\ j.phase = "calling" /\ j.op = "cancelPay" /\ j.order = link[c].order
      /\ j.orphans = {} /\ j.status = "PENDING"
  BY DEF IdlePJob
<1> HIDE DEF j
<1>5. \A o \in Orders : calm'[o] => calm[o]
  BY <1>1 DEF Watch
<1>6. \A b \in Codes : CalmCode(b)'
  BY <1>1, <1>2, <1>5, LinkCodes, CodeFacts
<1>7. CalmPayer(pjob[p])'
  BY <1>3, <1>4 DEF CalmPayer
<1>8. \A o \in Orders : Untouched(o)
  BY <1>1 DEF Untouched
<1>9. QED
  BY <1>1, <1>3, <1>6, <1>7, <1>8, PayerStep

\* A step that no request takes.
LEMMA StillCalm ==
    ASSUME Sound, Sound', Grows, LinksKept, PayosCalmInv,
           UNCHANGED <<live, order, job, txn, pjob, held, calm>>,
           \A c \in Codes : CalmCode(c)'
    PROVE  PayosCalmInv'
<1>1. \A o \in Orders : Untouched(o) /\ (calm'[o] => calm[o])
  BY DEF Untouched
<1>2. \A q \in Payers : PBusy(q)' => CalmPayer(pjob[q])'
  <2>1. ASSUME NEW q \in Payers, PBusy(q)'
        PROVE  CalmPayer(pjob[q])'
    <3>1. PBusy(q) /\ pjob'[q] = pjob[q]
      BY <2>1 DEF PBusy
    <3>2. QED
      BY <1>1, <3>1, PayerKept, PayerFacts DEF PayosCalmInv
  <2>2. QED
    BY <2>1
<1>3. \A r \in Requests : Busy(r)' => CalmStaff(r)'
  <2>1. ASSUME NEW r \in Requests, Busy(r)'
        PROVE  CalmStaff(r)'
    <3>1. Busy(r) /\ job'[r] = job[r] /\ held'[r] = held[r]
      BY <2>1 DEF Busy
    <3>2. QED
      BY <1>1, <3>1, StaffKept, RequestFacts DEF PayosCalmInv
  <2>2. QED
    BY <2>1
<1>4. \A o \in Orders : calm'[o] => Peace(o)'
  BY DEF PayosCalmInv, Peace, Alone, Busy, PBusy
<1>5. QED
  BY <1>2, <1>3, <1>4 DEF PayosCalmInv

LEMMA SettleCalm ==
    ASSUME Sound, Sound', Grows, LinksKept, PayosCalmInv, NEW c \in Codes,
           NEW s \in {"PAID", "FAILED", "EXPIRED", "CANCELLED"}, Settle(c, s),
           hooks \subseteq hooks', s = "PAID" => c \in hooks'
    PROVE  PayosCalmInv'
<1>1. /\ txn[c].status # "none" /\ link[c].status = "PENDING"
      /\ link' = [link EXCEPT ![c].status = s]
      /\ UNCHANGED <<live, order, export, credited, job, seen, clean, txn, strays, pjob, held, calm>>
  BY DEF Settle, vars
<1>2. /\ link'[c].status = s /\ link'[c].order = link[c].order
      /\ \A b \in Codes \ {c} : link'[b] = link[b]
  BY <1>1 DEF Sound, PayosInv, PTypeOK, Link
<1>3. \A b \in Codes : CalmCode(b)'
  BY <1>1, <1>2, LinkCodes
<1>4. QED
  BY <1>1, <1>3, StillCalm

\* A notification that is acknowledged without a save has been handled.
LEMMA HookKnownCalm ==
    ASSUME Sound, Sound', Grows, LinksKept, PayosCalmInv, NEW c \in Codes, HookKnown(c)
    PROVE  PayosCalmInv'
<1>1. /\ txn[c].status = "PAID" /\ hooks' = hooks \ {c}
      /\ UNCHANGED <<live, order, export, credited, job, seen, clean, link, txn, strays, pjob, held, calm>>
  BY DEF HookKnown, vars
<1>2. \A b \in Codes : CalmCode(b)
  BY DEF PayosCalmInv
<1>3. \A b \in Codes : CalmCode(b)'
  BY <1>1, <1>2 DEF CalmCode
<1>4. QED
  BY <1>1, <1>3, StillCalm

---------------------------------------------------------------------------
(* The commit of a payment request *)

\* What a commit does to the tables.
LEMMA CommitTables ==
    ASSUME Sound, NEW p \in Payers, PCommit(p)
    PROVE  /\ txn' = [c \in Codes |->
                  IF c = pjob[p].code THEN PSavedTxn(pjob[p])
                  ELSE IF c \in pjob[p].orphans THEN [txn[c] EXCEPT !.order = NoOrder]
                  ELSE txn[c]]
           /\ pjob[p].code \in Codes
           /\ link[pjob[p].code].order = pjob[p].order
           /\ order'[pjob[p].order] = PSavedRow(pjob[p])
           /\ \A o \in Orders \ {pjob[p].order} : order'[o] = order[o]
           /\ UNCHANGED <<link, job, held>> /\ Watch
           /\ \A c \in hooks : c \in hooks' \/ (pjob[p].op = "hook" /\ c = pjob[p].code)
           /\ pjob'[p] = IdlePJob /\ \A q \in Payers \ {p} : pjob'[q] = pjob[q]
           /\ pjob[p].phase = "diffed" /\ PBusy(p)
<1> DEFINE j == pjob[p]
<1>1. j.phase = "diffed" /\ PBusy(p)
  BY DEF PCommit, PBusy
<1>2. j.code \in Codes /\ j.order = link[j.code].order /\ j.order \in Orders
  BY <1>1, PayerFacts DEF PJobInv, PayerMoney
<1>3. order \in [Orders -> Row] /\ pjob \in [Payers -> PJob]
  BY DEF Sound, LifecycleInv, TypeOK, PayosInv, PTypeOK
<1>4. order'[j.order] = PSavedRow(j) /\ \A o \in Orders \ {j.order} : order'[o] = order[o]
  BY <1>2, <1>3 DEF PCommit
<1>5. pjob'[p] = IdlePJob /\ \A q \in Payers \ {p} : pjob'[q] = pjob[q]
  BY <1>3 DEF PCommit, Put
<1>6. \A c \in hooks : c \in hooks' \/ (j.op = "hook" /\ c = j.code)
  BY DEF PCommit
<1>7. QED
  BY <1>1, <1>2, <1>4, <1>5, <1>6 DEF PCommit

\* The calm order that the request worked on has the one transaction, and the
\* request brings the payment if the gateway took it.
LEMMA CommitOwn ==
    ASSUME Sound, Sound', PayosCalmInv, NEW p \in Payers, PCommit(p),
           LET u == pjob[p].order IN calm'[u],
           NEW c \in Codes, link[c].order = pjob[p].order, txn'[c].status # "none"
    PROVE  /\ txn'[c].order = pjob[p].order
           /\ c = pjob[p].code
           /\ link[c].status = "PAID" => c \in hooks' \/ txn'[c].status = "PAID"
           /\ txn'[c].status = "PAID" => order'[pjob[p].order].payment_status = "PAID"
<1> DEFINE j == pjob[p]
           u == j.order
           b == j.code
<1>1. /\ j.phase = "diffed" /\ j \in PJob /\ PJobInv(j) /\ u \in Orders
      /\ j.op \in {"create", "cancelPay", "hook", "stray", "check"}
  BY CommitTables, PayerFacts
<1>2. calm[u] /\ CalmPayer(j) /\ CalmCode(b) /\ CalmCode(c)
  BY <1>1, CommitTables DEF Watch, PayosCalmInv
<1>3. j.orphans = {} /\ txn'[b] = PSavedTxn(j) /\ (c # b => txn'[c] = txn[c])
  BY <1>2, CommitTables DEF CalmPayer
<1>4. CASE j.op = "create"
  <2>1. \A d \in Codes : link[d].order = u => txn[d].status = "none"
    <3>1. OfOrder(u) = {}
      BY <1>2, <1>4 DEF CalmPayer
    <3>2. \A d \in Codes : txn[d].status # "none" /\ link[d].order = u => txn[d].order = u
      BY <1>2 DEF PayosCalmInv, CalmCode
    <3>3. QED
      BY <3>1, <3>2 DEF OfOrder
  <2>2. c = b
    BY <1>3, <2>1
  <2>3. link[b].status \in {"none", "PENDING"}
    BY <1>2, <2>1, CommitTables DEF CalmCode
  <2>4. txn'[b].order = u
    BY <1>3, <1>4 DEF PSavedTxn, LocksFirst
  <2>5. txn'[b].status # "PAID"
    BY <1>1, <1>3, <1>4 DEF PSavedTxn, LocksFirst, PJobInv
  <2>6. QED
    BY <2>2, <2>3, <2>4, <2>5
<1>5. CASE j.op # "create"
  <2>1. txn[b].status # "none" /\ b \in Codes /\ link[b].order = u
    BY <1>1, <1>5, CommitTables DEF PJobInv
  <2>2. txn[b].order = u /\ \A d \in Codes : txn[d].status # "none" /\ link[d].order = u => d = b
    BY <1>2, <2>1 DEF CalmCode
  <2>3. c = b
    BY <1>3, <2>2
  <2>4. txn'[b].order = u
    BY <1>3, <2>2 DEF PSavedTxn
  <2>5. txn'[b].status = j.status
    BY <1>1, <1>2, <1>3 DEF PSavedTxn, CalmPayer
  <2>6. j.entity.payment_status = "PAID" => order'[u].payment_status = "PAID"
    <3>1. PSavedRow(j).payment_status = "PAID" \/ j.entity.payment_status # "PAID"
      BY <1>1, <1>2 DEF PSavedRow, CalmPayer
    <3>2. QED
      BY <3>1, CommitTables
  <2>7. j.status = "PAID" => j.entity.payment_status = "PAID"
    BY <1>1, <1>2, <1>5, <2>1 DEF CalmPayer
  <2>8. ASSUME link[b].status = "PAID"
        PROVE  b \in hooks' \/ j.status = "PAID"
    <3>1. b \in hooks \/ txn[b].status = "PAID"
      BY <1>2, <2>1, <2>8 DEF CalmCode
    <3>2. j.op \in {"hook", "stray", "check"}
      BY <1>1, <1>5, <2>8 DEF PJobInv
    <3>3. CASE j.op = "hook"
      BY <1>2, <2>8, <3>3 DEF CalmPayer
    <3>4. CASE j.op = "stray"
      BY <1>2, <3>1, <3>4, CommitTables DEF CalmPayer
    <3>5. CASE j.op = "check"
      BY <1>2, <2>8, <3>1, <3>5, CommitTables DEF CalmPayer
    <3>6. QED
      BY <3>2, <3>3, <3>4, <3>5
  <2>9. QED
    BY <2>3, <2>4, <2>5, <2>6, <2>7, <2>8
<1>6. QED
  BY <1>4, <1>5

LEMMA PCommitCalm ==
    ASSUME Sound, Sound', Grows, LinksKept, PayosCalmInv, NEW p \in Payers, PCommit(p)
    PROVE  PayosCalmInv'
<1> DEFINE j == pjob[p]
           u == j.order
<1>1. CalmPayer(j) /\ u \in Orders /\ j \in PJob
  BY CommitTables, PayerFacts DEF PayosCalmInv
<1>2. \A o \in Orders \ {u} : Untouched(o)
  <2>1. ASSUME NEW o \in Orders \ {u}, NEW c \in Codes, o \in {link[c].order, link'[c].order}
        PROVE  txn'[c] = txn[c]
    <3>1. link[c].order # u
      BY <2>1, CommitTables
    <3>2. c # j.code /\ c \notin j.orphans
      BY <1>1, <3>1, CommitTables DEF CalmPayer
    <3>3. QED
      BY <3>2, CommitTables
  <2>2. QED
    BY <2>1, CommitTables DEF Untouched
<1>3. ASSUME NEW c \in Codes
      PROVE  CalmCode(c)'
  <2>1. CASE link[c].order = u
    <3>1. link'[c] = link[c]
      BY CommitTables
    <3>2. link[c].status \notin {"none", "PENDING"} => txn'[c].status # "none"
      BY DEF PayosCalmInv, CalmCode, Grows
    <3>3. ASSUME txn'[c].status # "none", calm'[u]
          PROVE  \A d \in Codes : txn'[d].status # "none" /\ link'[d].order = u => d = c
      BY <2>1, <3>3, CommitOwn, CommitTables
    <3>4. QED
      BY <2>1, <3>1, <3>2, <3>3, CommitOwn DEF CalmCode
  <2>2. CASE link[c].order # u /\ link[c].order \in Orders
    <3>1. Untouched(link[c].order) /\ (calm'[link[c].order] => calm[link[c].order])
      BY <1>2, <2>2, CommitTables DEF Watch
    <3>2. c \in hooks => c \in hooks'
      BY <2>2, CommitTables
    <3>3. QED
      BY <3>1, <3>2, CodeKept, CommitTables DEF PayosCalmInv
  <2>3. CASE link[c].order \notin Orders
    <3>1. link[c].status = "none" /\ txn[c].status = "none" /\ link'[c] = link[c]
      BY <2>3, CodeFacts, CommitTables
    <3>2. txn'[c].status = "none"
      BY <3>1, CodeFacts DEF Sound, PayosInv
    <3>3. QED
      BY <3>1, <3>2 DEF CalmCode
  <2>4. QED
    BY <2>1, <2>2, <2>3
<1>4. ~PBusy(p)'
  BY CommitTables DEF PBusy, IdlePJob
<1>5. \A o \in Orders : calm'[o] => Untouched(o) \/ (PBusy(p) /\ pjob[p].order = o)
  BY <1>2, CommitTables
<1>6. UNCHANGED <<job, held>> /\ Watch /\ \A q \in Payers \ {p} : pjob'[q] = pjob[q]
  BY CommitTables
<1>7. \A c \in Codes : CalmCode(c)'
  BY <1>3
<1>8. PBusy(p)' => CalmPayer(pjob[p])'
  BY <1>4
<1>9. QED
  BY <1>5, <1>6, <1>7, <1>8, PayerStep


---------------------------------------------------------------------------
(* The staff requests *)

\* A step of the staff requests in S (one or none): the others are as they
\* were, and the step only touches the orders that those in S worked on.
LEMMA StaffFrame ==
    ASSUME Sound, Sound', Grows, LinksKept, PayosCalmInv, NEW S \in SUBSET Requests,
           UNCHANGED <<link, hooks, strays, pjob>>, Watch,
           \A q \in Requests \ S : job'[q] = job[q] /\ held'[q] = held[q],
           \A o \in Orders : calm'[o] =>
              Untouched(o) \/ (\E r \in S : Busy(r) /\ job[r].order = o),
           \A r \in S : Busy(r)' => CalmStaff(r)',
           \A c \in Codes : (\E r \in S : Busy(r) /\ job[r].order = link[c].order) => CalmCode(c)'
    PROVE  PayosCalmInv'
<1>1. \A o \in Orders : calm'[o] => calm[o] /\ Peace(o) /\ Peace(o)'
  BY DEF Watch, PayosCalmInv
<1>2. ASSUME NEW q \in Payers, PBusy(q)'
      PROVE  CalmPayer(pjob[q])'
  <2>1. pjob'[q] = pjob[q] /\ PBusy(q)
    BY <1>2 DEF PBusy
  <2>2. pjob[q].order \in Orders
    BY <2>1, PayerFacts
  <2>3. ASSUME calm'[pjob[q].order] PROVE Untouched(pjob[q].order)
    <3>1. \A r \in S : Busy(r) => job[r].order # pjob[q].order
      BY <1>1, <2>1, <2>2, <2>3 DEF Peace
    <3>2. QED
      BY <2>2, <2>3, <3>1
  <2>4. QED
    BY <1>1, <2>1, <2>2, <2>3, PayerKept DEF PayosCalmInv
<1>3. ASSUME NEW r \in Requests \ S, Busy(r)'
      PROVE  CalmStaff(r)'
  <2>1. job'[r] = job[r] /\ held'[r] = held[r] /\ Busy(r)
    BY <1>3 DEF Busy
  <2>2. job[r].order \in Orders
    BY <2>1, RequestFacts
  <2>3. ASSUME calm'[job[r].order] PROVE Untouched(job[r].order)
    <3>1. \A q \in S : Busy(q) => job[q].order # job[r].order
      BY <1>1, <2>1, <2>2, <2>3 DEF Peace, Alone
    <3>2. QED
      BY <2>2, <2>3, <3>1
  <2>4. QED
    BY <1>1, <2>1, <2>2, <2>3, StaffKept DEF PayosCalmInv
<1>4. ASSUME NEW c \in Codes
      PROVE  CalmCode(c)'
  <2>1. CASE \E r \in S : Busy(r) /\ job[r].order = link[c].order
    BY <2>1
  <2>2. CASE /\ link[c].order \in Orders
             /\ ~ \E r \in S : Busy(r) /\ job[r].order = link[c].order
    BY <1>1, <2>2, CodeKept DEF PayosCalmInv
  <2>3. CASE link[c].order \notin Orders
    <3>1. link[c].status = "none" /\ link'[c] = link[c]
      BY <2>3, CodeFacts
    <3>2. txn'[c].status = "none"
      BY <3>1, CodeFacts DEF Sound, PayosInv
    <3>3. QED
      BY <3>1, <3>2 DEF CalmCode
  <2>4. QED
    BY <2>1, <2>2, <2>3
<1>5. QED
  BY <1>1, <1>2, <1>3, <1>4 DEF PayosCalmInv

\* A staff step that leaves the transactions alone, and the live orders' rows.
LEMMA StaffMove ==
    ASSUME Sound, Sound', Grows, LinksKept, PayosCalmInv, NEW S \in SUBSET Requests, Staff,
           UNCHANGED txn, \A o \in live : order'[o] = order[o],
           \A q \in Requests \ S : job'[q] = job[q],
           \A r \in S : Busy(r)' => CalmStaff(r)'
    PROVE  PayosCalmInv'
<1>1. /\ UNCHANGED <<link, hooks, strays, pjob>> /\ Watch
      /\ \A q \in Requests : held'[q] = NextHeld(q)
  BY DEF Staff
<1>2. \A q \in Requests \ S : job'[q] = job[q] /\ held'[q] = held[q]
  BY <1>1 DEF NextHeld
<1>3. \A o \in Orders : Untouched(o)
  BY DEF Untouched
<1>4. ASSUME NEW c \in Codes, \E r \in S : Busy(r) /\ job[r].order = link[c].order
      PROVE  CalmCode(c)'
  <2>1. link[c].order \in Orders
    BY <1>4, RequestFacts
  <2>2. Untouched(link[c].order) /\ (calm'[link[c].order] => calm[link[c].order])
    BY <1>1, <1>3, <2>1 DEF Watch
  <2>3. QED
    BY <1>1, <2>2, CodeKept DEF PayosCalmInv
<1>5. QED
  BY <1>1, <1>2, <1>3, <1>4, StaffFrame

\* Such a step of one request.
LEMMA OneStaffMove ==
    ASSUME Sound, Sound', Grows, LinksKept, PayosCalmInv, NEW r \in Requests, Staff,
           UNCHANGED txn, \A o \in live : order'[o] = order[o],
           \A q \in Requests \ {r} : job'[q] = job[q],
           Busy(r)' => CalmStaff(r)'
    PROVE  PayosCalmInv'
<1>1. {r} \in SUBSET Requests /\ \A q \in {r} : Busy(q)' => CalmStaff(q)'
  OBVIOUS
<1>2. QED
  BY <1>1, StaffMove

\* A request starts with a true copy of the row and of the list.
LEMMA HandleCalm ==
    ASSUME Sound, Sound', Grows, LinksKept, PayosCalmInv, NEW r \in Requests, NEW o \in Orders,
           Handle(r, o), Staff, UNCHANGED txn
    PROVE  PayosCalmInv'
<1>1. PICK op, e : /\ Hold(r, o, op, e)
                   /\ order[o].payment_status = "PAID" => e.payment_status = "PAID"
  BY HandleKeepsPaid DEF Sound
<1> DEFINE j == [IdleJob EXCEPT
                   !.phase = "loaded", !.op = op, !.order = o, !.entity = e,
                   !.exported = LoadsAll(op) /\ export[o] = "linked",
                   !.saves = Saves(op)]
<1>2. /\ ~Busy(r) /\ job' = [job EXCEPT ![r] = j]
      /\ UNCHANGED <<live, order, export, credited, seen>>
  BY <1>1 DEF Hold
<1>3. j.phase = "loaded" /\ j.op = op /\ j.order = o /\ j.entity = e
  BY DEF IdleJob
<1> HIDE DEF j
<1>4. job'[r] = j /\ \A q \in Requests \ {r} : job'[q] = job[q]
  BY <1>2 DEF Sound, LifecycleInv, TypeOK
<1>5. held'[r] = IF LoadsAll(op) THEN [NothingHeld EXCEPT !.list = OfOrder(o)] ELSE NothingHeld
  <2>1. j # job[r]
    BY <1>2, <1>3 DEF Busy
  <2>2. held'[r] = NextHeld(r)
    BY DEF Staff
  <2>3. NextHeld(r) = IF ~LoadsAll(op) THEN NothingHeld
                      ELSE [NothingHeld EXCEPT !.list = OfOrder(o)]
    BY <1>2, <1>3, <1>4, <2>1 DEF NextHeld
  <2>4. QED
    BY <2>2, <2>3
<1>6. held'[r].orphans = {} /\ (LoadsAll(op) => held'[r].list = OfOrder(o))
  BY <1>5 DEF NothingHeld
<1>7. CalmStaff(r)'
  BY <1>1, <1>2, <1>3, <1>4, <1>6 DEF CalmStaff, OfOrder
<1>8. QED
  BY <1>2, <1>4, <1>7, OneStaffMove

\* A request that reads the rows again has seen all there is.
LEMMA DiffCalm ==
    ASSUME Sound, Sound', Grows, LinksKept, PayosCalmInv, NEW r \in Requests,
           Diff(r) \/ Resave(r), Staff, UNCHANGED txn
    PROVE  PayosCalmInv'
<1> DEFINE i == job[r]
           has == OfOrder(i.order)
<1>1. Busy(r) /\ i \in Job /\ i.order \in Orders /\ held[r] \in Held
  BY RequestFacts DEF Diff, Resave, Busy
<1>2. CalmStaff(r)
  BY <1>1 DEF PayosCalmInv
<1>3. PICK j : /\ job' = [job EXCEPT ![r] = j]
               /\ j.order = i.order /\ j.op = i.op /\ j.entity = i.entity
               /\ j.phase \in {"loaded", "diffed"} \ {i.phase}
  <2>1. CASE Diff(r)
    <3>1. /\ Compared(i).order = i.order /\ Compared(i).op = i.op
          /\ Compared(i).entity = i.entity /\ Compared(i).phase = "diffed"
      BY <1>1 DEF Compared, Job
    <3>2. QED
      BY <2>1, <3>1 DEF Diff
  <2>2. CASE Resave(r)
    <3> DEFINE j == [i EXCEPT !.phase = "loaded", !.dirty = {}, !.saves = 1,
                              !.credits = Credits(i)]
    <3>1. job' = [job EXCEPT ![r] = j] /\ i.phase = "diffed"
      BY <2>2 DEF Resave
    <3>2. j.order = i.order /\ j.op = i.op /\ j.entity = i.entity /\ j.phase = "loaded"
      BY <1>1 DEF Job
    <3> HIDE DEF j
    <3>3. QED
      BY <3>1, <3>2
  <2>3. QED
    BY <2>1, <2>2
<1>4. job'[r] = j /\ (\A q \in Requests \ {r} : job'[q] = job[q]) /\ UNCHANGED order
  BY <1>3 DEF Sound, LifecycleInv, TypeOK, Diff, Resave
<1>5. held'[r] = IF ~LoadsAll(i.op) THEN NothingHeld
                 ELSE IF j.phase = "diffed"
                        THEN [held[r] EXCEPT !.orphans = has \ held[r].list,
                                             !.adopts = held[r].list \ has]
                 ELSE [NothingHeld EXCEPT !.list = held[r].list]
  <2>1. j # i /\ j.phase # "idle"
    BY <1>3
  <2>2. QED
    BY <1>1, <1>3, <1>4, <2>1 DEF Staff, NextHeld
<1>6. /\ held'[r].orphans \subseteq has \ held[r].list
      /\ LoadsAll(i.op) => held'[r].list = held[r].list
      /\ held'[r].orphans # {} => LoadsAll(i.op)
  <2>1. CASE ~LoadsAll(i.op)
    BY <1>5, <2>1 DEF NothingHeld
  <2>2. CASE LoadsAll(i.op) /\ j.phase = "diffed"
    BY <1>1, <1>5, <2>2 DEF Held
  <2>3. CASE LoadsAll(i.op) /\ j.phase # "diffed"
    BY <1>5, <2>3 DEF NothingHeld
  <2>4. QED
    BY <2>1, <2>2, <2>3
<1>7. \A c \in held'[r].orphans : txn'[c].status # "none" /\ link'[c].order = i.order
  <2>1. UNCHANGED link
    BY DEF Staff
  <2>2. QED
    BY <1>1, <1>6, <2>1, OfOrderFacts
<1>8. calm'[i.order] => calm[i.order]
  BY <1>1 DEF Staff, Watch
<1>9. CalmStaff(r)'
  BY <1>2, <1>3, <1>4, <1>6, <1>7, <1>8 DEF CalmStaff, OfOrder
<1>10. QED
  BY <1>4, <1>9, OneStaffMove

\* A request that dies, an order that is made, an export that is deleted.
LEMMA OtherStaffCalm ==
    ASSUME Sound, Sound', Grows, LinksKept, PayosCalmInv, Staff, UNCHANGED txn,
           \/ \E r \in Requests : Abort(r)
           \/ \E o \in Orders : RemoveExport(o) \/ \E m \in Methods : CreateOrder(o, m)
    PROVE  PayosCalmInv'
<1>1. ASSUME NEW r \in Requests, Abort(r)
      PROVE  PayosCalmInv'
  <2>1. /\ job'[r] = IdleJob /\ UNCHANGED order
        /\ \A q \in Requests \ {r} : job'[q] = job[q]
    BY <1>1 DEF Abort, Sound, LifecycleInv, TypeOK
  <2>2. ~Busy(r)'
    BY <2>1 DEF Busy, IdleJob
  <2>3. QED
    BY <2>1, <2>2, OneStaffMove
<1>2. ASSUME NEW o \in Orders, RemoveExport(o) \/ \E m \in Methods : CreateOrder(o, m)
      PROVE  PayosCalmInv'
  <2>1. UNCHANGED job
    BY <1>2 DEF RemoveExport, CreateOrder
  <2>2. \A u \in live : order'[u] = order[u]
    <3>1. CASE RemoveExport(o)
      BY <3>1 DEF RemoveExport
    <3>2. ASSUME NEW m \in Methods, CreateOrder(o, m)
          PROVE  \A u \in live : order'[u] = order[u]
      <4>1. o \notin live
        BY <3>2 DEF CreateOrder, Sound, LifecycleInv, StatusTrail
      <4>2. QED
        BY <3>2, <4>1 DEF CreateOrder, Sound, LifecycleInv, TypeOK
    <3>3. QED
      BY <1>2, <3>1, <3>2
  <2>3. {} \in SUBSET Requests
    OBVIOUS
  <2>4. QED
    BY <2>1, <2>2, <2>3, StaffMove
<1>3. QED
  BY <1>1, <1>2

\* A commit writes the payment that its copy knows of, and takes no
\* transaction away from an order that the request had to itself.
LEMMA CommitCalm ==
    ASSUME Sound, Sound', Grows, LinksKept, PayosCalmInv, NEW r \in Requests,
           Commit(r), txn' = Regrouped(r), Staff
    PROVE  PayosCalmInv'
<1> DEFINE j == job[r]
           u == j.order
           again == LoadsAll(j.op) /\ Rewrites(j)
           orphans == IF again THEN OfOrder(u) \ held[r].list ELSE held[r].orphans
           adopts == IF again THEN held[r].list ELSE held[r].adopts
<1>1. Busy(r) /\ j \in Job /\ u \in live /\ u \in Orders
  BY RequestFacts DEF Commit, Busy
<1>2. CalmStaff(r)
  BY <1>1 DEF PayosCalmInv
<1>3. /\ \A c \in Codes : /\ txn'[c].status = txn[c].status
                          /\ c \in orphans => txn'[c].order = NoOrder
                          /\ c \notin orphans /\ c \in adopts => txn'[c].order = u
                          /\ c \notin orphans /\ c \notin adopts => txn'[c] = txn[c]
  <2>1. \A c \in Codes : txn'[c] = [txn[c] EXCEPT !.order = IF c \in orphans THEN NoOrder
                                      ELSE IF c \in adopts THEN u ELSE @]
    BY DEF Regrouped
  <2>2. \A c \in Codes : txn[c] \in Txn
    BY CodeFacts
  <2> HIDE DEF orphans, adopts
  <2>3. QED
    BY <2>1, <2>2 DEF Txn
<1>4. /\ \A c \in orphans \cup adopts : link[c].order = u
      /\ calm[u] => orphans = {}
  BY <1>1, <1>2, OfOrderFacts, RequestFacts DEF CalmStaff
<1> HIDE DEF orphans, adopts
<1>5. /\ order'[u] = SavedRow(j) /\ \A o \in Orders \ {u} : order'[o] = order[o]
      /\ job'[r] = IdleJob /\ \A q \in Requests \ {r} : job'[q] = job[q]
  BY <1>1 DEF Commit, Sound, LifecycleInv, TypeOK
<1>6. UNCHANGED <<link, hooks, strays, pjob>> /\ Watch
  BY DEF Staff
<1>7. \A q \in Requests \ {r} : job'[q] = job[q] /\ held'[q] = held[q]
  BY <1>5 DEF Staff, NextHeld
<1>8. \A o \in Orders \ {u} : Untouched(o)
  BY <1>3, <1>4, <1>5, <1>6 DEF Untouched
<1>9. ~Busy(r)'
  BY <1>5 DEF Busy, IdleJob
<1>10. ASSUME NEW c \in Codes, link[c].order = u
       PROVE  CalmCode(c)'
  <2>1. link'[c] = link[c] /\ (calm'[u] => calm[u])
    BY <1>1, <1>6 DEF Watch
  <2>2. CalmCode(c)
    BY DEF PayosCalmInv
  <2>3. ASSUME txn'[c].status # "none", calm'[u]
        PROVE  /\ txn'[c].order = u
               /\ \A d \in Codes : txn'[d].status # "none" /\ link'[d].order = u => d = c
               /\ link[c].status = "PAID" => c \in hooks' \/ txn'[c].status = "PAID"
               /\ txn'[c].status = "PAID" => order'[u].payment_status = "PAID"
    <3>1. txn'[c].order = u
      BY <1>3, <1>4, <1>10, <2>1, <2>2, <2>3 DEF CalmCode
    <3>2. txn[c].status = "PAID" => SavedRow(j).payment_status = "PAID"
      <4>1. ASSUME txn[c].status = "PAID"
            PROVE  order[u].payment_status = "PAID" /\ j.entity.payment_status = "PAID"
        BY <1>2, <1>10, <2>1, <2>2, <2>3, <4>1 DEF CalmCode, CalmStaff
      <4>2. QED
        BY <4>1 DEF SavedRow
    <3>3. QED
      BY <1>3, <1>5, <1>6, <1>10, <2>1, <2>2, <2>3, <3>1, <3>2 DEF CalmCode
  <2>4. link[c].status \notin {"none", "PENDING"} => txn'[c].status # "none"
    BY <1>3, <2>2 DEF CalmCode
  <2>5. QED
    BY <1>10, <2>1, <2>3, <2>4 DEF CalmCode
<1>11. {r} \in SUBSET Requests
  OBVIOUS
<1>12. \A o \in Orders : calm'[o] =>
           Untouched(o) \/ (\E q \in {r} : Busy(q) /\ job[q].order = o)
  BY <1>1, <1>8
<1>13. \A c \in Codes : (\E q \in {r} : Busy(q) /\ job[q].order = link[c].order) => CalmCode(c)'
  BY <1>10
<1>14. \A q \in {r} : Busy(q)' => CalmStaff(q)'
  BY <1>9
<1>15. QED
  BY <1>6, <1>7, <1>11, <1>12, <1>13, <1>14, StaffFrame

LEMMA StaffCalm ==
    ASSUME Sound, Sound', Grows, LinksKept, PayosCalmInv, Staff
    PROVE  PayosCalmInv'
<1>1. CASE StaffStep /\ UNCHANGED txn
  <2>1. "remove" \notin Ops
    BY PayosAssumption
  <2>2. \A o \in Orders : ~Remove(o)
    BY <2>1 DEF Remove
  <2>3. QED
    BY <1>1, <2>2, HandleCalm, DiffCalm, OtherStaffCalm DEF StaffStep
<1>2. ASSUME NEW r \in Requests, Commit(r), txn' = Regrouped(r)
      PROVE  PayosCalmInv'
  BY <1>2, CommitCalm
<1>3. QED
  BY <1>1, <1>2 DEF Staff

---------------------------------------------------------------------------
(* The theorems *)

LEMMA PCalmNext ==
    Sound /\ PayosCalmInv /\ [PNext]_allvars => Sound' /\ PayosCalmInv'
<1> SUFFICES ASSUME Sound, PayosCalmInv, [PNext]_allvars
             PROVE  Sound' /\ PayosCalmInv'
  OBVIOUS
<1>1. Sound' /\ Grows
  BY PNextInv, PMoneyNext DEF Sound
<1>2. LinksKept
  BY <1>1, LinksStay
<1>3. CASE UNCHANGED allvars
  <2>1. UNCHANGED <<live, order, export, credited, job, seen, clean, link, txn, hooks, strays, pjob, held, calm>>
    BY <1>3 DEF allvars, vars, pvars
  <2>2. QED
    BY <1>1, <2>1 DEF PayosCalmInv, CalmCode, CalmPayer, CalmStaff, Peace, Alone, Busy, PBusy, OfOrder
<1>4. ASSUME NEW p \in Payers,
             \/ \E o \in Orders : CreateLoad(p, o)
             \/ \E c \in Codes : CreateLink(p, c) \/ CancelLink(p, c)
                                 \/ Hook(p, c) \/ CheckLoad(p, c)
             \/ \E n \in Unsent : StrayHook(p, n[1], n[2])
             \/ CancelLoad(p) \/ CheckAnswer(p) \/ PDiff(p) \/ PCommit(p) \/ PAbort(p)
      PROVE  PayosCalmInv'
  BY <1>1, <1>2, <1>4, LoadsCalm, CreateLinkCalm, CancelLinkCalm, CancelLoadCalm,
     CheckAnswerCalm, PDiffCalm, PCommitCalm, PAbortCalm
<1>5. ASSUME NEW c \in Codes, HookKnown(c) \/ Pay(c) \/ Decline(c) \/ Expire(c) \/ Leave(c)
      PROVE  PayosCalmInv'
  BY <1>1, <1>2, <1>5, HookKnownCalm, SettleCalm DEF Pay, Decline, Expire, Leave
<1>6. QED
  BY <1>1, <1>2, <1>3, <1>4, <1>5, StaffCalm DEF PNext

LEMMA PCalmInit == PInit => PayosCalmInv
<1> SUFFICES ASSUME PInit PROVE PayosCalmInv
  OBVIOUS
<1>1. \A p \in Payers : ~PBusy(p)
  BY DEF PInit, PBusy, IdlePJob
<1>2. \A r \in Requests : ~Busy(r)
  BY DEF PInit, Init, Busy, IdleJob
<1>3. \A c \in Codes : txn[c].status = "none" /\ link[c].status = "none"
  BY DEF PInit
<1>4. QED
  BY <1>1, <1>2, <1>3 DEF PayosCalmInv, CalmCode, Peace, Alone

\* An order whose requests took turns has one transaction, which says what the
\* gateway said as soon as it was told, and whoever works on the order knows of
\* the payment (the handlers of payos.service.ts and order.service.ts).
THEOREM PayosCalmInvariant == PSpec => []PayosCalmInv
<1>1. PInit => Sound /\ PayosCalmInv
  BY PInitInv, InitInv, PMoneyInit, PCalmInit DEF PInit, Sound
<1>2. Sound /\ PayosCalmInv /\ [PNext]_allvars => (Sound /\ PayosCalmInv)'
  BY PCalmNext
<1>3. QED
  BY <1>1, <1>2, PTL DEF PSpec

\* Money that the gateway took and notified shows in the order, through every
\* later request on it, if requests on the order never overlapped
\* (handleWebhook, CheckPayosPaymentStatus, and the saves of OrderService).
THEOREM PayosCalmMoneyShows == PSpec => []CalmMoneyShows
<1>1. Sound /\ PayosCalmInv => CalmMoneyShows
  <2> SUFFICES ASSUME Sound, PayosCalmInv, NEW c \in Codes,
                      link[c].status = "PAID", c \notin hooks, calm[link[c].order]
               PROVE  /\ order[link[c].order].payment_status = "PAID"
                      /\ txn[c] = [status |-> "PAID", order |-> link[c].order]
    BY DEF CalmMoneyShows
  <2>1. txn[c].status = "PAID" /\ txn[c].order = link[c].order /\ txn[c] \in Txn
        /\ order[link[c].order].payment_status = "PAID"
    BY CodeFacts DEF PayosCalmInv, CalmCode
  <2>2. QED
    BY <2>1 DEF Txn
<1>2. PSpec => []Sound
  BY PayosInvariant, PayosMoneyInvariant, PTL DEF Sound
<1>3. QED
  BY <1>1, <1>2, PayosCalmInvariant, PTL

===========================================================================
