------------------------------ MODULE Vouchers ------------------------------
(***************************************************************************)
(* Vouchers: VourchersService, the socket message selectedVoucher, and the *)
(* part of PayosService.createOrderPayment that spends them.               *)
(*                                                                         *)
(* A customer claims a voucher in four statements without a transaction:   *)
(* read the voucher, look for an own row and compare the limit, insert the *)
(* row, count it.  Only claims are counted; gifts are not.  Nothing in the *)
(* database forbids two rows for one customer.  A payment reads the rows   *)
(* of its vouchers, checks that none is used, and marks one row of each.   *)
(*                                                                         *)
(* A voucher's limit stays as created (an empty limit behaves like 0), and *)
(* one that is out of date counts as not active.                           *)
(***************************************************************************)
EXTENDS Parties

CONSTANTS
    Vouchers,   \* rows of vouchers
    Limit       \* their column limit

ASSUME VouchersAssumption == Limit \in [Vouchers -> Nat]

UserVoucher == [customer: Customers, voucher: Vouchers, used: BOOLEAN, claimed: BOOLEAN]

VJob == [phase: {"idle", "loaded", "checked", "inserted", "cleared"},
         op: {"none", "claim", "update", "remove", "pay"},
         vouchers: SUBSET Vouchers, customers: SUBSET Customers,
         got: Nat, active: BOOLEAN, rows: SUBSET Rows]

IdleVJob == [phase |-> "idle", op |-> "none", vouchers |-> {}, customers |-> {},
             got |-> 0, active |-> FALSE, rows |-> {}]

VARIABLES
    offered,  \* the vouchers that have a row
    active,   \* those of them that may be used
    got,      \* count_user_get
    owned,    \* the rows of user_voucher that were inserted
    held,     \* the numbers of the rows that are still there
    vjob,     \* the requests in flight
    uncounted,\* ghost: the most claims that count_user_get missed at any time
    spent     \* ghost: how many payments each row was spent on

voucherVars == <<offered, active, got, owned, held, vjob, uncounted, spent>>

VDatabase == <<offered, active, got, owned, held, spent>>

---------------------------------------------------------------------------

RowsOf(v) == {r \in held : owned[r].voucher = v}

RowsWith(c, v) == {r \in RowsOf(v) : owned[r].customer = c}

\* All rows of v that were ever claimed, and the claims about to be counted.
Claimed(v) == {r \in DOMAIN owned : owned[r].voucher = v /\ owned[r].claimed}

Counting(v) == {k \in Clerks : /\ vjob[k].op = "claim" /\ vjob[k].phase = "inserted"
                               /\ v \in vjob[k].vouchers}

\* How many claims count_user_get misses, next to those about to be counted.
Missed(v) == Cardinality(Claimed(v)) - Cardinality(Counting(v)) - got[v]

NoteMissed == uncounted' = [v \in Vouchers |-> IF Missed(v)' > uncounted[v] THEN Missed(v)'
                                                                           ELSE uncounted[v]]

\* A request starts, and has read what it keeps in j.
VStart(k, j) ==
    /\ vjob[k].phase = "idle"
    /\ vjob' = [vjob EXCEPT ![k] = j]
    /\ UNCHANGED VDatabase

VDone(k) == vjob' = [vjob EXCEPT ![k] = IdleVJob]

InsertVoucher(row) ==
    /\ HasRoom(owned)
    /\ owned' = Append(owned, row)
    /\ held' = held \cup {Len(owned) + 1}

CreateVoucher(v) ==
    /\ Uses("createVoucher")
    /\ v \notin offered
    /\ got[v] = 0
    /\ offered' = offered \cup {v}
    /\ active' = active \cup {v}
    /\ UNCHANGED <<got, owned, held, vjob, spent>>

\* give_for_customer, to one customer after the other.
GiveForCustomer(c, v) ==
    /\ Uses("give_for_customer")
    /\ v \in offered
    /\ InsertVoucher([customer |-> c, voucher |-> v, used |-> FALSE, claimed |-> FALSE])
    /\ UNCHANGED <<offered, active, got, vjob, spent>>

---------------------------------------------------------------------------
(* Claiming: getVoucherById *)

ClaimLoad(k, c, v) ==
    /\ Uses("selectedVoucher")
    /\ v \in offered
    /\ VStart(k, [IdleVJob EXCEPT !.phase = "loaded", !.op = "claim",
                                  !.vouchers = {v}, !.customers = {c}, !.got = got[v]])

\* Mutant: one more than the limit.
UnderLimitMutant(v, n) == n <= Limit[v]

UnderLimit(v, n) == n < Limit[v]

\* No own row yet, and the voucher as it was read is not exhausted.
ClaimCheck(k) ==
    LET j == vjob[k] IN
    /\ j.op = "claim" /\ j.phase = "loaded"
    /\ \A v \in j.vouchers, c \in j.customers :
          RowsWith(c, v) = {} /\ UnderLimit(v, j.got)
    /\ vjob' = [vjob EXCEPT ![k].phase = "checked"]
    /\ UNCHANGED VDatabase

ClaimInsert(k) ==
    LET j == vjob[k] IN
    /\ j.op = "claim" /\ j.phase = "checked"
    /\ j.vouchers \subseteq offered
    /\ \E v \in j.vouchers, c \in j.customers :
          InsertVoucher([customer |-> c, voucher |-> v, used |-> FALSE, claimed |-> TRUE])
    /\ vjob' = [vjob EXCEPT ![k].phase = "inserted"]
    /\ UNCHANGED <<offered, active, got, spent>>

\* increment: in the database, not from the copy; no error if the row is gone.
ClaimCount(k) ==
    LET j == vjob[k] IN
    /\ j.op = "claim" /\ j.phase = "inserted"
    /\ got' = [v \in Vouchers |-> IF v \in j.vouchers \cap offered THEN got[v] + 1 ELSE got[v]]
    /\ VDone(k)
    /\ UNCHANGED <<offered, active, owned, held, spent>>

---------------------------------------------------------------------------
(* Staff: update and remove *)

\* update reads the voucher, its number of claims too.
UpdateVoucherLoad(k, v, on) ==
    /\ Uses("updateVoucher")
    /\ v \in offered
    /\ VStart(k, [IdleVJob EXCEPT !.phase = "loaded", !.op = "update",
                                  !.vouchers = {v}, !.got = got[v], !.active = on])

\* It saves all that it read: claims counted meanwhile are forgotten, and a
\* voucher deleted meanwhile is inserted again.
UpdateVoucherSave(k) ==
    LET j == vjob[k] IN
    /\ j.op = "update"
    /\ offered' = offered \cup j.vouchers
    /\ active' = IF j.active THEN active \cup j.vouchers ELSE active \ j.vouchers
    /\ got' = [v \in Vouchers |-> IF v \in j.vouchers THEN j.got ELSE got[v]]
    /\ VDone(k)
    /\ UNCHANGED <<owned, held, spent>>

RemoveVoucherLoad(k, v) ==
    /\ Uses("removeVoucher")
    /\ v \in offered
    /\ VStart(k, [IdleVJob EXCEPT !.op = "remove", !.vouchers = {v},
                     !.phase = IF RowsOf(v) = {} THEN "cleared" ELSE "loaded"])

\* The customers' rows go first, in a transaction of their own.
RemoveVoucherRows(k) ==
    LET j == vjob[k] IN
    /\ j.op = "remove" /\ j.phase = "loaded"
    /\ held' = held \ {r \in held : owned[r].voucher \in j.vouchers}
    /\ vjob' = [vjob EXCEPT ![k].phase = "cleared"]
    /\ UNCHANGED <<offered, active, got, owned, spent>>

\* The foreign key of user_voucher refuses while there are rows.
RemoveVoucher(k) ==
    LET j == vjob[k] IN
    /\ j.op = "remove" /\ j.phase = "cleared"
    /\ \A v \in j.vouchers : RowsOf(v) = {}
    /\ offered' = offered \ j.vouchers
    /\ VDone(k)
    /\ UNCHANGED <<active, got, owned, held, spent>>

---------------------------------------------------------------------------
(* Spending: createOrderPayment with voucherIds *)

\* Mutant: the customer's rows are not looked at.
UsableMutant(c, v) == v \in active

\* Whether all rows of c for v may be used.
Usable(c, v) == v \in active /\ \A r \in RowsWith(c, v) : ~owned[r].used

\* One row of each voucher, the last that the query returns; if the customer
\* has none of them, the save of nothing fails.
PayLoad(k, c, vs, rows) ==
    /\ Uses("createOrderPayment")
    /\ vs # {}
    /\ \A v \in vs : Usable(c, v)
    /\ rows \subseteq UNION {RowsWith(c, v) : v \in vs}
    /\ \A v \in vs : Cardinality(rows \cap RowsOf(v)) = 1
    /\ VStart(k, [IdleVJob EXCEPT !.phase = "loaded", !.op = "pay", !.vouchers = vs,
                                  !.customers = {c}, !.rows = rows])

\* A row that is gone is inserted again, if its voucher is still there.  The
\* voucher's own counter, uses, is counted up in memory and never saved.
PaySave(k) ==
    LET j == vjob[k] IN
    /\ j.op = "pay"
    /\ j.vouchers \subseteq offered
    /\ owned' = [r \in DOMAIN owned |->
                    IF r \in j.rows THEN [owned[r] EXCEPT !.used = TRUE] ELSE owned[r]]
    /\ held' = held \cup j.rows
    /\ spent' = [r \in Rows |-> IF r \in j.rows THEN spent[r] + 1 ELSE spent[r]]
    /\ VDone(k)
    /\ UNCHANGED <<offered, active, got>>

\* A check refuses, a statement fails, or the server stops.
VAbort(k) ==
    /\ vjob[k].phase # "idle"
    /\ VDone(k)
    /\ UNCHANGED VDatabase

---------------------------------------------------------------------------

VInit ==
    /\ offered = {} /\ active = {}
    /\ got = [v \in Vouchers |-> 0]
    /\ owned = <<>> /\ held = {}
    /\ vjob = [k \in Clerks |-> IdleVJob]
    /\ uncounted = [v \in Vouchers |-> 0]
    /\ spent = [r \in Rows |-> 0]

VNext ==
    /\ \/ \E v \in Vouchers : CreateVoucher(v) \/ \E c \in Customers : GiveForCustomer(c, v)
       \/ \E k \in Clerks :
             \/ \E c \in Customers, v \in Vouchers : ClaimLoad(k, c, v)
             \/ ClaimCheck(k) \/ ClaimInsert(k) \/ ClaimCount(k)
             \/ \E v \in Vouchers, on \in BOOLEAN : UpdateVoucherLoad(k, v, on)
             \/ \E v \in Vouchers : RemoveVoucherLoad(k, v)
             \/ UpdateVoucherSave(k) \/ RemoveVoucherRows(k) \/ RemoveVoucher(k)
             \/ \E c \in Customers, vs \in SUBSET offered, rows \in SUBSET held :
                   PayLoad(k, c, vs, rows)
             \/ PaySave(k) \/ VAbort(k)
    /\ NoteMissed

---------------------------------------------------------------------------
(* Properties *)

\* Overlapping claims pass the limit by no more than one each, next to those
\* that the count missed: because the server stopped between insert and
\* increment, or because an update wrote the number it had read before.  A
\* customer, too, gets a voucher twice only that way (getVoucherById).
ClaimsNearLimit ==
    \A v \in Vouchers :
        LET claims == {r \in RowsOf(v) : owned[r].claimed} IN
        /\ Cardinality(claims) <= Limit[v] + uncounted[v] + Cardinality(Clerks) - 1
        /\ \A c \in Customers :
              Cardinality({r \in claims : owned[r].customer = c}) <= Cardinality(Clerks)

\* A voucher pays once: only payments that overlap spend the same row, and a
\* row that was spent is never free again (createOrderPayment).
SpentOnce ==
    \A r \in held : /\ spent[r] <= Cardinality(Clerks)
                    /\ spent[r] > 0 <=> owned[r].used

---------------------------------------------------------------------------
(* The inductive invariant behind ClaimsNearLimit and SpentOnce *)

VoucherTypeOK ==
    /\ offered \subseteq Vouchers /\ active \subseteq Vouchers
    /\ got \in [Vouchers -> Nat] /\ uncounted \in [Vouchers -> Int]
    /\ owned \in Seq(UserVoucher) /\ Len(owned) <= MaxRows
    /\ held \subseteq DOMAIN owned
    /\ vjob \in [Clerks -> VJob]
    /\ spent \in [Rows -> Nat]

\* A claim has a customer; a payment holds one row of each of its vouchers.
VJobOK(k) ==
    LET j == vjob[k] IN
    /\ j.op = "claim" => /\ j.phase \in {"loaded", "checked", "inserted"}
                         /\ j.customers # {}
    /\ j.op = "pay" =>
          /\ j.phase = "loaded"
          /\ j.rows \subseteq DOMAIN owned
          /\ \A r, q \in j.rows : owned[r].voucher = owned[q].voucher => r = q

\* The claims that may add a row of v.
Claiming(v) == {k \in Clerks : /\ vjob[k].op = "claim" /\ v \in vjob[k].vouchers
                               /\ vjob[k].phase # "inserted"
                               /\ vjob[k].phase = "loaded" => vjob[k].got < Limit[v]}

\* A claim that was read as allowed has its place above the limit.
ClaimsBounded(v) ==
    /\ Missed(v) <= uncounted[v]
    /\ Cardinality(Claimed(v)) + Cardinality(Claiming(v))
          <= Limit[v] + uncounted[v] + Cardinality(Clerks) - 1

Paying(r) == {k \in Clerks : vjob[k].op = "pay" /\ r \in vjob[k].rows}

\* The rows of v that c claimed and has, or gets back from a payment.
ClaimsOf(c, v) == {r \in Claimed(v) : owned[r].customer = c /\ (r \in held \/ Paying(r) # {})}

Checked(c, v) == {k \in Clerks : /\ vjob[k].op = "claim" /\ vjob[k].phase = "checked"
                                 /\ v \in vjob[k].vouchers /\ c \in vjob[k].customers}

CustomerBounded(c, v) ==
    Cardinality(ClaimsOf(c, v)) + Cardinality(Checked(c, v)) <= Cardinality(Clerks)

SpentBounded(r) ==
    /\ spent[r] > 0 <=> owned[r].used
    /\ spent[r] + Cardinality(Paying(r)) <= Cardinality(Clerks)

VoucherInv ==
    /\ VoucherTypeOK
    /\ \A k \in Clerks : VJobOK(k)
    /\ \A v \in Vouchers : ClaimsBounded(v) /\ \A c \in Customers : CustomerBounded(c, v)
    /\ \A r \in Rows : IF r \in DOMAIN owned THEN SpentBounded(r) ELSE spent[r] = 0

============================================================================
