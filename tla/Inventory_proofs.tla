-------------------------- MODULE Inventory_proofs --------------------------
(***************************************************************************)
(* InventoryInv is an inductive invariant of Inventory, for any number of  *)
(* lots, orders and requests in flight.                                    *)
(*                                                                         *)
(* The argument.  A copy of a lot is sound as long as its lot, and what    *)
(* the lines name of it, is as it was read.  A save of a sound copy writes *)
(* what its request has computed, and that keeps the books in balance; a   *)
(* save of any other copy takes its lots out of balanced.                  *)
(***************************************************************************)
EXTENDS Inventory, TLAPS, FiniteSetTheorems

---------------------------------------------------------------------------
(* Sets of pieces *)

LEMMA PiecesFinite == IsFiniteSet(Pieces)
<1>1. IsFiniteSet(1 .. MaxQty)
  BY InventoryAssumption, FS_Interval
<1>2. IsFiniteSet(Lots \X (1 .. MaxQty)) /\ IsFiniteSet(Orders \X Lots)
  BY <1>1, FS_Product, InventoryAssumption
<1>3. IsFiniteSet((Orders \X Lots) \X (1 .. MaxQty))
  BY <1>1, <1>2, FS_Product
<1> DEFINE D == (Orders \X Lots) \X (1 .. MaxQty)
           F == [x \in D |-> <<x[1][1], x[1][2], x[2]>>]
<1>4. F \in [D -> Pieces]
  BY DEF Pieces
<1>5. ASSUME NEW p \in Pieces
      PROVE  \E x \in D : F[x] = p
  <2>1. PICK o \in Orders, l \in Lots, n \in 1 .. MaxQty : p = <<o, l, n>>
    BY <1>5 DEF Pieces
  <2>2. <<<<o, l>>, n>> \in D /\ F[<<<<o, l>>, n>>] = p
    BY <2>1
  <2>3. QED
    BY <2>2
<1>6. F \in Surjection(D, Pieces)
  BY <1>4, <1>5 DEF Surjection
<1>7. QED
  BY <1>3, <1>6, FS_Surjection

\* How many pieces a set has.
LEMMA CountType ==
    ASSUME NEW S \in SUBSET Pieces
    PROVE  IsFiniteSet(S) /\ Cardinality(S) \in Nat
BY PiecesFinite, FS_Subset, FS_CardinalityType

LEMMA CountGrows ==
    ASSUME NEW S \in SUBSET Pieces, NEW T \in SUBSET S
    PROVE  Cardinality(T) <= Cardinality(S)
BY CountType, FS_Subset

LEMMA CountSum ==
    ASSUME NEW S \in SUBSET Pieces, NEW T \in SUBSET Pieces, S \cap T = {}
    PROVE  Cardinality(S \cup T) = Cardinality(S) + Cardinality(T)
<1>1. Cardinality(S \cap T) = 0
  BY FS_EmptySet
<1>2. QED
  BY <1>1, CountType, FS_Union

\* What a set of lines takes from a lot.
LEMMA OutType ==
    ASSUME NEW S \in SUBSET Pieces, NEW l
    PROVE  From(S, l) \in SUBSET Pieces /\ Cardinality(From(S, l)) \in Nat
BY CountType DEF From

---------------------------------------------------------------------------
(* Requests in flight *)

JobsHold == \A k \in Clerks : Busy(k) => JobInv(job[k])

LEMMA BlankType == BlankRow \in LotRow
BY InventoryAssumption DEF LotRow, BlankRow

LEMMA IdleType == IdleJob \in Job /\ IdleJob.phase = "idle"
BY InventoryAssumption DEF IdleJob, Job, LotRow, BlankRow

\* Lot l, and what the lines name of it, did not change but for goods given back.
Steady(l) ==
    /\ lot'[l].import = lot[l].import
    /\ lot'[l].remaining = lot[l].remaining
    /\ Out(l)' <= Out(l)

\* A step that changes the lots in set: no request has a sound copy of them.
LEMMA DisturbedType ==
    ASSUME TypeOK, NEW set
    PROVE  Disturb(set) \in [Clerks -> Job]
<1> SUFFICES ASSUME NEW k \in Clerks
             PROVE  [job[k] EXCEPT !.sound = @ \ set] \in Job
  BY DEF Disturb
<1>1. job[k] \in Job
  BY DEF TypeOK
<1>2. QED
  BY <1>1 DEF Job

LEMMA JobsSurvive ==
    ASSUME TypeOK, TypeOK', JobsHold, NEW set,
           \A k \in Clerks : job'[k] = IdleJob
                             \/ job'[k] = [job[k] EXCEPT !.sound = @ \ set],
           stock \cup removed \subseteq stock' \cup removed',
           left \subseteq left',
           \A l \in (stock \cup removed) \ set : Steady(l)
    PROVE  JobsHold'
<1> SUFFICES ASSUME NEW k \in Clerks, Busy(k)'
             PROVE  JobInv(job[k])'
  BY DEF JobsHold
<1>1. job'[k] = [job[k] EXCEPT !.sound = @ \ set]
  BY IdleType DEF Busy
<1>2. job[k] \in Job
  BY DEF TypeOK
<1>3. /\ job'[k].phase = job[k].phase /\ job'[k].op = job[k].op
      /\ job'[k].orders = job[k].orders /\ job'[k].plan = job[k].plan
      /\ job'[k].copy = job[k].copy /\ job'[k].touch = job[k].touch
      /\ job'[k].dirty = job[k].dirty /\ job'[k].sound = job[k].sound \ set
  BY <1>1, <1>2 DEF Job
<1>4. Busy(k) /\ JobInv(job[k])
  BY <1>3 DEF Busy, JobsHold
<1>5. \A l \in job'[k].sound : l \in job[k].sound /\ l \in job[k].touch /\ Steady(l)
  BY <1>3, <1>4 DEF JobInv
<1>6. \A l \in job[k].touch : l \in Lots /\ job[k].copy[l] \in LotRow
  BY <1>2 DEF Job
<1>7. ASSUME job[k].op \in {"updateImport", "updateRemainingQuantity"},
             NEW l \in job'[k].sound
      PROVE  Out(l)' + job[k].copy[l].remaining <= job[k].copy[l].import
  <2>1. Out(l) + job[k].copy[l].remaining <= job[k].copy[l].import
    BY <1>4, <1>5, <1>7 DEF JobInv
  <2>2. Out(l) \in Nat /\ Out(l)' \in Nat
    BY OutType DEF TypeOK, Out
  <2>3. job[k].copy[l].remaining \in Int /\ job[k].copy[l].import \in Int
    BY <1>5, <1>6, InventoryAssumption DEF LotRow
  <2>4. QED
    BY <1>5, <2>1, <2>2, <2>3 DEF Steady
<1>8. QED
  BY <1>3, <1>4, <1>5, <1>7 DEF JobInv, Steady

\* A request that starts, or compares, changes nothing but its job.
LEMMA RequestSteps ==
    ASSUME InventoryInv, NEW k \in Clerks, NEW j \in Job, j.phase # "idle" => JobInv(j),
           job' = [job EXCEPT ![k] = j], UNCHANGED Database
    PROVE  InventoryInv'
<1>1. TypeOK' /\ LinesInv' /\ BooksBalance' /\ ExportFitsOrder' /\ SoldWasSent'
  BY DEF InventoryInv, TypeOK, LinesInv, BooksBalance, ExportFitsOrder, SoldWasSent,
         Database, Out
<1>2. \A i \in Clerks : Busy(i)' => JobInv(job[i])'
  <2> SUFFICES ASSUME NEW i \in Clerks, Busy(i)'
               PROVE  JobInv(job[i])'
    OBVIOUS
  <2>1. job'[i] = (IF i = k THEN j ELSE job[i])
    BY DEF InventoryInv, TypeOK
  <2>2. JobInv(job'[i])
    BY <2>1 DEF InventoryInv, Busy
  <2>3. QED
    BY <2>2 DEF JobInv, Database, Out
<1>3. QED
  BY <1>1, <1>2 DEF InventoryInv

---------------------------------------------------------------------------
(* The steps of a request before it writes *)

LEMMA MixType ==
    ASSUME TypeOK
    PROVE  inUse.quantities \subseteq 0 .. MaxQty
BY InventoryAssumption DEF TypeOK, Mix

LEMMA AbortKeeps ==
    ASSUME InventoryInv, NEW k \in Clerks, Abort(k)
    PROVE  InventoryInv'
BY RequestSteps, IdleType DEF Abort

LEMMA StartExportKeeps ==
    ASSUME InventoryInv, NEW k \in Clerks, NEW op \in Exports, NEW os \in SUBSET Orders,
           NEW plan \in Plans(os), StartExport(k, op, os, plan)
    PROVE  InventoryInv'
<1> DEFINE set == LotsOf(plan)
           copy == [l \in Lots |-> IF l \in set THEN Takes(plan, l) ELSE BlankRow]
           j == [IdleJob EXCEPT !.phase = "loaded", !.op = op, !.orders = os, !.plan = plan,
                                !.touch = set, !.sound = set, !.copy = copy]
<1>1. /\ plan \in SUBSET (os \X stock \X (1 .. MaxQty)) /\ plan \in SUBSET Pieces
      /\ \A o \in os, s \in Skus : Cardinality(Sent(plan, o, s)) \in {0, Want[o][s]}
      /\ TypeOK /\ stock \subseteq Lots
  BY DEF Plans, Pieces, InventoryInv, TypeOK
<1>2. plan \subseteq os \X set \X (1 .. MaxQty) /\ set \subseteq stock
  BY <1>1 DEF LotsOf
<1>3. ASSUME NEW l \in set
      PROVE  /\ copy[l] \in LotRow
             /\ copy[l].remaining = lot[l].remaining - Cardinality(From(plan, l))
             /\ copy[l].sold = lot[l].sold
  <2>1. lot[l] \in LotRow /\ Cardinality(From(plan, l)) \in Nat
    BY <1>1, <1>2, OutType DEF TypeOK
  <2>2. Cardinality(From(plan, l)) <= lot[l].remaining
    BY DEF StartExport, Enough
  <2>3. copy[l] = [lot[l] EXCEPT !.remaining = lot[l].remaining - Cardinality(From(plan, l))]
    BY <1>1, <1>2 DEF Takes
  <2>4. QED
    BY <2>1, <2>2, <2>3, InventoryAssumption DEF LotRow
<1>4. copy \in [Lots -> LotRow]
  <2>1. \A l \in Lots : copy[l] \in LotRow
    BY <1>3, BlankType
  <2>2. QED
    BY <2>1
<1>5. j \in Job
  BY <1>1, <1>2, <1>4, IdleType DEF Job, Exports
<1>6. /\ j.phase = "loaded" /\ j.op = op /\ j.orders = os /\ j.plan = plan
      /\ j.touch = set /\ j.sound = set /\ j.copy = copy
  BY DEF IdleJob
<1>7. \A o \in os, s \in Skus : Cardinality(Sent(plan, o, s)) <= Want[o][s]
  <2> SUFFICES ASSUME NEW o \in os, NEW s \in Skus
               PROVE  0 <= Want[o][s] /\ Want[o][s] <= Want[o][s]
    BY <1>1
  <2>1. Want[o][s] \in Nat
    BY InventoryAssumption
  <2>2. QED
    BY <2>1
<1>8. \A l \in set : copy[l].sold # 0 => l \in left
  BY <1>2, <1>3 DEF InventoryInv, SoldWasSent
<1>9. JobInv(j)
  BY <1>2, <1>3, <1>6, <1>7, <1>8 DEF JobInv, Exports
<1>10. job' = [job EXCEPT ![k] = j] /\ UNCHANGED Database
  BY DEF StartExport
<1>11. QED
  BY <1>5, <1>9, <1>10, RequestSteps

LEMMA UpdateImportKeeps ==
    ASSUME InventoryInv, NEW k \in Clerks, NEW i \in Imports, NEW keep \in SUBSET Lots,
           NEW named \in SUBSET keep, NEW q \in [named -> inUse.quantities],
           UpdateImport(k, i, keep, q)
    PROVE  InventoryInv'
<1> DEFINE set == {l \in stock : ImportOf[l] = i}
           copy == [l \in Lots |-> IF l \in keep THEN Edited(l, q) ELSE BlankRow]
           sound == {l \in keep : /\ Out(l) <= lot[l].sold
                                  /\ (l \in DOMAIN q => lot[l].sold < q[l])
                                  /\ (l \notin DOMAIN q => lot[l].sold <= lot[l].import)}
           j == [IdleJob EXCEPT !.phase = "loaded", !.op = "updateImport", !.touch = keep,
                                !.gone = set \ keep, !.copy = copy, !.sound = sound]
<1>1. TypeOK /\ stock \subseteq Lots /\ keep \subseteq stock
  BY DEF InventoryInv, TypeOK, UpdateImport
<1>2. \A l \in named : q[l] \in 0 .. MaxQty
  BY <1>1, MixType
<1>3. ASSUME NEW l \in keep
      PROVE  /\ copy[l] \in LotRow
             /\ copy[l].sold = lot[l].sold
             /\ l \in sound => Out(l) + copy[l].remaining <= copy[l].import
  <2>1. lot[l] \in LotRow /\ Out(l) \in Nat
    BY <1>1, OutType DEF TypeOK, Out
  <2>2. CASE l \in named
    <3>1. /\ copy[l].import = q[l] /\ copy[l].sold = lot[l].sold
          /\ copy[l].remaining = NewRemaining(q[l], lot[l].sold)
          /\ copy[l] = [lot[l] EXCEPT !.import = q[l], !.remaining = NewRemaining(q[l], lot[l].sold)]
      BY <2>1, <2>2 DEF Edited, LotRow
    <3>2. NewRemaining(q[l], lot[l].sold) \in 0 .. MaxQty + SoldBound
      BY <1>2, <2>1, <2>2, InventoryAssumption DEF NewRemaining, LotRow
    <3>3. copy[l] \in LotRow
      BY <1>2, <2>1, <2>2, <3>1, <3>2 DEF LotRow
    <3>4. lot[l].sold \in Int /\ q[l] \in Nat
      BY <1>2, <2>1, <2>2, InventoryAssumption DEF LotRow
    <3>5. l \in sound => Out(l) <= lot[l].sold /\ lot[l].sold < q[l]
      BY <2>2
    <3>6. l \in sound => Out(l) + NewRemaining(q[l], lot[l].sold) <= q[l]
      BY <2>1, <3>4, <3>5 DEF NewRemaining
    <3>7. QED
      BY <3>1, <3>3, <3>6
  <2>3. CASE l \notin named
    <3>1. copy[l] = [lot[l] EXCEPT !.remaining = 0]
      BY <1>1, <2>3 DEF Edited
    <3>2. /\ copy[l].import = lot[l].import /\ copy[l].sold = lot[l].sold
          /\ copy[l].remaining = 0
      BY <2>1, <3>1 DEF LotRow
    <3>3. copy[l] \in LotRow
      BY <2>1, <3>1, InventoryAssumption DEF LotRow
    <3>4. l \in sound => Out(l) <= lot[l].sold /\ lot[l].sold <= lot[l].import
      BY <2>3
    <3>5. lot[l].sold \in Int /\ lot[l].import \in Int
      BY <2>1, InventoryAssumption DEF LotRow
    <3>6. QED
      BY <2>1, <3>2, <3>3, <3>4, <3>5
  <2>4. QED
    BY <2>2, <2>3
<1>4. copy \in [Lots -> LotRow]
  <2>1. \A l \in Lots : copy[l] \in LotRow
    BY <1>3, BlankType
  <2>2. QED
    BY <2>1
<1>5. j \in Job
  BY <1>1, <1>4, IdleType DEF Job
<1>6. /\ j.phase = "loaded" /\ j.op = "updateImport"
      /\ j.touch = keep /\ j.sound = sound /\ j.copy = copy
  BY DEF IdleJob
<1>7. \A l \in keep : copy[l].sold # 0 => l \in left
  BY <1>1, <1>3 DEF InventoryInv, SoldWasSent
<1>8. sound \subseteq keep
  OBVIOUS
<1>9. JobInv(j)
  BY <1>1, <1>3, <1>6, <1>7, <1>8 DEF JobInv, Exports
<1>10. job' = [job EXCEPT ![k] = j] /\ UNCHANGED Database
  BY DEF UpdateImport
<1>11. QED
  BY <1>5, <1>9, <1>10, RequestSteps

LEMMA UpdateRemainingQuantityKeeps ==
    ASSUME InventoryInv, NEW k \in Clerks, NEW l \in Lots, UpdateRemainingQuantity(k, l)
    PROVE  InventoryInv'
<1> DEFINE n == Recounted(lot[l], Out(l))
           row == [lot[l] EXCEPT !.remaining = n]
           copy == [IdleJob.copy EXCEPT ![l] = row]
           sound == IF Out(l) <= lot[l].import THEN {l} ELSE {}
           j == [IdleJob EXCEPT !.phase = "loaded", !.op = "updateRemainingQuantity",
                                !.touch = {l}, !.copy[l] = row, !.sound = sound]
<1>1. TypeOK /\ l \in stock /\ lot[l] \in LotRow /\ Out(l) \in Nat
  BY OutType DEF InventoryInv, TypeOK, UpdateRemainingQuantity, Out
<1>2. n \in 0 .. MaxQty /\ (Out(l) <= lot[l].import => Out(l) + n <= lot[l].import)
  BY <1>1, InventoryAssumption DEF Recounted, LotRow
<1>3. /\ row \in LotRow /\ row.remaining = n
      /\ row.import = lot[l].import /\ row.sold = lot[l].sold
  BY <1>1, <1>2, InventoryAssumption DEF LotRow
<1>4. copy \in [Lots -> LotRow] /\ copy[l] = row
  <2>1. IdleJob.copy \in [Lots -> LotRow]
    BY IdleType DEF Job
  <2>2. QED
    BY <1>3, <2>1
<1>5. /\ j.phase = "loaded" /\ j.op = "updateRemainingQuantity"
      /\ j.touch = {l} /\ j.sound = sound /\ j.copy = copy
  BY DEF IdleJob
<1>6. j = [IdleJob EXCEPT !.phase = "loaded", !.op = "updateRemainingQuantity",
                          !.touch = {l}, !.copy = copy, !.sound = sound]
  BY DEF IdleJob
<1>7. j \in Job
  BY <1>4, <1>6, IdleType DEF Job
<1>8. JobInv(j)
  BY <1>1, <1>2, <1>3, <1>4, <1>5 DEF JobInv, Exports, InventoryInv, SoldWasSent
<1>9. job' = [job EXCEPT ![k] = j] /\ UNCHANGED Database
  BY DEF UpdateRemainingQuantity
<1>10. QED
  BY <1>7, <1>8, <1>9, RequestSteps

LEMMA UpdateQuantitySoldKeeps ==
    ASSUME InventoryInv, NEW k \in Clerks, NEW o \in Orders, UpdateQuantitySold(k, o)
    PROVE  InventoryInv'
<1> DEFINE set == LotsOf(LinesOf(o))
           n(l) == Cardinality(From(LinesOf(o), l))
           sold(l) == IF status[o] = "FAILED_DELIVERY" THEN lot[l].sold - n(l)
                                                       ELSE lot[l].sold + n(l)
           copy == [l \in Lots |-> IF l \in set THEN [lot[l] EXCEPT !.sold = sold(l)]
                                                ELSE BlankRow]
           j == [IdleJob EXCEPT !.phase = "loaded", !.op = "updateQuantitySold",
                                !.touch = set, !.sound = set, !.copy = copy]
<1>1. TypeOK /\ LinesInv /\ stock \subseteq Lots
  BY DEF InventoryInv, TypeOK
<1>2. status[o] \in Final /\ \A l \in set : sold(l) \in -SoldBound .. SoldBound
  BY DEF UpdateQuantitySold, Counts
<1>3. set \subseteq stock /\ set \subseteq left
  BY <1>1, <1>2 DEF LinesInv, LotsOf, LinesOf
<1>4. ASSUME NEW l \in set
      PROVE  /\ copy[l] \in LotRow
             /\ copy[l].import = lot[l].import /\ copy[l].remaining = lot[l].remaining
  <2>1. lot[l] \in LotRow /\ copy[l] = [lot[l] EXCEPT !.sold = sold(l)]
    BY <1>1, <1>3 DEF TypeOK
  <2> HIDE DEF sold, copy
  <2>2. QED
    BY <1>2, <2>1 DEF LotRow
<1>5. copy \in [Lots -> LotRow]
  <2>1. \A l \in Lots : copy[l] \in LotRow
    BY <1>4, BlankType
  <2>2. QED
    BY <2>1
<1>6. /\ j.phase = "loaded" /\ j.op = "updateQuantitySold"
      /\ j.touch = set /\ j.sound = set /\ j.copy = copy
  BY DEF IdleJob
<1>7. j \in Job
  BY <1>1, <1>3, <1>5, IdleType DEF Job
<1>8. JobInv(j)
  BY <1>3, <1>4, <1>6 DEF JobInv, Exports
<1>9. job' = [job EXCEPT ![k] = j] /\ UNCHANGED Database
  BY DEF UpdateQuantitySold
<1>10. QED
  BY <1>7, <1>8, <1>9, RequestSteps

LEMMA DiffKeeps ==
    ASSUME InventoryInv, NEW k \in Clerks, Diff(k)
    PROVE  InventoryInv'
<1> DEFINE dirty == [l \in Lots |->
                        IF l \in job[k].touch
                          THEN {c \in SavedColumns(job[k].op) : job[k].copy[l][c] # lot[l][c]}
                          ELSE {}]
           j == [job[k] EXCEPT !.phase = "diffed", !.dirty = dirty]
<1>1. job[k] \in Job /\ Busy(k) /\ JobInv(job[k])
  BY DEF InventoryInv, TypeOK, Diff, Busy
<1>2. /\ j.phase = "diffed" /\ j.op = job[k].op /\ j.orders = job[k].orders
      /\ j.plan = job[k].plan /\ j.copy = job[k].copy /\ j.touch = job[k].touch
      /\ j.sound = job[k].sound /\ j.dirty = dirty
  BY <1>1 DEF Job
<1>3. dirty \in [Lots -> SUBSET Columns]
  BY DEF SavedColumns, Columns
<1>4. j \in Job
  BY <1>1, <1>3 DEF Job
<1>5. ASSUME NEW l \in j.sound, NEW c \in {"import", "remaining"}, c \notin dirty[l]
      PROVE  j.copy[l][c] = lot[l][c]
  <2>1. l \in job[k].touch /\ l \in Lots /\ c \in SavedColumns(job[k].op)
    BY <1>1, <1>2 DEF JobInv, Job, SavedColumns, Columns
  <2>2. QED
    BY <1>2, <1>5, <2>1
<1>6. JobInv(j)
  BY <1>1, <1>2, <1>5 DEF JobInv, Diff
<1>7. job' = [job EXCEPT ![k] = j] /\ UNCHANGED Database
  BY DEF Diff
<1>8. QED
  BY <1>4, <1>6, <1>7, RequestSteps

---------------------------------------------------------------------------
(* Steps that change the tables *)

LEMMA Undisturbed ==
    ASSUME TypeOK, NEW k \in Clerks
    PROVE  job[k] = [job[k] EXCEPT !.sound = @ \ {}]
<1>1. job[k] \in Job /\ job[k].sound \ {} = job[k].sound
  BY DEF TypeOK
<1>2. QED
  BY <1>1 DEF Job

\* Without lines lots and orders get no worse.
LEMMA LinesShrink ==
    ASSUME TypeOK, lines' \subseteq lines
    PROVE  /\ \A l : Out(l)' <= Out(l) /\ Out(l) \in Nat /\ Out(l)' \in Nat
           /\ \A o, s : /\ Cardinality(Sent(lines', o, s)) <= Cardinality(Sent(lines, o, s))
                        /\ Cardinality(Sent(lines, o, s)) \in Nat
                        /\ Cardinality(Sent(lines', o, s)) \in Nat
<1>1. lines \in SUBSET Pieces /\ lines' \in SUBSET Pieces
  BY DEF TypeOK
<1>2. ASSUME NEW l
      PROVE  Out(l)' <= Out(l) /\ Out(l) \in Nat /\ Out(l)' \in Nat
  <2>1. From(lines', l) \subseteq From(lines, l) /\ From(lines, l) \in SUBSET Pieces
    BY <1>1 DEF From
  <2>2. QED
    BY <1>1, <2>1, OutType, CountGrows DEF Out
<1>3. ASSUME NEW o, NEW s
      PROVE  /\ Cardinality(Sent(lines', o, s)) <= Cardinality(Sent(lines, o, s))
             /\ Cardinality(Sent(lines, o, s)) \in Nat
             /\ Cardinality(Sent(lines', o, s)) \in Nat
  <2>1. /\ Sent(lines', o, s) \subseteq Sent(lines, o, s)
        /\ Sent(lines, o, s) \in SUBSET Pieces /\ Sent(lines', o, s) \in SUBSET Pieces
    BY <1>1 DEF Sent
  <2>2. QED
    BY <2>1, CountType, CountGrows
<1>4. QED
  BY <1>2, <1>3

\* An export that stays and got no new lines still fits its order.
LEMMA FitsShrink ==
    ASSUME TypeOK, ExportFitsOrder, lines' \subseteq lines, exports' \subseteq exports,
           revised \subseteq revised'
    PROVE  ExportFitsOrder'
<1> SUFFICES ASSUME NEW o \in exports' \ revised', NEW s \in Skus
             PROVE  Cardinality(Sent(lines', o, s)) <= Want[o][s]
  BY DEF ExportFitsOrder, Sent
<1>1. Cardinality(Sent(lines, o, s)) <= Want[o][s]
  BY DEF ExportFitsOrder
<1>2. Want[o][s] \in Nat
  BY InventoryAssumption DEF TypeOK
<1>3. QED
  BY <1>1, <1>2, LinesShrink

LEMMA CreateImportKeeps ==
    ASSUME InventoryInv, NEW l \in Lots, NEW q \in inUse.quantities, CreateImport(l, q)
    PROVE  InventoryInv'
<1> DEFINE row == [import |-> q, sold |-> 0, remaining |-> q]
<1>1. TypeOK /\ q \in 0 .. MaxQty /\ l \notin stock \cup removed
  BY MixType DEF InventoryInv, CreateImport
<1>2. row \in LotRow
  BY <1>1, InventoryAssumption DEF LotRow
<1>3. lot' = [lot EXCEPT ![l] = row] /\ lot'[l] = row
  BY <1>1 DEF CreateImport, TypeOK
<1>4. TypeOK'
  <2>1. lot' \in [Lots -> LotRow]
    BY <1>1, <1>2, <1>3 DEF TypeOK
  <2>2. QED
    BY <1>1, <2>1 DEF CreateImport, TypeOK
<1>5. \A m \in Lots : m # l => lot'[m] = lot[m]
  BY <1>1, <1>3 DEF TypeOK
<1>6. LinesInv' /\ SoldWasSent'
  BY <1>1, <1>3, <1>5 DEF InventoryInv, LinesInv, SoldWasSent, CreateImport, TypeOK
<1>7. BooksBalance'
  <2> SUFFICES ASSUME NEW m \in stock' \cap balanced'
               PROVE  Out(m)' + lot'[m].remaining <= lot'[m].import
    BY DEF BooksBalance
  <2>1. CASE m = l
    <3>1. From(lines', l) = {}
      BY <1>1 DEF InventoryInv, LinesInv, CreateImport, From
    <3>2. Out(m)' = 0
      BY <2>1, <3>1, FS_EmptySet DEF Out
    <3>3. QED
      BY <1>1, <1>3, <2>1, <3>2
  <2>2. CASE m # l
    BY <1>1, <1>5, <2>2 DEF InventoryInv, BooksBalance, CreateImport, Out, TypeOK
  <2>3. QED
    BY <2>1, <2>2
<1>8. ExportFitsOrder'
  BY <1>1, FitsShrink DEF InventoryInv, CreateImport
<1>9. JobsHold'
  <2>1. \A k \in Clerks : job'[k] = [job[k] EXCEPT !.sound = @ \ {}]
    BY <1>1, Undisturbed DEF CreateImport
  <2>2. \A m \in stock \cup removed : Steady(m)
    <3>1. \A m : Out(m)' <= Out(m)
      BY <1>1, LinesShrink DEF CreateImport
    <3>2. QED
      BY <1>1, <1>5, <3>1 DEF Steady, TypeOK
  <2>3. stock \cup removed \subseteq stock' \cup removed' /\ left \subseteq left'
    BY DEF CreateImport
  <2>4. JobsHold
    BY DEF InventoryInv, JobsHold
  <2>5. QED
    BY <1>1, <1>4, <2>1, <2>2, <2>3, <2>4, JobsSurvive
<1>10. QED
  BY <1>4, <1>6, <1>7, <1>8, <1>9 DEF InventoryInv, JobsHold

LEMMA RemoveImportKeeps ==
    ASSUME InventoryInv, NEW i \in Imports, RemoveImport(i)
    PROVE  InventoryInv'
<1> DEFINE set == {l \in stock : ImportOf[l] = i}
<1>1. /\ TypeOK /\ JobsHold /\ lines' \subseteq lines
      /\ stock' = stock \ set /\ removed' = removed \cup set /\ job' = Disturb(set)
      /\ \A p \in lines' : p[2] \notin set
      /\ UNCHANGED <<inUse, lot, status, exports, balanced, revised, left>>
  BY DEF InventoryInv, JobsHold, RemoveImport, Delete
<1>2. TypeOK'
  <2>1. job' \in [Clerks -> Job]
    BY <1>1, DisturbedType
  <2>2. QED
    BY <1>1, <2>1 DEF TypeOK
<1>3. LinesInv' /\ SoldWasSent'
  BY <1>1 DEF InventoryInv, LinesInv, SoldWasSent
<1>4. \A l : Out(l)' <= Out(l) /\ Out(l) \in Nat /\ Out(l)' \in Nat
  BY <1>1, LinesShrink
<1>5. BooksBalance'
  <2> SUFFICES ASSUME NEW l \in stock' \cap balanced'
               PROVE  Out(l)' + lot'[l].remaining <= lot'[l].import
    BY DEF BooksBalance
  <2>1. Out(l) + lot[l].remaining <= lot[l].import /\ lot[l] \in LotRow
    BY <1>1 DEF InventoryInv, BooksBalance, TypeOK
  <2>2. lot[l].remaining \in Int /\ lot[l].import \in Int
    BY <2>1, InventoryAssumption DEF LotRow
  <2>3. QED
    BY <1>1, <1>4, <2>1, <2>2
<1>6. ExportFitsOrder'
  BY <1>1, FitsShrink DEF InventoryInv
<1>7. JobsHold'
  <2>1. \A k \in Clerks : job'[k] = [job[k] EXCEPT !.sound = @ \ set]
    BY <1>1 DEF Disturb
  <2>2. \A l \in (stock \cup removed) \ set : Steady(l)
    BY <1>1, <1>4 DEF Steady
  <2>3. QED
    BY <1>1, <1>2, <2>1, <2>2, JobsSurvive
<1>8. QED
  BY <1>2, <1>3, <1>5, <1>6, <1>7 DEF InventoryInv, JobsHold

LEMMA OrderStepsKeep ==
    ASSUME InventoryInv, NEW o \in Orders, NEW s \in Status, CreateOrder(o) \/ MoveOrder(o, s)
    PROVE  InventoryInv'
<1>1. /\ UNCHANGED <<inUse, stock, removed, lot, exports, lines, job, balanced, revised>>
      /\ TypeOK /\ JobsHold /\ left \subseteq left'
      /\ \A p \in lines : status'[p[1]] \in Final => p[2] \in left'
  <2>1. CASE CreateOrder(o)
    <3>1. \A p \in lines : status'[p[1]] \in Final => status[p[1]] \in Final
      BY <2>1 DEF CreateOrder, Final, InventoryInv, TypeOK, Pieces
    <3>2. QED
      BY <2>1, <3>1 DEF CreateOrder, InventoryInv, LinesInv, JobsHold
  <2>2. CASE MoveOrder(o, s)
    BY <2>2 DEF MoveOrder, Leave, InventoryInv, JobsHold
  <2>3. QED
    BY <2>1, <2>2
<1>2. TypeOK'
  <2>1. status' \in [Orders -> Status]
    BY <1>1 DEF CreateOrder, MoveOrder, TypeOK, Status
  <2>2. left' \subseteq Lots
    <3>1. CASE CreateOrder(o)
      BY <1>1, <3>1 DEF CreateOrder, TypeOK
    <3>2. CASE MoveOrder(o, s)
      BY <1>1, <3>2 DEF MoveOrder, Leave, TypeOK, Pieces
    <3>3. QED
      BY <3>1, <3>2
  <2>3. QED
    BY <1>1, <2>1, <2>2 DEF TypeOK
<1>3. LinesInv' /\ SoldWasSent'
  BY <1>1 DEF InventoryInv, LinesInv, SoldWasSent
<1>4. BooksBalance' /\ ExportFitsOrder'
  BY <1>1 DEF InventoryInv, BooksBalance, ExportFitsOrder, Out
<1>5. JobsHold'
  <2>1. \A k \in Clerks : job'[k] = [job[k] EXCEPT !.sound = @ \ {}]
    BY <1>1, Undisturbed
  <2>2. \A l : Out(l)' <= Out(l)
    BY <1>1, LinesShrink
  <2>3. QED
    BY <1>1, <1>2, <2>1, <2>2, JobsSurvive DEF Steady
<1>6. QED
  BY <1>2, <1>3, <1>4, <1>5 DEF InventoryInv, JobsHold

LEMMA RemoveExportKeeps ==
    ASSUME InventoryInv, NEW o \in Orders, RemoveExport(o)
    PROVE  InventoryInv'
<1> DEFINE set == LotsOf(LinesOf(o))
<1>1. /\ TypeOK /\ JobsHold /\ lines' = lines \ LinesOf(o) /\ exports' = exports \ {o}
      /\ job' = Disturb(set)
      /\ UNCHANGED <<inUse, stock, removed, lot, status, balanced, revised, left>>
  BY DEF InventoryInv, JobsHold, RemoveExport
<1>2. TypeOK'
  <2>1. job' \in [Clerks -> Job]
    BY <1>1, DisturbedType
  <2>2. QED
    BY <1>1, <2>1 DEF TypeOK
<1>3. LinesInv' /\ SoldWasSent'
  BY <1>1 DEF InventoryInv, LinesInv, SoldWasSent, LinesOf
<1>4. \A l : Out(l)' <= Out(l) /\ Out(l) \in Nat /\ Out(l)' \in Nat
  BY <1>1, LinesShrink
<1>5. BooksBalance'
  <2> SUFFICES ASSUME NEW l \in stock' \cap balanced'
               PROVE  Out(l)' + lot'[l].remaining <= lot'[l].import
    BY DEF BooksBalance
  <2>1. Out(l) + lot[l].remaining <= lot[l].import /\ lot[l] \in LotRow
    BY <1>1 DEF InventoryInv, BooksBalance, TypeOK
  <2>2. lot[l].remaining \in Int /\ lot[l].import \in Int
    BY <2>1, InventoryAssumption DEF LotRow
  <2>3. QED
    BY <1>1, <1>4, <2>1, <2>2
<1>6. ExportFitsOrder'
  BY <1>1, FitsShrink DEF InventoryInv
<1>7. JobsHold'
  <2>1. \A k \in Clerks : job'[k] = [job[k] EXCEPT !.sound = @ \ set]
    BY <1>1 DEF Disturb
  <2>2. \A l \in (stock \cup removed) \ set : Steady(l)
    BY <1>1, <1>4 DEF Steady
  <2>3. QED
    BY <1>1, <1>2, <2>1, <2>2, JobsSurvive
<1>8. QED
  BY <1>2, <1>3, <1>5, <1>6, <1>7 DEF InventoryInv, JobsHold

LEMMA UpdateExportKeeps ==
    ASSUME InventoryInv, NEW o \in Orders, NEW plan \in SUBSET ({o} \X stock \X (1 .. MaxQty)),
           UpdateExport(o, plan)
    PROVE  InventoryInv'
<1> DEFINE old == LinesOf(o)
           rest == lines \ old
           more(l) == Cardinality(From(plan, l)) - Cardinality(From(old, l))
           set == LotsOf(plan \cup old)
<1>1. /\ TypeOK /\ JobsHold /\ o \in exports /\ LotsOf(plan) \subseteq stock
      /\ lines' = rest \cup plan /\ revised' = revised \cup {o}
      /\ balanced' = balanced \ {l \in set : more(l) > 0}
      /\ job' = Disturb(set) /\ Leave(status, lines')
      /\ UNCHANGED <<inUse, stock, removed, lot, status, exports>>
  BY DEF InventoryInv, JobsHold, UpdateExport
<1>2. /\ plan \in SUBSET Pieces /\ rest \in SUBSET Pieces /\ old \in SUBSET Pieces
      /\ rest \cap plan = {} /\ rest \cap old = {} /\ lines = rest \cup old
  BY <1>1 DEF TypeOK, Pieces, LinesOf
<1>3. TypeOK'
  <2>1. job' \in [Clerks -> Job]
    BY <1>1, DisturbedType
  <2>2. left' \subseteq Lots
    BY <1>1, <1>2 DEF Leave, TypeOK, Pieces
  <2>3. QED
    BY <1>1, <1>2, <2>1, <2>2 DEF TypeOK
<1>4. LinesInv' /\ SoldWasSent' /\ left \subseteq left'
  <2>1. \A p \in plan : p[1] = o /\ p[2] \in stock
    OBVIOUS
  <2>2. QED
    BY <1>1, <2>1 DEF InventoryInv, LinesInv, SoldWasSent, Leave
<1>5. ASSUME NEW l
      PROVE  /\ Out(l) \in Nat /\ Out(l)' = Out(l) + more(l) /\ more(l) \in Int
             /\ l \notin set => more(l) = 0
  <2> DEFINE a == From(rest, l)
             b == From(plan, l)
             c == From(old, l)
  <2>1. /\ a \in SUBSET Pieces /\ b \in SUBSET Pieces /\ c \in SUBSET Pieces
        /\ Cardinality(a) \in Nat /\ Cardinality(b) \in Nat /\ Cardinality(c) \in Nat
    BY <1>2, OutType
  <2>2. a \cap b = {} /\ a \cap c = {}
    BY <1>2 DEF From
  <2>3. From(lines', l) = a \cup b /\ From(lines, l) = a \cup c
    BY <1>1, <1>2 DEF From
  <2>4. /\ Out(l)' = Cardinality(a) + Cardinality(b)
        /\ Out(l) = Cardinality(a) + Cardinality(c)
    BY <2>1, <2>2, <2>3, CountSum DEF Out
  <2>5. l \notin set => b = {} /\ c = {}
    BY DEF From, LotsOf
  <2>6. ASSUME l \notin set
        PROVE  more(l) = 0
    <3>1. Cardinality(b) = 0 /\ Cardinality(c) = 0
      BY <2>5, <2>6, FS_EmptySet, Zenon
    <3>2. QED
      BY <3>1
  <2>7. QED
    BY <2>1, <2>4, <2>6
<1>6. BooksBalance'
  <2> SUFFICES ASSUME NEW l \in stock' \cap balanced'
               PROVE  Out(l)' + lot'[l].remaining <= lot'[l].import
    BY DEF BooksBalance
  <2>1. Out(l) + lot[l].remaining <= lot[l].import /\ lot[l] \in LotRow
    BY <1>1 DEF InventoryInv, BooksBalance, TypeOK
  <2>2. lot[l].remaining \in Int /\ lot[l].import \in Int
    BY <2>1, InventoryAssumption DEF LotRow
  <2>3. ~(more(l) > 0)
    <3>1. CASE l \in set
      BY <1>1, <3>1
    <3>2. CASE l \notin set
      <4>1. more(l) = 0
        BY <1>5, <3>2
      <4>2. QED
        BY <4>1
    <3>3. QED
      BY <3>1, <3>2
  <2> HIDE DEF more
  <2>4. QED
    BY <1>1, <1>5, <2>1, <2>2, <2>3
<1>7. ExportFitsOrder'
  <2> SUFFICES ASSUME NEW p \in exports' \ revised', NEW s \in Skus
               PROVE  Cardinality(Sent(lines', p, s)) <= Want[p][s]
    BY DEF ExportFitsOrder, Sent
  <2>1. p # o /\ Sent(lines', p, s) = Sent(lines, p, s)
    BY <1>1, <1>2 DEF Sent, LinesOf
  <2>2. QED
    BY <1>1, <2>1 DEF InventoryInv, ExportFitsOrder
<1>8. JobsHold'
  <2>1. \A k \in Clerks : job'[k] = [job[k] EXCEPT !.sound = @ \ set]
    BY <1>1 DEF Disturb
  <2>2. ASSUME NEW l \in (stock \cup removed) \ set
        PROVE  Steady(l)
    <3>1. Out(l)' = Out(l) + 0 /\ Out(l) \in Nat
      BY <1>5, <2>2
    <3>2. QED
      BY <1>1, <3>1 DEF Steady
  <2>3. QED
    BY <1>1, <1>3, <1>4, <2>1, <2>2, JobsSurvive
<1>9. QED
  BY <1>3, <1>4, <1>6, <1>7, <1>8 DEF InventoryInv, JobsHold

LEMMA CommitExportKeeps ==
    ASSUME InventoryInv, NEW k \in Clerks, CommitExport(k)
    PROVE  InventoryInv'
<1> DEFINE j == job[k]
           plan == j.plan
           set == j.touch
<1>1. /\ TypeOK /\ JobsHold /\ Busy(k) /\ j \in Job /\ JobInv(j) /\ j.op \in Exports
      /\ j.orders \cap exports = {} /\ set \subseteq stock
      /\ exports' = exports \cup j.orders /\ lines' = lines \cup plan
      /\ lot' = [l \in Lots |-> IF l \in set THEN [lot[l] EXCEPT !.remaining = j.copy[l].remaining]
                                             ELSE lot[l]]
      /\ status' = [o \in Orders |-> IF o \in j.orders THEN "OTHER" ELSE status[o]]
      /\ revised' = revised \ j.orders /\ balanced' = balanced \ (set \ j.sound)
      /\ job' = Answer(k, set) /\ Leave(status', lines')
      /\ UNCHANGED <<inUse, stock, removed>>
  BY DEF CommitExport, InventoryInv, TypeOK, JobsHold, Busy
<1>2. /\ plan \in SUBSET Pieces /\ plan \subseteq j.orders \X set \X (1 .. MaxQty)
      /\ j.orders \subseteq Orders /\ set \subseteq Lots /\ lines \in SUBSET Pieces
      /\ j.copy \in [Lots -> LotRow] /\ j.sound \subseteq set
  BY <1>1 DEF Job, JobInv, TypeOK
<1>3. \A l \in Lots : /\ lot[l] \in LotRow /\ lot'[l] \in LotRow
                      /\ lot'[l].import = lot[l].import /\ lot'[l].sold = lot[l].sold
                      /\ lot'[l].remaining = IF l \in set THEN j.copy[l].remaining
                                                          ELSE lot[l].remaining
  <2> SUFFICES ASSUME NEW l \in Lots
               PROVE  /\ lot[l] \in LotRow /\ lot'[l] \in LotRow
                      /\ lot'[l].import = lot[l].import /\ lot'[l].sold = lot[l].sold
                      /\ lot'[l].remaining = IF l \in set THEN j.copy[l].remaining
                                                          ELSE lot[l].remaining
    OBVIOUS
  <2>1. lot[l] \in LotRow /\ j.copy[l] \in LotRow
    BY <1>1, <1>2 DEF TypeOK
  <2>2. lot'[l] = IF l \in set THEN [lot[l] EXCEPT !.remaining = j.copy[l].remaining]
                               ELSE lot[l]
    BY <1>1
  <2>3. QED
    BY <2>1, <2>2 DEF LotRow
<1>4. TypeOK'
  <2>1. job' \in [Clerks -> Job]
    <3>1. Disturb(set) \in [Clerks -> Job]
      BY <1>1, DisturbedType
    <3>2. QED
      BY <1>1, <3>1, IdleType DEF Answer
  <2>2. lot' \in [Lots -> LotRow]
    BY <1>1, <1>3
  <2>3. status' \in [Orders -> Status]
    BY <1>1 DEF TypeOK, Status
  <2>4. left' \subseteq Lots
    BY <1>1, <1>2 DEF Leave, TypeOK, Pieces
  <2>5. QED
    BY <1>1, <1>2, <2>1, <2>2, <2>3, <2>4 DEF TypeOK
<1>5. LinesInv'
  <2> SUFFICES ASSUME NEW p \in lines'
               PROVE  p[1] \in exports' /\ p[2] \in stock' /\ (status'[p[1]] \in Final => p[2] \in left')
    BY DEF LinesInv
  <2>1. status'[p[1]] \in Final => p[2] \in left'
    BY <1>1 DEF Leave
  <2>2. p[1] \in exports' /\ p[2] \in stock'
    BY <1>1, <1>2 DEF InventoryInv, LinesInv
  <2>3. QED
    BY <2>1, <2>2
<1>6. left \subseteq left'
  BY <1>1 DEF Leave
<1>7. SoldWasSent'
  BY <1>1, <1>3, <1>6 DEF InventoryInv, SoldWasSent, TypeOK
<1>8. lines \cap plan = {}
  BY <1>1, <1>2 DEF InventoryInv, LinesInv
<1>9. \A l : /\ Out(l) \in Nat /\ Cardinality(From(plan, l)) \in Nat
             /\ Out(l)' = Out(l) + Cardinality(From(plan, l))
             /\ l \notin set => Cardinality(From(plan, l)) = 0
  <2> SUFFICES ASSUME NEW l
               PROVE  /\ Out(l) \in Nat /\ Cardinality(From(plan, l)) \in Nat
                      /\ Out(l)' = Out(l) + Cardinality(From(plan, l))
                      /\ l \notin set => Cardinality(From(plan, l)) = 0
    OBVIOUS
  <2>1. /\ From(lines', l) = From(lines, l) \cup From(plan, l)
        /\ From(lines, l) \cap From(plan, l) = {}
    BY <1>1, <1>8 DEF From
  <2>2. /\ From(lines, l) \in SUBSET Pieces /\ From(plan, l) \in SUBSET Pieces
        /\ Cardinality(From(lines, l)) \in Nat /\ Cardinality(From(plan, l)) \in Nat
    BY <1>2, OutType
  <2>3. l \notin set => From(plan, l) = {}
    BY <1>2 DEF From
  <2>4. l \notin set => Cardinality(From(plan, l)) = 0
    BY <2>3, FS_EmptySet, Zenon
  <2>5. Out(l)' = Cardinality(From(lines, l)) + Cardinality(From(plan, l))
    BY <2>1, <2>2, CountSum DEF Out
  <2>6. QED
    BY <2>2, <2>4, <2>5 DEF Out
<1>10. BooksBalance'
  <2> SUFFICES ASSUME NEW l \in stock' \cap balanced'
               PROVE  Out(l)' + lot'[l].remaining <= lot'[l].import
    BY DEF BooksBalance
  <2>1. Out(l) + lot[l].remaining <= lot[l].import /\ l \in Lots
    BY <1>1 DEF InventoryInv, BooksBalance, TypeOK
  <2>2. lot[l].remaining \in Int /\ lot[l].import \in Int
    BY <1>3, <2>1, InventoryAssumption DEF LotRow
  <2>3. lot'[l].remaining = lot[l].remaining - Cardinality(From(plan, l))
    <3>1. CASE l \in set
      <4>1. l \in j.sound
        BY <1>1, <3>1
      <4>2. j.copy[l].remaining = lot[l].remaining - Cardinality(From(plan, l))
        BY <1>1, <4>1 DEF JobInv
      <4>3. QED
        BY <1>3, <2>1, <3>1, <4>2
    <3>2. CASE l \notin set
      BY <1>3, <1>9, <2>1, <2>2, <3>2
    <3>3. QED
      BY <3>1, <3>2
  <2>4. QED
    BY <1>3, <1>9, <2>1, <2>2, <2>3
<1>11. ExportFitsOrder'
  <2> SUFFICES ASSUME NEW o \in exports' \ revised', NEW s \in Skus
               PROVE  Cardinality(Sent(lines', o, s)) <= Want[o][s]
    BY DEF ExportFitsOrder, Sent
  <2>1. CASE o \in j.orders
    <3>1. Sent(lines', o, s) = Sent(plan, o, s)
      BY <1>1, <2>1 DEF Sent, InventoryInv, LinesInv
    <3>2. Cardinality(Sent(plan, o, s)) <= Want[o][s]
      BY <1>1, <2>1 DEF JobInv
    <3>3. QED
      BY <3>1, <3>2
  <2>2. CASE o \notin j.orders
    <3>1. Sent(lines', o, s) = Sent(lines, o, s)
      BY <1>1, <1>2, <2>2 DEF Sent
    <3>2. QED
      BY <1>1, <2>2, <3>1 DEF InventoryInv, ExportFitsOrder
  <2>3. QED
    BY <2>1, <2>2
<1>12. JobsHold'
  <2>1. \A i \in Clerks : job'[i] = IdleJob \/ job'[i] = [job[i] EXCEPT !.sound = @ \ set]
    BY <1>1 DEF Answer, Disturb
  <2>2. ASSUME NEW l \in (stock \cup removed) \ set
        PROVE  Steady(l)
    <3>1. Out(l)' = Out(l) /\ Out(l) \in Nat /\ l \in Lots
      BY <1>1, <1>9, <2>2 DEF TypeOK
    <3>2. QED
      BY <1>3, <2>2, <3>1 DEF Steady
  <2>3. QED
    BY <1>1, <1>4, <1>6, <2>1, <2>2, JobsSurvive
<1>13. QED
  BY <1>4, <1>5, <1>7, <1>10, <1>11, <1>12 DEF InventoryInv, JobsHold

LEMMA SaveKeeps ==
    ASSUME InventoryInv, NEW k \in Clerks, Save(k)
    PROVE  InventoryInv'
<1> DEFINE j == job[k]
           set == j.touch \cup j.gone
<1>1. /\ TypeOK /\ JobsHold /\ Busy(k) /\ j \in Job /\ JobInv(j) /\ j.phase = "diffed"
      /\ stock' = stock \ j.gone /\ removed' = removed \cup j.gone
      /\ lines' \subseteq lines /\ \A p \in lines' : p[2] \notin j.gone
      /\ lot' = [l \in Lots |-> IF l \in j.touch THEN SavedRow(j, l) ELSE lot[l]]
      /\ balanced' = Balance(j) /\ job' = Answer(k, set)
      /\ UNCHANGED <<inUse, status, exports, revised, left>>
  BY DEF Save, Delete, InventoryInv, TypeOK, JobsHold, Busy
<1>2. /\ j.touch \subseteq Lots /\ j.gone \subseteq Lots /\ j.sound \subseteq j.touch
      /\ j.op \in {"updateImport", "updateRemainingQuantity", "updateQuantitySold"}
  BY <1>1 DEF Job, JobInv, Exports
<1>3. ASSUME NEW l \in Lots
      PROVE  /\ lot[l] \in LotRow /\ j.copy[l] \in LotRow /\ lot'[l] \in LotRow
             /\ lot'[l].import \in {lot[l].import, j.copy[l].import}
             /\ lot'[l].remaining \in {lot[l].remaining, j.copy[l].remaining}
             /\ lot'[l].sold = lot[l].sold \/ (l \in j.touch /\ lot'[l].sold = j.copy[l].sold)
             /\ l \notin j.touch \/ j.dirty[l] \subseteq {"sold"} =>
                   lot'[l].import = lot[l].import /\ lot'[l].remaining = lot[l].remaining
             /\ l \in j.sound =>
                   lot'[l].import = j.copy[l].import /\ lot'[l].remaining = j.copy[l].remaining
  <2>1. lot[l] \in LotRow /\ j.copy[l] \in LotRow
    BY <1>1 DEF TypeOK, Job
  <2>2. lot'[l] = IF l \in j.touch THEN SavedRow(j, l) ELSE lot[l]
    BY <1>1
  <2>3. /\ SavedRow(j, l).import = IF "import" \in j.dirty[l] THEN j.copy[l].import
                                                               ELSE lot[l].import
        /\ SavedRow(j, l).remaining = IF "remaining" \in j.dirty[l] THEN j.copy[l].remaining
                                                                     ELSE lot[l].remaining
        /\ SavedRow(j, l).sold = IF "sold" \in j.dirty[l] THEN j.copy[l].sold
                                                           ELSE lot[l].sold
        /\ SavedRow(j, l) = [import |-> SavedRow(j, l).import, sold |-> SavedRow(j, l).sold,
                             remaining |-> SavedRow(j, l).remaining]
    BY DEF SavedRow
  <2>4. lot'[l] \in LotRow
    BY <2>1, <2>2, <2>3 DEF LotRow
  <2>5. /\ lot'[l].import \in {lot[l].import, j.copy[l].import}
        /\ lot'[l].remaining \in {lot[l].remaining, j.copy[l].remaining}
        /\ lot'[l].sold = lot[l].sold \/ (l \in j.touch /\ lot'[l].sold = j.copy[l].sold)
        /\ l \notin j.touch \/ j.dirty[l] \subseteq {"sold"} =>
              lot'[l].import = lot[l].import /\ lot'[l].remaining = lot[l].remaining
    BY <2>2, <2>3
  <2>6. ASSUME l \in j.sound
        PROVE  lot'[l].import = j.copy[l].import /\ lot'[l].remaining = j.copy[l].remaining
    <3>1. /\ "import" \notin j.dirty[l] => j.copy[l].import = lot[l].import
          /\ "remaining" \notin j.dirty[l] => j.copy[l].remaining = lot[l].remaining
      BY <1>1, <2>6 DEF JobInv
    <3>2. QED
      BY <1>2, <2>2, <2>3, <2>6, <3>1
  <2>7. QED
    BY <2>1, <2>4, <2>5, <2>6
<1>4. TypeOK'
  <2>1. job' \in [Clerks -> Job]
    <3>1. Disturb(set) \in [Clerks -> Job]
      BY <1>1, DisturbedType
    <3>2. QED
      BY <1>1, <3>1, IdleType DEF Answer
  <2>2. lot' \in [Lots -> LotRow]
    BY <1>1, <1>3
  <2>3. balanced' \subseteq Lots
    BY <1>1, <1>2 DEF Balance, TypeOK
  <2>4. QED
    BY <1>1, <1>2, <2>1, <2>2, <2>3 DEF TypeOK
<1>5. LinesInv'
  BY <1>1 DEF InventoryInv, LinesInv
<1>6. SoldWasSent'
  <2> SUFFICES ASSUME NEW l \in stock', lot'[l].sold # 0
               PROVE  l \in left
    BY <1>1 DEF SoldWasSent
  <2>1. l \in stock /\ l \in Lots
    BY <1>1 DEF TypeOK
  <2>2. QED
    BY <1>1, <1>3, <2>1 DEF InventoryInv, SoldWasSent, JobInv
<1>7. \A l : Out(l)' <= Out(l) /\ Out(l) \in Nat /\ Out(l)' \in Nat
  BY <1>1, LinesShrink
<1>8. BooksBalance'
  <2> SUFFICES ASSUME NEW l \in stock' \cap balanced'
               PROVE  Out(l)' + lot'[l].remaining <= lot'[l].import
    BY DEF BooksBalance
  <2>1. l \in Lots /\ l \in stock
    BY <1>1 DEF TypeOK
  <2>2. /\ lot'[l].remaining \in Int /\ lot'[l].import \in Int
        /\ Out(l) \in Nat /\ Out(l)' \in Nat /\ Out(l)' <= Out(l)
    BY <1>3, <1>7, <2>1, InventoryAssumption DEF LotRow
  <2>3. Out(l) + lot'[l].remaining <= lot'[l].import
    <3>1. CASE l \in balanced /\ (l \notin j.touch \/ j.dirty[l] \subseteq {"sold"})
      BY <1>1, <1>3, <2>1, <3>1 DEF InventoryInv, BooksBalance
    <3>2. CASE l \in j.sound /\ j.op = "updateQuantitySold" /\ l \in balanced
      BY <1>1, <1>3, <2>1, <3>2 DEF InventoryInv, BooksBalance, JobInv
    <3>3. CASE l \in j.sound /\ j.op \in {"updateImport", "updateRemainingQuantity"}
      <4>1. Out(l) + j.copy[l].remaining <= j.copy[l].import
        BY <1>1, <3>3 DEF JobInv
      <4>2. QED
        BY <1>3, <2>1, <3>3, <4>1
    <3>4. \/ l \in balanced /\ (l \notin j.touch \/ j.dirty[l] \subseteq {"sold"})
          \/ l \in j.sound /\ j.op = "updateQuantitySold" /\ l \in balanced
          \/ l \in j.sound /\ j.op # "updateQuantitySold"
      BY <1>1 DEF Balance
    <3>5. QED
      BY <1>2, <3>1, <3>2, <3>3, <3>4
  <2>4. QED
    BY <2>2, <2>3
<1>9. ExportFitsOrder'
  BY <1>1, FitsShrink DEF InventoryInv
<1>10. JobsHold'
  <2>1. \A i \in Clerks : job'[i] = IdleJob \/ job'[i] = [job[i] EXCEPT !.sound = @ \ set]
    BY <1>1 DEF Answer, Disturb
  <2>2. ASSUME NEW l \in (stock \cup removed) \ set
        PROVE  Steady(l)
    BY <1>1, <1>3, <1>7, <2>2 DEF Steady, TypeOK
  <2>3. stock \cup removed \subseteq stock' \cup removed'
    BY <1>1
  <2>4. QED
    BY <1>1, <1>4, <2>1, <2>2, <2>3, JobsSurvive
<1>11. QED
  BY <1>4, <1>5, <1>6, <1>8, <1>9, <1>10 DEF InventoryInv, JobsHold

---------------------------------------------------------------------------
(* The theorems *)

LEMMA InitHolds == Init => InventoryInv
<1> SUFFICES ASSUME Init PROVE InventoryInv
  OBVIOUS
<1>1. TypeOK
  BY IdleType, BlankType DEF Init, TypeOK, Status
<1>2. LinesInv /\ BooksBalance /\ ExportFitsOrder /\ SoldWasSent
  BY DEF Init, LinesInv, BooksBalance, ExportFitsOrder, SoldWasSent
<1>3. \A k \in Clerks : ~Busy(k)
  BY IdleType DEF Init, Busy
<1>4. QED
  BY <1>1, <1>2, <1>3 DEF InventoryInv

LEMMA NextKeeps == InventoryInv /\ [Next]_vars => InventoryInv'
<1> SUFFICES ASSUME InventoryInv, [Next]_vars PROVE InventoryInv'
  OBVIOUS
<1>1. ASSUME NEW l \in Lots, NEW q \in inUse.quantities, CreateImport(l, q)
      PROVE  InventoryInv'
  BY <1>1, CreateImportKeeps
<1>2. ASSUME NEW i \in Imports, RemoveImport(i)
      PROVE  InventoryInv'
  BY <1>2, RemoveImportKeeps
<1>3. ASSUME NEW o \in Orders, CreateOrder(o)
      PROVE  InventoryInv'
  BY <1>3, OrderStepsKeep DEF Status
<1>4. ASSUME NEW o \in Orders, RemoveExport(o)
      PROVE  InventoryInv'
  BY <1>4, RemoveExportKeeps
<1>5. ASSUME NEW o \in Orders, NEW s \in Status, MoveOrder(o, s)
      PROVE  InventoryInv'
  BY <1>5, OrderStepsKeep
<1>6. ASSUME NEW o \in Orders, NEW plan \in SUBSET ({o} \X stock \X (1 .. MaxQty)),
             UpdateExport(o, plan)
      PROVE  InventoryInv'
  BY <1>6, UpdateExportKeeps
<1>7. ASSUME NEW k \in Clerks, NEW i \in Imports, NEW keep \in SUBSET Lots,
             NEW named \in SUBSET keep, NEW q \in [named -> inUse.quantities],
             UpdateImport(k, i, keep, q)
      PROVE  InventoryInv'
  BY <1>7, UpdateImportKeeps
<1>8. ASSUME NEW k \in Clerks, NEW o \in Orders, NEW plan \in Plans({o}),
             CreateExportOrder(k, o, plan)
      PROVE  InventoryInv'
  BY <1>8, StartExportKeeps DEF CreateExportOrder, Exports
<1>9. ASSUME NEW k \in Clerks, NEW os \in SUBSET Orders, NEW plan \in Plans(os),
             CreateManyExport(k, os, plan)
      PROVE  InventoryInv'
  BY <1>9, StartExportKeeps DEF CreateManyExport, Exports
<1>10. ASSUME NEW k \in Clerks, NEW l \in Lots, UpdateRemainingQuantity(k, l)
       PROVE  InventoryInv'
  BY <1>10, UpdateRemainingQuantityKeeps
<1>11. ASSUME NEW k \in Clerks, NEW o \in Orders, UpdateQuantitySold(k, o)
       PROVE  InventoryInv'
  BY <1>11, UpdateQuantitySoldKeeps
<1>12. ASSUME NEW k \in Clerks, CommitExport(k) \/ Diff(k) \/ Save(k) \/ Abort(k)
       PROVE  InventoryInv'
  BY <1>12, CommitExportKeeps, DiffKeeps, SaveKeeps, AbortKeeps
<1>13. CASE UNCHANGED vars
  <2>1. TypeOK' /\ LinesInv' /\ BooksBalance' /\ ExportFitsOrder' /\ SoldWasSent'
    BY <1>13 DEF vars, InventoryInv, TypeOK, LinesInv, BooksBalance, ExportFitsOrder,
                 SoldWasSent, Out
  <2>2. \A k \in Clerks : Busy(k)' => JobInv(job[k])'
    BY <1>13 DEF vars, InventoryInv, Busy, JobInv, Out
  <2>3. QED
    BY <2>1, <2>2 DEF InventoryInv
<1>14. QED
  BY <1>1, <1>2, <1>3, <1>4, <1>5, <1>6, <1>7, <1>8, <1>9, <1>10, <1>11, <1>12, <1>13
     DEF Next

\* Whatever overlaps or dies, lots, lines and requests in flight stay as
\* InventoryInv says (all handlers of imports and exports).
THEOREM InventoryInvariant == Spec => []InventoryInv
BY InitHolds, NextKeeps, PTL DEF Spec

\* A lot in balance promises no more than it holds: only the saves, updates and
\* counts that the model names put it out of balance (executeExportOrder).
THEOREM BooksAlwaysBalance == Spec => []BooksBalance
<1>1. InventoryInv => BooksBalance
  BY DEF InventoryInv
<1>2. QED
  BY <1>1, InventoryInvariant, PTL

\* No order is sent more than it asked for, by however many exports at once,
\* unless its export was updated (executeExportOrder, createManyExport).
THEOREM ExportsFitOrders == Spec => []ExportFitsOrder
<1>1. InventoryInv => ExportFitsOrder
  BY DEF InventoryInv
<1>2. QED
  BY <1>1, InventoryInvariant, PTL

\* Only goods of orders that came to an end count as sold, stale rows or not
\* (updateQuantitySold).
THEOREM SoldIsSent == Spec => []SoldWasSent
<1>1. InventoryInv => SoldWasSent
  BY DEF InventoryInv
<1>2. QED
  BY <1>1, InventoryInvariant, PTL

=============================================================================
