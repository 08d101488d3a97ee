--------------------------- MODULE ShopTypes_proofs ---------------------------
(***************************************************************************)
(* Every row and every request of the shop front is what its module says.  *)
(* Most of it is part of the invariants that the other modules of proofs   *)
(* establish; what those do not need is proved here: which reviews are     *)
(* shelved, which files the cloud store holds, what an order of the        *)
(* statistics is.  From the last follows that the statistics add up.  They *)
(* are sums over sets of any size, and what a fold computes is proved by   *)
(* looking at the least set, or number, for which it would not.            *)
(***************************************************************************)
EXTENDS ShopPeople_proofs, ShopRecords_proofs, WellFoundedInduction

---------------------------------------------------------------------------
(* Rows and requests *)

\* What the other invariants leave open.
Kept ==
    /\ shelved \subseteq reviews /\ cloud \subseteq Files
    /\ drive \subseteq LogoFiles /\ doomed \subseteq LogoFiles
    /\ book \in Seq(Sale)

\* Only reviews that are there are shelved; no file comes from nowhere.
LEMMA ReviewsKeep ==
    ASSUME shelved \subseteq reviews, cloud \subseteq Files, RNext
    PROVE  (shelved \subseteq reviews /\ cloud \subseteq Files)'
<1>1. CASE \E r \in reviews : ShelveReview(r) \/ CascadeReview(r)
  BY <1>1 DEF ShelveReview, CascadeReview
<1>2. ASSUME NEW k \in Clerks
      PROVE  /\ \A set \in SUBSET Files : CreateReview(k, set) =>
                    (shelved \subseteq reviews /\ cloud \subseteq Files)'
             /\ \A r \in reviews, op \in {"updateReview", "removeHardReview"},
                   set \in SUBSET Files : ReviewLoad(k, op, r, set) =>
                    (shelved \subseteq reviews /\ cloud \subseteq Files)'
             /\ \A i \in rjob[k].todo : RemoveFile(k, i) =>
                    (shelved \subseteq reviews /\ cloud \subseteq Files)'
             /\ \A f \in rjob[k].files : AddPicture(k, f) =>
                    (shelved \subseteq reviews /\ cloud \subseteq Files)'
             /\ (RemoveRow(k) \/ ReviewDone(k) \/ RAbort(k)) =>
                    (shelved \subseteq reviews /\ cloud \subseteq Files)'
  <2>1. \A set \in SUBSET Files : CreateReview(k, set) =>
            (shelved \subseteq reviews /\ cloud \subseteq Files)'
    BY DEF CreateReview
  <2>2. \A r \in reviews, op \in {"updateReview", "removeHardReview"},
           set \in SUBSET Files : ReviewLoad(k, op, r, set) =>
            (shelved \subseteq reviews /\ cloud \subseteq Files)'
    BY DEF ReviewLoad
  <2>3. \A i \in rjob[k].todo : RemoveFile(k, i) =>
            (shelved \subseteq reviews /\ cloud \subseteq Files)'
    BY DEF RemoveFile
  <2>4. \A f \in rjob[k].files : AddPicture(k, f) =>
            (shelved \subseteq reviews /\ cloud \subseteq Files)'
    BY DEF AddPicture
  <2>5. RemoveRow(k) \/ RAbort(k) => (shelved \subseteq reviews /\ cloud \subseteq Files)'
    BY DEF RemoveRow, RAbort
  <2>6. ReviewDone(k) => (shelved \subseteq reviews /\ cloud \subseteq Files)'
    BY DEF ReviewDone
  <2>7. QED
    BY <2>1, <2>2, <2>3, <2>4, <2>5, <2>6
<1>3. QED
  BY <1>1, <1>2 DEF RNext

\* A removal starts with a file of a row, and only uploads bring files.
LEMMA LogosKeep ==
    ASSUME LogosInv, drive \subseteq LogoFiles, doomed \subseteq LogoFiles, LNext
    PROVE  (drive \subseteq LogoFiles /\ doomed \subseteq LogoFiles)'
<1>1. drive' \subseteq drive
  <2>1. CASE PaymentMethodController
    BY <2>1 DEF PaymentMethodController, CreatePaymentMethod, InsertLogo,
                UpdatePaymentMethodLoad
  <2>2. CASE DeliveryMethodController
    BY <2>2 DEF DeliveryMethodController, CreateDeliveryMethod, InsertLogo,
                UpdateDeliveryMethodLoad, RemoveDeliveryMethodLoad
  <2>3. CASE BrandController
    BY <2>3 DEF BrandController, CreateBrand, InsertLogo, UpdateBrandLoad,
                UpdateThumbnailLoad, RemoveBrandLoad
  <2>4. CASE ~(PaymentMethodController \/ DeliveryMethodController \/ BrandController)
    BY <2>4 DEF LNext, UpdatePaymentMethodRemove, UpdatePaymentMethodSave,
                UpdateDeliveryMethodRemove, RemoveDeliveryMethodRemove, RemoveDeliveryMethod,
                UpdateBrandSave, UpdateThumbnailAnswer, UpdateThumbnailSave, RemoveBrand,
                LAbort, DropFile, LRestart, RemoveLogo, SaveLogo, DeleteLogo
  <2>5. QED
    BY <2>1, <2>2, <2>3, <2>4
<1>2. doomed' \subseteq doomed \cup {logo[i].file : i \in inShop}
  <2>1. CASE PaymentMethodController
    BY <2>1 DEF PaymentMethodController, CreatePaymentMethod, InsertLogo,
                UpdatePaymentMethodLoad
  <2>2. CASE DeliveryMethodController
    BY <2>2 DEF DeliveryMethodController, CreateDeliveryMethod, InsertLogo,
                UpdateDeliveryMethodLoad, RemoveDeliveryMethodLoad
  <2>3. CASE BrandController
    BY <2>3 DEF BrandController, CreateBrand, InsertLogo, UpdateBrandLoad,
                UpdateThumbnailLoad, RemoveBrandLoad
  <2>4. CASE ~(PaymentMethodController \/ DeliveryMethodController \/ BrandController)
    BY <2>4 DEF LNext, UpdatePaymentMethodRemove, UpdatePaymentMethodSave,
                UpdateDeliveryMethodRemove, RemoveDeliveryMethodRemove, RemoveDeliveryMethod,
                UpdateBrandSave, UpdateThumbnailAnswer, UpdateThumbnailSave, RemoveBrand,
                LAbort, DropFile, LRestart, RemoveLogo, SaveLogo, DeleteLogo
  <2>5. QED
    BY <2>1, <2>2, <2>3, <2>4
<1>3. {logo[i].file : i \in inShop} \subseteq LogoFiles
  BY LogosFacts
<1>4. QED
  BY <1>1, <1>2, <1>3

LEMMA KeptOn == Kept /\ LogosInv /\ [Next]_shopVars => Kept'
<1>1. SUFFICES ASSUME Kept, LogosInv, [Next]_shopVars PROVE Kept'
  OBVIOUS
<1>2. RNext \/ UNCHANGED reviewVars
  BY <1>1 DEF Next, shopVars
<1>3. LNext \/ UNCHANGED logoVars
  BY <1>1 DEF Next, shopVars
<1>4. SNext \/ UNCHANGED book
  BY <1>1 DEF Next, shopVars
<1>5. (shelved \subseteq reviews /\ cloud \subseteq Files)'
  <2>1. CASE RNext
    BY <1>1, <2>1, ReviewsKeep DEF Kept
  <2>2. CASE UNCHANGED reviewVars
    BY <1>1, <2>2 DEF Kept, reviewVars
  <2>3. QED
    BY <1>2, <2>1, <2>2
<1>6. (drive \subseteq LogoFiles /\ doomed \subseteq LogoFiles)'
  <2>1. CASE LNext
    BY <1>1, <2>1, LogosKeep DEF Kept
  <2>2. CASE UNCHANGED logoVars
    BY <1>1, <2>2 DEF Kept, logoVars
  <2>3. QED
    BY <1>3, <2>1, <2>2
<1>7. book' \in Seq(Sale)
  <2>1. CASE SNext
    <3>1. PICK s \in Sale : book' = Append(book, s)
      BY <2>1 DEF SNext, Sell
    <3>2. QED
      BY <1>1, <3>1, AppendRow DEF Kept
  <2>2. CASE UNCHANGED book
    BY <1>1, <2>2 DEF Kept
  <2>3. QED
    BY <1>4, <2>1, <2>2
<1>8. QED
  BY <1>5, <1>6, <1>7 DEF Kept

LEMMA KeptAlways == Spec => []Kept
<1>1. Init => Kept
  BY DEF Init, Kept, RInit, LInit, SInit
<1>2. QED
  BY <1>1, KeptOn, LogosInvariant, PTL DEF Spec

\* Every row and every request of the shop front is what its module says, and
\* only rows that were inserted are there (ShopTypeOK).
THEOREM ShopTypes == Spec => []ShopTypeOK
<1>1. VoucherInv /\ CartInv /\ AddressesInv /\ AccountsInv =>
          /\ offered \in SUBSET Vouchers /\ active \in SUBSET Vouchers
          /\ got \in [Vouchers -> Nat]
          /\ owned \in Seq(UserVoucher) /\ held \subseteq DOMAIN owned
          /\ vjob \in [Clerks -> VJob]
          /\ carts \subseteq Customers
          /\ item \in Seq(CartItem) /\ inCart \subseteq DOMAIN item
          /\ cjob \in [Clerks -> CJob]
          /\ address \in Seq(Address) /\ kept \subseteq DOMAIN address
          /\ ajob \in [Clerks -> AJob]
          /\ account \in Seq(Account) /\ live \subseteq DOMAIN account /\ issued \in Codes
          /\ kjob \in [Clerks -> KJob]
  BY DEF VoucherInv, VoucherTypeOK, CartInv, CartTypeOK, AddressesInv, AddressesTypeOK,
         AccountsInv, AccountsTypeOK
<1>2. CatalogueInv =>
          /\ launched \in Rows \cup {0} /\ hidden \subseteq listed /\ listed \subseteq 1 .. launched
          /\ variant \in Seq(Variant) /\ onSale \subseteq DOMAIN variant
          /\ \A s \in onSale : variant[s].product \in listed
          /\ details \in [Rows -> SUBSET Rows]
          /\ placed \in Rows \cup {0} /\ pjob \in [Clerks -> PJob]
  <2>1. 0 .. MaxRows = Rows \cup {0}
    BY PartiesAssumption DEF Rows
  <2>2. QED
    BY <2>1 DEF CatalogueInv, CatalogueTypeOK
<1>3. ReviewsInv /\ RolesInv /\ CategoriesInv =>
          /\ written \in 0 .. MaxReviews /\ reviews \subseteq 1 .. written
          /\ picture \in Seq(Picture) /\ shown \subseteq DOMAIN picture
          /\ rjob \in [Clerks -> RJob]
          /\ permission \in Seq(Routes) /\ standing \subseteq DOMAIN permission
          /\ made \in 0 .. MaxRoles /\ roles \subseteq 1 .. made
          /\ grants \subseteq roles \X standing /\ gjob \in [Clerks -> GJob]
          /\ filed \in 0 .. MaxRows /\ off \subseteq categories /\ categories \subseteq 1 .. filed
          /\ \A c \in categories : parent[c] \in {None} \cup categories
          /\ hjob \in [Clerks -> HJob]
  BY DEF ReviewsInv, ReviewsTypeOK, RolesInv, RolesTypeOK, CategoriesInv, CategoriesTypeOK,
         ParentsThere
<1>4. LogosInv /\ BlogsInv =>
          /\ logo \in Seq(LogoRow) /\ inShop \subseteq DOMAIN logo
          /\ ljob \in [Clerks -> LJob]
          /\ opened \in 0 .. MaxRows /\ topics \subseteq 1 .. opened
          /\ blog \in Seq(Blog) /\ posted \subseteq DOMAIN blog
          /\ \A b \in posted : blog[b].category \in {Nowhere} \cup topics
          /\ stock \subseteq Photos /\ bjob \in [Clerks -> BJob]
  BY DEF LogosInv, LogosTypeOK, BlogsInv, BlogsTypeOK
<1>5. /\ inUse \in Mixes /\ Kept
      /\ VoucherInv /\ CartInv /\ AddressesInv /\ AccountsInv /\ CatalogueInv
      /\ ReviewsInv /\ RolesInv /\ CategoriesInv /\ LogosInv /\ BlogsInv
      => ShopTypeOK
  BY <1>1, <1>2, <1>3, <1>4 DEF Kept, ShopTypeOK
<1>6. QED
  BY <1>5, MixStays, KeptAlways, VouchersInvariant, CartInvariant, AddressesInvariant,
     AccountsInvariant, CatalogueInvariant, ReviewsInvariant, RolesInvariant,
     CategoriesInvariant, LogosInvariant, BlogsInvariant, PTL

---------------------------------------------------------------------------
(* Sums *)

\* A set of numbers has a least one.
LEMMA LeastNumber ==
    ASSUME NEW T \in SUBSET Nat, T # {}
    PROVE  \E x \in T : \A y \in T : x <= y
<1>1. IsWellFoundedOn(OpToRel(<, Nat), Nat)
  BY NatLessThanWellFounded, Zenon
<1>2. PICK x \in T : \A y \in T : <<y, x>> \notin OpToRel(<, Nat)
  BY <1>1, WFMin, Zenon
<1>3. ASSUME NEW y \in T PROVE ~(y < x)
  BY <1>2 DEF OpToRel
<1>4. QED
  BY <1>3

\* Among sets of numbers up to n there is one of which no part with one number
\* less is among them.
LEMMA LeastSet ==
    ASSUME NEW n \in Nat, NEW T \in SUBSET SUBSET (1 .. n), T # {}
    PROVE  \E A \in T : \A x \in A : A \ {x} \notin T
<1>1. \A A \in SUBSET (1 .. n) : IsFiniteSet(A) /\ Cardinality(A) \in Nat
  <2>1. IsFiniteSet(1 .. n)
    BY FS_Interval
  <2>2. QED
    BY <2>1, FS_Subset, FS_CardinalityType
<1> DEFINE sizes == {Cardinality(A) : A \in T}
<1>2. PICK s \in sizes : \A y \in sizes : s <= y
  <2>1. sizes \in SUBSET Nat /\ sizes # {}
    BY <1>1
  <2>2. QED
    BY <2>1, LeastNumber
<1>3. PICK A \in T : s = Cardinality(A)
  OBVIOUS
<1>4. ASSUME NEW x \in A, A \ {x} \in T PROVE FALSE
  <2>1. Cardinality(A \ {x}) = Cardinality(A) - 1
    BY <1>1, FS_RemoveElement
  <2>2. Cardinality(A) <= Cardinality(A \ {x})
    BY <1>2, <1>3, <1>4
  <2>3. QED
    BY <1>1, <2>1, <2>2
<1>5. QED
  BY <1>4

\* m[A] is the sum of F over A, for all sets A of numbers up to n.
IsSum(m, F, n) ==
    /\ \A x \in 1 .. n : F[x] \in Nat
    /\ m \in [SUBSET (1 .. n) -> Nat] /\ m[{}] = 0
    /\ \A A \in SUBSET (1 .. n) : \A x \in (1 .. n) \ A : m[A \cup {x}] = m[A] + F[x]

LEMMA SumOnward ==
    ASSUME NEW n \in Nat, NEW F, F[n + 1] \in Nat, NEW m, IsSum(m, F, n)
    PROVE  \E h : IsSum(h, F, n + 1)
<1> DEFINE h == [A \in SUBSET (1 .. (n + 1)) |->
                   IF n + 1 \in A THEN m[A \ {n + 1}] + F[n + 1] ELSE m[A]]
<1>0. \A A \in SUBSET (1 .. (n + 1)) :
         A \ {n + 1} \in SUBSET (1 .. n) /\ (n + 1 \notin A => A \in SUBSET (1 .. n))
  <2>1. 1 .. (n + 1) = (1 .. n) \cup {n + 1}
    OBVIOUS
  <2>2. QED
    BY <2>1
<1>1. m \in [SUBSET (1 .. n) -> Nat] /\ m[{}] = 0
  BY DEF IsSum
<1>2. h \in [SUBSET (1 .. (n + 1)) -> Nat]
  BY <1>0, <1>1
<1>3. h[{}] = 0
  BY <1>1
<1>4. ASSUME NEW A \in SUBSET (1 .. (n + 1)), NEW x \in (1 .. (n + 1)) \ A
      PROVE  h[A \cup {x}] = h[A] + F[x]
  <2>0. A \cup {x} \in SUBSET (1 .. (n + 1))
    OBVIOUS
  <2>1. CASE x = n + 1
    <3>1. h[A \cup {x}] = m[(A \cup {x}) \ {n + 1}] + F[n + 1] /\ h[A] = m[A]
      BY <2>0, <2>1
    <3>2. (A \cup {x}) \ {n + 1} = A
      BY <2>1
    <3>3. QED
      BY <2>1, <3>1, <3>2
  <2>2. CASE x # n + 1 /\ n + 1 \in A
    <3>1. h[A \cup {x}] = m[(A \cup {x}) \ {n + 1}] + F[n + 1]
          /\ h[A] = m[A \ {n + 1}] + F[n + 1]
      BY <2>0, <2>2
    <3>2. (A \cup {x}) \ {n + 1} = (A \ {n + 1}) \cup {x}
      BY <2>2
    <3>3. x \in (1 .. n) \ (A \ {n + 1}) /\ A \ {n + 1} \in SUBSET (1 .. n)
      BY <1>0, <2>2
    <3>4. m[(A \ {n + 1}) \cup {x}] = m[A \ {n + 1}] + F[x]
      BY <3>3 DEF IsSum
    <3>5. m[A \ {n + 1}] \in Nat /\ m[(A \ {n + 1}) \cup {x}] \in Nat
      <4>1. (A \ {n + 1}) \cup {x} \in SUBSET (1 .. n)
        BY <3>3
      <4>2. QED
        BY <4>1, <3>3, <1>1
    <3>6. F[x] \in Nat
      BY <3>3 DEF IsSum
    <3>7. h[A \cup {x}] = (m[A \ {n + 1}] + F[x]) + F[n + 1]
      BY <3>1, <3>2, <3>4
    <3>8. h[A] = m[A \ {n + 1}] + F[n + 1]
      BY <3>1
    <3> HIDE DEF h
    <3>9. QED
      BY <3>5, <3>6, <3>7, <3>8
  <2>3. CASE x # n + 1 /\ n + 1 \notin A
    <3>1. h[A \cup {x}] = m[A \cup {x}] /\ h[A] = m[A]
      BY <2>0, <2>3
    <3>2. x \in (1 .. n) \ A /\ A \in SUBSET (1 .. n)
      BY <1>0, <2>3
    <3>3. QED
      BY <3>1, <3>2 DEF IsSum
  <2>4. QED
    BY <2>1, <2>2, <2>3
<1>5. \A x \in 1 .. (n + 1) : F[x] \in Nat
  BY DEF IsSum
<1>6. IsSum(h, F, n + 1)
  BY <1>2, <1>5, <1>3, <1>4 DEF IsSum
<1>7. QED
  BY <1>6

LEMMA SumExists ==
    ASSUME NEW n \in Nat, NEW F, \A x \in 1 .. n : F[x] \in Nat
    PROVE  \E m : IsSum(m, F, n)
<1> DEFINE T == {k \in 0 .. n : ~ \E m : IsSum(m, F, k)}
<1>1. SUFFICES ASSUME T # {} PROVE FALSE
  OBVIOUS
<1>2. PICK k \in T : \A y \in T : k <= y
  <2>1. T \in SUBSET Nat
    OBVIOUS
  <2>2. QED
    BY <1>1, <2>1, LeastNumber
<1>3. CASE k = 0
  <2>1. 1 .. k = {}
    BY <1>3
  <2>2. IsSum([A \in SUBSET {} |-> 0], F, k)
    BY <2>1 DEF IsSum
  <2>3. QED
    BY <2>2
<1>4. CASE k # 0
  <2>1. k - 1 \in 0 .. n /\ k - 1 \in Nat /\ (k - 1) + 1 = k /\ k \in 1 .. n
    BY <1>4
  <2>2. k - 1 \notin T
    BY <1>2, <2>1
  <2>3. PICK m : IsSum(m, F, k - 1)
    BY <2>1, <2>2
  <2>4. \E h : IsSum(h, F, (k - 1) + 1)
    BY <2>1, <2>3, SumOnward
  <2>5. QED
    BY <2>1, <2>4
<1>5. QED
  BY <1>3, <1>4

\* One element of the set, and the rest.
LEMMA SumStep ==
    ASSUME NEW n \in Nat, NEW F, NEW m, IsSum(m, F, n), NEW s \in SUBSET (1 .. n), NEW x \in s
    PROVE  m[s] = F[x] + m[s \ {x}]
<1>1. s \ {x} \in SUBSET (1 .. n) /\ x \in (1 .. n) \ (s \ {x}) /\ (s \ {x}) \cup {x} = s
  OBVIOUS
<1>2. m[s] = m[s \ {x}] + F[x] /\ m[s] \in Nat /\ m[s \ {x}] \in Nat /\ F[x] \in Nat
  BY <1>1 DEF IsSum
<1>3. QED
  BY <1>2

\* g solves the recursion of the fold that sums F over S.
Solves(g, F, S) ==
    \A s \in SUBSET S :
        g[s] = IF s = {} THEN 0 ELSE LET x == CHOOSE y \in s : TRUE IN F[x] + g[s \ {x}]

\* The recursion of the fold has no other solution.
LEMMA SumSolvesAlone ==
    ASSUME NEW n \in Nat, NEW F, NEW m, IsSum(m, F, n), NEW S \in SUBSET (1 .. n), NEW g, Solves(g, F, S)
    PROVE  g[S] = m[S]
<1> DEFINE T == {s \in SUBSET S : g[s] # m[s]}
<1>1. SUFFICES ASSUME T # {} PROVE FALSE
  OBVIOUS
<1>2. T \in SUBSET SUBSET (1 .. n)
  OBVIOUS
<1>3. PICK s \in T : \A x \in s : s \ {x} \notin T
  BY <1>1, <1>2, LeastSet
<1>4. CASE s = {}
  BY <1>4 DEF IsSum, Solves
<1>5. CASE s # {}
  <2>1. PICK x \in s : x = CHOOSE y \in s : TRUE
    BY <1>5
  <2>2. s \ {x} \in SUBSET S /\ g[s \ {x}] = m[s \ {x}]
    BY <1>3
  <2>3. g[s] = F[x] + g[s \ {x}]
    BY <1>5, <2>1 DEF Solves
  <2>4. m[s] = F[x] + m[s \ {x}]
    <3>1. s \in SUBSET (1 .. n)
      OBVIOUS
    <3>2. QED
      BY <3>1, SumStep
  <2>5. QED
    BY <2>2, <2>3, <2>4
<1>6. QED
  BY <1>4, <1>5

\* and the sum is one.
LEMMA SumSolves ==
    ASSUME NEW n \in Nat, NEW F, NEW m, IsSum(m, F, n), NEW S \in SUBSET (1 .. n)
    PROVE  \E h : h = [s \in SUBSET S |-> h[s]] /\ Solves(h, F, S)
<1>1. PICK h : h = [s \in SUBSET S |-> m[s]]
  OBVIOUS
<1>2. ASSUME NEW s \in SUBSET S
      PROVE  h[s] = IF s = {} THEN 0 ELSE LET x == CHOOSE y \in s : TRUE IN F[x] + h[s \ {x}]
  <2>1. CASE s = {}
    BY <1>1, <2>1 DEF IsSum
  <2>2. CASE s # {}
    <3>1. PICK x \in s : x = CHOOSE y \in s : TRUE
      BY <2>2
    <3>2. m[s] = F[x] + m[s \ {x}]
      <4>1. s \in SUBSET (1 .. n)
        OBVIOUS
      <4>2. QED
        BY <4>1, SumStep
    <3>3. h[s \ {x}] = m[s \ {x}] /\ h[s] = m[s]
      BY <1>1
    <3>4. QED
      BY <2>2, <3>1, <3>2, <3>3
  <2>3. QED
    BY <2>1, <2>2
<1>3. h = [s \in SUBSET S |-> h[s]]
  BY <1>1
<1>4. QED
  BY <1>2, <1>3 DEF Solves

SumOver(f, S) == MapThenSumSet(LAMBDA x : f[x], S)

\* What the fold computes.
LEMMA SumOfFunction ==
    ASSUME NEW n \in Nat, NEW F, NEW m, IsSum(m, F, n), NEW S \in SUBSET (1 .. n),
           NEW f, \A x \in S : F[x] = f[x]
    PROVE  SumOver(f, S) = m[S]
<1> DEFINE step(g) == [s \in SUBSET S |->
                          IF s = {} THEN 0
                          ELSE LET x == CHOOSE y \in s : TRUE IN f[x] + g[s \ {x}]]
           iter == CHOOSE g : g = step(g)
<1>1. SumOver(f, S) = iter[S]
  BY DEF SumOver, MapThenSumSet, MapThenFoldSet
<1>2. \A s \in SUBSET S : s # {} => (CHOOSE y \in s : TRUE) \in S
  OBVIOUS
<1>3. \E g : g = step(g)
  <2>1. PICK h : h = [s \in SUBSET S |-> h[s]] /\ Solves(h, F, S)
    BY SumSolves
  <2>2. ASSUME NEW s \in SUBSET S PROVE h[s] = step(h)[s]
    BY <1>2, <2>1 DEF Solves
  <2>3. h = step(h)
    BY <2>1, <2>2
  <2>4. QED
    BY <2>3
<1>4. iter = step(iter)
  BY <1>3
<1> HIDE DEF iter
<1>5. ASSUME NEW s \in SUBSET S
      PROVE  iter[s] = IF s = {} THEN 0
                       ELSE LET x == CHOOSE y \in s : TRUE IN F[x] + iter[s \ {x}]
  <2>1. iter[s] = IF s = {} THEN 0
                  ELSE LET x == CHOOSE y \in s : TRUE IN f[x] + iter[s \ {x}]
    BY <1>4
  <2>2. QED
    BY <1>2, <2>1
<1>6. Solves(iter, F, S)
  BY <1>5 DEF Solves
<1>7. iter[S] = m[S]
  BY <1>6, SumSolvesAlone
<1>8. QED
  BY <1>1, <1>7

\* Sets that have no number in common.
LEMMA SumUnion ==
    ASSUME NEW n \in Nat, NEW F, NEW m, IsSum(m, F, n),
           NEW A \in SUBSET (1 .. n), NEW B \in SUBSET (1 .. n), A \cap B = {}
    PROVE  m[A \cup B] = m[A] + m[B]
<1> DEFINE T == {s \in SUBSET B : m[A \cup s] # m[A] + m[s]}
<1>1. SUFFICES ASSUME T # {} PROVE FALSE
  OBVIOUS
<1>2. T \in SUBSET SUBSET (1 .. n)
  OBVIOUS
<1>3. PICK s \in T : \A x \in s : s \ {x} \notin T
  BY <1>1, <1>2, LeastSet
<1>4. /\ m[{}] = 0 /\ \A R \in SUBSET (1 .. n) : m[R] \in Nat
      /\ \A x \in 1 .. n : F[x] \in Nat
  BY DEF IsSum
<1>5. CASE s = {}
  <2>1. A \cup s = A
    BY <1>5
  <2>2. QED
    BY <1>4, <1>5, <2>1
<1>6. CASE s # {}
  <2>1. PICK x \in s : TRUE
    BY <1>6
  <2>2. /\ s \in SUBSET (1 .. n) /\ s \ {x} \in SUBSET (1 .. n) /\ s \ {x} \in SUBSET B
        /\ A \cup s \in SUBSET (1 .. n) /\ x \in A \cup s /\ x \in 1 .. n
        /\ (A \cup s) \ {x} = A \cup (s \ {x})
    OBVIOUS
  <2>3. m[A \cup (s \ {x})] = m[A] + m[s \ {x}]
    BY <1>3, <2>2
  <2>4. m[s] = F[x] + m[s \ {x}]
    BY <2>2, SumStep
  <2>5. m[A \cup s] = F[x] + m[A \cup (s \ {x})]
    <3>1. PICK R \in SUBSET (1 .. n) : R = A \cup s
      BY <2>2
    <3>2. x \in R
      BY <3>1
    <3>3. m[R] = F[x] + m[R \ {x}]
      BY <3>2, SumStep
    <3>4. QED
      BY <2>2, <3>1, <3>3
  <2>6. m[A] \in Nat /\ m[s \ {x}] \in Nat /\ F[x] \in Nat
    BY <1>4, <2>2
  <2>7. m[A \cup s] = m[A] + m[s]
    BY <2>3, <2>4, <2>5, <2>6
  <2>8. QED
    BY <2>7
<1>7. QED
  BY <1>5, <1>6

\* Summands that are not less add up to no less.
LEMMA SumMonotone ==
    ASSUME NEW n \in Nat, NEW F, NEW m, IsSum(m, F, n), NEW G, NEW h, IsSum(h, G, n),
           NEW S \in SUBSET (1 .. n), \A x \in S : F[x] <= G[x]
    PROVE  m[S] <= h[S]
<1> DEFINE T == {s \in SUBSET S : ~(m[s] <= h[s])}
<1>1. SUFFICES ASSUME T # {} PROVE FALSE
  OBVIOUS
<1>2. T \in SUBSET SUBSET (1 .. n)
  OBVIOUS
<1>3. PICK s \in T : \A x \in s : s \ {x} \notin T
  BY <1>1, <1>2, LeastSet
<1>4. /\ m[{}] = 0 /\ \A R \in SUBSET (1 .. n) : m[R] \in Nat
      /\ h[{}] = 0 /\ \A R \in SUBSET (1 .. n) : h[R] \in Nat
      /\ \A x \in 1 .. n : F[x] \in Nat /\ G[x] \in Nat
  BY DEF IsSum
<1>5. CASE s = {}
  BY <1>4, <1>5
<1>6. CASE s # {}
  <2>1. PICK x \in s : TRUE
    BY <1>6
  <2>2. /\ s \in SUBSET (1 .. n) /\ s \ {x} \in SUBSET (1 .. n) /\ s \ {x} \in SUBSET S
        /\ x \in 1 .. n /\ x \in S
    OBVIOUS
  <2>3. m[s \ {x}] <= h[s \ {x}] /\ F[x] <= G[x]
    BY <1>3, <2>2
  <2>4. m[s] = F[x] + m[s \ {x}] /\ h[s] = G[x] + h[s \ {x}]
    <3>1. s \in SUBSET (1 .. n)
      OBVIOUS
    <3>2. m[s] = F[x] + m[s \ {x}]
      BY <3>1, SumStep
    <3>3. h[s] = G[x] + h[s \ {x}]
      BY <3>1, SumStep
    <3>4. QED
      BY <3>2, <3>3
  <2>5. m[s \ {x}] \in Nat /\ h[s \ {x}] \in Nat /\ F[x] \in Nat /\ G[x] \in Nat
    BY <1>4, <2>2
  <2>6. m[s] <= h[s]
    BY <2>3, <2>4, <2>5
  <2>7. QED
    BY <2>6
<1>7. QED
  BY <1>5, <1>6

\* Equal summands have equal sums.
LEMMA SumSame ==
    ASSUME NEW n \in Nat, NEW F, NEW m, IsSum(m, F, n), NEW G, NEW h, IsSum(h, G, n),
           NEW S \in SUBSET (1 .. n), \A x \in S : F[x] = G[x]
    PROVE  m[S] = h[S]
<1>1. m[S] \in Nat /\ h[S] \in Nat /\ \A x \in S : F[x] \in Nat /\ G[x] \in Nat
  BY DEF IsSum
<1>2. (\A x \in S : F[x] <= G[x]) /\ (\A x \in S : G[x] <= F[x])
  BY <1>1
<1>3. m[S] <= h[S]
  BY <1>2, SumMonotone
<1>4. h[S] <= m[S]
  BY <1>2, SumMonotone
<1>5. QED
  BY <1>1, <1>3, <1>4

\* Those of A that D puts between a and b.
Span(A, D, a, b) == {i \in A : D[i] \in a .. b}

\* G[d] is the sum of those of A that D puts at d, for d from a to b.
SumsByDay(G, m, A, D, a, b) == \A d \in a .. b : G[d] = m[{i \in A : D[i] = d}]

\* What is summed by days, and then over days, is summed over all the days.
LEMMA SumOfSums ==
    ASSUME NEW n \in Nat, NEW F, NEW m, IsSum(m, F, n), NEW A \in SUBSET (1 .. n), NEW D,
           NEW l \in Nat, NEW G, NEW h, IsSum(h, G, l), NEW a \in 1 .. (l + 1), NEW b \in (a - 1) .. l,
           SumsByDay(G, m, A, D, a, b)
    PROVE  h[a .. b] = m[Span(A, D, a, b)]
<1>0. \A P, R \in SUBSET (1 .. n) : P \cap R = {} => m[P \cup R] = m[P] + m[R]
  <2>1. TAKE P, R \in SUBSET (1 .. n)
  <2>2. HAVE P \cap R = {}
  <2>3. QED
    BY <2>2, SumUnion
<1> DEFINE Part(c) == {i \in A : D[i] \in a .. c}
           T == {c \in (a - 1) .. b : h[a .. c] # m[Part(c)]}
<1>1. SUFFICES ASSUME T # {} PROVE FALSE
  <2>1. b \in (a - 1) .. b
    OBVIOUS
  <2>2. b \notin T => h[a .. b] = m[Part(b)]
    BY <2>1
  <2>3. QED
    BY <2>2 DEF Span
<1>2. PICK c \in T : \A y \in T : c <= y
  <2>1. T \in SUBSET Nat
    OBVIOUS
  <2>2. QED
    BY <1>1, <2>1, LeastNumber
<1>3. /\ m[{}] = 0 /\ \A R \in SUBSET (1 .. n) : m[R] \in Nat
      /\ h[{}] = 0 /\ \A R \in SUBSET (1 .. l) : h[R] \in Nat
  BY DEF IsSum
<1>4. CASE c = a - 1
  <2>1. a .. c = {} /\ Part(c) = {}
    BY <1>4
  <2>2. QED
    BY <1>3, <2>1
<1>5. CASE c # a - 1
  <2>1. c - 1 \in (a - 1) .. b /\ c \in a .. b /\ c \in 1 .. l
    BY <1>5
  <2>2. h[a .. (c - 1)] = m[Part(c - 1)]
    <3>1. ~(c <= c - 1)
      BY <2>1
    <3>2. c - 1 \notin T
      BY <1>2, <3>1
    <3>3. QED
      BY <2>1, <3>2
  <2>3. h[a .. c] = G[c] + h[a .. (c - 1)]
    <3>1. a .. c \in SUBSET (1 .. l) /\ c \in a .. c /\ (a .. c) \ {c} = a .. (c - 1)
      BY <2>1
    <3>2. PICK R \in SUBSET (1 .. l) : R = a .. c
      BY <3>1
    <3>3. h[R] = G[c] + h[R \ {c}]
      BY <3>1, <3>2, SumStep
    <3>4. QED
      BY <3>1, <3>2, <3>3
  <2>4. m[Part(c)] = m[Part(c - 1)] + m[{i \in A : D[i] = c}]
    <3>1. a .. c = (a .. (c - 1)) \cup {c} /\ c \notin a .. (c - 1)
      BY <2>1
    <3>2. PICK P \in SUBSET (1 .. n) : P = Part(c - 1)
      OBVIOUS
    <3>3. PICK R \in SUBSET (1 .. n) : R = {i \in A : D[i] = c}
      OBVIOUS
    <3>4. Part(c) = P \cup R
      BY <3>1, <3>2, <3>3
    <3>5. P \cap R = {}
      BY <3>1, <3>2, <3>3
    <3>6. m[P \cup R] = m[P] + m[R]
      BY <1>0, <3>5
    <3>7. QED
      BY <3>2, <3>3, <3>4, <3>6
  <2>5. G[c] = m[{i \in A : D[i] = c}]
    BY <2>1 DEF SumsByDay
  <2>6. m[Part(c - 1)] \in Nat /\ m[{i \in A : D[i] = c}] \in Nat
    BY <1>3
  <2>7. h[a .. c] = m[Part(c)]
    <3> HIDE DEF Part
    <3>1. QED
      BY <2>2, <2>3, <2>4, <2>5, <2>6
  <2>8. QED
    BY <2>7
<1>6. QED
  BY <1>4, <1>5

---------------------------------------------------------------------------
(* Statistics *)

\* What an order counts for after the join, and what it costs.
Worth == [i \in DOMAIN book |-> book[i].total * (IF book[i].lines = 0 THEN 1 ELSE book[i].lines)]

Price == [i \in DOMAIN book |-> book[i].total]

Counted(set) == {i \in set : Counts(i)}

LEMMA MonthTypes ==
    /\ Len(Calendar) \in Nat /\ Months = 1 .. Len(Calendar)
    /\ \A m \in Months : m \in Nat /\ Calendar[m] \in 1 .. 31 /\ Calendar[m] \in Nat
<1>1. Calendar \in Seq(1 .. 31)
  BY StatisticsAssumption
<1>2. /\ Len(Calendar) \in Nat /\ Months = 1 .. Len(Calendar)
      /\ \A m \in Months : Calendar[m] \in 1 .. 31
  BY <1>1, TableDomain DEF Months
<1>3. ASSUME NEW m \in Months PROVE m \in Nat /\ Calendar[m] \in 1 .. 31 /\ Calendar[m] \in Nat
  <2>1. m \in Nat
    BY <1>2
  <2>2. Calendar[m] \in 1 .. 31
    BY <1>2
  <2>3. Calendar[m] \in Nat
    BY <2>2
  <2>4. QED
    BY <2>1, <2>2, <2>3
<1>4. QED
  BY <1>2, <1>3

LEMMA SaleTypes ==
    ASSUME NEW s \in Sale
    PROVE  /\ s.month \in Months /\ s.day \in 1 .. Calendar[s.month]
           /\ s.day \in Nat /\ s.day <= Calendar[s.month]
           /\ s.late \in BOOLEAN
           /\ s.total \in Nat /\ s.lines \in Nat
           /\ s.status \in {"DELIVERED", "other"}
<1>1. Totals \subseteq Nat /\ MaxLines \in Nat
  BY StatisticsAssumption
<1>2. /\ s.month \in Months /\ s.day \in 1 .. 31 /\ s.late \in BOOLEAN
      /\ s.total \in Totals /\ s.lines \in 0 .. MaxLines
      /\ s.status \in {"DELIVERED", "other"} /\ s.day <= Calendar[s.month]
  BY DEF Sale
<1>3. Calendar[s.month] \in 1 .. 31
  BY <1>2, MonthTypes
<1>4. s.day \in 1 .. Calendar[s.month]
  BY <1>2, <1>3
<1>5. s.total \in Nat
  BY <1>1, <1>2
<1>6. s.lines \in Nat
  BY <1>1, <1>2
<1>7. QED
  BY <1>2, <1>4, <1>5, <1>6

LEMMA SaleFacts ==
    ASSUME book \in Seq(Sale)
    PROVE  /\ Len(Calendar) \in Nat /\ Months = 1 .. Len(Calendar)
           /\ \A m \in Months : Calendar[m] \in 1 .. 31
           /\ Len(book) \in Nat /\ DOMAIN book = 1 .. Len(book)
           /\ \A i \in DOMAIN book :
                 /\ book[i].month \in Months /\ book[i].day \in 1 .. Calendar[book[i].month]
                 /\ book[i].day \in Nat /\ book[i].day <= Calendar[book[i].month]
                 /\ book[i].late \in BOOLEAN
                 /\ book[i].total \in Nat /\ book[i].lines \in Nat
                 /\ book[i].status \in {"DELIVERED", "other"}
<1>1. /\ Len(Calendar) \in Nat /\ Months = 1 .. Len(Calendar)
      /\ \A m \in Months : Calendar[m] \in 1 .. 31
  BY MonthTypes
<1>2. Len(book) \in Nat /\ DOMAIN book = 1 .. Len(book) /\ \A i \in DOMAIN book : book[i] \in Sale
  OBVIOUS
<1>3. QED
  BY <1>1, <1>2, SaleTypes

LEMMA TimesAtLeast ==
    ASSUME NEW a \in Nat, NEW b \in Nat, b >= 1
    PROVE  a * b \in Nat /\ a <= a * b
<1>1. PICK c \in Nat : b = c + 1
  <2>1. b - 1 \in Nat /\ b = (b - 1) + 1
    OBVIOUS
  <2>2. QED
    BY <2>1
<1>2. a * c \in Nat /\ a * (c + 1) = a * c + a
  OBVIOUS
<1>3. QED
  BY <1>1, <1>2

LEMMA WorthFacts ==
    ASSUME book \in Seq(Sale), NEW i \in DOMAIN book
    PROVE  /\ Worth[i] \in Nat /\ Price[i] \in Nat /\ Price[i] <= Worth[i]
           /\ book[i].lines <= 1 => Worth[i] = Price[i]
<1>1. book[i].total \in Nat /\ book[i].lines \in Nat
  BY SaleFacts
<1>2. PICK t \in Nat : t = book[i].total
  BY <1>1
<1>3. PICK l \in Nat : l = IF book[i].lines = 0 THEN 1 ELSE book[i].lines
  BY <1>1
<1>4. Worth[i] = t * l /\ Price[i] = t
  BY <1>2, <1>3 DEF Worth, Price
<1>5. l >= 1 /\ (book[i].lines <= 1 => l = 1)
  BY <1>1, <1>3
<1>6. t * l \in Nat /\ t <= t * l
  BY <1>5, TimesAtLeast
<1>7. t * 1 = t
  OBVIOUS
<1>8. QED
  BY <1>4, <1>5, <1>6, <1>7

LEMMA JoinedIs ==
    ASSUME book \in Seq(Sale), NEW w, IsSum(w, Worth, Len(book)), NEW set \in SUBSET DOMAIN book
    PROVE  Joined(set) = w[Counted(set)]
<1> DEFINE S == Counted(set)
           worth(i) == book[i].total * (IF book[i].lines = 0 THEN 1 ELSE book[i].lines)
           step(g) == [s \in SUBSET S |->
                          IF s = {} THEN 0
                          ELSE LET x == CHOOSE y \in s : TRUE IN worth(x) + g[s \ {x}]]
           iter == CHOOSE g : g = step(g)
<1>0. S \in SUBSET (1 .. Len(book)) /\ Len(book) \in Nat /\ S \subseteq DOMAIN book
  BY SaleFacts DEF Counted
<1>1. Joined(set) = iter[S]
  BY DEF Joined, MapThenSumSet, MapThenFoldSet, Counted
<1> HIDE DEF S
<1>2. ASSUME NEW s \in SUBSET S, s # {}
      PROVE  /\ (CHOOSE y \in s : TRUE) \in S
             /\ worth(CHOOSE y \in s : TRUE) = Worth[CHOOSE y \in s : TRUE]
  BY <1>0, <1>2 DEF Worth
<1> HIDE DEF worth
<1>3. \E g : g = step(g)
  <2>1. PICK h : h = [s \in SUBSET S |-> h[s]] /\ Solves(h, Worth, S)
    BY <1>0, SumSolves
  <2>2. ASSUME NEW s \in SUBSET S PROVE h[s] = step(h)[s]
    BY <1>2, <2>1 DEF Solves
  <2>3. h = step(h)
    BY <2>1, <2>2
  <2>4. QED
    BY <2>3
<1>4. iter = step(iter)
  BY <1>3
<1> HIDE DEF iter
<1>5. ASSUME NEW s \in SUBSET S
      PROVE  iter[s] = IF s = {} THEN 0
                       ELSE LET x == CHOOSE y \in s : TRUE IN Worth[x] + iter[s \ {x}]
  <2>1. iter[s] = IF s = {} THEN 0
                  ELSE LET x == CHOOSE y \in s : TRUE IN worth(x) + iter[s \ {x}]
    BY <1>4
  <2>2. QED
    BY <1>2, <2>1
<1>6. Solves(iter, Worth, S)
  BY <1>5 DEF Solves
<1>7. iter[S] = w[S]
  BY <1>0, <1>6, SumSolvesAlone
<1>8. QED
  BY <1>1, <1>7 DEF S

LEMMA YearIs ==
    ASSUME book \in Seq(Sale), NEW p, IsSum(p, Price, Len(book))
    PROVE  TotalRevenueByYear = p[Counted(DOMAIN book)]
<1> DEFINE S == Counted(DOMAIN book)
           step(g) == [s \in SUBSET S |->
                          IF s = {} THEN 0
                          ELSE LET x == CHOOSE y \in s : TRUE IN book[x].total + g[s \ {x}]]
           iter == CHOOSE g : g = step(g)
<1>0. S \in SUBSET (1 .. Len(book)) /\ Len(book) \in Nat /\ S \subseteq DOMAIN book
  BY SaleFacts DEF Counted
<1>1. TotalRevenueByYear = iter[S]
  BY DEF TotalRevenueByYear, MapThenSumSet, MapThenFoldSet, Counted
<1> HIDE DEF S
<1>2. ASSUME NEW s \in SUBSET S, s # {}
      PROVE  /\ (CHOOSE y \in s : TRUE) \in S
             /\ book[CHOOSE y \in s : TRUE].total = Price[CHOOSE y \in s : TRUE]
  BY <1>0, <1>2 DEF Price
<1>3. \E g : g = step(g)
  <2>1. PICK h : h = [s \in SUBSET S |-> h[s]] /\ Solves(h, Price, S)
    BY <1>0, SumSolves
  <2>2. ASSUME NEW s \in SUBSET S PROVE h[s] = step(h)[s]
    BY <1>2, <2>1 DEF Solves
  <2>3. h = step(h)
    BY <2>1, <2>2
  <2>4. QED
    BY <2>3
<1>4. iter = step(iter)
  BY <1>3
<1> HIDE DEF iter
<1>5. ASSUME NEW s \in SUBSET S
      PROVE  iter[s] = IF s = {} THEN 0
                       ELSE LET x == CHOOSE y \in s : TRUE IN Price[x] + iter[s \ {x}]
  <2>1. iter[s] = IF s = {} THEN 0
                  ELSE LET x == CHOOSE y \in s : TRUE IN book[x].total + iter[s \ {x}]
    BY <1>4
  <2>2. QED
    BY <1>2, <2>1
<1>6. Solves(iter, Price, S)
  BY <1>5 DEF Solves
<1>7. iter[S] = p[S]
  BY <1>0, <1>6, SumSolvesAlone
<1>8. QED
  BY <1>1, <1>7 DEF S

\* The orders of some days of a month.
OrdersOf(m, from, to) ==
    {i \in DOMAIN book : book[i].month = m /\ from <= book[i].day /\ book[i].day <= to}

LEMMA MonthIs ==
    ASSUME book \in Seq(Sale), NEW from \in Months, NEW to \in Months, NEW m \in from .. to
    PROVE  /\ m \in Months
           /\ MonthlyStatistics(from, to)[m] = Joined(OrdersOf(m, 1, Calendar[m]))
           /\ OrdersOf(m, 1, Calendar[m]) = {i \in DOMAIN book : book[i].month = m}
<1> DEFINE found == Between(First(from), [month |-> to, day |-> Calendar[to], late |-> TRUE])
<1>1. m \in Months /\ m \in Nat /\ from \in Nat /\ to \in Nat /\ from <= m /\ m <= to
  BY MonthTypes
<1>2. ASSUME NEW i \in DOMAIN book, book[i].month = m
      PROVE  1 <= book[i].day /\ book[i].day <= Calendar[m] /\ i \in found
  <2>1. book[i].day \in 1 .. Calendar[m] /\ Calendar[m] \in 1 .. 31
    BY <1>1, <1>2, SaleFacts
  <2>2. NotAfter(First(from), book[i])
    BY <1>1, <1>2, <2>1 DEF NotAfter, First
  <2>3. NotAfter(book[i], [month |-> to, day |-> Calendar[to], late |-> TRUE])
    <3> DEFINE end == [month |-> to, day |-> Calendar[to], late |-> TRUE]
    <3>1. end.month = to /\ end.day = Calendar[to] /\ end.late
      OBVIOUS
    <3> HIDE DEF end
    <3>2. \/ book[i].month < end.month
          \/ book[i].month = end.month /\ (book[i].day < end.day \/ book[i].day = end.day)
      <4>1. CASE m < to
        BY <1>2, <3>1, <4>1
      <4>2. CASE m = to
        <5>1. book[i].day \in Nat /\ Calendar[to] \in Nat /\ book[i].day <= Calendar[to]
          BY <1>2, <4>2, SaleFacts, MonthTypes
        <5>2. QED
          BY <1>2, <3>1, <4>2, <5>1
      <4>3. QED
        BY <1>1, <4>1, <4>2
    <3>3. NotAfter(book[i], end)
      BY <3>1, <3>2 DEF NotAfter
    <3>4. QED
      BY <3>3 DEF end
  <2>4. QED
    BY <2>1, <2>2, <2>3 DEF Between
<1>3. found \subseteq DOMAIN book
  BY DEF Between
<1>4. {i \in found : book[i].month = m} = {i \in DOMAIN book : book[i].month = m}
  BY <1>2, <1>3
<1>5. OrdersOf(m, 1, Calendar[m]) = {i \in DOMAIN book : book[i].month = m}
  BY <1>2 DEF OrdersOf
<1>6. MonthlyStatistics(from, to)[m] = Joined({i \in found : book[i].month = m})
  BY DEF MonthlyStatistics, GetMonthsInRange
<1>7. QED
  BY <1>1, <1>4, <1>5, <1>6

\* The sum over the months of the year, in terms of the sum over orders.
LEMMA MonthsAre ==
    ASSUME book \in Seq(Sale), NEW w, IsSum(w, Worth, Len(book))
    PROVE  MapThenSumSet(LAMBDA m : MonthlyStatistics(1, Len(Calendar))[m], Months)
               = w[Counted(DOMAIN book)]
<1> DEFINE A == Counted(DOMAIN book)
           D == [i \in DOMAIN book |-> book[i].month]
           l == Len(Calendar)
           year == MonthlyStatistics(1, l)
           G == [m \in 1 .. l |-> w[{i \in A : D[i] = m}]]
<1>1. l \in Nat /\ Months = 1 .. l /\ Len(book) \in Nat /\ DOMAIN book = 1 .. Len(book)
      /\ \A i \in DOMAIN book : book[i].month \in Months
  BY SaleFacts
<1>2. A \in SUBSET (1 .. Len(book))
  BY <1>1 DEF Counted
<1>3. \A S \in SUBSET (1 .. Len(book)) : w[S] \in Nat
  BY DEF IsSum
<1>4. \A m \in 1 .. l : G[m] \in Nat
  BY <1>2, <1>3
<1>5. ASSUME NEW m \in 1 .. l PROVE G[m] = year[m]
  <2>1. l \in Months /\ 1 \in Months /\ m \in 1 .. l
    BY <1>1
  <2>2. year[m] = Joined({i \in DOMAIN book : book[i].month = m})
    <3>1. /\ MonthlyStatistics(1, l)[m] = Joined(OrdersOf(m, 1, Calendar[m]))
          /\ OrdersOf(m, 1, Calendar[m]) = {i \in DOMAIN book : book[i].month = m}
      <4> HIDE DEF G, A, D, year, l
      <4>1. QED
        BY <2>1, MonthIs
    <3>2. QED
      BY <3>1
  <2>3. Joined({i \in DOMAIN book : book[i].month = m})
            = w[Counted({i \in DOMAIN book : book[i].month = m})]
    BY JoinedIs
  <2>4. Counted({i \in DOMAIN book : book[i].month = m}) = {i \in A : D[i] = m}
    BY DEF Counted
  <2>5. G[m] = w[{i \in A : D[i] = m}]
    OBVIOUS
  <2> HIDE DEF G, A, D, year
  <2>6. QED
    BY <2>2, <2>3, <2>4, <2>5
<1>6. MapThenSumSet(LAMBDA m : MonthlyStatistics(1, Len(Calendar))[m], Months)
          = SumOver(year, Months)
  BY DEF SumOver
<1>7. Span(A, D, 1, l) = A
  BY <1>1 DEF Counted, Span
<1>8. SumsByDay(G, w, A, D, 1, l)
  BY DEF SumsByDay
<1> HIDE DEF G, A, D, l, year
<1>9. PICK h : IsSum(h, G, l)
  BY <1>1, <1>4, SumExists
<1>10. SumOver(year, 1 .. l) = h[1 .. l]
  BY <1>1, <1>5, <1>9, SumOfFunction
<1>11. h[1 .. l] = w[Span(A, D, 1, l)]
  <2>1. 1 \in 1 .. (l + 1) /\ l \in (1 - 1) .. l
    BY <1>1
  <2>2. QED
    BY <1>1, <1>2, <1>8, <1>9, <2>1, SumOfSums
<1>12. QED
  BY <1>1, <1>6, <1>7, <1>10, <1>11 DEF A

\* The orders that the days of a range count: those of the last one only if
\* they are of midnight.
OrdersFound(m, from, to) ==
    {i \in OrdersOf(m, from, to) : ~(book[i].day = to /\ book[i].late)}

LEMMA DayIs ==
    ASSUME book \in Seq(Sale), NEW m \in Months, NEW from \in 1 .. Calendar[m],
           NEW to \in 1 .. Calendar[m], NEW d \in from .. to
    PROVE  DailyStatistics(m, from, to)[d]
               = Joined({i \in OrdersFound(m, from, to) : book[i].day = d})
<1> DEFINE found == Between([First(m) EXCEPT !.day = from], [First(m) EXCEPT !.day = to])
<1>1. m \in Nat /\ from \in Nat /\ to \in Nat
  BY MonthTypes
<1>2. ASSUME NEW i \in DOMAIN book PROVE i \in found <=> i \in OrdersFound(m, from, to)
  <2>1. book[i].month \in Nat /\ book[i].day \in Nat /\ book[i].late \in BOOLEAN
    <3>1. book[i].month \in Months /\ book[i].day \in 1 .. Calendar[book[i].month]
          /\ book[i].late \in BOOLEAN
      BY SaleFacts
    <3>2. Calendar[book[i].month] \in 1 .. 31 /\ Months \subseteq Nat
      BY <3>1, MonthTypes
    <3>3. book[i].month \in Nat
      BY <3>1, <3>2
    <3>4. book[i].day \in Nat
      BY <3>1, <3>2
    <3>5. QED
      BY <3>1, <3>3, <3>4
  <2>2. NotAfter([First(m) EXCEPT !.day = from], book[i])
            <=> (m < book[i].month \/ (m = book[i].month /\ from <= book[i].day))
    BY <1>1, <2>1 DEF NotAfter, First
  <2>3. NotAfter(book[i], [First(m) EXCEPT !.day = to])
            <=> (book[i].month < m \/ (book[i].month = m /\
                     (book[i].day < to \/ (book[i].day = to /\ ~book[i].late))))
    BY <1>1, <2>1 DEF NotAfter, First
  <2>4. i \in found <=> /\ book[i].month = m /\ from <= book[i].day
                        /\ book[i].day < to \/ (book[i].day = to /\ ~book[i].late)
    BY <1>1, <2>1, <2>2, <2>3 DEF Between
  <2>5. QED
    BY <1>1, <2>1, <2>4 DEF OrdersFound, OrdersOf
<1>3. found = OrdersFound(m, from, to)
  BY <1>2 DEF Between, OrdersFound, OrdersOf
<1>4. DailyStatistics(m, from, to)[d] = Joined({i \in found : book[i].day = d})
  BY DEF DailyStatistics
<1>5. QED
  BY <1>3, <1>4

\* The sum over the days of a range, in terms of the sum over orders.
LEMMA DaysAre ==
    ASSUME book \in Seq(Sale), NEW w, IsSum(w, Worth, Len(book)),
           NEW m \in Months, NEW from \in 1 .. Calendar[m], NEW to \in 1 .. Calendar[m],
           from <= to
    PROVE  MapThenSumSet(LAMBDA d : DailyStatistics(m, from, to)[d], from .. to)
               = w[Counted(OrdersFound(m, from, to))]
<1> DEFINE A == Counted(OrdersFound(m, from, to))
           D == [i \in DOMAIN book |-> book[i].day]
           l == Calendar[m]
           days == DailyStatistics(m, from, to)
           G == [d \in 1 .. l |-> w[{i \in A : D[i] = d}]]
<1>1. l \in Nat /\ Len(book) \in Nat /\ DOMAIN book = 1 .. Len(book)
  <2>2. l \in Nat
    BY MonthTypes
  <2>3. Len(book) \in Nat /\ DOMAIN book = 1 .. Len(book)
    BY SaleFacts
  <2>4. QED
    BY <2>2, <2>3
<1>2. A \in SUBSET (1 .. Len(book))
  BY <1>1 DEF Counted, OrdersFound, OrdersOf
<1>3. \A S \in SUBSET (1 .. Len(book)) : w[S] \in Nat
  BY DEF IsSum
<1>4. \A d \in 1 .. l : G[d] \in Nat
  BY <1>2, <1>3
<1>5. ASSUME NEW d \in from .. to PROVE d \in 1 .. l /\ G[d] = days[d]
  <2>1. d \in 1 .. l
    BY <1>1
  <2>2. days[d] = Joined({i \in OrdersFound(m, from, to) : book[i].day = d})
    BY DayIs
  <2>3. Joined({i \in OrdersFound(m, from, to) : book[i].day = d})
            = w[Counted({i \in OrdersFound(m, from, to) : book[i].day = d})]
    <3>1. PICK S \in SUBSET DOMAIN book : S = {i \in OrdersFound(m, from, to) : book[i].day = d}
      BY DEF OrdersFound, OrdersOf
    <3>2. Joined(S) = w[Counted(S)]
      BY JoinedIs
    <3>3. QED
      BY <3>1, <3>2
  <2>4. Counted({i \in OrdersFound(m, from, to) : book[i].day = d}) = {i \in A : D[i] = d}
    BY DEF Counted, OrdersFound, OrdersOf
  <2>5. G[d] = w[{i \in A : D[i] = d}]
    BY <2>1
  <2> HIDE DEF G, A, D, days, l
  <2>6. QED
    BY <2>1, <2>2, <2>3, <2>4, <2>5
<1>6. MapThenSumSet(LAMBDA d : DailyStatistics(m, from, to)[d], from .. to)
          = SumOver(days, from .. to)
  BY DEF SumOver
<1>7. Span(A, D, from, to) = A
  <2>1. ASSUME NEW i \in A PROVE D[i] \in from .. to
    <3>1. i \in DOMAIN book /\ book[i].month = m /\ from <= book[i].day /\ book[i].day <= to
      BY DEF Counted, OrdersFound, OrdersOf
    <3>2. book[i].day \in 1 .. Calendar[m]
      BY <3>1, SaleFacts
    <3>3. QED
      BY <1>1, <3>1, <3>2
  <2> HIDE DEF A, D
  <2>2. QED
    BY <2>1 DEF Span
<1>8. SumsByDay(G, w, A, D, from, to)
  BY <1>5 DEF SumsByDay
<1>9. from \in 1 .. (l + 1) /\ to \in (from - 1) .. l /\ (from .. to) \in SUBSET (1 .. l)
  BY <1>1
<1> HIDE DEF G, A, D, l, days
<1>10. PICK h : IsSum(h, G, l)
  BY <1>1, <1>4, SumExists
<1>11. SumOver(days, from .. to) = h[from .. to]
  <2>1. PICK S \in SUBSET (1 .. l) : S = from .. to
    BY <1>9
  <2>2. \A d \in S : G[d] = days[d]
    BY <1>5, <2>1
  <2>3. SumOver(days, S) = h[S]
    BY <1>1, <1>10, <2>2, SumOfFunction
  <2>4. QED
    BY <2>1, <2>3
<1>12. h[from .. to] = w[Span(A, D, from, to)]
  BY <1>1, <1>2, <1>8, <1>9, <1>10, SumOfSums
<1>13. QED
  BY <1>6, <1>7, <1>11, <1>12 DEF A

\* Every order has one of the two statuses.
LEMMA StatusesAre ==
    ASSUME book \in Seq(Sale)
    PROVE  Len(book) = OrderStatusByYear["DELIVERED"] + OrderStatusByYear["other"]
<1> DEFINE S == {i \in DOMAIN book : book[i].status = "DELIVERED"}
           T == {i \in DOMAIN book : book[i].status = "other"}
<1>1. S \cup T = 1 .. Len(book) /\ S \cap T = {} /\ Len(book) \in Nat
  BY SaleFacts
<1>2. IsFiniteSet(1 .. Len(book)) /\ Cardinality(1 .. Len(book)) = Len(book)
  <2>1. PICK n \in Nat : n = Len(book)
    BY <1>1
  <2>2. IsFiniteSet(1 .. n) /\ Cardinality(1 .. n) = n
    BY FS_Interval
  <2>3. QED
    BY <2>1, <2>2
<1>3. OrderStatusByYear["DELIVERED"] = Cardinality(S) /\ OrderStatusByYear["other"] = Cardinality(T)
  BY DEF OrderStatusByYear
<1> HIDE DEF S, T
<1>4. IsFiniteSet(S) /\ IsFiniteSet(T)
  <2>1. S \subseteq 1 .. Len(book) /\ T \subseteq 1 .. Len(book)
    BY <1>1
  <2>2. QED
    BY <1>2, <2>1, FS_Subset
<1>5. Cardinality(S \cup T) = Cardinality(S) + Cardinality(T) - Cardinality(S \cap T)
  BY <1>4, FS_Union
<1>6. Cardinality(S \cap T) = 0 /\ Cardinality(S) \in Nat /\ Cardinality(T) \in Nat
  BY <1>1, <1>4, FS_EmptySet, FS_CardinalityType
<1>7. Cardinality(S \cup T) = Len(book)
  BY <1>1, <1>2
<1>8. Len(book) = Cardinality(S) + Cardinality(T)
  BY <1>5, <1>6, <1>7
<1>9. QED
  BY <1>3, <1>8

LEMMA RevenueOf == book \in Seq(Sale) => RevenueAddsUp
<1>1. SUFFICES ASSUME book \in Seq(Sale) PROVE RevenueAddsUp
  OBVIOUS
<1> DEFINE months == MapThenSumSet(LAMBDA m : MonthlyStatistics(1, Len(Calendar))[m], Months)
           A == Counted(DOMAIN book)
<1>2. Len(book) \in Nat /\ DOMAIN book = 1 .. Len(book)
  BY <1>1, SaleFacts
<1>3. PICK w : IsSum(w, Worth, Len(book))
  BY <1>1, <1>2, WorthFacts, SumExists
<1>4. PICK p : IsSum(p, Price, Len(book))
  BY <1>1, <1>2, WorthFacts, SumExists
<1>5. A \in SUBSET (1 .. Len(book))
  BY <1>2 DEF Counted
<1>6. \A S \in SUBSET (1 .. Len(book)) : w[S] \in Nat /\ p[S] \in Nat
  BY <1>3, <1>4 DEF IsSum
<1>7. months = w[A] /\ TotalRevenueByYear = p[A]
  BY <1>1, <1>3, <1>4, MonthsAre, YearIs
<1> HIDE DEF months, A
<1>8. months >= TotalRevenueByYear
  <2>1. \A i \in A : Price[i] <= Worth[i]
    BY <1>1, <1>2, <1>5, WorthFacts
  <2>2. p[A] <= w[A]
    BY <1>2, <1>3, <1>4, <1>5, <2>1, SumMonotone
  <2>3. QED
    BY <1>5, <1>6, <1>7, <2>2
<1>9. ASSUME \A i \in DOMAIN book : book[i].lines <= 1 PROVE months = TotalRevenueByYear
  <2>1. \A i \in A : Worth[i] = Price[i]
    BY <1>1, <1>2, <1>5, <1>9, WorthFacts
  <2>2. w[A] = p[A]
    BY <1>2, <1>3, <1>4, <1>5, <2>1, SumSame
  <2>3. QED
    BY <1>7, <2>2
<1>10. ASSUME NEW from \in Months, NEW to \in Months, NEW m \in from .. to
       PROVE  MonthlyStatistics(from, to)[m] = Joined(OrdersOf(m, 1, Calendar[m]))
  BY <1>1, MonthIs
<1>11. ASSUME NEW m \in Months, NEW from \in 1 .. Calendar[m], NEW to \in 1 .. Calendar[m],
              from <= to
       PROVE  MapThenSumSet(LAMBDA d : DailyStatistics(m, from, to)[d], from .. to)
                  + Joined({i \in OrdersOf(m, to, to) : book[i].late})
              = Joined(OrdersOf(m, from, to))
  <2> DEFINE sum == MapThenSumSet(LAMBDA d : DailyStatistics(m, from, to)[d], from .. to)
             rest == {i \in OrdersOf(m, to, to) : book[i].late}
             early == OrdersFound(m, from, to)
             all == OrdersOf(m, from, to)
  <2>1. sum = w[Counted(early)]
    BY <1>1, <1>3, <1>11, DaysAre
  <2>2. rest \in SUBSET DOMAIN book /\ all \in SUBSET DOMAIN book /\ early \in SUBSET DOMAIN book
    BY DEF OrdersOf, OrdersFound
  <2>3. /\ Counted(all) = Counted(early) \cup Counted(rest)
        /\ Counted(early) \cap Counted(rest) = {}
    <3>1. ASSUME NEW i \in DOMAIN book
          PROVE  /\ i \in all <=> i \in early \/ i \in rest
                 /\ ~(i \in early /\ i \in rest)
      <4>1. book[i].day \in 1 .. Calendar[book[i].month] /\ book[i].month \in Months
        BY <1>1, SaleFacts
      <4>2. Calendar[book[i].month] \in 1 .. 31 /\ Calendar[m] \in 1 .. 31
        BY <4>1, MonthTypes
      <4>3. book[i].day \in Nat
        BY <4>1, <4>2
      <4>4. from \in Nat /\ to \in Nat
        BY <4>2
      <4>5. QED
        BY <1>11, <4>3, <4>4 DEF OrdersOf, OrdersFound
    <3> HIDE DEF all, early, rest
    <3>2. QED
      BY <2>2, <3>1 DEF Counted
  <2> HIDE DEF sum, all, early, rest
  <2>4. Joined(all) = w[Counted(all)] /\ Joined(rest) = w[Counted(rest)]
    BY <1>1, <1>3, <2>2, JoinedIs
  <2>5. Counted(early) \in SUBSET (1 .. Len(book)) /\ Counted(rest) \in SUBSET (1 .. Len(book))
    BY <1>2, <2>2 DEF Counted
  <2>6. w[Counted(early) \cup Counted(rest)] = w[Counted(early)] + w[Counted(rest)]
    <3>1. PICK P \in SUBSET (1 .. Len(book)) : P = Counted(early)
      BY <2>5
    <3>2. PICK R \in SUBSET (1 .. Len(book)) : R = Counted(rest)
      BY <2>5
    <3>3. P \cap R = {}
      BY <2>3, <3>1, <3>2
    <3>4. w[P \cup R] = w[P] + w[R]
      BY <1>2, <1>3, <3>3, SumUnion
    <3>5. QED
      BY <3>1, <3>2, <3>4
  <2>7. sum + Joined(rest) = Joined(all)
    BY <2>1, <2>3, <2>4, <2>6
  <2>8. QED
    BY <2>7 DEF sum, all, rest
<1>12. Len(book) = OrderStatusByYear["DELIVERED"] + OrderStatusByYear["other"]
  BY <1>1, StatusesAre
<1>13. QED
  BY <1>8, <1>9, <1>10, <1>11, <1>12
     DEF RevenueAddsUp, months, OrdersOf, ValidMonthRange, ValidDayRange

\* The revenue of any months is that of their orders; the months of the year
\* add up to the year if no order has several details, and to no less
\* otherwise; the days of a range add up to its orders, those of its last day
\* after midnight left out; and every order has a status
\* (getRevenueProfitStatics and the queries it makes).
THEOREM RevenueAddsUpHolds == Spec => []RevenueAddsUp
<1>1. Kept => RevenueAddsUp
  BY RevenueOf DEF Kept
<1>2. QED
  BY <1>1, KeptAlways, PTL

===============================================================================
