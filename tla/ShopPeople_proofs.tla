--------------------------- MODULE ShopPeople_proofs ---------------------------
(***************************************************************************)
(* Customers of the shop front: their addresses, accounts, carts and       *)
(* vouchers.                                                               *)
(*                                                                         *)
(* Each theorem about a property follows from the inductive invariant that *)
(* its module states (AddressesInv, AccountsInv, CartInv and AskedInv,     *)
(* VoucherInv).  The proofs that a step keeps such an invariant go by the  *)
(* kinds of steps: a request starts (one lemma says what it may start      *)
(* with), a request ends (one lemma says what becomes of the others), and  *)
(* what the rows of each kind of end are.  Frame lemmas say what a step    *)
(* leaves as it was: the requests about other addresses or customers, the  *)
(* codes that it neither brings nor spends, the carts of others.           *)
(***************************************************************************)
EXTENDS Shop_proofs

---------------------------------------------------------------------------
(* Addresses: rows and requests *)

LEMMA AddressesStep ==
    ASSUME [Next]_shopVars
    PROVE  \/ ANext /\ UNCHANGED inUse
           \/ UNCHANGED <<inUse, addressVars>>
BY DEF Next, shopVars

LEMMA IdleAJobType == IdleAJob \in AJob
BY DEF IdleAJob, AJob

\* The rows and the requests that the invariant speaks of, one by one.
LEMMA AddressesFacts ==
    ASSUME AddressesInv
    PROVE  /\ Len(address) \in Nat /\ DOMAIN address = 1 .. Len(address)
           /\ DOMAIN address \subseteq Rows
           /\ \A a \in DOMAIN address :
                 /\ address[a] \in Address
                 /\ address[a].owner \in Customers /\ address[a].default \in BOOLEAN
           /\ Lasting \subseteq DOMAIN address
           /\ \A k \in Clerks : ajob[k] \in AJob /\ ajob[k].address \subseteq DOMAIN address
<1>1. Len(address) \in Nat /\ DOMAIN address = 1 .. Len(address)
  BY TableDomain DEF AddressesInv, AddressesTypeOK
<1>2. \A a \in DOMAIN address : address[a] \in Address
  BY TableDomain DEF AddressesInv, AddressesTypeOK
<1>3. DOMAIN address \subseteq Rows
  BY <1>1, PartiesAssumption DEF AddressesInv, AddressesTypeOK, Rows
<1>4. ASSUME NEW k \in Clerks
      PROVE  ajob[k] \in AJob /\ ajob[k].address \subseteq DOMAIN address
  <2>1. ajob[k] \in AJob /\ AJobOK(k)
    BY DEF AddressesInv, AddressesTypeOK
  <2>2. ajob[k].op \in {"none", "create", "update", "default"}
    BY <2>1 DEF AJob
  <2>3. QED
    BY <2>1, <2>2 DEF AJobOK
<1>5. Lasting \subseteq DOMAIN address
  BY <1>4 DEF Lasting, AddressesInv, AddressesTypeOK
<1>6. QED
  BY <1>1, <1>2, <1>3, <1>4, <1>5 DEF Address

LEMMA LastingFinite ==
    ASSUME AddressesInv
    PROVE  IsFiniteSet(DOMAIN address) /\ IsFiniteSet(Lasting)
<1>0. Len(address) \in Nat
  BY AddressesFacts
<1>1. IsFiniteSet(1 .. Len(address))
  BY <1>0, FS_Interval
<1>2. QED
  BY <1>1, AddressesFacts, FS_Subset

\* As many rows wait for updates as there are updates, at the most.
LEMMA AwaitedRows ==
    ASSUME AddressesInv,
           NEW U \in SUBSET {i \in Clerks : ajob[i].op = "update"}
    PROVE  LET R == UNION {ajob[i].address : i \in U} IN
           /\ IsFiniteSet(R) /\ Cardinality(R) \in Nat
           /\ IsFiniteSet(U) /\ Cardinality(U) \in Nat
           /\ Cardinality(R) <= Cardinality(U)
<1> DEFINE R == UNION {ajob[i].address : i \in U}
           F == [i \in U |-> CHOOSE a \in DOMAIN address : ajob[i].address = {a}]
<1>1. ASSUME NEW i \in U
      PROVE  F[i] \in DOMAIN address /\ ajob[i].address = {F[i]}
  <2>1. i \in Clerks /\ AJobOK(i) /\ ajob[i].op = "update"
    BY DEF AddressesInv
  <2>2. \E a \in DOMAIN address : ajob[i].address = {a}
    BY <2>1 DEF AJobOK
  <2>3. QED
    BY <2>2
<1>2. F \in [U -> R]
  BY <1>1
<1>3. \A a \in R : \E i \in U : F[i] = a
  BY <1>1
<1>4. F \in Surjection(U, R)
  BY <1>2, <1>3 DEF Surjection
<1>5. IsFiniteSet(U)
  BY PartiesAssumption, FS_Subset
<1>6. IsFiniteSet(R) /\ Cardinality(R) <= Cardinality(U)
  BY <1>4, <1>5, FS_Surjection
<1>7. QED
  BY <1>5, <1>6, FS_CardinalityType

\* One more may be about to insert an address if there is room for it now.
LEMMA RoomForOne ==
    ASSUME AddressesInv, NEW c \in Customers, NEW k \in Clerks,
           ajob[k].op = "none", Room(c)
    PROVE  Cardinality(LastingOf(c) \ given) + Cardinality(CreatorsOf(c) \cup {k})
               <= MostAddresses + Cardinality(Clerks) - 1
<1> DEFINE U == {i \in Clerks : ajob[i].op = "update"}
           R == UNION {ajob[i].address : i \in U}
           C == CreatorsOf(c) \cup {k}
           L == LastingOf(c) \ given
<1>1. U \cap C = {} /\ U \in SUBSET Clerks /\ C \in SUBSET Clerks
  BY DEF CreatorsOf
<1>2. /\ Cardinality(U) \in Nat /\ Cardinality(C) \in Nat /\ Cardinality(Clerks) \in Nat
      /\ Cardinality(U) + Cardinality(C) <= Cardinality(Clerks)
  BY <1>1, ClerksSum
<1>3. /\ IsFiniteSet(R) /\ Cardinality(R) \in Nat
      /\ Cardinality(R) <= Cardinality(U)
  BY AwaitedRows
<1>4. IsFiniteSet(AddressesOf(c))
  BY LastingFinite, FS_Subset DEF AddressesOf, Lasting
<1>5. L \subseteq AddressesOf(c) \cup R
  BY DEF LastingOf, Lasting, AddressesOf
<1>6. /\ IsFiniteSet(AddressesOf(c) \cup R) /\ Cardinality(AddressesOf(c)) \in Nat
      /\ Cardinality(AddressesOf(c) \cup R) \in Nat
      /\ Cardinality(AddressesOf(c) \cup R) <= Cardinality(AddressesOf(c)) + Cardinality(R)
  BY <1>3, <1>4, SumBound
<1>7. Cardinality(L) \in Nat /\ Cardinality(L) <= Cardinality(AddressesOf(c) \cup R)
  BY <1>5, <1>6, SubsetBound
<1>8. Cardinality(AddressesOf(c)) < 3
  BY DEF Room, MostAddresses
<1>9. QED
  BY <1>2, <1>3, <1>6, <1>7, <1>8 DEF MostAddresses

---------------------------------------------------------------------------
(* Addresses: the steps *)

\* No more rows and no more requests that create.
LEMMA FewLastingFrame ==
    ASSUME AddressesInv, NEW c \in Customers,
           LastingOf(c)' \ given' \subseteq LastingOf(c) \ given,
           CreatorsOf(c)' \subseteq CreatorsOf(c)
    PROVE  FewLasting(c)'
<1>1. IsFiniteSet(LastingOf(c) \ given) /\ IsFiniteSet(CreatorsOf(c))
  BY LastingFinite, PartiesAssumption, FS_Subset DEF LastingOf, CreatorsOf
<1>2. /\ Cardinality(LastingOf(c)' \ given') \in Nat
      /\ Cardinality(LastingOf(c) \ given) \in Nat
      /\ Cardinality(LastingOf(c)' \ given') <= Cardinality(LastingOf(c) \ given)
  BY <1>1, SubsetBound
<1>3. /\ Cardinality(CreatorsOf(c)') \in Nat /\ Cardinality(CreatorsOf(c)) \in Nat
      /\ Cardinality(CreatorsOf(c)') <= Cardinality(CreatorsOf(c))
  BY <1>1, SubsetBound
<1>4. FewLasting(c) /\ Cardinality(Clerks) \in Nat
  BY PartiesAssumption, FS_CardinalityType DEF AddressesInv
<1>5. QED
  BY <1>2, <1>3, <1>4 DEF FewLasting, MostAddresses

\* What a request may start with.
AMayStart(j) ==
    /\ j.op \in {"create", "update", "default"}
    /\ \E c \in Customers : j.customer = {c} /\ (j.op = "create" => Room(c))
    /\ j.op = "create" => j.address = {}
    /\ j.op # "create" =>
          \E a \in kept : /\ j.address = {a} /\ address[a].owner \in j.about
                          /\ j.op = "update" => j.default = address[a].default
    /\ j.customer \subseteq j.about
    /\ j.op = "default" => j.about = j.customer

LEMMA AStartKeeps ==
    ASSUME AddressesInv, NEW k \in Clerks, NEW j \in AJob, AStart(k, j), AMayStart(j)
    PROVE  AddressesInv'
<1>1. UNCHANGED <<address, kept, given, mixed>>
  BY DEF AStart, ADatabase
<1>2. \A i \in Clerks : ajob[i] \in AJob /\ AJobOK(i) /\ ALoneOK(i)
  BY DEF AddressesInv, AddressesTypeOK
<1>3. ajob[k].phase = "idle" /\ ajob[k].op = "none" /\ ajob[k].address = {}
  <2>1. ajob[k].phase = "idle"
    BY DEF AStart, ABusy
  <2>2. QED
    BY <1>2, <2>1 DEF AJobOK
<1>4. /\ ajob'[k] \in AJob /\ ajob'[k].phase = "loaded"
      /\ ajob'[k].op = j.op /\ ajob'[k].customer = j.customer /\ ajob'[k].about = j.about
      /\ ajob'[k].address = j.address /\ ajob'[k].default = j.default
      /\ ajob'[k].alone => \A i \in ABusy : ajob[i].about \cap j.about = {}
  BY DEF AStart, AJob
<1>5. ASSUME NEW i \in Clerks, i # k
      PROVE  /\ ajob'[i] \in AJob /\ ajob'[i].phase = ajob[i].phase
             /\ ajob'[i].op = ajob[i].op /\ ajob'[i].customer = ajob[i].customer
             /\ ajob'[i].about = ajob[i].about /\ ajob'[i].address = ajob[i].address
             /\ ajob'[i].default = ajob[i].default /\ ajob'[i].seen = ajob[i].seen
             /\ ajob'[i].alone => ajob[i].alone /\ ajob[i].about \cap j.about = {}
  <2>1. CASE i \in ABusy /\ ajob[i].about \cap j.about # {}
    BY <1>2, <1>5, <2>1 DEF AStart, AJob
  <2>2. CASE i \in ABusy /\ ajob[i].about \cap j.about = {}
    BY <1>2, <1>5, <2>2 DEF AStart
  <2>3. CASE i \notin ABusy
    <3>1. ajob[i].phase = "idle"
      BY <2>3 DEF ABusy
    <3>2. ajob[i].about = {}
      BY <1>2, <3>1 DEF AJobOK
    <3>3. ajob'[i] = ajob[i]
      BY <1>5, <2>3 DEF AStart
    <3>4. QED
      BY <1>2, <3>2, <3>3
  <2>4. QED
    BY <2>1, <2>2, <2>3
<1>6. \A i \in Clerks : i # k => i \in ABusy \/ ajob[i].about = {}
  <2>1. \A i \in Clerks : ajob[i].phase = "idle" => ajob[i].about = {}
    BY <1>2 DEF AJobOK
  <2>2. QED
    BY <2>1 DEF ABusy
<1>7. kept \subseteq DOMAIN address
  BY DEF AddressesInv, AddressesTypeOK
<1>8. AddressesTypeOK'
  <2>1. DOMAIN ajob' = Clerks
    BY DEF AStart
  <2>2. ajob' \in [Clerks -> AJob]
    <3>1. ajob' = [i \in Clerks |-> ajob'[i]]
      BY DEF AStart
    <3>2. QED
      BY <3>1, <1>4, <1>5
  <2>3. QED
    BY <1>1, <2>2 DEF AddressesInv, AddressesTypeOK
<1>9. ASSUME NEW i \in Clerks
      PROVE  AJobOK(i)'
  <2>1. CASE i = k
    BY <2>1, <1>1, <1>4, <1>7 DEF AJobOK, AMayStart
  <2>2. CASE i # k
    BY <2>2, <1>1, <1>2, <1>5 DEF AJobOK
  <2>3. QED
    BY <2>1, <2>2
<1>10. ASSUME NEW i \in Clerks
       PROVE  ALoneOK(i)'
  <2>1. CASE i = k
    <3>1. SUFFICES ASSUME ajob'[k].alone PROVE \A m \in Clerks \ {k} : ajob'[m].about \cap j.about = {}
      BY <2>1, <1>4 DEF ALoneOK, AMayStart
    <3>2. QED
      BY <3>1, <1>4, <1>5, <1>6
  <2>2. CASE i # k
    <3>1. SUFFICES ASSUME ajob'[i].alone PROVE ALoneOK(i)'
      BY DEF ALoneOK
    <3>2. \A m \in Clerks \ {i} : ajob'[m].about \cap ajob'[i].about = {}
      BY <2>2, <3>1, <1>2, <1>4, <1>5 DEF ALoneOK
    <3>4. \A c : DefaultsOf(c)' = DefaultsOf(c)
      BY <1>1 DEF DefaultsOf, AddressesOf
    <3>5. QED
      BY <2>2, <3>1, <3>2, <3>4, <1>1, <1>2, <1>5 DEF ALoneOK
  <2>3. QED
    BY <2>1, <2>2
<1>11. Lasting' = Lasting
  <2>1. ASSUME NEW a \in Lasting' PROVE a \in Lasting
    <3>1. CASE a \in kept
      BY <3>1 DEF Lasting
    <3>2. CASE a \notin kept
      <4>1. PICK i \in Clerks : ajob'[i].op = "update" /\ a \in ajob'[i].address
        BY <1>1, <3>2 DEF Lasting
      <4>2. i # k
        BY <4>1, <3>2, <1>4 DEF AMayStart
      <4>3. QED
        BY <4>1, <4>2, <1>5 DEF Lasting
    <3>3. QED
      BY <3>1, <3>2
  <2>2. ASSUME NEW a \in Lasting PROVE a \in Lasting'
    <3>1. CASE a \in kept
      BY <3>1, <1>1 DEF Lasting
    <3>2. CASE a \notin kept
      <4>1. PICK i \in Clerks : ajob[i].op = "update" /\ a \in ajob[i].address
        BY <3>2 DEF Lasting
      <4>2. i # k
        BY <4>1, <1>3
      <4>3. QED
        BY <4>1, <4>2, <1>5 DEF Lasting
    <3>3. QED
      BY <3>1, <3>2
  <2>3. QED
    BY <2>1, <2>2
<1>12. ASSUME NEW c \in Customers
       PROVE  FewLasting(c)'
  <2>1. LastingOf(c)' \ given' = LastingOf(c) \ given
    BY <1>1, <1>11 DEF LastingOf
  <2>2. CASE j.op = "create" /\ c \in j.customer
    <3>1. CreatorsOf(c)' = CreatorsOf(c) \cup {k}
      BY <2>2, <1>4, <1>5 DEF CreatorsOf
    <3>2. Room(c)
      BY <2>2 DEF AMayStart
    <3>3. QED
      BY <1>3, <2>1, <3>1, <3>2, RoomForOne DEF FewLasting
  <2>3. CASE ~(j.op = "create" /\ c \in j.customer)
    <3>1. CreatorsOf(c)' \subseteq CreatorsOf(c)
      BY <2>3, <1>4, <1>5 DEF CreatorsOf
    <3>2. QED
      BY <2>1, <3>1, FewLastingFrame
  <2>4. QED
    BY <2>2, <2>3
<1>13. ASSUME NEW a \in Lasting, Bright(a)'
       PROVE  Bright(a)
  <2>1. CASE address'[a].default
    BY <2>1, <1>1 DEF Bright
  <2>2. CASE ~address'[a].default
    <3>1. PICK i \in Clerks : /\ ajob'[i].op = "update" /\ ajob'[i].alone
                              /\ a \in ajob'[i].address /\ ajob'[i].default
      BY <1>13, <2>2 DEF Bright
    <3>2. CASE i = k
      BY <3>1, <3>2, <1>4, <2>2, <1>1 DEF AMayStart
    <3>3. CASE i # k
      BY <3>1, <3>3, <1>5 DEF Bright
    <3>4. QED
      BY <3>2, <3>3
  <2>3. QED
    BY <2>1, <2>2
<1>14. ASSUME NEW c \in Customers \ mixed
       PROVE  OneBright(c)'
  <2>1. LastingOf(c)' = LastingOf(c) /\ LastingOf(c) \subseteq Lasting
    BY <1>1, <1>11 DEF LastingOf
  <2>2. OneBright(c)
    BY DEF AddressesInv
  <2>3. QED
    BY <2>1, <2>2, <1>13 DEF OneBright
<1>15. QED
  BY <1>1, <1>8, <1>9, <1>10, <1>12, <1>14 DEF AddressesInv

LEMMA CreateAddressLoadKeeps ==
    ASSUME AddressesInv, NEW k \in Clerks, NEW c \in Customers, CreateAddressLoad(k, c)
    PROVE  AddressesInv'
<1> DEFINE j == [IdleAJob EXCEPT !.op = "create", !.customer = {c}, !.about = {c}]
<1>1. j \in AJob /\ AMayStart(j)
  BY DEF CreateAddressLoad, AMayStart, IdleAJob, AJob
<1>2. AStart(k, j)
  BY DEF CreateAddressLoad
<1> HIDE DEF j
<1>3. QED
  BY <1>1, <1>2, AStartKeeps

LEMMA UpdateAddressLoadKeeps ==
    ASSUME AddressesInv, NEW k \in Clerks, NEW a \in kept, NEW d \in Customers,
           UpdateAddressLoad(k, a, d)
    PROVE  AddressesInv'
<1> DEFINE j == [IdleAJob EXCEPT !.op = "update", !.customer = {d}, !.address = {a},
                     !.about = {address[a].owner, d}, !.default = address[a].default]
<1>1. a \in Rows /\ address[a].owner \in Customers /\ address[a].default \in BOOLEAN
  BY AddressesFacts DEF AddressesInv, AddressesTypeOK
<1>2. j \in AJob /\ AMayStart(j)
  BY <1>1 DEF AMayStart, IdleAJob, AJob
<1>3. AStart(k, j)
  BY DEF UpdateAddressLoad
<1> HIDE DEF j
<1>4. QED
  BY <1>2, <1>3, AStartKeeps

LEMMA DefaultLoadKeeps ==
    ASSUME AddressesInv, NEW k \in Clerks, NEW a \in kept, DefaultLoad(k, a)
    PROVE  AddressesInv'
<1> DEFINE j == [IdleAJob EXCEPT !.op = "default", !.address = {a},
                     !.customer = {address[a].owner}, !.about = {address[a].owner}]
<1>1. a \in Rows /\ address[a].owner \in Customers
  BY AddressesFacts DEF AddressesInv, AddressesTypeOK
<1>2. j \in AJob /\ AMayStart(j)
  BY <1>1 DEF AMayStart, IdleAJob, AJob
<1>3. AStart(k, j)
  BY DEF DefaultLoad
<1> HIDE DEF j
<1>4. QED
  BY <1>2, <1>3, AStartKeeps

\* A request ends: the others are as they were.
LEMMA ADoneFacts ==
    ASSUME AddressesInv, NEW k \in Clerks, ADone(k)
    PROVE  /\ ajob' \in [Clerks -> AJob]
           /\ ajob'[k] = IdleAJob
           /\ \A i \in Clerks \ {k} : ajob'[i] = ajob[i]
           /\ \A i \in Clerks : ajob'[i].op # "none" => i # k /\ ajob'[i] = ajob[i]
<1>1. ajob \in [Clerks -> AJob]
  BY DEF AddressesInv, AddressesTypeOK
<1>2. ajob'[k] = IdleAJob /\ \A i \in Clerks \ {k} : ajob'[i] = ajob[i]
  BY <1>1 DEF ADone
<1>3. QED
  BY <1>1, <1>2, IdleAJobType DEF ADone, IdleAJob

LEMMA AIdleOK ==
    ASSUME NEW k \in Clerks, ajob'[k] = IdleAJob
    PROVE  AJobOK(k)' /\ ALoneOK(k)'
BY DEF AJobOK, ALoneOK, IdleAJob

\* The rows stay, or some go, or none are defaults that were not; a request ends.
LEMMA AEndKeeps ==
    ASSUME AddressesInv, NEW k \in Clerks, ADone(k), UNCHANGED ADatabase
    PROVE  AddressesInv'
<1>1. UNCHANGED <<address, kept, given, mixed>>
  BY DEF ADatabase
<1>2. \A i \in Clerks : AJobOK(i) /\ ALoneOK(i)
  BY DEF AddressesInv
<1>3. Lasting' \subseteq Lasting
  BY <1>1, ADoneFacts DEF Lasting
<1>4. AddressesTypeOK'
  BY <1>1, ADoneFacts DEF AddressesInv, AddressesTypeOK
<1>5. ASSUME NEW i \in Clerks
      PROVE  AJobOK(i)' /\ ALoneOK(i)'
  <2>1. CASE i = k
    BY <2>1, ADoneFacts, AIdleOK
  <2>2. CASE i # k
    <3>1. ajob'[i] = ajob[i]
      BY <2>2, ADoneFacts
    <3>2. AJobOK(i)'
      BY <3>1, <1>1, <1>2 DEF AJobOK
    <3>3. \A m \in Clerks : ajob'[m] = ajob[m] \/ ajob'[m].about = {}
      BY ADoneFacts DEF IdleAJob
    <3>4. \A c : DefaultsOf(c)' = DefaultsOf(c)
      BY <1>1 DEF DefaultsOf, AddressesOf
    <3>5. ALoneOK(i)'
      BY <3>1, <3>3, <3>4, <1>1, <1>2 DEF ALoneOK
    <3>6. QED
      BY <3>2, <3>5
  <2>3. QED
    BY <2>1, <2>2
<1>6. ASSUME NEW c \in Customers
      PROVE  FewLasting(c)'
  <2>1. LastingOf(c)' \ given' \subseteq LastingOf(c) \ given
    BY <1>1, <1>3 DEF LastingOf
  <2>2. CreatorsOf(c)' \subseteq CreatorsOf(c)
    BY ADoneFacts DEF CreatorsOf
  <2>3. QED
    BY <2>1, <2>2, FewLastingFrame
<1>7. \A a \in Lasting : Bright(a)' => Bright(a)
  BY <1>1, ADoneFacts DEF Bright
<1>8. ASSUME NEW c \in Customers \ mixed
      PROVE  OneBright(c)'
  BY <1>1, <1>3, <1>7 DEF OneBright, LastingOf, AddressesInv
<1>9. QED
  BY <1>1, <1>4, <1>5, <1>6, <1>8 DEF AddressesInv

LEMMA AAbortKeeps ==
    ASSUME AddressesInv, NEW k \in Clerks, AAbort(k)
    PROVE  AddressesInv'
BY AEndKeeps DEF AAbort

LEMMA RemoveAddressKeeps ==
    ASSUME AddressesInv, NEW a \in kept, RemoveAddress(a)
    PROVE  AddressesInv'
<1>1. UNCHANGED <<address, ajob, given, mixed>> /\ kept' \subseteq kept
  BY DEF RemoveAddress
<1>2. Lasting' \subseteq Lasting
  BY <1>1 DEF Lasting
<1>3. AddressesTypeOK'
  BY <1>1 DEF AddressesInv, AddressesTypeOK
<1>4. ASSUME NEW i \in Clerks
      PROVE  AJobOK(i)' /\ ALoneOK(i)'
  <2>1. AJobOK(i) /\ ALoneOK(i)
    BY DEF AddressesInv
  <2>2. \A c : DefaultsOf(c)' \subseteq DefaultsOf(c)
    BY <1>1 DEF DefaultsOf, AddressesOf
  <2>3. AJobOK(i)'
    BY <1>1, <2>1 DEF AJobOK
  <2>4. ALoneOK(i)'
    BY <1>1, <2>1, <2>2 DEF ALoneOK
  <2>5. QED
    BY <2>3, <2>4
<1>5. ASSUME NEW c \in Customers
      PROVE  FewLasting(c)'
  <2>1. LastingOf(c)' \ given' \subseteq LastingOf(c) \ given
    BY <1>1, <1>2 DEF LastingOf
  <2>2. CreatorsOf(c)' \subseteq CreatorsOf(c)
    BY <1>1 DEF CreatorsOf
  <2>3. QED
    BY <2>1, <2>2, FewLastingFrame
<1>6. \A b \in Lasting : Bright(b)' => Bright(b)
  BY <1>1 DEF Bright
<1>7. ASSUME NEW c \in Customers \ mixed
      PROVE  OneBright(c)'
  BY <1>1, <1>2, <1>6 DEF OneBright, LastingOf, AddressesInv
<1>8. QED
  BY <1>1, <1>3, <1>4, <1>5, <1>7 DEF AddressesInv

LEMMA CreateAddressSaveKeeps ==
    ASSUME AddressesInv, inUse \in Mixes, NEW k \in Clerks, CreateAddressSave(k)
    PROVE  AddressesInv'
<1> DEFINE n == Len(address) + 1
<1>1. ADone(k) /\ UNCHANGED <<given, mixed>> /\ kept' = kept \cup {n}
  BY DEF CreateAddressSave
<1>2. \A i \in Clerks : AJobOK(i) /\ ALoneOK(i)
  BY DEF AddressesInv
<1>3. ajob[k].op = "create" /\ ajob[k].address = {}
  BY <1>2 DEF CreateAddressSave, AJobOK
<1>4. PICK c \in Customers : ajob[k].customer = {c}
  BY <1>2, <1>3 DEF AJobOK
<1> DEFINE row == [owner |-> c, default |-> FALSE]
<1>5. address' = Append(address, row)
  BY <1>4 DEF CreateAddressSave
<1>6. row \in Address
  BY DEF Address
<1>7. /\ address' \in Seq(Address) /\ Len(address') = n /\ DOMAIN address' = 1 .. n
      /\ \A a \in DOMAIN address : address'[a] = address[a]
      /\ address'[n] = row
  <2>1. address \in Seq(Address)
    BY DEF AddressesInv, AddressesTypeOK
  <2>2. QED
    BY <1>5, <1>6, <2>1, AppendRow, AddressesFacts
<1> HIDE DEF row
<1>8. row.owner = c /\ row.default = FALSE
  BY DEF row
<1>9. DOMAIN address \subseteq DOMAIN address' /\ n \in DOMAIN address' /\ n \notin DOMAIN address
  BY <1>7, AddressesFacts
<1> HIDE DEF n
<1>10. kept \subseteq DOMAIN address /\ Lasting \subseteq DOMAIN address
  BY AddressesFacts DEF AddressesInv, AddressesTypeOK
<1>11. Len(address') <= MaxRows
  <2>1. Len(address) < inUse.rows /\ inUse.rows \in 0 .. MaxRows /\ MaxRows \in Nat
    BY PartiesAssumption DEF CreateAddressSave, HasRoom
  <2>2. QED
    BY <2>1, <1>7, AddressesFacts DEF n
<1>12. Lasting' \subseteq Lasting \cup {n}
  BY <1>1, ADoneFacts DEF Lasting
<1>13. AddressesTypeOK'
  BY <1>1, <1>7, <1>9, <1>10, <1>11, ADoneFacts DEF AddressesTypeOK
<1>14. ASSUME NEW i \in Clerks
       PROVE  AJobOK(i)' /\ ALoneOK(i)'
  <2>1. CASE i = k
    BY <2>1, <1>1, ADoneFacts, AIdleOK
  <2>2. CASE i # k
    <3>1. ajob'[i] = ajob[i]
      BY <2>2, <1>1, ADoneFacts
    <3>2. ajob[i].address \subseteq DOMAIN address
      BY AddressesFacts
    <3>3. AJobOK(i)'
      BY <3>1, <3>2, <1>7, <1>9, <1>2 DEF AJobOK
    <3>4. \A m \in Clerks : ajob'[m] = ajob[m] \/ ajob'[m].about = {}
      BY <1>1, ADoneFacts DEF IdleAJob
    <3>5. \A d : DefaultsOf(d)' \subseteq DefaultsOf(d)
      BY <1>1, <1>7, <1>8, <1>10 DEF DefaultsOf, AddressesOf
    <3>6. ALoneOK(i)'
      BY <3>1, <3>4, <3>5, <1>2 DEF ALoneOK
    <3>7. QED
      BY <3>3, <3>6
  <2>3. QED
    BY <2>1, <2>2
<1>15. ASSUME NEW d \in Customers
       PROVE  FewLasting(d)'
  <2>1. CASE d # c
    <3>1. LastingOf(d)' \ given' \subseteq LastingOf(d) \ given
      BY <2>1, <1>1, <1>7, <1>8, <1>10, <1>12 DEF LastingOf
    <3>2. CreatorsOf(d)' \subseteq CreatorsOf(d)
      BY <1>1, ADoneFacts DEF CreatorsOf
    <3>3. QED
      BY <3>1, <3>2, FewLastingFrame
  <2>2. CASE d = c
    <3> DEFINE L == LastingOf(c) \ given
    <3>1. LastingOf(c)' \ given' \subseteq L \cup {n}
      BY <1>1, <1>7, <1>10, <1>12 DEF LastingOf
    <3>2. IsFiniteSet(L)
      BY LastingFinite, FS_Subset DEF LastingOf
    <3>3. /\ IsFiniteSet(L \cup {n}) /\ Cardinality(L) \in Nat /\ Cardinality(L \cup {n}) \in Nat
          /\ Cardinality(L \cup {n}) <= Cardinality(L) + 1
      BY <3>2, OneMore
    <3>4. /\ Cardinality(LastingOf(c)' \ given') \in Nat
          /\ Cardinality(LastingOf(c)' \ given') <= Cardinality(L) + 1
      BY <3>1, <3>3, SubsetBound
    <3>5. CreatorsOf(c)' \subseteq CreatorsOf(c) \ {k} /\ k \in CreatorsOf(c)
      BY <1>1, <1>3, <1>4, ADoneFacts DEF CreatorsOf, IdleAJob
    <3>6. IsFiniteSet(CreatorsOf(c))
      BY PartiesAssumption, FS_Subset DEF CreatorsOf
    <3>7. /\ IsFiniteSet(CreatorsOf(c) \ {k}) /\ Cardinality(CreatorsOf(c)) \in Nat
          /\ Cardinality(CreatorsOf(c) \ {k}) = Cardinality(CreatorsOf(c)) - 1
      BY <3>5, <3>6, FS_RemoveElement, FS_CardinalityType
    <3>8. /\ Cardinality(CreatorsOf(c)') \in Nat
          /\ Cardinality(CreatorsOf(c)') <= Cardinality(CreatorsOf(c)) - 1
      BY <3>5, <3>7, SubsetBound
    <3>9. FewLasting(c) /\ Cardinality(Clerks) \in Nat
      BY PartiesAssumption, FS_CardinalityType DEF AddressesInv
    <3>10. QED
      BY <2>2, <3>3, <3>4, <3>7, <3>8, <3>9 DEF FewLasting, MostAddresses
  <2>3. QED
    BY <2>1, <2>2
<1>16. ASSUME NEW a \in Lasting', Bright(a)'
       PROVE  a \in Lasting /\ Bright(a) /\ address'[a] = address[a]
  <2>1. a # n
    <3>1. \A i \in Clerks : n \notin ajob'[i].address \/ ajob'[i].op = "none"
      BY <1>1, <1>9, ADoneFacts, AddressesFacts
    <3>2. ~address'[n].default
      BY <1>7, <1>8
    <3>3. QED
      BY <1>16, <3>1, <3>2 DEF Bright
  <2>2. a \in Lasting /\ address'[a] = address[a]
    BY <2>1, <1>7, <1>10, <1>12
  <2>3. QED
    BY <1>1, <1>16, <2>2, ADoneFacts DEF Bright
<1>17. ASSUME NEW d \in Customers \ mixed
       PROVE  OneBright(d)'
  <2>1. OneBright(d)
    BY DEF AddressesInv
  <2>2. QED
    BY <2>1, <1>16 DEF OneBright, LastingOf
<1>18. QED
  BY <1>1, <1>13, <1>14, <1>15, <1>17 DEF AddressesInv

LEMMA UpdateAddressSaveKeeps ==
    ASSUME AddressesInv, NEW k \in Clerks, UpdateAddressSave(k)
    PROVE  AddressesInv'
<1>1. \A i \in Clerks : AJobOK(i) /\ ALoneOK(i) /\ ajob[i] \in AJob
  BY DEF AddressesInv, AddressesTypeOK
<1>2. ajob[k].op = "update"
  BY DEF UpdateAddressSave
<1>3. PICK a \in DOMAIN address : ajob[k].address = {a}
  BY <1>1, <1>2 DEF AJobOK
<1>4. PICK d \in Customers : ajob[k].customer = {d}
  BY <1>1, <1>2 DEF AJobOK
<1> DEFINE on == ajob[k].default
           row == [owner |-> d, default |-> on]
<1>5. /\ address' = [address EXCEPT ![a] = row]
      /\ kept' = kept \cup {a}
      /\ given' = IF address[a].owner = d THEN given ELSE given \cup {a}
      /\ mixed' = IF on /\ (address[a].owner # d \/ ~ajob[k].alone)
                    THEN mixed \cup {d} ELSE mixed
  BY <1>3, <1>4 DEF UpdateAddressSave
<1>6. on \in BOOLEAN /\ row \in Address
  BY <1>1 DEF AJob, Address
<1>7. /\ DOMAIN address' = DOMAIN address /\ address'[a].owner = d /\ address'[a].default = on
      /\ \A b \in DOMAIN address : b # a => address'[b] = address[b]
  BY <1>5
<1>8. address' \in Seq(Address) /\ Len(address') = Len(address)
  <2>1. address' \in [1 .. Len(address) -> Address]
    BY <1>5, <1>6, AddressesFacts
  <2>2. QED
    BY <2>1, TableOf, AddressesFacts
<1> HIDE DEF on, row
<1>9. d \in ajob[k].about /\ address[a].owner \in ajob[k].about
  BY <1>1, <1>3, <1>4 DEF AJobOK
<1>10. ajob'[k] = IdleAJob
  BY DEF UpdateAddressSave
<1>11. ASSUME NEW i \in Clerks, i # k
       PROVE  /\ ajob'[i] \in AJob /\ ajob'[i].phase = ajob[i].phase
              /\ ajob'[i].op = ajob[i].op /\ ajob'[i].customer = ajob[i].customer
              /\ ajob'[i].address = ajob[i].address /\ ajob'[i].alone = ajob[i].alone
              /\ ajob'[i].default = ajob[i].default /\ ajob'[i].seen = ajob[i].seen
              /\ ajob[i].about \subseteq ajob'[i].about
              /\ a \notin ajob[i].address => ajob'[i].about = ajob[i].about
              /\ ajob'[i].about \subseteq ajob[i].about \cup {d}
              /\ a \in ajob[i].address => d \in ajob'[i].about /\ ~ajob[i].alone
  <2>1. CASE a \in ajob[i].address
    <3>1. ajob'[i] = [ajob[i] EXCEPT !.about = @ \cup {d}]
      BY <2>1, <1>3, <1>4, <1>11 DEF UpdateAddressSave
    <3>2. address[a].owner \in ajob[i].about
      BY <1>1, <2>1 DEF AJobOK
    <3>3. ~ajob[i].alone
      BY <3>2, <1>1, <1>9, <1>11 DEF ALoneOK
    <3>4. QED
      BY <3>1, <3>3, <2>1, <1>1 DEF AJob
  <2>2. CASE a \notin ajob[i].address
    <3>1. ajob'[i] = ajob[i]
      BY <2>2, <1>3, <1>11 DEF UpdateAddressSave
    <3>2. QED
      BY <3>1, <2>2, <1>1
  <2>3. QED
    BY <2>1, <2>2
<1>12. ajob'[k].op = "none" /\ ajob'[k].about = {} /\ ajob'[k] \in AJob
  BY <1>10, IdleAJobType DEF IdleAJob
<1>13. kept \subseteq DOMAIN address /\ Lasting \subseteq DOMAIN address
  BY AddressesFacts DEF AddressesInv, AddressesTypeOK
<1>14. Lasting' \subseteq Lasting
  <2>1. a \in Lasting
    BY <1>2, <1>3 DEF Lasting
  <2>2. QED
    BY <2>1, <1>5, <1>11, <1>12 DEF Lasting
<1>15. AddressesTypeOK'
  <2>1. ajob' \in [Clerks -> AJob]
    <3>1. ajob' = [i \in Clerks |-> ajob'[i]]
      BY DEF UpdateAddressSave
    <3>2. QED
      BY <3>1, <1>11, <1>12
  <2>2. QED
    BY <2>1, <1>5, <1>7, <1>8, <1>13 DEF AddressesTypeOK, AddressesInv
<1>16. ASSUME NEW i \in Clerks
       PROVE  AJobOK(i)' /\ ALoneOK(i)'
  <2>1. CASE i = k
    BY <2>1, <1>10, AIdleOK
  <2>2. CASE i # k
    <3>1. AJobOK(i)'
      <4>1. ajob'[i].op = "none" => ajob'[i].about = {}
        BY <2>2, <1>1, <1>11 DEF AJobOK
      <4>2. \A b \in ajob'[i].address : address'[b].owner \in ajob'[i].about
        <5>1. ASSUME NEW b \in ajob[i].address PROVE address'[b].owner \in ajob'[i].about
          <6>1. b \in DOMAIN address
            BY AddressesFacts
          <6>2. CASE b = a
            BY <6>2, <1>7, <1>11, <2>2
          <6>3. CASE b # a
            BY <6>1, <6>3, <1>1, <1>7, <1>11, <2>2 DEF AJobOK
          <6>4. QED
            BY <6>2, <6>3
        <5>2. QED
          BY <5>1, <2>2, <1>11
      <4>3. QED
        BY <4>1, <4>2, <2>2, <1>1, <1>7, <1>11 DEF AJobOK
    <3>2. ALoneOK(i)'
      <4>1. SUFFICES ASSUME ajob'[i].alone PROVE ALoneOK(i)'
        BY DEF ALoneOK
      <4>2. ajob[i].alone /\ a \notin ajob[i].address /\ ajob'[i].about = ajob[i].about
        BY <4>1, <2>2, <1>11
      <4>3. d \notin ajob[i].about
        BY <4>2, <2>2, <1>1, <1>9 DEF ALoneOK
      <4>4. \A m \in Clerks \ {i} : ajob'[m].about \cap ajob'[i].about = {}
        BY <4>2, <4>3, <1>1, <1>11, <1>12 DEF ALoneOK
      <4>5. \A c : c # d => DefaultsOf(c)' \subseteq DefaultsOf(c)
        BY <1>5, <1>7, <1>13 DEF DefaultsOf, AddressesOf
      <4>6. \A c \in ajob[i].customer : c # d
        BY <4>3, <1>1 DEF AJobOK
      <4>7. QED
        BY <4>2, <4>4, <4>5, <4>6, <2>2, <1>1, <1>11 DEF ALoneOK
    <3>3. QED
      BY <3>1, <3>2
  <2>3. QED
    BY <2>1, <2>2
<1>17. ASSUME NEW c \in Customers
       PROVE  FewLasting(c)'
  <2>1. LastingOf(c)' \ given' \subseteq LastingOf(c) \ given
    BY <1>5, <1>7, <1>13, <1>14 DEF LastingOf
  <2>2. CreatorsOf(c)' \subseteq CreatorsOf(c)
    BY <1>11, <1>12 DEF CreatorsOf
  <2>3. QED
    BY <2>1, <2>2, FewLastingFrame
<1>18. ASSUME NEW c \in Customers \ mixed', NEW b \in LastingOf(c)', Bright(b)'
       PROVE  b \in LastingOf(c) /\ Bright(b)
  <2>1. b \in Lasting /\ b \in DOMAIN address /\ address'[b].owner = c
    BY <1>13, <1>14 DEF LastingOf
  <2>2. CASE b # a
    <3>1. b \in LastingOf(c)
      BY <2>1, <2>2, <1>7 DEF LastingOf
    <3>2. Bright(b)
      BY <1>18, <2>1, <2>2, <1>7, <1>11, <1>12 DEF Bright
    <3>3. QED
      BY <3>1, <3>2
  <2>3. CASE b = a
    <3>1. on
      BY <1>18, <2>3, <1>7, <1>11, <1>12 DEF Bright
    <3>2. c = d
      BY <2>1, <2>3, <1>7
    <3>3. address[a].owner = d /\ ajob[k].alone
      BY <3>1, <3>2, <1>5, <1>1 DEF AJob
    <3>4. Bright(a)
      BY <3>1, <3>3, <1>2, <1>3 DEF Bright, on
    <3>5. QED
      BY <2>1, <2>3, <3>2, <3>3, <3>4 DEF LastingOf
  <2>4. QED
    BY <2>2, <2>3
<1>19. ASSUME NEW c \in Customers \ mixed'
       PROVE  OneBright(c)'
  <2>1. c \notin mixed
    BY <1>5
  <2>2. OneBright(c)
    BY <2>1 DEF AddressesInv
  <2>3. QED
    BY <2>2, <1>18 DEF OneBright
<1>20. QED
  BY <1>15, <1>16, <1>17, <1>19 DEF AddressesInv

LEMMA DefaultClearKeeps ==
    ASSUME AddressesInv, NEW k \in Clerks, DefaultClear(k)
    PROVE  AddressesInv'
<1>1. \A i \in Clerks : AJobOK(i) /\ ALoneOK(i) /\ ajob[i] \in AJob
  BY DEF AddressesInv, AddressesTypeOK
<1>2. PICK c \in Customers : ajob[k].customer = {c}
  BY <1>1 DEF DefaultClear, AJobOK
<1>3. /\ ajob[k].op = "default" /\ ajob[k].phase = "loaded"
      /\ ajob' = [ajob EXCEPT ![k].phase = "cleared", ![k].seen = DefaultsOf(c)]
      /\ UNCHANGED <<address, kept, given, mixed>>
  BY <1>2 DEF DefaultClear, ADatabase, Cleared
<1>4. DefaultsOf(c) \subseteq Rows
  BY AddressesFacts DEF DefaultsOf, AddressesOf, AddressesInv, AddressesTypeOK
<1>5. ajob \in [Clerks -> AJob]
  BY DEF AddressesInv, AddressesTypeOK
<1>6. /\ ajob'[k] \in AJob /\ ajob'[k].phase = "cleared" /\ ajob'[k].seen = DefaultsOf(c)
      /\ \A i \in Clerks : i # k => ajob'[i] = ajob[i]
      /\ ajob' \in [Clerks -> AJob]
      /\ \A i \in Clerks :
            /\ ajob'[i].op = ajob[i].op /\ ajob'[i].customer = ajob[i].customer
            /\ ajob'[i].about = ajob[i].about /\ ajob'[i].address = ajob[i].address
            /\ ajob'[i].default = ajob[i].default /\ ajob'[i].alone = ajob[i].alone
  BY <1>3, <1>4, <1>5 DEF AJob
<1>7. AddressesTypeOK'
  BY <1>3, <1>6 DEF AddressesInv, AddressesTypeOK
<1>8. ASSUME NEW i \in Clerks
      PROVE  AJobOK(i)' /\ ALoneOK(i)'
  <2>1. \A d : DefaultsOf(d)' = DefaultsOf(d)
    BY <1>3 DEF DefaultsOf, AddressesOf
  <2>2. AJobOK(i)'
    BY <1>1, <1>3, <1>6 DEF AJobOK
  <2>3. ALoneOK(i)'
    BY <1>1, <1>2, <1>3, <1>6, <2>1 DEF ALoneOK
  <2>4. QED
    BY <2>2, <2>3
<1>9. Lasting' = Lasting
  BY <1>3, <1>6 DEF Lasting
<1>10. ASSUME NEW d \in Customers
       PROVE  FewLasting(d)'
  <2>1. LastingOf(d)' \ given' \subseteq LastingOf(d) \ given
    BY <1>3, <1>9 DEF LastingOf
  <2>2. CreatorsOf(d)' \subseteq CreatorsOf(d)
    BY <1>6 DEF CreatorsOf
  <2>3. QED
    BY <2>1, <2>2, FewLastingFrame
<1>11. \A b \in Lasting : Bright(b)' => Bright(b)
  BY <1>3, <1>6 DEF Bright
<1>12. ASSUME NEW d \in Customers \ mixed
       PROVE  OneBright(d)'
  BY <1>3, <1>9, <1>11 DEF OneBright, LastingOf, AddressesInv
<1>13. QED
  BY <1>3, <1>7, <1>8, <1>10, <1>12 DEF AddressesInv

LEMMA DefaultSaveKeeps ==
    ASSUME AddressesInv, NEW k \in Clerks, DefaultSave(k)
    PROVE  AddressesInv'
<1>1. \A i \in Clerks : AJobOK(i) /\ ALoneOK(i) /\ ajob[i] \in AJob
  BY DEF AddressesInv, AddressesTypeOK
<1>2. /\ ajob[k].op = "default" /\ ajob[k].phase = "cleared" /\ ADone(k)
      /\ UNCHANGED <<kept, given>>
      /\ mixed' = IF ajob[k].alone THEN mixed \ ajob[k].customer ELSE mixed \cup ajob[k].about
  BY DEF DefaultSave
<1>3. PICK a \in DOMAIN address : ajob[k].address = {a}
  BY <1>1, <1>2 DEF AJobOK
<1>4. PICK d \in Customers : ajob[k].customer = {d}
  BY <1>1, <1>2 DEF AJobOK
<1>5. DOMAIN address' = DOMAIN address /\ address' = [b \in DOMAIN address |-> address'[b]]
  BY DEF DefaultSave
<1>6. ASSUME NEW b \in DOMAIN address
      PROVE  /\ address'[b] \in Address /\ address'[b].owner = address[b].owner
             /\ b # a => (address'[b].default => address[b].default /\ b \notin ajob[k].seen)
  <2>1. address[b] \in Address
    BY AddressesFacts
  <2>2. CASE b = a
    <3>1. address'[b] = [address[b] EXCEPT !.default = TRUE]
      BY <2>2, <1>3 DEF DefaultSave
    <3>2. QED
      BY <2>1, <2>2, <3>1 DEF Address
  <2>3. CASE b # a /\ b \in ajob[k].seen
    <3>1. address'[b] = [address[b] EXCEPT !.default = FALSE]
      BY <2>3, <1>3 DEF DefaultSave
    <3>2. QED
      BY <2>1, <2>3, <3>1 DEF Address
  <2>4. CASE b # a /\ b \notin ajob[k].seen
    <3>1. address'[b] = address[b]
      BY <2>4, <1>3 DEF DefaultSave
    <3>2. QED
      BY <2>1, <2>4, <3>1
  <2>5. QED
    BY <2>2, <2>3, <2>4
<1>7. address' \in Seq(Address) /\ Len(address') = Len(address)
  <2>1. address' \in [1 .. Len(address) -> Address]
    BY <1>5, <1>6, AddressesFacts
  <2>2. QED
    BY <2>1, TableOf, AddressesFacts
<1>8. address[a].owner \in ajob[k].about /\ d \in ajob[k].about
  BY <1>1, <1>3, <1>4 DEF AJobOK
<1>9. kept \subseteq DOMAIN address /\ Lasting \subseteq DOMAIN address
  BY AddressesFacts DEF AddressesInv, AddressesTypeOK
<1>10. Lasting' \subseteq Lasting
  BY <1>2, ADoneFacts DEF Lasting
<1>11. AddressesTypeOK'
  BY <1>2, <1>5, <1>7, <1>9, ADoneFacts DEF AddressesTypeOK, AddressesInv
<1>12. ASSUME NEW i \in Clerks
       PROVE  AJobOK(i)' /\ ALoneOK(i)'
  <2>1. CASE i = k
    BY <2>1, <1>2, ADoneFacts, AIdleOK
  <2>2. CASE i # k
    <3>1. ajob'[i] = ajob[i] /\ ajob[i].address \subseteq DOMAIN address
      BY <2>2, <1>2, ADoneFacts, AddressesFacts
    <3>2. AJobOK(i)'
      BY <3>1, <1>1, <1>5, <1>6 DEF AJobOK
    <3>3. ALoneOK(i)'
      <4>1. SUFFICES ASSUME ajob[i].alone PROVE ALoneOK(i)'
        BY <3>1 DEF ALoneOK
      <4>2. \A m \in Clerks : ajob'[m] = ajob[m] \/ ajob'[m].about = {}
        BY <1>2, ADoneFacts DEF IdleAJob
      <4>3. \A c : c # address[a].owner => DefaultsOf(c)' \subseteq DefaultsOf(c)
        BY <1>2, <1>6, <1>9 DEF DefaultsOf, AddressesOf
      <4>4. address[a].owner \notin ajob[i].about
        BY <4>1, <2>2, <1>1, <1>8 DEF ALoneOK
      <4>5. \A c \in ajob[i].customer : c # address[a].owner
        BY <4>4, <1>1 DEF AJobOK
      <4>6. QED
        BY <4>1, <4>2, <4>3, <4>5, <3>1, <1>1 DEF ALoneOK
    <3>4. QED
      BY <3>2, <3>3
  <2>3. QED
    BY <2>1, <2>2
<1>13. ASSUME NEW c \in Customers
       PROVE  FewLasting(c)'
  <2>1. LastingOf(c)' \ given' \subseteq LastingOf(c) \ given
    BY <1>2, <1>6, <1>9, <1>10 DEF LastingOf
  <2>2. CreatorsOf(c)' \subseteq CreatorsOf(c)
    BY <1>2, ADoneFacts DEF CreatorsOf
  <2>3. QED
    BY <2>1, <2>2, FewLastingFrame
<1>14. ASSUME NEW b \in Lasting', b # a, Bright(b)'
       PROVE  Bright(b)
  BY <1>2, <1>14, <1>6, <1>9, <1>10, ADoneFacts DEF Bright
\* The request was alone: only its own address is a default of its customer.
<1>15. ASSUME ajob[k].alone, NEW b \in LastingOf(d)', Bright(b)'
       PROVE  b = a
  <2>1. b \in Lasting /\ b \in DOMAIN address /\ address[b].owner = d
    BY <1>6, <1>9, <1>10 DEF LastingOf
  <2>2. ASSUME NEW i \in Clerks, i # k PROVE b \notin ajob[i].address
    <3>1. d \notin ajob[i].about
      BY <1>15, <1>8, <1>1, <2>2 DEF ALoneOK
    <3>2. QED
      BY <3>1, <2>1, <1>1 DEF AJobOK
  <2>3. b \in kept
    BY <2>1, <2>2, <1>2 DEF Lasting
  <2>4. address'[b].default
    BY <1>15, <2>2, <1>2, ADoneFacts DEF Bright
  <2>5. ASSUME b # a PROVE FALSE
    <3>1. address[b].default /\ b \notin ajob[k].seen
      BY <2>1, <2>4, <2>5, <1>6
    <3>2. b \in DefaultsOf(d)
      BY <2>1, <2>3, <3>1 DEF DefaultsOf, AddressesOf
    <3>3. QED
      BY <3>1, <3>2, <1>1, <1>2, <1>4, <1>15 DEF ALoneOK
  <2>6. QED
    BY <2>5
<1>16. ASSUME NEW c \in Customers \ mixed'
       PROVE  OneBright(c)'
  <2>1. CASE ajob[k].alone /\ c = d
    BY <2>1, <1>15 DEF OneBright
  <2>2. CASE ~(ajob[k].alone /\ c = d)
    <3>1. c \notin mixed /\ c # address[a].owner
      <4>1. CASE ajob[k].alone
        <5>1. address[a].owner = d
          BY <4>1, <1>1, <1>2, <1>4, <1>8 DEF ALoneOK
        <5>2. QED
          BY <4>1, <5>1, <2>2, <1>2, <1>4
      <4>2. CASE ~ajob[k].alone
        BY <4>2, <1>2, <1>8
      <4>3. QED
        BY <4>1, <4>2
    <3>2. \A b \in LastingOf(c)' : b \in LastingOf(c) /\ b # a
      BY <3>1, <1>6, <1>9, <1>10 DEF LastingOf
    <3>3. \A b \in LastingOf(c)' : b \in Lasting'
      BY DEF LastingOf
    <3>4. OneBright(c)
      BY <3>1 DEF AddressesInv
    <3>5. QED
      BY <3>2, <3>3, <3>4, <1>14 DEF OneBright
  <2>3. QED
    BY <2>1, <2>2
<1>17. QED
  BY <1>11, <1>12, <1>13, <1>16 DEF AddressesInv

---------------------------------------------------------------------------
(* Addresses: the invariant *)

LEMMA AddressesBegin ==
    ASSUME Init
    PROVE  AddressesInv
<1>1. /\ address = <<>> /\ kept = {} /\ given = {} /\ mixed = {}
      /\ ajob = [k \in Clerks |-> IdleAJob]
  BY DEF Init, AInit
<1>2. AddressesTypeOK
  BY <1>1, IdleAJobType, PartiesAssumption DEF AddressesTypeOK
<1>3. \A k \in Clerks : AJobOK(k) /\ ALoneOK(k)
  BY <1>1 DEF AJobOK, ALoneOK, IdleAJob
<1>4. Lasting = {} /\ \A c : LastingOf(c) = {} /\ CreatorsOf(c) = {}
  BY <1>1 DEF Lasting, LastingOf, CreatorsOf, IdleAJob
<1>5. Cardinality({}) = 0
  BY FS_EmptySet, Zenon
<1>6. Cardinality(Clerks) \in Nat /\ Cardinality(Clerks) # 0
  BY PartiesAssumption, FS_CardinalityType, FS_EmptySet
<1>7. ASSUME NEW c \in Customers
      PROVE  FewLasting(c)
  <2>1. LastingOf(c) \ given = {} /\ CreatorsOf(c) = {}
    BY <1>4
  <2>2. Cardinality(LastingOf(c) \ given) = 0 /\ Cardinality(CreatorsOf(c)) = 0
    BY <1>5, <2>1
  <2>3. QED
    BY <1>6, <2>2 DEF FewLasting, MostAddresses
<1>8. QED
  BY <1>2, <1>3, <1>4, <1>7 DEF AddressesInv, OneBright

LEMMA AddressesKept ==
    ASSUME AddressesInv, inUse \in Mixes, [Next]_shopVars
    PROVE  AddressesInv'
<1>1. CASE UNCHANGED <<inUse, addressVars>>
  BY <1>1 DEF addressVars, AddressesInv, AddressesTypeOK, AJobOK, ALoneOK, FewLasting,
              OneBright, LastingOf, Lasting, CreatorsOf, Bright, DefaultsOf, AddressesOf
<1>2. CASE ANext
  <2>1. ASSUME NEW a \in kept, RemoveAddress(a) PROVE AddressesInv'
    BY <2>1, RemoveAddressKeeps
  <2>2. ASSUME NEW k \in Clerks, NEW c \in Customers, CreateAddressLoad(k, c)
        PROVE  AddressesInv'
    BY <2>2, CreateAddressLoadKeeps
  <2>3. ASSUME NEW k \in Clerks, NEW a \in kept, NEW d \in Customers,
               UpdateAddressLoad(k, a, d)
        PROVE  AddressesInv'
    BY <2>3, UpdateAddressLoadKeeps
  <2>4. ASSUME NEW k \in Clerks, NEW a \in kept, DefaultLoad(k, a) PROVE AddressesInv'
    BY <2>4, DefaultLoadKeeps
  <2>5. ASSUME NEW k \in Clerks, CreateAddressSave(k) PROVE AddressesInv'
    BY <2>5, CreateAddressSaveKeeps
  <2>6. ASSUME NEW k \in Clerks, UpdateAddressSave(k) PROVE AddressesInv'
    BY <2>6, UpdateAddressSaveKeeps
  <2>7. ASSUME NEW k \in Clerks, DefaultClear(k) PROVE AddressesInv'
    BY <2>7, DefaultClearKeeps
  <2>8. ASSUME NEW k \in Clerks, DefaultSave(k) PROVE AddressesInv'
    BY <2>8, DefaultSaveKeeps
  <2>9. ASSUME NEW k \in Clerks, AAbort(k) PROVE AddressesInv'
    BY <2>9, AAbortKeeps
  <2>10. QED
    BY <1>2, <2>1, <2>2, <2>3, <2>4, <2>5, <2>6, <2>7, <2>8, <2>9 DEF ANext
<1>3. QED
  BY <1>1, <1>2, AddressesStep

\* What a request in flight about addresses has read, and which rows it may
\* bring back, is as AddressesInv says (ReceiveAddressService).
THEOREM AddressesInvariant == Spec => []AddressesInv
<1>1. Init => AddressesInv
  BY AddressesBegin
<1>2. AddressesInv /\ inUse \in Mixes /\ [Next]_shopVars => AddressesInv'
  BY AddressesKept
<1>3. QED
  BY <1>1, <1>2, MixStays, PTL DEF Spec

\* A customer has three addresses, plus one for each further request at the
\* same time, not counting what updates gave away (create).
THEOREM AtMostThreeHolds == Spec => []AtMostThree
<1>1. AddressesInv => AtMostThree
  <2> SUFFICES ASSUME AddressesInv, NEW c \in Customers
               PROVE  Cardinality(AddressesOf(c) \ given)
                          <= MostAddresses + Cardinality(Clerks) - 1
    BY DEF AtMostThree
  <2>1. AddressesOf(c) \ given \subseteq LastingOf(c) \ given
    BY DEF AddressesOf, LastingOf, Lasting
  <2>2. IsFiniteSet(LastingOf(c) \ given) /\ IsFiniteSet(CreatorsOf(c))
    BY LastingFinite, PartiesAssumption, FS_Subset DEF LastingOf, CreatorsOf
  <2>3. /\ Cardinality(AddressesOf(c) \ given) \in Nat
        /\ Cardinality(LastingOf(c) \ given) \in Nat
        /\ Cardinality(AddressesOf(c) \ given) <= Cardinality(LastingOf(c) \ given)
    BY <2>1, <2>2, SubsetBound
  <2>4. Cardinality(CreatorsOf(c)) \in Nat /\ Cardinality(Clerks) \in Nat
    BY <2>2, PartiesAssumption, FS_CardinalityType
  <2>5. FewLasting(c)
    BY DEF AddressesInv
  <2>6. QED
    BY <2>3, <2>4, <2>5 DEF FewLasting, MostAddresses
<1>2. QED
  BY <1>1, AddressesInvariant, PTL

\* A customer has one default address, but for the customers whose requests
\* overlapped or who were given another's (setDefaultReceiveAddress, update).
THEOREM OneDefaultHolds == Spec => []OneDefault
<1>1. AddressesInv => OneDefault
  <2> SUFFICES ASSUME AddressesInv, NEW c \in Customers \ mixed
               PROVE  Cardinality(DefaultsOf(c)) <= 1
    BY DEF OneDefault
  <2>1. \A a \in DefaultsOf(c) : a \in LastingOf(c) /\ Bright(a)
    BY DEF DefaultsOf, AddressesOf, LastingOf, Lasting, Bright
  <2>2. OneBright(c)
    BY DEF AddressesInv
  <2>3. \A a, b \in DefaultsOf(c) : a = b
    BY <2>1, <2>2 DEF OneBright
  <2>4. QED
    BY <2>3, AtMostOne
<1>2. QED
  BY <1>1, AddressesInvariant, PTL

---------------------------------------------------------------------------
(* Accounts: rows and requests *)

LEMMA AccountsStep ==
    ASSUME [Next]_shopVars
    PROVE  \/ KNext /\ UNCHANGED inUse
           \/ UNCHANGED <<inUse, accountVars>>
BY DEF Next, shopVars

LEMMA IdleKJobType ==
    /\ IdleKJob \in KJob
    /\ IdleKJob.op = "none" /\ IdleKJob.emails = {} /\ IdleKJob.code = 0
    /\ IdleKJob.row = {} /\ IdleKJob.about = {} /\ IdleKJob.phase = "idle"
BY PartiesAssumption DEF IdleKJob, KJob, Tables, Codes

LEMMA AccountsFacts ==
    ASSUME AccountsInv
    PROVE  /\ Len(account) \in Nat /\ DOMAIN account = 1 .. Len(account)
           /\ DOMAIN account \subseteq Rows /\ DOMAIN mailed = DOMAIN account
           /\ live \subseteq DOMAIN account
           /\ \A a \in DOMAIN account :
                 /\ account[a] \in Account /\ account[a].table \in Tables
                 /\ account[a].email \in Emails /\ account[a].code \in Codes
                 /\ mailed[a] \in Codes
                 /\ Subject(a) = <<account[a].table, account[a].email>>
           /\ Codes = 0 .. MaxRows /\ MaxRows \in Nat /\ issued \in 0 .. MaxRows
           /\ \A k \in Clerks : kjob[k] \in KJob
<1>1. /\ Len(account) \in Nat /\ DOMAIN account = 1 .. Len(account)
      /\ \A a \in DOMAIN account : account[a] \in Account
  BY TableDomain DEF AccountsInv, AccountsTypeOK
<1>2. /\ Len(mailed) \in Nat /\ DOMAIN mailed = 1 .. Len(mailed)
      /\ \A a \in DOMAIN mailed : mailed[a] \in Codes
  BY TableDomain DEF AccountsInv, AccountsTypeOK
<1>3. MaxRows \in Nat /\ Len(account) <= MaxRows /\ Len(mailed) = Len(account)
  BY PartiesAssumption DEF AccountsInv, AccountsTypeOK
<1>4. DOMAIN account \subseteq Rows
  BY <1>1, <1>3 DEF Rows
<1>5. QED
  BY <1>1, <1>2, <1>3, <1>4 DEF AccountsInv, AccountsTypeOK, Account, Codes, Subject

\* No account changes its table, and what changes its address is jumbled.
KGrow ==
    /\ jumbled \subseteq jumbled'
    /\ DOMAIN account \subseteq DOMAIN account'
    /\ \A a \in DOMAIN account :
          /\ account'[a].table = account[a].table
          /\ Subject(a)' = Subject(a) \/ Subject(a)' \in jumbled'

\* Accounts with other addresses than these stay as they are.
KQuiet(B) ==
    \A a \in live' :
        \/ Subject(a)' \in jumbled' \cup B
        \/ a \in live /\ account'[a] = account[a] /\ mailed'[a] = mailed[a]

LEMMA KSoundFrame ==
    ASSUME AccountsInv, NEW i \in Clerks, kjob'[i] = kjob[i], KGrow
    PROVE  KJobOK(i)'
<1>1. kjob[i] \in KJob /\ KJobOK(i)
  BY AccountsFacts DEF AccountsInv
<1>2. KSound(kjob[i])'
  BY <1>1 DEF KJobOK, KSound, KGrow, SpendOps, SaveOps, OpenOps
<1>3. QED
  BY <1>1, <1>2 DEF KJobOK

LEMMA KAloneFrame ==
    ASSUME AccountsInv, NEW i \in Clerks, NEW B,
           kjob[i].alone => kjob[i].about \cap B = {},
           kjob'[i] = kjob[i],
           \A m \in Clerks \ {i} : kjob'[m].about \subseteq kjob[m].about,
           KGrow, KQuiet(B)
    PROVE  KAloneOK(i)'
<1>1. kjob[i] \in KJob /\ KJobOK(i) /\ KAloneOK(i)
  BY AccountsFacts DEF AccountsInv
<1>2. SUFFICES ASSUME kjob[i].alone
               PROVE  KAloneOK(i)'
  BY DEF KAloneOK
<1>3. kjob[i].about \cap B = {}
  BY <1>2
<1>4. ASSUME NEW a \in live', Subject(a)' \in kjob[i].about \ jumbled'
      PROVE  /\ a \in live /\ account'[a] = account[a] /\ mailed'[a] = mailed[a]
             /\ Subject(a)' = Subject(a) /\ Subject(a) \in kjob[i].about \ jumbled
  <2>1. a \in live /\ account'[a] = account[a] /\ mailed'[a] = mailed[a]
    BY <1>3, <1>4 DEF KQuiet
  <2>2. Subject(a)' = Subject(a)
    BY <2>1 DEF Subject
  <2>3. QED
    BY <1>4, <2>1, <2>2 DEF KGrow
<1>5. KTurn(kjob[i])
  BY <1>1, <1>2 DEF KAloneOK
<1>6. kjob[i].op \in SaveOps => kjob[i].id \in DOMAIN account
  BY <1>1 DEF KJobOK, KSound
<1>7. KTurn(kjob[i])'
  <2>1. ASSUME NEW a \in Concerned(kjob[i])'
        PROVE  /\ a \in Concerned(kjob[i]) /\ Subject(a)' = Subject(a)
               /\ account'[a] = account[a] /\ mailed'[a] = mailed[a]
    BY <1>4 DEF Concerned
  <2>2. ASSUME kjob[i].op \in SaveOps
        PROVE  /\ Subject(kjob[i].id)' \in kjob[i].about \cup jumbled'
               /\ \/ Subject(kjob[i].id)' = Subject(kjob[i].id)
                  \/ Subject(kjob[i].id)' \in jumbled'
    <3>1. Subject(kjob[i].id) \in kjob[i].about \cup jumbled
      BY <1>5, <2>2 DEF KTurn
    <3>2. PICK a \in DOMAIN account : a = kjob[i].id
      BY <1>6, <2>2
    <3>3. Subject(a)' = Subject(a) \/ Subject(a)' \in jumbled'
      BY DEF KGrow
    <3>4. Subject(kjob[i].id)' = Subject(a)'
      BY <3>2 DEF Subject
    <3>5. QED
      BY <3>1, <3>2, <3>3, <3>4 DEF KGrow
  <2>3. ASSUME kjob[i].op \in SaveOps, NEW a \in Concerned(kjob[i])',
               Subject(a)' = Subject(kjob[i].id)'
        PROVE  a = kjob[i].id
    <3>1. Subject(a)' \notin jumbled'
      BY DEF Concerned
    <3>2. Subject(a) = Subject(kjob[i].id)
      BY <2>1, <2>2, <2>3, <3>1
    <3>3. QED
      BY <1>5, <2>1, <2>3, <3>2 DEF KTurn
  <2>4. QED
    BY <1>5, <2>1, <2>2, <2>3 DEF KTurn
<1>8. QED
  BY <1>1, <1>2, <1>7 DEF KAloneOK

---------------------------------------------------------------------------
(* Accounts: requests that start *)

\* What a request may start with, having issued n codes.
KMayStart(j, n) ==
    /\ j.op # "none" /\ KSound(j)
    /\ \A c \in Codes \ {0} : Brings(j, c) => n = 1 /\ c = issued + 1
    /\ \A c \in Codes \ {0} : j.op \in SpendOps \cup {"save"} /\ j.code = c =>
          \E a \in live : account[a].code = c /\ j.id = a
    /\ \A row \in j.row : j.op = "save" /\ row.code # 0 =>
          \E a \in live : account[a].table = "User" /\ account[a].code = row.code

LEMMA KStartKeeps ==
    ASSUME AccountsInv, inUse \in Mixes, NEW k \in Clerks, NEW j \in KJob, NEW n \in {0, 1},
           KStart(k, j, n), KMayStart(j, n),
           UNCHANGED <<account, live, spends, again, jumbled>>,
           mailed' \in Seq(Codes), Len(mailed') = Len(mailed),
           \A a \in DOMAIN account :
              mailed'[a] = mailed[a] \/ (j.op = "issue" /\ Subject(a) \in j.about),
           (\A i \in Clerks : kjob[i].about \cap j.about = {}) => KTurn(j)'
    PROVE  AccountsInv'
<1>1. \A i \in Clerks : kjob[i] \in KJob /\ KJobOK(i) /\ KAloneOK(i)
  BY AccountsFacts DEF AccountsInv
<1>2. kjob[k].phase = "idle" /\ kjob[k].op = "none" /\ kjob[k].about = {}
  <2>1. kjob[k].phase = "idle"
    BY DEF KStart, KBusy
  <2>2. QED
    BY <1>1, <2>1 DEF KJobOK, KSound
<1>3. \A i \in Clerks : i \in KBusy \/ kjob[i].about = {}
  BY <1>1 DEF KJobOK, KSound, KBusy
<1>4. /\ kjob'[k] \in KJob /\ kjob'[k].phase = "loaded"
      /\ kjob'[k].op = j.op /\ kjob'[k].table = j.table /\ kjob'[k].emails = j.emails
      /\ kjob'[k].id = j.id /\ kjob'[k].code = j.code /\ kjob'[k].row = j.row
      /\ kjob'[k].about = j.about
      /\ kjob'[k].alone => \A i \in KBusy : kjob[i].about \cap j.about = {}
  BY DEF KStart, KJob
<1>5. kjob'[k].alone => \A i \in Clerks : kjob[i].about \cap j.about = {}
  BY <1>3, <1>4
<1>6. ASSUME NEW i \in Clerks, i # k
      PROVE  /\ kjob'[i] \in KJob /\ kjob'[i].phase = kjob[i].phase
             /\ kjob'[i].op = kjob[i].op /\ kjob'[i].table = kjob[i].table
             /\ kjob'[i].emails = kjob[i].emails /\ kjob'[i].id = kjob[i].id
             /\ kjob'[i].code = kjob[i].code /\ kjob'[i].row = kjob[i].row
             /\ kjob'[i].about = kjob[i].about
             /\ kjob'[i].alone => kjob[i].alone /\ kjob[i].about \cap j.about = {}
  <2>1. CASE i \in KBusy /\ kjob[i].about \cap j.about # {}
    BY <1>1, <1>6, <2>1 DEF KStart, KJob
  <2>2. CASE i \in KBusy /\ kjob[i].about \cap j.about = {}
    BY <1>1, <1>6, <2>2 DEF KStart
  <2>3. CASE i \notin KBusy
    <3>1. kjob'[i] = kjob[i]
      BY <1>6, <2>3 DEF KStart
    <3>2. QED
      BY <1>1, <1>3, <2>3, <3>1
  <2>4. QED
    BY <2>1, <2>2, <2>3
<1>7. issued' = issued + n /\ issued \in 0 .. MaxRows /\ issued' \in 0 .. MaxRows
  <2>1. issued' = issued + n /\ issued + n <= inUse.rows
    BY DEF KStart
  <2>2. issued \in 0 .. MaxRows /\ MaxRows \in Nat /\ inUse.rows \in 0 .. MaxRows
    BY AccountsFacts, PartiesAssumption
  <2>3. QED
    BY <2>1, <2>2
<1>8. \A a \in DOMAIN account : Subject(a)' = Subject(a)
  BY DEF Subject
<1>9. live \subseteq DOMAIN account
  BY AccountsFacts
<1>10. AccountsTypeOK'
  <2>1. kjob' \in [Clerks -> KJob]
    <3>1. kjob' = [i \in Clerks |-> kjob'[i]]
      BY DEF KStart
    <3>2. QED
      BY <3>1, <1>4, <1>6
  <2>2. QED
    BY <2>1, <1>7 DEF AccountsInv, AccountsTypeOK, Codes
<1>11. ASSUME NEW i \in Clerks
       PROVE  KJobOK(i)'
  <2>1. CASE i = k
    <3>1. KSound(j)
      BY DEF KMayStart
    <3>2. KSound(kjob[k])'
      BY <3>1, <1>4 DEF KSound, Subject
    <3>3. QED
      BY <2>1, <3>2, <1>4 DEF KJobOK, KMayStart
  <2>2. CASE i # k
    <3>1. KSound(kjob[i])
      BY <1>1 DEF KJobOK
    <3>2. KSound(kjob[i])'
      <4>1. /\ kjob'[i].op = kjob[i].op /\ kjob'[i].table = kjob[i].table
            /\ kjob'[i].emails = kjob[i].emails /\ kjob'[i].id = kjob[i].id
            /\ kjob'[i].code = kjob[i].code /\ kjob'[i].row = kjob[i].row
            /\ kjob'[i].about = kjob[i].about
        BY <2>2, <1>6
      <4>2. QED
        BY <3>1, <4>1 DEF KSound, Subject
    <3>3. QED
      BY <2>2, <3>2, <1>1, <1>6 DEF KJobOK
  <2>3. QED
    BY <2>1, <2>2
<1>12. ASSUME NEW i \in Clerks
       PROVE  KAloneOK(i)'
  <2>1. CASE i = k
    <3>1. SUFFICES ASSUME kjob'[k].alone PROVE KAloneOK(k)'
      BY <2>1 DEF KAloneOK
    <3>2. KTurn(j)'
      BY <3>1, <1>5
    <3>3. KTurn(kjob[k])'
      BY <3>2, <1>4 DEF KTurn, Concerned
    <3>4. \A m \in Clerks \ {k} : kjob'[m].about \cap kjob'[k].about = {}
      BY <3>1, <1>4, <1>5, <1>6
    <3>5. QED
      BY <3>3, <3>4 DEF KAloneOK
  <2>2. CASE i # k
    <3>1. SUFFICES ASSUME kjob'[i].alone PROVE KAloneOK(i)'
      BY DEF KAloneOK
    <3>2. kjob[i].alone /\ kjob[i].about \cap j.about = {}
      BY <2>2, <3>1, <1>6
    <3>3. \A m \in Clerks \ {i} : kjob'[m].about \cap kjob'[i].about = {}
      BY <2>2, <3>2, <1>1, <1>4, <1>6 DEF KAloneOK
    <3>4. ASSUME NEW a \in live, Subject(a) \in kjob[i].about
          PROVE  mailed'[a] = mailed[a]
      BY <3>2, <3>4, <1>9
    <3>5. KTurn(kjob[i])
      BY <3>2, <1>1 DEF KAloneOK
    <3>6. KTurn(kjob[i])'
      <4>1. Concerned(kjob[i])' = Concerned(kjob[i])
        BY <2>2, <1>6, <1>8, <1>9 DEF Concerned
      <4>2. \A a \in Concerned(kjob[i]) : mailed'[a] = mailed[a]
        BY <3>4 DEF Concerned
      <4>3. Subject(kjob[i].id)' = Subject(kjob[i].id)
        BY <2>2, <1>6 DEF Subject
      <4>4. \A a \in Concerned(kjob[i]) : a \in DOMAIN account /\ Subject(a)' = Subject(a)
        BY <1>8, <1>9 DEF Concerned
      <4>5. QED
        BY <2>2, <3>5, <4>1, <4>2, <4>3, <4>4, <1>6 DEF KTurn
    <3>7. QED
      BY <3>3, <3>6 DEF KAloneOK
  <2>3. QED
    BY <2>1, <2>2
<1>13. ASSUME NEW c \in Codes \ {0}
       PROVE  /\ Spenders(c) \subseteq Spenders(c)' /\ Spenders(c)' \subseteq Spenders(c) \cup {k}
              /\ k \in Spenders(c)' => \E a \in live : account[a].code = c /\ j.id = a
  BY <1>2, <1>4, <1>6 DEF Spenders, KMayStart, SpendOps
<1>14. ASSUME NEW c \in Codes \ {0}, OnRecord(c)'
       PROVE  OnRecord(c)
  <2>1. CASE k \in Spenders(c)'
    BY <2>1, <1>9, <1>13 DEF OnRecord
  <2>2. CASE k \notin Spenders(c)' /\ Spenders(c)' # {}
    BY <2>2, <1>13 DEF OnRecord
  <2>3. CASE \E i \in Clerks : kjob'[i].op = "save" /\ \E row \in kjob'[i].row : row.code = c
    <3>1. PICK i \in Clerks : kjob'[i].op = "save" /\ \E row \in kjob'[i].row : row.code = c
      BY <2>3
    <3>2. CASE i = k
      <4>1. \E a \in live : account[a].code = c
        BY <3>1, <3>2, <1>4 DEF KMayStart
      <4>2. QED
        BY <4>1, <1>9 DEF OnRecord
    <3>3. CASE i # k
      BY <3>1, <3>3, <1>6 DEF OnRecord
    <3>4. QED
      BY <3>2, <3>3
  <2>4. QED
    BY <1>14, <2>1, <2>2, <2>3 DEF OnRecord
<1>15. ASSUME NEW c \in Codes \ {0}
       PROVE  NewOK(c)'
  <2>1. NewOK(c) /\ c \in Nat
    BY AccountsFacts DEF AccountsInv
  <2>2. c > issued' => ~OnRecord(c)'
    BY <2>1, <1>7, <1>14 DEF NewOK
  <2>3. ASSUME NEW i \in Clerks, Brings(kjob[i], c)'
        PROVE  /\ c <= issued' /\ ~OnRecord(c)'
               /\ \A m \in Clerks : Brings(kjob[m], c)' => m = i
    <3>1. \A m \in Clerks : m # k => (Brings(kjob[m], c)' <=> Brings(kjob[m], c))
      BY <1>6 DEF Brings
    <3>2. Brings(kjob[k], c)' => n = 1 /\ c = issued + 1
      <4>1. Brings(kjob[k], c)' => Brings(j, c)
        BY <1>4 DEF Brings
      <4>2. QED
        BY <4>1 DEF KMayStart
    <3>3. QED
      BY <2>1, <2>3, <3>1, <3>2, <1>7, <1>14 DEF NewOK
  <2>4. QED
    BY <2>2, <2>3 DEF NewOK
<1>16. ASSUME NEW c \in Codes \ ({0} \cup again)
       PROVE  SpendingOK(c)'
  <2>1. SpendingOK(c)
    BY DEF AccountsInv
  <2>2. ASSUME NEW a \in live, account[a].code = c
        PROVE  \A m \in Spenders(c)' : kjob'[m].id = a
    <3>1. ASSUME NEW m \in Spenders(c)' PROVE kjob'[m].id = a
      <4>1. CASE m = k
        BY <4>1, <3>1, <2>1, <2>2, <1>4, <1>13 DEF SpendingOK
      <4>2. CASE m # k
        <5>1. m \in Clerks /\ m \in Spenders(c)
          BY <4>2, <1>13 DEF Spenders
        <5>2. QED
          BY <4>2, <5>1, <2>1, <2>2, <1>6 DEF SpendingOK
      <4>3. QED
        BY <4>1, <4>2
    <3>2. QED
      BY <3>1
  <2>3. spends[c] + Cardinality(Spenders(c)') <= Cardinality(Clerks)
    <3>1. CASE k \in Spenders(c)'
      <4>1. spends[c] = 0
        BY <3>1, <2>1, <1>13 DEF SpendingOK
      <4>2. Spenders(c)' \subseteq Clerks
        BY DEF Spenders
      <4>3. /\ Cardinality(Spenders(c)') \in Nat /\ Cardinality(Clerks) \in Nat
            /\ Cardinality(Spenders(c)') <= Cardinality(Clerks)
        BY <4>2, PartiesAssumption, SubsetBound
      <4>4. QED
        BY <4>1, <4>3
    <3>2. CASE k \notin Spenders(c)'
      <4>1. Spenders(c) \subseteq Spenders(c)' /\ Spenders(c)' \subseteq Spenders(c) \cup {k}
        BY <1>13
      <4>2. Spenders(c)' = Spenders(c)
        BY <3>2, <4>1
      <4>3. QED
        BY <4>2, <2>1 DEF SpendingOK
    <3>3. QED
      BY <3>1, <3>2
  <2>4. QED
    BY <2>1, <2>2, <2>3 DEF SpendingOK
<1>17. CodesApart'
  <2> SUFFICES ASSUME NEW a \in DOMAIN account, account[a].table = "Customer",
                      account[a].code # 0, NEW i \in Clerks, kjob'[i].op = "save",
                      NEW row \in kjob'[i].row
               PROVE  row.code # account[a].code
    BY DEF CodesApart, AccountsInv
  <2>1. CodesApart
    BY DEF AccountsInv
  <2>2. CASE i = k
    <3>1. row.code # 0 => \E b \in live : account[b].table = "User" /\ account[b].code = row.code
      BY <2>2, <1>4 DEF KMayStart
    <3>2. QED
      BY <2>1, <3>1, <1>9 DEF CodesApart
  <2>3. CASE i # k
    BY <2>1, <2>3, <1>6 DEF CodesApart
  <2>4. QED
    BY <2>2, <2>3
<1>18. TurnsOK'
  <2> SUFFICES ASSUME NEW a \in live, Subject(a) \notin jumbled,
                      account[a].table = "Customer", mailed'[a] # 0
               PROVE  \/ \E i \in Clerks : kjob'[i].op = "issue" /\ Subject(a) \in kjob'[i].about
                      \/ account[a].code = mailed'[a]
                      \/ account[a].code = 0 /\ spends[mailed'[a]] > 0
    <3>1. TurnsOK
      BY DEF AccountsInv
    <3>2. QED
      BY <3>1, <1>8, <1>9 DEF TurnsOK, TurnOK
  <2>1. CASE mailed'[a] # mailed[a]
    BY <2>1, <1>4, <1>9
  <2>2. CASE mailed'[a] = mailed[a]
    <3>1. \/ \E i \in Clerks : kjob[i].op = "issue" /\ Subject(a) \in kjob[i].about
          \/ account[a].code = mailed[a]
          \/ account[a].code = 0 /\ spends[mailed[a]] > 0
      BY <2>2 DEF AccountsInv, TurnsOK, TurnOK
    <3>2. CASE \E i \in Clerks : kjob[i].op = "issue" /\ Subject(a) \in kjob[i].about
      BY <3>2, <1>2, <1>6
    <3>3. QED
      BY <2>2, <3>1, <3>2
  <2>3. QED
    BY <2>1, <2>2
<1>19. QED
  BY <1>10, <1>11, <1>12, <1>15, <1>16, <1>17, <1>18 DEF AccountsInv

\* How many codes there can be still.
LEMMA CodesLeft ==
    ASSUME AccountsInv, inUse \in Mixes, NEW n \in {0, 1}, issued + n <= inUse.rows
    PROVE  issued \in Nat /\ issued + n \in Codes /\ MaxRows \in Nat
<1>1. issued \in 0 .. MaxRows /\ MaxRows \in Nat /\ inUse.rows \in 0 .. MaxRows
  BY AccountsFacts, PartiesAssumption
<1>2. QED
  BY <1>1 DEF Codes

LEMMA MailedFacts ==
    ASSUME AccountsInv
    PROVE  /\ mailed \in Seq(Codes)
           /\ \A a \in DOMAIN account, c \in Codes :
                 LET new == [mailed EXCEPT ![a] = c] IN
                 /\ new \in Seq(Codes) /\ Len(new) = Len(mailed)
                 /\ new[a] = c
                 /\ \A b \in DOMAIN account : b # a => new[b] = mailed[b]
<1>1. mailed \in Seq(Codes) /\ Len(mailed) \in Nat
  BY TableDomain DEF AccountsInv, AccountsTypeOK
<1>2. DOMAIN mailed = DOMAIN account /\ DOMAIN mailed = 1 .. Len(mailed)
  BY <1>1, AccountsFacts, TableDomain
<1>3. ASSUME NEW a \in DOMAIN account, NEW c \in Codes
      PROVE  LET new == [mailed EXCEPT ![a] = c] IN
             /\ new \in Seq(Codes) /\ Len(new) = Len(mailed)
             /\ new[a] = c
             /\ \A b \in DOMAIN account : b # a => new[b] = mailed[b]
  <2> DEFINE new == [mailed EXCEPT ![a] = c]
  <2>1. new \in [1 .. Len(mailed) -> Codes]
    BY <1>1, <1>2, TableDomain
  <2>2. new \in Seq(Codes) /\ Len(new) = Len(mailed)
    BY <2>1, <1>1, TableOf
  <2>3. QED
    BY <2>2, <1>2
<1>4. QED
  BY <1>1, <1>3

LEMMA OpenLoadKeeps ==
    ASSUME AccountsInv, inUse \in Mixes, NEW k \in Clerks, NEW op \in OpenOps,
           NEW t \in Tables, NEW e \in Emails, NEW n \in {0, 1}, OpenLoad(k, op, t, e, n)
    PROVE  AccountsInv'
<1> DEFINE j == [IdleKJob EXCEPT !.op = op, !.table = t, !.emails = {e},
                     !.code = n * (issued + 1), !.about = {<<t, e>>}]
<1>1. KStart(k, j, n) /\ UNCHANGED <<account, live, mailed, spends, again, jumbled>>
  BY DEF OpenLoad, KDatabase
<1>2. issued + n <= inUse.rows
  BY <1>1 DEF KStart
<1>3. issued \in Nat /\ issued + n \in Codes
  BY <1>2, CodesLeft
<1>4. /\ n * (issued + 1) \in Codes
      /\ n * (issued + 1) # 0 => (n = 1 /\ n * (issued + 1) = issued + 1)
  <2>1. CASE n = 0
    BY <2>1, PartiesAssumption, <1>3 DEF Codes
  <2>2. CASE n = 1
    BY <2>2, <1>3
  <2>3. QED
    BY <2>1, <2>2
<1>5. /\ j \in KJob /\ j.op = op /\ j.table = t /\ j.emails = {e} /\ j.about = {<<t, e>>}
      /\ j.code = n * (issued + 1) /\ j.row = {}
  <2>1. PICK code \in Codes : code = n * (issued + 1)
    BY <1>4
  <2>2. j = [IdleKJob EXCEPT !.op = op, !.table = t, !.emails = {e},
                !.code = code, !.about = {<<t, e>>}]
    BY <2>1
  <2> HIDE DEF j
  <2>3. {<<t, e>>} \in SUBSET (Tables \X Emails) /\ {e} \in SUBSET Emails
    OBVIOUS
  <2>4. QED
    BY <2>1, <2>2, <2>3, IdleKJobType DEF KJob, OpenOps
<1> HIDE DEF j
<1>6. PICK i \in KJob : i = j
  BY <1>5
<1>7. /\ KStart(k, i, n) /\ i.op = op /\ i.table = t /\ i.emails = {e} /\ i.about = {<<t, e>>}
      /\ i.row = {} /\ (i.code # 0 => n = 1 /\ i.code = issued + 1)
  BY <1>1, <1>4, <1>5, <1>6
<1>8. KMayStart(i, n)
  <2>1. KSound(i)
    BY <1>7 DEF KSound, OpenOps, SpendOps, SaveOps
  <2>2. QED
    BY <1>7, <2>1 DEF KMayStart, Brings, OpenOps, SpendOps, SaveOps
<1>9. \A a \in live : account[a].table = t => account[a].email # e
  BY DEF OpenLoad, Free, With
<1>10. KTurn(i)'
  BY <1>1, <1>7, <1>9 DEF KTurn, Concerned, Subject, OpenOps, SpendOps, SaveOps
<1>11. QED
  BY <1>1, <1>7, <1>8, <1>10, KStartKeeps, MailedFacts

LEMMA CreateManyUsersKeeps ==
    ASSUME AccountsInv, inUse \in Mixes, NEW k \in Clerks, NEW set \in SUBSET Emails,
           CreateManyUsers(k, set)
    PROVE  AccountsInv'
<1> DEFINE valid == {e \in set : Free("User", e)}
           j == [IdleKJob EXCEPT !.op = "many", !.table = "User", !.emails = valid,
                     !.about = {"User"} \X valid]
<1>1. KStart(k, j, 0) /\ UNCHANGED <<account, live, mailed, spends, again, jumbled>>
  BY DEF CreateManyUsers, KDatabase
<1>2. /\ j \in KJob /\ j.op = "many" /\ j.table = "User" /\ j.emails = valid
      /\ j.about = {"User"} \X valid /\ j.row = {} /\ j.code = 0
  BY PartiesAssumption, IdleKJobType DEF KJob, Codes, Tables
<1>3. \A a \in live : account[a].table = "User" => account[a].email \notin valid
  BY DEF Free, With
<1>4. valid \subseteq Emails
  OBVIOUS
<1> HIDE DEF j, valid
<1>5. PICK i \in KJob : i = j
  BY <1>2
<1>6. PICK free \in SUBSET Emails : free = valid
  BY <1>4
<1>7. /\ KStart(k, i, 0) /\ i.op = "many" /\ i.table = "User" /\ i.emails = free
      /\ i.about = {"User"} \X free /\ i.row = {} /\ i.code = 0
  BY <1>1, <1>2, <1>5, <1>6
<1>8. KMayStart(i, 0)
  <2>1. KSound(i)
    BY <1>7 DEF KSound, OpenOps, SpendOps, SaveOps
  <2>2. QED
    BY <1>7, <2>1 DEF KMayStart, Brings, OpenOps, SpendOps, SaveOps
<1>9. KTurn(i)'
  <2>1. \A a \in live : Subject(a) \in i.about => account[a].email \notin i.emails
    BY <1>3, <1>6, <1>7 DEF Subject
  <2>2. QED
    BY <1>1, <1>7, <2>1 DEF KTurn, Concerned, Subject, OpenOps, SpendOps, SaveOps
<1>10. QED
  BY <1>1, <1>7, <1>8, <1>9, KStartKeeps, MailedFacts

\* The three handlers that issue a code for account a, and mail it or not.
LEMMA IssueLoadKeeps ==
    ASSUME AccountsInv, inUse \in Mixes, NEW k \in Clerks, NEW a \in live, IssueLoad(k, a),
           UNCHANGED <<account, live, spends, again, jumbled>>,
           \/ mailed' = [mailed EXCEPT ![a] = issued + 1]
           \/ mailed' = mailed /\ account[a].table = "User"
    PROVE  AccountsInv'
<1> DEFINE j == [IdleKJob EXCEPT !.op = "issue", !.table = account[a].table,
                     !.code = issued + 1, !.emails = {account[a].email},
                     !.about = {Subject(a)}]
<1>1. KStart(k, j, 1)
  BY DEF IssueLoad
<1>2. issued + 1 <= inUse.rows
  BY <1>1 DEF KStart
<1>3. issued \in Nat /\ issued + 1 \in Codes /\ issued + 1 # 0
  BY <1>2, CodesLeft
<1>4. /\ a \in DOMAIN account /\ account[a].table \in Tables /\ account[a].email \in Emails
      /\ Subject(a) = <<account[a].table, account[a].email>>
  BY AccountsFacts
<1>5. /\ j \in KJob /\ j.op = "issue" /\ j.table = account[a].table
      /\ j.emails = {account[a].email} /\ j.about = {Subject(a)}
      /\ j.code = issued + 1 /\ j.row = {}
  <2>1. {Subject(a)} \in SUBSET (Tables \X Emails) /\ {account[a].email} \in SUBSET Emails
    BY <1>4
  <2>2. QED
    BY <1>3, <1>4, <2>1, IdleKJobType DEF KJob
<1> HIDE DEF j
<1>6. PICK i \in KJob : i = j
  BY <1>5
<1>7. /\ KStart(k, i, 1) /\ i.op = "issue" /\ i.table = account[a].table
      /\ i.emails = {account[a].email} /\ i.about = {Subject(a)}
      /\ i.code = issued + 1 /\ i.row = {}
  BY <1>1, <1>5, <1>6
<1>8. KMayStart(i, 1)
  <2>1. KSound(i)
    BY <1>3, <1>4, <1>7 DEF KSound, OpenOps, SpendOps, SaveOps
  <2>2. QED
    BY <1>7, <2>1 DEF KMayStart, Brings, OpenOps, SpendOps, SaveOps
<1>9. /\ mailed' \in Seq(Codes) /\ Len(mailed') = Len(mailed)
      /\ \A b \in DOMAIN account : b # a => mailed'[b] = mailed[b]
      /\ account[a].table = "Customer" => mailed'[a] = issued + 1
  <2>1. CASE mailed' = mailed /\ account[a].table = "User"
    BY <2>1, MailedFacts
  <2>2. CASE mailed' = [mailed EXCEPT ![a] = issued + 1]
    BY <2>2, <1>3, <1>4, MailedFacts
  <2>3. QED
    BY <2>1, <2>2
<1>10. KTurn(i)'
  <2>1. ASSUME NEW b \in live, Subject(b) \in i.about \ jumbled PROVE b = a
    BY <2>1, <1>7 DEF AccountsInv, TurnsOK, TurnOK
  <2>2. ASSUME i.table = "Customer" PROVE mailed'[a] = i.code
    BY <2>2, <1>7, <1>9
  <2>3. ASSUME NEW b \in Concerned(i)' PROVE b = a
    BY <2>1, <2>3 DEF Concerned, Subject
  <2>4. QED
    BY <2>2, <2>3, <1>7 DEF KTurn, OpenOps, SpendOps, SaveOps
<1>11. \A b \in DOMAIN account :
          mailed'[b] = mailed[b] \/ (i.op = "issue" /\ Subject(b) \in i.about)
  BY <1>7, <1>9
<1>12. QED
  BY <1>7, <1>8, <1>9, <1>10, <1>11, KStartKeeps

LEMMA SpendLoadKeeps ==
    ASSUME AccountsInv, inUse \in Mixes, NEW k \in Clerks, NEW op \in SpendOps,
           NEW a \in live, account[a].code # 0,
           op = "change" => account[a].table = "Customer",
           SpendLoad(k, op, a)
    PROVE  AccountsInv'
<1> DEFINE j == [IdleKJob EXCEPT !.op = op, !.table = account[a].table, !.id = a,
                     !.code = account[a].code, !.emails = {account[a].email},
                     !.about = {Subject(a)}]
<1>1. KStart(k, j, 0) /\ UNCHANGED <<account, live, mailed, spends, again, jumbled>>
  BY DEF SpendLoad, KDatabase
<1>2. /\ a \in DOMAIN account /\ account[a].table \in Tables /\ account[a].email \in Emails
      /\ a \in Rows /\ account[a].code \in Codes
      /\ Subject(a) = <<account[a].table, account[a].email>>
  BY AccountsFacts
<1>3. /\ j \in KJob /\ j.op = op /\ j.table = account[a].table /\ j.id = a
      /\ j.emails = {account[a].email} /\ j.about = {Subject(a)}
      /\ j.code = account[a].code /\ j.row = {}
  <2>1. {Subject(a)} \in SUBSET (Tables \X Emails) /\ {account[a].email} \in SUBSET Emails
    BY <1>2
  <2>2. a \in 0 .. MaxRows
    BY <1>2, PartiesAssumption DEF Rows
  <2>3. QED
    BY <1>2, <2>1, <2>2, IdleKJobType DEF KJob, SpendOps
<1> HIDE DEF j
<1>4. PICK i \in KJob : i = j
  BY <1>3
<1>5. /\ KStart(k, i, 0) /\ i.op = op /\ i.table = account[a].table /\ i.id = a
      /\ i.emails = {account[a].email} /\ i.about = {Subject(a)}
      /\ i.code = account[a].code /\ i.row = {}
  BY <1>1, <1>3, <1>4
<1>6. KMayStart(i, 0)
  <2>1. KSound(i)
    BY <1>2, <1>5 DEF KSound, OpenOps, SpendOps, SaveOps
  <2>2. QED
    BY <1>5, <2>1 DEF KMayStart, Brings, OpenOps, SpendOps, SaveOps
<1>7. ASSUME \A m \in Clerks : kjob[m].about \cap i.about = {}
      PROVE  KTurn(i)'
  <2>1. ASSUME NEW b \in live, Subject(b) \in i.about \ jumbled PROVE b = a
    BY <2>1, <1>5 DEF AccountsInv, TurnsOK, TurnOK
  <2>2. ASSUME account[a].table = "Customer", Subject(a) \notin jumbled
        PROVE  mailed[a] \in {0, account[a].code}
    BY <2>2, <1>5, <1>7 DEF AccountsInv, TurnsOK, TurnOK
  <2>3. ASSUME NEW b \in Concerned(i)' PROVE b = a /\ Subject(a) \notin jumbled
    BY <2>1, <2>3, <1>1 DEF Concerned, Subject
  <2>4. QED
    BY <2>2, <2>3, <1>1, <1>5 DEF KTurn, OpenOps, SpendOps, SaveOps
<1>8. QED
  BY <1>1, <1>5, <1>6, <1>7, KStartKeeps, MailedFacts

LEMMA UserLoadKeeps ==
    ASSUME AccountsInv, inUse \in Mixes, NEW k \in Clerks, NEW op \in SaveOps, NEW a \in live,
           NEW row \in Account, NEW code \in Codes, NEW n \in {0, 1},
           row.table = account[a].table,
           op = "forgot" => n = 1 /\ row.code = issued + 1 /\ code = 0,
           op = "save" => /\ row.code \in {0, account[a].code} /\ code \in {0, account[a].code}
                          /\ code # 0 => row.code = 0,
           UserLoad(k, op, a, row, code, n)
    PROVE  AccountsInv'
<1> DEFINE j == [IdleKJob EXCEPT !.op = op, !.table = "User", !.id = a, !.row = {row},
                     !.code = code, !.about = {Subject(a), <<"User", row.email>>}]
<1>1. /\ KStart(k, j, n) /\ UNCHANGED <<account, live, mailed, spends, again, jumbled>>
      /\ account[a].table = "User"
  BY DEF UserLoad, KDatabase
<1>2. issued + n <= inUse.rows
  BY <1>1 DEF KStart
<1>3. issued \in Nat
  BY <1>2, CodesLeft
<1>4. /\ a \in DOMAIN account /\ account[a].email \in Emails
      /\ a \in Rows /\ account[a].code \in Codes
      /\ Subject(a) = <<"User", account[a].email>>
      /\ row.email \in Emails /\ row.table = "User"
  BY <1>1, AccountsFacts DEF Account
<1>5. /\ j \in KJob /\ j.op = op /\ j.table = "User" /\ j.id = a /\ j.row = {row}
      /\ j.about = {Subject(a), <<"User", row.email>>} /\ j.code = code
  <2>1. {Subject(a), <<"User", row.email>>} \in SUBSET (Tables \X Emails)
    BY <1>4 DEF Tables
  <2>2. a \in 0 .. MaxRows /\ "User" \in Tables /\ {row} \in SUBSET Account
    BY <1>4, PartiesAssumption DEF Rows, Tables
  <2>3. QED
    BY <2>1, <2>2, IdleKJobType DEF KJob, SaveOps
<1> HIDE DEF j
<1>6. PICK i \in KJob : i = j
  BY <1>5
<1>7. /\ KStart(k, i, n) /\ i.op = op /\ i.table = "User" /\ i.id = a /\ i.row = {row}
      /\ i.about = {Subject(a), <<"User", row.email>>} /\ i.code = code
  BY <1>1, <1>5, <1>6
<1>8. KSound(i)
  BY <1>1, <1>3, <1>4, <1>7 DEF KSound, OpenOps, SpendOps, SaveOps
<1>9. KMayStart(i, n)
  <2>1. \A c \in Codes \ {0} : Brings(i, c) => n = 1 /\ c = issued + 1
    BY <1>7 DEF Brings, OpenOps, SaveOps
  <2>2. \A c \in Codes \ {0} : i.op \in SpendOps \cup {"save"} /\ i.code = c =>
            \E b \in live : account[b].code = c /\ i.id = b
    BY <1>7 DEF SpendOps, SaveOps
  <2>3. \A r \in i.row : i.op = "save" /\ r.code # 0 =>
            \E b \in live : account[b].table = "User" /\ account[b].code = r.code
    BY <1>1, <1>7 DEF SaveOps
  <2>4. QED
    BY <2>1, <2>2, <2>3, <1>7, <1>8 DEF KMayStart, SaveOps
<1>10. KTurn(i)'
  <2>1. ASSUME NEW b \in live, Subject(b) \notin jumbled, Subject(b) = Subject(a) PROVE b = a
    BY <2>1 DEF AccountsInv, TurnsOK, TurnOK
  <2>2. \A b \in live : Subject(b)' = Subject(b)
    BY <1>1 DEF Subject
  <2>3. Subject(i.id)' = Subject(a)
    BY <1>7, <2>2 DEF Subject
  <2>4. ASSUME NEW b \in Concerned(i)', Subject(b)' = Subject(i.id)' PROVE b = i.id
    <3>1. b \in live /\ Subject(b)' \notin jumbled
      BY <1>1 DEF Concerned
    <3>2. QED
      BY <3>1, <2>1, <2>2, <2>3, <2>4, <1>7
  <2>5. QED
    BY <2>3, <2>4, <1>7 DEF KTurn, OpenOps, SpendOps, SaveOps
<1>11. QED
  BY <1>1, <1>7, <1>9, <1>10, KStartKeeps, MailedFacts

---------------------------------------------------------------------------
(* Accounts: requests that end *)

LEMMA KIdleOK ==
    ASSUME NEW k \in Clerks, kjob'[k] = IdleKJob
    PROVE  KJobOK(k)' /\ (\A i \in Clerks : kjob'[i] \in KJob => KAloneOK(k)')
<1>1. /\ kjob'[k].op = "none" /\ kjob'[k].phase = "idle" /\ kjob'[k].about = {}
  BY IdleKJobType
<1>2. KSound(kjob[k])'
  BY <1>1 DEF KSound, OpenOps, SpendOps, SaveOps
<1>3. KTurn(kjob[k])'
  BY <1>1 DEF KTurn, OpenOps, SpendOps, SaveOps
<1>4. QED
  BY <1>1, <1>2, <1>3 DEF KJobOK, KAloneOK

\* The requests after one of them has ended.
LEMMA KEndJobs ==
    ASSUME AccountsInv, NEW k \in Clerks, KDone(k), KGrow, KQuiet(kjob[k].about)
    PROVE  /\ kjob' \in [Clerks -> KJob]
           /\ kjob'[k] = IdleKJob
           /\ \A i \in Clerks \ {k} : kjob'[i] = kjob[i]
           /\ \A i \in Clerks : KJobOK(i)' /\ KAloneOK(i)'
<1>1. /\ kjob' \in [Clerks -> KJob] /\ kjob'[k] = IdleKJob
      /\ \A i \in Clerks \ {k} : kjob'[i] = kjob[i]
  BY IdleKJobType DEF KDone, AccountsInv, AccountsTypeOK
<1>2. \A i \in Clerks : kjob'[i].about \subseteq kjob[i].about
  BY <1>1, IdleKJobType
<1>3. ASSUME NEW i \in Clerks \ {k}
      PROVE  KJobOK(i)' /\ KAloneOK(i)'
  <2>1. PICK B : B = kjob[k].about
    OBVIOUS
  <2>2. kjob[i].alone => kjob[i].about \cap B = {}
    BY <2>1 DEF AccountsInv, KAloneOK
  <2>3. KQuiet(B)
    BY <2>1
  <2>4. KJobOK(i)'
    BY <1>1, KSoundFrame
  <2>5. KAloneOK(i)'
    BY <1>1, <1>2, <2>2, <2>3, KAloneFrame
  <2>6. QED
    BY <2>4, <2>5
<1>4. KJobOK(k)' /\ KAloneOK(k)'
  BY <1>1, KIdleOK
<1>5. QED
  BY <1>1, <1>3, <1>4

\* The accounts that are about other addresses than these, after a step.
LEMMA TurnFrame ==
    ASSUME AccountsInv, NEW B, KGrow, KQuiet(B),
           \A i \in Clerks :
              kjob'[i] = kjob[i] \/ kjob[i].op # "issue" \/ kjob[i].about \subseteq B \cup jumbled',
           \A c \in Codes : spends[c] > 0 => spends'[c] > 0,
           NEW a \in live', Subject(a)' \notin jumbled' \cup B,
           account[a].table = "Customer" /\ account[a].code # 0 =>
              account[a].code \in again \/ account[a].code \notin again'
    PROVE  TurnOK(a)'
<1>1. a \in live /\ account'[a] = account[a] /\ mailed'[a] = mailed[a]
  BY DEF KQuiet
<1>2. Subject(a)' = Subject(a) /\ Subject(a) \notin jumbled \cup B
  BY <1>1 DEF Subject, KGrow
<1>3. TurnOK(a)
  BY <1>1, <1>2 DEF AccountsInv, TurnsOK
<1>4. ASSUME NEW b \in live', Subject(b)' = Subject(a)'
      PROVE  b = a
  <2>1. b \in live /\ account'[b] = account[b]
    BY <1>4 DEF KQuiet
  <2>2. Subject(b)' = Subject(b)
    BY <2>1 DEF Subject
  <2>3. QED
    BY <1>2, <1>3, <1>4, <2>1, <2>2 DEF TurnOK
<1>5. ASSUME account'[a].table = "Customer"
      PROVE  /\ account'[a].code # 0 => account'[a].code \notin again'
             /\ mailed'[a] # 0 =>
                   \/ \E i \in Clerks : kjob'[i].op = "issue" /\ Subject(a) \in kjob'[i].about
                   \/ account'[a].code = mailed'[a]
                   \/ account'[a].code = 0 /\ spends'[mailed'[a]] > 0
  <2>1. mailed[a] \in Codes
    BY <1>1, AccountsFacts
  <2>2. ASSUME NEW i \in Clerks, kjob[i].op = "issue", Subject(a) \in kjob[i].about
        PROVE  kjob'[i] = kjob[i]
    BY <1>2, <2>2
  <2>3. QED
    BY <1>1, <1>3, <1>5, <2>1, <2>2 DEF TurnOK
<1>6. QED
  BY <1>2, <1>4, <1>5 DEF TurnOK

\* The codes that are on their way, after a step that stores code d or none.
LEMMA NewFrame ==
    ASSUME AccountsInv, NEW k \in Clerks, NEW d \in Codes,
           d # 0 => Brings(kjob[k], d), issued' = issued,
           \A i \in Clerks \ {k} : kjob'[i] = kjob[i],
           \A c \in Codes \ {0} : Brings(kjob[k], c)' => c # d /\ Brings(kjob[k], c),
           \A c \in Codes \ {0} : OnRecord(c)' => c = d \/ OnRecord(c),
           NEW c \in Codes \ {0}
    PROVE  NewOK(c)'
<1>1. NewOK(c)
  BY DEF AccountsInv
<1>2. d # 0 => d <= issued
  <2>1. d # 0 => NewOK(d)
    BY DEF AccountsInv
  <2>2. QED
    BY <2>1 DEF NewOK
<1>3. c > issued' => ~OnRecord(c)'
  <2>1. issued \in Nat /\ c \in Nat /\ d \in Nat
    BY AccountsFacts
  <2>2. QED
    BY <1>1, <1>2, <2>1 DEF NewOK
<1>4. \A i \in Clerks \ {k} : Brings(kjob[i], c)' <=> Brings(kjob[i], c)
  BY DEF Brings
<1>5. \A i \in Clerks : Brings(kjob[i], c)' => Brings(kjob[i], c) /\ c # d
  <2>1. ASSUME NEW i \in Clerks \ {k}, Brings(kjob[i], c)
        PROVE  c # d
    BY <1>1, <2>1 DEF NewOK
  <2>2. QED
    BY <1>4, <2>1
<1>6. ASSUME NEW i \in Clerks, Brings(kjob[i], c)'
      PROVE  /\ c <= issued' /\ ~OnRecord(c)'
             /\ \A m \in Clerks : Brings(kjob[m], c)' => m = i
  BY <1>1, <1>5, <1>6 DEF NewOK
<1>7. QED
  BY <1>3, <1>6 DEF NewOK

\* The requests that are about to spend a code, after k has ended or goes on.
LEMMA SpendersEnd ==
    ASSUME AccountsInv, NEW k \in Clerks,
           \A i \in Clerks \ {k} : kjob'[i] = kjob[i],
           kjob'[k].op \notin SpendOps \cup {"save"}, NEW c \in Codes
    PROVE  /\ Spenders(c)' = Spenders(c) \ {k}
           /\ \A i \in Spenders(c)' : kjob'[i] = kjob[i]
           /\ \A i \in Clerks : kjob'[i].op = "save" => i # k /\ kjob'[i] = kjob[i]
           /\ Cardinality(Spenders(c)) \in Nat /\ Cardinality(Spenders(c)') \in Nat
           /\ Cardinality(Spenders(c)') =
                 IF k \in Spenders(c) THEN Cardinality(Spenders(c)) - 1 ELSE Cardinality(Spenders(c))
           /\ Cardinality(Clerks) \in Nat
<1>1. Spenders(c)' \subseteq Spenders(c) \ {k} /\ Spenders(c) \ {k} \subseteq Spenders(c)'
  BY DEF Spenders
<1>2. Spenders(c)' = Spenders(c) \ {k}
  BY <1>1
<1>3. IsFiniteSet(Clerks) /\ Spenders(c) \subseteq Clerks
  BY PartiesAssumption DEF Spenders
<1>4. IsFiniteSet(Spenders(c))
  BY <1>3, FS_Subset
<1>5. Cardinality(Spenders(c)) \in Nat /\ Cardinality(Clerks) \in Nat
  BY <1>3, <1>4, FS_CardinalityType
<1>6. Cardinality(Spenders(c) \ {k}) =
         IF k \in Spenders(c) THEN Cardinality(Spenders(c)) - 1 ELSE Cardinality(Spenders(c))
  BY <1>4, FS_RemoveElement
<1>7. IsFiniteSet(Spenders(c) \ {k})
  BY <1>4, FS_RemoveElement
<1>8. Cardinality(Spenders(c) \ {k}) \in Nat
  BY <1>7, FS_CardinalityType
<1>9. /\ \A i \in Spenders(c)' : kjob'[i] = kjob[i]
      /\ \A i \in Clerks : kjob'[i].op = "save" => i # k /\ kjob'[i] = kjob[i]
  BY DEF Spenders
<1>10. QED
  BY <1>2, <1>5, <1>6, <1>8, <1>9

\* The step stores code d, or none, and changes no other code of a row.
LEMMA StoredFrame ==
    ASSUME AccountsInv, NEW k \in Clerks, NEW d \in Codes,
           UNCHANGED spends,
           \A i \in Clerks \ {k} : kjob'[i] = kjob[i],
           kjob'[k].op \notin SpendOps \cup {"save"},
           DOMAIN account \subseteq DOMAIN account',
           \A c \in again' : c = d \/ c \in again,
           \A a \in DOMAIN account' : account'[a].code \in {0, d} \/
              (a \in DOMAIN account /\ account'[a].code = account[a].code),
           NEW c \in Codes \ {0}, OnRecord(c)'
    PROVE  c = d \/ OnRecord(c)
<1>1. /\ Spenders(c)' \subseteq Spenders(c)
      /\ \A i \in Clerks : kjob'[i].op = "save" => kjob'[i] = kjob[i]
  BY SpendersEnd
<1>2. QED
  BY <1>1 DEF OnRecord

LEMMA RemoveAccountKeeps ==
    ASSUME AccountsInv, NEW a, NEW t, RemoveAccount(a, t)
    PROVE  AccountsInv'
<1>1. /\ live' = live \ {a}
      /\ UNCHANGED <<account, issued, kjob, mailed, spends, again, jumbled>>
  BY DEF RemoveAccount
<1>2. \A b \in live : b \in DOMAIN account /\ Subject(b)' = Subject(b)
  BY <1>1, AccountsFacts DEF Subject
<1>3. KGrow /\ KQuiet({})
  BY <1>1, <1>2, AccountsFacts DEF KGrow, KQuiet, Subject
<1>4. AccountsTypeOK'
  BY <1>1 DEF AccountsInv, AccountsTypeOK
<1>5. \A i \in Clerks : KJobOK(i)' /\ KAloneOK(i)'
  BY <1>1, <1>3, KSoundFrame, KAloneFrame
<1>6. \A c \in Codes \ {0} : NewOK(c)'
  BY <1>1 DEF AccountsInv, NewOK, Brings, OnRecord, Spenders
<1>7. \A c \in Codes \ ({0} \cup again) : SpendingOK(c)'
  BY <1>1 DEF AccountsInv, SpendingOK, Spenders
<1>8. CodesApart'
  BY <1>1 DEF AccountsInv, CodesApart
<1>9. TurnsOK'
  BY <1>1, <1>2 DEF AccountsInv, TurnsOK, TurnOK
<1>10. QED
  BY <1>1, <1>4, <1>5, <1>6, <1>7, <1>8, <1>9 DEF AccountsInv

LEMMA UpdateCustomerKeeps ==
    ASSUME AccountsInv, NEW a, NEW e \in Emails, UpdateCustomer(a, e)
    PROVE  AccountsInv'
<1>1. /\ a \in live /\ account[a].table = "Customer"
      /\ account' = [account EXCEPT ![a].email = e]
      /\ jumbled' = jumbled \cup {Subject(a), <<"Customer", e>>}
      /\ UNCHANGED <<live, issued, kjob, mailed, spends, again>>
  BY DEF UpdateCustomer
<1>2. a \in DOMAIN account /\ \A b \in DOMAIN account : account[b] \in Account
  BY <1>1, AccountsFacts
<1>3. /\ DOMAIN account' = DOMAIN account
      /\ account'[a] = [account[a] EXCEPT !.email = e] /\ account'[a] \in Account
      /\ \A b \in DOMAIN account \ {a} : account'[b] = account[b]
  BY <1>1, <1>2 DEF Account
<1>4. \A b \in DOMAIN account :
         /\ account'[b] \in Account /\ account'[b].table = account[b].table
         /\ account'[b].code = account[b].code
  BY <1>2, <1>3 DEF Account
<1>5. Subject(a)' = <<"Customer", e>> /\ \A b \in DOMAIN account \ {a} : Subject(b)' = Subject(b)
  BY <1>1, <1>2, <1>3 DEF Subject, Account
<1>6. KGrow /\ KQuiet({})
  BY <1>1, <1>3, <1>4, <1>5, AccountsFacts DEF KGrow, KQuiet
<1>7. AccountsTypeOK'
  <2>1. Len(account) \in Nat /\ account' \in [1 .. Len(account) -> Account]
    BY <1>1, <1>3, <1>4, AccountsFacts
  <2>2. account' \in Seq(Account) /\ Len(account') = Len(account)
    BY <2>1, TableOf
  <2>3. QED
    BY <2>2, <1>1, <1>3 DEF AccountsInv, AccountsTypeOK
<1>8. \A i \in Clerks : KJobOK(i)' /\ KAloneOK(i)'
  BY <1>1, <1>6, KSoundFrame, KAloneFrame
<1>9. \A c \in Codes \ {0} : OnRecord(c)' <=> OnRecord(c)
  BY <1>1, <1>3, <1>4 DEF OnRecord, Spenders
<1>10. \A c \in Codes \ {0} : NewOK(c)'
  BY <1>1, <1>9 DEF AccountsInv, NewOK, Brings
<1>11. ASSUME NEW c \in Codes \ ({0} \cup again)
       PROVE  SpendingOK(c)'
  <2>1. SpendingOK(c)
    BY DEF AccountsInv
  <2>2. \A b \in live : account'[b].code = account[b].code
    BY <1>4, AccountsFacts
  <2>3. QED
    BY <2>1, <2>2, <1>1 DEF SpendingOK, Spenders
<1>12. CodesApart'
  BY <1>1, <1>3, <1>4 DEF AccountsInv, CodesApart
<1>13. ASSUME NEW b \in live', Subject(b)' \notin jumbled'
       PROVE  TurnOK(b)'
  BY <1>1, <1>6, <1>13, TurnFrame
<1>14. TurnsOK'
  BY <1>13 DEF TurnsOK
<1>15. QED
  BY <1>1, <1>7, <1>8, <1>10, <1>11, <1>12, <1>14 DEF AccountsInv

LEMMA KAbortKeeps ==
    ASSUME AccountsInv, NEW k \in Clerks, KAbort(k)
    PROVE  AccountsInv'
<1>1. /\ KDone(k) /\ jumbled \subseteq jumbled'
      /\ kjob[k].op = "issue" => kjob[k].about \subseteq jumbled'
      /\ UNCHANGED <<account, live, issued, mailed, spends, again>>
  BY DEF KAbort
<1>2. \A b \in DOMAIN account : Subject(b)' = Subject(b)
  BY <1>1 DEF Subject
<1>3. KGrow /\ KQuiet(kjob[k].about) /\ KQuiet({})
  BY <1>1, <1>2 DEF KGrow, KQuiet
<1>4. /\ kjob' \in [Clerks -> KJob]
      /\ kjob'[k] = IdleKJob
      /\ \A i \in Clerks \ {k} : kjob'[i] = kjob[i]
      /\ \A i \in Clerks : KJobOK(i)' /\ KAloneOK(i)'
  BY <1>1, <1>3, KEndJobs
<1>5. AccountsTypeOK'
  BY <1>1, <1>4 DEF AccountsInv, AccountsTypeOK
<1>6. kjob'[k].op = "none" /\ kjob'[k].row = {}
  BY <1>4, IdleKJobType
<1>7. ASSUME NEW c \in Codes
      PROVE  /\ Spenders(c)' \subseteq Spenders(c) /\ \A i \in Spenders(c)' : kjob'[i] = kjob[i]
             /\ Cardinality(Spenders(c)') \in Nat /\ Cardinality(Spenders(c)) \in Nat
             /\ Cardinality(Spenders(c)') <= Cardinality(Spenders(c))
             /\ Cardinality(Clerks) \in Nat
  <2>1. kjob'[k].op \notin SpendOps \cup {"save"}
    BY <1>6 DEF SpendOps
  <2>2. /\ Spenders(c)' = Spenders(c) \ {k}
        /\ \A i \in Spenders(c)' : kjob'[i] = kjob[i]
        /\ Cardinality(Spenders(c)) \in Nat /\ Cardinality(Spenders(c)') \in Nat
        /\ Cardinality(Spenders(c)') =
              IF k \in Spenders(c) THEN Cardinality(Spenders(c)) - 1 ELSE Cardinality(Spenders(c))
        /\ Cardinality(Clerks) \in Nat
    BY <1>4, <2>1, SpendersEnd
  <2>3. QED
    BY <2>2
<1>8. \A c \in Codes \ {0} : OnRecord(c)' => OnRecord(c)
  <2>1. \A i \in Clerks : kjob'[i].op = "save" => kjob'[i] = kjob[i]
    BY <1>4, <1>6
  <2>2. QED
    BY <1>1, <1>7, <2>1 DEF OnRecord
<1>9. ASSUME NEW c \in Codes \ {0} PROVE NewOK(c)'
  <2>1. NewOK(c)
    BY DEF AccountsInv
  <2>2. \A i \in Clerks : Brings(kjob[i], c)' => Brings(kjob[i], c)
    BY <1>4, <1>6 DEF Brings, OpenOps
  <2>3. QED
    BY <1>1, <1>8, <2>1, <2>2 DEF NewOK
<1>10. ASSUME NEW c \in Codes \ ({0} \cup again) PROVE SpendingOK(c)'
  <2>1. SpendingOK(c) /\ c \in Codes
    BY DEF AccountsInv
  <2>2. spends[c] \in Nat
    BY <2>1 DEF AccountsInv, AccountsTypeOK
  <2>3. spends[c] + Cardinality(Spenders(c)') <= Cardinality(Clerks)
    BY <2>1, <2>2, <1>7 DEF SpendingOK
  <2>4. QED
    BY <1>1, <1>7, <2>1, <2>3 DEF SpendingOK
<1>11. CodesApart'
  BY <1>1, <1>4, <1>6 DEF AccountsInv, CodesApart
<1>12. ASSUME NEW b \in live', Subject(b)' \notin jumbled'
       PROVE  TurnOK(b)'
  BY <1>1, <1>3, <1>4, <1>12, TurnFrame
<1>13. TurnsOK'
  BY <1>12 DEF TurnsOK
<1>14. QED
  BY <1>1, <1>5, <1>4, <1>9, <1>10, <1>11, <1>13 DEF AccountsInv

LEMMA ManyFindKeeps ==
    ASSUME AccountsInv, inUse \in Mixes, NEW k \in Clerks, NEW e \in Emails, ManyFind(k, e)
    PROVE  AccountsInv'
<1> DEFINE r == [table |-> "User", email |-> e, active |-> TRUE, code |-> issued + 1]
<1>1. /\ kjob[k].op = "many" /\ kjob[k].row = {} /\ e \in kjob[k].emails
      /\ issued + 1 <= inUse.rows /\ issued' = issued + 1
      /\ kjob' = [kjob EXCEPT ![k].row = {r}]
      /\ UNCHANGED <<account, live, mailed, spends, again, jumbled>>
  <2>1. issued \in Nat /\ inUse.rows \in Nat
    BY AccountsFacts, PartiesAssumption
  <2>2. QED
    BY <2>1 DEF ManyFind, KDatabase
<1>2. issued \in Nat /\ issued + 1 \in Codes /\ issued + 1 # 0
  BY <1>1, CodesLeft
<1>3. r \in Account /\ r.table = "User" /\ r.email = e /\ r.code = issued + 1
  BY <1>2 DEF Account, Tables
<1> HIDE DEF r
<1>4. \A i \in Clerks : kjob[i] \in KJob /\ KJobOK(i) /\ KAloneOK(i)
  BY AccountsFacts DEF AccountsInv
<1>5. /\ kjob'[k] \in KJob /\ kjob'[k].op = "many" /\ kjob'[k].row = {r}
      /\ kjob'[k].phase = kjob[k].phase /\ kjob'[k].table = kjob[k].table
      /\ kjob'[k].emails = kjob[k].emails /\ kjob'[k].about = kjob[k].about
      /\ kjob'[k].alone = kjob[k].alone
      /\ \A i \in Clerks \ {k} : kjob'[i] = kjob[i]
      /\ kjob' \in [Clerks -> KJob]
  <2>1. kjob \in [Clerks -> KJob] /\ kjob[k] \in KJob
    BY <1>4 DEF AccountsInv, AccountsTypeOK
  <2>2. QED
    BY <2>1, <1>1, <1>3 DEF KJob
<1>6. AccountsTypeOK'
  BY <1>1, <1>2, <1>5 DEF AccountsInv, AccountsTypeOK
<1>7. \A b \in DOMAIN account : Subject(b)' = Subject(b)
  BY <1>1 DEF Subject
<1>8. KGrow /\ KQuiet({})
  BY <1>1, <1>7 DEF KGrow, KQuiet
<1>9. ASSUME NEW i \in Clerks PROVE KJobOK(i)' /\ KAloneOK(i)'
  <2>1. CASE i # k
    BY <2>1, <1>5, <1>8, KSoundFrame, KAloneFrame
  <2>2. CASE i = k
    <3>1. KSound(kjob[k]) /\ (kjob[k].phase = "idle" <=> kjob[k].op = "none")
      BY <1>4 DEF KJobOK
    <3>2. /\ kjob'[k].table = "User" /\ {"User"} \X kjob'[k].emails \subseteq kjob'[k].about
          /\ kjob'[k].about \subseteq {"User"} \X Emails
      BY <3>1, <1>1, <1>5 DEF KSound
    <3>3. \E row \in Account : /\ kjob'[k].row = {row} /\ row.table = "User"
                               /\ row.email \in kjob'[k].emails
      BY <1>1, <1>3, <1>5
    <3>4. KSound(kjob[k])'
      BY <3>2, <3>3, <1>5 DEF KSound, OpenOps, SpendOps, SaveOps
    <3>5. KAloneOK(k)'
      <4>1. SUFFICES ASSUME kjob'[k].alone PROVE KAloneOK(k)'
        BY DEF KAloneOK
      <4>2. KTurn(kjob[k]) /\ \A m \in Clerks \ {k} : kjob[m].about \cap kjob[k].about = {}
        BY <4>1, <1>4, <1>5 DEF KAloneOK
      <4>3. Concerned(kjob[k])' = Concerned(kjob[k])
        BY <1>1, <1>5, <1>7, AccountsFacts DEF Concerned
      <4>4. KTurn(kjob[k])'
        BY <4>2, <4>3, <1>1, <1>5 DEF KTurn, OpenOps, SpendOps, SaveOps
      <4>5. \A m \in Clerks \ {k} : kjob'[m].about \cap kjob'[k].about = {}
        BY <4>2, <1>5
      <4>6. QED
        BY <4>4, <4>5 DEF KAloneOK
    <3>6. KJobOK(k)'
      BY <3>1, <3>4, <1>1, <1>5 DEF KJobOK
    <3>7. QED
      BY <2>2, <3>5, <3>6
  <2>3. QED
    BY <2>1, <2>2
<1>10. \A c \in Codes : Spenders(c)' = Spenders(c) /\ \A i \in Spenders(c) : kjob'[i] = kjob[i]
  <2>1. ASSUME NEW c \in Codes
        PROVE  /\ Spenders(c)' \subseteq Spenders(c) /\ Spenders(c) \subseteq Spenders(c)'
               /\ \A i \in Spenders(c) : kjob'[i] = kjob[i]
    BY <1>1, <1>5 DEF Spenders, SpendOps
  <2>2. QED
    BY <2>1
<1>11. \A c \in Codes : OnRecord(c)' => OnRecord(c)
  <2>1. \A i \in Clerks : kjob'[i].op = "save" => kjob'[i] = kjob[i]
    BY <1>5
  <2>2. QED
    BY <2>1, <1>1, <1>10 DEF OnRecord
<1>12. ASSUME NEW c \in Codes \ {0} PROVE NewOK(c)'
  <2>1. NewOK(c) /\ c \in Nat
    BY AccountsFacts DEF AccountsInv
  <2>2. Brings(kjob[k], c)' => c = issued + 1
    BY <1>3, <1>5 DEF Brings, OpenOps
  <2>3. \A i \in Clerks \ {k} : Brings(kjob[i], c)' => Brings(kjob[i], c)
    BY <1>5 DEF Brings
  <2>4. \A i \in Clerks \ {k} : Brings(kjob[i], c)' => c <= issued
    BY <2>1, <2>3 DEF NewOK
  <2>5. c > issued => ~OnRecord(c)'
    BY <2>1, <1>11 DEF NewOK
  <2>6. c > issued' => ~OnRecord(c)'
    BY <2>1, <2>5, <1>1, <1>2
  <2>7. ASSUME NEW i \in Clerks, Brings(kjob[i], c)'
        PROVE  /\ c <= issued' /\ ~OnRecord(c)'
               /\ \A m \in Clerks : Brings(kjob[m], c)' => m = i
    <3>1. CASE i = k
      <4>1. c = issued + 1
        BY <2>2, <2>7, <3>1
      <4>2. QED
        BY <3>1, <4>1, <2>4, <2>5, <1>1, <1>2
    <3>2. CASE i # k
      <4>1. Brings(kjob[i], c) /\ c <= issued
        BY <2>3, <2>4, <2>7, <3>2
      <4>2. ~OnRecord(c)' /\ c <= issued'
        BY <4>1, <2>1, <1>1, <1>2, <1>11 DEF NewOK
      <4>3. ASSUME NEW m \in Clerks, Brings(kjob[m], c)' PROVE m = i
        <5>1. m # k
          BY <4>1, <4>3, <2>1, <2>2, <1>2
        <5>2. QED
          BY <5>1, <4>1, <4>3, <2>1, <2>3 DEF NewOK
      <4>4. QED
        BY <4>2, <4>3
    <3>3. QED
      BY <3>1, <3>2
  <2>8. QED
    BY <2>6, <2>7 DEF NewOK
<1>13. ASSUME NEW c \in Codes \ ({0} \cup again) PROVE SpendingOK(c)'
  <2>1. SpendingOK(c)
    BY DEF AccountsInv
  <2>2. QED
    BY <2>1, <1>1, <1>10 DEF SpendingOK
<1>14. CodesApart'
  BY <1>1, <1>5 DEF AccountsInv, CodesApart
<1>15. ASSUME NEW b \in live', Subject(b)' \notin jumbled'
       PROVE  TurnOK(b)'
  BY <1>1, <1>5, <1>8, <1>15, TurnFrame
<1>16. TurnsOK'
  BY <1>15 DEF TurnsOK
<1>17. QED
  BY <1>1, <1>6, <1>9, <1>12, <1>13, <1>14, <1>16 DEF AccountsInv

---------------------------------------------------------------------------
(* Accounts: a row is inserted *)

LEMMA InsertRow ==
    ASSUME AccountsInv, NEW row \in Account, account' = Append(account, row),
           live' = live \cup {Len(account) + 1}, HasRoom(account), inUse \in Mixes,
           NEW m \in Codes, mailed' = Append(mailed, m), jumbled \subseteq jumbled'
    PROVE  LET n == Len(account) + 1 IN
           /\ n \notin DOMAIN account /\ n \in Nat /\ n <= MaxRows
           /\ account' \in Seq(Account) /\ Len(account') = n
           /\ mailed' \in Seq(Codes) /\ Len(mailed') = n
           /\ DOMAIN account' = DOMAIN account \cup {n} /\ live' \subseteq DOMAIN account'
           /\ account'[n] = row /\ mailed'[n] = m
           /\ \A a \in DOMAIN account :
                 account'[a] = account[a] /\ mailed'[a] = mailed[a] /\ Subject(a)' = Subject(a)
           /\ KGrow /\ KQuiet({<<row.table, row.email>>})
<1> DEFINE n == Len(account) + 1
<1>1. /\ account \in Seq(Account) /\ mailed \in Seq(Codes) /\ Len(mailed) = Len(account)
      /\ Len(account) \in Nat /\ live \subseteq DOMAIN account
      /\ DOMAIN account = 1 .. Len(account)
  BY AccountsFacts DEF AccountsInv, AccountsTypeOK
<1>2. /\ account' \in Seq(Account) /\ Len(account') = n /\ DOMAIN account' = 1 .. n
      /\ \A a \in 1 .. Len(account) : account'[a] = account[a]
      /\ account'[n] = row
  BY <1>1, AppendRow
<1>3. /\ mailed' \in Seq(Codes) /\ Len(mailed') = n
      /\ \A a \in 1 .. Len(account) : mailed'[a] = mailed[a]
      /\ mailed'[n] = m
  <2>1. /\ Append(mailed, m) \in Seq(Codes) /\ Len(Append(mailed, m)) = Len(mailed) + 1
        /\ \A a \in 1 .. Len(mailed) : Append(mailed, m)[a] = mailed[a]
        /\ Append(mailed, m)[Len(mailed) + 1] = m
    BY <1>1, AppendRow
  <2>2. QED
    BY <1>1, <2>1
<1>4. n \notin DOMAIN account /\ n \in Nat /\ n <= MaxRows
  <2>1. MaxRows \in Nat /\ inUse.rows \in 0 .. MaxRows /\ Len(account) < inUse.rows
    BY PartiesAssumption DEF HasRoom
  <2>2. QED
    BY <1>1, <2>1
<1>5. DOMAIN account' = DOMAIN account \cup {n}
  BY <1>1, <1>2
<1>6. \A a \in DOMAIN account :
         account'[a] = account[a] /\ mailed'[a] = mailed[a] /\ Subject(a)' = Subject(a)
  BY <1>1, <1>2, <1>3 DEF Subject
<1>7. PICK p : p = n
  OBVIOUS
<1>8. Subject(p)' = <<row.table, row.email>>
  BY <1>2, <1>7 DEF Subject
<1>9. KGrow
  BY <1>5, <1>6 DEF KGrow
<1>10. KQuiet({<<row.table, row.email>>})
  <2>1. ASSUME NEW a \in live'
        PROVE  \/ Subject(a)' = <<row.table, row.email>>
               \/ a \in live /\ account'[a] = account[a] /\ mailed'[a] = mailed[a]
    <3>1. a = p \/ a \in live
      BY <1>7
    <3>2. QED
      BY <3>1, <1>1, <1>6, <1>8
  <2>2. QED
    BY <2>1 DEF KQuiet
<1>11. QED
  BY <1>1, <1>2, <1>3, <1>4, <1>5, <1>6, <1>9, <1>10

LEMMA InsertCodes ==
    ASSUME AccountsInv, NEW k \in Clerks, NEW row \in Account, NEW n, n \notin DOMAIN account,
           DOMAIN account' = DOMAIN account \cup {n}, live' = live \cup {n},
           account'[n] = row, \A a \in DOMAIN account : account'[a] = account[a],
           UNCHANGED <<issued, spends, again>>,
           \A i \in Clerks \ {k} : kjob'[i] = kjob[i],
           kjob'[k].op \notin SpendOps \cup {"save"},
           row.code # 0 => Brings(kjob[k], row.code),
           \A c \in Codes \ {0} : Brings(kjob[k], c)' => c # row.code /\ Brings(kjob[k], c)
    PROVE  /\ \A c \in Codes \ {0} : NewOK(c)'
           /\ \A c \in Codes \ ({0} \cup again) : SpendingOK(c)'
           /\ CodesApart'
           /\ row.code # 0 => ~OnRecord(row.code)
<1>1. row.code \in Codes
  BY DEF Account
<1>2. PICK d \in Codes : d = row.code
  BY <1>1
<1>3. d # 0 => ~OnRecord(d)
  BY <1>2 DEF AccountsInv, NewOK
<1>4. \A c \in Codes \ {0} : OnRecord(c)' => c = d \/ OnRecord(c)
  <2>1. \A a \in DOMAIN account' : account'[a].code \in {0, d} \/
           (a \in DOMAIN account /\ account'[a].code = account[a].code)
    BY <1>2
  <2>2. QED
    BY <2>1, StoredFrame
<1>5. \A c \in Codes \ {0} : NewOK(c)'
  BY <1>2, <1>4, NewFrame
<1>6. live \subseteq DOMAIN account
  BY AccountsFacts
<1>7. ASSUME NEW c \in Codes \ ({0} \cup again)
      PROVE  SpendingOK(c)'
  <2>1. SpendingOK(c) /\ c \in Codes
    BY DEF AccountsInv
  <2>2. spends[c] \in Nat
    BY <2>1 DEF AccountsInv, AccountsTypeOK
  <2>3. /\ Spenders(c)' = Spenders(c) \ {k}
        /\ \A i \in Spenders(c)' : kjob'[i] = kjob[i]
        /\ Cardinality(Spenders(c)) \in Nat /\ Cardinality(Spenders(c)') \in Nat
        /\ Cardinality(Spenders(c)') =
              IF k \in Spenders(c) THEN Cardinality(Spenders(c)) - 1 ELSE Cardinality(Spenders(c))
        /\ Cardinality(Clerks) \in Nat
    BY <2>1, SpendersEnd
  <2>4. spends'[c] + Cardinality(Spenders(c)') <= Cardinality(Clerks)
    BY <2>1, <2>2, <2>3 DEF SpendingOK
  <2>5. ASSUME NEW a \in live', account'[a].code = c
        PROVE  /\ spends'[c] = 0
               /\ \A b \in live' : account'[b].code = c => b = a
               /\ \A i \in Spenders(c)' : kjob'[i].id = a
    <3>1. CASE c = d
      <4>1. ~OnRecord(c)
        BY <3>1, <1>3
      <4>2. Spenders(c) = {} /\ ~(spends[c] > 0)
        BY <4>1 DEF OnRecord
      <4>3. \A b \in live' : account'[b].code = c => b = n
        BY <4>1, <1>6 DEF OnRecord
      <4>4. QED
        BY <4>2, <4>3, <2>2, <2>3, <2>5
    <3>2. CASE c # d
      <4>1. \A b \in live' : account'[b].code = c => b \in live /\ account[b].code = c
        BY <3>2, <1>2, <1>6
      <4>2. QED
        BY <4>1, <2>1, <2>3, <2>5 DEF SpendingOK
    <3>3. QED
      BY <3>1, <3>2
  <2>6. QED
    BY <2>4, <2>5 DEF SpendingOK
<1>8. CodesApart'
  <2> SUFFICES ASSUME NEW a \in DOMAIN account', account'[a].table = "Customer",
                      account'[a].code # 0
               PROVE  /\ \A b \in DOMAIN account' : account'[b].table = "User" =>
                            account'[b].code # account'[a].code
                      /\ \A i \in Clerks : kjob'[i].op = "save" =>
                            \A r \in kjob'[i].row : r.code # account'[a].code
    BY DEF CodesApart
  <2>1. CodesApart
    BY DEF AccountsInv
  <2>2. \A i \in Clerks : kjob'[i].op = "save" => kjob'[i] = kjob[i]
    BY DEF SpendOps
  <2>3. CASE a = n
    <3>1. account'[a].code = d /\ ~OnRecord(d)
      BY <2>3, <1>2, <1>3
    <3>2. QED
      BY <2>2, <2>3, <3>1 DEF OnRecord
  <2>4. CASE a # n
    <3>1. a \in DOMAIN account /\ account'[a] = account[a]
      BY <2>4
    <3>2. account[a].code # d
      BY <3>1, <1>2, <1>3 DEF OnRecord
    <3>3. QED
      BY <3>1, <3>2, <1>2, <2>1, <2>2 DEF CodesApart
  <2>5. QED
    BY <2>3, <2>4
<1>9. QED
  BY <1>2, <1>3, <1>5, <1>7, <1>8

LEMMA OpenSaveKeeps ==
    ASSUME AccountsInv, inUse \in Mixes, NEW k \in Clerks, OpenSave(k)
    PROVE  AccountsInv'
<1>1. /\ kjob[k] \in KJob /\ KSound(kjob[k]) /\ kjob[k].op \in OpenOps /\ kjob[k].code \in Codes
      /\ kjob[k].table \in Tables
  BY AccountsFacts DEF AccountsInv, KJobOK, OpenSave, OpenOps, KJob
<1>2. PICK e \in Emails : kjob[k].emails = {e} /\ kjob[k].about = {<<kjob[k].table, e>>}
  BY <1>1 DEF KSound
<1>3. PICK row : row = [table |-> kjob[k].table, email |-> e,
                        active |-> kjob[k].op = "create", code |-> kjob[k].code]
  OBVIOUS
<1>4. row \in Account /\ row.table = kjob[k].table /\ row.email = e /\ row.code = kjob[k].code
  BY <1>1, <1>3 DEF Account
<1>5. PICK m \in Codes : m = IF kjob[k].op = "register" THEN kjob[k].code ELSE 0
  BY <1>1, PartiesAssumption DEF Codes
<1>6. /\ account' = Append(account, row) /\ live' = live \cup {Len(account) + 1}
      /\ HasRoom(account) /\ mailed' = Append(mailed, m)
      /\ jumbled' = IF kjob[k].alone THEN jumbled ELSE jumbled \cup kjob[k].about
      /\ KDone(k) /\ UNCHANGED <<issued, spends, again>>
  BY <1>2, <1>3, <1>5 DEF OpenSave, Jumble
<1>7. PICK n : n = Len(account) + 1
  OBVIOUS
<1>8. /\ n \notin DOMAIN account /\ n \in Nat /\ n <= MaxRows
      /\ account' \in Seq(Account) /\ Len(account') = n
      /\ mailed' \in Seq(Codes) /\ Len(mailed') = n
      /\ DOMAIN account' = DOMAIN account \cup {n} /\ live' \subseteq DOMAIN account'
      /\ account'[n] = row /\ mailed'[n] = m
      /\ \A a \in DOMAIN account :
            account'[a] = account[a] /\ mailed'[a] = mailed[a] /\ Subject(a)' = Subject(a)
      /\ KGrow /\ KQuiet({<<row.table, row.email>>})
  BY <1>4, <1>6, <1>7, InsertRow
<1>9. /\ KQuiet(kjob[k].about) /\ kjob[k].about = {<<row.table, row.email>>}
      /\ live' = live \cup {n}
  BY <1>2, <1>4, <1>6, <1>7, <1>8
<1>10. Subject(n)' = <<row.table, row.email>>
  BY <1>8 DEF Subject
<1>11. /\ kjob' \in [Clerks -> KJob] /\ kjob'[k] = IdleKJob
       /\ \A i \in Clerks \ {k} : kjob'[i] = kjob[i]
       /\ \A i \in Clerks : KJobOK(i)' /\ KAloneOK(i)'
  BY <1>6, <1>8, <1>9, KEndJobs
<1>12. AccountsTypeOK'
  BY <1>6, <1>8, <1>11 DEF AccountsInv, AccountsTypeOK
<1>13. kjob'[k].op = "none" /\ (row.code # 0 => Brings(kjob[k], row.code))
  BY <1>1, <1>4, <1>11, IdleKJobType DEF Brings
<1>14. /\ \A c \in Codes \ {0} : NewOK(c)'
       /\ \A c \in Codes \ ({0} \cup again) : SpendingOK(c)'
       /\ CodesApart'
       /\ row.code # 0 => ~OnRecord(row.code)
  <2>1. kjob'[k].op \notin SpendOps \cup {"save"} /\ \A c \in Codes : ~Brings(kjob[k], c)'
    BY <1>13 DEF SpendOps, OpenOps, Brings
  <2>2. QED
    BY <1>4, <1>6, <1>8, <1>9, <1>11, <1>13, <2>1, InsertCodes
<1>15. live \subseteq DOMAIN account
  BY AccountsFacts
<1>16. ASSUME NEW a \in live', Subject(a)' \notin jumbled'
       PROVE  TurnOK(a)'
  <2>1. PICK B : B = kjob[k].about
    OBVIOUS
  <2>2. CASE Subject(a)' \notin B
    <3>1. \A i \in Clerks : kjob'[i] = kjob[i] \/ kjob[i].op # "issue"
      BY <1>1, <1>11 DEF OpenOps
    <3>2. KQuiet(B) /\ again' = again /\ spends' = spends
      BY <1>6, <1>9, <2>1
    <3>3. QED
      BY <2>2, <3>1, <3>2, <1>8, <1>16, TurnFrame
  <2>3. CASE Subject(a)' \in B
    <3>1. kjob[k].alone /\ jumbled' = jumbled
      BY <1>6, <1>16, <2>1, <2>3
    <3>2. \A b \in Concerned(kjob[k]) : account[b].email # e
      BY <3>1, <1>1, <1>2 DEF AccountsInv, KAloneOK, KTurn
    <3>3. \A b \in live : Subject(b) # <<row.table, row.email>>
      <4>1. ASSUME NEW b \in live, Subject(b) = <<row.table, row.email>> PROVE FALSE
        <5>1. Subject(b) \in kjob[k].about \ jumbled
          BY <4>1, <1>9, <1>16, <2>1, <2>3, <3>1
        <5>2. QED
          BY <4>1, <5>1, <3>2, <1>4 DEF Concerned, Subject
      <4>2. QED
        BY <4>1
    <3>4. ASSUME NEW b \in live', Subject(b)' = <<row.table, row.email>> PROVE b = n
      BY <3>3, <3>4, <1>8, <1>9, <1>15
    <3>5. a = n
      BY <3>4, <2>1, <2>3, <1>9
    <3>6. account'[n].table = "Customer" /\ account'[n].code # 0 => account'[n].code \notin again'
      BY <1>6, <1>8, <1>14 DEF OnRecord
    <3>7. mailed'[n] # 0 => account'[n].code = mailed'[n]
      BY <1>4, <1>5, <1>8
    <3>8. QED
      BY <3>4, <3>5, <3>6, <3>7, <1>10 DEF TurnOK
  <2>4. QED
    BY <2>2, <2>3
<1>17. TurnsOK'
  BY <1>16 DEF TurnsOK
<1>18. QED
  BY <1>6, <1>11, <1>12, <1>14, <1>17 DEF AccountsInv

LEMMA ManyInsertKeeps ==
    ASSUME AccountsInv, inUse \in Mixes, NEW k \in Clerks, ManyInsert(k)
    PROVE  AccountsInv'
<1>1. /\ kjob[k] \in KJob /\ KSound(kjob[k]) /\ kjob[k].op = "many" /\ kjob[k].row # {}
  BY AccountsFacts DEF AccountsInv, KJobOK, ManyInsert
<1>2. PICK row \in Account : /\ kjob[k].row = {row} /\ row.table = "User"
                             /\ row.email \in kjob[k].emails
  BY <1>1 DEF KSound
<1>3. PICK left \in SUBSET Emails : left = kjob[k].emails \ {row.email}
  BY <1>1 DEF KJob
<1>4. /\ account' = Append(account, row) /\ live' = live \cup {Len(account) + 1}
      /\ HasRoom(account) /\ mailed' = Append(mailed, 0)
      /\ jumbled' = IF kjob[k].alone THEN jumbled ELSE jumbled \cup kjob[k].about
      /\ IF left = {} THEN KDone(k)
                      ELSE kjob' = [kjob EXCEPT ![k].row = {}, ![k].emails = left]
      /\ UNCHANGED <<issued, spends, again>>
  BY <1>2, <1>3 DEF ManyInsert, Jumble
<1>5. PICK n : n = Len(account) + 1
  OBVIOUS
<1>6. 0 \in Codes /\ jumbled \subseteq jumbled'
  BY <1>4, PartiesAssumption DEF Codes
<1>7. /\ n \notin DOMAIN account /\ n \in Nat /\ n <= MaxRows
      /\ account' \in Seq(Account) /\ Len(account') = n
      /\ mailed' \in Seq(Codes) /\ Len(mailed') = n
      /\ DOMAIN account' = DOMAIN account \cup {n} /\ live' \subseteq DOMAIN account'
      /\ account'[n] = row /\ mailed'[n] = 0
      /\ \A a \in DOMAIN account :
            account'[a] = account[a] /\ mailed'[a] = mailed[a] /\ Subject(a)' = Subject(a)
      /\ KGrow /\ KQuiet({<<row.table, row.email>>})
  BY <1>4, <1>5, <1>6, InsertRow
<1>8. PICK B : B = kjob[k].about
  OBVIOUS
<1>9. <<"User", row.email>> \in B /\ B \subseteq {"User"} \X Emails
  BY <1>1, <1>2, <1>8 DEF KSound
<1>10. KQuiet(B) /\ KQuiet(kjob[k].about) /\ live' = live \cup {n}
  BY <1>2, <1>4, <1>5, <1>7, <1>8, <1>9 DEF KQuiet
<1>11. Subject(n)' = <<"User", row.email>>
  BY <1>2, <1>7 DEF Subject
<1>12. live \subseteq DOMAIN account
  BY AccountsFacts
<1>13. kjob[k].alone =>
           \A b \in live : Subject(b) \in B \ jumbled => account[b].email \notin kjob[k].emails
  BY <1>1, <1>8 DEF AccountsInv, KAloneOK, KTurn, Concerned
<1>14. /\ kjob' \in [Clerks -> KJob]
       /\ \A i \in Clerks \ {k} : kjob'[i] = kjob[i]
       /\ \A i \in Clerks : KJobOK(i)' /\ KAloneOK(i)'
       /\ kjob'[k].op \in {"none", "many"} /\ kjob'[k].row = {}
  <2>1. CASE left = {}
    BY <2>1, <1>4, <1>7, <1>10, KEndJobs, IdleKJobType
  <2>2. CASE left # {}
    <3>1. /\ kjob' \in [Clerks -> KJob] /\ \A i \in Clerks \ {k} : kjob'[i] = kjob[i]
          /\ kjob'[k].op = "many" /\ kjob'[k].row = {} /\ kjob'[k].emails = left
          /\ kjob'[k].about = B /\ kjob'[k].alone = kjob[k].alone
          /\ kjob'[k].table = kjob[k].table /\ kjob'[k].phase = kjob[k].phase
      <4>1. kjob \in [Clerks -> KJob]
        BY DEF AccountsInv, AccountsTypeOK
      <4>2. kjob' = [kjob EXCEPT ![k].row = {}, ![k].emails = left]
        BY <2>2, <1>4
      <4>3. QED
        BY <4>1, <4>2, <1>1, <1>8 DEF KJob
    <3>2. ASSUME NEW i \in Clerks \ {k} PROVE KJobOK(i)' /\ KAloneOK(i)'
      <4>1. kjob[i].alone => kjob[i].about \cap B = {}
        BY <1>8 DEF AccountsInv, KAloneOK
      <4>2. \A m \in Clerks \ {i} : kjob'[m].about \subseteq kjob[m].about
        BY <3>1, <1>8
      <4>3. KJobOK(i)'
        BY <3>1, <1>7, KSoundFrame
      <4>4. KAloneOK(i)'
        BY <3>1, <4>1, <4>2, <1>7, <1>10, KAloneFrame
      <4>5. QED
        BY <4>3, <4>4
    <3>3. KJobOK(k)'
      <4>1. /\ kjob[k].table = "User" /\ {"User"} \X kjob[k].emails \subseteq B
            /\ (kjob[k].phase = "idle" <=> kjob[k].op = "none")
        BY <1>1, <1>8 DEF KSound, AccountsInv, KJobOK
      <4>2. {"User"} \X left \subseteq B
        BY <4>1, <1>3
      <4>3. KSound(kjob[k])'
        BY <4>1, <4>2, <3>1, <1>9 DEF KSound, OpenOps, SpendOps, SaveOps
      <4>4. QED
        BY <4>1, <4>3, <3>1, <1>1 DEF KJobOK
    <3>4. KAloneOK(k)'
      <4>1. SUFFICES ASSUME kjob'[k].alone PROVE KAloneOK(k)'
        BY DEF KAloneOK
      <4>2. \A m \in Clerks \ {k} : kjob'[m].about \cap kjob'[k].about = {}
        BY <4>1, <3>1, <1>8 DEF AccountsInv, KAloneOK
      <4>3. ASSUME NEW a \in live', Subject(a)' \in B \ jumbled'
            PROVE  account'[a].email \notin left
        <5>1. CASE a = n
          BY <5>1, <1>3, <1>7
        <5>2. CASE a # n
          BY <5>2, <4>1, <4>3, <3>1, <1>3, <1>4, <1>7, <1>10, <1>12, <1>13
        <5>3. QED
          BY <5>1, <5>2
      <4>4. KTurn(kjob[k])'
        BY <4>3, <3>1 DEF KTurn, Concerned, OpenOps, SpendOps, SaveOps
      <4>5. QED
        BY <4>2, <4>4 DEF KAloneOK
    <3>5. QED
      BY <3>1, <3>2, <3>3, <3>4
  <2>3. QED
    BY <2>1, <2>2
<1>15. AccountsTypeOK'
  BY <1>4, <1>7, <1>14 DEF AccountsInv, AccountsTypeOK
<1>16. /\ \A c \in Codes \ {0} : NewOK(c)'
       /\ \A c \in Codes \ ({0} \cup again) : SpendingOK(c)'
       /\ CodesApart'
  <2>1. kjob'[k].op \notin SpendOps \cup {"save"} /\ \A c \in Codes : ~Brings(kjob[k], c)'
    BY <1>14 DEF SpendOps, OpenOps, Brings
  <2>2. row.code # 0 => Brings(kjob[k], row.code)
    BY <1>1, <1>2 DEF Brings
  <2>3. QED
    BY <1>4, <1>7, <1>10, <1>14, <2>1, <2>2, InsertCodes
<1>17. ASSUME NEW a \in live', Subject(a)' \notin jumbled'
       PROVE  TurnOK(a)'
  <2>1. CASE Subject(a)' \notin B
    <3>1. \A i \in Clerks : kjob'[i] = kjob[i] \/ kjob[i].op # "issue"
      BY <1>1, <1>14
    <3>2. again' = again /\ spends' = spends
      BY <1>4
    <3>3. QED
      BY <2>1, <3>1, <3>2, <1>7, <1>10, <1>17, TurnFrame
  <2>2. CASE Subject(a)' \in B
    <3>1. kjob[k].alone /\ jumbled' = jumbled
      BY <1>4, <1>8, <1>17, <2>2
    <3>2. \A b \in live : Subject(b) \in B \ jumbled => account[b].email \notin kjob[k].emails
      BY <3>1, <1>13
    <3>3. \A b \in live : Subject(b) = Subject(n)' => Subject(b) \in jumbled
      <4>1. ASSUME NEW b \in live, Subject(b) = Subject(n)', Subject(b) \notin jumbled
            PROVE  FALSE
        <5>1. account[b].email = row.email
          BY <4>1, <1>11 DEF Subject
        <5>2. QED
          BY <4>1, <5>1, <3>2, <1>2, <1>9, <1>11
      <4>2. QED
        BY <4>1
    <3>4. ASSUME NEW b \in live', Subject(b)' = Subject(a)' PROVE b = a
      <4>1. CASE a = n
        BY <4>1, <3>1, <3>3, <3>4, <1>7, <1>10, <1>12, <1>17
      <4>2. CASE a # n
        <5>1. a \in live /\ Subject(a)' = Subject(a) /\ TurnOK(a)
          BY <4>2, <3>1, <1>7, <1>10, <1>12, <1>17 DEF AccountsInv, TurnsOK
        <5>2. b # n
          BY <5>1, <3>1, <3>3, <3>4, <1>17
        <5>3. b \in live /\ Subject(b)' = Subject(b)
          BY <5>2, <1>7, <1>10, <1>12
        <5>4. QED
          BY <5>1, <5>3, <3>4 DEF TurnOK
      <4>3. QED
        BY <4>1, <4>2
    <3>5. account'[a].table # "Customer"
      <4>1. Subject(a)' \in {"User"} \X Emails
        BY <2>2, <1>9
      <4>2. account'[a].table = "User"
        BY <4>1 DEF Subject
      <4>3. QED
        BY <4>2
    <3>6. QED
      BY <3>4, <3>5 DEF TurnOK
  <2>3. QED
    BY <2>1, <2>2
<1>18. TurnsOK'
  BY <1>17 DEF TurnsOK
<1>19. QED
  BY <1>4, <1>14, <1>15, <1>16, <1>18 DEF AccountsInv

---------------------------------------------------------------------------
(* Accounts: a code is stored, or spent *)

\* Some accounts get another row; none changes its table or its address.
LEMMA RowsChange ==
    ASSUME AccountsInv, NEW set \in SUBSET live,
           DOMAIN account' = DOMAIN account, account' = [a \in DOMAIN account |-> account'[a]],
           \A a \in set : /\ account'[a] \in Account /\ account'[a].table = account[a].table
                          /\ account'[a].email = account[a].email,
           \A a \in DOMAIN account \ set : account'[a] = account[a],
           UNCHANGED <<live, mailed>>, jumbled \subseteq jumbled',
           NEW B, \A a \in set : Subject(a) \in B \cup jumbled
    PROVE  /\ account' \in Seq(Account) /\ Len(account') = Len(account)
           /\ \A a \in DOMAIN account : Subject(a)' = Subject(a)
           /\ KGrow /\ KQuiet(B)
<1>1. /\ Len(account) \in Nat /\ DOMAIN account = 1 .. Len(account)
      /\ live \subseteq DOMAIN account
      /\ \A a \in DOMAIN account : account[a] \in Account
  BY AccountsFacts
<1>2. \A a \in DOMAIN account : account'[a] \in Account
  BY <1>1
<1>3. account' \in [1 .. Len(account) -> Account]
  BY <1>1, <1>2
<1>4. account' \in Seq(Account) /\ Len(account') = Len(account)
  BY <1>1, <1>3, TableOf
<1>5. \A a \in DOMAIN account : Subject(a)' = Subject(a)
  BY <1>1 DEF Subject
<1>6. KGrow /\ KQuiet(B)
  BY <1>1, <1>5 DEF KGrow, KQuiet
<1>7. QED
  BY <1>4, <1>5, <1>6

\* The accounts that are found by the address of a request.
LEMMA FoundByAddress ==
    ASSUME AccountsInv, NEW k \in Clerks, NEW e, kjob[k].emails = {e},
           kjob[k].about = {<<kjob[k].table, e>>}
    PROVE  UNION {With(kjob[k].table, x) : x \in kjob[k].emails}
              = {a \in live : Subject(a) \in kjob[k].about}
<1>1. UNION {With(kjob[k].table, x) : x \in kjob[k].emails} = With(kjob[k].table, e)
  OBVIOUS
<1>2. \A a \in live : Subject(a) \in kjob[k].about <=>
                         account[a].table = kjob[k].table /\ account[a].email = e
  BY DEF Subject
<1>3. QED
  BY <1>1, <1>2 DEF With

LEMMA IssueSaveKeeps ==
    ASSUME AccountsInv, NEW k \in Clerks, IssueSave(k)
    PROVE  AccountsInv'
<1>1. /\ kjob[k] \in KJob /\ KSound(kjob[k]) /\ kjob[k].op = "issue"
      /\ kjob[k].code \in Codes /\ kjob[k].code # 0
  BY AccountsFacts DEF AccountsInv, KJobOK, IssueSave, KSound, KJob
<1>2. PICK e \in Emails : kjob[k].emails = {e} /\ kjob[k].about = {<<kjob[k].table, e>>}
  BY <1>1 DEF KSound
<1>3. PICK B : B = kjob[k].about
  OBVIOUS
<1>4. PICK d \in Codes : d = kjob[k].code
  BY <1>1
<1>5. PICK set \in SUBSET live : set = {a \in live : Subject(a) \in B}
  OBVIOUS
<1>6. /\ account' = [a \in DOMAIN account |->
                        IF a \in set THEN [account[a] EXCEPT !.code = d] ELSE account[a]]
      /\ again' = IF Cardinality(set) > 1 THEN again \cup {d} ELSE again
      /\ jumbled' = IF kjob[k].alone THEN jumbled ELSE jumbled \cup B
      /\ KDone(k) /\ UNCHANGED <<live, issued, mailed, spends>>
  <2>1. UNION {With(kjob[k].table, x) : x \in kjob[k].emails} = set
    BY <1>2, <1>3, <1>5, FoundByAddress
  <2>2. QED
    BY <2>1, <1>3, <1>4 DEF IssueSave, Jumble
<1>7. live \subseteq DOMAIN account /\ \A a \in DOMAIN account : account[a] \in Account
  BY AccountsFacts
<1>8. /\ DOMAIN account' = DOMAIN account
      /\ \A a \in set : /\ account'[a] \in Account /\ account'[a].table = account[a].table
                        /\ account'[a].email = account[a].email /\ account'[a].code = d
      /\ \A a \in DOMAIN account \ set : account'[a] = account[a]
  BY <1>6, <1>7 DEF Account
<1>9. /\ account' \in Seq(Account) /\ Len(account') = Len(account)
      /\ \A a \in DOMAIN account : Subject(a)' = Subject(a)
      /\ KGrow /\ KQuiet(B) /\ KQuiet(kjob[k].about)
  <2>1. /\ account' \in Seq(Account) /\ Len(account') = Len(account)
        /\ \A a \in DOMAIN account : Subject(a)' = Subject(a)
        /\ KGrow /\ KQuiet(B)
    BY <1>5, <1>6, <1>8, RowsChange
  <2>2. QED
    BY <2>1, <1>3
<1>10. /\ kjob' \in [Clerks -> KJob] /\ kjob'[k] = IdleKJob
       /\ \A i \in Clerks \ {k} : kjob'[i] = kjob[i]
       /\ \A i \in Clerks : KJobOK(i)' /\ KAloneOK(i)'
  BY <1>6, <1>9, KEndJobs
<1>11. AccountsTypeOK'
  BY <1>6, <1>8, <1>9, <1>10 DEF AccountsInv, AccountsTypeOK
<1>12. ~OnRecord(d) /\ Brings(kjob[k], d)
  <2>1. Brings(kjob[k], d)
    BY <1>1, <1>4 DEF Brings
  <2>2. QED
    BY <2>1, <1>1, <1>4 DEF AccountsInv, NewOK
<1>13. \A a \in DOMAIN account : account[a].code # d
  BY <1>12 DEF OnRecord
<1>14. kjob'[k].op \notin SpendOps \cup {"save"} /\ \A c \in Codes : ~Brings(kjob[k], c)'
  BY <1>10, IdleKJobType DEF SpendOps, OpenOps, Brings
<1>15. \A c \in Codes \ {0} : OnRecord(c)' => c = d \/ OnRecord(c)
  <2>1. \A a \in DOMAIN account' : account'[a].code \in {0, d} \/
           (a \in DOMAIN account /\ account'[a].code = account[a].code)
    BY <1>8
  <2>2. \A c \in again' : c = d \/ c \in again
    BY <1>6
  <2>3. QED
    BY <2>1, <2>2, <1>6, <1>8, <1>10, <1>14, StoredFrame
<1>16. \A c \in Codes \ {0} : NewOK(c)'
  BY <1>6, <1>10, <1>12, <1>14, <1>15, NewFrame
<1>17. IsFiniteSet(set)
  <2>1. Len(account) \in Nat /\ set \subseteq 1 .. Len(account)
    BY <1>7, AccountsFacts
  <2>2. IsFiniteSet(1 .. Len(account))
    BY <2>1, FS_Interval
  <2>3. QED
    BY <2>1, <2>2, FS_Subset
<1>18. ASSUME NEW c \in Codes \ {0}, c \notin again'
       PROVE  SpendingOK(c)'
  <2>1. SpendingOK(c) /\ c \in Codes
    BY <1>6, <1>18 DEF AccountsInv
  <2>2. spends[c] \in Nat
    BY <2>1 DEF AccountsInv, AccountsTypeOK
  <2>3. /\ Spenders(c)' = Spenders(c) \ {k}
        /\ \A i \in Spenders(c)' : kjob'[i] = kjob[i]
        /\ Cardinality(Spenders(c)) \in Nat /\ Cardinality(Spenders(c)') \in Nat
        /\ Cardinality(Spenders(c)') =
              IF k \in Spenders(c) THEN Cardinality(Spenders(c)) - 1 ELSE Cardinality(Spenders(c))
        /\ Cardinality(Clerks) \in Nat
    BY <1>10, <1>14, SpendersEnd
  <2>4. spends'[c] + Cardinality(Spenders(c)') <= Cardinality(Clerks)
    BY <2>1, <2>2, <2>3, <1>6 DEF SpendingOK
  <2>5. ASSUME NEW a \in live', account'[a].code = c
        PROVE  /\ spends'[c] = 0
               /\ \A b \in live' : account'[b].code = c => b = a
               /\ \A i \in Spenders(c)' : kjob'[i].id = a
    <3>1. CASE c = d
      <4>1. Spenders(c) = {} /\ ~(spends[c] > 0)
        BY <3>1, <1>12 DEF OnRecord
      <4>2. \A b \in live' : account'[b].code = c => b \in set
        BY <3>1, <1>6, <1>7, <1>8, <1>13
      <4>3. Cardinality(set) \in Nat
        BY <1>17, FS_CardinalityType
      <4>4. Cardinality(set) <= 1
        BY <3>1, <4>3, <1>6, <1>18
      <4>5. \A b \in live' : account'[b].code = c => b = a
        BY <4>2, <4>4, <1>17, <2>5, OneElement
      <4>6. QED
        BY <4>1, <4>5, <2>2, <2>3, <1>6
    <3>2. CASE c # d
      <4>1. \A b \in live' : account'[b].code = c => b \in live /\ account[b].code = c
        BY <3>2, <1>6, <1>7, <1>8
      <4>2. /\ spends[c] = 0
            /\ \A b \in live : account[b].code = c => b = a
            /\ \A i \in Spenders(c) : kjob[i].id = a
        BY <4>1, <2>1, <2>5 DEF SpendingOK
      <4>3. QED
        BY <4>1, <4>2, <2>3, <1>6
    <3>3. QED
      BY <3>1, <3>2
  <2>6. QED
    BY <2>4, <2>5 DEF SpendingOK
<1>19. CodesApart'
  <2> SUFFICES ASSUME NEW a \in DOMAIN account', account'[a].table = "Customer",
                      account'[a].code # 0
               PROVE  /\ \A b \in DOMAIN account' : account'[b].table = "User" =>
                            account'[b].code # account'[a].code
                      /\ \A i \in Clerks : kjob'[i].op = "save" =>
                            \A r \in kjob'[i].row : r.code # account'[a].code
    BY DEF CodesApart
  <2>1. CodesApart
    BY DEF AccountsInv
  <2>2. \A i \in Clerks : kjob'[i].op = "save" => kjob'[i] = kjob[i]
    BY <1>10, <1>14
  <2>3. \A b \in DOMAIN account : account'[b].table = account[b].table
    BY <1>8
  <2>4. \A b \in set : account[b].table = kjob[k].table
    BY <1>2, <1>3, <1>5 DEF Subject
  <2>5. CASE a \in set
    <3>1. account'[a].code = d /\ kjob[k].table = "Customer"
      BY <2>3, <2>4, <2>5, <1>8
    <3>2. \A b \in DOMAIN account' : account'[b].table = "User" => b \notin set
      BY <3>1, <2>3, <2>4, <1>8
    <3>3. \A b \in DOMAIN account' : account'[b].table = "User" => account'[b].code # d
      BY <3>2, <1>8, <1>13
    <3>4. \A i \in Clerks : kjob'[i].op = "save" => \A r \in kjob'[i].row : r.code # d
      BY <2>2, <1>12 DEF OnRecord
    <3>5. QED
      BY <3>1, <3>3, <3>4
  <2>6. CASE a \notin set
    <3>1. account'[a] = account[a] /\ account[a].code # d
      BY <2>6, <1>8, <1>13
    <3>2. QED
      BY <3>1, <1>8, <2>1, <2>2, <2>3 DEF CodesApart
  <2>7. QED
    BY <2>5, <2>6
<1>20. ASSUME NEW a \in live', Subject(a)' \notin jumbled'
       PROVE  TurnOK(a)'
  <2>1. a \in live /\ Subject(a)' = Subject(a) /\ a \in DOMAIN account
    BY <1>6, <1>7, <1>9
  <2>2. CASE Subject(a)' \notin B
    <3>1. \A i \in Clerks : kjob'[i] = kjob[i] \/ kjob[i].op # "issue" \/ kjob[i].about \subseteq B
      BY <1>3, <1>10
    <3>2. account[a].code \in again \/ account[a].code \notin again'
      BY <2>1, <1>6, <1>13
    <3>3. spends' = spends
      BY <1>6
    <3>4. QED
      BY <2>2, <3>1, <3>2, <3>3, <1>9, <1>20, TurnFrame
  <2>3. CASE Subject(a)' \in B
    <3>1. kjob[k].alone /\ jumbled' = jumbled
      BY <1>6, <1>20, <2>3
    <3>2. TurnOK(a)
      BY <2>1, <3>1, <1>20 DEF AccountsInv, TurnsOK
    <3>3. ASSUME NEW b \in live', Subject(b)' = Subject(a)' PROVE b = a
      <4>1. b \in live /\ Subject(b)' = Subject(b)
        BY <1>6, <1>7, <1>9
      <4>2. QED
        BY <4>1, <3>2, <3>3, <2>1 DEF TurnOK
    <3>4. a \in set /\ account'[a].code = d
      BY <2>1, <2>3, <1>5, <1>8
    <3>5. d \notin again'
      <4>1. \A x, y \in set : x = y
        <5>1. ASSUME NEW x \in set PROVE x \in live' /\ Subject(x)' = Subject(a)'
          <6>1. x \in live /\ Subject(x) \in B /\ x \in DOMAIN account
            BY <1>5, <1>7
          <6>2. Subject(x)' = Subject(x) /\ x \in live'
            BY <6>1, <1>6, <1>9
          <6>3. B = {<<kjob[k].table, e>>}
            BY <1>2, <1>3
          <6>4. QED
            BY <6>1, <6>2, <6>3, <2>3
        <5>2. QED
          BY <5>1, <3>3
      <4>2. Cardinality(set) <= 1
        BY <4>1, AtMostOne, <1>17
      <4>3. Cardinality(set) \in Nat
        BY <1>17, FS_CardinalityType
      <4>4. again' = again
        BY <4>2, <4>3, <1>6
      <4>5. QED
        BY <4>4, <1>12 DEF OnRecord
    <3>6. ASSUME account[a].table = "Customer" PROVE mailed[a] \in {0, d}
      <4>1. KTurn(kjob[k])
        BY <3>1 DEF AccountsInv, KAloneOK
      <4>2. a \in Concerned(kjob[k])
        BY <2>1, <2>3, <3>1, <1>3, <1>20 DEF Concerned
      <4>3. kjob[k].table = "Customer"
        BY <3>6, <2>1, <2>3, <1>2, <1>3 DEF Subject
      <4>4. QED
        BY <4>1, <4>2, <4>3, <1>1, <1>4 DEF KTurn
    <3>7. QED
      BY <3>3, <3>4, <3>5, <3>6, <1>6, <1>8 DEF TurnOK
  <2>4. QED
    BY <2>2, <2>3
<1>21. TurnsOK'
  BY <1>20 DEF TurnsOK
<1>22. QED
  BY <1>6, <1>10, <1>11, <1>16, <1>18, <1>19, <1>21 DEF AccountsInv, Codes

LEMMA SpendFacts ==
    ASSUME AccountsInv, NEW code \in Codes, Spend(code)
    PROVE  /\ spends' \in [Codes -> Nat] /\ spends'[0] = 0
           /\ \A c \in Codes : spends[c] \in Nat /\ spends'[c] \in Nat
           /\ \A c \in Codes : c # code \/ c = 0 \/ c \in again => spends'[c] = spends[c]
           /\ \A c \in Codes : c = code /\ c # 0 /\ c \notin again => spends'[c] = spends[c] + 1
           /\ \A c \in Codes : spends[c] > 0 => spends'[c] > 0
<1>1. spends \in [Codes -> Nat] /\ spends[0] = 0 /\ 0 \in Codes
  BY PartiesAssumption DEF AccountsInv, AccountsTypeOK, Codes
<1>2. spends' = [c \in Codes |-> IF c = code /\ c \notin {0} \cup again THEN spends[c] + 1
                                                                       ELSE spends[c]]
  BY DEF Spend
<1>3. QED
  BY <1>1, <1>2

LEMMA SpendSaveKeeps ==
    ASSUME AccountsInv, NEW k \in Clerks, SpendSave(k)
    PROVE  AccountsInv'
<1>1. /\ kjob[k] \in KJob /\ KSound(kjob[k]) /\ kjob[k].op \in SpendOps
      /\ kjob[k].code \in Codes /\ kjob[k].code # 0
      /\ kjob[k].id \in DOMAIN account /\ Subject(kjob[k].id) \in kjob[k].about \cup jumbled
  <2>1. kjob[k] \in KJob /\ KSound(kjob[k]) /\ kjob[k].op \in SpendOps
    BY AccountsFacts DEF AccountsInv, KJobOK, SpendSave, SpendOps
  <2>2. QED
    BY <2>1 DEF KSound, KJob
<1>2. PICK e \in Emails : kjob[k].emails = {e} /\ kjob[k].about = {<<kjob[k].table, e>>}
  BY <1>1 DEF KSound
<1>3. PICK B : B = kjob[k].about
  OBVIOUS
<1>4. PICK d \in Codes : d = kjob[k].code
  BY <1>1
<1>5. PICK id \in DOMAIN account : id = kjob[k].id
  BY <1>1
<1>6. PICK set \in SUBSET live :
          set = IF kjob[k].op = "activate" THEN {id} \cap live
                                           ELSE {a \in live : Subject(a) \in B}
  OBVIOUS
<1>7. /\ account' = [a \in DOMAIN account |->
                        IF a \in set
                          THEN [account[a] EXCEPT !.code = 0,
                                                  !.active = @ \/ kjob[k].op = "activate"]
                          ELSE account[a]]
      /\ Spend(d)
      /\ again' = IF id \in live \ set THEN again \cup {d} ELSE again
      /\ jumbled' = IF kjob[k].alone THEN jumbled ELSE jumbled \cup B
      /\ KDone(k) /\ UNCHANGED <<live, issued, mailed>>
  <2>1. UNION {With(kjob[k].table, x) : x \in kjob[k].emails} = {a \in live : Subject(a) \in B}
    BY <1>2, <1>3, FoundByAddress
  <2>2. set = IF kjob[k].op = "activate" THEN {kjob[k].id} \cap live
              ELSE UNION {With(kjob[k].table, x) : x \in kjob[k].emails}
    BY <2>1, <1>5, <1>6
  <2>3. QED
    BY <2>2, <1>3, <1>4, <1>5 DEF SpendSave, Jumble, SpentCode
<1>8. /\ live \subseteq DOMAIN account /\ \A a \in DOMAIN account : account[a] \in Account
      /\ 0 \in Codes
  BY AccountsFacts, PartiesAssumption
<1>9. /\ DOMAIN account' = DOMAIN account
      /\ \A a \in set : /\ account'[a] \in Account /\ account'[a].table = account[a].table
                        /\ account'[a].email = account[a].email /\ account'[a].code = 0
      /\ \A a \in DOMAIN account \ set : account'[a] = account[a]
  <2>1. ASSUME NEW a \in set
        PROVE  /\ account'[a] \in Account /\ account'[a].table = account[a].table
               /\ account'[a].email = account[a].email /\ account'[a].code = 0
    <3>1. account[a] \in Account /\ a \in DOMAIN account
      BY <1>8
    <3>2. PICK b \in BOOLEAN : b = (account[a].active \/ kjob[k].op = "activate")
      BY <3>1 DEF Account
    <3>3. account'[a] = [account[a] EXCEPT !.code = 0, !.active = b]
      BY <3>1, <3>2, <1>7
    <3>4. QED
      BY <3>1, <3>3, <1>8 DEF Account
  <2>2. QED
    BY <2>1, <1>7
<1>10. \A a \in set : Subject(a) \in B \cup jumbled
  BY <1>1, <1>3, <1>5, <1>6
<1>11. /\ account' \in Seq(Account) /\ Len(account') = Len(account)
       /\ \A a \in DOMAIN account : Subject(a)' = Subject(a)
       /\ KGrow /\ KQuiet(B) /\ KQuiet(kjob[k].about)
  <2>1. /\ account' \in Seq(Account) /\ Len(account') = Len(account)
        /\ \A a \in DOMAIN account : Subject(a)' = Subject(a)
        /\ KGrow /\ KQuiet(B)
    BY <1>7, <1>9, <1>10, RowsChange
  <2>2. QED
    BY <2>1, <1>3
<1>12. /\ kjob' \in [Clerks -> KJob] /\ kjob'[k] = IdleKJob
       /\ \A i \in Clerks \ {k} : kjob'[i] = kjob[i]
       /\ \A i \in Clerks : KJobOK(i)' /\ KAloneOK(i)'
  BY <1>7, <1>11, KEndJobs
<1>13. /\ spends' \in [Codes -> Nat] /\ spends'[0] = 0
       /\ \A c \in Codes : spends[c] \in Nat /\ spends'[c] \in Nat
       /\ \A c \in Codes : c # d \/ c = 0 \/ c \in again => spends'[c] = spends[c]
       /\ \A c \in Codes : c = d /\ c # 0 /\ c \notin again => spends'[c] = spends[c] + 1
       /\ \A c \in Codes : spends[c] > 0 => spends'[c] > 0
  BY <1>7, SpendFacts
<1>14. AccountsTypeOK'
  BY <1>7, <1>9, <1>11, <1>12, <1>13 DEF AccountsInv, AccountsTypeOK
<1>15. kjob'[k].op \notin SpendOps \cup {"save"} /\ \A c \in Codes : ~Brings(kjob[k], c)'
  BY <1>12, IdleKJobType DEF SpendOps, OpenOps, Brings
<1>16. k \in Spenders(d) /\ d # 0 /\ OnRecord(d)
  BY <1>1, <1>4 DEF Spenders, OnRecord
<1>17. ASSUME NEW c \in Codes
       PROVE  /\ Spenders(c)' = Spenders(c) \ {k}
              /\ \A i \in Spenders(c)' : kjob'[i] = kjob[i]
              /\ \A i \in Clerks : kjob'[i].op = "save" => i # k /\ kjob'[i] = kjob[i]
              /\ Cardinality(Spenders(c)) \in Nat /\ Cardinality(Spenders(c)') \in Nat
              /\ Cardinality(Spenders(c)') = IF k \in Spenders(c)
                    THEN Cardinality(Spenders(c)) - 1 ELSE Cardinality(Spenders(c))
              /\ Cardinality(Clerks) \in Nat
  BY <1>12, <1>15, SpendersEnd
<1>18. \A c \in Codes \ {0} : OnRecord(c)' => OnRecord(c)
  <2>1. ASSUME NEW c \in Codes \ {0}, OnRecord(c)', c # d PROVE OnRecord(c)
    <3>1. \A a \in DOMAIN account' : account'[a].code = c => account[a].code = c
      BY <1>9
    <3>2. spends'[c] = spends[c] /\ (c \in again' => c \in again)
      BY <2>1, <1>7, <1>13
    <3>3. QED
      BY <2>1, <3>1, <3>2, <1>9, <1>17 DEF OnRecord
  <2>2. QED
    BY <2>1, <1>16
<1>19. \A c \in Codes \ {0} : NewOK(c)'
  <2>1. PICK z \in Codes : z = 0
    BY <1>8
  <2>2. QED
    BY <2>1, <1>7, <1>12, <1>15, <1>18, NewFrame
<1>20. ASSUME NEW c \in Codes \ {0}, c \notin again'
       PROVE  SpendingOK(c)'
  <2>1. SpendingOK(c) /\ c \notin again
    BY <1>7, <1>20 DEF AccountsInv
  <2>2. spends'[c] + Cardinality(Spenders(c)') <= Cardinality(Clerks)
    <3>1. spends[c] + Cardinality(Spenders(c)) <= Cardinality(Clerks)
      BY <2>1 DEF SpendingOK
    <3>2. CASE c = d
      BY <3>1, <3>2, <2>1, <1>13, <1>16, <1>17
    <3>3. CASE c # d
      BY <3>1, <3>3, <1>13, <1>17
    <3>4. QED
      BY <3>2, <3>3
  <2>3. ASSUME NEW a \in live', account'[a].code = c
        PROVE  /\ spends'[c] = 0
               /\ \A b \in live' : account'[b].code = c => b = a
               /\ \A i \in Spenders(c)' : kjob'[i].id = a
    <3>1. \A b \in live' : account'[b].code = c => b \in live \ set /\ account[b].code = c
      BY <1>7, <1>8, <1>9
    <3>2. /\ spends[c] = 0
          /\ \A b \in live : account[b].code = c => b = a
          /\ \A i \in Spenders(c) : kjob[i].id = a
      BY <3>1, <2>1, <2>3 DEF SpendingOK
    <3>3. c # d
      BY <3>1, <3>2, <2>3, <1>5, <1>7, <1>16, <1>20
    <3>4. QED
      BY <3>1, <3>2, <3>3, <1>13, <1>17
  <2>4. QED
    BY <2>2, <2>3 DEF SpendingOK
<1>21. CodesApart'
  <2> SUFFICES ASSUME NEW a \in DOMAIN account', account'[a].table = "Customer",
                      account'[a].code # 0
               PROVE  /\ \A b \in DOMAIN account' : account'[b].table = "User" =>
                            account'[b].code # account'[a].code
                      /\ \A i \in Clerks : kjob'[i].op = "save" =>
                            \A r \in kjob'[i].row : r.code # account'[a].code
    BY DEF CodesApart
  <2>1. CodesApart
    BY DEF AccountsInv
  <2>2. \A i \in Clerks : kjob'[i].op = "save" => kjob'[i] = kjob[i]
    BY <1>12, <1>15
  <2>3. a \in DOMAIN account /\ account'[a] = account[a]
    BY <1>9
  <2>4. \A b \in DOMAIN account' : b \in DOMAIN account /\ account'[b].table = account[b].table
                                   /\ account'[b].code \in {0, account[b].code}
    BY <1>9
  <2>5. QED
    BY <2>1, <2>2, <2>3, <2>4 DEF CodesApart
<1>22. ASSUME NEW a \in live', Subject(a)' \notin jumbled'
       PROVE  TurnOK(a)'
  <2>1. a \in live /\ Subject(a)' = Subject(a) /\ a \in DOMAIN account
    BY <1>7, <1>8, <1>11
  <2>2. CASE Subject(a)' \notin B
    <3>1. \A i \in Clerks : kjob'[i] = kjob[i] \/ kjob[i].op # "issue"
      BY <1>1, <1>12 DEF SpendOps
    <3>2. account[a].code # 0 => account[a].code \in again \/ account[a].code \notin again'
      <4>1. SUFFICES ASSUME account[a].code = d, d \notin again, id \in live \ set PROVE FALSE
        BY <1>7
      <4>2. id = a
        BY <4>1, <2>1, <1>5, <1>16 DEF AccountsInv, SpendingOK
      <4>3. Subject(a) \in B \cup jumbled
        BY <4>2, <1>1, <1>3, <1>5
      <4>4. jumbled \subseteq jumbled'
        BY <1>7
      <4>5. QED
        BY <4>3, <4>4, <2>1, <2>2, <1>22
    <3>3. QED
      BY <2>2, <3>1, <3>2, <1>11, <1>13, <1>22, TurnFrame
  <2>3. CASE Subject(a)' \in B
    <3>1. kjob[k].alone /\ jumbled' = jumbled
      BY <1>7, <1>22, <2>3
    <3>2. TurnOK(a)
      BY <2>1, <3>1, <1>22 DEF AccountsInv, TurnsOK
    <3>3. ASSUME NEW b \in live', Subject(b)' = Subject(a)' PROVE b = a
      <4>1. b \in live /\ Subject(b)' = Subject(b)
        BY <1>7, <1>8, <1>11
      <4>2. QED
        BY <4>1, <3>2, <3>3, <2>1 DEF TurnOK
    <3>4. ASSUME account'[a].table = "Customer"
          PROVE  account'[a].code = 0 /\ (mailed'[a] # 0 => spends'[mailed'[a]] > 0)
      <4>1. account[a].table = "Customer"
        BY <3>4, <2>1, <1>9
      <4>2. kjob[k].table = "Customer"
        BY <4>1, <2>1, <2>3, <1>2, <1>3 DEF Subject
      <4>3. KTurn(kjob[k])
        BY <3>1 DEF AccountsInv, KAloneOK
      <4>4. a \in Concerned(kjob[k])
        BY <2>1, <2>3, <3>1, <1>3, <1>22 DEF Concerned
      <4>5. a = id /\ account[a].code = d /\ mailed[a] \in {0, d}
        BY <4>2, <4>3, <4>4, <1>1, <1>4, <1>5 DEF KTurn
      <4>6. a \in set
        BY <4>5, <2>1, <2>3, <1>6
      <4>7. d \notin again
        BY <4>1, <4>5, <3>2, <1>16 DEF TurnOK
      <4>8. spends'[d] > 0
        BY <4>7, <1>13, <1>16
      <4>9. QED
        BY <4>5, <4>6, <4>8, <1>7, <1>9
    <3>5. QED
      BY <3>3, <3>4 DEF TurnOK
  <2>4. QED
    BY <2>2, <2>3
<1>23. TurnsOK'
  BY <1>22 DEF TurnsOK
<1>24. QED
  BY <1>7, <1>12, <1>14, <1>19, <1>20, <1>21, <1>23 DEF AccountsInv, Codes

LEMMA UserSaveKeeps ==
    ASSUME AccountsInv, NEW k \in Clerks, UserSave(k)
    PROVE  AccountsInv'
<1>1. /\ kjob[k] \in KJob /\ KSound(kjob[k]) /\ kjob[k].op \in SaveOps
      /\ kjob[k].code \in Codes /\ kjob[k].id \in DOMAIN account
      /\ account[kjob[k].id].table = "User" /\ kjob[k].about \subseteq {"User"} \X Emails
  <2>1. kjob[k] \in KJob /\ KSound(kjob[k]) /\ kjob[k].op \in SaveOps
    BY AccountsFacts DEF AccountsInv, KJobOK, UserSave, SaveOps
  <2>2. QED
    BY <2>1 DEF KSound, KJob
<1>2. PICK row \in Account : /\ kjob[k].row = {row} /\ row.table = "User"
                             /\ <<"User", row.email>> \in kjob[k].about
  BY <1>1 DEF KSound
<1>3. PICK B : B = kjob[k].about
  OBVIOUS
<1>4. PICK d \in Codes : d = kjob[k].code
  BY <1>1
<1>5. PICK id \in DOMAIN account : id = kjob[k].id
  BY <1>1
<1>6. /\ account' = [account EXCEPT ![id] = row]
      /\ again' = IF kjob[k].op = "save" /\ (row.code # account[id].code \/ id \notin live)
                    THEN again \cup ({row.code} \ {0}) ELSE again
      /\ jumbled' = IF kjob[k].alone /\ row.email = account[id].email
                      THEN jumbled ELSE jumbled \cup B
      /\ live' = live \cup {id}
      /\ Spend(d) /\ KDone(k) /\ UNCHANGED <<issued, mailed>>
  BY <1>2, <1>3, <1>4, <1>5 DEF UserSave
<1>7. /\ kjob[k].op = "save" => d = 0 \/ row.code = 0
      /\ kjob[k].op = "forgot" => d = 0 /\ row.code # 0
      /\ kjob[k].op \in {"save", "forgot"}
      /\ account[id].table = "User" /\ <<"User", row.email>> \in B /\ B \subseteq {"User"} \X Emails
  BY <1>1, <1>2, <1>3, <1>4, <1>5 DEF KSound, SaveOps
<1>8. /\ live \subseteq DOMAIN account /\ \A a \in DOMAIN account : account[a] \in Account
      /\ 0 \in Codes /\ row.code \in Codes
      /\ Len(account) \in Nat /\ DOMAIN account = 1 .. Len(account)
  BY AccountsFacts, PartiesAssumption DEF Account
<1>9. /\ DOMAIN account' = DOMAIN account /\ account'[id] = row
      /\ \A a \in DOMAIN account \ {id} : account'[a] = account[a]
      /\ account' \in [DOMAIN account -> Account]
  BY <1>6, <1>8
<1>10. account' \in Seq(Account) /\ Len(account') = Len(account)
  <2>1. account' \in [1 .. Len(account) -> Account]
    BY <1>8, <1>9
  <2>2. QED
    BY <2>1, <1>8, TableOf
<1>11. /\ Subject(id)' = <<"User", row.email>> /\ Subject(id) = <<"User", account[id].email>>
       /\ \A a \in DOMAIN account \ {id} : Subject(a)' = Subject(a)
  BY <1>2, <1>7, <1>9 DEF Subject
<1>12. KGrow /\ KQuiet(B) /\ KQuiet(kjob[k].about)
  <2>1. KGrow
    <3>1. Subject(id)' = Subject(id) \/ Subject(id)' \in jumbled'
      BY <1>6, <1>7, <1>11
    <3>2. jumbled \subseteq jumbled' /\ \A a \in DOMAIN account : account'[a].table = account[a].table
      BY <1>2, <1>6, <1>7, <1>9
    <3>3. QED
      BY <3>1, <3>2, <1>9, <1>11 DEF KGrow
  <2>2. KQuiet(B)
    <3>1. Subject(id)' \in B
      BY <1>7, <1>11
    <3>2. QED
      BY <3>1, <1>6, <1>8, <1>9 DEF KQuiet
  <2>3. QED
    BY <2>1, <2>2, <1>3
<1>13. /\ kjob' \in [Clerks -> KJob] /\ kjob'[k] = IdleKJob
       /\ \A i \in Clerks \ {k} : kjob'[i] = kjob[i]
       /\ \A i \in Clerks : KJobOK(i)' /\ KAloneOK(i)'
  BY <1>6, <1>12, KEndJobs
<1>14. /\ spends' \in [Codes -> Nat] /\ spends'[0] = 0
       /\ \A c \in Codes : spends[c] \in Nat /\ spends'[c] \in Nat
       /\ \A c \in Codes : c # d \/ c = 0 \/ c \in again => spends'[c] = spends[c]
       /\ \A c \in Codes : c = d /\ c # 0 /\ c \notin again => spends'[c] = spends[c] + 1
       /\ \A c \in Codes : spends[c] > 0 => spends'[c] > 0
  BY <1>6, SpendFacts
<1>15. AccountsTypeOK'
  BY <1>6, <1>8, <1>9, <1>10, <1>13, <1>14 DEF AccountsInv, AccountsTypeOK
<1>16. kjob'[k].op \notin SpendOps \cup {"save"} /\ \A c \in Codes : ~Brings(kjob[k], c)'
  BY <1>13, IdleKJobType DEF SpendOps, OpenOps, Brings
<1>17. ASSUME NEW c \in Codes
       PROVE  /\ Spenders(c)' = Spenders(c) \ {k}
              /\ \A i \in Spenders(c)' : kjob'[i] = kjob[i]
              /\ \A i \in Clerks : kjob'[i].op = "save" => i # k /\ kjob'[i] = kjob[i]
              /\ Cardinality(Spenders(c)) \in Nat /\ Cardinality(Spenders(c)') \in Nat
              /\ Cardinality(Spenders(c)') = IF k \in Spenders(c)
                    THEN Cardinality(Spenders(c)) - 1 ELSE Cardinality(Spenders(c))
              /\ Cardinality(Clerks) \in Nat
  BY <1>13, <1>16, SpendersEnd
\* The code that is spent, and the one that is stored.
<1>18. d # 0 => k \in Spenders(d) /\ OnRecord(d)
  BY <1>1, <1>4, <1>7 DEF Spenders, OnRecord
<1>19. /\ kjob[k].op = "save" => OnRecord(row.code)
       /\ kjob[k].op = "forgot" => Brings(kjob[k], row.code) /\ ~OnRecord(row.code)
  <2>1. kjob[k].op = "save" => OnRecord(row.code)
    BY <1>2 DEF OnRecord
  <2>2. kjob[k].op = "forgot" => Brings(kjob[k], row.code)
    BY <1>2 DEF Brings
  <2>3. QED
    BY <2>1, <2>2, <1>7, <1>8 DEF AccountsInv, NewOK
<1>20. \A c \in Codes \ {0} : OnRecord(c)' => c = row.code \/ OnRecord(c)
  <2>1. ASSUME NEW c \in Codes \ {0}, OnRecord(c)', c # d, c # row.code PROVE OnRecord(c)
    <3>1. \A a \in DOMAIN account' : account'[a].code = c => account[a].code = c
      BY <2>1, <1>9
    <3>2. spends'[c] = spends[c] /\ (c \in again' => c \in again)
      BY <2>1, <1>6, <1>14
    <3>3. QED
      BY <2>1, <3>1, <3>2, <1>9, <1>17 DEF OnRecord
  <2>2. QED
    BY <2>1, <1>18
<1>21. \A c \in Codes \ {0} : NewOK(c)'
  <2>1. PICK z \in Codes : z = IF kjob[k].op = "forgot" THEN row.code ELSE 0
    BY <1>8
  <2>2. \A c \in Codes \ {0} : OnRecord(c)' => c = z \/ OnRecord(c)
    BY <2>1, <1>7, <1>19, <1>20
  <2>3. z # 0 => Brings(kjob[k], z)
    BY <2>1, <1>19
  <2>4. QED
    BY <2>2, <2>3, <1>6, <1>13, <1>16, NewFrame
<1>22. ASSUME NEW c \in Codes \ {0}, c \notin again'
       PROVE  SpendingOK(c)'
  <2>1. SpendingOK(c) /\ c \notin again
    BY <1>6, <1>22 DEF AccountsInv
  <2>2. spends'[c] + Cardinality(Spenders(c)') <= Cardinality(Clerks)
    <3>1. spends[c] + Cardinality(Spenders(c)) <= Cardinality(Clerks)
      BY <2>1 DEF SpendingOK
    <3>2. CASE c = d
      BY <3>1, <3>2, <2>1, <1>14, <1>17, <1>18
    <3>3. CASE c # d
      BY <3>1, <3>3, <1>14, <1>17
    <3>4. QED
      BY <3>2, <3>3
  <2>3. ASSUME NEW a \in live', account'[a].code = c
        PROVE  /\ spends'[c] = 0
               /\ \A b \in live' : account'[b].code = c => b = a
               /\ \A i \in Spenders(c)' : kjob'[i].id = a
    <3>1. CASE kjob[k].op = "forgot" /\ c = row.code
      <4>1. ~OnRecord(c)
        BY <3>1, <1>19
      <4>2. Spenders(c) = {} /\ ~(spends[c] > 0)
        BY <4>1 DEF OnRecord
      <4>3. \A b \in live' : account'[b].code = c => b = id
        BY <4>1, <1>6, <1>8, <1>9 DEF OnRecord
      <4>4. QED
        BY <3>1, <4>2, <4>3, <2>3, <1>7, <1>14, <1>17
    <3>2. CASE ~(kjob[k].op = "forgot" /\ c = row.code)
      <4>1. c = row.code => account[id].code = c /\ id \in live /\ c # d
        BY <3>2, <1>6, <1>7, <1>22
      <4>2. \A b \in live' : account'[b].code = c => b \in live /\ account[b].code = c
        BY <4>1, <1>6, <1>8, <1>9
      <4>3. /\ spends[c] = 0
            /\ \A b \in live : account[b].code = c => b = a
            /\ \A i \in Spenders(c) : kjob[i].id = a
        BY <4>2, <2>1, <2>3 DEF SpendingOK
      <4>4. c # d
        <5>1. SUFFICES ASSUME c = d PROVE FALSE
          OBVIOUS
        <5>2. a = id
          BY <5>1, <4>3, <1>5, <1>18
        <5>3. c = row.code
          BY <5>2, <2>3, <1>9
        <5>4. QED
          BY <5>1, <5>3, <4>1
      <4>5. QED
        BY <4>2, <4>3, <4>4, <1>14, <1>17
    <3>3. QED
      BY <3>1, <3>2
  <2>4. QED
    BY <2>2, <2>3 DEF SpendingOK
<1>23. \A a \in DOMAIN account : account[a].table = "Customer" /\ account[a].code # 0 =>
           account[a].code # row.code
  <2>1. CodesApart
    BY DEF AccountsInv
  <2>2. CASE kjob[k].op = "save"
    BY <2>1, <2>2, <1>2 DEF CodesApart
  <2>3. CASE kjob[k].op = "forgot"
    BY <2>3, <1>19 DEF OnRecord
  <2>4. QED
    BY <2>2, <2>3, <1>7
<1>24. CodesApart'
  <2> SUFFICES ASSUME NEW a \in DOMAIN account', account'[a].table = "Customer",
                      account'[a].code # 0
               PROVE  /\ \A b \in DOMAIN account' : account'[b].table = "User" =>
                            account'[b].code # account'[a].code
                      /\ \A i \in Clerks : kjob'[i].op = "save" =>
                            \A r \in kjob'[i].row : r.code # account'[a].code
    BY DEF CodesApart
  <2>1. CodesApart
    BY DEF AccountsInv
  <2>2. \A i \in Clerks : kjob'[i].op = "save" => kjob'[i] = kjob[i]
    BY <1>13, <1>16
  <2>3. a # id
    BY <1>2, <1>9
  <2>4. a \in DOMAIN account /\ account'[a] = account[a]
    BY <2>3, <1>9
  <2>5. QED
    BY <2>1, <2>2, <2>4, <1>9, <1>23 DEF CodesApart
<1>25. ASSUME NEW a \in live', Subject(a)' \notin jumbled'
       PROVE  TurnOK(a)'
  <2>1. CASE Subject(a)' \notin B
    <3>1. \A i \in Clerks : kjob'[i] = kjob[i] \/ kjob[i].op # "issue"
      BY <1>7, <1>13
    <3>2. a \in DOMAIN account
      BY <1>6, <1>8
    <3>3. account[a].table = "Customer" /\ account[a].code # 0 =>
              account[a].code \in again \/ account[a].code \notin again'
      BY <3>2, <1>6, <1>23
    <3>4. QED
      BY <2>1, <3>1, <3>3, <1>12, <1>14, <1>25, TurnFrame
  <2>2. CASE Subject(a)' \in B
    <3>1. kjob[k].alone /\ jumbled' = jumbled /\ row.email = account[id].email
      BY <1>6, <1>25, <2>2
    <3>2. \A b \in DOMAIN account : Subject(b)' = Subject(b)
      BY <3>1, <1>11
    <3>3. a \in DOMAIN account /\ Subject(a) \in B \ jumbled
      BY <2>2, <3>1, <3>2, <1>6, <1>8, <1>25
    <3>4. \A b \in live : Subject(b) \in B \ jumbled /\ Subject(b) = Subject(id) => b = id
      BY <3>1, <1>1, <1>3, <1>5 DEF AccountsInv, KAloneOK, KTurn, Concerned
    <3>5. ASSUME NEW b \in live', Subject(b)' = Subject(a)' PROVE b = a
      <4>1. b \in DOMAIN account /\ Subject(b) = Subject(a)
        BY <3>2, <3>3, <3>5, <1>6, <1>8
      <4>2. CASE a = id \/ b = id
        BY <4>1, <4>2, <3>3, <3>4, <1>6
      <4>3. CASE a # id /\ b # id
        <5>1. a \in live /\ b \in live
          BY <4>3, <3>5, <1>6, <1>25
        <5>2. QED
          BY <5>1, <4>1, <3>3 DEF AccountsInv, TurnsOK, TurnOK
      <4>4. QED
        BY <4>2, <4>3
    <3>6. account'[a].table # "Customer"
      <4>1. Subject(a)' \in {"User"} \X Emails
        BY <2>2, <1>7
      <4>2. account'[a].table = "User"
        BY <4>1 DEF Subject
      <4>3. QED
        BY <4>2
    <3>7. QED
      BY <3>5, <3>6 DEF TurnOK
  <2>3. QED
    BY <2>1, <2>2
<1>26. TurnsOK'
  BY <1>25 DEF TurnsOK
<1>27. QED
  BY <1>6, <1>13, <1>15, <1>21, <1>22, <1>24, <1>26 DEF AccountsInv, Codes

---------------------------------------------------------------------------
(* Accounts: the invariant *)

LEMMA RowWithCode ==
    ASSUME NEW r \in Account, NEW c \in Codes
    PROVE  /\ [r EXCEPT !.code = c] \in Account
           /\ [r EXCEPT !.code = c].table = r.table /\ [r EXCEPT !.code = c].code = c
BY DEF Account

LEMMA RowWithEmail ==
    ASSUME NEW r \in Account, NEW e \in Emails
    PROVE  /\ [r EXCEPT !.email = e] \in Account
           /\ [r EXCEPT !.email = e].table = r.table /\ [r EXCEPT !.email = e].code = r.code
BY DEF Account

\* The handlers of users that load an account to save it whole.
LEMMA UserHandlersKeep ==
    ASSUME AccountsInv, inUse \in Mixes, NEW k \in Clerks, NEW a \in live,
           \/ ForgotPassword(k, a) \/ ResetPassword(k, a) \/ BasicResetPassword(k, a)
           \/ \E e \in Emails : UpdateUser(k, a, e)
    PROVE  AccountsInv'
<1>1. a \in DOMAIN account /\ account[a] \in Account /\ account[a].code \in Codes /\ 0 \in Codes
  BY AccountsFacts, PartiesAssumption
<1>2. CASE ForgotPassword(k, a)
  <2>1. UserLoad(k, "forgot", a, [account[a] EXCEPT !.code = issued + 1], 0, 1)
    BY <1>2 DEF ForgotPassword
  <2>2. issued + 1 <= inUse.rows
    BY <2>1 DEF UserLoad, KStart
  <2>3. issued + 1 \in Codes
    BY <2>2, CodesLeft
  <2>4. PICK row \in Account :
            row = [account[a] EXCEPT !.code = issued + 1] /\ row.table = account[a].table
            /\ row.code = issued + 1
    BY <1>1, <2>3, RowWithCode, Zenon
  <2>5. UserLoad(k, "forgot", a, row, 0, 1)
    BY <2>1, <2>4
  <2>6. QED
    BY <1>1, <2>4, <2>5, UserLoadKeeps DEF SaveOps
<1>3. CASE ResetPassword(k, a)
  <2>1. UserLoad(k, "save", a, [account[a] EXCEPT !.code = 0], account[a].code, 0)
    BY <1>3 DEF ResetPassword, SpentCode
  <2>2. PICK row \in Account :
            row = [account[a] EXCEPT !.code = 0] /\ row.table = account[a].table /\ row.code = 0
    BY <1>1, RowWithCode, Zenon
  <2>3. PICK code \in Codes : code = account[a].code
    BY <1>1
  <2>4. UserLoad(k, "save", a, row, code, 0)
    BY <2>1, <2>2, <2>3
  <2>5. QED
    BY <2>2, <2>3, <2>4, UserLoadKeeps DEF SaveOps
<1>4. CASE BasicResetPassword(k, a)
  <2>1. UserLoad(k, "save", a, [account[a] EXCEPT !.code = 0], 0, 0)
    BY <1>4 DEF BasicResetPassword
  <2>2. PICK row \in Account :
            row = [account[a] EXCEPT !.code = 0] /\ row.table = account[a].table /\ row.code = 0
    BY <1>1, RowWithCode, Zenon
  <2>3. UserLoad(k, "save", a, row, 0, 0)
    BY <2>1, <2>2
  <2>4. QED
    BY <1>1, <2>2, <2>3, UserLoadKeeps DEF SaveOps
<1>5. ASSUME NEW e \in Emails, UpdateUser(k, a, e) PROVE AccountsInv'
  <2>1. UserLoad(k, "save", a, [account[a] EXCEPT !.email = e], 0, 0)
    BY <1>5 DEF UpdateUser
  <2>2. PICK row \in Account :
            row = [account[a] EXCEPT !.email = e] /\ row.table = account[a].table
            /\ row.code = account[a].code
    BY <1>1, RowWithEmail, Zenon
  <2>3. UserLoad(k, "save", a, row, 0, 0)
    BY <2>1, <2>2
  <2>4. QED
    BY <1>1, <2>2, <2>3, UserLoadKeeps DEF SaveOps
<1>6. QED
  BY <1>2, <1>3, <1>4, <1>5

LEMMA AuthControllerKeeps ==
    ASSUME AccountsInv, inUse \in Mixes, NEW k \in Clerks, AuthController(k)
    PROVE  AccountsInv'
<1>1. ASSUME NEW e \in Emails, HandleValidation(k, e) PROVE AccountsInv'
  <2>1. OpenLoad(k, "create", "Customer", e, 0)
    BY <1>1 DEF HandleValidation
  <2>2. QED
    BY <2>1, OpenLoadKeeps DEF OpenOps, Tables
<1>2. ASSUME NEW e \in Emails, NEW t \in Tables, Register(k, t, e) PROVE AccountsInv'
  <2>1. OpenLoad(k, "register", t, e, 1)
    BY <1>2 DEF Register
  <2>2. QED
    BY <2>1, OpenLoadKeeps DEF OpenOps
<1>3. ASSUME NEW a \in live, RetryActive(k, a) \/ RetryPassword(k, a) PROVE AccountsInv'
  <2>1. /\ IssueLoad(k, a) /\ mailed' = [mailed EXCEPT ![a] = issued + 1]
        /\ UNCHANGED <<account, live, spends, again, jumbled>>
    BY <1>3 DEF RetryActive, RetryPassword
  <2>2. QED
    BY <2>1, IssueLoadKeeps
<1>4. ASSUME NEW a \in live, RetryPasswordAdmin(k, a) PROVE AccountsInv'
  <2>1. /\ IssueLoad(k, a) /\ mailed' = mailed /\ account[a].table = "User"
        /\ UNCHANGED <<account, live, spends, again, jumbled>>
    BY <1>4 DEF RetryPasswordAdmin, KDatabase
  <2>2. QED
    BY <2>1, IssueLoadKeeps
<1>5. ASSUME NEW a \in live, NEW code \in Codes, HandleActive(k, a, code) PROVE AccountsInv'
  <2>1. SpendLoad(k, "activate", a) /\ account[a].code # 0
    BY <1>5 DEF HandleActive, CodeFits
  <2>2. QED
    BY <2>1, SpendLoadKeeps DEF SpendOps
<1>6. ASSUME NEW a \in live, NEW code \in Codes, ChangePassword(k, a, code) PROVE AccountsInv'
  <2>1. SpendLoad(k, "change", a) /\ account[a].code # 0 /\ account[a].table = "Customer"
    BY <1>6 DEF ChangePassword, CodeFits
  <2>2. QED
    BY <2>1, SpendLoadKeeps DEF SpendOps
<1>7. ASSUME NEW a \in live,
             ForgotPassword(k, a) \/ ResetPassword(k, a) \/ BasicResetPassword(k, a)
      PROVE  AccountsInv'
  BY <1>7, UserHandlersKeep
<1>8. QED
  BY <1>1, <1>2, <1>3, <1>4, <1>5, <1>6, <1>7 DEF AuthController

LEMMA UserControllerKeeps ==
    ASSUME AccountsInv, inUse \in Mixes, NEW k \in Clerks, UserController(k)
    PROVE  AccountsInv'
<1>1. ASSUME NEW e \in Emails, CreateUser(k, e) PROVE AccountsInv'
  <2>1. OpenLoad(k, "create", "User", e, 1)
    BY <1>1 DEF CreateUser
  <2>2. QED
    BY <2>1, OpenLoadKeeps DEF OpenOps, Tables
<1>2. ASSUME NEW a \in live, NEW e \in Emails, UpdateUser(k, a, e) PROVE AccountsInv'
  BY <1>2, UserHandlersKeep
<1>3. ASSUME NEW set \in SUBSET Emails, CreateManyUsers(k, set) PROVE AccountsInv'
  BY <1>3, CreateManyUsersKeeps
<1>4. ASSUME NEW a \in live, RemoveUser(a) PROVE AccountsInv'
  BY <1>4, RemoveAccountKeeps DEF RemoveUser
<1>5. QED
  BY <1>1, <1>2, <1>3, <1>4 DEF UserController

LEMMA CustomersControllerKeeps ==
    ASSUME AccountsInv, inUse \in Mixes, NEW k \in Clerks, CustomersController(k)
    PROVE  AccountsInv'
<1>1. ASSUME NEW e \in Emails, CreateCustomerByPageAdmin(k, e) PROVE AccountsInv'
  <2>1. OpenLoad(k, "create", "Customer", e, 1)
    BY <1>1 DEF CreateCustomerByPageAdmin
  <2>2. QED
    BY <2>1, OpenLoadKeeps DEF OpenOps, Tables
<1>2. ASSUME NEW a \in live, NEW e \in Emails, UpdateCustomer(a, e) PROVE AccountsInv'
  BY <1>2, UpdateCustomerKeeps
<1>3. ASSUME NEW a \in live, RemoveCustomer(a) PROVE AccountsInv'
  BY <1>3, RemoveAccountKeeps DEF RemoveCustomer
<1>4. QED
  BY <1>1, <1>2, <1>3 DEF CustomersController

LEMMA AccountsBegin ==
    ASSUME Init
    PROVE  AccountsInv
<1>1. /\ account = <<>> /\ live = {} /\ issued = 0 /\ mailed = <<>>
      /\ kjob = [k \in Clerks |-> IdleKJob]
      /\ spends = [c \in Codes |-> 0] /\ again = {} /\ jumbled = {}
  BY DEF Init, KInit
<1>2. MaxRows \in Nat /\ 0 \in Codes
  BY PartiesAssumption DEF Codes
<1>3. \A k \in Clerks : /\ kjob[k] \in KJob /\ kjob[k].op = "none" /\ kjob[k].phase = "idle"
                        /\ kjob[k].about = {} /\ kjob[k].row = {}
  BY <1>1, IdleKJobType
<1>4. AccountsTypeOK
  <2>1. account \in Seq(Account) /\ Len(account) = 0 /\ DOMAIN account = {}
    BY <1>1
  <2>2. mailed \in Seq(Codes) /\ Len(mailed) = 0
    BY <1>1
  <2>3. kjob \in [Clerks -> KJob]
    BY <1>1, IdleKJobType
  <2>4. QED
    BY <2>1, <2>2, <2>3, <1>1, <1>2 DEF AccountsTypeOK
<1>5. ASSUME NEW k \in Clerks PROVE KJobOK(k) /\ KAloneOK(k)
  <2>1. KSound(kjob[k])
    BY <1>3 DEF KSound, OpenOps, SpendOps, SaveOps
  <2>2. KTurn(kjob[k])
    BY <1>3 DEF KTurn, OpenOps, SpendOps, SaveOps
  <2>3. QED
    BY <2>1, <2>2, <1>3 DEF KJobOK, KAloneOK
<1>6. \A c \in Codes : Spenders(c) = {} /\ \A k \in Clerks : ~Brings(kjob[k], c)
  BY <1>3 DEF Spenders, Brings, OpenOps, SpendOps
<1>7. \A c \in Codes \ {0} : NewOK(c)
  <2>1. \A c \in Codes : ~OnRecord(c)
    BY <1>1, <1>3, <1>6 DEF OnRecord
  <2>2. QED
    BY <2>1, <1>6 DEF NewOK
<1>8. ASSUME NEW c \in Codes PROVE SpendingOK(c)
  <2>1. Cardinality({}) = 0
    BY FS_EmptySet, Zenon
  <2>2. Cardinality(Spenders(c)) = 0
    BY <2>1, <1>6
  <2>3. Cardinality(Clerks) \in Nat
    BY PartiesAssumption, FS_CardinalityType
  <2>4. spends[c] + Cardinality(Spenders(c)) <= Cardinality(Clerks)
    BY <2>2, <2>3, <1>1
  <2>5. QED
    BY <2>4, <1>1 DEF SpendingOK
<1>9. CodesApart /\ TurnsOK
  <2>1. DOMAIN account = {}
    BY <1>1
  <2>2. QED
    BY <2>1, <1>1 DEF CodesApart, TurnsOK
<1>10. QED
  BY <1>4, <1>5, <1>7, <1>8, <1>9 DEF AccountsInv

LEMMA AccountsKept ==
    ASSUME AccountsInv, inUse \in Mixes, [Next]_shopVars
    PROVE  AccountsInv'
<1>1. CASE UNCHANGED <<inUse, accountVars>>
  <2>1. UNCHANGED <<account, live, issued, kjob, mailed, spends, again, jumbled>>
    BY <1>1 DEF accountVars
  <2>2. AccountsTypeOK' /\ CodesApart'
    BY <2>1 DEF AccountsInv, AccountsTypeOK, CodesApart
  <2>3. \A i \in Clerks : KJobOK(i)'
    BY <2>1 DEF AccountsInv, KJobOK, KSound, Subject
  <2>4. \A i \in Clerks : KAloneOK(i)'
    BY <2>1 DEF AccountsInv, KAloneOK, KTurn, Concerned, Subject
  <2>5. \A c \in Codes \ {0} : NewOK(c)'
    BY <2>1 DEF AccountsInv, NewOK, Brings, OnRecord, Spenders
  <2>6. \A c \in Codes \ ({0} \cup again) : SpendingOK(c)'
    BY <2>1 DEF AccountsInv, SpendingOK, Spenders
  <2>7. TurnsOK'
    BY <2>1 DEF AccountsInv, TurnsOK, TurnOK, Subject
  <2>8. QED
    BY <2>1, <2>2, <2>3, <2>4, <2>5, <2>6, <2>7 DEF AccountsInv
<1>2. CASE KNext
  <2>1. ASSUME NEW k \in Clerks, AuthController(k) PROVE AccountsInv'
    BY <2>1, AuthControllerKeeps
  <2>2. ASSUME NEW k \in Clerks, UserController(k) PROVE AccountsInv'
    BY <2>2, UserControllerKeeps
  <2>3. ASSUME NEW k \in Clerks, CustomersController(k) PROVE AccountsInv'
    BY <2>3, CustomersControllerKeeps
  <2>4. ASSUME NEW k \in Clerks, NEW e \in Emails, ManyFind(k, e) PROVE AccountsInv'
    BY <2>4, ManyFindKeeps
  <2>5. ASSUME NEW k \in Clerks, OpenSave(k) PROVE AccountsInv'
    BY <2>5, OpenSaveKeeps
  <2>6. ASSUME NEW k \in Clerks, ManyInsert(k) PROVE AccountsInv'
    BY <2>6, ManyInsertKeeps
  <2>7. ASSUME NEW k \in Clerks, IssueSave(k) PROVE AccountsInv'
    BY <2>7, IssueSaveKeeps
  <2>8. ASSUME NEW k \in Clerks, SpendSave(k) PROVE AccountsInv'
    BY <2>8, SpendSaveKeeps
  <2>9. ASSUME NEW k \in Clerks, UserSave(k) PROVE AccountsInv'
    BY <2>9, UserSaveKeeps
  <2>10. ASSUME NEW k \in Clerks, KAbort(k) PROVE AccountsInv'
    BY <2>10, KAbortKeeps
  <2>11. QED
    BY <1>2, <2>1, <2>2, <2>3, <2>4, <2>5, <2>6, <2>7, <2>8, <2>9, <2>10 DEF KNext
<1>3. QED
  BY <1>1, <1>2, AccountsStep

\* What a request in flight about accounts knows, and where a code may be, is
\* as AccountsInv says (AuthService, UserService, CustomersService).
THEOREM AccountsInvariant == Spec => []AccountsInv
<1>1. Init => AccountsInv
  BY AccountsBegin
<1>2. AccountsInv /\ inUse \in Mixes /\ [Next]_shopVars => AccountsInv'
  BY AccountsKept
<1>3. QED
  BY <1>1, <1>2, MixStays, PTL DEF Spec

\* Accounts of a table share an address only after requests about it
\* overlapped (register, createUser, createManyUsers and the others).
THEOREM OneAccountEachHolds == Spec => []OneAccountEach
<1>1. AccountsInv => OneAccountEach
  <2> SUFFICES ASSUME AccountsInv, NEW t \in Tables, NEW e \in Emails, <<t, e>> \notin jumbled
               PROVE  Cardinality(With(t, e)) <= 1
    BY DEF OneAccountEach
  <2>1. \A a \in With(t, e) : a \in live /\ Subject(a) = <<t, e>>
    BY DEF With, Subject
  <2>2. \A a, b \in With(t, e) : a = b
    BY <2>1 DEF AccountsInv, TurnsOK, TurnOK
  <2>3. QED
    BY <2>2, AtMostOne
<1>2. QED
  BY <1>1, AccountsInvariant, PTL

\* A code that a customer was mailed works until it is spent, while requests
\* about the customer take turns (retryActive, retryPassword, register).
THEOREM MailedCodeWorksHolds == Spec => []MailedCodeWorks
<1>1. AccountsInv => MailedCodeWorks
  <2> SUFFICES ASSUME AccountsInv, NEW a \in live, account[a].table = "Customer",
                      mailed[a] # 0,
                      Subject(a) \notin jumbled \cup UNION {kjob[k].about : k \in KBusy}
               PROVE  IF account[a].code = 0 THEN spends[mailed[a]] > 0
                                             ELSE account[a].code = mailed[a]
    BY DEF MailedCodeWorks
  <2>1. \/ \E k \in Clerks : kjob[k].op = "issue" /\ Subject(a) \in kjob[k].about
        \/ account[a].code = mailed[a]
        \/ account[a].code = 0 /\ spends[mailed[a]] > 0
    BY DEF AccountsInv, TurnsOK, TurnOK
  <2>2. \A k \in Clerks : kjob[k].op = "issue" => k \in KBusy
    BY DEF AccountsInv, KJobOK, KBusy
  <2>3. QED
    BY <2>1, <2>2
<1>2. QED
  BY <1>1, AccountsInvariant, PTL

\* A code that nothing put back is spent by the requests that overlap, and by
\* none after them (handleActive, changePassword, resetPassword).
THEOREM CodeSpentOnceHolds == Spec => []CodeSpentOnce
<1>1. AccountsInv => CodeSpentOnce
  <2> SUFFICES ASSUME AccountsInv, NEW c \in Codes \ again
               PROVE  spends[c] <= Cardinality(Clerks)
    BY DEF CodeSpentOnce
  <2>1. spends[c] \in Nat /\ spends[0] = 0
    BY DEF AccountsInv, AccountsTypeOK
  <2>2. IsFiniteSet(Clerks) /\ IsFiniteSet(Spenders(c))
    BY PartiesAssumption, FS_Subset DEF Spenders
  <2>3. Cardinality(Clerks) \in Nat /\ Cardinality(Spenders(c)) \in Nat
    BY <2>2, FS_CardinalityType
  <2>4. CASE c = 0
    BY <2>1, <2>3, <2>4
  <2>5. CASE c # 0
    <3>1. spends[c] + Cardinality(Spenders(c)) <= Cardinality(Clerks)
      BY <2>5 DEF AccountsInv, SpendingOK
    <3>2. QED
      BY <3>1, <2>1, <2>3
  <2>6. QED
    BY <2>4, <2>5
<1>2. QED
  BY <1>1, AccountsInvariant, PTL

---------------------------------------------------------------------------
(* The cart *)

LEMMA CartStep ==
    ASSUME [Next]_shopVars
    PROVE  \/ CNext /\ UNCHANGED inUse
           \/ UNCHANGED <<inUse, cartVars>>
BY DEF Next, shopVars

LEMMA IdleCJobType ==
    /\ IdleCJob \in CJob /\ IdleCJob.phase = "idle" /\ IdleCJob.op = "none"
    /\ IdleCJob.items = {} /\ IdleCJob.customers = {}
BY CartAssumption DEF IdleCJob, CJob, CartQuantity

LEMMA CartFacts ==
    ASSUME CartInv
    PROVE  /\ Len(item) \in Nat /\ DOMAIN item = 1 .. Len(item) /\ DOMAIN item \subseteq Rows
           /\ Len(item) <= MaxRows /\ MaxRows \in Nat
           /\ item \in [1 .. Len(item) -> CartItem] /\ item \in Seq(CartItem)
           /\ \A i \in DOMAIN item : /\ item[i] \in CartItem /\ item[i].sku \in Skus
                                     /\ item[i].owner \in Customers \cup {Nobody}
           /\ inCart \subseteq DOMAIN item /\ carts \subseteq Customers
           /\ cjob \in [Clerks -> CJob] /\ \A k \in Clerks : cjob[k] \in CJob
           /\ \A k \in Clerks : CJobOK(k) /\ cjob[k].items \subseteq DOMAIN item
           /\ \A k \in CBusy : k \in Clerks
           /\ ordered \in [Rows -> Nat]
           /\ MaxCartQty \in Nat /\ Quantities \subseteq CartQuantity /\ Nobody \notin Customers
<1>1. /\ Len(item) \in Nat /\ DOMAIN item = 1 .. Len(item)
      /\ \A i \in DOMAIN item : item[i] \in CartItem
      /\ item \in [1 .. Len(item) -> CartItem] /\ item \in Seq(CartItem)
  BY TableDomain DEF CartInv, CartTypeOK
<1>2. \A i \in DOMAIN item : item[i].sku \in Skus /\ item[i].owner \in Customers \cup {Nobody}
  BY <1>1 DEF CartItem
<1>3. MaxRows \in Nat /\ Len(item) <= MaxRows
  BY PartiesAssumption DEF CartInv, CartTypeOK
<1>4. DOMAIN item \subseteq Rows
  BY <1>1, <1>3 DEF Rows
<1>5. \A k \in CBusy : k \in Clerks
  BY DEF CBusy
<1>6. \A k \in Clerks : CJobOK(k) /\ cjob[k].items \subseteq DOMAIN item
  BY DEF CartInv, CJobOK
<1>7. QED
  BY <1>1, <1>2, <1>3, <1>4, <1>5, <1>6, CartAssumption DEF CartInv, CartTypeOK, CartQuantity

LEMMA TakingBound ==
    /\ \A i : /\ Taking(i) \subseteq Clerks /\ Cardinality(Taking(i)) \in Nat
              /\ Cardinality(Taking(i)) <= Cardinality(Clerks)
    /\ Cardinality(Clerks) \in Nat /\ Cardinality(Clerks) >= 1
<1>1. \A i : Taking(i) \subseteq Clerks
  BY DEF Taking
<1>2. IsFiniteSet(Clerks) /\ Clerks # {}
  BY PartiesAssumption
<1>3. \A i : Cardinality(Taking(i)) \in Nat /\ Cardinality(Taking(i)) <= Cardinality(Clerks)
  BY <1>1, <1>2, SubsetBound
<1>4. Cardinality(Clerks) \in Nat
  BY <1>2, FS_CardinalityType
<1>5. Cardinality(Clerks) # 0
  BY <1>2, FS_EmptySet
<1>6. QED
  BY <1>1, <1>3, <1>4, <1>5

\* The orders of an item become fewer, if anything, and it gains no owner.
LEMMA TakenStays ==
    ASSUME CartInv, NEW i \in DOMAIN item, NEW s, s = Taking(i)',
           item'[i].owner \in {item[i].owner, Nobody},
           stirred \subseteq stirred', ordered'[i] = ordered[i], s \subseteq Taking(i),
           i \in inCart' /\ item'[i].owner # Nobody => i \in inCart
    PROVE  TakenOnce(i)'
<1>1. IsFiniteSet(Taking(i))
  BY TakingBound, PartiesAssumption, FS_Subset
<1>2. /\ Cardinality(s) \in Nat /\ Cardinality(Taking(i)) \in Nat
      /\ Cardinality(s) <= Cardinality(Taking(i))
  BY <1>1, SubsetBound
<1>3. ordered[i] \in Nat /\ TakenOnce(i)
  BY CartFacts DEF CartInv
<1>4. Cardinality(Clerks) \in Nat /\ Cardinality(Clerks) >= 1
  BY TakingBound
<1>5. CASE item'[i].owner # Nobody
  <2>1. /\ item'[i].owner = item[i].owner /\ item[i].owner # Nobody
        /\ i \in inCart' => ordered'[i] = 0
        /\ ordered[i] + Cardinality(Taking(i)) <=
              IF item[i].owner \in stirred THEN Cardinality(Clerks) ELSE 1
    BY <1>3, <1>5 DEF TakenOnce
  <2>2. ordered'[i] + Cardinality(s) <=
           IF item[i].owner \in stirred' THEN Cardinality(Clerks) ELSE 1
    BY <2>1, <1>2, <1>3, <1>4
  <2>3. QED
    BY <2>1, <2>2 DEF TakenOnce
<1>6. CASE item'[i].owner = Nobody
  BY <1>6 DEF TakenOnce
<1>7. QED
  BY <1>5, <1>6

\* A request starts.
LEMMA CartStarts ==
    ASSUME CartInv, NEW k \in Clerks, NEW j \in CJob, CStart(k, j),
           j.phase \in {"noCart", "loaded"}, j.items \subseteq DOMAIN item,
           IF j.op = "order"
             THEN /\ j.phase = "loaded" /\ j.items \subseteq inCart
                  /\ \A i \in j.items : item[i].owner \in j.customers
             ELSE j.customers \subseteq Customers
    PROVE  CartInv'
<1>1. /\ k \notin CBusy /\ cjob' = [cjob EXCEPT ![k] = j]
      /\ UNCHANGED <<carts, item, inCart, asked, ordered>>
      /\ stirred' = stirred \cup (j.customers \cap UNION {cjob[l].customers : l \in CBusy})
  BY DEF CStart, Stir, CDatabase
<1>2. /\ cjob' \in [Clerks -> CJob] /\ cjob'[k] = j
      /\ \A l \in Clerks \ {k} : cjob'[l] = cjob[l]
  BY <1>1, CartFacts
<1>3. CartTypeOK'
  BY <1>1, <1>2 DEF CartInv, CartTypeOK
<1>4. ASSUME NEW l \in Clerks PROVE CJobOK(l)'
  <2>1. CJobOK(l)
    BY CartFacts
  <2>2. CASE l = k
    BY <2>2, <1>1, <1>2 DEF CJobOK
  <2>3. CASE l # k
    BY <2>1, <2>3, <1>1, <1>2 DEF CJobOK
  <2>4. QED
    BY <2>2, <2>3
<1>5. ASSUME NEW i \in DOMAIN item PROVE TakenOnce(i)'
  <2>1. PICK s : s = Taking(i)'
    OBVIOUS
  <2>2. s \subseteq Taking(i) \cup {k}
    BY <2>1, <1>2 DEF Taking
  <2>3. CASE j.op = "order" /\ i \in j.items /\ item[i].owner # Nobody
    <3>1. TakenOnce(i) /\ ordered[i] = 0 /\ item[i].owner \in j.customers
      BY <2>3 DEF CartInv, TakenOnce
    <3>2. s \subseteq Clerks
      BY <2>2 DEF Taking
    <3>3. Cardinality(s) \in Nat /\ Cardinality(s) <= Cardinality(Clerks)
      BY <3>2, SubsetBound, PartiesAssumption
    <3>4. item[i].owner \notin stirred' => Cardinality(s) <= 1
      <4>1. SUFFICES ASSUME item[i].owner \notin stirred' PROVE Cardinality(s) <= 1
        OBVIOUS
      <4>2. \A l \in Taking(i) : l \in CBusy /\ item[i].owner \in cjob[l].customers
        <5>1. SUFFICES ASSUME NEW l \in Taking(i)
                       PROVE  l \in CBusy /\ item[i].owner \in cjob[l].customers
          OBVIOUS
        <5>2. l \in Clerks /\ cjob[l].op = "order" /\ i \in cjob[l].items
          BY DEF Taking
        <5>3. CJobOK(l)
          BY <5>2, CartFacts
        <5>4. QED
          BY <5>2, <5>3, <2>3 DEF CJobOK, CBusy
      <4>3. Taking(i) = {}
        BY <4>1, <4>2, <3>1, <1>1
      <4>4. \A x, y \in s : x = y
        BY <4>3, <2>2
      <4>5. QED
        BY <4>4, AtMostOne
    <3>5. ordered'[i] = 0 /\ item' = item
      BY <3>1, <1>1
    <3>6. ordered'[i] + Cardinality(s) <=
             IF item'[i].owner \in stirred' THEN Cardinality(Clerks) ELSE 1
      BY <3>3, <3>4, <3>5
    <3>7. QED
      BY <3>5, <3>6, <2>1 DEF TakenOnce
  <2>4. CASE item[i].owner = Nobody
    BY <2>4, <1>1 DEF TakenOnce
  <2>5. CASE ~(j.op = "order" /\ i \in j.items)
    <3>1. s \subseteq Taking(i)
      BY <2>1, <2>5, <1>2 DEF Taking
    <3>2. QED
      BY <3>1, <2>1, <1>1, TakenStays
  <2>6. QED
    BY <2>3, <2>4, <2>5
<1>6. \A i \in Rows \ DOMAIN item : ordered[i] = 0
  BY DEF CartInv
<1>7. QED
  BY <1>1, <1>3, <1>4, <1>5, <1>6 DEF CartInv

\* A request ends or changes its phase; items may leave the cart.
LEMMA CartEnds ==
    ASSUME CartInv, NEW k \in Clerks, NEW j \in CJob, cjob' = [cjob EXCEPT ![k] = j],
           j = IdleCJob \/ (j.op = cjob[k].op /\ j.items = cjob[k].items
                            /\ j.customers = cjob[k].customers /\ j.phase = "loaded"),
           carts' \subseteq Customers, inCart' \subseteq inCart, stirred' = stirred,
           UNCHANGED <<item, ordered>>
    PROVE  CartInv'
<1>1. /\ cjob' \in [Clerks -> CJob] /\ cjob'[k] = j
      /\ \A l \in Clerks \ {k} : cjob'[l] = cjob[l]
  BY CartFacts
<1>2. CartTypeOK'
  BY <1>1 DEF CartInv, CartTypeOK
<1>3. ASSUME NEW l \in Clerks PROVE CJobOK(l)'
  <2>1. CJobOK(l)
    BY CartFacts
  <2>2. CASE l = k
    BY <2>1, <2>2, <1>1, IdleCJobType DEF CJobOK
  <2>3. CASE l # k
    BY <2>1, <2>3, <1>1 DEF CJobOK
  <2>4. QED
    BY <2>2, <2>3
<1>4. ASSUME NEW i \in DOMAIN item PROVE TakenOnce(i)'
  <2>1. PICK s : s = Taking(i)'
    OBVIOUS
  <2>2. s \subseteq Taking(i)
    BY <2>1, <1>1, IdleCJobType DEF Taking
  <2>3. QED
    BY <2>1, <2>2, TakenStays
<1>5. QED
  BY <1>2, <1>3, <1>4 DEF CartInv

\* Jobs after one has ended.
LEMMA CartJobGone ==
    ASSUME CartInv, NEW k \in Clerks, CDone(k)
    PROVE  /\ cjob' \in [Clerks -> CJob] /\ cjob'[k] = IdleCJob
           /\ \A l \in Clerks \ {k} : cjob'[l] = cjob[l]
           /\ \A i : Taking(i)' \subseteq Taking(i)
           /\ \A i : k \notin Taking(i)'
<1>1. /\ cjob' \in [Clerks -> CJob] /\ cjob'[k] = IdleCJob
      /\ \A l \in Clerks \ {k} : cjob'[l] = cjob[l]
  BY CartFacts, IdleCJobType DEF CDone
<1>2. (\A i : Taking(i)' \subseteq Taking(i)) /\ \A i : k \notin Taking(i)'
  BY <1>1, IdleCJobType DEF Taking
<1>3. QED
  BY <1>1, <1>2

\* Items are saved; one that was removed meanwhile loses its owner.
LEMMA SaveItemsKeeps ==
    ASSUME CartInv, NEW k \in Clerks, SaveItems(cjob[k]), CDone(k),
           UNCHANGED <<carts, stirred, ordered>>
    PROVE  CartInv'
<1>1. PICK set, q : set = cjob[k].items /\ q = cjob[k].quantity
  OBVIOUS
<1>2. PICK n \in Nat : n = Len(item) /\ DOMAIN item = 1 .. n /\ item \in [1 .. n -> CartItem]
                       /\ inCart \subseteq 1 .. n
  BY CartFacts
<1>3. PICK in : in = inCart
  OBVIOUS
<1>4. /\ item' = [i \in 1 .. n |->
                    IF i \in set THEN [item[i] EXCEPT !.quantity = q,
                                          !.owner = IF i \in in THEN @ ELSE Nobody]
                                 ELSE item[i]]
      /\ inCart' = inCart \cup set
  BY <1>1, <1>2, <1>3 DEF SaveItems
<1>5. set \subseteq 1 .. n /\ q \in CartQuantity
  BY <1>1, <1>2, CartFacts DEF CJob
<1>6. ASSUME NEW i \in 1 .. n
      PROVE  /\ item'[i] \in CartItem /\ item'[i].owner \in {item[i].owner, Nobody}
             /\ i \in set /\ item'[i].owner # Nobody => i \in inCart
  <2>1. item[i] \in CartItem
    BY <1>2
  <2>2. CASE i \in set /\ i \in in
    <3>1. item'[i] = [item[i] EXCEPT !.quantity = q, !.owner = @]
      BY <2>2, <1>4
    <3>2. QED
      BY <3>1, <2>1, <2>2, <1>3, <1>5 DEF CartItem
  <2>3. CASE i \in set /\ i \notin in
    <3>1. item'[i] = [item[i] EXCEPT !.quantity = q, !.owner = Nobody]
      BY <2>3, <1>4
    <3>2. QED
      BY <3>1, <2>1, <1>5 DEF CartItem
  <2>4. CASE i \notin set
    BY <2>1, <2>4, <1>4
  <2>5. QED
    BY <2>2, <2>3, <2>4
<1>7. item' \in Seq(CartItem) /\ Len(item') = n /\ DOMAIN item' = 1 .. n
  <2>1. item' \in [1 .. n -> CartItem]
    BY <1>4, <1>6
  <2>2. QED
    BY <2>1, TableOf
<1>8. /\ cjob' \in [Clerks -> CJob] /\ cjob'[k] = IdleCJob
      /\ \A l \in Clerks \ {k} : cjob'[l] = cjob[l]
      /\ \A i : Taking(i)' \subseteq Taking(i)
  BY CartJobGone
<1>9. CartTypeOK'
  BY <1>2, <1>4, <1>5, <1>7, <1>8, CartFacts DEF CartInv, CartTypeOK
<1>10. ASSUME NEW l \in Clerks PROVE CJobOK(l)'
  <2>1. CJobOK(l) /\ cjob[l].items \subseteq 1 .. n
    BY <1>2, CartFacts
  <2>2. CASE l = k
    BY <2>2, <1>8, IdleCJobType DEF CJobOK
  <2>3. CASE l # k
    BY <2>1, <2>3, <1>2, <1>6, <1>7, <1>8 DEF CJobOK
  <2>4. QED
    BY <2>2, <2>3
<1>11. ASSUME NEW i \in 1 .. n PROVE TakenOnce(i)'
  <2>1. i \in inCart' /\ item'[i].owner # Nobody => i \in inCart
    BY <1>4, <1>6
  <2>2. PICK s : s = Taking(i)'
    OBVIOUS
  <2>3. s \subseteq Taking(i) /\ i \in DOMAIN item
    BY <2>2, <1>2, <1>8
  <2>4. QED
    BY <2>1, <2>2, <2>3, <1>6, TakenStays
<1>12. QED
  BY <1>2, <1>7, <1>9, <1>10, <1>11 DEF CartInv

LEMMA AddSaveKeeps ==
    ASSUME CartInv, inUse \in Mixes, NEW k \in Clerks, AddSave(k)
    PROVE  CartInv'
<1>1. cjob[k].op = "add" /\ CDone(k) /\ UNCHANGED <<carts, stirred, ordered>>
  BY DEF AddSave
<1>2. CASE cjob[k].items # {}
  BY <1>1, <1>2, SaveItemsKeeps DEF AddSave
<1>3. CASE cjob[k].items = {}
  <2>1. PICK c \in cjob[k].customers, s \in cjob[k].sku :
           item' = Append(item, [owner |-> c, sku |-> s, quantity |-> cjob[k].quantity])
    BY <1>3 DEF AddSave
  <2>2. PICK row : row = [owner |-> c, sku |-> s, quantity |-> cjob[k].quantity]
    OBVIOUS
  <2>3. PICK n : n = Len(item)
    OBVIOUS
  <2>4. row \in CartItem
    BY <2>2, CartFacts DEF CJob, CartItem
  <2>5. n < inUse.rows /\ inCart' = inCart \cup {n + 1} /\ item' = Append(item, row)
    BY <1>3, <2>1, <2>2, <2>3 DEF AddSave, HasRoom
  <2>6. n \in Nat /\ DOMAIN item = 1 .. n /\ item \in Seq(CartItem) /\ inCart \subseteq 1 .. n
    BY <2>3, CartFacts
  <2>7. /\ item' \in Seq(CartItem) /\ Len(item') = n + 1 /\ DOMAIN item' = 1 .. (n + 1)
        /\ \A i \in 1 .. n : item'[i] = item[i]
    BY <2>3, <2>4, <2>5, <2>6, AppendRow
  <2>8. n + 1 \in Rows /\ n + 1 <= MaxRows
    <3>1. inUse.rows \in Int /\ inUse.rows <= MaxRows /\ MaxRows \in Nat
      BY PartiesAssumption
    <3>2. QED
      BY <3>1, <2>5, <2>6 DEF Rows
  <2>9. /\ cjob' \in [Clerks -> CJob] /\ cjob'[k] = IdleCJob
        /\ \A l \in Clerks \ {k} : cjob'[l] = cjob[l]
        /\ \A i : Taking(i)' \subseteq Taking(i)
    BY <1>1, CartJobGone
  <2>10. 1 .. n \subseteq 1 .. (n + 1) /\ n + 1 \in 1 .. (n + 1) /\ n + 1 \notin 1 .. n
    BY <2>6
  <2>11. \A i \in 1 .. (n + 1) : i = n + 1 \/ i \in 1 .. n
    BY <2>6
  <2>12. CartTypeOK'
    BY <1>1, <2>5, <2>6, <2>7, <2>8, <2>9, <2>10, CartFacts DEF CartTypeOK
  <2>13. ASSUME NEW l \in Clerks PROVE CJobOK(l)'
    <3>1. CJobOK(l) /\ cjob[l].items \subseteq 1 .. n
      BY <2>6, CartFacts
    <3>2. CASE l = k
      BY <3>2, <2>9, IdleCJobType DEF CJobOK
    <3>3. CASE l # k
      BY <3>1, <3>3, <2>7, <2>9, <2>10 DEF CJobOK
    <3>4. QED
      BY <3>2, <3>3
  <2>14. ordered[n + 1] = 0
    BY <2>6, <2>8, <2>10 DEF CartInv
  <2>15. ASSUME NEW i \in 1 .. (n + 1) PROVE TakenOnce(i)'
    <3>1. PICK r : r = Taking(i)'
      OBVIOUS
    <3>2. r \subseteq Taking(i)
      BY <3>1, <2>9
    <3>3. CASE i = n + 1
      <4>1. Taking(i) = {}
        BY <3>3, <2>6, <2>10, CartFacts DEF Taking
      <4>2. r = {} /\ Cardinality({}) = 0
        BY <4>1, <3>2, FS_EmptySet, Zenon
      <4>3. ordered'[i] = 0
        BY <3>3, <2>14, <1>1
      <4>4. 0 + Cardinality(r) <= IF item'[i].owner \in stirred' THEN Cardinality(Clerks) ELSE 1
        BY <4>2, TakingBound
      <4>5. QED
        BY <4>3, <4>4, <3>1 DEF TakenOnce
    <3>4. CASE i \in 1 .. n
      <4>1. i \in DOMAIN item /\ item'[i].owner = item[i].owner /\ (i \in inCart' => i \in inCart)
        BY <3>4, <2>5, <2>6, <2>7, <2>10
      <4>2. ordered'[i] = ordered[i] /\ stirred \subseteq stirred'
        BY <1>1
      <4>3. QED
        BY <4>1, <4>2, <3>1, <3>2, TakenStays
    <3>5. QED
      BY <3>3, <3>4, <2>11
  <2>16. \A i \in Rows \ 1 .. (n + 1) : ordered'[i] = 0
    BY <1>1, <2>6, <2>10 DEF CartInv
  <2>17. QED
    BY <2>7, <2>12, <2>13, <2>15, <2>16 DEF CartInv
<1>4. QED
  BY <1>2, <1>3

LEMMA OrderSaveKeeps ==
    ASSUME CartInv, NEW k \in Clerks, OrderSave(k)
    PROVE  CartInv'
<1>1. PICK set : set = cjob[k].items
  OBVIOUS
<1>2. /\ cjob[k].op = "order" /\ inCart' = inCart \ set
      /\ ordered' = [i \in Rows |-> IF i \in set THEN ordered[i] + 1 ELSE ordered[i]]
      /\ CDone(k) /\ UNCHANGED <<carts, item, stirred>>
  BY <1>1 DEF OrderSave, Bought
<1>3. set \subseteq DOMAIN item /\ DOMAIN item \subseteq Rows /\ ordered \in [Rows -> Nat]
  BY <1>1, CartFacts
<1>4. /\ cjob' \in [Clerks -> CJob] /\ cjob'[k] = IdleCJob
      /\ \A l \in Clerks \ {k} : cjob'[l] = cjob[l]
      /\ \A i : Taking(i)' \subseteq Taking(i)
      /\ \A i : k \notin Taking(i)'
  BY <1>2, CartJobGone
<1>5. ordered' \in [Rows -> Nat]
  BY <1>2, <1>3
<1>6. CartTypeOK'
  BY <1>2, <1>4, <1>5 DEF CartInv, CartTypeOK
<1>7. ASSUME NEW l \in Clerks PROVE CJobOK(l)'
  <2>1. CJobOK(l)
    BY CartFacts
  <2>2. CASE l = k
    BY <2>2, <1>4, IdleCJobType DEF CJobOK
  <2>3. CASE l # k
    BY <2>1, <2>3, <1>2, <1>4 DEF CJobOK
  <2>4. QED
    BY <2>2, <2>3
<1>8. ASSUME NEW i \in DOMAIN item PROVE TakenOnce(i)'
  <2>1. PICK s : s = Taking(i)'
    OBVIOUS
  <2>2. s \subseteq Taking(i) /\ k \notin s /\ i \in Rows /\ IsFiniteSet(Taking(i))
    BY <2>1, <1>3, <1>4, TakingBound, PartiesAssumption, FS_Subset
  <2>3. CASE i \in set
    <3>1. k \in Taking(i) /\ i \notin inCart' /\ ordered'[i] = ordered[i] + 1
      BY <2>2, <2>3, <1>1, <1>2 DEF Taking
    <3>2. IsFiniteSet(s) /\ s \cup {k} \subseteq Taking(i)
      BY <2>2, <3>1, FS_Subset
    <3>3. Cardinality(s \cup {k}) = Cardinality(s) + 1 /\ Cardinality(s) \in Nat
      BY <2>2, <3>2, OneMore
    <3>4. Cardinality(s \cup {k}) <= Cardinality(Taking(i)) /\ Cardinality(Taking(i)) \in Nat
      BY <2>2, <3>2, SubsetBound
    <3>5. TakenOnce(i) /\ ordered[i] \in Nat
      BY <2>2, <1>3 DEF CartInv
    <3>6. Cardinality(Clerks) \in Nat
      BY TakingBound
    <3>7. item[i].owner # Nobody =>
             ordered'[i] + Cardinality(s) <=
                IF item[i].owner \in stirred THEN Cardinality(Clerks) ELSE 1
      BY <3>1, <3>3, <3>4, <3>5, <3>6 DEF TakenOnce
    <3>8. QED
      BY <2>1, <3>1, <3>7, <1>2 DEF TakenOnce
  <2>4. CASE i \notin set
    <3>1. ordered'[i] = ordered[i]
      BY <2>2, <2>4, <1>2
    <3>2. QED
      BY <2>1, <2>2, <3>1, <1>2, TakenStays
  <2>5. QED
    BY <2>3, <2>4
<1>9. \A i \in Rows \ DOMAIN item : ordered'[i] = 0
  BY <1>2, <1>3 DEF CartInv
<1>10. QED
  BY <1>2, <1>6, <1>7, <1>8, <1>9 DEF CartInv

\* What a request reads when it starts.
LEMMA GetCartKeeps ==
    ASSUME CartInv, NEW k \in Clerks, NEW c \in Customers, GetCart(k, c)
    PROVE  CartInv'
<1> DEFINE j == [IdleCJob EXCEPT !.phase = "noCart", !.op = "get", !.customers = {c}]
<1>1. /\ j \in CJob /\ j.phase = "noCart" /\ j.op = "get" /\ j.customers = {c}
      /\ j.items = {}
  BY IdleCJobType DEF CJob
<1>2. CStart(k, j)
  BY DEF GetCart
<1> HIDE DEF j
<1>3. QED
  BY <1>1, <1>2, CartStarts

LEMMA AddLoadKeeps ==
    ASSUME CartInv, NEW k \in Clerks, NEW c \in Customers, NEW s \in Skus, NEW q \in Quantities,
           NEW set \in SUBSET ItemsWith(c, s), AddLoad(k, c, s, q, set)
    PROVE  CartInv'
<1>1. PICK n : n = IF set = {} THEN q ELSE Sum(CHOOSE i \in set : TRUE, q)
  OBVIOUS
<1>2. PICK p : p = IF c \in carts THEN "loaded" ELSE "noCart"
  OBVIOUS
<1>3. set \subseteq DOMAIN item /\ DOMAIN item \subseteq Rows
  BY CartFacts DEF ItemsWith, ItemsOf
<1>4. q \in Int /\ q \in CartQuantity /\ MaxCartQty \in Nat
  BY CartFacts DEF CartQuantity
<1>5. n \in CartQuantity
  <2>1. CASE set = {}
    BY <2>1, <1>1, <1>4
  <2>2. CASE set # {}
    <3>1. PICK i \in set : i = CHOOSE l \in set : TRUE
      BY <2>2
    <3>2. n = Sum(i, q) /\ Sum(i, q) \in CartQuantity
      BY <3>1, <2>2, <1>1 DEF AddLoad
    <3>3. item[i].quantity \in CartQuantity
      BY <1>3, CartFacts DEF CartItem
    <3>4. QED
      BY <3>2, <3>3, <1>4 DEF Sum, CartQuantity
  <2>3. QED
    BY <2>1, <2>2
<1> DEFINE j == [IdleCJob EXCEPT !.phase = p, !.op = "add", !.customers = {c}, !.sku = {s},
                     !.items = set, !.taken = q, !.quantity = n]
<1>6. CStart(k, j)
  BY <1>1, <1>2 DEF AddLoad
<1>7. p \in {"loaded", "noCart"} /\ set \subseteq Rows
  BY <1>2, <1>3
<1>8. /\ j \in CJob /\ j.phase = p /\ j.op = "add" /\ j.customers = {c} /\ j.items = set
  BY <1>4, <1>5, <1>7, IdleCJobType DEF CJob
<1> HIDE DEF j
<1>9. QED
  BY <1>3, <1>6, <1>7, <1>8, CartStarts

LEMMA ChangeLoadKeeps ==
    ASSUME CartInv, NEW k \in Clerks, NEW c \in Customers, NEW i \in inCart,
           NEW op \in {"update", "remove"}, NEW q \in CartQuantity, ChangeLoad(k, op, c, i, q)
    PROVE  CartInv'
<1>1. PICK s : s = item[i].sku
  OBVIOUS
<1> DEFINE j == [IdleCJob EXCEPT !.phase = "loaded", !.op = op, !.customers = {c},
                     !.sku = {s}, !.items = {i}, !.quantity = q]
<1>2. CStart(k, j)
  BY <1>1 DEF ChangeLoad
<1>3. i \in DOMAIN item /\ i \in Rows /\ s \in Skus
  BY <1>1, CartFacts
<1>4. /\ j \in CJob /\ j.phase = "loaded" /\ j.op = op /\ j.customers = {c} /\ j.items = {i}
  BY <1>3, IdleCJobType DEF CJob
<1> HIDE DEF j
<1>5. QED
  BY <1>2, <1>3, <1>4, CartStarts

LEMMA OrderLoadKeeps ==
    ASSUME CartInv, NEW k \in Clerks, NEW set \in SUBSET inCart, OrderLoad(k, set)
    PROVE  CartInv'
<1>1. PICK owners : owners = {item[i].owner : i \in set}
  OBVIOUS
<1> DEFINE j == [IdleCJob EXCEPT !.phase = "loaded", !.op = "order", !.items = set,
                     !.customers = owners]
<1>2. CStart(k, j)
  BY <1>1 DEF OrderLoad
<1>3. set \subseteq DOMAIN item /\ set \subseteq Rows
  BY CartFacts
<1>4. owners \subseteq Customers \cup {Nobody} /\ \A i \in set : item[i].owner \in owners
  BY <1>1, <1>3, CartFacts
<1>5. /\ j \in CJob /\ j.phase = "loaded" /\ j.op = "order" /\ j.customers = owners
      /\ j.items = set
  BY <1>3, <1>4, IdleCJobType DEF CJob
<1> HIDE DEF j
<1>6. QED
  BY <1>2, <1>3, <1>4, <1>5, CartStarts

\* A cart is created, items are removed, a request is refused.
LEMMA CreateCartKeeps ==
    ASSUME CartInv, NEW k \in Clerks, CreateCart(k)
    PROVE  CartInv'
<1>1. PICK j : j = IF cjob[k].op = "get" THEN IdleCJob ELSE [cjob[k] EXCEPT !.phase = "loaded"]
  OBVIOUS
<1>2. /\ cjob[k].phase = "noCart" /\ carts' = carts \cup cjob[k].customers
      /\ cjob' = [cjob EXCEPT ![k] = j]
      /\ UNCHANGED <<item, inCart, asked, ordered, stirred>>
  BY <1>1 DEF CreateCart
<1>3. cjob[k] \in CJob /\ CJobOK(k) /\ carts \subseteq Customers
  BY CartFacts
<1>4. cjob[k].op # "order"
  BY <1>2, <1>3 DEF CJobOK
<1>5. carts' \subseteq Customers
  BY <1>2, <1>3, <1>4 DEF CJobOK
<1>6. /\ j \in CJob
      /\ j = IdleCJob \/ (j.op = cjob[k].op /\ j.items = cjob[k].items
                          /\ j.customers = cjob[k].customers /\ j.phase = "loaded")
  BY <1>1, <1>3, IdleCJobType DEF CJob
<1>7. QED
  BY <1>2, <1>5, <1>6, CartEnds

LEMMA RemoveSaveKeeps ==
    ASSUME CartInv, NEW k \in Clerks, RemoveSave(k)
    PROVE  CartInv'
<1>1. /\ cjob' = [cjob EXCEPT ![k] = IdleCJob] /\ inCart' = inCart \ cjob[k].items
      /\ UNCHANGED <<carts, item, stirred, ordered>>
  BY DEF RemoveSave, CDone
<1>2. QED
  BY <1>1, CartEnds, CartFacts, IdleCJobType

LEMMA CAbortKeeps ==
    ASSUME CartInv, NEW k \in Clerks, CAbort(k)
    PROVE  CartInv'
<1>1. /\ cjob' = [cjob EXCEPT ![k] = IdleCJob]
      /\ UNCHANGED <<carts, item, inCart, ordered, stirred>>
  BY DEF CAbort, CDone, CDatabase
<1>2. QED
  BY <1>1, CartEnds, CartFacts, IdleCJobType

LEMMA ClearCartKeeps ==
    ASSUME CartInv, NEW c \in Customers, ClearCart(c)
    PROVE  CartInv'
<1>1. /\ inCart' \subseteq inCart /\ stirred \subseteq stirred'
      /\ UNCHANGED <<carts, item, cjob, ordered>>
  BY DEF ClearCart, Stir
<1>2. CartTypeOK'
  BY <1>1 DEF CartInv, CartTypeOK
<1>3. ASSUME NEW l \in Clerks PROVE CJobOK(l)'
  BY <1>1, CartFacts DEF CJobOK
<1>4. ASSUME NEW i \in DOMAIN item PROVE TakenOnce(i)'
  <2>1. PICK s : s = Taking(i)'
    OBVIOUS
  <2>2. s \subseteq Taking(i)
    BY <2>1, <1>1 DEF Taking
  <2>3. QED
    BY <2>1, <2>2, <1>1, TakenStays
<1>5. QED
  BY <1>1, <1>2, <1>3, <1>4 DEF CartInv

LEMMA CartKept ==
    ASSUME CartInv, inUse \in Mixes, CNext
    PROVE  CartInv'
<1>1. ASSUME NEW c \in Customers, ClearCart(c) PROVE CartInv'
  BY <1>1, ClearCartKeeps
<1>2. ASSUME NEW k \in Clerks, NEW c \in Customers, GetCart(k, c) PROVE CartInv'
  BY <1>2, GetCartKeeps
<1>3. ASSUME NEW k \in Clerks, NEW c \in Customers, NEW s \in Skus, NEW q \in Quantities,
             NEW set \in SUBSET ItemsWith(c, s), AddLoad(k, c, s, q, set)
      PROVE  CartInv'
  BY <1>3, AddLoadKeeps
<1>4. ASSUME NEW k \in Clerks, NEW c \in Customers, NEW i \in inCart, NEW q \in Quantities,
             UpdateLoad(k, c, i, q)
      PROVE  CartInv'
  <2>1. q \in CartQuantity /\ ChangeLoad(k, "update", c, i, q)
    BY <1>4, CartAssumption DEF UpdateLoad, CartQuantity
  <2>2. QED
    BY <2>1, ChangeLoadKeeps
<1>5. ASSUME NEW k \in Clerks, NEW c \in Customers, NEW i \in inCart, RemoveLoad(k, c, i)
      PROVE  CartInv'
  <2>1. 0 \in CartQuantity /\ ChangeLoad(k, "remove", c, i, 0)
    BY <1>5, CartAssumption DEF RemoveLoad, CartQuantity
  <2>2. QED
    BY <2>1, ChangeLoadKeeps
<1>6. ASSUME NEW k \in Clerks, NEW set \in SUBSET inCart, OrderLoad(k, set) PROVE CartInv'
  BY <1>6, OrderLoadKeeps
<1>7. ASSUME NEW k \in Clerks, CreateCart(k) PROVE CartInv'
  BY <1>7, CreateCartKeeps
<1>8. ASSUME NEW k \in Clerks, AddSave(k) PROVE CartInv'
  BY <1>8, AddSaveKeeps
<1>9. ASSUME NEW k \in Clerks, UpdateSave(k) PROVE CartInv'
  BY <1>9, SaveItemsKeeps DEF UpdateSave
<1>10. ASSUME NEW k \in Clerks, RemoveSave(k) PROVE CartInv'
  BY <1>10, RemoveSaveKeeps
<1>11. ASSUME NEW k \in Clerks, OrderSave(k) PROVE CartInv'
  BY <1>11, OrderSaveKeeps
<1>12. ASSUME NEW k \in Clerks, CAbort(k) PROVE CartInv'
  BY <1>12, CAbortKeeps
<1>13. QED
  BY <1>1, <1>2, <1>3, <1>4, <1>5, <1>6, <1>7, <1>8, <1>9, <1>10, <1>11, <1>12 DEF CNext

LEMMA CartBegin == Init => CartInv
<1>1. SUFFICES ASSUME Init PROVE CartInv
  OBVIOUS
<1>2. /\ carts = {} /\ item = <<>> /\ inCart = {} /\ cjob = [k \in Clerks |-> IdleCJob]
      /\ ordered = [i \in Rows |-> 0]
  BY <1>1 DEF Init, CInit
<1>3. Len(item) = 0 /\ DOMAIN item = {} /\ item \in Seq(CartItem) /\ MaxRows \in Nat
  BY <1>2, PartiesAssumption
<1>4. CartTypeOK
  BY <1>2, <1>3, IdleCJobType DEF CartTypeOK
<1>5. \A k \in Clerks : CJobOK(k)
  BY <1>2, IdleCJobType DEF CJobOK
<1>6. QED
  BY <1>2, <1>3, <1>4, <1>5 DEF CartInv

\* What the cart's tables and its requests in flight always satisfy.
THEOREM CartInvariant == Spec => []CartInv
<1>1. Init => CartInv
  BY CartBegin
<1>2. CartInv /\ inUse \in Mixes /\ [Next]_shopVars => CartInv'
  <2>1. SUFFICES ASSUME CartInv, inUse \in Mixes, [Next]_shopVars PROVE CartInv'
    OBVIOUS
  <2>2. CASE CNext
    BY <2>1, <2>2, CartKept
  <2>3. CASE UNCHANGED cartVars
    BY <2>1, <2>3 DEF cartVars, CartInv, CartTypeOK, CJobOK, TakenOnce, Taking
  <2>4. QED
    BY <2>1, <2>2, <2>3, CartStep
<1>3. QED
  BY <1>1, <1>2, MixStays, PTL DEF Spec

\* An item becomes part of one order while its owner's requests take turns,
\* and of no more than requests can overlap otherwise
\* (createOrderFromCartItem removes the items only after the order was made).
THEOREM OrderedOnceHolds == Spec => []OrderedOnce
<1>1. CartInv => OrderedOnce
  <2>1. SUFFICES ASSUME CartInv, NEW i \in DOMAIN item, item[i].owner # Nobody
                 PROVE  ordered[i] <= IF item[i].owner \in stirred THEN Cardinality(Clerks) ELSE 1
    BY DEF OrderedOnce
  <2>2. ordered[i] + Cardinality(Taking(i)) <=
           IF item[i].owner \in stirred THEN Cardinality(Clerks) ELSE 1
    BY <2>1 DEF CartInv, TakenOnce
  <2>3. i \in Rows /\ ordered[i] \in Nat
    <3>1. i \in Rows /\ ordered \in [Rows -> Nat]
      BY <2>1, CartFacts
    <3>2. QED
      BY <3>1
  <2>4. Cardinality(Taking(i)) \in Nat /\ Cardinality(Clerks) \in Nat
    BY TakingBound
  <2>5. QED
    BY <2>2, <2>3, <2>4
<1>2. QED
  BY <1>1, CartInvariant, PTL

---------------------------------------------------------------------------
(* The cart: what was asked for *)

LEMMA AskedFacts ==
    ASSUME CartInv, AskedInv
    PROVE  /\ asked \in [Customers -> [Skus -> Int]]
           /\ \A c \in Customers : /\ asked[c] \in [Skus -> Int] /\ c # Nobody
                                   /\ asked[c] = [s \in Skus |-> asked[c][s]]
           /\ \A c \in Customers, s \in Skus : asked[c][s] \in Int
           /\ \A k \in Clerks : KnowsOwners(cjob[k])
           /\ \A c \in Customers \ stirred : InTurn(c)
           /\ \A c \in Customers : /\ ItemsOf(c) \subseteq DOMAIN item
                                   /\ \A i \in ItemsOf(c) : i \in inCart /\ item[i].owner = c
           /\ \A c \in Customers, s \in Skus : ItemsWith(c, s) \subseteq ItemsOf(c)
<1>1. \A c \in Customers : ItemsOf(c) \subseteq DOMAIN item
  BY CartFacts DEF ItemsOf
<1>2. \A c \in Customers, s \in Skus : ItemsWith(c, s) \subseteq ItemsOf(c)
  BY DEF ItemsWith
<1>3. asked \in [Customers -> [Skus -> Int]]
  BY DEF AskedInv
<1>4. \A c \in Customers : asked[c] \in [Skus -> Int] /\ c # Nobody
  BY <1>3, CartAssumption
<1>5. \A c \in Customers : asked[c] = [s \in Skus |-> asked[c][s]]
  BY <1>4
<1>6. QED
  BY <1>1, <1>2, <1>3, <1>4, <1>5 DEF AskedInv, ItemsOf

\* The step leaves the cart of customer c, and what is asked of it.
SameCart(c) ==
    /\ asked'[c] = asked[c]
    /\ ItemsOf(c)' = ItemsOf(c)
    /\ \A i \in ItemsOf(c) : item'[i].sku = item[i].sku /\ item'[i].quantity = item[i].quantity
    /\ \A i \in DOMAIN item : item'[i].owner = c => item[i].owner = c

\* Requests on the cart of another customer.
LEMMA CartElsewhere ==
    ASSUME CartInv, AskedInv, NEW c \in Customers \ stirred, SameCart(c)
    PROVE  /\ \A s \in Skus : ItemsWith(c, s)' = ItemsWith(c, s)
           /\ OneItemEach(c)'
           /\ \A j \in CJob : j.items \subseteq DOMAIN item /\ UpToDate(j, c) => UpToDate(j, c)'
<1>1. ASSUME NEW s \in Skus PROVE ItemsWith(c, s)' = ItemsWith(c, s)
  BY DEF SameCart, ItemsWith
<1>2. OneItemEach(c)
  BY AskedFacts DEF InTurn
<1>3. OneItemEach(c)'
  <2>1. ASSUME NEW s \in Skus
        PROVE  /\ \A i, l \in ItemsWith(c, s)' : i = l
               /\ IF ItemsWith(c, s)' = {} THEN asked'[c][s] = 0
                    ELSE \A i \in ItemsWith(c, s)' : item'[i].quantity = asked'[c][s]
    <3>1. \A i \in ItemsWith(c, s) : item'[i].quantity = item[i].quantity
      BY AskedFacts DEF SameCart
    <3>2. asked'[c][s] = asked[c][s]
      BY DEF SameCart
    <3>3. QED
      BY <3>1, <3>2, <1>1, <1>2 DEF OneItemEach
  <2>2. QED
    BY <2>1 DEF OneItemEach
<1>4. ASSUME NEW j \in CJob, j.items \subseteq DOMAIN item, UpToDate(j, c)
      PROVE  UpToDate(j, c)'
  <2>1. ASSUME j.op \in {"add", "update", "remove"}
        PROVE  /\ j.customers = {c}
               /\ \E s \in Skus :
                     /\ j.sku = {s} /\ j.items = ItemsWith(c, s)'
                     /\ j.op = "add" => j.quantity = asked'[c][s] + j.taken
    <3>1. PICK s \in Skus : /\ j.customers = {c} /\ j.sku = {s} /\ j.items = ItemsWith(c, s)
                            /\ j.op = "add" => j.quantity = asked[c][s] + j.taken
      BY <1>4, <2>1 DEF UpToDate
    <3>2. asked'[c][s] = asked[c][s]
      BY DEF SameCart
    <3>3. QED
      BY <3>1, <3>2, <1>1
  <2>2. ASSUME j.op = "order", NEW i \in j.items, item'[i].owner = c
        PROVE  i \in inCart'
    <3>1. i \in DOMAIN item /\ item[i].owner = c
      BY <1>4, <2>2 DEF SameCart
    <3>2. i \in ItemsOf(c)
      BY <1>4, <2>2, <3>1 DEF UpToDate, ItemsOf
    <3>3. QED
      BY <3>2 DEF SameCart, ItemsOf
  <2>3. (j.op = "update" => j.items # {}) /\ (j.op = "remove" => j.quantity = 0)
    BY <1>4 DEF UpToDate
  <2>4. QED
    BY <2>1, <2>2, <2>3 DEF UpToDate
<1>5. QED
  BY <1>1, <1>3, <1>4

\* A request starts with what it has read.
LEMMA AskedStarts ==
    ASSUME CartInv, AskedInv, NEW k \in Clerks, NEW j \in CJob, CStart(k, j),
           j.phase \in {"noCart", "loaded"}, j.items \subseteq DOMAIN item,
           KnowsOwners(j),
           \A c \in (Customers \ stirred) \cap j.customers : UpToDate(j, c)
    PROVE  AskedInv'
<1>1. /\ k \notin CBusy /\ cjob' = [cjob EXCEPT ![k] = j]
      /\ UNCHANGED <<carts, item, inCart, asked, ordered>>
      /\ stirred' = stirred \cup (j.customers \cap UNION {cjob[l].customers : l \in CBusy})
  BY DEF CStart, Stir, CDatabase
<1>2. cjob'[k] = j /\ \A l \in Clerks \ {k} : cjob'[l] = cjob[l]
  BY <1>1, CartFacts
<1>3. ASSUME NEW l \in Clerks PROVE KnowsOwners(cjob[l])'
  <2>1. KnowsOwners(cjob[l])
    BY AskedFacts
  <2>2. CASE l = k
    BY <2>2, <1>1, <1>2 DEF KnowsOwners
  <2>3. CASE l # k
    BY <2>1, <2>3, <1>1, <1>2 DEF KnowsOwners
  <2>4. QED
    BY <2>2, <2>3
<1>4. ASSUME NEW c \in Customers \ stirred' PROVE InTurn(c)'
  <2>1. c \in Customers \ stirred /\ InTurn(c)
    BY <1>1, AskedFacts
  <2>2. SameCart(c)
    BY <1>1 DEF SameCart, ItemsOf
  <2>3. ASSUME c \in j.customers, NEW l \in Clerks, c \in cjob[l].customers
        PROVE  FALSE
    <3>1. l \in CBusy
      BY <2>3, AskedFacts DEF KnowsOwners, CBusy
    <3>2. c \in stirred'
      BY <2>3, <3>1, <1>1
    <3>3. QED
      BY <3>2, <1>4
  <2>4. ASSUME NEW l \in Clerks, NEW m \in Clerks,
               c \in cjob'[l].customers, c \in cjob'[m].customers
        PROVE  l = m
    BY <2>1, <2>3, <2>4, <1>2 DEF InTurn
  <2>5. ASSUME NEW l \in Clerks, c \in cjob'[l].customers
        PROVE  UpToDate(cjob[l], c)'
    <3>1. PICK i : i = cjob'[l]
      OBVIOUS
    <3>2. i \in CJob /\ i.items \subseteq DOMAIN item /\ UpToDate(i, c)
      <4>1. CASE l = k
        BY <4>1, <3>1, <2>1, <2>5, <1>2
      <4>2. CASE l # k
        BY <4>2, <3>1, <2>1, <2>5, <1>2, CartFacts DEF InTurn
      <4>3. QED
        BY <4>1, <4>2
    <3>3. UpToDate(i, c)'
      BY <3>2, <2>1, <2>2, CartElsewhere
    <3>4. QED
      BY <3>1, <3>3
  <2>6. OneItemEach(c)'
    BY <2>1, <2>2, CartElsewhere
  <2>7. QED
    BY <2>4, <2>5, <2>6 DEF InTurn
<1>5. QED
  BY <1>1, <1>3, <1>4 DEF AskedInv

\* A request ends: its customers' carts are as asked, the others as they were.
LEMMA AskedEnds ==
    ASSUME CartInv, AskedInv, NEW k \in Clerks, CDone(k), stirred' = stirred,
           \A i \in DOMAIN item : item'[i].owner \in {item[i].owner, Nobody},
           asked' \in [Customers -> [Skus -> Int]],
           \A c \in Customers \ stirred :
               IF c \in cjob[k].customers THEN OneItemEach(c)' ELSE SameCart(c)
    PROVE  AskedInv'
<1>1. cjob'[k] = IdleCJob /\ \A l \in Clerks \ {k} : cjob'[l] = cjob[l]
  BY CartJobGone
<1>2. ASSUME NEW l \in Clerks PROVE KnowsOwners(cjob[l])'
  <2>1. KnowsOwners(cjob[l]) /\ cjob[l].items \subseteq DOMAIN item
    BY AskedFacts, CartFacts
  <2>2. CASE l = k
    BY <2>2, <1>1, IdleCJobType DEF KnowsOwners
  <2>3. CASE l # k
    BY <2>1, <2>3, <1>1 DEF KnowsOwners
  <2>4. QED
    BY <2>2, <2>3
<1>3. ASSUME NEW c \in Customers \ stirred PROVE InTurn(c)'
  <2>1. InTurn(c)
    BY AskedFacts
  <2>2. c \notin cjob'[k].customers
    BY <1>1, IdleCJobType
  <2>3. ASSUME NEW l \in Clerks, NEW m \in Clerks,
               c \in cjob'[l].customers, c \in cjob'[m].customers
        PROVE  l = m
    BY <2>1, <2>2, <2>3, <1>1 DEF InTurn
  <2>4. CASE c \in cjob[k].customers
    <3>1. \A l \in Clerks : c \notin cjob'[l].customers
      BY <2>1, <2>2, <2>4, <1>1 DEF InTurn
    <3>2. OneItemEach(c)'
      BY <2>4
    <3>3. QED
      BY <3>1, <3>2, <2>3 DEF InTurn
  <2>5. CASE c \notin cjob[k].customers
    <3>1. SameCart(c)
      BY <2>5
    <3>2. OneItemEach(c)'
      BY <3>1, CartElsewhere
    <3>3. ASSUME NEW l \in Clerks, c \in cjob'[l].customers
          PROVE  UpToDate(cjob[l], c)'
      <4>1. PICK i : i = cjob'[l]
        OBVIOUS
      <4>2. i = cjob[l]
        BY <4>1, <3>3, <2>2, <1>1
      <4>3. i \in CJob /\ i.items \subseteq DOMAIN item /\ UpToDate(i, c)
        BY <4>1, <4>2, <3>3, <2>1, CartFacts DEF InTurn
      <4>4. UpToDate(i, c)'
        BY <4>3, <3>1, CartElsewhere
      <4>5. QED
        BY <4>1, <4>4
    <3>4. QED
      BY <3>2, <3>3, <2>3 DEF InTurn
  <2>6. QED
    BY <2>4, <2>5
<1>4. QED
  BY <1>2, <1>3 DEF AskedInv

\* What is asked of the carts that are followed.
LEMMA AskFollows ==
    ASSUME AskedInv, NEW new, Ask(new), \A c \in Customers \ stirred : new[c] \in [Skus -> Int]
    PROVE  /\ asked' \in [Customers -> [Skus -> Int]]
           /\ \A c \in Customers \ stirred : asked'[c] = new[c]
BY DEF Ask

\* Stored quantities: only rows of the request change, and they stay or lose
\* their owner.
LEMMA SaveItemsFacts ==
    ASSUME CartInv, NEW k \in Clerks, SaveItems(cjob[k])
    PROVE  /\ DOMAIN item' = DOMAIN item /\ inCart' = inCart \cup cjob[k].items
           /\ \A i \in DOMAIN item :
                 /\ item'[i].owner \in {item[i].owner, Nobody} /\ item'[i].sku = item[i].sku
                 /\ i \in cjob[k].items /\ item'[i].owner # Nobody => i \in inCart
                 /\ i \in inCart => item'[i].owner = item[i].owner
                 /\ item'[i].quantity = IF i \in cjob[k].items THEN cjob[k].quantity
                                                               ELSE item[i].quantity
                 /\ i \notin cjob[k].items => item'[i] = item[i]
<1>1. PICK set, q : set = cjob[k].items /\ q = cjob[k].quantity
  OBVIOUS
<1>2. PICK in : in = inCart
  OBVIOUS
<1>3. /\ item' = [i \in DOMAIN item |->
                    IF i \in set THEN [item[i] EXCEPT !.quantity = q,
                                          !.owner = IF i \in in THEN @ ELSE Nobody]
                                 ELSE item[i]]
      /\ inCart' = inCart \cup set
  BY <1>1, <1>2 DEF SaveItems
<1>4. ASSUME NEW i \in DOMAIN item
      PROVE  /\ item'[i].owner \in {item[i].owner, Nobody} /\ item'[i].sku = item[i].sku
             /\ i \in set /\ item'[i].owner # Nobody => i \in in
             /\ i \in in => item'[i].owner = item[i].owner
             /\ item'[i].quantity = IF i \in set THEN q ELSE item[i].quantity
             /\ i \notin set => item'[i] = item[i]
  <2>1. item[i] \in CartItem
    BY CartFacts
  <2>2. CASE i \in set /\ i \in in
    <3>1. item'[i] = [item[i] EXCEPT !.quantity = q, !.owner = @]
      BY <2>2, <1>3
    <3>2. QED
      BY <3>1, <2>1, <2>2 DEF CartItem
  <2>3. CASE i \in set /\ i \notin in
    <3>1. item'[i] = [item[i] EXCEPT !.quantity = q, !.owner = Nobody]
      BY <2>3, <1>3
    <3>2. QED
      BY <3>1, <2>1, <2>3 DEF CartItem
  <2>4. CASE i \notin set
    BY <2>4, <1>3
  <2>5. QED
    BY <2>2, <2>3, <2>4
<1>5. QED
  BY <1>1, <1>2, <1>3, <1>4

\* A request that saves items leaves the carts of others.
LEMMA SavedElsewhere ==
    ASSUME CartInv, AskedInv, NEW k \in Clerks, SaveItems(cjob[k]),
           NEW c \in Customers, c \notin cjob[k].customers, asked'[c] = asked[c]
    PROVE  SameCart(c)
<1>1. c # Nobody /\ KnowsOwners(cjob[k]) /\ cjob[k].items \subseteq DOMAIN item
  BY AskedFacts, CartFacts
<1>2. ASSUME NEW i \in DOMAIN item, i \in cjob[k].items
      PROVE  item[i].owner # c /\ item'[i].owner # c
  <2>1. item[i].owner # c
    BY <1>1, <1>2 DEF KnowsOwners
  <2>2. item'[i].owner \in {item[i].owner, Nobody}
    BY SaveItemsFacts
  <2>3. QED
    BY <2>1, <2>2, <1>1
<1>3. \A i \in DOMAIN item : i \notin cjob[k].items => item'[i] = item[i]
  BY SaveItemsFacts
<1>4. DOMAIN item' = DOMAIN item /\ inCart' = inCart \cup cjob[k].items /\ inCart \subseteq DOMAIN item
  BY SaveItemsFacts, CartFacts
<1>5. ItemsOf(c)' = ItemsOf(c)
  <2>1. ASSUME NEW i PROVE i \in inCart' /\ item'[i].owner = c <=> i \in inCart /\ item[i].owner = c
    <3>1. CASE i \in cjob[k].items
      BY <3>1, <1>1, <1>2
    <3>2. CASE i \notin cjob[k].items
      BY <3>2, <1>3, <1>4
    <3>3. QED
      BY <3>1, <3>2
  <2>2. QED
    BY <2>1 DEF ItemsOf
<1>6. \A i \in ItemsOf(c) : i \in DOMAIN item /\ i \notin cjob[k].items
  BY <1>2, <1>4 DEF ItemsOf
<1>7. \A i \in DOMAIN item : item'[i].owner = c => item[i].owner = c
  BY <1>2, <1>3
<1>8. QED
  BY <1>3, <1>5, <1>6, <1>7 DEF SameCart

\* Items that are there get the quantity that is asked for.
LEMMA SaveAsAsked ==
    ASSUME CartInv, AskedInv, NEW k \in Clerks, cjob[k].op \in {"add", "update"},
           cjob[k].items # {}, SaveItems(cjob[k]), CDone(k), stirred' = stirred,
           NEW new, Ask(new), \A c \in Customers \ stirred : new[c] \in [Skus -> Int],
           \A c \in Customers \ stirred, s \in Skus :
              new[c][s] = IF c \in cjob[k].customers /\ s \in cjob[k].sku THEN cjob[k].quantity
                                                                         ELSE asked[c][s]
    PROVE  AskedInv'
<1>1. /\ asked' \in [Customers -> [Skus -> Int]]
      /\ \A c \in Customers \ stirred : asked'[c] = new[c]
  BY AskFollows
<1>2. ASSUME NEW c \in Customers \ stirred, c \notin cjob[k].customers PROVE SameCart(c)
  <2>1. asked[c] \in [Skus -> Int] /\ asked'[c] \in [Skus -> Int]
    BY <1>1, AskedFacts
  <2>2. \A s \in Skus : asked'[c][s] = asked[c][s]
    BY <1>1, <1>2
  <2>3. asked'[c] = asked[c]
    BY <2>1, <2>2
  <2>4. QED
    BY <2>3, <1>2, SavedElsewhere
<1>3. ASSUME NEW c \in Customers \ stirred, c \in cjob[k].customers PROVE OneItemEach(c)'
  <2>1. InTurn(c)
    BY AskedFacts
  <2>2. UpToDate(cjob[k], c)
    BY <2>1, <1>3 DEF InTurn
  <2>3. PICK s \in Skus : cjob[k].sku = {s} /\ cjob[k].items = ItemsWith(c, s)
    BY <2>2 DEF UpToDate
  <2>4. /\ cjob[k].items \subseteq inCart /\ inCart' = inCart /\ inCart \subseteq DOMAIN item
        /\ DOMAIN item' = DOMAIN item
    <3>1. cjob[k].items \subseteq inCart
      BY <2>3 DEF ItemsWith, ItemsOf
    <3>2. inCart' = inCart \cup cjob[k].items /\ DOMAIN item' = DOMAIN item
      BY SaveItemsFacts
    <3>3. QED
      BY <3>1, <3>2, CartFacts
  <2>5. \A i \in inCart : item'[i].owner = item[i].owner /\ item'[i].sku = item[i].sku
    BY <2>4, SaveItemsFacts
  <2>6. \A t \in Skus : ItemsWith(c, t)' = ItemsWith(c, t)
    BY <2>4, <2>5 DEF ItemsWith, ItemsOf
  <2>7. ASSUME NEW t \in Skus
        PROVE  /\ \A i, l \in ItemsWith(c, t)' : i = l
               /\ IF ItemsWith(c, t)' = {} THEN asked'[c][t] = 0
                    ELSE \A i \in ItemsWith(c, t)' : item'[i].quantity = asked'[c][t]
    <3>1. /\ \A i, l \in ItemsWith(c, t) : i = l
          /\ IF ItemsWith(c, t) = {} THEN asked[c][t] = 0
               ELSE \A i \in ItemsWith(c, t) : item[i].quantity = asked[c][t]
      BY <2>1 DEF InTurn, OneItemEach
    <3>2. CASE t = s
      <4>1. asked'[c][t] = cjob[k].quantity
        BY <3>2, <1>1, <1>3, <2>3
      <4>2. \A i \in ItemsWith(c, t) : item'[i].quantity = cjob[k].quantity
        BY <3>2, <2>3, <2>4, SaveItemsFacts
      <4>3. QED
        BY <3>1, <3>2, <4>1, <4>2, <2>3, <2>6
    <3>3. CASE t # s
      <4>1. asked'[c][t] = asked[c][t]
        BY <3>3, <1>1, <2>3
      <4>2. ItemsWith(c, t) \cap cjob[k].items = {}
        BY <3>3, <2>3 DEF ItemsWith
      <4>3. \A i \in ItemsWith(c, t) : i \in DOMAIN item /\ i \notin cjob[k].items
        BY <4>2, <2>4, AskedFacts
      <4>4. \A i \in ItemsWith(c, t) : item'[i].quantity = item[i].quantity
        BY <4>3, SaveItemsFacts
      <4>5. QED
        BY <3>1, <4>1, <4>4, <2>6
    <3>4. QED
      BY <3>2, <3>3
  <2>8. QED
    BY <2>7 DEF OneItemEach
<1>4. \A i \in DOMAIN item : item'[i].owner \in {item[i].owner, Nobody}
  BY SaveItemsFacts
<1>5. QED
  BY <1>1, <1>2, <1>3, <1>4, AskedEnds

LEMMA UpdateSaveAsAsked ==
    ASSUME CartInv, AskedInv, NEW k \in Clerks, UpdateSave(k)
    PROVE  AskedInv'
<1>1. PICK new : new = [c \in Customers |-> [s \in Skus |->
                           IF c \in cjob[k].customers /\ s \in cjob[k].sku THEN cjob[k].quantity
                                                                          ELSE asked[c][s]]]
  OBVIOUS
<1>2. /\ cjob[k].op = "update" /\ SaveItems(cjob[k]) /\ Ask(new) /\ CDone(k)
      /\ stirred' = stirred
  BY <1>1 DEF UpdateSave, ChangeAsked
<1>3. cjob[k].quantity \in Int
  BY CartFacts DEF CJob, CartQuantity
<1>4. \A c \in Customers : new[c] \in [Skus -> Int]
  BY <1>1, <1>3, AskedFacts
<1>5. \A c \in Customers \ stirred, s \in Skus :
         new[c][s] = IF c \in cjob[k].customers /\ s \in cjob[k].sku THEN cjob[k].quantity
                                                                    ELSE asked[c][s]
  BY <1>1
<1>6. CASE cjob[k].items # {}
  BY <1>2, <1>4, <1>5, <1>6, SaveAsAsked
<1>7. CASE cjob[k].items = {}
  <2>1. \A c \in Customers \ stirred : c \notin cjob[k].customers
    <3>1. \A c \in Customers \ stirred : c \in cjob[k].customers => UpToDate(cjob[k], c)
      BY AskedFacts DEF InTurn
    <3>2. QED
      BY <3>1, <1>2, <1>7 DEF UpToDate
  <2>2. /\ asked' \in [Customers -> [Skus -> Int]]
        /\ \A c \in Customers \ stirred : asked'[c] = new[c]
    BY <1>2, <1>4, AskFollows
  <2>3. \A c \in Customers \ stirred : asked'[c] = asked[c]
    BY <2>1, <2>2, <1>1, AskedFacts
  <2>4. \A c \in Customers \ stirred : SameCart(c)
    BY <2>1, <2>3, <1>2, SavedElsewhere
  <2>5. \A i \in DOMAIN item : item'[i].owner \in {item[i].owner, Nobody}
    BY <1>2, SaveItemsFacts
  <2>6. QED
    BY <2>1, <2>2, <2>4, <2>5, <1>2, AskedEnds
<1>8. QED
  BY <1>6, <1>7

\* The cart has no item of the variant: a new one holds the quantity.
LEMMA AddSaveAsAsked ==
    ASSUME CartInv, AskedInv, NEW k \in Clerks, AddSave(k)
    PROVE  AskedInv'
<1>1. PICK new : new = [c \in Customers |-> [s \in Skus |->
                           IF c \in cjob[k].customers /\ s \in cjob[k].sku
                             THEN asked[c][s] + cjob[k].taken ELSE asked[c][s]]]
  OBVIOUS
<1>2. cjob[k].op = "add" /\ Ask(new) /\ CDone(k) /\ stirred' = stirred
  BY <1>1 DEF AddSave
<1>3. cjob[k].taken \in Int /\ cjob[k].quantity \in Int
  BY CartFacts DEF CJob, CartQuantity
<1>4. \A c \in Customers : new[c] \in [Skus -> Int]
  BY <1>1, <1>3, AskedFacts
<1>5. ASSUME NEW c \in Customers \ stirred, c \in cjob[k].customers
      PROVE  /\ InTurn(c) /\ cjob[k].customers = {c}
             /\ \E s \in Skus : /\ cjob[k].sku = {s} /\ cjob[k].items = ItemsWith(c, s)
                                /\ cjob[k].quantity = asked[c][s] + cjob[k].taken
  <2>1. InTurn(c)
    BY AskedFacts
  <2>2. UpToDate(cjob[k], c)
    BY <2>1, <1>5 DEF InTurn
  <2>3. QED
    BY <2>1, <2>2, <1>2 DEF UpToDate
<1>6. ASSUME NEW c \in Customers \ stirred, NEW s \in Skus
      PROVE  new[c][s] = IF c \in cjob[k].customers /\ s \in cjob[k].sku THEN cjob[k].quantity
                                                                        ELSE asked[c][s]
  BY <1>1, <1>5
<1>7. CASE cjob[k].items # {}
  <2>1. SaveItems(cjob[k])
    BY <1>7 DEF AddSave
  <2>2. QED
    BY <2>1, <1>2, <1>4, <1>6, <1>7, SaveAsAsked
<1>8. CASE cjob[k].items = {}
  <2>1. PICK d \in cjob[k].customers, v \in cjob[k].sku :
           item' = Append(item, [owner |-> d, sku |-> v, quantity |-> cjob[k].quantity])
    BY <1>8 DEF AddSave
  <2>2. PICK row : row = [owner |-> d, sku |-> v, quantity |-> cjob[k].quantity]
    OBVIOUS
  <2>3. PICK n : n = Len(item)
    OBVIOUS
  <2>4. row \in CartItem
    BY <2>2, CartFacts DEF CJob, CartItem
  <2>5. inCart' = inCart \cup {n + 1} /\ item' = Append(item, row)
    BY <1>8, <2>1, <2>2, <2>3 DEF AddSave
  <2>6. n \in Nat /\ DOMAIN item = 1 .. n /\ item \in Seq(CartItem) /\ inCart \subseteq 1 .. n
    BY <2>3, CartFacts
  <2>7. /\ \A i \in 1 .. n : item'[i] = item[i]
        /\ item'[n + 1] = row
    BY <2>3, <2>4, <2>5, <2>6, AppendRow
  <2>8. n + 1 \notin 1 .. n
    BY <2>6
  <2>9. /\ asked' \in [Customers -> [Skus -> Int]]
        /\ \A c \in Customers \ stirred : asked'[c] = new[c]
    BY <1>2, <1>4, AskFollows
  <2>10. ASSUME NEW c \in Customers \ stirred, c \notin cjob[k].customers PROVE SameCart(c)
    <3>1. asked'[c] = asked[c]
      BY <2>9, <2>10, <1>1, AskedFacts
    <3>2. row.owner # c
      BY <2>2, <2>10
    <3>3. ItemsOf(c)' = ItemsOf(c)
      BY <2>5, <2>6, <2>7, <2>8, <3>2 DEF ItemsOf
    <3>4. \A i \in ItemsOf(c) : item'[i] = item[i]
      BY <2>6, <2>7 DEF ItemsOf
    <3>5. \A i \in DOMAIN item : item'[i] = item[i]
      BY <2>6, <2>7
    <3>6. QED
      BY <3>1, <3>3, <3>4, <3>5 DEF SameCart
  <2>11. ASSUME NEW c \in Customers \ stirred, c \in cjob[k].customers
         PROVE  OneItemEach(c)'
    <3>1. /\ InTurn(c) /\ d = c /\ cjob[k].sku = {v} /\ v \in Skus /\ ItemsWith(c, v) = {}
      BY <2>11, <1>5, <1>8
    <3>2. ASSUME NEW t \in Skus
          PROVE  /\ \A i, l \in ItemsWith(c, t)' : i = l
                 /\ IF ItemsWith(c, t)' = {} THEN asked'[c][t] = 0
                      ELSE \A i \in ItemsWith(c, t)' : item'[i].quantity = asked'[c][t]
      <4>1. /\ \A i, l \in ItemsWith(c, t) : i = l
            /\ IF ItemsWith(c, t) = {} THEN asked[c][t] = 0
                 ELSE \A i \in ItemsWith(c, t) : item[i].quantity = asked[c][t]
        BY <3>1 DEF InTurn, OneItemEach
      <4>2. \A i \in inCart : item'[i] = item[i]
        BY <2>6, <2>7
      <4>3. CASE t = v
        <5>1. ItemsWith(c, t)' = {n + 1}
          <6>1. \A i \in inCart : ~(item'[i].owner = c /\ item'[i].sku = t)
            BY <4>3, <4>2, <3>1 DEF ItemsWith, ItemsOf
          <6>2. item'[n + 1].owner = c /\ item'[n + 1].sku = t
            BY <4>3, <3>1, <2>2, <2>7
          <6>3. QED
            BY <6>1, <6>2, <2>5 DEF ItemsWith, ItemsOf
        <5>2. asked'[c][t] = cjob[k].quantity /\ item'[n + 1].quantity = cjob[k].quantity
          BY <4>3, <3>1, <2>2, <2>7, <2>9, <2>11, <1>6
        <5>3. QED
          BY <5>1, <5>2
      <4>4. CASE t # v
        <5>1. ItemsWith(c, t)' = ItemsWith(c, t)
          <6>1. item'[n + 1].sku # t
            BY <4>4, <2>2, <2>7
          <6>2. n + 1 \notin inCart
            BY <2>6, <2>8
          <6>3. \A i \in inCart' : IF i \in inCart THEN item'[i] = item[i] ELSE item'[i].sku # t
            BY <6>1, <4>2, <2>5
          <6>4. inCart \subseteq inCart'
            BY <2>5
          <6>5. QED
            BY <6>3, <6>4 DEF ItemsWith, ItemsOf
        <5>2. asked'[c][t] = asked[c][t]
          BY <4>4, <3>1, <2>9, <1>6
        <5>3. \A i \in ItemsWith(c, t) : item'[i].quantity = item[i].quantity
          BY <4>2 DEF ItemsWith, ItemsOf
        <5>4. QED
          BY <4>1, <5>1, <5>2, <5>3
      <4>5. QED
        BY <4>3, <4>4
    <3>3. QED
      BY <3>2 DEF OneItemEach
  <2>12. \A i \in DOMAIN item : item'[i].owner \in {item[i].owner, Nobody}
    BY <2>6, <2>7
  <2>13. QED
    BY <2>9, <2>10, <2>11, <2>12, <1>2, AskedEnds
<1>9. QED
  BY <1>7, <1>8

\* Items leave the cart, all or none of a variant.
LEMMA ItemsGo ==
    ASSUME NEW c \in Customers, OneItemEach(c), NEW set, item' = item, inCart' = inCart \ set,
           \A s \in Skus : \/ asked'[c][s] = asked[c][s] /\ ItemsWith(c, s) \cap set = {}
                           \/ asked'[c][s] = 0 /\ ItemsWith(c, s) \subseteq set
    PROVE  OneItemEach(c)'
<1>1. \A s \in Skus : ItemsWith(c, s)' = ItemsWith(c, s) \ set
  BY DEF ItemsWith, ItemsOf
<1>2. ASSUME NEW s \in Skus
      PROVE  /\ \A i, l \in ItemsWith(c, s)' : i = l
             /\ IF ItemsWith(c, s)' = {} THEN asked'[c][s] = 0
                  ELSE \A i \in ItemsWith(c, s)' : item'[i].quantity = asked'[c][s]
  <2>1. /\ \A i, l \in ItemsWith(c, s) : i = l
        /\ IF ItemsWith(c, s) = {} THEN asked[c][s] = 0
             ELSE \A i \in ItemsWith(c, s) : item[i].quantity = asked[c][s]
    BY DEF OneItemEach
  <2>2. CASE asked'[c][s] = asked[c][s] /\ ItemsWith(c, s) \cap set = {}
    <3>1. ItemsWith(c, s)' = ItemsWith(c, s)
      BY <2>2, <1>1
    <3>2. QED
      BY <2>1, <2>2, <3>1
  <2>3. CASE asked'[c][s] = 0 /\ ItemsWith(c, s) \subseteq set
    <3>1. ItemsWith(c, s)' = {}
      BY <2>3, <1>1
    <3>2. QED
      BY <2>3, <3>1
  <2>4. QED
    BY <2>2, <2>3
<1>3. QED
  BY <1>2 DEF OneItemEach

\* Items of others leave the cart.
LEMMA OthersGo ==
    ASSUME NEW c \in Customers, NEW set, item' = item, inCart' = inCart \ set,
           \A i \in set : item[i].owner # c, asked'[c] = asked[c]
    PROVE  SameCart(c)
BY DEF SameCart, ItemsOf

LEMMA RemoveSaveAsAsked ==
    ASSUME CartInv, AskedInv, NEW k \in Clerks, RemoveSave(k)
    PROVE  AskedInv'
<1>1. PICK new : new = [c \in Customers |-> [s \in Skus |->
                           IF c \in cjob[k].customers /\ s \in cjob[k].sku THEN cjob[k].quantity
                                                                          ELSE asked[c][s]]]
  OBVIOUS
<1>2. PICK set : set = cjob[k].items
  OBVIOUS
<1>3. /\ cjob[k].op = "remove" /\ inCart' = inCart \ set /\ item' = item /\ Ask(new)
      /\ CDone(k) /\ stirred' = stirred
  BY <1>1, <1>2 DEF RemoveSave, ChangeAsked
<1>4. cjob[k].quantity \in Int
  BY CartFacts DEF CJob, CartQuantity
<1>5. \A c \in Customers : new[c] \in [Skus -> Int]
  BY <1>1, <1>4, AskedFacts
<1>6. /\ asked' \in [Customers -> [Skus -> Int]]
      /\ \A c \in Customers \ stirred : asked'[c] = new[c]
  BY <1>3, <1>5, AskFollows
<1>7. ASSUME NEW c \in Customers \ stirred, c \notin cjob[k].customers PROVE SameCart(c)
  <2>1. asked'[c] = asked[c]
    BY <1>1, <1>6, <1>7, AskedFacts
  <2>2. KnowsOwners(cjob[k]) /\ c # Nobody
    BY AskedFacts
  <2>3. \A i \in set : item[i].owner # c
    BY <2>2, <1>2, <1>7 DEF KnowsOwners
  <2>4. QED
    BY <2>1, <2>3, <1>3, OthersGo
<1>8. ASSUME NEW c \in Customers \ stirred, c \in cjob[k].customers PROVE OneItemEach(c)'
  <2>1. OneItemEach(c) /\ UpToDate(cjob[k], c)
    BY <1>8, AskedFacts DEF InTurn
  <2>2. cjob[k].quantity = 0
    BY <2>1, <1>3 DEF UpToDate
  <2>3. PICK v \in Skus : cjob[k].sku = {v} /\ set = ItemsWith(c, v)
    BY <2>1, <1>2, <1>3 DEF UpToDate
  <2>4. ASSUME NEW s \in Skus
        PROVE  \/ asked'[c][s] = asked[c][s] /\ ItemsWith(c, s) \cap set = {}
               \/ asked'[c][s] = 0 /\ ItemsWith(c, s) \subseteq set
    <3>1. asked'[c][s] = IF s = v THEN 0 ELSE asked[c][s]
      BY <2>2, <2>3, <1>1, <1>6, <1>8
    <3>2. s # v => ItemsWith(c, s) \cap set = {}
      BY <2>3 DEF ItemsWith
    <3>3. QED
      BY <3>1, <3>2, <2>3
  <2>5. QED
    BY <2>1, <2>4, <1>3, ItemsGo
<1>9. \A i \in DOMAIN item : item'[i].owner \in {item[i].owner, Nobody}
  BY <1>3
<1>10. QED
  BY <1>3, <1>6, <1>7, <1>8, <1>9, AskedEnds

\* An order takes the items that it found in the cart.
LEMMA OrderSaveAsAsked ==
    ASSUME CartInv, AskedInv, NEW k \in Clerks, OrderSave(k)
    PROVE  AskedInv'
<1>1. PICK set : set = cjob[k].items
  OBVIOUS
<1>2. PICK new : new = [c \in Customers |-> [s \in Skus |->
                           IF \E i \in set : item[i].owner = c /\ item[i].sku = s
                             THEN 0 ELSE asked[c][s]]]
  OBVIOUS
<1>3. /\ cjob[k].op = "order" /\ inCart' = inCart \ set /\ item' = item /\ Ask(new)
      /\ CDone(k) /\ stirred' = stirred
  BY <1>1, <1>2 DEF OrderSave, Bought
<1>4. \A c \in Customers : new[c] \in [Skus -> Int]
  BY <1>2, AskedFacts
<1>5. /\ asked' \in [Customers -> [Skus -> Int]]
      /\ \A c \in Customers \ stirred : asked'[c] = new[c]
  BY <1>3, <1>4, AskFollows
<1>6. ASSUME NEW c \in Customers \ stirred, c \notin cjob[k].customers PROVE SameCart(c)
  <2>1. KnowsOwners(cjob[k]) /\ c # Nobody
    BY AskedFacts
  <2>2. \A i \in set : item[i].owner # c
    BY <2>1, <1>1, <1>6 DEF KnowsOwners
  <2>3. asked'[c] = asked[c]
    BY <2>2, <1>2, <1>5, AskedFacts
  <2>4. QED
    BY <2>2, <2>3, <1>3, OthersGo
<1>7. ASSUME NEW c \in Customers \ stirred, c \in cjob[k].customers PROVE OneItemEach(c)'
  <2>1. OneItemEach(c) /\ UpToDate(cjob[k], c)
    BY <1>7, AskedFacts DEF InTurn
  <2>2. \A i \in set : item[i].owner = c => i \in inCart
    BY <2>1, <1>1, <1>3 DEF UpToDate
  <2>3. ASSUME NEW s \in Skus
        PROVE  \/ asked'[c][s] = asked[c][s] /\ ItemsWith(c, s) \cap set = {}
               \/ asked'[c][s] = 0 /\ ItemsWith(c, s) \subseteq set
    <3>1. CASE \E i \in set : item[i].owner = c /\ item[i].sku = s
      <4>1. PICK i \in set : item[i].owner = c /\ item[i].sku = s
        BY <3>1
      <4>2. i \in ItemsWith(c, s)
        BY <4>1, <2>2 DEF ItemsWith, ItemsOf
      <4>3. ItemsWith(c, s) \subseteq set
        BY <4>1, <4>2, <2>1 DEF OneItemEach
      <4>4. asked'[c][s] = 0
        BY <3>1, <1>2, <1>5
      <4>5. QED
        BY <4>3, <4>4
    <3>2. CASE ~ \E i \in set : item[i].owner = c /\ item[i].sku = s
      <4>1. ItemsWith(c, s) \cap set = {}
        BY <3>2 DEF ItemsWith, ItemsOf
      <4>2. asked'[c][s] = asked[c][s]
        BY <3>2, <1>2, <1>5
      <4>3. QED
        BY <4>1, <4>2
    <3>3. QED
      BY <3>1, <3>2
  <2>4. QED
    BY <2>1, <2>3, <1>3, ItemsGo
<1>8. \A i \in DOMAIN item : item'[i].owner \in {item[i].owner, Nobody}
  BY <1>3
<1>9. QED
  BY <1>3, <1>5, <1>6, <1>7, <1>8, AskedEnds

LEMMA CAbortAsAsked ==
    ASSUME CartInv, AskedInv, NEW k \in Clerks, CAbort(k)
    PROVE  AskedInv'
<1>1. CDone(k) /\ UNCHANGED <<item, inCart, asked, stirred>>
  BY DEF CAbort, CDatabase
<1>2. ASSUME NEW c \in Customers \ stirred PROVE SameCart(c) /\ OneItemEach(c)'
  <2>1. SameCart(c)
    BY <1>1 DEF SameCart, ItemsOf
  <2>2. QED
    BY <2>1, CartElsewhere
<1>3. /\ asked' \in [Customers -> [Skus -> Int]]
      /\ \A i \in DOMAIN item : item'[i].owner \in {item[i].owner, Nobody}
  BY <1>1, AskedFacts
<1>4. QED
  BY <1>1, <1>2, <1>3, AskedEnds

\* No request is in flight for the customer whose cart is cleared, or it is
\* followed no longer.
LEMMA ClearCartAsAsked ==
    ASSUME CartInv, AskedInv, NEW d \in Customers, ClearCart(d)
    PROVE  AskedInv'
<1>1. PICK new : new = [asked EXCEPT ![d] = [s \in Skus |-> 0]]
  OBVIOUS
<1>2. PICK set : set = ItemsOf(d)
  OBVIOUS
<1>3. /\ inCart' = inCart \ set /\ item' = item /\ cjob' = cjob /\ Ask(new)
      /\ stirred' = stirred \cup ({d} \cap UNION {cjob[k].customers : k \in CBusy})
  BY <1>1, <1>2 DEF ClearCart, Stir
<1>4. \A c \in Customers : /\ new[c] \in [Skus -> Int]
                           /\ new[c] = IF c = d THEN [s \in Skus |-> 0] ELSE asked[c]
  BY <1>1, AskedFacts
<1>5. /\ asked' \in [Customers -> [Skus -> Int]]
      /\ \A c \in Customers \ stirred : asked'[c] = new[c]
  BY <1>3, <1>4, AskFollows
<1>6. ASSUME NEW k \in Clerks PROVE KnowsOwners(cjob[k])'
  <2>1. KnowsOwners(cjob[k])
    BY AskedFacts
  <2>2. QED
    BY <2>1, <1>3 DEF KnowsOwners
<1>7. ASSUME NEW c \in Customers \ stirred' PROVE InTurn(c)'
  <2>1. c \in Customers \ stirred /\ InTurn(c)
    BY <1>3, AskedFacts
  <2>2. CASE c = d
    <3>1. ASSUME NEW k \in Clerks PROVE c \notin cjob'[k].customers
      <4>1. SUFFICES ASSUME c \in cjob[k].customers PROVE FALSE
        BY <1>3
      <4>2. k \in CBusy
        BY <4>1, AskedFacts DEF KnowsOwners, CBusy
      <4>3. QED
        BY <4>1, <4>2, <2>2, <1>3, <1>7
    <3>2. \A s \in Skus : asked'[c][s] = 0 /\ ItemsWith(c, s) \subseteq set
      BY <2>1, <2>2, <1>2, <1>4, <1>5 DEF ItemsWith
    <3>3. OneItemEach(c)'
      BY <2>1, <3>2, <1>3, ItemsGo DEF InTurn
    <3>4. QED
      BY <3>1, <3>3 DEF InTurn
  <2>3. CASE c # d
    <3>1. \A i \in set : item[i].owner # c
      BY <2>3, <1>2 DEF ItemsOf
    <3>2. asked'[c] = asked[c]
      BY <2>1, <2>3, <1>4, <1>5
    <3>3. SameCart(c)
      BY <3>1, <3>2, <1>3, OthersGo
    <3>4. OneItemEach(c)'
      BY <3>3, <2>1, CartElsewhere
    <3>5. ASSUME NEW k \in Clerks, c \in cjob'[k].customers PROVE UpToDate(cjob[k], c)'
      <4>1. PICK j : j = cjob[k]
        OBVIOUS
      <4>2. j \in CJob /\ j.items \subseteq DOMAIN item /\ UpToDate(j, c)
        BY <4>1, <3>5, <2>1, <1>3, CartFacts DEF InTurn
      <4>3. UpToDate(j, c)'
        BY <4>2, <3>3, <2>1, CartElsewhere
      <4>4. j = cjob'[k]
        BY <4>1, <1>3
      <4>5. QED
        BY <4>3, <4>4
    <3>6. \A k, l \in Clerks : c \in cjob'[k].customers \cap cjob'[l].customers => k = l
      BY <2>1, <1>3 DEF InTurn
    <3>7. QED
      BY <3>4, <3>5, <3>6 DEF InTurn
  <2>4. QED
    BY <2>2, <2>3
<1>8. QED
  BY <1>5, <1>6, <1>7 DEF AskedInv

\* A cart is created; what the request has read stays.
LEMMA CreateCartAsAsked ==
    ASSUME CartInv, AskedInv, NEW k \in Clerks, CreateCart(k)
    PROVE  AskedInv'
<1>1. PICK old : old = cjob[k]
  OBVIOUS
<1>2. PICK j : j = IF old.op = "get" THEN IdleCJob ELSE [old EXCEPT !.phase = "loaded"]
  OBVIOUS
<1>3. /\ cjob' = [cjob EXCEPT ![k] = j]
      /\ UNCHANGED <<item, inCart, asked, ordered, stirred>>
  BY <1>1, <1>2 DEF CreateCart
<1>4. old \in CJob /\ KnowsOwners(old) /\ old.items \subseteq DOMAIN item
  BY <1>1, CartFacts, AskedFacts
<1>5. /\ j \in CJob /\ KnowsOwners(j) /\ j.items \subseteq DOMAIN item
      /\ j.customers \subseteq old.customers
      /\ \A c \in j.customers : UpToDate(old, c) => UpToDate(j, c)
  <2>1. CASE old.op = "get"
    BY <2>1, <1>2, IdleCJobType DEF KnowsOwners
  <2>2. CASE old.op # "get"
    <3>1. /\ j \in CJob /\ j.phase = "loaded" /\ j.op = old.op /\ j.customers = old.customers
          /\ j.sku = old.sku /\ j.items = old.items /\ j.quantity = old.quantity
          /\ j.taken = old.taken
      BY <2>2, <1>2, <1>4 DEF CJob
    <3>2. KnowsOwners(j)
      BY <3>1, <1>4 DEF KnowsOwners
    <3>3. \A c \in j.customers : UpToDate(old, c) => UpToDate(j, c)
      BY <3>1 DEF UpToDate
    <3>4. QED
      BY <3>1, <3>2, <3>3, <1>4
  <2>3. QED
    BY <2>1, <2>2
<1>6. cjob'[k] = j /\ \A l \in Clerks \ {k} : cjob'[l] = cjob[l]
  BY <1>3, CartFacts
<1>7. ASSUME NEW l \in Clerks PROVE KnowsOwners(cjob[l])'
  <2>1. KnowsOwners(cjob[l])
    BY AskedFacts
  <2>2. CASE l = k
    BY <2>2, <1>3, <1>5, <1>6 DEF KnowsOwners
  <2>3. CASE l # k
    BY <2>1, <2>3, <1>3, <1>6 DEF KnowsOwners
  <2>4. QED
    BY <2>2, <2>3
<1>8. ASSUME NEW c \in Customers \ stirred PROVE InTurn(c)'
  <2>1. InTurn(c)
    BY AskedFacts
  <2>2. SameCart(c)
    BY <1>3 DEF SameCart, ItemsOf
  <2>3. \A l \in Clerks : c \in cjob'[l].customers => c \in cjob[l].customers
    BY <1>1, <1>5, <1>6
  <2>4. \A l, m \in Clerks : c \in cjob'[l].customers \cap cjob'[m].customers => l = m
    BY <2>1, <2>3 DEF InTurn
  <2>5. ASSUME NEW l \in Clerks, c \in cjob'[l].customers PROVE UpToDate(cjob[l], c)'
    <3>1. PICK i : i = cjob'[l]
      OBVIOUS
    <3>2. UpToDate(cjob[l], c)
      BY <2>1, <2>3, <2>5 DEF InTurn
    <3>3. i \in CJob /\ i.items \subseteq DOMAIN item /\ UpToDate(i, c)
      <4>1. CASE l = k
        BY <4>1, <3>1, <3>2, <2>5, <1>1, <1>5, <1>6
      <4>2. CASE l # k
        BY <4>2, <3>1, <3>2, <1>6, CartFacts
      <4>3. QED
        BY <4>1, <4>2
    <3>4. UpToDate(i, c)'
      BY <3>3, <2>2, CartElsewhere
    <3>5. QED
      BY <3>1, <3>4
  <2>6. OneItemEach(c)'
    BY <2>2, CartElsewhere
  <2>7. QED
    BY <2>4, <2>5, <2>6 DEF InTurn
<1>9. QED
  BY <1>3, <1>7, <1>8, AskedFacts DEF AskedInv

LEMMA GetCartAsAsked ==
    ASSUME CartInv, AskedInv, NEW k \in Clerks, NEW d \in Customers, GetCart(k, d)
    PROVE  AskedInv'
<1> DEFINE j == [IdleCJob EXCEPT !.phase = "noCart", !.op = "get", !.customers = {d}]
<1>1. /\ j \in CJob /\ j.phase = "noCart" /\ j.op = "get" /\ j.items = {}
  BY IdleCJobType DEF CJob
<1>2. CStart(k, j)
  BY DEF GetCart
<1> HIDE DEF j
<1>3. KnowsOwners(j) /\ \A c \in Customers : UpToDate(j, c)
  BY <1>1 DEF KnowsOwners, UpToDate
<1>4. QED
  BY <1>1, <1>2, <1>3, AskedStarts

\* addToCart reads the one item of the variant, or that there is none.
LEMMA AddLoadAsAsked ==
    ASSUME CartInv, AskedInv, NEW k \in Clerks, NEW d \in Customers, NEW s \in Skus,
           NEW q \in Quantities, NEW set \in SUBSET ItemsWith(d, s), AddLoad(k, d, s, q, set)
    PROVE  AskedInv'
<1>1. PICK n : n = IF set = {} THEN q ELSE Sum(CHOOSE i \in set : TRUE, q)
  OBVIOUS
<1>2. PICK p : p = IF d \in carts THEN "loaded" ELSE "noCart"
  OBVIOUS
<1>3. /\ set \subseteq DOMAIN item /\ set \subseteq inCart /\ DOMAIN item \subseteq Rows
      /\ \A i \in set : item[i].owner = d
  BY CartFacts DEF ItemsWith, ItemsOf
<1>4. q \in Int /\ q \in CartQuantity /\ MaxCartQty \in Nat
  BY CartFacts DEF CartQuantity
<1>5. n \in CartQuantity /\ \A i \in set : (\A l \in set : l = i) => n = item[i].quantity + q
  <2>1. CASE set = {}
    BY <2>1, <1>1, <1>4
  <2>2. CASE set # {}
    <3>1. PICK i \in set : i = CHOOSE l \in set : TRUE
      BY <2>2
    <3>2. n = Sum(i, q) /\ Sum(i, q) \in CartQuantity
      BY <3>1, <2>2, <1>1 DEF AddLoad
    <3>3. item[i].quantity \in CartQuantity
      BY <1>3, CartFacts DEF CartItem
    <3>4. n \in CartQuantity /\ n = item[i].quantity + q
      BY <3>2, <3>3, <1>4 DEF Sum, CartQuantity
    <3>5. QED
      BY <3>4
  <2>3. QED
    BY <2>1, <2>2
<1> DEFINE j == [IdleCJob EXCEPT !.phase = p, !.op = "add", !.customers = {d}, !.sku = {s},
                     !.items = set, !.taken = q, !.quantity = n]
<1>6. CStart(k, j)
  BY <1>1, <1>2 DEF AddLoad
<1>7. p \in {"loaded", "noCart"} /\ set \subseteq Rows
  BY <1>2, <1>3
<1>8. /\ j \in CJob /\ j.phase = p /\ j.op = "add" /\ j.customers = {d} /\ j.items = set
      /\ j.sku = {s} /\ j.taken = q /\ j.quantity = n
  BY <1>4, <1>5, <1>7, IdleCJobType DEF CJob
<1> HIDE DEF j
<1>9. KnowsOwners(j)
  BY <1>3, <1>7, <1>8 DEF KnowsOwners
<1>10. ASSUME NEW c \in (Customers \ stirred) \cap j.customers PROVE UpToDate(j, c)
  <2>1. c = d /\ OneItemEach(d)
    BY <1>8, <1>10, AskedFacts DEF InTurn
  <2>2. set = ItemsWith(d, s) /\ n = asked[d][s] + q
    <3>1. CASE ItemsWith(d, s) = {}
      <4>1. asked[d][s] = 0
        BY <3>1, <2>1 DEF OneItemEach
      <4>2. set = {} /\ n = q
        BY <3>1, <1>1
      <4>3. QED
        BY <4>1, <4>2, <3>1, <1>4
    <3>2. CASE ItemsWith(d, s) # {}
      <4>1. Cardinality(set) = 1
        BY <3>2 DEF AddLoad
      <4>2. Cardinality({}) = 0
        BY FS_EmptySet, Zenon
      <4>3. set # {}
        BY <4>1, <4>2
      <4>4. PICK i \in set : TRUE
        BY <4>3
      <4>5. /\ \A l \in ItemsWith(d, s) : l = i
            /\ item[i].quantity = asked[d][s]
        BY <4>4, <2>1 DEF OneItemEach
      <4>6. n = item[i].quantity + q
        BY <4>4, <4>5, <1>5
      <4>7. QED
        BY <4>4, <4>5, <4>6
    <3>3. QED
      BY <3>1, <3>2
  <2>3. QED
    BY <2>1, <2>2, <1>8 DEF UpToDate
<1>11. QED
  BY <1>3, <1>6, <1>7, <1>8, <1>9, <1>10, AskedStarts

\* updateCart and remove name the one item of the variant.
LEMMA ChangeLoadAsAsked ==
    ASSUME CartInv, AskedInv, NEW k \in Clerks, NEW d \in Customers, NEW i \in inCart,
           NEW op \in {"update", "remove"}, NEW q \in CartQuantity, op = "remove" => q = 0,
           ChangeLoad(k, op, d, i, q)
    PROVE  AskedInv'
<1>1. PICK s : s = item[i].sku
  OBVIOUS
<1> DEFINE j == [IdleCJob EXCEPT !.phase = "loaded", !.op = op, !.customers = {d},
                     !.sku = {s}, !.items = {i}, !.quantity = q]
<1>2. CStart(k, j) /\ i \in ItemsOf(d)
  BY <1>1 DEF ChangeLoad
<1>3. i \in DOMAIN item /\ i \in Rows /\ s \in Skus /\ item[i].owner = d
  BY <1>1, <1>2, CartFacts DEF ItemsOf
<1>4. /\ j \in CJob /\ j.phase = "loaded" /\ j.op = op /\ j.customers = {d} /\ j.items = {i}
      /\ j.sku = {s} /\ j.quantity = q
  BY <1>3, IdleCJobType DEF CJob
<1> HIDE DEF j
<1>5. KnowsOwners(j)
  BY <1>3, <1>4 DEF KnowsOwners
<1>6. ASSUME NEW c \in (Customers \ stirred) \cap j.customers PROVE UpToDate(j, c)
  <2>1. c = d /\ OneItemEach(d)
    BY <1>4, <1>6, AskedFacts DEF InTurn
  <2>2. i \in ItemsWith(d, s)
    BY <1>1, <1>2 DEF ItemsWith
  <2>3. ItemsWith(d, s) = {i}
    BY <2>1, <2>2, <1>3 DEF OneItemEach
  <2>4. QED
    BY <2>1, <2>3, <1>3, <1>4 DEF UpToDate
<1>7. QED
  BY <1>2, <1>3, <1>4, <1>5, <1>6, AskedStarts

LEMMA OrderLoadAsAsked ==
    ASSUME CartInv, AskedInv, NEW k \in Clerks, NEW set \in SUBSET inCart, OrderLoad(k, set)
    PROVE  AskedInv'
<1>1. PICK owners : owners = {item[i].owner : i \in set}
  OBVIOUS
<1> DEFINE j == [IdleCJob EXCEPT !.phase = "loaded", !.op = "order", !.items = set,
                     !.customers = owners]
<1>2. CStart(k, j)
  BY <1>1 DEF OrderLoad
<1>3. set \subseteq DOMAIN item /\ set \subseteq Rows
  BY CartFacts
<1>4. owners \subseteq Customers \cup {Nobody} /\ \A i \in set : item[i].owner \in owners
  BY <1>1, <1>3, CartFacts
<1>5. /\ j \in CJob /\ j.phase = "loaded" /\ j.op = "order" /\ j.customers = owners
      /\ j.items = set
  BY <1>3, <1>4, IdleCJobType DEF CJob
<1> HIDE DEF j
<1>6. KnowsOwners(j) /\ \A c \in Customers : UpToDate(j, c)
  BY <1>4, <1>5 DEF KnowsOwners, UpToDate
<1>7. QED
  BY <1>2, <1>3, <1>5, <1>6, AskedStarts

LEMMA AskedKept ==
    ASSUME CartInv, AskedInv, CNext
    PROVE  AskedInv'
<1>1. ASSUME NEW c \in Customers, ClearCart(c) PROVE AskedInv'
  BY <1>1, ClearCartAsAsked
<1>2. ASSUME NEW k \in Clerks, NEW c \in Customers, GetCart(k, c) PROVE AskedInv'
  BY <1>2, GetCartAsAsked
<1>3. ASSUME NEW k \in Clerks, NEW c \in Customers, NEW s \in Skus, NEW q \in Quantities,
             NEW set \in SUBSET ItemsWith(c, s), AddLoad(k, c, s, q, set)
      PROVE  AskedInv'
  BY <1>3, AddLoadAsAsked
<1>4. ASSUME NEW k \in Clerks, NEW c \in Customers, NEW i \in inCart, NEW q \in Quantities,
             UpdateLoad(k, c, i, q)
      PROVE  AskedInv'
  <2>1. q \in CartQuantity /\ ChangeLoad(k, "update", c, i, q)
    BY <1>4, CartAssumption DEF UpdateLoad, CartQuantity
  <2>2. QED
    BY <2>1, ChangeLoadAsAsked
<1>5. ASSUME NEW k \in Clerks, NEW c \in Customers, NEW i \in inCart, RemoveLoad(k, c, i)
      PROVE  AskedInv'
  <2>1. 0 \in CartQuantity /\ ChangeLoad(k, "remove", c, i, 0)
    BY <1>5, CartAssumption DEF RemoveLoad, CartQuantity
  <2>2. QED
    BY <2>1, ChangeLoadAsAsked
<1>6. ASSUME NEW k \in Clerks, NEW set \in SUBSET inCart, OrderLoad(k, set) PROVE AskedInv'
  BY <1>6, OrderLoadAsAsked
<1>7. ASSUME NEW k \in Clerks, CreateCart(k) PROVE AskedInv'
  BY <1>7, CreateCartAsAsked
<1>8. ASSUME NEW k \in Clerks, AddSave(k) PROVE AskedInv'
  BY <1>8, AddSaveAsAsked
<1>9. ASSUME NEW k \in Clerks, UpdateSave(k) PROVE AskedInv'
  BY <1>9, UpdateSaveAsAsked
<1>10. ASSUME NEW k \in Clerks, RemoveSave(k) PROVE AskedInv'
  BY <1>10, RemoveSaveAsAsked
<1>11. ASSUME NEW k \in Clerks, OrderSave(k) PROVE AskedInv'
  BY <1>11, OrderSaveAsAsked
<1>12. ASSUME NEW k \in Clerks, CAbort(k) PROVE AskedInv'
  BY <1>12, CAbortAsAsked
<1>13. QED
  BY <1>1, <1>2, <1>3, <1>4, <1>5, <1>6, <1>7, <1>8, <1>9, <1>10, <1>11, <1>12 DEF CNext

\* Requests of a customer that take turns have read the cart as it is, which
\* has one item of each variant with what was asked for.
THEOREM AskedInvariant == Spec => []AskedInv
<1>1. Init => AskedInv
  <2>1. SUFFICES ASSUME Init PROVE AskedInv
    OBVIOUS
  <2>2. /\ item = <<>> /\ inCart = {} /\ cjob = [k \in Clerks |-> IdleCJob]
        /\ asked = [c \in Customers |-> [s \in Skus |-> 0]]
    BY <2>1 DEF Init, CInit
  <2>3. \A k \in Clerks : KnowsOwners(cjob[k]) /\ cjob[k].customers = {}
    BY <2>2, IdleCJobType DEF KnowsOwners
  <2>4. \A c \in Customers : OneItemEach(c)
    BY <2>2 DEF OneItemEach, ItemsWith, ItemsOf
  <2>5. asked \in [Customers -> [Skus -> Int]]
    BY <2>2
  <2>6. QED
    BY <2>3, <2>4, <2>5 DEF AskedInv, InTurn
<1>2. CartInv /\ AskedInv /\ [Next]_shopVars => AskedInv'
  <2>1. SUFFICES ASSUME CartInv, AskedInv, [Next]_shopVars PROVE AskedInv'
    OBVIOUS
  <2>2. CASE CNext
    BY <2>1, <2>2, AskedKept
  <2>3. CASE UNCHANGED cartVars
    BY <2>1, <2>3 DEF cartVars, AskedInv, KnowsOwners, InTurn, UpToDate, OneItemEach,
                      ItemsWith, ItemsOf
  <2>4. QED
    BY <2>1, <2>2, <2>3, CartStep
<1>3. QED
  BY <1>1, <1>2, CartInvariant, PTL DEF Spec

\* The sum over no item, and over one: the sum is a fold, which for these sets
\* is a function that can be written down.
LEMMA SumOfNone == MapThenSumSet(LAMBDA i : item[i].quantity, {}) = 0
<1> DEFINE step(g) == [s \in SUBSET {} |->
                          IF s = {} THEN 0
                          ELSE LET x == CHOOSE y \in s : TRUE
                               IN  item[x].quantity + g[s \ {x}]]
           iter == CHOOSE g : g = step(g)
<1>1. MapThenSumSet(LAMBDA i : item[i].quantity, {}) = iter[{}]
  BY DEF MapThenSumSet, MapThenFoldSet
<1>2. \E g : g = step(g)
  <2>1. PICK h : h = [s \in SUBSET {} |-> 0]
    OBVIOUS
  <2>2. \A s \in SUBSET {} : s = {}
    OBVIOUS
  <2>3. h = step(h)
    BY <2>1, <2>2
  <2>4. QED
    BY <2>3
<1>3. iter = step(iter)
  BY <1>2
<1> HIDE DEF iter
<1>4. iter[{}] = 0
  BY <1>3
<1>5. QED
  BY <1>1, <1>4

LEMMA SumOfOne ==
    ASSUME NEW r, item[r].quantity \in Int
    PROVE  MapThenSumSet(LAMBDA i : item[i].quantity, {r}) = item[r].quantity
<1> DEFINE step(g) == [s \in SUBSET {r} |->
                          IF s = {} THEN 0
                          ELSE LET x == CHOOSE y \in s : TRUE
                               IN  item[x].quantity + g[s \ {x}]]
           iter == CHOOSE g : g = step(g)
<1>1. MapThenSumSet(LAMBDA i : item[i].quantity, {r}) = iter[{r}]
  BY DEF MapThenSumSet, MapThenFoldSet
<1>2. \A s \in SUBSET {r} : s = {} \/ s = {r}
  OBVIOUS
<1>3. (CHOOSE y \in {r} : TRUE) = r /\ {r} \ {r} = {} /\ {r} # {}
  OBVIOUS
<1>4. \E g : g = step(g)
  <2>1. PICK h : h = [s \in SUBSET {r} |-> IF s = {} THEN 0 ELSE item[r].quantity]
    OBVIOUS
  <2>2. h[{}] = 0
    BY <2>1
  <2>3. ASSUME NEW s \in SUBSET {r} PROVE h[s] = step(h)[s]
    <3>1. CASE s = {}
      BY <3>1, <2>1
    <3>2. CASE s = {r}
      <4>1. step(h)[s] = item[r].quantity + h[{}]
        BY <3>2, <1>3
      <4>2. h[s] = item[r].quantity
        BY <3>2, <1>3, <2>1
      <4>3. QED
        BY <4>1, <4>2, <2>2
    <3>3. QED
      BY <3>1, <3>2, <1>2
  <2>4. h = [s \in SUBSET {r} |-> h[s]]
    BY <2>1
  <2>5. h = step(h)
    BY <2>3, <2>4
  <2>6. QED
    BY <2>5
<1>5. iter = step(iter)
  BY <1>4
<1> HIDE DEF iter
<1>6. iter[{}] = 0
  BY <1>5
<1>7. iter[{r}] = item[r].quantity + iter[{}]
  BY <1>3, <1>5
<1>8. QED
  BY <1>1, <1>6, <1>7

\* While a customer's requests take turns, the cart holds of each variant what
\* they asked for (addToCart, updateCart, remove, clearCart,
\* createOrderFromCartItem).
THEOREM CartAsAskedHolds == Spec => []CartAsAsked
<1>1. CartInv /\ AskedInv => CartAsAsked
  <2>1. SUFFICES ASSUME CartInv, AskedInv, NEW c \in Customers \ stirred, NEW s \in Skus
                 PROVE  MapThenSumSet(LAMBDA i : item[i].quantity, ItemsWith(c, s)) = asked[c][s]
    BY DEF CartAsAsked
  <2>2. OneItemEach(c)
    BY <2>1, AskedFacts DEF InTurn
  <2>3. CASE ItemsWith(c, s) = {}
    <3>1. asked[c][s] = 0
      BY <2>2, <2>3 DEF OneItemEach
    <3>2. QED
      BY <3>1, <2>3, SumOfNone
  <2>4. CASE ItemsWith(c, s) # {}
    <3>1. PICK r \in ItemsWith(c, s) : ItemsWith(c, s) = {r}
      BY <2>2, <2>4 DEF OneItemEach
    <3>2. item[r].quantity = asked[c][s]
      BY <2>2, <2>4 DEF OneItemEach
    <3>3. asked[c][s] \in Int
      BY <2>1, AskedFacts
    <3>4. MapThenSumSet(LAMBDA i : item[i].quantity, {r}) = item[r].quantity
      BY <3>2, <3>3, SumOfOne
    <3>5. QED
      BY <3>1, <3>2, <3>4
  <2>5. QED
    BY <2>3, <2>4
<1>2. QED
  BY <1>1, CartInvariant, AskedInvariant, PTL

---------------------------------------------------------------------------
(* Vouchers *)

LEMMA VoucherStep ==
    ASSUME [Next]_shopVars
    PROVE  \/ VNext /\ UNCHANGED inUse
           \/ UNCHANGED <<inUse, voucherVars>>
BY DEF Next, shopVars

LEMMA IdleVJobType ==
    /\ IdleVJob \in VJob /\ IdleVJob.phase = "idle" /\ IdleVJob.op = "none"
    /\ IdleVJob.rows = {} /\ IdleVJob.vouchers = {} /\ IdleVJob.customers = {}
BY DEF IdleVJob, VJob

LEMMA VoucherFacts ==
    ASSUME VoucherInv
    PROVE  /\ Len(owned) \in Nat /\ DOMAIN owned = 1 .. Len(owned) /\ DOMAIN owned \subseteq Rows
           /\ Len(owned) <= MaxRows /\ MaxRows \in Nat
           /\ owned \in [1 .. Len(owned) -> UserVoucher] /\ owned \in Seq(UserVoucher)
           /\ \A r \in DOMAIN owned : owned[r] \in UserVoucher
           /\ held \subseteq DOMAIN owned /\ offered \subseteq Vouchers /\ active \subseteq Vouchers
           /\ got \in [Vouchers -> Nat] /\ uncounted \in [Vouchers -> Int]
           /\ vjob \in [Clerks -> VJob] /\ \A k \in Clerks : vjob[k] \in VJob
           /\ \A k \in Clerks : VJobOK(k)
           /\ spent \in [Rows -> Nat] /\ Limit \in [Vouchers -> Nat]
<1>1. /\ Len(owned) \in Nat /\ DOMAIN owned = 1 .. Len(owned)
      /\ \A r \in DOMAIN owned : owned[r] \in UserVoucher
      /\ owned \in [1 .. Len(owned) -> UserVoucher] /\ owned \in Seq(UserVoucher)
  BY TableDomain DEF VoucherInv, VoucherTypeOK
<1>2. MaxRows \in Nat /\ Len(owned) <= MaxRows
  BY PartiesAssumption DEF VoucherInv, VoucherTypeOK
<1>3. DOMAIN owned \subseteq Rows
  BY <1>1, <1>2 DEF Rows
<1>4. QED
  BY <1>1, <1>2, <1>3, VouchersAssumption DEF VoucherInv, VoucherTypeOK

\* What the bounds count is finite.
LEMMA VoucherSets ==
    ASSUME VoucherInv
    PROVE  /\ \A v : /\ IsFiniteSet(Claimed(v)) /\ Cardinality(Claimed(v)) \in Nat
                     /\ Claiming(v) \in SUBSET Clerks /\ Cardinality(Claiming(v)) \in Nat
                     /\ Counting(v) \in SUBSET Clerks /\ Cardinality(Counting(v)) \in Nat
           /\ \A c, v : /\ IsFiniteSet(ClaimsOf(c, v)) /\ Cardinality(ClaimsOf(c, v)) \in Nat
                        /\ Checked(c, v) \in SUBSET Clerks /\ Cardinality(Checked(c, v)) \in Nat
           /\ \A r : Paying(r) \in SUBSET Clerks /\ Cardinality(Paying(r)) \in Nat
           /\ IsFiniteSet(Clerks) /\ Cardinality(Clerks) \in Nat /\ Cardinality(Clerks) >= 1
<1>1. IsFiniteSet(DOMAIN owned)
  <2>1. Len(owned) \in Nat /\ DOMAIN owned = 1 .. Len(owned)
    BY VoucherFacts
  <2>2. QED
    BY <2>1, FS_Interval
<1>2. \A v : Claimed(v) \subseteq DOMAIN owned
  BY DEF Claimed
<1>3. \A v : IsFiniteSet(Claimed(v)) /\ Cardinality(Claimed(v)) \in Nat
  BY <1>1, <1>2, FS_Subset, FS_CardinalityType
<1>4. \A c, v : ClaimsOf(c, v) \subseteq Claimed(v)
  BY DEF ClaimsOf
<1>5. \A c, v : IsFiniteSet(ClaimsOf(c, v)) /\ Cardinality(ClaimsOf(c, v)) \in Nat
  BY <1>3, <1>4, FS_Subset, FS_CardinalityType
<1>6. IsFiniteSet(Clerks) /\ Clerks # {}
  BY PartiesAssumption
<1>7. \A S \in SUBSET Clerks : Cardinality(S) \in Nat
  BY <1>6, FS_Subset, FS_CardinalityType
<1>8. /\ \A v : Claiming(v) \in SUBSET Clerks /\ Counting(v) \in SUBSET Clerks
      /\ \A c, v : Checked(c, v) \in SUBSET Clerks
      /\ \A r : Paying(r) \in SUBSET Clerks
  BY DEF Claiming, Counting, Checked, Paying
<1>9. Cardinality(Clerks) \in Nat
  BY <1>6, FS_CardinalityType
<1>10. Cardinality(Clerks) # 0
  BY <1>6, FS_EmptySet
<1>11. Cardinality(Clerks) >= 1
  BY <1>9, <1>10
<1>12. QED
  BY <1>3, <1>5, <1>6, <1>7, <1>8, <1>9, <1>11

\* The ghost never shrinks, and is at least what the count misses.
LEMMA MissedNoted ==
    ASSUME VoucherInv, NoteMissed, NEW n \in Nat, owned' \in [1 .. n -> UserVoucher],
           got' \in [Vouchers -> Nat]
    PROVE  /\ uncounted' \in [Vouchers -> Int]
           /\ \A v \in Vouchers : uncounted'[v] >= uncounted[v] /\ Missed(v)' <= uncounted'[v]
<1>1. \A v \in Vouchers : Missed(v)' \in Int
  <2>1. TAKE v \in Vouchers
  <2>2. PICK S : S = Claimed(v)'
    OBVIOUS
  <2>3. PICK T : T = Counting(v)'
    OBVIOUS
  <2>4. S \subseteq 1 .. n /\ T \subseteq Clerks
    BY <2>2, <2>3 DEF Claimed, Counting
  <2>5. IsFiniteSet(1 .. n) /\ IsFiniteSet(Clerks)
    BY FS_Interval, PartiesAssumption
  <2>6. Cardinality(S) \in Nat /\ Cardinality(T) \in Nat
    BY <2>4, <2>5, FS_Subset, FS_CardinalityType
  <2>7. Missed(v)' = Cardinality(S) - Cardinality(T) - got'[v]
    BY <2>2, <2>3 DEF Missed
  <2>8. got'[v] \in Nat
    OBVIOUS
  <2>9. QED
    BY <2>6, <2>7, <2>8
<1>2. PICK m : m = [v \in Vouchers |-> Missed(v)']
  OBVIOUS
<1>3. /\ m \in [Vouchers -> Int] /\ \A v \in Vouchers : m[v] = Missed(v)'
      /\ uncounted' = [v \in Vouchers |-> IF m[v] > uncounted[v] THEN m[v] ELSE uncounted[v]]
  BY <1>1, <1>2 DEF NoteMissed
<1>4. uncounted \in [Vouchers -> Int]
  BY VoucherFacts
<1>5. uncounted' \in [Vouchers -> Int]
  BY <1>3, <1>4
<1>6. ASSUME NEW v \in Vouchers
      PROVE  uncounted'[v] >= uncounted[v] /\ m[v] <= uncounted'[v]
  BY <1>3, <1>4
<1>7. QED
  BY <1>3, <1>5, <1>6

\* No row is claimed, and no request more may add one.
LEMMA ClaimsKept ==
    ASSUME VoucherInv, NEW v \in Vouchers, NEW c, NEW a, c = Claimed(v)', a = Claiming(v)',
           c = Claimed(v), a \subseteq Claiming(v),
           uncounted' \in [Vouchers -> Int], uncounted'[v] >= uncounted[v],
           Missed(v)' <= uncounted'[v]
    PROVE  ClaimsBounded(v)'
<1>1. /\ Cardinality(a) \in Nat /\ Cardinality(Claiming(v)) \in Nat
      /\ Cardinality(a) <= Cardinality(Claiming(v))
  BY VoucherSets, SubsetBound, FS_Subset
<1>2. Cardinality(c) + Cardinality(Claiming(v))
         <= Limit[v] + uncounted[v] + Cardinality(Clerks) - 1
  BY DEF VoucherInv, ClaimsBounded
<1>3. Cardinality(c) \in Nat /\ Cardinality(Clerks) \in Nat
  BY VoucherSets
<1>4. Limit[v] \in Nat /\ uncounted[v] \in Int /\ uncounted'[v] \in Int
  BY VoucherFacts
<1>5. Cardinality(c) + Cardinality(a) <= Limit[v] + uncounted'[v] + Cardinality(Clerks) - 1
  BY <1>1, <1>2, <1>3, <1>4
<1>6. QED
  BY <1>5 DEF ClaimsBounded

LEMMA CustomerKept ==
    ASSUME VoucherInv, NEW c \in Customers, NEW v \in Vouchers, NEW s, NEW t,
           s = ClaimsOf(c, v)', t = Checked(c, v)',
           s \subseteq ClaimsOf(c, v), t \subseteq Checked(c, v)
    PROVE  CustomerBounded(c, v)'
<1>1. /\ Cardinality(s) \in Nat /\ Cardinality(ClaimsOf(c, v)) \in Nat
      /\ Cardinality(s) <= Cardinality(ClaimsOf(c, v))
  BY VoucherSets, SubsetBound
<1>2. /\ Cardinality(t) \in Nat /\ Cardinality(Checked(c, v)) \in Nat
      /\ Cardinality(t) <= Cardinality(Checked(c, v))
  BY VoucherSets, SubsetBound, FS_Subset
<1>3. Cardinality(ClaimsOf(c, v)) + Cardinality(Checked(c, v)) <= Cardinality(Clerks)
  BY DEF VoucherInv, CustomerBounded
<1>4. Cardinality(Clerks) \in Nat
  BY VoucherSets
<1>5. Cardinality(s) + Cardinality(t) <= Cardinality(Clerks)
  BY <1>1, <1>2, <1>3, <1>4
<1>6. QED
  BY <1>5 DEF CustomerBounded

LEMMA SpentKept ==
    ASSUME VoucherInv, NEW r \in DOMAIN owned, NEW s, s = Paying(r)', s \subseteq Paying(r),
           spent'[r] = spent[r], owned'[r].used = owned[r].used
    PROVE  SpentBounded(r)'
<1>1. /\ Cardinality(s) \in Nat /\ Cardinality(Paying(r)) \in Nat
      /\ Cardinality(s) <= Cardinality(Paying(r))
  BY VoucherSets, SubsetBound, FS_Subset
<1>2. r \in Rows /\ spent[r] \in Nat
  <2>1. r \in Rows /\ spent \in [Rows -> Nat]
    BY VoucherFacts
  <2>2. QED
    BY <2>1
<1>3. (spent[r] > 0 <=> owned[r].used) /\ spent[r] + Cardinality(Paying(r)) <= Cardinality(Clerks)
  BY <1>2 DEF VoucherInv, SpentBounded
<1>4. Cardinality(Clerks) \in Nat
  BY VoucherSets
<1>5. spent[r] + Cardinality(s) <= Cardinality(Clerks)
  BY <1>1, <1>2, <1>3, <1>4
<1>6. (spent'[r] > 0 <=> owned'[r].used) /\ spent'[r] + Cardinality(s) <= Cardinality(Clerks)
  BY <1>3, <1>5
<1>7. QED
  BY <1>6 DEF SpentBounded

\* The rows of v that payments hold are no more than the payments.
LEMMA PaymentsHold ==
    ASSUME VoucherInv, NEW c \in Customers, NEW v \in Vouchers, RowsWith(c, v) = {}
    PROVE  \E p \in SUBSET Clerks :
              /\ Cardinality(ClaimsOf(c, v)) <= Cardinality(p)
              /\ \A k \in p : vjob[k].op = "pay"
<1> DEFINE rows == ClaimsOf(c, v)
           payer == [r \in rows |-> CHOOSE k \in Paying(r) : TRUE]
           p == {k \in Clerks : vjob[k].op = "pay"}
<1>1. ASSUME NEW r \in rows
      PROVE  r \in DOMAIN owned /\ owned[r].voucher = v /\ payer[r] \in Paying(r)
  <2>1. r \in DOMAIN owned /\ owned[r].voucher = v /\ owned[r].customer = c
    BY DEF ClaimsOf, Claimed
  <2>2. r \notin held
    BY <2>1 DEF RowsWith, RowsOf
  <2>3. Paying(r) # {}
    BY <2>2 DEF ClaimsOf
  <2>4. QED
    BY <2>1, <2>3
<1>2. ASSUME NEW r \in rows, NEW q \in rows, payer[r] = payer[q] PROVE r = q
  <2>1. PICK k : k = payer[r]
    OBVIOUS
  <2>2. k \in Paying(r) /\ k \in Paying(q)
    BY <2>1, <1>1, <1>2
  <2>3. k \in Clerks /\ vjob[k].op = "pay" /\ r \in vjob[k].rows /\ q \in vjob[k].rows
    BY <2>2 DEF Paying
  <2>4. VJobOK(k)
    BY <2>3, VoucherFacts
  <2>5. owned[r].voucher = owned[q].voucher
    BY <1>1
  <2>6. QED
    BY <2>3, <2>4, <2>5 DEF VJobOK
<1>3. \A r \in rows : payer[r] \in p
  BY <1>1 DEF Paying
<1>4. payer \in Injection(rows, p)
  <2>1. payer \in [rows -> p]
    BY <1>3
  <2>2. \A r, q \in rows : payer[r] = payer[q] => r = q
    BY <1>2
  <2> HIDE DEF payer, rows, p
  <2>3. QED
    BY <2>1, <2>2 DEF Injection, IsInjective
<1>5. IsFiniteSet(p)
  BY PartiesAssumption, FS_Subset
<1> HIDE DEF payer
<1>6. Cardinality(rows) <= Cardinality(p)
  BY <1>4, <1>5, FS_Injection
<1>7. p \in SUBSET Clerks /\ \A k \in p : vjob[k].op = "pay"
  OBVIOUS
<1>8. QED
  BY <1>6, <1>7

\* A request starts, goes on or ends; of the tables it may change the vouchers,
\* and delete rows of customers.
LEMMA VJobChanges ==
    ASSUME VoucherInv, NoteMissed, NEW k \in Clerks, NEW j \in VJob,
           vjob' = [vjob EXCEPT ![k] = j],
           offered' \subseteq Vouchers, active' \subseteq Vouchers, got' \in [Vouchers -> Nat],
           held' \subseteq held, UNCHANGED <<owned, spent>>,
           j.op = "claim" =>
              /\ j.phase \in {"loaded", "checked"} /\ j.customers # {}
              /\ \A v \in j.vouchers :
                    j.phase = "loaded" /\ j.got < Limit[v] => got[v] < Limit[v]
              /\ j.phase = "loaded" => vjob[k].phase = "idle"
              /\ j.phase = "checked" =>
                    /\ \A v \in j.vouchers : k \in Claiming(v)
                    /\ \A v \in j.vouchers, c \in j.customers : RowsWith(c, v) = {},
           j.op = "pay" =>
              /\ j.phase = "loaded" /\ j.rows \subseteq held
              /\ \A r \in j.rows : ~owned[r].used
              /\ \A r, q \in j.rows : owned[r].voucher = owned[q].voucher => r = q
    PROVE  VoucherInv'
<1>1. /\ vjob' \in [Clerks -> VJob] /\ vjob'[k] = j
      /\ \A l \in Clerks \ {k} : vjob'[l] = vjob[l]
  BY VoucherFacts
<1>2. /\ uncounted' \in [Vouchers -> Int]
      /\ \A v \in Vouchers : uncounted'[v] >= uncounted[v] /\ Missed(v)' <= uncounted'[v]
  BY VoucherFacts, MissedNoted
<1>3. VoucherTypeOK'
  BY <1>1, <1>2, VoucherFacts DEF VoucherTypeOK
<1>4. ASSUME NEW l \in Clerks PROVE VJobOK(l)'
  <2>1. VJobOK(l)
    BY VoucherFacts
  <2>2. CASE l = k
    <3>1. j.op = "pay" => j.rows \subseteq DOMAIN owned
      BY VoucherFacts
    <3>2. QED
      BY <2>2, <3>1, <1>1 DEF VJobOK
  <2>3. CASE l # k
    BY <2>1, <2>3, <1>1 DEF VJobOK
  <2>4. QED
    BY <2>2, <2>3
<1>5. ASSUME NEW v \in Vouchers PROVE ClaimsBounded(v)'
  <2>1. PICK c : c = Claimed(v)'
    OBVIOUS
  <2>2. PICK a : a = Claiming(v)'
    OBVIOUS
  <2>3. c = Claimed(v)
    BY <2>1 DEF Claimed
  <2>4. CASE a \subseteq Claiming(v)
    BY <2>1, <2>2, <2>3, <2>4, <1>2, ClaimsKept
  <2>5. CASE ~(a \subseteq Claiming(v))
    <3>1. k \in a /\ k \notin Claiming(v)
      BY <2>2, <2>5, <1>1 DEF Claiming
    <3>2. j.op = "claim" /\ v \in j.vouchers /\ (j.phase = "loaded" => j.got < Limit[v])
      BY <3>1, <2>2, <1>1 DEF Claiming
    <3>3. got[v] < Limit[v] /\ vjob[k].phase = "idle"
      BY <3>1, <3>2
    <3>4. Counting(v) \cap a = {}
      <4>1. SUFFICES ASSUME NEW l \in Counting(v), l \in a PROVE FALSE
        OBVIOUS
      <4>2. l # k /\ l \in Clerks /\ vjob[l].phase = "inserted"
        BY <4>1, <3>3 DEF Counting
      <4>3. vjob'[l] = vjob[l] /\ vjob'[l].phase # "inserted"
        BY <4>1, <4>2, <2>2, <1>1 DEF Claiming
      <4>4. QED
        BY <4>2, <4>3
    <3>5. Counting(v) \in SUBSET Clerks /\ a \in SUBSET Clerks
      BY <2>2 DEF Counting, Claiming
    <3>6. /\ Cardinality(Counting(v)) \in Nat /\ Cardinality(a) \in Nat
          /\ Cardinality(Clerks) \in Nat
          /\ Cardinality(Counting(v)) + Cardinality(a) <= Cardinality(Clerks)
      BY <3>4, <3>5, ClerksSum
    <3>7. Cardinality(c) - Cardinality(Counting(v)) - got[v] <= uncounted[v]
      BY <2>3 DEF VoucherInv, ClaimsBounded, Missed
    <3>8. Cardinality(c) \in Nat
      BY <2>3, VoucherSets
    <3>9. /\ got[v] \in Nat /\ Limit[v] \in Nat /\ uncounted[v] \in Int /\ uncounted'[v] \in Int
          /\ uncounted'[v] >= uncounted[v]
      BY <1>2, VoucherFacts
    <3>10. Cardinality(c) + Cardinality(a) <= Limit[v] + uncounted'[v] + Cardinality(Clerks) - 1
      BY <3>3, <3>6, <3>7, <3>8, <3>9
    <3>11. QED
      BY <3>10, <2>1, <2>2, <1>2 DEF ClaimsBounded
  <2>6. QED
    BY <2>4, <2>5
<1>6. ASSUME NEW r \in DOMAIN owned PROVE SpentBounded(r)'
  <2>1. PICK s : s = Paying(r)'
    OBVIOUS
  <2>2. CASE s \subseteq Paying(r)
    BY <2>1, <2>2, SpentKept
  <2>3. CASE ~(s \subseteq Paying(r))
    <3>1. k \in s /\ j.op = "pay" /\ r \in j.rows
      BY <2>1, <2>3, <1>1 DEF Paying
    <3>2. r \in Rows /\ spent \in [Rows -> Nat]
      BY VoucherFacts
    <3>3. spent[r] > 0 <=> owned[r].used
      BY <3>2 DEF VoucherInv, SpentBounded
    <3>4. ~owned[r].used /\ spent[r] = 0
      BY <3>1, <3>2, <3>3
    <3>5. s \subseteq Clerks
      BY <2>1 DEF Paying
    <3>6. Cardinality(s) \in Nat /\ Cardinality(s) <= Cardinality(Clerks)
      BY <3>5, SubsetBound, PartiesAssumption
    <3>7. spent'[r] = 0 /\ ~owned'[r].used
      BY <3>4
    <3>8. (spent'[r] > 0 <=> owned'[r].used) /\ spent'[r] + Cardinality(s) <= Cardinality(Clerks)
      BY <3>6, <3>7
    <3>9. QED
      BY <3>8, <2>1 DEF SpentBounded
  <2>4. QED
    BY <2>2, <2>3
<1>7. ASSUME NEW c \in Customers, NEW v \in Vouchers PROVE CustomerBounded(c, v)'
  <2>1. PICK s : s = ClaimsOf(c, v)'
    OBVIOUS
  <2>2. PICK t : t = Checked(c, v)'
    OBVIOUS
  <2>3. s \subseteq ClaimsOf(c, v)
    <3>1. SUFFICES ASSUME NEW r \in s PROVE r \in ClaimsOf(c, v)
      OBVIOUS
    <3>2. r \in DOMAIN owned /\ owned[r].voucher = v /\ owned[r].claimed /\ owned[r].customer = c
      BY <2>1 DEF ClaimsOf, Claimed
    <3>3. r \in held' \/ Paying(r)' # {}
      BY <2>1 DEF ClaimsOf
    <3>4. r \in held \/ Paying(r) # {}
      BY <3>3, <1>1 DEF Paying
    <3>5. QED
      BY <3>2, <3>4 DEF ClaimsOf, Claimed
  <2>4. CASE t \subseteq Checked(c, v)
    BY <2>1, <2>2, <2>3, <2>4, CustomerKept
  <2>5. CASE ~(t \subseteq Checked(c, v))
    <3>1. k \in t /\ j.op = "claim" /\ j.phase = "checked" /\ v \in j.vouchers /\ c \in j.customers
      BY <2>2, <2>5, <1>1 DEF Checked
    <3>2. RowsWith(c, v) = {}
      BY <3>1
    <3>3. PICK p \in SUBSET Clerks : /\ Cardinality(ClaimsOf(c, v)) <= Cardinality(p)
                                     /\ \A l \in p : vjob[l].op = "pay"
      BY <3>2, PaymentsHold
    <3>4. k \in Claiming(v)
      BY <3>1
    <3>5. vjob[k].op = "claim"
      BY <3>4 DEF Claiming
    <3>6. p \cap t = {}
      BY <3>3, <3>5, <2>2, <1>1 DEF Checked
    <3>7. t \in SUBSET Clerks
      BY <2>2 DEF Checked
    <3>8. /\ Cardinality(p) \in Nat /\ Cardinality(t) \in Nat /\ Cardinality(Clerks) \in Nat
          /\ Cardinality(p) + Cardinality(t) <= Cardinality(Clerks)
      BY <3>6, <3>7, ClerksSum
    <3>9. /\ Cardinality(s) \in Nat /\ Cardinality(ClaimsOf(c, v)) \in Nat
          /\ Cardinality(s) <= Cardinality(ClaimsOf(c, v))
      BY <2>3, VoucherSets, SubsetBound
    <3>10. Cardinality(s) + Cardinality(t) <= Cardinality(Clerks)
      BY <3>3, <3>8, <3>9
    <3>11. QED
      BY <3>10, <2>1, <2>2 DEF CustomerBounded
  <2>6. QED
    BY <2>4, <2>5
<1>8. \A r \in Rows \ DOMAIN owned : spent[r] = 0
  BY DEF VoucherInv
<1>9. QED
  BY <1>3, <1>4, <1>5, <1>6, <1>7, <1>8 DEF VoucherInv

\* A row is inserted: a gift, or what a checked claim asks for.
LEMMA VoucherInserted ==
    ASSUME VoucherInv, NoteMissed, inUse \in Mixes, NEW k \in Clerks, NEW j \in VJob,
           NEW row \in UserVoucher, ~row.used, InsertVoucher(row),
           vjob' = [vjob EXCEPT ![k] = j],
           j = IF row.claimed THEN [vjob[k] EXCEPT !.phase = "inserted"] ELSE vjob[k],
           row.claimed => /\ vjob[k].op = "claim" /\ vjob[k].phase = "checked"
                          /\ row.voucher \in vjob[k].vouchers
                          /\ row.customer \in vjob[k].customers,
           UNCHANGED <<offered, active, got, spent>>
    PROVE  VoucherInv'
<1>1. /\ vjob' \in [Clerks -> VJob] /\ vjob'[k] = j
      /\ \A l \in Clerks \ {k} : vjob'[l] = vjob[l]
      /\ vjob[k] \in VJob
  BY VoucherFacts
<1>2. PICK n \in Nat : n = Len(owned) /\ DOMAIN owned = 1 .. n /\ held \subseteq 1 .. n
  BY VoucherFacts
<1>3. n < inUse.rows /\ owned' = Append(owned, row) /\ held' = held \cup {n + 1}
  BY <1>2 DEF InsertVoucher, HasRoom
<1>4. /\ owned' \in Seq(UserVoucher) /\ Len(owned') = n + 1 /\ DOMAIN owned' = 1 .. (n + 1)
      /\ (\A r \in 1 .. n : owned'[r] = owned[r]) /\ owned'[n + 1] = row
  BY <1>2, <1>3, VoucherFacts, AppendRow
<1>5. n + 1 \in Rows /\ n + 1 <= MaxRows
  <2>1. inUse.rows \in Int /\ inUse.rows <= MaxRows /\ MaxRows \in Nat
    BY PartiesAssumption
  <2>2. QED
    BY <2>1, <1>3 DEF Rows
<1>6. /\ 1 .. n \subseteq 1 .. (n + 1) /\ n + 1 \in 1 .. (n + 1) /\ n + 1 \notin 1 .. n
      /\ \A r \in 1 .. (n + 1) : r = n + 1 \/ r \in 1 .. n
  OBVIOUS
<1>7. /\ uncounted' \in [Vouchers -> Int]
      /\ \A v \in Vouchers : uncounted'[v] >= uncounted[v] /\ Missed(v)' <= uncounted'[v]
  <2>1. owned' \in [1 .. (n + 1) -> UserVoucher] /\ n + 1 \in Nat
    BY <1>4
  <2>2. got' \in [Vouchers -> Nat]
    BY VoucherFacts
  <2>3. QED
    BY <2>1, <2>2, MissedNoted
<1>8. VoucherTypeOK'
  BY <1>1, <1>2, <1>3, <1>4, <1>5, <1>6, <1>7, VoucherFacts DEF VoucherTypeOK
<1>9. /\ j.op = vjob[k].op /\ j.vouchers = vjob[k].vouchers /\ j.customers = vjob[k].customers
      /\ j.rows = vjob[k].rows /\ j.got = vjob[k].got
      /\ j.phase = IF row.claimed THEN "inserted" ELSE vjob[k].phase
  BY <1>1 DEF VJob
<1>10. ASSUME NEW l \in Clerks PROVE VJobOK(l)'
  <2>1. VJobOK(l)
    BY VoucherFacts
  <2>2. vjob'[l].op = "pay" => /\ vjob'[l].phase = "loaded" /\ vjob'[l].rows \subseteq 1 .. n
                               /\ \A r, q \in vjob'[l].rows :
                                     owned[r].voucher = owned[q].voucher => r = q
    BY <2>1, <1>1, <1>2, <1>9 DEF VJobOK
  <2>3. vjob'[l].op = "claim" => /\ vjob'[l].phase \in {"loaded", "checked", "inserted"}
                                 /\ vjob'[l].customers # {}
    BY <2>1, <1>1, <1>9 DEF VJobOK
  <2>4. QED
    BY <2>2, <2>3, <1>4, <1>6 DEF VJobOK
<1>11. \A r : Paying(r)' = Paying(r)
  BY <1>1, <1>9 DEF Paying
<1>12. Paying(n + 1) = {}
  BY <1>2, <1>6, VoucherFacts DEF Paying, VJobOK
<1>13. ASSUME NEW r \in 1 .. (n + 1) PROVE SpentBounded(r)'
  <2>1. PICK s : s = Paying(r)'
    OBVIOUS
  <2>2. CASE r \in 1 .. n
    BY <2>1, <2>2, <1>2, <1>4, <1>11, SpentKept
  <2>3. CASE r = n + 1
    <3>1. spent'[r] = 0 /\ ~owned'[r].used
      BY <2>3, <1>2, <1>4, <1>5, <1>6 DEF VoucherInv
    <3>2. s = {} /\ Cardinality({}) = 0
      BY <2>1, <2>3, <1>11, <1>12, FS_EmptySet, Zenon
    <3>3. 0 + Cardinality(s) <= Cardinality(Clerks)
      BY <3>2, VoucherSets
    <3>4. (spent'[r] > 0 <=> owned'[r].used) /\ spent'[r] + Cardinality(s) <= Cardinality(Clerks)
      BY <3>1, <3>3
    <3>5. QED
      BY <3>4, <2>1 DEF SpentBounded
  <2>4. QED
    BY <2>2, <2>3, <1>6
<1>14. ASSUME NEW v \in Vouchers PROVE ClaimsBounded(v)'
  <2>1. PICK c : c = Claimed(v)'
    OBVIOUS
  <2>2. PICK a : a = Claiming(v)'
    OBVIOUS
  <2>3. a \subseteq Claiming(v)
    BY <2>2, <1>1, <1>9 DEF Claiming
  <2>4. CASE row.claimed /\ row.voucher = v
    <3>1. c = Claimed(v) \cup {n + 1} /\ n + 1 \notin Claimed(v)
      BY <2>1, <2>4, <1>2, <1>4, <1>6 DEF Claimed
    <3>2. /\ Cardinality(c) = Cardinality(Claimed(v)) + 1 /\ Cardinality(Claimed(v)) \in Nat
      BY <3>1, VoucherSets, OneMore
    <3>3. k \in Claiming(v) /\ k \notin a
      BY <2>2, <2>4, <1>1, <1>9 DEF Claiming
    <3>4. /\ Cardinality(a) \in Nat /\ Cardinality(a \cup {k}) = Cardinality(a) + 1
      <4>1. IsFiniteSet(a)
        BY <2>3, VoucherSets, FS_Subset
      <4>2. QED
        BY <4>1, <3>3, OneMore
    <3>5. a \cup {k} \subseteq Claiming(v)
      BY <2>3, <3>3
    <3>6. /\ Cardinality(Claiming(v)) \in Nat
          /\ Cardinality(a \cup {k}) <= Cardinality(Claiming(v))
      <4>1. IsFiniteSet(Claiming(v))
        BY VoucherSets, FS_Subset
      <4>2. QED
        BY <4>1, <3>5, SubsetBound
    <3>7. Cardinality(Claimed(v)) + Cardinality(Claiming(v))
             <= Limit[v] + uncounted[v] + Cardinality(Clerks) - 1
      BY DEF VoucherInv, ClaimsBounded
    <3>8. /\ Limit[v] \in Nat /\ uncounted[v] \in Int /\ uncounted'[v] \in Int
          /\ uncounted'[v] >= uncounted[v] /\ Cardinality(Clerks) \in Nat
      BY <1>7, VoucherFacts, VoucherSets
    <3>9. Cardinality(c) + Cardinality(a) <= Limit[v] + uncounted'[v] + Cardinality(Clerks) - 1
      BY <3>2, <3>4, <3>6, <3>7, <3>8
    <3>10. QED
      BY <3>9, <2>1, <2>2, <1>7 DEF ClaimsBounded
  <2>5. CASE ~(row.claimed /\ row.voucher = v)
    <3>1. c = Claimed(v)
      BY <2>1, <2>5, <1>2, <1>4, <1>6 DEF Claimed
    <3>2. QED
      BY <3>1, <2>1, <2>2, <2>3, <1>7, ClaimsKept
  <2>6. QED
    BY <2>4, <2>5
<1>15. ASSUME NEW c \in Customers, NEW v \in Vouchers PROVE CustomerBounded(c, v)'
  <2>1. PICK s : s = ClaimsOf(c, v)'
    OBVIOUS
  <2>2. PICK t : t = Checked(c, v)'
    OBVIOUS
  <2>3. t \subseteq Checked(c, v)
    BY <2>2, <1>1, <1>9 DEF Checked
  <2>4. \A r \in s : /\ r \in 1 .. n => r \in ClaimsOf(c, v)
                     /\ r = n + 1 => row.claimed /\ row.voucher = v /\ row.customer = c
                     /\ r \in 1 .. (n + 1)
    <3>1. SUFFICES ASSUME NEW r \in s
                   PROVE  /\ r \in 1 .. n => r \in ClaimsOf(c, v)
                          /\ r = n + 1 => row.claimed /\ row.voucher = v /\ row.customer = c
                          /\ r \in 1 .. (n + 1)
      OBVIOUS
    <3>2. /\ r \in 1 .. (n + 1) /\ owned'[r].voucher = v /\ owned'[r].claimed
          /\ owned'[r].customer = c
      BY <2>1, <1>4 DEF ClaimsOf, Claimed
    <3>3. r \in held' \/ Paying(r) # {}
      BY <2>1, <1>11 DEF ClaimsOf
    <3>4. r \in 1 .. n => r \in ClaimsOf(c, v)
      BY <3>2, <3>3, <1>2, <1>3, <1>4, <1>6 DEF ClaimsOf, Claimed
    <3>5. QED
      BY <3>2, <3>4, <1>4
  <2>5. CASE row.claimed /\ row.voucher = v /\ row.customer = c
    <3>1. s \subseteq ClaimsOf(c, v) \cup {n + 1}
      BY <2>4, <1>6
    <3>2. /\ IsFiniteSet(ClaimsOf(c, v) \cup {n + 1})
          /\ Cardinality(ClaimsOf(c, v)) \in Nat
          /\ Cardinality(ClaimsOf(c, v) \cup {n + 1}) <= Cardinality(ClaimsOf(c, v)) + 1
      BY VoucherSets, OneMore
    <3>3. /\ Cardinality(s) \in Nat /\ Cardinality(ClaimsOf(c, v) \cup {n + 1}) \in Nat
          /\ Cardinality(s) <= Cardinality(ClaimsOf(c, v) \cup {n + 1})
      BY <3>1, <3>2, SubsetBound
    <3>4. k \in Checked(c, v) /\ k \notin t
      <4>1. j.phase = "inserted" /\ vjob'[k] = j
        BY <2>5, <1>1, <1>9
      <4>2. k \notin t
        BY <4>1, <2>2 DEF Checked
      <4>3. /\ vjob[k].op = "claim" /\ vjob[k].phase = "checked"
            /\ v \in vjob[k].vouchers /\ c \in vjob[k].customers
        BY <2>5
      <4>4. QED
        BY <4>2, <4>3 DEF Checked
    <3>5. Cardinality(t) \in Nat /\ Cardinality(t \cup {k}) = Cardinality(t) + 1
      <4>1. IsFiniteSet(t)
        BY <2>3, VoucherSets, FS_Subset
      <4>2. QED
        BY <4>1, <3>4, OneMore
    <3>6. t \cup {k} \subseteq Checked(c, v)
      BY <2>3, <3>4
    <3>7. /\ Cardinality(Checked(c, v)) \in Nat
          /\ Cardinality(t \cup {k}) <= Cardinality(Checked(c, v))
      <4>1. IsFiniteSet(Checked(c, v))
        BY VoucherSets, FS_Subset
      <4>2. QED
        BY <4>1, <3>6, SubsetBound
    <3>8. Cardinality(ClaimsOf(c, v)) + Cardinality(Checked(c, v)) <= Cardinality(Clerks)
      BY DEF VoucherInv, CustomerBounded
    <3>9. Cardinality(s) + Cardinality(t) <= Cardinality(Clerks)
      BY <3>2, <3>3, <3>5, <3>7, <3>8, VoucherSets
    <3>10. QED
      BY <3>9, <2>1, <2>2 DEF CustomerBounded
  <2>6. CASE ~(row.claimed /\ row.voucher = v /\ row.customer = c)
    <3>1. s \subseteq ClaimsOf(c, v)
      BY <2>4, <2>6, <1>6
    <3>2. QED
      BY <3>1, <2>1, <2>2, <2>3, CustomerKept
  <2>7. QED
    BY <2>5, <2>6
<1>16. \A r \in Rows \ 1 .. (n + 1) : spent'[r] = 0
  BY <1>2, <1>6 DEF VoucherInv
<1>17. QED
  BY <1>4, <1>8, <1>10, <1>13, <1>14, <1>15, <1>16 DEF VoucherInv

LEMMA PaySaveKeeps ==
    ASSUME VoucherInv, NoteMissed, NEW k \in Clerks, PaySave(k)
    PROVE  VoucherInv'
<1>1. PICK set : set = vjob[k].rows
  OBVIOUS
<1>2. PICK n \in Nat : n = Len(owned) /\ DOMAIN owned = 1 .. n /\ held \subseteq 1 .. n
                       /\ owned \in [1 .. n -> UserVoucher] /\ n <= MaxRows
  BY VoucherFacts
<1>3. /\ vjob[k].op = "pay" /\ held' = held \cup set
      /\ owned' = [r \in 1 .. n |-> IF r \in set THEN [owned[r] EXCEPT !.used = TRUE] ELSE owned[r]]
      /\ spent' = [r \in Rows |-> IF r \in set THEN spent[r] + 1 ELSE spent[r]]
      /\ vjob' = [vjob EXCEPT ![k] = IdleVJob]
      /\ UNCHANGED <<offered, active, got>>
  BY <1>1, <1>2 DEF PaySave, VDone
<1>4. set \subseteq 1 .. n /\ 1 .. n \subseteq Rows
  BY <1>1, <1>2, <1>3, VoucherFacts DEF VJobOK
<1>5. /\ vjob' \in [Clerks -> VJob] /\ vjob'[k] = IdleVJob
      /\ \A l \in Clerks \ {k} : vjob'[l] = vjob[l]
  BY <1>3, VoucherFacts, IdleVJobType
<1>6. ASSUME NEW r \in 1 .. n
      PROVE  /\ owned'[r] \in UserVoucher /\ owned'[r].voucher = owned[r].voucher
             /\ owned'[r].customer = owned[r].customer /\ owned'[r].claimed = owned[r].claimed
             /\ owned'[r].used = IF r \in set THEN TRUE ELSE owned[r].used
  <2>1. owned[r] \in UserVoucher
    BY <1>2
  <2>2. owned'[r] = IF r \in set THEN [owned[r] EXCEPT !.used = TRUE] ELSE owned[r]
    BY <1>3
  <2>3. QED
    BY <2>1, <2>2 DEF UserVoucher
<1>7. owned' \in [1 .. n -> UserVoucher]
  BY <1>3, <1>6
<1>8. owned' \in Seq(UserVoucher) /\ Len(owned') = n /\ DOMAIN owned' = 1 .. n
  BY <1>7, TableOf
<1>9. /\ uncounted' \in [Vouchers -> Int]
      /\ \A v \in Vouchers : uncounted'[v] >= uncounted[v] /\ Missed(v)' <= uncounted'[v]
  BY <1>3, <1>7, VoucherFacts, MissedNoted
<1>10. spent \in [Rows -> Nat] /\ spent' \in [Rows -> Nat]
  BY <1>3, VoucherFacts
<1>11. VoucherTypeOK'
  BY <1>2, <1>3, <1>4, <1>5, <1>8, <1>9, <1>10, VoucherFacts DEF VoucherTypeOK
<1>12. ASSUME NEW l \in Clerks PROVE VJobOK(l)'
  <2>1. VJobOK(l)
    BY VoucherFacts
  <2>2. CASE l = k
    BY <2>2, <1>5, IdleVJobType DEF VJobOK
  <2>3. CASE l # k
    BY <2>1, <2>3, <1>2, <1>5, <1>6, <1>8 DEF VJobOK
  <2>4. QED
    BY <2>2, <2>3
<1>13. ASSUME NEW v \in Vouchers PROVE ClaimsBounded(v)'
  <2>1. PICK c : c = Claimed(v)'
    OBVIOUS
  <2>2. PICK a : a = Claiming(v)'
    OBVIOUS
  <2>3. c = Claimed(v)
    BY <2>1, <1>2, <1>6, <1>8 DEF Claimed
  <2>4. a \subseteq Claiming(v)
    BY <2>2, <1>5, IdleVJobType DEF Claiming
  <2>5. QED
    BY <2>1, <2>2, <2>3, <2>4, <1>9, ClaimsKept
<1>14. ASSUME NEW c \in Customers, NEW v \in Vouchers PROVE CustomerBounded(c, v)'
  <2>1. PICK s : s = ClaimsOf(c, v)'
    OBVIOUS
  <2>2. PICK t : t = Checked(c, v)'
    OBVIOUS
  <2>3. t \subseteq Checked(c, v)
    BY <2>2, <1>5, IdleVJobType DEF Checked
  <2>4. s \subseteq ClaimsOf(c, v)
    <3>1. SUFFICES ASSUME NEW r \in s PROVE r \in ClaimsOf(c, v)
      OBVIOUS
    <3>2. /\ r \in 1 .. n /\ owned'[r].voucher = v /\ owned'[r].claimed /\ owned'[r].customer = c
          /\ r \in held' \/ Paying(r)' # {}
      BY <2>1, <1>8 DEF ClaimsOf, Claimed
    <3>3. r \in DOMAIN owned /\ owned[r].voucher = v /\ owned[r].claimed /\ owned[r].customer = c
      BY <3>2, <1>2, <1>6
    <3>4. Paying(r)' # {} => Paying(r) # {}
      BY <1>5, IdleVJobType DEF Paying
    <3>5. r \in set => Paying(r) # {}
      BY <1>1, <1>3 DEF Paying
    <3>6. r \in held \/ Paying(r) # {}
      BY <3>2, <3>4, <3>5, <1>3
    <3>7. QED
      BY <3>3, <3>6 DEF ClaimsOf, Claimed
  <2>5. QED
    BY <2>1, <2>2, <2>3, <2>4, CustomerKept
<1>15. ASSUME NEW r \in 1 .. n PROVE SpentBounded(r)'
  <2>1. PICK s : s = Paying(r)'
    OBVIOUS
  <2>2. s \subseteq Paying(r) /\ k \notin s /\ r \in DOMAIN owned /\ r \in Rows
    BY <2>1, <1>2, <1>4, <1>5, IdleVJobType DEF Paying
  <2>3. CASE r \notin set
    <3>1. spent'[r] = spent[r] /\ owned'[r].used = owned[r].used
      BY <2>2, <2>3, <1>3, <1>6
    <3>2. QED
      BY <3>1, <2>1, <2>2, SpentKept
  <2>4. CASE r \in set
    <3>1. spent'[r] = spent[r] + 1 /\ owned'[r].used /\ spent[r] \in Nat
      BY <2>2, <2>4, <1>3, <1>6, <1>10
    <3>2. k \in Paying(r)
      BY <2>4, <1>1, <1>3 DEF Paying
    <3>3. IsFiniteSet(Paying(r)) /\ IsFiniteSet(s)
      BY <2>2, VoucherSets, FS_Subset
    <3>4. Cardinality(s) \in Nat /\ Cardinality(s \cup {k}) = Cardinality(s) + 1
      BY <3>3, <2>2, OneMore
    <3>5. s \cup {k} \subseteq Paying(r)
      BY <2>2, <3>2
    <3>6. Cardinality(Paying(r)) \in Nat /\ Cardinality(s \cup {k}) <= Cardinality(Paying(r))
      BY <3>3, <3>5, SubsetBound
    <3>7. spent[r] + Cardinality(Paying(r)) <= Cardinality(Clerks)
      BY <2>2 DEF VoucherInv, SpentBounded
    <3>8. spent[r] + 1 + Cardinality(s) <= Cardinality(Clerks) /\ spent[r] + 1 > 0
      BY <3>1, <3>4, <3>6, <3>7, VoucherSets
    <3>9. (spent'[r] > 0 <=> owned'[r].used) /\ spent'[r] + Cardinality(s) <= Cardinality(Clerks)
      BY <3>1, <3>8
    <3>10. QED
      BY <3>9, <2>1 DEF SpentBounded
  <2>5. QED
    BY <2>3, <2>4
<1>16. \A r \in Rows \ 1 .. n : spent'[r] = 0
  BY <1>2, <1>3, <1>4 DEF VoucherInv
<1>17. QED
  BY <1>8, <1>11, <1>12, <1>13, <1>14, <1>15, <1>16 DEF VoucherInv

LEMMA CreateVoucherKeeps ==
    ASSUME VoucherInv, NoteMissed, NEW v \in Vouchers, CreateVoucher(v)
    PROVE  VoucherInv'
<1>1. /\ offered' = offered \cup {v} /\ active' = active \cup {v}
      /\ UNCHANGED <<got, owned, held, vjob, spent>>
  BY DEF CreateVoucher
<1>2. /\ uncounted' \in [Vouchers -> Int]
      /\ \A w \in Vouchers : uncounted'[w] >= uncounted[w] /\ Missed(w)' <= uncounted'[w]
  BY <1>1, VoucherFacts, MissedNoted
<1>3. VoucherTypeOK'
  BY <1>1, <1>2, VoucherFacts DEF VoucherTypeOK
<1>4. ASSUME NEW l \in Clerks PROVE VJobOK(l)'
  BY <1>1, VoucherFacts DEF VJobOK
<1>5. ASSUME NEW w \in Vouchers PROVE ClaimsBounded(w)'
  <2>1. PICK c : c = Claimed(w)'
    OBVIOUS
  <2>2. PICK a : a = Claiming(w)'
    OBVIOUS
  <2>3. c = Claimed(w)
    BY <2>1, <1>1 DEF Claimed
  <2>4. a \subseteq Claiming(w)
    BY <2>2, <1>1 DEF Claiming
  <2>5. QED
    BY <2>1, <2>2, <2>3, <2>4, <1>2, ClaimsKept
<1>6. ASSUME NEW c \in Customers, NEW w \in Vouchers PROVE CustomerBounded(c, w)'
  BY <1>1 DEF VoucherInv, CustomerBounded, ClaimsOf, Claimed, Checked, Paying
<1>7. ASSUME NEW r \in Rows PROVE (IF r \in DOMAIN owned THEN SpentBounded(r) ELSE spent[r] = 0)'
  BY <1>1 DEF VoucherInv, SpentBounded, Paying
<1>8. QED
  BY <1>1, <1>3, <1>4, <1>5, <1>6, <1>7 DEF VoucherInv

LEMMA GiveForCustomerKeeps ==
    ASSUME VoucherInv, NoteMissed, inUse \in Mixes, NEW c \in Customers, NEW v \in Vouchers,
           GiveForCustomer(c, v)
    PROVE  VoucherInv'
<1>1. PICK k \in Clerks : TRUE
  BY PartiesAssumption
<1>2. PICK j : j = vjob[k]
  OBVIOUS
<1>3. PICK row : row = [customer |-> c, voucher |-> v, used |-> FALSE, claimed |-> FALSE]
  OBVIOUS
<1>4. row \in UserVoucher /\ ~row.used /\ ~row.claimed
  BY <1>3 DEF UserVoucher
<1>5. InsertVoucher(row) /\ UNCHANGED <<offered, active, got, vjob, spent>>
  BY <1>3 DEF GiveForCustomer
<1>6. j \in VJob /\ vjob' = [vjob EXCEPT ![k] = j]
  BY <1>2, <1>5, VoucherFacts
<1>7. QED
  BY <1>2, <1>4, <1>5, <1>6, VoucherInserted

LEMMA ClaimInsertKeeps ==
    ASSUME VoucherInv, NoteMissed, inUse \in Mixes, NEW k \in Clerks, ClaimInsert(k)
    PROVE  VoucherInv'
<1>1. PICK v \in vjob[k].vouchers, c \in vjob[k].customers :
         InsertVoucher([customer |-> c, voucher |-> v, used |-> FALSE, claimed |-> TRUE])
  BY DEF ClaimInsert
<1>2. PICK row : row = [customer |-> c, voucher |-> v, used |-> FALSE, claimed |-> TRUE]
  OBVIOUS
<1>3. vjob[k] \in VJob
  BY VoucherFacts
<1>4. /\ row \in UserVoucher /\ ~row.used /\ row.claimed /\ row.voucher = v /\ row.customer = c
      /\ InsertVoucher(row)
  BY <1>1, <1>2, <1>3 DEF UserVoucher, VJob
<1>5. PICK j : j = [vjob[k] EXCEPT !.phase = "inserted"]
  OBVIOUS
<1>6. /\ vjob[k].op = "claim" /\ vjob[k].phase = "checked"
      /\ vjob' = [vjob EXCEPT ![k] = j] /\ UNCHANGED <<offered, active, got, spent>>
  BY <1>5 DEF ClaimInsert
<1>7. j \in VJob
  BY <1>3, <1>5 DEF VJob
<1>8. v \in vjob[k].vouchers /\ c \in vjob[k].customers
  OBVIOUS
<1>9. QED
  BY <1>4, <1>5, <1>6, <1>7, <1>8, VoucherInserted

\* A request ends.
LEMMA VoucherJobEnds ==
    ASSUME VoucherInv, NoteMissed, NEW k \in Clerks, VDone(k),
           offered' \subseteq Vouchers, active' \subseteq Vouchers, got' \in [Vouchers -> Nat],
           held' \subseteq held, UNCHANGED <<owned, spent>>
    PROVE  VoucherInv'
BY IdleVJobType, VJobChanges DEF VDone

LEMMA ClaimLoadKeeps ==
    ASSUME VoucherInv, NoteMissed, NEW k \in Clerks, NEW c \in Customers, NEW v \in Vouchers,
           ClaimLoad(k, c, v)
    PROVE  VoucherInv'
<1>1. PICK n : n = got[v]
  OBVIOUS
<1> DEFINE j == [IdleVJob EXCEPT !.phase = "loaded", !.op = "claim",
                                 !.vouchers = {v}, !.customers = {c}, !.got = n]
<1>2. /\ vjob[k].phase = "idle" /\ vjob' = [vjob EXCEPT ![k] = j]
      /\ UNCHANGED <<offered, active, got, owned, held, spent>>
  BY <1>1 DEF ClaimLoad, VStart, VDatabase
<1>3. n \in Nat
  BY <1>1, VoucherFacts
<1>4. /\ j \in VJob /\ j.op = "claim" /\ j.phase = "loaded" /\ j.vouchers = {v}
      /\ j.customers = {c} /\ j.got = n
  BY <1>3, IdleVJobType DEF VJob
<1> HIDE DEF j
<1>5. \A w \in j.vouchers : j.phase = "loaded" /\ j.got < Limit[w] => got[w] < Limit[w]
  BY <1>1, <1>4
<1>6. j.customers # {} /\ j.phase # "checked" /\ j.op # "pay"
  BY <1>4
<1>7. /\ offered' \subseteq Vouchers /\ active' \subseteq Vouchers /\ got' \in [Vouchers -> Nat]
      /\ held' \subseteq held
  BY <1>2, VoucherFacts
<1>8. QED
  BY <1>2, <1>4, <1>5, <1>6, <1>7, VJobChanges

LEMMA ClaimCheckKeeps ==
    ASSUME VoucherInv, NoteMissed, NEW k \in Clerks, ClaimCheck(k)
    PROVE  VoucherInv'
<1>1. PICK j : j = [vjob[k] EXCEPT !.phase = "checked"]
  OBVIOUS
<1>2. /\ vjob[k].op = "claim" /\ vjob[k].phase = "loaded" /\ vjob' = [vjob EXCEPT ![k] = j]
      /\ UNCHANGED <<offered, active, got, owned, held, spent>>
      /\ \A v \in vjob[k].vouchers, c \in vjob[k].customers :
            RowsWith(c, v) = {} /\ vjob[k].got < Limit[v]
  BY <1>1 DEF ClaimCheck, VDatabase, UnderLimit
<1>3. vjob[k] \in VJob /\ vjob[k].customers # {}
  BY <1>2, VoucherFacts DEF VJobOK
<1>4. /\ j \in VJob /\ j.op = "claim" /\ j.phase = "checked"
      /\ j.vouchers = vjob[k].vouchers /\ j.customers = vjob[k].customers
  BY <1>1, <1>2, <1>3 DEF VJob
<1>5. \A v \in j.vouchers : k \in Claiming(v)
  BY <1>2, <1>3, <1>4 DEF Claiming
<1>6. \A v \in j.vouchers, c \in j.customers : RowsWith(c, v) = {}
  BY <1>2, <1>4
<1>7. /\ offered' \subseteq Vouchers /\ active' \subseteq Vouchers /\ got' \in [Vouchers -> Nat]
      /\ held' \subseteq held
  BY <1>2, VoucherFacts
<1>8. j.customers # {} /\ j.phase # "loaded" /\ j.op # "pay"
  BY <1>3, <1>4
<1>9. QED
  BY <1>2, <1>4, <1>5, <1>6, <1>7, <1>8, VJobChanges

LEMMA ClaimCountKeeps ==
    ASSUME VoucherInv, NoteMissed, NEW k \in Clerks, ClaimCount(k)
    PROVE  VoucherInv'
<1>1. PICK set : set = vjob[k].vouchers \cap offered
  OBVIOUS
<1>2. /\ got' = [v \in Vouchers |-> IF v \in set THEN got[v] + 1 ELSE got[v]]
      /\ VDone(k) /\ UNCHANGED <<offered, active, owned, held, spent>>
  BY <1>1 DEF ClaimCount
<1>3. got' \in [Vouchers -> Nat]
  BY <1>2, VoucherFacts
<1>4. QED
  BY <1>2, <1>3, VoucherFacts, VoucherJobEnds

\* Staff's requests.
LEMMA UpdateVoucherLoadKeeps ==
    ASSUME VoucherInv, NoteMissed, NEW k \in Clerks, NEW v \in Vouchers, NEW on \in BOOLEAN,
           UpdateVoucherLoad(k, v, on)
    PROVE  VoucherInv'
<1>1. PICK n : n = got[v]
  OBVIOUS
<1> DEFINE j == [IdleVJob EXCEPT !.phase = "loaded", !.op = "update",
                                 !.vouchers = {v}, !.got = n, !.active = on]
<1>2. /\ vjob' = [vjob EXCEPT ![k] = j]
      /\ UNCHANGED <<offered, active, got, owned, held, spent>>
  BY <1>1 DEF UpdateVoucherLoad, VStart, VDatabase
<1>3. n \in Nat
  BY <1>1, VoucherFacts
<1>4. j \in VJob /\ j.op = "update"
  BY <1>3, IdleVJobType DEF VJob
<1> HIDE DEF j
<1>5. QED
  BY <1>2, <1>4, VoucherFacts, VJobChanges

LEMMA UpdateVoucherSaveKeeps ==
    ASSUME VoucherInv, NoteMissed, NEW k \in Clerks, UpdateVoucherSave(k)
    PROVE  VoucherInv'
<1>1. PICK j : j = vjob[k]
  OBVIOUS
<1>2. /\ offered' = offered \cup j.vouchers
      /\ active' = IF j.active THEN active \cup j.vouchers ELSE active \ j.vouchers
      /\ got' = [v \in Vouchers |-> IF v \in j.vouchers THEN j.got ELSE got[v]]
      /\ VDone(k) /\ UNCHANGED <<owned, held, spent>>
  BY <1>1 DEF UpdateVoucherSave
<1>3. j.vouchers \subseteq Vouchers /\ j.got \in Nat
  BY <1>1, VoucherFacts DEF VJob
<1>4. offered' \subseteq Vouchers /\ active' \subseteq Vouchers /\ got' \in [Vouchers -> Nat]
  BY <1>2, <1>3, VoucherFacts
<1>5. QED
  BY <1>2, <1>4, VoucherJobEnds

LEMMA RemoveVoucherLoadKeeps ==
    ASSUME VoucherInv, NoteMissed, NEW k \in Clerks, NEW v \in Vouchers, RemoveVoucherLoad(k, v)
    PROVE  VoucherInv'
<1>1. PICK p : p = IF RowsOf(v) = {} THEN "cleared" ELSE "loaded"
  OBVIOUS
<1> DEFINE j == [IdleVJob EXCEPT !.op = "remove", !.vouchers = {v}, !.phase = p]
<1>2. /\ vjob' = [vjob EXCEPT ![k] = j]
      /\ UNCHANGED <<offered, active, got, owned, held, spent>>
  BY <1>1 DEF RemoveVoucherLoad, VStart, VDatabase
<1>3. p \in {"cleared", "loaded"}
  BY <1>1
<1>4. j \in VJob /\ j.op = "remove"
  BY <1>3, IdleVJobType DEF VJob
<1> HIDE DEF j
<1>5. QED
  BY <1>2, <1>4, VoucherFacts, VJobChanges

LEMMA RemoveVoucherRowsKeeps ==
    ASSUME VoucherInv, NoteMissed, NEW k \in Clerks, RemoveVoucherRows(k)
    PROVE  VoucherInv'
<1>1. PICK j : j = [vjob[k] EXCEPT !.phase = "cleared"]
  OBVIOUS
<1>2. /\ vjob[k].op = "remove" /\ vjob' = [vjob EXCEPT ![k] = j] /\ held' \subseteq held
      /\ UNCHANGED <<offered, active, got, owned, spent>>
  BY <1>1 DEF RemoveVoucherRows
<1>3. j \in VJob /\ j.op = "remove"
  BY <1>1, <1>2, VoucherFacts DEF VJob
<1>4. QED
  BY <1>2, <1>3, VoucherFacts, VJobChanges

LEMMA PayLoadKeeps ==
    ASSUME VoucherInv, NoteMissed, NEW k \in Clerks, NEW c \in Customers,
           NEW vs \in SUBSET offered, NEW rows \in SUBSET held, PayLoad(k, c, vs, rows)
    PROVE  VoucherInv'
<1> DEFINE j == [IdleVJob EXCEPT !.phase = "loaded", !.op = "pay", !.vouchers = vs,
                                 !.customers = {c}, !.rows = rows]
<1>1. /\ vjob' = [vjob EXCEPT ![k] = j]
      /\ UNCHANGED <<offered, active, got, owned, held, spent>>
  BY DEF PayLoad, VStart, VDatabase
<1>2. /\ \A v \in vs : \A r \in RowsWith(c, v) : ~owned[r].used
      /\ rows \subseteq UNION {RowsWith(c, v) : v \in vs}
      /\ \A v \in vs : Cardinality(rows \cap RowsOf(v)) = 1
  BY DEF PayLoad, Usable
<1>3. vs \subseteq Vouchers /\ rows \subseteq Rows
  BY VoucherFacts
<1>4. j \in VJob /\ j.op = "pay" /\ j.phase = "loaded" /\ j.rows = rows
  BY <1>3, IdleVJobType DEF VJob
<1> HIDE DEF j
<1>5. \A r \in rows : \E v \in vs : r \in RowsWith(c, v)
  BY <1>2
<1>6. \A r \in rows : ~owned[r].used /\ owned[r].voucher \in vs /\ r \in RowsOf(owned[r].voucher)
  BY <1>2, <1>5 DEF RowsWith, RowsOf
<1>7. ASSUME NEW r \in rows, NEW q \in rows, owned[r].voucher = owned[q].voucher PROVE r = q
  <2>1. PICK v \in vs : v = owned[r].voucher
    BY <1>6
  <2>2. r \in rows \cap RowsOf(v) /\ q \in rows \cap RowsOf(v)
    BY <2>1, <1>6, <1>7
  <2>3. IsFiniteSet(rows \cap RowsOf(v))
    <3>1. IsFiniteSet(Rows)
      BY VoucherFacts, FS_Interval DEF Rows
    <3>2. QED
      BY <3>1, <1>3, FS_Subset
  <2>4. Cardinality(rows \cap RowsOf(v)) <= 1
    BY <1>2
  <2>5. QED
    BY <2>2, <2>3, <2>4, OneElement
<1>8. \A r \in j.rows : ~owned[r].used
  BY <1>4, <1>6
<1>9. \A r, q \in j.rows : owned[r].voucher = owned[q].voucher => r = q
  BY <1>4, <1>7
<1>10. /\ offered' \subseteq Vouchers /\ active' \subseteq Vouchers /\ got' \in [Vouchers -> Nat]
       /\ held' \subseteq held
  BY <1>1, VoucherFacts
<1>11. j.op # "claim" /\ j.rows \subseteq held
  BY <1>4
<1>12. QED
  BY <1>1, <1>4, <1>8, <1>9, <1>10, <1>11, VJobChanges

LEMMA VouchersKept ==
    ASSUME VoucherInv, inUse \in Mixes, VNext
    PROVE  VoucherInv'
<1>0. NoteMissed
  BY DEF VNext
<1>1. ASSUME NEW v \in Vouchers, CreateVoucher(v) PROVE VoucherInv'
  BY <1>0, <1>1, CreateVoucherKeeps
<1>2. ASSUME NEW c \in Customers, NEW v \in Vouchers, GiveForCustomer(c, v) PROVE VoucherInv'
  BY <1>0, <1>2, GiveForCustomerKeeps
<1>3. ASSUME NEW k \in Clerks, NEW c \in Customers, NEW v \in Vouchers, ClaimLoad(k, c, v)
      PROVE  VoucherInv'
  BY <1>0, <1>3, ClaimLoadKeeps
<1>4. ASSUME NEW k \in Clerks, ClaimCheck(k) PROVE VoucherInv'
  BY <1>0, <1>4, ClaimCheckKeeps
<1>5. ASSUME NEW k \in Clerks, ClaimInsert(k) PROVE VoucherInv'
  BY <1>0, <1>5, ClaimInsertKeeps
<1>6. ASSUME NEW k \in Clerks, ClaimCount(k) PROVE VoucherInv'
  BY <1>0, <1>6, ClaimCountKeeps
<1>7. ASSUME NEW k \in Clerks, NEW v \in Vouchers, NEW on \in BOOLEAN,
             UpdateVoucherLoad(k, v, on)
      PROVE  VoucherInv'
  BY <1>0, <1>7, UpdateVoucherLoadKeeps
<1>8. ASSUME NEW k \in Clerks, UpdateVoucherSave(k) PROVE VoucherInv'
  BY <1>0, <1>8, UpdateVoucherSaveKeeps
<1>9. ASSUME NEW k \in Clerks, NEW v \in Vouchers, RemoveVoucherLoad(k, v) PROVE VoucherInv'
  BY <1>0, <1>9, RemoveVoucherLoadKeeps
<1>10. ASSUME NEW k \in Clerks, RemoveVoucherRows(k) PROVE VoucherInv'
  BY <1>0, <1>10, RemoveVoucherRowsKeeps
<1>11. ASSUME NEW k \in Clerks, RemoveVoucher(k) PROVE VoucherInv'
  <2>1. VDone(k) /\ offered' \subseteq offered /\ UNCHANGED <<active, got, owned, held, spent>>
    BY <1>11 DEF RemoveVoucher
  <2>2. QED
    BY <2>1, <1>0, VoucherFacts, VoucherJobEnds
<1>12. ASSUME NEW k \in Clerks, NEW c \in Customers, NEW vs \in SUBSET offered,
              NEW rows \in SUBSET held, PayLoad(k, c, vs, rows)
       PROVE  VoucherInv'
  BY <1>0, <1>12, PayLoadKeeps
<1>13. ASSUME NEW k \in Clerks, PaySave(k) PROVE VoucherInv'
  BY <1>0, <1>13, PaySaveKeeps
<1>14. ASSUME NEW k \in Clerks, VAbort(k) PROVE VoucherInv'
  <2>1. VDone(k) /\ UNCHANGED <<offered, active, got, owned, held, spent>>
    BY <1>14 DEF VAbort, VDatabase
  <2>2. QED
    BY <2>1, <1>0, VoucherFacts, VoucherJobEnds
<1>15. QED
  BY <1>1, <1>2, <1>3, <1>4, <1>5, <1>6, <1>7, <1>8, <1>9, <1>10, <1>11, <1>12, <1>13, <1>14
  DEF VNext

LEMMA VouchersBegin == Init => VoucherInv
<1>1. SUFFICES ASSUME Init PROVE VoucherInv
  OBVIOUS
<1>2. /\ offered = {} /\ active = {} /\ got = [v \in Vouchers |-> 0] /\ owned = <<>> /\ held = {}
      /\ vjob = [k \in Clerks |-> IdleVJob] /\ uncounted = [v \in Vouchers |-> 0]
      /\ spent = [r \in Rows |-> 0]
  BY <1>1 DEF Init, VInit
<1>3. Len(owned) = 0 /\ DOMAIN owned = {} /\ owned \in Seq(UserVoucher) /\ MaxRows \in Nat
  BY <1>2, PartiesAssumption
<1>4. VoucherTypeOK
  BY <1>2, <1>3, IdleVJobType DEF VoucherTypeOK
<1>5. \A k \in Clerks : VJobOK(k)
  BY <1>2, IdleVJobType DEF VJobOK
<1>6. Cardinality({}) = 0
  BY FS_EmptySet, Zenon
<1>7. Cardinality(Clerks) \in Nat /\ Cardinality(Clerks) >= 1
  BY ClerksCount
<1>8. ASSUME NEW v \in Vouchers
      PROVE  ClaimsBounded(v) /\ \A c \in Customers : CustomerBounded(c, v)
  <2>1. Claimed(v) = {} /\ Claiming(v) = {} /\ Counting(v) = {} /\ got[v] = 0 /\ uncounted[v] = 0
    BY <1>2, <1>3, IdleVJobType DEF Claimed, Claiming, Counting
  <2>2. \A c : ClaimsOf(c, v) = {} /\ Checked(c, v) = {}
    BY <1>2, <2>1, IdleVJobType DEF ClaimsOf, Checked
  <2>3. Limit[v] \in Nat
    BY VouchersAssumption
  <2>4. 0 - 0 - 0 <= 0 /\ 0 + 0 <= Limit[v] + 0 + Cardinality(Clerks) - 1
        /\ 0 + 0 <= Cardinality(Clerks)
    BY <2>3, <1>7
  <2>5. QED
    BY <2>1, <2>2, <2>4, <1>6 DEF ClaimsBounded, Missed, CustomerBounded
<1>9. \A r \in Rows : spent[r] = 0
  BY <1>2
<1>10. QED
  BY <1>3, <1>4, <1>5, <1>8, <1>9 DEF VoucherInv

\* What the vouchers' tables and the requests in flight always satisfy.
THEOREM VouchersInvariant == Spec => []VoucherInv
<1>1. Init => VoucherInv
  BY VouchersBegin
<1>2. VoucherInv /\ inUse \in Mixes /\ [Next]_shopVars => VoucherInv'
  <2>1. SUFFICES ASSUME VoucherInv, inUse \in Mixes, [Next]_shopVars PROVE VoucherInv'
    OBVIOUS
  <2>2. CASE VNext
    BY <2>1, <2>2, VouchersKept
  <2>3. CASE UNCHANGED voucherVars
    <3>1. UNCHANGED <<offered, active, got, owned, held, vjob, uncounted, spent>>
      BY <2>3 DEF voucherVars
    <3>2. VoucherTypeOK' /\ \A k \in Clerks : VJobOK(k)'
      BY <2>1, <3>1 DEF VoucherInv, VoucherTypeOK, VJobOK
    <3>3. \A v \in Vouchers : ClaimsBounded(v)'
      BY <2>1, <3>1 DEF VoucherInv, ClaimsBounded, Missed, Claimed, Claiming, Counting
    <3>4. \A c \in Customers, v \in Vouchers : CustomerBounded(c, v)'
      BY <2>1, <3>1 DEF VoucherInv, CustomerBounded, ClaimsOf, Claimed, Checked, Paying
    <3>5. \A r \in Rows : (IF r \in DOMAIN owned THEN SpentBounded(r) ELSE spent[r] = 0)'
      BY <2>1, <3>1 DEF VoucherInv, SpentBounded, Paying
    <3>6. QED
      BY <3>2, <3>3, <3>4, <3>5 DEF VoucherInv
  <2>4. QED
    BY <2>1, <2>2, <2>3, VoucherStep
<1>3. QED
  BY <1>1, <1>2, MixStays, PTL DEF Spec

\* Claims pass a voucher's limit, and a customer's one claim, only by those
\* that overlap and those the count missed (getVoucherById).
THEOREM ClaimsNearLimitHolds == Spec => []ClaimsNearLimit
<1>1. VoucherInv => ClaimsNearLimit
  <2>1. SUFFICES ASSUME VoucherInv, NEW v \in Vouchers
                 PROVE  LET claims == {r \in RowsOf(v) : owned[r].claimed} IN
                        /\ Cardinality(claims)
                              <= Limit[v] + uncounted[v] + Cardinality(Clerks) - 1
                        /\ \A c \in Customers :
                              Cardinality({r \in claims : owned[r].customer = c})
                                 <= Cardinality(Clerks)
    BY DEF ClaimsNearLimit
  <2> DEFINE claims == {r \in RowsOf(v) : owned[r].claimed}
  <2>2. claims \subseteq Claimed(v)
    BY <2>1, VoucherFacts DEF RowsOf, Claimed
  <2>3. /\ Cardinality(claims) \in Nat /\ Cardinality(Claimed(v)) \in Nat
        /\ Cardinality(claims) <= Cardinality(Claimed(v))
    BY <2>1, <2>2, VoucherSets, SubsetBound
  <2>4. Cardinality(Claimed(v)) + Cardinality(Claiming(v))
           <= Limit[v] + uncounted[v] + Cardinality(Clerks) - 1
    BY <2>1 DEF VoucherInv, ClaimsBounded
  <2>5. /\ Limit[v] \in Nat /\ uncounted[v] \in Int /\ Cardinality(Clerks) \in Nat
        /\ Cardinality(Claiming(v)) \in Nat
    BY <2>1, VoucherFacts, VoucherSets
  <2>6. Cardinality(claims) <= Limit[v] + uncounted[v] + Cardinality(Clerks) - 1
    BY <2>3, <2>4, <2>5
  <2>7. ASSUME NEW c \in Customers
        PROVE  Cardinality({r \in claims : owned[r].customer = c}) <= Cardinality(Clerks)
    <3>1. PICK s : s = {r \in claims : owned[r].customer = c}
      OBVIOUS
    <3>2. s \subseteq ClaimsOf(c, v)
      BY <3>1, <2>2 DEF ClaimsOf, RowsOf
    <3>3. /\ Cardinality(s) \in Nat /\ Cardinality(ClaimsOf(c, v)) \in Nat
          /\ Cardinality(s) <= Cardinality(ClaimsOf(c, v))
      BY <2>1, <3>2, VoucherSets, SubsetBound
    <3>4. Cardinality(ClaimsOf(c, v)) + Cardinality(Checked(c, v)) <= Cardinality(Clerks)
      BY <2>1 DEF VoucherInv, CustomerBounded
    <3>5. Cardinality(s) <= Cardinality(Clerks)
      BY <2>1, <3>3, <3>4, VoucherSets
    <3>6. QED
      BY <3>1, <3>5
  <2>8. QED
    BY <2>6, <2>7
<1>2. QED
  BY <1>1, VouchersInvariant, PTL

\* A row is spent by no more payments than overlap, and stays used once it was
\* spent (createOrderPayment).
THEOREM SpentOnceHolds == Spec => []SpentOnce
<1>1. VoucherInv => SpentOnce
  <2>1. SUFFICES ASSUME VoucherInv, NEW r \in held
                 PROVE  spent[r] <= Cardinality(Clerks) /\ (spent[r] > 0 <=> owned[r].used)
    BY DEF SpentOnce
  <2>2. r \in DOMAIN owned /\ r \in Rows /\ spent \in [Rows -> Nat]
    BY <2>1, VoucherFacts
  <2>3. (spent[r] > 0 <=> owned[r].used) /\ spent[r] + Cardinality(Paying(r)) <= Cardinality(Clerks)
    BY <2>1, <2>2 DEF VoucherInv, SpentBounded
  <2>4. Cardinality(Paying(r)) \in Nat /\ Cardinality(Clerks) \in Nat /\ spent[r] \in Nat
    BY <2>1, <2>2, VoucherSets
  <2>5. QED
    BY <2>3, <2>4
<1>2. QED
  BY <1>1, VouchersInvariant, PTL

===============================================================================
