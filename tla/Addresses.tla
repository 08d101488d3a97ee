------------------------------ MODULE Addresses ------------------------------
(***************************************************************************)
(* Receive addresses: ReceiveAddressService.                               *)
(*                                                                         *)
(* A customer may have three addresses, one of them the default.  create   *)
(* counts before it inserts.  setDefaultReceiveAddress runs in a           *)
(* transaction: one UPDATE clears the defaults that were committed when it *)
(* began, another sets the new one.  update saves all that it read, the    *)
(* default flag too, and gives the address to the customer that the        *)
(* request names; if it names none, to the first row of Customer, for      *)
(* TypeORM leaves out a condition on an undefined id.                      *)
(*                                                                         *)
(* Of the address itself nothing is kept: a duplicate is an ordinary       *)
(* failure.  remove also deletes the orders sent to the address (onDelete  *)
(* CASCADE), which are not modelled here.                                  *)
(***************************************************************************)
EXTENDS Parties

\* The limit that create compares with.
MostAddresses == 3

Address == [owner: Customers, default: BOOLEAN]

AJob == [phase: {"idle", "loaded", "cleared"},
         op: {"none", "create", "update", "default"},
         customer: SUBSET Customers, about: SUBSET Customers, address: SUBSET Rows,
         default: BOOLEAN, seen: SUBSET Rows, alone: BOOLEAN]

IdleAJob == [phase |-> "idle", op |-> "none", customer |-> {}, about |-> {}, address |-> {},
             default |-> FALSE, seen |-> {}, alone |-> TRUE]

VARIABLES
    address, \* the addresses that were inserted
    kept,    \* the numbers of the addresses that are still there
    ajob,    \* the requests in flight
    given,   \* ghost: addresses that an update gave to another customer
    mixed    \* ghost: customers whose defaults may be mixed up

addressVars == <<address, kept, ajob, given, mixed>>

ADatabase == <<address, kept, given, mixed>>

---------------------------------------------------------------------------

AddressesOf(c) == {a \in kept : address[a].owner = c}

DefaultsOf(c) == {a \in AddressesOf(c) : address[a].default}

ABusy == {k \in Clerks : ajob[k].phase # "idle"}

\* A request starts; no request about the same customers is alone from now on.
AStart(k, j) ==
    LET rivals == {i \in ABusy : ajob[i].about \cap j.about # {}} IN
    /\ k \notin ABusy
    /\ ajob' = [i \in Clerks |->
                   IF i = k THEN [j EXCEPT !.phase = "loaded", !.alone = rivals = {}]
                   ELSE IF i \in rivals THEN [ajob[i] EXCEPT !.alone = FALSE]
                   ELSE ajob[i]]
    /\ UNCHANGED ADatabase

ADone(k) == ajob' = [ajob EXCEPT ![k] = IdleAJob]

---------------------------------------------------------------------------

\* Mutant: three are not enough.
RoomMutant(c) == Cardinality(AddressesOf(c)) <= MostAddresses

Room(c) == Cardinality(AddressesOf(c)) < MostAddresses

CreateAddressLoad(k, c) ==
    /\ Uses("createAddress")
    /\ Room(c)
    /\ AStart(k, [IdleAJob EXCEPT !.op = "create", !.customer = {c}, !.about = {c}])

CreateAddressSave(k) ==
    LET j == ajob[k] IN
    /\ j.op = "create"
    /\ HasRoom(address)
    /\ kept' = kept \cup {Len(address) + 1}
    /\ \E c \in j.customer : address' = Append(address, [owner |-> c, default |-> FALSE])
    /\ ADone(k)
    /\ UNCHANGED <<given, mixed>>

\* An update that names customer d, or none.
UpdateAddressLoad(k, a, d) ==
    /\ Uses("updateAddress")
    /\ a \in kept
    /\ AStart(k, [IdleAJob EXCEPT !.op = "update", !.customer = {d}, !.address = {a},
                                  !.about = {address[a].owner, d}, !.default = address[a].default])

\* The whole row is saved; a row deleted meanwhile is inserted again.
UpdateAddressSave(k) ==
    LET j == ajob[k] IN
    /\ j.op = "update"
    /\ \E a \in j.address, d \in j.customer :
          /\ address' = [address EXCEPT ![a] = [owner |-> d, default |-> j.default]]
          /\ kept' = kept \cup {a}
          /\ given' = IF address[a].owner = d THEN given ELSE given \cup {a}
          /\ mixed' = IF j.default /\ (address[a].owner # d \/ ~j.alone)
                        THEN mixed \cup {d} ELSE mixed
    /\ ajob' = [i \in Clerks |->
                   IF i = k THEN IdleAJob
                   ELSE IF j.address \cap ajob[i].address # {}
                     THEN [ajob[i] EXCEPT !.about = @ \cup j.customer]
                   ELSE ajob[i]]

RemoveAddress(a) ==
    /\ Uses("removeAddress")
    /\ a \in kept
    /\ kept' = kept \ {a}
    /\ UNCHANGED <<address, ajob, given, mixed>>

---------------------------------------------------------------------------
(* setDefaultReceiveAddress *)

DefaultLoad(k, a) ==
    /\ Uses("setDefault")
    /\ a \in kept
    /\ ~address[a].default
    /\ AStart(k, [IdleAJob EXCEPT !.op = "default", !.address = {a},
                                  !.customer = {address[a].owner},
                                  !.about = {address[a].owner}])

\* Mutant: the old default is left as it is.
ClearedMutant(c) == {}

\* The rows of customer c that the first UPDATE writes.
Cleared(c) == DefaultsOf(c)

DefaultClear(k) ==
    LET j == ajob[k] IN
    /\ j.op = "default" /\ j.phase = "loaded"
    /\ \E c \in j.customer : ajob' = [ajob EXCEPT ![k].phase = "cleared", ![k].seen = Cleared(c)]
    /\ UNCHANGED ADatabase

\* COMMIT of both UPDATEs; the second must have found its row.
DefaultSave(k) ==
    LET j == ajob[k] IN
    /\ j.op = "default" /\ j.phase = "cleared"
    /\ j.address \subseteq kept
    /\ address' = [a \in DOMAIN address |->
                      IF a \in j.address THEN [address[a] EXCEPT !.default = TRUE]
                      ELSE IF a \in j.seen THEN [address[a] EXCEPT !.default = FALSE]
                      ELSE address[a]]
    /\ mixed' = IF j.alone THEN mixed \ j.customer ELSE mixed \cup j.about
    /\ ADone(k)
    /\ UNCHANGED <<kept, given>>

\* A check refuses, a statement fails, or the server stops.
AAbort(k) ==
    /\ k \in ABusy
    /\ ADone(k)
    /\ UNCHANGED ADatabase

---------------------------------------------------------------------------

AInit ==
    /\ address = <<>> /\ kept = {}
    /\ ajob = [k \in Clerks |-> IdleAJob]
    /\ given = {} /\ mixed = {}

ANext ==
    \/ \E a \in kept : RemoveAddress(a)
    \/ \E k \in Clerks :
          \/ \E c \in Customers : CreateAddressLoad(k, c)
          \/ \E a \in kept, d \in Customers : UpdateAddressLoad(k, a, d)
          \/ \E a \in kept : DefaultLoad(k, a)
          \/ CreateAddressSave(k) \/ UpdateAddressSave(k) \/ DefaultClear(k)
          \/ DefaultSave(k) \/ AAbort(k)

---------------------------------------------------------------------------
(* Properties *)

\* A customer has three addresses; requests that overlap may each add one
\* more, and what updates give away is not counted (create).
AtMostThree ==
    \A c \in Customers :
        Cardinality(AddressesOf(c) \ given) <= MostAddresses + Cardinality(Clerks) - 1

\* A customer has one default address, unless requests for the customer
\* overlapped or an update gave away a default one; setting a default while
\* no other request runs mends it (setDefaultReceiveAddress, update).
OneDefault == \A c \in Customers \ mixed : Cardinality(DefaultsOf(c)) <= 1

---------------------------------------------------------------------------
(* The inductive invariant behind the two properties *)

\* The rows that are there, or that an update in flight may insert again.
Lasting == kept \cup UNION {ajob[k].address : k \in {i \in Clerks : ajob[i].op = "update"}}

\* The requests that are about to insert an address of c.
CreatorsOf(c) == {k \in Clerks : ajob[k].op = "create" /\ c \in ajob[k].customer}

LastingOf(c) == {a \in Lasting : address[a].owner = c}

\* A default, or what an update that is alone will make one again.
Bright(a) ==
    \/ address[a].default
    \/ \E k \in Clerks : /\ ajob[k].op = "update" /\ ajob[k].alone
                         /\ a \in ajob[k].address /\ ajob[k].default

AddressesTypeOK ==
    /\ address \in Seq(Address) /\ Len(address) <= MaxRows
    /\ kept \subseteq DOMAIN address
    /\ ajob \in [Clerks -> AJob]

\* A request knows what it is about.
AJobOK(k) ==
    LET j == ajob[k] IN
    /\ j.phase = "idle" <=> j.op = "none"
    /\ j.op = "none" => j.address = {} /\ j.customer = {} /\ j.about = {}
    /\ j.op = "create" => j.address = {} /\ \E c \in Customers : j.customer = {c}
    /\ j.op \in {"update", "default"} =>
          /\ \E a \in DOMAIN address : j.address = {a}
          /\ \E c \in Customers : j.customer = {c}
    /\ j.customer \subseteq j.about
    /\ \A a \in j.address : address[a].owner \in j.about

\* What a request that is alone has read is still so.
ALoneOK(k) ==
    LET j == ajob[k] IN
    j.alone =>
    /\ \A i \in Clerks \ {k} : ajob[i].about \cap j.about = {}
    /\ j.op = "default" => j.about = j.customer
    /\ j.phase = "cleared" => \A c \in j.customer : DefaultsOf(c) \subseteq j.seen

FewLasting(c) ==
    Cardinality(LastingOf(c) \ given) + Cardinality(CreatorsOf(c))
        <= MostAddresses + Cardinality(Clerks) - 1

OneBright(c) == \A a, b \in LastingOf(c) : Bright(a) /\ Bright(b) => a = b

AddressesInv ==
    /\ AddressesTypeOK
    /\ \A k \in Clerks : AJobOK(k) /\ ALoneOK(k)
    /\ \A c \in Customers : FewLasting(c)
    /\ \A c \in Customers \ mixed : OneBright(c)

==============================================================================
