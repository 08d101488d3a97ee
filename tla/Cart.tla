-------------------------------- MODULE Cart --------------------------------
(***************************************************************************)
(* The cart: CartService, and createOrderFromCartItem of OrderService,     *)
(* which turns items into an order.                                        *)
(*                                                                         *)
(* Every endpoint loads the cart with its items and then saves, removes or *)
(* inserts one of them.  Quantities are written as absolute numbers.  An   *)
(* item that is saved after it was removed is inserted again, but without  *)
(* its cart, which the queries do not load.  Only createOrderFromCartItem  *)
(* runs in a transaction; it takes items by their ids, whoever's they are. *)
(***************************************************************************)
EXTENDS Parties, FiniteSetsExt

CONSTANTS
    Quantities, \* the quantities that requests name
    MaxCartQty, \* bounds the quantity of an item, above and below 0
    Nobody      \* stands for the missing cart of an item

ASSUME CartAssumption ==
    /\ MaxCartQty \in Nat
    /\ Quantities \subseteq -MaxCartQty .. MaxCartQty
    /\ Nobody \notin Customers

\* addToCart asks for an integer, and takes 0 and negative ones too.
CartQuantity == -MaxCartQty .. MaxCartQty

CartItem == [owner: Customers \cup {Nobody}, sku: Skus, quantity: CartQuantity]

CJob == [phase: {"idle", "noCart", "loaded"},
         op: {"none", "get", "add", "update", "remove", "order"},
         customers: SUBSET (Customers \cup {Nobody}), sku: SUBSET Skus,
         items: SUBSET Rows, quantity: CartQuantity, taken: CartQuantity]

IdleCJob == [phase |-> "idle", op |-> "none", customers |-> {}, sku |-> {},
             items |-> {}, quantity |-> 0, taken |-> 0]

VARIABLES
    carts,   \* the customers that have a cart
    item,    \* the items that were inserted
    inCart,  \* the numbers of the items that are still there
    cjob,    \* the requests in flight
    stirred, \* ghost: the customers whose requests have overlapped
    asked,   \* ghost: what each customer's requests, one by one, would leave
    ordered  \* ghost: how many orders each item became part of

cartVars == <<carts, item, inCart, cjob, stirred, asked, ordered>>

CDatabase == <<carts, item, inCart, asked, ordered>>

---------------------------------------------------------------------------

ItemsOf(c) == {i \in inCart : item[i].owner = c}

ItemsWith(c, s) == {i \in ItemsOf(c) : item[i].sku = s}

CBusy == {k \in Clerks : cjob[k].phase # "idle"}

\* Some request of one of these customers is in flight.
Stir(set) == stirred' = stirred \cup (set \cap UNION {cjob[k].customers : k \in CBusy})

\* What the requests ask for is followed while they take turns.
Ask(new) == asked' = [c \in Customers |-> IF c \in stirred THEN [s \in Skus |-> 0] ELSE new[c]]

\* A request of the customers in set starts, and has read what it keeps in j.
CStart(k, j) ==
    /\ k \notin CBusy
    /\ Stir(j.customers)
    /\ cjob' = [cjob EXCEPT ![k] = j]
    /\ UNCHANGED CDatabase

CDone(k) == cjob' = [cjob EXCEPT ![k] = IdleCJob]

\* customer_id is unique.
CreateCart(k) ==
    LET j == cjob[k] IN
    /\ j.phase = "noCart"
    /\ j.customers \cap carts = {}
    /\ carts' = carts \cup j.customers
    /\ cjob' = [cjob EXCEPT ![k] = IF j.op = "get" THEN IdleCJob ELSE [j EXCEPT !.phase = "loaded"]]
    /\ UNCHANGED <<item, inCart, asked, ordered, stirred>>

\* getCart creates a cart where there is none, and changes nothing else.
GetCart(k, c) ==
    /\ Uses("getCart")
    /\ c \notin carts
    /\ CStart(k, [IdleCJob EXCEPT !.phase = "noCart", !.op = "get", !.customers = {c}])

\* Mutant: the quantity of the request replaces the item's.
SumMutant(i, q) == q

\* The quantity an item will have when q more are added.
Sum(i, q) == item[i].quantity + q

\* set: the item with that SKU, if there is one.
AddLoad(k, c, s, q, set) ==
    /\ Uses("addToCart")
    /\ set \subseteq ItemsWith(c, s)
    /\ IF ItemsWith(c, s) = {} THEN set = {} ELSE Cardinality(set) = 1
    /\ \A i \in set : Sum(i, q) \in CartQuantity
    /\ CStart(k, [IdleCJob EXCEPT
          !.phase = IF c \in carts THEN "loaded" ELSE "noCart",
          !.op = "add", !.customers = {c}, !.sku = {s}, !.items = set, !.taken = q,
          !.quantity = IF set = {} THEN q ELSE Sum(CHOOSE i \in set : TRUE, q)])

\* The items of j with their new quantity, in the cart or back without one.
SaveItems(j) ==
    /\ item' = [i \in DOMAIN item |->
                   IF i \in j.items
                     THEN [item[i] EXCEPT !.quantity = j.quantity,
                              !.owner = IF i \in inCart THEN @ ELSE Nobody]
                     ELSE item[i]]
    /\ inCart' = inCart \cup j.items

\* The item's new quantity, or a new item.
AddSave(k) ==
    LET j == cjob[k] IN
    /\ j.op = "add" /\ j.phase = "loaded"
    /\ IF j.items = {}
         THEN /\ HasRoom(item)
              /\ inCart' = inCart \cup {Len(item) + 1}
              /\ \E c \in j.customers, s \in j.sku :
                    item' = Append(item, [owner |-> c, sku |-> s, quantity |-> j.quantity])
         ELSE SaveItems(j)
    /\ Ask([c \in Customers |-> [s \in Skus |->
               IF c \in j.customers /\ s \in j.sku THEN asked[c][s] + j.taken ELSE asked[c][s]]])
    /\ CDone(k)
    /\ UNCHANGED <<carts, stirred, ordered>>

\* updateCart names the new quantity of one item, 0 to remove it; remove and
\* removeCartItem name the item.
ChangeLoad(k, op, c, i, q) ==
    /\ i \in ItemsOf(c)
    /\ CStart(k, [IdleCJob EXCEPT !.phase = "loaded", !.op = op, !.customers = {c},
                     !.sku = {item[i].sku}, !.items = {i}, !.quantity = q])

UpdateLoad(k, c, i, q) ==
    /\ Uses("updateCart")
    /\ q > 0
    /\ ChangeLoad(k, "update", c, i, q)

RemoveLoad(k, c, i) ==
    /\ Uses("remove")
    /\ ChangeLoad(k, "remove", c, i, 0)

ChangeAsked(j) ==
    Ask([c \in Customers |-> [s \in Skus |->
            IF c \in j.customers /\ s \in j.sku THEN j.quantity ELSE asked[c][s]]])

UpdateSave(k) ==
    LET j == cjob[k] IN
    /\ j.op = "update"
    /\ SaveItems(j)
    /\ ChangeAsked(j)
    /\ CDone(k)
    /\ UNCHANGED <<carts, stirred, ordered>>

RemoveSave(k) ==
    LET j == cjob[k] IN
    /\ j.op = "remove"
    /\ inCart' = inCart \ j.items
    /\ ChangeAsked(j)
    /\ CDone(k)
    /\ UNCHANGED <<carts, item, stirred, ordered>>

\* One statement deletes whatever is in the cart by then.
ClearCart(c) ==
    /\ Uses("clearCart")
    /\ c \in carts
    /\ inCart' = inCart \ ItemsOf(c)
    /\ Ask([asked EXCEPT ![c] = [s \in Skus |-> 0]])
    /\ Stir({c})
    /\ UNCHANGED <<carts, item, cjob, ordered>>

---------------------------------------------------------------------------
(* createOrderFromCartItem *)

\* All items must be there; an order has one line for each SKU.
OrderLoad(k, set) ==
    /\ Uses("createOrderFromCartItem")
    /\ set # {} /\ set \subseteq inCart
    /\ \A i, j \in set : item[i].sku = item[j].sku => i = j
    /\ CStart(k, [IdleCJob EXCEPT !.phase = "loaded", !.op = "order", !.items = set,
                     !.customers = {item[i].owner : i \in set}])

\* Mutant: the items stay in the cart.
BoughtMutant(set) == {}

\* The items that leave the cart when set is ordered.
Bought(set) == set

\* The order, then the items go; it is no error if they are gone already.
OrderSave(k) ==
    LET j == cjob[k] IN
    /\ j.op = "order"
    /\ inCart' = inCart \ Bought(j.items)
    /\ ordered' = [i \in Rows |-> IF i \in j.items THEN ordered[i] + 1 ELSE ordered[i]]
    /\ Ask([c \in Customers |-> [s \in Skus |->
               IF \E i \in j.items : item[i].owner = c /\ item[i].sku = s
                 THEN 0 ELSE asked[c][s]]])
    /\ CDone(k)
    /\ UNCHANGED <<carts, item, stirred>>

\* A check refuses, a statement fails, or the server stops.
CAbort(k) ==
    /\ k \in CBusy
    /\ CDone(k)
    /\ UNCHANGED <<CDatabase, stirred>>

---------------------------------------------------------------------------

CInit ==
    /\ carts = {} /\ item = <<>> /\ inCart = {}
    /\ cjob = [k \in Clerks |-> IdleCJob]
    /\ stirred = {}
    /\ asked = [c \in Customers |-> [s \in Skus |-> 0]]
    /\ ordered = [i \in Rows |-> 0]

CNext ==
    \/ \E c \in Customers : ClearCart(c)
    \/ \E k \in Clerks :
          \/ \E c \in Customers : GetCart(k, c)
          \/ \E c \in Customers, s \in Skus, q \in Quantities :
                \E set \in SUBSET ItemsWith(c, s) : AddLoad(k, c, s, q, set)
          \/ \E c \in Customers, i \in inCart, q \in Quantities : UpdateLoad(k, c, i, q)
          \/ \E c \in Customers, i \in inCart : RemoveLoad(k, c, i)
          \/ \E set \in SUBSET inCart : OrderLoad(k, set)
          \/ CreateCart(k) \/ AddSave(k) \/ UpdateSave(k) \/ RemoveSave(k)
          \/ OrderSave(k) \/ CAbort(k)

---------------------------------------------------------------------------
(* Properties *)

\* While a customer's requests take turns, the cart holds of each variant what
\* they asked for: nothing is lost, doubled or left over by an order
\* (addToCart, updateCart, remove, clearCart, createOrderFromCartItem).
CartAsAsked ==
    \A c \in Customers \ stirred, s \in Skus :
        MapThenSumSet(LAMBDA i : item[i].quantity, ItemsWith(c, s)) = asked[c][s]

\* An item is ordered once while the requests of its owner take turns, and
\* never more often than requests can overlap, unless a stale save brought it
\* back, without a cart (createOrderFromCartItem checks the items, and removes
\* them only after the order was made).
OrderedOnce ==
    \A i \in DOMAIN item :
        item[i].owner # Nobody =>
            ordered[i] <= IF item[i].owner \in stirred THEN Cardinality(Clerks) ELSE 1

---------------------------------------------------------------------------
(* The inductive invariant behind OrderedOnce *)

CartTypeOK ==
    /\ carts \subseteq Customers
    /\ item \in Seq(CartItem) /\ Len(item) <= MaxRows
    /\ inCart \subseteq DOMAIN item
    /\ cjob \in [Clerks -> CJob]
    /\ ordered \in [Rows -> Nat]

\* A request holds items that exist, and customers who have carts or get one;
\* an order knows the owners of its items, except of those that lost theirs.
CJobOK(k) ==
    LET j == cjob[k] IN
    /\ j.items \subseteq DOMAIN item
    /\ j.op # "order" => j.customers \subseteq Customers
    /\ j.op = "order" => /\ j.phase = "loaded"
                         /\ \A i \in j.items : item[i].owner \in j.customers \cup {Nobody}

\* The orders under way that will take item i.
Taking(i) == {k \in Clerks : cjob[k].op = "order" /\ i \in cjob[k].items}

\* While an item is in a cart no order has it, and the orders that got or will
\* get it are no more than could read it there.
TakenOnce(i) ==
    item[i].owner # Nobody =>
        /\ i \in inCart => ordered[i] = 0
        /\ ordered[i] + Cardinality(Taking(i)) <=
              IF item[i].owner \in stirred THEN Cardinality(Clerks) ELSE 1

CartInv ==
    /\ CartTypeOK
    /\ \A k \in Clerks : CJobOK(k)
    /\ \A i \in Rows \ DOMAIN item : ordered[i] = 0
    /\ \A i \in DOMAIN item : TakenOnce(i)

---------------------------------------------------------------------------
(* The inductive invariant behind CartAsAsked *)

\* Who is idle has no customer, and items are of the customers of a request.
KnowsOwners(j) ==
    /\ j.phase = "idle" => j.customers = {}
    /\ \A i \in j.items : item[i].owner \in j.customers \cup {Nobody}

\* What request j of customer c has read is still so.
UpToDate(j, c) ==
    /\ j.op \in {"add", "update", "remove"} =>
          /\ j.customers = {c}
          /\ \E s \in Skus :
                /\ j.sku = {s} /\ j.items = ItemsWith(c, s)
                /\ j.op = "add" => j.quantity = asked[c][s] + j.taken
    /\ j.op = "update" => j.items # {}
    /\ j.op = "remove" => j.quantity = 0
    /\ j.op = "order" => \A i \in j.items : item[i].owner = c => i \in inCart

\* The cart has at most one item of a variant, with what was asked for.
OneItemEach(c) ==
    \A s \in Skus :
        /\ \A i, l \in ItemsWith(c, s) : i = l
        /\ IF ItemsWith(c, s) = {} THEN asked[c][s] = 0
             ELSE \A i \in ItemsWith(c, s) : item[i].quantity = asked[c][s]

InTurn(c) ==
    /\ OneItemEach(c)
    /\ \A k, l \in Clerks : c \in cjob[k].customers \cap cjob[l].customers => k = l
    /\ \A k \in Clerks : c \in cjob[k].customers => UpToDate(cjob[k], c)

AskedInv ==
    /\ asked \in [Customers -> [Skus -> Int]]
    /\ \A k \in Clerks : KnowsOwners(cjob[k])
    /\ \A c \in Customers \ stirred : InTurn(c)

=============================================================================
