----------------------------- MODULE Catalogue -----------------------------
(***************************************************************************)
(* The catalogue: ProductsService, SkusService, CategoryService and        *)
(* BrandService, as far as they decide which products and variants (SKUs)  *)
(* there are, and the details of orders that name variants.                *)
(*                                                                         *)
(* Codes (masku, barcode) are looked up before a variant is stored, inside *)
(* a transaction but without a constraint.  Deleting a row also deletes    *)
(* the rows under it (onDelete CASCADE): a category or brand its products, *)
(* a product its variants, a variant its lots and the details of orders.   *)
(*                                                                         *)
(* That a variant was sold or lies in a cart is an ordinary refusal here,  *)
(* as are a missing category or option; lots and imports are the business  *)
(* of Inventory.                                                           *)
(***************************************************************************)
EXTENDS Parties

CONSTANTS
    SkuCodes, \* what staff name as masku or barcode
    NoCode    \* a variant without a code

ASSUME CatalogueAssumption == NoCode \notin SkuCodes

Variant == [product: Rows, code: SkuCodes \cup {NoCode}]

PJob == [phase: {"idle", "loaded", "deleted"},
         op: {"none", "product", "sku", "editSku", "removeSku", "editProduct", "removeProduct"},
         product: 0 .. MaxRows, skus: SUBSET Rows, code: SkuCodes \cup {NoCode},
         number: 0 .. 2, hidden: BOOLEAN, last: BOOLEAN, seen: SUBSET Rows]

IdlePJob == [phase |-> "idle", op |-> "none", product |-> 0, skus |-> {}, code |-> NoCode,
             number |-> 0, hidden |-> FALSE, last |-> FALSE, seen |-> {}]

VARIABLES
    launched, \* how many products were inserted
    listed,   \* the numbers of the products that are still there
    hidden,   \* those of them with deletedAt
    variant,  \* the variants that were inserted
    onSale,   \* the numbers of the variants that are still there
    placed,   \* how many orders were placed
    details,  \* the variants that each order still names
    pjob,     \* the requests in flight
    wanted,   \* ghost: the variants that each order was placed for
    torn,     \* ghost: orders that may have lost some of them
    repeats   \* ghost: variants that got a code next to others of one request

catalogueVars == <<launched, listed, hidden, variant, onSale, placed, details,
                   pjob, wanted, torn, repeats>>

PDatabase == <<launched, listed, hidden, variant, onSale, placed, details,
               wanted, torn, repeats>>

---------------------------------------------------------------------------

SkusOf(p) == {s \in onSale : variant[s].product = p}

Placed == 1 .. placed

\* A request starts, and has read what it keeps in j.
PStart(k, j) ==
    /\ pjob[k].phase = "idle"
    /\ pjob' = [pjob EXCEPT ![k] = [j EXCEPT !.phase = "loaded"]]
    /\ UNCHANGED PDatabase

PDone(k) == pjob' = [pjob EXCEPT ![k] = IdlePJob]

\* Mutant: variants stay without their product.
UnderMutant(set) == {}

\* The variants under these products.
Under(set) == UNION {SkusOf(p) : p \in set}

\* The products in set and the variants in skus are deleted, and what is under
\* them; the details of the orders in set2 may be among it.
Cascade(set, skus, set2) ==
    LET gone == skus \cup Under(set) IN
    /\ listed' = listed \ set
    /\ hidden' = hidden \ set
    /\ onSale' = onSale \ gone
    /\ details' = [o \in Rows |-> details[o] \ gone]
    /\ torn' = torn \cup {o \in set2 : details[o] \cap gone # {}}
    /\ UNCHANGED <<launched, variant, placed, wanted, repeats>>

---------------------------------------------------------------------------
(* Creating *)

\* Mutant: nobody looks for the code.
CodeFreeMutant(code, others) == TRUE

\* None of the other variants has the code.
CodeFree(code, others) == \A s \in others : code = NoCode \/ variant[s].code # code

\* n variants with that code are inserted under product p.
InsertSkus(n, p, code) ==
    /\ Len(variant) + n <= inUse.rows
    /\ variant' = variant \o [i \in 1 .. n |-> [product |-> p, code |-> code]]
    /\ onSale' = onSale \cup (Len(variant) + 1 .. Len(variant) + n)
    /\ repeats' = IF code = NoCode THEN repeats ELSE [repeats EXCEPT ![code] = @ + n - 1]

\* createProductVariant looks for the codes of its variants among those that
\* are stored, and not among one another.
ProductLoad(k, code, n) ==
    /\ Uses("createProductVariant")
    /\ CodeFree(code, onSale)
    /\ PStart(k, [IdlePJob EXCEPT !.op = "product", !.code = code, !.number = n])

ProductSave(k) ==
    LET j == pjob[k] IN
    /\ j.op = "product"
    /\ launched < inUse.rows
    /\ launched' = launched + 1
    /\ listed' = listed \cup {launched + 1}
    /\ InsertSkus(j.number, launched + 1, j.code)
    /\ PDone(k)
    /\ UNCHANGED <<hidden, placed, details, wanted, torn>>

SkuLoad(k, p, code) ==
    /\ Uses("createSku")
    /\ p \in listed \ hidden
    /\ CodeFree(code, onSale)
    /\ PStart(k, [IdlePJob EXCEPT !.op = "sku", !.product = p, !.code = code, !.number = 1])

\* The foreign key asks for the product.
SkuSave(k) ==
    LET j == pjob[k] IN
    /\ j.op = "sku"
    /\ j.product \in listed
    /\ InsertSkus(1, j.product, j.code)
    /\ PDone(k)
    /\ UNCHANGED <<launched, listed, hidden, placed, details, wanted, torn>>

---------------------------------------------------------------------------
(* Updating *)

\* Some product must be there: the one that the request names, which need not
\* be the variant's, or any if it names none.
EditSkuLoad(k, s, code) ==
    /\ Uses("updateSku")
    /\ listed \ hidden # {}
    /\ s \in onSale
    /\ CodeFree(code, onSale \ {s})
    /\ PStart(k, [IdlePJob EXCEPT !.op = "editSku", !.skus = {s}, !.code = code])

\* A variant deleted meanwhile is inserted again, if its product is there.
EditSkuSave(k) ==
    LET j == pjob[k] IN
    /\ j.op = "editSku"
    /\ \E s \in j.skus : /\ variant[s].product \in listed
                         /\ variant' = [variant EXCEPT ![s].code = j.code]
    /\ onSale' = onSale \cup j.skus
    /\ PDone(k)
    /\ UNCHANGED <<launched, listed, hidden, placed, details, wanted, torn, repeats>>

\* updateProductVariant reads the product before its transaction.
EditProductLoad(k, p) ==
    /\ Uses("updateProductVariant")
    /\ p \in listed
    /\ PStart(k, [IdlePJob EXCEPT !.op = "editProduct", !.product = p,
                                  !.hidden = p \in hidden])

\* It saves that copy: a product deleted meanwhile is inserted again, without
\* its variants; one hidden or restored meanwhile is as it was.
EditProductSave(k) ==
    LET j == pjob[k] IN
    /\ j.op = "editProduct"
    /\ listed' = listed \cup {j.product}
    /\ hidden' = IF j.hidden THEN hidden \cup {j.product} ELSE hidden \ {j.product}
    /\ PDone(k)
    /\ UNCHANGED <<launched, variant, onSale, placed, details, wanted, torn, repeats>>

SoftDeleteProduct(p) ==
    /\ Uses("softDeleteProduct")
    /\ p \in listed \ hidden
    /\ hidden' = hidden \cup {p}
    /\ UNCHANGED <<launched, listed, variant, onSale, placed, details, pjob,
                   wanted, torn, repeats>>

RestoreProduct(p) ==
    /\ Uses("softDeleteProduct")
    /\ p \in hidden
    /\ hidden' = hidden \ {p}
    /\ UNCHANGED <<launched, listed, variant, onSale, placed, details, pjob,
                   wanted, torn, repeats>>

---------------------------------------------------------------------------
(* Removing *)

\* Mutant: orders are not looked at.
NotOrderedMutant(s) == TRUE

\* No order names the variant.
NotOrdered(s) == \A o \in Placed : s \notin details[o]

\* SkusService.remove.  Of a hidden product TypeORM does not load the product,
\* and the handler fails.
RemoveSkuLoad(k, s) ==
    /\ Uses("removeSku")
    /\ s \in onSale
    /\ variant[s].product \in listed \ hidden
    /\ NotOrdered(s)
    /\ PStart(k, [IdlePJob EXCEPT !.op = "removeSku", !.product = variant[s].product,
                                  !.skus = {s}, !.seen = Placed])

\* The DELETE, which locks the row, and a look at the product: is there another
\* variant?  One that is being removed at the same time counts.
RemoveSkuDelete(k) ==
    LET j == pjob[k] IN
    /\ j.op = "removeSku" /\ j.phase = "loaded"
    /\ \A i \in Clerks : pjob[i].phase = "deleted" => pjob[i].skus \cap j.skus = {}
    /\ pjob' = [pjob EXCEPT ![k].phase = "deleted",
                            ![k].last = /\ j.product \in listed \ hidden
                                        /\ SkusOf(j.product) \ j.skus = {}]
    /\ UNCHANGED PDatabase

\* The product goes with its last variant, and COMMIT.  Orders placed since the
\* handler looked for them lose the detail.
RemoveSkuCommit(k) ==
    LET j == pjob[k] IN
    /\ j.op = "removeSku" /\ j.phase = "deleted"
    /\ Cascade(IF j.last THEN {j.product} ELSE {}, j.skus, Placed \ j.seen)
    /\ PDone(k)

\* ProductsService.remove asks for nothing: all orders lose their details.
RemoveProductLoad(k, p) ==
    /\ Uses("removeProduct")
    /\ p \in listed
    /\ PStart(k, [IdlePJob EXCEPT !.op = "removeProduct", !.product = p])

RemoveProductCommit(k) ==
    LET j == pjob[k] IN
    /\ j.op = "removeProduct"
    /\ Cascade({j.product}, {}, Placed)
    /\ PDone(k)

\* deleteCategory, and remove of BrandService: whatever products are in it.
RemoveGroup(set) ==
    /\ Uses("removeGroup")
    /\ set # {} /\ set \subseteq listed
    /\ Cascade(set, {}, Placed)
    /\ UNCHANGED pjob

\* The COMMIT of createOrder or createOrderFromCartItem.
PlaceOrder(set) ==
    /\ Uses("placeOrder")
    /\ set # {} /\ set \subseteq onSale
    /\ placed < inUse.rows
    /\ placed' = placed + 1
    /\ details' = [details EXCEPT ![placed + 1] = set]
    /\ wanted' = [wanted EXCEPT ![placed + 1] = set]
    /\ UNCHANGED <<launched, listed, hidden, variant, onSale, pjob, torn, repeats>>

\* A check refuses, a statement or a removal of images fails, or the server stops.
PAbort(k) ==
    /\ pjob[k].phase # "idle"
    /\ PDone(k)
    /\ UNCHANGED PDatabase

---------------------------------------------------------------------------

PInit ==
    /\ launched = 0 /\ listed = {} /\ hidden = {}
    /\ variant = <<>> /\ onSale = {}
    /\ placed = 0
    /\ details = [o \in Rows |-> {}] /\ wanted = [o \in Rows |-> {}]
    /\ pjob = [k \in Clerks |-> IdlePJob]
    /\ torn = {} /\ repeats = [c \in SkuCodes |-> 0]

ProductsController(k) ==
    \/ \E code \in SkuCodes \cup {NoCode}, n \in 1 .. 2 : ProductLoad(k, code, n)
    \/ \E p \in listed : EditProductLoad(k, p) \/ RemoveProductLoad(k, p)
    \/ ProductSave(k) \/ EditProductSave(k) \/ RemoveProductCommit(k)

SkusController(k) ==
    \/ \E code \in SkuCodes \cup {NoCode} :
          \/ \E p \in listed : SkuLoad(k, p, code)
          \/ \E s \in onSale : EditSkuLoad(k, s, code)
    \/ \E s \in onSale : RemoveSkuLoad(k, s)
    \/ SkuSave(k) \/ EditSkuSave(k) \/ RemoveSkuDelete(k) \/ RemoveSkuCommit(k)

PNext ==
    \/ \E p \in listed : SoftDeleteProduct(p) \/ RestoreProduct(p)
    \/ \E set \in SUBSET listed : RemoveGroup(set)
    \/ \E set \in SUBSET onSale : PlaceOrder(set)
    \/ \E k \in Clerks : ProductsController(k) \/ SkusController(k) \/ PAbort(k)

---------------------------------------------------------------------------
(* Properties *)

\* Variants share a code only as far as requests overlap, or one request named
\* it for several of them (createProductVariant, create and update of
\* SkusService look for it first).
SkuCodesUnique ==
    \A c \in SkuCodes :
        Cardinality({s \in onSale : variant[s].code = c}) <= Cardinality(Clerks) + repeats[c]

\* An order keeps the details it was placed with, unless its product, category
\* or brand is removed, or it was placed while a removal of its variant, or of
\* the last other one, was under way (SkusService.remove asks for orders first).
OrdersKeepDetails == \A o \in Placed \ torn : details[o] = wanted[o]


---------------------------------------------------------------------------
(* The inductive invariant behind SkuCodesUnique and OrdersKeepDetails *)

CatalogueTypeOK ==
    /\ launched \in 0 .. MaxRows /\ listed \subseteq 1 .. launched /\ hidden \subseteq listed
    /\ variant \in Seq(Variant) /\ Len(variant) <= MaxRows
    /\ onSale \subseteq DOMAIN variant
    /\ placed \in 0 .. MaxRows
    /\ details \in [Rows -> SUBSET Rows] /\ wanted \in [Rows -> SUBSET Rows]
    /\ pjob \in [Clerks -> PJob]
    /\ repeats \in [SkuCodes -> Nat]

\* A removal saw no order with its variant, and one that takes the product with
\* it saw no order with another of its variants either.
PJobOK(k) ==
    LET j == pjob[k] IN
    /\ j.op = "editProduct" => j.product \in 1 .. launched
    /\ j.op = "product" => j.number # 0
    /\ j.op \in {"editSku", "removeSku"} => j.skus \subseteq DOMAIN variant
    /\ j.op = "editSku" => \A s, t \in j.skus : s = t
    /\ j.op = "removeSku" =>
          /\ j.seen \subseteq Placed
          /\ \A o \in j.seen, s \in DOMAIN variant : s \in details[o] =>
                s \notin j.skus /\ (j.phase = "deleted" /\ j.last => variant[s].product # j.product)

\* The variants that have code c or may get it, and the requests that may add one.
CodedWith(c) == {s \in DOMAIN variant :
                    \/ s \in onSale /\ variant[s].code = c
                    \/ \E k \in Clerks : /\ pjob[k].op = "editSku" /\ pjob[k].code = c
                                         /\ s \in pjob[k].skus}

Coding(c) == {k \in Clerks : pjob[k].op \in {"product", "sku"} /\ pjob[k].code = c}

CodesBounded(c) ==
    Cardinality(CodedWith(c)) + Cardinality(Coding(c)) <= Cardinality(Clerks) + repeats[c]

CatalogueInv ==
    /\ CatalogueTypeOK
    /\ \A s \in onSale : variant[s].product \in listed
    /\ \A o \in Rows : details[o] \subseteq onSale
    /\ OrdersKeepDetails
    /\ \A k \in Clerks : PJobOK(k)
    /\ \A c \in SkuCodes : CodesBounded(c)

============================================================================
