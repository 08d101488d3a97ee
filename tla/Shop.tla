-------------------------------- MODULE Shop --------------------------------
(***************************************************************************)
(* The shop front: the parts of the server around orders and payments.     *)
(* They share the processes that serve requests and the database server,   *)
(* but no table; what links them to orders is said in each module.         *)
(*                                                                         *)
(* A behaviour uses the endpoints of one mix (Mixes), which keeps the      *)
(* interleavings of endpoints that never meet apart.                       *)
(***************************************************************************)
EXTENDS Vouchers, Cart, Addresses, Accounts, Catalogue, Reviews, Roles, Categories, Logos,
        Blogs, Statistics

shopVars == <<inUse, voucherVars, cartVars, addressVars, accountVars, catalogueVars,
              reviewVars, roleVars, categoryVars, logoVars, blogVars, book>>

Init ==
    /\ inUse \in Mixes
    /\ VInit /\ CInit /\ AInit /\ KInit /\ PInit /\ RInit
    /\ GInit /\ HInit /\ LInit /\ BInit /\ SInit

Next ==
    \/ /\ VNext
       /\ UNCHANGED <<inUse, cartVars, addressVars, accountVars, catalogueVars, reviewVars,
                      roleVars, categoryVars, logoVars, blogVars, book>>
    \/ /\ CNext
       /\ UNCHANGED <<inUse, voucherVars, addressVars, accountVars, catalogueVars, reviewVars,
                      roleVars, categoryVars, logoVars, blogVars, book>>
    \/ /\ ANext
       /\ UNCHANGED <<inUse, voucherVars, cartVars, accountVars, catalogueVars, reviewVars,
                      roleVars, categoryVars, logoVars, blogVars, book>>
    \/ /\ KNext
       /\ UNCHANGED <<inUse, voucherVars, cartVars, addressVars, catalogueVars, reviewVars,
                      roleVars, categoryVars, logoVars, blogVars, book>>
    \/ /\ PNext
       /\ UNCHANGED <<inUse, voucherVars, cartVars, addressVars, accountVars, reviewVars,
                      roleVars, categoryVars, logoVars, blogVars, book>>
    \/ /\ RNext
       /\ UNCHANGED <<inUse, voucherVars, cartVars, addressVars, accountVars, catalogueVars,
                      roleVars, categoryVars, logoVars, blogVars, book>>
    \/ /\ GNext
       /\ UNCHANGED <<inUse, voucherVars, cartVars, addressVars, accountVars, catalogueVars,
                      reviewVars, categoryVars, logoVars, blogVars, book>>
    \/ /\ HNext
       /\ UNCHANGED <<inUse, voucherVars, cartVars, addressVars, accountVars, catalogueVars,
                      reviewVars, roleVars, logoVars, blogVars, book>>
    \/ /\ LNext
       /\ UNCHANGED <<inUse, voucherVars, cartVars, addressVars, accountVars, catalogueVars,
                      reviewVars, roleVars, categoryVars, blogVars, book>>
    \/ /\ BNext
       /\ UNCHANGED <<inUse, voucherVars, cartVars, addressVars, accountVars, catalogueVars,
                      reviewVars, roleVars, categoryVars, logoVars, book>>
    \/ /\ SNext
       /\ UNCHANGED <<inUse, voucherVars, cartVars, addressVars, accountVars, catalogueVars,
                      reviewVars, roleVars, categoryVars, logoVars, blogVars>>

Spec == Init /\ [][Next]_shopVars

---------------------------------------------------------------------------

\* Every row and request is what the modules say, and only rows that were
\* inserted are there: no stale save makes up an id (the tables of Vouchers,
\* Cart, Addresses, Accounts, Catalogue, Reviews, Roles, Categories, Logos and
\* Blogs).
ShopTypeOK ==
    /\ inUse \in Mixes
    /\ offered \in SUBSET Vouchers /\ active \in SUBSET Vouchers
    /\ got \in [Vouchers -> Nat]
    /\ owned \in Seq(UserVoucher) /\ held \subseteq DOMAIN owned
    /\ vjob \in [Clerks -> VJob]
    /\ carts \subseteq Customers
    /\ item \in Seq(CartItem) /\ inCart \subseteq DOMAIN item
    /\ cjob \in [Clerks -> CJob]
    /\ address \in Seq(Address) /\ kept \subseteq DOMAIN address
    /\ ajob \in [Clerks -> AJob]
    /\ account \in Seq(Account) /\ live \subseteq DOMAIN account /\ issued \in Codes
    /\ kjob \in [Clerks -> KJob]
    /\ launched \in Rows \cup {0} /\ hidden \subseteq listed /\ listed \subseteq 1 .. launched
    /\ variant \in Seq(Variant) /\ onSale \subseteq DOMAIN variant
    /\ \A s \in onSale : variant[s].product \in listed
    /\ details \in [Rows -> SUBSET Rows]
    /\ placed \in Rows \cup {0} /\ pjob \in [Clerks -> PJob]
    /\ written \in 0 .. MaxReviews /\ shelved \subseteq reviews /\ reviews \subseteq 1 .. written
    /\ picture \in Seq(Picture) /\ shown \subseteq DOMAIN picture
    /\ rjob \in [Clerks -> RJob]
    /\ cloud \subseteq Files
    /\ permission \in Seq(Routes) /\ standing \subseteq DOMAIN permission
    /\ made \in 0 .. MaxRoles /\ roles \subseteq 1 .. made
    /\ grants \subseteq roles \X standing /\ gjob \in [Clerks -> GJob]
    /\ filed \in 0 .. MaxRows /\ off \subseteq categories /\ categories \subseteq 1 .. filed
    /\ \A c \in categories : parent[c] \in {None} \cup categories
    /\ hjob \in [Clerks -> HJob]
    /\ logo \in Seq(LogoRow) /\ inShop \subseteq DOMAIN logo
    /\ drive \subseteq LogoFiles /\ doomed \subseteq LogoFiles /\ ljob \in [Clerks -> LJob]
    /\ opened \in 0 .. MaxRows /\ topics \subseteq 1 .. opened
    /\ blog \in Seq(Blog) /\ posted \subseteq DOMAIN blog
    /\ \A b \in posted : blog[b].category \in {Nowhere} \cup topics
    /\ stock \subseteq Photos /\ bjob \in [Clerks -> BJob]
    /\ book \in Seq(Sale)

=============================================================================
