------------------------------- MODULE MCShop -------------------------------
(***************************************************************************)
(* Small instances of Shop.                                                *)
(***************************************************************************)
EXTENDS Shop, TLC

CONSTANTS v1, c1, c2, k1, k2, s1, e1, e2, m1, f1, f2,
          r1, r2, l1, l2, l3, p1, p2

\* At most n rows in a table, and these endpoints.
M(n, ops) == [rows |-> n, ops |-> ops]

VoucherMixes ==
    {M(3, {"createVoucher", "give_for_customer", "selectedVoucher", "updateVoucher"}),
     M(3, {"createVoucher", "selectedVoucher", "updateVoucher", "removeVoucher"}),
     M(3, {"createVoucher", "give_for_customer", "createOrderPayment", "removeVoucher"})}

CartMixes ==
    {M(1, {"addToCart", "getCart", "createOrderFromCartItem"}),
     M(2, {"addToCart", "updateCart", "createOrderFromCartItem"}),
     M(1, {"addToCart", "remove", "createOrderFromCartItem"}),
     M(2, {"addToCart", "updateCart", "remove", "clearCart"})}

AddressMixes ==
    {M(5, {"createAddress", "removeAddress"}),
     M(3, {"createAddress", "setDefault"}),
     M(2, {"createAddress", "setDefault", "updateAddress"}),
     M(2, {"createAddress", "setDefault", "removeAddress"}),
     M(2, {"createAddress", "updateAddress", "removeAddress"})}

AccountMixes ==
    {M(2, {"register", "createCustomerByPageAdmin", "handleValidation", "updateCustomer"}),
     M(2, {"register", "retryActive", "handleActive", "changePassword"}),
     M(3, {"register", "retryPassword", "changePassword"}),
     M(3, {"createUser", "resetPassword", "forgotPassword"}),
     M(2, {"createUser", "createManyUsers", "retryPasswordAdmin", "removeUser"}),
     M(2, {"createUser", "resetPassword", "forgotPassword", "updateUser"}),
     M(2, {"register", "handleActive", "removeUser", "removeCustomer",
           "basicResetPassword", "forgotPassword"})}

CatalogueMixes ==
    {M(2, {"createProductVariant", "removeSku", "placeOrder"}),
     M(2, {"createProductVariant", "removeSku", "removeProduct", "updateProductVariant"}),
     M(2, {"createProductVariant", "createSku", "removeSku", "removeGroup"}),
     M(2, {"createProductVariant", "createSku", "updateSku", "removeSku",
           "softDeleteProduct"}),
     M(3, {"createProductVariant", "createSku", "updateSku"})}

ReviewMixes ==
    {M(2, {"createReview", "removeHardReview", "removeReview"}),
     M(2, {"createReview", "updateReview", "removeHardReview"})}

RoleMixes ==
    {M(2, {"createPermission", "createRole", "updatePermission_of_role", "removePermission"}),
     M(2, {"createPermission", "createManyPermissions", "createRole",
           "deleteRole_permission_of_role", "updatePermission_of_role"}),
     M(2, {"createManyPermissions", "createRole", "deleteRole", "updatePermission_of_role"}),
     M(2, {"createPermission", "createManyPermissions", "updatePermission",
           "removePermission"})}

CategoryMixes ==
    {M(3, {"createCategory", "updateCategory"}),
     M(2, {"createCategory", "updateCategory", "deleteCategory", "softDelete"})}

LogoMixes ==
    {M(2, {"createPaymentMethod", "updatePaymentMethod"}),
     M(1, {"createDeliveryMethod", "updateDeliveryMethod", "removeDeliveryMethod"}),
     M(2, {"createBrand", "updateBrand", "updateThumbnail", "removeBrand"})}

BlogMixes ==
    {M(2, {"createTopic", "createBlog", "updateBlog", "updateTopic"}),
     M(1, {"createTopic", "createBlog", "updateBlog", "updateTopic", "removeTopic",
           "removeBlog"})}

StatisticsMixes == {M(0, {"statistics"})}

AllMixes ==
    UNION {VoucherMixes, CartMixes, AddressMixes, AccountMixes, CatalogueMixes, ReviewMixes,
           RoleMixes, CategoryMixes, LogoMixes, BlogMixes, StatisticsMixes}

\* A customer may put one piece into the cart, or minus one.
PlusMinusOne == {1, -1}

Limit1 == [v \in Vouchers |-> 1]

\* A year of two months, of two days and one.
Calendar21 == <<2, 1>>

\* Exchanges the two customers, the two addresses and so on.  A mix depends on
\* no more than one of these pairs, so that to exchange all at once is enough.
Exchange == c1 :> c2 @@ c2 :> c1 @@ e1 :> e2 @@ e2 :> e1 @@ f1 :> f2 @@ f2 :> f1
            @@ r1 :> r2 @@ r2 :> r1 @@ p1 :> p2 @@ p2 :> p1 @@ l1 :> l2 @@ l2 :> l1

Symmetry == {Exchange} \cup Permutations(Clerks)

=============================================================================
