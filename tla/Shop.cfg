SPECIFICATION Spec
CONSTANTS
    v1 = v1
    c1 = c1
    c2 = c2
    k1 = k1
    k2 = k2
    s1 = s1
    e1 = e1
    e2 = e2
    m1 = m1
    f1 = f1
    f2 = f2
    r1 = r1
    r2 = r2
    l1 = l1
    l2 = l2
    l3 = l3
    p1 = p1
    p2 = p2
    Customers = {c1, c2}
    Skus = {s1}
    Clerks = {k1, k2}
    MaxRows = 5
    Vouchers = {v1}
    Limit <- Limit1
    Quantities <- PlusMinusOne
    MaxCartQty = 1
    Nobody = Nobody
    Emails = {e1, e2}
    SkuCodes = {m1}
    NoCode = NoCode
    Files = {f1, f2}
    MaxReviews = 1
    Routes = {r1, r2}
    MaxRoles = 1
    LogoFiles = {l1, l2, l3}
    Photos = {p1, p2}
    MaxBlogs = 1
    Calendar <- Calendar21
    Totals = {1, 2}
    MaxLines = 2
    MaxSales = 2
    Mixes <- AllMixes
SYMMETRY Symmetry
CHECK_DEADLOCK FALSE
INVARIANTS
    ShopTypeOK
    ClaimsNearLimit
    SpentOnce
    CartAsAsked
    OrderedOnce
    AtMostThree
    OneDefault
    OneAccountEach
    MailedCodeWorks
    CodeSpentOnce
    SkuCodesUnique
    OrdersKeepDetails
    PicturesHaveFiles
    RolesAsAsked
    RootsReachable
    LogosHaveFiles
    BlogsAsAsked
    RevenueAddsUp
