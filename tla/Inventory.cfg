\* Two requests overlap on two lots of a variant that two orders ask for.
CONSTANTS
    l1 = l1
    l2 = l2
    i1 = i1
    s1 = s1
    s2 = s2
    o1 = o1
    o2 = o2
    Lots = {l1, l2}
    Imports = {i1}
    ImportOf <- ImportOf1
    Skus = {s1}
    SkuOf <- SkuOf1
    Orders = {o1, o2}
    Want <- Want1
    Mixes <- Mixes1
    Clerks = {k1, k2}
    MaxQty = 2
    SoldBound = 1
SPECIFICATION Spec
SYMMETRY Symmetry
INVARIANTS
    InventoryInv
    BooksBalance
    ExportFitsOrder
    SoldWasSent
CHECK_DEADLOCK FALSE
