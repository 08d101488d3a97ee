\* Two payment requests overlap on one order, over two days.
CONSTANTS
    Orders = {o1}
    NoOrder = NoOrder
    Requests = {r1}
    Ops = {}
    Methods = {"ZALOPAY"}
    PaymentWrites = {"FAILED", "PENDING", "PAID", "REFUNDED", "CANCELLED",
                     "PROCESSING", "EXPIRED"}
    CreditBound = 1
    Callers = {z1, z2}
    MaxDay = 2
    MaxRow = 2
    MaxInFlight = 2
SPECIFICATION ZSpec
SYMMETRY Symmetry
INVARIANTS
    ZaloInv
    FailureIsReal
    CalmMoneyShows
    CalmLinkIsKnown
CHECK_DEADLOCK FALSE
