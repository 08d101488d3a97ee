\* Two requests of any kind overlap on one order; ZaloPay keeps calling back.
CONSTANTS
    Orders = {o1}
    NoOrder = NoOrder
    Requests = {r1}
    Ops = {"confirmOrder"}
    Methods = {"ZALOPAY"}
    PaymentWrites = {"FAILED", "PENDING", "PAID", "REFUNDED", "CANCELLED",
                     "PROCESSING", "EXPIRED"}
    CreditBound = 1
    Callers = {z1, z2}
    MaxDay = 1
    MaxRow = 2
    MaxInFlight = 2
SPECIFICATION ZFairSpec
PROPERTIES
    SettlesMoney
    ZImplementsLifecycle
    ZPaidIsRecorded
CHECK_DEADLOCK FALSE
