\* Two payment requests and one staff request overlap on one order.
CONSTANTS
    Orders = {o1}
    NoOrder = NoOrder
    Requests = {r1}
    Ops = {"confirmOrder"}
    Methods = {"PAYOS"}
    PaymentWrites = {"FAILED", "PENDING", "PAID", "REFUNDED", "CANCELLED",
                     "PROCESSING", "EXPIRED"}
    CreditBound = 1
    Codes = {c1}
    NoCode = NoCode
    Payers = {p1, p2}
    Unsent <- AnyUnsent
SPECIFICATION PSpec
SYMMETRY Symmetry
INVARIANTS
    GatewayAgreement
PROPERTIES
    ImplementsLifecycle
    SettlesMoney
CHECK_DEADLOCK FALSE
