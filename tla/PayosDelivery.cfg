\* An order with a payment link that staff may switch to cash and deliver.
CONSTANTS
    Orders = {o1}
    NoOrder = NoOrder
    Requests = {r1}
    Ops = {"confirmOrder", "createExportOrder", "updateNormalOrderStatus",
           "updateNormalPaymentFailed", "update", "cancelOrder"}
    Methods = {"COD", "PAYOS"}
    PaymentWrites = {"FAILED", "PENDING", "PAID", "REFUNDED", "CANCELLED",
                     "PROCESSING", "EXPIRED"}
    CreditBound = 1
    Codes = {c1}
    NoCode = NoCode
    Payers = {p1}
    Unsent <- AnyUnsent
SPECIFICATION PSpec
INVARIANTS
    PaidIsFunded
    CalmMoneyShows
CHECK_DEADLOCK FALSE
