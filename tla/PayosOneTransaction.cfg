\* Two createOrderPayment requests overlap on one order.
CONSTANTS
    Orders = {o1}
    NoOrder = NoOrder
    Requests = {r1}
    Ops = {}
    Methods = {"PAYOS"}
    PaymentWrites = {"FAILED", "PENDING", "PAID", "REFUNDED", "CANCELLED",
                     "PROCESSING", "EXPIRED"}
    CreditBound = 1
    Codes = {c1, c2}
    NoCode = NoCode
    Payers = {p1, p2}
    Unsent <- NoneUnsent
SPECIFICATION PSpec
INVARIANTS
    OneTransaction
CHECK_DEADLOCK FALSE
