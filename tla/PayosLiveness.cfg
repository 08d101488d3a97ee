\* Two payment requests overlap on one order, which may get two links; the
\* gateway keeps notifying.
CONSTANTS
    Orders = {o1}
    NoOrder = NoOrder
    Requests = {r1}
    Ops = {}
    Methods = {"PAYOS"}
    PaymentWrites = {"FAILED", "PENDING", "PAID", "REFUNDED", "CANCELLED",
                     "PROCESSING", "EXPIRED"}
    CreditBound = 1
    Codes = {c1, c2}
    NoCode = NoCode
    Payers = {p1, p2}
    Unsent <- OneUnsent
SPECIFICATION PFairSpec
INVARIANTS
    PayosInv
PROPERTIES
    PaidIsRecorded
CHECK_DEADLOCK FALSE
