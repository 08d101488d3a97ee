\* An update overlaps with a confirmation.
CONSTANTS
    Orders = {o1}
    NoOrder = NoOrder
    Requests = {r1, r2}
    Ops = {"confirmOrder", "update"}
    Methods = {"COD", "PAYOS"}
    PaymentWrites = {}
    CreditBound = 0
SPECIFICATION Spec
PROPERTIES
    UpdateKeepsStatus
CHECK_DEADLOCK FALSE
