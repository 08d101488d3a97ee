\* One staff request after another: a cancellation, then a confirmation.
CONSTANTS
    Orders = {o1}
    NoOrder = NoOrder
    Requests = {r1}
    Ops = {"confirmOrder", "cancelOrder"}
    Methods = {"COD"}
    PaymentWrites = {}
    CreditBound = 0
SPECIFICATION Spec
PROPERTIES
    CancelledIsFinal
CHECK_DEADLOCK FALSE
