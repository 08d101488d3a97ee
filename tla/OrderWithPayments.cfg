\* One staff request at a time, overlapped by what payment handlers save.
CONSTANTS
    Orders = {o1}
    NoOrder = NoOrder
    Requests = {r1}
    Ops = {"confirmOrder", "exportOrder", "createExportOrder", "removeExport",
           "failedDeliveryOrder", "cancelOrder", "update",
           "updateNormalOrderStatus", "updateNormalPaymentFailed"}
    Methods = {"PAYOS"}
    PaymentWrites = {"PAID", "FAILED"}
    CreditBound = 1
SPECIFICATION Spec
INVARIANTS
    LifecycleInv
CHECK_DEADLOCK FALSE
