\* Two staff requests that overlap on one cash-on-delivery order.
CONSTANTS
    Orders = {o1}
    NoOrder = NoOrder
    Requests = {r1, r2}
    Ops = {"confirmOrder", "createExportOrder", "handOverOrder",
           "deliverOrder", "shipOrder", "shipOrderSuccess",
           "updateNormalOrderStatus", "remove"}
    Methods = {"COD"}
    PaymentWrites = {}
    CreditBound = 1
SPECIFICATION Spec
SYMMETRY Symmetry
INVARIANTS
    StatusTrail
    WarehouseTrail
    CodSettled
CHECK_DEADLOCK FALSE
