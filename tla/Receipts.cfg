\* Receipts and the other operations on an order, overlapping, failing anywhere.
CONSTANTS
    o1 = o1
    o2 = o2
    p1 = p1
    p2 = p2
    Orders = {o1, o2}
    Products <- MCProducts
    Ordered <- MCOrdered
    Requests = {r1, r2, r3}
    Calls <- AllCalls
    Days = 2
SPECIFICATION Spec
INVARIANTS TypeOK ReceiptsHold NumbersGapless
PROPERTIES CommittedStatusCurrent
SYMMETRY Symmetry
CHECK_DEADLOCK FALSE
