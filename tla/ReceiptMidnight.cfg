\* Two receipts of one order around midnight.
CONSTANTS
    o1 = o1
    o2 = o2
    p1 = p1
    p2 = p2
    Orders = {o1, o2}
    Products <- MCProducts
    Ordered <- MCOrdered
    Requests = {r1, r2}
    Calls <- Receipts
    Days = 2
SPECIFICATION Spec
PROPERTIES StatusFollowsReceipts
SYMMETRY Symmetry
CHECK_DEADLOCK FALSE
