CONSTANTS
    w1 = w1
    w2 = w2
    p1 = p1
    p2 = p2
    t1 = t1
    N = 2
    Warehouses <- MCWarehouses
    Products <- MCProducts
    Opening <- MCOpening
    Transfers <- MCTransfers
    Order <- MCOrder
    Callers = {h1, h2, h3}
SPECIFICATION Spec
INVARIANTS StockFollowsStatus MovedOncePerAttempt
SYMMETRY Symmetry
CHECK_DEADLOCK FALSE
