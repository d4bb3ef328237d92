\* Two reservations of the same row overlap.
CONSTANTS
    w1 = w1
    w2 = w2
    p = p
    Warehouses <- MCWarehouses
    Products <- MCProducts
    Requests = {r1, r2}
    Calls <- Reservations
    Opening <- MCOpening
SPECIFICATION Spec
INVARIANTS NoneBelowZero
SYMMETRY Symmetry
CHECK_DEADLOCK FALSE
