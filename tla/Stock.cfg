\* Three calls, overlapping at every statement or one at a time, failures at any.
CONSTANTS
    w1 = w1
    w2 = w2
    p = p
    Warehouses <- MCWarehouses
    Products <- MCProducts
    Requests = {r1, r2, r3}
    Calls <- AllCalls
    Opening <- MCOpening
SPECIFICATION Spec
INVARIANTS TypeOK NonNegative LedgerTells Reconciled
PROPERTIES AtomicSpec
SYMMETRY Symmetry
CHECK_DEADLOCK FALSE
