\* One transfer, which may fail between its two updates.
CONSTANTS
    w1 = w1
    w2 = w2
    p = p
    Warehouses <- MCWarehouses
    Products <- MCProducts
    Requests = {r1}
    Calls <- OneTransfer
    Opening <- MCOpening
SPECIFICATION Spec
PROPERTIES TransfersAtomic
CHECK_DEADLOCK FALSE
