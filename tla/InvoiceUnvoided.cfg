\* A payment of a void invoice is refunded.
CONSTANTS
    i1 = i1
    i2 = i2
    Invoices = {i1}
    Requests = {r1, r2, r3, r4}
    Calls <- VoidCalls
    Price <- MCPrice
    Modes = {"serial"}
    MaxOverlap = 1
    Failures = FALSE
SPECIFICATION Spec
PROPERTIES VoidIsTerminal
SYMMETRY Symmetry
CHECK_DEADLOCK FALSE
