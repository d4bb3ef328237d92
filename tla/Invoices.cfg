\* Calls of two invoices, one at a time or overlapping; any statement may fail.
CONSTANTS
    i1 = i1
    i2 = i2
    Invoices = {i1, i2}
    Requests = {r1, r2, r3, r4}
    Calls <- MCCalls
    Price <- MCPrice
    Modes = {"serial", "overlapping"}
    MaxOverlap = 3
    Failures = TRUE
SPECIFICATION Spec
INVARIANTS PaidAsRecorded NeverTorn
PROPERTIES MoneyTakenOnce
SYMMETRY Symmetry
CHECK_DEADLOCK FALSE
