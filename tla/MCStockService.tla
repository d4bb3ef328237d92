--------------------------- MODULE MCStockService ---------------------------
(***************************************************************************)
(* Small instances of StockService for TLC: two warehouses, one product    *)
(* (no statement of the service relates two products), two or three calls. *)
(***************************************************************************)
EXTENDS StockService, TLC

CONSTANTS w1, w2, p

MCWarehouses == {w1, w2}
MCProducts == {p}
A == <<w1, p>>
B == <<w2, p>>

On(op, row, quantities) ==
    {[op |-> op, from |-> row, to |-> row, qty |-> q] : q \in quantities}
OneTransfer == {[op |-> "transfer", from |-> A, to |-> B, qty |-> 2]}
Back == {[op |-> "transfer", from |-> B, to |-> A, qty |-> 1]}

\* Three units in the first warehouse, no row yet in the second.
MCOpening == [c \in Cells |-> IF c = A THEN 3 ELSE 0]

AllCalls == On("reserve", A, {2}) \cup On("release", A, {1})
            \cup On("increase", B, {2}) \cup On("decrease", A, {1})
            \cup On("adjust", B, {1}) \cup On("adjust", A, {-1})
            \cup OneTransfer \cup Back

Reservations == On("reserve", A, {2})

Symmetry == Permutations(Requests)
=============================================================================
