-------------------------- MODULE MCTransferService --------------------------
(* One transfer of two items between two warehouses, for TLC.               *)
EXTENDS TransferService, TLC

CONSTANTS w1, w2, p1, p2, t1, N

MCWarehouses == {w1, w2}
MCProducts == {p1, p2}
MCTransfers == {t1}
MCOpening == (<<w1, p1>> :> 2) @@ (<<w1, p2>> :> 1) @@ (<<w2, p1>> :> 0) @@ (<<w2, p2>> :> 1)
MCOrder == [t \in MCTransfers |->
    [from |-> w1, to |-> w2,
     items |-> SubSeq(<<[product |-> p1, qty |-> 1], [product |-> p2, qty |-> 1]>>, 1, N)]]

Symmetry == Permutations(Callers)
=============================================================================
