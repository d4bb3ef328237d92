-------------------------- MODULE MCGoodsReceipts --------------------------
(* One or two orders of two products, for TLC.                              *)
EXTENDS GoodsReceipts, TLC

CONSTANTS o1, o2, p1, p2

MCProducts == {p1, p2}
MCOrdered == o1 :> ((p1 :> 2) @@ (p2 :> 1))

Ask(op, o) == [op |-> op, order |-> o, source |-> o, items |-> Nothing, lines |-> <<>>]
L(p, n) == [product |-> p, qty |-> n]
Receipt(lines) == [Ask("receive", o1) EXCEPT !.lines = lines]

Receipts == {Receipt(<<L(p1, 2)>>), Receipt(<<L(p2, 1)>>), Receipt(<<L(p2, 1), L(p1, 1)>>)}
OrderCalls == {Ask("approve", o1), Ask("cancel", o1),
               [Ask("edit", o1) EXCEPT !.items = (p1 :> 1) @@ (p2 :> 0)],
               [Ask("create", o2) EXCEPT !.items = (p1 :> 1) @@ (p2 :> 0)],
               [Ask("duplicate", o2) EXCEPT !.source = o1]}
AllCalls == Receipts \cup OrderCalls

Symmetry == Permutations(Requests)
=============================================================================
