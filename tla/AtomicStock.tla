----------------------------- MODULE AtomicStock -----------------------------
(***************************************************************************)
(* What StockService promises its callers about one organisation's stock:  *)
(* every call is one indivisible movement, made once and only when the     *)
(* quantities it needs are there.  docs/sprint-6-inventory.md, "Stock      *)
(* Operations", is the informal version of this module.                    *)
(***************************************************************************)
EXTENDS Integers

CONSTANTS
    Cells,        \* the stock rows
    Requests,     \* the calls made to the service
    Calls,        \* what a call may ask for
    Opening       \* the stock on hand at the start

VARIABLES
    available, reserved,
    made          \* the movement that a request has made, if it has

vars == <<available, reserved, made>>

Nothing == [op |-> "none"]

Init ==
    /\ available = Opening /\ reserved = [c \in Cells |-> 0]
    /\ made = [r \in Requests |-> Nothing]

Move(c, fromAvailable, toReserved) ==
    /\ available' = [available EXCEPT ![c] = @ - fromAvailable]
    /\ reserved' = [reserved EXCEPT ![c] = @ + toReserved]

\* A reservation moves a quantity out of what is available.
Reserve(c, q) == available[c] >= q /\ Move(c, q, q)

\* A release gives back what was reserved, never more.
Release(c, q) == reserved[c] >= q /\ Move(c, -q, -q)

\* Goods come in, are issued, are counted anew, or go to another warehouse:
\* what leaves one row is what arrives in the other.
Increase(c, q) == Move(c, -q, 0)
Decrease(c, q) == available[c] >= q /\ Move(c, q, 0)
Adjust(c, q) == available[c] + q >= 0 /\ Move(c, -q, 0)
Transfer(c, d, q) ==
    /\ c # d /\ available[c] >= q
    /\ available' = [available EXCEPT ![c] = @ - q, ![d] = @ + q]
    /\ UNCHANGED reserved

Movement(m) ==
    \/ m.op = "reserve" /\ Reserve(m.from, m.qty)
    \/ m.op = "release" /\ Release(m.from, m.qty)
    \/ m.op = "increase" /\ Increase(m.from, m.qty)
    \/ m.op = "decrease" /\ Decrease(m.from, m.qty)
    \/ m.op = "adjust" /\ Adjust(m.from, m.qty)
    \/ m.op = "transfer" /\ Transfer(m.from, m.to, m.qty)

Next == \E r \in Requests, m \in Calls :
            made[r] = Nothing /\ made' = [made EXCEPT ![r] = m] /\ Movement(m)

Spec == Init /\ [][Next]_vars
=============================================================================
