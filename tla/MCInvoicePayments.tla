-------------------------- MODULE MCInvoicePayments --------------------------
(* Small instances of InvoicePayments for TLC: one or two invoices of three *)
(* units, payments of one and two units.                                    *)
EXTENDS InvoicePayments, TLC

CONSTANTS i1, i2

MCPrice == [i \in Invoices |-> 3]

Pay(op, invoice, amounts, txns) ==
    [op: {op}, invoice: {invoice}, payment: {"none"}, amount: amounts, txn: txns]
On(op, invoice, amounts) ==
    [op: {op}, invoice: {invoice}, payment: {"none"}, amount: amounts, txn: {0}]
Of(op, invoice, amounts) ==
    [op: {op}, invoice: {invoice}, payment: Requests, amount: amounts, txn: {0}]

\* What the two services do to one invoice, in turn, and a second invoice to
\* which a payment of the first can be allocated.  An allocation may be negative.
SerialCalls == On("manual", i1, {2}) \cup Pay("gateway", i1, {1}, {1})
               \cup Pay("gateway", i2, {1}, {1})
               \cup Of("refund", i1, {1, 2}) \cup Of("allocate", i1, {-1, 1})
               \cup Of("allocate", i2, {0, 1})
               \cup On("send", i1, {0}) \cup On("void", i1, {0}) \cup On("edit", i1, {0, 1})

OverlappingCalls == On("manual", i1, {2}) \cup Pay("gateway", i1, {2}, {1})
                   \cup Of("refund", i1, {2}) \cup Of("allocate", i1, {1})
                   \cup On("send", i1, {0}) \cup On("void", i1, {0})

MCCalls == [serial |-> SerialCalls, overlapping |-> OverlappingCalls]

VoidCalls == 
    [serial |-> On("manual", i1, {1}) \cup Of("refund", i1, {1}) \cup On("void", i1, {0})]

Symmetry == Permutations(Requests)
=============================================================================
