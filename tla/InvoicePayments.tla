--------------------------- MODULE InvoicePayments ---------------------------
(***************************************************************************)
(* PaymentsService (src/payments/payments.service.ts) and the operations   *)
(* of InvoicesService (src/invoices/invoices.service.ts) that write what   *)
(* it reads: status, grandTotal and the item lines of a sales invoice.     *)
(* None of these calls runs in a transaction: each reads the invoice,      *)
(* checks, inserts its rows one statement at a time and then reconciles    *)
(* the invoice with the payments it finds, and any of its statements may   *)
(* fail.  The price of the item lines is kept as one number.               *)
(***************************************************************************)
EXTENDS Integers, Sequences, FiniteSetsExt

CONSTANTS
    Invoices,     \* the sales invoices of one organisation
    Requests,     \* the calls made to the two services, each made once
    Calls,        \* what a call may ask for, by mode
    Price,        \* per invoice: the total it is created with
    Modes,        \* how calls come: one at a time, or overlapping
    MaxOverlap,   \* bound: the calls of an overlapping behaviour
    Failures      \* TRUE: a statement may fail

Pays == {"manual", "gateway"}
Ops == Pays \cup {"allocate", "refund", "send", "void", "edit"}

\* payment: the request that created the payment to allocate or refund;
\* amount: of the payment, allocation, refund or new lines, 0 for an edit that
\* leaves the lines alone; txn: the transaction id of a payment.  The amount of
\* an allocation is whatever number the request's body holds.
Call == [op: Ops, invoice: Invoices, payment: Requests \cup {"none"}, amount: Int, txn: Nat]

ASSUME CallsAssumption == \A m \in Modes : \A c \in Calls[m] :
    /\ c \in Call
    /\ c.op \in {"allocate", "refund"} => c.payment \in Requests
    /\ c.op \in {"manual", "gateway", "refund"} => c.amount > 0
    /\ c.op = "edit" => c.amount >= 0
ASSUME RequestsAssumption == IsFiniteSet(Requests) /\ "none" \notin Requests
ASSUME PriceAssumption == Price \in [Invoices -> Nat \ {0}]
ASSUME ModeAssumption == Modes \subseteq {"serial", "overlapping"} /\ Failures \in BOOLEAN

VARIABLES
    lines,          \* the price of the invoice's item rows
    grandTotal, amountPaid, balanceDue, paymentStatus, status,   \* the invoice row
    payments,       \* the sales_payment row that a request has inserted
    allocations,    \* the payment_allocation rows, oldest first
    call, pc,       \* each request's arguments, and its next statement or outcome
    local,          \* what it has read: room, status, total, sum, index, held
    mode            \* how the calls of this behaviour come

invoiceRow == <<lines, grandTotal, amountPaid, balanceDue, paymentStatus, status>>
vars == <<invoiceRow, payments, allocations, call, pc, local, mode>>

Status == {"DRAFT", "SENT", "VIEWED", "PARTIALLY_PAID", "PAID", "VOID"}
PaymentStatus == {"UNPAID", "PARTIALLY_PAID", "PAID"}
NoPayment == [status |-> "NONE"]
Payment == [invoice: Invoices, amount: Nat, txn: Nat, status: {"CAPTURED", "REFUNDED"}]
Allocation == [payment: Requests, invoice: Invoices, amount: Int]
NoCall == [op |-> "none"]
Running == {"read", "dedupe", "insertPayment", "insertAllocation", "reconcile", "sum",
            "writeBack", "readInvoice", "readAllocations", "markRefunded", "findAllocation",
            "reduceAllocation", "setStatus", "deleteLines", "insertLines", "recalculate",
            "writeTotals"}
Over == {"done", "rejected", "failed"}
Unread == [room |-> 0, status |-> "DRAFT", total |-> 0, sum |-> 0, index |-> 0, held |-> 0]

TypeOK ==
    /\ lines \in [Invoices -> Nat] /\ grandTotal \in [Invoices -> Nat]
    /\ amountPaid \in [Invoices -> Nat] /\ balanceDue \in [Invoices -> Nat]
    /\ paymentStatus \in [Invoices -> PaymentStatus] /\ status \in [Invoices -> Status]
    /\ payments \in [Requests -> {NoPayment} \cup Payment]
    /\ allocations \in Seq(Allocation)
    /\ call \in [Requests -> {NoCall} \cup Call]
    /\ pc \in [Requests -> {"idle"} \cup Running \cup Over]
    /\ local \in [Requests -> [room: Int, status: Status, total: Nat, sum: Nat,
                              index: Nat, held: Int]]
    /\ mode \in Modes

Init ==
    /\ lines = Price /\ grandTotal = Price /\ balanceDue = Price
    /\ amountPaid = [i \in Invoices |-> 0]
    /\ paymentStatus = [i \in Invoices |-> "UNPAID"]
    /\ status = [i \in Invoices |-> "DRAFT"]
    /\ payments = [r \in Requests |-> NoPayment]
    /\ allocations = <<>>
    /\ call = [r \in Requests |-> NoCall]
    /\ pc = [r \in Requests |-> "idle"]
    /\ local = [r \in Requests |-> Unread]
    /\ mode \in Modes

Goto(r, label) == pc' = [pc EXCEPT ![r] = label]

Captured(r) == payments[r].status = "CAPTURED"
PaidBy(i) == {p \in Requests : Captured(p) /\ payments[p].invoice = i}
CapturedSum(i) == SumFunction([p \in PaidBy(i) |-> payments[p].amount])
AllocationsOf(p) == {k \in DOMAIN allocations : allocations[k].payment = p}
AllocatedSum(p) == SumFunction([k \in AllocationsOf(p) |-> allocations[k].amount])

\* The invoice whose payment state a call brings up to date.
Target(r) == IF call[r].op = "refund" THEN payments[call[r].payment].invoice
             ELSE call[r].invoice

\* The controller calls the service; the payment of an allocation or a refund
\* is looked up by an id that exists.
Begin(r, c) ==
    /\ pc[r] = "idle"
    /\ IF mode = "serial" THEN \A s \in Requests : pc[s] \notin Running
       ELSE Cardinality({s \in Requests : pc[s] # "idle"}) < MaxOverlap
    /\ c.op \in {"allocate", "refund"} => payments[c.payment] # NoPayment
    /\ call' = [call EXCEPT ![r] = c]
    /\ Goto(r, "read")
    /\ UNCHANGED <<invoiceRow, payments, allocations, local>>

-----------------------------------------------------------------------------
(* createManual and captureGateway.                                         *)

Room(i) == grandTotal[i] - amountPaid[i]

Payable(i) == status[i] # "VOID"

\* The invoice is read: a void one takes no payment; what it has room for is
\* computed from this read, and a manual payment is checked against it.
ReadForPayment(r) ==
    LET i == call[r].invoice
        room == Room(i) IN
    /\ pc[r] = "read" /\ call[r].op \in Pays
    /\ local' = [local EXCEPT ![r].room = room]
    /\ \/ ~Payable(i) /\ Goto(r, "rejected")
       \/ Payable(i) /\ call[r].op = "gateway" /\ Goto(r, "dedupe")
       \/ /\ Payable(i) /\ call[r].op = "manual"
          /\ Goto(r, IF call[r].amount > room THEN "rejected" ELSE "insertPayment")
    /\ UNCHANGED <<invoiceRow, payments, allocations, call>>

\* captureGateway looks for a payment with the same transaction id, then makes
\* the overpayment check on the invoice it read before.
Duplicate(r) ==
    \E p \in Requests : payments[p] # NoPayment /\ payments[p].txn = call[r].txn

Dedupe(r) ==
    /\ pc[r] = "dedupe"
    /\ Goto(r, IF Duplicate(r) \/ call[r].amount > local[r].room
               THEN "rejected" ELSE "insertPayment")
    /\ UNCHANGED <<invoiceRow, payments, allocations, call, local>>

InsertPayment(r) ==
    /\ pc[r] = "insertPayment"
    /\ payments' = [payments EXCEPT ![r] =
           [invoice |-> call[r].invoice, amount |-> call[r].amount, txn |-> call[r].txn,
            status |-> "CAPTURED"]]
    /\ Goto(r, "insertAllocation")
    /\ UNCHANGED <<invoiceRow, allocations, call, local>>

\* The allocation row of a new payment, or the one that allocate() adds.
InsertAllocation(r) ==
    /\ pc[r] = "insertAllocation"
    /\ allocations' = Append(allocations,
           [payment |-> IF call[r].op = "allocate" THEN call[r].payment ELSE r,
            invoice |-> call[r].invoice, amount |-> call[r].amount])
    /\ Goto(r, "reconcile")
    /\ UNCHANGED <<invoiceRow, payments, call, local>>

-----------------------------------------------------------------------------
(* updateInvoicePaymentStatus.                                              *)

\* findUnique with include: the invoice row, then its payments.
ReadInvoiceRow(r) ==
    /\ pc[r] = "reconcile"
    /\ local' = [local EXCEPT ![r].status = status[Target(r)],
                              ![r].total = grandTotal[Target(r)]]
    /\ Goto(r, "sum")
    /\ UNCHANGED <<invoiceRow, payments, allocations, call>>

SumPayments(r) ==
    /\ pc[r] = "sum"
    /\ local' = [local EXCEPT ![r].sum = CapturedSum(Target(r))]
    /\ Goto(r, "writeBack")
    /\ UNCHANGED <<invoiceRow, payments, allocations, call>>

Balance(total, paid) == IF paid < total THEN total - paid ELSE 0

\* Mutant: any payment counts as the whole.
PaidByAnyPayment(total, paid) == IF paid > 0 THEN "PAID" ELSE "UNPAID"
Standing(total, paid) ==
    IF paid >= total THEN "PAID" ELSE IF paid > 0 THEN "PARTIALLY_PAID" ELSE "UNPAID"

\* An invoice with no payment left goes (back) to SENT, unless it was read as
\* VOID; one with payments takes their status whatever its own was.
StatusAfter(standing, read) ==
    IF standing # "UNPAID" THEN standing ELSE IF read = "VOID" THEN "VOID" ELSE "SENT"

\* Mutant: the payment is added to the amount, not summed anew.
AddToPaid(r) ==
    LET i == Target(r)
        paid == amountPaid[i] + call[r].amount IN
    /\ pc[r] = "writeBack"
    /\ amountPaid' = [amountPaid EXCEPT ![i] = paid]
    /\ balanceDue' = [balanceDue EXCEPT ![i] = Balance(grandTotal[i], paid)]
    /\ paymentStatus' = [paymentStatus EXCEPT ![i] = Standing(grandTotal[i], paid)]
    /\ status' = [status EXCEPT ![i] = StatusAfter(paymentStatus'[i], local[r].status)]
    /\ Goto(r, "done")
    /\ UNCHANGED <<lines, grandTotal, payments, allocations, call, local>>

WriteBack(r) ==
    LET i == Target(r)
        l == local[r]
        s == Standing(l.total, l.sum) IN
    /\ pc[r] = "writeBack"
    /\ amountPaid' = [amountPaid EXCEPT ![i] = l.sum]
    /\ balanceDue' = [balanceDue EXCEPT ![i] = Balance(l.total, l.sum)]
    /\ paymentStatus' = [paymentStatus EXCEPT ![i] = s]
    /\ status' = [status EXCEPT ![i] = StatusAfter(s, l.status)]
    /\ Goto(r, "done")
    /\ UNCHANGED <<lines, grandTotal, payments, allocations, call, local>>

-----------------------------------------------------------------------------
(* allocate and refund.                                                     *)

\* Both read the payment and refuse one that is not captured; a refund may not
\* exceed the payment.
ReadPayment(r) ==
    LET p == call[r].payment IN
    /\ pc[r] = "read" /\ call[r].op \in {"allocate", "refund"}
    /\ Goto(r, IF ~Captured(p) THEN "rejected"
               ELSE IF call[r].op = "allocate" THEN "readAllocations"
               ELSE IF call[r].amount > payments[p].amount THEN "rejected"
               ELSE "markRefunded")
    /\ UNCHANGED <<invoiceRow, payments, allocations, call, local>>

\* Mutant: what is allocated already is not subtracted.
WholePayment(p) == payments[p].amount
\* allocate adds up the allocations and refuses to exceed the payment.  Zero
\* and negative amounts pass: a negative one makes room for another invoice.
Unallocated(p) == payments[p].amount - AllocatedSum(p)

ReadAllocations(r) ==
    /\ pc[r] = "readAllocations"
    /\ Goto(r, IF call[r].amount > Unallocated(call[r].payment)
               THEN "rejected" ELSE "insertAllocation")
    /\ UNCHANGED <<invoiceRow, payments, allocations, call, local>>

\* A refund of any amount marks the whole payment refunded.
MarkRefunded(r) ==
    /\ pc[r] = "markRefunded"
    /\ payments' = [payments EXCEPT ![call[r].payment].status = "REFUNDED"]
    /\ Goto(r, "findAllocation")
    /\ UNCHANGED <<invoiceRow, allocations, call, local>>

\* The payment's newest allocation to its own invoice, if there is one.
FindAllocation(r) ==
    LET found == {k \in AllocationsOf(call[r].payment) : allocations[k].invoice = Target(r)} IN
    /\ pc[r] = "findAllocation"
    /\ \/ found = {} /\ Goto(r, "reconcile") /\ UNCHANGED local
       \/ \E k \in found :
             /\ \A l \in found : l <= k
             /\ local' = [local EXCEPT ![r].index = k, ![r].held = allocations[k].amount]
             /\ Goto(r, "reduceAllocation")
    /\ UNCHANGED <<invoiceRow, payments, allocations, call>>

\* It is set to what was read less the refund, at least zero: a negative
\* allocation is cleared by the refund.
ReduceAllocation(r) ==
    /\ pc[r] = "reduceAllocation"
    /\ allocations' = [allocations EXCEPT ![local[r].index].amount =
                           Balance(local[r].held, call[r].amount)]
    /\ Goto(r, "reconcile")
    /\ UNCHANGED <<invoiceRow, payments, call, local>>

-----------------------------------------------------------------------------
(* InvoicesService: send, void, update.                                     *)

\* VALID_TRANSITIONS, for the two transitions that calls ask for.
Sendable == {"DRAFT"}
Voidable == Status \ {"VOID"}

ReadInvoice(r) ==
    LET s == status[call[r].invoice] IN
    /\ pc[r] = "read" /\ call[r].op \in {"send", "void", "edit"}
    /\ \/ call[r].op = "send" /\ Goto(r, IF s \in Sendable THEN "setStatus" ELSE "rejected")
       \/ call[r].op = "void" /\ Goto(r, IF s \in Voidable THEN "setStatus" ELSE "rejected")
       \/ /\ call[r].op = "edit"
          /\ Goto(r, IF s # "DRAFT" THEN "rejected"
                     ELSE IF call[r].amount = 0 THEN "recalculate" ELSE "deleteLines")
    /\ UNCHANGED <<invoiceRow, payments, allocations, call, local>>

SetStatus(r) ==
    /\ pc[r] = "setStatus"
    /\ status' = [status EXCEPT ![call[r].invoice] =
                      IF call[r].op = "send" THEN "SENT" ELSE "VOID"]
    /\ Goto(r, "done")
    /\ UNCHANGED <<lines, grandTotal, amountPaid, balanceDue, paymentStatus,
                   payments, allocations, call, local>>

\* update replaces the item rows if it is given new ones, then
\* recalculateAndUpdate reads the rows and the invoice back and writes the
\* totals.
DeleteLines(r) ==
    /\ pc[r] = "deleteLines"
    /\ lines' = [lines EXCEPT ![call[r].invoice] = 0]
    /\ Goto(r, "insertLines")
    /\ UNCHANGED <<grandTotal, amountPaid, balanceDue, paymentStatus, status,
                   payments, allocations, call, local>>

InsertLines(r) ==
    /\ pc[r] = "insertLines"
    /\ lines' = [lines EXCEPT ![call[r].invoice] = @ + call[r].amount]
    /\ Goto(r, "recalculate")
    /\ UNCHANGED <<grandTotal, amountPaid, balanceDue, paymentStatus, status,
                   payments, allocations, call, local>>

Recalculate(r) ==
    /\ pc[r] = "recalculate"
    /\ local' = [local EXCEPT ![r].total = lines[call[r].invoice],
                              ![r].sum = amountPaid[call[r].invoice]]
    /\ Goto(r, "writeTotals")
    /\ UNCHANGED <<invoiceRow, payments, allocations, call>>

WriteTotals(r) ==
    LET i == call[r].invoice IN
    /\ pc[r] = "writeTotals"
    /\ grandTotal' = [grandTotal EXCEPT ![i] = local[r].total]
    /\ balanceDue' = [balanceDue EXCEPT ![i] = Balance(local[r].total, local[r].sum)]
    /\ Goto(r, "done")
    /\ UNCHANGED <<lines, amountPaid, paymentStatus, status,
                   payments, allocations, call, local>>

-----------------------------------------------------------------------------
\* A statement fails or the process dies at it; what was written stays.
Fail(r) ==
    /\ Failures
    /\ pc[r] \in Running
    /\ Goto(r, "failed")
    /\ UNCHANGED <<invoiceRow, payments, allocations, call, local>>

Step(r) ==
    \/ ReadForPayment(r) \/ Dedupe(r) \/ InsertPayment(r) \/ InsertAllocation(r)
    \/ ReadInvoiceRow(r) \/ SumPayments(r) \/ WriteBack(r)
    \/ ReadPayment(r) \/ ReadAllocations(r)
    \/ MarkRefunded(r) \/ FindAllocation(r) \/ ReduceAllocation(r)
    \/ ReadInvoice(r) \/ SetStatus(r)
    \/ DeleteLines(r) \/ InsertLines(r) \/ Recalculate(r) \/ WriteTotals(r)
    \/ Fail(r)

Next == UNCHANGED mode /\ \E r \in Requests : (\E c \in Calls[mode] : Begin(r, c)) \/ Step(r)

Spec == Init /\ [][Next]_vars

-----------------------------------------------------------------------------
(* Properties.                                                             *)

Idle == \A r \in Requests : pc[r] \notin Running
NoneFailed == \A r \in Requests : pc[r] # "failed"

\* The overpayment check, made against an amountPaid written by earlier
\* reconciliations, keeps the captured payments within grandTotal.
NoOverpayment == \A i \in Invoices : CapturedSum(i) <= grandTotal[i]

\* The invoice says what the payments say: paid and due amounts, payment
\* status, and a status that is the payment status unless nothing is paid or
\* the invoice is void.
Reconciled == \A i \in Invoices :
    /\ amountPaid[i] = CapturedSum(i)
    /\ balanceDue[i] = Max({0, grandTotal[i] - CapturedSum(i)})
    /\ CapturedSum(i) = grandTotal[i] => paymentStatus[i] = "PAID"
    /\ CapturedSum(i) \in 1 .. grandTotal[i] - 1 => paymentStatus[i] = "PARTIALLY_PAID"
    /\ CapturedSum(i) = 0 => paymentStatus[i] = "UNPAID" /\ status[i] \in {"DRAFT", "SENT", "VOID"}
    /\ CapturedSum(i) > 0 => status[i] \in {paymentStatus[i], "VOID"}

\* As long as calls come one at a time and none has died, no invoice is
\* overpaid, and between the calls each tells what its payments tell.
PaidAsRecorded == mode = "serial" /\ NoneFailed => NoOverpayment /\ (Idle => Reconciled)

\* What is allocated of a captured payment, over all invoices, is at most the
\* payment, also when calls have died between inserting it and allocating it
\* and when allocations are negative.
AllocationCovered == \A p \in Requests : Captured(p) => AllocatedSum(p) <= payments[p].amount

\* What is allocated of any other payment grows by no step, save by the refund
\* that sets a negative allocation to zero (allocate, refund).
OthersStayAllocated ==
    \A p \in Requests :
        AllocatedSum(p)' <= AllocatedSum(p) \/ Captured(p)
            \/ \E k \in AllocationsOf(p) : allocations[k].amount < 0 /\ allocations'[k].amount = 0

\* A transaction of the payment gateway is captured once, however often the
\* gateway or the client repeats it.
GatewayPaidOnce ==
    \A p, q \in Requests :
        /\ p # q /\ call[p].op = "gateway" /\ call[q].op = "gateway"
        /\ payments[p] # NoPayment /\ payments[q] # NoPayment
        => payments[p].txn # payments[q].txn

\* Whatever statement calls die at, one after the other they allocate no more
\* than a captured payment and nothing of a refunded one, save that its refund
\* clears a negative allocation; they capture a gateway's transaction once, and
\* nothing for an invoice that is void (createManual, captureGateway, allocate).
MoneyTakenOnce ==
    [][mode = "serial" =>
         /\ AllocationCovered' /\ OthersStayAllocated /\ GatewayPaidOnce'
         /\ \A i \in Invoices : status[i] = "VOID" => PaidBy(i)' \subseteq PaidBy(i)]_vars

\* Overlapping payments, allocations and refunds may leave an invoice stale,
\* never torn: its four payment fields always belong together.  An edit, in
\* turn with them, leaves the payment status alone but not the balance.
FieldsAgree ==
    \A i \in Invoices :
        /\ balanceDue[i] = Max({0, grandTotal[i] - amountPaid[i]})
        /\ mode = "overlapping" =>
             paymentStatus[i] = IF amountPaid[i] >= grandTotal[i] THEN "PAID"
                                ELSE IF amountPaid[i] > 0 THEN "PARTIALLY_PAID" ELSE "UNPAID"

\* All the payments of an invoice, refunded or not.
PaidOn(i) == {p \in Requests : payments[p] # NoPayment /\ payments[p].invoice = i}
EverPaid(i) == SumFunction([p \in PaidOn(i) |-> payments[p].amount])

\* However calls overlap or die, an invoice never shows more money than was
\* ever paid on it: no payment is counted twice.
NoPhantomMoney == \A i \in Invoices : amountPaid[i] <= EverPaid(i)

\* In every reachable state the invoice rows are well formed, their payment
\* fields belong together and show only money that was paid
\* (updateInvoicePaymentStatus, recalculateAndUpdate).
NeverTorn == TypeOK /\ FieldsAgree /\ NoPhantomMoney

\* VALID_TRANSITIONS gives VOID no successor, and the doc's diagram of invoice
\* statuses has no arrow out of it.
VoidIsTerminal == [][\A i \in Invoices : status[i] = "VOID" => status'[i] = "VOID"]_vars
=============================================================================
