--------------------------- MODULE TransferService ---------------------------
(***************************************************************************)
(* TransferService (src/inventory/transfer/transfer.service.ts): the life  *)
(* cycle of inventory transfers, composed with StockService, whose         *)
(* transferStock the completion of a transfer calls once per item, one     *)
(* after the other, with no transaction around them.  A call reads the     *)
(* transfer, checks its status, and writes the new status later, without a *)
(* condition on the status it then finds.                                  *)
(***************************************************************************)
EXTENDS Integers, Sequences, FiniteSets

CONSTANTS
    Warehouses, Products, Opening,   \* as in StockService
    Transfers,    \* the transfers of one organisation
    Order,        \* per transfer: [from, to: warehouse, items: sequence of
                  \* [product, qty]]; fixed when the transfer is created
    Callers       \* the calls of approve, complete and cancel, each made once

Lines(t) == DOMAIN Order[t].items
LineCall(t, i) ==
    LET item == Order[t].items[i] IN
    [op |-> "transfer", from |-> <<Order[t].from, item.product>>,
     to |-> <<Order[t].to, item.product>>, qty |-> item.qty]

\* The transferStock call that a caller makes for the i-th item it finds.
Requests == {<<h, i>> : h \in Callers, i \in UNION {Lines(t) : t \in Transfers}}
Calls == UNION {{LineCall(t, i) : i \in Lines(t)} : t \in Transfers}

\* create() refuses a transfer within one warehouse; quantities are positive.
ASSUME OrderAssumption ==
    \A t \in Transfers :
        /\ Order[t].from \in Warehouses /\ Order[t].to \in Warehouses
        /\ Order[t].from # Order[t].to
        /\ Order[t].items \in Seq([product: Products, qty: Nat \ {0}])

ASSUME OpeningAssumption == Opening \in [Warehouses \X Products -> Nat]

\* At any moment the service has been called a finite number of times.
ASSUME CallersAssumption == IsFiniteSet(Callers)

VARIABLES
    exists, available, reserved, ledger,                     \* of StockService
    call, pc, seen, seenTo, wrote, wroteTo, moved, posted,   \* of StockService
    status,       \* InventoryTransfer.status, "NONE" before it is created
    job,          \* what each caller is doing: [op, transfer]
    hpc,          \* the next statement of each caller, or how it ended
    item,         \* the item that a completion is at
    overlapped    \* history: has a call started while another was running

Stock == INSTANCE StockService WITH serial <- FALSE

stockVars == <<exists, available, reserved, ledger,
               call, pc, seen, seenTo, wrote, wroteTo, moved, posted>>
vars == <<stockVars, status, job, hpc, item, overlapped>>

Status == {"NONE", "DRAFT", "IN_TRANSIT", "COMPLETED", "CANCELLED"}
WritePC == [approve |-> "approving", complete |-> "items", cancel |-> "cancelling"]
Running == {"approving", "items", "moving", "cancelling"}
NoJob == [op |-> "none"]

TypeOK ==
    /\ Stock!TypeOK
    /\ status \in [Transfers -> Status]
    /\ hpc \in [Callers -> {"idle", "done", "failed"} \cup Running]
    /\ overlapped \in BOOLEAN
    /\ \A h \in Callers : hpc[h] # "idle" =>
           /\ job[h] \in [op : DOMAIN WritePC, transfer : Transfers]
           /\ item[h] \in 1 .. Len(Order[job[h].transfer].items) + 1

Init ==
    /\ Stock!Init
    /\ status = [t \in Transfers |-> "NONE"]
    /\ job = [h \in Callers |-> NoJob]
    /\ hpc = [h \in Callers |-> "idle"]
    /\ item = [h \in Callers |-> 1]
    /\ overlapped = FALSE

Goto(h, label) == hpc' = [hpc EXCEPT ![h] = label]
SetStatus(h, s) == status' = [status EXCEPT ![job[h].transfer] = s]

\* create: one statement inserts the transfer with its items.
Create(t) ==
    /\ status[t] = "NONE"
    /\ status' = [status EXCEPT ![t] = "DRAFT"]
    /\ UNCHANGED <<stockVars, job, hpc, item, overlapped>>

\* Mutant: a transfer may be cancelled in every status.
CancelAnything(op, s) ==
    \/ op = "approve" /\ s = "DRAFT"
    \/ op = "complete" /\ s = "IN_TRANSIT"
    \/ op = "cancel" /\ s # "NONE"

\* The status checks that the three calls make on the transfer they have read.
Permitted(op, s) ==
    \/ op = "approve" /\ s = "DRAFT"
    \/ op = "complete" /\ s = "IN_TRANSIT"
    \/ op = "cancel" /\ s \in {"DRAFT", "IN_TRANSIT"}

\* findOne and the status check; a call that is refused changes nothing.
Read(h, op, t) ==
    /\ hpc[h] = "idle"
    /\ overlapped' = (overlapped \/ \E g \in Callers : hpc[g] \in Running)
    /\ Permitted(op, status[t])
    /\ job' = [job EXCEPT ![h] = [op |-> op, transfer |-> t]]
    /\ Goto(h, WritePC[op])
    /\ UNCHANGED <<stockVars, status, item>>

Approve(h) ==
    /\ hpc[h] = "approving"
    /\ SetStatus(h, "IN_TRANSIT")
    /\ Goto(h, "done")
    /\ UNCHANGED <<stockVars, job, item, overlapped>>

Cancel(h) ==
    /\ hpc[h] = "cancelling"
    /\ SetStatus(h, "CANCELLED")
    /\ Goto(h, "done")
    /\ UNCHANGED <<stockVars, job, item, overlapped>>

\* complete: the next item of the transfer is handed to transferStock.
MoveItem(h) ==
    LET t == job[h].transfer IN
    /\ hpc[h] = "items"
    /\ item[h] \in Lines(t)
    /\ Stock!Begin(<<h, item[h]>>, LineCall(t, item[h]))
    /\ Goto(h, "moving")
    /\ UNCHANGED <<status, job, item, overlapped>>

\* complete: transferStock returns, or throws and ends the completion.
NextItem(h) == Goto(h, "items") /\ item' = [item EXCEPT ![h] = @ + 1]

ItemMoved(h) ==
    /\ hpc[h] = "moving"
    /\ pc[<<h, item[h]>>] = "done"
    /\ NextItem(h)
    /\ UNCHANGED <<stockVars, status, job, overlapped>>

ItemFailed(h) ==
    /\ hpc[h] = "moving"
    /\ pc[<<h, item[h]>>] \in {"rejected", "failed"}
    /\ Goto(h, "failed")
    /\ UNCHANGED <<stockVars, status, job, item, overlapped>>

\* Mutant: a completed transfer keeps its status.
CompleteWithoutStatus(h) ==
    /\ hpc[h] = "items" /\ item[h] \notin Lines(job[h].transfer)
    /\ Goto(h, "done")
    /\ UNCHANGED <<stockVars, status, job, item, overlapped>>

\* complete: all the items have been moved, the status is written.
Complete(h) ==
    /\ hpc[h] = "items" /\ item[h] \notin Lines(job[h].transfer)
    /\ SetStatus(h, "COMPLETED")
    /\ Goto(h, "done")
    /\ UNCHANGED <<stockVars, job, item, overlapped>>

\* A statement of the call itself fails, or the process dies at it.
Fail(h) ==
    /\ hpc[h] \in Running \ {"moving"}
    /\ Goto(h, "failed")
    /\ UNCHANGED <<stockVars, status, job, item, overlapped>>

StockStep == \E r \in Requests : Stock!Step(r) /\ UNCHANGED <<status, job, hpc, item, overlapped>>

Next ==
    \/ \E t \in Transfers : Create(t)
    \/ \E h \in Callers :
           \/ \E op \in DOMAIN WritePC, t \in Transfers : Read(h, op, t)
           \/ Approve(h) \/ Cancel(h) \/ MoveItem(h) \/ ItemMoved(h) \/ ItemFailed(h)
           \/ Complete(h) \/ Fail(h)
    \/ StockStep

Spec == Init /\ [][Next]_vars

-----------------------------------------------------------------------------
(* Properties.                                                             *)

\* The calls that have changed both rows of an item, and those that have
\* written both of its ledger entries.
Moves(t, i) == {h \in Callers : job[h] # NoJob /\ job[h].transfer = t
                                /\ moved[<<h, i>>] = Stock!Sides}
Postings(t, i) == {h \in Moves(t, i) : posted[<<h, i>>] = Stock!Sides}

\* A transfer that has been completed has moved every item and has written
\* both ledger entries for it, whichever of its completions got there first
\* and whatever failed on the way.
CompletedMovedAll ==
    \A t \in Transfers : status[t] = "COMPLETED" => \A i \in Lines(t) : Postings(t, i) # {}

\* Without overlapping calls, an item goes out of its warehouse a second time
\* only when an earlier completion of the transfer has died after moving it.
MovedOncePerAttempt ==
    ~overlapped => \A t \in Transfers : \A i \in Lines(t) :
        Cardinality(Moves(t, i)) <=
            1 + Cardinality({h \in Callers : hpc[h] = "failed" /\ job[h].op = "complete"
                                             /\ job[h].transfer = t})

\* Stock moves only for a transfer that has been approved: some approve call
\* has taken it out of DRAFT, also when a cancellation or another completion
\* has come in between.
MovesOnlyApproved ==
    \A t \in Transfers : \A h \in Callers :
        job[h] # NoJob /\ job[h].transfer = t
            /\ (\E i \in Lines(t) : moved[<<h, i>>] # {}) =>
            \E g \in Callers : job[g] = [op |-> "approve", transfer |-> t] /\ hpc[g] = "done"

\* Without overlapping calls, a transfer that was cancelled has moved no
\* stock, except by a completion that died part of the way.
CancelledMovedNothing ==
    ~overlapped => \A t \in Transfers : status[t] = "CANCELLED" =>
        \A h \in Callers : job[h] # NoJob /\ job[h].transfer = t /\ hpc[h] # "failed" =>
            \A i \in Lines(t) : moved[<<h, i>>] = {}

\* What a transfer's status says of its stock is so, whichever calls overlap
\* and whatever fails (approve, complete, cancel).
StockFollowsStatus ==
    TypeOK /\ CompletedMovedAll /\ MovesOnlyApproved /\ CancelledMovedNothing
=============================================================================
