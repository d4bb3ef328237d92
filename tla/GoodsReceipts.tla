---------------------------- MODULE GoodsReceipts ----------------------------
(***************************************************************************)
(* GoodsReceiptService and PurchaseOrdersService (src/procurement): the    *)
(* life of purchase orders and the receipts that are booked on them.  A    *)
(* receipt checks the order outside its transaction, numbers itself by     *)
(* counting, and then in one transaction inserts itself, increments what   *)
(* its items have received and sets the status of the order; in the midst  *)
(* of it StockService.increase, on a connection of its own, adds to the    *)
(* stock.  What a transaction has written is visible to itself only until  *)
(* it commits, and its row locks make others wait.                         *)
(***************************************************************************)
EXTENDS Integers, Sequences, FiniteSets, FiniteSetsExt

CONSTANTS
    Orders,       \* the purchase orders of one organisation
    Products,
    Requests,     \* the calls made to the two services, each made once
    Calls,        \* what a call may ask for
    Ordered,      \* per order that exists at first: the quantity of each product
    Days          \* the days on which the calls are made, 1 .. Days

Ops == {"create", "duplicate", "edit", "approve", "cancel", "receive"}
Quantities == [Products -> Nat]
Line == [product: Products, qty: Nat \ {0}]

\* order: the order created or acted on; source: the one to duplicate;
\* items: of a new or edited order, 0 for no item; lines: of a receipt.
Call == [op: Ops, order: Orders, source: Orders, items: Quantities, lines: Seq(Line)]

ASSUME CallsAssumption ==
    \A c \in Calls :
        /\ c.op \in Ops /\ c.order \in Orders /\ c.source \in Orders
        /\ c.items \in Quantities /\ c.lines \in Seq(Line)
        /\ c.op = "receive" => c.lines # <<>>
ASSUME OrdersAssumption == IsFiniteSet(Orders) /\ IsFiniteSet(Requests)
ASSUME OrderedAssumption == DOMAIN Ordered \subseteq Orders /\ Ordered \in [DOMAIN Ordered -> Quantities]
ASSUME DaysAssumption == Days \in Nat \ {0}

VARIABLES
    status, poNumber,    \* the purchase_orders rows, "NONE" before they are created
    quantity, received,  \* the purchase_order_items rows, per order and product
    generation,          \* per order: how often an edit has replaced its items
    receipts,            \* the requests whose goods_receipts rows are committed
    stock,               \* availableQty per product, of the receiving warehouse
    day,                 \* what new Date() says
    call, pc,            \* each request's arguments, and its next statement or outcome
    local,               \* what it has read: status, generation, number, items, line
    incremented,         \* per request: what its open transaction adds to received
    overlapped           \* history: has a call started while another was running

order == <<status, poNumber, quantity, received, generation>>
vars == <<order, receipts, stock, day, call, pc, local, incremented, overlapped>>

Status == {"NONE", "DRAFT", "SENT", "APPROVED", "PARTIALLY_RECEIVED", "RECEIVED", "CANCELLED"}
Number == [day: 1 .. Days, seq: Nat]
NoNumber == [day |-> 1, seq |-> 0]
NoCall == [op |-> "none"]
Nothing == [p \in Products |-> 0]
InTransaction == {"line", "stock", "readBack", "commit"}
Running == {"read", "check", "count", "insert", "setStatus", "deleteItems", "createItems"}
           \cup InTransaction
Unread == [status |-> "NONE", generation |-> 0, number |-> NoNumber, items |-> Nothing,
           line |-> 1, newStatus |-> "NONE"]

TypeOK ==
    /\ status \in [Orders -> Status] /\ poNumber \in [Orders -> Number]
    /\ quantity \in [Orders -> Quantities] /\ received \in [Orders -> Quantities]
    /\ generation \in [Orders -> Nat]
    /\ receipts \subseteq Requests /\ IsFiniteSet(receipts)
    /\ stock \in Quantities /\ day \in 1 .. Days
    /\ call \in [Requests -> {NoCall} \cup Calls]
    /\ \A r \in Requests : pc[r] # "idle" => call[r] \in Calls
    /\ pc \in [Requests -> {"idle", "done", "failed"} \cup Running]
    /\ local \in [Requests -> [status: Status, generation: Nat, number: Number,
                               items: Quantities, line: Nat, newStatus: Status]]
    /\ incremented \in [Requests -> Quantities]
    /\ overlapped \in BOOLEAN

\* The orders that exist at first have been created one after the other.
Init ==
    /\ status \in [Orders -> {"NONE", "DRAFT", "APPROVED"}]
    /\ \A o \in Orders : status[o] = "NONE" <=> o \notin DOMAIN Ordered
    /\ poNumber \in [Orders -> {[day |-> 1, seq |-> n] : n \in 0 .. Cardinality(Orders)}]
    /\ \A o \in Orders : poNumber[o].seq = 0 <=> o \notin DOMAIN Ordered
    /\ {poNumber[o].seq : o \in DOMAIN Ordered} = 1 .. Cardinality(DOMAIN Ordered)
    /\ quantity = [o \in Orders |-> IF o \in DOMAIN Ordered THEN Ordered[o] ELSE Nothing]
    /\ received = [o \in Orders |-> Nothing]
    /\ generation = [o \in Orders |-> 0]
    /\ receipts = {} /\ stock = Nothing /\ day = 1
    /\ call = [r \in Requests |-> NoCall]
    /\ pc = [r \in Requests |-> "idle"]
    /\ local = [r \in Requests |-> Unread]
    /\ incremented = [r \in Requests |-> Nothing]
    /\ overlapped = FALSE

Goto(r, label) == pc' = [pc EXCEPT ![r] = label]
HasItem(o, p) == quantity[o][p] > 0
AllReceived(o, got) == \A p \in Products : got[p] >= quantity[o][p]
AnyReceived(got) == \E p \in Products : got[p] > 0

\* Midnight passes.
Midnight ==
    /\ day < Days
    /\ day' = day + 1
    /\ UNCHANGED <<order, receipts, stock, call, pc, local, incremented, overlapped>>

Creating == {"create", "duplicate"}
Begin(r, c) ==
    /\ pc[r] = "idle"
    /\ c.op \in Creating =>    \* the id of a new order is new
           status[c.order] = "NONE" /\ \A s \in Requests :
               call[s].op \in Creating => call[s].order # c.order
    /\ call' = [call EXCEPT ![r] = c]
    /\ Goto(r, IF c.op = "create" THEN "count" ELSE "read")
    /\ overlapped' = (overlapped \/ \E s \in Requests : pc[s] \in Running)
    /\ UNCHANGED <<order, receipts, stock, day, local, incremented>>

-----------------------------------------------------------------------------
(* PurchaseOrdersService.                                                   *)

\* findOne, and the status that the operation asks for.
Permitted(op, s) ==
    \/ op = "edit" /\ s = "DRAFT"
    \/ op = "approve" /\ s \in {"DRAFT", "SENT"}
    \/ op = "cancel" /\ s \notin {"RECEIVED", "CANCELLED"}

ReadOrder(r) ==
    LET s == status[call[r].order] IN
    /\ pc[r] = "read" /\ call[r].op \in {"edit", "approve", "cancel"} /\ s # "NONE"
    /\ Goto(r, IF ~Permitted(call[r].op, s) THEN "failed"
               ELSE IF call[r].op = "edit" THEN "deleteItems" ELSE "setStatus")
    /\ UNCHANGED <<order, receipts, stock, day, call, local, incremented, overlapped>>

SetStatus(r) ==
    /\ pc[r] = "setStatus"
    /\ status' = [status EXCEPT ![call[r].order] =
                      IF call[r].op = "approve" THEN "APPROVED" ELSE "CANCELLED"]
    /\ Goto(r, "done")
    /\ UNCHANGED <<poNumber, quantity, received, generation, receipts, stock, day, call, local,
                   incremented, overlapped>>

\* update deletes the items, which throws when a receipt refers to them and
\* waits for a transaction that may make one refer to them, ...
OpenFor(o) == {s \in Requests : pc[s] \in InTransaction /\ call[s].order = o}
ReceiptsOf(o) == {s \in receipts : call[s].order = o}

DeleteItems(r) ==
    LET o == call[r].order IN
    /\ pc[r] = "deleteItems" /\ OpenFor(o) = {}
    /\ \/ ReceiptsOf(o) # {} /\ Goto(r, "failed") /\ UNCHANGED <<quantity, generation>>
       \/ /\ ReceiptsOf(o) = {}
          /\ quantity' = [quantity EXCEPT ![o] = Nothing]
          /\ generation' = [generation EXCEPT ![o] = @ + 1]
          /\ Goto(r, "createItems")
    /\ UNCHANGED <<status, poNumber, received, receipts, stock, day, call, local, incremented,
                   overlapped>>

\* ... and creates the new ones, which are unique by product.
CreateItems(r) ==
    LET o == call[r].order IN
    /\ pc[r] = "createItems"
    /\ \/ /\ \E p \in Products : HasItem(o, p) /\ call[r].items[p] > 0
          /\ Goto(r, "failed") /\ UNCHANGED quantity
       \/ /\ \A p \in Products : ~(HasItem(o, p) /\ call[r].items[p] > 0)
          /\ quantity' = [quantity EXCEPT ![o] = [p \in Products |-> @[p] + call[r].items[p]]]
          /\ Goto(r, "done")
    /\ UNCHANGED <<status, poNumber, received, generation, receipts, stock, day, call, local,
                   incremented, overlapped>>

\* duplicate reads its source.
ReadSource(r) ==
    LET o == call[r].source IN
    /\ pc[r] = "read" /\ call[r].op = "duplicate" /\ status[o] # "NONE"
    /\ local' = [local EXCEPT ![r].items = quantity[o]]
    /\ Goto(r, "count")
    /\ UNCHANGED <<order, receipts, stock, day, call, incremented, overlapped>>

\* generatePONumber and generateGRNNumber: one more than the rows there are.
Rows(op) == IF op = "receive" THEN Cardinality(receipts)
            ELSE Cardinality({o \in Orders : status[o] # "NONE"})

\* Mutant: the number has no date.
UndatedNumber(op) == [seq |-> Rows(op) + 1]
NextNumber(op) == [day |-> day, seq |-> Rows(op) + 1]

Count(r) ==
    /\ pc[r] = "count"
    /\ local' = [local EXCEPT ![r].number = NextNumber(call[r].op)]
    /\ Goto(r, "insert")
    /\ UNCHANGED <<order, receipts, stock, day, call, incremented, overlapped>>

\* create and duplicate: the number must be unique.
InsertOrder(r) ==
    LET o == call[r].order
        n == local[r].number IN
    /\ pc[r] = "insert" /\ call[r].op \in Creating
    /\ \/ /\ \E other \in Orders : poNumber[other] = n
          /\ Goto(r, "failed") /\ UNCHANGED order
       \/ /\ \A other \in Orders : poNumber[other] # n
          /\ status' = [status EXCEPT ![o] = "DRAFT"]
          /\ poNumber' = [poNumber EXCEPT ![o] = n]
          /\ quantity' = [quantity EXCEPT ![o] =
                 IF call[r].op = "create" THEN call[r].items ELSE local[r].items]
          /\ Goto(r, "done")
          /\ UNCHANGED <<received, generation>>
    /\ UNCHANGED <<receipts, stock, day, call, local, incremented, overlapped>>

-----------------------------------------------------------------------------
(* GoodsReceiptService.create.                                              *)

\* findFirst with include: the order's row, then its items, against which
\* every line is checked on its own.
ReadStatus(r) ==
    LET s == status[call[r].order] IN
    /\ pc[r] = "read" /\ call[r].op = "receive" /\ s # "NONE"
    /\ local' = [local EXCEPT ![r].status = s]
    /\ Goto(r, IF s \in {"CANCELLED", "DRAFT"} THEN "failed" ELSE "check")
    /\ UNCHANGED <<order, receipts, stock, day, call, incremented, overlapped>>

\* Mutant: what was received is not subtracted.
RemainingOfNewOrder(o, p) == quantity[o][p]
Remaining(o, p) == quantity[o][p] - received[o][p]

CheckLines(r) ==
    LET o == call[r].order IN
    /\ pc[r] = "check"
    /\ local' = [local EXCEPT ![r].generation = generation[o]]
    /\ Goto(r, IF \A k \in DOMAIN call[r].lines :
                      /\ HasItem(o, call[r].lines[k].product)
                      /\ call[r].lines[k].qty <= Remaining(o, call[r].lines[k].product)
               THEN "count" ELSE "failed")
    /\ UNCHANGED <<order, receipts, stock, day, call, incremented, overlapped>>

\* The transaction begins with the insertion of the receipt and its items: it
\* waits for one that has inserted the same number, and throws when the
\* number is taken or the order's items have been replaced.
Numbered(n) == {s \in receipts : local[s].number = n}
Inserting(n) == {s \in Requests : pc[s] \in InTransaction /\ local[s].number = n}

\* Mutant: nothing keeps numbers unique.
InsertUnnumbered(r) ==
    LET n == local[r].number IN
    /\ pc[r] = "insert" /\ call[r].op = "receive"
    /\ Goto(r, IF generation[call[r].order] # local[r].generation THEN "failed" ELSE "line")
    /\ UNCHANGED <<order, receipts, stock, day, call, local, incremented, overlapped>>

InsertReceipt(r) ==
    LET n == local[r].number IN
    /\ pc[r] = "insert" /\ call[r].op = "receive"
    /\ Inserting(n) = {}
    /\ Goto(r, IF Numbered(n) # {} \/ generation[call[r].order] # local[r].generation
               THEN "failed" ELSE "line")
    /\ UNCHANGED <<order, receipts, stock, day, call, local, incremented, overlapped>>

\* The item of the next line is incremented, once no other transaction holds
\* its row.
CurrentLine(r) == call[r].lines[local[r].line]
Locked(r, p) == \E s \in OpenFor(call[r].order) \ {r} : incremented[s][p] > 0

IncrementItem(r) ==
    LET l == CurrentLine(r) IN
    /\ pc[r] = "line" /\ ~Locked(r, l.product)
    /\ incremented' = [incremented EXCEPT ![r][l.product] = @ + l.qty]
    /\ Goto(r, "stock")
    /\ UNCHANGED <<order, receipts, stock, day, call, local, overlapped>>

\* StockService.increase returns: its own statements have added the quantity.
AfterLine(r) == Goto(r, IF local[r].line < Len(call[r].lines) THEN "line" ELSE "readBack")

AddToStock(r) == stock' = [stock EXCEPT ![CurrentLine(r).product] = @ + CurrentLine(r).qty]

IncreaseStock(r) ==
    /\ pc[r] = "stock"
    /\ AddToStock(r)
    /\ AfterLine(r)
    /\ local' = [local EXCEPT ![r].line = @ + 1]
    /\ UNCHANGED <<order, receipts, day, call, incremented, overlapped>>

\* It throws after the update, for want of its ledger entry: the transaction
\* is rolled back, the stock is not.
StockThrows(r) ==
    /\ pc[r] = "stock"
    /\ AddToStock(r)
    /\ incremented' = [incremented EXCEPT ![r] = Nothing]
    /\ Goto(r, "failed")
    /\ UNCHANGED <<order, receipts, day, call, local, overlapped>>

\* Mutant: the transaction's own increments are not seen.
StaleGot(r) == received[call[r].order]
\* The items are read back, and the status follows from them.
Got(r) == [p \in Products |-> received[call[r].order][p] + incremented[r][p]]

ReadBack(r) ==
    LET o == call[r].order
        got == Got(r) IN
    /\ pc[r] = "readBack"
    /\ local' = [local EXCEPT ![r].newStatus =
           IF AllReceived(o, got) THEN "RECEIVED"
           ELSE IF AnyReceived(got) THEN "PARTIALLY_RECEIVED" ELSE local[r].status]
    /\ Goto(r, "commit")
    /\ UNCHANGED <<order, receipts, stock, day, call, incremented, overlapped>>

\* The status is written if it differs from the one read at first, and the
\* transaction commits.
AfterCommit(r) == [p \in Products |-> received[call[r].order][p] + incremented[r][p]]

Commit(r) ==
    LET o == call[r].order
        l == local[r] IN
    /\ pc[r] = "commit"
    /\ received' = [received EXCEPT ![o] = AfterCommit(r)]
    /\ status' = IF l.newStatus = l.status THEN status ELSE [status EXCEPT ![o] = l.newStatus]
    /\ receipts' = receipts \cup {r}
    /\ incremented' = [incremented EXCEPT ![r] = Nothing]
    /\ Goto(r, "done")
    /\ UNCHANGED <<poNumber, quantity, generation, stock, day, call, local, overlapped>>

-----------------------------------------------------------------------------
\* A statement fails, the transaction times out, or the process dies: an open
\* transaction is rolled back, what was written outside of one stays.
Fail(r) ==
    /\ pc[r] \in Running
    /\ incremented' = [incremented EXCEPT ![r] = Nothing]
    /\ Goto(r, "failed")
    /\ UNCHANGED <<order, receipts, stock, day, call, local, overlapped>>

Step(r) ==
    \/ ReadOrder(r) \/ SetStatus(r) \/ DeleteItems(r) \/ CreateItems(r)
    \/ ReadSource(r) \/ Count(r) \/ InsertOrder(r)
    \/ ReadStatus(r) \/ CheckLines(r) \/ InsertReceipt(r) \/ IncrementItem(r)
    \/ IncreaseStock(r) \/ StockThrows(r) \/ ReadBack(r) \/ Commit(r)
    \/ Fail(r)

Next ==
    \/ Midnight
    \/ \E r \in Requests : (\E c \in Calls : Begin(r, c)) \/ Step(r)

Spec == Init /\ [][Next]_vars

-----------------------------------------------------------------------------
(* Properties.                                                             *)

\* What the lines of a request say of a product.
LinesFor(r, p) == {k \in DOMAIN call[r].lines : call[r].lines[k].product = p}
Asked(r, p) == SumFunction([k \in LinesFor(r, p) |-> call[r].lines[k].qty])
Booked(o, p) == SumFunction([r \in ReceiptsOf(o) |-> Asked(r, p)])

\* An order's items have received what its receipts list, neither more nor
\* less: overlapping receipts lose no increment, and a receipt that dies half
\* way leaves none behind.
ReceivedIsBooked ==
    \A o \in Orders, p \in Products : received[o][p] = Booked(o, p)

\* Whatever is booked as received is in stock: the stock is increased before
\* the receipt commits, so a death in between can only leave too much.
StockCoversReceipts ==
    \A p \in Products : stock[p] >= SumFunction([o \in Orders |-> Booked(o, p)])

\* As long as no calls overlap, no item receives more than was ordered, unless
\* a receipt lists it twice.
ListsOnce(r) == \A p \in Products : Cardinality(LinesFor(r, p)) <= 1

NoOverReceipt ==
    \A o \in Orders : ~overlapped /\ (\A r \in ReceiptsOf(o) : ListsOnce(r)) =>
        \A p \in Products : received[o][p] <= quantity[o][p]

\* What an order has received is what its receipts book, the stock covers it,
\* and without overlap it is within the order (GoodsReceiptService.create).
ReceiptsHold == ReceivedIsBooked /\ StockCoversReceipts /\ NoOverReceipt

\* A receipt leaves its order RECEIVED exactly when nothing remains, although
\* it sees nothing of the transactions that run beside it and compares with a
\* status read before.  Until midnight this holds because a receipt whose
\* number was counted before another committed dies of the unique key.  (An
\* edit that is still under way when the order is received may add items.)
CommitsTrueStatus ==
    \A r \in receipts' \ receipts :
        LET o == call[r].order IN
        generation[o] = 0 =>
            (status'[o] = "RECEIVED" <=> AllReceived(o, received'[o]))

CommittedStatusCurrent == [][day = 1 => CommitsTrueStatus]_vars

\* Counting numbers the receipts of a day 1, 2, 3, ... without gap or repetition:
\* of those that counted the same rows one is inserted.
NumbersGapless ==
    day = 1 => {local[r].number.seq : r \in receipts} = 1 .. Cardinality(receipts)

\* The doc's "Updates PO status to PARTIALLY_RECEIVED or RECEIVED based on
\* fulfillment", on whatever day.
StatusFollowsReceipts == [][CommitsTrueStatus]_vars
=============================================================================
