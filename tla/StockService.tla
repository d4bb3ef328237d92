---------------------------- MODULE StockService ----------------------------
(***************************************************************************)
(* StockService (src/inventory/stock/stock.service.ts): the two tables     *)
(* "stock" and "stock_ledger" and the calls that move stock.  Every call   *)
(* is a sequence of awaited single-statement database operations with no   *)
(* transaction around them, so other calls run between any two of its      *)
(* statements and the process may die or a statement may fail at any of    *)
(* them.  A row is named by its <<warehouse, product>> pair, the table's   *)
(* unique key; organisations do not share rows and are left out.           *)
(***************************************************************************)
EXTENDS Integers, Sequences, FiniteSetsExt

CONSTANTS
    Warehouses,   \* the warehouses of one organisation
    Products,     \* its products
    Requests,     \* the calls made to the service, each made once
    Calls,        \* what a call may ask for
    Opening       \* the stock received before the behaviour starts, per row

Cells == Warehouses \X Products

Ops == {"reserve", "release", "increase", "decrease", "adjust", "transfer"}

Call == [op: Ops, from: Cells, to: Cells, qty: Int]

\* DTO validation: every quantity is a positive integer, except that an
\* adjustment may have any sign; a transfer names two different warehouses.
ASSUME CallsAssumption ==
    /\ Calls \subseteq Call
    /\ \A c \in Calls : c.op # "adjust" => c.qty > 0
    /\ \A c \in Calls : c.op = "transfer" => c.from # c.to

ASSUME OpeningAssumption == Opening \in [Cells -> Nat]

\* At any moment the service has been called a finite number of times.
ASSUME RequestsAssumption == IsFiniteSet(Requests)

VARIABLES
    exists,       \* has the stock row been created?
    available,    \* stock.availableQty (0 while there is no row)
    reserved,     \* stock.reservedQty
    ledger,       \* the ledger entries of a row, in the order of their inserts
    call,         \* the arguments of each request
    pc,           \* the next statement of each request, or how it ended
    seen,         \* availableQty of the from row when the request read it
    seenTo,       \* availableQty of the to row when the request read it
    wrote,        \* availableQty of the from row that its update returned
    wroteTo,      \* availableQty of the to row that a transfer read back
    moved,        \* history: the rows ("from", "to") the request has updated
    posted,       \* history: the rows it has written a ledger entry for
    serial        \* TRUE: the callers start a call only when no other is
                  \* outstanding; fixed at the start of a behaviour

tables == <<exists, available, reserved, ledger>>
locals == <<call, seen, seenTo, wrote, wroteTo>>
vars == <<exists, available, reserved, ledger, call, pc,
          seen, seenTo, wrote, wroteTo, moved, posted, serial>>

Sides == {"from", "to"}

Types == {"PURCHASE", "SALE", "TRANSFER_IN", "TRANSFER_OUT", "ADJUSTMENT",
          "RESERVATION", "RELEASE"}

\* An entry's quantity is positive where goods become available and negative
\* where they cease to be; an adjustment may be either.
Entry == {e \in [type: Types, qty: Int, prev: Int, new: Int] :
              /\ e.type \in {"PURCHASE", "TRANSFER_IN", "RELEASE"} => e.qty > 0
              /\ e.type \in {"SALE", "TRANSFER_OUT", "RESERVATION"} => e.qty < 0}

InFlightPC == {"find", "create", "findTo", "createTo", "update",
               "increment", "decrement", "reread", "ledger", "ledgerTo"}
TransferPC == {"increment", "decrement", "reread", "ledgerTo"}
SettledPC == {"done", "rejected", "failed"}

NoCall == [op |-> "none"]

TypeOK ==
    /\ exists \in [Cells -> BOOLEAN]
    /\ available \in [Cells -> Int]
    /\ reserved \in [Cells -> Int]
    /\ ledger \in [Cells -> Seq(Entry)]
    /\ pc \in [Requests -> {"idle"} \cup InFlightPC \cup SettledPC]
    /\ call \in [Requests -> Calls \cup {NoCall}]
    /\ \A r \in Requests : pc[r] # "idle" => call[r] \in Calls
    /\ \A r \in Requests : pc[r] \in TransferPC => call[r].op = "transfer"
    /\ seen \in [Requests -> Int]
    /\ seenTo \in [Requests -> Int]
    /\ wrote \in [Requests -> Int]
    /\ wroteTo \in [Requests -> Int]
    /\ moved \in [Requests -> SUBSET Sides]
    /\ posted \in [Requests -> SUBSET Sides]
    /\ serial \in BOOLEAN

-----------------------------------------------------------------------------
(* What a call does to the row, and the entry it leaves in the ledger.     *)

\* The signed quantity of the ledger entry, which is also the change of
\* availableQty that the update asks for.
Signed(c) == IF c.op \in {"reserve", "decrease", "transfer"} THEN -c.qty ELSE c.qty

ReservedChange(c) ==
    IF c.op = "reserve" THEN c.qty ELSE IF c.op = "release" THEN -c.qty ELSE 0

\* Mutant: every update writes a sum computed from the earlier read.
WriteFromSnapshot(c, current, read) == read + Signed(c)

\* The update of availableQty: an atomic increment or decrement, except that
\* adjust writes the sum it computed from its own earlier read.
NewAvailable(c, current, read) ==
    IF c.op = "adjust" THEN read + c.qty ELSE current + Signed(c)

\* Mutant: a release is not checked against what is reserved.
ReleaseUnchecked(c, avail, res) ==
    /\ c.op \in {"reserve", "decrease", "transfer"} => avail >= c.qty
    /\ c.op = "adjust" => avail + c.qty >= 0

\* The check made on the row as it was read.
Allowed(c, avail, res) ==
    /\ c.op \in {"reserve", "decrease", "transfer"} => avail >= c.qty
    /\ c.op = "release" => res >= c.qty
    /\ c.op = "adjust" => avail + c.qty >= 0

EntryType == [reserve |-> "RESERVATION", release |-> "RELEASE", increase |-> "PURCHASE",
              decrease |-> "SALE", adjust |-> "ADJUSTMENT", transfer |-> "TRANSFER_OUT"]

InFlight(r) == pc[r] \in InFlightPC

-----------------------------------------------------------------------------
\* Rows with opening stock exist and have the ledger entry of their receipt.
Init ==
    /\ exists = [c \in Cells |-> Opening[c] > 0]
    /\ available = Opening
    /\ reserved = [c \in Cells |-> 0]
    /\ ledger = [c \in Cells |->
           IF Opening[c] > 0
           THEN <<[type |-> "PURCHASE", qty |-> Opening[c], prev |-> 0, new |-> Opening[c]]>>
           ELSE <<>>]
    /\ call = [r \in Requests |-> NoCall]
    /\ pc = [r \in Requests |-> "idle"]
    /\ seen = [r \in Requests |-> 0]
    /\ seenTo = [r \in Requests |-> 0]
    /\ wrote = [r \in Requests |-> 0]
    /\ wroteTo = [r \in Requests |-> 0]
    /\ moved = [r \in Requests |-> {}]
    /\ posted = [r \in Requests |-> {}]
    /\ serial \in BOOLEAN

Goto(r, label) == pc' = [pc EXCEPT ![r] = label]

\* The controller (or another service) calls the operation.
Begin(r, c) ==
    /\ pc[r] = "idle"
    /\ serial => \A s \in Requests : ~InFlight(s)
    /\ call' = [call EXCEPT ![r] = c]
    /\ Goto(r, "find")
    /\ UNCHANGED <<tables, seen, seenTo, wrote, wroteTo, moved, posted>>

\* What follows the row's read with no await in between: a transfer goes on to
\* the destination row, any other call makes its check and updates or throws.
AfterRow(r, avail, res) ==
    /\ seen' = [seen EXCEPT ![r] = avail]
    /\ Goto(r, IF call[r].op = "transfer" THEN "findTo"
               ELSE IF Allowed(call[r], avail, res) THEN "update"
               ELSE "rejected")

\* Mutant: the destination is checked as if it were the source.
CheckDestination(r, avail) ==
    /\ seenTo' = [seenTo EXCEPT ![r] = avail]
    /\ Goto(r, IF Allowed(call[r], avail, 0) THEN "update" ELSE "rejected")

AfterRowTo(r, avail) ==
    /\ seenTo' = [seenTo EXCEPT ![r] = avail]
    /\ Goto(r, IF Allowed(call[r], seen[r], 0) THEN "update" ELSE "rejected")

\* getOrCreateStock, the findFirst.
Find(r) ==
    /\ pc[r] = "find"
    /\ LET c == call[r].from IN
       \/ exists[c] /\ AfterRow(r, available[c], reserved[c])
       \/ ~exists[c] /\ Goto(r, "create") /\ UNCHANGED seen
    /\ UNCHANGED <<tables, call, seenTo, wrote, wroteTo, moved, posted>>

\* getOrCreateStock, the create: it throws on the unique key when another
\* call has created the row since this one looked.
Create(r) ==
    /\ pc[r] = "create"
    /\ LET c == call[r].from IN
       \/ exists[c] /\ Goto(r, "failed") /\ UNCHANGED <<tables, seen>>
       \/ /\ ~exists[c]
          /\ exists' = [exists EXCEPT ![c] = TRUE]
          /\ available' = [available EXCEPT ![c] = 0]
          /\ reserved' = [reserved EXCEPT ![c] = 0]
          /\ AfterRow(r, 0, 0)
          /\ UNCHANGED ledger
    /\ UNCHANGED <<call, seenTo, wrote, wroteTo, moved, posted>>

\* The same two statements for the destination of a transfer.
FindTo(r) ==
    /\ pc[r] = "findTo"
    /\ LET c == call[r].to IN
       \/ exists[c] /\ AfterRowTo(r, available[c])
       \/ ~exists[c] /\ Goto(r, "createTo") /\ UNCHANGED seenTo
    /\ UNCHANGED <<tables, call, seen, wrote, wroteTo, moved, posted>>

CreateTo(r) ==
    /\ pc[r] = "createTo"
    /\ LET c == call[r].to IN
       \/ exists[c] /\ Goto(r, "failed") /\ UNCHANGED <<tables, seenTo>>
       \/ /\ ~exists[c]
          /\ exists' = [exists EXCEPT ![c] = TRUE]
          /\ available' = [available EXCEPT ![c] = 0]
          /\ reserved' = [reserved EXCEPT ![c] = 0]
          /\ AfterRowTo(r, 0)
          /\ UNCHANGED ledger
    /\ UNCHANGED <<call, seen, wrote, wroteTo, moved, posted>>

\* The update of reserve, release, increase, decrease and adjust: one SQL
\* statement, which returns the row it wrote.
Update(r) ==
    /\ pc[r] = "update"
    /\ call[r].op # "transfer"
    /\ LET c == call[r].from
           n == NewAvailable(call[r], available[c], seen[r]) IN
       /\ available' = [available EXCEPT ![c] = n]
       /\ reserved' = [reserved EXCEPT ![c] = @ + ReservedChange(call[r])]
       /\ wrote' = [wrote EXCEPT ![r] = n]
    /\ moved' = [moved EXCEPT ![r] = {"from"}]
    /\ Goto(r, "ledger")
    /\ UNCHANGED <<exists, ledger, call, seen, seenTo, wroteTo, posted>>

\* transferStock's Promise.all: the two updates are sent together and reach
\* the database in either order.  Its rejection when one of them fails does
\* not take back the other (Fail below, in "increment" or "decrement").
DecrementFrom(r) ==
    /\ call[r].op = "transfer"
    /\ \/ pc[r] = "update" /\ Goto(r, "increment")
       \/ pc[r] = "decrement" /\ Goto(r, "reread")
    /\ LET c == call[r].from
           n == available[c] - call[r].qty IN
       /\ available' = [available EXCEPT ![c] = n]
       /\ wrote' = [wrote EXCEPT ![r] = n]
    /\ moved' = [moved EXCEPT ![r] = @ \cup {"from"}]
    /\ UNCHANGED <<exists, reserved, ledger, call, seen, seenTo, wroteTo, posted>>

IncrementTo(r) ==
    /\ call[r].op = "transfer"
    /\ \/ pc[r] = "update" /\ Goto(r, "decrement")
       \/ pc[r] = "increment" /\ Goto(r, "reread")
    /\ available' = [available EXCEPT ![call[r].to] = @ + call[r].qty]
    /\ moved' = [moved EXCEPT ![r] = @ \cup {"to"}]
    /\ UNCHANGED <<exists, reserved, ledger, locals, posted>>

\* The destination row is read back for the TRANSFER_IN entry.
Reread(r) ==
    /\ pc[r] = "reread"
    /\ wroteTo' = [wroteTo EXCEPT ![r] = available[call[r].to]]
    /\ Goto(r, "ledger")
    /\ UNCHANGED <<tables, call, seen, seenTo, wrote, moved, posted>>

PostedAs(r, type, qty) ==
    /\ pc[r] = "ledger"
    /\ ledger' = [ledger EXCEPT ![call[r].from] = Append(@,
           [type |-> type, qty |-> qty, prev |-> seen[r], new |-> wrote[r]])]
    /\ posted' = [posted EXCEPT ![r] = {"from"}]
    /\ Goto(r, IF call[r].op = "transfer" THEN "ledgerTo" ELSE "done")
    /\ UNCHANGED <<exists, available, reserved, locals, moved>>

\* Mutant: the entry says the quantity without its sign.
PostUnsigned(r) == PostedAs(r, EntryType[call[r].op], call[r].qty)
\* createLedgerEntry for the row the call is about.
PostLedger(r) == PostedAs(r, EntryType[call[r].op], Signed(call[r]))

PostedWith(r, row, new) ==
    /\ pc[r] = "ledgerTo"
    /\ ledger' = [ledger EXCEPT ![row] = Append(@,
           [type |-> "TRANSFER_IN", qty |-> call[r].qty,
            prev |-> seenTo[r], new |-> new])]
    /\ posted' = [posted EXCEPT ![r] = @ \cup {"to"}]
    /\ Goto(r, "done")
    /\ UNCHANGED <<exists, available, reserved, locals, moved>>

\* Mutant: the second entry of a transfer is written for the source.
PostToSource(r) == PostedWith(r, call[r].from, wroteTo[r])
\* createLedgerEntry for the destination of a transfer.
PostLedgerTo(r) == PostedWith(r, call[r].to, wroteTo[r])

\* A statement fails (lost connection, timeout, crash of the process): the
\* call throws, and nothing that it has written is taken back.
Fail(r) ==
    /\ InFlight(r)
    /\ Goto(r, "failed")
    /\ UNCHANGED <<tables, locals, moved, posted>>

Step(r) ==
    \/ Find(r) \/ Create(r) \/ FindTo(r) \/ CreateTo(r)
    \/ Update(r) \/ DecrementFrom(r) \/ IncrementTo(r) \/ Reread(r)
    \/ PostLedger(r) \/ PostLedgerTo(r) \/ Fail(r)

Next ==
    /\ \E r \in Requests : (\E c \in Calls : Begin(r, c)) \/ Step(r)
    /\ UNCHANGED serial

Spec == Init /\ [][Next]_vars

-----------------------------------------------------------------------------
(* Properties.                                                             *)

\* The rows a call has changed without having written their ledger entry.
Owed(r) == moved[r] \ posted[r]

\* No row is overdrawn, however the calls interleave: what the doc says of a
\* reservation, that it "requires sufficient stock".
NoneBelowZero == \A c \in Cells : available[c] >= 0 /\ reserved[c] >= 0

\* Of calls that do not overlap, the insufficient-stock checks of reserve,
\* release, decrease, adjust and transferStock are enough to keep both
\* quantities of every row from going below zero.
NonNegative == serial => NoneBelowZero

\* Every entry of the ledger is arithmetically right: newQty is previousQty
\* plus quantity, although the code takes the first from the row read at the
\* start of the call and the second from the row its update returned.
LedgerArithmetic ==
    \A c \in Cells : \A i \in DOMAIN ledger[c] :
        ledger[c][i].new = ledger[c][i].prev + ledger[c][i].qty

\* Read in order, the entries of a row form a chain, each one starting from
\* the quantity where the last one ended, and the chain ends in the row's
\* availableQty, as long as no call has died between its update and its entry.
LedgerChained ==
    (\A r \in Requests : Owed(r) = {}) =>
        \A c \in Cells :
            /\ \A i \in 1 .. Len(ledger[c]) - 1 :
                   ledger[c][i + 1].prev = ledger[c][i].new
            /\ ledger[c] # <<>> => ledger[c][Len(ledger[c])].new = available[c]

\* Of calls that do not overlap, the ledger of every row is right entry by
\* entry and unbroken, wherever one of them dies (createLedgerEntry).
LedgerTells == serial => LedgerArithmetic /\ LedgerChained

\* The sum over a row's ledger of the quantities of the entries of some types.
QuantitySum(entries, types) ==
    SumFunction([i \in DOMAIN entries |->
                    IF entries[i].type \in types THEN entries[i].qty ELSE 0])
LedgerSum(c, types) == QuantitySum(ledger[c], types)

\* The change that a request has made to a row and not posted to its ledger,
\* and all of those changes.
OwedTo(r, side, c, ops) ==
    IF side \notin Owed(r) \/ call[r][side] # c \/ call[r].op \notin ops THEN 0
    ELSE IF side = "from" THEN Signed(call[r]) ELSE call[r].qty

Unposted(c, ops) ==
    SumFunction([p \in Requests \X Sides |-> OwedTo(p[1], p[2], c, ops)])

\* A row's availableQty is the sum of its ledger, up to the entries that are
\* still to be written or were lost with their call: whatever the calls'
\* interleaving, no increment or decrement overwrites another.
AvailableReconciled ==
    \A c \in Cells : available[c] = LedgerSum(c, Types) + Unposted(c, Ops)

\* A row's reservedQty is what its RESERVATION entries took out of
\* availableQty less what its RELEASE entries gave back.
ReservedReconciled ==
    \A c \in Cells : reserved[c] = -LedgerSum(c, {"RESERVATION", "RELEASE"})
                                   - Unposted(c, {"reserve", "release"})

BooksAgree == AvailableReconciled /\ ReservedReconciled

NoneAdjusts == \A r \in Requests : pc[r] # "idle" => call[r].op # "adjust"

\* However the calls' statements interleave and wherever they die, both
\* quantities of a row stay what its ledger and the entries still owed say
\* (reserve, release, increase, decrease, transferStock); an adjustment, which
\* writes what it computed from its read, keeps them so when it overlaps none.
Reconciled == serial \/ NoneAdjusts => BooksAgree

\* The two updates of a transfer are one movement, which counts as made with
\* the first of them: what the other still has to do to a row.
Outstanding(r, c) ==
    IF pc[r] = "increment" /\ call[r].to = c THEN call[r].qty
    ELSE IF pc[r] = "decrement" /\ call[r].from = c THEN -call[r].qty ELSE 0

Committed ==
    [c \in Cells |-> available[c] + SumFunction([r \in Requests |-> Outstanding(r, c)])]

Made == [r \in Requests |-> IF moved[r] = {} THEN NoCall ELSE call[r]]
Atomic == INSTANCE AtomicStock WITH available <- Committed, made <- Made

\* A transfer ends between its two updates.
Torn(r) == pc[r] \in {"increment", "decrement"} /\ pc'[r] = "failed"

\* Served one at a time, the calls implement the promise of AtomicStock: each
\* makes the movement that it asks for at most once, whole, and when it is
\* allowed, a transfer takes from one row what it gives to the other, and
\* everything else a call does leaves the quantities alone.  The one step
\* that AtomicStock does not have is the failure that tears a transfer
\* (reserve, release, increase, decrease, adjust, transferStock).
AtomicSpec ==
    /\ Atomic!Init
    /\ [][serial => Atomic!Next \/ \E r \in Requests : Torn(r)]_<<Committed, reserved, Made>>

\* The doc's promise, without that exception: "Atomic decrement from source +
\* increment to destination" (docs/sprint-6-inventory.md).
TransfersAtomic ==
    Atomic!Init /\ [][serial => Atomic!Next]_<<Committed, reserved, Made>>
=============================================================================
