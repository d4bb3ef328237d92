------------------------ MODULE TransferService_proofs ------------------------
(***************************************************************************)
(* Proofs about TransferService for any transfers, warehouses, products    *)
(* and number of callers, whose calls overlap and fail anywhere.  The      *)
(* first part is about the stock movements that a completion makes, the    *)
(* second about the status of a transfer and who has written it.           *)
(***************************************************************************)
EXTENDS TransferService, FiniteSetTheorems, TLAPS

Cells == Warehouses \X Products

\* The lines of a transfer are well-formed calls of transferStock.
LEMMA LinesAreCalls ==
    ASSUME NEW t \in Transfers, NEW i \in Lines(t)
    PROVE  /\ Len(Order[t].items) \in Nat /\ Lines(t) = 1 .. Len(Order[t].items)
           /\ LineCall(t, i) \in Calls
<1>1. Order[t].items \in Seq([product: Products, qty: Nat \ {0}])
  BY OrderAssumption
<1>2. Len(Order[t].items) \in Nat /\ Lines(t) = 1 .. Len(Order[t].items)
  BY <1>1 DEF Lines
<1>3. LineCall(t, i) \in Calls
  BY DEF Calls
<1> QED
  BY <1>2, <1>3

\* Every call that is made moves a positive quantity between two rows.
LEMMA CallsMove ==
    ASSUME NEW c \in Calls
    PROVE  /\ c.op = "transfer" /\ c.from \in Cells /\ c.to \in Cells /\ c.qty \in Int /\ c.qty > 0
           /\ c.from # c.to
<1>0. PICK t \in Transfers : \E i \in Lines(t) : c = LineCall(t, i)
  BY DEF Calls
<1>1. PICK i \in Lines(t) : c = LineCall(t, i)
  BY <1>0
<1>2. Order[t].items \in Seq([product: Products, qty: Nat \ {0}]) /\ i \in DOMAIN Order[t].items
  BY <1>1, OrderAssumption DEF Lines
<1>3. Order[t].items[i] \in [product: Products, qty: Nat \ {0}]
  <2>1. PICK S : S = [product: Products, qty: Nat \ {0}]
    OBVIOUS
  <2>2. PICK s \in Seq(S) : s = Order[t].items
    BY <1>2, <2>1
  <2>3. s[i] \in S
    BY <1>2, <2>2
  <2> QED
    BY <2>1, <2>2, <2>3
<1>4. PICK p \in Products, q \in Nat \ {0} : p = Order[t].items[i].product /\ q = Order[t].items[i].qty
  BY <1>3
<1>5. /\ c.op = "transfer" /\ c.from = <<Order[t].from, p>> /\ c.to = <<Order[t].to, p>>
      /\ c.qty = q
  BY <1>1, <1>4 DEF LineCall
<1>6. Order[t].from \in Warehouses /\ Order[t].to \in Warehouses /\ Order[t].from # Order[t].to
  BY OrderAssumption
<1> QED
  BY <1>4, <1>5, <1>6 DEF Cells

-----------------------------------------------------------------------------
(* What a call of transferStock has changed and posted at each statement.  *)

StageOf(r) ==
    /\ pc[r] \in {"idle", "find", "create", "findTo", "createTo", "update", "rejected"} =>
           moved[r] = {} /\ posted[r] = {}
    /\ pc[r] = "increment" => moved[r] = {"from"} /\ posted[r] = {}
    /\ pc[r] = "decrement" => moved[r] = {"to"} /\ posted[r] = {}
    /\ pc[r] \in {"reread", "ledger"} => moved[r] = Stock!Sides /\ posted[r] = {}
    /\ pc[r] = "ledgerTo" => moved[r] = Stock!Sides /\ posted[r] = {"from"}
    /\ pc[r] = "done" => moved[r] = Stock!Sides /\ posted[r] = Stock!Sides

StockInv == Stock!TypeOK /\ \A r \in Requests : StageOf(r)

Settled == {"done", "rejected", "failed"}

\* The rows and what a call has read of them: their types.
RowsTyped ==
    /\ exists \in [Cells -> BOOLEAN] /\ available \in [Cells -> Int] /\ reserved \in [Cells -> Int]
    /\ ledger \in [Cells -> Seq(Stock!Entry)]
    /\ seen \in [Requests -> Int] /\ seenTo \in [Requests -> Int]
    /\ wrote \in [Requests -> Int] /\ wroteTo \in [Requests -> Int]

\* A statement keeps the types of the rows, ...
LEMMA StatementKeepsRows ==
    ASSUME Stock!TypeOK, NEW r \in Requests, Stock!Step(r)
    PROVE  RowsTyped' /\ call' = call /\ call[r] \in Calls /\ pc[r] \in Stock!InFlightPC
<1>1. /\ RowsTyped
      /\ pc \in [Requests -> {"idle"} \cup Stock!InFlightPC \cup Stock!SettledPC]
  BY DEF Stock!TypeOK, RowsTyped, Cells, Stock!Cells
<1>2. pc[r] \in Stock!InFlightPC /\ call' = call
  BY DEF Stock!Step, Stock!Find, Stock!Create, Stock!FindTo, Stock!CreateTo, Stock!Update,
     Stock!DecrementFrom, Stock!IncrementTo, Stock!Reread, Stock!PostLedger, Stock!PostedAs, Stock!PostLedgerTo,
     Stock!PostedWith, Stock!Fail, Stock!InFlight, Stock!InFlightPC, Stock!locals
<1>3. call[r] \in Calls
  BY <1>2 DEF Stock!TypeOK, Stock!InFlightPC
<1>4. PICK f \in Cells, g \in Cells, q \in Int :
         f = call[r].from /\ g = call[r].to /\ q = call[r].qty /\ call[r].op = "transfer"
  BY <1>3, CallsMove
<1>5. CASE Stock!Find(r) \/ Stock!FindTo(r) \/ Stock!Reread(r) \/ Stock!Fail(r)
  BY SMTT(60), <1>1, <1>2, <1>3, <1>4, <1>5 DEF Stock!Find, Stock!AfterRow, Stock!FindTo, Stock!AfterRowTo,
     Stock!Reread, Stock!Fail, RowsTyped, Stock!tables, Stock!locals
<1>6. CASE Stock!Create(r) \/ Stock!CreateTo(r)
  <2>1. /\ UNCHANGED <<ledger, wrote, wroteTo>>
        /\ seen' = seen \/ seen' = [seen EXCEPT ![r] = 0]
        /\ seenTo' = seenTo \/ seenTo' = [seenTo EXCEPT ![r] = 0]
        /\ \/ UNCHANGED <<exists, available, reserved>>
           \/ \E c \in {f, g} : /\ exists' = [exists EXCEPT ![c] = TRUE]
                                /\ available' = [available EXCEPT ![c] = 0]
                                /\ reserved' = [reserved EXCEPT ![c] = 0]
    BY <1>4, <1>6 DEF Stock!Create, Stock!CreateTo, Stock!AfterRow, Stock!AfterRowTo, Stock!tables
  <2>2. seen' \in [Requests -> Int] /\ seenTo' \in [Requests -> Int]
    BY SMTT(60), <1>1, <2>1 DEF RowsTyped
  <2>3. /\ exists' \in [Cells -> BOOLEAN] /\ available' \in [Cells -> Int]
        /\ reserved' \in [Cells -> Int]
    <3>1. ASSUME NEW c \in Cells,
                 exists' = [exists EXCEPT ![c] = TRUE], available' = [available EXCEPT ![c] = 0],
                 reserved' = [reserved EXCEPT ![c] = 0]
          PROVE  /\ exists' \in [Cells -> BOOLEAN] /\ available' \in [Cells -> Int]
                 /\ reserved' \in [Cells -> Int]
      BY SMTT(60), <1>1, <3>1 DEF RowsTyped
    <3>2. CASE UNCHANGED <<exists, available, reserved>>
      BY <1>1, <3>2 DEF RowsTyped
    <3> QED
      BY <2>1, <3>1, <3>2
  <2> QED
    BY <1>1, <1>2, <1>3, <2>1, <2>2, <2>3 DEF RowsTyped
<1>7. CASE Stock!DecrementFrom(r) \/ Stock!IncrementTo(r)
  <2>1. /\ UNCHANGED <<exists, reserved, ledger, seen, seenTo, wroteTo>>
        /\ \/ /\ available' = [available EXCEPT ![f] = available[f] - q]
              /\ wrote' = [wrote EXCEPT ![r] = available[f] - q]
           \/ available' = [available EXCEPT ![g] = available[g] + q] /\ UNCHANGED wrote
    BY <1>1, <1>4, <1>7 DEF Stock!DecrementFrom, Stock!IncrementTo, Stock!locals, RowsTyped
  <2>2. available[f] - q \in Int /\ available[g] + q \in Int
    BY <1>1 DEF RowsTyped
  <2> QED
    BY <1>1, <1>2, <1>3, <2>1, <2>2 DEF RowsTyped
<1>8. CASE Stock!PostLedger(r)
  <2>1. /\ Stock!EntryType[call[r].op] = "TRANSFER_OUT" /\ "TRANSFER_OUT" \in Stock!Types
        /\ Stock!Signed(call[r]) = -q /\ q > 0
    BY <1>3, <1>4, CallsMove DEF Stock!EntryType, Stock!Types, Stock!Signed
  <2> DEFINE e == [type |-> "TRANSFER_OUT", qty |-> -q, prev |-> seen[r], new |-> wrote[r]]
  <2>2. e \in Stock!Entry
    BY <1>1, <2>1 DEF Stock!Entry, RowsTyped
  <2>4. ledger' = [ledger EXCEPT ![f] = Append(@, e)]
    BY <1>4, <1>8, <2>1 DEF Stock!PostLedger, Stock!PostedAs
  <2>3. ledger' \in [Cells -> Seq(Stock!Entry)]
    BY <1>1, <2>2, <2>4 DEF RowsTyped
  <2> QED
    BY <1>1, <1>2, <1>3, <1>8, <2>3 DEF Stock!PostLedger, Stock!PostedAs, RowsTyped, Stock!locals
<1>9. CASE Stock!PostLedgerTo(r)
  <2>1. "TRANSFER_IN" \in Stock!Types /\ q > 0
    BY <1>3, <1>4, CallsMove DEF Stock!Types
  <2>2. PICK e \in Stock!Entry : ledger' = [ledger EXCEPT ![g] = Append(@, e)]
    BY <1>1, <1>4, <1>9, <2>1 DEF Stock!PostLedgerTo, Stock!PostedWith, Stock!Entry, RowsTyped
  <2>3. ledger' \in [Cells -> Seq(Stock!Entry)]
    BY <1>1, <2>2 DEF RowsTyped
  <2> QED
    BY <1>1, <1>2, <1>3, <1>9, <2>3 DEF Stock!PostLedgerTo, Stock!PostedWith, RowsTyped, Stock!locals
<1>10. ~Stock!Update(r)
  BY <1>4 DEF Stock!Update
<1> QED
  BY <1>2, <1>3, <1>5, <1>6, <1>7, <1>8, <1>9, <1>10 DEF Stock!Step

\* ... and takes its call to its next stage.
LEMMA StatementStages ==
    ASSUME StockInv, NEW r \in Requests, Stock!Step(r)
    PROVE  /\ StockInv' /\ call' = call /\ pc[r] \in Stock!InFlightPC
           /\ pc'[r] \in Stock!InFlightPC \cup Settled
           /\ \A s \in Requests \ {r} : pc'[s] = pc[s] /\ moved'[s] = moved[s] /\ posted'[s] = posted[s]
<1>1. /\ pc \in [Requests -> {"idle"} \cup Stock!InFlightPC \cup Stock!SettledPC]
      /\ moved \in [Requests -> SUBSET Stock!Sides] /\ posted \in [Requests -> SUBSET Stock!Sides]
      /\ StageOf(r) /\ Stock!TypeOK
      /\ call \in [Requests -> Calls \cup {Stock!NoCall}]
      /\ \A s \in Requests : pc[s] # "idle" => call[s] \in Calls
  BY DEF StockInv, Stock!TypeOK
<1>2. /\ RowsTyped' /\ call' = call /\ pc[r] \in Stock!InFlightPC
      /\ call[r].op = "transfer" /\ call[r] \in Calls
  BY <1>1, StatementKeepsRows, CallsMove
<1> DEFINE Moved == moved' \in [Requests -> SUBSET Stock!Sides]
                    /\ \A s \in Requests \ {r} : moved'[s] = moved[s]
           Posted == posted' \in [Requests -> SUBSET Stock!Sides]
                     /\ \A s \in Requests \ {r} : posted'[s] = posted[s]
           At(l) == pc' = [pc EXCEPT ![r] = l]
<1>3. Moved /\ Posted /\ StageOf(r)' /\ \E l \in Stock!InFlightPC \cup Settled : At(l)
  <2> USE DEF Stock!Goto, Stock!Sides, Stock!InFlightPC, Settled
  <2>0. (UNCHANGED moved => Moved) /\ (UNCHANGED posted => Posted)
    BY <1>1
  <2>a. \A l : At(l) => pc'[r] = l
    BY <1>1
  <2>1. CASE Stock!Find(r) \/ Stock!Create(r) \/ Stock!FindTo(r) \/ Stock!CreateTo(r)
    <3>1. moved[r] = {} /\ posted[r] = {} /\ UNCHANGED <<moved, posted>>
      BY <1>1, <2>1 DEF Stock!Find, Stock!Create, Stock!FindTo, Stock!CreateTo, StageOf
    <3>2. \E l \in {"create", "findTo", "createTo", "update", "rejected", "failed"} :
             pc' = [pc EXCEPT ![r] = l]
      BY <1>2, <2>1 DEF Stock!Find, Stock!Create, Stock!FindTo, Stock!CreateTo,
         Stock!AfterRow, Stock!AfterRowTo
    <3> QED
      BY <1>1, <2>0, <2>a, <3>1, <3>2 DEF StageOf
  <2>2. CASE Stock!DecrementFrom(r)
    <3>1. posted[r] = {} /\ UNCHANGED posted
          /\ moved' = [moved EXCEPT ![r] = moved[r] \cup {"from"}]
      BY <1>1, <2>2 DEF Stock!DecrementFrom, StageOf, Stock!locals
    <3>2. \/ pc' = [pc EXCEPT ![r] = "increment"] /\ moved[r] = {}
          \/ pc' = [pc EXCEPT ![r] = "reread"] /\ moved[r] = {"to"}
      BY <1>1, <2>2 DEF Stock!DecrementFrom, StageOf
    <3>3. {} \cup {"from"} = {"from"} /\ {"to"} \cup {"from"} = Stock!Sides
      OBVIOUS
    <3> QED
      BY <1>1, <2>0, <2>a, <3>1, <3>2, <3>3 DEF StageOf
  <2>3. CASE Stock!IncrementTo(r)
    <3>1. posted[r] = {} /\ UNCHANGED posted
          /\ moved' = [moved EXCEPT ![r] = moved[r] \cup {"to"}]
      BY <1>1, <2>3 DEF Stock!IncrementTo, StageOf, Stock!locals
    <3>2. \/ pc' = [pc EXCEPT ![r] = "decrement"] /\ moved[r] = {}
          \/ pc' = [pc EXCEPT ![r] = "reread"] /\ moved[r] = {"from"}
      BY <1>1, <2>3 DEF Stock!IncrementTo, StageOf
    <3>3. {} \cup {"to"} = {"to"} /\ {"from"} \cup {"to"} = Stock!Sides
      OBVIOUS
    <3> QED
      BY <1>1, <2>0, <2>a, <3>1, <3>2, <3>3 DEF StageOf
  <2>4. CASE Stock!Reread(r)
    <3>1. /\ moved[r] = Stock!Sides /\ posted[r] = {} /\ UNCHANGED <<moved, posted>>
          /\ pc' = [pc EXCEPT ![r] = "ledger"]
      BY <1>1, <2>4 DEF Stock!Reread, StageOf
    <3> QED
      BY <1>1, <2>0, <2>a, <3>1 DEF StageOf
  <2>5. CASE Stock!PostLedger(r)
    <3>1. /\ moved[r] = Stock!Sides /\ UNCHANGED moved
          /\ posted' = [posted EXCEPT ![r] = {"from"}]
          /\ pc' = [pc EXCEPT ![r] = "ledgerTo"]
      BY <1>1, <1>2, <2>5 DEF Stock!PostLedger, Stock!PostedAs, StageOf
    <3> QED
      BY <1>1, <2>0, <2>a, <3>1 DEF StageOf
  <2>6. CASE Stock!PostLedgerTo(r)
    <3>1. /\ moved[r] = Stock!Sides /\ UNCHANGED moved /\ posted[r] = {"from"}
          /\ posted' = [posted EXCEPT ![r] = posted[r] \cup {"to"}]
          /\ pc' = [pc EXCEPT ![r] = "done"]
      BY <1>1, <1>2, <2>6 DEF Stock!PostLedgerTo, Stock!PostedWith, StageOf
    <3>2. {"from"} \cup {"to"} = Stock!Sides
      OBVIOUS
    <3> QED
      BY <1>1, <2>0, <2>a, <3>1, <3>2 DEF StageOf
  <2>7. CASE Stock!Fail(r)
    <3>1. UNCHANGED <<moved, posted>> /\ pc' = [pc EXCEPT ![r] = "failed"]
          /\ moved[r] \in SUBSET Stock!Sides /\ posted[r] \in SUBSET Stock!Sides
      BY <1>1, <2>7 DEF Stock!Fail
    <3> QED
      BY <1>1, <2>0, <2>a, <3>1 DEF StageOf
  <2>8. ~Stock!Update(r)
    BY <1>2 DEF Stock!Update
  <2> QED
    BY <2>1, <2>2, <2>3, <2>4, <2>5, <2>6, <2>7, <2>8 DEF Stock!Step
<1>5. /\ \A s \in Requests \ {r} : pc'[s] = pc[s] /\ moved'[s] = moved[s] /\ posted'[s] = posted[s]
      /\ pc' \in [Requests -> {"idle"} \cup Stock!InFlightPC \cup Stock!SettledPC]
      /\ moved' \in [Requests -> SUBSET Stock!Sides] /\ posted' \in [Requests -> SUBSET Stock!Sides]
      /\ pc'[r] \in Stock!InFlightPC \cup Settled
  BY <1>1, <1>3 DEF Settled, Stock!SettledPC, Stock!InFlightPC
<1>6. Stock!TypeOK'
  BY <1>1, <1>2, <1>5 DEF Stock!TypeOK, RowsTyped, Cells, Stock!Cells
<1>8. \A s \in Requests \ {r} : StageOf(s)'
  BY <1>5 DEF StageOf, StockInv
<1> QED
  BY <1>2, <1>3, <1>5, <1>6, <1>8 DEF StockInv

-----------------------------------------------------------------------------
(* What a caller has done, and the movements it has made.                   *)

Job == [op: DOMAIN WritePC, transfer: Transfers]
Size(h) == Len(Order[job[h].transfer].items)
Completing(h, t) == job[h] = [op |-> "complete", transfer |-> t]
Approved(t) == \E g \in Callers : hpc[g] = "done" /\ job[g] = [op |-> "approve", transfer |-> t]

\* A caller at each of its statements, ...
Caller(h) ==
    /\ hpc[h] = "idle" => job[h] = NoJob /\ item[h] = 1
    /\ hpc[h] # "idle" => job[h] \in Job /\ item[h] \in 1 .. Size(h) + 1
    /\ hpc[h] = "approving" => job[h].op = "approve"
    /\ hpc[h] = "cancelling" => job[h].op = "cancel"
    /\ hpc[h] \in {"items", "moving"} => job[h].op = "complete"
    /\ hpc[h] = "moving" => item[h] \in 1 .. Size(h)
    /\ hpc[h] = "done" /\ job[h].op = "complete" => item[h] = Size(h) + 1

\* ... and the calls of transferStock that it has made: one after the other,
\* each after the one before has returned.
Moving(h) ==
    \A i \in Nat : <<h, i>> \in Requests =>
        /\ pc[<<h, i>>] # "idle" => job[h].op = "complete" /\ i \in 1 .. Size(h)
        /\ i < item[h] => pc[<<h, i>>] = "done"
        /\ i > item[h] => pc[<<h, i>>] = "idle"
        /\ i = item[h] /\ hpc[h] \notin {"moving", "failed"} => pc[<<h, i>>] = "idle"
        /\ pc[<<h, i>>] \in Stock!InFlightPC => hpc[h] = "moving"

CallerInv ==
    /\ StockInv
    /\ status \in [Transfers -> Status] /\ overlapped \in BOOLEAN
    /\ hpc \in [Callers -> {"idle", "done", "failed"} \cup Running]
    /\ job \in [Callers -> {NoJob} \cup Job] /\ item \in [Callers -> Nat]
    /\ \A h \in Callers : Caller(h) /\ Moving(h)

\* A call of transferStock is a caller's, for one of its lines.
LEMMA RequestsArePairs ==
    /\ \A r \in Requests : \E h \in Callers, i \in Nat : r = <<h, i>>
    /\ \A h, i : <<h, i>> \in Requests => h \in Callers /\ i \in Nat /\ i >= 1
    /\ \A h \in Callers, t \in Transfers : \A i \in Lines(t) : <<h, i>> \in Requests
    /\ \A t \in Transfers : Len(Order[t].items) \in Nat /\ Lines(t) = 1 .. Len(Order[t].items)
<1>1. \A t \in Transfers : Len(Order[t].items) \in Nat /\ Lines(t) = 1 .. Len(Order[t].items)
  <2> SUFFICES ASSUME NEW t \in Transfers
               PROVE  Len(Order[t].items) \in Nat /\ Lines(t) = 1 .. Len(Order[t].items)
    OBVIOUS
  <2>1. PICK S : S = [product: Products, qty: Nat \ {0}] /\ Order[t].items \in Seq(S)
    BY OrderAssumption
  <2> QED
    BY <2>1 DEF Lines
<1>2. ASSUME NEW r \in Requests
      PROVE  \E h \in Callers, i \in Nat : r = <<h, i>> /\ i >= 1
  <2>1. PICK h \in Callers, i \in UNION {Lines(t) : t \in Transfers} : r = <<h, i>>
    BY DEF Requests
  <2>2. i \in Nat /\ i >= 1
    BY <1>1
  <2> QED
    BY <2>1, <2>2
<1>3. \A h, i : <<h, i>> \in Requests => h \in Callers /\ i \in Nat /\ i >= 1
  BY <1>2
<1>4. \A h \in Callers, t \in Transfers : \A i \in Lines(t) : <<h, i>> \in Requests
  BY DEF Requests
<1> QED
  BY <1>1, <1>2, <1>3, <1>4

\* A call of transferStock begins.
LEMMA BeginStages ==
    ASSUME StockInv, NEW r \in Requests, NEW c \in Calls, Stock!Begin(r, c)
    PROVE  /\ StockInv' /\ pc[r] = "idle" /\ pc'[r] = "find"
           /\ \A s \in Requests \ {r} : pc'[s] = pc[s]
           /\ UNCHANGED <<moved, posted>>
<1>1. /\ Stock!TypeOK /\ pc[r] = "idle" /\ call' = [call EXCEPT ![r] = c]
      /\ pc' = [pc EXCEPT ![r] = "find"]
      /\ UNCHANGED <<exists, available, reserved, ledger, seen, seenTo, wrote, wroteTo, moved, posted>>
  BY DEF StockInv, Stock!Begin, Stock!Goto, Stock!tables
<1>2. /\ pc \in [Requests -> {"idle"} \cup Stock!InFlightPC \cup Stock!SettledPC]
      /\ call \in [Requests -> Calls \cup {Stock!NoCall}]
  BY <1>1 DEF Stock!TypeOK
<1>3. /\ pc' \in [Requests -> {"idle"} \cup Stock!InFlightPC \cup Stock!SettledPC]
      /\ call' \in [Requests -> Calls \cup {Stock!NoCall}]
      /\ pc'[r] = "find" /\ call'[r] = c
      /\ \A s \in Requests \ {r} : pc'[s] = pc[s] /\ call'[s] = call[s]
  BY <1>1, <1>2 DEF Stock!InFlightPC
<1>4. Stock!TypeOK'
  BY <1>1, <1>3 DEF Stock!TypeOK, Stock!TransferPC
<1>5. \A s \in Requests : StageOf(s)'
  BY <1>1, <1>3 DEF StageOf, StockInv
<1> QED
  BY <1>1, <1>3, <1>4, <1>5 DEF StockInv

\* Who does nothing stays as it is.
LEMMA CallersStay ==
    ASSUME NEW g, Caller(g), Moving(g),
           hpc'[g] = hpc[g], job'[g] = job[g], item'[g] = item[g],
           \A i \in Nat : <<g, i>> \in Requests => pc'[<<g, i>>] = pc[<<g, i>>]
    PROVE  Caller(g)' /\ Moving(g)'
BY DEF Caller, Moving, Size

\* A step that leaves the stock service alone keeps its invariant.
LEMMA StockStays == StockInv /\ UNCHANGED stockVars => StockInv'
BY DEF stockVars, StockInv, StageOf, Stock!TypeOK

\* A step of a caller keeps what it has done.
LEMMA CallerStep ==
    ASSUME CallerInv, NEW h \in Callers, StockInv',
           status' \in [Transfers -> Status], overlapped' \in BOOLEAN,
           \E l \in {"idle", "done", "failed"} \cup Running : hpc' = [hpc EXCEPT ![h] = l],
           \E j \in {NoJob} \cup Job : job' = [job EXCEPT ![h] = j],
           \E i \in Nat : item' = [item EXCEPT ![h] = i],
           \A g \in Callers \ {h}, i \in Nat : <<g, i>> \in Requests =>
               pc'[<<g, i>>] = pc[<<g, i>>],
           Caller(h)', Moving(h)'
    PROVE  CallerInv'
<1>1. /\ hpc' \in [Callers -> {"idle", "done", "failed"} \cup Running]
      /\ job' \in [Callers -> {NoJob} \cup Job] /\ item' \in [Callers -> Nat]
      /\ \A g \in Callers \ {h} : hpc'[g] = hpc[g] /\ job'[g] = job[g] /\ item'[g] = item[g]
  BY DEF CallerInv
<1>2. ASSUME NEW g \in Callers \ {h} PROVE Caller(g)' /\ Moving(g)'
  BY <1>1, CallersStay DEF CallerInv
<1> QED
  BY <1>1, <1>2 DEF CallerInv

\* What a caller keeps, as a change of its own value.
LEMMA KeptByCaller ==
    ASSUME CallerInv, NEW h \in Callers
    PROVE  /\ job[h] \in {NoJob} \cup Job /\ job = [job EXCEPT ![h] = job[h]]
           /\ item[h] \in Nat /\ item = [item EXCEPT ![h] = item[h]]
BY DEF CallerInv

\* At the start nobody has called.
LEMMA InitIsCalled == Init => CallerInv
<1> SUFFICES ASSUME Init PROVE CallerInv
  OBVIOUS
<1>1. Stock!Init /\ status = [t \in Transfers |-> "NONE"] /\ job = [h \in Callers |-> NoJob]
      /\ hpc = [h \in Callers |-> "idle"] /\ item = [h \in Callers |-> 1] /\ overlapped = FALSE
  BY DEF Init
<1>2. /\ pc = [r \in Requests |-> "idle"] /\ moved = [r \in Requests |-> {}]
      /\ posted = [r \in Requests |-> {}] /\ call = [r \in Requests |-> Stock!NoCall]
  BY <1>1 DEF Stock!Init
<1>3. Stock!TypeOK
  <2>1. /\ exists \in [Cells -> BOOLEAN] /\ available \in [Cells -> Int]
        /\ reserved \in [Cells -> Int]
    BY <1>1, OpeningAssumption DEF Stock!Init, Cells, Stock!Cells
  <2>2. ledger \in [Cells -> Seq(Stock!Entry)]
    <3>1. ASSUME NEW c \in Cells, Opening[c] > 0
          PROVE  <<[type |-> "PURCHASE", qty |-> Opening[c], prev |-> 0, new |-> Opening[c]]>>
                     \in Seq(Stock!Entry)
      <4>1. Opening[c] \in Int /\ "PURCHASE" \in Stock!Types
        BY OpeningAssumption DEF Cells, Stock!Types
      <4>2. [type |-> "PURCHASE", qty |-> Opening[c], prev |-> 0, new |-> Opening[c]] \in Stock!Entry
        BY <3>1, <4>1 DEF Stock!Entry
      <4> QED
        BY <4>2
    <3>2. <<>> \in Seq(Stock!Entry)
      OBVIOUS
    <3>3. ledger = [c \in Cells |->
             IF Opening[c] > 0
             THEN <<[type |-> "PURCHASE", qty |-> Opening[c], prev |-> 0, new |-> Opening[c]]>>
             ELSE <<>>]
      BY <1>1 DEF Stock!Init, Cells, Stock!Cells
    <3> QED
      BY <3>1, <3>2, <3>3
  <2>3. /\ pc \in [Requests -> {"idle"} \cup Stock!InFlightPC \cup Stock!SettledPC]
        /\ call \in [Requests -> Calls \cup {Stock!NoCall}]
        /\ \A r \in Requests : pc[r] = "idle"
        /\ moved \in [Requests -> SUBSET Stock!Sides] /\ posted \in [Requests -> SUBSET Stock!Sides]
    BY <1>2
  <2>4. /\ seen \in [Requests -> Int] /\ seenTo \in [Requests -> Int]
        /\ wrote \in [Requests -> Int] /\ wroteTo \in [Requests -> Int]
    BY <1>1 DEF Stock!Init
  <2> QED
    BY <2>1, <2>2, <2>3, <2>4 DEF Stock!TypeOK, Stock!TransferPC, Cells, Stock!Cells
<1>4. StockInv
  BY <1>2, <1>3 DEF StockInv, StageOf
<1>5. /\ status \in [Transfers -> Status] /\ overlapped \in BOOLEAN
      /\ hpc \in [Callers -> {"idle", "done", "failed"} \cup Running]
      /\ job \in [Callers -> {NoJob} \cup Job] /\ item \in [Callers -> Nat]
  BY <1>1 DEF Status
<1>6. ASSUME NEW h \in Callers PROVE Caller(h) /\ Moving(h)
  <2>1. \A i \in Nat : <<h, i>> \in Requests => ~(i < 1) /\ pc[<<h, i>>] = "idle"
    BY <1>2, RequestsArePairs
  <2> QED
    BY <1>1, <1>6, <2>1 DEF Caller, Moving, Stock!InFlightPC
<1> QED
  BY <1>4, <1>5, <1>6 DEF CallerInv

\* No step breaks what a caller and its movements are at.
LEMMA NextKeepsCallers == CallerInv /\ [Next]_vars => CallerInv'
<1> SUFFICES ASSUME CallerInv, [Next]_vars PROVE CallerInv'
  OBVIOUS
<1>0. /\ StockInv /\ status \in [Transfers -> Status] /\ overlapped \in BOOLEAN
      /\ hpc \in [Callers -> {"idle", "done", "failed"} \cup Running]
      /\ job \in [Callers -> {NoJob} \cup Job] /\ item \in [Callers -> Nat]
      /\ \A h \in Callers : Caller(h) /\ Moving(h)
  BY DEF CallerInv
<1>1. ASSUME UNCHANGED <<stockVars, job, hpc, item, overlapped>>, status' \in [Transfers -> Status]
      PROVE  CallerInv'
  <2>1. StockInv' /\ UNCHANGED <<pc, job, hpc, item, overlapped>>
    BY <1>0, <1>1, StockStays DEF stockVars
  <2>2. \A h \in Callers : Caller(h)' /\ Moving(h)'
    BY <1>0, <2>1, CallersStay
  <2> QED
    BY <1>0, <1>1, <2>1, <2>2 DEF CallerInv
<1>2. ASSUME NEW t \in Transfers, Create(t) PROVE CallerInv'
  BY <1>0, <1>1, <1>2 DEF Create, Status
<1>3. ASSUME NEW h \in Callers, NEW op \in DOMAIN WritePC, NEW t \in Transfers, Read(h, op, t)
      PROVE  CallerInv'
  <2> DEFINE j == [op |-> op, transfer |-> t]
  <2>1. /\ hpc[h] = "idle" /\ hpc' = [hpc EXCEPT ![h] = WritePC[op]]
        /\ job' = [job EXCEPT ![h] = j] /\ j \in Job
        /\ UNCHANGED <<stockVars, status, item>> /\ overlapped' \in BOOLEAN
    BY <1>0, <1>3 DEF Read, Goto, Job
  <2>2. op \in {"approve", "complete", "cancel"} /\ WritePC[op] \in Running
        /\ (WritePC[op] = "approving" => op = "approve")
        /\ (WritePC[op] = "cancelling" => op = "cancel")
        /\ (WritePC[op] \in {"items", "moving"} => op = "complete")
        /\ WritePC[op] \notin {"idle", "done", "moving", "failed"}
    BY DEF WritePC, Running
  <2>3. StockInv' /\ UNCHANGED pc /\ UNCHANGED item
    BY <1>0, <2>1, StockStays DEF stockVars
  <2>4. /\ Caller(h) /\ Moving(h) /\ item[h] = 1 /\ job[h] = NoJob
        /\ hpc'[h] = WritePC[op] /\ job'[h] = j /\ item'[h] = 1
    BY <1>0, <2>1, <2>3 DEF Caller
  <2>5. Len(Order[t].items) \in Nat
    BY RequestsArePairs
  <2>6. Caller(h)'
    BY <2>1, <2>2, <2>4, <2>5 DEF Caller, Size
  <2>7. \A i \in Nat : <<h, i>> \in Requests => pc[<<h, i>>] = "idle"
    <3>1. ASSUME NEW i \in Nat, <<h, i>> \in Requests PROVE pc[<<h, i>>] = "idle"
      <4>1. i >= 1
        BY <3>1, RequestsArePairs
      <4> QED
        BY <2>1, <2>4, <3>1, <4>1 DEF Moving
    <3> QED
      BY <3>1
  <2>8. Moving(h)'
    <3>1. ASSUME NEW i \in Nat, <<h, i>> \in Requests PROVE ~(i < 1)
      BY <3>1, RequestsArePairs
    <3> QED
      BY <2>3, <2>4, <2>7, <3>1 DEF Moving, Stock!InFlightPC
  <2> QED
    BY <1>0, <2>1, <2>2, <2>3, <2>6, <2>8, CallerStep DEF CallerInv
<1>4. ASSUME NEW h \in Callers, Approve(h) \/ Cancel(h) \/ Complete(h) \/ Fail(h) PROVE CallerInv'
  <2>1. /\ StockInv' /\ UNCHANGED <<pc, job, item, overlapped>>
        /\ hpc[h] \in Running \ {"moving"}
        /\ \E l \in {"done", "failed"} : hpc' = [hpc EXCEPT ![h] = l]
    BY <1>0, <1>4, StockStays DEF Approve, Cancel, Complete, Fail, Goto, Running, stockVars
  <2>2. status' \in [Transfers -> Status]
    BY <1>0, <1>4 DEF Approve, Cancel, Complete, Fail, SetStatus, Status
  <2>3. Caller(h) /\ Moving(h) /\ job[h] \in Job /\ item[h] \in 1 .. Size(h) + 1
        /\ hpc[h] \notin {"idle", "done", "failed", "moving"}
    BY <1>0, <2>1 DEF Caller, Running
  <2>4. hpc'[h] \in {"done", "failed"} /\ job'[h] = job[h] /\ item'[h] = item[h]
    BY <1>0, <2>1
  <2>5. Caller(h)'
    <3>1. ASSUME hpc'[h] = "done", job[h].op = "complete" PROVE item[h] = Size(h) + 1
      <4>1. Complete(h)
        <5>1. hpc'[h] = "failed" \/ ~Fail(h)
          BY <1>0 DEF Fail, Goto
        <5>2. job[h].op # "complete" \/ (~Approve(h) /\ ~Cancel(h))
          BY <2>3 DEF Caller, Approve, Cancel
        <5> QED
          BY <1>4, <3>1, <5>1, <5>2
      <4>2. item[h] \notin 1 .. Size(h) /\ Size(h) \in Nat
        BY <2>3, <4>1, RequestsArePairs DEF Complete, Size, Job
      <4> QED
        BY <2>3, <4>2
    <3> QED
      BY <2>3, <2>4, <3>1 DEF Caller, Size
  <2>6. Moving(h)'
    BY <2>1, <2>3, <2>4 DEF Moving, Size
  <2>7. \E j \in {NoJob} \cup Job : job' = [job EXCEPT ![h] = j]
    BY <2>1, KeptByCaller
  <2>8. \E i \in Nat : item' = [item EXCEPT ![h] = i]
    BY <2>1, KeptByCaller
  <2>9. /\ overlapped' \in BOOLEAN
        /\ \E l \in {"idle", "done", "failed"} \cup Running : hpc' = [hpc EXCEPT ![h] = l]
    BY <1>0, <2>1
  <2> QED
    BY <2>1, <2>2, <2>5, <2>6, <2>7, <2>8, <2>9, CallerStep
<1>5. ASSUME NEW h \in Callers, MoveItem(h) PROVE CallerInv'
  <2> DEFINE t == job[h].transfer
             r == <<h, item[h]>>
  <2>1. /\ hpc[h] = "items" /\ item[h] \in Lines(t) /\ Stock!Begin(r, LineCall(t, item[h]))
        /\ hpc' = [hpc EXCEPT ![h] = "moving"] /\ UNCHANGED <<status, job, item, overlapped>>
    BY <1>5 DEF MoveItem, Goto
  <2>2. Caller(h) /\ Moving(h) /\ job[h] \in Job /\ t \in Transfers /\ job[h].op = "complete"
    BY <1>0, <2>1 DEF Caller, Job
  <2>3. r \in Requests /\ LineCall(t, item[h]) \in Calls /\ item[h] \in 1 .. Size(h)
        /\ item[h] \in Nat
    BY <1>0, <2>1, <2>2, RequestsArePairs, LinesAreCalls DEF Size
  <2>4. /\ StockInv' /\ pc'[r] = "find"
        /\ \A s \in Requests \ {r} : pc'[s] = pc[s]
    BY <1>0, <2>1, <2>3, BeginStages
  <2>5. hpc'[h] = "moving" /\ job'[h] = job[h] /\ item'[h] = item[h]
    BY <1>0, <2>1
  <2>6. Caller(h)'
    BY <2>1, <2>2, <2>3, <2>5 DEF Caller, Size
  <2>7. Moving(h)'
    <3>1. ASSUME NEW i \in Nat, <<h, i>> \in Requests, i # item[h]
          PROVE  pc'[<<h, i>>] = pc[<<h, i>>]
      BY <2>4, <3>1
    <3> HIDE DEF t
    <3> QED
      BY <2>1, <2>2, <2>3, <2>4, <2>5, <3>1 DEF Moving, Size
  <2>8. \A g \in Callers \ {h}, i \in Nat : <<g, i>> \in Requests => pc'[<<g, i>>] = pc[<<g, i>>]
    BY <2>4
  <2>9. /\ status' \in [Transfers -> Status] /\ overlapped' \in BOOLEAN
        /\ \E l \in {"idle", "done", "failed"} \cup Running : hpc' = [hpc EXCEPT ![h] = l]
    BY <1>0, <2>1 DEF Running
  <2>10. \E j \in {NoJob} \cup Job : job' = [job EXCEPT ![h] = j]
    BY <2>1, KeptByCaller
  <2>11. \E i \in Nat : item' = [item EXCEPT ![h] = i]
    BY <2>1, KeptByCaller
  <2> QED
    BY <2>4, <2>6, <2>7, <2>8, <2>9, <2>10, <2>11, CallerStep
<1>6. ASSUME NEW h \in Callers, ItemMoved(h) \/ ItemFailed(h) PROVE CallerInv'
  <2>1. /\ hpc[h] = "moving" /\ StockInv' /\ UNCHANGED <<pc, status, job, overlapped>>
        /\ pc[<<h, item[h]>>] \notin Stock!InFlightPC
    BY <1>0, <1>6, StockStays DEF ItemMoved, ItemFailed, stockVars, Stock!InFlightPC
  <2>2. /\ Caller(h) /\ Moving(h) /\ job[h] \in Job /\ job[h].op = "complete"
        /\ item[h] \in 1 .. Size(h) /\ Size(h) \in Nat /\ item[h] \in Nat
    BY <1>0, <2>1, RequestsArePairs DEF Caller, Size, Job
  <2>3. \/ /\ pc[<<h, item[h]>>] = "done" /\ hpc' = [hpc EXCEPT ![h] = "items"]
           /\ item' = [item EXCEPT ![h] = item[h] + 1]
        \/ hpc' = [hpc EXCEPT ![h] = "failed"] /\ UNCHANGED item
    BY <1>0, <1>6 DEF ItemMoved, ItemFailed, NextItem, Goto
  <2>4. job'[h] = job[h] /\
        \/ pc[<<h, item[h]>>] = "done" /\ hpc'[h] = "items" /\ item'[h] = item[h] + 1
        \/ hpc'[h] = "failed" /\ item'[h] = item[h]
    BY <1>0, <2>1, <2>3
  <2>5. Caller(h)'
    BY <2>2, <2>4 DEF Caller, Size
  <2>6. Moving(h)'
    <3>1. ASSUME NEW i \in Nat, <<h, i>> \in Requests
          PROVE /\ pc'[<<h, i>>] = pc[<<h, i>>]
                /\ pc[<<h, i>>] # "idle" => i \in 1 .. Size(h)
                /\ i < item[h] => pc[<<h, i>>] = "done"
                /\ i > item[h] => pc[<<h, i>>] = "idle"
                /\ pc[<<h, i>>] \notin Stock!InFlightPC
      <4>1. pc[<<h, i>>] \in Stock!InFlightPC => i = item[h]
        BY <2>2, <3>1 DEF Moving, Stock!InFlightPC
      <4> QED
        BY <2>1, <2>2, <3>1, <4>1 DEF Moving
    <3> QED
      BY <2>2, <2>4, <3>1 DEF Moving, Size
  <2>9. /\ status' \in [Transfers -> Status] /\ overlapped' \in BOOLEAN
        /\ \E l \in {"idle", "done", "failed"} \cup Running : hpc' = [hpc EXCEPT ![h] = l]
    BY <1>0, <2>1, <2>3 DEF Running
  <2>10. \E j \in {NoJob} \cup Job : job' = [job EXCEPT ![h] = j]
    BY <2>1, KeptByCaller
  <2>11. \E i \in Nat : item' = [item EXCEPT ![h] = i]
    <3>1. item[h] + 1 \in Nat
      BY <2>2
    <3> QED
      BY <2>3, <3>1, KeptByCaller
  <2> QED
    BY <2>1, <2>5, <2>6, <2>9, <2>10, <2>11, CallerStep
<1>7. ASSUME StockStep PROVE CallerInv'
  <2>1. PICK r \in Requests : Stock!Step(r) /\ UNCHANGED <<status, job, hpc, item, overlapped>>
    BY <1>7 DEF StockStep
  <2>2. /\ StockInv' /\ pc[r] \in Stock!InFlightPC /\ pc'[r] \in Stock!InFlightPC \cup Settled
        /\ \A s \in Requests \ {r} : pc'[s] = pc[s]
    BY <1>0, <2>1, StatementStages
  <2>3. PICK h \in Callers, i \in Nat : r = <<h, i>>
    BY RequestsArePairs
  <2>4. Caller(h) /\ Moving(h) /\ i = item[h] /\ hpc[h] = "moving" /\ i \in 1 .. Size(h)
        /\ job[h].op = "complete"
    BY <1>0, <2>2, <2>3 DEF Moving, Stock!InFlightPC, Caller
  <2>5. Caller(h)'
    BY <2>1, <2>4 DEF Caller, Size
  <2>6. Moving(h)'
    <3>1. ASSUME NEW k \in Nat, <<h, k>> \in Requests, k # i PROVE pc'[<<h, k>>] = pc[<<h, k>>]
      BY <2>2, <2>3, <3>1
    <3> QED
      BY <2>1, <2>2, <2>3, <2>4, <3>1 DEF Moving, Size
  <2>7. \A g \in Callers \ {h}, k \in Nat : <<g, k>> \in Requests => pc'[<<g, k>>] = pc[<<g, k>>]
    BY <2>2, <2>3
  <2>8. \A g \in Callers \ {h} : Caller(g)' /\ Moving(g)'
    BY <1>0, <2>1, <2>7, CallersStay
  <2> QED
    BY <1>0, <2>1, <2>2, <2>5, <2>6, <2>8 DEF CallerInv
<1>8. CASE UNCHANGED vars
  BY <1>0, <1>1, <1>8 DEF vars
<1> QED
  BY <1>2, <1>3, <1>4, <1>5, <1>6, <1>7, <1>8 DEF Next

-----------------------------------------------------------------------------
(* Who has written a transfer's status.                                    *)

\* A completion found its transfer approved, and so did everyone who finds it
\* in transit; a transfer is completed by a completion that came to its end.
WrittenInv ==
    /\ \A h \in Callers : \A t \in Transfers : hpc[h] # "idle" /\ Completing(h, t) => Approved(t)
    /\ \A t \in Transfers : status[t] = "IN_TRANSIT" => Approved(t)
    /\ \A t \in Transfers : status[t] = "COMPLETED" =>
           \E h \in Callers : hpc[h] = "done" /\ Completing(h, t)

\* At the start no status has been written.
LEMMA InitIsWritten == Init => WrittenInv
BY DEF Init, WrittenInv

\* No step writes a status that nobody was entitled to.
LEMMA NextKeepsWritten == CallerInv /\ WrittenInv /\ [Next]_vars => WrittenInv'
<1> SUFFICES ASSUME CallerInv, WrittenInv, [Next]_vars PROVE WrittenInv'
  OBVIOUS
<1>0. /\ status \in [Transfers -> Status]
      /\ hpc \in [Callers -> {"idle", "done", "failed"} \cup Running]
      /\ job \in [Callers -> {NoJob} \cup Job]
      /\ \A h \in Callers : Caller(h)
  BY DEF CallerInv
<1>1. ASSUME \A g \in Callers : hpc[g] # "idle" => hpc'[g] # "idle" /\ job'[g] = job[g],
             \A g \in Callers : hpc[g] = "done" => hpc'[g] = "done",
             NEW t \in Transfers, Approved(t)
      PROVE  Approved(t)'
  BY <1>1 DEF Approved
<1>2. ASSUME \A g \in Callers : hpc[g] = "done" => hpc'[g] = "done" /\ job'[g] = job[g],
             NEW t \in Transfers, \E h \in Callers : hpc[h] = "done" /\ Completing(h, t)
      PROVE  (\E h \in Callers : hpc[h] = "done" /\ Completing(h, t))'
  BY <1>2 DEF Completing
<1>3. ASSUME \A g \in Callers : hpc'[g] = hpc[g] /\ job'[g] = job[g],
             \A t \in Transfers : status'[t] \in {"IN_TRANSIT", "COMPLETED"} => status'[t] = status[t]
      PROVE  WrittenInv'
  BY <1>3 DEF WrittenInv, Approved, Completing
<1>4. ASSUME NEW t \in Transfers, Create(t) PROVE WrittenInv'
  BY <1>0, <1>3, <1>4 DEF Create
<1>5. ASSUME NEW h \in Callers, NEW op \in DOMAIN WritePC, NEW t \in Transfers, Read(h, op, t)
      PROVE  WrittenInv'
  <2>1. /\ hpc[h] = "idle" /\ hpc' = [hpc EXCEPT ![h] = WritePC[op]]
        /\ job' = [job EXCEPT ![h] = [op |-> op, transfer |-> t]]
        /\ UNCHANGED status /\ Permitted(op, status[t])
    BY <1>5 DEF Read, Goto
  <2>2. WritePC[op] \in Running
    BY DEF WritePC, Running
  <2>3. /\ \A g \in Callers \ {h} : hpc'[g] = hpc[g] /\ job'[g] = job[g]
        /\ hpc'[h] = WritePC[op] /\ job'[h] = [op |-> op, transfer |-> t]
    BY <1>0, <2>1
  <2>4. \A s \in Transfers : Approved(s) => Approved(s)'
    BY <2>1, <2>3 DEF Approved
  <2>5. \A s \in Transfers : (\E g \in Callers : hpc[g] = "done" /\ Completing(g, s)) =>
            (\E g \in Callers : hpc[g] = "done" /\ Completing(g, s))'
    BY <2>1, <2>3 DEF Completing
  <2>6. op = "complete" => Approved(t)
    BY <2>1 DEF Permitted, WrittenInv
  <2>7. ASSUME NEW g \in Callers, NEW s \in Transfers, hpc'[g] # "idle", Completing(g, s)'
        PROVE  Approved(s)'
    <3>1. CASE g = h
      BY <2>3, <2>4, <2>6, <2>7, <3>1 DEF Completing
    <3>2. CASE g # h
      BY <2>3, <2>4, <2>7, <3>2 DEF WrittenInv, Completing
    <3> QED
      BY <3>1, <3>2
  <2> QED
    BY <2>1, <2>4, <2>5, <2>7 DEF WrittenInv
<1>6. ASSUME NEW h \in Callers, NEW l, hpc[h] \in Running, hpc' = [hpc EXCEPT ![h] = l],
             l # "idle", UNCHANGED job, NEW s,
             \A t \in Transfers \ {job[h].transfer} : status'[t] = status[t],
             status'[job[h].transfer] = s,
             s \in {"IN_TRANSIT", "COMPLETED"} /\ s # status[job[h].transfer] =>
                 \/ s = "IN_TRANSIT" /\ job[h].op = "approve" /\ l = "done"
                 \/ s = "COMPLETED" /\ job[h].op = "complete" /\ l = "done"
      PROVE  WrittenInv'
  <2>1. /\ hpc'[h] = l /\ hpc[h] \notin {"idle", "done"} /\ job' = job
        /\ \A g \in Callers \ {h} : hpc'[g] = hpc[g]
    BY <1>0, <1>6 DEF Running
  <2>2. \A t \in Transfers : Approved(t) => Approved(t)'
    BY <2>1 DEF Approved
  <2>3. \A t \in Transfers : (\E g \in Callers : hpc[g] = "done" /\ Completing(g, t)) =>
            (\E g \in Callers : hpc[g] = "done" /\ Completing(g, t))'
    BY <2>1 DEF Completing
  <2>4. job[h] \in Job /\ job[h].transfer \in Transfers
        /\ job[h] = [op |-> job[h].op, transfer |-> job[h].transfer]
    BY <1>0, <2>1 DEF Caller, Job
  <2>5. ASSUME NEW g \in Callers, NEW t \in Transfers, hpc'[g] # "idle", Completing(g, t)'
        PROVE  Approved(t)'
    BY <2>1, <2>2, <2>5 DEF WrittenInv, Completing
  <2>6. ASSUME NEW t \in Transfers, status'[t] = "IN_TRANSIT" PROVE Approved(t)'
    <3>1. CASE status[t] = "IN_TRANSIT"
      BY <2>2, <3>1 DEF WrittenInv
    <3>2. CASE status[t] # "IN_TRANSIT"
      <4>1. t = job[h].transfer /\ job[h].op = "approve" /\ l = "done"
        BY <1>6, <2>6, <3>2
      <4> QED
        BY <2>1, <2>4, <4>1 DEF Approved
    <3> QED
      BY <3>1, <3>2
  <2>7. ASSUME NEW t \in Transfers, status'[t] = "COMPLETED"
        PROVE  (\E g \in Callers : hpc[g] = "done" /\ Completing(g, t))'
    <3>1. CASE status[t] = "COMPLETED"
      BY <2>3, <3>1 DEF WrittenInv
    <3>2. CASE status[t] # "COMPLETED"
      <4>1. t = job[h].transfer /\ job[h].op = "complete" /\ l = "done"
        BY <1>6, <2>7, <3>2
      <4> QED
        BY <2>1, <2>4, <4>1 DEF Completing
    <3> QED
      BY <3>1, <3>2
  <2> QED
    BY <2>5, <2>6, <2>7 DEF WrittenInv
<1>7. ASSUME NEW h \in Callers, Approve(h) \/ Cancel(h) \/ Complete(h) PROVE WrittenInv'
  <2>1. PICK s \in Status :
           /\ hpc[h] \in Running /\ hpc' = [hpc EXCEPT ![h] = "done"] /\ UNCHANGED job
           /\ status' = [status EXCEPT ![job[h].transfer] = s]
           /\ \/ hpc[h] = "approving" /\ s = "IN_TRANSIT"
              \/ hpc[h] = "cancelling" /\ s = "CANCELLED"
              \/ hpc[h] = "items" /\ s = "COMPLETED"
    BY <1>7 DEF Approve, Cancel, Complete, SetStatus, Goto, Running, Status
  <2>2. job[h].transfer \in Transfers
        /\ (hpc[h] = "approving" => job[h].op = "approve")
        /\ (hpc[h] = "items" => job[h].op = "complete")
    BY <1>0, <2>1 DEF Caller, Job, Running
  <2>3. /\ \A t \in Transfers \ {job[h].transfer} : status'[t] = status[t]
        /\ status'[job[h].transfer] = s
    BY <1>0, <2>1, <2>2
  <2> QED
    BY <1>6, <2>1, <2>2, <2>3
<1>8. ASSUME NEW h \in Callers, MoveItem(h) \/ ItemMoved(h) \/ ItemFailed(h) \/ Fail(h)
      PROVE  WrittenInv'
  <2>1. PICK l \in {"moving", "items", "failed"} :
           hpc[h] \in Running /\ hpc' = [hpc EXCEPT ![h] = l] /\ UNCHANGED <<job, status>>
    BY <1>8 DEF MoveItem, ItemMoved, ItemFailed, Fail, NextItem, Goto, Running
  <2> QED
    BY <1>6, <2>1
<1>9. CASE StockStep \/ UNCHANGED vars
  BY <1>3, <1>9 DEF StockStep, vars
<1> QED
  BY <1>4, <1>5, <1>7, <1>8, <1>9 DEF Next

-----------------------------------------------------------------------------
(* Calls that do not overlap.                                              *)

\* As long as no call has started while another ran, a running call is alone,
\* finds the status that it has read, and has been preceded by no completion
\* of its transfer that came to its end.
SoloInv ==
    ~overlapped =>
        /\ \A g, h \in Callers : hpc[g] \in Running /\ hpc[h] \in Running => g = h
        /\ \A h \in Callers : hpc[h] \in Running =>
               Permitted(job[h].op, status[job[h].transfer])
        /\ \A h \in Callers : \A t \in Transfers :
               hpc[h] = "done" /\ Completing(h, t) => status[t] = "COMPLETED"
        /\ \A g, h \in Callers : \A t \in Transfers :
               /\ hpc[g] = "done" /\ Completing(g, t)
               /\ hpc[h] = "done" /\ Completing(h, t)
               => g = h

\* At the start nobody runs.
LEMMA InitIsSolo == Init => SoloInv
BY DEF Init, SoloInv, Running

\* No step brings a second running call without marking the overlap.
LEMMA NextKeepsSolo == CallerInv /\ SoloInv /\ [Next]_vars => SoloInv'
<1> SUFFICES ASSUME CallerInv, SoloInv, [Next]_vars, ~overlapped'
             PROVE  /\ (\A g, h \in Callers : hpc[g] \in Running /\ hpc[h] \in Running => g = h)'
                    /\ (\A h \in Callers : hpc[h] \in Running =>
                            Permitted(job[h].op, status[job[h].transfer]))'
                    /\ (\A h \in Callers : \A t \in Transfers :
                            hpc[h] = "done" /\ Completing(h, t) => status[t] = "COMPLETED")'
                    /\ (\A g, h \in Callers : \A t \in Transfers :
                            /\ hpc[g] = "done" /\ Completing(g, t)
                            /\ hpc[h] = "done" /\ Completing(h, t)
                            => g = h)'
  BY DEF SoloInv
<1>0. /\ status \in [Transfers -> Status]
      /\ hpc \in [Callers -> {"idle", "done", "failed"} \cup Running]
      /\ job \in [Callers -> {NoJob} \cup Job]
      /\ \A h \in Callers : Caller(h)
      /\ overlapped \in BOOLEAN
  BY DEF CallerInv
<1>1. ~overlapped
  BY <1>0 DEF Next, Create, Read, Approve, Cancel, MoveItem, ItemMoved, ItemFailed, Complete, Fail,
     StockStep, vars
<1>2. /\ \A g, h \in Callers : hpc[g] \in Running /\ hpc[h] \in Running => g = h
      /\ \A h \in Callers : hpc[h] \in Running => Permitted(job[h].op, status[job[h].transfer])
      /\ \A h \in Callers : \A t \in Transfers :
             hpc[h] = "done" /\ Completing(h, t) => status[t] = "COMPLETED"
      /\ \A g, h \in Callers : \A t \in Transfers :
             /\ hpc[g] = "done" /\ Completing(g, t)
             /\ hpc[h] = "done" /\ Completing(h, t)
             => g = h
  BY <1>1 DEF SoloInv
<1>3. \A h \in Callers : hpc[h] \in Running => job[h] \in Job /\ job[h].transfer \in Transfers
  BY <1>0 DEF Caller, Running, Job
<1>4. CASE \E t \in Transfers : Create(t)
  <2>1. PICK t \in Transfers : /\ status[t] = "NONE" /\ status' = [status EXCEPT ![t] = "DRAFT"]
                               /\ UNCHANGED <<hpc, job>>
    BY <1>4 DEF Create
  <2>2. \A s \in Transfers : status[s] # "NONE" => status'[s] = status[s]
    BY <1>0, <2>1
  <2>3. \A h \in Callers : hpc[h] \in Running => status[job[h].transfer] # "NONE"
    BY <1>2 DEF Permitted
  <2> QED
    BY <1>2, <1>3, <2>1, <2>2, <2>3 DEF Completing
<1>5. ASSUME NEW h \in Callers, NEW op \in DOMAIN WritePC, NEW t \in Transfers, Read(h, op, t)
      PROVE  /\ (\A g, k \in Callers : hpc[g] \in Running /\ hpc[k] \in Running => g = k)'
             /\ (\A k \in Callers : hpc[k] \in Running =>
                     Permitted(job[k].op, status[job[k].transfer]))'
             /\ \A g \in Callers : hpc'[g] = "done" => hpc[g] = "done" /\ job'[g] = job[g]
             /\ UNCHANGED status
  <2>1. /\ hpc[h] = "idle" /\ hpc' = [hpc EXCEPT ![h] = WritePC[op]]
        /\ job' = [job EXCEPT ![h] = [op |-> op, transfer |-> t]]
        /\ UNCHANGED status /\ Permitted(op, status[t])
        /\ \A g \in Callers : hpc[g] \notin Running
    BY <1>5 DEF Read, Goto
  <2>2. /\ \A g \in Callers \ {h} : hpc'[g] = hpc[g] /\ job'[g] = job[g]
        /\ hpc'[h] = WritePC[op] /\ job'[h] = [op |-> op, transfer |-> t]
    BY <1>0, <2>1
  <2>3. WritePC[op] # "done"
    BY DEF WritePC
  <2> QED
    BY <2>1, <2>2, <2>3
<1>6. ASSUME NEW h \in Callers, Approve(h) \/ Cancel(h) \/ Complete(h)
      PROVE  /\ \A g \in Callers : hpc'[g] \notin Running
             /\ (\A k \in Callers : \A t \in Transfers :
                     hpc[k] = "done" /\ Completing(k, t) => status[t] = "COMPLETED")'
             /\ (\A g, k \in Callers : \A t \in Transfers :
                     /\ hpc[g] = "done" /\ Completing(g, t)
                     /\ hpc[k] = "done" /\ Completing(k, t)
                     => g = k)'
  <2>1. PICK s \in Status :
           /\ hpc[h] \in Running /\ hpc' = [hpc EXCEPT ![h] = "done"] /\ UNCHANGED job
           /\ status' = [status EXCEPT ![job[h].transfer] = s]
           /\ \/ hpc[h] = "approving" /\ s = "IN_TRANSIT"
              \/ hpc[h] = "cancelling" /\ s = "CANCELLED"
              \/ hpc[h] = "items" /\ s = "COMPLETED"
    BY <1>6 DEF Approve, Cancel, Complete, SetStatus, Goto, Running, Status
  <2>2. /\ job[h].transfer \in Transfers /\ Permitted(job[h].op, status[job[h].transfer])
        /\ (hpc[h] = "approving" => job[h].op = "approve")
        /\ (hpc[h] = "cancelling" => job[h].op = "cancel")
        /\ (hpc[h] = "items" => job[h].op = "complete")
    BY <1>0, <1>2, <1>3, <2>1 DEF Caller
  <2>3. /\ \A t \in Transfers \ {job[h].transfer} : status'[t] = status[t]
        /\ status'[job[h].transfer] = s /\ hpc'[h] = "done"
        /\ \A g \in Callers \ {h} : hpc'[g] = hpc[g]
        /\ \A g \in Callers \ {h} : hpc[g] \notin Running
    BY <1>0, <1>2, <2>1, <2>2
  <2>4. status[job[h].transfer] # "COMPLETED"
    BY <2>2 DEF Permitted
  <2>5. \A g \in Callers \ {h} : \A t \in Transfers :
           hpc[g] = "done" /\ Completing(g, t) => t # job[h].transfer
    BY <1>2, <2>4
  <2>6. \A t \in Transfers : Completing(h, t) => t = job[h].transfer /\ s = "COMPLETED"
    BY <2>1, <2>2 DEF Completing
  <2>7. \A g \in Callers : hpc'[g] \notin Running
    BY <2>3 DEF Running
  <2>8. \A g \in Callers, t \in Transfers : Completing(g, t)' <=> Completing(g, t)
    BY <2>1 DEF Completing
  <2>9. \A k \in Callers : \A t \in Transfers :
           hpc'[k] = "done" /\ Completing(k, t) => status'[t] = "COMPLETED"
    BY <1>2, <2>3, <2>5, <2>6
  <2>10. \A g, k \in Callers : \A t \in Transfers :
            /\ hpc'[g] = "done" /\ Completing(g, t)
            /\ hpc'[k] = "done" /\ Completing(k, t)
            => g = k
    BY <1>2, <2>3, <2>5, <2>6
  <2> QED
    BY <2>7, <2>8, <2>9, <2>10
<1>7. ASSUME NEW h \in Callers, MoveItem(h) \/ ItemMoved(h) \/ ItemFailed(h) \/ Fail(h)
      PROVE  /\ \A g \in Callers : hpc'[g] \in Running => hpc[g] \in Running
             /\ \A g \in Callers : hpc'[g] = "done" => hpc[g] = "done"
             /\ UNCHANGED <<job, status>>
  <2>1. PICK l \in {"moving", "items", "failed"} :
           hpc[h] \in Running /\ hpc' = [hpc EXCEPT ![h] = l] /\ UNCHANGED <<job, status>>
    BY <1>7 DEF MoveItem, ItemMoved, ItemFailed, Fail, NextItem, Goto, Running
  <2> QED
    BY <1>0, <2>1
<1>8. CASE StockStep \/ UNCHANGED vars
  <2>1. UNCHANGED <<hpc, job, status>>
    BY <1>8 DEF StockStep, vars
  <2> QED
    BY <1>2, <2>1 DEF Completing
<1>9. CASE \E h \in Callers, op \in DOMAIN WritePC, t \in Transfers : Read(h, op, t)
  BY <1>2, <1>5, <1>9 DEF Completing
<1>10. CASE \E h \in Callers : Approve(h) \/ Cancel(h) \/ Complete(h)
  BY <1>6, <1>10
<1>11. CASE \E h \in Callers : MoveItem(h) \/ ItemMoved(h) \/ ItemFailed(h) \/ Fail(h)
  <2>1. /\ \A g \in Callers : hpc'[g] \in Running => hpc[g] \in Running
        /\ \A g \in Callers : hpc'[g] = "done" => hpc[g] = "done"
        /\ UNCHANGED <<job, status>>
    BY <1>7, <1>11
  <2> QED
    BY <1>2, <2>1 DEF Completing
<1> QED
  BY <1>4, <1>8, <1>9, <1>10, <1>11 DEF Next

-----------------------------------------------------------------------------
(* What the invariants say of the stock.                                   *)

\* Only a completion has moved stock, and it does so on its own transfer.
LEMMA MoversComplete ==
    ASSUME CallerInv, NEW h \in Callers, NEW t \in Transfers, NEW i \in Lines(t),
           job[h] # NoJob, job[h].transfer = t, moved[<<h, i>>] # {}
    PROVE  hpc[h] \in {"items", "moving", "done", "failed"} /\ Completing(h, t)
<1>1. <<h, i>> \in Requests /\ i \in Nat
  BY RequestsArePairs
<1>2. Caller(h) /\ Moving(h) /\ StageOf(<<h, i>>)
      /\ hpc[h] \in {"idle", "done", "failed"} \cup Running
  BY <1>1 DEF CallerInv, StockInv
<1>3. hpc[h] # "idle" /\ job[h] \in Job
  BY <1>2 DEF Caller
<1>4. pc[<<h, i>>] # "idle"
  BY <1>2 DEF StageOf
<1>5. job[h].op = "complete"
  BY <1>1, <1>2, <1>4 DEF Moving
<1> QED
  BY <1>2, <1>3, <1>5 DEF Caller, Completing, Job, Running

\* A completion that came to its end has moved and posted every line.
LEMMA DoneMovedAll ==
    ASSUME CallerInv, NEW h \in Callers, NEW t \in Transfers, NEW i \in Lines(t),
           hpc[h] = "done", Completing(h, t)
    PROVE  h \in Postings(t, i)
<1>1. <<h, i>> \in Requests /\ i \in Nat /\ Len(Order[t].items) \in Nat
      /\ i \in 1 .. Len(Order[t].items)
  BY RequestsArePairs
<1>2. Caller(h) /\ Moving(h) /\ StageOf(<<h, i>>) /\ job[h].op = "complete" /\ job[h].transfer = t
  BY <1>1 DEF CallerInv, StockInv, Completing
<1>3. i < item[h]
  BY <1>1, <1>2 DEF Caller, Size
<1>4. moved[<<h, i>>] = Stock!Sides /\ posted[<<h, i>>] = Stock!Sides
  BY <1>1, <1>2, <1>3 DEF Moving, StageOf
<1>5. job[h] # NoJob
  BY DEF Completing, NoJob
<1> QED
  BY <1>2, <1>4, <1>5 DEF Postings, Moves

\* The invariants tell what the status of a transfer says of its stock.
LEMMA CallersTell == CallerInv /\ WrittenInv /\ SoloInv => StockFollowsStatus
<1> SUFFICES ASSUME CallerInv, WrittenInv, SoloInv PROVE StockFollowsStatus
  OBVIOUS
<1>0. Job = [op : DOMAIN WritePC, transfer : Transfers]
  BY DEF Job
<1>1. TypeOK
  <2>1. Stock!TypeOK /\ status \in [Transfers -> Status] /\ overlapped \in BOOLEAN
        /\ hpc \in [Callers -> {"idle", "done", "failed"} \cup Running]
    BY DEF CallerInv, StockInv
  <2>2. ASSUME NEW h \in Callers, hpc[h] # "idle"
        PROVE  job[h] \in Job /\ item[h] \in 1 .. Len(Order[job[h].transfer].items) + 1
    BY <2>2 DEF CallerInv, Caller, Size
  <2> QED
    BY <1>0, <2>1, <2>2 DEF TypeOK
<1>2. CompletedMovedAll
  <2>1. ASSUME NEW t \in Transfers, status[t] = "COMPLETED", NEW i \in Lines(t)
        PROVE  Postings(t, i) # {}
    BY <2>1, DoneMovedAll DEF WrittenInv
  <2> QED
    BY <2>1 DEF CompletedMovedAll
<1>3. MovesOnlyApproved
  <2>1. ASSUME NEW t \in Transfers, NEW h \in Callers, job[h] # NoJob, job[h].transfer = t,
               NEW i \in Lines(t), moved[<<h, i>>] # {}
        PROVE  Approved(t)
    BY <2>1, MoversComplete DEF WrittenInv
  <2> QED
    BY <2>1 DEF MovesOnlyApproved, Approved
<1>4. CancelledMovedNothing
  <2>1. ASSUME ~overlapped, NEW t \in Transfers, status[t] = "CANCELLED", NEW h \in Callers,
               job[h] # NoJob, job[h].transfer = t, hpc[h] # "failed",
               NEW i \in Lines(t), moved[<<h, i>>] # {}
        PROVE  FALSE
    <3>1. hpc[h] \in {"items", "moving", "done", "failed"} /\ Completing(h, t)
      BY <2>1, MoversComplete
    <3>2. hpc[h] # "done"
      BY <2>1, <3>1 DEF SoloInv
    <3>3. hpc[h] \in Running
      BY <2>1, <3>1, <3>2 DEF Running
    <3>4. Permitted(job[h].op, status[job[h].transfer]) /\ job[h].op = "complete"
      BY <2>1, <3>1, <3>3 DEF SoloInv, Completing
    <3> QED
      BY <2>1, <3>4 DEF Permitted
  <2> QED
    BY <2>1 DEF CancelledMovedNothing
<1> QED
  BY <1>1, <1>2, <1>3, <1>4 DEF StockFollowsStatus

\* Without overlaps, all but one of the movements of a line are by completions
\* that died.
LEMMA SoloMovesOnce == CallerInv /\ SoloInv => MovedOncePerAttempt
<1> SUFFICES ASSUME CallerInv, SoloInv, ~overlapped,
                    NEW t \in Transfers, NEW i \in Lines(t)
             PROVE  Cardinality(Moves(t, i)) <=
                        1 + Cardinality({h \in Callers : hpc[h] = "failed" /\ job[h].op = "complete"
                                                         /\ job[h].transfer = t})
  BY DEF MovedOncePerAttempt
<1> DEFINE Failed == {h \in Callers : hpc[h] = "failed" /\ job[h].op = "complete"
                                      /\ job[h].transfer = t}
<1>1. ASSUME NEW h \in Moves(t, i)
      PROVE  h \in Callers /\ Completing(h, t) /\ hpc[h] \in {"items", "moving", "done", "failed"}
  <2>1. h \in Callers /\ job[h] # NoJob /\ job[h].transfer = t /\ moved[<<h, i>>] # {}
    BY DEF Moves, Stock!Sides
  <2> QED
    BY <2>1, MoversComplete
<1>2. ASSUME NEW g \in Moves(t, i) \ Failed, NEW h \in Moves(t, i) \ Failed
      PROVE  g = h
  <2>1. /\ hpc[g] \in {"items", "moving", "done"} /\ Completing(g, t) /\ g \in Callers
        /\ hpc[h] \in {"items", "moving", "done"} /\ Completing(h, t) /\ h \in Callers
    BY <1>1 DEF Completing
  <2>2. \A k \in Callers : Completing(k, t) /\ hpc[k] \in {"items", "moving"} =>
            status[t] = "IN_TRANSIT"
    BY DEF SoloInv, Completing, Permitted, Running
  <2>3. \A k \in Callers : Completing(k, t) /\ hpc[k] = "done" => status[t] = "COMPLETED"
    BY DEF SoloInv
  <2>4. CASE hpc[g] = "done" /\ hpc[h] = "done"
    BY <2>1, <2>4 DEF SoloInv
  <2>5. CASE hpc[g] \in {"items", "moving"} /\ hpc[h] \in {"items", "moving"}
    BY <2>1, <2>5 DEF SoloInv, Running
  <2> QED
    BY <2>1, <2>2, <2>3, <2>4, <2>5
<1>3. IsFiniteSet(Failed) /\ Cardinality(Failed) \in Nat
  BY CallersAssumption, FS_Subset, FS_CardinalityType
<1>4. PICK x : Moves(t, i) \subseteq Failed \cup {x}
  BY <1>2
<1>5. IsFiniteSet(Failed \cup {x}) /\ Cardinality(Failed \cup {x}) <= Cardinality(Failed) + 1
  <2>1. PICK F : F = Failed
    OBVIOUS
  <2>2. IsFiniteSet(F) /\ Cardinality(F) \in Nat
    BY <1>3, <2>1
  <2>3. IsFiniteSet(F \cup {x}) /\ Cardinality(F \cup {x}) <= Cardinality(F) + 1
    BY <2>2, FS_AddElement
  <2> QED
    BY <2>1, <2>3
<1>6. Cardinality(Moves(t, i)) \in Nat /\ Cardinality(Moves(t, i)) <= Cardinality(Failed \cup {x})
      /\ Cardinality(Failed \cup {x}) \in Nat
  BY <1>4, <1>5, FS_Subset, FS_CardinalityType
<1> QED
  BY <1>3, <1>5, <1>6

-----------------------------------------------------------------------------
(* The invariants of every behaviour, and the properties.                  *)

TransferInv == CallerInv /\ WrittenInv /\ SoloInv

\* The three invariants hold in every reachable state.
THEOREM AlwaysKept == Spec => []TransferInv
<1>1. Init => TransferInv
  BY InitIsCalled, InitIsWritten, InitIsSolo DEF TransferInv
<1>2. TransferInv /\ [Next]_vars => TransferInv'
  BY NextKeepsCallers, NextKeepsWritten, NextKeepsSolo DEF TransferInv
<1> QED
  BY <1>1, <1>2, PTL DEF Spec

\* Whichever of approve, complete and cancel overlap, and whatever fails: a
\* COMPLETED transfer has moved and posted every line, stock moves only for
\* an approved transfer, and, without overlaps, a CANCELLED transfer has moved
\* nothing but by a completion that died.
THEOREM StatusTellsOfStock == Spec => []StockFollowsStatus
<1>1. TransferInv => StockFollowsStatus
  BY CallersTell DEF TransferInv
<1> QED
  BY <1>1, AlwaysKept, PTL

\* Without overlapping calls, a line goes out of its warehouse at most once
\* more than completions of its transfer have died.
THEOREM MovedOnceForEachAttempt == Spec => []MovedOncePerAttempt
<1>1. TransferInv => MovedOncePerAttempt
  BY SoloMovesOnce DEF TransferInv
<1> QED
  BY <1>1, AlwaysKept, PTL
=============================================================================
