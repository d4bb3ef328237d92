------------------------ MODULE StockService_proofs ------------------------
(***************************************************************************)
(* Proofs about StockService for any warehouses, products, opening stock,  *)
(* set of calls and number of requests.                                    *)
(***************************************************************************)
EXTENDS StockService, Sums_proofs, TLAPS

\* The arguments of a request that has begun are well formed.
LEMMA CallIsWellFormed ==
    ASSUME TypeOK, NEW r \in Requests, pc[r] # "idle"
    PROVE  /\ call[r] \in Calls
           /\ call[r] \in Call
           /\ call[r].op \in Ops
           /\ call[r].from \in Cells
           /\ call[r].to \in Cells
           /\ call[r].qty \in Int
           /\ Signed(call[r]) \in Int
           /\ ReservedChange(call[r]) \in Int
<1>1. call[r] \in Calls /\ call[r] \in Call
  BY CallsAssumption DEF TypeOK
<1>2. call[r].op \in Ops /\ call[r].from \in Cells /\ call[r].to \in Cells /\ call[r].qty \in Int
  BY <1>1 DEF Call
<1> QED
  BY <1>1, <1>2 DEF Signed, ReservedChange

\* The entries written to the ledger are entries.
LEMMA EntryIsTyped ==
    ASSUME NEW c \in Calls, NEW m \in Int, NEW n \in Int
    PROVE  /\ [type |-> EntryType[c.op], qty |-> Signed(c), prev |-> m, new |-> n] \in Entry
           /\ c.op = "transfer" =>
                  [type |-> "TRANSFER_IN", qty |-> c.qty, prev |-> m, new |-> n] \in Entry
<1>1. c.op \in Ops /\ c.qty \in Int /\ (c.op # "adjust" => c.qty > 0)
  BY CallsAssumption DEF Call
<1>2. /\ EntryType[c.op] \in Types
      /\ EntryType[c.op] = "ADJUSTMENT" <=> c.op = "adjust"
      /\ EntryType[c.op] \in {"SALE", "TRANSFER_OUT", "RESERVATION"} <=>
             c.op \in {"reserve", "decrease", "transfer"}
  BY <1>1 DEF Ops, Types, EntryType
<1>3. /\ Signed(c) \in Int
      /\ c.op \in {"reserve", "decrease", "transfer"} => Signed(c) < 0
      /\ c.op \in {"release", "increase"} => Signed(c) > 0
  BY <1>1 DEF Signed
<1>4. [type |-> EntryType[c.op], qty |-> Signed(c), prev |-> m, new |-> n] \in Entry
  BY <1>1, <1>2, <1>3 DEF Entry, Ops, EntryType
<1>5. c.op = "transfer" =>
          [type |-> "TRANSFER_IN", qty |-> c.qty, prev |-> m, new |-> n] \in Entry
  BY <1>1 DEF Entry, Types
<1> QED
  BY <1>4, <1>5

\* Every step of a request keeps the types.
LEMMA StepKeepsTypes ==
    ASSUME TypeOK, NEW r \in Requests, Step(r), UNCHANGED serial
    PROVE  TypeOK'
<1> USE DEF Goto
<1>0. pc[r] # "idle"
  BY DEF Step, Find, Create, FindTo, CreateTo, Update, DecrementFrom, IncrementTo,
         Reread, PostLedger, PostedAs, PostLedgerTo, PostedWith, Fail, InFlight, InFlightPC
<1>1. /\ call[r] \in Calls /\ call[r].op \in Ops
      /\ call[r].from \in Cells /\ call[r].to \in Cells /\ call[r].qty \in Int
      /\ Signed(call[r]) \in Int /\ ReservedChange(call[r]) \in Int
  BY <1>0, CallIsWellFormed
<1>a. \A s \in Requests : pc'[s] \in TransferPC => call'[s].op = "transfer"
  <2>1. call' = call /\ \A s \in Requests \ {r} : pc'[s] = pc[s]
    BY DEF Step, Find, Create, FindTo, CreateTo, Update, DecrementFrom, IncrementTo, AfterRow,
           AfterRowTo, Reread, PostLedger, PostedAs, PostLedgerTo, PostedWith, Fail, TypeOK, locals
  <2>2. pc'[r] \in TransferPC => call[r].op = "transfer"
    BY DEF Step, Find, Create, FindTo, CreateTo, Update, DecrementFrom, IncrementTo, AfterRow,
           AfterRowTo, Reread, PostLedger, PostedAs, PostLedgerTo, PostedWith, Fail, TypeOK, TransferPC
  <2> QED
    BY <2>1, <2>2 DEF TypeOK
<1> USE <1>a
<1>2. CASE Find(r)
  BY ZenonT(60), <1>0, <1>1, <1>2 DEF Find, AfterRow, TypeOK, tables, InFlightPC, SettledPC
<1>3. CASE Create(r)
  <2>1. exists' \in [Cells -> BOOLEAN]
    BY <1>1, <1>3 DEF Create, TypeOK, tables
  <2>2. available' \in [Cells -> Int] /\ reserved' \in [Cells -> Int]
    BY SMTT(60), <1>1, <1>3 DEF Create, TypeOK, tables
  <2>3. seen' \in [Requests -> Int]
    BY <1>1, <1>3 DEF Create, AfterRow, TypeOK
  <2>5. \E label \in InFlightPC \cup SettledPC : Goto(r, label)
    BY <1>3 DEF Create, AfterRow, InFlightPC, SettledPC
  <2>6. pc' \in [Requests -> {"idle"} \cup InFlightPC \cup SettledPC]
    BY <2>5 DEF TypeOK
  <2>4. \A s \in Requests : pc'[s] # "idle" => pc[s] # "idle"
    BY <1>0, <1>3 DEF Create, AfterRow, TypeOK
  <2> QED
    BY <1>3, <2>1, <2>2, <2>3, <2>4, <2>6 DEF Create, TypeOK, tables
<1>4. CASE FindTo(r)
  BY ZenonT(60), <1>0, <1>1, <1>4 DEF FindTo, AfterRowTo, TypeOK, tables, InFlightPC, SettledPC
<1>5. CASE CreateTo(r)
  <2>1. exists' \in [Cells -> BOOLEAN]
    BY <1>1, <1>5 DEF CreateTo, TypeOK, tables
  <2>2. available' \in [Cells -> Int] /\ reserved' \in [Cells -> Int]
    BY SMTT(60), <1>1, <1>5 DEF CreateTo, TypeOK, tables
  <2>3. seenTo' \in [Requests -> Int]
    BY <1>1, <1>5 DEF CreateTo, AfterRowTo, TypeOK
  <2>5. \E label \in InFlightPC \cup SettledPC : Goto(r, label)
    BY <1>5 DEF CreateTo, AfterRowTo, InFlightPC, SettledPC
  <2>6. pc' \in [Requests -> {"idle"} \cup InFlightPC \cup SettledPC]
    BY <2>5 DEF TypeOK
  <2>4. \A s \in Requests : pc'[s] # "idle" => pc[s] # "idle"
    BY <1>0, <1>5 DEF CreateTo, AfterRowTo, TypeOK
  <2> QED
    BY <1>5, <2>1, <2>2, <2>3, <2>4, <2>6 DEF CreateTo, TypeOK, tables
<1>6. CASE Update(r)
  <2>1. NewAvailable(call[r], available[call[r].from], seen[r]) \in Int
    BY SMTT(60), <1>1 DEF NewAvailable, TypeOK
  <2>2. available' \in [Cells -> Int] /\ wrote' \in [Requests -> Int]
    BY <1>6, <2>1 DEF Update, TypeOK
  <2>3. reserved' \in [Cells -> Int]
    <3>1. reserved[call[r].from] + ReservedChange(call[r]) \in Int
      BY SMTT(60), <1>1 DEF ReservedChange, TypeOK
    <3> QED
      BY <1>6, <3>1 DEF Update, TypeOK
  <2>4. moved' \in [Requests -> SUBSET Sides]
    BY <1>6 DEF Update, TypeOK, Sides
  <2>5. /\ pc' \in [Requests -> {"idle"} \cup InFlightPC \cup SettledPC]
        /\ \A s \in Requests : pc'[s] # "idle" => pc[s] # "idle"
    BY <1>0, <1>6 DEF Update, TypeOK, InFlightPC
  <2> QED
    BY <1>6, <2>2, <2>3, <2>4, <2>5 DEF Update, TypeOK
<1>7. CASE DecrementFrom(r)
  <2>1. moved' \in [Requests -> SUBSET Sides]
    BY <1>7 DEF DecrementFrom, TypeOK, Sides
  <2>2. available' \in [Cells -> Int]
    BY SMTT(60), <1>1, <1>7 DEF DecrementFrom, TypeOK
  <2>3. wrote' \in [Requests -> Int]
    BY SMTT(60), <1>1, <1>7 DEF DecrementFrom, TypeOK, locals
  <2>4. /\ pc' \in [Requests -> {"idle"} \cup InFlightPC \cup SettledPC]
        /\ \A s \in Requests : pc'[s] # "idle" => pc[s] # "idle"
    BY <1>0, <1>7 DEF DecrementFrom, TypeOK, InFlightPC
  <2> QED
    BY <1>7, <2>1, <2>2, <2>3, <2>4 DEF DecrementFrom, TypeOK, locals
<1>8. CASE IncrementTo(r)
  <2>1. moved' \in [Requests -> SUBSET Sides]
    BY <1>8 DEF IncrementTo, TypeOK, Sides
  <2>2. available' \in [Cells -> Int]
    BY SMTT(60), <1>1, <1>8 DEF IncrementTo, TypeOK
  <2>3. wrote' \in [Requests -> Int]
    BY <1>1, <1>8 DEF IncrementTo, TypeOK, locals
  <2>4. /\ pc' \in [Requests -> {"idle"} \cup InFlightPC \cup SettledPC]
        /\ \A s \in Requests : pc'[s] # "idle" => pc[s] # "idle"
    BY <1>0, <1>8 DEF IncrementTo, TypeOK, InFlightPC
  <2> QED
    BY <1>8, <2>1, <2>2, <2>3, <2>4 DEF IncrementTo, TypeOK, locals
<1>9. CASE Reread(r)
  BY <1>0, <1>1, <1>9 DEF Reread, TypeOK, InFlightPC, tables
<1>10. CASE PostLedger(r)
  <2>1. [type |-> EntryType[call[r].op], qty |-> Signed(call[r]),
         prev |-> seen[r], new |-> wrote[r]] \in Entry
    BY <1>1, EntryIsTyped DEF TypeOK
  <2>2. ledger' \in [Cells -> Seq(Entry)]
    BY <1>1, <1>10, <2>1 DEF PostLedger, PostedAs, TypeOK
  <2> QED
    BY <1>0, <1>1, <1>10, <2>2 DEF PostLedger, PostedAs, TypeOK, InFlightPC, SettledPC, locals, Sides
<1>11. CASE PostLedgerTo(r)
  <2>1. [type |-> "TRANSFER_IN", qty |-> call[r].qty,
         prev |-> seenTo[r], new |-> wroteTo[r]] \in Entry
    BY <1>1, <1>11, EntryIsTyped DEF PostLedgerTo, PostedWith, TypeOK, TransferPC
  <2>2. ledger' \in [Cells -> Seq(Entry)]
    BY <1>1, <1>11, <2>1 DEF PostLedgerTo, PostedWith, TypeOK
  <2> QED
    BY <1>0, <1>1, <1>11, <2>2
       DEF PostLedgerTo, PostedWith, TypeOK, InFlightPC, SettledPC, locals, Sides
<1>12. CASE Fail(r)
  BY <1>0, <1>1, <1>12 DEF Fail, TypeOK, SettledPC, tables, locals
<1> QED
  BY <1>2, <1>3, <1>4, <1>5, <1>6, <1>7, <1>8, <1>9, <1>10, <1>11, <1>12 DEF Step

\* The tables and the calls keep their types whatever the interleaving.
THEOREM TypeCorrect == Spec => []TypeOK
<1>1. Init => TypeOK
  <2>1. ASSUME Init PROVE ledger \in [Cells -> Seq(Entry)]
    <3> DEFINE opening(c) == [type |-> "PURCHASE", qty |-> Opening[c],
                               prev |-> 0, new |-> Opening[c]]
    <3>1. \A c \in Cells : Opening[c] > 0 => opening(c) \in Entry
      BY OpeningAssumption DEF Entry, Types
    <3>2. \A c \in Cells : (Opening[c] > 0 => <<opening(c)>> \in Seq(Entry)) /\ <<>> \in Seq(Entry)
      BY <3>1
    <3>3. ledger = [c \in Cells |-> IF Opening[c] > 0 THEN <<opening(c)>> ELSE <<>>]
      BY <2>1 DEF Init
    <3> QED
      BY <3>2, <3>3
  <2> QED
    BY <2>1, OpeningAssumption DEF Init, TypeOK, TransferPC
<1>2. ASSUME TypeOK, [Next]_vars PROVE TypeOK'
  <2>1. ASSUME NEW r \in Requests, NEW c \in Calls, Begin(r, c) PROVE TypeOK'
    <3>1. serial' \in BOOLEAN
      BY <1>2 DEF Next, vars, TypeOK
    <3> QED
      BY <1>2, <2>1, <3>1 DEF Begin, Goto, TypeOK, tables, InFlightPC, TransferPC
  <2>2. CASE UNCHANGED vars
    BY <1>2, <2>2 DEF TypeOK, vars
  <2> QED
    BY <1>2, <2>1, <2>2, StepKeepsTypes DEF Next, vars
<1> QED
  BY <1>1, <1>2, PTL DEF Spec

-----------------------------------------------------------------------------
(* One call at a time: no row is overdrawn.  The check of a call is made on *)
(* a row it has read earlier, so NonNegative is not inductive: what carries *)
(* it is that the row is still what the outstanding call has read (Fresh).  *)

\* A row that does not exist counts as empty, and a call that has passed a
\* look-up works on a row that exists.
RowsFound ==
    /\ \A c \in Cells : ~exists[c] => available[c] = 0 /\ reserved[c] = 0
    /\ \A r \in Requests :
           /\ pc[r] \in {"findTo", "createTo", "update", "increment", "decrement"}
                  => exists[call[r].from]
           /\ pc[r] \in {"update", "increment", "decrement"} /\ call[r].op = "transfer"
                  => exists[call[r].to]

OneAtATime == \A r, s \in Requests : InFlight(r) /\ InFlight(s) => r = s

\* What the outstanding call knows about its row is true of the row now.
FreshCall(r) ==
    LET c == call[r].from IN
    /\ pc[r] \in {"findTo", "createTo"} =>
           call[r].op = "transfer" /\ seen[r] = available[c]
    /\ pc[r] = "update" =>
           /\ Allowed(call[r], available[c], reserved[c])
           /\ seen[r] = available[c]
    /\ pc[r] = "decrement" => available[c] >= call[r].qty

Fresh == \A r \in Requests : FreshCall(r)

SerialInv == RowsFound /\ OneAtATime /\ Fresh /\ NoneBelowZero

\* The labels a step can be taken from are those of calls in flight.
LEMMA StepIsInFlight ==
    ASSUME NEW r \in Requests, Step(r)
    PROVE  InFlight(r)
BY DEF Step, Find, Create, FindTo, CreateTo, Update, DecrementFrom, IncrementTo,
       Reread, PostLedger, PostedAs, PostLedgerTo, PostedWith, Fail, InFlight, InFlightPC

\* A step moves the program counter of its own request only, and changes the
\* arguments of none.
LEMMA StepIsLocal ==
    ASSUME TypeOK, NEW r \in Requests, Step(r)
    PROVE  /\ \E label \in InFlightPC \cup SettledPC : Goto(r, label)
           /\ call' = call
           /\ \A s \in Requests \ {r} : pc'[s] = pc[s]
<1>1. \E label \in InFlightPC \cup SettledPC : Goto(r, label)
  BY DEF Step, Find, Create, FindTo, CreateTo, Update, DecrementFrom, IncrementTo, AfterRow,
         AfterRowTo, Reread, PostLedger, PostedAs, PostLedgerTo, PostedWith, Fail, InFlightPC, SettledPC
<1>2. call' = call
  BY DEF Step, Find, Create, FindTo, CreateTo, Update, DecrementFrom, IncrementTo,
         Reread, PostLedger, PostedAs, PostLedgerTo, PostedWith, Fail, locals
<1> QED
  BY <1>1, <1>2 DEF Goto, TypeOK

\* Creating a row changes no quantity: the row counted as empty before.
LEMMA CreateEffect ==
    ASSUME TypeOK, RowsFound, NEW r \in Requests, Create(r), call[r].from \in Cells
    PROVE  /\ available' = available /\ reserved' = reserved /\ call' = call
           /\ \A c \in Cells : exists[c] => exists'[c]
           /\ exists'[call[r].from]
           /\ pc[r] = "create"
           /\ \/ pc' = [pc EXCEPT ![r] = "failed"] /\ seen' = seen
              \/ AfterRow(r, 0, 0)
<1> DEFINE c == call[r].from
<1>1. CASE exists[c]
  <2>1. UNCHANGED <<tables, seen>> /\ Goto(r, "failed")
    BY <1>1 DEF Create
  <2> QED
    BY <1>1, <2>1 DEF tables, Goto, Create
<1>2. CASE ~exists[c]
  <2>1. /\ exists' = [exists EXCEPT ![c] = TRUE]
        /\ available' = [available EXCEPT ![c] = 0]
        /\ reserved' = [reserved EXCEPT ![c] = 0]
        /\ AfterRow(r, 0, 0)
    BY <1>2 DEF Create
  <2>2. available[c] = 0 /\ reserved[c] = 0
    BY <1>2 DEF RowsFound
  <2>3. available' = available
    BY <2>1, <2>2 DEF TypeOK
  <2>4. reserved' = reserved
    BY <2>1, <2>2 DEF TypeOK
  <2>5. exists'[c] /\ \A d \in Cells : exists[d] => exists'[d]
    BY <2>1 DEF TypeOK
  <2> QED
    BY <2>1, <2>3, <2>4, <2>5 DEF Create
<1> QED
  BY <1>1, <1>2

\* Creating the destination row changes no quantity: it counted as empty before.
LEMMA CreateToEffect ==
    ASSUME TypeOK, RowsFound, NEW r \in Requests, CreateTo(r), call[r].to \in Cells
    PROVE  /\ available' = available /\ reserved' = reserved /\ call' = call
           /\ \A c \in Cells : exists[c] => exists'[c]
           /\ exists'[call[r].to]
           /\ pc[r] = "createTo"
           /\ \/ pc' = [pc EXCEPT ![r] = "failed"] /\ seenTo' = seenTo
              \/ AfterRowTo(r, 0)
           /\ seen' = seen
<1> DEFINE c == call[r].to
<1>1. CASE exists[c]
  <2>1. UNCHANGED <<tables, seenTo>> /\ Goto(r, "failed")
    BY <1>1 DEF CreateTo
  <2> QED
    BY <1>1, <2>1 DEF tables, Goto, CreateTo
<1>2. CASE ~exists[c]
  <2>1. /\ exists' = [exists EXCEPT ![c] = TRUE]
        /\ available' = [available EXCEPT ![c] = 0]
        /\ reserved' = [reserved EXCEPT ![c] = 0]
        /\ AfterRowTo(r, 0)
    BY <1>2 DEF CreateTo
  <2>2. available[c] = 0 /\ reserved[c] = 0
    BY <1>2 DEF RowsFound
  <2>3. available' = available
    BY <2>1, <2>2 DEF TypeOK
  <2>4. reserved' = reserved
    BY <2>1, <2>2 DEF TypeOK
  <2>5. exists'[c] /\ \A d \in Cells : exists[d] => exists'[d]
    BY <2>1 DEF TypeOK
  <2> QED
    BY <2>1, <2>3, <2>4, <2>5 DEF CreateTo
<1> QED
  BY <1>1, <1>2

\* Rows are created before they are used and are never removed.
LEMMA StepKeepsRows ==
    ASSUME TypeOK, RowsFound, NEW r \in Requests, Step(r)
    PROVE  RowsFound'
<1> USE DEF Goto
<1>1. /\ call[r].from \in Cells /\ call[r].to \in Cells
      /\ call[r].op = "transfer" => call[r].from # call[r].to
  BY StepIsInFlight, CallIsWellFormed, CallsAssumption DEF InFlight, InFlightPC
<1>0. \A s \in Requests : pc[s] # "idle" => call[s].from \in Cells /\ call[s].to \in Cells
  BY CallIsWellFormed
<1>2. call' = call /\ \A s \in Requests \ {r} : pc'[s] = pc[s]
  BY StepIsLocal
<1>3. CASE Find(r)
  BY <1>1, <1>2, <1>3 DEF Find, AfterRow, RowsFound, TypeOK, tables
<1>4. CASE Create(r)
  <2>1. /\ available' = available /\ reserved' = reserved /\ call' = call
        /\ \A c \in Cells : exists[c] => exists'[c]
        /\ exists'[call[r].from]
        /\ pc[r] = "create"
        /\ Goto(r, "failed") \/ AfterRow(r, 0, 0)
    BY <1>1, <1>4, CreateEffect
  <2>2. pc'[r] \in {"failed", "findTo", "update", "rejected"}
    BY <2>1 DEF AfterRow, TypeOK
  <2>3. pc'[r] = "findTo" => call[r].op = "transfer"
    BY <2>1 DEF AfterRow, TypeOK
  <2>4. pc'[r] = "update" => call[r].op # "transfer"
    BY <2>1 DEF AfterRow, TypeOK
  <2> QED
    BY <1>0, <1>1, <1>2, <2>1, <2>2, <2>3, <2>4 DEF RowsFound
<1>5. CASE FindTo(r)
  BY SMTT(60), <1>1, <1>2, <1>5 DEF FindTo, AfterRowTo, RowsFound, TypeOK, tables
<1>6. CASE CreateTo(r)
  <2>1. /\ available' = available /\ reserved' = reserved /\ call' = call
        /\ \A c \in Cells : exists[c] => exists'[c]
        /\ exists'[call[r].to]
        /\ pc[r] = "createTo"
        /\ Goto(r, "failed") \/ AfterRowTo(r, 0)
    BY <1>1, <1>6, CreateToEffect
  <2>2. pc'[r] \in {"failed", "findTo", "update", "rejected"}
    BY <2>1 DEF AfterRowTo, TypeOK
  <2>3. pc'[r] = "findTo" => call[r].op = "transfer"
    BY <2>1 DEF AfterRowTo, TypeOK
  <2>4. pc'[r] # "findTo" /\ exists[call[r].from]
    BY <1>1, <2>1 DEF AfterRowTo, RowsFound, TypeOK
  <2> QED
    BY <1>0, <1>1, <1>2, <2>1, <2>2, <2>3, <2>4 DEF RowsFound
<1>7. CASE Update(r)
  BY SMTT(60), <1>1, <1>2, <1>7 DEF Update, RowsFound, TypeOK
<1>8. CASE DecrementFrom(r)
  BY SMTT(60), <1>1, <1>2, <1>8 DEF DecrementFrom, RowsFound, TypeOK
<1>9. CASE IncrementTo(r)
  BY SMTT(60), <1>1, <1>2, <1>9 DEF IncrementTo, RowsFound, TypeOK
<1>10. CASE Reread(r) \/ PostLedger(r) \/ PostLedgerTo(r) \/ Fail(r)
  <2>1. /\ UNCHANGED <<exists, available, reserved>>
        /\ pc'[r] \in {"ledger", "ledgerTo", "done", "failed"}
    BY <1>10 DEF Reread, PostLedger, PostedAs, PostLedgerTo, PostedWith, Fail, TypeOK, tables
  <2> QED
    BY <1>2, <2>1 DEF RowsFound
<1> QED
  BY <1>3, <1>4, <1>5, <1>6, <1>7, <1>8, <1>9, <1>10 DEF Step

\* A step of the one outstanding call keeps what it knows of its row true, and
\* keeps every row from being overdrawn.
LEMMA StepKeepsFresh ==
    ASSUME TypeOK, SerialInv, NEW r \in Requests, Step(r)
    PROVE  Fresh' /\ NoneBelowZero'
<1> USE DEF Goto
<1>1. /\ call[r] \in Calls
      /\ call[r].from \in Cells /\ call[r].to \in Cells /\ call[r].qty \in Int
      /\ call[r].op \in Ops
      /\ call[r].op # "adjust" => call[r].qty > 0
      /\ call[r].op = "transfer" => call[r].from # call[r].to
  BY StepIsInFlight, CallIsWellFormed, CallsAssumption DEF InFlight, InFlightPC
<1>2. call' = call /\ \A s \in Requests \ {r} : pc'[s] = pc[s]
  BY StepIsLocal
<1>3. \A s \in Requests \ {r} : ~InFlight(s)
  BY StepIsInFlight DEF SerialInv, OneAtATime
<1>4. \A s \in Requests \ {r} : FreshCall(s)'
  BY <1>2, <1>3 DEF InFlight, InFlightPC, FreshCall
<1>5. FreshCall(r) /\ NoneBelowZero
  BY DEF SerialInv, Fresh
<1>6. FreshCall(r)' /\ NoneBelowZero'
  <2>1. CASE Find(r)
    BY SMTT(60), <1>1, <1>2, <1>5, <2>1 DEF Find, AfterRow, FreshCall, NoneBelowZero, TypeOK, tables
  <2>2. CASE Create(r)
    <3>1. /\ available' = available /\ reserved' = reserved /\ call' = call
          /\ (available[call[r].from] = 0 /\ reserved[call[r].from] = 0) \/ Goto(r, "failed")
          /\ Goto(r, "failed") \/ AfterRow(r, 0, 0)
      BY <1>1, <2>2, CreateEffect DEF SerialInv, Create, RowsFound
    <3> QED
      BY SMTT(60), <1>1, <1>5, <3>1 DEF AfterRow, FreshCall, NoneBelowZero, TypeOK
  <2>3. CASE FindTo(r)
    BY <1>1, <1>2, <1>5, <2>3
       DEF FindTo, AfterRowTo, FreshCall, NoneBelowZero, TypeOK, tables, Allowed
  <2>4. CASE CreateTo(r)
    <3>1. /\ available' = available /\ reserved' = reserved /\ call' = call /\ seen' = seen
          /\ pc[r] = "createTo"
          /\ Goto(r, "failed") \/ AfterRowTo(r, 0)
      BY <1>1, <2>4, CreateToEffect DEF SerialInv
    <3> QED
      BY <1>1, <1>5, <3>1 DEF AfterRowTo, FreshCall, NoneBelowZero, TypeOK, Allowed
  <2>5. CASE Update(r)
    BY SMTT(60), <1>1, <1>2, <1>5, <2>5
       DEF Update, FreshCall, NoneBelowZero, TypeOK, Allowed, NewAvailable, Signed,
           ReservedChange, Ops
  <2>6. CASE DecrementFrom(r)
    BY SMTT(60), <1>1, <1>2, <1>5, <2>6 DEF DecrementFrom, FreshCall, NoneBelowZero, TypeOK, Allowed
  <2>7. CASE IncrementTo(r)
    BY SMTT(60), <1>1, <1>2, <1>5, <2>7 DEF IncrementTo, FreshCall, NoneBelowZero, TypeOK, Allowed
  <2>8. CASE Reread(r) \/ PostLedger(r) \/ PostLedgerTo(r) \/ Fail(r)
    BY <1>1, <1>2, <1>5, <2>8
       DEF Reread, PostLedger, PostedAs, PostLedgerTo, PostedWith, Fail, FreshCall, NoneBelowZero,
           TypeOK, tables
  <2> QED
    BY <2>1, <2>2, <2>3, <2>4, <2>5, <2>6, <2>7, <2>8 DEF Step
<1> QED
  BY <1>4, <1>6 DEF Fresh

\* SerialInv is an invariant of behaviours that serve calls one at a time.
LEMMA SerialInvariant == Spec => [](serial => SerialInv)
<1>1. Init => SerialInv
  <2> SUFFICES ASSUME Init PROVE SerialInv
    OBVIOUS
  <2>1. RowsFound /\ NoneBelowZero
    <3>1. \A c \in Cells : /\ (exists[c] <=> Opening[c] > 0) /\ available[c] = Opening[c]
                          /\ reserved[c] = 0 /\ Opening[c] \in Nat
      BY OpeningAssumption DEF Init
    <3>2. \A s \in Requests : pc[s] = "idle"
      BY DEF Init
    <3>3. \A c \in Cells : /\ ~exists[c] => available[c] = 0 /\ reserved[c] = 0
                          /\ available[c] >= 0 /\ reserved[c] >= 0
      BY <3>1
    <3> QED
      BY <3>2, <3>3 DEF RowsFound, NoneBelowZero
  <2>2. OneAtATime /\ Fresh
    BY DEF Init, OneAtATime, InFlight, InFlightPC, Fresh, FreshCall
  <2> QED
    BY <2>1, <2>2 DEF SerialInv
<1>2. ASSUME TypeOK, serial => SerialInv, [Next]_vars, serial' PROVE SerialInv'
  <2>0. serial /\ SerialInv
    BY <1>2 DEF Next, vars
  <2>1. ASSUME NEW r \in Requests, NEW c \in Calls, Begin(r, c) PROVE SerialInv'
    <3>1. \A s \in Requests : ~InFlight(s)
      BY <2>0, <2>1 DEF Begin
    <3>2. /\ pc' = [pc EXCEPT ![r] = "find"]
          /\ \A s \in Requests : s # r => pc'[s] = pc[s] /\ call'[s] = call[s]
          /\ UNCHANGED <<tables, seen>>
      BY <1>2, <2>1 DEF Begin, Goto, TypeOK
    <3>3. RowsFound' /\ NoneBelowZero'
      BY <1>2, <2>0, <3>2 DEF SerialInv, RowsFound, NoneBelowZero, TypeOK, tables
    <3>4. OneAtATime' /\ Fresh'
      BY <1>2, <3>1, <3>2 DEF OneAtATime, InFlight, InFlightPC, Fresh, FreshCall, TypeOK
    <3> QED
      BY <3>3, <3>4 DEF SerialInv
  <2>2. ASSUME NEW r \in Requests, Step(r) PROVE SerialInv'
    <3>1. RowsFound'
      BY <1>2, <2>0, <2>2, StepKeepsRows DEF SerialInv
    <3>2. OneAtATime'
      BY <1>2, <2>0, <2>2, StepIsInFlight, StepIsLocal DEF SerialInv, OneAtATime, InFlight
    <3> QED
      BY <1>2, <2>0, <2>2, <3>1, <3>2, StepKeepsFresh DEF SerialInv
  <2>3. CASE UNCHANGED vars
    BY <2>0, <2>3
       DEF vars, SerialInv, RowsFound, OneAtATime, InFlight, Fresh, FreshCall, NoneBelowZero
  <2> QED
    BY <1>2, <2>1, <2>2, <2>3 DEF Next
<1> QED
  BY <1>1, <1>2, TypeCorrect, PTL DEF Spec

\* Calls served one at a time never overdraw a row, whichever statements fail.
THEOREM NeverOverdrawn == Spec => []NonNegative
<1>1. (serial => SerialInv) => NonNegative
  BY DEF SerialInv, NonNegative
<1> QED
  BY <1>1, SerialInvariant, PTL

-----------------------------------------------------------------------------
(* However calls interleave, the quantities of a row are what its ledger    *)
(* and the entries still owed say.                                          *)

\* Where a request stands and the rows it has changed and posted agree.
StageOf(r) ==
    /\ pc[r] \in {"idle", "find", "create", "findTo", "createTo", "update"}
           => moved[r] = {} /\ posted[r] = {}
    /\ pc[r] = "increment" => moved[r] = {"from"} /\ posted[r] = {}
    /\ pc[r] = "decrement" => moved[r] = {"to"} /\ posted[r] = {}
    /\ pc[r] = "reread" => moved[r] = Sides /\ posted[r] = {}
    /\ pc[r] = "ledger" => /\ moved[r] = (IF call[r].op = "transfer" THEN Sides ELSE {"from"})
                           /\ posted[r] = {}
    /\ pc[r] = "ledgerTo" => moved[r] = Sides /\ posted[r] = {"from"}
    /\ pc[r] \in {"increment", "decrement", "reread", "ledgerTo"} => call[r].op = "transfer"

Stages == \A r \in Requests : StageOf(r)

\* An adjustment writes what it computed from a read that is still current.
Accurate ==
    \A r \in Requests : pc[r] = "update" /\ call[r].op = "adjust"
                           => seen[r] = available[call[r].from]

\* An entry at the end of a ledger adds its quantity to the sum.
LEMMA AppendedQuantity ==
    ASSUME NEW s \in Seq(Entry), NEW e \in Entry, NEW T
    PROVE  /\ QuantitySum(s, T) \in Int
           /\ QuantitySum(Append(s, e), T) =
                  QuantitySum(s, T) + (IF e.type \in T THEN e.qty ELSE 0)
<1> DEFINE w == [i \in DOMAIN s |-> IF s[i].type \in T THEN s[i].qty ELSE 0]
           u == Append(s, e)
           v == [i \in DOMAIN u |-> IF u[i].type \in T THEN u[i].qty ELSE 0]
           n == Len(s)
<1>1. /\ n \in Nat /\ DOMAIN s = 1 .. n /\ DOMAIN u = (1 .. n) \cup {n + 1}
      /\ n + 1 \notin 1 .. n
  OBVIOUS
<1>2. IsFiniteSet(1 .. n)
  BY <1>1, FS_Interval
<1>3. ASSUME NEW i \in 1 .. n PROVE w[i] \in Int /\ v[i] = w[i]
  <2>1. s[i] \in Entry /\ u[i] = s[i] /\ i \in DOMAIN s /\ i \in DOMAIN u
    BY <1>1
  <2>2. s[i].qty \in Int
    BY <2>1 DEF Entry
  <2> HIDE DEF u
  <2> QED
    BY <2>1, <2>2
<1>4. v[n + 1] = (IF e.type \in T THEN e.qty ELSE 0) /\ v[n + 1] \in Int
  BY <1>1 DEF Entry
<1>5. SumFunctionOnSet(w, 1 .. n) \in Int
  BY <1>2, <1>3, SumType
<1>6. SumFunctionOnSet(v, 1 .. n) = SumFunctionOnSet(w, 1 .. n)
  BY <1>2, <1>3, SumCongruence
<1>7. SumFunctionOnSet(v, (1 .. n) \cup {n + 1}) = v[n + 1] + SumFunctionOnSet(v, 1 .. n)
  <2> \A i \in (1 .. n) \cup {n + 1} : v[i] \in Int
    BY <1>3, <1>4
  <2> HIDE DEF v
  <2> QED
    BY <1>1, <1>2, SumAdd
<1>8. /\ QuantitySum(s, T) = SumFunctionOnSet(w, 1 .. n)
      /\ QuantitySum(u, T) = SumFunctionOnSet(v, (1 .. n) \cup {n + 1})
  BY <1>1 DEF QuantitySum, SumFunction
<1> HIDE DEF w, v, n, u
<1> QED
  BY <1>4, <1>5, <1>6, <1>7, <1>8 DEF u

\* What a request owes a row is a number, nothing before it has moved stock.
LEMMA OwedIsTyped ==
    ASSUME TypeOK, Stages, NEW r \in Requests, NEW side \in Sides, NEW c, NEW ops
    PROVE  OwedTo(r, side, c, ops) \in Int
<1>1. CASE side \in Owed(r)
  <2>1. moved[r] # {}
    BY <1>1 DEF Owed
  <2>2. pc[r] # "idle"
    BY <2>1 DEF Stages, StageOf
  <2>3. Signed(call[r]) \in Int /\ call[r].qty \in Int
    BY <2>2, CallIsWellFormed
  <2> QED
    BY <2>3 DEF OwedTo
<1> QED
  BY <1>1 DEF OwedTo

\* A step of one request changes what is unposted by what it changes of its
\* own two debts.
LEMMA UnpostedChange ==
    ASSUME TypeOK, Stages, NEW r \in Requests, NEW c, NEW ops,
           \A s \in Requests \ {r} : /\ call'[s] = call[s]
                                     /\ moved'[s] = moved[s] /\ posted'[s] = posted[s],
           NEW from \in Int, from = OwedTo(r, "from", c, ops)',
           NEW to \in Int, to = OwedTo(r, "to", c, ops)'
    PROVE  /\ Unposted(c, ops) \in Int
           /\ Unposted(c, ops)' = Unposted(c, ops)
                  + (from - OwedTo(r, "from", c, ops)) + (to - OwedTo(r, "to", c, ops))
<1> DEFINE D == Requests \X Sides
           w == [p \in D |-> OwedTo(p[1], p[2], c, ops)]
           v == [p \in D |-> OwedTo(p[1], p[2], c, ops)']
           u == [w EXCEPT ![<<r, "from">>] = from]
           e == <<r, "from">>
           f == <<r, "to">>
           a == OwedTo(r, "from", c, ops)
           b == OwedTo(r, "to", c, ops)
<1>1. IsFiniteSet(D)
  <2>1. IsFiniteSet({"from"} \cup {"to"}) /\ {"from"} \cup {"to"} = Sides
    BY FS_Singleton, FS_AddElement DEF Sides
  <2> QED
    BY <2>1, RequestsAssumption, FS_Product
<1>2. <<r, "from">> \in D /\ <<r, "to">> \in D /\ <<r, "from">> # <<r, "to">>
  BY DEF Sides
<1>3. \A p \in D : w[p] \in Int
  BY OwedIsTyped
<1>4. /\ w[<<r, "from">>] = a /\ w[<<r, "to">>] = b /\ a \in Int /\ b \in Int
      /\ v[<<r, "from">>] = from /\ v[<<r, "to">>] = to
  BY <1>2, <1>3
<1>5. ASSUME NEW p \in D, p[1] # r PROVE v[p] = w[p]
  BY <1>5 DEF OwedTo, Owed
<1>6. \A p \in D : p[1] = r => p = <<r, "from">> \/ p = <<r, "to">>
  BY DEF Sides
<1>7. /\ \A p \in D : u[p] \in Int
      /\ u[<<r, "from">>] = from /\ u[<<r, "to">>] = b
      /\ \A p \in D \ {<<r, "from">>} : u[p] = w[p]
  BY <1>2, <1>3, <1>4
<1>8. \A p \in D \ {<<r, "to">>} : v[p] = u[p]
  BY <1>2, <1>4, <1>5, <1>6, <1>7
<1>9. SumFunctionOnSet(u, D) = SumFunctionOnSet(w, D) + (from - a)
  <2>1. /\ e \in D /\ u[e] \in Int /\ u[e] = from /\ w[e] = a
        /\ \A p \in D \ {e} : u[p] = w[p]
    BY <1>2, <1>4, <1>7
  <2> HIDE DEF u, w, v, D, a, b, e, f
  <2>2. SumFunctionOnSet(u, D) = SumFunctionOnSet(w, D) + (u[e] - w[e])
    BY <2>1, <1>1, <1>3, SumUpdate
  <2> QED
    BY <2>1, <2>2
<1>10. SumFunctionOnSet(v, D) = SumFunctionOnSet(u, D) + (to - b)
  <2>1. /\ f \in D /\ v[f] \in Int /\ v[f] = to /\ u[f] = b
        /\ \A p \in D \ {f} : v[p] = u[p]
    BY <1>2, <1>4, <1>7, <1>8
  <2> HIDE DEF u, w, v, D, a, b, e, f
  <2>2. SumFunctionOnSet(v, D) = SumFunctionOnSet(u, D) + (v[f] - u[f])
    BY <2>1, <1>1, <1>7, SumUpdate
  <2> QED
    BY <2>1, <2>2
<1>11. SumFunctionOnSet(w, D) \in Int
  BY <1>1, <1>3, SumType
<1>12. /\ Unposted(c, ops) = SumFunctionOnSet(w, D)
       /\ Unposted(c, ops)' = SumFunctionOnSet(v, D)
  BY DEF Unposted, SumFunction
<1> HIDE DEF u, w, v, D, a, b
<1> QED
  BY <1>4, <1>9, <1>10, <1>11, <1>12 DEF a, b

\* Every step keeps the stage of its request.
LEMMA StepKeepsStages ==
    ASSUME TypeOK, Stages, NEW r \in Requests, Step(r)
    PROVE  Stages'
<1> USE DEF Goto, StageOf
<1>1. /\ call' = call
      /\ \A s \in Requests \ {r} : pc'[s] = pc[s] /\ moved'[s] = moved[s] /\ posted'[s] = posted[s]
  <2>1. \A s \in Requests \ {r} : moved'[s] = moved[s]
    BY DEF Step, Find, Create, FindTo, CreateTo, Update, DecrementFrom, IncrementTo,
           Reread, PostLedger, PostedAs, PostLedgerTo, PostedWith, Fail, TypeOK
  <2>2. \A s \in Requests \ {r} : posted'[s] = posted[s]
    BY DEF Step, Find, Create, FindTo, CreateTo, Update, DecrementFrom, IncrementTo,
           Reread, PostLedger, PostedAs, PostLedgerTo, PostedWith, Fail, TypeOK
  <2> QED
    BY <2>1, <2>2, StepIsLocal
<1>2. StageOf(r)
  BY DEF Stages
<1>3. StageOf(r)'
  <2>1. CASE Find(r)
    BY <1>2, <2>1 DEF Find, AfterRow, TypeOK
  <2>2. CASE Create(r)
    <3>1. /\ pc[r] = "create" /\ UNCHANGED <<moved, posted>>
          /\ Goto(r, "failed") \/ AfterRow(r, 0, 0)
      BY <2>2 DEF Create
    <3> QED
      BY <1>2, <3>1 DEF AfterRow, TypeOK
  <2>3. CASE FindTo(r)
    BY <1>2, <2>3 DEF FindTo, AfterRowTo, TypeOK
  <2>4. CASE CreateTo(r)
    <3>1. /\ pc[r] = "createTo" /\ UNCHANGED <<moved, posted>>
          /\ Goto(r, "failed") \/ AfterRowTo(r, 0)
      BY <2>4 DEF CreateTo
    <3> QED
      BY <1>2, <3>1 DEF AfterRowTo, TypeOK
  <2>5. CASE Update(r)
    BY <1>1, <1>2, <2>5 DEF Update, TypeOK
  <2>6. CASE DecrementFrom(r)
    BY <1>1, <1>2, <2>6 DEF DecrementFrom, TypeOK, Sides
  <2>7. CASE IncrementTo(r)
    BY <1>1, <1>2, <2>7 DEF IncrementTo, TypeOK, Sides
  <2>8. CASE Reread(r)
    BY <1>1, <1>2, <2>8 DEF Reread, TypeOK
  <2>9. CASE PostLedger(r)
    BY <1>1, <1>2, <2>9 DEF PostLedger, PostedAs, TypeOK
  <2>10. CASE PostLedgerTo(r)
    BY <1>1, <1>2, <2>10 DEF PostLedgerTo, PostedWith, TypeOK
  <2>11. CASE Fail(r)
    BY <1>1, <1>2, <2>11 DEF Fail, TypeOK
  <2> QED
    BY <2>1, <2>2, <2>3, <2>4, <2>5, <2>6, <2>7, <2>8, <2>9, <2>10, <2>11 DEF Step
<1> QED
  BY <1>1, <1>3 DEF Stages

\* The call of a request that has begun, and what the reserved quantity makes
\* of it.
LEMMA SignedReserve ==
    ASSUME NEW c \in Call
    PROVE  ReservedChange(c) = -(IF c.op \in {"reserve", "release"} THEN Signed(c) ELSE 0)
BY DEF Call, Ops, ReservedChange, Signed

\* Moving stock and owing the ledger for it, or paying a debt to the ledger,
\* leaves the books balanced.
LEMMA StepReconciles ==
    ASSUME TypeOK, RowsFound, Stages, Accurate, BooksAgree, NEW r \in Requests, Step(r)
    PROVE  BooksAgree'
<1> DEFINE RR == {"reserve", "release"}
           RL == {"RESERVATION", "RELEASE"}
           from == call[r].from
           to == call[r].to
           q == Signed(call[r])
           rq == IF call[r].op \in RR THEN q ELSE 0
<1>1. /\ pc[r] # "idle" /\ call[r] \in Calls /\ call[r] \in Call /\ call[r].op \in Ops
      /\ from \in Cells /\ to \in Cells /\ call[r].qty \in Int /\ q \in Int /\ rq \in Int
  BY StepIsInFlight, CallIsWellFormed DEF InFlight, InFlightPC
<1>2. call' = call
  BY StepIsLocal
<1>3. ASSUME NEW c \in Cells
      PROVE  /\ available[c] = LedgerSum(c, Types) + Unposted(c, Ops)
             /\ reserved[c] = -LedgerSum(c, RL) - Unposted(c, RR)
             /\ LedgerSum(c, Types) \in Int /\ LedgerSum(c, RL) \in Int
             /\ available[c] \in Int /\ reserved[c] \in Int
  <2>1. PICK e : e \in Entry
    <3>1. [type |-> "ADJUSTMENT", qty |-> 0, prev |-> 0, new |-> 0] \in Entry
      BY DEF Entry, Types
    <3> QED
      BY <3>1
  <2>2. ledger[c] \in Seq(Entry)
    BY DEF TypeOK
  <2> QED
    BY <2>1, <2>2, AppendedQuantity
       DEF BooksAgree, AvailableReconciled, ReservedReconciled, LedgerSum, TypeOK
<1>4. CASE Find(r) \/ Create(r) \/ FindTo(r) \/ CreateTo(r) \/ Reread(r) \/ Fail(r)
  <2>1. available' = available /\ reserved' = reserved
    BY <1>1, <1>4, CreateEffect, CreateToEffect DEF Find, FindTo, Reread, Fail, tables
  <2>2. ledger' = ledger
    BY <1>4 DEF Find, Create, FindTo, CreateTo, Reread, Fail, tables
  <2>3. moved' = moved /\ posted' = posted
    BY <1>4 DEF Find, Create, FindTo, CreateTo, Reread, Fail
  <2> QED
    BY ZenonT(60), <1>2, <2>1, <2>2, <2>3
       DEF BooksAgree, AvailableReconciled, ReservedReconciled, LedgerSum, Unposted, OwedTo, Owed
<1>5. CASE Update(r)
  <2>1. /\ moved[r] = {} /\ posted[r] = {} /\ call[r].op # "transfer"
        /\ moved' = [moved EXCEPT ![r] = {"from"}] /\ posted' = posted /\ ledger' = ledger
        /\ available' = [available EXCEPT ![from] = NewAvailable(call[r], available[from], seen[r])]
        /\ reserved' = [reserved EXCEPT ![from] = @ + ReservedChange(call[r])]
    BY <1>5 DEF Update, Stages, StageOf
  <2>2. NewAvailable(call[r], available[from], seen[r]) = available[from] + q
    BY <1>1, <1>5 DEF Update, Accurate, NewAvailable, Signed
  <2>3. ReservedChange(call[r]) = -rq
    BY <1>1, SignedReserve
  <2>4. ASSUME NEW c \in Cells, NEW ops
        PROVE  /\ Unposted(c, ops) \in Int
               /\ Unposted(c, ops)' = Unposted(c, ops)
                      + (IF c = from /\ call[r].op \in ops THEN q ELSE 0)
    <3>1. /\ OwedTo(r, "from", c, ops) = 0 /\ OwedTo(r, "to", c, ops) = 0
          /\ OwedTo(r, "to", c, ops)' = 0
          /\ OwedTo(r, "from", c, ops)' = (IF c = from /\ call[r].op \in ops THEN q ELSE 0)
      BY <1>1, <1>2, <2>1 DEF OwedTo, Owed, TypeOK
    <3>2. \A s \in Requests \ {r} : /\ call'[s] = call[s] /\ moved'[s] = moved[s]
                                    /\ posted'[s] = posted[s]
      BY <1>2, <2>1 DEF TypeOK
    <3>3. OwedTo(r, "from", c, ops)' \in Int /\ OwedTo(r, "to", c, ops)' \in Int
      BY <1>1, <3>1
    <3> QED
      BY <1>1, <3>1, <3>2, <3>3, UnpostedChange
  <2>5. ASSUME NEW c \in Cells
        PROVE  /\ available'[c] = LedgerSum(c, Types)' + Unposted(c, Ops)'
               /\ reserved'[c] = -LedgerSum(c, RL)' - Unposted(c, RR)'
    <3>1. LedgerSum(c, Types)' = LedgerSum(c, Types) /\ LedgerSum(c, RL)' = LedgerSum(c, RL)
      BY <2>1 DEF LedgerSum
    <3>2. /\ available'[c] = available[c] + (IF c = from THEN q ELSE 0)
          /\ reserved'[c] = reserved[c] - (IF c = from THEN rq ELSE 0)
      <4>1. /\ available'[c] = (IF c = from THEN available[c] + q ELSE available[c])
            /\ reserved'[c] = (IF c = from THEN reserved[c] + -rq ELSE reserved[c])
        BY <1>1, <2>1, <2>2, <2>3 DEF TypeOK
      <4> HIDE DEF q, rq, from
      <4> QED
        BY <1>1, <1>3, <4>1
    <3>3. /\ Unposted(c, Ops)' = Unposted(c, Ops) + (IF c = from THEN q ELSE 0)
          /\ Unposted(c, RR)' = Unposted(c, RR) + (IF c = from THEN rq ELSE 0)
          /\ Unposted(c, Ops) \in Int /\ Unposted(c, RR) \in Int
      BY <1>1, <2>4
    <3> HIDE DEF q, rq, RL, RR, from
    <3> QED
      BY <1>1, <1>3, <3>1, <3>2, <3>3
  <2> QED
    BY <2>5 DEF BooksAgree, AvailableReconciled, ReservedReconciled
<1>6. CASE DecrementFrom(r)
  <2>1. /\ "from" \notin moved[r] /\ posted[r] = {} /\ call[r].op = "transfer"
        /\ moved' = [moved EXCEPT ![r] = @ \cup {"from"}] /\ posted' = posted /\ ledger' = ledger
        /\ available' = [available EXCEPT ![from] = available[from] - call[r].qty]
        /\ reserved' = reserved
    BY <1>6 DEF DecrementFrom, Stages, StageOf
  <2>2. q = -call[r].qty
    BY <2>1 DEF Signed
  <2>3. ASSUME NEW c \in Cells, NEW ops
        PROVE  /\ Unposted(c, ops) \in Int
               /\ Unposted(c, ops)' = Unposted(c, ops)
                      + (IF c = from /\ call[r].op \in ops THEN q ELSE 0)
    <3>1. /\ OwedTo(r, "from", c, ops) = 0
          /\ OwedTo(r, "to", c, ops)' = OwedTo(r, "to", c, ops)
          /\ OwedTo(r, "from", c, ops)' = (IF c = from /\ call[r].op \in ops THEN q ELSE 0)
      BY <1>1, <1>2, <2>1 DEF OwedTo, Owed, TypeOK
    <3>2. \A s \in Requests \ {r} : /\ call'[s] = call[s] /\ moved'[s] = moved[s]
                                    /\ posted'[s] = posted[s]
      BY <1>2, <2>1 DEF TypeOK
    <3>3. OwedTo(r, "from", c, ops)' \in Int /\ OwedTo(r, "to", c, ops)' \in Int
      BY <1>1, <3>1, OwedIsTyped DEF Sides
    <3> QED
      BY <1>1, <3>1, <3>2, <3>3, UnpostedChange
  <2>4. ASSUME NEW c \in Cells
        PROVE  /\ available'[c] = LedgerSum(c, Types)' + Unposted(c, Ops)'
               /\ reserved'[c] = -LedgerSum(c, RL)' - Unposted(c, RR)'
    <3>1. LedgerSum(c, Types)' = LedgerSum(c, Types) /\ LedgerSum(c, RL)' = LedgerSum(c, RL)
      BY <2>1 DEF LedgerSum
    <3>2. /\ available'[c] = available[c] + (IF c = from THEN q ELSE 0)
          /\ reserved'[c] = reserved[c]
      <4>1. /\ available'[c] = (IF c = from THEN available[c] - call[r].qty ELSE available[c])
            /\ reserved'[c] = reserved[c]
        BY <1>1, <2>1 DEF TypeOK
      <4> HIDE DEF q, from
      <4> QED
        BY <1>1, <1>3, <2>2, <4>1
    <3>3. /\ Unposted(c, Ops)' = Unposted(c, Ops) + (IF c = from THEN q ELSE 0)
          /\ Unposted(c, RR)' = Unposted(c, RR)
          /\ Unposted(c, Ops) \in Int /\ Unposted(c, RR) \in Int
      BY <1>1, <2>1, <2>3
    <3> HIDE DEF q, rq, RL, RR, from
    <3> QED
      BY <1>1, <1>3, <3>1, <3>2, <3>3
  <2> QED
    BY <2>4 DEF BooksAgree, AvailableReconciled, ReservedReconciled
<1>7. CASE IncrementTo(r)
  <2> DEFINE n == call[r].qty
  <2>1. /\ "to" \notin moved[r] /\ posted[r] = {} /\ call[r].op = "transfer"
        /\ moved' = [moved EXCEPT ![r] = @ \cup {"to"}] /\ posted' = posted /\ ledger' = ledger
        /\ available' = [available EXCEPT ![to] = @ + n]
        /\ reserved' = reserved
    BY <1>7 DEF IncrementTo, Stages, StageOf
  <2>3. ASSUME NEW c \in Cells, NEW ops
        PROVE  /\ Unposted(c, ops) \in Int
               /\ Unposted(c, ops)' = Unposted(c, ops)
                      + (IF c = to /\ call[r].op \in ops THEN n ELSE 0)
    <3>1. /\ OwedTo(r, "to", c, ops) = 0
          /\ OwedTo(r, "from", c, ops)' = OwedTo(r, "from", c, ops)
          /\ OwedTo(r, "to", c, ops)' = (IF c = to /\ call[r].op \in ops THEN n ELSE 0)
      BY <1>1, <1>2, <2>1 DEF OwedTo, Owed, TypeOK
    <3>2. \A s \in Requests \ {r} : /\ call'[s] = call[s] /\ moved'[s] = moved[s]
                                    /\ posted'[s] = posted[s]
      BY <1>2, <2>1 DEF TypeOK
    <3>3. OwedTo(r, "from", c, ops)' \in Int /\ OwedTo(r, "to", c, ops)' \in Int
      BY <1>1, <3>1, OwedIsTyped DEF Sides
    <3> QED
      BY <1>1, <3>1, <3>2, <3>3, UnpostedChange
  <2>4. ASSUME NEW c \in Cells
        PROVE  /\ available'[c] = LedgerSum(c, Types)' + Unposted(c, Ops)'
               /\ reserved'[c] = -LedgerSum(c, RL)' - Unposted(c, RR)'
    <3>1. LedgerSum(c, Types)' = LedgerSum(c, Types) /\ LedgerSum(c, RL)' = LedgerSum(c, RL)
      BY <2>1 DEF LedgerSum
    <3>2. /\ available'[c] = available[c] + (IF c = to THEN n ELSE 0)
          /\ reserved'[c] = reserved[c]
      BY SMTT(60), <1>1, <1>3, <2>1 DEF TypeOK
    <3>3. /\ Unposted(c, Ops)' = Unposted(c, Ops) + (IF c = to THEN n ELSE 0)
          /\ Unposted(c, RR)' = Unposted(c, RR)
          /\ Unposted(c, Ops) \in Int /\ Unposted(c, RR) \in Int
      BY <1>1, <2>1, <2>3
    <3>4. n \in Int
      BY <1>1
    <3> HIDE DEF n, RL, RR, to
    <3> QED
      BY <1>3, <3>1, <3>2, <3>3, <3>4
  <2> QED
    BY <2>4 DEF BooksAgree, AvailableReconciled, ReservedReconciled
<1>8. CASE PostLedger(r)
  <2> DEFINE e == [type |-> EntryType[call[r].op], qty |-> q, prev |-> seen[r], new |-> wrote[r]]
  <2>1. /\ "from" \in moved[r] /\ posted[r] = {}
        /\ moved' = moved /\ posted' = [posted EXCEPT ![r] = {"from"}]
        /\ ledger' = [ledger EXCEPT ![from] = Append(@, e)]
        /\ available' = available /\ reserved' = reserved
    BY <1>8 DEF PostLedger, PostedAs, Stages, StageOf, Sides
  <2>2. e \in Entry /\ e.qty = q /\ e.type \in Types /\ (e.type \in RL <=> call[r].op \in RR)
    <3>1. e \in Entry
      BY <1>1, EntryIsTyped DEF TypeOK
    <3>2. e.qty = q /\ e.type = EntryType[call[r].op]
      OBVIOUS
    <3>3. e.type \in Types /\ (e.type \in RL <=> call[r].op \in RR)
      BY <1>1, <3>2 DEF Types, EntryType, Ops
    <3> QED
      BY <3>1, <3>2, <3>3
  <2>3. ASSUME NEW c \in Cells, NEW ops
        PROVE  /\ Unposted(c, ops) \in Int
               /\ Unposted(c, ops)' = Unposted(c, ops)
                      - (IF c = from /\ call[r].op \in ops THEN q ELSE 0)
    <3> DEFINE o == IF c = from /\ call[r].op \in ops THEN q ELSE 0
    <3>1. /\ OwedTo(r, "from", c, ops) = o
          /\ OwedTo(r, "to", c, ops)' = OwedTo(r, "to", c, ops)
          /\ OwedTo(r, "from", c, ops)' = 0
      BY <1>1, <1>2, <2>1 DEF OwedTo, Owed, TypeOK
    <3>2. \A s \in Requests \ {r} : /\ call'[s] = call[s] /\ moved'[s] = moved[s]
                                    /\ posted'[s] = posted[s]
      BY <1>2, <2>1 DEF TypeOK
    <3>3. /\ OwedTo(r, "from", c, ops)' \in Int /\ OwedTo(r, "to", c, ops)' \in Int /\ o \in Int
          /\ OwedTo(r, "to", c, ops) \in Int
      BY <1>1, <3>1, OwedIsTyped DEF Sides
    <3> HIDE DEF o
    <3>4. /\ Unposted(c, ops) \in Int
          /\ Unposted(c, ops)' = Unposted(c, ops) + (0 - o)
                + (OwedTo(r, "to", c, ops) - OwedTo(r, "to", c, ops))
      BY <3>1, <3>2, <3>3, UnpostedChange
    <3>5. Unposted(c, ops)' = Unposted(c, ops) - o
      BY <3>3, <3>4
    <3> QED
      BY <3>4, <3>5 DEF o
  <2>4. ASSUME NEW c \in Cells
        PROVE  /\ available'[c] = LedgerSum(c, Types)' + Unposted(c, Ops)'
               /\ reserved'[c] = -LedgerSum(c, RL)' - Unposted(c, RR)'
    <3>1. ledger[c] \in Seq(Entry) /\ ledger'[c] = (IF c = from THEN Append(ledger[c], e) ELSE ledger[c])
      BY <1>1, <2>1 DEF TypeOK
    <3>2. /\ LedgerSum(c, Types)' = LedgerSum(c, Types) + (IF c = from THEN q ELSE 0)
          /\ LedgerSum(c, RL)' = LedgerSum(c, RL) + (IF c = from THEN rq ELSE 0)
      <4>1. CASE c = from
        BY <2>2, <3>1, <4>1, AppendedQuantity DEF LedgerSum
      <4>2. CASE c # from
        BY <1>3, <3>1, <4>2 DEF LedgerSum
      <4> QED
        BY <4>1, <4>2
    <3>3. /\ Unposted(c, Ops)' = Unposted(c, Ops) - (IF c = from THEN q ELSE 0)
          /\ Unposted(c, RR)' = Unposted(c, RR) - (IF c = from THEN rq ELSE 0)
          /\ Unposted(c, Ops) \in Int /\ Unposted(c, RR) \in Int
      BY <1>1, <2>3
    <3>4. available'[c] = available[c] /\ reserved'[c] = reserved[c]
      BY <2>1
    <3> HIDE DEF q, rq, RL, RR, from, e
    <3> QED
      BY <1>1, <1>3, <3>2, <3>3, <3>4
  <2> QED
    BY <2>4 DEF BooksAgree, AvailableReconciled, ReservedReconciled
<1>9. CASE PostLedgerTo(r)
  <2> DEFINE n == call[r].qty
             e == [type |-> "TRANSFER_IN", qty |-> n, prev |-> seenTo[r], new |-> wroteTo[r]]
  <2>1. /\ "to" \in moved[r] /\ posted[r] = {"from"} /\ call[r].op = "transfer"
        /\ moved' = moved /\ posted' = [posted EXCEPT ![r] = @ \cup {"to"}]
        /\ ledger' = [ledger EXCEPT ![to] = Append(@, e)]
        /\ available' = available /\ reserved' = reserved
    BY <1>9 DEF PostLedgerTo, PostedWith, Stages, StageOf, Sides
  <2>2. n \in Int /\ e \in Entry /\ e.qty = n /\ e.type \in Types /\ e.type \notin RL
    BY <1>1, <2>1, EntryIsTyped DEF TypeOK, Types
  <2>3. ASSUME NEW c \in Cells, NEW ops
        PROVE  /\ Unposted(c, ops) \in Int
               /\ Unposted(c, ops)' = Unposted(c, ops)
                      - (IF c = to /\ call[r].op \in ops THEN n ELSE 0)
    <3> DEFINE o == IF c = to /\ call[r].op \in ops THEN n ELSE 0
    <3>1. /\ OwedTo(r, "to", c, ops) = o
          /\ OwedTo(r, "from", c, ops)' = OwedTo(r, "from", c, ops)
          /\ OwedTo(r, "to", c, ops)' = 0
      BY <1>1, <1>2, <2>1 DEF OwedTo, Owed, TypeOK
    <3>2. \A s \in Requests \ {r} : /\ call'[s] = call[s] /\ moved'[s] = moved[s]
                                    /\ posted'[s] = posted[s]
      BY <1>2, <2>1 DEF TypeOK
    <3>3. /\ OwedTo(r, "from", c, ops)' \in Int /\ OwedTo(r, "to", c, ops)' \in Int /\ o \in Int
          /\ OwedTo(r, "from", c, ops) \in Int
      BY <1>1, <3>1, OwedIsTyped DEF Sides
    <3> HIDE DEF o
    <3>4. /\ Unposted(c, ops) \in Int
          /\ Unposted(c, ops)' = Unposted(c, ops)
                + (OwedTo(r, "from", c, ops) - OwedTo(r, "from", c, ops)) + (0 - o)
      BY <3>1, <3>2, <3>3, UnpostedChange
    <3>5. Unposted(c, ops)' = Unposted(c, ops) - o
      BY <3>3, <3>4
    <3> QED
      BY <3>4, <3>5 DEF o
  <2>4. ASSUME NEW c \in Cells
        PROVE  /\ available'[c] = LedgerSum(c, Types)' + Unposted(c, Ops)'
               /\ reserved'[c] = -LedgerSum(c, RL)' - Unposted(c, RR)'
    <3>1. ledger[c] \in Seq(Entry) /\ ledger'[c] = (IF c = to THEN Append(ledger[c], e) ELSE ledger[c])
      BY <1>1, <2>1 DEF TypeOK
    <3>2. /\ LedgerSum(c, Types)' = LedgerSum(c, Types) + (IF c = to THEN n ELSE 0)
          /\ LedgerSum(c, RL)' = LedgerSum(c, RL)
      <4>1. CASE c = to
        <5> HIDE DEF e
        <5>1. /\ LedgerSum(c, Types)' = LedgerSum(c, Types) + (IF e.type \in Types THEN e.qty ELSE 0)
              /\ LedgerSum(c, RL)' = LedgerSum(c, RL) + (IF e.type \in RL THEN e.qty ELSE 0)
          BY <2>2, <3>1, <4>1, AppendedQuantity DEF LedgerSum
        <5> QED
          BY <1>3, <2>2, <4>1, <5>1
      <4>2. CASE c # to
        BY <1>3, <3>1, <4>2 DEF LedgerSum
      <4> QED
        BY <4>1, <4>2
    <3>3. /\ Unposted(c, Ops)' = Unposted(c, Ops) - (IF c = to THEN n ELSE 0)
          /\ Unposted(c, RR)' = Unposted(c, RR)
          /\ Unposted(c, Ops) \in Int /\ Unposted(c, RR) \in Int
      BY <1>1, <2>1, <2>3
    <3>4. available'[c] = available[c] /\ reserved'[c] = reserved[c]
      BY <2>1
    <3> HIDE DEF n, RL, RR, to, e
    <3> QED
      BY <1>3, <2>2, <3>2, <3>3, <3>4
  <2> QED
    BY <2>4 DEF BooksAgree, AvailableReconciled, ReservedReconciled
<1> QED
  BY <1>4, <1>5, <1>6, <1>7, <1>8, <1>9 DEF Step

\* Before any call a row holds what its opening entry received, and a call
\* begins without debts.
LEMMA ReconciledAtFirst ==
    ASSUME Init
    PROVE  RowsFound /\ Stages /\ BooksAgree
<1>1. RowsFound
  <2>1. \A c \in Cells : /\ (exists[c] <=> Opening[c] > 0) /\ available[c] = Opening[c]
                        /\ reserved[c] = 0 /\ Opening[c] \in Nat
    BY OpeningAssumption DEF Init
  <2>2. \A s \in Requests : pc[s] = "idle"
    BY DEF Init
  <2>3. \A c \in Cells : ~exists[c] => available[c] = 0 /\ reserved[c] = 0
    BY <2>1
  <2> QED
    BY <2>2, <2>3 DEF RowsFound
<1>2. Stages
  BY DEF Init, Stages, StageOf
<1>3. ASSUME NEW c, NEW ops PROVE Unposted(c, ops) = 0
  <2> DEFINE D == Requests \X Sides
             w == [p \in D |-> OwedTo(p[1], p[2], c, ops)]
  <2>1. IsFiniteSet(D)
    <3>1. IsFiniteSet({"from"} \cup {"to"}) /\ {"from"} \cup {"to"} = Sides
      BY FS_Singleton, FS_AddElement DEF Sides
    <3> QED
      BY <3>1, RequestsAssumption, FS_Product
  <2>2. \A p \in D : w[p] = 0
    BY DEF Init, OwedTo, Owed
  <2>3. SumFunctionOnSet(w, D) = 0
    <3> HIDE DEF w, D
    <3> QED
      BY <2>1, <2>2, SumZero
  <2> QED
    BY <2>3 DEF Unposted, SumFunction
<1>4. ASSUME NEW c \in Cells
      PROVE  LedgerSum(c, Types) = Opening[c] /\ LedgerSum(c, {"RESERVATION", "RELEASE"}) = 0
  <2> DEFINE e == [type |-> "PURCHASE", qty |-> Opening[c], prev |-> 0, new |-> Opening[c]]
  <2>1. /\ Opening[c] \in Nat /\ ledger[c] = (IF Opening[c] > 0 THEN <<e>> ELSE <<>>)
        /\ <<e>> = Append(<<>>, e) /\ <<>> \in Seq(Entry)
        /\ Opening[c] > 0 => e \in Entry
        /\ e.type \in Types /\ e.type \notin {"RESERVATION", "RELEASE"} /\ e.qty = Opening[c]
    BY OpeningAssumption DEF Init, Entry, Types
  <2>2. ASSUME NEW T PROVE QuantitySum(<<>>, T) = 0
    BY SumEmpty DEF QuantitySum, SumFunction
  <2> HIDE DEF e
  <2>3. ASSUME Opening[c] > 0
        PROVE  /\ QuantitySum(<<e>>, Types) = Opening[c]
               /\ QuantitySum(<<e>>, {"RESERVATION", "RELEASE"}) = 0
    <3>1. ASSUME NEW T
          PROVE  QuantitySum(<<e>>, T) = 0 + (IF e.type \in T THEN e.qty ELSE 0)
      <4> DEFINE empty == <<>>
                 one == <<e>>
      <4>1. /\ empty \in Seq(Entry) /\ e \in Entry /\ one = Append(empty, e)
            /\ QuantitySum(empty, T) = 0
        BY <2>1, <2>2, <2>3
      <4> HIDE DEF empty, one
      <4>2. QuantitySum(one, T) = QuantitySum(empty, T) + (IF e.type \in T THEN e.qty ELSE 0)
        BY <4>1, AppendedQuantity
      <4> QED
        BY <4>1, <4>2 DEF one
    <3> QED
      BY <2>1, <3>1
  <2> QED
    BY <2>1, <2>2, <2>3 DEF LedgerSum
<1>5. \A c \in Cells : available[c] = Opening[c] /\ Opening[c] \in Nat /\ reserved[c] = 0
  BY OpeningAssumption DEF Init
<1>6. BooksAgree
  BY <1>3, <1>4, <1>5 DEF BooksAgree, AvailableReconciled, ReservedReconciled
<1> QED
  BY <1>1, <1>2, <1>6

\* The beginning of a call changes no row and owes nothing.
LEMMA BeginReconciles ==
    ASSUME TypeOK, RowsFound, Stages,
           NEW r \in Requests, NEW k \in Calls, Begin(r, k)
    PROVE  RowsFound' /\ Stages' /\ (BooksAgree => BooksAgree')
<1>1. /\ pc[r] = "idle" /\ pc' = [pc EXCEPT ![r] = "find"] /\ call' = [call EXCEPT ![r] = k]
      /\ UNCHANGED <<tables, moved, posted>> /\ moved[r] = {}
  BY DEF Begin, Goto, Stages, StageOf
<1>2. \A s \in Requests \ {r} : pc'[s] = pc[s] /\ call'[s] = call[s]
  BY <1>1 DEF TypeOK
<1>3. pc'[r] = "find"
  BY <1>1 DEF TypeOK
<1>4. RowsFound'
  BY <1>1, <1>2, <1>3 DEF RowsFound, tables
<1>5. Stages'
  BY <1>1, <1>2, <1>3 DEF Stages, StageOf
<1>6. ASSUME NEW c, NEW ops PROVE Unposted(c, ops)' = Unposted(c, ops)
  <2>1. \A p \in Requests \X Sides : OwedTo(p[1], p[2], c, ops)' = OwedTo(p[1], p[2], c, ops)
    BY <1>1, <1>2 DEF OwedTo, Owed
  <2> QED
    BY <2>1 DEF Unposted
<1>7. BooksAgree => BooksAgree'
  BY <1>1, <1>6 DEF BooksAgree, AvailableReconciled, ReservedReconciled, LedgerSum, tables
<1> QED
  BY <1>4, <1>5, <1>7

\* However the statements of calls interleave and wherever they fail, both
\* quantities of every row are what its ledger and the entries still owed say,
\* as long as no call has been an adjustment, or calls do not overlap: an
\* adjustment then writes from a read that is still current.
THEOREM AlwaysReconciled == Spec => []Reconciled
<1> DEFINE Inv == RowsFound /\ Stages /\ Reconciled
<1>1. Init => Inv
  BY ReconciledAtFirst DEF Reconciled
<1>2. ASSUME TypeOK, serial => SerialInv, Inv, [Next]_vars PROVE Inv'
  <2>1. ASSUME NEW r \in Requests, NEW c \in Calls, Begin(r, c) PROVE Inv'
    <3>1. serial' = serial /\ (NoneAdjusts' => NoneAdjusts)
      <4>1. /\ pc[r] = "idle"
            /\ \A s \in Requests : s # r => pc'[s] = pc[s] /\ call'[s] = call[s]
        BY <1>2, <2>1 DEF Begin, Goto, TypeOK
      <4>2. serial' = serial
        BY <1>2 DEF Next, vars
      <4> QED
        BY <4>1, <4>2 DEF NoneAdjusts
    <3>2. (serial \/ NoneAdjusts)' => BooksAgree
      BY <1>2, <3>1 DEF Reconciled
    <3>3. RowsFound' /\ Stages' /\ (BooksAgree => BooksAgree')
      BY <1>2, <2>1, BeginReconciles
    <3> QED
      BY <3>2, <3>3 DEF Reconciled
  <2>2. ASSUME NEW r \in Requests, Step(r) PROVE Inv'
    <3>1. serial' = serial /\ (NoneAdjusts' => NoneAdjusts)
      <4>1. call' = call /\ pc[r] # "idle" /\ pc'[r] # "idle"
        BY <1>2, <2>2, StepIsLocal, StepIsInFlight
           DEF Goto, TypeOK, InFlight, InFlightPC, SettledPC
      <4>2. \A s \in Requests \ {r} : pc'[s] = pc[s]
        BY <1>2, <2>2, StepIsLocal
      <4>3. serial' = serial
        BY <1>2 DEF Next, vars
      <4> QED
        BY <4>1, <4>2, <4>3 DEF NoneAdjusts
    <3>2. (serial \/ NoneAdjusts)' => BooksAgree /\ Accurate
      <4>1. serial \/ NoneAdjusts => Accurate
        BY <1>2 DEF SerialInv, Fresh, FreshCall, NoneAdjusts, Accurate
      <4> QED
        BY <1>2, <3>1, <4>1 DEF Reconciled
    <3>3. RowsFound' /\ Stages' /\ (BooksAgree /\ Accurate => BooksAgree')
      BY <1>2, <2>2, StepKeepsRows, StepKeepsStages, StepReconciles
    <3> QED
      BY <3>2, <3>3 DEF Reconciled
  <2>3. CASE UNCHANGED vars
    <3>1. RowsFound'
      BY <1>2, <2>3 DEF vars, RowsFound
    <3>2. Stages'
      BY <1>2, <2>3 DEF vars, Stages, StageOf
    <3>3. BooksAgree => BooksAgree'
      <4>1. ASSUME NEW c, NEW ops PROVE Unposted(c, ops)' = Unposted(c, ops)
        BY <2>3 DEF vars, Unposted, OwedTo, Owed
      <4> QED
        BY <2>3, <4>1 DEF vars, BooksAgree, AvailableReconciled, ReservedReconciled, LedgerSum
    <3>4. Reconciled'
      BY <1>2, <2>3, <3>3 DEF vars, Reconciled, NoneAdjusts
    <3> QED
      BY <3>1, <3>2, <3>4
  <2> QED
    BY <1>2, <2>1, <2>2, <2>3 DEF Next
<1>3. Inv => Reconciled
  OBVIOUS
<1> QED
  BY <1>1, <1>2, <1>3, TypeCorrect, SerialInvariant, PTL DEF Spec

-----------------------------------------------------------------------------
(* One call at a time: the ledger tells the history of every row.           *)

\* What the outstanding call has read and written is true of the rows now, up
\* to the change that it has made to them since.
InformedCall(r) ==
    LET from == call[r].from
        to == call[r].to
        q == call[r].qty IN
    /\ pc[r] = "update" /\ call[r].op = "transfer" => seenTo[r] = available[to]
    /\ pc[r] = "decrement" => seen[r] = available[from]
    /\ pc[r] = "increment" => seenTo[r] = available[to]
    /\ pc[r] \in {"increment", "reread", "ledger"} =>
           wrote[r] = seen[r] + Signed(call[r]) /\ wrote[r] = available[from]
    /\ pc[r] \in {"decrement", "reread"} => seenTo[r] + q = available[to]
    /\ pc[r] = "ledgerTo" \/ (pc[r] = "ledger" /\ call[r].op = "transfer") =>
           wroteTo[r] = seenTo[r] + q /\ wroteTo[r] = available[to]

Informed == \A r \in Requests : InformedCall(r)

Chained(entries) ==
    \A i \in 1 .. Len(entries) - 1 : entries[i + 1].prev = entries[i].new

EndsIn(c, q) == ledger[c] # <<>> => ledger[c][Len(ledger[c])].new = q

\* No call has died with a debt.
Lossless == \A r \in Requests : ~InFlight(r) => Owed(r) = {}

Owes(r, c) == \/ "from" \in Owed(r) /\ c = call[r].from
              \/ "to" \in Owed(r) /\ c = call[r].to

\* Every ledger is a chain that ends in the quantity of its row or, while a
\* call still owes the row an entry, in the quantity that this call read.
Links ==
    /\ \A c \in Cells :
          /\ Chained(ledger[c])
          /\ EndsIn(c, available[c]) \/ \E r \in Requests : Owes(r, c)
    /\ \A r \in Requests :
          /\ "from" \in Owed(r) => EndsIn(call[r].from, seen[r])
          /\ "to" \in Owed(r) => EndsIn(call[r].to, seenTo[r])

ChainsRun == Lossless => Links

TellInv == SerialInv /\ Stages /\ Informed /\ LedgerArithmetic /\ ChainsRun

\* A chain grows by an entry that starts where the chain ends.
LEMMA ChainGrows ==
    ASSUME NEW s \in Seq(Entry), NEW e \in Entry, Chained(s),
           s # <<>> => s[Len(s)].new = e.prev
    PROVE  /\ Chained(Append(s, e))
           /\ Append(s, e) # <<>> /\ Append(s, e)[Len(Append(s, e))] = e
<1> DEFINE t == Append(s, e)
           n == Len(s)
<1>1. /\ n \in Nat /\ Len(t) = n + 1 /\ t[n + 1] = e
      /\ \A i \in 1 .. n : t[i] = s[i]
  OBVIOUS
<1>2. ASSUME NEW i \in 1 .. n PROVE t[i + 1].prev = t[i].new
  <2>1. CASE i = n
    BY <1>1, <2>1
  <2>2. CASE i \in 1 .. n - 1
    <3>1. s[i + 1].prev = s[i].new /\ i + 1 \in 1 .. n
      BY <2>2 DEF Chained
    <3> QED
      BY <1>1, <3>1
  <2> QED
    BY <1>1, <2>1, <2>2
<1>3. t # <<>>
  BY <1>1
<1>4. Chained(t)
  <2> HIDE DEF t, n
  <2> QED
    BY <1>1, <1>2 DEF Chained
<1> QED
  BY <1>1, <1>3, <1>4

\* A step of the one outstanding call keeps what it knows true.
LEMMA StepKeepsInformed ==
    ASSUME TypeOK, SerialInv, Informed, NEW r \in Requests, Step(r)
    PROVE  Informed'
<1> USE DEF Goto
<1>1. /\ call[r] \in Call /\ call[r].op \in Ops
      /\ call[r].from \in Cells /\ call[r].to \in Cells /\ call[r].qty \in Int
      /\ call[r].op = "transfer" => call[r].from # call[r].to /\ Signed(call[r]) = -call[r].qty
  BY StepIsInFlight, CallIsWellFormed, CallsAssumption DEF InFlight, InFlightPC, Signed
<1>2. call' = call /\ \A s \in Requests \ {r} : pc'[s] = pc[s]
  BY StepIsLocal
<1>3. \A s \in Requests \ {r} : ~InFlight(s)
  BY StepIsInFlight DEF SerialInv, OneAtATime
<1>4. \A s \in Requests \ {r} : InformedCall(s)'
  BY <1>2, <1>3 DEF InFlight, InFlightPC, InformedCall
<1>5. InformedCall(r) /\ FreshCall(r)
  BY DEF Informed, SerialInv, Fresh
<1>6. InformedCall(r)'
  <2>1. CASE Find(r)
    BY <2>1 DEF Find, AfterRow, InformedCall, TypeOK
  <2>2. CASE Create(r)
    <3>1. Goto(r, "failed") \/ AfterRow(r, 0, 0)
      BY <2>2 DEF Create
    <3> QED
      BY <1>2, <3>1 DEF AfterRow, InformedCall, TypeOK
  <2>3. CASE FindTo(r)
    BY <1>1, <2>3 DEF FindTo, AfterRowTo, InformedCall, TypeOK, tables
  <2>4. CASE CreateTo(r)
    <3>1. /\ available' = available /\ exists'[call[r].to]
          /\ Goto(r, "failed") \/ (AfterRowTo(r, 0) /\ available[call[r].to] = 0)
      BY <1>1, <2>4, CreateToEffect DEF SerialInv, RowsFound, CreateTo
    <3> QED
      BY SMTT(60), <1>1, <1>2, <3>1 DEF AfterRowTo, InformedCall, TypeOK
  <2>5. CASE Update(r)
    BY <1>1, <1>2, <1>5, <2>5
       DEF Update, InformedCall, FreshCall, TypeOK, NewAvailable, Signed
  <2>6. CASE DecrementFrom(r)
    BY <1>1, <1>2, <1>5, <2>6 DEF DecrementFrom, InformedCall, FreshCall, TypeOK
  <2>7. CASE IncrementTo(r)
    BY <1>1, <1>2, <1>5, <2>7 DEF IncrementTo, InformedCall, FreshCall, TypeOK, locals
  <2>8. CASE Reread(r)
    BY <1>1, <1>2, <1>5, <2>8 DEF Reread, InformedCall, TypeOK, tables
  <2>9. CASE PostLedger(r) \/ PostLedgerTo(r) \/ Fail(r)
    BY <1>1, <1>2, <1>5, <2>9
       DEF PostLedger, PostedAs, PostLedgerTo, PostedWith, Fail, InformedCall, TypeOK, tables, locals
  <2> QED
    BY <2>1, <2>2, <2>3, <2>4, <2>5, <2>6, <2>7, <2>8, <2>9 DEF Step
<1> QED
  BY <1>4, <1>6 DEF Informed

\* What a posted entry does to its ledger: the entry adds up, the chain goes on
\* from what the call had read and ends in what it wrote.
LEMMA PostingTells ==
    ASSUME TypeOK, LedgerArithmetic, NEW row \in Cells, NEW e \in Entry,
           ledger' = [ledger EXCEPT ![row] = Append(@, e)], e.new = e.prev + e.qty
    PROVE  /\ LedgerArithmetic'
           /\ Chained(ledger[row]) /\ EndsIn(row, e.prev) =>
                  Chained(ledger'[row]) /\ ledger'[row][Len(ledger'[row])].new = e.new
<1>1. ledger[row] \in Seq(Entry) /\ ledger'[row] = Append(ledger[row], e)
  BY DEF TypeOK
<1>2. \A c \in Cells \ {row} : ledger'[c] = ledger[c]
  BY DEF TypeOK
<1>3. ASSUME NEW i \in DOMAIN ledger'[row]
      PROVE  ledger'[row][i].new = ledger'[row][i].prev + ledger'[row][i].qty
  <2>1. CASE i = Len(ledger[row]) + 1
    BY <1>1, <2>1
  <2>2. CASE i # Len(ledger[row]) + 1
    <3>1. i \in DOMAIN ledger[row] /\ ledger'[row][i] = ledger[row][i]
      BY <1>1, <2>2
    <3> QED
      BY <3>1 DEF LedgerArithmetic
  <2> QED
    BY <2>1, <2>2
<1>4. LedgerArithmetic'
  BY <1>2, <1>3 DEF LedgerArithmetic
<1> QED
  BY <1>1, <1>4, ChainGrows DEF EndsIn

\* A step of the one outstanding call keeps the ledgers telling.
LEMMA StepTells ==
    ASSUME TypeOK, TellInv, NEW r \in Requests, Step(r)
    PROVE  LedgerArithmetic' /\ ChainsRun'
<1> USE DEF Goto
<1> DEFINE from == call[r].from
           to == call[r].to
<1>1. /\ call[r] \in Calls /\ call[r] \in Call /\ call[r].op \in Ops /\ call[r].qty \in Int
      /\ from \in Cells /\ to \in Cells /\ Signed(call[r]) \in Int
      /\ call[r].op = "transfer" => from # to /\ Signed(call[r]) = -call[r].qty
  BY StepIsInFlight, CallIsWellFormed, CallsAssumption DEF InFlight, InFlightPC, Signed
<1>2. call' = call /\ \A s \in Requests \ {r} : pc'[s] = pc[s]
  BY StepIsLocal
<1>3. InFlight(r) /\ \A s \in Requests \ {r} : ~InFlight(s)
  BY StepIsInFlight DEF TellInv, SerialInv, OneAtATime
<1>4. InformedCall(r) /\ FreshCall(r) /\ StageOf(r)
  BY DEF TellInv, Informed, SerialInv, Fresh, Stages
<1>5. \A s \in Requests \ {r} : Owed(s)' = Owed(s)
  <2>1. \A s \in Requests \ {r} : moved'[s] = moved[s] /\ posted'[s] = posted[s]
    BY DEF Step, Find, Create, FindTo, CreateTo, Update, DecrementFrom, IncrementTo,
           Reread, PostLedger, PostedAs, PostLedgerTo, PostedWith, Fail, TypeOK
  <2> QED
    BY <2>1 DEF Owed
<1>6. Lossless' => /\ \A s \in Requests \ {r} : Owed(s) = {} /\ Owed(s)' = {}
                   /\ \A c \in Cells : /\ Chained(ledger[c])
                                       /\ EndsIn(c, available[c]) \/ Owes(r, c)
                   /\ "from" \in Owed(r) => EndsIn(from, seen[r])
                   /\ "to" \in Owed(r) => EndsIn(to, seenTo[r])
  <2> SUFFICES ASSUME Lossless'
               PROVE  /\ \A s \in Requests \ {r} : Owed(s) = {} /\ Owed(s)' = {}
                      /\ Lossless
    BY DEF TellInv, ChainsRun, Links, Owes
  <2>1. \A s \in Requests \ {r} : ~InFlight(s)'
    BY <1>2, <1>3 DEF InFlight
  <2> QED
    BY <1>3, <1>5, <2>1 DEF Lossless
<1>13. ASSUME Lossless',
              \A c \in Cells : Chained(ledger'[c]) /\ (EndsIn(c, available[c])' \/ Owes(r, c)'),
              "from" \in Owed(r)' => EndsIn(from, seen[r])',
              "to" \in Owed(r)' => EndsIn(to, seenTo[r])'
       PROVE  Links'
  BY <1>6, <1>13 DEF Links
<1>7. CASE Find(r) \/ Create(r) \/ FindTo(r) \/ CreateTo(r) \/ Reread(r) \/ Fail(r)
  <2>1. available' = available /\ ledger' = ledger
    BY <1>1, <1>7, CreateEffect, CreateToEffect
       DEF Find, Create, FindTo, CreateTo, Reread, Fail, tables, TellInv, SerialInv
  <2>2. Owed(r)' = Owed(r)
    BY <1>7 DEF Find, Create, FindTo, CreateTo, Reread, Fail, Owed
  <2>3. Owed(r) = {} \/ (seen' = seen /\ seenTo' = seenTo)
    <3>1. CASE Reread(r) \/ Fail(r)
      BY <3>1 DEF Reread, Fail, locals
    <3>2. CASE Find(r) \/ Create(r) \/ FindTo(r) \/ CreateTo(r)
      BY <1>4, <3>2 DEF Find, Create, FindTo, CreateTo, StageOf, Owed
    <3> QED
      BY <1>7, <3>1, <3>2
  <2>4. ChainsRun'
    <3> SUFFICES ASSUME Lossless' PROVE Links'
      BY DEF ChainsRun
    <3>1. \A c \in Cells : Chained(ledger'[c]) /\ (EndsIn(c, available[c])' \/ Owes(r, c)')
      BY <1>2, <1>6, <2>1, <2>2 DEF EndsIn, Owes
    <3>2. /\ "from" \in Owed(r)' => EndsIn(from, seen[r])'
          /\ "to" \in Owed(r)' => EndsIn(to, seenTo[r])'
      BY <1>2, <1>6, <2>1, <2>2, <2>3 DEF EndsIn
    <3> QED
      BY <1>13, <3>1, <3>2
  <2>5. LedgerArithmetic'
    BY <2>1 DEF TellInv, LedgerArithmetic
  <2> QED
    BY <2>4, <2>5
<1>8. CASE Update(r)
  <2>1. /\ Owed(r) = {} /\ Owed(r)' = {"from"} /\ ledger' = ledger /\ seen' = seen
        /\ seen[r] = available[from] /\ \A c \in Cells \ {from} : available'[c] = available[c]
    BY <1>4, <1>8 DEF Update, StageOf, FreshCall, Owed, TypeOK
  <2>2. ASSUME Lossless' PROVE Links'
    <3>1. \A c \in Cells : Chained(ledger[c]) /\ EndsIn(c, available[c])
      BY <1>6, <2>1, <2>2 DEF Owes
    <3>2. EndsIn(from, seen[r])'
      BY <1>1, <1>2, <2>1, <3>1 DEF EndsIn
    <3>3. \A c \in Cells \ {from} : EndsIn(c, available[c])'
      BY <2>1, <3>1 DEF EndsIn
    <3> QED
      BY <1>2, <1>6, <2>1, <2>2, <3>1, <3>2, <3>3 DEF Links, Owes
  <2>3. LedgerArithmetic'
    BY <2>1 DEF TellInv, LedgerArithmetic
  <2> QED
    BY <2>2, <2>3 DEF ChainsRun
<1>9. CASE DecrementFrom(r)
  <2>1. /\ "from" \notin Owed(r) /\ Owed(r)' = Owed(r) \cup {"from"} /\ from # to
        /\ ledger' = ledger /\ seen' = seen /\ seenTo' = seenTo
        /\ seen[r] = available[from] /\ \A c \in Cells \ {from} : available'[c] = available[c]
    BY <1>1, <1>4, <1>9 DEF DecrementFrom, StageOf, FreshCall, InformedCall, Owed, TypeOK
  <2>2. ASSUME Lossless' PROVE Links'
    <3>1. \A c \in Cells : \/ EndsIn(c, available[c])
                           \/ c = to /\ "to" \in Owed(r)
      BY <1>6, <2>1, <2>2 DEF Owes
    <3>2. EndsIn(from, seen[r])'
      BY <1>1, <1>2, <2>1, <3>1 DEF EndsIn
    <3>3. \A c \in Cells \ {from} : EndsIn(c, available[c])' \/ (c = to /\ "to" \in Owed(r)')
      BY <2>1, <3>1 DEF EndsIn
    <3>4. "to" \in Owed(r)' => EndsIn(to, seenTo[r])'
      BY <1>2, <1>6, <2>1, <2>2 DEF EndsIn
    <3> QED
      <4>1. \A c \in Cells : Chained(ledger'[c]) /\ (EndsIn(c, available[c])' \/ Owes(r, c)')
        BY <1>2, <1>6, <2>1, <2>2, <3>3 DEF Owes
      <4> QED
        BY <1>13, <2>2, <3>2, <3>4, <4>1
  <2>3. LedgerArithmetic'
    BY <2>1 DEF TellInv, LedgerArithmetic
  <2> QED
    BY <2>2, <2>3 DEF ChainsRun
<1>10. CASE IncrementTo(r)
  <2>1. /\ "to" \notin Owed(r) /\ Owed(r)' = Owed(r) \cup {"to"} /\ from # to
        /\ ledger' = ledger /\ seen' = seen /\ seenTo' = seenTo
        /\ seenTo[r] = available[to] /\ \A c \in Cells \ {to} : available'[c] = available[c]
    BY <1>1, <1>4, <1>10 DEF IncrementTo, StageOf, FreshCall, InformedCall, Owed, TypeOK, locals
  <2>2. ASSUME Lossless' PROVE Links'
    <3>1. \A c \in Cells : \/ EndsIn(c, available[c])
                           \/ c = from /\ "from" \in Owed(r)
      BY <1>6, <2>1, <2>2 DEF Owes
    <3>2. EndsIn(to, seenTo[r])'
      BY <1>1, <1>2, <2>1, <3>1 DEF EndsIn
    <3>3. \A c \in Cells \ {to} : EndsIn(c, available[c])' \/ (c = from /\ "from" \in Owed(r)')
      BY <2>1, <3>1 DEF EndsIn
    <3>4. "from" \in Owed(r)' => EndsIn(from, seen[r])'
      BY <1>2, <1>6, <2>1, <2>2 DEF EndsIn
    <3> QED
      <4>1. \A c \in Cells : Chained(ledger'[c]) /\ (EndsIn(c, available[c])' \/ Owes(r, c)')
        BY <1>2, <1>6, <2>1, <2>2, <3>3 DEF Owes
      <4> QED
        BY <1>13, <2>2, <3>2, <3>4, <4>1
  <2>3. LedgerArithmetic'
    BY <2>1 DEF TellInv, LedgerArithmetic
  <2> QED
    BY <2>2, <2>3 DEF ChainsRun
<1>11. CASE PostLedger(r)
  <2>0. PICK e \in Entry : e = [type |-> EntryType[call[r].op], qty |-> Signed(call[r]),
                                prev |-> seen[r], new |-> wrote[r]]
    BY <1>1, EntryIsTyped DEF TypeOK
  <2>1. /\ "from" \in Owed(r) /\ Owed(r)' = Owed(r) \ {"from"}
        /\ ("to" \in Owed(r) => call[r].op = "transfer")
        /\ ledger' = [ledger EXCEPT ![from] = Append(@, e)]
        /\ available' = available /\ seen' = seen /\ seenTo' = seenTo
        /\ wrote[r] = seen[r] + Signed(call[r]) /\ wrote[r] = available[from]
    BY <1>1, <1>4, <1>11, <2>0 DEF PostLedger, PostedAs, StageOf, InformedCall, Owed, TypeOK, locals, Sides
  <2>2. e.new = e.prev + e.qty /\ e.prev = seen[r] /\ e.new = available[from]
    BY <2>0, <2>1
  <2>3. /\ LedgerArithmetic'
        /\ Chained(ledger[from]) /\ EndsIn(from, e.prev) =>
               Chained(ledger'[from]) /\ ledger'[from][Len(ledger'[from])].new = e.new
    BY <1>1, <2>1, <2>2, PostingTells DEF TellInv
  <2>4. \A c \in Cells \ {from} : ledger'[c] = ledger[c]
    BY <2>1 DEF TypeOK
  <2>5. ASSUME Lossless' PROVE Links'
    <3>0. Chained(ledger[from]) /\ EndsIn(from, e.prev)
      BY <1>1, <1>6, <2>1, <2>2, <2>5
    <3>1. /\ Chained(ledger'[from]) /\ EndsIn(from, available[from])'
          /\ \A c \in Cells \ {from} : Chained(ledger'[c])
      <4>1. \A c \in Cells \ {from} : Chained(ledger'[c])
        BY <1>6, <2>4, <2>5
      <4> QED
        BY <1>2, <2>1, <2>2, <2>3, <3>0, <4>1 DEF EndsIn
    <3>2. \A c \in Cells \ {from} : EndsIn(c, available[c])' \/ (c = to /\ "to" \in Owed(r)')
      BY <1>6, <2>1, <2>4, <2>5 DEF EndsIn, Owes
    <3>3. "to" \in Owed(r)' => EndsIn(to, seenTo[r])'
      BY <1>1, <1>2, <1>6, <2>1, <2>4, <2>5 DEF EndsIn
    <3> QED
      BY <1>2, <1>6, <2>1, <2>5, <3>1, <3>2, <3>3 DEF Links, Owes
  <2> QED
    BY <2>3, <2>5 DEF ChainsRun
<1>12. CASE PostLedgerTo(r)
  <2>0. PICK e \in Entry : e = [type |-> "TRANSFER_IN", qty |-> call[r].qty,
                                prev |-> seenTo[r], new |-> wroteTo[r]]
    BY <1>1, <1>12, EntryIsTyped DEF PostLedgerTo, PostedWith, TypeOK, TransferPC
  <2>1. /\ Owed(r) = {"to"} /\ Owed(r)' = {}
        /\ ledger' = [ledger EXCEPT ![to] = Append(@, e)]
        /\ available' = available
        /\ wroteTo[r] = seenTo[r] + call[r].qty /\ wroteTo[r] = available[to]
    BY SMTT(60), <1>1, <1>4, <1>12, <2>0
       DEF PostLedgerTo, PostedWith, StageOf, InformedCall, Owed, TypeOK, locals, Sides
  <2>2. e.new = e.prev + e.qty /\ e.prev = seenTo[r] /\ e.new = available[to]
    BY <2>0, <2>1
  <2>3. /\ LedgerArithmetic'
        /\ Chained(ledger[to]) /\ EndsIn(to, e.prev) =>
               Chained(ledger'[to]) /\ ledger'[to][Len(ledger'[to])].new = e.new
    BY <1>1, <2>1, <2>2, PostingTells DEF TellInv
  <2>4. \A c \in Cells \ {to} : ledger'[c] = ledger[c]
    BY <2>1 DEF TypeOK
  <2>5. ASSUME Lossless' PROVE Links'
    <3>0. Chained(ledger[to]) /\ EndsIn(to, e.prev)
      BY <1>1, <1>6, <2>1, <2>2, <2>5
    <3>1. /\ Chained(ledger'[to]) /\ EndsIn(to, available[to])'
          /\ \A c \in Cells \ {to} : Chained(ledger'[c])
      <4>1. \A c \in Cells \ {to} : Chained(ledger'[c])
        BY <1>6, <2>4, <2>5
      <4> QED
        BY <1>2, <2>1, <2>2, <2>3, <3>0, <4>1 DEF EndsIn
    <3>2. \A c \in Cells \ {to} : EndsIn(c, available[c])'
      BY <1>6, <2>1, <2>4, <2>5 DEF EndsIn, Owes
    <3> QED
      BY <1>2, <1>6, <2>1, <2>5, <3>1, <3>2 DEF Links, Owes
  <2> QED
    BY <2>3, <2>5 DEF ChainsRun
<1> QED
  BY <1>7, <1>8, <1>9, <1>10, <1>11, <1>12 DEF Step

\* Served one at a time, calls leave every ledger right entry by entry and,
\* unless one of them has died between its update and its entry, unbroken up
\* to the row's availableQty.
THEOREM LedgersTell == Spec => []LedgerTells
<1> DEFINE Inv == Stages /\ Informed /\ LedgerArithmetic /\ ChainsRun
<1>1. Init => Inv
  <2> SUFFICES ASSUME Init PROVE Inv
    OBVIOUS
  <2>1. Stages /\ Informed
    BY DEF Init, Stages, StageOf, Informed, InformedCall
  <2>2. ASSUME NEW c \in Cells
        PROVE  /\ \A i \in DOMAIN ledger[c] : ledger[c][i].new = ledger[c][i].prev + ledger[c][i].qty
               /\ Chained(ledger[c]) /\ EndsIn(c, available[c])
    <3>1. Opening[c] \in Nat /\ available[c] = Opening[c]
      BY OpeningAssumption DEF Init
    <3>2. CASE Opening[c] > 0
      BY <3>1, <3>2 DEF Init, Chained, EndsIn
    <3>3. CASE ~(Opening[c] > 0)
      BY <3>1, <3>3 DEF Init, Chained, EndsIn
    <3> QED
      BY <3>2, <3>3
  <2>3. \A r \in Requests : Owed(r) = {}
    BY DEF Init, Owed
  <2> QED
    BY <2>1, <2>2, <2>3 DEF LedgerArithmetic, ChainsRun, Links, Owes
<1>2. ASSUME TypeOK, serial => SerialInv, serial => Inv, [Next]_vars, serial' PROVE Inv'
  <2>0. serial /\ SerialInv /\ Inv
    BY <1>2 DEF Next, vars
  <2>1. ASSUME NEW r \in Requests, NEW c \in Calls, Begin(r, c) PROVE Inv'
    <3>1. /\ \A s \in Requests : ~InFlight(s)
          /\ \A s \in Requests : s # r => pc'[s] = pc[s] /\ call'[s] = call[s]
          /\ pc'[r] = "find" /\ moved[r] = {} /\ posted[r] = {}
          /\ UNCHANGED <<tables, seen, seenTo, wrote, wroteTo, moved, posted>>
      BY <1>2, <2>0, <2>1 DEF Begin, Goto, TypeOK, Stages, StageOf
    <3>2. Stages' /\ Informed'
      BY <2>0, <3>1 DEF Stages, StageOf, Informed, InformedCall, InFlight, InFlightPC, tables
    <3>3. LedgerArithmetic'
      BY <2>0, <3>1 DEF LedgerArithmetic, tables
    <3>4. Lossless' => \A s \in Requests : Owed(s) = {} /\ Owed(s)' = {}
      BY <3>1 DEF Lossless, Owed, InFlight, InFlightPC
    <3>5. ChainsRun'
      BY <2>0, <3>1, <3>4 DEF ChainsRun, Lossless, Links, EndsIn, Owes, tables
    <3> QED
      BY <3>2, <3>3, <3>5
  <2>2. ASSUME NEW r \in Requests, Step(r) PROVE Inv'
    <3>1. TellInv
      BY <2>0 DEF TellInv
    <3> QED
      BY <1>2, <2>0, <2>2, <3>1, StepKeepsStages, StepKeepsInformed, StepTells
  <2>3. CASE UNCHANGED vars
    BY <2>0, <2>3 DEF vars, Stages, StageOf, Informed, InformedCall, LedgerArithmetic, ChainsRun,
                      Lossless, InFlight, Owed, Links, EndsIn, Owes
  <2> QED
    BY <1>2, <2>1, <2>2, <2>3 DEF Next
<1>3. TypeOK /\ (serial => Inv) => LedgerTells
  <2> SUFFICES ASSUME TypeOK, Inv PROVE LedgerArithmetic /\ LedgerChained
    BY DEF LedgerTells
  <2>1. (\A r \in Requests : Owed(r) = {}) => Links
    BY DEF ChainsRun, Lossless
  <2>2. LedgerChained
    BY <2>1 DEF LedgerChained, Links, Chained, EndsIn, Owes
  <2> QED
    BY <2>2
<1> QED
  BY <1>1, <1>2, <1>3, TypeCorrect, SerialInvariant, PTL DEF Spec
-----------------------------------------------------------------------------
(* Calls served one at a time implement AtomicStock, up to the failure that *)
(* tears a transfer.                                                        *)

LEMMA StagesInvariant == Spec => []Stages
<1>1. Init => Stages
  BY DEF Init, Stages, StageOf
<1>2. ASSUME TypeOK, Stages, [Next]_vars PROVE Stages'
  <2>1. ASSUME NEW r \in Requests, NEW c \in Calls, Begin(r, c) PROVE Stages'
    BY <1>2, <2>1 DEF Begin, Goto, TypeOK, Stages, StageOf
  <2>2. CASE UNCHANGED vars
    BY <1>2, <2>2 DEF vars, Stages, StageOf
  <2> QED
    BY <1>2, <2>1, <2>2, StepKeepsStages DEF Next
<1> QED
  BY <1>1, <1>2, TypeCorrect, PTL DEF Spec

\* A sum to which one request contributes.
LEMMA OnlyTerm ==
    ASSUME NEW w, NEW r \in Requests, DOMAIN w = Requests,
           w[r] \in Int, \A s \in Requests \ {r} : w[s] = 0
    PROVE  SumFunction(w) = w[r]
<1>1. SumFunctionOnSet(w, Requests) = w[r] + SumFunctionOnSet(w, Requests \ {r})
  BY RequestsAssumption, SumRemove
<1>2. SumFunctionOnSet(w, Requests \ {r}) = 0
  <2>1. IsFiniteSet(Requests \ {r})
    BY RequestsAssumption, FS_RemoveElement
  <2> QED
    BY <2>1, SumZero
<1> QED
  BY <1>1, <1>2 DEF SumFunction

\* The rows as AtomicStock sees them, before and after a step of a call that
\* is alone: as they are, but for what is left of its transfer.
LEMMA StepCommits ==
    ASSUME TypeOK, SerialInv, NEW r \in Requests, Step(r), NEW c \in Cells
    PROVE  /\ Committed[c] = available[c] + Outstanding(r, c)
           /\ Committed'[c] = available'[c] + Outstanding(r, c)'
<1>1. /\ call[r].qty \in Int /\ call' = call
      /\ \A s \in Requests \ {r} : pc'[s] = pc[s] /\ ~InFlight(s)
  BY StepIsInFlight, StepIsLocal, CallIsWellFormed DEF InFlight, InFlightPC, SerialInv, OneAtATime
<1>2. SumFunction([s \in Requests |-> Outstanding(s, c)]) = Outstanding(r, c)
  <2> DEFINE w == [s \in Requests |-> Outstanding(s, c)]
  <2>1. w[r] \in Int /\ \A s \in Requests \ {r} : w[s] = 0
    BY <1>1 DEF Outstanding, InFlight, InFlightPC
  <2> QED
    BY <2>1, OnlyTerm
<1>3. SumFunction([s \in Requests |-> Outstanding(s, c)']) = Outstanding(r, c)'
  <2> DEFINE w == [s \in Requests |-> Outstanding(s, c)']
  <2>1. w[r] \in Int /\ \A s \in Requests \ {r} : w[s] = 0
    BY <1>1 DEF Outstanding, InFlight, InFlightPC
  <2> QED
    BY <2>1, OnlyTerm
<1> QED
  BY <1>2, <1>3 DEF Committed

\* A step that leaves the quantities, and the transfers between their updates,
\* alone changes nothing for AtomicStock.
LEMMA StepStutters ==
    ASSUME TypeOK, SerialInv, NEW r \in Requests, Step(r),
           available' = available, moved' = moved,
           pc[r] \notin {"increment", "decrement"}, pc'[r] \notin {"increment", "decrement"}
    PROVE  UNCHANGED <<Committed, Made>>
<1>1. \A c \in Cells : Committed'[c] = Committed[c]
  BY StepCommits DEF Outstanding
<1>2. Committed' = Committed
  BY <1>1 DEF Committed
<1>3. Made' = Made
  BY StepIsLocal DEF Made
<1> QED
  BY <1>2, <1>3

\* The update of a call, made on the row it has checked, is its movement.
LEMMA UpdateIsAtomic ==
    ASSUME TypeOK, SerialInv, Stages, NEW r \in Requests, Update(r)
    PROVE  Atomic!Next
<1> DEFINE m == call[r]
           c == m.from
<1>1. /\ m \in Calls /\ c \in Cells /\ m.qty \in Int /\ m.op \in Ops \ {"transfer"}
      /\ Step(r)
  BY CallIsWellFormed DEF Update, Step
<1>2. /\ Allowed(m, available[c], reserved[c]) /\ seen[r] = available[c]
      /\ available[c] \in Int /\ reserved[c] \in Int /\ moved[r] = {}
  BY <1>1 DEF Update, SerialInv, Fresh, FreshCall, TypeOK, Stages, StageOf
<1>3. /\ available' = [available EXCEPT ![c] = NewAvailable(m, @, seen[r])]
      /\ reserved' = [reserved EXCEPT ![c] = @ + ReservedChange(m)]
      /\ pc[r] = "update" /\ pc'[r] = "ledger" /\ call' = call
      /\ moved' = [moved EXCEPT ![r] = {"from"}]
  BY DEF Update, Goto, TypeOK
<1>4. Committed = available /\ Committed' = available'
  <2>1. \A d \in Cells : Committed[d] = available[d] /\ Committed'[d] = available'[d]
    <3>1. \A d \in Cells : available'[d] \in Int /\ available[d] \in Int
      BY <1>1, <1>2, <1>3 DEF TypeOK, NewAvailable, Signed
    <3> QED
      BY <1>1, <1>3, <3>1, StepCommits DEF Outstanding
  <2>2. available = [d \in Cells |-> available[d]] /\ available' = [d \in Cells |-> available'[d]]
    BY <1>3 DEF TypeOK
  <2> QED
    BY <2>1, <2>2 DEF Committed
<1>5. Made[r] = Atomic!Nothing /\ Made' = [Made EXCEPT ![r] = m]
  BY <1>2, <1>3 DEF Made, Atomic!Nothing, NoCall, TypeOK
<1>6. Atomic!Movement(m)
  <2>1. CASE m.op = "reserve"
    <3>1. /\ available[c] >= m.qty
          /\ NewAvailable(m, available[c], seen[r]) = available[c] - m.qty
          /\ ReservedChange(m) = m.qty
      BY <1>1, <1>2, <2>1 DEF Allowed, NewAvailable, Signed, ReservedChange
    <3> QED
      BY <1>1, <1>3, <1>4, <2>1, <3>1 DEF Atomic!Movement, Atomic!Reserve, Atomic!Move
  <2>2. CASE m.op = "release"
    <3>1. /\ reserved[c] >= m.qty
          /\ NewAvailable(m, available[c], seen[r]) = available[c] - (-m.qty)
          /\ ReservedChange(m) = -m.qty
      BY <1>1, <1>2, <2>2 DEF Allowed, NewAvailable, Signed, ReservedChange
    <3> QED
      BY <1>1, <1>3, <1>4, <2>2, <3>1 DEF Atomic!Movement, Atomic!Release, Atomic!Move
  <2>3. CASE m.op = "increase"
    <3>1. /\ NewAvailable(m, available[c], seen[r]) = available[c] - (-m.qty)
          /\ ReservedChange(m) = 0
      BY <1>1, <1>2, <2>3 DEF NewAvailable, Signed, ReservedChange
    <3> QED
      BY <1>1, <1>3, <1>4, <2>3, <3>1 DEF Atomic!Movement, Atomic!Increase, Atomic!Move
  <2>4. CASE m.op = "decrease"
    <3>1. /\ available[c] >= m.qty
          /\ NewAvailable(m, available[c], seen[r]) = available[c] - m.qty
          /\ ReservedChange(m) = 0
      BY <1>1, <1>2, <2>4 DEF Allowed, NewAvailable, Signed, ReservedChange
    <3> QED
      BY <1>1, <1>3, <1>4, <2>4, <3>1 DEF Atomic!Movement, Atomic!Decrease, Atomic!Move
  <2>5. CASE m.op = "adjust"
    <3>1. /\ available[c] + m.qty >= 0
          /\ NewAvailable(m, available[c], seen[r]) = available[c] - (-m.qty)
          /\ ReservedChange(m) = 0
      BY <1>1, <1>2, <2>5 DEF Allowed, NewAvailable, ReservedChange
    <3> QED
      BY <1>1, <1>3, <1>4, <2>5, <3>1 DEF Atomic!Movement, Atomic!Adjust, Atomic!Move
  <2> QED
    BY <1>1, <2>1, <2>2, <2>3, <2>4, <2>5 DEF Ops
<1> QED
  BY <1>1, <1>5, <1>6 DEF Atomic!Next

\* The first update of a transfer, in either order, is its movement; the
\* second changes nothing for AtomicStock.
LEMMA TransferIsAtomic ==
    ASSUME TypeOK, SerialInv, Stages, NEW r \in Requests, DecrementFrom(r) \/ IncrementTo(r)
    PROVE  Atomic!Next \/ UNCHANGED <<Committed, reserved, Made>>
<1> DEFINE m == call[r]
           from == m.from
           to == m.to
           q == m.qty
<1>1. /\ m \in Calls /\ from \in Cells /\ to \in Cells /\ from # to
      /\ q \in Int /\ m.op = "transfer" /\ Step(r)
  BY CallIsWellFormed, CallsAssumption DEF DecrementFrom, IncrementTo, Step
<1>2. /\ reserved' = reserved /\ call' = call
      /\ moved'[r] # {} /\ \A s \in Requests \ {r} : moved'[s] = moved[s]
      /\ \A d \in Cells : available[d] \in Int
  BY ZenonT(60) DEF DecrementFrom, IncrementTo, locals, TypeOK
<1>3. \A d \in Cells : /\ Committed[d] = available[d] + Outstanding(r, d)
                       /\ Committed'[d] = available'[d] + Outstanding(r, d)'
  BY <1>1, StepCommits
<1>4. \/ /\ pc[r] = "update" /\ pc'[r] = "increment"
         /\ available' = [available EXCEPT ![from] = @ - q]
      \/ /\ pc[r] = "decrement" /\ pc'[r] = "reread"
         /\ available' = [available EXCEPT ![from] = @ - q]
      \/ /\ pc[r] = "update" /\ pc'[r] = "decrement"
         /\ available' = [available EXCEPT ![to] = @ + q]
      \/ /\ pc[r] = "increment" /\ pc'[r] = "reread"
         /\ available' = [available EXCEPT ![to] = @ + q]
  BY DEF DecrementFrom, IncrementTo, Goto, TypeOK
<1>5. CASE pc[r] = "update"
  <2>1. available[from] >= q /\ moved[r] = {}
    BY <1>1, <1>5 DEF SerialInv, Fresh, FreshCall, Allowed, Stages, StageOf
  <2>2. Made[r] = Atomic!Nothing /\ Made' = [Made EXCEPT ![r] = m]
    BY <1>2, <2>1 DEF Made, Atomic!Nothing, NoCall
  <2>3. \A d \in Cells :
            /\ Committed[d] = available[d]
            /\ Committed'[d] = IF d = from THEN available[d] - q
                               ELSE IF d = to THEN available[d] + q ELSE available[d]
    <3>1. CASE pc'[r] = "increment" /\ available' = [available EXCEPT ![from] = @ - q]
      <4>1. \A d \in Cells : /\ Outstanding(r, d) = 0
                             /\ Outstanding(r, d)' = IF d = to THEN q ELSE 0
                             /\ available'[d] = IF d = from THEN available[d] - q ELSE available[d]
        BY <1>1, <1>2, <1>5, <3>1 DEF Outstanding, TypeOK
      <4> QED
        BY <1>1, <1>2, <1>3, <4>1
    <3>2. CASE pc'[r] = "decrement" /\ available' = [available EXCEPT ![to] = @ + q]
      <4>1. \A d \in Cells : /\ Outstanding(r, d) = 0
                             /\ Outstanding(r, d)' = IF d = from THEN -q ELSE 0
                             /\ available'[d] = IF d = to THEN available[d] + q ELSE available[d]
        BY <1>1, <1>2, <1>5, <3>2 DEF Outstanding, TypeOK
      <4> QED
        BY <1>1, <1>2, <1>3, <4>1
    <3> QED
      BY <1>4, <1>5, <3>1, <3>2
  <2>4. Committed[from] >= q
    BY <1>1, <2>1, <2>3
  <2>5. Committed' = [Committed EXCEPT ![from] = @ - q, ![to] = @ + q]
    BY ZenonT(60), <1>1, <2>3 DEF Committed
  <2>6. Atomic!Movement(m)
    BY <1>1, <1>2, <2>4, <2>5 DEF Atomic!Movement, Atomic!Transfer
  <2> QED
    BY <1>1, <2>2, <2>6 DEF Atomic!Next
<1>6. CASE pc[r] # "update"
  <2>1. moved[r] # {}
    BY <1>4, <1>6 DEF Stages, StageOf
  <2>2. Made' = Made
    BY <1>2, <2>1 DEF Made
  <2>3. \A d \in Cells : Committed'[d] = Committed[d]
    <3>1. CASE pc[r] = "decrement" /\ available' = [available EXCEPT ![from] = @ - q]
      <4>1. \A d \in Cells : /\ Outstanding(r, d) = (IF d = from THEN -q ELSE 0)
                             /\ Outstanding(r, d)' = 0
                             /\ available'[d] = IF d = from THEN available[d] - q ELSE available[d]
        BY <1>1, <1>2, <1>4, <3>1 DEF Outstanding, TypeOK
      <4> QED
        BY <1>1, <1>2, <1>3, <4>1
    <3>2. CASE pc[r] = "increment" /\ available' = [available EXCEPT ![to] = @ + q]
      <4>1. \A d \in Cells : /\ Outstanding(r, d) = (IF d = to THEN q ELSE 0)
                             /\ Outstanding(r, d)' = 0
                             /\ available'[d] = IF d = to THEN available[d] + q ELSE available[d]
        BY <1>1, <1>2, <1>4, <3>2 DEF Outstanding, TypeOK
      <4> QED
        BY <1>1, <1>2, <1>3, <4>1
    <3> QED
      BY <1>4, <1>6, <3>1, <3>2
  <2>4. Committed' = Committed
    BY <2>3 DEF Committed
  <2> QED
    BY <1>2, <2>2, <2>4
<1> QED
  BY <1>5, <1>6

\* Before any call every row has its opening stock.
LEMMA CommittedAtFirst == Init => Atomic!Init
<1> SUFFICES ASSUME Init PROVE Atomic!Init
  OBVIOUS
<1>1. ASSUME NEW c \in Cells PROVE Committed[c] = Opening[c]
  <2> DEFINE w == [s \in Requests |-> Outstanding(s, c)]
  <2>1. \A s \in Requests : w[s] = 0
    BY DEF Init, Outstanding
  <2>2. SumFunctionOnSet(w, Requests) = 0
    <3> HIDE DEF w
    <3> QED
      BY <2>1, RequestsAssumption, SumZero
  <2> QED
    BY <1>1, <2>2, OpeningAssumption DEF Committed, SumFunction, Init
<1>2. Committed = Opening
  BY <1>1, OpeningAssumption DEF Committed
<1>3. Made = [r \in Requests |-> Atomic!Nothing]
  BY DEF Made, Init, Atomic!Nothing, NoCall
<1> QED
  BY <1>2, <1>3 DEF Atomic!Init, Init

\* Served one at a time, each call is one indivisible movement of stock that
\* is there, made at most once and whole: the service implements AtomicStock.
\* The only other step is a failure between the two updates of a transfer.
THEOREM ImplementsAtomic == Spec => AtomicSpec
<1> DEFINE Tears == \E r \in Requests : Torn(r)
<1>1. ASSUME TypeOK, SerialInv, Stages, [Next]_vars
      PROVE  [Atomic!Next \/ Tears]_<<Committed, reserved, Made>>
  <2>1. ASSUME NEW r \in Requests, Step(r)
        PROVE  [Atomic!Next \/ Tears]_<<Committed, reserved, Made>>
    <3>1. call[r].from \in Cells /\ call[r].to \in Cells
      BY <1>1, <2>1, StepIsInFlight, CallIsWellFormed DEF InFlight, InFlightPC
    <3>2. CASE Find(r) \/ FindTo(r) \/ Reread(r) \/ PostLedger(r) \/ PostLedgerTo(r)
      <4>1. /\ available' = available /\ reserved' = reserved /\ moved' = moved
            /\ pc[r] \notin {"increment", "decrement"} /\ pc'[r] \notin {"increment", "decrement"}
        BY <1>1, <3>2 DEF Find, AfterRow, FindTo, AfterRowTo, Reread, PostLedger, PostedAs,
                          PostLedgerTo, PostedWith, Goto, TypeOK, tables
      <4> QED
        BY <1>1, <2>1, <4>1, StepStutters
    <3>3. CASE Create(r)
      <4>1. /\ available' = available /\ reserved' = reserved /\ pc[r] = "create"
            /\ pc' = [pc EXCEPT ![r] = "failed"] \/ AfterRow(r, 0, 0)
        BY <1>1, <3>1, <3>3, CreateEffect DEF SerialInv
      <4>2. pc'[r] \notin {"increment", "decrement"} /\ moved' = moved
        BY <1>1, <3>3, <4>1 DEF Create, AfterRow, Goto, TypeOK
      <4> QED
        BY <1>1, <2>1, <4>1, <4>2, StepStutters
    <3>4. CASE CreateTo(r)
      <4>1. /\ available' = available /\ reserved' = reserved /\ pc[r] = "createTo"
            /\ pc' = [pc EXCEPT ![r] = "failed"] \/ AfterRowTo(r, 0)
        BY <1>1, <3>1, <3>4, CreateToEffect DEF SerialInv
      <4>2. pc'[r] \notin {"increment", "decrement"} /\ moved' = moved
        BY <1>1, <3>4, <4>1 DEF CreateTo, AfterRowTo, Goto, TypeOK
      <4> QED
        BY <1>1, <2>1, <4>1, <4>2, StepStutters
    <3>5. CASE Update(r)
      BY <1>1, <3>5, UpdateIsAtomic
    <3>6. CASE DecrementFrom(r) \/ IncrementTo(r)
      BY <1>1, <3>6, TransferIsAtomic
    <3>7. CASE Fail(r) /\ pc[r] \in {"increment", "decrement"}
      BY <1>1, <3>7 DEF Fail, Goto, Torn, TypeOK
    <3>8. CASE Fail(r) /\ pc[r] \notin {"increment", "decrement"}
      <4>1. /\ available' = available /\ reserved' = reserved /\ moved' = moved
            /\ pc'[r] \notin {"increment", "decrement"}
        BY <1>1, <3>8 DEF Fail, Goto, TypeOK, tables
      <4> QED
        BY <1>1, <2>1, <3>8, <4>1, StepStutters
    <3> QED
      BY <2>1, <3>2, <3>3, <3>4, <3>5, <3>6, <3>7, <3>8 DEF Step
  <2>2. ASSUME NEW r \in Requests, NEW c \in Calls, Begin(r, c)
        PROVE  UNCHANGED <<Committed, reserved, Made>>
    <3>1. /\ UNCHANGED <<available, reserved, moved>> /\ moved[r] = {}
          /\ pc[r] = "idle" /\ pc'[r] = "find"
          /\ \A s \in Requests \ {r} : pc'[s] = pc[s] /\ call'[s] = call[s]
      BY <1>1, <2>2 DEF Begin, Goto, TypeOK, tables, Stages, StageOf
    <3>2. \A s \in Requests, d \in Cells : Outstanding(s, d)' = Outstanding(s, d)
      BY <3>1 DEF Outstanding
    <3>3. Committed' = Committed
      <4>1. \A d \in Cells : [s \in Requests |-> Outstanding(s, d)'] = [s \in Requests |-> Outstanding(s, d)]
        BY <3>2
      <4> QED
        BY <3>1, <4>1 DEF Committed
    <3>4. Made' = Made
      BY <3>1 DEF Made
    <3> QED
      BY <3>1, <3>3, <3>4
  <2>3. CASE UNCHANGED vars
    <3>1. Committed' = Committed /\ Made' = Made /\ reserved' = reserved
      BY ZenonT(60), <2>3 DEF vars, Committed, Outstanding, Made
    <3> QED
      BY <3>1
  <2> QED
    BY <1>1, <2>1, <2>2, <2>3 DEF Next
<1>2. ASSUME TypeOK, serial => SerialInv, Stages, [Next]_vars
      PROVE  [serial => Atomic!Next \/ Tears]_<<Committed, reserved, Made>>
  BY <1>1, <1>2
<1> QED
  BY <1>2, CommittedAtFirst, TypeCorrect, SerialInvariant, StagesInvariant, PTL DEF Spec, AtomicSpec
=============================================================================
