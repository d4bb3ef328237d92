------------------------ MODULE GoodsReceipts_proofs ------------------------
(***************************************************************************)
(* Proofs about GoodsReceipts for any orders, products, calls and number   *)
(* of requests, failing anywhere.                                          *)
(***************************************************************************)
EXTENDS GoodsReceipts, Sums_proofs, FiniteSetTheorems, TLAPS

\* The line that a receipt is at exists.
Cursor(r) ==
    /\ pc[r] \in {"idle", "read", "check", "count", "insert"} => local[r].line = 1
    /\ pc[r] \in {"line", "stock"} => local[r].line \in 1 .. Len(call[r].lines)

TypeInv == TypeOK /\ \A r \in Requests : Cursor(r)

LocalType == [status: Status, generation: Nat, number: Number, items: Quantities, line: Nat,
              newStatus: Status]

\* The parts of a call have their types; a receipt has at least one line.
LEMMA CallIsTyped ==
    ASSUME NEW c \in Calls
    PROVE  /\ c.op \in Ops /\ c.order \in Orders /\ c.source \in Orders
           /\ c.items \in Quantities
           /\ c.lines \in Seq(Line) /\ Len(c.lines) \in Nat
           /\ c.op = "receive" => Len(c.lines) > 0
           /\ \A k \in 1 .. Len(c.lines) : c.lines[k] \in Line
BY CallsAssumption

\* The counts of rows are numbers.
LEMMA RowsAreCounted ==
    ASSUME IsFiniteSet(receipts), NEW op
    PROVE  Rows(op) \in Nat
<1>1. IsFiniteSet({o \in Orders : status[o] # "NONE"})
  BY OrdersAssumption, FS_Subset
<1> QED
  BY <1>1, FS_CardinalityType DEF Rows

\* The initial state has its types, and no call is in a transaction.
LEMMA InitIsTyped == Init => TypeInv
<1> SUFFICES ASSUME Init PROVE TypeInv
  OBVIOUS
<1>1. Cardinality(Orders) \in Nat
  BY OrdersAssumption, FS_CardinalityType
<1>2. poNumber \in [Orders -> Number]
  BY <1>1, DaysAssumption DEF Init, Number
<1>3. quantity \in [Orders -> Quantities] /\ received \in [Orders -> Quantities]
  BY OrderedAssumption DEF Init, Quantities, Nothing
<1>4. receipts \subseteq Requests /\ IsFiniteSet(receipts)
  BY FS_EmptySet DEF Init
<1>5. Unread \in LocalType
  BY DaysAssumption DEF Unread, LocalType, Status, Number, NoNumber, Nothing, Quantities
<1>6. local \in [Requests -> LocalType]
  BY <1>5 DEF Init
<1>7. \A r \in Requests : Cursor(r)
  BY DEF Init, Cursor, Unread
<1>8. status \in [Orders -> Status] /\ generation \in [Orders -> Nat]
  BY DEF Init, Status
<1>9. stock \in Quantities /\ incremented \in [Requests -> Quantities] /\ day \in 1 .. Days
  BY DaysAssumption DEF Init, Quantities, Nothing
<1>10. /\ call \in [Requests -> {NoCall} \cup Calls]
       /\ \A r \in Requests : pc[r] = "idle"
       /\ pc \in [Requests -> {"idle", "done", "failed"} \cup Running]
  BY DEF Init
<1> QED
  BY <1>2, <1>3, <1>4, <1>6, <1>7, <1>8, <1>9, <1>10 DEF Init, TypeInv, TypeOK, LocalType

\* A step keeps the types.
LEMMA StepKeepsTypes ==
    ASSUME TypeInv, NEW r \in Requests, Step(r)
    PROVE  TypeInv'
<1> USE DEF Goto
<1>0. TypeOK /\ Cursor(r) /\ \A s \in Requests : Cursor(s)
  BY DEF TypeInv
<1>1. pc[r] # "idle"
  BY DEF Step, ReadOrder, SetStatus, DeleteItems, CreateItems, ReadSource, Count, InsertOrder,
         ReadStatus, CheckLines, InsertReceipt, IncrementItem, IncreaseStock, StockThrows,
         ReadBack, Commit, Fail, Running, InTransaction
<1>2. /\ call[r] \in Calls
      /\ call[r].op \in Ops /\ call[r].order \in Orders /\ call[r].source \in Orders
      /\ call[r].items \in Quantities
      /\ Len(call[r].lines) \in Nat
      /\ call[r].op = "receive" => Len(call[r].lines) > 0
      /\ \A k \in 1 .. Len(call[r].lines) : call[r].lines[k] \in Line
  BY <1>0, <1>1, CallIsTyped DEF TypeOK
<1>3. /\ local \in [Requests -> LocalType]
      /\ local[r] \in LocalType
  BY <1>0 DEF TypeOK, LocalType
<1>4. CASE ReadOrder(r)
  BY <1>0, <1>2, <1>4 DEF ReadOrder, TypeInv, TypeOK, Cursor, order, Running
<1>5. CASE SetStatus(r)
  BY <1>0, <1>2, <1>5 DEF SetStatus, TypeInv, TypeOK, Cursor, Status
<1>6. CASE DeleteItems(r)
  <2> DEFINE o == call[r].order
  <2>0. \/ UNCHANGED <<quantity, generation>>
        \/ /\ quantity' = [quantity EXCEPT ![o] = Nothing]
           /\ generation' = [generation EXCEPT ![o] = @ + 1]
    BY <1>6 DEF DeleteItems
  <2>1. quantity' \in [Orders -> Quantities] /\ generation' \in [Orders -> Nat]
    <3>1. Nothing \in Quantities
      BY DEF Nothing, Quantities
    <3>2. /\ quantity \in [Orders -> Quantities] /\ generation \in [Orders -> Nat]
          /\ o \in Orders
      BY <1>0, <1>2 DEF TypeOK
    <3> HIDE DEF o
    <3> QED
      BY <2>0, <3>1, <3>2
  <2>2. /\ pc' \in [Requests -> {"idle", "done", "failed"} \cup Running]
        /\ \A s \in Requests : pc'[s] # "idle" => call[s] \in Calls
        /\ pc'[r] \in {"failed", "createItems"} /\ \A s \in Requests \ {r} : pc'[s] = pc[s]
    BY <1>0, <1>2, <1>6 DEF DeleteItems, TypeOK, Running
  <2> QED
    BY <1>0, <1>6, <2>1, <2>2 DEF DeleteItems, TypeInv, TypeOK, Cursor
<1>7. CASE CreateItems(r)
  <2> DEFINE o == call[r].order
             summed == [p \in Products |-> quantity[o][p] + call[r].items[p]]
  <2>0. UNCHANGED quantity \/ quantity' = [quantity EXCEPT ![o] = summed]
    BY <1>7 DEF CreateItems
  <2>1. quantity' \in [Orders -> Quantities]
    <3>1. summed \in Quantities /\ o \in Orders /\ quantity \in [Orders -> Quantities]
      BY SMTT(60), <1>0, <1>2 DEF TypeOK, Quantities
    <3> HIDE DEF o, summed
    <3> QED
      BY <2>0, <3>1
  <2>2. /\ pc' \in [Requests -> {"idle", "done", "failed"} \cup Running]
        /\ \A s \in Requests : pc'[s] # "idle" => call[s] \in Calls
        /\ pc'[r] \in {"failed", "done"} /\ \A s \in Requests \ {r} : pc'[s] = pc[s]
    BY <1>0, <1>2, <1>7 DEF CreateItems, TypeOK, Running
  <2> QED
    BY <1>0, <1>7, <2>1, <2>2 DEF CreateItems, TypeInv, TypeOK, Cursor
<1>8. CASE ReadSource(r)
  BY ZenonT(60), <1>0, <1>2, <1>8 DEF ReadSource, TypeInv, TypeOK, Cursor, Running, order
<1>9. CASE Count(r)
  <2>1. NextNumber(call[r].op) \in Number
    BY <1>0, RowsAreCounted DEF NextNumber, Number, TypeOK
  <2> QED
    BY ZenonT(60), <1>0, <1>2, <1>9, <2>1 DEF Count, TypeInv, TypeOK, Cursor, Running, order
<1>10. CASE InsertOrder(r)
  BY ZenonT(60), <1>0, <1>2, <1>3, <1>10 DEF InsertOrder, TypeInv, TypeOK, Cursor, order, Status, LocalType
<1>11. CASE ReadStatus(r)
  BY ZenonT(60), <1>0, <1>2, <1>11 DEF ReadStatus, TypeInv, TypeOK, Cursor, order, Running
<1>12. CASE CheckLines(r)
  BY ZenonT(60), <1>0, <1>2, <1>12 DEF CheckLines, TypeInv, TypeOK, Cursor, order, Running
<1>13. CASE InsertReceipt(r)
  BY <1>0, <1>2, <1>13 DEF InsertReceipt, TypeInv, TypeOK, Cursor, order, Running, InTransaction
<1>14. CASE IncrementItem(r)
  <2>1. CurrentLine(r) \in Line
    BY <1>0, <1>2, <1>14 DEF IncrementItem, Cursor, CurrentLine
  <2>2. incremented' \in [Requests -> Quantities]
    BY <1>0, <1>14, <2>1 DEF IncrementItem, TypeOK, Line, Quantities
  <2> QED
    BY SMTT(60), <1>0, <1>2, <1>14, <2>2
       DEF IncrementItem, TypeInv, TypeOK, Cursor, order, Running, InTransaction
<1>15. CASE IncreaseStock(r)
  <2>1. CurrentLine(r) \in Line
    BY <1>0, <1>2, <1>15 DEF IncreaseStock, Cursor, CurrentLine
  <2>2. stock' \in Quantities
    BY <1>0, <1>15, <2>1 DEF IncreaseStock, AddToStock, TypeOK, Line, Quantities
  <2>3. /\ local' = [local EXCEPT ![r].line = @ + 1]
        /\ pc' = [pc EXCEPT ![r] = IF local[r].line < Len(call[r].lines) THEN "line" ELSE "readBack"]
        /\ pc[r] = "stock" /\ UNCHANGED <<order, receipts, day, call, incremented, overlapped>>
    BY <1>15 DEF IncreaseStock, AfterLine
  <2>4. /\ local' \in [Requests -> LocalType]
        /\ local'[r].line = local[r].line + 1 /\ \A s \in Requests \ {r} : local'[s] = local[s]
    <3>1. local[r].line + 1 \in Nat /\ local' = [local EXCEPT ![r].line = local[r].line + 1]
      BY <1>3, <2>3 DEF LocalType
    <3> QED
      BY <1>3, <3>1 DEF LocalType
  <2>5. /\ pc' \in [Requests -> {"idle", "done", "failed"} \cup Running]
        /\ \A s \in Requests : pc'[s] # "idle" => call[s] \in Calls
    BY <1>0, <1>2, <2>3 DEF TypeOK, Running, InTransaction
  <2>6. TypeOK'
    BY <1>0, <2>2, <2>3, <2>4, <2>5 DEF TypeOK, LocalType, order
  <2>7. Cursor(r)'
    BY <1>0, <1>2, <1>3, <2>3, <2>4 DEF TypeOK, Cursor, LocalType
  <2>8. \A s \in Requests \ {r} : Cursor(s)'
    BY <1>0, <2>3, <2>4 DEF TypeOK, Cursor
  <2> QED
    BY <2>6, <2>7, <2>8 DEF TypeInv
<1>16. CASE StockThrows(r)
  <2>1. CurrentLine(r) \in Line
    BY <1>0, <1>2, <1>16 DEF StockThrows, Cursor, CurrentLine
  <2>2. stock' \in Quantities /\ incremented' \in [Requests -> Quantities]
    BY <1>0, <1>16, <2>1 DEF StockThrows, AddToStock, TypeOK, Line, Quantities, Nothing
  <2> QED
    BY <1>0, <1>2, <1>16, <2>2 DEF StockThrows, TypeInv, TypeOK, Cursor, order
<1>17. CASE ReadBack(r)
  <2>1. local' = [local EXCEPT ![r].newStatus = local'[r].newStatus]
        /\ local'[r].newStatus \in Status
    BY <1>3, <1>17 DEF ReadBack, LocalType, Status
  <2>2. local' \in [Requests -> LocalType] /\ \A s \in Requests : local'[s].line = local[s].line
    BY <1>3, <2>1 DEF LocalType
  <2>3. pc[r] = "readBack" /\ pc' = [pc EXCEPT ![r] = "commit"]
        /\ UNCHANGED <<order, receipts, stock, day, call, incremented, overlapped>>
    BY <1>17 DEF ReadBack
  <2> QED
    BY <1>0, <1>2, <2>2, <2>3 DEF TypeInv, TypeOK, LocalType, Cursor, order, Running, InTransaction
<1>18. CASE Commit(r)
  <2>1. received' \in [Orders -> Quantities] /\ incremented' \in [Requests -> Quantities]
    BY SMTT(60), <1>0, <1>2, <1>18 DEF Commit, AfterCommit, TypeOK, Quantities, Nothing
  <2>2. status' \in [Orders -> Status]
    BY <1>0, <1>2, <1>3, <1>18 DEF Commit, TypeOK, LocalType
  <2>3. receipts' \subseteq Requests /\ IsFiniteSet(receipts')
    BY <1>0, <1>18, FS_AddElement DEF Commit, TypeOK
  <2>4. pc' = [pc EXCEPT ![r] = "done"]
        /\ UNCHANGED <<poNumber, quantity, generation, stock, day, call, local, overlapped>>
    BY <1>18 DEF Commit
  <2> QED
    BY <1>0, <1>2, <2>1, <2>2, <2>3, <2>4 DEF TypeInv, TypeOK, Cursor
<1>19. CASE Fail(r)
  BY <1>0, <1>2, <1>19 DEF Fail, TypeInv, TypeOK, Cursor, order, Nothing, Quantities
<1> QED
  BY <1>4, <1>5, <1>6, <1>7, <1>8, <1>9, <1>10, <1>11, <1>12, <1>13, <1>14, <1>15, <1>16, <1>17,
     <1>18, <1>19 DEF Step

\* So does a call that begins, and midnight.
LEMMA NextKeepsTypes == TypeInv /\ [Next]_vars => TypeInv'
<1> SUFFICES ASSUME TypeInv, [Next]_vars PROVE TypeInv'
  OBVIOUS
<1>1. CASE Midnight
  BY <1>1, DaysAssumption DEF Midnight, TypeInv, TypeOK, Cursor, order
<1>2. ASSUME NEW r \in Requests, NEW c \in Calls, Begin(r, c) PROVE TypeInv'
  BY <1>2 DEF Begin, Goto, TypeInv, TypeOK, Cursor, order, Running
<1>3. ASSUME NEW r \in Requests, Step(r) PROVE TypeInv'
  BY <1>3, StepKeepsTypes
<1>4. CASE UNCHANGED vars
  BY <1>4 DEF vars, order, TypeInv, TypeOK, Cursor
<1> QED
  BY <1>1, <1>2, <1>3, <1>4 DEF Next

\* Whatever is called, in whatever order and failing anywhere, every row and every
\* value that a request works with keeps its type.
THEOREM TypeCorrect == Spec => []TypeOK
<1>1. TypeInv => TypeOK
  BY DEF TypeInv
<1> QED
  BY <1>1, InitIsTyped, NextKeepsTypes, PTL DEF Spec

-----------------------------------------------------------------------------
(* The numbers of a day's receipts.  Counting alone gives two requests the  *)
(* same number; that none is ever inserted twice, and none skipped, rests   *)
(* on an invariant about everyone who holds a number: who is about to       *)
(* insert holds one that is taken or the next one, and of those that hold   *)
(* the next one at most one has a transaction open.                         *)

Committed == Cardinality(receipts)
NumberOf(r) == local[r].number.seq

NumbersInv ==
    day = 1 =>
        /\ {NumberOf(r) : r \in receipts} = 1 .. Committed
        /\ \A r \in receipts : pc[r] = "done" /\ local[r].number.day = 1
        /\ \A r \in Requests : pc[r] = "insert" /\ call[r].op = "receive" =>
               local[r].number.day = 1 /\ NumberOf(r) \in 1 .. Committed + 1
        /\ \A r \in Requests : pc[r] \in InTransaction =>
               local[r].number.day = 1 /\ NumberOf(r) = Committed + 1
        /\ \A r, s \in Requests : pc[r] \in InTransaction /\ pc[s] \in InTransaction => r = s

NobodyEnters ==
    \A s \in Requests : /\ pc'[s] = "insert" => pc[s] = "insert"
                        /\ pc'[s] \in InTransaction => pc[s] \in InTransaction

\* A step in which nobody obtains a number, opens a transaction or commits one.
LEMMA QuietStep ==
    ASSUME NumbersInv, TypeInv, UNCHANGED <<receipts, day>>,
           \A s \in Requests : local'[s].number = local[s].number,
           NobodyEnters,
           \A s \in Requests : pc[s] = "done" => pc'[s] = "done",
           \A s \in Requests : pc[s] # "idle" => call'[s] = call[s]
    PROVE  NumbersInv'
<1>1. receipts \subseteq Requests
  BY DEF TypeInv, TypeOK
<1>2. SUFFICES ASSUME day = 1
               PROVE  NumbersInv'
  BY DEF NumbersInv
<1>3. \A s \in Requests : NumberOf(s)' = NumberOf(s)
  BY DEF NumberOf
<1>4. Committed' = Committed
  BY DEF Committed
<1>5. {NumberOf(r) : r \in receipts}' = 1 .. Committed'
  BY <1>1, <1>2, <1>3, <1>4 DEF NumbersInv
<1>6. \A r \in receipts' : pc'[r] = "done" /\ local'[r].number.day = 1
  BY <1>1, <1>2 DEF NumbersInv
<1>7. \A r \in Requests : pc'[r] = "insert" /\ call'[r].op = "receive" =>
          local'[r].number.day = 1 /\ NumberOf(r)' \in 1 .. Committed' + 1
  BY <1>2, <1>3, <1>4 DEF NumbersInv, NobodyEnters
<1>8. \A r \in Requests : pc'[r] \in InTransaction =>
          local'[r].number.day = 1 /\ NumberOf(r)' = Committed' + 1
  BY <1>2, <1>3, <1>4 DEF NumbersInv, NobodyEnters, InTransaction
<1>9. \A r, s \in Requests : pc'[r] \in InTransaction /\ pc'[s] \in InTransaction => r = s
  BY <1>2 DEF NumbersInv, NobodyEnters, InTransaction
<1> QED
  BY <1>5, <1>6, <1>7, <1>8, <1>9 DEF NumbersInv

\* The two steps that matter: the number is inserted, ...
LEMMA InsertKeepsNumbers ==
    ASSUME NumbersInv, TypeInv, NEW r \in Requests, InsertReceipt(r)
    PROVE  NumbersInv'
<1> DEFINE n == local[r].number
<1>1. /\ pc[r] = "insert" /\ call[r].op = "receive" /\ Inserting(n) = {}
      /\ UNCHANGED <<receipts, day, call, local>>
      /\ pc \in [Requests -> {"idle", "done", "failed"} \cup Running]
      /\ \A s \in Requests : local[s].number \in Number
      /\ receipts \subseteq Requests
  BY DEF InsertReceipt, TypeInv, TypeOK
<1>2. CASE pc' = [pc EXCEPT ![r] = "failed"]
  <2>1. \A s \in Requests : pc'[s] = IF s = r THEN "failed" ELSE pc[s]
    BY <1>1, <1>2
  <2>2. /\ \A s \in Requests : local'[s].number = local[s].number
        /\ NobodyEnters
        /\ \A s \in Requests : pc[s] = "done" => pc'[s] = "done"
        /\ \A s \in Requests : pc[s] # "idle" => call'[s] = call[s]
    BY <1>1, <2>1 DEF NobodyEnters, InTransaction
  <2> QED
    BY <1>1, <2>2, QuietStep
<1>3. CASE pc' = [pc EXCEPT ![r] = "line"] /\ Numbered(n) = {}
  <2> SUFFICES ASSUME day = 1 PROVE NumbersInv'
    BY <1>1 DEF NumbersInv
  <2>1. \A s \in Requests : pc'[s] = IF s = r THEN "line" ELSE pc[s]
    BY <1>1, <1>3
  <2>2. /\ {NumberOf(s) : s \in receipts} = 1 .. Committed
        /\ \A s \in receipts : pc[s] = "done" /\ local[s].number.day = 1
        /\ n.day = 1 /\ n.seq \in 1 .. Committed + 1
    BY <1>1 DEF NumbersInv, NumberOf
  <2>3. \A s \in receipts : NumberOf(s) # n.seq
    BY <1>1, <1>3, <2>2 DEF Numbered, Number, NumberOf
  <2>4. Committed \in Nat
    BY FS_CardinalityType DEF TypeInv, TypeOK, Committed
  <2>5. n.seq = Committed + 1
    BY <2>2, <2>3, <2>4
  <2>6. \A s \in Requests : pc[s] \notin InTransaction
    BY <1>1, <2>2, <2>5 DEF NumbersInv, Inserting, Number, NumberOf
  <2>7. Committed' = Committed /\ \A s \in Requests : NumberOf(s)' = NumberOf(s)
    BY <1>1 DEF Committed, NumberOf
  <2>8. {NumberOf(s) : s \in receipts}' = 1 .. Committed'
    BY <1>1, <2>2, <2>7
  <2>9. \A s \in receipts' : pc'[s] = "done" /\ local'[s].number.day = 1
    BY <1>1, <2>1, <2>2
  <2>10. \A s \in Requests : pc'[s] = "insert" /\ call'[s].op = "receive" =>
             local'[s].number.day = 1 /\ NumberOf(s)' \in 1 .. Committed' + 1
    BY <1>1, <2>1, <2>7 DEF NumbersInv
  <2>11. \A s \in Requests : pc'[s] \in InTransaction => s = r
    BY <2>1, <2>6
  <2>12. local'[r].number.day = 1 /\ NumberOf(r)' = Committed' + 1
    BY <1>1, <2>2, <2>5, <2>7 DEF NumberOf
  <2> QED
    BY <2>8, <2>9, <2>10, <2>11, <2>12 DEF NumbersInv
<1> QED
  BY <1>2, <1>3 DEF InsertReceipt, Goto

\* ... and the receipt commits.
LEMMA CommitKeepsNumbers ==
    ASSUME NumbersInv, TypeInv, NEW r \in Requests, Commit(r)
    PROVE  NumbersInv'
<1>1. /\ pc[r] = "commit" /\ pc[r] \in InTransaction
      /\ \A s \in Requests : pc'[s] = IF s = r THEN "done" ELSE pc[s]
      /\ receipts' = receipts \cup {r} /\ UNCHANGED <<day, call, local>>
      /\ receipts \subseteq Requests /\ IsFiniteSet(receipts)
  BY DEF Commit, Goto, TypeInv, TypeOK, InTransaction
<1> SUFFICES ASSUME day = 1 PROVE NumbersInv'
  BY <1>1 DEF NumbersInv
<1>2. /\ {NumberOf(s) : s \in receipts} = 1 .. Committed
      /\ \A s \in receipts : pc[s] = "done" /\ local[s].number.day = 1
      /\ local[r].number.day = 1 /\ NumberOf(r) = Committed + 1
      /\ \A s \in Requests \ {r} : pc[s] \notin InTransaction
  BY <1>1 DEF NumbersInv
<1>3. Committed \in Nat /\ Committed' = Committed + 1
  <2>1. r \notin receipts
    BY <1>1, <1>2
  <2> QED
    BY <1>1, <2>1, FS_AddElement, FS_CardinalityType DEF Committed
<1>4. \A s \in Requests : NumberOf(s)' = NumberOf(s)
  BY <1>1 DEF NumberOf
<1>5. {NumberOf(s) : s \in receipts}' = 1 .. Committed'
  <2>1. {NumberOf(s) : s \in receipts}' = {NumberOf(s) : s \in receipts} \cup {NumberOf(r)}
    BY <1>1, <1>4
  <2> QED
    BY <1>2, <1>3, <2>1
<1>6. \A s \in receipts' : pc'[s] = "done" /\ local'[s].number.day = 1
  BY <1>1, <1>2
<1>7. \A s \in Requests : pc'[s] = "insert" /\ call'[s].op = "receive" =>
          local'[s].number.day = 1 /\ NumberOf(s)' \in 1 .. Committed' + 1
  BY <1>1, <1>3, <1>4 DEF NumbersInv
<1>8. \A s \in Requests : pc'[s] \notin InTransaction
  BY <1>1, <1>2 DEF InTransaction
<1> QED
  BY <1>5, <1>6, <1>7, <1>8 DEF NumbersInv

\* Counting hands out the next number.
LEMMA CountKeepsNumbers ==
    ASSUME NumbersInv, TypeInv, NEW r \in Requests, Count(r)
    PROVE  NumbersInv'
<1> DEFINE n == NextNumber(call[r].op)
<1>1. /\ pc[r] = "count" /\ UNCHANGED <<receipts, day, call>>
      /\ \A s \in Requests : pc'[s] = IF s = r THEN "insert" ELSE pc[s]
      /\ \A s \in Requests : local'[s].number = IF s = r THEN n ELSE local[s].number
      /\ receipts \subseteq Requests
  BY DEF Count, Goto, TypeInv, TypeOK
<1> SUFFICES ASSUME day = 1 PROVE NumbersInv'
  BY <1>1 DEF NumbersInv
<1>2. /\ {NumberOf(s) : s \in receipts} = 1 .. Committed
      /\ \A s \in receipts : pc[s] = "done" /\ local[s].number.day = 1
      /\ r \notin receipts
  BY <1>1 DEF NumbersInv
<1>3. Committed \in Nat /\ Committed' = Committed
  BY <1>1, FS_CardinalityType DEF TypeInv, TypeOK, Committed
<1>4. \A s \in Requests \ {r} : NumberOf(s)' = NumberOf(s)
  BY <1>1 DEF NumberOf
<1>5. {NumberOf(s) : s \in receipts}' = 1 .. Committed'
  BY <1>1, <1>2, <1>3, <1>4
<1>6. \A s \in receipts' : pc'[s] = "done" /\ local'[s].number.day = 1
  BY <1>1, <1>2
<1>7. call[r].op = "receive" => local'[r].number.day = 1 /\ NumberOf(r)' = Committed + 1
  BY <1>1 DEF NextNumber, Rows, Committed, NumberOf
<1>8. \A s \in Requests : pc'[s] = "insert" /\ call'[s].op = "receive" =>
          local'[s].number.day = 1 /\ NumberOf(s)' \in 1 .. Committed' + 1
  BY <1>1, <1>3, <1>4, <1>7 DEF NumbersInv
<1>9. \A s \in Requests : pc'[s] \in InTransaction => s # r /\ pc[s] \in InTransaction
  BY <1>1 DEF InTransaction
<1>10. \A s \in Requests : pc'[s] \in InTransaction =>
          local'[s].number.day = 1 /\ NumberOf(s)' = Committed' + 1
  BY <1>1, <1>3, <1>4, <1>9 DEF NumbersInv
<1> QED
  BY <1>5, <1>6, <1>8, <1>9, <1>10 DEF NumbersInv

\* Everything else is quiet.
LEMMA OthersKeepNumbers ==
    ASSUME NumbersInv, TypeInv, NEW r \in Requests,
           Step(r), ~Count(r), ~InsertReceipt(r), ~Commit(r)
    PROVE  NumbersInv'
<1> DEFINE quiet == {"failed", "deleteItems", "setStatus", "done", "createItems", "count", "check"}
<1>1. /\ pc \in [Requests -> {"idle", "done", "failed"} \cup Running]
      /\ local \in [Requests -> LocalType]
  BY DEF TypeInv, TypeOK, LocalType
<1>2. /\ UNCHANGED <<receipts, day, call>>
      /\ pc[r] # "done"
      /\ \A s \in Requests \ {r} : pc'[s] = pc[s]
      /\ pc'[r] \in quiet \/ (pc'[r] \in InTransaction /\ pc[r] \in InTransaction)
  <2>1. CASE ReadOrder(r)
    BY <1>1, <2>1 DEF ReadOrder, Goto
  <2>2. CASE SetStatus(r)
    BY <1>1, <2>2 DEF SetStatus, Goto
  <2>3. CASE DeleteItems(r)
    BY <1>1, <2>3 DEF DeleteItems, Goto
  <2>4. CASE CreateItems(r)
    BY <1>1, <2>4 DEF CreateItems, Goto
  <2>5. CASE ReadSource(r)
    BY <1>1, <2>5 DEF ReadSource, Goto
  <2>6. CASE InsertOrder(r)
    BY <1>1, <2>6 DEF InsertOrder, Goto
  <2>7. CASE ReadStatus(r)
    BY <1>1, <2>7 DEF ReadStatus, Goto
  <2>8. CASE CheckLines(r)
    BY <1>1, <2>8 DEF CheckLines, Goto
  <2>9. CASE IncrementItem(r)
    BY <1>1, <2>9 DEF IncrementItem, Goto, InTransaction
  <2>10. CASE IncreaseStock(r)
    BY <1>1, <2>10 DEF IncreaseStock, Goto, AfterLine, InTransaction
  <2>11. CASE StockThrows(r)
    BY <1>1, <2>11 DEF StockThrows, Goto
  <2>12. CASE ReadBack(r)
    BY <1>1, <2>12 DEF ReadBack, Goto, InTransaction
  <2>13. CASE Fail(r)
    BY <1>1, <2>13 DEF Fail, Goto, Running, InTransaction
  <2> QED
    BY <2>1, <2>2, <2>3, <2>4, <2>5, <2>6, <2>7, <2>8, <2>9, <2>10, <2>11, <2>12, <2>13 DEF Step
<1>3. \A s \in Requests : local'[s].number = local[s].number
  BY <1>1 DEF Step, ReadOrder, SetStatus, DeleteItems, CreateItems, ReadSource, InsertOrder,
         ReadStatus, CheckLines, IncrementItem, IncreaseStock, StockThrows,
         ReadBack, Fail, LocalType
<1>4. /\ NobodyEnters
      /\ \A s \in Requests : pc[s] = "done" => pc'[s] = "done"
  BY <1>1, <1>2 DEF NobodyEnters, InTransaction
<1> QED
  BY <1>2, <1>3, <1>4, QuietStep

\* No step breaks what is known of the receipt numbers.
LEMMA NextKeepsNumbers == TypeInv /\ NumbersInv /\ [Next]_vars => NumbersInv'
<1> SUFFICES ASSUME TypeInv, NumbersInv, [Next]_vars PROVE NumbersInv'
  OBVIOUS
<1>1. CASE Midnight
  BY <1>1 DEF Midnight, NumbersInv, TypeInv, TypeOK
<1>2. ASSUME NEW r \in Requests, NEW c \in Calls, Begin(r, c) PROVE NumbersInv'
  <2>1. /\ UNCHANGED <<receipts, day, local>> /\ pc[r] = "idle"
        /\ \A s \in Requests : pc'[s] \in (IF s = r THEN {"count", "read"} ELSE {pc[s]})
        /\ \A s \in Requests \ {r} : call'[s] = call[s]
    BY <1>2 DEF Begin, Goto, TypeInv, TypeOK
  <2>2. /\ \A s \in Requests : local'[s].number = local[s].number
        /\ NobodyEnters
        /\ \A s \in Requests : pc[s] = "done" => pc'[s] = "done"
        /\ \A s \in Requests : pc[s] # "idle" => call'[s] = call[s]
    BY <2>1 DEF NobodyEnters, InTransaction
  <2> QED
    BY <2>1, <2>2, QuietStep
<1>3. ASSUME NEW r \in Requests, Step(r) PROVE NumbersInv'
  BY <1>3, InsertKeepsNumbers, CommitKeepsNumbers, CountKeepsNumbers, OthersKeepNumbers
<1>4. CASE UNCHANGED vars
  <2>1. /\ UNCHANGED <<receipts, day, local, pc, call>>
        /\ NobodyEnters
    BY <1>4 DEF vars, NobodyEnters, InTransaction
  <2> QED
    BY <2>1, QuietStep
<1> QED
  BY <1>1, <1>2, <1>3, <1>4 DEF Next

\* At the start there are no receipts and no numbers.
LEMMA InitIsNumbered == Init => NumbersInv
<1> SUFFICES ASSUME Init PROVE NumbersInv
  OBVIOUS
<1>1. receipts = {} /\ Committed = 0
  BY FS_EmptySet DEF Init, Committed
<1>2. \A r \in Requests : pc[r] = "idle"
  BY DEF Init
<1> QED
  BY <1>1, <1>2 DEF NumbersInv, InTransaction

\* However many receipts are created at once, and wherever they die: until
\* midnight the numbers of those that are committed are 1, 2, 3, ..., although
\* each was found by counting outside of the transaction that inserts it.
THEOREM GaplessNumbers == Spec => []NumbersGapless
<1>1. NumbersInv => NumbersGapless
  BY DEF NumbersInv, NumbersGapless, NumberOf, Committed
<1> QED
  BY <1>1, InitIsTyped, NextKeepsTypes, InitIsNumbered, NextKeepsNumbers, PTL DEF Spec
-----------------------------------------------------------------------------
(* What requests do to the orders' rows.                                    *)

Receiving == {"check", "count", "insert", "done"} \cup InTransaction

\* What a call at each of its statements was asked for, and of which order.
AtOrder(r) ==
    /\ pc[r] \in {"check"} \cup InTransaction => call[r].op = "receive"
    /\ pc[r] \in {"count", "insert"} => call[r].op \in Creating \cup {"receive"}
    /\ pc[r] = "setStatus" => call[r].op \in {"approve", "cancel"}
    /\ pc[r] \in {"deleteItems", "createItems"} => call[r].op = "edit"
    /\ pc[r] \in {"setStatus", "deleteItems", "createItems"} => status[call[r].order] # "NONE"
    /\ call[r].op = "receive" /\ pc[r] \in Receiving =>
           status[call[r].order] # "NONE" /\ local[r].status # "NONE"
    /\ pc[r] = "commit" => local[r].newStatus # "NONE"
    /\ call[r].op \in Creating /\ pc[r] \in {"read", "count", "insert"} =>
           status[call[r].order] = "NONE"

OneCreator == \A r, s \in Requests :
    call[r].op \in Creating /\ call[s].op \in Creating /\ call[r].order = call[s].order => r = s

OrderInv ==
    /\ \A r \in Requests : AtOrder(r)
    /\ OneCreator
    /\ \A r \in receipts : pc[r] = "done" /\ call[r].op = "receive"

-----------------------------------------------------------------------------
(* What a transaction has added, and what is booked.                        *)

\* Of a product, what the lines of a receipt ask for, and the first n of them.
For(ls, p) == {k \in DOMAIN ls : ls[k].product = p}
AskedOf(ls, p) == SumFunction([k \in For(ls, p) |-> ls[k].qty])
Part(ls, p, n) == SumFunctionOnSet([k \in DOMAIN ls |-> ls[k].qty], {k \in For(ls, p) : k <= n})

\* The lines whose items and whose stock an open transaction has incremented.
Booking(r) ==
    /\ pc[r] \notin InTransaction => incremented[r] = Nothing
    /\ pc[r] \in {"line", "readBack", "commit"} => \A p \in Products :
           incremented[r][p] = Part(call[r].lines, p, local[r].line - 1)
    /\ pc[r] = "stock" => \A p \in Products :
           incremented[r][p] = Part(call[r].lines, p, local[r].line)
    /\ pc[r] \in {"readBack", "commit"} => local[r].line = Len(call[r].lines) + 1

Pending(r, p) == IF pc[r] \in InTransaction THEN Part(call[r].lines, p, local[r].line - 1) ELSE 0
PendingSum(p) == SumFunction([r \in Requests |-> Pending(r, p)])
BookedSum(p) == SumFunction([o \in Orders |-> Booked(o, p)])

BookInv ==
    /\ \A r \in Requests : Booking(r)
    /\ ReceivedIsBooked
    /\ \A p \in Products : stock[p] >= BookedSum(p) + PendingSum(p)

\* Without overlap a receipt's lines still fit the order they were checked on.
Fits(r) == \A k \in DOMAIN call[r].lines :
    call[r].lines[k].qty <= Remaining(call[r].order, call[r].lines[k].product)

SoloInv == ~overlapped =>
    /\ \A r, s \in Requests : pc[r] \in Running /\ pc[s] \in Running => r = s
    /\ \A r \in Requests :
          call[r].op = "receive" /\ pc[r] \in {"count", "insert"} \cup InTransaction => Fits(r)
    /\ NoOverReceipt

-----------------------------------------------------------------------------
(* Sums of lines and receipts.                                              *)

\* The lines of a product are finitely many natural numbers.
LEMMA LinesAreTyped ==
    ASSUME NEW ls \in Seq(Line), NEW p
    PROVE  /\ IsFiniteSet(For(ls, p)) /\ For(ls, p) \subseteq DOMAIN ls
           /\ \A n : IsFiniteSet({k \in For(ls, p) : k <= n})
           /\ \A k \in DOMAIN ls : /\ ls[k].qty \in Nat /\ ls[k].qty > 0 /\ ls[k].product \in Products
                                   /\ [l \in DOMAIN ls |-> ls[l].qty][k] \in Nat
<1>1. DOMAIN ls = 1 .. Len(ls) /\ Len(ls) \in Nat /\ \A k \in DOMAIN ls : ls[k] \in Line
  OBVIOUS
<1>2. IsFiniteSet(DOMAIN ls)
  BY <1>1, FS_Interval
<1>3. For(ls, p) \subseteq DOMAIN ls
  BY DEF For
<1>4. \A n : {k \in For(ls, p) : k <= n} \subseteq DOMAIN ls
  BY DEF For
<1>5. ASSUME NEW k \in DOMAIN ls
      PROVE  ls[k].qty \in Nat /\ ls[k].qty > 0 /\ ls[k].product \in Products
  BY <1>1 DEF Line
<1> QED
  BY <1>2, <1>3, <1>4, <1>5, FS_Subset

\* The first no lines ask for nothing; one line more adds its quantity to its
\* product; all the lines are what the receipt asks for.
LEMMA PartsAdd ==
    ASSUME NEW ls \in Seq(Line), NEW p
    PROVE  /\ \A n \in Nat : Part(ls, p, n) \in Nat
           /\ Part(ls, p, 0) = 0
           /\ \A n \in 1 .. Len(ls) : Part(ls, p, n) =
                 Part(ls, p, n - 1) + (IF ls[n].product = p THEN ls[n].qty ELSE 0)
           /\ AskedOf(ls, p) = Part(ls, p, Len(ls))
<1> DEFINE w == [k \in DOMAIN ls |-> ls[k].qty]
           F(n) == {k \in For(ls, p) : k <= n}
<1>1. /\ DOMAIN ls = 1 .. Len(ls) /\ Len(ls) \in Nat /\ For(ls, p) \subseteq DOMAIN ls
      /\ \A n : IsFiniteSet(F(n)) /\ F(n) \subseteq DOMAIN ls
      /\ \A k \in DOMAIN ls : w[k] \in Nat /\ w[k] = ls[k].qty
  <2>1. DOMAIN ls = 1 .. Len(ls) /\ Len(ls) \in Nat
    OBVIOUS
  <2>2. ASSUME NEW n PROVE IsFiniteSet(F(n)) /\ F(n) \subseteq DOMAIN ls
    BY LinesAreTyped
  <2>3. /\ For(ls, p) \subseteq DOMAIN ls
        /\ \A k \in DOMAIN ls : w[k] \in Nat /\ w[k] = ls[k].qty
    BY LinesAreTyped
  <2> QED
    BY <2>1, <2>2, <2>3
<1>2. \A n : Part(ls, p, n) = SumFunctionOnSet(w, F(n))
  BY DEF Part
<1>3. ASSUME NEW n \in Nat PROVE Part(ls, p, n) \in Nat
  <2>1. \A k \in F(n) : w[k] \in Nat
    BY <1>1
  <2>2. PICK T : T = F(n) /\ IsFiniteSet(T) /\ \A k \in T : w[k] \in Nat
    BY <1>1, <2>1
  <2> HIDE DEF w
  <2>3. SumFunctionOnSet(w, T) \in Nat
    BY <2>2, SumSubset
  <2> QED
    BY <1>2, <2>2, <2>3
<1>4. Part(ls, p, 0) = 0
  <2>1. F(0) = {}
    BY <1>1
  <2> QED
    BY <1>2, <2>1, SumEmpty
<1>5. ASSUME NEW n \in 1 .. Len(ls)
      PROVE  Part(ls, p, n) = Part(ls, p, n - 1) + (IF ls[n].product = p THEN ls[n].qty ELSE 0)
  <2>1. n \in DOMAIN ls /\ w[n] = ls[n].qty /\ n \notin F(n - 1) /\ n - 1 \in Nat
    BY <1>1
  <2>2. F(n) = IF ls[n].product = p THEN F(n - 1) \cup {n} ELSE F(n - 1)
    BY <1>1 DEF For
  <2>3. \A k \in F(n - 1) \cup {n} : w[k] \in Int
    BY <1>1, <2>1
  <2>4. PICK T : T = F(n - 1) /\ IsFiniteSet(T) /\ n \notin T /\ \A k \in T \cup {n} : w[k] \in Int
    BY <1>1, <2>1, <2>3
  <2>5. SumFunctionOnSet(w, T \cup {n}) = w[n] + SumFunctionOnSet(w, T)
    <3> HIDE DEF w
    <3> QED
      BY <2>4, SumAdd
  <2>6. Part(ls, p, n - 1) \in Nat /\ w[n] \in Nat
    BY <1>1, <1>3, <2>1
  <2>7. Part(ls, p, n) = SumFunctionOnSet(w, F(n)) /\ Part(ls, p, n - 1) = SumFunctionOnSet(w, T)
    BY <1>2, <2>4
  <2> HIDE DEF F, w
  <2>8. CASE ls[n].product = p
    BY <2>1, <2>2, <2>4, <2>5, <2>6, <2>7, <2>8
  <2>9. CASE ls[n].product # p
    BY <2>2, <2>4, <2>6, <2>7, <2>9
  <2> QED
    BY <2>8, <2>9
<1>6. AskedOf(ls, p) = Part(ls, p, Len(ls))
  <2> DEFINE S == For(ls, p)
             v == [k \in S |-> ls[k].qty]
  <2>1. F(Len(ls)) = S /\ IsFiniteSet(S)
    <3>1. F(Len(ls)) = S
      BY <1>1
    <3> QED
      BY <3>1, <1>1
  <2>2. \A k \in S : v[k] = w[k]
    BY <1>1
  <2>3. AskedOf(ls, p) = SumFunctionOnSet(v, S)
    BY DEF AskedOf, SumFunction
  <2>4. SumFunctionOnSet(v, S) = SumFunctionOnSet(w, S)
    <3> HIDE DEF v, w, S
    <3> QED
      BY <2>1, <2>2, SumCongruence
  <2> HIDE DEF F, S
  <2> QED
    BY <1>2, <2>1, <2>3, <2>4
<1> QED
  BY <1>3, <1>4, <1>5, <1>6

\* A receipt that lists a product at most once asks for no more than a line.
LEMMA AskedOnce ==
    ASSUME NEW ls \in Seq(Line), NEW p, Cardinality(For(ls, p)) <= 1
    PROVE  AskedOf(ls, p) = 0 \/ \E k \in DOMAIN ls : ls[k].product = p /\ AskedOf(ls, p) = ls[k].qty
<1> DEFINE S == For(ls, p)
           v == [k \in S |-> ls[k].qty]
<1>1. /\ IsFiniteSet(S) /\ S \subseteq DOMAIN ls
      /\ \A k \in S : ls[k].product = p /\ v[k] = ls[k].qty /\ v[k] \in Nat
  BY LinesAreTyped DEF For
<1>2. AskedOf(ls, p) = SumFunctionOnSet(v, S)
  BY DEF AskedOf, SumFunction
<1>3. CASE S = {}
  BY <1>2, <1>3, SumEmpty
<1>4. CASE S # {}
  <2>1. PICK k \in S : TRUE
    BY <1>4
  <2>2. S \ {k} = {}
    <3>1. Cardinality(S) \in Nat /\ Cardinality(S \ {k}) = Cardinality(S) - 1 /\ IsFiniteSet(S \ {k})
      BY <1>1, FS_RemoveElement, FS_CardinalityType
    <3>2. Cardinality(S \ {k}) \in Nat
      BY <3>1, FS_CardinalityType
    <3>3. Cardinality(S \ {k}) = 0
      BY <3>1, <3>2
    <3> QED
      BY <3>1, <3>3, FS_EmptySet
  <2>3. \A l \in S : v[l] \in Int
    BY <1>1
  <2>4. SumFunctionOnSet(v, S) = v[k] + SumFunctionOnSet(v, S \ {k})
    <3> HIDE DEF v, S
    <3> QED
      BY <1>1, <2>1, <2>3, SumRemove
  <2>5. SumFunctionOnSet(v, S \ {k}) = 0
    BY <2>2, SumEmpty
  <2>6. v[k] \in Nat /\ v[k] = ls[k].qty /\ ls[k].product = p /\ k \in DOMAIN ls
    BY <1>1, <2>1
  <2> HIDE DEF v, S
  <2>7. AskedOf(ls, p) = v[k]
    BY <1>2, <2>4, <2>5, <2>6
  <2> QED
    BY <2>6, <2>7
<1> QED
  BY <1>3, <1>4

\* What is booked of an order by a set of receipts, with the calls they made.
BookedBy(cl, rc, o, p) == SumFunction([r \in {s \in rc : cl[s].order = o} |-> AskedOf(cl[r].lines, p)])
TotalBy(cl, rc, p) == SumFunction([o \in Orders |-> BookedBy(cl, rc, o, p)])

\* The sums of the model, as functions of the calls and of the receipts,
\* so that they can be spoken of before and after a step.
LEMMA BookedIsSum ==
    /\ \A r, p : Asked(r, p) = AskedOf(call[r].lines, p)
    /\ \A o, p : Booked(o, p) = BookedBy(call, receipts, o, p)
    /\ \A o, p : Booked(o, p)' = BookedBy(call', receipts', o, p)
    /\ \A p : BookedSum(p) = TotalBy(call, receipts, p)
    /\ \A p : BookedSum(p)' = TotalBy(call', receipts', p)
BY DEF Booked, BookedSum, BookedBy, TotalBy, Asked, AskedOf, LinesFor, For, ReceiptsOf

\* One receipt more adds what it asks for to its order.
LEMMA BookedAdds ==
    ASSUME NEW rc, IsFiniteSet(rc), NEW cl, NEW r, NEW o, NEW p,
           \A s \in rc \cup {r} : cl[s].lines \in Seq(Line)
    PROVE  /\ BookedBy(cl, rc, o, p) \in Nat /\ AskedOf(cl[r].lines, p) \in Nat
           /\ r \notin rc => BookedBy(cl, rc \cup {r}, o, p) =
                 BookedBy(cl, rc, o, p) + (IF cl[r].order = o THEN AskedOf(cl[r].lines, p) ELSE 0)
<1> DEFINE S == {s \in rc : cl[s].order = o}
           T == {s \in rc \cup {r} : cl[s].order = o}
           w == [s \in rc \cup {r} |-> AskedOf(cl[s].lines, p)]
           v == [s \in S |-> AskedOf(cl[s].lines, p)]
           u == [s \in T |-> AskedOf(cl[s].lines, p)]
<1>1. \A s \in rc \cup {r} : w[s] \in Nat /\ w[s] = AskedOf(cl[s].lines, p)
  <2>1. ASSUME NEW s \in rc \cup {r} PROVE AskedOf(cl[s].lines, p) \in Nat
    <3>1. PICK ls \in Seq(Line) : ls = cl[s].lines
      OBVIOUS
    <3>2. Len(ls) \in Nat
      OBVIOUS
    <3> QED
      BY <3>1, <3>2, PartsAdd
  <2> QED
    BY <2>1
<1>2. IsFiniteSet(S) /\ S \subseteq rc /\ T = IF cl[r].order = o THEN S \cup {r} ELSE S
  <2>1. S \subseteq rc
    OBVIOUS
  <2>2. T = IF cl[r].order = o THEN S \cup {r} ELSE S
    OBVIOUS
  <2> QED
    BY <2>1, <2>2, FS_Subset
<1>3. IsFiniteSet(T)
  <2> HIDE DEF S, T
  <2> QED
    BY <1>2, FS_AddElement
<1>4. /\ BookedBy(cl, rc, o, p) = SumFunctionOnSet(v, S)
      /\ BookedBy(cl, rc \cup {r}, o, p) = SumFunctionOnSet(u, T)
  BY DEF BookedBy, SumFunction
<1>5. (\A s \in S : v[s] = w[s]) /\ (\A s \in T : u[s] = w[s])
  OBVIOUS
<1>6. \A s \in S \cup {r} : w[s] \in Int
  <2> HIDE DEF S, w
  <2> QED
    BY <1>1, <1>2
<1>7. \A s \in S : w[s] \in Nat
  <2> HIDE DEF S, w
  <2> QED
    BY <1>1, <1>2
<1>8. r \notin rc => r \notin S
  OBVIOUS
<1>9. w[r] = AskedOf(cl[r].lines, p) /\ w[r] \in Nat
  BY <1>1
<1> HIDE DEF S, T, u, v, w
<1>10. /\ SumFunctionOnSet(v, S) = SumFunctionOnSet(w, S)
       /\ SumFunctionOnSet(u, T) = SumFunctionOnSet(w, T)
  BY <1>2, <1>3, <1>5, SumCongruence
<1>11. SumFunctionOnSet(w, S) \in Nat
  BY <1>2, <1>7, SumSubset
<1>12. r \notin rc => SumFunctionOnSet(w, S \cup {r}) = w[r] + SumFunctionOnSet(w, S)
  BY <1>2, <1>6, <1>8, SumAdd
<1> QED
  BY <1>2, <1>4, <1>9, <1>10, <1>11, <1>12

\* It adds as much to the total.
LEMMA TotalAdds ==
    ASSUME NEW rc, IsFiniteSet(rc), NEW cl, NEW r, NEW p, r \notin rc, cl[r].order \in Orders,
           \A s \in rc \cup {r} : cl[s].lines \in Seq(Line)
    PROVE  /\ TotalBy(cl, rc, p) \in Int
           /\ TotalBy(cl, rc \cup {r}, p) = TotalBy(cl, rc, p) + AskedOf(cl[r].lines, p)
<1> DEFINE w == [o \in Orders |-> BookedBy(cl, rc, o, p)]
           v == [o \in Orders |-> BookedBy(cl, rc \cup {r}, o, p)]
           e == cl[r].order
<1>1. ASSUME NEW o
      PROVE  /\ BookedBy(cl, rc, o, p) \in Nat /\ AskedOf(cl[r].lines, p) \in Nat
             /\ BookedBy(cl, rc \cup {r}, o, p) =
                   BookedBy(cl, rc, o, p) + (IF cl[r].order = o THEN AskedOf(cl[r].lines, p) ELSE 0)
  BY BookedAdds
<1>2. /\ \A o \in Orders : w[o] \in Int
      /\ \A o \in Orders \ {e} : v[o] = w[o]
      /\ v[e] = w[e] + AskedOf(cl[r].lines, p) /\ v[e] \in Int /\ w[e] \in Int
      /\ AskedOf(cl[r].lines, p) \in Int
  <2>1. ASSUME NEW o \in Orders
        PROVE  /\ w[o] = BookedBy(cl, rc, o, p) /\ w[o] \in Nat
               /\ v[o] = w[o] + (IF e = o THEN AskedOf(cl[r].lines, p) ELSE 0)
    BY <1>1
  <2>2. AskedOf(cl[r].lines, p) \in Nat /\ e \in Orders
    BY <1>1
  <2> HIDE DEF v, w, e
  <2>3. \A o \in Orders \ {e} : v[o] = w[o]
    BY <2>1
  <2>4. \A o \in Orders : w[o] \in Int
    BY <2>1
  <2>5. v[e] = w[e] + AskedOf(cl[r].lines, p)
    BY <2>1, <2>2
  <2> QED
    BY <2>1, <2>2, <2>3, <2>4, <2>5
<1>3. TotalBy(cl, rc, p) = SumFunctionOnSet(w, Orders)
      /\ TotalBy(cl, rc \cup {r}, p) = SumFunctionOnSet(v, Orders)
  BY DEF TotalBy, SumFunction
<1>4. e \in Orders
  OBVIOUS
<1> HIDE DEF w, v, e
<1>5. SumFunctionOnSet(v, Orders) = SumFunctionOnSet(w, Orders) + (v[e] - w[e])
  BY <1>2, <1>4, OrdersAssumption, SumUpdate
<1>6. SumFunctionOnSet(w, Orders) \in Int
  BY <1>2, OrdersAssumption, SumType
<1> QED
  BY <1>2, <1>3, <1>5, <1>6

\* The calls of others do not matter.
LEMMA BookedStays ==
    ASSUME NEW rc, NEW cl, NEW dl, \A s \in rc : dl[s] = cl[s], NEW p
    PROVE  /\ \A o : BookedBy(dl, rc, o, p) = BookedBy(cl, rc, o, p)
           /\ TotalBy(dl, rc, p) = TotalBy(cl, rc, p)
<1>1. ASSUME NEW o PROVE BookedBy(dl, rc, o, p) = BookedBy(cl, rc, o, p)
  <2>1. {s \in rc : dl[s].order = o} = {s \in rc : cl[s].order = o}
    OBVIOUS
  <2>2. [r \in {s \in rc : dl[s].order = o} |-> AskedOf(dl[r].lines, p)]
           = [r \in {s \in rc : cl[s].order = o} |-> AskedOf(cl[r].lines, p)]
    BY <2>1
  <2> QED
    BY <2>2 DEF BookedBy
<1>2. [o \in Orders |-> BookedBy(dl, rc, o, p)] = [o \in Orders |-> BookedBy(cl, rc, o, p)]
  BY <1>1
<1> QED
  BY <1>1, <1>2 DEF TotalBy

-----------------------------------------------------------------------------
(* The stage of every call, and the orders there are.                       *)

\* A statement belongs to one call and changes what that call holds only.
LEMMA StepIsLocal ==
    ASSUME TypeInv, NEW r \in Requests, Step(r)
    PROVE  /\ pc[r] \in Running /\ UNCHANGED <<call, day, overlapped>>
           /\ pc'[r] \in Running \cup {"done", "failed"}
           /\ \A s \in Requests \ {r} : /\ pc'[s] = pc[s] /\ local'[s] = local[s]
                                        /\ incremented'[s] = incremented[s]
           /\ call[r] \in Calls /\ call[r].order \in Orders
<1>1. /\ pc \in [Requests -> {"idle", "done", "failed"} \cup Running]
      /\ local \in [Requests -> LocalType] /\ incremented \in [Requests -> Quantities]
  BY DEF TypeInv, TypeOK, LocalType
<1>2. pc[r] \in Running /\ UNCHANGED <<call, day, overlapped>>
  BY DEF Step, ReadOrder, SetStatus, DeleteItems, CreateItems, ReadSource, Count, InsertOrder,
         ReadStatus, CheckLines, InsertReceipt, IncrementItem, IncreaseStock, StockThrows,
         ReadBack, Commit, Fail, Running, InTransaction
<1>3. \E l \in Running \cup {"done", "failed"} : Goto(r, l)
  BY DEF Step, ReadOrder, SetStatus, DeleteItems, CreateItems, ReadSource, Count, InsertOrder,
         ReadStatus, CheckLines, InsertReceipt, IncrementItem, IncreaseStock, StockThrows,
         ReadBack, Commit, Fail, AfterLine, Running, InTransaction
<1>4. \A s \in Requests \ {r} : local'[s] = local[s]
  BY <1>1 DEF Step, ReadOrder, SetStatus, DeleteItems, CreateItems, ReadSource, Count, InsertOrder,
         ReadStatus, CheckLines, InsertReceipt, IncrementItem, IncreaseStock, StockThrows,
         ReadBack, Commit, Fail
<1>5. \A s \in Requests \ {r} : incremented'[s] = incremented[s]
  BY <1>1 DEF Step, ReadOrder, SetStatus, DeleteItems, CreateItems, ReadSource, Count, InsertOrder,
         ReadStatus, CheckLines, InsertReceipt, IncrementItem, IncreaseStock, StockThrows,
         ReadBack, Commit, Fail
<1>6. call[r] \in Calls /\ call[r].order \in Orders
  <2>1. pc[r] # "idle"
    BY <1>2 DEF Running, InTransaction
  <2> QED
    BY <2>1, CallIsTyped DEF TypeInv, TypeOK
<1>7. PICK l \in Running \cup {"done", "failed"} : pc' = [pc EXCEPT ![r] = l]
  BY <1>3 DEF Goto
<1> QED
  BY <1>1, <1>2, <1>4, <1>5, <1>6, <1>7

\* The statements that change the status of an order.
LEMMA StatusChanges ==
    ASSUME TypeInv, NEW r \in Requests, Step(r), NEW o \in Orders
    PROVE  \/ status'[o] = status[o]
           \/ SetStatus(r) /\ o = call[r].order /\ status'[o] \in {"APPROVED", "CANCELLED"}
           \/ InsertOrder(r) /\ o = call[r].order /\ status'[o] = "DRAFT"
           \/ Commit(r) /\ o = call[r].order /\ status'[o] = local[r].newStatus
<1>1. status \in [Orders -> Status] /\ call[r].order \in Orders
  BY StepIsLocal DEF TypeInv, TypeOK
<1>2. CASE SetStatus(r)
  BY <1>1, <1>2 DEF SetStatus
<1>3. CASE InsertOrder(r)
  BY <1>1, <1>3 DEF InsertOrder, order
<1>4. CASE Commit(r)
  BY <1>1, <1>4 DEF Commit
<1>5. CASE ~SetStatus(r) /\ ~InsertOrder(r) /\ ~Commit(r)
  BY <1>5 DEF Step, ReadOrder, DeleteItems, CreateItems, ReadSource, Count,
         ReadStatus, CheckLines, InsertReceipt, IncrementItem, IncreaseStock, StockThrows,
         ReadBack, Fail, order
<1> QED
  BY <1>2, <1>3, <1>4, <1>5

\* An order that exists keeps existing.
LEMMA OrdersStay ==
    ASSUME TypeInv, OrderInv, NEW r \in Requests, Step(r), NEW o \in Orders, status[o] # "NONE"
    PROVE  status'[o] # "NONE"
<1>1. Commit(r) => local[r].newStatus # "NONE"
  BY DEF Commit, OrderInv, AtOrder
<1> QED
  BY <1>1, StatusChanges

\* The stage of the call that makes a step.
LEMMA StageFollows ==
    ASSUME TypeInv, OrderInv, NEW r \in Requests, Step(r)
    PROVE  AtOrder(r)'
<1>1. /\ pc \in [Requests -> {"idle", "done", "failed"} \cup Running]
      /\ local \in [Requests -> LocalType] /\ AtOrder(r) /\ call' = call
      /\ call[r].op \in Ops /\ call[r].order \in Orders /\ pc[r] \in Running
  BY StepIsLocal, CallIsTyped DEF TypeInv, TypeOK, LocalType, OrderInv
<1>2. \A l : Goto(r, l) => pc'[r] = l
  BY <1>1 DEF Goto
<1>3. status[call[r].order] # "NONE" => status'[call[r].order] # "NONE"
  BY <1>1, OrdersStay
<1>4. pc'[r] \in InTransaction => pc[r] \in InTransaction \cup {"insert"} /\ call[r].op = "receive"
  BY SMTT(60), <1>1, <1>2 DEF Step, ReadOrder, SetStatus, DeleteItems, CreateItems, ReadSource, Count,
     InsertOrder, ReadStatus, CheckLines, InsertReceipt, IncrementItem, IncreaseStock,
     StockThrows, ReadBack, Commit, Fail, AfterLine, AtOrder, InTransaction
<1>5. pc'[r] \in {"check", "count", "insert", "setStatus", "deleteItems", "createItems"} =>
         /\ pc'[r] = "check" => ReadStatus(r)
         /\ pc'[r] = "count" => ReadSource(r) \/ CheckLines(r)
         /\ pc'[r] = "insert" => Count(r)
         /\ pc'[r] = "setStatus" => ReadOrder(r) /\ call[r].op \in {"approve", "cancel"}
         /\ pc'[r] = "deleteItems" => ReadOrder(r) /\ call[r].op = "edit"
         /\ pc'[r] = "createItems" => DeleteItems(r)
  BY <1>1, <1>2 DEF Step, ReadOrder, SetStatus, DeleteItems, CreateItems, ReadSource, Count,
     InsertOrder, ReadStatus, CheckLines, InsertReceipt, IncrementItem, IncreaseStock,
     StockThrows, ReadBack, Commit, Fail, AfterLine, InTransaction
<1>6. pc'[r] = "done" => call[r].op # "receive" \/ Commit(r)
  BY <1>1, <1>2 DEF Step, ReadOrder, SetStatus, DeleteItems, CreateItems, ReadSource, Count,
     InsertOrder, ReadStatus, CheckLines, InsertReceipt, IncrementItem, IncreaseStock,
     StockThrows, ReadBack, Fail, AfterLine, AtOrder, Creating
<1>7. /\ ReadStatus(r) => local'[r].status # "NONE" /\ status[call[r].order] # "NONE"
      /\ ~ReadStatus(r) => local'[r].status = local[r].status
  BY <1>1 DEF Step, ReadOrder, SetStatus, DeleteItems, CreateItems, ReadSource, Count,
     InsertOrder, ReadStatus, CheckLines, InsertReceipt, IncrementItem, IncreaseStock,
     StockThrows, ReadBack, Commit, Fail, LocalType
<1>8. call[r].op = "receive" /\ pc'[r] \in Receiving =>
         status[call[r].order] # "NONE" /\ local'[r].status # "NONE"
  <2> SUFFICES ASSUME call[r].op = "receive", pc'[r] \in Receiving
               PROVE  status[call[r].order] # "NONE" /\ local'[r].status # "NONE"
    OBVIOUS
  <2>1. CASE ReadStatus(r)
    BY <1>7, <2>1
  <2>2. CASE ~ReadStatus(r)
    <3>1. pc[r] \in Receiving
      <4>1. ReadSource(r) => call[r].op # "receive"
        BY DEF ReadSource
      <4>2. CheckLines(r) \/ Count(r) \/ Commit(r) => pc[r] \in Receiving
        BY DEF CheckLines, Count, Commit, Receiving, InTransaction
      <4> QED
        BY <1>4, <1>5, <1>6, <2>2, <4>1, <4>2 DEF Receiving
    <3> QED
      BY <1>1, <1>7, <2>2, <3>1 DEF AtOrder
  <2> QED
    BY <2>1, <2>2
<1>9. pc'[r] = "commit" => local'[r].newStatus # "NONE"
  <2> SUFFICES ASSUME pc'[r] = "commit" PROVE local'[r].newStatus # "NONE"
    OBVIOUS
  <2>1. ReadBack(r)
    BY <1>1, <1>2 DEF Step, ReadOrder, SetStatus, DeleteItems, CreateItems, ReadSource, Count,
       InsertOrder, ReadStatus, CheckLines, InsertReceipt, IncrementItem, IncreaseStock,
       StockThrows, Commit, Fail, AfterLine
  <2>2. local[r].status # "NONE"
    BY <1>1, <2>1 DEF ReadBack, AtOrder, Receiving, InTransaction
  <2> QED
    BY <1>1, <2>1, <2>2 DEF ReadBack, LocalType
<1>10. call[r].op \in Creating /\ pc'[r] \in {"read", "count", "insert"} =>
          status'[call[r].order] = "NONE"
  <2> SUFFICES ASSUME call[r].op \in Creating, pc'[r] \in {"read", "count", "insert"}
               PROVE  status'[call[r].order] = "NONE"
    BY SMTT(60)
  <2>1. ReadSource(r) \/ Count(r) \/ CheckLines(r)
    BY <1>1, <1>2, <1>5 DEF Step, ReadOrder, SetStatus, DeleteItems, CreateItems,
       InsertOrder, ReadStatus, CheckLines, InsertReceipt, IncrementItem, IncreaseStock,
       StockThrows, ReadBack, Commit, Fail, AfterLine
  <2>2. status[call[r].order] = "NONE" /\ UNCHANGED status
    BY <1>1, <2>1 DEF ReadSource, Count, CheckLines, order, AtOrder, Creating
  <2> QED
    BY <2>2
<1>11. pc'[r] \in {"setStatus", "deleteItems", "createItems"} => status[call[r].order] # "NONE"
  BY <1>1, <1>5 DEF ReadOrder, DeleteItems, AtOrder
<1>12. /\ pc'[r] \in {"check"} \cup InTransaction => call[r].op = "receive"
       /\ pc'[r] \in {"count", "insert"} => call[r].op \in Creating \cup {"receive"}
       /\ pc'[r] \in {"deleteItems", "createItems"} => call[r].op = "edit"
  BY <1>1, <1>4, <1>5 DEF ReadStatus, ReadSource, CheckLines, Count, DeleteItems, AtOrder, Creating
<1> QED
  BY <1>1, <1>3, <1>5, <1>8, <1>9, <1>10, <1>11, <1>12 DEF AtOrder

\* A statement keeps every call at an order that is there.
LEMMA StepKeepsOrders ==
    ASSUME TypeInv, OrderInv, NEW r \in Requests, Step(r)
    PROVE  OrderInv'
<1>1. /\ call' = call /\ pc[r] \in Running
      /\ \A s \in Requests \ {r} : pc'[s] = pc[s] /\ local'[s] = local[s]
  BY StepIsLocal
<1>2. ASSUME NEW s \in Requests PROVE AtOrder(s)'
  <2>1. CASE s = r
    BY <2>1, StageFollows
  <2>2. CASE s # r /\ pc[s] # "idle"
    <3>1. AtOrder(s) /\ pc'[s] = pc[s] /\ local'[s] = local[s]
      BY <1>1, <2>2 DEF OrderInv
    <3>2. call[s].order \in Orders
      BY <2>2, CallIsTyped DEF TypeInv, TypeOK
    <3>3. call[s].op \in Creating /\ pc[s] \in {"read", "count", "insert"} =>
             status'[call[s].order] = "NONE"
      <4> SUFFICES ASSUME call[s].op \in Creating, status[call[s].order] = "NONE"
                   PROVE  status'[call[s].order] = "NONE"
        BY <3>1 DEF AtOrder
      <4>1. ~(InsertOrder(r) /\ call[s].order = call[r].order)
        BY <2>2 DEF InsertOrder, OrderInv, OneCreator
      <4>2. SetStatus(r) \/ Commit(r) => status[call[r].order] # "NONE"
        BY DEF SetStatus, Commit, OrderInv, AtOrder, Receiving, InTransaction
      <4> QED
        BY <3>2, <4>1, <4>2, StatusChanges
    <3>4. status[call[s].order] # "NONE" => status'[call[s].order] # "NONE"
      BY <3>2, OrdersStay
    <3> QED
      BY <1>1, <3>1, <3>3, <3>4 DEF AtOrder
  <2>3. CASE s # r /\ pc[s] = "idle"
    <3>1. pc'[s] = "idle"
      BY <1>1, <2>3
    <3> QED
      BY <3>1 DEF AtOrder, Receiving, InTransaction
  <2> QED
    BY <2>1, <2>2, <2>3
<1>3. ASSUME NEW s \in receipts' PROVE pc'[s] = "done" /\ call'[s].op = "receive"
  <2>1. CASE s \in receipts
    <3>1. s \in Requests /\ pc[s] = "done" /\ call[s].op = "receive"
      BY <2>1 DEF OrderInv, TypeInv, TypeOK
    <3>2. s # r
      BY SMTT(60), <1>1, <3>1 DEF Running, InTransaction
    <3> QED
      BY <1>1, <3>1, <3>2
  <2>2. CASE s \notin receipts
    <3>1. Commit(r) /\ s = r
      BY <1>3, <2>2 DEF Step, ReadOrder, SetStatus, DeleteItems, CreateItems, ReadSource,
         Count, InsertOrder, ReadStatus, CheckLines, InsertReceipt, IncrementItem,
         IncreaseStock, StockThrows, ReadBack, Commit, Fail
    <3>2. call[r].op = "receive"
      BY <3>1 DEF Commit, OrderInv, AtOrder, InTransaction
    <3> QED
      BY SMTT(60), <1>1, <3>1, <3>2 DEF Commit, Goto, TypeInv, TypeOK
  <2> QED
    BY <2>1, <2>2
<1> QED
  BY <1>1, <1>2, <1>3 DEF OrderInv, OneCreator

\* A new order has a new id.
LEMMA BeginKeepsOrders ==
    ASSUME TypeInv, OrderInv, NEW r \in Requests, NEW c \in Calls, Begin(r, c)
    PROVE  OrderInv'
<1>1. /\ pc[r] = "idle" /\ UNCHANGED <<status, receipts, local>>
      /\ pc'[r] \in {"count", "read"} /\ (pc'[r] = "count" => c.op = "create") /\ call'[r] = c
      /\ \A s \in Requests \ {r} : pc'[s] = pc[s] /\ call'[s] = call[s]
  BY DEF Begin, Goto, TypeInv, TypeOK, order
<1>2. c.op \in Creating => /\ status[c.order] = "NONE"
                           /\ \A s \in Requests : call[s].op \in Creating => call[s].order # c.order
  BY DEF Begin
<1>3. ASSUME NEW s \in Requests PROVE AtOrder(s)'
  <2>1. CASE s = r
    <3>1. AtOrder(r)'
      BY <1>1, <1>2 DEF AtOrder, Receiving, InTransaction, Creating
    <3> QED
      BY <2>1, <3>1
  <2>2. CASE s # r
    BY <1>1, <2>2 DEF AtOrder, OrderInv
  <2> QED
    BY <2>1, <2>2
<1>4. OneCreator'
  BY <1>1, <1>2 DEF OrderInv, OneCreator
<1>5. \A s \in receipts' : pc'[s] = "done" /\ call'[s].op = "receive"
  BY <1>1 DEF OrderInv, TypeInv, TypeOK
<1> QED
  BY <1>3, <1>4, <1>5 DEF OrderInv

\* No step leaves a call without its order.
LEMMA NextKeepsOrders == TypeInv /\ OrderInv /\ [Next]_vars => OrderInv'
<1> SUFFICES ASSUME TypeInv, OrderInv, [Next]_vars PROVE OrderInv'
  OBVIOUS
<1>1. CASE Midnight
  BY <1>1 DEF Midnight, order, OrderInv, AtOrder, OneCreator
<1>2. CASE UNCHANGED vars
  BY <1>2 DEF vars, order, OrderInv, AtOrder, OneCreator
<1> QED
  BY <1>1, <1>2, StepKeepsOrders, BeginKeepsOrders DEF Next

\* At the start no call is at an order.
LEMMA InitHasOrders == Init => OrderInv
<1> SUFFICES ASSUME Init PROVE OrderInv
  OBVIOUS
<1>1. \A r \in Requests : pc[r] = "idle" /\ call[r].op = "none" /\ r \notin receipts
  BY DEF Init, NoCall
<1>2. \A r \in Requests : AtOrder(r)
  BY <1>1 DEF AtOrder, Receiving, InTransaction
<1> QED
  BY <1>1, <1>2 DEF Init, OrderInv, OneCreator, Creating

-----------------------------------------------------------------------------
(* What open transactions have added, and what the stock is ahead by.       *)

\* What a statement gives to the stock and to what its transaction has pending.
Covers(r) == \A p \in Products :
    /\ Pending(r, p) \in Nat /\ Pending(r, p)' \in Nat
    /\ stock[p] \in Nat /\ stock'[p] \in Nat
    /\ stock'[p] >= stock[p] + (Pending(r, p)' - Pending(r, p))

\* The lines of a request that has begun.
LEMMA LinesOf ==
    ASSUME TypeInv, NEW r \in Requests, pc[r] # "idle"
    PROVE  /\ call[r].lines \in Seq(Line) /\ Len(call[r].lines) \in Nat
           /\ DOMAIN call[r].lines = 1 .. Len(call[r].lines)
           /\ local[r].line \in Nat
<1>1. call[r] \in Calls /\ call[r].lines \in Seq(Line)
  BY CallIsTyped DEF TypeInv, TypeOK
<1>2. local[r] \in LocalType
  BY DEF TypeInv, TypeOK, LocalType
<1> QED
  BY <1>1, <1>2 DEF LocalType

\* What a transaction has pending is a number.
LEMMA PendingIsNat ==
    ASSUME TypeInv, NEW r \in Requests, NEW p
    PROVE  Pending(r, p) \in Nat
<1>1. CASE pc[r] \notin InTransaction
  BY <1>1 DEF Pending
<1>2. CASE pc[r] \in InTransaction
  <2> DEFINE ls == call[r].lines
             n == local[r].line - 1
  <2>1. Cursor(r) /\ pc[r] # "idle"
    BY <1>2 DEF TypeInv, InTransaction
  <2>2. ls \in Seq(Line) /\ local[r].line \in Nat
    BY <2>1, LinesOf
  <2>3. CASE n \in Nat
    <3> HIDE DEF n, ls
    <3>1. Part(ls, p, n) \in Nat
      BY <2>2, <2>3, PartsAdd
    <3> QED
      BY <1>2, <3>1 DEF Pending, n, ls
  <2>4. CASE n \notin Nat
    <3>1. {k \in For(ls, p) : k <= n} = {}
      BY <2>2, <2>4 DEF For
    <3>2. Part(ls, p, n) = 0
      BY <3>1, SumEmpty DEF Part
    <3> QED
      BY <1>2, <3>2 DEF Pending
  <2> QED
    BY <2>3, <2>4
<1> QED
  BY <1>1, <1>2

\* Outside of a transaction nothing is added.
LEMMA OutsideBooks ==
    ASSUME TypeInv, NEW r \in Requests, Booking(r), Step(r),
           pc[r] \notin InTransaction, pc'[r] \notin InTransaction
    PROVE  Booking(r)' /\ Covers(r) /\ UNCHANGED <<stock, receipts>>
<1>1. /\ stock' = stock /\ receipts' = receipts
      /\ incremented' = incremented \/ incremented' = [incremented EXCEPT ![r] = Nothing]
  BY DEF Step, ReadOrder, SetStatus, DeleteItems, CreateItems, ReadSource, Count, InsertOrder,
         ReadStatus, CheckLines, InsertReceipt, IncrementItem, IncreaseStock, StockThrows,
         ReadBack, Commit, Fail, InTransaction
<1>2. stock \in Quantities /\ incremented \in [Requests -> Quantities]
  BY DEF TypeInv, TypeOK
<1>3. incremented'[r] = Nothing
  BY <1>1, <1>2 DEF Booking
<1>4. Booking(r)'
  BY <1>3 DEF Booking, InTransaction
<1>5. Covers(r)
  BY <1>1, <1>2 DEF Covers, Pending, Quantities
<1> QED
  BY <1>1, <1>4, <1>5

\* A transaction begins with nothing added.
LEMMA OpeningBooks ==
    ASSUME TypeInv, OrderInv, NEW r \in Requests, Booking(r), InsertReceipt(r), pc'[r] = "line"
    PROVE  Booking(r)' /\ Covers(r) /\ UNCHANGED <<stock, receipts>>
<1>1. /\ pc[r] = "insert" /\ UNCHANGED <<stock, receipts, call, local, incremented>>
      /\ stock \in Quantities
  BY DEF InsertReceipt, TypeInv, TypeOK
<1>2. local[r].line = 1 /\ call[r].lines \in Seq(Line)
  BY <1>1, LinesOf DEF TypeInv, Cursor
<1>3. \A p : Part(call[r].lines, p, 0) = 0
  BY <1>2, PartsAdd
<1>4. incremented[r] = Nothing
  BY <1>1 DEF Booking, InTransaction
<1>5. Booking(r)'
  BY <1>1, <1>2, <1>3, <1>4 DEF Booking, Nothing, InTransaction
<1>6. \A p : Pending(r, p)' = 0 /\ Pending(r, p) = 0
  BY <1>1, <1>2, <1>3 DEF Pending, InTransaction
<1> QED
  BY <1>1, <1>5, <1>6 DEF Covers, Quantities

\* The item of the line is incremented, ...
LEMMA ItemBooks ==
    ASSUME TypeInv, OrderInv, NEW r \in Requests, Booking(r), IncrementItem(r)
    PROVE  Booking(r)' /\ Covers(r) /\ UNCHANGED <<stock, receipts>>
<1> DEFINE n == local[r].line
           ls == call[r].lines
           l == CurrentLine(r)
<1>1. /\ pc[r] = "line" /\ pc' = [pc EXCEPT ![r] = "stock"]
      /\ incremented' = [incremented EXCEPT ![r][l.product] = @ + l.qty]
      /\ UNCHANGED <<stock, receipts, call, local>>
      /\ stock \in Quantities /\ incremented \in [Requests -> Quantities]
      /\ pc'[r] = "stock"
  BY DEF IncrementItem, Goto, TypeInv, TypeOK
<1>2. n \in 1 .. Len(ls) /\ ls \in Seq(Line) /\ n - 1 \in Nat /\ l = ls[n] /\ l \in Line
  BY <1>1, LinesOf DEF TypeInv, Cursor, CurrentLine
<1>3. l.product \in Products /\ l.qty \in Nat
  BY <1>2 DEF Line
<1>4. ASSUME NEW p \in Products
      PROVE  incremented'[r][p] = incremented[r][p] + (IF l.product = p THEN l.qty ELSE 0)
  <2>1. incremented[r] \in [Products -> Nat] /\ incremented[r][p] \in Nat
    BY <1>1 DEF Quantities
  <2>2. PICK a \in Products, b \in Nat : a = l.product /\ b = l.qty
    BY <1>3
  <2>3. incremented'[r] = [incremented[r] EXCEPT ![a] = @ + b]
    BY <1>1, <2>2
  <2> QED
    BY <2>1, <2>2, <2>3
<1>5. ASSUME NEW p \in Products PROVE incremented'[r][p] = Part(ls, p, n)
  <2>1. Part(ls, p, n) = Part(ls, p, n - 1) + (IF l.product = p THEN l.qty ELSE 0)
    <3> HIDE DEF ls, n, l
    <3>1. Part(ls, p, n) = Part(ls, p, n - 1) + (IF ls[n].product = p THEN ls[n].qty ELSE 0)
      BY <1>2, PartsAdd
    <3> QED
      BY <1>2, <3>1
  <2>2. incremented[r][p] = Part(ls, p, n - 1)
    BY <1>1 DEF Booking
  <2> QED
    BY <1>4, <2>1, <2>2
<1>6. Booking(r)'
  BY <1>1, <1>5 DEF Booking, InTransaction
<1>7. \A p : Pending(r, p)' = Pending(r, p) /\ Pending(r, p) \in Nat
  BY <1>1, PendingIsNat DEF Pending, InTransaction
<1> QED
  BY <1>1, <1>6, <1>7 DEF Covers, Quantities

\* ... and the stock increased, of which the transaction is then ahead.
LEMMA StockBooks ==
    ASSUME TypeInv, OrderInv, NEW r \in Requests, Booking(r), IncreaseStock(r)
    PROVE  Booking(r)' /\ Covers(r) /\ UNCHANGED receipts
<1> DEFINE n == local[r].line
           ls == call[r].lines
           l == CurrentLine(r)
<1>1. /\ pc[r] = "stock" /\ stock' = [stock EXCEPT ![l.product] = @ + l.qty]
      /\ pc' = [pc EXCEPT ![r] = IF n < Len(ls) THEN "line" ELSE "readBack"]
      /\ local' = [local EXCEPT ![r].line = @ + 1]
      /\ UNCHANGED <<receipts, call, incremented>>
      /\ stock \in Quantities /\ pc'[r] = IF n < Len(ls) THEN "line" ELSE "readBack"
      /\ local \in [Requests -> LocalType]
  BY DEF IncreaseStock, AfterLine, AddToStock, Goto, TypeInv, TypeOK, LocalType
<1>2. n \in 1 .. Len(ls) /\ ls \in Seq(Line) /\ n - 1 \in Nat /\ l = ls[n] /\ l \in Line
      /\ Len(ls) \in Nat /\ n \in Nat
  BY <1>1, LinesOf DEF TypeInv, Cursor, CurrentLine
<1>3. l.product \in Products /\ l.qty \in Nat
  BY <1>2 DEF Line
<1>4. local'[r].line = n + 1
  BY <1>1, <1>2 DEF LocalType
<1>5. Booking(r)'
  <2>1. \A p \in Products : incremented[r][p] = Part(ls, p, n)
    BY <1>1 DEF Booking
  <2>2. pc'[r] = "readBack" => n + 1 = Len(ls) + 1
    BY <1>1, <1>2
  <2>3. local'[r].line - 1 = n
    BY <1>2, <1>4
  <2>4. pc'[r] \in {"line", "readBack"}
    BY <1>1
  <2> HIDE DEF n, ls
  <2>5. \A p \in Products : incremented'[r][p] = Part(ls, p, local'[r].line - 1)
    BY <1>1, <2>1, <2>3
  <2>6. ls = call'[r].lines
    BY <1>1 DEF ls
  <2> QED
    BY <1>4, <2>2, <2>4, <2>5, <2>6 DEF Booking, InTransaction
<1>6. ASSUME NEW p \in Products
      PROVE  /\ Pending(r, p)' = Pending(r, p) + (IF l.product = p THEN l.qty ELSE 0)
             /\ stock'[p] = stock[p] + (IF l.product = p THEN l.qty ELSE 0)
  <2>1. Part(ls, p, n) = Part(ls, p, n - 1) + (IF l.product = p THEN l.qty ELSE 0)
    <3> HIDE DEF ls, n, l
    <3>1. Part(ls, p, n) = Part(ls, p, n - 1) + (IF ls[n].product = p THEN ls[n].qty ELSE 0)
      BY <1>2, PartsAdd
    <3> QED
      BY <1>2, <3>1
  <2>2. Pending(r, p) = Part(ls, p, n - 1)
    BY <1>1 DEF Pending, InTransaction
  <2>3. local'[r].line - 1 = n
    BY <1>2, <1>4
  <2>4. Pending(r, p)' = Part(ls, p, n)
    <3>1. Pending(r, p)' = Part(ls, p, local'[r].line - 1)
      BY <1>1 DEF Pending, InTransaction
    <3> HIDE DEF n, ls
    <3> QED
      BY <2>3, <3>1
  <2>5. stock'[p] = stock[p] + (IF l.product = p THEN l.qty ELSE 0)
    <3>1. PICK a \in Products, b \in Nat : a = l.product /\ b = l.qty
      BY <1>3
    <3>2. stock' = [stock EXCEPT ![a] = @ + b] /\ stock[p] \in Nat
      BY <1>1, <3>1 DEF Quantities
    <3> QED
      BY <1>1, <3>1, <3>2 DEF Quantities
  <2> QED
    BY <2>1, <2>2, <2>4, <2>5
<1>7. \A p : Pending(r, p) \in Nat
  BY PendingIsNat
<1>8. \A p \in Products : stock[p] \in Nat
  BY <1>1 DEF Quantities
<1>9. Covers(r)
  <2> HIDE DEF l
  <2> QED
    BY <1>3, <1>6, <1>7, <1>8 DEF Covers
<1> QED
  BY <1>1, <1>5, <1>9

\* A rollback takes back what was added, but not the stock.
LEMMA RollbackBooks ==
    ASSUME TypeInv, OrderInv, NEW r \in Requests, Booking(r),
           StockThrows(r) \/ (Fail(r) /\ pc[r] \in InTransaction)
    PROVE  Booking(r)' /\ Covers(r) /\ UNCHANGED receipts
<1> DEFINE l == CurrentLine(r)
<1>1. /\ incremented' = [incremented EXCEPT ![r] = Nothing] /\ pc' = [pc EXCEPT ![r] = "failed"]
      /\ UNCHANGED receipts
      /\ stock \in Quantities /\ incremented \in [Requests -> Quantities]
      /\ pc'[r] = "failed"
  BY DEF StockThrows, Fail, Goto, TypeInv, TypeOK
<1>2. Booking(r)'
  BY <1>1 DEF Booking, InTransaction
<1>3. \A p : Pending(r, p)' = 0 /\ Pending(r, p) \in Nat
  BY <1>1, PendingIsNat DEF Pending, InTransaction
<1>4. ASSUME NEW p \in Products PROVE stock[p] \in Nat /\ stock'[p] \in Nat /\ stock'[p] >= stock[p]
  <2>1. CASE UNCHANGED stock
    BY <1>1, <2>1 DEF Quantities
  <2>2. CASE StockThrows(r)
    <3>1. local[r].line \in 1 .. Len(call[r].lines) /\ call[r].lines \in Seq(Line)
      BY <2>2, LinesOf DEF TypeInv, Cursor, StockThrows
    <3>2. l.product \in Products /\ l.qty \in Nat
      <4>1. l \in Line
        BY <3>1 DEF CurrentLine
      <4> QED
        BY <4>1 DEF Line
    <3>3. PICK a \in Products, b \in Nat : a = l.product /\ b = l.qty
      BY <3>2
    <3>4. stock' = [stock EXCEPT ![a] = @ + b]
      BY <2>2, <3>3 DEF StockThrows, AddToStock
    <3> QED
      BY <1>1, <3>3, <3>4 DEF Quantities
  <2> QED
    BY <2>1, <2>2 DEF Fail
<1> QED
  BY <1>1, <1>2, <1>3, <1>4 DEF Covers

\* Reading back changes nothing.
LEMMA ReadBackBooks ==
    ASSUME TypeInv, OrderInv, NEW r \in Requests, Booking(r), ReadBack(r)
    PROVE  Booking(r)' /\ Covers(r) /\ UNCHANGED <<stock, receipts>>
<1>1. /\ pc[r] = "readBack" /\ pc'[r] = "commit"
      /\ UNCHANGED <<receipts, stock, call, incremented>>
      /\ local'[r].line = local[r].line /\ stock \in Quantities
  BY DEF ReadBack, Goto, TypeInv, TypeOK
<1>2. Booking(r)'
  BY <1>1 DEF Booking, InTransaction
<1>3. \A p : Pending(r, p)' = Pending(r, p) /\ Pending(r, p) \in Nat
  BY <1>1, PendingIsNat DEF Pending, InTransaction
<1> QED
  BY <1>1, <1>2, <1>3 DEF Covers, Quantities

\* What commits is what the receipt asks for.
LEMMA CommitBooks ==
    ASSUME TypeInv, OrderInv, NEW r \in Requests, Booking(r), Commit(r)
    PROVE  /\ Booking(r)' /\ UNCHANGED stock
           /\ receipts' = receipts \cup {r} /\ r \notin receipts
           /\ \A p \in Products :
                 /\ incremented[r][p] = AskedOf(call[r].lines, p)
                 /\ Pending(r, p) = AskedOf(call[r].lines, p) /\ Pending(r, p)' = 0
<1>1. /\ pc[r] = "commit" /\ pc'[r] = "done" /\ UNCHANGED stock /\ receipts' = receipts \cup {r}
      /\ incremented'[r] = Nothing
  BY DEF Commit, Goto, TypeInv, TypeOK
<1>2. Booking(r)'
  BY <1>1 DEF Booking, InTransaction
<1>3. r \notin receipts
  BY <1>1 DEF OrderInv
<1>4. ASSUME NEW p \in Products
      PROVE  /\ incremented[r][p] = AskedOf(call[r].lines, p)
             /\ Pending(r, p) = AskedOf(call[r].lines, p) /\ Pending(r, p)' = 0
  <2> DEFINE ls == call[r].lines
             n == local[r].line - 1
  <2>1. ls \in Seq(Line) /\ Len(ls) \in Nat
    BY <1>1, LinesOf
  <2>2. n = Len(ls)
    BY <1>1, <2>1 DEF Booking
  <2>3. incremented[r][p] = Part(ls, p, n)
    BY <1>1 DEF Booking
  <2>4. Pending(r, p) = Part(ls, p, n) /\ Pending(r, p)' = 0
    BY <1>1 DEF Pending, InTransaction
  <2> HIDE DEF n
  <2>5. AskedOf(ls, p) = Part(ls, p, Len(ls))
    <3> HIDE DEF ls
    <3> QED
      BY <2>1, PartsAdd
  <2> QED
    BY <2>2, <2>3, <2>4, <2>5
<1> QED
  BY <1>1, <1>2, <1>3, <1>4

\* The statements of a transaction.
LEMMA StepBooks ==
    ASSUME TypeInv, OrderInv, NEW r \in Requests, Booking(r), Step(r), ~Commit(r)
    PROVE  Booking(r)' /\ Covers(r) /\ UNCHANGED receipts
<1>1. CASE pc[r] \notin InTransaction /\ pc'[r] \notin InTransaction
  BY <1>1, OutsideBooks
<1>2. CASE pc[r] \notin InTransaction /\ pc'[r] \in InTransaction
  <2>1. pc \in [Requests -> {"idle", "done", "failed"} \cup Running]
    BY DEF TypeInv, TypeOK
  <2>2. \A l : Goto(r, l) => pc'[r] = l
    BY <2>1 DEF Goto
  <2>3. InsertReceipt(r) /\ pc'[r] = "line"
    BY <1>2, <2>2 DEF Step, ReadOrder, SetStatus, DeleteItems, CreateItems, ReadSource, Count,
       InsertOrder, ReadStatus, CheckLines, InsertReceipt, IncrementItem, IncreaseStock, StockThrows,
       ReadBack, Commit, Fail, InTransaction
  <2> QED
    BY <2>3, OpeningBooks
<1>3. CASE pc[r] \in InTransaction
  <2>1. \/ IncrementItem(r) \/ IncreaseStock(r) \/ StockThrows(r) \/ ReadBack(r)
        \/ Fail(r)
    BY <1>3 DEF Step, ReadOrder, SetStatus, DeleteItems, CreateItems, ReadSource, Count,
       InsertOrder, ReadStatus, CheckLines, InsertReceipt, InTransaction
  <2> QED
    BY <1>3, <2>1, ItemBooks, StockBooks, RollbackBooks, ReadBackBooks
<1> QED
  BY <1>1, <1>2, <1>3

\* Only the commit of a receipt changes what has been received.
LEMMA ReceivedFollows ==
    ASSUME TypeInv, NEW r \in Requests, Step(r)
    PROVE  /\ ~Commit(r) => received' = received
           /\ Commit(r) => \A o \in Orders, p \in Products : received'[o][p] =
                 received[o][p] + (IF call[r].order = o THEN incremented[r][p] ELSE 0)
           /\ \A o \in Orders, p \in Products :
                 received[o][p] \in Nat /\ incremented[r][p] \in Nat
<1>1. /\ received \in [Orders -> Quantities] /\ incremented \in [Requests -> Quantities]
      /\ call[r].order \in Orders
  BY StepIsLocal DEF TypeInv, TypeOK
<1>2. ~Commit(r) => received' = received
  BY DEF Step, ReadOrder, SetStatus, DeleteItems, CreateItems, ReadSource, Count,
     InsertOrder, ReadStatus, CheckLines, InsertReceipt, IncrementItem, IncreaseStock, StockThrows,
     ReadBack, Fail, order
<1>3. \A o \in Orders, p \in Products : received[o][p] \in Nat /\ incremented[r][p] \in Nat
  BY <1>1 DEF Quantities
<1>4. ASSUME Commit(r), NEW o \in Orders, NEW p \in Products
      PROVE  received'[o][p] =
                 received[o][p] + (IF call[r].order = o THEN incremented[r][p] ELSE 0)
  <2>1. received' = [received EXCEPT ![call[r].order] = AfterCommit(r)]
    BY <1>4 DEF Commit
  <2>2. AfterCommit(r)[p] = received[call[r].order][p] + incremented[r][p]
    BY DEF AfterCommit
  <2> QED
    BY <1>1, <1>3, <2>1, <2>2
<1> QED
  BY <1>2, <1>3, <1>4


\* That holds before a step and after it.
PendingTyped == \A r \in Requests, p \in Products : Pending(r, p) \in Nat

\* What a transaction has pending is a natural number.
LEMMA PendingIsTyped == TypeInv => PendingTyped
BY PendingIsNat DEF PendingTyped

\* What is pending in all follows what the statement's transaction has pending.
LEMMA PendingFollows ==
    ASSUME TypeInv, TypeInv', NEW r \in Requests, Step(r), NEW p \in Products
    PROVE  /\ PendingSum(p) \in Int
           /\ PendingSum(p)' = PendingSum(p) + (Pending(r, p)' - Pending(r, p))
           /\ Pending(r, p)' \in Nat /\ Pending(r, p) \in Nat
<1>1. PendingTyped
  BY PendingIsTyped
<1>2. PendingTyped'
  BY PendingIsTyped, PTL
<1>3. \A s \in Requests \ {r} : Pending(s, p)' = Pending(s, p)
  BY StepIsLocal DEF Pending
<1>4. PICK w, v : w = [s \in Requests |-> Pending(s, p)] /\ v = [s \in Requests |-> Pending(s, p)']
  OBVIOUS
<1>5. /\ \A s \in Requests : w[s] \in Int
      /\ v[r] \in Int /\ w[r] = Pending(r, p) /\ v[r] = Pending(r, p)'
      /\ \A s \in Requests \ {r} : v[s] = w[s]
  BY <1>1, <1>2, <1>3, <1>4 DEF PendingTyped
<1>6. SumFunctionOnSet(v, Requests) = SumFunctionOnSet(w, Requests) + (v[r] - w[r])
  <2>1. PICK S : S = Requests /\ IsFiniteSet(S) /\ r \in S
    BY OrdersAssumption
  <2>2. /\ \A s \in S : w[s] \in Int
        /\ v[r] \in Int /\ \A s \in S \ {r} : v[s] = w[s]
    BY <1>5, <2>1
  <2>3. SumFunctionOnSet(v, S) = SumFunctionOnSet(w, S) + (v[r] - w[r])
    BY <2>1, <2>2, SumUpdate
  <2> QED
    BY <2>1, <2>3
<1>8. SumFunctionOnSet(w, Requests) \in Int
  BY <1>5, OrdersAssumption, SumType
<1>7. /\ PendingSum(p) = SumFunctionOnSet(w, Requests)
      /\ PendingSum(p)' = SumFunctionOnSet(v, Requests)
  BY <1>4 DEF PendingSum, SumFunction
<1> QED
  BY <1>1, <1>2, <1>5, <1>6, <1>7, <1>8 DEF PendingTyped

\* The receipts are finitely many, and have lines.
LEMMA ReceiptsAreTyped ==
    ASSUME TypeInv, OrderInv
    PROVE  /\ IsFiniteSet(receipts)
           /\ \A s \in receipts : /\ call[s].lines \in Seq(Line)
                                  /\ s \in Requests /\ pc[s] = "done"
<1>1. IsFiniteSet(receipts) /\ \A s \in receipts : s \in Requests /\ pc[s] = "done"
  BY DEF TypeInv, TypeOK, OrderInv
<1> QED
  BY <1>1, LinesOf

\* What is booked is a number.
LEMMA BookedIsInt ==
    ASSUME TypeInv, OrderInv, NEW p \in Products
    PROVE  BookedSum(p) \in Int /\ \A o \in Orders : Booked(o, p) \in Nat
<1>1. ASSUME NEW o \in Orders PROVE Booked(o, p) \in Nat
  <2>1. CASE receipts = {}
    <3>1. ReceiptsOf(o) = {}
      BY <2>1 DEF ReceiptsOf
    <3>2. Booked(o, p) = 0
      BY <3>1, SumEmpty DEF Booked, SumFunction
    <3> QED
      BY <3>2
  <2>2. CASE receipts # {}
    <3>1. PICK r \in receipts : TRUE
      BY <2>2
    <3>2. IsFiniteSet(receipts) /\ \A s \in receipts \cup {r} : call[s].lines \in Seq(Line)
      BY <3>1, ReceiptsAreTyped
    <3> QED
      BY <3>2, BookedAdds, BookedIsSum
  <2> QED
    BY <2>1, <2>2
<1>2. PICK w : w = [o \in Orders |-> Booked(o, p)]
  OBVIOUS
<1>3. BookedSum(p) = SumFunctionOnSet(w, Orders)
  BY <1>2 DEF BookedSum, SumFunction
<1> QED
  BY <1>1, <1>2, <1>3, OrdersAssumption, SumType

\* A step keeps the books.
LEMMA StepKeepsBooks ==
    ASSUME TypeInv, TypeInv', OrderInv, BookInv, NEW r \in Requests, Step(r)
    PROVE  BookInv'
<1>1. /\ call' = call /\ call[r].order \in Orders /\ pc[r] # "idle"
      /\ \A s \in Requests \ {r} : /\ pc'[s] = pc[s] /\ local'[s] = local[s]
                                   /\ incremented'[s] = incremented[s]
  BY StepIsLocal DEF Running, InTransaction
<1>2. ASSUME NEW s \in Requests \ {r} PROVE Booking(s)'
  <2>1. Booking(s)
    BY DEF BookInv
  <2> QED
    BY <1>1, <2>1 DEF Booking
<1>3. Booking(r)
  BY DEF BookInv
<1>4. CASE ~Commit(r)
  <2>1. Booking(r)' /\ Covers(r) /\ receipts' = receipts
    BY <1>3, <1>4, StepBooks
  <2>2. ReceivedIsBooked'
    <3>1. received' = received /\ \A o, p : Booked(o, p)' = Booked(o, p)
      BY <1>1, <1>4, <2>1, ReceivedFollows, BookedIsSum
    <3> QED
      BY <3>1 DEF BookInv, ReceivedIsBooked
  <2>3. ASSUME NEW p \in Products PROVE stock'[p] >= BookedSum(p)' + PendingSum(p)'
    <3>1. BookedSum(p)' = BookedSum(p)
      BY <1>1, <2>1, BookedIsSum
    <3>2. PendingSum(p)' = PendingSum(p) + (Pending(r, p)' - Pending(r, p)) /\ PendingSum(p) \in Int
      BY PendingFollows
    <3>3. /\ stock[p] >= BookedSum(p) + PendingSum(p)
          /\ Pending(r, p) \in Nat /\ Pending(r, p)' \in Nat
          /\ stock[p] \in Nat /\ stock'[p] \in Nat
          /\ stock'[p] >= stock[p] + (Pending(r, p)' - Pending(r, p))
      BY <2>1 DEF BookInv, Covers
    <3>4. BookedSum(p) \in Int
      BY BookedIsInt
    <3> QED
      BY <3>1, <3>2, <3>3, <3>4
  <2> QED
    BY <1>2, <2>1, <2>2, <2>3 DEF BookInv
<1>5. CASE Commit(r)
  <2>1. /\ Booking(r)' /\ stock' = stock
        /\ receipts' = receipts \cup {r} /\ r \notin receipts
        /\ \A p \in Products :
              /\ incremented[r][p] = AskedOf(call[r].lines, p)
              /\ Pending(r, p) = AskedOf(call[r].lines, p) /\ Pending(r, p)' = 0
    BY <1>3, <1>5, CommitBooks
  <2>2. /\ IsFiniteSet(receipts) /\ \A s \in receipts \cup {r} : call[s].lines \in Seq(Line)
    BY <1>1, ReceiptsAreTyped, LinesOf
  <2>3. ReceivedIsBooked'
    <3> SUFFICES ASSUME NEW o \in Orders, NEW p \in Products
                 PROVE  received'[o][p] = Booked(o, p)'
      BY DEF ReceivedIsBooked
    <3>1. received[o][p] = BookedBy(call, receipts, o, p)
      BY BookedIsSum DEF BookInv, ReceivedIsBooked
    <3>2. Booked(o, p)' = BookedBy(call, receipts \cup {r}, o, p)
      BY <1>1, <2>1, BookedIsSum
    <3>3. BookedBy(call, receipts \cup {r}, o, p) = BookedBy(call, receipts, o, p)
             + (IF call[r].order = o THEN AskedOf(call[r].lines, p) ELSE 0)
      <4>1. PICK cl, rc : cl = call /\ rc = receipts
        OBVIOUS
      <4>2. /\ IsFiniteSet(rc) /\ r \notin rc
            /\ \A s \in rc \cup {r} : cl[s].lines \in Seq(Line)
        BY <2>1, <2>2, <4>1
      <4>3. BookedBy(cl, rc \cup {r}, o, p) = BookedBy(cl, rc, o, p)
               + (IF cl[r].order = o THEN AskedOf(cl[r].lines, p) ELSE 0)
        BY <4>2, BookedAdds
      <4> QED
        BY <4>1, <4>3
    <3>4. received'[o][p] = received[o][p] + (IF call[r].order = o THEN incremented[r][p] ELSE 0)
      BY <1>5, ReceivedFollows
    <3> QED
      BY <2>1, <3>1, <3>2, <3>3, <3>4
  <2>4. ASSUME NEW p \in Products PROVE stock'[p] >= BookedSum(p)' + PendingSum(p)'
    <3>1. PendingSum(p)' = PendingSum(p) + (Pending(r, p)' - Pending(r, p)) /\ PendingSum(p) \in Int
          /\ Pending(r, p) \in Nat /\ Pending(r, p)' = 0 /\ Pending(r, p) = AskedOf(call[r].lines, p)
      BY <2>1, PendingFollows
    <3>2. /\ TotalBy(call, receipts, p) \in Int
          /\ TotalBy(call, receipts \cup {r}, p) = TotalBy(call, receipts, p) + AskedOf(call[r].lines, p)
      BY <1>1, <2>1, <2>2, TotalAdds
    <3>3. BookedSum(p)' = TotalBy(call, receipts \cup {r}, p) /\ BookedSum(p) = TotalBy(call, receipts, p)
      BY <1>1, <2>1, BookedIsSum
    <3>4. stock[p] >= BookedSum(p) + PendingSum(p) /\ stock'[p] = stock[p] /\ stock[p] \in Nat
      BY <2>1 DEF BookInv, TypeInv, TypeOK, Quantities
    <3>5. PICK a, b, c, d : a = Pending(r, p) /\ b = PendingSum(p) /\ c = PendingSum(p)'
                            /\ d = BookedSum(p)'
      OBVIOUS
    <3>6. c = b - a /\ d = BookedSum(p) + a /\ BookedSum(p) \in Int /\ a \in Nat /\ b \in Int
      BY <3>1, <3>2, <3>3, <3>5
    <3> QED
      BY <3>4, <3>5, <3>6
  <2> QED
    BY <1>2, <2>1, <2>3, <2>4 DEF BookInv
<1> QED
  BY <1>4, <1>5

\* A step that adds nothing and commits nothing keeps the books.
LEMMA QuietKeepsBooks ==
    ASSUME BookInv, UNCHANGED <<received, stock, receipts>>,
           \A s \in receipts : call'[s] = call[s],
           \A s \in Requests : Booking(s)' /\ \A p : Pending(s, p)' = Pending(s, p)
    PROVE  BookInv'
<1>1. \A p : /\ \A o : Booked(o, p)' = Booked(o, p)
             /\ BookedSum(p)' = BookedSum(p)
  <2> SUFFICES ASSUME NEW p
               PROVE  (\A o : Booked(o, p)' = Booked(o, p)) /\ BookedSum(p)' = BookedSum(p)
    OBVIOUS
  <2>1. PICK rc, cl, dl : rc = receipts /\ cl = call /\ dl = call'
    OBVIOUS
  <2>2. \A s \in rc : dl[s] = cl[s]
    BY <2>1
  <2>3. /\ \A o : BookedBy(dl, rc, o, p) = BookedBy(cl, rc, o, p)
        /\ TotalBy(dl, rc, p) = TotalBy(cl, rc, p)
    BY <2>2, BookedStays
  <2> QED
    BY <2>1, <2>3, BookedIsSum
<1>2. \A p : PendingSum(p)' = PendingSum(p)
  <2> SUFFICES ASSUME NEW p PROVE PendingSum(p)' = PendingSum(p)
    OBVIOUS
  <2>1. [s \in Requests |-> Pending(s, p)]' = [s \in Requests |-> Pending(s, p)]
    OBVIOUS
  <2>2. PICK w : w = [s \in Requests |-> Pending(s, p)] /\ w = [s \in Requests |-> Pending(s, p)]'
    BY <2>1
  <2>3. PendingSum(p) = SumFunction(w) /\ PendingSum(p)' = SumFunction(w)
    BY <2>2 DEF PendingSum
  <2> QED
    BY <2>3
<1>3. ReceivedIsBooked'
  BY <1>1 DEF BookInv, ReceivedIsBooked
<1> QED
  BY <1>1, <1>2, <1>3 DEF BookInv

\* A call that begins has booked nothing.
LEMMA BeginIsQuiet ==
    ASSUME TypeInv, OrderInv, BookInv, NEW r \in Requests, NEW c \in Calls, Begin(r, c)
    PROVE  BookInv'
<1>1. /\ pc[r] = "idle" /\ pc'[r] \in {"count", "read"}
      /\ UNCHANGED <<received, stock, receipts, local, incremented>>
      /\ \A s \in Requests \ {r} : pc'[s] = pc[s] /\ call'[s] = call[s]
  BY DEF Begin, Goto, TypeInv, TypeOK, order
<1>2. \A s \in receipts : call'[s] = call[s]
  BY <1>1 DEF OrderInv, TypeInv, TypeOK
<1>3. ASSUME NEW s \in Requests \ {r} PROVE Booking(s)' /\ \A p : Pending(s, p)' = Pending(s, p)
  BY <1>1 DEF BookInv, Booking, Pending
<1>4. Booking(r)' /\ \A p : Pending(r, p)' = Pending(r, p)
  BY <1>1 DEF BookInv, Booking, Pending, InTransaction
<1> QED
  BY <1>1, <1>2, <1>3, <1>4, QuietKeepsBooks

\* No step breaks the books: stock and received quantities are what the
\* committed receipts and the running transactions account for.
LEMMA NextKeepsBooks == TypeInv /\ TypeInv' /\ OrderInv /\ BookInv /\ [Next]_vars => BookInv'
<1> SUFFICES ASSUME TypeInv, TypeInv', OrderInv, BookInv, [Next]_vars PROVE BookInv'
  OBVIOUS
<1>1. CASE Midnight \/ UNCHANGED vars
  <2>1. UNCHANGED <<received, stock, receipts, call, pc, local, incremented>>
    BY <1>1 DEF Midnight, vars, order
  <2>2. \A s \in Requests : Booking(s)' /\ \A p : Pending(s, p)' = Pending(s, p)
    BY <2>1 DEF BookInv, Booking, Pending
  <2> QED
    BY <2>1, <2>2, QuietKeepsBooks
<1> QED
  BY <1>1, StepKeepsBooks, BeginIsQuiet DEF Next

\* At first nothing is booked.
LEMMA InitBooks == Init => BookInv
<1> SUFFICES ASSUME Init PROVE BookInv
  OBVIOUS
<1>1. /\ receipts = {} /\ \A r \in Requests : pc[r] = "idle" /\ incremented[r] = Nothing
      /\ \A o \in Orders : received[o] = Nothing
      /\ stock = Nothing
  BY DEF Init
<1>2. \A o, p : Booked(o, p) = 0
  <2>1. \A o : ReceiptsOf(o) = {}
    BY <1>1 DEF ReceiptsOf
  <2> QED
    BY <2>1, SumEmpty DEF Booked, SumFunction
<1>3. ASSUME NEW p PROVE BookedSum(p) = 0 /\ PendingSum(p) = 0
  <2>1. PICK w : w = [o \in Orders |-> Booked(o, p)]
    OBVIOUS
  <2>2. SumFunctionOnSet(w, Orders) = 0
    BY <1>2, <2>1, OrdersAssumption, SumZero
  <2>3. PICK v : v = [s \in Requests |-> Pending(s, p)]
    OBVIOUS
  <2>4. \A s \in Requests : v[s] = 0
    BY <1>1, <2>3 DEF Pending, InTransaction
  <2>5. SumFunctionOnSet(v, Requests) = 0
    BY <2>4, OrdersAssumption, SumZero
  <2> QED
    BY <2>1, <2>2, <2>3, <2>5 DEF BookedSum, PendingSum, SumFunction
<1>4. \A r \in Requests : Booking(r)
  BY <1>1 DEF Booking, InTransaction
<1>5. ReceivedIsBooked
  BY <1>1, <1>2 DEF ReceivedIsBooked, Nothing
<1>6. \A p \in Products : stock[p] >= BookedSum(p) + PendingSum(p)
  BY <1>1, <1>3 DEF Nothing
<1> QED
  BY <1>4, <1>5, <1>6 DEF BookInv

-----------------------------------------------------------------------------
(* Calls that do not overlap.                                               *)

\* Without receipts an order has received nothing.
LEMMA NothingReceived ==
    ASSUME TypeInv, BookInv, NEW o \in Orders, ReceiptsOf(o) = {}, NEW p \in Products
    PROVE  received[o][p] = 0
<1>1. Booked(o, p) = 0
  BY SumEmpty DEF Booked, SumFunction
<1> QED
  BY <1>1 DEF BookInv, ReceivedIsBooked

\* What is ordered shrinks only where nothing has been received.
LEMMA QuantitiesGrow ==
    ASSUME TypeInv, TypeInv', OrderInv, NEW r \in Requests, Step(r), NEW o \in Orders,
           ReceiptsOf(o) # {}, NEW p \in Products
    PROVE  quantity'[o][p] >= quantity[o][p] /\ quantity[o][p] \in Nat /\ quantity'[o][p] \in Nat
<1>1. quantity \in [Orders -> Quantities] /\ quantity' \in [Orders -> Quantities]
  BY DEF TypeInv, TypeOK
<1>2. quantity[o][p] \in Nat /\ quantity'[o][p] \in Nat
  BY <1>1 DEF Quantities
<1>3. call[r].order \in Orders /\ call[r].items \in Quantities
  BY StepIsLocal, CallIsTyped
<1>4. CASE DeleteItems(r)
  BY <1>1, <1>2, <1>3, <1>4 DEF DeleteItems
<1>5. CASE CreateItems(r)
  <2>1. CASE UNCHANGED quantity
    BY <1>2, <2>1
  <2>2. CASE quantity' = [quantity EXCEPT ![call[r].order] =
                              [q \in Products |-> @[q] + call[r].items[q]]]
    <3>1. call[r].items[p] \in Nat
      BY <1>3 DEF Quantities
    <3>2. CASE o = call[r].order
      BY <1>1, <1>2, <2>2, <3>1, <3>2
    <3>3. CASE o # call[r].order
      BY <1>1, <1>2, <2>2, <3>3
    <3> QED
      BY <3>2, <3>3
  <2> QED
    BY <1>5, <2>1, <2>2 DEF CreateItems
<1>6. CASE InsertOrder(r)
  <2>1. status[call[r].order] = "NONE"
    BY <1>6 DEF InsertOrder, OrderInv, AtOrder
  <2>2. PICK s \in receipts : call[s].order = o
    BY DEF ReceiptsOf
  <2>3. status[o] # "NONE"
    BY <2>2 DEF OrderInv, AtOrder, Receiving, TypeInv, TypeOK
  <2>4. quantity'[o] = quantity[o]
    BY <1>1, <1>6, <2>1, <2>3 DEF InsertOrder, order
  <2> QED
    BY <1>2, <2>4
<1>7. CASE ~DeleteItems(r) /\ ~CreateItems(r) /\ ~InsertOrder(r)
  <2>1. quantity' = quantity
    BY <1>7 DEF Step, ReadOrder, SetStatus, ReadSource, Count, ReadStatus, CheckLines,
       InsertReceipt, IncrementItem, IncreaseStock, StockThrows, ReadBack, Commit, Fail, order
  <2> QED
    BY <1>2, <2>1
<1> QED
  BY <1>4, <1>5, <1>6, <1>7

\* A receipt whose lines fit leaves its order within what was ordered.
LEMMA CommitFits ==
    ASSUME TypeInv, OrderInv, BookInv, NEW r \in Requests, Commit(r), Fits(r), ListsOnce(r),
           NEW p \in Products,
           received[call[r].order][p] <= quantity[call[r].order][p]
    PROVE  received[call[r].order][p] + incremented[r][p] <= quantity[call[r].order][p]
<1> DEFINE o == call[r].order
           ls == call[r].lines
<1>1. o \in Orders /\ ls \in Seq(Line) /\ Step(r) /\ Booking(r)
  BY StepIsLocal, LinesOf DEF Step, Commit, Running, InTransaction, BookInv
<1>2. /\ received[o][p] \in Nat /\ quantity[o][p] \in Nat
      /\ incremented[r][p] = AskedOf(ls, p)
  BY SMTT(60), <1>1, CommitBooks DEF TypeInv, TypeOK, Quantities
<1>3. Cardinality(For(ls, p)) <= 1
  BY DEF ListsOnce, LinesFor, For
<1>4. AskedOf(ls, p) = 0 \/ \E k \in DOMAIN ls : ls[k].product = p /\ AskedOf(ls, p) = ls[k].qty
  <2> HIDE DEF ls
  <2> QED
    BY <1>1, <1>3, AskedOnce
<1>5. ASSUME NEW k \in DOMAIN ls, ls[k].product = p, AskedOf(ls, p) = ls[k].qty
      PROVE  received[o][p] + incremented[r][p] <= quantity[o][p]
  <2>1. ls[k].qty <= quantity[o][p] - received[o][p]
    BY <1>5 DEF Fits, Remaining
  <2>2. ls[k].qty \in Nat
    <3>1. ls[k] \in Line
      BY <1>1
    <3> QED
      BY <3>1 DEF Line
  <2> QED
    BY <1>2, <1>5, <2>1, <2>2
<1> QED
  BY <1>2, <1>4, <1>5

\* The lines were checked on the order as it is.
LEMMA FitFollows ==
    ASSUME TypeInv, OrderInv, NEW r \in Requests, Step(r), call[r].op = "receive",
           pc'[r] \in {"count", "insert"} \cup InTransaction,
           pc[r] \in {"count", "insert"} \cup InTransaction => Fits(r)
    PROVE  Fits(r)'
<1>1. /\ pc \in [Requests -> {"idle", "done", "failed"} \cup Running]
      /\ call' = call
  BY StepIsLocal DEF TypeInv, TypeOK
<1>2. \A l : Goto(r, l) => pc'[r] = l
  BY <1>1 DEF Goto
<1>3. \/ CheckLines(r) /\ pc'[r] = "count"
      \/ pc[r] \in {"count", "insert"} \cup InTransaction /\ UNCHANGED order
  BY <1>2 DEF Step, ReadOrder, SetStatus, DeleteItems, CreateItems, ReadSource, Count,
     InsertOrder, ReadStatus, CheckLines, InsertReceipt, IncrementItem, IncreaseStock,
     StockThrows, ReadBack, Commit, Fail, InTransaction
<1>4. CASE CheckLines(r) /\ pc'[r] = "count"
  <2>1. \A k \in DOMAIN call[r].lines :
           call[r].lines[k].qty <= Remaining(call[r].order, call[r].lines[k].product)
    BY <1>2, <1>4 DEF CheckLines
  <2>2. UNCHANGED order
    BY <1>4 DEF CheckLines
  <2> QED
    BY <1>1, <2>1, <2>2 DEF Fits, Remaining, order
<1>5. CASE pc[r] \in {"count", "insert"} \cup InTransaction /\ UNCHANGED order
  BY <1>1, <1>5 DEF Fits, Remaining, order
<1> QED
  BY <1>3, <1>4, <1>5

\* A receipt that is committed stays.
LEMMA ReceiptsGrow ==
    ASSUME NEW r \in Requests, Step(r)
    PROVE  receipts' = receipts \/ receipts' = receipts \cup {r}
BY DEF Step, ReadOrder, SetStatus, DeleteItems, CreateItems, ReadSource, Count,
   InsertOrder, ReadStatus, CheckLines, InsertReceipt, IncrementItem, IncreaseStock,
   StockThrows, ReadBack, Commit, Fail

\* Without overlapping calls, a statement keeps what the running receipt has
\* checked against its order.
LEMMA StepKeepsSolo ==
    ASSUME TypeInv, TypeInv', OrderInv, BookInv, SoloInv, NEW r \in Requests, Step(r)
    PROVE  SoloInv'
<1>1. /\ call' = call /\ overlapped' = overlapped /\ pc[r] \in Running
      /\ \A s \in Requests \ {r} : pc'[s] = pc[s]
      /\ call[r].order \in Orders
  BY StepIsLocal
<1> SUFFICES ASSUME ~overlapped PROVE SoloInv'
  BY <1>1 DEF SoloInv
<1>2. \A s \in Requests \ {r} : pc'[s] \notin Running
  BY <1>1 DEF SoloInv
<1>3. \A s, t \in Requests : pc'[s] \in Running /\ pc'[t] \in Running => s = t
  BY <1>2
<1>4. ASSUME NEW s \in Requests,
             call'[s].op = "receive", pc'[s] \in {"count", "insert"} \cup InTransaction
      PROVE  Fits(s)'
  <2>1. s = r
    BY <1>2, <1>4 DEF Running
  <2>2. call[r].op = "receive" /\ pc'[r] \in {"count", "insert"} \cup InTransaction
    BY <1>1, <1>4, <2>1
  <2>3. pc[r] \in {"count", "insert"} \cup InTransaction => Fits(r)
    BY <2>2 DEF SoloInv
  <2>4. Fits(r)'
    BY <2>2, <2>3, FitFollows
  <2> QED
    BY <2>1, <2>4
<1>5. NoOverReceipt'
  <2> SUFFICES ASSUME NEW o \in Orders, NEW p \in Products,
                      \A s \in ReceiptsOf(o)' : ListsOnce(s)'
               PROVE  received'[o][p] <= quantity'[o][p]
    BY DEF NoOverReceipt
  <2>0. \A s : ListsOnce(s)' = ListsOnce(s)
    BY <1>1 DEF ListsOnce, LinesFor
  <2>1. received[o][p] \in Nat /\ quantity[o][p] \in Nat /\ quantity'[o][p] \in Nat
    BY DEF TypeInv, TypeOK, Quantities
  <2>2. ReceiptsOf(o) \subseteq ReceiptsOf(o)'
    BY <1>1, ReceiptsGrow DEF ReceiptsOf
  <2>3. received[o][p] <= quantity[o][p]
    BY <2>0, <2>2 DEF SoloInv, NoOverReceipt
  <2>4. CASE ~Commit(r)
    <3>1. received' = received
      BY <2>4, ReceivedFollows
    <3>2. CASE ReceiptsOf(o) = {}
      BY <2>1, <3>1, <3>2, NothingReceived
    <3>3. CASE ReceiptsOf(o) # {}
      BY <2>1, <2>3, <3>1, <3>3, QuantitiesGrow
    <3> QED
      BY <3>2, <3>3
  <2>5. CASE Commit(r)
    <3>1. /\ quantity' = quantity /\ receipts' = receipts \cup {r}
          /\ received'[o][p] = received[o][p] + (IF call[r].order = o THEN incremented[r][p] ELSE 0)
      BY <2>5, ReceivedFollows DEF Commit
    <3>2. CASE call[r].order = o
      <4>1. r \in ReceiptsOf(o)' /\ Fits(r)
        BY <1>1, <2>5, <3>1, <3>2 DEF ReceiptsOf, SoloInv, Commit, OrderInv, AtOrder, InTransaction
      <4>2. ListsOnce(r)
        BY <2>0, <4>1
      <4> QED
        BY <2>3, <2>5, <3>1, <3>2, <4>1, <4>2, CommitFits
    <3>3. CASE call[r].order # o
      BY <2>1, <2>3, <3>1, <3>3
    <3> QED
      BY <3>2, <3>3
  <2> QED
    BY <2>4, <2>5
<1> QED
  BY <1>3, <1>4, <1>5 DEF SoloInv

\* A call that begins alone has checked nothing yet.
LEMMA BeginKeepsSolo ==
    ASSUME TypeInv, OrderInv, SoloInv, NEW r \in Requests, NEW c \in Calls, Begin(r, c)
    PROVE  SoloInv'
<1>1. /\ pc[r] = "idle" /\ UNCHANGED <<order, receipts>>
      /\ pc'[r] \in {"count", "read"} /\ (pc'[r] = "count" => c.op = "create") /\ call'[r] = c
      /\ \A s \in Requests \ {r} : pc'[s] = pc[s] /\ call'[s] = call[s]
      /\ overlapped' = (overlapped \/ \E s \in Requests : pc[s] \in Running)
  BY DEF Begin, Goto, TypeInv, TypeOK
<1> SUFFICES ASSUME ~overlapped' PROVE SoloInv'
  BY DEF SoloInv
<1>2. ~overlapped /\ \A s \in Requests : pc[s] \notin Running
  BY <1>1
<1>3. \A s, t \in Requests : pc'[s] \in Running /\ pc'[t] \in Running => s = t
  BY <1>1, <1>2
<1>4. \A s \in Requests : call'[s].op = "receive" =>
          pc'[s] \notin {"count", "insert"} \cup InTransaction
  BY <1>1, <1>2 DEF Running, InTransaction
<1>5. NoOverReceipt'
  <2>1. \A s \in receipts : call'[s] = call[s]
    BY <1>1 DEF OrderInv, TypeInv, TypeOK
  <2>2. \A s \in receipts : ListsOnce(s)' = ListsOnce(s)
    BY <2>1 DEF ListsOnce, LinesFor
  <2>3. \A o : ReceiptsOf(o)' = ReceiptsOf(o) /\ ReceiptsOf(o) \subseteq receipts
    BY <1>1, <2>1 DEF ReceiptsOf
  <2>4. UNCHANGED <<received, quantity>> /\ NoOverReceipt
    BY <1>1, <1>2 DEF order, SoloInv
  <2> QED
    BY <1>2, <2>2, <2>3, <2>4 DEF NoOverReceipt
<1> QED
  BY <1>3, <1>4, <1>5 DEF SoloInv

\* Without overlapping calls, no step receives more than was ordered.
LEMMA NextKeepsSolo ==
    TypeInv /\ TypeInv' /\ OrderInv /\ BookInv /\ SoloInv /\ [Next]_vars => SoloInv'
<1> SUFFICES ASSUME TypeInv, TypeInv', OrderInv, BookInv, SoloInv, [Next]_vars PROVE SoloInv'
  OBVIOUS
<1>1. CASE Midnight \/ UNCHANGED vars
  <2>1. UNCHANGED <<order, receipts, call, pc, overlapped>>
    BY <1>1 DEF Midnight, vars
  <2>2. (\A r : Fits(r)' = Fits(r)) /\ NoOverReceipt' = NoOverReceipt
    BY <2>1 DEF order, Fits, Remaining, NoOverReceipt, ReceiptsOf, ListsOnce, LinesFor
  <2> QED
    BY <2>1, <2>2 DEF SoloInv
<1> QED
  BY <1>1, StepKeepsSolo, BeginKeepsSolo DEF Next

\* At the start nothing is received and nothing runs.
LEMMA InitIsSolo == Init => SoloInv
<1> SUFFICES ASSUME Init PROVE SoloInv
  OBVIOUS
<1>1. TypeInv
  BY InitIsTyped
<1>2. \A r \in Requests : pc[r] = "idle"
  BY DEF Init
<1>3. NoOverReceipt
  <2>1. \A o \in Orders, p \in Products : received[o][p] = 0 /\ quantity[o][p] \in Nat
    BY <1>1 DEF Init, Nothing, TypeInv, TypeOK, Quantities
  <2> QED
    BY <2>1 DEF NoOverReceipt
<1> QED
  BY <1>2, <1>3 DEF SoloInv, Running, InTransaction

\* The stock is ahead of what is booked by what open transactions have added,
\* which is never negative.
LEMMA StockCovers == TypeInv /\ OrderInv /\ BookInv => StockCoversReceipts
<1> SUFFICES ASSUME TypeInv, OrderInv, BookInv, NEW p \in Products
             PROVE  stock[p] >= BookedSum(p)
  BY DEF StockCoversReceipts, BookedSum
<1>1. stock[p] >= BookedSum(p) + PendingSum(p) /\ stock[p] \in Nat
  BY DEF BookInv, TypeInv, TypeOK, Quantities
<1>2. BookedSum(p) \in Int
  BY BookedIsInt
<1>3. PendingSum(p) \in Nat
  <2>1. PICK w : w = [r \in Requests |-> Pending(r, p)]
    OBVIOUS
  <2>2. \A r \in Requests : w[r] \in Nat
    BY <2>1, PendingIsNat
  <2>3. SumFunctionOnSet(w, Requests) \in Nat
    BY <2>2, OrdersAssumption, SumSubset
  <2> QED
    BY <2>1, <2>3 DEF PendingSum, SumFunction
<1> QED
  BY <1>1, <1>2, <1>3

\* Whatever overlaps and wherever it fails, what the items of an order have
\* received is what its receipts book, and the stock covers it; and as long as
\* nothing overlaps, no order receives more than it asked for
\* (GoodsReceiptService.create).
THEOREM ReceiptsAlwaysHold == Spec => []ReceiptsHold
<1>1. TypeInv /\ OrderInv /\ BookInv /\ SoloInv => ReceiptsHold
  <2>1. SoloInv => NoOverReceipt
    BY DEF SoloInv, NoOverReceipt
  <2> QED
    BY <2>1, StockCovers DEF ReceiptsHold, BookInv
<1> QED
  BY <1>1, InitIsTyped, NextKeepsTypes, InitHasOrders, NextKeepsOrders, InitBooks,
     NextKeepsBooks, InitIsSolo, NextKeepsSolo, PTL DEF Spec

-----------------------------------------------------------------------------
(* The status that a receipt leaves.  It is compared with one read before   *)
(* the transaction began; that this does no harm rests on an invariant of   *)
(* what was read: an order that was RECEIVED then has no remaining item     *)
(* that the check could have let pass, as long as nobody edits it.          *)

Unedited(o) == generation[o] = 0
IsReceived(o) == AllReceived(o, received[o])
WillBeReceived(r) == AllReceived(call[r].order, AfterCommit(r))

Truthful(r) ==
    /\ pc[r] = "createItems" => ~Unedited(call[r].order)
    /\ call[r].op = "receive" /\ Unedited(call[r].order) =>
        /\ pc[r] = "check" /\ local[r].status = "RECEIVED" => IsReceived(call[r].order)
        /\ pc[r] \in {"count", "insert"} \cup InTransaction => local[r].status # "RECEIVED"
        /\ pc[r] = "commit" /\ local[r].newStatus = "RECEIVED" => WillBeReceived(r)
        /\ pc[r] = "commit" /\ day = 1 /\ WillBeReceived(r) => local[r].newStatus = "RECEIVED"

StatusInv ==
    /\ \A o \in Orders : Unedited(o) /\ status[o] = "RECEIVED" => IsReceived(o)
    /\ \A r \in Requests : Truthful(r)

\* Of an order that is still unedited the items stay and what they have received grows.
LEMMA UneditedStays ==
    ASSUME TypeInv, TypeInv', OrderInv, StatusInv, NEW r \in Requests, Step(r),
           NEW o \in Orders, status[o] # "NONE", Unedited(o)'
    PROVE  /\ Unedited(o) /\ quantity'[o] = quantity[o]
           /\ \A p \in Products : /\ received[o][p] \in Nat /\ received'[o][p] \in Nat
                                  /\ quantity[o][p] \in Nat
                                  /\ received'[o][p] >= received[o][p]
<1>1. /\ quantity \in [Orders -> Quantities] /\ generation \in [Orders -> Nat]
      /\ received \in [Orders -> Quantities] /\ received' \in [Orders -> Quantities]
  BY DEF TypeInv, TypeOK
<1>2. /\ \A p \in Products : /\ received[o][p] \in Nat /\ received'[o][p] \in Nat
                             /\ quantity[o][p] \in Nat
      /\ generation[o] \in Nat
  BY <1>1 DEF Quantities
<1>3. \A p \in Products : received'[o][p] >= received[o][p]
  <2>1. CASE ~Commit(r)
    BY <1>2, <2>1, ReceivedFollows
  <2>2. CASE Commit(r)
    BY <1>2, <2>2, ReceivedFollows
  <2> QED
    BY <2>1, <2>2
<1>4. Unedited(o) /\ quantity'[o] = quantity[o]
  <2>1. CASE DeleteItems(r)
    BY <1>1, <1>2, <2>1 DEF DeleteItems, Unedited
  <2>2. CASE CreateItems(r)
    <3>1. ~Unedited(call[r].order) /\ generation' = generation
      BY <2>2 DEF CreateItems, StatusInv, Truthful
    <3> QED
      BY <1>1, <2>2, <3>1 DEF CreateItems, Unedited
  <2>3. CASE InsertOrder(r)
    <3>1. status[call[r].order] = "NONE" /\ generation' = generation
      BY <2>3 DEF InsertOrder, OrderInv, AtOrder, order
    <3> QED
      BY <1>1, <2>3, <3>1 DEF InsertOrder, Unedited, order
  <2>4. CASE ~DeleteItems(r) /\ ~CreateItems(r) /\ ~InsertOrder(r)
    <3>1. quantity' = quantity /\ generation' = generation
      BY <2>4 DEF Step, ReadOrder, SetStatus, ReadSource, Count, ReadStatus, CheckLines,
         InsertReceipt, IncrementItem, IncreaseStock, StockThrows, ReadBack, Commit, Fail, order
    <3> QED
      BY <3>1 DEF Unedited
  <2> QED
    BY <2>1, <2>2, <2>3, <2>4
<1> QED
  BY <1>2, <1>3, <1>4

\* So what it has received in full stays received in full.
LEMMA ReceivedStays ==
    ASSUME TypeInv, TypeInv', OrderInv, StatusInv, NEW r \in Requests, Step(r),
           NEW o \in Orders, status[o] # "NONE", Unedited(o)', IsReceived(o)
    PROVE  IsReceived(o)'
BY UneditedStays DEF IsReceived, AllReceived

\* What another call's transaction will leave: its own increments are its own.
LEMMA WillStay ==
    ASSUME TypeInv, TypeInv', OrderInv, StatusInv, NEW r \in Requests, Step(r),
           NEW s \in Requests \ {r}, pc[s] = "commit", Unedited(call[s].order)'
    PROVE  /\ WillBeReceived(s) => WillBeReceived(s)'
           /\ ~Commit(r) => (WillBeReceived(s)' <=> WillBeReceived(s))
<1> DEFINE o == call[s].order
<1>1. /\ call' = call /\ incremented'[s] = incremented[s] /\ o \in Orders
      /\ \A p \in Products : incremented[s][p] \in Nat
  BY ZenonT(60), StepIsLocal, CallIsTyped DEF TypeInv, TypeOK, Quantities
<1>2. status[o] # "NONE"
  BY DEF OrderInv, AtOrder, Receiving, InTransaction
<1>3. /\ Unedited(o) /\ quantity'[o] = quantity[o]
      /\ \A p \in Products : /\ received[o][p] \in Nat /\ received'[o][p] \in Nat
                             /\ quantity[o][p] \in Nat
                             /\ received'[o][p] >= received[o][p]
  BY <1>1, <1>2, UneditedStays
<1>4. /\ WillBeReceived(s) <=> \A p \in Products : received[o][p] + incremented[s][p] >= quantity[o][p]
      /\ WillBeReceived(s)' <=> \A p \in Products :
             received'[o][p] + incremented[s][p] >= quantity[o][p]
  BY <1>1, <1>3 DEF WillBeReceived, AllReceived, AfterCommit
<1>5. ~Commit(r) => received' = received
  BY ReceivedFollows
<1>6. WillBeReceived(s) => WillBeReceived(s)'
  <2> SUFFICES ASSUME NEW p \in Products, received[o][p] + incremented[s][p] >= quantity[o][p]
               PROVE  received'[o][p] + incremented[s][p] >= quantity[o][p]
    BY <1>4
  <2>1. /\ received[o][p] \in Nat /\ received'[o][p] \in Nat /\ quantity[o][p] \in Nat
        /\ received'[o][p] >= received[o][p] /\ incremented[s][p] \in Nat
    BY <1>1, <1>3
  <2> HIDE DEF o
  <2> QED
    BY <2>1
<1> QED
  BY <1>4, <1>5, <1>6

\* The call that makes the step.
LEMMA TruthFollows ==
    ASSUME TypeInv, TypeInv', OrderInv, StatusInv, NEW r \in Requests, Step(r)
    PROVE  Truthful(r)'
<1> DEFINE o == call[r].order
<1>1. /\ pc \in [Requests -> {"idle", "done", "failed"} \cup Running]
      /\ local \in [Requests -> LocalType] /\ Truthful(r) /\ AtOrder(r)
      /\ call' = call /\ o \in Orders /\ day' = day
      /\ generation \in [Orders -> Nat]
  BY StepIsLocal DEF TypeInv, TypeOK, LocalType, StatusInv, OrderInv
<1>2. \A l : Goto(r, l) => pc'[r] = l
  BY <1>1 DEF Goto
<1>3. pc'[r] = "createItems" => ~Unedited(o)'
  <2> SUFFICES ASSUME pc'[r] = "createItems" PROVE ~Unedited(o)'
    OBVIOUS
  <2>1. DeleteItems(r) /\ generation' = [generation EXCEPT ![o] = @ + 1]
    BY <1>2 DEF Step, ReadOrder, SetStatus, DeleteItems, CreateItems, ReadSource, Count,
       InsertOrder, ReadStatus, CheckLines, InsertReceipt, IncrementItem, IncreaseStock,
       StockThrows, ReadBack, Commit, Fail, AfterLine
  <2>2. generation[o] \in Nat /\ generation'[o] = generation[o] + 1
    BY <1>1, <2>1
  <2> QED
    BY <1>1, <2>2 DEF Unedited
<1> SUFFICES ASSUME call[r].op = "receive", Unedited(o)'
             PROVE  Truthful(r)'
  BY <1>1, <1>3 DEF Truthful
<1>4. pc'[r] \in {"check", "count", "insert"} \cup InTransaction =>
         \/ ReadStatus(r) \/ CheckLines(r) \/ Count(r) \/ InsertReceipt(r) \/ IncrementItem(r)
         \/ IncreaseStock(r) \/ ReadBack(r)
  BY <1>2 DEF Step, ReadOrder, SetStatus, DeleteItems, CreateItems, ReadSource, InsertOrder,
     StockThrows, Commit, Fail, InTransaction
<1>5. CASE ReadStatus(r)
  <2>1. /\ UNCHANGED order /\ local'[r].status = status[o] /\ pc'[r] \in {"check", "failed"}
    BY <1>1, <1>2, <1>5 DEF ReadStatus, LocalType
  <2>2. Unedited(o) /\ status[o] = "RECEIVED" => IsReceived(o)
    BY <1>1 DEF StatusInv
  <2>3. (Unedited(o)' <=> Unedited(o)) /\ (IsReceived(o)' <=> IsReceived(o))
    BY <1>1, <2>1 DEF order, Unedited, IsReceived, AllReceived
  <2>4. pc'[r] = "check" /\ local'[r].status = "RECEIVED" => IsReceived(o)'
    BY <2>1, <2>2, <2>3
  <2> QED
    BY <1>1, <1>3, <2>1, <2>4 DEF Truthful, InTransaction
<1>6. CASE CheckLines(r)
  <2>1. /\ pc[r] = "check" /\ UNCHANGED order /\ pc'[r] \in {"count", "failed"}
        /\ local'[r].status = local[r].status
        /\ pc'[r] = "count" => \A k \in DOMAIN call[r].lines :
              call[r].lines[k].qty <= Remaining(o, call[r].lines[k].product)
    BY <1>1, <1>2, <1>6 DEF CheckLines, LocalType
  <2>2. Unedited(o)
    BY <1>1, <2>1 DEF Unedited, order
  <2>3. ASSUME pc'[r] = "count", local[r].status = "RECEIVED" PROVE FALSE
    <3>1. IsReceived(o)
      BY <1>1, <2>1, <2>2, <2>3 DEF Truthful
    <3>2. call[r] \in Calls /\ call[r].lines \in Seq(Line) /\ Len(call[r].lines) > 0
      BY <2>1, CallIsTyped DEF TypeInv, TypeOK
    <3>3. 1 \in DOMAIN call[r].lines /\ call[r].lines[1] \in Line
      BY <3>2
    <3>4. PICK p \in Products, n \in Nat \ {0} :
             p = call[r].lines[1].product /\ n = call[r].lines[1].qty
      BY <3>3 DEF Line
    <3>5. n <= quantity[o][p] - received[o][p]
      BY <2>1, <2>3, <3>3, <3>4 DEF Remaining
    <3>6. received[o][p] >= quantity[o][p]
      BY <3>1 DEF IsReceived, AllReceived
    <3>7. received[o][p] \in Nat /\ quantity[o][p] \in Nat
      BY <1>1 DEF TypeInv, TypeOK, Quantities
    <3> HIDE DEF o
    <3> QED
      BY <3>4, <3>5, <3>6, <3>7
  <2> QED
    BY <1>1, <1>3, <2>1, <2>3 DEF Truthful, InTransaction
<1>7. CASE Count(r) \/ InsertReceipt(r) \/ IncrementItem(r) \/ IncreaseStock(r)
  <2>1. /\ pc[r] \in {"count", "insert", "line", "stock"} /\ UNCHANGED order
        /\ local'[r].status = local[r].status
        /\ pc'[r] \in {"failed", "insert", "line", "stock", "readBack"}
    BY <1>1, <1>2, <1>7 DEF Count, InsertReceipt, IncrementItem, IncreaseStock, AfterLine, LocalType
  <2>2. Unedited(o)
    BY <1>1, <2>1 DEF Unedited, order
  <2>3. local[r].status # "RECEIVED"
    BY <1>1, <2>1, <2>2 DEF Truthful, InTransaction
  <2> QED
    BY <1>1, <1>3, <2>1, <2>3 DEF Truthful, InTransaction
<1>8. CASE ReadBack(r)
  <2>1. /\ pc[r] = "readBack" /\ UNCHANGED order /\ pc'[r] = "commit"
        /\ local'[r].status = local[r].status /\ incremented' = incremented
        /\ local'[r].newStatus =
              IF AllReceived(o, Got(r)) THEN "RECEIVED"
              ELSE IF AnyReceived(Got(r)) THEN "PARTIALLY_RECEIVED" ELSE local[r].status
    BY <1>1, <1>2, <1>8 DEF ReadBack, LocalType
  <2>2. Unedited(o)
    BY <1>1, <2>1 DEF Unedited, order
  <2>3. local[r].status # "RECEIVED"
    BY <1>1, <2>1, <2>2 DEF Truthful, InTransaction
  <2>4. WillBeReceived(r)' <=> AllReceived(o, Got(r))
    BY <1>1, <2>1 DEF WillBeReceived, AllReceived, AfterCommit, Got, order
  <2>5. local'[r].newStatus = "RECEIVED" <=> WillBeReceived(r)'
    BY <2>1, <2>3, <2>4
  <2> QED
    BY <1>1, <1>3, <2>1, <2>3, <2>5 DEF Truthful
<1> QED
  BY <1>1, <1>3, <1>4, <1>5, <1>6, <1>7, <1>8 DEF Truthful, InTransaction

\* A statement keeps every order's status with what has been received of it.
LEMMA StepKeepsStatus ==
    ASSUME TypeInv, TypeInv', OrderInv, StatusInv, NumbersInv, NEW r \in Requests, Step(r)
    PROVE  StatusInv'
<1>1. /\ call' = call /\ day' = day /\ call[r].order \in Orders
      /\ \A s \in Requests \ {r} : pc'[s] = pc[s] /\ local'[s] = local[s]
      /\ status \in [Orders -> Status]
  BY StepIsLocal DEF TypeInv, TypeOK
<1>2. ASSUME NEW o \in Orders, Unedited(o)', status'[o] = "RECEIVED" PROVE IsReceived(o)'
  <2>1. CASE status'[o] = status[o]
    <3>1. status[o] # "NONE" /\ status[o] = "RECEIVED"
      BY <1>2, <2>1
    <3>2. Unedited(o)
      BY <1>2, <3>1, UneditedStays
    <3> QED
      BY <1>2, <3>1, <3>2, ReceivedStays DEF StatusInv
  <2>2. CASE Commit(r) /\ o = call[r].order /\ status'[o] = local[r].newStatus
    <3>1. /\ generation' = generation /\ pc[r] = "commit" /\ quantity' = quantity
          /\ received' = [received EXCEPT ![o] = AfterCommit(r)]
          /\ received \in [Orders -> Quantities]
      BY <2>2 DEF Commit, TypeInv, TypeOK
    <3>2. call[r].op = "receive" /\ Unedited(call[r].order)
      BY <1>1, <1>2, <2>2, <3>1 DEF OrderInv, AtOrder, InTransaction, Unedited
    <3>3. WillBeReceived(r)
      BY <1>2, <2>2, <3>1, <3>2 DEF StatusInv, Truthful
    <3>4. received'[o] = AfterCommit(r)
      BY <3>1
    <3> QED
      BY <2>2, <3>1, <3>3, <3>4 DEF WillBeReceived, IsReceived, AllReceived
  <2> QED
    BY <1>2, <2>1, <2>2, StatusChanges
<1>3. ASSUME NEW s \in Requests \ {r} PROVE Truthful(s)'
  <2> DEFINE o == call[s].order
  <2>1. Truthful(s) /\ AtOrder(s) /\ (pc[s] # "idle" => o \in Orders)
    BY CallIsTyped DEF StatusInv, OrderInv, TypeInv, TypeOK
  <2>0. PICK e : e = o /\ e = o'
    BY <1>1
  <2>9. (Unedited(o)' <=> Unedited(e)') /\ (IsReceived(o)' <=> IsReceived(e)')
    BY <2>0 DEF Unedited, IsReceived, AllReceived
  <2>2. pc[s] = "createItems" => ~Unedited(o)'
    <3> SUFFICES ASSUME pc[s] = "createItems", Unedited(o)' PROVE FALSE
      OBVIOUS
    <3>1. e \in Orders /\ status[e] # "NONE"
      BY <2>0, <2>1 DEF AtOrder
    <3>3. Unedited(e)
      BY <2>9, <3>1, UneditedStays
    <3>2. Unedited(o)
      BY <2>0, <3>3
    <3> QED
      BY <2>1, <3>2 DEF Truthful
  <2>3. ASSUME call[s].op = "receive", Unedited(o)', pc[s] \in Receiving
        PROVE  Unedited(o) /\ o \in Orders /\ status[o] # "NONE"
    <3>1. e \in Orders /\ status[e] # "NONE"
      BY <2>0, <2>1, <2>3 DEF AtOrder, Receiving, InTransaction
    <3>2. Unedited(e)
      BY <2>3, <2>9, <3>1, UneditedStays
    <3> QED
      BY <2>0, <3>1, <3>2
  <2>4. call[s].op = "receive" /\ Unedited(o)' /\ pc[s] = "check" /\ local[s].status = "RECEIVED"
           => IsReceived(o)'
    <3> SUFFICES ASSUME call[s].op = "receive", Unedited(o)', pc[s] = "check",
                        local[s].status = "RECEIVED"
                 PROVE  IsReceived(o)'
      OBVIOUS
    <3>1. Unedited(o) /\ o \in Orders /\ status[o] # "NONE"
      BY <2>3 DEF Receiving
    <3>2. IsReceived(o)
      BY <2>1, <3>1 DEF Truthful
    <3>3. e \in Orders /\ status[e] # "NONE" /\ IsReceived(e) /\ Unedited(e)'
      BY <2>0, <2>9, <3>1, <3>2
    <3> QED
      BY <2>9, <3>3, ReceivedStays
  <2>5. call[s].op = "receive" /\ Unedited(o)' /\ pc[s] = "commit" /\ local[s].newStatus = "RECEIVED"
           => WillBeReceived(s)'
    BY <2>1, <2>3, WillStay DEF Truthful, Receiving, InTransaction
  <2>6. ASSUME call[s].op = "receive", Unedited(o)', pc[s] = "commit", day = 1, WillBeReceived(s)'
        PROVE  local[s].newStatus = "RECEIVED"
    <3>1. ~Commit(r)
      BY <2>6 DEF Commit, NumbersInv, InTransaction
    <3>2. WillBeReceived(s)
      BY <2>6, <3>1, WillStay
    <3>3. Unedited(o)
      BY <2>3, <2>6 DEF Receiving, InTransaction
    <3> QED
      BY <2>1, <2>6, <3>2, <3>3 DEF Truthful
  <2>7. call[s].op = "receive" /\ Unedited(o)' /\ pc[s] \in {"count", "insert"} \cup InTransaction
           => local[s].status # "RECEIVED"
    BY <2>1, <2>3 DEF Truthful, Receiving
  <2>8. pc'[s] = pc[s] /\ local'[s] = local[s] /\ call' = call /\ day' = day
    BY <1>1
  <2> QED
    BY <2>2, <2>4, <2>5, <2>6, <2>7, <2>8 DEF Truthful
<1>4. Truthful(r)'
  BY TruthFollows
<1> QED
  BY <1>2, <1>3, <1>4 DEF StatusInv

\* No step leaves an unedited order with a status its quantities deny.
LEMMA NextKeepsStatus ==
    TypeInv /\ TypeInv' /\ OrderInv /\ StatusInv /\ NumbersInv /\ [Next]_vars => StatusInv'
<1> SUFFICES ASSUME TypeInv, TypeInv', OrderInv, StatusInv, NumbersInv, [Next]_vars
             PROVE  StatusInv'
  OBVIOUS
<1>1. CASE Midnight \/ UNCHANGED vars
  <2>1. /\ UNCHANGED <<order, call, pc, local, incremented>>
        /\ day' = 1 => day = 1
    BY <1>1 DEF Midnight, vars, TypeInv, TypeOK
  <2>2. /\ \A o : (Unedited(o)' <=> Unedited(o)) /\ (IsReceived(o)' <=> IsReceived(o))
        /\ \A r : WillBeReceived(r)' <=> WillBeReceived(r)
    BY <2>1 DEF order, Unedited, IsReceived, WillBeReceived, AllReceived, AfterCommit
  <2> QED
    BY <2>1, <2>2 DEF StatusInv, Truthful, order
<1>2. ASSUME NEW r \in Requests, NEW c \in Calls, Begin(r, c) PROVE StatusInv'
  <2>1. /\ UNCHANGED <<order, day, local, incremented>> /\ pc'[r] \in {"count", "read"}
        /\ (pc'[r] = "count" => c.op = "create") /\ call'[r] = c
        /\ \A s \in Requests \ {r} : pc'[s] = pc[s] /\ call'[s] = call[s]
    BY <1>2 DEF Begin, Goto, TypeInv, TypeOK
  <2>2. /\ \A o : (Unedited(o)' <=> Unedited(o)) /\ (IsReceived(o)' <=> IsReceived(o))
        /\ \A s \in Requests \ {r} : WillBeReceived(s)' <=> WillBeReceived(s)
    BY <2>1 DEF order, Unedited, IsReceived, WillBeReceived, AllReceived, AfterCommit
  <2>3. Truthful(r)'
    BY <2>1 DEF Truthful, InTransaction
  <2>4. ASSUME NEW s \in Requests \ {r} PROVE Truthful(s)'
    BY <2>1, <2>2 DEF StatusInv, Truthful
  <2>5. \A o \in Orders : Unedited(o)' /\ status'[o] = "RECEIVED" => IsReceived(o)'
    BY <2>1, <2>2 DEF StatusInv, order
  <2> QED
    BY <2>3, <2>4, <2>5 DEF StatusInv
<1> QED
  BY <1>1, <1>2, StepKeepsStatus DEF Next

\* At the start no order is received.
LEMMA InitHasStatus == Init => StatusInv
<1> SUFFICES ASSUME Init PROVE StatusInv
  OBVIOUS
<1>1. /\ \A r \in Requests : pc[r] = "idle"
      /\ \A o \in Orders : status[o] # "RECEIVED"
  BY DEF Init
<1> QED
  BY <1>1 DEF StatusInv, Truthful, InTransaction

\* The status that a receipt leaves is the one it worked out.
LEMMA CommitIsTrue ==
    TypeInv /\ TypeInv' /\ OrderInv /\ StatusInv /\ [Next]_vars => [day = 1 => CommitsTrueStatus]_vars
<1> SUFFICES ASSUME TypeInv, TypeInv', OrderInv, StatusInv, [Next]_vars, day = 1
             PROVE  CommitsTrueStatus
  OBVIOUS
<1>1. SUFFICES ASSUME NEW r \in receipts' \ receipts, Unedited(call[r].order)
               PROVE  status'[call[r].order] = "RECEIVED" <=>
                         AllReceived(call[r].order, received'[call[r].order])
  BY DEF CommitsTrueStatus, Unedited
<1> DEFINE o == call[r].order
<1>2. r \in Requests /\ Commit(r)
  <2>1. ~(Midnight \/ UNCHANGED vars) /\ \A s \in Requests, c \in Calls : ~Begin(s, c)
    BY <1>1 DEF Midnight, vars, Begin
  <2>2. PICK s \in Requests : Step(s)
    BY <2>1 DEF Next
  <2>3. s = r /\ Commit(s)
    BY <1>1, <2>2 DEF Step, ReadOrder, SetStatus, DeleteItems, CreateItems, ReadSource, Count,
       InsertOrder, ReadStatus, CheckLines, InsertReceipt, IncrementItem, IncreaseStock,
       StockThrows, ReadBack, Commit, Fail
  <2> QED
    BY <2>2, <2>3
<1>3. /\ pc[r] = "commit" /\ received' = [received EXCEPT ![o] = AfterCommit(r)]
      /\ status' = IF local[r].newStatus = local[r].status THEN status
                   ELSE [status EXCEPT ![o] = local[r].newStatus]
      /\ status \in [Orders -> Status] /\ received \in [Orders -> Quantities]
  BY <1>2 DEF Commit, TypeInv, TypeOK
<1>4. o \in Orders /\ Step(r) /\ call[r].op = "receive" /\ status[o] # "NONE"
  BY <1>2, <1>3, StepIsLocal DEF Step, OrderInv, AtOrder, Receiving, InTransaction
<1>5. /\ local[r].status # "RECEIVED"
      /\ local[r].newStatus = "RECEIVED" <=> WillBeReceived(r)
  BY <1>1, <1>2, <1>3, <1>4 DEF StatusInv, Truthful, InTransaction
<1>6. received'[o] = AfterCommit(r)
  BY <1>3, <1>4
<1>7. AllReceived(o, received'[o]) <=> WillBeReceived(r)
  BY <1>6 DEF WillBeReceived
<1>8. status[o] = "RECEIVED" => WillBeReceived(r)
  <2> SUFFICES ASSUME status[o] = "RECEIVED" PROVE WillBeReceived(r)
    OBVIOUS
  <2>1. IsReceived(o)
    BY <1>1, <1>4 DEF StatusInv
  <2>2. \A p \in Products : /\ received[o][p] \in Nat /\ quantity[o][p] \in Nat
                            /\ incremented[r][p] \in Nat
    BY <1>2, <1>4 DEF TypeInv, TypeOK, Quantities
  <2> QED
    BY <2>1, <2>2 DEF IsReceived, WillBeReceived, AllReceived, AfterCommit
<1>9. CASE local[r].newStatus = local[r].status
  BY <1>3, <1>5, <1>7, <1>8, <1>9
<1>10. CASE local[r].newStatus # local[r].status
  BY <1>3, <1>4, <1>5, <1>7, <1>10
<1> QED
  BY <1>9, <1>10

\* Until midnight a receipt leaves its order RECEIVED exactly when nothing of it
\* remains, although it compares with a status it read before its transaction and
\* sees nothing of those that run beside it (GoodsReceiptService.create).
THEOREM StatusIsCurrent == Spec => CommittedStatusCurrent
<1>1. [][TypeInv /\ TypeInv' /\ OrderInv /\ StatusInv /\ [Next]_vars]_vars
         => [][day = 1 => CommitsTrueStatus]_vars
  BY CommitIsTrue, PTL
<1> QED
  BY <1>1, CommitIsTrue, InitIsTyped, NextKeepsTypes, InitIsNumbered, NextKeepsNumbers, InitHasOrders,
     NextKeepsOrders, InitHasStatus, NextKeepsStatus, PTL DEF Spec, CommittedStatusCurrent
=============================================================================
