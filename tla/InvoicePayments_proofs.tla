------------------------ MODULE InvoicePayments_proofs ------------------------
(***************************************************************************)
(* Proofs about InvoicePayments for any invoices, calls, prices and        *)
(* failures.  The invariant has four layers, each resting on those before: *)
(* what the rows and the stage of every call are (StageInv), what an       *)
(* invoice can show at most (MoneyInv), what a call has read and still     *)
(* holds (FieldInv, TurnInv), and what the invoices tell between calls     *)
(* (RecordInv).                                                            *)
(***************************************************************************)
EXTENDS InvoicePayments, Sums_proofs, TLAPS

-----------------------------------------------------------------------------
(* The invariant.                                                           *)

Reconciling == {"reconcile", "sum", "writeBack"}
Refunding == {"markRefunded", "findAllocation", "reduceAllocation"}
Editing == {"deleteLines", "insertLines", "recalculate", "writeTotals"}

\* What a call at each of its statements was asked for.
AtOps(r) ==
    /\ pc[r] \in {"dedupe", "insertPayment"} => call[r].op \in Pays
    /\ pc[r] = "insertAllocation" => call[r].op \in Pays \cup {"allocate"}
    /\ pc[r] \in Reconciling => call[r].op \in Pays \cup {"allocate", "refund"}
    /\ pc[r] = "readAllocations" => call[r].op = "allocate"
    /\ pc[r] \in Refunding => call[r].op = "refund"
    /\ pc[r] = "setStatus" => call[r].op \in {"send", "void"}
    /\ pc[r] \in Editing => call[r].op = "edit"

\* Which payments there are.
AtRows(r) ==
    /\ pc[r] \in {"idle", "read", "dedupe", "insertPayment"} => payments[r] = NoPayment
    /\ payments[r] # NoPayment =>
           /\ call[r].op \in Pays /\ payments[r].invoice = call[r].invoice
           /\ payments[r].amount = call[r].amount /\ payments[r].txn = call[r].txn
    /\ pc[r] # "idle" /\ call[r].op \in {"allocate", "refund"} => payments[call[r].payment] # NoPayment
    /\ pc[r] = "insertAllocation" /\ call[r].op \in Pays => payments[r] # NoPayment
    /\ pc[r] = "reduceAllocation" =>
           local[r].index \in DOMAIN allocations
           /\ allocations[local[r].index].payment = call[r].payment

StageInv ==
    /\ TypeOK
    /\ \A r \in Requests :
           /\ pc[r] # "idle" => call[r] \in Calls[mode]
           /\ AtOps(r) /\ AtRows(r)
    /\ \A k \in DOMAIN allocations : payments[allocations[k].payment] # NoPayment

\* What is shown, or about to be shown, was paid.
MoneyInv ==
    /\ NoPhantomMoney
    /\ \A r \in Requests, i \in Invoices :
           pc[r] = "writeBack" /\ Target(r) = i => local[r].sum <= EverPaid(i)

\* A behaviour in which no edit overlaps another call.
EditsInTurn == mode = "serial" \/ \A c \in Calls[mode] : c.op # "edit"

OneAtATime == mode = "serial" =>
    \A r, s \in Requests : pc[r] \in Running /\ pc[s] \in Running => r = s

\* The totals a call goes by are those of the invoice row.
FieldInv ==
    /\ OneAtATime
    /\ EditsInTurn =>
         /\ \A i \in Invoices :
               /\ balanceDue[i] = Balance(grandTotal[i], amountPaid[i])
               /\ mode = "overlapping" => paymentStatus[i] = Standing(grandTotal[i], amountPaid[i])
         /\ \A r \in Requests :
               /\ pc[r] \in {"sum", "writeBack"} => local[r].total = grandTotal[Target(r)]
               /\ pc[r] = "writeTotals" => local[r].sum = amountPaid[call[r].invoice]

\* Where calls come one at a time, what a call has checked still holds when it
\* acts on it.
Funded(r) == IF call[r].op = "allocate" THEN call[r].payment ELSE r

Checked(r) ==
    /\ pc[r] \in {"dedupe", "insertPayment"} => status[call[r].invoice] # "VOID"
    /\ pc[r] = "insertPayment" /\ call[r].op = "gateway" => ~Duplicate(r)
    /\ pc[r] = "readAllocations" => Captured(call[r].payment)
    /\ pc[r] = "insertAllocation" => \A p \in Requests :
           Funded(r) = p => Captured(p) /\ AllocatedSum(p) + call[r].amount <= payments[p].amount
    /\ pc[r] \in {"findAllocation", "reduceAllocation"} => ~Captured(call[r].payment)
    /\ pc[r] = "reduceAllocation" => local[r].held = allocations[local[r].index].amount

TurnInv == mode = "serial" =>
    /\ \A r \in Requests : Checked(r)
    /\ AllocationCovered /\ GatewayPaidOnce

\* An invoice tells what its payments tell.
Accurate(i) ==
    /\ amountPaid[i] = CapturedSum(i)
    /\ paymentStatus[i] = Standing(grandTotal[i], CapturedSum(i))
    /\ CapturedSum(i) = 0 => status[i] \in {"DRAFT", "SENT", "VOID"}
    /\ CapturedSum(i) > 0 => status[i] \in {paymentStatus[i], "VOID"}

\* The statements between a change of the payments and the write-back.
Unsettled(r) ==
    \/ pc[r] \in Reconciling \cup {"findAllocation", "reduceAllocation"}
    \/ pc[r] = "insertAllocation" /\ call[r].op \in Pays

Recorded(r) ==
    /\ pc[r] = "dedupe" => local[r].room = Room(call[r].invoice)
    /\ pc[r] = "insertPayment" => call[r].amount <= Room(call[r].invoice)
    /\ pc[r] \in {"sum", "writeBack"} => local[r].status = status[Target(r)]
    /\ pc[r] = "writeBack" => \A i \in Invoices : Target(r) = i => local[r].sum = CapturedSum(i)
    /\ pc[r] \in Editing => status[call[r].invoice] = "DRAFT"
    /\ pc[r] \in {"deleteLines", "insertLines"} => call[r].amount > 0
    /\ pc[r] = "setStatus" /\ call[r].op = "send" => status[call[r].invoice] = "DRAFT"
    /\ pc[r] = "writeTotals" => local[r].total > 0

RecordInv == mode = "serial" /\ NoneFailed =>
    /\ \A r \in Requests : Recorded(r)
    /\ \A i \in Invoices :
          /\ Accurate(i) \/ \E r \in Requests : Unsettled(r) /\ Target(r) = i
          /\ CapturedSum(i) <= grandTotal[i] /\ grandTotal[i] > 0
          /\ lines[i] > 0 \/ \E r \in Requests : pc[r] = "insertLines" /\ call[r].invoice = i

-----------------------------------------------------------------------------
(* Sums of payments and allocations.                                        *)

CapturedBy(pm, i) == {p \in Requests : pm[p].status = "CAPTURED" /\ pm[p].invoice = i}
MadeOn(pm, i) == {p \in Requests : pm[p] # NoPayment /\ pm[p].invoice = i}
Worth(pm, S) == SumFunction([p \in S |-> pm[p].amount])
PaymentRows == [Requests -> {NoPayment} \cup Payment]

\* The sums of the model, as functions of the payment rows, so that they can
\* be spoken of before and after a step.
LEMMA SumsOfPayments ==
    \A i : /\ CapturedSum(i) = Worth(payments, CapturedBy(payments, i))
           /\ EverPaid(i) = Worth(payments, MadeOn(payments, i))
           /\ CapturedSum(i)' = Worth(payments', CapturedBy(payments', i))
           /\ EverPaid(i)' = Worth(payments', MadeOn(payments', i))
BY DEF CapturedSum, EverPaid, PaidBy, PaidOn, Captured, Worth, CapturedBy, MadeOn

Amounts(pm) == [p \in Requests |-> IF pm[p] = NoPayment THEN 0 ELSE pm[p].amount]

\* The worth of a set of payments as a sum of one function of all requests.
LEMMA WorthIsSum ==
    ASSUME NEW pm \in PaymentRows, NEW S \in SUBSET Requests, \A p \in S : pm[p] # NoPayment
    PROVE  /\ Worth(pm, S) = SumFunctionOnSet(Amounts(pm), S)
           /\ IsFiniteSet(S) /\ \A p \in Requests : Amounts(pm)[p] \in Nat
<1> DEFINE w == [p \in S |-> pm[p].amount]
<1>1. \A p \in S : w[p] = Amounts(pm)[p]
  BY DEF Amounts
<1>2. IsFiniteSet(S)
  BY RequestsAssumption, FS_Subset
<1>3. SumFunctionOnSet(w, S) = SumFunctionOnSet(Amounts(pm), S)
  <2> HIDE DEF w
  <2> QED
    BY <1>1, <1>2, SumCongruence
<1>4. Worth(pm, S) = SumFunctionOnSet(w, S)
  BY DEF Worth, SumFunction
<1>5. \A p \in Requests : Amounts(pm)[p] \in Nat
  BY DEF Amounts, PaymentRows, Payment
<1> QED
  BY <1>2, <1>3, <1>4, <1>5

\* A captured payment is one that was made.
LEMMA CapturedIsPaid ==
    ASSUME NEW pm \in PaymentRows
    PROVE  \A i : /\ CapturedBy(pm, i) \subseteq MadeOn(pm, i)
                  /\ \A p \in MadeOn(pm, i) : p \in Requests /\ pm[p] # NoPayment
BY DEF CapturedBy, MadeOn, NoPayment

\* What is captured of an invoice is part of what was ever paid on it.
LEMMA WorthIsTyped ==
    ASSUME NEW pm \in PaymentRows, NEW i
    PROVE  /\ Worth(pm, CapturedBy(pm, i)) \in Nat /\ Worth(pm, MadeOn(pm, i)) \in Nat
           /\ Worth(pm, CapturedBy(pm, i)) <= Worth(pm, MadeOn(pm, i))
<1> DEFINE C == CapturedBy(pm, i)
           M == MadeOn(pm, i)
<1>1. C \subseteq M /\ M \subseteq Requests /\ \A p \in M : pm[p] # NoPayment
  BY CapturedIsPaid
<1>2. /\ Worth(pm, C) = SumFunctionOnSet(Amounts(pm), C)
      /\ Worth(pm, M) = SumFunctionOnSet(Amounts(pm), M)
      /\ IsFiniteSet(M) /\ \A p \in M : Amounts(pm)[p] \in Nat
  BY <1>1, WorthIsSum
<1>3. \A T \in SUBSET M : /\ SumFunctionOnSet(Amounts(pm), T) \in Nat
                          /\ SumFunctionOnSet(Amounts(pm), T) <= SumFunctionOnSet(Amounts(pm), M)
  <2> HIDE DEF M
  <2> QED
    BY <1>2, SumSubset
<1> QED
  BY <1>1, <1>2, <1>3

Inserted(pm, r, n) == [pm EXCEPT ![r] = n]
Refunded(pm, p) == [pm EXCEPT ![p].status = "REFUNDED"]

\* A new payment adds its amount to its invoice and to no other.
LEMMA PaymentInserted ==
    ASSUME NEW pm \in PaymentRows, NEW r \in Requests, pm[r] = NoPayment,
           NEW n \in Payment, n.status = "CAPTURED", NEW qm, qm = Inserted(pm, r, n), NEW i
    PROVE  /\ qm \in PaymentRows
           /\ CapturedBy(qm, i) = CapturedBy(pm, i) \cup (IF i = n.invoice THEN {r} ELSE {})
           /\ Worth(qm, CapturedBy(qm, i)) =
                 Worth(pm, CapturedBy(pm, i)) + (IF i = n.invoice THEN n.amount ELSE 0)
           /\ Worth(qm, MadeOn(qm, i)) =
                 Worth(pm, MadeOn(pm, i)) + (IF i = n.invoice THEN n.amount ELSE 0)
<1>1. /\ qm \in PaymentRows /\ qm[r] = n /\ \A p \in Requests \ {r} : qm[p] = pm[p]
      /\ n # NoPayment /\ n.amount \in Nat
  BY DEF PaymentRows, Payment, NoPayment, Inserted
<1>2. CapturedBy(qm, i) = CapturedBy(pm, i) \cup (IF i = n.invoice THEN {r} ELSE {})
  BY <1>1 DEF CapturedBy, NoPayment
<1>3. MadeOn(qm, i) = MadeOn(pm, i) \cup (IF i = n.invoice THEN {r} ELSE {})
  BY <1>1 DEF MadeOn
<1>4. ASSUME NEW S \in SUBSET Requests, \A p \in S : pm[p] # NoPayment
      PROVE  /\ Worth(qm, S) = Worth(pm, S)
             /\ Worth(qm, S \cup {r}) = Worth(pm, S) + n.amount
  <2>1. r \notin S
    BY <1>4
  <2>2. /\ \A p \in S \cup {r} : qm[p] # NoPayment
        /\ S \cup {r} \in SUBSET Requests
    BY <1>1, <1>4
  <2>3. /\ Worth(pm, S) = SumFunctionOnSet(Amounts(pm), S) /\ IsFiniteSet(S)
        /\ Worth(qm, S) = SumFunctionOnSet(Amounts(qm), S)
        /\ Worth(qm, S \cup {r}) = SumFunctionOnSet(Amounts(qm), S \cup {r})
        /\ \A p \in Requests : Amounts(qm)[p] \in Nat
    BY <1>1, <1>4, <2>2, WorthIsSum
  <2>0. \A p \in S \cup {r} : Amounts(qm)[p] \in Int
    <3> DEFINE w == Amounts(qm)
    <3>1. \A p \in Requests : w[p] \in Nat
      BY <2>3
    <3> HIDE DEF w
    <3>2. \A p \in S \cup {r} : w[p] \in Int
      BY <3>1
    <3> QED
      BY <3>2 DEF w
  <2>4. (\A p \in S : Amounts(qm)[p] = Amounts(pm)[p]) /\ Amounts(qm)[r] = n.amount
    BY <1>1, <2>1 DEF Amounts
  <2>5. SumFunctionOnSet(Amounts(qm), S) = SumFunctionOnSet(Amounts(pm), S)
    BY <2>3, <2>4, SumCongruence
  <2>6. SumFunctionOnSet(Amounts(qm), S \cup {r})
          = Amounts(qm)[r] + SumFunctionOnSet(Amounts(qm), S)
    <3>1. \A p \in S \cup {r} : Amounts(qm)[p] \in Int
      BY <2>0
    <3> QED
      BY <2>1, <2>3, <3>1, SumAdd
  <2>7. SumFunctionOnSet(Amounts(qm), S) \in Int
    <3>1. \A p \in S : Amounts(qm)[p] \in Int
      BY <2>0
    <3> QED
      BY <2>3, <3>1, SumType
  <2> QED
    BY <1>1, <2>3, <2>4, <2>5, <2>6, <2>7
<1>5. /\ CapturedBy(pm, i) \in SUBSET Requests /\ MadeOn(pm, i) \in SUBSET Requests
      /\ \A p \in CapturedBy(pm, i) : pm[p] # NoPayment
      /\ \A p \in MadeOn(pm, i) : pm[p] # NoPayment
  BY CapturedIsPaid DEF MadeOn
<1>6. Worth(pm, CapturedBy(pm, i)) \in Nat /\ Worth(pm, MadeOn(pm, i)) \in Nat
  BY WorthIsTyped
<1>7. CASE i = n.invoice
  BY <1>1, <1>2, <1>3, <1>4, <1>5, <1>7
<1>8. CASE i # n.invoice
  <2>1. CapturedBy(qm, i) = CapturedBy(pm, i) /\ MadeOn(qm, i) = MadeOn(pm, i)
    BY <1>2, <1>3, <1>8
  <2>2. /\ Worth(qm, CapturedBy(qm, i)) = Worth(pm, CapturedBy(pm, i))
        /\ Worth(qm, MadeOn(qm, i)) = Worth(pm, MadeOn(pm, i))
    BY <1>4, <1>5, <2>1
  <2> HIDE DEF CapturedBy, MadeOn
  <2>3. Worth(qm, CapturedBy(qm, i)) = Worth(pm, CapturedBy(pm, i)) + 0
    BY <1>6, <2>2
  <2>4. Worth(qm, MadeOn(qm, i)) = Worth(pm, MadeOn(pm, i)) + 0
    BY <1>6, <2>2
  <2> QED
    BY <1>1, <1>2, <1>8, <2>3, <2>4
<1> QED
  BY <1>7, <1>8

\* A refund takes its payment from what is captured, and nothing from what was
\* ever paid.
LEMMA PaymentRefunded ==
    ASSUME NEW pm \in PaymentRows, NEW p \in Requests, pm[p] # NoPayment,
           NEW qm, qm = Refunded(pm, p), NEW i
    PROVE  /\ qm \in PaymentRows
           /\ CapturedBy(qm, i) \subseteq CapturedBy(pm, i)
           /\ Worth(qm, CapturedBy(qm, i)) <= Worth(pm, CapturedBy(pm, i))
           /\ i # pm[p].invoice =>
                 Worth(qm, CapturedBy(qm, i)) = Worth(pm, CapturedBy(pm, i))
           /\ Worth(qm, MadeOn(qm, i)) = Worth(pm, MadeOn(pm, i))
           /\ \A q \in Requests :
                 /\ qm[q] = NoPayment <=> pm[q] = NoPayment
                 /\ qm[q].invoice = pm[q].invoice
                 /\ pm[q] # NoPayment => qm[q].amount = pm[q].amount /\ qm[q].txn = pm[q].txn
<1> DEFINE n == [pm[p] EXCEPT !.status = "REFUNDED"]
<1>1. /\ pm[p] \in Payment /\ n \in Payment /\ n # NoPayment /\ n.status # "CAPTURED"
      /\ n.invoice = pm[p].invoice /\ n.amount = pm[p].amount /\ n.txn = pm[p].txn
  BY DEF PaymentRows, Payment, NoPayment
<1>2. qm = [pm EXCEPT ![p] = n]
  BY DEF Refunded
<1> HIDE DEF n
<1>3. /\ qm \in PaymentRows /\ qm[p] = n /\ \A q \in Requests \ {p} : qm[q] = pm[q]
  BY <1>1, <1>2 DEF PaymentRows
<1>4. MadeOn(qm, i) = MadeOn(pm, i) /\ CapturedBy(qm, i) = CapturedBy(pm, i) \ {p}
  BY <1>1, <1>3 DEF MadeOn, CapturedBy
<1>5. i # pm[p].invoice => p \notin CapturedBy(pm, i)
  BY DEF CapturedBy
<1>6. Amounts(qm) = Amounts(pm)
  BY <1>1, <1>3 DEF Amounts
<1>7. /\ CapturedBy(pm, i) \in SUBSET Requests /\ MadeOn(pm, i) \in SUBSET Requests
      /\ \A q \in CapturedBy(pm, i) : pm[q] # NoPayment
      /\ \A q \in MadeOn(pm, i) : pm[q] # NoPayment
  BY CapturedIsPaid DEF MadeOn
<1>8. ASSUME NEW S \in SUBSET Requests, \A q \in S : pm[q] # NoPayment
      PROVE  Worth(qm, S) = Worth(pm, S)
  <2>1. \A q \in S : qm[q] # NoPayment
    BY <1>1, <1>3, <1>8
  <2> QED
    BY <1>3, <1>6, <1>8, <2>1, WorthIsSum
<1>9. Worth(qm, CapturedBy(qm, i)) <= Worth(pm, CapturedBy(pm, i))
  <2> DEFINE C == CapturedBy(pm, i)
  <2>1. Worth(qm, C \ {p}) = Worth(pm, C \ {p})
    BY <1>7, <1>8
  <2>2. /\ Worth(pm, C) = SumFunctionOnSet(Amounts(pm), C) /\ IsFiniteSet(C)
        /\ Worth(pm, C \ {p}) = SumFunctionOnSet(Amounts(pm), C \ {p})
        /\ \A q \in C : Amounts(pm)[q] \in Nat
    BY <1>7, WorthIsSum
  <2>3. SumFunctionOnSet(Amounts(pm), C \ {p}) <= SumFunctionOnSet(Amounts(pm), C)
    <3>1. C \ {p} \in SUBSET C
      OBVIOUS
    <3> HIDE DEF C
    <3> QED
      BY <2>2, <3>1, SumSubset
  <2> QED
    BY <1>4, <2>1, <2>2, <2>3
<1>10. i # pm[p].invoice => Worth(qm, CapturedBy(qm, i)) = Worth(pm, CapturedBy(pm, i))
  <2>1. i # pm[p].invoice => CapturedBy(qm, i) = CapturedBy(pm, i)
    BY <1>4, <1>5
  <2> QED
    BY <1>7, <1>8, <2>1
<1>11. Worth(qm, MadeOn(qm, i)) = Worth(pm, MadeOn(pm, i))
  BY <1>4, <1>7, <1>8
<1>12. \A q \in Requests :
          /\ qm[q] = NoPayment <=> pm[q] = NoPayment
          /\ qm[q].invoice = pm[q].invoice
          /\ pm[q] # NoPayment => qm[q].amount = pm[q].amount /\ qm[q].txn = pm[q].txn
  BY <1>1, <1>3
<1> QED
  BY <1>3, <1>4, <1>9, <1>10, <1>11, <1>12

\* The allocations of a payment, and their sum, of any sequence of allocations.
Of(al, p) == {k \in DOMAIN al : al[k].payment = p}
Allocated(al, p) == SumFunction([k \in Of(al, p) |-> al[k].amount])

\* The sum of the model as a function of the allocation rows.
LEMMA SumsOfAllocations ==
    \A p : /\ AllocatedSum(p) = Allocated(allocations, p)
           /\ AllocatedSum(p)' = Allocated(allocations', p)
BY DEF AllocatedSum, AllocationsOf, Allocated, Of

\* What is allocated of a payment is one sum over all allocation rows.
LEMMA AllocatedIsSum ==
    ASSUME NEW al \in Seq(Allocation), NEW p
    PROVE  /\ IsFiniteSet(Of(al, p)) /\ Of(al, p) \subseteq DOMAIN al
           /\ \A k \in DOMAIN al : al[k] \in Allocation /\ al[k].amount \in Int
           /\ Allocated(al, p) = SumFunctionOnSet([k \in DOMAIN al |-> al[k].amount], Of(al, p))
           /\ Allocated(al, p) \in Int
<1> DEFINE S == Of(al, p)
           D == DOMAIN al
           w == [k \in S |-> al[k].amount]
           v == [k \in D |-> al[k].amount]
<1>1. IsFiniteSet(D) /\ S \subseteq D
  <2>1. D = 1 .. Len(al) /\ Len(al) \in Nat
    OBVIOUS
  <2>2. IsFiniteSet(1 .. Len(al))
    BY <2>1, FS_Interval
  <2> QED
    BY <2>1, <2>2 DEF Of
<1>2. \A k \in D : al[k] \in Allocation /\ al[k].amount \in Int
  <2>1. \A k \in D : al[k] \in Allocation
    OBVIOUS
  <2>2. \A a \in Allocation : a.amount \in Int
    BY DEF Allocation
  <2> QED
    BY <2>1, <2>2
<1>3. IsFiniteSet(S)
  BY <1>1, FS_Subset
<1>4. (\A k \in S : w[k] = v[k]) /\ \A k \in S : v[k] \in Int
  BY <1>1, <1>2
<1>5. Allocated(al, p) = SumFunctionOnSet(w, S)
  BY DEF Allocated, SumFunction
<1>6. SumFunctionOnSet(w, S) = SumFunctionOnSet(v, S)
  <2> HIDE DEF w, v, S
  <2> QED
    BY <1>3, <1>4, SumCongruence
<1>7. SumFunctionOnSet(v, S) \in Int
  <2> HIDE DEF v, S
  <2> QED
    BY <1>3, <1>4, SumType
<1> QED
  BY <1>1, <1>2, <1>3, <1>5, <1>6, <1>7

Extended(al, a) == Append(al, a)

\* A new allocation adds its amount to what is allocated of its payment.
LEMMA AllocationAdded ==
    ASSUME NEW al \in Seq(Allocation), NEW a \in Allocation, NEW bl, bl = Extended(al, a), NEW p
    PROVE  /\ bl \in Seq(Allocation) /\ DOMAIN al \subseteq DOMAIN bl
           /\ \A k \in DOMAIN al : bl[k] = al[k]
           /\ \A k \in DOMAIN bl \ DOMAIN al : bl[k] = a
           /\ Allocated(bl, p) = Allocated(al, p) + (IF p = a.payment THEN a.amount ELSE 0)
<1> DEFINE n == Len(al) + 1
           v == [k \in DOMAIN al |-> al[k].amount]
           u == [k \in DOMAIN bl |-> bl[k].amount]
<1>1. /\ bl \in Seq(Allocation) /\ DOMAIN bl = DOMAIN al \cup {n} /\ n \notin DOMAIN al
      /\ bl[n] = a /\ \A k \in DOMAIN al : bl[k] = al[k]
  BY DEF Extended
<1>2. Of(bl, p) = Of(al, p) \cup (IF p = a.payment THEN {n} ELSE {})
  BY <1>1 DEF Of
<1>3. /\ IsFiniteSet(Of(al, p)) /\ Of(al, p) \subseteq DOMAIN al
      /\ Allocated(al, p) = SumFunctionOnSet(v, Of(al, p)) /\ Allocated(al, p) \in Int
      /\ Allocated(bl, p) = SumFunctionOnSet(u, Of(bl, p))
      /\ \A k \in DOMAIN bl : bl[k].amount \in Int
  BY <1>1, AllocatedIsSum
<1>4. /\ \A k \in Of(al, p) : u[k] = v[k]
      /\ u[n] = a.amount /\ \A k \in Of(al, p) \cup {n} : u[k] \in Int
      /\ n \notin Of(al, p)
  BY <1>1, <1>3
<1> HIDE DEF u, v, n
<1>5. SumFunctionOnSet(u, Of(al, p)) = SumFunctionOnSet(v, Of(al, p))
  BY <1>3, <1>4, SumCongruence
<1>6. SumFunctionOnSet(u, Of(al, p) \cup {n}) = u[n] + SumFunctionOnSet(u, Of(al, p))
  BY <1>3, <1>4, SumAdd
<1>7. Allocated(bl, p) = Allocated(al, p) + (IF p = a.payment THEN a.amount ELSE 0)
  <2>1. u[n] \in Int
    BY <1>4
  <2>2. CASE p = a.payment
    BY <1>2, <1>3, <1>4, <1>5, <1>6, <2>1, <2>2
  <2>3. CASE p # a.payment
    <3>1. Of(bl, p) = Of(al, p)
      BY <1>2, <2>3
    <3> QED
      BY <1>3, <1>5, <2>3, <3>1
  <2> QED
    BY <2>2, <2>3
<1> QED
  BY <1>1, <1>7

Cut(al, k, n) == [al EXCEPT ![k].amount = n]

CutTo(bl, al, k, n) ==
    /\ bl \in Seq(Allocation) /\ DOMAIN bl = DOMAIN al
    /\ \A l \in DOMAIN al : bl[l].payment = al[l].payment
    /\ bl[k].amount = n /\ \A l \in DOMAIN al \ {k} : bl[l] = al[l]

\* Reducing an allocation leaves its payment and the other rows.
LEMMA AllocationCut ==
    ASSUME NEW al \in Seq(Allocation), NEW k \in DOMAIN al, NEW n \in Nat,
           NEW bl, bl = Cut(al, k, n)
    PROVE  CutTo(bl, al, k, n)
<1> DEFINE a == [al[k] EXCEPT !.amount = n]
<1>1. al[k] \in Allocation /\ a \in Allocation /\ a.payment = al[k].payment /\ a.amount = n
  <2>1. al[k] \in Allocation
    OBVIOUS
  <2>2. ASSUME NEW b \in Allocation
        PROVE  /\ [b EXCEPT !.amount = n] \in Allocation
               /\ [b EXCEPT !.amount = n].payment = b.payment
               /\ [b EXCEPT !.amount = n].amount = n
    BY DEF Allocation
  <2> QED
    BY <2>1, <2>2
<1>2. bl = [al EXCEPT ![k] = a]
  BY DEF Cut
<1> HIDE DEF a
<1>3. /\ bl \in Seq(Allocation) /\ DOMAIN bl = DOMAIN al /\ bl[k] = a
      /\ \A l \in DOMAIN al \ {k} : bl[l] = al[l]
  BY <1>1, <1>2
<1> QED
  BY <1>1, <1>3 DEF CutTo

\* It leaves the sums of the other payments, and does not add to that of its
\* own.
LEMMA AllocationReduced ==
    ASSUME NEW al \in Seq(Allocation), NEW k \in DOMAIN al, NEW n \in Nat,
           NEW bl, bl = Cut(al, k, n), NEW p
    PROVE  /\ p # al[k].payment => Allocated(bl, p) = Allocated(al, p)
           /\ n <= al[k].amount => Allocated(bl, p) <= Allocated(al, p)
<1>3. /\ bl \in Seq(Allocation) /\ DOMAIN bl = DOMAIN al
      /\ \A l \in DOMAIN al : bl[l].payment = al[l].payment
      /\ bl[k].amount = n /\ \A l \in DOMAIN al \ {k} : bl[l] = al[l]
  <2>1. CutTo(bl, al, k, n)
    BY AllocationCut
  <2> QED
    BY <2>1 DEF CutTo
<1>4. Of(bl, p) = Of(al, p)
  BY <1>3 DEF Of
<1> DEFINE v == [l \in DOMAIN al |-> al[l].amount]
           u == [l \in DOMAIN bl |-> bl[l].amount]
<1>5. /\ IsFiniteSet(Of(al, p)) /\ Of(al, p) \subseteq DOMAIN al
      /\ Allocated(al, p) = SumFunctionOnSet(v, Of(al, p))
      /\ Allocated(bl, p) = SumFunctionOnSet(u, Of(bl, p))
      /\ \A l \in DOMAIN al : bl[l].amount \in Int /\ al[l].amount \in Int
  BY <1>3, AllocatedIsSum
<1>6. n <= al[k].amount => \A l \in Of(al, p) : u[l] \in Int /\ v[l] \in Int /\ u[l] <= v[l]
  BY SMTT(60), <1>3, <1>5
<1>7. n <= al[k].amount => Allocated(bl, p) <= Allocated(al, p)
  <2> HIDE DEF u, v
  <2> QED
    BY <1>4, <1>5, <1>6, SumMonotone
<1>8. p # al[k].payment => \A l \in Of(al, p) : u[l] = v[l]
  BY <1>3, <1>5 DEF Of
<1>9. p # al[k].payment => Allocated(bl, p) = Allocated(al, p)
  <2> HIDE DEF u, v
  <2> QED
    BY <1>4, <1>5, <1>8, SumCongruence
<1> QED
  BY <1>7, <1>9

-----------------------------------------------------------------------------
(* The rows and the stage of every call.                                    *)

\* A call that has begun is about an invoice, and pays or refunds a positive
\* amount.
LEMMA CallIsTyped ==
    ASSUME StageInv, NEW r \in Requests, pc[r] # "idle"
    PROVE  /\ call[r] \in Call /\ call[r].invoice \in Invoices /\ call[r].amount \in Int
           /\ call[r].op = "edit" => call[r].amount >= 0
           /\ call[r].op \in Ops /\ call[r].txn \in Nat
           /\ Target(r) \in Invoices
           /\ call[r].op \in Pays \cup {"refund"} => call[r].amount > 0
           /\ call[r].op \in {"allocate", "refund"} =>
                 call[r].payment \in Requests /\ payments[call[r].payment] \in Payment
<1>1. call[r] \in Calls[mode] /\ mode \in Modes
  BY DEF StageInv, TypeOK
<1>2. /\ call[r] \in Call
      /\ call[r].op \in {"allocate", "refund"} => call[r].payment \in Requests
      /\ call[r].op \in {"manual", "gateway", "refund"} => call[r].amount > 0
      /\ call[r].op = "edit" => call[r].amount >= 0
  BY <1>1, CallsAssumption
<1>3. call[r].op \in {"allocate", "refund"} => payments[call[r].payment] \in Payment
  BY <1>2 DEF StageInv, AtRows, TypeOK
<1>4. Target(r) \in Invoices
  BY <1>2, <1>3 DEF Target, Call, Payment
<1> QED
  BY <1>2, <1>3, <1>4 DEF Call, Pays

\* A statement belongs to one call and changes what that call has read, and
\* nothing of the others.
LEMMA StepIsLocal ==
    ASSUME StageInv, NEW r \in Requests, Step(r)
    PROVE  /\ pc[r] \in Running /\ call' = call
           /\ pc' \in [Requests -> {"idle"} \cup Running \cup Over]
           /\ pc'[r] \in Running \cup Over
           /\ \A s \in Requests \ {r} : pc'[s] = pc[s] /\ local'[s] = local[s]
<1>1. pc[r] \in Running /\ call' = call
  BY DEF Step, ReadForPayment, Dedupe, InsertPayment, InsertAllocation, ReadInvoiceRow,
     SumPayments, WriteBack, ReadPayment, ReadAllocations, MarkRefunded, FindAllocation,
     ReduceAllocation, ReadInvoice, SetStatus, DeleteLines, InsertLines, Recalculate,
     WriteTotals, Fail, Running
<1>2. \E l \in Running \cup Over : Goto(r, l)
  BY DEF Step, ReadForPayment, Dedupe, InsertPayment, InsertAllocation, ReadInvoiceRow,
     SumPayments, WriteBack, ReadPayment, ReadAllocations, MarkRefunded, FindAllocation,
     ReduceAllocation, ReadInvoice, SetStatus, DeleteLines, InsertLines, Recalculate,
     WriteTotals, Fail, Running, Over
<1>3. \A s \in Requests \ {r} : local'[s] = local[s]
  BY DEF Step, ReadForPayment, Dedupe, InsertPayment, InsertAllocation, ReadInvoiceRow,
     SumPayments, WriteBack, ReadPayment, ReadAllocations, MarkRefunded, FindAllocation,
     ReduceAllocation, ReadInvoice, SetStatus, DeleteLines, InsertLines, Recalculate,
     WriteTotals, Fail, StageInv, TypeOK
<1>4. pc \in [Requests -> {"idle"} \cup Running \cup Over]
  BY DEF StageInv, TypeOK
<1>5. PICK l \in Running \cup Over : Goto(r, l)
  BY <1>2
<1>6. /\ pc' \in [Requests -> {"idle"} \cup Running \cup Over] /\ pc'[r] = l
      /\ \A s \in Requests \ {r} : pc'[s] = pc[s]
  BY <1>4, <1>5 DEF Goto
<1> QED
  BY <1>1, <1>3, <1>5, <1>6

LocalType == [room: Int, status: Status, total: Nat, sum: Nat, index: Nat, held: Int]

\* What a call reads, and the rows of the invoice it writes, are well formed.
LEMMA ReadsAreTyped ==
    ASSUME StageInv, NEW r \in Requests, Step(r)
    PROVE  local' \in [Requests -> LocalType]
<1>1. /\ local \in [Requests -> LocalType] /\ pc[r] # "idle"
      /\ call[r].invoice \in Invoices /\ Target(r) \in Invoices
  BY StepIsLocal, CallIsTyped DEF StageInv, TypeOK, LocalType, Running
<1>2. CASE ReadForPayment(r)
  <2>1. Room(call[r].invoice) \in Int
    BY SMTT(60), <1>1 DEF Room, StageInv, TypeOK
  <2>2. local' = [local EXCEPT ![r].room = Room(call[r].invoice)]
    BY <1>2 DEF ReadForPayment
  <2> QED
    BY <1>1, <2>1, <2>2 DEF LocalType
<1>3. CASE ReadInvoiceRow(r)
  <2>1. status[Target(r)] \in Status /\ grandTotal[Target(r)] \in Nat
    BY <1>1 DEF StageInv, TypeOK
  <2>2. local' = [local EXCEPT ![r].status = status[Target(r)], ![r].total = grandTotal[Target(r)]]
    BY <1>3 DEF ReadInvoiceRow
  <2> QED
    BY <1>1, <2>1, <2>2 DEF LocalType
<1>4. CASE SumPayments(r)
  <2>1. CapturedSum(Target(r)) \in Nat
    BY SumsOfPayments, WorthIsTyped DEF StageInv, TypeOK, PaymentRows
  <2>2. local' = [local EXCEPT ![r].sum = CapturedSum(Target(r))]
    BY <1>4 DEF SumPayments
  <2> QED
    BY <1>1, <2>1, <2>2 DEF LocalType
<1>5. CASE FindAllocation(r) /\ ~UNCHANGED local
  <2>1. PICK k \in AllocationsOf(call[r].payment) :
           local' = [local EXCEPT ![r].index = k, ![r].held = allocations[k].amount]
    BY <1>5 DEF FindAllocation
  <2>2. k \in Nat /\ allocations[k].amount \in Int
    <3>1. allocations \in Seq(Allocation) /\ k \in DOMAIN allocations
      BY DEF StageInv, TypeOK, AllocationsOf
    <3>2. \A p : \A n \in DOMAIN allocations : allocations[n].amount \in Int
      BY <3>1, AllocatedIsSum
    <3>3. k \in Nat
      BY <3>1
    <3> QED
      BY <3>1, <3>2, <3>3
  <2> QED
    BY <1>1, <2>1, <2>2 DEF LocalType
<1>6. CASE Recalculate(r)
  <2>1. lines[call[r].invoice] \in Nat /\ amountPaid[call[r].invoice] \in Nat
    BY <1>1 DEF StageInv, TypeOK
  <2>2. local' = [local EXCEPT ![r].total = lines[call[r].invoice],
                               ![r].sum = amountPaid[call[r].invoice]]
    BY <1>6 DEF Recalculate
  <2> QED
    BY <1>1, <2>1, <2>2 DEF LocalType
<1>7. CASE UNCHANGED local
  BY <1>1, <1>7
<1> QED
  BY <1>2, <1>3, <1>4, <1>5, <1>6, <1>7 DEF Step, Dedupe, InsertPayment, InsertAllocation,
     WriteBack, ReadPayment, ReadAllocations, MarkRefunded, ReduceAllocation, ReadInvoice,
     SetStatus, DeleteLines, InsertLines, WriteTotals, Fail

RowsTyped ==
    /\ lines \in [Invoices -> Nat] /\ grandTotal \in [Invoices -> Nat]
    /\ amountPaid \in [Invoices -> Nat] /\ balanceDue \in [Invoices -> Nat]
    /\ paymentStatus \in [Invoices -> PaymentStatus] /\ status \in [Invoices -> Status]

\* The balance and the standing that reconcile computes are an invoice's.
LEMMA BalanceIsTyped ==
    ASSUME NEW total \in Nat, NEW paid \in Nat
    PROVE  /\ Balance(total, paid) \in Nat /\ Balance(total, paid) <= total
           /\ Standing(total, paid) \in PaymentStatus
           /\ Balance(total, paid) = Max({0, total - paid})
           /\ \A read \in Status : StatusAfter(Standing(total, paid), read) \in Status
<1>1. Max({0, total - paid}) = IF paid < total THEN total - paid ELSE 0
  <2> DEFINE S == {0, total - paid}
  <2>1. PICK y \in S : \A z \in S : y >= z
    OBVIOUS
  <2>2. Max(S) \in S /\ \A z \in S : Max(S) >= z
    BY <2>1 DEF Max
  <2> QED
    BY <2>2
<1>2. Balance(total, paid) \in Nat /\ Balance(total, paid) <= total
  BY DEF Balance
<1>3. /\ Standing(total, paid) \in PaymentStatus
      /\ \A read \in Status : StatusAfter(Standing(total, paid), read) \in Status
  BY DEF Standing, PaymentStatus, StatusAfter, Status
<1> QED
  BY <1>1, <1>2, <1>3 DEF Balance

\* The rows of an invoice change in five statements.
LEMMA RowsAreTyped ==
    ASSUME StageInv, NEW r \in Requests, Step(r)
    PROVE  RowsTyped'
<1>1. /\ RowsTyped /\ pc[r] # "idle"
      /\ call[r].invoice \in Invoices /\ Target(r) \in Invoices
      /\ pc[r] = "insertLines" => call[r].amount \in Nat
      /\ local[r].sum \in Nat /\ local[r].total \in Nat /\ local[r].status \in Status
  <2>1. pc[r] # "idle" /\ (pc[r] = "insertLines" => call[r].op = "edit")
    BY StepIsLocal DEF StageInv, AtOps, Editing, Running
  <2>2. call[r].op = "edit" => call[r].amount \in Nat
    BY <2>1, CallIsTyped
  <2> QED
    BY <2>1, <2>2, CallIsTyped DEF StageInv, TypeOK, RowsTyped
<1>2. CASE WriteBack(r)
  <2> DEFINE i == Target(r)
             st == Standing(local[r].total, local[r].sum)
             b == Balance(local[r].total, local[r].sum)
             n == StatusAfter(st, local[r].status)
  <2>1. i \in Invoices /\ st \in PaymentStatus /\ b \in Nat /\ n \in Status
    BY <1>1, BalanceIsTyped
  <2>2. /\ amountPaid' = [amountPaid EXCEPT ![i] = local[r].sum]
        /\ balanceDue' = [balanceDue EXCEPT ![i] = b]
        /\ paymentStatus' = [paymentStatus EXCEPT ![i] = st]
        /\ status' = [status EXCEPT ![i] = n] /\ UNCHANGED <<lines, grandTotal>>
    BY <1>2 DEF WriteBack
  <2> HIDE DEF i, st, b, n
  <2> QED
    BY <1>1, <2>1, <2>2 DEF RowsTyped
<1>3. CASE SetStatus(r)
  BY <1>1, <1>3 DEF SetStatus, RowsTyped, Status
<1>4. CASE DeleteLines(r)
  BY <1>1, <1>4 DEF DeleteLines, RowsTyped
<1>5. CASE InsertLines(r)
  BY <1>1, <1>5 DEF InsertLines, RowsTyped
<1>6. CASE WriteTotals(r)
  <2> DEFINE i == call[r].invoice
             b == Balance(local[r].total, local[r].sum)
  <2>1. i \in Invoices /\ b \in Nat
    BY <1>1, BalanceIsTyped
  <2>2. /\ grandTotal' = [grandTotal EXCEPT ![i] = local[r].total]
        /\ balanceDue' = [balanceDue EXCEPT ![i] = b]
        /\ UNCHANGED <<lines, amountPaid, paymentStatus, status>>
    BY <1>6 DEF WriteTotals
  <2> HIDE DEF i, b
  <2> QED
    BY <1>1, <2>1, <2>2 DEF RowsTyped
<1>7. CASE UNCHANGED invoiceRow
  BY <1>1, <1>7 DEF invoiceRow, RowsTyped
<1> QED
  BY <1>2, <1>3, <1>4, <1>5, <1>6, <1>7 DEF Step, ReadForPayment, Dedupe, InsertPayment,
     InsertAllocation, ReadInvoiceRow, SumPayments, ReadPayment, ReadAllocations,
     MarkRefunded, FindAllocation, ReduceAllocation, ReadInvoice, Recalculate, Fail

\* What the payment and allocation rows can become.
NewPayment(r) == [invoice |-> call[r].invoice, amount |-> call[r].amount, txn |-> call[r].txn,
                  status |-> "CAPTURED"]

\* A payment is inserted by a paying call, and refunded by a refund.
LEMMA PaymentsChange ==
    ASSUME StageInv, NEW r \in Requests, Step(r)
    PROVE  /\ payments' \in PaymentRows
           /\ \/ UNCHANGED payments
              \/ /\ InsertPayment(r) /\ payments[r] = NoPayment
                 /\ NewPayment(r) \in Payment /\ payments' = [payments EXCEPT ![r] = NewPayment(r)]
              \/ /\ MarkRefunded(r) /\ call[r].payment \in Requests
                 /\ payments[call[r].payment] # NoPayment
                 /\ payments' = [payments EXCEPT ![call[r].payment].status = "REFUNDED"]
<1>1. pc[r] # "idle" /\ payments \in PaymentRows
  BY StepIsLocal DEF Running, StageInv, TypeOK, PaymentRows
<1>2. CASE InsertPayment(r)
  <2>1. payments[r] = NoPayment
    BY <1>2 DEF InsertPayment, StageInv, AtRows
  <2>2. NewPayment(r) \in Payment
    BY <1>1, <1>2, CallIsTyped DEF NewPayment, Payment, InsertPayment, StageInv, AtOps
  <2>3. payments' = [payments EXCEPT ![r] = NewPayment(r)]
    BY <1>2 DEF InsertPayment, NewPayment
  <2>4. payments' \in PaymentRows
    <3> HIDE DEF NewPayment
    <3> QED
      BY <1>1, <2>2, <2>3 DEF PaymentRows
  <2> QED
    BY <1>2, <2>1, <2>2, <2>3, <2>4
<1>3. CASE MarkRefunded(r)
  <2>1. call[r].op = "refund"
    BY <1>3 DEF MarkRefunded, StageInv, AtOps, Refunding
  <2>2. /\ call[r].payment \in Requests /\ payments[call[r].payment] \in Payment
        /\ payments[call[r].payment] # NoPayment
    BY <1>1, <2>1, CallIsTyped DEF StageInv, AtRows
  <2>3. payments' = [payments EXCEPT ![call[r].payment].status = "REFUNDED"]
    BY <1>3 DEF MarkRefunded
  <2> QED
    BY <1>1, <1>3, <2>2, <2>3, PaymentRefunded DEF Refunded
<1>4. CASE UNCHANGED payments
  BY <1>1, <1>4
<1> QED
  BY <1>2, <1>3, <1>4 DEF Step, ReadForPayment, Dedupe, InsertAllocation, ReadInvoiceRow,
     SumPayments, WriteBack, ReadPayment, ReadAllocations, FindAllocation, ReduceAllocation,
     ReadInvoice, SetStatus, DeleteLines, InsertLines, Recalculate, WriteTotals, Fail

\* Payments are never removed, and say what they said but for their status.
LEMMA PaymentsStay ==
    ASSUME StageInv, NEW r \in Requests, Step(r)
    PROVE  \A p \in Requests : payments[p] # NoPayment =>
              /\ payments'[p] # NoPayment /\ payments'[p].invoice = payments[p].invoice
              /\ payments'[p].amount = payments[p].amount /\ payments'[p].txn = payments[p].txn
<1>1. payments \in PaymentRows
  BY DEF StageInv, TypeOK, PaymentRows
<1>2. CASE UNCHANGED payments
  BY <1>2
<1>3. CASE payments[r] = NoPayment /\ payments' = [payments EXCEPT ![r] = NewPayment(r)]
  <2> HIDE DEF NewPayment
  <2> QED
    BY <1>1, <1>3 DEF PaymentRows
<1>4. CASE /\ call[r].payment \in Requests /\ payments[call[r].payment] # NoPayment
           /\ payments' = [payments EXCEPT ![call[r].payment].status = "REFUNDED"]
  BY <1>1, <1>4, PaymentRefunded DEF Refunded
<1> QED
  BY <1>2, <1>3, <1>4, PaymentsChange

NewAllocation(r) == [payment |-> Funded(r), invoice |-> call[r].invoice, amount |-> call[r].amount]
Reduced(r) == Balance(local[r].held, call[r].amount)

\* An allocation is inserted or reduced, and stays with its payment.
LEMMA AllocationsChange ==
    ASSUME StageInv, NEW r \in Requests, Step(r)
    PROVE  /\ allocations' \in Seq(Allocation) /\ DOMAIN allocations \subseteq DOMAIN allocations'
           /\ \A k \in DOMAIN allocations : allocations'[k].payment = allocations[k].payment
           /\ \/ UNCHANGED allocations
              \/ /\ InsertAllocation(r) /\ Funded(r) \in Requests
                 /\ payments[Funded(r)] # NoPayment /\ NewAllocation(r) \in Allocation
                 /\ allocations' = Append(allocations, NewAllocation(r))
              \/ /\ ReduceAllocation(r) /\ local[r].index \in DOMAIN allocations
                 /\ allocations[local[r].index].payment = call[r].payment
                 /\ Reduced(r) \in Nat
                 /\ Reduced(r) <= local[r].held \/ (local[r].held < 0 /\ Reduced(r) = 0)
                 /\ allocations' = [allocations EXCEPT ![local[r].index].amount = Reduced(r)]
<1>1. /\ pc[r] # "idle" /\ allocations \in Seq(Allocation)
      /\ call[r].invoice \in Invoices /\ call[r].amount \in Int
  BY StepIsLocal, CallIsTyped DEF Running, StageInv, TypeOK
<1>2. CASE InsertAllocation(r)
  <2>1. pc[r] = "insertAllocation" /\ call[r].op \in Pays \cup {"allocate"}
    BY <1>2 DEF InsertAllocation, StageInv, AtOps
  <2>2. Funded(r) \in Requests /\ payments[Funded(r)] # NoPayment
    BY <1>1, <2>1, CallIsTyped DEF Funded, Pays, StageInv, AtRows
  <2>3. NewAllocation(r) \in Allocation
    BY <1>1, <2>2 DEF NewAllocation, Allocation
  <2>4. allocations' = Append(allocations, NewAllocation(r))
    BY <1>2 DEF InsertAllocation, NewAllocation, Funded
  <2>5. /\ allocations' \in Seq(Allocation) /\ DOMAIN allocations \subseteq DOMAIN allocations'
        /\ \A k \in DOMAIN allocations : allocations'[k] = allocations[k]
    <3> HIDE DEF NewAllocation, Allocation
    <3> QED
      BY <1>1, <2>3, <2>4
  <2> QED
    BY <1>2, <2>2, <2>3, <2>4, <2>5
<1>3. CASE ReduceAllocation(r)
  <2>1. /\ local[r].index \in DOMAIN allocations /\ local[r].held \in Int
        /\ allocations[local[r].index].payment = call[r].payment
    BY <1>3 DEF ReduceAllocation, StageInv, AtRows, TypeOK
  <2>5. call[r].op = "refund" /\ call[r].amount > 0
    BY <1>1, <1>3, CallIsTyped DEF ReduceAllocation, StageInv, AtOps, Refunding
  <2>2. /\ Reduced(r) \in Nat
        /\ Reduced(r) <= local[r].held \/ (local[r].held < 0 /\ Reduced(r) = 0)
    BY <1>1, <2>1, <2>5 DEF Reduced, Balance
  <2>3. allocations' = [allocations EXCEPT ![local[r].index].amount = Reduced(r)]
    BY <1>3 DEF ReduceAllocation, Reduced
  <2>4. /\ allocations' \in Seq(Allocation) /\ DOMAIN allocations' = DOMAIN allocations
        /\ \A k \in DOMAIN allocations : allocations'[k].payment = allocations[k].payment
    <3>1. PICK k \in DOMAIN allocations, n \in Nat : k = local[r].index /\ n = Reduced(r)
      BY <2>1, <2>2
    <3>2. PICK al, bl : al \in Seq(Allocation) /\ al = allocations /\ bl = allocations'
      BY <1>1
    <3>3. k \in DOMAIN al /\ bl = Cut(al, k, n)
      BY <2>3, <3>1, <3>2 DEF Cut
    <3>4. /\ bl \in Seq(Allocation) /\ DOMAIN bl = DOMAIN al
          /\ \A l \in DOMAIN al : bl[l].payment = al[l].payment
      <4>1. CutTo(bl, al, k, n)
        BY <3>2, <3>3, AllocationCut
      <4> QED
        BY <4>1 DEF CutTo
    <3> QED
      BY <3>2, <3>4
  <2> QED
    BY <1>3, <2>1, <2>2, <2>3, <2>4
<1>4. CASE UNCHANGED allocations
  BY <1>1, <1>4
<1> QED
  BY <1>2, <1>3, <1>4 DEF Step, ReadForPayment, Dedupe, InsertPayment, ReadInvoiceRow,
     SumPayments, WriteBack, ReadPayment, ReadAllocations, MarkRefunded, FindAllocation,
     ReadInvoice, SetStatus, DeleteLines, InsertLines, Recalculate, WriteTotals, Fail

\* The stage of the call that makes a step.
LEMMA StageFollows ==
    ASSUME StageInv, NEW r \in Requests, Step(r)
    PROVE  AtOps(r)' /\ AtRows(r)'
<1>1. /\ pc[r] \in Running /\ call' = call /\ call[r].op \in Ops /\ AtOps(r) /\ AtRows(r)
      /\ pc \in [Requests -> {"idle"} \cup Running \cup Over]
      /\ local \in [Requests -> LocalType]
  BY StepIsLocal, CallIsTyped DEF Running, StageInv, TypeOK, LocalType
<1>2. \A l : Goto(r, l) => pc'[r] = l
  BY <1>1 DEF Goto
<1>3. AtOps(r)'
  BY <1>1, <1>2 DEF Step, ReadForPayment, Dedupe, InsertPayment, InsertAllocation,
     ReadInvoiceRow, SumPayments, WriteBack, ReadPayment, ReadAllocations, MarkRefunded,
     FindAllocation, ReduceAllocation, ReadInvoice, SetStatus, DeleteLines, InsertLines,
     Recalculate, WriteTotals, Fail, AtOps, Ops, Pays, Reconciling, Refunding, Editing
<1>4. AtRows(r)'
  <2>1. /\ payments[r] # NoPayment =>
              /\ payments'[r].invoice = call[r].invoice /\ payments'[r].amount = call[r].amount
              /\ payments'[r].txn = call[r].txn /\ call[r].op \in Pays
        /\ call[r].op \in {"allocate", "refund"} => payments'[call[r].payment] # NoPayment
    BY <1>1, CallIsTyped, PaymentsStay DEF AtRows, Running
  <2>2. CASE InsertPayment(r)
    <3>1. /\ pc'[r] = "insertAllocation" /\ payments'[r] = NewPayment(r) /\ call[r].op \in Pays
          /\ NewPayment(r) # NoPayment
      BY <1>1, <1>2, <2>2 DEF InsertPayment, NewPayment, AtOps, NoPayment, StageInv, TypeOK
    <3> QED
      BY <1>1, <3>1 DEF AtRows, NewPayment, Pays
  <2>3. CASE ~InsertPayment(r)
    <3>1. payments[r] = NoPayment => payments'[r] = NoPayment
      <4>1. CASE MarkRefunded(r)
        BY <2>3, <4>1, PaymentsChange, PaymentRefunded DEF StageInv, TypeOK, PaymentRows, Refunded
      <4> QED
        BY <2>3, <4>1, PaymentsChange
    <3>2. /\ pc'[r] \in {"idle", "read", "dedupe", "insertPayment"} =>
                pc[r] \in {"idle", "read", "dedupe", "insertPayment"}
          /\ pc'[r] = "insertAllocation" => call[r].op \notin Pays
      BY <1>1, <1>2, <2>3 DEF Step, ReadForPayment, Dedupe, InsertAllocation,
         ReadInvoiceRow, SumPayments, WriteBack, ReadPayment, ReadAllocations, MarkRefunded,
         FindAllocation, ReduceAllocation, ReadInvoice, SetStatus, DeleteLines, InsertLines,
         Recalculate, WriteTotals, Fail, AtOps, Pays
    <3>3. pc'[r] = "reduceAllocation" =>
             /\ local'[r].index \in DOMAIN allocations'
             /\ allocations'[local'[r].index].payment = call[r].payment
      <4> SUFFICES ASSUME pc'[r] = "reduceAllocation"
                   PROVE  /\ local'[r].index \in DOMAIN allocations'
                          /\ allocations'[local'[r].index].payment = call[r].payment
        OBVIOUS
      <4>1. FindAllocation(r)
        BY <1>1, <1>2, <2>3 DEF Step, ReadForPayment, Dedupe, InsertAllocation,
           ReadInvoiceRow, SumPayments, WriteBack, ReadPayment, ReadAllocations, MarkRefunded,
           ReduceAllocation, ReadInvoice, SetStatus, DeleteLines, InsertLines,
           Recalculate, WriteTotals, Fail
      <4>2. PICK k \in AllocationsOf(call[r].payment) :
               local' = [local EXCEPT ![r].index = k, ![r].held = allocations[k].amount]
        BY <1>2, <4>1 DEF FindAllocation
      <4>3. local'[r].index = k
        BY <1>1, <4>2 DEF LocalType
      <4>4. allocations' = allocations
        BY <4>1 DEF FindAllocation
      <4> QED
        BY <4>2, <4>3, <4>4 DEF AllocationsOf
    <3>4. payments'[r] # NoPayment => payments[r] # NoPayment
      BY <3>1
    <3> QED
      BY <1>1, <2>1, <3>1, <3>2, <3>3, <3>4 DEF AtRows
  <2> QED
    BY <2>2, <2>3
<1> QED
  BY <1>3, <1>4

\* A statement keeps the rows well formed and every call at its stage.
LEMMA StepKeepsStage ==
    ASSUME StageInv, NEW r \in Requests, Step(r), mode' = mode
    PROVE  StageInv'
<1>1. TypeOK'
  BY StepIsLocal, ReadsAreTyped, RowsAreTyped, PaymentsChange, AllocationsChange
     DEF TypeOK, StageInv, RowsTyped, PaymentRows, LocalType
<1>2. ASSUME NEW s \in Requests
      PROVE  (pc[s] # "idle" => call[s] \in Calls[mode])' /\ AtOps(s)' /\ AtRows(s)'
  <2>1. CASE s = r
    <3>1. call'[r] \in Calls[mode']
      BY StepIsLocal DEF StageInv, Running
    <3> QED
      BY <2>1, <3>1, StageFollows
  <2>2. CASE s # r
    <3>1. /\ pc'[s] = pc[s] /\ call' = call /\ local'[s] = local[s] /\ AtOps(s) /\ AtRows(s)
          /\ pc[s] # "idle" => call[s] \in Calls[mode]
      BY <2>2, StepIsLocal DEF StageInv
    <3>2. payments'[s] = NoPayment <=> payments[s] = NoPayment
      <4>1. CASE payments' = [payments EXCEPT ![r] = NewPayment(r)]
        BY <2>2, <4>1 DEF StageInv, TypeOK
      <4>2. CASE UNCHANGED payments
        BY <4>2
      <4>3. CASE /\ call[r].payment \in Requests /\ payments[call[r].payment] # NoPayment
                 /\ payments' = [payments EXCEPT ![call[r].payment].status = "REFUNDED"]
        BY <4>3 DEF StageInv, TypeOK, Payment, NoPayment
      <4> QED
        BY <4>1, <4>2, <4>3, PaymentsChange
    <3>3. /\ payments[s] # NoPayment =>
                /\ payments'[s].invoice = payments[s].invoice
                /\ payments'[s].amount = payments[s].amount /\ payments'[s].txn = payments[s].txn
          /\ pc[s] # "idle" /\ call[s].op \in {"allocate", "refund"} =>
                payments'[call[s].payment] # NoPayment
      BY <3>1, CallIsTyped, PaymentsStay DEF AtRows
    <3>4. local[s].index \in DOMAIN allocations =>
             /\ local[s].index \in DOMAIN allocations'
             /\ allocations'[local[s].index].payment = allocations[local[s].index].payment
      BY AllocationsChange
    <3>5. AtOps(s)'
      BY <3>1 DEF AtOps
    <3>6. AtRows(s)'
      BY <3>1, <3>2, <3>3, <3>4 DEF AtRows
    <3> QED
      BY <3>1, <3>5, <3>6
  <2> QED
    BY <2>1, <2>2
<1>3. ASSUME NEW k \in DOMAIN allocations' PROVE payments'[allocations'[k].payment] # NoPayment
  <2>1. CASE k \in DOMAIN allocations
    <3>1. /\ allocations'[k].payment = allocations[k].payment
          /\ payments[allocations[k].payment] # NoPayment
      BY <2>1, AllocationsChange DEF StageInv
    <3>2. allocations[k].payment \in Requests
      <4>1. allocations \in Seq(Allocation)
        BY DEF StageInv, TypeOK
      <4>2. allocations[k] \in Allocation
        BY <2>1, <4>1
      <4> QED
        BY <4>2 DEF Allocation
    <3> QED
      BY <3>1, <3>2, PaymentsStay
  <2>2. CASE k \notin DOMAIN allocations
    <3>1. /\ Funded(r) \in Requests /\ payments[Funded(r)] # NoPayment
          /\ NewAllocation(r) \in Allocation
          /\ allocations' = Append(allocations, NewAllocation(r))
      <4>1. CASE UNCHANGED allocations
        BY <1>3, <2>2, <4>1
      <4>2. CASE allocations' = [allocations EXCEPT ![local[r].index].amount = Reduced(r)]
        <5>1. DOMAIN allocations' = DOMAIN allocations
          <6>1. PICK n : n = [allocations[local[r].index] EXCEPT !.amount = Reduced(r)]
            OBVIOUS
          <6>2. allocations' = [allocations EXCEPT ![local[r].index] = n]
            BY <4>2, <6>1
          <6> QED
            BY <6>2 DEF StageInv, TypeOK
        <5> QED
          BY <1>3, <2>2, <5>1
      <4> QED
        BY <4>1, <4>2, AllocationsChange
    <3>2. allocations'[k] = NewAllocation(r)
      <4>1. allocations \in Seq(Allocation)
        BY DEF StageInv, TypeOK
      <4> HIDE DEF NewAllocation, Allocation
      <4> QED
        BY <1>3, <2>2, <3>1, <4>1
    <3> QED
      BY <3>1, <3>2, PaymentsStay DEF NewAllocation
  <2> QED
    BY <2>1, <2>2
<1> QED
  BY <1>1, <1>2, <1>3 DEF StageInv

\* A call begins without having read or written anything.
LEMMA BeginKeepsStage ==
    ASSUME StageInv, NEW r \in Requests, NEW c \in Calls[mode], Begin(r, c), mode' = mode
    PROVE  StageInv'
<1>1. /\ pc[r] = "idle" /\ call' = [call EXCEPT ![r] = c] /\ pc' = [pc EXCEPT ![r] = "read"]
      /\ c.op \in {"allocate", "refund"} => payments[c.payment] # NoPayment
      /\ UNCHANGED <<lines, grandTotal, amountPaid, balanceDue, paymentStatus, status,
                     payments, allocations, local>>
  BY DEF Begin, Goto, invoiceRow
<1>2. c \in Call
  BY CallsAssumption DEF StageInv, TypeOK
<1>3. /\ pc \in [Requests -> {"idle"} \cup Running \cup Over]
      /\ call \in [Requests -> {NoCall} \cup Call]
  BY DEF StageInv, TypeOK
<1>4. /\ pc' \in [Requests -> {"idle"} \cup Running \cup Over] /\ pc'[r] = "read"
      /\ call' \in [Requests -> {NoCall} \cup Call] /\ call'[r] = c
      /\ \A s \in Requests \ {r} : pc'[s] = pc[s] /\ call'[s] = call[s]
  <2> HIDE DEF Call
  <2> QED
    BY <1>1, <1>2, <1>3 DEF Running
<1>5. TypeOK'
  BY <1>1, <1>4 DEF StageInv, TypeOK
<1>6. ASSUME NEW s \in Requests
      PROVE  (pc[s] # "idle" => call[s] \in Calls[mode])' /\ AtOps(s)' /\ AtRows(s)'
  <2>1. CASE s = r
    BY <1>1, <1>4, <2>1 DEF StageInv, AtOps, AtRows, Reconciling, Refunding, Editing
  <2>2. CASE s # r
    <3>1. pc'[s] = pc[s] /\ call'[s] = call[s]
      BY <1>4, <2>2
    <3>2. (pc[s] # "idle" => call[s] \in Calls[mode]) /\ AtOps(s) /\ AtRows(s)
      BY DEF StageInv
    <3> QED
      BY <1>1, <3>1, <3>2 DEF AtOps, AtRows
  <2> QED
    BY <2>1, <2>2
<1>7. \A k \in DOMAIN allocations' : payments'[allocations'[k].payment] # NoPayment
  BY <1>1 DEF StageInv
<1> QED
  BY <1>5, <1>6, <1>7 DEF StageInv

\* At the start no call has a stage to be at.
LEMMA InitStages == Init => StageInv
<1> SUFFICES ASSUME Init PROVE StageInv
  OBVIOUS
<1>1. TypeOK
  <2>1. /\ Price \in [Invoices -> Nat] /\ <<>> \in Seq(Allocation)
    BY PriceAssumption
  <2>2. Unread \in LocalType
    BY DEF Unread, LocalType, Status
  <2> HIDE DEF Unread
  <2> QED
    BY <2>1, <2>2 DEF Init, TypeOK, LocalType, PaymentStatus, Status
<1>2. DOMAIN allocations = {}
  BY DEF Init
<1>3. ASSUME NEW r \in Requests PROVE AtOps(r) /\ AtRows(r) /\ pc[r] = "idle"
  BY DEF Init, AtOps, AtRows, Reconciling, Refunding, Editing
<1> QED
  BY <1>1, <1>2, <1>3 DEF StageInv

\* No step breaks the rows or the stages.
LEMMA NextKeepsStage == StageInv /\ [Next]_vars => StageInv'
<1> SUFFICES ASSUME StageInv, [Next]_vars PROVE StageInv'
  OBVIOUS
<1>1. CASE UNCHANGED vars
  BY <1>1 DEF vars, invoiceRow, StageInv, TypeOK, AtOps, AtRows
<1>2. CASE Next
  BY <1>2, StepKeepsStage, BeginKeepsStage DEF Next
<1> QED
  BY <1>1, <1>2

\* The rows that the two services write are well formed whatever calls overlap
\* and fail.
THEOREM TypeCorrect == Spec => []TypeOK
<1>1. StageInv => TypeOK
  BY DEF StageInv
<1> QED
  BY <1>1, InitStages, NextKeepsStage, PTL DEF Spec

-----------------------------------------------------------------------------
(* What an invoice can show at most.                                        *)

\* What a step does to the sums of an invoice.
LEMMA SumsChange ==
    ASSUME StageInv, NEW r \in Requests, Step(r), NEW i
    PROVE  /\ CapturedSum(i) \in Nat /\ EverPaid(i) \in Nat /\ CapturedSum(i) <= EverPaid(i)
           /\ CapturedSum(i)' \in Nat /\ EverPaid(i)' \in Nat /\ EverPaid(i) <= EverPaid(i)'
           /\ \/ CapturedSum(i)' = CapturedSum(i)
              \/ /\ InsertPayment(r) /\ i = call[r].invoice
                 /\ CapturedSum(i)' = CapturedSum(i) + call[r].amount
              \/ /\ MarkRefunded(r) /\ i = Target(r) /\ CapturedSum(i)' <= CapturedSum(i)
<1>1. payments \in PaymentRows /\ payments' \in PaymentRows
  BY PaymentsChange DEF StageInv, TypeOK, PaymentRows
<1> DEFINE c == Worth(payments, CapturedBy(payments, i))
           d == Worth(payments', CapturedBy(payments', i))
           e == Worth(payments, MadeOn(payments, i))
           f == Worth(payments', MadeOn(payments', i))
<1>2. c \in Nat /\ d \in Nat /\ e \in Nat /\ f \in Nat /\ c <= e
  BY <1>1, WorthIsTyped
<1>3. /\ e <= f
      /\ \/ d = c
         \/ InsertPayment(r) /\ i = call[r].invoice /\ d = c + call[r].amount
         \/ MarkRefunded(r) /\ i = Target(r) /\ d <= c
  <2>1. CASE UNCHANGED payments
    BY <1>2, <2>1
  <2>2. CASE /\ InsertPayment(r) /\ payments[r] = NoPayment /\ NewPayment(r) \in Payment
             /\ payments' = [payments EXCEPT ![r] = NewPayment(r)]
    <3>1. PICK n \in Payment : n = NewPayment(r)
      BY <2>2
    <3>2. /\ n.status = "CAPTURED" /\ n.invoice = call[r].invoice /\ n.amount = call[r].amount
          /\ n.amount \in Nat
      BY <3>1 DEF NewPayment, Payment
    <3>4. payments' = Inserted(payments, r, n)
      BY <2>2, <3>1 DEF Inserted
    <3>3. /\ d = c + (IF i = n.invoice THEN n.amount ELSE 0)
          /\ f = e + (IF i = n.invoice THEN n.amount ELSE 0)
      <4>1. PICK pm \in PaymentRows, qm \in PaymentRows : pm = payments /\ qm = payments'
        BY <1>1
      <4>2. pm[r] = NoPayment /\ qm = Inserted(pm, r, n)
        BY <2>2, <3>4, <4>1
      <4>3. /\ Worth(qm, CapturedBy(qm, i)) =
                  Worth(pm, CapturedBy(pm, i)) + (IF i = n.invoice THEN n.amount ELSE 0)
            /\ Worth(qm, MadeOn(qm, i)) =
                  Worth(pm, MadeOn(pm, i)) + (IF i = n.invoice THEN n.amount ELSE 0)
        BY <3>2, <4>2, PaymentInserted
      <4> QED
        BY <4>1, <4>3
    <3> HIDE DEF c, d, e, f
    <3> QED
      BY <1>2, <2>2, <3>2, <3>3
  <2>3. CASE /\ MarkRefunded(r) /\ call[r].payment \in Requests
             /\ payments[call[r].payment] # NoPayment
             /\ payments' = [payments EXCEPT ![call[r].payment].status = "REFUNDED"]
    <3>1. PICK p \in Requests : p = call[r].payment
      BY <2>3
    <3>2. d <= c /\ (i # payments[p].invoice => d = c) /\ f = e
      <4>1. PICK pm \in PaymentRows, qm \in PaymentRows : pm = payments /\ qm = payments'
        BY <1>1
      <4>2. pm[p] # NoPayment /\ qm = Refunded(pm, p)
        BY <2>3, <3>1, <4>1 DEF Refunded
      <4>3. /\ Worth(qm, CapturedBy(qm, i)) <= Worth(pm, CapturedBy(pm, i))
            /\ i # pm[p].invoice => Worth(qm, CapturedBy(qm, i)) = Worth(pm, CapturedBy(pm, i))
            /\ Worth(qm, MadeOn(qm, i)) = Worth(pm, MadeOn(pm, i))
        BY <4>2, PaymentRefunded
      <4> QED
        BY <4>1, <4>3
    <3>3. Target(r) = payments[p].invoice
      BY <2>3, <3>1 DEF MarkRefunded, StageInv, AtOps, Refunding, Target
    <3> HIDE DEF c, d, e, f
    <3> QED
      BY <1>2, <2>3, <3>2, <3>3
  <2> QED
    BY <2>1, <2>2, <2>3, PaymentsChange
<1>4. CapturedSum(i) = c /\ CapturedSum(i)' = d /\ EverPaid(i) = e /\ EverPaid(i)' = f
  BY SumsOfPayments
<1> HIDE DEF c, d, e, f
<1> QED
  BY <1>2, <1>3, <1>4

\* Which invoice a call is about does not change.
LEMMA TargetStays ==
    ASSUME StageInv, NEW r \in Requests, Step(r), NEW s \in Requests, pc[s] # "idle"
    PROVE  Target(s)' = Target(s) /\ Target(s) \in Invoices
<1>1. call' = call /\ Target(s) \in Invoices
  BY StepIsLocal, CallIsTyped
<1>2. CASE call[s].op = "refund"
  <2>1. call[s].payment \in Requests /\ payments[call[s].payment] # NoPayment
    BY <1>2, CallIsTyped DEF StageInv, AtRows
  <2>2. payments'[call[s].payment].invoice = payments[call[s].payment].invoice
    BY <2>1, PaymentsStay
  <2> QED
    BY <1>1, <1>2, <2>2 DEF Target
<1>3. CASE call[s].op # "refund"
  BY <1>1, <1>3 DEF Target
<1> QED
  BY <1>2, <1>3

\* Only WriteBack changes what an invoice shows as paid.
LEMMA PaidChanges ==
    ASSUME StageInv, NEW r \in Requests, Step(r), NEW i \in Invoices
    PROVE  \/ amountPaid'[i] = amountPaid[i]
           \/ WriteBack(r) /\ i = Target(r) /\ amountPaid'[i] = local[r].sum
<1>1. amountPaid \in [Invoices -> Nat]
  BY DEF StageInv, TypeOK
<1>2. CASE WriteBack(r)
  BY <1>1, <1>2 DEF WriteBack
<1>3. CASE ~WriteBack(r)
  BY <1>3 DEF Step, ReadForPayment, Dedupe, InsertPayment, InsertAllocation, ReadInvoiceRow,
     SumPayments, ReadPayment, ReadAllocations, MarkRefunded, FindAllocation,
     ReduceAllocation, ReadInvoice, SetStatus, DeleteLines, InsertLines, Recalculate,
     WriteTotals, Fail, invoiceRow
<1> QED
  BY <1>2, <1>3

\* The statement SumPayments is the only one that leads to the write-back.
LEMMA WriteBackFollowsSum ==
    ASSUME StageInv, NEW r \in Requests, Step(r), pc'[r] = "writeBack"
    PROVE  SumPayments(r)
BY DEF Step, ReadForPayment, Dedupe, InsertPayment, InsertAllocation, ReadInvoiceRow,
   WriteBack, ReadPayment, ReadAllocations, MarkRefunded, FindAllocation,
   ReduceAllocation, ReadInvoice, SetStatus, DeleteLines, InsertLines, Recalculate,
   WriteTotals, Fail, Goto, StageInv, TypeOK

\* A statement shows no more money than was ever paid.
LEMMA StepKeepsMoney ==
    ASSUME StageInv, MoneyInv, NEW r \in Requests, Step(r)
    PROVE  MoneyInv'
<1>1. ASSUME NEW i \in Invoices PROVE amountPaid'[i] <= EverPaid(i)'
  <2>1. EverPaid(i) \in Nat /\ EverPaid(i)' \in Nat /\ EverPaid(i) <= EverPaid(i)'
    BY SumsChange
  <2>2. CASE amountPaid'[i] = amountPaid[i]
    <3>1. amountPaid[i] <= EverPaid(i) /\ amountPaid[i] \in Nat
      BY DEF MoneyInv, NoPhantomMoney, StageInv, TypeOK
    <3> QED
      BY <2>1, <2>2, <3>1
  <2>3. CASE WriteBack(r) /\ i = Target(r) /\ amountPaid'[i] = local[r].sum
    <3>1. local[r].sum <= EverPaid(i) /\ local[r].sum \in Nat
      BY <2>3 DEF WriteBack, MoneyInv, StageInv, TypeOK
    <3> QED
      BY <2>1, <2>3, <3>1
  <2> QED
    BY <2>2, <2>3, PaidChanges
<1>2. ASSUME NEW s \in Requests, NEW i \in Invoices, pc'[s] = "writeBack", Target(s)' = i
      PROVE  local'[s].sum <= EverPaid(i)'
  <2>1. /\ EverPaid(i) \in Nat /\ EverPaid(i)' \in Nat /\ EverPaid(i) <= EverPaid(i)'
        /\ CapturedSum(i) \in Nat /\ CapturedSum(i) <= EverPaid(i)
    BY SumsChange
  <2>2. CASE s = r
    <3>1. SumPayments(r)
      BY <1>2, <2>2, WriteBackFollowsSum
    <3>2. Target(r) = i
      BY <1>2, <2>2, <3>1, TargetStays DEF SumPayments
    <3>3. local'[r].sum = CapturedSum(i)
      BY <3>1, <3>2 DEF SumPayments, StageInv, TypeOK
    <3> QED
      BY <2>1, <2>2, <3>3
  <2>3. CASE s # r
    <3>1. pc[s] = "writeBack" /\ local'[s] = local[s]
      BY <1>2, <2>3, StepIsLocal
    <3>2. Target(s) = i
      BY <1>2, <3>1, TargetStays
    <3>3. local[s].sum <= EverPaid(i) /\ local[s].sum \in Nat
      BY <3>1, <3>2 DEF MoneyInv, StageInv, TypeOK
    <3> QED
      BY <2>1, <3>1, <3>3
  <2> QED
    BY <2>2, <2>3
<1> QED
  BY <1>1, <1>2 DEF MoneyInv, NoPhantomMoney

\* The beginning of a call, and a step that changes nothing, leave the rows and
\* what other calls have read.
Quiet(r) ==
    /\ UNCHANGED <<invoiceRow, payments, allocations, local, mode>>
    /\ \A s \in Requests : \/ pc'[s] = pc[s] /\ call'[s] = call[s]
                           \/ s = r /\ pc[s] = "idle" /\ pc'[s] = "read"

\* A call that begins leaves the rows alone.
LEMMA BeginIsQuiet ==
    ASSUME StageInv, NEW r \in Requests, NEW c \in Calls[mode], Begin(r, c), mode' = mode
    PROVE  Quiet(r)
BY DEF Begin, Goto, Quiet, StageInv, TypeOK

\* A step that changes nothing leaves the rows alone.
LEMMA StutterIsQuiet ==
    ASSUME UNCHANGED vars, NEW r
    PROVE  Quiet(r)
BY DEF vars, Quiet

\* A step that leaves the rows alone shows no new money.
LEMMA QuietKeepsMoney ==
    ASSUME StageInv, MoneyInv, NEW r, Quiet(r)
    PROVE  MoneyInv'
<1>1. /\ amountPaid' = amountPaid /\ payments' = payments /\ local' = local
      /\ \A s \in Requests : \/ pc'[s] = pc[s] /\ call'[s] = call[s]
                             \/ s = r /\ pc[s] = "idle" /\ pc'[s] = "read"
  BY DEF Quiet, invoiceRow
<1>2. ASSUME NEW i \in Invoices PROVE EverPaid(i)' = EverPaid(i)
  BY <1>1 DEF EverPaid, PaidOn
<1>3. ASSUME NEW i \in Invoices PROVE amountPaid'[i] <= EverPaid(i)'
  BY <1>1, <1>2 DEF MoneyInv, NoPhantomMoney
<1>4. ASSUME NEW s \in Requests, NEW i \in Invoices, pc'[s] = "writeBack", Target(s)' = i
      PROVE  local'[s].sum <= EverPaid(i)'
  <2>1. pc[s] = "writeBack" /\ Target(s) = i
    BY <1>1, <1>4 DEF Target
  <2> QED
    BY <1>1, <1>2, <2>1 DEF MoneyInv
<1> QED
  BY <1>3, <1>4 DEF MoneyInv, NoPhantomMoney

\* At the start no invoice shows any money.
LEMMA InitMoney == Init => MoneyInv
<1> SUFFICES ASSUME Init PROVE MoneyInv
  OBVIOUS
<1>1. payments \in PaymentRows
  BY DEF Init, PaymentRows
<1>2. ASSUME NEW i \in Invoices PROVE amountPaid[i] <= EverPaid(i)
  <2>1. EverPaid(i) \in Nat
    BY <1>1, SumsOfPayments, WorthIsTyped
  <2> QED
    BY <2>1 DEF Init
<1>3. \A r \in Requests : pc[r] # "writeBack"
  BY DEF Init
<1> QED
  BY <1>2, <1>3 DEF MoneyInv, NoPhantomMoney

\* No step shows money that was never paid.
LEMMA NextKeepsMoney == StageInv /\ MoneyInv /\ [Next]_vars => MoneyInv'
BY StepKeepsMoney, BeginIsQuiet, StutterIsQuiet, QuietKeepsMoney DEF Next

\* However calls overlap or die, an invoice never shows more money than was
\* ever paid on it.
THEOREM NoMoneyFromNothing == Spec => []NoPhantomMoney
<1>1. MoneyInv => NoPhantomMoney
  BY DEF MoneyInv
<1> QED
  BY <1>1, InitStages, NextKeepsStage, InitMoney, NextKeepsMoney, PTL DEF Spec

-----------------------------------------------------------------------------
(* The fields of an invoice row belong together.                            *)

\* Where calls come one at a time nobody runs beside a call.
LEMMA Alone ==
    ASSUME StageInv, FieldInv, mode = "serial", NEW r \in Requests, Step(r)
    PROVE  \A s \in Requests \ {r} : pc[s] \notin Running /\ pc'[s] \notin Running
BY StepIsLocal DEF FieldInv, OneAtATime

\* A statement lets nobody in beside its call.
LEMMA StepKeepsTurns ==
    ASSUME StageInv, FieldInv, NEW r \in Requests, Step(r), mode' = mode
    PROVE  OneAtATime'
BY StepIsLocal DEF FieldInv, OneAtATime

\* An edit that takes place although edits come in turn has no other call
\* beside it.
LEMMA EditsAreSerial ==
    ASSUME StageInv, EditsInTurn, NEW r \in Requests, pc[r] \in Editing
    PROVE  mode = "serial"
<1>1. call[r].op = "edit" /\ call[r] \in Calls[mode]
  BY DEF StageInv, AtOps, Editing
<1> QED
  BY <1>1 DEF EditsInTurn

\* The fields of an invoice row change in the write-back and in an edit.
LEMMA FieldsChange ==
    ASSUME StageInv, NEW r \in Requests, Step(r), NEW i \in Invoices
    PROVE  \/ /\ grandTotal'[i] = grandTotal[i] /\ amountPaid'[i] = amountPaid[i]
              /\ balanceDue'[i] = balanceDue[i] /\ paymentStatus'[i] = paymentStatus[i]
           \/ /\ WriteBack(r) /\ i = Target(r) /\ grandTotal'[i] = grandTotal[i]
              /\ amountPaid'[i] = local[r].sum
              /\ balanceDue'[i] = Balance(local[r].total, local[r].sum)
              /\ paymentStatus'[i] = Standing(local[r].total, local[r].sum)
              /\ status'[i] = StatusAfter(Standing(local[r].total, local[r].sum), local[r].status)
           \/ /\ WriteTotals(r) /\ i = call[r].invoice /\ grandTotal'[i] = local[r].total
              /\ amountPaid'[i] = amountPaid[i] /\ paymentStatus'[i] = paymentStatus[i]
              /\ balanceDue'[i] = Balance(local[r].total, local[r].sum)
              /\ status'[i] = status[i]
<1>1. RowsTyped
  BY DEF StageInv, TypeOK, RowsTyped
<1>2. CASE WriteBack(r)
  BY <1>1, <1>2 DEF WriteBack, RowsTyped
<1>3. CASE WriteTotals(r)
  BY <1>1, <1>3 DEF WriteTotals, RowsTyped
<1>4. CASE ~WriteBack(r) /\ ~WriteTotals(r)
  BY <1>4 DEF Step, ReadForPayment, Dedupe, InsertPayment, InsertAllocation, ReadInvoiceRow,
     SumPayments, ReadPayment, ReadAllocations, MarkRefunded, FindAllocation,
     ReduceAllocation, ReadInvoice, SetStatus, DeleteLines, InsertLines, Recalculate,
     Fail, invoiceRow
<1> QED
  BY <1>2, <1>3, <1>4

\* What a call reads on its way to one of its two writes of an invoice row.
LEMMA ReadsFollow ==
    ASSUME StageInv, NEW r \in Requests, Step(r)
    PROVE  /\ pc'[r] = "sum" => /\ local'[r].total = grandTotal[Target(r)]
                                /\ local'[r].status = status[Target(r)]
                                /\ UNCHANGED <<grandTotal, status>>
           /\ pc'[r] = "writeBack" => /\ pc[r] = "sum" /\ local'[r].total = local[r].total
                                      /\ local'[r].status = local[r].status
                                      /\ local'[r].sum = CapturedSum(Target(r))
                                      /\ UNCHANGED <<grandTotal, status, payments>>
           /\ pc'[r] = "writeTotals" => /\ pc[r] = "recalculate"
                                        /\ local'[r].total = lines[call[r].invoice]
                                        /\ local'[r].sum = amountPaid[call[r].invoice]
                                        /\ UNCHANGED <<amountPaid, status>>
<1>1. local \in [Requests -> LocalType]
  BY DEF StageInv, TypeOK, LocalType
<1>2. CASE ReadInvoiceRow(r)
  BY <1>1, <1>2 DEF ReadInvoiceRow, Goto, StageInv, TypeOK, LocalType, invoiceRow
<1>3. CASE SumPayments(r)
  BY <1>1, <1>3 DEF SumPayments, Goto, StageInv, TypeOK, LocalType, invoiceRow
<1>4. CASE Recalculate(r)
  BY <1>1, <1>4 DEF Recalculate, Goto, StageInv, TypeOK, LocalType, invoiceRow
<1>5. CASE ~ReadInvoiceRow(r) /\ ~SumPayments(r) /\ ~Recalculate(r)
  BY <1>5 DEF Step, ReadForPayment, Dedupe, InsertPayment, InsertAllocation, WriteBack,
     ReadPayment, ReadAllocations, MarkRefunded, FindAllocation, ReduceAllocation,
     ReadInvoice, SetStatus, DeleteLines, InsertLines, WriteTotals, Fail, Goto, StageInv, TypeOK
<1> QED
  BY <1>2, <1>3, <1>4, <1>5

\* A statement keeps the fields of an invoice row together.
LEMMA StepKeepsFields ==
    ASSUME StageInv, FieldInv, NEW r \in Requests, Step(r), mode' = mode
    PROVE  FieldInv'
<1>1. OneAtATime'
  BY StepKeepsTurns
<1> SUFFICES ASSUME EditsInTurn
             PROVE  /\ \A i \in Invoices :
                          /\ balanceDue'[i] = Balance(grandTotal'[i], amountPaid'[i])
                          /\ mode = "overlapping" =>
                                paymentStatus'[i] = Standing(grandTotal'[i], amountPaid'[i])
                    /\ \A s \in Requests :
                          /\ pc'[s] \in {"sum", "writeBack"} =>
                                local'[s].total = grandTotal'[Target(s)']
                          /\ pc'[s] = "writeTotals" => local'[s].sum = amountPaid'[call[s].invoice]
  BY <1>1, StepIsLocal DEF FieldInv, EditsInTurn, Balance, Standing
<1>2. ASSUME NEW i \in Invoices
      PROVE  /\ balanceDue'[i] = Balance(grandTotal'[i], amountPaid'[i])
             /\ mode = "overlapping" => paymentStatus'[i] = Standing(grandTotal'[i], amountPaid'[i])
  <2>1. /\ balanceDue[i] = Balance(grandTotal[i], amountPaid[i])
        /\ mode = "overlapping" => paymentStatus[i] = Standing(grandTotal[i], amountPaid[i])
    BY DEF FieldInv
  <2>2. WriteBack(r) => local[r].total = grandTotal[Target(r)]
    BY DEF WriteBack, FieldInv
  <2>3. WriteTotals(r) => local[r].sum = amountPaid[call[r].invoice] /\ mode = "serial"
    BY EditsAreSerial DEF WriteTotals, FieldInv, Editing
  <2> QED
    BY <2>1, <2>2, <2>3, FieldsChange
<1>3. ASSUME NEW s \in Requests
      PROVE  /\ pc'[s] \in {"sum", "writeBack"} => local'[s].total = grandTotal'[Target(s)']
             /\ pc'[s] = "writeTotals" => local'[s].sum = amountPaid'[call[s].invoice]
  <2>1. CASE s = r
    <3>1. Target(r)' = Target(r)
      BY TargetStays, StepIsLocal DEF Running
    <3>2. pc[r] = "sum" => local[r].total = grandTotal[Target(r)]
      BY DEF FieldInv
    <3> QED
      BY <2>1, <3>1, <3>2, ReadsFollow
  <2>2. CASE s # r
    <3>1. pc'[s] = pc[s] /\ local'[s] = local[s]
      BY <2>2, StepIsLocal
    <3>2. CASE pc[s] \in {"sum", "writeBack"}
      <4>1. Target(s)' = Target(s) /\ Target(s) \in Invoices
        BY <3>2, TargetStays
      <4>2. local[s].total = grandTotal[Target(s)]
        BY <3>2 DEF FieldInv
      <4>3. ~WriteTotals(r)
        <5>1. mode = "serial" => pc[s] \notin Running
          BY <2>2, Alone
        <5> QED
          BY <3>2, <5>1, EditsAreSerial DEF WriteTotals, Editing, Running
      <4>4. grandTotal'[Target(s)] = grandTotal[Target(s)]
        BY <4>1, <4>3, FieldsChange
      <4> QED
        BY <3>1, <3>2, <4>1, <4>2, <4>4
    <3>3. CASE pc[s] = "writeTotals"
      <4>1. mode = "serial"
        BY <3>3, EditsAreSerial DEF Editing
      <4>2. pc[s] \notin Running
        BY <2>2, <4>1, Alone
      <4> QED
        BY <3>3, <4>2 DEF Running
    <3> QED
      BY <3>1, <3>2, <3>3
  <2> QED
    BY <2>1, <2>2
<1> QED
  BY <1>2, <1>3

\* A step that leaves the rows alone leaves the calls at their invoices.
LEMMA QuietKeepsTargets ==
    ASSUME StageInv, NEW r, Quiet(r), NEW s \in Requests, pc'[s] # "read"
    PROVE  pc'[s] = pc[s] /\ call'[s] = call[s] /\ local'[s] = local[s] /\ Target(s)' = Target(s)
<1>1. pc'[s] = pc[s] /\ call'[s] = call[s] /\ local'[s] = local[s] /\ payments' = payments
  BY DEF Quiet
<1> QED
  BY <1>1 DEF Target

\* A call begins only when, one at a time, none is running.
LEMMA BeginKeepsTurns ==
    ASSUME StageInv, OneAtATime, NEW r \in Requests, NEW c \in Calls[mode], Begin(r, c),
           mode' = mode
    PROVE  OneAtATime'
<1> SUFFICES ASSUME mode = "serial", NEW s \in Requests, NEW t \in Requests,
                    pc'[s] \in Running, pc'[t] \in Running
             PROVE  s = t
  BY DEF OneAtATime
<1>1. \A u \in Requests : pc[u] \notin Running
  BY DEF Begin
<1>2. \A u \in Requests \ {r} : pc'[u] = pc[u]
  BY DEF Begin, Goto, StageInv, TypeOK
<1> QED
  BY <1>1, <1>2

\* A step that leaves the rows alone tears no invoice row.
LEMMA QuietKeepsFields ==
    ASSUME StageInv, FieldInv, NEW r, Quiet(r), OneAtATime'
    PROVE  FieldInv'
<1> SUFFICES ASSUME EditsInTurn
             PROVE  /\ \A i \in Invoices :
                          /\ balanceDue'[i] = Balance(grandTotal'[i], amountPaid'[i])
                          /\ mode = "overlapping" =>
                                paymentStatus'[i] = Standing(grandTotal'[i], amountPaid'[i])
                    /\ \A s \in Requests :
                          /\ pc'[s] \in {"sum", "writeBack"} =>
                                local'[s].total = grandTotal'[Target(s)']
                          /\ pc'[s] = "writeTotals" =>
                                local'[s].sum = amountPaid'[call'[s].invoice]
  BY DEF Quiet, FieldInv, EditsInTurn, Balance, Standing
<1>1. UNCHANGED <<grandTotal, amountPaid, balanceDue, paymentStatus>>
  BY DEF Quiet, invoiceRow
<1>2. ASSUME NEW i \in Invoices
      PROVE  /\ balanceDue'[i] = Balance(grandTotal'[i], amountPaid'[i])
             /\ mode = "overlapping" =>
                   paymentStatus'[i] = Standing(grandTotal'[i], amountPaid'[i])
  BY <1>1 DEF FieldInv
<1>3. ASSUME NEW s \in Requests, pc'[s] \in {"sum", "writeBack", "writeTotals"}
      PROVE  /\ pc'[s] \in {"sum", "writeBack"} => local'[s].total = grandTotal'[Target(s)']
             /\ pc'[s] = "writeTotals" => local'[s].sum = amountPaid'[call'[s].invoice]
  <2>1. pc'[s] = pc[s] /\ call'[s] = call[s] /\ local'[s] = local[s] /\ Target(s)' = Target(s)
    BY <1>3, QuietKeepsTargets
  <2> QED
    BY <1>1, <1>3, <2>1 DEF FieldInv
<1> QED
  BY <1>2, <1>3

\* At the start every invoice row is whole.
LEMMA InitFields == Init => FieldInv
<1> SUFFICES ASSUME Init PROVE FieldInv
  OBVIOUS
<1>1. ASSUME NEW i \in Invoices
      PROVE  /\ balanceDue[i] = Balance(grandTotal[i], amountPaid[i])
             /\ paymentStatus[i] = Standing(grandTotal[i], amountPaid[i])
  BY PriceAssumption DEF Init, Balance, Standing
<1>2. \A r \in Requests : pc[r] = "idle"
  BY DEF Init
<1> QED
  BY <1>1, <1>2 DEF FieldInv, OneAtATime, Running

\* No step tears an invoice row, where edits come in turn.
LEMMA NextKeepsFields == StageInv /\ FieldInv /\ [Next]_vars => FieldInv'
<1> SUFFICES ASSUME StageInv, FieldInv, [Next]_vars PROVE FieldInv'
  OBVIOUS
<1>1. ASSUME mode' = mode, NEW r \in Requests, NEW c \in Calls[mode], Begin(r, c) PROVE FieldInv'
  BY <1>1, BeginKeepsTurns, BeginIsQuiet, QuietKeepsFields DEF FieldInv
<1>2. ASSUME mode' = mode, NEW r \in Requests, Step(r) PROVE FieldInv'
  BY <1>2, StepKeepsFields
<1>3. CASE UNCHANGED vars
  <2>1. OneAtATime'
    BY <1>3 DEF vars, FieldInv, OneAtATime
  <2>2. PICK r : TRUE
    OBVIOUS
  <2> QED
    BY <1>3, <2>1, StutterIsQuiet, QuietKeepsFields
<1> QED
  BY <1>1, <1>2, <1>3 DEF Next

\* An invoice row is never torn, where no edit overlaps another call.
THEOREM RowsStayWhole ==
    ASSUME \A m \in Modes \ {"serial"} : \A c \in Calls[m] : c.op # "edit"
    PROVE  Spec => []NeverTorn
<1>1. StageInv /\ MoneyInv /\ FieldInv => NeverTorn
  <2> SUFFICES ASSUME StageInv, MoneyInv, FieldInv PROVE FieldsAgree
    BY DEF NeverTorn, StageInv, MoneyInv
  <2>1. EditsInTurn
    BY DEF EditsInTurn, StageInv, TypeOK
  <2>2. ASSUME NEW i \in Invoices
        PROVE  /\ balanceDue[i] = Max({0, grandTotal[i] - amountPaid[i]})
               /\ mode = "overlapping" =>
                    paymentStatus[i] = IF amountPaid[i] >= grandTotal[i] THEN "PAID"
                                       ELSE IF amountPaid[i] > 0 THEN "PARTIALLY_PAID"
                                       ELSE "UNPAID"
    <3>1. grandTotal[i] \in Nat /\ amountPaid[i] \in Nat
      BY DEF StageInv, TypeOK
    <3>2. Balance(grandTotal[i], amountPaid[i]) = Max({0, grandTotal[i] - amountPaid[i]})
      BY <3>1, BalanceIsTyped
    <3> QED
      BY <2>1, <3>2 DEF FieldInv, Standing
  <2> QED
    BY <2>2 DEF FieldsAgree
<1> QED
  BY <1>1, InitStages, NextKeepsStage, InitMoney, NextKeepsMoney, InitFields, NextKeepsFields,
     PTL DEF Spec
-----------------------------------------------------------------------------
(* One call at a time: what is checked still holds when it is acted on.     *)

\* A step inserts the payment of its own call or refunds the one it names.
LEMMA PaymentRowChanges ==
    ASSUME StageInv, NEW r \in Requests, Step(r), NEW p \in Requests
    PROVE  \/ payments'[p] = payments[p]
           \/ /\ InsertPayment(r) /\ p = r /\ payments[p] = NoPayment
              /\ payments'[p] = NewPayment(r) /\ NewPayment(r) \in Payment
           \/ /\ MarkRefunded(r) /\ p = call[r].payment /\ payments[p] # NoPayment
              /\ payments'[p] # NoPayment /\ payments'[p].status = "REFUNDED"
              /\ payments'[p].invoice = payments[p].invoice
              /\ payments'[p].amount = payments[p].amount /\ payments'[p].txn = payments[p].txn
<1>1. payments \in PaymentRows /\ \A q \in Requests : payments[q] # NoPayment => payments[q] \in Payment
  BY DEF StageInv, TypeOK, PaymentRows
<1>2. CASE UNCHANGED payments
  BY <1>2
<1>3. CASE /\ InsertPayment(r) /\ payments[r] = NoPayment /\ NewPayment(r) \in Payment
           /\ payments' = [payments EXCEPT ![r] = NewPayment(r)]
  <2> HIDE DEF NewPayment
  <2> QED
    BY <1>1, <1>3 DEF PaymentRows
<1>4. CASE /\ MarkRefunded(r) /\ call[r].payment \in Requests
           /\ payments[call[r].payment] # NoPayment
           /\ payments' = [payments EXCEPT ![call[r].payment].status = "REFUNDED"]
  <2>1. CASE p = call[r].payment
    <3>1. payments[p] \in Payment /\ payments'[p] = [payments[p] EXCEPT !.status = "REFUNDED"]
      BY <1>1, <1>4, <2>1 DEF PaymentRows
    <3> QED
      BY <1>4, <2>1, <3>1 DEF Payment, NoPayment
  <2>2. CASE p # call[r].payment
    BY <1>1, <1>4, <2>2 DEF PaymentRows
  <2> QED
    BY <2>1, <2>2
<1> QED
  BY <1>2, <1>3, <1>4, PaymentsChange

\* A payment that is not there has nothing allocated.
LEMMA NothingAllocated ==
    ASSUME StageInv, NEW p, payments[p] = NoPayment
    PROVE  AllocatedSum(p) = 0
<1>1. Of(allocations, p) = {}
  BY DEF StageInv, Of
<1> QED
  BY <1>1, SumEmpty, SumsOfAllocations, AllocatedIsSum DEF StageInv, TypeOK

\* A negative allocation of a payment is cleared.
Cleared(p) ==
    \E k \in AllocationsOf(p) : allocations[k].amount < 0 /\ allocations'[k].amount = 0

\* What a step does to what is allocated of a payment.
LEMMA AllocatedChanges ==
    ASSUME StageInv, NEW r \in Requests, Step(r), NEW p
    PROVE  /\ AllocatedSum(p) \in Int /\ AllocatedSum(p)' \in Int
           /\ \/ AllocatedSum(p)' = AllocatedSum(p)
              \/ /\ InsertAllocation(r) /\ p = Funded(r)
                 /\ AllocatedSum(p)' = AllocatedSum(p) + call[r].amount
              \/ /\ ReduceAllocation(r) /\ p = call[r].payment
                 /\ local[r].held = allocations[local[r].index].amount =>
                       AllocatedSum(p)' <= AllocatedSum(p) \/ Cleared(p)
<1>1. allocations \in Seq(Allocation) /\ allocations' \in Seq(Allocation)
  BY AllocationsChange DEF StageInv, TypeOK
<1>2. PICK al \in Seq(Allocation), bl \in Seq(Allocation) : al = allocations /\ bl = allocations'
  BY <1>1
<1>3. /\ AllocatedSum(p) = Allocated(al, p) /\ AllocatedSum(p)' = Allocated(bl, p)
      /\ Allocated(al, p) \in Int /\ Allocated(bl, p) \in Int
  BY <1>2, SumsOfAllocations, AllocatedIsSum
<1>4. CASE UNCHANGED allocations
  BY <1>2, <1>3, <1>4
<1>5. CASE /\ InsertAllocation(r) /\ NewAllocation(r) \in Allocation
           /\ allocations' = Append(allocations, NewAllocation(r))
  <2>1. PICK a \in Allocation : a = NewAllocation(r)
    BY <1>5
  <2>2. a.payment = Funded(r) /\ a.amount = call[r].amount
    BY <2>1 DEF NewAllocation
  <2>3. bl = Extended(al, a)
    BY <1>2, <1>5, <2>1 DEF Extended
  <2>4. Allocated(bl, p) = Allocated(al, p) + (IF p = a.payment THEN a.amount ELSE 0)
    BY <2>3, AllocationAdded
  <2> QED
    BY <1>3, <1>5, <2>2, <2>4
<1>6. CASE /\ ReduceAllocation(r) /\ local[r].index \in DOMAIN allocations
           /\ allocations[local[r].index].payment = call[r].payment
           /\ Reduced(r) \in Nat
           /\ Reduced(r) <= local[r].held \/ (local[r].held < 0 /\ Reduced(r) = 0)
           /\ allocations' = [allocations EXCEPT ![local[r].index].amount = Reduced(r)]
  <2>1. PICK k \in DOMAIN al, n \in Nat : k = local[r].index /\ n = Reduced(r)
    BY <1>2, <1>6
  <2>2. bl = Cut(al, k, n)
    BY <1>2, <1>6, <2>1 DEF Cut
  <2>6. bl[k].amount = n
    <3>1. CutTo(bl, al, k, n)
      BY <2>2, AllocationCut
    <3> QED
      BY <3>1 DEF CutTo
  <2>3. /\ p # al[k].payment => Allocated(bl, p) = Allocated(al, p)
        /\ n <= al[k].amount => Allocated(bl, p) <= Allocated(al, p)
    BY <2>2, AllocationReduced
  <2>4. CASE p # al[k].payment
    BY <1>3, <2>3, <2>4
  <2>5. CASE p = al[k].payment
    <3>1. ReduceAllocation(r) /\ p = call[r].payment
      BY <1>2, <1>6, <2>1, <2>5
    <3>2. ASSUME local[r].held = al[k].amount
          PROVE  Allocated(bl, p) <= Allocated(al, p) \/ Cleared(p)
      <4>1. CASE n <= al[k].amount
        BY <2>3, <4>1
      <4>2. CASE al[k].amount < 0 /\ n = 0
        BY <1>2, <2>5, <2>6, <4>2 DEF Cleared, AllocationsOf
      <4> QED
        BY <1>6, <2>1, <3>2, <4>1, <4>2
    <3> QED
      BY <1>2, <1>3, <2>1, <3>1, <3>2
  <2> QED
    BY <2>4, <2>5
<1> QED
  BY <1>1, <1>4, <1>5, <1>6, AllocationsChange

\* What a call has just checked.
LEMMA ChecksFollow ==
    ASSUME StageInv, TurnInv, mode = "serial", NEW r \in Requests, Step(r)
    PROVE  Checked(r)'
<1>1. /\ pc \in [Requests -> {"idle"} \cup Running \cup Over] /\ call' = call
      /\ local \in [Requests -> LocalType] /\ Checked(r) /\ AtOps(r) /\ pc[r] # "idle"
      /\ call[r].op \in Ops
  BY StepIsLocal, CallIsTyped DEF StageInv, TypeOK, LocalType, TurnInv, Running
<1>2. \A l : Goto(r, l) => pc'[r] = l
  BY <1>1 DEF Goto
<1>3. pc'[r] \in {"dedupe", "insertPayment"} => status'[call'[r].invoice] # "VOID"
  BY <1>1, <1>2 DEF Step, ReadForPayment, Dedupe, InsertPayment, InsertAllocation,
     ReadInvoiceRow, SumPayments, WriteBack, ReadPayment, ReadAllocations, MarkRefunded,
     FindAllocation, ReduceAllocation, ReadInvoice, SetStatus, DeleteLines, InsertLines,
     Recalculate, WriteTotals, Fail, Checked, Payable, invoiceRow
<1>4. pc'[r] = "insertPayment" /\ call'[r].op = "gateway" => ~Duplicate(r)'
  BY <1>1, <1>2 DEF Step, ReadForPayment, Dedupe, InsertPayment, InsertAllocation,
     ReadInvoiceRow, SumPayments, WriteBack, ReadPayment, ReadAllocations, MarkRefunded,
     FindAllocation, ReduceAllocation, ReadInvoice, SetStatus, DeleteLines, InsertLines,
     Recalculate, WriteTotals, Fail, Duplicate
<1>5. ASSUME pc'[r] = "insertAllocation", NEW p \in Requests, Funded(r)' = p
      PROVE  Captured(p)' /\ AllocatedSum(p)' + call'[r].amount <= payments'[p].amount
  <2>1. InsertPayment(r) \/ ReadAllocations(r)
    BY <1>1, <1>2, <1>5 DEF Step, ReadForPayment, Dedupe, InsertAllocation,
       ReadInvoiceRow, SumPayments, WriteBack, ReadPayment, MarkRefunded,
       FindAllocation, ReduceAllocation, ReadInvoice, SetStatus, DeleteLines, InsertLines,
       Recalculate, WriteTotals, Fail
  <2>2. /\ AllocatedSum(p)' = AllocatedSum(p) /\ AllocatedSum(p) \in Int
        /\ call[r].amount \in Int /\ Funded(r) = p
    <3>1. allocations' = allocations
      BY <2>1 DEF InsertPayment, ReadAllocations
    <3>2. AllocatedSum(p)' = AllocatedSum(p)
      BY <3>1 DEF AllocatedSum, AllocationsOf
    <3> QED
      BY <1>1, <1>5, <3>2, AllocatedChanges, CallIsTyped DEF Funded
  <2>3. CASE InsertPayment(r)
    <3>1. p = r
      BY <1>1, <2>2, <2>3 DEF InsertPayment, AtOps, Funded, Pays
    <3>2. /\ payments[r] = NoPayment /\ payments'[r].amount = call[r].amount
          /\ payments'[r].status = "CAPTURED"
      BY <2>3 DEF InsertPayment, StageInv, AtRows, TypeOK
    <3> QED
      BY <1>1, <2>2, <3>1, <3>2, NothingAllocated DEF Captured
  <2>4. CASE ReadAllocations(r)
    <3>1. p = call[r].payment
      BY <1>1, <2>2, <2>4 DEF ReadAllocations, AtOps, Funded
    <3>2. payments[p].amount \in Nat
      BY <1>1, <2>4, <3>1, CallIsTyped DEF ReadAllocations, AtOps, Payment
    <3>3. ~(call[r].amount > payments[p].amount - AllocatedSum(p)) /\ payments' = payments
      <4>1. /\ Goto(r, IF call[r].amount > Unallocated(p) THEN "rejected"
                       ELSE "insertAllocation")
            /\ payments' = payments
        BY <2>4, <3>1 DEF ReadAllocations
      <4>2. call[r].amount > Unallocated(p) => Goto(r, "rejected")
        BY <4>1
      <4> QED
        BY <1>2, <1>5, <4>1, <4>2 DEF Unallocated
    <3>4. Captured(p)
      BY <1>1, <2>4, <3>1 DEF ReadAllocations, Checked
    <3> QED
      BY <1>1, <2>2, <3>2, <3>3, <3>4 DEF Captured
  <2> QED
    BY <2>1, <2>3, <2>4
<1>6. pc'[r] = "reduceAllocation" => local'[r].held = allocations'[local'[r].index].amount
  <2> SUFFICES ASSUME pc'[r] = "reduceAllocation"
               PROVE  local'[r].held = allocations'[local'[r].index].amount
    OBVIOUS
  <2>1. FindAllocation(r)
    BY <1>1, <1>2 DEF Step, ReadForPayment, Dedupe, InsertPayment, InsertAllocation,
       ReadInvoiceRow, SumPayments, WriteBack, ReadPayment, ReadAllocations, MarkRefunded,
       ReduceAllocation, ReadInvoice, SetStatus, DeleteLines, InsertLines,
       Recalculate, WriteTotals, Fail
  <2>2. PICK k \in AllocationsOf(call[r].payment) :
           local' = [local EXCEPT ![r].index = k, ![r].held = allocations[k].amount]
    BY <1>2, <2>1 DEF FindAllocation
  <2>3. local'[r].index = k /\ local'[r].held = allocations[k].amount
    BY <1>1, <2>2 DEF LocalType
  <2> QED
    BY <2>1, <2>3 DEF FindAllocation
<1>7. \A p \in Requests : pc'[r] = "insertAllocation" /\ Funded(r)' = p =>
         Captured(p)' /\ AllocatedSum(p)' + call'[r].amount <= payments'[p].amount
  BY <1>5
<1>8. pc'[r] = "readAllocations" => Captured(call[r].payment)'
  <2> SUFFICES ASSUME pc'[r] = "readAllocations" PROVE Captured(call[r].payment)'
    OBVIOUS
  <2>1. ReadPayment(r)
    BY <1>1, <1>2 DEF Step, ReadForPayment, Dedupe, InsertPayment, InsertAllocation,
       ReadInvoiceRow, SumPayments, WriteBack, ReadAllocations, MarkRefunded, FindAllocation,
       ReduceAllocation, ReadInvoice, SetStatus, DeleteLines, InsertLines,
       Recalculate, WriteTotals, Fail
  <2> QED
    BY <1>1, <1>2, <2>1 DEF ReadPayment, Captured
<1>9. pc'[r] \in {"findAllocation", "reduceAllocation"} => ~Captured(call[r].payment)'
  <2> SUFFICES ASSUME pc'[r] \in {"findAllocation", "reduceAllocation"}
               PROVE  ~Captured(call[r].payment)'
    OBVIOUS
  <2>1. MarkRefunded(r) \/ FindAllocation(r)
    BY <1>1, <1>2 DEF Step, ReadForPayment, Dedupe, InsertPayment, InsertAllocation,
       ReadInvoiceRow, SumPayments, WriteBack, ReadPayment, ReadAllocations,
       ReduceAllocation, ReadInvoice, SetStatus, DeleteLines, InsertLines,
       Recalculate, WriteTotals, Fail
  <2>2. CASE FindAllocation(r)
    BY <1>1, <2>2 DEF FindAllocation, Checked, Captured
  <2>3. CASE MarkRefunded(r)
    <3>1. call[r].payment \in Requests /\ payments[call[r].payment] \in Payment
      BY <1>1, <2>3, CallIsTyped DEF MarkRefunded, AtOps, Refunding
    <3>2. payments'[call[r].payment] = [payments[call[r].payment] EXCEPT !.status = "REFUNDED"]
      BY <2>3, <3>1 DEF MarkRefunded, StageInv, TypeOK
    <3> QED
      BY <1>1, <3>1, <3>2 DEF Captured, Payment
  <2> QED
    BY <2>1, <2>2, <2>3
<1> QED
  BY <1>1, <1>3, <1>4, <1>6, <1>7, <1>8, <1>9 DEF Checked

\* A statement allocates no more than the payment has left.
LEMMA StepKeepsCovered ==
    ASSUME StageInv, TurnInv, mode = "serial", NEW r \in Requests, Step(r)
    PROVE  AllocationCovered'
<1> SUFFICES ASSUME NEW p \in Requests, payments'[p].status = "CAPTURED"
             PROVE  AllocatedSum(p)' <= payments'[p].amount
  BY DEF AllocationCovered, Captured
<1>1. /\ AllocatedSum(p) \in Int /\ AllocatedSum(p)' \in Int
      /\ payments[p] # NoPayment =>
            /\ payments[p].status = "CAPTURED" => AllocatedSum(p) <= payments[p].amount
            /\ payments[p].amount \in Nat
            /\ payments'[p].amount = payments[p].amount
  <2>1. payments[p] # NoPayment => payments[p] \in Payment
    BY DEF StageInv, TypeOK
  <2> QED
    BY <2>1, AllocatedChanges, PaymentsStay DEF TurnInv, AllocationCovered, Captured, Payment
<1>2. /\ Checked(r) /\ call[r].amount \in Int
      /\ InsertPayment(r) => call[r].amount > 0
      /\ InsertAllocation(r) => Funded(r) \in Requests /\ payments[Funded(r)] # NoPayment
                                /\ UNCHANGED payments /\ pc[r] = "insertAllocation"
  <2>1. /\ pc[r] # "idle" /\ call[r].op \in Ops /\ call[r].amount \in Int
        /\ InsertPayment(r) => call[r].amount > 0
    BY StepIsLocal, CallIsTyped DEF Running, InsertPayment, StageInv, AtOps
  <2>2. ASSUME InsertAllocation(r) PROVE Funded(r) \in Requests /\ payments[Funded(r)] # NoPayment
    BY <2>1, <2>2, CallIsTyped DEF InsertAllocation, StageInv, AtOps, AtRows, Funded, Pays
  <2> QED
    BY <2>1, <2>2 DEF TurnInv, InsertAllocation
<1>3. CASE payments[p] = NoPayment
  <2>1. AllocatedSum(p) = 0
    BY <1>3, NothingAllocated
  <2>2. InsertPayment(r) /\ payments'[p].amount = call[r].amount
    <3>1. NewPayment(r).amount = call[r].amount
      BY DEF NewPayment
    <3> QED
      BY <1>3, <3>1, PaymentRowChanges DEF NoPayment
  <2>3. AllocatedSum(p)' = AllocatedSum(p)
    BY <2>2 DEF InsertPayment, AllocatedSum, AllocationsOf
  <2> QED
    BY <1>2, <2>1, <2>2, <2>3
<1>4. CASE payments[p] # NoPayment
  <2>4. payments[p].status = "CAPTURED"
    BY <1>4, PaymentRowChanges
  <2>1. CASE AllocatedSum(p)' = AllocatedSum(p)
    BY <1>1, <1>4, <2>1, <2>4
  <2>2. CASE /\ InsertAllocation(r) /\ p = Funded(r)
             /\ AllocatedSum(p)' = AllocatedSum(p) + call[r].amount
    <3>1. AllocatedSum(p) + call[r].amount <= payments[p].amount
      BY <1>2, <2>2 DEF Checked
    <3> QED
      BY <1>1, <1>4, <2>2, <3>1
  <2>3. CASE ReduceAllocation(r) /\ p = call[r].payment
    BY <1>2, <2>3, <2>4 DEF Checked, ReduceAllocation, Captured
  <2> QED
    BY <2>1, <2>2, <2>3, AllocatedChanges
<1> QED
  BY <1>3, <1>4

\* A statement captures no transaction a second time.
LEMMA StepKeepsPaidOnce ==
    ASSUME StageInv, TurnInv, mode = "serial", NEW r \in Requests, Step(r)
    PROVE  GatewayPaidOnce'
<1> SUFFICES ASSUME NEW p \in Requests, NEW q \in Requests, p # q,
                    call'[p].op = "gateway", call'[q].op = "gateway",
                    payments'[p] # NoPayment, payments'[q] # NoPayment
             PROVE  payments'[p].txn # payments'[q].txn
  BY DEF GatewayPaidOnce
<1>1. call' = call /\ GatewayPaidOnce /\ Checked(r)
  BY StepIsLocal DEF TurnInv
<1>2. ASSUME NEW u \in Requests, payments'[u] # NoPayment
      PROVE  \/ payments[u] # NoPayment /\ payments'[u].txn = payments[u].txn
             \/ InsertPayment(r) /\ u = r /\ payments'[u].txn = call[r].txn
  <2>1. NewPayment(r).txn = call[r].txn
    BY DEF NewPayment
  <2> QED
    BY <1>2, <2>1, PaymentRowChanges
<1>3. ASSUME InsertPayment(r), NEW u \in Requests, payments[u] # NoPayment,
             call[r].op = "gateway"
      PROVE  payments[u].txn # call[r].txn
  BY <1>1, <1>3 DEF InsertPayment, Checked, Duplicate
<1> QED
  BY <1>1, <1>2, <1>3 DEF GatewayPaidOnce

\* A statement keeps what the running call has checked.
LEMMA StepKeepsTurn ==
    ASSUME StageInv, FieldInv, TurnInv, NEW r \in Requests, Step(r), mode' = mode
    PROVE  TurnInv'
<1> SUFFICES ASSUME mode = "serial" PROVE (\A s \in Requests : Checked(s)')
                                          /\ AllocationCovered' /\ GatewayPaidOnce'
  BY DEF TurnInv
<1>1. ASSUME NEW s \in Requests \ {r} PROVE Checked(s)'
  <2>1. pc'[s] \notin Running
    BY Alone
  <2> QED
    BY <2>1 DEF Checked, Running
<1> QED
  BY <1>1, ChecksFollow, StepKeepsCovered, StepKeepsPaidOnce

\* A step that leaves the rows alone leaves the checks valid.
LEMMA QuietKeepsTurn ==
    ASSUME StageInv, StageInv', TurnInv, NEW r, Quiet(r)
    PROVE  TurnInv'
<1> SUFFICES ASSUME mode = "serial" PROVE (\A s \in Requests : Checked(s)')
                                          /\ AllocationCovered' /\ GatewayPaidOnce'
  BY DEF TurnInv, Quiet
<1>1. /\ payments' = payments /\ allocations' = allocations /\ status' = status
      /\ \A s \in Requests : \/ pc'[s] = pc[s] /\ call'[s] = call[s]
                             \/ s = r /\ pc[s] = "idle" /\ pc'[s] = "read"
  BY DEF Quiet, invoiceRow
<1>2. ASSUME NEW p PROVE AllocatedSum(p)' = AllocatedSum(p)
  BY <1>1 DEF AllocatedSum, AllocationsOf
<1>3. AllocationCovered'
  BY <1>1, <1>2 DEF TurnInv, AllocationCovered, Captured
<1>4. GatewayPaidOnce'
  <2>1. ASSUME NEW s \in Requests, payments'[s] # NoPayment PROVE call'[s] = call[s]
    BY <1>1, <2>1 DEF StageInv, AtRows
  <2> QED
    BY <1>1, <2>1 DEF TurnInv, GatewayPaidOnce
<1>5. ASSUME NEW s \in Requests PROVE Checked(s)'
  <2>1. CASE pc'[s] = "read"
    BY <2>1 DEF Checked
  <2>2. CASE pc'[s] # "read"
    <3>1. pc'[s] = pc[s] /\ call'[s] = call[s] /\ local'[s] = local[s] /\ Checked(s)
      BY <2>2, QuietKeepsTargets DEF TurnInv
    <3>2. Duplicate(s)' = Duplicate(s) /\ Funded(s)' = Funded(s)
      BY <1>1, <3>1 DEF Duplicate, Funded
    <3>3. ASSUME pc[s] = "insertAllocation", NEW p \in Requests, Funded(s) = p
          PROVE  Captured(p) /\ AllocatedSum(p)' + call[s].amount <= payments[p].amount
      BY <1>2, <3>1, <3>3 DEF Checked
    <3> QED
      BY <1>1, <3>1, <3>2, <3>3 DEF Checked, Captured
  <2> QED
    BY <2>1, <2>2
<1> QED
  BY <1>3, <1>4, <1>5

\* At the start nothing is allocated or captured.
LEMMA InitTurn == Init => TurnInv
<1> SUFFICES ASSUME Init PROVE TurnInv
  OBVIOUS
<1>1. \A r \in Requests : pc[r] = "idle" /\ payments[r] = NoPayment
  BY DEF Init
<1> QED
  BY <1>1 DEF TurnInv, Checked, AllocationCovered, Captured, NoPayment, GatewayPaidOnce

\* No step invalidates a check, where calls come one at a time.
LEMMA NextKeepsTurn == StageInv /\ StageInv' /\ FieldInv /\ TurnInv /\ [Next]_vars => TurnInv'
BY StepKeepsTurn, BeginIsQuiet, StutterIsQuiet, QuietKeepsTurn DEF Next

\* What no step may do to the payments where calls come one at a time.
TakesOnce ==
    mode = "serial" =>
        /\ AllocationCovered' /\ OthersStayAllocated /\ GatewayPaidOnce'
        /\ \A i \in Invoices : status[i] = "VOID" => PaidBy(i)' \subseteq PaidBy(i)

\* No statement captures a payment for a void invoice.
LEMMA VoidTakesNothing ==
    ASSUME StageInv, TurnInv, mode = "serial", NEW r \in Requests, Step(r),
           NEW i \in Invoices, status[i] = "VOID"
    PROVE  PaidBy(i)' \subseteq PaidBy(i)
<1> SUFFICES ASSUME NEW p \in Requests, payments'[p].status = "CAPTURED",
                    payments'[p].invoice = i
             PROVE  payments[p].status = "CAPTURED" /\ payments[p].invoice = i
  BY DEF PaidBy, Captured
<1>1. ~(InsertPayment(r) /\ p = r /\ payments'[p] = NewPayment(r))
  <2>1. InsertPayment(r) => status[call[r].invoice] # "VOID"
    BY DEF InsertPayment, TurnInv, Checked
  <2> QED
    BY <2>1 DEF NewPayment
<1> QED
  BY <1>1, PaymentRowChanges

\* No statement allocates of a payment that is not captured, save that its
\* refund clears a negative allocation.
LEMMA StepLeavesOthers ==
    ASSUME StageInv, TurnInv, mode = "serial", NEW r \in Requests, Step(r)
    PROVE  OthersStayAllocated
<1> SUFFICES ASSUME NEW p \in Requests, ~Captured(p)
             PROVE  AllocatedSum(p)' <= AllocatedSum(p) \/ Cleared(p)
  BY DEF OthersStayAllocated, Cleared
<1>1. Checked(r)
  BY DEF TurnInv
<1>2. ~(InsertAllocation(r) /\ p = Funded(r))
  BY <1>1 DEF InsertAllocation, Checked
<1>3. ReduceAllocation(r) => local[r].held = allocations[local[r].index].amount
  BY <1>1 DEF ReduceAllocation, Checked
<1> QED
  BY <1>2, <1>3, AllocatedChanges

\* No step takes money twice.
LEMMA NextTakesOnce == StageInv /\ TurnInv /\ TurnInv' /\ [Next]_vars => TakesOnce
<1> SUFFICES ASSUME StageInv, TurnInv, TurnInv', [Next]_vars, mode = "serial"
             PROVE  TakesOnce
  BY DEF TakesOnce
<1>1. mode' = mode
  BY DEF Next, vars
<1>2. AllocationCovered' /\ GatewayPaidOnce'
  BY <1>1 DEF TurnInv
<1>3. ASSUME NEW i \in Invoices, status[i] = "VOID" PROVE PaidBy(i)' \subseteq PaidBy(i)
  <2>1. CASE UNCHANGED payments
    BY <2>1 DEF PaidBy, Captured
  <2> QED
    BY <1>3, <2>1, VoidTakesNothing DEF Next, Begin, vars
<1>4. OthersStayAllocated
  <2>1. CASE UNCHANGED allocations
    <3>1. ASSUME NEW p PROVE AllocatedSum(p)' = AllocatedSum(p) /\ AllocatedSum(p) \in Int
      <4>1. AllocatedSum(p)' = AllocatedSum(p)
        BY <2>1 DEF AllocatedSum, AllocationsOf
      <4> QED
        BY <4>1, SumsOfAllocations, AllocatedIsSum DEF StageInv, TypeOK
    <3> QED
      BY <3>1 DEF OthersStayAllocated
  <2> QED
    BY <2>1, StepLeavesOthers DEF Next, Begin, vars
<1> QED
  BY <1>2, <1>3, <1>4 DEF TakesOnce

\* One after the other, and whatever statement they die at, the calls allocate
\* no more than a captured payment and nothing of a refunded one, save that its
\* refund clears a negative allocation; they capture a gateway's transaction
\* once, and nothing for an invoice that is void.
THEOREM MoneyIsTakenOnce == Spec => MoneyTakenOnce
<1>1. Spec => [][TakesOnce]_vars
  BY InitStages, NextKeepsStage, InitFields, NextKeepsFields, InitTurn, NextKeepsTurn,
     NextTakesOnce, PTL DEF Spec
<1> QED
  BY <1>1 DEF MoneyTakenOnce, TakesOnce
-----------------------------------------------------------------------------
(* One call at a time and none failing: an invoice tells what was paid.     *)

\* The status of an invoice changes in the write-back and in send and void.
LEMMA StatusChanges ==
    ASSUME StageInv, NEW r \in Requests, Step(r), NEW i \in Invoices
    PROVE  \/ status'[i] = status[i]
           \/ WriteBack(r) /\ i = Target(r)
           \/ /\ SetStatus(r) /\ i = call[r].invoice
              /\ status'[i] = IF call[r].op = "send" THEN "SENT" ELSE "VOID"
<1>1. status \in [Invoices -> Status]
  BY DEF StageInv, TypeOK
<1>2. CASE WriteBack(r)
  BY <1>1, <1>2 DEF WriteBack
<1>3. CASE SetStatus(r)
  BY <1>1, <1>3 DEF SetStatus
<1>4. CASE ~WriteBack(r) /\ ~SetStatus(r)
  BY <1>4 DEF Step, ReadForPayment, Dedupe, InsertPayment, InsertAllocation, ReadInvoiceRow,
     SumPayments, ReadPayment, ReadAllocations, MarkRefunded, FindAllocation,
     ReduceAllocation, ReadInvoice, DeleteLines, InsertLines, Recalculate, WriteTotals,
     Fail, invoiceRow
<1> QED
  BY <1>2, <1>3, <1>4

\* What the invariant says of the one call that runs.
Current(r) ==
    /\ Step(r) /\ ~Fail(r) /\ NoneFailed /\ Recorded(r) /\ pc[r] \in Running /\ call' = call
    /\ \A s \in Requests \ {r} : pc'[s] \notin Running
    /\ \A i \in Invoices :
          /\ Accurate(i) \/ (Unsettled(r) /\ Target(r) = i)
          /\ CapturedSum(i) <= grandTotal[i] /\ grandTotal[i] > 0
          /\ lines[i] > 0 \/ (pc[r] = "insertLines" /\ call[r].invoice = i)

\* The call that makes a step is the only one that may have read anything.
LEMMA OneIsCurrent ==
    ASSUME StageInv, FieldInv, RecordInv, mode = "serial", NoneFailed', NEW r \in Requests, Step(r)
    PROVE  Current(r)
<1>1. /\ pc[r] \in Running /\ call' = call
      /\ \A s \in Requests \ {r} : pc[s] \notin Running /\ pc'[s] \notin Running /\ pc'[s] = pc[s]
  BY StepIsLocal, Alone
<1>2. NoneFailed
  BY <1>1 DEF NoneFailed, Running
<1>3. ~Fail(r)
  BY DEF Fail, Goto, NoneFailed, StageInv, TypeOK
<1>4. \A s \in Requests : Unsettled(s) \/ pc[s] = "insertLines" => s = r
  BY <1>1 DEF Unsettled, Reconciling, Running
<1>5. /\ Recorded(r)
      /\ \A i \in Invoices :
            /\ Accurate(i) \/ \E s \in Requests : Unsettled(s) /\ Target(s) = i
            /\ CapturedSum(i) <= grandTotal[i] /\ grandTotal[i] > 0
            /\ lines[i] > 0 \/ \E s \in Requests : pc[s] = "insertLines" /\ call[s].invoice = i
  BY <1>2 DEF RecordInv
<1> QED
  BY <1>1, <1>2, <1>3, <1>4, <1>5 DEF Current

\* A change of the payments is settled by the write-back alone.
LEMMA UnsettledFollows ==
    ASSUME StageInv, NEW r \in Requests, Current(r)
    PROVE  /\ Unsettled(r) => WriteBack(r) \/ Unsettled(r)'
           /\ InsertPayment(r) => /\ Unsettled(r)' /\ Target(r)' = call[r].invoice
                                  /\ pc[r] = "insertPayment"
           /\ MarkRefunded(r) => Unsettled(r)' /\ pc[r] = "markRefunded"
           /\ Target(r)' = Target(r) /\ Target(r) \in Invoices
<1>1. /\ Step(r) /\ ~Fail(r) /\ AtOps(r) /\ call' = call /\ pc[r] # "idle"
      /\ pc \in [Requests -> {"idle"} \cup Running \cup Over]
  BY DEF Current, StageInv, TypeOK, Running
<1>2. \A l : Goto(r, l) => pc'[r] = l
  BY <1>1 DEF Goto
<1>3. Target(r)' = Target(r) /\ Target(r) \in Invoices
  BY <1>1, TargetStays
<1>4. Unsettled(r) => WriteBack(r) \/ Unsettled(r)'
  BY <1>1, <1>2 DEF Step, ReadForPayment, Dedupe, InsertPayment, InsertAllocation,
     ReadInvoiceRow, SumPayments, ReadPayment, ReadAllocations, MarkRefunded,
     FindAllocation, ReduceAllocation, ReadInvoice, SetStatus, DeleteLines, InsertLines,
     Recalculate, WriteTotals, Unsettled, Reconciling
<1>5. InsertPayment(r) => Unsettled(r)' /\ Target(r)' = call[r].invoice /\ pc[r] = "insertPayment"
  BY <1>1, <1>2 DEF InsertPayment, Unsettled, AtOps, Pays, Target
<1>6. MarkRefunded(r) => Unsettled(r)' /\ pc[r] = "markRefunded"
  BY <1>1, <1>2 DEF MarkRefunded, Unsettled
<1> QED
  BY <1>3, <1>4, <1>5, <1>6

\* An invoice is accurate again after the write-back, and stays it otherwise
\* until the payments change.
LEMMA StepKeepsAccurate ==
    ASSUME StageInv, FieldInv, mode = "serial", NEW r \in Requests, Current(r),
           NEW i \in Invoices
    PROVE  Accurate(i)' \/ (Unsettled(r)' /\ Target(r)' = i)
<1>1. /\ Step(r) /\ Recorded(r) /\ pc[r] \in Running
      /\ Accurate(i) \/ (Unsettled(r) /\ Target(r) = i)
      /\ CapturedSum(i) <= grandTotal[i] /\ grandTotal[i] > 0 /\ grandTotal[i] \in Nat
      /\ CapturedSum(i) \in Nat /\ CapturedSum(i)' \in Nat /\ pc[r] # "idle"
  BY SumsChange DEF Current, StageInv, TypeOK, Running
<1>2. CASE WriteBack(r) /\ i = Target(r)
  <2>1. pc[r] = "writeBack"
    BY <1>2 DEF WriteBack
  <2>2. CapturedSum(i)' = CapturedSum(i)
    BY <1>2, SumsOfPayments DEF WriteBack
  <2>3. /\ local[r].sum = CapturedSum(i) /\ local[r].total = grandTotal[i]
        /\ local[r].status = status[i]
    BY <1>1, <1>2, <2>1 DEF Recorded, FieldInv, EditsInTurn
  <2>4. /\ amountPaid'[i] = CapturedSum(i) /\ grandTotal'[i] = grandTotal[i]
        /\ paymentStatus'[i] = Standing(grandTotal[i], CapturedSum(i))
        /\ status'[i] = StatusAfter(Standing(grandTotal[i], CapturedSum(i)), status[i])
    <3>1. /\ amountPaid \in [Invoices -> Nat] /\ paymentStatus \in [Invoices -> PaymentStatus]
          /\ status \in [Invoices -> Status]
      BY DEF StageInv, TypeOK
    <3> QED
      BY <1>2, <2>3, <3>1 DEF WriteBack
  <2> QED
    BY <1>1, <2>2, <2>4 DEF Accurate, Standing, StatusAfter
<1>3. CASE CapturedSum(i)' # CapturedSum(i)
  BY <1>1, <1>3, SumsChange, UnsettledFollows
<1>4. CASE CapturedSum(i)' = CapturedSum(i) /\ ~(WriteBack(r) /\ i = Target(r))
  <2>1. CASE ~Accurate(i)
    BY <1>1, <1>4, <2>1, UnsettledFollows
  <2>2. CASE Accurate(i) /\ SetStatus(r) /\ i = call[r].invoice
    <3>1. /\ paymentStatus'[i] = paymentStatus[i] /\ amountPaid'[i] = amountPaid[i]
          /\ grandTotal'[i] = grandTotal[i]
          /\ status'[i] = IF call[r].op = "send" THEN "SENT" ELSE "VOID"
      BY <2>2 DEF SetStatus, StageInv, TypeOK
    <3>2. call[r].op = "send" => CapturedSum(i) = 0
      <4>1. paymentStatus[i] \in PaymentStatus
        BY DEF StageInv, TypeOK
      <4>2. call[r].op = "send" => status[i] = "DRAFT"
        BY <1>1, <2>2 DEF SetStatus, Recorded
      <4> QED
        BY <1>1, <2>2, <4>1, <4>2 DEF Accurate, PaymentStatus
    <3> QED
      BY <1>1, <1>4, <2>2, <3>1, <3>2 DEF Accurate
  <2>3. CASE Accurate(i) /\ WriteTotals(r) /\ i = call[r].invoice
    <3>1. /\ paymentStatus'[i] = paymentStatus[i] /\ amountPaid'[i] = amountPaid[i]
          /\ grandTotal'[i] = local[r].total /\ status'[i] = status[i]
      BY <2>3 DEF WriteTotals, StageInv, TypeOK
    <3>2. local[r].total > 0 /\ status[i] = "DRAFT" /\ local[r].total \in Nat
      BY <1>1, <2>3 DEF WriteTotals, Recorded, Editing, StageInv, TypeOK
    <3>3. CapturedSum(i) = 0
      <4>1. paymentStatus[i] \in PaymentStatus
        BY DEF StageInv, TypeOK
      <4> QED
        BY <1>1, <2>3, <3>2, <4>1 DEF Accurate, PaymentStatus
    <3> QED
      BY <1>1, <1>4, <2>3, <3>1, <3>2, <3>3 DEF Accurate, Standing
  <2>4. CASE Accurate(i) /\ ~(SetStatus(r) /\ i = call[r].invoice)
                         /\ ~(WriteTotals(r) /\ i = call[r].invoice)
    <3>1. /\ paymentStatus'[i] = paymentStatus[i] /\ amountPaid'[i] = amountPaid[i]
          /\ grandTotal'[i] = grandTotal[i] /\ status'[i] = status[i]
      BY <1>1, <1>4, <2>4, FieldsChange, StatusChanges
    <3> QED
      BY <1>4, <2>4, <3>1 DEF Accurate
  <2> QED
    BY <2>1, <2>2, <2>3, <2>4
<1> QED
  BY <1>2, <1>3, <1>4

\* No payment is taken that the total has no room for, and no total is edited
\* below what is paid.
LEMMA StepKeepsTotals ==
    ASSUME StageInv, FieldInv, mode = "serial", NEW r \in Requests, Current(r),
           NEW i \in Invoices
    PROVE  CapturedSum(i)' <= grandTotal'[i] /\ grandTotal'[i] > 0
<1>1. /\ Step(r) /\ Recorded(r) /\ pc[r] \in Running
      /\ Accurate(i) \/ (Unsettled(r) /\ Target(r) = i)
      /\ CapturedSum(i) <= grandTotal[i] /\ grandTotal[i] > 0 /\ grandTotal[i] \in Nat
      /\ CapturedSum(i) \in Nat /\ CapturedSum(i)' \in Nat /\ pc[r] # "idle"
      /\ amountPaid[i] \in Nat /\ local[r].total \in Nat
  BY SumsChange DEF Current, StageInv, TypeOK, Running
<1>2. CASE WriteTotals(r) /\ i = call[r].invoice
  <2>1. /\ grandTotal'[i] = local[r].total /\ payments' = payments /\ pc[r] = "writeTotals"
    BY <1>2 DEF WriteTotals, StageInv, TypeOK
  <2>2. Accurate(i) /\ local[r].total > 0 /\ status[i] = "DRAFT"
    BY <1>1, <1>2, <2>1 DEF Recorded, Editing, Unsettled, Reconciling
  <2>3. CapturedSum(i) = 0
    <3>1. paymentStatus[i] \in PaymentStatus
      BY DEF StageInv, TypeOK
    <3> QED
      BY <1>1, <2>2, <3>1 DEF Accurate, PaymentStatus
  <2>4. CapturedSum(i)' = CapturedSum(i)
    BY <2>1, SumsOfPayments
  <2> QED
    BY <1>1, <2>1, <2>2, <2>3, <2>4
<1>3. CASE ~(WriteTotals(r) /\ i = call[r].invoice)
  <2>1. grandTotal'[i] = grandTotal[i]
    BY <1>1, <1>3, FieldsChange
  <2>2. CASE CapturedSum(i)' <= CapturedSum(i)
    BY <1>1, <2>1, <2>2
  <2>3. CASE /\ InsertPayment(r) /\ i = call[r].invoice
             /\ CapturedSum(i)' = CapturedSum(i) + call[r].amount
    <3>1. /\ Accurate(i) /\ call[r].amount <= Room(i) /\ call[r].amount \in Int
      <4>1. pc[r] = "insertPayment" /\ ~Unsettled(r)
        BY <2>3 DEF InsertPayment, Unsettled, Reconciling
      <4> QED
        BY <1>1, <2>3, <4>1, CallIsTyped DEF Recorded
    <3>2. Room(i) = grandTotal[i] - CapturedSum(i)
      BY <3>1 DEF Room, Accurate
    <3> QED
      BY <1>1, <2>1, <2>3, <3>1, <3>2
  <2> QED
    BY <1>1, <2>2, <2>3, SumsChange
<1> QED
  BY <1>2, <1>3

\* The lines of an invoice are gone only until the edit has inserted the new.
LEMMA StepKeepsLines ==
    ASSUME StageInv, NEW r \in Requests, Current(r), NEW i \in Invoices
    PROVE  lines'[i] > 0 \/ (pc'[r] = "insertLines" /\ call'[r].invoice = i)
<1>1. /\ Step(r) /\ Recorded(r) /\ pc[r] # "idle" /\ call' = call
      /\ lines[i] > 0 \/ (pc[r] = "insertLines" /\ call[r].invoice = i)
      /\ lines \in [Invoices -> Nat] /\ call[r].amount \in Int
      /\ pc \in [Requests -> {"idle"} \cup Running \cup Over]
  BY CallIsTyped DEF Current, StageInv, TypeOK, Running
<1>2. CASE DeleteLines(r)
  BY <1>1, <1>2 DEF DeleteLines, Goto
<1>3. CASE InsertLines(r)
  BY SMTT(60), <1>1, <1>3 DEF InsertLines, Recorded
<1>4. CASE ~DeleteLines(r) /\ ~InsertLines(r)
  <2>1. pc[r] # "insertLines" /\ lines' = lines
    BY <1>1, <1>4 DEF Current, Step, ReadForPayment, Dedupe, InsertPayment, InsertAllocation,
       ReadInvoiceRow, SumPayments, WriteBack, ReadPayment, ReadAllocations, MarkRefunded,
       FindAllocation, ReduceAllocation, ReadInvoice, SetStatus, Recalculate, WriteTotals,
       invoiceRow
  <2> QED
    BY SMTT(60), <1>1, <2>1
<1> QED
  BY <1>2, <1>3, <1>4

\* What the running call has read is what the rows say.
LEMMA RecordedFollows ==
    ASSUME StageInv, FieldInv, mode = "serial", NEW r \in Requests, Current(r)
    PROVE  Recorded(r)'
<1>1. /\ Step(r) /\ ~Fail(r) /\ Recorded(r) /\ AtOps(r) /\ pc[r] # "idle" /\ call' = call
      /\ pc \in [Requests -> {"idle"} \cup Running \cup Over]
      /\ local \in [Requests -> LocalType] /\ call[r].amount \in Int
      /\ call[r].op = "edit" => call[r].amount >= 0
      /\ call[r].invoice \in Invoices /\ call[r].op \in Ops
  BY CallIsTyped DEF Current, StageInv, TypeOK, Running, LocalType
<1>2. \A l : Goto(r, l) => pc'[r] = l
  BY <1>1 DEF Goto
<1>3. /\ pc'[r] = "dedupe" => local'[r].room = Room(call[r].invoice)'
      /\ pc'[r] = "insertPayment" => call'[r].amount <= Room(call[r].invoice)'
  <2>1. pc'[r] \in {"dedupe", "insertPayment"} => ReadForPayment(r) \/ Dedupe(r)
    BY <1>1, <1>2 DEF Step, InsertPayment, InsertAllocation,
       ReadInvoiceRow, SumPayments, WriteBack, ReadPayment, ReadAllocations, MarkRefunded,
       FindAllocation, ReduceAllocation, ReadInvoice, SetStatus, DeleteLines, InsertLines,
       Recalculate, WriteTotals
  <2>2. Room(call[r].invoice) \in Int
    BY <1>1 DEF Room, StageInv, TypeOK
  <2>3. ReadForPayment(r) \/ Dedupe(r) => Room(call[r].invoice)' = Room(call[r].invoice)
    <3>1. ReadForPayment(r) \/ Dedupe(r) => UNCHANGED <<grandTotal, amountPaid, call>>
      BY <1>1 DEF ReadForPayment, Dedupe, invoiceRow
    <3> QED
      BY <3>1 DEF Room
  <2>4. CASE ReadForPayment(r)
    <3>1. local'[r].room = Room(call[r].invoice)
      BY <1>1, <2>4 DEF ReadForPayment, LocalType
    <3>2. pc'[r] = "insertPayment" => ~(call[r].amount > Room(call[r].invoice))
      BY <1>2, <2>4 DEF ReadForPayment
    <3> QED
      BY <1>1, <2>2, <2>3, <2>4, <3>1, <3>2
  <2>5. CASE Dedupe(r)
    <3>1. local[r].room = Room(call[r].invoice) /\ pc'[r] # "dedupe"
      BY <1>1, <1>2, <2>5 DEF Dedupe, Recorded
    <3>2. pc'[r] = "insertPayment" => ~(call[r].amount > local[r].room)
      BY <1>2, <2>5 DEF Dedupe
    <3> QED
      BY <1>1, <2>2, <2>3, <2>5, <3>1, <3>2
  <2> QED
    BY <2>1, <2>4, <2>5
<1>4. /\ pc'[r] \in {"sum", "writeBack"} => local'[r].status = status'[Target(r)']
      /\ pc'[r] = "writeBack" => \A i \in Invoices :
            Target(r)' = i => local'[r].sum = CapturedSum(i)'
  <2>1. Target(r)' = Target(r)
    BY <1>1, TargetStays
  <2>2. pc[r] = "sum" => local[r].status = status[Target(r)]
    BY <1>1 DEF Recorded
  <2>3. ASSUME UNCHANGED payments, NEW i \in Invoices PROVE CapturedSum(i)' = CapturedSum(i)
    BY <2>3, SumsOfPayments
  <2>4. ASSUME pc'[r] = "writeBack", NEW i \in Invoices, Target(r) = i
        PROVE  local'[r].sum = CapturedSum(i)'
    <3>1. UNCHANGED payments
      BY <1>1, <2>4, ReadsFollow
    <3>2. local'[r].sum = CapturedSum(i)
      BY <1>1, <2>4, WriteBackFollowsSum DEF SumPayments, LocalType
    <3> QED
      BY <2>3, <3>1, <3>2
  <2> QED
    BY <1>1, <2>1, <2>2, <2>4, ReadsFollow
<1>5. pc'[r] \in Editing => status'[call'[r].invoice] = "DRAFT"
  BY <1>1, <1>2 DEF Step, ReadForPayment, Dedupe, InsertPayment, InsertAllocation,
     ReadInvoiceRow, SumPayments, WriteBack, ReadPayment, ReadAllocations, MarkRefunded,
     FindAllocation, ReduceAllocation, ReadInvoice, SetStatus, DeleteLines, InsertLines,
     Recalculate, WriteTotals, Recorded, Editing, invoiceRow
<1>6. pc'[r] \in {"deleteLines", "insertLines"} => call'[r].amount > 0
  <2>1. pc'[r] \in {"deleteLines", "insertLines"} =>
            DeleteLines(r) \/ (call[r].op = "edit" /\ call[r].amount # 0)
    BY <1>1, <1>2 DEF Step, ReadForPayment, Dedupe, InsertPayment, InsertAllocation,
       ReadInvoiceRow, SumPayments, WriteBack, ReadPayment, ReadAllocations, MarkRefunded,
       FindAllocation, ReduceAllocation, ReadInvoice, SetStatus, InsertLines,
       Recalculate, WriteTotals
  <2> QED
    BY <1>1, <2>1 DEF DeleteLines, Recorded
<1>7. pc'[r] = "setStatus" /\ call'[r].op = "send" => status'[call'[r].invoice] = "DRAFT"
  BY <1>1, <1>2 DEF Step, ReadForPayment, Dedupe, InsertPayment, InsertAllocation,
     ReadInvoiceRow, SumPayments, WriteBack, ReadPayment, ReadAllocations, MarkRefunded,
     FindAllocation, ReduceAllocation, ReadInvoice, SetStatus, DeleteLines, InsertLines,
     Recalculate, WriteTotals, Sendable, invoiceRow
<1>8. pc'[r] = "writeTotals" => local'[r].total > 0
  BY <1>1, ReadsFollow DEF Current
<1> QED
  BY <1>3, <1>4, <1>5, <1>6, <1>7, <1>8 DEF Recorded

\* A statement leaves every invoice telling what was paid, or is on its way
\* to the write-back.
LEMMA StepKeepsRecord ==
    ASSUME StageInv, FieldInv, RecordInv, NEW r \in Requests, Step(r), mode' = mode
    PROVE  RecordInv'
<1> SUFFICES ASSUME mode = "serial", NoneFailed'
             PROVE  /\ \A s \in Requests : Recorded(s)'
                    /\ \A i \in Invoices :
                          /\ Accurate(i)' \/ \E s \in Requests : Unsettled(s)' /\ Target(s)' = i
                          /\ CapturedSum(i)' <= grandTotal'[i] /\ grandTotal'[i] > 0
                          /\ lines'[i] > 0
                             \/ \E s \in Requests : pc'[s] = "insertLines" /\ call'[s].invoice = i
  BY DEF RecordInv
<1>1. Current(r)
  BY OneIsCurrent
<1>2. ASSUME NEW s \in Requests PROVE Recorded(s)'
  <2>1. CASE s = r
    BY <1>1, <2>1, RecordedFollows
  <2>2. CASE s # r
    <3>1. pc'[s] \notin Running
      BY <1>1, <2>2 DEF Current
    <3> QED
      BY <3>1 DEF Recorded, Running, Editing
  <2> QED
    BY <2>1, <2>2
<1>3. ASSUME NEW i \in Invoices
      PROVE  /\ Accurate(i)' \/ \E s \in Requests : Unsettled(s)' /\ Target(s)' = i
             /\ CapturedSum(i)' <= grandTotal'[i] /\ grandTotal'[i] > 0
             /\ lines'[i] > 0
                \/ \E s \in Requests : pc'[s] = "insertLines" /\ call'[s].invoice = i
  BY <1>1, StepKeepsAccurate, StepKeepsTotals, StepKeepsLines
<1> QED
  BY <1>2, <1>3

\* A step that leaves the rows alone leaves what they tell.
LEMMA QuietKeepsRecord ==
    ASSUME StageInv, RecordInv, NEW r, Quiet(r)
    PROVE  RecordInv'
<1>1. /\ UNCHANGED <<lines, grandTotal, amountPaid, paymentStatus, status, payments, local, mode>>
      /\ \A s \in Requests : \/ pc'[s] = pc[s] /\ call'[s] = call[s]
                             \/ s = r /\ pc[s] = "idle" /\ pc'[s] = "read"
  BY DEF Quiet, invoiceRow
<1>2. NoneFailed' => NoneFailed
  BY <1>1 DEF NoneFailed
<1> SUFFICES ASSUME mode = "serial", NoneFailed
             PROVE  /\ \A s \in Requests : Recorded(s)'
                    /\ \A i \in Invoices :
                          /\ Accurate(i)' \/ \E s \in Requests : Unsettled(s)' /\ Target(s)' = i
                          /\ CapturedSum(i)' <= grandTotal'[i] /\ grandTotal'[i] > 0
                          /\ lines'[i] > 0
                             \/ \E s \in Requests : pc'[s] = "insertLines" /\ call'[s].invoice = i
  BY <1>1, <1>2 DEF RecordInv
<1>3. ASSUME NEW i \in Invoices
      PROVE  CapturedSum(i)' = CapturedSum(i) /\ (Accurate(i) => Accurate(i)')
  <2>1. CapturedSum(i)' = CapturedSum(i)
    BY <1>1, SumsOfPayments
  <2> QED
    BY <1>1, <2>1 DEF Accurate
<1>4. ASSUME NEW s \in Requests PROVE Recorded(s)'
  <2>1. CASE pc'[s] = "read"
    BY <2>1 DEF Recorded, Editing
  <2>2. CASE pc'[s] # "read"
    <3>1. /\ pc'[s] = pc[s] /\ call'[s] = call[s] /\ local'[s] = local[s] /\ Recorded(s)
          /\ Target(s)' = Target(s)
      BY <2>2, QuietKeepsTargets DEF RecordInv
    <3>2. Room(call[s].invoice)' = Room(call[s].invoice)
      BY <1>1, <3>1 DEF Room
    <3>3. pc[s] = "writeBack" => \A i \in Invoices :
             Target(s) = i => local[s].sum = CapturedSum(i)'
      BY <1>3, <3>1 DEF Recorded
    <3> QED
      BY <1>1, <3>1, <3>2, <3>3 DEF Recorded, Room
  <2> QED
    BY <2>1, <2>2
<1>5. ASSUME NEW s \in Requests
      PROVE  /\ Unsettled(s) => Unsettled(s)' /\ Target(s)' = Target(s)
             /\ pc[s] = "insertLines" => pc'[s] = "insertLines" /\ call'[s] = call[s]
  <2>1. CASE pc[s] = "idle"
    BY <2>1 DEF Unsettled, Reconciling
  <2>2. CASE pc[s] # "idle"
    BY <1>1, <2>2 DEF Unsettled, Target
  <2> QED
    BY <2>1, <2>2
<1>6. ASSUME NEW i \in Invoices
      PROVE  /\ Accurate(i)' \/ \E s \in Requests : Unsettled(s)' /\ Target(s)' = i
             /\ CapturedSum(i)' <= grandTotal'[i] /\ grandTotal'[i] > 0
             /\ lines'[i] > 0
                \/ \E s \in Requests : pc'[s] = "insertLines" /\ call'[s].invoice = i
  <2>1. /\ Accurate(i) \/ \E s \in Requests : Unsettled(s) /\ Target(s) = i
        /\ CapturedSum(i) <= grandTotal[i] /\ grandTotal[i] > 0
        /\ lines[i] > 0 \/ \E s \in Requests : pc[s] = "insertLines" /\ call[s].invoice = i
    BY DEF RecordInv
  <2> QED
    BY <1>1, <1>3, <1>5, <2>1
<1> QED
  BY <1>4, <1>6

\* At the start every invoice tells that nothing was paid.
LEMMA InitRecord == Init => RecordInv
<1> SUFFICES ASSUME Init PROVE RecordInv
  OBVIOUS
<1>1. \A r \in Requests : Recorded(r)
  BY DEF Init, Recorded, Editing
<1>2. ASSUME NEW i \in Invoices
      PROVE  Accurate(i) /\ CapturedSum(i) <= grandTotal[i] /\ grandTotal[i] > 0 /\ lines[i] > 0
  <2>1. PaidBy(i) = {}
    BY DEF Init, PaidBy, Captured, NoPayment
  <2>2. CapturedBy(payments, i) = {} /\ payments \in PaymentRows
    BY <2>1 DEF Init, PaidBy, Captured, CapturedBy, PaymentRows
  <2>3. CapturedSum(i) = 0
    BY <2>2, SumsOfPayments, WorthIsSum, SumEmpty
  <2>4. Price[i] \in Nat /\ Price[i] > 0
    BY PriceAssumption
  <2> QED
    BY <2>3, <2>4 DEF Init, Accurate, Standing
<1> QED
  BY <1>1, <1>2 DEF RecordInv

\* No step leaves an invoice telling less or more than was paid.
LEMMA NextKeepsRecord == StageInv /\ FieldInv /\ RecordInv /\ [Next]_vars => RecordInv'
BY StepKeepsRecord, BeginIsQuiet, StutterIsQuiet, QuietKeepsRecord DEF Next

\* One after the other, and as long as none has died, the calls overpay no
\* invoice and leave each one telling what its payments tell.
THEOREM InvoicesTell == Spec => []PaidAsRecorded
<1>1. StageInv /\ FieldInv /\ RecordInv => PaidAsRecorded
  <2> SUFFICES ASSUME StageInv, FieldInv, RecordInv, mode = "serial", NoneFailed
               PROVE  NoOverpayment /\ (Idle => Reconciled)
    BY DEF PaidAsRecorded
  <2>1. NoOverpayment
    BY DEF RecordInv, NoOverpayment
  <2>2. ASSUME Idle, NEW i \in Invoices
        PROVE  /\ amountPaid[i] = CapturedSum(i)
               /\ balanceDue[i] = Max({0, grandTotal[i] - CapturedSum(i)})
               /\ CapturedSum(i) = grandTotal[i] => paymentStatus[i] = "PAID"
               /\ CapturedSum(i) \in 1 .. grandTotal[i] - 1 => paymentStatus[i] = "PARTIALLY_PAID"
               /\ CapturedSum(i) = 0 =>
                    paymentStatus[i] = "UNPAID" /\ status[i] \in {"DRAFT", "SENT", "VOID"}
               /\ CapturedSum(i) > 0 => status[i] \in {paymentStatus[i], "VOID"}
    <3>1. Accurate(i) /\ grandTotal[i] > 0 /\ grandTotal[i] \in Nat
      <4>1. \A r \in Requests : ~Unsettled(r)
        BY <2>2 DEF Idle, Unsettled, Reconciling, Running
      <4> QED
        BY <4>1 DEF RecordInv, StageInv, TypeOK
    <3>2. CapturedSum(i) \in Nat
      BY SumsOfPayments, WorthIsTyped DEF StageInv, TypeOK, PaymentRows
    <3>3. balanceDue[i] = Balance(grandTotal[i], CapturedSum(i))
      BY <3>1 DEF FieldInv, EditsInTurn, Accurate
    <3>4. balanceDue[i] = Max({0, grandTotal[i] - CapturedSum(i)})
      BY <3>1, <3>2, <3>3, BalanceIsTyped
    <3> QED
      BY <3>1, <3>2, <3>4 DEF Accurate, Standing
  <2> QED
    BY <2>1, <2>2 DEF Reconciled
<1> QED
  BY <1>1, InitStages, NextKeepsStage, InitFields, NextKeepsFields, InitRecord, NextKeepsRecord,
     PTL DEF Spec
=============================================================================
