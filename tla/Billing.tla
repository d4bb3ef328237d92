-------------------------------- MODULE Billing --------------------------------
(***************************************************************************)
(* What an organisation is billed for its subscription: coupons, invoices, *)
(* payments and billing addresses (src/billing, src/billing-portal).  One  *)
(* organisation and one month of invoice numbers; the checks of a coupon   *)
(* that only depend on the order are a choice.                             *)
(***************************************************************************)
EXTENDS Naturals, FiniteSetsExt, Rows

CONSTANT BillingStarts      \* the rows there are when a behaviour begins

billingVars == rowVars

Coupon(code, max) == [kind |-> "coupon", code |-> code, deleted |-> FALSE, active |-> TRUE,
                      expired |-> FALSE, used |-> 0, max |-> max]
Bill(n) == [kind |-> "bill", code |-> n, deleted |-> FALSE, status |-> "DRAFT"]
\* returned is not a column: what refunds have been made, together.
Payment(amount, status) == [kind |-> "payment", code |-> 0, amount |-> amount, status |-> status,
                            refunded |-> 0, returned |-> 0]
Address(default) == [kind |-> "address", default |-> default]

Of(k) == {i \in Ids : row[i].kind = k}
Undeleted(k) == {i \in Of(k) : ~row[i].deleted}

-----------------------------------------------------------------------------
(* CouponService *)
CreateCoupon(c) ==
    \E n \in {1, 2}, max \in {1, 2} :
        /\ \A i \in Of("coupon") : row[i].code # n
        /\ BeginInsert(c, <<Insert(Coupon(n, max))>>)
UpdateCoupon(c, i) ==
    /\ i \in Undeleted("coupon")
    /\ \/ \E max \in {1, 2} : Begin(c, <<Set(i, [max |-> max])>>)
       \/ \E b \in BOOLEAN : Begin(c, <<Set(i, [active |-> b])>>)
       \/ \E b \in BOOLEAN : Begin(c, <<Set(i, [expired |-> b])>>)
DeleteCoupon(c, i) ==
    i \in Undeleted("coupon") /\ Begin(c, <<Set(i, [active |-> FALSE, deleted |-> TRUE])>>)
\* Mutant: the limit itself still passes.
ValidatedLate(i) ==
    i \in Undeleted("coupon") /\ row[i].active /\ row[i].used <= row[i].max /\ ~row[i].expired
Validated(i) ==
    i \in Undeleted("coupon") /\ row[i].active /\ row[i].used < row[i].max /\ ~row[i].expired
ApplyCoupon(c, i) == Validated(i) /\ Begin(c, <<[do |-> "redeem", id |-> i]>>)
Redeem(c) ==
    /\ ~Idle(c) /\ Head(todo[c]).do = "redeem"
    /\ row' = [row EXCEPT ![Head(todo[c]).id].used = @ + 1]
    /\ todo' = [todo EXCEPT ![c] = Tail(@)]
    /\ UNCHANGED <<begun, overlapped, died>>

-----------------------------------------------------------------------------
(* InvoiceService.  generateInvoiceNumber() looks for the invoice made last, *)
(* deleted or not; a number another invoice has is refused by the schema.   *)
Newest(bills) == CHOOSE i \in bills : \A j \in bills : j <= i
generateInvoiceNumber == IF Of("bill") = {} THEN 1 ELSE row[Newest(Of("bill"))].code + 1
CreateBill(c) == BeginInsert(c, <<Insert(Bill(generateInvoiceNumber))>>)
MarkPaid(c, i) == i \in Undeleted("bill") /\ row[i].status # "PAID" /\ Begin(c, <<Set(i, [status |-> "PAID"])>>)
Issue(c, i) == i \in Undeleted("bill") /\ row[i].status = "DRAFT" /\ Begin(c, <<Set(i, [status |-> "ISSUED"])>>)
CancelBill(c, i) ==
    /\ i \in Undeleted("bill") /\ row[i].status \notin {"PAID", "CANCELED"}
    /\ Begin(c, <<Set(i, [status |-> "CANCELED"])>>)
DeleteBill(c, i) == i \in Undeleted("bill") /\ Begin(c, <<Set(i, [deleted |-> TRUE])>>)

-----------------------------------------------------------------------------
(* PaymentService.  The provider's id of a payment is unique (0: none yet); *)
(* a refund writes the sum it worked out from what it read.                 *)
CreatePayment(c) == \E s \in {"PENDING", "SUCCEEDED"} : BeginInsert(c, <<[do |-> "enter", status |-> s]>>)
EnterPayment(c) ==
    /\ ~Idle(c) /\ Head(todo[c]).do = "enter" /\ Room
    /\ row' = [row EXCEPT ![NextId] = Payment(2, Head(todo[c]).status)]
    /\ todo' = [todo EXCEPT ![c] = Tail(@)]
    /\ UNCHANGED <<begun, overlapped, died>>
MarkSucceeded(c, i) ==
    /\ i \in Of("payment")
    /\ \E id \in {1, 2} : Begin(c, <<[do |-> "settle", id |-> i, provider |-> id]>>)
Settlement(c) ==
    /\ ~Idle(c) /\ Head(todo[c]).do = "settle"
    /\ LET s == Head(todo[c])
       IN IF \E j \in Of("payment") \ {s.id} : row[j].code = s.provider THEN Throw(c)
          ELSE /\ row' = [row EXCEPT ![s.id].status = "SUCCEEDED", ![s.id].code = s.provider]
               /\ todo' = [todo EXCEPT ![c] = Tail(@)]
               /\ UNCHANGED <<begun, overlapped, died>>
MarkFailed(c, i) == i \in Of("payment") /\ Begin(c, <<Set(i, [status |-> "FAILED"])>>)
Refunded(i, sum) == IF sum >= row[i].amount THEN "REFUNDED" ELSE "PARTIALLY_REFUNDED"
Repay(i, sum, amount) ==
    [do |-> "repay", id |-> i, sum |-> sum, amount |-> amount, status |-> Refunded(i, sum)]
\* Mutant: the sum is the amount of this refund.
RefundAlone(c, i) ==
    /\ i \in Of("payment") /\ row[i].status = "SUCCEEDED"
    /\ \E a \in {1, row[i].amount} : Begin(c, <<Repay(i, a, a)>>)
Refund(c, i) ==
    /\ i \in Of("payment") /\ row[i].status = "SUCCEEDED"
    /\ \E a \in {1, row[i].amount} : Begin(c, <<Repay(i, row[i].refunded + a, a)>>)
Repayment(c) ==
    /\ ~Idle(c) /\ Head(todo[c]).do = "repay"
    /\ LET s == Head(todo[c])
       IN row' = [row EXCEPT ![s.id].refunded = s.sum, ![s.id].status = s.status,
                             ![s.id].returned = @ + s.amount]
    /\ todo' = [todo EXCEPT ![c] = Tail(@)]
    /\ UNCHANGED <<begun, overlapped, died>>

-----------------------------------------------------------------------------
\* BillingPortalService.upsertBillingAddress(): isDefault is the request's.
\* Mutant: an address is added each time.
AddAddress(c) == \E b \in BOOLEAN : BeginInsert(c, <<Insert(Address(b))>>)
UpsertAddress(c) ==
    LET default == {i \in Of("address") : row[i].default}
    IN \E b \in BOOLEAN :
         \/ default # {} /\ \E i \in default : Begin(c, <<Set(i, [default |-> b])>>)
         \/ default = {} /\ BeginInsert(c, <<Insert(Address(b))>>)

\* A row of these tables, and how the numbers of the billing invoices run.
OfBilling(r) ==
    /\ "kind" \in DOMAIN r /\ r.kind \in {"none", "coupon", "bill", "payment", "address"}
    /\ (r.kind = "bill" => "code" \in DOMAIN r) /\ (r.kind = "none" => r = NoRow)
Bills(tab) == {i \in Ids : tab[i].kind = "bill"}
PlaceOf(tab, i) == Cardinality({j \in Bills(tab) : j <= i})
NeatBills(tab) ==
    /\ DOMAIN tab = Ids /\ \A i \in Ids : OfBilling(tab[i])
    /\ \A i, j \in Ids : i < j /\ tab[i] = NoRow => tab[j] = NoRow
    /\ {tab[i].code : i \in Bills(tab)} = 1..Cardinality(Bills(tab))
    /\ \A i \in Bills(tab) : tab[i].code = PlaceOf(tab, i)
\* What refunds have been made is recorded, and there is one default address.
Default(tab, i) == tab[i].kind = "address" /\ tab[i].default
NeatMoney(tab) ==
    /\ \A i \in Ids :
         /\ tab[i].kind = "coupon" => {"used", "max"} \subseteq DOMAIN tab[i] /\ tab[i].used \in Nat
         /\ tab[i].kind = "payment" =>
              {"refunded", "returned"} \subseteq DOMAIN tab[i] /\ tab[i].refunded = tab[i].returned
         /\ tab[i].kind = "address" => "default" \in DOMAIN tab[i]
    /\ \A i, j \in Ids : Default(tab, i) /\ Default(tab, j) => i = j
ASSUME BillingAssumption == \A start \in BillingStarts : NeatBills(start) /\ NeatMoney(start)

BillingInit == row \in BillingStarts /\ RowsInit
BillingCall(c) ==
    \/ CreateCoupon(c) \/ CreateBill(c) \/ CreatePayment(c) \/ UpsertAddress(c)
    \/ \E i \in Ids : \/ UpdateCoupon(c, i) \/ DeleteCoupon(c, i) \/ ApplyCoupon(c, i)
                      \/ MarkPaid(c, i) \/ Issue(c, i) \/ CancelBill(c, i) \/ DeleteBill(c, i)
                      \/ MarkSucceeded(c, i) \/ MarkFailed(c, i) \/ Refund(c, i)
BillingNext ==
    \E c \in Callers :
        \/ Ready(c) /\ BillingCall(c)
        \/ Redeem(c) \/ EnterPayment(c) \/ Settlement(c) \/ Repayment(c)
        \/ Update(c) \/ Create(c) \/ Die(c)
BillingSpec == BillingInit /\ [][BillingNext]_billingVars

-----------------------------------------------------------------------------
\* As long as no calls overlap, a coupon is used only while its limit, as it
\* stands then, is not reached; what is recorded as refunded of a payment is
\* what was refunded; there is one default address at most.
SpentAsAllowed ==
    [][Orderly' => \A i \in Ids :
         /\ (row[i].kind = "coupon" /\ row'[i].used > row[i].used => row[i].used < row[i].max)
         /\ (row'[i].kind = "payment" => row'[i].refunded = row'[i].returned)
         /\ \A j \in Ids : row'[i].kind = "address" /\ row'[j].kind = "address" =>
              (row'[i].default /\ row'[j].default => i = j)
      ]_billingVars

\* The numbers of the billing invoices of a month run from 1 without a gap,
\* in the order they were made, whatever overlaps or dies; and the number the
\* next one would be given is never taken, so that it is not refused.
BillsRun ==
    \A i \in Of("bill") : /\ row[i].code = Cardinality({j \in Of("bill") : j <= i})
                          /\ row[i].code # generateInvoiceNumber
=============================================================================
