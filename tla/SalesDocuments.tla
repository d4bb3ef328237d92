---------------------------- MODULE SalesDocuments ----------------------------
(***************************************************************************)
(* Quotations, sales orders and invoices and the way from one to the next: *)
(* QuotationService (src/sales/quotation.service.ts), SalesOrdersService   *)
(* (src/sales/orders/sales-orders.service.ts), InvoicesService             *)
(* (src/invoices/invoices.service.ts) and the prices PricingService        *)
(* (src/sales/pricing.service.ts) computes for all three.  None of these   *)
(* calls runs in a transaction, and no number has a unique key.  What      *)
(* payments do to an invoice is in InvoicePayments.                        *)
(***************************************************************************)
EXTENDS Integers, SequencesExt, Rows

CONSTANTS
    Forms,      \* what a client may send: lines, discount and shipping
    Items,      \* a single line a client may add to a quotation
    Starts      \* the documents there are when a behaviour begins

VARIABLE restored    \* the documents ever restored from the archive

salesVars == <<rowVars, restored>>

Max0(n) == IF n > 0 THEN n ELSE 0
\* Math.round(n * (p / 100)) of non-negative numbers.
Percent(n, p) == (n * p + 50) \div 100

lineTotal(l) == l.quantity * l.unitPrice
itemDiscountAmount(l) == Percent(lineTotal(l), l.discount)
itemTaxAmount(l) == Percent(lineTotal(l) - itemDiscountAmount(l), l.taxRate)
SumOver(amount(_), lines) == SumFunction([k \in DOMAIN lines |-> amount(lines[k])])

headerDiscount(subtotal, type, value) ==
    CASE type = "PERCENTAGE"   -> Percent(subtotal, value)
      [] type = "FIXED_AMOUNT" -> value
      [] OTHER                 -> 0

\* calculateSummary(): the grand total is floored at zero as a whole.
calculateSummary(lines, type, value, shipping) ==
    LET subtotal == SumOver(lineTotal, lines)
        discount == SumOver(itemDiscountAmount, lines) + headerDiscount(subtotal, type, value)
        tax      == SumOver(itemTaxAmount, lines)
    IN [subtotal |-> subtotal, discountAmount |-> discount, taxAmount |-> tax,
        grandTotal |-> Max0(subtotal - discount + tax + shipping)]

\* The tables VALID_TRANSITIONS of the three services.
QuotationMoves ==
    [DRAFT |-> {"SENT", "CANCELLED"}, ACCEPTED |-> {"CANCELLED"},
     SENT |-> {"VIEWED", "ACCEPTED", "REJECTED", "EXPIRED", "CANCELLED"},
     VIEWED |-> {"ACCEPTED", "REJECTED", "EXPIRED", "CANCELLED"},
     REJECTED |-> {}, EXPIRED |-> {}, CANCELLED |-> {}]
OrderMoves ==
    [DRAFT |-> {"CONFIRMED", "CANCELLED"}, CONFIRMED |-> {"PROCESSING", "CANCELLED"},
     PROCESSING |-> {"PARTIALLY_FULFILLED", "FULFILLED", "CANCELLED"},
     PARTIALLY_FULFILLED |-> {"FULFILLED", "CANCELLED"}, FULFILLED |-> {"CANCELLED"},
     CANCELLED |-> {}]
InvoiceMoves ==
    [DRAFT |-> {"SENT", "VOID"}, SENT |-> {"VIEWED", "PAID", "VOID"},
     VIEWED |-> {"PARTIALLY_PAID", "PAID", "VOID"}, PARTIALLY_PAID |-> {"PAID", "VOID"},
     PAID |-> {"VOID"}, VOID |-> {}]
Moves == [quotation |-> QuotationMoves, order |-> OrderMoves, invoice |-> InvoiceMoves]
Kinds == DOMAIN Moves

\* A document: lines carry a key, as their rows carry an id.
Keyed(lines) == [k \in DOMAIN lines |-> [lines[k] EXCEPT !.key = k]]
Document(kind, form, source) ==
    [kind |-> kind, status |-> "DRAFT", number |-> 0, source |-> source, deleted |-> FALSE,
     lines |-> Keyed(form.lines), keys |-> Len(form.lines), discountType |-> form.discountType,
     discountValue |-> form.discountValue, shipping |-> form.shipping,
     totals |-> calculateSummary(form.lines, form.discountType, form.discountValue, form.shipping)]
\* Mutant: the shipping is lost as well.
Unshipped(form) == [form EXCEPT !.discountType = "null", !.discountValue = 0, !.shipping = 0]
\* Orders and invoices have no header discount: discountType is null there.
Undiscounted(form) == [form EXCEPT !.discountType = "null", !.discountValue = 0]
FormOf(i) == [lines |-> row[i].lines, discountType |-> row[i].discountType,
              discountValue |-> row[i].discountValue, shipping |-> row[i].shipping]

\* Statements of this component, besides those of Rows.
Count == [do |-> "count"]                       \* number := rows of the kind + 1
Unless(source) == [do |-> "unless", source |-> source]   \* throw if it was converted
AddLines(i, lines) == [do |-> "addLines", id |-> i, lines |-> lines]
SetLine(i, key, item) == [do |-> "setLine", id |-> i, key |-> key, item |-> item]
Recalculate(i, shipping) == <<[do |-> "recalculate", id |-> i, shipping |-> shipping], Set(i, [totals |-> 0])>>

\* Mutant: documents in the archive are not counted.
ReadCountUndeleted(c) ==
    LET kind == todo[c][2].set.kind
        n == Cardinality({i \in Ids : Found(i, kind)})
    IN Read(c, "count", [Tail(todo[c]) EXCEPT ![1].set.number = n + 1])

\* generateQuotationNumber(), generateOrderNumber(), generateInvoiceNumber():
\* deleted documents are counted, and nothing keeps the count from changing
\* before the insert.
ReadCount(c) ==
    LET kind == todo[c][2].set.kind
        n == Cardinality({i \in Ids : row[i].kind = kind})
    IN Read(c, "count", [Tail(todo[c]) EXCEPT ![1].set.number = n + 1])

\* Mutant: a cancelled document does not stand in the way of another.
ConvertedUncancelled(source) ==
    \E i \in Ids : Exists(i) /\ row[i].source = source /\ ~row[i].deleted /\ row[i].status # "CANCELLED"
\* The findFirst() for a document made of this one that is not deleted.
Converted(source) == \E i \in Ids : Exists(i) /\ row[i].source = source /\ ~row[i].deleted
ReadConversions(c) ==
    Read(c, "unless", IF Converted(Head(todo[c]).source) THEN <<>> ELSE Tail(todo[c]))

\* recalculateAndUpdate() reads the row and its lines, and writes the totals
\* with its next statement.
ReadTotals(c) ==
    LET i == Head(todo[c]).id
        r == row[i]
        own == r.kind = "quotation"
        totals == calculateSummary(r.lines, r.discountType, r.discountValue,
                                   IF own THEN r.shipping ELSE Head(todo[c]).shipping)
    IN Read(c, "recalculate", [Tail(todo[c]) EXCEPT ![1].set.totals = totals])

\* createMany() and create() of line rows; each gets an id of its own.
InsertLines(c) ==
    /\ ~Idle(c) /\ Head(todo[c]).do = "addLines"
    /\ LET s == Head(todo[c])
           new == [k \in DOMAIN s.lines |-> [s.lines[k] EXCEPT !.key = row[s.id].keys + k]]
       IN row' = [row EXCEPT ![s.id].lines = @ \o new, ![s.id].keys = @ + Len(new)]
    /\ todo' = [todo EXCEPT ![c] = Tail(@)]
    /\ UNCHANGED <<begun, overlapped, died>>

\* update() and delete() of one line row by its id: a row that is gone by now
\* makes the statement, and with it the call, fail.
Line(i, key) == {k \in DOMAIN row[i].lines : row[i].lines[k].key = key}
WriteLine(c) ==
    /\ ~Idle(c) /\ Head(todo[c]).do = "setLine"
    /\ LET s == Head(todo[c])
           at == Line(s.id, s.key)
       IN IF at = {} THEN todo' = [todo EXCEPT ![c] = <<>>] /\ died' = TRUE /\ UNCHANGED row
          ELSE /\ row' = [row EXCEPT ![s.id].lines =
                     IF s.item = <<>> THEN RemoveAt(@, CHOOSE k \in at : TRUE)
                     ELSE [@ EXCEPT ![CHOOSE k \in at : TRUE] = [s.item EXCEPT !.key = s.key]]]
               /\ todo' = [todo EXCEPT ![c] = Tail(@)] /\ UNCHANGED died
    /\ UNCHANGED <<begun, overlapped>>

\* ---- what the handlers decide on ----
New(c, kind, form) ==
    /\ BeginInsert(c, <<Count, Insert(Document(kind, form, 0))>>) /\ UNCHANGED restored

CreateQuotation(c) == \E f \in Forms : New(c, "quotation", f)
CreateOrder(c) == \E f \in Forms : New(c, "order", Undiscounted(f))
CreateInvoice(c) == \E f \in Forms : New(c, "invoice", Undiscounted(f))

\* convertFromQuotation() and createFromSalesOrder().
ConvertFromQuotation(c, i) ==
    /\ Found(i, "quotation") /\ row[i].status = "ACCEPTED"
    /\ BeginInsert(c, <<Unless(i), Count, Insert(Document("order", Undiscounted(FormOf(i)), i))>>)
    /\ UNCHANGED restored
CreateFromSalesOrder(c, i) ==
    /\ Found(i, "order") /\ row[i].status = "FULFILLED"
    /\ BeginInsert(c, <<Unless(i), Count, Insert(Document("invoice", Undiscounted(FormOf(i)), i))>>)
    /\ UNCHANGED restored

DuplicateQuotation(c, i) == Found(i, "quotation") /\ New(c, "quotation", FormOf(i))
DuplicateOrder(c, i) == Found(i, "order") /\ New(c, "order", Undiscounted(FormOf(i)))
DuplicateInvoice(c, i) ==
    Found(i, "invoice") /\ New(c, "invoice", Undiscounted(FormOf(i)))

\* Mutant: a document may be edited in every status.
AlwaysEditable(i, kind) == Found(i, kind)
\* update(): the row, then the lines if there are any in the request, then the
\* totals of what is stored by then.
Editable(i, kind) == Found(i, kind) /\ row[i].status = "DRAFT"
Edit(c, i, fields, lines, shipping) ==
    /\ Begin(c, <<Set(i, fields)>>
                \o (IF lines = <<>> THEN <<>> ELSE <<Set(i, [lines |-> <<>>]), AddLines(i, lines)>>)
                \o Recalculate(i, shipping))
    /\ UNCHANGED restored
UpdateQuotation(c, i) ==
    /\ Editable(i, "quotation")
    /\ \E f \in Forms : \E lines \in {<<>>, f.lines} :
          Edit(c, i, [discountType |-> f.discountType, discountValue |-> f.discountValue,
                      shipping |-> f.shipping], lines, 0)
UpdateOrder(c, i) ==
    /\ Editable(i, "order")
    /\ \E f \in Forms : \E lines \in {<<>>, f.lines} :
          Edit(c, i, [shipping |-> f.shipping], lines, f.shipping)
UpdateInvoice(c, i) ==
    /\ Editable(i, "invoice")
    /\ \E f \in Forms : \E lines \in {<<>>, f.lines} :
          Edit(c, i, [shipping |-> f.shipping], lines, f.shipping)

\* Mutant: the totals are not computed again.
AddItemOnly(c, i) ==
    /\ Editable(i, "quotation")
    /\ \E l \in Items : Begin(c, <<AddLines(i, <<l>>)>>)
    /\ UNCHANGED restored
AddItem(c, i) ==
    /\ Editable(i, "quotation")
    /\ \E l \in Items : Begin(c, <<AddLines(i, <<l>>)>> \o Recalculate(i, 0))
    /\ UNCHANGED restored
UpdateItem(c, i) ==
    /\ Editable(i, "quotation")
    /\ \E k \in DOMAIN row[i].lines, l \in Items :
          Begin(c, <<SetLine(i, row[i].lines[k].key, l)>> \o Recalculate(i, 0))
    /\ UNCHANGED restored
DeleteItem(c, i) ==
    /\ Editable(i, "quotation")
    /\ \E k \in DOMAIN row[i].lines :
          Begin(c, <<SetLine(i, row[i].lines[k].key, <<>>)>> \o Recalculate(i, 0))
    /\ UNCHANGED restored

\* validateStatusTransition() on the status read, then the write.
validateStatusTransition(i, to) == to \in Moves[row[i].kind][row[i].status]
ChangeStatus(c, i, kind, to) ==
    /\ Found(i, kind) /\ validateStatusTransition(i, to)
    /\ Begin(c, <<Set(i, [status |-> to])>>) /\ UNCHANGED restored
SendQuotation(c, i) == ChangeStatus(c, i, "quotation", "SENT")
AcceptQuotation(c, i) == ChangeStatus(c, i, "quotation", "ACCEPTED")
RejectQuotation(c, i) == ChangeStatus(c, i, "quotation", "REJECTED")
CancelQuotation(c, i) == ChangeStatus(c, i, "quotation", "CANCELLED")
ConfirmOrder(c, i) == ChangeStatus(c, i, "order", "CONFIRMED")
ChangeOrderStatus(c, i) == \E to \in DOMAIN OrderMoves : ChangeStatus(c, i, "order", to)
CancelOrder(c, i) == ChangeStatus(c, i, "order", "CANCELLED")
SendInvoice(c, i) == ChangeStatus(c, i, "invoice", "SENT")
VoidInvoice(c, i) == ChangeStatus(c, i, "invoice", "VOID")

\* archive() and delete() set deletedAt, restore() clears it, and checks
\* neither the status nor what was converted meanwhile.
SetDeleted(c, i) == Begin(c, <<Set(i, [deleted |-> TRUE])>>) /\ UNCHANGED restored
Restore(c, i, kind) ==
    /\ row[i].kind = kind /\ row[i].deleted
    /\ Begin(c, <<Set(i, [deleted |-> FALSE])>>)
    /\ restored' = restored \cup {i}
ArchiveQuotation(c, i) ==
    Found(i, "quotation") /\ row[i].status \in {"DRAFT", "CANCELLED"} /\ SetDeleted(c, i)
ArchiveOrder(c, i) ==
    Found(i, "order") /\ row[i].status \notin {"CONFIRMED", "PROCESSING"} /\ SetDeleted(c, i)
ArchiveInvoice(c, i) ==
    Found(i, "invoice") /\ row[i].status \notin {"SENT", "VIEWED"} /\ SetDeleted(c, i)
RestoreQuotation(c, i) == Restore(c, i, "quotation")
RestoreOrder(c, i) == Restore(c, i, "order")
RestoreInvoice(c, i) == Restore(c, i, "invoice")
DeleteQuotation(c, i) == Found(i, "quotation") /\ SetDeleted(c, i)
DeleteOrder(c, i) == Found(i, "order") /\ SetDeleted(c, i)
DeleteInvoice(c, i) == Found(i, "invoice") /\ SetDeleted(c, i)

\* A row of these tables, and what the numbers, sources and conversions of
\* documents say; restore() may bring back a second conversion.
Columns == {"kind", "status", "number", "source", "deleted"}
OfSales(r) ==
    "kind" \in DOMAIN r /\ (r.kind \in Kinds => Columns \cup {"lines", "totals"} \subseteq DOMAIN r)
Makes(source, kind) ==
    \/ source = "quotation" /\ kind = "order"
    \/ source = "order" /\ kind = "invoice"
Final(kind) == IF kind = "order" THEN "ACCEPTED" ELSE "FULFILLED"
DocumentsOf(tab, kind) == {i \in Ids : tab[i].kind = kind}
NumbersOf(tab, kind) == {tab[i].number : i \in DocumentsOf(tab, kind)}
MadeOf(tab, r) ==
    /\ r.source \in Ids /\ Makes(tab[r.source].kind, r.kind)
    /\ tab[r.source].status \in {Final(r.kind), "CANCELLED"}
Makings(tab, source) ==
    {i \in Ids : tab[i].kind \in Kinds /\ tab[i].source = source /\ ~tab[i].deleted}
NeatSales(tab, but) ==
    /\ DOMAIN tab = Ids /\ \A i \in Ids : OfSales(tab[i])
    /\ \A kind \in Kinds : NumbersOf(tab, kind) = 1..Cardinality(DocumentsOf(tab, kind))
    /\ \A i \in Ids : tab[i].kind \in Kinds /\ tab[i].source # 0 => MadeOf(tab, tab[i])
    /\ \A source \in Ids : \A i, j \in Makings(tab, source) \ but : i = j
\* What clients may send: amounts in cents and whole percents, none negative.
\* A document's totals are those of its lines.
LineItems == [quantity : Nat, unitPrice : Nat, discount : Nat, taxRate : Nat, key : Nat]
IsForm(f) ==
    /\ f.lines \in Seq(LineItems) /\ f.discountType \in {"null", "PERCENTAGE", "FIXED_AMOUNT"}
    /\ f.discountValue \in Nat /\ f.shipping \in Nat
Priced(r) ==
    {"lines", "keys", "discountType", "discountValue", "shipping", "totals"} \subseteq DOMAIN r
    /\ r.keys \in Nat /\ IsForm(r)
Summary(r) == calculateSummary(r.lines, r.discountType, r.discountValue, r.shipping)
ASSUME SalesAssumption ==
    /\ Items \subseteq LineItems /\ \A f \in Forms : IsForm(f)
    /\ \A start \in Starts :
          /\ NeatSales(start, {})
          /\ \A i \in Ids : start[i].kind \in Kinds =>
                Priced(start[i]) /\ start[i].totals = Summary(start[i])

SalesInit == row \in Starts /\ RowsInit /\ restored = {}

QuotationCall(c) ==
    \/ CreateQuotation(c)
    \/ \E i \in Ids : \/ UpdateQuotation(c, i) \/ AddItem(c, i) \/ UpdateItem(c, i)
                      \/ DeleteItem(c, i) \/ SendQuotation(c, i) \/ AcceptQuotation(c, i)
                      \/ RejectQuotation(c, i) \/ CancelQuotation(c, i)
                      \/ DuplicateQuotation(c, i) \/ ArchiveQuotation(c, i)
                      \/ RestoreQuotation(c, i) \/ DeleteQuotation(c, i)
OrderCall(c) ==
    \/ CreateOrder(c)
    \/ \E i \in Ids : \/ ConvertFromQuotation(c, i) \/ UpdateOrder(c, i) \/ ConfirmOrder(c, i)
                      \/ ChangeOrderStatus(c, i) \/ CancelOrder(c, i) \/ DuplicateOrder(c, i)
                      \/ ArchiveOrder(c, i) \/ RestoreOrder(c, i) \/ DeleteOrder(c, i)
InvoiceCall(c) ==
    \/ CreateInvoice(c)
    \/ \E i \in Ids : \/ CreateFromSalesOrder(c, i) \/ UpdateInvoice(c, i) \/ SendInvoice(c, i)
                      \/ VoidInvoice(c, i) \/ DuplicateInvoice(c, i) \/ ArchiveInvoice(c, i)
                      \/ RestoreInvoice(c, i) \/ DeleteInvoice(c, i)
Statement(c) ==
    /\ \/ Update(c) \/ Create(c) \/ ReadCount(c) \/ ReadConversions(c) \/ ReadTotals(c)
       \/ InsertLines(c) \/ WriteLine(c) \/ Die(c)
    /\ UNCHANGED restored

SalesNext ==
    \E c \in Callers :
        \/ Ready(c) /\ (QuotationCall(c) \/ OrderCall(c) \/ InvoiceCall(c))
        \/ Statement(c)

SalesSpec == SalesInit /\ [][SalesNext]_salesVars

-----------------------------------------------------------------------------
IsDocument(i) == row[i].kind \in Kinds

\* A number is one more than the documents there are, deleted ones included:
\* as long as calls do not overlap, no two documents of a kind share one and
\* none is skipped.
NumbersGapless ==
    ~overlapped => \A kind \in Kinds :
        LET all == {i \in Ids : row[i].kind = kind}
        IN {row[i].number : i \in all} = 1..Cardinality(all)

\* As long as calls do not overlap, what a document is made of was final and
\* stays so: an accepted quotation, a fulfilled order, or one cancelled since.
MadeOfFinal ==
    ~overlapped => \A i \in Ids :
        IsDocument(i) /\ row[i].source # 0 =>
            row[row[i].source].status \in
                {IF row[i].kind = "order" THEN "ACCEPTED" ELSE "FULFILLED", "CANCELLED"}

\* As long as calls do not overlap a quotation becomes one order and an order
\* one invoice; a document deleted and later restored is the exception, for
\* restore() does not look whether another has taken its place.
ConvertedOnce ==
    ~overlapped => \A i, j \in Ids \ restored :
        /\ IsDocument(i) /\ IsDocument(j) /\ row[i].source # 0 /\ row[i].source = row[j].source
        /\ ~row[i].deleted /\ ~row[j].deleted
        => i = j

\* Between calls the totals of a document are those of its lines, whatever
\* edits, item operations and conversions have been made in whatever order.
TotalsAgree ==
    Orderly /\ Quiet => \A i \in Ids : IsDocument(i) =>
        LET r == row[i]
            net(l) == lineTotal(l) - itemDiscountAmount(l) + itemTaxAmount(l)
        IN r.totals.grandTotal = Max0(SumOver(net, r.lines) + r.shipping
                               - headerDiscount(r.totals.subtotal, r.discountType, r.discountValue))

\* Once a document has left DRAFT its lines and totals stay what the customer
\* was sent, as long as calls do not overlap.
SentIsFrozen ==
    [][\A i \in Ids : IsDocument(i) /\ row[i].status # "DRAFT" /\ ~overlapped' =>
          /\ row'[i].lines = row[i].lines
          /\ row'[i].totals.grandTotal = row[i].totals.grandTotal]_salesVars

\* A conversion carries the price over: an invoice asks for what its order
\* says, an order for what the quotation said before the header discount,
\* which orders do not have.
PriceCarriesOver ==
    [][\A i \in Ids :
          ~Exists(i) /\ row'[i].kind \in Kinds /\ row'[i].source # 0 /\ Orderly =>
              LET s == row[row'[i].source]
              IN row'[i].totals.subtotal = s.totals.subtotal
                 /\ (s.discountType = "null" => row'[i].totals.grandTotal = s.totals.grandTotal)]_salesVars

=============================================================================
