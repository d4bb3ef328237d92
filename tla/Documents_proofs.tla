--------------------------- MODULE Documents_proofs ---------------------------
(***************************************************************************)
(* Proofs about the documents that are sent to customers and what they pay *)
(* for: quotations, orders and invoices, billing invoices, subscriptions   *)
(* and what is used and paid back.  Like the proofs they continue, they    *)
(* are about a behaviour that exercises one of the services.               *)
(***************************************************************************)
EXTENDS Services_proofs

-----------------------------------------------------------------------------
(* Numbers and conversions of documents (SalesDocuments).                   *)

\* A document that may be inserted.
Fresh(tab, d) ==
    /\ OfSales(d) /\ d.kind \in Kinds /\ d.status = "DRAFT" /\ ~d.deleted
    /\ d.source # 0 => MadeOf(tab, d)
Unmade(tab, d) == d.source # 0 => Makings(tab, d.source) = {}
NextNumber(tab, kind) == Cardinality(DocumentsOf(tab, kind)) + 1

\* What a statement writes that is compared with nothing; a list of such.
Plain(e) ==
    /\ "do" \in DOMAIN e /\ e.do \in {"update", "recalculate", "addLines", "setLine"}
    /\ e.do = "update" => "set" \in DOMAIN e /\ DOMAIN e.set \cap Columns = {}
PlainList(q) == \E S : q \in Seq(S) /\ \A e \in S : Plain(e)

\* What a call has left: a change of status, of deletedAt, or a document with
\* what precedes its insert.
MoveTo(tab, e) ==
    \E i \in Ids : \E to : /\ e = Set(i, [status |-> to]) /\ tab[i].kind \in Kinds
                           /\ to \in Moves[tab[i].kind][tab[i].status]
Hiding(but, e) == \E i \in Ids : \E b \in BOOLEAN : e = Set(i, [deleted |-> b]) /\ (~b => i \in but)
Making(tab, e) == \E d : e = Insert(d) /\ Fresh(tab, d) /\ Unmade(tab, d) /\ d.number = NextNumber(tab, d.kind)
Numbered(tab, q) == \E d : q = <<Count, Insert(d)>> /\ Fresh(tab, d) /\ Unmade(tab, d)
Converting(tab, q) == \E d : q = <<Unless(d.source), Count, Insert(d)>> /\ Fresh(tab, d) /\ d.source \in Ids
SalesScript(tab, but, q) ==
    \/ PlainList(q)
    \/ \E e : q = <<e>> /\ (MoveTo(tab, e) \/ Hiding(but, e) \/ Making(tab, e))
    \/ Numbered(tab, q) \/ Converting(tab, q)

SalesInv ==
    ~overlapped => /\ DOMAIN todo = Callers /\ OneCall /\ NeatSales(row, restored)
                   /\ \A c \in Callers : SalesScript(row, restored, todo[c])

LEMMA EmptyIsPlain == PlainList(<<>>)
<1>1. PICK S : S = {}
  OBVIOUS
<1>2. <<>> \in Seq(S)
  BY EmptySeq
<1>3. \A e \in S : Plain(e)
  BY <1>1
<1> QED
  BY <1>2, <1>3 DEF PlainList

LEMMA OneIsPlain ==
    ASSUME NEW e, Plain(e)
    PROVE  PlainList(<<e>>)
<1>1. PICK S : S = {e}
  OBVIOUS
<1>2. <<e>> \in Seq(S) /\ \A x \in S : Plain(x)
  BY <1>1
<1> QED
  BY <1>2 DEF PlainList

LEMMA JoinedArePlain ==
    ASSUME NEW p, NEW q, PlainList(p), PlainList(q)
    PROVE  PlainList(p \o q)
<1>1. PICK S : p \in Seq(S) /\ \A e \in S : Plain(e)
  BY DEF PlainList
<1>2. PICK T : q \in Seq(T) /\ \A e \in T : Plain(e)
  BY DEF PlainList
<1>3. PICK U : U = S \cup T
  OBVIOUS
<1>4. p \in Seq(U) /\ q \in Seq(U)
  BY <1>1, <1>2, <1>3, SeqMonotonic
<1>5. p \o q \in Seq(U) /\ \A e \in U : Plain(e)
  BY <1>1, <1>2, <1>3, <1>4, ConcatProperties
<1> QED
  BY <1>5 DEF PlainList

LEMMA RestIsPlain ==
    ASSUME NEW q, PlainList(q), q # <<>>
    PROVE  Plain(Head(q)) /\ PlainList(Tail(q))
<1>1. PICK S : q \in Seq(S) /\ \A e \in S : Plain(e)
  BY DEF PlainList
<1>2. Head(q) \in S /\ Tail(q) \in Seq(S)
  BY <1>1, HeadTailProperties
<1> QED
  BY <1>1, <1>2 DEF PlainList

\* The next statement tells which kind of call it is.
LEMMA SalesHeads ==
    ASSUME NEW tab, NEW but, NEW q, q # <<>>, SalesScript(tab, but, q)
    PROVE  /\ Head(q).do = "create" => \E e : q = <<e>> /\ Making(tab, e)
           /\ Head(q).do = "count" => Numbered(tab, q)
           /\ Head(q).do = "unless" => Converting(tab, q)
           /\ Head(q).do = "update" => PlainList(q) \/ \E e : q = <<e>> /\ (MoveTo(tab, e) \/ Hiding(but, e))
           /\ Head(q).do \in {"recalculate", "addLines", "setLine"} => PlainList(q)
<1>1. CASE PlainList(q)
  BY <1>1, RestIsPlain DEF Plain
<1>2. ASSUME NEW e, q = <<e>>, MoveTo(tab, e) \/ Hiding(but, e) PROVE Head(q).do = "update"
  <2>1. Head(q) = e
    BY <1>2, ShortLists
  <2>2. \E i, fields : e = Set(i, fields)
    <3>1. CASE MoveTo(tab, e)
      BY <3>1 DEF MoveTo
    <3>2. CASE Hiding(but, e)
      BY <3>2 DEF Hiding
    <3> QED
      BY <1>2, <3>1, <3>2
  <2> QED
    BY <2>1, <2>2, Statements
<1>3. ASSUME NEW e, q = <<e>>, Making(tab, e) PROVE Head(q).do = "create"
  <2>1. Head(q) = e
    BY <1>3, ShortLists
  <2> QED
    BY <1>3, <2>1, Statements DEF Making
<1>4. CASE Numbered(tab, q)
  <2>1. Head(q) = Count
    BY <1>4, ShortLists DEF Numbered
  <2> QED
    BY <1>4, <2>1 DEF Count
<1>5. CASE Converting(tab, q)
  <2>1. PICK d : q = <<Unless(d.source), Count, Insert(d)>>
    BY <1>5 DEF Converting
  <2>2. Head(q) = Unless(d.source)
    BY <2>1, ShortLists
  <2> QED
    BY <1>5, <2>2 DEF Unless
<1> QED
  BY <1>1, <1>2, <1>3, <1>4, <1>5 DEF SalesScript

\* A call begins.
LEMMA SalesBegins ==
    ASSUME SalesInv, NEW c \in Callers, NEW st, Begin(c, st), restored \subseteq restored',
           ~overlapped /\ Quiet => SalesScript(row, restored', st)
    PROVE  SalesInv'
<1> SUFFICES ASSUME ~overlapped' PROVE SalesInv'
  BY DEF SalesInv
<1>1. /\ row' = row /\ todo' = [todo EXCEPT ![c] = st] /\ ~overlapped /\ Quiet
  BY DEF Begin
<1>2. /\ DOMAIN todo' = Callers /\ todo'[c] = st
      /\ \A d \in Callers \ {c} : todo'[d] = <<>>
  BY <1>1 DEF SalesInv, Quiet, Idle
<1>3. OneCall'
  BY <1>2 DEF OneCall, Idle
<1>4. \A d \in Callers : SalesScript(row', restored', todo'[d])
  BY <1>1, <1>2, EmptyIsPlain DEF SalesScript
<1>5. NeatSales(row', restored')
  BY <1>1 DEF SalesInv, NeatSales
<1> QED
  BY <1>1, <1>2, <1>3, <1>4, <1>5 DEF SalesInv

\* A statement of the call that runs.
LEMMA SalesExecutes ==
    ASSUME SalesInv, NEW c \in Callers, ~Idle(c), NEW rest,
           todo' = [todo EXCEPT ![c] = rest], overlapped' = overlapped, UNCHANGED restored,
           ~overlapped => NeatSales(row', restored) /\ SalesScript(row', restored, rest)
    PROVE  SalesInv'
<1> SUFFICES ASSUME ~overlapped PROVE SalesInv'
  BY DEF SalesInv
<1>1. /\ DOMAIN todo' = Callers /\ todo'[c] = rest
      /\ \A d \in Callers \ {c} : todo'[d] = <<>>
  BY DEF SalesInv, OneCall, Idle
<1>2. OneCall'
  BY <1>1 DEF OneCall, Idle
<1>3. \A d \in Callers : SalesScript(row', restored', todo'[d])
  BY <1>1, EmptyIsPlain DEF SalesScript
<1> QED
  BY <1>1, <1>2, <1>3 DEF SalesInv

LEMMA SalesThrows ==
    ASSUME SalesInv, NEW c \in Callers, ~Idle(c), Throw(c), UNCHANGED restored
    PROVE  SalesInv'
<1>1. SalesScript(row', restored, <<>>)
  BY EmptyIsPlain DEF SalesScript
<1> QED
  BY <1>1, SalesExecutes DEF Throw, SalesInv
-----------------------------------------------------------------------------
\* Documents change their status along the tables, and are deleted or restored.
LEMMA StatusMoves ==
    ASSUME NEW kind \in {"quotation", "order"}, NEW to, NEW from,
           from \in {Final(IF kind = "quotation" THEN "order" ELSE "invoice"), "CANCELLED"},
           to \in Moves[kind][from]
    PROVE  to = "CANCELLED"
<1>1. CASE kind = "quotation"
  BY <1>1 DEF Final, Moves, QuotationMoves
<1>2. CASE kind = "order"
  BY <1>2 DEF Final, Moves, OrderMoves
<1> QED
  BY <1>1, <1>2

KeepsColumns(tab, but, then) ==
    \A i \in Ids :
        /\ OfSales(then[i]) /\ then[i].kind = tab[i].kind
        /\ tab[i].kind \in Kinds =>
             /\ then[i].number = tab[i].number /\ then[i].source = tab[i].source
             /\ then[i].status = tab[i].status \/ then[i].status \in Moves[tab[i].kind][tab[i].status]
             /\ then[i].deleted = tab[i].deleted \/ then[i].deleted = TRUE \/ i \in but
LEMMA SalesKept ==
    ASSUME NEW tab, NEW but, NEW then, NeatSales(tab, but), DOMAIN then = Ids,
           KeepsColumns(tab, but, then)
    PROVE  NeatSales(then, but)
<1>1. \A kind \in Kinds : DocumentsOf(then, kind) = DocumentsOf(tab, kind) /\ NumbersOf(then, kind) = NumbersOf(tab, kind)
  <2> SUFFICES ASSUME NEW kind \in Kinds
               PROVE  DocumentsOf(then, kind) = DocumentsOf(tab, kind) /\ NumbersOf(then, kind) = NumbersOf(tab, kind)
    OBVIOUS
  <2>1. DocumentsOf(then, kind) = DocumentsOf(tab, kind)
    BY DEF DocumentsOf, KeepsColumns
  <2>2. \A i \in DocumentsOf(tab, kind) : then[i].number = tab[i].number
    BY DEF DocumentsOf, KeepsColumns
  <2> QED
    BY <2>1, <2>2 DEF NumbersOf
<1>2. \A kind \in Kinds : NumbersOf(then, kind) = 1..Cardinality(DocumentsOf(then, kind))
  BY <1>1 DEF NeatSales
<1>3. ASSUME NEW i \in Ids, then[i].kind \in Kinds, then[i].source # 0 PROVE MadeOf(then, then[i])
  <2> DEFINE s == tab[i].source
             kind == tab[s].kind
  <2>1. /\ tab[i].kind \in Kinds /\ then[i].kind = tab[i].kind /\ then[i].source = s
        /\ s \in Ids /\ Makes(kind, tab[i].kind) /\ tab[s].status \in {Final(tab[i].kind), "CANCELLED"}
    BY <1>3 DEF KeepsColumns, NeatSales, MadeOf
  <2>2. kind \in {"quotation", "order"} /\ tab[i].kind = IF kind = "quotation" THEN "order" ELSE "invoice"
    BY <2>1 DEF Makes
  <2>3. kind \in Kinds
    BY <2>2 DEF Kinds, Moves
  <2>4. then[s].kind = kind /\ (then[s].status = tab[s].status \/ then[s].status \in Moves[kind][tab[s].status])
    BY <2>1, <2>3 DEF KeepsColumns
  <2> HIDE DEF s, kind
  <2>5. then[s].status \in {Final(tab[i].kind), "CANCELLED"}
    BY <2>1, <2>2, <2>4, StatusMoves
  <2> QED
    BY <2>1, <2>4, <2>5 DEF MadeOf
<1>4. ASSUME NEW source \in Ids PROVE Makings(then, source) \ but \subseteq Makings(tab, source)
  BY DEF Makings, KeepsColumns
<1>5. \A source \in Ids : \A i, j \in Makings(then, source) \ but : i = j
  BY <1>4 DEF NeatSales
<1>6. \A i \in Ids : OfSales(then[i])
  BY DEF KeepsColumns
<1> QED
  BY <1>2, <1>3, <1>5, <1>6 DEF NeatSales

\* A document is inserted with the next number.
LEMMA SalesAdded ==
    ASSUME NEW tab, NEW but, NEW then, NeatSales(tab, but), DOMAIN then = Ids,
           NEW n \in Ids, tab[n] = NoRow, \A i \in Ids \ {n} : then[i] = tab[i],
           Fresh(tab, then[n]), Unmade(tab, then[n]), then[n].number = NextNumber(tab, then[n].kind)
    PROVE  NeatSales(then, but)
<1> DEFINE d == then[n]
<1>1. tab[n].kind \notin Kinds /\ d.kind \in Kinds
  BY DEF NoRow, Kinds, Moves, Fresh
<1>2. ASSUME NEW kind \in Kinds PROVE NumbersOf(then, kind) = 1..Cardinality(DocumentsOf(then, kind))
  <2>1. IsFiniteSet(DocumentsOf(tab, kind)) /\ n \notin DocumentsOf(tab, kind)
    <3>1. DocumentsOf(tab, kind) \subseteq Ids /\ IsFiniteSet(Ids)
      BY RowsAssumption DEF DocumentsOf
    <3> QED
      BY <1>1, <3>1, FS_Subset DEF DocumentsOf
  <2>2. NumbersOf(tab, kind) = 1..Cardinality(DocumentsOf(tab, kind)) /\ Cardinality(DocumentsOf(tab, kind)) \in Nat
    BY <2>1, FS_CardinalityType DEF NeatSales
  <2>3. CASE d.kind = kind
    <3>1. DocumentsOf(then, kind) = DocumentsOf(tab, kind) \cup {n}
      BY <2>3 DEF DocumentsOf
    <3>2. Cardinality(DocumentsOf(then, kind)) = Cardinality(DocumentsOf(tab, kind)) + 1
      BY <2>1, <3>1, FS_AddElement
    <3>3. NumbersOf(then, kind) = NumbersOf(tab, kind) \cup {d.number}
      <4>1. \A i \in DocumentsOf(tab, kind) : then[i].number = tab[i].number
        BY <2>1 DEF DocumentsOf
      <4> QED
        BY <3>1, <4>1 DEF NumbersOf
    <3>4. d.number = Cardinality(DocumentsOf(tab, kind)) + 1
      BY <2>3 DEF NextNumber
    <3> QED
      BY <2>2, <3>2, <3>3, <3>4
  <2>4. CASE d.kind # kind
    <3>1. DocumentsOf(then, kind) = DocumentsOf(tab, kind)
      BY <2>1, <2>4 DEF DocumentsOf
    <3>2. \A i \in DocumentsOf(tab, kind) : then[i].number = tab[i].number
      BY <2>1 DEF DocumentsOf
    <3>3. NumbersOf(then, kind) = NumbersOf(tab, kind)
      BY <3>1, <3>2 DEF NumbersOf
    <3> QED
      BY <2>2, <3>1, <3>3
  <2> QED
    BY <2>3, <2>4
<1>3. \A r : r.source # 0 /\ MadeOf(tab, r) => MadeOf(then, r)
  <2>1. \A k : ~Makes(tab[n].kind, k)
    BY <1>1 DEF Makes, Kinds, Moves
  <2> QED
    BY <2>1 DEF MadeOf
<1>4. ASSUME NEW i \in Ids, then[i].kind \in Kinds, then[i].source # 0 PROVE MadeOf(then, then[i])
  BY <1>3, <1>4 DEF NeatSales, Fresh
<1>5. ASSUME NEW source \in Ids, NEW i \in Makings(then, source) \ but, NEW j \in Makings(then, source) \ but
      PROVE  i = j
  <2>1. \A k \in Makings(then, source) \ {n} : k \in Makings(tab, source)
    BY DEF Makings
  <2>2. n \in Makings(then, source) => Makings(tab, source) = {}
    BY NoIdIsZero DEF Makings, Unmade
  <2> QED
    BY <1>5, <2>1, <2>2 DEF NeatSales
<1>6. \A i \in Ids : OfSales(then[i])
  BY DEF NeatSales, Fresh
<1> QED
  BY <1>2, <1>4, <1>5, <1>6 DEF NeatSales
-----------------------------------------------------------------------------
\* What a statement makes of a row of these tables.
LEMMA SalesMerged ==
    ASSUME NEW r, OfSales(r), NEW set, "kind" \notin DOMAIN set
    PROVE  /\ OfSales(Merge(r, set)) /\ Merge(r, set).kind = r.kind
           /\ r.kind \in Kinds => \A f \in Columns :
                 Merge(r, set)[f] = IF f \in DOMAIN set THEN set[f] ELSE r[f]
<1>1. PICK t : t = Merge(r, set)
  OBVIOUS
<1>2. DOMAIN t = DOMAIN r /\ \A f \in DOMAIN r : t[f] = IF f \in DOMAIN set THEN set[f] ELSE r[f]
  BY <1>1, MergeTells
<1>3. "kind" \in DOMAIN r /\ (r.kind \in Kinds => Columns \subseteq DOMAIN r)
  BY DEF OfSales
<1>4. t.kind = r.kind
  BY <1>2, <1>3
<1>5. OfSales(t)
  BY <1>2, <1>3, <1>4 DEF OfSales
<1>6. r.kind \in Kinds => \A f \in Columns : t[f] = IF f \in DOMAIN set THEN set[f] ELSE r[f]
  BY <1>2, <1>3
<1> QED
  BY <1>1, <1>4, <1>5, <1>6

\* An update is of what is compared with nothing, a move or a deletion.
LEMMA SalesUpdates ==
    ASSUME SalesInv, NEW c \in Callers, Update(c), UNCHANGED restored
    PROVE  SalesInv'
<1> DEFINE e == Head(todo[c])
           rest == Tail(todo[c])
<1>1. todo[c] # <<>> /\ e.do = "update" /\ ~Idle(c)
  BY DEF Update, Idle
<1>2. CASE Throw(c)
  BY <1>1, <1>2, SalesThrows
<1>3. CASE ~Throw(c)
  <2>1. /\ row' = [i \in Ids |-> IF i \in e.ids /\ Exists(i) THEN Merge(row[i], e.set) ELSE row[i]]
        /\ todo' = [todo EXCEPT ![c] = rest] /\ UNCHANGED overlapped
    BY <1>3 DEF Update
  <2>2. ASSUME ~overlapped PROVE KeepsColumns(row, restored, row') /\ SalesScript(row', restored, rest)
    <3>1. NeatSales(row, restored) /\ SalesScript(row, restored, todo[c])
      BY <2>2 DEF SalesInv
    <3>2. PlainList(todo[c]) \/ \E x : todo[c] = <<x>> /\ (MoveTo(row, x) \/ Hiding(restored, x))
      BY <1>1, <3>1, SalesHeads
    <3>3. ASSUME NEW i \in Ids, row'[i] = row[i]
          PROVE  /\ OfSales(row'[i]) /\ row'[i].kind = row[i].kind
                 /\ row'[i].number = row[i].number /\ row'[i].source = row[i].source
                 /\ row'[i].status = row[i].status /\ row'[i].deleted = row[i].deleted
      BY <3>1, <3>3 DEF NeatSales
    <3>4. ASSUME NEW i \in Ids, row'[i] # row[i]
          PROVE  row'[i] = Merge(row[i], e.set) /\ i \in e.ids
      BY <2>1, <3>4
    <3>5. ASSUME NEW i \in Ids, row'[i] # row[i], "kind" \notin DOMAIN e.set
          PROVE  /\ OfSales(row'[i]) /\ row'[i].kind = row[i].kind
                 /\ row[i].kind \in Kinds => \A f \in Columns :
                       row'[i][f] = IF f \in DOMAIN e.set THEN e.set[f] ELSE row[i][f]
      <4>1. OfSales(row[i])
        BY <3>1 DEF NeatSales
      <4> HIDE DEF e
      <4> QED
        BY <3>4, <3>5, <4>1, SalesMerged
    <3> HIDE DEF e, rest
    <3>6. CASE PlainList(todo[c])
      <4>1. Plain(e) /\ PlainList(rest)
        BY <1>1, <3>6, RestIsPlain DEF e, rest
      <4>2. DOMAIN e.set \cap Columns = {}
        BY <1>1, <4>1 DEF Plain
      <4>3. "kind" \notin DOMAIN e.set
        BY <4>2 DEF Columns
      <4>4. ASSUME NEW i \in Ids, row'[i] # row[i], row[i].kind \in Kinds
            PROVE  /\ row'[i].number = row[i].number /\ row'[i].source = row[i].source
                   /\ row'[i].status = row[i].status /\ row'[i].deleted = row[i].deleted
        <5>1. \A f \in Columns : row'[i][f] = row[i][f]
          BY <3>5, <4>2, <4>3, <4>4
        <5> QED
          BY <5>1 DEF Columns
      <4>5. KeepsColumns(row, restored, row')
        BY <3>3, <3>5, <4>3, <4>4 DEF KeepsColumns
      <4> QED
        BY <4>1, <4>5 DEF SalesScript
    <3>7. ASSUME NEW x, todo[c] = <<x>>, MoveTo(row, x)
          PROVE  KeepsColumns(row, restored, row') /\ SalesScript(row', restored, rest)
      <4>1. e = x /\ rest = <<>>
        BY <3>7, ShortLists DEF e, rest
      <4>2. PICK n \in Ids : \E to : /\ e = Set(n, [status |-> to]) /\ row[n].kind \in Kinds
                                     /\ to \in Moves[row[n].kind][row[n].status]
        BY <3>7, <4>1 DEF MoveTo
      <4> PICK to : /\ e = Set(n, [status |-> to]) /\ row[n].kind \in Kinds
                    /\ to \in Moves[row[n].kind][row[n].status]
        BY <4>2
      <4>3. e.ids = {n} /\ e.set = [status |-> to]
        <5>1. PICK fields : fields = [status |-> to]
          OBVIOUS
        <5>2. e = Set(n, fields)
          BY <5>1
        <5> QED
          BY <5>1, <5>2, Statements
      <4>4. DOMAIN e.set = {"status"} /\ e.set["status"] = to
        BY <4>3
      <4>5. ASSUME NEW i \in Ids, row'[i] # row[i]
            PROVE  /\ row'[i].number = row[i].number /\ row'[i].source = row[i].source
                   /\ row'[i].status = to /\ row'[i].deleted = row[i].deleted
                   /\ i = n
        <5>1. i = n
          BY <3>4, <4>3, <4>5
        <5>2. \A f \in Columns : row'[i][f] = IF f = "status" THEN to ELSE row[i][f]
          BY <3>5, <4>2, <4>4, <4>5, <5>1
        <5> QED
          BY <5>1, <5>2 DEF Columns
      <4>6. KeepsColumns(row, restored, row')
        BY <3>3, <3>5, <4>2, <4>4, <4>5 DEF KeepsColumns
      <4> QED
        BY <4>1, <4>6, EmptyIsPlain DEF SalesScript
    <3>8. ASSUME NEW x, todo[c] = <<x>>, Hiding(restored, x)
          PROVE  KeepsColumns(row, restored, row') /\ SalesScript(row', restored, rest)
      <4>1. e = x /\ rest = <<>>
        BY <3>8, ShortLists DEF e, rest
      <4>2. PICK n \in Ids, b \in BOOLEAN : e = Set(n, [deleted |-> b]) /\ (~b => n \in restored)
        BY <3>8, <4>1 DEF Hiding
      <4>3. e.ids = {n} /\ e.set = [deleted |-> b]
        BY <4>2, Statements
      <4>4. DOMAIN e.set = {"deleted"} /\ e.set["deleted"] = b
        BY <4>3
      <4>5. ASSUME NEW i \in Ids, row'[i] # row[i], row[i].kind \in Kinds
            PROVE  /\ row'[i].number = row[i].number /\ row'[i].source = row[i].source
                   /\ row'[i].status = row[i].status /\ row'[i].deleted = b
                   /\ i = n
        <5>1. i = n
          BY <3>4, <4>3, <4>5
        <5>2. \A f \in Columns : row'[i][f] = IF f = "deleted" THEN b ELSE row[i][f]
          BY <3>5, <4>4, <4>5, <5>1
        <5> QED
          BY <5>1, <5>2 DEF Columns
      <4>6. KeepsColumns(row, restored, row')
        BY <3>3, <3>5, <4>2, <4>4, <4>5 DEF KeepsColumns
      <4> QED
        BY <4>1, <4>6, EmptyIsPlain DEF SalesScript
    <3> QED
      BY <3>2, <3>6, <3>7, <3>8
  <2>3. ~overlapped => NeatSales(row', restored)
    <3>1. DOMAIN row' = Ids
      BY <2>1
    <3> QED
      BY <2>2, <3>1, SalesKept DEF SalesInv
  <2> HIDE DEF e, rest
  <2> QED
    BY <1>1, <2>1, <2>2, <2>3, SalesExecutes
<1> QED
  BY <1>2, <1>3

\* A document is inserted.
LEMMA SalesCreates ==
    ASSUME SalesInv, NEW c \in Callers, Create(c), UNCHANGED restored
    PROVE  SalesInv'
<1>1. ~Idle(c) /\ todo[c] # <<>> /\ Head(todo[c]).do = "create" /\ Room
  BY DEF Create, Idle
<1>2. CASE Throw(c)
  BY <1>1, <1>2, SalesThrows
<1>3. CASE ~Throw(c)
  <2>1. /\ row' = [row EXCEPT ![NextId] = Head(todo[c]).set]
        /\ todo' = [todo EXCEPT ![c] = Tail(todo[c])] /\ UNCHANGED overlapped
    BY <1>3 DEF Create
  <2>2. ASSUME ~overlapped PROVE NeatSales(row', restored) /\ SalesScript(row', restored, Tail(todo[c]))
    <3>1. NeatSales(row, restored) /\ SalesScript(row, restored, todo[c])
      BY <2>2 DEF SalesInv
    <3>2. PICK e : todo[c] = <<e>> /\ Making(row, e)
      BY <1>1, <3>1, SalesHeads
    <3>3. PICK d : e = Insert(d) /\ Fresh(row, d) /\ Unmade(row, d) /\ d.number = NextNumber(row, d.kind)
      BY <3>2 DEF Making
    <3>4. Head(todo[c]) = e /\ Tail(todo[c]) = <<>> /\ e.set = d
      BY <3>2, <3>3, ShortLists, Statements
    <3>5. PICK n : n = NextId
      OBVIOUS
    <3>6. n \in Ids /\ row[n] = NoRow
      BY <1>1, <3>5, NextIsFree
    <3>7. DOMAIN row = Ids
      BY <3>1 DEF NeatSales
    <3>8. DOMAIN row' = Ids /\ row'[n] = d /\ \A i \in Ids \ {n} : row'[i] = row[i]
      BY <2>1, <3>4, <3>5, <3>6, <3>7
    <3>9. NeatSales(row', restored)
      BY <3>1, <3>3, <3>6, <3>8, SalesAdded
    <3> QED
      BY <3>4, <3>9, EmptyIsPlain DEF SalesScript
  <2> QED
    BY <1>1, <2>1, <2>2, SalesExecutes
<1> QED
  BY <1>2, <1>3

\* The documents of its kind are counted: what is left is the insert.
LEMMA CountLeaves ==
    ASSUME SalesInv, ~overlapped, NEW c \in Callers, ReadCount(c)
    PROVE  \E f : todo' = [todo EXCEPT ![c] = <<Insert(f)>>] /\ Making(row, Insert(f))
<1> DEFINE n == Cardinality({i \in Ids : row[i].kind = todo[c][2].set.kind})
<1>1. /\ ~Idle(c) /\ Head(todo[c]).do = "count"
      /\ todo' = [todo EXCEPT ![c] = [Tail(todo[c]) EXCEPT ![1].set.number = n + 1]]
  BY DEF ReadCount, Read
<1>2. SalesScript(row, restored, todo[c]) /\ todo[c] # <<>>
  BY <1>1 DEF SalesInv, Idle
<1>3. PICK d : todo[c] = <<Count, Insert(d)>> /\ Fresh(row, d) /\ Unmade(row, d)
  BY <1>1, <1>2, SalesHeads DEF Numbered
<1>4. PICK e : e = Insert(d)
  OBVIOUS
<1>5. Tail(todo[c]) = <<e>> /\ todo[c][2] = e /\ e.set = d
  BY <1>3, <1>4, ShortLists, Statements
<1>6. n + 1 = NextNumber(row, d.kind)
  BY <1>5 DEF NextNumber, DocumentsOf
<1> HIDE DEF n
<1>7. PICK m : m = n + 1
  OBVIOUS
<1>8. PICK f : f = [d EXCEPT !.number = m]
  OBVIOUS
<1>9. /\ DOMAIN f = DOMAIN d /\ f.kind = d.kind /\ f.status = d.status /\ f.source = d.source
      /\ f.deleted = d.deleted /\ f.number = m
  BY <1>3, <1>8 DEF Fresh, OfSales, Columns
<1>10. Fresh(row, f) /\ Unmade(row, f)
  BY <1>3, <1>9 DEF Fresh, Unmade, OfSales, MadeOf
<1>11. Making(row, Insert(f))
  BY <1>6, <1>7, <1>9, <1>10 DEF Making
<1>12. [Tail(todo[c]) EXCEPT ![1].set.number = m] = <<Insert(f)>>
  <2>1. [e EXCEPT !.set.number = m] = Insert(f)
    BY <1>4, <1>8 DEF Insert
  <2>2. [<<e>> EXCEPT ![1].set.number = m] = <<[e EXCEPT !.set.number = m]>>
    OBVIOUS
  <2> QED
    BY <1>5, <2>1, <2>2
<1> QED
  BY <1>1, <1>7, <1>11, <1>12

LEMMA SalesCounts ==
    ASSUME SalesInv, NEW c \in Callers, ReadCount(c), UNCHANGED restored
    PROVE  SalesInv'
<1>1. PICK rest : ~Idle(c) /\ todo' = [todo EXCEPT ![c] = rest] /\ UNCHANGED <<row, begun, overlapped, died>>
  BY DEF ReadCount, Read
<1>2. CASE overlapped
  BY <1>1, <1>2, SalesExecutes
<1>3. CASE ~overlapped
  <2>1. PICK f : todo' = [todo EXCEPT ![c] = <<Insert(f)>>] /\ Making(row, Insert(f))
    BY <1>3, CountLeaves
  <2>2. NeatSales(row', restored) /\ SalesScript(row', restored, <<Insert(f)>>)
    BY <1>1, <1>3, <2>1 DEF SalesInv, SalesScript
  <2> QED
    BY <1>1, <2>1, <2>2, SalesExecutes
<1> QED
  BY <1>2, <1>3

\* The conversions there are of a document are looked up.
LEMMA SalesLooks ==
    ASSUME SalesInv, NEW c \in Callers, ReadConversions(c), UNCHANGED restored
    PROVE  SalesInv'
<1> DEFINE rest == IF Converted(Head(todo[c]).source) THEN <<>> ELSE Tail(todo[c])
<1>1. /\ ~Idle(c) /\ Head(todo[c]).do = "unless" /\ UNCHANGED <<row, begun, overlapped, died>>
      /\ todo' = [todo EXCEPT ![c] = rest]
  BY DEF ReadConversions, Read
<1>2. ASSUME ~overlapped PROVE NeatSales(row', restored) /\ SalesScript(row', restored, rest)
  <2>1. NeatSales(row, restored) /\ SalesScript(row, restored, todo[c]) /\ todo[c] # <<>>
    BY <1>1, <1>2 DEF SalesInv, Idle
  <2>2. PICK d : todo[c] = <<Unless(d.source), Count, Insert(d)>> /\ Fresh(row, d) /\ d.source \in Ids
    BY <1>1, <2>1, SalesHeads DEF Converting
  <2>3. Head(todo[c]) = Unless(d.source) /\ Tail(todo[c]) = <<Count, Insert(d)>>
    BY <2>2, ShortLists
  <2>4. Head(todo[c]).source = d.source
    BY <2>3 DEF Unless
  <2>5. CASE Converted(d.source)
    BY <1>1, <2>1, <2>4, <2>5, EmptyIsPlain DEF SalesScript
  <2>6. CASE ~Converted(d.source)
    <3>1. Makings(row, d.source) = {}
      BY <2>6 DEF Makings, Converted, Exists, NoRow, Gone, Kinds, Moves
    <3>2. Numbered(row, Tail(todo[c]))
      BY <2>2, <2>3, <3>1 DEF Numbered, Unmade
    <3> QED
      BY <1>1, <2>1, <2>4, <2>6, <3>2 DEF SalesScript
  <2> QED
    BY <2>5, <2>6
<1> HIDE DEF rest
<1> QED
  BY <1>1, <1>2, SalesExecutes

\* Totals, lines and the count of their keys are compared with nothing.
LEMMA SalesComputes ==
    ASSUME SalesInv, NEW c \in Callers, ReadTotals(c), UNCHANGED restored
    PROVE  SalesInv'
<1>1. PICK totals : /\ ~Idle(c) /\ Head(todo[c]).do = "recalculate"
                    /\ UNCHANGED <<row, begun, overlapped, died>>
                    /\ todo' = [todo EXCEPT ![c] = [Tail(todo[c]) EXCEPT ![1].set.totals = totals]]
  BY DEF ReadTotals, Read
<1>2. ASSUME ~overlapped
      PROVE  NeatSales(row', restored) /\ SalesScript(row', restored, [Tail(todo[c]) EXCEPT ![1].set.totals = totals])
  <2>1. NeatSales(row, restored) /\ SalesScript(row, restored, todo[c]) /\ todo[c] # <<>>
    BY <1>1, <1>2 DEF SalesInv, Idle
  <2>2. PlainList(todo[c])
    BY <1>1, <2>1, SalesHeads
  <2>3. PICK q : q = Tail(todo[c])
    OBVIOUS
  <2>4. PICK S : q \in Seq(S) /\ \A e \in S : Plain(e)
    BY <2>1, <2>2, <2>3, RestIsPlain DEF PlainList
  <2>5. PlainList([q EXCEPT ![1].set.totals = totals])
    <3>1. CASE q = <<>>
      <4>1. 1 \notin DOMAIN q
        BY <3>1
      <4>2. [q EXCEPT ![1].set.totals = totals] = q
        BY <4>1, <2>4
      <4> QED
        BY <3>1, <4>2, EmptyIsPlain
    <3>2. CASE q # <<>>
      <4>1. PICK e : e = q[1]
        OBVIOUS
      <4>2. e \in S /\ 1 \in 1..Len(q)
        BY <2>4, <3>2, <4>1, ElementOfSeq, LenProperties, EmptySeq
      <4>3. PICK f : f = [e EXCEPT !.set.totals = totals]
        OBVIOUS
      <4>4. Plain(e)
        BY <2>4, <4>2
      <4>5. DOMAIN f = DOMAIN e /\ f.do = e.do
        BY <4>3, <4>4 DEF Plain
      <4>6. "set" \in DOMAIN e => f.set = [e.set EXCEPT !.totals = totals]
        BY <4>3
      <4>7. "set" \in DOMAIN e => DOMAIN f.set = DOMAIN e.set
        BY <4>6
      <4>8. Plain(f)
        BY <4>4, <4>5, <4>7 DEF Plain
      <4>9. [q EXCEPT ![1].set.totals = totals] = [q EXCEPT ![1] = f]
        BY <4>1, <4>3
      <4>10. PICK T : T = S \cup {f}
        OBVIOUS
      <4>11. q \in Seq(T) /\ f \in T /\ \A x \in T : Plain(x)
        BY <2>4, <4>8, <4>10, SeqMonotonic
      <4>12. [q EXCEPT ![1] = f] \in Seq(T)
        BY <4>2, <4>11, ExceptSeq
      <4> QED
        BY <4>9, <4>11, <4>12 DEF PlainList
    <3> QED
      BY <3>1, <3>2
  <2> QED
    BY <1>1, <2>1, <2>3, <2>5 DEF SalesScript
<1> QED
  BY <1>1, <1>2, SalesExecutes

Relined(r, t) == \E lines, keys : t = [r EXCEPT !.lines = lines, !.keys = keys]
LEMMA LinesChange ==
    ASSUME SalesInv, NEW c \in Callers, ~Idle(c), Head(todo[c]).do \in {"addLines", "setLine"},
           NEW n, NEW r, Relined(row[n], r), row' = [row EXCEPT ![n] = r],
           todo' = [todo EXCEPT ![c] = Tail(todo[c])], UNCHANGED overlapped, UNCHANGED restored
    PROVE  SalesInv'
<1>1. ASSUME ~overlapped PROVE NeatSales(row', restored) /\ SalesScript(row', restored, Tail(todo[c]))
  <2>1. NeatSales(row, restored) /\ SalesScript(row, restored, todo[c]) /\ todo[c] # <<>>
    BY <1>1 DEF SalesInv, Idle
  <2>2. PlainList(Tail(todo[c]))
    BY <2>1, SalesHeads, RestIsPlain
  <2>3. DOMAIN row' = Ids
    BY <2>1 DEF NeatSales
  <2>5. /\ DOMAIN r = DOMAIN row[n]
        /\ \A f \in DOMAIN row[n] : f \notin {"lines", "keys"} => r[f] = row[n][f]
    BY DEF Relined
  <2>6. ASSUME NEW i \in Ids PROVE row'[i] = IF i = n THEN r ELSE row[i]
    BY <2>1 DEF NeatSales
  <2>7. ASSUME n \in Ids
        PROVE  /\ OfSales(r) /\ r.kind = row[n].kind
               /\ row[n].kind \in Kinds => /\ r.number = row[n].number /\ r.source = row[n].source
                                         /\ r.status = row[n].status /\ r.deleted = row[n].deleted
    <3>1. OfSales(row[n])
      BY <2>1, <2>7 DEF NeatSales
    <3>2. r.kind = row[n].kind
      BY <2>5, <3>1 DEF OfSales
    <3> QED
      BY <2>5, <3>1, <3>2 DEF OfSales, Columns
  <2>8. \A i \in Ids : OfSales(row[i])
    BY <2>1 DEF NeatSales
  <2>9. KeepsColumns(row, restored, row')
    BY SMTT(60), <2>6, <2>7, <2>8 DEF KeepsColumns
  <2> QED
    BY <2>1, <2>2, <2>3, <2>9, SalesKept DEF SalesScript
<1> QED
  BY <1>1, SalesExecutes

LEMMA SalesLines ==
    ASSUME SalesInv, NEW c \in Callers, InsertLines(c) \/ WriteLine(c), UNCHANGED restored
    PROVE  SalesInv'
<1>1. CASE InsertLines(c)
  <2> DEFINE s == Head(todo[c])
             new == [k \in DOMAIN s.lines |-> [s.lines[k] EXCEPT !.key = row[s.id].keys + k]]
  <2>1. /\ ~Idle(c) /\ s.do = "addLines" /\ todo' = [todo EXCEPT ![c] = Tail(todo[c])]
        /\ UNCHANGED <<begun, overlapped>>
        /\ row' = [row EXCEPT ![s.id].lines = @ \o new, ![s.id].keys = @ + Len(new)]
    BY <1>1 DEF InsertLines
  <2> HIDE DEF s, new
  <2>2. PICK r : r = [row[s.id] EXCEPT !.lines = row[s.id].lines \o new, !.keys = row[s.id].keys + Len(new)]
    OBVIOUS
  <2>3. row' = [row EXCEPT ![s.id] = r]
    BY <2>1, <2>2
  <2>4. Relined(row[s.id], r)
    BY ZenonT(60), <2>2 DEF Relined
  <2>5. Head(todo[c]).do \in {"addLines", "setLine"}
    BY <2>1 DEF s
  <2> QED
    BY <2>1, <2>3, <2>4, <2>5, LinesChange
<1>2. CASE WriteLine(c)
  <2> DEFINE s == Head(todo[c])
             at == Line(s.id, s.key)
             l == IF s.item = <<>> THEN RemoveAt(row[s.id].lines, CHOOSE k \in at : TRUE)
                  ELSE [row[s.id].lines EXCEPT ![CHOOSE k \in at : TRUE] = [s.item EXCEPT !.key = s.key]]
  <2>1. ~Idle(c) /\ s.do = "setLine" /\ UNCHANGED <<begun, overlapped>>
    BY <1>2 DEF WriteLine
  <2>2. CASE at = {}
    <3>1. Throw(c)
      BY <1>2, <2>2 DEF WriteLine, Throw
    <3> QED
      BY <2>1, <3>1, SalesThrows
  <2>3. CASE at # {}
    <3>1. todo' = [todo EXCEPT ![c] = Tail(todo[c])] /\ row' = [row EXCEPT ![s.id].lines = l]
      BY <1>2, <2>3 DEF WriteLine
    <3> HIDE DEF s, l
    <3>2. PICK r : r = row[s.id]
      OBVIOUS
    <3>3. [r EXCEPT !.lines = l] = [r EXCEPT !.lines = l, !.keys = r.keys]
      OBVIOUS
    <3>4. row' = [row EXCEPT ![s.id] = [r EXCEPT !.lines = l]]
      BY <3>1, <3>2
    <3>5. PICK t : t = [r EXCEPT !.lines = l]
      OBVIOUS
    <3>6. row' = [row EXCEPT ![s.id] = t] /\ Relined(row[s.id], t)
      BY <3>2, <3>3, <3>4, <3>5 DEF Relined
    <3>7. Head(todo[c]).do \in {"addLines", "setLine"}
      BY <2>1 DEF s
    <3> QED
      BY <2>1, <3>1, <3>6, <3>7, LinesChange
  <2> QED
    BY SMTT(60), <2>2, <2>3
<1> QED
  BY <1>1, <1>2
-----------------------------------------------------------------------------
\* A call that begins leaves statements of one of these forms.
LEMMA DocumentIs ==
    ASSUME NEW kind, NEW form, NEW source, NEW d, d = Document(kind, form, source)
    PROVE  /\ Columns \cup {"lines", "totals"} \subseteq DOMAIN d /\ d.kind = kind /\ d.status = "DRAFT"
           /\ d.source = source /\ ~d.deleted
BY DEF Document, Columns

LEMMA NewKeeps ==
    ASSUME SalesInv, NEW c \in Callers, NEW kind \in Kinds, NEW form, New(c, kind, form)
    PROVE  SalesInv'
<1>1. PICK d : d = Document(kind, form, 0)
  OBVIOUS
<1>2. Begin(c, <<Count, Insert(d)>>) /\ restored' = restored
  BY <1>1 DEF New, BeginInsert
<1>3. Fresh(row, d) /\ Unmade(row, d)
  BY <1>1, DocumentIs DEF Fresh, Unmade, OfSales, Columns
<1>4. SalesScript(row, restored', <<Count, Insert(d)>>)
  BY <1>3 DEF SalesScript, Numbered
<1> QED
  BY <1>2, <1>4, SalesBegins

LEMMA ConvertKeeps ==
    ASSUME SalesInv, NEW c \in Callers, NEW i \in Ids,
           NEW from \in {"quotation", "order"}, NEW form,
           Found(i, from), row[i].status = Final(IF from = "quotation" THEN "order" ELSE "invoice"),
           Begin(c, <<Unless(i), Count,
                      Insert(Document(IF from = "quotation" THEN "order" ELSE "invoice", form, i))>>),
           UNCHANGED restored
    PROVE  SalesInv'
<1> DEFINE to == IF from = "quotation" THEN "order" ELSE "invoice"
<1>1. PICK d : d = Document(to, form, i)
  OBVIOUS
<1>2. /\ Columns \cup {"lines", "totals"} \subseteq DOMAIN d /\ d.kind = to /\ d.status = "DRAFT"
      /\ d.source = i /\ ~d.deleted
  BY <1>1, DocumentIs
<1>3. to \in Kinds /\ Makes(row[i].kind, to)
  BY DEF Kinds, Moves, Makes, Found
<1> HIDE DEF to
<1>4. MadeOf(row, d)
  BY <1>2, <1>3 DEF MadeOf, to
<1>5. Fresh(row, d)
  BY <1>2, <1>3, <1>4 DEF Fresh, OfSales, Columns
<1>6. SalesScript(row, restored', <<Unless(i), Count, Insert(d)>>)
  BY <1>2, <1>5 DEF SalesScript, Converting
<1> QED
  BY <1>1, <1>6, SalesBegins DEF to

LEMMA PlainKeeps ==
    ASSUME SalesInv, NEW c \in Callers, NEW st, Begin(c, st), UNCHANGED restored, PlainList(st)
    PROVE  SalesInv'
BY SalesBegins DEF SalesScript

\* What writes no column that is compared,
LEMMA SetIsPlain ==
    ASSUME NEW i, NEW fields, DOMAIN fields \cap Columns = {}
    PROVE  Plain(Set(i, fields))
BY DEF Plain, Set
LEMMA LinesArePlain ==
    ASSUME NEW i, NEW x, NEW y
    PROVE  Plain(AddLines(i, x)) /\ Plain(SetLine(i, x, y))
BY DEF Plain, AddLines, SetLine
LEMMA RecalculateIsPlain ==
    ASSUME NEW i, NEW shipping
    PROVE  PlainList(Recalculate(i, shipping))
<1>1. PICK e : e = [do |-> "recalculate", id |-> i, shipping |-> shipping]
  OBVIOUS
<1>2. PICK f : f = Set(i, [totals |-> 0])
  OBVIOUS
<1>3. Plain(e)
  BY <1>1 DEF Plain
<1>4. Plain(f)
  <2>1. DOMAIN [totals |-> 0] \cap Columns = {}
    BY DEF Columns
  <2> QED
    BY <1>2, <2>1, SetIsPlain
<1>5. PICK S : S = {e, f}
  OBVIOUS
<1>6. <<e, f>> \in Seq(S) /\ \A x \in S : Plain(x)
  BY <1>3, <1>4, <1>5
<1> QED
  BY <1>1, <1>2, <1>6 DEF PlainList, Recalculate

\* so the edits of a document,
LEMMA EditKeeps ==
    ASSUME SalesInv, NEW c \in Callers, NEW i, NEW fields, DOMAIN fields \cap Columns = {},
           NEW lines, NEW shipping, Edit(c, i, fields, lines, shipping)
    PROVE  SalesInv'
<1> DEFINE mid == IF lines = <<>> THEN <<>> ELSE <<Set(i, [lines |-> <<>>]), AddLines(i, lines)>>
<1>1. Begin(c, <<Set(i, fields)>> \o mid \o Recalculate(i, shipping)) /\ UNCHANGED restored
  BY DEF Edit
<1>2. PlainList(<<Set(i, fields)>>)
  BY SetIsPlain, OneIsPlain
<1>3. PlainList(mid)
  <2>1. PICK e : e = Set(i, [lines |-> <<>>])
    OBVIOUS
  <2>2. PICK f : f = AddLines(i, lines)
    OBVIOUS
  <2>3. DOMAIN [lines |-> <<>>] \cap Columns = {}
    BY DEF Columns
  <2>4. Plain(e) /\ Plain(f)
    BY <2>1, <2>2, <2>3, SetIsPlain, LinesArePlain
  <2>5. PICK S : S = {e, f}
    OBVIOUS
  <2>6. <<e, f>> \in Seq(S) /\ \A x \in S : Plain(x)
    BY <2>4, <2>5
  <2>7. PlainList(<<e, f>>)
    BY <2>6 DEF PlainList
  <2> QED
    BY <2>1, <2>2, <2>7, EmptyIsPlain
<1> HIDE DEF mid
<1>4. PlainList(<<Set(i, fields)>> \o mid)
  BY <1>2, <1>3, JoinedArePlain
<1>5. PlainList((<<Set(i, fields)>> \o mid) \o Recalculate(i, shipping))
  BY <1>4, RecalculateIsPlain, JoinedArePlain
<1> QED
  BY <1>1, <1>5, PlainKeeps

LEMMA DocumentUpdates ==
    ASSUME SalesInv, NEW c \in Callers, NEW i,
           UpdateQuotation(c, i) \/ UpdateOrder(c, i) \/ UpdateInvoice(c, i)
    PROVE  SalesInv'
<1>1. \A f : /\ DOMAIN [discountType |-> f.discountType, discountValue |-> f.discountValue,
                       shipping |-> f.shipping] \cap Columns = {}
            /\ DOMAIN [shipping |-> f.shipping] \cap Columns = {}
  <2>1. \A a, b, s : /\ DOMAIN [discountType |-> a, discountValue |-> b, shipping |-> s] \cap Columns = {}
                    /\ DOMAIN [shipping |-> s] \cap Columns = {}
    BY DEF Columns
  <2> QED
    BY <2>1
<1>2. CASE UpdateQuotation(c, i)
  BY <1>1, <1>2, EditKeeps DEF UpdateQuotation
<1>3. CASE UpdateOrder(c, i)
  BY <1>1, <1>3, EditKeeps DEF UpdateOrder
<1>4. CASE UpdateInvoice(c, i)
  BY <1>1, <1>4, EditKeeps DEF UpdateInvoice
<1> QED
  BY <1>2, <1>3, <1>4

\* and the operations on single lines.
LEMMA ItemsKeep ==
    ASSUME SalesInv, NEW c \in Callers, NEW i,
           AddItem(c, i) \/ UpdateItem(c, i) \/ DeleteItem(c, i)
    PROVE  SalesInv'
<1>1. ASSUME NEW e, Plain(e), Begin(c, <<e>> \o Recalculate(i, 0)), UNCHANGED restored PROVE SalesInv'
  BY <1>1, OneIsPlain, RecalculateIsPlain, JoinedArePlain, PlainKeeps
<1>2. CASE AddItem(c, i)
  BY <1>1, <1>2, LinesArePlain DEF AddItem
<1>3. CASE UpdateItem(c, i)
  BY <1>1, <1>3, LinesArePlain DEF UpdateItem
<1>4. CASE DeleteItem(c, i)
  BY <1>1, <1>4, LinesArePlain DEF DeleteItem
<1> QED
  BY <1>2, <1>3, <1>4

\* A change of status is along the tables; what is restored is on record.
LEMMA ChangeKeeps ==
    ASSUME SalesInv, NEW c \in Callers, NEW i \in Ids, NEW kind \in Kinds, NEW to,
           ChangeStatus(c, i, kind, to)
    PROVE  SalesInv'
<1>1. PICK e : e = Set(i, [status |-> to])
  OBVIOUS
<1>2. MoveTo(row, e)
  BY <1>1 DEF ChangeStatus, Found, validateStatusTransition, MoveTo
<1>3. SalesScript(row, restored', <<e>>)
  BY <1>2 DEF SalesScript
<1> QED
  BY <1>1, <1>3, SalesBegins DEF ChangeStatus

LEMMA HideKeeps ==
    ASSUME SalesInv, NEW c \in Callers, NEW i \in Ids, SetDeleted(c, i) \/ \E kind : Restore(c, i, kind)
    PROVE  SalesInv'
<1>1. ASSUME NEW b \in BOOLEAN, Begin(c, <<Set(i, [deleted |-> b])>>), ~b => i \in restored',
             restored \subseteq restored'
      PROVE  SalesInv'
  <2>1. PICK e : e = Set(i, [deleted |-> b])
    OBVIOUS
  <2>2. Hiding(restored', e)
    BY <1>1, <2>1 DEF Hiding
  <2>3. SalesScript(row, restored', <<e>>)
    BY <2>2 DEF SalesScript
  <2> QED
    BY <1>1, <2>1, <2>3, SalesBegins
<1>2. CASE SetDeleted(c, i)
  BY <1>1, <1>2 DEF SetDeleted
<1>3. CASE \E kind : Restore(c, i, kind)
  BY <1>1, <1>3 DEF Restore
<1> QED
  BY <1>2, <1>3

LEMMA SalesKinds == Kinds = {"quotation", "order", "invoice"}
BY DEF Kinds, Moves

LEMMA QuotationsKeep ==
    ASSUME SalesInv, NEW c \in Callers, QuotationCall(c)
    PROVE  SalesInv'
<1>1. "quotation" \in Kinds
  BY SalesKinds
<1>2. CASE CreateQuotation(c)
  BY <1>1, <1>2, NewKeeps DEF CreateQuotation
<1>3. ASSUME NEW i \in Ids, UpdateQuotation(c, i) \/ AddItem(c, i) \/ UpdateItem(c, i) \/ DeleteItem(c, i)
      PROVE  SalesInv'
  BY <1>3, DocumentUpdates, ItemsKeep
<1>4. ASSUME NEW i \in Ids, SendQuotation(c, i) \/ AcceptQuotation(c, i) \/ RejectQuotation(c, i)
                             \/ CancelQuotation(c, i)
      PROVE  SalesInv'
  BY <1>1, <1>4, ChangeKeeps DEF SendQuotation, AcceptQuotation, RejectQuotation, CancelQuotation
<1>5. ASSUME NEW i \in Ids, DuplicateQuotation(c, i) PROVE SalesInv'
  BY <1>1, <1>5, NewKeeps DEF DuplicateQuotation
<1>6. ASSUME NEW i \in Ids, ArchiveQuotation(c, i) \/ RestoreQuotation(c, i) \/ DeleteQuotation(c, i)
      PROVE  SalesInv'
  BY <1>6, HideKeeps DEF ArchiveQuotation, RestoreQuotation, DeleteQuotation
<1> QED
  BY <1>2, <1>3, <1>4, <1>5, <1>6 DEF QuotationCall

LEMMA OrdersKeep ==
    ASSUME SalesInv, NEW c \in Callers, OrderCall(c)
    PROVE  SalesInv'
<1>1. "order" \in Kinds
  BY SalesKinds
<1>2. CASE CreateOrder(c)
  BY <1>1, <1>2, NewKeeps DEF CreateOrder
<1>3. ASSUME NEW i \in Ids, UpdateOrder(c, i) PROVE SalesInv'
  BY <1>3, DocumentUpdates
<1>4. ASSUME NEW i \in Ids, ConfirmOrder(c, i) \/ ChangeOrderStatus(c, i) \/ CancelOrder(c, i)
      PROVE  SalesInv'
  BY <1>1, <1>4, ChangeKeeps DEF ConfirmOrder, ChangeOrderStatus, CancelOrder
<1>5. ASSUME NEW i \in Ids, DuplicateOrder(c, i) PROVE SalesInv'
  BY <1>1, <1>5, NewKeeps DEF DuplicateOrder
<1>6. ASSUME NEW i \in Ids, ArchiveOrder(c, i) \/ RestoreOrder(c, i) \/ DeleteOrder(c, i)
      PROVE  SalesInv'
  BY <1>6, HideKeeps DEF ArchiveOrder, RestoreOrder, DeleteOrder
<1>7. ASSUME NEW i \in Ids, ConvertFromQuotation(c, i) PROVE SalesInv'
  BY <1>7, ConvertKeeps DEF ConvertFromQuotation, BeginInsert, Final
<1> QED
  BY <1>2, <1>3, <1>4, <1>5, <1>6, <1>7 DEF OrderCall

LEMMA InvoicesKeep ==
    ASSUME SalesInv, NEW c \in Callers, InvoiceCall(c)
    PROVE  SalesInv'
<1>1. "invoice" \in Kinds
  BY SalesKinds
<1>2. CASE CreateInvoice(c)
  BY <1>1, <1>2, NewKeeps DEF CreateInvoice
<1>3. ASSUME NEW i \in Ids, UpdateInvoice(c, i) PROVE SalesInv'
  BY <1>3, DocumentUpdates
<1>4. ASSUME NEW i \in Ids, SendInvoice(c, i) \/ VoidInvoice(c, i)
      PROVE  SalesInv'
  BY <1>1, <1>4, ChangeKeeps DEF SendInvoice, VoidInvoice
<1>5. ASSUME NEW i \in Ids, DuplicateInvoice(c, i) PROVE SalesInv'
  BY <1>1, <1>5, NewKeeps DEF DuplicateInvoice
<1>6. ASSUME NEW i \in Ids, ArchiveInvoice(c, i) \/ RestoreInvoice(c, i) \/ DeleteInvoice(c, i)
      PROVE  SalesInv'
  BY <1>6, HideKeeps DEF ArchiveInvoice, RestoreInvoice, DeleteInvoice
<1>7. ASSUME NEW i \in Ids, CreateFromSalesOrder(c, i) PROVE SalesInv'
  BY <1>7, ConvertKeeps DEF CreateFromSalesOrder, BeginInsert, Final
<1> QED
  BY <1>2, <1>3, <1>4, <1>5, <1>6, <1>7 DEF InvoiceCall
-----------------------------------------------------------------------------
\* What is said of documents holds at first,
LEMMA SalesStart == SalesInit => SalesInv
<1> SUFFICES ASSUME SalesInit PROVE SalesInv
  OBVIOUS
<1>1. NeatSales(row, restored)
  BY SalesAssumption DEF SalesInit
<1>2. DOMAIN todo = Callers /\ \A c \in Callers : todo[c] = <<>>
  BY DEF SalesInit, RowsInit
<1>3. OneCall /\ \A c \in Callers : SalesScript(row, restored, todo[c])
  BY <1>2, EmptyIsPlain DEF OneCall, Idle, SalesScript
<1> QED
  BY <1>1, <1>2, <1>3 DEF SalesInv

\* and after every step.
LEMMA SalesStep ==
    ASSUME SalesInv, SalesNext
    PROVE  SalesInv'
<1>1. ASSUME NEW c \in Callers, Ready(c), QuotationCall(c) \/ OrderCall(c) \/ InvoiceCall(c) PROVE SalesInv'
  BY <1>1, QuotationsKeep, OrdersKeep, InvoicesKeep
<1>2. ASSUME NEW c \in Callers, Statement(c) PROVE SalesInv'
  <2>1. UNCHANGED restored
    BY <1>2 DEF Statement
  <2>2. CASE Update(c) \/ Create(c) \/ ReadCount(c)
    BY <2>1, <2>2, SalesUpdates, SalesCreates, SalesCounts
  <2>3. CASE ReadConversions(c) \/ ReadTotals(c) \/ InsertLines(c) \/ WriteLine(c)
    BY <2>1, <2>3, SalesLooks, SalesComputes, SalesLines
  <2>4. CASE Die(c)
    BY <2>1, <2>4, SalesThrows DEF Die
  <2> QED
    BY <1>2, <2>2, <2>3, <2>4 DEF Statement
<1> QED
  BY <1>1, <1>2 DEF SalesNext

LEMMA SalesStutter == SalesInv /\ UNCHANGED salesVars => SalesInv'
BY DEF SalesInv, salesVars, rowVars, OneCall, Idle

LEMMA SalesFollow == SalesInv => NumbersGapless /\ Conversions
<1> SUFFICES ASSUME SalesInv, ~overlapped PROVE NumbersGapless /\ Conversions
  BY DEF NumbersGapless, Conversions, MadeOfFinal, ConvertedOnce
<1>1. NeatSales(row, restored)
  BY DEF SalesInv
<1>2. NumbersGapless
  BY <1>1 DEF NumbersGapless, NeatSales, NumbersOf, DocumentsOf
<1>3. MadeOfFinal
  BY <1>1 DEF MadeOfFinal, NeatSales, MadeOf, IsDocument, Final
<1>4. ConvertedOnce
  <2> SUFFICES ASSUME NEW i \in Ids \ restored, NEW j \in Ids \ restored, IsDocument(i), IsDocument(j),
                      row[i].source # 0, row[i].source = row[j].source, ~row[i].deleted, ~row[j].deleted
               PROVE  i = j
    BY DEF ConvertedOnce
  <2>1. row[i].source \in Ids
    BY <1>1 DEF NeatSales, MadeOf, IsDocument
  <2>2. {i, j} \subseteq Makings(row, row[i].source) \ restored
    BY DEF Makings, IsDocument
  <2> QED
    BY <1>1, <2>1, <2>2 DEF NeatSales
<1> QED
  BY <1>2, <1>3, <1>4 DEF Conversions

\* In a behaviour that exercises sales.
SalesPart == part = "sales" => SalesInv
LEMMA SalesPartStart == ServicesInit => SalesPart
BY SalesStart DEF ServicesInit, SalesPart
LEMMA SalesPartStep == SalesPart /\ [ServicesNext]_serviceVars => SalesPart'
<1> SUFFICES ASSUME SalesPart, [ServicesNext]_serviceVars, part' = "sales" PROVE SalesInv'
  BY DEF SalesPart
<1>1. CASE ServicesNext
  <2>1. part = "sales" /\ SalesNext
    BY <1>1 DEF ServicesNext
  <2> QED
    BY <2>1, SalesStep DEF SalesPart
<1>2. CASE UNCHANGED serviceVars
  <2>1. part = "sales" /\ UNCHANGED salesVars
    BY <1>2 DEF serviceVars, salesVars
  <2> QED
    BY <2>1, SalesStutter DEF SalesPart
<1> QED
  BY <1>1, <1>2

\* As long as calls do not overlap, whichever of them die: an order is made of
\* an accepted quotation and an invoice of a fulfilled order, or one cancelled
\* since, and of each is made one, but for what was restored from the archive
\* (convertFromQuotation, createFromSalesOrder).
THEOREM ConversionsAlwaysHold == ServicesSpec => [](part = "sales" => Conversions)
<1>1. SalesPart => (part = "sales" => Conversions)
  BY SalesFollow DEF SalesPart
<1> QED
  BY <1>1, SalesPartStart, SalesPartStep, PTL DEF ServicesSpec
-----------------------------------------------------------------------------
(* What was sent (SalesDocuments).                                          *)

\* As long as calls do not overlap, whatever of a call writes lines or totals
\* is about documents that are drafts still.
IsDraft(tab, n) == n \in Ids /\ tab[n].kind \in Kinds /\ tab[n].status = "DRAFT"
Drafting(tab, e) ==
    /\ "do" \in DOMAIN e
    /\ e.do = "update" =>
         /\ {"ids", "set"} \subseteq DOMAIN e
         /\ {"lines", "totals"} \cap DOMAIN e.set # {} => \A n \in e.ids : IsDraft(tab, n)
    /\ e.do \in {"addLines", "setLine"} => "id" \in DOMAIN e /\ IsDraft(tab, e.id)
DraftsOnly(tab, q) == \E S : q \in Seq(S) /\ \A e \in S : Drafting(tab, e)
SentInv == ~overlapped => \A c \in Callers : DraftsOnly(row, todo[c])

\* Drafts stay drafts, and what is no draft keeps its lines and totals.
DraftsStay(tab, then) == \A n \in Ids :
    tab[n].kind \in Kinds => then[n].kind = tab[n].kind /\ then[n].status = tab[n].status
Frozen(tab, then) == \A i \in Ids :
    tab[i].kind \in Kinds /\ tab[i].status # "DRAFT" =>
        then[i].lines = tab[i].lines /\ then[i].totals = tab[i].totals

LEMMA EmptyDrafts == ASSUME NEW tab PROVE DraftsOnly(tab, <<>>)
<1>1. PICK S : S = {}
  OBVIOUS
<1>2. <<>> \in Seq(S) /\ \A e \in S : Drafting(tab, e)
  BY <1>1, EmptySeq
<1> QED
  BY <1>2 DEF DraftsOnly

LEMMA OneDrafts ==
    ASSUME NEW tab, NEW e, Drafting(tab, e)
    PROVE  DraftsOnly(tab, <<e>>)
<1>1. PICK S : S = {e}
  OBVIOUS
<1>2. <<e>> \in Seq(S) /\ \A x \in S : Drafting(tab, x)
  BY <1>1
<1> QED
  BY <1>2 DEF DraftsOnly

LEMMA JoinedDraft ==
    ASSUME NEW tab, NEW p, NEW q, DraftsOnly(tab, p), DraftsOnly(tab, q)
    PROVE  DraftsOnly(tab, p \o q)
<1>1. PICK S : p \in Seq(S) /\ \A e \in S : Drafting(tab, e)
  BY DEF DraftsOnly
<1>2. PICK T : q \in Seq(T) /\ \A e \in T : Drafting(tab, e)
  BY DEF DraftsOnly
<1>3. PICK U : U = S \cup T
  OBVIOUS
<1>4. p \in Seq(U) /\ q \in Seq(U)
  BY <1>1, <1>2, <1>3, SeqMonotonic
<1>5. p \o q \in Seq(U) /\ \A e \in U : Drafting(tab, e)
  BY <1>1, <1>2, <1>3, <1>4, ConcatProperties
<1> QED
  BY <1>5 DEF DraftsOnly

LEMMA RestDrafts ==
    ASSUME NEW tab, NEW q, DraftsOnly(tab, q), q # <<>>
    PROVE  Drafting(tab, Head(q)) /\ DraftsOnly(tab, Tail(q))
<1>1. PICK S : q \in Seq(S) /\ \A e \in S : Drafting(tab, e)
  BY DEF DraftsOnly
<1>2. Head(q) \in S /\ Tail(q) \in Seq(S)
  BY <1>1, HeadTailProperties
<1> QED
  BY <1>1, <1>2 DEF DraftsOnly

LEMMA DraftsKept ==
    ASSUME NEW tab, NEW then, DraftsStay(tab, then), NEW q, DraftsOnly(tab, q)
    PROVE  DraftsOnly(then, q)
<1>1. PICK S : q \in Seq(S) /\ \A e \in S : Drafting(tab, e)
  BY DEF DraftsOnly
<1>2. \A n : IsDraft(tab, n) => IsDraft(then, n)
  BY DEF IsDraft, DraftsStay
<1>3. \A e \in S : Drafting(then, e)
  BY <1>1, <1>2 DEF Drafting
<1> QED
  BY <1>1, <1>3 DEF DraftsOnly

\* A call begins,
LEMMA SentBegins ==
    ASSUME SalesInv, SentInv, NEW c \in Callers, NEW st, Begin(c, st), DraftsOnly(row, st)
    PROVE  SentInv' /\ (~overlapped' => Frozen(row, row'))
<1> SUFFICES ASSUME ~overlapped' PROVE SentInv' /\ Frozen(row, row')
  BY DEF SentInv
<1>1. row' = row /\ todo' = [todo EXCEPT ![c] = st] /\ ~overlapped /\ Quiet
  BY DEF Begin
<1>2. todo'[c] = st /\ \A d \in Callers \ {c} : todo'[d] = <<>>
  BY <1>1 DEF SalesInv, Quiet, Idle
<1>3. \A d \in Callers : DraftsOnly(row', todo'[d])
  BY <1>1, <1>2, EmptyDrafts
<1> QED
  BY <1>1, <1>3 DEF SentInv, Frozen

\* or executes a statement,
LEMMA SentExecutes ==
    ASSUME SalesInv, SentInv, NEW c \in Callers, ~Idle(c), NEW rest, todo' = [todo EXCEPT ![c] = rest],
           overlapped' = overlapped, ~overlapped => DraftsOnly(row', rest)
    PROVE  SentInv'
<1> SUFFICES ASSUME ~overlapped PROVE SentInv'
  BY DEF SentInv
<1>1. todo'[c] = rest /\ \A d \in Callers \ {c} : todo'[d] = <<>>
  BY DEF SalesInv, OneCall, Idle
<1>2. \A d \in Callers : DraftsOnly(row', todo'[d])
  BY <1>1, EmptyDrafts
<1> QED
  BY <1>2 DEF SentInv

\* or throws.
LEMMA SentThrows ==
    ASSUME SalesInv, SentInv, NEW c \in Callers, ~Idle(c), Throw(c)
    PROVE  SentInv' /\ Frozen(row, row')
<1>1. row' = row /\ todo' = [todo EXCEPT ![c] = <<>>] /\ overlapped' = overlapped
  BY DEF Throw
<1> QED
  BY <1>1, SentExecutes, EmptyDrafts DEF Frozen
-----------------------------------------------------------------------------
LEMMA SentUpdates ==
    ASSUME SalesInv, SentInv, NEW c \in Callers, Update(c), UNCHANGED restored
    PROVE  SentInv' /\ (~overlapped' => Frozen(row, row'))
<1> DEFINE e == Head(todo[c])
           rest == Tail(todo[c])
<1>1. todo[c] # <<>> /\ e.do = "update" /\ ~Idle(c)
  BY DEF Update, Idle
<1>2. CASE Throw(c)
  BY <1>1, <1>2, SentThrows
<1>3. CASE ~Throw(c)
  <2>1. /\ row' = [i \in Ids |-> IF i \in e.ids /\ Exists(i) THEN Merge(row[i], e.set) ELSE row[i]]
        /\ todo' = [todo EXCEPT ![c] = rest] /\ overlapped' = overlapped
    BY <1>3 DEF Update
  <2>2. ASSUME ~overlapped PROVE DraftsOnly(row', rest) /\ Frozen(row, row')
    <3>1. NeatSales(row, restored) /\ SalesScript(row, restored, todo[c]) /\ DraftsOnly(row, todo[c])
      BY <2>2 DEF SalesInv, SentInv
    <3>2. Drafting(row, e) /\ DraftsOnly(row, rest)
      BY <1>1, <3>1, RestDrafts
    <3>3. \A i \in Ids : OfSales(row[i])
      BY <3>1 DEF NeatSales
    <3>4. PlainList(todo[c]) \/ \E x : todo[c] = <<x>>
      BY <1>1, <3>1, SalesHeads
    <3>5. PlainList(todo[c]) => Plain(e)
      BY <1>1, RestIsPlain
    <3>6. (\E x : todo[c] = <<x>>) => rest = <<>>
      BY ShortLists
    <3>7. e.do = "update"
      BY <1>1
    <3> HIDE DEF e, rest
    <3>8. ASSUME NEW i \in Ids, row[i].kind \in Kinds, row'[i] # row[i]
          PROVE  /\ i \in e.ids
                 /\ \A f \in Columns \cup {"lines", "totals"} : f \notin DOMAIN e.set => row'[i][f] = row[i][f]
      <4>1. row'[i] = Merge(row[i], e.set) /\ i \in e.ids
        BY <2>1, <3>8
      <4>2. Columns \cup {"lines", "totals"} \subseteq DOMAIN row[i]
        BY <3>3, <3>8 DEF OfSales
      <4> QED
        BY <4>1, <4>2, MergeTells
    <3>9. Frozen(row, row')
      <4> SUFFICES ASSUME NEW i \in Ids, row[i].kind \in Kinds, row[i].status # "DRAFT", row'[i] # row[i]
                   PROVE  row'[i].lines = row[i].lines /\ row'[i].totals = row[i].totals
        BY DEF Frozen
      <4>1. i \in e.ids /\ ~IsDraft(row, i)
        BY <3>8 DEF IsDraft
      <4>2. {"lines", "totals"} \cap DOMAIN e.set = {}
        BY <3>2, <3>7, <4>1 DEF Drafting
      <4> QED
        BY <3>8, <4>2
    <3>10. CASE PlainList(todo[c])
      <4>1. DOMAIN e.set \cap Columns = {}
        BY <3>5, <3>7, <3>10 DEF Plain
      <4>2. DraftsStay(row, row')
        <5> SUFFICES ASSUME NEW i \in Ids, row[i].kind \in Kinds, row'[i] # row[i]
                     PROVE  row'[i].kind = row[i].kind /\ row'[i].status = row[i].status
          BY DEF DraftsStay
        <5>1. \A f \in Columns : row'[i][f] = row[i][f]
          BY <3>8, <4>1
        <5> QED
          BY <5>1 DEF Columns
      <4> QED
        BY <3>2, <3>9, <4>2, DraftsKept
    <3>11. CASE \E x : todo[c] = <<x>>
      BY <3>6, <3>9, <3>11, EmptyDrafts
    <3> QED
      BY <3>4, <3>10, <3>11
  <2> HIDE DEF e, rest
  <2> QED
    BY <1>1, <2>1, <2>2, SentExecutes
<1> QED
  BY <1>2, <1>3

\* What is inserted was nothing before.
LEMMA SentCreates ==
    ASSUME SalesInv, SentInv, NEW c \in Callers, Create(c)
    PROVE  SentInv' /\ (~overlapped' => Frozen(row, row'))
<1>1. ~Idle(c) /\ todo[c] # <<>> /\ Head(todo[c]).do = "create" /\ Room
  BY DEF Create, Idle
<1>2. CASE Throw(c)
  BY <1>1, <1>2, SentThrows
<1>3. CASE ~Throw(c)
  <2>1. PICK n, d : /\ n = NextId /\ row' = [row EXCEPT ![n] = d]
                    /\ todo' = [todo EXCEPT ![c] = Tail(todo[c])] /\ overlapped' = overlapped
    BY <1>3 DEF Create
  <2>2. ASSUME ~overlapped PROVE DraftsOnly(row', Tail(todo[c])) /\ Frozen(row, row')
    <3>1. SalesScript(row, restored, todo[c]) /\ NeatSales(row, restored)
      BY <2>2 DEF SalesInv
    <3>2. PICK e : todo[c] = <<e>>
      BY <1>1, <3>1, SalesHeads
    <3>3. Tail(todo[c]) = <<>>
      BY <3>2, ShortLists
    <3>4. n \in Ids /\ row[n] = NoRow
      BY <1>1, <2>1, NextIsFree
    <3>5. \A i \in Ids \ {n} : row'[i] = row[i]
      BY <2>1, <3>1 DEF NeatSales
    <3>6. row[n].kind \notin Kinds
      BY <3>4, SalesKinds DEF NoRow
    <3>7. Frozen(row, row')
      BY <3>5, <3>6 DEF Frozen
    <3> QED
      BY <3>3, <3>7, EmptyDrafts
  <2> QED
    BY <1>1, <2>1, <2>2, SentExecutes
<1> QED
  BY <1>2, <1>3

\* Statements that only read.
LEMMA SentReads ==
    ASSUME SalesInv, SentInv, NEW c \in Callers, ReadCount(c) \/ ReadConversions(c)
    PROVE  SentInv' /\ (~overlapped' => Frozen(row, row'))
<1>1. PICK rest : ~Idle(c) /\ todo' = [todo EXCEPT ![c] = rest] /\ UNCHANGED <<row, begun, overlapped, died>>
  BY SMTT(60) DEF ReadCount, ReadConversions, Read
<1>2. Frozen(row, row')
  BY <1>1 DEF Frozen
<1>3. CASE overlapped
  BY <1>1, <1>2, <1>3, SentExecutes
<1>4. CASE ~overlapped
  <2>1. CASE ReadCount(c)
    <3>1. PICK f : todo' = [todo EXCEPT ![c] = <<Insert(f)>>]
      BY <1>4, <2>1, CountLeaves
    <3>2. Drafting(row', Insert(f))
      BY DEF Drafting, Insert
    <3>3. DraftsOnly(row', <<Insert(f)>>)
      BY <3>2, OneDrafts
    <3> QED
      BY <1>1, <1>2, <3>1, <3>3, SentExecutes
  <2>2. CASE ReadConversions(c)
    <3>1. todo' = [todo EXCEPT ![c] = <<>>] \/ todo' = [todo EXCEPT ![c] = Tail(todo[c])]
      BY <2>2 DEF ReadConversions, Read
    <3>2. DraftsOnly(row', Tail(todo[c]))
      BY <1>1, <1>4, RestDrafts DEF SentInv, Idle
    <3> QED
      BY <1>1, <1>2, <3>1, <3>2, EmptyDrafts, SentExecutes
  <2> QED
    BY <2>1, <2>2
<1> QED
  BY <1>3, <1>4

LEMMA SentComputes ==
    ASSUME SalesInv, SentInv, NEW c \in Callers, ReadTotals(c)
    PROVE  SentInv' /\ (~overlapped' => Frozen(row, row'))
<1>1. PICK totals : /\ ~Idle(c) /\ UNCHANGED <<row, begun, overlapped, died>>
                    /\ todo' = [todo EXCEPT ![c] = [Tail(todo[c]) EXCEPT ![1].set.totals = totals]]
  BY DEF ReadTotals, Read
<1>2. Frozen(row, row')
  BY <1>1 DEF Frozen
<1>3. ASSUME ~overlapped PROVE DraftsOnly(row', [Tail(todo[c]) EXCEPT ![1].set.totals = totals])
  <2>1. PICK q : q = Tail(todo[c])
    OBVIOUS
  <2>2. DraftsOnly(row, q)
    BY <1>1, <1>3, <2>1, RestDrafts DEF SentInv, Idle
  <2>3. PICK S : q \in Seq(S) /\ \A e \in S : Drafting(row, e)
    BY <2>2 DEF DraftsOnly
  <2>4. DraftsOnly(row, [q EXCEPT ![1].set.totals = totals])
    <3>1. CASE q = <<>>
      <4>1. 1 \notin DOMAIN q
        BY <3>1
      <4>2. [q EXCEPT ![1].set.totals = totals] = q
        BY <4>1, <2>3
      <4> QED
        BY <2>2, <4>2
    <3>2. CASE q # <<>>
      <4>1. PICK e : e = q[1]
        OBVIOUS
      <4>2. e \in S /\ 1 \in 1..Len(q)
        BY <2>3, <3>2, <4>1, ElementOfSeq, LenProperties, EmptySeq
      <4>3. PICK f : f = [e EXCEPT !.set.totals = totals]
        OBVIOUS
      <4>4. Drafting(row, e)
        BY <2>3, <4>2
      <4>5. DOMAIN f = DOMAIN e /\ \A x \in DOMAIN e : x # "set" => f[x] = e[x]
        BY <4>3
      <4>6. f.do = e.do /\ (e.do = "update" => f.ids = e.ids)
        BY <4>4, <4>5 DEF Drafting
      <4>7. "set" \in DOMAIN e => f.set = [e.set EXCEPT !.totals = totals]
        BY <4>3
      <4>8. "set" \in DOMAIN e => DOMAIN f.set = DOMAIN e.set
        BY <4>7
      <4>9. e.do = "update" => Drafting(row, f)
        BY <4>4, <4>5, <4>6, <4>8 DEF Drafting
      <4>10. ASSUME e.do # "update", e.do \notin {"addLines", "setLine"} PROVE Drafting(row, f)
        BY <4>4, <4>5, <4>6, <4>10 DEF Drafting
      <4>11. ASSUME e.do \in {"addLines", "setLine"} PROVE Drafting(row, f)
        <5>1. "id" \in DOMAIN e
          BY <4>11, <4>4 DEF Drafting
        <5>2. f.id = e.id
          BY <4>5, <5>1
        <5> QED
          BY <4>4, <4>5, <4>6, <4>11, <5>2 DEF Drafting
      <4>12. Drafting(row, f)
        BY <4>9, <4>10, <4>11
      <4>13. [q EXCEPT ![1].set.totals = totals] = [q EXCEPT ![1] = f]
        BY <4>1, <4>3
      <4>14. PICK T : T = S \cup {f}
        OBVIOUS
      <4>15. q \in Seq(T) /\ f \in T /\ \A x \in T : Drafting(row, x)
        BY <2>3, <4>12, <4>14, SeqMonotonic
      <4>16. [q EXCEPT ![1] = f] \in Seq(T)
        BY <4>2, <4>15, ExceptSeq
      <4> QED
        BY <4>13, <4>15, <4>16 DEF DraftsOnly
    <3> QED
      BY <3>1, <3>2
  <2> QED
    BY <1>1, <2>1, <2>4
<1> QED
  BY <1>1, <1>2, <1>3, SentExecutes
\* Lines are written into drafts.
LEMMA LinesOfDrafts ==
    ASSUME SalesInv, SentInv, NEW c \in Callers, ~Idle(c), Head(todo[c]).do \in {"addLines", "setLine"},
           NEW n, n = Head(todo[c]).id, NEW r, Relined(row[n], r), row' = [row EXCEPT ![n] = r],
           todo' = [todo EXCEPT ![c] = Tail(todo[c])], overlapped' = overlapped
    PROVE  SentInv' /\ (~overlapped' => Frozen(row, row'))
<1>1. ASSUME ~overlapped PROVE DraftsOnly(row', Tail(todo[c])) /\ Frozen(row, row')
  <2>1. NeatSales(row, restored) /\ DraftsOnly(row, todo[c]) /\ todo[c] # <<>>
    BY <1>1 DEF SalesInv, SentInv, Idle
  <2>2. Drafting(row, Head(todo[c])) /\ DraftsOnly(row, Tail(todo[c]))
    BY <2>1, RestDrafts
  <2>3. IsDraft(row, n)
    BY <2>2 DEF Drafting
  <2>4. /\ DOMAIN r = DOMAIN row[n]
        /\ \A f \in DOMAIN row[n] : f \notin {"lines", "keys"} => r[f] = row[n][f]
    BY DEF Relined
  <2>5. Columns \subseteq DOMAIN row[n]
    BY <2>1, <2>3 DEF NeatSales, OfSales, IsDraft
  <2>6. r.kind = row[n].kind /\ r.status = row[n].status
    BY <2>4, <2>5 DEF Columns
  <2>7. ASSUME NEW i \in Ids PROVE row'[i] = IF i = n THEN r ELSE row[i]
    BY <2>1 DEF NeatSales
  <2>8. DraftsStay(row, row')
    BY <2>6, <2>7 DEF DraftsStay
  <2>9. Frozen(row, row')
    BY SMTT(60), <2>3, <2>7 DEF Frozen, IsDraft
  <2> QED
    BY <2>2, <2>8, <2>9, DraftsKept
<1> QED
  BY <1>1, SentExecutes

LEMMA SentLines ==
    ASSUME SalesInv, SentInv, NEW c \in Callers, InsertLines(c) \/ WriteLine(c)
    PROVE  SentInv' /\ (~overlapped' => Frozen(row, row'))
<1>1. CASE InsertLines(c)
  <2> DEFINE s == Head(todo[c])
             new == [k \in DOMAIN s.lines |-> [s.lines[k] EXCEPT !.key = row[s.id].keys + k]]
  <2>0. s.do = "addLines"
    BY ZenonT(60), <1>1 DEF InsertLines
  <2>1. /\ ~Idle(c) /\ s.do = "addLines" /\ todo' = [todo EXCEPT ![c] = Tail(todo[c])]
        /\ overlapped' = overlapped
        /\ row' = [row EXCEPT ![s.id].lines = @ \o new, ![s.id].keys = @ + Len(new)]
    BY <1>1 DEF InsertLines
  <2> HIDE DEF s, new
  <2>2. PICK r : r = [row[s.id] EXCEPT !.lines = row[s.id].lines \o new, !.keys = row[s.id].keys + Len(new)]
    OBVIOUS
  <2>3. row' = [row EXCEPT ![s.id] = r]
    BY ZenonT(60), <2>1, <2>2
  <2>4. Relined(row[s.id], r)
    BY ZenonT(60), <2>2 DEF Relined
  <2>5. Head(todo[c]).do \in {"addLines", "setLine"} /\ s.id = Head(todo[c]).id
    BY SMTT(60), <2>0 DEF s
  <2> QED
    BY ZenonT(60), <2>1, <2>3, <2>4, <2>5, LinesOfDrafts
<1>2. CASE WriteLine(c)
  <2> DEFINE s == Head(todo[c])
             at == Line(s.id, s.key)
             l == IF s.item = <<>> THEN RemoveAt(row[s.id].lines, CHOOSE k \in at : TRUE)
                  ELSE [row[s.id].lines EXCEPT ![CHOOSE k \in at : TRUE] = [s.item EXCEPT !.key = s.key]]
  <2>1. ~Idle(c) /\ s.do = "setLine" /\ overlapped' = overlapped
    BY <1>2 DEF WriteLine
  <2>2. CASE at = {}
    <3>1. Throw(c)
      BY SMTT(60), <1>2, <2>2 DEF WriteLine, Throw
    <3> QED
      BY <2>1, <3>1, SentThrows
  <2>3. CASE at # {}
    <3>1. todo' = [todo EXCEPT ![c] = Tail(todo[c])] /\ row' = [row EXCEPT ![s.id].lines = l]
      BY <1>2, <2>3 DEF WriteLine
    <3> HIDE DEF s, l
    <3>2. PICK r : r = row[s.id]
      OBVIOUS
    <3>3. [r EXCEPT !.lines = l] = [r EXCEPT !.lines = l, !.keys = r.keys]
      OBVIOUS
    <3>4. row' = [row EXCEPT ![s.id] = [r EXCEPT !.lines = l]]
      BY <3>1, <3>2
    <3>5. PICK t : t = [r EXCEPT !.lines = l]
      OBVIOUS
    <3>6. row' = [row EXCEPT ![s.id] = t] /\ Relined(row[s.id], t)
      BY <3>2, <3>3, <3>4, <3>5 DEF Relined
    <3>7. Head(todo[c]).do \in {"addLines", "setLine"} /\ s.id = Head(todo[c]).id
      BY <2>1 DEF s
    <3> QED
      BY <2>1, <3>1, <3>6, <3>7, LinesOfDrafts
  <2> QED
    BY SMTT(60), <2>2, <2>3
<1> QED
  BY <1>1, <1>2
-----------------------------------------------------------------------------
\* What a call that begins is left with.
LEMMA NoneDrafts ==
    ASSUME NEW tab
    PROVE  /\ Drafting(tab, Count)
           /\ \A d : Drafting(tab, Insert(d))
           /\ \A i : Drafting(tab, Unless(i))
BY DEF Drafting, Count, Insert, Unless

LEMMA SetDrafts ==
    ASSUME NEW tab, NEW i, NEW fields,
           {"lines", "totals"} \cap DOMAIN fields = {} \/ IsDraft(tab, i)
    PROVE  Drafting(tab, Set(i, fields))
<1>1. PICK e : e = Set(i, fields)
  OBVIOUS
<1>2. /\ {"do", "ids", "set"} = DOMAIN e /\ e.do = "update" /\ e.ids = {i} /\ e.set = fields
  BY <1>1 DEF Set
<1>3. Drafting(tab, e)
  BY <1>2 DEF Drafting
<1> QED
  BY <1>1, <1>3

LEMMA LinesDrafts ==
    ASSUME NEW tab, NEW i, NEW x, NEW y, IsDraft(tab, i)
    PROVE  Drafting(tab, AddLines(i, x)) /\ Drafting(tab, SetLine(i, x, y))
BY DEF Drafting, AddLines, SetLine

LEMMA RecalculateDrafts ==
    ASSUME NEW tab, NEW i, NEW shipping, IsDraft(tab, i)
    PROVE  DraftsOnly(tab, Recalculate(i, shipping))
<1>1. PICK e : e = [do |-> "recalculate", id |-> i, shipping |-> shipping]
  OBVIOUS
<1>2. PICK f : f = Set(i, [totals |-> 0])
  OBVIOUS
<1>3. Drafting(tab, e)
  BY <1>1 DEF Drafting
<1>4. Drafting(tab, f)
  BY <1>2, SetDrafts
<1>5. PICK S : S = {e, f}
  OBVIOUS
<1>6. <<e, f>> \in Seq(S) /\ \A x \in S : Drafting(tab, x)
  BY <1>3, <1>4, <1>5
<1> QED
  BY <1>1, <1>2, <1>6 DEF DraftsOnly, Recalculate

\* New documents, and those made of others, are inserted as drafts.
LEMMA InsertsDraft ==
    ASSUME NEW tab, NEW i, NEW d
    PROVE  DraftsOnly(tab, <<Count, Insert(d)>>) /\ DraftsOnly(tab, <<Unless(i), Count, Insert(d)>>)
<1>1. PICK e : e = Unless(i)
  OBVIOUS
<1>2. PICK f : f = Count
  OBVIOUS
<1>3. PICK g : g = Insert(d)
  OBVIOUS
<1>4. PICK S : S = {e, f, g}
  OBVIOUS
<1>5. \A x \in S : Drafting(tab, x)
  BY <1>1, <1>2, <1>3, <1>4, NoneDrafts
<1>6. <<f, g>> \in Seq(S) /\ <<e, f, g>> \in Seq(S)
  BY <1>4
<1>7. DraftsOnly(tab, <<f, g>>) /\ DraftsOnly(tab, <<e, f, g>>)
  BY <1>5, <1>6 DEF DraftsOnly
<1> QED
  BY <1>1, <1>2, <1>3, <1>7

LEMMA InsertsStay ==
    ASSUME SalesInv, SentInv, NEW c \in Callers, NEW i, NEW d,
           BeginInsert(c, <<Count, Insert(d)>>) \/ BeginInsert(c, <<Unless(i), Count, Insert(d)>>)
    PROVE  SentInv' /\ (~overlapped' => Frozen(row, row'))
BY InsertsDraft, SentBegins DEF BeginInsert

\* An edit is of a draft,
LEMMA EditStays ==
    ASSUME SalesInv, SentInv, NEW c \in Callers, NEW i, IsDraft(row, i), NEW fields, NEW lines, NEW shipping,
           Edit(c, i, fields, lines, shipping)
    PROVE  SentInv' /\ (~overlapped' => Frozen(row, row'))
<1> DEFINE mid == IF lines = <<>> THEN <<>> ELSE <<Set(i, [lines |-> <<>>]), AddLines(i, lines)>>
<1>1. Begin(c, <<Set(i, fields)>> \o mid \o Recalculate(i, shipping))
  BY DEF Edit
<1>2. DraftsOnly(row, <<Set(i, fields)>>)
  BY SetDrafts, OneDrafts
<1>3. DraftsOnly(row, mid)
  <2>1. PICK e : e = Set(i, [lines |-> <<>>])
    OBVIOUS
  <2>2. PICK f : f = AddLines(i, lines)
    OBVIOUS
  <2>3. Drafting(row, e) /\ Drafting(row, f)
    BY <2>1, <2>2, SetDrafts, LinesDrafts
  <2>4. PICK S : S = {e, f}
    OBVIOUS
  <2>5. <<e, f>> \in Seq(S) /\ \A x \in S : Drafting(row, x)
    BY <2>3, <2>4
  <2>6. DraftsOnly(row, <<e, f>>)
    BY <2>5 DEF DraftsOnly
  <2> QED
    BY <2>1, <2>2, <2>6, EmptyDrafts
<1> HIDE DEF mid
<1>4. DraftsOnly(row, <<Set(i, fields)>> \o mid)
  BY <1>2, <1>3, JoinedDraft
<1>5. DraftsOnly(row, (<<Set(i, fields)>> \o mid) \o Recalculate(i, shipping))
  BY <1>4, RecalculateDrafts, JoinedDraft
<1> QED
  BY <1>1, <1>5, SentBegins

LEMMA EditableIsDraft ==
    ASSUME NEW i \in Ids, NEW kind \in Kinds, Editable(i, kind)
    PROVE  IsDraft(row, i)
BY DEF Editable, Found, IsDraft

LEMMA UpdatesStay ==
    ASSUME SalesInv, SentInv, NEW c \in Callers, NEW i \in Ids,
           UpdateQuotation(c, i) \/ UpdateOrder(c, i) \/ UpdateInvoice(c, i)
    PROVE  SentInv' /\ (~overlapped' => Frozen(row, row'))
<1>1. IsDraft(row, i)
  BY SalesKinds, EditableIsDraft DEF UpdateQuotation, UpdateOrder, UpdateInvoice
<1>2. CASE UpdateQuotation(c, i)
  BY <1>1, <1>2, EditStays DEF UpdateQuotation
<1>3. CASE UpdateOrder(c, i)
  BY <1>1, <1>3, EditStays DEF UpdateOrder
<1>4. CASE UpdateInvoice(c, i)
  BY <1>1, <1>4, EditStays DEF UpdateInvoice
<1> QED
  BY <1>2, <1>3, <1>4

\* and so is an operation on single lines.
LEMMA ItemsStay ==
    ASSUME SalesInv, SentInv, NEW c \in Callers, NEW i \in Ids,
           AddItem(c, i) \/ UpdateItem(c, i) \/ DeleteItem(c, i)
    PROVE  SentInv' /\ (~overlapped' => Frozen(row, row'))
<1>1. IsDraft(row, i)
  BY SalesKinds, EditableIsDraft DEF AddItem, UpdateItem, DeleteItem
<1>2. ASSUME NEW e, Drafting(row, e), Begin(c, <<e>> \o Recalculate(i, 0))
      PROVE  SentInv' /\ (~overlapped' => Frozen(row, row'))
  BY <1>1, <1>2, OneDrafts, RecalculateDrafts, JoinedDraft, SentBegins
<1>3. CASE AddItem(c, i)
  BY <1>1, <1>2, <1>3, LinesDrafts DEF AddItem
<1>4. CASE UpdateItem(c, i)
  BY <1>1, <1>2, <1>4, LinesDrafts DEF UpdateItem
<1>5. CASE DeleteItem(c, i)
  BY <1>1, <1>2, <1>5, LinesDrafts DEF DeleteItem
<1> QED
  BY <1>3, <1>4, <1>5

\* What else is set is neither lines nor totals.
LEMMA ChangesStay ==
    ASSUME SalesInv, SentInv, NEW c \in Callers, NEW i,
           \/ \E kind, to : ChangeStatus(c, i, kind, to)
           \/ SetDeleted(c, i) \/ \E kind : Restore(c, i, kind)
    PROVE  SentInv' /\ (~overlapped' => Frozen(row, row'))
<1>1. ASSUME NEW e, Drafting(row, e), Begin(c, <<e>>)
      PROVE  SentInv' /\ (~overlapped' => Frozen(row, row'))
  BY <1>1, OneDrafts, SentBegins
<1>2. ASSUME NEW b PROVE Drafting(row, Set(i, [deleted |-> b]))
  BY SetDrafts
<1>3. ASSUME NEW to PROVE Drafting(row, Set(i, [status |-> to]))
  BY SetDrafts
<1>4. CASE \E kind, to : ChangeStatus(c, i, kind, to)
  BY <1>1, <1>3, <1>4 DEF ChangeStatus
<1>5. CASE SetDeleted(c, i)
  BY <1>1, <1>2, <1>5 DEF SetDeleted
<1>6. CASE \E kind : Restore(c, i, kind)
  BY <1>1, <1>2, <1>6 DEF Restore
<1> QED
  BY <1>4, <1>5, <1>6

LEMMA QuotationsStay ==
    ASSUME SalesInv, SentInv, NEW c \in Callers, QuotationCall(c)
    PROVE  SentInv' /\ (~overlapped' => Frozen(row, row'))
<1>1. ASSUME \/ CreateQuotation(c) \/ \E i \in Ids : DuplicateQuotation(c, i)
      PROVE  SentInv' /\ (~overlapped' => Frozen(row, row'))
  BY <1>1, InsertsStay DEF CreateQuotation, DuplicateQuotation, New
<1>2. ASSUME NEW i \in Ids, UpdateQuotation(c, i) \/ AddItem(c, i) \/ UpdateItem(c, i) \/ DeleteItem(c, i)
      PROVE  SentInv' /\ (~overlapped' => Frozen(row, row'))
  BY <1>2, UpdatesStay, ItemsStay
<1>3. ASSUME NEW i \in Ids, SendQuotation(c, i) \/ AcceptQuotation(c, i) \/ RejectQuotation(c, i)
                             \/ CancelQuotation(c, i) \/ ArchiveQuotation(c, i)
                             \/ RestoreQuotation(c, i) \/ DeleteQuotation(c, i)
      PROVE  SentInv' /\ (~overlapped' => Frozen(row, row'))
  BY <1>3, ChangesStay DEF SendQuotation, AcceptQuotation, RejectQuotation, CancelQuotation,
                           ArchiveQuotation, RestoreQuotation, DeleteQuotation
<1> QED
  BY <1>1, <1>2, <1>3 DEF QuotationCall

LEMMA OrdersStay ==
    ASSUME SalesInv, SentInv, NEW c \in Callers, OrderCall(c)
    PROVE  SentInv' /\ (~overlapped' => Frozen(row, row'))
<1>1. ASSUME \/ CreateOrder(c) \/ \E i \in Ids : DuplicateOrder(c, i) \/ ConvertFromQuotation(c, i)
      PROVE  SentInv' /\ (~overlapped' => Frozen(row, row'))
  BY <1>1, InsertsStay DEF CreateOrder, DuplicateOrder, New, ConvertFromQuotation
<1>2. ASSUME NEW i \in Ids, UpdateOrder(c, i)
      PROVE  SentInv' /\ (~overlapped' => Frozen(row, row'))
  BY <1>2, UpdatesStay
<1>3. ASSUME NEW i \in Ids, ConfirmOrder(c, i) \/ ChangeOrderStatus(c, i) \/ CancelOrder(c, i)
                             \/ ArchiveOrder(c, i) \/ RestoreOrder(c, i) \/ DeleteOrder(c, i)
      PROVE  SentInv' /\ (~overlapped' => Frozen(row, row'))
  BY <1>3, ChangesStay DEF ConfirmOrder, ChangeOrderStatus, CancelOrder, ArchiveOrder, RestoreOrder, DeleteOrder
<1> QED
  BY <1>1, <1>2, <1>3 DEF OrderCall

LEMMA InvoicesStay ==
    ASSUME SalesInv, SentInv, NEW c \in Callers, InvoiceCall(c)
    PROVE  SentInv' /\ (~overlapped' => Frozen(row, row'))
<1>1. ASSUME \/ CreateInvoice(c) \/ \E i \in Ids : DuplicateInvoice(c, i) \/ CreateFromSalesOrder(c, i)
      PROVE  SentInv' /\ (~overlapped' => Frozen(row, row'))
  BY <1>1, InsertsStay DEF CreateInvoice, DuplicateInvoice, New, CreateFromSalesOrder
<1>2. ASSUME NEW i \in Ids, UpdateInvoice(c, i)
      PROVE  SentInv' /\ (~overlapped' => Frozen(row, row'))
  BY <1>2, UpdatesStay
<1>3. ASSUME NEW i \in Ids, SendInvoice(c, i) \/ VoidInvoice(c, i)
                             \/ ArchiveInvoice(c, i) \/ RestoreInvoice(c, i) \/ DeleteInvoice(c, i)
      PROVE  SentInv' /\ (~overlapped' => Frozen(row, row'))
  BY <1>3, ChangesStay DEF SendInvoice, VoidInvoice, ArchiveInvoice, RestoreInvoice, DeleteInvoice
<1> QED
  BY <1>1, <1>2, <1>3 DEF InvoiceCall

LEMMA SentStep == SalesInv /\ SentInv /\ SalesNext => SentInv' /\ (~overlapped' => Frozen(row, row'))
<1> SUFFICES ASSUME SalesInv, SentInv, NEW c \in Callers,
                    QuotationCall(c) \/ OrderCall(c) \/ InvoiceCall(c) \/ Statement(c)
             PROVE  SentInv' /\ (~overlapped' => Frozen(row, row'))
  BY DEF SalesNext
<1>1. CASE QuotationCall(c) \/ OrderCall(c) \/ InvoiceCall(c)
  BY <1>1, QuotationsStay, OrdersStay, InvoicesStay
<1>2. CASE Statement(c)
  <2>1. UNCHANGED restored
    BY <1>2 DEF Statement
  <2>2. CASE Update(c) \/ Create(c)
    BY <2>1, <2>2, SentUpdates, SentCreates
  <2>3. CASE ReadCount(c) \/ ReadConversions(c) \/ ReadTotals(c)
    BY <2>3, SentReads, SentComputes
  <2>4. CASE InsertLines(c) \/ WriteLine(c)
    BY <2>4, SentLines
  <2>5. CASE Die(c)
    BY <2>5, SentThrows DEF Die
  <2> QED
    BY <1>2, <2>2, <2>3, <2>4, <2>5 DEF Statement
<1> QED
  BY <1>1, <1>2

SentPart == part = "sales" => SalesInv /\ SentInv
LEMMA SentPartStart == ServicesInit => SentPart
<1> SUFFICES ASSUME SalesInit PROVE SentInv
  BY SalesStart DEF ServicesInit, SentPart
<1>1. \A c \in Callers : todo[c] = <<>>
  BY DEF SalesInit, RowsInit
<1> QED
  BY <1>1, EmptyDrafts DEF SentInv
LEMMA SentPartStep == SentPart /\ [ServicesNext]_serviceVars => SentPart'
<1> SUFFICES ASSUME SentPart, [ServicesNext]_serviceVars, part' = "sales" PROVE SalesInv' /\ SentInv'
  BY DEF SentPart
<1>1. CASE ServicesNext
  <2>1. part = "sales" /\ SalesNext
    BY <1>1 DEF ServicesNext
  <2> QED
    BY <2>1, SalesStep, SentStep DEF SentPart
<1>2. CASE UNCHANGED serviceVars
  <2>1. part = "sales" /\ UNCHANGED salesVars
    BY <1>2 DEF serviceVars, salesVars
  <2>2. SalesInv /\ SentInv
    BY <2>1 DEF SentPart
  <2>3. SentInv'
    BY <2>1, <2>2 DEF SentInv, salesVars, rowVars
  <2> QED
    BY <2>1, <2>2, <2>3, SalesStutter
<1> QED
  BY <1>1, <1>2

\* As long as calls do not overlap, whichever of them die: once a document has
\* left DRAFT no call changes its lines or what it asks for (update, addItem,
\* updateItem, deleteItem of the three services).
THEOREM SentStaysFrozen == ServicesSpec => (part = "sales" => SentIsFrozen)
<1>1. ServicesSpec => []SentPart
  BY SentPartStart, SentPartStep, PTL DEF ServicesSpec
<1>2. SentPart /\ [ServicesNext]_serviceVars /\ part = "sales" => (part = "sales")'
  BY DEF ServicesNext, serviceVars
<1>3. SentPart /\ [ServicesNext]_serviceVars /\ part = "sales" =>
        [\A i \in Ids : IsDocument(i) /\ row[i].status # "DRAFT" /\ ~overlapped' =>
            /\ row'[i].lines = row[i].lines
            /\ row'[i].totals.grandTotal = row[i].totals.grandTotal]_salesVars
  <2> SUFFICES ASSUME SentPart, [ServicesNext]_serviceVars, part = "sales", ~UNCHANGED salesVars, ~overlapped',
                      NEW i \in Ids, IsDocument(i), row[i].status # "DRAFT"
               PROVE  row'[i].lines = row[i].lines /\ row'[i].totals.grandTotal = row[i].totals.grandTotal
    OBVIOUS
  <2>1. SalesNext
    BY DEF ServicesNext, serviceVars, salesVars, rowVars
  <2>2. Frozen(row, row')
    BY <2>1, SentStep DEF SentPart
  <2>3. row'[i].lines = row[i].lines /\ row'[i].totals = row[i].totals
    BY <2>2 DEF Frozen, IsDocument
  <2> QED
    BY <2>3
<1> QED
  BY <1>1, <1>2, <1>3, PTL DEF ServicesSpec, SentIsFrozen
-----------------------------------------------------------------------------
(* The numbers of billing invoices (Billing).                               *)

\* What a call has left is one statement: an update of what is no number, an
\* invoice with a number that was the next when the call read it, or what
\* concerns coupons and payments.
BillStatement(tab, e) ==
    \/ e.do = "update" /\ {"kind", "code"} \cap DOMAIN e.set = {}
    \/ /\ e.do = "create" /\ OfBilling(e.set) /\ e.set.kind # "none"
       /\ e.set.kind = "bill" => e.set.code \in 1..(Cardinality(Bills(tab)) + 1)
    \/ e.do = "enter"
    \/ e.do = "redeem" /\ e.id \in Ids /\ tab[e.id].kind = "coupon"
    \/ e.do \in {"settle", "repay"} /\ e.id \in Ids /\ tab[e.id].kind = "payment"
BillScript(tab, q) == q # <<>> => \E e : q = <<e>> /\ BillStatement(tab, e)
BillingInv ==
    /\ DOMAIN todo = Callers /\ NeatBills(row)
    /\ \A c \in Callers : BillScript(row, todo[c])

LEMMA BillsFinite ==
    ASSUME NEW tab
    PROVE  IsFiniteSet(Bills(tab)) /\ Cardinality(Bills(tab)) \in Nat
<1>1. Bills(tab) \subseteq Ids /\ IsFiniteSet(Ids)
  BY RowsAssumption DEF Bills
<1> QED
  BY <1>1, FS_Subset, FS_CardinalityType

LEMMA BillBegins ==
    ASSUME BillingInv, NEW c \in Callers, NEW e, Begin(c, <<e>>), BillStatement(row, e)
    PROVE  BillingInv'
<1>1. row' = row /\ todo' = [todo EXCEPT ![c] = <<e>>]
  BY DEF Begin
<1>2. BillScript(row, <<e>>)
  BY DEF BillScript
<1>3. DOMAIN todo' = Callers /\ todo'[c] = <<e>> /\ \A d \in Callers \ {c} : todo'[d] = todo[d]
  BY <1>1 DEF BillingInv
<1>4. \A d \in Callers : BillScript(row', todo'[d])
  BY <1>1, <1>2, <1>3 DEF BillingInv
<1> QED
  BY <1>1, <1>3, <1>4 DEF BillingInv

\* Kinds stay, and the invoices there are become no fewer.
BillsGrow(tab, then) ==
    /\ \A i \in Ids : tab[i].kind # "none" => then[i].kind = tab[i].kind
    /\ Cardinality(Bills(tab)) <= Cardinality(Bills(then))
LEMMA BillScriptKept ==
    ASSUME NEW tab, NEW then, BillsGrow(tab, then), NEW q, BillScript(tab, q)
    PROVE  BillScript(then, q)
<1> SUFFICES ASSUME q # <<>> PROVE \E e : q = <<e>> /\ BillStatement(then, e)
  BY DEF BillScript
<1>1. PICK e : q = <<e>> /\ BillStatement(tab, e)
  BY DEF BillScript
<1>2. 1..(Cardinality(Bills(tab)) + 1) \subseteq 1..(Cardinality(Bills(then)) + 1)
  BY BillsFinite DEF BillsGrow
<1>3. BillStatement(then, e)
  BY <1>1, <1>2 DEF BillStatement, BillsGrow
<1> QED
  BY <1>1, <1>3

LEMMA BillExecutes ==
    ASSUME BillingInv, NEW c \in Callers, todo' = [todo EXCEPT ![c] = <<>>],
           NeatBills(row'), BillsGrow(row, row')
    PROVE  BillingInv'
<1>1. DOMAIN todo' = Callers /\ todo'[c] = <<>> /\ \A d \in Callers \ {c} : todo'[d] = todo[d]
  BY DEF BillingInv
<1>2. ASSUME NEW d \in Callers PROVE BillScript(row', todo'[d])
  <2>1. BillScript(row, todo'[d])
    BY <1>1 DEF BillingInv, BillScript
  <2> QED
    BY <2>1, BillScriptKept
<1> QED
  BY <1>1, <1>2 DEF BillingInv

LEMMA BillThrows ==
    ASSUME BillingInv, NEW c \in Callers, Throw(c)
    PROVE  BillingInv'
<1>1. row' = row /\ todo' = [todo EXCEPT ![c] = <<>>]
  BY DEF Throw
<1>2. BillsGrow(row, row')
  BY <1>1, BillsFinite DEF BillsGrow
<1> QED
  BY <1>1, <1>2, BillExecutes DEF BillingInv

\* The one statement a call is at.
LEMMA BillHead ==
    ASSUME BillingInv, NEW c \in Callers, ~Idle(c)
    PROVE  BillStatement(row, Head(todo[c])) /\ Tail(todo[c]) = <<>>
<1>1. PICK e : todo[c] = <<e>> /\ BillStatement(row, e)
  BY DEF BillingInv, BillScript, Idle
<1> QED
  BY <1>1, ShortLists

\* Rows change, but for kinds and the numbers of invoices.
BillChange(r, t) ==
    t = r \/ /\ r.kind # "none" /\ OfBilling(t) /\ t.kind = r.kind
             /\ r.kind = "bill" => t.code = r.code
LEMMA BillsChange ==
    ASSUME NEW tab, NEW then, NeatBills(tab), DOMAIN then = Ids, \A i \in Ids : BillChange(tab[i], then[i])
    PROVE  NeatBills(then) /\ BillsGrow(tab, then)
<1>1. \A i \in Ids : /\ OfBilling(then[i]) /\ then[i].kind = tab[i].kind
                     /\ tab[i].kind = "bill" => then[i].code = tab[i].code
                     /\ then[i] = NoRow <=> tab[i] = NoRow
  BY DEF BillChange, NeatBills, NoRow
<1>2. Bills(then) = Bills(tab)
  BY <1>1 DEF Bills
<1>3. \A i \in Bills(tab) : then[i].code = tab[i].code
  BY <1>1 DEF Bills
<1>4. {then[i].code : i \in Bills(then)} = {tab[i].code : i \in Bills(tab)}
  BY <1>2, <1>3
<1>5. \A i \in Ids : PlaceOf(then, i) = PlaceOf(tab, i)
  BY <1>2 DEF PlaceOf
<1>6. \A i \in Bills(then) : then[i].code = PlaceOf(then, i)
  BY <1>2, <1>3, <1>5 DEF NeatBills, Bills
<1>7. NeatBills(then)
  BY <1>1, <1>2, <1>4, <1>6 DEF NeatBills
<1> QED
  BY <1>1, <1>2, <1>7, BillsFinite DEF BillsGrow

\* A row is inserted; an invoice with the number after the last.
LEMMA BillsAdded ==
    ASSUME NeatBills(row), Room, NEW d, row' = [row EXCEPT ![NextId] = d], OfBilling(d), d.kind # "none",
           d.kind = "bill" => d.code = Cardinality(Bills(row)) + 1
    PROVE  NeatBills(row') /\ BillsGrow(row, row')
<1> DEFINE m == Cardinality(Bills(row))
<1>1. PICK n : n = NextId
  OBVIOUS
<1>2. n \in Ids /\ row[n] = NoRow /\ \A i \in Ids : i >= n <=> row[i] = NoRow
  <2>1. DOMAIN row = Ids /\ InOrder(row)
    BY DEF NeatBills, InOrder
  <2> QED
    BY <1>1, <2>1, NextIsFree, FreeFollow
<1>3. DOMAIN row' = Ids /\ row'[n] = d /\ \A i \in Ids \ {n} : row'[i] = row[i]
  BY <1>1, <1>2 DEF NeatBills
<1>4. d # NoRow /\ Ids \subseteq Nat
  BY RowsAssumption, FS_CardinalityType DEF NoRow
<1>5. \A i, j \in Ids : i < j /\ row'[i] = NoRow => row'[j] = NoRow
  BY <1>2, <1>3, <1>4
<1>6. n \notin Bills(row) /\ \A i \in Bills(row) : i < n
  BY <1>2, <1>4 DEF Bills, NoRow
<1>7. \A i \in Bills(row) : row'[i] = row[i]
  BY <1>3, <1>6 DEF Bills
<1>8. \A i \in Ids : OfBilling(row'[i])
  BY <1>3 DEF NeatBills
<1>9. IsFiniteSet(Bills(row)) /\ m \in Nat
  BY BillsFinite
<1>10. \A i \in Ids : row[i].kind # "none" => row'[i].kind = row[i].kind
  BY <1>2, <1>3 DEF NoRow
<1>11. CASE d.kind # "bill"
  <2>1. Bills(row') = Bills(row)
    BY <1>3, <1>6, <1>11 DEF Bills
  <2>2. {row'[i].code : i \in Bills(row')} = {row[i].code : i \in Bills(row)}
    BY <1>7, <2>1
  <2>3. \A i \in Bills(row') : row'[i].code = PlaceOf(row', i)
    BY <1>7, <2>1 DEF NeatBills, PlaceOf
  <2>4. NeatBills(row')
    BY <1>3, <1>5, <1>8, <2>1, <2>2, <2>3 DEF NeatBills
  <2> QED
    BY <1>9, <1>10, <2>1, <2>4 DEF BillsGrow
<1>12. CASE d.kind = "bill"
  <2>1. Bills(row') = Bills(row) \cup {n}
    BY <1>2, <1>3, <1>6, <1>12 DEF Bills
  <2>2. Cardinality(Bills(row')) = m + 1
    BY <1>6, <1>9, <2>1, FS_AddElement
  <2>3. {row'[i].code : i \in Bills(row')} = {row[i].code : i \in Bills(row)} \cup {m + 1}
    <3>1. row'[n].code = m + 1
      BY <1>3, <1>12
    <3> QED
      BY ZenonT(60), <1>7, <2>1, <3>1
  <2> HIDE DEF m
  <2>4. {row[i].code : i \in Bills(row)} = 1..m
    BY DEF NeatBills, m
  <2>5. {row'[i].code : i \in Bills(row')} = 1..(m + 1)
    <3>1. 1..(m + 1) = 1..m \cup {m + 1}
      BY <1>9
    <3> QED
      BY <2>3, <2>4, <3>1
  <2>6. ASSUME NEW i \in Bills(row) PROVE row'[i].code = PlaceOf(row', i)
    <3>1. {j \in Bills(row') : j <= i} = {j \in Bills(row) : j <= i}
      BY <1>4, <1>6, <2>1, <1>2 DEF Bills
    <3> QED
      BY <1>7, <3>1 DEF NeatBills, PlaceOf
  <2>7. row'[n].code = PlaceOf(row', n)
    <3>1. \A j \in Bills(row') : j <= n
      BY <1>2, <1>4, <1>6, <2>1 DEF Bills
    <3>2. {j \in Bills(row') : j <= n} = Bills(row')
      BY <3>1
    <3> QED
      BY <1>3, <1>12, <2>2, <3>2 DEF PlaceOf, m
  <2>8. \A i \in Bills(row') : row'[i].code = PlaceOf(row', i)
    BY <2>1, <2>6, <2>7
  <2>9. m <= m + 1
    BY <1>9
  <2>10. BillsGrow(row, row')
    BY <1>10, <2>2, <2>9 DEF BillsGrow, m
  <2> QED
    BY <1>3, <1>5, <1>8, <2>2, <2>5, <2>8, <2>10 DEF NeatBills
<1> QED
  BY <1>11, <1>12

LEMMA BillUpdates ==
    ASSUME BillingInv, NEW c \in Callers, Update(c)
    PROVE  BillingInv'
<1> DEFINE e == Head(todo[c])
<1>1. ~Idle(c) /\ e.do = "update" /\ BillStatement(row, e) /\ Tail(todo[c]) = <<>>
  BY BillHead DEF Update
<1>2. CASE Throw(c)
  BY <1>2, BillThrows
<1>3. CASE ~Throw(c)
  <2>1. /\ row' = [i \in Ids |-> IF i \in e.ids /\ Exists(i) THEN Merge(row[i], e.set) ELSE row[i]]
        /\ todo' = [todo EXCEPT ![c] = <<>>]
    BY <1>1, <1>3 DEF Update
  <2>2. "kind" \notin DOMAIN e.set /\ "code" \notin DOMAIN e.set
    BY <1>1 DEF BillStatement
  <2> HIDE DEF e
  <2>3. ASSUME NEW i \in Ids PROVE BillChange(row[i], row'[i])
    <3>1. OfBilling(row[i])
      BY DEF BillingInv, NeatBills
    <3>2. CASE row'[i] = row[i]
      BY <3>2 DEF BillChange
    <3>3. CASE row'[i] # row[i]
      <4>1. row'[i] = Merge(row[i], e.set)
        BY <2>1, <3>3
      <4>2. /\ DOMAIN row'[i] = DOMAIN row[i]
            /\ \A f \in DOMAIN row[i] : row'[i][f] = IF f \in DOMAIN e.set THEN e.set[f] ELSE row[i][f]
        BY <4>1, MergeTells
      <4>3. row'[i].kind = row[i].kind /\ (row[i].kind = "bill" => row'[i].code = row[i].code)
        BY <2>2, <3>1, <4>2 DEF OfBilling
      <4>4. row[i].kind # "none"
        <5>1. Exists(i)
          BY <2>1, <3>3
        <5> QED
          BY <3>1, <5>1 DEF OfBilling, Exists
      <4>5. OfBilling(row'[i])
        BY <3>1, <4>2, <4>3, <4>4 DEF OfBilling
      <4> QED
        BY <4>3, <4>4, <4>5 DEF BillChange
    <3> QED
      BY <3>2, <3>3
  <2>4. DOMAIN row' = Ids
    BY <2>1
  <2> QED
    BY <2>1, <2>3, <2>4, BillsChange, BillExecutes DEF BillingInv
<1> QED
  BY <1>2, <1>3

LEMMA BillCreates ==
    ASSUME BillingInv, NEW c \in Callers, Create(c)
    PROVE  BillingInv'
<1>1. ~Idle(c) /\ Head(todo[c]).do = "create" /\ Room
  BY DEF Create
<1>2. BillStatement(row, Head(todo[c])) /\ Tail(todo[c]) = <<>>
  BY <1>1, BillHead
<1>3. CASE Throw(c)
  BY <1>3, BillThrows
<1>4. CASE ~Throw(c)
  <2>1. PICK d : d = Head(todo[c]).set
    OBVIOUS
  <2>2. /\ row' = [row EXCEPT ![NextId] = d] /\ todo' = [todo EXCEPT ![c] = <<>>] /\ ~Refused(d, 0)
    BY <1>2, <1>4, <2>1 DEF Create
  <2>3. OfBilling(d) /\ d.kind # "none"
    BY <1>1, <1>2, <2>1 DEF BillStatement
  <2>4. ASSUME d.kind = "bill" PROVE d.code = Cardinality(Bills(row)) + 1
    <3>1. d.code \in 1..(Cardinality(Bills(row)) + 1)
      BY <1>1, <1>2, <2>1, <2>4 DEF BillStatement
    <3>2. ASSUME NEW i \in Bills(row) PROVE d.code # row[i].code
      BY <2>2, <2>3, <2>4, <3>2, NoIdIsZero DEF Refused, OfBilling, Bills
    <3>3. d.code \notin 1..Cardinality(Bills(row))
      BY <3>2 DEF BillingInv, NeatBills
    <3> QED
      BY <3>1, <3>3, BillsFinite
  <2>5. NeatBills(row)
    BY DEF BillingInv
  <2> QED
    BY <1>1, <2>2, <2>3, <2>4, <2>5, BillsAdded, BillExecutes
<1> QED
  BY <1>3, <1>4

LEMMA PaymentEnters ==
    ASSUME BillingInv, NEW c \in Callers, EnterPayment(c)
    PROVE  BillingInv'
<1>1. PICK d : d = Payment(2, Head(todo[c]).status)
  OBVIOUS
<1>2. ~Idle(c) /\ Room /\ row' = [row EXCEPT ![NextId] = d] /\ todo' = [todo EXCEPT ![c] = Tail(todo[c])]
  BY <1>1 DEF EnterPayment
<1>3. OfBilling(d) /\ d.kind # "none" /\ d.kind # "bill"
  BY <1>1 DEF Payment, OfBilling
<1>4. NeatBills(row) /\ Tail(todo[c]) = <<>>
  BY <1>2, BillHead DEF BillingInv
<1> QED
  BY <1>2, <1>3, <1>4, BillsAdded, BillExecutes

\* A coupon is redeemed, a payment succeeds or is paid back.
LEMMA OneRowChanges ==
    ASSUME BillingInv, NEW c \in Callers, ~Idle(c), NEW n \in Ids, row[n].kind \in {"coupon", "payment"},
           NEW r, DOMAIN r = DOMAIN row[n], r.kind = row[n].kind, row' = [row EXCEPT ![n] = r],
           todo' = [todo EXCEPT ![c] = Tail(todo[c])]
    PROVE  BillingInv'
<1>1. NeatBills(row) /\ Tail(todo[c]) = <<>>
  BY BillHead DEF BillingInv
<1>2. DOMAIN row' = Ids /\ row'[n] = r /\ \A i \in Ids \ {n} : row'[i] = row[i]
  BY <1>1 DEF NeatBills
<1>3. BillChange(row[n], r)
  BY <1>1 DEF NeatBills, BillChange, OfBilling
<1>4. \A i \in Ids : BillChange(row[i], row'[i])
  BY <1>2, <1>3 DEF BillChange
<1> QED
  BY <1>1, <1>2, <1>4, BillsChange, BillExecutes

LEMMA MoneyMoves ==
    ASSUME BillingInv, NEW c \in Callers, Redeem(c) \/ Settlement(c) \/ Repayment(c)
    PROVE  BillingInv'
<1> DEFINE n == Head(todo[c]).id
<1>1. ~Idle(c) /\ Head(todo[c]).do \in {"redeem", "settle", "repay"}
  BY DEF Redeem, Settlement, Repayment
<1>2. n \in Ids /\ row[n].kind \in {"coupon", "payment"}
  BY <1>1, BillHead DEF BillStatement
<1>3. "kind" \in DOMAIN row[n]
  BY <1>2 DEF BillingInv, NeatBills, OfBilling
<1>4. CASE Throw(c)
  BY <1>4, BillThrows
<1>5. CASE ~Throw(c)
  <2> HIDE DEF n
  <2>1. todo' = [todo EXCEPT ![c] = Tail(todo[c])]
    BY <1>5 DEF Redeem, Settlement, Repayment
  <2>2. PICK r : r = row[n]
    OBVIOUS
  <2>3. \E t : DOMAIN t = DOMAIN r /\ t.kind = r.kind /\ row' = [row EXCEPT ![n] = t]
    <3>1. CASE Redeem(c)
      <4>1. row' = [row EXCEPT ![n] = [r EXCEPT !.used = r.used + 1]]
        BY <2>2, <3>1 DEF Redeem, n
      <4>2. PICK t : t = [r EXCEPT !.used = r.used + 1]
        BY ZenonT(60)
      <4>3. DOMAIN t = DOMAIN r /\ t.kind = r.kind
        BY <1>3, <2>2, <4>2
      <4> QED
        BY <4>1, <4>2, <4>3
    <3>2. CASE Settlement(c)
      <4>1. PICK x : row' = [row EXCEPT ![n] = [r EXCEPT !.status = "SUCCEEDED", !.code = x]]
        BY ZenonT(60), <1>5, <2>2, <3>2 DEF Settlement, n
      <4>2. PICK t : t = [r EXCEPT !.status = "SUCCEEDED", !.code = x]
        OBVIOUS
      <4>3. DOMAIN t = DOMAIN r /\ t.kind = r.kind
        BY <1>3, <2>2, <4>2
      <4> QED
        BY <4>1, <4>2, <4>3
    <3>3. CASE Repayment(c)
      <4> DEFINE x == Head(todo[c]).sum
                 y == Head(todo[c]).status
                 z == r.returned + Head(todo[c]).amount
      <4>1. row' = [row EXCEPT ![n] = [r EXCEPT !.refunded = x, !.status = y, !.returned = z]]
        BY <2>2, <3>3 DEF Repayment, n
      <4>2. PICK t : t = [r EXCEPT !.refunded = x, !.status = y, !.returned = z]
        OBVIOUS
      <4>3. DOMAIN t = DOMAIN r /\ t.kind = r.kind
        BY <1>3, <2>2, <4>2
      <4> QED
        BY <4>1, <4>2, <4>3
    <3> QED
      BY <3>1, <3>2, <3>3
  <2>4. PICK t : DOMAIN t = DOMAIN r /\ t.kind = r.kind /\ row' = [row EXCEPT ![n] = t]
    BY <2>3
  <2> QED
    BY <1>1, <1>2, <2>1, <2>2, <2>4, OneRowChanges
<1> QED
  BY SMTT(60), <1>4, <1>5

\* A new number is one more than there are invoices.
LEMMA NextBill == NeatBills(row) => generateInvoiceNumber = Cardinality(Bills(row)) + 1
<1> SUFFICES ASSUME NeatBills(row) PROVE generateInvoiceNumber = Cardinality(Bills(row)) + 1
  OBVIOUS
<1>1. Of("bill") = Bills(row) /\ IsFiniteSet(Bills(row)) /\ Cardinality(Bills(row)) \in Nat
  BY BillsFinite DEF Of, Bills
<1>2. CASE Bills(row) = {}
  BY <1>1, <1>2, FS_EmptySet DEF generateInvoiceNumber
<1>3. CASE Bills(row) # {}
  <2>1. Bills(row) \in SUBSET Nat
    BY RowsAssumption, FS_CardinalityType DEF Bills
  <2>2. Cardinality(Bills(row)) # 0
    BY <1>1, <1>3, FS_EmptySet
  <2>3. PICK top \in Bills(row) : row[top].code = Cardinality(Bills(row))
    BY <1>1, <2>2 DEF NeatBills
  <2>4. ASSUME NEW i \in Bills(row), i > top PROVE FALSE
    <3> DEFINE upto == {j \in Bills(row) : j <= top}
    <3>1. upto \subseteq Bills(row) /\ upto # Bills(row)
      BY <2>1, <2>4
    <3>2. Cardinality(upto) = Cardinality(Bills(row))
      BY <2>3 DEF NeatBills, PlaceOf
    <3> HIDE DEF upto
    <3> QED
      BY <1>1, <3>1, <3>2, FS_Subset
  <2>5. \A j \in Bills(row) : j <= top
    BY <2>1, <2>4
  <2>6. Newest(Bills(row)) \in Bills(row) /\ \A j \in Bills(row) : j <= Newest(Bills(row))
    BY <2>5 DEF Newest
  <2>7. Newest(Bills(row)) = top
    BY <2>1, <2>5, <2>6
  <2> QED
    BY <1>1, <1>3, <2>3, <2>7 DEF generateInvoiceNumber
<1> QED
  BY <1>2, <1>3

LEMMA BillingKeeps ==
    ASSUME BillingInv, NEW c \in Callers, BillingCall(c)
    PROVE  BillingInv'
<1>1. ASSUME NEW i \in Ids, NEW set, Begin(c, <<Set(i, set)>>), "kind" \notin DOMAIN set, "code" \notin DOMAIN set
      PROVE  BillingInv'
  <2>1. PICK e : e = Set(i, set)
    OBVIOUS
  <2>2. BillStatement(row, e)
    BY <1>1, <2>1, Statements DEF BillStatement
  <2> QED
    BY <1>1, <2>1, <2>2, BillBegins
<1>2. ASSUME NEW d, Begin(c, <<Insert(d)>>), OfBilling(d), d.kind # "none",
             d.kind = "bill" => d.code \in 1..(Cardinality(Bills(row)) + 1)
      PROVE  BillingInv'
  <2>1. PICK e : e = Insert(d)
    OBVIOUS
  <2>2. BillStatement(row, e)
    BY <1>2, <2>1, Statements DEF BillStatement
  <2> QED
    BY <1>2, <2>1, <2>2, BillBegins
<1>3. CASE CreateCoupon(c)
  <2>1. PICK n, max : Begin(c, <<Insert(Coupon(n, max))>>)
    BY <1>3 DEF CreateCoupon, BeginInsert
  <2>2. PICK d : d = Coupon(n, max)
    OBVIOUS
  <2>3. OfBilling(d) /\ d.kind = "coupon"
    BY <2>2 DEF Coupon, OfBilling
  <2> QED
    BY <1>2, <2>1, <2>2, <2>3
<1>4. CASE CreateBill(c)
  <2>1. PICK n : n = generateInvoiceNumber
    OBVIOUS
  <2>2. PICK d : d = Bill(n)
    OBVIOUS
  <2>3. OfBilling(d) /\ d.kind = "bill" /\ d.code = n
    BY <2>2 DEF Bill, OfBilling
  <2>4. n = Cardinality(Bills(row)) + 1
    BY <2>1, NextBill DEF BillingInv
  <2>5. n \in 1..(Cardinality(Bills(row)) + 1)
    BY <2>4, BillsFinite
  <2> QED
    BY <1>2, <1>4, <2>1, <2>2, <2>3, <2>5 DEF CreateBill, BeginInsert
<1>5. CASE CreatePayment(c)
  <2>1. PICK s : Begin(c, <<[do |-> "enter", status |-> s]>>)
    BY <1>5 DEF CreatePayment, BeginInsert
  <2>2. BillStatement(row, [do |-> "enter", status |-> s])
    BY DEF BillStatement
  <2> QED
    BY <2>1, <2>2, BillBegins
<1>6. CASE UpsertAddress(c)
  <2>1. ASSUME NEW b, Begin(c, <<Insert(Address(b))>>) PROVE BillingInv'
    <3>1. PICK d : d = Address(b)
      OBVIOUS
    <3>2. OfBilling(d) /\ d.kind = "address"
      BY <3>1 DEF Address, OfBilling
    <3> QED
      BY <1>2, <2>1, <3>1, <3>2
  <2>2. ASSUME NEW i \in Ids, NEW b, Begin(c, <<Set(i, [default |-> b])>>) PROVE BillingInv'
    BY <1>1, <2>2
  <2> QED
    BY <1>6, <2>1, <2>2 DEF UpsertAddress, BeginInsert, Of
<1>7. ASSUME NEW i \in Ids, UpdateCoupon(c, i) \/ DeleteCoupon(c, i) PROVE BillingInv'
  <2>1. \A x : /\ {"kind", "code"} \cap DOMAIN [max |-> x] = {} /\ {"kind", "code"} \cap DOMAIN [active |-> x] = {}
              /\ {"kind", "code"} \cap DOMAIN [expired |-> x] = {}
              /\ {"kind", "code"} \cap DOMAIN [active |-> FALSE, deleted |-> TRUE] = {}
    OBVIOUS
  <2>2. ASSUME NEW set, Begin(c, <<Set(i, set)>>), {"kind", "code"} \cap DOMAIN set = {} PROVE BillingInv'
    BY <1>1, <2>2
  <2> QED
    BY <1>7, <2>1, <2>2 DEF UpdateCoupon, DeleteCoupon
<1>8. ASSUME NEW i \in Ids, MarkPaid(c, i) \/ Issue(c, i) \/ CancelBill(c, i) \/ DeleteBill(c, i) \/ MarkFailed(c, i)
      PROVE  BillingInv'
  BY <1>1, <1>8 DEF MarkPaid, Issue, CancelBill, DeleteBill, MarkFailed
<1>9. ASSUME NEW i \in Ids, ApplyCoupon(c, i) PROVE BillingInv'
  <2>1. PICK e : e = [do |-> "redeem", id |-> i]
    OBVIOUS
  <2>2. row[i].kind = "coupon"
    BY <1>9 DEF ApplyCoupon, Validated, Undeleted, Of
  <2>3. BillStatement(row, e)
    BY <2>1, <2>2 DEF BillStatement
  <2> QED
    BY <1>9, <2>1, <2>3, BillBegins DEF ApplyCoupon
<1>10. ASSUME NEW i \in Ids, MarkSucceeded(c, i) PROVE BillingInv'
  <2>1. PICK id : Begin(c, <<[do |-> "settle", id |-> i, provider |-> id]>>)
    BY <1>10 DEF MarkSucceeded
  <2>2. row[i].kind = "payment"
    BY <1>10 DEF MarkSucceeded, Of
  <2>3. BillStatement(row, [do |-> "settle", id |-> i, provider |-> id])
    BY <2>2 DEF BillStatement
  <2> QED
    BY <2>1, <2>3, BillBegins
<1>11. ASSUME NEW i \in Ids, Refund(c, i) PROVE BillingInv'
  <2>1. PICK sum, a : Begin(c, <<Repay(i, sum, a)>>)
    BY <1>11 DEF Refund
  <2>2. row[i].kind = "payment"
    BY <1>11 DEF Refund, Of
  <2>3. BillStatement(row, Repay(i, sum, a))
    BY <2>2 DEF BillStatement, Repay
  <2> QED
    BY <2>1, <2>3, BillBegins
<1> QED
  BY <1>3, <1>4, <1>5, <1>6, <1>7, <1>8, <1>9, <1>10, <1>11 DEF BillingCall
-----------------------------------------------------------------------------
\* The numbers run at first,
LEMMA BillingStart == BillingInit => BillingInv
<1> SUFFICES ASSUME BillingInit PROVE BillingInv
  OBVIOUS
<1>1. NeatBills(row)
  BY BillingAssumption DEF BillingInit
<1>2. DOMAIN todo = Callers /\ \A c \in Callers : todo[c] = <<>>
  BY DEF BillingInit, RowsInit
<1> QED
  BY <1>1, <1>2 DEF BillingInv, BillScript

\* and after every step.
LEMMA BillingStep == BillingInv /\ BillingNext => BillingInv'
<1> SUFFICES ASSUME BillingInv, NEW c \in Callers,
                    \/ BillingCall(c) \/ Redeem(c) \/ EnterPayment(c) \/ Settlement(c) \/ Repayment(c)
                    \/ Update(c) \/ Create(c) \/ Die(c)
             PROVE  BillingInv'
  BY DEF BillingNext
<1>1. CASE BillingCall(c)
  BY <1>1, BillingKeeps
<1>2. CASE Redeem(c) \/ Settlement(c) \/ Repayment(c)
  BY <1>2, MoneyMoves
<1>3. CASE EnterPayment(c) \/ Create(c) \/ Update(c)
  BY <1>3, PaymentEnters, BillCreates, BillUpdates
<1>4. CASE Die(c)
  BY <1>4, BillThrows DEF Die
<1> QED
  BY <1>1, <1>2, <1>3, <1>4

LEMMA BillsFollow == BillingInv => BillsRun
<1> SUFFICES ASSUME BillingInv, NEW i \in Of("bill")
             PROVE  /\ row[i].code = Cardinality({j \in Of("bill") : j <= i})
                    /\ row[i].code # generateInvoiceNumber
  BY DEF BillsRun
<1>1. NeatBills(row) /\ Of("bill") = Bills(row)
  BY DEF BillingInv, Of, Bills
<1>2. row[i].code \in 1..Cardinality(Bills(row))
  BY <1>1 DEF NeatBills
<1>3. row[i].code # generateInvoiceNumber
  BY <1>1, <1>2, NextBill, BillsFinite
<1> QED
  BY <1>1, <1>3 DEF NeatBills, PlaceOf

\* In a behaviour that exercises billing.
BillingPart == part = "billing" => BillingInv
LEMMA BillingPartStart == ServicesInit => BillingPart
BY BillingStart DEF ServicesInit, BillingPart
LEMMA BillingPartStep == BillingPart /\ [ServicesNext]_serviceVars => BillingPart'
<1> SUFFICES ASSUME BillingPart, [ServicesNext]_serviceVars, part' = "billing" PROVE BillingInv'
  BY DEF BillingPart
<1>1. CASE ServicesNext
  <2>1. part = "billing" /\ BillingNext
    BY <1>1 DEF ServicesNext
  <2> QED
    BY <2>1, BillingStep DEF BillingPart
<1>2. CASE UNCHANGED serviceVars
  <2>1. part = "billing" /\ UNCHANGED rowVars
    BY <1>2 DEF serviceVars
  <2>2. BillingInv
    BY <2>1 DEF BillingPart
  <2> QED
    BY <2>1, <2>2 DEF BillingInv, rowVars
<1> QED
  BY <1>1, <1>2

LEMMA NoDocumentsBilled == BillingInv => NumbersRun
<1> SUFFICES ASSUME BillingInv PROVE NumbersGapless
  BY BillsFollow DEF NumbersRun
<1>1. \A i \in Ids : row[i].kind \notin Kinds
  BY SalesKinds DEF BillingInv, NeatBills, OfBilling
<1>2. ASSUME NEW kind \in Kinds
      PROVE  {row[i].number : i \in {j \in Ids : row[j].kind = kind}}
                 = 1..Cardinality({i \in Ids : row[i].kind = kind})
  <2>1. {i \in Ids : row[i].kind = kind} = {}
    BY <1>1
  <2>2. \A none : none = {} => {row[i].number : i \in none} = {}
    OBVIOUS
  <2>3. Cardinality({i \in Ids : row[i].kind = kind}) = 0 /\ 1..0 = {}
    BY <2>1, FS_EmptySet
  <2> QED
    BY <2>1, <2>2, <2>3
<1> QED
  BY <1>2 DEF NumbersGapless

\* The numbers of quotations, orders and invoices run from 1 without a gap or
\* a repetition as long as calls do not overlap, whichever of them die; those
\* of billing invoices run in the order they were made, and the next is never
\* taken, whatever overlaps or dies (generateNumber, generateInvoiceNumber).
THEOREM NumbersAlwaysRun ==
    ServicesSpec => []((part = "sales" => NumbersGapless) /\ (part = "billing" => NumbersRun))
<1>1. SalesPart => (part = "sales" => NumbersGapless)
  BY SalesFollow DEF SalesPart
<1>2. BillingPart => (part = "billing" => NumbersRun)
  BY NoDocumentsBilled DEF BillingPart
<1>3. ServicesSpec => []SalesPart
  BY SalesPartStart, SalesPartStep, PTL DEF ServicesSpec
<1>4. ServicesSpec => []BillingPart
  BY BillingPartStart, BillingPartStep, PTL DEF ServicesSpec
<1> QED
  BY <1>1, <1>2, <1>3, <1>4, PTL
-----------------------------------------------------------------------------
(* Plans on record, subscriptions that are over and metered use             *)
(* (Subscriptions).                                                         *)

\* A statement that leaves what is on record in agreement: it changes no plan
\* but an organisation's to FREE, or by hand, and no subscription that is over.
SafeSet(tab, i, set) ==
    /\ DOMAIN set \cap {"kind", "code", "org", "feature", "usage", "value"} = {}
    /\ DOMAIN set \cap {"plan", "manual"} # {} =>
          /\ tab[i].kind = "tenant" /\ {"plan", "manual"} \subseteq DOMAIN set
          /\ set.plan = "FREE" \/ set.manual
    /\ tab[i].kind = "subscription" =>
          /\ "ended" \notin DOMAIN set
          /\ "status" \in DOMAIN set =>
                /\ set.status # "EXPIRED" /\ tab[i].status # "EXPIRED"
                /\ set.status = "GRACE_PERIOD" => tab[i].ended
SafeList(tab, e) == e.do = "list" /\ e.to \in {"SUSPENDED", "GRACE_PERIOD"}
SafeTake(tab, e) ==
    /\ e.do = "take" /\ e.id \in Ids /\ tab[e.id].kind = "subscription"
    /\ e.to \in {"SUSPENDED", "GRACE_PERIOD"} /\ (e.to = "GRACE_PERIOD" => tab[e.id].ended)
SafeErase(tab, e) ==
    e.do = "erase" /\ e.id \in Ids /\ tab[e.id].kind \in {"feature", "planFeature", "gone"}
Safe(tab, e) ==
    \/ \E i \in Ids : \E set : e = Set(i, set) /\ SafeSet(tab, i, set)
    \/ SafeList(tab, e) \/ SafeTake(tab, e) \/ SafeErase(tab, e)
    \/ e.do = "clear" /\ e.kind \in {"planFeature", "counter"}
AllSafe(tab, q) == \E S : q \in Seq(S) /\ \A e \in S : Safe(tab, e)

\* What else a call may have left.
Syncing(tab, e) ==
    \E o \in Ids : \E t : e = SyncPlan(o, t) /\ tab[o].kind = "tenant" /\ t \in TiersOf(tab, o)
Adding(e) ==
    \E d : /\ e = Insert(d) /\ OfSubscriptions(d)
           /\ d.kind \in {"tenant", "plan", "feature", "planFeature"} /\ (d.kind = "tenant" => d.plan = "FREE")
Renewing(tab, e) ==
    \E s \in Ids : /\ tab[s].kind = "subscription" /\ tab[s].status # "EXPIRED"
                   /\ e = Set(s, [status |-> "ACTIVE", ended |-> FALSE])
Spare(tab, o, f) ==
    \A s, i, k \in Ids :
        /\ tab[s].kind = "subscription" /\ tab[s].code = o
        /\ tab[i].kind = "planFeature" /\ tab[i].feature = f /\ tab[i].available /\ tab[i].plan = tab[s].plan
        /\ tab[k].kind = "counter" /\ tab[k].org = o /\ tab[k].feature = f
        => tab[k].usage < tab[i].value
Metering(tab, e) == e.do = "enter" /\ e.amount \in Int /\ Spare(tab, e.org, e.feature)
ChangingPlan(tab, e, f) ==
    \E s, p \in Ids : \E set :
        /\ tab[s].kind = "subscription" /\ tab[p].kind = "plan"
        /\ e = Set(s, set) /\ "plan" \in DOMAIN set /\ DOMAIN set \subseteq {"plan", "ended"} /\ set.plan = p
        /\ f = SyncPlan(tab[s].code, mapPlanSlugToEnum(tab[p].code))
StartingTrial(tab, e, f) ==
    \E o, p \in Ids :
        /\ tab[o].kind = "tenant" /\ tab[p].kind = "plan"
        /\ e = Insert(Subscription(o, p)) /\ f = SyncPlan(o, mapPlanSlugToEnum(tab[p].code))
Expiring(tab, e, f) ==
    /\ \E s \in Ids : tab[s].kind = "subscription" /\ e = Set(s, [status |-> "EXPIRED"])
    /\ Syncing(tab, f)
OneStep(tab, e) == Syncing(tab, e) \/ Adding(e) \/ Renewing(tab, e) \/ Metering(tab, e)
TwoSteps(tab, e, f) == ChangingPlan(tab, e, f) \/ StartingTrial(tab, e, f) \/ Expiring(tab, e, f)
SubscriptionScript(tab, q) ==
    \/ AllSafe(tab, q)
    \/ \E e : q = <<e>> /\ OneStep(tab, e)
    \/ \E e, f : q = <<e, f>> /\ TwoSteps(tab, e, f)

\* As long as calls do not overlap and none dies, a plan on record that does
\* not agree is about to be written.
Syncs(q, o) == \E t : q = <<SyncPlan(o, t)>>
SubscriptionInv ==
    Orderly => /\ DOMAIN todo = Callers /\ OneCall /\ NeatPlans(row)
               /\ \A c \in Callers : SubscriptionScript(row, todo[c])
               /\ \A o \in Ids : Agreed(row, o) \/ \E c \in Callers : Syncs(todo[c], o)

\* What a step may do to subscriptions and counters.
StatusWatched(tab, then) ==
    \A s \in Ids : tab[s].kind = "subscription" =>
        /\ tab[s].status = "EXPIRED" => then[s].status = "EXPIRED"
        /\ then[s].status = "GRACE_PERIOD" => tab[s].status = "GRACE_PERIOD" \/ tab[s].ended
UseWatched(tab, then) ==
    \A k, i, s \in Ids :
        /\ tab[k].kind = "counter" /\ then[k].kind = "counter" /\ then[k].usage > tab[k].usage
        /\ tab[s].kind = "subscription" /\ tab[s].code = tab[k].org
        /\ tab[i].kind = "planFeature" /\ tab[i].feature = tab[k].feature /\ tab[i].available
        /\ tab[i].plan = tab[s].plan
        => tab[k].usage < tab[i].value
Watched(tab, then) == StatusWatched(tab, then) /\ UseWatched(tab, then)
SubscriptionMoves == SubscriptionInv' /\ (Orderly' => Watched(row, row'))

LEMMA NothingIsSafe == \A tab : AllSafe(tab, <<>>)
<1>1. PICK S : S = {}
  OBVIOUS
<1>2. <<>> \in Seq(S)
  BY EmptySeq
<1>3. \A e \in S : FALSE
  BY <1>1
<1> QED
  BY <1>2, <1>3 DEF AllSafe

LEMMA OneIsSafe ==
    ASSUME NEW tab, NEW e, Safe(tab, e)
    PROVE  AllSafe(tab, <<e>>)
<1>1. PICK S : S = {e}
  OBVIOUS
<1>2. <<e>> \in Seq(S) /\ \A x \in S : Safe(tab, x)
  BY <1>1
<1> QED
  BY <1>2 DEF AllSafe

LEMMA JoinedAreSafe ==
    ASSUME NEW tab, NEW p, NEW q, AllSafe(tab, p), AllSafe(tab, q)
    PROVE  AllSafe(tab, p \o q)
<1>1. PICK S : p \in Seq(S) /\ \A e \in S : Safe(tab, e)
  BY DEF AllSafe
<1>2. PICK T : q \in Seq(T) /\ \A e \in T : Safe(tab, e)
  BY DEF AllSafe
<1>3. PICK U : U = S \cup T
  OBVIOUS
<1>4. p \in Seq(U) /\ q \in Seq(U)
  BY <1>1, <1>2, <1>3, SeqMonotonic
<1>5. p \o q \in Seq(U) /\ \A e \in U : Safe(tab, e)
  BY <1>1, <1>2, <1>3, <1>4, ConcatProperties
<1> QED
  BY <1>5 DEF AllSafe

LEMMA RestIsSafe ==
    ASSUME NEW tab, NEW q, AllSafe(tab, q), q # <<>>
    PROVE  Safe(tab, Head(q)) /\ AllSafe(tab, Tail(q))
<1>1. PICK S : q \in Seq(S) /\ \A e \in S : Safe(tab, e)
  BY DEF AllSafe
<1>2. Head(q) \in S /\ Tail(q) \in Seq(S)
  BY <1>1, HeadTailProperties
<1> QED
  BY <1>1, <1>2 DEF AllSafe

LEMMA NothingWatched == NeatPlans(row) => Watched(row, row)
BY DEF NeatPlans, Watched, StatusWatched, UseWatched, OfSubscriptions

\* A call begins.
LEMMA SubscriptionBegins ==
    ASSUME SubscriptionInv, NEW c \in Callers, NEW st, Begin(c, st),
           Orderly /\ Quiet => SubscriptionScript(row, st)
    PROVE  SubscriptionMoves
<1> SUFFICES ASSUME Orderly' PROVE SubscriptionInv' /\ Watched(row, row')
  BY DEF SubscriptionInv, SubscriptionMoves
<1>1. /\ row' = row /\ todo' = [todo EXCEPT ![c] = st] /\ Orderly /\ Quiet
  BY DEF Begin, Orderly
<1>2. /\ DOMAIN todo' = Callers /\ todo'[c] = st
      /\ \A d \in Callers \ {c} : todo'[d] = <<>>
  BY <1>1 DEF SubscriptionInv, Quiet, Idle
<1>3. OneCall'
  BY <1>2 DEF OneCall, Idle
<1>4. \A d \in Callers : SubscriptionScript(row', todo'[d])
  BY <1>1, <1>2, NothingIsSafe DEF SubscriptionScript
<1>5. \A o \in Ids : Agreed(row, o)
  <2>1. \A d \in Callers, o \in Ids : ~Syncs(todo[d], o)
    BY <1>1, ShortLists DEF Quiet, Idle, Syncs
  <2> QED
    BY <1>1, <2>1 DEF SubscriptionInv
<1>6. NeatPlans(row)
  BY <1>1 DEF SubscriptionInv
<1> QED
  BY <1>1, <1>2, <1>3, <1>4, <1>5, <1>6, NothingWatched DEF SubscriptionInv

\* A statement of the call that runs.
LEMMA AboutToSync ==
    ASSUME SubscriptionInv, Orderly, NEW c \in Callers, ~Idle(c)
    PROVE  \A o \in Ids : Agreed(row, o) \/ Syncs(todo[c], o)
<1> SUFFICES ASSUME NEW o \in Ids, NEW d \in Callers, Syncs(todo[d], o) PROVE d = c
  BY DEF SubscriptionInv
<1>1. ~Idle(d)
  BY ShortLists DEF Syncs, Idle
<1> QED
  BY <1>1 DEF SubscriptionInv, OneCall

LEMMA SubscriptionExecutes ==
    ASSUME SubscriptionInv, NEW c \in Callers, ~Idle(c), NEW rest,
           todo' = [todo EXCEPT ![c] = rest], UNCHANGED overlapped, UNCHANGED died,
           Orderly => /\ NeatPlans(row') /\ SubscriptionScript(row', rest) /\ Watched(row, row')
                      /\ \A o \in Ids : Agreed(row', o) \/ Syncs(rest, o)
    PROVE  SubscriptionMoves
<1> SUFFICES ASSUME Orderly' PROVE SubscriptionInv' /\ Watched(row, row')
  BY DEF SubscriptionInv, SubscriptionMoves
<1>0. Orderly
  BY DEF Orderly
<1>1. /\ DOMAIN todo' = Callers /\ todo'[c] = rest
      /\ \A d \in Callers \ {c} : todo'[d] = <<>>
  BY <1>0 DEF SubscriptionInv, OneCall, Idle
<1>2. OneCall'
  BY <1>1 DEF OneCall, Idle
<1>3. \A d \in Callers : SubscriptionScript(row', todo'[d])
  BY <1>0, <1>1, NothingIsSafe DEF SubscriptionScript
<1> QED
  BY <1>0, <1>1, <1>2, <1>3 DEF SubscriptionInv

LEMMA SubscriptionThrows ==
    ASSUME NEW c \in Callers, Throw(c)
    PROVE  SubscriptionMoves
BY DEF Throw, SubscriptionInv, SubscriptionMoves, Orderly
-----------------------------------------------------------------------------
\* Tables in which what is referred to stays.
KeepsPlans(tab, then) ==
    \A i \in Ids :
        /\ OfSubscriptions(then[i])
        /\ tab[i].kind \in {"tenant", "plan", "subscription"} => then[i].kind = tab[i].kind
        /\ then[i].kind = "subscription" => tab[i].kind = "subscription"
        /\ tab[i].kind = "plan" => then[i].code = tab[i].code
        /\ tab[i].kind = "subscription" => then[i].code = tab[i].code /\ then[i].plan = tab[i].plan
        /\ then[i].kind = "counter" =>
              tab[i].kind = "counter" /\ then[i].org = tab[i].org /\ then[i].feature = tab[i].feature
LEMMA PlansKept ==
    ASSUME NEW tab, NEW then, NeatPlans(tab), DOMAIN then = Ids, KeepsPlans(tab, then)
    PROVE  NeatPlans(then) /\ \A o \in Ids : TiersOf(then, o) = TiersOf(tab, o)
<1>1. ASSUME NEW s \in Ids, then[s].kind = "subscription"
      PROVE  /\ then[s].plan \in Ids /\ then[then[s].plan].kind = "plan"
             /\ then[s].code \in Ids /\ then[then[s].code].kind = "tenant"
  <2>1. tab[s].kind = "subscription" /\ then[s].plan = tab[s].plan /\ then[s].code = tab[s].code
    BY <1>1 DEF KeepsPlans
  <2>2. /\ tab[s].plan \in Ids /\ tab[tab[s].plan].kind = "plan"
        /\ tab[s].code \in Ids /\ tab[tab[s].code].kind = "tenant"
    BY <2>1 DEF NeatPlans
  <2> QED
    BY <2>1, <2>2 DEF KeepsPlans
<1>2. ASSUME NEW k \in Ids, NEW l \in Ids, then[k].kind = "counter", then[l].kind = "counter",
             then[k].org = then[l].org, then[k].feature = then[l].feature
      PROVE  k = l
  <2>1. /\ tab[k].kind = "counter" /\ then[k].org = tab[k].org /\ then[k].feature = tab[k].feature
        /\ tab[l].kind = "counter" /\ then[l].org = tab[l].org /\ then[l].feature = tab[l].feature
    BY <1>2 DEF KeepsPlans
  <2> QED
    BY ZenonT(60), <1>2, <2>1 DEF NeatPlans
<1>3. NeatPlans(then)
  BY <1>1, <1>2 DEF NeatPlans, KeepsPlans
<1>4. ASSUME NEW o \in Ids PROVE TiersOf(then, o) = TiersOf(tab, o)
  <2> DEFINE Own(t) == {x \in Ids : t[x].kind = "subscription" /\ t[x].code = o}
  <2>1. Own(then) = Own(tab)
    BY DEF KeepsPlans
  <2>2. ASSUME NEW s \in Own(tab) PROVE then[then[s].plan].code = tab[tab[s].plan].code
    <3>1. then[s].plan = tab[s].plan /\ tab[s].plan \in Ids /\ tab[tab[s].plan].kind = "plan"
      BY <2>2 DEF KeepsPlans, NeatPlans
    <3> QED
      BY <3>1 DEF KeepsPlans
  <2>3. {mapPlanSlugToEnum(then[then[s].plan].code) : s \in Own(then)}
            = {mapPlanSlugToEnum(tab[tab[s].plan].code) : s \in Own(tab)}
    BY <2>1, <2>2
  <2> QED
    BY <2>3 DEF TiersOf
<1> QED
  BY <1>3, <1>4

\* What a call goes on to do stays safe.
KeepsSafe(tab, then) ==
    \A i \in Ids :
        /\ tab[i].kind = "tenant" => then[i].kind = "tenant"
        /\ tab[i].kind = "subscription" <=> then[i].kind = "subscription"
        /\ tab[i].kind = "subscription" =>
              /\ tab[i].ended => then[i].ended
              /\ tab[i].status # "EXPIRED" => then[i].status # "EXPIRED"
        /\ tab[i].kind \in {"feature", "planFeature", "gone"} => then[i].kind \in {"feature", "planFeature", "gone"}
LEMMA SafeKept ==
    ASSUME NEW tab, NEW then, KeepsSafe(tab, then), NEW q, AllSafe(tab, q)
    PROVE  AllSafe(then, q)
<1>1. ASSUME NEW e, Safe(tab, e) PROVE Safe(then, e)
  <2>1. ASSUME NEW i \in Ids, NEW set, SafeSet(tab, i, set) PROVE SafeSet(then, i, set)
    BY <2>1 DEF SafeSet, KeepsSafe
  <2>2. CASE \E i \in Ids : \E set : e = Set(i, set) /\ SafeSet(tab, i, set)
    BY <2>1, <2>2 DEF Safe
  <2>3. CASE SafeTake(tab, e)
    BY <2>3 DEF Safe, SafeTake, KeepsSafe
  <2>4. CASE SafeErase(tab, e)
    BY <2>4 DEF Safe, SafeErase, KeepsSafe
  <2>5. CASE SafeList(tab, e) \/ (e.do = "clear" /\ e.kind \in {"planFeature", "counter"})
    BY <2>5 DEF Safe, SafeList
  <2> QED
    BY <1>1, <2>2, <2>3, <2>4, <2>5 DEF Safe
<1>2. PICK S : q \in Seq(S) /\ \A e \in S : Safe(tab, e)
  BY DEF AllSafe
<1> QED
  BY <1>1, <1>2 DEF AllSafe

\* An update of one row that keeps what refers to it.
Loose(set) == DOMAIN set \cap {"kind", "code", "org", "feature", "usage", "value"} = {}
LEMMA SubscriptionMerged ==
    ASSUME NEW r, OfSubscriptions(r), NEW set, Loose(set), NEW t, t = Merge(r, set)
    PROVE  /\ OfSubscriptions(t) /\ t.kind = r.kind
           /\ \A f \in DOMAIN r : t[f] = IF f \in DOMAIN set THEN set[f] ELSE r[f]
           /\ r.kind = "plan" => t.code = r.code
           /\ r.kind = "subscription" => t.code = r.code
           /\ r.kind = "counter" => t.org = r.org /\ t.feature = r.feature /\ t.usage = r.usage
<1>1. DOMAIN t = DOMAIN r /\ \A f \in DOMAIN r : t[f] = IF f \in DOMAIN set THEN set[f] ELSE r[f]
  BY MergeTells
<1>2. \A f \in DOMAIN r : f \in {"kind", "code", "org", "feature", "usage", "value"} => t[f] = r[f]
  BY <1>1 DEF Loose
<1>3. "kind" \in DOMAIN r /\ t.kind = r.kind
  BY <1>2 DEF OfSubscriptions
<1>4. r.kind = "plan" \/ r.kind = "subscription" => t.code = r.code
  BY <1>2 DEF OfSubscriptions
<1>5. r.kind = "counter" => t.org = r.org /\ t.feature = r.feature /\ t.usage = r.usage
  BY <1>2 DEF OfSubscriptions
<1>6. r.kind = "planFeature" => t.value = r.value
  BY <1>2 DEF OfSubscriptions
<1>7. OfSubscriptions(t)
  BY <1>1, <1>3, <1>5, <1>6 DEF OfSubscriptions
<1> QED
  BY <1>1, <1>3, <1>4, <1>5, <1>7

OneUpdated(n, set) ==
    /\ DOMAIN row' = Ids /\ \A i \in Ids \ {n} : row'[i] = row[i]
    /\ row'[n] = row[n] \/ row'[n] = Merge(row[n], set)
    /\ Exists(n) => row'[n] = Merge(row[n], set)
LEMMA UpdateOfOne ==
    ASSUME NEW c \in Callers, Update(c), ~Throw(c), NEW n \in Ids, NEW set, Head(todo[c]) = Set(n, set)
    PROVE  /\ OneUpdated(n, set) /\ Exists(n) /\ ~Idle(c)
           /\ todo' = [todo EXCEPT ![c] = Tail(todo[c])] /\ UNCHANGED overlapped /\ UNCHANGED died
<1> DEFINE e == Head(todo[c])
<1>1. e.ids = {n} /\ e.set = set
  BY Statements
<1> HIDE DEF e
<1>2. ~Throw(c) => ~(e.ids # {} /\ \A i \in e.ids : ~Exists(i))
  BY DEF Update, e
<1>3. Exists(n)
  BY <1>1, <1>2
<1>4. row' = [i \in Ids |-> IF i \in e.ids /\ Exists(i) THEN Merge(row[i], e.set) ELSE row[i]]
  BY DEF Update, e
<1>5. todo' = [todo EXCEPT ![c] = Tail(todo[c])] /\ UNCHANGED overlapped /\ UNCHANGED died /\ ~Idle(c)
  BY DEF Update
<1>6. DOMAIN row' = Ids /\ row'[n] = Merge(row[n], set) /\ \A i \in Ids \ {n} : row'[i] = row[i]
  BY <1>1, <1>3, <1>4
<1> QED
  BY <1>3, <1>5, <1>6 DEF OneUpdated

LEMMA OneKeepsPlans ==
    ASSUME NeatPlans(row), NEW n \in Ids, NEW set, OneUpdated(n, set), Loose(set),
           row[n].kind = "subscription" => "plan" \notin DOMAIN set
    PROVE  /\ KeepsPlans(row, row') /\ DOMAIN row' = Ids
           /\ \A i \in Ids : row'[i].kind = row[i].kind /\ (row[i].kind = "counter" => row'[i].usage = row[i].usage)
<1>1. \A i \in Ids : OfSubscriptions(row[i])
  BY DEF NeatPlans
<1>2. PICK t : t = row'[n]
  OBVIOUS
<1>3. /\ OfSubscriptions(t) /\ t.kind = row[n].kind
      /\ row[n].kind = "plan" => t.code = row[n].code
      /\ row[n].kind = "subscription" => t.code = row[n].code /\ t.plan = row[n].plan
      /\ row[n].kind = "counter" => t.org = row[n].org /\ t.feature = row[n].feature /\ t.usage = row[n].usage
  <2>1. CASE t = row[n]
    BY <1>1, <2>1
  <2>2. CASE t = Merge(row[n], set)
    <3>1. PICK r : r = row[n]
      OBVIOUS
    <3>2. OfSubscriptions(r) /\ t = Merge(r, set)
      BY <1>1, <2>2, <3>1
    <3>3. /\ OfSubscriptions(t) /\ t.kind = r.kind
          /\ \A f \in DOMAIN r : t[f] = IF f \in DOMAIN set THEN set[f] ELSE r[f]
          /\ r.kind = "plan" => t.code = r.code
          /\ r.kind = "subscription" => t.code = r.code
          /\ r.kind = "counter" => t.org = r.org /\ t.feature = r.feature /\ t.usage = r.usage
      BY <3>2, SubscriptionMerged
    <3>4. r.kind = "subscription" => t.plan = r.plan
      BY <3>1, <3>2, <3>3 DEF OfSubscriptions
    <3> QED
      BY <3>1, <3>3, <3>4
  <2> QED
    BY <1>2, <2>1, <2>2 DEF OneUpdated
<1>4. ASSUME NEW i \in Ids, i # n PROVE row'[i] = row[i]
  BY <1>4 DEF OneUpdated
<1>5. KeepsPlans(row, row')
  BY <1>1, <1>2, <1>3, <1>4 DEF KeepsPlans
<1> QED
  BY <1>2, <1>3, <1>4, <1>5 DEF OneUpdated

\* Whose plan is not written stays in agreement.
LEMMA OneStaysAgreed ==
    ASSUME NeatPlans(row), NEW n \in Ids, NEW set, OneUpdated(n, set), Loose(set),
           row[n].kind = "subscription" => "plan" \notin DOMAIN set,
           NEW o \in Ids, Agreed(row, o), o # n \/ DOMAIN set \cap {"plan", "manual"} = {}
    PROVE  Agreed(row', o)
<1>1. TiersOf(row', o) = TiersOf(row, o) /\ row'[o].kind = row[o].kind
  BY OneKeepsPlans, PlansKept
<1>2. ASSUME row[o].kind = "tenant" PROVE row'[o].plan = row[o].plan /\ row'[o].manual = row[o].manual
  <2>1. CASE o # n
    BY <2>1 DEF OneUpdated
  <2>2. CASE DOMAIN set \cap {"plan", "manual"} = {}
    <3>1. PICK r : r = row[o]
      OBVIOUS
    <3>2. OfSubscriptions(r) /\ (row'[o] = r \/ row'[o] = Merge(r, set))
      BY <3>1 DEF NeatPlans, OneUpdated
    <3>3. {"plan", "manual"} \subseteq DOMAIN r
      BY <1>2, <3>1, <3>2 DEF OfSubscriptions
    <3>4. row'[o].plan = r.plan /\ row'[o].manual = r.manual
      BY <2>2, <3>2, <3>3, MergeTells
    <3> QED
      BY <3>1, <3>4
  <2> QED
    BY <2>1, <2>2
<1> QED
  BY <1>1, <1>2 DEF Agreed
LEMMA OneIsAgreed ==
    ASSUME NeatPlans(row), NEW n \in Ids, NEW set, OneUpdated(n, set), Loose(set), Exists(n),
           row[n].kind = "tenant", {"plan", "manual"} \subseteq DOMAIN set,
           set.plan \in TiersOf(row, n) \/ set.manual
    PROVE  Agreed(row', n)
<1>1. TiersOf(row', n) = TiersOf(row, n)
  BY OneKeepsPlans, PlansKept
<1>2. PICK r : r = row[n]
  OBVIOUS
<1>3. OfSubscriptions(r) /\ row'[n] = Merge(r, set) /\ r.kind = "tenant"
  BY <1>2 DEF NeatPlans, OneUpdated
<1>4. {"plan", "manual"} \subseteq DOMAIN r
  BY <1>3 DEF OfSubscriptions
<1>5. row'[n].plan = set.plan /\ row'[n].manual = set.manual
  BY <1>3, <1>4, MergeTells
<1> QED
  BY <1>1, <1>5 DEF Agreed
-----------------------------------------------------------------------------
\* The next statement tells which kind of call it is.
LEMMA SyncIsSet ==
    ASSUME NEW o, NEW t
    PROVE  \E set : /\ SyncPlan(o, t) = Set(o, set) /\ DOMAIN set = {"plan", "manual"}
                   /\ set.plan = t /\ ~set.manual
<1>1. PICK set : set = [plan |-> t, manual |-> FALSE]
  OBVIOUS
<1>2. DOMAIN set = {"plan", "manual"} /\ set.plan = t /\ ~set.manual
  BY <1>1
<1> QED
  BY <1>1, <1>2 DEF SyncPlan
LEMMA SubscriptionHeads ==
    ASSUME NEW tab, NEW q, q # <<>>, SubscriptionScript(tab, q)
    PROVE  /\ Head(q).do = "update" =>
                 \/ AllSafe(tab, q)
                 \/ \E e : q = <<e>> /\ (Syncing(tab, e) \/ Renewing(tab, e))
                 \/ \E e, f : q = <<e, f>> /\ (ChangingPlan(tab, e, f) \/ Expiring(tab, e, f))
           /\ Head(q).do = "create" =>
                 \/ \E e : q = <<e>> /\ Adding(e)
                 \/ \E e, f : q = <<e, f>> /\ StartingTrial(tab, e, f)
           /\ Head(q).do = "enter" => \E e : q = <<e>> /\ Metering(tab, e)
           /\ Head(q).do \in {"list", "take", "clear", "erase"} => AllSafe(tab, q)
<1>1. CASE AllSafe(tab, q)
  <2>1. Safe(tab, Head(q))
    BY <1>1, RestIsSafe
  <2>2. Head(q).do \notin {"create", "enter"}
    <3>1. CASE \E i \in Ids : \E set : Head(q) = Set(i, set) /\ SafeSet(tab, i, set)
      BY <3>1, Statements
    <3> QED
      BY <2>1, <3>1 DEF Safe, SafeList, SafeTake, SafeErase
  <2> QED
    BY <1>1, <2>2
<1>2. ASSUME NEW e, q = <<e>>, OneStep(tab, e)
      PROVE  /\ Head(q).do = "update" => Syncing(tab, e) \/ Renewing(tab, e)
             /\ Head(q).do = "create" => Adding(e)
             /\ Head(q).do = "enter" => Metering(tab, e)
             /\ Head(q).do \notin {"list", "take", "clear", "erase"}
  <2>1. Head(q) = e
    BY <1>2, ShortLists
  <2>2. CASE Syncing(tab, e)
    <3>1. e.do = "update"
      BY <2>2, Statements DEF Syncing, SyncPlan
    <3> QED
      BY <2>1, <2>2, <3>1
  <2>3. CASE Renewing(tab, e)
    <3>1. PICK i, set : e = Set(i, set)
      BY <2>3 DEF Renewing
    <3>2. e.do = "update"
      BY <3>1, Statements
    <3> QED
      BY <2>1, <2>3, <3>2
  <2>4. CASE Adding(e)
    <3>1. e.do = "create"
      BY <2>4, Statements DEF Adding
    <3> QED
      BY <2>1, <2>4, <3>1
  <2>5. CASE Metering(tab, e)
    BY <2>1, <2>5 DEF Metering
  <2> QED
    BY <1>2, <2>2, <2>3, <2>4, <2>5 DEF OneStep
<1>3. ASSUME NEW e, NEW f, q = <<e, f>>, TwoSteps(tab, e, f)
      PROVE  /\ Head(q).do = "update" => ChangingPlan(tab, e, f) \/ Expiring(tab, e, f)
             /\ Head(q).do = "create" => StartingTrial(tab, e, f)
             /\ Head(q).do \notin {"list", "take", "clear", "erase", "enter"}
  <2>1. Head(q) = e
    BY <1>3, ShortLists
  <2>2. CASE ChangingPlan(tab, e, f)
    <3>1. e.do = "update"
      BY <2>2, Statements DEF ChangingPlan
    <3> QED
      BY <2>1, <2>2, <3>1
  <2>3. CASE Expiring(tab, e, f)
    <3>1. PICK i, set : e = Set(i, set)
      BY <2>3 DEF Expiring
    <3>2. e.do = "update"
      BY <3>1, Statements
    <3> QED
      BY <2>1, <2>3, <3>2
  <2>4. CASE StartingTrial(tab, e, f)
    <3>1. e.do = "create"
      BY <2>4, Statements DEF StartingTrial
    <3> QED
      BY <2>1, <2>4, <3>1
  <2> QED
    BY <1>3, <2>2, <2>3, <2>4 DEF TwoSteps
<1>4. CASE \E e : q = <<e>> /\ OneStep(tab, e)
  BY <1>2, <1>4
<1>5. CASE \E e, f : q = <<e, f>> /\ TwoSteps(tab, e, f)
  BY <1>3, <1>5
<1> QED
  BY <1>1, <1>4, <1>5 DEF SubscriptionScript

\* What an update may do to a status.
Lawful(tab, n, set) ==
    tab[n].kind = "subscription" /\ "status" \in DOMAIN set =>
        /\ set.status # "EXPIRED" => tab[n].status # "EXPIRED"
        /\ set.status = "GRACE_PERIOD" => tab[n].ended
LEMMA OneWatched ==
    ASSUME NeatPlans(row), NEW n \in Ids, NEW set, OneUpdated(n, set), Loose(set),
           row[n].kind = "subscription" => "plan" \notin DOMAIN set, Lawful(row, n, set)
    PROVE  Watched(row, row')
<1>1. ASSUME NEW s \in Ids, row[s].kind = "subscription"
      PROVE  /\ row[s].status = "EXPIRED" => row'[s].status = "EXPIRED"
             /\ row'[s].status = "GRACE_PERIOD" => row[s].status = "GRACE_PERIOD" \/ row[s].ended
  <2>1. PICK r : r = row[s]
    OBVIOUS
  <2>2. OfSubscriptions(r) /\ r.kind = "subscription"
    BY <1>1, <2>1 DEF NeatPlans
  <2>3. CASE row'[s] = row[s]
    BY <2>3
  <2>4. CASE row'[s] # row[s]
    <3>1. s = n /\ row'[s] = Merge(r, set)
      BY <2>1, <2>4 DEF OneUpdated
    <3>2. row'[s].status = IF "status" \in DOMAIN set THEN set.status ELSE r.status
      BY <2>2, <3>1, MergeTells DEF OfSubscriptions
    <3> QED
      BY <1>1, <2>1, <3>1, <3>2 DEF Lawful
  <2> QED
    BY <2>3, <2>4
<1>2. UseWatched(row, row')
  <2>1. ASSUME NEW k \in Ids, row[k].kind = "counter" PROVE ~(row'[k].usage > row[k].usage)
    <3>1. row'[k].usage = row[k].usage
      BY <2>1, OneKeepsPlans
    <3>2. row[k].usage \in Int
      BY <2>1 DEF NeatPlans, OfSubscriptions
    <3> QED
      BY <3>1, <3>2
  <2> QED
    BY <2>1 DEF UseWatched
<1> QED
  BY <1>1, <1>2 DEF Watched, StatusWatched

\* Safe updates.
LEMMA SafeUpdates ==
    ASSUME NeatPlans(row), NEW q, q # <<>>, AllSafe(row, q), NEW n \in Ids, NEW set, Head(q) = Set(n, set),
           OneUpdated(n, set), Exists(n), \A o \in Ids : Agreed(row, o) \/ Syncs(q, o)
    PROVE  /\ NeatPlans(row') /\ AllSafe(row', Tail(q)) /\ Watched(row, row')
           /\ \A o \in Ids : Agreed(row', o)
<1>1. Safe(row, Set(n, set)) /\ AllSafe(row, Tail(q))
  BY RestIsSafe
<1>2. SafeSet(row, n, set)
  <2>1. Set(n, set).do = "update"
    BY Statements
  <2>2. PICK i \in Ids : \E s : Set(n, set) = Set(i, s) /\ SafeSet(row, i, s)
    BY <1>1, <2>1 DEF Safe, SafeList, SafeTake, SafeErase
  <2> QED
    BY <2>2, SetsDiffer
<1>3. Loose(set) /\ Lawful(row, n, set) /\ (row[n].kind = "subscription" => "plan" \notin DOMAIN set)
  BY <1>2 DEF SafeSet, Loose, Lawful
<1>4. KeepsPlans(row, row') /\ DOMAIN row' = Ids /\ \A i \in Ids : row'[i].kind = row[i].kind
  BY <1>3, OneKeepsPlans
<1>5. NeatPlans(row') /\ Watched(row, row')
  BY <1>3, <1>4, PlansKept, OneWatched
<1>6. KeepsSafe(row, row')
  <2>1. ASSUME NEW i \in Ids, row[i].kind = "subscription"
        PROVE  /\ row[i].ended => row'[i].ended
               /\ row[i].status # "EXPIRED" => row'[i].status # "EXPIRED"
    <3>1. PICK r : r = row[i]
      OBVIOUS
    <3>2. OfSubscriptions(r) /\ r.kind = "subscription"
      BY <2>1, <3>1 DEF NeatPlans
    <3>3. CASE row'[i] = row[i]
      BY <3>3
    <3>4. CASE row'[i] # row[i]
      <4>1. i = n /\ row'[i] = Merge(r, set)
        BY <3>1, <3>4 DEF OneUpdated
      <4>2. /\ row'[i].status = IF "status" \in DOMAIN set THEN set.status ELSE r.status
            /\ row'[i].ended = IF "ended" \in DOMAIN set THEN set.ended ELSE r.ended
        BY <3>2, <4>1, MergeTells DEF OfSubscriptions
      <4> QED
        BY <1>2, <2>1, <3>1, <4>1, <4>2 DEF SafeSet
    <3> QED
      BY <3>3, <3>4
  <2> QED
    BY <1>4, <2>1 DEF KeepsSafe
<1>7. ASSUME NEW o \in Ids PROVE Agreed(row', o)
  <2>1. CASE o = n /\ DOMAIN set \cap {"plan", "manual"} # {}
    <3>1. /\ row[n].kind = "tenant" /\ {"plan", "manual"} \subseteq DOMAIN set
          /\ set.plan = "FREE" \/ set.manual
      BY <1>2, <2>1 DEF SafeSet
    <3>2. set.plan \in TiersOf(row, n) \/ set.manual
      BY <3>1 DEF TiersOf
    <3> QED
      BY <1>3, <2>1, <3>1, <3>2, OneIsAgreed
  <2>2. CASE o # n \/ DOMAIN set \cap {"plan", "manual"} = {}
    <3>1. ASSUME NEW t, q = <<SyncPlan(o, t)>> PROVE FALSE
      <4>1. PICK s : SyncPlan(o, t) = Set(o, s) /\ DOMAIN s = {"plan", "manual"}
        BY SyncIsSet
      <4>2. Set(n, set) = Set(o, s)
        BY <3>1, <4>1, ShortLists
      <4>3. n = o /\ set = s
        BY <4>2, SetsDiffer
      <4> QED
        BY <2>2, <4>1, <4>3
    <3>2. Agreed(row, o)
      BY <3>1 DEF Syncs
    <3> QED
      BY <1>3, <2>2, <3>2, OneStaysAgreed
  <2> QED
    BY <2>1, <2>2
<1> QED
  BY <1>1, <1>5, <1>6, <1>7, SafeKept

LEMMA PlainUpdate ==
    ASSUME NeatPlans(row), NEW n \in Ids, NEW set, OneUpdated(n, set), Loose(set),
           row[n].kind = "subscription" => "plan" \notin DOMAIN set, Lawful(row, n, set)
    PROVE  /\ NeatPlans(row') /\ Watched(row, row')
           /\ \A o \in Ids : TiersOf(row', o) = TiersOf(row, o) /\ row'[o].kind = row[o].kind
BY OneKeepsPlans, PlansKept, OneWatched

UpdateMoves(rest) ==
    /\ NeatPlans(row') /\ SubscriptionScript(row', rest) /\ Watched(row, row')
    /\ \A o \in Ids : Agreed(row', o) \/ Syncs(rest, o)
LEMMA SyncMoves ==
    ASSUME NeatPlans(row), NEW e, Syncing(row, e), NEW n \in Ids, NEW set, e = Set(n, set),
           OneUpdated(n, set), Exists(n), \A o \in Ids : Agreed(row, o) \/ Syncs(<<e>>, o)
    PROVE  UpdateMoves(<<>>)
<1>1. PICK o \in Ids : \E t : e = SyncPlan(o, t) /\ row[o].kind = "tenant" /\ t \in TiersOf(row, o)
  BY DEF Syncing
<1>2. PICK t : e = SyncPlan(o, t) /\ row[o].kind = "tenant" /\ t \in TiersOf(row, o)
  BY <1>1
<1>3. PICK s : SyncPlan(o, t) = Set(o, s) /\ DOMAIN s = {"plan", "manual"} /\ s.plan = t /\ ~s.manual
  BY SyncIsSet
<1>4. n = o /\ set = s
  <2>1. Set(n, set) = Set(o, s)
    BY <1>2, <1>3
  <2> QED
    BY <2>1, SetsDiffer
<1>5. /\ Loose(set) /\ row[n].kind = "tenant" /\ Lawful(row, n, set)
      /\ {"plan", "manual"} \subseteq DOMAIN set /\ set.plan \in TiersOf(row, n)
  BY <1>2, <1>3, <1>4 DEF Loose, Lawful
<1>6. NeatPlans(row') /\ Watched(row, row')
  BY <1>5, PlainUpdate
<1>7. Agreed(row', n)
  BY <1>5, OneIsAgreed
<1>8. ASSUME NEW x \in Ids, x # n PROVE Agreed(row', x)
  <2>1. ASSUME NEW u, <<e>> = <<SyncPlan(x, u)>> PROVE FALSE
    <3>1. PICK v : SyncPlan(x, u) = Set(x, v)
      BY SyncIsSet
    <3>2. Set(n, set) = Set(x, v)
      BY <2>1, <3>1, ShortLists
    <3> QED
      BY <1>8, <3>2, SetsDiffer
  <2>2. Agreed(row, x)
    BY <2>1 DEF Syncs
  <2> QED
    BY <1>5, <1>8, <2>2, OneStaysAgreed
<1> QED
  BY <1>6, <1>7, <1>8, NothingIsSafe DEF UpdateMoves, SubscriptionScript

LEMMA RenewMoves ==
    ASSUME NeatPlans(row), NEW e, Renewing(row, e), NEW n \in Ids, NEW set, e = Set(n, set),
           OneUpdated(n, set), \A o \in Ids : Agreed(row, o) \/ Syncs(<<e>>, o)
    PROVE  UpdateMoves(<<>>)
<1>1. PICK s \in Ids : /\ row[s].kind = "subscription" /\ row[s].status # "EXPIRED"
                       /\ e = Set(s, [status |-> "ACTIVE", ended |-> FALSE])
  BY DEF Renewing
<1>2. n = s /\ set = [status |-> "ACTIVE", ended |-> FALSE]
  <2>1. PICK u : u = [status |-> "ACTIVE", ended |-> FALSE]
    OBVIOUS
  <2>2. Set(n, set) = Set(s, u)
    BY <1>1, <2>1
  <2> QED
    BY <2>1, <2>2, SetsDiffer
<1>3. DOMAIN set = {"status", "ended"} /\ set.status = "ACTIVE"
  BY <1>2
<1>4. Loose(set) /\ Lawful(row, n, set) /\ "plan" \notin DOMAIN set /\ DOMAIN set \cap {"plan", "manual"} = {}
  BY <1>1, <1>2, <1>3 DEF Loose, Lawful
<1>5. NeatPlans(row') /\ Watched(row, row')
  BY <1>4, PlainUpdate
<1>6. ASSUME NEW x \in Ids PROVE Agreed(row', x)
  <2>1. ASSUME NEW u, <<e>> = <<SyncPlan(x, u)>> PROVE FALSE
    <3>1. PICK v : SyncPlan(x, u) = Set(x, v) /\ DOMAIN v = {"plan", "manual"}
      BY SyncIsSet
    <3>2. Set(n, set) = Set(x, v)
      BY <2>1, <3>1, ShortLists
    <3>3. set = v
      BY <3>2, SetsDiffer
    <3> QED
      BY <1>3, <3>1, <3>3
  <2>2. Agreed(row, x)
    BY <2>1 DEF Syncs
  <2> QED
    BY <1>4, <2>2, OneStaysAgreed
<1> QED
  BY <1>5, <1>6, NothingIsSafe DEF UpdateMoves, SubscriptionScript

LEMMA ExpiryMoves ==
    ASSUME NeatPlans(row), NEW e, NEW f, Expiring(row, e, f), NEW n \in Ids, NEW set, e = Set(n, set),
           OneUpdated(n, set), \A o \in Ids : Agreed(row, o) \/ Syncs(<<e, f>>, o)
    PROVE  UpdateMoves(<<f>>)
<1>1. PICK s \in Ids : row[s].kind = "subscription" /\ e = Set(s, [status |-> "EXPIRED"])
  BY DEF Expiring
<1>2. n = s /\ set = [status |-> "EXPIRED"]
  <2>1. PICK u : u = [status |-> "EXPIRED"]
    OBVIOUS
  <2>2. Set(n, set) = Set(s, u)
    BY <1>1, <2>1
  <2> QED
    BY <2>1, <2>2, SetsDiffer
<1>3. DOMAIN set = {"status"} /\ set.status = "EXPIRED"
  BY <1>2
<1>4. Loose(set) /\ Lawful(row, n, set) /\ "plan" \notin DOMAIN set /\ DOMAIN set \cap {"plan", "manual"} = {}
  BY <1>1, <1>2, <1>3 DEF Loose, Lawful
<1>5. /\ NeatPlans(row') /\ Watched(row, row')
      /\ \A o \in Ids : TiersOf(row', o) = TiersOf(row, o) /\ row'[o].kind = row[o].kind
  BY <1>4, PlainUpdate
<1>6. ASSUME NEW x \in Ids PROVE Agreed(row', x)
  <2>1. ~Syncs(<<e, f>>, x)
    BY TwoAreNotOne DEF Syncs
  <2> QED
    BY <1>4, <2>1, OneStaysAgreed
<1>7. Syncing(row', f)
  <2>1. PICK o \in Ids : \E t : f = SyncPlan(o, t) /\ row[o].kind = "tenant" /\ t \in TiersOf(row, o)
    BY DEF Expiring, Syncing
  <2> QED
    BY <1>5, <2>1 DEF Syncing
<1>8. SubscriptionScript(row', <<f>>)
  BY <1>7 DEF SubscriptionScript, OneStep
<1> QED
  BY <1>5, <1>6, <1>8 DEF UpdateMoves

\* A subscription gets another plan: its organisation is yet to be told.
LEMMA ChangeMoves ==
    ASSUME NeatPlans(row), NEW e, NEW f, ChangingPlan(row, e, f), NEW n \in Ids, NEW set, e = Set(n, set),
           OneUpdated(n, set), Exists(n), \A o \in Ids : Agreed(row, o) \/ Syncs(<<e, f>>, o)
    PROVE  UpdateMoves(<<f>>)
<1>1. PICK s \in Ids, p \in Ids :
          \E u : /\ row[s].kind = "subscription" /\ row[p].kind = "plan"
                 /\ e = Set(s, u) /\ "plan" \in DOMAIN u /\ DOMAIN u \subseteq {"plan", "ended"} /\ u.plan = p
                 /\ f = SyncPlan(row[s].code, mapPlanSlugToEnum(row[p].code))
  BY DEF ChangingPlan
<1>2. /\ row[n].kind = "subscription" /\ row[p].kind = "plan"
      /\ "plan" \in DOMAIN set /\ DOMAIN set \subseteq {"plan", "ended"} /\ set.plan = p
      /\ f = SyncPlan(row[n].code, mapPlanSlugToEnum(row[p].code))
  <2>1. PICK u : /\ row[s].kind = "subscription" /\ row[p].kind = "plan"
                 /\ e = Set(s, u) /\ "plan" \in DOMAIN u /\ DOMAIN u \subseteq {"plan", "ended"} /\ u.plan = p
                 /\ f = SyncPlan(row[s].code, mapPlanSlugToEnum(row[p].code))
    BY <1>1
  <2>2. Set(n, set) = Set(s, u)
    BY <2>1
  <2>3. n = s /\ set = u
    BY <2>2, SetsDiffer
  <2> QED
    BY <2>1, <2>3
<1>3. PICK t : t = row'[n]
  OBVIOUS
<1>4. /\ OfSubscriptions(t) /\ t.kind = "subscription" /\ t.plan = p
      /\ t.code = row[n].code /\ t.status = row[n].status
  <2>1. PICK r : r = row[n]
    OBVIOUS
  <2>2. OfSubscriptions(r) /\ r.kind = "subscription" /\ t = Merge(r, set)
    BY <1>2, <1>3, <2>1 DEF NeatPlans, OneUpdated
  <2>3. Loose(set) /\ "status" \notin DOMAIN set
    BY <1>2 DEF Loose
  <2>4. {"plan", "status"} \subseteq DOMAIN r
    BY <2>2 DEF OfSubscriptions
  <2>5. OfSubscriptions(t) /\ t.kind = r.kind /\ t.code = r.code
    BY <2>2, <2>3, SubscriptionMerged
  <2>6. t.plan = set.plan /\ t.status = r.status
    BY <1>2, <2>2, <2>3, <2>4, MergeTells
  <2> QED
    BY <1>2, <2>1, <2>2, <2>5, <2>6
<1>5. \A i \in Ids \ {n} : row'[i] = row[i]
  BY DEF OneUpdated
<1>6. PICK o \in Ids : o = row[n].code /\ row[o].kind = "tenant"
  BY <1>2 DEF NeatPlans
<1>7. n # p /\ n # o
  BY <1>2, <1>6
<1>8. NeatPlans(row')
  <2>1. \A i \in Ids : OfSubscriptions(row'[i]) /\ row'[i].kind = row[i].kind
    BY <1>2, <1>3, <1>4, <1>5 DEF NeatPlans
  <2>2. ASSUME NEW x \in Ids, row'[x].kind = "subscription"
        PROVE  /\ row'[x].plan \in Ids /\ row'[row'[x].plan].kind = "plan"
               /\ row'[x].code \in Ids /\ row'[row'[x].code].kind = "tenant"
    <3>1. CASE x = n
      BY <1>2, <1>3, <1>4, <1>5, <1>6, <1>7, <3>1
    <3>2. CASE x # n
      <4>1. /\ row[x].plan \in Ids /\ row[row[x].plan].kind = "plan"
            /\ row[x].code \in Ids /\ row[row[x].code].kind = "tenant"
        BY <1>5, <2>2, <3>2 DEF NeatPlans
      <4> QED
        BY <1>5, <2>1, <3>2, <4>1
    <3> QED
      BY <3>1, <3>2
  <2>3. ASSUME NEW k \in Ids, row'[k].kind = "counter" PROVE row'[k] = row[k]
    BY <1>2, <1>5, <2>1, <2>3
  <2>4. ASSUME NEW k \in Ids, NEW l \in Ids, row'[k].kind = "counter", row'[l].kind = "counter",
               row'[k].org = row'[l].org, row'[k].feature = row'[l].feature
        PROVE  k = l
    <3>1. row'[k] = row[k] /\ row'[l] = row[l]
      BY <2>3, <2>4
    <3> QED
      BY <2>4, <3>1 DEF NeatPlans
  <2> QED
    BY <2>1, <2>2, <2>4 DEF NeatPlans, OneUpdated
<1>9. Watched(row, row')
  <2>1. \A i \in Ids : row[i].kind = "subscription" => row'[i].status = row[i].status
    BY <1>3, <1>4, <1>5
  <2>2. ASSUME NEW k \in Ids, row[k].kind = "counter" PROVE ~(row'[k].usage > row[k].usage)
    <3>1. row'[k] = row[k] /\ row[k].usage \in Int
      BY <1>2, <1>5, <2>2 DEF NeatPlans, OfSubscriptions
    <3> QED
      BY <3>1
  <2> QED
    BY <2>1, <2>2 DEF Watched, StatusWatched, UseWatched
<1>10. Syncing(row', f)
  <2> DEFINE Own(tab) == {x \in Ids : tab[x].kind = "subscription" /\ tab[x].code = o}
  <2>1. n \in Own(row') /\ row'[row'[n].plan].code = row[p].code
    BY <1>2, <1>3, <1>4, <1>5, <1>6, <1>7
  <2>2. mapPlanSlugToEnum(row[p].code) \in {mapPlanSlugToEnum(row'[row'[x].plan].code) : x \in Own(row')}
    BY <2>1
  <2>3. mapPlanSlugToEnum(row[p].code) \in TiersOf(row', o)
    BY <2>2 DEF TiersOf
  <2>4. row'[o].kind = "tenant"
    BY <1>5, <1>6, <1>7
  <2> QED
    BY <1>2, <1>6, <2>3, <2>4 DEF Syncing
<1>11. ASSUME NEW x \in Ids PROVE Agreed(row', x) \/ Syncs(<<f>>, x)
  <2>1. CASE x = o
    BY <1>2, <1>6, <2>1 DEF Syncs
  <2>2. CASE x = n
    BY <1>3, <1>4, <2>2 DEF Agreed
  <2>3. CASE x # o /\ x # n
    <3> DEFINE Own(tab) == {y \in Ids : tab[y].kind = "subscription" /\ tab[y].code = x}
    <3>1. Own(row') = Own(row) /\ n \notin Own(row)
      <4>1. n \notin Own(row) /\ n \notin Own(row')
        BY <1>3, <1>4, <1>6, <2>3
      <4> QED
        BY <1>5, <4>1
    <3>2. ASSUME NEW y \in Own(row) PROVE row'[row'[y].plan].code = row[row[y].plan].code
      <4>1. y # n /\ row'[y].plan = row[y].plan
        BY <1>5, <3>1, <3>2
      <4>2. row[y].plan \in Ids /\ row[row[y].plan].kind = "plan"
        BY <3>2 DEF NeatPlans
      <4> QED
        BY <1>2, <1>5, <4>1, <4>2
    <3>3. {mapPlanSlugToEnum(row'[row'[y].plan].code) : y \in Own(row')}
              = {mapPlanSlugToEnum(row[row[y].plan].code) : y \in Own(row)}
      BY <3>1, <3>2
    <3>4. TiersOf(row', x) = TiersOf(row, x)
      BY SMTT(60), <3>3 DEF TiersOf
    <3>5. Agreed(row, x)
      BY TwoAreNotOne DEF Syncs
    <3>6. row'[x] = row[x]
      BY <1>5, <2>3
    <3> QED
      BY <3>4, <3>5, <3>6 DEF Agreed
  <2> QED
    BY <2>1, <2>2, <2>3
<1>12. SubscriptionScript(row', <<f>>)
  BY <1>10 DEF SubscriptionScript, OneStep
<1> QED
  BY <1>8, <1>9, <1>11, <1>12 DEF UpdateMoves
LEMMA SubscriptionUpdates ==
    ASSUME SubscriptionInv, NEW c \in Callers, Update(c)
    PROVE  SubscriptionMoves
<1> SUFFICES ASSUME ~Throw(c) PROVE SubscriptionMoves
  BY SubscriptionThrows
<1>1. ~Idle(c) /\ todo' = [todo EXCEPT ![c] = Tail(todo[c])] /\ UNCHANGED overlapped /\ UNCHANGED died
  BY DEF Update
<1>2. ASSUME Orderly PROVE UpdateMoves(Tail(todo[c]))
  <2>1. PICK q : q = todo[c]
    OBVIOUS
  <2>2. /\ q # <<>> /\ Head(q).do = "update" /\ SubscriptionScript(row, q) /\ NeatPlans(row)
        /\ \A o \in Ids : Agreed(row, o) \/ Syncs(q, o)
    <3>1. \A o \in Ids : Agreed(row, o) \/ Syncs(todo[c], o)
      BY <1>1, <1>2, AboutToSync
    <3> QED
      BY <1>1, <1>2, <2>1, <3>1 DEF SubscriptionInv, Update, Idle
  <2>3. ASSUME NEW n \in Ids, NEW set, Head(q) = Set(n, set) PROVE OneUpdated(n, set) /\ Exists(n)
    BY <2>1, <2>3, UpdateOfOne
  <2>4. CASE AllSafe(row, q)
    <3>1. Safe(row, Head(q))
      BY <2>2, <2>4, RestIsSafe
    <3>2. PICK n \in Ids : \E set : Head(q) = Set(n, set) /\ SafeSet(row, n, set)
      BY <2>2, <3>1 DEF Safe, SafeList, SafeTake, SafeErase
    <3>3. PICK set : Head(q) = Set(n, set)
      BY <3>2
    <3>4. OneUpdated(n, set) /\ Exists(n)
      BY <2>3, <3>3
    <3>5. /\ NeatPlans(row') /\ AllSafe(row', Tail(q)) /\ Watched(row, row')
          /\ \A o \in Ids : Agreed(row', o)
      BY <2>2, <2>4, <3>3, <3>4, SafeUpdates
    <3> QED
      BY <2>1, <3>5 DEF UpdateMoves, SubscriptionScript
  <2>5. CASE \E e : q = <<e>> /\ (Syncing(row, e) \/ Renewing(row, e))
    <3>1. PICK e : q = <<e>> /\ (Syncing(row, e) \/ Renewing(row, e))
      BY <2>5
    <3>2. Head(q) = e /\ Tail(q) = <<>>
      BY <3>1, ShortLists
    <3>3. PICK n \in Ids : \E set : e = Set(n, set)
      BY <3>1, SyncIsSet DEF Syncing, Renewing
    <3>4. PICK set : e = Set(n, set)
      BY <3>3
    <3>5. OneUpdated(n, set) /\ Exists(n)
      BY <2>3, <3>2, <3>4
    <3>6. \A o \in Ids : Agreed(row, o) \/ Syncs(<<e>>, o)
      BY <2>2, <3>1
    <3>7. UpdateMoves(<<>>)
      BY <2>2, <3>1, <3>4, <3>5, <3>6, SyncMoves, RenewMoves
    <3> QED
      BY <2>1, <3>2, <3>7
  <2>6. CASE \E e, f : q = <<e, f>> /\ (ChangingPlan(row, e, f) \/ Expiring(row, e, f))
    <3>1. PICK e, f : q = <<e, f>> /\ (ChangingPlan(row, e, f) \/ Expiring(row, e, f))
      BY <2>6
    <3>2. Head(q) = e /\ Tail(q) = <<f>>
      BY <3>1, OfTwo
    <3>3. PICK n \in Ids : \E set : e = Set(n, set)
      BY <3>1 DEF ChangingPlan, Expiring
    <3>4. PICK set : e = Set(n, set)
      BY <3>3
    <3>5. OneUpdated(n, set) /\ Exists(n)
      BY <2>3, <3>2, <3>4
    <3>6. \A o \in Ids : Agreed(row, o) \/ Syncs(<<e, f>>, o)
      BY <2>2, <3>1
    <3>7. UpdateMoves(<<f>>)
      BY <2>2, <3>1, <3>4, <3>5, <3>6, ChangeMoves, ExpiryMoves
    <3> QED
      BY <2>1, <3>2, <3>7
  <2> QED
    BY <2>2, <2>4, <2>5, <2>6, SubscriptionHeads
<1> QED
  BY <1>1, <1>2, SubscriptionExecutes DEF UpdateMoves
-----------------------------------------------------------------------------
\* A new row leaves what is there as it is.
LEMMA PlansAdded ==
    ASSUME NeatPlans(row), NEW m \in Ids, row[m] = NoRow, NEW t, row' = [row EXCEPT ![m] = t],
           OfSubscriptions(t), t.kind # "counter",
           t.kind = "subscription" => /\ t.plan \in Ids /\ row[t.plan].kind = "plan"
                                      /\ t.code \in Ids /\ row[t.code].kind = "tenant",
           t.kind = "tenant" => t.plan = "FREE"
    PROVE  /\ NeatPlans(row') /\ Watched(row, row')
           /\ row'[m] = t /\ row[m].kind = "none" /\ \A i \in Ids \ {m} : row'[i] = row[i]
           /\ \A o \in Ids : Agreed(row, o) => Agreed(row', o)
<1>1. /\ DOMAIN row' = Ids /\ row'[m] = t /\ row[m].kind = "none"
      /\ \A i \in Ids \ {m} : row'[i] = row[i]
  BY DEF NeatPlans, NoRow
<1>2. ASSUME NEW x \in Ids, row'[x].kind = "subscription"
      PROVE  /\ row'[x].plan \in Ids /\ row'[row'[x].plan].kind = "plan"
             /\ row'[x].code \in Ids /\ row'[row'[x].code].kind = "tenant"
  <2>1. /\ row'[x].plan \in Ids /\ row[row'[x].plan].kind = "plan"
        /\ row'[x].code \in Ids /\ row[row'[x].code].kind = "tenant"
    <3>1. CASE x = m
      BY <1>1, <1>2, <3>1
    <3>2. CASE x # m
      BY <1>1, <1>2, <3>2 DEF NeatPlans
    <3> QED
      BY <3>1, <3>2
  <2>2. row'[x].plan # m /\ row'[x].code # m
    BY <1>1, <2>1
  <2> QED
    BY <1>1, <2>1, <2>2
<1>3. ASSUME NEW k \in Ids, NEW l \in Ids, row'[k].kind = "counter", row'[l].kind = "counter",
             row'[k].org = row'[l].org, row'[k].feature = row'[l].feature
      PROVE  k = l
  <2>1. row'[k] = row[k] /\ row'[l] = row[l]
    BY <1>1, <1>3
  <2> QED
    BY <1>3, <2>1 DEF NeatPlans
<1>4. \A i \in Ids : OfSubscriptions(row'[i])
  BY <1>1 DEF NeatPlans
<1>5. NeatPlans(row')
  BY <1>1, <1>2, <1>3, <1>4 DEF NeatPlans
<1>6. Watched(row, row')
  <2>1. \A i \in Ids : row[i].kind = "subscription" => row'[i].status = row[i].status
    BY <1>1
  <2>2. ASSUME NEW k \in Ids, row[k].kind = "counter" PROVE ~(row'[k].usage > row[k].usage)
    <3>1. row'[k] = row[k] /\ row[k].usage \in Int
      BY <1>1, <2>2 DEF NeatPlans, OfSubscriptions
    <3> QED
      BY <3>1
  <2> QED
    BY <2>1, <2>2 DEF Watched, StatusWatched, UseWatched
<1>7. ASSUME NEW o \in Ids, Agreed(row, o) PROVE Agreed(row', o)
  <2>1. CASE o = m
    BY <1>1, <2>1 DEF Agreed, TiersOf
  <2>2. CASE o # m
    <3> DEFINE Own(tab) == {y \in Ids : tab[y].kind = "subscription" /\ tab[y].code = o}
    <3>1. ASSUME NEW y \in Own(row)
          PROVE  y \in Own(row') /\ row'[row'[y].plan].code = row[row[y].plan].code
      <4>1. y # m /\ row'[y] = row[y] /\ row[y].plan \in Ids /\ row[row[y].plan].kind = "plan"
        BY <1>1, <3>1 DEF NeatPlans
      <4>2. row'[row[y].plan] = row[row[y].plan]
        BY <1>1, <4>1
      <4> QED
        BY <3>1, <4>1, <4>2
    <3>2. {mapPlanSlugToEnum(row[row[y].plan].code) : y \in Own(row)}
              \subseteq {mapPlanSlugToEnum(row'[row'[y].plan].code) : y \in Own(row')}
      BY <3>1
    <3>3. TiersOf(row, o) \subseteq TiersOf(row', o)
      BY <3>2 DEF TiersOf
    <3> QED
      BY <1>1, <1>7, <2>2, <3>3 DEF Agreed
  <2> QED
    BY <2>1, <2>2
<1> QED
  BY <1>1, <1>5, <1>6, <1>7

LEMMA AddMoves ==
    ASSUME NeatPlans(row), NEW e, Adding(e), NEW m \in Ids, row[m] = NoRow, row' = [row EXCEPT ![m] = e.set],
           \A o \in Ids : Agreed(row, o)
    PROVE  UpdateMoves(<<>>)
<1>1. PICK d : /\ e = Insert(d) /\ OfSubscriptions(d)
               /\ d.kind \in {"tenant", "plan", "feature", "planFeature"} /\ (d.kind = "tenant" => d.plan = "FREE")
  BY DEF Adding
<1>2. e.set = d
  BY <1>1, Statements
<1>3. row' = [row EXCEPT ![m] = d] /\ d.kind # "counter" /\ d.kind # "subscription"
  BY <1>1, <1>2
<1>4. /\ NeatPlans(row') /\ Watched(row, row')
      /\ \A o \in Ids : Agreed(row, o) => Agreed(row', o)
  BY <1>1, <1>3, PlansAdded
<1> QED
  BY <1>4, NothingIsSafe DEF UpdateMoves, SubscriptionScript

LEMMA TrialMoves ==
    ASSUME NeatPlans(row), NEW e, NEW f, StartingTrial(row, e, f),
           NEW m \in Ids, row[m] = NoRow, row' = [row EXCEPT ![m] = e.set],
           \A o \in Ids : Agreed(row, o)
    PROVE  UpdateMoves(<<f>>)
<1>1. PICK o \in Ids, p \in Ids :
          /\ row[o].kind = "tenant" /\ row[p].kind = "plan"
          /\ e = Insert(Subscription(o, p)) /\ f = SyncPlan(o, mapPlanSlugToEnum(row[p].code))
  BY DEF StartingTrial
<1>2. PICK d : d = Subscription(o, p)
  OBVIOUS
<1>3. OfSubscriptions(d) /\ d.kind = "subscription" /\ d.code = o /\ d.plan = p
  BY <1>2 DEF Subscription, OfSubscriptions
<1>4. e.set = d
  BY <1>1, <1>2, Statements
<1>5. row' = [row EXCEPT ![m] = d]
  BY <1>4
<1>6. /\ NeatPlans(row') /\ Watched(row, row')
      /\ row'[m] = d /\ row[m].kind = "none" /\ \A i \in Ids \ {m} : row'[i] = row[i]
      /\ \A x \in Ids : Agreed(row, x) => Agreed(row', x)
  BY <1>1, <1>3, <1>5, PlansAdded
<1>7. p # m /\ o # m
  BY <1>1, <1>6
<1>8. Syncing(row', f)
  <2> DEFINE Own(tab) == {x \in Ids : tab[x].kind = "subscription" /\ tab[x].code = o}
  <2>1. m \in Own(row') /\ row'[row'[m].plan].code = row[p].code
    BY <1>1, <1>3, <1>6, <1>7
  <2>2. mapPlanSlugToEnum(row[p].code) \in {mapPlanSlugToEnum(row'[row'[x].plan].code) : x \in Own(row')}
    BY <2>1
  <2>3. mapPlanSlugToEnum(row[p].code) \in TiersOf(row', o)
    BY <2>2 DEF TiersOf
  <2>4. row'[o].kind = "tenant"
    BY <1>1, <1>6, <1>7
  <2> QED
    BY <1>1, <2>3, <2>4 DEF Syncing
<1>9. SubscriptionScript(row', <<f>>)
  BY <1>8 DEF SubscriptionScript, OneStep
<1> QED
  BY <1>6, <1>9 DEF UpdateMoves

LEMMA SubscriptionCreates ==
    ASSUME SubscriptionInv, NEW c \in Callers, Create(c)
    PROVE  SubscriptionMoves
<1> SUFFICES ASSUME ~Throw(c) PROVE SubscriptionMoves
  BY SubscriptionThrows
<1>1. ~Idle(c) /\ todo' = [todo EXCEPT ![c] = Tail(todo[c])] /\ UNCHANGED overlapped /\ UNCHANGED died
  BY DEF Create
<1>2. ASSUME Orderly PROVE UpdateMoves(Tail(todo[c]))
  <2>1. PICK q : q = todo[c]
    OBVIOUS
  <2>2. /\ q # <<>> /\ Head(q).do = "create" /\ SubscriptionScript(row, q) /\ NeatPlans(row)
        /\ \A o \in Ids : Agreed(row, o) \/ Syncs(q, o)
    <3>1. \A o \in Ids : Agreed(row, o) \/ Syncs(todo[c], o)
      BY <1>1, <1>2, AboutToSync
    <3> QED
      BY <1>1, <1>2, <2>1, <3>1 DEF SubscriptionInv, Create, Idle
  <2>3. PICK m \in Ids : row[m] = NoRow /\ row' = [row EXCEPT ![m] = Head(q).set]
    <3>1. NextId \in Ids /\ row[NextId] = NoRow
      BY NextIsFree DEF Create
    <3> QED
      BY <2>1, <3>1 DEF Create
  <2>4. ASSUME NEW o \in Ids PROVE Agreed(row, o)
    <3>1. ASSUME NEW t, q = <<SyncPlan(o, t)>> PROVE FALSE
      <4>1. Head(q) = SyncPlan(o, t)
        BY <3>1, ShortLists
      <4>2. SyncPlan(o, t).do = "update"
        BY SyncIsSet, Statements
      <4> QED
        BY <2>2, <4>1, <4>2
    <3> QED
      BY <2>2, <3>1 DEF Syncs
  <2>5. CASE \E e : q = <<e>> /\ Adding(e)
    <3>1. PICK e : q = <<e>> /\ Adding(e)
      BY <2>5
    <3>2. Head(q) = e /\ Tail(q) = <<>>
      BY <3>1, ShortLists
    <3>3. row' = [row EXCEPT ![m] = e.set]
      BY <2>3, <3>2
    <3>4. UpdateMoves(<<>>)
      BY <2>2, <2>3, <2>4, <3>1, <3>3, AddMoves
    <3> QED
      BY <2>1, <3>2, <3>4
  <2>6. CASE \E e, f : q = <<e, f>> /\ StartingTrial(row, e, f)
    <3>1. PICK e, f : q = <<e, f>> /\ StartingTrial(row, e, f)
      BY <2>6
    <3>2. Head(q) = e /\ Tail(q) = <<f>>
      BY <3>1, OfTwo
    <3>3. row' = [row EXCEPT ![m] = e.set]
      BY <2>3, <3>2
    <3>4. UpdateMoves(<<f>>)
      BY <2>2, <2>3, <2>4, <3>1, <3>3, TrialMoves
    <3> QED
      BY <2>1, <3>2, <3>4
  <2> QED
    BY <2>2, <2>5, <2>6, SubscriptionHeads
<1> QED
  BY <1>1, <1>2, SubscriptionExecutes DEF UpdateMoves
-----------------------------------------------------------------------------
\* A call that is safe runs a statement other than an update.
Calmly ==
    /\ KeepsPlans(row, row') /\ KeepsSafe(row, row') /\ DOMAIN row' = Ids
    /\ \A s \in Ids : row[s].kind = "subscription" => row'[s].status = row[s].status
    /\ \A k \in Ids : row[k].kind = "counter" /\ row'[k].kind = "counter" => row'[k].usage = row[k].usage
    /\ \A o \in Ids : row'[o].kind = "tenant" =>
          row[o].kind = "tenant" /\ row'[o].plan = row[o].plan /\ row'[o].manual = row[o].manual
LEMMA CalmMoves ==
    ASSUME SubscriptionInv, NEW c \in Callers, ~Idle(c), NEW rest,
           todo' = [todo EXCEPT ![c] = rest], UNCHANGED overlapped, UNCHANGED died,
           Orderly => Head(todo[c]).do # "update" /\ Calmly /\ AllSafe(row, rest)
    PROVE  SubscriptionMoves
<1>1. ASSUME Orderly
      PROVE  /\ NeatPlans(row') /\ SubscriptionScript(row', rest) /\ Watched(row, row')
             /\ \A o \in Ids : Agreed(row', o) \/ Syncs(rest, o)
  <2>1. NeatPlans(row) /\ Calmly /\ AllSafe(row, rest)
    BY <1>1 DEF SubscriptionInv
  <2>2. NeatPlans(row') /\ \A o \in Ids : TiersOf(row', o) = TiersOf(row, o)
    BY <2>1, PlansKept DEF Calmly
  <2>3. SubscriptionScript(row', rest)
    BY <2>1, SafeKept DEF Calmly, SubscriptionScript
  <2>4. Watched(row, row')
    <3>1. ASSUME NEW k \in Ids, row[k].kind = "counter", row'[k].kind = "counter"
          PROVE  ~(row'[k].usage > row[k].usage)
      BY <2>1, <3>1 DEF Calmly, NeatPlans, OfSubscriptions
    <3> QED
      BY <2>1, <3>1 DEF Calmly, Watched, StatusWatched, UseWatched
  <2>5. ASSUME NEW o \in Ids PROVE Agreed(row', o)
    <3>1. ~Syncs(todo[c], o)
      <4>1. ASSUME NEW t, todo[c] = <<SyncPlan(o, t)>> PROVE FALSE
        <5>1. Head(todo[c]) = SyncPlan(o, t)
          BY <4>1, ShortLists
        <5>2. SyncPlan(o, t).do = "update"
          BY SyncIsSet, Statements
        <5> QED
          BY <1>1, <5>1, <5>2
      <4> QED
        BY <4>1 DEF Syncs
    <3>2. Agreed(row, o)
      BY <1>1, <3>1, AboutToSync
    <3> QED
      BY <2>1, <2>2, <3>2 DEF Agreed, Calmly
  <2> QED
    BY <2>2, <2>3, <2>4, <2>5
<1> QED
  BY <1>1, SubscriptionExecutes
LEMMA CalmRead ==
    ASSUME SubscriptionInv, NEW c \in Callers, NEW what, NEW rest, Read(c, what, rest), what # "update",
           Orderly => AllSafe(row, rest)
    PROVE  SubscriptionMoves
<1>1. ASSUME Orderly PROVE Calmly
  <2>1. NeatPlans(row) /\ row' = row
    BY <1>1 DEF SubscriptionInv, Read
  <2> QED
    BY <2>1 DEF NeatPlans, Calmly, KeepsPlans, KeepsSafe
<1>2. Head(todo[c]).do # "update"
  BY DEF Read
<1> QED
  BY <1>1, <1>2, CalmMoves DEF Read

\* The script of a call whose next statement is of these kinds is safe.
LEMMA SafeRun ==
    ASSUME SubscriptionInv, Orderly, NEW c \in Callers, ~Idle(c),
           Head(todo[c]).do \in {"list", "take", "clear", "erase"}
    PROVE  Safe(row, Head(todo[c])) /\ AllSafe(row, Tail(todo[c])) /\ NeatPlans(row)
<1>1. PICK q : q = todo[c]
  OBVIOUS
<1>2. q # <<>> /\ SubscriptionScript(row, q) /\ NeatPlans(row) /\ Head(q).do \in {"list", "take", "clear", "erase"}
  BY <1>1 DEF SubscriptionInv, Idle
<1>3. AllSafe(row, q)
  BY <1>2, SubscriptionHeads
<1> QED
  BY <1>1, <1>2, <1>3, RestIsSafe
LEMMA NoUpdate == \A i, set, e : e.do # "update" => e # Set(i, set)
BY Statements

LEMMA SubscriptionLists ==
    ASSUME SubscriptionInv, NEW c \in Callers, ListEnded(c)
    PROVE  SubscriptionMoves
<1> DEFINE l == Head(todo[c])
           due == {s \in Ids : IsKind(s, "subscription") /\ row[s].status = l.status /\ row[s].ended}
           S == {[do |-> "take", id |-> s, to |-> l.to] : s \in due}
<1>1. Read(c, "list", SetToSeq(S) \o Tail(todo[c]))
  BY DEF ListEnded
<1>2. ASSUME Orderly PROVE AllSafe(row, SetToSeq(S) \o Tail(todo[c]))
  <2>1. Safe(row, l) /\ AllSafe(row, Tail(todo[c])) /\ l.do = "list"
    BY <1>1, <1>2, SafeRun DEF Read
  <2>2. l.to \in {"SUSPENDED", "GRACE_PERIOD"}
    BY <2>1, NoUpdate DEF Safe, SafeList, SafeTake, SafeErase
  <2>3. ASSUME NEW e \in S PROVE Safe(row, e)
    <3>1. PICK s \in due : e = [do |-> "take", id |-> s, to |-> l.to]
      BY <2>3
    <3>2. e.do = "take" /\ e.id = s /\ e.to = l.to
      BY <3>1
    <3> QED
      BY <2>2, <3>1, <3>2 DEF Safe, SafeTake, IsKind
  <2>4. IsFiniteSet(S)
    <3>1. IsFiniteSet(due)
      BY RowsAssumption, FS_Subset
    <3> DEFINE g == [s \in due |-> [do |-> "take", id |-> s, to |-> l.to]]
    <3>2. g \in Surjection(due, S)
      BY DEF Surjection
    <3> HIDE DEF g, S, due
    <3> QED
      BY <3>1, <3>2, FS_Surjection
  <2> HIDE DEF S
  <2>5. SetToSeq(S) \in Seq(S)
    BY <2>4, ListOfSet
  <2>6. AllSafe(row, SetToSeq(S))
    BY <2>3, <2>5 DEF AllSafe
  <2> QED
    BY <2>1, <2>6, JoinedAreSafe
<1> HIDE DEF S
<1> QED
  BY <1>1, <1>2, CalmRead

\* What a status is set to, or a plan to FREE.
LEMMA StatusIsSafe ==
    ASSUME NEW tab, NEW s \in Ids, tab[s].kind = "subscription", tab[s].status # "EXPIRED",
           NEW status, status # "EXPIRED", status = "GRACE_PERIOD" => tab[s].ended
    PROVE  Safe(tab, Set(s, [status |-> status]))
<1>1. PICK set : set = [status |-> status]
  OBVIOUS
<1>2. DOMAIN set = {"status"} /\ set.status = status
  BY <1>1
<1>3. SafeSet(tab, s, set)
  BY <1>2 DEF SafeSet
<1> QED
  BY <1>1, <1>3 DEF Safe
LEMMA FreeIsSafe ==
    ASSUME NEW tab, NEW o \in Ids, tab[o].kind = "tenant"
    PROVE  Safe(tab, SyncPlan(o, "FREE"))
<1>1. PICK set : /\ SyncPlan(o, "FREE") = Set(o, set) /\ DOMAIN set = {"plan", "manual"}
                 /\ set.plan = "FREE" /\ ~set.manual
  BY SyncIsSet
<1>2. SafeSet(tab, o, set)
  BY <1>1 DEF SafeSet
<1> QED
  BY <1>1, <1>2 DEF Safe
LEMMA TwoAreSafe ==
    ASSUME NEW tab, NEW e, NEW f, Safe(tab, e), Safe(tab, f)
    PROVE  AllSafe(tab, <<e, f>>)
<1>1. PICK S : S = {e, f}
  OBVIOUS
<1>2. <<e, f>> \in Seq(S) /\ \A x \in S : Safe(tab, x)
  BY <1>1
<1> QED
  BY <1>2 DEF AllSafe
LEMMA SuspensionIsSafe ==
    ASSUME NeatPlans(row), NEW s \in Ids, row[s].kind = "subscription", row[s].status # "EXPIRED"
    PROVE  AllSafe(row, Suspension(s))
<1>1. row[s].code \in Ids /\ row[row[s].code].kind = "tenant"
  BY DEF NeatPlans
<1> QED
  BY <1>1, StatusIsSafe, FreeIsSafe, TwoAreSafe DEF Suspension

LEMMA SubscriptionTakes ==
    ASSUME SubscriptionInv, NEW c \in Callers, TakeEnded(c)
    PROVE  SubscriptionMoves
<1> DEFINE t == Head(todo[c])
           first == IF ~assertValidTransition(t.id, t.to) THEN <<>>
                    ELSE IF t.to = "SUSPENDED" THEN Suspension(t.id)
                    ELSE <<Set(t.id, [status |-> t.to])>>
<1>1. Read(c, "take", first \o Tail(todo[c]))
  BY SMTT(60) DEF TakeEnded
<1>2. ASSUME Orderly PROVE AllSafe(row, first \o Tail(todo[c]))
  <2>1. Safe(row, t) /\ AllSafe(row, Tail(todo[c])) /\ t.do = "take" /\ NeatPlans(row)
    BY <1>1, <1>2, SafeRun DEF Read
  <2>2. SafeTake(row, t)
    BY <2>1, NoUpdate DEF Safe, SafeList, SafeErase
  <2>3. AllSafe(row, first)
    <3>1. CASE ~assertValidTransition(t.id, t.to)
      BY <3>1, NothingIsSafe
    <3>2. CASE assertValidTransition(t.id, t.to)
      <4>1. row[t.id].status # "EXPIRED"
        BY <2>2, <3>2 DEF assertValidTransition, ValidSources, SafeTake
      <4>2. CASE t.to = "SUSPENDED"
        <5>1. AllSafe(row, Suspension(t.id))
          BY <2>1, <2>2, <4>1, SuspensionIsSafe DEF SafeTake
        <5> QED
          BY <3>2, <4>2, <5>1
      <4>3. CASE t.to = "GRACE_PERIOD"
        <5>1. Safe(row, Set(t.id, [status |-> t.to]))
          BY <2>2, <4>1, <4>3, StatusIsSafe DEF SafeTake
        <5>2. first = <<Set(t.id, [status |-> t.to])>>
          BY <3>2, <4>3
        <5> QED
          BY <5>1, <5>2, OneIsSafe
      <4> QED
        BY <2>2, <4>2, <4>3 DEF SafeTake
    <3> QED
      BY <3>1, <3>2
  <2> HIDE DEF first
  <2> QED
    BY <2>1, <2>3, JoinedAreSafe
<1> HIDE DEF first
<1> QED
  BY <1>1, <1>2, CalmRead

\* Rows deleted for good.
LEMMA CalmlyGone ==
    ASSUME NeatPlans(row), DOMAIN row' = Ids,
           \A i \in Ids : \/ /\ row'[i] = Gone
                             /\ row[i].kind \in {"feature", "planFeature", "gone", "counter"}
                          \/ /\ DOMAIN row'[i] = DOMAIN row[i]
                             /\ \A f \in DOMAIN row[i] \ {"parent"} : row'[i][f] = row[i][f]
    PROVE  Calmly
<1>1. Gone.kind = "gone" /\ OfSubscriptions(Gone)
  BY DEF Gone, OfSubscriptions
<1>2. ASSUME NEW i \in Ids
      PROVE  \/ /\ row'[i].kind = "gone" /\ OfSubscriptions(row'[i])
                /\ row[i].kind \in {"feature", "planFeature", "gone", "counter"}
             \/ /\ OfSubscriptions(row'[i]) /\ row'[i].kind = row[i].kind
                /\ row[i].kind = "tenant" => row'[i].plan = row[i].plan /\ row'[i].manual = row[i].manual
                /\ row[i].kind = "plan" => row'[i].code = row[i].code
                /\ row[i].kind = "subscription" =>
                      /\ row'[i].code = row[i].code /\ row'[i].plan = row[i].plan
                      /\ row'[i].status = row[i].status /\ row'[i].ended = row[i].ended
                /\ row[i].kind = "counter" =>
                      /\ row'[i].org = row[i].org /\ row'[i].feature = row[i].feature
                      /\ row'[i].usage = row[i].usage
  <2>1. CASE row'[i] = Gone /\ row[i].kind \in {"feature", "planFeature", "gone", "counter"}
    BY <1>1, <2>1
  <2>2. CASE /\ DOMAIN row'[i] = DOMAIN row[i]
             /\ \A f \in DOMAIN row[i] \ {"parent"} : row'[i][f] = row[i][f]
    <3>1. PICK r : r = row[i]
      OBVIOUS
    <3>2. PICK t : t = row'[i]
      OBVIOUS
    <3>3. OfSubscriptions(r) /\ DOMAIN t = DOMAIN r /\ \A f \in DOMAIN r \ {"parent"} : t[f] = r[f]
      BY <2>2, <3>1, <3>2 DEF NeatPlans
    <3>4. t.kind = r.kind
      BY <3>3 DEF OfSubscriptions
    <3>5. r.kind = "tenant" => t.plan = r.plan /\ t.manual = r.manual
      BY <3>3 DEF OfSubscriptions
    <3>6. r.kind = "plan" => t.code = r.code
      BY <3>3 DEF OfSubscriptions
    <3>7. r.kind = "subscription" => t.code = r.code /\ t.plan = r.plan /\ t.status = r.status /\ t.ended = r.ended
      BY <3>3 DEF OfSubscriptions
    <3>8. r.kind = "counter" => t.org = r.org /\ t.feature = r.feature /\ t.usage = r.usage
      BY <3>3 DEF OfSubscriptions
    <3>9. r.kind = "planFeature" => t.value = r.value
      BY <3>3 DEF OfSubscriptions
    <3>10. OfSubscriptions(t)
      BY <3>3, <3>4, <3>8, <3>9 DEF OfSubscriptions
    <3> QED
      BY <3>1, <3>2, <3>4, <3>5, <3>6, <3>7, <3>8, <3>10
  <2> QED
    BY <2>1, <2>2
<1>3. KeepsPlans(row, row')
  BY <1>2 DEF KeepsPlans
<1>4. KeepsSafe(row, row')
  BY <1>2 DEF KeepsSafe
<1>5. \A s \in Ids : row[s].kind = "subscription" => row'[s].status = row[s].status
  BY <1>2
<1>6. \A k \in Ids : row[k].kind = "counter" /\ row'[k].kind = "counter" => row'[k].usage = row[k].usage
  BY <1>2
<1>7. \A o \in Ids : row'[o].kind = "tenant" =>
          row[o].kind = "tenant" /\ row'[o].plan = row[o].plan /\ row'[o].manual = row[o].manual
  BY <1>2
<1> QED
  BY <1>3, <1>4, <1>5, <1>6, <1>7 DEF Calmly

LEMMA SubscriptionDeletes ==
    ASSUME SubscriptionInv, NEW c \in Callers, Deletion(c)
    PROVE  SubscriptionMoves
<1> SUFFICES ASSUME ~Throw(c) PROVE SubscriptionMoves
  BY SubscriptionThrows
<1>1. /\ ~Idle(c) /\ todo' = [todo EXCEPT ![c] = Tail(todo[c])] /\ UNCHANGED overlapped /\ UNCHANGED died
      /\ Head(todo[c]).do = "erase"
  BY DEF Deletion
<1>2. ASSUME Orderly PROVE Calmly /\ AllSafe(row, Tail(todo[c]))
  <2>1. Safe(row, Head(todo[c])) /\ AllSafe(row, Tail(todo[c])) /\ NeatPlans(row)
    BY <1>1, <1>2, SafeRun
  <2>2. SafeErase(row, Head(todo[c]))
    BY <1>1, <2>1, NoUpdate DEF Safe, SafeList, SafeTake
  <2>3. PICK n \in Ids : n = Head(todo[c]).id /\ row[n].kind \in {"feature", "planFeature", "gone"}
    BY <2>2 DEF SafeErase
  <2>4. row' = [j \in Ids |->
                  IF j = n THEN Gone
                  ELSE IF "parent" \in DOMAIN row[j] /\ row[j].parent = n
                       THEN [row[j] EXCEPT !.parent = 0] ELSE row[j]]
    BY <2>3 DEF Deletion
  <2>5. ASSUME NEW i \in Ids, i # n
        PROVE  /\ DOMAIN row'[i] = DOMAIN row[i]
               /\ \A f \in DOMAIN row[i] \ {"parent"} : row'[i][f] = row[i][f]
    <3>1. row'[i] = row[i] \/ row'[i] = [row[i] EXCEPT !.parent = 0]
      BY <2>4, <2>5
    <3> QED
      BY <3>1
  <2>6. row'[n] = Gone /\ DOMAIN row' = Ids
    BY <2>4
  <2> QED
    BY <2>1, <2>3, <2>5, <2>6, CalmlyGone
<1> QED
  BY <1>1, <1>2, CalmMoves

LEMMA SubscriptionClears ==
    ASSUME SubscriptionInv, NEW c \in Callers, Clear(c)
    PROVE  SubscriptionMoves
<1>1. /\ ~Idle(c) /\ todo' = [todo EXCEPT ![c] = Tail(todo[c])] /\ UNCHANGED overlapped /\ UNCHANGED died
      /\ Head(todo[c]).do = "clear"
  BY DEF Clear
<1>2. ASSUME Orderly PROVE Calmly /\ AllSafe(row, Tail(todo[c]))
  <2>1. Safe(row, Head(todo[c])) /\ AllSafe(row, Tail(todo[c])) /\ NeatPlans(row)
    BY <1>1, <1>2, SafeRun
  <2>2. Head(todo[c]).kind \in {"planFeature", "counter"}
    BY <1>1, <2>1, NoUpdate DEF Safe, SafeList, SafeTake, SafeErase
  <2>3. row' = [i \in Ids |-> IF IsKind(i, Head(todo[c]).kind) /\ row[i].feature = Head(todo[c]).feature
                              THEN Gone ELSE row[i]]
    BY DEF Clear
  <2>4. ASSUME NEW i \in Ids
        PROVE  \/ row'[i] = Gone /\ row[i].kind \in {"planFeature", "counter"}
               \/ row'[i] = row[i]
    BY <2>2, <2>3 DEF IsKind
  <2>5. DOMAIN row' = Ids
    BY <2>3
  <2> QED
    BY <2>1, <2>4, <2>5, CalmlyGone
<1> QED
  BY <1>1, <1>2, CalmMoves

\* Use is reported.
LEMMA SubscriptionEnters ==
    ASSUME SubscriptionInv, NEW c \in Callers, IncrementUsage(c)
    PROVE  SubscriptionMoves
<1> SUFFICES ASSUME ~Throw(c) PROVE SubscriptionMoves
  BY SubscriptionThrows
<1>1. /\ ~Idle(c) /\ todo' = [todo EXCEPT ![c] = Tail(todo[c])] /\ UNCHANGED overlapped /\ UNCHANGED died
      /\ Head(todo[c]).do = "enter"
  BY DEF IncrementUsage
<1>2. ASSUME Orderly PROVE UpdateMoves(Tail(todo[c]))
  <2>1. PICK q : q = todo[c]
    OBVIOUS
  <2>2. /\ q # <<>> /\ Head(q).do = "enter" /\ SubscriptionScript(row, q) /\ NeatPlans(row)
        /\ \A o \in Ids : Agreed(row, o) \/ Syncs(q, o)
    <3>1. \A o \in Ids : Agreed(row, o) \/ Syncs(todo[c], o)
      BY <1>1, <1>2, AboutToSync
    <3> QED
      BY <1>1, <1>2, <2>1, <3>1 DEF SubscriptionInv, Idle
  <2>3. PICK e : q = <<e>> /\ Metering(row, e)
    BY <2>2, SubscriptionHeads
  <2>4. Head(q) = e /\ Tail(q) = <<>>
    BY <2>3, ShortLists
  <2> DEFINE old == {k \in CountersOf(e.org) : row[k].feature = e.feature}
  <2>5. row' = IF old = {} THEN [row EXCEPT ![NextId] = Counter(e.org, e.feature, e.amount)]
               ELSE [i \in Ids |-> IF i \in old THEN [row[i] EXCEPT !.usage = @ + e.amount] ELSE row[i]]
    BY <2>1, <2>4 DEF IncrementUsage
  <2>6. \A k \in Ids : k \in old <=> row[k].kind = "counter" /\ row[k].org = e.org /\ row[k].feature = e.feature
    BY DEF CountersOf, IsKind
  <2> HIDE DEF old
  <2>7. ASSUME NEW o \in Ids PROVE Agreed(row, o)
    <3>1. ASSUME NEW t, q = <<SyncPlan(o, t)>> PROVE FALSE
      <4>1. Head(q) = SyncPlan(o, t)
        BY <3>1, ShortLists
      <4>2. SyncPlan(o, t).do = "update"
        BY SyncIsSet, Statements
      <4> QED
        BY <2>2, <4>1, <4>2
    <3> QED
      BY <2>2, <3>1 DEF Syncs
  <2>8. CASE old = {}
    <3>1. PICK m \in Ids : m = NextId /\ row[m] = NoRow
      BY NextIsFree DEF IncrementUsage
    <3>2. PICK t : t = Counter(e.org, e.feature, e.amount)
      OBVIOUS
    <3>3. OfSubscriptions(t) /\ t.kind = "counter" /\ t.org = e.org /\ t.feature = e.feature
      BY <2>3, <3>2 DEF Counter, OfSubscriptions, Metering
    <3>4. row' = [row EXCEPT ![m] = t]
      BY <2>5, <2>8, <3>1, <3>2
    <3>5. DOMAIN row' = Ids /\ row'[m] = t /\ row[m].kind = "none" /\ \A i \in Ids \ {m} : row'[i] = row[i]
      BY <2>2, <3>1, <3>4 DEF NeatPlans, NoRow
    <3>6. ASSUME NEW k \in Ids, NEW l \in Ids, row'[k].kind = "counter", row'[l].kind = "counter",
                 row'[k].org = row'[l].org, row'[k].feature = row'[l].feature
          PROVE  k = l
      <4>1. k # m /\ l # m => k = l
        BY <2>2, <3>5, <3>6 DEF NeatPlans
      <4>2. k = m => l = m
        BY <2>6, <2>8, <3>3, <3>5, <3>6
      <4>3. l = m => k = m
        BY <2>6, <2>8, <3>3, <3>5, <3>6
      <4> QED
        BY <4>1, <4>2, <4>3
    <3>7. ASSUME NEW s \in Ids, row'[s].kind = "subscription"
          PROVE  /\ row'[s].plan \in Ids /\ row'[row'[s].plan].kind = "plan"
                 /\ row'[s].code \in Ids /\ row'[row'[s].code].kind = "tenant"
      <4>1. s # m /\ row'[s] = row[s]
        BY <3>3, <3>5, <3>7
      <4>2. /\ row[s].plan \in Ids /\ row[row[s].plan].kind = "plan"
            /\ row[s].code \in Ids /\ row[row[s].code].kind = "tenant"
        BY <2>2, <3>7, <4>1 DEF NeatPlans
      <4>3. row[s].plan # m /\ row[s].code # m
        BY <3>5, <4>2
      <4> QED
        BY <3>5, <4>1, <4>2, <4>3
    <3>8. \A i \in Ids : OfSubscriptions(row'[i])
      BY <2>2, <3>3, <3>5 DEF NeatPlans
    <3>9. NeatPlans(row')
      BY <3>5, <3>6, <3>7, <3>8 DEF NeatPlans
    <3>10. Watched(row, row')
      <4>1. \A i \in Ids : row[i].kind = "subscription" => row'[i].status = row[i].status
        BY <3>5
      <4>2. ASSUME NEW k \in Ids, row[k].kind = "counter" PROVE ~(row'[k].usage > row[k].usage)
        <5>1. row'[k] = row[k] /\ row[k].usage \in Int
          BY <2>2, <3>5, <4>2 DEF NeatPlans, OfSubscriptions
        <5> QED
          BY <5>1
      <4> QED
        BY <4>1, <4>2 DEF Watched, StatusWatched, UseWatched
    <3>11. ASSUME NEW o \in Ids PROVE Agreed(row', o)
      <4>1. CASE o = m
        BY <3>3, <3>5, <4>1 DEF Agreed
      <4>2. CASE o # m
        <5> DEFINE Own(tab) == {y \in Ids : tab[y].kind = "subscription" /\ tab[y].code = o}
        <5>1. Own(row') = Own(row)
          BY <3>3, <3>5
        <5>2. ASSUME NEW y \in Own(row) PROVE row'[row'[y].plan].code = row[row[y].plan].code
          <6>1. y # m /\ row'[y] = row[y] /\ row[y].plan \in Ids /\ row[row[y].plan].kind = "plan"
            BY <2>2, <3>5, <5>2 DEF NeatPlans
          <6>2. row'[row[y].plan] = row[row[y].plan]
            BY <3>5, <6>1
          <6> QED
            BY <6>1, <6>2
        <5>3. {mapPlanSlugToEnum(row'[row'[y].plan].code) : y \in Own(row')}
                  = {mapPlanSlugToEnum(row[row[y].plan].code) : y \in Own(row)}
          BY <5>1, <5>2
        <5>4. TiersOf(row', o) = TiersOf(row, o)
          BY <5>3 DEF TiersOf
        <5> QED
          BY <2>7, <3>5, <4>2, <5>4 DEF Agreed
      <4> QED
        BY <4>1, <4>2
    <3> QED
      BY <2>1, <2>4, <3>9, <3>10, <3>11, NothingIsSafe DEF UpdateMoves, SubscriptionScript
  <2>9. CASE old # {}
    <3>1. DOMAIN row' = Ids /\ \A i \in Ids : row'[i] = IF i \in old THEN [row[i] EXCEPT !.usage = @ + e.amount] ELSE row[i]
      BY <2>5, <2>9
    <3>2. ASSUME NEW k \in old
          PROVE  /\ k \in Ids /\ row[k].kind = "counter" /\ row[k].org = e.org /\ row[k].feature = e.feature
                 /\ OfSubscriptions(row'[k]) /\ row'[k].kind = "counter" /\ row'[k].org = e.org
                 /\ row'[k].feature = e.feature
      <4>1. k \in Ids /\ row[k].kind = "counter" /\ row[k].org = e.org /\ row[k].feature = e.feature
        BY <2>6, <3>2 DEF old, CountersOf
      <4>2. PICK r : r = row[k]
        OBVIOUS
      <4>3. /\ OfSubscriptions(r) /\ r.kind = "counter" /\ {"kind", "org", "feature", "usage"} \subseteq DOMAIN r
            /\ r.usage \in Int
        BY <2>2, <4>1, <4>2 DEF NeatPlans, OfSubscriptions
      <4>4. PICK t : t = [r EXCEPT !.usage = r.usage + e.amount]
        OBVIOUS
      <4>5. /\ t.kind = r.kind /\ t.org = r.org /\ t.feature = r.feature /\ t.usage = r.usage + e.amount
            /\ DOMAIN t = DOMAIN r
        BY <4>3, <4>4
      <4>6. OfSubscriptions(t)
        <5>1. t.usage \in Int
          BY <2>3, <4>3, <4>5 DEF Metering
        <5> QED
          BY <4>3, <4>5, <5>1 DEF OfSubscriptions
      <4>7. row'[k] = t
        BY <3>1, <3>2, <4>1, <4>2, <4>4
      <4> QED
        BY <4>1, <4>2, <4>3, <4>5, <4>6, <4>7
    <3>3. \A i \in Ids : i \in old \/ row'[i] = row[i]
      BY <3>1
    <3>4. KeepsPlans(row, row')
      <4>1. \A i \in Ids : OfSubscriptions(row[i])
        BY <2>2 DEF NeatPlans
      <4> QED
        BY <3>2, <3>3, <4>1 DEF KeepsPlans
    <3>5. NeatPlans(row') /\ \A o \in Ids : TiersOf(row', o) = TiersOf(row, o)
      BY <2>2, <3>1, <3>4, PlansKept
    <3>6. \A o \in Ids : Agreed(row', o)
      BY <2>7, <3>2, <3>3, <3>5 DEF Agreed
    <3>7. StatusWatched(row, row')
      BY <3>2, <3>3 DEF StatusWatched
    <3>8. UseWatched(row, row')
      <4> SUFFICES ASSUME NEW k \in Ids, NEW i \in Ids, NEW s \in Ids,
                          row[k].kind = "counter", row'[k].usage > row[k].usage,
                          row[s].kind = "subscription", row[s].code = row[k].org,
                          row[i].kind = "planFeature", row[i].feature = row[k].feature, row[i].available,
                          row[i].plan = row[s].plan
                   PROVE  row[k].usage < row[i].value
        BY DEF UseWatched
      <4>1. k \in old
        <5>1. row[k].usage \in Int
          BY <2>2 DEF NeatPlans, OfSubscriptions
        <5> QED
          BY <3>3, <5>1
      <4> QED
        BY <2>3, <3>2, <4>1 DEF Metering, Spare
    <3> QED
      BY <2>1, <2>4, <3>5, <3>6, <3>7, <3>8, NothingIsSafe DEF UpdateMoves, SubscriptionScript, Watched
  <2> QED
    BY <2>8, <2>9
<1> QED
  BY <1>1, <1>2, SubscriptionExecutes DEF UpdateMoves

\* The current period of a subscription ends, whatever calls are in progress.
LEMMA SubscriptionAges ==
    ASSUME SubscriptionInv, NEW s \in Ids, PeriodEnds(s)
    PROVE  SubscriptionMoves
<1> SUFFICES ASSUME Orderly' PROVE SubscriptionInv' /\ Watched(row, row')
  BY DEF SubscriptionInv, SubscriptionMoves
<1>1. Orderly /\ NeatPlans(row) /\ row[s].kind = "subscription" /\ todo' = todo
  BY DEF Orderly, PeriodEnds, SubscriptionInv, IsKind
<1>2. PICK set : set = [ended |-> TRUE]
  OBVIOUS
<1>3. DOMAIN set = {"ended"} /\ set["ended"] = TRUE
  BY <1>2
<1>4. PICK r : r = row[s]
  OBVIOUS
<1>5. OfSubscriptions(r) /\ {"code", "plan", "status", "ended"} \subseteq DOMAIN r
  BY <1>1, <1>4 DEF NeatPlans, OfSubscriptions
<1>6. DOMAIN row' = Ids /\ row'[s] = [r EXCEPT !.ended = TRUE] /\ \A i \in Ids \ {s} : row'[i] = row[i]
  BY <1>1, <1>4 DEF PeriodEnds, NeatPlans
<1>7. [r EXCEPT !.ended = TRUE] = Merge(r, set)
  <2>1. Merge(r, set) = [f \in DOMAIN r |-> IF f \in {"ended"} THEN set[f] ELSE r[f]]
    BY <1>3 DEF Merge
  <2>2. [r EXCEPT !.ended = TRUE] = [f \in DOMAIN r |-> IF f = "ended" THEN TRUE ELSE r[f]]
    OBVIOUS
  <2>3. \A f \in DOMAIN r : (IF f \in {"ended"} THEN set[f] ELSE r[f]) = (IF f = "ended" THEN TRUE ELSE r[f])
    BY <1>3
  <2> QED
    BY <2>1, <2>2, <2>3
<1>8. OneUpdated(s, set)
  BY <1>4, <1>6, <1>7 DEF OneUpdated
<1>9. /\ row'[s].code = row[s].code /\ row'[s].plan = row[s].plan /\ row'[s].status = row[s].status
      /\ row'[s].ended
  BY <1>4, <1>5, <1>6
<1>10. Loose(set) /\ Lawful(row, s, set) /\ "plan" \notin DOMAIN set /\ DOMAIN set \cap {"plan", "manual"} = {}
  BY <1>3 DEF Loose, Lawful
<1>11. /\ NeatPlans(row') /\ Watched(row, row')
       /\ \A o \in Ids : TiersOf(row', o) = TiersOf(row, o) /\ row'[o].kind = row[o].kind
  BY <1>1, <1>8, <1>10, PlainUpdate
<1>12. \A o \in Ids : Agreed(row, o) => Agreed(row', o)
  BY <1>1, <1>8, <1>10, OneStaysAgreed
<1>13. ASSUME NEW q, SubscriptionScript(row, q) PROVE SubscriptionScript(row', q)
  <2>1. KeepsSafe(row, row')
    BY <1>6, <1>9, <1>11 DEF KeepsSafe
  <2>2. ASSUME NEW e, Syncing(row, e) PROVE Syncing(row', e)
    BY <1>11, <2>2 DEF Syncing
  <2>3. ASSUME NEW e, Renewing(row, e) PROVE Renewing(row', e)
    BY ZenonT(60), <1>6, <1>9, <1>11, <2>3 DEF Renewing
  <2>4. ASSUME NEW e, Metering(row, e) PROVE Metering(row', e)
    <3>1. ASSUME NEW o, NEW f, Spare(row, o, f) PROVE Spare(row', o, f)
      <4> SUFFICES ASSUME NEW x \in Ids, NEW i \in Ids, NEW k \in Ids,
                          row'[x].kind = "subscription", row'[x].code = o,
                          row'[i].kind = "planFeature", row'[i].feature = f, row'[i].available,
                          row'[i].plan = row'[x].plan,
                          row'[k].kind = "counter", row'[k].org = o, row'[k].feature = f
                   PROVE  row'[k].usage < row'[i].value
        BY DEF Spare
      <4>1. row[x].kind = "subscription" /\ row[x].code = o /\ row[x].plan = row'[x].plan
        BY ZenonT(60), <1>6, <1>9, <1>11
      <4>2. row'[i] = row[i] /\ row'[k] = row[k]
        BY <1>1, <1>6, <1>11
      <4> QED
        BY <3>1, <4>1, <4>2 DEF Spare
    <3> QED
      BY <2>4, <3>1 DEF Metering
  <2>5. ASSUME NEW e, NEW f, ChangingPlan(row, e, f) PROVE ChangingPlan(row', e, f)
    <3>1. PICK x \in Ids, p \in Ids :
              \E u : /\ row[x].kind = "subscription" /\ row[p].kind = "plan"
                     /\ e = Set(x, u) /\ "plan" \in DOMAIN u /\ DOMAIN u \subseteq {"plan", "ended"} /\ u.plan = p
                     /\ f = SyncPlan(row[x].code, mapPlanSlugToEnum(row[p].code))
      BY <2>5 DEF ChangingPlan
    <3>2. row'[x].kind = "subscription" /\ row'[p].kind = "plan" /\ row'[x].code = row[x].code
          /\ row'[p].code = row[p].code
      BY <1>1, <1>6, <1>9, <1>11, <3>1
    <3> QED
      BY <3>1, <3>2 DEF ChangingPlan
  <2>6. ASSUME NEW e, NEW f, StartingTrial(row, e, f) PROVE StartingTrial(row', e, f)
    <3>1. PICK o \in Ids, p \in Ids :
              /\ row[o].kind = "tenant" /\ row[p].kind = "plan"
              /\ e = Insert(Subscription(o, p)) /\ f = SyncPlan(o, mapPlanSlugToEnum(row[p].code))
      BY <2>6 DEF StartingTrial
    <3>2. row'[o].kind = "tenant" /\ row'[p].kind = "plan" /\ row'[p].code = row[p].code
      BY <1>1, <1>6, <1>11, <3>1
    <3> QED
      BY <3>1, <3>2 DEF StartingTrial
  <2>7. ASSUME NEW e, NEW f, Expiring(row, e, f) PROVE Expiring(row', e, f)
    BY <1>11, <2>2, <2>7 DEF Expiring
  <2>8. CASE AllSafe(row, q)
    BY <2>1, <2>8, SafeKept DEF SubscriptionScript
  <2>9. CASE \E e : q = <<e>> /\ OneStep(row, e)
    BY <2>2, <2>3, <2>4, <2>9 DEF SubscriptionScript, OneStep
  <2>10. CASE \E e, f : q = <<e, f>> /\ TwoSteps(row, e, f)
    BY <2>5, <2>6, <2>7, <2>10 DEF SubscriptionScript, TwoSteps
  <2> QED
    BY <1>13, <2>8, <2>9, <2>10 DEF SubscriptionScript
<1>14. OneCall'
  BY <1>1 DEF OneCall, Idle, SubscriptionInv
<1> QED
  BY <1>1, <1>11, <1>12, <1>13, <1>14 DEF SubscriptionInv
-----------------------------------------------------------------------------
\* The calls.
LEMMA OneSafeStatement ==
    ASSUME SubscriptionInv, NEW c \in Callers, NEW e, Begin(c, <<e>>), NeatPlans(row) => Safe(row, e)
    PROVE  SubscriptionMoves
<1>1. ASSUME Orderly PROVE SubscriptionScript(row, <<e>>)
  BY <1>1, OneIsSafe DEF SubscriptionInv, SubscriptionScript
<1> QED
  BY <1>1, SubscriptionBegins
LEMMA OneStatement ==
    ASSUME SubscriptionInv, NEW c \in Callers, NEW e, Begin(c, <<e>>), NeatPlans(row) => OneStep(row, e)
    PROVE  SubscriptionMoves
<1>1. ASSUME Orderly PROVE SubscriptionScript(row, <<e>>)
  BY <1>1 DEF SubscriptionInv, SubscriptionScript
<1> QED
  BY <1>1, SubscriptionBegins
LEMMA TwoStatements ==
    ASSUME SubscriptionInv, NEW c \in Callers, NEW e, NEW f, Begin(c, <<e, f>>), NeatPlans(row) => TwoSteps(row, e, f)
    PROVE  SubscriptionMoves
<1>1. ASSUME Orderly PROVE SubscriptionScript(row, <<e, f>>)
  BY <1>1 DEF SubscriptionInv, SubscriptionScript
<1> QED
  BY <1>1, SubscriptionBegins

\* An update of what no plan depends on.
LEMMA HarmlessStatement ==
    ASSUME SubscriptionInv, NEW c \in Callers, NEW i \in Ids, row[i].kind # "subscription",
           NEW set, Begin(c, <<Set(i, set)>>),
           DOMAIN set \subseteq {"active", "deleted", "status", "hard", "available"}
    PROVE  SubscriptionMoves
<1>1. SafeSet(row, i, set)
  BY DEF SafeSet
<1>2. Safe(row, Set(i, set))
  BY <1>1 DEF Safe
<1> QED
  BY <1>2, OneSafeStatement
LEMMA StatusStatement ==
    ASSUME SubscriptionInv, NEW c \in Callers, NEW s \in Ids, row[s].kind = "subscription",
           row[s].status # "EXPIRED", NEW status, status \notin {"EXPIRED", "GRACE_PERIOD"},
           Begin(c, <<Set(s, [status |-> status])>>)
    PROVE  SubscriptionMoves
<1>1. Safe(row, Set(s, [status |-> status]))
  BY StatusIsSafe
<1> QED
  BY <1>1, OneSafeStatement

\* Subscriptions.
LEMMA LifecycleMoves ==
    ASSUME SubscriptionInv, NEW c \in Callers, NEW s \in Ids, Lifecycle(c, s)
    PROVE  SubscriptionMoves
<1>1. row[s].kind = "subscription"
  BY DEF Lifecycle, IsKind
<1>2. CASE activate(c, s)
  <2>1. row[s].status # "EXPIRED" /\ Begin(c, <<Set(s, [status |-> "ACTIVE"])>>)
    BY <1>2 DEF activate, assertValidTransition, ValidSources
  <2> QED
    BY <1>1, <2>1, StatusStatement
<1>3. CASE cancel(c, s)
  <2>1. row[s].status # "EXPIRED" /\ Begin(c, <<Set(s, [status |-> "CANCELED"])>>)
    BY <1>3 DEF cancel, assertValidTransition, ValidSources
  <2> QED
    BY <1>1, <2>1, StatusStatement
<1>4. CASE renew(c, s)
  <2>1. Renewing(row, Set(s, [status |-> "ACTIVE", ended |-> FALSE]))
    BY <1>1, <1>4 DEF renew, Renewing
  <2> QED
    BY <1>4, <2>1, OneStatement DEF renew, OneStep
<1>5. CASE suspend(c, s)
  <2>1. row[s].status # "EXPIRED" /\ Begin(c, Suspension(s))
    BY <1>5 DEF suspend, assertValidTransition, ValidSources
  <2>2. ASSUME Orderly PROVE SubscriptionScript(row, Suspension(s))
    BY <1>1, <2>1, <2>2, SuspensionIsSafe DEF SubscriptionInv, SubscriptionScript
  <2> QED
    BY <2>1, <2>2, SubscriptionBegins
<1>6. CASE expire(c, s)
  <2>1. ASSUME NeatPlans(row)
        PROVE  Expiring(row, Set(s, [status |-> "EXPIRED"]), SyncPlan(row[s].code, "FREE"))
    <3>1. row[s].code \in Ids /\ row[row[s].code].kind = "tenant"
      BY <1>1, <2>1 DEF NeatPlans
    <3>2. Syncing(row, SyncPlan(row[s].code, "FREE"))
      BY <3>1 DEF Syncing, TiersOf
    <3> QED
      BY <1>1, <3>2 DEF Expiring
  <2> QED
    BY <1>6, <2>1, TwoStatements DEF expire, TwoSteps
<1>7. CASE markPastDue(c, s)
  <2>1. row[s].status # "EXPIRED" /\ Begin(c, <<Set(s, [status |-> "PAST_DUE"])>>)
    BY <1>7 DEF markPastDue
  <2> QED
    BY <1>1, <2>1, StatusStatement
<1>8. CASE changePlan(c, s)
  <2>1. PICK p \in Ids, immediate \in BOOLEAN :
            /\ Offered(p)
            /\ Begin(c, <<Set(s, IF immediate THEN [plan |-> p, ended |-> FALSE] ELSE [plan |-> p]),
                          SyncPlan(row[s].code, Tier(p))>>)
    BY <1>8 DEF changePlan
  <2>2. PICK set : set = IF immediate THEN [plan |-> p, ended |-> FALSE] ELSE [plan |-> p]
    OBVIOUS
  <2>3. "plan" \in DOMAIN set /\ DOMAIN set \subseteq {"plan", "ended"} /\ set.plan = p
    <3>1. CASE immediate
      BY <2>2, <3>1
    <3>2. CASE ~immediate
      BY <2>2, <3>2
    <3> QED
      BY <3>1, <3>2
  <2>4. row[p].kind = "plan" /\ Tier(p) = mapPlanSlugToEnum(row[p].code)
    BY <2>1 DEF Offered, Found, Tier
  <2>5. ChangingPlan(row, Set(s, set), SyncPlan(row[s].code, Tier(p)))
    BY <1>1, <2>3, <2>4 DEF ChangingPlan
  <2>6. Begin(c, <<Set(s, set), SyncPlan(row[s].code, Tier(p))>>)
    BY <2>1, <2>2
  <2> QED
    BY <2>5, <2>6, TwoStatements DEF TwoSteps
<1> QED
  BY <1>2, <1>3, <1>4, <1>5, <1>6, <1>7, <1>8 DEF Lifecycle

\* Plans and organisations.
LEMMA PlanCallsMove ==
    ASSUME SubscriptionInv, NEW c \in Callers, NEW p \in Ids,
           \/ updatePlan(c, p) \/ softDeletePlan(c, p) \/ archivePlan(c, p) \/ restorePlan(c, p)
    PROVE  SubscriptionMoves
<1>1. row[p].kind = "plan"
  BY DEF updatePlan, softDeletePlan, archivePlan, restorePlan, Found, IsKind
<1>2. CASE updatePlan(c, p)
  <2>1. PICK b : Begin(c, <<Set(p, [active |-> b])>>)
    BY SMTT(60), <1>2 DEF updatePlan
  <2>2. DOMAIN [active |-> b] \subseteq {"active", "deleted", "status", "hard", "available"}
    OBVIOUS
  <2> QED
    BY <1>1, <2>1, <2>2, HarmlessStatement
<1>3. CASE softDeletePlan(c, p) \/ archivePlan(c, p)
  <2>1. Begin(c, <<Set(p, [active |-> FALSE, deleted |-> TRUE])>>)
    BY <1>3 DEF softDeletePlan, archivePlan
  <2>2. DOMAIN [active |-> FALSE, deleted |-> TRUE] \subseteq {"active", "deleted", "status", "hard", "available"}
    OBVIOUS
  <2> QED
    BY <1>1, <2>1, <2>2, HarmlessStatement
<1>4. CASE restorePlan(c, p)
  <2>1. Begin(c, <<Set(p, [active |-> TRUE, deleted |-> FALSE])>>)
    BY <1>4 DEF restorePlan
  <2>2. DOMAIN [active |-> TRUE, deleted |-> FALSE] \subseteq {"active", "deleted", "status", "hard", "available"}
    OBVIOUS
  <2> QED
    BY <1>1, <2>1, <2>2, HarmlessStatement
<1> QED
  BY <1>2, <1>3, <1>4
LEMMA TenantCallsMove ==
    ASSUME SubscriptionInv, NEW c \in Callers, NEW o \in Ids,
           \/ softDeleteTenant(c, o) \/ restoreTenant(c, o) \/ suspendOrganization(c, o)
           \/ restoreOrganization(c, o) \/ reactivateOrganization(c, o) \/ changeOrganizationPlan(c, o)
    PROVE  SubscriptionMoves
<1>1. row[o].kind = "tenant"
  BY DEF softDeleteTenant, restoreTenant, suspendOrganization, restoreOrganization, reactivateOrganization,
         changeOrganizationPlan, Found, IsKind
<1>2. CASE softDeleteTenant(c, o) \/ restoreTenant(c, o)
  <2>1. PICK b : Begin(c, <<Set(o, [deleted |-> b])>>)
    BY <1>2 DEF softDeleteTenant, restoreTenant
  <2>2. DOMAIN [deleted |-> b] \subseteq {"active", "deleted", "status", "hard", "available"}
    OBVIOUS
  <2> QED
    BY <1>1, <2>1, <2>2, HarmlessStatement
<1>3. CASE suspendOrganization(c, o) \/ restoreOrganization(c, o)
  <2>1. PICK status : Begin(c, <<Set(o, [status |-> status])>>)
    BY <1>3 DEF suspendOrganization, restoreOrganization
  <2>2. DOMAIN [status |-> status] \subseteq {"active", "deleted", "status", "hard", "available"}
    OBVIOUS
  <2> QED
    BY <1>1, <2>1, <2>2, HarmlessStatement
<1>4. CASE reactivateOrganization(c, o)
  <2>1. Begin(c, <<Set(o, [status |-> "ACTIVE", deleted |-> FALSE])>>)
    BY <1>4 DEF reactivateOrganization
  <2>2. DOMAIN [status |-> "ACTIVE", deleted |-> FALSE]
            \subseteq {"active", "deleted", "status", "hard", "available"}
    OBVIOUS
  <2> QED
    BY <1>1, <2>1, <2>2, HarmlessStatement
<1>5. CASE changeOrganizationPlan(c, o)
  <2>1. PICK tier : Begin(c, <<Set(o, [plan |-> tier, manual |-> TRUE])>>)
    BY <1>5 DEF changeOrganizationPlan
  <2>2. PICK set : set = [plan |-> tier, manual |-> TRUE]
    OBVIOUS
  <2>3. DOMAIN set = {"plan", "manual"} /\ set.manual
    BY <2>2
  <2>4. SafeSet(row, o, set)
    BY <1>1, <2>3 DEF SafeSet
  <2>5. Safe(row, Set(o, set)) /\ Begin(c, <<Set(o, set)>>)
    BY <2>1, <2>2, <2>4 DEF Safe
  <2> QED
    BY <2>5, OneSafeStatement
<1> QED
  BY <1>2, <1>3, <1>4, <1>5

\* What is added.
LEMMA AddingCalls ==
    ASSUME SubscriptionInv, NEW c \in Callers, NEW d, Begin(c, <<Insert(d)>>), OfSubscriptions(d),
           d.kind \in {"tenant", "plan", "feature", "planFeature"}, d.kind = "tenant" => d.plan = "FREE"
    PROVE  SubscriptionMoves
<1>1. Adding(Insert(d))
  BY DEF Adding
<1> QED
  BY <1>1, OneStatement DEF OneStep
LEMMA CreatingCallsMove ==
    ASSUME SubscriptionInv, NEW c \in Callers,
           \/ createPlan(c) \/ createTenant(c) \/ createFeature(c)
           \/ \E i \in Ids : duplicatePlan(c, i)
           \/ \E i, j \in Ids : assignFeatureToPlan(c, i, j)
    PROVE  SubscriptionMoves
<1>1. CASE createPlan(c)
  <2>1. PICK slug : Begin(c, <<Insert(Plan(slug))>>)
    BY <1>1 DEF createPlan, BeginInsert
  <2>2. OfSubscriptions(Plan(slug)) /\ Plan(slug).kind = "plan"
    BY DEF Plan, OfSubscriptions
  <2> QED
    BY <2>1, <2>2, AddingCalls
<1>2. CASE createTenant(c)
  <2>1. PICK n : Begin(c, <<Insert(Tenant(n, "FREE"))>>)
    BY <1>2 DEF createTenant, BeginInsert
  <2>2. OfSubscriptions(Tenant(n, "FREE")) /\ Tenant(n, "FREE").kind = "tenant" /\ Tenant(n, "FREE").plan = "FREE"
    BY DEF Tenant, OfSubscriptions
  <2> QED
    BY <2>1, <2>2, AddingCalls
<1>3. CASE createFeature(c)
  <2>1. Begin(c, <<Insert(Feature(1))>>)
    BY <1>3 DEF createFeature, BeginInsert
  <2>2. OfSubscriptions(Feature(1)) /\ Feature(1).kind = "feature"
    BY DEF Feature, OfSubscriptions
  <2> QED
    BY <2>1, <2>2, AddingCalls
<1>4. ASSUME NEW i \in Ids, duplicatePlan(c, i) PROVE SubscriptionMoves
  <2>1. PICK d : d = [Plan("pro-copy") EXCEPT !.active = FALSE]
    OBVIOUS
  <2>2. OfSubscriptions(d) /\ d.kind = "plan"
    BY <2>1 DEF Plan, OfSubscriptions
  <2>3. Begin(c, <<Insert(d)>>)
    BY <1>4, <2>1 DEF duplicatePlan, BeginInsert
  <2> QED
    BY <2>2, <2>3, AddingCalls
<1>5. ASSUME NEW i \in Ids, NEW j \in Ids, assignFeatureToPlan(c, i, j) PROVE SubscriptionMoves
  <2>1. PICK value \in {1, 2} : Begin(c, <<Insert(PlanFeature(i, j, value))>>)
    BY <1>5 DEF assignFeatureToPlan, BeginInsert
  <2>2. OfSubscriptions(PlanFeature(i, j, value)) /\ PlanFeature(i, j, value).kind = "planFeature"
    BY DEF PlanFeature, OfSubscriptions
  <2> QED
    BY <2>1, <2>2, AddingCalls
<1> QED
  BY <1>1, <1>2, <1>3, <1>4, <1>5

\* Features and limits.
LEMMA FeatureCallsMove ==
    ASSUME SubscriptionInv, NEW c \in Callers, NEW i \in Ids,
           \/ deleteFeature(c, i) \/ removeFeatureFromPlan(c, i) \/ enableFeature(c, i)
    PROVE  SubscriptionMoves
<1>1. CASE deleteFeature(c, i)
  <2>1. PICK x : x = [do |-> "clear", kind |-> "planFeature", feature |-> i]
    OBVIOUS
  <2>2. PICK y : y = [do |-> "clear", kind |-> "counter", feature |-> i]
    OBVIOUS
  <2>3. Begin(c, <<x, y, Erase(i)>>) /\ row[i].kind = "feature"
    BY <1>1, <2>1, <2>2 DEF deleteFeature, IsKind
  <2>4. Safe(row, x) /\ Safe(row, y)
    BY <2>1, <2>2 DEF Safe
  <2>5. Safe(row, Erase(i))
    BY <2>3, Statements DEF Safe, SafeErase
  <2>6. PICK S : S = {x, y, Erase(i)}
    OBVIOUS
  <2>7. <<x, y, Erase(i)>> \in Seq(S) /\ \A e \in S : Safe(row, e)
    BY <2>4, <2>5, <2>6
  <2>8. SubscriptionScript(row, <<x, y, Erase(i)>>)
    BY <2>7 DEF SubscriptionScript, AllSafe
  <2> QED
    BY <2>3, <2>8, SubscriptionBegins
<1>2. CASE removeFeatureFromPlan(c, i)
  <2>1. Begin(c, <<Erase(i)>>) /\ Safe(row, Erase(i))
    BY <1>2, Statements DEF removeFeatureFromPlan, IsKind, Safe, SafeErase
  <2> QED
    BY <2>1, OneSafeStatement
<1>3. CASE enableFeature(c, i)
  <2>1. PICK b : Begin(c, <<Set(i, [available |-> b])>>)
    BY <1>3 DEF enableFeature
  <2>2. DOMAIN [available |-> b] \subseteq {"active", "deleted", "status", "hard", "available"}
    OBVIOUS
  <2>3. row[i].kind = "planFeature"
    BY <1>3 DEF enableFeature, IsKind
  <2> QED
    BY <2>1, <2>2, <2>3, HarmlessStatement
<1> QED
  BY <1>1, <1>2, <1>3
LEMMA LimitCallsMove ==
    ASSUME SubscriptionInv, NEW c \in Callers, NEW o \in Ids,
           overrideUsageLimits(c, o) \/ \E f \in Ids : overrideFeatureFlags(c, o, f)
    PROVE  SubscriptionMoves
<1>1. PICK set : set = [hard |-> 3]
  OBVIOUS
<1>2. DOMAIN set = {"hard"}
  BY <1>1
<1>3. ASSUME NEW k \in CountersOf(o) PROVE k \in Ids /\ row[k].kind = "counter" /\ Safe(row, Set(k, set))
  <2>1. k \in Ids /\ row[k].kind = "counter"
    BY <1>3 DEF CountersOf, IsKind
  <2>2. SafeSet(row, k, set)
    BY <1>2, <2>1 DEF SafeSet
  <2> QED
    BY <2>1, <2>2 DEF Safe
<1>4. CASE \E f \in Ids : overrideFeatureFlags(c, o, f)
  <2>1. PICK k \in CountersOf(o) : Begin(c, <<Set(k, set)>>)
    BY <1>1, <1>4 DEF overrideFeatureFlags
  <2> QED
    BY <1>3, <2>1, OneSafeStatement
<1>5. CASE overrideUsageLimits(c, o)
  <2> DEFINE S == {Set(k, set) : k \in CountersOf(o)}
  <2>1. Begin(c, SetToSeq(S))
    BY <1>1, <1>5 DEF overrideUsageLimits
  <2>2. \A e \in S : Safe(row, e)
    BY <1>3
  <2>3. IsFiniteSet(S)
    <3>1. IsFiniteSet(CountersOf(o))
      BY RowsAssumption, FS_Subset DEF CountersOf
    <3> DEFINE g == [k \in CountersOf(o) |-> Set(k, set)]
    <3>2. g \in Surjection(CountersOf(o), S)
      BY DEF Surjection
    <3> HIDE DEF g, S
    <3> QED
      BY <3>1, <3>2, FS_Surjection
  <2> HIDE DEF S
  <2>4. SetToSeq(S) \in Seq(S)
    BY <2>3, ListOfSet
  <2>5. SubscriptionScript(row, SetToSeq(S))
    BY <2>2, <2>4 DEF SubscriptionScript, AllSafe
  <2> QED
    BY <2>1, <2>5, SubscriptionBegins
<1> QED
  BY <1>4, <1>5

\* A client that asked whether it can.
LEMMA UseMoves ==
    ASSUME SubscriptionInv, NEW c \in Callers, NEW o \in Ids, NEW f \in Ids, Use(c, o, f)
    PROVE  SubscriptionMoves
<1>1. PICK amount \in Reports :
          Begin(c, <<[do |-> "enter", org |-> o, feature |-> f, amount |-> amount]>>)
  BY DEF Use, BeginInsert
<1>2. PICK e : /\ e.do = "enter" /\ e.org = o /\ e.feature = f /\ e.amount \in Int
               /\ Begin(c, <<e>>)
  BY <1>1, ReportsAssumption
<1>3. ASSUME NeatPlans(row) PROVE Spare(row, o, f)
  <2> SUFFICES ASSUME NEW s \in Ids, NEW i \in Ids, NEW k \in Ids,
                      row[s].kind = "subscription", row[s].code = o,
                      row[i].kind = "planFeature", row[i].feature = f, row[i].available,
                      row[i].plan = row[s].plan,
                      row[k].kind = "counter", row[k].org = o, row[k].feature = f
               PROVE  row[k].usage < row[i].value
    BY DEF Spare
  <2>1. i \in checkFeature(o, f)
    BY DEF checkFeature, SubscriptionsOf, IsKind
  <2>2. Usage(o, f) < row[i].value
    BY <2>1 DEF Use, can, checkUsage
  <2>3. k \in CountersOf(o)
    BY DEF CountersOf, IsKind
  <2>4. \A l \in CountersOf(o) : row[l].feature = f => l = k
    BY <1>3 DEF CountersOf, IsKind, NeatPlans
  <2>5. (CHOOSE l \in CountersOf(o) : row[l].feature = f) = k
    BY <2>3, <2>4
  <2>6. Usage(o, f) = row[k].usage
    BY <2>3, <2>5 DEF Usage
  <2> QED
    BY <2>2, <2>6
<1>4. NeatPlans(row) => Metering(row, e)
  BY <1>2, <1>3 DEF Metering
<1> QED
  BY <1>2, <1>4, OneStatement DEF OneStep
LEMMA TrialBegins ==
    ASSUME SubscriptionInv, NEW c \in Callers, NEW o \in Ids, activateTrial(c, o)
    PROVE  SubscriptionMoves
<1>1. PICK p \in Ids : Offered(p) /\ Begin(c, <<Insert(Subscription(o, p)), SyncPlan(o, Tier(p))>>)
  BY DEF activateTrial, BeginInsert
<1>2. row[p].kind = "plan" /\ row[o].kind = "tenant" /\ Tier(p) = mapPlanSlugToEnum(row[p].code)
  BY <1>1 DEF Offered, Found, Tier, activateTrial, IsKind
<1>3. StartingTrial(row, Insert(Subscription(o, p)), SyncPlan(o, Tier(p)))
  BY <1>2 DEF StartingTrial
<1> QED
  BY <1>1, <1>3, TwoStatements DEF TwoSteps
LEMMA SweepBegins ==
    ASSUME SubscriptionInv, NEW c \in Callers, processExpired(c)
    PROVE  SubscriptionMoves
<1>1. PICK x : x = [do |-> "list", status |-> "GRACE_PERIOD", to |-> "SUSPENDED"]
  OBVIOUS
<1>2. PICK y : y = [do |-> "list", status |-> "ACTIVE", to |-> "GRACE_PERIOD"]
  OBVIOUS
<1>3. Begin(c, <<x, y>>)
  BY <1>1, <1>2 DEF processExpired
<1>4. Safe(row, x) /\ Safe(row, y)
  BY <1>1, <1>2 DEF Safe, SafeList
<1>5. SubscriptionScript(row, <<x, y>>)
  BY <1>4, TwoAreSafe DEF SubscriptionScript
<1> QED
  BY <1>3, <1>5, SubscriptionBegins

LEMMA CallsMove ==
    ASSUME SubscriptionInv, NEW c \in Callers, SubscriptionCall(c)
    PROVE  SubscriptionMoves
<1>1. CASE \/ processExpired(c) \/ createPlan(c) \/ createTenant(c) \/ createFeature(c)
           \/ \E i \in Ids : duplicatePlan(c, i) \/ \E j \in Ids : assignFeatureToPlan(c, i, j)
  BY <1>1, SweepBegins, CreatingCallsMove
<1>2. ASSUME NEW i \in Ids,
             \/ activateTrial(c, i) \/ Lifecycle(c, i)
             \/ updatePlan(c, i) \/ softDeletePlan(c, i) \/ archivePlan(c, i) \/ restorePlan(c, i)
      PROVE  SubscriptionMoves
  BY <1>2, TrialBegins, LifecycleMoves, PlanCallsMove
<1>3. ASSUME NEW i \in Ids,
             \/ softDeleteTenant(c, i) \/ restoreTenant(c, i)
             \/ suspendOrganization(c, i) \/ restoreOrganization(c, i) \/ reactivateOrganization(c, i)
             \/ changeOrganizationPlan(c, i)
      PROVE  SubscriptionMoves
  BY <1>3, TenantCallsMove
<1>4. ASSUME NEW i \in Ids,
             \/ overrideUsageLimits(c, i) \/ deleteFeature(c, i) \/ removeFeatureFromPlan(c, i) \/ enableFeature(c, i)
             \/ \E j \in Ids : overrideFeatureFlags(c, i, j) \/ Use(c, i, j)
      PROVE  SubscriptionMoves
  BY <1>4, LimitCallsMove, FeatureCallsMove, UseMoves
<1> QED
  BY <1>1, <1>2, <1>3, <1>4 DEF SubscriptionCall
LEMMA SubscriptionStep == SubscriptionInv /\ SubscriptionNext => SubscriptionMoves
<1> SUFFICES ASSUME SubscriptionInv, SubscriptionNext PROVE SubscriptionMoves
  OBVIOUS
<1>1. ASSUME NEW s \in Ids, PeriodEnds(s) PROVE SubscriptionMoves
  BY <1>1, SubscriptionAges
<1>2. ASSUME NEW c \in Callers, SubscriptionCall(c) PROVE SubscriptionMoves
  BY <1>2, CallsMove
<1>3. ASSUME NEW c \in Callers, ListEnded(c) \/ TakeEnded(c) \/ Clear(c) \/ IncrementUsage(c)
      PROVE  SubscriptionMoves
  BY <1>3, SubscriptionLists, SubscriptionTakes, SubscriptionClears, SubscriptionEnters
<1>4. ASSUME NEW c \in Callers, Update(c) \/ Create(c) \/ Deletion(c) \/ Die(c) PROVE SubscriptionMoves
  BY <1>4, SubscriptionUpdates, SubscriptionCreates, SubscriptionDeletes, SubscriptionThrows DEF Die
<1> QED
  BY <1>1, <1>2, <1>3, <1>4 DEF SubscriptionNext
LEMMA SubscriptionStart == SubscriptionInit => SubscriptionInv
<1> SUFFICES ASSUME SubscriptionInit PROVE SubscriptionInv
  OBVIOUS
<1>1. /\ DOMAIN todo = Callers /\ \A c \in Callers : todo[c] = <<>>
      /\ NeatPlans(row) /\ \A o \in Ids : Agreed(row, o)
  BY SubscriptionAssumption DEF SubscriptionInit, RowsInit
<1>2. \A c \in Callers : SubscriptionScript(row, todo[c])
  BY <1>1, NothingIsSafe DEF SubscriptionScript
<1> QED
  BY <1>1, <1>2 DEF SubscriptionInv, OneCall, Idle
LEMMA SubscriptionFollow == SubscriptionInv => PlanAgrees
<1> SUFFICES ASSUME SubscriptionInv, Orderly, Quiet, NEW o \in Ids, IsKind(o, "tenant"), ~row[o].manual
             PROVE  row[o].plan \in {"FREE"} \cup {Tier(row[s].plan) : s \in SubscriptionsOf(o)}
  BY DEF PlanAgrees
<1>1. \A c \in Callers : ~Syncs(todo[c], o)
  BY ShortLists DEF Quiet, Idle, Syncs
<1>2. row[o].plan \in TiersOf(row, o)
  BY <1>1 DEF SubscriptionInv, Agreed, IsKind
<1> QED
  BY <1>2 DEF TiersOf, SubscriptionsOf, IsKind, Tier

\* In a behaviour that exercises subscriptions.
SubscriptionPart == part = "subscriptions" => SubscriptionInv
LEMMA SubscriptionPartStart == ServicesInit => SubscriptionPart
BY SubscriptionStart DEF ServicesInit, SubscriptionPart
LEMMA SubscriptionsStep ==
    ASSUME SubscriptionPart, [ServicesNext]_serviceVars, part = "subscriptions" \/ part' = "subscriptions"
    PROVE  /\ part' = "subscriptions" /\ SubscriptionInv /\ SubscriptionInv'
           /\ UNCHANGED subscriptionVars \/ (Orderly' => Watched(row, row'))
<1>1. part = "subscriptions" /\ part' = "subscriptions" /\ SubscriptionInv
  BY DEF ServicesNext, serviceVars, SubscriptionPart
<1>2. CASE ServicesNext
  <2>1. SubscriptionNext
    BY <1>1, <1>2 DEF ServicesNext
  <2> QED
    BY <1>1, <2>1, SubscriptionStep DEF SubscriptionMoves
<1>3. CASE UNCHANGED serviceVars
  <2>1. UNCHANGED subscriptionVars
    BY <1>3 DEF serviceVars, subscriptionVars
  <2>2. SubscriptionInv'
    BY <1>1, <2>1 DEF SubscriptionInv, subscriptionVars, rowVars, Orderly, OneCall, Idle
  <2> QED
    BY <1>1, <2>1, <2>2
<1> QED
  BY <1>2, <1>3
LEMMA SubscriptionPartStep == SubscriptionPart /\ [ServicesNext]_serviceVars => SubscriptionPart'
BY SubscriptionsStep DEF SubscriptionPart

\* As long as calls do not overlap and none dies: whenever no call is in
\* progress, the plan an organisation has on record, if the super admin did not
\* write it, is that of a subscription it has, or FREE (activateTrial,
\* changePlan, suspend, expire).
THEOREM PlansAlwaysAgree == ServicesSpec => [](part = "subscriptions" => PlanAgrees)
<1>1. SubscriptionPart => (part = "subscriptions" => PlanAgrees)
  BY SubscriptionFollow DEF SubscriptionPart
<1> QED
  BY <1>1, SubscriptionPartStart, SubscriptionPartStep, PTL DEF ServicesSpec

\* As long as calls do not overlap and none dies: whatever is called and
\* whenever a period ends, a subscription that expired stays so, and one enters
\* grace only when its period has ended (renew, changePlan, processExpired).
THEOREM ExpiredStaysOver == ServicesSpec => (part = "subscriptions" => ExpiredIsOver)
<1>1. ServicesSpec => []SubscriptionPart
  BY SubscriptionPartStart, SubscriptionPartStep, PTL DEF ServicesSpec
<1>2. SubscriptionPart /\ [ServicesNext]_serviceVars /\ part = "subscriptions" => (part = "subscriptions")'
  BY SubscriptionsStep
<1>3. SubscriptionPart /\ [ServicesNext]_serviceVars /\ part = "subscriptions" =>
        [\A s \in Ids : IsKind(s, "subscription") /\ Orderly' =>
             /\ (row[s].status = "EXPIRED" => row'[s].status = "EXPIRED")
             /\ (row'[s].status = "GRACE_PERIOD" => row[s].status = "GRACE_PERIOD" \/ row[s].ended)
        ]_subscriptionVars
  <2> SUFFICES ASSUME SubscriptionPart, [ServicesNext]_serviceVars, part = "subscriptions",
                      ~UNCHANGED subscriptionVars, NEW s \in Ids, IsKind(s, "subscription"), Orderly'
               PROVE  /\ row[s].status = "EXPIRED" => row'[s].status = "EXPIRED"
                      /\ row'[s].status = "GRACE_PERIOD" => row[s].status = "GRACE_PERIOD" \/ row[s].ended
    OBVIOUS
  <2>1. Watched(row, row')
    BY SubscriptionsStep
  <2> QED
    BY <2>1 DEF Watched, StatusWatched, IsKind
<1> QED
  BY <1>1, <1>2, <1>3, PTL DEF ServicesSpec, ExpiredIsOver

\* As long as calls do not overlap and none dies: a client that asks before it
\* reports, whatever amounts it reports, adds to a counter only while what was
\* used is less than a plan of the organisation's subscriptions allows at that
\* moment; that one report may pass the limit (can, incrementUsage).
THEOREM MeteredStaysWithin == ServicesSpec => (part = "subscriptions" => MeteredWithinLimit)
<1>1. ServicesSpec => []SubscriptionPart
  BY SubscriptionPartStart, SubscriptionPartStep, PTL DEF ServicesSpec
<1>2. SubscriptionPart /\ [ServicesNext]_serviceVars /\ part = "subscriptions" => (part = "subscriptions")'
  BY SubscriptionsStep
<1>3. SubscriptionPart /\ [ServicesNext]_serviceVars /\ part = "subscriptions" =>
        [Orderly' => \A k \in Ids :
            IsKind(k, "counter") /\ row'[k].kind = "counter" /\ row'[k].usage > row[k].usage =>
               \A i \in checkFeature(row[k].org, row[k].feature) : row[k].usage < row[i].value
        ]_subscriptionVars
  <2> SUFFICES ASSUME SubscriptionPart, [ServicesNext]_serviceVars, part = "subscriptions",
                      ~UNCHANGED subscriptionVars, Orderly', NEW k \in Ids, IsKind(k, "counter"),
                      row'[k].kind = "counter", row'[k].usage > row[k].usage,
                      NEW i \in checkFeature(row[k].org, row[k].feature)
               PROVE  row[k].usage < row[i].value
    OBVIOUS
  <2>1. Watched(row, row')
    BY SubscriptionsStep
  <2>2. i \in Ids /\ row[i].kind = "planFeature" /\ row[i].feature = row[k].feature /\ row[i].available
    BY DEF checkFeature, IsKind
  <2>3. PICK s \in Ids : row[s].kind = "subscription" /\ row[s].code = row[k].org /\ row[s].plan = row[i].plan
    BY DEF checkFeature, SubscriptionsOf, IsKind
  <2> QED
    BY <2>1, <2>2, <2>3 DEF Watched, UseWatched, IsKind
<1> QED
  BY <1>1, <1>2, <1>3, PTL DEF ServicesSpec, MeteredWithinLimit
-----------------------------------------------------------------------------
(* What is used and paid back (Billing).                                    *)

\* As long as calls do not overlap what a call has checked holds when it acts
\* on it: the limit of a coupon, the sum that was refunded so far, and where
\* the default address is.
Spends(tab, e) ==
    /\ e.do = "redeem" => tab[e.id].used < tab[e.id].max
    /\ e.do = "repay" => e.sum = tab[e.id].refunded + e.amount
    /\ e.do = "update" =>
         /\ {"used", "refunded", "returned"} \cap DOMAIN e.set = {}
         /\ "default" \in DOMAIN e.set => \E i \in Ids : e.ids = {i} /\ \A j \in Ids : Default(tab, j) => j = i
    /\ e.do = "create" =>
         /\ e.set.kind = "coupon" => {"used", "max"} \subseteq DOMAIN e.set /\ e.set.used = 0
         /\ e.set.kind # "payment"
         /\ e.set.kind = "address" => "default" \in DOMAIN e.set /\ \A j \in Ids : ~Default(tab, j)
SpendInv ==
    ~overlapped => OneCall /\ NeatMoney(row) /\ \A c \in Callers : ~Idle(c) => Spends(row, Head(todo[c]))

\* A coupon is used while its limit allows it.
Uses(tab, then) == \A i \in Ids :
    tab[i].kind = "coupon" /\ then[i].used > tab[i].used => tab[i].used < tab[i].max

LEMMA SpendBegins ==
    ASSUME BillingInv, SpendInv, NEW c \in Callers, NEW e, Begin(c, <<e>>), ~overlapped /\ Quiet => Spends(row, e)
    PROVE  SpendInv'
<1> SUFFICES ASSUME ~overlapped' PROVE SpendInv'
  BY DEF SpendInv
<1>1. row' = row /\ todo' = [todo EXCEPT ![c] = <<e>>] /\ ~overlapped /\ Quiet
  BY DEF Begin
<1>2. todo'[c] = <<e>> /\ \A d \in Callers \ {c} : todo'[d] = <<>>
  BY <1>1 DEF BillingInv, Quiet, Idle
<1>3. OneCall'
  BY <1>2 DEF OneCall, Idle
<1>4. NeatMoney(row')
  BY <1>1 DEF SpendInv
<1>5. Spends(row', e) /\ Head(<<e>>) = e
  BY <1>1, ShortLists
<1>6. \A d \in Callers : ~(todo'[d] = <<>>) => Spends(row', Head(todo'[d]))
  BY <1>2, <1>5
<1> QED
  BY <1>3, <1>4, <1>6 DEF SpendInv, Idle

\* The one statement of a call is executed.
LEMMA SpendExecutes ==
    ASSUME BillingInv, SpendInv, NEW c \in Callers, ~Idle(c), todo' = [todo EXCEPT ![c] = <<>>],
           ~overlapped' => ~overlapped /\ NeatMoney(row')
    PROVE  SpendInv'
<1> SUFFICES ASSUME ~overlapped' PROVE SpendInv'
  BY DEF SpendInv
<1>1. \A d \in Callers \ {c} : Idle(d)
  BY DEF SpendInv, OneCall
<1>2. \A d \in Callers : todo'[d] = <<>>
  BY <1>1 DEF BillingInv, Idle
<1> QED
  BY <1>2 DEF SpendInv, OneCall, Idle

LEMMA SpendThrows ==
    ASSUME BillingInv, SpendInv, NEW c \in Callers, ~Idle(c), Throw(c)
    PROVE  SpendInv' /\ (Orderly' => Uses(row, row'))
<1>1. row' = row /\ todo' = [todo EXCEPT ![c] = <<>>] /\ overlapped' = overlapped /\ died' = TRUE
  BY DEF Throw
<1>2. SpendInv'
  BY <1>1, SpendExecutes DEF SpendInv
<1>3. ~Orderly'
  BY <1>1 DEF Orderly
<1> QED
  BY <1>2, <1>3

\* A row is inserted.
LEMMA MoneyAdded ==
    ASSUME NeatBills(row), NeatMoney(row), Room, NEW d, row' = [row EXCEPT ![NextId] = d],
           d.kind = "coupon" => {"used", "max"} \subseteq DOMAIN d /\ d.used = 0,
           d.kind = "payment" => {"refunded", "returned"} \subseteq DOMAIN d /\ d.refunded = d.returned,
           d.kind = "address" => "default" \in DOMAIN d /\ \A j \in Ids : ~Default(row, j)
    PROVE  NeatMoney(row') /\ Uses(row, row')
<1>1. PICK n : n = NextId
  OBVIOUS
<1>2. n \in Ids /\ row[n] = NoRow
  BY <1>1, NextIsFree
<1>3. row'[n] = d /\ \A i \in Ids \ {n} : row'[i] = row[i]
  BY <1>1, <1>2 DEF NeatBills
<1>4. \A i \in Ids \ {n} : Default(row', i) <=> Default(row, i)
  BY <1>3 DEF Default
<1>5. ~Default(row, n)
  BY <1>2 DEF Default, NoRow
<1>6. \A i, j \in Ids : Default(row', i) /\ Default(row', j) => i = j
  <2>1. CASE d.kind = "address"
    BY <1>4, <2>1
  <2>2. CASE d.kind # "address"
    <3>1. ~Default(row', n)
      BY <1>3, <2>2 DEF Default
    <3> QED
      BY <1>4, <3>1 DEF NeatMoney
  <2> QED
    BY <2>1, <2>2
<1>7. ASSUME NEW i \in Ids
      PROVE  /\ row'[i].kind = "coupon" => {"used", "max"} \subseteq DOMAIN row'[i] /\ row'[i].used \in Nat
             /\ row'[i].kind = "payment" =>
                  {"refunded", "returned"} \subseteq DOMAIN row'[i] /\ row'[i].refunded = row'[i].returned
             /\ row'[i].kind = "address" => "default" \in DOMAIN row'[i]
  BY <1>3 DEF NeatMoney
<1>8. Uses(row, row')
  BY <1>2, <1>3 DEF Uses, NoRow, NeatMoney
<1> QED
  BY <1>6, <1>7, <1>8 DEF NeatMoney

LEMMA SpendCreates ==
    ASSUME BillingInv, SpendInv, NEW c \in Callers, Create(c) \/ EnterPayment(c)
    PROVE  SpendInv' /\ (Orderly' => Uses(row, row'))
<1>1. ~Idle(c) /\ Room
  BY DEF Create, EnterPayment
<1>2. Tail(todo[c]) = <<>>
  BY <1>1, BillHead
<1>3. CASE Throw(c)
  BY <1>1, <1>3, SpendThrows
<1>4. CASE ~Throw(c)
  <2>1. todo' = [todo EXCEPT ![c] = <<>>] /\ overlapped' = overlapped
    BY <1>2, <1>4 DEF Create, EnterPayment
  <2>2. ASSUME ~overlapped PROVE NeatMoney(row') /\ Uses(row, row')
    <3>1. NeatBills(row) /\ NeatMoney(row) /\ Spends(row, Head(todo[c]))
      BY <1>1, <2>2 DEF BillingInv, SpendInv
    <3>2. CASE Create(c)
      <4>1. PICK d : d = Head(todo[c]).set
        OBVIOUS
      <4>2. row' = [row EXCEPT ![NextId] = d] /\ Head(todo[c]).do = "create"
        BY <1>4, <3>2, <4>1 DEF Create
      <4> QED
        BY <1>1, <3>1, <4>1, <4>2, MoneyAdded DEF Spends
    <3>3. CASE EnterPayment(c)
      <4>1. PICK d : d = Payment(2, Head(todo[c]).status)
        OBVIOUS
      <4>2. row' = [row EXCEPT ![NextId] = d]
        BY <3>3, <4>1 DEF EnterPayment
      <4>3. d.kind = "payment" /\ {"refunded", "returned"} \subseteq DOMAIN d /\ d.refunded = d.returned
        BY <4>1 DEF Payment
      <4> QED
        BY <1>1, <3>1, <4>2, <4>3, MoneyAdded
    <3> QED
      BY <3>2, <3>3
  <2> QED
    BY <1>1, <2>1, <2>2, SpendExecutes DEF Orderly
<1> QED
  BY <1>3, <1>4
LEMMA SpendUpdates ==
    ASSUME BillingInv, SpendInv, NEW c \in Callers, Update(c)
    PROVE  SpendInv' /\ (Orderly' => Uses(row, row'))
<1> DEFINE e == Head(todo[c])
<1>1. ~Idle(c) /\ e.do = "update" /\ BillStatement(row, e) /\ Tail(todo[c]) = <<>>
  BY BillHead DEF Update
<1>2. CASE Throw(c)
  BY <1>1, <1>2, SpendThrows
<1>3. CASE ~Throw(c)
  <2>1. /\ row' = [i \in Ids |-> IF i \in e.ids /\ Exists(i) THEN Merge(row[i], e.set) ELSE row[i]]
        /\ todo' = [todo EXCEPT ![c] = <<>>] /\ overlapped' = overlapped
    BY <1>1, <1>3 DEF Update
  <2>2. ASSUME ~overlapped PROVE NeatMoney(row') /\ Uses(row, row')
    <3>1. NeatMoney(row) /\ Spends(row, e)
      BY <1>1, <2>2 DEF SpendInv
    <3>2. {"kind", "used", "refunded", "returned"} \cap DOMAIN e.set = {}
      BY <1>1, <3>1 DEF BillStatement, Spends
    <3>3. "default" \in DOMAIN e.set => \E i \in Ids : e.ids = {i} /\ \A j \in Ids : Default(row, j) => j = i
      BY <1>1, <3>1 DEF Spends
    <3> HIDE DEF e
    <3>4. ASSUME NEW i \in Ids
          PROVE  /\ DOMAIN row'[i] = DOMAIN row[i]
                 /\ \A f \in DOMAIN row[i] \ DOMAIN e.set : row'[i][f] = row[i][f]
                 /\ i \notin e.ids => row'[i] = row[i]
      <4>1. CASE row'[i] = row[i]
        BY <4>1
      <4>2. CASE row'[i] # row[i]
        <5>1. row'[i] = Merge(row[i], e.set) /\ i \in e.ids
          BY <2>1, <4>2
        <5> QED
          BY <5>1, MergeTells
      <4> QED
        BY <4>1, <4>2
    <3>5. \A i \in Ids : "kind" \in DOMAIN row[i]
      BY DEF BillingInv, NeatBills, OfBilling
    <3>6. \A i \in Ids : row'[i].kind = row[i].kind
      BY <3>2, <3>4, <3>5
    <3>7. ASSUME NEW i \in Ids
          PROVE  /\ row[i].kind = "coupon" => row'[i].used = row[i].used
                 /\ row[i].kind = "payment" =>
                      row'[i].refunded = row[i].refunded /\ row'[i].returned = row[i].returned
      <4>1. CASE row[i].kind = "coupon"
        BY <3>1, <3>2, <3>4, <4>1 DEF NeatMoney
      <4>2. CASE row[i].kind = "payment"
        BY <3>1, <3>2, <3>4, <4>2 DEF NeatMoney
      <4> QED
        BY <4>1, <4>2
    <3>8. \A i, j \in Ids : Default(row', i) /\ Default(row', j) => i = j
      <4>1. CASE "default" \in DOMAIN e.set
        <5>1. PICK n \in Ids : e.ids = {n} /\ \A j \in Ids : Default(row, j) => j = n
          BY <3>3, <4>1
        <5>2. \A j \in Ids \ {n} : ~Default(row', j)
          BY <3>4, <5>1 DEF Default
        <5> QED
          BY <5>2
      <4>2. CASE "default" \notin DOMAIN e.set
        <5>1. ASSUME NEW j \in Ids, Default(row', j) PROVE Default(row, j)
          <6>1. row[j].kind = "address" /\ row'[j].default
            BY <3>6, <5>1 DEF Default
          <6>2. "default" \in DOMAIN row[j]
            BY <3>1, <6>1 DEF NeatMoney
          <6>3. row'[j].default = row[j].default
            BY <3>4, <4>2, <6>2
          <6> QED
            BY <6>1, <6>3 DEF Default
        <5> QED
          BY <3>1, <5>1 DEF NeatMoney
      <4> QED
        BY <4>1, <4>2
    <3>9. Uses(row, row')
      BY <3>1, <3>7 DEF Uses, NeatMoney
    <3>10. ASSUME NEW i \in Ids
           PROVE  /\ row'[i].kind = "coupon" => {"used", "max"} \subseteq DOMAIN row'[i] /\ row'[i].used \in Nat
                  /\ row'[i].kind = "payment" =>
                       {"refunded", "returned"} \subseteq DOMAIN row'[i] /\ row'[i].refunded = row'[i].returned
                  /\ row'[i].kind = "address" => "default" \in DOMAIN row'[i]
      BY <3>1, <3>4, <3>6, <3>7 DEF NeatMoney
    <3> QED
      BY <3>8, <3>9, <3>10 DEF NeatMoney
  <2> QED
    BY <1>1, <2>1, <2>2, SpendExecutes DEF Orderly
<1> QED
  BY <1>2, <1>3

\* One row changes, whose use and sums agree again; no address.
LEMMA MoneyChanges ==
    ASSUME NeatBills(row), NeatMoney(row), NEW n \in Ids, row[n].kind \in {"coupon", "payment"},
           NEW r, row' = [row EXCEPT ![n] = r], DOMAIN r = DOMAIN row[n], r.kind = row[n].kind,
           r.kind = "coupon" => r.used \in Nat /\ (r.used > row[n].used => row[n].used < row[n].max),
           r.kind = "payment" => r.refunded = r.returned
    PROVE  NeatMoney(row') /\ Uses(row, row')
<1>1. row'[n] = r /\ \A i \in Ids \ {n} : row'[i] = row[i]
  BY DEF NeatBills
<1>2. \A i \in Ids : Default(row', i) <=> Default(row, i)
  BY <1>1 DEF Default
<1>3. \A i, j \in Ids : Default(row', i) /\ Default(row', j) => i = j
  BY <1>2 DEF NeatMoney
<1>4. ASSUME NEW i \in Ids
      PROVE  /\ row'[i].kind = "coupon" => {"used", "max"} \subseteq DOMAIN row'[i] /\ row'[i].used \in Nat
             /\ row'[i].kind = "payment" =>
                  {"refunded", "returned"} \subseteq DOMAIN row'[i] /\ row'[i].refunded = row'[i].returned
             /\ row'[i].kind = "address" => "default" \in DOMAIN row'[i]
  <2>1. CASE i = n
    BY <1>1, <2>1 DEF NeatMoney
  <2>2. CASE i # n
    BY <1>1, <2>2 DEF NeatMoney
  <2> QED
    BY <2>1, <2>2
<1>5. Uses(row, row')
  <2>1. ASSUME NEW i \in Ids \ {n}, row[i].kind = "coupon" PROVE ~(row'[i].used > row[i].used)
    BY <1>1, <2>1 DEF NeatMoney
  <2> QED
    BY <1>1, <2>1 DEF Uses
<1> QED
  BY <1>3, <1>4, <1>5 DEF NeatMoney

LEMMA SpendMoves ==
    ASSUME BillingInv, SpendInv, NEW c \in Callers, Redeem(c) \/ Settlement(c) \/ Repayment(c)
    PROVE  SpendInv' /\ (Orderly' => Uses(row, row'))
<1> DEFINE e == Head(todo[c])
           n == e.id
<1>1. ~Idle(c) /\ e.do \in {"redeem", "settle", "repay"}
  BY DEF Redeem, Settlement, Repayment
<1>2. BillStatement(row, e) /\ Tail(todo[c]) = <<>>
  BY <1>1, BillHead
<1>3. CASE Throw(c)
  BY <1>1, <1>3, SpendThrows
<1>4. CASE ~Throw(c)
  <2>1. todo' = [todo EXCEPT ![c] = Tail(todo[c])] /\ overlapped' = overlapped
    BY <1>4 DEF Redeem, Settlement, Repayment
  <2>2. ASSUME ~overlapped PROVE NeatMoney(row') /\ Uses(row, row')
    <3>1. NeatBills(row) /\ NeatMoney(row) /\ Spends(row, e)
      BY <1>1, <2>2 DEF BillingInv, SpendInv
    <3>2. PICK r : r = row[n]
      OBVIOUS
    <3>3. CASE Redeem(c)
      <4>1. e.do = "redeem" /\ n \in Ids /\ r.kind = "coupon"
        BY <1>2, <3>2, <3>3 DEF Redeem, BillStatement
      <4>2. PICK t : t = [r EXCEPT !.used = r.used + 1]
        OBVIOUS
      <4>3. row' = [row EXCEPT ![n] = t]
        BY <3>2, <3>3, <4>2 DEF Redeem
      <4>4. r.used < r.max
        BY <3>1, <3>2, <4>1 DEF Spends
      <4> HIDE DEF n, e
      <4>5. {"kind", "used", "max"} \subseteq DOMAIN r /\ r.used \in Nat
        BY <3>1, <3>2, <4>1 DEF NeatMoney, NeatBills, OfBilling
      <4>6. DOMAIN t = DOMAIN r /\ t.kind = r.kind /\ t.used = r.used + 1
        BY <4>2, <4>5
      <4> QED
        <5>1. t.used \in Nat /\ row[n].used < row[n].max /\ t.kind = "coupon" /\ row[n].kind = "coupon"
          BY <3>2, <4>1, <4>4, <4>5, <4>6
        <5>2. DOMAIN t = DOMAIN row[n] /\ t.kind = row[n].kind /\ n \in Ids
          BY <3>2, <4>1, <4>6
        <5> QED
          BY <3>1, <4>3, <5>1, <5>2, MoneyChanges
    <3>4. CASE Settlement(c)
      <4>1. n \in Ids /\ r.kind = "payment"
        BY SMTT(60), <1>2, <3>2, <3>4 DEF Settlement, BillStatement
      <4>2. PICK x : row' = [row EXCEPT ![n] = [r EXCEPT !.status = "SUCCEEDED", !.code = x]]
        BY ZenonT(60), <1>4, <3>2, <3>4 DEF Settlement
      <4>3. PICK t : t = [r EXCEPT !.status = "SUCCEEDED", !.code = x]
        OBVIOUS
      <4> HIDE DEF n, e
      <4>4. {"kind", "refunded", "returned"} \subseteq DOMAIN r /\ r.refunded = r.returned
        BY <3>1, <3>2, <4>1 DEF NeatMoney, NeatBills, OfBilling
      <4>5. DOMAIN t = DOMAIN r /\ t.kind = r.kind /\ t.refunded = r.refunded /\ t.returned = r.returned
        BY <4>3, <4>4
      <4> QED
        BY ZenonT(60), <3>1, <3>2, <4>1, <4>2, <4>3, <4>4, <4>5, MoneyChanges
    <3>5. CASE Repayment(c)
      <4>1. e.do = "repay" /\ n \in Ids /\ r.kind = "payment"
        BY <1>2, <3>2, <3>5 DEF Repayment, BillStatement
      <4>2. PICK x, y, z : x = e.sum /\ y = e.status /\ z = r.returned + e.amount
        BY SMTT(60)
      <4>3. PICK t : t = [r EXCEPT !.refunded = x, !.status = y, !.returned = z]
        BY SMTT(60)
      <4>4. row' = [row EXCEPT ![n] = t]
        BY <3>2, <3>5, <4>2, <4>3 DEF Repayment
      <4>5. x = r.refunded + e.amount
        BY <3>1, <3>2, <4>1, <4>2 DEF Spends
      <4> HIDE DEF n, e
      <4>6. {"kind", "refunded", "returned"} \subseteq DOMAIN r /\ r.refunded = r.returned
        BY <3>1, <3>2, <4>1 DEF NeatMoney, NeatBills, OfBilling
      <4>7. DOMAIN t = DOMAIN r /\ t.kind = r.kind /\ t.refunded = x /\ t.returned = z
        BY <4>3, <4>6
      <4>8. x = z
        BY <4>2, <4>5, <4>6
      <4> QED
        BY ZenonT(60), <3>1, <3>2, <4>1, <4>4, <4>7, <4>8, MoneyChanges
    <3> QED
      BY <3>3, <3>4, <3>5
  <2> QED
    BY <1>1, <1>2, <2>1, <2>2, SpendExecutes DEF Orderly
<1> QED
  BY SMTT(60), <1>3, <1>4

LEMMA CallsSpend ==
    ASSUME BillingInv, SpendInv, NEW c \in Callers, BillingCall(c)
    PROVE  SpendInv' /\ (Orderly' => Uses(row, row'))
<1>1. row' = row
  <2>1. \E s : Begin(c, s)
    BY DEF BillingCall, CreateCoupon, CreateBill, CreatePayment, UpsertAddress, UpdateCoupon, DeleteCoupon,
           ApplyCoupon, MarkPaid, Issue, CancelBill, DeleteBill, MarkSucceeded, MarkFailed, Refund, BeginInsert
  <2> QED
    BY <2>1 DEF Begin
<1>2. ASSUME Orderly' PROVE Uses(row, row')
  <2>1. ~overlapped
    BY <1>2, <1>1 DEF Orderly, BillingCall, CreateCoupon, CreateBill, CreatePayment, UpsertAddress, UpdateCoupon, DeleteCoupon,
           ApplyCoupon, MarkPaid, Issue, CancelBill, DeleteBill, MarkSucceeded, MarkFailed, Refund, BeginInsert, Begin
  <2>2. NeatMoney(row)
    BY <2>1 DEF SpendInv
  <2> QED
    BY <1>1, <2>2 DEF Uses, NeatMoney
<1>3. ASSUME NEW i \in Ids, NEW set, Begin(c, <<Set(i, set)>>), {"used", "refunded", "returned", "default"} \cap DOMAIN set = {}
      PROVE  SpendInv'
  <2>1. PICK e : e = Set(i, set)
    OBVIOUS
  <2>2. Spends(row, e)
    BY <1>3, <2>1, Statements DEF Spends
  <2> QED
    BY <1>3, <2>1, <2>2, SpendBegins
<1>4. ASSUME NEW d, Begin(c, <<Insert(d)>>), d.kind # "payment",
             ~overlapped /\ Quiet =>
               /\ d.kind = "coupon" => {"used", "max"} \subseteq DOMAIN d /\ d.used = 0
               /\ d.kind = "address" => "default" \in DOMAIN d /\ \A j \in Ids : ~Default(row, j)
      PROVE  SpendInv'
  <2>1. PICK e : e = Insert(d)
    OBVIOUS
  <2>2. ~overlapped /\ Quiet => Spends(row, e)
    BY <1>4, <2>1, Statements DEF Spends
  <2> QED
    BY <1>4, <2>1, <2>2, SpendBegins
<1>5. ASSUME CreateCoupon(c) PROVE SpendInv'
  <2>1. PICK n, max : Begin(c, <<Insert(Coupon(n, max))>>)
    BY <1>5 DEF CreateCoupon, BeginInsert
  <2>2. PICK d : d = Coupon(n, max)
    OBVIOUS
  <2>3. d.kind = "coupon" /\ {"used", "max"} \subseteq DOMAIN d /\ d.used = 0
    BY <2>2 DEF Coupon
  <2> QED
    BY <1>4, <2>1, <2>2, <2>3
<1>6. ASSUME CreateBill(c) PROVE SpendInv'
  <2>1. PICK d : d = Bill(generateInvoiceNumber)
    OBVIOUS
  <2>2. d.kind = "bill"
    BY <2>1 DEF Bill
  <2> QED
    BY <1>4, <1>6, <2>1, <2>2 DEF CreateBill, BeginInsert
<1>7. ASSUME CreatePayment(c) PROVE SpendInv'
  <2>1. PICK s : Begin(c, <<[do |-> "enter", status |-> s]>>)
    BY <1>7 DEF CreatePayment, BeginInsert
  <2>2. Spends(row, [do |-> "enter", status |-> s])
    BY DEF Spends
  <2> QED
    BY <2>1, <2>2, SpendBegins
<1>8. ASSUME UpsertAddress(c) PROVE SpendInv'
  <2>1. ASSUME NEW b, Begin(c, <<Insert(Address(b))>>), {i \in Of("address") : row[i].default} = {} PROVE SpendInv'
    <3>1. PICK d : d = Address(b)
      OBVIOUS
    <3>2. d.kind = "address" /\ "default" \in DOMAIN d
      BY <3>1 DEF Address
    <3>3. \A j \in Ids : ~Default(row, j)
      BY <2>1 DEF Default, Of
    <3> QED
      BY <1>4, <2>1, <3>1, <3>2, <3>3
  <2>2. ASSUME NEW i \in Ids, NEW b, Begin(c, <<Set(i, [default |-> b])>>), Default(row, i) PROVE SpendInv'
    <3>1. PICK set : set = [default |-> b]
      OBVIOUS
    <3>2. DOMAIN set = {"default"}
      BY <3>1
    <3>3. PICK e : e = Set(i, set)
      OBVIOUS
    <3>4. ASSUME ~overlapped PROVE Spends(row, e)
      <4>1. \A j \in Ids : Default(row, j) => j = i
        BY <2>2, <3>4 DEF SpendInv, NeatMoney
      <4> QED
        BY <3>2, <3>3, <4>1, Statements DEF Spends
    <3> QED
      BY <2>2, <3>1, <3>3, <3>4, SpendBegins
  <2>3. \A i : i \in {j \in Of("address") : row[j].default} => i \in Ids /\ Default(row, i)
    BY DEF Of, Default
  <2> QED
    BY <1>8, <2>1, <2>2, <2>3 DEF UpsertAddress, BeginInsert
<1>9. ASSUME NEW i \in Ids,
             \/ UpdateCoupon(c, i) \/ DeleteCoupon(c, i) \/ MarkPaid(c, i) \/ Issue(c, i) \/ CancelBill(c, i)
             \/ DeleteBill(c, i) \/ MarkFailed(c, i)
      PROVE  SpendInv'
  <2>1. PICK set : /\ Begin(c, <<Set(i, set)>>)
                   /\ {"used", "refunded", "returned", "default"} \cap DOMAIN set = {}
    <3>1. \A x : /\ DOMAIN [max |-> x] = {"max"} /\ DOMAIN [active |-> x] = {"active"}
                 /\ DOMAIN [expired |-> x] = {"expired"} /\ DOMAIN [status |-> x] = {"status"}
                 /\ DOMAIN [deleted |-> x] = {"deleted"}
                 /\ DOMAIN [active |-> FALSE, deleted |-> TRUE] = {"active", "deleted"}
      OBVIOUS
    <3>2. ASSUME NEW set, Begin(c, <<Set(i, set)>>),
                 DOMAIN set \in {{"max"}, {"active"}, {"expired"}, {"status"}, {"deleted"}, {"active", "deleted"}}
          PROVE  \E t : Begin(c, <<Set(i, t)>>) /\ {"used", "refunded", "returned", "default"} \cap DOMAIN t = {}
      BY <3>2
    <3>3. CASE UpdateCoupon(c, i)
      BY <3>1, <3>2, <3>3 DEF UpdateCoupon
    <3>4. CASE DeleteCoupon(c, i)
      BY <3>1, <3>2, <3>4 DEF DeleteCoupon
    <3>5. CASE MarkPaid(c, i) \/ Issue(c, i) \/ CancelBill(c, i) \/ DeleteBill(c, i) \/ MarkFailed(c, i)
      BY SMTT(60), <3>1, <3>2, <3>5 DEF MarkPaid, Issue, CancelBill, DeleteBill, MarkFailed
    <3> QED
      BY <1>9, <3>3, <3>4, <3>5
  <2> QED
    BY <1>3, <2>1
<1>10. ASSUME NEW i \in Ids, ApplyCoupon(c, i) PROVE SpendInv'
  <2>1. PICK e : e = [do |-> "redeem", id |-> i]
    OBVIOUS
  <2>2. row[i].used < row[i].max /\ Begin(c, <<e>>)
    BY <1>10, <2>1 DEF ApplyCoupon, Validated
  <2>3. Spends(row, e)
    BY <2>1, <2>2 DEF Spends
  <2> QED
    BY <2>2, <2>3, SpendBegins
<1>11. ASSUME NEW i \in Ids, MarkSucceeded(c, i) PROVE SpendInv'
  <2>1. PICK id : Begin(c, <<[do |-> "settle", id |-> i, provider |-> id]>>)
    BY <1>11 DEF MarkSucceeded
  <2>2. Spends(row, [do |-> "settle", id |-> i, provider |-> id])
    BY DEF Spends
  <2> QED
    BY <2>1, <2>2, SpendBegins
<1>12. ASSUME NEW i \in Ids, Refund(c, i) PROVE SpendInv'
  <2>1. PICK a : Begin(c, <<Repay(i, row[i].refunded + a, a)>>)
    BY <1>12 DEF Refund
  <2>2. PICK sum : sum = row[i].refunded + a
    OBVIOUS
  <2>3. Spends(row, Repay(i, sum, a))
    BY <2>2 DEF Spends, Repay
  <2> QED
    BY <2>1, <2>2, <2>3, SpendBegins
<1>13. SpendInv'
  BY <1>5, <1>6, <1>7, <1>8, <1>9, <1>10, <1>11, <1>12 DEF BillingCall
<1> QED
  BY <1>2, <1>13
-----------------------------------------------------------------------------
\* What is checked holds at first,
LEMMA SpendStart == BillingInit => SpendInv
<1> SUFFICES ASSUME BillingInit PROVE SpendInv
  OBVIOUS
<1>1. NeatMoney(row)
  BY BillingAssumption DEF BillingInit
<1>2. \A c \in Callers : todo[c] = <<>>
  BY DEF BillingInit, RowsInit
<1> QED
  BY <1>1, <1>2 DEF SpendInv, OneCall, Idle

\* and after every step, which uses coupons as it may.
LEMMA SpendStep == BillingInv /\ SpendInv /\ BillingNext => SpendInv' /\ (Orderly' => Uses(row, row'))
<1> SUFFICES ASSUME BillingInv, SpendInv, NEW c \in Callers,
                    \/ BillingCall(c) \/ Redeem(c) \/ EnterPayment(c) \/ Settlement(c) \/ Repayment(c)
                    \/ Update(c) \/ Create(c) \/ Die(c)
             PROVE  SpendInv' /\ (Orderly' => Uses(row, row'))
  BY DEF BillingNext
<1> QED
  BY CallsSpend, SpendMoves, SpendCreates, SpendUpdates, SpendThrows DEF Die

SpendPart == part = "billing" => BillingInv /\ SpendInv
LEMMA SpendPartStart == ServicesInit => SpendPart
BY BillingStart, SpendStart DEF ServicesInit, SpendPart
LEMMA SpendPartStep == SpendPart /\ [ServicesNext]_serviceVars => SpendPart'
<1> SUFFICES ASSUME SpendPart, [ServicesNext]_serviceVars, part' = "billing" PROVE BillingInv' /\ SpendInv'
  BY DEF SpendPart
<1>1. CASE ServicesNext
  <2>1. part = "billing" /\ BillingNext
    BY <1>1 DEF ServicesNext
  <2> QED
    BY <2>1, BillingStep, SpendStep DEF SpendPart
<1>2. CASE UNCHANGED serviceVars
  <2>1. part = "billing" /\ UNCHANGED rowVars
    BY <1>2 DEF serviceVars
  <2>2. BillingInv /\ SpendInv
    BY <2>1 DEF SpendPart
  <2>3. BillingInv'
    BY <2>1, <2>2 DEF BillingInv, rowVars
  <2>4. SpendInv'
    BY <2>1, <2>2 DEF SpendInv, OneCall, Idle, rowVars
  <2> QED
    BY <2>3, <2>4
<1> QED
  BY <1>1, <1>2

\* As long as no calls overlap and none dies, a coupon is used only while its
\* limit, as it stands then, is not reached; what is recorded as refunded of a
\* payment is what was refunded; there is one default address at most
\* (applyCoupon, refund, upsertBillingAddress).
THEOREM SpentStaysAllowed == ServicesSpec => (part = "billing" => SpentAsAllowed)
<1>1. ServicesSpec => []SpendPart
  BY SpendPartStart, SpendPartStep, PTL DEF ServicesSpec
<1>2. SpendPart /\ [ServicesNext]_serviceVars /\ part = "billing" => (part = "billing")'
  BY DEF ServicesNext, serviceVars
<1>3. SpendPart /\ [ServicesNext]_serviceVars /\ part = "billing" =>
        [Orderly' => \A i \in Ids :
            /\ (row[i].kind = "coupon" /\ row'[i].used > row[i].used => row[i].used < row[i].max)
            /\ (row'[i].kind = "payment" => row'[i].refunded = row'[i].returned)
            /\ \A j \in Ids : row'[i].kind = "address" /\ row'[j].kind = "address" =>
                 (row'[i].default /\ row'[j].default => i = j)
        ]_billingVars
  <2> SUFFICES ASSUME SpendPart, [ServicesNext]_serviceVars, part = "billing", ~UNCHANGED billingVars, Orderly'
               PROVE  \A i \in Ids :
                        /\ (row[i].kind = "coupon" /\ row'[i].used > row[i].used => row[i].used < row[i].max)
                        /\ (row'[i].kind = "payment" => row'[i].refunded = row'[i].returned)
                        /\ \A j \in Ids : row'[i].kind = "address" /\ row'[j].kind = "address" =>
                             (row'[i].default /\ row'[j].default => i = j)
    OBVIOUS
  <2>1. BillingNext
    BY DEF ServicesNext, serviceVars, billingVars
  <2>2. Uses(row, row') /\ NeatMoney(row')
    BY <2>1, SpendStep DEF SpendPart, SpendInv, Orderly
  <2> QED
    BY <2>2 DEF Uses, NeatMoney, Default
<1> QED
  BY <1>1, <1>2, <1>3, PTL DEF ServicesSpec, SpentAsAllowed
-----------------------------------------------------------------------------
(* Totals of documents (SalesDocuments).                                    *)
\* A document's totals are those of its lines; of all documents, but one that
\* is being edited.
Tallied(r) == Priced(r) /\ r.totals = Summary(r)
AllPriced(tab) == \A i \in Ids : tab[i].kind \in Kinds => Priced(tab[i])
TalliedBut(tab, but) == \A i \in Ids \ but : tab[i].kind \in Kinds => Tallied(tab[i])

\* A document that may be inserted asks for what its source does.
Carries(tab, d) ==
    d.source # 0 =>
        /\ d.source \in Ids /\ tab[d.source].kind \in Kinds
        /\ d.totals.subtotal = tab[d.source].totals.subtotal
        /\ tab[d.source].discountType = "null" => d.totals.grandTotal = tab[d.source].totals.grandTotal
Addable(tab, d) == "kind" \in DOMAIN d /\ "source" \in DOMAIN d /\ Tallied(d) /\ Carries(tab, d)

\* What a call has left that leaves every document as tallied as it is,
Neutral(tab, q) ==
    \/ \E i, to : q = <<Set(i, [status |-> to])>>
    \/ \E i, b : q = <<Set(i, [deleted |-> b])>>
    \/ \E d : Addable(tab, d) /\ (q = <<Insert(d)>> \/ q = <<Count, Insert(d)>>)
    \/ \E d : Addable(tab, d) /\ q = <<Unless(d.source), Count, Insert(d)>>

\* and what it has left of an edit: writes of the document's row and lines, and
\* the computation of its totals, with the shipping the row has by then.
Amounts == {"lines", "discountType", "discountValue", "shipping"}
AmountsSet(set) ==
    /\ DOMAIN set \subseteq Amounts
    /\ "lines" \in DOMAIN set => set.lines \in Seq(LineItems)
    /\ "discountType" \in DOMAIN set => set.discountType \in {"null", "PERCENTAGE", "FIXED_AMOUNT"}
    /\ "discountValue" \in DOMAIN set => set.discountValue \in Nat
    /\ "shipping" \in DOMAIN set => set.shipping \in Nat
Ships(e, s) == e.do = "update" /\ "shipping" \in DOMAIN e.set /\ e.set.shipping = s
Rewrites(i, e) ==
    \/ \E set : e = Set(i, set) /\ AmountsSet(set)
    \/ \E lines \in Seq(LineItems) : e = AddLines(i, lines)
    \/ \E key \in Nat : \E item : e = SetLine(i, key, item) /\ (item = <<>> \/ item \in LineItems)
KeepsShipping(e, s) == e.do = "update" /\ "shipping" \in DOMAIN e.set => e.set.shipping = s
Rewriting(i, p) == \E S : p \in Seq(S) /\ \A e \in S : Rewrites(i, e)
ShippingKnown(tab, i, p, s) ==
    \/ tab[i].kind = "quotation"
    \/ /\ tab[i].shipping = s \/ (p # <<>> /\ Ships(Head(p), s))
       /\ \A k \in DOMAIN p : KeepsShipping(p[k], s)
Revising(tab, i, q) == \E p, s : q = p \o Recalculate(i, s) /\ Rewriting(i, p) /\ ShippingKnown(tab, i, p, s)
Totalling(tab, i, q) == q = <<Set(i, [totals |-> Summary(tab[i])])>>
TallyScript(tab, q) ==
    \/ Neutral(tab, q) /\ TalliedBut(tab, {})
    \/ \E i \in Ids : /\ tab[i].kind \in Kinds /\ TalliedBut(tab, {i})
                      /\ Revising(tab, i, q) \/ Totalling(tab, i, q)
TallyInv == Orderly => /\ AllPriced(row) /\ (Quiet => TalliedBut(row, {}))
                       /\ \A c \in Callers : ~Idle(c) => TallyScript(row, todo[c])

LEMMA JoinedTail ==
    ASSUME NEW S, NEW p \in Seq(S), NEW q \in Seq(S), p # <<>>
    PROVE  Head(p \o q) = Head(p) /\ Tail(p \o q) = Tail(p) \o q
<1>1. /\ p \o q \in Seq(S) /\ Len(p \o q) = Len(p) + Len(q) /\ Len(p) \in Nat \ {0} /\ Len(q) \in Nat
      /\ \A i \in 1..Len(p) + Len(q) : (p \o q)[i] = IF i <= Len(p) THEN p[i] ELSE q[i - Len(p)]
  BY ConcatProperties, EmptySeq, LenProperties
<1>2. p \o q # <<>>
  BY <1>1
<1>3. /\ Tail(p) \in Seq(S) /\ Len(Tail(p)) = Len(p) - 1
      /\ \A i \in 1..Len(Tail(p)) : Tail(p)[i] = p[i + 1]
  BY HeadTailProperties
<1>4. PICK t : t = Tail(p) \o q
  OBVIOUS
<1>5. /\ t \in Seq(S) /\ Len(t) = Len(Tail(p)) + Len(q)
      /\ \A i \in 1..Len(Tail(p)) + Len(q) :
           t[i] = IF i <= Len(Tail(p)) THEN Tail(p)[i] ELSE q[i - Len(Tail(p))]
  BY <1>3, <1>4, ConcatProperties
<1>6. PICK u : u = Tail(p \o q)
  OBVIOUS
<1>7. /\ u \in Seq(S) /\ Len(u) = Len(p \o q) - 1
      /\ \A i \in 1..Len(u) : u[i] = (p \o q)[i + 1]
  BY <1>1, <1>2, <1>6, HeadTailProperties
<1>8. Len(t) = Len(u) /\ \A i \in 1..Len(t) : t[i] = u[i]
  <2>1. Len(t) = Len(u) /\ Len(u) = Len(p) + Len(q) - 1
    BY <1>1, <1>3, <1>5, <1>7
  <2>2. ASSUME NEW i \in 1..Len(t) PROVE t[i] = u[i]
    <3>1. u[i] = (p \o q)[i + 1] /\ i + 1 \in 1..Len(p) + Len(q)
      BY <1>1, <1>7, <2>1
    <3>2. CASE i <= Len(p) - 1
      <4>1. t[i] = p[i + 1]
        BY <1>1, <1>3, <1>5, <2>1, <3>2
      <4>2. u[i] = p[i + 1]
        BY <1>1, <3>1, <3>2
      <4> QED
        BY <4>1, <4>2
    <3>3. CASE ~(i <= Len(p) - 1)
      <4>1. t[i] = q[i - (Len(p) - 1)]
        BY <1>1, <1>3, <1>5, <2>1, <3>3
      <4>2. u[i] = q[i + 1 - Len(p)]
        BY SMTT(60), <1>1, <3>1, <3>3
      <4>3. i - (Len(p) - 1) = i + 1 - Len(p)
        BY <1>1, <2>1
      <4> QED
        BY <4>1, <4>2, <4>3
    <3> QED
      BY <3>2, <3>3
  <2> QED
    BY <2>1, <2>2
<1>9. t = u
  BY <1>5, <1>7, <1>8, SeqEqual
<1>10. Head(p \o q) = Head(p)
  <2>1. Head(p \o q) = (p \o q)[1]
    BY <1>2
  <2>2. Head(p) = p[1]
    OBVIOUS
  <2> QED
    BY <1>1, <2>1, <2>2
<1> QED
  BY <1>4, <1>6, <1>9, <1>10

\* Lists of writes.
LEMMA NoRewrites == ASSUME NEW i PROVE Rewriting(i, <<>>)
<1>1. PICK S : S = {}
  OBVIOUS
<1>2. <<>> \in Seq(S) /\ \A e \in S : Rewrites(i, e)
  BY <1>1, EmptySeq
<1> QED
  BY <1>2 DEF Rewriting

LEMMA RestRewrites ==
    ASSUME NEW i, NEW p, Rewriting(i, p), p # <<>>
    PROVE  Rewrites(i, Head(p)) /\ Rewriting(i, Tail(p))
<1>1. PICK S : p \in Seq(S) /\ \A e \in S : Rewrites(i, e)
  BY DEF Rewriting
<1>2. Head(p) \in S /\ Tail(p) \in Seq(S)
  BY <1>1, HeadTailProperties
<1> QED
  BY <1>1, <1>2 DEF Rewriting

\* The writes come first.
LEMMA RestEdits ==
    ASSUME NEW i, NEW s, NEW p, Rewriting(i, p), p # <<>>
    PROVE  /\ p \o Recalculate(i, s) # <<>>
           /\ Head(p \o Recalculate(i, s)) = Head(p)
           /\ Tail(p \o Recalculate(i, s)) = Tail(p) \o Recalculate(i, s)
<1>1. PICK S : p \in Seq(S) /\ \A e \in S : Rewrites(i, e)
  BY DEF Rewriting
<1>2. PICK e : e = [do |-> "recalculate", id |-> i, shipping |-> s]
  OBVIOUS
<1>3. PICK f : f = Set(i, [totals |-> 0])
  OBVIOUS
<1>4. PICK T : T = S \cup {e, f}
  OBVIOUS
<1>5. p \in Seq(T)
  BY <1>1, <1>4, SeqMonotonic
<1>6. <<e, f>> \in Seq(T)
  BY <1>4
<1>7. PICK q : q = <<e, f>>
  OBVIOUS
<1>8. Head(p \o q) = Head(p) /\ Tail(p \o q) = Tail(p) \o q
  BY <1>5, <1>6, <1>7, JoinedTail
<1>9. p \o q # <<>>
  BY <1>5, <1>6, <1>7, ConcatEqualIffEmpty
<1> QED
  BY <1>2, <1>3, <1>7, <1>8, <1>9 DEF Recalculate

LEMMA NoMoreEdits ==
    ASSUME NEW i, NEW s
    PROVE  /\ <<>> \o Recalculate(i, s) = Recalculate(i, s)
           /\ Recalculate(i, s) # <<>>
           /\ Head(Recalculate(i, s)).do = "recalculate" /\ Head(Recalculate(i, s)).id = i
           /\ Head(Recalculate(i, s)).shipping = s
           /\ Tail(Recalculate(i, s)) = <<Set(i, [totals |-> 0])>>
<1>1. PICK e : e = [do |-> "recalculate", id |-> i, shipping |-> s]
  OBVIOUS
<1>2. PICK f : f = Set(i, [totals |-> 0])
  OBVIOUS
<1>3. <<e, f>> \in Seq({e, f})
  OBVIOUS
<1>4. <<>> \o <<e, f>> = <<e, f>>
  BY <1>3, ConcatEmptySeq
<1>5. Head(<<e, f>>) = e /\ Tail(<<e, f>>) = <<f>> /\ <<e, f>> # <<>>
  BY SMTT(60), ShortLists
<1>6. e.do = "recalculate" /\ e.id = i /\ e.shipping = s
  BY <1>1
<1> QED
  BY <1>1, <1>2, <1>4, <1>5, <1>6 DEF Recalculate

-----------------------------------------------------------------------------
\* Totals depend on amounts only.
LEMMA SameSummaries ==
    ASSUME NEW l \in Seq(LineItems), NEW m \in Seq(LineItems), DOMAIN l = DOMAIN m,
           \A k \in DOMAIN l : /\ l[k].quantity = m[k].quantity /\ l[k].unitPrice = m[k].unitPrice
                               /\ l[k].discount = m[k].discount /\ l[k].taxRate = m[k].taxRate
    PROVE  \A t, v, s : calculateSummary(l, t, v, s) = calculateSummary(m, t, v, s)
<1>1. /\ [k \in DOMAIN l |-> lineTotal(l[k])] = [k \in DOMAIN m |-> lineTotal(m[k])]
      /\ [k \in DOMAIN l |-> itemDiscountAmount(l[k])] = [k \in DOMAIN m |-> itemDiscountAmount(m[k])]
      /\ [k \in DOMAIN l |-> itemTaxAmount(l[k])] = [k \in DOMAIN m |-> itemTaxAmount(m[k])]
  BY DEF lineTotal, itemDiscountAmount, itemTaxAmount
<1>2. /\ SumOver(lineTotal, l) = SumOver(lineTotal, m)
      /\ SumOver(itemDiscountAmount, l) = SumOver(itemDiscountAmount, m)
      /\ SumOver(itemTaxAmount, l) = SumOver(itemTaxAmount, m)
  BY <1>1 DEF SumOver
<1> QED
  BY <1>2 DEF calculateSummary

\* Lines get keys of their own.
LEMMA KeysAreGiven ==
    ASSUME NEW l \in Seq(LineItems), NEW m, m = Keyed(l)
    PROVE  /\ m \in Seq(LineItems) /\ DOMAIN l = DOMAIN m
           /\ \A k \in DOMAIN l : /\ l[k].quantity = m[k].quantity /\ l[k].unitPrice = m[k].unitPrice
                                  /\ l[k].discount = m[k].discount /\ l[k].taxRate = m[k].taxRate
<1>1. /\ DOMAIN l = 1..Len(l) /\ Len(l) \in Nat /\ \A k \in DOMAIN l : l[k] \in LineItems
  BY LenProperties, ElementOfSeq
<1>2. \A k \in DOMAIN l : m[k] = [l[k] EXCEPT !.key = k]
  BY DEF Keyed
<1>3. ASSUME NEW k \in DOMAIN l PROVE m[k] \in LineItems
  <2>1. PICK x : x = l[k]
    OBVIOUS
  <2>2. x \in LineItems /\ k \in Nat
    BY <1>1, <2>1
  <2>3. [x EXCEPT !.key = k] \in LineItems
    BY <2>2 DEF LineItems
  <2> QED
    BY <1>2, <2>1, <2>3
<1>4. m \in [1..Len(l) -> LineItems]
  BY <1>1, <1>3 DEF Keyed
<1>5. m \in Seq(LineItems)
  BY <1>1, <1>4
<1> QED
  BY <1>1, <1>2, <1>5 DEF LineItems, Keyed

\* A document is inserted with the totals of its lines.
LEMMA DocumentsTally ==
    ASSUME NEW kind, NEW form, IsForm(form), NEW source, NEW d, d = Document(kind, form, source)
    PROVE  /\ Tallied(d) /\ d.kind = kind /\ d.source = source /\ {"kind", "source"} \subseteq DOMAIN d
           /\ d.totals = calculateSummary(form.lines, form.discountType, form.discountValue, form.shipping)
<1>1. PICK m : m = Keyed(form.lines)
  OBVIOUS
<1>2. form.lines \in Seq(LineItems)
  BY DEF IsForm
<1>3. m \in Seq(LineItems) /\ Len(form.lines) \in Nat
  BY <1>1, <1>2, KeysAreGiven, LenProperties
<1>4. \A t, v, s : calculateSummary(form.lines, t, v, s) = calculateSummary(m, t, v, s)
  <2> HIDE DEF IsForm
  <2> QED
    BY <1>1, <1>2, <1>3, KeysAreGiven, SameSummaries
<1>5. PICK totals : totals = calculateSummary(form.lines, form.discountType, form.discountValue, form.shipping)
  OBVIOUS
<1>6. /\ d.lines = m /\ d.keys = Len(form.lines) /\ d.discountType = form.discountType
      /\ d.discountValue = form.discountValue /\ d.shipping = form.shipping /\ d.totals = totals
      /\ d.kind = kind /\ d.source = source
      /\ {"kind", "source", "lines", "keys", "discountType", "discountValue", "shipping", "totals"} \subseteq DOMAIN d
  BY <1>1, <1>5 DEF Document
<1>7. Priced(d)
  BY <1>3, <1>6 DEF Priced, IsForm
<1>8. d.totals = Summary(d)
  BY <1>4, <1>5, <1>6 DEF Summary
<1> QED
  BY <1>5, <1>6, <1>7, <1>8 DEF Tallied

\* What a document says may be sent again.
LEMMA FormsOfDocuments ==
    ASSUME NEW i, Priced(row[i])
    PROVE  IsForm(FormOf(i)) /\ IsForm(Undiscounted(FormOf(i)))
BY DEF Priced, IsForm, FormOf, Undiscounted

LEMMA UndiscountedForms ==
    ASSUME NEW f \in Forms
    PROVE  IsForm(f) /\ IsForm(Undiscounted(f))
BY SalesAssumption DEF IsForm, Undiscounted
-----------------------------------------------------------------------------
\* A column that is no amount changes no total.
LEMMA MergeTallies ==
    ASSUME NEW r, NEW set, DOMAIN set \cap (Amounts \cup {"keys", "totals"}) = {}, NEW t, t = Merge(r, set)
    PROVE  (Priced(r) => Priced(t)) /\ (Tallied(r) => Tallied(t))
<1>1. DOMAIN t = DOMAIN r /\ \A f \in DOMAIN r : f \in Amounts \cup {"keys", "totals"} => t[f] = r[f]
  BY MergeTells
<1>2. ASSUME Priced(r) PROVE Priced(t) /\ Summary(t) = Summary(r) /\ t.totals = r.totals
  <2>1. {"lines", "keys", "discountType", "discountValue", "shipping", "totals"} \subseteq DOMAIN r
    BY <1>2 DEF Priced
  <2>2. /\ t.lines = r.lines /\ t.keys = r.keys /\ t.discountType = r.discountType
        /\ t.discountValue = r.discountValue /\ t.shipping = r.shipping /\ t.totals = r.totals
    BY <1>1, <2>1 DEF Amounts
  <2> QED
    BY <1>1, <1>2, <2>2 DEF Priced, IsForm, Summary
<1> QED
  BY <1>2 DEF Tallied

\* What an edit writes is priced, whatever it writes.
LEMMA MergePrices ==
    ASSUME NEW r, NEW set, Priced(r), AmountsSet(set), NEW t, t = Merge(r, set)
    PROVE  /\ Priced(t)
           /\ "shipping" \in DOMAIN set => t.shipping = set.shipping
           /\ "shipping" \notin DOMAIN set => t.shipping = r.shipping
           /\ "kind" \in DOMAIN r => t.kind = r.kind
<1>1. DOMAIN t = DOMAIN r /\ \A f \in DOMAIN r : t[f] = IF f \in DOMAIN set THEN set[f] ELSE r[f]
  BY MergeTells
<1>2. {"lines", "keys", "discountType", "discountValue", "shipping", "totals"} \subseteq DOMAIN r
  BY DEF Priced
<1>3. /\ t.lines = IF "lines" \in DOMAIN set THEN set.lines ELSE r.lines
      /\ t.discountType = IF "discountType" \in DOMAIN set THEN set.discountType ELSE r.discountType
      /\ t.discountValue = IF "discountValue" \in DOMAIN set THEN set.discountValue ELSE r.discountValue
      /\ t.shipping = IF "shipping" \in DOMAIN set THEN set.shipping ELSE r.shipping
  BY <1>1, <1>2
<1>4. t.keys = r.keys /\ ("kind" \in DOMAIN r => t.kind = r.kind)
  BY <1>1, <1>2 DEF AmountsSet, Amounts
<1>5. t.lines \in Seq(LineItems) /\ t.discountType \in {"null", "PERCENTAGE", "FIXED_AMOUNT"}
  BY <1>3 DEF Priced, IsForm, AmountsSet
<1>6. t.discountValue \in Nat /\ t.shipping \in Nat /\ t.keys \in Nat
  BY <1>3, <1>4 DEF Priced, IsForm, AmountsSet
<1> QED
  BY <1>1, <1>2, <1>3, <1>4, <1>5, <1>6 DEF Priced, IsForm

\* A call begins.
LEMMA TallyBegins ==
    ASSUME SalesInv, TallyInv, NEW c \in Callers, NEW st, Begin(c, st),
           Orderly /\ AllPriced(row) /\ TalliedBut(row, {}) => TallyScript(row, st)
    PROVE  TallyInv'
<1> SUFFICES ASSUME Orderly' PROVE TallyInv'
  BY DEF TallyInv
<1>1. /\ row' = row /\ todo' = [todo EXCEPT ![c] = st] /\ Orderly /\ Quiet
  BY DEF Begin, Orderly
<1>2. todo'[c] = st /\ \A d \in Callers \ {c} : todo'[d] = <<>>
  BY <1>1 DEF SalesInv, Quiet, Idle, Orderly
<1>3. AllPriced(row) /\ TalliedBut(row, {}) /\ TallyScript(row, st)
  BY <1>1 DEF TallyInv
<1> QED
  BY <1>1, <1>2, <1>3 DEF TallyInv, Idle

\* or executes a statement; what is said of calls that die is nothing.
LEMMA TallyExecutes ==
    ASSUME SalesInv, TallyInv, NEW c \in Callers, ~Idle(c), NEW rest, todo' = [todo EXCEPT ![c] = rest],
           overlapped' = overlapped, died' = died,
           Orderly => /\ AllPriced(row')
                      /\ IF rest = <<>> THEN TalliedBut(row', {}) ELSE TallyScript(row', rest)
    PROVE  TallyInv'
<1> SUFFICES ASSUME Orderly PROVE TallyInv'
  BY DEF TallyInv, Orderly
<1>1. todo'[c] = rest /\ \A d \in Callers \ {c} : todo'[d] = <<>>
  BY DEF SalesInv, OneCall, Idle, Orderly
<1> QED
  BY <1>1 DEF TallyInv, Idle, Quiet

\* The call that runs, by its next statement.
LEMMA TallyHeads ==
    ASSUME NEW tab, NEW q, TallyScript(tab, q)
    PROVE  /\ q # <<>>
           /\ Head(q).do = "update" =>
                \/ /\ TalliedBut(tab, {})
                   /\ \E i, set : /\ q = <<Set(i, set)>>
                                  /\ DOMAIN set \cap (Amounts \cup {"kind", "keys", "totals"}) = {}
                \/ \E i \in Ids : tab[i].kind \in Kinds /\ TalliedBut(tab, {i}) /\ Totalling(tab, i, q)
                \/ \E i \in Ids : /\ tab[i].kind \in Kinds /\ TalliedBut(tab, {i})
                                  /\ \E p, s : /\ q = p \o Recalculate(i, s) /\ Rewriting(i, p)
                                               /\ ShippingKnown(tab, i, p, s) /\ p # <<>>
           /\ Head(q).do = "create" => TalliedBut(tab, {}) /\ \E d : Addable(tab, d) /\ q = <<Insert(d)>>
           /\ Head(q).do = "count" => TalliedBut(tab, {}) /\ \E d : Addable(tab, d) /\ q = <<Count, Insert(d)>>
           /\ Head(q).do = "unless" =>
                TalliedBut(tab, {}) /\ \E d : Addable(tab, d) /\ q = <<Unless(d.source), Count, Insert(d)>>
           /\ Head(q).do \in {"addLines", "setLine"} =>
                \E i \in Ids : /\ tab[i].kind \in Kinds /\ TalliedBut(tab, {i})
                               /\ \E p, s : /\ q = p \o Recalculate(i, s) /\ Rewriting(i, p)
                                            /\ ShippingKnown(tab, i, p, s) /\ p # <<>>
           /\ Head(q).do = "recalculate" =>
                \E i \in Ids : /\ tab[i].kind \in Kinds /\ TalliedBut(tab, {i})
                               /\ \E s : q = Recalculate(i, s) /\ ShippingKnown(tab, i, <<>>, s)
<1>1. CASE Neutral(tab, q) /\ TalliedBut(tab, {})
  <2>1. ASSUME NEW i, NEW set, q = <<Set(i, set)>> PROVE q # <<>> /\ Head(q).do = "update"
    <3>1. PICK e : e = Set(i, set)
      OBVIOUS
    <3> QED
      BY <2>1, <3>1, ShortLists, Statements
  <2>2. CASE \E i, to : q = <<Set(i, [status |-> to])>>
    <3>1. PICK i, to : q = <<Set(i, [status |-> to])>>
      BY <2>2
    <3>2. PICK set : set = [status |-> to]
      OBVIOUS
    <3>3. q = <<Set(i, set)>> /\ DOMAIN set = {"status"}
      BY <3>1, <3>2
    <3>4. DOMAIN set \cap (Amounts \cup {"kind", "keys", "totals"}) = {}
      BY <3>3 DEF Amounts
    <3> QED
      BY <1>1, <2>1, <3>3, <3>4
  <2>3. CASE \E i, b : q = <<Set(i, [deleted |-> b])>>
    <3>1. PICK i, b : q = <<Set(i, [deleted |-> b])>>
      BY <2>3
    <3>2. PICK set : set = [deleted |-> b]
      OBVIOUS
    <3>3. q = <<Set(i, set)>> /\ DOMAIN set = {"deleted"}
      BY <3>1, <3>2
    <3>4. DOMAIN set \cap (Amounts \cup {"kind", "keys", "totals"}) = {}
      BY <3>3 DEF Amounts
    <3> QED
      BY <1>1, <2>1, <3>3, <3>4
  <2>4. ASSUME NEW d, Addable(tab, d), q = <<Insert(d)>> PROVE q # <<>> /\ Head(q).do = "create"
    <3>1. PICK e : e = Insert(d)
      OBVIOUS
    <3> QED
      BY <2>4, <3>1, ShortLists, Statements
  <2>5. ASSUME NEW d, Addable(tab, d), q = <<Count, Insert(d)>> PROVE q # <<>> /\ Head(q).do = "count"
    <3>1. Head(q) = Count /\ q # <<>>
      BY <2>5, ShortLists
    <3> QED
      BY <3>1 DEF Count
  <2>6. ASSUME NEW d, Addable(tab, d), q = <<Unless(d.source), Count, Insert(d)>>
        PROVE  q # <<>> /\ Head(q).do = "unless"
    <3>1. Head(q) = Unless(d.source) /\ q # <<>>
      BY <2>6, ShortLists
    <3> QED
      BY <3>1 DEF Unless
  <2> QED
    BY <1>1, <2>2, <2>3, <2>4, <2>5, <2>6 DEF Neutral
<1>2. ASSUME NEW i \in Ids, tab[i].kind \in Kinds, TalliedBut(tab, {i}), Revising(tab, i, q)
      PROVE  /\ q # <<>>
             /\ \/ /\ Head(q).do = "recalculate"
                   /\ \E s : q = Recalculate(i, s) /\ ShippingKnown(tab, i, <<>>, s)
                \/ /\ Head(q).do \in {"update", "addLines", "setLine"}
                   /\ \E p, s : /\ q = p \o Recalculate(i, s) /\ Rewriting(i, p)
                                /\ ShippingKnown(tab, i, p, s) /\ p # <<>>
  <2>1. PICK p, s : q = p \o Recalculate(i, s) /\ Rewriting(i, p) /\ ShippingKnown(tab, i, p, s)
    BY <1>2 DEF Revising
  <2>2. CASE p = <<>>
    BY <2>1, <2>2, NoMoreEdits
  <2>3. CASE p # <<>>
    <3>1. Head(q) = Head(p) /\ q # <<>> /\ Rewrites(i, Head(p))
      BY ZenonT(60), <2>1, <2>3, RestEdits, RestRewrites
    <3>2. Head(p).do \in {"update", "addLines", "setLine"}
      BY <3>1 DEF Rewrites, Set, AddLines, SetLine
    <3> QED
      BY <2>1, <2>3, <3>1, <3>2
  <2> QED
    BY <2>2, <2>3
<1>3. ASSUME NEW i \in Ids, Totalling(tab, i, q) PROVE q # <<>> /\ Head(q).do = "update"
  <2>1. PICK e : e = Set(i, [totals |-> Summary(tab[i])])
    OBVIOUS
  <2> QED
    BY <1>3, <2>1, ShortLists, Statements DEF Totalling
<1> HIDE DEF Revising, Totalling, Neutral
<1>4. CASE \E i \in Ids : tab[i].kind \in Kinds /\ TalliedBut(tab, {i}) /\ Revising(tab, i, q)
  BY <1>2, <1>4
<1>5. CASE \E i \in Ids : tab[i].kind \in Kinds /\ TalliedBut(tab, {i}) /\ Totalling(tab, i, q)
  BY <1>3, <1>5
<1> QED
  BY <1>1, <1>4, <1>5 DEF TallyScript
-----------------------------------------------------------------------------
\* An edit goes on: the others are left alone, and what is edited is priced.
Revised(tab, then, i) ==
    /\ then[i].kind = tab[i].kind /\ Priced(then[i])
    /\ \A j \in Ids \ {i} : then[j] = tab[j]
LEMMA RevisingGoesOn ==
    ASSUME NEW tab, NEW then, NEW i \in Ids, tab[i].kind \in Kinds, TalliedBut(tab, {i}), AllPriced(tab),
           Revised(tab, then, i), NEW p, NEW s, Rewriting(i, p), p # <<>>, ShippingKnown(tab, i, p, s),
           IF Head(p).do = "update" /\ "shipping" \in DOMAIN Head(p).set
           THEN then[i].shipping = Head(p).set.shipping ELSE then[i].shipping = tab[i].shipping
    PROVE  /\ AllPriced(then) /\ Tail(p) \o Recalculate(i, s) # <<>>
           /\ TallyScript(then, Tail(p) \o Recalculate(i, s))
<1>1. AllPriced(then) /\ TalliedBut(then, {i}) /\ then[i].kind \in Kinds
  BY DEF AllPriced, TalliedBut, Revised
<1>2. PICK S : p \in Seq(S) /\ \A e \in S : Rewrites(i, e)
  BY DEF Rewriting
<1>3. /\ Len(p) \in Nat \ {0} /\ DOMAIN p = 1..Len(p) /\ Tail(p) \in Seq(S) /\ Len(Tail(p)) = Len(p) - 1
      /\ \A k \in 1..Len(Tail(p)) : Tail(p)[k] = p[k + 1]
      /\ DOMAIN Tail(p) = 1..Len(Tail(p)) /\ Head(p) = p[1]
  BY <1>2, EmptySeq, LenProperties, HeadTailProperties
<1>4. ShippingKnown(then, i, Tail(p), s)
  <2>1. CASE tab[i].kind = "quotation"
    BY <2>1 DEF ShippingKnown, Revised
  <2>2. CASE tab[i].kind # "quotation"
    <3>1. /\ tab[i].shipping = s \/ Ships(Head(p), s)
          /\ \A k \in DOMAIN p : KeepsShipping(p[k], s)
      BY <2>2 DEF ShippingKnown
    <3>2. \A k \in DOMAIN Tail(p) : KeepsShipping(Tail(p)[k], s)
      BY <1>3, <3>1
    <3>3. KeepsShipping(Head(p), s)
      BY <1>3, <3>1
    <3>4. then[i].shipping = s
      BY <3>1, <3>3 DEF Ships, KeepsShipping
    <3> QED
      BY <3>2, <3>4 DEF ShippingKnown
  <2> QED
    BY <2>1, <2>2
<1>5. Rewriting(i, Tail(p))
  BY RestRewrites
<1>6. Revising(then, i, Tail(p) \o Recalculate(i, s))
  BY <1>4, <1>5 DEF Revising
<1>7. TallyScript(then, Tail(p) \o Recalculate(i, s))
  BY <1>1, <1>6 DEF TallyScript
<1> QED
  BY <1>1, <1>7, TallyHeads

LEMMA TallyThrows ==
    ASSUME NEW c, Throw(c)
    PROVE  TallyInv'
BY DEF Throw, TallyInv, Orderly

LEMMA TallyUpdates ==
    ASSUME SalesInv, TallyInv, NEW c \in Callers, Update(c)
    PROVE  TallyInv'
<1> DEFINE e == Head(todo[c])
           rest == Tail(todo[c])
<1>1. todo[c] # <<>> /\ e.do = "update" /\ ~Idle(c)
  BY DEF Update, Idle
<1>2. CASE Throw(c)
  BY <1>2, TallyThrows
<1>3. CASE ~Throw(c)
  <2>1. /\ row' = [i \in Ids |-> IF i \in e.ids /\ Exists(i) THEN Merge(row[i], e.set) ELSE row[i]]
        /\ todo' = [todo EXCEPT ![c] = rest] /\ overlapped' = overlapped /\ died' = died
    BY <1>3 DEF Update
  <2>2. ASSUME Orderly
        PROVE  AllPriced(row') /\ IF rest = <<>> THEN TalliedBut(row', {}) ELSE TallyScript(row', rest)
    <3>1. NeatSales(row, restored) /\ TallyScript(row, todo[c]) /\ AllPriced(row)
      BY <1>1, <2>2 DEF SalesInv, TallyInv, Orderly
    <3>2. \A i \in Ids : "kind" \in DOMAIN row[i]
      BY <3>1 DEF NeatSales, OfSales
    <3>3. \A i \in Ids : row[i].kind \in Kinds => Exists(i)
      BY SalesKinds DEF Exists, NoRow, Gone
    <3>4. ASSUME TalliedBut(row, {}), NEW i, NEW set, todo[c] = <<Set(i, set)>>,
                 DOMAIN set \cap (Amounts \cup {"kind", "keys", "totals"}) = {}
          PROVE  AllPriced(row') /\ rest = <<>> /\ TalliedBut(row', {})
      <4>1. rest = <<>> /\ e = Set(i, set)
        <5>1. PICK x : x = Set(i, set)
          OBVIOUS
        <5> QED
          BY <3>4, <5>1, ShortLists
      <4>2. e.set = set
        BY <4>1, Statements
      <4> HIDE DEF e, rest
      <4>3. ASSUME NEW j \in Ids, row'[j].kind \in Kinds PROVE Priced(row'[j]) /\ Tallied(row'[j])
        <5>1. row'[j] = row[j] \/ row'[j] = Merge(row[j], set)
          BY <2>1, <4>2
        <5>2. row'[j].kind = row[j].kind
          BY <3>2, <3>4, <5>1, MergeTells
        <5>3. Priced(row[j]) /\ Tallied(row[j])
          BY <3>1, <3>4, <4>3, <5>2 DEF AllPriced, TalliedBut
        <5> QED
          BY <3>4, <5>1, <5>3, MergeTallies
      <4> QED
        BY <4>1, <4>3 DEF AllPriced, TalliedBut
    <3>5. ASSUME NEW i \in Ids, row[i].kind \in Kinds, TalliedBut(row, {i}), Totalling(row, i, todo[c])
          PROVE  AllPriced(row') /\ rest = <<>> /\ TalliedBut(row', {})
      <4>1. PICK set : set = [totals |-> Summary(row[i])]
        OBVIOUS
      <4>2. rest = <<>> /\ e = Set(i, set)
        <5>1. PICK x : x = Set(i, set)
          OBVIOUS
        <5> QED
          BY <3>5, <4>1, <5>1, ShortLists DEF Totalling
      <4>3. e.set = set /\ e.ids = {i}
        BY <4>2, Statements
      <4> HIDE DEF e, rest
      <4>4. row'[i] = Merge(row[i], set) /\ \A j \in Ids \ {i} : row'[j] = row[j]
        BY <2>1, <3>3, <3>5, <4>3
      <4>5. Tallied(row'[i])
        <5>1. PICK r : r = row[i]
          OBVIOUS
        <5>2. PICK t : t = row'[i]
          OBVIOUS
        <5>3. Priced(r) /\ DOMAIN set = {"totals"} /\ set.totals = Summary(r)
          BY <3>1, <3>5, <4>1, <5>1 DEF AllPriced
        <5>4. DOMAIN t = DOMAIN r /\ \A f \in DOMAIN r : t[f] = IF f \in DOMAIN set THEN set[f] ELSE r[f]
          BY <4>4, <5>1, <5>2, MergeTells
        <5>5. {"lines", "keys", "discountType", "discountValue", "shipping", "totals"} \subseteq DOMAIN r
          BY <5>3 DEF Priced
        <5>6. /\ t.lines = r.lines /\ t.keys = r.keys /\ t.discountType = r.discountType
              /\ t.discountValue = r.discountValue /\ t.shipping = r.shipping /\ t.totals = Summary(r)
          BY <5>3, <5>4, <5>5
        <5>7. Priced(t) /\ Summary(t) = Summary(r)
          BY <5>3, <5>4, <5>5, <5>6 DEF Priced, IsForm, Summary
        <5> QED
          BY <5>2, <5>6, <5>7 DEF Tallied
      <4>6. Priced(row'[i])
        BY <4>5 DEF Tallied
      <4> QED
        BY <3>1, <3>5, <4>2, <4>4, <4>5, <4>6 DEF AllPriced, TalliedBut
    <3>6. ASSUME NEW i \in Ids, row[i].kind \in Kinds, TalliedBut(row, {i}), NEW p, NEW s,
                 todo[c] = p \o Recalculate(i, s), Rewriting(i, p), ShippingKnown(row, i, p, s), p # <<>>
          PROVE  AllPriced(row') /\ rest # <<>> /\ TallyScript(row', rest)
      <4>1. e = Head(p) /\ rest = Tail(p) \o Recalculate(i, s) /\ Rewrites(i, e)
        <5>1. PICK q : q = p \o Recalculate(i, s)
          OBVIOUS
        <5>2. Head(q) = Head(p) /\ Tail(q) = Tail(p) \o Recalculate(i, s)
          BY <3>6, <5>1, RestEdits
        <5>3. Rewrites(i, Head(p)) /\ todo[c] = q
          BY <3>6, <5>1, RestRewrites
        <5> QED
          BY <5>2, <5>3
      <4>2. e.do = "update"
        BY <1>1
      <4> HIDE DEF e, rest
      <4>3. PICK set : e = Set(i, set) /\ AmountsSet(set)
        BY <4>1, <4>2 DEF Rewrites, AddLines, SetLine
      <4>4. e.set = set /\ e.ids = {i}
        BY <4>3, Statements
      <4>5. row'[i] = Merge(row[i], set) /\ \A j \in Ids \ {i} : row'[j] = row[j]
        BY <2>1, <3>3, <3>6, <4>4
      <4>6. Priced(row[i])
        BY <3>1, <3>6 DEF AllPriced
      <4>7. /\ Priced(row'[i]) /\ row'[i].kind = row[i].kind
            /\ "shipping" \in DOMAIN set => row'[i].shipping = set.shipping
            /\ "shipping" \notin DOMAIN set => row'[i].shipping = row[i].shipping
        BY <3>2, <4>3, <4>5, <4>6, MergePrices
      <4>8. Revised(row, row', i)
        BY <4>5, <4>7 DEF Revised
      <4>9. IF Head(p).do = "update" /\ "shipping" \in DOMAIN Head(p).set
            THEN row'[i].shipping = Head(p).set.shipping ELSE row'[i].shipping = row[i].shipping
        BY <4>1, <4>2, <4>4, <4>7
      <4>10. AllPriced(row') /\ Tail(p) \o Recalculate(i, s) # <<>> /\ TallyScript(row', Tail(p) \o Recalculate(i, s))
        BY <3>1, <3>6, <4>8, <4>9, RevisingGoesOn
      <4> QED
        BY <4>1, <4>10
    <3> HIDE DEF rest
    <3>7. PICK q : q = todo[c]
      OBVIOUS
    <3>8. TallyScript(row, q) /\ Head(q).do = "update"
      BY <1>1, <3>1, <3>7
    <3>9. \/ /\ TalliedBut(row, {})
             /\ \E i, set : /\ q = <<Set(i, set)>>
                            /\ DOMAIN set \cap (Amounts \cup {"kind", "keys", "totals"}) = {}
          \/ \E i \in Ids : row[i].kind \in Kinds /\ TalliedBut(row, {i}) /\ Totalling(row, i, q)
          \/ \E i \in Ids : /\ row[i].kind \in Kinds /\ TalliedBut(row, {i})
                            /\ \E p, s : /\ q = p \o Recalculate(i, s) /\ Rewriting(i, p)
                                         /\ ShippingKnown(row, i, p, s) /\ p # <<>>
      BY <3>8, TallyHeads
    <3> QED
      BY <3>4, <3>5, <3>6, <3>7, <3>9
  <2> HIDE DEF e, rest
  <2> QED
    BY <1>1, <2>1, <2>2, TallyExecutes
<1> QED
  BY <1>2, <1>3
LEMMA TallyCreates ==
    ASSUME SalesInv, TallyInv, NEW c \in Callers, Create(c)
    PROVE  TallyInv'
<1>1. ~Idle(c) /\ todo[c] # <<>> /\ Head(todo[c]).do = "create" /\ Room
  BY DEF Create, Idle
<1>2. CASE Throw(c)
  BY <1>2, TallyThrows
<1>3. CASE ~Throw(c)
  <2>1. /\ row' = [row EXCEPT ![NextId] = Head(todo[c]).set] /\ todo' = [todo EXCEPT ![c] = Tail(todo[c])]
        /\ overlapped' = overlapped /\ died' = died
    BY <1>3 DEF Create
  <2>2. ASSUME Orderly PROVE AllPriced(row') /\ Tail(todo[c]) = <<>> /\ TalliedBut(row', {})
    <3>1. TallyScript(row, todo[c]) /\ AllPriced(row) /\ NeatSales(row, restored)
      BY <1>1, <2>2 DEF TallyInv, SalesInv, Orderly
    <3>2. TalliedBut(row, {}) /\ \E d : Addable(row, d) /\ todo[c] = <<Insert(d)>>
      BY <1>1, <3>1, TallyHeads
    <3>3. PICK d : Addable(row, d) /\ todo[c] = <<Insert(d)>>
      BY <3>2
    <3>4. Tail(todo[c]) = <<>> /\ Head(todo[c]).set = d
      <4>1. PICK x : x = Insert(d)
        OBVIOUS
      <4> QED
        BY <3>3, <4>1, ShortLists, Statements
    <3>5. NextId \in Ids
      BY <1>1, NextIsFree
    <3>6. \A i \in Ids : row'[i] = IF i = NextId THEN d ELSE row[i]
      BY <2>1, <3>1, <3>4, <3>5 DEF NeatSales
    <3>7. Tallied(d) /\ Priced(d)
      BY <3>3 DEF Addable, Tallied
    <3> QED
      BY <3>1, <3>2, <3>4, <3>6, <3>7 DEF AllPriced, TalliedBut
  <2> QED
    BY <1>1, <2>1, <2>2, TallyExecutes
<1> QED
  BY <1>2, <1>3

LEMMA NumberedTallies ==
    ASSUME NEW tab, NEW d, Addable(tab, d), NEW m, NEW f, f = [d EXCEPT !.number = m]
    PROVE  Addable(tab, f)
<1>1. DOMAIN f = DOMAIN d /\ \A x \in DOMAIN d : x # "number" => f[x] = d[x]
  OBVIOUS
<1>2. {"lines", "keys", "discountType", "discountValue", "shipping", "totals", "kind", "source"} \subseteq DOMAIN d
  BY DEF Addable, Tallied, Priced
<1>3. /\ f.lines = d.lines /\ f.keys = d.keys /\ f.discountType = d.discountType
      /\ f.discountValue = d.discountValue /\ f.shipping = d.shipping /\ f.totals = d.totals
      /\ f.kind = d.kind /\ f.source = d.source
  BY <1>1, <1>2
<1>4. Tallied(f)
  BY <1>1, <1>2, <1>3 DEF Addable, Tallied, Priced, IsForm, Summary
<1>5. Carries(tab, f)
  BY <1>3 DEF Addable, Carries
<1> QED
  BY <1>1, <1>2, <1>4, <1>5 DEF Addable

LEMMA TallyReads ==
    ASSUME SalesInv, TallyInv, NEW c \in Callers, ReadCount(c) \/ ReadConversions(c)
    PROVE  TallyInv'
<1>1. ~Idle(c) /\ todo[c] # <<>> /\ UNCHANGED <<row, begun, overlapped, died>>
  BY DEF ReadCount, ReadConversions, Read, Idle
<1>2. CASE ReadCount(c)
  <2>1. PICK m : Head(todo[c]).do = "count" /\ todo' = [todo EXCEPT ![c] = [Tail(todo[c]) EXCEPT ![1].set.number = m]]
    BY <1>2 DEF ReadCount, Read
  <2>2. PICK rest : rest = [Tail(todo[c]) EXCEPT ![1].set.number = m]
    OBVIOUS
  <2>3. ASSUME Orderly PROVE AllPriced(row') /\ rest # <<>> /\ TallyScript(row', rest)
    <3>1. TallyScript(row, todo[c]) /\ AllPriced(row)
      BY <1>1, <2>3 DEF TallyInv
    <3>2. TalliedBut(row, {}) /\ \E d : Addable(row, d) /\ todo[c] = <<Count, Insert(d)>>
      BY <2>1, <3>1, TallyHeads
    <3>3. PICK d : Addable(row, d) /\ todo[c] = <<Count, Insert(d)>>
      BY <3>2
    <3>4. PICK e : e = Insert(d)
      OBVIOUS
    <3>5. Tail(todo[c]) = <<e>>
      BY <3>3, <3>4, ShortLists
    <3>6. PICK f : f = [d EXCEPT !.number = m]
      OBVIOUS
    <3>7. [e EXCEPT !.set.number = m] = Insert(f)
      BY <3>4, <3>6 DEF Insert
    <3>8. [<<e>> EXCEPT ![1].set.number = m] = <<[e EXCEPT !.set.number = m]>>
      OBVIOUS
    <3>9. rest = <<Insert(f)>> /\ Addable(row, f)
      BY <2>2, <3>3, <3>5, <3>6, <3>7, <3>8, NumberedTallies
    <3>10. Neutral(row, rest)
      BY <3>9 DEF Neutral
    <3>11. TallyScript(row, rest)
      BY <3>2, <3>10 DEF TallyScript
    <3> QED
      BY <1>1, <3>1, <3>11, TallyHeads
  <2> QED
    BY <1>1, <2>1, <2>2, <2>3, TallyExecutes
<1>3. CASE ReadConversions(c)
  <2>1. PICK rest : /\ Head(todo[c]).do = "unless" /\ todo' = [todo EXCEPT ![c] = rest]
                    /\ rest = <<>> \/ rest = Tail(todo[c])
    BY <1>3 DEF ReadConversions, Read
  <2>2. ASSUME Orderly
        PROVE  AllPriced(row') /\ TalliedBut(row', {}) /\ (rest # <<>> => TallyScript(row', rest))
    <3>1. TallyScript(row, todo[c]) /\ AllPriced(row)
      BY <1>1, <2>2 DEF TallyInv
    <3>2. TalliedBut(row, {}) /\ \E d : Addable(row, d) /\ todo[c] = <<Unless(d.source), Count, Insert(d)>>
      BY <2>1, <3>1, TallyHeads
    <3>3. PICK d : Addable(row, d) /\ todo[c] = <<Unless(d.source), Count, Insert(d)>>
      BY <3>2
    <3>4. Tail(todo[c]) = <<Count, Insert(d)>>
      BY <3>3, ShortLists
    <3>5. rest # <<>> => Neutral(row, rest)
      BY <2>1, <3>3, <3>4 DEF Neutral
    <3> QED
      BY <1>1, <3>1, <3>2, <3>5 DEF TallyScript
  <2> QED
    BY <1>1, <2>1, <2>2, TallyExecutes
<1> QED
  BY <1>2, <1>3

\* Totals are computed of what the document says by then.
LEMMA TallyComputes ==
    ASSUME SalesInv, TallyInv, NEW c \in Callers, ReadTotals(c)
    PROVE  TallyInv'
<1> DEFINE i == Head(todo[c]).id
           r == row[i]
           totals == calculateSummary(r.lines, r.discountType, r.discountValue,
                                      IF r.kind = "quotation" THEN r.shipping ELSE Head(todo[c]).shipping)
           rest == [Tail(todo[c]) EXCEPT ![1].set.totals = totals]
<1>1. /\ ~Idle(c) /\ todo[c] # <<>> /\ Head(todo[c]).do = "recalculate"
      /\ UNCHANGED <<row, begun, overlapped, died>> /\ todo' = [todo EXCEPT ![c] = rest]
  BY DEF ReadTotals, Read, Idle
<1> HIDE DEF totals
<1>2. ASSUME Orderly PROVE AllPriced(row') /\ rest # <<>> /\ TallyScript(row', rest)
  <2>1. TallyScript(row, todo[c]) /\ AllPriced(row)
    BY <1>1, <1>2 DEF TallyInv
  <2>2. PICK n \in Ids : /\ row[n].kind \in Kinds /\ TalliedBut(row, {n})
                         /\ \E s : todo[c] = Recalculate(n, s) /\ ShippingKnown(row, n, <<>>, s)
    BY <1>1, <2>1, TallyHeads
  <2>3. PICK s : todo[c] = Recalculate(n, s) /\ ShippingKnown(row, n, <<>>, s)
    BY <2>2
  <2>4. i = n /\ Head(todo[c]).shipping = s /\ Tail(todo[c]) = <<Set(n, [totals |-> 0])>>
    BY <2>3, NoMoreEdits
  <2>5. totals = Summary(row[n])
    BY <2>3, <2>4 DEF totals, ShippingKnown, Summary
  <2>6. PICK e : e = Set(n, [totals |-> 0])
    OBVIOUS
  <2>7. [e EXCEPT !.set.totals = totals] = Set(n, [totals |-> totals])
    BY <2>6 DEF Set
  <2>8. [<<e>> EXCEPT ![1].set.totals = totals] = <<[e EXCEPT !.set.totals = totals]>>
    OBVIOUS
  <2>9. rest = <<Set(n, [totals |-> totals])>>
    BY <2>4, <2>6, <2>7, <2>8
  <2>10. Totalling(row, n, rest)
    BY <2>5, <2>9 DEF Totalling
  <2> HIDE DEF rest
  <2>11. TallyScript(row, rest)
    BY <2>2, <2>10 DEF TallyScript
  <2> QED
    BY <1>1, <2>1, <2>11, TallyHeads
<1> HIDE DEF rest
<1> QED
  BY <1>1, <1>2, TallyExecutes
-----------------------------------------------------------------------------
\* A line taken out of a list.
LEMMA RemovedLines ==
    ASSUME NEW S, NEW l \in Seq(S), NEW k \in DOMAIN l
    PROVE  RemoveAt(l, k) \in Seq(S)
<1>1. DOMAIN l = 1..Len(l) /\ Len(l) \in Nat /\ k \in 1..Len(l)
  BY LenProperties
<1>2. \A j \in 1..Len(l) : l[j] \in S
  BY ElementOfSeq
<1>3. PICK m, n : m = k - 1 /\ n = k + 1
  OBVIOUS
<1>4. m \in Int /\ n \in Int /\ Len(l) \in Int /\ m < Len(l) /\ n > 0
  BY <1>1, <1>3
<1>5. (\A j \in 1..m : l[j] \in S) /\ (\A j \in n..Len(l) : l[j] \in S)
  BY <1>2, <1>4
<1>6. SubSeq(l, 1, m) \in Seq(S) /\ SubSeq(l, n, Len(l)) \in Seq(S)
  BY <1>4, <1>5, SubSeqProperties
<1>7. SubSeq(l, 1, m) \o SubSeq(l, n, Len(l)) \in Seq(S)
  BY <1>6, ConcatProperties
<1> QED
  BY <1>3, <1>7 DEF RemoveAt

\* Lines are written into the document that is edited.
LEMMA TallyRelines ==
    ASSUME SalesInv, TallyInv, NEW c \in Callers, ~Idle(c), Head(todo[c]).do \in {"addLines", "setLine"},
           NEW n, n = Head(todo[c]).id, NEW lines, NEW keys,
           row' = [row EXCEPT ![n] = [row[n] EXCEPT !.lines = lines, !.keys = keys]],
           todo' = [todo EXCEPT ![c] = Tail(todo[c])], overlapped' = overlapped, died' = died,
           Orderly /\ n \in Ids /\ Priced(row[n]) /\ Rewrites(n, Head(todo[c])) =>
               lines \in Seq(LineItems) /\ keys \in Nat
    PROVE  TallyInv'
<1>1. ASSUME Orderly PROVE AllPriced(row') /\ Tail(todo[c]) # <<>> /\ TallyScript(row', Tail(todo[c]))
  <2>1. TallyScript(row, todo[c]) /\ AllPriced(row) /\ NeatSales(row, restored)
    BY <1>1 DEF TallyInv, SalesInv, Orderly
  <2>2. PICK i \in Ids : /\ row[i].kind \in Kinds /\ TalliedBut(row, {i})
                         /\ \E p, s : /\ todo[c] = p \o Recalculate(i, s) /\ Rewriting(i, p)
                                      /\ ShippingKnown(row, i, p, s) /\ p # <<>>
    BY <2>1, TallyHeads
  <2>3. PICK p, s : /\ todo[c] = p \o Recalculate(i, s) /\ Rewriting(i, p)
                    /\ ShippingKnown(row, i, p, s) /\ p # <<>>
    BY SMTT(60), <2>2
  <2>4. PICK e : e = Head(p)
    OBVIOUS
  <2>5. PICK q : q = p \o Recalculate(i, s)
    OBVIOUS
  <2>6. Head(q) = e /\ Tail(q) = Tail(p) \o Recalculate(i, s) /\ Rewrites(i, e)
    BY ZenonT(60), <2>3, <2>4, <2>5, RestEdits, RestRewrites
  <2>7. Head(todo[c]) = e /\ Tail(todo[c]) = Tail(p) \o Recalculate(i, s)
    BY <2>3, <2>5, <2>6
  <2>8. e.id = i /\ e.do # "update"
    BY <2>6, <2>7 DEF Rewrites, Set, AddLines, SetLine
  <2>9. n = i /\ Priced(row[n])
    BY <2>1, <2>2, <2>7, <2>8 DEF AllPriced
  <2>10. lines \in Seq(LineItems) /\ keys \in Nat
    BY SMTT(60), <1>1, <2>6, <2>7, <2>9
  <2>11. PICK r, t : r = row[n] /\ t = [r EXCEPT !.lines = lines, !.keys = keys]
    OBVIOUS
  <2>12. row'[n] = t /\ \A j \in Ids \ {n} : row'[j] = row[j]
    BY <2>1, <2>9, <2>11 DEF NeatSales
  <2>13. DOMAIN t = DOMAIN r /\ \A f \in DOMAIN r : f \notin {"lines", "keys"} => t[f] = r[f]
    BY <2>11
  <2>14. {"kind", "lines", "keys", "discountType", "discountValue", "shipping", "totals"} \subseteq DOMAIN r
    BY <2>1, <2>9, <2>11 DEF Priced, NeatSales, OfSales
  <2>15. t.lines = lines /\ t.keys = keys
    BY <2>11, <2>14
  <2>16. /\ t.kind = r.kind /\ t.discountType = r.discountType /\ t.discountValue = r.discountValue
         /\ t.shipping = r.shipping
    BY <2>13, <2>14
  <2>17. Priced(t)
    BY <2>9, <2>10, <2>11, <2>13, <2>14, <2>15, <2>16 DEF Priced, IsForm
  <2>18. Revised(row, row', n)
    BY <2>11, <2>12, <2>16, <2>17 DEF Revised
  <2>19. row'[n].shipping = row[n].shipping
    BY <2>11, <2>12, <2>16
  <2>20. Head(p).do # "update"
    BY SMTT(60), <2>4, <2>8
  <2>21. AllPriced(row') /\ Tail(p) \o Recalculate(i, s) # <<>> /\ TallyScript(row', Tail(p) \o Recalculate(i, s))
    BY <2>1, <2>2, <2>3, <2>9, <2>18, <2>19, <2>20, RevisingGoesOn
  <2> QED
    BY <2>7, <2>21
<1> QED
  BY <1>1, TallyExecutes

LEMMA RewritesTell ==
    ASSUME NEW i, NEW e, Rewrites(i, e)
    PROVE  /\ e.do = "addLines" => e.lines \in Seq(LineItems)
           /\ e.do = "setLine" => e.key \in Nat /\ (e.item = <<>> \/ e.item \in LineItems)
<1>1. CASE \E set : e = Set(i, set)
  BY <1>1, Statements
<1>2. CASE \E lines \in Seq(LineItems) : e = AddLines(i, lines)
  <2>1. PICK lines \in Seq(LineItems) : e = AddLines(i, lines)
    BY <1>2
  <2>2. e.do = "addLines" /\ e.lines = lines
    BY <2>1 DEF AddLines
  <2> QED
    BY <2>2
<1>3. CASE \E key \in Nat : \E item : e = SetLine(i, key, item) /\ (item = <<>> \/ item \in LineItems)
  <2>1. PICK key \in Nat : \E item : e = SetLine(i, key, item) /\ (item = <<>> \/ item \in LineItems)
    BY <1>3
  <2>2. PICK item : e = SetLine(i, key, item) /\ (item = <<>> \/ item \in LineItems)
    BY <2>1
  <2>3. e.do = "setLine" /\ e.key = key /\ e.item = item
    BY <2>2 DEF SetLine
  <2> QED
    BY <2>2, <2>3
<1> QED
  BY <1>1, <1>2, <1>3 DEF Rewrites

LEMMA TallyLines ==
    ASSUME SalesInv, TallyInv, NEW c \in Callers, InsertLines(c) \/ WriteLine(c)
    PROVE  TallyInv'
<1>1. CASE InsertLines(c)
  <2> DEFINE s == Head(todo[c])
             r == row[s.id]
             new == [k \in DOMAIN s.lines |-> [s.lines[k] EXCEPT !.key = r.keys + k]]
  <2>1. /\ ~Idle(c) /\ s.do = "addLines" /\ todo' = [todo EXCEPT ![c] = Tail(todo[c])]
        /\ overlapped' = overlapped /\ died' = died
        /\ row' = [row EXCEPT ![s.id] = [r EXCEPT !.lines = r.lines \o new, !.keys = r.keys + Len(new)]]
    BY <1>1 DEF InsertLines
  <2>2. ASSUME Priced(r), Rewrites(s.id, s) PROVE r.lines \o new \in Seq(LineItems) /\ r.keys + Len(new) \in Nat
    <3>1. s.lines \in Seq(LineItems)
      BY <2>1, <2>2, RewritesTell
    <3>2. r.lines \in Seq(LineItems) /\ r.keys \in Nat
      BY <2>2 DEF Priced, IsForm
    <3> HIDE DEF s, r
    <3>3. DOMAIN s.lines = 1..Len(s.lines) /\ Len(s.lines) \in Nat
      BY <3>1, LenProperties
    <3>4. ASSUME NEW k \in DOMAIN s.lines PROVE new[k] \in LineItems
      <4>1. PICK x : x = s.lines[k]
        OBVIOUS
      <4>2. PICK y : y = r.keys + k
        OBVIOUS
      <4>3. x \in LineItems
        BY <3>1, <3>3, <4>1, ElementOfSeq
      <4>4. y \in Nat
        BY <3>2, <3>3, <4>2
      <4>5. [x EXCEPT !.key = y] \in LineItems
        BY <4>3, <4>4 DEF LineItems
      <4>6. new[k] = [x EXCEPT !.key = y]
        BY <4>1, <4>2
      <4> QED
        BY <4>5, <4>6
    <3>5. new \in [1..Len(s.lines) -> LineItems]
      BY <3>3, <3>4
    <3> HIDE DEF new
    <3>6. new \in Seq(LineItems)
      BY <3>3, <3>5
    <3>7. Len(new) \in Nat
      BY <3>6, LenProperties
    <3> QED
      BY <3>2, <3>6, <3>7, ConcatProperties
  <2> HIDE DEF new
  <2> QED
    BY ZenonT(60), <2>1, <2>2, TallyRelines
<1>2. CASE WriteLine(c)
  <2> DEFINE s == Head(todo[c])
             r == row[s.id]
             at == Line(s.id, s.key)
             k == CHOOSE k \in at : TRUE
             l == IF s.item = <<>> THEN RemoveAt(r.lines, k) ELSE [r.lines EXCEPT ![k] = [s.item EXCEPT !.key = s.key]]
  <2>1. ~Idle(c) /\ s.do = "setLine" /\ overlapped' = overlapped
    BY <1>2 DEF WriteLine
  <2>2. CASE at = {}
    <3>1. died' = TRUE
      BY <1>2, <2>2 DEF WriteLine
    <3> QED
      BY <3>1 DEF TallyInv, Orderly
  <2>3. CASE at # {}
    <3>1. /\ todo' = [todo EXCEPT ![c] = Tail(todo[c])] /\ died' = died
          /\ row' = [row EXCEPT ![s.id].lines = l]
      BY <1>2, <2>3 DEF WriteLine
    <3>2. ASSUME Priced(r), Rewrites(s.id, s) PROVE l \in Seq(LineItems) /\ r.keys \in Nat
      <4>1. r.lines \in Seq(LineItems) /\ r.keys \in Nat
        BY <3>2 DEF Priced, IsForm
      <4>2. k \in DOMAIN r.lines
        BY <2>3 DEF Line
      <4>3. s.key \in Nat /\ (s.item = <<>> \/ s.item \in LineItems)
        BY <2>1, <3>2, RewritesTell
      <4> HIDE DEF s, r, k
      <4>4. CASE s.item = <<>>
        BY <4>1, <4>2, <4>4, RemovedLines
      <4>5. CASE s.item # <<>>
        <5>1. PICK x : x = [s.item EXCEPT !.key = s.key]
          OBVIOUS
        <5>2. x \in LineItems
          BY <4>3, <4>5, <5>1 DEF LineItems
        <5>3. k \in 1..Len(r.lines)
          BY <4>1, <4>2, LenProperties
        <5>4. [r.lines EXCEPT ![k] = x] \in Seq(LineItems)
          BY <4>1, <5>2, <5>3, ExceptSeq
        <5> QED
          BY <4>1, <4>5, <5>1, <5>4
      <4> QED
        BY <4>4, <4>5
    <3> HIDE DEF l
    <3>3. PICK x : x = r
      OBVIOUS
    <3>4. [x EXCEPT !.lines = l] = [x EXCEPT !.lines = l, !.keys = x.keys]
      OBVIOUS
    <3>5. row' = [row EXCEPT ![s.id] = [x EXCEPT !.lines = l]]
      BY <3>1, <3>3
    <3>6. row' = [row EXCEPT ![s.id] = [r EXCEPT !.lines = l, !.keys = r.keys]]
      BY <3>3, <3>4, <3>5
    <3> HIDE DEF at, k
    <3>7. PICK keys : keys = r.keys
      OBVIOUS
    <3>8. PICK n : n = Head(todo[c]).id
      OBVIOUS
    <3>9. row' = [row EXCEPT ![n] = [row[n] EXCEPT !.lines = l, !.keys = keys]]
      BY <3>6, <3>7, <3>8
    <3>10. Priced(row[n]) /\ Rewrites(n, Head(todo[c])) => l \in Seq(LineItems) /\ keys \in Nat
      BY <3>2, <3>7, <3>8
    <3>11. /\ ~Idle(c) /\ Head(todo[c]).do \in {"addLines", "setLine"}
           /\ todo' = [todo EXCEPT ![c] = Tail(todo[c])] /\ overlapped' = overlapped /\ died' = died
      BY <2>1, <3>1
    <3>12. PICK lines : lines = l
      OBVIOUS
    <3>13. row' = [row EXCEPT ![n] = [row[n] EXCEPT !.lines = lines, !.keys = keys]]
      BY <3>9, <3>12
    <3>14. Priced(row[n]) /\ Rewrites(n, Head(todo[c])) => lines \in Seq(LineItems) /\ keys \in Nat
      BY <3>10, <3>12
    <3> HIDE DEF s, r
    <3> QED
      BY ZenonT(60), <3>8, <3>11, <3>13, <3>14, TallyRelines
  <2> QED
    BY SMTT(60), <2>2, <2>3
<1> QED
  BY <1>1, <1>2
-----------------------------------------------------------------------------
\* What a call that begins is left with: a document that is made of a form,
LEMMA TallyInserts ==
    ASSUME SalesInv, TallyInv, NEW c \in Callers, NEW kind, NEW form, NEW source, NEW d,
           d = Document(kind, form, source),
           \/ BeginInsert(c, <<Count, Insert(d)>>)
           \/ BeginInsert(c, <<Unless(source), Count, Insert(d)>>),
           Orderly /\ AllPriced(row) /\ TalliedBut(row, {}) => IsForm(form) /\ (source # 0 => Carries(row, d))
    PROVE  TallyInv'
<1>1. ASSUME Orderly, AllPriced(row), TalliedBut(row, {}) PROVE Addable(row, d) /\ d.source = source
  <2>1. IsForm(form) /\ (source # 0 => Carries(row, d))
    BY <1>1
  <2>2. Tallied(d) /\ d.source = source /\ {"kind", "source"} \subseteq DOMAIN d
    BY <2>1, DocumentsTally
  <2> QED
    BY <2>1, <2>2 DEF Addable, Carries
<1>2. ASSUME NEW st, Begin(c, st), st = <<Count, Insert(d)>> \/ st = <<Unless(source), Count, Insert(d)>>
      PROVE  TallyInv'
  <2>1. ASSUME Orderly, AllPriced(row), TalliedBut(row, {}) PROVE TallyScript(row, st)
    <3>1. Addable(row, d) /\ d.source = source
      BY <1>1, <2>1
    <3>2. Neutral(row, st)
      BY <1>2, <3>1 DEF Neutral
    <3> QED
      BY <2>1, <3>2 DEF TallyScript
  <2> QED
    BY <1>2, <2>1, TallyBegins
<1> QED
  BY <1>2 DEF BeginInsert

\* or of another document, for which it asks the same,
LEMMA ConversionsCarry ==
    ASSUME NEW i \in Ids, row[i].kind \in Kinds, Tallied(row[i]), NEW kind, NEW d,
           d = Document(kind, Undiscounted(FormOf(i)), i)
    PROVE  Carries(row, d)
<1>1. PICK r : r = row[i]
  OBVIOUS
<1>2. PICK f : f = Undiscounted(FormOf(i))
  OBVIOUS
<1>3. f.lines = r.lines /\ f.discountType = "null" /\ f.discountValue = 0 /\ f.shipping = r.shipping
  BY <1>1, <1>2 DEF Undiscounted, FormOf
<1>4. IsForm(f)
  BY <1>2, FormsOfDocuments DEF Tallied
<1>5. d.totals = calculateSummary(r.lines, "null", 0, r.shipping) /\ d.source = i
  BY <1>2, <1>3, <1>4, DocumentsTally
<1>6. r.totals = calculateSummary(r.lines, r.discountType, r.discountValue, r.shipping)
  BY <1>1 DEF Tallied, Summary
<1>7. d.totals.subtotal = r.totals.subtotal
  BY <1>5, <1>6 DEF calculateSummary
<1>8. r.discountType = "null" => d.totals.grandTotal = r.totals.grandTotal
  BY <1>5, <1>6 DEF calculateSummary, headerDiscount
<1> QED
  BY <1>1, <1>5, <1>7, <1>8 DEF Carries

LEMMA NewTallies ==
    ASSUME SalesInv, TallyInv, NEW c \in Callers, NEW kind, NEW form, New(c, kind, form),
           Orderly /\ AllPriced(row) /\ TalliedBut(row, {}) => IsForm(form)
    PROVE  TallyInv'
<1>1. PICK d : d = Document(kind, form, 0)
  OBVIOUS
<1>2. BeginInsert(c, <<Count, Insert(d)>>)
  BY <1>1 DEF New
<1> QED
  BY <1>1, <1>2, TallyInserts

LEMMA DuplicatesTally ==
    ASSUME SalesInv, TallyInv, NEW c \in Callers, NEW i \in Ids, NEW kind, row[i].kind \in Kinds,
           New(c, kind, FormOf(i)) \/ New(c, kind, Undiscounted(FormOf(i)))
    PROVE  TallyInv'
<1>1. AllPriced(row) => IsForm(FormOf(i)) /\ IsForm(Undiscounted(FormOf(i)))
  BY FormsOfDocuments DEF AllPriced
<1> QED
  BY <1>1, NewTallies

LEMMA ConvertTallies ==
    ASSUME SalesInv, TallyInv, NEW c \in Callers, NEW i \in Ids, NEW kind, row[i].kind \in Kinds,
           BeginInsert(c, <<Unless(i), Count, Insert(Document(kind, Undiscounted(FormOf(i)), i))>>)
    PROVE  TallyInv'
<1>1. PICK d : d = Document(kind, Undiscounted(FormOf(i)), i)
  OBVIOUS
<1>2. AllPriced(row) /\ TalliedBut(row, {}) => IsForm(Undiscounted(FormOf(i))) /\ Carries(row, d)
  BY <1>1, FormsOfDocuments, ConversionsCarry DEF AllPriced, TalliedBut
<1> QED
  BY <1>1, <1>2, TallyInserts

\* or an edit,
LEMMA EditTallies ==
    ASSUME SalesInv, TallyInv, NEW c \in Callers, NEW i \in Ids, row[i].kind \in Kinds,
           NEW fields, NEW lines, NEW shipping, Edit(c, i, fields, lines, shipping),
           AmountsSet(fields), lines \in Seq(LineItems),
           row[i].kind = "quotation" \/ fields = [shipping |-> shipping]
    PROVE  TallyInv'
<1> DEFINE mid == IF lines = <<>> THEN <<>> ELSE <<Set(i, [lines |-> <<>>]), AddLines(i, lines)>>
<1>1. PICK e, f, g : e = Set(i, fields) /\ f = Set(i, [lines |-> <<>>]) /\ g = AddLines(i, lines)
  OBVIOUS
<1>2. PICK T : T = {e, f, g}
  OBVIOUS
<1>3. PICK q : q = mid
  OBVIOUS
<1>4. q \in Seq(T)
  <2>1. <<f, g>> \in Seq(T) /\ <<>> \in Seq(T)
    BY <1>2
  <2> QED
    BY <1>1, <1>3, <2>1
<1> HIDE DEF mid
<1>5. PICK o : o = <<e>>
  OBVIOUS
<1>6. o \in Seq(T) /\ o # <<>> /\ Head(o) = e
  BY <1>2, <1>5, ShortLists
<1>7. PICK p : p = o \o q
  OBVIOUS
<1>8. p \in Seq(T) /\ Head(p) = e /\ p # <<>>
  BY <1>4, <1>6, <1>7, ConcatProperties, ConcatEqualIffEmpty, JoinedTail
<1>9. Begin(c, p \o Recalculate(i, shipping))
  BY <1>1, <1>3, <1>5, <1>7 DEF Edit, mid
<1>10. Rewrites(i, e) /\ Rewrites(i, f) /\ Rewrites(i, g)
  <2>1. PICK set : set = [lines |-> <<>>]
    OBVIOUS
  <2>2. AmountsSet(set)
    BY <2>1, EmptySeq DEF AmountsSet, Amounts
  <2> QED
    BY <1>1, <2>1, <2>2 DEF Rewrites
<1>11. Rewriting(i, p)
  BY <1>2, <1>8, <1>10 DEF Rewriting
<1>12. ShippingKnown(row, i, p, shipping)
  <2>1. ASSUME fields = [shipping |-> shipping]
        PROVE  /\ Ships(e, shipping) /\ KeepsShipping(e, shipping) /\ KeepsShipping(f, shipping)
               /\ KeepsShipping(g, shipping)
    <3>1. e.do = "update" /\ e.set = fields
      BY <1>1, Statements
    <3>2. Ships(e, shipping) /\ KeepsShipping(e, shipping)
      BY <2>1, <3>1 DEF Ships, KeepsShipping
    <3>3. PICK set : set = [lines |-> <<>>]
      OBVIOUS
    <3>4. f.set = set /\ DOMAIN set = {"lines"}
      BY <1>1, <3>3, Statements
    <3>5. KeepsShipping(f, shipping)
      BY <3>4 DEF KeepsShipping
    <3>6. g.do = "addLines"
      BY <1>1 DEF AddLines
    <3>7. KeepsShipping(g, shipping)
      BY <3>6 DEF KeepsShipping
    <3> QED
      BY <3>2, <3>5, <3>7
  <2>2. \A k \in DOMAIN p : p[k] \in T
    BY <1>8, LenProperties, ElementOfSeq
  <2>3. ASSUME fields = [shipping |-> shipping]
        PROVE  Ships(Head(p), shipping) /\ \A k \in DOMAIN p : KeepsShipping(p[k], shipping)
    BY <1>2, <1>8, <2>1, <2>2, <2>3
  <2> QED
    BY <1>8, <2>3 DEF ShippingKnown
<1>13. Revising(row, i, p \o Recalculate(i, shipping))
  BY <1>11, <1>12 DEF Revising
<1>14. TalliedBut(row, {}) => TalliedBut(row, {i})
  BY DEF TalliedBut
<1>15. TalliedBut(row, {}) => TallyScript(row, p \o Recalculate(i, shipping))
  BY <1>13, <1>14 DEF TallyScript
<1> QED
  BY <1>9, <1>15, TallyBegins
LEMMA FormsTally ==
    ASSUME NEW f \in Forms, NEW lines \in {<<>>, f.lines}
    PROVE  lines \in Seq(LineItems) /\ f.shipping \in Nat
BY UndiscountedForms, EmptySeq DEF IsForm

LEMMA UpdatesTally ==
    ASSUME SalesInv, TallyInv, NEW c \in Callers, NEW i \in Ids,
           UpdateQuotation(c, i) \/ UpdateOrder(c, i) \/ UpdateInvoice(c, i)
    PROVE  TallyInv'
<1>1. CASE UpdateQuotation(c, i)
  <2>1. row[i].kind = "quotation"
    BY <1>1 DEF UpdateQuotation, Editable, Found
  <2>2. PICK f \in Forms : \E lines \in {<<>>, f.lines} :
           Edit(c, i, [discountType |-> f.discountType, discountValue |-> f.discountValue,
                       shipping |-> f.shipping], lines, 0)
    BY <1>1 DEF UpdateQuotation
  <2>3. PICK fields : fields = [discountType |-> f.discountType, discountValue |-> f.discountValue,
                                shipping |-> f.shipping]
    OBVIOUS
  <2>4. AmountsSet(fields)
    BY <2>3, UndiscountedForms DEF AmountsSet, Amounts, IsForm
  <2>5. PICK lines \in {<<>>, f.lines} : Edit(c, i, fields, lines, 0)
    BY <2>2, <2>3
  <2> QED
    BY <2>1, <2>4, <2>5, FormsTally, EditTallies, SalesKinds
<1>2. CASE UpdateOrder(c, i) \/ UpdateInvoice(c, i)
  <2>1. row[i].kind \in Kinds
    BY <1>2, SalesKinds DEF UpdateOrder, UpdateInvoice, Editable, Found
  <2>2. PICK f \in Forms : \E lines \in {<<>>, f.lines} : Edit(c, i, [shipping |-> f.shipping], lines, f.shipping)
    BY <1>2 DEF UpdateOrder, UpdateInvoice
  <2>3. PICK lines \in {<<>>, f.lines} : Edit(c, i, [shipping |-> f.shipping], lines, f.shipping)
    BY <2>2
  <2>4. PICK fields : fields = [shipping |-> f.shipping]
    OBVIOUS
  <2>5. f.shipping \in Nat /\ lines \in Seq(LineItems)
    BY FormsTally
  <2>6. AmountsSet(fields)
    BY <2>4, <2>5 DEF AmountsSet, Amounts
  <2> QED
    BY <2>1, <2>3, <2>4, <2>5, <2>6, EditTallies
<1> QED
  BY <1>1, <1>2

\* or an operation on a single line,
LEMMA ItemsTally ==
    ASSUME SalesInv, TallyInv, NEW c \in Callers, NEW i \in Ids,
           AddItem(c, i) \/ UpdateItem(c, i) \/ DeleteItem(c, i)
    PROVE  TallyInv'
<1>1. row[i].kind = "quotation" /\ row[i].kind \in Kinds
  BY SalesKinds DEF AddItem, UpdateItem, DeleteItem, Editable, Found
<1>2. ASSUME NEW e, AllPriced(row) => Rewrites(i, e), Begin(c, <<e>> \o Recalculate(i, 0)) PROVE TallyInv'
  <2>1. PICK p : p = <<e>>
    OBVIOUS
  <2>2. PICK T : T = {e}
    OBVIOUS
  <2>3. p \in Seq(T)
    BY <2>1, <2>2
  <2>4. AllPriced(row) => Rewriting(i, p)
    BY <1>2, <2>2, <2>3 DEF Rewriting
  <2>5. ShippingKnown(row, i, p, 0)
    BY <1>1 DEF ShippingKnown
  <2>6. AllPriced(row) => Revising(row, i, p \o Recalculate(i, 0))
    BY <2>4, <2>5 DEF Revising
  <2>7. TalliedBut(row, {}) => TalliedBut(row, {i})
    BY DEF TalliedBut
  <2>8. AllPriced(row) /\ TalliedBut(row, {}) => TallyScript(row, p \o Recalculate(i, 0))
    BY <1>1, <2>6, <2>7 DEF TallyScript
  <2>9. Begin(c, p \o Recalculate(i, 0))
    BY <1>2, <2>1
  <2> QED
    BY <2>8, <2>9, TallyBegins
<1>3. CASE AddItem(c, i)
  <2>1. PICK l \in Items : Begin(c, <<AddLines(i, <<l>>)>> \o Recalculate(i, 0))
    BY <1>3 DEF AddItem
  <2>2. l \in LineItems
    BY SalesAssumption
  <2>3. <<l>> \in Seq(LineItems)
    BY <2>2
  <2>4. PICK e : e = AddLines(i, <<l>>)
    OBVIOUS
  <2>5. Rewrites(i, e)
    BY <2>3, <2>4 DEF Rewrites
  <2> QED
    BY <1>2, <2>1, <2>4, <2>5
<1>4. ASSUME NEW k \in DOMAIN row[i].lines, AllPriced(row) PROVE row[i].lines[k].key \in Nat
  <2>1. PICK lines : lines = row[i].lines
    OBVIOUS
  <2>2. lines \in Seq(LineItems)
    BY <1>1, <1>4, <2>1 DEF AllPriced, Priced, IsForm
  <2>3. lines[k] \in LineItems
    BY <1>4, <2>1, <2>2, LenProperties, ElementOfSeq
  <2> QED
    BY <2>1, <2>3 DEF LineItems
<1>5. CASE UpdateItem(c, i)
  <2>1. PICK k \in DOMAIN row[i].lines, l \in Items : Begin(c, <<SetLine(i, row[i].lines[k].key, l)>> \o Recalculate(i, 0))
    BY <1>5 DEF UpdateItem
  <2>2. l \in LineItems
    BY SalesAssumption
  <2>3. PICK e : e = SetLine(i, row[i].lines[k].key, l)
    OBVIOUS
  <2>4. AllPriced(row) => Rewrites(i, e)
    BY <1>4, <2>2, <2>3 DEF Rewrites
  <2> QED
    BY <1>2, <2>1, <2>3, <2>4
<1>6. CASE DeleteItem(c, i)
  <2>1. PICK k \in DOMAIN row[i].lines : Begin(c, <<SetLine(i, row[i].lines[k].key, <<>>)>> \o Recalculate(i, 0))
    BY <1>6 DEF DeleteItem
  <2>2. PICK e : e = SetLine(i, row[i].lines[k].key, <<>>)
    OBVIOUS
  <2>3. AllPriced(row) => Rewrites(i, e)
    BY SMTT(60), <1>4, <2>2 DEF Rewrites
  <2> QED
    BY <1>2, <2>1, <2>2, <2>3
<1> QED
  BY <1>3, <1>5, <1>6

\* or what is no amount.
LEMMA ChangesTally ==
    ASSUME SalesInv, TallyInv, NEW c \in Callers, NEW i,
           \/ \E kind, to : ChangeStatus(c, i, kind, to)
           \/ SetDeleted(c, i) \/ \E kind : Restore(c, i, kind)
    PROVE  TallyInv'
<1>1. ASSUME NEW st, Begin(c, st), \/ \E to : st = <<Set(i, [status |-> to])>>
                                   \/ \E b : st = <<Set(i, [deleted |-> b])>>
      PROVE  TallyInv'
  <2>1. Neutral(row, st)
    BY <1>1 DEF Neutral
  <2> QED
    BY <1>1, <2>1, TallyBegins DEF TallyScript
<1>2. CASE \E kind, to : ChangeStatus(c, i, kind, to)
  BY <1>1, <1>2 DEF ChangeStatus
<1>3. CASE SetDeleted(c, i)
  BY <1>1, <1>3 DEF SetDeleted
<1>4. CASE \E kind : Restore(c, i, kind)
  BY <1>1, <1>4 DEF Restore
<1> QED
  BY <1>2, <1>3, <1>4

LEMMA QuotationsTally ==
    ASSUME SalesInv, TallyInv, NEW c \in Callers, QuotationCall(c)
    PROVE  TallyInv'
<1>1. CASE CreateQuotation(c)
  BY <1>1, UndiscountedForms, NewTallies DEF CreateQuotation
<1>2. ASSUME NEW i \in Ids, DuplicateQuotation(c, i) PROVE TallyInv'
  BY <1>2, DuplicatesTally, SalesKinds DEF DuplicateQuotation, Found
<1>3. ASSUME NEW i \in Ids, UpdateQuotation(c, i) \/ AddItem(c, i) \/ UpdateItem(c, i) \/ DeleteItem(c, i)
      PROVE  TallyInv'
  BY <1>3, UpdatesTally, ItemsTally
<1>4. ASSUME NEW i \in Ids, SendQuotation(c, i) \/ AcceptQuotation(c, i) \/ RejectQuotation(c, i)
                             \/ CancelQuotation(c, i) \/ ArchiveQuotation(c, i)
                             \/ RestoreQuotation(c, i) \/ DeleteQuotation(c, i)
      PROVE  TallyInv'
  BY <1>4, ChangesTally DEF SendQuotation, AcceptQuotation, RejectQuotation, CancelQuotation,
                           ArchiveQuotation, RestoreQuotation, DeleteQuotation
<1> QED
  BY <1>1, <1>2, <1>3, <1>4 DEF QuotationCall

LEMMA OrdersTally ==
    ASSUME SalesInv, TallyInv, NEW c \in Callers, OrderCall(c)
    PROVE  TallyInv'
<1>1. CASE CreateOrder(c)
  BY <1>1, UndiscountedForms, NewTallies DEF CreateOrder
<1>2. ASSUME NEW i \in Ids, DuplicateOrder(c, i) PROVE TallyInv'
  BY <1>2, DuplicatesTally, SalesKinds DEF DuplicateOrder, Found
<1>3. ASSUME NEW i \in Ids, ConvertFromQuotation(c, i) PROVE TallyInv'
  BY <1>3, ConvertTallies, SalesKinds DEF ConvertFromQuotation, Found
<1>4. ASSUME NEW i \in Ids, UpdateOrder(c, i) PROVE TallyInv'
  BY <1>4, UpdatesTally
<1>5. ASSUME NEW i \in Ids, ConfirmOrder(c, i) \/ ChangeOrderStatus(c, i) \/ CancelOrder(c, i)
                             \/ ArchiveOrder(c, i) \/ RestoreOrder(c, i) \/ DeleteOrder(c, i)
      PROVE  TallyInv'
  BY <1>5, ChangesTally DEF ConfirmOrder, ChangeOrderStatus, CancelOrder, ArchiveOrder, RestoreOrder, DeleteOrder
<1> QED
  BY <1>1, <1>2, <1>3, <1>4, <1>5 DEF OrderCall

LEMMA InvoicesTally ==
    ASSUME SalesInv, TallyInv, NEW c \in Callers, InvoiceCall(c)
    PROVE  TallyInv'
<1>1. CASE CreateInvoice(c)
  BY <1>1, UndiscountedForms, NewTallies DEF CreateInvoice
<1>2. ASSUME NEW i \in Ids, DuplicateInvoice(c, i) PROVE TallyInv'
  BY <1>2, DuplicatesTally, SalesKinds DEF DuplicateInvoice, Found
<1>3. ASSUME NEW i \in Ids, CreateFromSalesOrder(c, i) PROVE TallyInv'
  BY <1>3, ConvertTallies, SalesKinds DEF CreateFromSalesOrder, Found
<1>4. ASSUME NEW i \in Ids, UpdateInvoice(c, i) PROVE TallyInv'
  BY <1>4, UpdatesTally
<1>5. ASSUME NEW i \in Ids, SendInvoice(c, i) \/ VoidInvoice(c, i)
                             \/ ArchiveInvoice(c, i) \/ RestoreInvoice(c, i) \/ DeleteInvoice(c, i)
      PROVE  TallyInv'
  BY <1>5, ChangesTally DEF SendInvoice, VoidInvoice, ArchiveInvoice, RestoreInvoice, DeleteInvoice
<1> QED
  BY <1>1, <1>2, <1>3, <1>4, <1>5 DEF InvoiceCall

LEMMA TallyStep == SalesInv /\ TallyInv /\ SalesNext => TallyInv'
<1> SUFFICES ASSUME SalesInv, TallyInv, NEW c \in Callers,
                    QuotationCall(c) \/ OrderCall(c) \/ InvoiceCall(c) \/ Statement(c)
             PROVE  TallyInv'
  BY DEF SalesNext
<1>1. CASE QuotationCall(c) \/ OrderCall(c) \/ InvoiceCall(c)
  BY <1>1, QuotationsTally, OrdersTally, InvoicesTally
<1>2. CASE Statement(c)
  <2>1. CASE Update(c) \/ Create(c)
    BY <2>1, TallyUpdates, TallyCreates
  <2>2. CASE ReadCount(c) \/ ReadConversions(c) \/ ReadTotals(c)
    BY <2>2, TallyReads, TallyComputes
  <2>3. CASE InsertLines(c) \/ WriteLine(c)
    BY <2>3, TallyLines
  <2>4. CASE Die(c)
    BY <2>4, TallyThrows DEF Die
  <2> QED
    BY <1>2, <2>1, <2>2, <2>3, <2>4 DEF Statement
<1> QED
  BY <1>1, <1>2

TallyPart == part = "sales" => SalesInv /\ TallyInv
LEMMA TallyPartStart == ServicesInit => TallyPart
<1> SUFFICES ASSUME SalesInit PROVE TallyInv
  BY SalesStart DEF ServicesInit, TallyPart
<1>1. \A c \in Callers : Idle(c)
  BY DEF SalesInit, RowsInit, Idle
<1>2. \A i \in Ids : row[i].kind \in Kinds => Priced(row[i]) /\ row[i].totals = Summary(row[i])
  BY SalesAssumption DEF SalesInit
<1> QED
  BY <1>1, <1>2 DEF TallyInv, AllPriced, TalliedBut, Tallied
LEMMA TallyPartStep == TallyPart /\ [ServicesNext]_serviceVars => TallyPart'
<1> SUFFICES ASSUME TallyPart, [ServicesNext]_serviceVars, part' = "sales" PROVE SalesInv' /\ TallyInv'
  BY DEF TallyPart
<1>1. CASE ServicesNext
  <2>1. part = "sales" /\ SalesNext
    BY <1>1 DEF ServicesNext
  <2> QED
    BY <2>1, SalesStep, TallyStep DEF TallyPart
<1>2. CASE UNCHANGED serviceVars
  <2>1. part = "sales" /\ UNCHANGED salesVars
    BY <1>2 DEF serviceVars, salesVars
  <2>2. SalesInv /\ TallyInv
    BY <2>1 DEF TallyPart
  <2>3. TallyInv'
    BY <2>1, <2>2 DEF TallyInv, salesVars, rowVars, Orderly, Quiet, Idle
  <2> QED
    BY <2>1, <2>2, <2>3, SalesStutter
<1> QED
  BY <1>1, <1>2

\* What is inserted while calls come one after another asks for what its
\* source does.
LEMMA BeginsRead == \A c, st : Begin(c, st) \/ BeginInsert(c, st) => row' = row
BY DEF Begin, BeginInsert

LEMMA LinesTouchOne ==
    ASSUME NEW c \in Callers, InsertLines(c) \/ WriteLine(c), row' # row
    PROVE  /\ ~Idle(c) /\ Head(todo[c]).do \in {"addLines", "setLine"}
           /\ \A j \in DOMAIN row \ {Head(todo[c]).id} : row'[j] = row[j]
<1>1. CASE InsertLines(c)
  <2> DEFINE s == Head(todo[c])
             new == [k \in DOMAIN s.lines |-> [s.lines[k] EXCEPT !.key = row[s.id].keys + k]]
  <2>0. ~Idle(c) /\ s.do = "addLines"
    BY ZenonT(60), <1>1 DEF InsertLines
  <2>1. row' = [row EXCEPT ![s.id].lines = @ \o new, ![s.id].keys = @ + Len(new)]
    BY <1>1 DEF InsertLines
  <2> HIDE DEF s, new
  <2>2. PICK r : r = [row[s.id] EXCEPT !.lines = row[s.id].lines \o new, !.keys = row[s.id].keys + Len(new)]
    OBVIOUS
  <2>3. row' = [row EXCEPT ![s.id] = r]
    BY <2>1, <2>2
  <2>4. \A j \in DOMAIN row \ {s.id} : row'[j] = row[j]
    BY <2>3
  <2> QED
    BY SMTT(60), <2>0, <2>4 DEF s
<1>2. CASE WriteLine(c)
  <2> DEFINE s == Head(todo[c])
             at == Line(s.id, s.key)
             l == IF s.item = <<>> THEN RemoveAt(row[s.id].lines, CHOOSE k \in at : TRUE)
                  ELSE [row[s.id].lines EXCEPT ![CHOOSE k \in at : TRUE] = [s.item EXCEPT !.key = s.key]]
  <2>1. ~Idle(c) /\ s.do = "setLine"
    BY SMTT(60), <1>2 DEF WriteLine
  <2>2. at # {}
    BY SMTT(60), <1>2 DEF WriteLine, Throw
  <2>3. row' = [row EXCEPT ![s.id].lines = l]
    BY <1>2, <2>2 DEF WriteLine
  <2> HIDE DEF s, at, l
  <2>4. \A j \in DOMAIN row \ {s.id} : row'[j] = row[j]
    BY <2>3
  <2> QED
    BY SMTT(60), <2>1, <2>4 DEF s
<1> QED
  BY ZenonT(60), <1>1, <1>2

LEMMA CarriedOver ==
    ASSUME SalesInv, TallyInv, SalesNext, Orderly, NEW i \in Ids, ~Exists(i), row'[i].kind \in Kinds,
           row'[i].source # 0
    PROVE  /\ row'[i].totals.subtotal = row[row'[i].source].totals.subtotal
           /\ row[row'[i].source].discountType = "null" =>
                row'[i].totals.grandTotal = row[row'[i].source].totals.grandTotal
<1>1. row[i].kind \notin Kinds
  BY SalesKinds DEF Exists, NoRow, Gone
<1>2. row'[i] # row[i]
  BY <1>1
<1>3. NeatSales(row, restored)
  BY DEF SalesInv, Orderly
<1>4. PICK c \in Callers : QuotationCall(c) \/ OrderCall(c) \/ InvoiceCall(c) \/ Statement(c)
  BY DEF SalesNext
<1>5. CASE QuotationCall(c) \/ OrderCall(c) \/ InvoiceCall(c)
  <2>1. CASE QuotationCall(c)
    BY <1>2, <2>1, BeginsRead DEF QuotationCall, CreateQuotation, New, DuplicateQuotation, UpdateQuotation, Edit,
      AddItem, UpdateItem, DeleteItem, SendQuotation, AcceptQuotation, RejectQuotation, CancelQuotation,
      ChangeStatus, ArchiveQuotation, RestoreQuotation, DeleteQuotation, SetDeleted, Restore
  <2>2. CASE OrderCall(c)
    BY <1>2, <2>2, BeginsRead DEF OrderCall, CreateOrder, New, DuplicateOrder, ConvertFromQuotation, UpdateOrder, Edit,
      ConfirmOrder, ChangeOrderStatus, CancelOrder, ChangeStatus, ArchiveOrder, RestoreOrder, DeleteOrder,
      SetDeleted, Restore
  <2>3. CASE InvoiceCall(c)
    BY <1>2, <2>3, BeginsRead DEF InvoiceCall, CreateInvoice, New, DuplicateInvoice, CreateFromSalesOrder, UpdateInvoice,
      Edit, SendInvoice, VoidInvoice, ChangeStatus, ArchiveInvoice, RestoreInvoice, DeleteInvoice,
      SetDeleted, Restore
  <2> QED
    BY <1>5, <2>1, <2>2, <2>3
<1>6. CASE Statement(c)
  <2>1. CASE Update(c)
    BY SMTT(60), <1>2, <2>1 DEF Update, Throw
  <2>2. CASE ReadCount(c) \/ ReadConversions(c) \/ ReadTotals(c) \/ Die(c)
    BY <1>2, <2>2 DEF ReadCount, ReadConversions, ReadTotals, Read, Die, Throw
  <2>3. CASE InsertLines(c) \/ WriteLine(c)
    <3>1. PICK n : /\ ~Idle(c) /\ Head(todo[c]).do \in {"addLines", "setLine"} /\ n = Head(todo[c]).id
                   /\ \A j \in Ids \ {n} : row'[j] = row[j]
      BY <1>2, <1>3, <2>3, LinesTouchOne DEF NeatSales
    <3>2. TallyScript(row, todo[c])
      BY <3>1 DEF TallyInv
    <3>3. PICK q : q = todo[c]
      OBVIOUS
    <3>4. PICK m \in Ids : /\ row[m].kind \in Kinds /\ TalliedBut(row, {m})
                           /\ \E p, s : /\ q = p \o Recalculate(m, s) /\ Rewriting(m, p)
                                        /\ ShippingKnown(row, m, p, s) /\ p # <<>>
      <4>1. TallyScript(row, q) /\ Head(q).do \in {"addLines", "setLine"}
        BY <3>1, <3>2, <3>3
      <4> QED
        BY <4>1, TallyHeads
    <3>5. PICK p, s : q = p \o Recalculate(m, s) /\ Rewriting(m, p) /\ p # <<>>
      BY <3>4
    <3>6. PICK e : e = Head(p)
      OBVIOUS
    <3>8. Head(q) = e /\ Rewrites(m, e)
      BY <3>5, <3>6, RestEdits, RestRewrites
    <3>9. e.do \in {"addLines", "setLine"} /\ e.id = n
      BY <3>1, <3>3, <3>8
    <3>10. e.id = m
      BY <3>8, <3>9 DEF Rewrites, Set, AddLines, SetLine
    <3>7. i # m
      BY <1>1, <3>4
    <3> QED
      BY <1>2, <3>1, <3>7, <3>9, <3>10
  <2>4. CASE Create(c)
    <3>1. ~Idle(c) /\ Head(todo[c]).do = "create" /\ Room
      BY <2>4 DEF Create
    <3>2. row' = [row EXCEPT ![NextId] = Head(todo[c]).set]
      BY <1>2, <2>4 DEF Create, Throw
    <3>3. TallyScript(row, todo[c])
      BY <3>1 DEF TallyInv
    <3>4. PICK d : Addable(row, d) /\ todo[c] = <<Insert(d)>>
      BY <3>1, <3>3, TallyHeads
    <3>5. Head(todo[c]).set = d
      <4>1. PICK x : x = Insert(d)
        OBVIOUS
      <4> QED
        BY <3>4, <4>1, ShortLists, Statements
    <3>6. row'[i] = d
      BY <1>2, <1>3, <3>2, <3>5 DEF NeatSales
    <3> QED
      BY <3>4, <3>6 DEF Addable, Carries
  <2> QED
    BY <1>6, <2>1, <2>2, <2>3, <2>4 DEF Statement
<1> QED
  BY <1>4, <1>5, <1>6

\* As long as calls come one after another and none dies: an invoice that is
\* made of an order asks for what the order says, an order for what the
\* quotation said before the header discount, whatever was edited before
\* (convertFromQuotation, createFromSalesOrder, calculateSummary).
THEOREM PriceAlwaysCarriesOver == ServicesSpec => (part = "sales" => PriceCarriesOver)
<1>1. ServicesSpec => []TallyPart
  BY TallyPartStart, TallyPartStep, PTL DEF ServicesSpec
<1>2. TallyPart /\ [ServicesNext]_serviceVars /\ part = "sales" => (part = "sales")'
  BY DEF ServicesNext, serviceVars
<1>3. TallyPart /\ [ServicesNext]_serviceVars /\ part = "sales" =>
        [\A i \in Ids :
            ~Exists(i) /\ row'[i].kind \in Kinds /\ row'[i].source # 0 /\ Orderly =>
                LET s == row[row'[i].source]
                IN row'[i].totals.subtotal = s.totals.subtotal
                   /\ (s.discountType = "null" => row'[i].totals.grandTotal = s.totals.grandTotal)]_salesVars
  <2> SUFFICES ASSUME TallyPart, [ServicesNext]_serviceVars, part = "sales", ~UNCHANGED salesVars, Orderly,
                      NEW i \in Ids, ~Exists(i), row'[i].kind \in Kinds, row'[i].source # 0
               PROVE  /\ row'[i].totals.subtotal = row[row'[i].source].totals.subtotal
                      /\ row[row'[i].source].discountType = "null" =>
                           row'[i].totals.grandTotal = row[row'[i].source].totals.grandTotal
    OBVIOUS
  <2>1. SalesNext
    BY DEF ServicesNext, serviceVars, salesVars, rowVars
  <2> QED
    BY <2>1, CarriedOver DEF TallyPart
<1> QED
  BY <1>1, <1>2, <1>3, PTL DEF ServicesSpec, PriceCarriesOver
LEMMA TotalsTell ==
    ASSUME NEW r, Tallied(r)
    PROVE  LET net(l) == lineTotal(l) - itemDiscountAmount(l) + itemTaxAmount(l)
           IN r.totals.grandTotal = Max0(SumOver(net, r.lines) + r.shipping
                - headerDiscount(r.totals.subtotal, r.discountType, r.discountValue))
<1> DEFINE net(l) == lineTotal(l) - itemDiscountAmount(l) + itemTaxAmount(l)
           N == DOMAIN r.lines
           t == [k \in N |-> net(r.lines[k])]
           u == [k \in N |-> lineTotal(r.lines[k])]
           v == [k \in N |-> itemDiscountAmount(r.lines[k])]
           w == [k \in N |-> itemTaxAmount(r.lines[k])]
           hd == headerDiscount(r.totals.subtotal, r.discountType, r.discountValue)
<1>1. r.lines \in Seq(LineItems) /\ IsForm(r) /\ r.totals = Summary(r)
  BY DEF Tallied, Priced, IsForm
<1>2. N = 1..Len(r.lines) /\ Len(r.lines) \in Nat
  BY <1>1, LenProperties
<1>3. IsFiniteSet(N)
  BY <1>2, FS_Interval
<1>4. ASSUME NEW l \in LineItems
      PROVE  lineTotal(l) \in Int /\ itemDiscountAmount(l) \in Int /\ itemTaxAmount(l) \in Int
  <2>1. \A n, p \in Int : Percent(n, p) \in Int
    BY DEF Percent
  <2>2. l.quantity \in Int /\ l.unitPrice \in Int /\ l.discount \in Int /\ l.taxRate \in Int
    BY DEF LineItems
  <2>3. lineTotal(l) \in Int
    BY <2>2 DEF lineTotal
  <2>4. itemDiscountAmount(l) \in Int
    BY <2>1, <2>2, <2>3 DEF itemDiscountAmount
  <2>5. itemTaxAmount(l) \in Int
    <3>1. lineTotal(l) - itemDiscountAmount(l) \in Int
      BY <2>3, <2>4
    <3> QED
      BY <2>1, <2>2, <3>1 DEF itemTaxAmount
  <2> QED
    BY <2>3, <2>4, <2>5
<1>5. ASSUME NEW k \in N PROVE u[k] \in Int /\ v[k] \in Int /\ w[k] \in Int /\ t[k] = u[k] - v[k] + w[k]
  <2>1. r.lines[k] \in LineItems
    BY <1>1, <1>2, ElementOfSeq
  <2> QED
    BY <1>4, <2>1
<1>6. /\ SumOver(lineTotal, r.lines) = SumFunctionOnSet(u, N)
      /\ SumOver(itemDiscountAmount, r.lines) = SumFunctionOnSet(v, N)
      /\ SumOver(itemTaxAmount, r.lines) = SumFunctionOnSet(w, N)
      /\ SumOver(net, r.lines) = SumFunctionOnSet(t, N)
  BY DEF SumOver, SumFunction
<1>7. /\ r.totals.subtotal = SumFunctionOnSet(u, N)
      /\ r.totals.grandTotal =
           Max0(SumFunctionOnSet(u, N) - (SumFunctionOnSet(v, N) + hd) + SumFunctionOnSet(w, N) + r.shipping)
  <2>1. /\ r.totals.subtotal = SumOver(lineTotal, r.lines)
        /\ r.totals.grandTotal =
             Max0(SumOver(lineTotal, r.lines) - (SumOver(itemDiscountAmount, r.lines)
                    + headerDiscount(SumOver(lineTotal, r.lines), r.discountType, r.discountValue))
                  + SumOver(itemTaxAmount, r.lines) + r.shipping)
    <3> HIDE DEF hd
    <3>1. r.totals = calculateSummary(r.lines, r.discountType, r.discountValue, r.shipping)
      BY <1>1 DEF Summary
    <3> QED
      BY <3>1 DEF calculateSummary
  <2> HIDE DEF u, v, w, t, N
  <2> QED
    BY <1>6, <2>1
<1> HIDE DEF u, v, w, t, N
<1>8. SumFunctionOnSet(t, N) = SumFunctionOnSet(u, N) - SumFunctionOnSet(v, N) + SumFunctionOnSet(w, N)
  BY <1>3, <1>5, SumCombine
<1>9. SumFunctionOnSet(u, N) \in Int /\ SumFunctionOnSet(v, N) \in Int /\ SumFunctionOnSet(w, N) \in Int
  BY <1>3, <1>5, SumType
<1>10. hd \in Int /\ r.shipping \in Int
  <2>1. \A n, p \in Int : Percent(n, p) \in Int
    BY DEF Percent
  <2> QED
    BY <1>1, <1>7, <1>9, <2>1 DEF IsForm, headerDiscount
<1>11. SumFunctionOnSet(u, N) - (SumFunctionOnSet(v, N) + hd) + SumFunctionOnSet(w, N) + r.shipping
         = SumFunctionOnSet(t, N) + r.shipping - hd
  <2> HIDE DEF hd
  <2> QED
    BY <1>8, <1>9, <1>10
<1>12. r.totals.grandTotal = Max0(SumFunctionOnSet(t, N) + r.shipping - hd)
  BY <1>7, <1>11
<1> QED
  BY <1>6, <1>12

\* As long as calls come one after another and none dies, the totals of every
\* quotation, order and invoice are between calls those of its lines, whatever
\* edits, item operations and conversions have been made (recalculateTotals,
\* calculateSummary).
THEOREM TotalsAlwaysAgree == ServicesSpec => [](part = "sales" => TotalsAgree)
<1>1. ServicesSpec => []TallyPart
  BY TallyPartStart, TallyPartStep, PTL DEF ServicesSpec
<1>2. TallyPart => (part = "sales" => TotalsAgree)
  BY TotalsTell DEF TallyPart, TallyInv, TalliedBut, TotalsAgree, IsDocument
<1> QED
  BY <1>1, <1>2, PTL
=============================================================================
