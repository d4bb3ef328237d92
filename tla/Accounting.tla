------------------------------- MODULE Accounting -------------------------------
(***************************************************************************)
(* Double-entry bookkeeping: ChartOfAccountsService, JournalEntriesService *)
(* and FiscalYearsService (src/accounting) and the statements that         *)
(* ReportsService computes from what they stored.                          *)
(***************************************************************************)
EXTENDS Integers, SequencesExt, Rows

CONSTANTS
    Vouchers,   \* the lines a client may send for a journal entry
    Types,      \* bound: the account types that occur
    Dates,      \* days, 1..n
    Today,      \* the day a reversal is posted on
    BookStarts  \* the books there are when a behaviour begins

VARIABLE redated    \* the fiscal years whose dates were changed

bookVars == <<rowVars, redated>>

AccountTypes == {"ASSET", "LIABILITY", "EQUITY", "REVENUE", "EXPENSE"}
ASSUME TypesAssumption == Types \subseteq AccountTypes

Account(type, parent, system) ==
    [kind |-> "account", type |-> type, parent |-> parent, active |-> TRUE, system |-> system]
Entry(lines, date) ==
    [kind |-> "entry", status |-> "DRAFT", lines |-> lines, date |-> date, number |-> 0,
     reverses |-> 0]
Year(from, to) ==
    [kind |-> "year", from |-> from, to |-> to, closed |-> FALSE, periodsClosed |-> FALSE]

Sum(amount(_), lines) == SumFunction([k \in DOMAIN lines |-> amount(lines[k])])
debit(l) == l.debit
credit(l) == l.credit

\* validateLines()
validateLines(lines) ==
    /\ Sum(debit, lines) = Sum(credit, lines)
    /\ \E k \in DOMAIN lines : lines[k].debit # 0 \/ lines[k].credit # 0
    /\ \A k \in DOMAIN lines : lines[k].debit <= 0 \/ lines[k].credit <= 0

\* ---- statements of this component, besides those of Rows ----
CountEntries == [do |-> "countEntries"]     \* the number of the entry made next
Enter(entry) == [do |-> "enter", entry |-> entry]

ReadNumber(c) ==
    LET n == Cardinality({i \in Ids : row[i].kind = "entry"})
    IN Read(c, "countEntries", [Tail(todo[c]) EXCEPT ![1].entry.number = n + 1])

\* Mutant: the entry that is reversed stays POSTED.
EnterOnly(i) == IF i = 0 THEN row ELSE row
Reversed(i) == IF i = 0 THEN row ELSE [row EXCEPT ![i].status = "REVERSED"]
\* The insert of an entry, in one transaction with the update of the entry it
\* reverses.  The number has a unique key, the lines refer to their accounts:
\* when either fails nothing is written.
InsertEntry(c) ==
    /\ ~Idle(c) /\ Head(todo[c]).do = "enter" /\ Room
    /\ LET e == Head(todo[c]).entry
       IN IF \/ \E i \in Ids : row[i].kind = "entry" /\ row[i].number = e.number
             \/ \E k \in DOMAIN e.lines : ~Exists(e.lines[k].account)
          THEN Throw(c)
          ELSE /\ row' = [Reversed(e.reverses) EXCEPT ![NextId] = e]
               /\ todo' = [todo EXCEPT ![c] = Tail(@)]
               /\ UNCHANGED <<begun, overlapped, died>>

\* DELETE of an account: lines that refer to it make it fail.
Used(a) ==
    \E i \in Ids : row[i].kind = "entry" /\ \E k \in DOMAIN row[i].lines : row[i].lines[k].account = a
DeleteRow(c) ==
    /\ ~Idle(c) /\ Head(todo[c]).do = "erase"
    /\ IF Used(Head(todo[c]).id) THEN Throw(c) ELSE Deletion(c)

\* ---- ChartOfAccountsService ----
CreateAccount(c) ==
    \E t \in Types, p \in {0} \cup {i \in Ids : row[i].kind = "account"} :
        BeginInsert(c, <<Insert(Account(t, p, FALSE))>>) /\ UNCHANGED redated
\* update(): the parent may be any account but the account itself; type and
\* isActive change whatever was posted.
UpdateAccount(c, a) ==
    /\ row[a].kind = "account"
    /\ \/ \E p \in {i \in Ids : row[i].kind = "account"} \ {a} : Begin(c, <<Set(a, [parent |-> p])>>)
       \/ \E t \in Types : Begin(c, <<Set(a, [type |-> t])>>)
       \/ \E b \in BOOLEAN : Begin(c, <<Set(a, [active |-> b])>>)
    /\ UNCHANGED redated
DeleteAccount(c, a) ==
    /\ row[a].kind = "account" /\ ~row[a].system
    /\ ~\E i \in Ids : row[i].kind = "account" /\ row[i].parent = a
    /\ Begin(c, IF Used(a) THEN <<Set(a, [active |-> FALSE])>> ELSE <<Erase(a)>>)
    /\ UNCHANGED redated

\* ---- JournalEntriesService ----
CreateEntry(c) ==
    /\ \E lines \in Vouchers, d \in Dates :
          /\ validateLines(lines)
          /\ \A k \in DOMAIN lines : row[lines[k].account].kind = "account" /\ row[lines[k].account].active
          /\ BeginInsert(c, <<CountEntries, Enter(Entry(lines, d))>>)
    /\ UNCHANGED redated
PostEntry(c, i) ==
    /\ row[i].kind = "entry" /\ row[i].status = "DRAFT"
    /\ Begin(c, <<Set(i, [status |-> "POSTED"])>>) /\ UNCHANGED redated
Swapped(lines) ==
    [k \in DOMAIN lines |-> [account |-> lines[k].account, debit |-> lines[k].credit,
                             credit |-> lines[k].debit]]
ReverseEntry(c, i) ==
    /\ row[i].kind = "entry" /\ row[i].status = "POSTED"
    /\ BeginInsert(c, <<CountEntries, Enter([Entry(Swapped(row[i].lines), Today)
                                  EXCEPT !.status = "POSTED", !.reverses = i])>>)
    /\ UNCHANGED redated

\* ---- FiscalYearsService ----
Overlaps(from, to) == \E i \in Ids : row[i].kind = "year" /\ row[i].from <= to /\ row[i].to >= from
\* Nothing asks that a year begins before it ends.
CreateYear(c) ==
    \E from, to \in Dates :
        /\ ~Overlaps(from, to)
        /\ BeginInsert(c, <<Insert(Year(from, to))>>) /\ UNCHANGED redated
\* update() checks nothing of the dates, and sets isClosed without the periods.
UpdateYear(c, y) ==
    /\ row[y].kind = "year"
    /\ \/ \E d \in Dates : Begin(c, <<Set(y, [to |-> d])>>) /\ redated' = redated \cup {y}
       \/ \E b \in BOOLEAN : Begin(c, <<Set(y, [closed |-> b])>>) /\ UNCHANGED redated
Drafts(y) ==
    {i \in Ids : row[i].kind = "entry" /\ row[i].status = "DRAFT" /\ row[i].date \in row[y].from..row[y].to}
CloseYear(c, y) ==
    /\ row[y].kind = "year" /\ ~row[y].closed /\ Drafts(y) = {}
    /\ Begin(c, <<Set(y, [periodsClosed |-> TRUE]), Set(y, [closed |-> TRUE])>>)
    /\ UNCHANGED redated

\* A row of these tables: the columns that reversals and years are told by.
OfBooks(r) ==
    /\ "kind" \in DOMAIN r
    /\ r.kind = "entry" => {"status", "lines", "date", "number", "reverses"} \subseteq DOMAIN r
    /\ r.kind = "year" => {"from", "to"} \subseteq DOMAIN r /\ r.from \in Dates /\ r.to \in Dates
Reverses(tab, j, i) == tab[j].kind = "entry" /\ tab[j].reverses = i
\* Only what a posted entry reverses is REVERSED.
BookRows(tab) ==
    /\ DOMAIN tab = Ids
    /\ \A i \in Ids : /\ OfBooks(tab[i])
                      /\ tab[i].kind = "entry" =>
                           /\ tab[i].status = "REVERSED" => \E j \in Ids : Reverses(tab, j, i)
                           /\ tab[i].reverses # 0 => /\ tab[i].status \in {"POSTED", "REVERSED"}
                                                    /\ tab[i].reverses \in Ids
                                                    /\ tab[tab[i].reverses].kind = "entry"
\* What is reversed is so once, and is REVERSED; years are apart, but some.
NeatBooks(tab, but) ==
    /\ \A i, j, k \in Ids : tab[i].kind = "entry" /\ Reverses(tab, j, i) =>
         tab[i].status = "REVERSED" /\ (Reverses(tab, k, i) => j = k)
    /\ \A y, z \in Ids \ but : tab[y].kind = "year" /\ tab[z].kind = "year" /\ y # z =>
         tab[y].to < tab[z].from \/ tab[z].to < tab[y].from
ASSUME BookAssumption ==
    Dates \subseteq Nat /\ \A start \in BookStarts : BookRows(start) /\ NeatBooks(start, {})

BookInit == row \in BookStarts /\ RowsInit /\ redated = {}
BookCall(c) ==
    \/ CreateAccount(c) \/ CreateEntry(c) \/ CreateYear(c)
    \/ \E i \in Ids : \/ UpdateAccount(c, i) \/ DeleteAccount(c, i) \/ PostEntry(c, i)
                      \/ ReverseEntry(c, i) \/ UpdateYear(c, i) \/ CloseYear(c, i)
BookNext ==
    \E c \in Callers :
        \/ Ready(c) /\ BookCall(c)
        \/ /\ Update(c) \/ Create(c) \/ ReadNumber(c) \/ InsertEntry(c) \/ DeleteRow(c) \/ Die(c)
           /\ UNCHANGED redated

BookSpec == BookInit /\ [][BookNext]_bookVars

-----------------------------------------------------------------------------
\* ---- what the reports compute ----
Lines(i, account) == {k \in DOMAIN row[i].lines : row[i].lines[k].account = account}
Posted(until) ==
    {i \in Ids : row[i].kind = "entry" /\ row[i].status = "POSTED" /\ row[i].date <= until}
Entered(amount(_), entries, account) ==
    SumFunction([i \in entries |->
                   SumFunction([k \in Lines(i, account) |-> amount(row[i].lines[k])])])
totalDebit(a, until) == Entered(debit, Posted(until), a)
totalCredit(a, until) == Entered(credit, Posted(until), a)
balance(a, until) ==
    IF row[a].type \in {"ASSET", "EXPENSE"} THEN totalDebit(a, until) - totalCredit(a, until)
    ELSE totalCredit(a, until) - totalDebit(a, until)

Accounts == {i \in Ids : row[i].kind = "account"}
Total(amount(_), accounts) == SumFunction([a \in accounts |-> amount(a)])
\* getBalanceSheet() and getProfitAndLoss() list active accounts only.
Section(types, until) ==
    Total(LAMBDA a : balance(a, until), {a \in Accounts : row[a].type \in types /\ row[a].active})
netProfit(until) == Section({"REVENUE"}, until) - Section({"EXPENSE"}, until)
totalLiabilitiesEquity(until) ==
    Section({"LIABILITY"}, until) + Section({"EQUITY"}, until) + netProfit(until)

\* At every date the trial balance has equal sides, and, unless an account that
\* was posted to has been deactivated (which is what deleting it does), the
\* balance sheet balances, however accounts have been moved and retyped,
\* entries posted and reversed, calls overlapped and died.
BooksBalance ==
    \A d \in Dates :
        /\ Total(LAMBDA a : totalDebit(a, d), Accounts) = Total(LAMBDA a : totalCredit(a, d), Accounts)
        /\ (\A a \in Accounts : row[a].active \/ balance(a, d) = 0) =>
              Section({"ASSET"}, d) = totalLiabilitiesEquity(d)

\* Only an entry that a posted one reverses is REVERSED, also when a call dies
\* half way.  Unless calls overlapped every such entry is, and is reversed once:
\* two posts of an entry that both read DRAFT may leave a reversed one POSTED.
ReversalsMatch ==
    \A i \in Ids : row[i].kind = "entry" =>
        LET by == {j \in Ids : row[j].kind = "entry" /\ row[j].reverses = i}
        IN /\ row[i].status = "REVERSED" => by # {}
           /\ ~overlapped => /\ by # {} => row[i].status = "REVERSED"
                             /\ Cardinality(by) <= 1
           /\ \A j \in by : row[j].status \in {"POSTED", "REVERSED"}

\* As long as calls do not overlap, the fiscal years whose dates were not
\* changed are disjoint.
YearsDisjoint ==
    ~overlapped => \A y, z \in Ids \ redated :
        row[y].kind = "year" /\ row[z].kind = "year" /\ y # z =>
            row[y].to < row[z].from \/ row[z].to < row[y].from
=============================================================================
