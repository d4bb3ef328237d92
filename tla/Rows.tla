--------------------------------- MODULE Rows ---------------------------------
(***************************************************************************)
(* The database as most services of src/ use it.  A call reads and checks, *)
(* then executes the statements it decided on one by one, each committed   *)
(* for itself: between two of them other calls run, and a call may die (a  *)
(* lost connection, a restart) and leave the rest undone.  No method here  *)
(* retries or compensates.  The component modules extend this one, say     *)
(* which statements a call decides on, and add statements that compute.    *)
(***************************************************************************)
EXTENDS Naturals, Sequences, FiniteSets

CONSTANTS
    Ids,        \* the ids of the rows that may come to exist, 1..n
    Callers,    \* requests that may be in progress at one time
    MaxCalls,   \* bound: calls made in a behaviour
    MaxMixed    \* bound: calls made in one where calls overlap or die

ASSUME RowsAssumption == /\ IsFiniteSet(Ids) /\ Ids = 1..Cardinality(Ids)
                         /\ Callers # {} /\ MaxCalls \in Nat /\ MaxMixed \in Nat

VARIABLES
    row,        \* [Ids -> a row, or NoRow]; deleted is the row's deletedAt
    todo,       \* the statements each call has still to execute
    begun,      \* calls begun so far
    overlapped, \* whether two calls were ever in progress together
    died        \* whether a call ever died half way

rowVars == <<row, todo, begun, overlapped, died>>

NoRow == [kind |-> "none"]
Gone == [kind |-> "gone"]       \* deleted for good: no id is used twice
Exists(i) == row[i] \notin {NoRow, Gone}
\* What findFirst({ where: { id, deletedAt: null } }) returns a row for.
Found(i, kind) == row[i].kind = kind /\ ~row[i].deleted

\* A row after an UPDATE that sets some of its columns.
Merge(r, set) == [f \in DOMAIN r |-> IF f \in DOMAIN set THEN set[f] ELSE r[f]]

Set(i, fields) == [do |-> "update", ids |-> {i}, set |-> fields]
SetAll(ids, fields) == [do |-> "update", ids |-> ids, set |-> fields]
Insert(fields) == [do |-> "create", set |-> fields]

\* Calls have so far been made one after another, and none has died.
Orderly == ~overlapped /\ ~died

Idle(c) == todo[c] = <<>>
Quiet == \A c \in Callers : Idle(c)
Unspent == Cardinality({i \in Ids : row[i] = NoRow})
\* "enter" is an insert that a component executes in a way of its own.
Inserting ==
    Cardinality({p \in Callers \X (1..8) :
                    p[2] \in DOMAIN todo[p[1]] /\ todo[p[1]][p[2]].do \in {"create", "enter"}})
NextId == CHOOSE i \in Ids : row[i] = NoRow /\ \A j \in Ids : row[j] = NoRow => i <= j
\* Bound: rows are inserted while there is an id for them.
Room == \E i \in Ids : row[i] = NoRow

RowsInit == /\ todo = [c \in Callers |-> <<>>] /\ begun = 0
            /\ overlapped = FALSE /\ died = FALSE

\* Bound: a caller may make one more call.  Every component asks this before
\* it tries its calls, none of which can begin otherwise.
Ready(c) == Idle(c) /\ begun < (IF Orderly /\ Quiet THEN MaxCalls ELSE MaxMixed)

\* A call that has read, passed its checks, and is left with statements.
Begin(c, statements) ==
    /\ Ready(c)
    /\ todo' = [todo EXCEPT ![c] = statements]
    /\ begun' = begun + 1
    /\ overlapped' = (overlapped \/ ~Quiet)
    /\ UNCHANGED <<row, died>>

\* Bound: a call that will insert a row begins while there is an id for it.
BeginInsert(c, statements) == Begin(c, statements) /\ Inserting < Unspent

\* The rest of a call whose statement throws is not executed.
Throw(c) ==
    /\ todo' = [todo EXCEPT ![c] = <<>>] /\ died' = TRUE
    /\ UNCHANGED <<row, begun, overlapped>>

\* What the schema refuses to write: a code some other row of the kind has,
\* deleted or not, and a parent that is gone.
Refused(fields, i) ==
    \/ /\ "code" \in DOMAIN fields
       /\ \E j \in Ids \ {i} : row[j].kind = fields.kind /\ row[j].code = fields.code
    \/ "parent" \in DOMAIN fields /\ fields.parent # 0 /\ ~Exists(fields.parent)

\* An UPDATE: it writes what it says, whatever the row says by then; update()
\* of a row that is gone throws, updateMany() passes over it.
Update(c) ==
    /\ ~Idle(c) /\ Head(todo[c]).do = "update"
    /\ LET s == Head(todo[c])
       IN IF \/ s.ids # {} /\ \A i \in s.ids : ~Exists(i)
             \/ \E i \in s.ids : Exists(i) /\ Refused(Merge(row[i], s.set), i)
          THEN Throw(c)
          ELSE /\ row' = [i \in Ids |-> IF i \in s.ids /\ Exists(i) THEN Merge(row[i], s.set) ELSE row[i]]
               /\ todo' = [todo EXCEPT ![c] = Tail(@)]
               /\ UNCHANGED <<begun, overlapped, died>>

Create(c) ==
    /\ ~Idle(c) /\ Head(todo[c]).do = "create" /\ Room
    /\ IF Refused(Head(todo[c]).set, 0) THEN Throw(c)
       ELSE /\ row' = [row EXCEPT ![NextId] = Head(todo[c]).set]
            /\ todo' = [todo EXCEPT ![c] = Tail(@)]
            /\ UNCHANGED <<begun, overlapped, died>>

\* DELETE of a row that nothing but parent refers to: the parent of its
\* children becomes null.
Erase(i) == [do |-> "erase", id |-> i]
Deletion(c) ==
    /\ ~Idle(c) /\ Head(todo[c]).do = "erase"
    /\ LET i == Head(todo[c]).id
       IN IF ~Exists(i) THEN Throw(c)
          ELSE /\ row' = [j \in Ids |->
                     IF j = i THEN Gone
                     ELSE IF "parent" \in DOMAIN row[j] /\ row[j].parent = i
                          THEN [row[j] EXCEPT !.parent = 0] ELSE row[j]]
               /\ todo' = [todo EXCEPT ![c] = Tail(@)]
               /\ UNCHANGED <<begun, overlapped, died>>

\* A statement that only reads: it fills in what the call does next.
Read(c, what, rest) ==
    /\ ~Idle(c) /\ Head(todo[c]).do = what
    /\ todo' = [todo EXCEPT ![c] = rest]
    /\ UNCHANGED <<row, begun, overlapped, died>>

Die(c) == ~Idle(c) /\ Throw(c)

=============================================================================
