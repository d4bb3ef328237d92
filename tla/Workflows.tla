------------------------------- MODULE Workflows -------------------------------
(***************************************************************************)
(* The workflow engine (src/workflows): EventBusService.emit() runs every  *)
(* active definition of an event, one after another, each with a log row   *)
(* that is PENDING until its actions have run or one has thrown.           *)
(***************************************************************************)
EXTENDS Naturals, SequencesExt, Rows

CONSTANTS
    Actions,        \* the lists of actions a definition may have
    WorkflowStarts  \* the rows there are when a behaviour begins

workflowVars == rowVars

Definition(name, event, actions, conditional) ==
    [kind |-> "workflow", code |-> name, event |-> event, active |-> TRUE, actions |-> actions,
     conditional |-> conditional]
\* done counts the actions that ran, skipped says the conditions were not met.
Log(w) == [kind |-> "log", of |-> w, status |-> "PENDING", done |-> 0, skipped |-> FALSE]
Names == {1, 2}     \* names, events

Named(name) == \E i \in Ids : row[i].kind = "workflow" /\ row[i].code = name
CreateWorkflow(c) ==
    \E n, e \in Names, a \in Actions, b \in BOOLEAN :
        ~Named(n) /\ BeginInsert(c, <<Insert(Definition(n, e, a, b))>>)
UpdateWorkflow(c, w) ==
    /\ row[w].kind = "workflow"
    /\ \/ \E e \in Names : Begin(c, <<Set(w, [event |-> e])>>)
       \/ \E b \in BOOLEAN : Begin(c, <<Set(w, [active |-> b])>>)
ToggleActive(c, w) == row[w].kind = "workflow" /\ Begin(c, <<Set(w, [active |-> ~row[w].active])>>)
DeleteWorkflow(c, w) == row[w].kind = "workflow" /\ Begin(c, <<Erase(w)>>)
\* DELETE of a definition: a log that refers to it makes it fail.
DeleteDefinition(c) ==
    /\ ~Idle(c) /\ Head(todo[c]).do = "erase"
    /\ IF \E i \in Ids : row[i].kind = "log" /\ row[i].of = Head(todo[c]).id
       THEN Throw(c) ELSE Deletion(c)

\* processEvent() works on the definitions findByEvent() returned, whatever
\* becomes of them; the pending inserts are counted for the bound on ids.
findByEvent(e) == {w \in Ids : row[w].kind = "workflow" /\ row[w].event = e /\ row[w].active}
Execute(w) == [do |-> "enter", workflow |-> w, actions |-> row[w].actions,
               conditional |-> row[w].conditional]
Emit(c) ==
    \E e \in Names :
        /\ findByEvent(e) # {}
        /\ Cardinality(findByEvent(e)) + Inserting <= Unspent
        /\ Begin(c, SetToSeq({Execute(w) : w \in findByEvent(e)}))

\* executeWorkflow() up to its first action.  Whether the conditions hold, or
\* are malformed and throw, depends on them and on the event: all are tried.
Settle(log, status) == Set(log, [status |-> status])
Skip(log) == Set(log, [status |-> "SUCCESS", skipped |-> TRUE])
Started(x, log) ==
    {[do |-> "act", log |-> log, left |-> x.actions]}
        \cup IF x.conditional THEN {Skip(log), Settle(log, "FAILED")} ELSE {}
BeginExecution(c) ==
    /\ ~Idle(c) /\ Head(todo[c]).do = "enter" /\ Room
    /\ LET x == Head(todo[c])
       IN IF ~Exists(x.workflow) THEN Throw(c)
          ELSE \E step \in Started(x, NextId) :
                 /\ row' = [row EXCEPT ![NextId] = Log(x.workflow)]
                 /\ todo' = [todo EXCEPT ![c] = <<step>> \o Tail(@)]
                 /\ UNCHANGED <<begun, overlapped, died>>

\* ActionRegistryService.execute() of the next action, which may throw; an
\* action without a handler ("none") throws.
NextAction(c) == ~Idle(c) /\ Head(todo[c]).do = "act"
ActionReturns(c) ==
    /\ NextAction(c)
    /\ LET x == Head(todo[c])
       IN /\ x.left # <<>> /\ Head(x.left) # "none"
          /\ row' = [row EXCEPT ![x.log].done = @ + 1]
          /\ todo' = [todo EXCEPT ![c][1].left = Tail(@)]
    /\ UNCHANGED <<begun, overlapped, died>>
\* Mutant: the rest of the actions are tried all the same.
ActionIsPassedOver(c) ==
    /\ NextAction(c) /\ Head(todo[c]).left # <<>>
    /\ todo' = [todo EXCEPT ![c][1].left = Tail(@)]
    /\ UNCHANGED <<row, begun, overlapped, died>>
ActionThrows(c) ==
    /\ NextAction(c) /\ Head(todo[c]).left # <<>>
    /\ todo' = [todo EXCEPT ![c] = <<Settle(Head(@).log, "FAILED")>> \o Tail(@)]
    /\ UNCHANGED <<row, begun, overlapped, died>>
ActionsDone(c) ==
    /\ NextAction(c) /\ Head(todo[c]).left = <<>>
    /\ todo' = [todo EXCEPT ![c] = <<Settle(Head(@).log, "SUCCESS")>> \o Tail(@)]
    /\ UNCHANGED <<row, begun, overlapped, died>>
\* That SUCCESS cannot be written is caught like an action that throws.
SuccessIsNotWritten(c) ==
    /\ ~Idle(c)
    /\ \E log \in Ids :
          /\ Head(todo[c]) \in {Settle(log, "SUCCESS"), Skip(log)}
          /\ todo' = [todo EXCEPT ![c] = <<Settle(log, "FAILED")>> \o Tail(@)]
    /\ UNCHANGED <<row, begun, overlapped, died>>

\* A row of these tables, and what a log that is not PENDING says.
OfWorkflows(r) ==
    \/ r = NoRow \/ r = Gone
    \/ /\ r.kind = "workflow" /\ r.actions \in Seq(STRING) /\ r.conditional \in BOOLEAN
       /\ DOMAIN r = {"kind", "code", "event", "active", "actions", "conditional"}
    \/ r.kind = "log" /\ DOMAIN r = {"kind", "of", "status", "done", "skipped"}
LogTells(tab, i) ==
    /\ tab[i].of \in Ids /\ tab[tab[i].of].kind = "workflow" /\ tab[i].done \in Nat
    /\ LET all == Len(tab[tab[i].of].actions)
       IN /\ tab[i].status = "SUCCESS" => tab[i].done = IF tab[i].skipped THEN 0 ELSE all
          /\ tab[i].status = "FAILED" => tab[i].done <= all
WorkflowRows(tab) ==
    /\ DOMAIN tab = Ids
    /\ \A i \in Ids : OfWorkflows(tab[i]) /\ (tab[i].kind = "log" => LogTells(tab, i))
ASSUME WorkflowAssumption ==
    /\ Actions \subseteq Seq(STRING)
    /\ \A start \in WorkflowStarts :
         WorkflowRows(start) /\ \A i \in Ids : start[i].kind = "log" => start[i].status # "PENDING"

WorkflowInit == row \in WorkflowStarts /\ RowsInit
WorkflowCall(c) ==
    \/ CreateWorkflow(c) \/ Emit(c)
    \/ \E i \in Ids : UpdateWorkflow(c, i) \/ ToggleActive(c, i) \/ DeleteWorkflow(c, i)
WorkflowNext ==
    \E c \in Callers :
        \/ Ready(c) /\ WorkflowCall(c)
        \/ Update(c) \/ Create(c) \/ DeleteDefinition(c) \/ BeginExecution(c)
        \/ ActionReturns(c) \/ ActionThrows(c) \/ ActionsDone(c) \/ SuccessIsNotWritten(c) \/ Die(c)
WorkflowSpec == WorkflowInit /\ [][WorkflowNext]_workflowVars

-----------------------------------------------------------------------------
\* What an execution log says is what happened, whatever becomes of the
\* definition meanwhile: SUCCESS of all the actions or of none because the
\* conditions were not met, FAILED of none, some or, where it was SUCCESS that
\* could not be written, all of them and no more, PENDING of an execution in
\* progress or one that died.
LogsTell ==
    \A i \in Ids : row[i].kind = "log" =>
        LET all == Len(row[row[i].of].actions)
        IN /\ row[i].status = "SUCCESS" => row[i].done = IF row[i].skipped THEN 0 ELSE all
           /\ row[i].status = "FAILED" => row[i].done <= all
           /\ row[i].status = "PENDING" =>
                 \/ died
                 \/ \E c \in Callers : ~Idle(c) /\ \/ Head(todo[c]).do = "act" /\ Head(todo[c]).log = i
                                                   \/ Head(todo[c]).do = "update" /\ i \in Head(todo[c]).ids
=============================================================================
