---------------------------------- MODULE Crm ----------------------------------
(***************************************************************************)
(* Leads and companies (src/crm), contacts (src/contacts), pipelines,      *)
(* stages and deals (src/deals), activities (src/activities).  Every       *)
(* mutation is followed by a timeline row, in a statement of its own; only *)
(* those that say what changed from what to what are kept here.  The audit *)
(* log, written after it, is left out.                                     *)
(***************************************************************************)
EXTENDS Naturals, SequencesExt, Rows

CONSTANTS
    Users,      \* members of the organization
    CrmStarts   \* the rows there are when a behaviour begins

VARIABLES
    timeline,   \* for each row and field, the changes the timeline rows tell of
    history,    \* leadAssignmentHistory: whom each lead was assigned to
    claimed,    \* contacts made primary by create() or update(), not setPrimary()
    handed      \* users who got a lead from create() or update(), not assign()

crmVars == <<rowVars, timeline, history, claimed, handed>>

LeadStatuses == {"NEW", "CONTACTED"}    \* of seven
Values == {0, 1}                        \* values, due dates
Priorities == {"LOW", "HIGH"}           \* of four

Lead(user) ==
    [kind |-> "lead", deleted |-> FALSE, archived |-> FALSE, status |-> "NEW", assignee |-> user]
Company == [kind |-> "company", deleted |-> FALSE, archived |-> FALSE, of |-> 0]
Contact(user, primary) ==
    [kind |-> "contact", deleted |-> FALSE, archived |-> FALSE, owner |-> user, company |-> 0,
     primary |-> primary, decider |-> FALSE]
Pipeline == [kind |-> "pipeline", archived |-> FALSE, default |-> FALSE]
Stage(p, order) == [kind |-> "stage", pipeline |-> p, order |-> order, chance |-> order]
Deal(user, p, s) ==
    [kind |-> "deal", deleted |-> FALSE, archived |-> FALSE, status |-> "OPEN", pipeline |-> p,
     stage |-> s, chance |-> row[s].chance, owner |-> user, value |-> 0]
Activity(user) ==
    [kind |-> "activity", deleted |-> FALSE, archived |-> FALSE, status |-> "PENDING",
     assignee |-> user, priority |-> "LOW", due |-> 0]
Remark(i) == [kind |-> "remark", deleted |-> FALSE, of |-> i]    \* a note or a lead's activity

\* The fields whose changes are told, and those of them that no other call than
\* the one that tells of it may change.
Noted == {"status", "company", "value", "stage", "owner", "assignee", "due", "priority"}
Tracked ==
    [lead |-> {"status"}, contact |-> {"company"}, deal |-> {"value", "stage", "owner"},
     activity |-> {"assignee"}]
Untold == [f \in Noted |-> <<>>]

\* ---- statements of this component, besides those of Rows ----
\* recordTimeline() of a field that changed; the rows that only say that
\* something was done to the row are left out.
Note(i, field, from, to) ==
    [do |-> "note", id |-> i, field |-> field, change |-> [from |-> from, to |-> to]]
Assignment(i, user) == [do |-> "assignment", id |-> i, to |-> user]
Drop(ids) == [do |-> "drop", ids |-> ids]

Insertion(c) ==
    /\ ~Idle(c) /\ Head(todo[c]).do = "create" /\ Room
    /\ row' = [row EXCEPT ![NextId] = Head(todo[c]).set]
    /\ todo' = [todo EXCEPT ![c] = Tail(@)]
    /\ claimed' = IF row'[NextId].kind = "contact" /\ row'[NextId].primary
                  THEN claimed \cup {NextId} ELSE claimed
    /\ handed' = IF row'[NextId].kind = "lead"
                 THEN [handed EXCEPT ![NextId] = {row'[NextId].assignee}] ELSE handed
    /\ UNCHANGED <<begun, overlapped, died, timeline, history>>
WriteNote(c) ==
    /\ ~Idle(c) /\ Head(todo[c]).do = "note"
    /\ LET n == Head(todo[c])
       IN timeline' = [timeline EXCEPT ![n.id][n.field] = Append(@, n.change)]
    /\ todo' = [todo EXCEPT ![c] = Tail(@)]
    /\ UNCHANGED <<row, begun, overlapped, died, history, claimed, handed>>
WriteAssignment(c) ==
    /\ ~Idle(c) /\ Head(todo[c]).do = "assignment"
    /\ history' = [history EXCEPT ![Head(todo[c]).id] = @ \cup {Head(todo[c]).to}]
    /\ todo' = [todo EXCEPT ![c] = Tail(@)]
    /\ UNCHANGED <<row, begun, overlapped, died, timeline, claimed, handed>>
\* DELETE of a pipeline (with its stages) or a stage: a deal that refers to
\* one of them makes it fail.
StagesOf(p) == {s \in Ids : row[s].kind = "stage" /\ row[s].pipeline = p}
DropRows(c) ==
    /\ ~Idle(c) /\ Head(todo[c]).do = "drop"
    /\ LET gone == Head(todo[c]).ids \cup UNION {StagesOf(p) : p \in Head(todo[c]).ids}
       IN IF \/ \E i \in Head(todo[c]).ids : ~Exists(i)
             \/ \E i \in Ids : row[i].kind = "deal" /\ {row[i].pipeline, row[i].stage} \cap gone # {}
          THEN Throw(c)
          ELSE /\ row' = [i \in Ids |-> IF i \in gone THEN Gone ELSE row[i]]
               /\ todo' = [todo EXCEPT ![c] = Tail(@)]
               /\ UNCHANGED <<begun, overlapped, died>>
    /\ UNCHANGED <<timeline, history, claimed, handed>>

\* ---- what most handlers do: find the row and update it, and Track, tell the timeline ----
History == UNCHANGED <<timeline, history, claimed, handed>>
CrmNew(c, fields) == BeginInsert(c, <<Insert(fields)>>) /\ History
Change(c, i, kind, fields) ==
    Found(i, kind) /\ Begin(c, <<Set(i, fields)>>) /\ History
Track(c, i, kind, field, to) ==
    /\ Found(i, kind)
    /\ Begin(c, <<[do |-> "update", ids |-> {i}, set |-> [f \in {field} |-> to]],
                  Note(i, field, row[i][field], to)>>)
    /\ History
SoftDelete(c, i, kind) == Found(i, kind) /\ Begin(c, <<Set(i, [deleted |-> TRUE])>>) /\ History
CrmArchive(c, i, kind) == Change(c, i, kind, [archived |-> TRUE])
CrmRestore(c, i, kind) == Change(c, i, kind, [archived |-> FALSE])
Comment(c, i, kind) ==
    Found(i, kind) /\ BeginInsert(c, <<Insert(Remark(i))>>) /\ History

\* ---- CrmService: leads ----
CreateLead(c) == \E u \in Users : CrmNew(c, Lead(u))
StatusNote(i, status) ==
    IF status # row[i].status THEN <<Note(i, "status", row[i].status, status)>> ELSE <<>>
UpdateLead(c, i) ==
    /\ Found(i, "lead")
    /\ \/ \E s \in LeadStatuses :
             Begin(c, <<Set(i, [status |-> s])>> \o StatusNote(i, s)) /\ UNCHANGED handed
       \/ \E u \in Users :
             /\ Begin(c, <<Set(i, [assignee |-> u])>>)
             /\ handed' = [handed EXCEPT ![i] = @ \cup {u}]
    /\ UNCHANGED <<timeline, history, claimed>>
ArchiveLead(c, i) == CrmArchive(c, i, "lead")
RestoreLead(c, i) == CrmRestore(c, i, "lead")
DeleteLead(c, i) == SoftDelete(c, i, "lead")
\* Mutant: the row is assigned before the history says so.
AssignFirst(c, i) ==
    /\ Found(i, "lead")
    /\ \E u \in Users : Begin(c, <<Set(i, [assignee |-> u]), Assignment(i, u)>>)
    /\ History
AssignLead(c, i) ==
    /\ Found(i, "lead")
    /\ \E u \in Users : Begin(c, <<Assignment(i, u), Set(i, [assignee |-> u])>>)
    /\ History
CreateLeadNote(c, i) == Comment(c, i, "lead")
UpdateLeadNote(c, i) ==
    Found(i, "remark") /\ Found(row[i].of, "lead") /\ Begin(c, <<Set(i, [of |-> row[i].of])>>) /\ History
DeleteLeadNote(c, i) ==
    Found(i, "remark") /\ Found(row[i].of, "lead") /\ SoftDelete(c, i, "remark")
CreateLeadActivity(c, i) == Comment(c, i, "lead")

\* ---- CrmService: companies ----
CreateCompany(c) == CrmNew(c, Company)
UpdateCompany(c, i) == Change(c, i, "company", [of |-> 0])
ArchiveCompany(c, i) == CrmArchive(c, i, "company")
RestoreCompany(c, i) == CrmRestore(c, i, "company")
DeleteCompany(c, i) == SoftDelete(c, i, "company")
CreateCompanyNote(c, i) == Comment(c, i, "company")
CreateCompanyActivity(c, i) == Comment(c, i, "company")

\* ---- ContactsService ----
CreateContact(c) == \E u \in Users, p \in BOOLEAN : CrmNew(c, Contact(u, p))
UpdateContact(c, i) ==
    /\ Found(i, "contact")
    /\ \E p \in BOOLEAN :
          /\ Begin(c, <<Set(i, [primary |-> p])>>)
          /\ claimed' = IF p THEN claimed \cup {i} ELSE claimed
    /\ UNCHANGED <<timeline, history, handed>>
ArchiveContact(c, i) == CrmArchive(c, i, "contact")
RestoreContact(c, i) == CrmRestore(c, i, "contact")
DeleteContact(c, i) == SoftDelete(c, i, "contact")
OtherPrimaries(i) ==
    {j \in Ids : row[j].kind = "contact" /\ row[j].owner = row[i].owner /\ row[j].primary} \ {i}
\* Mutant: nobody else's mark is cleared.
SetPrimaryOnly(c, i) == Change(c, i, "contact", [primary |-> TRUE])
\* Its updateMany() chooses the rows when it runs: see ClearPrimaries.
SetPrimary(c, i) ==
    /\ Found(i, "contact")
    /\ Begin(c, <<[do |-> "clearPrimary", id |-> i], Set(i, [primary |-> TRUE])>>)
    /\ History
ClearPrimaries(c) ==
    /\ ~Idle(c) /\ Head(todo[c]).do = "clearPrimary"
    /\ LET i == Head(todo[c]).id
       IN /\ row' = [j \in Ids |->
                IF j \in OtherPrimaries(i) THEN [row[j] EXCEPT !.primary = FALSE] ELSE row[j]]
          /\ claimed' = claimed \ (OtherPrimaries(i) \cup {i})
    /\ todo' = [todo EXCEPT ![c] = Tail(@)]
    /\ UNCHANGED <<begun, overlapped, died, timeline, history, handed>>
SetDecisionMaker(c, i) == Change(c, i, "contact", [decider |-> TRUE])
MoveCompany(c, i) == \E k \in Ids : row[k].kind = "company" /\ Track(c, i, "contact", "company", k)

\* ---- DealsService: pipelines and stages; nothing is written to a timeline ----
CreatePipeline(c) == BeginInsert(c, <<Insert(Pipeline)>>) /\ History
CrmWrite(c, i, kind, fields) == row[i].kind = kind /\ Begin(c, <<Set(i, fields)>>) /\ History
UpdatePipeline(c, p) == CrmWrite(c, p, "pipeline", [default |-> TRUE])
ArchivePipeline(c, p) == CrmWrite(c, p, "pipeline", [archived |-> TRUE])
RestorePipeline(c, p) == CrmWrite(c, p, "pipeline", [archived |-> FALSE])
DeletePipeline(c, p) == row[p].kind = "pipeline" /\ Begin(c, <<Drop({p})>>) /\ History
Least(p) == Cardinality({s \in Ids : row[s].kind = "stage" /\ row[s].pipeline = p})
CreateStage(c, p) ==
    row[p].kind = "pipeline" /\ BeginInsert(c, <<Insert(Stage(p, Least(p)))>>) /\ History
UpdateStage(c, s) == CrmWrite(c, s, "stage", [chance |-> 1])
ReorderStages(c, p) ==
    /\ row[p].kind = "pipeline" /\ StagesOf(p) # {}
    /\ Begin(c, SetToSeq({Set(s, [order |-> s]) : s \in StagesOf(p)})) /\ History
DeleteStage(c, s) == row[s].kind = "stage" /\ Begin(c, <<Drop({s})>>) /\ History

\* ---- DealsService: deals ----
\* create() takes a stage of any pipeline, whatever pipelineId says.
CreateDeal(c) ==
    \E p, s \in Ids :
        /\ row[p].kind = "pipeline" /\ row[s].kind = "stage"
        /\ \E u \in Users : CrmNew(c, Deal(u, p, s))
ValueNote(i, v) == IF v # row[i].value THEN <<Note(i, "value", row[i].value, v)>> ELSE <<>>
UpdateDeal(c, i) ==
    /\ Found(i, "deal")
    /\ \E v \in Values : Begin(c, <<Set(i, [value |-> v])>> \o ValueNote(i, v))
    /\ History
MoveStage(c, i) ==
    /\ Found(i, "deal")
    /\ \E s \in Ids :
          /\ row[s].kind = "stage"
          /\ Begin(c, <<Set(i, [stage |-> s, chance |-> row[s].chance]),
                        Note(i, "stage", row[i].stage, s)>>)
    /\ History
ChangeOwner(c, i) == \E u \in Users : Track(c, i, "deal", "owner", u)
MarkWon(c, i) == Change(c, i, "deal", [status |-> "WON"])
MarkLost(c, i) == Change(c, i, "deal", [status |-> "LOST"])
ArchiveDeal(c, i) == Change(c, i, "deal", [archived |-> TRUE, status |-> "ARCHIVED"])
RestoreDeal(c, i) == Change(c, i, "deal", [archived |-> FALSE, status |-> "OPEN"])
DeleteDeal(c, i) == SoftDelete(c, i, "deal")

\* ---- ActivitiesService ----
CreateActivity(c) == \E u \in Users : CrmNew(c, Activity(u))
UpdateActivity(c, i) == \E p \in Priorities : Change(c, i, "activity", [priority |-> p])
CompleteActivity(c, i) == Change(c, i, "activity", [status |-> "COMPLETED"])
CancelActivity(c, i) == Change(c, i, "activity", [status |-> "CANCELLED"])
ArchiveActivity(c, i) == CrmArchive(c, i, "activity")
RestoreActivity(c, i) == CrmRestore(c, i, "activity")
DeleteActivity(c, i) == SoftDelete(c, i, "activity")
AssignActivity(c, i) == \E u \in Users : Track(c, i, "activity", "assignee", u)
ChangeDueDate(c, i) == \E d \in Values : Track(c, i, "activity", "due", d)
ChangePriority(c, i) == \E p \in Priorities : Track(c, i, "activity", "priority", p)

\* The columns the timeline and the marks are about; an owner has one primary
\* contact.
CrmColumns ==
    [lead |-> {"status", "assignee"}, contact |-> {"owner", "company", "primary"},
     deal |-> {"value", "stage", "owner"}, activity |-> {"assignee"}]
OfCrm(r) ==
    "kind" \in DOMAIN r /\ (r.kind \in DOMAIN CrmColumns => CrmColumns[r.kind] \subseteq DOMAIN r)
IsPrimary(r) == r.kind = "contact" /\ r.primary
PrimariesApart(tab, but) ==
    \A i, j \in Ids \ but : IsPrimary(tab[i]) /\ IsPrimary(tab[j]) /\ tab[i].owner = tab[j].owner => i = j
ASSUME CrmAssumption ==
    \A start \in CrmStarts :
        DOMAIN start = Ids /\ (\A i \in Ids : OfCrm(start[i])) /\ PrimariesApart(start, {})

CrmInit ==
    /\ row \in CrmStarts /\ RowsInit
    /\ timeline = [i \in Ids |-> Untold] /\ history = [i \in Ids |-> {}] /\ claimed = {}
    /\ handed = [i \in Ids |-> IF row[i].kind = "lead" THEN {row[i].assignee} ELSE {}]

LeadCall(c) ==
    \/ CreateLead(c) \/ CreateCompany(c)
    \/ \E i \in Ids :
          \/ UpdateLead(c, i) \/ ArchiveLead(c, i) \/ RestoreLead(c, i) \/ DeleteLead(c, i)
          \/ AssignLead(c, i) \/ CreateLeadNote(c, i) \/ UpdateLeadNote(c, i)
          \/ DeleteLeadNote(c, i) \/ CreateLeadActivity(c, i)
          \/ UpdateCompany(c, i) \/ ArchiveCompany(c, i) \/ RestoreCompany(c, i)
          \/ DeleteCompany(c, i) \/ CreateCompanyNote(c, i) \/ CreateCompanyActivity(c, i)
ContactCall(c) ==
    \/ CreateContact(c)
    \/ \E i \in Ids :
          \/ UpdateContact(c, i) \/ ArchiveContact(c, i) \/ RestoreContact(c, i)
          \/ DeleteContact(c, i) \/ SetPrimary(c, i) \/ SetDecisionMaker(c, i) \/ MoveCompany(c, i)
DealCall(c) ==
    \/ CreatePipeline(c) \/ CreateDeal(c)
    \/ \E i \in Ids :
          \/ UpdatePipeline(c, i) \/ ArchivePipeline(c, i) \/ RestorePipeline(c, i)
          \/ DeletePipeline(c, i) \/ CreateStage(c, i) \/ UpdateStage(c, i)
          \/ ReorderStages(c, i) \/ DeleteStage(c, i) \/ UpdateDeal(c, i) \/ MoveStage(c, i)
          \/ ChangeOwner(c, i) \/ MarkWon(c, i) \/ MarkLost(c, i) \/ ArchiveDeal(c, i)
          \/ RestoreDeal(c, i) \/ DeleteDeal(c, i)
ActivityCall(c) ==
    \/ CreateActivity(c)
    \/ \E i \in Ids :
          \/ UpdateActivity(c, i) \/ CompleteActivity(c, i) \/ CancelActivity(c, i)
          \/ ArchiveActivity(c, i) \/ RestoreActivity(c, i) \/ DeleteActivity(c, i)
          \/ AssignActivity(c, i) \/ ChangeDueDate(c, i) \/ ChangePriority(c, i)
CrmStatement(c) ==
    \/ (Update(c) \/ Die(c)) /\ History
    \/ Insertion(c) \/ WriteNote(c) \/ WriteAssignment(c) \/ DropRows(c) \/ ClearPrimaries(c)

CrmNext ==
    \E c \in Callers :
        \/ Ready(c) /\ (LeadCall(c) \/ ContactCall(c) \/ DealCall(c) \/ ActivityCall(c))
        \/ CrmStatement(c)
CrmSpec == CrmInit /\ [][CrmNext]_crmVars

-----------------------------------------------------------------------------
\* Between calls that did not overlap or die, the timeline can be replayed:
\* each change of a tracked field starts from what the one before it led to,
\* and the last leads to the value the row has now.
TimelineReplays ==
    Orderly /\ Quiet =>
        \A i \in Ids : row[i].kind \in DOMAIN Tracked => \A f \in Tracked[row[i].kind] :
            LET told == timeline[i][f]
            IN /\ \A k \in 2..Len(told) : told[k].from = told[k - 1].to
               /\ told # <<>> => told[Len(told)].to = row[i][f]

\* Even if calls overlap and die, nobody was made a lead's assignee by
\* assign() without the assignment history saying so.
AssignmentsRecorded ==
    \A i \in Ids : row[i].kind = "lead" => row[i].assignee \in history[i] \cup handed[i]

\* As long as calls do not overlap or die, at most one contact of an owner is
\* primary by setPrimary(); create() and update() may add others after it.
OnePrimary ==
    Orderly /\ Quiet => \A i, j \in Ids \ claimed :
        /\ row[i].kind = "contact" /\ row[j].kind = "contact" /\ row[i].owner = row[j].owner
        /\ row[i].primary /\ row[j].primary
        => i = j
=============================================================================
