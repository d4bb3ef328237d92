------------------------------- MODULE AgentRuns -------------------------------
(***************************************************************************)
(* Orchestrations (src/ai/multi-agent) down to the tools of their agents:  *)
(* the planner's subtasks, the coordinator that runs them level by level,  *)
(* the delegation that counts each agent's load, the agent executor's plan *)
(* and the pipeline that cuts a tool off after a time.  The executor and   *)
(* the pipeline answer every failure with success = false and never throw: *)
(* a delegation never fails over, a workflow never fails, and no step of a *)
(* plan finds its dependency unmet, whatever became of it.  What a tool    *)
(* that was cut off still does is not followed.                            *)
(***************************************************************************)
EXTENDS AgentPlans

CONSTANTS
    Orchestrations, \* ids, each used once
    Registered,     \* the agents registered
    Tools,          \* the tools registered
    Texts,          \* the requests
    Teams           \* the lists of agents that are asked by name

\* A team names each of its agents once: a task is known by its agent.
ASSUME AgentAssumption ==
    /\ Registered \subseteq Agents /\ IsFiniteSet(Orchestrations)
    /\ \A names \in Teams : names \in Seq(Agents) /\ names # <<>> /\ IsInjective(names)

VARIABLES
    orch,       \* mode, text, levels of subtasks, the level it is at, success
    task,       \* by orchestration and subtask: status and what is left of its plan
    workload,   \* activeTasks of each agent
    activeRequests  \* what getActiveOrchestrations() lists

agentVars == <<orch, task, workload, activeRequests>>

\* "dag" is coordinated, "pipeline" and "tree" run as workflows, "agents" is
\* orchestrateWithAgents().
Modes == {"dag", "pipeline", "tree", "agents"}
Coordinated(o) == orch[o].mode = "dag"

\* decompose(): one subtask for each research agent, and the synthesis of
\* what they find; without any of them the text itself, to the first agent.
Researchers == {"sales", "finance", "inventory", "hr", "reporting"} \cap Registered
Synthesised(text) ==
    (Cardinality(Researchers) > 1 /\ "compare" \in text) \/ text \cap {"all", "overview"} # {}
Chosen(agents, found, a) == IF a \in agents THEN Append(found, a) ELSE found
Among(agents, order) == FoldLeft(LAMBDA found, a : Chosen(agents, found, a), <<>>, order)
Subtasks(text) ==
    LET found == Among(Researchers, AgentOrder) \o IF Synthesised(text) THEN <<"ceo">> ELSE <<>>
    IN IF found # <<>> THEN found
       ELSE <<IF Registered = {} THEN "ceo" ELSE Among(Registered, AgentOrder)[1]>>
\* The words of a subtask's description.
Description(a, text) ==
    IF a \in Researchers
    THEN text \cup {"data", a} \cup IF a = "reporting" THEN {"report"} ELSE {}
    ELSE IF Synthesised(text) THEN text \cup {"all"} ELSE text

\* getExecutionOrder(): a pipeline takes one after another, the rest those
\* whose dependencies are behind; the synthesis depends on all the others.
Levels(mode, text, names) ==
    LET asked == IF mode = "agents" THEN names ELSE Subtasks(text)
        first == ToSet(asked) \ {"ceo"}
    IN IF mode \in {"agents", "pipeline"} THEN [i \in DOMAIN asked |-> {asked[i]}]
       ELSE IF first = {} THEN <<{"ceo"}>>
       ELSE IF "ceo" \in ToSet(asked) THEN <<first, {"ceo"}>> ELSE <<first>>

-----------------------------------------------------------------------------
NoTask == [status |-> "none", left |-> <<>>, good |-> TRUE, tool |-> "rests"]
Failed == [NoTask EXCEPT !.status = "failed"]

\* Who executes: the agent that is named, or the best match of the text.
Route(mode, a, text) ==
    IF a \in Registered /\ mode \in {"dag", "agents"} THEN a
    ELSE IF mode = "agents" THEN "none" ELSE FindBestMatch(Registered, text)
\* execute() up to the first step: no agent, one that cannot handle the
\* text, or a plan with a tool nobody registered, and it is over.
Started(mode, a, text) ==
    LET says == IF mode = "agents" THEN text ELSE Description(a, text)
        by == Route(mode, a, says)
        plan == Plan(by, says)
    IN IF \/ by = "none"
          \/ /\ mode # "agents"
             /\ ~CanHandle(by, says) \/ \E i \in DOMAIN plan : plan[i].tool \notin Tools
       THEN Failed
       ELSE [NoTask EXCEPT !.status = "running", !.left = plan]

\* A level starts: all its subtasks, each counted for its agent until it ends.
Begun(o, mode, text, level) ==
    [k \in DOMAIN task |-> IF k[1] = o /\ k[2] \in level THEN Started(mode, k[2], text) ELSE task[k]]
Loaded(mode, text, level) ==
    [a \in Agents |->
        IF mode = "dag" /\ a \in level /\ Started(mode, a, text).status = "running"
        THEN workload[a] + 1 ELSE workload[a]]

Orchestrate(o) ==
    /\ orch[o].mode = "none"
    /\ \E mode \in Modes, text \in Texts :
         \E names \in IF mode = "agents" THEN Teams ELSE {<<>>} :
           LET levels == Levels(mode, text, names)
           IN /\ orch' = [orch EXCEPT ![o] =
                    [mode |-> mode, text |-> text, levels |-> levels, at |-> 1, success |-> FALSE]]
              /\ task' = Begun(o, mode, text, levels[1])
              /\ workload' = Loaded(mode, text, levels[1])
              /\ activeRequests' = IF mode = "agents" THEN activeRequests ELSE activeRequests \cup {o}

Underway(o) == orch[o].mode # "none" /\ orch[o].at > 0
\* cancel() only takes it off the list: nothing that runs stops.
Cancel(o) == o \in activeRequests /\ activeRequests' = activeRequests \ {o} /\ UNCHANGED <<orch, task, workload>>

\* The next step of a plan: the tool is missing or not permitted, or its input
\* is too large; or it is asked whether it accepts the input, if it has a
\* validate(); or it executes.
AtStep(k) == task[k].status = "running" /\ task[k].tool = "rests" /\ task[k].left # <<>>
Over(k, ok) ==
    task' = [task EXCEPT ![k].left = Tail(@), ![k].tool = "rests", ![k].good = @ /\ ok]
StepRefused(k) == AtStep(k) /\ Over(k, FALSE) /\ UNCHANGED <<orch, workload, activeRequests>>
Does(k, what) ==
    /\ task' = [task EXCEPT ![k].tool = what]
    /\ UNCHANGED <<orch, workload, activeRequests>>
ToolValidates(k) == AtStep(k) /\ Head(task[k].left).tool \in Tools /\ Does(k, "validates")
ToolStarts(k) == AtStep(k) /\ Head(task[k].left).tool \in Tools /\ Does(k, "executes")
\* validate() is awaited without a limit: its answer may never come.
InputAccepted(k) == task[k].tool = "validates" /\ Does(k, "executes")
InputRefused(k) ==
    task[k].tool = "validates" /\ Over(k, FALSE) /\ UNCHANGED <<orch, workload, activeRequests>>
\* execute() is cut off after a time.
ToolReturns(k) ==
    /\ task[k].tool = "executes"
    /\ \E ok \in BOOLEAN : Over(k, ok)
    /\ UNCHANGED <<orch, workload, activeRequests>>
Cut(k) == task[k].tool = "executes" /\ Over(k, FALSE) /\ UNCHANGED <<orch, workload, activeRequests>>
ToolTimesOut(k) == Cut(k)

Ended(k, status) == task' = [task EXCEPT ![k] = [NoTask EXCEPT !.status = status]]
Load(k) == workload[k[2]] - 1
TaskEnds(k) ==
    /\ task[k].status = "running" /\ task[k].tool = "rests" /\ task[k].left = <<>>
    /\ Ended(k, IF task[k].good THEN "ok" ELSE "failed")
    /\ workload' = IF Coordinated(k[1]) /\ workload[k[2]] > 0
                   THEN [workload EXCEPT ![k[2]] = Load(k)] ELSE workload
    /\ UNCHANGED <<orch, activeRequests>>

\* All the subtasks of a level have answered: a coordination stops when none
\* succeeded, the others go on; the last level ends it.
Outcomes(o, level) == {task[<<o, a>>].status : a \in level}
Settled(o) == Underway(o) /\ Outcomes(o, orch[o].levels[orch[o].at]) \subseteq {"ok", "failed"}
AllOk(o) ==
    \A i \in 1..orch[o].at : Outcomes(o, orch[o].levels[i]) = {"ok"}
Finish(o, success) ==
    /\ orch' = [orch EXCEPT ![o].at = 0, ![o].success = success]
    /\ activeRequests' = activeRequests \ {o}
    /\ UNCHANGED <<task, workload>>
Proceed(o) ==
    LET next == orch[o].at + 1
    IN /\ orch' = [orch EXCEPT ![o].at = next]
       /\ task' = Begun(o, orch[o].mode, orch[o].text, orch[o].levels[next])
       /\ workload' = Loaded(orch[o].mode, orch[o].text, orch[o].levels[next])
       /\ UNCHANGED activeRequests
LastLevel(o) == orch[o].at = Len(orch[o].levels)
Succeeds(o) == IF orch[o].mode \in {"dag", "agents"} THEN AllOk(o) ELSE TRUE
\* Mutant: the level after one that failed is run all the same.
LevelEndsRegardless(o) ==
    Settled(o) /\ IF LastLevel(o) THEN Finish(o, Succeeds(o)) ELSE Proceed(o)
LevelEnds(o) ==
    /\ Settled(o)
    /\ IF LastLevel(o) \/ (Coordinated(o) /\ Outcomes(o, orch[o].levels[orch[o].at]) = {"failed"})
       THEN Finish(o, Succeeds(o)) ELSE Proceed(o)

-----------------------------------------------------------------------------
AgentInit ==
    /\ orch = [o \in Orchestrations |->
                 [mode |-> "none", text |-> {}, levels |-> <<>>, at |-> 0, success |-> FALSE]]
    /\ task = [k \in Orchestrations \X Agents |-> NoTask]
    /\ workload = [a \in Agents |-> 0] /\ activeRequests = {}
\* What goes on by itself, and what waits for a tool to answer.
Goes(k) == StepRefused(k) \/ ToolValidates(k) \/ ToolStarts(k) \/ ToolTimesOut(k) \/ TaskEnds(k)
ToolAnswers(k) == InputAccepted(k) \/ InputRefused(k) \/ ToolReturns(k)
AgentNext ==
    \/ \E o \in Orchestrations : Orchestrate(o) \/ Cancel(o) \/ LevelEnds(o)
    \/ \E k \in Orchestrations \X Agents : Goes(k) \/ ToolAnswers(k)

-----------------------------------------------------------------------------
\* The load delegation sorts agents by is what really runs, so that it is
\* back at zero when all is over, and nothing is listed as active that is not.
WorkloadTells ==
    /\ \A a \in Agents :
         workload[a] = Cardinality({o \in Orchestrations :
                                      Coordinated(o) /\ task[<<o, a>>].status = "running"})
    /\ \A o \in activeRequests : Underway(o)
\* A coordination synthesises only what has been found: a level starts when
\* the one before has answered and one of its subtasks succeeded; success is
\* reported when every subtask of the plan succeeded.
SynthesisHasFindings ==
    \A o \in Orchestrations : orch[o].mode # "none" =>
        LET levels == orch[o].levels
        IN /\ \A i \in 2..Len(levels) : Outcomes(o, levels[i]) # {"none"} =>
                /\ Outcomes(o, levels[i - 1]) \subseteq {"ok", "failed"}
                /\ Coordinated(o) => "ok" \in Outcomes(o, levels[i - 1])
           /\ orch[o].success /\ orch[o].mode \in {"dag", "agents"} =>
                \A i \in DOMAIN levels : Outcomes(o, levels[i]) = {"ok"}
=============================================================================
