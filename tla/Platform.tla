------------------------------- MODULE Platform -------------------------------
(***************************************************************************)
(* The services that keep their state in the memory of the process: of the *)
(* AI platform the MCP sessions, agents and their orchestration, scheduler *)
(* and messages, conversations, the semantic cache, the knowledge base and *)
(* the gateway to the language models; the schedules of the job queue; and *)
(* the adapters of the payment gateways.  None works on the state of       *)
(* another: each behaviour exercises one of them, chosen when it begins,   *)
(* so that one run checks the properties of all.                           *)
(***************************************************************************)
EXTENDS McpSessions, AgentRuns, AgentServices, Conversations, Caches, Knowledge, Providers, PaymentGateways, Schedules

CONSTANT Parts      \* the services exercised

VARIABLE part       \* the one this behaviour exercises

platformVars == <<mcpVars, agentVars, agentServiceVars, chatVars, cacheVars, knowledgeVars,
                  providerVars, gatewayVars, webhookVars, scheduleVars, part>>

PlatformInit ==
    /\ part \in Parts
    /\ McpInit /\ AgentInit /\ AgentServiceInit /\ ConversationInit /\ CacheInit /\ KnowledgeInit
    /\ ProviderInit /\ GatewayInit /\ WebhookInit /\ ScheduleInit
    /\ part = "providers" \/ setup = CHOOSE s \in Setups : TRUE

\* The parts not exercised keep their state.
OthersStay ==
    /\ IF part = "mcp" THEN TRUE ELSE UNCHANGED mcpVars
    /\ IF part = "agents" THEN TRUE ELSE UNCHANGED agentVars
    /\ IF part = "agent services" THEN TRUE ELSE UNCHANGED agentServiceVars
    /\ IF part = "conversations" THEN TRUE ELSE UNCHANGED chatVars
    /\ IF part = "caches" THEN TRUE ELSE UNCHANGED cacheVars
    /\ IF part = "knowledge" THEN TRUE ELSE UNCHANGED knowledgeVars
    /\ IF part = "providers" THEN TRUE ELSE UNCHANGED providerVars
    /\ IF part = "payment gateways" THEN TRUE ELSE UNCHANGED gatewayVars
    /\ IF part = "webhooks" THEN TRUE ELSE UNCHANGED webhookVars
    /\ IF part = "schedules" THEN TRUE ELSE UNCHANGED scheduleVars

PlatformNext ==
    /\ \/ part = "mcp" /\ McpNext
       \/ part = "agents" /\ AgentNext
       \/ part = "agent services" /\ AgentServiceNext
       \/ part = "conversations" /\ ConversationNext
       \/ part = "caches" /\ CacheNext
       \/ part = "knowledge" /\ KnowledgeNext
       \/ part = "providers" /\ ProviderNext
       \/ part = "payment gateways" /\ GatewayNext
       \/ part = "webhooks" /\ WebhookNext
       \/ part = "schedules" /\ ScheduleNext
    /\ OthersStay
    /\ UNCHANGED part

\* A timer that was set fires unless it is cleared, and what the process
\* itself has to do is done, with the database, which answers or fails - a
\* provider is asked for its health for a limited time; that a tool, asked to
\* validate its input or to execute, a server, an agent or a model answers is
\* not assumed.
PlatformFairness ==
    /\ \A r \in Requests : WF_mcpVars(part = "mcp" /\ TimesOut(r))
    /\ \A o \in Orchestrations :
         WF_agentVars(part = "agents" /\ (LevelEnds(o) \/ \E a \in Agents : Goes(<<o, a>>)))
    /\ \A t \in Tasks : WF_agentServiceVars(part = "agent services" /\ TimerFires(t))
    /\ \A m \in Mails : WF_agentServiceVars(part = "agent services" /\ ResponseTimesOut(m))
    /\ \A r \in Prompts :
         WF_providerVars(part = "providers" /\ (AskCandidate(r) \/ LastResort(r) \/ AskAny(r)))

PlatformSpec == PlatformInit /\ [][PlatformNext]_platformVars /\ PlatformFairness

-----------------------------------------------------------------------------
\* What the exercised service waits for under this id: the answer to an MCP
\* request, the end of an orchestration, a delayed task, the answer to a
\* message, the selection of a provider.
Waiting(x) ==
    \/ part = "mcp" /\ x \in Requests /\ RequestWaits(x)
    \/ part = "agent services" /\ ((x \in Tasks /\ TaskWaits(x)) \/ (x \in Mails /\ MailWaits(x)))
    \/ part = "providers" /\ x \in Prompts /\ PromptWaits(x)

\* A tool of this orchestration is asked whether it accepts its input.
Validating(o) == part = "agents" /\ \E a \in Agents : task[<<o, a>>].tool = "validates"

\* What the platform waits for does not keep it waiting for ever, whatever
\* connections, agents and providers do and although tools may never end: only
\* a tool that never says whether it accepts its input keeps an orchestration
\* waiting, for that has no time limit (McpServerAdapter, AISandboxService,
\* ExecutionSchedulerService, AgentMessagingService, ProviderRouterService).
CallsSettle ==
    /\ \A x \in Requests \cup Tasks \cup Mails \cup Prompts : []<>~Waiting(x)
    /\ \A o \in Orchestrations : []<>~(part = "agents" /\ Underway(o)) \/ <>[]Validating(o)

\* The load of the agents is what they run, what is synthesised was found, and
\* whatever the request, the agents plan something, with none but the tools
\* that they declare (TaskDelegationService, TaskCoordinatorService, plan() and
\* requiredTools of each agent).
AgentsTell == WorkloadTells /\ SynthesisHasFindings /\ (part = "agents" => PlansDeclared)

\* The session of a user is of a conversation that goes on, and its tokens and
\* the context windows made of it are counted right (SessionMemoryService,
\* ContextWindowService).
ConversationsHold == SessionIsOpen /\ ContextTells

\* What is stored can be found and deleted again: a cache's indexes cover its
\* entries, a document's chunks are in both stores or in none, and an answer
\* is of the organisation's own chunks (MemoryCacheProvider,
\* KnowledgeManagerService, RagService).
IndexesHold == IndexesCover /\ ChunksCover /\ IndexAgrees /\ AnswersOwn

\* A timer goes on only for what is still there: an MCP session that is not
\* ended, a schedule that was not cancelled or paused (MCPSessionManager,
\* JobSchedulerService).
TimersHold == TimersOfSessions /\ SchedulesStop

\* Calls that are tried again, and webhooks delivered again, take effect once,
\* and a request finds a provider that is up (StripeProvider,
\* RazorpayProvider, ProviderRouterService).
AdaptersHold == MadeOnce /\ HandedOnce /\ SelectionHolds
===============================================================================
