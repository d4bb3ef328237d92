------------------------------ MODULE Providers ------------------------------
(***************************************************************************)
(* The gateway to the language models (src/ai/core, src/ai/providers): a   *)
(* request selects a provider by asking one after the other for its        *)
(* health, and is then handed to the one selected.  A provider may come    *)
(* up or go down at any time.                                              *)
(***************************************************************************)
EXTENDS Naturals, Sequences, SequencesExt

CONSTANTS
    Setups,     \* deployments: the providers enabled, and those with what it takes to reach them
    Preferences,    \* providers that a request may ask for; NoPreference among them
    Prompts     \* bound: requests, each sent once

\* AiModule.onModuleInit registers them in this order.
RegisteredProviders == <<"openai", "gemini", "claude", "ollama", "azure-openai", "bedrock">>
AllProviders == Range(RegisteredProviders)
DefaultProvider == "openai"
NoPreference == "none"
NoEmbeddings == {"claude", "bedrock"}

\* A key enables the first three; Ollama needs no key; Azure is enabled by
\* its endpoint and needs a key too; Bedrock is enabled by a region and
\* reached with other settings.
ASSUME SetupAssumption ==
    \A s \in Setups :
        /\ \A p \in {"openai", "gemini", "claude"} : p \in s.enabled <=> p \in s.reachable
        /\ "azure-openai" \in s.reachable => "azure-openai" \in s.enabled
        /\ s.enabled \cup s.reachable \subseteq AllProviders

VARIABLES
    setup, up,
    prompt      \* the requests: whom they will ask next, and what became of them

providerVars == <<setup, up, prompt>>

NotSent == [at |-> "none"]
Available(p) == p \in setup.reachable /\ p \in up
Configured(p) == p \in setup.enabled

\* buildCandidateList(): the one asked for, the one with the model, the
\* default one, and then all that are registered, none twice.
AddNew(list, p) == IF p = NoPreference \/ p \in Range(list) THEN list ELSE Append(list, p)
Candidates(preferred, byModel) ==
    FoldLeft(AddNew, <<>>, <<preferred, byModel, DefaultProvider>> \o RegisteredProviders)

SendPrompt(r) ==
    /\ prompt[r] = NotSent
    /\ \E kind \in {"chat", "embed"}, preferred \in Preferences, byModel \in {NoPreference, "claude"} :
         prompt' = [prompt EXCEPT ![r] =
            [at |-> "selecting", kind |-> kind, preferred |-> preferred, provider |-> NoPreference,
             left |-> Candidates(preferred, byModel), steady |-> up]]
    /\ UNCHANGED <<setup, up>>

\* selectProvider(): a name that is not registered is passed over.
AskCandidate(r) ==
    /\ prompt[r].at = "selecting" /\ prompt[r].left # <<>>
    /\ LET p == Head(prompt[r].left)
       IN prompt' = IF p \in AllProviders /\ Available(p) /\ Configured(p)
                    THEN [prompt EXCEPT ![r].at = "selected", ![r].provider = p, ![r].left = <<>>]
                    ELSE [prompt EXCEPT ![r].left = Tail(@)]
    /\ UNCHANGED <<setup, up>>
\* tryAnyAvailable() does not ask whether the provider is enabled.
LastResort(r) ==
    /\ prompt[r].at = "selecting" /\ prompt[r].left = <<>>
    /\ prompt' = [prompt EXCEPT ![r].at = "any", ![r].left = RegisteredProviders]
    /\ UNCHANGED <<setup, up>>
AskAny(r) ==
    /\ prompt[r].at = "any"
    /\ LET left == prompt[r].left
       IN prompt' = IF left = <<>> THEN [prompt EXCEPT ![r].at = "unavailable"]
                    ELSE IF Available(Head(left))
                    THEN [prompt EXCEPT ![r].at = "selected", ![r].provider = Head(left), ![r].left = <<>>]
                    ELSE [prompt EXCEPT ![r].left = Tail(@)]
    /\ UNCHANGED <<setup, up>>

\* The provider refuses when it is disabled, or does not embed; the call
\* itself has no timeout: it may be answered, fail, or hang.
Hand(r) ==
    /\ prompt[r].at = "selected"
    /\ LET p == prompt[r].provider
           refuses == ~Configured(p) \/ (prompt[r].kind = "embed" /\ p \in NoEmbeddings)
       IN prompt' = [prompt EXCEPT ![r].at = IF refuses THEN "refused" ELSE "calling"]
    /\ UNCHANGED <<setup, up>>
Returns(r) ==
    /\ prompt[r].at = "calling"
    /\ \/ Available(prompt[r].provider) /\ prompt' = [prompt EXCEPT ![r].at = "answered"]
       \/ prompt' = [prompt EXCEPT ![r].at = "failed"]
    /\ UNCHANGED <<setup, up>>

ComesUp(p) ==
    /\ up' = up \cup {p} /\ p \notin up
    /\ UNCHANGED <<setup, prompt>>
GoesDown(p) ==
    /\ up' = up \ {p} /\ p \in up
    /\ prompt' = [r \in Prompts |-> IF prompt[r].at \in {"selecting", "any"}
                                    THEN [prompt[r] EXCEPT !.steady = @ \ {p}] ELSE prompt[r]]
    /\ UNCHANGED setup

ProviderInit ==
    /\ setup \in Setups /\ up = setup.reachable
    /\ prompt = [r \in Prompts |-> NotSent]

ProviderNext ==
    \/ \E r \in Prompts :
         SendPrompt(r) \/ AskCandidate(r) \/ LastResort(r) \/ AskAny(r) \/ Hand(r) \/ Returns(r)
    \/ \E p \in setup.reachable : ComesUp(p) \/ GoesDown(p)

-----------------------------------------------------------------------------
\* While some enabled provider is up all the time that a request selects, the
\* request is not turned away, and goes to an enabled one - to the one asked
\* for, if that is one of them (ProviderRouterService).
SelectionHolds ==
    \A r \in Prompts : prompt[r].at \notin {"none", "selecting", "any"} =>
        LET steady == prompt[r].steady \cap setup.enabled \cap setup.reachable
        IN /\ steady # {} => prompt[r].at # "unavailable" /\ Configured(prompt[r].provider)
           /\ prompt[r].preferred \in steady => prompt[r].provider = prompt[r].preferred

\* A prompt waits while providers are asked for their health.
PromptWaits(r) == prompt[r].at \in {"selecting", "any"}
==============================================================================
