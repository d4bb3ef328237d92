--------------------------- MODULE PaymentGateways ---------------------------
(***************************************************************************)
(* The adapters of Stripe and Razorpay (src/billing/providers): a checkout *)
(* or a refund is tried up to three times, with an idempotency key where   *)
(* the adapter sends one, over a connection that may lose the request or   *)
(* the answer; and the gateway delivers each webhook one or more times.    *)
(* The gateways themselves are external: they do once what comes again     *)
(* under the same key.                                                     *)
(***************************************************************************)
EXTENDS Naturals, FiniteSets

CONSTANTS
    Orders,         \* what may be asked of a gateway: its gateway, kind, subject and amount
    Errands,        \* bound: calls of createCheckout() and refund(), each used once
    Events,         \* webhook events, with an id
    RememberedEvents    \* 10000 in the code

Gateways == {"stripe", "razorpay"}
MaxAttempts == 3

VARIABLES
    errand,         \* the calls in progress or over
    done,           \* external: how often the gateway did what was asked
    keys,           \* external: the idempotency keys the gateway has seen
    processedWebhookIds,
    handed          \* history: how often an event was handed on since its gateway's ids were forgotten

gatewayVars == <<errand, done, keys>>
webhookVars == <<processedWebhookIds, handed>>

NotBegun == [at |-> "none"]
NoKey == <<>>
NoneProcessed == [g \in Gateways |-> {}]
NoneHanded == [g \in Gateways |-> [e \in Events |-> 0]]

\* Mutant: the key is made for the attempt.
KeyOfAttempt(o, attempt) ==
    IF o.gateway = "razorpay" /\ o.kind = "refund" THEN NoKey ELSE <<o, attempt>>
\* A hash of the parameters; Razorpay's refunds carry none.
IdempotencyKey(o, attempt) ==
    IF o.gateway = "razorpay" /\ o.kind = "refund" THEN NoKey ELSE <<o>>

Begin(x) ==
    /\ errand[x] = NotBegun
    /\ \E o \in Orders :
         errand' = [errand EXCEPT ![x] = [at |-> "trying", order |-> o, attempt |-> 1,
                                          did |-> 0, lost |-> 0]]
    /\ UNCHANGED <<done, keys>>

\* The gateway does what is asked unless it has seen the key.
Perform(x) ==
    LET o == errand[x].order
        key == IdempotencyKey(o, errand[x].attempt)
    IN /\ done' = IF key \in keys THEN done ELSE [done EXCEPT ![o] = @ + 1]
       /\ keys' = IF key = NoKey THEN keys ELSE keys \cup {key}
Anew(x) == IF IdempotencyKey(errand[x].order, errand[x].attempt) \in keys THEN 0 ELSE 1

\* withRetry(): after a delay it is tried again, three times in all.
Thrown(x, did, lost) ==
    [errand[x] EXCEPT !.did = @ + did, !.lost = @ + lost,
                      !.at = IF errand[x].attempt < MaxAttempts THEN "waiting" ELSE "failed"]
Answered(x) ==
    /\ errand[x].at = "trying"
    /\ Perform(x)
    /\ errand' = [errand EXCEPT ![x].at = "succeeded", ![x].did = @ + Anew(x)]
AnswerLost(x) ==
    /\ errand[x].at = "trying"
    /\ Perform(x)
    /\ errand' = [errand EXCEPT ![x] = Thrown(x, Anew(x), 1)]
NotReached(x) ==
    /\ errand[x].at = "trying"
    /\ errand' = [errand EXCEPT ![x] = Thrown(x, 0, 0)]
    /\ UNCHANGED <<done, keys>>
TryAgain(x) ==
    /\ errand[x].at = "waiting"
    /\ errand' = [errand EXCEPT ![x].at = "trying", ![x].attempt = @ + 1]
    /\ UNCHANGED <<done, keys>>

\* The process ends, and its calls with it.
Dies ==
    /\ \E x \in Errands : errand[x].at \in {"trying", "waiting"}
    /\ errand' = [x \in Errands |-> IF errand[x].at \in {"trying", "waiting"}
                                    THEN [errand[x] EXCEPT !.at = "died"] ELSE errand[x]]
    /\ UNCHANGED <<done, keys>>

GatewayInit ==
    /\ errand = [x \in Errands |-> NotBegun]
    /\ done = [o \in Orders |-> 0] /\ keys = {}

GatewayNext ==
    \/ \E x \in Errands : Begin(x) \/ Answered(x) \/ AnswerLost(x) \/ NotReached(x) \/ TryAgain(x)
    \/ Dies

-----------------------------------------------------------------------------
(* handleWebhook() of an event with an id, of which the signature was right *)
WebhookArrives(g, e) ==
    /\ e \notin processedWebhookIds[g]
    /\ LET ids == processedWebhookIds[g] \cup {e}
           forgets == Cardinality(ids) > RememberedEvents
       IN /\ processedWebhookIds' = [processedWebhookIds EXCEPT ![g] = IF forgets THEN {} ELSE ids]
          /\ handed' = IF forgets THEN [handed EXCEPT ![g] = NoneHanded[g]]
                       ELSE [handed EXCEPT ![g][e] = @ + 1]

\* The process starts again, without the ids.
Restart == processedWebhookIds' = NoneProcessed /\ handed' = NoneHanded

WebhookInit == processedWebhookIds = NoneProcessed /\ handed = NoneHanded

WebhookNext == Restart \/ \E g \in Gateways, e \in Events : WebhookArrives(g, e)

-----------------------------------------------------------------------------
\* However often it is called, tried again after a lost answer or called
\* anew after a restart, a checkout, or a refund by Stripe, is made once;
\* a call does more than one refund by Razorpay only when it lost an answer;
\* a call that succeeds has been done, and one that fails without having lost
\* an answer has done nothing (withRetry() and the idempotency keys).
MadeOnce ==
    /\ \A o \in Orders : IdempotencyKey(o, 1) # NoKey => done[o] <= 1
    /\ \A x \in Errands : errand[x] # NotBegun =>
         /\ errand[x].at = "succeeded" => done[errand[x].order] >= 1 /\ errand[x].did <= errand[x].lost + 1
         /\ errand[x].at = "failed" /\ errand[x].lost = 0 => errand[x].did = 0

\* A webhook delivered again is not handed on again, as long as its id is
\* remembered (processedWebhookIds of both adapters).
HandedOnce == \A g \in Gateways, e \in Events : handed[g][e] <= 1
==============================================================================
