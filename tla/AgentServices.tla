----------------------------- MODULE AgentServices -----------------------------
(***************************************************************************)
(* The execution scheduler and the messaging service of the agents         *)
(* (src/ai/multi-agent).  A scheduled task waits for the timer of its      *)
(* delay or of its retry; the map remembers one timer for a task, so that  *)
(* an earlier one can no longer be cleared.  A request waits for an answer *)
(* with its correlation id, which its own delivery already carries.        *)
(***************************************************************************)
EXTENDS Naturals, FiniteSets

CONSTANTS
    Tasks, Mails, Inboxes,  \* ids of tasks, of messages (each used once), agents' names
    MaxFailures             \* bound: calls of markFailed for a task

VARIABLES
    due,        \* the tasks: status, attempts, retryCount
    timers,     \* by task, its running timers: of which kind, and whether the map has it
    inbox,      \* by agent, what has been delivered and not acknowledged
    waiting,    \* pendingRequests: the sendAndWait() calls not settled
    settled     \* what each sendAndWait() call ended with

agentServiceVars == <<due, timers, inbox, waiting, settled>>
Mailing == <<inbox, waiting, settled>>
Scheduling == <<due, timers>>

\* schedule(): with a delay the task is pending until a timer makes it run.
Schedule(t) ==
    /\ due[t].status = "none"
    /\ \E delayed \in BOOLEAN, retries \in {0, 2} :
         /\ due' = [due EXCEPT ![t] = [status |-> IF delayed THEN "pending" ELSE "running",
                                       attempts |-> 0, retries |-> retries]]
         /\ timers' = IF delayed THEN [timers EXCEPT ![t] = {[kind |-> "delay", attempt |-> 0]}] ELSE timers
    /\ UNCHANGED Mailing
\* The timer the map has is the last that was set, running or not.
Latest(t) == IF due[t].attempts < due[t].retries THEN due[t].attempts ELSE due[t].retries
CancelTask(t) ==
    /\ due[t].status # "none"
    /\ timers' = [timers EXCEPT ![t] = {x \in @ : x.attempt # Latest(t)}]
    /\ due' = [due EXCEPT ![t].status = "cancelled"]
    /\ UNCHANGED Mailing
\* A delayed task runs if it is still pending; a retry runs whatever the
\* task became meanwhile, completed or cancelled.
TimerFires(t) ==
    /\ \E x \in timers[t] :
         /\ timers' = [timers EXCEPT ![t] = @ \ {x}]
         /\ due' = IF x.kind = "retry" \/ due[t].status = "pending"
                   THEN [due EXCEPT ![t].status = "running"] ELSE due
    /\ UNCHANGED Mailing
\* markCompleted() and markFailed() check nothing; processNext() only reads:
\* two callers get the same task, and also one that is pending.
MarkCompleted(t) ==
    /\ due[t].status # "none"
    /\ due' = [due EXCEPT ![t].status = "completed"]
    /\ UNCHANGED <<timers, inbox, waiting, settled>>
SetRetry(t, attempt) == timers[t] \cup {[kind |-> "retry", attempt |-> attempt]}
MarkFailed(t) ==
    /\ due[t].status # "none" /\ due[t].attempts < MaxFailures
    /\ LET attempt == due[t].attempts + 1
           again == attempt <= due[t].retries
       IN /\ due' = [due EXCEPT ![t].attempts = attempt,
                                ![t].status = IF again THEN "pending" ELSE "failed"]
          /\ timers' = IF again THEN [timers EXCEPT ![t] = SetRetry(t, attempt)] ELSE timers
    /\ UNCHANGED Mailing

-----------------------------------------------------------------------------
Deliver(m, targets) == [a \in Inboxes |-> IF a \in targets THEN inbox[a] \cup {m} ELSE inbox[a]]
Unsent(m) == settled[m] = "unsent"
\* send() and broadcast(): one message, a copy in every target's inbox.
SendTo(m, targets) ==
    /\ Unsent(m)
    /\ inbox' = Deliver(m, targets)
    /\ settled' = [settled EXCEPT ![m] = "sent"]
    /\ UNCHANGED <<waiting, due, timers>>
\* sendAndWait(): the delivery finds the correlation id it carries waiting,
\* and resolves the call with the request itself; without a target it waits.
SendAndWait(m, targets) ==
    /\ Unsent(m) /\ Cardinality(targets) <= 1
    /\ inbox' = Deliver(m, targets)
    /\ settled' = [settled EXCEPT ![m] = IF targets = {} THEN "waiting" ELSE "request"]
    /\ waiting' = IF targets = {} THEN waiting \cup {m} ELSE waiting
    /\ UNCHANGED Scheduling
ResponseTimesOut(m) ==
    /\ m \in waiting
    /\ waiting' = waiting \ {m}
    /\ settled' = [settled EXCEPT ![m] = "timeout"]
    /\ UNCHANGED <<inbox, due, timers>>
\* acknowledge() takes the copy out of the first inbox that has one, which
\* is not always that of the agent that acknowledges.
Acknowledge(m) ==
    /\ \E a \in Inboxes : m \in inbox[a] /\ inbox' = [inbox EXCEPT ![a] = @ \ {m}]
    /\ UNCHANGED <<waiting, settled, due, timers>>

-----------------------------------------------------------------------------
AgentServiceInit ==
    /\ due = [t \in Tasks |-> [status |-> "none", attempts |-> 0, retries |-> 0]]
    /\ timers = [t \in Tasks |-> {}]
    /\ inbox = [a \in Inboxes |-> {}]
    /\ waiting = {} /\ settled = [m \in Mails |-> "unsent"]
AgentServiceNext ==
    \/ \E t \in Tasks :
         Schedule(t) \/ CancelTask(t) \/ TimerFires(t) \/ MarkCompleted(t) \/ MarkFailed(t)
    \/ \E m \in Mails :
         \/ \E targets \in SUBSET Inboxes : SendTo(m, targets) \/ SendAndWait(m, targets)
         \/ ResponseTimesOut(m) \/ Acknowledge(m)

-----------------------------------------------------------------------------
\* What waits for a timer: a delayed task, a call of sendAndWait().
TaskWaits(t) == due[t].status = "pending"
MailWaits(m) == m \in waiting
=============================================================================
