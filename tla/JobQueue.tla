------------------------------ MODULE JobQueue ------------------------------
(***************************************************************************)
(* The AI job queue (src/ai/queue): QueueManagerService with the           *)
(* in-memory provider, the dispatcher, the retry manager with its circuit  *)
(* breaker, the dead letter manager, the scheduler and the progress        *)
(* tracker.  All of it lives in the memory of one Node process, and its    *)
(* methods await nothing but each other and the job processor: a step is   *)
(* what runs between two waits, of a caller, a timer, or a worker that     *)
(* waits for a processor.                                                  *)
(***************************************************************************)
EXTENDS Integers, Sequences, SequencesExt

CONSTANTS
    Jobs,         \* the ids that generateId can hand out
    Workers,      \* the concurrent calls of processAllPending
    Types,        \* job types
    Handled,      \* those a processor is registered for
    MaxRetries,  \* options.maxRetries of every job, and of the retry policy
    Threshold,    \* RetryManager.circuitThreshold
    Settings      \* capacity: jobs the provider's queue holds at most; pausing: the
                  \* queue may be paused; resets: retries may be 30 seconds
                  \* apart, which closes a circuit

ASSUME BoundsAssumption ==
    /\ Handled \subseteq Types
    /\ MaxRetries \in Nat \ {0} /\ Threshold \in Nat \ {0}
    /\ Settings \subseteq [capacity: Nat \ {0}, pausing: BOOLEAN, resets: BOOLEAN]

\* There are finitely many ids of the form that generateId builds; "none" is
\* not of that form.
ASSUME JobsAssumption == IsFiniteSet(Jobs) /\ "none" \notin Jobs

VARIABLES
    record,       \* the job as JobPersistenceService has it
    progress,     \* its status in the progress tracker
    queue,        \* the copies of jobs that wait in the provider
    delayed,      \* the copy that a retry timer of the provider holds
    scheduled,    \* the jobs with a timer of the scheduler
    active,       \* ids handed to a worker and not yet acknowledged or failed
    worker,       \* per worker: is it draining the queue, the copy it runs
    circuit,      \* per job: failures counted, is it open
    dlq,          \* dead letter entries per job
    paused,
    setting       \* of this process

vars == <<record, progress, queue, delayed, scheduled, active, worker, circuit, dlq,
          paused, setting>>

Terminal == {"completed", "failed"}
Status == Terminal \cup {"queued", "processing", "cancelled", "delayed"}
NoRecord == [status |-> "absent"]
Record == [status: Status, attempts: Nat, type: Types]
NoCopy == [id |-> "none"]
Copy == [id: Jobs, attempts: Nat]

TypeOK ==
    /\ record \in [Jobs -> {NoRecord} \cup Record]
    /\ progress \in [Jobs -> Status \cup {"absent"}]
    /\ queue \in Seq(Copy) /\ Len(queue) <= setting.capacity
    /\ delayed \in [Jobs -> {NoCopy} \cup Copy]
    /\ scheduled \subseteq Jobs /\ active \subseteq Jobs
    /\ worker \in [Workers -> [draining: BOOLEAN, runs: {NoCopy} \cup Copy]]
    /\ circuit \in [Jobs -> [failures: 0 .. Threshold, open: BOOLEAN]]
    /\ dlq \in [Jobs -> Nat]
    /\ paused \in BOOLEAN
    /\ setting \in Settings

Empty ==
    [record |-> [j \in Jobs |-> NoRecord], progress |-> [j \in Jobs |-> "absent"],
     delayed |-> [j \in Jobs |-> NoCopy],
     worker |-> [w \in Workers |-> [draining |-> FALSE, runs |-> NoCopy]],
     circuit |-> [j \in Jobs |-> [failures |-> 0, open |-> FALSE]],
     none |-> [j \in Jobs |-> 0]]

Init ==
    /\ record = Empty.record /\ progress = Empty.progress
    /\ queue = <<>> /\ delayed = Empty.delayed
    /\ scheduled = {} /\ active = {}
    /\ worker = Empty.worker /\ circuit = Empty.circuit
    /\ dlq = Empty.none
    /\ paused = FALSE
    /\ setting \in Settings

Unsaved(j) == record[j] = NoRecord
InQueue(j) == \E k \in DOMAIN queue : queue[k].id = j
Running(j) == \E w \in Workers : worker[w].runs.id = j
Refuses == paused \/ Len(queue) >= setting.capacity

Save(j, type, s) == record' = [record EXCEPT ![j] = [status |-> s, attempts |-> 0, type |-> type]]
SetStatus(j, s) == record' = [record EXCEPT ![j].status = s]
SetAttempt(j, s, n) == record' = [record EXCEPT ![j] = [@ EXCEPT !.status = s, !.attempts = n]]
SetProgress(j, s) == progress' = [progress EXCEPT ![j] = s]

-----------------------------------------------------------------------------
(* QueueManagerService: what its callers ask for.                           *)

\* The provider's enqueue, of a job just saved: refused, it throws, and the
\* saved record stays.
NewCopy(j) == [id |-> j, attempts |-> 0]

Push(j) == queue' = IF Refuses THEN queue ELSE Append(queue, NewCopy(j))

Enqueue(j, type) ==
    /\ Unsaved(j)
    /\ Save(j, type, "queued")
    /\ Push(j)
    /\ UNCHANGED <<progress, delayed, scheduled, active, worker, circuit, dlq, paused>>

\* With a delay the job goes to the scheduler instead.
EnqueueDelayed(j, type) ==
    /\ Unsaved(j)
    /\ Save(j, type, "delayed")
    /\ scheduled' = scheduled \cup {j}
    /\ UNCHANGED <<progress, queue, delayed, active, worker, circuit, dlq, paused>>

\* The scheduler's timer logs that the job is due and forgets the timer.
SchedulerFires(j) ==
    /\ j \in scheduled
    /\ scheduled' = scheduled \ {j}
    /\ UNCHANGED <<record, progress, queue, delayed, active, worker, circuit, dlq, paused>>

RetryJob(j, new) ==
    /\ record[j] # NoRecord /\ Unsaved(new)
    /\ Save(new, record[j].type, "queued")
    /\ Push(new)
    /\ UNCHANGED <<progress, delayed, scheduled, active, worker, circuit, dlq, paused>>

\* remove takes the job out of the queue, else out of the retry timers.
CopiesWithout(copies, j) == RemoveFirstMatch(copies, LAMBDA c : c.id = j)

\* Mutant: the retry timer is left alone.
TakeFromQueueOnly(j) ==
    /\ queue' = CopiesWithout(queue, j)
    /\ UNCHANGED delayed

TakeOut(j) ==
    /\ queue' = CopiesWithout(queue, j)
    /\ delayed' = IF InQueue(j) THEN delayed ELSE [delayed EXCEPT ![j] = NoCopy]

CancelJob(j) ==
    /\ record[j] # NoRecord
    /\ TakeOut(j)
    /\ SetStatus(j, "cancelled")
    /\ SetProgress(j, "cancelled")
    /\ UNCHANGED <<scheduled, active, worker, circuit, dlq, paused>>

\* retryDLQ deletes the entry and looks the id of the new job up in the job
\* store, which has never heard of it: nothing is enqueued.
RetryDLQ(j) ==
    /\ dlq[j] > 0
    /\ dlq' = [dlq EXCEPT ![j] = @ - 1]
    /\ UNCHANGED <<record, progress, queue, delayed, scheduled, active, worker, circuit, paused>>

\* purge, and the retryAll of the manager, drop the entries of a type or all.
PurgeDLQ(types) ==
    /\ dlq' = [j \in Jobs |-> IF record[j] # NoRecord /\ record[j].type \in types
                              THEN 0 ELSE dlq[j]]
    /\ UNCHANGED <<record, progress, queue, delayed, scheduled, active, worker, circuit, paused>>

SetPaused(p) ==
    /\ setting.pausing
    /\ paused' = p
    /\ UNCHANGED <<record, progress, queue, delayed, scheduled, active, worker, circuit, dlq>>

-----------------------------------------------------------------------------
(* processAllPending and the dispatcher.                                    *)

StartDrain(w) ==
    /\ ~worker[w].draining
    /\ worker' = [worker EXCEPT ![w].draining = TRUE]
    /\ UNCHANGED <<record, progress, queue, delayed, scheduled, active, circuit, dlq, paused>>

Polling(w) == worker[w].draining /\ worker[w].runs = NoCopy

\* Nothing left: processAllPending returns.
StopDrain(w) ==
    /\ Polling(w) /\ queue = <<>>
    /\ worker' = [worker EXCEPT ![w].draining = FALSE]
    /\ UNCHANGED <<record, progress, queue, delayed, scheduled, active, circuit, dlq, paused>>

\* The next job is dequeued and its processor called.
Dispatch(w) ==
    LET copy == Head(queue)
        j == copy.id IN
    /\ Polling(w) /\ queue # <<>> /\ record[j].type \in Handled
    /\ queue' = Tail(queue)
    /\ active' = active \cup {j}
    /\ SetProgress(j, "processing") /\ SetStatus(j, "processing")
    /\ worker' = [worker EXCEPT ![w].runs = copy]
    /\ UNCHANGED <<delayed, scheduled, circuit, dlq, paused>>

\* No processor for its type: it fails at once, without a dead letter.
DispatchUnhandled(w) ==
    LET j == Head(queue).id IN
    /\ Polling(w) /\ queue # <<>> /\ record[j].type \notin Handled
    /\ queue' = Tail(queue)
    /\ active' = active \ {j}
    /\ SetProgress(j, "failed") /\ SetStatus(j, "failed")
    /\ UNCHANGED <<delayed, scheduled, worker, circuit, dlq, paused>>

\* The provider's acknowledge and fail; the loop goes on.
Release(w, j) ==
    /\ worker' = [worker EXCEPT ![w].runs = NoCopy]
    /\ active' = active \ {j}

\* The processor returns: the job is completed, also when the result it
\* returns says it did not succeed.
ProcessorReturns(w) ==
    LET j == worker[w].runs.id IN
    /\ worker[w].runs # NoCopy
    /\ SetProgress(j, "completed") /\ SetStatus(j, "completed")
    /\ Release(w, j)
    /\ UNCHANGED <<queue, delayed, scheduled, circuit, dlq, paused>>

\* shouldRetry: an open circuit refuses, unless 30 seconds have closed it; the
\* failure is counted, and opens it at the threshold.
StaysOpen(j) == circuit[j].open
\* Mutant: failures are not counted.
ForgetFailure(j) == UNCHANGED circuit
CountFailure(j) ==
    LET failures == (IF circuit[j].open THEN 0 ELSE circuit[j].failures) + 1 IN
    circuit' = [circuit EXCEPT ![j] = [failures |-> failures, open |-> failures >= Threshold]]

AttemptsLeft(copy) == copy.attempts + 1 <= MaxRetries

\* Mutant: the retry is queued as well.
RetryByQueueAndTimer(w, copy) ==
    /\ delayed' = [delayed EXCEPT ![copy.id] = copy]
    /\ queue' = Append(queue, copy)

\* The processor throws and the job is retried: its record is queued again
\* with the attempt, its copy goes to a timer as it was, and it stays active.
ScheduleRetry(w, copy) ==
    /\ delayed' = [delayed EXCEPT ![copy.id] = copy]
    /\ UNCHANGED queue

ProcessorThrowsAndRetries(w) ==
    LET copy == worker[w].runs
        j == copy.id IN
    /\ copy # NoCopy
    /\ StaysOpen(j) => setting.resets
    /\ AttemptsLeft(copy)
    /\ CountFailure(j)
    /\ SetAttempt(j, "queued", copy.attempts + 1)
    /\ ScheduleRetry(w, copy)
    /\ worker' = [worker EXCEPT ![w].runs = NoCopy]
    /\ UNCHANGED <<progress, scheduled, active, dlq, paused>>

\* It throws and is not retried: a dead letter entry is made.
ProcessorThrowsAndFails(w) ==
    LET copy == worker[w].runs
        j == copy.id IN
    /\ copy # NoCopy
    /\ \/ StaysOpen(j) /\ UNCHANGED circuit
       \/ (StaysOpen(j) => setting.resets) /\ ~AttemptsLeft(copy) /\ CountFailure(j)
    /\ dlq' = [dlq EXCEPT ![j] = @ + 1]
    /\ SetProgress(j, "failed")
    /\ SetAttempt(j, "failed", copy.attempts + 1)
    /\ Release(w, j)
    /\ UNCHANGED <<queue, delayed, scheduled, paused>>

\* A retry timer fires: its job goes to the end of the queue.
RetryTimerFires(j) ==
    /\ delayed[j] # NoCopy /\ ~Refuses
    /\ delayed' = [delayed EXCEPT ![j] = NoCopy]
    /\ queue' = Append(queue, delayed[j])
    /\ UNCHANGED <<record, progress, scheduled, active, worker, circuit, dlq, paused>>

\* The provider refuses it: the timer's promise is rejected with nobody to
\* catch it, which ends the Node process; a new one starts with nothing.
TimerKillsProcess(j) ==
    /\ delayed[j] # NoCopy /\ Refuses
    /\ record' = Empty.record /\ progress' = Empty.progress
    /\ queue' = <<>> /\ delayed' = Empty.delayed
    /\ scheduled' = {} /\ active' = {}
    /\ worker' = Empty.worker /\ circuit' = Empty.circuit
    /\ dlq' = Empty.none
    /\ paused' = FALSE

-----------------------------------------------------------------------------
Ask ==
    \/ \E j \in Jobs :
           \/ \E t \in Types : Enqueue(j, t) \/ EnqueueDelayed(j, t)
           \/ CancelJob(j) \/ RetryDLQ(j)
           \/ \E new \in Jobs : RetryJob(j, new)
    \/ \E types \in {Types} \cup {{t} : t \in Types} : PurgeDLQ(types)
    \/ \E p \in BOOLEAN : SetPaused(p)
    \/ \E w \in Workers : StartDrain(w)

Loop(w) == StopDrain(w) \/ Dispatch(w) \/ DispatchUnhandled(w)
Settle(w) == ProcessorReturns(w) \/ ProcessorThrowsAndRetries(w) \/ ProcessorThrowsAndFails(w)
Timer(j) == RetryTimerFires(j) \/ TimerKillsProcess(j)

Next ==
    /\ UNCHANGED setting
    /\ \/ Ask
       \/ \E w \in Workers : Loop(w) \/ Settle(w)
       \/ \E j \in Jobs : Timer(j) \/ SchedulerFires(j)

Spec == Init /\ [][Next]_vars

\* The while loop of processAllPending goes on, the processor that it waits for
\* returns or throws, and timers fire.  Nobody is bound to call the service.
Fairness ==
    /\ \A w \in Workers : WF_vars(Loop(w) /\ UNCHANGED setting) /\ WF_vars(Settle(w) /\ UNCHANGED setting)
    /\ \A j \in Jobs : WF_vars(Timer(j) /\ UNCHANGED setting) /\ WF_vars(SchedulerFires(j) /\ UNCHANGED setting)

FairSpec == Spec /\ Fairness

-----------------------------------------------------------------------------
(* Properties.                                                             *)

Held(j) == InQueue(j) \/ delayed[j] # NoCopy \/ Running(j)
NothingRefused == ~setting.pausing /\ setting.capacity >= Cardinality(Jobs)

\* Retries, cancellations and several workers never make two copies of a job:
\* it waits once in the queue, or for its timer, or it runs, and the worker
\* that runs it will find it active when it acknowledges it.
OnePlace ==
    \A j \in Jobs :
        /\ \A k, l \in DOMAIN queue : queue[k].id = j /\ queue[l].id = j => k = l
        /\ \A v, w \in Workers : worker[v].runs.id = j /\ worker[w].runs.id = j => v = w
        /\ InQueue(j) => delayed[j] = NoCopy /\ ~Running(j)
        /\ Running(j) => delayed[j] = NoCopy /\ j \in active

\* A job reported completed or failed has no copy left that could run again,
\* and the progress tracker reports the same; it is dead-lettered once.
SettledIsOver ==
    \A j \in Jobs :
        /\ record[j].status \in Terminal => ~Held(j) /\ progress[j] = record[j].status
        /\ dlq[j] <= 1 /\ (dlq[j] = 1 => ~Held(j))

\* As long as the provider refuses nothing, a job whose record says queued or
\* processing is really somewhere: no step on the way drops it.
NothingLost ==
    NothingRefused => \A j \in Jobs :
        /\ record[j].status \in {"queued", "processing"} => Held(j)
        /\ record[j].status = "processing" => Running(j)

\* A job exists once from the call that submits it until it is settled, and
\* not afterwards, whichever calls, timers and workers overlap
\* (QueueManagerService, InMemoryQueueProvider, JobDispatcher).
EachJobOnce == TypeOK /\ OnePlace /\ SettledIsOver /\ NothingLost

\* A job that was cancelled while no worker ran it is never started, wherever
\* it was waiting.
CancelledNeverStarts ==
    [][\A j \in Jobs : record[j].status = "cancelled" /\ ~Running(j) => ~Running(j)']_vars

EachTaken ==
    \A j \in Jobs : (InQueue(j) /\ \E w \in Workers : worker[w].draining) ~> ~InQueue(j)

\* The attempts of a copy are never counted, so only the circuit can end the
\* retries of a job that always fails: it does, where retries come closer
\* together than the 30 seconds that close it.
RetriesEnd ==
    (NothingRefused /\ ~setting.resets) => \A j \in Jobs : <>[](delayed[j] = NoCopy)

\* While some call of processAllPending is in progress, every waiting job is
\* taken from the queue, and a failing one is not retried for ever.
DrainTakesAll == EachTaken /\ RetriesEnd

\* The doc's life cycle: a delayed job is queued when its time comes.
DelayedIsQueued ==
    \A j \in Jobs : (record[j].status = "delayed") ~> (record[j].status # "delayed")
=============================================================================
