------------------------------ MODULE Schedules ------------------------------
(***************************************************************************)
(* The recurring schedules of the job queue (src/ai/queue/scheduler): each *)
(* id leads to a timer, an interval timer, or both.  One that fires counts *)
(* the execution and does nothing else.                                    *)
(***************************************************************************)
EXTENDS Naturals

CONSTANTS
    Plans,          \* ids of schedules
    Clocks,         \* bound: timers of the process, each set once
    MaxExecutions   \* of every schedule

\* A schedule for which it is not given, or is 0, goes on for ever.
ASSUME ScheduleAssumption == MaxExecutions \in Nat \ {0}

VARIABLES
    schedules,                  \* by id: what kind it is of
    startTimers, intervalTimers,     \* where the id leads to
    clock,                      \* the timers of the process
    executionCounts,
    lost                        \* history: timers still set when their id came to lead elsewhere,
                                \* and the intervals that they set

scheduleVars == <<schedules, startTimers, intervalTimers, clock, executionCounts, lost>>

NoClock == {}
NoSchedule == "none"
UnusedClock == [at |-> "unused"]
OverClock == [at |-> "over"]
\* A timer of the process that none has set yet; they are taken in their order.
Fresh(t) == clock[t] = UnusedClock /\ \A u \in Clocks : u < t => clock[u] # UnusedClock
Ticking == {t \in Clocks : clock[t] \notin {UnusedClock, OverClock}}
SetFor(s, kind) == [at |-> kind, plan |-> s]
Tracked(s) == (startTimers[s] \cup intervalTimers[s]) \cap Ticking

\* An interval starts now, or when a timer for its first execution fires; the
\* id leads to it, whatever timer it led to before.
ScheduleInterval(s, t, later) ==
    /\ Fresh(t)
    /\ clock' = [clock EXCEPT ![t] = SetFor(s, IF later THEN "start" ELSE "interval")]
    /\ startTimers' = IF later THEN [startTimers EXCEPT ![s] = {t}] ELSE startTimers
    /\ intervalTimers' = IF later THEN intervalTimers ELSE [intervalTimers EXCEPT ![s] = {t}]
    /\ lost' = lost \cup ((IF later THEN startTimers[s] ELSE intervalTimers[s]) \cap Ticking)
ScheduleOnce(s, t) ==
    /\ Fresh(t)
    /\ clock' = [clock EXCEPT ![t] = SetFor(s, "once")]
    /\ startTimers' = [startTimers EXCEPT ![s] = {t}]
    /\ lost' = lost \cup (startTimers[s] \cap Ticking)
    /\ UNCHANGED intervalTimers

\* schedule(): of an id that is new or not.  A cron expression becomes an
\* interval; one time that is over gets no timer.
ScheduleJob(s) ==
    /\ \E kind \in {"interval", "cron", "from", "once", "once, over"}, t \in Clocks :
         /\ schedules' = [schedules EXCEPT ![s] = kind]
         /\ \/ kind \in {"interval", "cron"} /\ ScheduleInterval(s, t, FALSE)
            \/ kind = "from" /\ \E later \in BOOLEAN : ScheduleInterval(s, t, later)
            \/ kind = "once" /\ ScheduleOnce(s, t)
            \/ kind = "once, over" /\ UNCHANGED <<startTimers, intervalTimers, clock, lost>>
    /\ UNCHANGED executionCounts

\* Mutant: the interval of a schedule that starts later is not cleared.
ClearTimerOnly(s) ==
    /\ clock' = [t \in Clocks |-> IF t \in Tracked(s) \cap startTimers[s] THEN OverClock ELSE clock[t]]
    /\ startTimers' = [startTimers EXCEPT ![s] = NoClock]
    /\ intervalTimers' = IF startTimers[s] # NoClock THEN intervalTimers
                         ELSE [intervalTimers EXCEPT ![s] = NoClock]
ClearTimers(s) ==
    /\ clock' = [t \in Clocks |-> IF t \in Tracked(s) THEN OverClock ELSE clock[t]]
    /\ startTimers' = [startTimers EXCEPT ![s] = NoClock]
    /\ intervalTimers' = [intervalTimers EXCEPT ![s] = NoClock]
CancelSchedule(s) ==
    /\ ClearTimers(s)
    /\ schedules' = [schedules EXCEPT ![s] = NoSchedule]
    /\ UNCHANGED <<executionCounts, lost>>
PauseSchedule(s) ==
    /\ schedules[s] # NoSchedule
    /\ ClearTimers(s)
    /\ UNCHANGED <<schedules, executionCounts, lost>>
\* Whether it was paused is not asked.
ResumeSchedule(s) ==
    /\ schedules[s] \in {"interval", "from"}
    /\ \E t \in Clocks, later \in BOOLEAN :
         /\ later => schedules[s] = "from"
         /\ ScheduleInterval(s, t, later)
    /\ UNCHANGED <<schedules, executionCounts>>

Exhausted(s) == executionCounts[s] >= MaxExecutions
Counted(s) == [executionCounts EXCEPT ![s] = @ + 1]
\* The first execution, and the interval, which is set whether or not the
\* executions are exhausted.
StartFires(t) ==
    /\ clock[t].at = "start"
    /\ \E u \in Clocks :
         LET s == clock[t].plan
             cleared == IF Exhausted(s) THEN Tracked(s) ELSE {}
         IN /\ Fresh(u)
            /\ clock' = [v \in Clocks |-> IF v = u THEN SetFor(s, "interval")
                                          ELSE IF v \in cleared \cup {t} THEN OverClock ELSE clock[v]]
            /\ executionCounts' = IF Exhausted(s) THEN executionCounts ELSE Counted(s)
            /\ startTimers' = IF Exhausted(s) THEN [startTimers EXCEPT ![s] = NoClock] ELSE startTimers
            /\ intervalTimers' = [intervalTimers EXCEPT ![s] = {u}]
            /\ lost' = lost \cup ((intervalTimers[s] \cap Ticking) \ cleared)
                            \cup (IF t \in lost THEN {u} ELSE {})
    /\ UNCHANGED schedules
IntervalFires(t) ==
    /\ clock[t].at = "interval"
    /\ LET s == clock[t].plan
       IN IF Exhausted(s) THEN ClearTimers(s) /\ UNCHANGED executionCounts
          ELSE executionCounts' = Counted(s) /\ UNCHANGED <<clock, startTimers, intervalTimers>>
    /\ UNCHANGED <<schedules, lost>>
\* The id leads nowhere then, though it may have led to another timer.
OnceFires(t) ==
    /\ clock[t].at = "once"
    /\ LET s == clock[t].plan
       IN /\ startTimers' = [startTimers EXCEPT ![s] = NoClock]
          /\ lost' = lost \cup ((startTimers[s] \cap Ticking) \ {t})
    /\ clock' = [clock EXCEPT ![t] = OverClock]
    /\ UNCHANGED <<schedules, intervalTimers, executionCounts>>

ScheduleInit ==
    /\ schedules = [s \in Plans |-> NoSchedule]
    /\ startTimers = [s \in Plans |-> NoClock] /\ intervalTimers = [s \in Plans |-> NoClock]
    /\ clock = [t \in Clocks |-> UnusedClock]
    /\ executionCounts = [s \in Plans |-> 0] /\ lost = {}

ScheduleNext ==
    \/ \E s \in Plans : ScheduleJob(s) \/ CancelSchedule(s) \/ PauseSchedule(s) \/ ResumeSchedule(s)
    \/ \E t \in Clocks : StartFires(t) \/ IntervalFires(t) \/ OnceFires(t)

-----------------------------------------------------------------------------
\* A timer that goes on is that of a schedule that was not cancelled, and its
\* id leads to it, so that pause() and cancel() stop it - unless a second
\* schedule() or resume() made the id lead elsewhere while it was set; and no
\* schedule executes more often than it may (JobSchedulerService).
SchedulesStop ==
    /\ \A t \in Ticking \ lost : schedules[clock[t].plan] # NoSchedule /\ t \in Tracked(clock[t].plan)
    /\ \A s \in Plans : executionCounts[s] <= MaxExecutions
==============================================================================
