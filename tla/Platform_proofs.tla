---------------------------- MODULE Platform_proofs ----------------------------
(***************************************************************************)
(* Proofs about the services that keep their state in the memory of the    *)
(* process, for any ids, adapters, schedules, orders, events and setups.   *)
(* Each service has an invariant of its own, which no step of another      *)
(* touches; Platform's steps are those of one service at a time.           *)
(***************************************************************************)
EXTENDS Platform, JobQueue, Sums_proofs, TLAPS

-----------------------------------------------------------------------------
(* The timers of the MCP sessions (McpSessions).                            *)

Statuses == {"none", "connecting", "connected", "reconnecting", "error", "disconnected"}
Entries == [status : Statuses, stored : BOOLEAN, heartbeat : BOOLEAN, timeout : BOOLEAN]
SessionsTyped == session \in [Sessions -> Entries]
McpInv == SessionsTyped /\ TimersOfSessions

\* What a table of the sessions has to be for the timers in it to be those of
\* sessions that are stored.
TimersKept(table) ==
    /\ table \in [Sessions -> Entries]
    /\ \A s \in Sessions : table[s].heartbeat \/ table[s].timeout => table[s].stored

\* Changing the status of a session moves no timer (reconnect, heartbeat).
LEMMA StatusKeeps ==
    ASSUME NEW table, TimersKept(table), NEW s, NEW status \in Statuses
    PROVE  TimersKept([table EXCEPT ![s].status = status])
BY DEF TimersKept, Entries, Statuses

\* Neither does the rejection of a heartbeat.
LEMMA MarkedKeeps ==
    ASSUME NEW table, TimersKept(table), NEW R
    PROVE  TimersKept(Marked(R, table))
BY DEF TimersKept, Entries, Statuses, Marked

\* A connect() that ends sets timers only in the session that it stores.
LEMMA FinishedKeeps ==
    ASSUME NEW table, TimersKept(table), NEW x, NEW ok \in BOOLEAN
    PROVE  TimersKept(Finished(x, ok, table))
<1> DEFINE new == [status |-> IF ok THEN "connected" ELSE "error", stored |-> TRUE,
                   heartbeat |-> ok, timeout |-> ok]
<1>1. CASE x.op = "create"
  <2>1. Finished(x, ok, table) = [table EXCEPT ![x.session] = new]
    BY <1>1 DEF Finished
  <2>2. new \in Entries /\ new.stored
    BY DEF Entries, Statuses
  <2> HIDE DEF new
  <2> QED
    BY <2>1, <2>2 DEF TimersKept
<1>2. CASE x.op = "reconnect"
  <2>1. PICK status \in Statuses : status = IF ok THEN "connected" ELSE "error"
    BY DEF Statuses
  <2>2. PICK s : s = x.session
    OBVIOUS
  <2>3. TimersKept([table EXCEPT ![s].status = status])
    BY StatusKeeps
  <2>4. Finished(x, ok, table) = [table EXCEPT ![s].status = status]
    BY <1>2, <2>1, <2>2 DEF Finished
  <2> QED
    BY <2>3, <2>4
<1>3. CASE x.op \notin {"create", "reconnect"}
  BY <1>3 DEF Finished
<1> QED
  BY <1>1, <1>2, <1>3

\* A session that is ended leaves the map with both timers cleared.
LEMMA EndKeeps ==
    ASSUME NEW table, TimersKept(table), NEW s
    PROVE  TimersKept([table EXCEPT ![s] = EndedSession(s)])
BY DEF TimersKept, Entries, Statuses, EndedSession, OutOfMap

\* Every step of the sessions leaves no timer without its session.
LEMMA McpStep ==
    ASSUME McpInv, McpNext
    PROVE  McpInv'
<1>0. TimersKept(session)
  BY DEF McpInv, SessionsTyped, TimersOfSessions, TimersKept
<1> SUFFICES TimersKept(session')
  BY DEF McpInv, SessionsTyped, TimersOfSessions, TimersKept
<1>1. CASE UNCHANGED session
  BY <1>0, <1>1
<1>2. ASSUME NEW s \in Sessions, CreateSession(s) PROVE TimersKept(session')
  <2>1. TimersKept([session EXCEPT ![s].status = "connecting"])
    BY <1>0, StatusKeeps DEF Statuses
  <2> QED
    BY <1>2, <2>1 DEF CreateSession
<1>3. ASSUME NEW s \in Sessions, Reconnect(s) PROVE TimersKept(session')
  <2>1. TimersKept([session EXCEPT ![s].status = "reconnecting"])
    BY <1>0, StatusKeeps DEF Statuses
  <2> QED
    BY <1>3, <2>1, MarkedKeeps DEF Reconnect
<1>4. ASSUME NEW s \in Sessions, End(s) PROVE TimersKept(session')
  BY <1>0, <1>4, MarkedKeeps, EndKeeps DEF End
<1>5. ASSUME NEW s \in Sessions, TimeoutFires(s) PROVE TimersKept(session')
  <2>1. CASE End(s)
    BY <1>4, <2>1
  <2>2. CASE session' = [session EXCEPT ![s].timeout = FALSE]
    BY <1>0, <2>2 DEF TimersKept, Entries, Statuses
  <2> QED
    BY <1>5, <2>1, <2>2 DEF TimeoutFires
<1>6. ASSUME NEW s \in Sessions, HeartbeatFires(s) PROVE TimersKept(session')
  <2>1. TimersKept([session EXCEPT ![s].status = "error"])
    BY <1>0, StatusKeeps DEF Statuses
  <2> QED
    BY <1>1, <1>6, <2>1 DEF HeartbeatFires
<1>7. ASSUME NEW k \in Links, LinkOpens(k) \/ LinkRefused(k) PROVE TimersKept(session')
  <2>1. \A x : TimersKept(Finished(x, TRUE, session)) /\ TimersKept(Finished(x, FALSE, session))
    BY <1>0, FinishedKeeps
  <2>2. \A x, R : TimersKept(Finished(x, FALSE, Marked(R, session)))
    BY <1>0, MarkedKeeps, FinishedKeeps
  <2>3. CASE Authenticated(k)
    BY <2>1, <2>3 DEF Authenticated
  <2>4. CASE AuthFails(k)
    <3>1. PICK x \in Dialling(k) : session' = Finished(x, FALSE, Marked(PendingOf(x.adapter), session))
      BY <2>4, Zenon DEF AuthFails
    <3> QED
      BY <2>2, <3>1
  <2>5. CASE LinkRefused(k)
    BY <2>1, <2>5 DEF LinkRefused
  <2> QED
    BY <1>7, <2>3, <2>4, <2>5 DEF LinkOpens
<1>8. ASSUME NEW r \in Requests, Reject(r) PROVE TimersKept(session')
  BY <1>0, <1>8, MarkedKeeps DEF Reject
<1>9. ASSUME NEW r \in Requests, Answer(r) PROVE TimersKept(session')
  BY <1>1, <1>9 DEF Answer
<1>10. ASSUME NEW a \in Adapters, RegisterServer(a) PROVE TimersKept(session')
  BY <1>1, <1>10 DEF RegisterServer
<1>11. ASSUME NEW k \in Links, LinkCloses(k) PROVE TimersKept(session')
  BY <1>1, <1>11 DEF LinkCloses
<1>12. CASE Unregister \/ Fetch \/ ExecuteTool \/ RefreshServer
  BY <1>1, <1>12 DEF Unregister, Fetch, ExecuteTool, RefreshServer
<1> QED
  BY <1>2, <1>3, <1>4, <1>5, <1>6, <1>7, <1>8, <1>9, <1>10, <1>11, <1>12
  DEF McpNext, EndSession, AnswersError, TimesOut

-----------------------------------------------------------------------------
(* The recurring schedules (Schedules).                                     *)

PlanKinds == {"none", "interval", "cron", "from", "once", "once, over"}
TimerRecord == [at : {"start", "interval", "once"}, plan : Plans]
ScheduleTyped ==
    /\ schedules \in [Plans -> PlanKinds]
    /\ startTimers \in [Plans -> SUBSET Clocks] /\ intervalTimers \in [Plans -> SUBSET Clocks]
    /\ clock \in [Clocks -> {UnusedClock, OverClock} \cup TimerRecord]
    /\ executionCounts \in [Plans -> Nat]
\* The id of its schedule leads to a timer, and the schedule is there.
Followed(t) == schedules[clock[t].plan] # NoSchedule /\ t \in Tracked(clock[t].plan)
CountsWithin == \A s \in Plans : executionCounts[s] <= MaxExecutions
ScheduleInv == ScheduleTyped /\ CountsWithin /\ \A t \in Ticking \ lost : Followed(t)

\* A timer that is set is neither unused nor over.
LEMMA TimersTick ==
    /\ \A x \in TimerRecord : x \notin {UnusedClock, OverClock}
    /\ \A s \in Plans, kind \in {"start", "interval", "once"} :
           SetFor(s, kind) \in TimerRecord /\ SetFor(s, kind).plan = s
    /\ UnusedClock # OverClock
BY DEF TimerRecord, UnusedClock, OverClock, SetFor

\* An id that comes to lead to a new timer loses no other timer unnoticed.
LEMMA IntervalFollowed ==
    ASSUME ScheduleInv, NEW s \in Plans, NEW u \in Clocks, NEW later \in BOOLEAN,
           ScheduleInterval(s, u, later), UNCHANGED executionCounts,
           NEW kind \in PlanKinds, kind # NoSchedule,
           schedules' = [schedules EXCEPT ![s] = kind]
    PROVE  ScheduleInv'
<1> USE DEF ScheduleInv
<1>0. clock[u] = UnusedClock /\ u \notin Ticking
  BY DEF ScheduleInterval, Fresh, Ticking
<1>1. ScheduleTyped' /\ CountsWithin'
  BY TimersTick DEF ScheduleTyped, ScheduleInterval, CountsWithin
<1>2. ASSUME NEW t \in Ticking', t \notin lost' PROVE Followed(t)'
  <2>1. CASE t = u
    BY <1>0, <2>1, TimersTick DEF Followed, Tracked, Ticking, ScheduleInterval, ScheduleTyped
  <2>2. CASE t # u
    <3>1. t \in Ticking \ lost /\ clock'[t] = clock[t] /\ clock[t] \in TimerRecord
      BY <1>2, <2>2, TimersTick DEF Ticking, ScheduleInterval, ScheduleTyped
    <3>2. clock[t].plan \in Plans /\ Followed(t)
      BY <3>1 DEF TimerRecord
    <3>3. t \in (startTimers[clock[t].plan] \cup intervalTimers[clock[t].plan])'
      BY <1>2, <3>1, <3>2 DEF ScheduleInterval, ScheduleTyped, Followed, Tracked
    <3> QED
      BY <1>2, <3>1, <3>2, <3>3 DEF Followed, Tracked, ScheduleTyped
  <2> QED
    BY <2>1, <2>2
<1> QED
  BY <1>1, <1>2

\* The same of a timer that fires once.
LEMMA OnceFollowed ==
    ASSUME ScheduleInv, NEW s \in Plans, NEW u \in Clocks,
           ScheduleOnce(s, u), UNCHANGED executionCounts,
           schedules' = [schedules EXCEPT ![s] = "once"]
    PROVE  ScheduleInv'
<1> USE DEF ScheduleInv
<1>0. clock[u] = UnusedClock /\ u \notin Ticking
  BY DEF ScheduleOnce, Fresh, Ticking
<1>1. ScheduleTyped' /\ CountsWithin'
  BY TimersTick DEF ScheduleTyped, ScheduleOnce, CountsWithin, PlanKinds
<1>2. ASSUME NEW t \in Ticking', t \notin lost' PROVE Followed(t)'
  <2>1. CASE t = u
    BY <1>0, <2>1, TimersTick DEF Followed, Tracked, Ticking, ScheduleOnce, ScheduleTyped, NoSchedule
  <2>2. CASE t # u
    <3>1. t \in Ticking \ lost /\ clock'[t] = clock[t] /\ clock[t] \in TimerRecord
      BY <1>2, <2>2, TimersTick DEF Ticking, ScheduleOnce, ScheduleTyped
    <3>2. clock[t].plan \in Plans /\ Followed(t)
      BY <3>1 DEF TimerRecord
    <3>3. t \in (startTimers[clock[t].plan] \cup intervalTimers[clock[t].plan])'
      BY <1>2, <3>1, <3>2 DEF ScheduleOnce, ScheduleTyped, Followed, Tracked
    <3> QED
      BY <1>2, <3>1, <3>2, <3>3 DEF Followed, Tracked, ScheduleTyped, NoSchedule
  <2> QED
    BY <2>1, <2>2
<1> QED
  BY <1>1, <1>2

\* What cancel() and pause() clear is every timer of the schedule that is not
\* lost; what else goes on is of other schedules.
LEMMA ClearedFollowed ==
    ASSUME ScheduleInv, NEW s \in Plans, ClearTimers(s), UNCHANGED <<executionCounts, lost>>,
           schedules' \in {schedules, [schedules EXCEPT ![s] = NoSchedule]}
    PROVE  ScheduleInv'
<1> USE DEF ScheduleInv
<1>1. ScheduleTyped' /\ CountsWithin'
  BY TimersTick DEF ScheduleTyped, ClearTimers, CountsWithin, NoClock, NoSchedule, PlanKinds
<1>2. ASSUME NEW t \in Ticking', t \notin lost' PROVE Followed(t)'
  <2>1. t \in Ticking \ lost /\ clock'[t] = clock[t] /\ clock[t] \in TimerRecord /\ t \notin Tracked(s)
    BY <1>2, TimersTick DEF Ticking, ClearTimers, ScheduleTyped
  <2>2. clock[t].plan \in Plans /\ Followed(t) /\ clock[t].plan # s
    BY <2>1 DEF TimerRecord, Followed
  <2> QED
    BY <1>2, <2>1, <2>2 DEF Followed, Tracked, ScheduleTyped, ClearTimers
<1> QED
  BY <1>1, <1>2

\* Every step of the schedules keeps each timer that is not lost followed, and
\* the executions within their number.
LEMMA ScheduleStep ==
    ASSUME ScheduleInv, ScheduleNext
    PROVE  ScheduleInv'
<1> USE DEF ScheduleInv
<1>1. ASSUME NEW s \in Plans, ScheduleJob(s) PROVE ScheduleInv'
  <2>1. PICK kind \in {"interval", "cron", "from", "once", "once, over"}, u \in Clocks :
          /\ schedules' = [schedules EXCEPT ![s] = kind]
          /\ \/ kind \in {"interval", "cron"} /\ ScheduleInterval(s, u, FALSE)
             \/ kind = "from" /\ \E later \in BOOLEAN : ScheduleInterval(s, u, later)
             \/ kind = "once" /\ ScheduleOnce(s, u)
             \/ kind = "once, over" /\ UNCHANGED <<startTimers, intervalTimers, clock, lost>>
    BY <1>1 DEF ScheduleJob
  <2>2. kind \in PlanKinds /\ kind # NoSchedule /\ UNCHANGED executionCounts
    BY <1>1 DEF ScheduleJob, PlanKinds, NoSchedule
  <2>3. CASE \E later \in BOOLEAN : ScheduleInterval(s, u, later)
    BY <2>1, <2>2, <2>3, IntervalFollowed
  <2>4. CASE kind = "once" /\ ScheduleOnce(s, u)
    BY <2>1, <2>2, <2>4, OnceFollowed
  <2>5. CASE UNCHANGED <<startTimers, intervalTimers, clock, lost>>
    <3>1. ScheduleTyped' /\ CountsWithin'
      BY <2>1, <2>2, <2>5 DEF ScheduleTyped, CountsWithin
    <3>2. Ticking' = Ticking
      BY <2>5 DEF Ticking
    <3>3. ASSUME NEW t \in Ticking \ lost PROVE Followed(t)'
      <4>1. clock[t] \in TimerRecord /\ Followed(t)
        BY <3>3 DEF ScheduleTyped, Ticking
      <4> QED
        BY <2>1, <2>2, <2>5, <3>2, <4>1 DEF Followed, Tracked, ScheduleTyped, TimerRecord
    <3> QED
      BY <2>5, <3>1, <3>2, <3>3
  <2> QED
    BY <2>1, <2>3, <2>4, <2>5
<1>2. ASSUME NEW s \in Plans, CancelSchedule(s) PROVE ScheduleInv'
  BY <1>2, ClearedFollowed DEF CancelSchedule
<1>3. ASSUME NEW s \in Plans, PauseSchedule(s) PROVE ScheduleInv'
  BY <1>3, ClearedFollowed DEF PauseSchedule
<1>4. ASSUME NEW s \in Plans, ResumeSchedule(s) PROVE ScheduleInv'
  <2>1. PICK u \in Clocks, later \in BOOLEAN : ScheduleInterval(s, u, later)
    BY <1>4 DEF ResumeSchedule
  <2> DEFINE kind == schedules[s]
  <2>2. kind \in PlanKinds /\ kind # NoSchedule
    BY <1>4 DEF ResumeSchedule, PlanKinds, NoSchedule
  <2>3. schedules' = [schedules EXCEPT ![s] = kind] /\ UNCHANGED executionCounts
    BY <1>4 DEF ResumeSchedule, ScheduleTyped
  <2> QED
    BY <2>1, <2>2, <2>3, IntervalFollowed
<1>5. ASSUME NEW t \in Clocks, StartFires(t) PROVE ScheduleInv'
  <2> DEFINE s == clock[t].plan
             cleared == IF Exhausted(s) THEN Tracked(s) ELSE {}
  <2>0. clock[t] \in TimerRecord /\ s \in Plans /\ t \in Ticking
    BY <1>5 DEF StartFires, ScheduleTyped, TimerRecord, UnusedClock, OverClock, Ticking
  <2>1. PICK u \in Clocks :
            /\ Fresh(u)
            /\ clock' = [v \in Clocks |-> IF v = u THEN SetFor(s, "interval")
                                          ELSE IF v \in cleared \cup {t} THEN OverClock ELSE clock[v]]
            /\ executionCounts' = IF Exhausted(s) THEN executionCounts ELSE Counted(s)
            /\ startTimers' = IF Exhausted(s) THEN [startTimers EXCEPT ![s] = NoClock] ELSE startTimers
            /\ intervalTimers' = [intervalTimers EXCEPT ![s] = {u}]
            /\ lost' = lost \cup ((intervalTimers[s] \cap Ticking) \ cleared)
                            \cup (IF t \in lost THEN {u} ELSE {})
            /\ UNCHANGED schedules
    BY <1>5 DEF StartFires
  <2>2. clock[u] = UnusedClock /\ u \notin Ticking /\ u # t
    BY <2>0, <2>1 DEF Fresh, Ticking
  <2>3. ScheduleTyped'
    BY <2>0, <2>1, TimersTick DEF ScheduleTyped, Counted, NoClock
  <2>4. CountsWithin'
    BY <2>0, <2>1, ScheduleAssumption DEF ScheduleTyped, Counted, CountsWithin, Exhausted
  <2>5. ASSUME NEW v \in Ticking', v \notin lost' PROVE Followed(v)'
    <3>1. CASE v = u
      <4>1. schedules[s] # NoSchedule
        BY SMTT(60), <2>0, <2>1, <2>5, <3>1 DEF Followed
      <4> QED
        BY SMTT(60), <2>0, <2>1, <2>5, <3>1, <4>1, TimersTick DEF Followed, Tracked, ScheduleTyped, Ticking
    <3>2. CASE v # u
      <4>1. v \in Ticking \ lost /\ clock'[v] = clock[v] /\ clock[v] \in TimerRecord /\ v \notin cleared \cup {t}
        BY SMTT(60), <2>1, <2>5, <3>2, TimersTick DEF Ticking, ScheduleTyped
      <4>2. clock[v].plan \in Plans /\ Followed(v)
        BY SMTT(60), <4>1 DEF TimerRecord
      <4>3. v \in (startTimers[clock[v].plan] \cup intervalTimers[clock[v].plan])'
        BY <2>0, <2>1, <2>5, <4>1, <4>2 DEF ScheduleTyped, Followed, Tracked
      <4> QED
        BY ZenonT(60), <2>1, <2>5, <4>1, <4>2, <4>3 DEF Followed, Tracked, ScheduleTyped
    <3> QED
      BY <3>1, <3>2
  <2> QED
    BY <2>3, <2>4, <2>5
<1>6. ASSUME NEW t \in Clocks, IntervalFires(t) PROVE ScheduleInv'
  <2> DEFINE s == clock[t].plan
  <2>0. s \in Plans
    BY <1>6 DEF IntervalFires, ScheduleTyped, TimerRecord, UnusedClock, OverClock
  <2>1. CASE ClearTimers(s) /\ UNCHANGED executionCounts
    BY <1>6, <2>0, <2>1, ClearedFollowed DEF IntervalFires
  <2>2. CASE /\ ~Exhausted(s)
             /\ executionCounts' = Counted(s) /\ UNCHANGED <<clock, startTimers, intervalTimers>>
    <3>1. UNCHANGED <<schedules, lost>>
      BY <1>6 DEF IntervalFires
    <3>2. ScheduleTyped' /\ CountsWithin'
      BY <2>0, <2>2, <3>1, ScheduleAssumption DEF ScheduleTyped, CountsWithin, Exhausted, Counted
    <3> QED
      BY <2>2, <3>1, <3>2 DEF Ticking, Followed, Tracked
  <2> QED
    BY <1>6, <2>1, <2>2 DEF IntervalFires
<1>7. ASSUME NEW t \in Clocks, OnceFires(t) PROVE ScheduleInv'
  <2> DEFINE s == clock[t].plan
  <2>0. s \in Plans
    BY <1>7 DEF OnceFires, ScheduleTyped, TimerRecord, UnusedClock, OverClock
  <2>1. ScheduleTyped' /\ CountsWithin'
    BY <1>7 DEF OnceFires, ScheduleTyped, CountsWithin, NoClock
  <2>2. ASSUME NEW v \in Ticking', v \notin lost' PROVE Followed(v)'
    <3>1. v \in Ticking \ lost /\ clock'[v] = clock[v] /\ clock[v] \in TimerRecord /\ v # t
      BY <1>7, <2>2, TimersTick DEF OnceFires, Ticking, ScheduleTyped
    <3>2. clock[v].plan \in Plans /\ Followed(v)
      BY <3>1 DEF TimerRecord
    <3>3. v \in (startTimers[clock[v].plan] \cup intervalTimers[clock[v].plan])'
      BY <1>7, <2>0, <2>2, <3>1, <3>2 DEF OnceFires, ScheduleTyped, Followed, Tracked
    <3> QED
      BY <1>7, <2>2, <3>1, <3>2, <3>3 DEF OnceFires, Followed, Tracked, ScheduleTyped
  <2> QED
    BY <2>1, <2>2
<1> QED
  BY <1>1, <1>2, <1>3, <1>4, <1>5, <1>6, <1>7 DEF ScheduleNext

-----------------------------------------------------------------------------
(* The payment gateways and their webhooks (PaymentGateways).               *)

\* What a call that has begun may have done and lost, by how far it is: what
\* it did and has no answer to, it lost.
Standings == {"trying", "waiting", "succeeded", "failed", "died"}
Attempt == [at : Standings, order : Orders, attempt : Nat, did : Nat, lost : Nat]
GatewayTyped ==
    /\ errand \in [Errands -> {NotBegun} \cup Attempt]
    /\ done \in [Orders -> Nat]
    /\ NoKey \notin keys
\* A gateway has seen the key of what it did under one.
KeysTell == \A o \in Orders : IdempotencyKey(o, 1) # NoKey =>
                done[o] = IF IdempotencyKey(o, 1) \in keys THEN 1 ELSE 0
AttemptsTell == \A x \in Errands : errand[x] # NotBegun =>
    /\ errand[x].at # "succeeded" => errand[x].did <= errand[x].lost
    /\ errand[x].at = "succeeded" => done[errand[x].order] >= 1 /\ errand[x].did <= errand[x].lost + 1
GatewayInv == GatewayTyped /\ KeysTell /\ AttemptsTell

\* The key of an order does not change from one attempt to the next.
LEMMA KeyOfOrder ==
    ASSUME NEW o, NEW n PROVE IdempotencyKey(o, n) = IdempotencyKey(o, 1)
BY DEF IdempotencyKey

\* Two orders with a key have different ones.
LEMMA KeysDiffer ==
    ASSUME NEW o, NEW p, IdempotencyKey(o, 1) = IdempotencyKey(p, 1), IdempotencyKey(o, 1) # NoKey
    PROVE  o = p
BY DEF IdempotencyKey, NoKey

\* A call that has begun is not one that has not.
LEMMA AttemptBegun == \A a \in Attempt : a # NotBegun
BY DEF Attempt, NotBegun

\* A call after an attempt, that told it or not what the gateway did.
LEMMA AttemptTold ==
    ASSUME NEW r \in Attempt, NEW at \in Standings, NEW n \in Nat, NEW m \in Nat
    PROVE  /\ [r EXCEPT !.at = at, !.did = n] \in Attempt
           /\ [r EXCEPT !.did = n, !.lost = m, !.at = at] \in Attempt
           /\ [r EXCEPT !.at = at, !.attempt = n] \in Attempt
           /\ [r EXCEPT !.at = at] \in Attempt
<1>1. [r EXCEPT !.at = at, !.did = n] \in Attempt
  BY DEF Attempt
<1>2. [r EXCEPT !.did = n, !.lost = m, !.at = at] \in Attempt
  BY DEF Attempt
<1>3. [r EXCEPT !.at = at, !.attempt = n] \in Attempt
  BY DEF Attempt
<1>4. [r EXCEPT !.at = at] \in Attempt
  BY DEF Attempt
<1> QED
  BY <1>1, <1>2, <1>3, <1>4

\* What the gateway does in an attempt: nothing is undone, a key is used up,
\* and what the call is told about is done.
LEMMA PerformTells ==
    ASSUME GatewayInv, NEW x \in Errands, errand[x] \in Attempt, Perform(x)
    PROVE  /\ done' \in [Orders -> Nat] /\ NoKey \notin keys' /\ KeysTell'
           /\ \A o \in Orders : done'[o] >= done[o]
           /\ done'[errand[x].order] >= 1
           /\ Anew(x) \in 0 .. 1
<1> DEFINE o == errand[x].order
           key == IdempotencyKey(o, 1)
<1>1. o \in Orders /\ IdempotencyKey(o, errand[x].attempt) = key
  BY KeyOfOrder DEF Attempt
<1>2. /\ done' = IF key \in keys THEN done ELSE [done EXCEPT ![o] = @ + 1]
      /\ keys' = IF key = NoKey THEN keys ELSE keys \cup {key}
  BY <1>1 DEF Perform
<1>3. done' \in [Orders -> Nat] /\ \A p \in Orders : done'[p] >= done[p]
  BY <1>1, <1>2 DEF GatewayInv, GatewayTyped
<1>4. KeysTell'
  <2> SUFFICES ASSUME NEW p \in Orders, IdempotencyKey(p, 1) # NoKey
               PROVE  done'[p] = IF IdempotencyKey(p, 1) \in keys' THEN 1 ELSE 0
    BY DEF KeysTell
  <2>1. CASE p = o
    BY <1>1, <1>2, <2>1 DEF GatewayInv, GatewayTyped, KeysTell
  <2>2. CASE p # o
    <3>1. IdempotencyKey(p, 1) # key
      BY <2>2, KeysDiffer
    <3> QED
      BY <1>1, <1>2, <2>2, <3>1 DEF GatewayInv, GatewayTyped, KeysTell
  <2> QED
    BY <2>1, <2>2
<1>5. done'[o] >= 1
  <2>1. CASE key \in keys
    <3>1. key # NoKey
      BY <2>1 DEF GatewayInv, GatewayTyped
    <3> HIDE DEF key
    <3> QED
      BY <1>1, <1>2, <2>1, <3>1 DEF GatewayInv, KeysTell, key
  <2>2. CASE key \notin keys
    BY <1>1, <1>2, <2>2 DEF GatewayInv, GatewayTyped
  <2> QED
    BY <2>1, <2>2
<1>6. NoKey \notin keys'
  BY <1>2 DEF GatewayInv, GatewayTyped
<1> QED
  BY <1>3, <1>4, <1>5, <1>6 DEF Anew

\* Every step of the gateways keeps what was done once done once.
LEMMA GatewayStep ==
    ASSUME GatewayInv, GatewayNext
    PROVE  GatewayInv'
<1> USE DEF GatewayInv
<1>0. ASSUME NEW x \in Errands, errand[x].at \in {"trying", "waiting"} PROVE errand[x] \in Attempt
  BY <1>0 DEF GatewayTyped, NotBegun
<1>b. \A a \in Attempt : a.did \in Nat /\ a.lost \in Nat /\ a.order \in Orders /\ a.at \in Standings
  BY DEF Attempt
<1>1. ASSUME NEW x \in Errands, Begin(x) PROVE GatewayInv'
  <2>1. PICK o \in Orders :
          errand' = [errand EXCEPT ![x] = [at |-> "trying", order |-> o, attempt |-> 1, did |-> 0, lost |-> 0]]
    BY <1>1 DEF Begin
  <2> DEFINE a == [at |-> "trying", order |-> o, attempt |-> 1, did |-> 0, lost |-> 0]
  <2>2. a \in Attempt /\ a.at # "succeeded" /\ a.did <= a.lost
    BY DEF Attempt, Standings
  <2>3. UNCHANGED <<done, keys>>
    BY <1>1 DEF Begin
  <2>4. GatewayTyped' /\ AttemptsTell'
    <3> HIDE DEF a
    <3>1. errand' = [errand EXCEPT ![x] = a]
      BY <2>1 DEF a
    <3> QED
      BY <2>2, <2>3, <3>1 DEF GatewayTyped, AttemptsTell
  <2> QED
    BY <2>3, <2>4 DEF KeysTell
<1>2. ASSUME NEW x \in Errands, errand[x].at = "trying", NEW a \in Attempt,
             errand' = [errand EXCEPT ![x] = a], a.order = errand[x].order,
             \/ Perform(x) /\ a.did <= a.lost + IF a.at = "succeeded" THEN 1 ELSE 0
             \/ UNCHANGED <<done, keys>> /\ a.did <= a.lost /\ a.at # "succeeded"
      PROVE  GatewayInv'
  <2>1. errand[x] \in Attempt
    BY <1>0, <1>2
  <2>2. /\ done' \in [Orders -> Nat] /\ NoKey \notin keys' /\ KeysTell'
        /\ \A o \in Orders : done'[o] >= done[o]
        /\ a.at = "succeeded" => done'[a.order] >= 1
        /\ a.did <= a.lost + IF a.at = "succeeded" THEN 1 ELSE 0
    <3>1. CASE Perform(x) /\ a.did <= a.lost + IF a.at = "succeeded" THEN 1 ELSE 0
      BY <1>2, <2>1, <3>1, PerformTells DEF GatewayTyped, Attempt
    <3>2. CASE UNCHANGED <<done, keys>> /\ a.did <= a.lost /\ a.at # "succeeded"
      BY <1>b, <3>2 DEF GatewayTyped, KeysTell
    <3> QED
      BY <1>2, <3>1, <3>2
  <2>3. GatewayTyped'
    BY <1>2, <2>2 DEF GatewayTyped
  <2>4. ASSUME NEW y \in Errands, errand'[y] # NotBegun
        PROVE  /\ errand'[y].at # "succeeded" => errand'[y].did <= errand'[y].lost
               /\ errand'[y].at = "succeeded" =>
                      done'[errand'[y].order] >= 1 /\ errand'[y].did <= errand'[y].lost + 1
    <3>1. CASE y = x
      BY <1>2, <2>2, <3>1 DEF GatewayTyped, Attempt
    <3>2. CASE y # x
      <4>1. errand'[y] = errand[y] /\ errand[y] \in Attempt
        BY <1>2, <2>4, <3>2 DEF GatewayTyped
      <4>2. errand[y].order \in Orders
        BY <4>1 DEF Attempt
      <4> QED
        BY <2>2, <2>4, <4>1, <4>2 DEF AttemptsTell, GatewayTyped
    <3> QED
      BY <3>1, <3>2
  <2> QED
    BY <2>2, <2>3, <2>4 DEF AttemptsTell
<1>3. ASSUME NEW x \in Errands, errand[x].at = "trying"
      PROVE  /\ errand[x] \in Attempt /\ errand[x].did <= errand[x].lost /\ Anew(x) \in 0 .. 1
             /\ errand[x].did \in Nat /\ errand[x].lost \in Nat
  <2>1. errand[x] \in Attempt
    BY <1>0, <1>3
  <2> QED
    BY <1>3, <2>1, AttemptBegun DEF AttemptsTell, Anew, Attempt
<1>4. ASSUME NEW x \in Errands, Answered(x) PROVE GatewayInv'
  <2> DEFINE a == [errand[x] EXCEPT !.at = "succeeded", !.did = @ + Anew(x)]
  <2>0. errand[x] \in Attempt /\ errand[x].did <= errand[x].lost /\ Anew(x) \in 0 .. 1
    BY SMTT(60), <1>3, <1>4 DEF Answered
  <2>a. a \in Attempt
    <3>1. errand[x].did + Anew(x) \in Nat /\ "succeeded" \in Standings
      BY <1>b, <2>0 DEF Standings
    <3> QED
      BY <2>0, <3>1, AttemptTold
  <2>b. a.order = errand[x].order /\ a.at = "succeeded" /\ a.did = errand[x].did + Anew(x) /\ a.lost = errand[x].lost
    BY <2>0 DEF Attempt
  <2>1. a \in Attempt /\ a.order = errand[x].order /\ a.at = "succeeded" /\ a.did <= a.lost + 1
    BY <1>b, <2>0, <2>a, <2>b
  <2>2. errand' = [errand EXCEPT ![x] = a] /\ Perform(x) /\ errand[x].at = "trying"
    BY <1>4 DEF Answered
  <2> HIDE DEF a
  <2> QED
    BY <1>2, <2>1, <2>2
<1>5. ASSUME NEW x \in Errands, AnswerLost(x) PROVE GatewayInv'
  <2> DEFINE a == Thrown(x, Anew(x), 1)
  <2>1. a \in Attempt /\ a.order = errand[x].order /\ a.at # "succeeded" /\ a.did <= a.lost
    <3>0. /\ errand[x] \in Attempt /\ errand[x].did <= errand[x].lost /\ Anew(x) \in 0 .. 1
          /\ errand[x].did \in Nat /\ errand[x].lost \in Nat
      BY <1>3, <1>5 DEF AnswerLost
    <3>1. PICK at \in Standings \ {"succeeded"} :
            a = [errand[x] EXCEPT !.did = @ + Anew(x), !.lost = @ + 1, !.at = at]
      <4>1. CASE errand[x].attempt < MaxAttempts
        <5>1. a = [errand[x] EXCEPT !.did = @ + Anew(x), !.lost = @ + 1, !.at = "waiting"]
          BY <4>1 DEF Thrown
        <5> QED
          BY <5>1 DEF Standings
      <4>2. CASE ~(errand[x].attempt < MaxAttempts)
        <5>1. a = [errand[x] EXCEPT !.did = @ + Anew(x), !.lost = @ + 1, !.at = "failed"]
          BY <4>2 DEF Thrown
        <5> QED
          BY <5>1 DEF Standings
      <4> QED
        BY <4>1, <4>2
    <3>2. a \in Attempt
      <4>1. errand[x].did + Anew(x) \in Nat /\ errand[x].lost + 1 \in Nat
        BY SMTT(60), <3>0
      <4>2. [errand[x] EXCEPT !.did = errand[x].did + Anew(x), !.lost = errand[x].lost + 1, !.at = at] \in Attempt
        BY <3>0, <4>1, AttemptTold
      <4> QED
        BY SMTT(60), <3>1, <4>2
    <3>3. /\ a.order = errand[x].order /\ a.at = at
          /\ a.did = errand[x].did + Anew(x) /\ a.lost = errand[x].lost + 1
      BY <3>0, <3>1 DEF Attempt
    <3> QED
      BY <3>0, <3>1, <3>2, <3>3
  <2>2. errand' = [errand EXCEPT ![x] = a] /\ Perform(x) /\ errand[x].at = "trying"
    BY <1>5 DEF AnswerLost
  <2> HIDE DEF a
  <2>3. a.did <= a.lost + IF a.at = "succeeded" THEN 1 ELSE 0
    BY <1>b, <2>1
  <2> QED
    BY <1>2, <2>1, <2>2, <2>3
<1>6. ASSUME NEW x \in Errands, NotReached(x) PROVE GatewayInv'
  <2> DEFINE a == Thrown(x, 0, 0)
  <2>1. a \in Attempt /\ a.order = errand[x].order /\ a.at # "succeeded" /\ a.did <= a.lost
    <3>0. /\ errand[x] \in Attempt /\ errand[x].did <= errand[x].lost /\ Anew(x) \in 0 .. 1
          /\ errand[x].did \in Nat /\ errand[x].lost \in Nat
      BY <1>3, <1>6 DEF NotReached
    <3>1. PICK at \in Standings \ {"succeeded"} :
            a = [errand[x] EXCEPT !.did = @ + 0, !.lost = @ + 0, !.at = at]
      <4>1. CASE errand[x].attempt < MaxAttempts
        <5>1. a = [errand[x] EXCEPT !.did = @ + 0, !.lost = @ + 0, !.at = "waiting"]
          BY <4>1 DEF Thrown
        <5> QED
          BY <5>1 DEF Standings
      <4>2. CASE ~(errand[x].attempt < MaxAttempts)
        <5>1. a = [errand[x] EXCEPT !.did = @ + 0, !.lost = @ + 0, !.at = "failed"]
          BY SMTT(60), <4>2 DEF Thrown
        <5> QED
          BY <5>1 DEF Standings
      <4> QED
        BY <4>1, <4>2
    <3>2. a \in Attempt
      <4>1. errand[x].did + 0 \in Nat /\ errand[x].lost + 0 \in Nat
        BY SMTT(60), <3>0
      <4>2. [errand[x] EXCEPT !.did = errand[x].did + 0, !.lost = errand[x].lost + 0, !.at = at] \in Attempt
        BY <3>0, <4>1, AttemptTold
      <4> QED
        BY SMTT(60), <3>1, <4>2
    <3>3. /\ a.order = errand[x].order /\ a.at = at
          /\ a.did = errand[x].did + 0 /\ a.lost = errand[x].lost + 0
      BY ZenonT(60), <3>0, <3>1 DEF Attempt
    <3> QED
      BY <3>0, <3>1, <3>2, <3>3
  <2>2. errand' = [errand EXCEPT ![x] = a] /\ UNCHANGED <<done, keys>> /\ errand[x].at = "trying"
    BY <1>6 DEF NotReached
  <2> HIDE DEF a
  <2> QED
    BY <1>2, <2>1, <2>2
<1>7. ASSUME NEW x \in Errands, TryAgain(x) PROVE GatewayInv'
  <2> DEFINE a == [errand[x] EXCEPT !.at = "trying", !.attempt = @ + 1]
  <2>1. errand[x] \in Attempt
    BY <1>0, <1>7 DEF TryAgain
  <2>2. a \in Attempt /\ a.at # "succeeded" /\ a.did <= a.lost
    <3>1. errand[x].did <= errand[x].lost
      BY SMTT(60), <1>7, <2>1, AttemptBegun DEF TryAgain, AttemptsTell
    <3>2. a \in Attempt
      <4>1. errand[x].attempt + 1 \in Nat /\ "trying" \in Standings
        BY <2>1 DEF Attempt, Standings
      <4> QED
        BY <2>1, <4>1, AttemptTold
    <3>3. a.at = "trying" /\ a.did = errand[x].did /\ a.lost = errand[x].lost
      BY <2>1 DEF Attempt
    <3> QED
      BY <3>1, <3>2, <3>3
  <2>3. errand' = [errand EXCEPT ![x] = a] /\ UNCHANGED <<done, keys>>
    BY ZenonT(60), <1>7 DEF TryAgain
  <2> HIDE DEF a
  <2> QED
    BY <2>2, <2>3 DEF GatewayTyped, KeysTell, AttemptsTell
<1>8. CASE Dies
  <2>1. \A x \in Errands : errand'[x] = errand[x] \/
           /\ errand[x] \in Attempt /\ errand[x].at # "succeeded"
           /\ errand'[x] = [errand[x] EXCEPT !.at = "died"]
    BY <1>0, <1>8 DEF Dies
  <2>2. \A x \in Errands : errand'[x] = errand[x] \/
           /\ errand'[x] \in Attempt /\ errand'[x].at = "died"
           /\ errand'[x].did <= errand'[x].lost
    <3> SUFFICES ASSUME NEW x \in Errands, errand[x] \in Attempt, errand[x].at # "succeeded",
                        errand'[x] = [errand[x] EXCEPT !.at = "died"]
                 PROVE  errand'[x] \in Attempt /\ errand'[x].at = "died" /\ errand'[x].did <= errand'[x].lost
      BY <2>1
    <3>1. errand[x].did <= errand[x].lost
      BY SMTT(60), AttemptBegun DEF AttemptsTell
    <3>2. errand'[x] \in Attempt
      BY AttemptTold DEF Standings
    <3> QED
      BY SMTT(60), <3>1, <3>2 DEF Attempt
  <2>3. errand' = [x \in Errands |-> errand'[x]] /\ UNCHANGED <<done, keys>>
    BY <1>8 DEF Dies
  <2> QED
    BY <2>2, <2>3 DEF GatewayTyped, KeysTell, AttemptsTell
<1> QED
  BY <1>1, <1>4, <1>5, <1>6, <1>7, <1>8 DEF GatewayNext

\* What the invariant says of the calls and the gateway.
LEMMA GatewayInvTells ==
    ASSUME GatewayInv
    PROVE  MadeOnce
BY DEF GatewayInv, GatewayTyped, KeysTell, AttemptsTell, MadeOnce, Attempt

\* An event that is not remembered was not handed on since the ids were
\* forgotten.
WebhookInv ==
    /\ processedWebhookIds \in [Gateways -> SUBSET Events]
    /\ handed \in [Gateways -> [Events -> Nat]]
    /\ \A g \in Gateways, e \in Events :
          handed[g][e] = IF e \in processedWebhookIds[g] THEN 1 ELSE 0

\* Every delivery keeps that.
LEMMA WebhookStep ==
    ASSUME WebhookInv, WebhookNext
    PROVE  WebhookInv'
<1>1. CASE Restart
  BY <1>1 DEF Restart, WebhookInv, NoneProcessed, NoneHanded
<1>2. ASSUME NEW g \in Gateways, NEW e \in Events, WebhookArrives(g, e) PROVE WebhookInv'
  <2>0. /\ processedWebhookIds[g] \in SUBSET Events /\ handed[g] \in [Events -> Nat]
        /\ e \notin processedWebhookIds[g] /\ handed[g][e] = 0
    BY <1>2 DEF WebhookArrives, WebhookInv
  <2> DEFINE ids == processedWebhookIds[g] \cup {e}
             forgets == Cardinality(ids) > RememberedEvents
             table == IF forgets THEN [f \in Events |-> 0] ELSE [handed[g] EXCEPT ![e] = @ + 1]
  <2>a. /\ processedWebhookIds' = [processedWebhookIds EXCEPT ![g] = IF forgets THEN {} ELSE ids]
        /\ handed' = [handed EXCEPT ![g] = table]
    <3>1. processedWebhookIds' = [processedWebhookIds EXCEPT ![g] = IF forgets THEN {} ELSE ids]
      BY <1>2 DEF WebhookArrives
    <3>2. handed' = [handed EXCEPT ![g] = table]
      <4>1. CASE forgets
        <5>1. handed' = [handed EXCEPT ![g] = [f \in Events |-> 0]]
          BY <1>2, <4>1 DEF WebhookArrives, NoneHanded
        <5> QED
          BY <4>1, <5>1
      <4>2. CASE ~forgets
        <5>1. handed' = [handed EXCEPT ![g][e] = @ + 1]
          BY <1>2, <4>2 DEF WebhookArrives
        <5> QED
          BY <4>2, <5>1
      <4> QED
        BY <4>1, <4>2
    <3> QED
      BY <3>1, <3>2
  <2>b. table \in [Events -> Nat]
    BY <2>0
  <2>c. \A f \in Events : table[f] = IF f \in (IF forgets THEN {} ELSE ids) THEN 1 ELSE 0
    BY <2>0 DEF WebhookInv
  <2> HIDE DEF table, forgets
  <2>1. /\ processedWebhookIds' \in [Gateways -> SUBSET Events]
        /\ handed' \in [Gateways -> [Events -> Nat]]
    BY <2>0, <2>a, <2>b DEF WebhookInv
  <2>2. ASSUME NEW h \in Gateways, NEW f \in Events
        PROVE  handed'[h][f] = IF f \in processedWebhookIds'[h] THEN 1 ELSE 0
    BY <2>a, <2>c DEF WebhookInv
  <2> QED
    BY <2>1, <2>2 DEF WebhookInv
<1> QED
  BY <1>1, <1>2 DEF WebhookNext

-----------------------------------------------------------------------------
(* The providers that a request asks, one after the other (Providers).      *)

\* What a name that is added, or was there already, leaves of the list.
AddedTo(list, p, new) ==
    /\ Range(list) \subseteq Range(new)
    /\ p # NoPreference => p \in Range(new)
    /\ list # <<>> => new # <<>> /\ Head(new) = Head(list)
    /\ list = <<>> /\ p # NoPreference => new # <<>> /\ Head(new) = p
\* Adding a name is that.
LEMMA AddNewTells ==
    ASSUME NEW Names, NEW list \in Seq(Names), NEW p \in Names
    PROVE  AddNew(list, p) \in Seq(Names) /\ AddedTo(list, p, AddNew(list, p))
<1>1. CASE p = NoPreference \/ p \in Range(list)
  BY <1>1 DEF AddNew, Range, AddedTo
<1>2. CASE ~(p = NoPreference \/ p \in Range(list))
  <2>1. AddNew(list, p) = Append(list, p)
    BY <1>2 DEF AddNew
  <2>2. \A i \in DOMAIN list : i \in DOMAIN Append(list, p) /\ Append(list, p)[i] = list[i]
    OBVIOUS
  <2>3. Len(list) + 1 \in DOMAIN Append(list, p) /\ Append(list, p)[Len(list) + 1] = p
    OBVIOUS
  <2>4. Range(list) \subseteq Range(Append(list, p)) /\ p \in Range(Append(list, p))
    BY <2>2, <2>3 DEF Range
  <2>5. list # <<>> => Head(Append(list, p)) = Head(list)
    OBVIOUS
  <2>6. list = <<>> => Head(Append(list, p)) = p
    OBVIOUS
  <2> QED
    BY <2>1, <2>4, <2>5, <2>6 DEF AddedTo
<1> QED
  BY <1>1, <1>2

\* The iteration that makes the list of the candidates, as a function.
ListAt(seq, g, s) == IF s = {} THEN <<>> ELSE AddNew(g[s \ {Max(s)}], seq[Max(s)])
IsListing(seq, g) == g = [s \in SUBSET (DOMAIN seq) |-> ListAt(seq, g, s)]
Listing(seq) == CHOOSE g : IsListing(seq, g)
\* The fold is the last value of that function.
LEMMA FoldIsListing ==
    ASSUME NEW seq
    PROVE  FoldLeft(AddNew, <<>>, seq) = Listing(seq)[DOMAIN seq]
BY DEF FoldLeft, MapThenFoldSet, Listing, IsListing, ListAt

\* There is such a function.
LEMMA ListingExists ==
    ASSUME NEW Names, NEW seq \in Seq(Names)
    PROVE  IsListing(seq, Listing(seq))
<1> DEFINE A == Seq(Names)
           F == [p \in A \X Names |-> AddNew(p[1], p[2])]
           N == Len(seq)
<1>1. F \in [A \X Names -> A] /\ \A a \in A, b \in Names : F[<<a, b>>] = AddNew(a, b)
  BY AddNewTells
<1>2. N \in Nat /\ seq \in [1 .. N -> Names] /\ DOMAIN seq = 1 .. N /\ <<>> \in A
  OBVIOUS
<1> HIDE DEF F, A, N
<1>3. PICK g : Iterates(A, F, <<>>, N, seq, g)
  BY <1>1, <1>2, PositionsIterate
<1>4. ASSUME NEW s \in SUBSET (1 .. N) PROVE g[s] = ListAt(seq, g, s)
  <2>1. CASE s = {}
    BY <1>3, <2>1 DEF Iterates, ListAt
  <2>2. CASE s # {}
    <3>1. Max(s) \in 1 .. N
      BY <1>2, <2>2, LastPosition
    <3>2. s \ {Max(s)} \in SUBSET (1 .. N)
      OBVIOUS
    <3> QED
      BY <1>1, <1>2, <1>3, <2>2, <3>1, <3>2 DEF Iterates, ListAt
  <2> QED
    BY <2>1, <2>2
<1> DEFINE h == [s \in SUBSET (1 .. N) |-> ListAt(seq, g, s)]
<1>5. \A s \in SUBSET (1 .. N) : h[s] = g[s]
  BY <1>4
<1>6. \A s \in SUBSET (1 .. N) : ListAt(seq, h, s) = ListAt(seq, g, s)
  <2> TAKE s \in SUBSET (1 .. N)
  <2>1. s \ {Max(s)} \in SUBSET (1 .. N)
    OBVIOUS
  <2> HIDE DEF h
  <2> QED
    BY <1>5, <2>1 DEF ListAt
<1>7. IsListing(seq, h)
  BY <1>2, <1>6 DEF IsListing
<1> QED
  BY <1>7 DEF Listing

\* The list after the first k names.
LEMMA ListingStep ==
    ASSUME NEW Names, NEW seq \in Seq(Names), NEW k \in Nat, k < Len(seq)
    PROVE  /\ Listing(seq)[{}] = <<>>
           /\ Listing(seq)[1 .. (k + 1)] = AddNew(Listing(seq)[1 .. k], seq[k + 1])
<1>1. \A s \in SUBSET (DOMAIN seq) : Listing(seq)[s] = ListAt(seq, Listing(seq), s)
  BY ListingExists DEF IsListing
<1>2. DOMAIN seq = 1 .. Len(seq) /\ Len(seq) \in Nat
  OBVIOUS
<1>3. 1 .. (k + 1) \in SUBSET (DOMAIN seq) /\ 1 .. (k + 1) # {} /\ {} \in SUBSET (DOMAIN seq)
  BY <1>2
<1> QED
  BY <1>1, <1>3, FirstPositions DEF ListAt

\* Every name of the sequence is in the list made of it, and the first one
\* that is a name is its first.
LEMMA ListingTells ==
    ASSUME NEW Names, NEW seq \in Seq(Names), seq # <<>>
    PROVE  LET list == FoldLeft(AddNew, <<>>, seq)
           IN /\ list \in Seq(Names)
              /\ \A i \in DOMAIN seq : seq[i] # NoPreference => seq[i] \in Range(list)
              /\ seq[1] # NoPreference => list # <<>> /\ Head(list) = seq[1]
<1> DEFINE N == Len(seq)
           list(k) == Listing(seq)[1 .. k]
           Good(k) == /\ list(k) \in Seq(Names)
                      /\ \A i \in 1 .. k : seq[i] # NoPreference => seq[i] \in Range(list(k))
                      /\ k >= 1 /\ seq[1] # NoPreference => list(k) # <<>> /\ Head(list(k)) = seq[1]
           P == {k \in Nat : k <= N => Good(k)}
<1>0. N \in Nat /\ N >= 1 /\ DOMAIN seq = 1 .. N
  OBVIOUS
<1>1. list(0) = <<>>
  <2>1. 1 .. 0 = {}
    OBVIOUS
  <2> QED
    BY <1>0, <2>1, ListingStep
<1>2. 0 \in P
  <2>1. \A i \in 1 .. 0 : FALSE
    OBVIOUS
  <2>2. <<>> \in Seq(Names)
    OBVIOUS
  <2> HIDE DEF list
  <2> QED
    <3>1. list(0) \in Seq(Names)
      BY <1>1, <2>2
    <3>2. ~(0 >= 1) /\ 0 \in Nat
      OBVIOUS
    <3> QED
      BY <2>1, <3>1, <3>2
<1>3. ASSUME NEW k \in Nat, k \in P PROVE k + 1 \in P
  <2> SUFFICES ASSUME k + 1 <= N PROVE Good(k + 1)
    OBVIOUS
  <2>1. list(k + 1) = AddNew(list(k), seq[k + 1])
    BY <1>0, ListingStep
  <2>2. Good(k) /\ seq[k + 1] \in Names
    BY <1>0, <1>3
  <2>3. /\ list(k + 1) \in Seq(Names) /\ Range(list(k)) \subseteq Range(list(k + 1))
        /\ seq[k + 1] # NoPreference => seq[k + 1] \in Range(list(k + 1))
        /\ list(k) # <<>> => list(k + 1) # <<>> /\ Head(list(k + 1)) = Head(list(k))
        /\ list(k) = <<>> /\ seq[k + 1] # NoPreference =>
               list(k + 1) # <<>> /\ Head(list(k + 1)) = seq[k + 1]
    <3>1. PICK now : now = list(k)
      OBVIOUS
    <3>2. PICK p : p = seq[k + 1]
      OBVIOUS
    <3>3. now \in Seq(Names) /\ p \in Names
      BY <2>2, <3>1, <3>2, <1>3
    <3>4. AddNew(now, p) \in Seq(Names) /\ AddedTo(now, p, AddNew(now, p))
      BY <3>3, AddNewTells
    <3> HIDE DEF list
    <3> QED
      BY <2>1, <3>1, <3>2, <3>4 DEF AddedTo
  <2>4. \A i \in 1 .. k + 1 : i \in 1 .. k \/ i = k + 1
    OBVIOUS
  <2>5. k = 0 => list(k) = <<>>
    BY <1>1
  <2> HIDE DEF list
  <2>6. \A i \in 1 .. k + 1 : seq[i] # NoPreference => seq[i] \in Range(list(k + 1))
    BY <2>2, <2>3, <2>4
  <2>7. seq[1] # NoPreference => list(k + 1) # <<>> /\ Head(list(k + 1)) = seq[1]
    <3>1. CASE k = 0
      BY <2>3, <2>5, <3>1
    <3>2. CASE k # 0
      BY <2>2, <2>3, <3>2
    <3> QED
      BY <3>1, <3>2
  <2> QED
    BY <2>3, <2>6, <2>7
<1>4. N \in P
  <2> HIDE DEF P
  <2> QED
    BY <1>0, <1>2, <1>3, NumberInduction
<1>5. FoldLeft(AddNew, <<>>, seq) = list(N)
  BY <1>0, FoldIsListing
<1> HIDE DEF list
<1> QED
  BY <1>0, <1>4, <1>5

\* Whom a request may ask and be handed to.
Names == Preferences \cup {NoPreference, "claude"} \cup AllProviders
Stages == {"selecting", "any", "selected", "unavailable", "refused", "calling", "answered", "failed"}
Sent == [at : Stages, kind : {"chat", "embed"}, preferred : Preferences, provider : Names,
         left : Seq(Names), steady : SUBSET AllProviders]
\* Enabled, and up all the time that the request selects.
Steady(r) == prompt[r].steady \cap setup.enabled \cap setup.reachable
\* Those that have been up all the time are still to be asked, the one asked
\* for before all others; when all have been asked there are none.
Selecting(r) ==
    /\ prompt[r].at \in {"selecting", "any"} => prompt[r].steady \subseteq up
    /\ prompt[r].at = "selecting" =>
         /\ Steady(r) \subseteq Range(prompt[r].left)
         /\ prompt[r].preferred \in Steady(r) =>
                prompt[r].left # <<>> /\ Head(prompt[r].left) = prompt[r].preferred
    /\ prompt[r].at = "any" => Steady(r) = {}
Selected(r) == prompt[r].at \notin {"none", "selecting", "any"} =>
    /\ Steady(r) # {} => prompt[r].at # "unavailable" /\ Configured(prompt[r].provider)
    /\ prompt[r].preferred \in Steady(r) => prompt[r].provider = prompt[r].preferred
ProviderInv ==
    /\ setup \in Setups /\ up \subseteq setup.reachable
    /\ prompt \in [Prompts -> {NotSent} \cup Sent]
    /\ \A r \in Prompts : Selecting(r) /\ Selected(r)

\* The list of the candidates has every provider, and the one asked for first.
LEMMA CandidatesTell ==
    ASSUME NEW preferred \in Preferences, NEW byModel \in {NoPreference, "claude"}
    PROVE  /\ Candidates(preferred, byModel) \in Seq(Names)
           /\ AllProviders \subseteq Range(Candidates(preferred, byModel))
           /\ preferred # NoPreference =>
                  /\ Candidates(preferred, byModel) # <<>>
                  /\ Head(Candidates(preferred, byModel)) = preferred
<1> DEFINE asked == <<preferred, byModel, DefaultProvider>> \o RegisteredProviders
<1>1. RegisteredProviders \in Seq(AllProviders) /\ NoPreference \notin AllProviders
      /\ DefaultProvider \in AllProviders
  BY DEF RegisteredProviders, AllProviders, Range, NoPreference, DefaultProvider
<1>2. <<preferred, byModel, DefaultProvider>> \in Seq(Names)
  BY <1>1 DEF Names
<1>3. asked \in Seq(Names)
  BY <1>1, <1>2 DEF Names
<1>4. asked # <<>> /\ asked[1] = preferred
  BY <1>1, <1>2
<1>5. \A i \in DOMAIN RegisteredProviders : i + 3 \in DOMAIN asked /\ asked[i + 3] = RegisteredProviders[i]
  BY <1>1, <1>2
<1>6. Candidates(preferred, byModel) = FoldLeft(AddNew, <<>>, asked)
  BY DEF Candidates
<1> HIDE DEF asked
<1>7. LET list == FoldLeft(AddNew, <<>>, asked)
      IN /\ list \in Seq(Names)
         /\ \A i \in DOMAIN asked : asked[i] # NoPreference => asked[i] \in Range(list)
         /\ asked[1] # NoPreference => list # <<>> /\ Head(list) = asked[1]
  BY <1>3, <1>4, ListingTells
<1>8. ASSUME NEW p \in AllProviders PROVE p \in Range(Candidates(preferred, byModel))
  <2>1. PICK i \in DOMAIN RegisteredProviders : p = RegisteredProviders[i]
    BY DEF AllProviders, Range
  <2> QED
    BY <1>1, <1>5, <1>6, <1>7, <2>1
<1> QED
  BY <1>4, <1>6, <1>7, <1>8

\* Who is not the next one to be asked is asked later.
LEMMA TailRange ==
    ASSUME NEW S, NEW seq \in Seq(S), seq # <<>>
    PROVE  /\ Tail(seq) \in Seq(S) /\ Head(seq) \in S
           /\ Range(seq) \subseteq {Head(seq)} \cup Range(Tail(seq))
<1>1. ASSUME NEW i \in DOMAIN seq, i # 1 PROVE i - 1 \in DOMAIN Tail(seq) /\ Tail(seq)[i - 1] = seq[i]
  BY <1>1
<1>2. Head(seq) = seq[1]
  OBVIOUS
<1>3. Range(seq) \subseteq {Head(seq)} \cup Range(Tail(seq))
  BY <1>1, <1>2 DEF Range
<1> QED
  BY <1>3

\* A step that changes one request, and leaves the providers as they are.
LEMMA OneRequest ==
    ASSUME ProviderInv, NEW r \in Prompts, NEW x \in Sent,
           prompt' = [prompt EXCEPT ![r] = x], UNCHANGED <<setup, up>>,
           Selecting(r)', Selected(r)'
    PROVE  ProviderInv'
<1>1. ASSUME NEW q \in Prompts, q # r PROVE Selecting(q)' /\ Selected(q)'
  <2>1. prompt'[q] = prompt[q]
    BY <1>1 DEF ProviderInv
  <2> QED
    BY <2>1 DEF ProviderInv, Selecting, Selected, Steady, Configured
<1> QED
  BY <1>1 DEF ProviderInv

\* A request that has found a provider.
Found(x, p) == [x EXCEPT !.at = "selected", !.provider = p, !.left = <<>>]
\* Its fields.
LEMMA HasSelected ==
    ASSUME NEW x \in Sent, NEW p \in Names
    PROVE  Found(x, p) \in Sent
<1>1. <<>> \in Seq(Names) /\ "selected" \in Stages
  BY DEF Stages
<1> QED
  BY <1>1 DEF Sent, Found

\* Every step of the gateway to the models keeps those that have been up all
\* the time still to be asked, or has found one of them.
LEMMA ProviderStep ==
    ASSUME ProviderInv, ProviderNext
    PROVE  ProviderInv'
<1>0. /\ setup.enabled \cup setup.reachable \subseteq AllProviders
      /\ NoPreference \notin AllProviders
  BY SetupAssumption DEF ProviderInv, AllProviders, RegisteredProviders, Range, NoPreference
<1>a. ASSUME NEW r \in Prompts, prompt[r].at \in Stages PROVE prompt[r] \in Sent
  BY <1>a DEF ProviderInv, NotSent, Stages
<1>1. ASSUME NEW r \in Prompts, SendPrompt(r) PROVE ProviderInv'
  <2>1. PICK kind \in {"chat", "embed"}, preferred \in Preferences, byModel \in {NoPreference, "claude"} :
          prompt' = [prompt EXCEPT ![r] =
            [at |-> "selecting", kind |-> kind, preferred |-> preferred, provider |-> NoPreference,
             left |-> Candidates(preferred, byModel), steady |-> up]]
    BY <1>1 DEF SendPrompt
  <2>2. PICK list : list = Candidates(preferred, byModel)
    OBVIOUS
  <2>3. /\ list \in Seq(Names) /\ AllProviders \subseteq Range(list)
        /\ preferred # NoPreference => list # <<>> /\ Head(list) = preferred
    BY <2>2, CandidatesTell
  <2> DEFINE x == [at |-> "selecting", kind |-> kind, preferred |-> preferred, provider |-> NoPreference,
                   left |-> list, steady |-> up]
  <2>4. up \subseteq AllProviders /\ UNCHANGED <<setup, up>>
    BY <1>0, <1>1 DEF ProviderInv, SendPrompt
  <2>5. x \in Sent
    BY <2>3, <2>4 DEF Sent, Stages, Names
  <2>6. prompt' = [prompt EXCEPT ![r] = x]
    BY <2>1, <2>2
  <2>7. prompt'[r] = x
    BY <2>6 DEF ProviderInv
  <2>8. Selecting(r)' /\ Selected(r)'
    BY <1>0, <2>3, <2>4, <2>7 DEF Selecting, Selected, Steady
  <2> HIDE DEF x
  <2> QED
    BY <2>4, <2>5, <2>6, <2>8, OneRequest
<1>2. ASSUME NEW r \in Prompts, AskCandidate(r) PROVE ProviderInv'
  <2> DEFINE p == Head(prompt[r].left)
             rest == Tail(prompt[r].left)
  <2>1. prompt[r] \in Sent /\ prompt[r].at = "selecting" /\ UNCHANGED <<setup, up>>
    BY <1>2, <1>a DEF AskCandidate, Stages
  <2>2. prompt[r].left \in Seq(Names) /\ prompt[r].left # <<>> /\ prompt[r].steady \subseteq up
    BY <1>2, <2>1 DEF Sent, AskCandidate, ProviderInv, Selecting
  <2>3. rest \in Seq(Names) /\ p \in Names /\ Range(prompt[r].left) \subseteq {p} \cup Range(rest)
    BY <2>2, TailRange
  <2>4. /\ Steady(r) \subseteq Range(prompt[r].left)
        /\ prompt[r].preferred \in Steady(r) => p = prompt[r].preferred
    BY <2>1 DEF ProviderInv, Selecting
  <2>5. CASE p \in AllProviders /\ Available(p) /\ Configured(p)
    <3> DEFINE x == Found(prompt[r], p)
    <3>1. prompt' = [prompt EXCEPT ![r] = x]
      BY <1>2, <2>5 DEF AskCandidate, Found
    <3>2. x \in Sent
      BY <2>1, <2>3, HasSelected
    <3>3. /\ x.at = "selected" /\ x.provider = p /\ x.steady = prompt[r].steady
          /\ x.preferred = prompt[r].preferred
      BY <2>1 DEF Sent, Found
    <3>4. prompt'[r] = x
      BY <3>1 DEF ProviderInv
    <3> HIDE DEF x
    <3>5. Selecting(r)' /\ Selected(r)'
      BY <2>1, <2>4, <2>5, <3>3, <3>4 DEF Selecting, Selected, Steady, Configured
    <3> QED
      BY <2>1, <3>1, <3>2, <3>5, OneRequest
  <2>6. CASE ~(p \in AllProviders /\ Available(p) /\ Configured(p))
    <3> DEFINE x == [prompt[r] EXCEPT !.left = rest]
    <3>1. prompt' = [prompt EXCEPT ![r] = x]
      BY <1>2, <2>6 DEF AskCandidate
    <3>2. x \in Sent
      BY <2>1, <2>3 DEF Sent
    <3>3. /\ x.at = "selecting" /\ x.left = rest /\ x.steady = prompt[r].steady
          /\ x.preferred = prompt[r].preferred
      BY <2>1 DEF Sent
    <3>4. prompt'[r] = x
      BY <3>1 DEF ProviderInv
    <3>5. p \notin Steady(r)
      BY <1>0, <2>2, <2>6 DEF Steady, Available, Configured
    <3> HIDE DEF x
    <3>6. Selecting(r)' /\ Selected(r)'
      BY <2>1, <2>2, <2>3, <2>4, <3>3, <3>4, <3>5 DEF Selecting, Selected, Steady, Configured
    <3> QED
      BY <2>1, <3>1, <3>2, <3>6, OneRequest
  <2> QED
    BY <2>5, <2>6
<1>3. ASSUME NEW r \in Prompts, LastResort(r) PROVE ProviderInv'
  <2> DEFINE x == [prompt[r] EXCEPT !.at = "any", !.left = RegisteredProviders]
  <2>1. prompt[r] \in Sent /\ prompt[r].at = "selecting" /\ UNCHANGED <<setup, up>>
    BY <1>3, <1>a DEF LastResort, Stages
  <2>2. prompt' = [prompt EXCEPT ![r] = x]
    BY <1>3 DEF LastResort
  <2>3. RegisteredProviders \in Seq(Names)
    BY DEF RegisteredProviders, Names, AllProviders, Range
  <2>4. x \in Sent
    BY <2>1, <2>3 DEF Sent, Stages
  <2>5. x.at = "any" /\ x.steady = prompt[r].steady
    BY <2>1 DEF Sent
  <2>6. Steady(r) = {}
    <3>1. Range(<<>>) = {}
      BY DEF Range
    <3> QED
      BY <1>3, <2>1, <3>1 DEF LastResort, ProviderInv, Selecting
  <2>7. prompt'[r] = x
    BY <2>2 DEF ProviderInv
  <2> HIDE DEF x
  <2>8. Selecting(r)' /\ Selected(r)'
    BY <2>1, <2>5, <2>6, <2>7 DEF Selecting, Selected, Steady, ProviderInv
  <2> QED
    BY <2>1, <2>2, <2>4, <2>8, OneRequest
<1>4. ASSUME NEW r \in Prompts, AskAny(r) PROVE ProviderInv'
  <2> DEFINE left == prompt[r].left
  <2>1. prompt[r] \in Sent /\ prompt[r].at = "any" /\ UNCHANGED <<setup, up>>
    BY <1>4, <1>a DEF AskAny, Stages
  <2>2. left \in Seq(Names) /\ Steady(r) = {} /\ prompt[r].steady \subseteq up
    BY <2>1 DEF Sent, ProviderInv, Selecting
  <2>3. PICK x \in Sent :
          prompt' = [prompt EXCEPT ![r] = x] /\ x.steady = prompt[r].steady /\ x.at # "selecting"
    <3>1. CASE left = <<>>
      <4> DEFINE x == [prompt[r] EXCEPT !.at = "unavailable"]
      <4>1. prompt' = [prompt EXCEPT ![r] = x]
        BY <1>4, <3>1 DEF AskAny
      <4>2. x \in Sent /\ x.steady = prompt[r].steady /\ x.at = "unavailable"
        BY <2>1 DEF Sent, Stages
      <4> HIDE DEF x
      <4> QED
        BY <4>1, <4>2
    <3>2. CASE left # <<>> /\ Available(Head(left))
      <4> DEFINE x == Found(prompt[r], Head(left))
      <4>1. prompt' = [prompt EXCEPT ![r] = x]
        BY <1>4, <3>2 DEF AskAny, Found
      <4>2. Head(left) \in Names
        BY <2>2, <3>2, TailRange
      <4>3. x \in Sent
        BY <2>1, <4>2, HasSelected
      <4>4. x.steady = prompt[r].steady /\ x.at = "selected"
        BY <2>1 DEF Sent, Found
      <4> HIDE DEF x
      <4> QED
        BY <4>1, <4>3, <4>4
    <3>3. CASE left # <<>> /\ ~Available(Head(left))
      <4> DEFINE x == [prompt[r] EXCEPT !.left = Tail(left)]
      <4>1. prompt' = [prompt EXCEPT ![r] = x]
        BY <1>4, <3>3 DEF AskAny
      <4>2. Tail(left) \in Seq(Names)
        BY <2>2, <3>3, TailRange
      <4>3. x \in Sent /\ x.steady = prompt[r].steady /\ x.at = "any"
        BY <2>1, <4>2 DEF Sent
      <4> HIDE DEF x
      <4> QED
        BY <4>1, <4>3
    <3> QED
      BY <3>1, <3>2, <3>3
  <2>4. prompt'[r] = x
    BY <2>3 DEF ProviderInv
  <2>5. Selecting(r)' /\ Selected(r)'
    BY <2>1, <2>2, <2>3, <2>4 DEF Selecting, Selected, Steady
  <2> QED
    BY <2>1, <2>3, <2>5, OneRequest
<1>5. ASSUME NEW r \in Prompts, NEW at \in {"refused", "calling", "answered", "failed"},
             prompt[r].at \in {"selected", "calling"},
             prompt' = [prompt EXCEPT ![r].at = at], UNCHANGED <<setup, up>>
      PROVE  ProviderInv'
  <2> DEFINE x == [prompt[r] EXCEPT !.at = at]
  <2>1. prompt[r] \in Sent
    BY <1>5, <1>a DEF Stages
  <2>2. x \in Sent
    BY <2>1 DEF Sent, Stages
  <2>3. /\ x.at = at /\ x.provider = prompt[r].provider /\ x.steady = prompt[r].steady
        /\ x.preferred = prompt[r].preferred
    BY <2>1 DEF Sent
  <2>4. prompt'[r] = x /\ prompt' = [prompt EXCEPT ![r] = x]
    BY <1>5 DEF ProviderInv
  <2> HIDE DEF x
  <2>5. Selecting(r)' /\ Selected(r)'
    BY <1>5, <2>3, <2>4 DEF ProviderInv, Selecting, Selected, Steady, Configured
  <2> QED
    BY <1>5, <2>2, <2>4, <2>5, OneRequest
<1>6. ASSUME NEW r \in Prompts, Hand(r) \/ Returns(r) PROVE ProviderInv'
  BY <1>5, <1>6 DEF Hand, Returns
<1>7. ASSUME NEW p \in setup.reachable, ComesUp(p) PROVE ProviderInv'
  <2>1. UNCHANGED <<setup, prompt>> /\ up' = up \cup {p}
    BY <1>7 DEF ComesUp
  <2>2. \A r \in Prompts : Selecting(r)' /\ Selected(r)'
    BY <2>1 DEF ProviderInv, Selecting, Selected, Steady, Configured
  <2> QED
    BY <2>1, <2>2 DEF ProviderInv
<1>8. ASSUME NEW p \in setup.reachable, GoesDown(p) PROVE ProviderInv'
  <2>1. UNCHANGED setup /\ up' = up \ {p}
    BY <1>8 DEF GoesDown
  <2>2. ASSUME NEW r \in Prompts
        PROVE  /\ prompt'[r] \in {NotSent} \cup Sent
               /\ Selecting(r)' /\ Selected(r)'
    <3>1. CASE prompt[r].at \in {"selecting", "any"}
      <4> DEFINE x == [prompt[r] EXCEPT !.steady = @ \ {p}]
      <4>1. prompt[r] \in Sent /\ prompt'[r] = x
        BY <1>8, <1>a, <3>1 DEF GoesDown, Stages
      <4>2. x \in Sent /\ x.steady = prompt[r].steady \ {p} /\ x.left = prompt[r].left
            /\ x.at = prompt[r].at /\ x.preferred = prompt[r].preferred
        BY <4>1 DEF Sent
      <4> HIDE DEF x
      <4> QED
        BY <2>1, <3>1, <4>1, <4>2 DEF ProviderInv, Selecting, Selected, Steady
    <3>2. CASE prompt[r].at \notin {"selecting", "any"}
      <4>1. prompt'[r] = prompt[r]
        BY <1>8, <3>2 DEF GoesDown
      <4> QED
        BY <2>1, <3>2, <4>1 DEF ProviderInv, Selecting, Selected, Steady, Configured
    <3> QED
      BY <3>1, <3>2
  <2>3. prompt' = [r \in Prompts |-> prompt'[r]]
    BY <1>8 DEF GoesDown
  <2> QED
    BY <2>1, <2>2, <2>3 DEF ProviderInv
<1> QED
  BY <1>1, <1>2, <1>3, <1>4, <1>6, <1>7, <1>8 DEF ProviderNext

\* What the invariant says of a request that has selected.
LEMMA ProviderInvTells ==
    ASSUME ProviderInv
    PROVE  SelectionHolds
BY DEF ProviderInv, Selected, SelectionHolds, Steady

-----------------------------------------------------------------------------
(* The indexes of the semantic cache (Caches).                              *)

CacheTyped ==
    /\ store \in [CacheKeys -> {NoEntry} \cup [at : {"store"}, tags : SUBSET Tags, expired : BOOLEAN]]
    /\ orgIndex \in [Organizations -> SUBSET CacheKeys]
    /\ categoryIndex \in [Categories -> SUBSET CacheKeys]
    /\ tagIndex \in [Tags -> SUBSET CacheKeys]
InIndexes(k) ==
    /\ k \in orgIndex[k[1]]
    /\ k \in categoryIndex[k[2]] \cup orphaned
    /\ \A t \in store[k].tags : k \in tagIndex[t]
CacheInv == CacheTyped /\ \A k \in Stored(store) : InIndexes(k)

\* A key is of an organisation and of a category.
LEMMA KeysOf == \A k \in CacheKeys : k[1] \in Organizations /\ k[2] \in Categories
BY DEF Organizations, Categories

\* An entry is not the lack of one.
LEMMA EntryIsStored ==
    \A tags, expired : [at |-> "store", tags |-> tags, expired |-> expired] # NoEntry
BY DEF NoEntry

\* What is removed from the store and the indexes leaves the rest indexed.
LEMMA RemovalCovers ==
    ASSUME CacheInv, NEW gone \in SUBSET CacheKeys,
           store' = Without(gone), orgIndex' = OrgWithout(gone), tagIndex' = TagWithout(gone),
           categoryIndex' = CategoryWithout(gone), orphaned' = orphaned \ gone
    PROVE  CacheInv'
<1>1. CacheTyped'
  BY DEF CacheInv, CacheTyped, Without, OrgWithout, TagWithout, CategoryWithout
<1>2. ASSUME NEW k \in Stored(store)' PROVE InIndexes(k)'
  <2>1. k \in Stored(store) /\ k \notin gone /\ store'[k] = store[k]
    BY <1>2 DEF Stored, Without
  <2>2. k \in CacheKeys /\ InIndexes(k) /\ store[k].tags \subseteq Tags
    BY <2>1 DEF CacheInv, CacheTyped, Stored
  <2> QED
    BY <2>1, <2>2, KeysOf DEF InIndexes, OrgWithout, TagWithout, CategoryWithout
<1> QED
  BY <1>1, <1>2 DEF CacheInv

\* Reading and expiring an entry touches no index.
LEMMA ReadingCovers ==
    ASSUME CacheInv, CacheTyped', UNCHANGED indexes, NEW gone, orphaned' = orphaned \ gone,
           \A k \in Stored(store)' : k \in Stored(store) /\ k \notin gone /\ store'[k].tags = store[k].tags
    PROVE  CacheInv'
BY DEF CacheInv, InIndexes, indexes

\* An entry that is put is indexed, and those that make room for it are in no
\* index.
LEMMA PutCovers ==
    ASSUME CacheInv, NEW k \in CacheKeys, NEW tags \in SUBSET Tags, NEW evicted \in SUBSET CacheKeys,
           NEW expired \in SUBSET CacheKeys, Put(k, tags, evicted, expired)
    PROVE  CacheInv'
<1> DEFINE entry == [at |-> "store", tags |-> tags, expired |-> FALSE]
<1>1. /\ Without(evicted \cup expired) \in [CacheKeys -> {NoEntry} \cup [at : {"store"}, tags : SUBSET Tags, expired : BOOLEAN]]
      /\ OrgWithout(evicted) \in [Organizations -> SUBSET CacheKeys]
      /\ CategoryWithout(evicted) \in [Categories -> SUBSET CacheKeys]
      /\ TagWithout(evicted) \in [Tags -> SUBSET CacheKeys]
  BY DEF CacheInv, CacheTyped, Without, OrgWithout, TagWithout, CategoryWithout
<1>2. CacheTyped'
  <2>1. k[1] \in Organizations /\ k[2] \in Categories
    BY KeysOf
  <2>2. store' \in [CacheKeys -> {NoEntry} \cup [at : {"store"}, tags : SUBSET Tags, expired : BOOLEAN]]
    BY <1>1 DEF Put
  <2>3. orgIndex' \in [Organizations -> SUBSET CacheKeys]
    BY <1>1, <2>1 DEF Put
  <2>4. categoryIndex' \in [Categories -> SUBSET CacheKeys]
    BY <1>1, <2>1 DEF Put
  <2>5. tagIndex' \in [Tags -> SUBSET CacheKeys]
    BY <1>1 DEF Put
  <2> QED
    BY <2>2, <2>3, <2>4, <2>5 DEF CacheTyped
<1>3. ASSUME NEW j \in Stored(store)' PROVE InIndexes(j)'
  <2>0. j \in CacheKeys /\ store'[j] # NoEntry
    BY <1>3 DEF Stored
  <2>1. CASE j = k
    <3>1. store'[k] = entry
      BY <1>1 DEF Put
    <3>2. j \in orgIndex'[j[1]] /\ j \in categoryIndex'[j[2]]
      BY <1>1, <2>1, KeysOf DEF Put
    <3>3. \A t \in tags : j \in tagIndex'[t]
      BY <2>1 DEF Put
    <3> QED
      BY <2>1, <3>1, <3>2, <3>3 DEF InIndexes
  <2>2. CASE j # k
    <3>1. j \in Stored(store) /\ j \notin evicted \cup expired /\ store'[j] = store[j]
      BY <1>1, <2>0, <2>2 DEF Put, Stored, Without
    <3>2. InIndexes(j) /\ store[j].tags \subseteq Tags
      BY <2>0, <3>1 DEF CacheInv, CacheTyped, Stored
    <3>3. j \in orgIndex'[j[1]]
      BY <1>1, <2>0, <3>1, <3>2, KeysOf DEF Put, InIndexes, OrgWithout
    <3>4. j \in categoryIndex'[j[2]] \cup orphaned'
      BY <1>1, <2>0, <2>2, <3>1, <3>2, KeysOf DEF Put, InIndexes, CategoryWithout
    <3>5. \A t \in store[j].tags : j \in tagIndex'[t]
      BY <3>1, <3>2 DEF Put, InIndexes, TagWithout
    <3> QED
      BY <3>1, <3>3, <3>4, <3>5 DEF InIndexes
  <2> QED
    BY <2>1, <2>2
<1> QED
  BY <1>2, <1>3 DEF CacheInv

\* Every step of the cache keeps every entry indexed.
LEMMA CacheStep ==
    ASSUME CacheInv, CacheNext
    PROVE  CacheInv'
<1>1. ASSUME NEW f \in Fills, Lookup(f) PROVE CacheInv'
  <2>1. PICK gone \in SUBSET CacheKeys :
          store' = Without(gone) /\ orphaned' = orphaned \ gone /\ UNCHANGED indexes
    BY <1>1 DEF Lookup, Purged, EntriesOf, Stored
  <2>2. CacheTyped'
    BY <2>1 DEF CacheInv, CacheTyped, Without, indexes
  <2>3. \A k \in Stored(store)' : k \in Stored(store) /\ k \notin gone /\ store'[k].tags = store[k].tags
    BY <2>1 DEF Stored, Without
  <2> QED
    BY <2>1, <2>2, <2>3, ReadingCovers
<1>2. ASSUME NEW f \in Fills, Fill(f) PROVE CacheInv'
  <2>1. PICK k \in CacheKeys, tags \in SUBSET Tags, evicted \in SUBSET CacheKeys,
             expired \in SUBSET CacheKeys : Put(k, tags, evicted, expired)
    BY <1>2 DEF Fill, EntriesOf, Stored, Purged
  <2> QED
    BY <2>1, PutCovers
<1>3. ASSUME NEW k \in CacheKeys, SetEmbedding(k) PROVE CacheInv'
  BY <1>3, PutCovers DEF SetEmbedding
<1>4. ASSUME NEW k \in CacheKeys, Expires(k) PROVE CacheInv'
  <2>1. store[k] \in [at : {"store"}, tags : SUBSET Tags, expired : BOOLEAN]
    BY <1>4 DEF Expires, Live, CacheInv, CacheTyped
  <2>2. store' = [store EXCEPT ![k] = [store[k] EXCEPT !.expired = TRUE]] /\ UNCHANGED indexes
        /\ UNCHANGED orphaned
    BY <1>4 DEF Expires, indexes
  <2>3. CacheTyped'
    BY <2>1, <2>2 DEF CacheInv, CacheTyped, indexes
  <2>4. \A j \in Stored(store)' : j \in Stored(store) /\ store'[j].tags = store[j].tags
    BY <1>4, <2>1, <2>2 DEF Stored, Expires, Live, CacheInv, CacheTyped
  <2> QED
    <3>0. PICK none : none = {}
      OBVIOUS
    <3>1. /\ orphaned' = orphaned \ none
          /\ \A j \in Stored(store)' : j \in Stored(store) /\ j \notin none /\ store'[j].tags = store[j].tags
      BY <2>2, <2>4, <3>0
    <3>2. UNCHANGED indexes
      BY <2>2
    <3> QED
      BY <2>3, <3>1, <3>2, ReadingCovers
<1>5. ASSUME NEW k \in CacheKeys, InvalidateByKey(k) PROVE CacheInv'
  BY <1>5, RemovalCovers DEF InvalidateByKey, DeleteEntries
<1>6. ASSUME NEW o \in Organizations, InvalidateAll(o) PROVE CacheInv'
  <2> DEFINE gone == orgIndex[o] \cap Stored(store)
  <2>1. /\ store' = Without(gone) /\ orgIndex' = [orgIndex EXCEPT ![o] = {}]
        /\ tagIndex' = TagWithout(gone) /\ categoryIndex' = CategoryWithout(gone)
        /\ orphaned' = orphaned \ gone
    BY <1>6 DEF InvalidateAll
  <2>2. CacheTyped'
    BY <2>1 DEF CacheInv, CacheTyped, Without, TagWithout, CategoryWithout
  <2>3. ASSUME NEW k \in Stored(store)' PROVE InIndexes(k)'
    <3>1. k \in Stored(store) /\ k \notin gone /\ store'[k] = store[k]
      BY <2>1, <2>3 DEF Stored, Without
    <3>2. k \in CacheKeys /\ InIndexes(k) /\ store[k].tags \subseteq Tags
      BY <3>1 DEF CacheInv, CacheTyped, Stored
    <3>3. k[1] # o
      BY <3>1, <3>2 DEF InIndexes
    <3>4. k \in orgIndex'[k[1]]
      BY <2>1, <3>2, <3>3 DEF InIndexes, CacheInv, CacheTyped
    <3> QED
      BY <2>1, <3>1, <3>2, <3>4, KeysOf DEF InIndexes, TagWithout, CategoryWithout
  <2> QED
    BY <2>2, <2>3 DEF CacheInv
<1>7. ASSUME NEW o \in Organizations, NEW c \in Categories, InvalidateByCategory(o, c) PROVE CacheInv'
  <2> DEFINE gone == categoryIndex[c] \cap EntriesOf(o, c)
  <2>1. /\ store' = Without(gone) /\ orgIndex' = OrgWithout(gone)
        /\ tagIndex' = TagWithout(gone) /\ categoryIndex' = [categoryIndex EXCEPT ![c] = {}]
        /\ orphaned' = (orphaned \ gone) \cup ((categoryIndex[c] \cap Stored(store)) \ gone)
    BY <1>7 DEF InvalidateByCategory, DeleteEntries
  <2>2. CacheTyped'
    BY <2>1 DEF CacheInv, CacheTyped, Without, TagWithout, OrgWithout
  <2>3. ASSUME NEW k \in Stored(store)' PROVE InIndexes(k)'
    <3>1. k \in Stored(store) /\ k \notin gone /\ store'[k] = store[k]
      BY <2>1, <2>3 DEF Stored, Without
    <3>2. k \in CacheKeys /\ InIndexes(k) /\ store[k].tags \subseteq Tags
      BY <3>1 DEF CacheInv, CacheTyped, Stored
    <3>3. k \in categoryIndex'[k[2]] \cup orphaned'
      BY <2>1, <3>1, <3>2, KeysOf DEF InIndexes, CacheInv, CacheTyped
    <3> QED
      BY <2>1, <3>1, <3>2, <3>3, KeysOf DEF InIndexes, TagWithout, OrgWithout
  <2> QED
    BY <2>2, <2>3 DEF CacheInv
<1>8. ASSUME NEW o \in Organizations, NEW t \in Tags, InvalidateByTag(t, o) PROVE CacheInv'
  <2>1. PICK gone \in SUBSET CacheKeys :
          DeleteEntries(gone) /\ categoryIndex' = CategoryWithout(gone) /\ orphaned' = orphaned \ gone
    BY <1>8 DEF InvalidateByTag, Stored
  <2> QED
    BY <2>1, RemovalCovers DEF DeleteEntries
<1>9. CASE ClearCache
  BY <1>9 DEF ClearCache, CacheInv, CacheTyped, Stored
<1> QED
  BY <1>1, <1>2, <1>3, <1>4, <1>5, <1>6, <1>7, <1>8, <1>9 DEF CacheNext

-----------------------------------------------------------------------------
(* The knowledge base (Knowledge).                                          *)

\* Until when the stores have nothing of a document.
Unread == {"none", "start", "process", "version", "embed", "upsert", "failing"}
DocumentRecord == [org : Owners, status : {"pending", "processing", "indexed", "failed", "deleted"}]
DeletionRecord == [at : {"vectors", "chunks", "record"}, org : Owners, after : BOOLEAN]
InStore(d, chunksOrVectors) == {c \in chunksOrVectors : c[1] = d}
KnowledgeTyped ==
    /\ document \in [Documents -> DocumentRecord \cup {NoDocument}]
    /\ \A c \in vectors \cup chunks : c[1] \in Documents
    /\ DOMAIN ingest = Documents /\ DOMAIN question = Questions
    /\ \A d \in Documents : {"at", "n"} \subseteq DOMAIN ingest[d]
    /\ deletion \in [Documents -> DeletionRecord \cup {NoDeletion}]

\* What a document has in the stores, by how far its ingestion is.
StoresTell(d) ==
    /\ ingest[d].at = "none" <=> document[d] = NoDocument
    /\ ingest[d].at \in Unread => InStore(d, vectors) = {}
    /\ ingest[d].at \in Unread \cup {"save"} => InStore(d, chunks) = {}
    /\ document[d].status \in {"indexed", "failed"} => ingest[d].at = "over"
    /\ document[d].status = "failed" => InStore(d, vectors) = {} /\ InStore(d, chunks) = {}
    /\ d \notin disturbed =>
         /\ ingest[d].at = "save" => InStore(d, vectors) = Of(d, ingest[d].n)
         /\ ingest[d].at = "finish" \/ document[d].status = "indexed" =>
                InStore(d, vectors) = Of(d, ingest[d].n) /\ InStore(d, chunks) = Of(d, ingest[d].n)
\* What a deletion by the organisation has left, and what was left of the
\* document when it was over.
DeletionTells(d) ==
    /\ deletion[d] # NoDeletion =>
         /\ document[d] # NoDocument
         /\ deletion[d].after => ingest[d].at = "over"
         /\ deletion[d].after /\ deletion[d].org = document[d].org =>
              /\ deletion[d].at \in {"chunks", "record"} => InStore(d, vectors) = {}
              /\ deletion[d].at = "record" => InStore(d, chunks) = {}
    /\ d \in cleaned =>
         /\ ingest[d].at = "over" /\ d \notin versions
         /\ InStore(d, vectors) = {} /\ InStore(d, chunks) = {}
DocumentTells(d) == StoresTell(d) /\ DeletionTells(d)
\* What a question has found is of its organisation, and what it knows no name
\* of was deleted.
QuestionTells(q) == question[q] # NotAsked =>
    /\ DOMAIN question[q] = {"at", "org", "found", "results", "unknown"}
    /\ \A c \in question[q].found \cup question[q].results :
         /\ c[1] \in Documents /\ document[c[1]] # NoDocument
         /\ document[c[1]].org = question[q].org
    /\ \A c \in question[q].unknown : c[1] \in Documents /\ document[c[1]].status = "deleted"
KnowledgeInv ==
    /\ KnowledgeTyped
    /\ \A d \in Documents : DocumentTells(d)
    /\ \A q \in Questions : QuestionTells(q)

\* Everything that is said of a document stays as it is.
SameOf(d) ==
    /\ document'[d] = document[d] /\ ingest'[d] = ingest[d] /\ deletion'[d] = deletion[d]
    /\ InStore(d, vectors)' = InStore(d, vectors) /\ InStore(d, chunks)' = InStore(d, chunks)
    /\ d \in disturbed' <=> d \in disturbed
    /\ d \in cleaned' <=> d \in cleaned
    /\ d \in versions' <=> d \in versions
\* What stays as it is is told as before.
LEMMA SameTells ==
    ASSUME NEW d \in Documents, DocumentTells(d), SameOf(d)
    PROVE  DocumentTells(d)'
BY DEF DocumentTells, StoresTell, DeletionTells, SameOf

\* A document once recorded is that of its organisation, and once deleted it
\* is deleted.
Lasting ==
    \A d \in Documents : document[d] # NoDocument =>
        /\ document'[d] # NoDocument /\ document'[d].org = document[d].org
        /\ document[d].status = "deleted" => document'[d].status = "deleted"
\* Questions know documents that last.
LEMMA QuestionsLast ==
    ASSUME KnowledgeInv, Lasting, UNCHANGED question
    PROVE  \A q \in Questions : QuestionTells(q)'
<1> SUFFICES ASSUME NEW q \in Questions, question[q] # NotAsked PROVE QuestionTells(q)'
  BY DEF QuestionTells
<1>1. QuestionTells(q)
  BY DEF KnowledgeInv
<1>2. ASSUME NEW c \in question[q].unknown PROVE document'[c[1]].status = "deleted"
  <2>1. c[1] \in Documents /\ document[c[1]].status = "deleted"
    BY <1>1 DEF QuestionTells
  <2>2. document[c[1]] # NoDocument
    BY <2>1 DEF NoDocument
  <2> QED
    BY <2>1, <2>2 DEF Lasting
<1> QED
  BY <1>1, <1>2 DEF QuestionTells, Lasting

\* A new status of a document that is not deleted.
LEMMA UpdatedTells ==
    ASSUME KnowledgeTyped, NEW d \in Documents, document[d] # NoDocument,
           NEW status \in {"processing", "indexed", "failed"}, document' = Updated(d, status)
    PROVE  /\ document' \in [Documents -> DocumentRecord \cup {NoDocument}]
           /\ Lasting
           /\ document'[d].status = IF document[d].status = "deleted" THEN "deleted" ELSE status
           /\ \A e \in Documents \ {d} : document'[e] = document[e]
<1>1. document[d] \in DocumentRecord
  BY DEF KnowledgeTyped
<1> DEFINE new == IF Exists(d) THEN status ELSE document[d].status
           x == [document[d] EXCEPT !.status = new]
<1>2. document' = [document EXCEPT ![d] = x]
  BY DEF Updated
<1>3. x \in DocumentRecord /\ x.org = document[d].org /\ x.status = new /\ x # NoDocument
  BY <1>1 DEF DocumentRecord, NoDocument
<1>4. new = IF document[d].status = "deleted" THEN "deleted" ELSE status
  BY <1>1 DEF Exists, DocumentRecord
<1> HIDE DEF x, new
<1>5. document'[d] = x /\ \A e \in Documents \ {d} : document'[e] = document[e]
  BY <1>2 DEF KnowledgeTyped
<1>6. Lasting
  BY <1>3, <1>4, <1>5 DEF Lasting
<1> QED
  BY <1>2, <1>3, <1>4, <1>5, <1>6 DEF KnowledgeTyped
\* A step that touches one document.
LEMMA OneDocument ==
    ASSUME KnowledgeInv, KnowledgeTyped', Lasting, UNCHANGED question,
           NEW d \in Documents, DocumentTells(d)',
           \A e \in Documents \ {d} : SameOf(e)
    PROVE  KnowledgeInv'
<1>1. ASSUME NEW e \in Documents PROVE DocumentTells(e)'
  <2>1. CASE e = d
    BY <2>1
  <2>2. CASE e # d
    <3>1. DocumentTells(e) /\ SameOf(e)
      BY <2>2 DEF KnowledgeInv
    <3> QED
      BY <3>1, SameTells
  <2> QED
    BY <2>1, <2>2
<1>2. \A q \in Questions : QuestionTells(q)'
  BY QuestionsLast
<1> QED
  BY <1>1, <1>2 DEF KnowledgeInv

\* How far the ingestion of one document is.
LEMMA IngestTells ==
    ASSUME KnowledgeTyped, NEW d \in Documents, NEW at, ingest' = [ingest EXCEPT ![d].at = at]
    PROVE  /\ ingest'[d].at = at /\ ingest'[d].n = ingest[d].n
           /\ \A e \in Documents \ {d} : ingest'[e] = ingest[e]
           /\ DOMAIN ingest' = Documents
           /\ \A e \in Documents : {"at", "n"} \subseteq DOMAIN ingest'[e]
<1> DEFINE x == [ingest[d] EXCEPT !.at = at]
<1>1. ingest' = [ingest EXCEPT ![d] = x]
  OBVIOUS
<1>2. x.at = at \/ "at" = "n"
  BY DEF KnowledgeTyped
<1>3. x.at = at /\ x.n = ingest[d].n /\ {"at", "n"} \subseteq DOMAIN x
  BY <1>2 DEF KnowledgeTyped
<1> HIDE DEF x
<1>4. ingest'[d] = x
  BY <1>1 DEF KnowledgeTyped
<1> QED
  BY <1>1, <1>3, <1>4 DEF KnowledgeTyped

\* Ingesting a document keeps what is said of it and of the others.
LEMMA IngestionStep ==
    ASSUME KnowledgeInv, NEW d \in Documents,
           \/ CreateRecord(d) \/ StartProcessing(d) \/ Process(d) \/ CreateVersion(d) \/ Embed(d)
           \/ Upsert(d) \/ SaveChunks(d) \/ Indexed(d) \/ Fails(d) \/ SetFailed(d)
    PROVE  KnowledgeInv'
<1> USE DEF KnowledgeInv
<1>1. StoresTell(d) /\ DeletionTells(d)
  BY DEF DocumentTells
<1>2. CASE CreateRecord(d)
  <2> USE <1>2 DEF CreateRecord
  <2>1. PICK org \in Owners : document' = [document EXCEPT ![d] = [org |-> org, status |-> "pending"]]
    OBVIOUS
  <2>2. /\ document'[d] = [org |-> org, status |-> "pending"]
        /\ \A e \in Documents \ {d} : document'[e] = document[e]
    BY <2>1 DEF KnowledgeTyped
  <2>3. [org |-> org, status |-> "pending"] \in DocumentRecord
    BY DEF DocumentRecord
  <2>4. ingest'[d] = [at |-> "start", n |-> 0] /\ \A e \in Documents \ {d} : ingest'[e] = ingest[e]
    BY DEF KnowledgeTyped
  <2>5. KnowledgeTyped'
    BY <2>1, <2>3, <2>4 DEF KnowledgeTyped
  <2>6. Lasting
    BY <2>2 DEF Lasting
  <2>7. \A e \in Documents \ {d} : SameOf(e)
    BY <2>2, <2>4 DEF SameOf, InStore
  <2>8. document'[d] # NoDocument /\ document'[d].status = "pending" /\ ingest'[d].at = "start"
    BY <2>2, <2>4 DEF NoDocument
  <2>9. ingest[d].at = "none" /\ deletion[d] = NoDeletion /\ d \notin cleaned
    BY <1>1 DEF StoresTell, DeletionTells
  <2>10. InStore(d, vectors)' = {} /\ InStore(d, chunks)' = {}
    BY <1>1, <2>9 DEF StoresTell, Unread, InStore
  <2>11. StoresTell(d)'
    BY <2>8, <2>10 DEF StoresTell, Unread
  <2>12. DeletionTells(d)'
    BY <2>9 DEF DeletionTells
  <2> QED
    BY <2>5, <2>6, <2>7, <2>11, <2>12, OneDocument DEF DocumentTells
<1>3. CASE StartProcessing(d)
  <2> USE <1>3 DEF StartProcessing
  <2>1. document[d] # NoDocument
    BY <1>1 DEF StoresTell
  <2>2. /\ document' \in [Documents -> DocumentRecord \cup {NoDocument}]
        /\ Lasting
        /\ document'[d].status \in {"deleted", "processing"}
        /\ \A e \in Documents \ {d} : document'[e] = document[e]
    BY <2>1, UpdatedTells
  <2>3. /\ ingest'[d].at = "process" /\ ingest'[d].n = ingest[d].n
        /\ \A e \in Documents \ {d} : ingest'[e] = ingest[e]
        /\ DOMAIN ingest' = Documents
        /\ \A e \in Documents : {"at", "n"} \subseteq DOMAIN ingest'[e]
    BY IngestTells
  <2>4. KnowledgeTyped'
    BY <2>2, <2>3 DEF KnowledgeTyped
  <2>5. \A e \in Documents \ {d} : SameOf(e)
    BY <2>2, <2>3 DEF SameOf, InStore
  <2>6. document'[d] # NoDocument /\ document'[d].org = document[d].org
    BY <2>1, <2>2 DEF Lasting
  <2>7. InStore(d, vectors)' = {} /\ InStore(d, chunks)' = {}
    BY <1>1 DEF StoresTell, Unread, InStore
  <2>8. StoresTell(d)'
    BY <2>2, <2>3, <2>6, <2>7 DEF StoresTell, Unread
  <2>9. DeletionTells(d)'
    BY <1>1, <2>6, <2>7 DEF DeletionTells
  <2> QED
    BY <2>2, <2>4, <2>5, <2>8, <2>9, OneDocument DEF DocumentTells
<1>4. ASSUME UNCHANGED <<document, vectors, chunks, deletion, question, disturbed, cleaned>>,
             versions' = versions \/ versions' = versions \cup {d},
             ingest[d].at \notin {"none", "over", "save", "finish"},
             \/ ingest'[d].at \in Unread \ {"none"}
             \/ ingest[d].at = "version" /\ ingest'[d].at = "finish" /\ Of(d, ingest'[d].n) = {},
             \A e \in Documents \ {d} : ingest'[e] = ingest[e],
             DOMAIN ingest' = Documents,
             {"at", "n"} \subseteq DOMAIN ingest'[d],
             ingest[d].at \in Unread
      PROVE  KnowledgeInv'
  <2> USE <1>4
  <2>1. KnowledgeTyped'
    BY DEF KnowledgeTyped
  <2>2. Lasting
    BY DEF Lasting
  <2>3. \A e \in Documents \ {d} : SameOf(e)
    BY DEF SameOf, InStore
  <2>4. InStore(d, vectors)' = {} /\ InStore(d, chunks)' = {}
    BY <1>1 DEF StoresTell, InStore
  <2>5. document[d] # NoDocument /\ document[d].status \notin {"indexed", "failed"}
    BY <1>1 DEF StoresTell
  <2>6. StoresTell(d)'
    BY <2>4, <2>5 DEF StoresTell, Unread
  <2>7. DeletionTells(d)'
    BY <1>1, <2>4 DEF DeletionTells
  <2> QED
    BY <2>1, <2>2, <2>3, <2>6, <2>7, OneDocument DEF DocumentTells
<1>5. CASE Process(d)
  <2> USE <1>5 DEF Process
  <2>1. PICK text \in DocumentTexts, strategy \in Strategies :
          ingest' = [ingest EXCEPT ![d] = [at |-> "version", text |-> text, strategy |-> strategy,
                                           n |-> Len(ChunksOf(text, strategy))]]
    OBVIOUS
  <2> DEFINE x == [at |-> "version", text |-> text, strategy |-> strategy,
                   n |-> Len(ChunksOf(text, strategy))]
  <2>2. x.at = "version" /\ {"at", "n"} \subseteq DOMAIN x
    OBVIOUS
  <2> HIDE DEF x
  <2>3. ingest'[d] = x /\ DOMAIN ingest' = Documents /\ \A e \in Documents \ {d} : ingest'[e] = ingest[e]
    BY <2>1 DEF KnowledgeTyped, x
  <2> QED
    BY <1>4, <2>2, <2>3 DEF Unread
<1>6. CASE CreateVersion(d)
  <2> USE <1>6 DEF CreateVersion
  <2>1. /\ ingest'[d] = [at |-> IF ingest[d].n = 0 THEN "finish" ELSE "embed", n |-> ingest[d].n]
        /\ DOMAIN ingest' = Documents /\ \A e \in Documents \ {d} : ingest'[e] = ingest[e]
    BY DEF KnowledgeTyped
  <2>2. {"at", "n"} \subseteq DOMAIN ingest'[d]
    BY <2>1
  <2>3. Of(d, 0) = {}
    <3>1. 1 .. 0 = {}
      OBVIOUS
    <3> QED
      BY <3>1 DEF Of
  <2> QED
    BY <1>4, <2>1, <2>2, <2>3 DEF Unread
<1>7. CASE Embed(d)
  <2> USE <1>7 DEF Embed
  <2> QED
    BY <1>4, IngestTells DEF Unread
<1>8. CASE Fails(d)
  <2> USE <1>8 DEF Fails
  <2> QED
    BY <1>4, IngestTells DEF Unread
<1>9. CASE Upsert(d)
  <2> USE <1>9 DEF Upsert
  <2>1. /\ ingest'[d].at = "save" /\ ingest'[d].n = ingest[d].n
        /\ \A e \in Documents \ {d} : ingest'[e] = ingest[e]
        /\ DOMAIN ingest' = Documents
        /\ \A e \in Documents : {"at", "n"} \subseteq DOMAIN ingest'[e]
    BY IngestTells
  <2>2. \A c \in Of(d, ingest[d].n) : c[1] = d
    BY DEF Of
  <2>3. KnowledgeTyped'
    BY <2>1, <2>2 DEF KnowledgeTyped
  <2>4. Lasting
    BY DEF Lasting
  <2>5. \A e \in Documents \ {d} : SameOf(e)
    BY <2>1, <2>2 DEF SameOf, InStore
  <2>6. InStore(d, vectors) = {} /\ InStore(d, chunks) = {}
    BY <1>1 DEF StoresTell, Unread
  <2>7. InStore(d, vectors)' = Of(d, ingest'[d].n) /\ InStore(d, chunks)' = {}
    BY <2>1, <2>2, <2>6 DEF InStore
  <2>8. document[d] # NoDocument /\ document[d].status \notin {"indexed", "failed"}
    BY <1>1 DEF StoresTell
  <2>9. StoresTell(d)'
    BY <2>1, <2>7, <2>8 DEF StoresTell, Unread
  <2>10. DeletionTells(d)'
    BY <1>1 DEF DeletionTells
  <2> QED
    BY <2>3, <2>4, <2>5, <2>9, <2>10, OneDocument DEF DocumentTells
<1>10. CASE SaveChunks(d)
  <2> USE <1>10 DEF SaveChunks
  <2>1. /\ ingest'[d].at = "finish" /\ ingest'[d].n = ingest[d].n
        /\ \A e \in Documents \ {d} : ingest'[e] = ingest[e]
        /\ DOMAIN ingest' = Documents
        /\ \A e \in Documents : {"at", "n"} \subseteq DOMAIN ingest'[e]
    BY IngestTells
  <2>2. \A c \in Of(d, ingest[d].n) : c[1] = d
    BY DEF Of
  <2>3. KnowledgeTyped'
    BY <2>1, <2>2 DEF KnowledgeTyped
  <2>4. Lasting
    BY DEF Lasting
  <2>5. \A e \in Documents \ {d} : SameOf(e)
    BY <2>1, <2>2 DEF SameOf, InStore
  <2>6. InStore(d, chunks) = {} /\ (d \notin disturbed => InStore(d, vectors) = Of(d, ingest[d].n))
    BY <1>1 DEF StoresTell
  <2>7. InStore(d, chunks)' = Of(d, ingest'[d].n) /\ InStore(d, vectors)' = InStore(d, vectors)
    BY <2>1, <2>2, <2>6 DEF InStore
  <2>8. document[d] # NoDocument /\ document[d].status \notin {"indexed", "failed"}
    BY <1>1 DEF StoresTell
  <2>9. StoresTell(d)'
    BY <2>1, <2>6, <2>7, <2>8 DEF StoresTell, Unread
  <2>10. DeletionTells(d)'
    BY <1>1 DEF DeletionTells
  <2> QED
    BY <2>3, <2>4, <2>5, <2>9, <2>10, OneDocument DEF DocumentTells
<1>11. ASSUME NEW status \in {"indexed", "failed"},
              document' = Updated(d, status),
              ingest' = [ingest EXCEPT ![d].at = "over"],
              ingest[d].at = IF status = "indexed" THEN "finish" ELSE "failing",
              UNCHANGED <<versions, vectors, chunks, deletion, question, disturbed, cleaned>>
       PROVE  KnowledgeInv'
  <2> USE <1>11
  <2>1. document[d] # NoDocument
    BY <1>1 DEF StoresTell
  <2>2. /\ document' \in [Documents -> DocumentRecord \cup {NoDocument}]
        /\ Lasting
        /\ document'[d].status \in {"deleted", status}
        /\ \A e \in Documents \ {d} : document'[e] = document[e]
    BY <2>1, UpdatedTells
  <2>3. /\ ingest'[d].at = "over" /\ ingest'[d].n = ingest[d].n
        /\ \A e \in Documents \ {d} : ingest'[e] = ingest[e]
        /\ DOMAIN ingest' = Documents
        /\ \A e \in Documents : {"at", "n"} \subseteq DOMAIN ingest'[e]
    BY IngestTells
  <2>4. KnowledgeTyped'
    BY <2>2, <2>3 DEF KnowledgeTyped
  <2>5. \A e \in Documents \ {d} : SameOf(e)
    BY <2>2, <2>3 DEF SameOf, InStore
  <2>6. document'[d] # NoDocument /\ document'[d].org = document[d].org
    BY <2>1, <2>2 DEF Lasting
  <2>7. InStore(d, vectors)' = InStore(d, vectors) /\ InStore(d, chunks)' = InStore(d, chunks)
    BY DEF InStore
  <2>8. status = "failed" => InStore(d, vectors) = {} /\ InStore(d, chunks) = {}
    BY <1>1 DEF StoresTell, Unread
  <2>9. status = "indexed" /\ d \notin disturbed =>
          InStore(d, vectors) = Of(d, ingest[d].n) /\ InStore(d, chunks) = Of(d, ingest[d].n)
    BY <1>1 DEF StoresTell
  <2>10. StoresTell(d)'
    BY <2>2, <2>3, <2>6, <2>7, <2>8, <2>9 DEF StoresTell, Unread
  <2>11. DeletionTells(d)'
    BY <1>1, <2>6, <2>7 DEF DeletionTells
  <2> QED
    BY <2>2, <2>4, <2>5, <2>10, <2>11, OneDocument DEF DocumentTells
<1>12. CASE Indexed(d)
  BY <1>11, <1>12 DEF Indexed
<1>13. CASE SetFailed(d)
  BY <1>11, <1>13 DEF SetFailed
<1> QED
  BY <1>2, <1>3, <1>5, <1>6, <1>7, <1>8, <1>9, <1>10, <1>12, <1>13
\* What is removed from the stores, and is known to be: of each document either
\* nothing, or some of its index.
RemovedFrom(d) ==
    /\ InStore(d, vectors)' \subseteq InStore(d, vectors)
    /\ InStore(d, chunks)' \subseteq InStore(d, chunks)
    /\ d \in disturbed => d \in disturbed'
    /\ d \notin disturbed' =>
         InStore(d, vectors)' = InStore(d, vectors) /\ InStore(d, chunks)' = InStore(d, chunks)
\* What is told of a document whose index is removed is told after it.
LEMMA RemovalTells ==
    ASSUME NEW d \in Documents, DocumentTells(d), RemovedFrom(d),
           UNCHANGED <<document, versions, ingest, deletion, cleaned>>
    PROVE  DocumentTells(d)'
<1>1. StoresTell(d)'
  BY DEF DocumentTells, StoresTell, RemovedFrom
<1>2. DeletionTells(d)'
  BY DEF DocumentTells, DeletionTells, RemovedFrom
<1> QED
  BY <1>1, <1>2 DEF DocumentTells

\* How far the deletion of one document is.
LEMMA DeletionMoves ==
    ASSUME KnowledgeTyped, NEW d \in Documents, NEW at \in {"vectors", "chunks", "record"},
           deletion[d] # NoDeletion, deletion' = [deletion EXCEPT ![d].at = at]
    PROVE  /\ deletion' \in [Documents -> DeletionRecord \cup {NoDeletion}]
           /\ deletion'[d].at = at /\ deletion'[d].org = deletion[d].org
           /\ deletion'[d].after = deletion[d].after
           /\ \A e \in Documents \ {d} : deletion'[e] = deletion[e]
<1>1. deletion[d] \in DeletionRecord
  BY DEF KnowledgeTyped
<1> DEFINE x == [deletion[d] EXCEPT !.at = at]
<1>2. deletion' = [deletion EXCEPT ![d] = x]
  OBVIOUS
<1>3. x \in DeletionRecord /\ x.at = at /\ x.org = deletion[d].org /\ x.after = deletion[d].after
  BY <1>1 DEF DeletionRecord
<1> HIDE DEF x
<1> QED
  BY <1>2, <1>3 DEF KnowledgeTyped

\* Deleting documents and indexes keeps what is said of them.
LEMMA RemovalStep ==
    ASSUME KnowledgeInv,
           \/ \E d \in Documents :
                \/ \E org \in Owners : Delete(d, org)
                \/ DeleteVectors(d) \/ DeleteChunks(d) \/ DeleteRecord(d)
           \/ \E org \in Owners : DeleteOrganizationIndex(org)
    PROVE  KnowledgeInv'
<1> USE DEF KnowledgeInv
<1>1. ASSUME NEW d \in Documents, NEW org \in Owners, Delete(d, org) PROVE KnowledgeInv'
  <2> USE <1>1 DEF Delete
  <2> DEFINE x == [at |-> "vectors", org |-> org, after |-> ingest[d].at = "over"]
  <2>1. x \in DeletionRecord /\ x.at = "vectors" /\ (x.after => ingest[d].at = "over")
    BY DEF DeletionRecord
  <2> HIDE DEF x
  <2>2. deletion'[d] = x /\ \A e \in Documents \ {d} : deletion'[e] = deletion[e]
    BY DEF x, KnowledgeTyped
  <2>3. KnowledgeTyped'
    BY <2>1 DEF x, KnowledgeTyped
  <2>4. Lasting
    BY DEF Lasting
  <2>5. \A e \in Documents \ {d} : SameOf(e)
    BY <2>2 DEF SameOf, InStore
  <2>6. StoresTell(d)'
    BY DEF DocumentTells, StoresTell, InStore
  <2>7. DeletionTells(d)'
    BY <2>1, <2>2 DEF DocumentTells, DeletionTells, InStore
  <2> QED
    BY <2>3, <2>4, <2>5, <2>6, <2>7, OneDocument DEF DocumentTells
<1>2. ASSUME NEW d \in Documents, DeleteVectors(d) PROVE KnowledgeInv'
  <2> USE <1>2 DEF DeleteVectors
  <2>1. /\ deletion' \in [Documents -> DeletionRecord \cup {NoDeletion}]
        /\ deletion'[d].at = "chunks" /\ deletion'[d].org = deletion[d].org
        /\ deletion'[d].after = deletion[d].after
        /\ \A e \in Documents \ {d} : deletion'[e] = deletion[e]
    BY DeletionMoves
  <2>2. \A c \in vectors : c \notin vectors' <=> c[1] = d /\ document[d].org = deletion[d].org
    BY DEF Owned
  <2>3. vectors' \subseteq vectors
    BY DEF Owned
  <2>4. \A e \in Documents : e \in disturbed' <=> e \in disturbed \/ \E c \in vectors : c \notin vectors' /\ c[1] = e
    OBVIOUS
  <2>5. KnowledgeTyped'
    BY <2>1, <2>3 DEF KnowledgeTyped
  <2>6. Lasting
    BY DEF Lasting
  <2>7. \A e \in Documents \ {d} : SameOf(e)
    BY <2>1, <2>2, <2>3, <2>4 DEF SameOf, InStore
  <2>8. RemovedFrom(d)
    BY <2>3, <2>4 DEF RemovedFrom, InStore
  <2>9. StoresTell(d)'
    BY <2>8 DEF DocumentTells, StoresTell, RemovedFrom
  <2>10. document[d].org = deletion[d].org => InStore(d, vectors)' = {}
    BY <2>2, <2>3 DEF InStore
  <2>11. DeletionTells(d)'
    BY <2>1, <2>8, <2>10 DEF DocumentTells, DeletionTells, RemovedFrom
  <2> QED
    BY <2>5, <2>6, <2>7, <2>9, <2>11, OneDocument DEF DocumentTells
<1>3. ASSUME NEW d \in Documents, DeleteChunks(d) PROVE KnowledgeInv'
  <2> USE <1>3 DEF DeleteChunks
  <2>1. /\ deletion' \in [Documents -> DeletionRecord \cup {NoDeletion}]
        /\ deletion'[d].at = "record" /\ deletion'[d].org = deletion[d].org
        /\ deletion'[d].after = deletion[d].after
        /\ \A e \in Documents \ {d} : deletion'[e] = deletion[e]
    BY DeletionMoves
  <2>2. \A c \in chunks : c \notin chunks' <=> c[1] = d /\ document[d].org = deletion[d].org
    BY DEF Owned
  <2>3. chunks' \subseteq chunks
    BY DEF Owned
  <2>4. \A e \in Documents : e \in disturbed' <=> e \in disturbed \/ \E c \in chunks : c \notin chunks' /\ c[1] = e
    OBVIOUS
  <2>5. KnowledgeTyped'
    BY <2>1, <2>3 DEF KnowledgeTyped
  <2>6. Lasting
    BY DEF Lasting
  <2>7. \A e \in Documents \ {d} : SameOf(e)
    BY <2>1, <2>2, <2>3, <2>4 DEF SameOf, InStore
  <2>8. RemovedFrom(d)
    BY <2>3, <2>4 DEF RemovedFrom, InStore
  <2>9. StoresTell(d)'
    BY <2>8 DEF DocumentTells, StoresTell, RemovedFrom
  <2>10. document[d].org = deletion[d].org => InStore(d, chunks)' = {}
    BY <2>2, <2>3 DEF InStore
  <2>11. DeletionTells(d)'
    BY <2>1, <2>8, <2>10 DEF DocumentTells, DeletionTells, RemovedFrom
  <2> QED
    BY <2>5, <2>6, <2>7, <2>9, <2>11, OneDocument DEF DocumentTells
<1>4. ASSUME NEW d \in Documents, DeleteRecord(d) PROVE KnowledgeInv'
  <2> USE <1>4 DEF DeleteRecord
  <2>1. document[d] # NoDocument
    BY DEF DocumentTells, DeletionTells
  <2>2. document[d] \in DocumentRecord
    BY <2>1 DEF KnowledgeTyped
  <2> DEFINE x == [document[d] EXCEPT !.status = "deleted"]
  <2>3. document' = [document EXCEPT ![d] = x]
    OBVIOUS
  <2>4. x \in DocumentRecord /\ x.org = document[d].org /\ x.status = "deleted" /\ x # NoDocument
    BY <2>2 DEF DocumentRecord, NoDocument
  <2> HIDE DEF x
  <2>5. document'[d] = x /\ \A e \in Documents \ {d} : document'[e] = document[e]
    BY <2>3 DEF KnowledgeTyped
  <2>6. deletion'[d] = NoDeletion /\ \A e \in Documents \ {d} : deletion'[e] = deletion[e]
    BY DEF KnowledgeTyped
  <2>7. KnowledgeTyped'
    BY <2>3, <2>4 DEF KnowledgeTyped
  <2>8. Lasting
    BY <2>4, <2>5 DEF Lasting
  <2>9. \A e \in Documents \ {d} : SameOf(e)
    BY <2>5, <2>6 DEF SameOf, InStore
  <2>10. InStore(d, vectors)' = InStore(d, vectors) /\ InStore(d, chunks)' = InStore(d, chunks)
    BY DEF InStore
  <2>11. StoresTell(d)'
    BY <2>1, <2>4, <2>5, <2>10 DEF DocumentTells, StoresTell
  <2>12. d \in cleaned' => ingest[d].at = "over" /\ InStore(d, vectors) = {} /\ InStore(d, chunks) = {}
    BY DEF DocumentTells, DeletionTells
  <2>13. DeletionTells(d)'
    BY <2>6, <2>10, <2>12 DEF DeletionTells
  <2> QED
    BY <2>7, <2>8, <2>9, <2>11, <2>13, OneDocument DEF DocumentTells
<1>5. ASSUME NEW org \in Owners, DeleteOrganizationIndex(org) PROVE KnowledgeInv'
  <2> USE <1>5 DEF DeleteOrganizationIndex
  <2>1. vectors' \subseteq vectors
    OBVIOUS
  <2>2. \A e \in Documents : e \in disturbed' <=> e \in disturbed \/ \E c \in vectors : c \notin vectors' /\ c[1] = e
    OBVIOUS
  <2>3. KnowledgeTyped'
    BY <2>1 DEF KnowledgeTyped
  <2>4. \A e \in Documents : RemovedFrom(e)
    BY <2>1, <2>2 DEF RemovedFrom, InStore
  <2>5. \A e \in Documents : DocumentTells(e)'
    BY <2>4, RemovalTells
  <2>6. \A q \in Questions : QuestionTells(q)'
    BY QuestionsLast DEF Lasting
  <2> QED
    BY <2>3, <2>5, <2>6
<1> QED
  BY <1>1, <1>2, <1>3, <1>4, <1>5

\* The documents stay as they are while a question is asked.
LEMMA AskingTells ==
    ASSUME KnowledgeInv, NEW q \in Questions, NEW x, question' = [question EXCEPT ![q] = x],
           DOMAIN x = {"at", "org", "found", "results", "unknown"},
           \A c \in x.found \cup x.results :
             c[1] \in Documents /\ document[c[1]] # NoDocument /\ document[c[1]].org = x.org,
           \A c \in x.unknown : c[1] \in Documents /\ document[c[1]].status = "deleted",
           UNCHANGED <<document, versions, ingest, vectors, chunks, deletion, disturbed, cleaned>>
    PROVE  KnowledgeInv'
<1> USE DEF KnowledgeInv
<1>1. question'[q] = x /\ \A o \in Questions \ {q} : question'[o] = question[o]
  BY DEF KnowledgeTyped
<1>2. KnowledgeTyped'
  BY DEF KnowledgeTyped
<1>3. \A d \in Documents : SameOf(d)
  BY DEF SameOf, InStore
<1>4. \A d \in Documents : DocumentTells(d)'
  BY <1>3, SameTells
<1>5. \A o \in Questions : QuestionTells(o)'
  BY <1>1 DEF QuestionTells
<1> QED
  BY <1>2, <1>4, <1>5

\* Searching, resolving and citing keep to the chunks of the organisation.
LEMMA QuestionStep ==
    ASSUME KnowledgeInv, NEW q \in Questions,
           Resolve(q) \/ Cite(q) \/ \E org \in Owners : Search(q, org)
    PROVE  KnowledgeInv'
<1>1. ASSUME NEW org \in Owners, Search(q, org) PROVE KnowledgeInv'
  <2> USE <1>1 DEF Search
  <2>1. PICK found \in SUBSET {c \in vectors : document[c[1]].org = org} :
          question' = [question EXCEPT ![q] = [at |-> "resolve", org |-> org, found |-> found,
                                               results |-> {}, unknown |-> {}]]
    OBVIOUS
  <2>2. ASSUME NEW c \in found
        PROVE  c[1] \in Documents /\ document[c[1]] # NoDocument /\ document[c[1]].org = org
    <3>1. c \in vectors /\ c[1] \in Documents /\ document[c[1]].org = org
      BY DEF KnowledgeInv, KnowledgeTyped
    <3>2. PICK d \in Documents : d = c[1]
      BY <3>1
    <3>3. c \in InStore(d, vectors)
      BY <3>1, <3>2 DEF InStore
    <3>4. ingest[d].at # "none"
      BY <3>3 DEF KnowledgeInv, DocumentTells, StoresTell, Unread
    <3>5. document[d] # NoDocument
      BY <3>4 DEF KnowledgeInv, DocumentTells, StoresTell
    <3> QED
      BY <3>1, <3>2, <3>5
  <2> DEFINE x == [at |-> "resolve", org |-> org, found |-> found, results |-> {}, unknown |-> {}]
  <2>3. /\ x.org = org /\ x.found = found /\ x.results = {} /\ x.unknown = {}
        /\ DOMAIN x = {"at", "org", "found", "results", "unknown"}
    OBVIOUS
  <2>4. question' = [question EXCEPT ![q] = x]
    BY <2>1
  <2> HIDE DEF x
  <2> QED
    BY <2>2, <2>3, <2>4, AskingTells
<1>2. ASSUME question[q] # NotAsked
      PROVE  QuestionTells(q) /\ DOMAIN question[q] = {"at", "org", "found", "results", "unknown"}
  BY <1>2 DEF KnowledgeInv, QuestionTells
<1> DEFINE found == question[q].found
           c == CHOOSE c \in found : TRUE
<1>3. CASE Resolve(q)
  <2>0. question[q] # NotAsked
    BY <1>3 DEF Resolve, NotAsked
  <2>1. CASE found = {}
    <3> DEFINE x == [question[q] EXCEPT !.at = "cite", !.found = question[q].results]
    <3>1. question' = [question EXCEPT ![q] = x]
      BY <1>3, <2>1 DEF Resolve
    <3>2. /\ x.org = question[q].org /\ x.found = question[q].results
          /\ x.results = question[q].results /\ x.unknown = question[q].unknown
          /\ DOMAIN x = {"at", "org", "found", "results", "unknown"}
      BY <1>2, <2>0
    <3> HIDE DEF x, found, c
    <3>3. \A e \in x.found \cup x.results :
            e[1] \in Documents /\ document[e[1]] # NoDocument /\ document[e[1]].org = x.org
      BY <1>2, <2>0, <3>2 DEF QuestionTells
    <3>4. \A e \in x.unknown : e[1] \in Documents /\ document[e[1]].status = "deleted"
      BY <1>2, <2>0, <3>2 DEF QuestionTells
    <3>5. UNCHANGED <<document, versions, ingest, vectors, chunks, deletion, disturbed, cleaned>>
      BY <1>3 DEF Resolve
    <3> QED
      BY <3>1, <3>2, <3>3, <3>4, <3>5, AskingTells
  <2>2. CASE found # {}
    <3> DEFINE x == [question[q] EXCEPT !.found = found \ {c}, !.results = @ \cup ({c} \cap chunks)]
    <3>1. question' = [question EXCEPT ![q] = x]
      BY <1>3, <2>2 DEF Resolve
    <3>2. /\ x.org = question[q].org /\ x.found = found \ {c}
          /\ x.results = question[q].results \cup ({c} \cap chunks)
          /\ x.unknown = question[q].unknown
          /\ DOMAIN x = {"at", "org", "found", "results", "unknown"}
      BY <1>2, <2>0
    <3>3. c \in found
      BY <2>2
    <3> HIDE DEF x, c
    <3> QED
      BY <1>2, <1>3, <2>0, <3>1, <3>2, <3>3, AskingTells DEF Resolve, QuestionTells
  <2> QED
    BY <2>1, <2>2
<1>4. CASE Cite(q)
  <2>0. question[q] # NotAsked
    BY <1>4 DEF Cite, NotAsked
  <2>1. CASE found = {}
    <3> DEFINE x == [question[q] EXCEPT !.at = "answered"]
    <3>1. question' = [question EXCEPT ![q] = x]
      BY <1>4, <2>1 DEF Cite
    <3>2. /\ x.org = question[q].org /\ x.found = question[q].found
          /\ x.results = question[q].results /\ x.unknown = question[q].unknown
          /\ DOMAIN x = {"at", "org", "found", "results", "unknown"}
      BY <1>2, <2>0
    <3> HIDE DEF x, found, c
    <3>3. \A e \in x.found \cup x.results :
            e[1] \in Documents /\ document[e[1]] # NoDocument /\ document[e[1]].org = x.org
      BY <1>2, <2>0, <3>2 DEF QuestionTells
    <3>4. \A e \in x.unknown : e[1] \in Documents /\ document[e[1]].status = "deleted"
      BY <1>2, <2>0, <3>2 DEF QuestionTells
    <3>5. UNCHANGED <<document, versions, ingest, vectors, chunks, deletion, disturbed, cleaned>>
      BY <1>4 DEF Cite
    <3> QED
      BY <3>1, <3>2, <3>3, <3>4, <3>5, AskingTells
  <2>2. CASE found # {}
    <3> DEFINE new == IF Exists(c[1]) THEN {} ELSE {c}
               x == [question[q] EXCEPT !.found = found \ {c}, !.unknown = @ \cup new]
    <3>1. question' = [question EXCEPT ![q] = x]
      BY <1>4, <2>2 DEF Cite
    <3>2. /\ x.org = question[q].org /\ x.found = found \ {c}
          /\ x.results = question[q].results
          /\ x.unknown = question[q].unknown \cup new
          /\ DOMAIN x = {"at", "org", "found", "results", "unknown"}
      BY <1>2, <2>0
    <3>3. c \in found
      BY <2>2
    <3>4. c[1] \in Documents /\ document[c[1]] # NoDocument
      BY <1>2, <2>0, <3>3 DEF QuestionTells
    <3>5. document[c[1]].status # "none"
      BY <3>4 DEF KnowledgeInv, KnowledgeTyped, DocumentRecord
    <3>6. \A e \in new : e[1] \in Documents /\ document[e[1]].status = "deleted"
      BY <3>4, <3>5 DEF Exists
    <3> HIDE DEF x, c, new
    <3> QED
      BY SMTT(60), <1>2, <1>4, <2>0, <3>1, <3>2, <3>3, <3>6, AskingTells DEF Cite, QuestionTells
  <2> QED
    BY <2>1, <2>2
<1> QED
  BY <1>1, <1>3, <1>4

\* Every step of the knowledge base keeps what is said of its documents and
\* questions.
LEMMA KnowledgeStep == ASSUME KnowledgeInv, KnowledgeNext PROVE KnowledgeInv'
BY IngestionStep, RemovalStep, QuestionStep DEF KnowledgeNext

\* What the invariant says of the stores and the answers.
LEMMA KnowledgeInvTells == KnowledgeInv => IndexAgrees /\ AnswersOwn
<1> SUFFICES ASSUME KnowledgeInv PROVE IndexAgrees /\ AnswersOwn
  OBVIOUS
<1>1. ASSUME NEW d \in Documents
      PROVE  {c \in vectors \cup chunks : c[1] = d} = InStore(d, vectors) \cup InStore(d, chunks)
  BY DEF InStore
<1>2. IndexAgrees
  <2> SUFFICES ASSUME NEW d \in Documents
               PROVE  LET inStores == InStore(d, vectors) \cup InStore(d, chunks)
                      IN /\ document[d].status = "indexed" /\ d \notin disturbed
                            => Of(d, ingest[d].n) = inStores /\ inStores \subseteq vectors \cap chunks
                         /\ document[d].status = "failed" => inStores = {}
                         /\ d \in cleaned => inStores = {} /\ d \notin versions
    BY <1>1, Zenon DEF IndexAgrees
  <2>1. StoresTell(d) /\ DeletionTells(d)
    BY DEF KnowledgeInv, DocumentTells
  <2>2. InStore(d, vectors) \subseteq vectors /\ InStore(d, chunks) \subseteq chunks
    BY DEF InStore
  <2> QED
    BY <2>1, <2>2 DEF StoresTell, DeletionTells
<1>3. AnswersOwn
  BY DEF KnowledgeInv, QuestionTells, AnswersOwn
<1> QED
  BY <1>2, <1>3
-----------------------------------------------------------------------------
(* The chunks of a text (Knowledge).                                        *)

Pieces(pieces) == UNION {pieces[k] : k \in DOMAIN pieces}
\* Dividing leaves less than the divisor.
LEMMA Division ==
    ASSUME NEW a \in Nat, NEW b \in Nat, b > 0
    PROVE  /\ a \div b \in Nat /\ (a \div b) * b <= a /\ a < (a \div b) * b + b
OBVIOUS

\* The chunks of fixed size leave no word out.
LEMMA FixedSizeCovers ==
    ASSUME NEW text, NEW S, text \in Seq(S)
    PROVE  Pieces(FixedSizeChunks(text)) = DOMAIN text
<1> DEFINE step == ChunkSize - Overlap
           N == Len(text)
           X == (N + step - 1) \div step
<1>1. step \in Nat /\ step > 0 /\ step <= ChunkSize /\ ChunkSize \in Nat
  BY TextAssumption
<1>2. N \in Nat /\ DOMAIN text = 1 .. N
  OBVIOUS
<1>3. N + step - 1 \in Nat
  BY <1>1, <1>2
<1>4. X \in Nat /\ N + step - 1 < X * step + step
  BY <1>1, <1>3, Division
<1>5. FixedSizeChunks(text) =
        [k \in 1 .. X |-> {i \in 1 .. N : i > (k - 1) * step /\ i <= (k - 1) * step + ChunkSize}]
  BY <1>2 DEF FixedSizeChunks
<1> HIDE DEF step, N, X
<1>6. ASSUME NEW i \in 1 .. N
      PROVE  \E k \in 1 .. X : i > (k - 1) * step /\ i <= (k - 1) * step + ChunkSize
  <2> DEFINE q == (i - 1) \div step
  <2>1. i - 1 \in Nat
    OBVIOUS
  <2>2. q \in Nat /\ q * step <= i - 1 /\ i - 1 < q * step + step
    BY <1>1, <2>1, Division
  <2> HIDE DEF q
  <2>3. q < X
    <3> SUFFICES ASSUME q >= X PROVE FALSE
      BY <1>4, <2>2
    <3>1. q * step >= X * step
      BY <1>1, <1>4, <2>2
    <3>2. q * step \in Nat /\ X * step \in Nat
      BY <1>1, <1>4, <2>2
    <3> QED
      BY <1>1, <1>2, <1>4, <2>2, <3>1, <3>2
  <2>4. q + 1 \in 1 .. X /\ (q + 1) - 1 = q
    BY <1>4, <2>2, <2>3
  <2>5. q * step \in Nat
    BY <1>1, <2>2
  <2>6. i > q * step /\ i <= q * step + ChunkSize
    BY <1>1, <1>2, <2>2, <2>5
  <2> QED
    BY <2>4, <2>6
<1>7. \A k \in 1 .. X : FixedSizeChunks(text)[k] =
        {i \in 1 .. N : i > (k - 1) * step /\ i <= (k - 1) * step + ChunkSize}
  BY <1>5
<1>8. DOMAIN FixedSizeChunks(text) = 1 .. X
  BY <1>5
<1> DEFINE pieces == FixedSizeChunks(text)
<1> HIDE DEF pieces
<1>9. ASSUME NEW i \in 1 .. N PROVE i \in Pieces(pieces)
  <2>1. PICK k \in 1 .. X : i > (k - 1) * step /\ i <= (k - 1) * step + ChunkSize
    BY <1>6
  <2>2. i \in pieces[k] /\ k \in DOMAIN pieces
    BY <1>7, <1>8, <2>1 DEF pieces
  <2> QED
    BY <2>2 DEF Pieces
<1>10. \A k \in DOMAIN pieces : pieces[k] \subseteq 1 .. N
  BY <1>7, <1>8 DEF pieces
<1>11. Pieces(pieces) = 1 .. N
  BY <1>9, <1>10 DEF Pieces
<1> QED
  BY <1>2, <1>11 DEF pieces

\* What the strategy of headings has collected.
Collected == [pieces : Seq(SUBSET Nat), heading : SUBSET Nat, content : SUBSET Nat]
Apart(pieces) == \A k, l \in DOMAIN pieces : k = l \/ pieces[k] \cap pieces[l] = {}
IsText(text) ==
    /\ text \in Seq({"heading", "short", "fit", "long"})
    /\ \A i \in 2 .. Len(text) : text[i] = "heading" \/ text[i - 1] = "heading"
\* After k sections of a text: the chunks are apart from each other and from
\* what is collected, which is the last section and its heading; and a section
\* that is lost is short and comes before everything else.
Sound(text, k, acc) ==
    /\ acc \in Collected
    /\ Apart(acc.pieces)
    /\ Pieces(acc.pieces) \cup acc.heading \cup acc.content \subseteq 1 .. k
    /\ acc.content \subseteq {k}
    /\ acc.content = {} \/ Pieces(acc.pieces) \cap (acc.heading \cup acc.content) = {}
    /\ k > 0 => /\ text[k] = "heading" => acc.content = {} /\ Pieces(acc.pieces) \cap acc.heading = {}
                /\ text[k] = "long" => acc.content = {}
                /\ text[k] \in {"short", "fit"} => acc.content = {k}
    /\ \A i \in 1 .. k :
         \/ text[i] = "heading" \/ i \in Pieces(acc.pieces) \/ i \in acc.content
         \/ text[i] = "short" /\ \A j \in Pieces(acc.pieces) \cup acc.heading \cup acc.content : j > i
\* What a list of chunks has with one more.
LEMMA AppendPiece ==
    ASSUME NEW pieces \in Seq(SUBSET Nat), NEW p \in SUBSET Nat
    PROVE  /\ Append(pieces, p) \in Seq(SUBSET Nat)
           /\ Pieces(Append(pieces, p)) = Pieces(pieces) \cup p
           /\ Apart(pieces) /\ Pieces(pieces) \cap p = {} => Apart(Append(pieces, p))
<1> DEFINE n == Len(pieces)
           new == Append(pieces, p)
<1>1. n \in Nat /\ DOMAIN pieces = 1 .. n /\ DOMAIN new = 1 .. n + 1
  OBVIOUS
<1>2. new[n + 1] = p /\ \A k \in 1 .. n : new[k] = pieces[k]
  OBVIOUS
<1>3. new \in Seq(SUBSET Nat)
  OBVIOUS
<1> HIDE DEF n, new
<1>4. Pieces(new) = Pieces(pieces) \cup p
  <2>1. \A k \in 1 .. n + 1 : k = n + 1 \/ k \in 1 .. n
    BY <1>1
  <2>2. \A k \in 1 .. n : k \in 1 .. n + 1
    BY <1>1
  <2>3. n + 1 \in 1 .. n + 1
    BY <1>1
  <2> QED
    BY <1>1, <1>2, <2>1, <2>2, <2>3 DEF Pieces
<1>5. ASSUME Apart(pieces), Pieces(pieces) \cap p = {} PROVE Apart(new)
  <2>1. \A k \in 1 .. n : pieces[k] \cap p = {}
    BY <1>1, <1>5 DEF Pieces
  <2>2. \A k \in 1 .. n + 1 : k = n + 1 \/ k \in 1 .. n
    BY <1>1
  <2> QED
    BY <1>1, <1>2, <1>5, <2>1, <2>2 DEF Apart
<1> QED
  BY <1>3, <1>4, <1>5 DEF new
\* And with something added to the last one.
LEMMA AddedPiece ==
    ASSUME NEW pieces \in Seq(SUBSET Nat), NEW p \in SUBSET Nat, pieces # <<>>
    PROVE  /\ Added(pieces, p) \in Seq(SUBSET Nat) /\ Added(pieces, p) # <<>>
           /\ Pieces(Added(pieces, p)) = Pieces(pieces) \cup p
           /\ Apart(pieces) /\ Pieces(pieces) \cap p = {} => Apart(Added(pieces, p))
<1> DEFINE n == Len(pieces)
           new == Added(pieces, p)
<1>1. n \in Nat /\ n > 0 /\ DOMAIN pieces = 1 .. n /\ DOMAIN new = 1 .. n
  BY DEF Added
<1>2. new[n] = pieces[n] \cup p /\ \A k \in 1 .. n : k # n => new[k] = pieces[k]
  <2> HIDE DEF new, n
  <2>1. PICK m \in 1 .. n : m = n
    BY <1>1
  <2>2. new = [pieces EXCEPT ![m] = pieces[m] \cup p]
    BY <2>1 DEF Added, new, n
  <2> QED
    BY <1>1, <2>1, <2>2
<1>3. \A k \in 1 .. n : pieces[k] \in SUBSET Nat
  BY <1>1
<1>4. new \in [1 .. n -> SUBSET Nat]
  <2>1. new = [k \in 1 .. n |-> new[k]]
    BY <1>1 DEF Added
  <2> HIDE DEF new, n
  <2>2. \A k \in 1 .. n : new[k] \in SUBSET Nat
    BY <1>2, <1>3
  <2> QED
    BY <2>1, <2>2
<1>5. new \in Seq(SUBSET Nat) /\ new # <<>>
  <2>1. new \in Seq(SUBSET Nat)
    BY <1>1, <1>4
  <2>2. DOMAIN <<>> = {} /\ n \in 1 .. n
    BY <1>1
  <2> HIDE DEF new
  <2> QED
    BY <1>1, <2>1, <2>2
<1> HIDE DEF n, new
<1>6. n \in 1 .. n
  BY <1>1
<1>7. Pieces(new) = Pieces(pieces) \cup p
  BY <1>1, <1>2, <1>6 DEF Pieces
<1>8. ASSUME Apart(pieces), Pieces(pieces) \cap p = {} PROVE Apart(new)
  <2>1. \A k \in 1 .. n : pieces[k] \cap p = {}
    BY <1>1, <1>8 DEF Pieces
  <2> QED
    BY <1>1, <1>2, <1>6, <1>8, <2>1 DEF Apart
<1> QED
  BY <1>5, <1>7, <1>8 DEF new
\* Closing a section adds what was collected to the chunks, or loses it when it
\* is too short and there is no chunk.
LEMMA CloseTells ==
    ASSUME NEW text, NEW k \in Nat, k > 0, IsText(text), k <= Len(text), NEW acc, Sound(text, k, acc)
    PROVE  LET pieces == Close(text, acc)
           IN /\ pieces \in Seq(SUBSET Nat) /\ Apart(pieces)
              /\ Pieces(pieces) \subseteq Pieces(acc.pieces) \cup acc.heading \cup acc.content
              /\ Pieces(acc.pieces) \subseteq Pieces(pieces)
              /\ \/ acc.content \subseteq Pieces(pieces)
                 \/ acc.content = {k} /\ text[k] = "short" /\ acc.pieces = <<>> /\ Pieces(pieces) = {}
<1> DEFINE pieces == Close(text, acc)
           gathered == acc.heading \cup acc.content
<1>0. acc \in Collected /\ Apart(acc.pieces)
  BY DEF Sound
<1>1. acc.pieces \in Seq(SUBSET Nat) /\ gathered \in SUBSET Nat /\ acc.content \in SUBSET Nat
  BY <1>0 DEF Collected
<1>2. text[k] \in {"heading", "short", "fit", "long"}
  BY DEF IsText
<1>3. CASE \E i \in acc.content : text[i] = "fit"
  <2>1. pieces = Append(acc.pieces, gathered)
    BY <1>3 DEF Close
  <2>2. Pieces(acc.pieces) \cap gathered = {}
    BY <1>3 DEF Sound
  <2>3. /\ pieces \in Seq(SUBSET Nat) /\ Apart(pieces)
        /\ Pieces(pieces) = Pieces(acc.pieces) \cup gathered
    BY <1>0, <1>1, <2>1, <2>2, AppendPiece
  <2> QED
    BY <2>3
<1>4. CASE ~(\E i \in acc.content : text[i] = "fit") /\ acc.pieces # <<>>
  <2>1. pieces = Added(acc.pieces, acc.content)
    BY <1>4, Zenon DEF Close
  <2>2. Pieces(acc.pieces) \cap acc.content = {}
    BY DEF Sound
  <2>3. /\ pieces \in Seq(SUBSET Nat) /\ Apart(pieces)
        /\ Pieces(pieces) = Pieces(acc.pieces) \cup acc.content
    BY <1>0, <1>1, <1>4, <2>1, <2>2, AddedPiece
  <2> QED
    BY <2>3
<1>5. CASE ~(\E i \in acc.content : text[i] = "fit") /\ acc.pieces = <<>>
  <2>1. pieces = acc.pieces
    BY <1>5, Zenon DEF Close
  <2>2. Pieces(acc.pieces) = {}
    BY <1>5 DEF Pieces
  <2>3. acc.content = {} \/ (acc.content = {k} /\ text[k] = "short")
    BY <1>2, <1>5 DEF Sound
  <2> QED
    BY <1>0, <1>1, <1>5, <2>1, <2>2, <2>3
<1> QED
  BY <1>3, <1>4, <1>5

\* What is collected is sound after every section.
LEMMA SectionSound ==
    ASSUME NEW text, NEW k \in Nat, IsText(text), k < Len(text), NEW acc, Sound(text, k, acc)
    PROVE  Sound(text, k + 1, Section(text, acc, k + 1))
<1> DEFINE i == k + 1
           new == Section(text, acc, i)
           covered == Pieces(acc.pieces)
<1>0. acc \in Collected /\ acc.pieces \in Seq(SUBSET Nat) /\ acc.heading \in SUBSET Nat
      /\ acc.content \in SUBSET Nat
  BY DEF Sound, Collected
<1>1. i \in Nat /\ i > 0 /\ i \in 1 .. i /\ \A j \in 1 .. i : j = i \/ j \in 1 .. k
  OBVIOUS
<1>2. text[i] \in {"heading", "short", "fit", "long"}
      /\ (k > 0 => text[i] = "heading" \/ text[k] = "heading")
  BY DEF IsText
<1>3. \A j \in 1 .. k : j \in 1 .. i /\ j < i /\ j # i
  OBVIOUS
<1> HIDE DEF i
<1>4. CASE text[i] = "heading"
  <2> DEFINE pieces == Close(text, acc)
  <2>1. new = [pieces |-> pieces, heading |-> {i}, content |-> {}]
    BY <1>4 DEF Section
  <2>2. new.pieces = pieces /\ new.heading = {i} /\ new.content = {}
    BY <2>1
  <2>3. /\ pieces \in Seq(SUBSET Nat) /\ Apart(pieces)
        /\ Pieces(pieces) \subseteq covered \cup acc.heading \cup acc.content
        /\ covered \subseteq Pieces(pieces)
        /\ \/ acc.content \subseteq Pieces(pieces)
           \/ acc.content = {k} /\ text[k] = "short" /\ Pieces(pieces) = {}
    <3>1. CASE k > 0
      <4>1. k <= Len(text)
        BY DEF IsText
      <4> QED
        BY <3>1, <4>1, CloseTells
    <3>2. CASE k = 0
      <4>1. acc.content = {} /\ covered = {} /\ acc.heading = {}
        BY <3>2 DEF Sound
      <4>2. Apart(acc.pieces)
        BY DEF Sound
      <4>3. pieces = IF acc.pieces # <<>> THEN Added(acc.pieces, {}) ELSE acc.pieces
        BY <4>1 DEF Close
      <4>4. CASE acc.pieces = <<>>
        BY <1>0, <4>1, <4>2, <4>3, <4>4
      <4>5. CASE acc.pieces # <<>>
        <5>1. PICK none \in SUBSET Nat : none = {}
          OBVIOUS
        <5>2. pieces = Added(acc.pieces, none)
          BY <4>3, <4>5, <5>1
        <5>3. covered \cap none = {}
          BY <5>1
        <5>4. pieces \in Seq(SUBSET Nat) /\ Pieces(pieces) = covered \cup none /\ Apart(pieces)
          BY <1>0, <4>2, <4>5, <5>2, <5>3, AddedPiece
        <5> QED
          BY <4>1, <5>1, <5>4
      <4> QED
        BY <4>4, <4>5
    <3> QED
      BY <3>1, <3>2
  <2> HIDE DEF pieces
  <2>4. new \in Collected
    <3>1. {i} \in SUBSET Nat /\ {} \in SUBSET Nat
      BY <1>1
    <3> QED
      BY <2>1, <2>3, <3>1 DEF Collected
  <2> HIDE DEF new
  <2>5. Pieces(pieces) \subseteq 1 .. k
    BY <2>3 DEF Sound
  <2>6. Pieces(pieces) \cap {i} = {}
    BY <1>3, <2>5
  <2>7. ASSUME NEW j \in 1 .. k
        PROVE  \/ text[j] = "heading" \/ j \in Pieces(pieces)
               \/ text[j] = "short" /\ \A l \in Pieces(pieces) \cup {i} : l > j
    <3>1. i > j
      BY <1>1, <1>3
    <3>2. CASE j \in acc.content
      BY <2>3, <3>1, <3>2 DEF Sound
    <3>3. CASE j \notin acc.content
      BY <2>3, <3>1, <3>3 DEF Sound
    <3> QED
      BY <3>2, <3>3
  <2>8. \A j \in 1 .. i :
          \/ text[j] = "heading" \/ j \in Pieces(new.pieces) \/ j \in new.content
          \/ text[j] = "short" /\ \A l \in Pieces(new.pieces) \cup new.heading \cup new.content : l > j
    BY <1>1, <1>4, <2>2, <2>7
  <2>9. Pieces(new.pieces) \cup new.heading \cup new.content \subseteq 1 .. i
    BY <1>1, <1>3, <2>2, <2>5
  <2>10. new.content \subseteq {i} /\ (i > 0 =>
           /\ text[i] = "heading" => new.content = {} /\ Pieces(new.pieces) \cap new.heading = {}
           /\ text[i] = "long" => new.content = {}
           /\ text[i] \in {"short", "fit"} => new.content = {i})
    BY <1>4, <2>2, <2>6
  <2> QED
    BY <2>2, <2>3, <2>4, <2>8, <2>9, <2>10 DEF Sound, i, new
<1>5. ASSUME text[i] # "heading"
      PROVE  /\ acc.content = {} /\ covered \cap acc.heading = {}
             /\ covered \cap (acc.heading \cup {i}) = {}
             /\ covered \cup acc.heading \subseteq 1 .. k
  <2>1. covered \cup acc.heading \subseteq 1 .. k
    BY DEF Sound
  <2>2. acc.content = {} /\ covered \cap acc.heading = {}
    <3>1. CASE k > 0
      BY <1>2, <1>5, <3>1 DEF Sound
    <3>2. CASE k = 0
      BY <2>1, <3>2 DEF Sound
    <3> QED
      BY <3>1, <3>2
  <2> QED
    BY <1>3, <2>1, <2>2
<1>6. ASSUME text[i] # "heading", NEW j \in 1 .. k
      PROVE  \/ text[j] = "heading" \/ j \in covered
             \/ text[j] = "short" /\ \A l \in covered \cup acc.heading \cup {i} : l > j
  BY <1>1, <1>3, <1>5, <1>6 DEF Sound
<1>7. CASE text[i] = "long"
  <2> DEFINE p == acc.heading \cup {i}
             pieces == Append(acc.pieces, p)
  <2>1. new = [acc EXCEPT !.pieces = pieces]
    BY <1>7 DEF Section
  <2>2. new.pieces = pieces /\ new.heading = acc.heading /\ new.content = acc.content
    BY <1>0, <2>1 DEF Collected
  <2>3. p \in SUBSET Nat /\ covered \cap p = {} /\ Apart(acc.pieces)
    BY <1>0, <1>1, <1>5, <1>7 DEF Sound
  <2>4. pieces \in Seq(SUBSET Nat) /\ Pieces(pieces) = covered \cup p /\ Apart(pieces)
    BY <1>0, <2>3, AppendPiece
  <2>5. new \in Collected
    BY <1>0, <2>1, <2>4 DEF Collected
  <2> HIDE DEF new, pieces
  <2>6. Pieces(new.pieces) \cup new.heading \cup new.content \subseteq 1 .. i
    BY <1>1, <1>3, <1>5, <1>7, <2>2, <2>4
  <2>7. \A j \in 1 .. i :
          \/ text[j] = "heading" \/ j \in Pieces(new.pieces) \/ j \in new.content
          \/ text[j] = "short" /\ \A l \in Pieces(new.pieces) \cup new.heading \cup new.content : l > j
    BY <1>1, <1>5, <1>6, <1>7, <2>2, <2>4
  <2> QED
    BY <1>5, <1>7, <2>2, <2>4, <2>5, <2>6, <2>7 DEF Sound, i, new
<1>8. CASE text[i] \in {"short", "fit"}
  <2>1. new = [acc EXCEPT !.content = {i}]
    BY <1>8 DEF Section
  <2>2. new.pieces = acc.pieces /\ new.heading = acc.heading /\ new.content = {i}
    BY <1>0, <2>1 DEF Collected
  <2>3. new \in Collected
    BY <1>0, <1>1, <2>1 DEF Collected
  <2> HIDE DEF new
  <2>4. Apart(acc.pieces)
    BY DEF Sound
  <2>5. Pieces(new.pieces) \cup new.heading \cup new.content \subseteq 1 .. i
    BY <1>1, <1>3, <1>5, <1>8, <2>2
  <2>6. \A j \in 1 .. i :
          \/ text[j] = "heading" \/ j \in Pieces(new.pieces) \/ j \in new.content
          \/ text[j] = "short" /\ \A l \in Pieces(new.pieces) \cup new.heading \cup new.content : l > j
    BY <1>1, <1>5, <1>6, <1>8, <2>2
  <2> QED
    BY <1>5, <1>8, <2>2, <2>3, <2>4, <2>5, <2>6 DEF Sound, i, new
<1> QED
  BY <1>2, <1>4, <1>7, <1>8 DEF i, new
\* The iteration over the sections of a text, as a function.
Start == [pieces |-> <<>>, heading |-> {}, content |-> {}]
Places(text) == [i \in DOMAIN text |-> i]
CollectAt(text, g, s) == IF s = {} THEN Start ELSE Section(text, g[s \ {Max(s)}], Places(text)[Max(s)])
IsCollection(text, g) == g = [s \in SUBSET (DOMAIN Places(text)) |-> CollectAt(text, g, s)]
Collection(text) == CHOOSE g : IsCollection(text, g)
AllCollected(text) == FoldLeft(LAMBDA acc, i : Section(text, acc, i), Start, Places(text))
\* The fold is the last value of that function.
LEMMA FoldIsCollection ==
    ASSUME NEW text
    PROVE  AllCollected(text) = Collection(text)[DOMAIN Places(text)]
BY DEF AllCollected, FoldLeft, MapThenFoldSet, Collection, IsCollection, CollectAt

\* A section leaves what is collected of the same kind.
LEMMA SectionTyped ==
    ASSUME NEW text, NEW acc \in Collected, NEW i \in Nat
    PROVE  Section(text, acc, i) \in Collected
<1>1. acc.pieces \in Seq(SUBSET Nat) /\ acc.heading \in SUBSET Nat /\ acc.content \in SUBSET Nat
  BY DEF Collected
<1>2. acc.heading \cup acc.content \in SUBSET Nat /\ acc.heading \cup {i} \in SUBSET Nat /\ {} \in SUBSET Nat
  BY <1>1
<1>3. Close(text, acc) \in Seq(SUBSET Nat)
  <2>1. Append(acc.pieces, acc.heading \cup acc.content) \in Seq(SUBSET Nat)
    BY <1>1, <1>2, AppendPiece
  <2>2. acc.pieces # <<>> => Added(acc.pieces, acc.content) \in Seq(SUBSET Nat)
    BY <1>1, AddedPiece
  <2> QED
    BY <1>1, <2>1, <2>2 DEF Close
<1>4. CASE text[i] = "heading"
  BY <1>2, <1>3, <1>4 DEF Section, Collected
<1>5. CASE text[i] = "long"
  <2>1. Append(acc.pieces, acc.heading \cup {i}) \in Seq(SUBSET Nat)
    BY <1>1, <1>2, AppendPiece
  <2>2. Section(text, acc, i) = [acc EXCEPT !.pieces = Append(acc.pieces, acc.heading \cup {i})]
    BY <1>5 DEF Section
  <2> QED
    BY <2>1, <2>2 DEF Collected
<1>6. CASE text[i] \notin {"heading", "long"}
  <2>1. Section(text, acc, i) = [acc EXCEPT !.content = {i}]
    BY <1>6 DEF Section
  <2> QED
    BY <2>1 DEF Collected
<1> QED
  BY <1>4, <1>5, <1>6

\* There is such a function.
LEMMA CollectionExists ==
    ASSUME NEW text, IsText(text)
    PROVE  IsCollection(text, Collection(text))
<1> DEFINE N == Len(text)
           F == [p \in Collected \X (1 .. N) |-> Section(text, p[1], p[2])]
           seq == Places(text)
<1>1. N \in Nat /\ DOMAIN text = 1 .. N
  BY DEF IsText
<1>2. F \in [Collected \X (1 .. N) -> Collected]
      /\ \A a \in Collected, b \in 1 .. N : F[<<a, b>>] = Section(text, a, b)
  BY <1>1, SectionTyped
<1>3. seq \in [1 .. N -> 1 .. N] /\ DOMAIN seq = 1 .. N
  BY <1>1 DEF Places
<1>4. Start \in Collected
  <2>1. <<>> \in Seq(SUBSET Nat) /\ {} \in SUBSET Nat
    OBVIOUS
  <2> QED
    BY <2>1 DEF Start, Collected
<1> HIDE DEF F, N, seq
<1>5. PICK g : Iterates(Collected, F, Start, N, seq, g)
  BY <1>1, <1>2, <1>3, <1>4, PositionsIterate
<1>6. ASSUME NEW s \in SUBSET (1 .. N) PROVE g[s] = CollectAt(text, g, s)
  <2>1. CASE s = {}
    BY <1>5, <2>1 DEF Iterates, CollectAt
  <2>2. CASE s # {}
    <3>1. Max(s) \in 1 .. N
      BY <1>1, <2>2, LastPosition
    <3>2. s \ {Max(s)} \in SUBSET (1 .. N)
      OBVIOUS
    <3>3. seq[Max(s)] \in 1 .. N
      BY <1>3, <3>1
    <3> QED
      BY <1>2, <1>5, <2>2, <3>2, <3>3 DEF Iterates, CollectAt, seq
  <2> QED
    BY <2>1, <2>2
<1> DEFINE h == [s \in SUBSET (1 .. N) |-> CollectAt(text, g, s)]
<1>7. \A s \in SUBSET (1 .. N) : h[s] = g[s]
  BY <1>6
<1>8. \A s \in SUBSET (1 .. N) : CollectAt(text, h, s) = CollectAt(text, g, s)
  <2> TAKE s \in SUBSET (1 .. N)
  <2>1. s \ {Max(s)} \in SUBSET (1 .. N)
    OBVIOUS
  <2> HIDE DEF h
  <2> QED
    BY <1>7, <2>1 DEF CollectAt
<1>9. IsCollection(text, h)
  BY <1>3, <1>8 DEF IsCollection, seq
<1> QED
  BY <1>9 DEF Collection

\* What is collected at the end is sound.
LEMMA CollectionSound ==
    ASSUME NEW text, IsText(text)
    PROVE  Sound(text, Len(text), AllCollected(text))
<1> DEFINE N == Len(text)
           after(k) == Collection(text)[1 .. k]
           P == {k \in Nat : k <= N => Sound(text, k, after(k))}
<1>1. N \in Nat /\ DOMAIN text = 1 .. N /\ DOMAIN Places(text) = 1 .. N
  BY DEF IsText, Places
<1>2. \A s \in SUBSET (1 .. N) : Collection(text)[s] = CollectAt(text, Collection(text), s)
  BY <1>1, CollectionExists DEF IsCollection
<1>3. 0 \in P
  <2>1. 1 .. 0 = {} /\ {} \in SUBSET (1 .. N)
    OBVIOUS
  <2>2. after(0) = Start
    BY <1>2, <2>1 DEF CollectAt
  <2>3. /\ Start.pieces = <<>> /\ Start.heading = {} /\ Start.content = {}
    BY DEF Start
  <2>4. Start \in Collected
    <3>1. <<>> \in Seq(SUBSET Nat) /\ {} \in SUBSET Nat
      OBVIOUS
    <3> QED
      BY <3>1 DEF Start, Collected
  <2>5. Pieces(Start.pieces) = {} /\ Apart(Start.pieces)
    BY <2>3 DEF Pieces, Apart
  <2>6. Sound(text, 0, Start)
    BY <2>1, <2>3, <2>4, <2>5 DEF Sound
  <2> QED
    BY <2>2, <2>6
<1>4. ASSUME NEW k \in Nat, k \in P PROVE k + 1 \in P
  <2> SUFFICES ASSUME k + 1 <= N PROVE Sound(text, k + 1, after(k + 1))
    OBVIOUS
  <2>1. 1 .. (k + 1) \in SUBSET (1 .. N) /\ 1 .. (k + 1) # {} /\ k + 1 \in 1 .. N
    <3> HIDE DEF N
    <3>1. N \in Nat
      BY <1>1
    <3>2. k + 1 \in 1 .. N /\ k + 1 \in 1 .. (k + 1)
      BY <3>1
    <3>3. \A j \in 1 .. (k + 1) : j \in 1 .. N
      BY <3>1
    <3> QED
      BY <3>2, <3>3
  <2>2. Places(text)[k + 1] = k + 1
    BY <1>1, <2>1 DEF Places
  <2>3. after(k + 1) = Section(text, after(k), k + 1)
    BY <1>2, <2>1, <2>2, FirstPositions DEF CollectAt
  <2>4. Sound(text, k, after(k)) /\ k < Len(text)
    BY <1>1, <1>4
  <2> HIDE DEF after
  <2> QED
    BY <2>3, <2>4, SectionSound
<1>5. N \in P
  <2> HIDE DEF P
  <2> QED
    BY <1>1, <1>3, <1>4, NumberInduction
<1>6. Sound(text, N, after(N))
  BY <1>1, <1>5
<1> QED
  BY <1>1, <1>6, FoldIsCollection

\* Of the chunks under headings each section with text is in exactly one, but
\* those too short that come before the first.
LEMMA HeadingsCover ==
    ASSUME NEW text, IsText(text)
    PROVE  LET pieces == HeadingAwareChunks(text)
           IN /\ Apart(pieces)
              /\ \A i \in DOMAIN text \ Pieces(pieces) :
                   text[i] = "heading" \/ (text[i] = "short" /\ \A j \in Pieces(pieces) : j > i)
<1> DEFINE last == AllCollected(text)
           pieces == HeadingAwareChunks(text)
           N == Len(text)
<1>1. N \in Nat /\ DOMAIN text = 1 .. N
  BY DEF IsText
<1>2. Sound(text, N, last)
  BY CollectionSound
<1>3. pieces = IF last.content # {} /\ last.pieces = <<>> THEN <<last.heading \cup last.content>>
               ELSE IF last.content # {} THEN Close(text, last) ELSE last.pieces
  BY Zenon DEF HeadingAwareChunks, AllCollected, Start, Places
<1> HIDE DEF last, pieces, N
<1>4. /\ last.pieces \in Seq(SUBSET Nat) /\ last.heading \in SUBSET Nat /\ last.content \in SUBSET Nat
      /\ Apart(last.pieces)
  BY <1>2 DEF Sound, Collected
<1>5. \A i \in 1 .. N :
        \/ text[i] = "heading" \/ i \in Pieces(last.pieces) \/ i \in last.content
        \/ text[i] = "short" /\ \A j \in Pieces(last.pieces) \cup last.heading \cup last.content : j > i
  BY <1>2 DEF Sound
<1>6. CASE last.content = {}
  <2>1. pieces = last.pieces
    BY <1>3, <1>6
  <2> QED
    BY <1>1, <1>4, <1>5, <1>6, <2>1 DEF pieces
<1>7. CASE last.content # {} /\ last.pieces = <<>>
  <2> DEFINE p == last.heading \cup last.content
  <2>1. pieces = <<p>>
    BY <1>3, <1>7
  <2> HIDE DEF p
  <2>2. Pieces(pieces) = p /\ Apart(pieces)
    BY <2>1 DEF Pieces, Apart
  <2>3. Pieces(last.pieces) = {}
    BY <1>7 DEF Pieces
  <2> QED
    BY <1>1, <1>5, <2>2, <2>3 DEF pieces, p
<1>8. CASE last.content # {} /\ last.pieces # <<>>
  <2>1. pieces = Close(text, last)
    BY <1>3, <1>8
  <2>2. N > 0
    BY <1>1, <1>2, <1>8 DEF Sound
  <2>3. /\ Apart(pieces)
        /\ Pieces(pieces) \subseteq Pieces(last.pieces) \cup last.heading \cup last.content
        /\ Pieces(last.pieces) \subseteq Pieces(pieces)
        /\ last.content \subseteq Pieces(pieces)
    BY <1>1, <1>2, <1>8, <2>1, <2>2, CloseTells DEF N
  <2> QED
    BY <1>1, <1>5, <2>3 DEF pieces
<1> QED
  BY <1>6, <1>7, <1>8
\* A document that is cut has a text of the kind that there is.
TextsTold == \A d \in Documents : ingest[d].at = "version" =>
    ingest[d].text \in DocumentTexts /\ ingest[d].strategy \in Strategies
\* Every step of the knowledge base keeps that.
LEMMA TextsStep == ASSUME KnowledgeTyped, TextsTold, KnowledgeNext PROVE TextsTold'
<1>1. ASSUME NEW d \in Documents, NEW at, at # "version", ingest' = [ingest EXCEPT ![d].at = at]
      PROVE  TextsTold'
  BY <1>1, IngestTells DEF TextsTold
<1>2. ASSUME NEW d \in Documents, NEW x, x.at # "version", ingest' = [ingest EXCEPT ![d] = x]
      PROVE  TextsTold'
  <2>1. ingest'[d] = x /\ \A e \in Documents \ {d} : ingest'[e] = ingest[e]
    BY <1>2 DEF KnowledgeTyped
  <2> QED
    BY <1>2, <2>1 DEF TextsTold
<1>3. ASSUME UNCHANGED ingest PROVE TextsTold'
  BY <1>3 DEF TextsTold
<1>4. ASSUME NEW d \in Documents,
             \/ CreateRecord(d) \/ StartProcessing(d) \/ Process(d) \/ CreateVersion(d) \/ Embed(d)
             \/ Upsert(d) \/ SaveChunks(d) \/ Indexed(d) \/ Fails(d) \/ SetFailed(d)
      PROVE  TextsTold'
  <2>1. CASE CreateRecord(d)
    BY <1>2, <2>1 DEF CreateRecord
  <2>2. CASE StartProcessing(d)
    BY <1>1, <2>2 DEF StartProcessing
  <2>3. CASE Process(d)
    <3>1. PICK text \in DocumentTexts, strategy \in Strategies :
            ingest' = [ingest EXCEPT ![d] = [at |-> "version", text |-> text, strategy |-> strategy,
                                             n |-> Len(ChunksOf(text, strategy))]]
      BY <2>3 DEF Process
    <3> DEFINE x == [at |-> "version", text |-> text, strategy |-> strategy,
                     n |-> Len(ChunksOf(text, strategy))]
    <3>2. x.text = text /\ x.strategy = strategy
      OBVIOUS
    <3>3. ingest' = [ingest EXCEPT ![d] = x]
      BY <3>1
    <3> HIDE DEF x
    <3>4. ingest'[d] = x /\ \A e \in Documents \ {d} : ingest'[e] = ingest[e]
      BY <3>3 DEF KnowledgeTyped
    <3> QED
      BY <3>2, <3>4 DEF TextsTold
  <2>4. CASE CreateVersion(d)
    <3> DEFINE x == [at |-> IF ingest[d].n = 0 THEN "finish" ELSE "embed", n |-> ingest[d].n]
    <3>1. x.at # "version" /\ ingest' = [ingest EXCEPT ![d] = x]
      BY <2>4 DEF CreateVersion
    <3> HIDE DEF x
    <3> QED
      BY <1>2, <3>1
  <2>5. CASE Embed(d)
    BY <1>1, <2>5 DEF Embed
  <2>6. CASE Upsert(d)
    BY <1>1, <2>6 DEF Upsert
  <2>7. CASE SaveChunks(d)
    BY <1>1, <2>7 DEF SaveChunks
  <2>8. CASE Indexed(d)
    BY <1>1, <2>8 DEF Indexed
  <2>9. CASE Fails(d)
    BY <1>1, <2>9 DEF Fails
  <2>10. CASE SetFailed(d)
    BY <1>1, <2>10 DEF SetFailed
  <2> QED
    BY <1>4, <2>1, <2>2, <2>3, <2>4, <2>5, <2>6, <2>7, <2>8, <2>9, <2>10
<1>5. ASSUME NEW d \in Documents,
             \/ \E org \in Owners : Delete(d, org)
             \/ DeleteVectors(d) \/ DeleteChunks(d) \/ DeleteRecord(d)
      PROVE  UNCHANGED ingest
  BY <1>5 DEF Delete, DeleteVectors, DeleteChunks, DeleteRecord
<1>6. ASSUME NEW org \in Owners, DeleteOrganizationIndex(org) PROVE UNCHANGED ingest
  BY <1>6 DEF DeleteOrganizationIndex
<1>7. ASSUME NEW q \in Questions, Resolve(q) \/ Cite(q) \/ \E org \in Owners : Search(q, org)
      PROVE  UNCHANGED ingest
  BY <1>7 DEF Resolve, Cite, Search
<1> QED
  BY <1>3, <1>4, <1>5, <1>6, <1>7 DEF KnowledgeNext

\* However such a text is cut, its chunks cover it.
LEMMA TextsCovered == TextsTold => ChunksCover
<1> SUFFICES ASSUME TextsTold, NEW d \in Documents, ingest[d].at = "version"
             PROVE  LET text == ingest[d].text
                        pieces == ChunksOf(text, ingest[d].strategy)
                    IN IF ingest[d].strategy = "fixed-size" THEN Pieces(pieces) = DOMAIN text
                       ELSE /\ Apart(pieces)
                            /\ \A i \in DOMAIN text \ Pieces(pieces) :
                                 text[i] = "heading" \/ (text[i] = "short" /\ \A j \in Pieces(pieces) : j > i)
  BY Zenon DEF ChunksCover, Pieces, Apart
<1> DEFINE text == ingest[d].text
           strategy == ingest[d].strategy
<1>1. text \in DocumentTexts /\ strategy \in Strategies
  BY DEF TextsTold
<1>2. IsText(text) /\ text \in Seq({"heading", "short", "fit", "long"})
  BY <1>1, TextAssumption DEF IsText
<1> HIDE DEF text
<1>3. CASE strategy = "fixed-size"
  <2>1. ChunksOf(text, strategy) = FixedSizeChunks(text)
    BY <1>3 DEF ChunksOf
  <2>2. Pieces(FixedSizeChunks(text)) = DOMAIN text
    BY <1>2, FixedSizeCovers
  <2> QED
    BY <1>3, <2>1, <2>2 DEF text
<1>4. CASE strategy = "heading-aware"
  <2>1. ChunksOf(text, strategy) = HeadingAwareChunks(text)
    BY <1>4 DEF ChunksOf
  <2>2. LET pieces == HeadingAwareChunks(text)
        IN /\ Apart(pieces)
           /\ \A i \in DOMAIN text \ Pieces(pieces) :
                text[i] = "heading" \/ (text[i] = "short" /\ \A j \in Pieces(pieces) : j > i)
    BY <1>2, HeadingsCover
  <2> QED
    BY <1>4, <2>1, <2>2 DEF text
<1> QED
  BY <1>1, <1>3, <1>4 DEF Strategies
-----------------------------------------------------------------------------
(* The conversations, their session and the windows made of it              *)
(* (Conversations).                                                         *)

Messages == [tokens : Sizes, system : BOOLEAN]
Takings == [left : Int, kept : Seq(Messages)]

\* The tokens of a message are a number.
LEMMA SizesTyped == \A m \in Messages : m.tokens \in Nat /\ m.tokens \in Int
<1> SUFFICES ASSUME NEW m \in Messages PROVE m.tokens \in Nat
  OBVIOUS
<1>1. m.tokens \in Sizes
  BY DEF Messages
<1> QED
  BY <1>1, ConversationAssumption

\* Taking one more message leaves what is taken of its kind.
LEMMA TakeTyped == \A a \in Takings, m \in Messages : Take(a, m) \in Takings
<1> SUFFICES ASSUME NEW a \in Takings, NEW m \in Messages PROVE Take(a, m) \in Takings
  OBVIOUS
<1>1. a.left - m.tokens \in Int /\ Append(a.kept, m) \in Seq(Messages)
  BY SizesTyped DEF Takings
<1> QED
  BY <1>1 DEF Take, Takings

\* Adding up tokens is an iteration over the messages.
LEMMA TokensFold ==
    ASSUME NEW s \in Seq(Messages), NEW F, F = [p \in Int \X Messages |-> p[1] + p[2].tokens]
    PROVE  FoldsTo(Int, F, 0, s, Tokens(s))
<1> DEFINE D == DOMAIN s
           At(g, t) == IF t = {} THEN 0 ELSE g[t \ {Max(t)}] + s[Max(t)].tokens
           Is(g) == g = [t \in SUBSET D |-> At(g, t)]
           it == CHOOSE g : Is(g)
<1>1. Tokens(s) = it[D]
  BY DEF Tokens, FoldLeft, MapThenFoldSet
<1>2. Len(s) \in Nat /\ D = 1 .. Len(s) /\ s \in [1 .. Len(s) -> Messages]
  OBVIOUS
<1>3. F \in [Int \X Messages -> Int] /\ \A a \in Int, b \in Messages : F[<<a, b>>] = a + b.tokens
  BY SizesTyped
<1>4. 0 \in Int
  OBVIOUS
<1> HIDE DEF D
<1>5. PICK g : Iterates(Int, F, 0, Len(s), s, g)
  BY <1>2, <1>3, <1>4, PositionsIterate
<1>6. Is([t \in SUBSET D |-> g[t]])
  <2> DEFINE h == [t \in SUBSET D |-> g[t]]
  <2> SUFFICES ASSUME NEW t \in SUBSET D PROVE g[t] = At(h, t)
    OBVIOUS
  <2>1. CASE t # {}
    <3>1. Max(t) \in D /\ t \ {Max(t)} \in SUBSET D
      BY <1>2, <2>1, LastPosition
    <3>2. h[t \ {Max(t)}] = g[t \ {Max(t)}] /\ g[t \ {Max(t)}] \in Int /\ s[Max(t)] \in Messages
      BY <1>2, <1>5, <3>1 DEF Iterates
    <3> HIDE DEF h
    <3> QED
      BY <1>2, <1>3, <1>5, <2>1, <3>2 DEF Iterates
  <2> QED
    BY <1>2, <1>5, <2>1 DEF Iterates
<1>7. Is(it)
  <2> HIDE DEF Is
  <2> QED
    BY <1>6
<1>8. ASSUME NEW t \in SUBSET D PROVE it[t] = At(it, t)
  <2> HIDE DEF it, At
  <2> QED
    BY <1>7
<1> HIDE DEF it
<1>9. it[{}] = 0
  BY <1>8
<1>10. ASSUME NEW t \in SUBSET D, t # {}, it[t \ {Max(t)}] \in Int
      PROVE  it[t] = F[<<it[t \ {Max(t)}], s[Max(t)]>>]
  <2>1. s[Max(t)] \in Messages
    BY <1>2, <1>10, LastPosition
  <2> QED
    BY <1>3, <1>8, <1>10, <2>1
<1>11. Iterates(Int, F, 0, Len(s), s, it)
  BY <1>2, <1>3, <1>4, <1>9, <1>10, IterationTyped
<1> QED
  BY <1>1, <1>2, <1>11 DEF FoldsTo
\* So is selecting those of a role.
LEMMA RoleFold ==
    ASSUME NEW system, NEW s \in Seq(Messages), NEW F, F = [p \in Seq(Messages) \X Messages |-> Keep(system, p[1], p[2])]
    PROVE  FoldsTo(Seq(Messages), F, <<>>, s, OfRole(system, s))
<1> DEFINE D == DOMAIN s
           At(g, t) == IF t = {} THEN <<>> ELSE Keep(system, g[t \ {Max(t)}], s[Max(t)])
           Is(g) == g = [t \in SUBSET D |-> At(g, t)]
           it == CHOOSE g : Is(g)
<1>1. OfRole(system, s) = it[D]
  BY DEF OfRole, FoldLeft, MapThenFoldSet
<1>2. Len(s) \in Nat /\ D = 1 .. Len(s) /\ s \in [1 .. Len(s) -> Messages]
  OBVIOUS
<1>3. F \in [Seq(Messages) \X Messages -> Seq(Messages)] /\ \A a \in Seq(Messages), b \in Messages : F[<<a, b>>] = Keep(system, a, b)
  BY DEF Keep
<1>4. <<>> \in Seq(Messages)
  OBVIOUS
<1> HIDE DEF D
<1>5. PICK g : Iterates(Seq(Messages), F, <<>>, Len(s), s, g)
  BY <1>2, <1>3, <1>4, PositionsIterate
<1>6. Is([t \in SUBSET D |-> g[t]])
  <2> DEFINE h == [t \in SUBSET D |-> g[t]]
  <2> SUFFICES ASSUME NEW t \in SUBSET D PROVE g[t] = At(h, t)
    OBVIOUS
  <2>1. CASE t # {}
    <3>1. Max(t) \in D /\ t \ {Max(t)} \in SUBSET D
      BY <1>2, <2>1, LastPosition
    <3>2. h[t \ {Max(t)}] = g[t \ {Max(t)}] /\ g[t \ {Max(t)}] \in Seq(Messages) /\ s[Max(t)] \in Messages
      BY <1>2, <1>5, <3>1 DEF Iterates
    <3> HIDE DEF h
    <3> QED
      BY <1>2, <1>3, <1>5, <2>1, <3>2 DEF Iterates
  <2> QED
    BY <1>2, <1>5, <2>1 DEF Iterates
<1>7. Is(it)
  <2> HIDE DEF Is
  <2> QED
    BY <1>6
<1>8. ASSUME NEW t \in SUBSET D PROVE it[t] = At(it, t)
  <2> HIDE DEF it, At
  <2> QED
    BY <1>7
<1> HIDE DEF it
<1>9. it[{}] = <<>>
  BY <1>8
<1>10. ASSUME NEW t \in SUBSET D, t # {}, it[t \ {Max(t)}] \in Seq(Messages)
      PROVE  it[t] = F[<<it[t \ {Max(t)}], s[Max(t)]>>]
  <2>1. s[Max(t)] \in Messages
    BY <1>2, <1>10, LastPosition
  <2> QED
    BY <1>3, <1>8, <1>10, <2>1
<1>11. Iterates(Seq(Messages), F, <<>>, Len(s), s, it)
  BY <1>2, <1>3, <1>4, <1>9, <1>10, IterationTyped
<1> QED
  BY <1>1, <1>2, <1>11 DEF FoldsTo
\* And taking those that fit.
LEMMA TakeFold ==
    ASSUME NEW base \in Takings, NEW s \in Seq(Messages), NEW F, F = [p \in Takings \X Messages |-> Take(p[1], p[2])]
    PROVE  FoldsTo(Takings, F, base, s, FoldLeft(Take, base, s))
<1> DEFINE D == DOMAIN s
           At(g, t) == IF t = {} THEN base ELSE Take(g[t \ {Max(t)}], s[Max(t)])
           Is(g) == g = [t \in SUBSET D |-> At(g, t)]
           it == CHOOSE g : Is(g)
<1>1. FoldLeft(Take, base, s) = it[D]
  BY DEF FoldLeft, MapThenFoldSet
<1>2. Len(s) \in Nat /\ D = 1 .. Len(s) /\ s \in [1 .. Len(s) -> Messages]
  OBVIOUS
<1>3. F \in [Takings \X Messages -> Takings] /\ \A a \in Takings, b \in Messages : F[<<a, b>>] = Take(a, b)
  BY TakeTyped
<1>4. base \in Takings
  OBVIOUS
<1> HIDE DEF D
<1>5. PICK g : Iterates(Takings, F, base, Len(s), s, g)
  BY <1>2, <1>3, <1>4, PositionsIterate
<1>6. Is([t \in SUBSET D |-> g[t]])
  <2> DEFINE h == [t \in SUBSET D |-> g[t]]
  <2> SUFFICES ASSUME NEW t \in SUBSET D PROVE g[t] = At(h, t)
    OBVIOUS
  <2>1. CASE t # {}
    <3>1. Max(t) \in D /\ t \ {Max(t)} \in SUBSET D
      BY <1>2, <2>1, LastPosition
    <3>2. h[t \ {Max(t)}] = g[t \ {Max(t)}] /\ g[t \ {Max(t)}] \in Takings /\ s[Max(t)] \in Messages
      BY <1>2, <1>5, <3>1 DEF Iterates
    <3> HIDE DEF h
    <3> QED
      BY <1>2, <1>3, <1>5, <2>1, <3>2 DEF Iterates
  <2> QED
    BY <1>2, <1>5, <2>1 DEF Iterates
<1>7. Is(it)
  <2> HIDE DEF Is
  <2> QED
    BY <1>6
<1>8. ASSUME NEW t \in SUBSET D PROVE it[t] = At(it, t)
  <2> HIDE DEF it, At
  <2> QED
    BY <1>7
<1> HIDE DEF it
<1>9. it[{}] = base
  BY <1>8
<1>10. ASSUME NEW t \in SUBSET D, t # {}, it[t \ {Max(t)}] \in Takings
      PROVE  it[t] = F[<<it[t \ {Max(t)}], s[Max(t)]>>]
  <2>1. s[Max(t)] \in Messages
    BY <1>2, <1>10, LastPosition
  <2> QED
    BY <1>3, <1>8, <1>10, <2>1
<1>11. Iterates(Takings, F, base, Len(s), s, it)
  BY <1>2, <1>3, <1>4, <1>9, <1>10, IterationTyped
<1> QED
  BY <1>1, <1>2, <1>11 DEF FoldsTo

\* The tokens of no messages, and of one more.
LEMMA TokensStep ==
    /\ Tokens(<<>>) = 0
    /\ \A s \in Seq(Messages), m \in Messages :
         Tokens(s) \in Int /\ Tokens(Append(s, m)) = Tokens(s) + m.tokens
<1> DEFINE F == [p \in Int \X Messages |-> p[1] + p[2].tokens]
<1>1. \A s \in Seq(Messages) : FoldsTo(Int, F, 0, s, Tokens(s))
  BY TokensFold
<1>2. <<>> \in Seq(Messages)
  OBVIOUS
<1>3. ASSUME NEW s \in Seq(Messages), NEW m \in Messages
      PROVE  Tokens(s) \in Int /\ Tokens(Append(s, m)) = F[<<Tokens(s), m>>]
  <2>1. Append(s, m) \in Seq(Messages)
    OBVIOUS
  <2> HIDE DEF F
  <2>2. FoldsTo(Int, F, 0, s, Tokens(s)) /\ FoldsTo(Int, F, 0, Append(s, m), Tokens(Append(s, m)))
    BY <1>1, <2>1
  <2> QED
    BY <2>2, FoldsAppended
<1>4. Tokens(<<>>) = 0
  <2> HIDE DEF F
  <2> QED
    BY <1>1, <1>2, FoldsEmpty
<1> QED
  BY <1>3, <1>4

\* The messages of a role, of none and of one more.
LEMMA RoleStep ==
    ASSUME NEW system
    PROVE  /\ OfRole(system, <<>>) = <<>>
           /\ \A s \in Seq(Messages), m \in Messages :
                /\ OfRole(system, s) \in Seq(Messages)
                /\ OfRole(system, Append(s, m)) = Keep(system, OfRole(system, s), m)
<1> DEFINE F == [p \in Seq(Messages) \X Messages |-> Keep(system, p[1], p[2])]
<1>1. \A s \in Seq(Messages) : FoldsTo(Seq(Messages), F, <<>>, s, OfRole(system, s))
  BY RoleFold
<1>2. <<>> \in Seq(Messages)
  OBVIOUS
<1>3. ASSUME NEW s \in Seq(Messages), NEW m \in Messages
      PROVE  /\ OfRole(system, s) \in Seq(Messages)
             /\ OfRole(system, Append(s, m)) = F[<<OfRole(system, s), m>>]
  <2>1. Append(s, m) \in Seq(Messages)
    OBVIOUS
  <2> HIDE DEF F
  <2>2. FoldsTo(Seq(Messages), F, <<>>, s, OfRole(system, s)) /\ FoldsTo(Seq(Messages), F, <<>>, Append(s, m), OfRole(system, Append(s, m)))
    BY <1>1, <2>1
  <2> QED
    BY <2>2, FoldsAppended
<1>4. OfRole(system, <<>>) = <<>>
  <2> HIDE DEF F
  <2> QED
    BY <1>1, <1>2, FoldsEmpty
<1> QED
  BY <1>3, <1>4

\* What has been taken of no messages, and of one more.
LEMMA TakeStep ==
    ASSUME NEW base \in Takings
    PROVE  /\ FoldLeft(Take, base, <<>>) = base
           /\ \A s \in Seq(Messages), m \in Messages :
                /\ FoldLeft(Take, base, s) \in Takings
                /\ FoldLeft(Take, base, Append(s, m)) = Take(FoldLeft(Take, base, s), m)
<1> DEFINE F == [p \in Takings \X Messages |-> Take(p[1], p[2])]
           fold(s) == FoldLeft(Take, base, s)
<1>1. \A s \in Seq(Messages) : FoldsTo(Takings, F, base, s, fold(s))
  BY TakeFold
<1>2. <<>> \in Seq(Messages)
  OBVIOUS
<1> HIDE DEF fold
<1>3. ASSUME NEW s \in Seq(Messages), NEW m \in Messages
      PROVE  fold(s) \in Takings /\ fold(Append(s, m)) = F[<<fold(s), m>>]
  <2>1. Append(s, m) \in Seq(Messages)
    OBVIOUS
  <2> HIDE DEF F
  <2>2. FoldsTo(Takings, F, base, s, fold(s)) /\ FoldsTo(Takings, F, base, Append(s, m), fold(Append(s, m)))
    BY <1>1, <2>1
  <2> QED
    BY <2>2, FoldsAppended
<1>4. fold(<<>>) = base
  <2> HIDE DEF F
  <2> QED
    BY <1>1, <1>2, FoldsEmpty
<1>5. \A s \in Seq(Messages), m \in Messages : fold(s) \in Takings /\ fold(Append(s, m)) = Take(fold(s), m)
  BY <1>3
<1> QED
  BY <1>4, <1>5 DEF fold

\* The messages of a role are messages.
LEMMA RoleTyped == \A s \in Seq(Messages) : \A system : OfRole(system, s) \in Seq(Messages)
<1> SUFFICES ASSUME NEW s \in Seq(Messages), NEW system PROVE OfRole(system, s) \in Seq(Messages)
  OBVIOUS
<1>1. CASE s = <<>>
  <2>1. <<>> \in Seq(Messages)
    OBVIOUS
  <2> QED
    BY <1>1, <2>1, RoleStep
<1>2. CASE s # <<>>
  <2>1. s[1] \in Messages
    BY <1>2
  <2> QED
    BY <2>1, RoleStep
<1> QED
  BY <1>1, <1>2

\* Tokens are counted in naturals.
LEMMA TokensTyped == \A s \in Seq(Messages) : Tokens(s) \in Nat
<1> DEFINE P == {s \in Seq(Messages) : Tokens(s) \in Nat}
<1>1. <<>> \in P
  BY TokensStep
<1>2. \A s \in Seq(Messages), m \in Messages : s \in P => Append(s, m) \in P
  BY TokensStep, SizesTyped
<1> HIDE DEF P
<1>3. \A s \in Seq(Messages) : s \in P
  BY <1>1, <1>2, SequenceInduction
<1> QED
  BY <1>3 DEF P

\* Without the first message there are its tokens less.
LEMMA TokensOfTail ==
    ASSUME NEW s \in Seq(Messages), s # <<>>
    PROVE  Tokens(s) = s[1].tokens + Tokens(Tail(s))
<1> DEFINE P == {t \in Seq(Messages) : t # <<>> => Tokens(t) = t[1].tokens + Tokens(Tail(t))}
<1>1. <<>> \in P
  OBVIOUS
<1>2. ASSUME NEW t \in Seq(Messages), NEW m \in Messages, t \in P PROVE Append(t, m) \in P
  <2> DEFINE u == Append(t, m)
  <2>1. u \in Seq(Messages) /\ u # <<>> /\ Tokens(u) = Tokens(t) + m.tokens
    <3>1. u \in Seq(Messages) /\ u # <<>>
      OBVIOUS
    <3> QED
      BY <3>1, TokensStep
  <2>2. CASE t = <<>>
    <3>1. u[1] = m /\ Tail(u) = <<>>
      BY <2>2
    <3> QED
      BY <2>1, <2>2, <3>1, TokensStep, SizesTyped
  <2>3. CASE t # <<>>
    <3>1. u[1] = t[1] /\ Tail(u) = Append(Tail(t), m) /\ Tail(t) \in Seq(Messages) /\ t[1] \in Messages
      BY <2>3
    <3>2. Tokens(t) = t[1].tokens + Tokens(Tail(t)) /\ Tokens(Tail(u)) = Tokens(Tail(t)) + m.tokens
      BY <1>2, <2>3, <3>1, TokensStep
    <3>3. Tokens(Tail(t)) \in Nat /\ t[1].tokens \in Nat /\ m.tokens \in Nat
      BY <3>1, TokensTyped, SizesTyped
    <3> HIDE DEF u
    <3>4. Tokens(u) = t[1].tokens + Tokens(Tail(u))
      BY <2>1, <3>2, <3>3
    <3> QED
      BY <2>1, <3>1, <3>4 DEF u
  <2> QED
    BY <2>2, <2>3
<1> HIDE DEF P
<1>3. s \in P
  BY <1>1, <1>2, SequenceInduction
<1> QED
  BY <1>3 DEF P

\* All of the messages of a role are of that role, and those of the other
\* role none.
LEMMA RoleOfRole ==
    \A s \in Seq(Messages) :
        /\ OfRole(TRUE, OfRole(TRUE, s)) = OfRole(TRUE, s)
        /\ \A i \in DOMAIN OfRole(FALSE, s) : OfRole(FALSE, s)[i].system = FALSE
<1> DEFINE P == {s \in Seq(Messages) :
                   /\ OfRole(TRUE, OfRole(TRUE, s)) = OfRole(TRUE, s)
                   /\ \A i \in DOMAIN OfRole(FALSE, s) : OfRole(FALSE, s)[i].system = FALSE}
<1>1. <<>> \in P
  <2>1. OfRole(TRUE, <<>>) = <<>> /\ OfRole(FALSE, <<>>) = <<>>
    BY RoleStep
  <2>3. <<>> \in Seq(Messages)
    OBVIOUS
  <2>2. \A i \in DOMAIN <<>> : FALSE
    OBVIOUS
  <2> QED
    BY <2>1, <2>2, <2>3
<1>2. ASSUME NEW s \in Seq(Messages), NEW m \in Messages, s \in P PROVE Append(s, m) \in P
  <2> DEFINE sys == OfRole(TRUE, s)
             rest == OfRole(FALSE, s)
  <2>1. sys \in Seq(Messages) /\ rest \in Seq(Messages) /\ m.system \in BOOLEAN
        /\ OfRole(TRUE, sys) = sys /\ \A i \in DOMAIN rest : rest[i].system = FALSE
    BY <1>2, RoleStep DEF Messages
  <2>2. /\ OfRole(TRUE, Append(s, m)) = IF m.system THEN Append(sys, m) ELSE sys
        /\ OfRole(FALSE, Append(s, m)) = IF m.system THEN rest ELSE Append(rest, m)
    BY ZenonT(60), <2>1, RoleStep DEF Keep
  <2>3. OfRole(TRUE, Append(sys, m)) = IF m.system THEN Append(sys, m) ELSE sys
    BY ZenonT(60), <2>1, RoleStep DEF Keep
  <2> HIDE DEF sys, rest
  <2>4. OfRole(TRUE, OfRole(TRUE, Append(s, m))) = OfRole(TRUE, Append(s, m))
    BY <2>1, <2>2, <2>3
  <2>5. \A i \in DOMAIN OfRole(FALSE, Append(s, m)) : OfRole(FALSE, Append(s, m))[i].system = FALSE
    <3>1. \A i \in DOMAIN Append(rest, m) : Append(rest, m)[i] = IF i = Len(rest) + 1 THEN m ELSE rest[i]
      BY <2>1
    <3>2. \A i \in DOMAIN Append(rest, m) : i = Len(rest) + 1 \/ i \in DOMAIN rest
      BY <2>1
    <3> QED
      BY <2>1, <2>2, <3>1, <3>2
  <2>6. Append(s, m) \in Seq(Messages)
    OBVIOUS
  <2> QED
    BY <2>4, <2>5, <2>6
<1> HIDE DEF P
<1>3. \A s \in Seq(Messages) : s \in P
  BY <1>1, <1>2, SequenceInduction
<1> QED
  BY <1>3 DEF P

\* What trimming has taken: the system messages are those there were, the room
\* left is what they and the others leave, and nothing is taken beyond it.
Fits(systems, limit, taken) ==
    /\ taken.left = limit - Tokens(taken.kept)
    /\ OfRole(TRUE, taken.kept) = systems
    /\ taken.left >= 0 \/ taken.kept = systems
\* Taking the others one by one keeps to that.
LEMMA TakingFits ==
    ASSUME NEW systems \in Seq(Messages), OfRole(TRUE, systems) = systems, NEW limit \in Int,
           NEW s \in Seq(Messages), \A i \in DOMAIN s : s[i].system = FALSE
    PROVE  LET taken == FoldLeft(Take, [left |-> limit - Tokens(systems), kept |-> systems], s)
           IN taken \in Takings /\ Fits(systems, limit, taken)
<1> DEFINE base == [left |-> limit - Tokens(systems), kept |-> systems]
           Plain(t) == \A i \in DOMAIN t : t[i].system = FALSE
           P == {t \in Seq(Messages) : Plain(t) => Fits(systems, limit, FoldLeft(Take, base, t))}
<1>0. base \in Takings
  BY TokensTyped DEF Takings
<1>1. <<>> \in P
  <2>1. FoldLeft(Take, base, <<>>) = base
    BY <1>0, TakeStep
  <2>2. <<>> \in Seq(Messages) /\ base.left = limit - Tokens(base.kept) /\ base.kept = systems
    OBVIOUS
  <2> HIDE DEF base
  <2> QED
    BY <2>1, <2>2 DEF Fits
<1>2. ASSUME NEW t \in Seq(Messages), NEW m \in Messages, t \in P PROVE Append(t, m) \in P
  <2>0. Append(t, m) \in Seq(Messages)
    OBVIOUS
  <2> SUFFICES ASSUME Plain(Append(t, m)) PROVE Fits(systems, limit, FoldLeft(Take, base, Append(t, m)))
    BY <2>0
  <2>1. Plain(t) /\ m.system = FALSE
    <3>1. Append(t, m)[Len(t) + 1] = m /\ Len(t) + 1 \in DOMAIN Append(t, m)
          /\ \A i \in DOMAIN t : Append(t, m)[i] = t[i] /\ i \in DOMAIN Append(t, m)
      OBVIOUS
    <3> QED
      BY <3>1
  <2> DEFINE a == FoldLeft(Take, base, t)
  <2>2. a \in Takings /\ Fits(systems, limit, a) /\ FoldLeft(Take, base, Append(t, m)) = Take(a, m)
    BY <1>0, <1>2, <2>1, TakeStep
  <2> HIDE DEF a
  <2>3. CASE m.tokens <= a.left
    <3>1. Take(a, m) = [left |-> a.left - m.tokens, kept |-> Append(a.kept, m)]
      BY <2>3 DEF Take
    <3>2. a.kept \in Seq(Messages) /\ a.left \in Int /\ m.tokens \in Nat
      BY <2>2, SizesTyped DEF Takings
    <3>3. Tokens(Append(a.kept, m)) = Tokens(a.kept) + m.tokens /\ Tokens(a.kept) \in Int
      BY <3>2, TokensStep
    <3>4. OfRole(TRUE, Append(a.kept, m)) = OfRole(TRUE, a.kept)
      BY <2>1, <3>2, RoleStep DEF Keep
    <3>5. a.left - m.tokens = limit - Tokens(Append(a.kept, m)) /\ a.left - m.tokens >= 0
      BY <2>2, <2>3, <3>2, <3>3 DEF Fits
    <3>6. /\ Take(a, m).left = a.left - m.tokens /\ Take(a, m).kept = Append(a.kept, m)
      BY <3>1
    <3>7. Fits(systems, limit, Take(a, m))
      BY <2>2, <3>4, <3>5, <3>6 DEF Fits
    <3> QED
      BY <2>2, <3>7
  <2>4. CASE ~(m.tokens <= a.left)
    BY <2>2, <2>4 DEF Take
  <2> QED
    BY <2>3, <2>4
<1> HIDE DEF P
<1>3. s \in P
  BY <1>1, <1>2, SequenceInduction
<1> HIDE DEF base
<1>4. Fits(systems, limit, FoldLeft(Take, base, s)) /\ FoldLeft(Take, base, s) \in Takings
  <2>1. FoldLeft(Take, base, s) \in Takings
    <3>1. CASE s = <<>>
      BY <1>0, <3>1, TakeStep
    <3>2. CASE s # <<>>
      <4>1. s[1] \in Messages
        BY <3>2
      <4> QED
        BY <1>0, <4>1, TakeStep
    <3> QED
      BY <3>1, <3>2
  <2> QED
    BY <1>3, <2>1 DEF P
<1> QED
  BY <1>4 DEF base

\* Trimmed messages are within the limit, or the system messages, which are
\* all still there, are not.
LEMMA TrimmedFits ==
    ASSUME NEW s \in Seq(Messages), NEW limit \in Int
    PROVE  LET mine == TrimMessages(s, limit)
           IN /\ mine \in Seq(Messages) /\ OfRole(TRUE, mine) = OfRole(TRUE, s)
              /\ Tokens(mine) <= limit \/ Tokens(OfRole(TRUE, mine)) > limit
<1> DEFINE systems == OfRole(TRUE, s)
           rest == OfRole(FALSE, s)
           taken == FoldLeft(Take, [left |-> limit - Tokens(systems), kept |-> systems], rest)
<1>1. /\ systems \in Seq(Messages) /\ rest \in Seq(Messages) /\ OfRole(TRUE, systems) = systems
      /\ \A i \in DOMAIN rest : rest[i].system = FALSE
  <2>2. systems \in Seq(Messages) /\ rest \in Seq(Messages)
    BY RoleTyped
  <2> QED
    BY <2>2, RoleOfRole
<1>2. taken \in Takings /\ Fits(systems, limit, taken)
  <2> HIDE DEF systems, rest
  <2> QED
    BY <1>1, TakingFits
<1>3. TrimMessages(s, limit) = taken.kept
  BY DEF TrimMessages
<1> HIDE DEF taken, systems
<1>4. taken.kept \in Seq(Messages) /\ Tokens(taken.kept) \in Nat
  BY <1>2, TokensTyped DEF Takings
<1>5. Tokens(taken.kept) <= limit \/ Tokens(systems) > limit
  BY <1>2, <1>4 DEF Fits
<1> QED
  BY <1>2, <1>3, <1>4, <1>5 DEF Fits, systems

\* The calls of the managers, by what they have been told and have found.
ChatRows == [status : {"none", "active", "ended", "gone"}, count : Nat, tokens : Nat]
OfChat == [op : {"start", "end", "ended", "delete"}, of : Chats]
Adding == [op : {"store", "count"}, of : Chats, message : Messages, found : ChatRows]
Pushing == [op : {"push"}, message : Messages]
Looking == [op : {"window"}, limit : Limits, own : BOOLEAN, session : Chats \cup {0},
            messages : Seq(Messages), total : Nat, memories : Nat]
Shown == [op : {"built"}, limit : Limits, memories : Nat, late : BOOLEAN,
          messages : Seq(Messages), total : Nat]
ChatCalls == {NoCall, Past} \cup OfChat \cup Adding \cup Pushing \cup Looking \cup Shown

ChatTyped ==
    /\ chat \in [Chats -> ChatRows]
    /\ context \in [Chats -> [last : Seq(Messages), tokens : Nat]]
    /\ inUse \in Chats \cup {0}
    /\ chatCall \in [Calls -> ChatCalls]

\* The messages add up to the total, which is within the limit or the system
\* messages are not.
SizeTells(messages, total, limit) ==
    /\ total = Tokens(messages)
    /\ total <= limit \/ Tokens(OfRole(TRUE, messages)) > limit

\* A conversation whose session is still to be opened is active and nobody
\* else's; every other call is about one that is known.
CallTells(k) ==
    /\ Calling(k, "start") =>
         /\ chat[chatCall[k].of].status = "active"
         /\ \A j \in Calls \ {k} : Calling(j, "start") => chatCall[j].of # chatCall[k].of
    /\ chatCall[k].op \in {"store", "count", "end", "ended", "delete"} => Known(chatCall[k].of)
    /\ Calling(k, "window") =>
         /\ SizeTells(chatCall[k].messages, chatCall[k].total, chatCall[k].limit)
         /\ ~chatCall[k].own => chatCall[k].session # 0
ConversationInv ==
    ChatTyped /\ SessionIsOpen /\ ContextCounted /\ WindowFits /\ \A k \in Calls : CallTells(k)

\* What a call is by its op.
LEMMA CallForms ==
    ASSUME NEW x \in ChatCalls
    PROVE  /\ x.op \in {"start", "end", "ended", "delete"} => x \in OfChat
           /\ x.op \in {"store", "count"} => x \in Adding
           /\ x.op = "push" => x \in Pushing
           /\ x.op = "window" => x \in Looking
           /\ x.op = "built" => x \in Shown
BY DEF ChatCalls, OfChat, Adding, Pushing, Looking, Shown, NoCall, Past

\* A call goes on, and the rows of conversations nobody knows of stay.
LEMMA CallMoves ==
    ASSUME ConversationInv, NEW k \in Calls, NEW x \in ChatCalls, x.op # "start", Become(k, x),
           chat' \in [Chats -> ChatRows],
           \A c \in Chats : chat[c].status # "none" => chat'[c].status # "none",
           \A c \in Chats : ~Known(c) => chat'[c] = chat[c],
           x.op \in {"store", "count", "end", "ended", "delete"} => Known(x.of),
           x.op = "window" =>
               SizeTells(x.messages, x.total, x.limit) /\ (~x.own => x.session # 0),
           x.op = "built" =>
               x.late \/ SizeTells(x.messages, x.total - x.memories, x.limit - x.memories),
           inUse' \in Chats \cup {0}, SessionIsOpen',
           context' \in [Chats -> [last : Seq(Messages), tokens : Nat]], ContextCounted'
    PROVE  ConversationInv'
<1>1. chatCall' \in [Calls -> ChatCalls] /\ chatCall'[k] = x
      /\ \A j \in Calls \ {k} : chatCall'[j] = chatCall[j]
  BY DEF ConversationInv, ChatTyped, Become
<1>2. ChatTyped'
  BY <1>1 DEF ChatTyped
<1>3. \A j \in Calls : Calling(j, "start")' => j # k /\ Calling(j, "start") /\ chatCall'[j] = chatCall[j]
  BY <1>1 DEF Calling
<1>4. ASSUME NEW c \in Chats, Known(c) PROVE Known(c)'
  BY <1>3, <1>4 DEF Known
<1>5. ASSUME NEW j \in Calls PROVE CallTells(j)'
  <2>1. CASE j = k
    <3>1. ~Calling(k, "start")'
      BY <1>1 DEF Calling
    <3>2. x.op \in {"store", "count", "end", "ended", "delete"} => x.of \in Chats
      BY CallForms DEF OfChat, Adding
    <3>3. x.op \in {"store", "count", "end", "ended", "delete"} => Known(x.of)'
      BY <1>4, <3>2
    <3> QED
      BY <1>1, <2>1, <3>1, <3>3 DEF CallTells, Calling
  <2>2. CASE j # k
    <3>0. chatCall'[j] = chatCall[j] /\ CallTells(j) /\ chatCall[j] \in ChatCalls
      BY <1>1, <2>2 DEF ConversationInv, ChatTyped
    <3>1. ASSUME Calling(j, "start")
          PROVE  /\ chat'[chatCall[j].of].status = "active"
                 /\ \A i \in Calls \ {j} : Calling(i, "start")' => chatCall'[i].of # chatCall[j].of
      <4>1. chatCall[j].of \in Chats /\ ~Known(chatCall[j].of)
        BY <3>0, <3>1, CallForms DEF OfChat, Calling, Known
      <4> QED
        BY <1>3, <3>0, <3>1, <4>1 DEF CallTells
    <3>2. chatCall[j].op \in {"store", "count", "end", "ended", "delete"} => Known(chatCall[j].of)'
      BY <1>4, <3>0, CallForms DEF CallTells, OfChat, Adding
    <3> QED
      BY <3>0, <3>1, <3>2 DEF CallTells, Calling
  <2> QED
    BY <2>1, <2>2
<1>6. WindowFits'
  <2> SUFFICES ASSUME NEW j \in Calls, Calling(j, "built")'
               PROVE  LET y == chatCall'[j]
                      IN \/ y.late
                         \/ /\ y.total = Tokens(y.messages) + y.memories
                            /\ y.total <= y.limit \/ Tokens(OfRole(TRUE, y.messages)) + y.memories > y.limit
    BY DEF WindowFits
  <2>1. CASE j = k
    <3>1. x.op = "built" /\ x \in Shown
      BY <1>1, <2>1, CallForms DEF Calling
    <3>2. x.messages \in Seq(Messages) /\ x.total \in Nat /\ x.memories \in Nat /\ x.limit \in Nat
      BY <3>1, ConversationAssumption DEF Shown
    <3>3. Tokens(x.messages) \in Nat
      BY <3>2, TokensTyped
    <3>4. Tokens(OfRole(TRUE, x.messages)) \in Nat
      BY <3>2, RoleTyped, TokensTyped
    <3>5. \/ x.late
          \/ /\ x.total - x.memories = Tokens(x.messages)
             /\ \/ x.total - x.memories <= x.limit - x.memories
                \/ Tokens(OfRole(TRUE, x.messages)) > x.limit - x.memories
      BY <3>1 DEF SizeTells
    <3>6. \/ x.late
          \/ /\ x.total = Tokens(x.messages) + x.memories
             /\ x.total <= x.limit \/ Tokens(OfRole(TRUE, x.messages)) + x.memories > x.limit
      <4> DEFINE all == Tokens(x.messages)
                 fixed == Tokens(OfRole(TRUE, x.messages))
                 total == x.total
                 room == x.limit
                 beside == x.memories
      <4>1. all \in Nat /\ fixed \in Nat /\ total \in Nat /\ room \in Nat /\ beside \in Nat
        BY <3>2, <3>3, <3>4
      <4>2. x.late \/ (total - beside = all /\ (total - beside <= room - beside \/ fixed > room - beside))
        BY <3>5
      <4> HIDE DEF all, fixed, total, room, beside
      <4>3. x.late \/ (total = all + beside /\ (total <= room \/ fixed + beside > room))
        BY <4>1, <4>2
      <4> QED
        BY <4>3 DEF all, fixed, total, room, beside
    <3> QED
      BY <1>1, <2>1, <3>6
  <2>2. CASE j # k
    <3>1. chatCall'[j] = chatCall[j] /\ Calling(j, "built")
      BY <1>1, <2>2 DEF Calling
    <3> QED
      BY <3>1 DEF ConversationInv, WindowFits
  <2> QED
    BY <2>1, <2>2
<1> QED
  BY <1>2, <1>5, <1>6 DEF ConversationInv

\* A session nobody changes stays open when no conversation does but through
\* a call that has ended it.
LEMMA SessionStays ==
    ASSUME ConversationInv, NEW k \in Calls, NEW x \in ChatCalls, Become(k, x), ~Calling(k, "ended"),
           inUse' = inUse,
           inUse # 0 => chat'[inUse].status = chat[inUse].status
                        \/ chat'[inUse].status = "active" \/ (x.op = "ended" /\ x.of = inUse)
    PROVE  SessionIsOpen'
<1>1. chatCall'[k] = x /\ \A j \in Calls \ {k} : chatCall'[j] = chatCall[j]
  BY DEF ConversationInv, ChatTyped, Become
<1> SUFFICES ASSUME inUse # 0, chat'[inUse].status # "active"
             PROVE  \E j \in Calls : Calling(j, "ended")' /\ chatCall'[j].of = inUse
  BY DEF SessionIsOpen
<1>2. CASE chat'[inUse].status = chat[inUse].status
  <2>1. PICK j \in Calls : Calling(j, "ended") /\ chatCall[j].of = inUse
    BY <1>2 DEF ConversationInv, SessionIsOpen
  <2> QED
    BY <1>1, <2>1 DEF Calling
<1>3. CASE x.op = "ended" /\ x.of = inUse
  BY <1>1, <1>3 DEF Calling
<1> QED
  BY <1>2, <1>3

\* A session that is taken out of the map, or stays because it is another's.
LEMMA SessionCloses ==
    ASSUME ConversationInv, NEW k \in Calls, Become(k, Past), NEW c \in Chats,
           Calling(k, "ended") => chatCall[k].of = c, inUse' = InUseAfter(c),
           \A d \in Chats \ {c} : chat'[d] = chat[d]
    PROVE  SessionIsOpen' /\ inUse' \in Chats \cup {0}
<1>1. chatCall'[k] = Past /\ \A j \in Calls \ {k} : chatCall'[j] = chatCall[j]
  BY DEF ConversationInv, ChatTyped, Become
<1>2. inUse' \in Chats \cup {0} /\ (inUse' # 0 => inUse' = inUse /\ inUse # c)
  BY DEF InUseAfter, ConversationInv, ChatTyped
<1> SUFFICES ASSUME inUse' # 0, chat'[inUse'].status # "active"
             PROVE  \E j \in Calls : Calling(j, "ended")' /\ chatCall'[j].of = inUse'
  BY <1>2 DEF SessionIsOpen
<1>3. inUse' = inUse /\ inUse \in Chats \ {c} /\ chat[inUse].status # "active"
  BY <1>2 DEF ConversationInv, ChatTyped
<1>4. PICK j \in Calls : Calling(j, "ended") /\ chatCall[j].of = inUse
  BY <1>2, <1>3 DEF ConversationInv, SessionIsOpen
<1> QED
  BY <1>1, <1>3, <1>4 DEF Calling

\* The message that is pushed is counted, and the one that falls out no longer.
LEMMA PushCounts ==
    ASSUME ChatTyped, ContextCounted, NEW m \in Messages, context' = PushMessage(m)
    PROVE  context' \in [Chats -> [last : Seq(Messages), tokens : Nat]] /\ ContextCounted'
<1>1. CASE inUse = 0
  BY <1>1 DEF PushMessage, ChatTyped, ContextCounted
<1>2. CASE inUse # 0
  <2> DEFINE last == context[inUse].last
             now == Append(last, m)
             out == IF Len(now) > MaxMessages THEN now[1].tokens ELSE 0
             left == context[inUse].tokens + m.tokens - out
             new == [last |-> Kept(now), tokens |-> IF left < 0 THEN 0 ELSE left]
  <2>1. inUse \in Chats /\ last \in Seq(Messages) /\ context[inUse].tokens = Tokens(last)
    BY <1>2 DEF ChatTyped, ContextCounted
  <2>2. context' = [context EXCEPT ![inUse] = new]
    BY <1>2 DEF PushMessage
  <2>3. now \in Seq(Messages) /\ now # <<>> /\ Len(now) \in Nat
    BY <2>1
  <2>4. Tokens(now) = Tokens(last) + m.tokens /\ Tokens(last) \in Nat /\ m.tokens \in Nat
    BY <2>1, TokensStep, TokensTyped, SizesTyped
  <2> HIDE DEF last, now
  <2>5. now[1] \in Messages /\ Tail(now) \in Seq(Messages)
    BY <2>3
  <2>6. Tokens(now) = now[1].tokens + Tokens(Tail(now)) /\ now[1].tokens \in Nat
        /\ Tokens(Tail(now)) \in Nat
    BY <2>3, <2>5, TokensOfTail, SizesTyped, TokensTyped
  <2>7. Kept(now) \in Seq(Messages) /\ left = Tokens(Kept(now)) /\ left \in Nat
    <3>1. CASE Len(now) > MaxMessages
      BY SMTT(60), <2>1, <2>4, <2>5, <2>6, <3>1 DEF Kept
    <3>2. CASE ~(Len(now) > MaxMessages)
      BY <2>1, <2>3, <2>4, <3>2 DEF Kept
    <3> QED
      BY <3>1, <3>2
  <2> HIDE DEF left
  <2>8. new.last = Kept(now) /\ new.tokens = left /\ new \in [last : Seq(Messages), tokens : Nat]
    BY <2>7
  <2> HIDE DEF new
  <2> QED
    BY <2>1, <2>2, <2>7, <2>8 DEF ChatTyped, ContextCounted
<1> QED
  BY <1>1, <1>2

\* What the session holds.
SessionMessages == IF inUse = 0 THEN <<>> ELSE context[inUse].last
\* The memories are some number of tokens.
LEMMA MemoriesCounted == \A found : MemoryTokens(found) \in Nat
<1> SUFFICES ASSUME NEW found PROVE MemoryTokens(found) \in Nat
  OBVIOUS
<1>1. \A kind : IsFiniteSet({m \in Memories : found[m].kind = kind})
  BY FS_Subset, ConversationAssumption
<1>2. \A kind : Cardinality({m \in Memories : found[m].kind = kind}) \in Nat
  BY <1>1, FS_CardinalityType
<1>3. PICK n \in Nat : n = Cardinality({m \in Memories : found[m].kind = "conversation summary"})
  BY <1>2
<1>4. PICK i \in {0, 1} :
        i = IF {m \in Memories : found[m].kind = "organization preferences"} = {} THEN 0 ELSE 1
  OBVIOUS
<1>5. PICK j \in {0, 1} : j = IF {m \in Memories : found[m].kind = "user preferences"} = {} THEN 0 ELSE 1
  OBVIOUS
<1>6. MemoryTokens(found) = i + j + n
  BY <1>3, <1>4, <1>5 DEF MemoryTokens
<1> QED
  BY <1>6

\* What is so of the conversations stays when they do.
LEMMA ConversationStays ==
    ASSUME ConversationInv, UNCHANGED <<chat, context, inUse, chatCall>> PROVE ConversationInv'
<1> USE DEF ConversationInv
<1>1. ChatTyped' /\ SessionIsOpen' /\ ContextCounted' /\ WindowFits'
  BY DEF ChatTyped, SessionIsOpen, ContextCounted, WindowFits, Calling
<1>2. \A k \in Calls : CallTells(k)'
  BY DEF CallTells, Calling, Known
<1> QED
  BY <1>1, <1>2

\* Each step of the conversations keeps what is so of them.
LEMMA ConversationStep == ASSUME ConversationInv, ConversationNext PROVE ConversationInv'
<1> USE DEF ConversationInv
<1>a. ChatTyped
  OBVIOUS
<1>b. ASSUME UNCHANGED context
      PROVE  context' \in [Chats -> [last : Seq(Messages), tokens : Nat]] /\ ContextCounted'
  BY <1>b DEF ChatTyped, ContextCounted
<1>c. ASSUME UNCHANGED chat
      PROVE  /\ chat' \in [Chats -> ChatRows]
             /\ \A c \in Chats : chat'[c] = chat[c]
  BY <1>c DEF ChatTyped
<1>d. ASSUME NEW k \in Calls, chatCall[k] = NoCall PROVE ~Calling(k, "ended")
  BY <1>d DEF NoCall, Calling
<1>e. inUse \in Chats \cup {0} /\ \A k \in Calls : chatCall[k] \in ChatCalls
  BY DEF ChatTyped
<1>f. Past \in ChatCalls /\ Past.op = "past"
  BY DEF ChatCalls, Past
<1>1. ASSUME NEW k \in Calls, StartConversation(k) PROVE ConversationInv'
  <2>1. PICK c \in Chats :
          /\ chat[c].status = "none" /\ chat' = [chat EXCEPT ![c].status = "active"]
          /\ Become(k, [op |-> "start", of |-> c])
    BY <1>1 DEF StartConversation
  <2>2. UNCHANGED <<context, inUse>> /\ chatCall[k] = NoCall
    BY <1>1 DEF StartConversation, Unused
  <2>3. PICK x : x = [op |-> "start", of |-> c]
    OBVIOUS
  <2>4. x \in ChatCalls /\ x.op = "start" /\ x.of = c
    BY <2>3 DEF ChatCalls, OfChat
  <2>5. chatCall' \in [Calls -> ChatCalls] /\ chatCall'[k] = x
        /\ \A j \in Calls \ {k} : chatCall'[j] = chatCall[j]
    BY <2>1, <2>3, <2>4 DEF ChatTyped, Become
  <2>6. chat[c] \in ChatRows
    BY DEF ChatTyped
  <2>7. /\ chat' \in [Chats -> ChatRows] /\ chat'[c].status = "active"
        /\ \A d \in Chats \ {c} : chat'[d] = chat[d]
    BY <2>1, <2>6 DEF ChatTyped, ChatRows
  <2>8. ~Known(c)
    BY <2>1 DEF Known
  <2>9. ASSUME NEW d \in Chats, Known(d) PROVE d # c /\ Known(d)'
    <3>1. d # c /\ chat'[d].status # "none"
      BY <2>7, <2>8, <2>9 DEF Known
    <3>2. ASSUME NEW j \in Calls, chatCall'[j].op = "start" PROVE chatCall'[j].of # d
      BY <2>4, <2>5, <2>9, <3>1, <3>2 DEF Known, Calling
    <3> QED
      BY <3>1, <3>2 DEF Known, Calling
  <2>10. ChatTyped'
    BY <1>b, <1>e, <2>2, <2>5, <2>7 DEF ChatTyped
  <2>11. SessionIsOpen'
    <3> SUFFICES ASSUME inUse # 0, chat'[inUse].status # "active"
                 PROVE  \E j \in Calls : Calling(j, "ended")' /\ chatCall'[j].of = inUse
      BY <2>2 DEF SessionIsOpen
    <3>1. inUse \in Chats \ {c} /\ chat[inUse].status # "active"
      BY <1>e, <2>7
    <3>2. PICK j \in Calls : Calling(j, "ended") /\ chatCall[j].of = inUse
      BY <3>1 DEF SessionIsOpen
    <3>3. j # k
      BY <1>d, <2>2, <3>2
    <3> QED
      BY <2>5, <3>2, <3>3 DEF Calling
  <2>12. WindowFits'
    <3>1. ASSUME NEW j \in Calls, Calling(j, "built")' PROVE Calling(j, "built") /\ chatCall'[j] = chatCall[j]
      BY <2>4, <2>5, <3>1 DEF Calling
    <3> QED
      BY <3>1 DEF WindowFits
  <2>13. ASSUME NEW j \in Calls PROVE CallTells(j)'
    <3>1. CASE j = k
      <4>1. \A i \in Calls \ {k} : Calling(i, "start")' => chatCall'[i].of # c
        <5> SUFFICES ASSUME NEW i \in Calls \ {k}, Calling(i, "start")' PROVE chatCall'[i].of # c
          OBVIOUS
        <5>1. Calling(i, "start") /\ chatCall'[i] = chatCall[i]
          BY <2>5 DEF Calling
        <5>2. chat[chatCall[i].of].status = "active"
          BY <5>1 DEF CallTells
        <5> QED
          BY <2>1, <5>1, <5>2
      <4> QED
        BY <2>4, <2>5, <2>7, <3>1, <4>1 DEF CallTells, Calling
    <3>2. CASE j # k
      <4>0. chatCall'[j] = chatCall[j] /\ CallTells(j) /\ chatCall[j] \in ChatCalls
        BY <1>e, <2>5, <3>2
      <4>1. ASSUME Calling(j, "start")
            PROVE  /\ chat'[chatCall[j].of].status = "active"
                   /\ \A i \in Calls \ {j} : Calling(i, "start")' => chatCall'[i].of # chatCall[j].of
        <5>1. chatCall[j].of \in Chats /\ chat[chatCall[j].of].status = "active"
          BY <4>0, <4>1, CallForms DEF OfChat, Calling, CallTells
        <5>2. chatCall[j].of # c
          BY <2>1, <5>1
        <5>3. \A i \in Calls \ {j} : Calling(i, "start")' => i = k \/ (Calling(i, "start") /\ chatCall'[i] = chatCall[i])
          BY <2>5 DEF Calling
        <5> QED
          BY <2>4, <2>5, <2>7, <4>0, <4>1, <5>1, <5>2, <5>3 DEF CallTells
      <4>2. chatCall[j].op \in {"store", "count", "end", "ended", "delete"} => Known(chatCall[j].of)'
        BY <2>9, <4>0, CallForms DEF CallTells, OfChat, Adding
      <4> QED
        BY <4>0, <4>1, <4>2 DEF CallTells, Calling
    <3> QED
      BY <3>1, <3>2
  <2> QED
    BY <1>b, <2>2, <2>10, <2>11, <2>12, <2>13
<1>2. ASSUME NEW k \in Calls, OpenSession(k) PROVE ConversationInv'
  <2> DEFINE c == chatCall[k].of
  <2>1. Calling(k, "start") /\ c \in Chats /\ chat[c].status = "active" /\ ~Calling(k, "ended")
    BY <1>2, <1>e, CallForms DEF OpenSession, OfChat, CallTells, Calling
  <2>2. inUse' = c /\ Become(k, Past) /\ UNCHANGED <<chat, context>>
    BY <1>2 DEF OpenSession
  <2> HIDE DEF c
  <2>3. SessionIsOpen'
    BY <2>1, <2>2 DEF SessionIsOpen
  <2> QED
    BY <1>b, <1>c, <1>f, <2>1, <2>2, <2>3, CallMoves
<1>3. ASSUME NEW k \in Calls, ReadForMessage(k) PROVE ConversationInv'
  <2>1. PICK c \in Chats, n \in Sizes, s \in BOOLEAN :
          /\ Known(c)
          /\ Become(k, IF chat[c].status # "active" THEN Past
                       ELSE [op |-> "store", of |-> c, message |-> [tokens |-> n, system |-> s],
                             found |-> chat[c]])
    BY <1>3 DEF ReadForMessage
  <2>2. UNCHANGED <<chat, context, inUse>> /\ ~Calling(k, "ended")
    BY <1>3, <1>d DEF ReadForMessage, Unused
  <2>3. PICK x : x = IF chat[c].status # "active" THEN Past
                       ELSE [op |-> "store", of |-> c, message |-> [tokens |-> n, system |-> s],
                             found |-> chat[c]]
    OBVIOUS
  <2>4. x \in ChatCalls /\ x.op \in {"past", "store"} /\ (x.op = "store" => x.of = c)
    <3>1. chat[c] \in ChatRows /\ [tokens |-> n, system |-> s] \in Messages
      BY DEF ChatTyped, Messages
    <3>2. [op |-> "store", of |-> c, message |-> [tokens |-> n, system |-> s], found |-> chat[c]] \in Adding
      BY <3>1 DEF Adding
    <3> QED
      BY <1>f, <2>3, <3>2 DEF ChatCalls, Past
  <2>5. Become(k, x)
    BY <2>1, <2>3
  <2>6. SessionIsOpen'
    BY <1>c, <1>e, <2>2, <2>4, <2>5, SessionStays
  <2> QED
    BY <1>b, <1>c, <1>e, <2>1, <2>2, <2>4, <2>5, <2>6, CallMoves
<1>4. ASSUME NEW k \in Calls, StoreMessage(k) PROVE ConversationInv'
  <2> DEFINE x == [chatCall[k] EXCEPT !.op = "count"]
  <2>1. Calling(k, "store") /\ chatCall[k] \in Adding /\ ~Calling(k, "ended")
    BY <1>4, <1>e, CallForms DEF StoreMessage, Calling
  <2>2. UNCHANGED <<chat, context, inUse>> /\ Become(k, x)
    BY <1>4 DEF StoreMessage
  <2>3. x \in Adding /\ x.op = "count" /\ x.of = chatCall[k].of
    BY <2>1 DEF Adding
  <2>4. x \in ChatCalls /\ Known(x.of)
    BY <2>1, <2>3 DEF ChatCalls, CallTells, Calling
  <2> HIDE DEF x
  <2>5. SessionIsOpen'
    BY <1>c, <1>e, <2>1, <2>2, <2>4, SessionStays
  <2> QED
    BY <1>b, <1>c, <1>e, <2>2, <2>3, <2>4, <2>5, CallMoves
<1>5. ASSUME NEW k \in Calls, CountMessage(k) PROVE ConversationInv'
  <2> DEFINE old == chatCall[k]
             x == [op |-> "push", message |-> old.message]
  <2>1. Calling(k, "count") /\ old \in Adding /\ ~Calling(k, "ended")
    BY <1>5, <1>e, CallForms DEF CountMessage, Calling
  <2>2. UNCHANGED <<context, inUse>> /\ Become(k, x)
        /\ chat' = IF chat[old.of].status = "gone" THEN chat
                   ELSE [chat EXCEPT ![old.of].count = old.found.count + 1,
                                     ![old.of].tokens = old.found.tokens + old.message.tokens]
    BY <1>5 DEF CountMessage
  <2>3. old.of \in Chats /\ old.message \in Messages /\ old.found.count \in Nat /\ old.found.tokens \in Nat
    BY <2>1 DEF Adding, ChatRows
  <2>4. x \in ChatCalls /\ x.op = "push" /\ Known(old.of)
    BY <2>1, <2>3 DEF ChatCalls, Pushing, CallTells, Calling
  <2>5. old.message.tokens \in Nat
    BY <2>3, SizesTyped
  <2> HIDE DEF x, old
  <2>6. /\ chat' \in [Chats -> ChatRows]
        /\ \A c \in Chats : chat'[c].status = chat[c].status /\ (c # old.of => chat'[c] = chat[c])
    <3>1. CASE chat[old.of].status = "gone"
      BY <2>2, <3>1 DEF ChatTyped
    <3>2. CASE chat[old.of].status # "gone"
      <4>0. PICK n \in Nat, t \in Nat :
              n = old.found.count + 1 /\ t = old.found.tokens + old.message.tokens
        BY <2>3, <2>5
      <4> DEFINE row == [chat[old.of] EXCEPT !.count = n, !.tokens = t]
      <4>1. chat[old.of] \in ChatRows
        BY <2>3 DEF ChatTyped
      <4>2. row \in ChatRows /\ row.status = chat[old.of].status
        BY <4>1 DEF ChatRows
      <4>3. chat' = [chat EXCEPT ![old.of] = row]
        BY <2>2, <3>2, <4>0
      <4> HIDE DEF row
      <4> QED
        BY <2>3, <4>2, <4>3 DEF ChatTyped
    <3> QED
      BY <3>1, <3>2
  <2>7. SessionIsOpen'
    BY <1>e, <2>1, <2>2, <2>4, <2>6, SessionStays
  <2> QED
    BY <1>b, <1>e, <2>2, <2>4, <2>6, <2>7, CallMoves
<1>6. ASSUME NEW k \in Calls, PushToContext(k) PROVE ConversationInv'
  <2>1. Calling(k, "push") /\ chatCall[k] \in Pushing /\ ~Calling(k, "ended")
    BY <1>6, <1>e, CallForms DEF PushToContext, Calling
  <2>2. UNCHANGED <<chat, inUse>> /\ Become(k, Past) /\ context' = PushMessage(chatCall[k].message)
    BY <1>6 DEF PushToContext
  <2>3. chatCall[k].message \in Messages
    BY <2>1 DEF Pushing
  <2>4. SessionIsOpen'
    BY <1>c, <1>e, <1>f, <2>1, <2>2, SessionStays
  <2>5. context' \in [Chats -> [last : Seq(Messages), tokens : Nat]] /\ ContextCounted'
    BY <2>2, <2>3, PushCounts
  <2> QED
    BY <1>c, <1>e, <1>f, <2>2, <2>4, <2>5, CallMoves
<1>7. ASSUME NEW k \in Calls, ReadToEnd(k) PROVE ConversationInv'
  <2>1. PICK c \in Chats :
          Known(c) /\ Become(k, IF chat[c].status = "gone" THEN Past ELSE [op |-> "end", of |-> c])
    BY <1>7 DEF ReadToEnd
  <2>2. UNCHANGED <<chat, context, inUse>> /\ ~Calling(k, "ended")
    BY <1>7, <1>d DEF ReadToEnd, Unused
  <2>3. PICK x : x = IF chat[c].status = "gone" THEN Past ELSE [op |-> "end", of |-> c]
    OBVIOUS
  <2>4. x \in ChatCalls /\ x.op \in {"past", "end"} /\ (x.op = "end" => x.of = c)
    BY <1>f, <2>3 DEF ChatCalls, OfChat, Past
  <2>5. Become(k, x)
    BY <2>1, <2>3
  <2>6. SessionIsOpen'
    BY <1>c, <1>e, <2>2, <2>4, <2>5, SessionStays
  <2> QED
    BY <1>b, <1>c, <1>e, <2>1, <2>2, <2>4, <2>5, <2>6, CallMoves
<1>8. ASSUME NEW k \in Calls, EndConversation(k) PROVE ConversationInv'
  <2> DEFINE c == chatCall[k].of
             x == [op |-> "ended", of |-> c]
  <2>1. Calling(k, "end") /\ c \in Chats /\ Known(c) /\ ~Calling(k, "ended")
    BY <1>8, <1>e, CallForms DEF EndConversation, OfChat, CallTells, Calling
  <2>2. UNCHANGED <<context, inUse>> /\ Become(k, x)
        /\ chat' = IF chat[c].status = "gone" THEN chat ELSE [chat EXCEPT ![c].status = "ended"]
    BY <1>8 DEF EndConversation
  <2>3. x \in ChatCalls /\ x.op = "ended" /\ x.of = c
    BY <2>1 DEF ChatCalls, OfChat
  <2> HIDE DEF x, c
  <2>4. /\ chat' \in [Chats -> ChatRows]
        /\ \A d \in Chats : (d # c => chat'[d] = chat[d])
        /\ chat'[c].status # "none"
    BY <2>1, <2>2 DEF ChatTyped, ChatRows, Known
  <2>5. inUse # 0 => chat'[inUse].status = chat[inUse].status \/ inUse = c
    BY <1>e, <2>4
  <2>6. SessionIsOpen'
    BY <1>e, <2>1, <2>2, <2>3, <2>5, SessionStays
  <2>7. \A d \in Chats : chat[d].status # "none" => chat'[d].status # "none"
    BY <2>4
  <2>8. \A d \in Chats : ~Known(d) => chat'[d] = chat[d]
    BY <2>1, <2>4
  <2> QED
    BY <1>b, <1>e, <2>1, <2>2, <2>3, <2>4, <2>6, <2>7, <2>8, CallMoves
<1>9. ASSUME NEW k \in Calls, CloseSession(k) PROVE ConversationInv'
  <2> DEFINE c == chatCall[k].of
  <2>1. Calling(k, "ended") /\ c \in Chats
    BY <1>9, <1>e, CallForms DEF CloseSession, OfChat, Calling
  <2>2. UNCHANGED <<chat, context>> /\ Become(k, Past) /\ inUse' = InUseAfter(c)
    BY <1>9 DEF CloseSession
  <2>3. SessionIsOpen' /\ inUse' \in Chats \cup {0}
    BY <1>c, <2>1, <2>2, SessionCloses
  <2> HIDE DEF c
  <2> QED
    BY <1>b, <1>c, <1>f, <2>2, <2>3, CallMoves
<1>10. ASSUME NEW k \in Calls, DeleteMessages(k) PROVE ConversationInv'
  <2>1. PICK c \in Chats : Known(c) /\ Become(k, [op |-> "delete", of |-> c])
    BY <1>10 DEF DeleteMessages
  <2>2. UNCHANGED <<chat, context, inUse>> /\ ~Calling(k, "ended")
    BY <1>10, <1>d DEF DeleteMessages, Unused
  <2>3. PICK x : x = [op |-> "delete", of |-> c]
    OBVIOUS
  <2>4. x \in ChatCalls /\ x.op = "delete" /\ x.of = c /\ Become(k, x)
    BY <2>1, <2>3 DEF ChatCalls, OfChat
  <2>5. SessionIsOpen'
    BY <1>c, <1>e, <2>2, <2>4, SessionStays
  <2> QED
    BY <1>b, <1>c, <1>e, <2>1, <2>2, <2>4, <2>5, CallMoves
<1>11. ASSUME NEW k \in Calls, DeleteConversation(k) PROVE ConversationInv'
  <2> DEFINE c == chatCall[k].of
  <2>1. Calling(k, "delete") /\ c \in Chats /\ Known(c) /\ ~Calling(k, "ended")
    BY <1>11, <1>e, CallForms DEF DeleteConversation, OfChat, CallTells, Calling
  <2>2. UNCHANGED context /\ Become(k, Past) /\ inUse' = InUseAfter(c)
        /\ chat' = [chat EXCEPT ![c].status = "gone"]
    BY <1>11 DEF DeleteConversation
  <2> HIDE DEF c
  <2>3. /\ chat' \in [Chats -> ChatRows]
        /\ \A d \in Chats : (d # c => chat'[d] = chat[d])
        /\ chat'[c].status = "gone"
    BY <2>1, <2>2 DEF ChatTyped, ChatRows
  <2>4. SessionIsOpen' /\ inUse' \in Chats \cup {0}
    BY <2>1, <2>2, <2>3, SessionCloses
  <2>5. \A d \in Chats : chat[d].status # "none" => chat'[d].status # "none"
    BY <2>3
  <2>6. \A d \in Chats : ~Known(d) => chat'[d] = chat[d]
    BY <2>1, <2>3
  <2> QED
    BY <1>b, <1>f, <2>2, <2>3, <2>4, <2>5, <2>6, CallMoves
<1>12. ASSUME NEW k \in Calls, BeginWindow(k) PROVE ConversationInv'
  <2> DEFINE last == IF inUse = 0 THEN <<>> ELSE context[inUse].last
  <2>1. PICK limit \in Limits :
          LET trims == Tokens(last) > limit
              mine == TrimMessages(last, limit)
              messages == IF trims THEN mine ELSE last
          IN Become(k, [op |-> "window", limit |-> limit, own |-> trims \/ inUse = 0,
                        session |-> inUse, messages |-> messages, total |-> Tokens(messages),
                        memories |-> MemoryTokens(FindMemories)])
    BY <1>12 DEF BeginWindow
  <2>2. UNCHANGED <<chat, context, inUse>> /\ ~Calling(k, "ended")
    BY <1>12, <1>d DEF BeginWindow, Unused
  <2>3. last \in Seq(Messages)
    <3>1. <<>> \in Seq(Messages)
      OBVIOUS
    <3> QED
      BY <1>e, <3>1 DEF ChatTyped
  <2> HIDE DEF last
  <2>4. limit \in Int
    BY ConversationAssumption
  <2>5. PICK messages : messages = IF Tokens(last) > limit THEN TrimMessages(last, limit) ELSE last
    OBVIOUS
  <2>6. messages \in Seq(Messages) /\ SizeTells(messages, Tokens(messages), limit)
    <3>1. CASE Tokens(last) > limit
      BY <2>3, <2>4, <2>5, <3>1, TrimmedFits DEF SizeTells
    <3>2. CASE ~(Tokens(last) > limit)
      <4>1. Tokens(last) <= limit
        BY <2>3, <2>4, <3>2, TokensTyped
      <4> QED
        BY <2>3, <2>5, <3>2, <4>1 DEF SizeTells
    <3> QED
      BY <3>1, <3>2
  <2>7. PICK x : x = [op |-> "window", limit |-> limit, own |-> Tokens(last) > limit \/ inUse = 0,
                      session |-> inUse, messages |-> messages, total |-> Tokens(messages),
                      memories |-> MemoryTokens(FindMemories)]
    OBVIOUS
  <2>8. x \in Looking
    <3>1. Tokens(messages) \in Nat /\ MemoryTokens(FindMemories) \in Nat
      BY <2>6, TokensTyped, MemoriesCounted
    <3>2. (Tokens(last) > limit \/ inUse = 0) \in BOOLEAN
      OBVIOUS
    <3> QED
      BY <1>e, <2>6, <2>7, <3>1, <3>2 DEF Looking
  <2>9. Become(k, x)
    BY <2>1, <2>5, <2>7
  <2>10. /\ x \in ChatCalls /\ x.op = "window"
         /\ SizeTells(x.messages, x.total, x.limit) /\ (~x.own => x.session # 0)
    BY <2>6, <2>7, <2>8 DEF ChatCalls
  <2>11. SessionIsOpen'
    BY <1>c, <1>e, <2>2, <2>9, <2>10, SessionStays
  <2> QED
    BY <1>b, <1>c, <1>e, <2>2, <2>9, <2>10, <2>11, CallMoves
<1>13. ASSUME NEW k \in Calls, BuildWindow(k) PROVE ConversationInv'
  <2> DEFINE x == chatCall[k]
             messages == IF x.own THEN x.messages ELSE context[x.session].last
             mine == TrimMessages(messages, RoomBeside(x.limit, x.memories))
             trims == x.memories > 0 /\ x.total + x.memories > x.limit
             y == [op |-> "built", limit |-> x.limit, memories |-> x.memories,
                   late |-> messages # x.messages, messages |-> IF trims THEN mine ELSE messages,
                   total |-> x.memories + IF trims THEN Tokens(mine) ELSE x.total]
  <2>1. Calling(k, "window") /\ Become(k, y) /\ UNCHANGED <<chat, context, inUse>>
    BY <1>13 DEF BuildWindow
  <2>2. x \in Looking /\ ~Calling(k, "ended")
    BY <1>e, <2>1, CallForms DEF Calling
  <2>3. SizeTells(x.messages, x.total, x.limit) /\ (~x.own => x.session \in Chats)
    BY <2>1, <2>2 DEF CallTells, Looking
  <2>4. /\ x.limit \in Nat /\ x.memories \in Nat /\ x.total \in Nat /\ x.limit \in Limits
        /\ x.messages \in Seq(Messages)
    BY <2>2, ConversationAssumption DEF Looking
  <2>5. messages \in Seq(Messages)
    BY <2>2, <2>3, <2>4 DEF ChatTyped, Looking
  <2>6. RoomBeside(x.limit, x.memories) = x.limit - x.memories /\ x.limit - x.memories \in Int
    BY <2>4 DEF RoomBeside
  <2> HIDE DEF messages
  <2>7. mine \in Seq(Messages) /\ SizeTells(mine, Tokens(mine), x.limit - x.memories)
    BY <2>5, <2>6, TrimmedFits DEF SizeTells
  <2>8. y.op = "built" /\ y.limit = x.limit /\ y.memories = x.memories /\ y.late = (messages # x.messages)
        /\ y.messages = (IF trims THEN mine ELSE messages)
        /\ y.total = x.memories + IF trims THEN Tokens(mine) ELSE x.total
    OBVIOUS
  <2>9. Tokens(mine) \in Nat
    BY <2>7, TokensTyped
  <2>10. y \in Shown
    BY SMTT(60), <2>4, <2>5, <2>7, <2>9 DEF Shown
  <2>11. y.late \/ SizeTells(y.messages, y.total - y.memories, y.limit - y.memories)
    <3> DEFINE total == Tokens(mine)
    <3>1. CASE trims
      <4>1. y.total - y.memories = Tokens(mine)
        <5>1. y.total = x.memories + total /\ y.memories = x.memories /\ total \in Nat
          BY <2>8, <2>9, <3>1
        <5> HIDE DEF total, y
        <5>2. y.total - y.memories = total
          BY <2>4, <5>1
        <5> QED
          BY <5>2 DEF total
      <4> HIDE DEF y, mine, trims, x
      <4> QED
        BY <2>7, <2>8, <3>1, <4>1
    <3>2. CASE ~trims /\ messages = x.messages
      <4>1. y.total - y.memories = x.total
        <5> HIDE DEF y, trims, mine
        <5> QED
          BY <2>4, <2>8, <3>2
      <4>2. x.total <= x.limit - x.memories \/ (x.memories = 0 /\ x.limit - x.memories = x.limit)
        BY <2>4, <3>2
      <4>3. SizeTells(x.messages, x.total, x.limit - x.memories)
        BY <2>3, <4>2 DEF SizeTells
      <4> HIDE DEF y, mine, trims, x
      <4> QED
        BY <2>8, <3>2, <4>1, <4>3
    <3>3. CASE messages # x.messages
      BY <3>3
    <3> QED
      BY <3>1, <3>2, <3>3
  <2> HIDE DEF y
  <2>12. y \in ChatCalls
    BY <2>10 DEF ChatCalls
  <2>13. SessionIsOpen'
    BY <1>c, <1>e, <2>1, <2>2, <2>12, SessionStays
  <2> QED
    BY <1>b, <1>c, <1>e, <2>1, <2>8, <2>11, <2>12, <2>13, CallMoves
<1>14. ASSUME UNCHANGED <<chat, context, inUse, chatCall>> PROVE ConversationInv'
  BY <1>14, ConversationStays
<1>15. ASSUME \/ \E m \in Memories : SaveMemory(m) \/ MemoryExpires(m) \/ UpdateMemory(m)
              \/ \E user \in BOOLEAN : ClearMemories(user)
       PROVE  UNCHANGED <<chat, context, inUse, chatCall>>
  BY <1>15 DEF SaveMemory, MemoryExpires, UpdateMemory, ClearMemories
<1> QED
  BY <1>1, <1>2, <1>3, <1>4, <1>5, <1>6, <1>7, <1>8, <1>9, <1>10, <1>11, <1>12, <1>13, <1>14, <1>15
     DEF ConversationNext
\* Nothing is said or asked at first.
LEMMA ConversationBegins == ConversationInit => ConversationInv
<1> SUFFICES ASSUME ConversationInit PROVE ConversationInv
  OBVIOUS
<1>1. /\ \A c \in Chats : context[c].last = <<>> /\ context[c].tokens = 0
      /\ \A k \in Calls : chatCall[k] = NoCall
      /\ inUse = 0
  BY DEF ConversationInit
<1>2. NoCall.op = "none"
  BY DEF NoCall
<1>3. ChatTyped
  <2>1. [status |-> "none", count |-> 0, tokens |-> 0] \in ChatRows
    BY DEF ChatRows
  <2>2. [last |-> <<>>, tokens |-> 0] \in [last : Seq(Messages), tokens : Nat]
    <3>1. <<>> \in Seq(Messages)
      OBVIOUS
    <3> QED
      BY <3>1
  <2> QED
    BY <2>1, <2>2 DEF ConversationInit, ChatTyped, ChatCalls
<1>4. ContextCounted
  BY <1>1, TokensStep DEF ContextCounted
<1>5. SessionIsOpen /\ WindowFits /\ \A k \in Calls : CallTells(k)
  BY <1>1, <1>2 DEF SessionIsOpen, WindowFits, CallTells, Calling
<1> QED
  BY <1>3, <1>4, <1>5 DEF ConversationInv

-----------------------------------------------------------------------------
(* The agents and their orchestrations (AgentPlans, AgentRuns).             *)

\* The agents in the order of their registration.
LEMMA TheAgents ==
    /\ AgentOrder \in Seq(Agents) /\ IsInjective(AgentOrder)
    /\ "ceo" \in Agents /\ Researchers \subseteq Agents \ {"ceo"}
<1>1. Agents = {"ceo", "finance", "sales", "inventory", "hr", "reporting", "developer"}
  BY DEF Agents, AgentOrder
<1>2. AgentOrder \in Seq(Agents)
  BY <1>1 DEF AgentOrder
<1>3. IsInjective(AgentOrder)
  BY DEF AgentOrder, IsInjective
<1>4. Researchers \subseteq Agents \ {"ceo"}
  BY <1>1 DEF Researchers
<1> QED
  BY <1>1, <1>2, <1>3, <1>4

\* Choosing among the agents is a fold over them.
LEMMA AmongFold ==
    ASSUME NEW agents, NEW s \in Seq(Agents), NEW F, F = [p \in Seq(Agents) \X Agents |-> Chosen(agents, p[1], p[2])]
    PROVE  FoldsTo(Seq(Agents), F, <<>>, s, Among(agents, s))
<1> DEFINE D == DOMAIN s
           At(g, t) == IF t = {} THEN <<>> ELSE Chosen(agents, g[t \ {Max(t)}], s[Max(t)])
           Is(g) == g = [t \in SUBSET D |-> At(g, t)]
           it == CHOOSE g : Is(g)
<1>1. Among(agents, s) = it[D]
  BY DEF Among, FoldLeft, MapThenFoldSet
<1>2. Len(s) \in Nat /\ D = 1 .. Len(s) /\ s \in [1 .. Len(s) -> Agents]
  OBVIOUS
<1>3. F \in [Seq(Agents) \X Agents -> Seq(Agents)] /\ \A a \in Seq(Agents), b \in Agents : F[<<a, b>>] = Chosen(agents, a, b)
  BY DEF Chosen
<1>4. <<>> \in Seq(Agents)
  OBVIOUS
<1> HIDE DEF D
<1>5. PICK g : Iterates(Seq(Agents), F, <<>>, Len(s), s, g)
  BY <1>2, <1>3, <1>4, PositionsIterate
<1>6. Is([t \in SUBSET D |-> g[t]])
  <2> DEFINE h == [t \in SUBSET D |-> g[t]]
  <2> SUFFICES ASSUME NEW t \in SUBSET D PROVE g[t] = At(h, t)
    OBVIOUS
  <2>1. CASE t # {}
    <3>1. Max(t) \in D /\ t \ {Max(t)} \in SUBSET D
      BY <1>2, <2>1, LastPosition
    <3>2. h[t \ {Max(t)}] = g[t \ {Max(t)}] /\ g[t \ {Max(t)}] \in Seq(Agents) /\ s[Max(t)] \in Agents
      BY <1>2, <1>5, <3>1 DEF Iterates
    <3> HIDE DEF h
    <3> QED
      BY <1>2, <1>3, <1>5, <2>1, <3>2 DEF Iterates
  <2> QED
    BY <1>2, <1>5, <2>1 DEF Iterates
<1>7. Is(it)
  <2> HIDE DEF Is
  <2> QED
    BY <1>6
<1>8. ASSUME NEW t \in SUBSET D PROVE it[t] = At(it, t)
  <2> HIDE DEF it, At
  <2> QED
    BY <1>7
<1> HIDE DEF it
<1>9. it[{}] = <<>>
  BY <1>8
<1>10. ASSUME NEW t \in SUBSET D, t # {}, it[t \ {Max(t)}] \in Seq(Agents)
      PROVE  it[t] = F[<<it[t \ {Max(t)}], s[Max(t)]>>]
  <2>1. s[Max(t)] \in Agents
    BY <1>2, <1>10, LastPosition
  <2> QED
    BY <1>3, <1>8, <1>10, <2>1
<1>11. Iterates(Seq(Agents), F, <<>>, Len(s), s, it)
  BY <1>2, <1>3, <1>4, <1>9, <1>10, IterationTyped
<1> QED
  BY <1>1, <1>2, <1>11 DEF FoldsTo

\* Of none there is nobody, and of one more that one, if it is asked for.
LEMMA AmongStep ==
    ASSUME NEW agents
    PROVE  /\ Among(agents, <<>>) = <<>>
           /\ \A s \in Seq(Agents), a \in Agents :
                /\ Among(agents, s) \in Seq(Agents)
                /\ Among(agents, Append(s, a)) = Chosen(agents, Among(agents, s), a)
<1> DEFINE F == [p \in Seq(Agents) \X Agents |-> Chosen(agents, p[1], p[2])]
<1>1. \A s \in Seq(Agents) : FoldsTo(Seq(Agents), F, <<>>, s, Among(agents, s))
  BY AmongFold
<1>2. <<>> \in Seq(Agents)
  OBVIOUS
<1>3. ASSUME NEW s \in Seq(Agents), NEW a \in Agents
      PROVE  /\ Among(agents, s) \in Seq(Agents)
             /\ Among(agents, Append(s, a)) = F[<<Among(agents, s), a>>]
  <2>1. Append(s, a) \in Seq(Agents)
    OBVIOUS
  <2> HIDE DEF F
  <2>2. FoldsTo(Seq(Agents), F, <<>>, s, Among(agents, s)) /\ FoldsTo(Seq(Agents), F, <<>>, Append(s, a), Among(agents, Append(s, a)))
    BY <1>1, <2>1
  <2> QED
    BY <2>2, FoldsAppended
<1>4. Among(agents, <<>>) = <<>>
  <2> HIDE DEF F
  <2> QED
    BY <1>1, <1>2, FoldsEmpty
<1> QED
  BY <1>3, <1>4

\* Whoever is asked for is among them, once.
LEMMA AmongTells ==
    ASSUME NEW agents
    PROVE  \A s \in Seq(Agents) : IsInjective(s) =>
             /\ Among(agents, s) \in Seq(Agents) /\ IsInjective(Among(agents, s))
             /\ ToSet(Among(agents, s)) = agents \cap ToSet(s)
<1> DEFINE P == {s \in Seq(Agents) : IsInjective(s) =>
                   /\ Among(agents, s) \in Seq(Agents) /\ IsInjective(Among(agents, s))
                   /\ ToSet(Among(agents, s)) = agents \cap ToSet(s)}
<1>1. <<>> \in P
  <2>1. <<>> \in Seq(Agents) /\ ToSet(<<>>) = {} /\ IsInjective(<<>>)
    BY DEF ToSet, IsInjective
  <2> QED
    BY <2>1, AmongStep
<1>2. ASSUME NEW s \in Seq(Agents), NEW a \in Agents, s \in P PROVE Append(s, a) \in P
  <2> SUFFICES ASSUME IsInjective(Append(s, a))
               PROVE  LET found == Among(agents, Append(s, a))
                      IN found \in Seq(Agents) /\ IsInjective(found) /\ ToSet(found) = agents \cap ToSet(Append(s, a))
    OBVIOUS
  <2> DEFINE found == Among(agents, s)
  <2>1. ASSUME NEW t \in Seq(Agents)
        PROVE  /\ ToSet(Append(t, a)) = ToSet(t) \cup {a}
               /\ IsInjective(t) /\ a \notin ToSet(t) => IsInjective(Append(t, a))
               /\ IsInjective(Append(t, a)) => IsInjective(t) /\ a \notin ToSet(t)
    <3>1. DOMAIN t = 1 .. Len(t) /\ DOMAIN Append(t, a) = 1 .. Len(t) + 1 /\ Len(t) \in Nat
      OBVIOUS
    <3>2. Append(t, a)[Len(t) + 1] = a /\ \A i \in 1 .. Len(t) : Append(t, a)[i] = t[i]
      OBVIOUS
    <3> DEFINE longer == Append(t, a)
    <3> HIDE DEF longer
    <3>3. \A i \in 1 .. Len(t) + 1 : i \in 1 .. Len(t) \/ i = Len(t) + 1
      BY <3>1
    <3>4. Len(t) + 1 \in 1 .. Len(t) + 1 /\ Len(t) + 1 \notin 1 .. Len(t) /\ 1 .. Len(t) \subseteq 1 .. Len(t) + 1
      BY <3>1
    <3>5. ToSet(longer) = ToSet(t) \cup {a}
      BY <3>1, <3>2, <3>3, <3>4 DEF ToSet, longer
    <3>6. ASSUME IsInjective(t), a \notin ToSet(t) PROVE IsInjective(longer)
      BY <3>1, <3>2, <3>3, <3>4, <3>6 DEF ToSet, longer, IsInjective
    <3>7. ASSUME IsInjective(longer) PROVE IsInjective(t) /\ a \notin ToSet(t)
      BY <3>1, <3>2, <3>3, <3>4, <3>7 DEF ToSet, longer, IsInjective
    <3> QED
      BY <3>5, <3>6, <3>7 DEF longer
  <2>2. IsInjective(s) /\ a \notin ToSet(s) /\ ToSet(Append(s, a)) = ToSet(s) \cup {a}
    BY <2>1
  <2>3. found \in Seq(Agents) /\ IsInjective(found) /\ ToSet(found) = agents \cap ToSet(s)
    BY <1>2, <2>2
  <2>4. Among(agents, Append(s, a)) = IF a \in agents THEN Append(found, a) ELSE found
    BY ZenonT(60), AmongStep DEF Chosen
  <2> HIDE DEF found
  <2>5. CASE a \in agents
    <3>1. Append(found, a) \in Seq(Agents)
      BY <2>3
    <3>2. IsInjective(Append(found, a)) /\ ToSet(Append(found, a)) = ToSet(found) \cup {a}
      BY <2>1, <2>2, <2>3
    <3> QED
      BY <2>2, <2>3, <2>4, <2>5, <3>1, <3>2
  <2>6. CASE a \notin agents
    BY <2>2, <2>3, <2>4, <2>6
  <2> QED
    BY <2>5, <2>6
<1> HIDE DEF P
<1>3. \A s \in Seq(Agents) : s \in P
  BY <1>1, <1>2, SequenceInduction
<1> QED
  BY <1>3 DEF P

\* The agents of a request: somebody, and nobody twice.
LEMMA SubtasksTell ==
    ASSUME NEW text
    PROVE  Subtasks(text) \in Seq(Agents) /\ Subtasks(text) # <<>> /\ IsInjective(Subtasks(text))
<1> DEFINE some == Among(Researchers, AgentOrder)
           found == some \o IF Synthesised(text) THEN <<"ceo">> ELSE <<>>
<1>1. some \in Seq(Agents) /\ IsInjective(some) /\ "ceo" \notin ToSet(some)
  BY TheAgents, AmongTells
<1> HIDE DEF some
<1>2. found \in Seq(Agents) /\ IsInjective(found)
  <2>1. CASE Synthesised(text)
    <3> DEFINE both == some \o <<"ceo">>
    <3>1. DOMAIN some = 1 .. Len(some) /\ Len(some) \in Nat /\ DOMAIN both = 1 .. Len(some) + 1
      BY <1>1
    <3>2. both[Len(some) + 1] = "ceo" /\ \A i \in 1 .. Len(some) : both[i] = some[i]
      BY <1>1
    <3>3. \A i \in 1 .. Len(some) : some[i] # "ceo"
      BY <1>1, <3>1 DEF ToSet
    <3>4. both \in Seq(Agents)
      BY <1>1, TheAgents
    <3> HIDE DEF both
    <3>5. \A i \in 1 .. Len(some) + 1 : i \in 1 .. Len(some) \/ i = Len(some) + 1
      BY <3>1
    <3>6. IsInjective(both)
      BY <1>1, <3>1, <3>2, <3>3, <3>5 DEF IsInjective
    <3> QED
      BY <2>1, <3>4, <3>6 DEF both
  <2>2. CASE ~Synthesised(text)
    <3>1. some \o <<>> = some
      BY <1>1
    <3> QED
      BY <1>1, <2>2, <3>1
  <2> QED
    BY <2>1, <2>2
<1> HIDE DEF found
<1>3. CASE found # <<>>
  BY <1>2, <1>3 DEF Subtasks, found, some
<1>4. CASE found = <<>>
  <2> DEFINE one == IF Registered = {} THEN "ceo" ELSE Among(Registered, AgentOrder)[1]
  <2>1. one \in Agents
    <3>1. CASE Registered # {}
      <4>1. PICK a \in Registered : TRUE
        BY <3>1
      <4>2. ToSet(AgentOrder) = Agents
        BY DEF ToSet, Agents
      <4>3. Among(Registered, AgentOrder) \in Seq(Agents) /\ a \in ToSet(Among(Registered, AgentOrder))
        BY <4>1, <4>2, TheAgents, AmongTells, AgentAssumption
      <4>4. Among(Registered, AgentOrder) # <<>>
        BY <4>3 DEF ToSet
      <4> QED
        BY <3>1, <4>3, <4>4
    <3> QED
      BY <3>1, TheAgents
  <2>2. Subtasks(text) = <<one>>
    BY <1>4 DEF Subtasks, found, some
  <2> HIDE DEF one
  <2>3. <<one>> \in Seq(Agents) /\ <<one>> # <<>> /\ IsInjective(<<one>>)
    BY <2>1 DEF IsInjective
  <2> QED
    BY <2>2, <2>3
<1> QED
  BY <1>3, <1>4

\* The levels of an orchestration: each has somebody, and nobody is in two.
AreLevels(levels) ==
    /\ levels \in Seq(SUBSET Agents) /\ levels # <<>>
    /\ \A i \in DOMAIN levels : levels[i] # {}
    /\ \A i, j \in DOMAIN levels : i = j \/ levels[i] \cap levels[j] = {}
LEMMA LevelsTell ==
    ASSUME NEW mode, NEW text, NEW names, mode = "agents" => names \in Teams
    PROVE  AreLevels(Levels(mode, text, names))
<1> DEFINE asked == IF mode = "agents" THEN names ELSE Subtasks(text)
           first == ToSet(asked) \ {"ceo"}
           levels == Levels(mode, text, names)
<1> SUFFICES AreLevels(levels)
  OBVIOUS
<1>1. asked \in Seq(Agents) /\ asked # <<>> /\ IsInjective(asked)
  BY SubtasksTell, AgentAssumption
<1>2. levels = IF mode \in {"agents", "pipeline"} THEN [i \in DOMAIN asked |-> {asked[i]}]
               ELSE IF first = {} THEN <<{"ceo"}>>
               ELSE IF "ceo" \in ToSet(asked) THEN <<first, {"ceo"}>> ELSE <<first>>
  BY DEF Levels
<1> HIDE DEF levels, asked
<1>3. CASE mode \in {"agents", "pipeline"}
  <2> DEFINE ones == [i \in DOMAIN asked |-> {asked[i]}]
  <2>1. DOMAIN asked = 1 .. Len(asked) /\ Len(asked) \in Nat /\ Len(asked) # 0
    BY <1>1
  <2>2. \A i \in 1 .. Len(asked) : ones[i] = {asked[i]} /\ asked[i] \in Agents
    BY <1>1, <2>1
  <2>3. DOMAIN ones = 1 .. Len(asked)
    BY <2>1
  <2>4. ones \in Seq(SUBSET Agents) /\ ones # <<>>
    <3>1. ones \in [1 .. Len(asked) -> SUBSET Agents]
      BY <2>1, <2>2
    <3>2. ones \in Seq(SUBSET Agents)
      BY <2>1, <3>1
    <3>3. 1 \in DOMAIN ones /\ DOMAIN <<>> = {}
      BY <2>1, <2>3
    <3> HIDE DEF ones
    <3> QED
      BY <3>2, <3>3
  <2> HIDE DEF ones
  <2>5. AreLevels(ones)
    BY ZenonT(60), <1>1, <2>1, <2>2, <2>3, <2>4 DEF AreLevels, IsInjective
  <2> QED
    BY <1>2, <1>3, <2>5 DEF ones
<1>4. CASE mode \notin {"agents", "pipeline"}
  <2>1. first \in SUBSET Agents /\ {"ceo"} \in SUBSET Agents /\ "ceo" \notin first
    BY <1>1, TheAgents DEF ToSet
  <2> HIDE DEF first
  <2>2. ASSUME NEW one \in SUBSET Agents, one # {} PROVE AreLevels(<<one>>)
    <3>1. <<one>> \in Seq(SUBSET Agents) /\ DOMAIN <<one>> = {1} /\ <<one>>[1] = one /\ <<one>> # <<>>
      OBVIOUS
    <3> QED
      BY <2>2, <3>1 DEF AreLevels
  <2>3. ASSUME first # {} PROVE AreLevels(<<first, {"ceo"}>>)
    <3> DEFINE two == <<first, {"ceo"}>>
    <3>1. two \in Seq(SUBSET Agents) /\ DOMAIN two = {1, 2} /\ two[1] = first /\ two[2] = {"ceo"} /\ two # <<>>
      BY <2>1
    <3> HIDE DEF two
    <3>2. AreLevels(two)
      BY <2>1, <2>3, <3>1 DEF AreLevels
    <3> QED
      BY <3>2 DEF two
  <2>5. CASE first = {}
    <3>1. levels = <<{"ceo"}>>
      BY <1>2, <1>4, <2>5 DEF first
    <3> QED
      BY <2>1, <2>2, <3>1
  <2>6. CASE first # {} /\ "ceo" \in ToSet(asked)
    <3>1. levels = <<first, {"ceo"}>>
      BY <1>2, <1>4, <2>6 DEF first
    <3> QED
      BY <2>3, <2>6, <3>1
  <2>7. CASE first # {} /\ "ceo" \notin ToSet(asked)
    <3>1. levels = <<first>>
      BY <1>2, <1>4, <2>7 DEF first
    <3> QED
      BY <2>1, <2>2, <2>7, <3>1
  <2> QED
    BY <2>5, <2>6, <2>7
<1> QED
  BY <1>3, <1>4

\* The steps a plan may have: those with the tools the agent declares.
Declared(a) == [tool : RequiredTools[a], after : BOOLEAN]
\* One step or two are steps.
LEMMA FewSteps ==
    ASSUME NEW T, NEW x \in T, NEW y \in T
    PROVE  <<x>> \in Seq(T) /\ <<x, y>> \in Seq(T)
OBVIOUS

\* Three rules or four are rules.
LEMMA FewRules ==
    ASSUME NEW w, NEW x, NEW y, NEW z
    PROVE  /\ DOMAIN <<w, x, y>> = 1 .. 3 /\ <<w, x, y>> \in Seq({<<w, x, y>>[i] : i \in 1 .. 3})
           /\ DOMAIN <<w, x, y, z>> = 1 .. 4 /\ <<w, x, y, z>> \in Seq({<<w, x, y, z>>[i] : i \in 1 .. 4})
<1>1. DOMAIN <<w, x, y>> = 1 .. 3 /\ <<w, x, y>> \in Seq({<<w, x, y>>[i] : i \in 1 .. 3})
  <2> DEFINE s == <<w, x, y>>
             S == {s[i] : i \in 1 .. 3}
  <2>1. DOMAIN s = 1 .. 3 /\ s[1] = w /\ s[2] = x /\ s[3] = y
    OBVIOUS
  <2> HIDE DEF s
  <2>2. w \in S /\ x \in S /\ y \in S
    BY <2>1
  <2> HIDE DEF S
  <2>3. <<w, x, y>> \in Seq(S)
    BY <2>2
  <2> QED
    BY <2>1, <2>3 DEF s, S
<1>2. DOMAIN <<w, x, y, z>> = 1 .. 4 /\ <<w, x, y, z>> \in Seq({<<w, x, y, z>>[i] : i \in 1 .. 4})
  <2> DEFINE s == <<w, x, y, z>>
             S == {s[i] : i \in 1 .. 4}
  <2>1. DOMAIN s = 1 .. 4 /\ s[1] = w /\ s[2] = x /\ s[3] = y /\ s[4] = z
    OBVIOUS
  <2> HIDE DEF s
  <2>2. w \in S /\ x \in S /\ y \in S /\ z \in S
    BY <2>1
  <2> HIDE DEF S
  <2>3. <<w, x, y, z>> \in Seq(S)
    BY <2>2
  <2> QED
    BY <2>1, <2>3 DEF s, S
<1> QED
  BY <1>1, <1>2

\* The rules of an agent have no other steps, nor has its default.
LEMMA RulesDeclared ==
    ASSUME NEW a \in Agents
    PROVE  /\ Steps[a] \in Seq({Steps[a][i] : i \in DOMAIN Steps[a]})
           /\ \A i \in DOMAIN Steps[a] : Steps[a][i].steps \in Seq(Declared(a))
           /\ Step(Default[a]) \in Declared(a)
<1>1. a \in {"ceo", "finance", "sales", "inventory", "hr", "reporting", "developer"}
  BY DEF Agents, AgentOrder
<1>2. CASE a = "ceo"
  <2>1. Steps[a] = CeoSteps /\ DOMAIN CeoSteps = 1 .. 3 /\ CeoSteps \in Seq({CeoSteps[i] : i \in 1 .. 3})
    <3>1. Steps[a] = CeoSteps
      BY <1>2 DEF Steps
    <3>2. DOMAIN CeoSteps = 1 .. 3 /\ CeoSteps \in Seq({CeoSteps[i] : i \in 1 .. 3})
      <4>1. PICK w, x, y : CeoSteps = <<w, x, y>>
        BY Zenon DEF CeoSteps
      <4> QED
        BY <4>1, FewRules
    <3> QED
      BY <3>1, <3>2
  <2>2. /\ Step("getSalesTotal") \in Declared(a)
        /\ After("getFinancialSummary") \in Declared(a)
        /\ Step("getStockLevel") \in Declared(a)
        /\ Step("getActiveEmployees") \in Declared(a)
        /\ Step(Default[a]) \in Declared(a)
    BY <1>2 DEF Declared, Step, After, Default, RequiredTools
  <2>3. /\ CeoSteps[1].steps = <<Step("getSalesTotal"), After("getFinancialSummary")>>
        /\ CeoSteps[2].steps = <<Step("getStockLevel")>>
        /\ CeoSteps[3].steps = <<Step("getActiveEmployees")>>
    BY DEF CeoSteps, When
  <2>4. ASSUME NEW i \in 1 .. 3 PROVE CeoSteps[i].steps \in Seq(Declared(a))
    <3>1. i = 1 \/ i = 2 \/ i = 3
      OBVIOUS
    <3> QED
      BY <2>2, <2>3, <3>1, FewSteps
  <2> QED
    BY <2>1, <2>2, <2>4
<1>3. CASE a = "finance"
  <2>1. Steps[a] = FinanceSteps /\ DOMAIN FinanceSteps = 1 .. 4 /\ FinanceSteps \in Seq({FinanceSteps[i] : i \in 1 .. 4})
    <3>1. Steps[a] = FinanceSteps
      BY <1>3 DEF Steps
    <3>2. DOMAIN FinanceSteps = 1 .. 4 /\ FinanceSteps \in Seq({FinanceSteps[i] : i \in 1 .. 4})
      <4>1. PICK w, x, y, z : FinanceSteps = <<w, x, y, z>>
        BY Zenon DEF FinanceSteps
      <4> QED
        BY <4>1, FewRules
    <3> QED
      BY <3>1, <3>2
  <2>2. /\ Step("getSalesTotal") \in Declared(a)
        /\ Step("getInvoiceStatus") \in Declared(a)
        /\ Step("getPaymentHistory") \in Declared(a)
        /\ Step("getFinancialSummary") \in Declared(a)
        /\ Step(Default[a]) \in Declared(a)
    BY <1>3 DEF Declared, Step, After, Default, RequiredTools
  <2>3. /\ FinanceSteps[1].steps = <<Step("getSalesTotal")>>
        /\ FinanceSteps[2].steps = <<Step("getInvoiceStatus")>>
        /\ FinanceSteps[3].steps = <<Step("getPaymentHistory")>>
        /\ FinanceSteps[4].steps = <<Step("getFinancialSummary")>>
    BY DEF FinanceSteps, When
  <2>4. ASSUME NEW i \in 1 .. 4 PROVE FinanceSteps[i].steps \in Seq(Declared(a))
    <3>1. i = 1 \/ i = 2 \/ i = 3 \/ i = 4
      OBVIOUS
    <3> QED
      BY <2>2, <2>3, <3>1, FewSteps
  <2> QED
    BY <2>1, <2>2, <2>4
<1>4. CASE a = "sales"
  <2>1. Steps[a] = SalesSteps /\ DOMAIN SalesSteps = 1 .. 4 /\ SalesSteps \in Seq({SalesSteps[i] : i \in 1 .. 4})
    <3>1. Steps[a] = SalesSteps
      BY <1>4 DEF Steps
    <3>2. DOMAIN SalesSteps = 1 .. 4 /\ SalesSteps \in Seq({SalesSteps[i] : i \in 1 .. 4})
      <4>1. PICK w, x, y, z : SalesSteps = <<w, x, y, z>>
        BY Zenon DEF SalesSteps
      <4> QED
        BY <4>1, FewRules
    <3> QED
      BY <3>1, <3>2
  <2>2. /\ Step("getSalesTotal") \in Declared(a)
        /\ After("getTopProducts") \in Declared(a)
        /\ Step("getQuotationStatus") \in Declared(a)
        /\ Step("getOrderStatus") \in Declared(a)
        /\ Step("getCustomerInfo") \in Declared(a)
        /\ Step(Default[a]) \in Declared(a)
    BY <1>4 DEF Declared, Step, After, Default, RequiredTools
  <2>3. /\ SalesSteps[1].steps = <<Step("getSalesTotal"), After("getTopProducts")>>
        /\ SalesSteps[2].steps = <<Step("getQuotationStatus")>>
        /\ SalesSteps[3].steps = <<Step("getOrderStatus")>>
        /\ SalesSteps[4].steps = <<Step("getCustomerInfo")>>
    BY DEF SalesSteps, When
  <2>4. ASSUME NEW i \in 1 .. 4 PROVE SalesSteps[i].steps \in Seq(Declared(a))
    <3>1. i = 1 \/ i = 2 \/ i = 3 \/ i = 4
      OBVIOUS
    <3> QED
      BY <2>2, <2>3, <3>1, FewSteps
  <2> QED
    BY <2>1, <2>2, <2>4
<1>5. CASE a = "inventory"
  <2>1. Steps[a] = InventorySteps /\ DOMAIN InventorySteps = 1 .. 4 /\ InventorySteps \in Seq({InventorySteps[i] : i \in 1 .. 4})
    <3>1. Steps[a] = InventorySteps
      BY <1>5 DEF Steps
    <3>2. DOMAIN InventorySteps = 1 .. 4 /\ InventorySteps \in Seq({InventorySteps[i] : i \in 1 .. 4})
      <4>1. PICK w, x, y, z : InventorySteps = <<w, x, y, z>>
        BY Zenon DEF InventorySteps
      <4> QED
        BY <4>1, FewRules
    <3> QED
      BY <3>1, <3>2
  <2>2. /\ Step("getStockLevel") \in Declared(a)
        /\ Step("getWarehouseStatus") \in Declared(a)
        /\ Step("getTransferStatus") \in Declared(a)
        /\ Step("getPurchaseOrderStatus") \in Declared(a)
        /\ Step(Default[a]) \in Declared(a)
    BY <1>5 DEF Declared, Step, After, Default, RequiredTools
  <2>3. /\ InventorySteps[1].steps = <<Step("getStockLevel")>>
        /\ InventorySteps[2].steps = <<Step("getWarehouseStatus")>>
        /\ InventorySteps[3].steps = <<Step("getTransferStatus")>>
        /\ InventorySteps[4].steps = <<Step("getPurchaseOrderStatus")>>
    BY DEF InventorySteps, When
  <2>4. ASSUME NEW i \in 1 .. 4 PROVE InventorySteps[i].steps \in Seq(Declared(a))
    <3>1. i = 1 \/ i = 2 \/ i = 3 \/ i = 4
      OBVIOUS
    <3> QED
      BY <2>2, <2>3, <3>1, FewSteps
  <2> QED
    BY <2>1, <2>2, <2>4
<1>6. CASE a = "hr"
  <2>1. Steps[a] = HrSteps /\ DOMAIN HrSteps = 1 .. 4 /\ HrSteps \in Seq({HrSteps[i] : i \in 1 .. 4})
    <3>1. Steps[a] = HrSteps
      BY <1>6 DEF Steps
    <3>2. DOMAIN HrSteps = 1 .. 4 /\ HrSteps \in Seq({HrSteps[i] : i \in 1 .. 4})
      <4>1. PICK w, x, y, z : HrSteps = <<w, x, y, z>>
        BY Zenon DEF HrSteps
      <4> QED
        BY <4>1, FewRules
    <3> QED
      BY <3>1, <3>2
  <2>2. /\ Step("getActiveEmployees") \in Declared(a)
        /\ Step("getAttendanceRecord") \in Declared(a)
        /\ Step("getLeaveBalance") \in Declared(a)
        /\ Step("getDepartmentInfo") \in Declared(a)
        /\ Step(Default[a]) \in Declared(a)
    BY <1>6 DEF Declared, Step, After, Default, RequiredTools
  <2>3. /\ HrSteps[1].steps = <<Step("getActiveEmployees")>>
        /\ HrSteps[2].steps = <<Step("getAttendanceRecord")>>
        /\ HrSteps[3].steps = <<Step("getLeaveBalance")>>
        /\ HrSteps[4].steps = <<Step("getDepartmentInfo")>>
    BY DEF HrSteps, When
  <2>4. ASSUME NEW i \in 1 .. 4 PROVE HrSteps[i].steps \in Seq(Declared(a))
    <3>1. i = 1 \/ i = 2 \/ i = 3 \/ i = 4
      OBVIOUS
    <3> QED
      BY <2>2, <2>3, <3>1, FewSteps
  <2> QED
    BY <2>1, <2>2, <2>4
<1>7. CASE a = "reporting"
  <2>1. Steps[a] = ReportingSteps /\ DOMAIN ReportingSteps = 1 .. 4 /\ ReportingSteps \in Seq({ReportingSteps[i] : i \in 1 .. 4})
    <3>1. Steps[a] = ReportingSteps
      BY <1>7 DEF Steps
    <3>2. DOMAIN ReportingSteps = 1 .. 4 /\ ReportingSteps \in Seq({ReportingSteps[i] : i \in 1 .. 4})
      <4>1. PICK w, x, y, z : ReportingSteps = <<w, x, y, z>>
        BY Zenon DEF ReportingSteps
      <4> QED
        BY <4>1, FewRules
    <3> QED
      BY <3>1, <3>2
  <2>2. /\ Step("getSalesTotal") \in Declared(a)
        /\ After("getStockLevel") \in Declared(a)
        /\ After("getFinancialSummary") \in Declared(a)
        /\ After("getActiveEmployees") \in Declared(a)
        /\ Step(Default[a]) \in Declared(a)
    BY <1>7 DEF Declared, Step, After, Default, RequiredTools
  <2>3. /\ ReportingSteps[1].steps = <<Step("getSalesTotal")>>
        /\ ReportingSteps[2].steps = <<After("getStockLevel")>>
        /\ ReportingSteps[3].steps = <<After("getFinancialSummary")>>
        /\ ReportingSteps[4].steps = <<After("getActiveEmployees")>>
    BY DEF ReportingSteps, When
  <2>4. ASSUME NEW i \in 1 .. 4 PROVE ReportingSteps[i].steps \in Seq(Declared(a))
    <3>1. i = 1 \/ i = 2 \/ i = 3 \/ i = 4
      OBVIOUS
    <3> QED
      BY <2>2, <2>3, <3>1, FewSteps
  <2> QED
    BY <2>1, <2>2, <2>4
<1>8. CASE a = "developer"
  <2>1. Steps[a] = DeveloperSteps /\ DOMAIN DeveloperSteps = 1 .. 4 /\ DeveloperSteps \in Seq({DeveloperSteps[i] : i \in 1 .. 4})
    <3>1. Steps[a] = DeveloperSteps
      BY <1>8 DEF Steps
    <3>2. DOMAIN DeveloperSteps = 1 .. 4 /\ DeveloperSteps \in Seq({DeveloperSteps[i] : i \in 1 .. 4})
      <4>1. PICK w, x, y, z : DeveloperSteps = <<w, x, y, z>>
        BY Zenon DEF DeveloperSteps
      <4> QED
        BY <4>1, FewRules
    <3> QED
      BY <3>1, <3>2
  <2>2. /\ Step("getSystemHealth") \in Declared(a)
        /\ After("getProviderStatus") \in Declared(a)
        /\ Step("getApiEndpoints") \in Declared(a)
        /\ Step("getAuditLogs") \in Declared(a)
        /\ Step(Default[a]) \in Declared(a)
    BY <1>8 DEF Declared, Step, After, Default, RequiredTools
  <2>3. /\ DeveloperSteps[1].steps = <<Step("getSystemHealth"), After("getProviderStatus")>>
        /\ DeveloperSteps[2].steps = <<Step("getApiEndpoints")>>
        /\ DeveloperSteps[3].steps = <<Step("getAuditLogs")>>
        /\ DeveloperSteps[4].steps = <<Step("getSystemHealth")>>
    BY DEF DeveloperSteps, When
  <2>4. ASSUME NEW i \in 1 .. 4 PROVE DeveloperSteps[i].steps \in Seq(Declared(a))
    <3>1. i = 1 \/ i = 2 \/ i = 3 \/ i = 4
      OBVIOUS
    <3> QED
      BY <2>2, <2>3, <3>1, FewSteps
  <2> QED
    BY <2>1, <2>2, <2>4
<1> QED
  BY <1>1, <1>2, <1>3, <1>4, <1>5, <1>6, <1>7, <1>8

\* The steps of the rules that a text meets are a fold over the rules.
LEMMA PlannedFold ==
    ASSUME NEW T, NEW R, \A r \in R : r.steps \in Seq(T), NEW text, NEW s \in Seq(R), NEW F, F = [p \in Seq(T) \X R |-> With(text, p[1], p[2])]
    PROVE  FoldsTo(Seq(T), F, <<>>, s, Planned(text, s))
<1> DEFINE D == DOMAIN s
           At(g, t) == IF t = {} THEN <<>> ELSE With(text, g[t \ {Max(t)}], s[Max(t)])
           Is(g) == g = [t \in SUBSET D |-> At(g, t)]
           it == CHOOSE g : Is(g)
<1>1. Planned(text, s) = it[D]
  BY DEF Planned, FoldLeft, MapThenFoldSet
<1>2. Len(s) \in Nat /\ D = 1 .. Len(s) /\ s \in [1 .. Len(s) -> R]
  OBVIOUS
<1>3. F \in [Seq(T) \X R -> Seq(T)] /\ \A a \in Seq(T), b \in R : F[<<a, b>>] = With(text, a, b)
  <2>1. \A a, c \in Seq(T) : a \o c \in Seq(T)
    OBVIOUS
  <2>2. \A a \in Seq(T), b \in R : With(text, a, b) \in Seq(T)
    BY <2>1 DEF With
  <2> QED
    BY <2>2
<1>4. <<>> \in Seq(T)
  OBVIOUS
<1> HIDE DEF D
<1>5. PICK g : Iterates(Seq(T), F, <<>>, Len(s), s, g)
  BY <1>2, <1>3, <1>4, PositionsIterate
<1>6. Is([t \in SUBSET D |-> g[t]])
  <2> DEFINE h == [t \in SUBSET D |-> g[t]]
  <2> SUFFICES ASSUME NEW t \in SUBSET D PROVE g[t] = At(h, t)
    OBVIOUS
  <2>1. CASE t # {}
    <3>1. Max(t) \in D /\ t \ {Max(t)} \in SUBSET D
      BY <1>2, <2>1, LastPosition
    <3>2. h[t \ {Max(t)}] = g[t \ {Max(t)}] /\ g[t \ {Max(t)}] \in Seq(T) /\ s[Max(t)] \in R
      BY <1>2, <1>5, <3>1 DEF Iterates
    <3> HIDE DEF h
    <3> QED
      BY <1>2, <1>3, <1>5, <2>1, <3>2 DEF Iterates
  <2> QED
    BY <1>2, <1>5, <2>1 DEF Iterates
<1>7. Is(it)
  <2> HIDE DEF Is
  <2> QED
    BY <1>6
<1>8. ASSUME NEW t \in SUBSET D PROVE it[t] = At(it, t)
  <2> HIDE DEF it, At
  <2> QED
    BY <1>7
<1> HIDE DEF it
<1>9. it[{}] = <<>>
  BY <1>8
<1>10. ASSUME NEW t \in SUBSET D, t # {}, it[t \ {Max(t)}] \in Seq(T)
      PROVE  it[t] = F[<<it[t \ {Max(t)}], s[Max(t)]>>]
  <2>1. s[Max(t)] \in R
    BY <1>2, <1>10, LastPosition
  <2> QED
    BY <1>3, <1>8, <1>10, <2>1
<1>11. Iterates(Seq(T), F, <<>>, Len(s), s, it)
  BY <1>2, <1>3, <1>4, <1>9, <1>10, IterationTyped
<1> QED
  BY <1>1, <1>2, <1>11 DEF FoldsTo

\* A plan has a step, and all of them are declared.
LEMMA PlansTell ==
    ASSUME NEW a \in Agents, NEW text
    PROVE  Plan(a, text) # <<>> /\ \A i \in DOMAIN Plan(a, text) : Plan(a, text)[i].tool \in RequiredTools[a]
<1> DEFINE R == {Steps[a][i] : i \in DOMAIN Steps[a]}
           F == [p \in Seq(Declared(a)) \X R |-> With(text, p[1], p[2])]
           all == Planned(text, Steps[a])
<1>1. all \in Seq(Declared(a))
  <2>1. \A r \in R : r.steps \in Seq(Declared(a))
    BY RulesDeclared
  <2>2. Steps[a] \in Seq(R)
    BY RulesDeclared
  <2> HIDE DEF R
  <2>3. FoldsTo(Seq(Declared(a)), F, <<>>, Steps[a], all)
    BY <2>1, <2>2, PlannedFold
  <2>4. 1 .. Len(Steps[a]) \in SUBSET (1 .. Len(Steps[a]))
    OBVIOUS
  <2> HIDE DEF F, all
  <2> QED
    BY <2>3, <2>4 DEF FoldsTo, Iterates
<1>2. Plan(a, text) = IF all = <<>> THEN <<Step(Default[a])>> ELSE [all EXCEPT ![1].after = FALSE]
  BY DEF Plan
<1>3. \A x \in Declared(a) : x.tool \in RequiredTools[a] /\ [x EXCEPT !.after = FALSE] \in Declared(a)
  BY DEF Declared
<1> HIDE DEF all
<1>4. CASE all = <<>>
  <2> DEFINE x == Step(Default[a])
  <2>1. x \in Declared(a)
    BY RulesDeclared
  <2> HIDE DEF x
  <2>2. <<x>> # <<>> /\ DOMAIN <<x>> = {1} /\ <<x>>[1] = x
    OBVIOUS
  <2>3. Plan(a, text) = <<x>>
    BY <1>2, <1>4 DEF x
  <2> QED
    BY <1>3, <2>1, <2>2, <2>3
<1>5. CASE all # <<>>
  <2> DEFINE plan == [all EXCEPT ![1].after = FALSE]
  <2>1. Len(all) \in Nat /\ Len(all) # 0 /\ DOMAIN all = 1 .. Len(all) /\ \A i \in 1 .. Len(all) : all[i] \in Declared(a)
    BY <1>1, <1>5
  <2>2. DOMAIN plan = 1 .. Len(all) /\ 1 \in 1 .. Len(all)
        /\ \A i \in 1 .. Len(all) : plan[i] = IF i = 1 THEN [all[1] EXCEPT !.after = FALSE] ELSE all[i]
    BY <2>1
  <2> HIDE DEF plan
  <2>3. \A i \in DOMAIN plan : plan[i] \in Declared(a)
    BY <1>3, <2>1, <2>2
  <2>4. plan # <<>>
    BY <2>2
  <2> QED
    BY <1>2, <1>3, <1>5, <2>3, <2>4 DEF plan
<1> QED
  BY <1>4, <1>5

-----------------------------------------------------------------------------
(* What orchestrations come to: an orchestration r whose agents' tasks have *)
(* the statuses st.                                                         *)

TaskStatuses == {"none", "running", "ok", "failed"}
Outcome(st, level) == {st[a] : a \in level}
FoundAt(r, st, i) ==
    /\ Outcome(st, r.levels[i]) \subseteq {"ok", "failed"}
    /\ r.mode = "dag" => "ok" \in Outcome(st, r.levels[i])
\* A level has begun only if the one before has answered, those ahead have
\* not, and success is that of all.
LevelsFollow(r, st) ==
    /\ AreLevels(r.levels) /\ r.at \in 0 .. Len(r.levels)
    /\ \A i \in DOMAIN r.levels : r.at > 0 /\ i > r.at => \A a \in r.levels[i] : st[a] = "none"
    /\ \A i \in 2 .. Len(r.levels) : Outcome(st, r.levels[i]) # {"none"} => FoundAt(r, st, i - 1)
    /\ r.success /\ r.mode \in {"dag", "agents"} => \A i \in DOMAIN r.levels : Outcome(st, r.levels[i]) = {"ok"}
Told(r, st, listed) ==
    /\ listed => r.mode # "none" /\ r.at > 0
    /\ r.mode = "none" => r.at = 0 /\ ~r.success /\ \A a \in Agents : st[a] = "none"
    /\ r.mode # "none" => LevelsFollow(r, st)

OrchRecord == [mode : Modes \cup {"none"}, text : Texts \cup {{}}, levels : Seq(SUBSET Agents), at : Nat, success : BOOLEAN]
StatusRecord == [Agents -> TaskStatuses]

\* The positions of levels, and who is in them.
LEMMA LevelPositions ==
    ASSUME NEW levels, AreLevels(levels)
    PROVE  /\ Len(levels) \in Nat /\ Len(levels) > 0 /\ DOMAIN levels = 1 .. Len(levels)
           /\ \A i \in 1 .. Len(levels) : levels[i] \subseteq Agents /\ levels[i] # {}
           /\ \A i, j \in 1 .. Len(levels) : \A a \in levels[i] : a \in levels[j] => i = j
<1>1. levels \in Seq(SUBSET Agents) /\ levels # <<>>
  BY DEF AreLevels
<1>2. Len(levels) \in Nat /\ DOMAIN levels = 1 .. Len(levels) /\ \A i \in 1 .. Len(levels) : levels[i] \in SUBSET Agents
  BY <1>1
<1>3. Len(levels) > 0
  BY <1>1, <1>2
<1> QED
  BY <1>2, <1>3 DEF AreLevels

\* The first level begins.
LEMMA FirstBegins ==
    ASSUME NEW r \in OrchRecord, NEW st \in StatusRecord, NEW listed,
           r.mode # "none", AreLevels(r.levels), r.at = 1, ~r.success,
           \A a \in Agents : a \notin r.levels[1] => st[a] = "none"
    PROVE  Told(r, st, listed)
<1>1. /\ Len(r.levels) \in Nat /\ Len(r.levels) > 0 /\ DOMAIN r.levels = 1 .. Len(r.levels)
      /\ \A i \in 1 .. Len(r.levels) : r.levels[i] \subseteq Agents /\ r.levels[i] # {}
      /\ \A i, j \in 1 .. Len(r.levels) : \A a \in r.levels[i] : a \in r.levels[j] => i = j
  BY LevelPositions
<1>2. ASSUME NEW i \in 2 .. Len(r.levels), NEW a \in r.levels[i] PROVE st[a] = "none"
  <2>1. i \in 1 .. Len(r.levels) /\ 1 \in 1 .. Len(r.levels) /\ i # 1
    BY <1>1, <1>2
  <2> QED
    BY <1>1, <1>2, <2>1
<1>3. \A i \in 2 .. Len(r.levels) : Outcome(st, r.levels[i]) = {"none"}
  <2> SUFFICES ASSUME NEW i \in 2 .. Len(r.levels) PROVE Outcome(st, r.levels[i]) = {"none"}
    OBVIOUS
  <2>1. r.levels[i] # {}
    BY <1>1
  <2> QED
    BY <1>2, <2>1 DEF Outcome
<1>4. \A i \in DOMAIN r.levels : i > 1 => i \in 2 .. Len(r.levels)
  BY <1>1
<1>5. r.at \in 0 .. Len(r.levels)
  BY <1>1
<1> QED
  BY SMTT(60), <1>2, <1>3, <1>4, <1>5 DEF Told, LevelsFollow

\* Or the next, all of the one before having answered.
LEMMA NextBegins ==
    ASSUME NEW r \in OrchRecord, NEW st \in StatusRecord, NEW to \in StatusRecord, NEW listed,
           Told(r, st, listed), r.mode # "none", r.at > 0, r.at # Len(r.levels), FoundAt(r, st, r.at),
           \A a \in Agents : IF a \in r.levels[r.at + 1] THEN to[a] \in {"running", "failed"} ELSE to[a] = st[a]
    PROVE  Told([r EXCEPT !.at = r.at + 1], to, listed)
<1> DEFINE next == r.at + 1
           q == [r EXCEPT !.at = next]
           n == Len(r.levels)
<1>1. LevelsFollow(r, st) /\ r.at \in Nat
  BY DEF Told, OrchRecord
<1>2. /\ n \in Nat /\ n > 0 /\ DOMAIN r.levels = 1 .. n
      /\ \A i \in 1 .. n : r.levels[i] \subseteq Agents /\ r.levels[i] # {}
      /\ \A i, j \in 1 .. n : \A a \in r.levels[i] : a \in r.levels[j] => i = j
  BY <1>1, LevelPositions DEF LevelsFollow
<1>3. q.mode = r.mode /\ q.levels = r.levels /\ q.success = r.success /\ q.at = next
  BY DEF OrchRecord
<1>4. r.at \in 1 .. n /\ next \in 1 .. n /\ next \in Nat /\ next > r.at
  BY <1>1, <1>2 DEF LevelsFollow
<1> HIDE DEF q, next, n
<1>5. ASSUME NEW i \in 1 .. n, i # next PROVE \A a \in r.levels[i] : to[a] = st[a]
  BY <1>2, <1>4, <1>5 DEF next
<1>6. ASSUME NEW i \in 1 .. n, i # next PROVE Outcome(to, r.levels[i]) = Outcome(st, r.levels[i])
  BY <1>5, <1>6 DEF Outcome
<1>7. \A i \in 1 .. n : i > r.at => \A a \in r.levels[i] : st[a] = "none"
  BY <1>1, <1>2 DEF LevelsFollow
<1>8. ASSUME NEW i \in DOMAIN r.levels, i > next PROVE \A a \in r.levels[i] : to[a] = "none"
  <2>1. i \in 1 .. n /\ i # next /\ i > r.at
    BY <1>2, <1>4, <1>8
  <2> QED
    BY <1>5, <1>7, <2>1
<1>9. ASSUME NEW i \in 2 .. n, Outcome(to, r.levels[i]) # {"none"} PROVE FoundAt(q, to, i - 1)
  <2>1. i \in 1 .. n /\ i - 1 \in 1 .. n
    BY <1>2
  <2>2. CASE i = next
    <3>1. i - 1 = r.at /\ r.at # next
      BY <1>4, <2>2 DEF next
    <3> QED
      BY <1>3, <1>4, <1>6, <3>1 DEF FoundAt
  <2>3. CASE i # next
    <3>1. Outcome(st, r.levels[i]) # {"none"}
      BY <1>6, <1>9, <2>1, <2>3
    <3>2. FoundAt(r, st, i - 1)
      BY <1>1, <3>1 DEF LevelsFollow, n
    <3>3. CASE i - 1 = next
      <4>1. i > r.at
        BY <1>4, <2>1, <3>3
      <4>2. \A a \in r.levels[i] : st[a] = "none"
        BY <1>7, <2>1, <4>1
      <4> QED
        BY <1>2, <2>1, <3>1, <4>2 DEF Outcome
    <3>4. CASE i - 1 # next
      BY <1>3, <1>6, <2>1, <3>2, <3>4 DEF FoundAt
    <3> QED
      BY <3>3, <3>4
  <2> QED
    BY <2>2, <2>3
<1>10. ~(r.success /\ r.mode \in {"dag", "agents"})
  <2> SUFFICES ASSUME r.success, r.mode \in {"dag", "agents"} PROVE FALSE
    OBVIOUS
  <2>1. Outcome(st, r.levels[next]) = {"ok"}
    BY <1>1, <1>2, <1>4 DEF LevelsFollow
  <2>2. PICK a \in r.levels[next] : TRUE
    BY <1>2, <1>4
  <2>3. st[a] = "none"
    BY <1>4, <1>7, <2>2
  <2> QED
    BY <2>1, <2>2, <2>3 DEF Outcome
<1>11. q.at \in 0 .. Len(q.levels) /\ q.at > 0
  BY <1>2, <1>3, <1>4 DEF n
<1>12. AreLevels(q.levels)
  BY <1>1, <1>3 DEF LevelsFollow
<1> QED
  BY <1>3, <1>8, <1>9, <1>10, <1>11, <1>12 DEF Told, LevelsFollow, q, next, n

\* A task that runs ends.
LEMMA OneEnds ==
    ASSUME NEW r \in OrchRecord, NEW st \in StatusRecord, NEW listed, Told(r, st, listed),
           NEW b \in Agents, st[b] = "running", NEW x \in {"ok", "failed"}
    PROVE  Told(r, [st EXCEPT ![b] = x], listed)
<1> DEFINE to == [st EXCEPT ![b] = x]
           n == Len(r.levels)
<1>1. r.mode # "none" /\ LevelsFollow(r, st)
  BY DEF Told
<1>2. /\ n \in Nat /\ DOMAIN r.levels = 1 .. n
      /\ \A i \in 1 .. n : r.levels[i] \subseteq Agents /\ r.levels[i] # {}
  BY <1>1, LevelPositions DEF LevelsFollow
<1>3. \A a \in Agents : to[a] = IF a = b THEN x ELSE st[a]
  BY DEF StatusRecord
<1> HIDE DEF to, n
<1>4. ASSUME NEW i \in 1 .. n, b \notin r.levels[i] PROVE Outcome(to, r.levels[i]) = Outcome(st, r.levels[i])
  BY <1>2, <1>3, <1>4 DEF Outcome
<1>5. ASSUME NEW i \in 1 .. n, b \in r.levels[i] PROVE "running" \in Outcome(st, r.levels[i])
  BY <1>5 DEF Outcome
<1>6. ASSUME NEW i \in DOMAIN r.levels, r.at > 0, i > r.at PROVE \A a \in r.levels[i] : to[a] = "none"
  BY <1>1, <1>2, <1>3, <1>6 DEF LevelsFollow
<1>7. ASSUME NEW i \in 2 .. n, Outcome(to, r.levels[i]) # {"none"} PROVE FoundAt(r, to, i - 1)
  <2>1. i \in 1 .. n /\ i - 1 \in 1 .. n
    BY <1>2
  <2>2. Outcome(st, r.levels[i]) # {"none"}
    <3>1. CASE b \in r.levels[i]
      BY <1>5, <2>1, <3>1
    <3>2. CASE b \notin r.levels[i]
      BY <1>4, <1>7, <2>1, <3>2
    <3> QED
      BY <3>1, <3>2
  <2>3. FoundAt(r, st, i - 1)
    BY <1>1, <2>2 DEF LevelsFollow, n
  <2>4. b \notin r.levels[i - 1]
    BY <1>5, <2>1, <2>3 DEF FoundAt
  <2> QED
    BY <1>4, <2>1, <2>3, <2>4 DEF FoundAt
<1>8. ASSUME r.success, r.mode \in {"dag", "agents"}, NEW i \in DOMAIN r.levels PROVE Outcome(to, r.levels[i]) = {"ok"}
  <2>1. Outcome(st, r.levels[i]) = {"ok"}
    BY <1>1, <1>8 DEF LevelsFollow
  <2>2. b \notin r.levels[i]
    BY <1>2, <1>5, <2>1
  <2> QED
    BY <1>2, <1>4, <2>1, <2>2
<1>9. LevelsFollow(r, to)
  BY <1>1, <1>6, <1>7, <1>8 DEF LevelsFollow, n
<1> QED
  BY <1>1, <1>9 DEF Told, to

\* It is over, and a success if it says so.
LEMMA AllEnds ==
    ASSUME NEW r \in OrchRecord, NEW st \in StatusRecord, NEW listed, Told(r, st, listed), r.mode # "none",
           NEW success \in BOOLEAN,
           success /\ r.mode \in {"dag", "agents"} => \A i \in DOMAIN r.levels : Outcome(st, r.levels[i]) = {"ok"}
    PROVE  Told([r EXCEPT !.at = 0, !.success = success], st, FALSE)
<1> DEFINE q == [r EXCEPT !.at = 0, !.success = success]
<1>1. q.mode = r.mode /\ q.levels = r.levels /\ q.success = success /\ q.at = 0
  BY DEF OrchRecord
<1> HIDE DEF q
<1>2. LevelsFollow(r, st)
  BY DEF Told
<1>3. 0 \in 0 .. Len(q.levels)
  BY <1>1, <1>2, LevelPositions DEF LevelsFollow
<1>4. \A i : FoundAt(r, st, i) => FoundAt(q, st, i)
  BY <1>1 DEF FoundAt
<1>5. LevelsFollow(q, st)
  <2>1. AreLevels(q.levels) /\ q.at \in 0 .. Len(q.levels)
    BY <1>1, <1>2, <1>3 DEF LevelsFollow
  <2>2. ASSUME NEW i \in 2 .. Len(q.levels), Outcome(st, q.levels[i]) # {"none"} PROVE FoundAt(q, st, i - 1)
    BY <1>1, <1>2, <1>4, <2>2 DEF LevelsFollow
  <2>3. \A i \in DOMAIN q.levels : q.at > 0 /\ i > q.at => \A a \in q.levels[i] : st[a] = "none"
    BY <1>1
  <2>4. q.success /\ q.mode \in {"dag", "agents"} => \A i \in DOMAIN q.levels : Outcome(st, q.levels[i]) = {"ok"}
    BY <1>1
  <2> QED
    BY <2>1, <2>2, <2>3, <2>4, Zenon DEF LevelsFollow
<1> QED
  BY <1>1, <1>5 DEF Told, q

-----------------------------------------------------------------------------
(* The invariant of the agents, and their steps.                            *)

Pairs == Orchestrations \X Agents
StatusesOf(o) == [a \in Agents |-> task[<<o, a>>].status]
AtWork(a) == {o \in Orchestrations : Coordinated(o) /\ task[<<o, a>>].status = "running"}
TasksTyped ==
    /\ task = [k \in Pairs |-> task[k]]
    /\ \A k \in Pairs : "status" \in DOMAIN task[k] /\ task[k].status \in TaskStatuses
AgentsTyped ==
    /\ orch \in [Orchestrations -> OrchRecord] /\ TasksTyped
    /\ workload \in [Agents -> Nat] /\ activeRequests \subseteq Orchestrations
OrchTells(o) == Told(orch[o], StatusesOf(o), o \in activeRequests)
LoadTells(a) == workload[a] = Cardinality(AtWork(a))
AgentInv == AgentsTyped /\ (\A o \in Orchestrations : OrchTells(o)) /\ (\A a \in Agents : LoadTells(a))

\* The statuses of an orchestration's tasks.
LEMMA StatusesTyped ==
    ASSUME TasksTyped, NEW o \in Orchestrations
    PROVE  StatusesOf(o) \in StatusRecord /\ \A a \in Agents : StatusesOf(o)[a] = task[<<o, a>>].status
BY DEF TasksTyped, Pairs, StatusesOf, StatusRecord

\* What an orchestration has come to stays while it is listed or no longer,
\* and nothing of it changes.
LEMMA OrchStays ==
    ASSUME NEW o \in Orchestrations, OrchTells(o), orch'[o] = orch[o], StatusesOf(o)' = StatusesOf(o),
           o \in activeRequests' => o \in activeRequests
    PROVE  OrchTells(o)'
BY DEF OrchTells, Told

\* A step within a plan leaves all of the statuses as they are.
LEMMA WithinPlan ==
    ASSUME AgentInv, UNCHANGED <<orch, workload, activeRequests>>,
           task' = [k \in Pairs |-> task'[k]],
           \A k \in Pairs : "status" \in DOMAIN task'[k] /\ task'[k].status = task[k].status
    PROVE  AgentInv'
<1>1. AgentsTyped'
  BY DEF AgentInv, AgentsTyped, TasksTyped, Pairs
<1>2. ASSUME NEW o \in Orchestrations PROVE OrchTells(o)'
  <2>1. StatusesOf(o)' = StatusesOf(o)
    BY DEF StatusesOf, Pairs
  <2> QED
    BY <2>1, OrchStays DEF AgentInv
<1>3. ASSUME NEW a \in Agents PROVE LoadTells(a)'
  <2>1. AtWork(a)' = AtWork(a)
    BY DEF AtWork, Coordinated, Pairs
  <2> QED
    BY <2>1 DEF AgentInv, LoadTells
<1> QED
  BY <1>1, <1>2, <1>3 DEF AgentInv

\* So does what happens to the tools.
LEMMA ToolStep ==
    ASSUME AgentInv, NEW k \in Pairs,
           StepRefused(k) \/ ToolValidates(k) \/ ToolStarts(k) \/ ToolTimesOut(k) \/ ToolAnswers(k)
    PROVE  AgentInv'
<1>1. TasksTyped
  BY DEF AgentInv, AgentsTyped
<1>2. UNCHANGED <<orch, workload, activeRequests>>
  BY DEF ToolValidates, ToolStarts, StepRefused, ToolTimesOut, ToolAnswers, InputAccepted, InputRefused,
         ToolReturns, Does, Cut
<1>3. (\E does : task' = [task EXCEPT ![k].tool = does]) \/ \E ok \in BOOLEAN : Over(k, ok)
  BY DEF ToolValidates, ToolStarts, StepRefused, ToolTimesOut, ToolAnswers, InputAccepted, InputRefused,
         ToolReturns, Does, Cut
<1>4. ASSUME NEW t, \/ \E does : t = [task[k] EXCEPT !.tool = does]
                    \/ \E left, good : t = [task[k] EXCEPT !.left = left, !.tool = "rests", !.good = good],
             task' = [task EXCEPT ![k] = t]
      PROVE  AgentInv'
  <2>1. "status" \in DOMAIN t /\ t.status = task[k].status
    BY <1>1, <1>4 DEF TasksTyped
  <2>2. task' = [j \in Pairs |-> task'[j]]
    BY <1>1, <1>4 DEF TasksTyped
  <2>3. \A j \in Pairs : task'[j] = IF j = k THEN t ELSE task[j]
    BY <1>1, <1>4 DEF TasksTyped
  <2>4. \A j \in Pairs : "status" \in DOMAIN task'[j] /\ task'[j].status = task[j].status
    BY <1>1, <2>1, <2>3 DEF TasksTyped
  <2> QED
    BY <1>2, <2>2, <2>4, WithinPlan
<1>5. CASE \E does : task' = [task EXCEPT ![k].tool = does]
  BY <1>4, <1>5
<1>6. CASE \E ok \in BOOLEAN : Over(k, ok)
  <2>1. PICK ok \in BOOLEAN : Over(k, ok)
    BY <1>6
  <2>2. task' = [task EXCEPT ![k] = [task[k] EXCEPT !.left = Tail(@), !.tool = "rests", !.good = @ /\ ok]]
    BY <1>1, <2>1 DEF Over, TasksTyped
  <2> QED
    BY <1>4, <2>2
<1> QED
  BY <1>3, <1>5, <1>6

\* The last step of a plan is over: the task is, and the agent has it no more.
LEMMA TaskStep ==
    ASSUME AgentInv, NEW o \in Orchestrations, NEW b \in Agents, TaskEnds(<<o, b>>)
    PROVE  AgentInv'
<1> DEFINE k == <<o, b>>
           x == IF task[k].good THEN "ok" ELSE "failed"
<1>1. AgentsTyped /\ TasksTyped /\ OrchTells(o) /\ task[k].status = "running"
  BY DEF AgentInv, AgentsTyped, TaskEnds
<1>2. x \in {"ok", "failed"} /\ x \in TaskStatuses
  BY DEF TaskStatuses
<1>3. UNCHANGED <<orch, activeRequests>> /\ task' = [task EXCEPT ![k] = [NoTask EXCEPT !.status = x]]
  BY DEF TaskEnds, Ended
<1>4. workload' = IF Coordinated(o) /\ workload[b] > 0 THEN [workload EXCEPT ![b] = workload[b] - 1] ELSE workload
  BY DEF TaskEnds, Load
<1> HIDE DEF x
<1>5. [NoTask EXCEPT !.status = x].status = x /\ "status" \in DOMAIN [NoTask EXCEPT !.status = x]
  BY DEF NoTask
<1>6. k \in Pairs /\ \A p \in Orchestrations, a \in Agents : <<p, a>> \in Pairs
  BY DEF Pairs
<1>7. /\ task' = [j \in Pairs |-> task'[j]]
      /\ \A j \in Pairs : task'[j] = IF j = k THEN [NoTask EXCEPT !.status = x] ELSE task[j]
  BY <1>1, <1>3 DEF TasksTyped
<1>8. \A p \in Orchestrations, a \in Agents :
        task'[<<p, a>>].status = IF p = o /\ a = b THEN x ELSE task[<<p, a>>].status
  BY <1>5, <1>6, <1>7
<1>9. TasksTyped'
  <2>1. ASSUME NEW j \in Pairs PROVE "status" \in DOMAIN task'[j] /\ task'[j].status \in TaskStatuses
    BY <1>1, <1>2, <1>5, <1>7 DEF TasksTyped
  <2>2. Pairs' = Pairs
    BY DEF Pairs
  <2> QED
    BY <1>7, <2>1, <2>2 DEF TasksTyped
<1>10. ASSUME NEW p \in Orchestrations PROVE OrchTells(p)'
  <2>1. CASE p = o
    <3>1. StatusesOf(o)' = [StatusesOf(o) EXCEPT ![b] = x]
      BY <1>8 DEF StatusesOf
    <3>2. StatusesOf(o) \in StatusRecord /\ StatusesOf(o)[b] = "running" /\ orch[o] \in OrchRecord
      BY <1>1, StatusesTyped DEF AgentsTyped
    <3>3. Told(orch[o], [StatusesOf(o) EXCEPT ![b] = x], o \in activeRequests)
      BY <1>1, <1>2, <3>2, OneEnds DEF OrchTells
    <3> QED
      BY <1>3, <2>1, <3>1, <3>3 DEF OrchTells
  <2>2. CASE p # o
    <3>1. StatusesOf(p)' = StatusesOf(p)
      BY <1>8, <2>2 DEF StatusesOf
    <3> QED
      BY <1>3, <3>1, OrchStays DEF AgentInv
  <2> QED
    BY <2>1, <2>2
<1>11. ASSUME NEW a \in Agents PROVE LoadTells(a)' /\ workload'[a] \in Nat
  <2>1. workload \in [Agents -> Nat] /\ workload[a] = Cardinality(AtWork(a)) /\ IsFiniteSet(AtWork(a))
    <3>1. AtWork(a) \subseteq Orchestrations
      BY DEF AtWork
    <3> QED
      BY <3>1, AgentAssumption, FS_Subset DEF AgentInv, AgentsTyped, LoadTells
  <2>2. CASE a = b /\ Coordinated(o)
    <3>1. AtWork(a)' = AtWork(a) \ {o} /\ o \in AtWork(a)
      BY <1>1, <1>2, <1>3, <1>8, <2>2 DEF AtWork, Coordinated
    <3>2. Cardinality(AtWork(a) \ {o}) = Cardinality(AtWork(a)) - 1
      BY <2>1, <3>1, FS_RemoveElement
    <3>3. workload[a] > 0
      BY <2>1, <3>1, FS_EmptySet
    <3>4. workload'[a] = workload[a] - 1
      BY <1>4, <2>1, <2>2, <3>3
    <3> QED
      BY <2>1, <3>1, <3>2, <3>3, <3>4 DEF LoadTells
  <2>3. CASE a # b \/ ~Coordinated(o)
    <3>1. AtWork(a)' = AtWork(a)
      BY <1>1, <1>3, <1>8, <2>3 DEF AtWork, Coordinated
    <3>2. workload'[a] = workload[a]
      BY <1>4, <2>1, <2>3
    <3> QED
      BY <2>1, <3>1, <3>2 DEF LoadTells
  <2> QED
    BY <2>2, <2>3
<1>12. workload' \in [Agents -> Nat]
  <2>1. workload' = [a \in Agents |-> workload'[a]]
    BY <1>1, <1>4 DEF AgentsTyped
  <2> QED
    BY <1>11, <2>1
<1> QED
  BY <1>1, <1>3, <1>9, <1>10, <1>11, <1>12 DEF AgentInv, AgentsTyped

\* A task that starts runs, or has failed.
LEMMA StartedTells ==
    ASSUME NEW mode, NEW a, NEW text
    PROVE  /\ "status" \in DOMAIN Started(mode, a, text)
           /\ Started(mode, a, text).status \in {"running", "failed"}
BY DEF Started, Failed, NoTask

\* A level of an orchestration starts: its tasks do, and only they, and the
\* load grows by those that run.
LEMMA LevelStarts ==
    ASSUME AgentInv, NEW o \in Orchestrations, NEW mode, NEW text, NEW level \in SUBSET Agents,
           task' = Begun(o, mode, text, level), workload' = Loaded(mode, text, level),
           \A p \in Orchestrations : orch'[p].mode = IF p = o THEN mode ELSE orch[p].mode,
           \A a \in Agents : task[<<o, a>>].status = "running" => a \notin level /\ orch[o].mode = mode
    PROVE  /\ TasksTyped' /\ workload' \in [Agents -> Nat]
           /\ \A a \in Agents : LoadTells(a)'
           /\ \A p \in Orchestrations, a \in Agents :
                IF p = o /\ a \in level THEN StatusesOf(p)'[a] \in {"running", "failed"}
                ELSE StatusesOf(p)'[a] = StatusesOf(p)[a]
<1>1. TasksTyped /\ DOMAIN task = Pairs /\ workload \in [Agents -> Nat]
  BY DEF AgentInv, AgentsTyped, TasksTyped
<1>2. task' = [k \in Pairs |-> IF k[1] = o /\ k[2] \in level THEN Started(mode, k[2], text) ELSE task[k]]
  BY <1>1 DEF Begun
<1>3. ASSUME NEW p \in Orchestrations, NEW a \in Agents
      PROVE  task'[<<p, a>>] = IF p = o /\ a \in level THEN Started(mode, a, text) ELSE task[<<p, a>>]
  BY <1>2 DEF Pairs
<1>4. ASSUME NEW k \in Pairs PROVE "status" \in DOMAIN task'[k] /\ task'[k].status \in TaskStatuses
  <2>1. "status" \in DOMAIN task[k] /\ task[k].status \in TaskStatuses
    BY <1>1 DEF TasksTyped
  <2>2. "status" \in DOMAIN Started(mode, k[2], text) /\ Started(mode, k[2], text).status \in TaskStatuses
    BY StartedTells DEF TaskStatuses
  <2> QED
    BY <1>2, <2>1, <2>2
<1>5. TasksTyped'
  <2>1. task' = [k \in Pairs |-> task'[k]]
    BY <1>2
  <2> QED
    BY <1>4, <2>1 DEF TasksTyped, Pairs
<1>6. ASSUME NEW p \in Orchestrations, NEW a \in Agents
      PROVE  IF p = o /\ a \in level THEN StatusesOf(p)'[a] \in {"running", "failed"}
             ELSE StatusesOf(p)'[a] = StatusesOf(p)[a]
  BY <1>3, StartedTells DEF StatusesOf
<1>7. ASSUME NEW a \in Agents PROVE LoadTells(a)' /\ workload'[a] \in Nat
  <2>1. workload[a] = Cardinality(AtWork(a)) /\ workload[a] \in Nat /\ IsFiniteSet(AtWork(a))
    <3>1. AtWork(a) \subseteq Orchestrations
      BY DEF AtWork
    <3> QED
      BY <1>1, <3>1, AgentAssumption, FS_Subset DEF AgentInv, LoadTells
  <2>2. workload'[a] = IF mode = "dag" /\ a \in level /\ Started(mode, a, text).status = "running"
                       THEN workload[a] + 1 ELSE workload[a]
    BY DEF Loaded
  <2>3. CASE mode = "dag" /\ a \in level /\ Started(mode, a, text).status = "running"
    <3>1. AtWork(a)' = AtWork(a) \cup {o} /\ o \notin AtWork(a)
      BY <1>3, <2>3 DEF AtWork, Coordinated
    <3>2. Cardinality(AtWork(a) \cup {o}) = Cardinality(AtWork(a)) + 1
      BY <2>1, <3>1, FS_AddElement
    <3> QED
      BY <2>1, <2>2, <2>3, <3>1, <3>2 DEF LoadTells
  <2>4. CASE ~(mode = "dag" /\ a \in level /\ Started(mode, a, text).status = "running")
    <3>1. ASSUME NEW p \in Orchestrations PROVE p \in AtWork(a)' <=> p \in AtWork(a)
      <4>1. p \in AtWork(a) <=> orch[p].mode = "dag" /\ task[<<p, a>>].status = "running"
        BY DEF AtWork, Coordinated
      <4>2. p \in AtWork(a)' <=> orch'[p].mode = "dag" /\ task'[<<p, a>>].status = "running"
        BY DEF AtWork, Coordinated
      <4>3. CASE p # o
        BY <1>3, <4>1, <4>2, <4>3
      <4>4. CASE p = o /\ a \in level
        BY <1>3, <2>4, <4>1, <4>2, <4>4
      <4>5. CASE p = o /\ a \notin level
        BY <1>3, <4>1, <4>2, <4>5
      <4> QED
        BY <4>3, <4>4, <4>5
    <3>2. AtWork(a)' = AtWork(a)
      BY <3>1 DEF AtWork
    <3> QED
      BY <2>1, <2>2, <2>4, <3>2 DEF LoadTells
  <2> QED
    BY <2>3, <2>4
<1>8. workload' \in [Agents -> Nat]
  BY <1>7 DEF Loaded
<1> QED
  BY <1>5, <1>6, <1>7, <1>8

\* An orchestration begins.
LEMMA OrchestrateStep ==
    ASSUME AgentInv, NEW o \in Orchestrations, Orchestrate(o)
    PROVE  AgentInv'
<1>1. orch[o].mode = "none" /\ AgentsTyped /\ OrchTells(o)
  BY DEF Orchestrate, AgentInv
<1>a. PICK mode \in Modes, text \in Texts :
        \E names \in IF mode = "agents" THEN Teams ELSE {<<>>} :
        LET levels == Levels(mode, text, names)
        IN /\ orch' = [orch EXCEPT ![o] =
                 [mode |-> mode, text |-> text, levels |-> levels, at |-> 1, success |-> FALSE]]
           /\ task' = Begun(o, mode, text, levels[1])
           /\ workload' = Loaded(mode, text, levels[1])
           /\ activeRequests' = IF mode = "agents" THEN activeRequests ELSE activeRequests \cup {o}
  BY DEF Orchestrate
<1>2. PICK names \in (IF mode = "agents" THEN Teams ELSE {<<>>}) :
        LET levels == Levels(mode, text, names)
        IN /\ orch' = [orch EXCEPT ![o] =
                 [mode |-> mode, text |-> text, levels |-> levels, at |-> 1, success |-> FALSE]]
           /\ task' = Begun(o, mode, text, levels[1])
           /\ workload' = Loaded(mode, text, levels[1])
           /\ activeRequests' = IF mode = "agents" THEN activeRequests ELSE activeRequests \cup {o}
  BY <1>a
<1> DEFINE levels == Levels(mode, text, names)
           r == [mode |-> mode, text |-> text, levels |-> levels, at |-> 1, success |-> FALSE]
<1>3. AreLevels(levels)
  BY LevelsTell
<1>4. orch' = [orch EXCEPT ![o] = r] /\ task' = Begun(o, mode, text, levels[1]) /\ workload' = Loaded(mode, text, levels[1])
      /\ activeRequests' \subseteq activeRequests \cup {o}
  BY <1>2
<1> HIDE DEF levels
<1>5. r \in OrchRecord /\ r.mode = mode /\ mode # "none" /\ r.levels = levels /\ r.at = 1 /\ ~r.success
  BY <1>3 DEF OrchRecord, AreLevels, Modes
<1> HIDE DEF r
<1>6. orch' \in [Orchestrations -> OrchRecord] /\ \A p \in Orchestrations : orch'[p] = IF p = o THEN r ELSE orch[p]
  BY <1>1, <1>4, <1>5 DEF AgentsTyped
<1>7. \A a \in Agents : task[<<o, a>>].status = "none"
  BY <1>1, StatusesTyped DEF OrchTells, Told, AgentsTyped
<1>8. levels[1] \in SUBSET Agents
  BY <1>3, LevelPositions
<1>9. /\ TasksTyped' /\ workload' \in [Agents -> Nat]
      /\ \A a \in Agents : LoadTells(a)'
      /\ \A p \in Orchestrations, a \in Agents :
           IF p = o /\ a \in levels[1] THEN StatusesOf(p)'[a] \in {"running", "failed"}
           ELSE StatusesOf(p)'[a] = StatusesOf(p)[a]
  <2>1. \A p \in Orchestrations : orch'[p].mode = IF p = o THEN mode ELSE orch[p].mode
    BY <1>5, <1>6
  <2>2. \A a \in Agents : task[<<o, a>>].status = "running" => a \notin levels[1] /\ orch[o].mode = mode
    BY <1>7
  <2> QED
    BY <1>4, <1>8, <2>1, <2>2, LevelStarts
<1>10. ASSUME NEW p \in Orchestrations PROVE OrchTells(p)'
  <2>1. CASE p = o
    <3>1. StatusesOf(o)' \in StatusRecord
      BY <1>9 DEF TasksTyped, StatusesOf, StatusRecord, Pairs
    <3>2. \A a \in Agents : a \notin r.levels[1] => StatusesOf(o)'[a] = "none"
      <4>1. \A a \in Agents : StatusesOf(o)[a] = "none"
        BY <1>7 DEF StatusesOf
      <4> QED
        BY <1>5, <1>9, <4>1
    <3>3. Told(r, StatusesOf(o)', o \in activeRequests')
      BY <1>3, <1>5, <3>1, <3>2, FirstBegins
    <3> QED
      BY <1>6, <2>1, <3>3 DEF OrchTells
  <2>2. CASE p # o
    <3>1. StatusesOf(p)' = StatusesOf(p)
      <4>1. \A a \in Agents : StatusesOf(p)'[a] = StatusesOf(p)[a]
        BY <1>9, <2>2
      <4> QED
        BY <4>1 DEF StatusesOf
    <3>2. p \in activeRequests' => p \in activeRequests
      BY <1>4, <2>2
    <3> QED
      BY <1>6, <2>2, <3>1, <3>2, OrchStays DEF AgentInv
  <2> QED
    BY <2>1, <2>2
<1>11. activeRequests' \subseteq Orchestrations
  BY <1>1, <1>4 DEF AgentsTyped
<1> QED
  BY <1>6, <1>9, <1>10, <1>11 DEF AgentInv, AgentsTyped

\* A level has answered: the next begins, or all is over.
LEMMA LevelStep ==
    ASSUME AgentInv, NEW o \in Orchestrations, LevelEnds(o)
    PROVE  AgentInv'
<1> DEFINE r == orch[o]
           st == StatusesOf(o)
           n == Len(r.levels)
<1>1. AgentsTyped /\ TasksTyped /\ Told(r, st, o \in activeRequests) /\ r \in OrchRecord /\ st \in StatusRecord
      /\ \A a \in Agents : st[a] = task[<<o, a>>].status
  BY StatusesTyped DEF AgentInv, AgentsTyped, OrchTells
<1>2. r.mode # "none" /\ r.at > 0 /\ Outcomes(o, r.levels[r.at]) \subseteq {"ok", "failed"}
  BY DEF LevelEnds, Settled, Underway
<1>3. LevelsFollow(r, st) /\ AreLevels(r.levels) /\ r.at \in Nat
  BY <1>1, <1>2 DEF Told, LevelsFollow, OrchRecord
<1>4. /\ n \in Nat /\ n > 0 /\ DOMAIN r.levels = 1 .. n
      /\ \A i \in 1 .. n : r.levels[i] \subseteq Agents /\ r.levels[i] # {}
  BY <1>3, LevelPositions
<1>5. r.at \in 1 .. n
  BY <1>2, <1>3, <1>4 DEF LevelsFollow
<1>6. ASSUME NEW i \in 1 .. n PROVE Outcomes(o, r.levels[i]) = Outcome(st, r.levels[i])
  <2>1. r.levels[i] \subseteq Agents
    BY <1>4
  <2>2. \A a \in r.levels[i] : st[a] = task[<<o, a>>].status
    BY <1>1, <2>1
  <2> HIDE DEF st, r
  <2>3. Outcome(st, r.levels[i]) = {task[<<o, a>>].status : a \in r.levels[i]}
    BY <2>2 DEF Outcome
  <2> QED
    BY <2>3 DEF Outcomes
<1>7. CASE Finish(o, Succeeds(o)) /\ (r.at = n \/ (r.mode = "dag" /\ Outcomes(o, r.levels[r.at]) = {"failed"}))
  <2> DEFINE q == [r EXCEPT !.at = 0, !.success = Succeeds(o)]
  <2>1. orch' = [orch EXCEPT ![o] = q] /\ activeRequests' = activeRequests \ {o} /\ UNCHANGED <<task, workload>>
    BY <1>1, <1>7 DEF Finish, AgentsTyped
  <2>2. Succeeds(o) \in BOOLEAN
    BY DEF Succeeds, AllOk
  <2>3. ASSUME Succeeds(o), r.mode \in {"dag", "agents"}, NEW i \in DOMAIN r.levels PROVE Outcome(st, r.levels[i]) = {"ok"}
    <3>1. \A j \in 1 .. r.at : Outcomes(o, r.levels[j]) = {"ok"}
      BY <2>3 DEF Succeeds, AllOk
    <3>2. r.at = n
      <4>0. r.at \in 1 .. r.at
        BY <1>4, <1>5
      <4>1. Outcomes(o, r.levels[r.at]) = {"ok"}
        BY <3>1, <4>0
      <4> QED
        BY <1>7, <4>1
    <3>3. i \in 1 .. n /\ Outcomes(o, r.levels[i]) = {"ok"}
      BY <1>4, <2>3, <3>1, <3>2
    <3> QED
      BY <1>6, <3>3
  <2>4. Told(q, st, FALSE)
    BY <1>1, <1>2, <2>2, <2>3, AllEnds
  <2>5. q \in OrchRecord /\ q.mode = r.mode
    BY <1>1, <2>2 DEF OrchRecord
  <2> HIDE DEF q
  <2>6. orch' \in [Orchestrations -> OrchRecord] /\ \A p \in Orchestrations : orch'[p] = IF p = o THEN q ELSE orch[p]
    BY <1>1, <2>1, <2>5 DEF AgentsTyped
  <2>7. \A p \in Orchestrations : StatusesOf(p)' = StatusesOf(p)
    BY <2>1 DEF StatusesOf
  <2>8. ASSUME NEW p \in Orchestrations PROVE OrchTells(p)'
    <3>1. CASE p = o
      <4> HIDE DEF st
      <4>1. o \notin activeRequests'
        BY <2>1
      <4>2. Told(q, st, o \in activeRequests')
        BY <2>4, <4>1 DEF Told
      <4>3. orch'[o] = q /\ StatusesOf(o)' = st
        BY <2>6, <2>7 DEF st
      <4> QED
        BY <3>1, <4>2, <4>3 DEF OrchTells
    <3>2. CASE p # o
      BY <2>1, <2>6, <2>7, <3>2, OrchStays DEF AgentInv
    <3> QED
      BY <3>1, <3>2
  <2>9. ASSUME NEW a \in Agents PROVE LoadTells(a)'
    <3>1. \A p \in Orchestrations : orch'[p].mode = orch[p].mode
      BY <2>5, <2>6
    <3>2. AtWork(a)' = AtWork(a)
      BY <2>1, <3>1 DEF AtWork, Coordinated
    <3> QED
      BY <2>1, <3>2 DEF AgentInv, LoadTells
  <2>10. AgentsTyped'
    BY <1>1, <2>1, <2>6 DEF AgentsTyped, TasksTyped, Pairs
  <2> QED
    BY <2>8, <2>9, <2>10 DEF AgentInv
<1>8. CASE Proceed(o) /\ r.at # n /\ ~(r.mode = "dag" /\ Outcomes(o, r.levels[r.at]) = {"failed"})
  <2> DEFINE next == r.at + 1
             level == r.levels[next]
             q == [r EXCEPT !.at = next]
  <2>1. orch' = [orch EXCEPT ![o] = q] /\ task' = Begun(o, r.mode, r.text, level)
        /\ workload' = Loaded(r.mode, r.text, level) /\ UNCHANGED activeRequests
    BY <1>1, <1>8 DEF Proceed, AgentsTyped
  <2>2. next \in 1 .. n /\ next > r.at /\ next \in Nat
    BY <1>4, <1>5, <1>8
  <2>3. level \in SUBSET Agents /\ \A a \in level : st[a] = "none"
    BY <1>2, <1>3, <1>4, <2>2 DEF LevelsFollow
  <2>4. FoundAt(r, st, r.at)
    <3>1. Outcome(st, r.levels[r.at]) \subseteq {"ok", "failed"}
      BY <1>2, <1>5, <1>6
    <3>2. Outcome(st, r.levels[r.at]) # {}
      BY <1>4, <1>5 DEF Outcome
    <3>3. r.mode = "dag" => Outcome(st, r.levels[r.at]) # {"failed"}
      BY <1>5, <1>6, <1>8
    <3> HIDE DEF st, r
    <3> QED
      BY <3>1, <3>2, <3>3 DEF FoundAt
  <2>5. q \in OrchRecord /\ q.mode = r.mode
    BY <1>1, <2>2 DEF OrchRecord
  <2> HIDE DEF level, next
  <2>6. orch' \in [Orchestrations -> OrchRecord] /\ \A p \in Orchestrations : orch'[p] = IF p = o THEN q ELSE orch[p]
    BY <1>1, <2>1, <2>5 DEF AgentsTyped
  <2>7. /\ TasksTyped' /\ workload' \in [Agents -> Nat]
        /\ \A a \in Agents : LoadTells(a)'
        /\ \A p \in Orchestrations, a \in Agents :
             IF p = o /\ a \in level THEN StatusesOf(p)'[a] \in {"running", "failed"}
             ELSE StatusesOf(p)'[a] = StatusesOf(p)[a]
    <3>1. \A p \in Orchestrations : orch'[p].mode = IF p = o THEN r.mode ELSE orch[p].mode
      BY <2>5, <2>6
    <3>2. \A a \in Agents : task[<<o, a>>].status = "running" => a \notin level /\ orch[o].mode = r.mode
      BY <1>1, <2>3
    <3> HIDE DEF st, q
    <3> QED
      BY <2>1, <2>3, <3>1, <3>2, LevelStarts
  <2>8. ASSUME NEW p \in Orchestrations PROVE OrchTells(p)'
    <3>1. CASE p = o
      <4> DEFINE to == StatusesOf(o)'
      <4>1. to \in StatusRecord
        BY <2>7 DEF TasksTyped, StatusesOf, StatusRecord, Pairs
      <4>2. \A a \in Agents : IF a \in level THEN to[a] \in {"running", "failed"} ELSE to[a] = st[a]
        BY <2>7
      <4> HIDE DEF to, st
      <4>3. Told(q, to, o \in activeRequests)
        BY <1>1, <1>2, <1>8, <2>4, <4>1, <4>2, NextBegins DEF level, next
      <4> QED
        BY <2>1, <2>6, <3>1, <4>3 DEF OrchTells, to
    <3>2. CASE p # o
      <4>1. \A a \in Agents : StatusesOf(p)'[a] = StatusesOf(p)[a]
        BY <2>7, <3>2
      <4>2. StatusesOf(p)' = StatusesOf(p)
        BY <4>1 DEF StatusesOf
      <4> QED
        BY <2>1, <2>6, <3>2, <4>2, OrchStays DEF AgentInv
    <3> QED
      BY <3>1, <3>2
  <2> QED
    BY <1>1, <2>1, <2>6, <2>7, <2>8 DEF AgentInv, AgentsTyped
<1> QED
  BY <1>7, <1>8 DEF LevelEnds, LastLevel, Coordinated

\* Cancelling takes it off the list.
LEMMA CancelStep ==
    ASSUME AgentInv, NEW o \in Orchestrations, Cancel(o)
    PROVE  AgentInv'
<1>1. activeRequests' = activeRequests \ {o} /\ UNCHANGED <<orch, task, workload>>
  BY DEF Cancel
<1>2. AgentsTyped'
  BY <1>1 DEF AgentInv, AgentsTyped, TasksTyped, Pairs
<1>3. \A p \in Orchestrations : StatusesOf(p)' = StatusesOf(p)
  BY <1>1 DEF StatusesOf
<1>4. \A p \in Orchestrations : OrchTells(p)'
  BY <1>1, <1>3, OrchStays DEF AgentInv
<1>5. \A a \in Agents : LoadTells(a)'
  BY <1>1 DEF AgentInv, LoadTells, AtWork, Coordinated
<1> QED
  BY <1>2, <1>4, <1>5 DEF AgentInv

\* Nothing of them changes while others move.
LEMMA AgentStays ==
    ASSUME AgentInv, UNCHANGED <<orch, task, workload, activeRequests>>
    PROVE  AgentInv'
<1>1. TasksTyped
  BY DEF AgentInv, AgentsTyped
<1> QED
  BY <1>1, WithinPlan DEF TasksTyped

\* The agents' steps keep their invariant.
LEMMA AgentStep == ASSUME AgentInv, AgentNext PROVE AgentInv'
<1>1. CASE \E o \in Orchestrations : Orchestrate(o) \/ Cancel(o) \/ LevelEnds(o)
  BY <1>1, OrchestrateStep, CancelStep, LevelStep
<1>2. CASE \E k \in Pairs : Goes(k) \/ ToolAnswers(k)
  <2>1. PICK k \in Pairs : Goes(k) \/ ToolAnswers(k)
    BY <1>2
  <2>2. CASE TaskEnds(k)
    <3>1. k[1] \in Orchestrations /\ k[2] \in Agents /\ k = <<k[1], k[2]>>
      BY DEF Pairs
    <3> QED
      BY <2>2, <3>1, TaskStep
  <2> QED
    BY <2>1, <2>2, ToolStep DEF Goes
<1> QED
  BY <1>1, <1>2 DEF AgentNext, Pairs

\* Nobody has anything to do at first.
LEMMA AgentBegins == AgentInit => AgentInv
<1> SUFFICES ASSUME AgentInit PROVE AgentInv
  OBVIOUS
<1> DEFINE none == [mode |-> "none", text |-> {}, levels |-> <<>>, at |-> 0, success |-> FALSE]
<1>1. none \in OrchRecord /\ none.mode = "none" /\ none.at = 0 /\ ~none.success
  <2>1. <<>> \in Seq(SUBSET Agents)
    OBVIOUS
  <2> QED
    BY <2>1 DEF OrchRecord
<1>2. orch = [o \in Orchestrations |-> none] /\ task = [k \in Pairs |-> NoTask] /\ workload = [a \in Agents |-> 0] /\ activeRequests = {}
  BY DEF AgentInit, Pairs
<1> HIDE DEF none
<1>3. NoTask.status = "none" /\ "status" \in DOMAIN NoTask
  BY DEF NoTask
<1>4. AgentsTyped
  BY <1>1, <1>2, <1>3 DEF AgentsTyped, TasksTyped, TaskStatuses
<1>5. ASSUME NEW o \in Orchestrations PROVE OrchTells(o)
  <2>1. \A a \in Agents : StatusesOf(o)[a] = "none"
    BY <1>2, <1>3 DEF StatusesOf, Pairs
  <2>2. orch[o] = none /\ o \notin activeRequests
    BY <1>2
  <2> QED
    BY <1>1, <2>1, <2>2 DEF OrchTells, Told
<1>6. ASSUME NEW a \in Agents PROVE LoadTells(a)
  <2>1. AtWork(a) = {}
    BY <1>1, <1>2 DEF AtWork, Coordinated
  <2> QED
    BY <1>2, <2>1, FS_EmptySet DEF LoadTells
<1> QED
  BY <1>4, <1>5, <1>6 DEF AgentInv

\* The invariant is what is promised of the agents.
LEMMA AgentInvTells == AgentInv => WorkloadTells /\ SynthesisHasFindings
<1> SUFFICES ASSUME AgentInv PROVE WorkloadTells /\ SynthesisHasFindings
  OBVIOUS
<1>1. WorkloadTells
  <2>1. \A a \in Agents : workload[a] = Cardinality({o \in Orchestrations : Coordinated(o) /\ task[<<o, a>>].status = "running"})
    BY DEF AgentInv, LoadTells, AtWork
  <2>2. \A o \in activeRequests : Underway(o)
    BY DEF AgentInv, AgentsTyped, OrchTells, Told, Underway
  <2> QED
    BY <2>1, <2>2 DEF WorkloadTells
<1>2. SynthesisHasFindings
  <2> SUFFICES ASSUME NEW o \in Orchestrations, orch[o].mode # "none"
               PROVE  LET levels == orch[o].levels
                      IN /\ \A i \in 2..Len(levels) : Outcomes(o, levels[i]) # {"none"} =>
                              /\ Outcomes(o, levels[i - 1]) \subseteq {"ok", "failed"}
                              /\ Coordinated(o) => "ok" \in Outcomes(o, levels[i - 1])
                         /\ orch[o].success /\ orch[o].mode \in {"dag", "agents"} =>
                              \A i \in DOMAIN levels : Outcomes(o, levels[i]) = {"ok"}
    BY DEF SynthesisHasFindings
  <2> DEFINE levels == orch[o].levels
             st == StatusesOf(o)
  <2>1. LevelsFollow(orch[o], st) /\ AreLevels(levels)
    BY DEF AgentInv, OrchTells, Told, LevelsFollow
  <2>2. /\ Len(levels) \in Nat /\ DOMAIN levels = 1 .. Len(levels)
        /\ \A i \in 1 .. Len(levels) : levels[i] \subseteq Agents
    BY <2>1, LevelPositions
  <2>3. ASSUME NEW i \in 1 .. Len(levels) PROVE Outcomes(o, levels[i]) = Outcome(st, levels[i])
    <3>1. \A a \in levels[i] : st[a] = task[<<o, a>>].status
      BY <2>2, StatusesTyped DEF AgentInv, AgentsTyped
    <3> HIDE DEF st, levels
    <3>2. Outcome(st, levels[i]) = {task[<<o, a>>].status : a \in levels[i]}
      BY <3>1 DEF Outcome
    <3> QED
      BY <3>2 DEF Outcomes
  <2>4. ASSUME NEW i \in 2 .. Len(levels), Outcomes(o, levels[i]) # {"none"}
        PROVE  /\ Outcomes(o, levels[i - 1]) \subseteq {"ok", "failed"}
               /\ Coordinated(o) => "ok" \in Outcomes(o, levels[i - 1])
    <3>1. i \in 1 .. Len(levels) /\ i - 1 \in 1 .. Len(levels)
      BY <2>2
    <3>2. FoundAt(orch[o], st, i - 1)
      BY <2>1, <2>3, <2>4, <3>1 DEF LevelsFollow
    <3> QED
      BY <2>3, <3>1, <3>2 DEF FoundAt, Coordinated
  <2>5. ASSUME orch[o].success, orch[o].mode \in {"dag", "agents"}, NEW i \in DOMAIN levels
        PROVE  Outcomes(o, levels[i]) = {"ok"}
    BY <2>1, <2>2, <2>3, <2>5 DEF LevelsFollow
  <2> QED
    BY <2>4, <2>5
<1> QED
  BY <1>1, <1>2

\* And every agent has a plan.
LEMMA AllPlansDeclared == PlansDeclared
BY PlansTell DEF PlansDeclared

-----------------------------------------------------------------------------
(* The platform: one service moves at a time.                               *)

\* What every step of the platform is to the services.
LEMMA PlatformSteps ==
    ASSUME PlatformNext
    PROVE  /\ McpNext \/ UNCHANGED mcpVars
           /\ ProviderNext \/ UNCHANGED providerVars
           /\ GatewayNext \/ UNCHANGED gatewayVars
           /\ WebhookNext \/ UNCHANGED webhookVars
           /\ ScheduleNext \/ UNCHANGED scheduleVars
           /\ CacheNext \/ UNCHANGED cacheVars
           /\ KnowledgeNext \/ UNCHANGED knowledgeVars
           /\ ConversationNext \/ UNCHANGED chatVars
           /\ AgentNext \/ UNCHANGED agentVars
<1>1. McpNext \/ UNCHANGED mcpVars
  BY ZenonT(30) DEF PlatformNext, OthersStay
<1>2. ProviderNext \/ UNCHANGED providerVars
  BY ZenonT(30) DEF PlatformNext, OthersStay
<1>3. GatewayNext \/ UNCHANGED gatewayVars
  BY ZenonT(30) DEF PlatformNext, OthersStay
<1>4. WebhookNext \/ UNCHANGED webhookVars
  BY ZenonT(30) DEF PlatformNext, OthersStay
<1>5. ScheduleNext \/ UNCHANGED scheduleVars
  BY ZenonT(30) DEF PlatformNext, OthersStay
<1>6. CacheNext \/ UNCHANGED cacheVars
  BY ZenonT(30) DEF PlatformNext, OthersStay
<1>7. KnowledgeNext \/ UNCHANGED knowledgeVars
  BY ZenonT(30) DEF PlatformNext, OthersStay
<1>8. ConversationNext \/ UNCHANGED chatVars
  BY ZenonT(30) DEF PlatformNext, OthersStay
<1>9. AgentNext \/ UNCHANGED agentVars
  BY ZenonT(30) DEF PlatformNext, OthersStay
<1> QED
  BY <1>1, <1>2, <1>3, <1>4, <1>5, <1>6, <1>7, <1>8, <1>9, Zenon

PlatformInv ==
    /\ McpInv /\ ScheduleInv /\ GatewayInv /\ WebhookInv /\ ProviderInv /\ CacheInv /\ KnowledgeInv /\ TextsTold
    /\ ConversationInv /\ AgentInv

\* The services begin in their invariants.
LEMMA PlatformBegins == PlatformInit => PlatformInv
<1> SUFFICES ASSUME PlatformInit PROVE PlatformInv
  OBVIOUS
<1> USE DEF PlatformInit
<1>1. McpInv
  BY DEF McpInit, McpInv, SessionsTyped, Entries, Statuses, TimersOfSessions
<1>2. ScheduleInv
  <2>1. ScheduleTyped /\ Ticking = {}
    BY DEF ScheduleInit, ScheduleTyped, PlanKinds, NoSchedule, NoClock, Ticking
  <2>2. CountsWithin
    BY ScheduleAssumption DEF ScheduleInit, CountsWithin
  <2> QED
    BY <2>1, <2>2 DEF ScheduleInv
<1>3. GatewayInv
  BY DEF GatewayInit, GatewayInv, GatewayTyped, KeysTell, AttemptsTell
<1>4. WebhookInv
  BY DEF WebhookInit, WebhookInv, NoneProcessed, NoneHanded
<1>5. ProviderInv
  <2>1. \A r \in Prompts : prompt[r].at = "none"
    BY DEF ProviderInit, NotSent
  <2> QED
    BY <2>1 DEF ProviderInit, ProviderInv, Selecting, Selected
<1>6. CacheInv
  <2>1. Stored(store) = {}
    BY DEF CacheInit, Stored
  <2>2. CacheTyped
    BY DEF CacheInit, CacheTyped
  <2> QED
    BY <2>1, <2>2 DEF CacheInv
<1>7. KnowledgeInv
  <2>1. KnowledgeTyped
    BY DEF KnowledgeInit, KnowledgeTyped
  <2>2. ASSUME NEW d \in Documents PROVE DocumentTells(d)
    <3>1. document[d] = NoDocument /\ ingest[d] = [at |-> "none", n |-> 0] /\ deletion[d] = NoDeletion
      BY DEF KnowledgeInit
    <3>2. document[d].status = "none" /\ ingest[d].at = "none"
      BY <3>1 DEF NoDocument
    <3>3. InStore(d, vectors) = {} /\ InStore(d, chunks) = {}
      BY DEF KnowledgeInit, InStore
    <3>4. StoresTell(d)
      BY <3>1, <3>2, <3>3 DEF StoresTell
    <3>5. DeletionTells(d)
      BY <3>1 DEF DeletionTells, KnowledgeInit
    <3> QED
      BY <3>4, <3>5 DEF DocumentTells
  <2>3. \A q \in Questions : QuestionTells(q)
    BY DEF KnowledgeInit, QuestionTells
  <2> QED
    BY <2>1, <2>2, <2>3 DEF KnowledgeInv
<1>8. TextsTold
  BY DEF KnowledgeInit, TextsTold
<1>9. ConversationInv
  BY ConversationBegins
<1>10. AgentInv
  BY AgentBegins
<1> QED
  BY <1>1, <1>2, <1>3, <1>4, <1>5, <1>6, <1>7, <1>8, <1>9, <1>10 DEF PlatformInv

\* And every step of the platform keeps them.
LEMMA PlatformStep == PlatformInv /\ [PlatformNext]_platformVars => PlatformInv'
<1> SUFFICES ASSUME PlatformInv, [PlatformNext]_platformVars PROVE PlatformInv'
  OBVIOUS
<1> USE DEF PlatformInv
<1>0. /\ McpNext \/ UNCHANGED mcpVars
      /\ ProviderNext \/ UNCHANGED providerVars
      /\ GatewayNext \/ UNCHANGED gatewayVars
      /\ WebhookNext \/ UNCHANGED webhookVars
      /\ ScheduleNext \/ UNCHANGED scheduleVars
      /\ CacheNext \/ UNCHANGED cacheVars
      /\ KnowledgeNext \/ UNCHANGED knowledgeVars
      /\ ConversationNext \/ UNCHANGED chatVars
      /\ AgentNext \/ UNCHANGED agentVars
  <2>1. CASE UNCHANGED platformVars
    BY <2>1 DEF platformVars
  <2> QED
    BY <2>1, PlatformSteps
<1>1. McpInv'
  <2>1. CASE UNCHANGED mcpVars
    BY <2>1 DEF mcpVars, McpInv, SessionsTyped, TimersOfSessions
  <2> QED
    BY <1>0, <2>1, McpStep
<1>2. ScheduleInv'
  <2>1. CASE UNCHANGED scheduleVars
    BY <2>1 DEF scheduleVars, ScheduleInv, ScheduleTyped, CountsWithin, Followed, Tracked, Ticking
  <2> QED
    BY <1>0, <2>1, ScheduleStep
<1>3. GatewayInv'
  <2>1. CASE UNCHANGED gatewayVars
    BY <2>1 DEF gatewayVars, GatewayInv, GatewayTyped, KeysTell, AttemptsTell
  <2> QED
    BY <1>0, <2>1, GatewayStep
<1>4. WebhookInv'
  <2>1. CASE UNCHANGED webhookVars
    BY <2>1 DEF webhookVars, WebhookInv
  <2> QED
    BY <1>0, <2>1, WebhookStep
<1>5. ProviderInv'
  <2>1. CASE UNCHANGED providerVars
    BY <2>1 DEF providerVars, ProviderInv, Selecting, Selected, Steady, Configured
  <2> QED
    BY <1>0, <2>1, ProviderStep
<1>6. CacheInv'
  <2>1. CASE UNCHANGED cacheVars
    BY <2>1 DEF cacheVars, CacheInv, CacheTyped, InIndexes, Stored
  <2> QED
    BY <1>0, <2>1, CacheStep
<1>7. KnowledgeInv'
  <2>1. CASE UNCHANGED knowledgeVars
    <3>1. \A d \in Documents : SameOf(d)
      BY <2>1 DEF knowledgeVars, SameOf, InStore
    <3>2. \A d \in Documents : DocumentTells(d)'
      BY <3>1, SameTells DEF KnowledgeInv
    <3>3. \A q \in Questions : QuestionTells(q)'
      BY <2>1 DEF knowledgeVars, KnowledgeInv, QuestionTells
    <3>4. KnowledgeTyped'
      BY <2>1 DEF knowledgeVars, KnowledgeInv, KnowledgeTyped
    <3> QED
      BY <3>2, <3>3, <3>4 DEF KnowledgeInv
  <2> QED
    BY <1>0, <2>1, KnowledgeStep
<1>8. TextsTold'
  <2>1. CASE UNCHANGED knowledgeVars
    BY <2>1 DEF knowledgeVars, TextsTold
  <2> QED
    BY <1>0, <2>1, TextsStep DEF KnowledgeInv
<1>9. ConversationInv'
  <2>1. CASE UNCHANGED chatVars
    BY <2>1, ConversationStays DEF chatVars
  <2> QED
    BY <1>0, <2>1, ConversationStep
<1>10. AgentInv'
  <2>1. CASE UNCHANGED agentVars
    BY <2>1, AgentStays DEF agentVars
  <2> QED
    BY <1>0, <2>1, AgentStep
<1> QED
  BY <1>1, <1>2, <1>3, <1>4, <1>5, <1>6, <1>7, <1>8, <1>9, <1>10

\* The invariants hold of every behaviour.
LEMMA PlatformInvariant == PlatformSpec => []PlatformInv
BY PlatformBegins, PlatformStep, PTL DEF PlatformSpec

\* No timer outlives the session or the schedule it was set for, but the
\* timers of a schedule that a second schedule() or resume() made its id lose
\* (MCPSessionManager, JobSchedulerService).
THEOREM TimersAreStopped == PlatformSpec => []TimersHold
<1>1. PlatformInv => TimersHold
  BY DEF PlatformInv, McpInv, ScheduleInv, CountsWithin, Followed, TimersHold, SchedulesStop
<1> QED
  BY <1>1, PlatformInvariant, PTL

\* What is tried or delivered again takes effect once, and a request that
\* selects finds a provider that is up all the time (StripeProvider,
\* RazorpayProvider, ProviderRouterService).
THEOREM AdaptersAlwaysHold == PlatformSpec => []AdaptersHold
<1>1. PlatformInv => AdaptersHold
  <2> SUFFICES ASSUME PlatformInv PROVE AdaptersHold
    OBVIOUS
  <2>1. MadeOnce /\ SelectionHolds
    BY GatewayInvTells, ProviderInvTells DEF PlatformInv
  <2>2. HandedOnce
    BY DEF PlatformInv, WebhookInv, HandedOnce
  <2> QED
    BY <2>1, <2>2 DEF AdaptersHold
<1> QED
  BY <1>1, PlatformInvariant, PTL

\* What is stored can be found and deleted again: the indexes of a cache cover
\* its entries, the chunks of a text cover it, those of a document are in both
\* stores or in none, and an answer is of the organisation's own
\* (MemoryCacheProvider, FixedSizeChunkStrategy, HeadingAwareChunkStrategy,
\* KnowledgeManagerService, RagService).
THEOREM IndexesAlwaysHold == PlatformSpec => []IndexesHold
<1>1. PlatformInv => IndexesHold
  <2> SUFFICES ASSUME PlatformInv PROVE IndexesHold
    OBVIOUS
  <2>1. IndexesCover
    BY DEF PlatformInv, CacheInv, InIndexes, IndexesCover
  <2>2. IndexAgrees /\ AnswersOwn
    BY KnowledgeInvTells DEF PlatformInv
  <2>3. ChunksCover
    BY TextsCovered DEF PlatformInv
  <2> QED
    BY <2>1, <2>2, <2>3 DEF IndexesHold
<1> QED
  BY <1>1, PlatformInvariant, PTL

\* The session of a user is of a conversation that goes on or about to be
\* closed, its tokens are counted right, and a context window tells its size
\* and keeps to its limit (ConversationManagerService, SessionMemoryService,
\* ContextWindowService).
THEOREM ConversationsAlwaysHold == PlatformSpec => []ConversationsHold
<1>1. PlatformInv => ConversationsHold
  BY DEF PlatformInv, ConversationInv, ConversationsHold, ContextTells
<1> QED
  BY <1>1, PlatformInvariant, PTL

\* The load of the agents is what they run, nothing is synthesised that was not
\* found, and whatever the request, every agent plans something, with none but
\* the tools that it declares (TaskDelegationService, TaskCoordinatorService,
\* plan() and requiredTools of each agent).
THEOREM AgentsAlwaysTell == PlatformSpec => []AgentsTell
<1>1. PlatformInv => AgentsTell
  BY AgentInvTells, AllPlansDeclared DEF PlatformInv, AgentsTell
<1> QED
  BY <1>1, PlatformInvariant, PTL

-----------------------------------------------------------------------------
(* The AI job queue (JobQueue): a job is never in two places, never lost,   *)
(* and over when it is settled.                                             *)

In(q, i) == \E k \in DOMAIN q : q[k].id = i

Distinct(q) == \A k, l \in DOMAIN q : q[k].id = q[l].id => k = l

-----------------------------------------------------------------------------
(* Queues of copies.                                                        *)

\* A set of numbers that is not empty has a least member, which Min finds.
LEMMA LeastNumber ==
    ASSUME NEW S \in SUBSET Nat, S # {}
    PROVE  Min(S) \in S /\ \A n \in S : Min(S) <= n
<1> DEFINE Less == {p \in Nat \X Nat : p[1] < p[2]}
<1>1. IsWellFoundedOn(Less, Nat)
  BY NatLessThanWellFounded DEF OpToRel
<1>2. PICK m \in S : \A n \in S : <<n, m>> \notin Less
  <2> HIDE DEF Less
  <2> QED
    BY <1>1, WFMin
<1>3. ASSUME NEW n \in S PROVE m <= n
  <2>1. m \in Nat /\ n \in Nat /\ ~(n < m)
    BY <1>2
  <2> QED
    BY <2>1
<1> QED
  BY <1>3 DEF Min

\* Taking out the first copy of a job leaves the others in their order.
LEMMA FirstMatchRemoved ==
    ASSUME NEW q \in Seq(Copy), NEW j, In(q, j)
    PROVE  \E m \in 1 .. Len(q) :
               /\ q[m].id = j
               /\ CopiesWithout(q, j) \in Seq(Copy) /\ Len(CopiesWithout(q, j)) = Len(q) - 1
               /\ \A k \in 1 .. Len(CopiesWithout(q, j)) :
                      CopiesWithout(q, j)[k] = IF k < m THEN q[k] ELSE q[k + 1]
<1> DEFINE I == {i \in 1 .. Len(q) : q[i].id = j}
           m == Min(I)
           a == SubSeq(q, 1, m - 1)
           b == SubSeq(q, m + 1, Len(q))
           n == Len(q)
<1>1. n \in Nat /\ I \subseteq Nat /\ I # {}
  BY DEF In
<1>2. m \in I
  <2> HIDE DEF I
  <2> QED
    BY <1>1, LeastNumber
<1>3. m \in 1 .. n /\ q[m].id = j
  BY <1>2
<1>4. CopiesWithout(q, j) = a \o b
  BY <1>1 DEF CopiesWithout, RemoveFirstMatch, RemoveAt, SelectInSeq, In
<1> HIDE DEF m, I
<1>5. a \in Seq(Copy) /\ Len(a) = m - 1 /\ \A k \in 1 .. m - 1 : a[k] = q[k]
  BY <1>1, <1>3
<1>6. b \in Seq(Copy) /\ Len(b) = n - m /\ \A k \in 1 .. n - m : b[k] = q[m + k]
  BY <1>1, <1>3
<1>7. /\ a \o b \in Seq(Copy) /\ Len(a \o b) = n - 1
      /\ \A k \in 1 .. n - 1 : (a \o b)[k] = IF k < m THEN q[k] ELSE q[k + 1]
  <2>1. a \o b \in Seq(Copy) /\ Len(a \o b) = n - 1
    <3>1. /\ a \in Seq(Copy) /\ b \in Seq(Copy) /\ Len(a) = m - 1 /\ Len(b) = n - m
          /\ n \in Nat /\ m \in Nat
      BY <1>1, <1>3, <1>5, <1>6
    <3> HIDE DEF a, b, n
    <3>2. a \o b \in Seq(Copy) /\ Len(a \o b) = Len(a) + Len(b)
      BY SMTT(60), <3>1
    <3> QED
      BY <3>1, <3>2
  <2>2. ASSUME NEW k \in 1 .. n - 1
        PROVE  (a \o b)[k] = IF k < m THEN q[k] ELSE q[k + 1]
    <3>1. CASE k < m
      <4>1. k \in 1 .. m - 1 /\ a[k] = q[k]
        BY <1>1, <1>3, <1>5, <3>1
      <4> HIDE DEF a, b, n
      <4> QED
        BY <1>3, <1>5, <1>6, <3>1, <4>1
    <3>2. CASE ~(k < m)
      <4>1. k - (m - 1) \in 1 .. n - m /\ m + (k - (m - 1)) = k + 1
        BY <1>1, <1>3, <3>2
      <4>2. b[k - (m - 1)] = q[k + 1]
        BY <1>6, <4>1
      <4>3. (a \o b)[k] = b[k - (m - 1)]
        <5> HIDE DEF a, b, n
        <5> QED
          BY SMTT(60), <1>1, <1>3, <1>5, <1>6, <3>2, <4>1
      <4> QED
        BY <3>2, <4>2, <4>3
    <3> QED
      BY <3>1, <3>2
  <2> QED
    BY <2>1, <2>2
<1> QED
  BY <1>3, <1>4, <1>7

\* Cancelling takes the one copy of a job out of the queue and no other.
LEMMA TakenOut ==
    ASSUME NEW q \in Seq(Copy), Distinct(q), NEW j,
           NEW t, t = CopiesWithout(q, j)
    PROVE  /\ t \in Seq(Copy) /\ Len(t) <= Len(q) /\ Distinct(t)
           /\ \A i : In(t, i) <=> In(q, i) /\ i # j
<1>1. CASE ~In(q, j)
  <2>1. t = q
    BY <1>1 DEF CopiesWithout, RemoveFirstMatch, RemoveAt, SelectInSeq, In
  <2> QED
    BY <1>1, <2>1 DEF In
<1>2. CASE In(q, j)
  <2>1. PICK m \in 1 .. Len(q) :
           /\ q[m].id = j
           /\ t \in Seq(Copy) /\ Len(t) = Len(q) - 1
           /\ \A k \in 1 .. Len(t) : t[k] = IF k < m THEN q[k] ELSE q[k + 1]
    BY <1>2, FirstMatchRemoved
  <2>2. Distinct(t)
    <3> SUFFICES ASSUME NEW k \in DOMAIN t, NEW l \in DOMAIN t, t[k].id = t[l].id
                 PROVE  k = l
      BY DEF Distinct
    <3>1. /\ k \in 1 .. Len(t) /\ l \in 1 .. Len(t)
          /\ k \in DOMAIN q /\ l \in DOMAIN q /\ k + 1 \in DOMAIN q /\ l + 1 \in DOMAIN q
      BY <2>1
    <3> DEFINE k1 == IF k < m THEN k ELSE k + 1
               l1 == IF l < m THEN l ELSE l + 1
    <3>2. t[k] = q[k1] /\ t[l] = q[l1] /\ k1 \in DOMAIN q /\ l1 \in DOMAIN q
      BY <2>1, <3>1
    <3>3. k1 = l1
      <4> HIDE DEF k1, l1
      <4> QED
        BY <3>2 DEF Distinct
    <3> QED
      BY SMTT(60), <2>1, <3>1, <3>3
  <2>3. ASSUME NEW i, In(t, i) PROVE In(q, i) /\ i # j
    <3>1. PICK k \in DOMAIN t : t[k].id = i
      BY <2>3 DEF In
    <3> DEFINE k1 == IF k < m THEN k ELSE k + 1
    <3>2. t[k] = q[k1] /\ k1 \in DOMAIN q /\ k1 # m /\ m \in DOMAIN q
      <4>1. k \in 1 .. Len(t) /\ m \in 1 .. Len(q) /\ Len(q) \in Nat /\ Len(t) = Len(q) - 1
        BY <2>1
      <4> QED
        BY <2>1, <4>1
    <3> HIDE DEF k1
    <3> QED
      BY <2>1, <3>1, <3>2 DEF In, Distinct
  <2>4. ASSUME NEW i, In(q, i), i # j PROVE In(t, i)
    <3>1. PICK k \in DOMAIN q : q[k].id = i
      BY <2>4 DEF In
    <3>2. k # m
      BY <2>1, <2>4, <3>1
    <3> DEFINE k0 == IF k < m THEN k ELSE k - 1
    <3>3. k0 \in DOMAIN t /\ t[k0] = q[k]
      <4>1. /\ k \in 1 .. Len(q) /\ m \in 1 .. Len(q) /\ Len(q) \in Nat /\ k # m
            /\ Len(t) = Len(q) - 1
        BY <2>1, <3>1, <3>2
      <4>2. k0 \in 1 .. Len(t) /\ (IF k0 < m THEN k0 ELSE k0 + 1) = k
        BY <4>1
      <4>3. t[k0] = IF k0 < m THEN q[k0] ELSE q[k0 + 1]
        BY <2>1, <4>2
      <4> QED
        BY <2>1, <4>2, <4>3
    <3> HIDE DEF k0
    <3> QED
      BY <3>1, <3>3 DEF In
  <2> QED
    BY <2>1, <2>2, <2>3, <2>4
<1> QED
  BY <1>1, <1>2

\* A copy of a job that does not wait is appended.
LEMMA Appended ==
    ASSUME NEW q \in Seq(Copy), Distinct(q), NEW c \in Copy, ~In(q, c.id)
    PROVE  /\ Append(q, c) \in Seq(Copy) /\ Len(Append(q, c)) = Len(q) + 1
           /\ Distinct(Append(q, c))
           /\ \A i : In(Append(q, c), i) <=> In(q, i) \/ i = c.id
<1> DEFINE t == Append(q, c)
<1>1. /\ t \in Seq(Copy) /\ Len(t) = Len(q) + 1 /\ t[Len(q) + 1] = c
      /\ DOMAIN t = 1 .. Len(q) + 1 /\ DOMAIN q = 1 .. Len(q) /\ Len(q) \in Nat
      /\ \A k \in DOMAIN q : t[k] = q[k]
  OBVIOUS
<1> HIDE DEF t
<1>2. Distinct(t)
  BY <1>1 DEF Distinct, In
<1>3. \A i : In(t, i) <=> In(q, i) \/ i = c.id
  BY <1>1 DEF In
<1> QED
  BY <1>1, <1>2, <1>3 DEF t

\* The head of the queue is taken.
LEMMA HeadTaken ==
    ASSUME NEW q \in Seq(Copy), Distinct(q), q # <<>>
    PROVE  /\ Head(q) \in Copy /\ In(q, Head(q).id)
           /\ Tail(q) \in Seq(Copy) /\ Len(Tail(q)) <= Len(q) /\ Distinct(Tail(q))
           /\ \A i : In(Tail(q), i) <=> In(q, i) /\ i # Head(q).id
<1> DEFINE t == Tail(q)
<1>1. /\ Head(q) = q[1] /\ 1 \in DOMAIN q /\ q[1] \in Copy
      /\ t \in Seq(Copy) /\ Len(t) = Len(q) - 1 /\ Len(q) \in Nat /\ Len(q) # 0
      /\ DOMAIN t = 1 .. Len(q) - 1 /\ DOMAIN q = 1 .. Len(q)
      /\ \A k \in DOMAIN t : t[k] = q[k + 1]
  OBVIOUS
<1> HIDE DEF t
<1>2. Distinct(t)
  <2> SUFFICES ASSUME NEW k \in DOMAIN t, NEW l \in DOMAIN t, t[k].id = t[l].id
               PROVE  k = l
    BY DEF Distinct
  <2>1. k + 1 \in DOMAIN q /\ l + 1 \in DOMAIN q /\ q[k + 1].id = q[l + 1].id
    BY <1>1
  <2>2. k + 1 = l + 1
    BY <2>1 DEF Distinct
  <2> QED
    BY <1>1, <2>2
<1>3. ASSUME NEW i, In(t, i) PROVE In(q, i) /\ i # Head(q).id
  <2>1. PICK k \in DOMAIN t : t[k].id = i
    BY <1>3 DEF In
  <2>2. k + 1 \in DOMAIN q /\ k + 1 # 1 /\ q[k + 1].id = i
    BY <1>1, <2>1
  <2> QED
    BY <1>1, <2>2 DEF In, Distinct
<1>4. ASSUME NEW i, In(q, i), i # Head(q).id PROVE In(t, i)
  <2>1. PICK k \in DOMAIN q : q[k].id = i
    BY <1>4 DEF In
  <2>2. k # 1 /\ k - 1 \in DOMAIN t /\ (k - 1) + 1 = k
    BY <1>1, <1>4, <2>1
  <2> QED
    BY <1>1, <2>1, <2>2 DEF In
<1> QED
  <2>1. Head(q) \in Copy /\ In(q, Head(q).id) /\ Len(t) <= Len(q)
    BY <1>1 DEF In
  <2>2. \A i : In(t, i) <=> In(q, i) /\ i # Head(q).id
    BY <1>3, <1>4
  <2> QED
    BY <1>1, <1>2, <2>1, <2>2 DEF t

\* A queue without a job is shorter than the set of jobs.
LEMMA RoomLeft ==
    ASSUME NEW q \in Seq(Copy), Distinct(q), NEW j \in Jobs, ~In(q, j)
    PROVE  Cardinality(Jobs) \in Nat /\ Len(q) < Cardinality(Jobs)
<1> DEFINE D == 1 .. Len(q)
           R == Jobs \ {j}
           f == [k \in D |-> q[k].id]
<1>1. f \in Injection(D, R)
  <2>1. ASSUME NEW k \in D PROVE f[k] \in R
    <3>1. k \in DOMAIN q /\ q[k] \in Copy
      OBVIOUS
    <3> QED
      BY <3>1 DEF Copy, In
  <2>2. \A k, l \in D : f[k] = f[l] => k = l
    BY DEF Distinct
  <2> QED
    BY <2>1, <2>2 DEF Injection, IsInjective
<1>2. IsFiniteSet(R) /\ Cardinality(R) = Cardinality(Jobs) - 1 /\ Cardinality(Jobs) \in Nat
  BY JobsAssumption, FS_RemoveElement, FS_CardinalityType
<1>3. Cardinality(D) <= Cardinality(R)
  <2> HIDE DEF f, D, R
  <2> QED
    BY <1>1, <1>2, FS_Injection
<1>4. Cardinality(D) = Len(q)
  <2>1. Len(q) \in Nat
    OBVIOUS
  <2>2. Cardinality(1 .. Len(q)) = IF 1 > Len(q) THEN 0 ELSE Len(q) - 1 + 1
    BY SMTT(60), <2>1, FS_Interval
  <2> QED
    BY <2>1, <2>2
<1> QED
  BY <1>2, <1>3, <1>4

-----------------------------------------------------------------------------
(* The inductive invariant.  EachJobOnce says nothing of where a copy came   *)
(* from: what carries it is that every copy belongs to a saved job, and what *)
(* carries CancelledNeverStarts is that a cancelled job waits nowhere.       *)

\* No two copies in the queue, and no two that run, are of the same job.
Singles ==
    /\ Distinct(queue)
    /\ \A v, w \in Workers :
           worker[v].runs # NoCopy /\ worker[v].runs.id = worker[w].runs.id => v = w

\* Where one job is and what its records say of it.
JobInv(j) ==
    /\ InQueue(j) => delayed[j] = NoCopy /\ ~Running(j)
    /\ Running(j) => delayed[j] = NoCopy /\ j \in active
    /\ record[j].status \in Terminal => ~Held(j) /\ progress[j] = record[j].status
    /\ dlq[j] <= 1 /\ (dlq[j] = 1 => ~Held(j))
    /\ NothingRefused => /\ record[j].status \in {"queued", "processing"} => Held(j)
                         /\ record[j].status = "processing" => Running(j)
    /\ Held(j) \/ dlq[j] > 0 => record[j] # NoRecord
    /\ delayed[j] # NoCopy => delayed[j].id = j
    /\ record[j].status = "cancelled" => ~InQueue(j) /\ delayed[j] = NoCopy

\* A circuit that is closed has not counted up to the threshold; the queue is
\* paused only where it may be.
Within ==
    /\ \A j \in Jobs : ~circuit[j].open => circuit[j].failures < Threshold
    /\ paused => setting.pausing

QueueInv == TypeOK /\ Singles /\ (\A j \in Jobs : JobInv(j)) /\ Within

\* The invariant says what EachJobOnce says.
LEMMA InvariantSuffices ==
    ASSUME QueueInv
    PROVE  EachJobOnce
<1>1. ASSUME NEW j \in Jobs
      PROVE  /\ \A k, l \in DOMAIN queue : queue[k].id = j /\ queue[l].id = j => k = l
             /\ \A v, w \in Workers : worker[v].runs.id = j /\ worker[w].runs.id = j => v = w
  <2>1. j # "none"
    BY JobsAssumption
  <2> QED
    BY <2>1 DEF QueueInv, Singles, Distinct, NoCopy
<1>2. \A j \in Jobs : JobInv(j)
  BY DEF QueueInv
<1>3. OnePlace
  BY <1>1, <1>2 DEF OnePlace, JobInv
<1>4. SettledIsOver /\ NothingLost
  BY <1>2 DEF SettledIsOver, NothingLost, JobInv
<1> QED
  BY <1>3, <1>4 DEF QueueInv, EachJobOnce

\* A job of which a step changes nothing keeps its invariant.
LEMMA UntouchedKeeps ==
    ASSUME NEW i \in Jobs, JobInv(i), setting' = setting,
           record'[i] = record[i], progress'[i] = progress[i],
           delayed'[i] = delayed[i], dlq'[i] = dlq[i],
           InQueue(i)' <=> InQueue(i), Running(i)' <=> Running(i),
           i \in active => i \in active'
    PROVE  JobInv(i)'
BY DEF JobInv, Held, NothingRefused

\* What a worker that waits or takes a copy, and one that lets go of its copy,
\* does to the set of running jobs.
LEMMA WorkerTakes ==
    ASSUME TypeOK, Singles, NEW w \in Workers, worker[w].runs = NoCopy,
           NEW c \in Copy, ~Running(c.id), worker' = [worker EXCEPT ![w].runs = c]
    PROVE  /\ \A i \in Jobs : Running(i)' <=> Running(i) \/ i = c.id
           /\ \A u, v \in Workers :
                 worker'[u].runs # NoCopy /\ worker'[u].runs.id = worker'[v].runs.id => u = v
           /\ worker' \in [Workers -> [draining: BOOLEAN, runs: {NoCopy} \cup Copy]]
<1>1. /\ worker'[w].runs = c /\ \A v \in Workers \ {w} : worker'[v] = worker[v]
      /\ c.id \in Jobs /\ c.id # "none"
      /\ worker' \in [Workers -> [draining: BOOLEAN, runs: {NoCopy} \cup Copy]]
  <2>1. worker \in [Workers -> [draining: BOOLEAN, runs: {NoCopy} \cup Copy]]
    BY DEF TypeOK
  <2>2. worker'[w].runs = c /\ \A v \in Workers \ {w} : worker'[v] = worker[v]
    BY <2>1
  <2>3. worker' \in [Workers -> [draining: BOOLEAN, runs: {NoCopy} \cup Copy]]
    BY <2>1
  <2> QED
    BY <2>2, <2>3, JobsAssumption DEF Copy
<1>2. \A i \in Jobs : i # "none"
  BY JobsAssumption
<1> QED
  BY <1>1, <1>2 DEF Running, Singles, NoCopy

\* A worker that gives up its copy of a job runs nothing.
LEMMA WorkerDrops ==
    ASSUME TypeOK, Singles, NEW w \in Workers, worker[w].runs # NoCopy,
           worker' = [worker EXCEPT ![w].runs = NoCopy]
    PROVE  /\ \A i \in Jobs : Running(i)' <=> Running(i) /\ i # worker[w].runs.id
           /\ \A u, v \in Workers :
                 worker'[u].runs # NoCopy /\ worker'[u].runs.id = worker'[v].runs.id => u = v
           /\ worker' \in [Workers -> [draining: BOOLEAN, runs: {NoCopy} \cup Copy]]
           /\ worker[w].runs \in Copy /\ Running(worker[w].runs.id)
<1>1. /\ worker'[w].runs = NoCopy /\ \A v \in Workers \ {w} : worker'[v] = worker[v]
      /\ worker[w].runs \in Copy /\ worker[w].runs.id \in Jobs
      /\ worker' \in [Workers -> [draining: BOOLEAN, runs: {NoCopy} \cup Copy]]
  BY DEF TypeOK, Copy
<1>2. \A i \in Jobs : i # "none"
  BY JobsAssumption
<1>0. PICK j \in Jobs : j = worker[w].runs.id
  BY <1>1
<1>3. Running(j) /\ ~Running(j)'
  <2>1. Running(j)
    BY <1>0 DEF Running
  <2>2. ASSUME NEW v \in Workers, worker'[v].runs.id = j PROVE FALSE
    <3>1. v # w
      BY <1>1, <1>2, <2>2 DEF NoCopy
    <3>2. worker[v].runs.id = worker[w].runs.id
      BY <1>0, <1>1, <2>2, <3>1
    <3> QED
      BY <3>1, <3>2 DEF Singles
  <2> QED
    BY <2>1, <2>2 DEF Running
<1>4. \A i \in Jobs : i # j => (Running(i)' <=> Running(i))
  BY <1>0, <1>1, <1>2 DEF Running, NoCopy
<1>5. \A u, v \in Workers :
          worker'[u].runs # NoCopy /\ worker'[u].runs.id = worker'[v].runs.id => u = v
  <2> SUFFICES ASSUME NEW u \in Workers, NEW v \in Workers, worker'[u].runs # NoCopy,
                      worker'[u].runs.id = worker'[v].runs.id
               PROVE  u = v
    OBVIOUS
  <2>1. u # w /\ worker[u].runs \in Copy /\ worker[u].runs.id \in Jobs
    BY <1>1 DEF TypeOK, Copy
  <2>2. v # w
    BY <1>1, <1>2, <2>1 DEF NoCopy
  <2> QED
    BY <1>1, <2>1, <2>2 DEF Singles
<1> QED
  BY <1>0, <1>1, <1>3, <1>4, <1>5

\* A submitted job is new: nothing of it is anywhere yet.
LEMMA FreshIsNowhere ==
    ASSUME QueueInv, NEW j \in Jobs, Unsaved(j)
    PROVE  ~InQueue(j) /\ delayed[j] = NoCopy /\ ~Running(j) /\ dlq[j] = 0
<1>1. JobInv(j) /\ dlq[j] \in Nat
  BY DEF QueueInv, TypeOK
<1> QED
  BY <1>1 DEF JobInv, Held, Unsaved

\* Where nothing is refused there is room for a job that is not waiting.
LEMMA RoomWhereNothingRefused ==
    ASSUME QueueInv, NothingRefused, NEW j \in Jobs, ~InQueue(j)
    PROVE  ~Refuses
<1>1. ~paused
  BY DEF QueueInv, Within, NothingRefused
<1>2. Len(queue) < Cardinality(Jobs) /\ Cardinality(Jobs) \in Nat
  BY RoomLeft DEF QueueInv, TypeOK, Singles, InQueue, In
<1>3. setting.capacity \in Nat /\ Len(queue) \in Nat
  BY BoundsAssumption DEF QueueInv, TypeOK
<1> QED
  BY <1>1, <1>2, <1>3 DEF NothingRefused, Refuses

\* Submitting a job: its record is saved, and its first copy waits unless the
\* provider refuses it or the job has a delay.
LEMMA SubmitKeeps ==
    ASSUME QueueInv, NEW j \in Jobs, NEW t \in Types, setting' = setting,
           Enqueue(j, t) \/ EnqueueDelayed(j, t)
             \/ (Unsaved(j) /\ Save(j, t, "queued") /\ Push(j)
                 /\ UNCHANGED <<progress, delayed, scheduled, active, worker, circuit, dlq, paused>>)
    PROVE  QueueInv'
<1>1. /\ Unsaved(j)
      /\ UNCHANGED <<progress, delayed, active, worker, circuit, dlq, paused, setting>>
      /\ scheduled' = scheduled \/ scheduled' = scheduled \cup {j}
      /\ \/ Save(j, t, "queued") /\ Push(j)
         \/ Save(j, t, "delayed") /\ queue' = queue
  BY DEF Enqueue, EnqueueDelayed
<1>2. ~InQueue(j) /\ delayed[j] = NoCopy /\ ~Running(j) /\ dlq[j] = 0 /\ JobInv(j)
  BY <1>1, FreshIsNowhere DEF QueueInv
<1>3. NewCopy(j) \in Copy /\ NewCopy(j).id = j
  BY DEF NewCopy, Copy
<1>4. /\ queue' \in Seq(Copy) /\ Len(queue') <= setting.capacity /\ Distinct(queue')
      /\ \A i \in Jobs \ {j} : InQueue(i)' <=> InQueue(i)
      /\ InQueue(j)' <=> queue' # queue
      /\ queue' # queue => Push(j) /\ ~Refuses
      /\ Push(j) /\ ~Refuses => queue' # queue
  <2>1. /\ queue \in Seq(Copy) /\ Len(queue) \in Nat /\ setting.capacity \in Nat
        /\ Len(queue) <= setting.capacity /\ Distinct(queue) /\ ~In(queue, j)
    BY <1>2, BoundsAssumption DEF QueueInv, TypeOK, Singles, InQueue, In
  <2>2. CASE queue' = queue /\ ~(Push(j) /\ ~Refuses)
    BY <1>2, <2>1, <2>2 DEF InQueue
  <2>3. CASE Push(j) /\ ~Refuses
    <3>1. queue' = Append(queue, NewCopy(j)) /\ Len(queue) < setting.capacity
      BY <2>1, <2>3 DEF Push, Refuses
    <3>2. /\ queue' \in Seq(Copy) /\ Len(queue') = Len(queue) + 1 /\ Distinct(queue')
          /\ \A i : In(queue', i) <=> In(queue, i) \/ i = j
      BY <1>3, <2>1, <3>1, Appended
    <3>3. Len(queue') <= setting.capacity /\ queue' # queue
      BY <2>1, <3>1, <3>2
    <3>5. \A i \in Jobs \ {j} : InQueue(i)' <=> InQueue(i)
      BY <3>2 DEF InQueue, In
    <3>6. InQueue(j)'
      BY <3>2 DEF InQueue, In
    <3> QED
      BY <2>3, <3>2, <3>3, <3>5, <3>6
  <2> QED
    BY <1>1, <2>2, <2>3 DEF Push
<1>5. TypeOK'
  <2>1. record' \in [Jobs -> {NoRecord} \cup Record]
    <3>1. record \in [Jobs -> {NoRecord} \cup Record]
      BY DEF QueueInv, TypeOK
    <3>2. PICK r \in Record : record' = [record EXCEPT ![j] = r]
      BY <1>1 DEF Save, Record, Status, Terminal
    <3> HIDE DEF Record, NoRecord
    <3> QED
      BY <3>1, <3>2
  <2> QED
    BY <1>1, <1>4, <2>1 DEF QueueInv, TypeOK
<1>6. Singles' /\ Within'
  BY <1>1, <1>4 DEF QueueInv, Singles, Within
<1>7. /\ record'[j].status \in {"queued", "delayed"} /\ record'[j] # NoRecord
      /\ record'[j].status = "queued" => Push(j)
      /\ \A i \in Jobs \ {j} : record'[i] = record[i]
  BY <1>1 DEF QueueInv, TypeOK, Save, NoRecord
<1>8. \A i \in Jobs : Running(i)' <=> Running(i)
  BY <1>1 DEF Running
<1>9. JobInv(j)'
  <2>1. NothingRefused' => ~Refuses
    BY <1>1, <1>2, RoomWhereNothingRefused DEF NothingRefused
  <2> QED
    BY <1>1, <1>2, <1>4, <1>7, <1>8, <2>1 DEF JobInv, Held, Terminal
<1>10. \A i \in Jobs \ {j} : JobInv(i)'
  BY <1>1, <1>4, <1>7, <1>8, UntouchedKeeps DEF QueueInv
<1> QED
  BY <1>5, <1>6, <1>9, <1>10 DEF QueueInv

\* The status of a saved job is set, with or without the number of attempts.
LEMMA RecordSet ==
    ASSUME TypeOK, NEW j \in Jobs, NEW r \in Record, record' = [record EXCEPT ![j] = r]
    PROVE  /\ record' \in [Jobs -> {NoRecord} \cup Record]
           /\ record'[j].status = r.status /\ record'[j] # NoRecord
           /\ \A i \in Jobs \ {j} : record'[i] = record[i]
<1>1. record \in [Jobs -> {NoRecord} \cup Record]
  BY DEF TypeOK
<1>2. r # NoRecord
  BY DEF NoRecord, Record, Status, Terminal
<1> QED
  BY <1>1, <1>2

\* Writing a job's status touches no other record.
LEMMA StatusSet ==
    ASSUME TypeOK, NEW j \in Jobs, record[j] # NoRecord, NEW s \in Status, SetStatus(j, s)
    PROVE  /\ record' \in [Jobs -> {NoRecord} \cup Record]
           /\ record'[j].status = s /\ record'[j] # NoRecord
           /\ \A i \in Jobs \ {j} : record'[i] = record[i]
<1> DEFINE r == [record[j] EXCEPT !.status = s]
<1>1. r \in Record /\ r.status = s
  BY DEF TypeOK, Record
<1>2. record' = [record EXCEPT ![j] = r]
  BY DEF SetStatus
<1> HIDE DEF r
<1> QED
  BY <1>1, <1>2, RecordSet

\* Writing a job's status and attempts touches no other record.
LEMMA AttemptSet ==
    ASSUME TypeOK, NEW j \in Jobs, record[j] # NoRecord, NEW s \in Status, NEW n \in Nat,
           SetAttempt(j, s, n)
    PROVE  /\ record' \in [Jobs -> {NoRecord} \cup Record]
           /\ record'[j].status = s /\ record'[j] # NoRecord
           /\ \A i \in Jobs \ {j} : record'[i] = record[i]
<1> DEFINE r == [record[j] EXCEPT !.status = s, !.attempts = n]
<1>1. r \in Record /\ r.status = s
  BY DEF TypeOK, Record
<1>2. record' = [record EXCEPT ![j] = r]
  BY DEF SetAttempt
<1> HIDE DEF r
<1> QED
  BY <1>1, <1>2, RecordSet

\* Cancelling takes the job out of the queue or its timer.
LEMMA CancelKeeps ==
    ASSUME QueueInv, NEW j \in Jobs, CancelJob(j), setting' = setting
    PROVE  QueueInv'
<1>1. /\ record[j] # NoRecord /\ TakeOut(j)
      /\ SetStatus(j, "cancelled") /\ SetProgress(j, "cancelled")
      /\ UNCHANGED <<scheduled, active, worker, circuit, dlq, paused, setting>>
  BY DEF CancelJob
<1>2. TypeOK /\ Singles /\ JobInv(j) /\ "cancelled" \in Status
  BY DEF QueueInv, Status
<1>3. /\ record' \in [Jobs -> {NoRecord} \cup Record]
      /\ record'[j].status = "cancelled" /\ record'[j] # NoRecord
      /\ \A i \in Jobs \ {j} : record'[i] = record[i]
  BY <1>1, <1>2, StatusSet
<1>4. /\ queue' \in Seq(Copy) /\ Len(queue') <= setting.capacity /\ Distinct(queue')
      /\ \A i \in Jobs \ {j} : InQueue(i)' <=> InQueue(i)
      /\ ~InQueue(j)'
  <2>1. /\ queue \in Seq(Copy) /\ Len(queue) \in Nat /\ setting.capacity \in Nat
        /\ Len(queue) <= setting.capacity /\ Distinct(queue) /\ queue' = CopiesWithout(queue, j)
    BY <1>1, <1>2, BoundsAssumption DEF TypeOK, Singles, TakeOut
  <2>2. /\ queue' \in Seq(Copy) /\ Len(queue') <= Len(queue) /\ Distinct(queue')
        /\ \A i : In(queue', i) <=> In(queue, i) /\ i # j
    BY <2>1, TakenOut
  <2>3. Len(queue') <= setting.capacity
    BY <2>1, <2>2
  <2>4. (\A i \in Jobs \ {j} : InQueue(i)' <=> InQueue(i)) /\ ~InQueue(j)'
    BY <2>2 DEF In, InQueue
  <2> QED
    BY <2>2, <2>3, <2>4
<1>5. /\ delayed' \in [Jobs -> {NoCopy} \cup Copy] /\ delayed'[j] = NoCopy
      /\ \A i \in Jobs \ {j} : delayed'[i] = delayed[i]
  BY <1>1, <1>2 DEF TypeOK, TakeOut, JobInv
<1>6. /\ progress' \in [Jobs -> Status \cup {"absent"}]
      /\ \A i \in Jobs \ {j} : progress'[i] = progress[i]
  BY <1>1, <1>2 DEF TypeOK, SetProgress
<1>7. \A i \in Jobs : Running(i)' <=> Running(i)
  BY <1>1 DEF Running
<1>8. TypeOK'
  BY <1>1, <1>2, <1>3, <1>4, <1>5, <1>6 DEF TypeOK
<1>9. Singles' /\ Within'
  BY <1>1, <1>4 DEF QueueInv, Singles, Within
<1>10. JobInv(j)'
  BY <1>1, <1>2, <1>3, <1>4, <1>5, <1>7 DEF JobInv, Held, Terminal
<1>11. \A i \in Jobs \ {j} : JobInv(i)'
  BY <1>1, <1>3, <1>4, <1>5, <1>6, <1>7, UntouchedKeeps DEF QueueInv
<1> QED
  BY <1>8, <1>9, <1>10, <1>11 DEF QueueInv

\* What moves no job: calls on the dead letters and the pause flag, a timer of
\* the scheduler, and a worker that starts or stops to drain.
LEMMA AsideKeeps ==
    ASSUME QueueInv, setting' = setting,
           \/ \E j \in Jobs : RetryDLQ(j) \/ SchedulerFires(j)
           \/ \E types : PurgeDLQ(types)
           \/ \E p \in BOOLEAN : SetPaused(p)
           \/ \E w \in Workers : StartDrain(w) \/ StopDrain(w)
    PROVE  QueueInv'
<1>1. UNCHANGED <<record, progress, queue, delayed, active, circuit, setting>>
  BY DEF RetryDLQ, SchedulerFires, PurgeDLQ, SetPaused, StartDrain, StopDrain
<1>2. /\ \A v \in Workers : worker'[v].runs = worker[v].runs
      /\ worker' \in [Workers -> [draining: BOOLEAN, runs: {NoCopy} \cup Copy]]
  <2>1. worker \in [Workers -> [draining: BOOLEAN, runs: {NoCopy} \cup Copy]]
    BY DEF QueueInv, TypeOK
  <2>2. \/ worker' = worker
        \/ \E w \in Workers, d \in BOOLEAN : worker' = [worker EXCEPT ![w].draining = d]
    BY DEF RetryDLQ, SchedulerFires, PurgeDLQ, SetPaused, StartDrain, StopDrain
  <2>3. ASSUME NEW w \in Workers, NEW d \in BOOLEAN,
               worker' = [worker EXCEPT ![w].draining = d]
        PROVE  /\ \A v \in Workers : worker'[v].runs = worker[v].runs
               /\ worker' \in [Workers -> [draining: BOOLEAN, runs: {NoCopy} \cup Copy]]
    BY <2>1, <2>3
  <2> QED
    BY <2>1, <2>2, <2>3
<1>4. /\ dlq' \in [Jobs -> Nat]
      /\ \A i \in Jobs : dlq'[i] = dlq[i] \/ dlq'[i] = 0
  <2>1. dlq \in [Jobs -> Nat] /\ \A i \in Jobs : dlq[i] <= 1
    BY DEF QueueInv, TypeOK, JobInv
  <2>2. CASE \E j \in Jobs : RetryDLQ(j)
    BY <2>1, <2>2 DEF RetryDLQ
  <2>3. CASE \E types : PurgeDLQ(types)
    BY <2>1, <2>3 DEF PurgeDLQ
  <2>4. CASE UNCHANGED dlq
    BY <2>1, <2>4
  <2> QED
    BY <2>2, <2>3, <2>4 DEF SchedulerFires, SetPaused, StartDrain, StopDrain
<1>5. scheduled' \subseteq Jobs /\ paused' \in BOOLEAN /\ (paused' => paused \/ setting.pausing)
  BY DEF RetryDLQ, SchedulerFires, PurgeDLQ, SetPaused, StartDrain, StopDrain, QueueInv, TypeOK
<1>6. TypeOK'
  BY <1>1, <1>2, <1>4, <1>5 DEF QueueInv, TypeOK
<1>7. Singles' /\ Within'
  BY <1>1, <1>2, <1>5 DEF QueueInv, Singles, Within
<1>8. \A i \in Jobs : (Running(i)' <=> Running(i)) /\ (InQueue(i)' <=> InQueue(i))
  BY <1>1, <1>2 DEF Running, InQueue
<1>9. ASSUME NEW i \in Jobs PROVE JobInv(i)'
  <2>1. JobInv(i)
    BY DEF QueueInv
  <2>2. CASE dlq'[i] = dlq[i]
    BY <1>1, <1>8, <2>1, <2>2, UntouchedKeeps
  <2>3. CASE dlq'[i] = 0
    BY <1>1, <1>8, <2>1, <2>3 DEF JobInv, Held, NothingRefused
  <2> QED
    BY <1>4, <2>2, <2>3
<1> QED
  BY <1>6, <1>7, <1>9 DEF QueueInv

\* The job at the head of the queue waits nowhere else.
LEMMA HeadLeaves ==
    ASSUME QueueInv, queue # <<>>, NEW c, c = Head(queue), queue' = Tail(queue)
    PROVE  /\ c \in Copy /\ c.id \in Jobs
           /\ InQueue(c.id) /\ delayed[c.id] = NoCopy /\ ~Running(c.id)
           /\ record[c.id] # NoRecord /\ record[c.id].status # "cancelled" /\ dlq[c.id] = 0
           /\ queue' \in Seq(Copy) /\ Len(queue') <= setting.capacity /\ Distinct(queue')
           /\ ~InQueue(c.id)' /\ \A i \in Jobs \ {c.id} : InQueue(i)' <=> InQueue(i)
<1>1. /\ queue \in Seq(Copy) /\ Distinct(queue) /\ Len(queue) <= setting.capacity
      /\ Len(queue) \in Nat /\ setting.capacity \in Nat
  BY BoundsAssumption DEF QueueInv, TypeOK, Singles
<1>2. /\ c \in Copy /\ In(queue, c.id)
      /\ queue' \in Seq(Copy) /\ Len(queue') <= Len(queue) /\ Distinct(queue')
      /\ \A i : In(queue', i) <=> In(queue, i) /\ i # c.id
  BY <1>1, HeadTaken
<1>3. c.id \in Jobs
  BY <1>2 DEF Copy
<1>4. InQueue(c.id) /\ ~InQueue(c.id)'
  BY <1>2 DEF In, InQueue
<1>5. \A i \in Jobs \ {c.id} : InQueue(i)' <=> InQueue(i)
  BY <1>2 DEF In, InQueue
<1>6. JobInv(c.id) /\ dlq[c.id] \in Nat
  BY <1>3 DEF QueueInv, TypeOK
<1>7. Len(queue') <= setting.capacity
  <2>1. Len(queue') \in Nat
    BY <1>2
  <2> QED
    BY <1>1, <1>2, <2>1
<1> QED
  BY <1>2, <1>3, <1>4, <1>5, <1>6, <1>7 DEF JobInv, Held

\* A worker takes the next job and calls its processor.
LEMMA DispatchKeeps ==
    ASSUME QueueInv, NEW w \in Workers, Dispatch(w), setting' = setting
    PROVE  QueueInv'
<1>1. PICK c : c = Head(queue)
  OBVIOUS
<1> DEFINE j == c.id
<1>2. /\ worker[w].runs = NoCopy /\ queue # <<>> /\ queue' = Tail(queue)
      /\ active' = active \cup {j} /\ worker' = [worker EXCEPT ![w].runs = c]
      /\ SetProgress(j, "processing") /\ SetStatus(j, "processing")
      /\ UNCHANGED <<delayed, scheduled, circuit, dlq, paused, setting>>
  BY <1>1 DEF Dispatch, Polling
<1>3. /\ c \in Copy /\ j \in Jobs
      /\ InQueue(j) /\ delayed[j] = NoCopy /\ ~Running(j)
      /\ record[j] # NoRecord /\ record[j].status # "cancelled" /\ dlq[j] = 0
      /\ queue' \in Seq(Copy) /\ Len(queue') <= setting.capacity /\ Distinct(queue')
      /\ ~InQueue(j)' /\ \A i \in Jobs \ {j} : InQueue(i)' <=> InQueue(i)
  BY <1>1, <1>2, HeadLeaves
<1>4. TypeOK /\ Singles /\ "processing" \in Status
  BY DEF QueueInv, Status
<1> HIDE DEF j
<1>5. /\ record' \in [Jobs -> {NoRecord} \cup Record]
      /\ record'[j].status = "processing" /\ record'[j] # NoRecord
      /\ \A i \in Jobs \ {j} : record'[i] = record[i]
  BY <1>2, <1>3, <1>4, StatusSet
<1>6. /\ progress' \in [Jobs -> Status \cup {"absent"}]
      /\ \A i \in Jobs \ {j} : progress'[i] = progress[i]
  BY <1>2, <1>4 DEF TypeOK, SetProgress
<1>7. /\ \A i \in Jobs : Running(i)' <=> Running(i) \/ i = j
      /\ \A u, v \in Workers :
            worker'[u].runs # NoCopy /\ worker'[u].runs.id = worker'[v].runs.id => u = v
      /\ worker' \in [Workers -> [draining: BOOLEAN, runs: {NoCopy} \cup Copy]]
  BY <1>2, <1>3, <1>4, WorkerTakes DEF j
<1>8. TypeOK'
  <2>1. active' \subseteq Jobs
    BY <1>2, <1>3, <1>4 DEF TypeOK
  <2> QED
    BY <1>2, <1>3, <1>4, <1>5, <1>6, <1>7, <2>1 DEF TypeOK
<1>9. Singles' /\ Within'
  BY <1>2, <1>3, <1>7 DEF QueueInv, Singles, Within
<1>10. JobInv(j)'
  BY <1>2, <1>3, <1>5, <1>7 DEF JobInv, Held, Terminal
<1>11. \A i \in Jobs \ {j} : JobInv(i)'
  BY <1>2, <1>3, <1>5, <1>6, <1>7, UntouchedKeeps DEF QueueInv
<1> QED
  BY <1>8, <1>9, <1>10, <1>11 DEF QueueInv

\* CopiesWithout a processor the job fails where it was taken.
LEMMA UnhandledKeeps ==
    ASSUME QueueInv, NEW w \in Workers, DispatchUnhandled(w), setting' = setting
    PROVE  QueueInv'
<1>1. PICK c : c = Head(queue)
  OBVIOUS
<1> DEFINE j == c.id
<1>2. /\ queue # <<>> /\ queue' = Tail(queue) /\ active' = active \ {j}
      /\ SetProgress(j, "failed") /\ SetStatus(j, "failed")
      /\ UNCHANGED <<delayed, scheduled, worker, circuit, dlq, paused, setting>>
  BY <1>1 DEF DispatchUnhandled
<1>3. /\ c \in Copy /\ j \in Jobs
      /\ InQueue(j) /\ delayed[j] = NoCopy /\ ~Running(j)
      /\ record[j] # NoRecord /\ record[j].status # "cancelled" /\ dlq[j] = 0
      /\ queue' \in Seq(Copy) /\ Len(queue') <= setting.capacity /\ Distinct(queue')
      /\ ~InQueue(j)' /\ \A i \in Jobs \ {j} : InQueue(i)' <=> InQueue(i)
  BY <1>1, <1>2, HeadLeaves
<1>4. TypeOK /\ "failed" \in Status
  BY DEF QueueInv, Status, Terminal
<1> HIDE DEF j
<1>5. /\ record' \in [Jobs -> {NoRecord} \cup Record]
      /\ record'[j].status = "failed" /\ record'[j] # NoRecord
      /\ \A i \in Jobs \ {j} : record'[i] = record[i]
  BY <1>2, <1>3, <1>4, StatusSet
<1>6. /\ progress' \in [Jobs -> Status \cup {"absent"}] /\ progress'[j] = "failed"
      /\ \A i \in Jobs \ {j} : progress'[i] = progress[i]
  BY <1>2, <1>3, <1>4 DEF TypeOK, SetProgress
<1>7. \A i \in Jobs : Running(i)' <=> Running(i)
  BY <1>2 DEF Running
<1>8. TypeOK'
  BY <1>2, <1>3, <1>4, <1>5, <1>6 DEF TypeOK
<1>9. Singles' /\ Within'
  BY <1>2, <1>3 DEF QueueInv, Singles, Within
<1>10. JobInv(j)'
  BY <1>2, <1>3, <1>5, <1>6, <1>7 DEF JobInv, Held, Terminal
<1>11. \A i \in Jobs \ {j} : JobInv(i)'
  BY <1>2, <1>3, <1>5, <1>6, <1>7, UntouchedKeeps DEF QueueInv
<1> QED
  BY <1>8, <1>9, <1>10, <1>11 DEF QueueInv

\* The job that a worker runs waits nowhere.
LEMMA RunsAlone ==
    ASSUME QueueInv, NEW w \in Workers, NEW c, c = worker[w].runs, c # NoCopy
    PROVE  /\ c \in Copy /\ c.id \in Jobs /\ c.attempts \in Nat
           /\ Running(c.id) /\ ~InQueue(c.id) /\ delayed[c.id] = NoCopy /\ c.id \in active
           /\ record[c.id] # NoRecord /\ dlq[c.id] = 0
<1>1. c \in Copy /\ c.id \in Jobs /\ c.attempts \in Nat
  BY DEF QueueInv, TypeOK, Copy
<1>2. Running(c.id)
  BY DEF Running
<1>3. JobInv(c.id) /\ dlq[c.id] \in Nat
  BY <1>1 DEF QueueInv, TypeOK
<1> QED
  BY <1>1, <1>2, <1>3 DEF JobInv, Held

\* The processor returned.
LEMMA ReturnsKeeps ==
    ASSUME QueueInv, NEW w \in Workers, ProcessorReturns(w), setting' = setting
    PROVE  QueueInv'
<1>1. PICK c : c = worker[w].runs
  OBVIOUS
<1> DEFINE j == c.id
<1>2. /\ c # NoCopy /\ SetProgress(j, "completed") /\ SetStatus(j, "completed")
      /\ worker' = [worker EXCEPT ![w].runs = NoCopy] /\ active' = active \ {j}
      /\ UNCHANGED <<queue, delayed, scheduled, circuit, dlq, paused, setting>>
  BY <1>1 DEF ProcessorReturns, Release
<1>3. /\ j \in Jobs /\ Running(j) /\ ~InQueue(j) /\ delayed[j] = NoCopy
      /\ record[j] # NoRecord /\ dlq[j] = 0
  BY <1>1, <1>2, RunsAlone
<1>4. TypeOK /\ Singles /\ "completed" \in Status
  BY DEF QueueInv, Status, Terminal
<1>5. /\ \A i \in Jobs : Running(i)' <=> Running(i) /\ i # j
      /\ \A u, v \in Workers :
            worker'[u].runs # NoCopy /\ worker'[u].runs.id = worker'[v].runs.id => u = v
      /\ worker' \in [Workers -> [draining: BOOLEAN, runs: {NoCopy} \cup Copy]]
  BY <1>1, <1>2, <1>4, WorkerDrops
<1> HIDE DEF j
<1>6. /\ record' \in [Jobs -> {NoRecord} \cup Record]
      /\ record'[j].status = "completed" /\ record'[j] # NoRecord
      /\ \A i \in Jobs \ {j} : record'[i] = record[i]
  BY <1>2, <1>3, <1>4, StatusSet
<1>7. /\ progress' \in [Jobs -> Status \cup {"absent"}] /\ progress'[j] = "completed"
      /\ \A i \in Jobs \ {j} : progress'[i] = progress[i]
  BY <1>2, <1>3, <1>4 DEF TypeOK, SetProgress
<1>8. \A i \in Jobs : InQueue(i)' <=> InQueue(i)
  BY <1>2 DEF InQueue
<1>9. TypeOK'
  BY <1>2, <1>4, <1>5, <1>6, <1>7 DEF TypeOK
<1>10. Singles' /\ Within'
  BY <1>2, <1>5 DEF QueueInv, Singles, Within
<1>11. JobInv(j)'
  BY <1>2, <1>3, <1>5, <1>6, <1>7, <1>8 DEF JobInv, Held, Terminal
<1>12. \A i \in Jobs \ {j} : JobInv(i)'
  BY <1>2, <1>5, <1>6, <1>7, <1>8, UntouchedKeeps DEF QueueInv
<1> QED
  BY <1>9, <1>10, <1>11, <1>12 DEF QueueInv

\* A failure is counted up to the threshold, where it opens the circuit.
LEMMA FailureCounted ==
    ASSUME QueueInv, NEW j \in Jobs, CountFailure(j), UNCHANGED <<paused, setting>>
    PROVE  circuit' \in [Jobs -> [failures: 0 .. Threshold, open: BOOLEAN]] /\ Within'
<1> DEFINE n == (IF circuit[j].open THEN 0 ELSE circuit[j].failures) + 1
           o == n >= Threshold
           r == [failures |-> n, open |-> o]
<1>1. circuit \in [Jobs -> [failures: 0 .. Threshold, open: BOOLEAN]] /\ Threshold \in Nat \ {0}
  BY BoundsAssumption DEF QueueInv, TypeOK
<1>2. n \in 0 .. Threshold
  <2>1. /\ circuit[j].failures \in 0 .. Threshold
        /\ ~circuit[j].open => circuit[j].failures < Threshold
    BY <1>1 DEF QueueInv, Within
  <2> QED
    BY <1>1, <2>1
<1>3. circuit' = [circuit EXCEPT ![j] = r]
  BY DEF CountFailure
<1> HIDE DEF n
<1>0. o \in BOOLEAN /\ (~o => n < Threshold)
  BY <1>1, <1>2
<1> HIDE DEF o
<1>4. r \in [failures: 0 .. Threshold, open: BOOLEAN] /\ (~r.open => r.failures < Threshold)
  BY <1>0, <1>2
<1> HIDE DEF r
<1>5. circuit' \in [Jobs -> [failures: 0 .. Threshold, open: BOOLEAN]]
  BY <1>1, <1>3, <1>4
<1>6. \A i \in Jobs : ~circuit'[i].open => circuit'[i].failures < Threshold
  BY <1>1, <1>3, <1>4 DEF QueueInv, Within
<1> QED
  BY <1>5, <1>6 DEF QueueInv, Within

\* The processor threw, and a timer holds the copy until the next attempt.
LEMMA RetryKeeps ==
    ASSUME QueueInv, NEW w \in Workers, ProcessorThrowsAndRetries(w), setting' = setting
    PROVE  QueueInv'
<1>1. PICK c : c = worker[w].runs
  OBVIOUS
<1> DEFINE j == c.id
<1>2. /\ c # NoCopy /\ CountFailure(j) /\ SetAttempt(j, "queued", c.attempts + 1)
      /\ delayed' = [delayed EXCEPT ![j] = c]
      /\ worker' = [worker EXCEPT ![w].runs = NoCopy]
      /\ UNCHANGED <<progress, queue, scheduled, active, dlq, paused, setting>>
  BY <1>1 DEF ProcessorThrowsAndRetries, ScheduleRetry
<1>3. /\ c \in Copy /\ j \in Jobs /\ c.attempts \in Nat /\ Running(j) /\ ~InQueue(j)
      /\ delayed[j] = NoCopy /\ record[j] # NoRecord /\ dlq[j] = 0
  BY <1>1, <1>2, RunsAlone
<1>4. TypeOK /\ Singles /\ "queued" \in Status /\ c.attempts + 1 \in Nat
  BY <1>3 DEF QueueInv, Status, Terminal
<1>5. /\ \A i \in Jobs : Running(i)' <=> Running(i) /\ i # j
      /\ \A u, v \in Workers :
            worker'[u].runs # NoCopy /\ worker'[u].runs.id = worker'[v].runs.id => u = v
      /\ worker' \in [Workers -> [draining: BOOLEAN, runs: {NoCopy} \cup Copy]]
  BY <1>1, <1>2, <1>4, WorkerDrops
<1>6. /\ delayed' \in [Jobs -> {NoCopy} \cup Copy] /\ delayed'[j] = c /\ delayed'[j].id = j
      /\ \A i \in Jobs \ {j} : delayed'[i] = delayed[i]
  BY <1>2, <1>3, <1>4 DEF TypeOK
<1> HIDE DEF j
<1>7. /\ record' \in [Jobs -> {NoRecord} \cup Record]
      /\ record'[j].status = "queued" /\ record'[j] # NoRecord
      /\ \A i \in Jobs \ {j} : record'[i] = record[i]
  BY <1>2, <1>3, <1>4, AttemptSet
<1>8. \A i \in Jobs : InQueue(i)' <=> InQueue(i)
  BY <1>2 DEF InQueue
<1>9. circuit' \in [Jobs -> [failures: 0 .. Threshold, open: BOOLEAN]] /\ Within'
  BY <1>2, <1>3, FailureCounted
<1>10. TypeOK'
  BY <1>2, <1>4, <1>5, <1>6, <1>7, <1>9 DEF TypeOK
<1>11. Singles'
  BY <1>2, <1>5 DEF QueueInv, Singles
<1>12. JobInv(j)'
  BY <1>2, <1>3, <1>5, <1>6, <1>7, <1>8 DEF JobInv, Held, Terminal
<1>13. \A i \in Jobs \ {j} : JobInv(i)'
  BY <1>2, <1>5, <1>6, <1>7, <1>8, UntouchedKeeps DEF QueueInv
<1> QED
  BY <1>9, <1>10, <1>11, <1>12, <1>13 DEF QueueInv

\* The processor threw for the last time: the job gets its dead letter.
LEMMA FailKeeps ==
    ASSUME QueueInv, NEW w \in Workers, ProcessorThrowsAndFails(w), setting' = setting
    PROVE  QueueInv'
<1>1. PICK c : c = worker[w].runs
  OBVIOUS
<1> DEFINE j == c.id
<1>2. /\ c # NoCopy /\ SetAttempt(j, "failed", c.attempts + 1) /\ SetProgress(j, "failed")
      /\ UNCHANGED circuit \/ CountFailure(j)
      /\ dlq' = [dlq EXCEPT ![j] = @ + 1]
      /\ worker' = [worker EXCEPT ![w].runs = NoCopy] /\ active' = active \ {j}
      /\ UNCHANGED <<queue, delayed, scheduled, paused, setting>>
  BY <1>1 DEF ProcessorThrowsAndFails, Release
<1>3. /\ c \in Copy /\ j \in Jobs /\ c.attempts \in Nat /\ Running(j) /\ ~InQueue(j)
      /\ delayed[j] = NoCopy /\ record[j] # NoRecord /\ dlq[j] = 0
  BY <1>1, <1>2, RunsAlone
<1>4. TypeOK /\ Singles /\ "failed" \in Status /\ c.attempts + 1 \in Nat
  BY <1>3 DEF QueueInv, Status, Terminal
<1>5. /\ \A i \in Jobs : Running(i)' <=> Running(i) /\ i # j
      /\ \A u, v \in Workers :
            worker'[u].runs # NoCopy /\ worker'[u].runs.id = worker'[v].runs.id => u = v
      /\ worker' \in [Workers -> [draining: BOOLEAN, runs: {NoCopy} \cup Copy]]
  BY <1>1, <1>2, <1>4, WorkerDrops
<1> HIDE DEF j
<1>6. /\ dlq' \in [Jobs -> Nat] /\ dlq'[j] = 1 /\ \A i \in Jobs \ {j} : dlq'[i] = dlq[i]
  BY <1>2, <1>3, <1>4 DEF TypeOK
<1>7. /\ record' \in [Jobs -> {NoRecord} \cup Record]
      /\ record'[j].status = "failed" /\ record'[j] # NoRecord
      /\ \A i \in Jobs \ {j} : record'[i] = record[i]
  BY <1>2, <1>3, <1>4, AttemptSet
<1>8. /\ progress' \in [Jobs -> Status \cup {"absent"}] /\ progress'[j] = "failed"
      /\ \A i \in Jobs \ {j} : progress'[i] = progress[i]
  BY <1>2, <1>3, <1>4 DEF TypeOK, SetProgress
<1>9. \A i \in Jobs : InQueue(i)' <=> InQueue(i)
  BY <1>2 DEF InQueue
<1>10. circuit' \in [Jobs -> [failures: 0 .. Threshold, open: BOOLEAN]] /\ Within'
  <2>1. CASE UNCHANGED circuit
    BY <1>2, <2>1 DEF QueueInv, TypeOK, Within
  <2>2. CASE CountFailure(j)
    BY <1>2, <1>3, <2>2, FailureCounted
  <2> QED
    BY <1>2, <2>1, <2>2
<1>11. TypeOK'
  BY <1>2, <1>4, <1>5, <1>6, <1>7, <1>8, <1>10 DEF TypeOK
<1>12. Singles'
  BY <1>2, <1>5 DEF QueueInv, Singles
<1>13. JobInv(j)'
  BY <1>2, <1>3, <1>5, <1>6, <1>7, <1>8, <1>9 DEF JobInv, Held, Terminal
<1>14. \A i \in Jobs \ {j} : JobInv(i)'
  BY <1>2, <1>5, <1>6, <1>7, <1>8, <1>9, UntouchedKeeps DEF QueueInv
<1> QED
  BY <1>10, <1>11, <1>12, <1>13, <1>14 DEF QueueInv

\* A retry timer puts its copy back at the end of the queue.
LEMMA TimerKeeps ==
    ASSUME QueueInv, NEW j \in Jobs, RetryTimerFires(j), setting' = setting
    PROVE  QueueInv'
<1>1. PICK c : c = delayed[j]
  OBVIOUS
<1>2. /\ c # NoCopy /\ ~Refuses /\ delayed' = [delayed EXCEPT ![j] = NoCopy]
      /\ queue' = Append(queue, c)
      /\ UNCHANGED <<record, progress, scheduled, active, worker, circuit, dlq, paused, setting>>
  BY <1>1 DEF RetryTimerFires
<1>3. /\ TypeOK /\ Singles /\ JobInv(j) /\ dlq[j] \in Nat /\ c \in Copy /\ c.id = j
      /\ ~InQueue(j) /\ ~Running(j)
  BY <1>1, <1>2 DEF QueueInv, TypeOK, JobInv
<1>4. /\ queue' \in Seq(Copy) /\ Len(queue') <= setting.capacity /\ Distinct(queue')
      /\ InQueue(j)' /\ \A i \in Jobs \ {j} : InQueue(i)' <=> InQueue(i)
  <2>1. /\ queue \in Seq(Copy) /\ Distinct(queue) /\ ~In(queue, j) /\ Len(queue) \in Nat
        /\ setting.capacity \in Nat /\ ~(Len(queue) >= setting.capacity)
    BY <1>2, <1>3, BoundsAssumption DEF TypeOK, Singles, In, InQueue, Refuses
  <2>2. /\ queue' \in Seq(Copy) /\ Len(queue') = Len(queue) + 1 /\ Distinct(queue')
        /\ \A i : In(queue', i) <=> In(queue, i) \/ i = j
    BY <1>2, <1>3, <2>1, Appended
  <2>3. Len(queue') <= setting.capacity
    BY <2>1, <2>2
  <2>4. InQueue(j)' /\ \A i \in Jobs \ {j} : InQueue(i)' <=> InQueue(i)
    BY <2>2 DEF In, InQueue
  <2> QED
    BY <2>2, <2>3, <2>4
<1>5. /\ delayed' \in [Jobs -> {NoCopy} \cup Copy] /\ delayed'[j] = NoCopy
      /\ \A i \in Jobs \ {j} : delayed'[i] = delayed[i]
  BY <1>2, <1>3 DEF TypeOK
<1>6. \A i \in Jobs : Running(i)' <=> Running(i)
  BY <1>2 DEF Running
<1>7. TypeOK'
  BY <1>2, <1>3, <1>4, <1>5 DEF TypeOK
<1>8. Singles' /\ Within'
  BY <1>2, <1>4 DEF QueueInv, Singles, Within
<1>9. JobInv(j)'
  BY <1>1, <1>2, <1>3, <1>4, <1>5, <1>6 DEF JobInv, Held, NothingRefused
<1>10. \A i \in Jobs \ {j} : JobInv(i)'
  BY <1>2, <1>4, <1>5, <1>6, UntouchedKeeps DEF QueueInv
<1> QED
  BY <1>7, <1>8, <1>9, <1>10 DEF QueueInv

\* A process that has just started, or started again, holds no job.
Restarted ==
    /\ record = Empty.record /\ progress = Empty.progress
    /\ queue = <<>> /\ delayed = Empty.delayed
    /\ scheduled = {} /\ active = {}
    /\ worker = Empty.worker /\ circuit = Empty.circuit
    /\ dlq = Empty.none
    /\ paused = FALSE
    /\ setting \in Settings

\* A process that holds no job satisfies the invariant.
LEMMA EmptyHolds == Restarted => QueueInv
<1> SUFFICES ASSUME Restarted PROVE QueueInv
  OBVIOUS
<1>1. /\ record = [i \in Jobs |-> NoRecord] /\ progress = [i \in Jobs |-> "absent"]
      /\ delayed = [i \in Jobs |-> NoCopy] /\ dlq = [i \in Jobs |-> 0]
      /\ worker = [w \in Workers |-> [draining |-> FALSE, runs |-> NoCopy]]
      /\ circuit = [i \in Jobs |-> [failures |-> 0, open |-> FALSE]]
      /\ queue = <<>> /\ scheduled = {} /\ active = {} /\ paused = FALSE /\ setting \in Settings
  BY DEF Empty, Restarted
<1>2. queue \in Seq(Copy) /\ Len(queue) <= setting.capacity /\ DOMAIN queue = {}
  <2>1. setting.capacity \in Nat
    BY <1>1, BoundsAssumption
  <2>2. Len(queue) = 0
    BY <1>1
  <2>3. queue \in Seq(Copy) /\ DOMAIN queue = {}
    BY <1>1
  <2> QED
    BY <2>1, <2>2, <2>3
<1>3. TypeOK
  <2>1. /\ record \in [Jobs -> {NoRecord} \cup Record]
        /\ progress \in [Jobs -> Status \cup {"absent"}]
        /\ delayed \in [Jobs -> {NoCopy} \cup Copy] /\ dlq \in [Jobs -> Nat]
    BY <1>1
  <2>2. worker \in [Workers -> [draining: BOOLEAN, runs: {NoCopy} \cup Copy]]
    BY <1>1
  <2>3. circuit \in [Jobs -> [failures: 0 .. Threshold, open: BOOLEAN]]
    BY <1>1, BoundsAssumption
  <2> QED
    BY <1>1, <1>2, <2>1, <2>2, <2>3 DEF TypeOK
<1>4. Singles /\ Within
  BY <1>1, <1>2, BoundsAssumption DEF Singles, Within, Distinct, NoCopy
<1>5. ASSUME NEW j \in Jobs PROVE JobInv(j)
  <2>1. ~InQueue(j)
    BY <1>2 DEF InQueue
  <2>2. ~Running(j)
    BY <1>1, JobsAssumption DEF Running, NoCopy
  <2> QED
    BY <1>1, <2>1, <2>2 DEF JobInv, Held, NoRecord, Terminal
<1> QED
  BY <1>3, <1>4, <1>5 DEF QueueInv

-----------------------------------------------------------------------------
(* The theorems.                                                            *)

\* Every step keeps the invariant.
LEMMA StepKeeps ==
    ASSUME QueueInv, [Next]_vars
    PROVE  QueueInv'
<1>1. CASE UNCHANGED vars
  BY <1>1 DEF vars, QueueInv, TypeOK, Singles, Within, JobInv, InQueue, Running, Held, NothingRefused
<1>2. CASE Next
  <2> USE <1>2
  <2>1. setting' = setting
    BY DEF Next
  <2>2. ASSUME NEW j \in Jobs, NEW t \in Types, Enqueue(j, t) \/ EnqueueDelayed(j, t)
        PROVE  QueueInv'
    BY <2>1, <2>2, SubmitKeeps
  <2>3. ASSUME NEW j \in Jobs, NEW new \in Jobs, RetryJob(j, new) PROVE QueueInv'
    <3>1. PICK t \in Types : t = record[j].type
      BY <2>3 DEF RetryJob, QueueInv, TypeOK, Record
    <3> QED
      BY <2>1, <2>3, <3>1, SubmitKeeps DEF RetryJob
  <2>4. ASSUME NEW j \in Jobs, CancelJob(j) PROVE QueueInv'
    BY <2>1, <2>4, CancelKeeps
  <2>5. CASE \/ \E j \in Jobs : RetryDLQ(j) \/ SchedulerFires(j)
             \/ \E types : PurgeDLQ(types)
             \/ \E p \in BOOLEAN : SetPaused(p)
             \/ \E w \in Workers : StartDrain(w) \/ StopDrain(w)
    BY <2>1, <2>5, AsideKeeps
  <2>6. ASSUME NEW w \in Workers, Dispatch(w) PROVE QueueInv'
    BY <2>1, <2>6, DispatchKeeps
  <2>7. ASSUME NEW w \in Workers, DispatchUnhandled(w) PROVE QueueInv'
    BY <2>1, <2>7, UnhandledKeeps
  <2>8. ASSUME NEW w \in Workers, ProcessorReturns(w) PROVE QueueInv'
    BY <2>1, <2>8, ReturnsKeeps
  <2>9. ASSUME NEW w \in Workers, ProcessorThrowsAndRetries(w) PROVE QueueInv'
    BY <2>1, <2>9, RetryKeeps
  <2>10. ASSUME NEW w \in Workers, ProcessorThrowsAndFails(w) PROVE QueueInv'
    BY <2>1, <2>10, FailKeeps
  <2>11. ASSUME NEW j \in Jobs, RetryTimerFires(j) PROVE QueueInv'
    BY <2>1, <2>11, TimerKeeps
  <2>12. ASSUME NEW j \in Jobs, TimerKillsProcess(j) PROVE QueueInv'
    <3>1. Restarted'
      BY <2>1, <2>12 DEF TimerKillsProcess, QueueInv, TypeOK, Restarted, Empty
    <3> QED
      BY <3>1, EmptyHolds, PTL
  <2>13. \/ Ask
         \/ \E w \in Workers : Loop(w) \/ Settle(w)
         \/ \E j \in Jobs : Timer(j) \/ SchedulerFires(j)
    BY DEF Next
  <2>14. CASE Ask
    BY <2>2, <2>3, <2>4, <2>5, <2>14 DEF Ask
  <2>15. CASE \E w \in Workers : Loop(w) \/ Settle(w)
    BY <2>5, <2>6, <2>7, <2>8, <2>9, <2>10, <2>15 DEF Loop, Settle
  <2>16. CASE \E j \in Jobs : Timer(j) \/ SchedulerFires(j)
    BY <2>5, <2>11, <2>12, <2>16 DEF Timer
  <2> QED
    BY <2>13, <2>14, <2>15, <2>16
<1> QED
  BY <1>1, <1>2

\* However calls, timers, workers, retries and cancellations overlap, a job is
\* in one place, is over once it is settled, and is not lost where the provider
\* refuses nothing.
THEOREM JobsOnce == Spec => []EachJobOnce
<1>1. Init => QueueInv
  BY EmptyHolds DEF Init, Restarted
<1>2. QueueInv /\ [Next]_vars => QueueInv'
  BY StepKeeps
<1>3. QueueInv => EachJobOnce
  BY InvariantSuffices
<1> QED
  BY <1>1, <1>2, <1>3, PTL DEF Spec

\* A cancelled job that no worker was running is never handed to a processor,
\* whether it waited in the queue, for a retry timer or for its delay.
THEOREM CancelledStays == Spec => CancelledNeverStarts
<1> DEFINE NotStarted == \A j \in Jobs : record[j].status = "cancelled" /\ ~Running(j) => ~Running(j)'
<1>1. Init => QueueInv
  BY EmptyHolds DEF Init, Restarted
<1>2. QueueInv /\ [Next]_vars => QueueInv'
  BY StepKeeps
<1>3. QueueInv /\ [Next]_vars => [NotStarted]_vars
  <2> SUFFICES ASSUME QueueInv, Next, NEW j \in Jobs, record[j].status = "cancelled",
                      ~Running(j)
               PROVE  ~Running(j)'
    OBVIOUS
  <2>1. CASE \E w \in Workers : Dispatch(w)
    <3>1. PICK w \in Workers : Dispatch(w)
      BY <2>1
    <3>2. PICK c : c = Head(queue)
      OBVIOUS
    <3>3. /\ worker[w].runs = NoCopy /\ queue # <<>> /\ queue' = Tail(queue)
          /\ worker' = [worker EXCEPT ![w].runs = c]
      BY <3>1, <3>2 DEF Dispatch, Polling
    <3>4. c \in Copy /\ ~Running(c.id) /\ c.id # j
      BY <3>2, <3>3, HeadLeaves
    <3>5. Running(j)' <=> Running(j) \/ j = c.id
      BY <3>3, <3>4, WorkerTakes DEF QueueInv
    <3> QED
      BY <3>4, <3>5
  <2>2. CASE ~\E w \in Workers : Dispatch(w)
    <3>1. \A v \in Workers : worker'[v].runs \in {worker[v].runs, NoCopy}
      <4>1. worker \in [Workers -> [draining: BOOLEAN, runs: {NoCopy} \cup Copy]]
        BY DEF QueueInv, TypeOK
      <4>2. \/ worker' = worker
            \/ worker' = Empty.worker
            \/ \E w \in Workers, d \in BOOLEAN : worker' = [worker EXCEPT ![w].draining = d]
            \/ \E w \in Workers : worker' = [worker EXCEPT ![w].runs = NoCopy]
        BY <2>2 DEF Next, Ask, Loop, Settle, Timer, Enqueue, EnqueueDelayed, CancelJob,
           RetryDLQ, RetryJob, PurgeDLQ, SetPaused, StartDrain, StopDrain, DispatchUnhandled,
           ProcessorReturns, ProcessorThrowsAndRetries, ProcessorThrowsAndFails, Release,
           RetryTimerFires, TimerKillsProcess, SchedulerFires
      <4>3. CASE worker' = Empty.worker
        BY <4>3 DEF Empty
      <4>4. ASSUME NEW w \in Workers, NEW d \in BOOLEAN,
                   worker' = [worker EXCEPT ![w].draining = d]
            PROVE  \A v \in Workers : worker'[v].runs \in {worker[v].runs, NoCopy}
        BY <4>1, <4>4
      <4>5. ASSUME NEW w \in Workers, worker' = [worker EXCEPT ![w].runs = NoCopy]
            PROVE  \A v \in Workers : worker'[v].runs \in {worker[v].runs, NoCopy}
        BY <4>1, <4>5
      <4> QED
        BY <4>2, <4>3, <4>4, <4>5
    <3>2. j # "none"
      BY JobsAssumption
    <3> QED
      BY <3>1, <3>2 DEF Running, NoCopy
  <2> QED
    BY <2>1, <2>2
<1> QED
  BY <1>1, <1>2, <1>3, PTL DEF Spec, CancelledNeverStarts
================================================================================
