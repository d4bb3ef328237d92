------------------------------ MODULE McpSessions ------------------------------
(***************************************************************************)
(* Sessions with an MCP server (src/ai/mcp): the session manager, the      *)
(* registry entry of one server, the adapters registered for it one after  *)
(* another, their transports and the requests sent over them.  Sessions    *)
(* share the adapter, so that the end of one cuts off the others.  What    *)
(* only awaits resolved promises happens in one step; a call that waits    *)
(* for a connection or an answer is in calls until it comes.               *)
(***************************************************************************)
EXTENDS Naturals, FiniteSets

CONSTANTS
    Adapters, Links, Requests, Sessions,    \* ids; each is used once: the bounds
    TransportOf                             \* "http" or "websocket", by adapter

ASSUME McpAssumption == TransportOf \in [Adapters -> {"http", "websocket"}]

VARIABLES
    registered, \* the adapter in the registry, 0 for none
    cached,     \* the adapter whose tool list the registry caches, 0 for none
    connected,  \* connected_ of each adapter
    current,    \* the transport of each adapter
    link,       \* the transports: whose they are, and how far
    request,    \* the requests: by which adapter, over which link, status
    session,    \* status, whether the map holds it, the timers that run
    calls       \* what is in progress

mcpVars == <<registered, cached, connected, current, link, request, session, calls>>

First(ids, free) == CHOOSE i \in ids : free[i] /\ \A j \in ids : free[j] => i <= j
FreeLinks == [k \in Links |-> link[k].at = "unused"]
FreeRequests == [r \in Requests |-> request[r].status = "unused"]
HasFree(free) == \E i \in DOMAIN free : free[i]

-----------------------------------------------------------------------------
\* adapter.connect() up to its await: a new transport is the current one.
Dial(a, x) ==
    LET k == First(Links, FreeLinks)
    IN /\ HasFree(FreeLinks)
       /\ link' = [link EXCEPT ![k] = [of |-> a, at |-> "opening"]]
       /\ current' = [current EXCEPT ![a] = k]
       /\ calls' = calls \cup {[op |-> x.op, session |-> x.session, adapter |-> a, awaits |-> k]}

\* transport.disconnect(): closing a websocket tells the adapter later, and
\* its connect() never settles; an http connect() goes on and succeeds.
Shut(a) ==
    IF current[a] = 0 THEN link
    ELSE [link EXCEPT ![current[a]].at =
            IF TransportOf[a] = "http" THEN IF @ = "open" THEN "closed" ELSE @
            ELSE IF @ \in {"opening", "open"} THEN "closing" ELSE @]

\* The calls that wait for the adapter's requests, and what their rejection
\* does: a heartbeat marks its session, whatever became of it.
WaitFor(R) == {x \in calls : x.op \in {"heartbeat", "fetch", "tool"} /\ x.awaits \in R}
PendingOf(a) == {r \in Requests : request[r].status = "pending" /\ request[r].by = a}
Rejected(R) == [r \in Requests |-> IF r \in R THEN [request[r] EXCEPT !.status = "rejected"] ELSE request[r]]
Marked(R, base) ==
    [s \in Sessions |->
        IF \E x \in WaitFor(R) : x.op = "heartbeat" /\ x.session = s
        THEN [base[s] EXCEPT !.status = "error"] ELSE base[s]]

\* adapter.disconnect(): everything pending is rejected first.
Disconnect(a) ==
    /\ connected' = [connected EXCEPT ![a] = FALSE]
    /\ request' = Rejected(PendingOf(a))
    /\ link' = Shut(a)
NoDisconnect == UNCHANGED <<connected, request, link>>

\* sendRequest(): refused when not connected, rejected when the socket is
\* not open, otherwise pending until an answer, a disconnect or 30 seconds.
CanSend(a) == connected[a] /\ current[a] # 0 /\ link[current[a]].at = "open"
Send(a, op, s) ==
    LET r == First(Requests, FreeRequests)
    IN /\ HasFree(FreeRequests)
       /\ request' = [request EXCEPT ![r] = [by |-> a, over |-> current[a], status |-> "pending"]]
       /\ calls' = calls \cup {[op |-> op, session |-> s, adapter |-> a, awaits |-> r]}

-----------------------------------------------------------------------------
\* What a call does when its connect() has succeeded or thrown.
Finished(x, ok, base) ==
    CASE x.op = "create" ->
           [base EXCEPT ![x.session] =
              [status |-> IF ok THEN "connected" ELSE "error", stored |-> TRUE,
               heartbeat |-> ok, timeout |-> ok]]
      [] x.op = "reconnect" -> [base EXCEPT ![x.session].status = IF ok THEN "connected" ELSE "error"]
      [] OTHER -> base

\* registerServer() connects an adapter of its own and only then registers
\* it; the adapter it replaces keeps its connection.
RegisterServer(a) ==
    /\ current[a] = 0
    /\ Dial(a, [op |-> "register", session |-> 0])
    /\ UNCHANGED <<registered, cached, connected, request, session>>

\* Bound: a session with both timers configured.
CreateSession(s) ==
    /\ session[s].status = "none" /\ registered # 0
    /\ session' = [session EXCEPT ![s].status = "connecting"]
    /\ Dial(registered, [op |-> "create", session |-> s])
    /\ UNCHANGED <<registered, cached, connected, request>>

\* reconnect() disconnects and dials again; of a server that is not
\* registered any more it leaves the session reconnecting.
Reconnect(s) ==
    /\ session[s].stored
    /\ IF registered = 0
       THEN /\ session' = [session EXCEPT ![s].status = "reconnecting"]
            /\ UNCHANGED <<link, current, calls, connected, request>>
       ELSE LET a == registered
                k == First(Links, FreeLinks)
            IN /\ HasFree(FreeLinks)
               /\ session' = Marked(PendingOf(a), [session EXCEPT ![s].status = "reconnecting"])
               /\ connected' = [connected EXCEPT ![a] = FALSE]
               /\ request' = Rejected(PendingOf(a))
               /\ link' = [Shut(a) EXCEPT ![k] = [of |-> a, at |-> "opening"]]
               /\ current' = [current EXCEPT ![a] = k]
               /\ calls' = (calls \ WaitFor(PendingOf(a)))
                    \cup {[op |-> "reconnect", session |-> s, adapter |-> a, awaits |-> k]}
    /\ UNCHANGED <<registered, cached>>

Dialling(k) == {x \in calls : x.op \in {"create", "reconnect", "register"} /\ x.awaits = k}
\* The connection is there: the rest of connect(), which may find the
\* credentials refused and then disconnects whatever is current by then.
Authenticated(k) ==
    \E x \in Dialling(k) :
        /\ link' = [link EXCEPT ![k].at = "open"]
        /\ connected' = [connected EXCEPT ![x.adapter] = TRUE]
        /\ session' = Finished(x, TRUE, session)
        /\ registered' = IF x.op = "register" THEN x.adapter ELSE registered
        /\ calls' = calls \ {x}
        /\ UNCHANGED <<cached, current, request>>
AuthFails(k) ==
    \E x \in Dialling(k) :
        LET R == PendingOf(x.adapter)
        IN /\ connected' = [connected EXCEPT ![x.adapter] = FALSE]
           /\ link' = IF current[x.adapter] = k
                      THEN [link EXCEPT ![k].at = IF TransportOf[x.adapter] = "http" THEN "closed" ELSE "closing"]
                      ELSE [Shut(x.adapter) EXCEPT ![k].at = "open"]
           /\ request' = Rejected(R)
           /\ session' = Finished(x, FALSE, Marked(R, session))
           /\ calls' = calls \ ({x} \cup WaitFor(R))
           /\ UNCHANGED <<registered, cached, current>>
LinkOpens(k) == link[k].at = "opening" /\ (Authenticated(k) \/ AuthFails(k))
LinkRefused(k) ==
    /\ link[k].at = "opening"
    /\ link' = [link EXCEPT ![k].at = "closed"]
    /\ \E x \in Dialling(k) : session' = Finished(x, FALSE, session) /\ calls' = calls \ {x}
    /\ UNCHANGED <<registered, cached, connected, current, request>>

\* The socket closes, or never opened: connect() is left waiting, and the
\* adapter is told, also by a socket that is no longer its current one.
LinkCloses(k) ==
    /\ link[k].at \in {"opening", "open", "closing"} /\ TransportOf[link[k].of] = "websocket"
    /\ link' = [link EXCEPT ![k].at = "closed"]
    /\ connected' = [connected EXCEPT ![link[k].of] = FALSE]
    /\ UNCHANGED <<registered, cached, current, request, session, calls>>

-----------------------------------------------------------------------------
OutOfMap == [status |-> "disconnected", stored |-> FALSE, heartbeat |-> FALSE, timeout |-> FALSE]
EndedSession(s) == OutOfMap

End(s) ==
    LET R == IF registered = 0 THEN {} ELSE PendingOf(registered)
    IN /\ session' = [Marked(R, session) EXCEPT ![s] = EndedSession(s)]
       /\ IF registered = 0 THEN NoDisconnect ELSE Disconnect(registered)
       /\ calls' = calls \ WaitFor(R)
       /\ UNCHANGED <<registered, cached, current>>
EndSession(s) == session[s].stored /\ End(s)

\* The timer fires once: in a session that is just reconnecting, for nothing.
TimeoutFires(s) ==
    /\ session[s].timeout
    /\ IF session[s].stored /\ session[s].status = "connected" THEN End(s)
       ELSE /\ session' = [session EXCEPT ![s].timeout = FALSE]
            /\ UNCHANGED <<registered, cached, connected, current, link, request, calls>>

HeartbeatFires(s) ==
    /\ session[s].heartbeat /\ session[s].stored /\ session[s].status = "connected"
    /\ IF registered # 0 /\ CanSend(registered)
       THEN Send(registered, "heartbeat", s) /\ UNCHANGED session
       ELSE session' = [session EXCEPT ![s].status = "error"] /\ UNCHANGED <<request, calls>>
    /\ UNCHANGED <<registered, cached, connected, current, link>>

Unregister ==
    /\ registered # 0
    /\ registered' = 0 /\ cached' = 0
    /\ UNCHANGED <<connected, current, link, request, session, calls>>

\* getOrFetchTools() of a list that is missing or too old; execute() of a tool.
Fetch ==
    /\ registered # 0 /\ CanSend(registered) /\ Send(registered, "fetch", 0)
    /\ UNCHANGED <<registered, cached, connected, current, link, session>>
ExecuteTool ==
    /\ registered # 0 /\ CanSend(registered) /\ Send(registered, "tool", 0)
    /\ UNCHANGED <<registered, cached, connected, current, link, session>>
\* refreshServer() forgets the list and fetches one that it does not keep.
RefreshServer ==
    /\ registered # 0 /\ cached # 0
    /\ cached' = 0
    /\ IF CanSend(registered) /\ HasFree(FreeRequests) THEN Send(registered, "tool", 0)
       ELSE UNCHANGED <<request, calls>>
    /\ UNCHANGED <<registered, connected, current, link, session>>

\* handleResponse() of an answer that is still waited for; a fetch that ends
\* after its server was unregistered fills the cache again.
Answer(r) ==
    /\ request[r].status = "pending" /\ link[request[r].over].at = "open"
    /\ request' = [request EXCEPT ![r].status = "answered"]
    /\ cached' = IF \E x \in WaitFor({r}) : x.op = "fetch" THEN request[r].by ELSE cached
    /\ calls' = calls \ WaitFor({r})
    /\ UNCHANGED <<registered, connected, current, link, session>>
Reject(r) ==
    /\ request[r].status = "pending"
    /\ request' = Rejected({r})
    /\ session' = Marked({r}, session)
    /\ calls' = calls \ WaitFor({r})
    /\ UNCHANGED <<registered, cached, connected, current, link>>
AnswersError(r) ==
    request[r].status = "pending" /\ link[request[r].over].at = "open" /\ Reject(r)
\* Mutant: the timer rejects only while the server is connected.
TimesOutWhileOpen(r) == request[r].status = "pending" /\ CanSend(request[r].by) /\ Reject(r)
TimesOut(r) == Reject(r)

-----------------------------------------------------------------------------
McpInit ==
    /\ registered = 0 /\ cached = 0 /\ calls = {}
    /\ connected = [a \in Adapters |-> FALSE] /\ current = [a \in Adapters |-> 0]
    /\ link = [k \in Links |-> [of |-> 0, at |-> "unused"]]
    /\ request = [r \in Requests |-> [by |-> 0, over |-> 0, status |-> "unused"]]
    /\ session = [s \in Sessions |->
                    [status |-> "none", stored |-> FALSE, heartbeat |-> FALSE, timeout |-> FALSE]]
McpNext ==
    \/ \E a \in Adapters : RegisterServer(a)
    \/ \E s \in Sessions :
         CreateSession(s) \/ Reconnect(s) \/ EndSession(s) \/ TimeoutFires(s) \/ HeartbeatFires(s)
    \/ \E k \in Links : LinkOpens(k) \/ LinkRefused(k) \/ LinkCloses(k)
    \/ Unregister \/ Fetch \/ ExecuteTool \/ RefreshServer
    \/ \E r \in Requests : Answer(r) \/ AnswersError(r) \/ TimesOut(r)

-----------------------------------------------------------------------------
\* No timer outlives its session: one that is not in the map has neither.
TimersOfSessions == \A s \in Sessions : session[s].heartbeat \/ session[s].timeout => session[s].stored
\* A request waits for an answer, a disconnect or its timer.
RequestWaits(r) == request[r].status = "pending"
=============================================================================
