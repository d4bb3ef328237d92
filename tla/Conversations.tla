----------------------------- MODULE Conversations -----------------------------
(***************************************************************************)
(* Conversations of one user with the AI platform (src/ai/conversation):   *)
(* the stored conversations, their messages, the session that keeps the    *)
(* last messages, the long-term memory and the context window built of     *)
(* both.  The user has one session, whatever the conversation: the next    *)
(* one replaces it, and takes the messages of the earlier ones.  Storage   *)
(* is behind a provider; every call of it is the end of a step.            *)
(***************************************************************************)
EXTENDS Integers, FiniteSets, SequencesExt

CONSTANTS
    Chats, Memories,    \* ids, each used once
    Calls,              \* bound: calls of the managers, each used once
    MaxMessages,        \* DEFAULT_MAX_MESSAGES of a session
    Sizes, Limits       \* tokens of a message, and of a context window

ASSUME ConversationAssumption ==
    /\ MaxMessages \in Nat \ {0} /\ Sizes \subseteq Nat /\ Limits \subseteq Nat
    /\ 0 \notin Chats /\ IsFiniteSet(Memories)

VARIABLES
    chat,       \* the stored conversations
    stored,     \* their stored messages
    context,    \* the session object made for each: last messages and tokens
    inUse,      \* the one the session map holds, 0 for none
    memory,     \* the memories: what they are, whether their ttl is over
    chatCall    \* the calls in progress, and what they found

chatVars == <<chat, stored, context, inUse, memory, chatCall>>

NoCall == [op |-> "none"]
Past == [op |-> "past"]
Tokens(messages) == FoldLeft(LAMBDA n, m : n + m.tokens, 0, messages)
Become(k, x) == chatCall' = [chatCall EXCEPT ![k] = x]
Calling(k, op) == chatCall[k].op = op
Unused(k) == chatCall[k] = NoCall /\ \A j \in Calls : j < k => chatCall[j] # NoCall

-----------------------------------------------------------------------------
(* ConversationManagerService *)
\* The session is created when the conversation has been stored.
StartConversation(k) ==
    /\ Unused(k)
    /\ \E c \in Chats :
         /\ chat[c].status = "none" /\ \A d \in Chats : d < c => chat[d].status # "none"
         /\ chat' = [chat EXCEPT ![c].status = "active"]
         /\ Become(k, [op |-> "start", of |-> c])
    /\ UNCHANGED <<stored, context, inUse, memory>>
OpenSession(k) ==
    /\ Calling(k, "start")
    /\ inUse' = chatCall[k].of
    /\ Become(k, Past)
    /\ UNCHANGED <<chat, stored, context, memory>>

Known(c) == chat[c].status # "none" /\ ~\E k \in Calls : Calling(k, "start") /\ chatCall[k].of = c
\* pushMessage(): into the session of the user, whose it may not be.
Kept(messages) == IF Len(messages) > MaxMessages THEN Tail(messages) ELSE messages
\* Mutant: the tokens of the message that falls out stay counted.
PushOnly(m) ==
    IF inUse = 0 THEN context
    ELSE LET now == Append(context[inUse].last, m)
         IN [context EXCEPT ![inUse] = [last |-> Kept(now), tokens |-> @.tokens + m.tokens]]
PushMessage(m) ==
    IF inUse = 0 THEN context
    ELSE LET now == Append(context[inUse].last, m)
             out == IF Len(now) > MaxMessages THEN now[1].tokens ELSE 0
             left == context[inUse].tokens + m.tokens - out
         IN [context EXCEPT ![inUse] = [last |-> Kept(now), tokens |-> IF left < 0 THEN 0 ELSE left]]
\* addMessage(): the counters it writes are those it read before it stored
\* the message.
ReadForMessage(k) ==
    /\ Unused(k)
    /\ \E c \in Chats, n \in Sizes, s \in BOOLEAN :
         /\ Known(c)
         /\ Become(k, IF chat[c].status # "active" THEN Past
                      ELSE [op |-> "store", of |-> c, message |-> [tokens |-> n, system |-> s],
                            found |-> chat[c]])
    /\ UNCHANGED <<chat, stored, context, inUse, memory>>
StoreMessage(k) ==
    /\ Calling(k, "store")
    /\ LET x == chatCall[k]
       IN /\ stored' = [stored EXCEPT ![x.of] = Append(@, x.message)]
          /\ Become(k, [x EXCEPT !.op = "count"])
    /\ UNCHANGED <<chat, context, inUse, memory>>
CountMessage(k) ==
    /\ Calling(k, "count")
    /\ LET x == chatCall[k]
       IN /\ chat' = IF chat[x.of].status = "gone" THEN chat
                     ELSE [chat EXCEPT ![x.of].count = x.found.count + 1,
                                       ![x.of].tokens = x.found.tokens + x.message.tokens]
          /\ Become(k, [op |-> "push", message |-> x.message])
    /\ UNCHANGED <<stored, context, inUse, memory>>
PushToContext(k) ==
    /\ Calling(k, "push")
    /\ context' = PushMessage(chatCall[k].message)
    /\ Become(k, Past)
    /\ UNCHANGED <<chat, stored, inUse, memory>>

\* endSessionByConversation(): only if the session is that conversation's.
InUseAfter(c) == IF inUse = c THEN 0 ELSE inUse
ReadToEnd(k) ==
    /\ Unused(k)
    /\ \E c \in Chats :
         /\ Known(c)
         /\ Become(k, IF chat[c].status = "gone" THEN Past ELSE [op |-> "end", of |-> c])
    /\ UNCHANGED <<chat, stored, context, inUse, memory>>
EndConversation(k) ==
    /\ Calling(k, "end")
    /\ LET c == chatCall[k].of
       IN /\ chat' = IF chat[c].status = "gone" THEN chat ELSE [chat EXCEPT ![c].status = "ended"]
          /\ Become(k, [op |-> "ended", of |-> c])
    /\ UNCHANGED <<stored, context, inUse, memory>>
CloseSession(k) ==
    /\ Calling(k, "ended")
    /\ inUse' = InUseAfter(chatCall[k].of)
    /\ Become(k, Past)
    /\ UNCHANGED <<chat, stored, context, memory>>
\* deleteConversation(): messages, then the summary, then session and row;
\* a message stored meanwhile stays.
DeleteMessages(k) ==
    /\ Unused(k)
    /\ \E c \in Chats :
         /\ Known(c)
         /\ stored' = [stored EXCEPT ![c] = <<>>]
         /\ Become(k, [op |-> "delete", of |-> c])
    /\ UNCHANGED <<chat, context, inUse, memory>>
DeleteConversation(k) ==
    /\ Calling(k, "delete")
    /\ chat' = [chat EXCEPT ![chatCall[k].of].status = "gone"]
    /\ inUse' = InUseAfter(chatCall[k].of)
    /\ Become(k, Past)
    /\ UNCHANGED <<stored, context, memory>>

-----------------------------------------------------------------------------
(* LongTermMemoryService, and its storage: what is expired goes when it is *)
(* read.  kind is the type and the scope of the memory.                    *)
Kinds == {"organization preferences", "user preferences", "conversation summary"}
NoMemory == [kind |-> "none", expired |-> FALSE]
SaveMemory(m) ==
    /\ memory[m] = NoMemory
    /\ \E kind \in Kinds : memory' = [memory EXCEPT ![m].kind = kind]
    /\ UNCHANGED <<chat, stored, context, inUse, chatCall>>
\* Its ttl, counted from updatedAt, is over; updateMemory() begins it again.
MemoryExpires(m) ==
    /\ memory[m].kind # "none" /\ ~memory[m].expired
    /\ memory' = [memory EXCEPT ![m].expired = TRUE]
    /\ UNCHANGED <<chat, stored, context, inUse, chatCall>>
UpdateMemory(m) ==
    /\ memory[m].expired
    /\ memory' = [memory EXCEPT ![m].expired = FALSE]
    /\ UNCHANGED <<chat, stored, context, inUse, chatCall>>
ClearMemories(user) ==
    /\ memory' = [m \in Memories |->
                    IF (memory[m].kind = "user preferences") = user THEN NoMemory ELSE memory[m]]
    /\ UNCHANGED <<chat, stored, context, inUse, chatCall>>
FindMemories == [m \in Memories |-> IF memory[m].expired THEN NoMemory ELSE memory[m]]

-----------------------------------------------------------------------------
(* ContextWindowService *)
Keep(system, kept, m) == IF m.system = system THEN Append(kept, m) ELSE kept
OfRole(system, messages) == FoldLeft(LAMBDA kept, m : Keep(system, kept, m), <<>>, messages)
\* Every system message, and of the others each that still fits.
Take(taken, m) ==
    IF m.tokens <= taken.left
    THEN [left |-> taken.left - m.tokens, kept |-> Append(taken.kept, m)] ELSE taken
TrimMessages(messages, limit) ==
    LET systems == OfRole(TRUE, messages)
    IN FoldLeft(Take, [left |-> limit - Tokens(systems), kept |-> systems],
                OfRole(FALSE, messages)).kept
\* One message for all preferences of a scope, one for each summary.
MemoryTokens(found) ==
    LET Has(kind) == {m \in Memories : found[m].kind = kind}
        Once(kind) == IF Has(kind) = {} THEN 0 ELSE 1
    IN Once("organization preferences") + Once("user preferences")
       + Cardinality(Has("conversation summary"))

\* The list it goes on with is the session's own, unless it was trimmed; the
\* memories are asked for at once and come later.
BeginWindow(k) ==
    /\ Unused(k)
    /\ \E limit \in Limits :
         LET last == IF inUse = 0 THEN <<>> ELSE context[inUse].last
             trims == Tokens(last) > limit
             mine == TrimMessages(last, limit)
             messages == IF trims THEN mine ELSE last
         IN Become(k, [op |-> "window", limit |-> limit, own |-> trims \/ inUse = 0,
                       session |-> inUse, messages |-> messages, total |-> Tokens(messages),
                       memories |-> MemoryTokens(FindMemories)])
    /\ memory' = FindMemories
    /\ UNCHANGED <<chat, stored, context, inUse>>
RoomBeside(limit, memories) == limit - memories
\* late is not returned: a message came into the session's list meanwhile.
BuildWindow(k) ==
    /\ Calling(k, "window")
    /\ LET x == chatCall[k]
           messages == IF x.own THEN x.messages ELSE context[x.session].last
           mine == TrimMessages(messages, RoomBeside(x.limit, x.memories))
           trims == x.memories > 0 /\ x.total + x.memories > x.limit
       IN Become(k, [op |-> "built", limit |-> x.limit, memories |-> x.memories,
                     late |-> messages # x.messages, messages |-> IF trims THEN mine ELSE messages,
                     total |-> x.memories + IF trims THEN Tokens(mine) ELSE x.total])
    /\ UNCHANGED <<chat, stored, context, inUse, memory>>

ConversationInit ==
    /\ chat = [c \in Chats |-> [status |-> "none", count |-> 0, tokens |-> 0]]
    /\ stored = [c \in Chats |-> <<>>]
    /\ context = [c \in Chats |-> [last |-> <<>>, tokens |-> 0]]
    /\ inUse = 0
    /\ memory = [m \in Memories |-> NoMemory]
    /\ chatCall = [k \in Calls |-> NoCall]

ConversationNext ==
    \/ \E k \in Calls :
         \/ StartConversation(k) \/ OpenSession(k)
         \/ ReadForMessage(k) \/ StoreMessage(k) \/ CountMessage(k) \/ PushToContext(k)
         \/ ReadToEnd(k) \/ EndConversation(k) \/ CloseSession(k)
         \/ DeleteMessages(k) \/ DeleteConversation(k)
         \/ BeginWindow(k) \/ BuildWindow(k)
    \/ \E m \in Memories : SaveMemory(m) \/ MemoryExpires(m) \/ UpdateMemory(m)
    \/ \E user \in BOOLEAN : ClearMemories(user)

-----------------------------------------------------------------------------
\* The session in the map is of a conversation that still goes on, however
\* calls overlap, unless the call that ends it has not come to it
\* (endConversation, deleteConversation, endSessionByConversation).
SessionIsOpen ==
    (inUse # 0 /\ chat[inUse].status # "active") =>
        \E k \in Calls : Calling(k, "ended") /\ chatCall[k].of = inUse

\* A session's token count is that of the messages it kept (pushMessage()).
ContextCounted == \A c \in Chats : context[c].tokens = Tokens(context[c].last)

\* A context window tells its size, and is within its limit unless system
\* messages and memories, which are never left out, are more than that - or
\* a message came into the session's own list while the memories were being
\* read (buildContextWindow()).
WindowFits ==
    \A k \in Calls : Calling(k, "built") =>
        LET x == chatCall[k]
        IN \/ x.late
           \/ /\ x.total = Tokens(x.messages) + x.memories
              /\ x.total <= x.limit \/ Tokens(OfRole(TRUE, x.messages)) + x.memories > x.limit
ContextTells == ContextCounted /\ WindowFits
===============================================================================
