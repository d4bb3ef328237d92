------------------------------ MODULE MCPlatform ------------------------------
(* Small instances of the AI platform for TLC.                               *)
EXTENDS Platform

MCTransports == [a \in Adapters |-> IF a = 1 THEN "websocket" ELSE "http"]

\* Every tool the agents ask for but one.
MCTools == UNION {RequiredTools[a] : a \in Agents} \ {"getInvoiceStatus"}
MCTexts == {{"overview"}, {"invoice"}}
MCTeams == {<<"hr", "sales">>}

\* Two organisations in one category, one of them in another too.
MCCacheKeys == {<<1, 1, 1>>, <<2, 1, 1>>, <<1, 1, 2>>}

\* Short sections before the first chunk and after it, headings in a row, a
\* section too long, and nothing but one too short.
MCTextsOfDocuments ==
    {<<"short", "heading", "fit", "heading", "short">>, <<"fit", "heading", "heading", "long", "heading", "short">>,
     <<"short", "heading">>, <<"heading", "short">>}

\* Ollama runs although its URL is not set; Azure has no key, and Bedrock keys
\* but no region.
MCSetups ==
    {[enabled |-> {"openai", "claude"}, reachable |-> {"openai", "claude", "ollama"}],
     [enabled |-> {"claude", "azure-openai"}, reachable |-> {"claude", "bedrock"}],
     [enabled |-> {"azure-openai"}, reachable |-> {"ollama", "azure-openai"}]}
MCPreferences == {"none", "claude", "mistral"}

MCOrders ==
    {[gateway |-> "stripe", kind |-> "refund", amount |-> 1], [gateway |-> "stripe", kind |-> "checkout", amount |-> 1],
     [gateway |-> "razorpay", kind |-> "refund", amount |-> 1],
     [gateway |-> "razorpay", kind |-> "refund", amount |-> 2]}
===============================================================================
