------------------------------ MODULE AgentPlans ------------------------------
(***************************************************************************)
(* What the seven agents (src/ai/agents) do with a request: which of them  *)
(* can handle its text and with what confidence, and the steps of their    *)
(* plans.  A text is the set of those words it includes that the agents    *)
(* look for; a step is a tool and whether it depends on the step before.   *)
(***************************************************************************)
EXTENDS Naturals, SequencesExt

\* What a rule asks of a text: one of these sets of words, all of it.
AnyOf(words) == {{w} : w \in words}
Both(some, others) == {{v, w} : v \in some, w \in others}
Asks(text, alternatives) == \E alt \in alternatives : alt \subseteq text

\* Registration order, as in the start of the AI module.
AgentOrder == <<"ceo", "finance", "sales", "inventory", "hr", "reporting", "developer">>
Agents == {AgentOrder[i] : i \in DOMAIN AgentOrder}
Priority == [ceo |-> 10, finance |-> 8, sales |-> 7, inventory |-> 6, hr |-> 5, reporting |-> 4,
             developer |-> 3]
RequiredTools ==
    [ceo |-> {"getSalesTotal", "getStockLevel", "getActiveEmployees", "getFinancialSummary"},
     finance |-> {"getSalesTotal", "getFinancialSummary", "getInvoiceStatus", "getPaymentHistory"},
     sales |-> {"getSalesTotal", "getQuotationStatus", "getOrderStatus", "getCustomerInfo",
                "getTopProducts"},
     inventory |-> {"getStockLevel", "getWarehouseStatus", "getTransferStatus",
                    "getPurchaseOrderStatus"},
     hr |-> {"getActiveEmployees", "getAttendanceRecord", "getLeaveBalance", "getDepartmentInfo"},
     reporting |-> {"getSalesTotal", "getStockLevel", "getActiveEmployees", "getFinancialSummary"},
     developer |-> {"getSystemHealth", "getApiEndpoints", "getAuditLogs", "getProviderStatus"}]

-----------------------------------------------------------------------------
\* canHandle(): the first rule the text meets, with its confidence in percent.
On(alternatives, confidence) == [asks |-> alternatives, confidence |-> confidence]
CeoHandles ==
    <<On(AnyOf({"dashboard", "overview", "business health", "summary", "executive"}), 95),
      On({{"revenue", "inventory"}, {"sales", "stock"}, {"cross", "domain"}}, 85)>>
FinanceHandles ==
    <<On(AnyOf({"revenue", "income", "earning", "profit"}), 95), On(AnyOf({"invoice", "bill", "billing"}), 90),
      On(AnyOf({"payment", "paid", "transaction", "reconciliation"}), 90),
      On(AnyOf({"balance sheet", "p&l", "profit and loss", "financial report", "trial balance"}), 85),
      On(AnyOf({"account", "finance", "financial", "money"}), 70)>>
SalesHandles ==
    <<On(AnyOf({"quotation", "quote", "estimate"}), 90), On(AnyOf({"order", "sales order"}), 90),
      On(AnyOf({"customer", "client"}), 85),
      On(AnyOf({"sales", "top product", "best selling", "sales performance"}), 95)>>
InventoryHandles ==
    <<On(AnyOf({"stock", "available", "in stock", "quantity"}), 95),
      On(AnyOf({"warehouse", "facility", "location"}), 90), On(AnyOf({"transfer", "move", "relocate"}), 85),
      On(AnyOf({"purchase order", "vendor", "supplier", "procurement"}), 80),
      On(AnyOf({"inventory", "product", "item"}), 70)>>
HrHandles ==
    <<On(AnyOf({"employee", "staff", "personnel", "who is"}), 95),
      On(AnyOf({"attendance", "check in", "check out", "present"}), 90),
      On(AnyOf({"leave", "vacation", "time off", "sick"}), 90),
      On(AnyOf({"department", "team", "org chart", "reporting"}), 85), On(AnyOf({"hr", "human resource"}), 70)>>
ReportingHandles ==
    <<On(AnyOf({"report"}) \cup {{"generate", "export"}}, 95),
      On(AnyOf({"export", "csv", "excel", "download", "pdf"}), 90),
      On(AnyOf({"dashboard", "kpi", "metric", "performance indicator"}), 85),
      On(Both({"all", "everything", "combined", "unified"}, {"report", "data", "summary"}), 80)>>
DeveloperHandles ==
    <<On(AnyOf({"system health", "status", "uptime"}) \cup {{"provider", "available"}}, 95),
      On(AnyOf({"api", "endpoint", "route", "swagger"}), 90), On(AnyOf({"audit", "log", "event", "history"}), 85),
      On(AnyOf({"config", "setting", "environment", "variable"}), 80),
      On(AnyOf({"developer", "dev", "technical", "debug"}), 70)>>
Handles ==
    [ceo |-> CeoHandles, finance |-> FinanceHandles, sales |-> SalesHandles,
     inventory |-> InventoryHandles, hr |-> HrHandles, reporting |-> ReportingHandles,
     developer |-> DeveloperHandles]

Rule(agent, text) == {i \in DOMAIN Handles[agent] : Asks(text, Handles[agent][i].asks)}
CanHandle(agent, text) == Rule(agent, text) # {}
Confidence(agent, text) ==
    LET met == Rule(agent, text)
    IN Handles[agent][CHOOSE i \in met : \A j \in met : i <= j].confidence

\* findBestMatch(): confidence times priority, the first registered of equals.
Rank(agent) == CHOOSE i \in DOMAIN AgentOrder : AgentOrder[i] = agent
Score(agent, text) == Confidence(agent, text) * Priority[agent]
FindBestMatch(registered, text) ==
    LET able == {a \in registered : CanHandle(a, text)}
    IN IF able = {} THEN "none"
       ELSE CHOOSE a \in able : \A b \in able \ {a} :
              \/ Score(a, text) > Score(b, text)
              \/ Score(a, text) = Score(b, text) /\ Rank(a) < Rank(b)

-----------------------------------------------------------------------------
\* plan(): a step for each tool of each rule the text meets, or the default.
Step(tool) == [tool |-> tool, after |-> FALSE]
After(tool) == [tool |-> tool, after |-> TRUE]
When(alternatives, steps) == [asks |-> alternatives, steps |-> steps]

CeoSteps ==
    <<When(AnyOf({"revenue", "sales", "financial"}), <<Step("getSalesTotal"), After("getFinancialSummary")>>),
      When(AnyOf({"inventory", "stock", "warehouse"}), <<Step("getStockLevel")>>),
      When(AnyOf({"employee", "hr", "workforce"}), <<Step("getActiveEmployees")>>)>>
FinanceSteps ==
    <<When(AnyOf({"revenue", "income"}), <<Step("getSalesTotal")>>),
      When(AnyOf({"invoice", "bill"}), <<Step("getInvoiceStatus")>>),
      When(AnyOf({"payment", "transaction", "reconciliation"}), <<Step("getPaymentHistory")>>),
      When(AnyOf({"balance", "p&l", "financial report", "trial balance"}), <<Step("getFinancialSummary")>>)>>
SalesSteps ==
    <<When(AnyOf({"sales", "revenue", "performance"}), <<Step("getSalesTotal"), After("getTopProducts")>>),
      When(AnyOf({"quotation", "quote"}), <<Step("getQuotationStatus")>>),
      When(AnyOf({"order"}), <<Step("getOrderStatus")>>),
      When(AnyOf({"customer", "client"}), <<Step("getCustomerInfo")>>)>>
InventorySteps ==
    <<When(AnyOf({"stock", "available", "in stock", "quantity"}), <<Step("getStockLevel")>>),
      When(AnyOf({"warehouse"}), <<Step("getWarehouseStatus")>>),
      When(AnyOf({"transfer", "move"}), <<Step("getTransferStatus")>>),
      When(AnyOf({"purchase order", "vendor", "supplier", "procurement"}), <<Step("getPurchaseOrderStatus")>>)>>
HrSteps ==
    <<When(AnyOf({"employee", "staff", "personnel", "who is"}), <<Step("getActiveEmployees")>>),
      When(AnyOf({"attendance", "present", "absent"}), <<Step("getAttendanceRecord")>>),
      When(AnyOf({"leave", "vacation", "time off", "sick"}), <<Step("getLeaveBalance")>>),
      When(AnyOf({"department", "team", "org chart"}), <<Step("getDepartmentInfo")>>)>>
\* A report of everything, asked for or by default, starts with the sales.
Everything == AnyOf({"all", "everything", "full", "complete"})
OfStock == AnyOf({"inventory", "stock", "warehouse"})
OfMoney == AnyOf({"finance", "account", "payment"})
OfStaff == AnyOf({"hr", "employee", "attendance"})
ReportingSteps ==
    <<When(Everything \cup AnyOf({"sales", "revenue", "customer"}), <<Step("getSalesTotal")>>),
      When(Everything \cup OfStock, <<After("getStockLevel")>>),
      When(Everything \cup OfMoney, <<After("getFinancialSummary")>>),
      When(Everything \cup OfStaff, <<After("getActiveEmployees")>>)>>
DeveloperSteps ==
    <<When(AnyOf({"system health", "status", "uptime"}) \cup {{"provider", "available"}},
           <<Step("getSystemHealth"), After("getProviderStatus")>>),
      When(AnyOf({"api", "endpoint", "route"}), <<Step("getApiEndpoints")>>),
      When(AnyOf({"audit", "log", "event"}), <<Step("getAuditLogs")>>),
      When(AnyOf({"config", "setting"}), <<Step("getSystemHealth")>>)>>
Steps ==
    [ceo |-> CeoSteps, finance |-> FinanceSteps, sales |-> SalesSteps, inventory |-> InventorySteps,
     hr |-> HrSteps, reporting |-> ReportingSteps, developer |-> DeveloperSteps]
Default ==
    [ceo |-> "getFinancialSummary", finance |-> "getFinancialSummary", sales |-> "getSalesTotal",
     inventory |-> "getStockLevel", hr |-> "getActiveEmployees", reporting |-> "getSalesTotal",
     developer |-> "getSystemHealth"]

\* The steps of the rules that the text meets; the first step has nothing to
\* depend on.
With(text, steps, rule) == IF Asks(text, rule.asks) THEN steps \o rule.steps ELSE steps
Planned(text, rules) == FoldLeft(LAMBDA steps, rule : With(text, steps, rule), <<>>, rules)
Plan(agent, text) ==
    LET all == Planned(text, Steps[agent])
    IN IF all = <<>> THEN <<Step(Default[agent])>> ELSE [all EXCEPT ![1].after = FALSE]

-----------------------------------------------------------------------------
Words ==
    UNION {UNION {UNION Handles[a][i].asks : i \in DOMAIN Handles[a]} : a \in Agents}
    \cup UNION {UNION {UNION Steps[a][i].asks : i \in DOMAIN Steps[a]} : a \in Agents}
ShortTexts == {{v, w} : v, w \in Words}

\* Whatever two words a request has, every agent's plan has steps, all with
\* tools it declares that it requires: what the registry finds agents by and
\* what a deployment provides for them.
PlansDeclared ==
    \A a \in Agents, text \in ShortTexts :
        LET plan == Plan(a, text)
        IN plan # <<>> /\ \A i \in DOMAIN plan : plan[i].tool \in RequiredTools[a]
=============================================================================
