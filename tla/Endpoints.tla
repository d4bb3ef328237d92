------------------------------- MODULE Endpoints -------------------------------
(***************************************************************************)
(* The routes of the HTTP controllers, in the order in which they are      *)
(* registered, and the permission PermissionGuard asks for on each.  A     *)
(* path is the sequence of its segments, ":" for a parameter; parameters,  *)
(* bodies and queries are handed to the service unchanged.                 *)
(***************************************************************************)
EXTENDS Access, Sequences

Route(verb, path, needs) == [verb |-> verb, path |-> path, needs |-> needs]
\* Nothing asked of who may call: no @Permissions on the handler.
Anyone == <<>>
Gets(base, needs, tails) == [k \in DOMAIN tails |-> Route("GET", base \o tails[k], needs)]
Posts(base, needs, tails) == [k \in DOMAIN tails |-> Route("POST", base \o tails[k], needs)]
Patches(base, needs, tails) == [k \in DOMAIN tails |-> Route("PATCH", base \o tails[k], needs)]
Puts(base, needs, tails) == [k \in DOMAIN tails |-> Route("PUT", base \o tails[k], needs)]
Deletes(base, needs, tails) == [k \in DOMAIN tails |-> Route("DELETE", base \o tails[k], needs)]
Under(org, resource) == <<org, "organizations", ":">> \o resource
One == <<":">>

\* The shapes most controllers repeat: create, list, read; update; what is
\* done to one row; removal.
Opens(b, r) ==
    Posts(b, <<r, "create">>, <<<<>>>>) \o Gets(b, <<r, "read">>, <<<<>>, One>>)
Edits(b, r) == Opens(b, r) \o Patches(b, <<r, "update">>, <<One>>)
Acts(b, r, action, names) ==
    Posts(b, <<r, action>>, [k \in DOMAIN names |-> <<":", names[k]>>])
Step(b, r, names) ==
    [k \in DOMAIN names |-> Route("POST", b \o <<":", names[k]>>, <<r, names[k]>>)]
Removes(b, r) == Deletes(b, <<r, "delete">>, <<One>>)
Archives(b, r) == Acts(b, r, "update", <<"archive", "restore">>)
Keeps(b, r) == Edits(b, r) \o Archives(b, r) \o Removes(b, r)
Timeline(b, r) == Gets(b, <<r, "read">>, <<<<":", "timeline">>>>)

-----------------------------------------------------------------------------
HealthRoutes == Gets(<<"health">>, Anyone, <<<<>>>>)
ReadyRoutes == Gets(<<"ready">>, Anyone, <<<<>>>>)
AuthRoutes ==
    Posts(<<"auth">>, Anyone, <<<<"register">>, <<"login">>, <<"logout">>, <<"refresh">>>>)
    \o Gets(<<"auth">>, Anyone, <<<<"me">>>>)
OrganizationRoutes ==
    LET b == <<"organizations">>
    IN Posts(b, Anyone, <<<<>>>>) \o Gets(b, Anyone, <<<<>>, One>>)
       \o Patches(b, <<"organization", "update">>, <<One>>)
       \o Deletes(b, <<"organization", "delete">>, <<One>>)
       \o Patches(b, <<"organization", "update">>, <<<<":", "restore">>>>)
SettingsRoutes ==
    LET b == <<"organizations", ":", "settings">>
    IN Gets(b, Anyone, <<<<>>>>) \o Patches(b, <<"organization", "update">>, <<<<>>>>)
RbacRoutes ==
    LET b == <<"rbac">>  roles == <<"rbac", "roles">>  users == <<"rbac", "users", ":", "roles">>
    IN Gets(roles, Anyone, <<<<>>>>) \o Posts(roles, <<"role", "create">>, <<<<>>>>)
       \o Gets(roles, Anyone, <<One>>) \o Patches(roles, <<"role", "update">>, <<One>>)
       \o Removes(roles, "role") \o Patches(roles, <<"role", "update">>, <<<<":", "restore">>>>)
       \o Gets(roles, Anyone, <<<<":", "permissions">>>>)
       \o Puts(roles, <<"role", "update">>, <<<<":", "permissions">>>>)
       \o Posts(users, <<"user", "update">>, <<<<>>>>) \o Deletes(users, <<"user", "update">>, <<One>>)
       \o Gets(users, Anyone, <<<<>>>>)
       \o Gets(b, Anyone, <<<<"permissions">>, <<"permission-groups">>>>)
AuditRoutes == Gets(<<"audit-logs">>, <<"audit_log", "read">>, <<<<>>, One>>)
SubscriptionRoutes ==
    LET b == <<"subscriptions">>  plans == <<"subscriptions", "plans">>
        org == <<"subscriptions", "organizations", ":">>  sub == org \o <<"subscription">>
    IN Posts(plans, Anyone, <<<<>>>>) \o Gets(plans, Anyone, <<<<>>, One>>)
       \o Patches(plans, Anyone, <<One>>) \o Deletes(plans, Anyone, <<One>>)
       \o Posts(sub, Anyone, <<<<>>>>) \o Gets(sub, Anyone, <<<<>>>>)
       \o Patches(sub, Anyone, <<<<"plan">>>>)
       \o Posts(sub, Anyone, <<<<"cancel">>, <<"renew">>, <<"expire">>>>)
       \o Posts(b, Anyone, <<<<"expired", "process">>>>)
       \o Gets(org, Anyone, <<<<"features">>>>) \o Posts(org, Anyone, <<<<"features", "check">>>>)
       \o Gets(org, Anyone, <<<<"usage">>>>)
       \o Posts(org, Anyone, <<<<"usage", "check">>, <<"usage", "increment">>>>)
PortalSubscriptionRoutes ==
    LET b == Under("billing-portal", <<"subscription">>)
    IN Gets(b, Anyone, <<<<>>>>) \o Patches(b, Anyone, <<<<"upgrade">>, <<"downgrade">>>>)
       \o Posts(b, Anyone, <<<<"cancel">>, <<"resume">>>>)
       \o Gets(b, Anyone, <<<<"trial">>, <<"renewal">>>>)
       \o Gets(Under("billing-portal", <<"plans">>), Anyone, <<<<>>, <<"compare">>>>)
PortalBillingRoutes ==
    LET b == Under("billing-portal", <<>>)
        Details(name) == Gets(b, Anyone, <<<<name>>>>) \o Puts(b, Anyone, <<<<name>>>>)
    IN Gets(b \o <<"invoices">>, Anyone, <<<<>>, <<"upcoming">>, One, <<":", "download">>>>)
       \o Gets(b \o <<"payments">>, Anyone, <<<<>>, One, <<":", "status">>>>)
       \o Gets(b \o <<"usage">>, Anyone, <<<<>>, <<"remaining">>, <<"history">>>>)
       \o Gets(b \o <<"features">>, Anyone, <<<<>>, <<"locked">>, <<":", "availability">>>>)
       \o Posts(b \o <<"coupons">>, Anyone, <<<<"validate">>, <<"preview">>, <<"apply">>>>)
       \o Details("billing-address") \o Details("company-info") \o Details("tax-info")
SuperOrganizationRoutes ==
    LET b == <<"super-admin", "organizations">>
        Change(names) == Patches(b, Anyone, [k \in DOMAIN names |-> <<":", names[k]>>])
    IN Gets(<<"super-admin", "dashboard", "stats">>, Anyone, <<<<>>>>) \o Gets(b, Anyone, <<<<>>, One>>)
       \o Change(<<"suspend", "restore">>) \o Deletes(b, Anyone, <<One>>)
       \o Change(<<"reactivate", "plan", "usage-limits", "features">>)
SuperPlanRoutes ==
    LET plans == <<"super-admin", "plans">>  features == <<"super-admin", "features">>
        pf == <<"super-admin", "plan-features", ":">>
    IN Posts(plans, Anyone, <<<<>>>>)
       \o Patches(plans, Anyone, <<One, <<":", "archive">>, <<":", "restore">>>>)
       \o Deletes(plans, Anyone, <<One>>) \o Posts(plans, Anyone, <<<<":", "duplicate">>>>)
       \o Patches(plans, Anyone, <<<<":", "pricing">>>>)
       \o Posts(features, Anyone, <<<<>>>>) \o Patches(features, Anyone, <<One>>)
       \o Deletes(features, Anyone, <<One>>) \o Posts(features, Anyone, <<<<":", "assign", ":">>>>)
       \o Deletes(features, Anyone, <<<<":", "remove", ":">>>>)
       \o Patches(pf, Anyone, <<<<"enable">>, <<"disable">>>>)
SuperBillingRoutes ==
    LET b == <<"super-admin">>
    IN Gets(b \o <<"coupons">>, Anyone, <<<<>>, <<"analytics">>>>)
       \o Patches(b \o <<"coupons">>, Anyone, <<<<":", "disable">>>>)
       \o Posts(b \o <<"coupons">>, Anyone, <<<<":", "expire">>>>) \o Deletes(b
       \o <<"coupons">>, Anyone, <<One>>)
       \o Gets(b \o <<"payments">>, Anyone,
               <<<<>>, <<"failed">>, <<"refunded">>, <<"revenue">>, <<"mrr">>, <<"arr">>>>)
       \o Gets(b \o <<"invoices">>, Anyone, <<<<>>, <<":", "download">>>>)
       \o Posts(b \o <<"announcements">>, Anyone, <<<<>>>>)
       \o Patches(b \o <<"announcements">>, Anyone, <<<<":", "publish">>, <<":", "schedule">>>>)
       \o Gets(b, Anyone, <<<<"settings">>>>) \o Puts(b, Anyone, <<<<"settings">>>>)
       \o Gets(b, Anyone, <<<<"audit-logs">>>>)

LeadRoutes ==
    LET b == Under("crm", <<"leads">>)
    IN Keeps(b, "lead") \o Acts(b, "lead", "assign", <<"assign">>)
LeadNoteRoutes ==
    LET b == Under("crm", <<"leads", ":">>)  u == <<"lead", "update">>  v == <<"lead", "read">>
        notes == b \o <<"notes">>
    IN Gets(notes, v, <<<<>>>>) \o Posts(notes, u, <<<<>>>>) \o Patches(notes, u, <<One>>)
       \o Deletes(notes, u, <<One>>) \o Gets(b, v, <<<<"activities">>>>)
       \o Posts(b, u, <<<<"activities">>>>)
       \o Gets(b, v, <<<<"timeline">>, <<"assignment-history">>>>)
\* Mutant: reading a company is enough to write a note about it.
CompanyReaderRoutes ==
    LET b == Under("crm", <<"companies">>)
    IN Keeps(b, "company") \o Gets(b, <<"company", "read">>, <<<<":", "notes">>>>)
       \o Acts(b, "company", "read", <<"notes">>)
CompanyRoutes ==
    LET b == Under("crm", <<"companies">>)  v == <<"company", "read">>
    IN Keeps(b, "company")
       \o Gets(b, v, <<<<":", "notes">>>>) \o Acts(b, "company", "update", <<"notes">>)
       \o Gets(b, v, <<<<":", "activities">>>>) \o Acts(b, "company", "update", <<"activities">>)
       \o Timeline(b, "company")
ContactRoutes ==
    LET b == Under("crm", <<"contacts">>)
    IN Keeps(b, "contact")
       \o Acts(b, "contact", "update", <<"set-primary", "set-decision-maker", "move-company">>)
       \o Timeline(b, "contact")
PipelineRoutes ==
    LET b == Under("crm", <<"pipelines">>)  stages == b \o <<":", "stages">>  u == <<"pipeline", "update">>
    IN Keeps(b, "pipeline") \o Posts(stages, u, <<<<>>>>) \o Patches(stages, u, <<One>>)
       \o Posts(stages, u, <<<<"reorder">>>>) \o Removes(stages, "pipeline")
DealRoutes ==
    LET b == Under("crm", <<"deals">>)  v == <<"deal", "read">>
    IN Posts(b, <<"deal", "create">>, <<<<>>>>) \o Gets(b, v, <<<<>>, <<"stats">>, One>>)
       \o Patches(b, <<"deal", "update">>, <<One>>)
       \o Acts(b, "deal", "update",
               <<"move-stage", "change-owner", "mark-won", "mark-lost", "archive", "restore">>)
       \o Removes(b, "deal") \o Timeline(b, "deal")
ActivityRoutes ==
    LET b == Under("crm", <<"activities">>)
    IN Edits(b, "activity")
       \o Acts(b, "activity", "update", <<"complete", "cancel", "archive", "restore">>)
       \o Removes(b, "activity")
       \o Acts(b, "activity", "update", <<"assign", "change-due-date", "change-priority">>)
       \o Timeline(b, "activity")
CategoryRoutes ==
    LET b == Under("inventory", <<>>)
    IN Edits(b \o <<"categories">>, "category") \o Removes(b \o <<"categories">>, "category")
       \o Edits(b \o <<"units">>, "unit") \o Removes(b \o <<"units">>, "unit")
ProductRoutes == Keeps(Under("inventory", <<"products">>), "product")
QuotationRoutes ==
    LET b == Under("sales", <<"quotations">>)
    IN Keeps(b, "quotation") \o Step(b, "quotation", <<"send", "accept", "reject", "cancel">>)
       \o Acts(b, "quotation", "create", <<"duplicate">>)
QuotationItemRoutes ==
    LET b == Under("sales", <<"quotations">>)  items == b \o <<":", "items">>
        u == <<"quotation", "update">>
    IN Posts(items, u, <<<<>>>>) \o Patches(items, u, <<One>>) \o Deletes(items, u, <<One>>)
       \o Posts(items, u, <<<<"reorder">>>>) \o Timeline(b, "quotation")
SalesOrderRoutes ==
    LET b == Under("sales", <<"orders">>)
    IN Posts(b, <<"sales_order", "create">>, <<<<>>, <<"from-quotation", ":">>>>)
       \o Gets(b, <<"sales_order", "read">>, <<<<>>, One>>)
       \o Patches(b, <<"sales_order", "update">>, <<One>>)
       \o Step(b, "sales_order", <<"confirm", "cancel">>)
       \o Acts(b, "sales_order", "update", <<"status">>)
       \o Acts(b, "sales_order", "create", <<"duplicate">>)
       \o Archives(b, "sales_order") \o Removes(b, "sales_order") \o Timeline(b, "sales_order")
InvoiceRoutes ==
    LET b == Under("sales", <<"invoices">>)
    IN Posts(b, <<"invoice", "create">>, <<<<>>, <<"from-order", ":">>>>)
       \o Gets(b, <<"invoice", "read">>, <<<<>>, One>>) \o Patches(b, <<"invoice", "update">>, <<One>>)
       \o Step(b, "invoice", <<"send", "void">>) \o Acts(b, "invoice", "create", <<"duplicate">>)
       \o Archives(b, "invoice") \o Removes(b, "invoice") \o Timeline(b, "invoice")
PaymentRoutes ==
    LET b == Under("sales", <<"payments">>)
    IN Posts(b, <<"payment", "create">>, <<<<"manual">>, <<"gateway">>>>)
       \o Acts(b, "payment", "update", <<"allocate">>)
       \o Posts(b, <<"payment", "refund">>, <<<<"refund">>>>)
       \o Gets(b, <<"payment", "read">>, <<<<>>, One>>)
       \o Gets(Under("sales", <<"invoices">>), <<"payment", "read">>, <<<<":", "payments">>>>)
InventoryRoutes ==
    LET b == Under("inventory", <<>>)
    IN Gets(b, <<"inventory", "dashboard">>, <<<<"dashboard">>>>)
       \o Gets(b, <<"inventory", "search">>, <<<<"search">>>>)
WarehouseRoutes == Keeps(Under("inventory", <<"warehouses">>), "warehouse")
StockRoutes ==
    LET b == Under("inventory", <<"stock">>)
        Does(a) == Posts(b, <<"stock", a>>, <<<<a>>>>)
    IN Gets(b, <<"stock", "read">>, <<<<>>, <<"ledger">>, <<":", ":">>>>)
       \o Does("reserve") \o Does("release") \o Does("adjust")
TransferRoutes ==
    LET b == Under("inventory", <<"transfers">>)
    IN Opens(b, "transfer") \o Step(b, "transfer", <<"approve", "complete", "cancel">>)
VendorRoutes == Keeps(Under("procurement", <<"vendors">>), "vendor")
PurchaseOrderRoutes ==
    LET b == Under("procurement", <<"purchase-orders">>)
    IN Edits(b, "purchase_order") \o Step(b, "purchase_order", <<"approve", "cancel">>)
       \o Acts(b, "purchase_order", "create", <<"duplicate">>)
GoodsReceiptRoutes ==
    LET b == Under("procurement", <<"goods-receipts">>)
    IN Opens(b, "goods_receipt") \o Step(b, "goods_receipt", <<"cancel">>)
ProcurementRoutes ==
    LET b == Under("procurement", <<>>)
    IN Gets(b, <<"procurement", "dashboard">>, <<<<"dashboard">>>>)
       \o Gets(b, <<"procurement", "search">>, <<<<"search">>>>)
AccountRoutes ==
    LET b == Under("accounting", <<"chart-of-accounts">>)
    IN Edits(b, "chart_of_account") \o Removes(b, "chart_of_account")
       \o Gets(b, <<"chart_of_account", "read">>, <<<<":", "balance">>>>)
FiscalYearRoutes ==
    LET b == Under("accounting", <<"fiscal-years">>)
    IN Edits(b, "fiscal_year") \o Step(b, "fiscal_year", <<"close">>)
JournalRoutes ==
    LET b == Under("accounting", <<"journal-entries">>)
    IN Opens(b, "journal_entry") \o Step(b, "journal_entry", <<"post", "reverse">>)
StatementRoutes ==
    Gets(Under("accounting", <<"reports">>), <<"accounting_report", "read">>,
         <<<<"general-ledger">>, <<"trial-balance">>, <<"balance-sheet">>, <<"profit-loss">>>>)
DepartmentRoutes == Edits(Under("hrms", <<"departments">>), "department")
DesignationRoutes == Edits(Under("hrms", <<"designations">>), "designation")
EmployeeRoutes == Edits(Under("hrms", <<"employees">>), "employee")
AttendanceRoutes ==
    LET b == Under("hrms", <<"attendance">>)
    IN Posts(b, <<"attendance", "create">>, <<<<"check-in">>, <<"check-out">>>>)
       \o Gets(b, <<"attendance", "read">>, <<<<>>>>)
LeaveRoutes ==
    LET b == Under("hrms", <<"leave">>)
    IN Posts(b, <<"leave", "create">>, <<<<"apply">>>>) \o Gets(b, <<"leave", "read">>, <<<<>>, One>>)
       \o Step(b, "leave", <<"approve", "reject">>)
DashboardRoutes ==
    Gets(Under("reports", <<"dashboard">>), <<"report", "dashboard">>,
         <<<<"executive">>, <<"sales">>, <<"inventory">>, <<"procurement">>, <<"accounting">>,
           <<"hr">>>>)
ReportRoutes ==
    LET b == Under("reports", <<>>)
    IN Gets(b, <<"report", "read">>,
            <<<<"sales">>, <<"quotations">>, <<"customers">>, <<"sales", "top-products">>,
              <<"inventory">>, <<"inventory", "stock-movement">>, <<"inventory", "warehouses">>,
              <<"inventory", "top-moving">>,
              <<"purchases">>, <<"vendors">>, <<"journals">>, <<"general-ledger">>, <<"trial-balance">>,
              <<"profit-loss">>, <<"balance-sheet">>, <<"employees">>, <<"attendance">>, <<"leave">>>>)
ExportRoutes == Posts(Under("reports", <<"export">>), <<"report", "export">>, <<<<"csv">>, <<"excel">>>>)
WorkflowRoutes ==
    LET b == Under("workflows", <<>>)  d == b \o <<"definitions">>
    IN Gets(b, Anyone, <<<<"events">>>>) \o Edits(d, "workflow")
       \o Acts(d, "workflow", "update", <<"toggle">>) \o Removes(d, "workflow")
       \o Gets(b, <<"workflow", "read">>, <<<<"executions">>>>)
       \o Posts(b, <<"workflow", "emit">>, <<<<"emit", ":">>>>)
AiRoutes ==
    LET b == <<"ai">>
    IN Posts(b, Anyone, <<<<"chat">>, <<"chat", ":">>>>)
       \o Gets(b, Anyone, <<<<"health">>, <<"providers">>>>)
       \o Posts(b, Anyone, <<<<"providers", ":", "check">>, <<"embed">>>>)

\* AppModule's imports, in their order.
AppRoutes ==
    HealthRoutes \o ReadyRoutes \o AuthRoutes \o OrganizationRoutes \o SettingsRoutes \o RbacRoutes
    \o AuditRoutes \o SubscriptionRoutes \o PortalSubscriptionRoutes \o PortalBillingRoutes
    \o SuperOrganizationRoutes \o SuperPlanRoutes \o SuperBillingRoutes
    \o LeadRoutes \o LeadNoteRoutes \o CompanyRoutes \o ContactRoutes \o PipelineRoutes \o DealRoutes
    \o ActivityRoutes \o CategoryRoutes \o ProductRoutes \o QuotationRoutes \o QuotationItemRoutes
    \o SalesOrderRoutes \o InvoiceRoutes
    \o PaymentRoutes \o WarehouseRoutes \o StockRoutes \o TransferRoutes \o InventoryRoutes
    \o VendorRoutes \o PurchaseOrderRoutes \o GoodsReceiptRoutes \o ProcurementRoutes
    \o AccountRoutes \o FiscalYearRoutes \o JournalRoutes \o StatementRoutes
    \o DepartmentRoutes \o DesignationRoutes \o EmployeeRoutes \o AttendanceRoutes \o LeaveRoutes
    \o DashboardRoutes \o ReportRoutes \o ExportRoutes \o WorkflowRoutes \o AiRoutes
-----------------------------------------------------------------------------
Asked(routes) == {r.needs : r \in routes} \ {Anyone}
Reading == {AppRoutes[k] : k \in {j \in DOMAIN AppRoutes : AppRoutes[j].verb = "GET"}}
Changing == {AppRoutes[k] : k \in {j \in DOMAIN AppRoutes : AppRoutes[j].verb # "GET"}}

\* What else a permission to read lets its holder do.
Changes == [has \in Asked(Reading) |-> {needed \in Asked(Changing) : matches(has, needed)}]

\* A user whose roles give him what the reading routes ask for, and no more,
\* may call none of those that ask for a permission and change something:
\* no two routes of the 385 ask for one permission, the one to read and the
\* other to write (PermissionGuard, AuthorizationService.matches).
ReadersChangeNothing ==
    \A u \in OfKind("user") :
        getUserPermissions(u) \subseteq DOMAIN Changes =>
            \A has \in getUserPermissions(u) : Changes[has] = {}

Answers(route, path) ==
    /\ Len(route.path) = Len(path)
    /\ \A k \in DOMAIN path : route.path[k] \in {":", path[k]}
\* Every route is reached by its own path: the router takes the first route
\* registered that answers, so a literal segment has to come before the
\* parameter that would take it for a value.
EveryRouteReached ==
    \A k \in DOMAIN AppRoutes : \A j \in 1..(k - 1) :
        ~(AppRoutes[j].verb = AppRoutes[k].verb /\ Answers(AppRoutes[j], AppRoutes[k].path))
===============================================================================
