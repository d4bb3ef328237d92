------------------------------- MODULE Services -------------------------------
(***************************************************************************)
(* The services that keep their state in rows of the database and change   *)
(* it by statements, none of which works on the rows of another: each      *)
(* behaviour exercises one of them, chosen when it begins, so that one run *)
(* checks the properties of all.                                           *)
(***************************************************************************)
EXTENDS SalesDocuments, Crm, Accounting, Registers, Workflows, Access, Endpoints, Subscriptions,
        Billing

CONSTANT Parts      \* the services exercised

VARIABLE part       \* the one this behaviour exercises

serviceVars == <<rowVars, restored, timeline, history, claimed, handed, redated, part>>

NotSales == UNCHANGED restored
NotCrm == UNCHANGED <<timeline, history, claimed, handed>>
NotBooks == UNCHANGED redated
RowsOnly == NotSales /\ NotCrm /\ NotBooks

NoSales == restored = {}
NoCrm ==
    /\ timeline = [i \in Ids |-> Untold] /\ history = [i \in Ids |-> {}] /\ claimed = {}
    /\ handed = [i \in Ids |-> {}]
NoBooks == redated = {}
NoneOf == NoSales /\ NoCrm /\ NoBooks

ServicesInit ==
    /\ part \in Parts
    /\ \/ part = "sales" /\ SalesInit /\ NoCrm /\ NoBooks
       \/ part = "crm" /\ CrmInit /\ NoSales /\ NoBooks
       \/ part = "books" /\ BookInit /\ NoSales /\ NoCrm
       \/ part = "registers" /\ RegisterInit /\ NoneOf
       \/ part = "workflows" /\ WorkflowInit /\ NoneOf
       \/ part = "access" /\ AccessInit /\ NoneOf
       \/ part = "subscriptions" /\ SubscriptionInit /\ NoneOf
       \/ part = "billing" /\ BillingInit /\ NoneOf

ServicesNext ==
    /\ UNCHANGED part
    /\ \/ part = "sales" /\ SalesNext /\ NotCrm /\ NotBooks
       \/ part = "crm" /\ CrmNext /\ NotSales /\ NotBooks
       \/ part = "books" /\ BookNext /\ NotSales /\ NotCrm
       \/ part = "registers" /\ RegisterNext /\ RowsOnly
       \/ part = "workflows" /\ WorkflowNext /\ RowsOnly
       \/ part = "access" /\ AccessNext /\ RowsOnly
       \/ part = "subscriptions" /\ SubscriptionNext /\ RowsOnly
       \/ part = "billing" /\ BillingNext /\ RowsOnly

ServicesSpec == ServicesInit /\ [][ServicesNext]_serviceVars

-----------------------------------------------------------------------------
\* The numbers of quotations, orders and invoices, counted, and those of
\* billing invoices, one more than the newest, run without gap or repetition
\* (generateNumber, generateInvoiceNumber).
NumbersRun == NumbersGapless /\ BillsRun

\* An order or invoice is made of a final document, and of each once
\* (convertToSalesOrder, createFromSalesOrder).
Conversions == MadeOfFinal /\ ConvertedOnce

\* The timeline of a deal and the assignments of a lead replay to what their
\* rows say (DealsService, CrmService).
HistoryTells == TimelineReplays /\ AssignmentsRecorded

\* The totals of a document are those of its lines, the sums of the books are
\* equal (calculateTotals, AccountingReportsService).
AmountsAgree == TotalsAgree /\ BooksBalance

\* A reversed entry has its mirror, and no two fiscal years of an organisation
\* share a day (JournalEntriesService, FiscalYearsService).
BooksHold == ReversalsMatch /\ YearsDisjoint

\* An organisation has one default warehouse, and no two leaves of an employee
\* share a day (WarehouseService, HrService).
RegistersHold == OneDefaultWarehouse /\ LeaveDisjoint

\* A session has one refresh token that works, and none after it was revoked
\* (AuthService).
SessionsHold == OneLiveToken /\ RevokedIsOut

\* A change of roles or permissions reaches the role version that tokens are
\* compared with, and an organisation keeps its owner (RbacService).
RolesHold == VersionTells /\ OwnerStays

\* Every route of the API is reached, and permissions to read change nothing
\* (the controllers, PermissionGuard).
RoutesHold == ReadersChangeNothing /\ EveryRouteReached
=============================================================================
