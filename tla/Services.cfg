\* Each service on its own: three calls one after another, two at one time.
CONSTANTS
    Ids = {1, 2, 3, 4, 5, 6, 7, 8, 9, 10}
    Callers = {c1, c2}
    MaxCalls = 3
    MaxMixed = 2
    Parts = {"sales", "crm", "books", "registers", "workflows", "access", "subscriptions",
             "billing"}
    Forms <- MCForms
    Items <- MCItems
    Starts <- MCStarts
    Users = {1, 2}
    CrmStarts <- MCCrmStarts
    Vouchers <- MCVouchers
    Types = {"ASSET", "EQUITY"}
    Dates = {1, 2}
    Today = 2
    BookStarts <- MCBookStarts
    Codes = {1, 2}
    Days = {1, 2}
    RegisterStarts <- MCRegisterStarts
    Actions <- MCActions
    WorkflowStarts <- MCWorkflowStarts
    Permissions <- MCPermissions
    AccessStarts <- MCAccessStarts
    SubscriptionStarts <- MCSubscriptionStarts
    Reports = {1, 2}
    BillingStarts <- MCBillingStarts
SYMMETRY Symmetry
SPECIFICATION ServicesSpec
INVARIANTS NumbersRun Conversions AmountsAgree HistoryTells OnePrimary BooksHold RegistersHold LogsTell SessionsHold RolesHold PlanAgrees RoutesHold
PROPERTIES SentIsFrozen PriceCarriesOver SpentAsAllowed ExpiredIsOver MeteredWithinLimit
CHECK_DEADLOCK FALSE
