\* Each of the services on its own.
CONSTANTS
    Parts = {"mcp", "agents", "agent services", "conversations", "caches", "knowledge", "providers",
             "payment gateways", "webhooks", "schedules"}
    Adapters = {1, 2}
    Links = {1, 2, 3}
    Requests = {1}
    Sessions = {1, 2}
    TransportOf <- MCTransports
    Orchestrations = {1, 2}
    Registered = {"ceo", "sales"}
    Tools <- MCTools
    Texts <- MCTexts
    Teams <- MCTeams
    Tasks = {1}
    Mails = {2}
    Inboxes = {1, 2}
    MaxFailures = 3
    Chats = {1, 2}
    Memories = {1}
    Calls = {1, 2, 3, 4}
    MaxMessages = 1
    Sizes = {2}
    Limits = {2}
    CacheKeys <- MCCacheKeys
    Tags = {1}
    Fills = {1, 2}
    MaxSize = 2
    Documents = {1}
    Owners = {"o1", "o2"}
    DocumentTexts <- MCTextsOfDocuments
    ChunkSize = 3
    Overlap = 1
    Questions = {1}
    Setups <- MCSetups
    Preferences <- MCPreferences
    Prompts = {1}
    Orders <- MCOrders
    Errands = {1, 2}
    Events = {1, 2, 3}
    RememberedEvents = 2
    Plans = {1}
    Clocks = {1, 2, 3, 4}
    MaxExecutions = 2
SPECIFICATION PlatformSpec
INVARIANTS TimersHold AgentsTell ConversationsHold IndexesHold AdaptersHold
PROPERTIES CallsSettle
CHECK_DEADLOCK FALSE
