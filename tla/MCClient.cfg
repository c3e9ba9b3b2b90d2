CONSTANTS
    Part = {"query", "tabs", "data", "rows", "keys", "apis"}
    None = None
    Job = {j1, j2}
    Event = {"rows", "completed"}
    MaxEvents = 1
    PageSize = 1
    PollRetries = 1
    Tab = {t1, t2, t3}
    Ephemeral = {t1, t2}
    MaxAnswers = 1
    MaxReloads = 1
    MaxRenders = 2
    MaxChanges = 1
    MaxFilters = 1
    MaxEdits = 1
    Value = {1, 2, 3}
    Found = {2, 3}
    MaxTables = 2
    MaxSearches = 2
    MaxEditors = 2
    MaxDeleted = 1
    MaxKeyEditors = 1
    MaxKeysDeleted = 0
    PageOperation = {"add", "update"}
    Button <- Buttons
    Bound = {"addAgain", "remove"}
    OperationOf <- Operations
    Undeclared = "none"
    MaxRows = 2
    MaxRowLoads = 2
    MaxClicks = 3
    DbConnection = {"c1", "c2"}
    MaxSwaps = 3
    TableRow <- Compared
    MaxComparisons = 3
    Default <- Opens
    Boot = "c1"
    FilterText = {"p"}
    MaxClicked = 3
    ToolTab = {1, 2}
    ConnectionOf <- Chosen
    QueryName = {"a", "b"}
    QueryText = {"s"}
    Stores <- MCStores
    MaxSaves = 4
    Profile = {"plain", "keyed"}
    WithKey = {"keyed"}
    AgentScope = {"data"}
    ChatLimit = 1
    MaxWords = 2
    MaxSessions = 2
    MaxHandles = 1
    Table = {1, 2, 3}
    MaxMoves = 3
    Workers = 2
    Databases <- MCDatabases
    Worlds <- MCWorlds
    Limits = {1, 2, 9}
    Endpoint = {1, 2}
    Address = {"x", "y"}
    Sql = {"s", "t"}
    Names <- MCNames
    Endpoints <- MCEndpoints
    Drafts <- MCDrafts
    MaxLoads = 2
    MaxRequests = 3
    Source = {"s1"}
    Module = {"m"}
    Classes = 1
    HistoryDepth = 2
    MaxDocumentEdits = 2
    MaxPresses = 1
    MaxInstances = 2
SYMMETRY Alike
SPECIFICATION Spec
INVARIANTS
    TypesOK
    ShowsItsJob
    ShowsTheNewest
    EditsReachTheirRow
PROPERTIES
    JobIsNotLost
    TabsCloseAsAgreed
CHECK_DEADLOCK FALSE
