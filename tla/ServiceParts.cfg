SPECIFICATION PartsSpec
CONSTANTS
  Callers = {a, b, c}
  Children = {b, c}
  Limit = 2
  ParentLimit = 2
  MaxRetries = 1
  Threshold = 1
  MaxCalls = 1
  MaxTokens = 1
  Prompts = {p, q}
  ReadSources = {src}
  Configs <- TheConfigs
  EnvelopeSizes = {1}
  TokenThreshold = 6
  MaxFailures = 2
  SummarySizes = {1, 3}
  ReadSize = 3
  MaxMessages = 5
  MaxCompactions = 2
  MaxLosses = 1
  EventScopes = {x, y}
  JournalScope = x
  Watched = x
  BatchEvents = 2
  BatchScan = 2
  MaxRecords = 3
  MaxEngine = 2
  MaxBreaks = 2
  Messages = {"m1", "m2", "m3"}
  ChatOf <- TheChats
  SenderOf <- TheSenders
  People = {"u", "v"}
  KeptEntries = 2
  MaxTurns = 2
  MaxAsks = 2
  MaxStops = 1
  Servers = {s1, s2}
  ToolNames = {n1, n2}
  LocalTools = {n2}
  Refreshers = {r1}
  Nobody = nobody
  MaxSessions = 2
  MaxPages = 2
  MaxSessionTurns = 2
  MaxTurnSteps = 1
  MaxSessionFiles = 3
  MaxCommands = 1
  MaxAppendFaults = 1
  Targets = {"f", "g"}
  Protected = {"g"}
  Roots = {"f"}
  Traits = {"deletes", "broad"}
  UserRules <- TheUserRules
  EditedRules <- TheEditedRules
  Nothing = Nothing
  MaxSwitches = 1
  MaxPermissionCalls = 2
  MaxChanges = 1
  Settings = {"a"}
  MaxConfirmations = 2
  MaxApprovals = 1
  MaxWorld = 2
  MaxRevisions = 2
  MaxRequests = 2
  MaxRestarts = 1
  ViewedPaths = {f1, f2, f3}
  FirstPaths = {f1, f2}
  SmallTexts = {"x"}
  LargeText = "large"
  KeptRevisions = 1
  MaxTreeWrites = 1
  MaxViews = 3
  Plugins = {"p1", "p2"}
  Requires <- TheRequires
  RegisteredKinds = {"tool", "check"}
  PluginToolNames = {"n1", "n2"}
  OwnNames = {"n2"}
  MaxRegistrations = 1
  MaxClients = 4
  MaxHarnessTurns = 1
  MaxCloseFailures = 1
INVARIANTS
  CallsHonest
  ContextKept
  StreamFaithful
  OneTurnOneSession
  RegistryAgrees
  SessionFaithful
  
  ConfirmedAsShown
  ViewsTell
  ScopesEnd
CHECK_DEADLOCK FALSE
