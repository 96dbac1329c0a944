SPECIFICATION PartsSpec
CONSTANTS
  Files = {f1, f2}
  Texts = {t1}
  MaxCheckpoints = 2
  MaxToolCalls = 2
  MaxFaults = 1
  KeptCheckpoints = 2
  Lines = {x, blank}
  NoText = blank
  MaxLines = 3
  Chars = {"x", " "}
  MaxText = 3
  MaxEdits = 2
  Tracked = {s}
  Ignored = {h}
  Commands = {k}
  Repairs = 0
  MaxEvidenceTurns = 2
  MaxTools = 2
  MaxForeign = 1
  StepCounts = {2}
  Sources = {q}
  MaxTasks = 1
  MaxPlans = 1
  MaxRevisions = 1
  MaxSaveFaults = 1
  Procs = {p1, p2}
  TheCommand = p1
  MaxWritten = 2
  MaxStuck = 1
  MaxElevated = 1
  FileBodies = {"u", "v"}
  MaxForeignWrites = 2
  MaxDiskFaults = 1
  Identities = {"e1"}
  CommandHashes = {"h"}
  FrameQueue = 1
  FrameLimit = 2
  MaxChunks = 2
  MaxParallelCalls = 2
  MaxStreamRetries = 1
  MaxAsks = 2
  MaxRecorders = 2
  ModelRequests = {r1}
  Bills = {b1, b2}
  OddUsage = odd
  NoUsage = none
  Collectors = {c1, c2}
  NoCollector = off
  SpanSizes = {2, 4}
  QueueItems = 2
  QueueBytes = 3
  MaxSends = 2
  MaxSpans = 2
  MaxConfirms = 1
  MaxEngineStops = 1
  Runs = {"r"}
  Repeats = 2
  MaxAttempts = 2
  Retryable = {"runner_crash"}
  MaxTickets = 1
  MaxEngineCrashes = 1
  CampaignSlots = 2
  Correct = {1}
  MaxInvocations = 2
  MaxTrees = 2
  MaxCaseRequests = 1
  MaxMeddling = 1
  MaxFileFaults = 1
  BundleActions = {a1, a2}
  FolderNames = {p1}
  Privacies = {"redacted_artifacts"}
  Grades = {"fail"}
  MaxRepeats = 1
  MaxNotes = 1
  MaxSelections = 1
  MaxBundles = 2
  MaxOutside = 1
  MaxBundleCrashes = 1
  Conditions = {u1, u2}
  Graders = {"g1"}
  MaxExecutions = 2
  MaxLabels = 2
  MaxCandidates = 1
  MaxChecks = 1
  MaxLost = 1
INVARIANTS
  PatchSound
  EditsMeant
  CompletionTested
  PlanInOrder
  CommandContained
  WritebackSound
  SandboxHonest
  EpisodesTrue
  ObservationsAccounted
  EvaluationsHonest
  CampaignHonest
  BundlesFaithful
  FailuresHonest
PROPERTIES
  UndoSound
CHECK_DEADLOCK FALSE
