\* The services of a session, one of them in each behaviour.
SPECIFICATION Spec
CONSTANTS
  Servers = {"s", "t"}
  Names = {"a", "b"}
  Specs = {1, 2}
  ToolLists <- TwoNames
  NoSpec = NoSpec
  Free = Free
  Boot = Boot
  MaxManagers = 2
  MaxCommands = 3
  Handlers = {p1, p2}
  Events = {"x", "y"}
  Nonces = {"n1", "n2", "n3"}
  EventOf <- Envelopes
  SecretOf <- Signed
  WithHandoff = {"x"}
  WithDecision = {"x", "y"}
  NoEvent = NoEvent
  RingLimit = 1
  MaxEnrols = 2
  MaxOutside = 1
  Speakers = {p1, p2}
  Nobody = Nobody
  MaxOps = 4
  MaxRows = 3
  MaxFaults = 1
  Notices = {"x", "y"}
  QueueLimit = 2
  MaxHooks = 6
  Callers = {p1, p2}
  MaxTurns = 3
  MaxStops = 1
  NoOne = NoOne
  Elsewhere = Elsewhere
  MaxChildren = 2
  MaxSteers = 2
  MaxDepth = 2
  MaxTroubles = 1
  Owner = o
  Others = {p}
  MaxLength = 1
  MaxEdits = 2
  Calls = {p1, p2}
  Keys = {"k", "l"}
  Modes = {"build", "auto"}
  Kinds = {"write", "exec"}
  StreakLimit = 2
  TotalLimit = 3
  DeskLimit = 2
  MaxCalls = 4
  Actors = {p1, p2}
  Unheld = Unheld
  DeadHolder = DeadHolder
  Sorts <- Issued
  MaxIssues = 2
  MaxRequests = 3
  MaxBreaks = 1
  Providers = {"p", "q"}
  MaxSettings = 1
  MaxToolCalls = 3
  MaxEntries = 5
  MaxResumes = 2
  Recipes = {"r", "q"}
  Nesting = {"q"}
  MaxGates = 2
  MaxLiveTurns = 2
  Slots = {"a", "b", "c"}
  AtBoot <- Two
  MaxLoads = 2
  MaxSwitches = 1
  RootSession = "r"
  ChildSessions = {"k"}
  Blocks = 2
  Page = 2
  Streams <- Streamed
  Tools = {"m", "n", "o"}
  Optional = {"o"}
  Alike <- Resembling
  Scenarios <- Starts
  Bundles = {"u", "v"}
  Plan <- Mounts
  Labels = {"l", "k"}
  Layers = {1, 2}
  BundleBudgets <- Loads
  MostCalls = 3
  Limits <- ProgramLimits
  Unlimited = Unlimited
  Offers <- Catalogs
  Configured = {"m", "a", "b"}
  Main = "m"
  Variable <- Suggested
  Default = "T"
  Plans <- Wizards
  LaneKids = {"a", "b", "c", "d"}
  ParentOf <- Parents
  Masks = {"m", "n", "o"}
  MaskOf <- Redacted
  NoId = NoId
  LaneScripts <- Spawns
  Views = {"v", "w", "x"}
  SessionOf <- Homes
  Bridges = {"b"}
  Pids = {1, 2}
  Ports = {1, 2}
  NoPort = NoPort
  Troubles <- Listened
INVARIANTS
  LiveAsReported NotificationsSound DeskSound TurnSound FilesSound
  GovernanceSound AccessSound SettingsSound
SYMMETRY Interchangeable
\* Every service comes to rest once the bounded number of requests is used up.
CHECK_DEADLOCK FALSE
