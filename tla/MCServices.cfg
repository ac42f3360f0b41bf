CONSTANTS
  MaxContexts = 3
  Host = {1}
  MaxConnections = 3
  MaxLoad = 5
  Name = {"a", "b.c"}
  Dotted = {"b.c"}
  Directory <- MCDirectory
  Home <- MCHome
  Variable = {"X"}
  Value = {"1", "2"}
  Code = {"a", "b"}
  Trigger = {"s"}
  MaxDeploys = 3
  MaxFaults = 1
  MaxStatements = 1
  Managed = {"m"}
  Inline = {"p", "q", "r"}
  Document = {"x", "y"}
  MaxSetups = 2
  MaxErrors = 2
  Replay = {1, 2}
  Label = {"a", "b"}
  FileLimit = 2
  MaxEvents = 6
  MaxOpen = 2
  Branch = {1, 2}
  MaxNested = 1
  MaxRuns = 2
  App = {"app", "sdk"}
  Version <- MCVersion
  Dependencies <- MCDependencies
  Versioned = {"sdk"}
  VersionChecked = {"app", "sdk"}
  Artifacts <- MCArtifacts
  Default <- MCDefault
  Clears = {"sdk"}
  MinRelease <- MCMinRelease
  MaxChanges = 1
  Drainer = {d1, d2}
  MaxConsole = 2
  MaxLogged = 3
  MaxDrains = 2
  MaxLosses = 1
  NetRequest = {n1}
  HttpMethod = {"m", "n"}
  RestAPIInput <- MCRestAPIInput
  Authorizer = {"A", "B"}
  ApiVersion = {1, 2}
  MaxApiRequests = 3
  MaxApiFaults = 1
SPECIFICATION MCSpec
INVARIANTS
  MCTypeOK OwnTerminals AllClosed SessionKnows DeployedAsAsked ApiAsAsked PermissionsStay
  RoleAsAsked OneLostEach FiledRight FilesKept BaseSpared OkIsThere
  SinkInOrder InflightTrue
SYMMETRY MCSymmetry
CHECK_DEADLOCK FALSE
