SPECIFICATION MCSpec
CONSTANTS
  Tools = {m1, b1}
  Builtin = {b1}
  Fingerprints = {1, 2, 3}
  Unsupported = {3}
  Attempts = {1, 2}
  Refreshers = {f1}
  ApprovalTtl = 1
  MaxClock = 2
  MaxSequence = 1
  MaxGrants = 2
  Peers = {1, 2}
  Callers = {1, 2, 3}
  MaxSessions = 3
  CallIds = {1, 2, 3}
  MaxModelCalls = 4
  MaxToolCalls = 2
  MaxFailures = 2
  MaxRetries = 2
  Batch = 2
  Versions = {1, 2}
  Contents = {1, 2}
  Configs = {1, 2, 3}
  Accepts <- MCAccepts
  Immutable = {2}
  Fixed <- MCFixed
  Installers = {"i1", "i2"}
  Removers = {"d1"}
  Editors = {"u1", "u2"}
  MaxPackageRuns = 1
  MaxRevision = 3
  RequestIds = {1, 2}
  MaxHostModels = 1
  MaxHostTools = 1
  OutputBudget = 5
  PipeRoom = 1
  Hooks = {1}
  Listeners = {2, 3}
  EventKeys = {1}
  Payloads = {1, 2, 3}
  Malformed = {3}
  Oversize = {2}
  Senders = {1, 2}
  PublishCalls = {1, 2}
  MaxEventFanout = 2
  QueueLimit = 1
  MaxSecret = 2
  MaxOccurrences = 2
  SecretIds = {1, 2, 3}
  Links = {1, 2}
  Brokers = {"b1", "b2"}
  Consents = {o1}
  Callbacks = {"c1", "c2"}
  WorkerKey = 1
  ApiKey = 2
  MaxLeases = 2
  Publishers = {"A", "B"}
  People = {"x", "y"}
  Operator = "y"
  Keys = {"k1"}
  Archives = {"a1", "a2", "a3"}
  VersionOf <- MCVersionOf
  SignerOf <- MCSignerOf
  Defective = {"a3"}
  Uploads = {"u1", "u2"}
  Transfers = {"t1", "t2"}
  Receivers = {"r1", "r2"}
  Verifiers = {"v1", "v2"}
  MaxAttempts = 2
  MaxUploads = 2
  MaxOwnership = 3
  MaxStatus = 2
  Slots = {"s1", "s2"}
  Stubborn = {"s2"}
  ClockValues = {1, 2}
  MaxBegun = 2
  Tickets = {"t1", "t2"}
  Requests = {"q1", "q2"}
  Files = {"f1", "f2"}
  MaxOpenTickets = 1
  MaxStatusChange = 2
  LocalCallers = {1, 2, 3}
  PasswordWork = 2
  MaxLocal = 2
  SignIns = {1, 2}
  CliSignIns = {1}
  Identities = {1, 2}
  Callbackers = {1, 2}
  Browsers = {1}
  MaxHosted = 2
CHECK_DEADLOCK FALSE
INVARIANTS
  AccessSound CallPathSound InstalledSound DeliverySound CredentialsSound MarketplaceSound WorkerSound
PROPERTIES
  NoCapabilityAcquired DecidedStays ImplementsInbox WaitsEnd
