\* Two actors wherever two can meet: SSH calls to one host, users of the
\* databases, changes of one file, users of one Python tool, runs in one
\* session (with one alert), calls of the index.
SPECIFICATION MCSpec
CONSTANTS
  Hosts = {h1}
  Tunnels = {t1, t2}
  SshCallers = {c1, c2}
  NoTunnel = NoTunnel
  NoCaller = NoCaller
  IdleTimeout = 0
  MaxAge = 1
  Managed = {"tasks.db"}
  Queried = {"other.db"}
  Handles = {1, 2}
  DbCallers = {d1, d2}
  NoHandle = NoHandle
  FileCallers = {f1, f2}
  Original = Original
  Absent = Absent
  LastSecond = 1
  FileCallLimit = 3
  ToolCallers = {e1, e2}
  FirstVersion = FirstVersion
  UserVersion = UserVersion
  Gone = Gone
  Torn = Torn
  Talkers = {r1, r2}
  Events = {a1}
  MaxHistoryMessages = 3
  ContextLimit = 3
  HalfLimit = 4
  Sizes = {0, 3}
  MaxSaid = 5
  Asking = {q1}
  Providers = {"gemini", "ollama", "openai", "qwen"}
  AnswerLimit = 2
  MaxTokens = 3
  MaxCallDeltas = 2
  Indexers = {i1, i2}
  Projects = {"omni", "omni_erp"}
  Chunks = {k1, k2}
  NameContains <- MC_NameContains
  MaxReconnectAttempts = 2
  HookLimit = 2
INVARIANTS ToolsTypeOK  HandlesWork FailedEditUndone ActiveToolsRun
  HistoryInOrder ToolTurnsPaired PromptReachesBrain ShownIsKept IndexedAsReported
PROPERTIES LostOnlyByDisplacement 
  HookLostByExchangeOnly
CHECK_DEADLOCK FALSE
SYMMETRY MC_Symmetry
