------------------------------ MODULE Startup ------------------------------
(***************************************************************************)
(* EdgeSessionStore.initialize: the services of one Durable Object are     *)
(* mounted one after the other each time the object starts.  A service     *)
(* starts as soon as everything it injects is there and waits otherwise;   *)
(* the two model adapters may fail, any other failure rejects `ready` and  *)
(* with it every request until the object starts again.  The workspace     *)
(* registry outlives the object: the default workspace is created by the   *)
(* first start only.                                                       *)
(*                                                                         *)
(* A layer is the sequence of the services it mounts.  Abstracted: what    *)
(* a service does once it runs (the other modules), services nothing       *)
(* injects, the registration of remote interfaces.                         *)
(***************************************************************************)
EXTENDS Naturals, Sequences, FiniteSets

CONSTANTS WorkerLoader,   \* whether the deployment runs code: BOOLEAN
          FlagOnLoad,     \* whether the registry marks itself when it loads
          MaxStarts       \* bound on starts

VARIABLES at,           \* the service initialize mounts next
          phase,        \* "starting", "ready" or "failed"
          provided,     \* the services that run
          waiting,      \* the services mounted that wait for another
          sawFlag,      \* workspaceWasInitialized
          flag,         \* stored: the registry was initialized
          workspaces,   \* stored: the workspaces, "default" the Edge's own
          starts,       \* starts so far
          removed       \* the owner has removed the default workspace

startVars == <<at, phase, provided, waiting, sawFlag, flag, workspaces, starts,
               removed>>

Service(name, needs)  == [name |-> name, needs |-> needs, optional |-> FALSE]
Optional(name, needs) == [name |-> name, needs |-> needs, optional |-> TRUE]

StorageLayer ==
  <<Service("attachments", {}), Service("credentials", {}),
    Service("settings", {}), Service("storage", {}),
    Service("storageDomain", {"storage"})>>

ModelLayer ==
  <<Service("llm", {"settings"}),
    Optional("deepseek-official", {"llm", "credentials"}),
    Optional("piai", {"llm", "settings"})>>

SessionLayer ==
  <<Service("sessions", {}), Service("sessionProjections", {"sessions"}),
    Service("sessionProjectionCache", {"sessionProjections", "storageDomain"}),
    Service("compaction", {"sessions", "llm"}), Service("titles", {"sessions", "llm"})>>

ToolLayer ==
  <<Service("systemPrompt", {}), Service("spillStore", {}), Service("fs", {}),
    Service("fsPolicy", {"fs"}), Service("tools", {}), Service("skills", {}),
    Service("workspaceSkills", {"skills"})>>

GatewayLayer ==
  <<Service("typert", {}), Service("connection", {}), Service("remoteAccess", {}),
    Service("typertGateway", {"typert", "connection", "remoteAccess"})>>

AgentLayer ==
  <<Service("agents", {}), Service("llmRetry", {"llm"}),
    Service("checkpoints", {"sessions"}), Service("userQuestions", {}),
    Service("askUser", {"tools", "userQuestions"}),
    Service("planMode", {"tools", "userQuestions", "systemPrompt"}),
    Service("commands", {}), Service("shellEnv", {}),
    Service("logExport", {"commands", "connection"}),
    Service("feedback", {"commands", "sessions"})>>

RegistryLayer ==
  <<Service("sessionPersistence", {"sessions"}), Service("readFlag", {}),
    Service("workspaceRegistry", {"storageDomain"}),
    Service("defaultWorkspace", {"workspaceRegistry"}),
    Service("workspaceFiles", {"typert", "fs"}),
    Service("fileUploads", {"attachments", "connection"})>>

CatalogLayer ==
  <<Service("agentDefaultModel", {}), Service("sessionQuery", {"sessionPersistence"}),
    Service("sessionReferences", {"sessionQuery"}), Service("fileReferences", {}),
    Service("agentPresets", {}), Service("loader", {}),
    Service("pluginInventory", {"loader"})>>

ControllerLayer ==
  <<Service("sessionController",
      {"agentDefaultModel", "agents", "attachments", "llm", "sessions",
       "sessionProjections", "sessionQuery", "typert", "workspaceRegistry"}),
    Service("settingsController", {"settings", "typert"}),
    Service("directoryPicker", {}),
    Service("workspaceController", {"directoryPicker", "workspaceRegistry", "typert"}),
    Service("apiRemotes", {"typertGateway"}), Service("approval", {})>>

ExtensionLayer ==
  <<Service("mcpResources", {"tools"}), Service("mcp", {"mcpResources", "tools", "credentials"}),
    Service("approvalPolicy", {"approval", "settings", "mcp"}),
    Service("runtimeSettings", {"settings"}), Service("toolSettings", {"settings", "tools"}),
    Service("shellSettings", {"settings"})>>

FileToolLayer ==
  <<Service("workingDirectory", {"sessions"}), Service("toolFs", {"tools", "fs"}),
    Service("workspaceChanges", {"fs"}), Service("deliverables", {"connection", "systemPrompt"}),
    Service("fsSearch", {"tools", "fs"}), Service("toolSkill", {"tools", "skills"})>>

GoalLayer ==
  <<Service("goals", {"sessions"}), Service("toolGoal", {"tools", "goals"}),
    Service("instructions", {"fs", "systemPrompt"}), Service("goalRounds", {"goals", "agents"}),
    Service("spillPolicy", {"spillStore", "tools"}), Service("webSearch", {"tools"})>>

LoopLayer ==
  <<Service("agentLoop", {"agents", "llm", "tools", "settings"}),
    Service("shortTools", {"tools"}), Service("jobs", {}),
    Service("jobController", {"jobs", "typert"}), Service("toolJobs", {"jobs", "tools"}),
    Service("subagents", {"agents", "settings"}), Service("spawn", {"subagents"}),
    Service("fork", {"subagents"}),
    Service("toolSubagent", {"subagents", "agentPresets", "tools"})>>

CodeLayer ==
  IF ~WorkerLoader THEN <<>>
  ELSE <<Service("workflows", {"subagents"}), Service("ptcRuntime", {"tools"}),
         Service("toolWorkflow", {"workflows", "tools"}), Service("toolRalph", {"workflows", "tools"})>>

LastLayer ==
  <<Service("schedule", {"sessions"}), Service("toolSchedule", {"schedule", "tools"}),
    Service("bash", {"tools", "shellEnv", "workingDirectory"}),
    Service("lateEvents", {"sessions", "agents"})>>

initialize ==
  StorageLayer \o ModelLayer \o SessionLayer \o ToolLayer \o GatewayLayer \o
  AgentLayer \o RegistryLayer \o CatalogLayer \o ControllerLayer \o
  ExtensionLayer \o FileToolLayer \o GoalLayer \o LoopLayer \o CodeLayer \o
  LastLayer

Mounting == initialize[at]

StartInit ==
  /\ at = 1 /\ phase = "starting" /\ provided = {} /\ waiting = {}
  /\ sawFlag = FALSE /\ flag = FALSE /\ workspaces = {} /\ starts = 1
  /\ removed = FALSE

\* A service that runs lets the ones that waited for it run.
Provide(s) ==
  LET run == provided \cup {s.name}
      freed == {w \in waiting : w.needs \subseteq run}
  IN /\ provided' = run \cup {w.name : w \in freed}
     /\ waiting' = waiting \ freed

\* "list().length === 0 && !workspaceWasInitialized"
CreateDefault == workspaces = {} /\ ~sawFlag

mount ==
  /\ phase = "starting" /\ at <= Len(initialize)
  /\ at' = at + 1
  /\ IF Mounting.needs \subseteq provided THEN Provide(Mounting)
     ELSE waiting' = waiting \cup {Mounting} /\ UNCHANGED provided
  /\ sawFlag' = IF Mounting.name = "readFlag" THEN flag ELSE sawFlag
  /\ CASE Mounting.name = "workspaceRegistry" ->
            flag' = (flag \/ FlagOnLoad) /\ UNCHANGED workspaces
       [] Mounting.name = "defaultWorkspace" /\ CreateDefault ->
            flag' = TRUE /\ workspaces' = {"default"}
       [] OTHER -> UNCHANGED <<flag, workspaces>>
  /\ UNCHANGED <<phase, starts, removed>>

\* A model adapter that fails is logged; any other failure rejects `ready`.
mountFails ==
  /\ phase = "starting" /\ at <= Len(initialize)
  /\ IF Mounting.optional THEN at' = at + 1 /\ UNCHANGED phase
     ELSE phase' = "failed" /\ UNCHANGED at
  /\ UNCHANGED <<provided, waiting, sawFlag, flag, workspaces, starts, removed>>

finish ==
  /\ phase = "starting" /\ at > Len(initialize)
  /\ phase' = "ready"
  /\ UNCHANGED <<at, provided, waiting, sawFlag, flag, workspaces, starts, removed>>

\* The object is evicted, or fails, and the next request starts it again.
startAgain ==
  /\ starts < MaxStarts
  /\ starts' = starts + 1
  /\ at' = 1 /\ phase' = "starting" /\ provided' = {} /\ waiting' = {}
  /\ sawFlag' = FALSE
  /\ UNCHANGED <<flag, workspaces, removed>>

\* The owner adds a workspace or removes one.
editWorkspaces ==
  /\ phase = "ready"
  /\ \/ workspaces' = workspaces \cup {"own"} /\ UNCHANGED removed
     \/ /\ workspaces # {}
        /\ \E w \in workspaces :
             /\ workspaces' = workspaces \ {w}
             /\ removed' = (removed \/ w = "default")
  /\ UNCHANGED <<at, phase, provided, waiting, sawFlag, flag, starts>>

StartNext == \/ mount \/ mountFails \/ finish \/ startAgain \/ editWorkspaces

StartSpec == StartInit /\ [][StartNext]_startVars

\* assertReady: what an upgrade waits for.
assertReady ==
  /\ phase = "ready"
  /\ {"sessionPersistence", "sessionQuery", "workspaceRegistry", "sessionController",
      "workspaceController", "typertGateway", "deepseek-official"} \subseteq provided

----------------------------------------
\* Every service finds what it injects when it is mounted, even when a
\* model adapter failed: none is left waiting, and a start that ends lacks
\* at most the adapters.
NothingIsLeftWaiting ==
  /\ waiting = {}
  /\ phase = "ready" =>
       {initialize[i].name : i \in DOMAIN initialize} \ provided
         \subseteq {"deepseek-official", "piai"}
  /\ phase = "ready" => assertReady = ("deepseek-official" \in provided)

\* The default workspace is there after a first start, and a removal by
\* the owner is not undone by a later one.
RemovalStays ==
  /\ removed => "default" \notin workspaces
  /\ phase = "ready" /\ starts = 1 /\ ~removed => "default" \in workspaces
=============================================================================
