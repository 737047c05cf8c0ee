# dsh-edge in TLA+

dsh-edge runs the coding-agent sessions of one owner on Cloudflare: a Worker
front end, and one Durable Object per owner that keeps everything durable in its
SQLite storage, drives one agent turn at a time, fires reminders from its alarm
and shares one container between shells and tools. The modules here model that
object, the installer that deploys it and the settings page that shows it, where
correctness is a matter of order: what is committed when, who may run next, what
survives the death of the process, who wakes whom, and where one page, row or
chunk ends and the next begins.

Paths below are relative to `src/apps/dsh-edge/src/` unless they say otherwise;
`PROJECT.json` maps every modelling definition to its lines.

## 1. The system

### Execution model

A Durable Object is single-threaded. Handlers (requests, RPC calls, the alarm,
timers, microtasks) interleave only at their awaits, and a `transactionSync`
block commits at once. So an action of a model is the stretch of a handler from
one await to the next, and a local variable that lives across an await becomes
a variable of the model. The process may be evicted or crash between any two
steps: what is in memory is lost, the tables, the alarm and an alarm delivery
that has not completed are not.

### Components

| Component (source) | State it keeps | Operations | What makes it correct |
|---|---|---|---|
| **Main session queue** (`main-session-queue.ts`) | inputs table, ready table (rotation, pauses), slot row (claim and two counters) | enqueue, steer, claim, finish, remove, stage, edit, resume, acknowledge, restart cleanup | counters equal the rows; one claim; no queued input without a ready row; receipts and outcomes never change; round robin; a pause ends only with the user |
| **Main scheduler and turn lifecycle** (`instance.ts`, `session-store.ts` 2540-3110) | `mainDriving`, `activeTurns`, resident agents, durability gates, SSE observers, the alarm | driveMain, alarm, kick, scheduleMainWake, claimTurn/runClaimedTurn, withAgentControl/withAgentTurn, steer, promote, stop, deadline, rename | one residency at a time, the slot is its own; the model sees only durable inputs, once; an answered input ends without any further request |
| **Reminders** (`schedule-store.ts`, reminder block of `instance.ts`) | tasks, deliveries, retry rows, alarm | create, update, delete, archive, deliver, arm | unique input identities, a wake for everything due, bounded tables, honest history, pauses respected |
| **Short tool pool** (`short-tool-pool.ts`) | active count, waiting line | run, acquire, release, deadlines, nested dispatch | permits exact, FIFO, no deadlock with nested calls |
| **Container activity** (`container-activity.ts`, `runContainerCommand`) | slots, waiters, stopping | admit, end, idle stop, explicit stop | slots exact, never destroyed under a command, no waiter without a waker |
| **Session persistence** (`do-session-persistence.ts`, `chunk-rows.ts`) | header, event, summary and blank rows; write owners; live buffers | create, open, append, flush, close, repair, migrate, page, export | contiguous log, single writer, summary equals log, repair drops nothing committed |
| **Durable event delivery** (`durable-event-delivery.ts`, its uses in `session-store.ts`) | pending batch, timer, running chain, failure | enqueue, drain, flush barrier, baseline | durable before visible, in order, nothing dropped silently |
| **SSE encoding** (`sse.ts`) | one stream's state | write, close, cancel | the response ends with its producer; a replay fits its limit |
| **Attachments, uploads and spill** (`edge-attachment-store.ts`, `edge-image-normalization.ts`, `edge-file-uploads.ts`, `edge-spill-store.ts`, `do-upload-index.ts`) | pinned backend, chunk rows, byte counter; upload rows and the agent's registry; spilled files and the sweep's cursors | admit, normalize, save, read; record, bind, commit, roll back, retire; list, delete, reclaim | a reference handed out is readable for good; the counter equals the rows; no receipt is lost before its use; the sweep takes nothing that is needed and reaches everything |
| **Storage backend and projections** (`do-storage-backend.ts`, `model-selection-bridge.ts`) | records with the stamp of their writer, backups; the pending model choice | open, put, delete, back up, migrate; select, canonicalize | stamps tell the writer across releases; no choice is brought back by an older turn |
| **Settings, presets and credentials** (`edge-settings.ts`, `edge-*-settings.ts`, `agent-presets.ts`, `edge-credentials.ts`) | one document of sections, revisions, a write order | register, write, reset, rename and discard sections; switch presets | an acknowledged write stays; a moved section becomes what its map makes of it; a started session keeps its preset |
| **MCP** (`edge-mcp-*.ts`) | saved servers, tool catalogs, OAuth tokens, registered tools | save, probe, authorize, exchange, refresh, list | tools and tokens are those of the configured server; a code is sent once; lists fit and continue |
| **Workflow engine and code runtime** (`edge-workflow-*.ts`, `edge-code-runtime*.ts`) | runs, slots, children; programs, logs, the output budget | start, agent, cancel, settle, dispose; run, log, dispatch, settle | slots exact, events paired, a cancelled run ends; a result reports what was logged |
| **Workspace and filesystem** (`workspace*.ts`, `edge-workspace-changes.ts`, `edge-workspace-skills.ts`, `edge-vfs-reclaim.ts`, `edge-filesystem.ts`, ...) | commands, captured contents, fingerprints of skill files, revision and boundary counters | exec, capture, summarize, discover, reclaim | a slot covers its command; edits are listed; catalogs follow the files |
| **Shells and runtimes** (`bash-routing.ts`, `light-shell-fallback.ts`, `direct-shell.ts`, `edge-shell-output.ts`) | executions, streams, the line of the light shell | classify, route, rerun, exec, cancel, capture, spill | effects once, no hidden miss; what a stream or a result says is what happened |
| **API and RPC surface** (`edge-api*.ts`, `edge-session-query.ts`, `edge-session-log-export.ts`, `http.ts`) | none of its own but the image admission's chain | validation and presentation; archives | an archive that ends is whole; listings and searches are complete or say that they are not |
| **Agent composition** (`agent.ts`, `edge-plugin-loader.ts`) | none | wiring | - |
| **Authentication and deployment** (`auth.ts`, `index.ts`, `deployment.ts`) | cookies with an expiry | sign in, forward | a downlink does not outlive its owner's session |
| **Install and activation** (`../scripts/*.mjs`) | none; the Worker's versions are the state | inspect, ask, upload, observe, clean up | the key is handed over; "ready" means the new version; storage never moves |
| **Web client plug-in** (`src/packages/client/ui-edge`) | the settings page's snapshot | load, save, poll | it settles on what the server holds |

### How they interact

* A submission commits its receipt in the queue, awaits the alarm, answers, and
  kicks the driver. A steer commits a receipt, then crosses three awaits
  (the target's admission, the wake, the flush) before it is the turn's; each of
  them may fail, and a process that dies leaves messages in the session's inbox.
* The driver claims from the queue, opens the session's agent, and splices the
  message behind a gate. The append that makes the splice durable acknowledges
  the queue's row *in the same transaction*; when the flush resolves the gate
  opens and the model step may see the message.
* Reminders share the driver's synchronous block with the claim: dispatch, then
  claim. Both of their alarm writers and the queue's wake write the one alarm.
* An event is appended to the session in memory and, in the same synchronous step,
  to the write handle's buffer and to a delivery queue. The queue awaits
  `sessions.flush`, which drains the buffer, and only then sends its batch to the
  sockets. A turn's queue first awaits the late queue before it; a new socket
  drains every queue before its baseline is taken.
* A tool holds a permit of the pool while its command waits for the container.
  Abort signals run from the call through both. Which shell a command goes to is
  decided by its text, and again by what the light shell reports.
* A choice of model lives in the bridge, in the agent and in the log; image
  prompts and selections of one session take turns on a chain in the API.
* Pages, forks, exports, searches and archives read the log that turns append to.
* The alarm that fires reminders and wakes the driver also ends downlinks.

### What is hard

Awaits between a check and its use (steering, agent opening, the wake before a
turn, an authorization's exchange, a discovery of files), two writers of one
alarm, a claim that outlives its process, hand-over of permits and slots between
microtasks, deadlines racing ends and stops, counters changed by six operations,
pages that cut packed rows, work that is cut off between two writes, and answers
that overtake each other. `PROJECT.json` lists the hazards with their
lines and the properties aimed at each.

## 2. The modules

| Module | Models | State and actions |
|---|---|---|
| `MainQueue` | the durable ledger | one variable per column of the three tables, plus `startupClaim` (in memory). Each method of `MainSessionQueue` is one transaction and one action of the same name. |
| `MainDriver` | the scheduler over the ledger (EXTENDS `MainQueue`) | `pc`, `target`, `fromAlarm`, `interrupted` are where driveMain stands and its locals; `turn` is the entry of `activeTurns`; `gate`, `steer`, `aim` place every message and steering request between its awaits, and a dead process's messages in the inbox; `alarm`, `wake`, `alarmRuns` are the alarm and its handlers. An action runs from one await to the next; DispatchDue and Claim follow at once, which `DriverNext` expresses by giving them the floor. |
| `ScheduleStore` | reminders | tasks, history, retry rows, the alarm and the clock, with the queue and the drive reduced to what reminders read of them. A wake is a step of its own behind the drive, the claim, the handler or the request that awaits it (`call`, `handler`, `driving`): it may fail, and the process may die before it. `unwoken` and `cut` remember the pauses lifted since the last wake. |
| `ShortToolPool` | the tool budget | `call` cuts `run` at its awaits, `granted` being the microtask between a permit and its use. |
| `ContainerActivity` | command slots and stops | `admit` is one turn of its loop; `woken` is the microtask between wake-up and resumption. |
| `ToolAdmission` | composes the last two | a tool's command, the abort that reaches it, and a stopped command that lingers after its tool returned. |
| `SessionBarrier` | abstract: what persistence promises to those who publish events | events emitted and stored, the live session, and per caller a flush with what it owes. A flush that resolves covers every event emitted before its call. |
| `SessionLog` | one session's log; implements `SessionBarrier` | the four tables' rows of the session; the write handle with its buffer; the drain cut at its microtasks (`appended`, `rejected`, `exited`, `threw`); each `drainAndFlush` with the half it is in; torn rows, repair, migration, restart and one export. |
| `SessionDelivery` | event delivery over the barrier (EXTENDS `SessionBarrier`) | `q` holds one `DurableEventDeliveryQueue` per turn and one for late events, `drain` every running `drain()`, `phase` the turns, `mux` and `baseline` a new socket. |
| `EventPages` | rows and pages of one log (`chunk-rows.ts`, `do-session-persistence.ts`, `session-store.ts`, `edge-session-query.ts`) | `rows` with packed runs of chunks, the live log, a reader that continues over several calls; pages, history groups, fork boundaries and event windows are operators, compared with what they promise in every reachable log. |
| `FormatMigration` | the upgrade of all logs at a start with another format | builds, headers and event rows; a start migrates in place or by rebuilding the table, or leaves all as it was. |
| `SessionDirectory` | listing and search | stored and live logs, a clock, and a visitor that walks the list or searches, one await per session. |
| `SessionAgents` | one session's resident agent (EXTENDS `ModelChoice`, without shared state, to state `ChoicesHold`) | creation, opening, turns, renames, commands, feedback, preset switches, eviction; a call's place between its awaits is in `calls`. |
| `ModelChoice` | a session's model and images | `chain` is the promise chain of image prompts and selections; the choice in bridge, cache, agent and log; `inForce` is a history of what was acknowledged. |
| `UploadReceipts` | receipts of uploaded files | the upload rows, the agent's registry, prompts from binding to commit or rollback. |
| `ImageStore` | images | admission, normalization (the upright box, Images' scaling and rounding, with or without its turning of a rotated picture) and its fallback, chunks and the byte counter, a backend pinned on first use, bindings that come and go with deployments. |
| `StorageSweep` | the sweep of spills and blobs | spills, blobs, links and staged content; one run with its pages, budgets and recorded cursors. |
| `SessionArchive` | archive downloads | the producer cut at its waits, the stream, the client; the logs that go on meanwhile. |
| `WorkflowRun` | one workflow run | calls of `agent()` between their awaits, slots and waiters, children, the isolate, what each call answers over the bridge, the grace after a cancellation, disposal. What only waits for a settled promise goes on before the next message or timer (`HopPending`), so the two handlers of an evaluation have nothing between them but a cancellation. |
| `CodeRun` | programs of `run_code` | logs on their way from isolate to host, the output ledger, binding calls, the races to settle. |
| `CommandRun` | one command of the workspace | the tool call between its awaits (the directory, the start, the reads, a push that waits, the close), the exit event and its status, the tail and its decoding, the spill with its queue and file, abort, grace, deadline and detachment. Output is numbered bytes; `Continues` says which of them continue a UTF-8 character. stdout and stderr are captured alike, so there is one. |
| `ShellRouting` | light shell or container; the in-process shell | the line of the light shell, revision and boundary counters, misses and reruns. Of the in-process shell: executions under caller-chosen ids, their streams, disposals and close. |
| `BashRouting` | the static classifier | the command under test grows with what it really starts; `classify` and its parts are the code's operators over its tokens (RECURSIVE). |
| `ChangeRecorder` | recorded file changes | captures and copies, the chain of recording work, turns, foreign writes, evictions. |
| `McpServers` | MCP connectors and their paged lists | saved servers, catalogs, tokens, registered tools, a probe, authorization flows; pages under limits. |
| `EdgeSettings` | the settings service; the settings page | one stored document, revisions, queued writes with or without an expected revision, registrations one after the other, which move, discard or refuse a section. Of the page: requests in flight with their generations, lost answers, overlapping saves. |
| `StorageUnit` | the key-value unit and its migration | records with sidecar stamps, backups, releases that come and go, evictions between storage calls. |
| `Startup` | mounting the services | layers of services, what each injects, adapters that fail, the default workspace. |
| `Downlinks` | event sockets and their expiry | cookies, sockets, the alarm, pumps in memory, evictions. |
| `Installer` | `install.mjs`, `activation.mjs` | installers between their awaits, the Worker's versions and what is served during propagation. |
| `SkillCatalog` | discovery of skills | files, fingerprints, the registry's cache, discoveries and checks read by read. |
| `MainQueueProofs`, `MainDriverProofs`, `SessionLogProofs`, `SessionProofs`, `ToolProofs`, `SettlingProofs`, `PlatformProofs`, `LineLemmas` | theorems | see section 6; `LineLemmas` has the facts about waiting lines and counting that several proofs need. |
| `MCMainQueue`, `MCMainDriver`, `MCSessionLog`, `MCTools`, `MCSettling`, `MCSessions`, `MCPlatform` | instances for TLC | the assignment of inputs to sessions, symmetry, a view, history variables, and which component acts. |

The last four instances hold several components that do not share state. A
variable `subject` says which of them acts in a behaviour; the others stay in one
initial state, and each property speaks of the component it names. TLC explores
the components one after the other, so nothing of a component's behaviour is lost
and no product of independent state spaces is built. Where a run has fairness
(`MCSettling`), a component that does not act has no fair step enabled, or is fair
only as the subject. `MCSessionLog` has two such profiles, one with damage,
restarts and exports, one with overlapping flushes.

### Abstractions

* Message contents are a byte length out of `Weights`; digests are left out, and
  a repeated identity is a stutter of the ledger (the driver model keeps the
  wake that goes with the repetition). A row is addressed by its input identity,
  which also fixes its session; the epoch column only guards against that
  identity naming an older row.
* Timeouts are nondeterministic: the residency deadline, the queue and execution
  deadlines of tools and the sleep window may pass whenever they are armed.
  Reminders, downlinks and listings have a clock, in whole units.
* In `ScheduleStore` an error while a delivery is prepared is a nondeterministic
  deferral; the one-time import of legacy tasks and read-only listings are left
  out.
* In `SessionLog` a row is one event (runs of stream chunks share a row in the
  code; packing is `EventPages`'), its payload is intact or torn, and its kind is one of the four that
  summary, repair or inbox receipts depend on, or unknown. Events are numbered
  by emission, apart from their sequence numbers, which a repair reuses.
* `SessionDelivery` sees persistence through `SessionBarrier` only, so every
  order in which a correct log may settle flushes is explored. A restart empties
  all it models; one life of the process is enough. The limiter of immediate
  title flushes is a free choice.
* Where a handler awaits only its own object's storage, nothing else runs (input
  gates), so its storage calls are one step in `McpServers` and `ModelChoice`; an
  eviction may still cut them apart where the code has no transaction.
* Sizes are small numbers: bytes of an event, an image, a chunk, a page of tools.
  A text is its size, an image its header and what encoding it would yield.
* Only rows at the end of a log become unreadable (a torn write), which is what
  the code's repair expects.
* A name of a call, a command or a deleted task stands for a later one once it
  is free, so a small set of names gives unbounded behaviours.

### External behaviour

The upstream agent package is not under `src/`. From how the code uses it, the
models assume: it consumes an inbox message in its pre-step once the message's
gate is settled; it drops a refused one; it is idle only with an empty inbox;
once it has been stopped it becomes idle; a parent tool awaits the calls it
dispatched; a recurring rule's next occurrence is the first one after now; the registry of
skills keeps the result of a discovery that no invalidation overtook; a service
starts once what it injects is there. Cloudflare keeps several versions active
while a deployment propagates, and Wrangler may fail after its upload. Those
definitions are marked `external` in `PROJECT.json`.

## 3. The runs

| Run | Question | Instance |
|---|---|---|
| `ledger` | Do the ledger's counters, rotation, receipts, outcomes and pauses hold under every order of its operations and restarts? | 2 sessions; two interchangeable inputs and a reminder of one, an input of the other; weights 1 and 2; limit 3 inputs and 4 bytes, so both limits refuse |
| `driver` | Do turns, steers, calls, stops and SSE requests keep the slot, the durability gate and the alarm right when interleaved at every await? | 1 session, a user input and a reminder, 3 turns, 2 crashes, 1 fault, 1 call |
| `driver_live` | Does every answered submission end with no further request? | 2 sessions with an input each, 1 crash, 1 fault |
| `driver_streams` | Does an SSE request end with its input? (violated) | 1 input, 1 turn, 1 crash, 1 call |
| `session_log` | Do summary, repair, migration, blanks and exports agree with the log, and does the log keep its promise to overlapping flushes (refinement)? | 1 session, 3 events; either 4 kinds, 1 torn row, pages of one row and a failing transaction or an export; or turns only, 2 failures and 2 flushes |
| `tools` | Are permits and slots exact, is a command routed, rerun and reported as it should be, and are MCP tools their server's? | 3 short tools, one nested, a long tool and a direct command over 1 permit, 2 waiting places, 1 slot; 2 commands of 6 natures; commands that grow by 2; 2 direct executions; 2 tools over 2 turns; 2 servers, 2 addresses; lists of up to 4 tools |
| `container_wake` | Is a freed slot always passed on? (violated) | the same |
| `settling` | Do workflows, programs, commands, archives and the sweep report, keep and end as they should? | 2 agents over 1 slot with a cap of 2 or 1 (longer lines are in the proof); one program; outputs of 5 bytes, one of which continues a character, over a tail of 2 and a spill of 4; a family of 3 logs; 3 spills or 2 blobs with limits of 1 or 2 |
| `sessions` | Is what a session stores seen in order, paged without gaps, kept across upgrades, found by lists and searches, and are its model, preset, files and images the chosen ones? | 1 session attached twice, 2 turns and the late queue, 2 events; 2 models; 3 clients; 3 sessions in lists; logs of 4 events with 2 streams; 3 logs to migrate; 2 uploads, 2 prompts; 4 messages of 6 images, 2 saved together |
| `delivery_gap` | Is nothing published past a dropped event? (violated) | the same |
| `image_requests` | Is a model only sent images it takes? (violated) | the same |
| `platform` | Do installation, start, storage units, settings, their page, downlinks, skills and reminders hold across releases, evictions and lost answers? | 2 installers over 3 first states; 3 releases, 2 records, 2 old workspaces; 2 sockets; 2 namespaces and an old one, 2 pages; 2 requests; 2 directories, 2 skills; 3 reminders of 2 sessions or 2 of one, history of 1 |

Deadlock is not checked: every instance is finite by a bound (inputs, turns,
crashes, faults, calls, requests, edits, the clock), and the bounded system may
come to rest.

### Why the bounds are enough

* *ledger*. Every property relates at most two inputs of one session and one of
  another; rotation needs two sessions, a re-queue in the middle needs a session
  with two inputs, and a pause across two restarts needs a claim, a queued input
  and a submission. Restart, claim and finish are unbounded, so a stale claim
  may survive any number of restarts. `MCView` keeps only the order of the two
  ever-growing columns, on which all properties and guards depend.
* *driver*. One session is enough for the interleavings of a turn with its own
  steers, calls and successors; three turns let a steer miss its target twice;
  two crashes put one between a receipt and its wake and one in the stale
  close. `MaxFaults` counts failing flushes, resumes and wakes together: one
  failure is where the code's error paths differ, a second one repeats them.
* *driver_live* uses `MaxTurns` = inputs + `MaxCalls`, so that the bound on turns
  never blocks an input from its turn.
* *session_log*. A summary is wrong, or a repair takes too much, because of one
  row against its neighbours: three rows give a row before, at and after the
  tear. A failing transaction changes nothing an export reads, so the two are not
  combined. The refinement needs two flushes, one to start a drain and one to
  join it in the microtask after its loop, and a third event to be left uncovered.
* *tools*. One permit and one slot make every second call wait; two waiting
  places are needed to leave the line from its middle. Two commands are the one
  that writes and the one that may be blamed for it. A command is grown by two
  constructions around two words, so each wrapper meets each other one, a
  redirection and an assignment. A list of four tools is cut by its pages, its
  bytes and its number.
* *settling*. One slot makes the second agent wait and a cap of two refuses the
  third. Output passes the tail, the queue and the spill's limit at different
  lengths, and its third byte continues a character, so that the tail is cut
  before, inside and after one. Three logs give a child and a grandchild; three spills of different rows
  and limits of one or two make every pass stop early, so that a kept spill stands before
  the page that holds an old one and only the cursor gets past it.
* *sessions*. Delivery relates two events, two queues, or an event and a
  baseline. Three clients are a turn, a switch and one that waits behind both.
  Four events hold a packed run of two chunks with a row on either side, and each
  limit is small enough to fall inside it. Three sessions with two instants share
  a creation time across a page boundary. Three logs are a parent, a child and one
  that is too large or damaged.
* *platform*. Two installers suffice for an inspection that is stale at its
  upload. Three releases read, do not read and read each other's records. Three
  instants separate the past, a retry and the next occurrence of a reminder; the
  retention bounds are one, so each delivery evicts.
  Reminders have two profiles: one-shot and recurring tasks of one session over three
  instants, and one-shots of two sessions over two, whose pauses and wakes meet.

## 4. Properties

A run's property may be the conjunction of several about its components; the
parts are definitions of the modules and hold one by one.

Ledger: `PendingExact` and `BytesExact` (counters against rows), `LedgerInv`
(slot and claim, queued inputs and ready rows, distinct positions, a resume mark
only beside the stale claim it belongs to), `ReceiptIsStable`, `OutcomeIsFinal`,
`NoDoubleOvertake` (round robin), `PauseIsTheUsers` (a stale claim pauses unless
the user resumed, and only the user ends a pause).

Driver: `ResidencyOwnsSlot` (no handler that runs during an await starts a second
drive), `SeenOnce` (once, and a steer in its own run, but for what a dead process's log
still has in the inbox), `AckedWorkHasAlarm`, `SteeringIsExact` (`SeenIsDurable`,
`StaleInboxGoes`, `SteeringHasRequest`: the model sees only durable inputs, what a
dead claim left in the inbox goes with it, and a steer keeps capacity only while a
request will settle it or since its wake failed), `TurnIsAttended` (`StopReachesAgent`,
`JoinedCallInsideTurn`), and the liveness property `AnsweredInputCloses`.

| Property | Parts | What it says |
|---|---|---|
| `SummaryIsTheLogs` | `LogTypeOK`, `SummaryExact` | appends, repairs, migrations, starts, blanks and abandonment each keep the summary row true |
| `ExportIsASnapshot`, `CommittedStays` | | an export is one version of the log; what repair and abandonment may take away |
| `ImplementsBarrier` | | the log, with its shared drain, its batch put back in front on failure and the second drain of `flush`, refines `SessionBarrier` |
| `AdmissionIsExact` | `AdmissionTypeOK`, `PermitsExact`, `HoldersCanFinish`, `SlotsExact`, `StopSparesCommands`, `WaiterHasWaker` | permits and slots are exact, nobody who holds one waits for ever, stops spare commands |
| `FifoPermits` | | nobody overtakes in the line of the pool |
| `RoutingIsFaithful` | `EffectsOnce`, `MissIsNeverHidden`, `BlameIsItsOwn`, `MissHasACause` | no effect twice, no miss unreported, none blamed on the wrong command |
| `SourceIsReadRight` | `LightIsExact` | the classifier finds exactly the programs a command starts |
| `ReportsAreTrue` | `DirectShellTells`, `EditsAreListed` | a stream's exit and the list of changed files are what happened |
| `ServersAreTheirOwn` | `ToolsAreTheServers`, `CodeSentOnce`, `ListsFitAndContinue` | tools belong to the configured address, a code is sent once, cursors lead through the whole list |
| `WorkflowIsExact` | `WorkflowTypeOK`, `WorkflowSlots`, `EventsPaired`, `QuietAfterDispose`, `RepliesAreTrue`, `IsolateEnds` | slots, events and children of a run, what its calls answer, and its isolate |
| `CommandIsExact` | `TextIsTheTail`, `SpillIsAsReported`, `CaptureIsBounded`, `StatusIsTrue`, `SlotCoversTheCommand` | a result's text in whole characters, its spill, memory, what it says of the command's end, and the slot until the command is over |
| `ContentIsKept` | `CodeTypeOK`, `OutputExact`, `NothingNeededIsLost`, `ClosedIsWhole`, `QueueIsBounded` | logged output, swept files and archives |
| `EverythingSettles` | `SettlesOnce`, `CancelSettles`, `SettledDrains`, `CallsEnd`, `EverythingIsReached`, `DownloadsSettle` | liveness of what runs in the background |
| `DeliveryIsOrdered`, `VisibleIsStored` | `OvertakenIsLeftover`, `BaselineBoundary` | sockets see what is durable, in order, once, above their baseline |
| `ChoicesHold` | `ChoiceIsInForce`, `TurnKeepsItsAgent` | no older model choice comes back, no agent is replaced under its turn |
| `ReadsAreExact` | `HistoryPagesJoin`, `ColdForkIsTheLiveFork`, `WindowIsAroundItsEvent`, `StoredBytesExact`, `ReferencesStay` | pages join, forks agree with the logs; images that were handed out stay readable, in the sides they are told with |
| `NothingStoredIsLost` | `StartedMeansReadable`, `ListingIsComplete`, `SearchIsHonest`, `ReceiptsKept` | a started object reads every log of its format; lists and searches leave nothing out silently; receipts live until used or expired |
| `StepsKeepTheRecord` | `ImagesMeetTheirModel`, `PresetIsFixed`, `PackingLosesNothing`, `ReplayFollowsTheLog`, `LogsSurviveUpgrades` | what no step may do to a session's record |
| `DeploymentHolds` | `KeyIsHandedOver`, `ReadyMeansNew`, `NothingIsLeftWaiting`, `RemovalStays`, `StampsTellTheWriter`, `WorkspacesSurvive` | installer, start and storage units |
| `PagesAreServed` | `CarriersHavePumps`, `AcknowledgedWritesStay`, `SettingsPageSettles`, `SkillsStayCurrent` | what a page is shown is what is served; acknowledged writes stay, and checked ones land on the section they were made for |
| `StorageAndLegacyStay` | `StorageNeverMoves`, `LegacyIsMoved` | no upload moves the attachments' storage; a section goes from its old name only with what the successor's map makes of it |
| `RemindersHold`, `PauseHoldsReminders` | `ScheduleTypeOK`, `StoreBounded`, `KeysAreFresh`, `DueHasWake`, `HistoryHonest` | reminders are bounded, have a wake (or a lifted pause whose wake is coming or was cut) and are honest about their history; they never enter a paused session |

`PROJECT.json` names for each of them a plausible bug of the code (a dropped
guard, a missing reset, an off-by-one) under which the run finds it violated.

### Fairness

`FairDriverSpec` assumes weak fairness of: the driver's own steps (storage and
agent promises settle), the delivery of a due alarm, the continuation of a
`scheduleMainWake`, the residency timer, flushes, answers, the end of a rename's
resume and the settling of a joined call. The agent is trusted to become idle
only after it was stopped, since a model stream may hang; that is what the
residency deadline is for. No request, steer, stop or retry is fair: an answered
input must end without one. Crashes and faults are bounded, never forced.

In `MCSettling`: `WorkflowFairness` (timers of the grace and of a disposal, steps
of the engine, and children that were aborted end; a child that was not may run
for ever, and so may the script); `CommandFairness` (timers, reads and answers
go on; the directory is made or not, a command ends, the shell answers; the storage
of a spill owes nothing); the sweep's steps when they are due,
while evictions, deletions that fail and container changes end (`FaultsEnd`), since each of
them restarts or skips a pass (to read a spill that is kept is an ordinary step and goes on); `ArchiveFairness` (the producer goes on when it
can, and a client reads what is there until it leaves: one that stalls holds its
download open by design).

## 5. Disagreements found

1. **An SSE request can outlive its turn** (`driver_streams`, `instance.ts:2070`).
   Observers are resolved by driveMain's finish and by a removal only. When a
   queued input is promoted into the running turn, or its claim is closed as
   stale, the input gets its outcome and the request stays open, occupying one of
   the 32 streams.
2. **A wake-up can be lost** (`container_wake`, `container-activity.ts:37`). A
   command that was woken and then aborted passes its slot on, unless a stop
   began in between: then it throws before the line that does, and the next
   waiter sleeps beside a free slot. `WaiterHasWaker` shows this is the only way.
3. **A dropped event does not stop its successors** (`delivery_gap`,
   `session-store.ts:2591`). The release notes promise that a failed delivery
   barrier stays terminal for its session. It does for the late queue, but a
   turn's queue is forgotten with its turn, and the next late event or turn
   publishes past the events it dropped.
4. **Images in the main queue are not counted** (`image_requests`,
   `session-store.ts:1867`). Selecting a model without image input is refused
   when the session contains images, but only the agent's inbox and the log are
   searched: an image prompt that was acknowledged and waits in the main queue
   reaches the model that was selected meanwhile.

More that TLC found, stated as definitions beside the others but not among the
runs:

* `PausedOnlyByCrashOrTimeout` (`MainDriver`; `README.md:45` against
  `instance.ts:857`): any failure of a residency pauses the followups, for
  instance a session that a rename is just resuming.
* `OpenDownlinkHasAlarm` (`Downlinks`; `instance.ts:770`): the alarm handler and an
  accepted connection can leave an open downlink without the alarm that ends it.
* `StaleWriteRefused` (`EdgeSettings`; `edge-settings.ts:14`): revisions start
  again with the process, so a page's old revision can match a newer section. (It is
  about writes that expect a revision: those of the settings page expect none,
  `session-store.ts:1491`, 1507 and 1546, and land on whatever they find.)
* `TokensAreTheServers` (`McpServers`; `session-store.ts:1640`): an exchange that
  ends after its server was changed stores a token of the former one.
* `SessionRunsItsHeader` (`SessionAgents`; `agent-presets.ts`): a failed flush of a
  preset switch leaves the agent and the stored header on different presets.
* `FeedbackRecordedOnce` (`SessionAgents`; `session-store.ts:2418`): feedback whose
  call failed and is retried can be recorded twice.
* `RowGoesWithMessage` (`UploadReceipts`; `edge-file-uploads.ts:11`): a row can
  outlive the message that used it.
* `CapturesAreStored` (`ChangeRecorder`; `edge-workspace-changes.ts:281`): the
  removal of a disposed recorder's directory can run under its successor.

And observations that contradict no document, or only narrowly:

* A steer whose wake fails after its receipt (`instance.ts:903`) is `stranded`: nothing
  calls `finishSteer`, so the row keeps its place in the queue until a restart, and a
  retry finds the receipt and is answered with nothing delivered (2105).
* What a dead process left in an agent's inbox is cleared only with a stale claim
  (`instance.ts:812`). Otherwise the session's next turn consumes it, and once more
  after another crash if that consumption was not durable: the exception of `SeenOnce`.
* A process that dies, or an alarm that cannot be written, between the end of a pause
  and its wake leaves a due reminder without an alarm until the next wake: the
  exception of `DueHasWake` (`unwoken`, `cut`).
* A stored section that no longer validates stops every start, unless its namespace
  asks to discard it (`edge-settings.ts:112`); the namespace that takes over an old
  section does not ask. An old section whose pick is not a string is dropped.

* A failed queue stays in `unsettledEventDeliveries`, so every later
  `withMuxBaseline` rejects (`baselineFails`) until the process restarts; a
  failed late queue also fails every later turn of its session (`priorRejects`).
* When a session is detached while its last drain fails, a late queue still
  publishes the unwritten events: its flush then only opens the log and reads.
  `VisibleIsStored` names this exception (`unsaved`). What a turn leaves on its
  queue's timer may be overtaken by an immediate title (`leftover`).
* A Wrangler that is killed after its upload, or exits with an error, makes the
  installer lose the new key; of two installers the last one wins.
* A start that is evicted after the registry was initialized and before the
  default workspace was created never creates it.
* `readEvent` reads past a torn row, unlike every other reader. A packed row larger
  than a replay's limit is answered with 413.
* A cancelled stream of the direct shell disposes whatever holds its id
  (`direct-shell.ts:109`). A discovery of skills that was overtaken can replace a
  newer fingerprint; edits that keep a file's size and time are not seen.
* On the settings page a read sent during a save can show the old value
  (`store.ts:198`), a change of a tool policy has no generation (472), and a lost
  answer shows no error (494). `excused` names these.

## 6. What is proved

Checked by TLAPS from the modules alone, for every value of the constants. A
theorem with a property in the second column proves what a run checks.

| Theorem | Property | Of |
|---|---|---|
| `MainQueueProofs`: `TypeCorrect`, `LedgerCorrect`, `CapacityCorrect` | `TypeOK`, `LedgerInv`, `PendingExact` | the ledger, any sessions, inputs and limits |
| `BytesCorrect` | `BytesExact` | any sizes of inputs |
| `ReceiptsAreStable`, `OutcomesAreFinal` | `ReceiptIsStable`, `OutcomeIsFinal` | |
| `RotationCorrect`, `PausesCorrect` | `NoDoubleOvertake`, `PauseIsTheUsers` | the steps of `MCMainQueue`, for any sessions and inputs |
| `MainDriverProofs`: `LedgerUsed` | `DriverSpec => Spec` | the scheduler, any bounds on turns, crashes, faults and calls |
| `DriverInvariant`, `DriverTypes` | `DriverTypeOK` | |
| `SteeringCorrect`, `TurnsAttended`, `AckedWorkIsWoken` | `SteeringIsExact`, `TurnIsAttended`, `AckedWorkHasAlarm` | |
| `ModelSeesOnce`, `ResidencyKept` | `SeenOnce`, `ResidencyOwnsSlot` | |
| `SessionLogProofs`: `LogInvariant`, `SummaryCorrect`, `ExportCorrect`, `CommittedKept` | `SummaryIsTheLogs`, `ExportIsASnapshot`, `CommittedStays` | one log, any events, flushes, page sizes and bounds |
| `LogIsABarrier` | `ImplementsBarrier` | refinement of `SessionBarrier` |
| `SessionProofs`: `DeliveryInvariant`, `OrderCorrect`, `VisibleCorrect` | `DeliveryIsOrdered`, `VisibleIsStored` | delivery over that barrier, any turns, events and lives of the session |
| `RunsInvariant`, `ChoicesCorrect` | `ChoicesHold` | a session's model and agent, any models, operations, clients and presets |
| `RunsStepsCorrect` | (part of `StepsKeepTheRecord`) | |
| `ReceiptsCorrect`, `DirectoryCorrect`, `UpgradeCorrect`; `StoredCorrect` | `NothingStoredIsLost` (and its parts, and part of `StepsKeepTheRecord`) | any uploads and prompts; any sessions, page size and search limits; any logs of either format |
| `ToolProofs`: `AdmissionInvariant`, `AdmissionCorrect`, `PermitsAreFifo` | `AdmissionIsExact`, `FifoPermits` | any calls (nested or not), permits, waiting places, slots |
| `RoutingInvariant`, `RoutingCorrect` | `RoutingIsFaithful` | any commands and writes elsewhere |
| `ServersCorrect` | `ServersAreTheirOwn` | any connectors and addresses |
| `DirectShellCorrect` | (part of `ReportsAreTrue`) | any executions and ids |
| `SettlingProofs`: `WorkflowInvariant`, `WorkflowCorrect`, `WorkflowSettlesOnce` | `WorkflowIsExact`, (part of `EverythingSettles`) | any agents and limits |
| `CommandInvariant`, `CommandCorrect` | `CommandIsExact` | any output and characters, any tail, queue and spill limit |
| `CodeCorrect`, `SweepCorrect`, `ArchiveCorrect`; `ContentCorrect` | `ContentIsKept` (and its parts) | any programs, logs and budgets; any files, blobs and cursors; any lineage of sessions and logs |
| `PlatformProofs`: `ScheduleInvariant`, `RemindersCorrect`, `PauseCorrect` | `RemindersHold`, `PauseHoldsReminders` | any tasks, sessions, rules, periods and limits |
| `InstallationCorrect`, `StartCorrect`, `StampsCorrect`, `MigrationCorrect`; `DeploymentCorrect` | `DeploymentHolds` (and its parts) | any installers, attempts, starts, keys, releases and stored workspaces |
| `DownlinksCorrect`, `SettingsCorrect`, `SettingsPageCorrect`, `SkillsCorrect`; `PagesCorrect` | `PagesAreServed` (and its parts) | any sockets, cookies, namespaces, edits, pages, requests, files and directories |
| `StorageIsKept`, `LegacyCorrect`; `StorageAndLegacyCorrect` | `StorageAndLegacyStay` (and its parts) | any installers and versions, any documents of an earlier release |

### Assumptions

They stand as named `ASSUME`s in the modules that declare the constants, and
every run evaluates those of its modules. They say that sets whose size the code
counts are finite (`InputsAssumption`, `CallsAssumption`, `CommandsAssumption`,
`WorkflowLimits`, `ArchiveSetting`, `TasksAssumption`, `CatalogLimits`,
`SettingsConstants`, `DirectorySetting`, `MigrationSetting`), that limits are natural numbers, positive
where the code's constants are, and that a marker for "nothing" is none of the things it stands
beside (`None`, `NoRow`, `NoRun`, `NoUrl`, `NoModel`, `NoClient`: `SessionsAssumption`,
`TurnsAssumption`, `TasksAssumption`, `LogAssumption`, `ShellAssumption`, `RoutingAssumption`,
`ModelsAssumption`, `PresetsOffered`, `RequestsAreNamed`, and the positive ids of
`DirectorySetting` and `MigrationSetting`).
Some describe inputs: `MigrationSetting` (a build writes only rows that its own format
reads; nothing is assumed of the logs of the old build), `VersionsAssumption` (the versions an account lists have the
modes and backends the installer knows, or none), `VersionsAreNumbers` (a release's
version is a positive number), and in `SettingsConstants` that a stored document has
a section, perhaps empty, for every namespace, and that an edit is a merge, a
replacement or a mutation. Some say more: `DirectAssumption` (a container command is a tool's or a direct
one, not both), `TailFitsTheQueue` (the owner's cap on an inline tail,
`SHELL_OUTPUT_BYTES_RANGE`, is at most `SPILL_QUEUE_BYTES`, as in the source) with
`CharactersAreShort` (output is UTF-8: at most three bytes continue a character),
`OutputLimits` (the message that the output limit was reached fits the budget), and
`PresetsOffered` (a preset's id is not another event's type).

### Arguments

*The ledger.* `TypeOK`, `LedgerInv` and `PendingExact` are one inductive
invariant, each conjunct proved for each action. The parts lean on each other:
`finish` settles `slot` and counts on `SlotOwnsClaim` for the row to be
unsettled; `claim` deletes a ready row only when `Queued` is empty, so
`QueuedIsReady` survives; `ResumeMarkHasOwner` needs the slot to change only by
`finish` of that very claim. `PendingExact` needs that exactly one row enters or
leaves `Unsettled`, which the lemmas about `insertMainInput` and `settle` state
once; `Restart` removes a whole set, by the cardinality of a difference.
`BytesExact` is a sum over the rows, which the model folds over the finite set
of inputs; the lemmas `EveryNumber` and `EverySubset` put induction over numbers
and over the subsets of a finite set into first-order form (a set of those for
which a fact holds, instead of an operator), and `SumSplits` is what insertion,
settlement and restart need. For the rotation, who was served since `s` began to
wait has the slot, left the ready line or stands behind `s`
(`ServedStandBehind`). For pauses, the mark -1 of a session says that its user
wrote since the claim went stale (`WordIsMarked`), and the session whose claim is
in the slot is not paused.

*The scheduler.* `LedgerUsed` shows that each of its steps is one of the ledger's
actions or leaves the ledger alone, so the ledger's invariants may be used. The
rest of `DriverInv` is inductive on top of them: `DriveOK` and `TurnOK` place the
holder of the main slot (`driving`, `pc`, `target`, the entry of `activeTurns`);
`InboxOK` places each input between its steering request, its gate, its row and
the model's context, and says of a dead process's messages that those beside a claim
stay as long as it does; `AckOK` says for each submission that is answered or about to
be who will set the alarm. `AckedWorkHasAlarm` alone is not inductive: a driver
between `DispatchDue` and `Claim` holds no alarm, and the proof needs that it
cannot go off without looking at the queue again.

*The log.* The rows of the table, the batch a drain is writing and the buffer
behind it, one after the other, are one line of events in the order of their
emission (`LineInOrder`), and while the session is live that line is what the
session has in memory (`HandleStands`). Every step moves events along the line:
`Emit` at its end, `TakeBatch` from the buffer to the batch, a success from the
batch to the rows, a failure from the batch back in front of the buffer, a repair
off the end of the rows while the line has no other part. `FlushesStand` says what
each flush waits for in terms of that line, which is what a flush that joins a
drain in the microtask after its loop needs its second drain for; `SummaryFollows`
is `SummaryExact` with the cases a start leaves behind; `ExportFollows` ties what
an export has read to the rows of its version. For the refinement each step is
matched with a step of `SessionBarrier`: `Attach`, `Emit` and `Crash` with
themselves, a read or append with `Rewrite`, the end of a drain's append with
`Store`, its failure with `Settle`, `flush`, `FlushGoesOn` and `FlushEnds` with
`Call`, `Store`, `Settle` and `Return`, `close` with `Detach` and its end with
`Retire`; start, damage, blanks, opening and export are stutters.

*Delivery.* The batches of a queue and what waits for one are one rising line of
events (`QueueOK`), an event is in one queue or sent (`HeldOnce`), and turns
follow each other (`TurnsFollow`): a running turn's events are younger than the
late ones, and what a turn that ended still has counts as left over. So whatever
is sent is younger than all that was sent before or was left over
(`SentInOrder`), which needs that a turn's batch is flushed only after its drain
of the late queue is over (`PriorAwaited`). A drain that found its queue empty says
nothing of events enqueued since; the baseline compares revisions, and
`BaselineIsExact` says that a finished drain together with an unchanged revision
means an empty queue. `FlushOwes` says that every event of a batch under way is
stored, owed by its flush or given up. Each is inductive only with the others; a
step enters the proof through what it does to queues, drains, promises, turns and
log, one lemma each. What the proof takes from persistence is `SessionBarrier`,
which `LogIsABarrier` proves of the log; restarts empty the queues and are not
part of `SessionDelivery`.

*Model and agent.* A model may be read from the agent's pending choice, the
bridge's cache or storage, the log or the default; `SourcesInForce` says that
each one that can be reached holds a choice in force, and `PublishedIsRead` that
the choice being published is in bridge and cache, or was used by a turn that has
retired it to the log, which is what lets an acknowledgement make it the only one
in force. `CallOK` places the calls that share an agent: a turn past its wait
and a preset switch exclude each other through `claimed` and `switching`, and
whoever resumes or disposes of the agent finds it not resident. `PresetIsFixed`
rests on `AgentKnowsItsLog`: an agent that holds a choice of preset has a log
without a turn.

*Admission.* A permit belongs to a call between `acquire` and `release`, a slot to
a command between `begin` and its end; both counters are the cardinalities of
those sets, and each line holds exactly those who wait, once. FIFO follows from
the line being left at its front by a permit and elsewhere only by calls that give
up. `HoldersCanFinish` needs that a nested call inherits its parent's permit.

*Routing.* The light shell is a line, so between a command's reading of the
revision and its check lie only its own write and writes elsewhere; `WritesOK`
and `MarksOK` say what each reading implies about them.

*Servers, workflow, command.* A tool's address can differ from the configured one
only for a name whose save a restart cut (`interrupted`); a pending flow has not
sent its code. A slot of a workflow is a call between `acquireSlot` and
`releaseSlot`. `CallOK` says for each call what it has announced and answered at
each of its awaits; that no agent is announced after the result needs that a call
whose `startChild` has returned is never met by a timer or by the end of the
evaluation, which is what the order of microtasks gives. A command's held tail, queue and file are
contiguous parts of its output (`Stretch`); since a tail fits the queue, a push never
waits with its chunk outside the tail. The exception is a first chunk beyond the tail
that is read when the grace or the deadline is already over: the race at
`workspace.ts:309` is lost before the held prefix is queued, and the answer is taken
without the chunk, although the comment at `edge-shell-output.ts:91` says a result
taken during a write ends with it. `TextIsTheTail` counts those bytes (`lost`) and
bounds the case: the command was given up, and all before the chunk is there.
`DecodesTail` shows that what `decodeTail` drops and holds back is exactly the
characters the cut or the end of the output divides.

*Code programs.* `EncodedLogsAre` says what one more entry adds to the encoding, so
the ledger stays the size of the admitted logs; a prefix costs no more than the whole
(`KeptLogsFit`), so the limit's own report always fits. A program's log is what the
host admitted and what is on its way (`ProgramOK`), and one that ends by itself ends
behind all it logged, which is why its report leaves nothing out.

*Sweep.* A staged write is seen as long as it is staged, and a staged pull means a
running container, beside which no blob is reclaimed (`SweepInv`): what is reclaimable
is neither linked nor staged, however often the sweep is cut and its cursors kept.

*Archives.* The producer visits the lineage in preorder. `TreeInv` says of the logs the
archive has and those on the line behind them that they are different, that each
one's parent is already in the archive, and that of the lineage that was read every
child of such a parent is among them. When the line is empty the rest of the lineage
has no member whose parent is outside it, and a part that leaves the root out always
has one (`Grounded`), so there is no rest. `LogInv` says that a log is pinned no
shorter than it was when the download was asked for (it is saved first), whatever is
appended meanwhile; `RefsInv` that every attachment an event names is still to come
or follows the logs; `GateInv` that nothing is pushed on a full queue.

*Receipts.* Prompts that bind the same receipt one after another form a pile, each
with a note of whom it took the receipt from; a rollback gives the receipt back to
that one, so it can return to a prompt whose own rollback is still to come. What is
inductive is about the pile and not about its top: from the prompt that holds the
receipt the notes lead to no free receipt without passing any prompt that is still
open (`Behind`). The Agent's registry is restored from the rows and may be older than
they are; it agrees with them down to each prompt that noted it (`InStep`), which is
why no rollback offers a spent receipt as a free one (`FreeIsFree`).

*Lists and searches.* The order of the list is total, so some line of the sessions
follows it (`LineUp`, by induction on a least counterexample), and the operator that
chooses one has it. A page ends at its cursor: whatever was there when the walk
began is on a page or lies behind the cursor (`ListStands`), because creation times
and ids never change. A search keeps what it may still find among hits and candidates,
unless it has already said that there is more (`SearchStands`).

*Upgrade.* A conversion reads the rows and the children's logs as they were at the
start, never as the sessions before it left them (`childFacts`). So after any
of them, the converted logs are their conversions and the others are as they
were (`Converted`), in the table they stand in or in a new one; the recursion over the
sessions is unfolded from a least counterexample (`MigRunExists`, `AllConverted`). A new table drops what it does not
convert, and is taken only if that is nothing or current (`StartConverts`).

*Reminders.* An identity is made from a due time that has come, and every new
target lies after the clock (`FutureRule`, `NextOccurrence`), so the key of an
active task is behind its due time (`KeysFollow`). `HistoryOK` describes the saved
deliveries as one stretch of numbers that ends at the last one; appending and
dropping keep that because the times of deliveries do not decrease with their
numbers, which makes what is too old a prefix. `DueHasWake` is
inductive beside what `WakeStands` says of the alarm and of the candidates of a pause
that was lifted since the last wake (`unwoken`), and `DriveFollows` of who still owes
one: the claim, the drive behind its `finally`, the handler, the request. A wake that
fails or dies leaves the alarm there was, or has its handler delivered again. `armScheduleWake`, which
only moves an alarm forward, keeps `WakeStands` for the candidates there were
and establishes it for the one it was called for.

*Installer.* Nobody's upload can be foreseen, so the invariant speaks of every run
that may still upload (`MayUpload`): all of them, and all known active versions,
have one storage (`OneStorage`), or what is active is foreign or of two kinds and no
run may upload (`Untouchable`). A run comes to be one that may upload only by reading
`active` (`Comes`), where `inspectExistingDeployment` lets it go on only in the first
case. `RunOK` ties what a run has told to where it is.

*Start.* `initialize` is fifteen layers, one after the other. Each layer's needs and
gifts are stated once (`Fits`, `Given`), and `LayersJoin` puts two together; so
whatever a service injects is given by an earlier one that is not an adapter
(`InitializeFits`), and what is provided at `at` contains everything given before it.
The order of the flag, the registry and the default workspace (`RegistryOrder`) is
what keeps a removal.

*Storage unit.* A record without a stamp was written by the version the unit stamp
names, a stamped one by its stamp and only in a per-record unit (`WrittenBy`); a
unit's stamp is written once. For the migration `MoveInv` says, for each place of
`pc`, which of the old and the new keys hold all workspaces: the new stamp and
records are complete before the old keys go.

*Downlinks.* Besides `CarriersHavePumps` only that an instance that is not in memory
has no streams and answers no request.

*Settings.* The removals a start queues run before any write of a page
(`RemovalsFirst`), so a page's view cannot be of a section that is yet to be dropped;
while a process lives, an equal revision means an equal section (`Current`);
and as long as the old section is stored, what is served under its successor is what
a start makes of what is stored (`LegacyWaits`), which is why the put that removes it
stores just that.

*Settings page.* For a setting that is not excused at most one write is on its way
(`OneWrite`), and the newest request tells what the page will show (`NewestShown`): a
write not yet answered, or a read that will be answered with what the server holds.
Whatever the network does to other requests only makes their answers older.

*Skills.* Edits are numbered, so a listing that is not what the files say now never
becomes it again; what a discovery found agrees with its listing wherever the file
still is the one listed (`FoundAsListed`).

In `MCPlatform`, `MCSettling` and `MCSessions` one component acts and the others rest,
so each behaviour is one of every component (`ComponentsAct`, `BackgroundActs`,
`StoreActs`), and the
properties the runs check follow.

### What proving found

On the settings page a save of the MCP list excused the list for ever, because its own
request counted as one on its way; `Unsettled` leaves it out, and the property holds
for the list too.

### Left to TLC

* Liveness (`AnsweredInputCloses`, `EverythingSettles`): out of the provers' reach,
  as is ENABLED.
* The operators of `EventPages`, `ImageStore` and of the lists in `McpServers`
  (`ListsFitAndContinue`) fold over sequences: their results would need an
  induction of their own; `SourceIsReadRight` rests on RECURSIVE operators.
* Of images `ReferencesStay` holds for the pictures of the run and not for all: the
  sides a reference tells are those of the picture, turned exactly when Images turned
  it, and two rounded shapes are told apart within 1 % (`sameShape`); a rotated
  picture that becomes a few pixels wide, or is nearly square, can be told the wrong way.
* What is not in the table: `EditsAreListed`, and of `MCSessions` what
  `ReadsAreExact`, `PackingLosesNothing` and `ReplayFollowsTheLog` say.

## 7. Not modelled, and why

* *Agent composition*: wiring of external packages; only the order in which
  services start is (`Startup`).
* *Files of the workspace* (`edge-filesystem.ts`, `edge-fs-search.ts`,
  `edge-search-ignore.ts`, `edge-file-reference.ts`, `edge-file-attachments.ts`,
  `do-upload-index.ts`): I/O and text matching over the external workspace
  library.
* *Presentation and validation*: the schemas of settings, RPC types, the wire
  format of the direct shell, approval rules, credentials as such, signatures and
  cookie parsing, `cli.mjs` and `publish.mjs`.
* *Placement of sessions in workspaces* (create, fork and move in `edge-api.ts`,
  `renameWorkspace` in `instance.ts`): compositions of operations that are
  modelled, each with its own durability. `renameWorkspace` reads the title it
  may restore before an await (`instance.ts:1491`); a crash between a durable
  creation and its announcement (`edge-api.ts:221`) is repaired by the next list.
* *Of modelled parts*: workspace file routes (scheduler); the legacy import
  (reminders); deletion (persistence); queue frames that accompany events
  (delivery); back-pressure of a live stream (SSE); concurrent refreshes of a
  rotating token and names that normalise to one credential (MCP); the isolate's
  workflow globals and the copying of values (workflow, code); release check,
  copying and sign-out (settings page); a `+`-terminated `-exec`, items that
  `xargs` reads at run time and a bare `cd` outside `time` (bash routing); where a
  registry of skills drops directories by use (skills).
* *An idle container's alarm* (`instance.ts:1300`): a process that dies between
  `release()` and `setAlarm` leaves no alarm to stop an idle container until the
  next request; the container has no alarm in the models.

## 8. Plan

Written in this order: `MainQueue`, `MainQueueProofs`, `MainDriver`,
`ScheduleStore`, `ShortToolPool` + `ContainerActivity` + `ToolAdmission`,
`SessionBarrier` + `SessionLog`, `SessionDelivery`, then the four groups of
`MCTools`, `MCSettling`, `MCSessions` and `MCPlatform`; then the proofs of
section 6. Next:

1. *Abstract.* A specification of what a submission promises (accepted once,
   closed once, seen at most once), implemented by `MainDriver`.
