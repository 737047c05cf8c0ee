--------------------------- MODULE EdgeSettings ----------------------------
(***************************************************************************)
(* edge-settings.ts: one stored JSON document holds every namespace, so    *)
(* all writes run in one order behind `writes`; a write reads the section  *)
(* when it runs, validates what it would resolve to, stores the document   *)
(* and adopts it.  A page reads a section with its revision; its write may *)
(* expect that revision.  A start registers the namespaces in order and    *)
(* serves once all are: the successor of a namespace an earlier release    *)
(* used takes over its section, and a section that no longer validates is  *)
(* discarded where the registration asks for it and fails the start where  *)
(* it does not.  The Durable Object may be evicted at any await: the       *)
(* document survives, revisions and queued writes do not.                  *)
(*                                                                         *)
(* A section is a set of <<key, value>> pairs; a document holds {section}  *)
(* for a namespace that has one and {} for one that has none.              *)
(* Abstracted: the schema (a predicate on sections), redaction, nested     *)
(* paths, watchers (told in commit order).                                 *)
(***************************************************************************)
EXTENDS Naturals, Sequences, FiniteSets

CONSTANTS Namespaces,     \* the registered namespaces
          Registrations,  \* the same, in the order a start registers them
          Discarding,     \* those registered with discardInvalidSection
          Successor,      \* the one that replaces an earlier release's
          Legacy,         \* the earlier release's namespace
          OldSections,    \* the documents an earlier release may have left
          Texts,          \* the values that are strings
          Invalid,        \* the values the schema refuses
          Edits,          \* the writes a page may send: mode, input, operation
          Pages,          \* the pages with the settings open
          MaxQueued,      \* bound on the pages' writes queued at once
          MaxRevision     \* bound on changes in one life of the process

ASSUME SettingsConstants ==
  /\ Successor \in Namespaces /\ Legacy \notin Namespaces
  /\ Registrations \in Seq(Namespaces)
  /\ \E i \in 1..Len(Registrations) : Registrations[i] = Successor
  /\ Discarding \subseteq Namespaces \ {Successor}
  /\ \A doc \in OldSections : doc = [n \in Namespaces \cup {Legacy} |-> doc[n]]
  /\ \A w \in Edits : w.mode \in {"merge", "replace", "mutate"}

VARIABLES stored,      \* the document in storage
          document,    \* this.document
          registered,  \* how many namespaces this start has registered
          revision,    \* registration.revision
          queue,       \* the queued writes; the first is running
          putting,     \* the document the running write is storing, or {}
          page,        \* what each page has read, {} before it reads
          kept,        \* the section of the last write acknowledged, or none
          staleWon     \* lives in which a write won though its section had changed

settingsVars == <<stored, document, registered, revision, queue, putting, page,
                  kept, staleWon>>

Stored    == Namespaces \cup {Legacy}
Serving   == registered = Len(Registrations)
Unwritten == [written |-> FALSE, section |-> {}]
Valid(held) == \A section \in held : \A f \in section : f[2] \notin Invalid
Discard(n)  == [mode |-> "discard", ns |-> n]

\* What a write does to a section: merge keeps the other keys, replace
\* keeps none, a path operation sets or unsets one key.
mergeLayers(under, over) ==
  {f \in under : \A g \in over : g[1] # f[1]} \cup over

applyPathOp(section, op) ==
  CASE op.op = "set"   -> mergeLayers(section, {op.field})
    [] op.op = "unset" -> {f \in section : f[1] # op.field[1]}

Applied(section, w) ==
  CASE w.mode = "merge"   -> mergeLayers(section, w.input)
    [] w.mode = "replace" -> w.input
    [] w.mode = "mutate"  -> applyPathOp(section, w.op)

SettingsInit ==
  /\ stored \in OldSections
  /\ document = stored /\ registered = 0 /\ queue = <<>>
  /\ revision = [n \in Namespaces |-> 0] /\ putting = {}
  /\ page = [p \in Pages |-> {}]
  /\ kept = [n \in Namespaces |-> Unwritten]
  /\ staleWon = {}

\* The successor's section for an earlier release's: its pick under the name it
\* has now, or none when it is not a string (agent-presets.ts).
Renamed(section) ==
  LET picks == {f \in section : f[1] = "default" /\ f[2] \in Texts}
  IN IF picks = {} THEN {} ELSE {{<<"selectedDefault", f[2]>> : f \in picks}}

\* A section already stored under the successor wins.
renameSection(doc) ==
  [doc EXCEPT ![Legacy] = {},
              ![Successor] = IF @ = {} THEN Renamed(UNION doc[Legacy]) ELSE @]

\* The next namespace is registered, the successor after the old section moved.
\* A section that does not validate is ignored and its removal queued when the
\* registration asks for that; otherwise the start goes no further.
register ==
  /\ ~Serving
  /\ LET n       == Registrations[registered + 1]
         moves   == n = Successor /\ document[Legacy] # {}
         adopted == IF moves THEN renameSection(document) ELSE document
         drops   == n \in Discarding /\ ~Valid(adopted[n])
     IN /\ document' = IF drops THEN [adopted EXCEPT ![n] = {}] ELSE adopted
        /\ queue' = queue \o (IF moves THEN <<Discard(Legacy)>> ELSE <<>>)
                          \o (IF drops THEN <<Discard(n)>> ELSE <<>>)
        /\ registered' = IF drops \/ Valid(adopted[n]) THEN registered + 1
                         ELSE registered
  /\ UNCHANGED <<stored, revision, putting, page, kept, staleWon>>

\* A page shows a namespace: its section and revision.
describe(p, n) ==
  /\ Serving
  /\ page' = [page EXCEPT ![p] = {[ns |-> n, base |-> UNION document[n],
                                   expected |-> revision[n], life |-> "this"]}]
  /\ UNCHANGED <<stored, document, registered, revision, queue, putting, kept,
                 staleWon>>

\* update, replace and mutate queue a write, `checked` when it expects the
\* revision its page read; the page reads again after it.
write(p) ==
  /\ Serving
  /\ Cardinality({i \in DOMAIN queue : queue[i].mode # "discard"}) < MaxQueued
  /\ page[p] # {}
  /\ \E w \in Edits, seen \in page[p], checked \in BOOLEAN :
       queue' = Append(queue, [mode |-> w.mode, input |-> w.input, op |-> w.op,
         ns |-> seen.ns, base |-> seen.base, expected |-> seen.expected,
         life |-> seen.life, checked |-> checked])
  /\ page' = [page EXCEPT ![p] = {}]
  /\ UNCHANGED <<stored, document, registered, revision, putting, kept, staleWon>>

\* A mutant of nextDocument: the section is the one the page read.
fromTheView(w) ==
  [document EXCEPT ![w.ns] =
     IF w.mode = "discard" THEN {} ELSE {Applied(w.base, w)}]

nextDocument(w) ==
  [document EXCEPT ![w.ns] =
     IF w.mode = "discard" THEN {} ELSE {Applied(UNION @, w)}]

\* A write is refused for the revision it expects, if any, or for its value; a
\* removal drops the section from the document of the time it runs.
Refused(w) == /\ w.mode # "discard"
              /\ \/ w.checked /\ w.expected # revision[w.ns]
                 \/ ~Valid(nextDocument(w)[w.ns])

refuse ==
  /\ queue # <<>> /\ putting = {} /\ Refused(Head(queue))
  /\ queue' = Tail(queue)
  /\ UNCHANGED <<stored, document, registered, revision, putting, page, kept,
                 staleWon>>

storeDocument ==
  /\ queue # <<>> /\ putting = {} /\ ~Refused(Head(queue))
  /\ putting' = {nextDocument(Head(queue))}
  /\ stored' \in {stored, nextDocument(Head(queue))}
  /\ UNCHANGED <<document, registered, revision, queue, page, kept, staleWon>>

\* The put failed: nothing is adopted (a discarded section stays ignored).
putFails ==
  /\ putting # {} /\ stored \notin putting
  /\ putting' = {} /\ queue' = Tail(queue)
  /\ UNCHANGED <<stored, document, registered, revision, page, kept, staleWon>>

\* The put is done: the document is adopted and the revision counts a change.
commit ==
  /\ putting # {} /\ stored \in putting
  /\ putting' = {} /\ queue' = Tail(queue)
  /\ LET w       == Head(queue)
         current == UNION document[w.ns]
     IN IF w.mode = "discard" THEN UNCHANGED <<document, revision, kept, staleWon>>
        ELSE /\ document' = stored
             /\ revision[w.ns] < MaxRevision
             /\ revision' = [revision EXCEPT ![w.ns] =
                  IF UNION stored[w.ns] # current THEN @ + 1 ELSE @]
             /\ kept' = [kept EXCEPT ![w.ns] =
                  [written |-> TRUE, section |-> Applied(current, w)]]
             /\ staleWon' = staleWon \cup
                  IF w.checked /\ w.base # current THEN {w.life} ELSE {}
  /\ UNCHANGED <<stored, registered, page>>

\* An eviction; a write it caught unacknowledged may or may not be stored.
restartStore ==
  /\ document' = stored /\ registered' = 0 /\ queue' = <<>> /\ putting' = {}
  /\ revision' = [n \in Namespaces |-> 0]
  /\ page' = [p \in Pages |-> {[v EXCEPT !.life = "earlier"] : v \in page[p]}]
  /\ kept' = IF putting = {} \/ Head(queue).mode = "discard" THEN kept
             ELSE [kept EXCEPT ![Head(queue).ns] = Unwritten]
  /\ UNCHANGED <<stored, staleWon>>

SettingsNext ==
  \/ register \/ refuse \/ storeDocument \/ putFails \/ commit \/ restartStore
  \/ \E p \in Pages : write(p) \/ \E n \in Namespaces : describe(p, n)

SettingsSpec == SettingsInit /\ [][SettingsNext]_settingsVars

----------------------------------------
\* A write that was acknowledged stays stored until the next one to its
\* namespace, whose section it built on: no write to another namespace,
\* failed put, start, queued removal or eviction takes it back.  And while
\* a process lives, no write that expects a revision lands on a section
\* that changed after its page read it; one that expects none, as the
\* settings page's own, lands on whatever section it finds.
AcknowledgedWritesStay ==
  /\ putting = {} => \A n \in Namespaces :
       kept[n].written => stored[n] = {kept[n].section}
  /\ "this" \notin staleWon

\* The put that takes the old section out of storage stores what became of
\* it: the successor's own section, else what the map makes of the old
\* one, none if it keeps none; under it, the page's write if that is what
\* the put stores.  This holds whatever starts and puts failed before.
LegacyIsMoved ==
  [][stored[Legacy] # {} /\ stored'[Legacy] = {} =>
       LET moved == renameSection(stored)[Successor]
       IN stored'[Successor] = IF Head(queue).ns = Successor
                               THEN {Applied(UNION moved, Head(queue))} ELSE moved
    ]_settingsVars

\* "`expectedRevision` refuses a stale write": a write that expects a
\* revision and succeeds was based on the section it changes.
StaleWriteRefused == staleWon = {}

----------------------------------------
\* The browser's settings page (ui-edge store.ts): one snapshot shows what
\* the deployment's endpoints hold.  Requests overlap and their answers
\* come in any order; a generation per setting drops an answer that a
\* newer request of the same setting has overtaken.  What a setting holds
\* is named by the save that wrote it; stopping the container changes the
\* runtime state as a save does.
CONSTANTS Slots, MaxLoads, MaxSaves, MaxRefreshes

Fields == {"approval", "tools", "runtime", "mcp"}

VARIABLES
  server,          \* what the deployment holds
  late,            \* <<field, value>> of writes the page gave up on, still on their way
  shown, told,     \* what the page shows, and whether it shows an error beside it
  saving, pageStatus, mcpLoaded,
  loadGeneration, generation,
  requests,        \* slot -> the request in flight
  saves, refreshes,
  excused          \* settings whose requests overlapped in a way no generation covers
clientVars == <<server, late, shown, told, saving, pageStatus, mcpLoaded, loadGeneration, generation,
                requests, saves, refreshes, excused>>

NoRequest == [kind |-> "none", field |-> "none", gen |-> 0, value |-> 0, at |-> "none", load |-> 0]

ClientInit ==
  /\ server = [f \in Fields |-> 1] /\ late = {}
  /\ shown = [f \in Fields |-> 0] /\ told = [f \in Fields |-> FALSE]
  /\ saving = [f \in Fields |-> FALSE] /\ pageStatus = "idle" /\ mcpLoaded = FALSE
  /\ loadGeneration = 0 /\ generation = [f \in Fields |-> 0]
  /\ requests = [s \in Slots |-> NoRequest] /\ saves = 0 /\ refreshes = 0 /\ excused = {}

Free(s) == requests[s] = NoRequest
Writes(kind) == kind \in {"save", "policy"}
InFlight(f) == {s \in Slots : requests[s].field = f}
\* A write of the setting, other than the one slot s answers, is on its way.
Unsettled(s, f) ==
  (\E t \in InFlight(f) \ {s} : Writes(requests[t].kind)) \/ \E v \in late : v[1] = f

Request(kind, f, gen, value, loadGen) ==
  [kind |-> kind, field |-> f, gen |-> gen, value |-> value, at |-> "sent", load |-> loadGen]
\* A read of a setting is its newest request; while a write is unsettled it may
\* see the setting before or after it.
Read(s, kind, f, loadGen) ==
  /\ generation' = [generation EXCEPT ![f] = @ + 1]
  /\ requests' = [requests EXCEPT ![s] = Request(kind, f, generation[f] + 1, 0, loadGen)]
  /\ excused' = (IF Unsettled(s, f) THEN excused \cup {f} ELSE excused)
Done(s) == requests' = [requests EXCEPT ![s] = NoRequest] /\ UNCHANGED <<generation, excused>>

load(s) ==
  /\ Free(s) /\ loadGeneration < MaxLoads
  /\ loadGeneration' = loadGeneration + 1 /\ pageStatus' = "loading" /\ mcpLoaded' = FALSE
  /\ requests' = [requests EXCEPT ![s] = Request("health", "health", loadGeneration + 1, 0, loadGeneration + 1)]
  /\ UNCHANGED <<server, late, shown, told, saving, generation, saves, refreshes, excused>>

\* The Refresh buttons, a probe's end and a finished OAuth window read again.
refreshMcp(s) ==
  /\ Free(s) /\ refreshes < MaxRefreshes /\ refreshes' = refreshes + 1
  /\ \/ ~saving["runtime"] /\ shown["runtime"] # 0 /\ Read(s, "read", "runtime", 0)
     \/ Read(s, "read", "mcp", 0)
  /\ UNCHANGED <<server, late, shown, told, saving, pageStatus, mcpLoaded, loadGeneration, saves>>

\* A control is enabled while the page is ready and its own save is not running.
Enabled(f) ==
  /\ pageStatus = "ready" /\ ~saving[f]
  /\ f = "runtime" => shown[f] # 0
  /\ f = "mcp" => mcpLoaded
saveSetting(s, f) ==
  /\ Free(s) /\ Enabled(f) /\ saves < MaxSaves /\ saves' = saves + 1
  /\ generation' = [generation EXCEPT ![f] = @ + 1]
  /\ requests' = [requests EXCEPT ![s] = Request("save", f, generation[f] + 1, saves + 2, 0)]
  /\ saving' = [saving EXCEPT ![f] = TRUE] /\ told' = [told EXCEPT ![f] = FALSE]
  /\ excused' = (IF Unsettled(s, f) THEN excused \cup {f} ELSE excused)
  /\ UNCHANGED <<server, late, shown, pageStatus, mcpLoaded, loadGeneration, refreshes>>

\* A tool policy saves the whole list, as no generation's request and with no
\* control disabled meanwhile.
setMcpToolPolicy(s) ==
  /\ Free(s) /\ Enabled("mcp") /\ saves < MaxSaves /\ saves' = saves + 1
  /\ requests' = [requests EXCEPT ![s] = Request("policy", "mcp", generation["mcp"], saves + 2, 0)]
  /\ excused' = (IF InFlight("mcp") # {} \/ Unsettled(s, "mcp") THEN excused \cup {"mcp"} ELSE excused)
  /\ UNCHANGED <<server, late, shown, told, saving, pageStatus, mcpLoaded, loadGeneration, generation, refreshes>>

----------------------------------------
(* The network: requests are served, refused or cut off in any order. *)

Serve(s) ==
  /\ requests[s].at = "sent"
  /\ LET r == requests[s] IN
     IF Writes(r.kind)
     THEN /\ server' = [server EXCEPT ![r.field] = r.value]
          /\ requests' = [requests EXCEPT ![s].at = "served"]
     ELSE /\ requests' = [requests EXCEPT ![s].at = "served",
                            ![s].value = IF r.kind = "health" THEN 0 ELSE server[r.field]]
          /\ UNCHANGED server
  /\ UNCHANGED <<late, shown, told, saving, pageStatus, mcpLoaded, loadGeneration, generation, saves, refreshes, excused>>
Refuse(s) ==
  /\ requests[s].at = "sent" /\ requests' = [requests EXCEPT ![s].at = "refused"]
  /\ UNCHANGED <<server, late, shown, told, saving, pageStatus, mcpLoaded, loadGeneration, generation, saves,
                 refreshes, excused>>
CutOff(s) ==
  /\ requests[s].at \in {"sent", "served"} /\ requests' = [requests EXCEPT ![s].at = "lost"]
  /\ LET r == requests[s] IN
     late' = (IF Writes(r.kind) /\ r.at = "sent" THEN late \cup {<<r.field, r.value>>} ELSE late)
  /\ UNCHANGED <<server, shown, told, saving, pageStatus, mcpLoaded, loadGeneration, generation, saves,
                 refreshes, excused>>
Arrive ==
  /\ \E w \in late : late' = late \ {w} /\ server' = [server EXCEPT ![w[1]] = w[2]]
  /\ UNCHANGED <<shown, told, saving, pageStatus, mcpLoaded, loadGeneration, generation, requests, saves,
                 refreshes, excused>>

----------------------------------------
(* Answers *)

Served(s) == requests[s].at = "served"
Answered(s) == requests[s].at \in {"served", "refused", "lost"}
newest(r) == r.gen = generation[r.field]
Latest(r) == newest(r)

healthAnswer(s) ==
  /\ Answered(s) /\ requests[s].kind = "health"
  /\ IF requests[s].gen # loadGeneration THEN Done(s) /\ UNCHANGED pageStatus
     ELSE IF Served(s) THEN pageStatus' = "ready" /\ Read(s, "read", "approval", requests[s].load)
     ELSE pageStatus' = "error" /\ Done(s)
  /\ UNCHANGED <<server, late, shown, told, saving, mcpLoaded, loadGeneration, saves, refreshes>>

\* A load reads one setting after another, whatever became of the one before.
After(f) == CASE f = "approval" -> "tools" [] f = "tools" -> "runtime" [] f = "runtime" -> "mcp"
GoOn(s) ==
  LET r == requests[s] IN
  IF r.load = 0 \/ r.field = "mcp" THEN Done(s) ELSE Read(s, "read", After(r.field), r.load)

readAnswer(s) ==
  /\ Answered(s) /\ requests[s].kind = "read"
  /\ LET r == requests[s] IN
     /\ IF ~Latest(r) THEN UNCHANGED <<shown, told, mcpLoaded>>
        ELSE IF Served(s)
        THEN /\ shown' = [shown EXCEPT ![r.field] = r.value]
             /\ told' = [told EXCEPT ![r.field] = @ /\ r.field = "mcp"]
             /\ mcpLoaded' = (mcpLoaded \/ r.field = "mcp")
        ELSE /\ told' = [told EXCEPT ![r.field] = @ \/ r.field # "mcp"]
             /\ UNCHANGED <<shown, mcpLoaded>>
     /\ GoOn(s)
     /\ saving' = saving
  /\ UNCHANGED <<server, late, pageStatus, loadGeneration, saves, refreshes>>

stopsSaving(r) == TRUE
SavingEnds(r) == stopsSaving(r)

\* An answered approval or tool setting shows what was saved; a runtime setting
\* only what its newest request says.
saveAnswer(s) ==
  /\ Answered(s) /\ requests[s].kind = "save" /\ requests[s].field # "mcp"
  /\ LET r == requests[s] IN
     /\ saving' = [saving EXCEPT ![r.field] = IF Served(s) /\ r.field = "runtime" THEN ~SavingEnds(r) ELSE FALSE]
     /\ IF Served(s)
        THEN /\ shown' = (IF r.field = "runtime" /\ ~Latest(r) THEN shown ELSE [shown EXCEPT ![r.field] = r.value])
             /\ UNCHANGED told
        ELSE told' = [told EXCEPT ![r.field] = TRUE] /\ UNCHANGED shown
  /\ Done(s)
  /\ UNCHANGED <<server, late, pageStatus, mcpLoaded, loadGeneration, saves, refreshes>>

\* A saved list is shown, its servers are probed, and the list is read again
\* before its controls are enabled.
saveMcpServers(s) ==
  /\ Answered(s) /\ requests[s].kind = "save" /\ requests[s].field = "mcp"
  /\ IF Served(s)
     THEN /\ shown' = [shown EXCEPT !["mcp"] = requests[s].value]
          /\ Read(s, "reread", "mcp", 0) /\ UNCHANGED <<saving, told>>
     ELSE /\ saving' = [saving EXCEPT !["mcp"] = FALSE] /\ told' = [told EXCEPT !["mcp"] = TRUE]
          /\ Done(s) /\ UNCHANGED shown
  /\ UNCHANGED <<server, late, pageStatus, mcpLoaded, loadGeneration, saves, refreshes>>
refreshMcpServers(s) ==
  /\ Answered(s) /\ requests[s].kind = "reread"
  /\ LET r == requests[s] IN
     IF Latest(r) /\ Served(s)
     THEN shown' = [shown EXCEPT !["mcp"] = r.value] /\ mcpLoaded' = TRUE
     ELSE UNCHANGED <<shown, mcpLoaded>>
  /\ saving' = [saving EXCEPT !["mcp"] = FALSE] /\ Done(s)
  /\ UNCHANGED <<server, late, told, pageStatus, loadGeneration, saves, refreshes>>

\* A policy whose answer is lost says nothing.
policyAnswer(s) ==
  /\ Answered(s) /\ requests[s].kind = "policy"
  /\ requests' = [requests EXCEPT ![s] = NoRequest]
  /\ CASE Served(s) -> /\ shown' = [shown EXCEPT !["mcp"] = requests[s].value]
                       /\ told' = [told EXCEPT !["mcp"] = FALSE] /\ UNCHANGED excused
       [] requests[s].at = "refused" -> told' = [told EXCEPT !["mcp"] = TRUE] /\ UNCHANGED <<shown, excused>>
       [] requests[s].at = "lost" -> excused' = excused \cup {"mcp"} /\ UNCHANGED <<shown, told>>
  /\ UNCHANGED <<server, late, saving, pageStatus, mcpLoaded, loadGeneration, generation, saves, refreshes>>

ClientNext ==
  \/ \E s \in Slots :
       \/ load(s) \/ refreshMcp(s) \/ setMcpToolPolicy(s) \/ \E f \in Fields : saveSetting(s, f)
       \/ Serve(s) \/ Refuse(s) \/ CutOff(s)
       \/ healthAnswer(s) \/ readAnswer(s) \/ saveAnswer(s) \/ saveMcpServers(s) \/ refreshMcpServers(s)
       \/ policyAnswer(s)
  \/ Arrive

ClientSpec == ClientInit /\ [][ClientNext]_clientVars

----------------------------------------
Quiet == (\A s \in Slots : Free(s)) /\ late = {}

\* Once nothing is in flight, every setting the page has loaded shows what the
\* deployment holds or an error beside it, in whatever order the answers came.
\* Out of scope: a read sent while a write of the setting was unsettled, two
\* writes of one setting at once, a tool policy saved during a read, and one
\* whose answer was lost; the code orders none of these.
SettledShowsServer ==
  Quiet => \A f \in Fields \ excused : shown[f] # 0 /\ ~told[f] => shown[f] = server[f]

\* Nothing in flight leaves the page loading or a control disabled as saving.
SpinnersStop == Quiet => pageStatus # "loading" /\ \A f \in Fields : ~saving[f]

SettingsPageSettles == SettledShowsServer /\ SpinnersStop
==============================================================================
