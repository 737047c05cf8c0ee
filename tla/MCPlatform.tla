------------------------------ MODULE MCPlatform ------------------------------
(***************************************************************************)
(* The deployment and its settings, one component per behaviour: the       *)
(* installer, the start and the storage of the object, the downlinks of    *)
(* its pages, settings and what the settings page shows of them, the       *)
(* catalog of skills, and the reminders with the alarm they share.         *)
(***************************************************************************)
EXTENDS Installer, Startup, StorageUnit, Downlinks, EdgeSettings, SkillCatalog,
        ScheduleStore, TLC

CONSTANTS p, q, third, c1, c2,
          MaxRequests  \* bound on the saves and refreshes of a page together

VARIABLE subject  \* the component that acts

mcVars == <<installVars, startVars, unitVars, linkVars, settingsVars, clientVars,
            catalogVars, scheduleVars, subject>>

\* The same two names stand for two installers, two sockets, two pages, two
\* requests of a page, two discoveries of skills and two reminders.
MCSymmetry == Permutations({p, q})

\* A first installation, one over a foreign Worker, one over a deployment with
\* R2, one over versions that differ in their storage.
Deployed(mode, storage) == [by |-> Nobody, mode |-> mode, storage |-> storage, key |-> Nobody]
MCForeign == Deployed("none", "none")
MCFirst   == {{}, {MCForeign}, {Deployed("direct", "private-r2")},
              {Deployed("direct", "temporary-do"), Deployed("direct", "private-r2")}}

\* The third version knows how to read the second one's records.
MCCompatible == [v \in Versions |-> IF v = 3 THEN {2} ELSE {}]

\* What an earlier release left: a pick next to an invalid section under a new
\* name, a pick its successor no longer has, one that is no string, and one that
\* the successor's own section overrides.
MCOld(pick, own, other) ==
    [n \in Stored |-> CASE n = Legacy -> {{<<"default", pick>>}} [] n = "a" -> own [] n = "b" -> other]
MCOldSections == {MCOld(1, {}, {{<<"key", 9>>}}), MCOld(9, {}, {}), MCOld(0, {}, {}),
                  MCOld(2, {{<<"selectedDefault", 1>>}}, {})}
NoOperation == [op |-> "none"]
MCEdits == {[mode |-> "mutate", input |-> {},
             op |-> [op |-> "unset", field |-> <<"selectedDefault", 1>>]],
            [mode |-> "replace", input |-> {<<"key", 9>>}, op |-> NoOperation],
            [mode |-> "merge", input |-> {<<"key", 1>>}, op |-> NoOperation]}
MCRegistrations == <<"b", "a">>

\* A skill of one workspace and one of both.
MCRootOf == (1 :> {c1}) @@ (2 :> {c1, c2})

\* Two interchangeable reminders of one session and one of another.
MCTaskSession == [t \in Tasks |-> IF t = third THEN 2 ELSE 1]

\* Reminders of every kind in one session, or one-shots over a shorter time in
\* two sessions, whose pauses and deliveries then meet.
InOneSession == waitingInputs'[2] = 0 /\ status'[third] = "none"
OnceEach     == now' < MaxTime /\ \A t \in Tasks : rule'[t] = 0

\* A component that does not act stays in one initial state.
MCInit ==
    /\ subject \in {"installer", "start", "unit", "downlinks", "settings", "client", "skills",
                    "reminders", "pauses"}
    /\ InstallInit
    /\ ~bucket  \* nothing reads it: info, then create
    /\ subject # "installer" =>
          active = {} /\ \A i \in Installers : setup[i].command = CHOOSE c \in Commands : TRUE
    /\ active = {Deployed("direct", "private-r2")} =>
          \A i \in Installers : setup[i].command = "upgrade"
    /\ UnitInit
    /\ subject # "unit" => workspace.known = {} /\ workspace.stamp = NoStamp /\ ~old.state
    /\ subject # "unit" \/ workspace.known # {} =>
          /\ version = 1 /\ unit = 1 /\ layout = "single"
          /\ records = [k \in Keys \cup {Global} |-> NoRecord]
    /\ CatalogInit
    /\ subject # "skills" => files = [s \in Skills |-> Gone]
    /\ StartInit /\ LinkInit /\ SettingsInit /\ ClientInit /\ ScheduleInit
    /\ subject # "settings" => stored = MCOld(0, {}, {})

MCNext ==
    \/ /\ subject = "installer" /\ InstallNext
       /\ UNCHANGED <<subject, startVars, unitVars, linkVars, settingsVars, clientVars, catalogVars, scheduleVars>>
    \/ /\ subject = "start" /\ StartNext
       /\ UNCHANGED <<subject, installVars, unitVars, linkVars, settingsVars, clientVars, catalogVars, scheduleVars>>
    \/ /\ subject = "unit" /\ UnitNext
       /\ UNCHANGED <<subject, installVars, startVars, linkVars, settingsVars, clientVars, catalogVars, scheduleVars>>
    \/ /\ subject = "downlinks" /\ LinkNext
       /\ UNCHANGED <<subject, installVars, startVars, unitVars, settingsVars, clientVars, catalogVars, scheduleVars>>
    \/ /\ subject = "settings" /\ SettingsNext
       /\ UNCHANGED <<subject, installVars, startVars, unitVars, linkVars, clientVars, catalogVars, scheduleVars>>
    \/ /\ subject = "client" /\ ClientNext /\ saves' + refreshes' <= MaxRequests
       /\ UNCHANGED <<subject, installVars, startVars, unitVars, linkVars, settingsVars, catalogVars, scheduleVars>>
    \/ /\ subject = "skills" /\ CatalogNext
       /\ UNCHANGED <<subject, installVars, startVars, unitVars, linkVars, settingsVars, clientVars, scheduleVars>>
    \/ /\ subject \in {"reminders", "pauses"} /\ ScheduleNext
       /\ subject = "reminders" => InOneSession
       /\ subject = "pauses" => OnceEach
       /\ UNCHANGED <<subject, installVars, startVars, unitVars, linkVars, settingsVars, clientVars, catalogVars>>

MCSpec == MCInit /\ [][MCNext]_mcVars

----------------------------------------
\* An installation is ready only with the new version and hands over its key; a
\* start leaves no service waiting and no removal undone, and records keep the
\* stamp of their writer (install.mjs, session-store.ts, edge-storage-unit.ts).
DeploymentHolds ==
    /\ subject = "installer" => KeyIsHandedOver /\ ReadyMeansNew
    /\ subject = "start" => NothingIsLeftWaiting /\ RemovalStays
    /\ subject = "unit" => StampsTellTheWriter /\ MovedIsCopied /\ WorkspacesSurvive

\* What a page is shown is what is served: an open downlink has its stream, an
\* acknowledged write of a setting stays, the settings page settles on the
\* server's values, skills follow the files (instance.ts, edge-settings.ts,
\* store.ts, edge-workspace-skills.ts).
PagesAreServed ==
    /\ subject = "downlinks" => CarriersHavePumps
    /\ subject = "settings" => AcknowledgedWritesStay
    /\ subject = "client" => SettingsPageSettles
    /\ subject = "skills" => SkillsStayCurrent

\* An update never changes where a deployment stores its data; a section under an
\* old name leaves the storage with what its successor makes of it stored.
StorageAndLegacyStay == StorageNeverMoves /\ LegacyIsMoved
===============================================================================
