---------------------------- MODULE SessionAgents ----------------------------
(***************************************************************************)
(* One session and the agent that may be resident for it: creation of a    *)
(* blank session, the first opening after an eviction, and the calls that  *)
(* share the agent afterwards (a turn, a rename, an agent-scoped command,  *)
(* recorded feedback, a change of the session's preset).  The log is       *)
(* reduced to the events that matter here, and what the agent holds but    *)
(* has not stored yet.                                                     *)
(*                                                                         *)
(* ModelChoice is the other half of what a session runs on: this module    *)
(* extends it to state ChoicesHold of both, and shares no state with it.   *)
(***************************************************************************)
EXTENDS ModelChoice, SequencesExt

CONSTANTS Clients, NoClient,
          Presets, OfferedPresets, DefaultPreset,
          MaxAppended,     \* unsaved events of the agent
          MaxRecorded    \* feedback events stored
ASSUME PresetsOffered ==
  /\ DefaultPreset \in OfferedPresets /\ OfferedPresets \subseteq Presets
  /\ {"turn/start", "feedback"} \cap Presets = {}   \* events have types of their own
  /\ NoClient \notin Clients

VARIABLES
  row,        \* "none", "blank" (retained, not yet materialized) or "stored"
  header,     \* the durable header's preset
  started,    \* the stored log has a turn/start
  recorded,   \* feedback/record events in the stored log
  acked,      \* the owner's one feedback entry was answered: it is not sent again
  agent,      \* the registered agent, or none
  isResident, \* residentAgents holds it
  opener,     \* the call that resumes the agent: it owns the write handle
  calls,      \* what each caller is doing
  slot,       \* mainDriving: the caller that holds the main slot
  claimed,    \* activeTurns: the caller whose turn has the session
  switching   \* presetSwitches: the caller that changes the preset

agentVars == <<row, header, started, recorded, acked, agent, isResident, opener,
               calls, slot, claimed, switching>>

NoAgent == [live |-> FALSE, composed |-> DefaultPreset, header |-> DefaultPreset,
            began |-> FALSE, unsaved |-> <<>>]
Idle == [kind |-> "none", step |-> "idle", preset |-> DefaultPreset]
sessionAgentPreset(p) == IF p \in OfferedPresets THEN p ELSE DefaultPreset

AgentsInit ==
  /\ row = "none" /\ header = DefaultPreset /\ started = FALSE
  /\ recorded = 0 /\ acked = FALSE
  /\ agent = NoAgent /\ isResident = FALSE
  /\ calls = [c \in Clients |-> Idle]
  /\ opener = NoClient /\ slot = NoClient /\ claimed = NoClient /\ switching = NoClient

durable == <<row, header, started, recorded>>
owners == <<slot, claimed, switching>>

Goes(c, step) == calls' = [calls EXCEPT ![c].step = step]
\* The call answers, well or not: it gives back whatever it held.
Ends(c) ==
  /\ calls' = [calls EXCEPT ![c] = Idle]
  /\ slot' = IF slot = c THEN NoClient ELSE slot
  /\ claimed' = IF claimed = c THEN NoClient ELSE claimed
  /\ switching' = IF switching = c THEN NoClient ELSE switching
Begins(c, kind, step, p) ==
  calls[c] = Idle /\ calls' = [calls EXCEPT ![c] = [kind |-> kind, step |-> step, preset |-> p]]

----------------------------------------
\* Retained and materialized in two storage calls, a restart between them
\* leaving the first; an existing session keeps its header.
createBlankSession(p) ==
  /\ row = "none" /\ p \in OfferedPresets
  /\ row' \in {"blank", "stored"} /\ header' = p
  /\ UNCHANGED <<started, recorded, acked, agent, isResident, opener, calls, owners>>

claimTurn(c) ==
  /\ slot = NoClient /\ claimed = NoClient /\ row # "none"
  /\ Begins(c, "turn", "wait", DefaultPreset)
  /\ slot' = c /\ claimed' = c
  /\ UNCHANGED <<durable, acked, agent, isResident, opener, switching>>

\* A switch begun before the claim is waited for.
awaitSwitch(c) == switching = NoClient

claimOpens(c) ==
  /\ calls[c].kind = "turn" /\ calls[c].step = "wait" /\ awaitSwitch(c)
  /\ Goes(c, "open")
  /\ UNCHANGED <<durable, acked, agent, isResident, opener, owners>>

withAgentControl(c) ==
  /\ slot = NoClient /\ claimed = NoClient
  /\ \E kind \in {"control"} \cup (IF acked THEN {} ELSE {"feedback"}) :
       Begins(c, kind, "open", DefaultPreset)
  /\ slot' = c
  /\ UNCHANGED <<durable, acked, agent, isResident, opener, claimed, switching>>

\* A live agent's title is appended where it is; a cold one is opened.
renameSession(c) ==
  /\ ~agent.live /\ Begins(c, "rename", "open", DefaultPreset)
  /\ UNCHANGED <<durable, acked, agent, isResident, opener, owners>>

\* A claimed turn owns its session, and one switch runs at a time.
selectAgentPreset(c, p) ==
  /\ claimed = NoClient /\ switching = NoClient /\ p \in OfferedPresets
  /\ Begins(c, "switch", "open", p)
  /\ switching' = c
  /\ UNCHANGED <<durable, acked, agent, isResident, opener, slot, claimed>>

----------------------------------------
\* The resident agent, or a resume: refused while another call owns the
\* session's agent or its write handle.
getOrResumeAgent(c) ==
  /\ calls[c].step = "open"
  /\ IF isResident THEN Goes(c, "opened") /\ UNCHANGED <<row, opener, owners>>
     ELSE IF agent.live \/ opener # NoClient \/ row = "none"
          THEN Ends(c) /\ UNCHANGED <<row, opener>>
          ELSE /\ opener' = c /\ row' = "stored" /\ Goes(c, "resuming")
               /\ UNCHANGED owners
  /\ UNCHANGED <<header, started, recorded, acked, agent, isResident>>

\* Composed from the durable header before it is published.
composeAgent(c) ==
  /\ calls[c].step = "resuming"
  /\ agent' = [live |-> TRUE, composed |-> sessionAgentPreset(header), header |-> header,
               began |-> started, unsaved |-> <<>>]
  /\ Goes(c, "saving")
  /\ UNCHANGED <<durable, acked, isResident, opener, owners>>

Stores(events) ==
  LET picks == {i \in DOMAIN events : events[i] \in Presets} IN
  /\ header' = IF picks = {} THEN header ELSE events[Max(picks)]
  /\ started' = (started \/ "turn/start" \in Range(events))
  /\ recorded' = recorded + Len(SelectSeq(events, LAMBDA e : e = "feedback"))
Saved(a) == [a EXCEPT !.unsaved = <<>>]
Wrote(a, e) == [a EXCEPT !.unsaved = Append(@, e)]

\* The write handle is kept by the agent from here on.
resumeEnds(c) ==
  /\ \/ /\ calls[c].step = "saving"
        /\ isResident' = TRUE /\ agent' = Saved(agent) /\ Stores(agent.unsaved)
        /\ Goes(c, "opened") /\ UNCHANGED owners
     \/ /\ calls[c].step \in {"resuming", "saving"}             \* rolled back
        /\ agent' = NoAgent /\ Ends(c)
        /\ UNCHANGED <<header, started, recorded, isResident>>
  /\ opener' = NoClient
  /\ UNCHANGED <<row, acked>>

\* Write-behind: whatever the agent holds reaches storage in order.
drainWrites ==
  /\ isResident /\ agent.unsaved # <<>>
  /\ agent' = Saved(agent) /\ Stores(agent.unsaved)
  /\ UNCHANGED <<row, acked, isResident, opener, calls, owners>>

Opened(c, kind) == calls[c].kind = kind /\ calls[c].step = "opened"
Room == Len(agent.unsaved) < MaxAppended

turnStarts(c) ==
  /\ Opened(c, "turn") /\ Room
  /\ agent' = [Wrote(agent, "turn/start") EXCEPT !.began = TRUE]
  /\ Goes(c, "running")
  /\ UNCHANGED <<durable, acked, isResident, opener, owners>>

\* The turn closes, the command answers, the title is appended.
callEnds(c) ==
  /\ calls[c].step = "running" \/ Opened(c, "control") \/ Opened(c, "rename")
  /\ Ends(c)
  /\ UNCHANGED <<durable, acked, agent, isResident, opener>>

\* The latest feedback/record is this entry and is not saved yet.
hasUnsavedFeedback == "feedback" \in Range(agent.unsaved)

recordSessionFeedback(c) ==
  /\ Opened(c, "feedback")
  /\ IF hasUnsavedFeedback THEN UNCHANGED agent
     ELSE agent.live /\ Room /\ recorded < MaxRecorded /\ agent' = Wrote(agent, "feedback")
  /\ Goes(c, "flushing")
  /\ UNCHANGED <<durable, acked, isResident, opener, owners>>

feedbackSaved(c) ==
  /\ calls[c].kind = "feedback" /\ calls[c].step = "flushing"
  /\ \/ acked' = TRUE /\ Stores(agent.unsaved) /\ agent' = Saved(agent)
     \/ /\ agent.unsaved # <<>>                                 \* the save failed
        /\ UNCHANGED <<acked, header, started, recorded, agent>>
  /\ Ends(c)
  /\ UNCHANGED <<row, isResident, opener>>

\* Not once the log the agent holds has a turn.
pickIfBlank == ~agent.began

presetChecked(c) ==
  /\ Opened(c, "switch")
  /\ IF pickIfBlank /\ agent.header # calls[c].preset
     THEN /\ Room /\ agent' = Wrote(agent, calls[c].preset)
          /\ Goes(c, "flushing") /\ UNCHANGED owners
     ELSE Ends(c) /\ UNCHANGED agent
  /\ UNCHANGED <<durable, acked, isResident, opener>>

\* A failed flush is reported and nothing is released; the event stays queued.
presetFlushed(c) ==
  /\ calls[c].kind = "switch" /\ calls[c].step = "flushing"
  /\ \/ /\ Stores(agent.unsaved) /\ agent' = Saved(agent)
        /\ isResident' = FALSE /\ Goes(c, "disposing") /\ UNCHANGED owners
     \/ /\ agent.unsaved # <<>> /\ Ends(c)
        /\ UNCHANGED <<header, started, recorded, agent, isResident>>
  /\ UNCHANGED <<row, acked, opener>>

\* Closing stores what is left; a teardown that fails is not reported.
disposeResidentAgent(c) ==
  /\ calls[c].step = "disposing"
  /\ \/ agent' = NoAgent /\ Stores(agent.unsaved)
     \/ UNCHANGED <<agent, header, started, recorded>>
  /\ Ends(c)
  /\ UNCHANGED <<row, acked, isResident, opener>>

evict ==
  /\ calls # [c \in Clients |-> Idle] \/ agent.live
  /\ agent' = NoAgent /\ isResident' = FALSE /\ opener' = NoClient
  /\ calls' = [c \in Clients |-> Idle]
  /\ slot' = NoClient /\ claimed' = NoClient /\ switching' = NoClient
  /\ UNCHANGED <<durable, acked>>

AgentsNext ==
  \/ drainWrites \/ evict
  \/ \E p \in Presets : createBlankSession(p) \/ \E c \in Clients : selectAgentPreset(c, p)
  \/ \E c \in Clients :
       \/ claimTurn(c) \/ claimOpens(c) \/ withAgentControl(c) \/ renameSession(c)
       \/ getOrResumeAgent(c) \/ composeAgent(c) \/ resumeEnds(c)
       \/ turnStarts(c) \/ callEnds(c) \/ recordSessionFeedback(c) \/ feedbackSaved(c)
       \/ presetChecked(c) \/ presetFlushed(c) \/ disposeResidentAgent(c)

----------------------------------------
(* A running turn keeps the agent it opened: no preset switch, whenever it   *)
(* was asked for, disposes the agent under it (instance.ts:2169).            *)
TurnKeepsItsAgent ==
  \A c \in Clients : calls[c].kind = "turn" /\ calls[c].step \in {"opened", "running"}
                       => isResident /\ agent.live

\* Both, of what a session runs on: the acknowledged choice of a model stays in
\* force through turns, retries and restarts, and a turn keeps the agent it
\* started with (session-store.ts, model-selection-bridge.ts, instance.ts).
ChoicesHold == ChoiceIsInForce /\ TurnKeepsItsAgent

(* Once the stored log has a turn, the durable header names the same preset  *)
(* for ever (session-store.ts:2471).                                         *)
PresetIsFixed == [][started => header' = header]_agentVars

(* The entry is recorded once however often its call failed and was retried  *)
(* ("Record session feedback durably and idempotently",                      *)
(* session-store.ts:2418).                                                   *)
FeedbackRecordedOnce == recorded <= 1

(* A turn runs on an agent composed from the preset the durable header names *)
(* ("A session runs the preset its durable header names",                    *)
(* agent-presets.ts:9).                                                      *)
SessionRunsItsHeader ==
  \A c \in Clients : calls[c].kind = "turn" /\ calls[c].step = "running"
                       => agent.composed = sessionAgentPreset(header)
=============================================================================
