---------------------------- MODULE ModelChoice ----------------------------
(***************************************************************************)
(* The model a session runs on, and the images it may hold.                *)
(* A choice lives in three places: the bridge (Durable Object storage and  *)
(* its process cache, model-selection-bridge.ts), the agent's own pending  *)
(* selection (a log event) and the last request header in the log.  Image  *)
(* prompts and model selections of one session take turns on a promise     *)
(* chain (edge-api.ts:164); text prompts do not wait there.  One session,  *)
(* its main queue reduced to the number of image prompts waiting in it.    *)
(***************************************************************************)
EXTENDS Naturals, Sequences, FiniteSets

CONSTANTS Models, VisionModels, DefaultModel, NoModel,
          MaxHeld,     \* operations on the chain at once
          MaxWaiting   \* image prompts in the main queue
ASSUME ModelsAssumption == NoModel \notin Models /\ DefaultModel \in Models

VARIABLES
  chain,     \* image mutations of the session: the head runs, the rest wait
  savedPick,    \* the bridge's durable value
  cached,    \* its process cache
  noted,     \* the log's model/selection not yet followed by a request header
  requested,    \* the model of the latest request header in the log
  picked,    \* the instance default: the latest pick of any session
  resident,  \* an agent of the session is live
  turn,      \* "idle", "open", "asked", "retiring"
  waiting,   \* image prompts in the main queue
  images,    \* the log or the agent's inbox holds an image
  sent,      \* the latest model request: its model, and whether images went along
  inForce    \* the last acknowledged choice and every unacknowledged one since

choiceVars == <<chain, savedPick, cached, noted, requested, picked, resident, turn,
                waiting, images, sent, inForce>>

ChoiceInit ==
  /\ chain = <<>> /\ resident = FALSE /\ turn = "idle"
  /\ savedPick = NoModel /\ cached = NoModel /\ noted = NoModel /\ requested = NoModel
  /\ picked = DefaultModel /\ inForce = {DefaultModel}
  /\ waiting = 0 /\ images = FALSE
  /\ sent = [model |-> NoModel, images |-> FALSE]

Bridged == IF cached # NoModel THEN cached ELSE savedPick
Fallback == IF requested # NoModel THEN requested ELSE picked

\* What admission reads: agent pending, then the bridge, then log, then default.
agentPending == IF resident THEN noted ELSE NoModel
modelSelection == CASE agentPending # NoModel -> agentPending
                    [] Bridged # NoModel -> Bridged
                    [] OTHER -> Fallback

\* What the agent's next request reads: the cache alone, then the log.
current == IF cached # NoModel THEN cached ELSE Fallback

modelSupportsImages == modelSelection \in VisionModels

----------------------------------------
MyTurn(i) == i = 1      \* an operation starts once its predecessor settled

Leaves(i) == chain' = [j \in 1 .. Len(chain) - 1 |-> chain[IF j < i THEN j ELSE j + 1]]
MovesTo(i, step) == chain' = [chain EXCEPT ![i].step = step]
At(i, kind, step) == MyTurn(i) /\ chain[i].kind = kind /\ chain[i].step = step

serializeImageMutation ==
  /\ Len(chain) < MaxHeld
  /\ \E op \in {[kind |-> "select", model |-> m, step |-> "check"] : m \in Models}
               \cup {[kind |-> "prompt", model |-> NoModel, step |-> "check"]} :
       chain' = Append(chain, op)
  /\ UNCHANGED <<savedPick, cached, noted, requested, picked, resident, turn, waiting,
                 images, sent, inForce>>

\* Only the log and the agent's inbox are searched, not the main queue.
sessionContainsImages == images

\* Resolving the model may refuse it; so do images it cannot read.
selectChecked(i) ==
  /\ At(i, "select", "check")
  /\ \/ Leaves(i)
     \/ /\ chain[i].model \in VisionModels \/ ~sessionContainsImages
        /\ MovesTo(i, "save")
  /\ UNCHANGED <<savedPick, cached, noted, requested, picked, resident, turn, waiting,
                 images, sent, inForce>>

\* The bridge first; the instance default as well, on a best effort.
save(i) ==
  /\ At(i, "select", "save")
  /\ \/ /\ Leaves(i)                                   \* the put failed
        /\ UNCHANGED <<savedPick, cached, picked, inForce>>
     \/ LET m == chain[i].model IN
        /\ savedPick' = m /\ cached' = m
        /\ picked' \in {picked, m}
        /\ inForce' = inForce \cup {m}
        /\ MovesTo(i, "publish")
  /\ UNCHANGED <<noted, requested, resident, turn, waiting, images, sent>>

\* A live session appends the choice and flushes; a cold one is opened for
\* writing, prepared, appended to and detached.  Either may fail after the
\* bridge has the choice, with or without the event in the live log.
publish(i) ==
  /\ At(i, "select", "publish")
  /\ \/ noted' = chain[i].model /\ inForce' = {chain[i].model}
     \/ noted' \in {noted, IF resident THEN chain[i].model ELSE noted}
        /\ UNCHANGED inForce
  /\ Leaves(i)
  /\ UNCHANGED <<savedPick, cached, requested, picked, resident, turn, waiting, images,
                 sent>>

promptChecked(i) ==
  /\ At(i, "prompt", "check")
  /\ cached' = Bridged                                 \* modelSelection loads it
  /\ IF modelSupportsImages THEN MovesTo(i, "admit") ELSE Leaves(i)
  /\ UNCHANGED <<savedPick, noted, requested, picked, resident, turn, waiting, images,
                 sent, inForce>>

\* The images are stored and the prompt reaches the queue, steers the running
\* turn, or is refused (image store, full queue, ended turn).
promptAdmitted(i) ==
  /\ At(i, "prompt", "admit")
  /\ Leaves(i)
  /\ \/ UNCHANGED <<waiting, images>>
     \/ waiting < MaxWaiting /\ waiting' = waiting + 1 /\ UNCHANGED images
     \/ turn \in {"open", "asked"} /\ images' = TRUE /\ UNCHANGED waiting
  /\ UNCHANGED <<savedPick, cached, noted, requested, picked, resident, turn, sent,
                 inForce>>

----------------------------------------
\* The driver claims a turn for the head of the queue; opening the agent
\* hydrates the cache.  A text prompt's turn stages no image.
resumeAgent ==
  /\ turn = "idle"
  /\ turn' = "open" /\ resident' = TRUE /\ cached' = Bridged
  /\ \/ waiting > 0 /\ waiting' = waiting - 1 /\ images' = TRUE
     \/ UNCHANGED <<waiting, images>>
  /\ UNCHANGED <<chain, savedPick, noted, requested, picked, sent, inForce>>

request ==
  /\ turn \in {"open", "asked"}
  /\ turn' = "asked"
  /\ requested' = current /\ noted' = NoModel
  /\ sent' = [model |-> current, images |-> images]
  /\ UNCHANGED <<chain, savedPick, cached, picked, resident, waiting, images, inForce>>

\* After the turn the bridge gives way to the log, unless a newer choice is in it.
clearBlindly(logged) == savedPick' = NoModel /\ turn' = "retiring"
clearIfLogged(logged) ==
  IF savedPick \in {NoModel, logged} THEN savedPick' = NoModel /\ turn' = "retiring"
                                  ELSE UNCHANGED savedPick /\ turn' = "idle"

endTurn ==
  /\ turn \in {"open", "asked"}
  /\ IF requested = NoModel THEN turn' = "idle" /\ UNCHANGED savedPick
                         ELSE \/ clearIfLogged(requested)
                              \/ turn' = "idle" /\ UNCHANGED savedPick    \* it failed
  /\ UNCHANGED <<chain, cached, noted, requested, picked, resident, waiting, images,
                 sent, inForce>>

retireCached ==
  /\ turn = "retiring" /\ turn' = "idle"
  /\ cached' = IF cached = requested THEN NoModel ELSE cached
  /\ UNCHANGED <<chain, savedPick, noted, requested, picked, resident, waiting, images,
                 sent, inForce>>

evictBridge ==
  /\ resident \/ cached # NoModel \/ chain # <<>>
  /\ chain' = <<>> /\ cached' = NoModel /\ resident' = FALSE /\ turn' = "idle"
  /\ UNCHANGED <<savedPick, noted, requested, picked, waiting, images, sent, inForce>>

ChoiceNext ==
  \/ serializeImageMutation
  \/ \E i \in DOMAIN chain : \/ selectChecked(i) \/ save(i) \/ publish(i)
                             \/ promptChecked(i) \/ promptAdmitted(i)
  \/ resumeAgent \/ request \/ endTurn \/ retireCached \/ evictBridge

----------------------------------------
(* What admission reads and what a turn's next request will use is the last  *)
(* acknowledged choice, or one made since whose answer was lost: no retiring *)
(* turn, eviction or failed publication brings an older choice back          *)
(* (model-selection-bridge.ts:46, session-store.ts:1785).                    *)
ChoiceIsInForce ==
  /\ modelSelection \in inForce
  /\ turn \in {"open", "asked"} => current \in inForce

(* An image prompt is taken only while the choice in force reads images: a   *)
(* selection made at the same time comes wholly before or after it           *)
(* (edge-api.ts:164).                                                        *)
ImagesMeetTheirModel ==
  [][(waiting' > waiting \/ (images' /\ ~images /\ waiting' = waiting))
       /\ Cardinality(inForce) = 1
     => inForce \subseteq VisionModels]_choiceVars

(* No request carries images to a model that does not take them, which is    *)
(* what refusing the selection of such a model is for ("does not accept      *)
(* image input, but this session already contains images",                  *)
(* session-store.ts:1824).                                                   *)
RequestsSuitTheirImages == sent.images => sent.model \in VisionModels
=============================================================================
