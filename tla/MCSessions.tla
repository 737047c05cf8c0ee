------------------------------ MODULE MCSessions ------------------------------
(***************************************************************************)
(* What a session keeps, one component per behaviour: the delivery of its  *)
(* events, its model and its images, its preset and its agent, the pages   *)
(* of its log, lists and searches over all sessions, the migration of old  *)
(* logs, the receipts of uploads and the stored images.                    *)
(***************************************************************************)
EXTENDS SessionDelivery, SessionAgents, SessionDirectory, EventPages,
        FormatMigration, UploadReceipts, ImageStore, TLC

CONSTANTS late, t1, t2, t3

VARIABLE subject  \* the component that acts

deliveryState == <<barrierVars, deliveryVars>>
mcVars == <<deliveryState, choiceVars, agentVars, directoryVars, pageVars,
            migrationVars, receiptVars, imageVars, subject>>

\* The same two names stand for two turns, two clients, two uploads and two
\* messages with images.
MCSymmetry == Permutations({t1, t2})

Limit(n, b) == [events |-> n, bytes |-> b]
MCScan    == Limit(2, 4)
MCHistory == Limit(4, 6)
MCFork    == Limit(4, 6)
MCWindow  == Limit(2, 3)

\* Logs of the old format: none of it, a run of chunks, one event, a row that
\* does not parse, and a run between other events.
MCOldLogs == {<<"plain">>, <<"old", "chunk", "chunk">>, <<"old">>, <<"bad">>,
              <<"plain", "old", "chunk", "plain">>}
MCNewLogs == {<<"plain", "new">>}

\* Two images of the same encoded bytes, two that are turned, one so narrow that
\* rounding changes its shape, one whose media type is not what was declared,
\* and an animated type.
Picture(i, declared, type, w, h, size, o, alpha, encoded) ==
    [id |-> <<i>>, header |-> TRUE, mediaType |-> type, declared |-> declared,
     width |-> w, height |-> h, bytes |-> size, orientation |-> o,
     hasAlpha |-> alpha, decodes |-> TRUE, encoded |-> encoded]
Small  == Picture("small", "png", "png", 300, 240, 3, 1, TRUE, <<3, 2, 1>>)
Twin   == Picture("twin", "jpeg", "jpeg", 300, 300, 5, 1, FALSE, <<3, 2, 1>>)
Turned == Picture("turned", "jpeg", "jpeg", 800, 500, 6, 6, FALSE, <<9, 6, 5>>)
Narrow == Picture("narrow", "jpeg", "jpeg", 800, 8, 2, 8, FALSE, <<1, 1, 1>>)
Odd    == Picture("odd", "jpeg", "png", 100, 80, 4, 1, TRUE, <<9, 8, 7>>)
Moving == Picture("gif", "gif", "gif", 100, 80, 4, 1, TRUE, <<9, 8, 7>>)
MCMessages == {<<Small, Twin>>, <<Turned, Narrow>>, <<Twin, Odd>>, <<Moving, Small>>}
MCR2Limits ==
    [mediaTypes |-> {"png", "jpeg"}, maxImageBytes |-> 5,
     maxImagePixels |-> 250000, maxImageDimension |-> 600]
MCOptimizedLimits ==
    [mediaTypes |-> {"png", "jpeg", "webp", "gif"}, maxImageBytes |-> 7,
     maxImagePixels |-> 500000, maxImageDimension |-> 1000]
MCPolicy == [maxPixels |-> 160000, maxDimension |-> 1000, maxBytes |-> 6]

MCInit ==
    /\ subject \in {"delivery", "choice", "agents", "directory", "pages", "migration", "receipts",
                   "images"}
    /\ Init /\ ChoiceInit /\ AgentsInit /\ DirectoryInit /\ PageInit /\ MigrationInit
    /\ ReceiptInit /\ ImageInit

MCNext ==
    \/ /\ subject = "delivery" /\ Next
       /\ UNCHANGED <<subject, choiceVars, agentVars, directoryVars, pageVars, migrationVars,
                      receiptVars, imageVars>>
    \/ /\ subject = "choice" /\ ChoiceNext
       /\ UNCHANGED <<subject, deliveryState, agentVars, directoryVars, pageVars, migrationVars,
                      receiptVars, imageVars>>
    \/ /\ subject = "agents" /\ AgentsNext
       /\ UNCHANGED <<subject, deliveryState, choiceVars, directoryVars, pageVars, migrationVars,
                      receiptVars, imageVars>>
    \/ /\ subject = "directory" /\ DirectoryNext
       /\ UNCHANGED <<subject, deliveryState, choiceVars, agentVars, pageVars, migrationVars,
                      receiptVars, imageVars>>
    \/ /\ subject = "pages" /\ PageNext
       /\ UNCHANGED <<subject, deliveryState, choiceVars, agentVars, directoryVars, migrationVars,
                      receiptVars, imageVars>>
    \/ /\ subject = "migration" /\ MigrationNext
       /\ UNCHANGED <<subject, deliveryState, choiceVars, agentVars, directoryVars, pageVars,
                      receiptVars, imageVars>>
    \/ /\ subject = "receipts" /\ ReceiptNext
       /\ UNCHANGED <<subject, deliveryState, choiceVars, agentVars, directoryVars, pageVars,
                      migrationVars, imageVars>>
    \/ /\ subject = "images" /\ ImageNext
       /\ UNCHANGED <<subject, deliveryState, choiceVars, agentVars, directoryVars, pageVars,
                      migrationVars, receiptVars>>

MCSpec == MCInit /\ [][MCNext]_mcVars

----------------------------------------
\* DeliveryIsOrdered and VisibleIsStored are SessionDelivery's, ChoicesHold is
\* SessionAgents'.

\* What is read is what was stored: pages of a log join without a gap or a
\* repetition, a cold fork is the live one, and a reference to an image that was
\* handed out can be read for good (do-session-persistence.ts, session-store.ts,
\* edge-attachment-store.ts).
ReadsAreExact ==
    /\ subject = "pages" => HistoryPagesJoin /\ ColdForkIsTheLiveFork /\ WindowIsAroundItsEvent
    /\ subject = "images" => StoredBytesExact /\ ReferencesStay

\* What is stored is found: a start that succeeds can read every log it has, the
\* list shows every session, a search says when it left something out, and
\* uploads live until a message used them or they expired
\* (do-session-persistence.ts, session-store.ts, edge-file-uploads.ts).
NothingStoredIsLost ==
    /\ subject = "migration" => StartedMeansReadable
    /\ subject = "directory" => ListingIsComplete /\ SearchIsHonest
    /\ subject = "receipts" => ReceiptsKept

\* What a step may not do: give images to a model that was not theirs, change
\* the preset of a started session, lose an event while packing, replaying or
\* upgrading a log.
StepsKeepTheRecord ==
    /\ ImagesMeetTheirModel /\ PresetIsFixed
    /\ PackingLosesNothing /\ ReplayFollowsTheLog /\ LogsSurviveUpgrades
===============================================================================
