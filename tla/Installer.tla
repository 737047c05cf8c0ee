----------------------------- MODULE Installer -----------------------------
(***************************************************************************)
(* scripts/install.mjs and scripts/activation.mjs: the guided installer.   *)
(* Several installers may run against one account and one Worker name: the *)
(* Worker is inspected, questions are asked, Wrangler uploads, and the     *)
(* public URL is observed, with an await between any two of these.  The    *)
(* cloud (Cloudflare, Wrangler) is external: versions with a runtime mode, *)
(* an attachment backend and the access key that signs in to them.  A      *)
(* version is named by the installer that uploaded it, and so is a key;    *)
(* Nobody stands for the release that was there before.                    *)
(*                                                                         *)
(* Abstracted: prompt wording, process environments and argument lists,    *)
(* the terminal filter and the child's output forwarding (the deploy call  *)
(* forwards nothing), process-group signalling.                            *)
(***************************************************************************)
EXTENDS Naturals, FiniteSets, Sequences

CONSTANTS Installers,     \* the runs of `dsh-edge install|upgrade`
          Nobody,         \* the uploader and key of what was there before
          FirstVersions,  \* the sets of versions active before any run
          Foreign,        \* a version whose Worker is not dsh-edge
          MaxAttempts     \* activation attempts that fit in ACTIVATION_WAIT_MS

VARIABLES active,   \* the Worker's active versions; {} when there is no Worker
          serving,  \* the versions the public URL may still answer from
          bucket,   \* whether the Worker's private R2 bucket exists
          setup     \* the state of each installer

installVars == <<active, serving, bucket, setup>>

Modes == {"direct", "isolated", "container"}

Commands == {"install", "upgrade"}

\* What the account lists: a version without a known mode or backend is not
\* an installed dsh-edge.
WorkerVersions ==
  [by : Installers \cup {Nobody}, mode : Modes \cup {"none"},
   storage : {"private-r2", "temporary-do", "none"}, key : Installers \cup {Nobody}]
ASSUME VersionsAssumption == \A versions \in FirstVersions : versions \subseteq WorkerVersions

Idle == [pc |-> "accounts", command |-> "install", temporary |-> FALSE,
         existing |-> {}, update |-> "none", mode |-> "direct",
         newKey |-> FALSE, files |-> {}, told |-> FALSE, warned |-> FALSE,
         uploaded |-> FALSE, exit |-> "none", aborted |-> FALSE,
         failed |-> FALSE, attempts |-> 0,
         activation |-> "none", readyFrom |-> {}]

InstallInit == /\ active \in FirstVersions
               /\ serving = active
               /\ bucket \in BOOLEAN
               /\ setup \in [Installers ->
                               {[Idle EXCEPT !.command = c] : c \in Commands}]

\* Updating one installer's state.  `Fails` is an exception: control goes
\* to the handling at the end of installEdge.
At(i, pc)   == setup[i].pc = pc
Set(i, new) == setup' = [setup EXCEPT ![i] = new]
Fails(s)    == [s EXCEPT !.pc = "closing", !.failed = TRUE]
Cloud       == <<active, serving, bucket>>

\* Every call to Wrangler and every prompt before the upload can throw: the
\* command fails, or the signal is aborted (executeWrangler, requireAnswer).
Waiting == {"accounts", "name", "inspect", "update", "mode", "confirm",
            "bucket", "write", "upload"}

Throws(i) == /\ setup[i].pc \in Waiting
             /\ Set(i, Fails(setup[i]))
             /\ UNCHANGED Cloud

\* Ctrl-C: the signal is aborted; what notices it comes later.
Abort(i) == /\ setup[i].pc # "ended" /\ ~setup[i].aborted
            /\ Set(i, [setup[i] EXCEPT !.aborted = TRUE])
            /\ UNCHANGED Cloud

\* detectAccounts, the choice, and a sign-in when it is asked for: a temporary
\* account is offered to `install` only.
accountChoices(command) ==
  {"account", "login"} \cup (IF command = "install" THEN {"temporary"} ELSE {})

selectAccount(i) ==
  /\ At(i, "accounts")
  /\ \E choice \in accountChoices(setup[i].command) :
       Set(i, [setup[i] EXCEPT !.temporary = choice = "temporary",
                               !.pc = "name"])
  /\ UNCHANGED Cloud

\* The Worker name is checked, except in a temporary account, which is new.
parseWorkerExistence(i) ==
  LET s == setup[i] IN
  /\ At(i, "name")
  /\ Set(i, CASE s.temporary  -> [s EXCEPT !.pc = "mode"]
              [] active # {}  -> [s EXCEPT !.pc = "inspect"]
              [] OTHER        -> IF s.command = "upgrade" THEN Fails(s)
                                 ELSE [s EXCEPT !.pc = "mode"])
  /\ UNCHANGED Cloud

\* A mutant of Agree: the backends of a rollout are not compared.
AgreeOnMode(versions) == Cardinality({v.mode : v \in versions}) = 1

Agree(versions) == /\ Cardinality({v.mode : v \in versions}) = 1
                   /\ Cardinality({v.storage : v \in versions}) = 1

\* The active versions are read once; a rollout between different modes or
\* backends is refused, and a Worker that is not dsh-edge is never updated.
inspectExistingDeployment(i) ==
  LET s == setup[i]
      foreign == Foreign \in active
  IN /\ At(i, "inspect")
     /\ Set(i, IF \/ active = {}
                  \/ foreign /\ s.command = "upgrade"
                  \/ ~foreign /\ ~Agree(active)
               THEN Fails(s)
               ELSE [s EXCEPT !.pc = "update",
                              !.existing = IF foreign THEN {}
                                           ELSE {CHOOSE v \in active : TRUE}])
     /\ UNCHANGED Cloud

\* nameTaken offers another name or the end; existingWorker an update too.
existingWorker(i) ==
  LET s == setup[i] IN
  /\ At(i, "update")
  /\ \E action \in {"rename", "cancel"} \cup
                   (IF s.existing = {} THEN {}
                    ELSE {"update", "change", "reset-key"}) :
       Set(i, CASE action = "cancel" -> Fails(s)
                [] action = "rename" ->
                     [s EXCEPT !.pc = "name", !.existing = {}, !.update = action]
                [] OTHER -> [s EXCEPT !.pc = "mode", !.update = action])
  /\ UNCHANGED Cloud

\* chooseChangedMode asks again until nothing is lost or the loss is accepted,
\* so any mode may be chosen; an update keeps the mode it inspected.
chooseMode(i) ==
  LET s == setup[i]
      existing == CHOOSE v \in s.existing : TRUE
      choices == CASE s.existing # {} /\ s.update = "change" -> Modes
                   [] s.existing # {} -> {existing.mode}
                   [] s.temporary     -> {"direct"}
                   [] OTHER           -> Modes
  IN /\ At(i, "mode")
     /\ \E mode \in choices :
          Set(i, [s EXCEPT !.mode = mode, !.pc = "confirm",
                           !.newKey = s.existing = {} \/ s.update = "reset-key"])
     /\ UNCHANGED Cloud

StorageOf(s) == IF s.existing = {} THEN "temporary-do"
                ELSE (CHOOSE v \in s.existing : TRUE).storage

confirm(i) == /\ At(i, "confirm")
              /\ Set(i, [setup[i] EXCEPT !.pc =
                           IF StorageOf(setup[i]) = "private-r2"
                           THEN "bucket" ELSE "write"])
              /\ UNCHANGED Cloud

\* ensureR2Bucket: info, then create, then info again for a lost race; while
\* the account has no R2 subscription the owner may retry (this step waits).
prepareR2Bucket(i) == /\ At(i, "bucket")
                      /\ bucket' = TRUE
                      /\ Set(i, [setup[i] EXCEPT !.pc = "write"])
                      /\ UNCHANGED <<active, serving>>

\* The private directory holds the secrets file only for a new access key.
writeFiles(i) ==
  LET s == setup[i]
  IN /\ At(i, "write")
     /\ Set(i, [s EXCEPT !.pc = "upload",
                  !.files = {"directory"} \cup (IF s.newKey THEN {"secrets"} ELSE {})])
     /\ UNCHANGED Cloud

\* wrangler deploy.  The upload takes effect at some time before the
\* process ends; a temporary account's Worker is another one.
KeyOf(i) == IF setup[i].newKey \/ active = {} THEN i
            ELSE (CHOOSE v \in active : TRUE).key

NewVersion(i) == [by |-> i, mode |-> setup[i].mode,
                  storage |-> StorageOf(setup[i]), key |-> KeyOf(i)]

wranglerUploads(i) ==
  /\ At(i, "upload") /\ ~setup[i].uploaded
  /\ Set(i, [setup[i] EXCEPT !.uploaded = TRUE])
  /\ IF setup[i].temporary
     THEN UNCHANGED <<active, serving>>
     ELSE active' = {NewVersion(i)} /\ serving' = serving \cup {NewVersion(i)}
  /\ UNCHANGED bucket

\* Every place comes to answer from an active version.
Propagate == /\ serving # active
             /\ serving' = active
             /\ UNCHANGED <<active, bucket, setup>>

\* resolveWranglerClose: an abort kills the process, which may have finished:
\* only an exit with status 0 tells that the upload took effect.  The secrets
\* file is removed first; that removal can fail.
wranglerCloses(i) ==
  LET s == setup[i] IN
  /\ At(i, "upload")
  /\ \E ok \in {s.uploaded, FALSE}, removed \in BOOLEAN :
       /\ ok => s.uploaded
       /\ Set(i, [s EXCEPT !.pc = "uploaded",
                           !.exit = IF ok THEN "zero" ELSE "failed",
                           !.files = IF removed THEN @ \ {"secrets"} ELSE @])
  /\ UNCHANGED Cloud

\* A mutant of wranglerUploaded: an interrupted upload is just interrupted.
forgetInterrupted(i) ==
  LET s == setup[i] IN
  /\ At(i, "uploaded")
  /\ Set(i, IF s.exit # "zero" \/ s.aborted THEN Fails(s)
            ELSE IF "secrets" \in s.files THEN [Fails(s) EXCEPT !.told = TRUE]
            ELSE [s EXCEPT !.pc = "health"])
  /\ UNCHANGED Cloud

\* After an upload that succeeded, every failure first hands the key and the
\* claim URL over (recoverUploadedWorker): the secrets file is still there,
\* the signal was aborted, or the deployment metadata cannot be read.
wranglerUploaded(i) ==
  LET s == setup[i] IN
  /\ At(i, "uploaded")
  /\ \/ /\ s.exit # "zero"
        /\ Set(i, Fails(s))
     \/ /\ s.exit = "zero"
        /\ Set(i, [Fails(s) EXCEPT !.told = TRUE])
     \/ /\ s.exit = "zero" /\ ~s.aborted /\ "secrets" \notin s.files
        /\ Set(i, [s EXCEPT !.pc = "health"])
  /\ UNCHANGED Cloud

\* observePublicActivation: each attempt reads the health of the public
\* URL, signs in with the new key, and reads the readiness of the runtime,
\* each answered by any version still served or by none.  `answer` is the
\* set of at most one version that answers.
Answers(s) == {{}} \cup {{v} : v \in IF s.temporary THEN {} ELSE serving}

isExpectedHealth(i, answer) == \E v \in answer : v.by = i

Retry(i, s) == Set(i, [s EXCEPT !.pc = "health", !.attempts = @ + 1])
Finished(i, s, status) ==
  Set(i, [s EXCEPT !.pc = "observed", !.activation = status])

observeHealth(i) ==
  LET s == setup[i] IN
  /\ At(i, "health")
  /\ IF s.attempts = MaxAttempts THEN Finished(i, s, "pending")
     ELSE \E answer \in Answers(s) :
            IF ~isExpectedHealth(i, answer) THEN Retry(i, s)
            ELSE IF s.newKey THEN Set(i, [s EXCEPT !.pc = "login"])
            ELSE Finished(i, [s EXCEPT !.readyFrom = answer], "live")
  /\ UNCHANGED Cloud

\* A version that still holds another key answers 401, which is not yet.
verifyLogin(i) ==
  LET s == setup[i] IN
  /\ At(i, "login")
  /\ \E answer \in Answers(s) :
       IF \E v \in answer : v.key = i THEN Set(i, [s EXCEPT !.pc = "ready"])
       ELSE Retry(i, s)
  /\ UNCHANGED Cloud

\* The probe cookie is valid on a version with the same key; a definite
\* failure of this version's runtime ends the observation.
verifyReady(i) ==
  LET s == setup[i] IN
  /\ At(i, "ready")
  /\ \E answer \in Answers(s), starts \in BOOLEAN :
       LET accepted == \E v \in answer : v.key = i
       IN CASE accepted /\ isExpectedHealth(i, answer) /\ starts ->
                 Finished(i, [s EXCEPT !.readyFrom = answer], "ready")
            [] accepted /\ isExpectedHealth(i, answer) /\ ~starts ->
                 Set(i, [Fails(s) EXCEPT !.told = TRUE])
            [] OTHER -> Retry(i, s)
  /\ UNCHANGED Cloud

\* An abort during the observation ends it, and the key is handed over.
observationAborted(i) ==
  /\ setup[i].pc \in {"health", "login", "ready"} /\ setup[i].aborted
  /\ Set(i, [Fails(setup[i]) EXCEPT !.told = TRUE])
  /\ UNCHANGED Cloud

\* The command that removes the stale Container application is only shown.
observed(i) == /\ At(i, "observed")
               /\ Set(i, [setup[i] EXCEPT !.pc = "closing"])
               /\ UNCHANGED Cloud

\* The end of installEdge: an abort noticed only now, before or after the
\* private directory is removed, still hands the result over; a directory
\* that cannot be removed is reported.  Then success tells the owner.
\* An ended run keeps only what it reported and left behind.
cleanUp(i) ==
  LET s == setup[i] IN
  /\ At(i, "closing")
  /\ \E removed \in BOOLEAN :
       /\ s.files = {} => removed
       /\ LET bad == s.failed \/ s.aborted \/ ~removed
          IN Set(i, [Idle EXCEPT !.pc = "ended", !.failed = bad, !.exit = s.exit,
                       !.files = IF removed THEN {} ELSE s.files,
                       !.warned = ~removed,
                       !.told = s.told \/ ~s.failed,
                       !.activation = s.activation,
                       !.readyFrom = s.readyFrom])
  /\ UNCHANGED Cloud

InstallStep(i) ==
  \/ Throws(i) \/ Abort(i) \/ selectAccount(i) \/ parseWorkerExistence(i)
  \/ inspectExistingDeployment(i) \/ existingWorker(i) \/ chooseMode(i)
  \/ confirm(i) \/ prepareR2Bucket(i) \/ writeFiles(i) \/ wranglerUploads(i)
  \/ wranglerCloses(i) \/ wranglerUploaded(i) \/ observeHealth(i)
  \/ verifyLogin(i) \/ verifyReady(i) \/ observationAborted(i)
  \/ observed(i) \/ cleanUp(i)

InstallNext == Propagate \/ \E i \in Installers : InstallStep(i)

InstallSpec == InstallInit /\ [][InstallNext]_installVars

----------------------------------------
\* An owner who was given a new key by a run whose upload succeeded
\* always learns it, and the claim URL with it, whichever of the abort,
\* the cleanup, the metadata and the activation went wrong afterwards; and
\* a secrets file that stays behind was reported.
KeyIsHandedOver ==
  \A i \in Installers : At(i, "ended") =>
    /\ setup[i].exit = "zero" => setup[i].told
    /\ "secrets" \in setup[i].files => setup[i].warned

\* "ready" and "live" are said only of the version this run uploaded:
\* answers from versions still served during the propagation, the previous
\* key's and a concurrent run's among them, never make a run report it.
ReadyMeansNew ==
  \A i \in Installers : setup[i].activation \in {"ready", "live"} =>
    \E v \in setup[i].readyFrom : v.by = i

\* The references of stored images live in one backend: no upload, whoever
\* inspected what and when, moves a Worker away from the backend of any of
\* its active dsh-edge versions.
StorageNeverMoves ==
  [][\A v \in active \ {Foreign}, w \in active' :
       w.storage = v.storage \/ w \in active]_installVars
=============================================================================
