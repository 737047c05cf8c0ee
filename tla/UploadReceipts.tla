---------------------------- MODULE UploadReceipts ----------------------------
(***************************************************************************)
(* Receipts of uploaded files (edge-file-uploads.ts) of one session, from  *)
(* the upload to the prompt that uses them: the row each receipt has, the  *)
(* registry the live Agent keeps in memory (upstream's, external), and the *)
(* prompts that bind them, which await image admission and their delivery  *)
(* before they commit or roll back (edge-api.ts).                          *)
(***************************************************************************)
EXTENDS Integers, FiniteSets, Sequences

CONSTANTS
    Receipts,
    Requests,    \* prompts, by the id their user message carries
    Retention,   \* age at which a receipt expires, in days
    ExpiredPerUpload   \* expired rows one upload deletes

ASSUME RetentionIsPositive == Retention \in Nat \ {0} /\ ExpiredPerUpload \in Nat \ {0}

VARIABLES
    uploadRow,       \* receipt -> [request, age], while its row exists
    uploaded,  \* receipts that were handed out
    agentLive,      \* the session has a live Agent
    staged,    \* the Agent's registry: receipt -> the request it is bound to
    prompt,    \* "new", "bound", "delivered", "answered", "unheld", "recorded"
               \* or "removed"; a refused prompt is new again: its client may retry
    bound,     \* prompt -> what its binding would restore, while it is open
    used,      \* receipts a recorded or removed message took
    expired    \* receipts whose rows went by their age

receiptVars == <<uploadRow, uploaded, agentLive, staged, prompt, bound, used, expired>>

Unbound == "unbound"
ASSUME RequestsAreNamed == Unbound \notin Requests
NoBinding == [rows |-> <<>>, files |-> <<>>]

ReceiptInit ==
    /\ uploadRow = <<>> /\ uploaded = {} /\ agentLive = FALSE /\ staged = <<>>
    /\ prompt = [q \in Requests |-> "new"]
    /\ bound = [q \in Requests |-> NoBinding]
    /\ used = {} /\ expired = {}

Drop(f, S) == [r \in DOMAIN f \ S |-> f[r]]
Join(f, g) == [r \in DOMAIN f \cup DOMAIN g |-> IF r \in DOMAIN g THEN g[r] ELSE f[r]]
Fresh(r) == r \in DOMAIN uploadRow /\ uploadRow[r].age < Retention
SetRequests(f) == [r \in DOMAIN uploadRow |-> IF r \in DOMAIN f THEN [uploadRow[r] EXCEPT !.request = f[r]] ELSE uploadRow[r]]

\* upload(): expired rows go, as many as one upload deletes; the new row is
\* added and upstream's registry takes the receipt when the session is live.
Expired == {r \in DOMAIN uploadRow : uploadRow[r].age >= Retention}
record(r) ==
    /\ r \notin uploaded
    /\ uploaded' = uploaded \cup {r}
    /\ \E old \in SUBSET Expired :
          /\ Cardinality(old) <= ExpiredPerUpload
          /\ Cardinality(old) = ExpiredPerUpload \/ old = Expired
          /\ uploadRow' = Join(Drop(uploadRow, old), [e \in {r} |-> [request |-> Unbound, age |-> 0]])
          /\ expired' = expired \cup old
    /\ staged' = IF agentLive THEN Join(staged, [e \in {r} |-> Unbound]) ELSE staged
    /\ UNCHANGED <<agentLive, prompt, bound, used>>

\* What resolve() finds, restoring a receipt the Agent no longer holds with the
\* binding of its row.
Resolved(r) == (agentLive /\ r \in DOMAIN staged) \/ Fresh(r)
Restored(S) ==
    Join([r \in {e \in S : Fresh(e)} |-> uploadRow[r].request], staged)

\* bindPromptFiles(): with a live Agent its registry and the rows are bound, else
\* the rows alone.  A failed write leaves neither bound.
bindPromptFiles(q, S) ==
    /\ prompt[q] = "new" /\ S # {} /\ \A r \in S : Resolved(r)
    /\ prompt' = [prompt EXCEPT ![q] = "bound"]
    /\ bound' = [bound EXCEPT ![q] =
                   [rows |-> [r \in S |-> IF r \in DOMAIN uploadRow THEN uploadRow[r].request ELSE Unbound],
                    files |-> IF agentLive THEN [r \in S |-> Restored(S)[r]] ELSE <<>>]]
    /\ staged' = IF agentLive THEN Join(Restored(S), [r \in S |-> q]) ELSE staged
    /\ uploadRow' = SetRequests([r \in S |-> q])
    /\ UNCHANGED <<uploaded, agentLive, used, expired>>

\* The receipts of S are resolved, and the next one is unknown or the write of
\* the rows fails: what was restored stays so, and the prompt is refused.
BindFails(q, S) ==
    /\ prompt[q] = "new" /\ S # {} /\ agentLive /\ \A r \in S : Resolved(r)
    /\ staged' = Restored(S)
    /\ UNCHANGED <<uploadRow, uploaded, agentLive, prompt, bound, used, expired>>

\* runtime.prompt() accepts the message, which is queued or recorded at once.
Delivered(q) ==
    /\ prompt[q] = "bound"
    /\ prompt' = [prompt EXCEPT ![q] = "delivered"]
    /\ UNCHANGED <<uploadRow, uploaded, agentLive, staged, bound, used, expired>>

\* commit(): the delivery returns, and nothing rolls back any more.
commit(q) ==
    /\ prompt[q] = "delivered"
    /\ prompt' = [prompt EXCEPT ![q] = "answered"]
    /\ UNCHANGED <<uploadRow, uploaded, agentLive, staged, bound, used, expired>>

\* Dispose of an uncommitted binding: what is still bound to this request gets
\* its former binding back.  The prompt is refused, or its message is queued
\* and only the rest of the delivery failed (the alarm, say).
StillBound(q) ==
    [r \in {e \in DOMAIN bound[q].rows \cap DOMAIN uploadRow : uploadRow[e].request = q} |-> bound[q].rows[r]]
dispose(q) ==
    /\ prompt[q] \in {"bound", "delivered"}
    /\ prompt' = [prompt EXCEPT ![q] = IF @ = "bound" THEN "new" ELSE "unheld"]
    /\ uploadRow' = SetRequests(StillBound(q))
    /\ staged' = Join(staged, [r \in {e \in DOMAIN bound[q].files \cap DOMAIN staged : staged[e] = q}
                                 |-> bound[q].files[r]])
    /\ bound' = [bound EXCEPT ![q] = NoBinding]
    /\ UNCHANGED <<uploaded, agentLive, used, expired>>

\* The user message is recorded (by a live Agent), or removed from the queue:
\* its receipts are spent.  The retirement of a removed message is best effort.
forget(q) ==
    LET spent == {r \in DOMAIN uploadRow : uploadRow[r].request = q}
    IN /\ uploadRow' = Drop(uploadRow, spent)
       /\ used' = used \cup spent
       /\ staged' = Drop(staged, {r \in DOMAIN staged : staged[r] = q})
Retired(q, phase) ==
    /\ prompt[q] \in {"delivered", "answered", "unheld"}
    /\ phase = "recorded" => agentLive
    /\ prompt' = [prompt EXCEPT ![q] = phase]
    /\ forget(q)
    /\ UNCHANGED <<uploaded, agentLive, bound, expired>>
RetireFails(q) ==
    /\ prompt[q] \in {"delivered", "answered", "unheld"}
    /\ prompt' = [prompt EXCEPT ![q] = "removed"]
    /\ staged' = Drop(staged, {r \in DOMAIN staged : staged[r] = q})
    /\ UNCHANGED <<uploadRow, uploaded, agentLive, bound, used, expired>>

\* The Agent is let go or resumed; its registry is as old as it is, and what an
\* open binding would restore there is gone with it.
AgentChanges ==
    /\ agentLive' = ~agentLive /\ staged' = <<>>
    /\ bound' = [q \in Requests |-> [bound[q] EXCEPT !.files = <<>>]]
    /\ UNCHANGED <<uploadRow, uploaded, prompt, used, expired>>

\* The instance is evicted: prompts under way are gone without a roll-back.
Restart ==
    /\ agentLive' = FALSE /\ staged' = <<>>
    /\ prompt' = [q \in Requests |-> IF prompt[q] = "bound" THEN "new"
                                     ELSE IF prompt[q] = "delivered" THEN "answered" ELSE prompt[q]]
    /\ bound' = [q \in Requests |-> NoBinding]
    /\ UNCHANGED <<uploadRow, uploaded, used, expired>>

Day ==
    /\ \E r \in DOMAIN uploadRow : uploadRow[r].age < Retention
    /\ uploadRow' = [r \in DOMAIN uploadRow |-> [uploadRow[r] EXCEPT !.age = IF @ < Retention THEN @ + 1 ELSE @]]
    /\ UNCHANGED <<uploaded, agentLive, staged, prompt, bound, used, expired>>

ReceiptNext ==
    \/ \E r \in Receipts : record(r)
    \/ \E q \in Requests :
         \/ \E S \in SUBSET Receipts : bindPromptFiles(q, S) \/ BindFails(q, S)
         \/ Delivered(q) \/ commit(q) \/ dispose(q) \/ RetireFails(q)
         \/ Retired(q, "recorded") \/ Retired(q, "removed")
    \/ AgentChanges \/ Restart \/ Day

ReceiptSpec == ReceiptInit /\ [][ReceiptNext]_receiptVars

----------------------------------------
\* A receipt is not lost before it was used: its row goes only by its age or
\* with a message that took it, whatever prompts bound it at once, were refused
\* or were cut off by an eviction; the live Agent offers no receipt that was
\* taken as a free one; and a prompt that waits for its message holds its
\* receipts unless another prompt took them over: no refusal sets them free.
ReceiptsKept ==
    /\ uploaded = DOMAIN uploadRow \cup used \cup expired
    /\ \A r \in DOMAIN staged \cap used : staged[r] # Unbound
    /\ \A q \in Requests : prompt[q] \in {"delivered", "answered"} =>
         \A r \in DOMAIN bound[q].rows \cap DOMAIN uploadRow : uploadRow[r].request # Unbound

\* The row is deleted when its prompt is recorded or retired.
RowGoesWithMessage ==
    \A q \in Requests, r \in DOMAIN uploadRow : uploadRow[r].request = q => prompt[q] # "recorded"
==============================================================================
