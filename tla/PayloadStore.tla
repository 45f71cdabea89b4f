---------------------------- MODULE PayloadStore ----------------------------
(***************************************************************************)
(* The write side of the bounded store: payloads are staged in several     *)
(* short transactions, then one transaction makes them visible as an asset *)
(* revision or as an owner draft; a background worker recovers interrupted *)
(* stages, executes forget decisions and reclaims payloads nobody refers   *)
(* to (internal/boundedstore: payload.go, assets.go, owner_work.go,        *)
(* owner_publish.go, forget.go, control_forget.go, maintenance.go).        *)
(*                                                                         *)
(* A database transaction is one step.  Between two transactions of one    *)
(* call every other call, the worker and a process crash may happen.       *)
(* Lexical, semantic and vector rows are left to other modules; here they  *)
(* travel with the payload or the asset they belong to.                    *)
(***************************************************************************)
EXTENDS Naturals, FiniteSets

CONSTANTS
    Asset,       \* asset identities
    Draft,       \* draft identities
    Payload,     \* payload identities (random in the code, so unordered)
    Op,          \* operation identities of connectors and owners
    Forget,      \* approved forget decisions
    Session,     \* calls in progress
    None,        \* no asset, payload, draft or operation
    MaxReceipts, \* receipts kept per operation generation (4096)
    MaxEpoch     \* bound: restarts stop once run_epoch is this large

ASSUME BoundAssumption ==
    /\ MaxReceipts \in Nat \ {0}
    /\ MaxEpoch \in Nat
    /\ None \notin Asset \cup Draft \cup Payload \cup Op
    /\ Asset \cap Draft = {}

VARIABLES
    meta,        \* store_meta and access_header counters and flags
    payloads,    \* payloads, content_chunks and staging_owners
    reclaim,     \* reclaim_jobs
    assets,      \* assets
    originals,   \* asset_originals
    drafts,      \* owner_drafts
    forgets,     \* forget_operations, forget_targets, control status
    receipts,    \* operation_receipts: the generation stored for each op
    ops,         \* client side: arguments and generation pinned for an op
    sessions,    \* calls in progress
    failed,      \* maintenanceErr is set
    settling,    \* a batch found no work, and its Maintain goes on to finishForget
    applied      \* history: how often each op changed an asset

vars == <<meta, payloads, reclaim, assets, originals, drafts, forgets,
          receipts, ops, sessions, failed, settling, applied>>

NoAsset == [rev |-> 0, payload |-> None]
NoDraft == [state |-> "none", rev |-> 0, target |-> None, trev |-> 0, payload |-> None]
NoOp    == [gen |-> 0, asset |-> None, expected |-> 0]
NoForget == [state |-> "none", control |-> "none", target |-> None]
Idle    == [pc |-> "idle", kind |-> "none", op |-> None, gen |-> 0, epoch |-> 0,
            asset |-> None, expected |-> 0, draft |-> None, drev |-> 0,
            source |-> None, payload |-> None, keep |-> FALSE]

PayloadRow == [state : {"unused", "staging", "ready", "published", "gone"},
               owner : Nat,        \* staging_owners.epoch, 0 when there is no row
               content : BOOLEAN]  \* all chunks are present

Init ==
    /\ meta = [run |-> 1, gen |-> 1, deletion |-> 0]
    /\ payloads = [p \in Payload |-> [state |-> "unused", owner |-> 0, content |-> FALSE]]
    /\ reclaim = {}
    /\ assets = [a \in Asset |-> NoAsset]
    /\ originals = [a \in Asset |-> None]
    /\ drafts = [d \in Draft |-> NoDraft]
    /\ forgets = [f \in Forget |-> NoForget]
    /\ receipts = [o \in Op |-> 0]
    /\ ops = [o \in Op |-> NoOp]
    /\ sessions = [s \in Session |-> Idle]
    /\ failed = FALSE
    /\ settling = FALSE
    /\ applied = [o \in Op |-> 0]

-----------------------------------------------------------------------------
\* A row of payloads exists.
Row(p) == payloads[p].state \in {"staging", "ready", "published"}

\* The barrier: an operation beyond 'staging' hides its target.
Forgotten(a) == \E f \in Forget : forgets[f].target = a /\ forgets[f].state # "none"

\* The view live_assets.
Live(a) == assets[a].rev > 0 /\ ~Forgotten(a)

\* access_header.stopping: some forget decision is still being recorded.
Stopping == \E f \in Forget : forgets[f].control = "stopping"

\* Mutation of Visible: the draft's target is not joined with live_assets.
VisibleDetached(d) == drafts[d].state = "live"

\* loadDraft finds a draft whose target, if any, is live.
Visible(d) ==
    /\ drafts[d].state = "live"
    /\ drafts[d].target # None => Live(drafts[d].target)

\* INSERT OR IGNORE INTO reclaim_jobs; the foreign key needs the row.
Queue(jobs, p) == IF Row(p) THEN jobs \cup {p} ELSE jobs

\* UPDATE payloads SET state='published' fires payload_stage_published.
Published(rows, p) ==
    IF rows[p].state \in {"staging", "ready", "published"}
    THEN [rows EXCEPT ![p].state = "published", ![p].owner = 0]
    ELSE rows

\* BeginForeground: whole product mutations exclude each other and the worker.
Foreground == {s \in Session : sessions[s].kind = "mutation" /\ sessions[s].pc # "idle"}

\* checkAccess: the lease still names the current deletion epoch.
Leased(s) == sessions[s].epoch = meta.deletion /\ ~Stopping

End(s) == sessions' = [sessions EXCEPT ![s] = Idle]
Goto(s, l) == sessions' = [sessions EXCEPT ![s].pc = l]

-----------------------------------------------------------------------------
(* Operation identities.                                                   *)

ReceiptsFull == Cardinality({o \in Op : receipts[o] # 0}) >= MaxReceipts

\* Mutation of OperationGeneration: the receipts go, the generation stays.
OperationGenerationKept ==
    /\ receipts' = IF ReceiptsFull THEN [o \in Op |-> 0] ELSE receipts
    /\ UNCHANGED meta

\* OperationGeneration: a full table starts a new generation.
OperationGeneration ==
    IF ReceiptsFull
    THEN /\ meta' = [meta EXCEPT !.gen = @ + 1]
         /\ receipts' = [o \in Op |-> 0]
    ELSE UNCHANGED <<meta, receipts>>

\* A connector gives one user request an identity, its arguments and the
\* current generation, and keeps them for every retry.
PinOperation(o, a, r) ==
    /\ ops[o] = NoOp
    /\ OperationGeneration
    /\ ops' = [ops EXCEPT ![o] = [gen |-> meta'.gen, asset |-> a, expected |-> r]]
    /\ UNCHANGED <<payloads, reclaim, assets, originals, drafts, forgets, sessions,
                   failed, settling, applied>>

PinCreate(o) == PinOperation(o, None, 0)
PinUpdate(o) == \E a \in Asset : Live(a) /\ PinOperation(o, a, assets[a].rev)

-----------------------------------------------------------------------------
(* Calls up to their first write.                                          *)

\* ExecuteStream: admission, access lease, receipt lookup and the reads of
\* prepare.  A known receipt or an expired generation ends the call here.
BeginMutation(s, o) ==
    /\ sessions[s].pc = "idle"
    /\ Foreground = {} /\ ~settling
    /\ ~Stopping
    /\ ops[o].gen = meta.gen
    /\ receipts[o] = 0
    /\ \E a \in Asset :
         /\ IF ops[o].asset = None
            THEN /\ assets[a].rev = 0
                 /\ ~Forgotten(a)
                 /\ \A t \in Session : sessions[t].asset # a
            ELSE a = ops[o].asset /\ Live(a) /\ assets[a].rev = ops[o].expected
         /\ sessions' = [sessions EXCEPT ![s] =
              [Idle EXCEPT !.pc = "begun", !.kind = "mutation", !.op = o,
                           !.gen = ops[o].gen, !.epoch = meta.deletion,
                           !.asset = a, !.expected = ops[o].expected]]
    /\ UNCHANGED <<meta, payloads, reclaim, assets, originals, drafts, forgets,
                   receipts, ops, failed, settling, applied>>

\* CreateDraft: authorisation and the target's current revision.
BeginCreateDraft(s, d) ==
    /\ sessions[s].pc = "idle"
    /\ drafts[d] = NoDraft
    /\ \A t \in Session : sessions[t].draft # d
    /\ ~Stopping
    /\ \E a \in {x \in Asset : Live(x)} \cup {None} :
         sessions' = [sessions EXCEPT ![s] =
            [Idle EXCEPT !.pc = "begun", !.kind = "create", !.draft = d, !.asset = a,
                         !.expected = IF a = None THEN 0 ELSE assets[a].rev]]
    /\ UNCHANGED <<meta, payloads, reclaim, assets, originals, drafts, forgets,
                   receipts, ops, failed, settling, applied>>

\* WriteDraft: authorisation, the draft's revision and payload, awaitReclaim.
BeginWriteDraft(s, d) ==
    /\ sessions[s].pc = "idle"
    /\ Visible(d)
    /\ ~Stopping
    /\ ~failed
    /\ sessions' = [sessions EXCEPT ![s] =
          [Idle EXCEPT !.pc = "begun", !.kind = "write", !.draft = d,
                       !.drev = drafts[d].rev, !.source = drafts[d].payload]]
    /\ UNCHANGED <<meta, payloads, reclaim, assets, originals, drafts, forgets,
                   receipts, ops, failed, settling, applied>>

\* PublishDraft up to Stage: the owner's operation takes the generation of
\* this attempt; whether source evidence must be kept is read here.
BeginPublishDraft(s, d, o) ==
    /\ sessions[s].pc = "idle"
    /\ Visible(d)
    /\ ~Stopping
    /\ ops[o] = NoOp \/ (ops[o].asset = d)
    /\ receipts[o] = 0
    /\ OperationGeneration
    /\ ops' = [ops EXCEPT ![o] = [gen |-> meta'.gen, asset |-> d, expected |-> 0]]
    /\ \E a \in Asset, k \in BOOLEAN :
         /\ IF drafts[d].target = None
            THEN /\ assets[a].rev = 0
                 /\ ~Forgotten(a)
                 /\ \A t \in Session : sessions[t].asset # a
                 /\ ~k
            ELSE a = drafts[d].target /\ (originals[a] # None => k)
         /\ sessions' = [sessions EXCEPT ![s] =
              [Idle EXCEPT !.pc = "begun", !.kind = "publish", !.op = o,
                           !.gen = meta'.gen, !.asset = a, !.keep = k,
                           !.expected = drafts[d].trev, !.draft = d,
                           !.drev = drafts[d].rev, !.source = drafts[d].payload]]
    /\ UNCHANGED <<payloads, reclaim, assets, originals, drafts, forgets, failed,
                   settling, applied>>

-----------------------------------------------------------------------------
(* Staging, shared by every call.                                          *)

\* stage: INSERT INTO payloads; payload_stage_owner records the run epoch.
StageInsert(s) ==
    /\ sessions[s].pc = "begun"
    /\ \E p \in Payload :
         /\ payloads[p].state = "unused"
         /\ payloads' = [payloads EXCEPT ![p] =
               [state |-> "staging", owner |-> meta.run, content |-> FALSE]]
         /\ sessions' = [sessions EXCEPT ![s].pc = "staging", ![s].payload = p]
    /\ UNCHANGED <<meta, reclaim, assets, originals, drafts, forgets, receipts, ops,
                   failed, settling, applied>>

\* stagePart: the chunks; the foreign key refuses them once the row is gone.
StageChunks(s) ==
    LET p == sessions[s].payload IN
    /\ sessions[s].pc = "staging"
    /\ Row(p)
    /\ payloads' = [payloads EXCEPT ![p].content = TRUE]
    /\ Goto(s, "chunked")
    /\ UNCHANGED <<meta, reclaim, assets, originals, drafts, forgets, receipts, ops,
                   failed, settling, applied>>

\* stage: UPDATE ... SET state='ready' WHERE state='staging'.  The number of
\* rows is not looked at, so a vanished row goes unnoticed here.
StageReady(s) ==
    LET p == sessions[s].payload IN
    /\ sessions[s].pc = "chunked"
    /\ payloads' = IF payloads[p].state = "staging"
                   THEN [payloads EXCEPT ![p].state = "ready"] ELSE payloads
    /\ Goto(s, "staged")
    /\ UNCHANGED <<meta, reclaim, assets, originals, drafts, forgets, receipts, ops,
                   failed, settling, applied>>

\* A stage that fails (source error, cancellation, vanished row) queues its
\* payload as 'aborted' and the call ends.
StageFail(s) ==
    /\ sessions[s].pc \in {"begun", "staging", "chunked"}
    /\ reclaim' = IF sessions[s].payload = None THEN reclaim
                  ELSE Queue(reclaim, sessions[s].payload)
    /\ End(s)
    /\ UNCHANGED <<meta, payloads, assets, originals, drafts, forgets, receipts, ops,
                   failed, settling, applied>>

\* The deferred Abandon: only what is still unpublished is queued.
Abandon(s) ==
    LET p == sessions[s].payload IN
    /\ sessions[s].pc = "leaving"
    /\ reclaim' = IF payloads[p].state # "published" THEN Queue(reclaim, p) ELSE reclaim
    /\ End(s)
    /\ UNCHANGED <<meta, payloads, assets, originals, drafts, forgets, receipts, ops,
                   failed, settling, applied>>

-----------------------------------------------------------------------------
(* The publishing transactions.                                            *)

\* Mutation of Publishable: the generation of the attempt is not compared.
PublishableAnyGeneration(s) ==
    LET c == sessions[s] IN
    /\ c.kind = "mutation" => Leased(s)
    /\ c.kind = "publish" =>
         /\ ~Stopping
         /\ Visible(c.draft)
         /\ drafts[c.draft].rev = c.drev
         /\ drafts[c.draft].payload = c.source
    /\ receipts[c.op] = 0
    /\ ~ReceiptsFull
    /\ ~Forgotten(c.asset)
    /\ payloads[c.payload].state = "ready"
    /\ assets[c.asset].rev = c.expected

\* lookupReceipt, the receipt limit, the barrier, the payload row and the
\* revision: what publish checks before it writes.
Publishable(s) ==
    LET c == sessions[s] IN
    /\ c.kind = "mutation" => Leased(s)
    /\ c.kind = "publish" =>
         /\ ~Stopping
         /\ Visible(c.draft)
         /\ drafts[c.draft].rev = c.drev
         /\ drafts[c.draft].payload = c.source
    /\ receipts[c.op] = 0
    /\ c.gen = meta.gen
    /\ ~ReceiptsFull
    /\ ~Forgotten(c.asset)
    /\ payloads[c.payload].state = "ready"
    /\ assets[c.asset].rev = c.expected

\* Mutation of KeptOriginals: the new payload is kept instead of the old one.
KeptReplacements(s) ==
    LET c == sessions[s] IN
    IF c.keep /\ c.expected > 0 /\ originals[c.asset] = None
    THEN [originals EXCEPT ![c.asset] = c.payload] ELSE originals

\* KeepOriginal keeps the first replaced payload of an asset.
KeptOriginals(s) ==
    LET c == sessions[s] IN
    IF c.keep /\ c.expected > 0 /\ originals[c.asset] = None
    THEN [originals EXCEPT ![c.asset] = assets[c.asset].payload]
    ELSE originals

\* deleteDraft: the row goes, its payload is queued.
DeleteDraft(rows, d) == [rows EXCEPT ![d].state = "gone", ![d].payload = None]

\* awaitReclaim lets the call go on unless the worker is known to be stuck.
AwaitReclaim(s) ==
    /\ sessions[s].pc = "staged"
    /\ sessions[s].kind \in {"mutation", "publish"}
    /\ ~failed
    /\ Goto(s, "admitted")
    /\ UNCHANGED <<meta, payloads, reclaim, assets, originals, drafts, forgets,
                   receipts, ops, failed, settling, applied>>

\* publish commits: asset revision, originals, superseded payload, draft and
\* receipt in one transaction.  The commit may succeed while the caller is
\* told that the result is unknown; both continue with Abandon.
PublishCommit(s) ==
    LET c == sessions[s]
        old == assets[c.asset].payload
        kept == KeptOriginals(s)
        superseded == IF c.expected > 0 /\ (\A a \in Asset : kept[a] # old) THEN {old} ELSE {}
        removed == IF c.kind = "publish" THEN {c.source} ELSE {} IN
    /\ c.pc = "admitted"
    /\ Publishable(s)
    /\ assets' = [assets EXCEPT ![c.asset] = [rev |-> c.expected + 1, payload |-> c.payload]]
    /\ originals' = kept
    /\ payloads' = Published(payloads, c.payload)
    /\ reclaim' = reclaim \cup {p \in superseded \cup removed : Row(p)}
    /\ drafts' = IF c.kind = "publish" THEN DeleteDraft(drafts, c.draft) ELSE drafts
    /\ receipts' = [receipts EXCEPT ![c.op] = c.gen]
    /\ applied' = [applied EXCEPT ![c.op] = @ + 1]
    /\ Goto(s, "leaving")
    /\ UNCHANGED <<meta, forgets, ops, failed, settling>>

\* publish finds the receipt of an earlier attempt, is refused by one of its
\* checks or by awaitReclaim, or the caller gives up.
PublishEnd(s) ==
    /\ \/ sessions[s].pc = "staged" /\ sessions[s].kind \in {"mutation", "publish"}
       \/ sessions[s].pc = "admitted"
    /\ Goto(s, "leaving")
    /\ UNCHANGED <<meta, payloads, reclaim, assets, originals, drafts, forgets,
                   receipts, ops, failed, settling, applied>>

\* CreateDraft's transaction.  It neither looks at the state of the payload
\* nor pins a generation; the foreign key needs the row.
CreateDraft(s) ==
    LET c == sessions[s] IN
    /\ c.pc = "staged"
    /\ c.kind = "create"
    /\ ~Stopping
    /\ c.asset # None => Live(c.asset) /\ assets[c.asset].rev = c.expected
    /\ Row(c.payload)
    /\ drafts' = [drafts EXCEPT ![c.draft] =
          [state |-> "live", rev |-> 1, target |-> c.asset, trev |-> c.expected,
           payload |-> c.payload]]
    /\ payloads' = Published(payloads, c.payload)
    /\ Goto(s, "leaving")
    /\ UNCHANGED <<meta, reclaim, assets, originals, forgets, receipts, ops, failed,
                   settling, applied>>

\* WriteDraft's transaction: same revision and same payload as at the start.
WriteDraft(s) ==
    LET c == sessions[s] IN
    /\ c.pc = "staged"
    /\ c.kind = "write"
    /\ ~Stopping
    /\ Visible(c.draft)
    /\ drafts[c.draft].rev = c.drev
    /\ drafts[c.draft].payload = c.source
    /\ Row(c.payload)
    /\ drafts' = [drafts EXCEPT ![c.draft].rev = @ + 1, ![c.draft].payload = c.payload]
    /\ payloads' = Published(payloads, c.payload)
    /\ reclaim' = Queue(reclaim, c.source)
    /\ Goto(s, "leaving")
    /\ UNCHANGED <<meta, assets, originals, forgets, receipts, ops, failed, settling,
                   applied>>

\* A draft transaction that is refused, or whose caller gives up.
DraftEnd(s) ==
    /\ sessions[s].pc = "staged"
    /\ sessions[s].kind \in {"create", "write"}
    /\ Goto(s, "leaving")
    /\ UNCHANGED <<meta, payloads, reclaim, assets, originals, drafts, forgets,
                   receipts, ops, failed, settling, applied>>

\* Mutation of DiscardDraft: the payload is not queued for reclaim.
DiscardDraftRow(d) ==
    /\ Visible(d)
    /\ ~Stopping
    /\ drafts' = DeleteDraft(drafts, d)
    /\ UNCHANGED <<meta, payloads, reclaim, assets, originals, forgets, receipts, ops,
                   sessions, failed, settling, applied>>

\* DiscardDraft: one control transaction.
DiscardDraft(d) ==
    /\ Visible(d)
    /\ ~Stopping
    /\ drafts' = DeleteDraft(drafts, d)
    /\ reclaim' = Queue(reclaim, drafts[d].payload)
    /\ UNCHANGED <<meta, payloads, assets, originals, forgets, receipts, ops, sessions,
                   failed, settling, applied>>

-----------------------------------------------------------------------------
(* Forgetting.                                                             *)

\* Mutation of AuthorizeForget: the store's row takes the control's status.
AuthorizeForgetStopping(f, a) ==
    /\ forgets[f] = NoForget
    /\ Live(a)
    /\ forgets' = [forgets EXCEPT ![f] =
          [state |-> "stopping", control |-> "stopping", target |-> a]]
    /\ meta' = [run |-> meta.run + 1, gen |-> meta.gen + 1, deletion |-> meta.deletion + 1]
    /\ UNCHANGED <<payloads, reclaim, assets, originals, drafts, receipts, ops,
                   sessions, failed, settling, applied>>

\* publishAuthorizedForget inside CompareAndSwapControl: the barrier, the
\* stopping flag and all epochs move in one control transaction.
AuthorizeForget(f, a) ==
    /\ forgets[f] = NoForget
    /\ Live(a)
    /\ forgets' = [forgets EXCEPT ![f] =
          [state |-> "cleaning", control |-> "stopping", target |-> a]]
    /\ meta' = [run |-> meta.run + 1, gen |-> meta.gen + 1, deletion |-> meta.deletion + 1]
    /\ UNCHANGED <<payloads, reclaim, assets, originals, drafts, receipts, ops,
                   sessions, failed, settling, applied>>

\* Control.mark(id, "cleaning"): the stop phase is over, access resumes.
MarkCleaning(f) ==
    /\ forgets[f].control = "stopping"
    /\ forgets' = [forgets EXCEPT ![f].control = "cleaning"]
    /\ UNCHANGED <<meta, payloads, reclaim, assets, originals, drafts, receipts, ops,
                   sessions, failed, settling, applied>>

-----------------------------------------------------------------------------
(* The maintenance worker: one batch is one transaction, and the first     *)
(* step that has work decides what the batch does.                         *)

\* recoverStage: an unpublished row whose owner belongs to an older run, or
\* that has no owner and is not queued yet.
Interrupted == {p \in Payload :
    \/ Row(p) /\ 0 < payloads[p].owner /\ payloads[p].owner < meta.run
    \/ payloads[p].state \in {"staging", "ready"} /\ payloads[p].owner = 0 /\ p \notin reclaim}

\* What forgetOwnerWork and forgetBatch join: the targets of decisions in
\* state 'cleaning'.  A completed decision still hides its target, but
\* nothing is removed for it any more.
Cleaning(a) == \E f \in Forget : forgets[f].target = a /\ forgets[f].state = "cleaning"

\* forgetOwnerWork: drafts of a target first, then its retained original.
DoomedDrafts == {d \in Draft : /\ drafts[d].state = "live"
                               /\ drafts[d].target # None
                               /\ Cleaning(drafts[d].target)}
DoomedOriginals == {a \in Asset : originals[a] # None /\ Cleaning(a)}
\* Mutation of DoomedAssets: cleaning ends when the stop phase ends.
DoomedWhileStopping == {a \in Asset : assets[a].rev > 0 /\ Cleaning(a) /\ Stopping}

DoomedAssets == {a \in Asset : assets[a].rev > 0 /\ Cleaning(a)}

\* reclaimPayload refuses to touch what a current row refers to.
Referenced(p) ==
    \/ \E a \in Asset : assets[a].payload = p \/ originals[a] = p
    \/ \E d \in Draft : drafts[d].payload = p

\* Maintain takes workAdmission, unless awaitReclaim of the foreground call
\* itself runs the batch, and maintenanceBatch, one call at a time.
MayMaintain == ~settling /\ \A s \in Foreground : sessions[s].pc = "staged"

\* The background worker stores the outcome of its batch in maintenanceErr;
\* a batch run by awaitReclaim or DrainMaintenance leaves it alone.
Report(error) ==
    IF Foreground = {} THEN failed' \in {failed, error} ELSE failed' = failed

RecoverStage ==
    /\ MayMaintain
    /\ \E p \in Interrupted :
         /\ reclaim' = reclaim \cup {p}
         /\ payloads' = [payloads EXCEPT ![p].owner = 0]
    /\ Report(FALSE)
    /\ UNCHANGED <<meta, assets, originals, drafts, forgets, receipts, ops, sessions,
                   settling, applied>>

ForgetOwnerWork ==
    /\ MayMaintain
    /\ Interrupted = {}
    /\ \/ \E d \in DoomedDrafts :
            /\ drafts' = DeleteDraft(drafts, d)
            /\ reclaim' = Queue(reclaim, drafts[d].payload)
            /\ UNCHANGED originals
       \/ /\ DoomedDrafts = {}
          /\ \E a \in DoomedOriginals :
               /\ originals' = [originals EXCEPT ![a] = None]
               /\ reclaim' = Queue(reclaim, originals[a])
          /\ UNCHANGED drafts
    /\ Report(FALSE)
    /\ UNCHANGED <<meta, payloads, assets, forgets, receipts, ops, sessions, settling,
                   applied>>

ForgetBatch ==
    /\ MayMaintain
    /\ Interrupted = {} /\ DoomedDrafts = {} /\ DoomedOriginals = {}
    /\ \E a \in DoomedAssets :
         /\ assets' = [assets EXCEPT ![a] = NoAsset]
         /\ reclaim' = Queue(reclaim, assets[a].payload)
    /\ Report(FALSE)
    /\ UNCHANGED <<meta, payloads, originals, drafts, forgets, receipts, ops, sessions,
                   settling, applied>>

NoEarlierWork == Interrupted = {} /\ DoomedDrafts = {} /\ DoomedOriginals = {} /\ DoomedAssets = {}

\* Mutation of ReclaimPayload: the row is never removed after the chunks.
ReclaimChunks ==
    /\ MayMaintain
    /\ NoEarlierWork
    /\ \E p \in reclaim :
         /\ ~Referenced(p)
         /\ payloads[p].content
         /\ payloads' = [payloads EXCEPT ![p].content = FALSE]
    /\ Report(FALSE)
    /\ UNCHANGED <<meta, reclaim, assets, originals, drafts, forgets, receipts, ops,
                   sessions, settling, applied>>

\* reclaimPayload: chunks in one or more batches, the row in the last one.
ReclaimPayload ==
    /\ MayMaintain
    /\ NoEarlierWork
    /\ \E p \in reclaim :
         /\ ~Referenced(p)
         /\ IF payloads[p].content
            THEN /\ payloads' = [payloads EXCEPT ![p].content = FALSE]
                 /\ UNCHANGED reclaim
            ELSE /\ payloads' = [payloads EXCEPT ![p] = [state |-> "gone", owner |-> 0, content |-> FALSE]]
                 /\ reclaim' = reclaim \ {p}
    /\ Report(FALSE)
    /\ UNCHANGED <<meta, assets, originals, drafts, forgets, receipts, ops, sessions,
                   settling, applied>>

\* reclaimPayload meets a job for a payload in use: the batch fails and the
\* worker remembers the error until a later batch succeeds.
ReclaimRefused ==
    /\ MayMaintain
    /\ NoEarlierWork
    /\ \E p \in reclaim : Referenced(p)
    /\ Report(TRUE)
    /\ UNCHANGED <<meta, payloads, reclaim, assets, originals, drafts, forgets,
                   receipts, ops, sessions, settling, applied>>

\* A batch whose steps all find nothing: Maintain keeps workAdmission and
\* goes on to finishForget.  awaitReclaim of a foreground call does not get
\* here: it runs a batch only while a job is queued, and nobody else can
\* take the job.
BatchEmpty ==
    /\ MayMaintain
    /\ Foreground = {}
    /\ NoEarlierWork
    /\ reclaim = {}
    /\ settling' = TRUE
    /\ UNCHANGED <<meta, payloads, reclaim, assets, originals, drafts, forgets, receipts,
                   ops, sessions, failed, applied>>

\* finishForget takes some decision in state 'cleaning', also one recorded
\* after the batch, and completes it.  Copies and log: ForgetPipeline.
FinishForget ==
    /\ settling
    /\ \E f \in Forget :
         /\ forgets[f].state = "cleaning"
         /\ forgets' = [forgets EXCEPT ![f].state = "complete"]
    /\ settling' = FALSE
    /\ Report(FALSE)
    /\ UNCHANGED <<meta, payloads, reclaim, assets, originals, drafts, receipts, ops,
                   sessions, applied>>

\* There is none, or finishForget postpones it; the Maintain ends.  An
\* error that the environment causes, here or in a batch, is not modelled:
\* all it does is that calls are refused until a later batch succeeds.
FinishNothing ==
    /\ settling
    /\ settling' = FALSE
    /\ Report(FALSE)
    /\ UNCHANGED <<meta, payloads, reclaim, assets, originals, drafts, forgets, receipts,
                   ops, sessions, applied>>

\* The process stops and Open starts a new run: every call is gone, the
\* database is as the last transaction left it.
Restart ==
    /\ meta.run < MaxEpoch
    /\ meta' = [meta EXCEPT !.run = @ + 1]
    /\ sessions' = [s \in Session |-> Idle]
    /\ failed' = FALSE
    /\ settling' = FALSE
    /\ UNCHANGED <<payloads, reclaim, assets, originals, drafts, forgets, receipts, ops,
                   applied>>

-----------------------------------------------------------------------------
CallStep(s) ==
    \/ StageInsert(s) \/ StageChunks(s) \/ StageReady(s) \/ StageFail(s)
    \/ AwaitReclaim(s) \/ PublishCommit(s) \/ PublishEnd(s) \/ CreateDraft(s) \/ WriteDraft(s)
    \/ DraftEnd(s) \/ Abandon(s)

WorkerStep ==
    \/ RecoverStage \/ ForgetOwnerWork \/ ForgetBatch \/ ReclaimPayload \/ ReclaimRefused
    \/ BatchEmpty \/ FinishForget \/ FinishNothing

Next ==
    \/ \E o \in Op : PinCreate(o) \/ PinUpdate(o)
    \/ \E s \in Session, o \in Op : BeginMutation(s, o)
    \/ \E s \in Session, d \in Draft : BeginCreateDraft(s, d) \/ BeginWriteDraft(s, d)
    \/ \E s \in Session, d \in Draft, o \in Op : BeginPublishDraft(s, d, o)
    \/ \E s \in Session : CallStep(s)
    \/ \E d \in Draft : DiscardDraft(d)
    \/ \E f \in Forget, a \in Asset : AuthorizeForget(f, a)
    \/ \E f \in Forget : MarkCleaning(f)
    \/ WorkerStep
    \/ Restart

Spec == Init /\ [][Next]_vars

\* Calls end, cleanLoop retries the control step, and the worker, woken by
\* every write, runs while it finds work.
Fairness ==
    /\ \A s \in Session : WF_vars(CallStep(s))
    /\ \A f \in Forget : WF_vars(MarkCleaning(f))
    /\ SF_vars(WorkerStep)

FairSpec == Spec /\ Fairness

-----------------------------------------------------------------------------
Call == [pc : {"idle", "begun", "staging", "chunked", "staged", "admitted", "leaving"},
         kind : {"none", "mutation", "create", "write", "publish"},
         op : Op \cup {None}, gen : Nat, epoch : Nat,
         asset : Asset \cup {None}, expected : Nat,
         draft : Draft \cup {None}, drev : Nat,
         source : Payload \cup {None}, payload : Payload \cup {None}, keep : BOOLEAN]

TypeOK ==
    /\ meta \in [run : Nat, gen : Nat, deletion : Nat]
    /\ payloads \in [Payload -> PayloadRow]
    /\ reclaim \in SUBSET Payload
    /\ assets \in [Asset -> [rev : Nat, payload : Payload \cup {None}]]
    /\ originals \in [Asset -> Payload \cup {None}]
    /\ drafts \in [Draft -> [state : {"none", "live", "gone"}, rev : Nat,
                             target : Asset \cup {None}, trev : Nat,
                             payload : Payload \cup {None}]]
    /\ forgets \in [Forget -> [state : {"none", "cleaning", "complete"},
                               control : {"none", "stopping", "cleaning"},
                               target : Asset \cup {None}]]
    /\ receipts \in [Op -> Nat]
    /\ ops \in [Op -> [gen : Nat, asset : Asset \cup Draft \cup {None}, expected : Nat]]
    /\ sessions \in [Session -> Call]
    /\ failed \in BOOLEAN /\ settling \in BOOLEAN
    /\ applied \in [Op -> Nat]

\* A payload is whole, published and not queued for reclaim.
Intact(p) == payloads[p].state = "published" /\ payloads[p].content /\ p \notin reclaim

\* Every visible revision and every retained original can be read to the
\* last chunk, whatever stages, forgets, restarts and reclaims overlap.
AssetsIntact ==
    \A a \in Asset :
        /\ assets[a].rev > 0 => Intact(assets[a].payload)
        /\ originals[a] # None => Intact(originals[a])

\* The same for drafts ("owner drafts are durable working state, neither an
\* asset nor a disposable cache").
DraftsIntact ==
    \A d \in Draft : drafts[d].state = "live" => Intact(drafts[d].payload)

\* An operation identity changes assets at most once, over all retries,
\* unknown commits, restarts and receipt generations.
ExactlyOnce == \A o \in Op : applied[o] <= 1

\* No payload is shared: two rows never refer to the same payload, and what
\* a running call still stages is referred to by nobody.
NoSharing ==
    /\ \A a, b \in Asset : assets[a].payload = assets[b].payload /\ a # b
                              => assets[a].payload = None
    /\ \A a, b \in Asset : originals[a] # None => originals[a] # assets[b].payload
    /\ \A a \in Asset, d \in Draft : drafts[d].payload # None =>
          drafts[d].payload \notin {assets[a].payload, originals[a]}
    /\ \A s \in Session : sessions[s].pc \in {"staging", "chunked", "staged", "admitted"} =>
          ~Referenced(sessions[s].payload)

\* Nothing leaks: a row that nobody refers to is queued, or has an owner
\* through which the next run will find it.
NoLeak ==
    \A p \in Payload : Row(p) /\ ~Referenced(p) /\ p \notin reclaim => payloads[p].owner > 0

\* Every stored payload is accounted for by exactly one thing that will let it go.
OneKeeper == NoSharing /\ NoLeak

\* A forgotten asset is never written again: its row, its original and its
\* drafts only disappear.
ForgottenStaysForgotten ==
    [][\A a \in Asset : Forgotten(a) =>
          /\ Forgotten(a)'
          /\ assets'[a] \in {assets[a], NoAsset}
          /\ originals'[a] \in {originals[a], None}
          /\ \A d \in Draft : drafts'[d].target = a /\ drafts'[d].state = "live"
                                => drafts'[d] = drafts[d]]_vars

\* The head of the queue may be a payload in use: reclaimPayload refuses it
\* and does not try another.
QueueBlocked == \E q \in reclaim : Referenced(q)

\* Every queued payload is eventually erased, unless a payload that is in
\* use, a draft's, stays in the queue.
ReclaimDrains ==
    <>[]~QueueBlocked => \A p \in Payload : p \in reclaim ~> payloads[p].state = "gone"

\* The target of a forget decision is eventually removed, with its retained
\* original and its drafts, if the decision was recorded, or still stands,
\* while no Maintain is between its empty batch and finishForget: there a
\* decision can be completed that no batch has seen.
ForgetErases ==
    \A f \in Forget, a \in Asset :
        (forgets[f].state = "cleaning" /\ forgets[f].target = a /\ ~settling)
            ~> /\ assets[a] = NoAsset /\ originals[a] = None
               /\ \A d \in Draft : drafts[d].state = "live" => drafts[d].target # a

\* Maintenance empties its queues, those of reclaim and those of forgetting, whatever
\* calls, roll-overs and restarts come between two of its batches.
QueuesDrain == ReclaimDrains /\ ForgetErases
=============================================================================
