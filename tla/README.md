# Ownward: a TLA+ verification project

Ownward is a local service that keeps a person's information assets and gives
agents and the owner access to them. Its core is the *bounded store*
(`internal/boundedstore`): one SQLite database behind one writer connection and a
small pool of readers, worked on at the same time by product calls, owner
drafts, control decisions, backups and a background maintenance goroutine, and
expected to survive a crash between any two transactions. That is the part
modelled here, together with the forget decisions of
`internal/informationcontrol` that drive it, the organization work that agents
outside do under leases, and the Python component
(`integrations/python/ownward_information_use.py`) through which an agent's host
uses the service for a task.

A database transaction, and a critical section of a Go mutex, is one step of a
model. Everything between two of them may be interleaved with everybody else. In
the Python component, which one thread runs, a call of the host or of the model is
one step.

1. [Inventory](#1-inventory)
2. [Modules](#2-modules)
3. [Runs](#3-runs)
4. [Proofs](#4-proofs)
5. [Findings](#5-findings)
6. [What is not modelled](#6-what-is-not-modelled)
7. [Plan](#7-plan)

## 1. Inventory

`PROJECT.json` lists every component with its source files. The ones that carry
the program's own logic:

| Component | State | Operations | What is hard | What makes it correct |
|---|---|---|---|---|
| write gate (`scheduler.go`, `writeGate`) | busy flag, waiters per class, last class, a channel replaced at every signal | `acquire`, `Unlock` | lost wake-ups, cancelled waiters, priorities | it is a lock; controls go first; the two other classes alternate; nobody sleeps through a chance |
| reader leases and write admission (`scheduler.go`, `store.go`) | reader pool, leases, `draining`, `copyFrozen`, `readerChanged`, size of the log | `reader`, `write`, `admitWrite`, `cancelReaders`, `maintainWAL`, `freezeCopy` | everyone waits on everyone: readers on a drain, writers on readers, maintenance on admission | space reserved for controls is kept; a drain has a cause and ends; every sleeper has a waker |
| payloads, assets, drafts (`payload.go`, `assets.go`, `owner_work.go`, `owner_publish.go`) | payload rows and chunks, staging owners, assets, originals, drafts, receipts, reclaim jobs | stage, publish, create, write, publish and discard a draft, abandon | a payload is staged in many transactions and published in another; retries with the same operation identity; receipts that are retired | visible revisions are whole; an operation applies once; nothing leaks |
| maintenance (`maintenance.go`) | reclaim jobs, `maintenanceErr`, wake token | recover stages, forget, reclaim, checkpoint, remove copies | restarts, partial failure, batches in several transactions | queues drain; nothing in use is reclaimed |
| forgetting (`boundedstore/forget.go`, `informationcontrol/forget.go`) | status of the decision in the control document, state of the operation in the store | `execute`, `cleanLoop`, `forgetBatch`, `finishForget` | two callers of `Maintain`, completion in steps, silent postponement | nothing of the target survives completion; every decision completes |
| backups (`backup.go`, `deployment_archive.go`) | controlled copies: rows and files | `Snapshot`, `exportArchive`, `cleanCopies` | a decision made while a copy is packed; file and row change separately | an archive knows every decision; no file without its row |
| management and permissions (`informationcontrol/management.go`) | the control document | propose, approve, execute, mark | optimistic compare-and-swap with retries | decisions are neither lost nor applied twice |
| organizations (`organization.go`, `organization_jobs.go`, `invalidation.go`, `core/streaming_semantic_work.go`, `core/streaming_submit.go`) | jobs, execution rows (leases), versions and their heads, invalidation jobs with cursors, a channel for waiters | claim, renew, release, prepare, submit, publish, invalidate, wait | expiry, takeover and revocation against a publication that was begun under the lease; lost answers; vectors that fail; a wait that sleeps until a write or an expiry | only the holder publishes; one lease per request; work is never lost; no waiter misses a job |
| portable information use (`ownward_information_use.py`) | short references, offered tools, trace, notes, pending checks, flags; a checkpoint kept by the host | call, grouped read, check, quick and deep run, new attempt, checkpoint, restore | every call may fail after it was counted; sources change between any two calls; a restore goes back to an older trace | a delivery rests on confirmed evidence only; losses are named; nothing is replayed |
| derived generations (`rebuild.go`) | current and building generation | begin, build, switch | results published during a switch | readers see one whole generation |
| deployment and restore (`deployment.go`, `control_restore.go`) | files and the control document | handoff, restore, space checks | a crash between file steps | one authority at a time |
| vector and lexical index, graph, retrieval | derived rows | search, pack, page | numeric data, paging | not a matter of interleavings |

How they interact. Every transaction passes the write gate `writeMu`. A second
gate of the same type, `workAdmission`, orders *whole* product calls, backups and
maintenance batches. Readers and writers talk through one channel
(`readerChanged`). Every commit that is not maintenance wakes the maintenance
goroutine. A forget decision is recorded by a control transaction that also
raises a barrier and moves the epochs under which product calls, stages and
receipts live. The product's `cleanLoop` then calls the same `Maintain` as the
goroutine and takes the absence of an error for completion.

The places where this is hard to test are the `hazards` of `PROJECT.json`, each
with the properties aimed at it.

## 2. Modules

| Module | Models | Composition |
|---|---|---|
| `WriteGate` | `writeGate` with cancellation | stands alone; both gates of the store are instances of this type |
| `LogDrain` | reader leases, write admission, the log step of maintenance and the truncation of `finishForget`, backups' freeze | uses what `WriteGate` shows (exclusion, admission of waiters) as a plain lock |
| `PayloadStore` | staging, publication, drafts, forgetting and reclaim | its worker steps are the batch that `ForgetPipeline` calls `Cleanup` |
| `ForgetPipeline` | a forget decision from approval to completion, and controlled copies | keeps of a target only whether its rows are live, queued or erased |
| `OrganizationLease` | jobs, leases, preparation, submission, publication, invalidation, rebuild and the wait for jobs | implements `LeasedWork` |
| `LeasedWork` | what leased work promises: absent, open or held under a token that is handed out once; results come from the holder | abstract specification |
| `InformationUse` | `EvidenceToolSession` under `UseSession` | stands alone; the service is the external host it calls |
| `WriteGateProofs`, `LogDrainProofs`, `PayloadStoreProofs`, `ForgetPipelineProofs`, `OrganizationLeaseProofs`, `InformationUseProofs` | theorems | extend their module |
| `MC...` | instances for TLC | extend their module |

Definitions whose comment begins with *Mutation of* are faulty variants of the
definition that follows. Putting one in the place of the original must make TLC
report the property it is listed with in `PROJECT.json`; that is how every
property is known to be able to fail.

### WriteGate

State: `busy`, `waiting` (the counter `g.waiting[class]` as the set of goroutines
it counts), `last`, `pc` per goroutine, `cancelled` (contexts that are done) and
`passed`, a history variable counting grants to the rival class. The channel
`g.changed` is not a variable: a goroutine is `asleep` while the channel it
remembers is open, and `Signal` turns every `asleep` into `look`.

`Arrive` is `acquire` up to its loop; one pass of the loop is `Grant`, `Sleep` or
`GiveUp`; `WakeCancelled` is the `ctx.Done()` branch; `Unlock` is `Unlock`.
`Allowed` is the condition in `acquire`, in the source's order.

### LogDrain

State: `wal` (size of the log in units of `walTransactionReserve`, which bounds
one transaction), `draining`, `frozen`, the holders of `writeMu` and
`workAdmission` (`gate`, `admission`), `last` (did maintenance go last), the place
`at` of every goroutine, its lease `read`, `inside` (writes whose context carries
their own snapshot), `heard` (goroutines whose remembered `readerChanged` has been
closed), the maintenance `wake` token, `urgent` (the worker writes as a control) and
the history variable `cut` (the log of the present drain was emptied by
`finishForget`).

`reader()` is `WantRead`, `BlockRead`, `TakeLease`, `GiveUpRead`; its release is
`EndRead`. `admitWrite` is `AdmitFrozen`, `Admit`, `AdmitDraining`, then
`Truncated` or `TruncateBusy`, `Retry` and `GiveUp`; `write` ends in `Commit` or
`Rollback`. `maintainWAL` is `MaintainLog` and `TruncateLog`. The end of
`finishForget` is `FinishForget` (`cancelReaders`) and `FinishTruncate`: it truncates
under `writeMu`, leaves `draining` as it is, and its own write that follows is a
control's. It may come in any `Maintain`, whether or not a decision is there to be
completed; the code also gets there from `cleanLoop`'s `DrainMaintenance` and from
`awaitReclaim`, which hold the same locks, and the model gives the step to the worker
alone. A backup is a
control that has entered through `EnterBackup` and uses `Freeze` and `Unfreeze`.
Three kinds of call are told apart because the code treats them differently:
those that write inside their own snapshot (`Hinting`), those that read a stored
revision while they stage (`Copying`), and those whose context may end during a
write (`Leavers`).

### PayloadStore

State: one variable per table (`payloads`, `reclaim`, `assets`, `originals`,
`drafts`, `forgets`, `receipts`), the epochs in `meta`, `ops` (what the client keeps
for its retries), `sessions` (calls in progress, with everything they read before
an earlier transaction ended), `failed` (`maintenanceErr`), `settling` (a `Maintain`
is between its batch, which found nothing, and the end of `finishForget`) and the
history variable `applied`.

A call goes `begun`, `staging`, `chunked`, `staged`, `admitted`, `leaving`: one
action for each transaction of `stage`, `stagePart`, `publish` or the draft calls,
and `Abandon` for the deferred clean-up. The worker's batch is `RecoverStage`,
`ForgetOwnerWork`, `ForgetBatch`, `ReclaimPayload` or `ReclaimRefused`, in the
priority order of `Maintain`; when none has work, `BatchEmpty`, and then
`FinishForget` or `FinishNothing`. The forgetting steps look at decisions in state
`cleaning` only, as the code does, so a decision that `FinishForget` completes before
a batch has seen it (finding 1) is never cleaned here either. The text, the digests
and the index rows of a payload are one bit, `content`.

### ForgetPipeline

State: `forgets` (per decision the control status, the store's state, what is left
of the rows, and whether log and pages still hold old bytes), `readers`, `copies`
(row and file apart), `batch` (the running `Maintain` and its caller), `worker`,
`exec`, `loop` (the two callers of the product), `export`, and the counters of the
two bounds.

`Product.execute` is `ExecuteStart`, `ExecuteMark`, `ExecuteFail`; `cleanLoop` is
`LoopWake`, `LoopTake`, `LoopMark`, `LoopMarkFail`, `LoopEnd`; `Maintain` is
`MaintainBegin`, `Cleanup`, then `finishForget` as `Select`, `CleanCopies`,
`CleanRow`, `CheckCopies`, `Checkpoint`, `Complete`, then `Tail`, any of which may
be cut short by `MaintainFail`. `Snapshot` and `exportArchive` are the `Snapshot...`
and `Export...` actions. The export's deletion of its row runs outside the gate on
the shared connection, so `ExportEnd` also has the outcome in which it is rolled
back with somebody else's transaction. A removal of files may fail, in `cleanCopies`
(an error of `Maintain`), in `Snapshot` (the row is left to maintenance) and in the
export, which deletes the row all the same: such a copy is `lost`, its file is there
and no row leads to it. `OtherWrite` stands for the writes of the rest of the store,
which wake the worker.

### OrganizationLease

State: one variable per table or column that matters (`revision`, `generation`,
`access`, `jobs`, `exec`, `head`, `visible`, `grade`), `due` (a version that
invalidation has still to retire), `issued` and the history variable `by` (who
published last), `sub` (the preparation or submission of each call with what it
read), `signal` (a commit whose `signalOrganizationJobs` is still to come) and
`wait` (place, remembered channel and timers of each waiter).

`ClaimOrganization` and `ClaimReplay` are the two outcomes of
`ClaimOrganizationAfter`; `ReleaseLease` and `RenewLease` of
`ChangeOrganizationLease`; `Expire` is the clock. `ReadWork`, `StageOrganization`,
`PublishOrganization`, `EndCall` are `prepareStreamingWork` and
`submitStreamingSemantic` with the model or embedder running between any two.
`Change`, `Forget`, `ForgetBatch`, `Revoke`, `InputsChange`, `InvalidateBatch` and
`FinishRebuild` are what the rest of the store does to jobs and leases.
`WaitOrganization` is `Arm`, `Look`, `Sleep`, `Wake`, `GiveUp`.

A version is `prepared` (no result yet), `vector` (a result whose vector is
missing) or `ready`. What a version was made from is one bit, `fresh`; when it
changes, `CurrentOrganization` stops finding the version at once and invalidation
follows. An agent may present every token it was ever given: only the one in the
row has an effect, so tokens in transit are no state.

The refinement mapping `LeasedWorkOf` takes an asset to `held` when its row passes all comparisons of
`checkOrganizationCredential`, to `open` when `availableOrganization` selects it,
and otherwise to `none`. `Implements` then says that a lease passes from one holder
to the next through open work only, that a token is never handed out twice, and
that each publication carries the token that holds the work at that moment, or 0
where the asset is not under leases.

### InformationUse

State: `rev` (the sources), `usage` (the host's counters), `offered`
(`dynamic_tools`), `forward` (short references), `session` (the fields of
`UseSession`), `saved` (a checkpoint), `at` and `job` (where `run` is, and its
locals), and two history variables: `past` (what the task has tried and kept, which
a restore takes back with the checkpoint) and `fresh` (what was obtained or
confirmed since the last delivery or restore).

`_single` is `SingleSearch`, `SingleRead` or `SingleFails`, the last one with the
refresh of its `finally`. `UseSession.call` is `Search`, `Read` or `CallFails`; a
result that would exceed `max_bytes` is lost after the host has counted it (`Lose`).
A grouped read is `ReadMany`, then one `ManyRead` or `ManyError` per reference, then
`ManyDone`. `run` is `Run`, `CheckBatch` and `CheckDone` (`_recheck` with
`check_materials`), `PrepareFrame`, `SeedBegin`, `SeedSearch`, `SeedRead`
(`initial_context`), `Deliver` and `Delivered`, each with its failing variant.
`Restore` may happen anywhere: the process before it was interrupted.

Left out: prompts and formats, the stateless entries (`respond`, `complete`,
`reconsider`, `reuse_context`), the counters `_usage` copies, and the order of the
reads within a check (any batch of the right size is tried).

## 3. Runs

| Run | Instance | States | Shows |
|---|---|---|---|
| `gate` | 2 goroutines per class | 80,877 | all properties of the gate, liveness included |
| `drain_safety` | 2 product calls (one `Hinting`, one `Copying`), a draft call, a control or backup, the worker; everybody may leave; limits 1, 3, 5 | 1,365,839 | `ReserveKept`, `DrainHasCause`, `SleepersHaveWaker`, `WaiterHoldsNothing`, `DrainAdmitsNoReader` |
| `drain_live` | a product call, a draft call, the worker; limits 1, 2, 3 | 7,560 | `Converges`, `ReadsAdmitted` |
| `drain_stuck` | `drain_live` with a call that may leave | | violates `ReadsAdmitted` (finding 3) |
| `payload_assets` | 2 assets, 1 draft, 3 payloads, 2 operations, 1 forget, 2 concurrent calls, 1 receipt per generation | 2,320,030 | `AssetsIntact`, `ExactlyOnce`, `OneKeeper`, `ForgottenStaysForgotten` |
| `payload_live` | 1 asset, 1 draft, 2 payloads, 2 operations, 1 forget, 1 call | 138,701 | `QueuesDrain` |
| `payload_drafts` | as `payload_assets` | | violates `DraftsIntact` (finding 2) |
| `forget` | 1 decision, 1 reader, 1 copy, 2 failures, 1 restart | 194,568 | `NothingOldSurvives`, `NoOrphanCopy`, `ArchiveKnowsBarriers`, `StatusOnlyAdvances`, `DecisionsComplete` |
| `forget_erased` | 2 decisions, 1 reader, 1 copy, no failure | | violates `CompleteMeansErased` (finding 1) |
| `forget_reported` | 1 decision, 1 reader, no copy | | violates `CompletedIsFinished` (finding 4) |
| `organization` | 2 assets (one is worked on and changes), 2 requests, 2 calls, 1 waiter, at most 2 of these at a time, 2 leases, 3 versions, 1 event | 977,117 | `Implements`, `LeaseLimits`, `WorkIsQueued`, `NoLostJob`, `NoLostUpdate` |
| `use` | 2 sources with 2 revisions, a trace of 2 entries, 3 calls, 2 reads, 5 units of work | 1,866,367 | `EvidenceConfirmed`, `NotesFollowEvidence`, `LostEvidenceIsNamed`, `ToolsMatchBudget`, `ReferencesKeepMeaning`, `SeedFirst` |

A property that names two others is their conjunction (`OneKeeper` is `NoSharing`
and `NoLeak`, `QueuesDrain` is `ReclaimDrains` and `ForgetErases`,
`NothingOldSurvives` is `OldSnapshotsEnded` and `NoOldCopies`, `LeaseLimits` is
`OneLeasePerRequest` and `OneBackground`, `EveryClassServed` is `ControlServed` and
`NoStarvation`); a mutation is listed for each part.

### Why the bounds are enough

* *Gate.* Two goroutines of a class are needed to see one overtake the class in
  favour of the other; a third adds no new value of `waiting[c] = {}`, which is all
  `Allowed` looks at. The proofs remove the bound. `passed` stops at `Many` = 2,
  one more than the property allows.
* *Log limits.* 1, 3, 5 stand for 4, 12, 16 reserves. With them a log can be short,
  passive, too long for ordinary work while controls still write, and too long for
  controls. The proofs are for all limits. There is one control in the instance,
  and two backups cannot overlap in the code either (`workAdmission`).
* *Payloads.* Three payloads give one visible, one superseded or retained and one
  being staged; in `payload_live` two are enough for each thing that queues one (an
  update, a write or a publication of a draft, a failed stage, a forgotten asset with
  its draft) and for a queue that is blocked by a draft's payload. One receipt per generation makes the roll-over happen at the
  second operation. `MaxEpoch` = 3 allows two restarts, one of them after a forget
  decision, which also moves the run epoch: a stage is recovered both when its
  caller is gone (restart) and while it still runs (forget).
* *Forgetting.* One reader and one copy give each way in which completion is
  postponed, and two failures let the repetition of a failed step fail as well, or a
  lost copy meet a failing step of `cleanLoop`. The safety properties are proved for
  any number of decisions; only `DecisionsComplete` is checked for one alone. Two
  decisions, one committed while the other is being completed, are what
  `forget_erased` is about.
* *Organization.* Two leases give a first holder and the one that takes over; two
  calls a preparation and a submission, or two submissions, that overlap; three
  versions the whole way from prepared over a missing vector to ready. The second
  asset is there for what spans assets: a retried request, the background place, a
  waiter for any asset. One event (a change, a forget, a revocation, new inputs, a
  rebuild) can fall between any two steps of both calls. `MaxBusy` = 2 leaves out
  only the waiter next to two calls: it hears of commits, and one call makes them all.
* *Information use.* Two sources are needed for an answer about the wrong one, two
  entries for a check of which one part fails, two revisions for `changed`. Five
  units of work cover a read, a checkpoint, a change, a restore and one more call in
  any order, and budgets of three calls and two reads are used up on the way. In the
  code `Batch` is 64 and `Seeds` 3; only "all at once or not" and "some or none"
  matter here.

Identities are interchangeable in the runs that declare `SYMMETRY`; none of those
checks liveness. Deadlock is checked except in the payload runs, where the finite
sets of payload, draft and operation identities, unlimited in the program, are
used up, and in `use`, where the bound on work is.

### Fairness

* `WriteGate`: weak fairness of each goroutine's own critical section and of
  `Unlock` (callers defer it). Callers need not arrive or cancel. A waiter that is
  overtaken has no fairness of its own, hence the provisos of `NoStarvation`
  (controls and cancellations stop) and of `ControlServed`.
* `LogDrain`: strong fairness of a goroutine's progress, because the gate and the
  pool are taken away from it by others and `WriteGate` shows that they come back;
  strong fairness of `EndRead` and `Leave`, because reads and calls are finite.
  Nothing makes a context end.
* `PayloadStore`: weak fairness of each call and of `cleanLoop`'s step, strong
  fairness of the worker, which admission disables for the length of a call.
  `QueuesDrain` makes two exceptions, both of which the instance reaches and without
  which it is violated: a queue in which a payload in use stays (finding 2 puts it
  there), and a decision recorded while a `Maintain` is `settling` (finding 1).
* `ForgetPipeline`: weak fairness of the goroutines' steps, strong fairness of
  entering `Maintain` and of taking the next decision (locks). None of readers,
  backups and other writes: `DecisionsComplete` has the provisos that reads and
  backups cease and that writes keep waking the worker. A completion that was
  postponed is tried again at the next wake-up only, and an endless series of failing
  backups keeps `Maintain` busy with their copies.
* `LogDrain`'s `Converges` and `ReadsAdmitted` except a drain whose log `finishForget`
  has emptied (section 5, first observation).
* `OrganizationLease` and `InformationUse` state safety only. Nothing obliges an
  agent to claim, submit or run again; what the code owes a waiter is stated without
  fairness, by `NoLostJob`.

## 4. Proofs

Every safety invariant, action property and refinement that a passing run checks is
also a theorem: for every set of goroutines, calls, assets, payloads, decisions,
copies, requests and sources, and for all limits and budgets. The bounds of the runs
(restarts, errors, events, versions, work) are constants of the theorems like the
others, so no behaviour is cut short by them.

| Module | Inductive invariant | Properties proved from it |
|---|---|---|
| `WriteGateProofs` | `GateInvariant` | `GateTypeOK`, `GateMutualExclusion`, `GateWaitersAreCounted`, `GateNoLostWakeup`, `GateAlternation`, `GateControlsGoFirst` |
| `LogDrainProofs` | `DrainInvariant` | `DrainTypeOK`, `DrainReserveKept`, `DrainNeedsCause` (`DrainHasCause`), `DrainSleepersHaveWaker`, `DrainStopsReaders` (`DrainAdmitsNoReader`), `DrainWaiterHoldsNothing` |
| `PayloadStoreProofs` | `StoreInvariant` | `StoreTypeOK`, `StoreAssetsIntact`, `StoreExactlyOnce`, `StoreOneKeeper`, `StoreForgottenStaysForgotten` |
| `ForgetPipelineProofs` | `ForgetInvariant` | `ForgetTypeOK`, `ForgetNothingOldSurvives`, `ForgetNoOrphanCopy`, `ForgetArchiveKnowsBarriers`, `ForgetStatusOnlyAdvances` |
| `OrganizationLeaseProofs` | `LeaseInvariant` | `LeaseTypeOK`, `LeaseLimitsHold`, `LeaseWorkIsQueued`, `LeaseNoLostUpdate`, `LeaseNoLostJob`, `LeaseImplements` (the refinement of `LeasedWork`) |
| `InformationUseProofs` | `UseTypeInvariant`, `UseEvidenceInvariant` | `UseTypeOK`, `UseToolsMatchBudget`, `UseSeedFirst`, `UseNotesFollowEvidence`, `UseLostEvidenceIsNamed`, `UseEvidenceConfirmed`, `UseReferencesKeepMeaning` |

A theorem named after its component and a property states that property.

*Assumptions.* `ClassAssumption`: every goroutine has a class. `DrainAssumption`:
the worker and `None` are not callers, the special kinds of call are subsets of
the callers, the pool is not empty, and 0 < passive <= ordinary < control with
1 < ordinary: an empty log admits an ordinary transaction. The code's 4, 12 and 16
satisfy it. `BoundAssumption`: a generation keeps at least one receipt, `None` is no
identity, and no identity is that of an asset and of a draft (an operation is pinned
to one or the other, and the field that holds it tells them apart).
`LimitAssumption`, `LeaseAssumption` and `UseAssumption` type the constants and keep
`None` out of the identities (`UseAssumption` also says that sources and tool slots are
finitely many and that a source is not a number), and `NoneAssumption` says that the absent row, call or trace entry is none of the records
that may stand in its place.

*Gate.* `GateInv` is `TypeOK`, `MutualExclusion`, `WaitersAreCounted`,
`NoLostWakeup` and `TurnInv`. A sleeper may stay asleep through a step only if the
step did not make `Allowed` true; `Allowed` depends on the counters, so they have
to be exact, and on `busy`, so it has to mean that somebody holds the gate. The
alternation needs `TurnInv`: a class that has been passed once still waits and
`last` names its rival, which is why the rival is not allowed a second time,
whatever controls do in between.

*Drain.* `DrainInv` is `TypeOK`, `GateHeld`, `ReserveKept`, `DrainHasCause` and
`SleepersHaveWaker`. `ReserveKept` alone is not inductive: a truncation by one
goroutine while another has already measured the log has to be excluded, and
`GateHeld` says that whoever measured or truncates owns `writeMu`. `DrainHasCause`
rests on the history variable `cut`: every truncation but that of `finishForget`
clears the flag in the same step. `TypeOK`
includes `wal < Control`, which needs `ReserveKept` for the commit that grows the
log. `WaiterHoldsNothing` needs `LeaseKnown` on top: a goroutine with a lease is in a
place where the code knows of it.

*Payloads.* `StoreInv` is the longest one, because three arguments meet in it.
(1) Who may touch a payload: a row that exists refers to a published payload without
owner (`PayloadShape`), no two calls stage the same one (`OwnPayload`), no row refers
to what is being staged (`NoSharing`). Whoever queues a payload therefore queues only
its own, and what loses its last reference is queued in the same step (`NoLeak`).
(2) Why a publication finds its payload whole: `StageKept` says that a stage whose
call is of the *current* generation still belongs to the current run and is not
queued. A new run ends all calls or, when a forget decision starts it, also starts a
new generation; this is why `publish`, which compares the generation, is safe, and
`CreateDraft` and `WriteDraft`, which do not, are not (finding 2). With the comparison
taken out of `Publishable` the proof of `PublishPayloads` fails at just this step.
(3) Why an operation is applied once: an applied operation has its receipt, or all its
attempts are of a past generation (`AppliedOnce`); an owner's operation, which takes a
new generation with each attempt, has lost its draft instead, and no other call
could have created that draft again (`CreatorAlone`).

*Forgetting.* `PipelineInv` says what each actor may rely on between two of its
transactions. `BatchWork` is the core: from the checkpoint of `finishForget` on no
copy that has a row has a file, and at `Complete` every open snapshot knows the decision. That
survives the steps of others because one `Maintain` runs at a time and none runs while
a snapshot of the store is written (`ExportWork`), and because a new reader sees
every barrier there is. `BarrierWithDecision` ties the control document to the store.

*Organization.* A lease ends in many ways without anybody writing its row; that none
of them is ever undone is `NoRevival`, which needs that a row has noted nothing that
is ahead of the counters it is compared with (`RowsPast`). From it follow the limits
(`OneEach`; the cardinalities of `LeaseLimits` are derived at the end), and that a good
lease has its job (`HeldIsQueued`), so that a repeated claim is recognised. `NoLostJob`
rests on `Awaited`, the state of a waiter that nobody has told or is about to tell;
`NoLostUpdate` on `StagedOnBase`. The refinement is proved step by step: a claim is
`Take` of open work, a publication is one by the holder or of unleased work, all other
steps only let leases go or open work.

*Information use.* `TypeInv` carries `Numbers` (no short reference is given twice) and
`Shape` (what the locals of a call in progress refer to). `EvidenceInv` says of every
point *inside* `_recheck` which reads are accounted for (`KeptIsNamed`) and fresh
(`UsedIsFresh`), in the session and in a checkpoint, since a restore may bring one back
at any time; `MeaningInv` and `StartedWhenTried` do the same for references and for the
initial retrieval.

*Only model-checked.* Liveness (`EveryClassServed`, `Converges`, `ReadsAdmitted`,
`QueuesDrain`, `DecisionsComplete`): fairness is out of the prover's reach. The four
violated properties are not theorems, of course; the invariants above hold in spite of
the behaviours they show.

## 5. Findings

1. **A new decision can be completed before it is cleaned** (`forget_erased`).
   `Maintain` cleans in one transaction; `finishForget` picks *any* operation in
   state `cleaning` in a later one (`forget.go:168`). A decision committed in between
   is marked complete with all its rows in place, and `forgetBatch` never looks at it
   again.
2. **A draft can be stored on a reclaimed payload** (`payload_drafts`).
   `CreateDraft` and `WriteDraft` do not look at the payload's state
   (`owner_work.go:243`), as `publish` does. A forget decision moves the run epoch
   during the upload, `recoverStage` queues the payload, and the draft then refers
   to a payload that maintenance refuses to erase for ever.
3. **An abandoned drain can block reads** (`drain_stuck`). A writer that leaves after
   `setDraining(true)` leaves the drain in force (`scheduler.go:195`). A product call
   then waits in `reader()` with the admission that maintenance needs to truncate the
   log; only another write, or the end of that call's context, resolves it. A write
   refused inside its own snapshot (`scheduler.go:213`) leaves the drain behind in the
   same way, which is why `drain_live` has neither kind of call.
4. **Completion is reported although it was postponed** (`forget_reported`).
   `finishForget` returns without an error when a copy is left or the checkpoint is
   busy (`forget.go:199`); `cleanLoop` takes that for done
   (`informationcontrol/forget.go:141`), although `bounded-runtime-design.md:221` wants
   old snapshots ended and the log cleared, and `ingestion-and-derived-data.md:24` says
   that the receipt of completion covers the log. The store completes the decision at
   a later wake-up, if there is one (`DecisionsComplete`).

Further observations, which the models reach and no run reports:

* *A drain can outlive its log.* `finishForget` truncates the log under `writeMu`
  without `setDraining(false)` (`forget.go:193`). A writer that has started a drain and
  waits for readers is then admitted on the short log (`scheduler.go:192`),
  `maintainWAL` skips a short log, and ordinary reads stay blocked until the log is too
  long again. `bounded-runtime-design.md:260` lets them queue until the log has been
  reset, which it has. The variable `cut` of `LogDrain` remembers such a truncation; it
  is the exception in `DrainHasCause`, `Converges` and `ReadsAdmitted`, and without it
  each of them is violated.
* *An export can lose a copy.* `exportArchive` ignores a failing removal of its copy's
  files and deletes the row (`deployment_archive.go:68`). `cleanCopies` goes by rows,
  so a decision is completed later although the file is still there;
  `information-control/README.md:90` makes controlled copies part of what is cleaned
  and verified before completion is recorded. Such a copy is `lost` in
  `ForgetPipeline`; it is the exception in `NoOrphanCopy` and `NothingOldSurvives`,
  which are violated without it.
* *A write can wait for its own snapshot.* Staging from a stored revision keeps a
  reader open that the context does not show (`payload.go:87`), so `admitWrite` waits
  for it, against "No waiter holds a database transaction" (`scheduler.go:47`). These
  calls are the exception in `WaiterHoldsNothing`.
* *A late preparation replaces an accepted result.* `prepareStreamingWork` decides by
  the absence of a version, embeds, and stages against whatever version is newest by
  then (`streaming_semantic_work.go:56`, `organization.go:194`); it does not compare as
  `submitStreamingSemantic` does (`streaming_submit.go:215`). In `OrganizationLease`
  the step from `grade = "ready"` to `"prepared"` at one revision is reachable in 14
  steps. `graph-organization.md:89` says that old work cannot overwrite a new result.
* *A finished asset can be queued again for good.* `invalidateBatch`
  (`invalidation.go:48`) queues the asset of an outdated version although a newer one
  is ready. `prepareStreamingWork` then finds nothing to do, and no publication
  removes the job; waiters and claims keep being offered it.
* *A lease that ends between two readings of the clock is not awaited.*
  `WaitOrganization` reads the time for "available" and again for the first expiry
  (`organization_jobs.go:272` and `275`); the wait then lasts until its deadline. It
  is the exception `late` in `NoLostJob`.
* *A failed run is not checked again.* When `run` fails after `_recheck` and before
  the delivery (task preparation, initial retrieval, the host's report), `needs_check`
  stays `False` (`ownward_information_use.py:338`), and the next run delivers reads
  confirmed by the failed one. `EvidenceConfirmed` therefore speaks of the time since
  the last delivery or restore.
* *References are not part of a checkpoint.* A restore into a new process starts with
  empty maps (`ownward_information_use.py:22`), and the short references of the
  restored trace lead nowhere there. `ReferencesKeepMeaning` is about the same tool
  session.

## 6. What is not modelled

* The contents of rows: text, digests, lexical, semantic and vector data, ranking,
  paging, codecs, prompts and model calls. They are data, not control.
* SQLite itself: transactions are atomic and isolated, a truncating checkpoint is
  busy exactly while a read snapshot is open.
* `Store.Close`.
* Control records (`control.go:20-59`), a fourth kind of row that may refer to a
  payload; they are staged and published like the others and `reclaimPayload` looks at
  them too.
* Errors that the environment causes in a batch of `PayloadStore`'s worker. They are
  stored in `maintenanceErr` and refuse calls until a later batch succeeds.
* Earlier kernels, legacy import, evaluation, release and installation tools.
* Of organizations: the order and the cursors of invalidation jobs, the construction
  of a rebuild before its final transaction, reclaim of versions, and staged rows
  that are left behind by a submission that lost its race (`streaming_submit.go:215`).
* Of information use: prompts, result formats and the stateless entries.
* Management, deployment and capabilities: see the plan.

## 7. Plan

In order of importance:

1. `ManagementControl`: the compare-and-swap of the control document, approvals,
   permissions and their execution. *An approval is executed at most once; access
   is refused from the decision on.* `ForgetPipeline` refines its forget part.
2. Invalidation jobs with their cursors and the jobs they spawn for dependent
   versions. *A version that is visible is based on visible revisions, or a job is on
   its way to it.*
3. `Rebuild`: the construction of a generation while results are published.
4. `Deployment`: restore and handoff with a crash between any two file steps.
5. `CapabilityLifecycle` and `ResourceBudget`, two small components that stand alone.

Proofs: each new module gets its theorems beside its runs. For the present ones, the
step of `ForgetPipeline` called `Cleanup` should be shown to be implemented by the
worker of `PayloadStore`, which needs a common abstract specification of both; and
`QueuesDrain` has a safety part worth stating as a theorem, namely that a batch of the
worker never adds to the work that is left.

The runs that only demonstrate one finding are small; when a finding is settled in
the code its property joins the passing run of the same module.
