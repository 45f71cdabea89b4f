--------------------------- MODULE ForgetPipeline ---------------------------
(***************************************************************************)
(* How an approved forget decision becomes an erased one.                  *)
(*                                                                         *)
(* Product.execute raises the barrier and moves the decision to cleaning;  *)
(* Product.cleanLoop drains the store's maintenance and records the        *)
(* decision as completed (internal/informationcontrol/forget.go).  In the  *)
(* store, Store.Maintain runs in several transactions: one batch of        *)
(* cleanup, then finishForget, which removes controlled copies, stops old  *)
(* readers, truncates the log and marks the operation complete             *)
(* (internal/boundedstore: maintenance.go, forget.go, backup.go,           *)
(* deployment_archive.go).  Maintain is called by the background worker    *)
(* and by cleanLoop's DrainMaintenance; readers and an exporter of backups *)
(* run next to it.  Each forget decision has its own target.               *)
(***************************************************************************)
EXTENDS Naturals

CONSTANTS
    Forget,      \* approved forget decisions
    Reader,      \* connections of the reader pool
    Copy,        \* identities of controlled copies
    None,        \* no decision, no copy
    MaxErrors,   \* bound: failing batches and failing control writes
    MaxRestarts  \* bound: process restarts

ASSUME LimitAssumption ==
    /\ MaxErrors \in Nat
    /\ MaxRestarts \in Nat
    /\ None \notin Forget \cup Copy

VARIABLES
    forgets,   \* per decision: control status, store state, rows, residue
    readers,   \* open read snapshots
    copies,    \* controlled_copies and their files
    batch,     \* the running Maintain, who called it and where it is
    worker,    \* the background goroutine and its wake channel
    exec,      \* the decision a Manage or Decide call is executing
    loop,      \* cleanLoop
    export,    \* the caller of exportArchive
    errors, restarts

vars == <<forgets, readers, copies, batch, worker, exec, loop, export, errors, restarts>>

NoBatch  == [by |-> "none", pc |-> "idle", op |-> None]
NoLoop   == [pc |-> "wait", wake |-> TRUE, todo |-> {}, op |-> None, failed |-> FALSE]
NoCopy   == [state |-> "none", file |-> FALSE, seen |-> {}]
NoReader == [open |-> FALSE, seen |-> {}]

Status == [f \in Forget |-> forgets[f].control]
NoExport == [pc |-> "idle", copy |-> None, control |-> [f \in Forget |-> "approved"]]

Init ==
    /\ forgets = [f \in Forget |->
          [control |-> "approved", store |-> "none", rows |-> "live", residue |-> TRUE]]
    /\ readers = [r \in Reader |-> NoReader]
    /\ copies = [c \in Copy |-> NoCopy]
    /\ batch = NoBatch
    /\ worker = [wake |-> TRUE, running |-> FALSE]
    /\ exec = None
    /\ loop = NoLoop
    /\ export = NoExport
    /\ errors = 0
    /\ restarts = 0

-----------------------------------------------------------------------------
\* The decisions whose barrier a transaction starting now can see.
Barriers == {f \in Forget : forgets[f].store # "none"}

\* Snapshot and RestoreSnapshot hold workAdmission; so does every Maintain.
Admitted == batch.pc # "idle" \/ export.pc \in {"copying", "verifying"}

\* copyMu: Snapshot holds it, and exportArchive holds it again afterwards.
CopyLocked == export.pc \in {"copying", "verifying", "archiving", "leaving"}

\* A copy with a row in controlled_copies.  The files of a lost one could not be
\* removed when its row was deleted.
HasRow(c) == copies[c].state \in {"building", "ready"}

\* A file through whose row maintenance will find it.
Findable(c) == copies[c].file /\ copies[c].state # "lost"

\* workMu: execute, and cleanLoop while it cleans one decision.
WorkLocked == exec # None \/ loop.pc \in {"draining", "marking"}

\* A write that is not maintenance wakes the worker (afterWrite).
Woken(w) == [w EXCEPT !.wake = TRUE]

Fail == errors < MaxErrors /\ errors' = errors + 1

-----------------------------------------------------------------------------
(* Product.execute.                                                        *)

\* Mutation of ExecuteStart: the status is not read again under workMu.
ExecuteStartUnchecked(f) ==
    /\ ~WorkLocked
    /\ forgets' = [forgets EXCEPT ![f].control = "stopping", ![f].store = "cleaning"]
    /\ exec' = f
    /\ worker' = Woken(worker)
    /\ UNCHANGED <<readers, copies, batch, loop, export, errors, restarts>>

\* StartForget and publishAuthorizedForget: one control transaction.
ExecuteStart(f) ==
    /\ ~WorkLocked
    /\ forgets[f].control = "approved"
    /\ forgets' = [forgets EXCEPT ![f].control = "stopping", ![f].store = "cleaning"]
    /\ exec' = f
    /\ worker' = Woken(worker)
    /\ UNCHANGED <<readers, copies, batch, loop, export, errors, restarts>>

\* mark(id, "cleaning"), then signal.
ExecuteMark ==
    /\ exec # None
    /\ forgets' = [forgets EXCEPT ![exec].control = "cleaning"]
    /\ exec' = None
    /\ loop' = [loop EXCEPT !.wake = TRUE]
    /\ worker' = Woken(worker)
    /\ UNCHANGED <<readers, copies, batch, export, errors, restarts>>

\* The write of mark fails: the decision stays stopping, signal still runs.
ExecuteFail ==
    /\ exec # None
    /\ Fail
    /\ exec' = None
    /\ loop' = [loop EXCEPT !.wake = TRUE]
    /\ UNCHANGED <<forgets, readers, copies, batch, worker, export, restarts>>

-----------------------------------------------------------------------------
(* Product.cleanLoop.                                                      *)

\* The loop takes its wake-up and reads the pending decisions.
LoopWake ==
    /\ loop.pc = "wait"
    /\ loop.wake
    /\ loop' = [pc |-> "next", wake |-> FALSE, op |-> None, failed |-> FALSE,
                todo |-> {f \in Forget : forgets[f].control \in {"stopping", "cleaning"}}]
    /\ UNCHANGED <<forgets, readers, copies, batch, worker, exec, export, errors, restarts>>

\* The next pending decision.  One that is still stopping is executed again:
\* the barrier exists, so this only repeats mark(id, "cleaning") and signal.
LoopTake(f) ==
    /\ loop.pc = "next"
    /\ f \in loop.todo
    /\ ~WorkLocked
    /\ IF forgets[f].control = "stopping"
       THEN /\ forgets' = [forgets EXCEPT ![f].control = "cleaning"]
            /\ worker' = Woken(worker)
            /\ loop' = [loop EXCEPT !.pc = "draining", !.op = f, !.todo = @ \ {f}, !.wake = TRUE]
       ELSE /\ loop' = [loop EXCEPT !.pc = "draining", !.op = f, !.todo = @ \ {f}]
            /\ UNCHANGED <<forgets, worker>>
    /\ UNCHANGED <<readers, copies, batch, exec, export, errors, restarts>>

\* cleanRelated succeeded after DrainMaintenance: mark(id, "completed").
LoopMark ==
    /\ loop.pc = "marking"
    /\ forgets' = [forgets EXCEPT ![loop.op].control = "completed"]
    /\ worker' = Woken(worker)
    /\ loop' = [loop EXCEPT !.pc = "next", !.op = None]
    /\ UNCHANGED <<readers, copies, batch, exec, export, errors, restarts>>

\* cleanRelated or the write of mark fails: the decision stays cleaning.
LoopMarkFail ==
    /\ loop.pc = "marking"
    /\ Fail
    /\ loop' = [loop EXCEPT !.pc = "next", !.op = None, !.failed = TRUE]
    /\ UNCHANGED <<forgets, readers, copies, batch, worker, exec, export, restarts>>

\* Mutation of LoopEnd: a finished round does not look for more work.
LoopEndForGood ==
    /\ loop.pc = "next"
    /\ loop.todo = {}
    /\ loop' = [loop EXCEPT !.pc = "wait", !.failed = FALSE]
    /\ UNCHANGED <<forgets, readers, copies, batch, worker, exec, export, errors, restarts>>

\* End of a round: a failed one comes back by timer, a good one comes back
\* at once when decisions are still pending.
LoopEnd ==
    /\ loop.pc = "next"
    /\ loop.todo = {}
    /\ loop' = [loop EXCEPT !.pc = "wait", !.failed = FALSE,
          !.wake = \/ @ \/ loop.failed
                   \/ \E f \in Forget : forgets[f].control \in {"stopping", "cleaning"}]
    /\ UNCHANGED <<forgets, readers, copies, batch, worker, exec, export, errors, restarts>>

-----------------------------------------------------------------------------
(* Store.Maintain.                                                         *)

WorkerWake ==
    /\ ~worker.running
    /\ worker.wake
    /\ worker' = [wake |-> FALSE, running |-> TRUE]
    /\ UNCHANGED <<forgets, readers, copies, batch, exec, loop, export, errors, restarts>>

MaintainBegin(who) ==
    /\ ~Admitted
    /\ \/ who = "worker" /\ worker.running
       \/ who = "drain" /\ loop.pc = "draining"
    /\ batch' = [by |-> who, pc |-> "cleanup", op |-> None]
    /\ UNCHANGED <<forgets, readers, copies, worker, exec, loop, export, errors, restarts>>

\* Any other committed write of the store wakes the worker too.
OtherWrite ==
    /\ ~worker.wake
    /\ worker' = Woken(worker)
    /\ UNCHANGED <<forgets, readers, copies, batch, exec, loop, export, errors, restarts>>

\* Maintain returns more.  No more work puts the worker to sleep and ends
\* DrainMaintenance without error.
Return(more) ==
    /\ batch' = NoBatch
    /\ IF more THEN UNCHANGED <<worker, loop>>
       ELSE IF batch.by = "worker"
            THEN worker' = [worker EXCEPT !.running = FALSE] /\ UNCHANGED loop
            ELSE loop' = [loop EXCEPT !.pc = "marking"] /\ UNCHANGED worker

Step(pc) == batch' = [batch EXCEPT !.pc = pc] /\ UNCHANGED <<worker, loop>>

\* The batch transaction: forgetBatch removes the rows of a target and queues
\* its payload; reclaimPayload erases a queued payload.  secure_delete clears
\* the cells, but the log and the pages it covers still hold the old bytes.
Uncleaned == {f \in Forget : forgets[f].store = "cleaning" /\ forgets[f].rows = "live"}
Queued == {f \in Forget : forgets[f].rows = "queued"}

Cleanup ==
    /\ batch.pc = "cleanup"
    /\ \/ \E f \in Uncleaned : forgets' = [forgets EXCEPT ![f].rows = "queued"] /\ Return(TRUE)
       \/ /\ Uncleaned = {}
          /\ \E f \in Queued : forgets' = [forgets EXCEPT ![f].rows = "erased"] /\ Return(TRUE)
       \/ /\ Uncleaned = {} /\ Queued = {}
          /\ Step("select")
          /\ UNCHANGED forgets
    /\ UNCHANGED <<readers, copies, exec, export, errors, restarts>>

\* finishForget: any operation in state cleaning, in a transaction of its own.
Select ==
    /\ batch.pc = "select"
    /\ \/ \E f \in Forget :
            /\ forgets[f].store = "cleaning"
            /\ batch' = [batch EXCEPT !.pc = "copies", !.op = f]
       \/ /\ \A f \in Forget : forgets[f].store # "cleaning"
          /\ batch' = [batch EXCEPT !.pc = "tail"]
    /\ UNCHANGED <<forgets, readers, copies, worker, exec, loop, export, errors, restarts>>

\* Mutation of CleanFiles: an error of the removal is ignored.
CleanFilesUnchecked(chosen) ==
    \E c \in chosen :
        /\ \E file \in {FALSE, copies[c].file} : copies' = [copies EXCEPT ![c].file = file]
        /\ batch' = [batch EXCEPT !.pc = "row", !.op = c]
        /\ UNCHANGED <<worker, loop>>

\* cleanCopies: the files of one copy go first, its row afterwards.
CleanFiles(chosen) ==
    \E c \in chosen :
        /\ copies' = [copies EXCEPT ![c].file = FALSE]
        /\ batch' = [batch EXCEPT !.pc = "row", !.op = c]
        /\ UNCHANGED <<worker, loop>>

\* Mutation of CleanCopies: finished copies are kept.
CleanCopiesUnfinished ==
    LET chosen == {c \in Copy : copies[c].state = "building"} IN
    /\ batch.pc = "copies"
    /\ IF CopyLocked \/ chosen = {}
       THEN Step("check") /\ UNCHANGED copies
       ELSE CleanFiles(chosen)
    /\ UNCHANGED <<forgets, readers, exec, export, errors, restarts>>

CleanCopies ==
    LET chosen == {c \in Copy : HasRow(c)} IN
    /\ batch.pc = "copies"
    /\ IF CopyLocked \/ chosen = {}
       THEN Step("check") /\ UNCHANGED copies
       ELSE CleanFiles(chosen)
    /\ UNCHANGED <<forgets, readers, exec, export, errors, restarts>>

CleanRow ==
    /\ batch.pc = "row"
    /\ copies' = [copies EXCEPT ![batch.op] = [NoCopy EXCEPT !.file = copies[batch.op].file]]
    /\ batch' = NoBatch
    /\ worker' = Woken(worker)
    /\ UNCHANGED <<forgets, readers, exec, loop, export, errors, restarts>>

\* Mutation of CheckCopies: a busy copyMu counts as no copy.
CheckCopiesNever ==
    /\ batch.pc = "check"
    /\ Step("checkpoint")
    /\ UNCHANGED <<forgets, readers, copies, exec, export, errors, restarts>>

\* A copy that is still there postpones the rest.  Otherwise cancelReaders
\* cancels the reads that are not control reads: their connections come back
\* later (CloseReader, which is possible at any time anyway), and new readers
\* may start before the checkpoint.
CheckCopies ==
    /\ batch.pc = "check"
    /\ IF \E c \in Copy : HasRow(c) THEN Step("tail") ELSE Step("checkpoint")
    /\ UNCHANGED <<forgets, readers, copies, exec, export, errors, restarts>>

\* Mutation of Checkpoint: the busy result is ignored.
CheckpointUnchecked ==
    /\ batch.pc = "checkpoint"
    /\ Step("complete")
    /\ UNCHANGED <<forgets, readers, copies, exec, export, errors, restarts>>

\* wal_checkpoint(TRUNCATE) with busy_timeout 0: any open snapshot makes it
\* busy, and finishForget then returns false without an error.
Checkpoint ==
    /\ batch.pc = "checkpoint"
    /\ IF \E r \in Reader : readers[r].open
       THEN Step("tail") /\ UNCHANGED forgets
       ELSE /\ forgets' = [f \in Forget |->
                  [forgets[f] EXCEPT !.residue = @ /\ forgets[f].rows # "erased"]]
            /\ Step("complete")
    /\ UNCHANGED <<readers, copies, exec, export, errors, restarts>>

\* Mutation of Complete: the control's word is written into the store's row.
CompleteAsControl ==
    /\ batch.pc = "complete"
    /\ forgets' = [forgets EXCEPT ![batch.op].store = "completed"]
    /\ batch' = NoBatch
    /\ worker' = Woken(worker)
    /\ UNCHANGED <<readers, copies, exec, loop, export, errors, restarts>>

\* UPDATE forget_operations SET state='complete' WHERE id=? AND state='cleaning'.
Complete ==
    /\ batch.pc = "complete"
    /\ forgets' = [forgets EXCEPT ![batch.op].store = "complete"]
    /\ batch' = NoBatch
    /\ worker' = Woken(worker)
    /\ UNCHANGED <<readers, copies, exec, loop, export, errors, restarts>>

\* cleanCopies(false) removes abandoned copies; vacuumBatch ends the call.
Tail ==
    LET chosen == {c \in Copy : copies[c].state = "building"} IN
    /\ batch.pc = "tail"
    /\ IF CopyLocked \/ chosen = {}
       THEN Return(FALSE) /\ UNCHANGED copies
       ELSE CleanFiles(chosen)
    /\ UNCHANGED <<forgets, readers, exec, export, errors, restarts>>

\* Any step of Maintain may fail.  The worker sleeps until the next write;
\* cleanLoop records the failure, which wakes the worker, and retries later.
MaintainFail ==
    /\ batch.pc # "idle"
    /\ Fail
    /\ batch' = NoBatch
    /\ IF batch.by = "worker"
       THEN worker' = [worker EXCEPT !.running = FALSE] /\ UNCHANGED loop
       ELSE /\ loop' = [loop EXCEPT !.pc = "next", !.op = None, !.failed = TRUE]
            /\ worker' = Woken(worker)
    /\ UNCHANGED <<forgets, readers, copies, exec, export, restarts>>

-----------------------------------------------------------------------------
(* Readers.                                                                *)

OpenReader(r) ==
    /\ ~readers[r].open
    /\ readers' = [readers EXCEPT ![r] = [open |-> TRUE, seen |-> Barriers]]
    /\ UNCHANGED <<forgets, copies, batch, worker, exec, loop, export, errors, restarts>>

\* A read ends by itself or after its cancellation.  It wakes the worker only
\* when the log is large, which the model leaves open.
CloseReader(r) ==
    /\ readers[r].open
    /\ readers' = [readers EXCEPT ![r] = NoReader]
    /\ UNCHANGED <<forgets, copies, batch, worker, exec, loop, export, errors, restarts>>

-----------------------------------------------------------------------------
(* exportArchive: Snapshot, then a copy of the snapshot is linked.         *)

\* Snapshot's first transaction refuses while an operation is cleaning.
SnapshotBegin(c) ==
    /\ export.pc = "idle"
    /\ ~Admitted
    /\ copies[c].state = "none" /\ ~copies[c].file
    /\ \A f \in Forget : forgets[f].store # "cleaning"
    /\ copies' = [copies EXCEPT ![c].state = "building", ![c].seen = Barriers]
    /\ export' = [pc |-> "copying", copy |-> c, control |-> Status]
    /\ worker' = Woken(worker)
    /\ UNCHANGED <<forgets, readers, batch, exec, loop, errors, restarts>>

SnapshotCopy ==
    /\ export.pc = "copying"
    /\ copies' = [copies EXCEPT ![export.copy].file = TRUE]
    /\ export' = [export EXCEPT !.pc = "verifying"]
    /\ UNCHANGED <<forgets, readers, batch, worker, exec, loop, errors, restarts>>

\* The second transaction: nothing was decided meanwhile.
SnapshotReady ==
    /\ export.pc = "verifying"
    /\ Status = export.control
    /\ copies' = [copies EXCEPT ![export.copy].state = "ready"]
    /\ export' = [export EXCEPT !.pc = "delivered"]
    /\ worker' = Woken(worker)
    /\ UNCHANGED <<forgets, readers, batch, exec, loop, errors, restarts>>

\* Snapshot fails: the files are removed if they can be, the row is left to
\* maintenance.
SnapshotFail ==
    /\ export.pc \in {"copying", "verifying"}
    /\ \/ copies' = [copies EXCEPT ![export.copy].file = FALSE] /\ UNCHANGED errors
       \/ copies[export.copy].file /\ Fail /\ UNCHANGED copies
    /\ export' = NoExport
    /\ worker' = Woken(worker)
    /\ UNCHANGED <<forgets, readers, batch, exec, loop, restarts>>

\* exportArchive takes copyMu again; in between Maintain may remove the copy.
ExportLock ==
    /\ export.pc = "delivered"
    /\ batch.pc # "row"
    /\ export' = [export EXCEPT !.pc = IF copies[export.copy].file THEN "archiving" ELSE "leaving"]
    /\ UNCHANGED <<forgets, readers, copies, batch, worker, exec, loop, errors, restarts>>

\* Mutation of ExportLink: the control revision is not compared.
ExportLinkUnchecked ==
    /\ export.pc = "archiving"
    /\ copies[export.copy].file
    /\ export' = [export EXCEPT !.pc = "leaving"]
    /\ worker' = Woken(worker)
    /\ UNCHANGED <<forgets, readers, copies, batch, exec, loop, errors, restarts>>

\* The archive is linked inside a transaction that sees the same revision.
ExportLink ==
    /\ export.pc = "archiving"
    /\ copies[export.copy].file
    /\ Status = export.control
    /\ export' = [export EXCEPT !.pc = "leaving"]
    /\ worker' = Woken(worker)
    /\ UNCHANGED <<forgets, readers, copies, batch, exec, loop, errors, restarts>>

ExportRefuse ==
    /\ export.pc = "archiving"
    /\ export' = [export EXCEPT !.pc = "leaving"]
    /\ UNCHANGED <<forgets, readers, copies, batch, worker, exec, loop, errors, restarts>>

\* The deferred clean-up ignores both its errors.  Its DELETE runs on the
\* writer connection without the gate: inside another caller's transaction it
\* may be rolled back.  It also runs when the files could not be removed, which
\* are then lost to maintenance.
ExportEnd ==
    LET c == export.copy IN
    /\ export.pc = "leaving"
    /\ \/ copies' = [copies EXCEPT ![c] = NoCopy] /\ UNCHANGED errors
       \/ copies' = [copies EXCEPT ![c].file = FALSE] /\ UNCHANGED errors
       \/ /\ copies[c].file /\ Fail
          /\ copies' = [copies EXCEPT ![c].state = "lost"] \/ UNCHANGED copies
    /\ export' = NoExport
    /\ UNCHANGED <<forgets, readers, batch, worker, exec, loop, restarts>>

-----------------------------------------------------------------------------
\* The process ends anywhere and starts again; rows, log and files remain.
Restart ==
    /\ restarts < MaxRestarts
    /\ restarts' = restarts + 1
    /\ readers' = [r \in Reader |-> NoReader]
    /\ batch' = NoBatch
    /\ worker' = [wake |-> TRUE, running |-> FALSE]
    /\ exec' = None
    /\ loop' = NoLoop
    /\ export' = NoExport
    /\ UNCHANGED <<forgets, copies, errors>>

ExecuteStep == ExecuteMark \/ ExecuteFail
LoopStep == \/ LoopWake \/ LoopMark \/ LoopMarkFail \/ LoopEnd
            \/ \E f \in Forget : LoopTake(f)
MaintainStep ==
    \/ Cleanup \/ Select \/ CleanCopies \/ CleanRow \/ CheckCopies
    \/ Checkpoint \/ Complete \/ Tail \/ MaintainFail
ExportStep == \/ SnapshotCopy \/ SnapshotReady \/ SnapshotFail \/ ExportLock
              \/ ExportLink \/ ExportRefuse \/ ExportEnd

Next ==
    \/ \E f \in Forget : ExecuteStart(f)
    \/ ExecuteStep
    \/ LoopStep
    \/ WorkerWake \/ OtherWrite
    \/ \E who \in {"worker", "drain"} : MaintainBegin(who)
    \/ MaintainStep
    \/ \E r \in Reader : OpenReader(r) \/ CloseReader(r)
    \/ \E c \in Copy : SnapshotBegin(c)
    \/ ExportStep
    \/ Restart

Spec == Init /\ [][Next]_vars

\* Calls and goroutines go on, and the gate admits each Maintain caller again
\* and again.  Nothing is assumed of readers.
Fairness ==
    /\ WF_vars(ExecuteStep)
    /\ WF_vars(LoopStep)
    /\ SF_vars(\E f \in Forget : LoopTake(f))
    /\ WF_vars(WorkerWake)
    /\ SF_vars(MaintainBegin("worker"))
    /\ SF_vars(MaintainBegin("drain"))
    /\ WF_vars(MaintainStep)
    /\ WF_vars(ExportStep)

FairSpec == Spec /\ Fairness

-----------------------------------------------------------------------------
TypeOK ==
    /\ forgets \in [Forget ->
          [control : {"approved", "stopping", "cleaning", "completed"},
           store : {"none", "cleaning", "complete"},
           rows : {"live", "queued", "erased"}, residue : BOOLEAN]]
    /\ readers \in [Reader -> [open : BOOLEAN, seen : SUBSET Forget]]
    /\ copies \in [Copy -> [state : {"none", "building", "ready", "lost"}, file : BOOLEAN,
                            seen : SUBSET Forget]]
    /\ batch \in [by : {"none", "worker", "drain"},
                  pc : {"idle", "cleanup", "select", "copies", "row", "check",
                        "checkpoint", "complete", "tail"},
                  op : Forget \cup Copy \cup {None}]
    /\ worker \in [wake : BOOLEAN, running : BOOLEAN]
    /\ exec \in Forget \cup {None}
    /\ loop \in [pc : {"wait", "next", "draining", "marking"}, wake : BOOLEAN,
                 todo : SUBSET Forget, op : Forget \cup {None}, failed : BOOLEAN]
    /\ export \in [pc : {"idle", "copying", "verifying", "delivered", "archiving", "leaving"},
                   copy : Copy \cup {None},
                   control : [Forget -> {"approved", "stopping", "cleaning", "completed"}]]
    /\ errors \in 0..MaxErrors
    /\ restarts \in 0..MaxRestarts

\* When the store calls an operation complete, no read snapshot from before
\* its barrier is still open, although reads start and end at any time.
OldSnapshotsEnded ==
    \A f \in Forget, r \in Reader :
        forgets[f].store = "complete" /\ readers[r].open => f \in readers[r].seen

\* ... and no controlled copy from before its barrier has a file left that
\* maintenance could have found.
NoOldCopies ==
    \A f \in Forget, c \in Copy :
        forgets[f].store = "complete" /\ Findable(c) => f \in copies[c].seen

\* Completion leaves nothing behind in which the target could still be read,
\* a copy whose removal exportArchive gave up excepted.
NothingOldSurvives == OldSnapshotsEnded /\ NoOldCopies

\* A file of a controlled copy has the row through which maintenance will find
\* it, whatever fails or crashes half-way in Snapshot and in cleanCopies: only
\* exportArchive, which ignores a failing removal, loses one.
NoOrphanCopy == \A c \in Copy : copies[c].file => copies[c].state # "none"

\* A backup leaves the store only if no barrier was raised since its copy
\* began: at the moment of the link it knows every forget decision.
ArchiveKnowsBarriers ==
    [][ExportLink => copies[export.copy].seen = Barriers]_vars

\* A decision's recorded status only moves forward, under concurrent
\* execution, cleaning rounds, retries and restarts.
Rank == [approved |-> 0, stopping |-> 1, cleaning |-> 2, completed |-> 3]
StatusOnlyAdvances ==
    [][\A f \in Forget : Rank[forgets[f].control] <= Rank[forgets'[f].control]]_vars

\* Every decision that was started is eventually completed, by the store as
\* well as in its record, although batches fail, rounds postpone the completion
\* and the process restarts: provided that the reads which keep the checkpoint
\* busy and the backups which keep maintenance busy cease, and that now and then
\* a write wakes the worker, for a postponed completion has no other cause to be
\* tried again.
DecisionsComplete ==
    \A f \in Forget :
        <>[](export.pc = "idle" /\ \A r \in Reader : ~readers[r].open) /\ []<>worker.wake =>
            (forgets[f].control = "stopping" ~>
                forgets[f].control = "completed" /\ forgets[f].store = "complete")

\* A decision reported as completed is complete in the store: its old snapshots
\* have ended and the log has been cleared.
CompletedIsFinished ==
    \A f \in Forget : forgets[f].control = "completed" => forgets[f].store = "complete"

\* finishForget's premise: an operation it completes has been cleaned ("all
\* earlier durable cleanup queues have drained").
CompleteMeansErased ==
    \A f \in Forget : forgets[f].store = "complete" =>
        forgets[f].rows = "erased" /\ ~forgets[f].residue
=============================================================================
