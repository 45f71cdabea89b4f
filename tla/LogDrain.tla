------------------------------ MODULE LogDrain ------------------------------
(***************************************************************************)
(* How the bounded store keeps its write-ahead log short: reader leases,   *)
(* the admission of writes, and the maintenance goroutine's log step       *)
(* (internal/boundedstore: scheduler.go, store.go, maintenance.go,         *)
(* backup.go).                                                             *)
(*                                                                         *)
(* A log that reaches the ordinary limit makes the store drain: ordinary   *)
(* reads are not admitted any more, and whoever needs the space truncates  *)
(* the log once no read snapshot is open.  Waiters hold the channel        *)
(* readerChanged that was current when they last looked; signalling closes *)
(* it.  Who gets the gates first is the subject of WriteGate.              *)
(***************************************************************************)
EXTENDS Naturals, FiniteSets

CONSTANTS
    Foreground, \* product calls; each holds workAdmission from start to end
    Plain,      \* ordinary calls without workAdmission: drafts, work leases
    Controls,   \* control calls; one of them may be a backup
    Worker,     \* the maintenance goroutine
    None,       \* nobody
    Hinting,    \* foreground calls that write inside their read snapshot
    Copying,    \* foreground calls that stage a stored revision again
    Leavers,    \* callers whose context may end during a write
    Conns,      \* reader connections (2)
    Passive,    \* walPassive, walOrdinary and walControl in multiples of
    Ordinary,   \* walTransactionReserve, which one transaction may write:
    Control     \* 4, 12 and 16

Caller == Foreground \cup Plain \cup Controls
Proc == Caller \cup {Worker}

ASSUME DrainAssumption ==
    /\ Worker \notin Caller /\ None \notin Proc
    /\ Copying \subseteq Foreground /\ Hinting \subseteq Foreground \ Copying
    /\ Leavers \subseteq Caller
    /\ Conns \in Nat \ {0}
    /\ Passive \in Nat /\ Ordinary \in Nat /\ Control \in Nat
    /\ 0 < Passive /\ Passive <= Ordinary /\ 1 < Ordinary /\ Ordinary < Control

VARIABLES
    wal,       \* size of the log file
    draining,  \* s.draining
    frozen,    \* the backup that set s.copyFrozen, or None
    gate,      \* holder of writeMu
    admission, \* holder of workAdmission
    last,      \* workAdmission.last is maintenanceWork
    at,        \* where each goroutine is
    read,      \* its reader lease
    inside,    \* writes whose context carries the caller's own snapshot
    heard,     \* goroutines whose remembered readerChanged has been closed
    wake,      \* maintenanceWake holds a token
    urgent,    \* the worker's write is a control one
    cut        \* finishForget emptied the log of this drain (history)

vars == <<wal, draining, frozen, gate, admission, last, at, read, inside, heard, wake,
          urgent, cut>>

(***************************************************************************)
(* out, waiting       not in a call; the worker wants workAdmission        *)
(* in, left           between two store calls; only leaving is left to do  *)
(* read, blocked      in reader(), not admitted yet; kept out by a drain   *)
(* gate               in admitWrite, wants writeMu                         *)
(* checkpoint         in admitWrite, log too large, about to truncate      *)
(* asleep, stopped    waits for a reader to end; waits for a backup to end *)
(* granted            inside its transaction                               *)
(* log, truncate      the worker in maintainWAL                            *)
(* finish             the worker in finishForget, about to truncate        *)
(***************************************************************************)
Place == {"out", "waiting", "in", "left", "read", "blocked", "gate", "checkpoint",
          "asleep", "stopped", "granted", "log", "truncate", "finish"}

\* none; lease taken, no snapshot yet; snapshot open; lease cancelled but the
\* snapshot still open; snapshot gone, lease not returned yet.
Lease == {"none", "leased", "open", "cancelled", "dead"}

ClassOf(p) ==
    IF p = Worker THEN "maintenance" ELSE IF p \in Controls THEN "control" ELSE "ordinary"

Init ==
    /\ wal = 0
    /\ draining = FALSE
    /\ frozen = None
    /\ gate = None
    /\ admission = None
    /\ last = FALSE
    /\ at = [p \in Proc |-> "out"]
    /\ read = [p \in Proc |-> "none"]
    /\ inside = {}
    /\ heard = {}
    /\ wake = TRUE
    /\ urgent = FALSE
    /\ cut = FALSE

-----------------------------------------------------------------------------
\* A snapshot that keeps a truncating checkpoint busy.
Busy == \E p \in Proc : read[p] \in {"open", "cancelled"}

\* cancelReaders: the leases of everyone but controls.
CancelReaders ==
    [p \in Proc |->
        IF ClassOf(p) = "control" THEN read[p]
        ELSE IF read[p] = "open" THEN "cancelled"
        ELSE IF read[p] = "leased" THEN "dead" ELSE read[p]]

\* The class a write is admitted as.
WriteClass(p) == IF p = Worker /\ urgent THEN "control" ELSE ClassOf(p)

Limit(p) == IF WriteClass(p) = "control" THEN Control ELSE Ordinary

Go(p, place) == at' = [at EXCEPT ![p] = place]

-----------------------------------------------------------------------------
(* Calls.                                                                  *)

\* BeginForeground, or a call that takes no workAdmission.  The gate lets the
\* worker go first when it waits and the last one in was a product call.
Enter(p) ==
    /\ at[p] = "out"
    /\ p \in Foreground => admission = None /\ (at[Worker] = "waiting" => last)
    /\ admission' = IF p \in Foreground THEN p ELSE admission
    /\ last' = (last /\ p \notin Foreground)
    /\ Go(p, "in")
    /\ UNCHANGED <<wal, draining, frozen, gate, read, inside, heard, wake, urgent, cut>>

\* Snapshot takes workAdmission as a control.
EnterBackup(p) ==
    /\ p \in Controls
    /\ at[p] = "out"
    /\ admission = None
    /\ admission' = p
    /\ Go(p, "in")
    /\ UNCHANGED <<wal, draining, frozen, gate, read, inside, heard, wake,
                   last, urgent, cut>>

Leave(p) ==
    /\ p # Worker
    /\ at[p] \in {"in", "left"}
    /\ read[p] = "none"
    /\ frozen # p
    /\ admission' = IF admission = p THEN None ELSE admission
    /\ Go(p, "out")
    /\ UNCHANGED <<wal, draining, frozen, gate, read, inside, heard, wake,
                   last, urgent, cut>>

-----------------------------------------------------------------------------
(* reader().                                                               *)

WantRead(p) ==
    /\ at[p] = "in"
    /\ read[p] = "none"
    /\ Go(p, "read")
    /\ UNCHANGED <<wal, draining, frozen, gate, admission, read, inside, heard,
                   wake, last, urgent, cut>>

\* About to look at draining: at first, or after a signal.
Looking(p) == at[p] = "read" \/ (at[p] = "blocked" /\ p \in heard)

\* A drain keeps ordinary work out: remember readerChanged and wait for it.
BlockRead(p) ==
    /\ Looking(p)
    /\ draining /\ ClassOf(p) = "ordinary"
    /\ heard' = heard \ {p}
    /\ Go(p, "blocked")
    /\ UNCHANGED <<wal, draining, frozen, gate, admission, read, inside, wake,
                   last, urgent, cut>>

\* Mutation of TakeLease: a connection taken from the pool is not checked
\* against draining.
TakeLeaseAlways(p) ==
    /\ Looking(p)
    /\ Cardinality({q \in Proc : read[q] # "none"}) < Conns
    /\ read' = [read EXCEPT ![p] = "leased"]
    /\ Go(p, "in")
    /\ UNCHANGED <<wal, draining, frozen, gate, admission, inside, heard, wake,
                   last, urgent, cut>>

\* A connection is free and, for ordinary work, the store is not draining.
TakeLease(p) ==
    /\ Looking(p)
    /\ ~(draining /\ ClassOf(p) = "ordinary")
    /\ Cardinality({q \in Proc : read[q] # "none"}) < Conns
    /\ read' = [read EXCEPT ![p] = "leased"]
    /\ Go(p, "in")
    /\ UNCHANGED <<wal, draining, frozen, gate, admission, inside, heard, wake,
                   last, urgent, cut>>

\* The caller's context ends while it waits to read.
GiveUpRead(p) ==
    /\ p \in Caller
    /\ at[p] \in {"read", "blocked"}
    /\ Go(p, "left")
    /\ UNCHANGED <<wal, draining, frozen, gate, admission, read, inside, heard,
                   wake, last, urgent, cut>>

\* BeginTx of WithSnapshot or snapshotReader.
BeginRead(p) ==
    /\ at[p] = "in"
    /\ read[p] = "leased"
    /\ read' = [read EXCEPT ![p] = "open"]
    /\ UNCHANGED <<wal, draining, frozen, gate, admission, at, inside, heard,
                   wake, last, urgent, cut>>

\* The transaction of a cancelled lease is rolled back in the background.
Abort(p) ==
    /\ read[p] = "cancelled"
    /\ read' = [read EXCEPT ![p] = "dead"]
    /\ UNCHANGED <<wal, draining, frozen, gate, admission, at, inside, heard,
                   wake, last, urgent, cut>>

\* Mutation of EndRead: the lease goes back without a signal.
EndReadSilently(p) ==
    /\ at[p] \in {"in", "left"}
    /\ read[p] # "none"
    /\ read' = [read EXCEPT ![p] = "none"]
    /\ wake' = (wake \/ (ClassOf(p) # "maintenance" /\ wal >= Passive))
    /\ UNCHANGED <<wal, draining, frozen, gate, admission, at, inside, heard,
                   last, urgent, cut>>

\* Rollback and the lease's release: signal, connection back, wake the worker.
EndRead(p) ==
    /\ at[p] \in {"in", "left"}
    /\ read[p] # "none"
    /\ read' = [read EXCEPT ![p] = "none"]
    /\ heard' = Proc
    /\ wake' = (wake \/ (ClassOf(p) # "maintenance" /\ wal >= Passive))
    /\ UNCHANGED <<wal, draining, frozen, gate, admission, at, inside, last,
                   urgent, cut>>

-----------------------------------------------------------------------------
(* write() and admitWrite().                                               *)

\* A write begins.  Callers have given their lease back, except a product
\* call that writes from inside its snapshot (a repair hint or a cursor, the
\* context says so) and one that stages from a reader of a stored revision
\* (the context does not say so).  The worker deletes the row of a controlled
\* copy as a control (cleanCopies).
WantWrite(p) ==
    /\ at[p] = "in"
    /\ read[p] = "none" \/ (p \in Hinting \cup Copying /\ read[p] # "leased")
    /\ inside' = IF read[p] # "none" /\ p \in Hinting THEN inside \cup {p} ELSE inside \ {p}
    /\ urgent' \in IF p = Worker THEN BOOLEAN ELSE {urgent}
    /\ Go(p, "gate")
    /\ UNCHANGED <<wal, draining, frozen, gate, admission, read, heard, wake,
                   last, cut>>

\* A backup is being copied: only controls write.  The gate is released.
AdmitFrozen(p) ==
    /\ at[p] = "gate"
    /\ gate = None
    /\ frozen # None /\ WriteClass(p) # "control"
    /\ heard' = heard \ {p}
    /\ Go(p, "stopped")
    /\ UNCHANGED <<wal, draining, frozen, gate, admission, read, inside, wake,
                   last, urgent, cut>>

\* Mutation of Admit: every class may use the space up to the control limit.
AdmitToControl(p) ==
    /\ at[p] = "gate"
    /\ gate = None
    /\ frozen = None \/ WriteClass(p) = "control"
    /\ wal + 1 < Control
    /\ gate' = p
    /\ Go(p, "granted")
    /\ UNCHANGED <<wal, draining, frozen, admission, read, inside, heard, wake,
                   last, urgent, cut>>

\* The log has room for one more transaction of this class.
Admit(p) ==
    /\ at[p] = "gate"
    /\ gate = None
    /\ frozen = None \/ WriteClass(p) = "control"
    /\ wal + 1 < Limit(p)
    /\ gate' = p
    /\ Go(p, "granted")
    /\ UNCHANGED <<wal, draining, frozen, admission, read, inside, heard, wake,
                   last, urgent, cut>>

\* It has not: drain, cancel reads for a control, remember readerChanged.
AdmitDraining(p) ==
    /\ at[p] = "gate"
    /\ gate = None
    /\ frozen = None \/ WriteClass(p) = "control"
    /\ wal + 1 >= Limit(p)
    /\ gate' = p
    /\ draining' = TRUE
    /\ cut' = FALSE
    /\ heard' = (IF draining THEN heard ELSE Proc) \ {p}
    /\ read' = IF WriteClass(p) = "control" THEN CancelReaders ELSE read
    /\ Go(p, "checkpoint")
    /\ UNCHANGED <<wal, frozen, admission, inside, wake, last, urgent>>

\* Mutation of Truncated: the drain goes on.
TruncatedOnly(p) ==
    /\ at[p] = "checkpoint"
    /\ ~Busy
    /\ wal' = 0
    /\ Go(p, "granted")
    /\ UNCHANGED <<draining, heard, frozen, gate, admission, read, inside,
                   wake, last, urgent, cut>>

\* The truncating checkpoint succeeds and the write goes on.
Truncated(p) ==
    /\ at[p] = "checkpoint"
    /\ ~Busy
    /\ wal' = 0
    /\ draining' = FALSE
    /\ cut' = FALSE
    /\ heard' = Proc
    /\ Go(p, "granted")
    /\ UNCHANGED <<frozen, gate, admission, read, inside, wake, last, urgent>>

\* Mutation of TruncateBusy: a write inside its own snapshot waits like any other.
TruncateBusyWaits(p) ==
    /\ at[p] = "checkpoint"
    /\ Busy
    /\ gate' = None
    /\ Go(p, "asleep")
    /\ UNCHANGED <<wal, draining, frozen, admission, read, inside, heard, wake,
                   last, urgent, cut>>

\* It is busy: a write inside its own snapshot fails and its call with it,
\* another one waits.
TruncateBusy(p) ==
    /\ at[p] = "checkpoint"
    /\ Busy
    /\ gate' = None
    /\ Go(p, IF p \in inside THEN "left" ELSE "asleep")
    /\ UNCHANGED <<wal, draining, frozen, admission, read, inside, heard, wake,
                   last, urgent, cut>>

\* A waiter tries again: after a signal, or for a control after 10 ms.
Retry(p) ==
    /\ \/ at[p] = "asleep" /\ (p \in heard \/ WriteClass(p) = "control")
       \/ at[p] = "stopped" /\ p \in heard
    /\ Go(p, "gate")
    /\ UNCHANGED <<wal, draining, frozen, gate, admission, read, inside, heard,
                   wake, last, urgent, cut>>

\* The caller's context ends while it waits to write or in the checkpoint
\* statement.  What admitWrite has set stays as it is.
GiveUp(p) ==
    /\ p \in Leavers
    /\ at[p] \in {"gate", "checkpoint", "asleep", "stopped"}
    /\ gate' = IF gate = p THEN None ELSE gate
    /\ Go(p, "left")
    /\ UNCHANGED <<wal, draining, frozen, admission, read, inside, heard, wake,
                   last, urgent, cut>>

\* fn or a late look at the context fails: nothing is written, nobody woken.
Rollback(p) ==
    /\ at[p] = "granted"
    /\ gate' = None
    /\ urgent' = (urgent /\ p # Worker)
    /\ Go(p, "in")
    /\ UNCHANGED <<wal, draining, frozen, admission, read, inside, heard, wake,
                   last, cut>>

\* Mutation of Commit: a transaction may write more than the reserve.
CommitTwice(p) ==
    /\ at[p] = "granted"
    /\ wal' \in {wal, wal + 2}
    /\ gate' = None
    /\ wake' = (wake \/ WriteClass(p) # "maintenance")
    /\ urgent' = (urgent /\ p # Worker)
    /\ Go(p, "in")
    /\ UNCHANGED <<draining, frozen, admission, read, inside, heard, last, cut>>

\* The transaction commits; afterWrite wakes the worker.
Commit(p) ==
    /\ at[p] = "granted"
    /\ wal' \in {wal, wal + 1}
    /\ gate' = None
    /\ wake' = (wake \/ WriteClass(p) # "maintenance")
    /\ urgent' = (urgent /\ p # Worker)
    /\ Go(p, "in")
    /\ UNCHANGED <<draining, frozen, admission, read, inside, heard, last, cut>>

\* The first transaction of a backup freezes other writers ...
Freeze(p) ==
    /\ at[p] = "granted"
    /\ p \in Controls /\ admission = p /\ frozen = None
    /\ frozen' = p
    /\ wal' \in {wal, wal + 1}
    /\ gate' = None
    /\ wake' = TRUE
    /\ Go(p, "in")
    /\ UNCHANGED <<draining, admission, read, inside, heard, last, urgent, cut>>

\* Mutation of Unfreeze: nobody is woken.
UnfreezeSilently(p) ==
    /\ frozen = p
    /\ at[p] \in {"in", "left"}
    /\ read[p] = "none"
    /\ frozen' = None
    /\ wake' = TRUE
    /\ UNCHANGED <<wal, draining, gate, admission, at, read, inside, heard,
                   last, urgent, cut>>

\* ... until the copy is done: freezeCopy(false), wakeMaintenance.
Unfreeze(p) ==
    /\ frozen = p
    /\ at[p] \in {"in", "left"}
    /\ read[p] = "none"
    /\ frozen' = None
    /\ heard' = Proc
    /\ wake' = TRUE
    /\ UNCHANGED <<wal, draining, gate, admission, at, read, inside, last, urgent, cut>>

-----------------------------------------------------------------------------
(* The maintenance goroutine.                                              *)

WorkerWake ==
    /\ at[Worker] = "out"
    /\ wake
    /\ wake' = FALSE
    /\ Go(Worker, "waiting")
    /\ UNCHANGED <<wal, draining, frozen, gate, admission, read, inside, heard,
                   last, urgent, cut>>

WorkerEnter ==
    /\ at[Worker] = "waiting"
    /\ admission = None
    /\ admission' = Worker
    /\ last' = TRUE
    /\ Go(Worker, "log")
    /\ UNCHANGED <<wal, draining, frozen, gate, read, inside, heard, wake, urgent, cut>>

\* maintainWAL: a short log needs nothing, a PASSIVE checkpoint does not
\* shorten the file, and a long log is truncated.
MaintainLog ==
    /\ at[Worker] = "log"
    /\ wal >= Passive => gate = None
    /\ IF wal + 1 >= Ordinary /\ wal >= Passive
       THEN /\ gate' = Worker
            /\ draining' = TRUE
            /\ cut' = FALSE
            /\ heard' = IF draining THEN heard ELSE Proc
            /\ Go(Worker, "truncate")
       ELSE Go(Worker, "gate") /\ UNCHANGED <<gate, draining, heard, cut>>
    /\ UNCHANGED <<wal, frozen, admission, read, inside, wake, last, urgent>>

\* Mutation of TruncateLog: the drain is left to the writers.
TruncateLogOnly ==
    /\ at[Worker] = "truncate"
    /\ wal' = IF Busy THEN wal ELSE 0
    /\ gate' = None
    /\ Go(Worker, "gate")
    /\ UNCHANGED <<draining, heard, frozen, admission, read, inside, wake,
                   last, urgent, cut>>

TruncateLog ==
    /\ at[Worker] = "truncate"
    /\ IF Busy THEN UNCHANGED <<wal, draining, heard, cut>>
       ELSE wal' = 0 /\ draining' = FALSE /\ cut' = FALSE /\ heard' = Proc
    /\ gate' = None
    /\ Go(Worker, "gate")
    /\ UNCHANGED <<frozen, admission, read, inside, wake, last, urgent>>

\* finishForget has found a decision to complete and no copy left: it cancels
\* the readers and asks for writeMu.
FinishForget ==
    /\ at[Worker] = "in"
    /\ read[Worker] = "none"
    /\ read' = CancelReaders
    /\ Go(Worker, "finish")
    /\ UNCHANGED <<wal, draining, frozen, gate, admission, inside, heard, wake, last, urgent,
                   cut>>

\* Its truncating checkpoint.  A busy one postpones the completion; after one
\* that succeeds the decision is marked complete, as a control.  Unlike every
\* other truncation it leaves draining as it is.
FinishTruncate ==
    /\ at[Worker] = "finish"
    /\ gate = None
    /\ IF Busy THEN Go(Worker, "in") /\ UNCHANGED <<wal, urgent, cut>>
       ELSE Go(Worker, "gate") /\ wal' = 0 /\ urgent' = TRUE /\ cut' = draining
    /\ UNCHANGED <<draining, frozen, gate, admission, read, inside, heard, wake, last>>

\* Maintain returns, with or without more work.
WorkerLeave ==
    /\ at[Worker] = "in"
    /\ read[Worker] = "none"
    /\ admission' = None
    /\ \E next \in {"out", "waiting"} : Go(Worker, next)
    /\ UNCHANGED <<wal, draining, frozen, gate, read, inside, heard, wake,
                   last, urgent, cut>>

-----------------------------------------------------------------------------
Next ==
    \/ \E p \in Caller : Enter(p) \/ EnterBackup(p) \/ Leave(p)
                            \/ GiveUpRead(p) \/ GiveUp(p)
    \/ \E p \in Proc :
         \/ WantRead(p) \/ BlockRead(p) \/ TakeLease(p)
         \/ BeginRead(p) \/ Abort(p) \/ EndRead(p)
         \/ WantWrite(p) \/ AdmitFrozen(p) \/ Admit(p) \/ AdmitDraining(p)
         \/ Truncated(p) \/ TruncateBusy(p) \/ Retry(p)
         \/ Rollback(p) \/ Commit(p) \/ Freeze(p) \/ Unfreeze(p)
    \/ WorkerWake \/ WorkerEnter \/ MaintainLog \/ TruncateLog \/ WorkerLeave
    \/ FinishForget \/ FinishTruncate

Spec == Init /\ [][Next]_vars

\* What a goroutine does by itself once the call it is in has begun.
Progress(p) ==
    \/ BlockRead(p) \/ BeginRead(p) \/ Abort(p)
    \/ Admit(p) \/ AdmitFrozen(p) \/ AdmitDraining(p)
    \/ Truncated(p) \/ TruncateBusy(p) \/ Retry(p)
    \/ Rollback(p) \/ Commit(p) \/ Freeze(p) \/ Unfreeze(p)
    \/ p = Worker /\ (WorkerWake \/ WorkerEnter \/ MaintainLog \/ TruncateLog
                        \/ FinishTruncate)

(***************************************************************************)
(* Fairness.  The gates and the pool admit a waiter that keeps finding     *)
(* them free (WriteGate), and a goroutine that can go on does.  Reads and  *)
(* calls are finite, so one that again and again could end, ends.          *)
(* Contexts need not end.                                                  *)
(***************************************************************************)
Fairness ==
    /\ \A p \in Proc : SF_vars(Progress(p)) /\ SF_vars(TakeLease(p)) /\ SF_vars(EndRead(p))
    /\ \A p \in Caller : SF_vars(Leave(p))
    /\ SF_vars(WorkerLeave)

FairSpec == Spec /\ Fairness

-----------------------------------------------------------------------------
TypeOK ==
    /\ wal \in 0..(Control - 1)
    /\ draining \in BOOLEAN
    /\ frozen \in Controls \cup {None}
    /\ gate \in Proc \cup {None}
    /\ admission \in Proc \cup {None}
    /\ last \in BOOLEAN
    /\ at \in [Proc -> Place]
    /\ read \in [Proc -> Lease]
    /\ inside \in SUBSET Proc
    /\ heard \in SUBSET Proc
    /\ wake \in BOOLEAN
    /\ urgent \in BOOLEAN
    /\ cut \in BOOLEAN

\* The control reserve is not consumed by ordinary work: the space on which
\* a write was admitted is still there when it writes, although reads,
\* checkpoints and cancelled calls go on around it.
ReserveKept ==
    \A p \in Proc : at[p] = "granted" => gate = p /\ wal + 1 < Limit(p)

\* Ordinary reads are refused only on account of a log that really is too
\* long: a writer's or the worker's truncation ends the drain with it.  The one
\* exception is a drain whose log finishForget has emptied, which goes on until
\* the log is found too long again.
DrainHasCause == draining => wal + 1 >= Ordinary \/ cut

\* Nobody waits for a signal that nobody will give: as long as a waiter has
\* not heard one, a lease is out whose return will signal, the drain that
\* keeps it out or the backup it waits for is still going on.
SleepersHaveWaker ==
    \A p \in Proc : p \notin heard =>
        /\ at[p] = "asleep" => \E q \in Proc : read[q] # "none"
        /\ at[p] = "blocked" => draining
        /\ at[p] = "stopped" => frozen # None

\* A drain admits no new ordinary reader, so that the snapshots a truncation
\* waits for only become fewer ("not only pause the writers and let new
\* readers in").
DrainAdmitsNoReader ==
    [][\A p \in Proc : draining /\ ClassOf(p) = "ordinary" /\ read[p] = "none"
          => read'[p] = "none"]_vars

\* A drain ends, the existing readers having ended and somebody having
\* truncated the log, unless that somebody is finishForget.
\* Control calls whose reads never cease could postpone it for ever, since a
\* drain does not keep them out; the run that checks this has no controls.
Converges == draining ~> (~draining \/ cut)

\* An ordinary read that has been asked for is admitted at last, whoever has
\* started a drain or holds the work admission meanwhile, as long as
\* finishForget does not leave a drain behind.
ReadsAdmitted ==
    \A p \in Foreground \cup Plain :
        at[p] \in {"read", "blocked"} ~> (at[p] \notin {"read", "blocked"} \/ cut)

\* A writer that waits for the readers to end is not one of them: it would wait for
\* itself.  A write inside its own snapshot fails instead (admitWrite); a call that
\* stages a stored revision again is the exception, whose reader the context does
\* not know of (stagePart).
WaiterHoldsNothing ==
    \A p \in Proc \ Copying : at[p] = "asleep" => read[p] # "open"
=============================================================================
