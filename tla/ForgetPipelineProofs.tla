------------------------ MODULE ForgetPipelineProofs ------------------------
(***************************************************************************)
(* The safety of the forget pipeline, for any decisions, readers and       *)
(* copies and any number of failures and restarts.  One Maintain runs at a *)
(* time, and none runs while a snapshot is being written; everything else  *)
(* the argument needs is what each actor may rely on between two of its    *)
(* steps.                                                                  *)
(***************************************************************************)
EXTENDS ForgetPipeline, TLAPS

Controls == {"approved", "stopping", "cleaning", "completed"}
ForgetRows == [control : Controls, store : {"none", "cleaning", "complete"},
               rows : {"live", "queued", "erased"}, residue : BOOLEAN]
CopyRows == [state : {"none", "building", "ready", "lost"}, file : BOOLEAN, seen : SUBSET Forget]
Batches == [by : {"none", "worker", "drain"},
            pc : {"idle", "cleanup", "select", "copies", "row", "check", "checkpoint",
                  "complete", "tail"},
            op : Forget \cup Copy \cup {None}]
Workers == [wake : BOOLEAN, running : BOOLEAN]
Loops == [pc : {"wait", "next", "draining", "marking"}, wake : BOOLEAN, todo : SUBSET Forget,
          op : Forget \cup {None}, failed : BOOLEAN]
Exports == [pc : {"idle", "copying", "verifying", "delivered", "archiving", "leaving"},
            copy : Copy \cup {None}, control : [Forget -> Controls]]

\* A decision is past its approval exactly when the store has its barrier.
BarrierWithDecision ==
    \A f \in Forget : forgets[f].control = "approved" <=> forgets[f].store = "none"

\* What execute and cleanLoop work on, one of them at a time (workMu).
LoopWork ==
    /\ \A f \in loop.todo : forgets[f].control # "approved"
    /\ loop.pc \in {"draining", "marking"} =>
        exec = None /\ loop.op \in Forget /\ forgets[loop.op].control # "approved"
ExecWork == exec # None => forgets[exec].control = "stopping"

\* What a Maintain relies on from one of its transactions to the next.
BatchWork ==
    /\ batch.pc \in {"copies", "check", "checkpoint", "complete"} =>
        batch.op \in Forget /\ forgets[batch.op].store = "cleaning"
    /\ batch.pc = "row" => batch.op \in Copy /\ ~copies[batch.op].file
    /\ batch.pc \in {"checkpoint", "complete"} => \A c \in Copy : ~Findable(c)
    /\ batch.pc = "complete" =>
        \A r \in Reader : readers[r].open => batch.op \in readers[r].seen
    /\ batch.pc # "idle" /\ batch.by # "worker" => loop.pc = "draining"

\* What an export relies on.  A copy that maintenance removed in between has lost its file.
ExportWork ==
    /\ export.pc \in {"copying", "verifying"} =>
        /\ batch.pc = "idle"
        /\ copies[export.copy].state = "building"
        /\ \A f \in Forget : forgets[f].store = "complete" => f \in copies[export.copy].seen
    /\ export.pc # "idle" => export.copy \in Copy
    /\ \/ export.pc \in {"copying", "verifying"}
       \/ export.pc \in {"delivered", "archiving"} /\ copies[export.copy].file
       => copies[export.copy].seen = {f \in Forget : export.control[f] # "approved"}

PipelineInv ==
    /\ TypeOK
    /\ BarrierWithDecision
    /\ LoopWork
    /\ ExecWork
    /\ BatchWork
    /\ ExportWork
    /\ NothingOldSurvives
    /\ NoOrphanCopy

-----------------------------------------------------------------------------
(* Types.                                                                  *)

\* The type invariant with its sets named.
Types ==
    /\ forgets \in [Forget -> ForgetRows] /\ copies \in [Copy -> CopyRows]
    /\ readers \in [Reader -> [open : BOOLEAN, seen : SUBSET Forget]]
    /\ batch \in Batches /\ worker \in Workers /\ loop \in Loops /\ export \in Exports
    /\ exec \in Forget \cup {None} /\ errors \in 0..MaxErrors /\ restarts \in 0..MaxRestarts

\* It is the same.
LEMMA TypesAre == TypeOK <=> Types
  BY DEF TypeOK, Types, ForgetRows, CopyRows, Batches, Workers, Loops, Exports, Controls

\* What a failing or waking step makes of the counters and of the worker.
LEMMA SmallTypes ==
    ASSUME Types
    PROVE  /\ Woken(worker) \in Workers /\ (Fail => errors' \in 0..MaxErrors)
           /\ NoBatch \in Batches /\ NoLoop \in Loops /\ NoExport \in Exports /\ NoCopy \in CopyRows
           /\ NoReader \in [open : BOOLEAN, seen : SUBSET Forget]
           /\ Status \in [Forget -> Controls] /\ Barriers \subseteq Forget
<1>1. Woken(worker) \in Workers
  BY DEF Types, Woken, Workers
<1>2. Fail => errors' \in 0..MaxErrors
  BY LimitAssumption DEF Types, Fail
<1>3. NoBatch \in Batches /\ NoLoop \in Loops /\ NoCopy \in CopyRows
  BY DEF NoBatch, Batches, NoLoop, Loops, NoCopy, CopyRows
<1>4. NoExport \in Exports
  BY DEF NoExport, Exports, Controls
<1>5. Status \in [Forget -> Controls]
  BY DEF Types, Status, ForgetRows
<1> QED BY <1>1, <1>2, <1>3, <1>4, <1>5 DEF NoReader, Barriers

\* Steps of a Maintain that end, continue or remove the files of a copy.
LEMMA MaintainTypes ==
    ASSUME Types
    PROVE  /\ \A more \in BOOLEAN : Return(more) => batch' \in Batches /\ worker' \in Workers /\ loop' \in Loops
           /\ \A pc \in {"select", "check", "checkpoint", "complete", "tail"} :
                Step(pc) => batch' \in Batches /\ worker' \in Workers /\ loop' \in Loops
           /\ \A chosen \in SUBSET Copy :
                CleanFiles(chosen) => /\ batch' \in Batches /\ worker' \in Workers /\ loop' \in Loops
                                      /\ copies' \in [Copy -> CopyRows]
<1>1. ASSUME NEW more \in BOOLEAN, Return(more)
      PROVE  batch' \in Batches /\ worker' \in Workers /\ loop' \in Loops
  <2>1. batch' \in Batches
    BY <1>1, SmallTypes DEF Return
  <2>2. [worker EXCEPT !.running = FALSE] \in Workers
    BY DEF Types, Workers
  <2>3. [loop EXCEPT !.pc = "marking"] \in Loops
    BY DEF Types, Loops
  <2> QED BY <1>1, <2>1, <2>2, <2>3 DEF Types, Return
<1>2. ASSUME NEW pc \in {"select", "check", "checkpoint", "complete", "tail"}, Step(pc)
      PROVE  batch' \in Batches /\ worker' \in Workers /\ loop' \in Loops
  BY <1>2 DEF Types, Step, Batches
<1>3. ASSUME NEW chosen \in SUBSET Copy, CleanFiles(chosen)
      PROVE  /\ batch' \in Batches /\ worker' \in Workers /\ loop' \in Loops
             /\ copies' \in [Copy -> CopyRows]
  <2>1. PICK c \in Copy : /\ copies' = [copies EXCEPT ![c].file = FALSE]
                          /\ batch' = [batch EXCEPT !.pc = "row", !.op = c]
                          /\ UNCHANGED <<worker, loop>>
    BY <1>3 DEF CleanFiles
  <2>2. batch' \in Batches
    BY <2>1 DEF Types, Batches
  <2>3. copies' \in [Copy -> CopyRows]
    BY <2>1 DEF Types, CopyRows
  <2> QED BY <2>1, <2>2, <2>3 DEF Types
<1> QED BY <1>1, <1>2, <1>3

\* Every step keeps the types.
LEMMA TypeStep == Types /\ [Next]_vars => Types'
<1> SUFFICES ASSUME Types, [Next]_vars PROVE Types'
  OBVIOUS
<1>0. /\ forgets \in [Forget -> ForgetRows] /\ copies \in [Copy -> CopyRows]
      /\ readers \in [Reader -> [open : BOOLEAN, seen : SUBSET Forget]]
      /\ batch \in Batches /\ worker \in Workers /\ loop \in Loops /\ export \in Exports
      /\ exec \in Forget \cup {None} /\ errors \in 0..MaxErrors /\ restarts \in 0..MaxRestarts
  BY DEF Types
<1>1. ASSUME NEW f \in Forget, ExecuteStart(f) PROVE Types'
  <2>1. forgets' \in [Forget -> ForgetRows]
    BY <1>0, <1>1 DEF ExecuteStart, ForgetRows, Controls
  <2> QED BY <1>0, <1>1, <2>1, SmallTypes DEF ExecuteStart, Types
<1>2. CASE ExecuteMark \/ ExecuteFail
  <2>1. forgets' \in [Forget -> ForgetRows]
    BY <1>0, <1>2 DEF ExecuteMark, ExecuteFail, ForgetRows, Controls
  <2>2. loop' \in Loops
    BY <1>0, <1>2 DEF ExecuteMark, ExecuteFail, Loops
  <2> QED BY <1>0, <1>2, <2>1, <2>2, SmallTypes DEF ExecuteMark, ExecuteFail, Types
<1>3. CASE LoopWake \/ LoopMarkFail \/ LoopEnd
  <2>1. CASE LoopWake
    BY <1>0, <2>1 DEF LoopWake, Types, Loops
  <2>2. CASE LoopMarkFail
    <3>1. loop' \in Loops
      BY <1>0, <2>2 DEF LoopMarkFail, Loops
    <3> QED BY <1>0, <2>2, <3>1, SmallTypes DEF LoopMarkFail, Types
  <2>3. CASE LoopEnd
    <3>1. PICK wake \in BOOLEAN : loop' = [loop EXCEPT !.pc = "wait", !.failed = FALSE, !.wake = wake]
      BY <2>3 DEF LoopEnd
    <3>2. loop' \in Loops
      BY <1>0, <3>1 DEF Loops
    <3> QED BY <1>0, <2>3, <3>2 DEF LoopEnd, Types
  <2> QED BY <1>3, <2>1, <2>2, <2>3
<1>c. ASSUME NEW f, NEW control \in Controls
      PROVE  [forgets EXCEPT ![f].control = control] \in [Forget -> ForgetRows]
  <2>1. CASE f \in Forget
    BY <1>0, <2>1 DEF ForgetRows
  <2>2. CASE f \notin Forget
    BY <1>0, <2>2
  <2> QED BY <2>1, <2>2
<1>4. CASE LoopMark
  <2>1. loop' \in Loops
    BY <1>0, <1>4 DEF LoopMark, Loops
  <2> QED BY <1>0, <1>4, <1>c, <2>1, SmallTypes DEF LoopMark, Controls, Types
<1>t. ASSUME NEW f \in Forget, LoopTake(f) PROVE Types'
  <2>0. /\ [loop EXCEPT !.pc = "draining", !.op = f, !.todo = @ \ {f}, !.wake = TRUE] \in Loops
        /\ [loop EXCEPT !.pc = "draining", !.op = f, !.todo = @ \ {f}] \in Loops
    BY <1>0 DEF Loops
  <2>1. loop' \in Loops
    BY <1>t, <2>0 DEF LoopTake
  <2>2. [forgets EXCEPT ![f].control = "cleaning"] \in [Forget -> ForgetRows]
    BY <1>c DEF Controls
  <2>3. worker' \in Workers /\ forgets' \in [Forget -> ForgetRows]
    BY <1>0, <1>t, <2>2, SmallTypes DEF LoopTake
  <2> QED BY <1>0, <1>t, <2>1, <2>3 DEF LoopTake, Types
<1>5. CASE WorkerWake \/ OtherWrite
  <2>1. worker' \in Workers
    <3>1. CASE WorkerWake
      BY <3>1 DEF WorkerWake, Workers
    <3>2. CASE OtherWrite
      BY <3>2, SmallTypes DEF OtherWrite
    <3> QED BY <1>5, <3>1, <3>2
  <2> QED BY <1>0, <1>5, <2>1 DEF WorkerWake, OtherWrite, Types
<1>b. ASSUME NEW who \in {"worker", "drain"}, MaintainBegin(who) PROVE Types'
  <2>1. batch' \in Batches
    BY <1>b DEF MaintainBegin, Batches
  <2> QED BY <1>0, <1>b, <2>1 DEF MaintainBegin, Types
<1>6. CASE Cleanup
  <2>1. forgets' \in [Forget -> ForgetRows]
    <3>1. ASSUME NEW f \in Forget, NEW rows \in {"queued", "erased"}
          PROVE  [forgets EXCEPT ![f].rows = rows] \in [Forget -> ForgetRows]
      BY <1>0 DEF ForgetRows
    <3> QED BY <1>0, <1>6, <3>1 DEF Cleanup, Uncleaned, Queued
  <2>2. batch' \in Batches /\ worker' \in Workers /\ loop' \in Loops
    BY <1>6, MaintainTypes DEF Cleanup
  <2> QED BY <1>0, <1>6, <2>1, <2>2 DEF Cleanup, Types
<1>7. CASE Select
  <2>1. batch' \in Batches
    BY <1>0, <1>7 DEF Select, Batches
  <2> QED BY <1>0, <1>7, <2>1 DEF Select, Types
<1>8. CASE CleanCopies \/ Tail
  <2>1. /\ batch' \in Batches /\ worker' \in Workers /\ loop' \in Loops
        /\ copies' \in [Copy -> CopyRows]
    BY <1>0, <1>8, MaintainTypes DEF CleanCopies, Tail
  <2> QED BY <1>0, <1>8, <2>1 DEF CleanCopies, Tail, Types
<1>9. CASE CleanRow
  <2>1. copies' \in [Copy -> CopyRows]
    BY <1>0, <1>9 DEF CleanRow, NoCopy, CopyRows
  <2> QED BY <1>0, <1>9, <2>1, SmallTypes DEF CleanRow, Types
<1>10. CASE CheckCopies
  <2>1. batch' \in Batches /\ worker' \in Workers /\ loop' \in Loops
    BY <1>10, MaintainTypes DEF CheckCopies
  <2> QED BY <1>0, <1>10, <2>1 DEF CheckCopies, Types
<1>11. CASE Checkpoint
  <2>1. forgets' \in [Forget -> ForgetRows]
    <3>1. ASSUME NEW f \in Forget, NEW residue \in BOOLEAN
          PROVE  [forgets[f] EXCEPT !.residue = residue] \in ForgetRows
      BY <1>0 DEF ForgetRows
    <3>2. \A f \in Forget :
            [forgets[f] EXCEPT !.residue = @ /\ forgets[f].rows # "erased"] \in ForgetRows
      BY <3>1
    <3> QED BY <1>0, <1>11, <3>2 DEF Checkpoint
  <2>2. batch' \in Batches /\ worker' \in Workers /\ loop' \in Loops
    BY <1>11, MaintainTypes DEF Checkpoint
  <2> QED BY <1>0, <1>11, <2>1, <2>2 DEF Checkpoint, Types
<1>12. CASE Complete
  <2>1. forgets' \in [Forget -> ForgetRows]
    BY <1>0, <1>12 DEF Complete, ForgetRows
  <2> QED BY <1>0, <1>12, <2>1, SmallTypes DEF Complete, Types
<1>13. CASE MaintainFail
  <2>0. /\ [worker EXCEPT !.running = FALSE] \in Workers
        /\ [loop EXCEPT !.pc = "next", !.op = None, !.failed = TRUE] \in Loops
    BY <1>0 DEF Workers, Loops
  <2>1. worker' \in Workers /\ loop' \in Loops
    BY <1>0, <1>13, <2>0, SmallTypes DEF MaintainFail
  <2> QED BY <1>0, <1>13, <2>1, SmallTypes DEF MaintainFail, Types
<1>14. ASSUME NEW r \in Reader, OpenReader(r) \/ CloseReader(r) PROVE Types'
  <2>1. readers' \in [Reader -> [open : BOOLEAN, seen : SUBSET Forget]]
    <3>1. [open |-> TRUE, seen |-> Barriers] \in [open : BOOLEAN, seen : SUBSET Forget]
      BY SmallTypes
    <3>2. NoReader \in [open : BOOLEAN, seen : SUBSET Forget]
      BY SmallTypes
    <3> QED BY <1>0, <1>14, <3>1, <3>2 DEF OpenReader, CloseReader
  <2> QED BY <1>0, <1>14, <2>1 DEF OpenReader, CloseReader, Types
<1>15. ASSUME NEW c \in Copy, SnapshotBegin(c) PROVE Types'
  <2>1. copies' \in [Copy -> CopyRows]
    <3>1. Barriers \subseteq Forget /\ copies[c] \in CopyRows
      BY <1>0, SmallTypes
    <3>2. copies' = [copies EXCEPT ![c] = [copies[c] EXCEPT !.state = "building", !.seen = Barriers]]
      BY <1>0, <1>15 DEF SnapshotBegin
    <3>3. [copies[c] EXCEPT !.state = "building", !.seen = Barriers] \in CopyRows
      BY <3>1 DEF CopyRows
    <3> QED BY <1>0, <3>2, <3>3
  <2>2. export' \in Exports
    BY <1>0, <1>15, SmallTypes DEF SnapshotBegin, Exports
  <2> QED BY <1>0, <1>15, <2>1, <2>2, SmallTypes DEF SnapshotBegin, Types
<1>16. CASE SnapshotCopy \/ SnapshotReady \/ SnapshotFail \/ ExportEnd
  <2>1. copies' \in [Copy -> CopyRows]
    <3>1. ASSUME NEW c
          PROVE  /\ \A file \in BOOLEAN : [copies EXCEPT ![c].file = file] \in [Copy -> CopyRows]
                 /\ [copies EXCEPT ![c].state = "ready"] \in [Copy -> CopyRows]
                 /\ [copies EXCEPT ![c].state = "lost"] \in [Copy -> CopyRows]
                 /\ [copies EXCEPT ![c] = NoCopy] \in [Copy -> CopyRows]
      <4>1. CASE c \in Copy
        BY <1>0, <4>1, SmallTypes DEF CopyRows
      <4>2. CASE c \notin Copy
        BY <1>0, <4>2
      <4> QED BY <4>1, <4>2
    <3>2. /\ [copies EXCEPT ![export.copy].file = TRUE] \in [Copy -> CopyRows]
          /\ [copies EXCEPT ![export.copy].file = FALSE] \in [Copy -> CopyRows]
          /\ [copies EXCEPT ![export.copy].state = "ready"] \in [Copy -> CopyRows]
          /\ [copies EXCEPT ![export.copy].state = "lost"] \in [Copy -> CopyRows]
          /\ [copies EXCEPT ![export.copy] = NoCopy] \in [Copy -> CopyRows]
      BY <3>1
    <3> QED BY <1>0, <1>16, <3>2 DEF SnapshotCopy, SnapshotReady, SnapshotFail, ExportEnd
  <2>2. export' \in Exports
    BY <1>0, <1>16, SmallTypes DEF SnapshotCopy, SnapshotReady, SnapshotFail, ExportEnd, Exports
  <2> QED BY <1>0, <1>16, <2>1, <2>2, SmallTypes DEF SnapshotCopy, SnapshotReady, SnapshotFail,
          ExportEnd, Types
<1>17. CASE ExportLock \/ ExportLink \/ ExportRefuse
  <2>1. export' \in Exports
    BY <1>0, <1>17 DEF ExportLock, ExportLink, ExportRefuse, Exports
  <2> QED BY <1>0, <1>17, <2>1, SmallTypes DEF ExportLock, ExportLink, ExportRefuse, Types
<1>18. CASE Restart
  <2>1. restarts' \in 0..MaxRestarts
    BY <1>0, <1>18, LimitAssumption DEF Restart
  <2>2. worker' \in Workers /\ readers' \in [Reader -> [open : BOOLEAN, seen : SUBSET Forget]]
    BY <1>18, SmallTypes DEF Restart, Workers
  <2> QED BY <1>0, <1>18, <2>1, <2>2, SmallTypes DEF Restart, Types
<1>19. CASE UNCHANGED vars
  BY <1>0, <1>19 DEF vars, Types
<1> QED
  BY <1>1, <1>2, <1>3, <1>4, <1>t, <1>5, <1>b, <1>6, <1>7, <1>8, <1>9, <1>10, <1>11, <1>12, <1>13, <1>14, <1>15,
     <1>16, <1>17, <1>18, <1>19 DEF Next, ExecuteStep, LoopStep, MaintainStep, ExportStep

-----------------------------------------------------------------------------
(* Decisions: execute, cleanLoop and the barrier.                          *)

\* What the decisions record stays as it is.
SameDecisions ==
    \A f \in Forget :
        forgets'[f].control = forgets[f].control /\ forgets'[f].store = forgets[f].store

Advances == \A f \in Forget : Rank[forgets[f].control] <= Rank[forgets'[f].control]

DecisionInv == BarrierWithDecision /\ LoopWork /\ ExecWork

\* Steps that leave decisions, execute and the work of cleanLoop alone.
LEMMA DecisionsAlone ==
    ASSUME Types, DecisionInv, SameDecisions, exec' = exec \/ exec' = None,
           loop'.todo \subseteq loop.todo,
           loop'.pc \in {"draining", "marking"} =>
               loop.pc \in {"draining", "marking"} /\ loop'.op = loop.op
    PROVE  DecisionInv' /\ Advances
<1>1. Advances
  BY DEF Types, SameDecisions, Advances, Rank, ForgetRows, Controls
<1>2. BarrierWithDecision'
  BY DEF SameDecisions, DecisionInv, BarrierWithDecision
<1>3. LoopWork'
  BY DEF Types, Loops, SameDecisions, DecisionInv, LoopWork
<1>4. ExecWork'
  BY DEF Types, SameDecisions, DecisionInv, ExecWork
<1> QED BY <1>1, <1>2, <1>3, <1>4 DEF DecisionInv

\* A Maintain that ends a drain hands the decision to mark.
LEMMA ReturnLoop ==
    ASSUME Types, BatchWork, batch.pc # "idle", NEW more \in BOOLEAN, Return(more)
    PROVE  /\ loop'.todo \subseteq loop.todo
           /\ loop'.pc \in {"draining", "marking"} =>
               loop.pc \in {"draining", "marking"} /\ loop'.op = loop.op
  BY DEF Types, Loops, BatchWork, Return

\* Decisions go through their states under workMu, and never backwards.
LEMMA DecisionStep ==
    ASSUME Types, DecisionInv, BatchWork, [Next]_vars PROVE DecisionInv' /\ Advances
<1>0. /\ forgets \in [Forget -> ForgetRows] /\ loop \in Loops /\ exec \in Forget \cup {None}
      /\ batch \in Batches
  BY DEF Types
<1>1. ASSUME NEW f \in Forget, ExecuteStart(f) PROVE DecisionInv' /\ Advances
  <2>1. /\ forgets'[f].control = "stopping" /\ forgets'[f].store = "cleaning"
        /\ \A g \in Forget \ {f} : forgets'[g] = forgets[g]
    BY <1>0, <1>1 DEF ExecuteStart, ForgetRows
  <2>2. exec' = f /\ loop' = loop /\ loop.pc \notin {"draining", "marking"}
        /\ forgets[f].control = "approved" /\ f # None
    BY <1>1, LimitAssumption DEF ExecuteStart, WorkLocked
  <2>3. Advances
    BY <1>0, <2>1, <2>2 DEF Advances, Rank, ForgetRows, Controls
  <2>4. BarrierWithDecision'
    BY <2>1 DEF DecisionInv, BarrierWithDecision
  <2>5. LoopWork'
    BY <1>0, <2>1, <2>2 DEF DecisionInv, LoopWork, Loops
  <2> QED BY <2>1, <2>2, <2>3, <2>4, <2>5 DEF DecisionInv, ExecWork
<1>2. CASE ExecuteMark
  <2>1. /\ exec \in Forget /\ forgets'[exec].control = "cleaning"
        /\ forgets'[exec].store = forgets[exec].store
        /\ \A g \in Forget \ {exec} : forgets'[g] = forgets[g]
    BY <1>0, <1>2 DEF ExecuteMark, ForgetRows
  <2>2. /\ exec' = None /\ loop'.todo = loop.todo /\ loop'.pc = loop.pc /\ loop'.op = loop.op
        /\ forgets[exec].control = "stopping" /\ loop.pc \notin {"draining", "marking"}
    BY <1>0, <1>2, <2>1 DEF ExecuteMark, DecisionInv, ExecWork, LoopWork, Loops
  <2>3. Advances
    BY <1>0, <2>1, <2>2 DEF Advances, Rank, ForgetRows, Controls
  <2>4. BarrierWithDecision'
    BY <2>1, <2>2 DEF DecisionInv, BarrierWithDecision
  <2>5. LoopWork'
    BY <1>0, <2>1, <2>2 DEF DecisionInv, LoopWork, Loops
  <2> QED BY <2>2, <2>3, <2>4, <2>5 DEF DecisionInv, ExecWork
<1>3. CASE ExecuteFail \/ LoopMarkFail \/ LoopEnd
  <2>1. /\ exec' \in {exec, None} /\ forgets' = forgets /\ loop'.todo = loop.todo
        /\ (loop'.pc \in {"draining", "marking"} => loop'.pc = loop.pc /\ loop'.op = loop.op)
    BY <1>0, <1>3 DEF ExecuteFail, LoopMarkFail, LoopEnd, Loops
  <2> QED BY <2>1, DecisionsAlone DEF SameDecisions
<1>4. CASE LoopWake
  <2>1. /\ exec' = exec /\ forgets' = forgets /\ loop'.pc = "next"
        /\ loop'.todo = {f \in Forget : forgets[f].control \in {"stopping", "cleaning"}}
    BY <1>4 DEF LoopWake
  <2>2. Advances
    BY <1>0, <2>1 DEF Advances, Rank, ForgetRows, Controls
  <2> QED BY <1>0, <2>1, <2>2 DEF DecisionInv, BarrierWithDecision, LoopWork, ExecWork
<1>5. ASSUME NEW f \in Forget, LoopTake(f) PROVE DecisionInv' /\ Advances
  <2>1. /\ exec = None /\ exec' = None /\ f \in loop.todo
        /\ loop'.pc = "draining" /\ loop'.op = f /\ loop'.todo \subseteq loop.todo
    <3>1. exec = None /\ exec' = None /\ f \in loop.todo
      BY <1>5 DEF LoopTake, WorkLocked
    <3>2. CASE loop' = [loop EXCEPT !.pc = "draining", !.op = f, !.todo = @ \ {f}, !.wake = TRUE]
      BY <1>0, <3>1, <3>2 DEF Loops
    <3>3. CASE loop' = [loop EXCEPT !.pc = "draining", !.op = f, !.todo = @ \ {f}]
      BY <1>0, <3>1, <3>3 DEF Loops
    <3> QED BY <1>5, <3>2, <3>3 DEF LoopTake
  <2>2. /\ \A g \in Forget \ {f} : forgets'[g] = forgets[g]
        /\ forgets'[f].store = forgets[f].store
        /\ \/ forgets'[f].control = forgets[f].control
           \/ forgets[f].control = "stopping" /\ forgets'[f].control = "cleaning"
    BY <1>0, <1>5 DEF LoopTake, ForgetRows
  <2>3. Advances
    BY <1>0, <2>2 DEF Advances, Rank, ForgetRows, Controls
  <2>4. BarrierWithDecision'
    BY <2>2 DEF DecisionInv, BarrierWithDecision
  <2>5. LoopWork'
    BY <1>0, <2>1, <2>2 DEF DecisionInv, LoopWork, Loops
  <2> QED BY <2>1, <2>3, <2>4, <2>5 DEF DecisionInv, ExecWork
<1>6. CASE LoopMark
  <2>1. loop.op \in Forget /\ forgets[loop.op].control # "approved" /\ exec = None /\ exec' = None
    BY <1>6 DEF LoopMark, DecisionInv, LoopWork
  <2>2. /\ forgets'[loop.op].control = "completed" /\ forgets'[loop.op].store = forgets[loop.op].store
        /\ \A g \in Forget \ {loop.op} : forgets'[g] = forgets[g]
    BY <1>0, <1>6, <2>1 DEF LoopMark, ForgetRows
  <2>3. loop'.todo = loop.todo /\ loop'.pc = "next"
    BY <1>0, <1>6 DEF LoopMark, Loops
  <2>4. Advances
    BY <1>0, <2>1, <2>2 DEF Advances, Rank, ForgetRows, Controls
  <2>5. BarrierWithDecision'
    BY <2>1, <2>2 DEF DecisionInv, BarrierWithDecision
  <2>6. LoopWork'
    BY <1>0, <2>1, <2>2, <2>3 DEF DecisionInv, LoopWork, Loops
  <2> QED BY <2>1, <2>4, <2>5, <2>6 DEF DecisionInv, ExecWork
<1>7. CASE Complete
  <2>1. batch.op \in Forget /\ forgets[batch.op].store = "cleaning"
    BY <1>7 DEF Complete, BatchWork
  <2>2. /\ forgets'[batch.op].control = forgets[batch.op].control
        /\ forgets'[batch.op].store = "complete"
        /\ \A g \in Forget \ {batch.op} : forgets'[g] = forgets[g]
    BY <1>0, <1>7, <2>1 DEF Complete, ForgetRows
  <2>3. \A g \in Forget : forgets'[g].control = forgets[g].control
    BY <2>2
  <2>4. exec' = exec /\ loop' = loop
    BY <1>7 DEF Complete
  <2>5. Advances
    BY <1>0, <2>3 DEF Advances, Rank, ForgetRows, Controls
  <2>6. BarrierWithDecision'
    BY <2>1, <2>2 DEF DecisionInv, BarrierWithDecision
  <2>7. LoopWork' /\ ExecWork'
    BY <1>0, <2>3, <2>4 DEF DecisionInv, LoopWork, ExecWork, Loops
  <2> QED BY <2>5, <2>6, <2>7 DEF DecisionInv
<1>8. CASE Cleanup
  <2>1. SameDecisions
    <3>1. ASSUME NEW f \in Forget, NEW rows \in {"queued", "erased"},
                 forgets' = [forgets EXCEPT ![f].rows = rows]
          PROVE  SameDecisions
      BY <1>0, <3>1 DEF SameDecisions, ForgetRows
    <3>2. CASE forgets' = forgets
      BY <3>2 DEF SameDecisions
    <3> QED BY <1>8, <3>1, <3>2 DEF Cleanup, Uncleaned, Queued
  <2>2. exec' = exec /\ batch.pc # "idle" /\ (Return(TRUE) \/ loop' = loop)
    BY <1>8 DEF Cleanup, Step
  <2> QED BY <2>1, <2>2, ReturnLoop, DecisionsAlone
<1>9. CASE Checkpoint
  <2>1. SameDecisions
    BY <1>0, <1>9 DEF Checkpoint, SameDecisions, ForgetRows
  <2>2. exec' = exec /\ loop' = loop
    BY <1>9 DEF Checkpoint, Step
  <2> QED BY <2>1, <2>2, DecisionsAlone
<1>10. CASE Tail \/ CleanCopies \/ CheckCopies
  <2>1. forgets' = forgets /\ exec' = exec /\ batch.pc # "idle" /\ (Return(FALSE) \/ loop' = loop)
    BY <1>10 DEF Tail, CleanCopies, CheckCopies, CleanFiles, Step
  <2> QED BY <2>1, ReturnLoop, DecisionsAlone DEF SameDecisions
<1>11. CASE MaintainFail \/ Restart
  <2>1. /\ forgets' = forgets /\ exec' \in {exec, None} /\ loop'.todo \subseteq loop.todo
        /\ (loop'.pc \in {"draining", "marking"} => loop' = loop)
    <3>1. CASE loop' = NoLoop
      BY <1>11, <3>1 DEF MaintainFail, Restart, NoLoop
    <3>2. CASE loop' = loop
      BY <1>11, <3>2 DEF MaintainFail, Restart
    <3>3. CASE loop' = [loop EXCEPT !.pc = "next", !.op = None, !.failed = TRUE]
      BY <1>0, <1>11, <3>3 DEF MaintainFail, Restart, Loops
    <3> QED BY <1>11, <3>1, <3>2, <3>3 DEF MaintainFail, Restart
  <2> QED BY <2>1, DecisionsAlone DEF SameDecisions
<1>12. CASE UNCHANGED <<forgets, exec, loop>>
  BY <1>12, DecisionsAlone DEF SameDecisions
<1> QED
  BY <1>1, <1>2, <1>3, <1>4, <1>5, <1>6, <1>7, <1>8, <1>9, <1>10, <1>11, <1>12
  DEF Next, vars, ExecuteStep, LoopStep, MaintainStep, ExportStep, WorkerWake, OtherWrite, MaintainBegin,
      Select, CleanRow, OpenReader, CloseReader, SnapshotBegin, SnapshotCopy, SnapshotReady, SnapshotFail,
      ExportLock, ExportLink, ExportRefuse, ExportEnd

-----------------------------------------------------------------------------
(* Maintenance, readers and copies.                                        *)

CopyInv == BatchWork /\ ExportWork /\ NothingOldSurvives /\ NoOrphanCopy

\* No barrier is taken back, and no operation becomes complete.
StoreKept ==
    \A f \in Forget :
        /\ forgets[f].store # "none" => forgets'[f].store = forgets[f].store
        /\ forgets'[f].store = "complete" => forgets[f].store = "complete"

\* Only Complete makes an operation complete.
LEMMA StoreSteps ==
    ASSUME Types, DecisionInv, [Next]_vars PROVE Complete \/ StoreKept
<1>0. forgets \in [Forget -> ForgetRows] /\ exec \in Forget \cup {None}
  BY DEF Types
<1>1. ASSUME NEW f \in Forget, ExecuteStart(f) PROVE StoreKept
  <2>1. forgets[f].store = "none" /\ forgets'[f].store = "cleaning"
        /\ \A g \in Forget \ {f} : forgets'[g] = forgets[g]
    BY <1>0, <1>1 DEF ExecuteStart, DecisionInv, BarrierWithDecision, ForgetRows
  <2> QED BY <2>1 DEF StoreKept
<1>2. ASSUME NEW f, NEW control, forgets' = [forgets EXCEPT ![f].control = control] PROVE StoreKept
  <2>1. CASE f \in Forget
    BY <1>0, <1>2, <2>1 DEF StoreKept, ForgetRows
  <2>2. CASE f \notin Forget
    BY <1>0, <1>2, <2>2 DEF StoreKept
  <2> QED BY <2>1, <2>2
<1>3. CASE ExecuteMark \/ LoopMark \/ \E f \in Forget : LoopTake(f)
  <2>1. CASE forgets' = forgets
    BY <2>1 DEF StoreKept
  <2>2. ExecuteMark => StoreKept
    BY <1>2 DEF ExecuteMark
  <2>3. LoopMark => StoreKept
    BY <1>2 DEF LoopMark
  <2>4. ASSUME NEW f \in Forget, LoopTake(f), forgets' # forgets PROVE StoreKept
    <3>1. forgets' = [forgets EXCEPT ![f].control = "cleaning"]
      BY <2>4 DEF LoopTake
    <3> QED BY <1>2, <3>1
  <2> QED BY <1>3, <2>1, <2>2, <2>3, <2>4
<1>4. CASE Cleanup
  <2>1. ASSUME NEW f \in Forget, NEW rows \in {"queued", "erased"},
               forgets' = [forgets EXCEPT ![f].rows = rows]
        PROVE  StoreKept
    BY <1>0, <2>1 DEF StoreKept, ForgetRows
  <2>2. CASE forgets' = forgets
    BY <2>2 DEF StoreKept
  <2> QED BY <1>4, <2>1, <2>2 DEF Cleanup, Uncleaned, Queued
<1>5. CASE Checkpoint
  BY <1>0, <1>5 DEF Checkpoint, StoreKept, ForgetRows
<1>6. CASE forgets' = forgets
  BY <1>6 DEF StoreKept
<1> QED
  BY <1>1, <1>3, <1>4, <1>5, <1>6
  DEF Next, vars, ExecuteStep, ExecuteFail, LoopStep, LoopWake, LoopMarkFail, LoopEnd, MaintainStep,
      ExportStep, WorkerWake, OtherWrite, MaintainBegin, Select, CleanCopies, CleanRow, CheckCopies, Tail,
      MaintainFail, OpenReader, CloseReader, SnapshotBegin, SnapshotCopy, SnapshotReady,
      SnapshotFail, ExportLock, ExportLink, ExportRefuse, ExportEnd, Restart

\* A new reader sees every barrier; the others keep what they see.
ReadersKept ==
    \A r \in Reader : readers'[r].open =>
        \/ readers[r].open /\ readers'[r].seen = readers[r].seen
        \/ Barriers \subseteq readers'[r].seen

\* Readers from before a barrier have ended wherever completion was claimed or is due.
LEMMA ReadersStep ==
    ASSUME Types, CopyInv, StoreKept, ReadersKept
    PROVE  /\ OldSnapshotsEnded'
           /\ batch.pc = "complete" =>
                \A r \in Reader : readers'[r].open => batch.op \in readers'[r].seen
<1>1. \A f \in Forget : forgets[f].store \in {"cleaning", "complete"} => f \in Barriers
  BY DEF Barriers
<1> QED BY <1>1 DEF CopyInv, NothingOldSurvives, OldSnapshotsEnded, StoreKept, ReadersKept, BatchWork

\* Steps that touch neither a copy nor an export; the batch may move on.
LEMMA CopiesAlone ==
    ASSUME Types, CopyInv, StoreKept, ReadersKept, UNCHANGED <<copies, export>>, BatchWork',
           batch'.pc # "idle" => batch.pc # "idle" \/ export.pc \notin {"copying", "verifying"}
    PROVE  CopyInv'
<1>1. NoOrphanCopy'
  BY DEF CopyInv, NoOrphanCopy
<1>2. NoOldCopies'
  BY DEF CopyInv, NothingOldSurvives, NoOldCopies, StoreKept, Findable
<1>3. ExportWork'
  BY DEF CopyInv, ExportWork, StoreKept, Types, Batches
<1> QED BY <1>1, <1>2, <1>3, ReadersStep DEF CopyInv, NothingOldSurvives

\* Steps of the others next to a Maintain.
LEMMA OthersStep ==
    ASSUME Types, CopyInv, StoreKept, ReadersKept, UNCHANGED <<copies, export, batch>>,
           loop.pc = "draining" => loop'.pc = "draining"
    PROVE  CopyInv'
<1>1. BatchWork'
  BY ReadersStep DEF CopyInv, BatchWork, StoreKept, Findable
<1> QED BY <1>1, CopiesAlone

\* A Maintain that goes on to a step with nothing to rely on, or ends.
LEMMA BatchMoves ==
    ASSUME Types, CopyInv, StoreKept, UNCHANGED <<copies, export, readers>>,
           batch'.pc \in {"idle", "cleanup", "select", "tail"},
           batch'.pc # "idle" => /\ batch.pc # "idle" \/ export.pc \notin {"copying", "verifying"}
                                 /\ batch'.by # "worker" => loop'.pc = "draining"
    PROVE  CopyInv'
<1>1. BatchWork'
  BY DEF BatchWork
<1>2. ReadersKept
  BY DEF ReadersKept
<1> QED BY <1>1, <1>2, CopiesAlone

\* A Maintain that goes on with its operation has found what it will rely on.
LEMMA MaintainGoesOn ==
    ASSUME Types, CopyInv, StoreKept, UNCHANGED <<copies, export, readers, loop>>,
           batch.pc # "idle", batch'.by = batch.by, batch'.op \in Forget,
           forgets[batch'.op].store = "cleaning",
           \/ batch'.pc \in {"copies", "check"}
           \/ batch'.pc \in {"checkpoint", "complete"} /\ \A c \in Copy : ~Findable(c),
           batch'.pc = "complete" => \A r \in Reader : ~readers[r].open
    PROVE  CopyInv'
<1>1. BatchWork'
  BY DEF CopyInv, BatchWork, StoreKept, Findable
<1>2. ReadersKept
  BY DEF ReadersKept
<1> QED BY <1>1, <1>2, CopiesAlone

\* The steps of a Maintain that touch no copy and complete nothing.
LEMMA MaintainKeeps ==
    ASSUME Types, CopyInv, StoreKept,
           \/ Cleanup \/ Select \/ CheckCopies \/ Checkpoint \/ MaintainFail
           \/ CleanCopies /\ Step("check") /\ UNCHANGED copies
           \/ Tail /\ Return(FALSE) /\ UNCHANGED copies
           \/ \E who \in {"worker", "drain"} : MaintainBegin(who)
    PROVE  CopyInv'
<1>0. batch \in Batches /\ loop \in Loops
  BY DEF Types
<1>1. ASSUME NEW pc \in {"select", "tail"}, Step(pc), UNCHANGED <<copies, export, readers>>,
             batch.pc # "idle"
      PROVE  CopyInv'
  <2>1. batch'.pc = pc /\ batch'.by = batch.by /\ loop' = loop
    BY <1>0, <1>1 DEF Step, Batches
  <2> QED BY <1>1, <2>1, BatchMoves DEF CopyInv, BatchWork
<1>2. ASSUME batch' = NoBatch, UNCHANGED <<copies, export, readers>> PROVE CopyInv'
  BY <1>2, BatchMoves DEF NoBatch
<1>3. CASE Cleanup
  BY <1>1, <1>2, <1>3 DEF Cleanup, Return
<1>4. CASE Tail /\ Return(FALSE) /\ UNCHANGED copies
  BY <1>2, <1>4 DEF Tail, Return
<1>5. CASE MaintainFail
  BY <1>2, <1>5 DEF MaintainFail
<1>6. CASE Select
  <2>1. ASSUME NEW f \in Forget, forgets[f].store = "cleaning",
               batch' = [batch EXCEPT !.pc = "copies", !.op = f]
        PROVE  CopyInv'
    <3>1. batch'.pc = "copies" /\ batch'.op = f /\ batch'.by = batch.by
      BY <1>0, <2>1 DEF Batches
    <3> QED BY <1>6, <2>1, <3>1, MaintainGoesOn DEF Select
  <2>2. CASE batch' = [batch EXCEPT !.pc = "tail"]
    BY <1>1, <1>6, <2>2 DEF Select, Step
  <2> QED BY <1>6, <2>1, <2>2 DEF Select
<1>7. CASE CheckCopies
  <2>1. CASE Step("tail")
    BY <1>1, <1>7, <2>1 DEF CheckCopies
  <2>2. CASE Step("checkpoint") /\ \A c \in Copy : ~HasRow(c)
    <3>1. batch'.pc = "checkpoint" /\ batch'.op = batch.op /\ batch'.by = batch.by /\ loop' = loop
      BY <1>0, <2>2 DEF Step, Batches
    <3>2. \A c \in Copy : ~Findable(c)
      BY <2>2 DEF CopyInv, NoOrphanCopy, HasRow, Findable, Types, CopyRows
    <3>3. batch.op \in Forget /\ forgets[batch.op].store = "cleaning"
      BY <1>7 DEF CheckCopies, CopyInv, BatchWork
    <3> QED BY <1>7, <3>1, <3>2, <3>3, MaintainGoesOn DEF CheckCopies
  <2> QED BY <1>7, <2>1, <2>2 DEF CheckCopies
<1>8. CASE Checkpoint
  <2>1. CASE Step("tail")
    BY <1>1, <1>8, <2>1 DEF Checkpoint
  <2>2. CASE Step("complete") /\ \A r \in Reader : ~readers[r].open
    <3>1. batch'.pc = "complete" /\ batch'.op = batch.op /\ batch'.by = batch.by /\ loop' = loop
      BY <1>0, <2>2 DEF Step, Batches
    <3>2. /\ batch.op \in Forget /\ forgets[batch.op].store = "cleaning"
          /\ \A c \in Copy : ~Findable(c)
      BY <1>8 DEF Checkpoint, CopyInv, BatchWork
    <3> QED BY <1>8, <2>2, <3>1, <3>2, MaintainGoesOn DEF Checkpoint
  <2> QED BY <1>8, <2>1, <2>2 DEF Checkpoint
<1>9. CASE CleanCopies /\ Step("check") /\ UNCHANGED copies
  <2>1. batch'.pc = "check" /\ batch'.op = batch.op /\ batch'.by = batch.by /\ loop' = loop
    BY <1>0, <1>9 DEF Step, Batches
  <2>2. batch.op \in Forget /\ forgets[batch.op].store = "cleaning"
    BY <1>9 DEF CleanCopies, CopyInv, BatchWork
  <2> QED BY <1>9, <2>1, <2>2, MaintainGoesOn DEF CleanCopies
<1>10. ASSUME NEW who \in {"worker", "drain"}, MaintainBegin(who) PROVE CopyInv'
  <2>1. batch'.pc = "cleanup" /\ batch'.by = who /\ loop' = loop
        /\ (who = "drain" => loop.pc = "draining") /\ export.pc \notin {"copying", "verifying"}
    BY <1>10 DEF MaintainBegin, Admitted
  <2> QED BY <1>10, <2>1, BatchMoves DEF MaintainBegin
<1> QED BY <1>3, <1>4, <1>5, <1>6, <1>7, <1>8, <1>9, <1>10

\* Completion: every reader left began after the barrier, and there is no file
\* that maintenance could find.
LEMMA CompleteKeeps ==
    ASSUME Types, CopyInv, Complete PROVE CopyInv'
<1>1. /\ batch.op \in Forget /\ forgets[batch.op].store = "cleaning"
      /\ \A c \in Copy : ~Findable(c)
      /\ \A r \in Reader : readers[r].open => batch.op \in readers[r].seen
      /\ export.pc \notin {"copying", "verifying"}
  BY DEF Complete, CopyInv, BatchWork, ExportWork
<1>2. /\ forgets'[batch.op].store = "complete"
      /\ \A g \in Forget \ {batch.op} : forgets'[g] = forgets[g]
  BY <1>1 DEF Complete, Types, ForgetRows
<1>3. batch'.pc = "idle" /\ UNCHANGED <<readers, copies, export>>
  BY DEF Complete, NoBatch
<1>4. BatchWork'
  BY <1>3 DEF BatchWork
<1>5. OldSnapshotsEnded' /\ NoOldCopies' /\ NoOrphanCopy'
  BY <1>1, <1>2, <1>3 DEF CopyInv, NothingOldSurvives, OldSnapshotsEnded, NoOldCopies, NoOrphanCopy,
     Findable
<1>6. ExportWork'
  BY <1>1, <1>3 DEF CopyInv, ExportWork
<1> QED BY <1>4, <1>5, <1>6 DEF CopyInv, NothingOldSurvives

\* A copy is removed, by maintenance or by its exporter: first or only its file.
LEMMA RemovalKeeps ==
    ASSUME Types, CopyInv, StoreKept, NEW c \in Copy, NEW row \in CopyRows,
           copies' = [copies EXCEPT ![c] = row], ~row.file, UNCHANGED readers,
           \/ export' = export /\ export.pc \notin {"copying", "verifying"}
           \/ export' = NoExport,
           BatchWork'
    PROVE  CopyInv'
<1>1. ~copies'[c].file /\ \A d \in Copy \ {c} : copies'[d] = copies[d]
  BY DEF Types
<1>2. NoOrphanCopy' /\ NoOldCopies'
  BY <1>1 DEF CopyInv, NothingOldSurvives, NoOrphanCopy, NoOldCopies, StoreKept, Findable
<1>3. OldSnapshotsEnded'
  BY ReadersStep DEF ReadersKept
<1>4. ExportWork'
  <2>1. CASE export' = NoExport
    BY <2>1 DEF ExportWork, NoExport
  <2>2. CASE export' = export /\ export.pc \notin {"copying", "verifying"}
    BY <1>1, <2>2 DEF CopyInv, ExportWork
  <2> QED BY <2>1, <2>2
<1> QED BY <1>2, <1>3, <1>4 DEF CopyInv, NothingOldSurvives

\* cleanCopies removes files while no snapshot is written, then the row.
LEMMA CleanKeeps ==
    ASSUME Types, CopyInv, StoreKept,
           \/ CleanRow
           \/ /\ CleanCopies \/ Tail
              /\ ~CopyLocked /\ \E chosen \in SUBSET Copy : CleanFiles(chosen)
    PROVE  CopyInv'
<1>0. batch \in Batches /\ loop \in Loops /\ copies \in [Copy -> CopyRows]
  BY DEF Types
<1>1. CASE CleanRow
  <2>1. batch.op \in Copy /\ ~copies[batch.op].file
    BY <1>1 DEF CleanRow, CopyInv, BatchWork
  <2>2. export.pc \notin {"copying", "verifying"}
    BY <1>1 DEF CleanRow, CopyInv, ExportWork
  <2>3. PICK row \in CopyRows : ~row.file /\ copies' = [copies EXCEPT ![batch.op] = row]
    <3>1. /\ [NoCopy EXCEPT !.file = copies[batch.op].file] \in CopyRows
          /\ ~[NoCopy EXCEPT !.file = copies[batch.op].file].file
      BY <1>0, <2>1 DEF NoCopy, CopyRows
    <3> QED BY <1>1, <3>1 DEF CleanRow
  <2>4. BatchWork'
    BY <1>1 DEF CleanRow, NoBatch, BatchWork
  <2>5. export' = export /\ readers' = readers
    BY <1>1 DEF CleanRow
  <2> HIDE DEF CopyInv
  <2> QED BY <2>1, <2>2, <2>3, <2>4, <2>5, RemovalKeeps
<1>2. ASSUME NEW chosen \in SUBSET Copy, CleanFiles(chosen), CleanCopies \/ Tail, ~CopyLocked
      PROVE  CopyInv'
  <2>1. PICK c \in Copy : /\ copies' = [copies EXCEPT ![c].file = FALSE]
                          /\ batch' = [batch EXCEPT !.pc = "row", !.op = c] /\ loop' = loop
    BY <1>2 DEF CleanFiles
  <2>2. batch'.pc = "row" /\ batch'.op = c /\ batch'.by = batch.by /\ batch.pc # "idle"
        /\ export' = export /\ readers' = readers /\ export.pc \notin {"copying", "verifying"}
    BY <1>0, <1>2, <2>1 DEF CleanCopies, Tail, CopyLocked, Batches
  <2>3. PICK row \in CopyRows : ~row.file /\ copies' = [copies EXCEPT ![c] = row]
    <3>1. [copies[c] EXCEPT !.file = FALSE] \in CopyRows /\ ~[copies[c] EXCEPT !.file = FALSE].file
      BY <1>0 DEF CopyRows
    <3> QED BY <2>1, <3>1
  <2>4. BatchWork'
    BY <1>0, <2>1, <2>2, <2>3 DEF CopyInv, BatchWork, Findable
  <2> HIDE DEF CopyInv
  <2> QED BY <2>2, <2>3, <2>4, RemovalKeeps
<1> QED BY <1>1, <1>2

\* An export: the copy is marked as seen before it exists, and nothing completes while it is
\* written.
LEMMA ExportKeeps ==
    ASSUME Types, DecisionInv, CopyInv, StoreKept, ExportStep \/ \E c \in Copy : SnapshotBegin(c)
    PROVE  CopyInv'
<1>0. /\ batch \in Batches /\ loop \in Loops /\ copies \in [Copy -> CopyRows] /\ export \in Exports
      /\ forgets \in [Forget -> ForgetRows]
  BY DEF Types
<1>1. UNCHANGED <<batch, loop, forgets, readers>>
  BY DEF ExportStep, SnapshotBegin, SnapshotCopy, SnapshotReady, SnapshotFail, ExportLock,
     ExportLink, ExportRefuse, ExportEnd
<1>2. OldSnapshotsEnded'
  BY <1>1 DEF CopyInv, NothingOldSurvives, OldSnapshotsEnded
<1>3. ASSUME NEW c \in Copy, SnapshotBegin(c) PROVE CopyInv'
  <2>1. /\ batch.pc = "idle" /\ copies[c].state = "none" /\ ~copies[c].file
        /\ export' = [pc |-> "copying", copy |-> c, control |-> Status]
    BY <1>3 DEF SnapshotBegin, Admitted
  <2>2. /\ copies'[c].state = "building" /\ copies'[c].seen = Barriers /\ ~copies'[c].file
        /\ \A d \in Copy \ {c} : copies'[d] = copies[d]
    <3>1. copies' = [copies EXCEPT ![c] = [copies[c] EXCEPT !.state = "building", !.seen = Barriers]]
      BY <1>0, <1>3 DEF SnapshotBegin
    <3>2. copies'[c] = [copies[c] EXCEPT !.state = "building", !.seen = Barriers]
          /\ copies[c] \in CopyRows
      BY <1>0, <3>1
    <3> QED BY <1>0, <2>1, <3>1, <3>2 DEF CopyRows
  <2>3. Barriers = {f \in Forget : Status[f] # "approved"}
    BY DEF Barriers, Status, DecisionInv, BarrierWithDecision
  <2>4. \A f \in Forget : forgets[f].store = "complete" => f \in Barriers
    BY DEF Barriers
  <2>5. BatchWork'
    BY <1>1, <2>1 DEF BatchWork
  <2>6. ExportWork'
    BY <1>1, <2>1, <2>2, <2>3, <2>4 DEF ExportWork
  <2>7. NoOldCopies' /\ NoOrphanCopy'
    BY <1>1, <2>2 DEF CopyInv, NothingOldSurvives, NoOldCopies, NoOrphanCopy, Findable
  <2> QED BY <1>2, <2>5, <2>6, <2>7 DEF CopyInv, NothingOldSurvives
<1>4. CASE SnapshotCopy \/ SnapshotReady
  <2> DEFINE c == export.copy
  <2>1. /\ c \in Copy /\ batch.pc = "idle" /\ copies[c].state = "building"
        /\ \A f \in Forget : forgets[f].store = "complete" => f \in copies[c].seen
        /\ copies[c].seen = {f \in Forget : export.control[f] # "approved"}
    BY <1>4 DEF SnapshotCopy, SnapshotReady, CopyInv, ExportWork
  <2>2. /\ copies'[c].seen = copies[c].seen /\ copies'[c].state # "none"
        /\ (SnapshotCopy => copies'[c].state = "building")
        /\ \A d \in Copy \ {c} : copies'[d] = copies[d]
    BY <1>0, <1>4, <2>1 DEF SnapshotCopy, SnapshotReady, CopyRows
  <2>3. /\ export'.copy = c /\ export'.control = export.control
        /\ (SnapshotCopy /\ export'.pc = "verifying") \/ export'.pc = "delivered"
    BY <1>0, <1>4 DEF SnapshotCopy, SnapshotReady, Exports
  <2>4. BatchWork'
    BY <1>1, <2>1 DEF BatchWork
  <2>5. ExportWork'
    BY <1>1, <2>1, <2>2, <2>3 DEF ExportWork
  <2>6. NoOldCopies' /\ NoOrphanCopy'
    BY <1>1, <2>1, <2>2 DEF CopyInv, NothingOldSurvives, NoOldCopies, NoOrphanCopy, Findable
  <2> QED BY <1>2, <2>4, <2>5, <2>6 DEF CopyInv, NothingOldSurvives
<1>5. ASSUME SnapshotFail \/ ExportEnd, errors' = errors
      PROVE  CopyInv'
  <2>1. export.copy \in Copy /\ export' = NoExport
    BY <1>5 DEF SnapshotFail, ExportEnd, CopyInv, ExportWork
  <2>e. ~Fail
    BY <1>5, LimitAssumption DEF Fail, Types
  <2>2. PICK row \in CopyRows : ~row.file /\ copies' = [copies EXCEPT ![export.copy] = row]
    <3>1. /\ [copies[export.copy] EXCEPT !.file = FALSE] \in CopyRows
          /\ ~[copies[export.copy] EXCEPT !.file = FALSE].file
          /\ NoCopy \in CopyRows /\ ~NoCopy.file
      BY <1>0, <2>1 DEF NoCopy, CopyRows
    <3> QED BY <1>5, <2>e, <3>1 DEF SnapshotFail, ExportEnd
  <2>3. BatchWork'
    BY <1>0, <1>1, <2>1, <2>2 DEF CopyInv, BatchWork, Findable
  <2> HIDE DEF CopyInv
  <2> QED BY <1>1, <2>1, <2>2, <2>3, RemovalKeeps
<1>7. ASSUME SnapshotFail \/ ExportEnd, errors' # errors PROVE CopyInv'
  <2> DEFINE c == export.copy
  <2>1. c \in Copy /\ export' = NoExport
    BY <1>7 DEF SnapshotFail, ExportEnd, CopyInv, ExportWork
  <2>2. copies' = copies \/ copies' = [copies EXCEPT ![c].state = "lost"]
    BY <1>7 DEF SnapshotFail, ExportEnd
  <2>3. /\ copies'[c].file = copies[c].file /\ copies'[c].seen = copies[c].seen
        /\ copies'[c].state \in {copies[c].state, "lost"}
        /\ \A d \in Copy \ {c} : copies'[d] = copies[d]
    BY <1>0, <2>1, <2>2 DEF CopyRows
  <2> HIDE DEF c
  <2>4. BatchWork'
    BY <1>1, <2>1, <2>3 DEF CopyInv, BatchWork, Findable
  <2>5. ExportWork'
    BY <2>1 DEF ExportWork, NoExport
  <2>6. NoOldCopies' /\ NoOrphanCopy'
    BY <1>1, <2>1, <2>3 DEF CopyInv, NothingOldSurvives, NoOldCopies, NoOrphanCopy, Findable
  <2> QED BY <1>2, <2>4, <2>5, <2>6 DEF CopyInv, NothingOldSurvives
<1>6. CASE ExportLock \/ ExportLink \/ ExportRefuse
  <2>1. /\ copies' = copies /\ export'.copy = export.copy /\ export'.control = export.control
        /\ export.pc \in {"delivered", "archiving"} /\ export'.pc \in {"archiving", "leaving"}
    BY <1>0, <1>6 DEF ExportLock, ExportLink, ExportRefuse, Exports
  <2>2. BatchWork'
    BY <1>1, <2>1 DEF CopyInv, BatchWork, Findable
  <2>3. ExportWork'
    BY <2>1 DEF CopyInv, ExportWork
  <2>4. NoOldCopies' /\ NoOrphanCopy'
    BY <1>1, <2>1 DEF CopyInv, NothingOldSurvives, NoOldCopies, NoOrphanCopy, Findable
  <2> QED BY <1>2, <2>2, <2>3, <2>4 DEF CopyInv, NothingOldSurvives
<1> QED BY <1>3, <1>4, <1>5, <1>6, <1>7 DEF ExportStep

\* After a restart nobody relies on anything; rows and files are as they were.
LEMMA RestartKeeps ==
    ASSUME Types, CopyInv, Restart PROVE CopyInv'
<1>1. /\ batch'.pc = "idle" /\ export'.pc = "idle" /\ UNCHANGED <<forgets, copies>>
      /\ \A r \in Reader : ~readers'[r].open
  BY DEF Restart, NoBatch, NoExport, NoReader
<1> QED BY <1>1 DEF CopyInv, BatchWork, ExportWork, NothingOldSurvives, OldSnapshotsEnded, NoOldCopies,
        NoOrphanCopy, Findable

\* Every step keeps what maintenance, readers and copies rely on.
LEMMA CopyStep ==
    ASSUME Types, DecisionInv, CopyInv, [Next]_vars PROVE CopyInv'
<1>1. CASE Complete
  BY <1>1, CompleteKeeps
<1>2. CASE StoreKept
  <2>1. CASE \/ Cleanup \/ Select \/ CheckCopies \/ Checkpoint \/ MaintainFail
             \/ \E who \in {"worker", "drain"} : MaintainBegin(who)
    BY <1>2, <2>1, MaintainKeeps
  <2>2. CASE CleanCopies
    <3>1. CASE Step("check") /\ UNCHANGED copies
      BY <1>2, <2>2, <3>1, MaintainKeeps
    <3>2. CASE ~CopyLocked /\ \E chosen \in SUBSET Copy : CleanFiles(chosen)
      BY <1>2, <2>2, <3>2, CleanKeeps
    <3>3. {c \in Copy : HasRow(c)} \in SUBSET Copy
      OBVIOUS
    <3> QED BY <2>2, <3>1, <3>2, <3>3 DEF CleanCopies
  <2>3. CASE Tail
    <3>1. CASE Return(FALSE) /\ UNCHANGED copies
      BY <1>2, <2>3, <3>1, MaintainKeeps
    <3>2. CASE ~CopyLocked /\ \E chosen \in SUBSET Copy : CleanFiles(chosen)
      BY <1>2, <2>3, <3>2, CleanKeeps
    <3>3. {c \in Copy : copies[c].state = "building"} \in SUBSET Copy
      OBVIOUS
    <3> QED BY <2>3, <3>1, <3>2, <3>3 DEF Tail
  <2>4. CASE CleanRow
    BY <1>2, <2>4, CleanKeeps
  <2>5. CASE ExportStep \/ \E c \in Copy : SnapshotBegin(c)
    BY <1>2, <2>5, ExportKeeps
  <2>6. CASE Restart
    BY <2>6, RestartKeeps
  <2>7. CASE UNCHANGED vars
    BY <1>2, <2>7, OthersStep DEF vars, ReadersKept
  <2>8. CASE ExecuteStep \/ LoopStep \/ WorkerWake \/ OtherWrite \/ \E f \in Forget : ExecuteStart(f)
    <3>1. UNCHANGED <<copies, export, batch, readers>>
      BY <2>8 DEF ExecuteStep, ExecuteMark, ExecuteFail, LoopStep, LoopWake, LoopTake, LoopMark,
         LoopMarkFail, LoopEnd, WorkerWake, OtherWrite, ExecuteStart
    <3>2. loop.pc = "draining" => loop'.pc = "draining"
      BY <2>8 DEF ExecuteStep, ExecuteMark, ExecuteFail, LoopStep, LoopWake, LoopTake, LoopMark,
         LoopMarkFail, LoopEnd, WorkerWake, OtherWrite, ExecuteStart, Types, Loops
    <3> QED BY <1>2, <3>1, <3>2, OthersStep DEF ReadersKept
  <2>9. ASSUME NEW r \in Reader, OpenReader(r) \/ CloseReader(r) PROVE CopyInv'
    <3>1. UNCHANGED <<copies, export, batch, loop>>
      BY <2>9 DEF OpenReader, CloseReader
    <3>2. ReadersKept
      BY <2>9 DEF Types, OpenReader, CloseReader, NoReader, ReadersKept
    <3> QED BY <1>2, <3>1, <3>2, OthersStep
  <2> QED BY <2>1, <2>2, <2>3, <2>4, <2>5, <2>6, <2>7, <2>8, <2>9, <1>1 DEF Next, MaintainStep
<1> QED BY <1>1, <1>2, StoreSteps

-----------------------------------------------------------------------------
\* The pipeline's invariant holds in every reachable state.
THEOREM ForgetInvariant == Spec => []PipelineInv
<1>1. PipelineInv <=> Types /\ DecisionInv /\ CopyInv
  BY TypesAre DEF PipelineInv, DecisionInv, CopyInv
<1>2. Init => PipelineInv
  <2> SUFFICES ASSUME Init PROVE Types /\ DecisionInv /\ CopyInv
    BY <1>1
  <2>1. forgets \in [Forget -> ForgetRows] /\ readers \in [Reader -> [open : BOOLEAN, seen : SUBSET Forget]]
    BY DEF Init, ForgetRows, Controls, NoReader
  <2>2. copies \in [Copy -> CopyRows] /\ batch \in Batches /\ worker \in Workers /\ loop \in Loops
    BY DEF Init, NoCopy, CopyRows, NoBatch, Batches, Workers, NoLoop, Loops
  <2>3. export \in Exports
    BY DEF Init, NoExport, Exports, Controls
  <2>4. Types
    BY <2>1, <2>2, <2>3, LimitAssumption DEF Init, Types
  <2>5. DecisionInv
    BY DEF Init, NoLoop, DecisionInv, BarrierWithDecision, LoopWork, ExecWork
  <2>6. CopyInv
    BY DEF Init, NoBatch, NoExport, NoCopy, NoReader, CopyInv, BatchWork, ExportWork,
       NothingOldSurvives, OldSnapshotsEnded, NoOldCopies, NoOrphanCopy, Findable
  <2> QED BY <2>4, <2>5, <2>6
<1>3. PipelineInv /\ [Next]_vars => PipelineInv'
  <2> SUFFICES ASSUME Types, DecisionInv, CopyInv, [Next]_vars PROVE PipelineInv'
    BY <1>1
  <2>1. Types' /\ DecisionInv' /\ CopyInv'
    BY TypeStep, DecisionStep, CopyStep DEF CopyInv
  <2>2. (PipelineInv <=> Types /\ DecisionInv /\ CopyInv)'
    BY <1>1, PTL
  <2> QED BY <2>1, <2>2
<1> QED BY <1>2, <1>3, PTL DEF Spec

\* Decisions, readers, copies and the actors' own state have their types.
THEOREM ForgetTypeOK == Spec => []TypeOK
<1>1. PipelineInv => TypeOK
  BY DEF PipelineInv
<1> QED BY <1>1, ForgetInvariant, PTL

\* When the store calls an operation complete, no read snapshot and no controlled copy from
\* before its barrier is left (finishForget in forget.go), for any number of readers, copies,
\* concurrent decisions, failures and restarts; only a copy whose row exportArchive deleted
\* without removing its files escapes.
THEOREM ForgetNothingOldSurvives == Spec => []NothingOldSurvives
<1>1. PipelineInv => NothingOldSurvives
  BY DEF PipelineInv
<1> QED BY <1>1, ForgetInvariant, PTL

\* A file of a controlled copy has its row, whatever fails or ends half-way in Snapshot and
\* cleanCopies (backup.go): exportArchive (deployment_archive.go) alone, when it ignores a
\* failing removal, deletes the row of a file that stays.
THEOREM ForgetNoOrphanCopy == Spec => []NoOrphanCopy
<1>1. PipelineInv => NoOrphanCopy
  BY DEF PipelineInv
<1> QED BY <1>1, ForgetInvariant, PTL

\* An archive is linked only if its copy saw every barrier there is (exportArchive): what the
\* link compares, the decisions' status, tells the barriers, and a copy that maintenance
\* removed in between is not linked.
THEOREM ForgetArchiveKnowsBarriers == Spec => ArchiveKnowsBarriers
<1>1. PipelineInv /\ [Next]_vars => [ExportLink => copies[export.copy].seen = Barriers]_vars
  <2> SUFFICES ASSUME PipelineInv, ExportLink PROVE copies[export.copy].seen = Barriers
    OBVIOUS
  <2>1. copies[export.copy].seen = {f \in Forget : export.control[f] # "approved"}
    BY DEF PipelineInv, ExportWork, ExportLink
  <2>2. export.control = Status
    BY DEF ExportLink
  <2>3. Barriers = {f \in Forget : Status[f] # "approved"}
    BY DEF PipelineInv, BarrierWithDecision, Barriers, Status
  <2> QED BY <2>1, <2>2, <2>3
<1> QED BY <1>1, ForgetInvariant, PTL DEF Spec, ArchiveKnowsBarriers

\* A decision's recorded status only moves forward (execute and cleanLoop in
\* informationcontrol/forget.go): the two never work on a decision at the same time, and what
\* each writes follows what it read under workMu.
THEOREM ForgetStatusOnlyAdvances == Spec => StatusOnlyAdvances
<1>1. PipelineInv /\ [Next]_vars =>
        [\A f \in Forget : Rank[forgets[f].control] <= Rank[forgets'[f].control]]_vars
  <2> SUFFICES ASSUME PipelineInv, [Next]_vars PROVE Advances
    BY DEF Advances
  <2> QED BY TypesAre, DecisionStep DEF PipelineInv, DecisionInv
<1> QED BY <1>1, ForgetInvariant, PTL DEF Spec, StatusOnlyAdvances
=============================================================================
