----------------------------- MODULE WriteGate -----------------------------
(***************************************************************************)
(* The write gate of the bounded store (internal/boundedstore/             *)
(* scheduler.go, type writeGate).  The store owns two gates: writeMu, which *)
(* hands out the single database writer, and workAdmission, which orders   *)
(* whole foreground workspaces against maintenance batches.                *)
(*                                                                         *)
(* Every goroutine calls acquire with a class.  The critical sections of   *)
(* g.mu are the atomic steps; between them a waiter sleeps on the channel  *)
(* that was current when it last looked (g.changed), and signal closes     *)
(* that channel and installs a fresh one.                                  *)
(***************************************************************************)
EXTENDS Naturals, FiniteSets

CONSTANTS Proc,     \* goroutines that use the gate
          ClassOf   \* [Proc -> Class], the work class in each one's context

Class == {"control", "maintenance", "ordinary"}

ASSUME ClassAssumption == ClassOf \in [Proc -> Class]

VARIABLES
    busy,       \* g.busy
    waiting,    \* g.waiting: for each class, the goroutines it counts
    last,       \* g.last, whose zero value is "control"
    pc,         \* where each goroutine is in acquire / Unlock
    cancelled,  \* goroutines whose context is done
    passed      \* history: grants to the rival class while a class waits

vars == <<busy, waiting, last, pc, cancelled, passed>>

(***************************************************************************)
(* idle    not in acquire                                                  *)
(* look    in acquire, about to take g.mu and evaluate the loop body       *)
(* asleep  in the select, on a channel that has not been closed            *)
(* holds   acquire returned nil, Unlock not yet called                     *)
(***************************************************************************)
PC == {"idle", "look", "asleep", "holds"}

Rival(c) == IF c = "ordinary" THEN "maintenance" ELSE "ordinary"

Init ==
    /\ busy = FALSE
    /\ waiting = [c \in Class |-> {}]
    /\ last = "control"
    /\ pc = [p \in Proc |-> "idle"]
    /\ cancelled = {}
    /\ passed = [c \in Class |-> 0]

-----------------------------------------------------------------------------
\* g.signal(): close(g.changed) wakes everyone who sleeps on it.
Signal(counter) ==
    [p \in Proc |-> IF counter[p] = "asleep" THEN "look" ELSE counter[p]]

\* Mutations of Allowed: the busy flag or the control rule is not looked at,
\* the control rule also holds back controls, or maintenance always yields.
AllowedWhileBusy(c) ==
    /\ c # "control" => waiting["control"] = {}
    /\ ~(c = "ordinary" /\ waiting["maintenance"] # {} /\ last # "maintenance")
    /\ ~(c = "maintenance" /\ waiting["ordinary"] # {} /\ last = "maintenance")
AllowedBeforeControl(c) ==
    /\ ~busy
    /\ ~(c = "ordinary" /\ waiting["maintenance"] # {} /\ last # "maintenance")
    /\ ~(c = "maintenance" /\ waiting["ordinary"] # {} /\ last = "maintenance")
AllowedAfterControls(c) ==
    /\ ~busy
    /\ waiting["control"] = {}
    /\ ~(c = "ordinary" /\ waiting["maintenance"] # {} /\ last # "maintenance")
    /\ ~(c = "maintenance" /\ waiting["ordinary"] # {} /\ last = "maintenance")
AllowedNeverBoth(c) ==
    /\ ~busy
    /\ c # "control" => waiting["control"] = {}
    /\ ~(c = "ordinary" /\ waiting["maintenance"] # {} /\ last # "maintenance")
    /\ ~(c = "maintenance" /\ waiting["ordinary"] # {})

\* The four conditions acquire evaluates before it grants the gate.
Allowed(c) ==
    /\ ~busy
    /\ c # "control" => waiting["control"] = {}
    /\ ~(c = "ordinary" /\ waiting["maintenance"] # {} /\ last # "maintenance")
    /\ ~(c = "maintenance" /\ waiting["ordinary"] # {} /\ last = "maintenance")

\* History: class c keeps its count while it waits and starts again at zero
\* once nobody of that class waits or once it is granted the gate.  Counting
\* stops at Many, one more than Alternation allows.
Many == 2
PassedAfter(w, granted) ==
    [c \in Class |->
        IF w[c] = {} \/ granted = c THEN 0
        ELSE IF granted = Rival(c) /\ c # "control" /\ passed[c] < Many THEN passed[c] + 1
        ELSE passed[c]]

-----------------------------------------------------------------------------
\* acquire up to the loop: waiting[class]++ under g.mu.
Arrive(p) ==
    /\ pc[p] = "idle"
    /\ waiting' = [waiting EXCEPT ![ClassOf[p]] = @ \cup {p}]
    /\ pc' = [pc EXCEPT ![p] = "look"]
    /\ UNCHANGED <<busy, last, cancelled, passed>>

\* Mutations of GiveUp: the counter is not taken back, or nobody is woken.
GiveUpCounted(p) ==
    /\ pc[p] = "look"
    /\ p \in cancelled
    /\ pc' = [Signal(pc) EXCEPT ![p] = "idle"]
    /\ cancelled' = cancelled \ {p}
    /\ UNCHANGED <<busy, waiting, last, passed>>
GiveUpSilently(p) ==
    /\ pc[p] = "look"
    /\ p \in cancelled
    /\ waiting' = [waiting EXCEPT ![ClassOf[p]] = @ \ {p}]
    /\ pc' = [pc EXCEPT ![p] = "idle"]
    /\ cancelled' = cancelled \ {p}
    /\ passed' = PassedAfter(waiting', "none")
    /\ UNCHANGED <<busy, last>>

\* The loop finds ctx.Err() # nil: signal, then the deferred decrement.
GiveUp(p) ==
    /\ pc[p] = "look"
    /\ p \in cancelled
    /\ waiting' = [waiting EXCEPT ![ClassOf[p]] = @ \ {p}]
    /\ pc' = [Signal(pc) EXCEPT ![p] = "idle"]
    /\ cancelled' = cancelled \ {p}
    /\ passed' = PassedAfter(waiting', "none")
    /\ UNCHANGED <<busy, last>>

\* Mutations of Grant: a control takes a turn as well, or the turn is stored
\* as a class number that does not exist.
GrantWithTurn(p, turn) ==
    /\ pc[p] = "look"
    /\ p \notin cancelled
    /\ Allowed(ClassOf[p])
    /\ busy' = TRUE
    /\ last' = turn
    /\ waiting' = [waiting EXCEPT ![ClassOf[p]] = @ \ {p}]
    /\ pc' = [pc EXCEPT ![p] = "holds"]
    /\ passed' = PassedAfter(waiting', ClassOf[p])
    /\ UNCHANGED cancelled
GrantControlTurn(p) == GrantWithTurn(p, ClassOf[p])
GrantNoClass(p) == GrantWithTurn(p, "class 3")

\* The loop body grants the gate; a control grant keeps the turn history.
Grant(p) ==
    /\ pc[p] = "look"
    /\ p \notin cancelled
    /\ Allowed(ClassOf[p])
    /\ busy' = TRUE
    /\ last' = IF ClassOf[p] = "control" THEN last ELSE ClassOf[p]
    /\ waiting' = [waiting EXCEPT ![ClassOf[p]] = @ \ {p}]
    /\ pc' = [pc EXCEPT ![p] = "holds"]
    /\ passed' = PassedAfter(waiting', ClassOf[p])
    /\ UNCHANGED cancelled

\* The loop body refuses: remember g.changed, release g.mu, select.
Sleep(p) ==
    /\ pc[p] = "look"
    /\ p \notin cancelled
    /\ ~Allowed(ClassOf[p])
    /\ pc' = [pc EXCEPT ![p] = "asleep"]
    /\ UNCHANGED <<busy, waiting, last, cancelled, passed>>

\* The caller's context ends while it is inside acquire.
Cancel(p) ==
    /\ pc[p] \in {"look", "asleep"}
    /\ p \notin cancelled
    /\ cancelled' = cancelled \cup {p}
    /\ UNCHANGED <<busy, waiting, last, pc, passed>>

\* The select takes the ctx.Done() branch.
WakeCancelled(p) ==
    /\ pc[p] = "asleep"
    /\ p \in cancelled
    /\ pc' = [pc EXCEPT ![p] = "look"]
    /\ UNCHANGED <<busy, waiting, last, cancelled, passed>>

\* Unlock: busy = false, signal.
Unlock(p) ==
    /\ pc[p] = "holds"
    /\ busy' = FALSE
    /\ pc' = [Signal(pc) EXCEPT ![p] = "idle"]
    /\ UNCHANGED <<waiting, last, cancelled, passed>>

Next == \E p \in Proc :
    \/ Arrive(p) \/ GiveUp(p) \/ Grant(p) \/ Sleep(p)
    \/ Cancel(p) \/ WakeCancelled(p) \/ Unlock(p)

Spec == Init /\ [][Next]_vars

(***************************************************************************)
(* Fairness.  A goroutine that can run its critical section is scheduled   *)
(* by the Go runtime; a grant of one goroutine may be withdrawn by another *)
(* one's grant or arrival, so no strong fairness of a particular waiter is *)
(* assumed.  Holders release the gate: every caller defers the Unlock or   *)
(* calls it on each path.  Callers are free to arrive or cancel or not.    *)
(***************************************************************************)
Fairness == \A p \in Proc :
    /\ WF_vars(GiveUp(p) \/ Grant(p) \/ Sleep(p))
    /\ WF_vars(WakeCancelled(p))
    /\ WF_vars(Unlock(p))

FairSpec == Spec /\ Fairness

-----------------------------------------------------------------------------
TypeOK ==
    /\ busy \in BOOLEAN
    /\ waiting \in [Class -> SUBSET Proc]
    /\ last \in Class
    /\ pc \in [Proc -> PC]
    /\ cancelled \in SUBSET Proc
    /\ passed \in [Class -> 0..Many]

\* The gate is a lock: two goroutines never hold it together, and it is busy
\* exactly while somebody holds it (a leaked or doubled Unlock would break
\* the second half before the first).
MutualExclusion ==
    /\ \A p, q \in Proc : pc[p] = "holds" /\ pc[q] = "holds" => p = q
    /\ busy <=> \E p \in Proc : pc[p] = "holds"

\* The counters that steer the gate count exactly the goroutines inside
\* acquire, on every return path of it, so no class is held back on behalf
\* of a caller that already left.
WaitersAreCounted ==
    \A p \in Proc, c \in Class :
        p \in waiting[c] <=> ClassOf[p] = c /\ pc[p] \in {"look", "asleep"}

\* No lost wake-up: nobody sleeps through a chance to take the gate.  Each
\* of the three conditions that can turn Allowed from false to true (Unlock,
\* a cancelled rival, a cancelled control) must come with a signal.
NoLostWakeup ==
    \A p \in Proc : pc[p] = "asleep" => ~Allowed(ClassOf[p])

\* "maintenance and ordinary writers alternate when both are waiting": while
\* a class has a waiter, the rival class is granted the gate at most once,
\* whatever controls do in between.
Alternation == \A c \in {"maintenance", "ordinary"} : passed[c] <= 1

\* "Controls take the next transaction": a step that gives the gate to
\* another class finds no control inside acquire.
ControlsGoFirst ==
    [][\A p \in Proc :
          pc[p] # "holds" /\ pc'[p] = "holds" /\ ClassOf[p] # "control"
          => \A q \in Proc : ClassOf[q] = "control" =>
                pc[q] \in {"idle", "holds"}]_vars

Waits(c) == \E p \in Proc : ClassOf[p] = c /\ pc[p] \in {"look", "asleep"}
Holds(c) == \E p \in Proc : ClassOf[p] = c /\ pc[p] = "holds"

\* A waiting control is served unless a control is cancelled: nothing can be
\* granted before it but the holder of the moment and other controls.
ControlServed ==
    Waits("control") ~>
        (Holds("control") \/ \E p \in cancelled : ClassOf[p] = "control")

\* Once controls and cancellations stop coming, neither class starves the
\* other.  Both exceptions are real: each control goes first, and a rival
\* that arrives and cancels for ever keeps "both are waiting" true.
NoStarvation ==
    \A c \in {"maintenance", "ordinary"} :
        <>[](~Waits("control") /\ cancelled = {}) =>
            (Waits(c) ~> (Holds(c) \/ ~Waits(c)))

\* Every class gets the gate: controls first, the other two in turn (acquire).
EveryClassServed == ControlServed /\ NoStarvation
=============================================================================
