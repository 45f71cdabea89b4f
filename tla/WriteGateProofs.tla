-------------------------- MODULE WriteGateProofs --------------------------
(***************************************************************************)
(* The write gate is correct for any number of goroutines of any classes.  *)
(* None of the properties is inductive alone: mutual exclusion needs that  *)
(* busy is set while somebody holds the gate, the absence of lost wake-ups *)
(* needs that the counters are exact, and the alternation needs to know    *)
(* whose turn was last whenever a class has been passed.                   *)
(***************************************************************************)
EXTENDS WriteGate, TLAPS

\* A class that has been passed is still waiting, has been passed once, and
\* the turn history names its rival, which therefore is not allowed again.
TurnInv ==
    \A c \in {"maintenance", "ordinary"} :
        /\ passed[c] <= 1
        /\ passed[c] = 1 => last = Rival(c) /\ waiting[c] # {}

GateInv ==
    /\ TypeOK
    /\ MutualExclusion
    /\ WaitersAreCounted
    /\ NoLostWakeup
    /\ TurnInv

\* What PassedAfter returns has the type of passed.
LEMMA PassedAfterType ==
    ASSUME NEW w, NEW g, passed \in [Class -> 0..Many]
    PROVE  PassedAfter(w, g) \in [Class -> 0..Many]
  BY DEF PassedAfter, Class, Many

\* The initial state of a gate satisfies the invariant.
LEMMA GateInit == Init => GateInv
<1> SUFFICES ASSUME Init PROVE GateInv
  OBVIOUS
<1>0. passed \in [Class -> 0..Many]
  BY DEF Init, Many
<1>1. TypeOK
  BY <1>0 DEF Init, TypeOK, Class, PC
<1>2. MutualExclusion
  BY DEF Init, MutualExclusion
<1>3. WaitersAreCounted
  BY ClassAssumption DEF Init, WaitersAreCounted
<1>4. NoLostWakeup /\ TurnInv
  BY DEF Init, NoLostWakeup, TurnInv, Class
<1> QED BY <1>1, <1>2, <1>3, <1>4 DEF GateInv

\* Signalling leaves nobody asleep and moves nobody else.
LEMMA SignalWakes ==
    ASSUME NEW f \in [Proc -> PC]
    PROVE  /\ Signal(f) \in [Proc -> PC]
           /\ \A p \in Proc : /\ Signal(f)[p] # "asleep"
                              /\ f[p] # "asleep" => Signal(f)[p] = f[p]
                              /\ f[p] = "asleep" => Signal(f)[p] = "look"
  BY DEF Signal, PC

\* Every critical section of the gate preserves the invariant.
LEMMA GateStep == GateInv /\ [Next]_vars => GateInv'
<1> SUFFICES ASSUME GateInv, [Next]_vars PROVE GateInv'
  OBVIOUS
<1> USE ClassAssumption
<1>0. TypeOK /\ MutualExclusion /\ WaitersAreCounted /\ NoLostWakeup /\ TurnInv
  BY DEF GateInv
<1>1. ASSUME NEW p \in Proc, Arrive(p) PROVE GateInv'
  <2>1. TypeOK'
    BY <1>0, <1>1 DEF Arrive, TypeOK, Class, PC
  <2>2. MutualExclusion'
    BY <1>0, <1>1 DEF Arrive, TypeOK, MutualExclusion
  <2>3. WaitersAreCounted'
    BY <1>0, <1>1 DEF Arrive, TypeOK, WaitersAreCounted, Class
  <2>4. NoLostWakeup'
    BY <1>0, <1>1 DEF Arrive, TypeOK, NoLostWakeup, Allowed, Class
  <2>5. TurnInv'
    BY <1>0, <1>1 DEF Arrive, TypeOK, TurnInv, Class
  <2> QED BY <2>1, <2>2, <2>3, <2>4, <2>5 DEF GateInv
<1>2. ASSUME NEW p \in Proc, GiveUp(p) PROVE GateInv'
  <2>0. /\ pc' \in [Proc -> PC]
        /\ pc'[p] = "idle"
        /\ \A q \in Proc \ {p} : pc'[q] = Signal(pc)[q]
    BY <1>0, <1>2, SignalWakes DEF GiveUp, TypeOK, PC
  <2>1. TypeOK'
    BY <1>0, <1>2, <2>0, PassedAfterType DEF GiveUp, TypeOK, Class
  <2>2. MutualExclusion'
    BY <1>0, <1>2, <2>0, SignalWakes DEF GiveUp, TypeOK, MutualExclusion
  <2>3. WaitersAreCounted'
    BY <1>0, <1>2, <2>0, SignalWakes DEF GiveUp, TypeOK, WaitersAreCounted, Class
  <2>4. NoLostWakeup'
    BY <1>0, <1>2, <2>0, SignalWakes DEF GiveUp, TypeOK, NoLostWakeup
  <2>5. TurnInv'
    BY <1>0, <1>2 DEF GiveUp, TypeOK, TurnInv, PassedAfter, Many, Class, Rival
  <2> QED BY <2>1, <2>2, <2>3, <2>4, <2>5 DEF GateInv
<1>3. ASSUME NEW p \in Proc, Grant(p) PROVE GateInv'
  <2>1. TypeOK'
    BY <1>0, <1>3, PassedAfterType DEF Grant, TypeOK, Class, PC
  <2>2. MutualExclusion'
    BY <1>0, <1>3 DEF Grant, TypeOK, MutualExclusion, Allowed
  <2>3. WaitersAreCounted'
    BY <1>0, <1>3 DEF Grant, TypeOK, WaitersAreCounted, Class
  <2>4. NoLostWakeup'
    BY <1>0, <1>3 DEF Grant, TypeOK, NoLostWakeup, Allowed
  <2>5. TurnInv'
    <3>1. p \in waiting[ClassOf[p]]
      BY <1>0, <1>3 DEF Grant, WaitersAreCounted, TypeOK
    <3>2. CASE ClassOf[p] = "control"
      BY <1>0, <1>3, <3>2 DEF Grant, TypeOK, TurnInv, PassedAfter, Many, Class, Rival
    <3>3. CASE ClassOf[p] = "maintenance"
      BY <1>0, <1>3, <3>1, <3>3
      DEF Grant, TypeOK, TurnInv, PassedAfter, Many, Class, Rival, Allowed
    <3>4. CASE ClassOf[p] = "ordinary"
      BY <1>0, <1>3, <3>1, <3>4
      DEF Grant, TypeOK, TurnInv, PassedAfter, Many, Class, Rival, Allowed
    <3> QED BY <3>2, <3>3, <3>4 DEF Class
  <2> QED BY <2>1, <2>2, <2>3, <2>4, <2>5 DEF GateInv
<1>4. ASSUME NEW p \in Proc, Sleep(p) PROVE GateInv'
  <2>1. TypeOK'
    BY <1>0, <1>4 DEF Sleep, TypeOK, PC
  <2>2. MutualExclusion'
    BY <1>0, <1>4 DEF Sleep, TypeOK, MutualExclusion
  <2>3. WaitersAreCounted'
    BY <1>0, <1>4 DEF Sleep, TypeOK, WaitersAreCounted, Class
  <2>4. NoLostWakeup'
    BY <1>0, <1>4 DEF Sleep, TypeOK, NoLostWakeup, Allowed
  <2>5. TurnInv'
    BY <1>0, <1>4 DEF Sleep, TurnInv
  <2> QED BY <2>1, <2>2, <2>3, <2>4, <2>5 DEF GateInv
<1>5. ASSUME NEW p \in Proc, Cancel(p) PROVE GateInv'
  BY <1>0, <1>5 DEF Cancel, GateInv, TypeOK, MutualExclusion, WaitersAreCounted,
     NoLostWakeup, Allowed, TurnInv
<1>6. ASSUME NEW p \in Proc, WakeCancelled(p) PROVE GateInv'
  <2>1. TypeOK' /\ MutualExclusion'
    BY <1>0, <1>6 DEF WakeCancelled, TypeOK, PC, MutualExclusion
  <2>2. WaitersAreCounted'
    BY <1>0, <1>6 DEF WakeCancelled, TypeOK, WaitersAreCounted, Class
  <2>3. NoLostWakeup' /\ TurnInv'
    BY <1>0, <1>6 DEF WakeCancelled, TypeOK, NoLostWakeup, Allowed, TurnInv
  <2> QED BY <2>1, <2>2, <2>3 DEF GateInv
<1>7. ASSUME NEW p \in Proc, Unlock(p) PROVE GateInv'
  <2>0. /\ pc' \in [Proc -> PC]
        /\ pc'[p] = "idle"
        /\ \A q \in Proc \ {p} : pc'[q] = Signal(pc)[q]
    BY <1>0, <1>7, SignalWakes DEF Unlock, TypeOK, PC
  <2>1. TypeOK'
    BY <1>0, <1>7, <2>0 DEF Unlock, TypeOK
  <2>2. MutualExclusion'
    BY <1>0, <1>7, <2>0, SignalWakes DEF Unlock, TypeOK, MutualExclusion
  <2>3. WaitersAreCounted'
    BY <1>0, <1>7, <2>0, SignalWakes DEF Unlock, TypeOK, WaitersAreCounted, Class
  <2>4. NoLostWakeup'
    BY <1>0, <1>7, <2>0, SignalWakes DEF Unlock, TypeOK, NoLostWakeup
  <2>5. TurnInv'
    BY <1>0, <1>7 DEF Unlock, TurnInv
  <2> QED BY <2>1, <2>2, <2>3, <2>4, <2>5 DEF GateInv
<1>8. CASE UNCHANGED vars
  BY <1>0, <1>8 DEF vars, GateInv, TypeOK, MutualExclusion, WaitersAreCounted,
     NoLostWakeup, Allowed, TurnInv
<1> QED
  BY <1>1, <1>2, <1>3, <1>4, <1>5, <1>6, <1>7, <1>8 DEF Next

\* The strengthened invariant holds in every reachable state of every gate.
THEOREM GateInvariant == Spec => []GateInv
<1>1. Init => GateInv
  BY GateInit
<1>2. GateInv /\ [Next]_vars => GateInv'
  BY GateStep
<1> QED BY <1>1, <1>2, PTL DEF Spec

\* At most one goroutine holds the gate, and busy says whether one does.
THEOREM GateMutualExclusion == Spec => []MutualExclusion
<1>1. GateInv => MutualExclusion
  BY DEF GateInv
<1> QED BY <1>1, GateInvariant, PTL

\* The state of the gate has its type, whatever mixture of goroutines acquires,
\* gives up and unlocks: last stays a class and only goroutines are counted.
THEOREM GateTypeOK == Spec => []TypeOK
<1>1. GateInv => TypeOK
  BY DEF GateInv
<1> QED BY <1>1, GateInvariant, PTL

\* The counters of acquire count exactly the goroutines inside it, on every
\* return path, for any number of goroutines.
THEOREM GateWaitersAreCounted == Spec => []WaitersAreCounted
<1>1. GateInv => WaitersAreCounted
  BY DEF GateInv
<1> QED BY <1>1, GateInvariant, PTL

\* No waiter sleeps through a state in which acquire would admit it.
THEOREM GateNoLostWakeup == Spec => []NoLostWakeup
<1>1. GateInv => NoLostWakeup
  BY DEF GateInv
<1> QED BY <1>1, GateInvariant, PTL

\* Whatever the number of goroutines, a class that waits is passed at most
\* once by its rival.
THEOREM GateAlternation == Spec => []Alternation
<1>1. GateInv => Alternation
  BY DEF GateInv, TurnInv, Alternation
<1> QED BY <1>1, GateInvariant, PTL

\* Controls go first: the counters are exact, so a grant to another class
\* proves that no control is inside acquire.
THEOREM GateControlsGoFirst == Spec => ControlsGoFirst
<1> DEFINE Step ==
      \A p \in Proc :
          pc[p] # "holds" /\ pc'[p] = "holds" /\ ClassOf[p] # "control"
          => \A q \in Proc : ClassOf[q] = "control" =>
                pc[q] \in {"idle", "holds"}
<1>1. GateInv /\ [Next]_vars => [Step]_vars
  <2> SUFFICES ASSUME GateInv, Next,
                      NEW p \in Proc, pc[p] # "holds", pc'[p] = "holds",
                      ClassOf[p] # "control",
                      NEW q \in Proc, ClassOf[q] = "control"
               PROVE  pc[q] \in {"idle", "holds"}
    BY DEF vars
  <2>1. PICK r \in Proc :
          \/ Arrive(r) \/ GiveUp(r) \/ Grant(r) \/ Sleep(r)
          \/ Cancel(r) \/ WakeCancelled(r) \/ Unlock(r)
    BY DEF Next
  <2>2. Grant(r) /\ r = p
    BY <2>1, SignalWakes DEF GateInv, TypeOK, PC, Arrive, GiveUp, Grant, Sleep, Cancel,
       WakeCancelled, Unlock
  <2>3. waiting["control"] = {}
    BY <2>2 DEF Grant, Allowed
  <2> QED BY <2>3 DEF GateInv, WaitersAreCounted, TypeOK, PC, Class
<1> QED BY <1>1, GateInvariant, PTL DEF Spec, ControlsGoFirst
=============================================================================
