--------------------------- MODULE LogDrainProofs ---------------------------
(***************************************************************************)
(* The safety of reader leases, write admission and log maintenance, for   *)
(* any number of calls of every kind and any limits.  The reserve is safe  *)
(* because whoever has looked at the log's size holds the write gate until *)
(* its transaction ends, which the invariant has to say.                   *)
(***************************************************************************)
EXTENDS LogDrain, TLAPS

\* Whoever has measured the log or is about to truncate it holds writeMu.
GateHeld ==
    \A p \in Proc : at[p] \in {"checkpoint", "truncate", "granted"} => gate = p

DrainInv ==
    /\ TypeOK
    /\ GateHeld
    /\ ReserveKept
    /\ DrainHasCause
    /\ SleepersHaveWaker

\* The limits of every class leave room for one transaction in an empty log,
\* and only controls go beyond the ordinary limit.
LEMMA LimitBounds ==
    ASSUME NEW p \in Proc
    PROVE  Limit(p) \in Nat /\ 1 < Limit(p) /\ Ordinary <= Limit(p) /\ Limit(p) <= Control
  BY DrainAssumption DEF Limit

\* An empty log is shorter than the control limit.
LEMMA EmptyLog == 0 \in 0..(Control - 1)
  BY DrainAssumption

\* Cancelling readers returns no lease and changes no type.
LEMMA CancelKeepsLeases ==
    ASSUME read \in [Proc -> Lease]
    PROVE  /\ CancelReaders \in [Proc -> Lease]
           /\ \A p \in Proc : CancelReaders[p] = "none" <=> read[p] = "none"
  BY DEF CancelReaders, Lease

\* A store that has just been opened satisfies the invariant.
LEMMA DrainInit == Init => DrainInv
<1> SUFFICES ASSUME Init PROVE DrainInv
  OBVIOUS
<1>1. TypeOK
  BY EmptyLog DEF Init, TypeOK, Place, Lease
<1>2. GateHeld /\ ReserveKept /\ DrainHasCause /\ SleepersHaveWaker
  BY DEF Init, GateHeld, ReserveKept, DrainHasCause, SleepersHaveWaker
<1> QED BY <1>1, <1>2 DEF DrainInv

\* Every step of a call or of the worker preserves the invariant.
LEMMA DrainStep == DrainInv /\ [Next]_vars => DrainInv'
<1> SUFFICES ASSUME DrainInv, [Next]_vars PROVE DrainInv'
  OBVIOUS
<1>0. TypeOK /\ GateHeld /\ ReserveKept /\ DrainHasCause /\ SleepersHaveWaker
  BY DEF DrainInv
<1>a. Caller \subseteq Proc /\ Controls \subseteq Proc /\ Worker \in Proc /\ None \notin Proc
  BY DrainAssumption DEF Proc, Caller
<1>1. ASSUME NEW p \in Caller, Enter(p) PROVE DrainInv'
  <2>1. TypeOK'
    BY <1>0, <1>a, <1>1 DEF Enter, Go, TypeOK, Place, Lease
  <2>2. GateHeld' /\ ReserveKept' /\ DrainHasCause'
    BY <1>0, <1>a, <1>1 DEF Enter, Go, TypeOK, GateHeld, ReserveKept,
       DrainHasCause, Limit, WriteClass
  <2>3. SleepersHaveWaker'
    BY <1>0, <1>a, <1>1 DEF Enter, Go, TypeOK, SleepersHaveWaker
  <2> QED BY <2>1, <2>2, <2>3 DEF DrainInv
<1>2. ASSUME NEW p \in Caller, EnterBackup(p) PROVE DrainInv'
  <2>1. TypeOK'
    BY <1>0, <1>a, <1>2 DEF EnterBackup, Go, TypeOK, Place, Lease
  <2>2. GateHeld' /\ ReserveKept' /\ DrainHasCause'
    BY <1>0, <1>a, <1>2 DEF EnterBackup, Go, TypeOK, GateHeld, ReserveKept,
       DrainHasCause, Limit, WriteClass
  <2>3. SleepersHaveWaker'
    BY <1>0, <1>a, <1>2 DEF EnterBackup, Go, TypeOK, SleepersHaveWaker
  <2> QED BY <2>1, <2>2, <2>3 DEF DrainInv
<1>3. ASSUME NEW p \in Caller, Leave(p) PROVE DrainInv'
  <2>1. TypeOK'
    BY <1>0, <1>a, <1>3 DEF Leave, Go, TypeOK, Place, Lease
  <2>2. GateHeld' /\ ReserveKept' /\ DrainHasCause'
    BY <1>0, <1>a, <1>3 DEF Leave, Go, TypeOK, GateHeld, ReserveKept,
       DrainHasCause, Limit, WriteClass
  <2>3. SleepersHaveWaker'
    BY <1>0, <1>a, <1>3 DEF Leave, Go, TypeOK, SleepersHaveWaker
  <2> QED BY <2>1, <2>2, <2>3 DEF DrainInv
<1>4. ASSUME NEW p \in Caller, GiveUpRead(p) PROVE DrainInv'
  <2>1. TypeOK'
    BY <1>0, <1>a, <1>4 DEF GiveUpRead, Go, TypeOK, Place, Lease
  <2>2. GateHeld' /\ ReserveKept' /\ DrainHasCause'
    BY <1>0, <1>a, <1>4 DEF GiveUpRead, Go, TypeOK, GateHeld, ReserveKept,
       DrainHasCause, Limit, WriteClass
  <2>3. SleepersHaveWaker'
    BY <1>0, <1>a, <1>4 DEF GiveUpRead, Go, TypeOK, SleepersHaveWaker
  <2> QED BY <2>1, <2>2, <2>3 DEF DrainInv
<1>5. ASSUME NEW p \in Caller, GiveUp(p) PROVE DrainInv'
  <2>1. TypeOK'
    BY <1>0, <1>a, <1>5 DEF GiveUp, Go, TypeOK, Place, Lease
  <2>2. GateHeld' /\ ReserveKept' /\ DrainHasCause'
    BY <1>0, <1>a, <1>5 DEF GiveUp, Go, TypeOK, GateHeld, ReserveKept,
       DrainHasCause, Limit, WriteClass
  <2>3. SleepersHaveWaker'
    BY <1>0, <1>a, <1>5 DEF GiveUp, Go, TypeOK, SleepersHaveWaker
  <2> QED BY <2>1, <2>2, <2>3 DEF DrainInv
<1>6. ASSUME NEW p \in Proc, WantRead(p) PROVE DrainInv'
  <2>1. TypeOK'
    BY <1>0, <1>a, <1>6 DEF WantRead, Go, TypeOK, Place, Lease
  <2>2. GateHeld' /\ ReserveKept' /\ DrainHasCause'
    BY <1>0, <1>a, <1>6 DEF WantRead, Go, TypeOK, GateHeld, ReserveKept,
       DrainHasCause, Limit, WriteClass
  <2>3. SleepersHaveWaker'
    BY <1>0, <1>a, <1>6 DEF WantRead, Go, TypeOK, SleepersHaveWaker
  <2> QED BY <2>1, <2>2, <2>3 DEF DrainInv
<1>7. ASSUME NEW p \in Proc, BlockRead(p) PROVE DrainInv'
  <2>1. TypeOK'
    BY <1>0, <1>a, <1>7 DEF BlockRead, Go, Looking, TypeOK, Place, Lease
  <2>2. GateHeld' /\ ReserveKept' /\ DrainHasCause'
    BY <1>0, <1>a, <1>7 DEF BlockRead, Go, Looking, TypeOK, GateHeld,
       ReserveKept, DrainHasCause, Limit, WriteClass
  <2>3. SleepersHaveWaker'
    BY <1>0, <1>a, <1>7 DEF BlockRead, Go, Looking, TypeOK, SleepersHaveWaker
  <2> QED BY <2>1, <2>2, <2>3 DEF DrainInv
<1>8. ASSUME NEW p \in Proc, TakeLease(p) PROVE DrainInv'
  <2>1. TypeOK'
    BY <1>0, <1>a, <1>8 DEF TakeLease, Go, Looking, TypeOK, Place, Lease
  <2>2. GateHeld' /\ ReserveKept' /\ DrainHasCause'
    BY <1>0, <1>a, <1>8 DEF TakeLease, Go, Looking, TypeOK, GateHeld,
       ReserveKept, DrainHasCause, Limit, WriteClass
  <2>3. SleepersHaveWaker'
    BY <1>0, <1>a, <1>8 DEF TakeLease, Go, Looking, TypeOK, SleepersHaveWaker
  <2> QED BY <2>1, <2>2, <2>3 DEF DrainInv
<1>9. ASSUME NEW p \in Proc, BeginRead(p) PROVE DrainInv'
  <2>1. TypeOK'
    BY <1>0, <1>a, <1>9 DEF BeginRead, Go, TypeOK, Place, Lease
  <2>2. GateHeld' /\ ReserveKept' /\ DrainHasCause'
    BY <1>0, <1>a, <1>9 DEF BeginRead, Go, TypeOK, GateHeld, ReserveKept,
       DrainHasCause, Limit, WriteClass
  <2>3. SleepersHaveWaker'
    BY <1>0, <1>a, <1>9 DEF BeginRead, Go, TypeOK, SleepersHaveWaker
  <2> QED BY <2>1, <2>2, <2>3 DEF DrainInv
<1>10. ASSUME NEW p \in Proc, Abort(p) PROVE DrainInv'
  <2>1. TypeOK'
    BY <1>0, <1>a, <1>10 DEF Abort, Go, TypeOK, Place, Lease
  <2>2. GateHeld' /\ ReserveKept' /\ DrainHasCause'
    BY <1>0, <1>a, <1>10 DEF Abort, Go, TypeOK, GateHeld, ReserveKept,
       DrainHasCause, Limit, WriteClass
  <2>3. SleepersHaveWaker'
    BY <1>0, <1>a, <1>10 DEF Abort, Go, TypeOK, SleepersHaveWaker
  <2> QED BY <2>1, <2>2, <2>3 DEF DrainInv
<1>11. ASSUME NEW p \in Proc, EndRead(p) PROVE DrainInv'
  <2>1. TypeOK'
    BY <1>0, <1>a, <1>11 DEF EndRead, Go, TypeOK, Place, Lease
  <2>2. GateHeld' /\ ReserveKept' /\ DrainHasCause'
    BY <1>0, <1>a, <1>11 DEF EndRead, Go, TypeOK, GateHeld, ReserveKept,
       DrainHasCause, Limit, WriteClass
  <2>3. SleepersHaveWaker'
    BY <1>0, <1>a, <1>11 DEF EndRead, Go, TypeOK, SleepersHaveWaker
  <2> QED BY <2>1, <2>2, <2>3 DEF DrainInv
<1>12. ASSUME NEW p \in Proc, WantWrite(p) PROVE DrainInv'
  <2>1. TypeOK'
    BY <1>0, <1>a, <1>12 DEF WantWrite, Go, TypeOK, Place, Lease
  <2>2. GateHeld' /\ ReserveKept' /\ DrainHasCause'
    BY <1>0, <1>a, <1>12 DEF WantWrite, Go, TypeOK, GateHeld, ReserveKept,
       DrainHasCause, Limit, WriteClass
  <2>3. SleepersHaveWaker'
    BY <1>0, <1>a, <1>12 DEF WantWrite, Go, TypeOK, SleepersHaveWaker
  <2> QED BY <2>1, <2>2, <2>3 DEF DrainInv
<1>13. ASSUME NEW p \in Proc, AdmitFrozen(p) PROVE DrainInv'
  <2>1. TypeOK'
    BY <1>0, <1>a, <1>13 DEF AdmitFrozen, Go, TypeOK, Place, Lease
  <2>2. GateHeld' /\ ReserveKept' /\ DrainHasCause'
    BY <1>0, <1>a, <1>13 DEF AdmitFrozen, Go, TypeOK, GateHeld, ReserveKept,
       DrainHasCause, Limit, WriteClass
  <2>3. SleepersHaveWaker'
    BY <1>0, <1>a, <1>13 DEF AdmitFrozen, Go, TypeOK, SleepersHaveWaker
  <2> QED BY <2>1, <2>2, <2>3 DEF DrainInv
<1>14. ASSUME NEW p \in Proc, Admit(p) PROVE DrainInv'
  <2>1. TypeOK'
    BY <1>0, <1>a, <1>14 DEF Admit, Go, TypeOK, Place, Lease
  <2>2. GateHeld' /\ ReserveKept' /\ DrainHasCause'
    BY <1>0, <1>a, <1>14 DEF Admit, Go, TypeOK, GateHeld, ReserveKept,
       DrainHasCause, Limit, WriteClass
  <2>3. SleepersHaveWaker'
    BY <1>0, <1>a, <1>14 DEF Admit, Go, TypeOK, SleepersHaveWaker
  <2> QED BY <2>1, <2>2, <2>3 DEF DrainInv
<1>15. ASSUME NEW p \in Proc, AdmitDraining(p) PROVE DrainInv'
  <2>1. TypeOK'
    BY <1>0, <1>a, <1>15, CancelKeepsLeases DEF AdmitDraining, Go, TypeOK,
       Place, Lease
  <2>2. GateHeld' /\ ReserveKept' /\ DrainHasCause'
    BY <1>0, <1>a, <1>15, LimitBounds DEF AdmitDraining, Go, TypeOK, GateHeld,
       ReserveKept, DrainHasCause, Limit, WriteClass
  <2>3. SleepersHaveWaker'
    BY <1>0, <1>a, <1>15, CancelKeepsLeases DEF AdmitDraining, Go, TypeOK,
       SleepersHaveWaker
  <2> QED BY <2>1, <2>2, <2>3 DEF DrainInv
<1>16. ASSUME NEW p \in Proc, Truncated(p) PROVE DrainInv'
  <2>1. TypeOK'
    BY <1>0, <1>a, <1>16, EmptyLog DEF Truncated, Go, TypeOK, Place, Lease
  <2>2. GateHeld' /\ ReserveKept' /\ DrainHasCause'
    BY <1>0, <1>a, <1>16, LimitBounds DEF Truncated, Go, TypeOK, GateHeld,
       ReserveKept, DrainHasCause, Limit, WriteClass
  <2>3. SleepersHaveWaker'
    BY <1>0, <1>a, <1>16 DEF Truncated, Go, TypeOK, SleepersHaveWaker
  <2> QED BY <2>1, <2>2, <2>3 DEF DrainInv
<1>17. ASSUME NEW p \in Proc, TruncateBusy(p) PROVE DrainInv'
  <2>1. TypeOK'
    BY <1>0, <1>a, <1>17 DEF TruncateBusy, Go, TypeOK, Place, Lease
  <2>2. GateHeld' /\ ReserveKept' /\ DrainHasCause'
    BY <1>0, <1>a, <1>17 DEF TruncateBusy, Go, TypeOK, GateHeld, ReserveKept,
       DrainHasCause, Limit, WriteClass
  <2>3. SleepersHaveWaker'
    BY <1>0, <1>a, <1>17 DEF TruncateBusy, Go, Busy, TypeOK, SleepersHaveWaker
  <2> QED BY <2>1, <2>2, <2>3 DEF DrainInv
<1>18. ASSUME NEW p \in Proc, Retry(p) PROVE DrainInv'
  <2>1. TypeOK'
    BY <1>0, <1>a, <1>18 DEF Retry, Go, TypeOK, Place, Lease
  <2>2. GateHeld' /\ ReserveKept' /\ DrainHasCause'
    BY <1>0, <1>a, <1>18 DEF Retry, Go, TypeOK, GateHeld, ReserveKept,
       DrainHasCause, Limit, WriteClass
  <2>3. SleepersHaveWaker'
    BY <1>0, <1>a, <1>18 DEF Retry, Go, TypeOK, SleepersHaveWaker
  <2> QED BY <2>1, <2>2, <2>3 DEF DrainInv
<1>19. ASSUME NEW p \in Proc, Rollback(p) PROVE DrainInv'
  <2>1. TypeOK'
    BY <1>0, <1>a, <1>19 DEF Rollback, Go, TypeOK, Place, Lease
  <2>2. GateHeld' /\ ReserveKept' /\ DrainHasCause'
    BY <1>0, <1>a, <1>19 DEF Rollback, Go, TypeOK, GateHeld, ReserveKept,
       DrainHasCause, Limit, WriteClass
  <2>3. SleepersHaveWaker'
    BY <1>0, <1>a, <1>19 DEF Rollback, Go, TypeOK, SleepersHaveWaker
  <2> QED BY <2>1, <2>2, <2>3 DEF DrainInv
<1>20. ASSUME NEW p \in Proc, Commit(p) PROVE DrainInv'
  <2>1. TypeOK'
    BY <1>0, <1>a, <1>20, LimitBounds, DrainAssumption DEF Commit, Go, TypeOK,
       Place, Lease, ReserveKept
  <2>2. GateHeld' /\ ReserveKept' /\ DrainHasCause'
    <3>1. \A q \in Proc : at'[q] # "granted"
      BY <1>0, <1>a, <1>20 DEF Commit, Go, TypeOK, GateHeld
    <3>2. GateHeld'
      BY <1>0, <1>a, <1>20 DEF Commit, Go, TypeOK, GateHeld
    <3>3. DrainHasCause'
      <4>1. wal + 1 >= Ordinary => wal' + 1 >= Ordinary
        <5>1. wal \in Nat /\ Ordinary \in Nat
          BY <1>0, DrainAssumption DEF TypeOK
        <5>2. wal' = wal \/ wal' = wal + 1
          BY <1>20 DEF Commit
        <5> QED BY <5>1, <5>2
      <4>2. UNCHANGED <<draining, cut>>
        BY <1>20 DEF Commit
      <4> QED BY <1>0, <4>1, <4>2 DEF DrainHasCause
    <3> QED BY <3>1, <3>2, <3>3 DEF ReserveKept
  <2>3. SleepersHaveWaker'
    BY <1>0, <1>a, <1>20 DEF Commit, Go, TypeOK, SleepersHaveWaker
  <2> QED BY <2>1, <2>2, <2>3 DEF DrainInv
<1>21. ASSUME NEW p \in Proc, Freeze(p) PROVE DrainInv'
  <2>1. TypeOK'
    BY <1>0, <1>a, <1>21, LimitBounds, DrainAssumption DEF Freeze, Go, TypeOK,
       Place, Lease, ReserveKept
  <2>2. GateHeld' /\ ReserveKept' /\ DrainHasCause'
    <3>1. \A q \in Proc : at'[q] # "granted"
      BY <1>0, <1>a, <1>21 DEF Freeze, Go, TypeOK, GateHeld
    <3>2. GateHeld'
      BY <1>0, <1>a, <1>21 DEF Freeze, Go, TypeOK, GateHeld
    <3>3. DrainHasCause'
      <4>1. wal + 1 >= Ordinary => wal' + 1 >= Ordinary
        <5>1. wal \in Nat /\ Ordinary \in Nat
          BY <1>0, DrainAssumption DEF TypeOK
        <5>2. wal' = wal \/ wal' = wal + 1
          BY <1>21 DEF Freeze
        <5> QED BY <5>1, <5>2
      <4>2. UNCHANGED <<draining, cut>>
        BY <1>21 DEF Freeze
      <4> QED BY <1>0, <4>1, <4>2 DEF DrainHasCause
    <3> QED BY <3>1, <3>2, <3>3 DEF ReserveKept
  <2>3. SleepersHaveWaker'
    BY <1>0, <1>a, <1>21 DEF Freeze, Go, TypeOK, SleepersHaveWaker
  <2> QED BY <2>1, <2>2, <2>3 DEF DrainInv
<1>22. ASSUME NEW p \in Proc, Unfreeze(p) PROVE DrainInv'
  <2>1. TypeOK'
    BY <1>0, <1>a, <1>22 DEF Unfreeze, Go, TypeOK, Place, Lease
  <2>2. GateHeld' /\ ReserveKept' /\ DrainHasCause'
    BY <1>0, <1>a, <1>22 DEF Unfreeze, Go, TypeOK, GateHeld, ReserveKept,
       DrainHasCause, Limit, WriteClass
  <2>3. SleepersHaveWaker'
    BY <1>0, <1>a, <1>22 DEF Unfreeze, Go, TypeOK, SleepersHaveWaker
  <2> QED BY <2>1, <2>2, <2>3 DEF DrainInv
<1>23. ASSUME WorkerWake PROVE DrainInv'
  <2>1. TypeOK'
    BY <1>0, <1>a, <1>23 DEF WorkerWake, Go, TypeOK, Place, Lease
  <2>2. GateHeld' /\ ReserveKept' /\ DrainHasCause'
    BY <1>0, <1>a, <1>23 DEF WorkerWake, Go, TypeOK, GateHeld, ReserveKept,
       DrainHasCause, Limit, WriteClass
  <2>3. SleepersHaveWaker'
    BY <1>0, <1>a, <1>23 DEF WorkerWake, Go, TypeOK, SleepersHaveWaker
  <2> QED BY <2>1, <2>2, <2>3 DEF DrainInv
<1>24. ASSUME WorkerEnter PROVE DrainInv'
  <2>1. TypeOK'
    BY <1>0, <1>a, <1>24 DEF WorkerEnter, Go, TypeOK, Place, Lease
  <2>2. GateHeld' /\ ReserveKept' /\ DrainHasCause'
    BY <1>0, <1>a, <1>24 DEF WorkerEnter, Go, TypeOK, GateHeld, ReserveKept,
       DrainHasCause, Limit, WriteClass
  <2>3. SleepersHaveWaker'
    BY <1>0, <1>a, <1>24 DEF WorkerEnter, Go, TypeOK, SleepersHaveWaker
  <2> QED BY <2>1, <2>2, <2>3 DEF DrainInv
<1>25. ASSUME MaintainLog PROVE DrainInv'
  <2>1. TypeOK'
    BY <1>0, <1>a, <1>25 DEF MaintainLog, Go, TypeOK, Place, Lease
  <2>2. GateHeld' /\ ReserveKept' /\ DrainHasCause'
    BY <1>0, <1>a, <1>25, DrainAssumption DEF MaintainLog, Go, TypeOK,
       GateHeld, ReserveKept, DrainHasCause, Limit, WriteClass
  <2>3. SleepersHaveWaker'
    BY <1>0, <1>a, <1>25 DEF MaintainLog, Go, TypeOK, SleepersHaveWaker
  <2> QED BY <2>1, <2>2, <2>3 DEF DrainInv
<1>26. ASSUME TruncateLog PROVE DrainInv'
  <2>1. TypeOK'
    BY <1>0, <1>a, <1>26, EmptyLog DEF TruncateLog, Go, TypeOK, Place, Lease
  <2>2. GateHeld' /\ ReserveKept' /\ DrainHasCause'
    BY <1>0, <1>a, <1>26 DEF TruncateLog, Go, TypeOK, GateHeld, ReserveKept,
       DrainHasCause, Limit, WriteClass
  <2>3. SleepersHaveWaker'
    BY <1>0, <1>a, <1>26 DEF TruncateLog, Go, TypeOK, SleepersHaveWaker
  <2> QED BY <2>1, <2>2, <2>3 DEF DrainInv
<1>27. ASSUME WorkerLeave PROVE DrainInv'
  <2>1. TypeOK'
    BY <1>0, <1>a, <1>27 DEF WorkerLeave, Go, TypeOK, Place, Lease
  <2>2. GateHeld' /\ ReserveKept' /\ DrainHasCause'
    BY <1>0, <1>a, <1>27 DEF WorkerLeave, Go, TypeOK, GateHeld, ReserveKept,
       DrainHasCause, Limit, WriteClass
  <2>3. SleepersHaveWaker'
    BY <1>0, <1>a, <1>27 DEF WorkerLeave, Go, TypeOK, SleepersHaveWaker
  <2> QED BY <2>1, <2>2, <2>3 DEF DrainInv
<1>28. ASSUME FinishForget PROVE DrainInv'
  <2>1. TypeOK'
    BY <1>0, <1>a, <1>28, CancelKeepsLeases DEF FinishForget, Go, TypeOK, Place, Lease
  <2>2. GateHeld' /\ ReserveKept' /\ DrainHasCause'
    BY <1>0, <1>a, <1>28 DEF FinishForget, Go, TypeOK, GateHeld, ReserveKept,
       DrainHasCause, Limit, WriteClass
  <2>3. SleepersHaveWaker'
    BY <1>0, <1>a, <1>28, CancelKeepsLeases DEF FinishForget, Go, TypeOK,
       SleepersHaveWaker
  <2> QED BY <2>1, <2>2, <2>3 DEF DrainInv
<1>29. ASSUME FinishTruncate PROVE DrainInv'
  <2>1. TypeOK'
    BY <1>0, <1>a, <1>29, EmptyLog DEF FinishTruncate, Go, TypeOK, Place, Lease
  <2>2. GateHeld' /\ ReserveKept' /\ DrainHasCause'
    BY <1>0, <1>a, <1>29 DEF FinishTruncate, Go, TypeOK, GateHeld, ReserveKept,
       DrainHasCause
  <2>3. SleepersHaveWaker'
    BY <1>0, <1>a, <1>29 DEF FinishTruncate, Go, TypeOK, SleepersHaveWaker
  <2> QED BY <2>1, <2>2, <2>3 DEF DrainInv
<1>30. CASE UNCHANGED vars
  BY <1>0, <1>30 DEF vars, DrainInv, TypeOK, GateHeld, ReserveKept, DrainHasCause,
     SleepersHaveWaker, Limit, WriteClass
<1> QED
  BY <1>1, <1>2, <1>3, <1>4, <1>5, <1>6, <1>7, <1>8, <1>9, <1>10, <1>11,
     <1>12, <1>13, <1>14, <1>15, <1>16, <1>17, <1>18, <1>19, <1>20, <1>21,
     <1>22, <1>23, <1>24, <1>25, <1>26, <1>27, <1>28, <1>29, <1>30 DEF Next

\* The strengthened invariant holds in every reachable state.
THEOREM DrainInvariant == Spec => []DrainInv
<1>1. Init => DrainInv
  BY DrainInit
<1>2. DrainInv /\ [Next]_vars => DrainInv'
  BY DrainStep
<1> QED BY <1>1, <1>2, PTL DEF Spec

\* The state of reader, admitWrite and maintainWAL has its type, the size of the
\* log within its limit included.
THEOREM DrainTypeOK == Spec => []TypeOK
<1>1. DrainInv => TypeOK
  BY DEF DrainInv
<1> QED BY <1>1, DrainInvariant, PTL

\* The space a write was admitted on is there when it writes, so that the
\* log never grows into the control reserve on behalf of ordinary work.
THEOREM DrainReserveKept == Spec => []ReserveKept
<1>1. DrainInv => ReserveKept
  BY DEF DrainInv
<1> QED BY <1>1, DrainInvariant, PTL

\* Ordinary reads are kept out only while the log really is too long, or after
\* finishForget has emptied it under a drain, which no other truncation leaves behind.
THEOREM DrainNeedsCause == Spec => []DrainHasCause
<1>1. DrainInv => DrainHasCause
  BY DEF DrainInv
<1> QED BY <1>1, DrainInvariant, PTL

\* Whoever waits for readerChanged has somebody who will close it.
THEOREM DrainSleepersHaveWaker == Spec => []SleepersHaveWaker
<1>1. DrainInv => SleepersHaveWaker
  BY DEF DrainInv
<1> QED BY <1>1, DrainInvariant, PTL

\* A drain admits no new ordinary reader: only TakeLease hands out a lease,
\* and it looks at draining.
THEOREM DrainStopsReaders == Spec => DrainAdmitsNoReader
<1> DEFINE Step ==
      \A p \in Proc : draining /\ ClassOf(p) = "ordinary" /\ read[p] = "none"
          => read'[p] = "none"
<1>1. DrainInv /\ [Next]_vars => [Step]_vars
  <2> SUFFICES ASSUME TypeOK, Next, NEW p \in Proc,
                      draining, ClassOf(p) = "ordinary", read[p] = "none"
               PROVE  read'[p] = "none"
    BY DEF DrainInv, vars
  <2>1. CASE read' = read
    BY <2>1
  <2>3. CASE FinishForget
    BY <2>3, CancelKeepsLeases DEF FinishForget, TypeOK
  <2>2. ASSUME NEW q \in Proc,
               BeginRead(q) \/ Abort(q) \/ EndRead(q) \/ TakeLease(q) \/ AdmitDraining(q)
        PROVE  read'[p] = "none"
    <3>1. CASE BeginRead(q) \/ Abort(q) \/ EndRead(q)
      BY <3>1 DEF BeginRead, Abort, EndRead, TypeOK
    <3>2. CASE TakeLease(q)
      BY <3>2 DEF TakeLease, TypeOK
    <3>3. CASE AdmitDraining(q)
      BY <3>3, CancelKeepsLeases DEF AdmitDraining, TypeOK
    <3> QED BY <2>2, <3>1, <3>2, <3>3
  <2> QED
    BY <2>1, <2>2, <2>3 DEF Next, Enter, EnterBackup, Leave, GiveUpRead, GiveUp, WantRead,
       BlockRead, WantWrite, AdmitFrozen, Admit, Truncated, TruncateBusy, Retry,
       Rollback, Commit, Freeze, Unfreeze, WorkerWake, WorkerEnter, MaintainLog,
       TruncateLog, WorkerLeave, FinishTruncate
<1> QED BY <1>1, DrainInvariant, PTL DEF Spec, DrainAdmitsNoReader
-----------------------------------------------------------------------------
\* A goroutine at rest has no lease; one that waits in admitWrite has none either
\* unless its context says so; and whoever sleeps there was not inside a snapshot.
LeaseKnown ==
    \A p \in Proc :
        /\ at[p] \in {"out", "waiting", "log", "truncate", "finish"} => read[p] = "none"
        /\ at[p] \in {"gate", "checkpoint", "asleep", "stopped"} /\ p \notin Copying
              => read[p] = "none" \/ p \in inside
        /\ at[p] = "asleep" => p \notin inside

\* What a write's context knows of its lease stays true: a lease is taken and returned
\* between writes only, and cancelling one does not return it.
LEMMA LeaseKnownStep == TypeOK /\ LeaseKnown /\ [Next]_vars => LeaseKnown'
<1> SUFFICES ASSUME TypeOK, LeaseKnown, [Next]_vars PROVE LeaseKnown'
  OBVIOUS
<1> USE DEF TypeOK, LeaseKnown, Go
<1>a. Caller \subseteq Proc /\ Worker \in Proc /\ Worker \notin Caller
  BY DrainAssumption DEF Proc
<1>1. ASSUME NEW p \in Caller,
             \/ Enter(p) \/ EnterBackup(p) \/ Leave(p) \/ GiveUpRead(p) \/ GiveUp(p)
      PROVE  LeaseKnown'
  BY <1>1, <1>a DEF Enter, EnterBackup, Leave, GiveUpRead, GiveUp
<1>2. ASSUME NEW p \in Proc,
             \/ WantRead(p) \/ BlockRead(p) \/ TakeLease(p) \/ BeginRead(p) \/ Abort(p)
             \/ EndRead(p)
      PROVE  LeaseKnown'
  BY <1>2 DEF WantRead, BlockRead, TakeLease, Looking, BeginRead, Abort, EndRead
<1>3. ASSUME NEW p \in Proc, WantWrite(p) PROVE LeaseKnown'
  BY <1>3 DEF WantWrite
<1>4. ASSUME NEW p \in Proc, AdmitDraining(p) PROVE LeaseKnown'
  <2>1. \A q \in Proc : read'[q] = "none" <=> read[q] = "none"
    BY <1>4, CancelKeepsLeases DEF AdmitDraining
  <2> QED BY <1>4, <2>1 DEF AdmitDraining
<1>5. ASSUME NEW p \in Proc,
             \/ AdmitFrozen(p) \/ Admit(p) \/ Truncated(p) \/ TruncateBusy(p) \/ Retry(p)
             \/ Rollback(p) \/ Commit(p) \/ Freeze(p) \/ Unfreeze(p)
      PROVE  LeaseKnown'
  BY <1>5 DEF AdmitFrozen, Admit, Truncated, TruncateBusy, Retry, Rollback, Commit, Freeze,
     Unfreeze
<1>6. CASE WorkerWake \/ WorkerEnter \/ MaintainLog \/ TruncateLog \/ WorkerLeave
             \/ FinishTruncate
  BY <1>6, <1>a DEF WorkerWake, WorkerEnter, MaintainLog, TruncateLog, WorkerLeave,
     FinishTruncate
<1>8. CASE FinishForget
  <2>1. \A q \in Proc : read'[q] = "none" <=> read[q] = "none"
    BY <1>8, CancelKeepsLeases DEF FinishForget
  <2> QED BY <1>8, <1>a, <2>1 DEF FinishForget
<1>7. CASE UNCHANGED vars
  BY <1>7 DEF vars
<1> QED BY <1>1, <1>2, <1>3, <1>4, <1>5, <1>6, <1>7, <1>8 DEF Next

\* A writer that waits for the readers to end holds no snapshot of its own, unless it
\* stages a stored revision again: it would wait for itself (admitWrite).
THEOREM DrainWaiterHoldsNothing == Spec => []WaiterHoldsNothing
<1>1. Init => LeaseKnown
  BY DEF Init, LeaseKnown
<1>2. LeaseKnown => WaiterHoldsNothing
  BY DEF LeaseKnown, WaiterHoldsNothing
<1> QED BY <1>1, <1>2, LeaseKnownStep, DrainTypeOK, PTL DEF Spec
=============================================================================
