----------------------- MODULE OrganizationLeaseProofs -----------------------
(***************************************************************************)
(* The safety of leased organization work, for any sets of assets,         *)
(* requests, calls and waiters and any bounds.  A lease ends by itself,    *)
(* through the clock, a new revision, another generation, a revocation or  *)
(* a forget; the argument rests on the fact that none of them ever brings  *)
(* an ended lease back (NoRevival), because what a row has noted is never  *)
(* ahead of what it is compared with (RowsPast).                           *)
(***************************************************************************)
EXTENDS OrganizationLease, FiniteSetTheorems, TLAPS

\* Revisions, generations and access revisions only move with an event, and every
\* published result has its version.
Bounds ==
    /\ \A a \in Assets : revision[a] <= events + 1 /\ by[a].results <= head[a]
    /\ generation <= events + 1
    /\ \A r \in Attempts : access[r] <= events + 1

TypeInv == TypeOK /\ Bounds

\* The state of jobs, leases, calls and waiters has its type and keeps its bounds.
LEMMA TypeStep == TypeInv /\ [Next]_vars => TypeInv'
<1> SUFFICES ASSUME TypeOK, Bounds, [Next]_vars PROVE TypeInv'
  BY DEF TypeInv
<1> USE LeaseAssumption
<1>1. ASSUME NEW r \in Attempts, NEW a \in Assets, NEW background \in BOOLEAN,
             ClaimOrganization(r, a, background)
      PROVE  TypeInv'
  BY <1>1 DEF ClaimOrganization, Commit, TypeInv, TypeOK, Bounds, Rows, Tokens, Stamps, world
<1>2. ASSUME NEW r \in Attempts, NEW a \in Assets, ReleaseLease(r, a) PROVE TypeInv'
  BY <1>2 DEF ReleaseLease, Unclaimed, Commit, TypeInv, TypeOK, Bounds, Rows, Tokens, Stamps, world
<1>3. ASSUME NEW r \in Attempts, Revoke(r) PROVE TypeInv'
  BY <1>3 DEF Revoke, Event, Commit, TypeInv, TypeOK, Bounds, Stamps, rows
<1>4. ASSUME NEW a \in Assets, Expire(a) PROVE TypeInv'
  BY <1>4 DEF Expire, Valid, TypeInv, TypeOK, Bounds, Rows, world
<1>5. ASSUME NEW c \in Calls, NEW r \in Attempts, NEW a \in Assets, ReadWork(c, r, a)
      PROVE  TypeInv'
  BY <1>5 DEF ReadWork, TypeInv, TypeOK, Bounds, Rows, Subs, Tokens, Stamps, rows, world
<1>6. ASSUME NEW c \in Calls, StageOrganization(c) PROVE TypeInv'
  <2>1. sub[c] \in Subs /\ head[sub[c].asset] \in 0..MaxVersion
    BY <1>6 DEF StageOrganization, TypeOK, Subs
  <2>2. [sub[c] EXCEPT !.stage = "staged", !.expected = head[sub[c].asset]] \in Subs
    BY <2>1 DEF Subs
  <2>3. sub' \in [Calls -> Subs \cup {None}]
    BY <1>6, <2>2 DEF StageOrganization, TypeOK
  <2> QED BY <1>6, <2>3 DEF StageOrganization, TypeInv, TypeOK, Bounds, rows, world
<1>7. ASSUME NEW c \in Calls, NEW after \in {"prepared", "vector", "ready"},
             PublishOrganization(c, after)
      PROVE  TypeInv'
  <2> DEFINE a == sub[c].asset
  <2>1. a \in Assets /\ sub[c].token \in Tokens
    BY <1>7 DEF PublishOrganization, TypeOK, Subs
  <2>2. exec' \in [Assets -> Rows \cup {None}]
    <3>1. exec[a] # None => [exec[a] EXCEPT !.expires = "zero"] \in Rows
      BY <2>1 DEF TypeOK, Rows
    <3>2. exec' = exec \/ (exec[a] # None /\ exec' = [exec EXCEPT ![a].expires = "zero"])
      BY <1>7 DEF PublishOrganization
    <3> QED BY <2>1, <3>1, <3>2 DEF TypeOK
  <2>3. /\ head' \in [Assets -> 0..MaxVersion]
        /\ by' \in [Assets -> [token : Tokens, results : 0..MaxVersion]]
        /\ \A b \in Assets : by'[b].results <= head'[b]
    BY <1>7, <2>1 DEF PublishOrganization, TypeOK, Bounds
  <2>4. /\ visible' \in [Assets -> Stamps] /\ jobs' \in [Assets -> Stamps]
        /\ grade' \in [Assets -> {"prepared", "vector", "ready"}]
        /\ sub' \in [Calls -> Subs \cup {None}]
    BY <1>7, <2>1 DEF PublishOrganization, TypeOK, Stamps
  <2> QED
    BY <1>7, <2>2, <2>3, <2>4 DEF PublishOrganization, Commit, TypeInv, TypeOK, Bounds, world
<1>8. ASSUME NEW c \in Calls, EndCall(c) PROVE TypeInv'
  BY <1>8 DEF EndCall, TypeInv, TypeOK, Bounds, rows, world
<1>9. ASSUME NEW a \in Assets, NEW deferred \in BOOLEAN, Change(a, deferred) PROVE TypeInv'
  BY <1>9 DEF Change, Unclaimed, Event, Commit, TypeInv, TypeOK, Bounds, Rows, Tokens, Stamps
<1>10. ASSUME NEW a \in Assets, Forget(a) PROVE TypeInv'
  BY <1>10 DEF Forget, Event, Commit, TypeInv, TypeOK, Bounds, Stamps, rows
<1>11. ASSUME NEW a \in Assets, ForgetBatch(a) \/ InvalidateBatch(a) PROVE TypeInv'
  <2>1. CASE ForgetBatch(a)
    BY <2>1 DEF ForgetBatch, Commit, TypeInv, TypeOK, Bounds, Stamps, world
  <2>2. CASE InvalidateBatch(a)
    BY <2>2 DEF InvalidateBatch, Commit, TypeInv, TypeOK, Bounds, Stamps, world
  <2> QED BY <1>11, <2>1, <2>2
<1>12. ASSUME NEW a \in Assets, InputsChange(a) PROVE TypeInv'
  <2>1. sub' \in [Calls -> Subs \cup {None}]
    <3>1. ASSUME NEW c \in Calls, Touches(c, a) PROVE [sub[c] EXCEPT !.fresh = FALSE] \in Subs
      BY <3>1 DEF Touches, TypeOK, Subs
    <3> QED BY <1>12, <3>1 DEF InputsChange, TypeOK
  <2>2. due' \in [Assets -> BOOLEAN]
    BY <1>12, Zenon DEF InputsChange, TypeOK
  <2> QED BY <1>12, <2>1, <2>2 DEF InputsChange, Event, Commit, TypeInv, TypeOK, Bounds, Stamps
<1>13. CASE FinishRebuild
  BY <1>13 DEF FinishRebuild, Event, Commit, TypeInv, TypeOK, Bounds, Stamps
<1>14. ASSUME NEW w \in Waiters, Arm(w) \/ Look(w) \/ Sleep(w) \/ Wake(w) \/ GiveUp(w)
       PROVE  TypeInv'
  <2>1. Running \in SUBSET Tokens
    BY DEF Running, TypeOK, Rows
  <2>2. wait[w] \in Waits /\ Out \in Waits /\ [Out EXCEPT !.at = "armed"] \in Waits
    BY DEF TypeOK, Waits, Out
  <2>3. wait' \in [Waiters -> Waits]
    <3>1. CASE Look(w)
      BY <2>1, <2>2, <3>1 DEF Look, TypeOK, Waits
    <3>2. CASE Sleep(w)
      <4>1. (wait[w].timers \cap Lapsed # {}) \in BOOLEAN
        OBVIOUS
      <4> QED BY <2>2, <3>2, <4>1 DEF Sleep, TypeOK, Waits
    <3>3. CASE Arm(w) \/ Wake(w) \/ GiveUp(w)
      BY <2>2, <3>3 DEF Arm, Wake, GiveUp, TypeOK
    <3> QED BY <1>14, <3>1, <3>2, <3>3
  <2>4. UNCHANGED <<rows, world, sub, signal>>
    BY <1>14 DEF Arm, Look, Sleep, Wake, GiveUp
  <2> QED BY <2>3, <2>4 DEF TypeInv, TypeOK, Bounds, rows, world
<1>15. CASE Signal
  BY <1>15 DEF Signal, Out, TypeInv, TypeOK, Bounds, Waits, rows, world
<1>16. ASSUME NEW r \in Attempts, ClaimReplay(r) \/ \E a \in Assets : RenewLease(r, a)
       PROVE  TypeInv'
  BY <1>16 DEF ClaimReplay, RenewLease, Commit, TypeInv, TypeOK, Bounds, rows, world
<1>17. CASE UNCHANGED vars
  BY <1>17 DEF vars, rows, world, TypeInv, TypeOK, Bounds
<1> QED
  BY <1>1, <1>2, <1>3, <1>4, <1>5, <1>6, <1>7, <1>8, <1>9, <1>10, <1>11, <1>12, <1>13,
     <1>14, <1>15, <1>16, <1>17 DEF Next

\* The initial state has its type and bounds.
LEMMA TypeInit == Init => TypeInv
<1> SUFFICES ASSUME Init PROVE TypeInv
  OBVIOUS
<1> USE LeaseAssumption DEF Init, Stamps, Tokens
<1>1. Unclaimed \in Rows
  BY DEF Unclaimed, Rows
<1>2. Out \in Waits
  BY DEF Out, Waits
<1>3. 0 \in Stamps /\ 1 \in Stamps /\ 0 \in Tokens /\ 0 \in 0..MaxVersion
  OBVIOUS
<1> HIDE DEF Stamps, Tokens
<1>4. TypeOK
  <2>1. by \in [Assets -> [token : Tokens, results : 0..MaxVersion]]
    BY <1>3
  <2>2. due \in [Assets -> BOOLEAN] /\ signal \in BOOLEAN
    OBVIOUS
  <2>3. exec \in [Assets -> Rows \cup {None}] /\ wait \in [Waiters -> Waits]
    BY <1>1, <1>2
  <2> QED BY <1>3, <2>1, <2>2, <2>3 DEF TypeOK
<1>5. Bounds
  BY DEF Bounds
<1> QED BY <1>4, <1>5 DEF TypeInv

\* The types and bounds hold in every reachable state.
THEOREM LeaseTypeInvariant == Spec => []TypeInv
  BY TypeInit, TypeStep, PTL DEF Spec

\* The state of the organization tables, of the calls and of the waiters has its type;
\* no revision, token or version number leaves its range.
THEOREM LeaseTypeOK == Spec => []TypeOK
<1>1. TypeInv => TypeOK
  BY DEF TypeInv
<1> QED BY <1>1, LeaseTypeInvariant, PTL

-----------------------------------------------------------------------------
(* The steps that change a row or what it is compared with.                *)

RowStep ==
    \/ \E r \in Attempts, a \in Assets :
        (\E background \in BOOLEAN : ClaimOrganization(r, a, background)) \/ ReleaseLease(r, a)
    \/ \E r \in Attempts : Revoke(r)
    \/ \E c \in Calls, after \in {"prepared", "vector", "ready"} : PublishOrganization(c, after)
    \/ \E a \in Assets :
        \/ Expire(a) \/ Forget(a) \/ ForgetBatch(a) \/ InputsChange(a) \/ InvalidateBatch(a)
        \/ \E deferred \in BOOLEAN : Change(a, deferred)
    \/ FinishRebuild

\* Everything else, the calls' and the waiters' own steps, leaves the tables alone.
LEMMA OnlyRowSteps == [Next]_vars => RowStep \/ UNCHANGED <<rows, world>>
  BY LeaseAssumption DEF Next, RowStep, vars, ClaimReplay, RenewLease, ReadWork, StageOrganization,
     EndCall, Arm, Look, Sleep, Wake, GiveUp, Signal

\* What a claimed row has noted is not ahead of what it is compared with, and its
\* request asked for the asset.
RowsPast ==
    \A a \in Assets : exec[a] # None /\ exec[a].token # 0 =>
        /\ exec[a].request \in Attempts /\ a \in Wants[exec[a].request]
        /\ exec[a].access <= access[exec[a].request]
        /\ exec[a].generation <= generation

\* Claims note the counters of the moment, and the counters only grow.
LEMMA RowsPastStep == TypeOK /\ RowsPast /\ [Next]_vars => RowsPast'
<1> SUFFICES ASSUME TypeOK, RowsPast, [Next]_vars PROVE RowsPast'
  OBVIOUS
<1>0. \A a \in Assets : revision[a] \in Int /\ (exec[a] # None => exec[a] \in Rows)
  BY DEF TypeOK, Stamps
<1>a. generation \in Int /\ \A r \in Attempts : access[r] \in Int
  BY DEF TypeOK, Stamps
<1>1. ASSUME NEW r \in Attempts, NEW a \in Assets, NEW background \in BOOLEAN,
             ClaimOrganization(r, a, background)
      PROVE  RowsPast'
  BY <1>a, <1>1 DEF ClaimOrganization, RowsPast, TypeOK, world
<1>2. ASSUME NEW r \in Attempts, NEW a \in Assets, ReleaseLease(r, a) PROVE RowsPast'
  BY <1>2 DEF ReleaseLease, Unclaimed, RowsPast, TypeOK, world
<1>3. ASSUME NEW r \in Attempts, Revoke(r) PROVE RowsPast'
  BY <1>0, <1>a, <1>3 DEF Revoke, RowsPast, TypeOK, rows, Rows, Stamps
<1>4. ASSUME NEW c \in Calls, NEW after \in {"prepared", "vector", "ready"},
             PublishOrganization(c, after)
      PROVE  RowsPast'
  <2>1. PICK a \in Assets : 
          exec' = exec \/ (exec[a] # None /\ exec' = [exec EXCEPT ![a].expires = "zero"])
    BY <1>4 DEF PublishOrganization, TypeOK, Subs
  <2> QED BY <1>0, <1>4, <2>1 DEF PublishOrganization, RowsPast, TypeOK, Rows, world
<1>5. ASSUME NEW a \in Assets, Expire(a) PROVE RowsPast'
  BY <1>0, <1>5 DEF Expire, Valid, RowsPast, TypeOK, Rows, world
<1>6. ASSUME NEW a \in Assets, Forget(a) PROVE RowsPast'
  BY <1>0, <1>a, <1>6 DEF Forget, RowsPast, TypeOK, rows, Rows, Stamps
<1>7. ASSUME NEW a \in Assets, ForgetBatch(a) PROVE RowsPast'
  BY <1>7 DEF ForgetBatch, RowsPast, TypeOK, world
<1>8. ASSUME NEW a \in Assets, NEW deferred \in BOOLEAN, Change(a, deferred) PROVE RowsPast'
  BY <1>8 DEF Change, Unclaimed, RowsPast, TypeOK
<1>9. ASSUME NEW a \in Assets, InputsChange(a) \/ InvalidateBatch(a) PROVE RowsPast'
  BY <1>9 DEF InputsChange, InvalidateBatch, RowsPast, world
<1>10. CASE FinishRebuild
  BY <1>0, <1>a, <1>10 DEF FinishRebuild, RowsPast, TypeOK, Rows, Stamps
<1>11. CASE UNCHANGED <<rows, world>>
  BY <1>11 DEF RowsPast, rows, world
<1> QED
  BY OnlyRowSteps, <1>1, <1>2, <1>3, <1>4, <1>5, <1>6, <1>7, <1>8, <1>9, <1>10, <1>11
  DEF RowStep

\* A lease that has ended stays ended: a row that names a holder after a step named the
\* same holder before it, or the step is the claim that put it there.
LEMMA NoRevival ==
    ASSUME TypeOK, RowsPast, [Next]_vars, NEW a \in Assets, Valid(a)'
    PROVE  \/ Valid(a) /\ exec'[a] = exec[a] /\ revision'[a] = revision[a]
           \/ \E r \in Attempts, background \in BOOLEAN : ClaimOrganization(r, a, background)
<1> DEFINE Kept == Valid(a) /\ exec'[a] = exec[a] /\ revision'[a] = revision[a]
<1>0. \A b \in Assets : revision[b] \in Int /\ (exec[b] # None => exec[b] \in Rows)
  BY DEF TypeOK, Stamps
<1>a. generation \in Int /\ \A r \in Attempts : access[r] \in Int
  BY DEF TypeOK, Stamps
<1> USE DEF Valid
<1>1. ASSUME NEW r \in Attempts, NEW b \in Assets, NEW background \in BOOLEAN,
             ClaimOrganization(r, b, background), a # b
      PROVE  Kept
  BY <1>1 DEF ClaimOrganization, TypeOK, world
<1>2. ASSUME NEW r \in Attempts, NEW b \in Assets, ReleaseLease(r, b)
      PROVE  Kept
  BY <1>2 DEF ReleaseLease, Unclaimed, TypeOK, world
<1>3. ASSUME NEW r \in Attempts, Revoke(r)
      PROVE  Kept
  BY <1>0, <1>a, <1>3 DEF Revoke, RowsPast, TypeOK, rows, Rows, Stamps
<1>4. ASSUME NEW c \in Calls, NEW after \in {"prepared", "vector", "ready"},
             PublishOrganization(c, after)
      PROVE  Kept
  <2>1. PICK b \in Assets : 
          exec' = exec \/ (exec[b] # None /\ exec' = [exec EXCEPT ![b].expires = "zero"])
    BY <1>4 DEF PublishOrganization, TypeOK, Subs
  <2>2. UNCHANGED world
    BY <1>4 DEF PublishOrganization
  <2> QED BY <1>0, <2>1, <2>2 DEF TypeOK, Rows, world
<1>5. ASSUME NEW b \in Assets, Expire(b)
      PROVE  Kept
  BY <1>0, <1>5 DEF Expire, TypeOK, Rows, world
<1>6. ASSUME NEW b \in Assets, Forget(b)
      PROVE  Kept
  BY <1>0, <1>a, <1>6 DEF Forget, RowsPast, TypeOK, rows, Rows, Stamps
<1>7. ASSUME NEW b \in Assets, ForgetBatch(b)
      PROVE  Kept
  BY <1>7 DEF ForgetBatch, TypeOK, world
<1>8. ASSUME NEW b \in Assets, NEW deferred \in BOOLEAN, Change(b, deferred)
      PROVE  Kept
  BY <1>8 DEF Change, Unclaimed, TypeOK
<1>9. ASSUME NEW b \in Assets, InputsChange(b) \/ InvalidateBatch(b)
      PROVE  Kept
  BY <1>9 DEF InputsChange, InvalidateBatch, world
<1>10. ASSUME FinishRebuild
       PROVE  Kept
  BY <1>0, <1>a, <1>10 DEF FinishRebuild, RowsPast, TypeOK, Rows, Stamps
<1>11. ASSUME UNCHANGED <<rows, world>>
       PROVE  Kept
  BY <1>11 DEF rows, world
<1> HIDE DEF Valid
<1> QED
  BY OnlyRowSteps, <1>1, <1>2, <1>3, <1>4, <1>5, <1>6, <1>7, <1>8, <1>9, <1>10, <1>11
  DEF RowStep

-----------------------------------------------------------------------------
(* Held work is queued, by one request and one background executor.        *)

\* While a lease is good its job is there, so that a repeated claim finds it.
HeldIsQueued == \A a \in Assets : Valid(a) => jobs[a] = revision[a]

\* Two good leases of one request, or of the background, are the same lease.
OneEach ==
    \A a, b \in Assets :
        /\ Valid(a) /\ Valid(b)
        /\ exec[a].request = exec[b].request \/ (exec[a].background /\ exec[b].background)
        => a = b

LeaseInv == TypeOK /\ RowsPast /\ HeldIsQueued /\ OneEach /\ WorkIsQueued

\* Only a completing publication takes the job of held work away, and the lease with it.
LEMMA HeldIsQueuedStep == TypeOK /\ RowsPast /\ HeldIsQueued /\ [Next]_vars => HeldIsQueued'
<1> SUFFICES ASSUME TypeOK, RowsPast, HeldIsQueued, [Next]_vars,
                    NEW a \in Assets, Valid(a)'
             PROVE  jobs'[a] = revision'[a]
  BY DEF HeldIsQueued
<1>1. CASE \E r \in Attempts, background \in BOOLEAN : ClaimOrganization(r, a, background)
  BY <1>1 DEF ClaimOrganization, Available, world
<1>2. CASE Valid(a) /\ exec'[a] = exec[a] /\ revision'[a] = revision[a]
  <2>0. jobs[a] = revision[a] /\ revision[a] # 0 /\ exec[a] # None
    BY <1>2 DEF HeldIsQueued, Valid
  <2>1. SUFFICES jobs'[a] = jobs[a] \/ jobs'[a] = revision[a]
    BY <1>2, <2>0
  <2>2. ASSUME NEW c \in Calls, NEW after \in {"prepared", "vector", "ready"},
               PublishOrganization(c, after)
        PROVE  jobs'[a] = jobs[a]
    <3>1. CASE sub[c].asset # a
      BY <2>2, <3>1 DEF PublishOrganization, TypeOK
    <3>2. CASE sub[c].asset = a /\ ~Completes(c, after)
      BY <2>2, <3>2 DEF PublishOrganization
    <3>3. CASE sub[c].asset = a /\ Completes(c, after)
      <4>1. exec' = [exec EXCEPT ![a].expires = "zero"]
        BY <2>0, <2>2, <3>3 DEF PublishOrganization
      <4>2. exec[a].expires = "running" /\ exec[a] \in Rows
        BY <1>2, <2>0 DEF Valid, TypeOK
      <4> QED BY <1>2, <4>1, <4>2 DEF TypeOK, Rows
    <3> QED BY <3>1, <3>2, <3>3
  <2>3. ASSUME NEW b \in Assets, NEW deferred \in BOOLEAN,
               ForgetBatch(b) \/ InvalidateBatch(b) \/ Change(b, deferred)
        PROVE  jobs'[a] = jobs[a] \/ jobs'[a] = revision[a]
    BY <1>2, <2>0, <2>3 DEF ForgetBatch, InvalidateBatch, Change, TypeOK
  <2>4. CASE FinishRebuild
    BY <2>4 DEF FinishRebuild, TypeOK
  <2>5. CASE UNCHANGED jobs
    BY <2>5
  <2> QED
    BY OnlyRowSteps, <2>2, <2>3, <2>4, <2>5 DEF RowStep, ClaimOrganization, ReleaseLease, Revoke,
       Expire, Forget, InputsChange, rows
<1> QED BY <1>1, <1>2, NoRevival

\* A claim looks at every lease in its transaction before it adds one.
LEMMA OneEachStep ==
    TypeOK /\ RowsPast /\ HeldIsQueued /\ OneEach /\ [Next]_vars => OneEach'
<1> SUFFICES ASSUME TypeOK, RowsPast, HeldIsQueued, OneEach, [Next]_vars,
                    NEW a \in Assets, NEW b \in Assets, Valid(a)', Valid(b)', a # b,
                    \/ exec'[a].request = exec'[b].request
                    \/ exec'[a].background /\ exec'[b].background
             PROVE  FALSE
  BY DEF OneEach
<1> DEFINE Claimed(x) == \E r \in Attempts, bg \in BOOLEAN : ClaimOrganization(r, x, bg)
           Kept(x) == Valid(x) /\ exec'[x] = exec[x]
<1>1. (Kept(a) \/ Claimed(a)) /\ (Kept(b) \/ Claimed(b))
  BY NoRevival
<1>2. ASSUME NEW x \in Assets, NEW y \in Assets, x # y, Claimed(x),
             \/ exec'[x].request = exec'[y].request
             \/ exec'[x].background /\ exec'[y].background
      PROVE  ~Kept(y) /\ ~Claimed(y)
  <2>1. PICK r \in Attempts, bg \in BOOLEAN : ClaimOrganization(r, x, bg)
    BY <1>2
  <2>2. /\ exec'[x].request = r /\ exec'[x].background = bg
        /\ exec'[x].token = issued + 1 /\ exec'[y] = exec[y]
    BY <1>2, <2>1 DEF ClaimOrganization, TypeOK
  <2>3. ~Kept(y)
    <3> SUFFICES ASSUME Kept(y) PROVE FALSE
      OBVIOUS
    <3>1. jobs[y] # 0 /\ exec[y].request \in Attempts /\ y \in Wants[exec[y].request]
      BY DEF HeldIsQueued, RowsPast, Valid
    <3>2. CASE exec[y].request = r
      BY <2>1, <3>1, <3>2 DEF ClaimOrganization, Replayed
    <3>3. CASE bg /\ exec[y].background
      BY <2>1, <3>1, <3>3 DEF ClaimOrganization, Occupied
    <3> QED BY <1>2, <2>2, <3>2, <3>3
  <2>4. ~Claimed(y)
    <3> SUFFICES ASSUME NEW q \in Attempts, NEW g \in BOOLEAN, ClaimOrganization(q, y, g)
                 PROVE  FALSE
      OBVIOUS
    <3>1. exec'[y] # exec[y]
      <4>1. exec'[y].expires = "running" /\ exec'[y].request = q /\ exec'[y].token = issued + 1
            /\ exec'[y].access = access[q] /\ exec'[y].revision = revision[y]
            /\ exec'[y].generation = generation /\ revision[y] # 0
        BY DEF ClaimOrganization, TypeOK, Available
      <4>2. ~Valid(y) /\ exec[y] # None /\ issued \in Nat
        BY DEF ClaimOrganization, Available, TypeOK, Tokens
      <4> QED BY <4>1, <4>2 DEF Valid
    <3> QED BY <2>2, <3>1
  <2> QED BY <2>3, <2>4
<1>3. Kept(a) /\ Kept(b) => FALSE
  BY DEF OneEach
<1> QED BY <1>1, <1>2, <1>3

\* Deferred work keeps its place in the queue, or its finished version, or the
\* invalidation that will queue it again.
LEMMA WorkIsQueuedStep ==
    TypeOK /\ HeldIsQueued /\ WorkIsQueued /\ [Next]_vars => WorkIsQueued'
<1> DEFINE Queued(a) ==
      jobs[a] = revision[a] \/ (visible[a] = revision[a] /\ grade[a] = "ready") \/ due[a]
<1> SUFFICES ASSUME TypeOK, HeldIsQueued, WorkIsQueued, [Next]_vars,
                    NEW a \in Assets, revision'[a] # 0, exec'[a] # None
             PROVE  Queued(a)'
  BY DEF WorkIsQueued
<1>0. revision[a] # 0 /\ exec[a] # None => Queued(a)
  BY DEF WorkIsQueued
<1>1. ASSUME NEW r \in Attempts, NEW b \in Assets, NEW background \in BOOLEAN,
             ClaimOrganization(r, b, background)
      PROVE  Queued(a)'
  BY <1>0, <1>1 DEF ClaimOrganization, Available, TypeOK, world
<1>2. ASSUME NEW r \in Attempts, NEW b \in Assets, ReleaseLease(r, b)
      PROVE  Queued(a)'
  BY <1>0, <1>2 DEF ReleaseLease, TypeOK, world
<1>3. ASSUME NEW r \in Attempts, Revoke(r)
      PROVE  Queued(a)'
  BY <1>0, <1>3 DEF Revoke, rows
<1>4. ASSUME NEW c \in Calls, NEW after \in {"prepared", "vector", "ready"},
             PublishOrganization(c, after)
      PROVE  Queued(a)'
  <2>1. CASE sub[c].asset # a
    BY <1>0, <1>4, <2>1 DEF PublishOrganization, TypeOK, world
  <2>2. CASE sub[c].asset = a
    <3>1. exec[a] # None
      BY <1>4, <2>2 DEF PublishOrganization
    <3>2. Valid(a) /\ revision'[a] = revision[a]
      BY <1>4, <2>2, <3>1 DEF PublishOrganization, Credential, Valid, world
    <3>3. CASE Completes(c, after)
      <4>1. after = "ready"
        BY <1>4, <2>2, <3>1, <3>3 DEF PublishOrganization, Completes
      <4> QED BY <1>4, <2>2, <3>2, <4>1 DEF PublishOrganization, TypeOK
    <3>4. CASE ~Completes(c, after)
      BY <1>4, <2>2, <3>2, <3>4 DEF PublishOrganization, HeldIsQueued
    <3> QED BY <3>3, <3>4
  <2> QED BY <2>1, <2>2
<1>5. ASSUME NEW b \in Assets, Expire(b) \/ Forget(b) \/ ForgetBatch(b)
      PROVE  Queued(a)'
  BY <1>0, <1>5 DEF Expire, Valid, Forget, ForgetBatch, TypeOK, rows, world
<1>6. ASSUME NEW b \in Assets, InputsChange(b)
      PROVE  Queued(a)'
  BY <1>0, <1>6 DEF InputsChange, TypeOK
<1>7. ASSUME NEW b \in Assets, InvalidateBatch(b)
      PROVE  Queued(a)'
  BY <1>0, <1>7 DEF InvalidateBatch, TypeOK, world
<1>8. ASSUME NEW b \in Assets, NEW deferred \in BOOLEAN, Change(b, deferred)
      PROVE  Queued(a)'
  BY <1>0, <1>8 DEF Change, TypeOK
<1>9. CASE FinishRebuild
  BY <1>0, <1>9 DEF FinishRebuild, TypeOK
<1>10. CASE UNCHANGED <<rows, world>>
  BY <1>0, <1>10 DEF rows, world
<1> QED
  BY OnlyRowSteps, <1>1, <1>2, <1>3, <1>4, <1>5, <1>6, <1>7, <1>8, <1>9, <1>10 DEF RowStep

\* The inductive invariant of the tables holds in every reachable state.
THEOREM LeaseInvariant == Spec => []LeaseInv
<1>1. Init => RowsPast /\ HeldIsQueued /\ OneEach /\ WorkIsQueued
  BY DEF Init, Unclaimed, Valid, RowsPast, HeldIsQueued, OneEach, WorkIsQueued
<1>2. RowsPast /\ HeldIsQueued /\ OneEach /\ WorkIsQueued /\ TypeOK /\ [Next]_vars
        => (RowsPast /\ HeldIsQueued /\ OneEach /\ WorkIsQueued)'
  BY RowsPastStep, HeldIsQueuedStep, OneEachStep, WorkIsQueuedStep
<1>3. TypeOK /\ RowsPast /\ HeldIsQueued /\ OneEach /\ WorkIsQueued => LeaseInv
  BY DEF LeaseInv
<1> QED BY <1>1, <1>2, <1>3, LeaseTypeOK, PTL DEF Spec

\* A set whose members are all equal has at most one.
LEMMA AtMostOne ==
    ASSUME NEW S, \A x, y \in S : x = y
    PROVE  Cardinality(S) <= 1
<1>1. CASE S = {}
  BY <1>1, FS_EmptySet
<1>2. ASSUME NEW x \in S PROVE Cardinality(S) <= 1
  <2>1. S = {x}
    OBVIOUS
  <2> QED BY <2>1, FS_Singleton
<1> QED BY <1>1, <1>2

\* However often answers are lost, claims are repeated and leases run out and are taken
\* over, a request has one lease and the background one holder (ClaimOrganizationAfter).
THEOREM LeaseLimitsHold == Spec => []LeaseLimits
<1>1. LeaseInv => LeaseLimits
  <2> SUFFICES ASSUME LeaseInv PROVE LeaseLimits
    OBVIOUS
  <2>1. OneLeasePerRequest
    <3> SUFFICES ASSUME NEW r \in Attempts
                 PROVE  Cardinality({a \in Assets : Valid(a) /\ exec[a].request = r}) <= 1
      BY DEF OneLeasePerRequest
    <3>1. \A x, y \in {a \in Assets : Valid(a) /\ exec[a].request = r} : x = y
      BY DEF LeaseInv, OneEach
    <3> QED BY <3>1, AtMostOne
  <2>2. OneBackground
    <3>1. \A x, y \in {a \in Assets : Valid(a) /\ exec[a].background} : x = y
      BY DEF LeaseInv, OneEach
    <3> QED BY <3>1, AtMostOne DEF OneBackground
  <2> QED BY <2>1, <2>2 DEF LeaseLimits
<1> QED BY <1>1, LeaseInvariant, PTL

\* Deferred work is never lost, whatever is published, invalidated, rebuilt or claimed
\* around it.
THEOREM LeaseWorkIsQueued == Spec => []WorkIsQueued
<1>1. LeaseInv => WorkIsQueued
  BY DEF LeaseInv
<1> QED BY <1>1, LeaseInvariant, PTL

-----------------------------------------------------------------------------
(* Submissions.                                                            *)

\* What a staged submission will replace is the version it was made for.
StagedOnBase ==
    \A c \in Calls : sub[c] # None /\ sub[c].stage = "staged" /\ sub[c].base # None
        => sub[c].base = sub[c].expected

\* No step stages an organization on another base.
LEMMA StagedOnBaseStep == TypeOK /\ StagedOnBase /\ [Next]_vars => StagedOnBase'
<1> SUFFICES ASSUME TypeOK, StagedOnBase, [Next]_vars PROVE StagedOnBase'
  OBVIOUS
<1>1. ASSUME NEW c \in Calls, NEW r \in Attempts, NEW a \in Assets, ReadWork(c, r, a)
      PROVE  StagedOnBase'
  BY <1>1 DEF ReadWork, StagedOnBase, TypeOK
<1>2. ASSUME NEW c \in Calls, StageOrganization(c) PROVE StagedOnBase'
  <2>1. sub[c] \in Subs
    BY <1>2 DEF StageOrganization, TypeOK
  <2> DEFINE staged == [sub[c] EXCEPT !.stage = "staged", !.expected = head[sub[c].asset]]
  <2>2. staged.base = sub[c].base /\ staged.expected = head[sub[c].asset]
    BY <2>1 DEF Subs
  <2>3. /\ sub'[c] = IF sub[c].base \in {None, head[sub[c].asset]} THEN staged ELSE None
        /\ \A d \in Calls \ {c} : sub'[d] = sub[d]
    BY <1>2 DEF StageOrganization, TypeOK
  <2> HIDE DEF staged
  <2> QED BY <2>2, <2>3 DEF StagedOnBase
<1>3. ASSUME NEW c \in Calls, sub' = [sub EXCEPT ![c] = None] PROVE StagedOnBase'
  BY <1>3 DEF StagedOnBase, TypeOK
<1>4. ASSUME NEW a \in Assets, InputsChange(a) PROVE StagedOnBase'
  <2> SUFFICES ASSUME NEW c \in Calls, sub'[c] # None, sub'[c].stage = "staged",
                      sub'[c].base # None
               PROVE  sub'[c].base = sub'[c].expected
    BY DEF StagedOnBase
  <2>1. CASE Touches(c, a)
    <3>1. sub[c] # None /\ sub[c] \in Subs /\ sub'[c] = [sub[c] EXCEPT !.fresh = FALSE]
      BY <1>4, <2>1 DEF InputsChange, Touches, TypeOK
    <3>2. sub'[c].stage = sub[c].stage /\ sub'[c].base = sub[c].base
          /\ sub'[c].expected = sub[c].expected
      BY <3>1 DEF Subs
    <3> QED BY <3>1, <3>2 DEF StagedOnBase
  <2>2. CASE ~Touches(c, a)
    BY <1>4, <2>2 DEF InputsChange, StagedOnBase
  <2> QED BY <2>1, <2>2
<1>5. CASE UNCHANGED sub
  BY <1>5 DEF StagedOnBase
<1> QED
  BY LeaseAssumption, <1>1, <1>2, <1>3, <1>4, <1>5 DEF Next, vars, ClaimReplay, Revoke,
     ClaimOrganization, ReleaseLease, RenewLease, PublishOrganization, EndCall, Expire, Forget,
     ForgetBatch, InvalidateBatch, Change, FinishRebuild, Arm, Look, Sleep, Wake, GiveUp, Signal

\* A submission never replaces a version that appeared while its model or embedder
\* worked: staging compares the version it read, publication the one that was staged.
THEOREM LeaseNoLostUpdate == Spec => NoLostUpdate
<1> DEFINE Step ==
      \A c \in Calls : sub[c] # None /\ sub'[c] = None /\ by' # by /\ sub[c].base # None
          => head[sub[c].asset] = sub[c].base
<1>1. Init => StagedOnBase
  BY DEF Init, StagedOnBase
<1>2. TypeOK /\ StagedOnBase /\ [Next]_vars => [Step]_vars
  <2> SUFFICES ASSUME TypeOK, StagedOnBase, Next, NEW c \in Calls, sub[c] # None, sub'[c] = None,
                      by' # by, sub[c].base # None
               PROVE  head[sub[c].asset] = sub[c].base
    BY DEF vars
  <2>1. PICK d \in Calls, after \in {"prepared", "vector", "ready"} : PublishOrganization(d, after)
    BY DEF Next, ClaimReplay, Revoke, ClaimOrganization, ReleaseLease, RenewLease, ReadWork,
       StageOrganization, EndCall, Expire, Forget, ForgetBatch, InputsChange, InvalidateBatch,
       Change, FinishRebuild, Arm, Look, Sleep, Wake, GiveUp, Signal, rows
  <2>2. d = c
    BY <2>1 DEF PublishOrganization, TypeOK
  <2> QED BY <2>1, <2>2 DEF PublishOrganization, StagedOnBase
<1> QED BY <1>1, <1>2, StagedOnBaseStep, LeaseTypeOK, PTL DEF Spec, NoLostUpdate

-----------------------------------------------------------------------------
(* Waiters.                                                                *)

\* A waiter that nobody has told or is about to tell has a timer for every lease under
\* which a job is held, and for every lease whose job has become free since it looked.
Awaited ==
    \A w \in Waiters :
        /\ wait[w].at \in {"looked", "asleep"}
        /\ ~wait[w].heard /\ ~signal /\ (wait[w].at = "asleep" => ~wait[w].late)
        => \A a \in Assets :
              /\ Valid(a) /\ jobs[a] # 0 => exec[a].token \in wait[w].timers
              /\ Available(a) => exec[a].expires = "past" /\ exec[a].token \in wait[w].timers

\* Whatever else makes a job available commits, and every waiter is told of it.
LEMMA AwaitedStep == TypeOK /\ HeldIsQueued /\ Awaited /\ [Next]_vars => Awaited'
<1> SUFFICES ASSUME TypeOK, HeldIsQueued, Awaited, [Next]_vars,
                    NEW w \in Waiters, wait'[w].at \in {"looked", "asleep"},
                    ~wait'[w].heard, ~signal', wait'[w].at = "asleep" => ~wait'[w].late,
                    NEW a \in Assets
             PROVE  /\ Valid(a)' /\ jobs'[a] # 0 => exec'[a].token \in wait'[w].timers
                    /\ Available(a)' => exec'[a].expires = "past" /\ exec'[a].token \in wait'[w].timers
  BY DEF Awaited
<1> DEFINE Timed == /\ Valid(a) /\ jobs[a] # 0 => exec[a].token \in wait[w].timers
                    /\ Available(a) => exec[a].expires = "past" /\ exec[a].token \in wait[w].timers
<1>0. wait[w] \in Waits /\ (exec[a] # None => exec[a] \in Rows)
  BY DEF TypeOK
<1>1. wait[w] = wait'[w] /\ ~signal => Timed
  BY DEF Awaited
<1>2. ASSUME NEW b \in Assets, Expire(b) PROVE Timed'
  <2>1. Timed
    BY <1>1, <1>2 DEF Expire
  <2>2. CASE b # a
    <3>1. exec'[a] = exec[a] /\ UNCHANGED <<jobs, world, wait>>
      BY <1>2, <2>2 DEF Expire, TypeOK
    <3> QED BY <2>1, <3>1 DEF Valid, Available, world
  <2>3. CASE b = a
    <3>1. exec'[a].expires = "past" /\ exec'[a].token = exec[a].token
      BY <1>0, <1>2, <2>3 DEF Expire, Valid, TypeOK, Rows
    <3>2. jobs[a] # 0 /\ UNCHANGED wait
      BY <1>2, <2>3 DEF Expire, HeldIsQueued, Valid
    <3> QED BY <1>2, <2>1, <2>3, <3>1, <3>2 DEF Expire, Valid
  <2> QED BY <2>2, <2>3
<1>3. ASSUME UNCHANGED <<rows, world, sub, signal>>,
             NEW v \in Waiters, Arm(v) \/ Look(v) \/ Sleep(v) \/ Wake(v) \/ GiveUp(v)
      PROVE  Timed'
  <2>1. UNCHANGED <<exec, jobs, signal>> /\ (Valid(a)' <=> Valid(a)) /\ (Available(a)' <=> Available(a))
    BY <1>3 DEF rows, world, Valid, Available
  <2>2. CASE v # w
    <3>1. wait'[w] = wait[w]
      BY <1>3, <2>2 DEF Arm, Look, Sleep, Wake, GiveUp, TypeOK
    <3> QED BY <1>1, <2>1, <3>1
  <2>3. CASE v = w /\ Look(w)
    <3> DEFINE new == [wait[w] EXCEPT !.at = "looked",
                                      !.timers = IF wait[w].heard THEN {} ELSE Running]
    <3>1. new.heard = wait[w].heard /\ new.timers = IF wait[w].heard THEN {} ELSE Running
      BY <1>0 DEF Waits
    <3>2. wait'[w] = IF \E b \in Assets : Available(b) THEN Out ELSE new
      BY <2>3 DEF Look, TypeOK
    <3> HIDE DEF new
    <3>3. wait'[w] # Out
      BY DEF Out
    <3>4. wait'[w].timers = Running /\ ~Available(a)
      BY <3>1, <3>2, <3>3
    <3>5. Valid(a) /\ jobs[a] # 0 => exec[a].token \in Running
      BY DEF Running, Valid
    <3> QED BY <2>1, <3>4, <3>5
  <2>4. CASE v = w /\ Sleep(w)
    <3>1. /\ wait[w].at = "looked" /\ wait'[w].at = "asleep" /\ wait'[w].heard = wait[w].heard
          /\ wait'[w].timers = wait[w].timers \ Lapsed
          /\ wait'[w].late = (wait[w].timers \cap Lapsed # {})
      BY <2>4 DEF Sleep, TypeOK
    <3>2. wait[w].timers \cap Lapsed = {}
      BY <3>1
    <3>3. Timed
      BY <2>1, <3>1 DEF Awaited
    <3> QED BY <1>0, <2>1, <3>1, <3>2, <3>3 DEF Waits
  <2>5. CASE v = w /\ (Arm(w) \/ Wake(w) \/ GiveUp(w))
    BY <2>5 DEF Arm, Wake, GiveUp, Out, TypeOK
  <2> QED BY <1>3, <2>2, <2>3, <2>4, <2>5
<1>4. CASE Signal
  BY <1>4 DEF Signal, Out, TypeOK
<1>5. CASE UNCHANGED <<rows, world, signal, wait>>
  <2>1. Timed
    BY <1>1, <1>5
  <2> QED BY <1>5, <2>1 DEF rows, world, Valid, Available
<1>6. Next => \/ \E b \in Assets : Expire(b)
              \/ UNCHANGED <<rows, world, sub, signal>> /\ \E v \in Waiters :
                    Arm(v) \/ Look(v) \/ Sleep(v) \/ Wake(v) \/ GiveUp(v)
              \/ Signal
              \/ UNCHANGED <<rows, world, signal, wait>>
  BY DEF Next, ClaimReplay, Revoke, ClaimOrganization, ReleaseLease, RenewLease, ReadWork,
     StageOrganization, PublishOrganization, EndCall, Forget, ForgetBatch, InputsChange,
     InvalidateBatch, Change, FinishRebuild, Event, Commit, Arm, Look, Sleep, Wake, GiveUp
<1> QED BY <1>2, <1>3, <1>4, <1>5, <1>6 DEF vars

\* Whoever sleeps while a job can be claimed has been told, is about to be told, or has
\* a timer that has run out, except for a lease that ended between the two readings of
\* the clock (WaitOrganization, signalOrganizationJobs).
THEOREM LeaseNoLostJob == Spec => []NoLostJob
<1>1. Init => Awaited
  BY DEF Init, Out, Awaited
<1>2. LeaseInv /\ Awaited /\ [Next]_vars => Awaited'
  BY AwaitedStep DEF LeaseInv
<1>3. Awaited => NoLostJob
  <2> SUFFICES ASSUME Awaited, NEW w \in Waiters, wait[w].at = "asleep",
                      NEW a \in Assets, Available(a),
                      ~wait[w].heard, ~signal, ~wait[w].late
               PROVE  wait[w].timers \cap Lapsed # {}
    BY DEF NoLostJob
  <2>1. exec[a].expires = "past" /\ exec[a].token \in wait[w].timers /\ exec[a] # None
    BY DEF Awaited, Available
  <2>2. exec[a].token \in Lapsed
    BY <2>1 DEF Lapsed
  <2> QED BY <2>1, <2>2
<1> QED BY <1>1, <1>2, <1>3, LeaseInvariant, PTL DEF Spec

-----------------------------------------------------------------------------
(* The refinement.                                                         *)

\* Without a claim or a publication, work may appear, disappear or fall back, and no
\* more.
LEMMA NoClaimReleases ==
    ASSUME TypeOK, RowsPast, [Next]_vars, UNCHANGED <<issued, by>>
    PROVE  LW!Release
<1>1. ASSUME NEW a \in Assets PROVE LeasedWorkOf'[a] = LeasedWorkOf[a] \/ LeasedWorkOf'[a] \in LW!Unheld
  <2>1. CASE Valid(a)'
    <3>1. Valid(a) /\ exec'[a] = exec[a]
      BY <2>1, NoRevival DEF ClaimOrganization, TypeOK, Tokens
    <3> QED BY <2>1, <3>1 DEF LeasedWorkOf
  <2>2. CASE ~Valid(a)'
    BY <2>2 DEF LeasedWorkOf, LW!Unheld
  <2> QED BY <2>1, <2>2
<1> QED BY <1>1 DEF LW!Release

\* A claim takes open work under a token nobody had before.
LEMMA ClaimTakes ==
    ASSUME TypeOK, NEW r \in Attempts, NEW a \in Assets, NEW background \in BOOLEAN,
           ClaimOrganization(r, a, background)
    PROVE  LW!Take(a)
<1> DEFINE row == [request |-> r, token |-> issued', access |-> access[r],
            revision |-> revision[a], generation |-> generation, background |-> background,
            expires |-> "running"]
<1>1. row \in Rows /\ issued' = issued + 1 /\ issued' # 0
  BY LeaseAssumption DEF ClaimOrganization, TypeOK, Rows, Tokens
<1>2. exec'[a] = row /\ UNCHANGED <<world, jobs>> /\ \A b \in Assets \ {a} : exec'[b] = exec[b]
  BY DEF ClaimOrganization, TypeOK
<1>3. Available(a) /\ ~Valid(a) /\ revision[a] # 0 /\ by' = by
  BY DEF ClaimOrganization, Available
<1>4. Valid(a)' /\ exec'[a].token = issued'
  BY <1>1, <1>2, <1>3, NoneAssumption DEF Valid, world
<1>5. \A b \in Assets \ {a} : (Valid(b)' <=> Valid(b)) /\ (Available(b)' <=> Available(b))
  BY <1>2 DEF Valid, Available, world
<1> HIDE DEF row
<1>6. LeasedWorkOf' = [LeasedWorkOf EXCEPT ![a] = LW!Held(issued')]
  BY <1>2, <1>4, <1>5 DEF LeasedWorkOf, LW!Held
<1> QED BY <1>1, <1>3, <1>6 DEF LW!Take, LeasedWorkOf

\* A publication is the holder's, who goes on or is done, or, without a row, the store's.
LEMMA PublicationIsHolders ==
    ASSUME TypeOK, NEW c \in Calls, NEW after \in {"prepared", "vector", "ready"},
           PublishOrganization(c, after)
    PROVE  \E a \in Assets : LW!Publish(a) \/ LW!PublishOwn(a)
<1>1. PICK a \in Assets :
      /\ UNCHANGED <<world, issued>> /\ revision[a] # 0
      /\ by' = [by EXCEPT ![a] = [token |-> sub[c].token, results |-> @.results + 1]]
      /\ Credential(a, sub[c].attempt, sub[c].token, sub[c].access)
      /\ jobs' = IF Completes(c, after) /\ jobs[a] = revision[a] THEN [jobs EXCEPT ![a] = 0] ELSE jobs
      /\ exec' = IF Completes(c, after) /\ exec[a] # None THEN [exec EXCEPT ![a].expires = "zero"] ELSE exec
  BY DEF PublishOrganization, TypeOK, Subs
<1>2. \A b \in Assets \ {a} : exec'[b] = exec[b] /\ jobs'[b] = jobs[b]
  BY <1>1 DEF TypeOK
<1>3. \A b \in Assets \ {a} : (Valid(b)' <=> Valid(b)) /\ (Available(b)' <=> Available(b))
  BY <1>1, <1>2 DEF Valid, Available, world
<1>4. CASE exec[a] = None
  <2>1. sub[c].token = 0 /\ exec' = exec
    BY <1>1, <1>4 DEF Credential
  <2>2. ~Valid(a) /\ ~Available(a) /\ ~Valid(a)' /\ ~Available(a)'
    BY <1>4, <2>1 DEF Valid, Available
  <2>3. LeasedWorkOf' = LeasedWorkOf
    BY <1>3, <2>1, <2>2 DEF LeasedWorkOf
  <2>4. LW!PublishOwn(a)
    BY <1>1, <2>1, <2>2, <2>3 DEF LW!PublishOwn, LW!Result, LeasedWorkOf
  <2> QED BY <1>1, <2>4
<1>5. CASE exec[a] # None
  <2>1. Valid(a) /\ sub[c].token = exec[a].token
    BY <1>1, <1>5 DEF Credential, Valid
  <2>2. LeasedWorkOf' \in {LeasedWorkOf, [LeasedWorkOf EXCEPT ![a] = [state |-> "none", token |-> 0]]}
    <3>1. CASE ~Completes(c, after)
      BY <1>1, <3>1 DEF LeasedWorkOf, Valid, Available, world
    <3>2. CASE Completes(c, after)
      <4>1. exec[a] \in Rows /\ exec' = [exec EXCEPT ![a].expires = "zero"]
        BY <1>1, <1>5, <3>2 DEF TypeOK
      <4>2. exec'[a].expires = "zero"
        BY <1>1, <4>1 DEF TypeOK, Rows
      <4>3. ~Valid(a)'
        BY <4>2 DEF Valid
      <4>4. jobs'[a] # revision[a] /\ revision' = revision
        BY <1>1, <3>2 DEF TypeOK, world
      <4>5. ~Available(a)'
        BY <4>4 DEF Available
      <4> QED BY <1>1, <1>2, <1>3, <4>3, <4>5 DEF LeasedWorkOf
    <3> QED BY <3>1, <3>2
  <2>3. LW!Publish(a)
    BY <1>1, <2>1, <2>2 DEF LW!Publish, LW!Result, LeasedWorkOf
  <2> QED BY <1>1, <2>3
<1> QED BY <1>4, <1>5

\* Leases, clocks, revocations, rebuilds and publications implement leased work: one
\* holder at a time, a token handed out once and for open work, results of the holder.
THEOREM LeaseImplements == Spec => Implements
<1>1. Init => LW!AbstractInit
  BY DEF Init, Unclaimed, Valid, LeasedWorkOf, LW!AbstractInit, LW!Unheld
<1>2. LeaseInv /\ [Next]_vars => [LW!AbstractNext]_(LW!avars)
  <2> SUFFICES ASSUME LeaseInv, [Next]_vars PROVE LW!AbstractNext
    OBVIOUS
  <2>0. TypeOK /\ RowsPast
    BY DEF LeaseInv
  <2>1. CASE UNCHANGED <<issued, by>>
    BY <2>0, <2>1, NoClaimReleases DEF LW!AbstractNext
  <2>2. ASSUME NEW r \in Attempts, NEW a \in Assets, NEW background \in BOOLEAN,
               ClaimOrganization(r, a, background)
        PROVE  LW!AbstractNext
    BY <2>0, <2>2, ClaimTakes DEF LW!AbstractNext
  <2>3. ASSUME NEW c \in Calls, NEW after \in {"prepared", "vector", "ready"},
               PublishOrganization(c, after)
        PROVE  LW!AbstractNext
    BY <2>0, <2>3, PublicationIsHolders DEF LW!AbstractNext
  <2> QED
    BY OnlyRowSteps, <2>1, <2>2, <2>3 DEF RowStep, ReleaseLease, Revoke, Expire, Forget,
       ForgetBatch, InputsChange, InvalidateBatch, Change, FinishRebuild, rows
<1> QED BY <1>1, <1>2, LeaseInvariant, PTL DEF Spec, Implements, LW!AbstractSpec
=============================================================================
