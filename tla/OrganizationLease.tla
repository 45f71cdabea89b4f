-------------------------- MODULE OrganizationLease --------------------------
(***************************************************************************)
(* Organization work: its jobs, the leases under which agents outside the  *)
(* store do it, the publication of their results, their invalidation, and  *)
(* the wait for jobs (organization_jobs.go, organization.go,               *)
(* invalidation.go, streaming_semantic_work.go, streaming_submit.go).      *)
(*                                                                         *)
(* An attempt is one request identity of one principal; a call is a        *)
(* goroutine of the service that prepares or submits work for an attempt.  *)
(* An agent may try every token it was ever given; only the one in the row *)
(* can have an effect, so what agents remember or lose is no state here.   *)
(* Time is not a number: a running lease may run out at any moment, by     *)
(* itself.  A transaction that commits is one step; the signal to waiters  *)
(* is the next step of its goroutine, which still holds the writer.        *)
(***************************************************************************)
EXTENDS Naturals, FiniteSets

CONSTANTS
    Assets,
    Attempts,       \* request identities of agents
    Calls,          \* goroutines that prepare or submit
    Waiters,        \* goroutines in WaitOrganization, for any asset
    Wants,          \* per attempt the assets its request is for
    Worked,         \* bound: the assets calls work on and that change
    MaxEvents,      \* bound: changes, forgets, revocations, rebuilds, new inputs
    MaxToken,       \* bound: leases
    MaxVersion,     \* bound: organization versions of an asset
    MaxBusy,        \* bound: calls and waiters at a time
    None

ASSUME LeaseAssumption ==
    /\ MaxEvents \in Nat /\ MaxToken \in Nat /\ MaxVersion \in Nat /\ MaxBusy \in Nat
    /\ Wants \in [Attempts -> SUBSET Assets] /\ Worked \subseteq Assets
    /\ None \notin Assets \cup Attempts \cup Calls

VARIABLES
    revision,       \* live_assets: current revision, 0 once forgotten
    generation,     \* derived_state.generation
    access,         \* revision of an attempt's principal, with the deletion epoch
    jobs,           \* semantic_jobs: revision, or 0 for no job
    exec,           \* organization_execution: a row or None
    head,           \* organization_heads: number of the newest version
    visible,        \* revision of the version CurrentOrganization finds, or 0
    grade,          \* what the newest version holds
    due,            \* a version whose inputs changed waits for invalidateBatch
    issued,         \* lease tokens so far
    by,             \* history: token of the last publication and their number
    sub,            \* the preparation or submission of a call
    signal,         \* a writer has committed and not yet signalled
    wait,           \* the waiters
    events          \* counts against MaxEvents

rows == <<jobs, exec, head, visible, grade, due, issued, by>>
world == <<revision, generation, access, events>>
vars == <<rows, world, sub, signal, wait>>

Stamps == 0..(MaxEvents + 1)
Tokens == 0..MaxToken

Rows == [request : Attempts \cup {None}, token : Tokens, access : Stamps, revision : Stamps,
         generation : Stamps, background : BOOLEAN, expires : {"zero", "past", "running"}]

Subs == [attempt : Attempts, asset : Assets, token : Tokens, access : Stamps,
         stage : {"read", "staged"}, revision : Stamps, generation : Stamps,
         base : 0..MaxVersion \cup {None}, grade : {"prepared", "vector"}, fresh : BOOLEAN,
         expected : 0..MaxVersion]

\* No row is no row, and no call is no call.
ASSUME NoneAssumption == None \notin Rows \cup Subs

Waits == [at : {"out", "armed", "looked", "asleep"}, heard : BOOLEAN,
          timers : SUBSET Tokens, late : BOOLEAN]

TypeOK ==
    /\ revision \in [Assets -> Stamps]
    /\ generation \in Stamps
    /\ access \in [Attempts -> Stamps]
    /\ jobs \in [Assets -> Stamps]
    /\ exec \in [Assets -> Rows \cup {None}]
    /\ head \in [Assets -> 0..MaxVersion]
    /\ visible \in [Assets -> Stamps]
    /\ grade \in [Assets -> {"prepared", "vector", "ready"}]
    /\ due \in [Assets -> BOOLEAN]
    /\ issued \in Tokens
    /\ by \in [Assets -> [token : Tokens, results : 0..MaxVersion]]
    /\ sub \in [Calls -> Subs \cup {None}]
    /\ signal \in BOOLEAN
    /\ wait \in [Waiters -> Waits]
    /\ events \in 0..MaxEvents

\* ON CONFLICT DO UPDATE SET token='',expires=0 leaves the other columns alone;
\* without a token nothing reads them.
Unclaimed == [request |-> None, token |-> 0, access |-> 0, revision |-> 0, generation |-> 0,
              background |-> FALSE, expires |-> "zero"]

Out == [at |-> "out", heard |-> FALSE, timers |-> {}, late |-> FALSE]

\* Assets created with deferred organization.
Init ==
    /\ revision = [a \in Assets |-> 1]
    /\ generation = 1
    /\ access = [r \in Attempts |-> 1]
    /\ jobs = [a \in Assets |-> 1]
    /\ exec = [a \in Assets |-> Unclaimed]
    /\ head = [a \in Assets |-> 0]
    /\ visible = [a \in Assets |-> 0]
    /\ grade = [a \in Assets |-> "prepared"]
    /\ due = [a \in Assets |-> FALSE]
    /\ issued = 0
    /\ by = [a \in Assets |-> [token |-> 0, results |-> 0]]
    /\ sub = [c \in Calls |-> None]
    /\ signal = FALSE
    /\ wait = [w \in Waiters |-> Out]
    /\ events = 0

-----------------------------------------------------------------------------
(* Leases                                                                  *)

\* The row names somebody who may work now.  availableOrganization and
\* checkOrganizationCredential decide it by the same columns.
Valid(a) ==
    /\ exec[a] # None
    /\ exec[a].token # 0 /\ exec[a].expires = "running"
    /\ exec[a].revision = revision[a] /\ revision[a] # 0
    /\ exec[a].generation = generation
    /\ exec[a].access = access[exec[a].request]

Available(a) == exec[a] # None /\ jobs[a] = revision[a] /\ revision[a] # 0 /\ ~Valid(a)

\* Mutation of Credential: a lease that has run out is accepted if nobody took over.
CredentialLate(a, r, token, acc) ==
    /\ acc = access[r]
    /\ IF exec[a] = None THEN token = 0
       ELSE /\ token # 0 /\ token = exec[a].token
            /\ exec[a].request = r /\ exec[a].access = acc
            /\ exec[a].revision = revision[a] /\ revision[a] # 0 /\ exec[a].generation = generation

\* checkOrganizationCredential with checkAccess, for a call that began with access acc.
\* The row names the principal; a token is known to the request that claimed it only.
Credential(a, r, token, acc) ==
    /\ acc = access[r]
    /\ IF exec[a] = None THEN token = 0
       ELSE /\ token # 0 /\ token = exec[a].token
            /\ exec[a].request = r /\ exec[a].access = acc
            /\ exec[a].expires = "running"
            /\ exec[a].revision = revision[a] /\ revision[a] # 0 /\ exec[a].generation = generation

\* Room under the bound for one more call or waiter.
Room == Cardinality({c \in Calls : sub[c] # None}) + Cardinality({w \in Waiters : wait[w].at # "out"})
            < MaxBusy

\* A write transaction that commits; every waiter will be told of it.
Commit == ~signal /\ signal' = TRUE

\* Mutation of Replayed: the retry of a request that names no asset is not recognised.
ReplayedNamed(r) == {a \in Assets : Wants[r] = {a} /\ Valid(a) /\ jobs[a] # 0 /\ exec[a].request = r}

\* ClaimOrganization: the lease this request already has.
Replayed(r) == {a \in Wants[r] : Valid(a) /\ jobs[a] # 0 /\ exec[a].request = r}

\* Mutation of Occupied: only the caller's own background lease counts.
OccupiedByCaller(r) == \E a \in Assets : Valid(a) /\ jobs[a] # 0 /\ exec[a].background /\ exec[a].request = r

\* Background work has one place.
Occupied(r) == \E a \in Assets : Valid(a) /\ jobs[a] # 0 /\ exec[a].background

\* A repeated claim, whose first answer may have been lost, gets the same lease.
ClaimReplay(r) ==
    /\ Replayed(r) # {}
    /\ Commit
    /\ UNCHANGED <<rows, world, sub, wait>>

ClaimOrganization(r, a, background) ==
    /\ Replayed(r) = {}
    /\ background => ~Occupied(r)
    /\ a \in Wants[r] /\ Available(a)
    /\ issued < MaxToken
    /\ issued' = issued + 1
    /\ exec' = [exec EXCEPT ![a] = [request |-> r, token |-> issued', access |-> access[r],
            revision |-> revision[a], generation |-> generation, background |-> background,
            expires |-> "running"]]
    /\ Commit
    /\ UNCHANGED <<jobs, head, visible, grade, due, by, world, sub, wait>>

\* ChangeOrganizationLease.  A renewal moves the end of a lease that still runs,
\* which is not a change here.
ReleaseLease(r, a) ==
    /\ exec[a] # None /\ Credential(a, r, exec[a].token, access[r])
    /\ exec' = [exec EXCEPT ![a] = Unclaimed]
    /\ Commit
    /\ UNCHANGED <<jobs, head, visible, grade, due, issued, by, world, sub, wait>>

RenewLease(r, a) ==
    /\ exec[a] # None /\ Credential(a, r, exec[a].token, access[r])
    /\ Commit
    /\ UNCHANGED <<rows, world, sub, wait>>

\* Time passes.  No write, and no signal.  Where the row is outdated anyway nobody
\* can tell.
Expire(a) ==
    /\ Valid(a)
    /\ exec' = [exec EXCEPT ![a].expires = "past"]
    /\ UNCHANGED <<jobs, head, visible, grade, due, issued, by, world, sub, signal, wait>>

-----------------------------------------------------------------------------
(* Preparation and submission                                              *)

\* Mutation of ReadWork: a finished version is submitted again.
ReadWorkAgain(c, r, a) ==
    /\ sub[c] = None /\ Room
    /\ revision[a] # 0
    /\ LET token == IF exec[a] = None THEN 0 ELSE exec[a].token
           current == visible[a] = revision[a]
       IN /\ Credential(a, r, token, access[r])
          /\ sub' = [sub EXCEPT ![c] = [attempt |-> r, asset |-> a, token |-> token,
                access |-> access[r], stage |-> "read", revision |-> revision[a],
                generation |-> generation, base |-> IF current THEN head[a] ELSE None,
                grade |-> IF current THEN grade[a] ELSE "prepared", fresh |-> TRUE, expected |-> 0]]
    /\ UNCHANGED <<rows, world, signal, wait>>

\* prepareStreamingWork and submitStreamingSemantic check the credential and read
\* the work: with a current version the call submits a result for it, or fills in the
\* vector that is missing; without one it prepares.  A version that is ready needs
\* nothing.  Without a row for the asset the call is one of the older protocol, token ''.
\* A credential lost between the check and the reading is refused by the publication.
ReadWork(c, r, a) ==
    /\ sub[c] = None /\ Room
    /\ revision[a] # 0
    /\ LET token == IF exec[a] = None THEN 0 ELSE exec[a].token
           current == visible[a] = revision[a]
       IN /\ Credential(a, r, token, access[r])
          /\ current => grade[a] # "ready"
          /\ sub' = [sub EXCEPT ![c] = [attempt |-> r, asset |-> a, token |-> token,
                access |-> access[r], stage |-> "read", revision |-> revision[a],
                generation |-> generation, base |-> IF current THEN head[a] ELSE None,
                grade |-> IF current THEN grade[a] ELSE "prepared", fresh |-> TRUE, expected |-> 0]]
    /\ UNCHANGED <<rows, world, signal, wait>>

\* Mutation of StageOrganization: the version to be replaced is not compared.
StageOrganizationBlind(c) ==
    /\ sub[c] # None /\ sub[c].stage = "read"
    /\ sub' = [sub EXCEPT ![c].stage = "staged", ![c].expected = head[sub[c].asset]]
    /\ UNCHANGED <<rows, world, signal, wait>>

\* StageOrganization notes the version it will replace.  A submission wants it to be
\* the one it read; otherwise it ends and leaves the staged rows behind.
StageOrganization(c) ==
    /\ sub[c] # None /\ sub[c].stage = "read"
    /\ LET newest == head[sub[c].asset]
       IN sub' = [sub EXCEPT ![c] = IF @.base \in {None, newest}
                    THEN [@ EXCEPT !.stage = "staged", !.expected = newest] ELSE None]
    /\ UNCHANGED <<rows, world, signal, wait>>

\* Mutation of Completes: a result without its vector completes deferred work too.
CompletesEarly(c, after) == sub[c].base # None

\* The version ends the work: a result, and for deferred work its vector too.
Completes(c, after) ==
    sub[c].base # None /\ (after = "vector" => exec[sub[c].asset] = None)

\* The transaction of PublishOrganization.  One that finds the staged version
\* outdated retires it and publishes nothing: the call ends.
PublishOrganization(c, after) ==
    /\ sub[c] # None /\ sub[c].stage = "staged"
    /\ sub[c].base = None => after = "prepared"
    /\ sub[c].base # None => after \in {"vector", "ready"} \ {sub[c].grade}
    /\ LET a == sub[c].asset
           completes == Completes(c, after)
       IN /\ Credential(a, sub[c].attempt, sub[c].token, sub[c].access)
          /\ head[a] = sub[c].expected
          /\ revision[a] # 0 /\ revision[a] = sub[c].revision
          /\ generation = sub[c].generation
          /\ sub[c].fresh
          /\ head[a] < MaxVersion
          /\ head' = [head EXCEPT ![a] = @ + 1]
          /\ visible' = [visible EXCEPT ![a] = revision[a]]
          /\ grade' = [grade EXCEPT ![a] = after]
          /\ by' = [by EXCEPT ![a] = [token |-> sub[c].token, results |-> @.results + 1]]
          /\ jobs' = IF completes /\ jobs[a] = revision[a] THEN [jobs EXCEPT ![a] = 0] ELSE jobs
          /\ exec' = IF completes /\ exec[a] # None THEN [exec EXCEPT ![a].expires = "zero"] ELSE exec
    /\ sub' = [sub EXCEPT ![c] = None]
    /\ Commit
    /\ UNCHANGED <<due, issued, world, wait>>

\* A refusal, a rejection, a failure or a cancellation, at any step.
EndCall(c) ==
    /\ sub[c] # None
    /\ sub' = [sub EXCEPT ![c] = None]
    /\ UNCHANGED <<rows, world, signal, wait>>

-----------------------------------------------------------------------------
(* The rest of the store                                                   *)

Event == events < MaxEvents /\ events' = events + 1 /\ Commit

\* AssetStage.Publish for an existing asset, with or without deferred organization.
Change(a, deferred) ==
    /\ revision[a] # 0
    /\ revision' = [revision EXCEPT ![a] = @ + 1]
    /\ jobs' = [jobs EXCEPT ![a] = revision'[a]]
    /\ exec' = [exec EXCEPT ![a] = IF deferred THEN Unclaimed ELSE None]
    /\ due' = [due EXCEPT ![a] = @ \/ head[a] # 0]
    /\ Event
    /\ UNCHANGED <<head, visible, grade, issued, by, generation, access, sub, wait>>

\* A forget decision hides the asset and moves the deletion epoch, which ends every
\* lease; forgetBatch deletes the rows later.
Forget(a) ==
    /\ revision[a] # 0
    /\ revision' = [revision EXCEPT ![a] = 0]
    /\ access' = [r \in Attempts |-> access[r] + 1]
    /\ Event
    /\ UNCHANGED <<rows, generation, sub, wait>>

ForgetBatch(a) ==
    /\ revision[a] = 0 /\ exec[a] # None
    /\ jobs' = [jobs EXCEPT ![a] = 0]
    /\ exec' = [exec EXCEPT ![a] = None]
    /\ Commit
    /\ UNCHANGED <<head, visible, grade, due, issued, by, world, sub, wait>>

\* The owner changes what a principal may do.
Revoke(r) ==
    /\ access' = [access EXCEPT ![r] = @ + 1]
    /\ Event
    /\ UNCHANGED <<rows, revision, generation, sub, wait>>

Touches(c, a) == sub[c] # None /\ sub[c].asset = a

\* Something the newest version of an asset, or the work of a call, was made from has
\* changed.  CurrentOrganization compares inputs and stops finding the version at once.
InputsChange(a) ==
    /\ revision[a] # 0
    /\ visible[a] = revision[a] \/ \E c \in Calls : Touches(c, a)
    /\ visible' = [visible EXCEPT ![a] = 0]
    /\ due' = [due EXCEPT ![a] = @ \/ visible[a] = revision[a]
                    \/ \E c \in Calls : Touches(c, a) /\ sub[c].stage = "staged"]
    /\ sub' = [c \in Calls |-> IF Touches(c, a) THEN [sub[c] EXCEPT !.fresh = FALSE] ELSE sub[c]]
    /\ Event
    /\ UNCHANGED <<jobs, exec, head, grade, issued, by, revision, generation, access, wait>>

\* invalidateBatch retires the outdated version and queues its asset again, whatever
\* has been published for it in the meantime.
InvalidateBatch(a) ==
    /\ due[a]
    /\ due' = [due EXCEPT ![a] = FALSE]
    /\ jobs' = IF revision[a] # 0 THEN [jobs EXCEPT ![a] = revision[a]] ELSE jobs
    /\ Commit
    /\ UNCHANGED <<exec, head, visible, grade, issued, by, world, sub, wait>>

\* A rebuild ends: every live asset has a version in the new generation, results are
\* kept, and what has none is queued.
FinishRebuild ==
    /\ \A a \in Assets : revision[a] # 0 => head[a] < MaxVersion
    /\ generation' = generation + 1
    /\ head' = [a \in Assets |-> IF revision[a] # 0 THEN head[a] + 1 ELSE head[a]]
    /\ visible' = revision
    /\ grade' = [a \in Assets |-> IF visible[a] = revision[a] THEN grade[a] ELSE "prepared"]
    /\ jobs' = [a \in Assets |-> IF jobs[a] = 0 /\ grade'[a] = "prepared" THEN revision[a] ELSE jobs[a]]
    /\ Event
    /\ UNCHANGED <<exec, due, issued, by, revision, access, sub, wait>>

-----------------------------------------------------------------------------
(* Waiting for jobs                                                        *)

\* WaitOrganization registers and remembers the channel.
Arm(w) ==
    /\ wait[w].at = "out" /\ Room
    /\ wait' = [wait EXCEPT ![w] = [Out EXCEPT !.at = "armed"]]
    /\ UNCHANGED <<rows, world, sub, signal>>

Running == {exec[a].token : a \in {b \in Assets : exec[b] # None /\ exec[b].expires = "running"
                                                  /\ jobs[b] # 0}}
Lapsed == {exec[a].token : a \in {b \in Assets : exec[b] # None /\ exec[b].expires = "past"}}

\* One snapshot: nothing is available, and these leases run.  Once the channel is
\* closed the timer does not matter.
Look(w) ==
    /\ wait[w].at = "armed"
    /\ wait' = [wait EXCEPT ![w] = IF \E a \in Assets : Available(a) THEN Out
                                     ELSE [@ EXCEPT !.at = "looked", !.timers = IF wait[w].heard THEN {} ELSE Running]]
    /\ UNCHANGED <<rows, world, sub, signal>>

\* Mutation of Sleep: the channel is taken when the waiter goes to sleep.
SleepRearmed(w) ==
    /\ wait[w].at = "looked"
    /\ wait' = [wait EXCEPT ![w] = [at |-> "asleep", heard |-> FALSE, timers |-> @.timers \ Lapsed,
                                     late |-> @.timers \cap Lapsed # {}]]
    /\ UNCHANGED <<rows, world, sub, signal>>

\* The clock is read again for the first end of a lease of the same snapshot.  One
\* that has ended since the first reading is late: no timer will stand for it.
Sleep(w) ==
    /\ wait[w].at = "looked"
    /\ wait' = [wait EXCEPT ![w] = [at |-> "asleep", heard |-> @.heard, timers |-> @.timers \ Lapsed,
                                     late |-> @.timers \cap Lapsed # {}]]
    /\ UNCHANGED <<rows, world, sub, signal>>

\* The channel was closed or the timer ran out.
Wake(w) ==
    /\ wait[w].at = "asleep"
    /\ wait[w].heard \/ wait[w].timers \cap Lapsed # {}
    /\ wait' = [wait EXCEPT ![w] = [Out EXCEPT !.at = "armed"]]
    /\ UNCHANGED <<rows, world, sub, signal>>

\* The deadline, a cancellation or the loss of access.
GiveUp(w) ==
    /\ wait[w].at # "out"
    /\ wait' = [wait EXCEPT ![w] = Out]
    /\ UNCHANGED <<rows, world, sub, signal>>

\* signalOrganizationJobs
Signal ==
    /\ signal
    /\ signal' = FALSE
    /\ wait' = [w \in Waiters |-> IF wait[w].at = "out" THEN Out
                                  ELSE [Out EXCEPT !.at = wait[w].at, !.heard = TRUE]]
    /\ UNCHANGED <<rows, world, sub>>

-----------------------------------------------------------------------------
Next ==
    \/ \E r \in Attempts :
        \/ ClaimReplay(r) \/ Revoke(r)
        \/ \E a \in Assets, background \in BOOLEAN : ClaimOrganization(r, a, background)
        \/ \E a \in Assets : ReleaseLease(r, a) \/ RenewLease(r, a)
    \/ \E c \in Calls :
        \/ \E r \in Attempts, a \in Worked : ReadWork(c, r, a)
        \/ StageOrganization(c) \/ EndCall(c)
        \/ \E after \in {"prepared", "vector", "ready"} : PublishOrganization(c, after)
    \/ \E a \in Assets : Expire(a)
    \/ \E a \in Worked :
        \/ Forget(a) \/ ForgetBatch(a) \/ InputsChange(a) \/ InvalidateBatch(a)
        \/ \E deferred \in BOOLEAN : Change(a, deferred)
    \/ FinishRebuild
    \/ \E w \in Waiters : Arm(w) \/ Look(w) \/ Sleep(w) \/ Wake(w) \/ GiveUp(w)
    \/ Signal

Spec == Init /\ [][Next]_vars

-----------------------------------------------------------------------------
(* Properties                                                              *)

\* The work on every asset, as whoever claims or publishes finds it.
LeasedWorkOf ==
    [a \in Assets |->
        [state |-> IF Valid(a) THEN "held" ELSE IF Available(a) THEN "open" ELSE "none",
         token |-> IF Valid(a) THEN exec[a].token ELSE 0]]

LW == INSTANCE LeasedWork WITH work <- LeasedWorkOf, issued <- issued, last <- by

\* Whatever expires, is revoked, replaced, rebuilt or retried, work on an asset has at
\* most one holder, a token is handed out once and only for open work, and every
\* published version comes from the holder of that moment, or, while there is none and
\* none could come, from a call of the older protocol (checkOrganizationCredential
\* inside ClaimOrganization's and PublishOrganization's transactions).
Implements == LW!AbstractSpec

\* A request identity has one lease, however often its answer is lost and it is
\* repeated, with other assets open (ClaimOrganizationAfter).
OneLeasePerRequest ==
    \A r \in Attempts : Cardinality({a \in Assets : Valid(a) /\ exec[a].request = r}) <= 1

\* The whole store has one background holder at a time, even as leases run out and are
\* taken over (ClaimOrganizationAfter's "occupied").
OneBackground == Cardinality({a \in Assets : Valid(a) /\ exec[a].background}) <= 1

\* Who may hold leases, and how many, survives lost answers, retries and takeovers.
LeaseLimits == OneLeasePerRequest /\ OneBackground

\* A submission replaces the version its result was made for, never one that appeared
\* while the model or the embedder worked (streaming_submit.go: "The staged version
\* must still replace exactly the work normalized above").
NoLostUpdate ==
    [][\A c \in Calls :
        sub[c] # None /\ sub'[c] = None /\ by' # by /\ sub[c].base # None
            => head[sub[c].asset] = sub[c].base]_vars

\* Deferred work is never lost: a live asset is ready, or queued at its revision, or
\* invalidation has still to queue it (PublishOrganization, invalidateBatch, Publish).
WorkIsQueued ==
    \A a \in Assets : revision[a] # 0 /\ exec[a] # None =>
        \/ jobs[a] = revision[a]
        \/ visible[a] = revision[a] /\ grade[a] = "ready"
        \/ due[a]

\* Whoever sleeps while a job can be claimed will be woken before its deadline: it has
\* heard the signal, the writer is about to give it, or a lease it waits for has run
\* out.  The one exception is a lease that ends between the two readings of the clock
\* in WaitOrganization: it is neither available at the first nor awaited at the second.
NoLostJob ==
    \A w \in Waiters :
        wait[w].at = "asleep" /\ (\E a \in Assets : Available(a))
            => \/ wait[w].heard \/ signal
               \/ wait[w].timers \cap Lapsed # {}
               \/ wait[w].late
=============================================================================
