----------------------------- MODULE LeasedWork -----------------------------
(***************************************************************************)
(* What leased organization work promises, without requests, access,       *)
(* revisions, generations, clocks or transactions.  The work on an asset   *)
(* is absent, open, or held under a token; a token is handed out once, for *)
(* open work; a result appears under the token that holds the work, or,    *)
(* where the work is not for holders at all, under token 0.                *)
(***************************************************************************)
EXTENDS Naturals

CONSTANT Assets

VARIABLES
    work,       \* per asset its state, and the token of the holder, or 0
    issued,     \* the tokens handed out are 1..issued
    last        \* per asset the token of its last result and their number

avars == <<work, issued, last>>

Unheld == [state : {"none", "open"}, token : {0}]
Held(token) == [state |-> "held", token |-> token]

AbstractInit ==
    /\ work \in [Assets -> Unheld]
    /\ issued = 0
    /\ last = [a \in Assets |-> [token |-> 0, results |-> 0]]

\* Open work is given to a new holder.
Take(a) ==
    /\ work[a].state = "open"
    /\ issued' = issued + 1
    /\ work' = [work EXCEPT ![a] = Held(issued')]
    /\ UNCHANGED last

\* Work appears, disappears or falls back, on any number of assets at a time.
Release ==
    /\ \A a \in Assets : work'[a] = work[a] \/ work'[a] \in Unheld
    /\ UNCHANGED <<issued, last>>

Result(a, token) ==
    /\ last' = [last EXCEPT ![a] = [token |-> token, results |-> @.results + 1]]
    /\ UNCHANGED issued

\* The holder publishes and goes on, or is done.
Publish(a) ==
    /\ work[a].state = "held"
    /\ work' \in {work, [work EXCEPT ![a] = [state |-> "none", token |-> 0]]}
    /\ Result(a, work[a].token)

\* The store publishes by itself while nobody can hold the work.
PublishOwn(a) ==
    /\ work[a].state = "none"
    /\ work' = work
    /\ Result(a, 0)

AbstractNext ==
    \/ Release
    \/ \E a \in Assets : Take(a) \/ Publish(a) \/ PublishOwn(a)

AbstractSpec == AbstractInit /\ [][AbstractNext]_avars
=============================================================================
