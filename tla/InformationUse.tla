--------------------------- MODULE InformationUse ---------------------------
(***************************************************************************)
(* The Python component an agent's host uses to work on a task with        *)
(* Ownward: EvidenceToolSession (short references, grouped reads, offered  *)
(* tools) under UseSession (quick and deep runs, checkpoint, restore).     *)
(*                                                                         *)
(* One thread runs a session.  Every call of the host or of the model is   *)
(* a step in which the sources may have changed, and which may raise.      *)
(*                                                                         *)
(* A basis is a source with the revision that was read.  An entry of the   *)
(* trace keeps the references and the bases of a result.  The members of   *)
(* Slots are the identities of the entries: Python's id(e), which _recheck *)
(* uses.  As many entries fit as there are slots; more exceed max_bytes.   *)
(* The items of a grouped read are kept as single reads, which is what     *)
(* _recheck makes of them.                                                 *)
(***************************************************************************)
EXTENDS Naturals, Sequences, FiniteSets, Functions

CONSTANTS
    Sources,    \* information sources
    Slots,      \* room of the trace: max_bytes
    MaxRev,     \* bound: revisions of a source
    MaxCalls,   \* the host's max_tool_calls
    MaxReads,   \* the host's read_limit
    Batch,      \* bases in one ownward_check: 64
    Seeds,      \* results read by initial_context: 3
    MaxWork,    \* bound: calls, attempts, checkpoints, restores, notes, changes
    None

ASSUME UseAssumption ==
    /\ MaxRev \in Nat \ {0} /\ MaxCalls \in Nat /\ MaxReads \in Nat
    /\ Batch \in Nat \ {0} /\ Seeds \in Nat /\ MaxWork \in Nat
    /\ IsFiniteSet(Sources) /\ IsFiniteSet(Slots)
    /\ None \notin Sources /\ Sources \cap Nat = {}

VARIABLES
    rev,        \* per source its current revision, 0 once it is revoked
    usage,      \* the host's counters: calls, and reads that succeeded
    offered,    \* dynamic_tools
    forward,    \* per source the number of its short reference, 0 for none
    session,    \* the fields of UseSession
    saved,      \* the checkpoint the host keeps, or None
    at,         \* where run is, "idle" outside it
    job,        \* the locals of run and of the call in progress
    spent,      \* work so far: only for the bound
    past,       \* history of the task: tools used, bases ever kept
    fresh       \* history: what was obtained or confirmed since the last
                \* delivery or restore

vars == <<rev, usage, offered, forward, session, saved, at, job, spent, past, fresh>>

Basis == Sources \X (1..MaxRev)
Refs == 1..Cardinality(Sources)
Tools == {"search", "check", "read", "read_many"}
Entry == [tool : {"search", "read"}, refs : SUBSET (Refs \cup Sources), bases : SUBSET Basis]
Trace == [Slots -> Entry \cup {None}]

\* An empty slot is no entry.
ASSUME NoneAssumption == None \notin Entry

Usage == [calls : 0..MaxCalls, reads : 0..MaxReads]
Session == [frame : BOOLEAN, trace : Trace, notes : SUBSET Basis, pending : SUBSET Basis,
            started : BOOLEAN, needs_check : BOOLEAN, unknown : BOOLEAN]
Past == [tried : BOOLEAN, kept : SUBSET Basis]
Job == [deep : BOOLEAN, was_started : BOOLEAN, todo : SUBSET (Refs \cup Sources \cup Slots),
        valid : SUBSET Slots, pending : SUBSET Basis, got : SUBSET Entry,
        back : {"idle", "deliver"}]

TypeOK ==
    /\ rev \in [Sources -> 0..MaxRev]
    /\ usage \in Usage
    /\ offered \in SUBSET Tools
    /\ forward \in [Sources -> 0..Cardinality(Sources)]
    /\ session \in Session
    /\ saved \in [session : Session, usage : Usage, past : Past] \cup {None}
    /\ at \in {"idle", "check", "prepare", "seed", "leads", "deliver", "many"}
    /\ job \in Job
    /\ spent \in 0..MaxWork
    /\ past \in Past
    /\ fresh \in SUBSET ({"search", "read"} \X Basis)

-----------------------------------------------------------------------------
(* The sources and the guarded host: external.                             *)

Current(s) == <<s, rev[s]>>
Available == {s \in Sources : rev[s] # 0}
CanCall(u) == u.calls < MaxCalls
CanRead(u) == CanCall(u) /\ u.reads < MaxReads
Counted(u) == IF CanCall(u) THEN [u EXCEPT !.calls = @ + 1] ELSE u

\* What the host answers for a basis when it answers: the truth of the moment.
Status(b) == CASE rev[b[1]] = b[2] -> "unchanged"
               [] rev[b[1]] = 0 -> "unavailable"
               [] OTHER -> "changed"

\* What may be repeated without end counts against the bound MaxWork.
Spend == spent < MaxWork /\ spent' = spent + 1

\* Rankings a search may return.
Rankings == {q \in UNION {[1..n -> Available] : n \in 0..Cardinality(Available)} : IsInjective(q)}

Change(s) ==
    /\ rev[s] \in 1..(MaxRev - 1)
    /\ rev' = [rev EXCEPT ![s] = @ + 1]
    /\ Spend
    /\ UNCHANGED <<usage, offered, forward, session, saved, at, job, past, fresh>>

Revoke(s) ==
    /\ rev[s] # 0
    /\ rev' = [rev EXCEPT ![s] = 0]
    /\ Spend
    /\ UNCHANGED <<usage, offered, forward, session, saved, at, job, past, fresh>>

-----------------------------------------------------------------------------
(* EvidenceToolSession                                                     *)

\* refresh: full text only while reads are left; grouped reads with single ones.
Offer(u) ==
    {t \in Tools : CanCall(u) /\ (t \in {"read", "read_many"} => CanRead(u))}

\* Mutation of Numbered: the next number is one too high.
NumberedOff == 1 + Cardinality({s \in Sources : forward[s] # 0})

\* len(forward): the references given so far.
Numbered == Cardinality({s \in Sources : forward[s] # 0})

\* transform with encode: new sources are numbered on in the order of the result.
Encode(q) ==
    LET new == {i \in DOMAIN q : forward[q[i]] = 0}
    IN  [s \in Sources |->
            IF \E i \in new : q[i] = s
            THEN Numbered + Cardinality({i \in new : \E j \in new : q[j] = s /\ i <= j})
            ELSE forward[s]]

\* transform without encode: an unknown reference is passed on as it is.
Decode(ref) ==
    IF \E s \in Sources : forward[s] = ref
    THEN CHOOSE s \in Sources : forward[s] = ref
    ELSE ref

\* What an agent may name: the short references, and sources it knows otherwise.
Known == {forward[s] : s \in {t \in Sources : forward[t] # 0}}
         \cup {s \in Sources : forward[s] = 0}

\* Mutation of SingleFails: the tools are not refreshed when the call raises.
SingleFailsNoRefresh ==
    /\ usage' = Counted(usage)
    /\ Spend
    /\ UNCHANGED <<offered, forward>>

\* _single when the host raises, because it refuses or because the call fails.
SingleFails ==
    /\ usage' = Counted(usage)
    /\ Spend
    /\ offered' = Offer(usage')
    /\ UNCHANGED forward

\* _single for a search with result q, and for a read.
SingleSearch(q) ==
    /\ CanCall(usage)
    /\ usage' = Counted(usage)
    /\ forward' = Encode(q)
    /\ Spend
    /\ offered' = Offer(usage')

SingleRead(ref) ==
    /\ CanRead(usage)
    /\ Decode(ref) \in Available
    /\ usage' = [Counted(usage) EXCEPT !.reads = @ + 1]
    /\ forward' = Encode(<<Decode(ref)>>)
    /\ Spend
    /\ offered' = Offer(usage')

ReadEntry(ref) == [tool |-> "read", refs |-> {ref}, bases |-> {Current(Decode(ref))}]

\* Mutation of ResetAttempt: the short references are numbered anew.
ResetAttemptForgets ==
    /\ at = "idle"
    /\ usage' = [calls |-> 0, reads |-> 0]
    /\ offered' = Offer(usage')
    /\ forward' = [s \in Sources |-> 0]
    /\ Spend
    /\ UNCHANGED <<rev, session, saved, at, job, past, fresh>>

\* reset_attempt: a new attempt of the host has its whole budget.
ResetAttempt ==
    /\ at = "idle"
    /\ usage' = [calls |-> 0, reads |-> 0]
    /\ offered' = Offer(usage')
    /\ Spend
    /\ UNCHANGED <<rev, forward, session, saved, at, job, past, fresh>>

-----------------------------------------------------------------------------
(* UseSession: state, tools, checkpoint and restore                        *)

Idle == [deep |-> FALSE, was_started |-> FALSE, todo |-> {}, valid |-> {}, pending |-> {},
         got |-> {}, back |-> "idle"]

NewSession == [frame |-> FALSE, trace |-> [o \in Slots |-> None], notes |-> {}, pending |-> {},
               started |-> FALSE, needs_check |-> FALSE, unknown |-> FALSE]

Init ==
    /\ rev = [s \in Sources |-> 1]
    /\ usage = [calls |-> 0, reads |-> 0]
    /\ offered = Offer(usage)
    /\ forward = [s \in Sources |-> 0]
    /\ session = NewSession
    /\ saved = None
    /\ at = "idle"
    /\ job = Idle
    /\ spent = 0
    /\ past = [tried |-> FALSE, kept |-> {}]
    /\ fresh = {}

Used(trace) == {o \in Slots : trace[o] # None}
Reads(trace) == {o \in Used(trace) : trace[o].tool = "read"}
Bases(trace) == UNION {trace[o].bases : o \in Reads(trace)}

\* Each new entry gets a slot of its own.
Appended(trace, entries) ==
    LET places == {s \in SUBSET (Slots \ Used(trace)) : Cardinality(s) = Cardinality(entries)}
    IN  {[o \in Slots |-> IF o \in DOMAIN put THEN put[o] ELSE trace[o]] :
            put \in UNION {Bijection(s, entries) : s \in places}}

\* call after the host has answered: the result is kept, or is lost because the
\* trace would exceed the limit.
Keep(entries) ==
    /\ session' \in {[session EXCEPT !.started = TRUE, !.trace = t] :
                        t \in Appended(session.trace, entries)}
    /\ past' = [tried |-> TRUE,
                kept |-> past.kept \cup UNION {e.bases : e \in {f \in entries : f.tool = "read"}}]
    /\ fresh' = fresh \cup UNION {{e.tool} \X e.bases : e \in entries}

Lose(entries) ==
    /\ Cardinality(entries) > Cardinality(Slots \ Used(session.trace))
    /\ session' = [session EXCEPT !.started = TRUE]
    /\ past' = [past EXCEPT !.tried = TRUE]
    /\ UNCHANGED fresh

\* Mutation of CallRaises: only a call that succeeds starts the session.
CallRaisesUnstarted ==
    /\ session' = [session EXCEPT !.unknown = TRUE]
    /\ past' = [past EXCEPT !.tried = TRUE]
    /\ UNCHANGED fresh

\* call when the host raises.
CallRaises ==
    /\ session' = [session EXCEPT !.started = TRUE, !.unknown = TRUE]
    /\ past' = [past EXCEPT !.tried = TRUE]
    /\ UNCHANGED fresh

SearchEntry(q) == [tool |-> "search", refs |-> {Encode(q)[q[i]] : i \in DOMAIN q},
                   bases |-> {Current(q[i]) : i \in DOMAIN q}]

\* The agent's tool loop, inside a delivery or before it.
Calling == at \in {"idle", "deliver"}

Search(q) ==
    /\ Calling
    /\ SingleSearch(q)
    /\ Keep({SearchEntry(q)}) \/ Lose({SearchEntry(q)})
    /\ UNCHANGED <<rev, saved, at, job>>

Read(ref) ==
    /\ Calling
    /\ SingleRead(ref)
    /\ Keep({ReadEntry(ref)}) \/ Lose({ReadEntry(ref)})
    /\ UNCHANGED <<rev, saved, at, job>>

CallFails ==
    /\ Calling
    /\ SingleFails
    /\ CallRaises
    /\ UNCHANGED <<rev, saved, at, job>>

\* ownward_evidence_read_many: one read after the other; a failing one is an
\* error in the result and does not raise.
ReadMany(refs) ==
    /\ Calling
    /\ refs # {} /\ Cardinality(refs) <= MaxReads
    /\ session' = [session EXCEPT !.started = TRUE]
    /\ at' = "many"
    /\ job' = [job EXCEPT !.todo = refs, !.got = {}, !.back = at]
    /\ past' = [past EXCEPT !.tried = TRUE]
    /\ Spend
    /\ UNCHANGED <<rev, usage, offered, forward, saved, fresh>>

ManyRead(ref) ==
    /\ at = "many" /\ ref \in job.todo
    /\ SingleRead(ref)
    /\ job' = [job EXCEPT !.todo = @ \ {ref}, !.got = @ \cup {ReadEntry(ref)}]
    /\ UNCHANGED <<rev, session, saved, at, past, fresh>>

ManyError(ref) ==
    /\ at = "many" /\ ref \in job.todo
    /\ SingleFails
    /\ job' = [job EXCEPT !.todo = @ \ {ref}]
    /\ UNCHANGED <<rev, session, saved, at, past, fresh>>

ManyDone ==
    /\ at = "many" /\ job.todo = {}
    /\ Keep(job.got) \/ Lose(job.got)
    /\ at' = job.back
    /\ job' = [job EXCEPT !.got = {}, !.back = "idle"]
    /\ UNCHANGED <<rev, usage, offered, forward, saved, spent>>

\* The agent writes down what it concludes from all it has read.
WriteNotes ==
    /\ Calling
    /\ session' = [session EXCEPT !.notes = Bases(session.trace)]
    /\ Spend
    /\ UNCHANGED <<rev, usage, offered, forward, saved, at, job, past, fresh>>

\* checkpoint: needs_check is not part of it.
Checkpoint ==
    /\ saved' = [session |-> [session EXCEPT !.needs_check = FALSE], usage |-> usage, past |-> past]
    /\ Spend
    /\ UNCHANGED <<rev, usage, offered, forward, session, at, job, past, fresh>>

\* The fields restore sets.
Restored == [saved.session EXCEPT !.needs_check = TRUE]

\* restore into a new session on the same tool session, at any moment: the one
\* before was interrupted.
Restore ==
    /\ saved # None
    /\ usage' = saved.usage
    /\ offered' = Offer(usage')
    /\ session' = Restored
    /\ at' = "idle"
    /\ job' = Idle
    /\ past' = saved.past
    /\ fresh' = {}
    /\ Spend
    /\ UNCHANGED <<rev, forward, saved>>

-----------------------------------------------------------------------------
(* UseSession: run                                                         *)

\* run up to _recheck; was_started is remembered from here.
Run(deep) ==
    /\ at = "idle"
    /\ job' = [Idle EXCEPT !.deep = deep, !.was_started = session.started,
                           !.todo = IF session.needs_check THEN Reads(session.trace) ELSE {},
                           !.pending = session.pending]
    /\ at' = IF session.needs_check THEN "check" ELSE "prepare"
    /\ UNCHANGED <<rev, usage, offered, forward, session, saved, past, fresh, spent>>

BasisOf(o) == CHOOSE b \in session.trace[o].bases : TRUE

\* The answers of the host to one ownward_check: at each place the truth about a
\* basis that was asked for, perhaps not this one, or nothing usable.  It raises
\* when the budget is used up or the call fails: nothing at every place.
Answers(batch) ==
    IF CanCall(usage)
    THEN [batch -> {[basis |-> b, status |-> Status(b)] : b \in {BasisOf(o) : o \in batch}} \cup {None}]
    ELSE {[o \in batch |-> None]}

\* Mutation of Verdict: an answer is taken by its place alone.
VerdictByPlace(o, answer) ==
    IF answer[o] # None THEN answer[o].status ELSE "unverifiable"

\* check_materials for one material: only an answer about its own basis counts.
Verdict(o, answer) ==
    IF answer[o] # None /\ answer[o].basis = BasisOf(o) THEN answer[o].status ELSE "unverifiable"

\* One batch of check_materials.  Of two checks of one basis the later counts
\* for pending.
CheckBatch(batch, answer) ==
    LET good == {o \in batch : Verdict(o, answer) = "unchanged"}
        same == {BasisOf(o) : o \in good}
        other == {BasisOf(o) : o \in batch \ good}
    IN  /\ at = "check"
        /\ job' \in {[job EXCEPT !.todo = @ \ batch, !.valid = @ \cup good, !.pending = p] :
                        p \in {(job.pending \ same) \cup other, (job.pending \cup other) \ same}}
        /\ usage' = Counted(usage)
        /\ Spend
        /\ offered' = Offer(usage')
        /\ fresh' = fresh \cup {<<"read", b>> : b \in {c \in {BasisOf(o) : o \in batch} :
                        \E o \in batch : answer[o] = [basis |-> c, status |-> "unchanged"]}}
        /\ UNCHANGED <<rev, forward, session, saved, at, past>>

Batches == {b \in SUBSET job.todo : Cardinality(b) = IF Cardinality(job.todo) < Batch
                                                     THEN Cardinality(job.todo) ELSE Batch}

\* Mutation of KeptNotes: notes go only when nothing was read.
KeptNotesAnyway == IF Reads(session.trace) = {} THEN {} ELSE session.notes

\* Notes stay only if there are reads and all of them are unchanged.
KeptNotes == IF job.valid # Reads(session.trace) \/ job.valid = {} THEN {} ELSE session.notes

\* Mutation of KeptPending: only this check's failures stay pending.
KeptPendingOfCheck == job.pending \cap Bases(session.trace)

\* Earlier failures stay pending next to the ones of this check.
KeptPending == job.pending

\* What _recheck leaves: the reads that are unchanged, and no search results.
Confirmed ==
    [session EXCEPT
        !.trace = [o \in Slots |-> IF o \in job.valid THEN session.trace[o] ELSE None],
        !.pending = KeptPending,
        !.notes = KeptNotes,
        !.needs_check = FALSE]

CheckDone ==
    /\ at = "check" /\ job.todo = {}
    /\ session' = Confirmed
    /\ at' = "prepare"
    /\ job' = [job EXCEPT !.valid = {}, !.pending = {}]
    /\ UNCHANGED <<rev, usage, offered, forward, saved, past, fresh, spent>>

NeedsFrame == job.deep /\ ~session.frame
NeedsSeed == job.deep /\ ~job.was_started

\* run leaves with an exception before the delivery: needs_check stays as it is.
Leave ==
    /\ at' = "idle"
    /\ job' = Idle

\* The task-basis stage.
PrepareFrame ==
    /\ at = "prepare" /\ NeedsFrame
    /\ session' = [session EXCEPT !.frame = TRUE]
    /\ UNCHANGED <<rev, usage, offered, forward, saved, at, job, past, fresh, spent>>

PrepareFails ==
    /\ at = "prepare" /\ NeedsFrame
    /\ Leave
    /\ UNCHANGED <<rev, usage, offered, forward, session, saved, past, fresh, spent>>

\* A session counts as started before its first retrieval.
SeedBegin ==
    /\ at = "prepare" /\ ~NeedsFrame /\ NeedsSeed
    /\ session' = [session EXCEPT !.started = TRUE]
    /\ at' = "seed"
    /\ UNCHANGED <<rev, usage, offered, forward, saved, job, past, fresh, spent>>

\* initial_context: a search, whose failure ends the run ...
SeedSearch(q) ==
    /\ at = "seed"
    /\ SingleSearch(q)
    /\ \/ /\ Keep({SearchEntry(q)})
          /\ at' = "leads"
          /\ job' \in {[job EXCEPT !.todo = refs] :
                refs \in SUBSET {Encode(q)[q[i]] : i \in {j \in DOMAIN q : j <= Seeds}}}
       \/ Lose({SearchEntry(q)}) /\ Leave
    /\ UNCHANGED <<rev, saved>>

SeedSearchFails ==
    /\ at = "seed"
    /\ SingleFails
    /\ CallRaises
    /\ Leave
    /\ UNCHANGED <<rev, saved>>

\* ... and a read of the first evidence of the first results that have one, whose
\* failures are caught.
SeedRead(ref) ==
    /\ at = "leads" /\ ref \in job.todo
    /\ SingleRead(ref)
    /\ Keep({ReadEntry(ref)}) \/ Lose({ReadEntry(ref)})
    /\ job' = [job EXCEPT !.todo = @ \ {ref}]
    /\ UNCHANGED <<rev, saved, at>>

SeedReadFails(ref) ==
    /\ at = "leads" /\ ref \in job.todo
    /\ SingleFails
    /\ CallRaises
    /\ job' = [job EXCEPT !.todo = @ \ {ref}]
    /\ UNCHANGED <<rev, saved, at>>

Ready == (at = "leads" /\ job.todo = {}) \/ (at = "prepare" /\ ~NeedsFrame /\ ~NeedsSeed)

\* The respond stage receives trace, notes, pending and usage.
Deliver ==
    /\ Ready
    /\ session' = [session EXCEPT !.started = TRUE]
    /\ at' = "deliver"
    /\ job' = Idle
    /\ UNCHANGED <<rev, usage, offered, forward, saved, past, fresh, spent>>

\* The host's report, or the frame, is not usable: raised before the try.
DeliverRaises ==
    /\ Ready
    /\ session' = [session EXCEPT !.started = TRUE]
    /\ Leave
    /\ UNCHANGED <<rev, usage, offered, forward, saved, past, fresh, spent>>

\* finally: what the delivery used has to be checked before it is used again.
Finish ==
    /\ session' = [session EXCEPT !.started = TRUE, !.needs_check = TRUE]
    /\ fresh' = {}

\* The payload exceeds the limit: raised inside the try.
DeliverTooLarge ==
    /\ Ready
    /\ Finish
    /\ Leave
    /\ UNCHANGED <<rev, usage, offered, forward, saved, past, spent>>

\* invoke returns an answer, or raises, or finish rejects the answer.
Delivered ==
    /\ at = "deliver"
    /\ Finish
    /\ Leave
    /\ UNCHANGED <<rev, usage, offered, forward, saved, past, spent>>

-----------------------------------------------------------------------------
Environment == \E s \in Sources : Change(s) \/ Revoke(s)

HostSteps == Checkpoint \/ Restore \/ ResetAttempt

AgentSteps ==
    \/ \E q \in Rankings : Search(q)
    \/ \E ref \in Known : Read(ref)
    \/ CallFails
    \/ \E refs \in SUBSET Known : ReadMany(refs)
    \/ \E ref \in job.todo : ManyRead(ref) \/ ManyError(ref)
    \/ ManyDone
    \/ WriteNotes

RunSteps ==
    \/ \E deep \in BOOLEAN : Run(deep)
    \/ at = "check" /\ \E batch \in Batches \ {{}} : \E answer \in Answers(batch) : CheckBatch(batch, answer)
    \/ CheckDone
    \/ PrepareFrame \/ PrepareFails
    \/ SeedBegin
    \/ \E q \in Rankings : SeedSearch(q)
    \/ SeedSearchFails
    \/ \E ref \in job.todo : SeedRead(ref) \/ SeedReadFails(ref)
    \/ Deliver \/ DeliverRaises \/ DeliverTooLarge \/ Delivered

Next == Environment \/ HostSteps \/ AgentSteps \/ RunSteps

Spec == Init /\ [][Next]_vars

-----------------------------------------------------------------------------
(* Properties                                                              *)

\* The initial retrieval of a task is made once, and only before any other tool
\* was used for it, over failed runs, changes of path and restores (run, 359-367;
\* test_failed_initial_retrieval_is_not_silently_replayed).
SeedFirst == [][at # "seed" /\ at' = "seed" => ~past.tried]_vars

\* What a delivery is given was obtained, or found unchanged by a check of that
\* very basis, after the last delivery and the last restore; search results are
\* not carried over at all (_recheck, 310-338).
EvidenceConfirmed ==
    at = "deliver" => \A o \in Used(session.trace) :
        {session.trace[o].tool} \X session.trace[o].bases \subseteq fresh

\* Notes never outlive a read they rest on, in the session or in a checkpoint
\* (_recheck, 336; test_changed_or_revoked_material_and_dependent_notes_not_reused).
NotesFollowEvidence ==
    /\ session.notes \subseteq Bases(session.trace)
    /\ saved # None => saved.session.notes \subseteq Bases(saved.session.trace)

\* A read does not vanish from a task: it is still in the trace or is named as
\* pending (_recheck, 329-335).
LostEvidenceIsNamed ==
    past.kept \subseteq Bases(session.trace) \cup session.pending

\* The agent is offered the tools its budget allows, also after calls that
\* failed, a restore and a new attempt (refresh, 60-66).
ToolsMatchBudget == offered = Offer(usage)

\* A short reference in the trace or in a checkpoint still leads to the source
\* the entry was read from (transform, 45-58; reset_attempt, 90-93).
ReferencesKeepMeaning ==
    LET Holds(trace) == \A o \in Used(trace) :
            {Decode(ref) : ref \in trace[o].refs} = {b[1] : b \in trace[o].bases}
    IN  Holds(session.trace) /\ (saved # None => Holds(saved.session.trace))
=============================================================================
