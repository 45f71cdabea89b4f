------------------------ MODULE InformationUseProofs ------------------------
(***************************************************************************)
(* The safety of the portable information-use component, for any sources,  *)
(* any room in the trace and any budget.  The short references come first: *)
(* numbering on never gives a number twice, which is a fact about counting *)
(* (EncodeNumbers).                                                        *)
(***************************************************************************)
EXTENDS InformationUse, FiniteSetTheorems, TLAPS

-----------------------------------------------------------------------------
(* Short references.                                                       *)

\* No two sources have one number, and none is larger than the count of numbers given.
Numbers ==
    /\ forward \in [Sources -> Nat]
    /\ \A s \in Sources : forward[s] <= Numbered
    /\ \A s, t \in Sources : forward[s] = forward[t] /\ forward[s] # 0 => s = t

\* What has a number keeps it.
NumbersKept == \A s \in Sources : forward[s] # 0 => forward'[s] = forward[s]

\* transform numbers the new sources of a result on from the count of the old ones.
LEMMA EncodeNumbers ==
    ASSUME Numbers, NEW n \in Nat, NEW q \in [1..n -> Sources], IsInjective(q),
           forward' = Encode(q)
    PROVE  Numbers' /\ NumbersKept /\ \A i \in 1..n : forward'[q[i]] # 0
<1> DEFINE N == {s \in Sources : forward[s] # 0}
           new == {i \in 1..n : forward[q[i]] = 0}
           upto(j) == {i \in new : i <= j}
           C(j) == Cardinality(upto(j))
           M == {s \in Sources : forward'[s] # 0}
<1>1. IsFiniteSet(N) /\ Numbered = Cardinality(N) /\ Numbered \in Nat
  BY UseAssumption, FS_Subset, FS_CardinalityType DEF Numbered
<1>2. ASSUME NEW j \in new
      PROVE  IsFiniteSet(upto(j)) /\ C(j) \in Nat /\ C(j) # 0
  <2>1. IsFiniteSet(1..n) /\ upto(j) \in SUBSET (1..n) /\ j \in upto(j)
    BY FS_Interval
  <2>2. IsFiniteSet(upto(j))
    BY <2>1, FS_Subset
  <2> QED BY <2>1, <2>2, FS_CardinalityType, FS_EmptySet
<1>3. ASSUME NEW j \in new PROVE forward'[q[j]] = Numbered + C(j)
  <2>1. {i \in new : \E k \in new : q[k] = q[j] /\ i <= k} = upto(j)
    BY DEF IsInjective
  <2>2. DOMAIN q = 1..n
    OBVIOUS
  <2> QED BY <2>1, <2>2 DEF Encode
<1>4. ASSUME NEW s \in Sources, \A j \in new : q[j] # s PROVE forward'[s] = forward[s]
  BY <1>4 DEF Encode
<1>5. ASSUME NEW i \in new, NEW j \in new, i < j
      PROVE  C(i) < C(j)
  <2>1. upto(i) \in SUBSET upto(j) /\ j \in upto(j) /\ j \notin upto(i)
    BY <1>5
  <2>2. C(i) <= C(j) /\ (C(j) = C(i) => upto(j) = upto(i))
    BY <1>2, <2>1, FS_Subset
  <2>3. C(i) \in Nat /\ C(j) \in Nat
    BY <1>2
  <2> HIDE DEF upto, C
  <2> QED BY <2>1, <2>2, <2>3
<1>6. NumbersKept
  BY <1>4 DEF NumbersKept
<1> HIDE DEF upto, C
<1>7. \A i \in 1..n : forward'[q[i]] # 0
  <2> SUFFICES ASSUME NEW i \in 1..n PROVE forward'[q[i]] # 0
    OBVIOUS
  <2>1. CASE i \in new
    <3>1. forward'[q[i]] = Numbered + C(i) /\ C(i) \in Nat /\ C(i) # 0
      BY <1>2, <1>3, <2>1
    <3> QED BY <1>1, <3>1
  <2>2. CASE i \notin new
    BY <1>6, <2>2 DEF NumbersKept
  <2> QED BY <2>1, <2>2
<1>8. IsFiniteSet(M) /\ Numbered' = Cardinality(M) /\ Numbered' \in Nat
  BY UseAssumption, FS_Subset, FS_CardinalityType DEF Numbered
<1>9. Numbered <= Numbered'
  BY <1>1, <1>6, <1>8, FS_Subset DEF NumbersKept
<1>10. ASSUME NEW j \in new PROVE Numbered + C(j) <= Numbered'
  <2> DEFINE Q == {q[i] : i \in upto(j)}
             f == [i \in upto(j) |-> q[i]]
  <2> USE DEF upto, C
  <2>1. f \in Bijection(upto(j), Q)
    BY DEF Bijection, Injection, Surjection, IsInjective
  <2>2. IsFiniteSet(Q) /\ Cardinality(Q) = C(j)
    BY <1>2, <2>1, FS_Bijection DEF ExistsBijection
  <2>3. N \cap Q = {} /\ N \cup Q \in SUBSET M
    BY <1>6, <1>7 DEF NumbersKept
  <2> HIDE DEF upto, C, N, Q, M
  <2>4. Cardinality(N \cup Q) = Cardinality(N) + Cardinality(Q)
    <3>1. Cardinality(N \cup Q) = Cardinality(N) + Cardinality(Q) - Cardinality(N \cap Q)
      BY <1>1, <2>2, FS_Union
    <3>2. Cardinality(N \cap Q) = 0
      BY <2>3, FS_EmptySet
    <3>3. Cardinality(N) \in Nat /\ Cardinality(Q) \in Nat
      BY <1>1, <2>2, FS_CardinalityType
    <3> QED BY <3>1, <3>2, <3>3
  <2>5. Cardinality(N \cup Q) <= Cardinality(M)
    BY <1>8, <2>3, FS_Subset
  <2> QED BY <1>1, <1>8, <2>2, <2>4, <2>5
<1>11. forward' \in [Sources -> Nat]
  <2>1. \A s \in Sources : forward'[s] \in Nat
    BY <1>1, <1>2, <1>3, <1>4 DEF Numbers
  <2> QED BY <2>1 DEF Encode
<1>12. ASSUME NEW s \in Sources PROVE forward'[s] <= Numbered'
  <2>1. CASE \E j \in new : q[j] = s
    BY <1>3, <1>10, <2>1
  <2>2. CASE \A j \in new : q[j] # s
    <3>1. forward'[s] = forward[s] /\ forward[s] <= Numbered /\ forward[s] \in Nat
      BY <1>4, <2>2 DEF Numbers
    <3> QED BY <1>1, <1>8, <1>9, <3>1
  <2> QED BY <2>1, <2>2
<1>13. ASSUME NEW s \in Sources, NEW t \in Sources, forward'[s] = forward'[t], forward'[s] # 0
       PROVE  s = t
  <2>1. CASE \E i, j \in new : q[i] = s /\ q[j] = t
    <3>1. PICK i \in new, j \in new : q[i] = s /\ q[j] = t
      BY <2>1
    <3>2. C(i) \in Nat /\ C(j) \in Nat /\ Numbered + C(i) = Numbered + C(j)
      BY <1>2, <1>3, <1>13, <3>1
    <3>3. ~(C(i) < C(j)) /\ ~(C(j) < C(i))
      BY <1>1, <3>2
    <3>4. ~(i < j) /\ ~(j < i) /\ i \in Nat /\ j \in Nat
      BY <1>5, <3>3
    <3> QED BY <3>1, <3>4
  <2>2. CASE (\A i \in new : q[i] # s) /\ (\A i \in new : q[i] # t)
    BY <1>4, <1>13, <2>2 DEF Numbers
  <2>3. ASSUME NEW x \in Sources, NEW y \in Sources, NEW i \in new, q[i] = x,
               \A j \in new : q[j] # y, forward'[x] = forward'[y]
        PROVE  FALSE
    <3>1. forward'[x] = Numbered + C(i) /\ C(i) \in Nat /\ C(i) # 0
      BY <1>2, <1>3, <2>3
    <3>2. forward'[y] = forward[y] /\ forward[y] <= Numbered /\ forward[y] \in Nat
      BY <1>4, <2>3 DEF Numbers
    <3>3. Numbered + C(i) <= Numbered /\ Numbered \in Nat
      BY <1>1, <2>3, <3>1, <3>2
    <3> QED BY <3>1, <3>3
  <2> QED BY <1>13, <2>1, <2>2, <2>3
<1> QED BY <1>6, <1>7, <1>11, <1>12, <1>13 DEF Numbers

\* A ranking is a sequence of different available sources.
LEMMA RankingIs ==
    ASSUME NEW q \in Rankings
    PROVE  /\ IsInjective(q)
           /\ \E n \in Nat : q \in [1..n -> Available]
  BY DEF Rankings

\* References are numbered by searches and reads only; what has a number keeps it.
LEMMA NumbersStep == Numbers /\ [Next]_vars => Numbers' /\ NumbersKept
<1> SUFFICES ASSUME Numbers, [Next]_vars PROVE Numbers' /\ NumbersKept
  OBVIOUS
<1>1. ASSUME NEW q \in Rankings, SingleSearch(q) PROVE Numbers' /\ NumbersKept
  <2>1. PICK n \in Nat : q \in [1..n -> Available]
    BY RankingIs
  <2>2. q \in [1..n -> Sources] /\ IsInjective(q)
    BY <2>1, RankingIs DEF Available
  <2> QED BY <1>1, <2>2, EncodeNumbers DEF SingleSearch
<1>2. ASSUME NEW ref, SingleRead(ref) PROVE Numbers' /\ NumbersKept
  <2> DEFINE q == <<Decode(ref)>>
  <2>1. q \in [1..1 -> Sources] /\ IsInjective(q) /\ forward' = Encode(q)
    BY <1>2 DEF SingleRead, Available, IsInjective
  <2> HIDE DEF q
  <2> QED BY <2>1, EncodeNumbers
<1>3. CASE UNCHANGED forward
  BY <1>3 DEF Numbers, NumbersKept, Numbered
<1> QED
  BY <1>1, <1>2, <1>3 DEF Next, vars, Environment, Change, Revoke, HostSteps, Checkpoint, Restore,
     ResetAttempt, AgentSteps, Search, Read, CallFails, SingleFails, ReadMany, ManyRead, ManyError,
     ManyDone, WriteNotes, RunSteps, Run, CheckBatch, CheckDone, PrepareFrame, PrepareFails,
     SeedBegin, SeedSearch, SeedSearchFails, SeedRead, SeedReadFails, Deliver, DeliverRaises,
     DeliverTooLarge, Delivered

\* The numbers are those of sources.
LEMMA NumbersBound ==
    Numbers => /\ forward \in [Sources -> 0..Cardinality(Sources)]
               /\ \A s \in Sources : forward[s] # 0 => forward[s] \in Refs
<1>1. Numbered <= Cardinality(Sources) /\ Numbered \in Nat /\ Cardinality(Sources) \in Nat
  BY UseAssumption, FS_Subset, FS_CardinalityType DEF Numbered
<1> QED BY <1>1 DEF Numbers, Refs

\* A reference that leads to a source goes on leading to it.
LEMMA DecodeKept ==
    ASSUME Numbers, Numbers', NumbersKept, NEW ref \in Refs \cup Sources, Decode(ref) \in Sources
    PROVE  Decode(ref)' = Decode(ref)
<1>1. ref # 0
  BY UseAssumption DEF Refs
<1>2. CASE \E s \in Sources : forward[s] = ref
  <2>1. PICK s \in Sources : forward[s] = ref
    BY <1>2
  <2>2. \A t \in Sources : forward[t] = ref <=> t = s
    BY <1>1, <2>1 DEF Numbers
  <2>3. \A t \in Sources : forward'[t] = ref <=> t = s
    BY <1>1, <2>1 DEF Numbers, NumbersKept
  <2>4. Decode(ref) = s
    BY <2>2 DEF Decode
  <2>5. Decode(ref)' = s
    BY <2>3 DEF Decode
  <2> QED BY <2>4, <2>5
<1>3. CASE ~\E s \in Sources : forward[s] = ref
  <2>1. ref \in Sources /\ Decode(ref) = ref
    BY <1>3 DEF Decode
  <2>2. ~\E s \in Sources : forward'[s] = ref
    BY <2>1, UseAssumption DEF Numbers
  <2> QED BY <2>1, <2>2 DEF Decode
<1> QED BY <1>2, <1>3

-----------------------------------------------------------------------------
(* The trace.                                                              *)

\* Appending fills empty slots, with each of the entries, and changes no other.
LEMMA AppendedTrace ==
    ASSUME NEW trace \in Trace, NEW entries \in SUBSET Entry, NEW t \in Appended(trace, entries)
    PROVE  /\ t \in Trace
           /\ \A o \in Slots : trace[o] # None => t[o] = trace[o]
           /\ \A o \in Slots : trace[o] = None => t[o] \in entries \cup {None}
           /\ \A e \in entries : \E o \in Slots : t[o] = e
<1>0. PICK places \in SUBSET (Slots \ Used(trace)) : \E put \in Bijection(places, entries) :
        t = [o \in Slots |-> IF o \in DOMAIN put THEN put[o] ELSE trace[o]]
  BY DEF Appended
<1>1. PICK put \in Bijection(places, entries) :
        t = [o \in Slots |-> IF o \in DOMAIN put THEN put[o] ELSE trace[o]]
  BY <1>0
<1>2. /\ DOMAIN put = places /\ \A o \in places : put[o] \in entries
      /\ \A e \in entries : \E o \in places : put[o] = e
  BY DEF Bijection, Injection, Surjection
<1>3. \A o \in places : o \in Slots /\ trace[o] = None
  BY DEF Used
<1> HIDE DEF Entry
<1> QED BY <1>1, <1>2, <1>3 DEF Trace

\* The bases of the reads among some entries.
ReadBases(entries) == UNION {e.bases : e \in {f \in entries : f.tool = "read"}}

\* The bases of a trace are those of its entries that are reads.
LEMMA AppendedBases ==
    ASSUME NEW trace \in Trace, NEW entries \in SUBSET Entry, NEW t \in Appended(trace, entries)
    PROVE  Bases(t) = Bases(trace) \cup ReadBases(entries)
<1>1. /\ \A o \in Slots : trace[o] # None => t[o] = trace[o]
      /\ \A o \in Slots : trace[o] = None => t[o] \in entries \cup {None}
      /\ \A e \in entries : (\E o \in Slots : t[o] = e) /\ e # None
  BY AppendedTrace, NoneAssumption
<1>2. Bases(trace) \subseteq Bases(t)
  BY <1>1 DEF Bases, Reads, Used
<1>3. ReadBases(entries) \subseteq Bases(t)
  BY <1>1 DEF Bases, Reads, Used, ReadBases
<1>4. Bases(t) \subseteq Bases(trace) \cup ReadBases(entries)
  BY <1>1 DEF Bases, Reads, Used, ReadBases
<1> QED BY <1>2, <1>3, <1>4

-----------------------------------------------------------------------------
(* Types and shapes.                                                       *)

\* A read has one basis.
Single(e) == e.tool = "read" => \E b \in Basis : e.bases = {b}
Singles(trace) == \A o \in Used(trace) : Single(trace[o])

\* What the calls in progress work on: reads of the trace, or references.
Shape ==
    /\ Singles(session.trace) /\ (saved # None => Singles(saved.session.trace))
    /\ \A e \in job.got : Single(e)
    /\ at \in {"many", "leads"} => job.todo \subseteq Refs \cup Sources
    /\ at = "check" => job.todo \cup job.valid \subseteq Reads(session.trace)

TypeInv == TypeOK /\ Numbers /\ Shape

\* Counting a call keeps the counters within the budget.
LEMMA CountedType ==
    ASSUME NEW u \in Usage
    PROVE  Counted(u) \in Usage /\ (CanRead(u) => [Counted(u) EXCEPT !.reads = @ + 1] \in Usage)
  BY UseAssumption DEF Counted, CanCall, CanRead, Usage

\* Any call of the host leaves its counters, the tools and the references typed.
LEMMA CallTypes ==
    ASSUME TypeOK, \/ SingleFails \/ (\E q \in Rankings : SingleSearch(q))
                   \/ (\E ref \in Refs \cup Sources : SingleRead(ref))
    PROVE  usage' \in Usage /\ offered' \in SUBSET Tools /\ spent' \in 0..MaxWork
<1>1. usage' \in Usage
  BY CountedType DEF SingleFails, SingleSearch, SingleRead, TypeOK
<1>2. offered' = Offer(usage') /\ spent' = spent + 1 /\ spent < MaxWork
  BY DEF SingleFails, SingleSearch, SingleRead, Spend
<1>3. spent' \in 0..MaxWork
  BY <1>2, UseAssumption DEF TypeOK
<1> QED BY <1>1, <1>2, <1>3 DEF Offer

\* A result that is kept, or lost, leaves the session and the history typed.
LEMMA ResultTypes ==
    ASSUME TypeOK, NEW entries \in SUBSET Entry, Keep(entries) \/ Lose(entries)
    PROVE  /\ session' \in Session /\ past' \in Past
           /\ fresh' \in SUBSET ({"search", "read"} \X Basis)
<1>1. CASE Keep(entries)
  <2>1. PICK t \in Appended(session.trace, entries) :
          session' = [session EXCEPT !.started = TRUE, !.trace = t]
    BY <1>1 DEF Keep
  <2>2. session.trace \in Trace /\ session \in Session
    BY DEF TypeOK, Session
  <2>3. t \in Trace
    BY <2>2, AppendedTrace
  <2>4. session' \in Session
    BY <2>1, <2>2, <2>3 DEF Session
  <2>5. ReadBases(entries) \subseteq Basis
    BY DEF ReadBases, Entry
  <2>6. past' \in Past
    BY <1>1, <2>5 DEF Keep, Past, TypeOK, ReadBases
  <2>7. \A e \in entries : {e.tool} \X e.bases \subseteq {"search", "read"} \X Basis
    BY DEF Entry
  <2>8. UNION {{e.tool} \X e.bases : e \in entries} \subseteq {"search", "read"} \X Basis
    BY <2>7
  <2>9. fresh' \in SUBSET ({"search", "read"} \X Basis)
    BY <1>1, <2>8 DEF Keep, TypeOK
  <2> QED BY <2>4, <2>6, <2>9
<1>2. CASE Lose(entries)
  BY <1>2 DEF Lose, TypeOK, Session, Past
<1> QED BY <1>1, <1>2

\* A kept result keeps the shape of the trace.
LEMMA ResultSingles ==
    ASSUME TypeOK, Singles(session.trace), NEW entries \in SUBSET Entry,
           \A e \in entries : Single(e), Keep(entries) \/ Lose(entries)
    PROVE  Singles(session'.trace)
<1>1. CASE Keep(entries)
  <2>1. PICK t \in Appended(session.trace, entries) :
          session' = [session EXCEPT !.started = TRUE, !.trace = t]
    BY <1>1 DEF Keep
  <2>2. session.trace \in Trace /\ session'.trace = t
    BY <2>1 DEF TypeOK, Session
  <2>3. /\ \A o \in Slots : session.trace[o] # None => t[o] = session.trace[o]
        /\ \A o \in Slots : session.trace[o] = None => t[o] \in entries \cup {None}
    BY <2>2, AppendedTrace
  <2> QED BY <2>2, <2>3 DEF Singles, Used
<1>2. CASE Lose(entries)
  BY <1>2 DEF Lose, TypeOK, Session
<1> QED BY <1>1, <1>2

\* What a search and a read return, and what they are numbered.
LEMMA SearchTypes ==
    ASSUME TypeOK, Numbers, NEW q \in Rankings, forward' = Encode(q)
    PROVE  SearchEntry(q) \in Entry /\ \A i \in DOMAIN q : Encode(q)[q[i]] \in Refs
<1>1. PICK n \in Nat : q \in [1..n -> Available]
  BY RankingIs
<1>2. q \in [1..n -> Sources] /\ IsInjective(q) /\ DOMAIN q = 1..n
  BY <1>1, RankingIs DEF Available
<1>3. Numbers' /\ \A i \in 1..n : forward'[q[i]] # 0
  BY <1>2, EncodeNumbers
<1>4. \A s \in Sources : forward'[s] # 0 => forward'[s] \in Refs
  <2>1. (Numbers => /\ forward \in [Sources -> 0..Cardinality(Sources)]
                    /\ \A s \in Sources : forward[s] # 0 => forward[s] \in Refs)'
    BY NumbersBound, PTL
  <2> QED BY <1>3, <2>1
<1>5. \A i \in 1..n : Encode(q)[q[i]] \in Refs
  BY <1>2, <1>3, <1>4
<1>6. \A i \in 1..n : Current(q[i]) \in Basis
  BY <1>1 DEF Current, Basis, Available, TypeOK
<1> QED BY <1>2, <1>5, <1>6 DEF SearchEntry, Entry

\* What a read returns is a read of one basis.
LEMMA ReadTypes ==
    ASSUME TypeOK, NEW ref \in Refs \cup Sources, SingleRead(ref)
    PROVE  ReadEntry(ref) \in Entry /\ Single(ReadEntry(ref))
<1>1. Current(Decode(ref)) \in Basis
  BY DEF SingleRead, Current, Basis, Available, TypeOK
<1> QED BY <1>1 DEF ReadEntry, Entry, Single

\* What an agent may name is a short reference or a source.
LEMMA KnownTypes == Numbers => Known \subseteq Refs \cup Sources
  BY NumbersBound DEF Known

\* A batch of a check: what is confirmed stays and is fresh, and the rest is pending.
\* Of a basis that was asked for twice one answer is enough.
LEMMA BatchEffect ==
    ASSUME TypeOK, Shape, NEW batch \in Batches, NEW answer \in Answers(batch),
           CheckBatch(batch, answer)
    PROVE  /\ batch \subseteq job.todo /\ \A o \in batch : BasisOf(o) \in Basis
           /\ job' \in Job
           /\ job'.todo = job.todo \ batch /\ job'.got = job.got
           /\ job'.was_started = job.was_started
           /\ \E good \in SUBSET batch :
                /\ job'.valid = job.valid \cup good
                /\ \A b \in job.pending \cup {BasisOf(o) : o \in batch} :
                       b \in job'.pending \/ \E g \in good : BasisOf(g) = b
                /\ \A g \in good : <<"read", BasisOf(g)>> \in fresh'
<1> DEFINE good == {o \in batch : Verdict(o, answer) = "unchanged"}
           same == {BasisOf(o) : o \in good}
           other == {BasisOf(o) : o \in batch \ good}
<1>1. batch \subseteq job.todo /\ at = "check" /\ job \in Job
  BY DEF Batches, CheckBatch, TypeOK
<1>2. \A o \in batch : BasisOf(o) \in Basis /\ o \in Slots
  BY <1>1 DEF BasisOf, Shape, Singles, Single, Reads, Used
<1>3. PICK p \in {(job.pending \ same) \cup other, (job.pending \cup other) \ same} :
        job' = [job EXCEPT !.todo = @ \ batch, !.valid = @ \cup good, !.pending = p]
  BY DEF CheckBatch
<1>4. good \subseteq batch /\ (\A o \in batch : o \in good \/ BasisOf(o) \in other)
      /\ (\A b \in same : \E g \in good : BasisOf(g) = b)
  OBVIOUS
<1>5. ASSUME NEW g \in good PROVE <<"read", BasisOf(g)>> \in fresh'
  <2>1. answer[g] # None /\ answer[g].basis = BasisOf(g) /\ answer[g].status = "unchanged"
    BY DEF Verdict
  <2>2. PICK x : answer[g] = [basis |-> x, status |-> Status(x)]
    BY <2>1 DEF Answers
  <2>3. answer[g] = [basis |-> BasisOf(g), status |-> "unchanged"]
    BY <2>1, <2>2
  <2>4. fresh' = fresh \cup {<<"read", b>> : b \in {c \in {BasisOf(o) : o \in batch} :
                    \E o \in batch : answer[o] = [basis |-> c, status |-> "unchanged"]}}
    BY DEF CheckBatch
  <2> HIDE DEF same, other
  <2> QED BY <2>3, <2>4
<1>6. other \subseteq Basis /\ p \subseteq job.pending \cup other
  BY <1>2, <1>3
<1>7. \A b \in job.pending \cup {BasisOf(o) : o \in batch} : b \in p \/ b \in same
  BY <1>3
<1> HIDE DEF good, same, other
<1>8. /\ job' \in Job /\ job'.todo = job.todo \ batch /\ job'.got = job.got
      /\ job'.was_started = job.was_started /\ job'.valid = job.valid \cup good
      /\ job'.pending = p
  BY <1>1, <1>2, <1>3, <1>4, <1>6 DEF Job
<1> QED BY <1>1, <1>2, <1>4, <1>5, <1>7, <1>8

\* Every step keeps types and shapes.
LEMMA TypeStep == TypeInv /\ [Next]_vars => TypeInv'
<1> SUFFICES ASSUME TypeOK, Numbers, Shape, [Next]_vars PROVE TypeInv'
  BY DEF TypeInv
<1>n. Numbers' /\ forward' \in [Sources -> 0..Cardinality(Sources)]
  <2>1. (Numbers => /\ forward \in [Sources -> 0..Cardinality(Sources)]
                    /\ \A s \in Sources : forward[s] # 0 => forward[s] \in Refs)'
    BY NumbersBound, PTL
  <2> QED BY <2>1, NumbersStep
<1>t. /\ session \in Session /\ session.trace \in Trace /\ job \in Job /\ past \in Past
      /\ usage \in Usage /\ spent \in Nat
  BY UseAssumption DEF TypeOK, Session
<1>i. Idle \in Job /\ Idle.got = {} /\ Idle.todo = {} /\ Idle.valid = {}
  BY DEF Idle, Job
<1>1. ASSUME NEW s \in Sources, Change(s) \/ Revoke(s) PROVE TypeInv'
  BY <1>n, <1>1, UseAssumption DEF Change, Revoke, Spend, TypeInv, TypeOK, Shape
<1>2. CASE Checkpoint
  <2>1. /\ [session EXCEPT !.needs_check = FALSE] \in Session
        /\ [session EXCEPT !.needs_check = FALSE].trace = session.trace
    BY <1>t DEF Session
  <2>2. saved' \in [session : Session, usage : Usage, past : Past]
    BY <1>2, <1>t, <2>1 DEF Checkpoint
  <2>3. saved'.session.trace = session.trace
    BY <1>2, <2>1 DEF Checkpoint
  <2> QED BY <1>n, <1>2, <2>2, <2>3, UseAssumption DEF Checkpoint, Spend, TypeInv, TypeOK, Shape
<1>3. CASE Restore
  <2>1. saved.session \in Session /\ saved.usage \in Usage /\ saved.past \in Past
    BY <1>3 DEF Restore, TypeOK
  <2>2. session' \in Session /\ session'.trace = saved.session.trace
    BY <1>3, <2>1 DEF Restore, Restored, Session
  <2>3. offered' \in SUBSET Tools
    BY <1>3 DEF Restore, Offer
  <2> QED BY <1>n, <1>i, <1>3, <2>1, <2>2, <2>3, UseAssumption DEF Restore, Spend, TypeInv,
          TypeOK, Shape
<1>4. CASE ResetAttempt
  <2>1. usage' \in Usage /\ offered' \in SUBSET Tools
    BY <1>4, UseAssumption DEF ResetAttempt, Offer, Usage
  <2> QED BY <1>n, <1>4, <2>1, UseAssumption DEF ResetAttempt, Spend, TypeInv, TypeOK, Shape
<1>5. ASSUME NEW q \in Rankings, Search(q) PROVE TypeInv'
  <2>1. {SearchEntry(q)} \in SUBSET Entry /\ \A e \in {SearchEntry(q)} : Single(e)
    BY <1>5, SearchTypes DEF Search, SingleSearch, SearchEntry, Single
  <2>2. /\ session' \in Session /\ past' \in Past /\ fresh' \in SUBSET ({"search", "read"} \X Basis)
        /\ Singles(session'.trace)
    BY <1>5, <2>1, ResultTypes, ResultSingles DEF Search, Shape
  <2>3. usage' \in Usage /\ offered' \in SUBSET Tools /\ spent' \in 0..MaxWork
    BY <1>5, CallTypes DEF Search
  <2> QED BY <1>n, <1>5, <2>2, <2>3 DEF Search, Calling, TypeInv, TypeOK, Shape
<1>6. ASSUME NEW ref \in Known, Read(ref) PROVE TypeInv'
  <2>0. ref \in Refs \cup Sources
    BY KnownTypes
  <2>1. {ReadEntry(ref)} \in SUBSET Entry /\ \A e \in {ReadEntry(ref)} : Single(e)
    BY <1>6, <2>0, ReadTypes DEF Read
  <2>2. /\ session' \in Session /\ past' \in Past /\ fresh' \in SUBSET ({"search", "read"} \X Basis)
        /\ Singles(session'.trace)
    BY <1>6, <2>1, ResultTypes, ResultSingles DEF Read, Shape
  <2>3. usage' \in Usage /\ offered' \in SUBSET Tools /\ spent' \in 0..MaxWork
    BY <1>6, <2>0, CallTypes DEF Read
  <2> QED BY <1>n, <1>6, <2>2, <2>3 DEF Read, Calling, TypeInv, TypeOK, Shape
<1>7. CASE CallFails
  <2>1. usage' \in Usage /\ offered' \in SUBSET Tools /\ spent' \in 0..MaxWork
    BY <1>7, CallTypes DEF CallFails
  <2>2. session' \in Session /\ session'.trace = session.trace /\ past' \in Past
    BY <1>7, <1>t DEF CallFails, CallRaises, Session, Past
  <2> QED BY <1>n, <1>7, <2>1, <2>2 DEF CallFails, CallRaises, Calling, TypeInv, TypeOK, Shape
<1>8. ASSUME NEW refs \in SUBSET Known, ReadMany(refs) PROVE TypeInv'
  <2>1. refs \subseteq Refs \cup Sources
    BY KnownTypes
  <2>2. session' \in Session /\ session'.trace = session.trace /\ past' \in Past
    BY <1>8, <1>t DEF ReadMany, Session, Past
  <2>3. job' \in Job /\ job'.todo = refs /\ job'.got = {}
    BY <1>8, <1>t, <2>1 DEF ReadMany, Calling, Job
  <2> QED BY <1>n, <1>8, <2>1, <2>2, <2>3, UseAssumption DEF ReadMany, Spend, TypeInv, TypeOK, Shape
<1>9. ASSUME NEW ref \in job.todo, ManyRead(ref) PROVE TypeInv'
  <2>0. ref \in Refs \cup Sources
    BY <1>9 DEF ManyRead, Shape
  <2>1. ReadEntry(ref) \in Entry /\ Single(ReadEntry(ref))
    BY <1>9, <2>0, ReadTypes DEF ManyRead
  <2>2. /\ job' \in Job /\ job'.todo \subseteq job.todo
        /\ job'.got = job.got \cup {ReadEntry(ref)}
    BY <1>9, <1>t, <2>1 DEF ManyRead, Job
  <2>3. usage' \in Usage /\ offered' \in SUBSET Tools /\ spent' \in 0..MaxWork
    BY <1>9, <2>0, CallTypes DEF ManyRead
  <2> QED BY <1>n, <1>9, <2>1, <2>2, <2>3 DEF ManyRead, TypeInv, TypeOK, Shape
<1>10. ASSUME NEW ref \in job.todo, ManyError(ref) PROVE TypeInv'
  <2>1. job' \in Job /\ job'.todo \subseteq job.todo /\ job'.got = job.got
    BY <1>10, <1>t DEF ManyError, Job
  <2>2. usage' \in Usage /\ offered' \in SUBSET Tools /\ spent' \in 0..MaxWork
    BY <1>10, CallTypes DEF ManyError
  <2> QED BY <1>n, <1>10, <2>1, <2>2 DEF ManyError, TypeInv, TypeOK, Shape
<1>11. CASE ManyDone
  <2>1. job.got \in SUBSET Entry /\ \A e \in job.got : Single(e)
    BY <1>t DEF Job, Shape
  <2>2. /\ session' \in Session /\ past' \in Past /\ fresh' \in SUBSET ({"search", "read"} \X Basis)
        /\ Singles(session'.trace)
    BY <1>11, <2>1, ResultTypes, ResultSingles DEF ManyDone, Shape
  <2>3. job' \in Job /\ job'.got = {} /\ at' \in {"idle", "deliver"}
    BY <1>11, <1>t DEF ManyDone, Job
  <2> QED BY <1>n, <1>11, <2>2, <2>3 DEF ManyDone, TypeInv, TypeOK, Shape
<1>12. CASE WriteNotes
  <2>1. Bases(session.trace) \subseteq Basis
    BY <1>t DEF Bases, Reads, Used, Trace, Entry
  <2>2. session' \in Session /\ session'.trace = session.trace
    BY <1>12, <1>t, <2>1 DEF WriteNotes, Session
  <2> QED BY <1>n, <1>12, <2>2, UseAssumption DEF WriteNotes, Spend, Calling, TypeInv, TypeOK, Shape
<1>13. ASSUME NEW deep \in BOOLEAN, Run(deep) PROVE TypeInv'
  <2>1. Reads(session.trace) \subseteq Slots
    BY DEF Reads, Used
  <2>2. /\ job' \in Job /\ job'.got = {} /\ job'.valid = {}
        /\ (session.needs_check => job'.todo = Reads(session.trace))
    BY <1>13, <1>t, <1>i, <2>1 DEF Run, Job, Idle, Session
  <2>3. at' \in {"check", "prepare"} /\ (at' = "check" => session.needs_check)
    BY <1>13 DEF Run
  <2> QED BY <1>n, <1>13, <2>2, <2>3 DEF Run, TypeInv, TypeOK, Shape
<1>14. ASSUME NEW batch \in Batches, NEW answer \in Answers(batch), CheckBatch(batch, answer)
       PROVE  TypeInv'
  <2>1. at = "check" /\ at' = at /\ UNCHANGED <<rev, forward, session, saved, past>>
    BY <1>14 DEF CheckBatch
  <2>2. /\ batch \subseteq job.todo /\ \A o \in batch : BasisOf(o) \in Basis
        /\ job' \in Job /\ job'.got = job.got /\ job'.todo \subseteq job.todo
        /\ job'.valid \subseteq job.valid \cup job.todo
    BY <1>14, BatchEffect
  <2>3. fresh' \in SUBSET ({"search", "read"} \X Basis)
    <3> DEFINE asked == {BasisOf(o) : o \in batch}
    <3>1. PICK c \in SUBSET asked : fresh' = fresh \cup {<<"read", b>> : b \in c}
      BY <1>14 DEF CheckBatch
    <3>2. c \subseteq Basis
      BY <2>2
    <3> QED BY <3>1, <3>2 DEF TypeOK
  <2>4. usage' \in Usage /\ offered' \in SUBSET Tools /\ spent' \in 0..MaxWork
    <3>1. usage' \in Usage /\ offered' = Offer(usage') /\ spent' = spent + 1 /\ spent < MaxWork
      BY <1>14, <1>t, CountedType DEF CheckBatch, Spend
    <3> QED BY <3>1, <1>t, UseAssumption DEF Offer
  <2> QED BY <1>n, <2>1, <2>2, <2>3, <2>4 DEF TypeInv, TypeOK, Shape
<1>15. CASE CheckDone
  <2>1. session' \in Session /\ Singles(session'.trace)
    <3> DEFINE t == [o \in Slots |-> IF o \in job.valid THEN session.trace[o] ELSE None]
    <3>1. t \in Trace
      BY <1>t DEF Trace
    <3>2. KeptNotes \in SUBSET Basis /\ KeptPending \in SUBSET Basis
      BY <1>t DEF KeptNotes, KeptPending, Session, Job
    <3>3. session' = [session EXCEPT !.trace = t, !.pending = KeptPending, !.notes = KeptNotes,
                                     !.needs_check = FALSE]
      BY <1>15 DEF CheckDone, Confirmed
    <3>4. Singles(t)
      BY DEF Shape, Singles, Used
    <3> HIDE DEF t
    <3> QED BY <1>t, <3>1, <3>2, <3>3, <3>4 DEF Session
  <2>2. job' \in Job /\ job'.got = job.got /\ at' = "prepare"
    BY <1>15, <1>t DEF CheckDone, Job
  <2> QED BY <1>n, <1>15, <2>1, <2>2 DEF CheckDone, TypeInv, TypeOK, Shape
<1>16. CASE PrepareFrame \/ PrepareFails \/ SeedBegin
  <2>1. session' \in Session /\ session'.trace = session.trace
    BY <1>16, <1>t DEF PrepareFrame, PrepareFails, SeedBegin, Session
  <2>2. job' \in {job, Idle} /\ at' \in {"prepare", "idle", "seed"}
    BY <1>16 DEF PrepareFrame, PrepareFails, SeedBegin, Leave
  <2> QED BY <1>n, <1>i, <1>t, <1>16, <2>1, <2>2 DEF PrepareFrame, PrepareFails, SeedBegin, TypeInv,
          TypeOK, Shape
<1>17. ASSUME NEW q \in Rankings, SeedSearch(q) PROVE TypeInv'
  <2>1. /\ {SearchEntry(q)} \in SUBSET Entry /\ \A e \in {SearchEntry(q)} : Single(e)
        /\ \A i \in DOMAIN q : Encode(q)[q[i]] \in Refs
    BY <1>17, SearchTypes DEF SeedSearch, SingleSearch, SearchEntry, Single
  <2>2. /\ session' \in Session /\ past' \in Past /\ fresh' \in SUBSET ({"search", "read"} \X Basis)
        /\ Singles(session'.trace)
    BY <1>17, <2>1, ResultTypes, ResultSingles DEF SeedSearch, Shape
  <2>3. usage' \in Usage /\ offered' \in SUBSET Tools /\ spent' \in 0..MaxWork
    BY <1>17, CallTypes DEF SeedSearch
  <2>4. \/ at' = "idle" /\ job' = Idle
        \/ at' = "leads" /\ job' \in Job /\ job'.todo \subseteq Refs /\ job'.got = job.got
    <3>1. CASE at' = "idle" /\ job' = Idle
      BY <3>1
    <3>2. ASSUME at' = "leads", NEW refs \in SUBSET {Encode(q)[q[i]] : i \in {j \in DOMAIN q : j <= Seeds}},
                 job' = [job EXCEPT !.todo = refs]
          PROVE  job' \in Job /\ job'.todo \subseteq Refs /\ job'.got = job.got
      <4>1. refs \subseteq Refs
        BY <2>1
      <4> QED BY <1>t, <3>2, <4>1 DEF Job
    <3> QED BY <1>17, <3>1, <3>2 DEF SeedSearch, Leave
  <2> QED BY <1>n, <1>i, <1>17, <2>2, <2>3, <2>4 DEF SeedSearch, TypeInv, TypeOK, Shape
<1>18. CASE SeedSearchFails
  <2>1. usage' \in Usage /\ offered' \in SUBSET Tools /\ spent' \in 0..MaxWork
    BY <1>18, CallTypes DEF SeedSearchFails
  <2>2. session' \in Session /\ session'.trace = session.trace /\ past' \in Past
    BY <1>18, <1>t DEF SeedSearchFails, CallRaises, Session, Past
  <2> QED BY <1>n, <1>i, <1>18, <2>1, <2>2 DEF SeedSearchFails, CallRaises, Leave, TypeInv, TypeOK, Shape
<1>19. ASSUME NEW ref \in job.todo, SeedRead(ref) PROVE TypeInv'
  <2>0. ref \in Refs \cup Sources
    BY <1>19 DEF SeedRead, Shape
  <2>1. {ReadEntry(ref)} \in SUBSET Entry /\ \A e \in {ReadEntry(ref)} : Single(e)
    BY <1>19, <2>0, ReadTypes DEF SeedRead
  <2>2. /\ session' \in Session /\ past' \in Past /\ fresh' \in SUBSET ({"search", "read"} \X Basis)
        /\ Singles(session'.trace)
    BY <1>19, <2>1, ResultTypes, ResultSingles DEF SeedRead, Shape
  <2>3. usage' \in Usage /\ offered' \in SUBSET Tools /\ spent' \in 0..MaxWork
    BY <1>19, <2>0, CallTypes DEF SeedRead
  <2>4. job' \in Job /\ job'.got = job.got /\ job'.todo \subseteq job.todo
    BY <1>19, <1>t DEF SeedRead, Job
  <2> QED BY <1>n, <1>19, <2>2, <2>3, <2>4 DEF SeedRead, TypeInv, TypeOK, Shape
<1>20. ASSUME NEW ref \in job.todo, SeedReadFails(ref) PROVE TypeInv'
  <2>1. usage' \in Usage /\ offered' \in SUBSET Tools /\ spent' \in 0..MaxWork
    BY <1>20, CallTypes DEF SeedReadFails
  <2>2. session' \in Session /\ session'.trace = session.trace /\ past' \in Past
    BY <1>20, <1>t DEF SeedReadFails, CallRaises, Session, Past
  <2>3. job' \in Job /\ job'.got = job.got /\ job'.todo \subseteq job.todo
    BY <1>20, <1>t DEF SeedReadFails, Job
  <2> QED BY <1>n, <1>20, <2>1, <2>2, <2>3 DEF SeedReadFails, CallRaises, TypeInv, TypeOK, Shape
<1>21. CASE Deliver \/ DeliverRaises \/ DeliverTooLarge \/ Delivered
  <2>1. session' \in Session /\ session'.trace = session.trace
    BY <1>21, <1>t DEF Deliver, DeliverRaises, DeliverTooLarge, Delivered, Finish, Session
  <2>2. job' = Idle /\ at' \in {"idle", "deliver"} /\ fresh' \in {fresh, {}}
    BY <1>21 DEF Deliver, DeliverRaises, DeliverTooLarge, Delivered, Finish, Leave
  <2> QED BY <1>n, <1>i, <1>21, <2>1, <2>2 DEF Deliver, DeliverRaises, DeliverTooLarge, Delivered,
          TypeInv, TypeOK, Shape
<1>22. CASE UNCHANGED vars
  BY <1>n, <1>22 DEF vars, TypeInv, TypeOK, Shape
<1> QED
  BY <1>1, <1>2, <1>3, <1>4, <1>5, <1>6, <1>7, <1>8, <1>9, <1>10, <1>11, <1>12, <1>13, <1>14,
     <1>15, <1>16, <1>17, <1>18, <1>19, <1>20, <1>21, <1>22
  DEF Next, Environment, HostSteps, AgentSteps, RunSteps

\* A new session satisfies them.
LEMMA TypeInit == Init => TypeInv
<1> SUFFICES ASSUME Init PROVE TypeInv
  OBVIOUS
<1>1. usage \in Usage /\ offered \in SUBSET Tools /\ spent \in 0..MaxWork
  BY UseAssumption DEF Init, Usage, Offer
<1>2. [o \in Slots |-> None] \in Trace
  BY DEF Trace
<1>3. session \in Session /\ session.trace = [o \in Slots |-> None]
  BY <1>2 DEF Init, NewSession, Session
<1>4. job \in Job /\ job.got = {} /\ past \in Past /\ rev \in [Sources -> 0..MaxRev]
  BY UseAssumption DEF Init, Idle, Job, Past
<1>5. Numbers
  <2>1. {s \in Sources : forward[s] # 0} = {}
    BY DEF Init
  <2>2. Numbered = 0
    BY <2>1, FS_EmptySet DEF Numbered
  <2> QED BY <2>2 DEF Init, Numbers
<1>6. forward \in [Sources -> 0..Cardinality(Sources)]
  BY <1>5, NumbersBound
<1>7. TypeOK
  BY <1>1, <1>3, <1>4, <1>6 DEF Init, TypeOK
<1>8. Shape
  BY <1>3, <1>4 DEF Init, Shape, Singles, Used
<1> QED BY <1>5, <1>7, <1>8 DEF TypeInv

\* Types, numbers and shapes hold in every reachable state.
THEOREM UseTypeInvariant == Spec => []TypeInv
  BY TypeInit, TypeStep, PTL DEF Spec

\* The session, its checkpoint, the counters, the references and the locals of run have
\* their types; no counter exceeds the budget and no reference the number of sources.
THEOREM UseTypeOK == Spec => []TypeOK
<1>1. TypeInv => TypeOK
  BY DEF TypeInv
<1> QED BY <1>1, UseTypeInvariant, PTL

-----------------------------------------------------------------------------
(* What the steps do to the evidence.                                      *)

\* The host may use what the session holds without another check.
Using == at \in {"prepare", "seed", "leads", "deliver"} \/ (at = "many" /\ job.back = "deliver")

\* The session's evidence, notes and what it has named as pending stay as they are.
QuietStep ==
    /\ session'.trace = session.trace /\ session'.notes = session.notes
    /\ session'.pending = session.pending /\ session'.needs_check = session.needs_check
    /\ past'.kept = past.kept /\ UNCHANGED <<saved, fresh>>
    /\ Using' => Using \/ ~session.needs_check
    /\ at' = "check" =>
        \/ at = "check" /\ job' = job
        \/ job'.todo = Reads(session.trace) /\ job'.valid = {} /\ job'.pending = session.pending

ResultStep ==
    /\ \E entries \in SUBSET Entry : Keep(entries) \/ Lose(entries)
    /\ UNCHANGED saved /\ at' # "check" /\ (Using' => Using)

CheckStep == \E batch \in Batches : \E answer \in Answers(batch) : CheckBatch(batch, answer)

EndStep == Finish /\ at' = "idle" /\ UNCHANGED <<saved, past>>

\* What a step does to the evidence is one of these.
LEMMA StepKinds ==
    ASSUME TypeInv, [Next]_vars
    PROVE  \/ QuietStep \/ ResultStep \/ CheckStep \/ EndStep
           \/ Checkpoint \/ Restore \/ WriteNotes \/ CheckDone
<1>0. TypeOK /\ Numbers /\ Shape /\ session \in Session /\ past \in Past /\ job \in Job
  BY DEF TypeInv, TypeOK
<1>1. CASE \/ \E s \in Sources : Change(s) \/ Revoke(s)
           \/ ResetAttempt \/ UNCHANGED vars
  BY <1>1 DEF Change, Revoke, ResetAttempt, vars, QuietStep, Using
<1>2. CASE CallFails \/ \E refs \in SUBSET Known : ReadMany(refs)
  BY <1>0, <1>2 DEF CallFails, CallRaises, Calling, ReadMany, QuietStep, Using, Session, Past, Job
<1>3. ASSUME NEW ref \in job.todo, ManyRead(ref) \/ ManyError(ref) PROVE QuietStep
  BY <1>0, <1>3 DEF ManyRead, ManyError, QuietStep, Using, Job
<1>4. ASSUME NEW deep \in BOOLEAN, Run(deep) PROVE QuietStep
  BY <1>0, <1>4 DEF Run, QuietStep, Using, Idle
<1>5. CASE PrepareFrame \/ PrepareFails \/ SeedBegin
  BY <1>0, <1>5 DEF PrepareFrame, PrepareFails, SeedBegin, Leave, QuietStep, Using, Session
<1>6. CASE SeedSearchFails \/ \E ref \in job.todo : SeedReadFails(ref)
  BY <1>0, <1>6 DEF SeedSearchFails, SeedReadFails, CallRaises, Leave, QuietStep, Using, Session, Past
<1>7. CASE Deliver \/ DeliverRaises
  BY <1>0, <1>7 DEF Deliver, DeliverRaises, Ready, Leave, QuietStep, Using, Session
<1>8. ASSUME NEW q \in Rankings, Search(q) \/ SeedSearch(q) PROVE ResultStep
  <2>1. SearchEntry(q) \in Entry
    BY <1>0, <1>8, SearchTypes DEF Search, SeedSearch, SingleSearch
  <2> QED BY <1>8, <2>1 DEF Search, SeedSearch, Calling, Leave, ResultStep, Using
<1>9. ASSUME NEW ref \in Known \cup job.todo, (ref \in Known /\ Read(ref)) \/ SeedRead(ref)
      PROVE  ResultStep
  <2>1. ref \in Refs \cup Sources
    BY <1>0, <1>9, KnownTypes DEF SeedRead, Shape
  <2>2. ReadEntry(ref) \in Entry
    BY <1>0, <1>9, <2>1, ReadTypes DEF Read, SeedRead
  <2> QED BY <1>9, <2>2 DEF Read, SeedRead, Calling, ResultStep, Using
<1>10. CASE ManyDone
  BY <1>0, <1>10 DEF ManyDone, ResultStep, Using, Job
<1>11. CASE DeliverTooLarge \/ Delivered
  BY <1>11 DEF DeliverTooLarge, Delivered, Leave, EndStep
<1> QED
  BY <1>1, <1>2, <1>3, <1>4, <1>5, <1>6, <1>7, <1>8, <1>9, <1>10, <1>11
  DEF Next, Environment, HostSteps, AgentSteps, RunSteps, CheckStep

\* What a result adds to the evidence.
LEMMA ResultEffect ==
    ASSUME TypeOK, NEW entries \in SUBSET Entry, Keep(entries) \/ Lose(entries)
    PROVE  /\ session'.notes = session.notes /\ session'.pending = session.pending
           /\ session'.needs_check = session.needs_check /\ session'.started
           /\ \E new : /\ past'.kept = past.kept \cup new
                       /\ Bases(session'.trace) = Bases(session.trace) \cup new
           /\ fresh \subseteq fresh'
           /\ \A o \in Slots :
                \/ session'.trace[o] = session.trace[o]
                \/ /\ session'.trace[o] \in entries
                   /\ {session'.trace[o].tool} \X session'.trace[o].bases \subseteq fresh'
<1>0. session \in Session /\ session.trace \in Trace /\ past \in Past
  BY DEF TypeOK, Session
<1>1. CASE Keep(entries)
  <2>1. PICK t \in Appended(session.trace, entries) :
          session' = [session EXCEPT !.started = TRUE, !.trace = t]
    BY <1>1 DEF Keep
  <2>2. /\ session'.trace = t /\ session'.notes = session.notes
        /\ session'.pending = session.pending
        /\ session'.needs_check = session.needs_check /\ session'.started
    BY <1>0, <2>1 DEF Session
  <2>3. Bases(t) = Bases(session.trace) \cup ReadBases(entries)
    BY <1>0, AppendedBases
  <2>4. past'.kept = past.kept \cup ReadBases(entries)
    BY <1>1 DEF Keep, ReadBases
  <2>5. \A o \in Slots : t[o] = session.trace[o] \/ t[o] \in entries
    BY <1>0, AppendedTrace
  <2>6. fresh \subseteq fresh' /\ \A e \in entries : {e.tool} \X e.bases \subseteq fresh'
    BY <1>1 DEF Keep
  <2> QED BY <2>2, <2>3, <2>4, <2>5, <2>6
<1>2. CASE Lose(entries)
  <2>1. /\ session'.trace = session.trace /\ session'.notes = session.notes
        /\ session'.pending = session.pending
        /\ session'.needs_check = session.needs_check /\ session'.started
    BY <1>0, <1>2 DEF Lose, Session
  <2>2. past'.kept = past.kept \cup {} /\ fresh' = fresh
    BY <1>0, <1>2 DEF Lose, Past
  <2>3. Bases(session'.trace) = Bases(session.trace) \cup {}
    BY <2>1
  <2> QED BY <2>1, <2>2, <2>3
<1> QED BY <1>1, <1>2

-----------------------------------------------------------------------------
(* Tools and the first retrieval.                                          *)

\* The agent is offered what its budget allows (refresh, 60-66): every change of the
\* counters, by a call that succeeds or fails, by a restore or by a new attempt, refreshes.
THEOREM UseToolsMatchBudget == Spec => []ToolsMatchBudget
<1>1. Init => ToolsMatchBudget
  BY DEF Init, ToolsMatchBudget
<1>2. ToolsMatchBudget /\ [Next]_vars => ToolsMatchBudget'
  <2> SUFFICES ASSUME ToolsMatchBudget, [Next]_vars PROVE ToolsMatchBudget'
    OBVIOUS
  <2>1. CASE UNCHANGED <<usage, offered>>
    BY <2>1 DEF ToolsMatchBudget
  <2>2. CASE offered' = Offer(usage')
    BY <2>2 DEF ToolsMatchBudget
  <2> QED
    BY <2>1, <2>2 DEF Next, vars, Environment, Change, Revoke, HostSteps, Checkpoint, Restore,
       ResetAttempt, AgentSteps, Search, Read, CallFails, SingleFails, SingleSearch, SingleRead,
       ReadMany, ManyRead, ManyError, ManyDone, WriteNotes, RunSteps, Run, CheckBatch, CheckDone,
       PrepareFrame, PrepareFails, SeedBegin, SeedSearch, SeedSearchFails, SeedRead, SeedReadFails,
       Deliver, DeliverRaises, DeliverTooLarge, Delivered
<1> QED BY <1>1, <1>2, PTL DEF Spec

\* A task for which a tool was used is a started one, in the session, in its checkpoint and
\* in what run remembers of it.
StartedWhenTried ==
    /\ past.tried => session.started
    /\ saved # None /\ saved.past.tried => saved.session.started
    /\ at \in {"check", "prepare"} /\ past.tried => job.was_started

\* No step forgets that a task was started.
LEMMA StartedStep == TypeInv /\ StartedWhenTried /\ [Next]_vars => StartedWhenTried'
<1> SUFFICES ASSUME TypeInv, StartedWhenTried, [Next]_vars PROVE StartedWhenTried'
  OBVIOUS
<1>0. /\ TypeOK /\ session \in Session /\ past \in Past /\ job \in Job
      /\ saved \in [session : Session, usage : Usage, past : Past] \cup {None}
  BY DEF TypeInv, TypeOK
<1>1. CASE \/ \E s \in Sources : Change(s) \/ Revoke(s)
           \/ ResetAttempt \/ UNCHANGED vars
           \/ \E ref \in job.todo : ManyRead(ref) \/ ManyError(ref)
  BY <1>1 DEF Change, Revoke, ResetAttempt, ManyRead, ManyError, vars, StartedWhenTried
<1>2. ASSUME UNCHANGED saved, session'.started, at' \notin {"check", "prepare"}
      PROVE  StartedWhenTried'
  BY <1>2 DEF StartedWhenTried
<1>3. ASSUME NEW entries, Keep(entries) \/ Lose(entries)
      PROVE  session'.started
  BY <1>0, <1>3 DEF Keep, Lose, Session
<1>4. CASE CallFails \/ (\E refs \in SUBSET Known : ReadMany(refs))
           \/ SeedSearchFails \/ (\E ref \in job.todo : SeedReadFails(ref))
  BY <1>0, <1>2, <1>4 DEF CallFails, CallRaises, Calling, ReadMany, SeedSearchFails, SeedReadFails,
     Leave, Session
<1>5. CASE \/ \E q \in Rankings : Search(q) \/ SeedSearch(q)
           \/ \E ref \in Known : Read(ref)
           \/ \E ref \in job.todo : SeedRead(ref)
           \/ ManyDone
  BY <1>0, <1>2, <1>3, <1>5 DEF Search, SeedSearch, Read, SeedRead, ManyDone, Calling, Leave, Job
<1>6. CASE SeedBegin \/ Deliver \/ DeliverRaises \/ DeliverTooLarge \/ Delivered
  BY <1>0, <1>2, <1>6 DEF SeedBegin, Deliver, DeliverRaises, DeliverTooLarge, Delivered, Finish,
     Leave, Session
<1>7. CASE WriteNotes
  BY <1>0, <1>7 DEF WriteNotes, Calling, StartedWhenTried, Session
<1>8. CASE Checkpoint
  <2>1. saved'.past = past /\ saved'.session.started = session.started
    BY <1>0, <1>8 DEF Checkpoint, Session
  <2> QED BY <1>8, <2>1 DEF Checkpoint, StartedWhenTried
<1>9. CASE Restore
  <2>1. session'.started = saved.session.started
    BY <1>0, <1>9 DEF Restore, Restored, Session
  <2> QED BY <1>9, <2>1 DEF Restore, StartedWhenTried
<1>10. ASSUME NEW deep \in BOOLEAN, Run(deep) PROVE StartedWhenTried'
  <2>1. job'.was_started = session.started
    BY <1>10 DEF Run, Idle
  <2> QED BY <1>10, <2>1 DEF Run, StartedWhenTried
<1>11. ASSUME NEW batch \in Batches, NEW answer \in Answers(batch), CheckBatch(batch, answer)
       PROVE  StartedWhenTried'
  <2>1. job'.was_started = job.was_started
    BY <1>11, BatchEffect DEF TypeInv
  <2> QED BY <1>11, <2>1 DEF CheckBatch, StartedWhenTried
<1>12. CASE CheckDone
  <2>1. session'.started = session.started /\ job'.was_started = job.was_started
    BY <1>0, <1>12 DEF CheckDone, Confirmed, Session, Job
  <2> QED BY <1>12, <2>1 DEF CheckDone, StartedWhenTried
<1>13. CASE PrepareFrame \/ PrepareFails
  BY <1>0, <1>13 DEF PrepareFrame, PrepareFails, Leave, StartedWhenTried, Session
<1> QED
  BY <1>1, <1>4, <1>5, <1>6, <1>7, <1>8, <1>9, <1>10, <1>11, <1>12, <1>13
  DEF Next, Environment, HostSteps, AgentSteps, RunSteps

\* The initial retrieval is made before any tool was used for the task, over failed runs,
\* interruptions and restores (run, 359-367): only SeedBegin begins it, and what it relies
\* on, was_started, was read when the run began.
THEOREM UseSeedFirst == Spec => SeedFirst
<1>1. Init => StartedWhenTried
  BY DEF Init, StartedWhenTried
<1>2. TypeInv /\ StartedWhenTried /\ [Next]_vars => [at # "seed" /\ at' = "seed" => ~past.tried]_vars
  <2> SUFFICES ASSUME TypeInv, StartedWhenTried, [Next]_vars, at # "seed", at' = "seed"
               PROVE  ~past.tried
    OBVIOUS
  <2>1. job.back # "seed"
    BY DEF TypeInv, TypeOK, Job
  <2>2. SeedBegin
    BY <2>1 DEF Next, vars, Environment, Change, Revoke, HostSteps, Checkpoint, Restore,
       ResetAttempt, AgentSteps, Search, Read, CallFails, ReadMany, ManyRead, ManyError, ManyDone,
       WriteNotes, RunSteps, Run, CheckBatch, CheckDone, PrepareFrame, PrepareFails, Leave,
       SeedSearch, SeedSearchFails, SeedRead, SeedReadFails, Deliver, DeliverRaises,
       DeliverTooLarge, Delivered
  <2> QED BY <2>2 DEF SeedBegin, NeedsSeed, StartedWhenTried
<1> QED BY <1>1, <1>2, StartedStep, UseTypeInvariant, PTL DEF Spec, SeedFirst

-----------------------------------------------------------------------------
(* Notes, pending material and confirmed evidence.                         *)

\* The single basis of a read, in the trace and as _recheck takes it.
LEMMA ReadBasis ==
    ASSUME Singles(session.trace), NEW o \in Reads(session.trace)
    PROVE  session.trace[o].bases = {BasisOf(o)} /\ BasisOf(o) \in Basis
<1>1. PICK b \in Basis : session.trace[o].bases = {b}
  BY DEF Singles, Single, Reads
<1> QED BY <1>1 DEF BasisOf

\* Every basis ever kept is in the trace or pending, also in a checkpoint; while _recheck
\* works, the reads it has still to ask about count as well as those it found unchanged.
KeptIsNamed ==
    /\ past.kept \subseteq Bases(session.trace) \cup session.pending
    /\ saved # None =>
        saved.past.kept \subseteq Bases(saved.session.trace) \cup saved.session.pending
    /\ at = "check" =>
        \A b \in past.kept : b \in job.pending \/ \E o \in job.todo \cup job.valid : BasisOf(o) = b

\* Without a check being due, everything in the trace is fresh, and only then is it used.
UsedIsFresh ==
    /\ Using => ~session.needs_check
    /\ ~session.needs_check => \A o \in Used(session.trace) :
            {session.trace[o].tool} \X session.trace[o].bases \subseteq fresh
    /\ at = "check" => \A o \in job.valid : <<"read", BasisOf(o)>> \in fresh

EvidenceInv == NotesFollowEvidence /\ KeptIsNamed /\ UsedIsFresh

\* A step that leaves the evidence alone.
LEMMA QuietEvidence ==
    ASSUME TypeInv, EvidenceInv, QuietStep PROVE EvidenceInv'
<1>1. /\ session'.trace = session.trace /\ session'.notes = session.notes
      /\ session'.pending = session.pending /\ session'.needs_check = session.needs_check
      /\ past'.kept = past.kept /\ saved' = saved /\ fresh' = fresh
  BY DEF QuietStep
<1>2. NotesFollowEvidence'
  BY <1>1 DEF EvidenceInv, NotesFollowEvidence
<1>3. \A o : BasisOf(o)' = BasisOf(o)
  BY <1>1 DEF BasisOf
<1>4. \A b \in Bases(session.trace) : \E o \in Reads(session.trace) : BasisOf(o) = b
  <2>1. Singles(session.trace)
    BY DEF TypeInv, Shape
  <2> QED BY <2>1, ReadBasis DEF Bases
<1>5. KeptIsNamed'
  <2>1. ASSUME at' = "check", NEW b \in past.kept
        PROVE  b \in job'.pending \/ \E o \in job'.todo \cup job'.valid : BasisOf(o) = b
    <3>1. CASE at = "check" /\ job' = job
      BY <2>1, <3>1 DEF EvidenceInv, KeptIsNamed
    <3>2. CASE job'.todo = Reads(session.trace) /\ job'.valid = {} /\ job'.pending = session.pending
      BY <1>4, <2>1, <3>2 DEF EvidenceInv, KeptIsNamed
    <3> QED BY <2>1, <3>1, <3>2 DEF QuietStep
  <2> QED BY <1>1, <1>3, <2>1 DEF EvidenceInv, KeptIsNamed
<1>6. UsedIsFresh'
  <2>1. Using' => ~session'.needs_check
    BY <1>1 DEF EvidenceInv, UsedIsFresh, QuietStep
  <2>2. ~session'.needs_check => \A o \in Used(session'.trace) :
            {session'.trace[o].tool} \X session'.trace[o].bases \subseteq fresh'
    BY <1>1 DEF EvidenceInv, UsedIsFresh
  <2>3. at' = "check" => \A o \in job'.valid : <<"read", BasisOf(o)>> \in fresh
    BY DEF EvidenceInv, UsedIsFresh, QuietStep
  <2> QED BY <1>1, <1>3, <2>1, <2>2, <2>3 DEF UsedIsFresh
<1> QED BY <1>2, <1>5, <1>6 DEF EvidenceInv

\* A result adds its reads to what was kept and to the trace at once.
LEMMA ResultEvidence ==
    ASSUME TypeInv, EvidenceInv, ResultStep PROVE EvidenceInv'
<1>1. PICK entries \in SUBSET Entry : Keep(entries) \/ Lose(entries)
  BY DEF ResultStep
<1>2. saved' = saved /\ at' # "check" /\ (Using' => Using)
  BY DEF ResultStep
<1>3. /\ session'.notes = session.notes /\ session'.pending = session.pending
      /\ session'.needs_check = session.needs_check
      /\ \E new : /\ past'.kept = past.kept \cup new
                  /\ Bases(session'.trace) = Bases(session.trace) \cup new
      /\ fresh \subseteq fresh'
      /\ \A o \in Slots :
           \/ session'.trace[o] = session.trace[o]
           \/ {session'.trace[o].tool} \X session'.trace[o].bases \subseteq fresh'
  <2>1. TypeOK
    BY DEF TypeInv
  <2> QED BY <1>1, <2>1, ResultEffect
<1>4. NotesFollowEvidence'
  BY <1>2, <1>3 DEF EvidenceInv, NotesFollowEvidence
<1>5. KeptIsNamed'
  BY <1>2, <1>3 DEF EvidenceInv, KeptIsNamed
<1>6. ASSUME ~session'.needs_check, NEW o \in Used(session'.trace)
      PROVE  {session'.trace[o].tool} \X session'.trace[o].bases \subseteq fresh'
  <2>1. o \in Slots /\ session'.trace[o] # None
    BY DEF Used
  <2>2. CASE session'.trace[o] = session.trace[o]
    <3>1. o \in Used(session.trace)
      BY <2>1, <2>2 DEF Used
    <3>2. {session.trace[o].tool} \X session.trace[o].bases \subseteq fresh
      BY <1>3, <1>6, <3>1 DEF EvidenceInv, UsedIsFresh
    <3> QED BY <1>3, <2>2, <3>2
  <2> QED BY <1>3, <2>1, <2>2
<1>7. UsedIsFresh'
  BY <1>2, <1>3, <1>6 DEF EvidenceInv, UsedIsFresh
<1> QED BY <1>4, <1>5, <1>7 DEF EvidenceInv

\* A batch of the check moves reads from todo to valid or to pending.
LEMMA BatchEvidence ==
    ASSUME TypeInv, EvidenceInv, CheckStep PROVE EvidenceInv'
<1>1. PICK batch \in Batches : \E answer \in Answers(batch) : CheckBatch(batch, answer)
  BY DEF CheckStep
<1>2. PICK answer \in Answers(batch) : CheckBatch(batch, answer)
  BY <1>1
<1>3. at = "check" /\ at' = at /\ UNCHANGED <<session, saved, past>> /\ fresh \subseteq fresh'
  BY <1>2 DEF CheckBatch
<1>4. batch \subseteq job.todo /\ job'.todo = job.todo \ batch
  BY <1>2, BatchEffect DEF TypeInv
<1>5. PICK good \in SUBSET batch :
        /\ job'.valid = job.valid \cup good
        /\ \A b \in job.pending \cup {BasisOf(o) : o \in batch} :
               b \in job'.pending \/ \E g \in good : BasisOf(g) = b
        /\ \A g \in good : <<"read", BasisOf(g)>> \in fresh'
  <2>1. TypeOK /\ Shape
    BY DEF TypeInv
  <2> QED BY <1>2, <2>1, BatchEffect
<1>6. \A o : BasisOf(o)' = BasisOf(o)
  BY <1>3 DEF BasisOf
<1>7. NotesFollowEvidence'
  BY <1>3 DEF EvidenceInv, NotesFollowEvidence
<1>8. KeptIsNamed'
  <2>1. ASSUME NEW b \in past.kept
        PROVE  b \in job'.pending \/ \E o \in job'.todo \cup job'.valid : BasisOf(o) = b
    <3>1. b \in job.pending \/ \E o \in job.todo \cup job.valid : BasisOf(o) = b
      BY <1>3 DEF EvidenceInv, KeptIsNamed
    <3> QED BY <1>4, <1>5, <3>1
  <2> QED BY <1>3, <1>6, <2>1 DEF EvidenceInv, KeptIsNamed
<1>9. UsedIsFresh'
  <2>1. \A o \in job'.valid : <<"read", BasisOf(o)>> \in fresh'
    BY <1>3, <1>5 DEF EvidenceInv, UsedIsFresh
  <2>2. ~Using' /\ session' = session
    BY <1>3 DEF Using
  <2>3. ASSUME ~session.needs_check, NEW o \in Used(session.trace)
        PROVE  {session.trace[o].tool} \X session.trace[o].bases \subseteq fresh'
    BY <1>3, <2>3 DEF EvidenceInv, UsedIsFresh
  <2> QED BY <1>6, <2>1, <2>2, <2>3 DEF UsedIsFresh
<1> QED BY <1>7, <1>8, <1>9 DEF EvidenceInv

\* The end of the check: what is left in the trace was confirmed, what left it is pending,
\* and notes are kept only with every read.
LEMMA CheckDoneEvidence ==
    ASSUME TypeInv, EvidenceInv, CheckDone PROVE EvidenceInv'
<1> DEFINE t == [o \in Slots |-> IF o \in job.valid THEN session.trace[o] ELSE None]
<1>0. session \in Session /\ Singles(session.trace) /\ job.valid \subseteq Reads(session.trace)
  BY DEF TypeInv, TypeOK, Shape, CheckDone
<1>1. /\ session'.trace = t /\ session'.pending = job.pending /\ session'.notes = KeptNotes
      /\ session'.needs_check = FALSE
  <2>1. session' = [session EXCEPT !.trace = t, !.pending = job.pending, !.notes = KeptNotes,
                                   !.needs_check = FALSE]
    BY DEF CheckDone, Confirmed, KeptPending
  <2> HIDE DEF t
  <2> QED BY <1>0, <2>1 DEF Session
<1>2. at = "check" /\ at' = "prepare" /\ job.todo = {} /\ UNCHANGED <<saved, past, fresh>>
  BY DEF CheckDone
<1>3. Used(t) = job.valid /\ Reads(t) = job.valid /\ \A o \in job.valid : t[o] = session.trace[o]
  BY <1>0 DEF Reads, Used
<1>4. \A o \in job.valid : t[o].bases = {BasisOf(o)} /\ t[o].tool = "read"
  BY <1>0, <1>3, ReadBasis DEF Reads
<1> HIDE DEF t
<1>5. NotesFollowEvidence'
  <2>1. CASE KeptNotes = {}
    BY <1>1, <1>2, <2>1 DEF EvidenceInv, NotesFollowEvidence
  <2>2. CASE KeptNotes = session.notes /\ job.valid = Reads(session.trace)
    <3>1. Bases(t) = Bases(session.trace)
      BY <1>3, <2>2 DEF Bases
    <3> QED BY <1>1, <1>2, <2>2, <3>1 DEF EvidenceInv, NotesFollowEvidence
  <2> QED BY <2>1, <2>2 DEF KeptNotes
<1>6. KeptIsNamed'
  <2>1. ASSUME NEW b \in past.kept PROVE b \in Bases(t) \cup job.pending
    <3>1. b \in job.pending \/ \E o \in job.valid : BasisOf(o) = b
      BY <1>2 DEF EvidenceInv, KeptIsNamed
    <3> QED BY <1>3, <1>4, <3>1 DEF Bases
  <2> QED BY <1>1, <1>2, <2>1 DEF EvidenceInv, KeptIsNamed
<1>7. UsedIsFresh'
  <2>1. ASSUME NEW o \in Used(t) PROVE {t[o].tool} \X t[o].bases \subseteq fresh
    <3>1. o \in job.valid /\ <<"read", BasisOf(o)>> \in fresh
      BY <1>2, <1>3 DEF EvidenceInv, UsedIsFresh
    <3> QED BY <1>4, <3>1
  <2> QED BY <1>1, <1>2, <2>1 DEF UsedIsFresh
<1> QED BY <1>5, <1>6, <1>7 DEF EvidenceInv

\* Every step keeps the evidence in order.
LEMMA EvidenceStep == TypeInv /\ EvidenceInv /\ [Next]_vars => EvidenceInv'
<1> SUFFICES ASSUME TypeInv, EvidenceInv, [Next]_vars PROVE EvidenceInv'
  OBVIOUS
<1>0. /\ session \in Session
      /\ saved \in [session : Session, usage : Usage, past : Past] \cup {None}
  BY DEF TypeInv, TypeOK
<1>1. CASE EndStep
  <2>1. /\ session'.trace = session.trace /\ session'.notes = session.notes
        /\ session'.pending = session.pending /\ session'.needs_check = TRUE
    BY <1>0, <1>1 DEF EndStep, Finish, Session
  <2> QED BY <1>1, <2>1 DEF EndStep, EvidenceInv, NotesFollowEvidence, KeptIsNamed, UsedIsFresh, Using
<1>2. CASE Checkpoint
  <2>1. /\ saved'.past = past /\ saved'.session.trace = session.trace
        /\ saved'.session.notes = session.notes /\ saved'.session.pending = session.pending
    BY <1>0, <1>2 DEF Checkpoint, Session
  <2>2. UNCHANGED <<session, at, job, past, fresh>>
    BY <1>2 DEF Checkpoint
  <2>3. \A o : BasisOf(o)' = BasisOf(o)
    BY <2>2 DEF BasisOf
  <2>4. NotesFollowEvidence'
    BY <2>1, <2>2 DEF EvidenceInv, NotesFollowEvidence
  <2>5. KeptIsNamed'
    BY <2>1, <2>2, <2>3 DEF EvidenceInv, KeptIsNamed
  <2>6. UsedIsFresh'
    BY <2>2, <2>3 DEF EvidenceInv, UsedIsFresh, Using
  <2> QED BY <2>4, <2>5, <2>6 DEF EvidenceInv
<1>3. CASE Restore
  <2>1. /\ session'.trace = saved.session.trace /\ session'.notes = saved.session.notes
        /\ session'.pending = saved.session.pending /\ session'.needs_check = TRUE
    BY <1>0, <1>3 DEF Restore, Restored, Session
  <2>2. saved # None /\ saved' = saved /\ past' = saved.past /\ at' = "idle"
    BY <1>3 DEF Restore
  <2> QED BY <2>1, <2>2 DEF EvidenceInv, NotesFollowEvidence, KeptIsNamed, UsedIsFresh, Using
<1>4. CASE WriteNotes
  <2>1. /\ session'.trace = session.trace /\ session'.notes = Bases(session.trace)
        /\ session'.pending = session.pending /\ session'.needs_check = session.needs_check
    BY <1>0, <1>4 DEF WriteNotes, Session
  <2>2. UNCHANGED <<saved, at, job, past, fresh>> /\ at # "check"
    BY <1>4 DEF WriteNotes, Calling
  <2> QED BY <2>1, <2>2 DEF EvidenceInv, NotesFollowEvidence, KeptIsNamed, UsedIsFresh, Using
<1> QED
  BY <1>1, <1>2, <1>3, <1>4, StepKinds, QuietEvidence, ResultEvidence, BatchEvidence,
     CheckDoneEvidence

\* Notes, what was kept and what is used stay in order in every reachable state.
THEOREM UseEvidenceInvariant == Spec => []EvidenceInv
<1>1. Init => EvidenceInv
  <2> SUFFICES ASSUME Init PROVE EvidenceInv
    OBVIOUS
  <2>1. /\ session.notes = {} /\ session.needs_check = FALSE /\ past.kept = {} /\ saved = None
        /\ at = "idle" /\ Used(session.trace) = {}
    BY DEF Init, NewSession, Used
  <2> QED BY <2>1 DEF EvidenceInv, NotesFollowEvidence, KeptIsNamed, UsedIsFresh, Using
<1> QED BY <1>1, EvidenceStep, UseTypeInvariant, PTL DEF Spec

\* Notes never outlive a read they rest on (_recheck, 336): they go with the first read
\* that is not confirmed, whatever the batches and whatever the host answers.
THEOREM UseNotesFollowEvidence == Spec => []NotesFollowEvidence
<1>1. EvidenceInv => NotesFollowEvidence
  BY DEF EvidenceInv
<1> QED BY <1>1, UseEvidenceInvariant, PTL

\* A read that was once kept is in the trace or named as pending (_recheck, 329-335), also
\* when two reads of one basis are answered differently and after a restore.
THEOREM UseLostEvidenceIsNamed == Spec => []LostEvidenceIsNamed
<1>1. EvidenceInv => LostEvidenceIsNamed
  BY DEF EvidenceInv, KeptIsNamed, LostEvidenceIsNamed
<1> QED BY <1>1, UseEvidenceInvariant, PTL

\* A delivery is given only what was obtained or confirmed since the last delivery or
\* restore (_recheck, 310-338).
THEOREM UseEvidenceConfirmed == Spec => []EvidenceConfirmed
<1>1. EvidenceInv => EvidenceConfirmed
  BY DEF EvidenceInv, UsedIsFresh, Using, EvidenceConfirmed
<1> QED BY <1>1, UseEvidenceInvariant, PTL

-----------------------------------------------------------------------------
(* What a short reference means.                                           *)

\* The references of an entry lead to the sources it was read from.
Means(e) == {Decode(ref) : ref \in e.refs} = {b[1] : b \in e.bases}
AllMean(trace) == \A o \in Used(trace) : Means(trace[o])

MeaningInv ==
    /\ AllMean(session.trace) /\ (saved # None => AllMean(saved.session.trace))
    /\ \A e \in job.got : Means(e)

\* References once given keep the meaning of every entry.
LEMMA MeansKept ==
    ASSUME Numbers, Numbers', NumbersKept, NEW e \in Entry, Means(e)
    PROVE  Means(e)'
<1>1. e.refs \subseteq Refs \cup Sources /\ \A b \in e.bases : b[1] \in Sources
  BY DEF Entry, Basis
<1>2. \A ref \in e.refs : Decode(ref) \in Sources
  BY <1>1 DEF Means
<1>3. \A ref \in e.refs : Decode(ref)' = Decode(ref)
  BY <1>1, <1>2, DecodeKept
<1>4. {Decode(ref)' : ref \in e.refs} = {Decode(ref) : ref \in e.refs}
  BY <1>3
<1> QED BY <1>4 DEF Means

\* The same for the entries of a trace.
LEMMA AllMeanKept ==
    ASSUME Numbers, Numbers', NumbersKept, NEW trace \in Trace, AllMean(trace)
    PROVE  AllMean(trace)'
<1>1. \A o \in Used(trace) : trace[o] \in Entry /\ Means(trace[o])
  BY DEF AllMean, Used, Trace
<1>2. \A o \in Used(trace) : Means(trace[o])'
  BY <1>1, MeansKept
<1> QED BY <1>2 DEF AllMean, Used

\* What a search returns is named by the numbers given for it, old or new.
LEMMA SearchMeans ==
    ASSUME TypeOK, Numbers, NEW q \in Rankings, forward' = Encode(q), NEW e, e = SearchEntry(q)
    PROVE  Means(e)'
<1>1. PICK n \in Nat : q \in [1..n -> Available]
  BY RankingIs
<1>2. q \in [1..n -> Sources] /\ IsInjective(q) /\ DOMAIN q = 1..n
  BY <1>1, RankingIs DEF Available
<1>3. Numbers' /\ \A i \in 1..n : forward'[q[i]] # 0
  BY <1>2, EncodeNumbers
<1>4. ASSUME NEW i \in 1..n, NEW ref, ref = forward'[q[i]] PROVE Decode(ref)' = q[i]
  <2>1. q[i] \in Sources /\ ref # 0
    BY <1>2, <1>3, <1>4
  <2>2. \A s \in Sources : forward'[s] = ref <=> s = q[i]
    BY <1>3, <1>4, <2>1 DEF Numbers
  <2> QED BY <2>1, <2>2 DEF Decode
<1>5. e.refs = {forward'[q[i]] : i \in 1..n} /\ e.bases = {<<q[i], rev[q[i]]>> : i \in 1..n}
  BY <1>2 DEF SearchEntry, Current
<1>6. {b[1] : b \in e.bases} = {q[i] : i \in 1..n}
  <2>1. \A b \in e.bases : \E i \in 1..n : b[1] = q[i]
    BY <1>5
  <2>2. \A i \in 1..n : \E b \in e.bases : b[1] = q[i]
    <3> TAKE i \in 1..n
    <3>1. <<q[i], rev[q[i]]>> \in e.bases /\ <<q[i], rev[q[i]]>>[1] = q[i]
      BY <1>5
    <3> QED BY <3>1
  <2> QED BY <2>1, <2>2
<1>7. {Decode(ref)' : ref \in e.refs} = {q[i] : i \in 1..n}
  <2>1. \A ref \in e.refs : \E i \in 1..n : ref = forward'[q[i]]
    BY <1>5
  <2>2. \A i \in 1..n : \E ref \in e.refs : ref = forward'[q[i]]
    BY <1>5
  <2>3. \A ref \in e.refs : \E i \in 1..n : Decode(ref)' = q[i]
    BY <1>4, <2>1
  <2>4. \A i \in 1..n : \E ref \in e.refs : Decode(ref)' = q[i]
    BY <1>4, <2>2
  <2> QED BY <2>3, <2>4
<1> QED BY <1>6, <1>7 DEF Means

\* What a read returns is named by the reference that was asked for.
LEMMA ReadMeans ==
    ASSUME TypeOK, Numbers, Numbers', NumbersKept, NEW ref \in Refs \cup Sources, SingleRead(ref),
           NEW e, e = ReadEntry(ref)
    PROVE  Means(e)'
<1>1. Decode(ref) \in Sources
  BY DEF SingleRead, Available
<1>2. e \in Entry
  BY ReadTypes
<1>3. e.refs = {ref} /\ {b[1] : b \in e.bases} = {Decode(ref)}
  BY DEF ReadEntry, Current
<1>4. Means(e)
  BY <1>3 DEF Means
<1> QED BY <1>2, <1>4, MeansKept

\* Every entry that a step adds to the trace, to a checkpoint or to a grouped read has its
\* meaning from the start.
LEMMA MeaningStep == TypeInv /\ MeaningInv /\ [Next]_vars => MeaningInv'
<1> SUFFICES ASSUME TypeInv, MeaningInv, [Next]_vars PROVE MeaningInv'
  OBVIOUS
<1>0. /\ TypeOK /\ Numbers /\ Shape /\ session \in Session /\ job \in Job /\ session.trace \in Trace
      /\ saved \in [session : Session, usage : Usage, past : Past] \cup {None}
      /\ (saved # None => saved.session.trace \in Trace)
  BY DEF TypeInv, TypeOK, Session
<1>n. Numbers' /\ NumbersKept
  BY <1>0, NumbersStep
<1>k. /\ \A e \in Entry : Means(e) => Means(e)'
      /\ \A trace \in Trace : AllMean(trace) => AllMean(trace)'
  BY <1>0, <1>n, MeansKept, AllMeanKept
<1>g. \A e \in job.got : Means(e)'
  BY <1>0, <1>k DEF MeaningInv, Job
<1>1. ASSUME NEW old \in Trace, AllMean(old), session'.trace = old, saved' = saved, job'.got \subseteq job.got
      PROVE  MeaningInv'
  <2>1. AllMean(old)' /\ (saved # None => AllMean(saved.session.trace)')
    BY <1>0, <1>1, <1>k DEF MeaningInv
  <2> QED BY <1>g, <1>1, <2>1 DEF MeaningInv, AllMean
<1>2. ASSUME NEW entries \in SUBSET Entry, Keep(entries) \/ Lose(entries), \A e \in entries : Means(e)',
             saved' = saved, job'.got \subseteq job.got
      PROVE  MeaningInv'
  <2>1. \A o \in Slots : session'.trace[o] = session.trace[o] \/ session'.trace[o] \in entries
    BY <1>0, <1>2, ResultEffect
  <2>2. \A o \in Used(session.trace) : \E e \in Entry : e = session.trace[o] /\ Means(e)'
    <3>1. \A o \in Used(session.trace) : session.trace[o] \in Entry /\ Means(session.trace[o])
      BY <1>0 DEF MeaningInv, AllMean, Used, Trace
    <3> QED BY <1>k, <3>1
  <2>3. \A o \in Used(session'.trace) : \E e : e = session'.trace[o] /\ Means(e)'
    BY <1>2, <2>1, <2>2 DEF Used
  <2>4. saved # None => AllMean(saved.session.trace)'
    BY <1>0, <1>2, <1>k DEF MeaningInv
  <2> QED BY <1>g, <1>2, <2>3, <2>4 DEF MeaningInv, AllMean
<1>3. CASE \/ UNCHANGED vars \/ (\E s \in Sources : Change(s) \/ Revoke(s)) \/ ResetAttempt
           \/ (\E ref \in job.todo : ManyError(ref)) \/ PrepareFails
  <2>1. session' = session /\ saved' = saved /\ job'.got \subseteq job.got
    BY <1>0, <1>3 DEF vars, Change, Revoke, ResetAttempt, ManyError, PrepareFails, Leave, Idle, Job
  <2> QED BY <1>0, <1>1, <2>1 DEF MeaningInv
<1>4. CASE \/ CallFails \/ (\E refs \in SUBSET Known : ReadMany(refs)) \/ WriteNotes
           \/ PrepareFrame \/ SeedBegin \/ SeedSearchFails
           \/ (\E ref \in job.todo : SeedReadFails(ref))
           \/ Deliver \/ DeliverRaises \/ DeliverTooLarge \/ Delivered
  <2>1. session'.trace = session.trace
    BY <1>0, <1>4 DEF CallFails, CallRaises, ReadMany, WriteNotes, PrepareFrame, SeedBegin,
       SeedSearchFails, SeedReadFails, Deliver, DeliverRaises, DeliverTooLarge, Delivered, Finish,
       Session
  <2>2. saved' = saved
    BY <1>4 DEF CallFails, ReadMany, WriteNotes, PrepareFrame, SeedBegin, SeedSearchFails,
       SeedReadFails, Deliver, DeliverRaises, DeliverTooLarge, Delivered
  <2>3. Idle.got = {}
    BY DEF Idle
  <2>4. job'.got \subseteq job.got
    <3>1. CASE (\E refs \in SUBSET Known : ReadMany(refs)) \/ \E ref \in job.todo : SeedReadFails(ref)
      BY <1>0, <3>1 DEF ReadMany, SeedReadFails, Job
    <3>2. CASE job' \in {job, Idle}
      BY <2>3, <3>2
    <3> QED BY <1>4, <3>1, <3>2 DEF CallFails, WriteNotes, PrepareFrame, SeedBegin, SeedSearchFails,
            Deliver, DeliverRaises, DeliverTooLarge, Delivered, Leave
  <2> QED BY <1>0, <1>1, <2>1, <2>2, <2>4 DEF MeaningInv
<1>r. ASSUME NEW deep \in BOOLEAN, Run(deep) PROVE MeaningInv'
  <2>1. job'.got = {} /\ session' = session /\ saved' = saved
    BY <1>r DEF Run, Idle
  <2> QED BY <1>0, <1>1, <2>1 DEF MeaningInv
<1>5. ASSUME NEW batch \in Batches, NEW answer \in Answers(batch), CheckBatch(batch, answer)
      PROVE  MeaningInv'
  <2>1. job'.got = job.got
    BY <1>0, <1>5, BatchEffect
  <2>2. session' = session /\ saved' = saved
    BY <1>5 DEF CheckBatch
  <2> QED BY <1>0, <1>1, <2>1, <2>2 DEF MeaningInv
<1>6. CASE CheckDone
  <2>1. PICK t \in Trace : /\ session'.trace = t
                           /\ t = [o \in Slots |-> IF o \in job.valid THEN session.trace[o] ELSE None]
    <3> DEFINE t == [o \in Slots |-> IF o \in job.valid THEN session.trace[o] ELSE None]
    <3>1. t \in Trace
      BY <1>0 DEF Trace
    <3>2. session'.trace = t
      <4>1. session' = [session EXCEPT !.trace = t, !.pending = KeptPending, !.notes = KeptNotes,
                                       !.needs_check = FALSE]
        BY <1>6 DEF CheckDone, Confirmed
      <4> HIDE DEF t
      <4> QED BY <1>0, <4>1 DEF Session
    <3> QED BY <3>1, <3>2
  <2>2. AllMean(t)
    BY <2>1 DEF MeaningInv, AllMean, Used
  <2>3. saved' = saved /\ job'.got = job.got
    BY <1>0, <1>6 DEF CheckDone, Job
  <2> QED BY <1>1, <2>1, <2>2, <2>3
<1>7. CASE Restore
  <2>1. session'.trace = saved.session.trace
    BY <1>0, <1>7 DEF Restore, Restored, Session
  <2>2. saved # None /\ saved' = saved /\ job'.got = {}
    BY <1>7 DEF Restore, Idle
  <2> QED BY <1>0, <1>1, <2>1, <2>2 DEF MeaningInv
<1>8. CASE Checkpoint
  <2>1. saved'.session.trace = session.trace /\ session' = session /\ job' = job
    BY <1>0, <1>8 DEF Checkpoint, Session
  <2>2. AllMean(session.trace)'
    BY <1>0, <1>k, <2>1 DEF MeaningInv
  <2>3. AllMean(saved.session.trace)'
    BY <2>1, <2>2 DEF AllMean
  <2> QED BY <1>g, <2>1, <2>2, <2>3 DEF MeaningInv
<1>9. ASSUME NEW q \in Rankings, Search(q) \/ SeedSearch(q) PROVE MeaningInv'
  <2>1. PICK e \in Entry : e = SearchEntry(q) /\ Means(e)'
    BY <1>0, <1>9, SearchTypes, SearchMeans DEF Search, SeedSearch, SingleSearch
  <2>2. Keep({e}) \/ Lose({e})
    BY <1>9, <2>1 DEF Search, SeedSearch
  <2>3. saved' = saved /\ job'.got \subseteq job.got
    BY <1>0, <1>9 DEF Search, SeedSearch, Leave, Idle, Job
  <2> QED BY <1>2, <2>1, <2>2, <2>3
<1>10. ASSUME NEW ref \in Refs \cup Sources, Read(ref) \/ SeedRead(ref) PROVE MeaningInv'
  <2>1. PICK e \in Entry : e = ReadEntry(ref) /\ Means(e)'
    BY <1>0, <1>n, <1>10, ReadTypes, ReadMeans DEF Read, SeedRead
  <2>2. Keep({e}) \/ Lose({e})
    BY <1>10, <2>1 DEF Read, SeedRead
  <2>3. saved' = saved /\ job'.got \subseteq job.got
    BY <1>0, <1>10 DEF Read, SeedRead, Job
  <2> QED BY <1>2, <2>1, <2>2, <2>3
<1>11. ASSUME NEW ref \in job.todo, ManyRead(ref) PROVE MeaningInv'
  <2>1. ref \in Refs \cup Sources
    BY <1>0, <1>11 DEF ManyRead, Shape
  <2>2. PICK e \in Entry : e = ReadEntry(ref) /\ Means(e)'
    BY <1>0, <1>n, <1>11, <2>1, ReadTypes, ReadMeans DEF ManyRead
  <2>3. job'.got = job.got \cup {e} /\ session' = session /\ saved' = saved
    BY <1>0, <1>11, <2>2 DEF ManyRead, Job
  <2>4. AllMean(session.trace)' /\ (saved # None => AllMean(saved.session.trace)')
    BY <1>0, <1>k, <2>3 DEF MeaningInv
  <2> QED BY <1>g, <2>2, <2>3, <2>4 DEF MeaningInv
<1>12. CASE ManyDone
  <2>1. job.got \in SUBSET Entry
    BY <1>0 DEF Job
  <2>2. Keep(job.got) \/ Lose(job.got)
    BY <1>12 DEF ManyDone
  <2>3. saved' = saved /\ job'.got \subseteq job.got
    BY <1>0, <1>12 DEF ManyDone, Job
  <2> QED BY <1>2, <1>g, <2>1, <2>2, <2>3
<1>13. (Known \subseteq Refs \cup Sources) /\ \A ref \in job.todo : SeedRead(ref) => ref \in Refs \cup Sources
  BY <1>0, KnownTypes DEF SeedRead, Shape
<1> QED
  BY <1>3, <1>4, <1>r, <1>5, <1>6, <1>7, <1>8, <1>9, <1>10, <1>11, <1>12, <1>13
  DEF Next, Environment, HostSteps, AgentSteps, RunSteps

\* A short reference in the trace or in a checkpoint still leads to the source the entry was
\* read from (transform, 45-58; reset_attempt, 90-93), because numbers are never given twice
\* and a name that was no number when it was used never becomes one.
THEOREM UseReferencesKeepMeaning == Spec => []ReferencesKeepMeaning
<1>1. Init => MeaningInv
  BY DEF Init, NewSession, Idle, MeaningInv, AllMean, Used
<1>2. MeaningInv => ReferencesKeepMeaning
  BY DEF MeaningInv, AllMean, Means, ReferencesKeepMeaning
<1> QED BY <1>1, <1>2, MeaningStep, UseTypeInvariant, PTL DEF Spec
=============================================================================
