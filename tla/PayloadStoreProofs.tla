------------------------- MODULE PayloadStoreProofs -------------------------
(***************************************************************************)
(* The safety of the write side of the store, for any number of assets,    *)
(* drafts, payloads, operations, forget decisions and calls, any size of   *)
(* the receipt table and any number of restarts.                           *)
(*                                                                         *)
(* Three arguments meet.  Payloads are not shared, so whoever queues one   *)
(* queues only its own.  A publication happens in the generation its call  *)
(* began in, and in that generation no new run has taken the staged        *)
(* payload over.  An operation that was applied has its receipt, or is     *)
(* pinned to a past generation, or its draft is gone.                      *)
(***************************************************************************)
EXTENDS PayloadStore, TLAPS

AssetRows == [rev : Nat, payload : Payload \cup {None}]
DraftRows == [state : {"none", "live", "gone"}, rev : Nat, target : Asset \cup {None},
              trev : Nat, payload : Payload \cup {None}]
ForgetRows == [state : {"none", "cleaning", "complete"}, control : {"none", "stopping", "cleaning"},
               target : Asset \cup {None}]
OpRows == [gen : Nat, asset : Asset \cup Draft \cup {None}, expected : Nat]
Metas == [run : Nat, gen : Nat, deletion : Nat]

\* The type invariant with its sets named.
Types ==
    /\ meta \in Metas /\ payloads \in [Payload -> PayloadRow] /\ reclaim \in SUBSET Payload
    /\ assets \in [Asset -> AssetRows] /\ originals \in [Asset -> Payload \cup {None}]
    /\ drafts \in [Draft -> DraftRows] /\ forgets \in [Forget -> ForgetRows]
    /\ receipts \in [Op -> Nat] /\ ops \in [Op -> OpRows] /\ sessions \in [Session -> Call]
    /\ failed \in BOOLEAN /\ settling \in BOOLEAN /\ applied \in [Op -> Nat]

\* A row that exists has a payload, and no other has; runs and generations count from one.
RowShape ==
    /\ meta.run > 0 /\ meta.gen > 0
    /\ \A a \in Asset : assets[a].rev > 0 <=> assets[a].payload # None
    /\ \A d \in Draft : drafts[d].state = "live" <=> drafts[d].payload # None

\* A call has a payload from its first write on, and no other call has it.
Holding(c) == c.pc \in {"staging", "chunked", "staged", "admitted", "leaving"}
Publishes(c) == c.kind \in {"mutation", "publish"}
CallFits(c) ==
    /\ c.pc = "idle" => c = Idle
    /\ Holding(c) <=> c.payload # None
    /\ c.pc = "admitted" => Publishes(c)
    /\ IF Publishes(c) THEN c.op \in Op /\ c.asset \in Asset ELSE c.op = None
    /\ c.kind \in {"create", "write", "publish"} => c.draft \in Draft
CallShape == \A s \in Session : CallFits(sessions[s])
OwnPayload ==
    \A s, t \in Session : sessions[s].payload # None /\ sessions[s].payload = sessions[t].payload
        => s = t

\* What is published has no owner; what a row refers to is published; the payload of a call
\* was inserted once, and the row of a queued one exists.
PayloadShape ==
    /\ \A p \in Payload : payloads[p].state = "published" => payloads[p].owner = 0
    /\ \A p \in Payload : Referenced(p) => payloads[p].state = "published"
    /\ \A s \in Session : sessions[s].payload # None => payloads[sessions[s].payload].state # "unused"
    /\ \A p \in reclaim : Row(p)

\* Two assets retain different originals.
OriginalsDiffer ==
    \A a, b \in Asset : originals[a] # None /\ originals[a] = originals[b] => a = b

\* In the generation a publication began in, its payload is as the call left it: owned by
\* the current run and not queued.
StageKept ==
    \A s \in Session :
        LET c == sessions[s] IN
        /\ Publishes(c) /\ c.gen = meta.gen
        /\ c.pc \in {"staging", "chunked", "staged", "admitted"}
        => /\ payloads[c.payload].owner = meta.run /\ c.payload \notin reclaim
           /\ payloads[c.payload].state = IF c.pc \in {"staged", "admitted"} THEN "ready" ELSE "staging"
           /\ c.pc # "staging" => payloads[c.payload].content

\* A draft under creation does not exist, and no other call knows it.
CreatorAlone ==
    \A s \in Session : sessions[s].kind = "create" /\ sessions[s].pc # "leaving" =>
        /\ drafts[sessions[s].draft] = NoDraft
        /\ \A t \in Session \ {s} : sessions[t].draft # sessions[s].draft

\* Generations never run ahead, and an attempt is one of its operation.
Attempts ==
    /\ \A o \in Op : ops[o].gen <= meta.gen
    /\ \A s \in Session : Publishes(sessions[s]) =>
        LET c == sessions[s] IN
        /\ c.gen <= meta.gen /\ c.gen > 0 /\ ops[c.op].gen > 0
        /\ c.kind = "publish" => ops[c.op].asset = c.draft
        /\ c.kind = "mutation" => ops[c.op].asset \notin Draft

\* What was applied once has its receipt, or no attempt of this generation; an owner's
\* operation has no draft left to publish.
AppliedOnce ==
    \A o \in Op : applied[o] # 0 =>
        /\ applied[o] = 1 /\ ops[o].gen > 0
        /\ \/ receipts[o] # 0
           \/ /\ ops[o].gen < meta.gen
              /\ \A s \in Session : sessions[s].op = o => sessions[s].gen < meta.gen
        /\ ops[o].asset \in Draft => drafts[ops[o].asset].state = "gone"

StoreInv ==
    /\ Types /\ RowShape /\ CallShape /\ OwnPayload /\ PayloadShape
    /\ NoSharing /\ OriginalsDiffer /\ NoLeak /\ AssetsIntact /\ StageKept
    /\ CreatorAlone /\ Attempts /\ AppliedOnce

-----------------------------------------------------------------------------
(* Types.                                                                  *)

\* It is the same.
LEMMA TypesAre == TypeOK <=> Types
  BY DEF TypeOK, Types, AssetRows, DraftRows, ForgetRows, OpRows, Metas

Places == {"idle", "begun", "staging", "chunked", "staged", "admitted", "leaving"}

\* What a call looks like after it has gone on: only its place, and once its payload, change.
Moved(c, e, pc, payload) ==
    /\ e.pc = pc /\ e.payload = payload /\ e.kind = c.kind /\ e.op = c.op /\ e.gen = c.gen
    /\ e.asset = c.asset /\ e.draft = c.draft

\* A call that goes on, stages its payload or ends.
LEMMA CallMoves ==
    ASSUME Types, NEW s \in Session
    PROVE  /\ \A pc \in Places : Goto(s, pc) =>
                /\ sessions' \in [Session -> Call]
                /\ Moved(sessions[s], sessions'[s], pc, sessions[s].payload)
                /\ \A t \in Session \ {s} : sessions'[t] = sessions[t]
           /\ \A p \in Payload : sessions' = [sessions EXCEPT ![s].pc = "staging", ![s].payload = p] =>
                /\ sessions' \in [Session -> Call]
                /\ Moved(sessions[s], sessions'[s], "staging", p)
                /\ \A t \in Session \ {s} : sessions'[t] = sessions[t]
           /\ End(s) => /\ sessions' \in [Session -> Call] /\ sessions'[s] = Idle
                        /\ \A t \in Session \ {s} : sessions'[t] = sessions[t]
<1>0. sessions \in [Session -> Call] /\ sessions[s] \in Call
  BY DEF Types
<1>1. ASSUME NEW pc \in Places, Goto(s, pc)
      PROVE  /\ sessions' \in [Session -> Call]
             /\ Moved(sessions[s], sessions'[s], pc, sessions[s].payload)
             /\ \A t \in Session \ {s} : sessions'[t] = sessions[t]
  <2>1. sessions' = [sessions EXCEPT ![s] = [sessions[s] EXCEPT !.pc = pc]]
    BY <1>0, <1>1 DEF Goto
  <2>2. [sessions[s] EXCEPT !.pc = pc] \in Call
    BY <1>0 DEF Call, Places
  <2>3. Moved(sessions[s], [sessions[s] EXCEPT !.pc = pc], pc, sessions[s].payload)
    BY <1>0 DEF Call, Moved
  <2> QED BY <1>0, <2>1, <2>2, <2>3
<1>2. ASSUME NEW p \in Payload, sessions' = [sessions EXCEPT ![s].pc = "staging", ![s].payload = p]
      PROVE  /\ sessions' \in [Session -> Call]
             /\ Moved(sessions[s], sessions'[s], "staging", p)
             /\ \A t \in Session \ {s} : sessions'[t] = sessions[t]
  <2>1. sessions' = [sessions EXCEPT ![s] = [sessions[s] EXCEPT !.pc = "staging", !.payload = p]]
    BY <1>0, <1>2
  <2>2. [sessions[s] EXCEPT !.pc = "staging", !.payload = p] \in Call
    BY <1>0 DEF Call
  <2>3. Moved(sessions[s], [sessions[s] EXCEPT !.pc = "staging", !.payload = p], "staging", p)
    BY <1>0 DEF Call, Moved
  <2> QED BY <1>0, <2>1, <2>2, <2>3
<1>3. ASSUME End(s)
      PROVE  /\ sessions' \in [Session -> Call] /\ sessions'[s] = Idle
             /\ \A t \in Session \ {s} : sessions'[t] = sessions[t]
  <2>1. Idle \in Call
    BY DEF Idle, Call
  <2> QED BY <1>0, <1>3, <2>1 DEF End
<1> QED BY <1>1, <1>2, <1>3

\* A queue grows by a payload whose row exists, and loses nothing.
LEMMA QueueIs ==
    ASSUME NEW jobs, NEW p
    PROVE  /\ jobs \subseteq Queue(jobs, p) /\ Queue(jobs, p) \subseteq jobs \cup {p}
           /\ Row(p) => p \in Queue(jobs, p)
  BY DEF Queue

\* A new call: what it begins with.
LEMMA CallBegins ==
    ASSUME Types, NEW s \in Session, NEW call \in Call, sessions' = [sessions EXCEPT ![s] = call]
    PROVE  /\ sessions' \in [Session -> Call] /\ sessions'[s] = call
           /\ \A t \in Session \ {s} : sessions'[t] = sessions[t]
  BY DEF Types

\* A rolled-over table of receipts belongs to a new generation.
LEMMA GenerationTypes ==
    ASSUME Types, OperationGeneration
    PROVE  /\ meta' \in Metas /\ receipts' \in [Op -> Nat] /\ meta'.run = meta.run
           /\ \/ meta'.gen = meta.gen /\ receipts' = receipts
              \/ meta'.gen = meta.gen + 1
<1>1. CASE ReceiptsFull
  <2>1. meta' = [meta EXCEPT !.gen = @ + 1] /\ receipts' = [o \in Op |-> 0]
    BY <1>1 DEF OperationGeneration
  <2> QED BY <2>1 DEF Types, Metas
<1>2. CASE ~ReceiptsFull
  BY <1>2 DEF OperationGeneration, Types
<1> QED BY <1>1, <1>2

-----------------------------------------------------------------------------
(* Payloads.                                                               *)

ShapeInv == Types /\ RowShape /\ CallShape /\ OwnPayload
PayloadInv ==
    PayloadShape /\ NoSharing /\ OriginalsDiffer /\ NoLeak /\ AssetsIntact /\ StageKept

Staging(c) == c.pc \in {"staging", "chunked", "staged", "admitted"}

\* A call that does not touch its payload in this step: it ends, begins, gives up, or is admitted.
CallQuiet(c, e) ==
    \/ e = c
    \/ e.pc \in {"idle", "begun"} /\ e.payload = None
    \/ Moved(c, e, e.pc, c.payload) /\ c.payload # None
       /\ (e.pc = "leaving" \/ (c.pc = "staged" /\ e.pc = "admitted"))

\* A stage is kept, with its run and generation, or its generation is over.
RunKept ==
    \/ meta'.gen = meta.gen /\ meta'.run = meta.run
    \/ meta'.gen > meta.gen
    \/ \A s \in Session : sessions'[s].payload = None

\* What the calls hold, when they do not touch it.
LEMMA CallsQuiet ==
    ASSUME ShapeInv, Attempts, \A s \in Session : CallQuiet(sessions[s], sessions'[s]), RunKept,
           NEW s \in Session
    PROVE  /\ Staging(sessions'[s]) =>
                Staging(sessions[s]) /\ sessions'[s].payload = sessions[s].payload
           /\ sessions'[s].payload # None => sessions'[s].payload = sessions[s].payload
           /\ Staging(sessions'[s]) /\ Publishes(sessions'[s]) /\ sessions'[s].gen = meta'.gen
              /\ sessions'[s].payload # None =>
                /\ Publishes(sessions[s]) /\ sessions[s].gen = meta.gen
                /\ meta'.gen = meta.gen /\ meta'.run = meta.run
                /\ \/ sessions'[s].pc = sessions[s].pc
                   \/ sessions'[s].pc = "admitted" /\ sessions[s].pc = "staged"
<1>1. sessions[s].gen \in Nat /\ meta.gen \in Nat /\ meta'.gen = meta'.gen
  BY DEF ShapeInv, Types, Call, Metas
<1>2. Publishes(sessions[s]) => sessions[s].gen <= meta.gen
  BY DEF Attempts
<1> QED BY <1>1, <1>2 DEF CallQuiet, Staging, Publishes, Moved, RunKept

\* Steps that leave the stored rows alone.
LEMMA QuietPayloads ==
    ASSUME ShapeInv, PayloadInv, Attempts, UNCHANGED <<payloads, reclaim, assets, originals, drafts>>,
           \A s \in Session : CallQuiet(sessions[s], sessions'[s]), RunKept,
           CallShape'
    PROVE  PayloadInv'
<1>0. \A p : (Referenced(p)' <=> Referenced(p)) /\ (Row(p)' <=> Row(p))
  BY DEF Referenced, Row
<1>1. PayloadShape'
  BY <1>0, CallsQuiet DEF PayloadInv, PayloadShape
<1>2. NoSharing'
  <2>1. ASSUME NEW s \in Session, NEW p, p = sessions'[s].payload, Staging(sessions'[s])
        PROVE  ~Referenced(p)
    <3>1. Staging(sessions[s]) /\ sessions'[s].payload = sessions[s].payload
      BY <2>1, CallsQuiet DEF Staging
    <3> QED BY <2>1, <3>1 DEF PayloadInv, NoSharing, Staging
  <2> QED BY <2>1 DEF PayloadInv, NoSharing, Referenced, Staging
<1>3. OriginalsDiffer' /\ NoLeak' /\ AssetsIntact'
  BY <1>0 DEF PayloadInv, OriginalsDiffer, NoLeak, AssetsIntact, Intact
<1>4. StageKept'
  <2> SUFFICES ASSUME NEW s \in Session, Publishes(sessions'[s]), sessions'[s].gen = meta'.gen,
                      Staging(sessions'[s])
               PROVE  /\ payloads[sessions'[s].payload].owner = meta'.run
                      /\ sessions'[s].payload \notin reclaim
                      /\ payloads[sessions'[s].payload].state =
                            IF sessions'[s].pc \in {"staged", "admitted"} THEN "ready" ELSE "staging"
                      /\ sessions'[s].pc # "staging" => payloads[sessions'[s].payload].content
    BY DEF StageKept, Staging
  <2>1. sessions'[s].payload # None
    BY DEF CallShape, CallFits, Holding, Staging
  <2>2. /\ Publishes(sessions[s]) /\ sessions[s].gen = meta.gen /\ meta'.run = meta.run
        /\ Staging(sessions[s]) /\ sessions'[s].payload = sessions[s].payload
        /\ \/ sessions'[s].pc = sessions[s].pc
           \/ sessions'[s].pc = "admitted" /\ sessions[s].pc = "staged"
    BY <2>1, CallsQuiet
  <2> QED BY <2>2 DEF PayloadInv, StageKept, Staging
<1> QED BY <1>1, <1>2, <1>3, <1>4 DEF PayloadInv

\* A row that goes queues the payload it referred to, and nobody else referred to it.
LEMMA DroppedPayloads ==
    ASSUME ShapeInv, PayloadInv, UNCHANGED <<meta, payloads, sessions>>,
           NEW p \in Payload, Referenced(p), reclaim' = Queue(reclaim, p),
           \A a \in Asset : /\ assets'[a] = assets[a] \/ assets'[a] = NoAsset
                            /\ assets'[a].payload # p
                            /\ originals'[a] = originals[a] \/ originals'[a] = None
                            /\ originals'[a] # p,
           \A d \in Draft : drafts'[d].payload = drafts[d].payload \/ drafts'[d].payload = None,
           \A q \in Payload : Referenced(q) => Referenced(q)' \/ q = p
    PROVE  PayloadInv'
<1>0. None \notin Payload
  BY BoundAssumption
<1>1. payloads[p].state = "published" /\ Row(p)
  BY DEF PayloadInv, PayloadShape, Row
<1>2. reclaim' = reclaim \cup {p}
  BY <1>1 DEF Queue
<1>3. \A q \in Payload : Referenced(q)' => Referenced(q)
  BY <1>0 DEF Referenced, NoAsset
<1>4. \A q : Row(q)' <=> Row(q)
  BY DEF Row
<1>5. PayloadShape'
  BY <1>1, <1>2, <1>3, <1>4 DEF PayloadInv, PayloadShape
<1>6. NoSharing'
  <2>1. ASSUME NEW s \in Session, NEW q, q = sessions[s].payload, Staging(sessions[s])
        PROVE  ~Referenced(q)'
    <3>1. ~Referenced(q)
      BY <2>1 DEF PayloadInv, NoSharing, Staging
    <3>2. q \in Payload
      BY <2>1 DEF ShapeInv, Types, CallShape, CallFits, Holding, Staging, Call
    <3> QED BY <1>3, <3>1, <3>2
  <2>2. \A s \in Session : Staging(sessions[s]) => ~Referenced(sessions[s].payload)'
    BY <2>1
  <2>3. /\ \A a, b \in Asset : assets'[a].payload = assets'[b].payload /\ a # b
                                  => assets'[a].payload = None
        /\ \A a, b \in Asset : originals'[a] # None => originals'[a] # assets'[b].payload
        /\ \A a \in Asset, d \in Draft : drafts'[d].payload # None =>
              drafts'[d].payload \notin {assets'[a].payload, originals'[a]}
    BY DEF PayloadInv, NoSharing, NoAsset
  <2> QED BY <2>2, <2>3 DEF NoSharing, Staging
<1>7. OriginalsDiffer'
  BY DEF PayloadInv, OriginalsDiffer
<1>8. NoLeak'
  BY <1>2, <1>4 DEF PayloadInv, NoLeak
<1>9. AssetsIntact'
  BY <1>2 DEF PayloadInv, AssetsIntact, Intact, NoAsset
<1>10. StageKept'
  <2>1. \A s \in Session : Staging(sessions[s]) => sessions[s].payload # p
    BY DEF PayloadInv, NoSharing, Staging
  <2> QED BY <1>2, <2>1 DEF PayloadInv, StageKept, Staging
<1> QED BY <1>5, <1>6, <1>7, <1>8, <1>9, <1>10 DEF PayloadInv

\* A call that ends may queue its payload, if no row refers to it.
LEMMA ReleasedPayload ==
    ASSUME ShapeInv, PayloadInv, UNCHANGED <<meta, payloads, assets, originals, drafts>>,
           NEW s \in Session, End(s),
           \/ reclaim' = reclaim
           \/ /\ reclaim' = Queue(reclaim, sessions[s].payload)
              /\ sessions[s].payload \in Payload /\ ~Referenced(sessions[s].payload)
    PROVE  PayloadInv'
<1>1. /\ sessions'[s] = Idle /\ \A t \in Session \ {s} : sessions'[t] = sessions[t]
  BY CallMoves DEF ShapeInv
<1>2. PICK p : p = sessions[s].payload
  OBVIOUS
<1>3. \A q : (Referenced(q)' <=> Referenced(q)) /\ (Row(q)' <=> Row(q))
  BY DEF Referenced, Row
<1>4. reclaim \subseteq reclaim' /\ \A q \in reclaim' : q \in reclaim \/ (q = p /\ Row(q) /\ ~Referenced(p))
  BY <1>2, QueueIs DEF Queue
<1>5. PayloadShape'
  <2>1. \A t \in Session : sessions'[t].payload # None => sessions'[t] = sessions[t]
    BY <1>1 DEF Idle
  <2> QED BY <1>3, <1>4, <2>1 DEF PayloadInv, PayloadShape
<1>6. NoSharing'
  <2>1. \A t \in Session : Staging(sessions'[t]) => sessions'[t] = sessions[t]
    BY <1>1 DEF Staging, Idle
  <2>2. \A t \in Session : Staging(sessions'[t]) => ~Referenced(sessions[t].payload)
    BY <2>1 DEF PayloadInv, NoSharing, Staging
  <2> QED BY <1>3, <2>1, <2>2 DEF PayloadInv, NoSharing, Referenced, Staging
<1>7. OriginalsDiffer' /\ NoLeak'
  BY <1>3, <1>4 DEF PayloadInv, OriginalsDiffer, NoLeak
<1>8. AssetsIntact'
  BY <1>4 DEF PayloadInv, AssetsIntact, Intact, Referenced
<1>9. StageKept'
  <2>1. ASSUME NEW t \in Session, Staging(sessions'[t])
        PROVE  sessions'[t] = sessions[t] /\ (p \in Payload => sessions[t].payload # p)
    <3>1. t # s /\ sessions'[t] = sessions[t]
      BY <1>1, <2>1 DEF Staging, Idle
    <3>2. sessions[t].payload # None
      BY <2>1, <3>1 DEF ShapeInv, CallShape, CallFits, Holding, Staging
    <3> QED BY <1>2, <3>1, <3>2 DEF ShapeInv, OwnPayload
  <2>2. \A t \in Session : Staging(sessions'[t]) /\ sessions[t].payload \in reclaim'
           => sessions[t].payload \in reclaim
    BY <1>2, <1>4, <2>1
  <2> QED BY <2>1, <2>2 DEF PayloadInv, StageKept, Staging
<1> QED BY <1>5, <1>6, <1>7, <1>8, <1>9 DEF PayloadInv

\* The first write of a call inserts a row that nobody knows.
LEMMA InsertPayloads ==
    ASSUME ShapeInv, PayloadInv, NEW s \in Session, StageInsert(s)
    PROVE  PayloadInv' /\ \E p \in Payload : /\ sessions' = [sessions EXCEPT ![s].pc = "staging", ![s].payload = p]
                                             /\ \A t \in Session : sessions[t].payload # p
<1>0. Types /\ None \notin Payload
  BY BoundAssumption DEF ShapeInv
<1>1. PICK p \in Payload :
        /\ payloads[p].state = "unused"
        /\ payloads' = [payloads EXCEPT ![p] =
               [state |-> "staging", owner |-> meta.run, content |-> FALSE]]
        /\ sessions' = [sessions EXCEPT ![s].pc = "staging", ![s].payload = p]
  BY DEF StageInsert
<1>2. /\ Moved(sessions[s], sessions'[s], "staging", p)
      /\ \A t \in Session \ {s} : sessions'[t] = sessions[t]
  BY <1>0, <1>1, CallMoves
<1>3. UNCHANGED <<meta, reclaim, assets, originals, drafts>>
  BY DEF StageInsert
<1>4. /\ payloads'[p].state = "staging" /\ payloads'[p].owner = meta.run /\ payloads'[p].content = FALSE
      /\ \A q \in Payload \ {p} : payloads'[q] = payloads[q]
      /\ \A q : q # p /\ q \in DOMAIN payloads => payloads'[q] = payloads[q]
  BY <1>0, <1>1 DEF Types
<1>5. ~Referenced(p) /\ p \notin reclaim /\ \A t \in Session : sessions[t].payload # p
  BY <1>0, <1>1 DEF PayloadInv, PayloadShape, Row
<1>6. \A q : Referenced(q)' <=> Referenced(q)
  BY <1>3 DEF Referenced
<1>7. meta.run > 0 /\ meta.run \in Nat
  BY DEF ShapeInv, RowShape, Types, Metas
<1>8. \A t \in Session : sessions[t].payload \in Payload \cup {None}
  BY <1>0 DEF Types, Call
<1>9. PayloadShape'
  <2>1. \A q \in Payload : payloads'[q].state = "published" => payloads'[q].owner = 0
    BY <1>4 DEF PayloadInv, PayloadShape
  <2>2. \A q \in Payload : Referenced(q)' => payloads'[q].state = "published"
    BY <1>4, <1>5, <1>6 DEF PayloadInv, PayloadShape
  <2>3. \A t \in Session : sessions'[t].payload # None => payloads'[sessions'[t].payload].state # "unused"
    BY <1>2, <1>4, <1>8 DEF PayloadInv, PayloadShape, Moved
  <2>4. \A q \in reclaim' : Row(q)'
    BY <1>0, <1>3, <1>4 DEF PayloadInv, PayloadShape, Row, Types
  <2> QED BY <2>1, <2>2, <2>3, <2>4 DEF PayloadShape
<1>10. NoSharing'
  <2>1. ASSUME NEW t \in Session, NEW q, q = sessions'[t].payload, Staging(sessions'[t])
        PROVE  ~Referenced(q)
    BY <1>2, <1>5, <2>1 DEF PayloadInv, NoSharing, Staging, Moved
  <2> QED BY <1>3, <2>1 DEF PayloadInv, NoSharing, Referenced, Staging
<1>11. OriginalsDiffer'
  BY <1>3 DEF PayloadInv, OriginalsDiffer
<1>12. NoLeak'
  BY <1>3, <1>4, <1>6, <1>7 DEF PayloadInv, NoLeak, Row
<1>13. AssetsIntact'
  <2>1. \A a \in Asset : /\ assets[a].rev > 0 => assets[a].payload \in Payload
                         /\ originals[a] # None => originals[a] \in Payload
    BY <1>0 DEF ShapeInv, RowShape, Types, AssetRows
  <2>2. \A a \in Asset : assets[a].payload # p /\ originals[a] # p
    BY <1>5 DEF Referenced
  <2> QED BY <1>3, <1>4, <2>1, <2>2 DEF PayloadInv, AssetsIntact, Intact
<1>14. StageKept'
  BY <1>2, <1>3, <1>4, <1>5, <1>8 DEF PayloadInv, StageKept, Moved, Publishes,
     ShapeInv, CallShape, CallFits, Holding
<1> QED BY <1>1, <1>5, <1>9, <1>10, <1>11, <1>12, <1>13, <1>14 DEF PayloadInv

\* The later writes of a stage touch only the payload of their own call.
LEMMA StagedPayloads ==
    ASSUME ShapeInv, PayloadInv, NEW s \in Session, StageChunks(s) \/ StageReady(s)
    PROVE  PayloadInv'
<1>0. Types /\ None \notin Payload /\ sessions[s] \in Call
  BY BoundAssumption DEF ShapeInv, Types
<1>1. Staging(sessions[s]) /\ sessions[s].pc \in {"staging", "chunked"}
  BY DEF StageChunks, StageReady, Staging
<1>2. PICK p \in Payload : p = sessions[s].payload
  BY <1>0, <1>1 DEF ShapeInv, CallShape, CallFits, Holding, Staging, Call
<1>3. UNCHANGED <<meta, reclaim, assets, originals, drafts>>
  BY DEF StageChunks, StageReady
<1>4. /\ sessions[s].pc = "staging" => sessions'[s].pc = "chunked"
      /\ sessions[s].pc = "chunked" => sessions'[s].pc = "staged"
      /\ Moved(sessions[s], sessions'[s], sessions'[s].pc, p)
      /\ \A t \in Session \ {s} : sessions'[t] = sessions[t]
  <2>1. ASSUME NEW l \in {"chunked", "staged"}, Goto(s, l)
        PROVE  /\ Moved(sessions[s], sessions'[s], l, p)
               /\ \A t \in Session \ {s} : sessions'[t] = sessions[t]
    BY <1>0, <1>2, <2>1, CallMoves DEF Places
  <2> QED BY <2>1 DEF StageChunks, StageReady, Moved
<1>5. /\ sessions[s].pc = "staging" => payloads' = [payloads EXCEPT ![p] = [payloads[p] EXCEPT !.content = TRUE]]
      /\ sessions[s].pc = "chunked" => payloads' = IF payloads[p].state = "staging"
            THEN [payloads EXCEPT ![p] = [payloads[p] EXCEPT !.state = "ready"]] ELSE payloads
  BY <1>0, <1>2 DEF StageChunks, StageReady, Types
<1>6. /\ \A q \in Payload \ {p} : payloads'[q] = payloads[q]
      /\ payloads'[p].owner = payloads[p].owner
      /\ sessions[s].pc = "staging" => payloads'[p].state = payloads[p].state /\ payloads'[p].content
      /\ sessions[s].pc = "chunked" => /\ payloads'[p].content = payloads[p].content
                                       /\ payloads[p].state = "staging" => payloads'[p].state = "ready"
                                       /\ payloads[p].state # "staging" => payloads'[p] = payloads[p]
  <2>1. payloads \in [Payload -> PayloadRow] /\ payloads[p] \in PayloadRow
    BY <1>0 DEF Types
  <2>2. CASE sessions[s].pc = "staging"
    <3>1. payloads'[p] = [payloads[p] EXCEPT !.content = TRUE]
      BY <1>5, <2>1, <2>2
    <3> QED BY <1>5, <2>1, <2>2, <3>1 DEF PayloadRow
  <2>3. CASE sessions[s].pc = "chunked" /\ payloads[p].state = "staging"
    <3>1. payloads'[p] = [payloads[p] EXCEPT !.state = "ready"]
      BY <1>5, <2>1, <2>3
    <3> QED BY <1>5, <2>1, <2>3, <3>1 DEF PayloadRow
  <2>4. CASE sessions[s].pc = "chunked" /\ payloads[p].state # "staging"
    BY <1>5, <2>1, <2>4
  <2> QED BY <1>1, <2>2, <2>3, <2>4
<1>7. ~Referenced(p) /\ \A q : Referenced(q)' <=> Referenced(q)
  BY <1>1, <1>2, <1>3 DEF PayloadInv, NoSharing, Staging, Referenced
<1>8. \A q \in Payload : /\ Row(q)' <=> Row(q)
                         /\ payloads'[q].owner = payloads[q].owner
                         /\ payloads'[q].state = "published" <=> payloads[q].state = "published"
                         /\ payloads[q].state # "unused" => payloads'[q].state # "unused"
  BY <1>1, <1>6 DEF Row
<1>9. \A t \in Session : /\ sessions[t].payload \in Payload \cup {None}
                         /\ sessions'[t].payload = sessions[t].payload
                         /\ Staging(sessions'[t]) <=> Staging(sessions[t])
                         /\ t # s => sessions[t].payload # p
  BY <1>0, <1>1, <1>2, <1>4 DEF Types, Call, Moved, Staging, ShapeInv, OwnPayload
<1>10. PayloadShape'
  BY <1>0, <1>3, <1>7, <1>8, <1>9 DEF PayloadInv, PayloadShape, Types
<1>11. NoSharing'
  <2>1. ASSUME NEW t \in Session, NEW q, q = sessions'[t].payload, Staging(sessions'[t])
        PROVE  ~Referenced(q)
    BY <1>9, <2>1 DEF PayloadInv, NoSharing, Staging
  <2> QED BY <1>3, <2>1 DEF PayloadInv, NoSharing, Referenced, Staging
<1>12. OriginalsDiffer' /\ NoLeak'
  BY <1>3, <1>7, <1>8 DEF PayloadInv, OriginalsDiffer, NoLeak
<1>13. AssetsIntact'
  <2>1. \A a \in Asset : /\ assets[a].rev > 0 => assets[a].payload \in Payload
                         /\ originals[a] # None => originals[a] \in Payload
    BY <1>0 DEF ShapeInv, RowShape, Types, AssetRows
  <2>2. \A a \in Asset : assets[a].payload # p /\ originals[a] # p
    BY <1>7 DEF Referenced
  <2> QED BY <1>3, <1>6, <2>1, <2>2 DEF PayloadInv, AssetsIntact, Intact
<1>14. StageKept'
  <2>1. ASSUME NEW t \in Session, t # s PROVE (sessions'[t] = sessions[t]) /\
          (Staging(sessions[t]) => payloads'[sessions[t].payload] = payloads[sessions[t].payload])
    <3>1. Staging(sessions[t]) => sessions[t].payload \in Payload
      BY <1>9 DEF ShapeInv, CallShape, CallFits, Holding, Staging
    <3> QED BY <1>4, <1>6, <1>9, <2>1, <3>1
  <2>2. Publishes(sessions'[s]) /\ sessions'[s].gen = meta.gen =>
          /\ payloads'[p].owner = meta.run /\ p \notin reclaim /\ payloads'[p].content
          /\ payloads'[p].state = IF sessions'[s].pc = "staged" THEN "ready" ELSE "staging"
    BY <1>1, <1>2, <1>4, <1>6 DEF PayloadInv, StageKept, Moved, Publishes
  <2> QED BY <1>1, <1>2, <1>3, <1>4, <1>9, <2>1, <2>2 DEF PayloadInv, StageKept, Staging
<1> QED BY <1>10, <1>11, <1>12, <1>13, <1>14 DEF PayloadInv

\* Calls and rows keep their payloads when a batch only touches p, to which no row refers and
\* which no current publication stages.
LEMMA BatchPayloads ==
    ASSUME ShapeInv, PayloadInv, UNCHANGED <<meta, assets, originals, drafts, sessions>>,
           NEW p \in Payload, Row(p), ~Referenced(p),
           \A q \in Payload \ {p} : payloads'[q] = payloads[q],
           reclaim' \subseteq Payload, reclaim' \ {p} = reclaim \ {p},
           payloads'[p].state # "unused", payloads'[p].state = "published" => payloads'[p].owner = 0,
           Row(p)' <=> p \in reclaim',
           \A s \in Session : LET c == sessions[s] IN
              Publishes(c) /\ c.gen = meta.gen /\ Staging(c) => c.payload # p
    PROVE  PayloadInv'
<1>0. Types /\ None \notin Payload
  BY BoundAssumption DEF ShapeInv
<1>1. \A q : Referenced(q)' <=> Referenced(q)
  BY DEF Referenced
<1>2. \A q \in Payload \ {p} : (Row(q)' <=> Row(q)) /\ (q \in reclaim' <=> q \in reclaim)
  BY DEF Row
<1>3. \A t \in Session : sessions[t].payload \in Payload \cup {None}
  BY <1>0 DEF Types, Call
<1>4. PayloadShape'
  BY <1>1, <1>2, <1>3 DEF PayloadInv, PayloadShape
<1>5. NoSharing'
  BY DEF PayloadInv, NoSharing, Referenced
<1>6. OriginalsDiffer' /\ NoLeak'
  BY <1>1, <1>2 DEF PayloadInv, OriginalsDiffer, NoLeak
<1>7. AssetsIntact'
  <2>1. \A a \in Asset : /\ assets[a].rev > 0 => assets[a].payload \in Payload
                         /\ originals[a] # None => originals[a] \in Payload
    BY <1>0 DEF ShapeInv, RowShape, Types, AssetRows
  <2>2. \A a \in Asset : assets[a].payload # p /\ originals[a] # p
    BY DEF Referenced
  <2> QED BY <1>2, <2>1, <2>2 DEF PayloadInv, AssetsIntact, Intact
<1>8. StageKept'
  <2>1. \A t \in Session : Staging(sessions[t]) => sessions[t].payload \in Payload
    BY <1>3 DEF ShapeInv, CallShape, CallFits, Holding, Staging
  <2> QED BY <1>2, <2>1 DEF PayloadInv, StageKept, Staging
<1> QED BY <1>4, <1>5, <1>6, <1>7, <1>8 DEF PayloadInv

\* The recovery takes over only stages of an earlier run, and queues them.
LEMMA RecoverPayloads ==
    ASSUME ShapeInv, PayloadInv, RecoverStage
    PROVE  PayloadInv' /\ payloads' \in [Payload -> PayloadRow] /\ reclaim' \in SUBSET Payload
<1>0. Types /\ meta.run > 0 /\ meta.run \in Nat
  BY DEF ShapeInv, RowShape, Types, Metas
<1>1. PICK p \in Interrupted : /\ reclaim' = reclaim \cup {p}
                               /\ payloads' = [payloads EXCEPT ![p].owner = 0]
  BY DEF RecoverStage
<1>2. p \in Payload /\ Row(p) /\ payloads[p] \in PayloadRow
      /\ payloads[p].owner # meta.run /\ (payloads[p].state = "published" => payloads[p].owner # 0)
  BY <1>0, <1>1 DEF Interrupted, Row, Types, PayloadRow
<1>3. payloads' = [payloads EXCEPT ![p] = [payloads[p] EXCEPT !.owner = 0]]
  BY <1>0, <1>1, <1>2 DEF Types
<1>4. /\ payloads'[p].state = payloads[p].state /\ payloads'[p].owner = 0
      /\ \A q \in Payload \ {p} : payloads'[q] = payloads[q]
      /\ payloads' \in [Payload -> PayloadRow]
  <2>1. [payloads[p] EXCEPT !.owner = 0] \in PayloadRow
    BY <1>2 DEF PayloadRow
  <2>2. [payloads[p] EXCEPT !.owner = 0].state = payloads[p].state
        /\ [payloads[p] EXCEPT !.owner = 0].owner = 0
    BY <1>2 DEF PayloadRow
  <2> QED BY <1>0, <1>2, <1>3, <2>1, <2>2 DEF Types
<1>5. ~Referenced(p)
  BY <1>2 DEF PayloadInv, PayloadShape
<1>6. \A s \in Session : LET c == sessions[s] IN
         Publishes(c) /\ c.gen = meta.gen /\ Staging(c) => c.payload # p
  BY <1>2 DEF PayloadInv, StageKept, Staging
<1>7. UNCHANGED <<meta, assets, originals, drafts, sessions>>
  BY DEF RecoverStage
<1>8. /\ reclaim' \subseteq Payload /\ reclaim' \ {p} = reclaim \ {p} /\ payloads'[p].state # "unused"
      /\ Row(p)' /\ p \in reclaim'
  BY <1>0, <1>1, <1>2, <1>4 DEF Types, Row
<1> QED BY <1>2, <1>4, <1>5, <1>6, <1>7, <1>8, BatchPayloads

\* The reclaim empties and then removes a row to which nobody refers.
LEMMA ReclaimPayloads ==
    ASSUME ShapeInv, PayloadInv, ReclaimPayload
    PROVE  PayloadInv' /\ payloads' \in [Payload -> PayloadRow] /\ reclaim' \in SUBSET Payload
<1>0. Types
  BY DEF ShapeInv
<1>1. PICK p \in reclaim :
        /\ ~Referenced(p)
        /\ IF payloads[p].content
           THEN /\ payloads' = [payloads EXCEPT ![p].content = FALSE]
                /\ UNCHANGED reclaim
           ELSE /\ payloads' = [payloads EXCEPT ![p] = [state |-> "gone", owner |-> 0, content |-> FALSE]]
                /\ reclaim' = reclaim \ {p}
  BY DEF ReclaimPayload
<1>2. p \in Payload /\ Row(p) /\ payloads[p] \in PayloadRow /\ reclaim \subseteq Payload
  BY <1>0, <1>1 DEF Types, PayloadInv, PayloadShape
<1>3. \A s \in Session : LET c == sessions[s] IN
         Publishes(c) /\ c.gen = meta.gen /\ Staging(c) => c.payload # p
  BY <1>1 DEF PayloadInv, StageKept, Staging
<1>4. UNCHANGED <<meta, assets, originals, drafts, sessions>>
  BY DEF ReclaimPayload
<1>5. CASE payloads[p].content
  <2>1. payloads' = [payloads EXCEPT ![p] = [payloads[p] EXCEPT !.content = FALSE]] /\ reclaim' = reclaim
    BY <1>0, <1>1, <1>2, <1>5 DEF Types
  <2>2. [payloads[p] EXCEPT !.content = FALSE] \in PayloadRow
        /\ [payloads[p] EXCEPT !.content = FALSE].state = payloads[p].state
        /\ [payloads[p] EXCEPT !.content = FALSE].owner = payloads[p].owner
    BY <1>2 DEF PayloadRow
  <2>3. /\ payloads'[p].state = payloads[p].state /\ payloads'[p].owner = payloads[p].owner
        /\ \A q \in Payload \ {p} : payloads'[q] = payloads[q]
        /\ payloads' \in [Payload -> PayloadRow]
    BY <1>0, <1>2, <2>1, <2>2 DEF Types
  <2>4. Row(p)' /\ payloads'[p].state # "unused" /\ (payloads'[p].state = "published" => payloads'[p].owner = 0)
    BY <1>2, <2>3 DEF Row, PayloadInv, PayloadShape
  <2> QED BY <1>1, <1>2, <1>3, <1>4, <2>1, <2>3, <2>4, BatchPayloads
<1>6. CASE ~payloads[p].content
  <2>1. [state |-> "gone", owner |-> 0, content |-> FALSE] \in PayloadRow
    BY DEF PayloadRow
  <2>0. reclaim' = reclaim \ {p} /\
        payloads' = [payloads EXCEPT ![p] = [state |-> "gone", owner |-> 0, content |-> FALSE]]
    BY <1>1, <1>6
  <2>2. /\ payloads'[p].state = "gone" /\ \A q \in Payload \ {p} : payloads'[q] = payloads[q]
        /\ payloads' \in [Payload -> PayloadRow] /\ reclaim' = reclaim \ {p}
    BY <1>0, <1>2, <2>0, <2>1 DEF Types
  <2>3. ~Row(p)' /\ p \notin reclaim'
    BY <2>2 DEF Row
  <2> QED BY <1>1, <1>2, <1>3, <1>4, <2>2, <2>3, BatchPayloads
<1> QED BY <1>5, <1>6

\* The row-to-row half of NoSharing.
RowsApart ==
    /\ \A a, b \in Asset : assets[a].payload = assets[b].payload /\ a # b
                              => assets[a].payload = None
    /\ \A a, b \in Asset : originals[a] # None => originals[a] # assets[b].payload
    /\ \A a \in Asset, d \in Draft : drafts[d].payload # None =>
          drafts[d].payload \notin {assets[a].payload, originals[a]}

\* A transaction that makes a staged payload visible, and queues those it replaces.
LEMMA PublishedPayloads ==
    ASSUME ShapeInv, PayloadInv, UNCHANGED meta,
           NEW s \in Session, Staging(sessions[s]), Goto(s, "leaving"),
           NEW p \in Payload, p = sessions[s].payload, Row(p), payloads' = Published(payloads, p),
           NEW Dropped \in SUBSET Payload, reclaim' = reclaim \cup Dropped,
           \A q \in Dropped : Referenced(q),
           \A q \in Payload : Referenced(q)' => Referenced(q) \/ q = p,
           \A q \in Payload : Referenced(q) => Referenced(q)' \/ q \in Dropped,
           Referenced(p)',
           RowsApart', OriginalsDiffer',
           \A a \in Asset :
              /\ assets'[a].rev > 0 /\ assets'[a].payload # p =>
                   assets'[a].payload \in Payload /\ Intact(assets'[a].payload)
                   /\ assets'[a].payload \notin Dropped
              /\ originals'[a] # None => originals'[a] \in Payload /\ originals'[a] # p
                   /\ Intact(originals'[a]) /\ originals'[a] \notin Dropped,
           \A a \in Asset : assets'[a].payload = p => payloads[p].content /\ p \notin reclaim
    PROVE  PayloadInv'
<1>0. Types /\ None \notin Payload
  BY BoundAssumption DEF ShapeInv
<1>1. /\ Moved(sessions[s], sessions'[s], "leaving", p)
      /\ \A t \in Session \ {s} : sessions'[t] = sessions[t]
  BY <1>0, CallMoves DEF Places
<1>2. ~Referenced(p) /\ p \notin Dropped
  BY DEF PayloadInv, NoSharing, Staging
<1>3. /\ payloads'[p].state = "published" /\ payloads'[p].owner = 0
      /\ payloads'[p].content = payloads[p].content
      /\ \A q \in Payload \ {p} : payloads'[q] = payloads[q]
  <2>0. payloads \in [Payload -> PayloadRow] /\ payloads[p] \in PayloadRow
    BY <1>0 DEF Types
  <2>1. payloads' = [payloads EXCEPT ![p] = [payloads[p] EXCEPT !.state = "published", !.owner = 0]]
    BY <2>0 DEF Published, Row
  <2>2. payloads'[p] = [payloads[p] EXCEPT !.state = "published", !.owner = 0]
    BY <2>0, <2>1
  <2> QED BY <2>0, <2>1, <2>2 DEF PayloadRow
<1>4. \A q \in Payload : Row(q)' <=> Row(q)
  BY <1>3 DEF Row
<1>5. \A t \in Session : /\ sessions[t].payload \in Payload \cup {None}
                         /\ sessions'[t].payload = sessions[t].payload
                         /\ Staging(sessions'[t]) => t # s /\ sessions'[t] = sessions[t]
                                                     /\ sessions[t].payload \in Payload \ {p}
  <2>1. \A t \in Session : sessions[t].payload \in Payload \cup {None}
    BY <1>0 DEF Types, Call
  <2>2. \A t \in Session : Staging(sessions[t]) => sessions[t].payload # None
    BY DEF ShapeInv, CallShape, CallFits, Holding, Staging
  <2> QED BY <1>1, <2>1, <2>2 DEF Moved, Staging, ShapeInv, OwnPayload
<1>6. PayloadShape'
  <2>1. \A q \in Payload : /\ payloads'[q].state = "published" => payloads'[q].owner = 0
                           /\ Referenced(q)' => payloads'[q].state = "published"
                           /\ payloads[q].state # "unused" => payloads'[q].state # "unused"
    BY <1>3 DEF PayloadInv, PayloadShape
  <2>2. \A q \in reclaim' : Row(q)'
    BY <1>0, <1>4 DEF PayloadInv, PayloadShape, Row, Types
  <2> QED BY <1>5, <2>1, <2>2 DEF PayloadInv, PayloadShape
<1>7. NoSharing'
  <2>1. ASSUME NEW t \in Session, NEW q, q = sessions'[t].payload, Staging(sessions'[t])
        PROVE  ~Referenced(q)'
    <3>1. q \in Payload \ {p} /\ ~Referenced(q)
      BY <1>5, <2>1 DEF PayloadInv, NoSharing, Staging
    <3> QED BY <3>1
  <2>2. \A t \in Session : Staging(sessions'[t]) => \A q : q = sessions'[t].payload => ~Referenced(q)'
    BY <2>1
  <2> QED BY <2>2 DEF NoSharing, RowsApart, Staging, Referenced
<1>8. NoLeak'
  BY <1>3, <1>4 DEF PayloadInv, NoLeak
<1>9. AssetsIntact'
  <2>1. ASSUME NEW a \in Asset
        PROVE  /\ assets'[a].rev > 0 => payloads'[assets'[a].payload].state = "published"
                     /\ payloads'[assets'[a].payload].content /\ assets'[a].payload \notin reclaim'
               /\ originals'[a] # None => payloads'[originals'[a]].state = "published"
                     /\ payloads'[originals'[a]].content /\ originals'[a] \notin reclaim'
    BY <1>2, <1>3 DEF Intact
  <2> QED BY <2>1 DEF AssetsIntact, Intact
<1>10. StageKept'
  <2>1. \A t \in Session : Staging(sessions'[t]) => sessions[t].payload \notin Dropped
    BY <1>5 DEF PayloadInv, NoSharing, Staging
  <2> QED BY <1>3, <1>5, <2>1 DEF PayloadInv, StageKept, Staging
<1> QED BY <1>6, <1>7, <1>8, <1>9, <1>10 DEF PayloadInv

\* A draft row that goes.
LEMMA DraftDeleted ==
    ASSUME Types, NEW d \in Draft, drafts' = DeleteDraft(drafts, d)
    PROVE  /\ drafts' \in [Draft -> DraftRows] /\ \A e \in Draft \ {d} : drafts'[e] = drafts[e]
           /\ drafts'[d].state = "gone" /\ drafts'[d].payload = None
<1>0. drafts \in [Draft -> DraftRows] /\ drafts[d] \in DraftRows
  BY DEF Types
<1>1. drafts' = [drafts EXCEPT ![d] = [drafts[d] EXCEPT !.state = "gone", !.payload = None]]
  BY <1>0 DEF DeleteDraft
<1>2. [drafts[d] EXCEPT !.state = "gone", !.payload = None] \in DraftRows
  BY <1>0 DEF DraftRows
<1>3. drafts'[d] = [drafts[d] EXCEPT !.state = "gone", !.payload = None]
  BY <1>0, <1>1
<1> QED BY <1>0, <1>1, <1>2, <1>3 DEF DraftRows

\* A draft row that takes the payload of a call.
LEMMA DraftWritten ==
    ASSUME ShapeInv, CreatorAlone, NEW s \in Session, CreateDraft(s) \/ WriteDraft(s)
    PROVE  LET d == sessions[s].draft p == sessions[s].payload IN
           /\ d \in Draft /\ p \in Payload
           /\ drafts' \in [Draft -> DraftRows] /\ \A e \in Draft \ {d} : drafts'[e] = drafts[e]
           /\ drafts'[d].state = "live" /\ drafts'[d].payload = p
           /\ \/ CreateDraft(s) /\ drafts[d] = NoDraft /\ drafts'[d].target = sessions[s].asset
              \/ WriteDraft(s) /\ drafts[d].state = "live" /\ drafts'[d].target = drafts[d].target
<1>0. Types /\ sessions[s] \in Call /\ CallFits(sessions[s])
  BY DEF ShapeInv, Types, CallShape
<1>1. PICK d \in Draft, p \in Payload : d = sessions[s].draft /\ p = sessions[s].payload
  <2>1. sessions[s].draft \in Draft
    BY <1>0 DEF CreateDraft, WriteDraft, CallFits
  <2>2. sessions[s].payload \in Payload
    BY <1>0 DEF CreateDraft, WriteDraft, CallFits, Holding, Call
  <2> QED BY <2>1, <2>2
<1>2. drafts \in [Draft -> DraftRows] /\ drafts[d] \in DraftRows
  BY <1>0 DEF Types
<1>3. CASE CreateDraft(s)
  <2>1. drafts[d] = NoDraft
    BY <1>1, <1>3 DEF CreateDraft, CreatorAlone
  <2>2. PICK r : r = [state |-> "live", rev |-> 1, target |-> sessions[s].asset,
                      trev |-> sessions[s].expected, payload |-> p]
    OBVIOUS
  <2>3. drafts' = [drafts EXCEPT ![d] = r]
    BY <1>1, <1>3, <2>2 DEF CreateDraft
  <2>4. r \in DraftRows /\ r.state = "live" /\ r.payload = p /\ r.target = sessions[s].asset
    BY <1>0, <2>2 DEF DraftRows, Call
  <2> QED BY <1>1, <1>2, <1>3, <2>1, <2>3, <2>4
<1>4. CASE WriteDraft(s)
  <2>1. drafts[d].state = "live"
    BY <1>1, <1>4 DEF WriteDraft, Visible
  <2>2. PICK n \in Nat : n = drafts[d].rev + 1
    BY <1>2 DEF DraftRows
  <2>. PICK r : r = [drafts[d] EXCEPT !.rev = n, !.payload = p]
    OBVIOUS
  <2>3. drafts' = [drafts EXCEPT ![d] = r]
    BY <1>1, <1>2, <1>4, <2>2 DEF WriteDraft, DraftRows
  <2>4. r \in DraftRows /\ r.state = "live" /\ r.payload = p /\ r.target = drafts[d].target
    BY <1>2, <2>1, <2>2 DEF DraftRows
  <2> QED BY <1>1, <1>2, <1>4, <2>1, <2>3, <2>4
<1> QED BY <1>3, <1>4

\* The payload of a draft transaction becomes the draft's, the one it had is queued.
LEMMA DraftPayloads ==
    ASSUME ShapeInv, PayloadInv, CreatorAlone, NEW s \in Session, CreateDraft(s) \/ WriteDraft(s)
    PROVE  PayloadInv'
<1>0. Types /\ None \notin Payload
  BY BoundAssumption DEF ShapeInv
<1>1. PICK d \in Draft, p \in Payload :
        /\ d = sessions[s].draft /\ p = sessions[s].payload
        /\ \A e \in Draft \ {d} : drafts'[e] = drafts[e]
        /\ drafts'[d].payload = p
        /\ \/ CreateDraft(s) /\ drafts[d] = NoDraft
           \/ WriteDraft(s) /\ drafts[d].state = "live"
  BY DraftWritten
<1>2. /\ Row(p) /\ payloads' = Published(payloads, p) /\ Goto(s, "leaving")
      /\ UNCHANGED <<meta, assets, originals>> /\ Staging(sessions[s])
  BY <1>1 DEF CreateDraft, WriteDraft, Staging
<1>3. PICK Dropped \in SUBSET Payload :
        /\ reclaim' = reclaim \cup Dropped
        /\ \A q \in Dropped : q = drafts[d].payload
        /\ drafts[d].payload # None => drafts[d].payload \in Dropped
  <2>1. CASE CreateDraft(s) /\ drafts[d] = NoDraft
    <3>1. reclaim' = reclaim /\ drafts[d].payload = None
      BY <2>1 DEF CreateDraft, NoDraft
    <3>2. {} \in SUBSET Payload /\ reclaim' = reclaim \cup {}
      BY <3>1
    <3> QED BY <3>1, <3>2
  <2>2. CASE WriteDraft(s) /\ drafts[d].state = "live"
    <3>1. PICK q : q = drafts[d].payload
      OBVIOUS
    <3>2. q # None /\ q \in Payload
      BY <1>0, <2>2, <3>1 DEF ShapeInv, RowShape, Types, DraftRows
    <3>3. Row(q)
      BY <3>1, <3>2 DEF PayloadInv, PayloadShape, Referenced, Row
    <3>4. reclaim' = reclaim \cup {q}
      BY <1>1, <2>2, <3>1, <3>3 DEF WriteDraft, Queue
    <3> QED BY <3>1, <3>2, <3>4
  <2> QED BY <1>1, <2>1, <2>2
<1>4. ~Referenced(p)
  BY <1>1, <1>2 DEF PayloadInv, NoSharing, Staging
<1>5. /\ \A q \in Dropped : Referenced(q)
      /\ \A q \in Payload : Referenced(q)' => Referenced(q) \/ q = p
      /\ \A q \in Payload : Referenced(q) => Referenced(q)' \/ q \in Dropped
      /\ Referenced(p)'
  BY <1>0, <1>1, <1>2, <1>3 DEF Referenced
<1>6. RowsApart' /\ OriginalsDiffer'
  BY <1>1, <1>2, <1>4 DEF RowsApart, PayloadInv, NoSharing, OriginalsDiffer, Referenced
<1>7. \A a \in Asset : assets[a].payload # p /\ originals[a] # p
  BY <1>4 DEF Referenced
<1>8. \A a \in Asset : /\ assets[a].rev > 0 => assets[a].payload \in Payload
                       /\ originals[a] # None => originals[a] \in Payload
  BY <1>0 DEF ShapeInv, RowShape, Types, AssetRows
<1>9. \A a \in Asset :
        /\ assets'[a].rev > 0 /\ assets'[a].payload # p =>
             assets'[a].payload \in Payload /\ Intact(assets'[a].payload)
             /\ assets'[a].payload \notin Dropped
        /\ originals'[a] # None => originals'[a] \in Payload /\ originals'[a] # p
             /\ Intact(originals'[a]) /\ originals'[a] \notin Dropped
  BY <1>0, <1>2, <1>3, <1>7, <1>8 DEF PayloadInv, AssetsIntact, NoSharing
<1>10. \A a \in Asset : assets'[a].payload # p
  BY <1>2, <1>7
<1> QED BY <1>1, <1>2, <1>3, <1>5, <1>6, <1>9, <1>10, PublishedPayloads

\* What a publication writes: with a the asset, p the call's payload and old the asset's payload.
LEMMA PublishWrites ==
    ASSUME ShapeInv, NEW s \in Session, PublishCommit(s)
    PROVE  LET a == sessions[s].asset p == sessions[s].payload old == assets[a].payload IN
           /\ a \in Asset /\ p \in Payload /\ sessions[s].op \in Op /\ Publishes(sessions[s])
           /\ assets' \in [Asset -> AssetRows] /\ \A b \in Asset \ {a} : assets'[b] = assets[b]
           /\ assets'[a].rev > 0 /\ assets'[a].payload = p
           /\ originals' \in [Asset -> Payload \cup {None}]
           /\ \A b \in Asset \ {a} : originals'[b] = originals[b]
           /\ \/ originals'[a] = originals[a]
              \/ originals[a] = None /\ originals'[a] = old /\ old # None /\ assets[a].rev > 0
           /\ drafts' \in [Draft -> DraftRows]
           /\ sessions[s].kind = "mutation" => drafts' = drafts
           /\ sessions[s].kind = "publish" =>
                LET d == sessions[s].draft IN
                /\ d \in Draft /\ Visible(d) /\ drafts[d].payload = sessions[s].source
                /\ drafts'[d].state = "gone" /\ drafts'[d].payload = None
                /\ \A e \in Draft \ {d} : drafts'[e] = drafts[e]
           /\ reclaim' = reclaim \cup {q \in Payload : /\ Row(q)
                /\ \/ q = old /\ assets[a].rev > 0 /\ (\A b \in Asset : originals'[b] # old)
                   \/ sessions[s].kind = "publish" /\ q = sessions[s].source}
<1>0. Types /\ sessions[s] \in Call /\ CallFits(sessions[s])
  BY DEF ShapeInv, Types, CallShape
<1>1. sessions[s].pc = "admitted" /\ Publishes(sessions[s])
  BY <1>0 DEF PublishCommit, CallFits
<1>2. PICK a \in Asset, p \in Payload : a = sessions[s].asset /\ p = sessions[s].payload
  BY <1>0, <1>1 DEF CallFits, Holding, Call
<1>3. PICK old \in Payload \cup {None}, n \in Nat : old = assets[a].payload /\ n = sessions[s].expected
  BY <1>0 DEF Types, AssetRows, Call
<1>4. assets[a].rev = n /\ (n > 0 => old \in Payload /\ old # None)
  BY <1>0, <1>2, <1>3 DEF PublishCommit, Publishable, ShapeInv, RowShape
<1>5. /\ assets' \in [Asset -> AssetRows] /\ \A b \in Asset \ {a} : assets'[b] = assets[b]
      /\ assets'[a].rev > 0 /\ assets'[a].payload = p
  <2>1. assets' = [assets EXCEPT ![a] = [rev |-> n + 1, payload |-> p]]
    BY <1>2, <1>3 DEF PublishCommit
  <2>2. [rev |-> n + 1, payload |-> p] \in AssetRows
    BY DEF AssetRows
  <2>3. n + 1 > 0
    OBVIOUS
  <2> QED BY <1>0, <2>1, <2>2, <2>3 DEF Types
<1>6. /\ originals' \in [Asset -> Payload \cup {None}]
      /\ \A b \in Asset \ {a} : originals'[b] = originals[b]
      /\ \/ originals'[a] = originals[a]
         \/ originals[a] = None /\ originals'[a] = old /\ old # None /\ n > 0
  <2>1. originals' = IF sessions[s].keep /\ n > 0 /\ originals[a] = None
                     THEN [originals EXCEPT ![a] = old] ELSE originals
    BY <1>2, <1>3 DEF PublishCommit, KeptOriginals
  <2> QED BY <1>0, <1>4, <2>1 DEF Types
<1>7. /\ drafts' \in [Draft -> DraftRows]
      /\ sessions[s].kind = "mutation" => drafts' = drafts
      /\ sessions[s].kind = "publish" =>
           LET d == sessions[s].draft IN
           /\ d \in Draft /\ Visible(d) /\ drafts[d].payload = sessions[s].source
           /\ drafts'[d].state = "gone" /\ drafts'[d].payload = None
           /\ \A e \in Draft \ {d} : drafts'[e] = drafts[e]
  <2>1. CASE sessions[s].kind = "publish"
    <3>1. PICK d \in Draft : d = sessions[s].draft
      BY <1>0, <2>1 DEF CallFits
    <3>2. drafts' = DeleteDraft(drafts, d)
      BY <2>1, <3>1 DEF PublishCommit
    <3>3. Visible(d) /\ drafts[d].payload = sessions[s].source
      BY <2>1, <3>1 DEF PublishCommit, Publishable
    <3> QED BY <1>0, <2>1, <3>1, <3>2, <3>3, DraftDeleted
  <2>2. CASE sessions[s].kind = "mutation"
    <3>1. drafts' = drafts
      BY <2>2 DEF PublishCommit
    <3> QED BY <1>0, <2>2, <3>1 DEF Types
  <2> QED BY <1>1, <2>1, <2>2 DEF Publishes
<1>8. reclaim' = reclaim \cup {q \in Payload : /\ Row(q)
                /\ \/ q = old /\ assets[a].rev > 0 /\ (\A b \in Asset : originals'[b] # old)
                   \/ sessions[s].kind = "publish" /\ q = sessions[s].source}
  <2>1. originals' = KeptOriginals(s)
    BY DEF PublishCommit
  <2>2. reclaim' = reclaim \cup
          {q \in (IF n > 0 /\ (\A b \in Asset : originals'[b] # old) THEN {old} ELSE {})
                 \cup (IF sessions[s].kind = "publish" THEN {sessions[s].source} ELSE {}) : Row(q)}
    BY <1>2, <1>3, <2>1 DEF PublishCommit
  <2>3. n > 0 => old \in Payload
    BY <1>4
  <2>4. sessions[s].kind = "publish" => sessions[s].source \in Payload
    <3>1. ASSUME sessions[s].kind = "publish" PROVE sessions[s].source # None
      <4>1. PICK d \in Draft : d = sessions[s].draft
        BY <1>0, <3>1 DEF CallFits
      <4> QED BY <1>7, <3>1, <4>1 DEF Visible, ShapeInv, RowShape
    <3> QED BY <1>0, <3>1 DEF Call
  <2> QED BY <1>4, <2>2, <2>3, <2>4
<1> QED BY <1>0, <1>1, <1>2, <1>3, <1>4, <1>5, <1>6, <1>7, <1>8 DEF CallFits

\* A publication hands the asset a whole payload, keeps or queues the old one, and queues the
\* draft's.
LEMMA PublishPayloads ==
    ASSUME ShapeInv, PayloadInv, NEW s \in Session, PublishCommit(s)
    PROVE  PayloadInv'
<1>0. /\ Types /\ None \notin Payload /\ sessions[s] \in Call
      /\ \A b \in Asset : assets[b].payload \in Payload \cup {None}
  BY BoundAssumption DEF ShapeInv, Types, AssetRows
<1>1. PICK a \in Asset, p \in Payload, old \in Payload \cup {None} :
        /\ a = sessions[s].asset /\ p = sessions[s].payload /\ old = assets[a].payload
        /\ \A b \in Asset \ {a} : assets'[b] = assets[b]
        /\ assets'[a].rev > 0 /\ assets'[a].payload = p
        /\ \A b \in Asset \ {a} : originals'[b] = originals[b]
        /\ \/ originals'[a] = originals[a]
           \/ originals[a] = None /\ originals'[a] = old /\ old # None /\ assets[a].rev > 0
        /\ reclaim' = reclaim \cup {q \in Payload : /\ Row(q)
                /\ \/ q = old /\ assets[a].rev > 0 /\ (\A b \in Asset : originals'[b] # old)
                   \/ sessions[s].kind = "publish" /\ q = sessions[s].source}
        /\ Publishes(sessions[s])
  BY <1>0, PublishWrites
<1>2. \A d \in Draft : \/ drafts'[d].payload = drafts[d].payload
                       \/ /\ drafts'[d].payload = None
                          /\ sessions[s].kind = "publish" /\ drafts[d].payload = sessions[s].source
  BY <1>1, PublishWrites DEF Publishes
<1>3. sessions[s].kind = "publish" => \E d \in Draft : drafts[d].payload = sessions[s].source
  BY PublishWrites
<1>4. /\ payloads[p].state = "ready" /\ Row(p) /\ payloads' = Published(payloads, p)
      /\ Goto(s, "leaving") /\ UNCHANGED meta /\ Staging(sessions[s])
      /\ sessions[s].gen = meta.gen /\ sessions[s].pc = "admitted"
  BY <1>1 DEF PublishCommit, Publishable, Staging, Row
<1>5. payloads[p].content /\ p \notin reclaim
  BY <1>1, <1>4 DEF PayloadInv, StageKept
<1>6. ~Referenced(p)
  BY <1>1, <1>4 DEF PayloadInv, NoSharing, Staging
<1>7. \A b \in Asset : /\ assets[b].payload \in Payload \cup {None}
                       /\ originals[b] \in Payload \cup {None}
                       /\ assets[b].rev > 0 <=> assets[b].payload # None
  BY <1>0 DEF ShapeInv, RowShape, Types, AssetRows
<1>8. \A q \in Payload : Referenced(q) => Row(q)
  BY DEF PayloadInv, PayloadShape, Row
<1>9. PICK Dropped \in SUBSET Payload :
         /\ reclaim' = reclaim \cup Dropped
         /\ \A q \in Payload : q \in Dropped <=> /\ Row(q)
                /\ \/ q = old /\ assets[a].rev > 0 /\ (\A b \in Asset : originals'[b] # old)
                   \/ sessions[s].kind = "publish" /\ q = sessions[s].source
  <2> DEFINE Old == {q \in Payload : /\ Row(q)
                /\ \/ q = old /\ assets[a].rev > 0 /\ (\A b \in Asset : originals'[b] # old)
                   \/ sessions[s].kind = "publish" /\ q = sessions[s].source}
  <2>1. reclaim' = reclaim \cup Old
    BY <1>1
  <2>2. \A q \in Payload : q \in Old <=> /\ Row(q)
                /\ \/ q = old /\ assets[a].rev > 0 /\ (\A b \in Asset : originals'[b] # old)
                   \/ sessions[s].kind = "publish" /\ q = sessions[s].source
    OBVIOUS
  <2>3. Old \in SUBSET Payload
    OBVIOUS
  <2> HIDE DEF Old
  <2> QED BY <2>1, <2>2, <2>3
<1>10. \A q \in Dropped : Referenced(q)
  BY <1>1, <1>3, <1>9 DEF Referenced
<1>11. \A q \in Payload : Referenced(q)' => Referenced(q) \/ q = p
  BY <1>0, <1>1, <1>2 DEF Referenced
<1>12. ASSUME NEW q \in Payload, Referenced(q) PROVE Referenced(q)' \/ q \in Dropped
  <2>0. Row(q)
    BY <1>8, <1>12
  <2>1. CASE \E b \in Asset : assets[b].payload = q
    <3>1. CASE q = old /\ \A b \in Asset : originals'[b] # old
      BY <1>0, <1>1, <1>7, <1>9, <2>0, <3>1
    <3>2. CASE q = old /\ \E b \in Asset : originals'[b] = old
      BY <3>2 DEF Referenced
    <3>3. CASE q # old
      BY <1>1, <2>1, <3>3 DEF Referenced
    <3> QED BY <3>1, <3>2, <3>3
  <2>2. CASE \E b \in Asset : originals[b] = q
    BY <1>0, <1>1, <2>2 DEF Referenced
  <2>3. CASE \E d \in Draft : drafts[d].payload = q
    BY <1>2, <1>9, <2>0, <2>3 DEF Referenced
  <2> QED BY <1>12, <2>1, <2>2, <2>3 DEF Referenced
<1>13. Referenced(p)'
  BY <1>1 DEF Referenced
<1>14. RowsApart' /\ OriginalsDiffer'
  <2>1. \A b \in Asset : assets[b].payload # p /\ originals[b] # p
    BY <1>6 DEF Referenced
  <2>2. \A d \in Draft : drafts[d].payload # p
    BY <1>6 DEF Referenced
  <2>3. \A b, c \in Asset : assets'[b].payload = assets'[c].payload /\ b # c
                                => assets'[b].payload = None
    BY <1>1, <2>1 DEF PayloadInv, NoSharing
  <2>4. \A b, c \in Asset : originals'[b] # None => originals'[b] # assets'[c].payload
    BY <1>1, <2>1 DEF PayloadInv, NoSharing
  <2>5. \A b \in Asset, d \in Draft : drafts'[d].payload # None =>
          drafts'[d].payload \notin {assets'[b].payload, originals'[b]}
    BY <1>1, <1>2, <2>2 DEF PayloadInv, NoSharing
  <2>6. OriginalsDiffer'
    BY <1>1 DEF PayloadInv, NoSharing, OriginalsDiffer
  <2> QED BY <2>3, <2>4, <2>5, <2>6 DEF RowsApart
<1>15. \A b \in Asset :
        /\ assets'[b].rev > 0 /\ assets'[b].payload # p =>
             assets'[b].payload \in Payload /\ Intact(assets'[b].payload)
             /\ assets'[b].payload \notin Dropped
        /\ originals'[b] # None => originals'[b] \in Payload /\ originals'[b] # p
             /\ Intact(originals'[b]) /\ originals'[b] \notin Dropped
  <2>1. \A b \in Asset : assets[b].payload # p /\ originals[b] # p
    BY <1>6 DEF Referenced
  <2>2. \A b \in Asset : sessions[s].kind = "publish" /\ sessions[s].source # None =>
           assets[b].payload # sessions[s].source /\ originals[b] # sessions[s].source
    BY <1>3 DEF PayloadInv, NoSharing
  <2>3. ASSUME NEW b \in Asset, assets'[b].rev > 0, assets'[b].payload # p
        PROVE  assets'[b].payload \in Payload /\ Intact(assets'[b].payload)
               /\ assets'[b].payload \notin Dropped
    <3>1. b # a /\ assets'[b] = assets[b]
      BY <1>1, <2>3
    <3>2. assets[b].payload \in Payload /\ assets[b].payload # old
      BY <1>1, <1>7, <2>3, <3>1 DEF PayloadInv, NoSharing
    <3>3. Intact(assets[b].payload)
      BY <2>3, <3>1 DEF PayloadInv, AssetsIntact
    <3> QED BY <1>0, <1>9, <2>2, <3>1, <3>2, <3>3
  <2>4. ASSUME NEW b \in Asset, originals'[b] # None
        PROVE  originals'[b] \in Payload /\ originals'[b] # p
               /\ Intact(originals'[b]) /\ originals'[b] \notin Dropped
    <3>1. CASE originals'[b] = originals[b]
      <4>1. originals[b] \in Payload /\ originals[b] # p /\ Intact(originals[b])
        BY <1>7, <2>1, <2>4, <3>1 DEF PayloadInv, AssetsIntact
      <4> QED BY <1>0, <1>9, <2>2, <3>1, <4>1
    <3>2. CASE b = a /\ originals'[a] = old /\ assets[a].rev > 0
      <4>1. old \in Payload /\ old # p /\ Intact(old)
        BY <1>1, <1>7, <2>1, <3>2 DEF PayloadInv, AssetsIntact
      <4> QED BY <1>0, <1>1, <1>9, <2>2, <3>2, <4>1
    <3> QED BY <1>1, <3>1, <3>2
  <2> QED BY <2>3, <2>4
<1> QED BY <1>1, <1>4, <1>5, <1>9, <1>10, <1>11, <1>12, <1>13, <1>14, <1>15, PublishedPayloads

-----------------------------------------------------------------------------
(* Calls.                                                                  *)

Begun(s, o, d) ==
    \/ o \in Op /\ BeginMutation(s, o)
    \/ d \in Draft /\ (BeginCreateDraft(s, d) \/ BeginWriteDraft(s, d))
    \/ o \in Op /\ d \in Draft /\ BeginPublishDraft(s, d, o)

\* What a call knows when it begins.
LEMMA CallsBegin ==
    ASSUME ShapeInv, NEW s \in Session, NEW o, NEW d,
           meta' \in Metas, Begun(s, o, d)
    PROVE  \E call \in Call :
             /\ sessions' = [sessions EXCEPT ![s] = call]
             /\ call.pc = "begun" /\ call.payload = None /\ CallFits(call)
             /\ \/ o \in Op /\ BeginMutation(s, o) /\ call.kind = "mutation" /\ call.op = o /\ call.gen = meta.gen
                   /\ call.draft = None
                \/ d \in Draft /\ BeginCreateDraft(s, d) /\ call.kind = "create" /\ call.draft = d /\ call.op = None
                \/ d \in Draft /\ BeginWriteDraft(s, d) /\ call.kind = "write" /\ call.draft = d /\ call.op = None
                \/ o \in Op /\ d \in Draft /\ BeginPublishDraft(s, d, o) /\ call.kind = "publish" /\ call.op = o
                   /\ call.gen = meta'.gen /\ call.draft = d
<1>0. Types
  BY DEF ShapeInv
<1>1. CASE o \in Op /\ BeginMutation(s, o)
  <2> o \in Op
    BY <1>1
  <2>1. PICK a \in Asset : sessions' = [sessions EXCEPT ![s] =
              [Idle EXCEPT !.pc = "begun", !.kind = "mutation", !.op = o,
                           !.gen = ops[o].gen, !.epoch = meta.deletion,
                           !.asset = a, !.expected = ops[o].expected]]
    BY <1>1 DEF BeginMutation
  <2>2. PICK g \in Nat, e \in Nat, r \in Nat :
          g = ops[o].gen /\ e = meta.deletion /\ r = ops[o].expected /\ g = meta.gen
    BY <1>0, <1>1 DEF BeginMutation, Types, OpRows, Metas
  <2>3. PICK call : call = [Idle EXCEPT !.pc = "begun", !.kind = "mutation", !.op = o,
                           !.gen = g, !.epoch = e, !.asset = a, !.expected = r]
    OBVIOUS
  <2>4. call \in Call
    BY <2>3 DEF Idle, Call
  <2>5. /\ call.pc = "begun" /\ call.payload = None /\ call.kind = "mutation" /\ call.op = o
        /\ call.gen = g /\ call.draft = None /\ call.asset = a
    BY <2>3 DEF Idle
  <2>6. CallFits(call)
    BY <2>5 DEF CallFits, Holding, Publishes
  <2> QED BY <1>1, <2>1, <2>2, <2>3, <2>4, <2>5, <2>6
<1>2. CASE d \in Draft /\ BeginCreateDraft(s, d)
  <2> d \in Draft
    BY <1>2
  <2>1. PICK a \in Asset \cup {None} : sessions' = [sessions EXCEPT ![s] =
            [Idle EXCEPT !.pc = "begun", !.kind = "create", !.draft = d, !.asset = a,
                         !.expected = IF a = None THEN 0 ELSE assets[a].rev]]
    BY <1>2 DEF BeginCreateDraft
  <2>2. PICK r \in Nat : r = IF a = None THEN 0 ELSE assets[a].rev
    BY <1>0 DEF Types, AssetRows
  <2>3. PICK call : call = [Idle EXCEPT !.pc = "begun", !.kind = "create", !.draft = d, !.asset = a,
                                        !.expected = r]
    OBVIOUS
  <2>4. call \in Call
    BY <2>3 DEF Idle, Call
  <2>5. /\ call.pc = "begun" /\ call.payload = None /\ call.kind = "create" /\ call.op = None
        /\ call.draft = d
    BY <2>3 DEF Idle
  <2>6. CallFits(call)
    BY <2>5 DEF CallFits, Holding, Publishes
  <2> QED BY <1>2, <2>1, <2>2, <2>3, <2>4, <2>5, <2>6
<1>3. CASE d \in Draft /\ BeginWriteDraft(s, d)
  <2> d \in Draft
    BY <1>3
  <2>2. PICK r \in Nat, q \in Payload \cup {None} : r = drafts[d].rev /\ q = drafts[d].payload
    BY <1>0 DEF Types, DraftRows
  <2>3. PICK call : call = [Idle EXCEPT !.pc = "begun", !.kind = "write", !.draft = d,
                                        !.drev = r, !.source = q]
    OBVIOUS
  <2>4. call \in Call
    BY <2>3 DEF Idle, Call
  <2>5. /\ call.pc = "begun" /\ call.payload = None /\ call.kind = "write" /\ call.op = None
        /\ call.draft = d
    BY <2>3 DEF Idle
  <2>6. CallFits(call)
    BY <2>5 DEF CallFits, Holding, Publishes
  <2>7. sessions' = [sessions EXCEPT ![s] = call]
    BY <1>3, <2>2, <2>3 DEF BeginWriteDraft
  <2> QED BY <1>3, <2>4, <2>5, <2>6, <2>7
<1>4. CASE o \in Op /\ d \in Draft /\ BeginPublishDraft(s, d, o)
  <2> o \in Op /\ d \in Draft
    BY <1>4
  <2>1. PICK a \in Asset, k \in BOOLEAN : sessions' = [sessions EXCEPT ![s] =
              [Idle EXCEPT !.pc = "begun", !.kind = "publish", !.op = o,
                           !.gen = meta'.gen, !.asset = a, !.keep = k,
                           !.expected = drafts[d].trev, !.draft = d,
                           !.drev = drafts[d].rev, !.source = drafts[d].payload]]
    BY <1>4 DEF BeginPublishDraft
  <2>2. PICK g \in Nat, e \in Nat, r \in Nat, q \in Payload \cup {None} :
          g = meta'.gen /\ e = drafts[d].trev /\ r = drafts[d].rev /\ q = drafts[d].payload
    BY <1>0 DEF Types, DraftRows, Metas
  <2>3. PICK call : call = [Idle EXCEPT !.pc = "begun", !.kind = "publish", !.op = o,
                           !.gen = g, !.asset = a, !.keep = k, !.expected = e, !.draft = d,
                           !.drev = r, !.source = q]
    OBVIOUS
  <2>4. call \in Call
    BY <2>3 DEF Idle, Call
  <2>5. /\ call.pc = "begun" /\ call.payload = None /\ call.kind = "publish" /\ call.op = o
        /\ call.gen = g /\ call.draft = d /\ call.asset = a
    BY <2>3 DEF Idle
  <2>6. CallFits(call)
    BY <2>5 DEF CallFits, Holding, Publishes
  <2> QED BY <1>4, <2>1, <2>2, <2>3, <2>4, <2>5, <2>6
<1> QED BY <1>1, <1>2, <1>3, <1>4 DEF Begun

\* One call changes, and keeps, loses or freshly takes its payload.
LEMMA OneCall ==
    ASSUME CallShape, OwnPayload, NEW s \in Session,
           \A t \in Session \ {s} : sessions'[t] = sessions[t],
           CallFits(sessions'[s]),
           \/ sessions'[s].payload \in {None, sessions[s].payload}
           \/ \A t \in Session : sessions[t].payload # sessions'[s].payload
    PROVE  CallShape' /\ OwnPayload'
<1>1. \A t \in Session : CallFits(sessions'[t])
  BY DEF CallShape
<1>2. OwnPayload'
  BY DEF OwnPayload
<1> QED BY <1>1, <1>2 DEF CallShape, CallFits

\* A call that goes on still fits.
LEMMA CallsGoOn ==
    ASSUME NEW c, NEW e, NEW pc, NEW p, CallFits(c), Moved(c, e, pc, p),
           pc \in {"staging", "chunked", "staged", "admitted", "leaving"}, p # None,
           pc = "admitted" => Publishes(c)
    PROVE  CallFits(e)
  BY DEF CallFits, Moved, Holding, Publishes

-----------------------------------------------------------------------------
(* Shapes and payloads, action by action.                                  *)

StorageInv == ShapeInv /\ PayloadInv
Known == StorageInv /\ Attempts /\ CreatorAlone

\* A call that was not changed, or went on without a write, is quiet.
LEMMA QuietCalls ==
    ASSUME Types, NEW s \in Session, \A t \in Session \ {s} : sessions'[t] = sessions[t],
           CallQuiet(sessions[s], sessions'[s])
    PROVE  \A t \in Session : CallQuiet(sessions[t], sessions'[t])
  BY DEF CallQuiet

\* Pinning an operation touches no row and no call.
LEMMA PinStorage ==
    ASSUME Known, NEW o \in Op, NEW a \in Asset \cup {None}, NEW r \in Nat, PinOperation(o, a, r)
    PROVE  StorageInv'
<1>0. Types
  BY DEF Known, StorageInv, ShapeInv
<1>1. /\ meta' \in Metas /\ receipts' \in [Op -> Nat] /\ meta'.run = meta.run
      /\ \/ meta'.gen = meta.gen \/ meta'.gen = meta.gen + 1
  BY <1>0, GenerationTypes DEF PinOperation
<1>2. UNCHANGED <<payloads, reclaim, assets, originals, drafts, forgets, sessions, failed, settling, applied>>
  BY DEF PinOperation
<1>3. ops' \in [Op -> OpRows]
  <2>1. PICK g \in Nat : g = meta'.gen
    BY <1>1 DEF Metas
  <2>2. ops' = [ops EXCEPT ![o] = [gen |-> g, asset |-> a, expected |-> r]]
    BY <2>1 DEF PinOperation
  <2>3. [gen |-> g, asset |-> a, expected |-> r] \in OpRows
    BY DEF OpRows
  <2> QED BY <1>0, <2>2, <2>3 DEF Types
<1>4. ShapeInv'
  <2>1. Types'
    BY <1>0, <1>1, <1>2, <1>3 DEF Types
  <2>2. meta.gen \in Nat
    BY <1>0 DEF Types, Metas
  <2> QED BY <1>1, <1>2, <2>1, <2>2 DEF Known, StorageInv, ShapeInv, RowShape, CallShape, CallFits, OwnPayload
<1>5. PayloadInv'
  <2>1. RunKept
    BY <1>0, <1>1 DEF RunKept, Types, Metas
  <2>2. \A s \in Session : CallQuiet(sessions[s], sessions'[s])
    BY <1>2 DEF CallQuiet
  <2> QED BY <1>2, <1>4, <2>1, <2>2, QuietPayloads DEF Known, StorageInv, ShapeInv
<1> QED BY <1>4, <1>5 DEF StorageInv

\* A call that begins has no payload yet.
LEMMA BeginStorage ==
    ASSUME Known, NEW s \in Session, NEW o, NEW d, Begun(s, o, d)
    PROVE  StorageInv' /\ meta' \in Metas
<1>0. Types /\ ShapeInv
  BY DEF Known, StorageInv, ShapeInv
<1>1. /\ meta' \in Metas /\ receipts' \in [Op -> Nat] /\ meta'.run = meta.run
      /\ \/ meta'.gen = meta.gen \/ meta'.gen = meta.gen + 1
  <2>1. OperationGeneration \/ UNCHANGED <<meta, receipts>>
    BY DEF Begun, BeginMutation, BeginCreateDraft, BeginWriteDraft, BeginPublishDraft
  <2>2. CASE UNCHANGED <<meta, receipts>>
    BY <1>0, <2>2 DEF Types
  <2> QED BY <1>0, <2>1, <2>2, GenerationTypes
<1>2. UNCHANGED <<payloads, reclaim, assets, originals, drafts, forgets, failed, settling, applied>>
  BY DEF Begun, BeginMutation, BeginCreateDraft, BeginWriteDraft, BeginPublishDraft
<1>3. ops' \in [Op -> OpRows]
  <2>1. CASE o \in Op /\ d \in Draft /\ BeginPublishDraft(s, d, o)
    <3> o \in Op /\ d \in Draft
      BY <2>1
    <3>1. PICK g \in Nat : g = meta'.gen
      BY <1>1 DEF Metas
    <3>2. ops' = [ops EXCEPT ![o] = [gen |-> g, asset |-> d, expected |-> 0]]
      BY <2>1, <3>1 DEF BeginPublishDraft
    <3>3. [gen |-> g, asset |-> d, expected |-> 0] \in OpRows
      BY DEF OpRows
    <3> QED BY <1>0, <3>2, <3>3 DEF Types
  <2>2. CASE ops' = ops
    BY <1>0, <2>2 DEF Types
  <2> QED BY <2>1, <2>2 DEF Begun, BeginMutation, BeginCreateDraft, BeginWriteDraft
<1>4. PICK call \in Call : /\ sessions' = [sessions EXCEPT ![s] = call]
                           /\ call.pc = "begun" /\ call.payload = None /\ CallFits(call)
  BY <1>0, <1>1, CallsBegin
<1>5. /\ sessions' \in [Session -> Call] /\ sessions'[s] = call
      /\ \A t \in Session \ {s} : sessions'[t] = sessions[t]
  BY <1>0, <1>4, CallBegins
<1>6. ShapeInv'
  <2>1. Types'
    BY <1>0, <1>1, <1>2, <1>3, <1>5 DEF Types
  <2>2. CallShape' /\ OwnPayload'
    BY <1>0, <1>4, <1>5, OneCall DEF ShapeInv
  <2>3. RowShape'
    BY <1>0, <1>1, <1>2 DEF ShapeInv, RowShape, Types, Metas
  <2> QED BY <2>1, <2>2, <2>3 DEF ShapeInv
<1>7. PayloadInv'
  <2>1. RunKept
    BY <1>0, <1>1 DEF RunKept, Types, Metas
  <2>2. \A t \in Session : CallQuiet(sessions[t], sessions'[t])
    BY <1>4, <1>5 DEF CallQuiet
  <2> QED BY <1>2, <1>6, <2>1, <2>2, QuietPayloads DEF Known, StorageInv, ShapeInv
<1> QED BY <1>1, <1>6, <1>7 DEF StorageInv

\* The steps of a stage.
LEMMA StageStorage ==
    ASSUME Known, NEW s \in Session, StageInsert(s) \/ StageChunks(s) \/ StageReady(s)
    PROVE  StorageInv'
<1>0. Types /\ ShapeInv /\ PayloadInv /\ None \notin Payload /\ sessions[s] \in Call
  BY BoundAssumption DEF Known, StorageInv, ShapeInv, Types
<1>1. UNCHANGED <<meta, reclaim, assets, originals, drafts, forgets, receipts, ops, failed, settling, applied>>
  BY DEF StageInsert, StageChunks, StageReady
<1>2. PayloadInv'
  BY <1>0, InsertPayloads, StagedPayloads
<1>3. payloads' \in [Payload -> PayloadRow]
  <2>1. CASE StageInsert(s)
    <3>1. PICK p \in Payload : payloads' = [payloads EXCEPT ![p] =
               [state |-> "staging", owner |-> meta.run, content |-> FALSE]]
      BY <2>1 DEF StageInsert
    <3>2. [state |-> "staging", owner |-> meta.run, content |-> FALSE] \in PayloadRow
      BY <1>0 DEF Types, Metas, PayloadRow
    <3> QED BY <1>0, <3>1, <3>2 DEF Types
  <2>2. CASE StageChunks(s) \/ StageReady(s)
    <3>1. PICK p \in Payload : p = sessions[s].payload
      BY <1>0, <2>2 DEF ShapeInv, CallShape, CallFits, Holding, Call, StageChunks, StageReady
    <3>2. payloads[p] \in PayloadRow
      BY <1>0 DEF Types
    <3>3. [payloads[p] EXCEPT !.content = TRUE] \in PayloadRow
      BY <3>2 DEF PayloadRow
    <3>4. [payloads[p] EXCEPT !.state = "ready"] \in PayloadRow
      BY <3>2 DEF PayloadRow
    <3>5. \/ payloads' = [payloads EXCEPT ![p] = [payloads[p] EXCEPT !.content = TRUE]]
          \/ payloads' = [payloads EXCEPT ![p] = [payloads[p] EXCEPT !.state = "ready"]]
          \/ payloads' = payloads
      BY <1>0, <2>2, <3>1 DEF StageChunks, StageReady, Types
    <3> QED BY <1>0, <3>3, <3>4, <3>5 DEF Types
  <2> QED BY <2>1, <2>2
<1>4. sessions' \in [Session -> Call] /\ CallShape' /\ OwnPayload'
  <2>1. CASE StageInsert(s)
    <3>1. PICK p \in Payload : /\ sessions' = [sessions EXCEPT ![s].pc = "staging", ![s].payload = p]
                               /\ \A t \in Session : sessions[t].payload # p
      BY <1>0, <2>1, InsertPayloads
    <3>2. /\ sessions' \in [Session -> Call]
          /\ Moved(sessions[s], sessions'[s], "staging", p)
          /\ \A t \in Session \ {s} : sessions'[t] = sessions[t]
      BY <1>0, <3>1, CallMoves
    <3>3. CallFits(sessions'[s]) /\ sessions'[s].payload = p
      BY <1>0, <3>2, CallsGoOn DEF ShapeInv, CallShape, Moved
    <3> QED BY <1>0, <3>1, <3>2, <3>3, OneCall DEF ShapeInv
  <2>2. CASE StageChunks(s) \/ StageReady(s)
    <3>1. PICK l \in {"chunked", "staged"} : Goto(s, l)
      BY <2>2 DEF StageChunks, StageReady
    <3>2. /\ sessions' \in [Session -> Call]
          /\ Moved(sessions[s], sessions'[s], l, sessions[s].payload)
          /\ \A t \in Session \ {s} : sessions'[t] = sessions[t]
      BY <1>0, <3>1, CallMoves DEF Places
    <3>3. sessions[s].payload # None
      BY <1>0, <2>2 DEF ShapeInv, CallShape, CallFits, Holding, StageChunks, StageReady
    <3>4. CallFits(sessions'[s]) /\ sessions'[s].payload = sessions[s].payload
      BY <1>0, <3>2, <3>3, CallsGoOn DEF ShapeInv, CallShape, Moved
    <3> QED BY <1>0, <3>2, <3>4, OneCall DEF ShapeInv
  <2> QED BY <2>1, <2>2
<1>5. Types' /\ RowShape'
  BY <1>0, <1>1, <1>3, <1>4 DEF Types, ShapeInv, RowShape
<1> QED BY <1>2, <1>4, <1>5 DEF StorageInv, ShapeInv

\* A call that ends.
LEMMA EndStorage ==
    ASSUME Known, NEW s \in Session, StageFail(s) \/ Abandon(s)
    PROVE  StorageInv'
<1>0. Types /\ ShapeInv /\ PayloadInv /\ None \notin Payload /\ sessions[s] \in Call
  BY BoundAssumption DEF Known, StorageInv, ShapeInv, Types
<1>1. UNCHANGED <<meta, payloads, assets, originals, drafts, forgets, receipts, ops, failed, settling, applied>> /\ End(s)
  BY DEF StageFail, Abandon
<1>2. \/ reclaim' = reclaim
      \/ /\ reclaim' = Queue(reclaim, sessions[s].payload)
         /\ sessions[s].payload \in Payload /\ ~Referenced(sessions[s].payload)
  <2>1. CASE StageFail(s)
    <3>1. sessions[s].payload # None => sessions[s].payload \in Payload /\ Staging(sessions[s])
      BY <1>0, <2>1 DEF StageFail, ShapeInv, CallShape, CallFits, Holding, Staging, Call
    <3>2. Staging(sessions[s]) => ~Referenced(sessions[s].payload)
      BY <1>0 DEF PayloadInv, NoSharing, Staging
    <3> QED BY <2>1, <3>1, <3>2 DEF StageFail
  <2>2. CASE Abandon(s)
    <3>1. sessions[s].payload \in Payload
      BY <1>0, <2>2 DEF Abandon, ShapeInv, CallShape, CallFits, Holding, Call
    <3>2. payloads[sessions[s].payload].state # "published" => ~Referenced(sessions[s].payload)
      BY <1>0, <3>1 DEF PayloadInv, PayloadShape
    <3> QED BY <2>2, <3>1, <3>2 DEF Abandon
  <2> QED BY <2>1, <2>2
<1>3. PayloadInv'
  BY <1>0, <1>1, <1>2, ReleasedPayload
<1>4. /\ sessions' \in [Session -> Call] /\ sessions'[s] = Idle
      /\ \A t \in Session \ {s} : sessions'[t] = sessions[t]
  BY <1>0, <1>1, CallMoves
<1>5. CallShape' /\ OwnPayload'
  <2>1. CallFits(Idle) /\ Idle.payload = None
    BY DEF CallFits, Idle, Holding, Publishes
  <2> QED BY <1>0, <1>4, <2>1, OneCall DEF ShapeInv
<1>6. reclaim' \in SUBSET Payload
  BY <1>0, <1>2 DEF Types, Queue
<1>7. Types' /\ RowShape'
  BY <1>0, <1>1, <1>4, <1>6 DEF Types, ShapeInv, RowShape
<1> QED BY <1>3, <1>5, <1>7 DEF StorageInv, ShapeInv

\* A call that goes on without a write.
LEMMA WaitStorage ==
    ASSUME Known, NEW s \in Session, AwaitReclaim(s) \/ PublishEnd(s) \/ DraftEnd(s)
    PROVE  StorageInv'
<1>0. Types /\ ShapeInv /\ PayloadInv /\ None \notin Payload /\ sessions[s] \in Call
  BY BoundAssumption DEF Known, StorageInv, ShapeInv, Types
<1>1. UNCHANGED <<meta, payloads, reclaim, assets, originals, drafts, forgets, receipts, ops, failed, settling, applied>>
  BY DEF AwaitReclaim, PublishEnd, DraftEnd
<1>2. PICK l \in {"admitted", "leaving"} :
        Goto(s, l) /\ (l = "admitted" => sessions[s].pc = "staged" /\ Publishes(sessions[s]))
  BY DEF AwaitReclaim, PublishEnd, DraftEnd, Publishes
<1>3. /\ sessions' \in [Session -> Call]
      /\ Moved(sessions[s], sessions'[s], l, sessions[s].payload)
      /\ \A t \in Session \ {s} : sessions'[t] = sessions[t]
  BY <1>0, <1>2, CallMoves DEF Places
<1>4. sessions[s].payload # None
  BY <1>0 DEF ShapeInv, CallShape, CallFits, Holding, AwaitReclaim, PublishEnd, DraftEnd
<1>5. CallFits(sessions'[s]) /\ sessions'[s].payload = sessions[s].payload /\ sessions'[s].pc = l
  BY <1>0, <1>2, <1>3, <1>4, CallsGoOn DEF ShapeInv, CallShape, Moved
<1>6. CallShape' /\ OwnPayload'
  BY <1>0, <1>3, <1>5, OneCall DEF ShapeInv
<1>7. Types' /\ RowShape'
  BY <1>0, <1>1, <1>3 DEF Types, ShapeInv, RowShape
<1>8. PayloadInv'
  <2>1. RunKept
    BY <1>1 DEF RunKept
  <2>2. CallQuiet(sessions[s], sessions'[s])
    BY <1>2, <1>3, <1>4, <1>5 DEF CallQuiet, Moved
  <2>3. \A t \in Session : CallQuiet(sessions[t], sessions'[t])
    BY <1>0, <1>3, <2>2, QuietCalls
  <2> QED BY <1>0, <1>1, <1>6, <2>1, <2>3, QuietPayloads DEF Known
<1> QED BY <1>6, <1>7, <1>8 DEF StorageInv, ShapeInv

\* The transactions that make a payload visible.
LEMMA PublishStorage ==
    ASSUME Known, NEW s \in Session, PublishCommit(s) \/ CreateDraft(s) \/ WriteDraft(s)
    PROVE  StorageInv'
<1>0. Types /\ ShapeInv /\ PayloadInv /\ None \notin Payload /\ sessions[s] \in Call
  BY BoundAssumption DEF Known, StorageInv, ShapeInv, Types
<1>1. UNCHANGED <<meta, forgets, ops, failed, settling>> /\ Goto(s, "leaving") /\ Staging(sessions[s])
  BY DEF PublishCommit, CreateDraft, WriteDraft, Staging
<1>2. PayloadInv'
  BY <1>0, DraftPayloads, PublishPayloads DEF Known
<1>3. PICK p \in Payload : p = sessions[s].payload
  BY <1>0, <1>1 DEF ShapeInv, CallShape, CallFits, Holding, Staging, Call
<1>4. /\ sessions' \in [Session -> Call]
      /\ Moved(sessions[s], sessions'[s], "leaving", p)
      /\ \A t \in Session \ {s} : sessions'[t] = sessions[t]
  BY <1>0, <1>1, <1>3, CallMoves DEF Places
<1>5. CallShape' /\ OwnPayload'
  <2>1. CallFits(sessions'[s]) /\ sessions'[s].payload = p
    BY <1>0, <1>4, CallsGoOn DEF ShapeInv, CallShape, Moved
  <2> QED BY <1>0, <1>3, <1>4, <2>1, OneCall DEF ShapeInv
<1>6. payloads' \in [Payload -> PayloadRow]
  <2>1. payloads' = Published(payloads, p)
    BY <1>3 DEF PublishCommit, CreateDraft, WriteDraft
  <2>2. payloads[p] \in PayloadRow
    BY <1>0 DEF Types
  <2>3. [payloads[p] EXCEPT !.state = "published", !.owner = 0] \in PayloadRow
    BY <2>2 DEF PayloadRow
  <2>4. \/ payloads' = payloads
        \/ payloads' = [payloads EXCEPT ![p] = [payloads[p] EXCEPT !.state = "published", !.owner = 0]]
    BY <1>0, <2>1 DEF Published, Types
  <2> QED BY <1>0, <2>3, <2>4 DEF Types
<1>7. CASE PublishCommit(s)
  <2>1. PICK o \in Op, a \in Asset : o = sessions[s].op /\ a = sessions[s].asset
        /\ assets' \in [Asset -> AssetRows] /\ (\A b \in Asset \ {a} : assets'[b] = assets[b])
        /\ assets'[a].rev > 0 /\ assets'[a].payload = p
    BY <1>0, <1>3, <1>7, PublishWrites
  <2>2. /\ originals' \in [Asset -> Payload \cup {None}] /\ drafts' \in [Draft -> DraftRows]
    BY <1>0, <1>7, PublishWrites
  <2>3. reclaim' \in SUBSET Payload
    <3>1. reclaim' \subseteq reclaim \cup Payload
      BY <1>0, <1>7, PublishWrites
    <3> QED BY <1>0, <3>1 DEF Types
  <2>4. receipts' \in [Op -> Nat] /\ applied' \in [Op -> Nat]
    BY <1>0, <1>7, <2>1 DEF Types, PublishCommit, Call
  <2>5. \A d \in Draft : drafts'[d].state = "live" <=> drafts'[d].payload # None
    <3>1. \A d \in Draft : drafts'[d] = drafts[d] \/ (drafts'[d].state = "gone" /\ drafts'[d].payload = None)
      BY <1>0, <1>7, PublishWrites DEF Publishes
    <3> QED BY <1>0, <3>1 DEF ShapeInv, RowShape
  <2>6. RowShape'
    <3>1. \A b \in Asset : assets'[b].rev > 0 <=> assets'[b].payload # None
      BY <1>0, <2>1 DEF ShapeInv, RowShape
    <3> QED BY <1>0, <1>1, <2>5, <3>1 DEF ShapeInv, RowShape
  <2>7. Types'
    BY <1>0, <1>1, <1>4, <1>6, <2>1, <2>2, <2>3, <2>4 DEF Types
  <2> QED BY <1>2, <1>5, <2>6, <2>7 DEF StorageInv, ShapeInv
<1>8. CASE CreateDraft(s) \/ WriteDraft(s)
  <2>0. UNCHANGED <<assets, originals, receipts, applied>>
    BY <1>8 DEF CreateDraft, WriteDraft
  <2>1. PICK d \in Draft : drafts' \in [Draft -> DraftRows] /\ (\A e \in Draft \ {d} : drafts'[e] = drafts[e])
        /\ drafts'[d].state = "live" /\ drafts'[d].payload = p
    BY <1>0, <1>3, <1>8, DraftWritten DEF Known
  <2>2. reclaim' \in SUBSET Payload
    <3>1. CASE CreateDraft(s)
      BY <1>0, <3>1 DEF CreateDraft, Types
    <3>2. CASE WriteDraft(s)
      <4>1. sessions[s].source \in Payload
        <5>1. PICK e \in Draft : e = sessions[s].draft
          BY <1>0, <3>2 DEF WriteDraft, ShapeInv, CallShape, CallFits
        <5>2. drafts[e].payload # None /\ drafts[e].payload = sessions[s].source
          BY <1>0, <3>2, <5>1 DEF WriteDraft, Visible, ShapeInv, RowShape
        <5> QED BY <1>0, <5>2 DEF Call
      <4> QED BY <1>0, <3>2, <4>1 DEF WriteDraft, Queue, Types
    <3> QED BY <1>8, <3>1, <3>2
  <2>3. RowShape'
    BY <1>0, <1>1, <2>0, <2>1 DEF ShapeInv, RowShape
  <2>4. Types'
    BY <1>0, <1>1, <1>4, <1>6, <2>0, <2>1, <2>2 DEF Types
  <2> QED BY <1>2, <1>5, <2>3, <2>4 DEF StorageInv, ShapeInv
<1> QED BY <1>7, <1>8

\* A draft that goes alone: discarded by its owner, or forgotten with its target.
LEMMA DraftDropStorage ==
    ASSUME Known, NEW d \in Draft, drafts[d].state = "live",
           drafts' = DeleteDraft(drafts, d), reclaim' = Queue(reclaim, drafts[d].payload),
           failed' \in BOOLEAN,
           UNCHANGED <<meta, payloads, assets, originals, forgets, receipts, ops, sessions, settling, applied>>
    PROVE  StorageInv'
<1>0. Types /\ ShapeInv /\ PayloadInv /\ None \notin Payload
  BY BoundAssumption DEF Known, StorageInv, ShapeInv
<1>1. PICK p \in Payload : p = drafts[d].payload
  BY <1>0 DEF ShapeInv, RowShape, Types, DraftRows
<1>2. /\ drafts' \in [Draft -> DraftRows] /\ \A e \in Draft \ {d} : drafts'[e] = drafts[e]
      /\ drafts'[d].state = "gone" /\ drafts'[d].payload = None
  BY <1>0, DraftDeleted
<1>3. Referenced(p) /\ \A q \in Payload : Referenced(q) => Referenced(q)' \/ q = p
  BY <1>1, <1>2 DEF Referenced
<1>4. \A a \in Asset : assets[a].payload # p /\ originals[a] # p
  BY <1>0, <1>1 DEF PayloadInv, NoSharing
<1>5. \A e \in Draft : drafts'[e].payload = drafts[e].payload \/ drafts'[e].payload = None
  BY <1>2
<1>6. PayloadInv'
  BY <1>0, <1>1, <1>3, <1>4, <1>5, DroppedPayloads
<1>7. Types'
  BY <1>0, <1>1, <1>2 DEF Types, Queue
<1>8. RowShape' /\ CallShape' /\ OwnPayload'
  BY <1>0, <1>2 DEF ShapeInv, RowShape, CallShape, CallFits, OwnPayload
<1> QED BY <1>6, <1>7, <1>8 DEF StorageInv, ShapeInv

\* An outcome of a batch is a truth value.
LEMMA ReportIs ==
    ASSUME Types, NEW error \in BOOLEAN, Report(error)
    PROVE  failed' \in BOOLEAN
  BY DEF Types, Report

\* The batches that forget.
LEMMA ForgetStorage ==
    ASSUME Known, ForgetOwnerWork \/ ForgetBatch
    PROVE  StorageInv'
<1>0. Types /\ ShapeInv /\ PayloadInv /\ None \notin Payload
  BY BoundAssumption DEF Known, StorageInv, ShapeInv
<1>1. /\ UNCHANGED <<meta, payloads, forgets, receipts, ops, sessions, settling, applied>>
      /\ failed' \in BOOLEAN
  BY <1>0, ReportIs DEF ForgetOwnerWork, ForgetBatch
<1>2. ASSUME NEW d \in DoomedDrafts, drafts' = DeleteDraft(drafts, d),
             reclaim' = Queue(reclaim, drafts[d].payload), UNCHANGED <<assets, originals>>
      PROVE  StorageInv'
  BY <1>1, <1>2, DraftDropStorage DEF DoomedDrafts
<1>3. ASSUME NEW a \in DoomedOriginals, originals' = [originals EXCEPT ![a] = None],
             reclaim' = Queue(reclaim, originals[a]), UNCHANGED <<assets, drafts>>
      PROVE  StorageInv'
  <2>0. a \in Asset
    BY <1>3 DEF DoomedOriginals
  <2>1. PICK p \in Payload : p = originals[a]
    BY <1>0, <1>3 DEF DoomedOriginals, Types
  <2>2. /\ originals' \in [Asset -> Payload \cup {None}] /\ originals'[a] = None
        /\ \A b \in Asset \ {a} : originals'[b] = originals[b]
    BY <1>0, <1>3, <2>0 DEF Types
  <2>3. Referenced(p) /\ \A q \in Payload : Referenced(q) => Referenced(q)' \/ q = p
    BY <1>3, <2>0, <2>1, <2>2 DEF Referenced
  <2>4. \A b \in Asset : /\ assets[b].payload # p /\ originals'[b] # p
                         /\ originals'[b] = originals[b] \/ originals'[b] = None
    BY <1>0, <2>0, <2>1, <2>2 DEF PayloadInv, NoSharing, OriginalsDiffer
  <2>5. PayloadInv'
    BY <1>0, <1>1, <1>3, <2>1, <2>3, <2>4, DroppedPayloads
  <2>6. Types'
    BY <1>0, <1>1, <1>3, <2>1, <2>2 DEF Types, Queue
  <2>7. RowShape' /\ CallShape' /\ OwnPayload'
    BY <1>0, <1>1, <1>3 DEF ShapeInv, RowShape, CallShape, CallFits, OwnPayload
  <2> QED BY <2>5, <2>6, <2>7 DEF StorageInv, ShapeInv
<1>4. ASSUME NEW a \in DoomedAssets, assets' = [assets EXCEPT ![a] = NoAsset],
             reclaim' = Queue(reclaim, assets[a].payload), UNCHANGED <<originals, drafts>>
      PROVE  StorageInv'
  <2>0. a \in Asset
    BY <1>4 DEF DoomedAssets
  <2>1. PICK p \in Payload : p = assets[a].payload
    BY <1>0, <1>4, <2>0 DEF DoomedAssets, Types, AssetRows, ShapeInv, RowShape
  <2>2. /\ assets' \in [Asset -> AssetRows] /\ assets'[a] = NoAsset
        /\ \A b \in Asset \ {a} : assets'[b] = assets[b]
    <3>1. NoAsset \in AssetRows
      BY DEF NoAsset, AssetRows
    <3> QED BY <1>0, <1>4, <2>0, <3>1 DEF Types
  <2>3. NoAsset.payload = None /\ NoAsset.rev = 0
    BY DEF NoAsset
  <2>4. Referenced(p) /\ \A q \in Payload : Referenced(q) => Referenced(q)' \/ q = p
    BY <1>4, <2>0, <2>1, <2>2 DEF Referenced
  <2>5. \A b \in Asset : /\ assets'[b].payload # p /\ originals[b] # p
                         /\ assets'[b] = assets[b] \/ assets'[b] = NoAsset
    BY <1>0, <2>0, <2>1, <2>2, <2>3 DEF PayloadInv, NoSharing
  <2>6. PayloadInv'
    BY <1>0, <1>1, <1>4, <2>1, <2>4, <2>5, DroppedPayloads
  <2>7. Types'
    BY <1>0, <1>1, <1>4, <2>1, <2>2 DEF Types, Queue
  <2>8. RowShape' /\ CallShape' /\ OwnPayload'
    BY <1>0, <1>1, <1>4, <2>2, <2>3 DEF ShapeInv, RowShape, CallShape, CallFits, OwnPayload
  <2> QED BY <2>6, <2>7, <2>8 DEF StorageInv, ShapeInv
<1> QED BY <1>2, <1>3, <1>4 DEF ForgetOwnerWork, ForgetBatch

\* The other batches of the worker.
LEMMA BatchStorage ==
    ASSUME Known, RecoverStage \/ ReclaimPayload \/ ReclaimRefused
    PROVE  StorageInv'
<1>0. Types /\ ShapeInv /\ PayloadInv
  BY DEF Known, StorageInv, ShapeInv
<1>1. /\ UNCHANGED <<meta, assets, originals, drafts, forgets, receipts, ops, sessions, settling, applied>>
      /\ failed' \in BOOLEAN
  BY <1>0, ReportIs DEF RecoverStage, ReclaimPayload, ReclaimRefused
<1>2. CASE RecoverStage \/ ReclaimPayload
  <2>1. PayloadInv' /\ payloads' \in [Payload -> PayloadRow] /\ reclaim' \in SUBSET Payload
    BY <1>0, <1>2, RecoverPayloads, ReclaimPayloads
  <2> QED BY <1>0, <1>1, <2>1 DEF StorageInv, ShapeInv, Types, RowShape, CallShape, CallFits, OwnPayload
<1>3. CASE ReclaimRefused
  <2>1. UNCHANGED <<payloads, reclaim>>
    BY <1>3 DEF ReclaimRefused
  <2>2. ShapeInv'
    BY <1>0, <1>1, <2>1 DEF ShapeInv, Types, RowShape, CallShape, CallFits, OwnPayload
  <2>3. RunKept /\ \A s \in Session : CallQuiet(sessions[s], sessions'[s])
    BY <1>1 DEF RunKept, CallQuiet
  <2>4. PayloadInv'
    BY <1>0, <1>1, <2>1, <2>2, <2>3, QuietPayloads DEF Known, ShapeInv
  <2> QED BY <2>2, <2>4 DEF StorageInv
<1> QED BY <1>2, <1>3

\* A Maintain whose batch found nothing, up to its end.
LEMMA SettleStorage ==
    ASSUME Known, BatchEmpty \/ FinishForget \/ FinishNothing
    PROVE  StorageInv'
<1>0. Types /\ ShapeInv /\ PayloadInv
  BY DEF Known, StorageInv, ShapeInv
<1>1. /\ UNCHANGED <<meta, payloads, reclaim, assets, originals, drafts, receipts, ops, sessions, applied>>
      /\ settling' \in BOOLEAN
  BY DEF BatchEmpty, FinishForget, FinishNothing
<1>2. failed' \in BOOLEAN
  <2>1. CASE failed' = failed
    BY <1>0, <2>1 DEF Types
  <2>2. CASE Report(FALSE)
    BY <1>0, <2>2, ReportIs
  <2> QED BY <2>1, <2>2 DEF BatchEmpty, FinishForget, FinishNothing
<1>3. forgets' \in [Forget -> ForgetRows]
  <2>1. CASE forgets' = forgets
    BY <1>0, <2>1 DEF Types
  <2>2. ASSUME NEW f \in Forget, forgets' = [forgets EXCEPT ![f].state = "complete"]
        PROVE  forgets' \in [Forget -> ForgetRows]
    <3>1. forgets[f] \in ForgetRows
      BY <1>0 DEF Types
    <3>2. [forgets[f] EXCEPT !.state = "complete"] \in ForgetRows
      BY <3>1 DEF ForgetRows
    <3>3. forgets' = [forgets EXCEPT ![f] = [forgets[f] EXCEPT !.state = "complete"]]
      BY <1>0, <2>2 DEF Types
    <3> QED BY <1>0, <3>2, <3>3 DEF Types
  <2> QED BY <2>1, <2>2 DEF BatchEmpty, FinishForget, FinishNothing
<1>4. Types'
  BY <1>0, <1>1, <1>2, <1>3 DEF Types
<1>5. ShapeInv'
  BY <1>0, <1>1, <1>4 DEF ShapeInv, RowShape, CallShape, CallFits, OwnPayload
<1>6. RunKept /\ \A s \in Session : CallQuiet(sessions[s], sessions'[s])
  BY <1>1 DEF RunKept, CallQuiet
<1>7. PayloadInv'
  BY <1>0, <1>1, <1>5, <1>6, QuietPayloads DEF Known, ShapeInv
<1> QED BY <1>5, <1>7 DEF StorageInv

\* A forget decision, the end of its stop phase, and a restart.
LEMMA DecisionStorage ==
    ASSUME Known, \/ \E f \in Forget, a \in Asset : AuthorizeForget(f, a)
                  \/ \E f \in Forget : MarkCleaning(f)
                  \/ Restart
    PROVE  StorageInv'
<1>0. Types /\ ShapeInv /\ PayloadInv /\ meta \in Metas
  BY DEF Known, StorageInv, ShapeInv, Types
<1>1. UNCHANGED <<payloads, reclaim, assets, originals, drafts, receipts, ops, applied>>
  BY DEF AuthorizeForget, MarkCleaning, Restart
<1>2. /\ meta' \in Metas /\ meta'.run > 0 /\ meta'.gen > 0
      /\ RunKept \/ \A s \in Session : sessions'[s].payload = None
  <2>1. ASSUME NEW f \in Forget, NEW a \in Asset, AuthorizeForget(f, a)
        PROVE  meta' \in Metas /\ meta'.run > 0 /\ meta'.gen = meta.gen + 1
    BY <1>0, <2>1 DEF AuthorizeForget, Metas
  <2>2. ASSUME NEW f \in Forget, MarkCleaning(f) PROVE meta' = meta
    BY <2>2 DEF MarkCleaning
  <2>3. ASSUME Restart
        PROVE  /\ meta' \in Metas /\ meta'.run > 0 /\ meta'.gen = meta.gen
               /\ \A s \in Session : sessions'[s].payload = None
    BY <1>0, <2>3 DEF Restart, Metas, Idle
  <2>4. meta.gen \in Nat /\ meta.gen > 0 /\ meta.run > 0
    BY <1>0 DEF Metas, ShapeInv, RowShape
  <2> QED BY <1>0, <2>1, <2>2, <2>3, <2>4 DEF RunKept
<1>3. forgets' \in [Forget -> ForgetRows]
  <2>1. ASSUME NEW f \in Forget, NEW a \in Asset, AuthorizeForget(f, a)
        PROVE  forgets' \in [Forget -> ForgetRows]
    <3>1. [state |-> "cleaning", control |-> "stopping", target |-> a] \in ForgetRows
      BY DEF ForgetRows
    <3> QED BY <1>0, <2>1, <3>1 DEF AuthorizeForget, Types
  <2>2. ASSUME NEW f \in Forget, MarkCleaning(f) PROVE forgets' \in [Forget -> ForgetRows]
    <3>1. forgets[f] \in ForgetRows
      BY <1>0 DEF Types
    <3>2. [forgets[f] EXCEPT !.control = "cleaning"] \in ForgetRows
      BY <3>1 DEF ForgetRows
    <3>3. forgets' = [forgets EXCEPT ![f] = [forgets[f] EXCEPT !.control = "cleaning"]]
      BY <1>0, <2>2 DEF MarkCleaning, Types
    <3> QED BY <1>0, <3>2, <3>3 DEF Types
  <2>3. ASSUME Restart PROVE forgets' \in [Forget -> ForgetRows]
    BY <1>0, <2>3 DEF Restart, Types
  <2> QED BY <2>1, <2>2, <2>3
<1>4. /\ sessions' \in [Session -> Call] /\ CallShape' /\ OwnPayload'
      /\ failed' \in BOOLEAN /\ settling' \in BOOLEAN
      /\ \A s \in Session : CallQuiet(sessions[s], sessions'[s])
  <2>1. CASE UNCHANGED <<sessions, failed, settling>>
    BY <1>0, <2>1 DEF Types, ShapeInv, CallShape, CallFits, OwnPayload, CallQuiet
  <2>2. CASE Restart
    <3>1. Idle \in Call /\ CallFits(Idle) /\ Idle.payload = None /\ Idle.pc = "idle"
      BY DEF Idle, Call, CallFits, Holding, Publishes
    <3>2. sessions' = [s \in Session |-> Idle] /\ failed' = FALSE /\ settling' = FALSE
      BY <2>2 DEF Restart
    <3>3. \A s \in Session : sessions'[s] = Idle
      BY <3>2
    <3>4. CallShape'
      BY <3>1, <3>3 DEF CallShape, CallFits
    <3> QED BY <3>1, <3>2, <3>3, <3>4 DEF OwnPayload, CallQuiet
  <2> QED BY <2>1, <2>2 DEF AuthorizeForget, MarkCleaning
<1>5. ShapeInv'
  <2>1. Types'
    BY <1>0, <1>1, <1>2, <1>3, <1>4 DEF Types
  <2>2. RowShape'
    BY <1>0, <1>1, <1>2 DEF ShapeInv, RowShape
  <2> QED BY <1>4, <2>1, <2>2 DEF ShapeInv
<1>6. PayloadInv'
  BY <1>0, <1>1, <1>2, <1>4, QuietPayloads DEF Known, RunKept
<1> QED BY <1>5, <1>6 DEF StorageInv


\* Every step.
LEMMA StorageStep ==
    ASSUME Known, [Next]_vars
    PROVE  StorageInv'
<1>0. Types /\ ShapeInv /\ PayloadInv
  BY DEF Known, StorageInv, ShapeInv
<1>1. ASSUME NEW o \in Op, PinCreate(o) \/ PinUpdate(o) PROVE StorageInv'
  <2>1. \E a \in Asset \cup {None}, r \in Nat : PinOperation(o, a, r)
    BY <1>0, <1>1 DEF PinCreate, PinUpdate, Types, AssetRows
  <2> QED BY <2>1, PinStorage
<1>2. ASSUME NEW s \in Session, NEW o, NEW d, Begun(s, o, d) PROVE StorageInv'
  BY <1>2, BeginStorage
<1>3. ASSUME NEW s \in Session, CallStep(s) PROVE StorageInv'
  BY <1>3, StageStorage, EndStorage, WaitStorage, PublishStorage DEF CallStep
<1>4. ASSUME NEW d \in Draft, DiscardDraft(d) PROVE StorageInv'
  BY <1>0, <1>4, DraftDropStorage DEF DiscardDraft, Visible, Types
<1>5. ASSUME WorkerStep PROVE StorageInv'
  BY <1>5, ForgetStorage, BatchStorage, SettleStorage DEF WorkerStep
<1>6. CASE UNCHANGED vars
  <2>1. ShapeInv'
    BY <1>0, <1>6 DEF vars, ShapeInv, Types, RowShape, CallShape, CallFits, OwnPayload
  <2>2. RunKept /\ \A s \in Session : CallQuiet(sessions[s], sessions'[s])
    BY <1>6 DEF vars, RunKept, CallQuiet
  <2>3. PayloadInv'
    BY <1>0, <1>6, <2>1, <2>2, QuietPayloads DEF vars, Known, ShapeInv
  <2> QED BY <2>1, <2>3 DEF StorageInv
<1>7. CASE Next
  BY <1>1, <1>2, <1>3, <1>4, <1>5, <1>7, DecisionStorage DEF Next, Begun
<1> QED BY <1>6, <1>7

-----------------------------------------------------------------------------
(* Attempts and receipts.                                                  *)

\* A call that is the same attempt as before, or over.
SameAttempt(c, e) ==
    \/ e = Idle
    \/ /\ e.kind = c.kind /\ e.op = c.op /\ e.gen = c.gen /\ e.draft = c.draft
       /\ c.pc = "leaving" => e.pc = "leaving"

\* A call in progress stays the same attempt.
LEMMA CallStepsKeep ==
    ASSUME Known, NEW s \in Session, CallStep(s)
    PROVE  /\ \A t \in Session : SameAttempt(sessions[t], sessions'[t])
           /\ UNCHANGED <<meta, ops>>
           /\ PublishCommit(s) \/ UNCHANGED <<receipts, applied>>
<1>0. Types
  BY DEF Known, StorageInv, ShapeInv
<1>1. CASE StageInsert(s)
  <2>1. PICK p \in Payload : sessions' = [sessions EXCEPT ![s].pc = "staging", ![s].payload = p]
    BY <1>1 DEF StageInsert
  <2>2. Moved(sessions[s], sessions'[s], "staging", p) /\ \A t \in Session \ {s} : sessions'[t] = sessions[t]
    BY <1>0, <2>1, CallMoves
  <2>3. sessions[s].pc # "leaving" /\ UNCHANGED <<meta, ops, receipts, applied>>
    BY <1>1 DEF StageInsert
  <2> QED BY <2>2, <2>3 DEF SameAttempt, Moved
<1>2. CASE StageFail(s) \/ Abandon(s)
  <2>1. End(s) /\ UNCHANGED <<meta, ops, receipts, applied>>
    BY <1>2 DEF StageFail, Abandon
  <2>2. sessions'[s] = Idle /\ \A t \in Session \ {s} : sessions'[t] = sessions[t]
    BY <1>0, <2>1, CallMoves
  <2> QED BY <2>1, <2>2 DEF SameAttempt
<1>3. ASSUME NEW l \in Places, Goto(s, l), sessions[s].pc # "leaving"
      PROVE  \A t \in Session : SameAttempt(sessions[t], sessions'[t])
  <2>1. Moved(sessions[s], sessions'[s], l, sessions[s].payload)
        /\ \A t \in Session \ {s} : sessions'[t] = sessions[t]
    BY <1>0, <1>3, CallMoves
  <2> QED BY <1>3, <2>1 DEF SameAttempt, Moved
<1>4. CASE StageChunks(s)
  BY <1>3, <1>4 DEF StageChunks, Places
<1>5. CASE StageReady(s)
  BY <1>3, <1>5 DEF StageReady, Places
<1>6. CASE AwaitReclaim(s)
  BY <1>3, <1>6 DEF AwaitReclaim, Places
<1>7. CASE PublishCommit(s)
  BY <1>3, <1>7 DEF PublishCommit, Places
<1>8. CASE PublishEnd(s) \/ DraftEnd(s)
  BY <1>3, <1>8 DEF PublishEnd, DraftEnd, Places
<1>9. CASE CreateDraft(s) \/ WriteDraft(s)
  BY <1>3, <1>9 DEF CreateDraft, WriteDraft, Places
<1> QED BY <1>1, <1>2, <1>4, <1>5, <1>6, <1>7, <1>8, <1>9 DEF CallStep

\* What may become of a draft row: one that exists is written or goes for good, one under
\* creation appears when its creator is done.
DraftMove(d) ==
    \/ drafts'[d] = drafts[d]
    \/ drafts[d].state = "live" /\ drafts'[d].state \in {"live", "gone"}
    \/ /\ drafts[d] = NoDraft
       /\ \E s \in Session : /\ sessions[s].kind = "create" /\ sessions[s].draft = d
                             /\ sessions'[s].pc = "leaving" /\ sessions[s].pc = "staged"

\* No other change of a draft.
LEMMA DraftMoves ==
    ASSUME Known, [Next]_vars, NEW d \in Draft
    PROVE  DraftMove(d)
<1>0. Types /\ ShapeInv
  BY DEF Known, StorageInv, ShapeInv
<1>1. ASSUME NEW s \in Session, CreateDraft(s) \/ WriteDraft(s) PROVE DraftMove(d)
  <2>1. PICK e \in Draft :
           /\ e = sessions[s].draft
           /\ \A x \in Draft \ {e} : drafts'[x] = drafts[x]
           /\ drafts'[e].state = "live"
           /\ \/ CreateDraft(s) /\ drafts[e] = NoDraft
              \/ WriteDraft(s) /\ drafts[e].state = "live"
    BY <1>0, <1>1, DraftWritten DEF Known
  <2>2. CreateDraft(s) => sessions[s].kind = "create" /\ sessions[s].pc = "staged" /\ Goto(s, "leaving")
    BY DEF CreateDraft
  <2>3. Goto(s, "leaving") => sessions'[s].pc = "leaving"
    BY <1>0, CallMoves DEF Places, Moved
  <2>4. CASE d # e
    BY <2>1, <2>4 DEF DraftMove
  <2>5. CASE d = e /\ CreateDraft(s) /\ drafts[e] = NoDraft
    <3>1. /\ sessions[s].kind = "create" /\ sessions[s].draft = d
          /\ sessions'[s].pc = "leaving" /\ sessions[s].pc = "staged"
      BY <2>1, <2>2, <2>3, <2>5
    <3> QED BY <2>5, <3>1 DEF DraftMove
  <2>6. CASE d = e /\ WriteDraft(s) /\ drafts[e].state = "live"
    BY <2>1, <2>6 DEF DraftMove
  <2> QED BY <2>1, <2>4, <2>5, <2>6
<1>2. ASSUME NEW s \in Session, PublishCommit(s) PROVE DraftMove(d)
  <2>1. drafts' = drafts \/ \E e \in Draft : /\ Visible(e) /\ drafts'[e].state = "gone"
                                             /\ \A x \in Draft \ {e} : drafts'[x] = drafts[x]
    BY <1>0, <1>2, PublishWrites DEF Publishes
  <2> QED BY <2>1 DEF DraftMove, Visible
<1>3. ASSUME NEW e \in Draft, drafts[e].state = "live", drafts' = DeleteDraft(drafts, e) PROVE DraftMove(d)
  BY <1>0, <1>3, DraftDeleted DEF DraftMove
<1>4. ASSUME NEW e \in Draft, DiscardDraft(e) PROVE DraftMove(d)
  BY <1>3, <1>4 DEF DiscardDraft, Visible
<1>5. CASE ForgetOwnerWork
  <2>1. CASE drafts' = drafts
    BY <2>1 DEF DraftMove
  <2>2. ASSUME NEW e \in DoomedDrafts, drafts' = DeleteDraft(drafts, e) PROVE DraftMove(d)
    BY <1>3, <2>2 DEF DoomedDrafts
  <2> QED BY <1>5, <2>1, <2>2 DEF ForgetOwnerWork
<1>6. CASE drafts' = drafts
  BY <1>6 DEF DraftMove
<1>7. ASSUME NEW s \in Session, CallStep(s) PROVE DraftMove(d)
  <2>1. \/ CreateDraft(s) \/ WriteDraft(s) \/ PublishCommit(s) \/ drafts' = drafts
    BY <1>7 DEF CallStep, StageInsert, StageChunks, StageReady, StageFail, AwaitReclaim, PublishEnd,
       DraftEnd, Abandon
  <2> QED BY <1>1, <1>2, <1>6, <2>1
<1>8. ASSUME WorkerStep PROVE DraftMove(d)
  BY <1>5, <1>6, <1>8 DEF WorkerStep, RecoverStage, ForgetBatch, ReclaimPayload, ReclaimRefused,
     BatchEmpty, FinishForget, FinishNothing
<1>9. CASE Next
  <2>1. \/ \E s \in Session : CallStep(s)
        \/ \E e \in Draft : DiscardDraft(e)
        \/ WorkerStep
        \/ drafts' = drafts
    BY <1>9 DEF Next, PinCreate, PinUpdate, PinOperation, BeginMutation, BeginCreateDraft, BeginWriteDraft,
       BeginPublishDraft, AuthorizeForget, MarkCleaning, Restart
  <2> QED BY <1>4, <1>6, <1>7, <1>8, <2>1
<1>10. CASE UNCHANGED vars
  BY <1>6, <1>10 DEF vars
<1> QED BY <1>9, <1>10

\* Every step is a pin, the begin of a call, a publication, or one that starts no attempt.
Plain ==
    /\ UNCHANGED <<receipts, ops, applied>> /\ meta'.gen >= meta.gen
    /\ \A s \in Session : SameAttempt(sessions[s], sessions'[s])

\* No other step.
LEMMA StepKinds ==
    ASSUME Known, [Next]_vars
    PROVE  \/ \E o \in Op, a \in Asset \cup {None}, r \in Nat : PinOperation(o, a, r)
           \/ \E s \in Session : \E o, d : Begun(s, o, d)
           \/ \E s \in Session : PublishCommit(s)
           \/ Plain
<1>0. Types /\ meta.gen \in Nat
  BY DEF Known, StorageInv, ShapeInv, Types, Metas
<1>1. ASSUME NEW o \in Op, PinCreate(o) \/ PinUpdate(o)
      PROVE  \E a \in Asset \cup {None}, r \in Nat : PinOperation(o, a, r)
  BY <1>0, <1>1 DEF PinCreate, PinUpdate, Types, AssetRows
<1>2. ASSUME NEW s \in Session, CallStep(s) PROVE PublishCommit(s) \/ Plain
  BY <1>0, <1>2, CallStepsKeep DEF Plain
<1>3. ASSUME UNCHANGED <<meta, sessions, ops, receipts, applied>> PROVE Plain
  BY <1>0, <1>3 DEF Plain, SameAttempt
<1>4. ASSUME NEW f \in Forget, NEW a \in Asset, AuthorizeForget(f, a) PROVE Plain
  BY <1>0, <1>4 DEF Plain, SameAttempt, AuthorizeForget
<1>5. ASSUME Restart PROVE Plain
  BY <1>0, <1>5 DEF Plain, SameAttempt, Restart, Types, Metas
<1>6. ASSUME WorkerStep PROVE UNCHANGED <<meta, sessions, ops, receipts, applied>>
  BY <1>6 DEF WorkerStep, RecoverStage, ForgetOwnerWork, ForgetBatch, ReclaimPayload, ReclaimRefused,
     BatchEmpty, FinishForget, FinishNothing
<1>7. CASE Next
  BY <1>1, <1>2, <1>3, <1>4, <1>5, <1>6, <1>7 DEF Next, Begun, DiscardDraft, MarkCleaning
<1>8. CASE UNCHANGED vars
  BY <1>3, <1>8 DEF vars
<1> QED BY <1>7, <1>8

\* A draft under creation is known to its creator alone.
LEMMA CreatorStep ==
    ASSUME Known, [Next]_vars
    PROVE  CreatorAlone'
<1>0. Types /\ ShapeInv /\ CreatorAlone /\ None \notin Draft
  BY BoundAssumption DEF Known, StorageInv, ShapeInv
<1>1. \A d \in Draft : DraftMove(d)
  BY DraftMoves
<1>2. NoDraft.state = "none"
  BY DEF NoDraft
<1>3. ASSUME \A s \in Session : SameAttempt(sessions[s], sessions'[s])
      PROVE  CreatorAlone'
  <2>1. ASSUME NEW s \in Session, sessions'[s].kind = "create", sessions'[s].pc # "leaving"
        PROVE  /\ drafts'[sessions'[s].draft] = NoDraft
               /\ \A t \in Session \ {s} : sessions'[t].draft # sessions'[s].draft
    <3>1. Idle.kind = "none" /\ Idle.draft = None
      BY DEF Idle
    <3>2. sessions[s].kind = "create" /\ sessions[s].pc # "leaving" /\ sessions'[s].draft = sessions[s].draft
      BY <1>3, <2>1, <3>1 DEF SameAttempt
    <3>3. PICK d \in Draft : d = sessions[s].draft
      BY <1>0, <3>2 DEF ShapeInv, CallShape, CallFits
    <3>4. drafts[d] = NoDraft /\ \A t \in Session \ {s} : sessions[t].draft # d
      BY <1>0, <3>2, <3>3 DEF CreatorAlone
    <3>5. drafts'[d] = drafts[d]
      BY <1>1, <1>2, <2>1, <3>3, <3>4 DEF DraftMove
    <3>6. \A t \in Session \ {s} : sessions'[t].draft # d
      BY <1>0, <1>3, <3>1, <3>4 DEF SameAttempt
    <3> QED BY <3>2, <3>3, <3>4, <3>5, <3>6
  <2> QED BY <2>1 DEF CreatorAlone
<1>4. ASSUME NEW s \in Session, NEW o, NEW d, Begun(s, o, d)
      PROVE  CreatorAlone'
  <2>1. PICK call \in Call :
             /\ sessions' = [sessions EXCEPT ![s] = call]
             /\ \/ o \in Op /\ BeginMutation(s, o) /\ call.kind = "mutation" /\ call.draft = None
                \/ d \in Draft /\ BeginCreateDraft(s, d) /\ call.kind = "create" /\ call.draft = d
                \/ d \in Draft /\ BeginWriteDraft(s, d) /\ call.kind = "write" /\ call.draft = d
                \/ d \in Draft /\ BeginPublishDraft(s, d, o) /\ call.kind = "publish" /\ call.draft = d
    BY <1>0, <1>4, CallsBegin, BeginStorage
  <2>2. sessions'[s] = call /\ \A t \in Session \ {s} : sessions'[t] = sessions[t]
    BY <1>0, <2>1, CallBegins
  <2>3. drafts' = drafts
    BY <1>4 DEF Begun, BeginMutation, BeginCreateDraft, BeginWriteDraft, BeginPublishDraft
  <2>4. /\ call.kind = "create" => drafts[d] = NoDraft /\ \A t \in Session : sessions[t].draft # d
        /\ call.kind \in {"write", "publish"} => drafts[d].state = "live"
    BY <2>1 DEF BeginCreateDraft, BeginWriteDraft, BeginPublishDraft, Visible
  <2>5. ASSUME NEW t \in Session, sessions'[t].kind = "create", sessions'[t].pc # "leaving"
        PROVE  /\ drafts'[sessions'[t].draft] = NoDraft
               /\ \A u \in Session \ {t} : sessions'[u].draft # sessions'[t].draft
    <3>1. CASE t = s
      BY <2>1, <2>2, <2>3, <2>4, <2>5, <3>1
    <3>2. CASE t # s
      <4>1. sessions'[t] = sessions[t] /\ sessions[t].draft \in Draft
        BY <1>0, <2>2, <2>5, <3>2 DEF ShapeInv, CallShape, CallFits
      <4>2. drafts[sessions[t].draft] = NoDraft /\ \A u \in Session \ {t} : sessions[u].draft # sessions[t].draft
        BY <1>0, <2>5, <4>1 DEF CreatorAlone
      <4>3. call.draft # sessions[t].draft
        BY <1>0, <1>2, <2>1, <2>4, <4>1, <4>2
      <4> QED BY <2>2, <2>3, <4>1, <4>2, <4>3
    <3> QED BY <3>1, <3>2
  <2> QED BY <2>5 DEF CreatorAlone
<1>5. ASSUME NEW o \in Op, NEW a \in Asset \cup {None}, NEW r \in Nat, PinOperation(o, a, r)
      PROVE  CreatorAlone'
  BY <1>3, <1>5 DEF PinOperation, SameAttempt
<1>6. ASSUME NEW s \in Session, PublishCommit(s) PROVE CreatorAlone'
  BY <1>3, <1>6, CallStepsKeep DEF CallStep
<1>7. CASE Plain
  BY <1>3, <1>7 DEF Plain
<1> QED BY <1>4, <1>5, <1>6, <1>7, StepKinds

\* The generation never goes back, and who has an operation publishes.
LEMMA OpHolders ==
    ASSUME Known, NEW s \in Session, sessions[s].op \in Op
    PROVE  Publishes(sessions[s]) /\ sessions[s].gen <= meta.gen /\ sessions[s].gen > 0
           /\ sessions[s].gen \in Nat /\ meta.gen \in Nat /\ ops[sessions[s].op].gen > 0
  BY BoundAssumption DEF Known, StorageInv, ShapeInv, CallShape, CallFits, Attempts, Types, Call, Metas

\* Attempts stay attempts of their operation.
LEMMA AttemptsStep ==
    ASSUME Known, [Next]_vars
    PROVE  Attempts'
<1>0. Types /\ ShapeInv /\ Attempts /\ None \notin Draft /\ Asset \cap Draft = {} /\ meta.gen \in Nat
  BY BoundAssumption DEF Known, StorageInv, ShapeInv, Types, Metas
<1>1. \A o \in Op : ops[o] \in OpRows /\ ops[o].gen \in Nat /\ ops[o].gen <= meta.gen
  BY <1>0 DEF Types, OpRows, Attempts
<1>2. \A s \in Session : Publishes(sessions[s]) =>
        /\ sessions[s].op \in Op /\ sessions[s].gen \in Nat
        /\ sessions[s].gen <= meta.gen /\ sessions[s].gen > 0 /\ ops[sessions[s].op].gen > 0
        /\ sessions[s].kind = "publish" => ops[sessions[s].op].asset = sessions[s].draft
                                           /\ sessions[s].draft \in Draft
        /\ sessions[s].kind = "mutation" => ops[sessions[s].op].asset \notin Draft
  BY <1>0 DEF ShapeInv, CallShape, CallFits, Attempts, Types, Call, Publishes
<1>3. ASSUME ops' = ops, meta'.gen \in Nat, meta'.gen >= meta.gen,
             \A s \in Session : SameAttempt(sessions[s], sessions'[s])
      PROVE  Attempts'
  <2>1. Idle.kind = "none"
    BY DEF Idle
  <2>2. \A s \in Session : Publishes(sessions'[s]) =>
          /\ Publishes(sessions[s]) /\ sessions'[s].op = sessions[s].op /\ sessions'[s].gen = sessions[s].gen
          /\ sessions'[s].kind = sessions[s].kind /\ sessions'[s].draft = sessions[s].draft
    BY <1>3, <2>1 DEF SameAttempt, Publishes
  <2> QED BY <1>0, <1>1, <1>2, <1>3, <2>2 DEF Attempts
<1>4. ASSUME NEW o \in Op, NEW a \in Asset \cup {None}, NEW r \in Nat, PinOperation(o, a, r)
      PROVE  Attempts'
  <2>1. meta'.gen \in Nat /\ meta'.gen >= meta.gen
    BY <1>0, <1>4, GenerationTypes DEF PinOperation, Metas
  <2>2. ops[o].gen = 0
    BY <1>4 DEF PinOperation, NoOp
  <2>3. ops'[o].gen = meta'.gen /\ (\A x \in Op \ {o} : ops'[x] = ops[x]) /\ sessions' = sessions
    BY <1>0, <1>4 DEF PinOperation, Types
  <2>4. \A x \in Op : ops'[x].gen <= meta'.gen
    BY <1>0, <1>1, <2>1, <2>3
  <2>5. \A s \in Session : Publishes(sessions[s]) => sessions[s].op # o
    BY <1>2, <2>2
  <2> QED BY <1>0, <1>2, <2>1, <2>3, <2>4, <2>5 DEF Attempts
<1>5. ASSUME NEW s \in Session, NEW o, NEW d, Begun(s, o, d)
      PROVE  Attempts'
  <2>0. meta' \in Metas
    BY <1>5, BeginStorage
  <2>1. PICK call \in Call :
             /\ sessions' = [sessions EXCEPT ![s] = call]
             /\ \/ o \in Op /\ BeginMutation(s, o) /\ call.kind = "mutation" /\ call.op = o /\ call.gen = meta.gen
                \/ d \in Draft /\ BeginCreateDraft(s, d) /\ call.kind = "create"
                \/ d \in Draft /\ BeginWriteDraft(s, d) /\ call.kind = "write"
                \/ o \in Op /\ d \in Draft /\ BeginPublishDraft(s, d, o) /\ call.kind = "publish"
                   /\ call.op = o /\ call.gen = meta'.gen /\ call.draft = d
    BY <1>0, <1>5, <2>0, CallsBegin
  <2>2. sessions'[s] = call /\ \A t \in Session \ {s} : sessions'[t] = sessions[t]
    BY <1>0, <2>1, CallBegins
  <2>3. CASE o \in Op /\ BeginMutation(s, o) /\ call.kind = "mutation" /\ call.op = o /\ call.gen = meta.gen
    <3>1. UNCHANGED <<meta, ops>> /\ ops[o].gen = meta.gen
      BY <2>3 DEF BeginMutation
    <3>2. ops[o].asset \notin Draft
      <4>1. ops[o].asset = None \/ ops[o].asset \in Asset
        BY <2>3 DEF BeginMutation
      <4> QED BY <1>0, <4>1
    <3>3. meta.gen > 0
      BY <1>0 DEF ShapeInv, RowShape
    <3>4. \A t \in Session : Publishes(sessions'[t]) =>
            LET c == sessions'[t] IN
            /\ c.gen <= meta.gen /\ c.gen > 0 /\ ops[c.op].gen > 0
            /\ c.kind = "publish" => ops[c.op].asset = c.draft
            /\ c.kind = "mutation" => ops[c.op].asset \notin Draft
      BY <1>0, <1>2, <2>2, <2>3, <3>1, <3>2, <3>3
    <3> QED BY <1>1, <3>1, <3>4 DEF Attempts
  <2>4. CASE call.kind \in {"create", "write"}
    <3>1. UNCHANGED <<meta, ops>>
      BY <2>1, <2>4 DEF BeginCreateDraft, BeginWriteDraft
    <3>2. ~Publishes(call)
      BY <2>4 DEF Publishes
    <3>3. \A t \in Session : Publishes(sessions'[t]) =>
            LET c == sessions'[t] IN
            /\ c.gen <= meta.gen /\ c.gen > 0 /\ ops[c.op].gen > 0
            /\ c.kind = "publish" => ops[c.op].asset = c.draft
            /\ c.kind = "mutation" => ops[c.op].asset \notin Draft
      BY <1>2, <2>2, <3>2
    <3> QED BY <1>1, <3>1, <3>3 DEF Attempts
  <2>5. CASE o \in Op /\ d \in Draft /\ BeginPublishDraft(s, d, o) /\ call.kind = "publish"
             /\ call.op = o /\ call.gen = meta'.gen /\ call.draft = d
    <3>1. meta'.gen \in Nat /\ meta'.gen >= meta.gen /\ meta.gen > 0
      BY <1>0, <2>5, GenerationTypes DEF BeginPublishDraft, Metas, ShapeInv, RowShape
    <3>2. PICK g \in Nat : g = meta'.gen
      BY <3>1
    <3>3. ops' = [ops EXCEPT ![o] = [gen |-> g, asset |-> d, expected |-> 0]]
      BY <2>5, <3>2 DEF BeginPublishDraft
    <3>4. ops'[o].gen = g /\ ops'[o].asset = d /\ \A x \in Op \ {o} : ops'[x] = ops[x]
      BY <1>0, <2>5, <3>3 DEF Types
    <3>5. ops[o].gen = 0 \/ ops[o].asset = d
      BY <2>5 DEF BeginPublishDraft, NoOp
    <3>6. \A t \in Session : Publishes(sessions[t]) =>
            LET c == sessions[t] IN
            /\ ops'[c.op].gen > 0
            /\ c.kind = "publish" => ops'[c.op].asset = c.draft
            /\ c.kind = "mutation" => ops'[c.op].asset \notin Draft
      BY <1>0, <1>2, <2>5, <3>1, <3>2, <3>4, <3>5
    <3>7. \A x \in Op : ops'[x].gen <= meta'.gen
      BY <1>0, <1>1, <3>1, <3>2, <3>4
    <3>8. \A t \in Session : Publishes(sessions'[t]) =>
            LET c == sessions'[t] IN
            /\ c.gen <= meta'.gen /\ c.gen > 0 /\ ops'[c.op].gen > 0
            /\ c.kind = "publish" => ops'[c.op].asset = c.draft
            /\ c.kind = "mutation" => ops'[c.op].asset \notin Draft
      BY <1>0, <1>2, <2>2, <2>5, <3>1, <3>2, <3>4, <3>6
    <3> QED BY <3>7, <3>8 DEF Attempts
  <2> QED BY <2>1, <2>3, <2>4, <2>5
<1>6. ASSUME NEW s \in Session, PublishCommit(s) PROVE Attempts'
  BY <1>0, <1>3, <1>6, CallStepsKeep DEF CallStep
<1>7. CASE Plain
  <2>1. meta'.gen \in Nat
    BY StorageStep DEF StorageInv, ShapeInv, Types, Metas
  <2> QED BY <1>3, <1>7, <2>1 DEF Plain
<1> QED BY <1>4, <1>5, <1>6, <1>7, StepKinds

\* Nothing of a past generation is taken for one of a new generation.
LEMMA PastAttempts ==
    ASSUME Known, AppliedOnce, meta'.gen \in Nat, meta'.gen > meta.gen, NEW o \in Op
    PROVE  /\ ops[o].gen < meta'.gen
           /\ \A s \in Session : sessions[s].op = o => sessions[s].gen < meta'.gen
<1>1. ops[o].gen \in Nat /\ ops[o].gen <= meta.gen /\ meta.gen \in Nat
  BY DEF Known, StorageInv, ShapeInv, Types, OpRows, Metas, Attempts
<1>2. \A s \in Session : sessions[s].op = o => sessions[s].gen <= meta.gen /\ sessions[s].gen \in Nat
  BY OpHolders
<1> QED BY <1>1, <1>2

\* No step applies an operation again.
LEMMA AppliedStep ==
    ASSUME Known, AppliedOnce, [Next]_vars
    PROVE  AppliedOnce'
<1>0. Types /\ ShapeInv /\ Attempts /\ None \notin Op /\ None \notin Draft /\ meta.gen \in Nat
      /\ Types' /\ meta'.gen \in Nat
  BY BoundAssumption, StorageStep DEF Known, StorageInv, ShapeInv, Types, Metas
<1>1. \A d \in Draft : drafts[d].state = "gone" => drafts'[d].state = "gone"
  <2>1. NoDraft.state = "none"
    BY DEF NoDraft
  <2> QED BY <2>1, DraftMoves DEF DraftMove
<1>2. Idle.op = None
  BY DEF Idle
\* An operation whose own attempts, pin and count do not change.
<1>3. ASSUME NEW o \in Op, applied'[o] = applied[o], applied[o] # 0, ops'[o] = ops[o],
             \A s \in Session : sessions'[s].op = o =>
                 sessions[s].op = o /\ sessions'[s].gen = sessions[s].gen,
             meta'.gen > meta.gen \/ (meta'.gen = meta.gen /\ receipts'[o] = receipts[o])
      PROVE  /\ applied'[o] = 1 /\ ops'[o].gen > 0
             /\ \/ receipts'[o] # 0
                \/ /\ ops'[o].gen < meta'.gen
                   /\ \A s \in Session : sessions'[s].op = o => sessions'[s].gen < meta'.gen
             /\ ops'[o].asset \in Draft => drafts'[ops'[o].asset].state = "gone"
  <2>1. /\ applied[o] = 1 /\ ops[o].gen > 0
        /\ \/ receipts[o] # 0
           \/ /\ ops[o].gen < meta.gen
              /\ \A s \in Session : sessions[s].op = o => sessions[s].gen < meta.gen
        /\ ops[o].asset \in Draft => drafts[ops[o].asset].state = "gone"
    BY <1>3 DEF AppliedOnce
  <2>2. CASE meta'.gen > meta.gen
    BY <1>0, <1>1, <1>3, <2>1, <2>2, PastAttempts
  <2>3. CASE meta'.gen = meta.gen /\ receipts'[o] = receipts[o]
    BY <1>1, <1>3, <2>1, <2>3
  <2> QED BY <1>3, <2>2, <2>3
<1>4. ASSUME NEW o \in Op, NEW a \in Asset \cup {None}, NEW r \in Nat, PinOperation(o, a, r)
      PROVE  AppliedOnce'
  <2>1. applied[o] = 0
    BY <1>4 DEF PinOperation, NoOp, AppliedOnce
  <2>2. /\ (\A x \in Op \ {o} : ops'[x] = ops[x]) /\ sessions' = sessions /\ applied' = applied
        /\ meta'.gen > meta.gen \/ (meta'.gen = meta.gen /\ receipts' = receipts)
    BY <1>0, <1>4, GenerationTypes DEF PinOperation, Types
  <2> QED BY <1>3, <2>1, <2>2 DEF AppliedOnce
<1>5. ASSUME NEW s \in Session, NEW o, NEW d, Begun(s, o, d)
      PROVE  AppliedOnce'
  <2>1. PICK call \in Call :
             /\ sessions' = [sessions EXCEPT ![s] = call]
             /\ \/ o \in Op /\ BeginMutation(s, o) /\ call.op = o /\ call.gen = meta.gen
                \/ d \in Draft /\ BeginCreateDraft(s, d) /\ call.op = None
                \/ d \in Draft /\ BeginWriteDraft(s, d) /\ call.op = None
                \/ o \in Op /\ d \in Draft /\ BeginPublishDraft(s, d, o) /\ call.op = o
    BY <1>0, <1>5, BeginStorage, CallsBegin
  <2>2. sessions'[s] = call /\ \A t \in Session \ {s} : sessions'[t] = sessions[t]
    BY <1>0, <2>1, CallBegins
  <2>3. applied' = applied
    BY <1>5 DEF Begun, BeginMutation, BeginCreateDraft, BeginWriteDraft, BeginPublishDraft
  <2>4. call.op \in Op => call.op = o /\ applied[o] = 0
    <3>1. CASE o \in Op /\ BeginMutation(s, o) /\ call.op = o
      <4>1. receipts[o] = 0 /\ ops[o].gen = meta.gen
        BY <3>1 DEF BeginMutation
      <4> QED BY <1>0, <3>1, <4>1 DEF AppliedOnce
    <3>2. CASE o \in Op /\ d \in Draft /\ BeginPublishDraft(s, d, o) /\ call.op = o
      <4>1. drafts[d].state = "live" /\ (ops[o].gen = 0 \/ ops[o].asset = d)
        BY <3>2 DEF BeginPublishDraft, Visible, NoOp
      <4> QED BY <1>0, <3>2, <4>1 DEF AppliedOnce
    <3> QED BY <1>0, <2>1, <3>1, <3>2
  <2>5. /\ \A x \in Op : x # call.op => ops'[x] = ops[x]
        /\ meta'.gen > meta.gen \/ (meta'.gen = meta.gen /\ receipts' = receipts)
    <3>1. CASE o \in Op /\ d \in Draft /\ BeginPublishDraft(s, d, o) /\ call.op = o
      <4>1. \A x \in Op : x # call.op => ops'[x] = ops[x]
        BY <1>0, <3>1 DEF BeginPublishDraft, Types
      <4>2. OperationGeneration
        BY <3>1 DEF BeginPublishDraft
      <4> QED BY <1>0, <4>1, <4>2, GenerationTypes
    <3>2. CASE UNCHANGED <<ops, meta, receipts>>
      BY <3>2
    <3> QED BY <2>1, <3>1, <3>2 DEF BeginMutation, BeginCreateDraft, BeginWriteDraft
  <2>6. ASSUME NEW x \in Op, applied'[x] # 0
        PROVE  /\ applied[x] # 0 /\ ops'[x] = ops[x]
               /\ \A t \in Session : sessions'[t].op = x =>
                    sessions[t].op = x /\ sessions'[t].gen = sessions[t].gen
    BY <2>2, <2>3, <2>4, <2>5, <2>6
  <2> QED BY <1>3, <2>3, <2>5, <2>6 DEF AppliedOnce
<1>6. ASSUME \A s \in Session : SameAttempt(sessions[s], sessions'[s])
      PROVE  \A x \in Op, s \in Session : sessions'[s].op = x =>
                sessions[s].op = x /\ sessions'[s].gen = sessions[s].gen
  BY <1>0, <1>2, <1>6 DEF SameAttempt
<1>7. ASSUME NEW s \in Session, PublishCommit(s) PROVE AppliedOnce'
  <2>1. PICK o \in Op : o = sessions[s].op
    BY <1>0, <1>7, PublishWrites
  <2>2. receipts[o] = 0 /\ sessions[s].gen = meta.gen
    BY <1>7, <2>1 DEF PublishCommit, Publishable
  <2>3. applied[o] = 0
    BY <1>0, <2>1, <2>2 DEF AppliedOnce
  <2>4. /\ UNCHANGED <<meta, ops>> /\ applied'[o] = applied[o] + 1 /\ receipts'[o] = sessions[s].gen
        /\ \A x \in Op \ {o} : applied'[x] = applied[x] /\ receipts'[x] = receipts[x]
    BY <1>0, <1>7, <2>1 DEF PublishCommit, Types
  <2>5. sessions[s].gen # 0 /\ ops[o].gen > 0 /\ Publishes(sessions[s])
    BY <2>1, OpHolders
  <2>6. ops[o].asset \in Draft => drafts'[ops[o].asset].state = "gone"
    <3>1. sessions[s].kind = "mutation" => ops[o].asset \notin Draft
      BY <1>0, <2>1, <2>5 DEF Attempts
    <3>2. sessions[s].kind = "publish" =>
            ops[o].asset = sessions[s].draft /\ drafts'[sessions[s].draft].state = "gone"
      BY <1>0, <1>7, <2>1, <2>5, PublishWrites DEF Attempts
    <3> QED BY <2>5, <3>1, <3>2 DEF Publishes
  <2>7. \A t \in Session : SameAttempt(sessions[t], sessions'[t])
    BY <1>7, CallStepsKeep DEF CallStep
  <2>8. ASSUME NEW x \in Op \ {o}, applied'[x] # 0
        PROVE  /\ applied'[x] = 1 /\ ops'[x].gen > 0
               /\ \/ receipts'[x] # 0
                  \/ /\ ops'[x].gen < meta'.gen
                     /\ \A t \in Session : sessions'[t].op = x => sessions'[t].gen < meta'.gen
               /\ ops'[x].asset \in Draft => drafts'[ops'[x].asset].state = "gone"
    BY <1>3, <1>6, <2>4, <2>7, <2>8
  <2> QED BY <2>3, <2>4, <2>5, <2>6, <2>8 DEF AppliedOnce
<1>8. CASE Plain
  <2>1. \A x \in Op, s \in Session : sessions'[s].op = x =>
                sessions[s].op = x /\ sessions'[s].gen = sessions[s].gen
    BY <1>6, <1>8 DEF Plain
  <2>2. UNCHANGED <<receipts, ops, applied>> /\ (meta'.gen > meta.gen \/ meta'.gen = meta.gen)
    BY <1>0, <1>8 DEF Plain
  <2> QED BY <1>3, <2>1, <2>2 DEF AppliedOnce
<1> QED BY <1>4, <1>5, <1>7, <1>8, StepKinds

-----------------------------------------------------------------------------
(* The theorems.                                                           *)

\* An empty store satisfies the invariant.
LEMMA StoreInitially == Init => StoreInv
<1> SUFFICES ASSUME Init PROVE StoreInv
  OBVIOUS
<1>0. None \notin Payload
  BY BoundAssumption
<1>1. Types
  <2>1. NoAsset \in AssetRows
    BY DEF NoAsset, AssetRows
  <2>2. NoDraft \in DraftRows
    BY DEF NoDraft, DraftRows
  <2>3. NoForget \in ForgetRows
    BY DEF NoForget, ForgetRows
  <2>4. NoOp \in OpRows
    BY DEF NoOp, OpRows
  <2>5. Idle \in Call
    BY DEF Idle, Call
  <2>6. [run |-> 1, gen |-> 1, deletion |-> 0] \in Metas
    BY DEF Metas
  <2>7. [state |-> "unused", owner |-> 0, content |-> FALSE] \in PayloadRow
    BY DEF PayloadRow
  <2> QED BY <2>1, <2>2, <2>3, <2>4, <2>5, <2>6, <2>7 DEF Init, Types
<1>2. /\ \A a \in Asset : assets[a].payload = None /\ assets[a].rev = 0 /\ originals[a] = None
      /\ \A d \in Draft : drafts[d].payload = None /\ drafts[d].state = "none"
      /\ \A s \in Session : sessions[s] = Idle
      /\ \A p \in Payload : payloads[p].state = "unused"
      /\ \A o \in Op : applied[o] = 0 /\ ops[o].gen = 0
      /\ meta.run = 1 /\ meta.gen = 1 /\ reclaim = {}
  BY DEF Init, NoAsset, NoDraft, NoOp
<1>3. Idle.payload = None /\ Idle.pc = "idle" /\ Idle.kind = "none" /\ Idle.op = None
  BY DEF Idle
<1>4. RowShape /\ CallShape /\ OwnPayload
  BY <1>2, <1>3 DEF RowShape, CallShape, CallFits, Holding, Publishes, OwnPayload
<1>5. \A p \in Payload : ~Referenced(p) /\ ~Row(p)
  BY <1>0, <1>2 DEF Referenced, Row
<1>6. PayloadShape
  BY <1>2, <1>3, <1>5 DEF PayloadShape
<1>7. NoSharing /\ OriginalsDiffer /\ NoLeak /\ AssetsIntact
  BY <1>2, <1>3, <1>5 DEF NoSharing, OriginalsDiffer, NoLeak, AssetsIntact
<1>8. StageKept /\ CreatorAlone /\ Attempts /\ AppliedOnce
  BY <1>2, <1>3 DEF StageKept, CreatorAlone, Attempts, AppliedOnce, Publishes
<1> QED BY <1>1, <1>4, <1>6, <1>7, <1>8 DEF StoreInv

\* The inductive invariant: rows and calls own their payloads, what a call stages for the
\* current generation is untouched, nothing unreferenced is lost, and an applied operation
\* cannot be applied again, over every interleaving of calls, decisions, batches of the worker
\* and restarts.
THEOREM StoreInvariant == Spec => []StoreInv
<1>1. ASSUME StoreInv, [Next]_vars PROVE StoreInv'
  <2>1. Known /\ AppliedOnce
    BY <1>1 DEF StoreInv, Known, StorageInv, ShapeInv, PayloadInv
  <2>2. StorageInv' /\ CreatorAlone' /\ Attempts' /\ AppliedOnce'
    BY <1>1, <2>1, StorageStep, CreatorStep, AttemptsStep, AppliedStep
  <2> QED BY <2>2 DEF StoreInv, StorageInv, ShapeInv, PayloadInv
<1> QED BY <1>1, StoreInitially, PTL DEF Spec

\* Every column keeps its type (the CHECK constraints of the schema and the record types of
\* payload.go, assets.go and owner_work.go).
THEOREM StoreTypeOK == Spec => []TypeOK
<1>1. StoreInv => TypeOK
  BY TypesAre DEF StoreInv
<1> QED BY <1>1, StoreInvariant, PTL

\* Every visible revision and every retained original stays whole, published and out of the
\* reclaim queue (publish, KeepOriginal, recoverStage, reclaimPayload).
THEOREM StoreAssetsIntact == Spec => []AssetsIntact
<1>1. StoreInv => AssetsIntact
  BY DEF StoreInv
<1> QED BY <1>1, StoreInvariant, PTL

\* An operation identity changes assets at most once (lookupReceipt, OperationGeneration, and
\* the deletion of the draft with its publication).
THEOREM StoreExactlyOnce == Spec => []ExactlyOnce
<1>1. StoreInv => ExactlyOnce
  BY DEF StoreInv, AppliedOnce, ExactlyOnce
<1> QED BY <1>1, StoreInvariant, PTL

\* No payload is shared and none is lost (the reclaim jobs of publish, deleteDraft, Abandon and
\* the forget batches; staging_owners).
THEOREM StoreOneKeeper == Spec => []OneKeeper
<1>1. StoreInv => OneKeeper
  BY DEF StoreInv, OneKeeper
<1> QED BY <1>1, StoreInvariant, PTL

\* A forgotten asset, its original and its drafts only disappear (the barrier checks of publish,
\* CreateDraft and WriteDraft against calls that began before the decision).
THEOREM StoreForgottenStaysForgotten == Spec => ForgottenStaysForgotten
<1> DEFINE Kept == \A a \in Asset : Forgotten(a) =>
          /\ Forgotten(a)'
          /\ assets'[a] \in {assets[a], NoAsset}
          /\ originals'[a] \in {originals[a], None}
          /\ \A d \in Draft : drafts'[d].target = a /\ drafts'[d].state = "live"
                                => drafts'[d] = drafts[d]
<1>1. ASSUME StoreInv, [Next]_vars PROVE Kept
  <2>0. Types /\ ShapeInv /\ Known /\ None \notin Asset
    BY <1>1, BoundAssumption DEF StoreInv, Known, StorageInv, ShapeInv, PayloadInv
  <2>1. ASSUME NEW a \in Asset, Forgotten(a) PROVE Forgotten(a)'
    <3>1. PICK f \in Forget : forgets[f].target = a /\ forgets[f].state # "none"
      BY <2>1 DEF Forgotten
    <3>2. forgets'[f].target = a /\ forgets'[f].state # "none"
      <4>1. ASSUME NEW g \in Forget, NEW b \in Asset, AuthorizeForget(g, b)
            PROVE  forgets'[f] = forgets[f]
        <5>1. forgets[g].state = "none"
          BY <4>1 DEF AuthorizeForget, NoForget
        <5> QED BY <2>0, <3>1, <4>1, <5>1 DEF AuthorizeForget, Types
      <4>2. ASSUME NEW g \in Forget, MarkCleaning(g)
            PROVE  forgets'[f].target = forgets[f].target /\ forgets'[f].state = forgets[f].state
        <5>1. forgets[f] \in ForgetRows /\ forgets \in [Forget -> ForgetRows]
          BY <2>0 DEF Types
        <5>2. f # g => forgets'[f] = forgets[f]
          BY <4>2, <5>1 DEF MarkCleaning
        <5>3. f = g => forgets'[f] = [forgets[f] EXCEPT !.control = "cleaning"]
          BY <4>2, <5>1 DEF MarkCleaning
        <5> QED BY <5>1, <5>2, <5>3 DEF ForgetRows
      <4>3. CASE forgets' = forgets
        BY <3>1, <4>3
      <4>4. CASE FinishForget
        <5>1. forgets[f] \in ForgetRows /\ forgets \in [Forget -> ForgetRows]
          BY <2>0 DEF Types
        <5>2. PICK g \in Forget : forgets' = [forgets EXCEPT ![g].state = "complete"]
          BY <4>4 DEF FinishForget
        <5>3. f # g => forgets'[f] = forgets[f]
          BY <5>1, <5>2
        <5>4. f = g => forgets'[f] = [forgets[f] EXCEPT !.state = "complete"]
          BY <5>1, <5>2
        <5> QED BY <3>1, <5>1, <5>3, <5>4 DEF ForgetRows
      <4>5. \/ \E g \in Forget, b \in Asset : AuthorizeForget(g, b)
            \/ \E g \in Forget : MarkCleaning(g)
            \/ FinishForget
            \/ forgets' = forgets
        BY <1>1 DEF Next, vars, PinCreate, PinUpdate, PinOperation, BeginMutation, BeginCreateDraft,
           BeginWriteDraft, BeginPublishDraft, CallStep, StageInsert, StageChunks, StageReady, StageFail,
           AwaitReclaim, PublishCommit, PublishEnd, CreateDraft, WriteDraft, DraftEnd, Abandon,
           DiscardDraft, WorkerStep, RecoverStage, ForgetOwnerWork, ForgetBatch, ReclaimPayload,
           ReclaimRefused, BatchEmpty, FinishNothing, Restart
      <4> QED BY <3>1, <4>1, <4>2, <4>3, <4>4, <4>5
    <3> QED BY <3>2 DEF Forgotten
  <2>2. ASSUME NEW a \in Asset, Forgotten(a)
        PROVE  /\ assets'[a] = assets[a] \/ assets'[a] = NoAsset
               /\ originals'[a] = originals[a] \/ originals'[a] = None
    <3>1. ASSUME NEW s \in Session, PublishCommit(s)
          PROVE  assets'[a] = assets[a] /\ originals'[a] = originals[a]
      <4>1. ~Forgotten(sessions[s].asset)
        BY <3>1 DEF PublishCommit, Publishable
      <4>2. a # sessions[s].asset
        BY <2>2, <4>1
      <4> QED BY <2>0, <3>1, <4>2, PublishWrites
    <3>2. CASE ForgetOwnerWork
      BY <2>0, <3>2 DEF ForgetOwnerWork, DoomedOriginals, Types
    <3>3. CASE ForgetBatch
      BY <2>0, <3>3 DEF ForgetBatch, DoomedAssets, Types
    <3>4. \/ \E s \in Session : PublishCommit(s)
          \/ ForgetOwnerWork \/ ForgetBatch
          \/ UNCHANGED <<assets, originals>>
      BY <1>1 DEF Next, vars, PinCreate, PinUpdate, PinOperation, BeginMutation, BeginCreateDraft,
         BeginWriteDraft, BeginPublishDraft, CallStep, StageInsert, StageChunks, StageReady, StageFail,
         AwaitReclaim, PublishEnd, CreateDraft, WriteDraft, DraftEnd, Abandon,
         DiscardDraft, AuthorizeForget, MarkCleaning, WorkerStep, RecoverStage, ReclaimPayload,
         ReclaimRefused, BatchEmpty, FinishForget, FinishNothing, Restart
    <3> QED BY <3>1, <3>2, <3>3, <3>4
  <2>3. ASSUME NEW a \in Asset, Forgotten(a), NEW d \in Draft, drafts'[d].target = a, drafts'[d].state = "live"
        PROVE  drafts'[d] = drafts[d]
    <3>1. ASSUME NEW s \in Session, CreateDraft(s) \/ WriteDraft(s) PROVE drafts'[d] = drafts[d]
      <4>1. PICK e \in Draft :
               /\ e = sessions[s].draft
               /\ \A x \in Draft \ {e} : drafts'[x] = drafts[x]
               /\ \/ CreateDraft(s) /\ drafts'[e].target = sessions[s].asset
                  \/ WriteDraft(s) /\ drafts'[e].target = drafts[e].target
        BY <2>0, <3>1, DraftWritten DEF Known
      <4>2. drafts'[e].target # None => ~Forgotten(drafts'[e].target)
        <5>1. CreateDraft(s) /\ sessions[s].asset # None => ~Forgotten(sessions[s].asset)
          BY DEF CreateDraft, Live
        <5>2. WriteDraft(s) /\ drafts[e].target # None => ~Forgotten(drafts[e].target)
          BY <4>1 DEF WriteDraft, Visible, Live
        <5> QED BY <4>1, <5>1, <5>2
      <4>3. d # e
        BY <2>0, <2>3, <4>2
      <4> QED BY <4>1, <4>3
    <3>2. ASSUME NEW s \in Session, PublishCommit(s) PROVE drafts'[d] = drafts[d]
      <4>1. drafts' = drafts \/ \E e \in Draft : /\ drafts'[e].state = "gone"
                                                 /\ \A x \in Draft \ {e} : drafts'[x] = drafts[x]
        BY <2>0, <3>2, PublishWrites DEF Publishes
      <4> QED BY <2>3, <4>1
    <3>3. ASSUME NEW e \in Draft, drafts' = DeleteDraft(drafts, e) PROVE drafts'[d] = drafts[d]
      BY <2>0, <2>3, <3>3, DraftDeleted
    <3>4. \/ \E s \in Session : CreateDraft(s) \/ WriteDraft(s)
          \/ \E s \in Session : PublishCommit(s)
          \/ \E e \in Draft : drafts' = DeleteDraft(drafts, e)
          \/ drafts' = drafts
      BY <1>1 DEF Next, vars, PinCreate, PinUpdate, PinOperation, BeginMutation, BeginCreateDraft,
         BeginWriteDraft, BeginPublishDraft, CallStep, StageInsert, StageChunks, StageReady, StageFail,
         AwaitReclaim, PublishEnd, DraftEnd, Abandon, DiscardDraft, AuthorizeForget, MarkCleaning,
         WorkerStep, RecoverStage, ForgetOwnerWork, DoomedDrafts, ForgetBatch, ReclaimPayload,
         ReclaimRefused, BatchEmpty, FinishForget, FinishNothing, Restart
    <3> QED BY <3>1, <3>2, <3>3, <3>4
  <2> QED BY <2>1, <2>2, <2>3
<1>2. ASSUME StoreInv, [Next]_vars PROVE [Kept]_vars
  BY <1>1, <1>2
<1> HIDE DEF Kept
<1>3. Spec => [][Kept]_vars
  BY <1>2, StoreInvariant, PTL DEF Spec
<1> QED BY <1>3 DEF ForgottenStaysForgotten, Kept
=============================================================================
