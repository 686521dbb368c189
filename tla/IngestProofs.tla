---------------------------- MODULE IngestProofs ----------------------------
(***************************************************************************)
(* Theorems about Ingest for every value of its constants.                 *)
(***************************************************************************)
EXTENDS Ingest, FiniteSetTheorems, TLAPS

LiveEntry(e) == e.verdict = "none" => e.attempts < MaxAttempts /\ e.cap < MaxCapacity

QueueInv == \A k \in Keys : queue[k] # NoEntry => LiveEntry(queue[k])

(* What a drain does for the run of its entry, and where it then is.         *)
EnginePcs == {"claim", "model", "commit", "broken"}
Engine(d) ==
  \/ DrainClaim(d) \/ (\E out \in Outcomes : DrainModel(d, out)) \/ DrainCommit(d)
  \/ DrainBroken(d) \/ EngineFault(d)

(* A drain asks the model about an entry without a verdict, and settles only *)
(* one that has its verdict.                                                 *)
Agrees(pc, e) ==
  /\ pc \in {"check", "put"} \union EnginePcs => e.verdict = "none"
  /\ pc \in {"settle", "verify", "finalize", "superseded"} => e.verdict # "none"

DrainInv ==
  \A d \in Drains :
    drain[d].pc \notin {"off", "pick"} =>
      /\ drain[d].key \in Keys
      /\ drain[d].e \in Entry
      /\ LiveEntry(drain[d].e)
      /\ Agrees(drain[d].pc, drain[d].e)

QueueOK == QueueType /\ QueueInv
DrainOK == DrainType /\ DrainInv

ObjectInv == D1Type /\ ChunkType /\ ControlType /\ QueueOK /\ DrainOK

USE MsgsAssumption, MsgsOfAssumption, RepairAssumption, CtxAssumption, DrainAssumption,
    BoundAssumption, OutcomeAssumption, ReqAssumption

(* Every settlement of a row yields a row. *)
LEMMA SettleTypes ==
  ASSUME NEW row \in JobRow, NEW g \in Generations, NEW ms, NEW n \in Nat
  PROVE  /\ SettleDone(row, g, ms) \in JobRow
         /\ SettleFailed(row, g) \in JobRow
         /\ SettleAttempted(row, g, n) \in JobRow
BY DEF JobRow, SettleDone, SettleFailed, SettleAttempted, ActiveStates, TERMINAL_JOB_STATES

(* A held message becomes a live entry. *)
LEMMA EntryTypes ==
  ASSUME NEW h \in Held
  PROVE  EntryOf(h) \in Entry /\ EntryOf(h) # NoEntry /\ LiveEntry(EntryOf(h))
BY DEF Held, EntryOf, Entry, LiveEntry, Verdicts, NoEntry

(* An entry that gets its verdict stays an entry. *)
LEMMA SettlingTypes ==
  ASSUME NEW e \in Entry, NEW v \in Verdicts \ {"none"}
  PROVE  Settling(e, v) \in Entry /\ LiveEntry(Settling(e, v)) /\ Settling(e, v) # NoEntry
BY DEF Settling, Entry, Verdicts, NoEntry, LiveEntry

(* An entry that backs off below its bounds stays live. *)
LEMMA LateTypes ==
  ASSUME NEW e \in Entry, e.attempts < MaxAttempts, e.cap < MaxCapacity
  PROVE  LET f == [e EXCEPT !.late = TRUE] IN f \in Entry /\ LiveEntry(f) /\ f # NoEntry
BY DEF Entry, NoEntry, LiveEntry

(* An attempt or a capacity refusal more stays within the bounds of an entry. *)
LEMMA CountTypes ==
  ASSUME NEW e \in Entry, e.verdict = "none", LiveEntry(e),
         NEW c, c = [e EXCEPT !.cap = e.cap + 1],
         NEW a, a = [e EXCEPT !.attempts = e.attempts + 1]
  PROVE  /\ c \in Entry /\ c.cap = e.cap + 1 /\ c.attempts = e.attempts
         /\ a \in Entry /\ a.attempts = e.attempts + 1 /\ a.cap = e.cap
<1>1. e.cap + 1 \in 0 .. MaxCapacity /\ e.attempts + 1 \in 0 .. MaxAttempts
  BY DEF LiveEntry, Entry
<1> QED BY <1>1 DEF Entry

(* What an outcome makes of a live entry is an entry within its bounds. *)
LEMMA AfterOutcomeTypes ==
  ASSUME NEW e \in Entry, e.verdict = "none", LiveEntry(e), NEW out,
         NEW f, f = AfterOutcome(e, out)
  PROVE  f \in Entry /\ LiveEntry(f) /\ f # NoEntry
<1>1. /\ e.cap \in Nat /\ e.attempts \in Nat
      /\ e.cap < MaxCapacity /\ e.attempts < MaxAttempts
  BY DEF LiveEntry, Entry
<1> DEFINE c == [e EXCEPT !.cap = e.cap + 1]
           a == [e EXCEPT !.attempts = e.attempts + 1]
<1>2. /\ c \in Entry /\ c.cap = e.cap + 1 /\ c.attempts = e.attempts
      /\ a \in Entry /\ a.attempts = e.attempts + 1 /\ a.cap = e.cap
  BY CountTypes
<1>3. CASE out = "capacity"
  <2>1. CASE e.cap + 1 >= MaxCapacity
    <3>1. f = Settling(c, "failed")
      BY <1>3, <2>1 DEF AfterOutcome, Retried
    <3> HIDE DEF c, a
    <3> QED BY <1>2, <3>1, SettlingTypes DEF Verdicts
  <2>2. CASE ~(e.cap + 1 >= MaxCapacity)
    <3>1. f = [c EXCEPT !.late = TRUE]
      BY <1>3, <2>2 DEF AfterOutcome, Retried
    <3> HIDE DEF c, a
    <3>2. c.attempts < MaxAttempts /\ c.cap < MaxCapacity
      BY <1>1, <1>2, <2>2
    <3> QED BY <1>2, <3>1, <3>2, LateTypes
  <2> QED BY <2>1, <2>2
<1>4. CASE out \in {"llm_failed", "db_write_failed"}
  <2>1. CASE e.attempts + 1 >= MaxAttempts
    <3>1. f = Settling(a, "failed")
      BY <1>4, <2>1 DEF AfterOutcome, Retried
    <3> HIDE DEF c, a
    <3> QED BY <1>2, <3>1, SettlingTypes DEF Verdicts
  <2>2. CASE ~(e.attempts + 1 >= MaxAttempts)
    <3>1. f = [a EXCEPT !.late = TRUE]
      BY <1>4, <2>2 DEF AfterOutcome, Retried
    <3> HIDE DEF c, a
    <3>2. a.attempts < MaxAttempts /\ a.cap < MaxCapacity
      BY <1>1, <1>2, <2>2
    <3> QED BY <1>2, <3>1, <3>2, LateTypes
  <2> QED BY <2>1, <2>2
<1>5. CASE out \notin {"capacity", "llm_failed", "db_write_failed"}
  <2>1. \E v \in Verdicts \ {"none"} : f = Settling(e, v)
    BY <1>5 DEF AfterOutcome, Verdicts
  <2> QED BY <2>1, SettlingTypes
<1> QED BY <1>3, <1>4, <1>5

(* A drain that forgets its entry has a drain's type. *)
LEMMA TurnRec ==
  ASSUME NEW rec \in DrainRec, NEW pc \in DrainPcs
  PROVE  LET r == [rec EXCEPT !.pc = pc]
         IN  r \in DrainRec /\ r.pc = pc /\ r.key = rec.key /\ r.e = rec.e
BY DEF DrainRec

(* A drain that moves on with its entry has a drain's type. *)
LEMMA AtRec ==
  ASSUME DrainType, NEW d \in Drains, NEW pc \in DrainPcs, NEW f \in Entry, NEW out \in DrainOuts
  PROVE  LET r == DrainAt(d, pc, f, out)
         IN  r \in DrainRec /\ r.pc = pc /\ r.key = drain[d].key /\ r.e = f
BY DEF DrainType, DrainRec, DrainAt

(* Firing a chunk puts live entries in the queue. *)
LEMMA EnqueueTypes ==
  ASSUME NEW q \in [Keys -> Entry \union {NoEntry}], NEW n \in Nat, NEW chunk \in SUBSET Held,
         \A k \in Keys : q[k] # NoEntry => LiveEntry(q[k])
  PROVE  /\ Enqueue(q, n, chunk) \in [Keys -> Entry \union {NoEntry}]
         /\ \A k \in Keys : Enqueue(q, n, chunk)[k] # NoEntry
                            => LiveEntry(Enqueue(q, n, chunk)[k])
<1> SUFFICES ASSUME NEW k \in Keys
             PROVE  /\ Enqueue(q, n, chunk)[k] \in Entry \union {NoEntry}
                    /\ Enqueue(q, n, chunk)[k] # NoEntry => LiveEntry(Enqueue(q, n, chunk)[k])
  BY DEF Enqueue
<1>1. CASE \E h \in chunk : k = n + Rank(h, chunk)
  <2> DEFINE h == CHOOSE h \in chunk : k = n + Rank(h, chunk)
  <2>1. h \in Held
    BY <1>1
  <2>2. Enqueue(q, n, chunk)[k] = EntryOf(h)
    BY <1>1 DEF Enqueue
  <2> QED BY <2>1, <2>2, EntryTypes
<1>2. CASE ~\E h \in chunk : k = n + Rank(h, chunk)
  BY <1>2 DEF Enqueue
<1> QED BY <1>1, <1>2

(* Firing or holding a chunk keeps the queue and the chunk well typed. *)
LEMMA FireChunkType ==
  ASSUME NEW fire \in BOOLEAN, NEW chunk \in SUBSET Held, IsFiniteSet(chunk),
         NEW q \in [Keys -> Entry \union {NoEntry}],
         \A k \in Keys : q[k] # NoEntry => LiveEntry(q[k]),
         NEW n \in 0 .. MaxSeq, NEW same, FireChunk(fire, chunk, q, n, same)
  PROVE  QueueOK' /\ held' \subseteq Held /\ IsFiniteSet(held') /\ idle' \in BOOLEAN
<1>1. idle' \in BOOLEAN
  BY Zenon DEF FireChunk
<1>2. CASE fire
  <2>1. n + Cardinality(chunk) \in 0 .. MaxSeq
    BY <1>2, FS_CardinalityType DEF FireChunk
  <2>2. queue' = Enqueue(q, n, chunk) /\ qseq' = n + Cardinality(chunk) /\ held' = {}
    BY <1>2 DEF FireChunk
  <2>3. QueueOK'
    BY <2>1, <2>2, EnqueueTypes DEF QueueOK, QueueType, QueueInv
  <2> QED BY <1>1, <2>2, <2>3, FS_EmptySet
<1>3. CASE ~fire
  <2>1. queue' = q /\ qseq' = n /\ held' = chunk
    BY <1>3 DEF FireChunk
  <2> QED BY <1>1, <2>1 DEF QueueOK, QueueType, QueueInv
<1> QED BY <1>2, <1>3

(* Deleting an entry keeps the queue and the markers well typed. *)
LEMMA DeleteEntryType ==
  ASSUME QueueOK, marker \in [Handoffs -> Marker], NEW k \in Keys, NEW e \in Entry, DeleteEntry(k, e)
  PROVE  QueueOK' /\ marker' \in [Handoffs -> Marker]
<1>1. QueueOK'
  BY DEF DeleteEntry, QueueOK, QueueType, QueueInv
<1>2. NoMarker \in Marker
  BY DEF NoMarker, Marker
<1>3. <<e.job, e.gen>> \in Handoffs /\ <<e.job, 0>> \in Handoffs
  BY DEF Entry, Handoffs, Generations
<1>4. marker' = [marker EXCEPT ![<<e.job, e.gen>>] = NoMarker, ![<<e.job, 0>>] = NoMarker]
  BY DEF DeleteEntry, WithoutMarkers
<1>5. marker' \in [Handoffs -> Marker]
  BY <1>2, <1>3, <1>4
<1> QED BY <1>1, <1>5

(* A drain that moves to a program point its entry agrees with keeps DrainOK. *)
LEMMA GotoType ==
  ASSUME DrainOK, NEW d \in Drains, drain[d].pc \notin {"off", "pick"}, NEW pc \in DrainPcs,
         Agrees(pc, drain[d].e), Goto(d, pc)
  PROVE  DrainOK'
<1> DEFINE r == [drain[d] EXCEPT !.pc = pc]
<1>1. r \in DrainRec /\ r.pc = pc /\ r.key = drain[d].key /\ r.e = drain[d].e
  BY TurnRec DEF DrainOK, DrainType
<1>2. drain' = [drain EXCEPT ![d] = r]
  BY DEF Goto
<1> HIDE DEF r
<1> QED BY <1>1, <1>2 DEF DrainOK, DrainType, DrainInv

(* A drain that returns to the head of its loop keeps DrainOK. *)
LEMMA NextTurnType ==
  ASSUME DrainOK, NEW d \in Drains, NextTurn(d)
  PROVE  DrainOK'
<1> DEFINE r == [pc |-> "pick", key |-> 0, e |-> NoEntry, out |-> None,
                 attempted |-> drain[d].attempted]
<1>1. r \in DrainRec /\ r.pc = "pick"
  BY DEF DrainOK, DrainType, DrainRec, DrainPcs, DrainOuts
<1>2. drain' = [drain EXCEPT ![d] = r]
  BY DEF NextTurn
<1> HIDE DEF r
<1> QED BY <1>1, <1>2 DEF DrainOK, DrainType, DrainInv

(* A drain that has an outcome for its entry keeps DrainOK. *)
LEMMA AnswerType ==
  ASSUME DrainOK, NEW d \in Drains, drain[d].pc \in EnginePcs,
         NEW out \in DrainOuts, Answer(d, out)
  PROVE  DrainOK'
<1> DEFINE r == DrainAt(d, "put", drain[d].e, out)
<1>1. /\ drain[d].key \in Keys /\ drain[d].e \in Entry /\ LiveEntry(drain[d].e)
      /\ Agrees("put", drain[d].e)
  BY DEF DrainOK, DrainInv, Agrees, EnginePcs
<1>2. r \in DrainRec /\ r.pc = "put" /\ r.key = drain[d].key /\ r.e = drain[d].e
  BY <1>1, AtRec DEF DrainOK, DrainPcs
<1>3. drain' = [drain EXCEPT ![d] = r]
  BY DEF Answer
<1> HIDE DEF r
<1> QED BY <1>1, <1>2, <1>3 DEF DrainOK, DrainType, DrainInv

(* A drain that ends keeps DrainOK and the control state typed. *)
LEMMA DrainExitType ==
  ASSUME DrainOK, ControlType, NEW d \in Drains, DrainExit(d)
  PROVE  /\ DrainOK'
         /\ lease' \in [holder : Drains \union {None}, live : BOOLEAN]
         /\ alarm' \in BOOLEAN /\ cut' \in BOOLEAN
<1>1. DrainOff \in DrainRec /\ DrainOff.pc = "off"
  BY DEF DrainOff, DrainRec, DrainPcs, DrainOuts
<1>2. drain' = [drain EXCEPT ![d] = DrainOff]
  BY DEF DrainExit
<1>3. DrainOK'
  BY <1>1, <1>2 DEF DrainOK, DrainType, DrainInv
<1>4. lease' \in [holder : Drains \union {None}, live : BOOLEAN]
  BY DEF DrainExit, ControlType
<1>5. alarm' \in BOOLEAN /\ cut' \in BOOLEAN
  BY Zenon DEF DrainExit, GuaranteeWake, HasWork
<1> QED BY <1>3, <1>4, <1>5

(* An announcement at the door keeps the outbox and the fault bound. *)
LEMMA AnnounceDoorType ==
  ASSUME D1Type, faults \in 0 .. MaxFaults, NEW j \in Jobs, NEW row \in JobRow, AnnounceDoor(j, row)
  PROVE  announced' \subseteq Jobs \X TERMINAL_JOB_STATES /\ faults' \in 0 .. MaxFaults
BY DEF AnnounceDoor, Fault, Terminal, D1Type, TERMINAL_JOB_STATES

(* A fault stays within its bound. *)
LEMMA FaultType ==
  ASSUME faults \in 0 .. MaxFaults, Fault
  PROVE  faults' \in 0 .. MaxFaults
BY DEF Fault

(* The wake guarantee keeps its two flags Boolean. *)
LEMMA WakeType ==
  ASSUME NEW chunk, NEW q, GuaranteeWake(chunk, q)
  PROVE  alarm' \in BOOLEAN /\ cut' \in BOOLEAN
BY Zenon DEF GuaranteeWake, HasWork

(* A handoff moves between its states only. *)
LEMMA BecomeType ==
  ASSUME ControlType, NEW h \in Handoffs, NEW pc \in CallStates, Become(h, pc)
  PROVE  call' \in [Handoffs -> CallStates]
BY DEF ControlType, Become

(* The markers and call states the model writes are of their types. *)
LEMMA MarkerTypes ==
  ASSUME NEW settled \in SUBSET Msgs
  PROVE  /\ NoMarker \in Marker /\ Pending \in Marker /\ Accepted \in Marker
         /\ Applied(TRUE, settled) \in Marker /\ Applied(FALSE, settled) \in Marker
         /\ {"off", "gen", "prior", "add", "settle", "own", "ok", "err"} \subseteq CallStates
BY DEF NoMarker, Pending, Accepted, Applied, Marker, CallStates

(* Starting a handoff preserves the invariant of the object. *)
LEMMA StartType ==
  ASSUME ObjectInv, NEW h \in Handoffs, HandoffStart(h)
  PROVE  ObjectInv'
<1>1. marker' \in [Handoffs -> Marker]
  BY MarkerTypes DEF ObjectInv, ControlType, HandoffStart
<1>2. call' \in [Handoffs -> CallStates]
  BY MarkerTypes, BecomeType DEF ObjectInv, HandoffStart
<1>3. D1Type' /\ ChunkType' /\ QueueOK' /\ DrainOK'
  BY DEF ObjectInv, HandoffStart, d1Vars, chunkVars, queueVars, D1Type, ChunkType, QueueOK,
         QueueType, QueueInv, DrainOK, DrainType, DrainInv
<1>4. ControlType'
  BY <1>1, <1>2 DEF ObjectInv, ControlType, HandoffStart
<1> QED BY <1>3, <1>4 DEF ObjectInv

(* The generation check and recovery of a handoff preserve it. *)
LEMMA GenerationType ==
  ASSUME ObjectInv, NEW h \in Handoffs, HandoffGeneration(h)
  PROVE  ObjectInv'
<1> DEFINE j == h[1]
           g == h[2]
           kept == {x \in held : ~(x.job = j /\ x.gen < g)}
           mine == \E x \in kept : x.job = j /\ x.gen = g
           owned == Owns(kept, queue, j, g)
<1>1. D1Type' /\ DrainOK'
  BY DEF ObjectInv, HandoffGeneration, d1Vars, D1Type, DrainOK, DrainType, DrainInv
<1>2. /\ seen' = seen /\ checkpoint' = checkpoint /\ lease' = lease /\ faults' = faults
  BY DEF HandoffGeneration
<1>3. kept \in SUBSET Held /\ IsFiniteSet(kept)
  BY FS_Subset DEF ObjectInv, ChunkType
<1>4. CASE /\ Become(h, "err")
           /\ UNCHANGED <<held, idle, queueVars, marker, alarm, cut>>
  BY <1>1, <1>2, <1>4, BecomeType DEF ObjectInv, ChunkType, QueueOK, QueueType, QueueInv,
     ControlType, CallStates, queueVars
<1>5. CASE /\ held' = kept /\ idle' = (idle /\ Unsettled(kept) # {})
           /\ Become(h, "prior")
           /\ UNCHANGED <<queueVars, marker, alarm, cut>>
  <2>1. idle' \in BOOLEAN
    BY <1>5, Zenon
  <2>2. ChunkType'
    BY <1>2, <1>3, <1>5, <2>1 DEF ObjectInv, ChunkType
  <2> QED BY <1>1, <1>2, <1>5, <2>2, BecomeType DEF ObjectInv, QueueOK, QueueType, QueueInv,
             ControlType, CallStates, queueVars
<1>6. CASE /\ \E fire \in BOOLEAN :
                /\ fire => mine /\ Unsettled(kept) # {}
                /\ (j \in FlushJobs /\ mine /\ Unsettled(kept) # {}) => fire
                /\ FireChunk(fire, kept, queue, qseq, TRUE)
           /\ marker' = [marker EXCEPT ![h] = Applied(TRUE, {})]
           /\ Become(h, "settle")
           /\ GuaranteeWake(held', queue')
  <2>1. PICK fire \in BOOLEAN : FireChunk(fire, kept, queue, qseq, TRUE)
    BY <1>6
  <2>2. QueueOK' /\ held' \subseteq Held /\ IsFiniteSet(held') /\ idle' \in BOOLEAN
    <3> HIDE DEF kept
    <3>1. /\ queue \in [Keys -> Entry \union {NoEntry}] /\ qseq \in 0 .. MaxSeq
          /\ \A k \in Keys : queue[k] # NoEntry => LiveEntry(queue[k])
      BY DEF ObjectInv, QueueOK, QueueType, QueueInv
    <3> QED BY <1>3, <2>1, <3>1, FireChunkType
  <2>3. alarm' \in BOOLEAN /\ cut' \in BOOLEAN
    BY <1>6, WakeType
  <2>4. call' \in [Handoffs -> CallStates]
    BY <1>6, BecomeType, MarkerTypes DEF ObjectInv
  <2>5. marker' \in [Handoffs -> Marker]
    BY <1>6, MarkerTypes DEF ObjectInv, ControlType
  <2>6. ChunkType' /\ ControlType'
    BY <1>2, <2>2, <2>3, <2>4, <2>5 DEF ObjectInv, ChunkType, ControlType
  <2> QED BY <1>1, <2>2, <2>6 DEF ObjectInv
<1> QED BY <1>4, <1>5, <1>6 DEF HandoffGeneration

(* The terminal check of a handoff preserves it. *)
LEMMA PriorType ==
  ASSUME ObjectInv, NEW h \in Handoffs, HandoffPrior(h)
  PROVE  ObjectInv'
<1>1. Applied(MsgsOf[h[1]] \ Noise # {}, {}) \in Marker
  <2>1. (MsgsOf[h[1]] \ Noise # {}) \in BOOLEAN
    BY Zenon
  <2> QED BY <2>1, Zenon DEF Applied, Marker
<1>2. marker' \in [Handoffs -> Marker]
  BY <1>1 DEF ObjectInv, ControlType, HandoffPrior
<1>3. call' \in [Handoffs -> CallStates]
  BY MarkerTypes, BecomeType DEF ObjectInv, HandoffPrior
<1>4. D1Type' /\ ChunkType' /\ QueueOK' /\ DrainOK'
  BY DEF ObjectInv, HandoffPrior, d1Vars, chunkVars, queueVars, D1Type, ChunkType, QueueOK,
         QueueType, QueueInv, DrainOK, DrainType, DrainInv
<1>5. ControlType'
  BY <1>2, <1>3 DEF ObjectInv, ControlType, HandoffPrior
<1> QED BY <1>4, <1>5 DEF ObjectInv

(* Putting an entry back preserves it: the outcome's entry agrees with the drain. *)
LEMMA PutType ==
  ASSUME ObjectInv, NEW d \in Drains, DrainPut(d)
  PROVE  ObjectInv'
<1> DEFINE e  == drain[d].e
           e1 == AfterOutcome(e, drain[d].out)
           pc == IF e1.verdict = "none" THEN "bookkeep" ELSE "settle"
           r  == DrainAt(d, pc, e1, drain[d].out)
<1>1. e \in Entry /\ LiveEntry(e) /\ e.verdict = "none" /\ drain[d].key \in Keys
  BY DEF ObjectInv, DrainOK, DrainInv, DrainPut, Agrees, EnginePcs
<1>2. queue' = [queue EXCEPT ![drain[d].key] = e1] /\ drain' = [drain EXCEPT ![d] = r]
  BY DEF DrainPut
<1> HIDE DEF e
<1>3. e1 \in Entry /\ LiveEntry(e1) /\ e1 # NoEntry
  BY <1>1, AfterOutcomeTypes
<1> HIDE DEF e1
<1>4. pc \in {"bookkeep", "settle"} /\ Agrees(pc, e1)
  BY DEF Agrees, EnginePcs
<1> HIDE DEF pc
<1>5. r \in DrainRec /\ r.key = drain[d].key /\ r.e = e1 /\ r.pc = pc
  <2>1. drain[d].out \in DrainOuts /\ pc \in DrainPcs /\ DrainType
    BY <1>4 DEF ObjectInv, DrainOK, DrainType, DrainRec, DrainPcs
  <2> QED BY <1>3, <2>1, AtRec
<1> HIDE DEF r
<1>6. QueueOK'
  BY <1>1, <1>2, <1>3 DEF ObjectInv, QueueOK, QueueType, QueueInv, DrainPut
<1>7. DrainOK'
  BY <1>1, <1>2, <1>3, <1>4, <1>5 DEF ObjectInv, DrainOK, DrainType, DrainInv
<1>8. D1Type' /\ ChunkType' /\ ControlType'
  BY DEF ObjectInv, DrainPut, d1Vars, chunkVars, D1Type, ChunkType, ControlType
<1> QED BY <1>6, <1>7, <1>8 DEF ObjectInv

(* The image of a finite set is finite. *)
LEMMA ImageFinite ==
  ASSUME NEW S, IsFiniteSet(S), NEW f, f = [x \in S |-> f[x]]
  PROVE  IsFiniteSet({f[x] : x \in S})
<1> DEFINE T == {f[x] : x \in S}
<1>1. f \in Surjection(S, T)
  BY DEF Surjection
<1> QED BY <1>1, FS_Surjection

(* Restamping a chunk yields a finite chunk. *)
LEMMA StampTypes ==
  ASSUME NEW chunk \in SUBSET Held, IsFiniteSet(chunk), NEW j \in Jobs, NEW g \in Generations
  PROVE  {Stamp(x, j, g) : x \in chunk} \subseteq Held /\ IsFiniteSet({Stamp(x, j, g) : x \in chunk})
<1> DEFINE f == [x \in chunk |-> Stamp(x, j, g)]
<1>1. \A x \in chunk : Stamp(x, j, g) \in Held
  BY DEF Stamp, Held
<1>2. IsFiniteSet({f[x] : x \in chunk})
  <2>1. f = [x \in chunk |-> f[x]]
    OBVIOUS
  <2> HIDE DEF f
  <2> QED BY <2>1, ImageFinite
<1>3. {f[x] : x \in chunk} = {Stamp(x, j, g) : x \in chunk}
  OBVIOUS
<1> QED BY <1>1, <1>2, <1>3

(* The messages a packet adds are a finite chunk. *)
LEMMA FreshTypes ==
  ASSUME NEW fresh \in SUBSET Msgs, NEW j \in Jobs, NEW g \in Generations
  PROVE  LET new == {[job |-> j, msg |-> m, gen |-> g, rescue |-> 0] : m \in fresh}
         IN  new \subseteq Held /\ IsFiniteSet(new)
<1> DEFINE f == [m \in fresh |-> [job |-> j, msg |-> m, gen |-> g, rescue |-> 0]]
           new == {[job |-> j, msg |-> m, gen |-> g, rescue |-> 0] : m \in fresh}
<1>1. new \subseteq Held
  <2>1. \A m \in fresh : [job |-> j, msg |-> m, gen |-> g, rescue |-> 0] \in Held
    BY DEF Held
  <2> QED BY <2>1
<1>2. IsFiniteSet(fresh)
  BY FS_Subset
<1>3. IsFiniteSet({f[m] : m \in fresh})
  <2>1. f = [m \in fresh |-> f[m]]
    OBVIOUS
  <2> HIDE DEF f
  <2> QED BY <1>2, <2>1, ImageFinite
<1>4. {f[m] : m \in fresh} = new
  OBVIOUS
<1> QED BY <1>1, <1>3, <1>4

(* A context switch fires the held chunk into keys the bound still allows. *)
LEMMA SwitchTypes ==
  ASSUME QueueOK, ChunkType, NEW switch \in BOOLEAN,
         NEW q, q = (IF switch THEN Enqueue(queue, qseq, held) ELSE queue),
         NEW n, n = (IF switch THEN qseq + Cardinality(held) ELSE qseq),
         NEW chunk, chunk = (IF switch THEN {} ELSE held)
  PROVE  /\ q \in [Keys -> Entry \union {NoEntry}]
         /\ \A k \in Keys : q[k] # NoEntry => LiveEntry(q[k])
         /\ n \in Nat
         /\ chunk \in SUBSET Held /\ IsFiniteSet(chunk)
<1>1. Cardinality(held) \in Nat
  BY FS_CardinalityType DEF ChunkType
<1>2. /\ queue \in [Keys -> Entry \union {NoEntry}]
      /\ \A k \in Keys : queue[k] # NoEntry => LiveEntry(queue[k])
      /\ qseq \in Nat /\ held \in SUBSET Held /\ IsFiniteSet(held)
  BY DEF QueueOK, QueueType, QueueInv, ChunkType
<1>3. CASE switch
  BY <1>1, <1>2, <1>3, EnqueueTypes, FS_EmptySet
<1>4. CASE ~switch
  BY <1>2, <1>4
<1> QED BY <1>3, <1>4

(* The local transaction of addMessages keeps queue, chunk and markers typed. *)
LEMMA AddCommitType ==
  ASSUME ObjectInv, NEW h \in Handoffs, AddCommit(h)
  PROVE  QueueOK' /\ ChunkType' /\ marker' \in [Handoffs -> Marker]
<1> DEFINE j == h[1]
           g == h[2]
           c == Ctx[j]
           switch == OtherContext(held, c)
           q1 == IF switch THEN Enqueue(queue, qseq, held) ELSE queue
           n1 == IF switch THEN qseq + Cardinality(held) ELSE qseq
           chunk == IF switch THEN {} ELSE held
           dups == Duplicates(j, g, chunk)
           noise == (MsgsOf[j] \ dups) \intersect Noise
           fresh == (MsgsOf[j] \ dups) \ Noise
           passed == {n \in noise : chunk = {} /\ \A m \in fresh : m > n}
           new == {[job |-> j, msg |-> m, gen |-> g, rescue |-> 0] : m \in fresh}
           stamped == {Stamp(x, j, g) : x \in chunk}
           chunk1 == (IF fresh = {} THEN chunk ELSE stamped) \union new
           settled == noise \union {m \in dups : ~HeldBySelf(j, m, chunk)}
<1>1. j \in Jobs /\ g \in Generations /\ c \in Contexts
  BY DEF Handoffs
<1>2. dups \subseteq Msgs /\ noise \subseteq Msgs /\ fresh \subseteq Msgs /\ passed \subseteq Msgs
      /\ settled \subseteq Msgs
  BY <1>1 DEF Duplicates
<1>3. /\ q1 \in [Keys -> Entry \union {NoEntry}]
      /\ \A k \in Keys : q1[k] # NoEntry => LiveEntry(q1[k])
      /\ n1 \in Nat
      /\ chunk \in SUBSET Held /\ IsFiniteSet(chunk)
  <2> HIDE DEF c
  <2>1. switch \in BOOLEAN
    BY Zenon DEF OtherContext
  <2> HIDE DEF switch
  <2> QED BY <2>1, SwitchTypes DEF ObjectInv
<1>4. n1 \in 0 .. MaxSeq
  BY <1>3 DEF AddCommit
<1>5. chunk1 \in SUBSET Held /\ IsFiniteSet(chunk1)
  <2> HIDE DEF j, g, chunk, fresh
  <2>1. new \in SUBSET Held /\ IsFiniteSet(new)
    BY <1>1, <1>2, FreshTypes, SMTT(30)
  <2>2. stamped \in SUBSET Held /\ IsFiniteSet(stamped)
    BY <1>1, <1>3, StampTypes, SMTT(30)
  <2> HIDE DEF new, stamped
  <2> QED BY <1>3, <2>1, <2>2, FS_Union
<1>6. CASE /\ FireChunk(FALSE, chunk, q1, n1, ~switch)
           /\ UNCHANGED <<seen, checkpoint, marker>>
  <2>1. QueueOK' /\ held' \subseteq Held /\ IsFiniteSet(held') /\ idle' \in BOOLEAN
    <3> HIDE DEF chunk, q1, n1, switch
    <3> QED BY <1>3, <1>4, <1>6, FireChunkType
  <2> QED BY <1>6, <2>1 DEF ObjectInv, ChunkType, ControlType
<1>7. CASE /\ \E fire \in BOOLEAN : FireChunk(fire, chunk1, q1, n1, fresh = {} /\ ~switch)
           /\ seen' = [seen EXCEPT ![c] = @ \union passed]
           /\ \E last \in IF passed = {} THEN {checkpoint[c]}
                         ELSE {n \in passed : \A m \in passed : m <= n} :
                checkpoint' = [checkpoint EXCEPT ![c] = last]
           /\ \E holds \in BOOLEAN : marker' = [marker EXCEPT ![h] = Applied(holds, settled)]
  <2>1. QueueOK' /\ held' \subseteq Held /\ IsFiniteSet(held') /\ idle' \in BOOLEAN
    <3> HIDE DEF chunk1, q1, n1, switch, fresh
    <3>1. PICK fire \in BOOLEAN : FireChunk(fire, chunk1, q1, n1, fresh = {} /\ ~switch)
      BY <1>7
    <3> QED BY <1>3, <1>4, <1>5, <3>1, FireChunkType
  <2> HIDE DEF c, passed, settled
  <2>2. seen' \in [Contexts -> SUBSET Msgs]
    BY <1>1, <1>2, <1>7 DEF ObjectInv, ChunkType
  <2>3. checkpoint' \in [Contexts -> Msgs \union {NoMsg}]
    BY <1>1, <1>2, <1>7 DEF ObjectInv, ChunkType
  <2>4. marker' \in [Handoffs -> Marker]
    <3>1. PICK holds \in BOOLEAN : marker' = [marker EXCEPT ![h] = Applied(holds, settled)]
      BY <1>7
    <3>2. Applied(holds, settled) \in Marker
      BY <1>2 DEF Applied, Marker
    <3> QED BY <3>1, <3>2 DEF ObjectInv, ControlType
  <2> QED BY <2>1, <2>2, <2>3, <2>4 DEF ChunkType
<1>8. (fresh # {}) \in BOOLEAN
  BY Zenon
<1>9. CASE marker[h].state # "pending"
  BY <1>6, <1>9, Zenon DEF AddCommit
<1>10. CASE marker[h].state = "pending"
  BY <1>7, <1>8, <1>10, Zenon DEF AddCommit
<1> QED BY <1>9, <1>10

(* addMessages preserves the invariant of the object. *)
LEMMA AddType ==
  ASSUME ObjectInv, NEW h \in Handoffs, HandoffAdd(h)
  PROVE  ObjectInv'
<1> DEFINE j == h[1]
           settled == marker'[h].settled
           row == IF settled = {} THEN job[j] ELSE SettleDone(job[j], h[2], settled)
<1>1. QueueOK' /\ ChunkType' /\ marker' \in [Handoffs -> Marker]
  BY AddCommitType DEF HandoffAdd
<1>2. run' = run /\ looked' = looked /\ lease' = lease /\ drain' = drain
  BY DEF HandoffAdd
<1>3. j \in Jobs /\ h[2] \in Generations
  BY DEF Handoffs
<1>4. row \in JobRow
  <2>1. job[j] \in JobRow
    BY <1>3 DEF ObjectInv, D1Type
  <2> QED BY <1>3, <2>1, SettleTypes
<1>5. DrainOK'
  BY <1>2 DEF ObjectInv, DrainOK, DrainType, DrainInv
<1>7. CASE /\ \/ job' = [job EXCEPT ![j] = row] /\ AnnounceDoor(j, row)
              \/ Fault /\ UNCHANGED <<job, announced>>
           /\ Become(h, "settle")
           /\ GuaranteeWake(held', queue')
  <2> HIDE DEF j, row
  <2>1. alarm' \in BOOLEAN /\ cut' \in BOOLEAN
    BY <1>7, WakeType
  <2>2. call' \in [Handoffs -> CallStates]
    BY <1>7, BecomeType, MarkerTypes DEF ObjectInv
  <2>3. /\ job' \in [Jobs -> JobRow] /\ announced' \subseteq Jobs \X TERMINAL_JOB_STATES
        /\ faults' \in 0 .. MaxFaults
    <3>1. D1Type /\ faults \in 0 .. MaxFaults
      BY DEF ObjectInv, ControlType
    <3>2. CASE job' = [job EXCEPT ![j] = row] /\ AnnounceDoor(j, row)
      BY <1>3, <1>4, <3>1, <3>2, AnnounceDoorType DEF D1Type
    <3>3. CASE Fault /\ UNCHANGED <<job, announced>>
      BY <3>1, <3>3, FaultType DEF D1Type
    <3> QED BY <1>7, <3>2, <3>3
  <2> QED BY <1>1, <1>2, <1>5, <2>1, <2>2, <2>3 DEF ObjectInv, D1Type, ControlType
<1> QED BY <1>7 DEF HandoffAdd

(* The strict settlement of a handoff preserves it. *)
LEMMA SettleType ==
  ASSUME ObjectInv, NEW h \in Handoffs, HandoffSettle(h)
  PROVE  ObjectInv'
<1> DEFINE row == IF marker[h].settled = {} THEN job[h[1]]
                  ELSE SettleDone(job[h[1]], h[2], marker[h].settled)
<1>1. h[1] \in Jobs /\ h[2] \in Generations
  BY DEF Handoffs
<1>2. row \in JobRow
  BY <1>1, SettleTypes DEF ObjectInv, D1Type
<1>3. job' = [job EXCEPT ![h[1]] = row] /\ AnnounceDoor(h[1], row)
  BY DEF HandoffSettle
<1> HIDE DEF row
<1>4. D1Type' /\ faults' \in 0 .. MaxFaults
  BY <1>1, <1>2, <1>3, AnnounceDoorType DEF ObjectInv, ControlType, D1Type, HandoffSettle
<1>5. call' \in [Handoffs -> CallStates]
  BY BecomeType, MarkerTypes DEF ObjectInv, HandoffSettle
<1>6. ChunkType' /\ QueueOK' /\ DrainOK'
  BY DEF ObjectInv, HandoffSettle, chunkVars, queueVars, ChunkType, QueueOK, QueueType, QueueInv,
         DrainOK, DrainType, DrainInv
<1>7. ControlType'
  BY <1>4, <1>5 DEF ObjectInv, ControlType, HandoffSettle
<1> QED BY <1>4, <1>6, <1>7 DEF ObjectInv

(* The acknowledgement of a handoff preserves it. *)
LEMMA FinishType ==
  ASSUME ObjectInv, NEW h \in Handoffs, HandoffFinish(h)
  PROVE  ObjectInv'
<1> DEFINE j == h[1]
           g == h[2]
           row == IF marker[h].holds THEN job[j] ELSE SettleDone(job[j], g, job[j].remaining)
<1>1. j \in Jobs /\ g \in Generations
  BY DEF Handoffs
<1>2. row \in JobRow
  BY <1>1, SettleTypes DEF ObjectInv, D1Type
<1>3. ChunkType' /\ QueueOK' /\ DrainOK' /\ run' = run /\ looked' = looked /\ lease' = lease
  BY DEF ObjectInv, HandoffFinish, chunkVars, queueVars, ChunkType, QueueOK, QueueType, QueueInv,
         DrainOK, DrainType, DrainInv
<1>4. CASE /\ marker' = [marker EXCEPT ![h] = Accepted]
           /\ Become(h, "ok")
           /\ GuaranteeWake(held, queue)
           /\ UNCHANGED <<job, announced, faults>>
  <2>1. alarm' \in BOOLEAN /\ cut' \in BOOLEAN
    BY <1>4, WakeType
  <2>2. call' \in [Handoffs -> CallStates] /\ marker' \in [Handoffs -> Marker]
    BY <1>4, BecomeType, MarkerTypes DEF ObjectInv, ControlType
  <2> QED BY <1>3, <1>4, <2>1, <2>2 DEF ObjectInv, D1Type, ControlType
<1>5. CASE /\ job' = [job EXCEPT ![j] = row]
           /\ AnnounceDoor(j, row)
           /\ \/ /\ marker' = [marker EXCEPT ![h] = NoMarker]
                 /\ Become(h, "ok") /\ GuaranteeWake(held, queue)
              \/ Become(h, "err") /\ UNCHANGED <<marker, alarm, cut>>
  <2> HIDE DEF j, row
  <2>1. job' \in [Jobs -> JobRow] /\ announced' \subseteq Jobs \X TERMINAL_JOB_STATES
        /\ faults' \in 0 .. MaxFaults
    BY <1>1, <1>2, <1>5, AnnounceDoorType DEF ObjectInv, ControlType, D1Type
  <2>2. call' \in [Handoffs -> CallStates]
    <3>1. Become(h, "ok") \/ Become(h, "err")
      BY <1>5
    <3> QED BY <3>1, BecomeType, MarkerTypes DEF ObjectInv
  <2>4. marker' \in [Handoffs -> Marker]
    BY <1>5, MarkerTypes DEF ObjectInv, ControlType
  <2>3. alarm' \in BOOLEAN /\ cut' \in BOOLEAN
    BY <1>5, WakeType DEF ObjectInv, ControlType
  <2> QED BY <1>3, <2>1, <2>2, <2>3, <2>4 DEF ObjectInv, D1Type, ControlType
<1> QED BY <1>4, <1>5 DEF HandoffFinish

(* A failed handoff preserves it. *)
LEMMA HandoffFaultType ==
  ASSUME ObjectInv, NEW h \in Handoffs, HandoffFault(h)
  PROVE  ObjectInv'
<1>1. call' \in [Handoffs -> CallStates] /\ faults' \in 0 .. MaxFaults
  BY BecomeType, MarkerTypes, FaultType DEF ObjectInv, ControlType, HandoffFault
<1> QED
  BY <1>1 DEF ObjectInv, HandoffFault, d1Vars, chunkVars, queueVars, D1Type, ChunkType,
     ControlType, QueueOK, QueueType, QueueInv, DrainOK, DrainType, DrainInv

(* Taking the lease and firing an idle chunk keep the object typed. *)
LEMMA AcquireLeaseType ==
  ASSUME ObjectInv, NEW d \in Drains, AcquireLease(d)
  PROVE  /\ QueueOK' /\ DrainOK' /\ held' \subseteq Held /\ IsFiniteSet(held') /\ idle' \in BOOLEAN
         /\ lease' \in [holder : Drains \union {None}, live : BOOLEAN]
<1>1. /\ held \in SUBSET Held /\ IsFiniteSet(held) /\ idle \in BOOLEAN
      /\ queue \in [Keys -> Entry \union {NoEntry}] /\ qseq \in 0 .. MaxSeq
      /\ \A k \in Keys : queue[k] # NoEntry => LiveEntry(queue[k])
  BY DEF ObjectInv, ChunkType, QueueOK, QueueType, QueueInv
<1>2. FireChunk(idle, held, queue, qseq, TRUE)
  BY DEF AcquireLease
<1>3. QueueOK' /\ held' \subseteq Held /\ IsFiniteSet(held') /\ idle' \in BOOLEAN
  BY <1>1, <1>2, FireChunkType
<1>4. lease' \in [holder : Drains \union {None}, live : BOOLEAN]
  BY DEF AcquireLease
<1>5. DrainOK'
  <2> DEFINE r == [drain[d] EXCEPT !.pc = "pick"]
  <2>3. drain[d] \in DrainRec /\ "pick" \in DrainPcs
    BY DEF ObjectInv, DrainOK, DrainType, DrainPcs
  <2>1. r \in DrainRec /\ r.pc = "pick"
    BY <2>3, TurnRec
  <2>2. drain' = [drain EXCEPT ![d] = r]
    BY DEF AcquireLease, Goto
  <2> HIDE DEF r
  <2> QED BY <2>1, <2>2 DEF ObjectInv, DrainOK, DrainType, DrainInv
<1> QED BY <1>3, <1>4, <1>5

(* A drain turned away by the lease changes no work. *)
LEMMA LeaseHeldType ==
  ASSUME ObjectInv, LeaseHeld
  PROVE  /\ QueueOK' /\ DrainOK' /\ held' \subseteq Held /\ IsFiniteSet(held') /\ idle' \in BOOLEAN
         /\ lease' \in [holder : Drains \union {None}, live : BOOLEAN]
         /\ alarm' \in BOOLEAN /\ cut' \in BOOLEAN
BY DEF ObjectInv, LeaseHeld, queueVars, ChunkType, QueueOK, QueueType, QueueInv, DrainOK, DrainType,
   DrainInv, ControlType

(* An inline drain that starts preserves the invariant. *)
LEMMA DrainStartType ==
  ASSUME ObjectInv, NEW d \in Drains, DrainStart(d)
  PROVE  ObjectInv'
<1>1. CASE LeaseHeld
  BY <1>1, LeaseHeldType DEF ObjectInv, DrainStart, d1Vars, D1Type, ChunkType, ControlType
<1>2. CASE AcquireLease(d) /\ UNCHANGED <<alarm, cut>>
  BY <1>2, AcquireLeaseType DEF ObjectInv, DrainStart, d1Vars, D1Type, ChunkType, ControlType
<1> QED BY <1>1, <1>2 DEF DrainStart

(* The alarm handler that starts preserves it. *)
LEMMA AlarmFiresType ==
  ASSUME ObjectInv, AlarmFires
  PROVE  ObjectInv'
<1>1. CASE LeaseHeld
  BY <1>1, LeaseHeldType DEF ObjectInv, AlarmFires, d1Vars, D1Type, ChunkType, ControlType
<1>2. CASE AcquireLease(AlarmDrain) /\ alarm' = FALSE /\ UNCHANGED cut
  BY <1>2, AcquireLeaseType DEF ObjectInv, AlarmFires, d1Vars, D1Type, ChunkType, ControlType
<1> QED BY <1>1, <1>2 DEF AlarmFires

(* Picking an entry preserves it: a live entry without a verdict is read. *)
LEMMA PickType ==
  ASSUME ObjectInv, NEW d \in Drains, DrainPick(d)
  PROVE  ObjectInv'
<1>1. PICK k \in Keys :
        /\ queue[k] # NoEntry
        /\ drain' = [drain EXCEPT ![d] = [pc |-> "read", key |-> k, e |-> queue[k], out |-> None,
                                          attempted |-> drain[d].attempted \union {k}]]
  BY DEF DrainPick, Runnable
<1> DEFINE r == [pc |-> "read", key |-> k, e |-> queue[k], out |-> None,
                 attempted |-> drain[d].attempted \union {k}]
<1>2. queue[k] \in Entry /\ LiveEntry(queue[k])
  BY <1>1 DEF ObjectInv, QueueOK, QueueType, QueueInv
<1>3. r \in DrainRec /\ r.pc = "read" /\ r.key = k /\ r.e = queue[k]
  BY <1>2 DEF ObjectInv, DrainOK, DrainType, DrainRec, DrainPcs, DrainOuts
<1>4. drain' = [drain EXCEPT ![d] = r]
  BY <1>1
<1> HIDE DEF r
<1>5. DrainOK'
  BY <1>2, <1>3, <1>4 DEF ObjectInv, DrainOK, DrainType, DrainInv, Agrees, EnginePcs
<1>6. lease' \in [holder : Drains \union {None}, live : BOOLEAN]
  BY DEF DrainPick
<1>7. D1Type' /\ ChunkType' /\ QueueOK'
  BY DEF ObjectInv, DrainPick, d1Vars, chunkVars, queueVars, D1Type, ChunkType, QueueOK, QueueType,
         QueueInv
<1>8. ControlType'
  BY <1>6 DEF ObjectInv, ControlType, DrainPick
<1> QED BY <1>5, <1>7, <1>8 DEF ObjectInv

(* A drain that is over preserves it. *)
LEMMA DoneType ==
  ASSUME ObjectInv, NEW d \in Drains, DrainDone(d)
  PROVE  ObjectInv'
<1>1. /\ DrainOK' /\ lease' \in [holder : Drains \union {None}, live : BOOLEAN]
      /\ alarm' \in BOOLEAN /\ cut' \in BOOLEAN
  BY DrainExitType DEF ObjectInv, DrainDone
<1> QED
  BY <1>1 DEF ObjectInv, DrainDone, d1Vars, chunkVars, queueVars, D1Type, ChunkType, ControlType,
     QueueOK, QueueType, QueueInv

(* A drain that aborts preserves it. *)
LEMMA DrainFaultType ==
  ASSUME ObjectInv, NEW d \in Drains, DrainFault(d)
  PROVE  ObjectInv'
<1>1. /\ DrainOK' /\ lease' \in [holder : Drains \union {None}, live : BOOLEAN]
      /\ alarm' \in BOOLEAN /\ cut' \in BOOLEAN /\ faults' \in 0 .. MaxFaults
  BY DrainExitType, FaultType DEF ObjectInv, ControlType, DrainFault
<1> QED
  BY <1>1 DEF ObjectInv, DrainFault, d1Vars, chunkVars, queueVars, D1Type, ChunkType, ControlType,
     QueueOK, QueueType, QueueInv

(* The repair-generation check of an entry preserves it. *)
LEMMA ReadType ==
  ASSUME ObjectInv, NEW d \in Drains, DrainRead(d)
  PROVE  ObjectInv'
<1> DEFINE e == drain[d].e
<1>1. e \in Entry /\ drain[d].key \in Keys /\ drain[d].pc \notin {"off", "pick"}
  BY DEF ObjectInv, DrainOK, DrainInv, DrainRead
<1>2. D1Type' /\ ChunkType' /\ lease' = lease /\ alarm' = alarm /\ call' = call /\ faults' = faults
      /\ cut' = cut
  BY DEF ObjectInv, DrainRead, d1Vars, chunkVars, D1Type, ChunkType
<1>3. CASE DeleteEntry(drain[d].key, e) /\ NextTurn(d)
  <2>1. QueueOK' /\ marker' \in [Handoffs -> Marker]
    BY <1>1, <1>3, DeleteEntryType DEF ObjectInv, ControlType
  <2> QED BY <1>2, <1>3, <2>1, NextTurnType DEF ObjectInv, ControlType
<1>4. ASSUME NEW pc \in {"superseded", "settle", "check", "claim"},
             Agrees(pc, e), Goto(d, pc), UNCHANGED <<queueVars, marker>>
      PROVE  ObjectInv'
  <2>1. DrainOK'
    BY <1>1, <1>4, GotoType DEF ObjectInv, DrainPcs
  <2> QED BY <1>2, <1>4, <2>1 DEF ObjectInv, ControlType, queueVars, QueueOK, QueueType, QueueInv
<1>5. CASE /\ Goto(d, IF e.verdict # "none" THEN "settle"
                      ELSE IF e.rescue = 0 THEN "check" ELSE "claim")
           /\ UNCHANGED <<queueVars, marker>>
  <2>1. CASE e.verdict # "none"
    BY <1>4, <1>5, <2>1 DEF Agrees, EnginePcs
  <2>2. CASE e.verdict = "none" /\ e.rescue = 0
    BY <1>4, <1>5, <2>2 DEF Agrees, EnginePcs
  <2>3. CASE e.verdict = "none" /\ e.rescue # 0
    BY <1>4, <1>5, <2>3 DEF Agrees, EnginePcs
  <2> QED BY <2>1, <2>2, <2>3
<1>6. CASE e.verdict # "none" /\ Goto(d, "superseded") /\ UNCHANGED <<queueVars, marker>>
  BY <1>4, <1>6 DEF Agrees, EnginePcs
<1> QED BY <1>3, <1>5, <1>6 DEF DrainRead

(* The terminal check of an entry preserves it. *)
LEMMA CheckType ==
  ASSUME ObjectInv, NEW d \in Drains, DrainCheck(d)
  PROVE  ObjectInv'
<1> DEFINE e == drain[d].e
<1>1. /\ e \in Entry /\ drain[d].key \in Keys /\ drain[d].pc \notin {"off", "pick"}
      /\ e.verdict = "none"
  BY DEF ObjectInv, DrainOK, DrainInv, DrainCheck, Agrees, EnginePcs
<1>2. D1Type' /\ ChunkType' /\ lease' = lease /\ alarm' = alarm /\ call' = call /\ faults' = faults
      /\ cut' = cut
  BY DEF ObjectInv, DrainCheck, d1Vars, chunkVars, D1Type, ChunkType
<1>3. CASE DeleteEntry(drain[d].key, e) /\ NextTurn(d)
  <2>1. QueueOK' /\ marker' \in [Handoffs -> Marker]
    BY <1>1, <1>3, DeleteEntryType DEF ObjectInv, ControlType
  <2> QED BY <1>2, <1>3, <2>1, NextTurnType DEF ObjectInv, ControlType
<1>4. CASE Goto(d, "claim") /\ UNCHANGED <<queueVars, marker>>
  <2>1. DrainOK'
    BY <1>1, <1>4, GotoType DEF ObjectInv, DrainPcs, Agrees, EnginePcs
  <2> QED BY <1>2, <1>4, <2>1 DEF ObjectInv, ControlType, queueVars, QueueOK, QueueType, QueueInv
<1> QED BY <1>3, <1>4 DEF DrainCheck

(* Writing the run of a live entry keeps the run table typed. *)
LEMMA SetRunType ==
  ASSUME D1Type, NEW k \in Keys, NEW e \in Entry, e.attempts < MaxAttempts, e.cap < MaxCapacity,
         NEW st \in RunStates, SetRun(k, e, st)
  PROVE  run' \in [Keys -> [AttemptIds -> RunStates]]
<1>1. <<e.attempts, e.cap>> \in AttemptIds
  BY DEF AttemptIds, Entry
<1> DEFINE a == <<e.attempts, e.cap>>
           f == [run[k] EXCEPT ![a] = st]
<1>2. f \in [AttemptIds -> RunStates]
  BY <1>1 DEF D1Type
<1>3. run' = [run EXCEPT ![k] = f]
  BY DEF SetRun
<1> HIDE DEF f
<1> QED BY <1>2, <1>3 DEF D1Type

(* Every stored outcome of a run is an outcome of the drain. *)
LEMMA OutcomeTypes ==
  ASSUME NEW st \in RunStates \ {"running", "committing"}
  PROVE  RecoveredOutcome(st) \in DrainOuts
BY DEF RunStates, RecoveredOutcome, DrainOuts, None

(* What the catch makes of a run is a stored outcome. *)
LEMMA CaughtTypes ==
  ASSUME NEW st \in RunStates
  PROVE  /\ Caught(st) \in RunStates \ {"none", "running", "committing"}
         /\ RecoveredOutcome(Caught(st)) \in DrainOuts
<1>1. Caught(st) \in RunStates \ {"none", "running", "committing"}
  BY DEF Caught, RunStates, Inferring, Committing
<1> QED BY <1>1, OutcomeTypes

(* The attempt a drain is at has its place in the run table. *)
LEMMA AttemptType ==
  ASSUME ObjectInv, NEW d \in Drains, drain[d].pc \in EnginePcs,
         NEW e, e = drain[d].e, NEW k, k = drain[d].key
  PROVE  /\ k \in Keys /\ e \in Entry /\ e.attempts < MaxAttempts /\ e.cap < MaxCapacity
         /\ <<e.attempts, e.cap>> \in AttemptIds
         /\ RunOf(k, e) \in RunStates
         /\ e.verdict = "none"
<1>1. /\ k \in Keys /\ e \in Entry /\ e.attempts < MaxAttempts /\ e.cap < MaxCapacity
      /\ e.verdict = "none"
  BY DEF ObjectInv, DrainOK, DrainInv, LiveEntry, Agrees, EnginePcs
<1>2. <<e.attempts, e.cap>> \in AttemptIds
  BY <1>1 DEF AttemptIds, Entry
<1> QED BY <1>1, <1>2 DEF ObjectInv, D1Type, RunOf

(* A step of the engine touches the run of its entry, what has been looked   *)
(* at, the faults, and the place of its drain.                               *)
LEMMA EngineMoves ==
  ASSUME ObjectInv, NEW d \in Drains, Engine(d), NEW e, e = drain[d].e, NEW k, k = drain[d].key
  PROVE  /\ drain[d].pc \in EnginePcs
         /\ UNCHANGED <<job, announced, chunkVars, queueVars, marker, lease, alarm, call, cut>>
         /\ faults' = faults \/ Fault
         /\ looked' = looked \/ Looks(e)
         /\ UNCHANGED run \/ \E st \in RunStates \ {"none"} : SetRun(k, e, st)
         /\ \/ NextTurn(d)
            \/ \E pc \in {"model", "commit", "broken"} : Goto(d, pc)
            \/ \E out \in DrainOuts : Answer(d, out)
<1>1. drain[d].pc \in EnginePcs
  BY DEF Engine, DrainClaim, DrainModel, DrainCommit, DrainBroken, EngineFault, EnginePcs
<1>2. RunOf(k, e) \in RunStates
  BY <1>1, AttemptType
<1>3. UNCHANGED <<job, announced, chunkVars, queueVars, marker, lease, alarm, call, cut>>
  BY DEF Engine, DrainClaim, DrainModel, DrainCommit, DrainBroken, EngineFault
<1>4. CASE DrainClaim(d)
  <2>1. {"running", "interrupted"} \subseteq RunStates \ {"none"} /\ "interrupted" \in DrainOuts
    BY DEF RunStates, DrainOuts
  <2>2. CASE RunOf(k, e) \notin {"none", "running", "aged", "committing", "stalled"}
    <3>1. RecoveredOutcome(RunOf(k, e)) \in DrainOuts
      BY <1>2, <2>2, OutcomeTypes
    <3> QED BY <1>1, <1>3, <1>4, <2>1, <2>2, <3>1 DEF DrainClaim
  <2> QED BY <1>1, <1>3, <1>4, <2>1, <2>2 DEF DrainClaim
<1>5. ASSUME NEW out \in Outcomes, DrainModel(d, out)
      PROVE  /\ faults' = faults
             /\ looked' = looked \/ Looks(e)
             /\ UNCHANGED run \/ \E st \in RunStates \ {"none"} : SetRun(k, e, st)
             /\ \/ NextTurn(d)
                \/ \E pc \in {"model", "commit", "broken"} : Goto(d, pc)
                \/ \E o \in DrainOuts : Answer(d, o)
  <2>1. out \in DrainOuts
    BY DEF DrainOuts
  <2>2. /\ "committing" \in RunStates \ {"none"}
        /\ out # "wrote" => (IF out = "no_write" THEN "skipped" ELSE out) \in RunStates \ {"none"}
    BY DEF RunStates
  <2>3. CASE RunOf(k, e) \notin Inferring /\ RunOf(k, e) # "committing"
    <3>1. RecoveredOutcome(RunOf(k, e)) \in DrainOuts
      BY <1>2, <2>3, OutcomeTypes DEF Inferring
    <3> QED BY <1>5, <2>1, <2>2, <2>3, <3>1 DEF DrainModel
  <2> QED BY <1>5, <2>1, <2>2, <2>3 DEF DrainModel
<1>6. CASE DrainCommit(d)
  <2>1. "wrote" \in RunStates \ {"none"} /\ {"wrote", "cancelled"} \subseteq DrainOuts
    BY DEF RunStates, DrainOuts
  <2> QED BY <1>1, <1>3, <1>6, <2>1 DEF DrainCommit
<1>7. CASE DrainBroken(d)
  <2>1. "db_failed" \in RunStates \ {"none"} /\ "db_write_failed" \in DrainOuts
    BY DEF RunStates, DrainOuts
  <2> QED BY <1>1, <1>3, <1>7, <2>1 DEF DrainBroken
<1>8. CASE EngineFault(d)
  <2>1. /\ Caught(RunOf(k, e)) \in RunStates \ {"none"}
        /\ RecoveredOutcome(Caught(RunOf(k, e))) \in DrainOuts /\ "llm_failed" \in DrainOuts
    BY <1>2, CaughtTypes DEF DrainOuts
  <2>2. Fault /\ looked' = looked
    BY <1>8 DEF EngineFault
  <2>3. \/ SetRun(k, e, Caught(RunOf(k, e))) /\ Answer(d, RecoveredOutcome(Caught(RunOf(k, e))))
        \/ UNCHANGED run /\ Answer(d, "llm_failed")
    BY <1>8 DEF EngineFault
  <2> QED BY <1>1, <1>3, <2>1, <2>2, <2>3
<1> QED BY <1>1, <1>3, <1>4, <1>5, <1>6, <1>7, <1>8 DEF Engine

(* Each of them preserves the invariant. *)
LEMMA EngineType ==
  ASSUME ObjectInv, NEW d \in Drains, Engine(d)
  PROVE  ObjectInv'
<1> DEFINE k == drain[d].key
           e == drain[d].e
<1>1. /\ drain[d].pc \in EnginePcs
      /\ UNCHANGED <<job, announced, chunkVars, queueVars, marker, lease, alarm, call, cut>>
      /\ faults' = faults \/ Fault
      /\ looked' = looked \/ Looks(e)
      /\ UNCHANGED run \/ \E st \in RunStates \ {"none"} : SetRun(k, e, st)
      /\ \/ NextTurn(d)
         \/ \E pc \in {"model", "commit", "broken"} : Goto(d, pc)
         \/ \E out \in DrainOuts : Answer(d, out)
  BY EngineMoves
<1>2. k \in Keys /\ e \in Entry /\ e.attempts < MaxAttempts /\ e.cap < MaxCapacity /\ e.verdict = "none"
  BY <1>1, AttemptType
<1> HIDE DEF k
<1>3. D1Type /\ DrainOK /\ run \in [Keys -> [AttemptIds -> RunStates]]
  BY DEF ObjectInv, D1Type
<1>4. run' \in [Keys -> [AttemptIds -> RunStates]]
  BY <1>1, <1>2, <1>3, SetRunType
<1>5. looked' \subseteq Contexts \X Msgs
  <2>1. Ctx[e.job] \in Contexts /\ e.msg \in Msgs
    BY <1>2 DEF Entry
  <2>2. looked' = looked \/ looked' = looked \union {<<Ctx[e.job], e.msg>>}
    BY <1>1 DEF Looks
  <2>3. looked \subseteq Contexts \X Msgs
    BY <1>3 DEF D1Type
  <2> HIDE DEF e
  <2> QED BY <2>1, <2>2, <2>3
<1>6. faults' \in 0 .. MaxFaults
  BY <1>1, FaultType DEF ObjectInv, ControlType
<1>7. DrainOK'
  <2>1. CASE NextTurn(d)
    BY <1>3, <2>1, NextTurnType
  <2>2. ASSUME NEW pc \in {"model", "commit", "broken"}, Goto(d, pc)
        PROVE  DrainOK'
    <3>1. pc \in DrainPcs /\ Agrees(pc, e) /\ drain[d].pc \notin {"off", "pick"}
      BY <1>1, <1>2 DEF DrainPcs, Agrees, EnginePcs
    <3> QED BY <1>3, <2>2, <3>1, GotoType
  <2>3. ASSUME NEW out \in DrainOuts, Answer(d, out)
        PROVE  DrainOK'
    BY <1>1, <1>3, <2>3, AnswerType
  <2> QED BY <1>1, <2>1, <2>2, <2>3
<1> QED BY <1>1, <1>4, <1>5, <1>6, <1>7 DEF ObjectInv, chunkVars, queueVars, D1Type, ChunkType,
           ControlType, QueueOK, QueueType, QueueInv

(* Attempt bookkeeping preserves it. *)
LEMMA BookkeepType ==
  ASSUME ObjectInv, NEW d \in Drains, DrainBookkeep(d)
  PROVE  ObjectInv'
<1> DEFINE e == drain[d].e
           n == IF drain[d].out = "capacity" THEN e.attempts + e.cap ELSE e.attempts
           row == SettleAttempted(job[e.job], e.gen, n)
<1>1. e \in Entry
  BY DEF ObjectInv, DrainOK, DrainInv, DrainBookkeep
<1>2. n \in Nat /\ e.job \in Jobs /\ e.gen \in Generations
  BY <1>1 DEF Entry
<1>3. row \in JobRow
  BY <1>2, SettleTypes DEF ObjectInv, D1Type
<1>4. \/ job' = [job EXCEPT ![e.job] = row] /\ UNCHANGED faults
      \/ Fault /\ UNCHANGED job
  BY DEF DrainBookkeep
<1> HIDE DEF row
<1>5. job' \in [Jobs -> JobRow] /\ faults' \in 0 .. MaxFaults
  BY <1>2, <1>3, <1>4, FaultType DEF ObjectInv, D1Type, ControlType
<1>6. DrainOK'
  BY NextTurnType DEF DrainBookkeep, ObjectInv
<1>7. ChunkType' /\ QueueOK'
  BY DEF ObjectInv, DrainBookkeep, chunkVars, queueVars, ChunkType, QueueOK, QueueType, QueueInv
<1>8. D1Type' /\ ControlType'
  BY <1>5 DEF ObjectInv, DrainBookkeep, D1Type, ControlType
<1> QED BY <1>6, <1>7, <1>8 DEF ObjectInv

(* Backing off a settlement keeps the queue and the drain in their invariants. *)
LEMMA SettleLaterType ==
  ASSUME ObjectInv, NEW d \in Drains, drain[d].pc \in {"settle", "verify"},
         SettleLater(d)
  PROVE  QueueOK' /\ DrainOK'
<1> DEFINE f == [drain[d].e EXCEPT !.late = TRUE]
<1>1. drain[d].key \in Keys /\ drain[d].e \in Entry /\ drain[d].e.verdict # "none"
  BY DEF ObjectInv, DrainOK, DrainInv, Agrees, EnginePcs
<1>2. f \in Entry /\ LiveEntry(f) /\ f # NoEntry
  BY <1>1 DEF Entry, LiveEntry, NoEntry
<1>3. queue' = [queue EXCEPT ![drain[d].key] = f] /\ qseq' = qseq
  BY DEF SettleLater
<1> HIDE DEF f
<1>4. QueueOK'
  BY <1>1, <1>2, <1>3 DEF ObjectInv, QueueOK, QueueType, QueueInv
<1>5. DrainOK'
  BY NextTurnType DEF ObjectInv, SettleLater
<1> QED BY <1>4, <1>5

(* Settling an entry preserves the invariant. *)
LEMMA DrainSettleType ==
  ASSUME ObjectInv, NEW d \in Drains, DrainSettle(d)
  PROVE  ObjectInv'
<1> DEFINE e == drain[d].e
           row == IF e.verdict = "failed" THEN SettleFailed(job[e.job], e.gen)
                  ELSE SettleDone(job[e.job], e.gen, {e.msg})
<1>1. e \in Entry /\ e.verdict # "none"
  BY DEF ObjectInv, DrainOK, DrainInv, DrainSettle, Agrees, EnginePcs
<1>2. e.job \in Jobs /\ e.gen \in Generations
  BY <1>1 DEF Entry
<1>3. row \in JobRow
  BY <1>2, SettleTypes DEF ObjectInv, D1Type
<1>4. ChunkType' /\ run' = run /\ looked' = looked /\ announced' = announced /\ marker' = marker
      /\ lease' = lease /\ alarm' = alarm /\ call' = call /\ cut' = cut
  BY DEF ObjectInv, DrainSettle, chunkVars, ChunkType
<1>5. CASE /\ job' = [job EXCEPT ![e.job] = row]
           /\ Goto(d, "verify")
           /\ UNCHANGED <<queueVars, faults>>
  <2>1. DrainOK'
    <3>1. "verify" \in DrainPcs /\ Agrees("verify", e) /\ drain[d].pc \notin {"off", "pick"}
      BY <1>1 DEF DrainPcs, Agrees, EnginePcs, DrainSettle
    <3> QED BY <1>5, <3>1, GotoType DEF ObjectInv
  <2> HIDE DEF row
  <2>2. job' \in [Jobs -> JobRow]
    BY <1>2, <1>3, <1>5 DEF ObjectInv, D1Type
  <2> QED BY <1>4, <1>5, <2>1, <2>2 DEF ObjectInv, D1Type, ControlType, queueVars, QueueOK,
             QueueType, QueueInv
<1>6. CASE /\ Fault
           /\ job' \in {job, [job EXCEPT ![e.job] = row]}
           /\ SettleLater(d)
  <2>1. QueueOK' /\ DrainOK'
    BY <1>6, SettleLaterType DEF DrainSettle
  <2>2. faults' \in 0 .. MaxFaults
    BY <1>6, FaultType DEF ObjectInv, ControlType
  <2> HIDE DEF row
  <2>3. job' \in [Jobs -> JobRow]
    BY <1>2, <1>3, <1>6 DEF ObjectInv, D1Type
  <2> QED BY <1>4, <2>1, <2>2, <2>3 DEF ObjectInv, D1Type, ControlType
<1> QED BY <1>5, <1>6 DEF DrainSettle

(* Verifying and announcing a settlement preserve it. *)
LEMMA VerifyType ==
  ASSUME ObjectInv, NEW d \in Drains, DrainVerify(d)
  PROVE  ObjectInv'
<1> DEFINE e == drain[d].e
<1>1. e \in Entry /\ e.verdict # "none"
  BY DEF ObjectInv, DrainOK, DrainInv, DrainVerify, Agrees, EnginePcs
<1>2. ChunkType' /\ job' = job /\ run' = run /\ looked' = looked /\ marker' = marker
      /\ lease' = lease /\ alarm' = alarm /\ call' = call /\ cut' = cut
  BY DEF ObjectInv, DrainVerify, chunkVars, ChunkType
<1>3. CASE /\ Terminal(job[e.job])
           /\ announced' = announced \union {<<e.job, job[e.job].status>>}
           /\ Goto(d, "finalize")
           /\ UNCHANGED <<queueVars, faults>>
  <2>1. DrainOK'
    <3>1. "finalize" \in DrainPcs /\ Agrees("finalize", e) /\ drain[d].pc \notin {"off", "pick"}
      BY <1>1 DEF DrainPcs, Agrees, EnginePcs, DrainVerify
    <3> QED BY <1>3, <3>1, GotoType DEF ObjectInv
  <2>2. e.job \in Jobs
    BY <1>1 DEF Entry
  <2> HIDE DEF e
  <2>3. announced' \subseteq Jobs \X TERMINAL_JOB_STATES
    BY <1>3, <2>2 DEF ObjectInv, D1Type, Terminal
  <2> QED BY <1>2, <1>3, <2>1, <2>3 DEF ObjectInv, D1Type, ControlType, queueVars, QueueOK,
             QueueType, QueueInv
<1>4. CASE SettleLater(d) /\ UNCHANGED announced /\ (Fault \/ UNCHANGED faults)
  <2>1. QueueOK' /\ DrainOK'
    BY <1>4, SettleLaterType DEF DrainVerify
  <2>2. faults' \in 0 .. MaxFaults
    BY <1>4, FaultType DEF ObjectInv, ControlType
  <2> QED BY <1>2, <1>4, <2>1, <2>2 DEF ObjectInv, D1Type, ControlType
<1> QED BY <1>3, <1>4 DEF DrainVerify

(* Retiring an entry keeps queue, chunk and markers typed. *)
LEMMA RetireType ==
  ASSUME ObjectInv, NEW d \in Drains, drain[d].pc \in {"finalize", "superseded"}, Retire(d)
  PROVE  ChunkType' /\ QueueOK' /\ DrainOK' /\ marker' \in [Handoffs -> Marker]
<1> DEFINE e == drain[d].e
           c == Ctx[e.job]
<1>1. e \in Entry /\ drain[d].key \in Keys
  BY DEF ObjectInv, DrainOK, DrainInv
<1>2. e.msg \in Msgs /\ c \in Contexts
  BY <1>1 DEF Entry
<1>3. QueueOK' /\ marker' \in [Handoffs -> Marker]
  BY <1>1, DeleteEntryType DEF Retire, ObjectInv, ControlType
<1>4. DrainOK'
  BY NextTurnType DEF Retire, ObjectInv
<1>5. /\ checkpoint' = checkpoint \/ checkpoint' = [checkpoint EXCEPT ![c] = e.msg]
      /\ seen' = seen \/ seen' = [seen EXCEPT ![c] = @ \union {e.msg}]
      /\ held' = held /\ idle' = idle
  BY DEF Retire
<1> HIDE DEF e, c
<1>6. ChunkType'
  BY <1>2, <1>5 DEF ObjectInv, ChunkType
<1> QED BY <1>3, <1>4, <1>6

(* Finalizing an entry preserves the invariant. *)
LEMMA FinalizeType ==
  ASSUME ObjectInv, NEW d \in Drains, DrainFinalize(d)
  PROVE  ObjectInv'
<1>1. ChunkType' /\ QueueOK' /\ DrainOK' /\ marker' \in [Handoffs -> Marker]
  BY RetireType DEF DrainFinalize
<1> QED BY <1>1 DEF DrainFinalize, ObjectInv, d1Vars, D1Type, ControlType

(* Dropping a superseded entry preserves it. *)
LEMMA SupersededType ==
  ASSUME ObjectInv, NEW d \in Drains, DrainSuperseded(d)
  PROVE  ObjectInv'
<1> DEFINE e == drain[d].e
           a == <<e.job, IF e.verdict = "failed" THEN "failed" ELSE "enriched">>
<1>1. e \in Entry /\ drain[d].key \in Keys
  BY DEF ObjectInv, DrainOK, DrainInv, DrainSuperseded
<1>2. announced' \subseteq Jobs \X TERMINAL_JOB_STATES
  <2>1. a \in Jobs \X TERMINAL_JOB_STATES
    BY <1>1 DEF Entry, TERMINAL_JOB_STATES
  <2>2. announced' = announced \union {a}
    BY DEF DrainSuperseded
  <2> HIDE DEF a
  <2> QED BY <2>1, <2>2 DEF ObjectInv, D1Type
<1>3. ChunkType' /\ QueueOK' /\ DrainOK' /\ marker' \in [Handoffs -> Marker]
  <2>1. CASE Retire(d)
    BY <2>1, RetireType DEF DrainSuperseded
  <2>2. CASE DeleteEntry(drain[d].key, e) /\ NextTurn(d) /\ UNCHANGED chunkVars
    <3>1. QueueOK' /\ marker' \in [Handoffs -> Marker]
      BY <1>1, <2>2, DeleteEntryType DEF ObjectInv, ControlType
    <3>2. DrainOK'
      BY <2>2, NextTurnType DEF ObjectInv
    <3> QED BY <2>2, <3>1, <3>2 DEF ObjectInv, chunkVars, ChunkType
  <2> QED BY <2>1, <2>2 DEF DrainSuperseded
<1> QED BY <1>2, <1>3 DEF DrainSuperseded, ObjectInv, D1Type, ControlType

(* Returning an entry to the chunk preserves it: its rescue count stays in bounds. *)
LEMMA RescueType ==
  ASSUME ObjectInv, NEW d \in Drains, DrainRescue(d)
  PROVE  ObjectInv'
<1> DEFINE e == drain[d].e
           k == drain[d].key
           switch == OtherContext(held, Ctx[e.job])
           q1 == IF switch THEN Enqueue(queue, qseq, held) ELSE queue
           n1 == IF switch THEN qseq + Cardinality(held) ELSE qseq
           chunk == IF switch THEN {} ELSE held
<1>1. e \in Entry /\ k \in Keys
  BY DEF ObjectInv, DrainOK, DrainInv, DrainRescue
<1>2. /\ q1 \in [Keys -> Entry \union {NoEntry}]
      /\ \A i \in Keys : q1[i] # NoEntry => LiveEntry(q1[i])
      /\ n1 \in Nat
      /\ chunk \in SUBSET Held /\ IsFiniteSet(chunk)
  <2>1. switch \in BOOLEAN
    BY Zenon DEF OtherContext
  <2> HIDE DEF switch
  <2> QED BY <2>1, SwitchTypes DEF ObjectInv
<1>3. n1 \in 0 .. MaxSeq
  <2>1. qseq \in 0 .. MaxSeq
    BY DEF ObjectInv, QueueOK, QueueType
  <2>2. switch => qseq + Cardinality(held) <= MaxSeq
    BY DEF DrainRescue
  <2> HIDE DEF switch
  <2>3. CASE switch
    <3>1. n1 = qseq + Cardinality(held)
      BY <2>3
    <3> HIDE DEF n1
    <3> QED BY <1>2, <2>2, <2>3, <3>1, BoundAssumption
  <2>4. CASE ~switch
    BY <2>1, <2>4
  <2> QED BY <2>3, <2>4
<1>4. Rescued(e) \in Held
  <2>1. e.rescue + 1 \in 0 .. MaxRescues /\ 0 \in Generations
    BY <1>1 DEF DrainRescue, EndsLineage, Entry, Generations
  <2> QED BY <1>1, <2>1 DEF Rescued, Held, Entry
<1>5. queue' = [q1 EXCEPT ![k] = NoEntry] /\ qseq' = n1
  BY DEF DrainRescue
<1>6. QueueOK'
  <2> HIDE DEF q1, n1, k
  <2> QED BY <1>1, <1>2, <1>3, <1>5 DEF QueueOK, QueueType, QueueInv
<1>7. held' = chunk \/ held' = chunk \union {Rescued(e)}
  BY DEF DrainRescue
<1>8. held' \subseteq Held /\ IsFiniteSet(held')
  <2> HIDE DEF chunk, e
  <2> QED BY <1>2, <1>4, <1>7, FS_AddElement
<1>9. idle' \in BOOLEAN
  BY Zenon DEF DrainRescue
<1>10. marker' \in [Handoffs -> Marker]
  <2>1. <<e.job, e.gen>> \in Handoffs /\ <<e.job, 0>> \in Handoffs
    BY <1>1 DEF Entry, Handoffs, Generations
  <2>2. marker' = [marker EXCEPT ![<<e.job, e.gen>>] = NoMarker, ![<<e.job, 0>>] = NoMarker]
    BY DEF DrainRescue, WithoutMarkers
  <2>3. NoMarker \in Marker
    BY MarkerTypes
  <2> QED BY <2>1, <2>2, <2>3 DEF ObjectInv, ControlType
<1>11. DrainOK'
  BY NextTurnType DEF DrainRescue, ObjectInv
<1>12. D1Type' /\ ChunkType' /\ ControlType'
  BY <1>8, <1>9, <1>10 DEF DrainRescue, ObjectInv, d1Vars, D1Type, ChunkType, ControlType
<1> QED BY <1>6, <1>11, <1>12 DEF ObjectInv

(* Every step of a drain preserves it. *)
LEMMA DrainStepType ==
  ASSUME ObjectInv, NEW d \in Drains, DrainStep(d)
  PROVE  ObjectInv'
BY PickType, DoneType, ReadType, CheckType, EngineType, PutType,
   BookkeepType, DrainSettleType, VerifyType, FinalizeType, RescueType, SupersededType,
   DrainFaultType DEF DrainStep, Engine

(* The end of a lease preserves it. *)
LEMMA LeaseExpiresType ==
  ASSUME ObjectInv, LeaseExpires
  PROVE  ObjectInv'
<1>1. lease' \in [holder : Drains \union {None}, live : BOOLEAN]
  BY DEF ObjectInv, ControlType, LeaseExpires
<1> QED
  BY <1>1 DEF ObjectInv, LeaseExpires, d1Vars, chunkVars, queueVars, D1Type, ChunkType, ControlType,
     QueueOK, QueueType, QueueInv, DrainOK, DrainType, DrainInv

(* Idle time preserves it. *)
LEMMA IdlePassesType ==
  ASSUME ObjectInv, IdlePasses
  PROVE  ObjectInv'
BY DEF ObjectInv, IdlePasses, d1Vars, queueVars, D1Type, ChunkType, ControlType,
   QueueOK, QueueType, QueueInv, DrainOK, DrainType, DrainInv

(* The end of a backoff preserves it. *)
LEMMA BackoffElapsesType ==
  ASSUME ObjectInv, NEW k \in Keys, BackoffElapses(k)
  PROVE  ObjectInv'
<1> DEFINE f == [queue[k] EXCEPT !.late = FALSE]
<1>1. queue[k] \in Entry /\ LiveEntry(queue[k])
  BY DEF ObjectInv, QueueOK, QueueType, QueueInv, BackoffElapses
<1>2. f \in Entry /\ LiveEntry(f)
  BY <1>1 DEF Entry, LiveEntry
<1>3. queue' = [queue EXCEPT ![k] = f]
  BY DEF BackoffElapses
<1> HIDE DEF f
<1>4. QueueOK'
  BY <1>2, <1>3 DEF ObjectInv, BackoffElapses, QueueOK, QueueType, QueueInv
<1> QED
  BY <1>4 DEF ObjectInv, BackoffElapses, d1Vars, chunkVars, D1Type, ChunkType, ControlType,
     DrainOK, DrainType, DrainInv

(* The end of a claim's time to live preserves it. *)
LEMMA RunAgesType ==
  ASSUME ObjectInv, NEW k \in Keys, NEW a \in AttemptIds, RunAges(k, a)
  PROVE  ObjectInv'
<1>1. PICK st \in {"aged", "stalled"} : run' = [run EXCEPT ![k][a] = st]
  BY DEF RunAges
<1> DEFINE f == [run[k] EXCEPT ![a] = st]
<1>2. f \in [AttemptIds -> RunStates]
  BY DEF ObjectInv, D1Type, RunStates
<1> HIDE DEF f
<1>3. run' \in [Keys -> [AttemptIds -> RunStates]]
  BY <1>1, <1>2 DEF ObjectInv, D1Type, f
<1> QED
  BY <1>3 DEF ObjectInv, RunAges, chunkVars, queueVars, D1Type, ChunkType, ControlType,
     QueueOK, QueueType, QueueInv, DrainOK, DrainType, DrainInv

(* A kick preserves it. *)
LEMMA KickType ==
  ASSUME ObjectInv, Kick
  PROVE  ObjectInv'
<1>1. marker' \in [Handoffs -> Marker]
  BY MarkerTypes DEF ObjectInv, ControlType, Kick
<1> QED
  BY <1>1 DEF ObjectInv, Kick, d1Vars, chunkVars, queueVars, D1Type, ChunkType, ControlType,
     QueueOK, QueueType, QueueInv, DrainOK, DrainType, DrainInv

(* An eviction leaves D1 and no drain. *)
LEMMA CutOffType ==
  ASSUME ObjectInv, CutOff
  PROVE  /\ D1Type' /\ DrainOK' /\ alarm' \in BOOLEAN
         /\ lease' = lease /\ call' \in [Handoffs -> CallStates]
<1>1. DrainOff \in DrainRec /\ DrainOff.pc = "off"
  BY DEF DrainOff, DrainRec, DrainPcs, DrainOuts
<1>2. DrainOK'
  BY <1>1 DEF CutOff, DrainOK, DrainType, DrainInv
<1>3. alarm' \in BOOLEAN
  BY Zenon DEF CutOff
<1>4. call' \in [Handoffs -> CallStates]
  BY DEF CutOff, CallStates
<1> QED BY <1>2, <1>3, <1>4 DEF CutOff, ObjectInv, d1Vars, D1Type

(* An eviction, in addMessages or elsewhere, preserves the invariant. *)
LEMMA CrashType ==
  ASSUME ObjectInv, Crash \/ \E h \in Handoffs : CrashInAdd(h)
  PROVE  ObjectInv'
<1>1. CASE Crash
  BY <1>1, CutOffType, FaultType DEF Crash, ObjectInv, chunkVars, queueVars, ChunkType, ControlType,
     QueueOK, QueueType, QueueInv
<1>2. ASSUME NEW h \in Handoffs, CrashInAdd(h)
      PROVE  ObjectInv'
  BY <1>2, CutOffType, AddCommitType, FaultType DEF CrashInAdd, ObjectInv, ControlType
<1> QED BY <1>1, <1>2

(* Every step of a handoff preserves it. *)
LEMMA HandoffStepType ==
  ASSUME ObjectInv, NEW h \in Handoffs, HandoffStep(h) \/ HandoffFault(h)
  PROVE  ObjectInv'
BY GenerationType, PriorType, AddType, SettleType, FinishType, HandoffFaultType DEF HandoffStep

(* Every step the object takes by itself preserves it. *)
LEMMA ObjectStepType ==
  ASSUME ObjectInv, ObjectStep
  PROVE  ObjectInv'
BY HandoffStepType, DrainStepType, AlarmFiresType, LeaseExpiresType, IdlePassesType, KickType,
   BackoffElapsesType, RunAgesType DEF ObjectStep

---------------------------------------------------------------------------
(* The door. A request that is about to reopen a job looked up a failed row *)
(* whose repairs were not exhausted.                                       *)

RequestInv ==
  /\ req \in [Requests -> Req]
  /\ \A r \in Requests :
       req[r].pc = "reopen" => req[r].row.status = "failed" /\ ~RepairsExhausted(req[r].row)

IngestInv == ObjectInv /\ RequestInv

(* A step that leaves the object alone preserves it. *)
LEMMA FrameType ==
  ASSUME ObjectInv, UNCHANGED umVars
  PROVE  ObjectInv'
BY DEF ObjectInv, umVars, D1Type, ChunkType, ControlType, QueueOK, QueueType, QueueInv,
   DrainOK, DrainType, DrainInv

(* The door's own steps write job rows only. *)
LEMMA RowsFrame ==
  ASSUME ObjectInv, job' \in [Jobs -> JobRow],
         UNCHANGED <<run, looked, announced, chunkVars, queueVars, marker, lease, alarm, call,
                     drain, faults, cut>>
  PROVE  ObjectInv'
BY DEF ObjectInv, chunkVars, queueVars, D1Type, ChunkType, ControlType, QueueOK, QueueType, QueueInv,
   DrainOK, DrainType, DrainInv

(* The absent row is a row. *)
LEMMA NoRowType == NoRow \in JobRow /\ NoRow.status = "none"
BY DEF NoRow, JobRow, Generations

(* A request that moves on keeps RequestInv. *)
LEMMA AtType ==
  ASSUME RequestInv, NEW r \in Requests, NEW g \in Generations,
         NEW pc \in {"claim", "conflict", "source", "handoff", "wait"}, At(r, pc, g)
  PROVE  RequestInv'
<1> DEFINE q == ReqAt(pc, g, "none")
<1>1. q \in Req /\ q.pc # "reopen"
  BY NoRowType DEF ReqAt, Req, Answers
<1>2. req' = [req EXCEPT ![r] = q]
  BY DEF At
<1> HIDE DEF q
<1> QED BY <1>1, <1>2 DEF RequestInv

(* A request that is answered keeps RequestInv. *)
LEMMA AnswerReqType ==
  ASSUME RequestInv, NEW r \in Requests, NEW a \in Answers, AnswerReq(r, a)
  PROVE  RequestInv'
<1> DEFINE q == ReqAt("done", 0, a)
<1>1. q \in Req /\ q.pc # "reopen"
  BY NoRowType DEF ReqAt, Req, Generations
<1>2. req' = [req EXCEPT ![r] = q]
  BY DEF AnswerReq
<1> HIDE DEF q
<1> QED BY <1>1, <1>2 DEF RequestInv

(* A reopened row stays within the bound of the repair generations. *)
LEMMA ReopenedTypes ==
  ASSUME NEW row \in JobRow, ~RepairsExhausted(row), NEW j \in Jobs
  PROVE  NextGeneration(row) \in Generations /\ Reopened(row, j) \in JobRow
<1>1. NextGeneration(row) \in Nat
  BY DEF NextGeneration, JobRow, Generations
<1>2. NextGeneration(row) \in Generations
  BY <1>1 DEF RepairsExhausted, Generations
<1> QED BY <1>1, <1>2 DEF Reopened, JobRow, ActiveStates

(* The idempotency lookup preserves the invariant. *)
LEMMA LookupType ==
  ASSUME IngestInv, NEW r \in Requests, Lookup(r)
  PROVE  IngestInv'
<1> DEFINE row == job[ReqJob[r]]
<1>1. row \in JobRow
  BY DEF IngestInv, ObjectInv, D1Type
<1>2. ObjectInv' /\ RequestInv
  BY FrameType DEF IngestInv, Lookup
<1>3. row.gen \in Generations /\ 0 \in Generations
  BY <1>1 DEF JobRow, Generations
<1>4. CASE At(r, "claim", 0) \/ At(r, "claim", row.gen)
  BY <1>2, <1>3, <1>4, AtType DEF IngestInv
<1>5. CASE AnswerReq(r, DuplicateOf(row)) \/ AnswerReq(r, "refused")
  <2>1. DuplicateOf(row) \in Answers /\ "refused" \in Answers
    BY DEF DuplicateOf, Answers
  <2> HIDE DEF row
  <2> QED BY <1>2, <1>5, <2>1, AnswerReqType DEF IngestInv
<1>6. CASE /\ row.status = "failed" /\ ~RepairsExhausted(row)
           /\ req' = [req EXCEPT ![r] = [pc |-> "reopen", gen |-> 0, row |-> row, answer |-> "none"]]
  <2> DEFINE q == [pc |-> "reopen", gen |-> 0, row |-> row, answer |-> "none"]
  <2>1. q \in Req /\ q.row = row
    BY <1>1, <1>3 DEF Req, Answers
  <2>2. req' = [req EXCEPT ![r] = q]
    BY <1>6
  <2> HIDE DEF q, row
  <2>3. RequestInv'
    BY <1>2, <1>6, <2>1, <2>2 DEF RequestInv
  <2> QED BY <1>2, <2>3 DEF IngestInv
<1> QED BY <1>4, <1>5, <1>6 DEF Lookup

(* A reopening, won or lost, preserves it. *)
LEMMA ReopenType ==
  ASSUME IngestInv, NEW r \in Requests, Reopen(r)
  PROVE  IngestInv'
<1> DEFINE j == ReqJob[r]
           row == req[r].row
<1>1. row \in JobRow /\ ~RepairsExhausted(row) /\ j \in Jobs /\ RequestInv /\ ObjectInv
  BY DEF IngestInv, RequestInv, Req, Reopen
<1>2. NextGeneration(row) \in Generations /\ Reopened(row, j) \in JobRow
  BY <1>1, ReopenedTypes
<1>3. job \in [Jobs -> JobRow] /\ job[j].gen \in Generations
  BY <1>1 DEF ObjectInv, D1Type, JobRow
<1>4. UNCHANGED <<run, looked, announced, chunkVars, queueVars, marker, lease, alarm, call,
                  drain, faults, cut>>
  BY DEF Reopen
<1>5. CASE job' = [job EXCEPT ![j] = Reopened(row, j)] /\ At(r, "claim", NextGeneration(row))
  <2>1. job' \in [Jobs -> JobRow]
    BY <1>1, <1>2, <1>3, <1>5
  <2> QED BY <1>1, <1>2, <1>4, <1>5, <2>1, RowsFrame, AtType DEF IngestInv
<1>6. CASE At(r, "claim", job[j].gen) /\ UNCHANGED job
  BY <1>1, <1>3, <1>4, <1>6, RowsFrame, AtType DEF IngestInv
<1>7. CASE /\ AnswerReq(r, DuplicateOf(IF Terminal(job[j]) THEN job[j] ELSE row))
           /\ UNCHANGED job
  <2>1. DuplicateOf(IF Terminal(job[j]) THEN job[j] ELSE row) \in Answers
    BY DEF DuplicateOf, Answers
  <2> QED BY <1>1, <1>3, <1>4, <1>7, <2>1, RowsFrame, AnswerReqType DEF IngestInv
<1> QED BY <1>5, <1>6, <1>7 DEF Reopen

(* A request's handoff is a handoff of the object. *)
LEMMA RequestGen ==
  ASSUME IngestInv, NEW r \in Requests
  PROVE  /\ req[r].gen \in Generations /\ ReqJob[r] \in Jobs /\ HandoffOf(r) \in Handoffs
         /\ job \in [Jobs -> JobRow] /\ ObjectInv /\ RequestInv
BY DEF IngestInv, RequestInv, ObjectInv, D1Type, Req, HandoffOf, Handoffs

(* Claiming a row preserves the invariant. *)
LEMMA ClaimRowType ==
  ASSUME IngestInv, NEW r \in Requests, Claim(r)
  PROVE  IngestInv'
<1> DEFINE j == ReqJob[r]
<1>1. UNCHANGED <<run, looked, announced, chunkVars, queueVars, marker, lease, alarm, call,
                  drain, faults, cut>>
  BY DEF Claim
<1>2. job' \in [Jobs -> JobRow]
  <2>1. ClaimedRow(j) \in JobRow
    BY DEF ClaimedRow, JobRow, Generations, ActiveStates
  <2>2. job' = [job EXCEPT ![j] = ClaimedRow(j)] \/ job' = job
    BY DEF Claim
  <2> QED BY <2>1, <2>2, RequestGen
<1>3. \/ At(r, "source", req[r].gen) \/ At(r, "conflict", req[r].gen) \/ AnswerReq(r, "busy")
  BY DEF Claim
<1>4. RequestInv'
  BY <1>3, RequestGen, AtType, AnswerReqType DEF Answers
<1> QED BY <1>1, <1>2, <1>4, RequestGen, RowsFrame DEF IngestInv

(* A lost claim preserves it. *)
LEMMA ConflictType ==
  ASSUME IngestInv, NEW r \in Requests, Conflict(r)
  PROVE  IngestInv'
<1>1. DuplicateOf(job[ReqJob[r]]) \in Answers
  BY DEF DuplicateOf, Answers
<1>2. AnswerReq(r, DuplicateOf(job[ReqJob[r]])) \/ At(r, "source", req[r].gen)
  BY DEF Conflict
<1>3. RequestInv'
  BY <1>1, <1>2, RequestGen, AtType, AnswerReqType
<1> QED BY <1>3, RequestGen, FrameType DEF IngestInv, Conflict

(* Activating a row preserves it. *)
LEMMA ActivateType ==
  ASSUME IngestInv, NEW r \in Requests, Activate(r)
  PROVE  IngestInv'
<1> DEFINE j == ReqJob[r]
           row == [job[j] EXCEPT !.status = "queued"]
<1>1. UNCHANGED <<run, looked, announced, chunkVars, queueVars, marker, lease, alarm, call,
                  drain, faults, cut>>
  BY DEF Activate
<1>2. row \in JobRow
  BY RequestGen DEF JobRow, ActiveStates
<1>3. job' = [job EXCEPT ![j] = row] \/ job' = job
  BY DEF Activate
<1> HIDE DEF row
<1>4. job' \in [Jobs -> JobRow]
  BY <1>2, <1>3, RequestGen
<1>5. RequestInv'
  BY RequestGen, AtType DEF Activate
<1> QED BY <1>1, <1>4, <1>5, RequestGen, RowsFrame DEF IngestInv

(* Calling the object preserves it. *)
LEMMA CallHandoffType ==
  ASSUME IngestInv, NEW r \in Requests, CallHandoff(r)
  PROVE  IngestInv'
<1>1. ObjectInv'
  BY RequestGen, StartType, FrameType DEF CallHandoff
<1>2. RequestInv'
  BY RequestGen, AtType DEF CallHandoff
<1> QED BY <1>1, <1>2 DEF IngestInv

(* Answering every waiting request, as Deliver and Evict do. *)
LEMMA AnswerAllType ==
  ASSUME RequestInv, NEW S, NEW q \in Req, q.pc # "reopen",
         req' = [r \in Requests |-> IF r \in S THEN q ELSE req[r]]
  PROVE  RequestInv'
BY DEF RequestInv

(* Delivering a handoff's answer preserves it. *)
LEMMA DeliverType ==
  ASSUME IngestInv, NEW h \in Handoffs, Deliver(h)
  PROVE  IngestInv'
<1> DEFINE S == {r \in Requests : req[r].pc = "wait" /\ HandoffOf(r) = h}
           q == IF call[h] = "ok" THEN ReqAt("inline", h[2], "accepted") ELSE ReqAt("done", 0, "error")
<1>1. ObjectInv'
  <2>1. call' \in [Handoffs -> CallStates]
    BY BecomeType, MarkerTypes DEF IngestInv, ObjectInv, Deliver
  <2> QED
    BY <2>1 DEF IngestInv, ObjectInv, Deliver, d1Vars, chunkVars, queueVars, D1Type, ChunkType,
       ControlType, QueueOK, QueueType, QueueInv, DrainOK, DrainType, DrainInv
<1>2. q \in Req /\ q.pc # "reopen"
  <2>1. h[2] \in Generations /\ 0 \in Generations
    BY DEF Handoffs, Generations
  <2> QED BY <2>1, NoRowType DEF ReqAt, Req, Answers
<1>3. req' = [r \in Requests |-> IF r \in S THEN q ELSE req[r]]
  BY DEF Deliver
<1> HIDE DEF S, q
<1>4. RequestInv'
  BY <1>2, <1>3, AnswerAllType DEF IngestInv
<1> QED BY <1>1, <1>4 DEF IngestInv

(* The inline drain of the door preserves it. *)
LEMMA InlineType ==
  ASSUME IngestInv, NEW r \in Requests, Inline(r)
  PROVE  IngestInv'
<1> DEFINE q == [req[r] EXCEPT !.pc = "done"]
<1>1. ObjectInv'
  BY RequestGen, DrainStartType, FrameType DEF Inline
<1>2. q \in Req /\ q.pc # "reopen"
  BY DEF IngestInv, RequestInv, Req
<1>3. req' = [req EXCEPT ![r] = q]
  BY DEF Inline
<1> HIDE DEF q
<1>4. RequestInv'
  BY <1>2, <1>3 DEF IngestInv, RequestInv
<1> QED BY <1>1, <1>4 DEF IngestInv

(* A request that fails preserves it. *)
LEMMA RequestFailsType ==
  ASSUME IngestInv, NEW r \in Requests, RequestFails(r)
  PROVE  IngestInv'
<1>1. faults' \in 0 .. MaxFaults
  BY FaultType DEF RequestFails, IngestInv, ObjectInv, ControlType
<1>2. ObjectInv'
  BY <1>1 DEF IngestInv, ObjectInv, RequestFails, d1Vars, chunkVars, queueVars, D1Type, ChunkType,
     ControlType, QueueOK, QueueType, QueueInv, DrainOK, DrainType, DrainInv
<1>3. RequestInv'
  BY RequestGen, AnswerReqType DEF RequestFails, Answers
<1> QED BY <1>2, <1>3 DEF IngestInv

(* An eviction preserves it. *)
LEMMA EvictType ==
  ASSUME IngestInv, Evict
  PROVE  IngestInv'
<1> DEFINE S == {r \in Requests : req[r].pc = "wait"}
           q == ReqAt("done", 0, "error")
<1>1. ObjectInv'
  BY CrashType DEF Evict, IngestInv
<1>2. q \in Req /\ q.pc # "reopen"
  BY NoRowType DEF ReqAt, Req, Answers, Generations
<1>3. req' = [r \in Requests |-> IF r \in S THEN q ELSE req[r]]
  BY DEF Evict
<1> HIDE DEF S, q
<1>4. RequestInv'
  BY <1>2, <1>3, AnswerAllType DEF IngestInv
<1> QED BY <1>1, <1>4 DEF IngestInv

(* The invariant holds initially. *)
LEMMA InitInv == Init => IngestInv
<1> SUFFICES ASSUME Init PROVE IngestInv
  OBVIOUS
<1>1. D1Type
  <2>1. [a \in AttemptIds |-> "none"] \in [AttemptIds -> RunStates]
    BY DEF RunStates
  <2> QED BY <2>1, NoRowType DEF Init, UserMemoryInit, D1Type
<1>2. ChunkType
  BY FS_EmptySet DEF Init, UserMemoryInit, ChunkType
<1>3. QueueOK
  BY DEF Init, UserMemoryInit, QueueOK, QueueType, QueueInv
<1>4. ControlType
  <2>1. marker \in [Handoffs -> Marker] /\ call \in [Handoffs -> CallStates]
    BY MarkerTypes DEF Init, UserMemoryInit
  <2>2. lease \in [holder : Drains \union {None}, live : BOOLEAN]
    BY DEF Init, UserMemoryInit
  <2>3. alarm \in BOOLEAN /\ cut \in BOOLEAN /\ faults = 0
    BY Zenon DEF Init, UserMemoryInit
  <2> QED BY <2>1, <2>2, <2>3 DEF ControlType
<1>5. DrainOK
  <2>1. DrainOff \in DrainRec /\ DrainOff.pc = "off"
    BY DEF DrainOff, DrainRec, DrainPcs, DrainOuts
  <2> QED BY <2>1 DEF Init, UserMemoryInit, DrainOK, DrainType, DrainInv
<1>6. RequestInv
  <2>1. NewReq \in Req /\ NewReq.pc = "new"
    BY NoRowType DEF NewReq, ReqAt, Req, Answers, Generations
  <2> QED BY <2>1 DEF Init, RequestInv
<1> QED BY <1>1, <1>2, <1>3, <1>4, <1>5, <1>6 DEF IngestInv, ObjectInv

(* The invariant is inductive. *)
LEMMA NextInv == IngestInv /\ [Next]_vars => IngestInv'
<1> SUFFICES ASSUME IngestInv, [Next]_vars PROVE IngestInv'
  OBVIOUS
<1>1. ASSUME NEW r \in Requests, RequestStep(r) \/ RequestFails(r)
      PROVE  IngestInv'
  BY <1>1, LookupType, ReopenType, ClaimRowType, ConflictType, ActivateType, CallHandoffType,
     InlineType, RequestFailsType DEF RequestStep
<1>2. ASSUME NEW h \in Handoffs, Deliver(h)
      PROVE  IngestInv'
  BY <1>2, DeliverType
<1>3. CASE ObjectStep /\ UNCHANGED req
  <2>1. ObjectInv'
    BY <1>3, ObjectStepType DEF IngestInv
  <2> QED BY <1>3, <2>1 DEF IngestInv, RequestInv
<1>4. CASE Evict
  BY <1>4, EvictType
<1>5. CASE UNCHANGED vars
  <2>1. ObjectInv'
    BY <1>5, FrameType DEF IngestInv, vars
  <2> QED BY <1>5, <2>1 DEF IngestInv, RequestInv, vars
<1> QED BY <1>1, <1>2, <1>3, <1>4, <1>5 DEF Next, Done

(* The inductive invariant holds in every reachable state: the object keeps   *)
(* its types, queued work is below its retry bounds, a drain and its entry    *)
(* agree, and a request reopens only a failed row that may still be repaired. *)
THEOREM Invariant == Spec => []IngestInv
<1> QED BY InitInv, NextInv, PTL DEF Spec

(* Type correctness of the door and the object, for any sets of jobs,       *)
(* messages and requests and any bounds: in particular no poison or         *)
(* capacity counter of a queue entry, and no repair generation, ever leaves *)
(* its bound.                                                               *)
THEOREM TypeCorrect == Spec => []IngestTypeOK
<1>1. IngestInv => IngestTypeOK
  BY DEF IngestInv, ObjectInv, RequestInv, QueueOK, DrainOK, IngestTypeOK, TypeOK
<1> QED BY <1>1, Invariant, PTL

---------------------------------------------------------------------------
(* The inference fence. *)

(* A change that the fence allows. *)
Allowed(k, a, was, is) ==
  /\ is # "none"
  /\ (is = "running" => was = "none")
  /\ \/ was \in {"none"} \union Inferring \union Committing
     \/ is = "db_failed" /\ \E d \in Drains : drain[d].pc = "broken" /\ WorksOn(d, k, a)

Fence == \A k \in Keys : \A a \in AttemptIds : run'[k][a] # run[k][a] => Allowed(k, a, run[k][a], run'[k][a])

(* Writing one run as the fence allows keeps the fence. *)
LEMMA SetRunFence ==
  ASSUME D1Type, NEW k \in Keys, NEW a \in AttemptIds, NEW st,
         run' = [run EXCEPT ![k] = [run[k] EXCEPT ![a] = st]],
         st # run[k][a] => Allowed(k, a, run[k][a], st)
  PROVE  Fence
<1>1. \A i \in Keys, b \in AttemptIds : run'[i][b] = IF i = k /\ b = a THEN st ELSE run[i][b]
  BY DEF D1Type
<1> QED BY <1>1 DEF Fence

(* Every step keeps the fence. *)
LEMMA StepFence == IngestInv /\ [Next]_vars => Fence \/ UNCHANGED run
<1> SUFFICES ASSUME IngestInv, [Next]_vars PROVE Fence \/ UNCHANGED run
  OBVIOUS
<1>1. ObjectInv /\ D1Type
  BY DEF IngestInv, ObjectInv
<1>2. ASSUME NEW d \in Drains, Engine(d)
      PROVE  Fence \/ UNCHANGED run
  <2> DEFINE k == drain[d].key
             e == drain[d].e
             a == <<e.attempts, e.cap>>
             st == RunOf(k, e)
             Rules(to) == SetRun(k, e, to) /\ (to = st \/ Allowed(k, a, st, to))
  <2>1. drain[d].pc \in EnginePcs
    BY <1>1, <1>2, EngineMoves
  <2>2. k \in Keys /\ a \in AttemptIds /\ st \in RunStates
    BY <1>1, <2>1, AttemptType
  <2>3. SUFFICES UNCHANGED run \/ \E to : Rules(to)
    BY <1>1, <2>2, SetRunFence DEF SetRun, RunOf
  <2> HIDE DEF k, e
  <2>4. CASE DrainClaim(d)
    BY <2>4 DEF DrainClaim, Allowed, Inferring, Committing, k, e
  <2>5. ASSUME NEW out \in Outcomes, DrainModel(d, out)
        PROVE  UNCHANGED run \/ \E to : Rules(to)
    BY <2>5 DEF DrainModel, Allowed, Inferring, Committing, k, e
  <2>6. CASE DrainCommit(d)
    BY <2>6 DEF DrainCommit, Allowed, Inferring, Committing, k, e
  <2>7. CASE DrainBroken(d)
    <3>1. SetRun(k, e, "db_failed") /\ drain[d].pc = "broken" /\ WorksOn(d, k, a)
      BY <2>7 DEF DrainBroken, WorksOn, k, e
    <3> QED BY <3>1 DEF Allowed
  <2>8. CASE EngineFault(d)
    <3>1. SetRun(k, e, Caught(st)) \/ UNCHANGED run
      BY <2>8 DEF EngineFault, k, e
    <3>2. Caught(st) = st \/ Allowed(k, a, st, Caught(st))
      BY DEF Caught, Allowed
    <3> QED BY <3>1, <3>2
  <2> QED BY <1>2, <2>4, <2>5, <2>6, <2>7, <2>8 DEF Engine
<1>5. ASSUME NEW k \in Keys, NEW a \in AttemptIds, RunAges(k, a)
      PROVE  Fence
  <2>1. \E st \in {"aged", "stalled"} :
           /\ run' = [run EXCEPT ![k] = [run[k] EXCEPT ![a] = st]]
           /\ run[k][a] \in {"running", "committing"}
    BY <1>5 DEF RunAges
  <2> QED BY <1>1, <2>1, SetRunFence DEF Allowed, Inferring, Committing
<1>6. ASSUME NEW d \in Drains, DrainStep(d)
      PROVE  Fence \/ UNCHANGED run
  BY <1>2, <1>6 DEF DrainStep, Engine, DrainPick, DrainDone, DrainRead, DrainCheck, DrainPut,
     DrainBookkeep, DrainSettle, DrainVerify, DrainFinalize, DrainRescue, DrainSuperseded,
     DrainFault, d1Vars
<1>7. ASSUME ObjectStep
      PROVE  Fence \/ UNCHANGED run
  BY <1>5, <1>6, <1>7 DEF ObjectStep, HandoffStep, HandoffFault, HandoffGeneration, HandoffPrior,
     HandoffAdd, HandoffSettle, HandoffFinish, AlarmFires, LeaseExpires, IdlePasses, Kick,
     BackoffElapses, d1Vars
<1>8. ASSUME NEW r \in Requests, RequestStep(r) \/ RequestFails(r)
      PROVE  UNCHANGED run
  BY <1>8 DEF RequestStep, RequestFails, Lookup, Reopen, Claim, Conflict, Activate, CallHandoff,
     Inline, HandoffStart, DrainStart, umVars, d1Vars
<1>9. ASSUME Evict \/ UNCHANGED vars \/ \E h \in Handoffs : Deliver(h)
      PROVE  UNCHANGED run
  BY <1>9 DEF Evict, Crash, CrashInAdd, CutOff, Deliver, vars, umVars, d1Vars
<1> QED BY <1>7, <1>8, <1>9 DEF Next, Done

(* The model is never called twice for one attempt of one queue entry, and  *)
(* a stored outcome is overwritten by nothing but the failure a drain       *)
(* records for its own broken commit; for any number of drains, whether or  *)
(* not they overlap: claimExtractionRun is the fence, not the lease.        *)
THEOREM FenceHolds == Spec => InferenceFence
<1>1. IngestInv /\ [Next]_vars => [Fence]_run
  BY StepFence
<1>2. Spec => [][Fence]_run
  BY <1>1, Invariant, PTL DEF Spec
<1> QED BY <1>2 DEF InferenceFence, Fence, Allowed

---------------------------------------------------------------------------
(* A verdict is final. *)

VerdictsKept ==
  \A j \in Jobs :
    Terminal(job[j]) /\ job'[j] # job[j]
    => job[j].status = "failed" /\ job'[j].status = "queued" /\ job'[j].gen > job[j].gen

(* Every settlement leaves a row alone that has its verdict. *)
LEMMA SettlementsStop ==
  ASSUME NEW row, Terminal(row), NEW g, NEW ms, NEW n
  PROVE  SettleDone(row, g, ms) = row /\ SettleFailed(row, g) = row /\ SettleAttempted(row, g, n) = row
BY DEF Terminal, SettleDone, SettleFailed, SettleAttempted, Settleable, Active, ActiveStates,
   TERMINAL_JOB_STATES

(* Rewriting one row keeps the verdicts if it leaves a terminal row alone. *)
LEMMA RowKept ==
  ASSUME job \in [Jobs -> JobRow], NEW i \in Jobs, NEW row, job' = [job EXCEPT ![i] = row],
         Terminal(job[i]) => row = job[i]
  PROVE  VerdictsKept
BY DEF VerdictsKept

(* Every step keeps the verdicts. *)
LEMMA StepKeepsVerdicts == IngestInv /\ [Next]_vars => VerdictsKept \/ UNCHANGED job
<1> SUFFICES ASSUME IngestInv, [Next]_vars PROVE VerdictsKept \/ UNCHANGED job
  OBVIOUS
<1>1. ObjectInv /\ RequestInv /\ job \in [Jobs -> JobRow]
  BY DEF IngestInv, ObjectInv, D1Type
<1>2. ASSUME NEW h \in Handoffs, HandoffAdd(h) \/ HandoffSettle(h)
      PROVE  VerdictsKept \/ UNCHANGED job
  <2> DEFINE j == h[1]
             ms == IF HandoffAdd(h) THEN marker'[h].settled ELSE marker[h].settled
             row == IF ms = {} THEN job[j] ELSE SettleDone(job[j], h[2], ms)
  <2>1. j \in Jobs
    BY DEF Handoffs
  <2>2. Terminal(job[j]) => row = job[j]
    BY SettlementsStop
  <2>3. job' = [job EXCEPT ![j] = row] \/ UNCHANGED job
    BY <1>2 DEF HandoffAdd, HandoffSettle
  <2> HIDE DEF row
  <2> QED BY <1>1, <2>1, <2>2, <2>3, RowKept
<1>3. ASSUME NEW h \in Handoffs, HandoffFinish(h)
      PROVE  VerdictsKept \/ UNCHANGED job
  <2> DEFINE j == h[1]
             row == IF marker[h].holds THEN job[j] ELSE SettleDone(job[j], h[2], job[j].remaining)
  <2>1. j \in Jobs
    BY DEF Handoffs
  <2>2. Terminal(job[j]) => row = job[j]
    BY SettlementsStop
  <2>3. job' = [job EXCEPT ![j] = row] \/ UNCHANGED job
    BY <1>3 DEF HandoffFinish
  <2> HIDE DEF row
  <2> QED BY <1>1, <2>1, <2>2, <2>3, RowKept
<1>4. ASSUME NEW d \in Drains, DrainBookkeep(d)
      PROVE  VerdictsKept \/ UNCHANGED job
  <2> DEFINE e == drain[d].e
             n == IF drain[d].out = "capacity" THEN e.attempts + e.cap ELSE e.attempts
             row == SettleAttempted(job[e.job], e.gen, n)
  <2>1. e.job \in Jobs
    BY <1>1, <1>4 DEF ObjectInv, DrainOK, DrainInv, DrainBookkeep, Entry
  <2>2. Terminal(job[e.job]) => row = job[e.job]
    BY SettlementsStop
  <2>3. job' = [job EXCEPT ![e.job] = row] \/ UNCHANGED job
    BY <1>4 DEF DrainBookkeep
  <2> HIDE DEF row
  <2> QED BY <1>1, <2>1, <2>2, <2>3, RowKept
<1>5. ASSUME NEW d \in Drains, DrainSettle(d)
      PROVE  VerdictsKept \/ UNCHANGED job
  <2> DEFINE e == drain[d].e
             row == IF e.verdict = "failed" THEN SettleFailed(job[e.job], e.gen)
                    ELSE SettleDone(job[e.job], e.gen, {e.msg})
  <2>1. e.job \in Jobs
    BY <1>1, <1>5 DEF ObjectInv, DrainOK, DrainInv, DrainSettle, Entry
  <2>2. Terminal(job[e.job]) => row = job[e.job]
    BY SettlementsStop
  <2>3. job' = [job EXCEPT ![e.job] = row] \/ UNCHANGED job
    BY <1>5 DEF DrainSettle
  <2> HIDE DEF row
  <2> QED BY <1>1, <2>1, <2>2, <2>3, RowKept
<1>6. ASSUME NEW r \in Requests, Reopen(r)
      PROVE  VerdictsKept \/ UNCHANGED job
  <2> DEFINE j == ReqJob[r]
             row == job[j]
  <2>1. CASE req[r].row = row /\ job' = [job EXCEPT ![j] = Reopened(row, j)]
    <3>1. row.status = "failed" /\ row \in JobRow /\ j \in Jobs
      BY <1>1, <1>6, <2>1 DEF RequestInv, Reopen
    <3>2. Reopened(row, j).status = "queued" /\ Reopened(row, j).gen > row.gen
      BY <3>1 DEF Reopened, NextGeneration, JobRow, Generations
    <3> QED BY <1>1, <2>1, <3>1, <3>2 DEF VerdictsKept
  <2> QED BY <1>6, <2>1 DEF Reopen
<1>7. ASSUME NEW r \in Requests, Claim(r)
      PROVE  VerdictsKept \/ UNCHANGED job
  <2>1. \/ /\ job[ReqJob[r]].status = "none"
           /\ job' = [job EXCEPT ![ReqJob[r]] = ClaimedRow(ReqJob[r])]
        \/ UNCHANGED job
    BY <1>7 DEF Claim
  <2> QED BY <1>1, <2>1, RowKept DEF Terminal, TERMINAL_JOB_STATES
<1>8. ASSUME NEW r \in Requests, Activate(r)
      PROVE  VerdictsKept \/ UNCHANGED job
  <2>1. \/ /\ job[ReqJob[r]].status = "awaiting_source"
           /\ job' = [job EXCEPT ![ReqJob[r]] = [job[ReqJob[r]] EXCEPT !.status = "queued"]]
        \/ UNCHANGED job
    BY <1>8 DEF Activate
  <2> QED BY <1>1, <2>1, RowKept DEF Terminal, TERMINAL_JOB_STATES
<1>9. ASSUME NEW d \in Drains, DrainStep(d)
      PROVE  VerdictsKept \/ UNCHANGED job
  BY <1>4, <1>5, <1>9 DEF DrainStep, DrainPick, DrainDone, DrainRead, DrainCheck, DrainClaim,
     DrainModel, DrainCommit, DrainBroken, EngineFault, DrainPut, DrainVerify, DrainFinalize,
     DrainRescue, DrainSuperseded, DrainFault, d1Vars
<1>10. ASSUME ObjectStep
       PROVE  VerdictsKept \/ UNCHANGED job
  BY <1>2, <1>3, <1>9, <1>10 DEF ObjectStep, HandoffStep, HandoffFault, HandoffGeneration,
     HandoffPrior, AlarmFires, LeaseExpires, IdlePasses, Kick, BackoffElapses, RunAges, d1Vars
<1>11. ASSUME NEW r \in Requests, RequestStep(r) \/ RequestFails(r)
       PROVE  VerdictsKept \/ UNCHANGED job
  BY <1>6, <1>7, <1>8, <1>11 DEF RequestStep, RequestFails, Lookup, Conflict, CallHandoff,
     Inline, HandoffStart, DrainStart, umVars, d1Vars
<1>12. ASSUME Evict \/ UNCHANGED vars \/ \E h \in Handoffs : Deliver(h)
       PROVE  UNCHANGED job
  BY <1>12 DEF Evict, Crash, CrashInAdd, CutOff, Deliver, vars, umVars, d1Vars
<1> QED BY <1>10, <1>11, <1>12 DEF Next, Done

(* A verdict changes only when a replay reopens failed work under a later   *)
(* generation, whatever drains, retries, repairs and crashes interleave.    *)
THEOREM VerdictsAreFinal == Spec => TerminalStable
<1>1. IngestInv /\ [Next]_vars => [VerdictsKept]_job
  BY StepKeepsVerdicts
<1>2. Spec => [][VerdictsKept]_job
  BY <1>1, Invariant, PTL DEF Spec
<1> QED BY <1>2 DEF TerminalStable, VerdictsKept

---------------------------------------------------------------------------
(* The lease. As long as no drain outlives its lease, a running drain holds *)
(* it, live, in storage.                                                    *)

LeaseInv ==
  \A d \in Drains : drain[d].pc # "off" => lease.holder = d /\ lease.live

(* What a drain does between two picks: it moves on and leaves the lease. *)
Moves(d) ==
  /\ \E rec : rec.pc # "off" /\ drain' = [drain EXCEPT ![d] = rec]
  /\ lease' = lease

(* A drain that moves without touching the lease keeps LeaseInv. *)
LEMMA MovesKeepLease ==
  ASSUME drain \in [Drains -> DrainRec], LeaseInv, NEW d \in Drains, drain[d].pc # "off", Moves(d)
  PROVE  LeaseInv'
BY DEF LeaseInv, Moves

(* A lease is taken only while no drain runs. *)
LEMMA AcquireKeepsLease ==
  ASSUME drain \in [Drains -> DrainRec], LeaseInv, NEW d \in Drains, AcquireLease(d)
  PROVE  LeaseInv'
<1>1. \A e \in Drains : drain[e].pc = "off"
  BY DEF LeaseInv, AcquireLease, LeaseLive, None
<1>2. \A e \in Drains : e # d => drain'[e] = drain[e]
  BY DEF AcquireLease, Goto
<1>3. lease'.holder = d /\ lease'.live
  BY DEF AcquireLease
<1> QED BY <1>1, <1>2, <1>3 DEF LeaseInv

(* A drain that ends leaves none running. *)
LEMMA ExitKeepsLease ==
  ASSUME drain \in [Drains -> DrainRec], LeaseInv, NEW d \in Drains, drain[d].pc # "off", DrainExit(d)
  PROVE  LeaseInv'
<1>1. \A e \in Drains : e # d => drain[e].pc = "off"
  BY DEF LeaseInv
<1>2. \A e \in Drains : drain'[e].pc = "off"
  BY <1>1 DEF DrainExit, DrainOff
<1> QED BY <1>2 DEF LeaseInv

(* The moves of a drain within its loop leave the other drains alone. *)
LEMMA TurnMoves ==
  ASSUME drain \in [Drains -> DrainRec], NEW d \in Drains, lease' = lease,
         \/ NextTurn(d)
         \/ \E pc : pc # "off" /\ Goto(d, pc)
         \/ \E out : Answer(d, out)
         \/ \E pc, e, out : pc # "off" /\ drain' = [drain EXCEPT ![d] = DrainAt(d, pc, e, out)]
  PROVE  Moves(d)
<1>1. CASE NextTurn(d)
  BY <1>1 DEF NextTurn, Moves
<1>2. ASSUME NEW pc, pc # "off", Goto(d, pc)
      PROVE  Moves(d)
  <2>1. [drain[d] EXCEPT !.pc = pc].pc = pc
    BY DEF DrainRec
  <2> QED BY <1>2, <2>1 DEF Goto, Moves
<1>3. ASSUME NEW out, Answer(d, out)
      PROVE  Moves(d)
  BY <1>3 DEF Answer, DrainAt, Moves
<1>4. ASSUME NEW pc, NEW e, NEW out, pc # "off", drain' = [drain EXCEPT ![d] = DrainAt(d, pc, e, out)]
      PROVE  Moves(d)
  BY <1>4 DEF DrainAt, Moves
<1> QED BY <1>1, <1>2, <1>3, <1>4

(* A drain's step picks, ends, or moves. *)
LEMMA DrainStepMoves ==
  ASSUME IngestInv, NEW d \in Drains, DrainStep(d)
  PROVE  drain[d].pc # "off" /\ (DrainPick(d) \/ DrainExit(d) \/ Moves(d))
<1>1. drain \in [Drains -> DrainRec]
  BY DEF IngestInv, ObjectInv, DrainOK, DrainType
<1>2. drain[d].pc # "off"
  BY DEF DrainStep, DrainPick, DrainDone, DrainRead, DrainCheck, DrainClaim, DrainModel,
     DrainCommit, DrainBroken, EngineFault, DrainPut, DrainBookkeep, DrainSettle, DrainVerify,
     DrainFinalize, DrainRescue, DrainSuperseded, DrainFault
<1>3. CASE DrainRead(d)
  <2>1. lease' = lease
    BY <1>3 DEF DrainRead
  <2>2. NextTurn(d) \/ Goto(d, "superseded") \/ Goto(d, "settle") \/ Goto(d, "check")
        \/ Goto(d, "claim")
    BY <1>3 DEF DrainRead
  <2> QED BY <1>1, <1>2, <2>1, <2>2, TurnMoves
<1>4. CASE DrainCheck(d) \/ DrainSettle(d) \/ DrainVerify(d)
  <2>1. lease' = lease
    BY <1>4 DEF DrainCheck, DrainSettle, DrainVerify
  <2>2. NextTurn(d) \/ Goto(d, "claim") \/ Goto(d, "verify") \/ Goto(d, "finalize")
    BY <1>4 DEF DrainCheck, DrainSettle, DrainVerify, SettleLater
  <2> QED BY <1>1, <1>2, <2>1, <2>2, TurnMoves
<1>5. CASE Engine(d)
  <2>1. /\ lease' = lease
        /\ \/ NextTurn(d)
           \/ \E pc \in {"model", "commit", "broken"} : Goto(d, pc)
           \/ \E out \in DrainOuts : Answer(d, out)
    BY <1>5, EngineMoves DEF IngestInv
  <2> QED BY <1>1, <1>2, <2>1, TurnMoves
<1>6. CASE DrainPut(d)
  <2> DEFINE e1 == AfterOutcome(drain[d].e, drain[d].out)
             pc == IF e1.verdict = "none" THEN "bookkeep" ELSE "settle"
  <2>1. lease' = lease /\ drain' = [drain EXCEPT ![d] = DrainAt(d, pc, e1, drain[d].out)]
    BY <1>6 DEF DrainPut
  <2>2. pc # "off"
    OBVIOUS
  <2> HIDE DEF pc, e1
  <2> QED BY <1>1, <1>2, <2>1, <2>2, TurnMoves
<1>7. CASE DrainBookkeep(d) \/ DrainFinalize(d) \/ DrainRescue(d) \/ DrainSuperseded(d)
  <2>1. lease' = lease /\ NextTurn(d)
    BY <1>7 DEF DrainBookkeep, DrainFinalize, DrainRescue, DrainSuperseded, Retire
  <2> QED BY <1>1, <1>2, <2>1, TurnMoves
<1>8. CASE DrainDone(d) \/ DrainFault(d)
  BY <1>2, <1>8 DEF DrainDone, DrainFault
<1> QED BY <1>2, <1>3, <1>4, <1>5, <1>6, <1>7, <1>8 DEF DrainStep, Engine

(* LeaseInv is inductive while an entry takes less time than the lease. *)
LEMMA LeaseKept ==
  ASSUME ~SlowDrains
  PROVE  IngestInv /\ LeaseInv /\ [Next]_vars => LeaseInv'
<1> SUFFICES ASSUME IngestInv, LeaseInv, [Next]_vars PROVE LeaseInv'
  OBVIOUS
<1>1. drain \in [Drains -> DrainRec] /\ lease \in [holder : Drains \union {None}, live : BOOLEAN]
  BY DEF IngestInv, ObjectInv, DrainOK, DrainType, ControlType
<1>2. CASE UNCHANGED <<drain, lease>>
  BY <1>2 DEF LeaseInv
<1>3. ASSUME NEW d \in Drains, DrainStart(d)
      PROVE  LeaseInv'
  BY <1>1, <1>2, <1>3, AcquireKeepsLease DEF DrainStart, LeaseHeld
<1>4. ASSUME NEW d \in Drains, DrainStep(d)
      PROVE  LeaseInv'
  <2>1. CASE DrainPick(d)
    <3>1. \A e \in Drains : e # d => drain[e].pc = "off" /\ drain'[e] = drain[e]
      BY <1>1, <2>1 DEF DrainPick, LeaseInv
    <3>2. lease'.holder = d /\ lease'.live
      BY <2>1 DEF DrainPick
    <3> QED BY <3>1, <3>2 DEF LeaseInv
  <2> QED BY <1>1, <1>4, <2>1, DrainStepMoves, ExitKeepsLease, MovesKeepLease
<1>5. CASE AlarmFires
  BY <1>1, <1>2, <1>5, AcquireKeepsLease DEF AlarmFires, LeaseHeld
<1>6. CASE LeaseExpires
  <2>1. \A d \in Drains : drain[d].pc = "off"
    BY <1>6 DEF LeaseExpires, LeaseInv, LeaseLive
  <2> QED BY <1>6, <2>1 DEF LeaseExpires, LeaseInv
<1>7. CASE ObjectStep
  BY <1>2, <1>4, <1>5, <1>6, <1>7 DEF ObjectStep, HandoffStep, HandoffFault, HandoffGeneration,
     HandoffPrior, HandoffAdd, HandoffSettle, HandoffFinish, IdlePasses, Kick, BackoffElapses,
     RunAges
<1>8. ASSUME NEW r \in Requests, RequestStep(r) \/ RequestFails(r)
      PROVE  LeaseInv'
  <2>1. CASE Inline(r)
    BY <1>2, <1>3, <2>1 DEF Inline, umVars
  <2>2. CASE ~Inline(r)
    BY <1>2, <1>8, <2>2 DEF RequestStep, RequestFails, Lookup, Reopen, Claim, Conflict, Activate,
       CallHandoff, HandoffStart, umVars
  <2> QED BY <2>1, <2>2
<1>9. CASE Evict
  <2>1. \A d \in Drains : drain'[d].pc = "off"
    BY <1>9 DEF Evict, Crash, CrashInAdd, CutOff, DrainOff
  <2> QED BY <2>1 DEF LeaseInv
<1>10. CASE UNCHANGED vars \/ \E h \in Handoffs : Deliver(h)
  BY <1>2, <1>10 DEF Deliver, vars, umVars
<1> QED BY <1>7, <1>8, <1>9, <1>10 DEF Next, Done

(* Only one drain runs at a time, through crashes and takeovers, provided   *)
(* that no entry takes longer than the lease: an entry that outlasts it lets *)
(* a woken alarm take the lease over while the first drain still runs.       *)
THEOREM LeaseExcludes ==
  ASSUME ~SlowDrains
  PROVE  Spec => []OneDrain
<1>1. Init => LeaseInv
  BY DEF Init, UserMemoryInit, LeaseInv, DrainOff
<1>2. IngestInv /\ LeaseInv /\ [Next]_vars => LeaseInv'
  BY LeaseKept
<1>3. LeaseInv => OneDrain
  BY DEF LeaseInv, OneDrain
<1> QED BY <1>1, <1>2, <1>3, Invariant, PTL DEF Spec
=============================================================================
