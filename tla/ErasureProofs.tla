---------------------------- MODULE ErasureProofs ----------------------------
(***************************************************************************)
(* Theorems about Erasure for any saves, any clock, any number of runs,    *)
(* erasures and faults.  Only ErasedIsGone bounds the faults: two errors   *)
(* in a row that the deletion of the episodes swallows do break it.        *)
(***************************************************************************)
EXTENDS Erasure, WellFoundedInduction, TLAPS

----------------------------------------------------------------------------
(* Lemmas about the operators *)

LEMMA MaxOfTwo ==
  ASSUME NEW a \in Int, NEW b \in Int
  PROVE  Max({a, b}) = IF a >= b THEN a ELSE b
<1> DEFINE m == IF a >= b THEN a ELSE b
<1>1. m \in {a, b} /\ \A y \in {a, b} : m >= y
  OBVIOUS
<1>2. \A x \in {a, b} : (\A y \in {a, b} : x >= y) => x = m
  OBVIOUS
<1> QED BY <1>1, <1>2 DEF Max

LEMMA MinOfRuns ==
  ASSUME NEW S \in SUBSET RunIds, S # {}
  PROVE  Min(S) \in S
<1>1. S \subseteq Nat
  BY BoundAssumption DEF RunIds
<1> DEFINE R == OpToRel(<, Nat)
<1>2. R = {ss \in Nat \X Nat : ss[1] < ss[2]}
  BY DEF OpToRel
<1>3. IsWellFoundedOn(R, Nat)
  BY NatLessThanWellFounded
<1> HIDE DEF R
<1>4. \E x \in S : \A y \in S : ~ (<<y, x>> \in R)
  BY <1>1, <1>3, WFMin
<1>5. \E x \in S : \A y \in S : x =< y
  <2>1. PICK x \in S : \A y \in S : ~ (<<y, x>> \in R)
    BY <1>4
  <2>2. \A y \in S : ~ (y < x)
    BY <1>1, <1>2, <2>1
  <2> QED BY <1>1, <2>2
<1> QED BY <1>5, Zenon DEF Min

----------------------------------------------------------------------------
(* Type correctness, and what a drain and an erasure carry *)

\* A drain at work carries an entry of a save; an idle one carries nothing.
Carries ==
    IF drain.pc = "idle" THEN drain.save = Nobody
    ELSE drain.save \in Saves /\ drain.entry \in Entry

\* The convergence loop begins after the barrier, and comes to an end.
Converges ==
    /\ eraser.pc = "converge" => eraser.passes < MaxPasses
    /\ eraser.passes # 0 => eraser.pc \in {"episodes", "sweep", "converge", "mark", "receipts"}

\* Before the door has claimed its row, a save is known to nobody else.
Unclaimed ==
    \A w \in Saves :
        /\ door[w] = "new" => accepted[w] = 0
        /\ door[w] \in {"new", "packet", "claim"} =>
             job[w] = "none" /\ entry[w] = NoEntry /\ drain.save # w

TypeInv == ErasureTypeOK /\ Carries /\ Converges /\ Unclaimed

LEMMA TypeInvInit == ErasureInit => TypeInv
<1> SUFFICES ASSUME ErasureInit PROVE TypeInv
  OBVIOUS
<1> QED
  BY SavesAssumption, BoundAssumption
  DEF ErasureInit, TypeInv, ErasureTypeOK, Carries, Converges, Unclaimed, DrainOff, NoEntry, RunIds,
      MaxPasses, RunStates, DoorPcs, DrainPcs, EraserPcs

LEMMA EntriesMove ==
  ASSUME NEW e \in Entry, NEW r \in RunIds, NEW a \in Actions
  PROVE  /\ Queued(r) \in Entry
         /\ [e EXCEPT !.phase = "settling"] \in Entry
         /\ [e EXCEPT !.action = a] \in Entry
         /\ [e EXCEPT !.run = r] \in Entry
         /\ [e EXCEPT !.phase = "queued", !.run = r] \in Entry
         /\ [phase |-> "held", run |-> r, rescued |-> TRUE, action |-> "none"] \in Entry
         /\ e.run \in RunIds /\ e.phase # "none"
  BY DEF Entry, Queued, Actions

\* The door.
LEMMA TypeDoor ==
  ASSUME TypeInv, NEW w \in Saves, DoorStep(w) \/ DoorStop(w) \/ DoorRetry(w)
  PROVE  TypeInv'
<1> USE DEF TypeInv, ErasureTypeOK, Carries, Converges, Unclaimed, others, DoorGo, DoorPcs
<1>1. CASE DoorArrives(w)
  BY <1>1, BoundAssumption DEF DoorArrives
<1>2. CASE DoorPacket(w)
  BY <1>2 DEF DoorPacket, Holds, Places
<1>3. CASE DoorClaim(w)
  BY <1>3 DEF DoorClaim
<1>4. CASE DoorInsert(w)
  BY <1>4 DEF DoorInsert, Holds, Places
<1>5. CASE DoorVerify(w)
  <2>1. job' \in [Saves -> {"none", "awaiting_source", "queued"} \union JobTerminal]
    BY <1>5 DEF DoorVerify, JobTerminal
  <2>2. door' \in [Saves -> DoorPcs] /\ \A v \in Saves : v # w => door'[v] = door[v] /\ job'[v] = job[v]
    BY <1>5 DEF DoorVerify
  <2>3. door[w] = "verify" /\ door'[w] \in {"over", "activate", "stopped"}
    BY <1>5 DEF DoorVerify
  <2> QED BY <1>5, <2>1, <2>2, <2>3 DEF DoorVerify
<1>6. CASE DoorActivate(w)
  BY <1>6 DEF DoorActivate, JobTerminal
<1>7. CASE DoorStage(w)
  BY <1>7 DEF DoorStage, Holds, Places
<1>8. CASE DoorHandoff(w)
  <2> HIDE DEF TypeInv
  <2>0. /\ door[w] = "handoff" /\ (marked' = marked \/ marked' = marked \union {w})
        /\ \E pc \in {"over", "add"} : DoorGo(w, pc)
    BY <1>8 DEF DoorHandoff
  <2> USE DEF TypeInv
  <2>1. door[w] = "handoff" /\ door' \in [Saves -> DoorPcs] /\ marked' \subseteq Saves
    BY <2>0
  <2>2. \A v \in Saves : door'[v] = door[v] \/ (v = w /\ door'[v] \in {"over", "add"})
    BY <2>0
  <2> QED BY <1>8, <2>1, <2>2 DEF DoorHandoff
<1>9. CASE DoorAdd(w)
  <2>1. Min(FreshRuns(w)) \in RunIds
    <3>1. FreshRuns(w) # {} /\ FreshRuns(w) \in SUBSET RunIds
      BY <1>9 DEF DoorAdd, FreshRuns
    <3> HIDE DEF TypeInv
    <3> QED BY <3>1, MinOfRuns
  <2>2. Queued(Min(FreshRuns(w))) \in Entry
    BY <2>1, EntriesMove DEF Queued, Entry
  <2> QED BY <1>9, <2>2 DEF DoorAdd
<1>10. CASE DoorStop(w)
  BY <1>10, BoundAssumption DEF DoorStop
<1>11. CASE DoorRetry(w)
  BY <1>11 DEF DoorRetry
<1> QED BY <1>1, <1>2, <1>3, <1>4, <1>5, <1>6, <1>7, <1>8, <1>9, <1>10, <1>11 DEF DoorStep

\* Where the drain stands after a step of its own that leaves the entries alone.
LEMMA DrainMoves ==
  ASSUME TypeInv, drain.pc # "idle",
         UNCHANGED <<accepted, text, job, entry, marked, door, eraser, barrier, erased, others>>,
         run' \in [Saves -> [RunIds -> RunStates]],
         \/ \E pc \in DrainPcs \ {"idle"} : DrainGo(pc)
         \/ \E a \in Actions : DrainEnds(a)
  PROVE  TypeInv'
<1>1. drain' \in [pc : DrainPcs \ {"idle"}, save : Saves, entry : Entry] /\ drain'.save = drain.save
  <2>1. drain.save \in Saves /\ drain.entry \in Entry /\ drain.pc # "idle"
        /\ drain \in [pc : DrainPcs, save : Saves \union {Nobody}, entry : Entry \union {NoEntry}]
    BY DEF TypeInv, Carries, ErasureTypeOK
  <2>2. CASE \E pc \in DrainPcs \ {"idle"} : DrainGo(pc)
    BY <2>1, <2>2 DEF DrainGo
  <2>3. CASE \E a \in Actions : DrainEnds(a)
    <3>1. PICK a \in Actions : drain' = [drain EXCEPT !.pc = "put", !.entry.action = a]
      BY <2>3 DEF DrainEnds
    <3>2. drain' = [pc |-> "put", save |-> drain.save, entry |-> [drain.entry EXCEPT !.action = a]]
      BY <3>1, <2>1
    <3>3. [drain.entry EXCEPT !.action = a] \in Entry
      BY <2>1 DEF Entry
    <3> QED BY <3>2, <3>3, <2>1 DEF DrainPcs
  <2> QED BY <2>2, <2>3
<1> QED BY <1>1 DEF TypeInv, ErasureTypeOK, Carries, Converges, Unclaimed, others

LEMMA AtWork ==
  ASSUME TypeInv, drain.pc # "idle"
  PROVE  /\ Mine \in Saves /\ MyRun \in RunIds /\ drain.entry \in Entry
         /\ drain.entry.action \in Actions \union {"none"}
         /\ run \in [Saves -> [RunIds -> RunStates]] /\ RunNow \in RunStates
         /\ \A s \in RunStates, t \in RunStates :
              SetRun(s) \/ Guarded(t, s) => run' \in [Saves -> [RunIds -> RunStates]]
<1>1. drain.save \in Saves /\ drain.entry \in Entry /\ drain.entry.run \in RunIds
  BY DEF TypeInv, Carries, Entry
<1>2. run \in [Saves -> [RunIds -> RunStates]]
  BY DEF TypeInv, ErasureTypeOK
<1>3. ASSUME NEW s \in RunStates, SetRun(s) PROVE run' \in [Saves -> [RunIds -> RunStates]]
  BY <1>1, <1>2, <1>3 DEF SetRun, Mine, MyRun
<1> QED BY <1>1, <1>2, <1>3 DEF Mine, MyRun, RunNow, Guarded, Entry

\* The steps of the drain that change nothing but the run and their own place.
LEMMA TypeRun ==
  ASSUME TypeInv,
         \/ DrainClaim \/ DrainPreflight \/ DrainModel \/ DrainRecheck \/ DrainSkip
         \/ DrainEnter \/ DrainFenced \/ DrainBroken
  PROVE  TypeInv'
<1>1. drain.pc # "idle"
  BY DEF DrainClaim, DrainPreflight, DrainModel, DrainRecheck, DrainSkip, DrainEnter, DrainFenced, DrainBroken
<1>2. /\ run \in [Saves -> [RunIds -> RunStates]] /\ RunNow \in RunStates
      /\ \A s \in RunStates, t \in RunStates :
           SetRun(s) \/ Guarded(t, s) => run' \in [Saves -> [RunIds -> RunStates]]
  BY <1>1, AtWork
<1>3. /\ {"running", "failed", "cancelled_by_delete", "skipped", "committing"} \subseteq RunStates
      /\ {"preflight", "retry", "model", "enter", "recheck", "skip", "commit"} \subseteq DrainPcs \ {"idle"}
      /\ {"failed", "cancelled", "rescue", RecoveredAction(RunNow)} \subseteq Actions
  BY DEF RunStates, DrainPcs, Actions, RecoveredAction
<1>4. /\ UNCHANGED <<accepted, text, job, entry, marked, door, eraser, barrier, erased, others>>
      /\ run' \in [Saves -> [RunIds -> RunStates]]
      /\ \/ \E pc \in DrainPcs \ {"idle"} : DrainGo(pc)
         \/ \E a \in Actions : DrainEnds(a)
  <2>1. CASE DrainClaim
    BY <1>2, <1>3, <2>1 DEF DrainClaim
  <2>2. CASE DrainPreflight
    BY <1>2, <1>3, <2>2 DEF DrainPreflight
  <2>3. CASE DrainModel
    BY <1>2, <1>3, <2>3 DEF DrainModel
  <2>4. CASE DrainRecheck
    BY <1>2, <1>3, <2>4 DEF DrainRecheck
  <2>5. CASE DrainSkip
    BY <1>2, <1>3, <2>5 DEF DrainSkip
  <2>6. CASE DrainEnter
    BY <1>2, <1>3, <2>6 DEF DrainEnter
  <2>7. CASE DrainFenced
    BY <1>2, <1>3, <2>7 DEF DrainFenced
  <2>8. CASE DrainBroken
    BY <1>2, <1>3, <2>8 DEF DrainBroken
  <2> QED BY <2>1, <2>2, <2>3, <2>4, <2>5, <2>6, <2>7, <2>8
<1> QED BY <1>1, <1>4, DrainMoves

LEMMA TypePick == ASSUME TypeInv, DrainPick PROVE TypeInv'
<1>1. PICK w \in Saves :
        /\ entry[w].phase \in {"queued", "settling"}
        /\ drain' = [pc |-> IF entry[w].phase = "settling" THEN "settle" ELSE "check",
                     save |-> w, entry |-> entry[w]]
  BY DEF DrainPick
<1>2. entry[w] \in Entry /\ entry[w] # NoEntry
  BY <1>1 DEF TypeInv, ErasureTypeOK, NoEntry
<1>3. drain' \in [pc : DrainPcs \ {"idle"}, save : Saves, entry : Entry] /\ drain'.save = w
  BY <1>1, <1>2 DEF DrainPcs
<1> QED BY <1>2, <1>3 DEF DrainPick, TypeInv, ErasureTypeOK, Carries, Converges, Unclaimed, others

LEMMA TypeOff ==
  ASSUME TypeInv, drain' = DrainOff
  PROVE  Carries' /\ drain' \in [pc : DrainPcs, save : Saves \union {Nobody}, entry : Entry \union {NoEntry}]
         /\ \A w \in Saves : drain'.save # w
  BY SavesAssumption DEF DrainOff, Carries, DrainPcs, NoEntry

\* The steps of the drain that write its entry.
LEMMA TypeEntry ==
  ASSUME TypeInv, drain.pc # "idle", NEW e \in Entry \union {NoEntry},
         entry' = [entry EXCEPT ![Mine] = e], marked' \subseteq marked,
         \/ drain' = DrainOff
         \/ \E pc \in DrainPcs \ {"idle"}, f \in Entry : drain' = [drain EXCEPT !.pc = pc, !.entry = f],
         UNCHANGED <<accepted, text, job, run, door, eraser, barrier, erased, others>>
  PROVE  TypeInv'
<1>1. Mine \in Saves /\ drain.entry \in Entry
  BY AtWork
<1>2. drain' \in [pc : DrainPcs, save : Saves \union {Nobody}, entry : Entry \union {NoEntry}]
      /\ Carries' /\ \A w \in Saves : drain'.save = w => drain.save = w
  <2>1. CASE drain' = DrainOff
    BY <2>1, TypeOff
  <2>2. CASE \E pc \in DrainPcs \ {"idle"}, f \in Entry : drain' = [drain EXCEPT !.pc = pc, !.entry = f]
    BY <1>1, <2>2 DEF TypeInv, ErasureTypeOK, Carries, Mine
  <2> QED BY <2>1, <2>2
<1>3. entry' \in [Saves -> Entry \union {NoEntry}] /\ marked' \subseteq Saves
  BY <1>1 DEF TypeInv, ErasureTypeOK
<1>4. \A w \in Saves : entry'[w] = NoEntry \/ entry'[w] = entry[w] \/ w = drain.save
  BY <1>1 DEF TypeInv, ErasureTypeOK, Mine
<1> QED BY <1>2, <1>3, <1>4 DEF TypeInv, ErasureTypeOK, Converges, Unclaimed, others, Mine

LEMMA TypeStore ==
  ASSUME TypeInv, DrainCheck \/ DrainPut \/ DrainRetry \/ DrainSettle \/ DrainFinalize
  PROVE  TypeInv'
<1>1. drain.pc # "idle"
  BY DEF DrainCheck, DrainPut, DrainRetry, DrainSettle, DrainFinalize
<1>2. /\ Mine \in Saves /\ MyRun \in RunIds /\ drain.entry \in Entry
      /\ run \in [Saves -> [RunIds -> RunStates]]
  BY <1>1, AtWork
<1>3. CASE DrainCheck
  <2>1. CASE ~drain.entry.rescued /\ job[Mine] \in JobTerminal
    BY <1>1, <1>3, <2>1, TypeEntry DEF DrainCheck
  <2>2. CASE ~(~drain.entry.rescued /\ job[Mine] \in JobTerminal)
    <3>1. "claim" \in DrainPcs \ {"idle"}
      BY DEF DrainPcs
    <3> QED BY <1>1, <1>2, <1>3, <2>2, <3>1, DrainMoves DEF DrainCheck
  <2> QED BY <2>1, <2>2
<1>4. CASE DrainPut
  <2>1. [drain.entry EXCEPT !.phase = "settling"] \in Entry /\ "settle" \in DrainPcs \ {"idle"}
    BY <1>2 DEF Entry, DrainPcs
  <2> QED BY <1>1, <1>4, <2>1, TypeEntry DEF DrainPut
<1>5. CASE DrainRetry
  <2>1. CASE RetriesLeft(MyRun)
    <3>1. drain.entry.run + 1 \in RunIds
      BY <1>2, <2>1, BoundAssumption DEF RetriesLeft, MyRun, RunIds
    <3>2. [drain.entry EXCEPT !.run = @ + 1] \in Entry
      BY <1>2, <3>1 DEF Entry
    <3> QED BY <1>1, <1>5, <2>1, <3>2, TypeEntry DEF DrainRetry
  <2>2. CASE ~RetriesLeft(MyRun)
    BY <1>1, <1>2, <1>5, <2>2, DrainMoves DEF DrainRetry, Actions
  <2> QED BY <2>1, <2>2
<1>6. CASE DrainSettle
  <2>1. job' \in [Saves -> {"none", "awaiting_source", "queued"} \union JobTerminal]
    BY <1>2, <1>6 DEF DrainSettle, Verdict, JobTerminal, TypeInv, ErasureTypeOK
  <2>2. text' \in [Saves -> SUBSET Places]
    BY <1>6 DEF DrainSettle, Loses, TypeInv, ErasureTypeOK
  <2>3. drain' \in [pc : DrainPcs \ {"idle"}, save : Saves, entry : Entry] /\ drain'.save = drain.save
    BY <1>1, <1>2, <1>6 DEF DrainSettle, DrainGo, TypeInv, ErasureTypeOK, DrainPcs, Mine
  <2>4. \A w \in Saves : job'[w] = job[w] \/ w = drain.save
    BY <1>2, <1>6 DEF DrainSettle, Mine, TypeInv, ErasureTypeOK
  <2> QED BY <1>6, <2>1, <2>2, <2>3, <2>4 DEF DrainSettle, TypeInv, ErasureTypeOK, Carries, Converges, Unclaimed, others
<1>7. CASE DrainFinalize
  <2> DEFINE e == IF Rescues(drain.entry)
                  THEN [phase |-> "held", run |-> MyRun, rescued |-> TRUE, action |-> "none"]
                  ELSE NoEntry
  <2>1. e \in Entry \union {NoEntry}
    BY <1>2 DEF Entry
  <2>2. entry' = [entry EXCEPT ![Mine] = e] /\ marked' \subseteq marked /\ drain' = DrainOff
    BY <1>7 DEF DrainFinalize
  <2> HIDE DEF e
  <2> QED BY <1>1, <1>7, <2>1, <2>2, TypeEntry DEF DrainFinalize
<1> QED BY <1>3, <1>4, <1>5, <1>6, <1>7

LEMMA TypeCommit == ASSUME TypeInv, DrainCommit PROVE TypeInv'
<1>1. drain.pc = "commit" /\ drain.pc # "idle"
  BY DEF DrainCommit
<1>2. /\ Mine \in Saves /\ MyRun \in RunIds /\ drain.entry \in Entry
      /\ run \in [Saves -> [RunIds -> RunStates]]
  BY <1>1, AtWork
<1>3. run' \in [Saves -> [RunIds -> RunStates]] /\ text' \in [Saves -> SUBSET Places]
  <2>1. CASE Published
    BY <1>2, <2>1 DEF Published, SetRun, Holds, TypeInv, ErasureTypeOK, Places, RunStates
  <2>2. CASE UNCHANGED <<run, text>>
    BY <1>2, <2>2 DEF TypeInv, ErasureTypeOK
  <2> QED BY <2>1, <2>2 DEF DrainCommit
<1>4. drain' \in [pc : DrainPcs \ {"idle"}, save : Saves, entry : Entry] /\ drain'.save = drain.save
  <2>1. drain \in [pc : DrainPcs, save : Saves \union {Nobody}, entry : Entry \union {NoEntry}]
    BY DEF TypeInv, ErasureTypeOK
  <2>2. CASE DrainEnds("complete")
    <3>1. [drain.entry EXCEPT !.action = "complete"] \in Entry
      BY <1>2, EntriesMove DEF Actions
    <3>2. drain' = [pc |-> "put", save |-> drain.save, entry |-> [drain.entry EXCEPT !.action = "complete"]]
      BY <2>1, <2>2 DEF DrainEnds
    <3> QED BY <1>2, <3>1, <3>2 DEF DrainPcs, Mine
  <2>3. CASE DrainGo("fenced") \/ DrainGo("broken")
    BY <1>2, <2>1, <2>3 DEF DrainGo, DrainPcs, Mine
  <2> QED BY <2>2, <2>3 DEF DrainCommit
<1>5. faults' \in 0 .. MaxFaults
  BY BoundAssumption DEF DrainCommit, TypeInv, ErasureTypeOK
<1> QED BY <1>3, <1>4, <1>5 DEF DrainCommit, TypeInv, ErasureTypeOK, Carries, Converges, Unclaimed

LEMMA TypeFlush == ASSUME TypeInv, NEW w \in Saves, FlushHeld(w) PROVE TypeInv'
<1>1. FreshRuns(w) # {} /\ FreshRuns(w) \in SUBSET RunIds
  BY DEF FlushHeld, FreshRuns
<1>2. Min(FreshRuns(w)) \in RunIds
  BY <1>1, MinOfRuns
<1>3. entry[w] \in Entry /\ entry[w] # NoEntry
  BY DEF FlushHeld, NoEntry, TypeInv, ErasureTypeOK
<1>4. entry' = [entry EXCEPT ![w] = [entry[w] EXCEPT !.phase = "queued", !.run = Min(FreshRuns(w))]]
  BY DEF FlushHeld, TypeInv, ErasureTypeOK
<1>5. [entry[w] EXCEPT !.phase = "queued", !.run = Min(FreshRuns(w))] \in Entry
  BY <1>2, <1>3 DEF Entry
<1> QED BY <1>3, <1>4, <1>5 DEF FlushHeld, TypeInv, ErasureTypeOK, Carries, Converges, Unclaimed, others

LEMMA TypeEvict == ASSUME TypeInv, EvictDrain PROVE TypeInv'
<1>1. Carries' /\ drain' \in [pc : DrainPcs, save : Saves \union {Nobody}, entry : Entry \union {NoEntry}]
      /\ \A w \in Saves : drain'.save # w
  BY TypeOff DEF EvictDrain
<1> QED BY <1>1, BoundAssumption DEF EvictDrain, TypeInv, ErasureTypeOK, Converges, Unclaimed

\* The steps of an erasure.
LEMMA TypeEraser ==
  ASSUME TypeInv, EraseStep \/ EraseEpisodes \/ EraseConverges \/ EraseFails
  PROVE  TypeInv'
<1> DEFINE Eraser == [pc : EraserPcs, now : 0 .. MaxClock, runs : SUBSET (Saves \X RunIds),
                      ids : SUBSET Saves, passes : 0 .. MaxPasses, count : 0 .. MaxErases]
<1>1. eraser \in Eraser /\ text \in [Saves -> SUBSET Places]
  BY DEF TypeInv, ErasureTypeOK
<1>2. /\ \A pc \in EraserPcs : EraserGo(pc) => eraser' \in Eraser /\ eraser'.pc = pc /\ eraser'.passes = eraser.passes
      /\ \A p \in Places : \A ws \in SUBSET Saves : Loses(p, ws) \in [Saves -> SUBSET Places]
      /\ Minimized \in SUBSET Saves /\ eraser.ids \in SUBSET Saves /\ Saves \in SUBSET Saves
  BY <1>1 DEF EraserGo, Loses, Minimized
<1>3. /\ eraser.pc \in EraserPcs /\ eraser.now \in 0 .. MaxClock /\ eraser.runs \in SUBSET (Saves \X RunIds)
      /\ eraser.passes \in 0 .. MaxPasses /\ eraser.count \in 0 .. MaxErases
  BY <1>1
<1>4. \A pc \in EraserPcs, now \in 0 .. MaxClock, runs \in SUBSET (Saves \X RunIds), ids \in SUBSET Saves,
        passes \in 0 .. MaxPasses, count \in 0 .. MaxErases :
        [pc |-> pc, now |-> now, runs |-> runs, ids |-> ids, passes |-> passes, count |-> count] \in Eraser
  OBVIOUS
<1>5. eraser = [pc |-> eraser.pc, now |-> eraser.now, runs |-> eraser.runs, ids |-> eraser.ids,
                passes |-> eraser.passes, count |-> eraser.count]
  BY <1>1
<1> HIDE DEF Eraser
<1>6. CASE EraseEnumerates
  <2>1. eraser.count + 1 \in 0 .. MaxErases
    BY <1>1, <1>6, BoundAssumption DEF EraseEnumerates, Eraser
  <2>2. eraser' \in Eraser /\ eraser'.pc = "barrier" /\ eraser'.passes = 0
    BY <1>6, <2>1, BoundAssumption DEF EraseEnumerates, Eraser, Live, EraserPcs, MaxPasses
  <2> QED BY <1>6, <2>2 DEF EraseEnumerates, TypeInv, ErasureTypeOK, Carries, Converges, Unclaimed, others, Eraser
<1>7. CASE EraseBarrier
  <2>1. clock \in 1 .. MaxClock /\ barrier \in 0 .. MaxClock
    BY DEF TypeInv, ErasureTypeOK
  <2>2. barrier' \in 0 .. MaxClock
    BY <1>7, <2>1, MaxOfTwo, BoundAssumption DEF EraseBarrier
  <2>3. eraser' \in Eraser /\ eraser'.pc = "packets" /\ eraser'.passes = eraser.passes
    <3>1. eraser' = [pc |-> "packets", now |-> clock, runs |-> eraser.runs, ids |-> eraser.ids,
                     passes |-> eraser.passes, count |-> eraser.count]
      BY <1>5, <1>7 DEF EraseBarrier
    <3>2. clock \in 0 .. MaxClock /\ "packets" \in EraserPcs
      BY <2>1, BoundAssumption DEF EraserPcs
    <3>3. [pc |-> "packets", now |-> clock, runs |-> eraser.runs, ids |-> eraser.ids,
           passes |-> eraser.passes, count |-> eraser.count] \in Eraser
      BY <1>1, <3>2 DEF Eraser
    <3> QED BY <3>1, <3>3
  <2>4. UNCHANGED <<accepted, text, job, run, entry, marked, door, drain, erased, others>>
    BY <1>7 DEF EraseBarrier
  <2>5. Converges'
    BY <1>7, <2>3 DEF EraseBarrier, TypeInv, Converges
  <2> QED BY <2>2, <2>3, <2>4, <2>5 DEF TypeInv, ErasureTypeOK, Carries, Unclaimed, others, Eraser
<1>8. CASE ErasePackets
  BY <1>2, <1>8 DEF ErasePackets, EraserPcs, Places, TypeInv, ErasureTypeOK, Carries, Converges, Unclaimed, others, Eraser
<1>9. CASE EraseAwaiting
  BY <1>2, <1>9 DEF EraseAwaiting, CancelJobs, EraserPcs, JobTerminal, TypeInv, ErasureTypeOK, Carries, Converges, Unclaimed, others, Eraser
<1>10. CASE EraseRuns
  <2>1. run' \in [Saves -> [RunIds -> RunStates]]
    BY <1>10 DEF EraseRuns, TypeInv, ErasureTypeOK, RunStates
  <2>2. eraser' \in Eraser /\ eraser'.pc = "reset" /\ eraser'.passes = eraser.passes
    BY <1>2, <1>10 DEF EraseRuns, EraserPcs
  <2> QED BY <1>10, <2>1, <2>2 DEF EraseRuns, TypeInv, ErasureTypeOK, Carries, Converges, Unclaimed, others, Eraser
<1>11. CASE EraseReset
  BY <1>2, <1>11 DEF EraseReset, EraserPcs, TypeInv, ErasureTypeOK, Carries, Converges, Unclaimed, others, Eraser
<1>12. CASE EraseJobs
  BY <1>2, <1>12 DEF EraseJobs, CancelJobs, EraserPcs, JobTerminal, TypeInv, ErasureTypeOK, Carries, Converges, Unclaimed, others, Eraser
<1>13. CASE EraseStaged
  BY <1>2, <1>13 DEF EraseStaged, EraserPcs, Places, TypeInv, ErasureTypeOK, Carries, Converges, Unclaimed, others, Eraser
<1>14. CASE EraseSweep
  <2>1. eraser' \in Eraser /\ Converges'
    BY <1>1, <1>2, <1>14 DEF EraseSweep, EraserPcs, Converges
  <2> QED BY <1>2, <1>14, <2>1 DEF EraseSweep, Places, TypeInv, ErasureTypeOK, Carries, Unclaimed, others, Eraser
<1>15. CASE EraseMarks
  <2>1. run' \in [Saves -> [RunIds -> RunStates]]
    BY <1>15 DEF EraseMarks, TypeInv, ErasureTypeOK, RunStates
  <2>2. eraser' \in Eraser /\ eraser'.pc = "receipts" /\ eraser'.passes = eraser.passes
    BY <1>2, <1>15 DEF EraseMarks, EraserPcs
  <2> QED BY <1>15, <2>1, <2>2 DEF EraseMarks, TypeInv, ErasureTypeOK, Carries, Converges, Unclaimed, others, Eraser
<1>16. ASSUME eraser' = [eraser EXCEPT !.pc = "idle", !.now = 0, !.runs = {}, !.ids = {}, !.passes = 0]
       PROVE  eraser' \in Eraser /\ eraser'.pc = "idle" /\ eraser'.passes = 0
  <2>1. eraser' = [pc |-> "idle", now |-> 0, runs |-> {}, ids |-> {}, passes |-> 0, count |-> eraser.count]
    BY <1>5, <1>16
  <2>2. 0 \in 0 .. MaxClock /\ 0 \in 0 .. MaxPasses /\ "idle" \in EraserPcs
    BY BoundAssumption DEF MaxPasses, EraserPcs
  <2> QED BY <1>3, <1>4, <2>1, <2>2
<1>17. CASE EraseSucceeds
  <2>1. erased' \in 0 .. MaxClock
    <3>1. erased \in 0 .. MaxClock /\ erased' = Max({erased, eraser.now})
      BY <1>17 DEF EraseSucceeds, TypeInv, ErasureTypeOK
    <3> QED BY <1>3, <3>1, MaxOfTwo, BoundAssumption
  <2>2. eraser' \in Eraser /\ eraser'.pc = "idle" /\ eraser'.passes = 0
    BY <1>16, <1>17 DEF EraseSucceeds
  <2> QED BY <1>17, <2>1, <2>2 DEF EraseSucceeds, TypeInv, ErasureTypeOK, Carries, Converges, Unclaimed, others, Eraser
<1>18. CASE EraseEpisodes
  <2>1. text' \in [Saves -> SUBSET Places] /\ faults' \in 0 .. MaxFaults
    BY <1>1, <1>2, <1>18, BoundAssumption DEF EraseEpisodes, Places, TypeInv, ErasureTypeOK
  <2>2. eraser' \in Eraser /\ eraser'.pc = "sweep"
    BY <1>2, <1>18 DEF EraseEpisodes, EraserPcs
  <2> QED BY <1>18, <2>1, <2>2 DEF EraseEpisodes, TypeInv, ErasureTypeOK, Carries, Converges, Unclaimed, Eraser
<1>19. CASE EraseConverges
  <2>1. faults' \in 0 .. MaxFaults
    BY <1>19, BoundAssumption DEF EraseConverges, TypeInv, ErasureTypeOK
  <2>2. eraser.passes + 1 \in 0 .. MaxPasses
    BY <1>3, <1>19 DEF EraseConverges, TypeInv, Converges, MaxPasses
  <2>3. eraser' \in Eraser /\ eraser'.pc \in {"episodes", "sweep", "mark"}
    <3>1. PICK left : eraser' = [eraser EXCEPT !.passes = @ + 1, !.ids = Live,
                                   !.pc = IF left # {} THEN "episodes"
                                          ELSE IF Live # {} THEN "sweep" ELSE "mark"]
      BY <1>19 DEF EraseConverges
    <3> DEFINE pc == IF left # {} THEN "episodes" ELSE IF Live # {} THEN "sweep" ELSE "mark"
    <3>2. eraser' = [pc |-> pc, now |-> eraser.now, runs |-> eraser.runs, ids |-> Live,
                     passes |-> eraser.passes + 1, count |-> eraser.count]
      BY <1>5, <3>1
    <3>3. pc \in EraserPcs /\ pc \in {"episodes", "sweep", "mark"} /\ Live \in SUBSET Saves
      BY DEF EraserPcs, Live
    <3> HIDE DEF pc
    <3> QED BY <1>3, <1>4, <2>2, <3>2, <3>3
  <2> QED BY <1>19, <2>1, <2>3 DEF EraseConverges, TypeInv, ErasureTypeOK, Carries, Converges, Unclaimed, Eraser
<1>20. CASE EraseFails
  <2>1. eraser' \in Eraser /\ eraser'.pc = "idle" /\ eraser'.passes = 0 /\ faults' \in 0 .. MaxFaults
    BY <1>16, <1>20, BoundAssumption DEF EraseFails, TypeInv, ErasureTypeOK
  <2> QED BY <1>20, <2>1 DEF EraseFails, TypeInv, ErasureTypeOK, Carries, Converges, Unclaimed, Eraser
<1> QED
  BY <1>6, <1>7, <1>8, <1>9, <1>10, <1>11, <1>12, <1>13, <1>14, <1>15, <1>17, <1>18, <1>19, <1>20 DEF EraseStep

LEMMA TypeKept == TypeInv /\ [ErasureNext]_vars => TypeInv'
<1> SUFFICES ASSUME TypeInv, [ErasureNext]_vars PROVE TypeInv'
  OBVIOUS
<1>1. CASE \E w \in Saves : DoorStep(w) \/ DoorStop(w) \/ DoorRetry(w) \/ FlushHeld(w)
  BY <1>1, TypeDoor, TypeFlush
<1>2. CASE DrainStep \/ DrainCommit \/ EvictDrain
  BY <1>2, TypeRun, TypePick, TypeStore, TypeCommit, TypeEvict DEF DrainStep
<1>3. CASE EraseStep \/ EraseEpisodes \/ EraseConverges \/ EraseFails
  BY <1>3, TypeEraser
<1>4. CASE Tick
  BY <1>4, BoundAssumption DEF Tick, TypeInv, ErasureTypeOK, Carries, Converges, Unclaimed
<1>5. CASE UNCHANGED vars
  BY <1>5 DEF vars, others, TypeInv, ErasureTypeOK, Carries, Converges, Unclaimed
<1> QED BY <1>1, <1>2, <1>3, <1>4, <1>5 DEF ErasureNext

----------------------------------------------------------------------------
(* What no step brings back *)

\* A save that has not arrived has no words in the graph or the episodes.
Blank == \A w \in Saves : accepted[w] = 0 => text[w] \cap {"graph", "episode"} = {}

\* What a step adds to the graph or the episodes, no barrier covers.
Onward ==
    /\ barrier' >= barrier
    /\ \A w \in Saves : accepted[w] # 0 => accepted'[w] = accepted[w]
    /\ \A w \in Saves, p \in {"graph", "episode"} :
         p \in text'[w] => accepted'[w] = accepted[w] /\ (p \in text[w] \/ accepted[w] > barrier)

LEMMA Onwards == TypeInv /\ Blank /\ [ErasureNext]_vars => Onward /\ Blank'
<1> SUFFICES ASSUME TypeInv, Blank, [ErasureNext]_vars PROVE Onward /\ Blank'
  OBVIOUS
<1>1. /\ accepted \in [Saves -> 0 .. MaxClock] /\ text \in [Saves -> SUBSET Places]
      /\ barrier \in 0 .. MaxClock /\ clock \in 1 .. MaxClock /\ MaxClock \in Nat
      /\ \A w \in Saves : door[w] = "new" => accepted[w] = 0
  BY BoundAssumption DEF TypeInv, ErasureTypeOK, Unclaimed
<1>2. Onward
  <2>1. CASE \E w \in Saves : DoorArrives(w)
    BY <1>1, <2>1 DEF DoorArrives, Onward, Blank, others
  <2>2. CASE \E w \in Saves : DoorInsert(w)
    BY <1>1, <2>2 DEF DoorInsert, EpisodesAllowed, Covered, CoveredBy, Holds, Onward, others
  <2>3. CASE \E w \in Saves : DoorPacket(w) \/ DoorStage(w)
    BY <1>1, <2>3 DEF DoorPacket, DoorStage, Holds, Onward, others
  <2>4. CASE DrainCommit
    <3>1. drain.save \in Saves /\ UNCHANGED <<accepted, barrier>>
      BY <2>4 DEF DrainCommit, TypeInv, Carries
    <3>2. text' = text \/ (~Covered(Mine) /\ text' = Holds("graph", {Mine}))
      BY <2>4 DEF DrainCommit, FenceHolds, Published
    <3> QED BY <1>1, <3>1, <3>2 DEF Covered, CoveredBy, Holds, Onward, Mine
  <2>5. CASE DrainSettle \/ ErasePackets \/ EraseStaged \/ EraseEpisodes \/ EraseSweep
    BY <1>1, <2>5 DEF DrainSettle, ErasePackets, EraseStaged, EraseEpisodes, EraseSweep, Loses, Onward, others
  <2>6. CASE EraseBarrier
    BY <1>1, <2>6, MaxOfTwo DEF EraseBarrier, Onward, others
  <2>7. CASE UNCHANGED <<accepted, text, barrier>>
    BY <1>1, <2>7 DEF Onward
  <2>8. \/ \E w \in Saves : DoorArrives(w) \/ DoorInsert(w) \/ DoorPacket(w) \/ DoorStage(w)
        \/ DrainCommit
        \/ DrainSettle \/ ErasePackets \/ EraseStaged \/ EraseEpisodes \/ EraseSweep \/ EraseBarrier
        \/ UNCHANGED <<accepted, text, barrier>>
    BY DEF ErasureNext, DoorStep, DoorStop, DoorRetry, FlushHeld, DrainStep, EvictDrain, EraseStep,
           EraseConverges, EraseFails, Tick, vars, others, DoorClaim, DoorVerify, DoorActivate,
           DoorHandoff, DoorAdd, DrainPick, DrainCheck, DrainClaim, DrainPreflight, DrainModel,
           DrainRecheck, DrainSkip, DrainEnter, DrainFenced, DrainBroken, DrainPut, DrainRetry,
           DrainFinalize, EraseEnumerates, EraseAwaiting, EraseRuns, EraseReset, EraseJobs,
           EraseMarks, EraseSucceeds
  <2> QED BY <2>1, <2>2, <2>3, <2>4, <2>5, <2>6, <2>7, <2>8
<1>3. accepted' \in [Saves -> 0 .. MaxClock]
  BY TypeKept DEF TypeInv, ErasureTypeOK
<1> QED BY <1>1, <1>2, <1>3 DEF Onward, Blank

\* Nothing accepted by moment t is left in a place.
Gone(p, t) == \A w \in Saves : accepted[w] <= t => p \notin text[w]

\* What is gone under a barrier stays gone.
LEMMA GoneForGood ==
  ASSUME TypeInv, TypeInv', Blank, Onward, NEW p \in {"graph", "episode"}, NEW t \in Nat,
         t <= barrier, Gone(p, t)
  PROVE  Gone(p, t)'
<1>1. accepted \in [Saves -> 0 .. MaxClock] /\ accepted' \in [Saves -> 0 .. MaxClock]
      /\ barrier \in 0 .. MaxClock /\ MaxClock \in Nat
  BY BoundAssumption DEF TypeInv, ErasureTypeOK
<1> SUFFICES ASSUME NEW w \in Saves, accepted'[w] <= t, p \in text'[w] PROVE FALSE
  BY DEF Gone
<1>2. accepted'[w] = accepted[w] /\ (p \in text[w] \/ accepted[w] > barrier)
  BY DEF Onward
<1> QED BY <1>1, <1>2 DEF Gone

----------------------------------------------------------------------------
(* How far an erasure has come *)

\* The moment an erasure covers is under the barrier.
Fenced ==
    /\ erased <= barrier
    /\ eraser.pc \notin {"idle", "barrier"} => eraser.now <= barrier

\* The graph.  What was published between the enumeration and the barrier is
\* found by the first round of convergence, and nothing is published after it.
GraphSwept ==
    /\ Gone("graph", erased)
    /\ eraser.pc \in {"episodes", "sweep"} /\ eraser.passes >= 1 =>
         \A w \in Saves : CoveredBy(w, eraser.now) /\ "graph" \in text[w] => w \in eraser.ids
    /\ eraser.pc = "converge" /\ eraser.passes >= 1 => Gone("graph", eraser.now)
    /\ eraser.pc \in {"mark", "receipts"} => Gone("graph", eraser.now)

\* The episodes.  A deletion that failed is found by the count, unless the
\* count fails as well.
EpisodesSwept ==
    /\ Gone("episode", erased)
    /\ eraser.pc = "episodes" /\ eraser.passes >= 1 => Gone("episode", eraser.now) \/ faults >= 1
    /\ eraser.pc \in {"sweep", "converge"} =>
         Gone("episode", eraser.now) \/ (eraser.passes = 0 /\ faults >= 1)
    /\ eraser.pc \in {"mark", "receipts"} => Gone("episode", eraser.now)

ErasureInv == TypeInv /\ Blank /\ Fenced /\ GraphSwept

LEMMA ErasureInvInit == ErasureInit => ErasureInv /\ EpisodesSwept
<1> SUFFICES ASSUME ErasureInit PROVE ErasureInv /\ EpisodesSwept
  OBVIOUS
<1>1. TypeInv
  BY TypeInvInit
<1> QED
  BY <1>1 DEF ErasureInit, ErasureInv, Blank, Fenced, GraphSwept, EpisodesSwept, Gone

\* The steps that leave an erasure where it is.
LEMMA EraserStands ==
  ASSUME ErasureInv, TypeInv', Onward, UNCHANGED <<eraser, erased>>, faults' >= faults
  PROVE  /\ Fenced' /\ GraphSwept'
         /\ EpisodesSwept => EpisodesSwept'
<1>1. /\ eraser.now \in Nat /\ erased \in Nat /\ barrier \in Nat /\ barrier' \in Nat /\ faults \in Nat
      /\ faults' \in Nat /\ accepted \in [Saves -> Nat] /\ MaxClock \in Nat
      /\ eraser.passes \in Nat
  BY BoundAssumption DEF ErasureInv, TypeInv, ErasureTypeOK
<1>2. Fenced'
  BY <1>1 DEF ErasureInv, Fenced, Onward
<1>3. \A p \in {"graph", "episode"} :
        /\ Gone(p, erased) => Gone(p, erased)'
        /\ eraser.pc \notin {"idle", "barrier"} /\ Gone(p, eraser.now) => Gone(p, eraser.now)'
  BY <1>1, GoneForGood DEF ErasureInv, Fenced, Gone
<1>4. ASSUME eraser.pc \in {"episodes", "sweep"}, NEW w \in Saves, CoveredBy(w, eraser.now)', "graph" \in text'[w]
      PROVE  CoveredBy(w, eraser.now) /\ "graph" \in text[w]
  BY <1>1, <1>4 DEF Onward, ErasureInv, Fenced, CoveredBy
<1>5. GraphSwept'
  BY <1>3, <1>4 DEF ErasureInv, GraphSwept
<1>6. EpisodesSwept => EpisodesSwept'
  BY <1>1, <1>3 DEF EpisodesSwept
<1> QED BY <1>2, <1>5, <1>6

LEMMA EraserMoves ==
  ASSUME ErasureInv, TypeInv', Onward, EraseStep \/ EraseEpisodes \/ EraseConverges \/ EraseFails
  PROVE  /\ Fenced' /\ GraphSwept'
         /\ MaxFaults <= 1 /\ EpisodesSwept => EpisodesSwept'
<1>1. /\ eraser.now \in Nat /\ erased \in Nat /\ barrier \in Nat /\ barrier' \in Nat /\ clock \in Nat
      /\ faults \in Nat /\ accepted \in [Saves -> Nat] /\ MaxClock \in Nat /\ MaxFaults \in Nat
      /\ eraser.passes \in 0 .. MaxPasses /\ MaxPasses \in Nat /\ MaxPasses >= 1
      /\ text \in [Saves -> SUBSET Places]
  BY BoundAssumption DEF ErasureInv, TypeInv, ErasureTypeOK, MaxPasses
<1>2. eraser \in [pc : EraserPcs, now : 0 .. MaxClock, runs : SUBSET (Saves \X RunIds),
                  ids : SUBSET Saves, passes : 0 .. MaxPasses, count : 0 .. MaxErases]
  BY DEF ErasureInv, TypeInv, ErasureTypeOK
<1>3. /\ erased <= barrier /\ barrier' >= barrier
      /\ eraser.pc \notin {"idle", "barrier"} => eraser.now <= barrier
      /\ Gone("graph", erased)
  BY DEF ErasureInv, Fenced, Onward, GraphSwept
<1>4. \A p \in {"graph", "episode"}, t \in Nat : t <= barrier /\ Gone(p, t) => Gone(p, t)'
  BY GoneForGood DEF ErasureInv, Gone
<1>5. ASSUME NEW w \in Saves, NEW p \in {"graph", "episode"}, NEW t \in Nat, t <= barrier,
             accepted'[w] <= t, p \in text'[w]
      PROVE  accepted[w] <= t /\ p \in text[w]
  BY <1>1, <1>5 DEF Onward
<1>6. CASE EraseEnumerates
  <2>1. eraser'.pc = "barrier" /\ erased' = erased
    BY <1>6 DEF EraseEnumerates
  <2> QED BY <1>1, <1>3, <1>4, <2>1 DEF Fenced, GraphSwept, EpisodesSwept, Gone
<1>7. CASE EraseBarrier
  <2>1. eraser'.pc = "packets" /\ eraser'.now = clock /\ erased' = erased /\ barrier' >= clock
    <3>1. eraser' = [eraser EXCEPT !.pc = "packets", !.now = clock] /\ erased' = erased
          /\ barrier' = Max({barrier, clock})
      BY <1>7 DEF EraseBarrier
    <3>2. barrier' >= clock
      BY <1>1, <3>1, MaxOfTwo
    <3> QED BY <1>2, <3>1, <3>2
  <2> QED BY <1>1, <1>3, <1>4, <2>1 DEF Fenced, GraphSwept, EpisodesSwept, Gone
<1>8. CASE ErasePackets \/ EraseAwaiting \/ EraseRuns \/ EraseReset \/ EraseJobs
  <2>1. /\ eraser'.pc \in {"awaiting", "runs", "reset", "jobs", "staged"} /\ erased' = erased
        /\ eraser'.now = eraser.now /\ eraser.pc \notin {"idle", "barrier"}
    BY <1>2, <1>8 DEF ErasePackets, EraseAwaiting, EraseRuns, EraseReset, EraseJobs, EraserGo
  <2> QED BY <1>1, <1>3, <1>4, <2>1 DEF Fenced, GraphSwept, EpisodesSwept, Gone
<1>9. CASE EraseStaged
  <2>1. /\ eraser.pc = "staged" /\ eraser'.pc = "episodes" /\ erased' = erased
        /\ eraser'.now = eraser.now /\ eraser'.passes = eraser.passes
    BY <1>2, <1>9 DEF EraseStaged, EraserGo
  <2>2. eraser.passes = 0
    BY <2>1 DEF ErasureInv, TypeInv, Converges
  <2> QED BY <1>1, <1>3, <1>4, <2>1, <2>2 DEF Fenced, GraphSwept, EpisodesSwept, Gone
<1>10. CASE EraseEpisodes
  <2>1. /\ eraser.pc = "episodes" /\ eraser'.pc = "sweep" /\ UNCHANGED <<erased, accepted, barrier>>
        /\ eraser'.now = eraser.now /\ eraser'.passes = eraser.passes /\ eraser'.ids = eraser.ids
        /\ eraser.now <= barrier
    BY <1>2, <1>3, <1>10 DEF EraseEpisodes, EraserGo
  <2>2. Fenced' /\ Gone("graph", erased)'
    BY <1>1, <1>3, <1>4, <2>1 DEF Fenced, Gone
  <2>3. ASSUME eraser.passes >= 1, NEW w \in Saves, CoveredBy(w, eraser.now)', "graph" \in text'[w]
        PROVE  w \in eraser'.ids
    <3>1. CoveredBy(w, eraser.now) /\ "graph" \in text[w]
      BY <1>1, <1>5, <2>1, <2>3 DEF CoveredBy
    <3> QED BY <2>1, <2>3, <3>1 DEF ErasureInv, GraphSwept
  <2>4. GraphSwept'
    BY <2>1, <2>2, <2>3 DEF GraphSwept
  <2>5. ASSUME MaxFaults <= 1, EpisodesSwept PROVE EpisodesSwept'
    <3>1. Gone("episode", erased)'
      BY <1>1, <1>3, <1>4, <2>1, <2>5 DEF EpisodesSwept, Gone
    <3>2. CASE text' = Loses("episode", Saves)
      <4>1. Gone("episode", eraser.now)'
        BY <1>1, <3>2 DEF Gone, Loses
      <4> QED BY <2>1, <3>1, <4>1 DEF EpisodesSwept
    <3>3. CASE faults < MaxFaults /\ faults' = faults + 1 /\ UNCHANGED text
      <4>1. faults = 0 /\ faults' >= 1
        BY <1>1, <2>5, <3>3
      <4>2. eraser.passes >= 1 => Gone("episode", eraser.now)'
        BY <1>1, <1>4, <2>1, <2>5, <4>1 DEF EpisodesSwept, Gone
      <4>3. eraser.passes = 0 \/ eraser.passes >= 1
        BY <1>1
      <4> QED BY <2>1, <3>1, <4>1, <4>2, <4>3 DEF EpisodesSwept
    <3> QED BY <1>10, <3>2, <3>3 DEF EraseEpisodes
  <2> QED BY <2>2, <2>4, <2>5
<1>11. CASE EraseSweep
  <2>1. /\ eraser.pc = "sweep" /\ UNCHANGED <<erased, accepted, barrier, faults>>
        /\ eraser'.pc = IF eraser.passes < MaxPasses THEN "converge" ELSE "mark"
        /\ eraser'.now = eraser.now /\ eraser'.passes = eraser.passes
        /\ eraser.now <= barrier /\ text' = Loses("graph", eraser.ids)
    BY <1>2, <1>3, <1>11 DEF EraseSweep, EraserGo, others
  <2>2. Fenced' /\ Gone("graph", erased)'
    BY <1>1, <1>3, <1>4, <2>1 DEF Fenced, Gone
  <2>3. eraser.passes >= 1 => Gone("graph", eraser.now)'
    BY <1>1, <2>1 DEF ErasureInv, GraphSwept, CoveredBy, Gone, Loses
  <2>4. GraphSwept'
    BY <1>1, <2>1, <2>2, <2>3 DEF GraphSwept
  <2>5. ASSUME EpisodesSwept PROVE EpisodesSwept'
    <3>1. Gone("episode", erased)' /\ (Gone("episode", eraser.now) => Gone("episode", eraser.now)')
      BY <1>1, <1>3, <1>4, <2>1, <2>5 DEF EpisodesSwept, Gone
    <3> QED BY <1>1, <2>1, <2>5, <3>1 DEF EpisodesSwept
  <2> QED BY <2>2, <2>4, <2>5
<1>12. CASE EraseConverges
  <2>1. /\ eraser.pc = "converge" /\ UNCHANGED <<erased, accepted, barrier, text>>
        /\ eraser'.now = eraser.now /\ eraser'.passes = eraser.passes + 1 /\ eraser'.ids = Live
        /\ eraser.now <= barrier
    BY <1>2, <1>3, <1>12 DEF EraseConverges
  <2>2. PICK left \in {EpisodesLeft, {}} :
          /\ IF left = EpisodesLeft THEN UNCHANGED faults ELSE faults < MaxFaults /\ faults' = faults + 1
          /\ eraser'.pc = IF left # {} THEN "episodes" ELSE IF Live # {} THEN "sweep" ELSE "mark"
    BY <1>2, <1>12 DEF EraseConverges
  <2>3. Fenced' /\ Gone("graph", erased)'
    BY <1>1, <1>3, <1>4, <2>1 DEF Fenced, Gone
  <2>4. GraphSwept'
    <3>1. \A w \in Saves : "graph" \in text'[w] => w \in eraser'.ids
      BY <2>1 DEF Live
    <3>2. eraser'.pc \in {"mark", "receipts"} => Gone("graph", eraser.now)'
      BY <2>1, <2>2 DEF Live, Gone
    <3> QED BY <2>2, <2>3, <3>1, <3>2 DEF GraphSwept
  <2>5. ASSUME MaxFaults <= 1, EpisodesSwept PROVE EpisodesSwept'
    <3>1. Gone("episode", erased)' /\ (Gone("episode", eraser.now) => Gone("episode", eraser.now)')
      BY <1>1, <1>3, <1>4, <2>1, <2>5 DEF EpisodesSwept, Gone
    <3>2. Gone("episode", eraser.now) \/ faults >= 1
      BY <2>1, <2>5 DEF EpisodesSwept
    <3>3. CASE left = EpisodesLeft /\ left # {}
      BY <1>1, <2>1, <2>2, <3>1, <3>2, <3>3 DEF EpisodesSwept
    <3>4. CASE left = {}
      <4>1. Gone("episode", eraser.now)
        <5>1. CASE left = EpisodesLeft
          BY <3>4, <5>1 DEF EpisodesLeft, Gone
        <5>2. CASE left # EpisodesLeft
          BY <1>1, <2>2, <2>5, <3>2, <5>2
        <5> QED BY <5>1, <5>2
      <4> QED BY <1>1, <2>1, <2>2, <3>1, <3>4, <4>1 DEF EpisodesSwept
    <3> QED BY <2>2, <3>3, <3>4
  <2> QED BY <2>3, <2>4, <2>5
<1>13. CASE EraseMarks
  <2>1. /\ eraser.pc = "mark" /\ eraser'.pc = "receipts" /\ erased' = erased /\ eraser'.now = eraser.now
    BY <1>2, <1>13 DEF EraseMarks, EraserGo
  <2> QED BY <1>1, <1>3, <1>4, <2>1 DEF ErasureInv, Fenced, GraphSwept, EpisodesSwept, Gone
<1>14. CASE EraseSucceeds
  <2>1. /\ eraser.pc = "receipts" /\ eraser'.pc = "idle" /\ UNCHANGED <<text, accepted, barrier>>
        /\ erased' = IF erased >= eraser.now THEN erased ELSE eraser.now
    BY <1>1, <1>2, <1>14, MaxOfTwo DEF EraseSucceeds
  <2> QED BY <1>1, <1>3, <2>1 DEF ErasureInv, Fenced, GraphSwept, EpisodesSwept, Gone
<1>15. CASE EraseFails
  <2>1. eraser'.pc = "idle" /\ UNCHANGED <<text, accepted, barrier, erased>>
    BY <1>2, <1>15 DEF EraseFails
  <2> QED BY <1>1, <1>3, <2>1 DEF ErasureInv, Fenced, GraphSwept, EpisodesSwept, Gone
<1> QED
  BY <1>6, <1>7, <1>8, <1>9, <1>10, <1>11, <1>12, <1>13, <1>14, <1>15 DEF EraseStep

LEMMA ErasureInvKept ==
  ErasureInv /\ [ErasureNext]_vars => ErasureInv' /\ (MaxFaults <= 1 /\ EpisodesSwept => EpisodesSwept')
<1> SUFFICES ASSUME ErasureInv, [ErasureNext]_vars
             PROVE  ErasureInv' /\ (MaxFaults <= 1 /\ EpisodesSwept => EpisodesSwept')
  OBVIOUS
<1>1. TypeInv' /\ Blank' /\ Onward
  BY TypeKept, Onwards DEF ErasureInv
<1>2. CASE EraseStep \/ EraseEpisodes \/ EraseConverges \/ EraseFails
  BY <1>1, <1>2, EraserMoves DEF ErasureInv
<1>3. CASE ~(EraseStep \/ EraseEpisodes \/ EraseConverges \/ EraseFails)
  <2>1. faults \in Nat
    BY DEF ErasureInv, TypeInv, ErasureTypeOK
  <2>2. UNCHANGED <<eraser, erased>> /\ (faults' = faults \/ faults' = faults + 1)
    BY <1>3, Zenon
    DEF ErasureNext, DoorStep, DoorStop, DoorRetry, FlushHeld, DrainStep, DrainCommit, EvictDrain,
        Tick, vars, others, DoorArrives, DoorPacket, DoorClaim, DoorInsert, DoorVerify, DoorActivate,
        DoorStage, DoorHandoff, DoorAdd, DrainPick, DrainCheck, DrainClaim, DrainPreflight, DrainModel,
        DrainRecheck, DrainSkip, DrainEnter, DrainFenced, DrainBroken, DrainPut, DrainRetry,
        DrainSettle, DrainFinalize
  <2>3. faults' >= faults
    BY <2>1, <2>2
  <2> QED BY <1>1, <2>2, <2>3, EraserStands DEF ErasureInv
<1> QED BY <1>2, <1>3

----------------------------------------------------------------------------
(* The theorems *)

(* The inductive invariant holds in every state, whatever fails.             *)
THEOREM Invariant == ErasureSpec => []ErasureInv
<1>1. ErasureInv /\ [ErasureNext]_vars => ErasureInv'
  BY ErasureInvKept
<1> QED BY <1>1, ErasureInvInit, PTL DEF ErasureSpec

(* Types, for every clock, every number of runs, erasures and faults.        *)
THEOREM TypeCorrect == ErasureSpec => []ErasureTypeOK
<1>1. ErasureInv => ErasureTypeOK
  BY DEF ErasureInv, TypeInv
<1> QED BY <1>1, Invariant, PTL

(* The graph holds nothing that an erasure which answered "done" covers,     *)
(* then or ever after, whatever fails before or after.                       *)
GraphStaysErased == \A w \in Saves : accepted[w] \in 1 .. erased => "graph" \notin text[w]

THEOREM GraphIsErased == ErasureSpec => []GraphStaysErased
<1>1. ErasureInv => GraphStaysErased
  BY DEF ErasureInv, TypeInv, ErasureTypeOK, GraphSwept, Gone, GraphStaysErased
<1> QED BY <1>1, Invariant, PTL

(* The same of the episodes, as long as at most one thing fails: the errors  *)
(* of their deletion and of the count that would find it are both swallowed. *)
THEOREM ErasedIsGone ==
  ASSUME MaxFaults <= 1
  PROVE  ErasureSpec => []ErasedStaysErased
<1>1. ErasureInv /\ EpisodesSwept /\ [ErasureNext]_vars => (ErasureInv /\ EpisodesSwept)'
  BY ErasureInvKept
<1>2. ErasureInv /\ EpisodesSwept => ErasedStaysErased
  BY DEF ErasureInv, TypeInv, ErasureTypeOK, GraphSwept, EpisodesSwept, Gone, ErasedStaysErased
<1> QED BY <1>1, <1>2, ErasureInvInit, PTL DEF ErasureSpec

(* A run that an erasure cancelled never comes back to life: whatever the    *)
(* drain had read before, it takes the run up no more, nor ends it as        *)
(* written or as looked at.                                                  *)
THEOREM CancelledRunsStay == ErasureSpec => NoResurrection
<1> DEFINE Alive == {"running", "committing", "wrote", "skipped"}
           Stays == \A w \in Saves, r \in RunIds :
                      run[w][r] = "cancelled_by_delete" => run'[w][r] \notin Alive
<1>1. ErasureInv /\ [ErasureNext]_vars => Stays
  <2> SUFFICES ASSUME ErasureInv, [ErasureNext]_vars PROVE Stays
    OBVIOUS
  <2>1. run \in [Saves -> [RunIds -> RunStates]]
    BY DEF ErasureInv, TypeInv, ErasureTypeOK
  <2>2. CASE \/ DrainClaim \/ DrainPreflight \/ DrainModel \/ DrainRecheck \/ DrainSkip
             \/ DrainEnter \/ DrainFenced \/ DrainBroken \/ DrainCommit
    <3>1. Mine \in Saves /\ MyRun \in RunIds
      BY <2>2, AtWork
      DEF DrainClaim, DrainPreflight, DrainModel, DrainRecheck, DrainSkip, DrainEnter, DrainFenced,
          DrainBroken, DrainCommit, ErasureInv
    <3>2. \/ UNCHANGED run
          \/ \E s : SetRun(s) /\ (s \in Alive => RunNow # "cancelled_by_delete")
      BY <2>2
      DEF DrainClaim, DrainPreflight, DrainModel, DrainRecheck, DrainSkip, DrainEnter, DrainFenced,
          DrainBroken, DrainCommit, Guarded, Published, FenceHolds, RunNow
    <3>3. CASE UNCHANGED run
      BY <3>3
    <3>4. ASSUME NEW s, SetRun(s), s \in Alive => RunNow # "cancelled_by_delete"
          PROVE  Stays
      <4>1. \A w \in Saves, r \in RunIds :
              run'[w][r] = IF w = Mine /\ r = MyRun THEN s ELSE run[w][r]
        BY <2>1, <3>1, <3>4 DEF SetRun
      <4> QED BY <3>1, <3>4, <4>1 DEF RunNow
    <3> QED BY <3>2, <3>3, <3>4
  <2>3. CASE EraseRuns \/ EraseMarks
    <3>1. \A w \in Saves, r \in RunIds : run[w][r] = "cancelled_by_delete" => run'[w][r] = run[w][r]
      <4> SUFFICES ASSUME NEW w \in Saves, NEW r \in RunIds, run[w][r] = "cancelled_by_delete"
                   PROVE  run'[w][r] = run[w][r]
        OBVIOUS
      <4>1. CASE EraseRuns
        BY <4>1 DEF EraseRuns
      <4>2. CASE EraseMarks
        BY <4>2 DEF EraseMarks
      <4> QED BY <2>3, <4>1, <4>2
    <3> QED BY <3>1
  <2>4. CASE UNCHANGED run
    BY <2>4
  <2>5. \/ DrainClaim \/ DrainPreflight \/ DrainModel \/ DrainRecheck \/ DrainSkip
        \/ DrainEnter \/ DrainFenced \/ DrainBroken \/ DrainCommit \/ EraseRuns \/ EraseMarks
        \/ UNCHANGED run
    BY DEF ErasureNext, DoorStep, DoorStop, DoorRetry, FlushHeld, DrainStep, EvictDrain, EraseStep,
           EraseEpisodes, EraseConverges, EraseFails, Tick, vars, others, DoorArrives, DoorPacket,
           DoorClaim, DoorInsert, DoorVerify, DoorActivate, DoorStage, DoorHandoff, DoorAdd,
           DrainPick, DrainCheck, DrainPut, DrainRetry, DrainSettle, DrainFinalize,
           EraseEnumerates, EraseBarrier, ErasePackets, EraseAwaiting, EraseReset, EraseJobs,
           EraseStaged, EraseSweep, EraseSucceeds
  <2> QED BY <2>2, <2>3, <2>4, <2>5
<1>2. Stays => \A w \in Saves : \A r \in RunIds :
                 run[w][r] = "cancelled_by_delete"
                   => run'[w][r] \notin {"running", "committing", "wrote", "skipped"}
  OBVIOUS
<1> QED BY <1>1, <1>2, Invariant, PTL DEF ErasureSpec, NoResurrection

(* A verdict stands: the erasure cancels only rows that have none, the drain *)
(* settles only such rows, and the door claims a row once.                   *)
THEOREM VerdictsStand == ErasureSpec => VerdictStable
<1> DEFINE Stands == \A w \in Saves : job[w] \in JobTerminal => job'[w] = job[w]
<1>1. ErasureInv /\ [ErasureNext]_vars => Stands
  <2> SUFFICES ASSUME ErasureInv, [ErasureNext]_vars PROVE Stands
    OBVIOUS
  <2>1. /\ job \in [Saves -> {"none", "awaiting_source", "queued"} \union JobTerminal]
        /\ \A w \in Saves : door[w] = "claim" => job[w] = "none"
    BY DEF ErasureInv, TypeInv, ErasureTypeOK, Unclaimed
  <2>2. CASE \E w \in Saves : DoorClaim(w) \/ DoorVerify(w) \/ DoorActivate(w)
    BY <2>1, <2>2 DEF DoorClaim, DoorVerify, DoorActivate, JobTerminal
  <2>3. CASE DrainSettle
    BY <2>1, <2>3 DEF DrainSettle
  <2>4. CASE EraseAwaiting \/ EraseJobs
    BY <2>1, <2>4 DEF EraseAwaiting, EraseJobs, CancelJobs, JobTerminal
  <2>5. \/ \E w \in Saves : DoorClaim(w) \/ DoorVerify(w) \/ DoorActivate(w)
        \/ DrainSettle \/ EraseAwaiting \/ EraseJobs
        \/ UNCHANGED job
    BY DEF ErasureNext, DoorStep, DoorStop, DoorRetry, FlushHeld, DrainStep, DrainCommit, EvictDrain,
           EraseStep, EraseEpisodes, EraseConverges, EraseFails, Tick, vars, others, DoorArrives,
           DoorPacket, DoorInsert, DoorStage, DoorHandoff, DoorAdd, DrainPick, DrainCheck, DrainClaim,
           DrainPreflight, DrainModel, DrainRecheck, DrainSkip, DrainEnter, DrainFenced, DrainBroken,
           DrainPut, DrainRetry, DrainFinalize, EraseEnumerates, EraseBarrier, ErasePackets, EraseRuns,
           EraseReset, EraseStaged, EraseSweep, EraseMarks, EraseSucceeds
  <2> QED BY <2>2, <2>3, <2>4, <2>5
<1>2. Stands => \A w \in Saves : job[w] \in JobTerminal => job'[w] = job[w]
  OBVIOUS
<1> QED BY <1>1, <1>2, Invariant, PTL DEF ErasureSpec, VerdictStable
=============================================================================
