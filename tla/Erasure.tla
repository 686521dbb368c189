------------------------------ MODULE Erasure -------------------------------
(***************************************************************************)
(* A confirmed erasure of one memory (bulkDeleteBySource in                *)
(* src/src/pipeline/cleanup.js) beside the saves it races with: the door   *)
(* that preserves a save (src/src/pipeline/ingest.js, episodes.js), the    *)
(* drain of the Durable Object that carries it (src/src/durable/           *)
(* user-memory.js) and the extraction run that publishes it                *)
(* (src/src/pipeline/extract.js, write.js).                                *)
(*                                                                         *)
(* A save is one message in one queue entry.  Where UserMemory follows the *)
(* chunk, the marker and the lease, this module follows what an erasure    *)
(* has to reach: every place that holds the text of a save, and every      *)
(* status that lets it be published.  A step is one D1 statement or batch, *)
(* or one transaction of the object's storage.                             *)
(***************************************************************************)
EXTENDS Integers, FiniteSets, FiniteSetsExt

CONSTANTS
  Saves,       \* accepted writes
  Nobody,      \* no save
  MaxClock,    \* the last moment of the clock; moments are 1 .. MaxClock
  MaxRuns,     \* extraction runs of one save, over its retries and rescues
  MaxErases,   \* confirmed erasures
  LostAnswers, \* may the answer of a committed batch be lost?
  MaxFaults    \* storage errors, evictions, requests cut off

ASSUME SavesAssumption == IsFiniteSet(Saves) /\ Nobody \notin Saves
ASSUME BoundAssumption ==
  /\ MaxClock \in Nat \ {0} /\ MaxRuns \in Nat \ {0}
  /\ MaxErases \in Nat /\ MaxFaults \in Nat /\ LostAnswers \in BOOLEAN

VARIABLES
  clock,
  accepted, \* source_packets.received_at, 0 before the request arrives
  text,     \* per save, the places that hold its words
  job,      \* memory_jobs.status
  run,      \* extraction_runs.status of each run
  entry,    \* the object's storage: queue entry or held rescue buffer
  marked,   \* the object's storage: handoff markers
  door, drain, eraser,
  barrier,  \* deletion_barriers.barrier_at
  erased,   \* history: the latest moment an erasure that succeeded covers
  faults

vars == <<clock, accepted, text, job, run, entry, marked, door, drain, eraser,
          barrier, erased, faults>>
others == <<clock, faults>>

RunIds == 1 .. MaxRuns
MaxPasses == 2 \* of the convergence loop
Places == {"packet", "episode", "staged", "graph"}
JobTerminal == {"enriched", "failed", "cancelled"}
RunStates == {"none", "running", "committing", "wrote", "skipped", "failed",
              "cancelled_by_delete", "deleted"}
Actions == {"complete", "rescue", "failed", "cancelled"}
Entry == [phase : {"queued", "settling", "held"}, run : RunIds, rescued : BOOLEAN,
          action : Actions \union {"none"}]
NoEntry == [phase |-> "none", run |-> 1, rescued |-> FALSE, action |-> "none"]
DoorPcs == {"new", "packet", "claim", "insert", "verify", "activate", "stage", "handoff", "add",
            "stopped", "over"}
DrainPcs == {"idle", "check", "claim", "preflight", "model", "recheck", "skip", "enter",
             "commit", "fenced", "broken", "put", "retry", "settle", "finalize"}
EraserPcs == {"idle", "barrier", "packets", "awaiting", "runs", "reset", "jobs", "staged",
              "episodes", "sweep", "converge", "mark", "receipts"}

ErasureTypeOK ==
  /\ clock \in 1 .. MaxClock
  /\ accepted \in [Saves -> 0 .. MaxClock]
  /\ text \in [Saves -> SUBSET Places]
  /\ job \in [Saves -> {"none", "awaiting_source", "queued"} \union JobTerminal]
  /\ run \in [Saves -> [RunIds -> RunStates]]
  /\ entry \in [Saves -> Entry \union {NoEntry}]
  /\ marked \subseteq Saves
  /\ door \in [Saves -> DoorPcs]
  /\ drain \in [pc : DrainPcs, save : Saves \union {Nobody}, entry : Entry \union {NoEntry}]
  /\ eraser \in [pc : EraserPcs, now : 0 .. MaxClock, runs : SUBSET (Saves \X RunIds),
                 ids : SUBSET Saves, passes : 0 .. MaxPasses, count : 0 .. MaxErases]
  /\ barrier \in 0 .. MaxClock
  /\ erased \in 0 .. MaxClock
  /\ faults \in 0 .. MaxFaults

DrainOff == [pc |-> "idle", save |-> Nobody, entry |-> NoEntry]

ErasureInit ==
  /\ clock = 1
  /\ accepted = [w \in Saves |-> 0]
  /\ text = [w \in Saves |-> {}]
  /\ job = [w \in Saves |-> "none"]
  /\ run = [w \in Saves |-> [r \in RunIds |-> "none"]]
  /\ entry = [w \in Saves |-> NoEntry]
  /\ marked = {}
  /\ door = [w \in Saves |-> "new"]
  /\ drain = DrainOff
  /\ eraser = [pc |-> "idle", now |-> 0, runs |-> {}, ids |-> {}, passes |-> 0, count |-> 0]
  /\ barrier = 0
  /\ erased = 0
  /\ faults = 0

(* A barrier covers what was accepted at its moment or before.             *)
CoveredBy(w, moment) == accepted[w] <= moment
Covered(w) == CoveredBy(w, barrier)

Holds(place, ws) == [w \in Saves |-> IF w \in ws THEN text[w] \union {place} ELSE text[w]]
Loses(place, ws) == [w \in Saves |-> IF w \in ws THEN text[w] \ {place} ELSE text[w]]

---------------------------------------------------------------------------
(* The door.                                                               *)

DoorGo(w, pc) == door' = [door EXCEPT ![w] = pc]

(* The request reads the clock, and stores its packet later.               *)
DoorArrives(w) ==
  /\ door[w] = "new"
  /\ accepted' = [accepted EXCEPT ![w] = clock]
  /\ DoorGo(w, "packet")
  /\ UNCHANGED <<text, job, run, entry, marked, drain, eraser, barrier, erased, others>>

(* storeSourcePacket, with the preview of the content; a replay keeps the  *)
(* row there is.                                                           *)
DoorPacket(w) ==
  /\ door[w] = "packet"
  /\ text' = Holds("packet", {w})
  /\ DoorGo(w, "claim")
  /\ UNCHANGED <<accepted, job, run, entry, marked, drain, eraser, barrier, erased, others>>

DoorClaim(w) ==
  /\ door[w] = "claim"
  /\ job' = [job EXCEPT ![w] = "awaiting_source"]
  /\ DoorGo(w, "insert")
  /\ UNCHANGED <<accepted, text, run, entry, marked, drain, eraser, barrier, erased, others>>

(* Mutant: the INSERT of the episodes does not look at the barrier.        *)
EpisodesUnfenced(w) == TRUE

EpisodesAllowed(w) == ~Covered(w)

(* writeSourceEpisodes: the rows are written unless a barrier covers the   *)
(* packet, then read back, then the barrier is read again.                 *)
DoorInsert(w) ==
  /\ door[w] = "insert"
  /\ text' = IF EpisodesAllowed(w) THEN Holds("episode", {w}) ELSE text
  /\ DoorGo(w, "verify")
  /\ UNCHANGED <<accepted, job, run, entry, marked, drain, eraser, barrier, erased, others>>

DoorVerify(w) ==
  /\ door[w] = "verify"
  /\ \/ /\ Covered(w)
        /\ job' = [job EXCEPT ![w] = IF @ = "awaiting_source" THEN "cancelled" ELSE @]
        /\ DoorGo(w, "over")
     \/ /\ ~Covered(w)
        /\ DoorGo(w, IF "episode" \in text[w] THEN "activate" ELSE "stopped")
        /\ UNCHANGED job
  /\ UNCHANGED <<accepted, text, run, entry, marked, drain, eraser, barrier, erased, others>>

DoorActivate(w) ==
  /\ door[w] = "activate"
  /\ job' = [job EXCEPT ![w] = IF @ = "awaiting_source" THEN "queued" ELSE @]
  /\ DoorGo(w, CASE job[w] = "awaiting_source" -> "stage"
                 [] job[w] = "cancelled"       -> "over"
                 [] OTHER                      -> "handoff")
  /\ UNCHANGED <<accepted, text, run, entry, marked, drain, eraser, barrier, erased, others>>

DoorStage(w) ==
  /\ door[w] = "stage"
  /\ text' = Holds("staged", {w})
  /\ DoorGo(w, "handoff")
  /\ UNCHANGED <<accepted, job, run, entry, marked, drain, eraser, barrier, erased, others>>

(* acceptMessagesOnce: a marker or an entry answers the call, a terminal   *)
(* row is a complete outcome, and otherwise the message is appended.       *)
DoorHandoff(w) ==
  /\ door[w] = "handoff"
  /\ IF w \in marked \/ entry[w] # NoEntry \/ job[w] \in JobTerminal
     THEN marked' = marked \union {w} /\ DoorGo(w, "over")
     ELSE DoorGo(w, "add") /\ UNCHANGED marked
  /\ UNCHANGED <<accepted, text, job, run, entry, drain, eraser, barrier, erased, others>>

FreshRuns(w) == {r \in RunIds : \A s \in RunIds : s >= r => run[w][s] = "none"}

Queued(r) == [phase |-> "queued", run |-> r, rescued |-> FALSE, action |-> "none"]

DoorAdd(w) ==
  /\ door[w] = "add"
  /\ FreshRuns(w) # {}
  /\ entry' = [entry EXCEPT ![w] = Queued(Min(FreshRuns(w)))]
  /\ marked' = marked \union {w}
  /\ DoorGo(w, "over")
  /\ UNCHANGED <<accepted, text, job, run, drain, eraser, barrier, erased, others>>

(* The request is cut off, and its sender may retry it: the lookup finds   *)
(* the row, and a barrier that covers the packet refuses the replay.       *)
DoorStop(w) ==
  /\ door[w] \notin {"new", "packet", "claim", "stopped", "over"}
  /\ faults < MaxFaults
  /\ faults' = faults + 1
  /\ DoorGo(w, "stopped")
  /\ UNCHANGED <<clock, accepted, text, job, run, entry, marked, drain, eraser, barrier, erased>>

DoorRetry(w) ==
  /\ door[w] = "stopped"
  /\ DoorGo(w, IF Covered(w) \/ job[w] \in JobTerminal THEN "over" ELSE "insert")
  /\ UNCHANGED <<accepted, text, job, run, entry, marked, drain, eraser, barrier, erased, others>>

DoorStep(w) ==
  \/ DoorArrives(w) \/ DoorPacket(w) \/ DoorClaim(w) \/ DoorInsert(w) \/ DoorVerify(w) \/ DoorActivate(w)
  \/ DoorStage(w) \/ DoorHandoff(w) \/ DoorAdd(w)

---------------------------------------------------------------------------
(* The drain and its extraction run.                                       *)

Mine   == drain.save
MyRun  == drain.entry.run
RunNow == run[Mine][MyRun]
SetRun(status) == run' = [run EXCEPT ![Mine][MyRun] = status]
DrainGo(pc) == drain' = [drain EXCEPT !.pc = pc]
DrainEnds(action) == drain' = [drain EXCEPT !.pc = "put", !.entry.action = action]

(* updateExtractionRun with expectStatus.                                  *)
Guarded(from, to) == IF RunNow = from THEN SetRun(to) ELSE UNCHANGED run

DrainPick ==
  /\ drain.pc = "idle"
  /\ \E w \in Saves :
       /\ entry[w].phase \in {"queued", "settling"}
       /\ drain' = [pc |-> IF entry[w].phase = "settling" THEN "settle" ELSE "check",
                    save |-> w, entry |-> entry[w]]
  /\ UNCHANGED <<accepted, text, job, run, entry, marked, door, eraser, barrier, erased, others>>

(* recovered_terminal: another path has settled the row.                   *)
DrainCheck ==
  /\ drain.pc = "check"
  /\ IF ~drain.entry.rescued /\ job[Mine] \in JobTerminal
     THEN /\ entry' = [entry EXCEPT ![Mine] = NoEntry]
          /\ marked' = marked \ {Mine}
          /\ drain' = DrainOff
     ELSE DrainGo("claim") /\ UNCHANGED <<entry, marked>>
  /\ UNCHANGED <<accepted, text, job, run, door, eraser, barrier, erased, others>>

(* extractionRunResult.  Runs left by a dead drain have outlived their     *)
(* time to live when the next one finds them.                              *)
RecoveredAction(status) ==
  CASE status = "wrote"   -> "complete"
    [] status = "skipped" -> "rescue"
    [] status \in {"cancelled_by_delete", "deleted"} -> "cancelled"
    [] OTHER -> "failed"

DrainClaim ==
  /\ drain.pc = "claim"
  /\ CASE RunNow = "none" -> SetRun("running") /\ DrainGo("preflight")
       [] RunNow \in {"running", "committing"} -> SetRun("failed") /\ DrainEnds("failed")
       [] RunNow = "failed" -> DrainGo("retry") /\ UNCHANGED run
       [] OTHER -> DrainEnds(RecoveredAction(RunNow)) /\ UNCHANGED run
  /\ UNCHANGED <<accepted, text, job, entry, marked, door, eraser, barrier, erased, others>>

DrainPreflight ==
  /\ drain.pc = "preflight"
  /\ IF Covered(Mine)
     THEN Guarded("running", "cancelled_by_delete") /\ DrainEnds("cancelled")
     ELSE DrainGo("model") /\ UNCHANGED run
  /\ UNCHANGED <<accepted, text, job, entry, marked, door, eraser, barrier, erased, others>>

(* The model answers with a plan, with nothing durable, or not at all.     *)
DrainModel ==
  /\ drain.pc = "model"
  /\ \/ DrainGo("enter") /\ UNCHANGED run
     \/ DrainGo("recheck") /\ UNCHANGED run
     \/ /\ Guarded("running", "failed")
        /\ IF RunNow = "cancelled_by_delete" THEN DrainEnds("cancelled") ELSE DrainGo("retry")
  /\ UNCHANGED <<accepted, text, job, entry, marked, door, eraser, barrier, erased, others>>

DrainRecheck ==
  /\ drain.pc = "recheck"
  /\ IF Covered(Mine)
     THEN Guarded("running", "cancelled_by_delete") /\ DrainEnds("cancelled")
     ELSE DrainGo("skip") /\ UNCHANGED run
  /\ UNCHANGED <<accepted, text, job, entry, marked, door, eraser, barrier, erased, others>>

(* Mutant: the blind finalization.                                         *)
DrainSkipBlindly ==
  /\ drain.pc = "skip"
  /\ SetRun("skipped")
  /\ DrainEnds("rescue")
  /\ UNCHANGED <<accepted, text, job, entry, marked, door, eraser, barrier, erased, others>>

DrainSkip ==
  /\ drain.pc = "skip"
  /\ Guarded("running", "skipped")
  /\ DrainEnds(IF RunNow = "cancelled_by_delete" THEN "cancelled" ELSE "rescue")
  /\ UNCHANGED <<accepted, text, job, entry, marked, door, eraser, barrier, erased, others>>

DrainEnter ==
  /\ drain.pc = "enter"
  /\ Guarded("running", "committing")
  /\ IF RunNow = "running" THEN DrainGo("commit") ELSE DrainEnds(RecoveredAction(RunNow))
  /\ UNCHANGED <<accepted, text, job, entry, marked, door, eraser, barrier, erased, others>>

(* Mutant: the commit is fenced by nothing.                                *)
FenceIgnored(w, r) == TRUE

(* fence_guard, in the batch of the graph: the run is still committing and *)
(* no barrier covers the acceptance of the save.                           *)
FenceHolds(w, r) == run[w][r] = "committing" /\ ~Covered(w)

Published ==
  /\ SetRun("wrote")
  /\ text' = Holds("graph", {Mine})

DrainCommit ==
  /\ drain.pc = "commit"
  /\ \/ FenceHolds(Mine, MyRun) /\ Published /\ DrainEnds("complete") /\ UNCHANGED faults
     \/ ~FenceHolds(Mine, MyRun) /\ DrainGo("fenced") /\ UNCHANGED <<run, text, faults>>
     \/ /\ faults < MaxFaults
        /\ faults' = faults + 1
        /\ DrainGo("broken")
        /\ \/ UNCHANGED <<run, text>>
           \/ LostAnswers /\ FenceHolds(Mine, MyRun) /\ Published
  /\ UNCHANGED <<clock, accepted, job, entry, marked, door, eraser, barrier, erased>>

DrainFenced ==
  /\ drain.pc = "fenced"
  /\ Guarded("committing", "cancelled_by_delete")
  /\ DrainEnds("cancelled")
  /\ UNCHANGED <<accepted, text, job, entry, marked, door, eraser, barrier, erased, others>>

(* db_write_failed is written whatever the run has become.                 *)
DrainBroken ==
  /\ drain.pc = "broken"
  /\ SetRun("failed")
  /\ DrainGo("retry")
  /\ UNCHANGED <<accepted, text, job, entry, marked, door, eraser, barrier, erased, others>>

(* persistExtractSettlement puts the drain's own copy of the entry.        *)
DrainPut ==
  /\ drain.pc = "put"
  /\ LET settling == [drain.entry EXCEPT !.phase = "settling"]
     IN  /\ entry' = [entry EXCEPT ![Mine] = settling]
         /\ drain' = [drain EXCEPT !.pc = "settle", !.entry = settling]
  /\ UNCHANGED <<accepted, text, job, run, marked, door, eraser, barrier, erased, others>>

(* Mutant: one attempt too many.                                           *)
RetriesLeftLate(r) == r <= MaxRuns

RetriesLeft(r) == r < MaxRuns

(* The next attempt has a run of its own; the last one is dead-lettered.   *)
DrainRetry ==
  /\ drain.pc = "retry"
  /\ \/ /\ RetriesLeft(MyRun)
        /\ entry' = [entry EXCEPT ![Mine] = [drain.entry EXCEPT !.run = @ + 1]]
        /\ drain' = DrainOff
     \/ ~RetriesLeft(MyRun) /\ DrainEnds("failed") /\ UNCHANGED entry
  /\ UNCHANGED <<accepted, text, job, run, marked, door, eraser, barrier, erased, others>>

Verdict(action) == CASE action \in {"complete", "rescue"} -> "enriched"
                     [] action = "failed"                 -> "failed"
                     [] OTHER                             -> "cancelled"

(* settleMemoryJobs: a terminal row is left alone.                         *)
DrainSettle ==
  /\ drain.pc = "settle"
  /\ job' = [job EXCEPT ![Mine] = IF @ \in JobTerminal THEN @ ELSE Verdict(drain.entry.action)]
  /\ text' = Loses("staged", {Mine})
  /\ DrainGo("finalize")
  /\ UNCHANGED <<accepted, run, entry, marked, door, eraser, barrier, erased, others>>

Rescues(e) == e.action = "rescue" /\ ~e.rescued

(* finalizeExtractQueueState: a first no-write goes back to the held chunk *)
(* from the drain's own copy.                                              *)
DrainFinalize ==
  /\ drain.pc = "finalize"
  /\ entry' = [entry EXCEPT ![Mine] =
                  IF Rescues(drain.entry)
                  THEN [phase |-> "held", run |-> MyRun, rescued |-> TRUE, action |-> "none"]
                  ELSE NoEntry]
  /\ marked' = marked \ {Mine}
  /\ drain' = DrainOff
  /\ UNCHANGED <<accepted, text, job, run, door, eraser, barrier, erased, others>>

DrainStep ==
  \/ DrainPick \/ DrainCheck \/ DrainClaim \/ DrainPreflight \/ DrainModel \/ DrainRecheck
  \/ DrainSkip \/ DrainEnter \/ DrainFenced \/ DrainBroken \/ DrainPut \/ DrainRetry
  \/ DrainSettle \/ DrainFinalize

(* A later write, a flush or the idle alarm fires the held chunk.          *)
FlushHeld(w) ==
  /\ entry[w].phase = "held"
  /\ FreshRuns(w) # {}
  /\ entry' = [entry EXCEPT ![w].phase = "queued", ![w].run = Min(FreshRuns(w))]
  /\ UNCHANGED <<accepted, text, job, run, marked, door, drain, eraser, barrier, erased, others>>

(* The object is evicted; its storage remains.                             *)
EvictDrain ==
  /\ drain.pc # "idle"
  /\ faults < MaxFaults
  /\ faults' = faults + 1
  /\ drain' = DrainOff
  /\ UNCHANGED <<clock, accepted, text, job, run, entry, marked, door, eraser, barrier, erased>>

---------------------------------------------------------------------------
(* The erasure, in the order of bulkDeleteBySource.                        *)

EraserGo(pc) == eraser' = [eraser EXCEPT !.pc = pc]

Live == {w \in Saves : "graph" \in text[w]}

(* The runs that its last step will mark, and what is live.                *)
EraseEnumerates ==
  /\ eraser.pc = "idle"
  /\ eraser.count < MaxErases
  /\ eraser' = [pc |-> "barrier", now |-> 0, passes |-> 0,
                count |-> eraser.count + 1, ids |-> Live,
                runs |-> {x \in Saves \X RunIds :
                            run[x[1]][x[2]] \notin {"none", "cancelled_by_delete"}}]
  /\ UNCHANGED <<accepted, text, job, run, entry, marked, door, drain, barrier, erased, others>>

EraseBarrier ==
  /\ eraser.pc = "barrier"
  /\ barrier' = Max({barrier, clock})
  /\ eraser' = [eraser EXCEPT !.pc = "packets", !.now = clock]
  /\ UNCHANGED <<accepted, text, job, run, entry, marked, door, drain, erased, others>>

Minimized == {w \in Saves : CoveredBy(w, eraser.now)}

ErasePackets ==
  /\ eraser.pc = "packets"
  /\ text' = Loses("packet", Minimized)
  /\ EraserGo("awaiting")
  /\ UNCHANGED <<accepted, job, run, entry, marked, door, drain, barrier, erased, others>>

(* Mutant: the rows are closed whatever their status.                      *)
CancelAllJobs(status) ==
  job' = [w \in Saves |-> IF job[w] = "none" THEN "none" ELSE "cancelled"]

CancelJobs(status) ==
  job' = [w \in Saves |-> IF job[w] = status THEN "cancelled" ELSE job[w]]

EraseAwaiting ==
  /\ eraser.pc = "awaiting"
  /\ CancelJobs("awaiting_source")
  /\ EraserGo("runs")
  /\ UNCHANGED <<accepted, text, run, entry, marked, door, drain, barrier, erased, others>>

EraseRuns ==
  /\ eraser.pc = "runs"
  /\ run' = [w \in Saves |-> [r \in RunIds |->
               IF run[w][r] \in {"running", "committing"} THEN "cancelled_by_delete" ELSE run[w][r]]]
  /\ EraserGo("reset")
  /\ UNCHANGED <<accepted, text, job, entry, marked, door, drain, barrier, erased, others>>

(* resetAll clears the storage of the object.  A drain that waits for D1   *)
(* or for the model keeps its own copy of the entry.                       *)
EraseReset ==
  /\ eraser.pc = "reset"
  /\ entry' = [w \in Saves |-> NoEntry]
  /\ marked' = {}
  /\ EraserGo("jobs")
  /\ UNCHANGED <<accepted, text, job, run, door, drain, barrier, erased, others>>

EraseJobs ==
  /\ eraser.pc = "jobs"
  /\ CancelJobs("queued")
  /\ EraserGo("staged")
  /\ UNCHANGED <<accepted, text, run, entry, marked, door, drain, barrier, erased, others>>

EraseStaged ==
  /\ eraser.pc = "staged"
  /\ text' = Loses("staged", Saves)
  /\ EraserGo("episodes")
  /\ UNCHANGED <<accepted, job, run, entry, marked, door, drain, barrier, erased, others>>

(* deleteSourceEpisodes answers a storage error as if it had deleted none. *)
EraseEpisodes ==
  /\ eraser.pc = "episodes"
  /\ EraserGo("sweep")
  /\ \/ text' = Loses("episode", Saves) /\ UNCHANGED faults
     \/ faults < MaxFaults /\ faults' = faults + 1 /\ UNCHANGED text
  /\ UNCHANGED <<clock, accepted, job, run, entry, marked, door, drain, barrier, erased>>

EraseSweep ==
  /\ eraser.pc = "sweep"
  /\ text' = Loses("graph", eraser.ids)
  /\ EraserGo(IF eraser.passes < MaxPasses THEN "converge" ELSE "mark")
  /\ UNCHANGED <<accepted, job, run, entry, marked, door, drain, barrier, erased, others>>

EpisodesLeft == {w \in Saves : "episode" \in text[w]}

(* What is still live is swept again.  countSourceEpisodes answers a       *)
(* storage error with none.                                                *)
EraseConverges ==
  /\ eraser.pc = "converge"
  /\ \E left \in {EpisodesLeft, {}} :
       /\ IF left = EpisodesLeft THEN UNCHANGED faults
                                 ELSE faults < MaxFaults /\ faults' = faults + 1
       /\ eraser' = [eraser EXCEPT !.passes = @ + 1, !.ids = Live,
                       !.pc = IF left # {} THEN "episodes"
                              ELSE IF Live # {} THEN "sweep" ELSE "mark"]
  /\ UNCHANGED <<clock, accepted, text, job, run, entry, marked, door, drain, barrier, erased>>

EraseMarks ==
  /\ eraser.pc = "mark"
  /\ run' = [w \in Saves |-> [r \in RunIds |->
               IF <<w, r>> \in eraser.runs
                  /\ run[w][r] \notin {"running", "committing", "cancelled_by_delete"}
               THEN "deleted" ELSE run[w][r]]]
  /\ EraserGo("receipts")
  /\ UNCHANGED <<accepted, text, job, entry, marked, door, drain, barrier, erased, others>>

(* The labels in the receipts are not followed here.                       *)
EraseSucceeds ==
  /\ eraser.pc = "receipts"
  /\ erased' = Max({erased, eraser.now})
  /\ eraser' = [eraser EXCEPT !.pc = "idle", !.now = 0, !.runs = {}, !.ids = {}, !.passes = 0]
  /\ UNCHANGED <<accepted, text, job, run, entry, marked, door, drain, barrier, others>>

(* Any other error ends the request; what it has done remains.             *)
EraseFails ==
  /\ eraser.pc # "idle"
  /\ faults < MaxFaults
  /\ faults' = faults + 1
  /\ eraser' = [eraser EXCEPT !.pc = "idle", !.now = 0, !.runs = {}, !.ids = {}, !.passes = 0]
  /\ UNCHANGED <<clock, accepted, text, job, run, entry, marked, door, drain, barrier, erased>>

EraseStep ==
  \/ EraseEnumerates \/ EraseBarrier \/ ErasePackets \/ EraseAwaiting \/ EraseRuns
  \/ EraseReset \/ EraseJobs \/ EraseStaged \/ EraseSweep \/ EraseMarks \/ EraseSucceeds

---------------------------------------------------------------------------
Tick ==
  /\ clock < MaxClock
  /\ clock' = clock + 1
  /\ UNCHANGED <<accepted, text, job, run, entry, marked, door, drain, eraser, barrier, erased,
                 faults>>

ErasureNext ==
  \/ \E w \in Saves : DoorStep(w) \/ DoorStop(w) \/ DoorRetry(w) \/ FlushHeld(w)
  \/ DrainStep \/ DrainCommit \/ EvictDrain
  \/ EraseStep \/ EraseEpisodes \/ EraseConverges \/ EraseFails
  \/ Tick

ErasureSpec == ErasureInit /\ [][ErasureNext]_vars
---------------------------------------------------------------------------
(* An erasure that has answered "done" is final: nothing accepted by its   *)
(* moment is in the graph or among the source episodes, then or ever after *)
(* (the barrier, the fences of the commit and of the episodes' INSERT, and *)
(* the convergence loop of bulkDeleteBySource).                            *)
ErasedStaysErased ==
  \A w \in Saves :
    accepted[w] \in 1 .. erased => text[w] \cap {"graph", "episode"} = {}

(* A run that an erasure has cancelled does not come back to life: it is   *)
(* not taken up again, and it ends neither as written nor as looked at     *)
(* (the guarded transitions of updateExtractionRun).                       *)
NoResurrection ==
  [][\A w \in Saves : \A r \in RunIds :
       run[w][r] = "cancelled_by_delete"
         => run'[w][r] \notin {"running", "committing", "wrote", "skipped"}]_vars

(* A verdict that a save has got stands, whatever the erasure, the door    *)
(* and the drain still do about it.                                        *)
VerdictStable ==
  [][\A w \in Saves : job[w] \in JobTerminal => job'[w] = job[w]]_vars

(* "remove every plaintext preview and provenance snippet accepted at or   *)
(* before this barrier" (cleanup.js): no packet keeps its preview.         *)
NoShadowArchive ==
  \A w \in Saves : accepted[w] \in 1 .. erased => "packet" \notin text[w]

(* "Content accepted before this barrier must not sit there awaiting       *)
(* re-extraction" (cleanup.js): after an erasure the object holds none.    *)
HeldWorkCleared ==
  \A w \in Saves : accepted[w] \in 1 .. erased => entry[w].phase # "held"

(* "Post-barrier saves mint new jobs, untouched" (cleanup.js): only what a *)
(* barrier covers is cancelled.                                            *)
LaterSavesUntouched ==
  \A w \in Saves : job[w] = "cancelled" => Covered(w)
=============================================================================
