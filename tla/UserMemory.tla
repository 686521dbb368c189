---------------------------- MODULE UserMemory ----------------------------
(***************************************************************************)
(* The per-user Durable Object (src/src/durable/user-memory.js): the held  *)
(* chunk, the durable queue of extraction entries, the handoff markers,    *)
(* the storage-backed drain lease and the single alarm, together with the  *)
(* D1 rows its drains write: memory_jobs (module MemoryJobs), the          *)
(* extraction_runs claim and the webhook outbox.                           *)
(*                                                                         *)
(* Grain.  Storage operations of a Durable Object close its input gate, so *)
(* a stretch of code between two awaits of D1, of the model or of another  *)
(* service is one action; every such await is a point where other calls,   *)
(* other drains, the door and a crash interleave.                          *)
(***************************************************************************)
EXTENDS MemoryJobs

CONSTANTS
  Contexts,       \* extraction contexts (conversation within a project)
  Ctx,            \* the context of a job's packet
  Noise,          \* messages classifyMessage calls noise or utility
  FlushJobs,      \* jobs whose request carries flush
  Drains,         \* concurrent drain invocations
  AlarmDrain,     \* the one that alarm() runs: alarm handlers never overlap
  Outcomes,       \* what a model call may end in
  SlowDrains,     \* may an entry take longer than the lease (LEASE_MS)?
  MaxAttempts,    \* MAX_ATTEMPTS
  MaxCapacity,    \* MAX_CAPACITY_ATTEMPTS
  MaxRescues,     \* MAX_NO_WRITE_RESCUES
  MaxJobsPerDrain,\* MAX_JOBS_PER_DRAIN (alarm) and the door's maxJobs
  MaxSeq,         \* bound: queue keys ever minted
  MaxFaults       \* bound: crashes and failed D1 calls

ASSUME CtxAssumption   == Ctx \in [Jobs -> Contexts]
ASSUME DrainAssumption == AlarmDrain \in Drains /\ "none" \notin Drains
ASSUME BoundAssumption ==
  /\ MaxAttempts \in Nat \ {0} /\ MaxCapacity \in Nat \ {0}
  /\ MaxRescues \in Nat \ {0} /\ MaxSeq \in Nat /\ MaxFaults \in Nat
  /\ MaxJobsPerDrain \in Nat /\ SlowDrains \in BOOLEAN
ASSUME OutcomeAssumption ==
  Outcomes \subseteq {"wrote", "no_write", "llm_failed", "capacity", "provider_terminal"}

VARIABLES
  job,         \* D1: memory_jobs
  run,         \* D1: extraction_runs, by queue key and attempt identity
  looked,      \* history: <<context, message>> the model has answered for
  announced,   \* D1: job lifecycle events in the webhook outbox
  held,        \* DO: the held chunk
  idle,        \* DO: now - lastTs >= idleMs for the held messages
  seen,        \* DO: identities finalized, per context
  checkpoint,  \* DO: checkpointIdentity, per context
  queue,       \* DO: q:* entries
  qseq,        \* DO: qseq
  marker,      \* DO: handoff:v1:* markers
  lease,       \* DO: lease
  alarm,       \* DO: is the alarm set?
  call,        \* volatile: acceptMessagesOnce executions, by handoff
  drain,       \* volatile: drain executions
  faults,      \* bound: faults so far
  cut          \* history: addMessages was cut off since the last wake check

d1Vars    == <<job, run, looked, announced>>
chunkVars == <<held, idle, seen, checkpoint>>
queueVars == <<queue, qseq>>
umVars    == <<job, run, looked, announced, held, idle, seen, checkpoint, queue, qseq,
               marker, lease, alarm, call, drain, faults, cut>>

None  == "none"
NoMsg == -1
Keys == 1 .. MaxSeq
(* A handoff id is the job id, or job:repair:generation. *)
Handoffs == Jobs \X Generations

(* A held message; rescue > 0 is a settled rescue buffer (_settled). *)
Held == [job : Jobs, msg : Msgs, gen : Generations, rescue : 0 .. MaxRescues]

Verdicts == {"none", "complete", "rescue", "failed"}

(* verdict # "none" is phase settlement_pending; late is runAfter > now. *)
Entry == [job : Jobs, msg : Msgs, gen : Generations, rescue : 0 .. MaxRescues,
          attempts : 0 .. MaxAttempts, cap : 0 .. MaxCapacity,
          verdict : Verdicts, late : BOOLEAN]
NoEntry == [verdict |-> "absent"]

AttemptIds == (0 .. MaxAttempts - 1) \X (0 .. MaxCapacity - 1)
(* aged is a running, stalled a committing run past its time to live; the    *)
(* failures are status failed with the kind that its error names.            *)
RunStates  == {"none", "running", "aged", "committing", "stalled", "wrote", "skipped",
               "llm_failed", "capacity", "provider_terminal", "interrupted", "db_failed"}
Inferring  == {"running", "aged"}
Committing == {"committing", "stalled"}

(* What the marker records of the call's result: did it hold any message, and *)
(* which messages it finalized at the door. Acceptance forgets both.          *)
Marker == [state : {"none", "pending", "applied", "accepted"},
           holds : BOOLEAN, settled : SUBSET Msgs]
NoMarker == [state |-> "none", holds |-> FALSE, settled |-> {}]
Pending  == [state |-> "pending", holds |-> FALSE, settled |-> {}]
Accepted == [state |-> "accepted", holds |-> FALSE, settled |-> {}]
Applied(holds, settled) == [state |-> "applied", holds |-> holds, settled |-> settled]

CallStates == {"off", "gen", "prior", "add", "settle", "own", "ok", "err"}

DrainPcs == {"off", "pick", "read", "check", "claim", "model", "commit", "broken", "put",
             "bookkeep", "settle", "verify", "finalize", "superseded"}
DrainOuts == {None, "wrote", "no_write", "llm_failed", "capacity", "provider_terminal",
              "interrupted", "db_write_failed", "cancelled"}
DrainRec == [pc : DrainPcs, key : Keys \union {0}, e : Entry \union {NoEntry},
             out : DrainOuts, attempted : SUBSET Keys]
DrainOff == [pc |-> "off", key |-> 0, e |-> NoEntry, out |-> None, attempted |-> {}]

---------------------------------------------------------------------------
(* Helpers over the Durable Object's storage.                              *)

Unsettled(chunk) == {h \in chunk : h.rescue = 0}

HasWork(chunk, q) == Unsettled(chunk) # {} \/ \E k \in Keys : q[k] # NoEntry

(* A chunk holds one extraction context at a time. *)
OtherContext(chunk, c) == \E h \in chunk : Ctx[h.job] # c

EntryOf(h) ==
  [job |-> h.job, msg |-> h.msg, gen |-> h.gen, rescue |-> h.rescue,
   attempts |-> 0, cap |-> 0, verdict |-> "none", late |-> FALSE]

(* A chunk never holds one message identity twice, so its number ranks it. *)
Rank(h, chunk) == Cardinality({x \in chunk : x.msg <= h.msg})

(* Mutant: the next sequence number is the last one used. *)
EnqueueOverLast(q, n, chunk) ==
  [k \in Keys |-> IF \E h \in chunk : k = n + Rank(h, chunk) - 1
                  THEN EntryOf(CHOOSE h \in chunk : k = n + Rank(h, chunk) - 1)
                  ELSE q[k]]

(* #enqueueChunkInTransaction: the whole chunk becomes queue entries. *)
Enqueue(q, n, chunk) ==
  [k \in Keys |-> IF \E h \in chunk : k = n + Rank(h, chunk)
                  THEN EntryOf(CHOOSE h \in chunk : k = n + Rank(h, chunk))
                  ELSE q[k]]

(* Mutant: a chunk that fires stays held. *)
FireChunkTwice(fire, chunk, q, n, same) ==
  /\ n + Cardinality(chunk) <= MaxSeq
  /\ queue' = IF fire THEN Enqueue(q, n, chunk) ELSE q
  /\ qseq' = IF fire THEN n + Cardinality(chunk) ELSE n
  /\ held' = chunk
  /\ idle' = (idle /\ same /\ Unsettled(held') # {})

(* The chunk either fires into the queue q, whose last key is n, or is held, *)
(* idle as long as nothing joined it.                                        *)
FireChunk(fire, chunk, q, n, same) ==
  /\ IF fire
     THEN /\ n + Cardinality(chunk) <= MaxSeq
          /\ queue' = Enqueue(q, n, chunk) /\ qseq' = n + Cardinality(chunk) /\ held' = {}
     ELSE queue' = q /\ qseq' = n /\ held' = chunk
  /\ idle' = (idle /\ same /\ Unsettled(held') # {})

(* Mutants: ownership forgets the queue; ownership ignores the generation. *)
OwnsHeldOnly(chunk, q, j, g) == \E h \in chunk : h.job = j /\ h.gen = g

OwnsAnyGeneration(chunk, q, j, g) ==
  \/ \E h \in chunk : h.job = j
  \/ \E k \in Keys : q[k] # NoEntry /\ q[k].job = j

(* #handoffOwnership: held or queued work of exactly this generation. *)
Owns(chunk, q, j, g) ==
  \/ \E h \in chunk : h.job = j /\ h.gen = g
  \/ \E k \in Keys : q[k] # NoEntry /\ q[k].job = j /\ q[k].gen = g

(* #terminalHandoffMarkerKeys: the entry's own handoff and the job's first. *)
WithoutMarkers(m, e) ==
  [m EXCEPT ![<<e.job, e.gen>>] = NoMarker, ![<<e.job, 0>>] = NoMarker]

(* Mutant: the wake guarantee looks at the held chunk only. *)
GuaranteeWakeForHeld(chunk, q) == alarm' = (Unsettled(chunk) # {}) /\ cut' = FALSE

(* #guaranteeWake and #armAlarm, with wake-up times abstracted away. *)
GuaranteeWake(chunk, q) == alarm' = HasWork(chunk, q) /\ cut' = FALSE

Fault == faults < MaxFaults /\ faults' = faults + 1

(* #announceJobTransitions of a settlement at the door, whose emit failure is *)
(* swallowed: only the row's first terminal state is announced.               *)
AnnounceDoor(j, row) ==
  IF Terminal(row) /\ ~Terminal(job[j])
  THEN \/ announced' = announced \union {<<j, row.status>>} /\ UNCHANGED faults
       \/ Fault /\ UNCHANGED announced
  ELSE UNCHANGED <<announced, faults>>

---------------------------------------------------------------------------
(* acceptMessagesOnce, one execution for each handoff <<job, generation>>. *)

Become(h, pc) == call' = [call EXCEPT ![h] = pc]

(* The marker transaction; a concurrent exact call joins (#handoffsInFlight). *)
HandoffStart(h) ==
  /\ call[h] = "off"
  /\ \/ marker[h].state = "accepted" /\ Become(h, "ok") /\ UNCHANGED marker
     \/ marker[h].state = "applied" /\ Become(h, "settle") /\ UNCHANGED marker
     \/ /\ marker[h].state \notin {"accepted", "applied"}
        /\ Become(h, "gen")
        /\ marker' = [marker EXCEPT ![h] = Pending]
  /\ UNCHANGED <<d1Vars, chunkVars, queueVars, lease, alarm, drain, faults, cut>>

(* #assertHandoffRepairGeneration, #dropSupersededHeldOwnership, and then    *)
(* #recoverOwnedHandoff for work that an interrupted call already committed. *)
HandoffGeneration(h) ==
  LET j == h[1]
      g == h[2]
      kept == {x \in held : ~(x.job = j /\ x.gen < g)}
      mine == \E x \in kept : x.job = j /\ x.gen = g
      owned == Owns(kept, queue, j, g)
  IN  /\ call[h] = "gen"
      /\ \/ /\ job[j].gen # g
            /\ Become(h, "err")
            /\ UNCHANGED <<held, idle, queueVars, marker, alarm, cut>>
         \/ /\ job[j].gen = g /\ ~owned
            /\ held' = kept /\ idle' = (idle /\ Unsettled(kept) # {})
            /\ Become(h, "prior")
            /\ UNCHANGED <<queueVars, marker, alarm, cut>>
         \/ /\ job[j].gen = g /\ owned
            /\ \E fire \in BOOLEAN :
                 /\ fire => mine /\ Unsettled(kept) # {}
                 /\ (j \in FlushJobs /\ mine /\ Unsettled(kept) # {}) => fire
                 /\ FireChunk(fire, kept, queue, qseq, TRUE)
            /\ marker' = [marker EXCEPT ![h] = Applied(TRUE, {})]
            /\ Become(h, "settle")
            /\ GuaranteeWake(held', queue')
      /\ UNCHANGED <<d1Vars, seen, checkpoint, lease, drain, faults>>

(* A terminal verdict in D1 with no local ownership is a complete outcome. *)
HandoffPrior(h) ==
  /\ call[h] = "prior"
  /\ IF Terminal(job[h[1]])
     THEN /\ marker' = [marker EXCEPT ![h] = Applied(MsgsOf[h[1]] \ Noise # {}, {})]
          /\ Become(h, "settle")
     ELSE Become(h, "add") /\ UNCHANGED marker
  /\ UNCHANGED <<d1Vars, chunkVars, queueVars, lease, alarm, drain, faults, cut>>

(* What the loop of addMessages decides about a packet, given the chunk it   *)
(* joins: duplicates, noise, and the messages it holds. The checkpoint       *)
(* compared is the one loaded: noise that advances it inside the same packet *)
(* enters seen as well.                                                      *)
Duplicates(j, g, chunk) ==
  {m \in MsgsOf[j] : \/ \E x \in chunk : x.msg = m
                     \/ m = checkpoint[Ctx[j]]
                     \/ g = 0 /\ m \in seen[Ctx[j]]}

(* A copy already held for this very job is not settled a second time. *)
HeldBySelf(j, m, chunk) == \E x \in chunk : x.msg = m /\ x.job = j

(* The accept state of a packet is stored once for each job, so holding a    *)
(* message restamps the copies of the same job that are held already.        *)
Stamp(x, j, g) == IF x.job = j /\ x.rescue = 0 THEN [x EXCEPT !.gen = g] ELSE x

(* addMessages, under blockConcurrencyWhile: the chunk of another context    *)
(* fires first; then one local transaction holds or fires the packet and     *)
(* turns the marker applied.                                                 *)
AddCommit(h) ==
  LET j == h[1]
      g == h[2]
      c == Ctx[j]
      switch == OtherContext(held, c)
      q1 == IF switch THEN Enqueue(queue, qseq, held) ELSE queue
      n1 == IF switch THEN qseq + Cardinality(held) ELSE qseq
      chunk == IF switch THEN {} ELSE held
      dups == Duplicates(j, g, chunk)
      noise == (MsgsOf[j] \ dups) \intersect Noise
      fresh == (MsgsOf[j] \ dups) \ Noise
      passed == {n \in noise : chunk = {} /\ \A m \in fresh : m > n}
      chunk1 == (IF fresh = {} THEN chunk ELSE {Stamp(x, j, g) : x \in chunk})
                \union {[job |-> j, msg |-> m, gen |-> g, rescue |-> 0] : m \in fresh}
      settled == noise \union {m \in dups : ~HeldBySelf(j, m, chunk)}
  IN  /\ call[h] = "add"
      /\ n1 <= MaxSeq
      /\ IF marker[h].state # "pending"
         THEN /\ FireChunk(FALSE, chunk, q1, n1, ~switch)
              /\ UNCHANGED <<seen, checkpoint, marker>>
         ELSE /\ \E fire \in BOOLEAN :
                   /\ fire => Unsettled(chunk1) # {}
                   /\ (j \in FlushJobs /\ Unsettled(chunk1) # {}) => fire
                   /\ FireChunk(fire, chunk1, q1, n1, fresh = {} /\ ~switch)
              /\ seen' = [seen EXCEPT ![c] = @ \union passed]
              /\ \E last \in IF passed = {} THEN {checkpoint[c]}
                            ELSE {n \in passed : \A m \in passed : m <= n} :
                   checkpoint' = [checkpoint EXCEPT ![c] = last]
              /\ marker' = [marker EXCEPT ![h] = Applied(fresh # {}, settled)]

(* Then the settlement of what was finalized at the door, whose failure is   *)
(* swallowed, and the wake guarantee.                                        *)
HandoffAdd(h) ==
  LET j == h[1]
      settled == marker'[h].settled
      row == IF settled = {} THEN job[j] ELSE SettleDone(job[j], h[2], settled)
  IN  /\ marker[h].state = "pending"
      /\ AddCommit(h)
      /\ \/ job' = [job EXCEPT ![j] = row] /\ AnnounceDoor(j, row)
         \/ settled # {} /\ Fault /\ UNCHANGED <<job, announced>>
      /\ Become(h, "settle")
      /\ GuaranteeWake(held', queue')
      /\ UNCHANGED <<run, looked, lease, drain>>

(* #finishAppliedHandoff, first half: the strict settlement of what the    *)
(* marker says was finalized at the door.                                  *)
HandoffSettle(h) ==
  LET row == IF marker[h].settled = {} THEN job[h[1]]
             ELSE SettleDone(job[h[1]], h[2], marker[h].settled)
  IN  /\ call[h] = "settle"
      /\ job' = [job EXCEPT ![h[1]] = row]
      /\ AnnounceDoor(h[1], row)
      /\ Become(h, "own")
      /\ UNCHANGED <<run, looked, chunkVars, queueVars, marker, lease, alarm, drain, cut>>

(* Second half: acknowledge only with durable evidence, which is local       *)
(* ownership or a terminal verdict; a call that held nothing settles the     *)
(* whole row first. The marker is deleted once D1 is terminal.               *)
HandoffFinish(h) ==
  LET j == h[1]
      g == h[2]
      row == IF marker[h].holds THEN job[j] ELSE SettleDone(job[j], g, job[j].remaining)
  IN  /\ call[h] = "own"
      /\ \/ /\ Owns(held, queue, j, g)
            /\ marker' = [marker EXCEPT ![h] = Accepted]
            /\ Become(h, "ok")
            /\ GuaranteeWake(held, queue)
            /\ UNCHANGED <<job, announced, faults>>
         \/ /\ ~Owns(held, queue, j, g)
            /\ job' = [job EXCEPT ![j] = row]
            /\ AnnounceDoor(j, row)
            /\ IF Terminal(row)
               THEN marker' = [marker EXCEPT ![h] = NoMarker] /\ Become(h, "ok") /\ GuaranteeWake(held, queue)
               ELSE Become(h, "err") /\ UNCHANGED <<marker, alarm, cut>>
      /\ UNCHANGED <<run, looked, chunkVars, queueVars, lease, drain>>

(* A failed D1 call rejects the handoff; the client keeps its copy. *)
HandoffFault(h) ==
  /\ call[h] \in {"gen", "prior", "settle", "own"}
  /\ Fault
  /\ Become(h, "err")
  /\ UNCHANGED <<d1Vars, chunkVars, queueVars, marker, lease, alarm, drain, cut>>

HandoffStep(h) ==
  \/ HandoffGeneration(h) \/ HandoffPrior(h) \/ HandoffAdd(h)
  \/ HandoffSettle(h) \/ HandoffFinish(h)

---------------------------------------------------------------------------
(* drain: the only code that processes queue entries.                      *)

Goto(d, pc) == drain' = [drain EXCEPT ![d].pc = pc]

DrainAt(d, pc, e, out) ==
  [pc |-> pc, key |-> drain[d].key, e |-> e, out |-> out, attempted |-> drain[d].attempted]

(* Back to the head of the loop, with the entry of this turn forgotten. *)
NextTurn(d) ==
  drain' = [drain EXCEPT ![d] =
    [pc |-> "pick", key |-> 0, e |-> NoEntry, out |-> None, attempted |-> drain[d].attempted]]

LeaseLive == lease.holder # None /\ lease.live

(* Mutant: the lease is taken without looking at its holder. *)
AcquireLeaseBlindly(d) ==
  /\ lease' = [holder |-> d, live |-> TRUE]
  /\ FireChunk(idle, held, queue, qseq, TRUE)
  /\ Goto(d, "pick")

(* #acquireLease with the lease free or expired, then the idle fire of a     *)
(* held chunk.                                                               *)
AcquireLease(d) ==
  /\ ~LeaseLive
  /\ lease' = [holder |-> d, live |-> TRUE]
  /\ FireChunk(idle, held, queue, qseq, TRUE)
  /\ Goto(d, "pick")

(* A drain that finds the lease held arms the alarm and returns. *)
LeaseHeld ==
  /\ LeaseLive
  /\ alarm' = TRUE /\ cut' = FALSE
  /\ UNCHANGED <<held, idle, queueVars, lease, drain>>

(* A drain called inline, by the door that handed work off. *)
DrainStart(d) ==
  /\ d # AlarmDrain /\ drain[d].pc = "off"
  /\ LeaseHeld \/ (AcquireLease(d) /\ UNCHANGED <<alarm, cut>>)
  /\ UNCHANGED <<d1Vars, seen, checkpoint, marker, call, faults>>

(* alarm(): the platform consumes the alarm and runs one handler at a time. *)
AlarmFires ==
  /\ alarm /\ drain[AlarmDrain].pc = "off"
  /\ LeaseHeld \/ (AcquireLease(AlarmDrain) /\ alarm' = FALSE /\ UNCHANGED cut)
  /\ UNCHANGED <<d1Vars, seen, checkpoint, marker, call, faults>>

(* #nextEntry and #refreshLease: the oldest due entry this drain has not tried. *)
Runnable(d, k) ==
  /\ queue[k] # NoEntry /\ ~queue[k].late /\ k \notin drain[d].attempted

DrainPick(d) ==
  /\ drain[d].pc = "pick"
  /\ Cardinality(drain[d].attempted) < MaxJobsPerDrain
  /\ \E k \in Keys :
       /\ Runnable(d, k)
       /\ \A i \in Keys : Runnable(d, i) => k <= i
       /\ drain' = [drain EXCEPT ![d] = [pc |-> "read", key |-> k, e |-> queue[k], out |-> None,
                                         attempted |-> drain[d].attempted \union {k}]]
  /\ lease' = [holder |-> d, live |-> TRUE]
  /\ UNCHANGED <<d1Vars, chunkVars, queueVars, marker, alarm, call, faults, cut>>

(* The finally block: #releaseLease and #guaranteeWake. *)
DrainExit(d) ==
  /\ lease' = IF lease.holder \in {d, None} THEN [holder |-> None, live |-> FALSE] ELSE lease
  /\ drain' = [drain EXCEPT ![d] = DrainOff]
  /\ GuaranteeWake(held, queue)

DrainDone(d) ==
  /\ drain[d].pc = "pick"
  /\ \/ Cardinality(drain[d].attempted) >= MaxJobsPerDrain
     \/ \A k \in Keys : ~Runnable(d, k)
  /\ DrainExit(d)
  /\ UNCHANGED <<d1Vars, chunkVars, queueVars, marker, call, faults>>

(* A D1 failure that escapes the entry aborts the drain, entry untouched. *)
DrainFault(d) ==
  /\ drain[d].pc \in {"read", "check", "put", "superseded"}
  /\ Fault
  /\ DrainExit(d)
  /\ UNCHANGED <<d1Vars, chunkVars, queueVars, marker, call>>

DeleteEntry(k, e) ==
  /\ queue' = [queue EXCEPT ![k] = NoEntry]
  /\ marker' = WithoutMarkers(marker, e)
  /\ UNCHANGED qseq

(* #extractEntryRepairState: is the job of this entry at a newer generation? *)
DrainRead(d) ==
  LET e == drain[d].e
      superseded == job[e.job].gen > e.gen
  IN  /\ drain[d].pc = "read"
      /\ \/ /\ superseded /\ e.verdict = "none"
            /\ DeleteEntry(drain[d].key, e) /\ NextTurn(d)
         \/ /\ superseded /\ e.verdict # "none"
            /\ Goto(d, "superseded") /\ UNCHANGED <<queueVars, marker>>
         \/ /\ ~superseded
            /\ Goto(d, IF e.verdict # "none" THEN "settle"
                       ELSE IF e.rescue = 0 THEN "check" ELSE "claim")
            /\ UNCHANGED <<queueVars, marker>>
      /\ UNCHANGED <<d1Vars, chunkVars, lease, alarm, call, faults, cut>>

(* recovered_terminal: the job already has its verdict. *)
DrainCheck(d) ==
  LET e == drain[d].e
  IN  /\ drain[d].pc = "check"
      /\ IF Terminal(job[e.job])
         THEN DeleteEntry(drain[d].key, e) /\ NextTurn(d)
         ELSE Goto(d, "claim") /\ UNCHANGED <<queueVars, marker>>
      /\ UNCHANGED <<d1Vars, chunkVars, lease, alarm, call, faults, cut>>

(* The deterministic run id: queue key, poison attempt, capacity attempt. *)
SetRun(k, e, st) == run' = [run EXCEPT ![k] = [@ EXCEPT ![<<e.attempts, e.cap>>] = st]]

RunOf(k, e) == run[k][<<e.attempts, e.cap>>]

RecoveredOutcome(st) ==
  IF st = "skipped" THEN "no_write"
  ELSE IF st = "db_failed" THEN "db_write_failed"
  ELSE IF st = "aged" \/ st = "stalled" THEN "interrupted" ELSE st

Answer(d, out) == drain' = [drain EXCEPT ![d] = DrainAt(d, "put", drain[d].e, out)]

Looks(e) == looked' = looked \union {<<Ctx[e.job], e.msg>>}

(* Mutant: a claim past its time to live is claimed again. *)
DrainReclaim(d) ==
  LET k == drain[d].key
      e == drain[d].e
      st == RunOf(k, e)
  IN  /\ drain[d].pc = "claim"
      /\ \/ st \in {"none", "aged"} /\ SetRun(k, e, "running") /\ Goto(d, "model")
         \/ st \in {"running", "committing"} /\ NextTurn(d) /\ UNCHANGED run
         \/ /\ st \notin {"none", "running", "aged", "committing"}
            /\ Answer(d, RecoveredOutcome(st)) /\ UNCHANGED run
      /\ UNCHANGED <<job, looked, announced, chunkVars, queueVars, marker, lease, alarm, call,
                     faults, cut>>

(* claimExtractionRun is the inference fence: one insert wins; any other     *)
(* caller gets the stored outcome, in_progress, or, past the claim's time    *)
(* to live, an interrupted run that is never called again.                   *)
DrainClaim(d) ==
  LET k == drain[d].key
      e == drain[d].e
      st == RunOf(k, e)
  IN  /\ drain[d].pc = "claim"
      /\ \/ st = "none" /\ SetRun(k, e, "running") /\ Goto(d, "model")
         \/ st \in {"running", "committing"} /\ NextTurn(d) /\ UNCHANGED run
         \/ st \in {"aged", "stalled"} /\ SetRun(k, e, "interrupted") /\ Answer(d, "interrupted")
         \/ /\ st \notin {"none", "running", "aged", "committing", "stalled"}
            /\ Answer(d, RecoveredOutcome(st)) /\ UNCHANGED run
      /\ UNCHANGED <<job, looked, announced, chunkVars, queueVars, marker, lease, alarm, call,
                     faults, cut>>

(* The model answers. A failure or a no-write finalizes the run, guarded on  *)
(* the run still running, and is the answer either way; a plan with writes   *)
(* enters the commit under the same guard, or recovers the stored outcome.   *)
DrainModel(d, out) ==
  LET k == drain[d].key
      e == drain[d].e
      st == RunOf(k, e)
      open == st \in Inferring
  IN  /\ drain[d].pc = "model"
      /\ \/ /\ out # "wrote"
            /\ IF open THEN SetRun(k, e, IF out = "no_write" THEN "skipped" ELSE out)
                       ELSE UNCHANGED run
            /\ IF out = "no_write" THEN Looks(e) ELSE UNCHANGED looked
            /\ Answer(d, out)
         \/ /\ out = "wrote" /\ open
            /\ SetRun(k, e, "committing") /\ Goto(d, "commit")
            /\ UNCHANGED looked
         \/ /\ out = "wrote" /\ ~open
            /\ IF st = "committing" THEN NextTurn(d) ELSE Answer(d, RecoveredOutcome(st))
            /\ UNCHANGED <<run, looked>>
      /\ UNCHANGED <<job, announced, chunkVars, queueVars, marker, lease, alarm, call, faults, cut>>

(* writeApproved: the graph and the run's step to wrote are one batch, which *)
(* its fence refuses unless the run is still committing. The batch may fail, *)
(* and it may be applied and its answer be lost.                             *)
DrainCommit(d) ==
  LET k == drain[d].key
      e == drain[d].e
      open == RunOf(k, e) \in Committing
      applied == SetRun(k, e, "wrote") /\ Looks(e)
  IN  /\ drain[d].pc = "commit"
      /\ \/ open /\ applied /\ Answer(d, "wrote") /\ UNCHANGED faults
         \/ ~open /\ Answer(d, "cancelled") /\ UNCHANGED <<run, looked, faults>>
         \/ /\ Fault /\ Goto(d, "broken")
            /\ (open /\ applied) \/ UNCHANGED <<run, looked>>
      /\ UNCHANGED <<job, announced, chunkVars, queueVars, marker, lease, alarm, call, cut>>

(* A commit that reported an error fails its run, whatever the run says by   *)
(* now: this update alone is not guarded.                                    *)
DrainBroken(d) ==
  /\ drain[d].pc = "broken"
  /\ SetRun(drain[d].key, drain[d].e, "db_failed")
  /\ Answer(d, "db_write_failed")
  /\ UNCHANGED <<job, looked, announced, chunkVars, queueVars, marker, lease, alarm, call,
                 faults, cut>>

(* runExtraction catches a D1 failure inside the engine: a run still before  *)
(* its commit is failed, whoever claimed it, and the attempt counts like any *)
(* other; one that is committing is given up; a stored outcome is recovered. *)
(* When D1 fails in the catch as well, the object counts a failed attempt    *)
(* and the run stays as it is.                                               *)
Caught(st) ==
  IF st \in {"none"} \union Inferring THEN "llm_failed"
  ELSE IF st \in Committing THEN "interrupted" ELSE st

EngineFault(d) ==
  LET k == drain[d].key
      e == drain[d].e
      after == Caught(RunOf(k, e))
  IN  /\ drain[d].pc \in {"claim", "model", "commit", "broken"}
      /\ Fault
      /\ \/ SetRun(k, e, after) /\ Answer(d, RecoveredOutcome(after))
         \/ UNCHANGED run /\ Answer(d, "llm_failed")
      /\ UNCHANGED <<job, looked, announced, chunkVars, queueVars, marker, lease, alarm, call, cut>>

(* What the outcome makes of the entry. *)
Settling(e, verdict) == [e EXCEPT !.verdict = verdict, !.late = FALSE]

(* Mutant: the last failed attempt is recorded as processed. *)
RetriedHopefully(e, last) == IF last THEN Settling(e, "complete") ELSE [e EXCEPT !.late = TRUE]

(* One attempt more: the last one settles the entry as failed. *)
Retried(e, last) == IF last THEN Settling(e, "failed") ELSE [e EXCEPT !.late = TRUE]

AfterOutcome(e, out) ==
  IF out = "wrote" THEN Settling(e, "complete")
  ELSE IF out = "no_write" THEN Settling(e, "rescue")
  ELSE IF out = "capacity" THEN Retried([e EXCEPT !.cap = @ + 1], e.cap + 1 >= MaxCapacity)
  ELSE IF out \in {"llm_failed", "db_write_failed"}
       THEN Retried([e EXCEPT !.attempts = @ + 1], e.attempts + 1 >= MaxAttempts)
  ELSE Settling(e, "failed")

(* #persistExtractSettlement, or the retry entry: the whole entry is put     *)
(* back under its key, from the copy this drain holds.                       *)
DrainPut(d) ==
  LET e1 == AfterOutcome(drain[d].e, drain[d].out)
  IN  /\ drain[d].pc = "put"
      /\ queue' = [queue EXCEPT ![drain[d].key] = e1]
      /\ drain' = [drain EXCEPT ![d] = DrainAt(d,
                     IF e1.verdict = "none" THEN "bookkeep" ELSE "settle", e1, drain[d].out)]
      /\ UNCHANGED <<d1Vars, chunkVars, qseq, marker, lease, alarm, call, faults, cut>>

(* disposition "attempted", best effort. *)
DrainBookkeep(d) ==
  LET e == drain[d].e
      n == IF drain[d].out = "capacity" THEN e.attempts + e.cap ELSE e.attempts
  IN  /\ drain[d].pc = "bookkeep"
      /\ \/ job' = [job EXCEPT ![e.job] = SettleAttempted(@, e.gen, n)] /\ UNCHANGED faults
         \/ Fault /\ UNCHANGED job
      /\ NextTurn(d)
      /\ UNCHANGED <<run, looked, announced, chunkVars, queueVars, marker, lease, alarm, call, cut>>

(* The catch of #processPendingExtract: back off and try the settlement again. *)
SettleLater(d) ==
  /\ queue' = [queue EXCEPT ![drain[d].key] = [drain[d].e EXCEPT !.late = TRUE]]
  /\ NextTurn(d)
  /\ UNCHANGED qseq

(* #processPendingExtract: settle, require terminal evidence for the job,    *)
(* announce from the row, and only then finalize the local state.            *)
DrainSettle(d) ==
  LET e == drain[d].e
      row == IF e.verdict = "failed" THEN SettleFailed(job[e.job], e.gen)
             ELSE SettleDone(job[e.job], e.gen, {e.msg})
  IN  /\ drain[d].pc = "settle"
      /\ \/ /\ job' = [job EXCEPT ![e.job] = row]
            /\ Goto(d, "verify")
            /\ UNCHANGED <<queueVars, faults>>
         \/ /\ Fault
            /\ job' \in {job, [job EXCEPT ![e.job] = row]}
            /\ SettleLater(d)
      /\ UNCHANGED <<run, looked, announced, chunkVars, marker, lease, alarm, call, cut>>

(* Mutant: a failed announcement is swallowed. *)
DrainVerifyQuietly(d) ==
  LET e == drain[d].e
  IN  /\ drain[d].pc = "verify"
      /\ \/ /\ Terminal(job[e.job])
            /\ \/ announced' = announced \union {<<e.job, job[e.job].status>>} /\ UNCHANGED faults
               \/ Fault /\ UNCHANGED announced
            /\ Goto(d, "finalize")
            /\ UNCHANGED queueVars
         \/ ~Terminal(job[e.job]) /\ SettleLater(d) /\ UNCHANGED <<announced, faults>>
      /\ UNCHANGED <<job, run, looked, chunkVars, marker, lease, alarm, call, cut>>

DrainVerify(d) ==
  LET e == drain[d].e
  IN  /\ drain[d].pc = "verify"
      /\ \/ /\ Terminal(job[e.job])
            /\ announced' = announced \union {<<e.job, job[e.job].status>>}
            /\ Goto(d, "finalize")
            /\ UNCHANGED <<queueVars, faults>>
         \/ /\ ~Terminal(job[e.job])
            /\ SettleLater(d)
            /\ UNCHANGED <<announced, faults>>
         \/ /\ Fault
            /\ SettleLater(d)
            /\ UNCHANGED announced
      /\ UNCHANGED <<job, run, looked, chunkVars, marker, lease, alarm, call, cut>>

(* #finalizeExtractQueueState for a verdict that ends the lineage here. *)
(* Mutant: off by one in the rescue bound. *)
EndsLineageLate(e) == e.verdict # "rescue" \/ e.rescue > MaxRescues

EndsLineage(e) == e.verdict # "rescue" \/ e.rescue >= MaxRescues

Retire(d) ==
  LET e == drain[d].e
      c == Ctx[e.job]
  IN  /\ DeleteEntry(drain[d].key, e)
      /\ checkpoint' = IF e.verdict = "complete" THEN [checkpoint EXCEPT ![c] = e.msg] ELSE checkpoint
      /\ seen' = IF e.verdict = "complete" THEN [seen EXCEPT ![c] = @ \union {e.msg}] ELSE seen
      /\ UNCHANGED <<held, idle>>
      /\ NextTurn(d)

DrainFinalize(d) ==
  /\ drain[d].pc = "finalize"
  /\ EndsLineage(drain[d].e)
  /\ Retire(d)
  /\ UNCHANGED <<d1Vars, lease, alarm, call, faults, cut>>

(* A meaningful no-write: the messages return to the held chunk as a settled *)
(* rescue buffer, at generation 0 and one rescue further; a chunk of another *)
(* context is fired first.                                                   *)
Rescued(e) == [job |-> e.job, msg |-> e.msg, gen |-> 0, rescue |-> e.rescue + 1]

DrainRescue(d) ==
  LET e == drain[d].e
      k == drain[d].key
      switch == OtherContext(held, Ctx[e.job])
      chunk == IF switch THEN {} ELSE held
  IN  /\ drain[d].pc = "finalize"
      /\ ~EndsLineage(e)
      /\ switch => qseq + Cardinality(held) <= MaxSeq
      /\ queue' = [(IF switch THEN Enqueue(queue, qseq, held) ELSE queue) EXCEPT ![k] = NoEntry]
      /\ qseq' = IF switch THEN qseq + Cardinality(held) ELSE qseq
      /\ held' = IF \E x \in chunk : x.msg = e.msg THEN chunk ELSE chunk \union {Rescued(e)}
      /\ marker' = WithoutMarkers(marker, e)
      /\ NextTurn(d)
      /\ idle' = (idle /\ ~switch)
      /\ UNCHANGED <<d1Vars, seen, checkpoint, lease, alarm, call, faults, cut>>

(* #processSupersededExtract: the older generation's terminal record is      *)
(* announced, never settled, and a superseded rescue is not restored.        *)
DrainSuperseded(d) ==
  LET e == drain[d].e
  IN  /\ drain[d].pc = "superseded"
      /\ announced' = announced \union
           {<<e.job, IF e.verdict = "failed" THEN "failed" ELSE "enriched">>}
      /\ \/ e.verdict # "rescue" /\ Retire(d)
         \/ e.verdict = "rescue" /\ DeleteEntry(drain[d].key, e) /\ NextTurn(d) /\ UNCHANGED chunkVars
      /\ UNCHANGED <<job, run, looked, lease, alarm, call, faults, cut>>

DrainStep(d) ==
  \/ DrainPick(d) \/ DrainDone(d) \/ DrainRead(d) \/ DrainCheck(d) \/ DrainClaim(d)
  \/ (\E out \in Outcomes : DrainModel(d, out)) \/ DrainCommit(d) \/ DrainBroken(d)
  \/ EngineFault(d)
  \/ DrainPut(d) \/ DrainBookkeep(d) \/ DrainSettle(d) \/ DrainVerify(d)
  \/ DrainFinalize(d) \/ DrainRescue(d) \/ DrainSuperseded(d) \/ DrainFault(d)

---------------------------------------------------------------------------
(* The passage of time, the reconciliation sweep's kick, and eviction.     *)

(* Mutant: only the drain that set it can end a lease. *)
LeaseNeverExpires ==
  /\ LeaseLive
  /\ drain[lease.holder].pc # "off"
  /\ lease' = [lease EXCEPT !.live = FALSE]
  /\ UNCHANGED <<d1Vars, chunkVars, queueVars, marker, alarm, call, drain, faults, cut>>

(* The lease's 120 seconds pass: for a drain that was cut off, or under one   *)
(* that is slow, since it is refreshed between entries only.                  *)
LeaseExpires ==
  /\ LeaseLive
  /\ SlowDrains \/ drain[lease.holder].pc = "off"
  /\ lease' = [lease EXCEPT !.live = FALSE]
  /\ UNCHANGED <<d1Vars, chunkVars, queueVars, marker, alarm, call, drain, faults, cut>>

IdlePasses ==
  /\ Unsettled(held) # {} /\ ~idle /\ idle' = TRUE
  /\ UNCHANGED <<d1Vars, held, seen, checkpoint, queueVars, marker, lease, alarm, call, drain,
                 faults, cut>>

BackoffElapses(k) ==
  /\ queue[k] # NoEntry /\ queue[k].late
  /\ queue' = [queue EXCEPT ![k].late = FALSE]
  /\ UNCHANGED <<d1Vars, chunkVars, qseq, marker, lease, alarm, call, drain, faults, cut>>

(* EXTRACTION_CLAIM_TTL_MS passes for a run still open. *)
RunAges(k, a) ==
  /\ \/ run[k][a] = "running" /\ run' = [run EXCEPT ![k][a] = "aged"]
     \/ run[k][a] = "committing" /\ run' = [run EXCEPT ![k][a] = "stalled"]
  /\ UNCHANGED <<job, looked, announced, chunkVars, queueVars, marker, lease, alarm, call, drain,
                 faults, cut>>

(* The jobs the reconciliation sweep selects. *)
Unfinished(row) == row.status \in {"queued", "processing"}

(* Mutants: kick forgets the queue, or the held chunk; it reports jobs that  *)
(* only a handoff marker names.                                              *)
KnownHeldJobs == {h.job : h \in held}

KnownQueuedJobs == {queue[k].job : k \in {i \in Keys : queue[i] # NoEntry}}

KnownMarkedJobs ==
  KnownHeldJobs \union KnownQueuedJobs
    \union {h[1] : h \in {i \in Handoffs : marker[i].state # "none"}}

(* What kick reports: every job named in the queue or in the held chunk,     *)
(* settled rescue buffers included.                                          *)
KnownJobs == {h.job : h \in held} \union {queue[k].job : k \in {i \in Keys : queue[i] # NoEntry}}

(* kick: prune the markers of settled jobs and arm the alarm. The sweep pokes *)
(* users whose jobs are due.                                                  *)
Kick ==
  /\ \E j \in Jobs : Unfinished(job[j])
  /\ marker' = [h \in Handoffs |-> IF Terminal(job[h[1]]) THEN NoMarker ELSE marker[h]]
  /\ alarm' = TRUE
  /\ UNCHANGED <<d1Vars, chunkVars, queueVars, lease, call, drain, faults, cut>>

(* The isolate is evicted: storage stays, every execution is cut off. The    *)
(* platform runs an alarm handler that was cut off again.                    *)
CutOff ==
  /\ call' = [h \in Handoffs |-> "off"]
  /\ drain' = [d \in Drains |-> DrainOff]
  /\ alarm' = (alarm \/ drain[AlarmDrain].pc # "off")
  /\ UNCHANGED <<d1Vars, lease>>

Crash ==
  /\ Fault /\ CutOff
  /\ UNCHANGED <<chunkVars, queueVars, marker, cut>>

(* What finds fired or held work without a wake: an eviction between the     *)
(* local transaction of addMessages and its wake guarantee, or a marker that *)
(* changed hands, which throws inside blockConcurrencyWhile: the runtime     *)
(* then resets the object.                                                   *)
CrashInAdd(h) ==
  /\ AddCommit(h)
  /\ CutOff
  /\ cut' = TRUE
  /\ IF marker[h].state = "pending" THEN Fault ELSE UNCHANGED faults

UserMemoryInit ==
  /\ job = [j \in Jobs |-> NoRow]
  /\ run = [k \in Keys |-> [a \in AttemptIds |-> "none"]]
  /\ looked = {} /\ announced = {}
  /\ held = {} /\ idle = FALSE
  /\ seen = [c \in Contexts |-> {}] /\ checkpoint = [c \in Contexts |-> NoMsg]
  /\ queue = [k \in Keys |-> NoEntry] /\ qseq = 0
  /\ marker = [h \in Handoffs |-> NoMarker]
  /\ lease = [holder |-> None, live |-> FALSE] /\ alarm = FALSE
  /\ call = [h \in Handoffs |-> "off"] /\ drain = [d \in Drains |-> DrainOff]
  /\ faults = 0 /\ cut = FALSE

D1Type ==
  /\ job \in [Jobs -> JobRow]
  /\ run \in [Keys -> [AttemptIds -> RunStates]]
  /\ looked \subseteq Contexts \X Msgs
  /\ announced \subseteq Jobs \X TERMINAL_JOB_STATES

ChunkType ==
  /\ held \subseteq Held /\ IsFiniteSet(held) /\ idle \in BOOLEAN
  /\ seen \in [Contexts -> SUBSET Msgs]
  /\ checkpoint \in [Contexts -> Msgs \union {NoMsg}]

QueueType == queue \in [Keys -> Entry \union {NoEntry}] /\ qseq \in 0 .. MaxSeq

ControlType ==
  /\ marker \in [Handoffs -> Marker]
  /\ lease \in [holder : Drains \union {None}, live : BOOLEAN] /\ alarm \in BOOLEAN
  /\ call \in [Handoffs -> CallStates]
  /\ faults \in 0 .. MaxFaults /\ cut \in BOOLEAN

DrainType == drain \in [Drains -> DrainRec]

(* Every variable keeps its type. *)
TypeOK == D1Type /\ ChunkType /\ QueueType /\ ControlType /\ DrainType
=============================================================================
