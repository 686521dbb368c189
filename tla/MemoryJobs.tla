---------------------------- MODULE MemoryJobs ----------------------------
(***************************************************************************)
(* The accept-time ledger: one row of the D1 table memory_jobs for every   *)
(* accepted write of the HTTP ingest lane (src/src/lib/db.js, and the door *)
(* src/src/pipeline/ingest.js, which creates, activates and reopens rows). *)
(*                                                                         *)
(* A message of the model stands for the run of user messages of a packet  *)
(* that the queue-entry caps (20 messages, 12000 characters) keep in one   *)
(* queue entry; its number is its place in the order of arrival.           *)
(***************************************************************************)
EXTENDS Integers, FiniteSets

CONSTANTS
  Jobs,        \* accepted writes: one idempotency key, one packet, one row
  Msgs,        \* message identities (id and content hash)
  MsgsOf,      \* the user messages of the packet of a job
  MaxRepairs,  \* MAX_FAILED_REPLAY_REPAIRS and MAX_REPAIR_GENERATION
  MaxDepth     \* MAX_QUEUE_DEPTH, MEMORY_JOB_ACTIVE_LIMIT

ASSUME MsgsAssumption   == Msgs \subseteq Nat /\ IsFiniteSet(Msgs)
ASSUME MsgsOfAssumption == MsgsOf \in [Jobs -> SUBSET Msgs]
ASSUME RepairAssumption == MaxRepairs \in Nat /\ MaxDepth \in Nat

ActiveStates   == {"awaiting_source", "queued", "processing"}
TERMINAL_JOB_STATES == {"enriched", "failed"}
Generations    == 0 .. MaxRepairs

JobRow == [status    : {"none"} \union ActiveStates \union TERMINAL_JOB_STATES,
           gen       : Generations,
           attempts  : Nat,
           remaining : SUBSET Msgs]

NoRow == [status |-> "none", gen |-> 0, attempts |-> 0, remaining |-> {}]

(* INSERT ... status 'awaiting_source', payload.remaining = userMsgIds. *)
ClaimedRow(j) ==
  [status |-> "awaiting_source", gen |-> 0, attempts |-> 0, remaining |-> MsgsOf[j]]

Terminal(row) == row.status \in TERMINAL_JOB_STATES
Active(row)   == row.status \in ActiveStates

(* The rows that count against the account's backpressure limit. *)
ActiveDepth(rows) == Cardinality({j \in Jobs : Active(rows[j])})

---------------------------------------------------------------------------
(* settleMemoryJobs: a compare-and-set on (status, payload) that leaves a  *)
(* terminal row alone, and a row that another repair generation owns.      *)

(* Mutant: a late settlement overwrites a verdict. *)
SettleableWhenOver(row, g) == row.gen = g

Settleable(row, g) == Active(row) /\ row.gen = g

(* Mutant: the first finalized message ends the job. *)
SettleDoneAtOnce(row, g, ms) ==
  IF Settleable(row, g)
  THEN [row EXCEPT !.remaining = @ \ ms, !.status = "enriched"]
  ELSE row

(* disposition "processed" or "skipped": the messages are finalized. *)
SettleDone(row, g, ms) ==
  LET left == row.remaining \ ms
  IN  IF Settleable(row, g)
      THEN [row EXCEPT !.remaining = left,
                       !.status = IF left = {} THEN "enriched" ELSE "processing"]
      ELSE row

(* disposition "failed": terminal at once, whatever remains. *)
SettleFailed(row, g) ==
  IF Settleable(row, g) THEN [row EXCEPT !.remaining = {}, !.status = "failed"] ELSE row

(* disposition "attempted": bookkeeping only. *)
SettleAttempted(row, g, n) ==
  IF Settleable(row, g)
  THEN [row EXCEPT !.status = "processing",
                   !.attempts = IF row.attempts < n THEN n ELSE row.attempts]
  ELSE row

---------------------------------------------------------------------------
(* reopenExtractJobForReplay: the same row under the next repair           *)
(* generation, with every message of the packet remaining again.           *)

NextGeneration(row) == (IF row.attempts > row.gen THEN row.attempts ELSE row.gen) + 1

RepairsExhausted(row) == row.attempts >= MaxRepairs \/ NextGeneration(row) > MaxRepairs

(* Mutant: the messages that remain are not restored. *)
ReopenedEmpty(row, j) ==
  [status |-> "queued", gen |-> NextGeneration(row),
   attempts |-> NextGeneration(row), remaining |-> row.remaining]

Reopened(row, j) ==
  [status |-> "queued", gen |-> NextGeneration(row),
   attempts |-> NextGeneration(row), remaining |-> MsgsOf[j]]
=============================================================================
