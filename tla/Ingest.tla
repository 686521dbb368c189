------------------------------- MODULE Ingest -------------------------------
(***************************************************************************)
(* The HTTP ingest door (ingestMessages, src/src/pipeline/ingest.js) over  *)
(* the per-user Durable Object: an idempotent write is looked up, repaired *)
(* or claimed in D1, its source is preserved, and its messages are handed  *)
(* off to the object. A request is one HTTP call; the requests of one job  *)
(* are the sender's retries of the same packet under the same key.         *)
(*                                                                         *)
(* Left out, because they end a request before any of this: conflicting    *)
(* keys, rule and rate rejections, erased packets. The repair of an        *)
(* enriched job (an interrupted atomic capture) is left out as well.       *)
(***************************************************************************)
EXTENDS UserMemory

CONSTANTS
  Requests,  \* HTTP calls
  ReqJob     \* the job a request's idempotency key stands for

ASSUME ReqAssumption == ReqJob \in [Requests -> Jobs]

VARIABLE req

vars == <<umVars, req>>

Answers == {"none", "duplicate_enriched", "duplicate_failed", "refused", "busy", "accepted", "error"}

(* gen is repairGeneration, row the job row the idempotency lookup returned. *)
Req == [pc : {"new", "reopen", "claim", "conflict", "source", "handoff", "wait", "inline", "done"},
        gen : Generations, row : JobRow, answer : Answers]

(* The row a request returns is only ever used by its own reopen. *)
ReqAt(pc, gen, answer) == [pc |-> pc, gen |-> gen, row |-> NoRow, answer |-> answer]

NewReq == ReqAt("new", 0, "none")

HandoffOf(r) == <<ReqJob[r], req[r].gen>>

At(r, pc, gen) == req' = [req EXCEPT ![r] = ReqAt(pc, gen, "none")]

AnswerReq(r, a) == req' = [req EXCEPT ![r] = ReqAt("done", 0, a)]

(* recordReplay: the answer of a terminal row, whatever its verdict. *)
DuplicateOf(row) == IF row.status = "failed" THEN "duplicate_failed" ELSE "duplicate_enriched"

---------------------------------------------------------------------------
(* findIdempotencyState and what it decides. *)
Lookup(r) ==
  LET row == job[ReqJob[r]]
  IN  /\ req[r].pc = "new"
      /\ \/ row.status = "none" /\ At(r, "claim", 0)
         \/ Active(row) /\ At(r, "claim", row.gen)
         \/ row.status = "enriched" /\ AnswerReq(r, DuplicateOf(row))
         \/ row.status = "failed" /\ RepairsExhausted(row) /\ AnswerReq(r, "refused")
         \/ /\ row.status = "failed" /\ ~RepairsExhausted(row)
            /\ req' = [req EXCEPT ![r] = [pc |-> "reopen", gen |-> 0, row |-> row, answer |-> "none"]]
      /\ UNCHANGED umVars

(* reopenExtractJobForReplay: a compare-and-set against the row looked up;   *)
(* the loser joins the winner's generation, if that is still running.        *)
Reopen(r) ==
  LET j == ReqJob[r]
      row == req[r].row
      won == job[j] = row
      join == Active(job[j]) /\ job[j].gen >= NextGeneration(row)
  IN  /\ req[r].pc = "reopen"
      /\ \/ /\ won
            /\ job' = [job EXCEPT ![j] = Reopened(row, j)]
            /\ At(r, "claim", NextGeneration(row))
         \/ ~won /\ join /\ At(r, "claim", job[j].gen) /\ UNCHANGED job
         \/ /\ ~won /\ ~join
            /\ AnswerReq(r, DuplicateOf(IF Terminal(job[j]) THEN job[j] ELSE row))
            /\ UNCHANGED job
      /\ UNCHANGED <<run, looked, announced, chunkVars, queueVars, marker, lease, alarm, call,
                     drain, faults, cut>>

(* claimIngestMemoryJob: insert the row unless the key has one; a new row    *)
(* needs a slot below the backpressure limit.                                *)
Claim(r) ==
  LET j == ReqJob[r]
  IN  /\ req[r].pc = "claim"
      /\ \/ /\ job[j].status = "none" /\ ActiveDepth(job) < MaxDepth
            /\ job' = [job EXCEPT ![j] = ClaimedRow(j)]
            /\ At(r, "source", req[r].gen)
         \/ /\ job[j].status = "none" /\ ActiveDepth(job) >= MaxDepth
            /\ AnswerReq(r, "busy") /\ UNCHANGED job
         \/ job[j].status # "none" /\ At(r, "conflict", req[r].gen) /\ UNCHANGED job
      /\ UNCHANGED <<run, looked, announced, chunkVars, queueVars, marker, lease, alarm, call,
                     drain, faults, cut>>

(* A lost claim looks the key up again; only the status is used. *)
Conflict(r) ==
  /\ req[r].pc = "conflict"
  /\ IF Terminal(job[ReqJob[r]])
     THEN AnswerReq(r, DuplicateOf(job[ReqJob[r]]))
     ELSE At(r, "source", req[r].gen)
  /\ UNCHANGED umVars

(* writeSourceEpisodes, then activateSourceReadyJob. *)
Activate(r) ==
  LET j == ReqJob[r]
  IN  /\ req[r].pc = "source"
      /\ job' = IF job[j].status = "awaiting_source"
                THEN [job EXCEPT ![j].status = "queued"] ELSE job
      /\ At(r, "handoff", req[r].gen)
      /\ UNCHANGED <<run, looked, announced, chunkVars, queueVars, marker, lease, alarm, call,
                     drain, faults, cut>>

(* acceptMessagesOnce over RPC: start the handoff, or join the one running. *)
CallHandoff(r) ==
  LET h == HandoffOf(r)
  IN  /\ req[r].pc = "handoff"
      /\ \/ HandoffStart(h)
         \/ call[h] \notin {"off", "ok", "err"} /\ UNCHANGED umVars
      /\ At(r, "wait", req[r].gen)

(* The handoff's promise settles for everyone who waits on it. *)
Deliver(h) ==
  /\ call[h] \in {"ok", "err"}
  /\ req' = [r \in Requests |->
       IF req[r].pc = "wait" /\ HandoffOf(r) = h
       THEN IF call[h] = "ok" THEN ReqAt("inline", h[2], "accepted") ELSE ReqAt("done", 0, "error")
       ELSE req[r]]
  /\ Become(h, "off")
  /\ UNCHANGED <<d1Vars, chunkVars, queueVars, marker, lease, alarm, drain, faults, cut>>

(* When the handoff fired the chunk, the door drains inline; it answers with *)
(* its budget whether or not the drain is over.                              *)
Inline(r) ==
  /\ req[r].pc = "inline"
  /\ (\E d \in Drains : DrainStart(d)) \/ UNCHANGED umVars
  /\ req' = [req EXCEPT ![r].pc = "done"]

(* The worker stops, or source preservation fails: the sender is told to     *)
(* retry, or never hears back.                                               *)
RequestFails(r) ==
  /\ req[r].pc \in {"new", "reopen", "claim", "conflict", "source", "handoff", "wait"}
  /\ Fault
  /\ AnswerReq(r, "error")
  /\ UNCHANGED <<d1Vars, chunkVars, queueVars, marker, lease, alarm, call, drain, cut>>

(* An evicted object rejects the calls that wait on it. *)
Evict ==
  /\ Crash \/ \E h \in Handoffs : CrashInAdd(h)
  /\ req' = [r \in Requests |->
       IF req[r].pc = "wait" THEN ReqAt("done", 0, "error") ELSE req[r]]

---------------------------------------------------------------------------
Init == UserMemoryInit /\ req = [r \in Requests |-> NewReq]

RequestStep(r) ==
  \/ Lookup(r) \/ Reopen(r) \/ Claim(r) \/ Conflict(r) \/ Activate(r) \/ CallHandoff(r)
  \/ Inline(r)

(* What the object does by itself. *)
ObjectStep ==
  \/ \E h \in Handoffs : HandoffStep(h) \/ HandoffFault(h)
  \/ \E d \in Drains : DrainStep(d)
  \/ AlarmFires \/ LeaseExpires \/ IdlePasses \/ Kick
  \/ \E k \in Keys : BackoffElapses(k)
  \/ \E k \in Keys, a \in AttemptIds : RunAges(k, a)

(* Every call answered and nothing left to do. *)
Done ==
  /\ \A r \in Requests : req[r].pc = "done"
  /\ \A h \in Handoffs : call[h] = "off"
  /\ \A d \in Drains : drain[d].pc = "off"
  /\ UNCHANGED vars

Next ==
  \/ \E r \in Requests : RequestStep(r) \/ RequestFails(r)
  \/ \E h \in Handoffs : Deliver(h)
  \/ ObjectStep /\ UNCHANGED req
  \/ Evict
  \/ Done

Spec == Init /\ [][Next]_vars
---------------------------------------------------------------------------
(* What the door and the object promise.                                   *)

IngestTypeOK == TypeOK /\ req \in [Requests -> Req]

(* The job's message m is in the object, at generation g of the job. *)
InObject(j, m, g) ==
  \/ \E h \in held : h.job = j /\ h.msg = m /\ h.gen = g
  \/ \E k \in Keys : queue[k] # NoEntry /\ queue[k].job = j /\ queue[k].msg = m /\ queue[k].gen = g

(* A write answered "accepted" (the sender may discard its copy) whose job   *)
(* is still running under the accepted generation has every message that is  *)
(* still unsettled in the object's durable storage, under that generation:   *)
(* "crash-safe, permanent, content-bound handoff" (acceptMessagesOnce). The  *)
(* code keeps this for the first acceptance only, see below.                 *)
NoStrandedWrite ==
  \A r \in Requests :
    LET j == ReqJob[r]
    IN  req[r].answer = "accepted" /\ Active(job[j]) /\ job[j].gen = req[r].gen
        => \A m \in job[j].remaining : InObject(j, m, job[j].gen)

(* The answer "accepted" to a packet under its first generation is kept: as  *)
(* long as its row is active and was never repaired, every message that it   *)
(* still owes is in the object, whatever retries, context switches, rescues, *)
(* crashes and slow drains come in between (acceptMessagesOnce,              *)
(* #finishAppliedHandoff: acknowledge only with durable evidence).           *)
FirstAcceptanceHolds ==
  \A r \in Requests :
    LET j == ReqJob[r]
    IN  req[r].answer = "accepted" /\ req[r].gen = 0 /\ Active(job[j]) /\ job[j].gen = 0
        => \A m \in job[j].remaining : InObject(j, m, 0)

(* Somebody is, or was, responsible for message m of context c. *)
Handled(c, m) ==
  \/ <<c, m>> \in looked
  \/ \E h \in held : Ctx[h.job] = c /\ h.msg = m
  \/ \E k \in Keys : queue[k] # NoEntry /\ Ctx[queue[k].job] = c /\ queue[k].msg = m
  \/ \E j \in Jobs : /\ Ctx[j] = c /\ m \in MsgsOf[j]
                     /\ job[j].status \notin {"none", "enriched"}

(* A job reported enriched is no false zero-write success: each of its       *)
(* messages is noise, has been answered for by the model, or is the business *)
(* of a copy or of another job that is not enriched itself (settleMemoryJobs *)
(* and the deduplication of addMessages, under retries and repairs).         *)
EnrichedMeansHandled ==
  \A j \in Jobs :
    job[j].status = "enriched" => \A m \in MsgsOf[j] \ Noise : Handled(Ctx[j], m)

(* The object never owns a message of an accepted packet twice under one     *)
(* generation: a retry after any interruption recovers what is there instead *)
(* of appending it again (#recoverOwnedHandoff).                             *)
SingleOwner ==
  LET copies(j, m, g) ==
        {k \in Keys : /\ queue[k] # NoEntry /\ queue[k].job = j /\ queue[k].msg = m
                      /\ queue[k].gen = g /\ queue[k].rescue = 0}
        \union {0 : h \in {x \in held : x.job = j /\ x.msg = m /\ x.gen = g /\ x.rescue = 0}}
  IN  \A j \in Jobs, m \in Msgs, g \in Generations : Cardinality(copies(j, m, g)) <= 1

(* The object never sleeps on work: when no drain runs and there is queued   *)
(* or held work, the alarm is set, unless addMessages was cut off before its *)
(* wake guarantee ("no code path can observe work present without an alarm   *)
(* set", #guaranteeWake).                                                    *)
WakeGuaranteed ==
  HasWork(held, queue) /\ (\A d \in Drains : drain[d].pc = "off") /\ ~cut => alarm

(* A verdict is final: a terminal row changes only when a replay of failed   *)
(* work reopens it, under a later generation (settleMemoryJobs,              *)
(* reopenExtractJobForReplay).                                               *)
TerminalStable ==
  [][\A j \in Jobs :
       Terminal(job[j]) /\ job'[j] # job[j]
       => job[j].status = "failed" /\ job'[j].status = "queued" /\ job'[j].gen > job[j].gen]_job

(* The run of entry k that drain d works on. *)
WorksOn(d, k, a) == drain[d].key = k /\ <<drain[d].e.attempts, drain[d].e.cap>> = a

(* The model is never called twice for one attempt of one queue entry: a run *)
(* is claimed once, and a claim never becomes free or claimed again (not     *)
(* even past its time to live, claimExtractionRun). A stored outcome is      *)
(* final, whoever else holds or gives up the run (the finalizations guarded  *)
(* on its status), but for one case: a drain whose own commit of this run    *)
(* reported an error records db_write_failed over anything.                  *)
InferenceFence ==
  [][\A k \in Keys : \A a \in AttemptIds :
       LET was == run[k][a]
           is  == run'[k][a]
       IN  is # was =>
             /\ is # "none"
             /\ (is = "running" => was = "none")
             /\ \/ was \in {"none"} \union Inferring \union Committing
                \/ is = "db_failed" /\ \E d \in Drains : drain[d].pc = "broken" /\ WorksOn(d, k, a)]_run

(* "move the run to `wrote` in the same D1 batch as the graph. A retry can   *)
(* therefore settle from this run without invoking the model again"          *)
(* (extract.js:1244): no run is claimed for a message whose graph is         *)
(* committed. For instances of one packet, where each model answer is a plan *)
(* with writes, so that looked is what has been committed.                   *)
RetrySettles ==
  [][\A d \in Drains : drain[d].pc = "claim" /\ drain'[d].pc = "model"
       => <<Ctx[drain[d].e.job], drain[d].e.msg>> \notin looked]_drain

(* "only one drain runs at a time" (the header of user-memory.js): the lease *)
(* in storage excludes a second drain, through crashes and takeovers.        *)
OneDrain ==
  \A d, e \in Drains : drain[d].pc # "off" /\ drain[e].pc # "off" => d = e

(* A verdict is not forgotten before it is announced: an entry that carries  *)
(* one leaves the object only with the webhook event of its job's verdict in *)
(* the outbox, and as long as no repair has overtaken the entry, of the      *)
(* verdict that the row shows, whatever was interrupted or retried in        *)
(* between (#processPendingExtract: settle, announce, and only then          *)
(* finalize). The verdict of a packet that is settled at the door may go     *)
(* unannounced: that emit is best effort.                                    *)
VerdictAnnounced ==
  [][\A k \in Keys :
       LET e == queue[k]
       IN  e # NoEntry /\ e.verdict # "none" /\ queue'[k] = NoEntry
           => \E state \in TERMINAL_JOB_STATES :
                /\ <<e.job, state>> \in announced'
                /\ job[e.job].gen = e.gen => job[e.job].status = state]_queue

(* "never answer a replay of failed work with an acceptance-shaped            *)
(* duplicate" (ingest.js, SRV-02).                                            *)
NoPhantomAcceptance == \A r \in Requests : req[r].answer # "duplicate_failed"

(* The ledger row a sender can look up behaves as JobLedger promises.        *)
LedgerState(row) ==
  IF row.status = "none" THEN "absent" ELSE IF Active(row) THEN "open" ELSE row.status

Ledger ==
  INSTANCE JobLedger WITH
    Writes      <- Jobs,
    Content     <- MsgsOf,
    MaxReopens  <- MaxRepairs,
    state       <- [j \in Jobs |-> LedgerState(job[j])],
    generation  <- [j \in Jobs |-> job[j].gen],
    outstanding <- [j \in Jobs |-> job[j].remaining]

(* The door, the object, their retries and their crashes implement the       *)
(* ledger: what one write's row shows is one of the ledger's behaviours      *)
(* (settleMemoryJobs, claimMemoryJob, activateSourceReadyJob,                *)
(* reopenExtractJobForReplay).                                               *)
ImplementsLedger == Ledger!LedgerSpec

(* Every poisoned message is repaired before the sender is refused:          *)
(* "Extraction for this exact content failed permanently after its bounded   *)
(* repair attempts" (ingest.js).                                             *)
RefusedAfterRepairs ==
  \A r \in Requests : req[r].answer = "refused" => job[ReqJob[r]].gen > 0

(* What kick reports "lets the sweep tell wake up, you have work apart from   *)
(* this job is orphaned" (kick, user-memory.js): an unfinished job that it    *)
(* names, and that no call is at work on, has an entry or an unsettled held   *)
(* message that a drain will reach.                                           *)
KnownMeansReachable ==
  (\A r \in Requests : req[r].pc = "done") /\ (\A h \in Handoffs : call[h] = "off")
  => \A j \in KnownJobs :
       Unfinished(job[j])
       => \/ \E h \in Unsettled(held) : h.job = j
          \/ \E k \in Keys : queue[k] # NoEntry /\ queue[k].job = j
---------------------------------------------------------------------------
(* Fairness: the runtime finishes every step of a running drain, the         *)
(* platform delivers a set alarm, the cron sweep kicks, and time passes.     *)
(* Nothing is asked of the senders.                                          *)
ByObject(action) == action /\ UNCHANGED req

ObjectFairness ==
  /\ \A d \in Drains : WF_vars(ByObject(DrainStep(d)))
  /\ WF_vars(ByObject(AlarmFires)) /\ WF_vars(ByObject(Kick))
  /\ WF_vars(ByObject(LeaseExpires)) /\ WF_vars(ByObject(IdlePasses))
  /\ \A k \in Keys : WF_vars(ByObject(BackoffElapses(k)))
  /\ \A k \in Keys, a \in AttemptIds : WF_vars(ByObject(RunAges(k, a)))

FairSpec == Spec /\ ObjectFairness

(* An accepted write gets its verdict, or is reopened by a later repair:     *)
(* after "accepted" no message is stuck behind a dead lease, a lost drain, a *)
(* backoff or a claim that nobody finishes (drain, alarm, #guaranteeWake).   *)
AcceptedSettles ==
  \A r \in Requests :
    req[r].answer = "accepted" /\ job[ReqJob[r]].gen = req[r].gen /\ Active(job[ReqJob[r]])
    ~> ~(job[ReqJob[r]].gen = req[r].gen /\ Active(job[ReqJob[r]]))

(* Every queue entry leaves the queue: settlement retries, poison retries    *)
(* and entries that the job's verdict has overtaken all end.                 *)
EntriesLeave == \A k \in Keys : queue[k] # NoEntry ~> queue[k] = NoEntry
=============================================================================
