# Itsuki (universal-memory-engine): specification and proofs

Itsuki is a memory service on Cloudflare Workers. A sender hands it packets of
messages; a per-user Durable Object collects them, calls a model on small
chunks, and writes what the model found to a graph in D1. Around that write path
stand a client outbox on the user's machine, Conversation Pages, webhooks, the
accounting of model calls, confirmed erasure, and the lifecycle of projects. The
program promises that *every accepted write ends in `enriched` or `failed`,
visibly*, that what is erased stays erased, and a number of smaller things these
rest on, through crashes, retries, slow models and concurrent callers. This
directory states those promises in TLA+; TLC checks them on small instances and
TLAPS proves the central ones for every instance.

Paths below are those of the repository, seen from this directory as `../src/`;
`src/…` inside a path is the repository's own `src/`.

## 1. Inventory

### Modelled, in whole or in part

| Part | Code | State it keeps | Operations | Module |
| --- | --- | --- | --- | --- |
| Ingest door | `src/pipeline/ingest.js` | none; one execution per HTTP call | look the key up, repair or refuse failed work, claim a row, preserve the source, activate, hand over, drain inline, answer | `Ingest` |
| Job ledger | `src/lib/db.js` (`memory_jobs`) | one row per accepted write: status, repair generation, attempts, remaining messages | claim, activate, settle (processed, failed, attempted), reopen, fail as orphan | `MemoryJobs`, `JobLedger` |
| Per-user object | `src/durable/user-memory.js` | held chunk, queue entries `q:*`, `qseq`, seen identities and checkpoint per context, handoff markers, drain lease, one alarm | `acceptMessagesOnce`, `addMessages`, `drain`, `alarm`, `kick`, `resetAll` and the handlers under them | `UserMemory`, `McpLane`, `Erasure` |
| Run claim | `src/pipeline/extract.js`, `src/lib/db.js` (`extraction_runs`) | one row per attempt of one queue entry | claim, finalize, recover a stored outcome | `UserMemory`, `Erasure` |
| Sweep | `src/pipeline/sweep.js` | none; a cron job | kick users with stale jobs, fail orphans | `Sweep` |
| MCP lane, Conversation Pages | `src/pipeline/mcp_engine.js`, `conversation_pages.js`, second half of the object | payload of the row, page (text, author, revision, state), MCP queue entries | stage over two doors, create or advance a page, enrich or follow, finalize, settle, announce, repair; the user's edit and deletion | `McpLane` |
| Erasure | `src/pipeline/cleanup.js`, `episodes.js`, `staged_text.js`, commit of `write.js` | deletion barriers, run and job states, packets, episodes, staged text, graph | `bulkDeleteBySource` against the door, the drain and the commit | `Erasure` |
| AI budget | `src/ai/provider_budget.js`, `dispatch.js` | reservations, daily and monthly totals, breaker, override | admit, reserve, invoke, settle, probe, reap, erase | `ProviderBudget` |
| Client outbox | `hooks/outbox.mjs`, `hooks/session-*.mjs` | a directory of files, two lock files | spool at session end, drain at session start: recover, expand, send in order, settle, collect | `Outbox` |
| Webhook outbox | `src/pipeline/webhooks.js` | `webhook_deliveries`, `webhooks` | emit, dispatch, deliver with retries, reclaim, expire, bury | `Webhooks` |
| Project lifecycle | `src/lib/project_lifecycle.js`, `managed_projects.js` | project row with its epoch, runs, lease of a run's driver, space registry | preview, confirm, insert, cancel, resume, drive; archive, restore, purge, delete step by step; ownership transfer | `ProjectLifecycle` |

How they interact. The door and the object share the D1 rows; the door calls the
object by RPC and answers the sender from the object's acknowledgement. The
object's drains run from its alarm and from the door; they read and write D1,
call the model through the run claim and the provider's budget, settle the rows
and emit webhook events. The sweep calls `kick` and writes rows behind the
object's back. The MCP lane uses the same rows, queue and lease for another kind
of entry, and a page's follower waits for the verdict of the ingest lane. An
erasure and a lifecycle run reach into all of these stores, behind barriers that
every writer has to read in the statement that writes. The client outbox is a
sender that retries with the same idempotency key.

What is hard about it:

* every await of D1, of the model or of another object is a point where another
  call, another drain, the sweep, a retry or an eviction may run;
* storage of the object and D1 are two stores with no common transaction: every
  protocol between them has a crash between its two halves;
* a failed job may be *reopened* under a new repair generation while work of the
  old one is still held, queued or being drained;
* packets overlap, and a message of one job is deduplicated against another's;
* leases and locks are timestamps, and their holder may outlast them: the drain
  lease, the driver's lease of a lifecycle run, the outbox's lock files, the
  reservation of a model call;
* an erasure must reach words that sit in five places, one statement at a time,
  while saves move them from one to the next.

### Not modelled

| Part | Code | Why |
| --- | --- | --- |
| Atomic capture | `src/pipeline/atomic_*.mjs` | its rows follow the extraction run they belong to |
| Retention | `src/lib/retention.js` | policies and expiry runs; only the discovery of a project's spaces is used, in `ProjectLifecycle` |
| Organizations, invitations, accounts | `src/lib/organizations.js`, `invitations.js`, … | access control beside the write path; a transfer of ownership is one step of `ProjectLifecycle` |
| Authentication, OAuth | `src/auth.js`, `src/lib/oauth.js` | credentials; an identity is a constant here |
| Recall and retrieval | `src/pipeline/recall.js`, `hybrid_retrieval.mjs` | read-only ranking; no protocol |
| Routes, MCP server, dashboard, workspace, exports, Huba | `src/index.js`, `src/mcp/server.js`, … | request shaping, presentation and read models |
| SDKs and framework adapters | `packages/`, `sdk/` | clients of the HTTP interface; their retries are calls of the models |

## 2. Modules

```
MemoryJobs -- UserMemory -- Ingest ------- Sweep     Ingest refines JobLedger
                              |              |
                         IngestProofs -- OwnershipProofs

Erasure        McpLane    ProviderBudget  ProjectLifecycle  Outbox  Webhooks
   |              |             |                |           |        |
ErasureProofs McpProofs   BudgetProofs    LifecycleProofs  |   WebhookProofs
                                                           OutboxProofs
```

`MCIngest`, `MCSweep`, `MCErasure`, `MCMcpLane`, `MCBudget`, `MCLifecycle`,
`MCOutbox` and `MCWebhooks` give the constants finite values.

**MemoryJobs.** A row is `[status, gen, attempts, remaining]`. `SettleDone`,
`SettleFailed` and `SettleAttempted` are the three dispositions of
`settleMemoryJobs`, guarded by `Settleable` (row still active, same repair
generation); `Reopened` is the update of `reopenExtractJobForReplay`.

**UserMemory.** One variable per stored thing (`held`, `seen`, `checkpoint`,
`queue`, `qseq`, `marker`, `lease`, `alarm`), the D1 tables the drains write
(`job`, `run`, `announced`), and two volatile variables, `call` and `drain`, that
say where each execution of `acceptMessagesOnce` and of `drain` stands.

* A *message* stands for the run of user messages of a packet that one queue
  entry holds together (20 messages or 12000 characters), so an entry has one
  message. Its number is its place in the order of arrival.
* A *step* is the code between two awaits that leave the object. Storage
  operations of a Durable Object close its input gate and `addMessages` runs
  under `blockConcurrencyWhile`, so such a stretch is not interleaved. It can be
  cut off, though: `CutOff` is the eviction, which ends every execution in the
  object. `Crash` is a `CutOff` at any point (a `Fault`, counted by `MaxFaults`);
  `CrashInAdd` is one between the local transaction of `addMessages` and its wake
  guarantee: a fault, or no fault at all where the marker has changed hands, since
  the code then throws inside `blockConcurrencyWhile` and the runtime resets it.
* The handoff goes `gen`, `prior`, `add`, `settle`, `own`; a drain goes `pick`,
  `read`, `check`, `claim`, `model`, `commit`, `put`, then either `bookkeep` (a
  retry) or `settle`, `verify`, `finalize`.
* A run of the model is `running`, then `committing`, then `wrote`, or it is
  skipped, failed or interrupted; `aged` and `stalled` are the first two past their
  time to live. Every status change is guarded on the status before it, except one:
  the batch of the graph may report an error, applied or not (`DrainCommit`), and
  the drain then writes `failed` whatever the run says by now (`DrainBroken`,
  `extract.js:1307`). `EngineFault` is a D1 call that fails inside the engine and the
  catch of `runExtraction`; a failure of the catch itself leaves the run as it is.
* Time is a set of enabling actions: `LeaseExpires`, `IdlePasses`,
  `BackoffElapses`, `RunAges`. `Fault` is a failed D1 call or an eviction.

**Ingest.** `req` holds each call's place, its repair generation and the row its
lookup returned, because `Reopen` compares against it. `Claim` merges the early
depth check of the door with the claim's own one. `Inline` may or may not start a
drain, an over-approximation of the condition `fired`.

**Sweep.** `SweepKick`, `SweepQuery` and `SweepFail` are the three awaits of the
sweep; `old` replaces the clock: a job becomes old when nobody has written its
row for 15 minutes and no HTTP call is at work on it (no call lasts that long).

**JobLedger.** The abstract specification: a write is absent, open, enriched or
failed, with a generation and a set of outstanding messages. `Ingest` implements
it, with the refinement mapping `Ledger`.

**Erasure.** A save is one message in one entry. Where `UserMemory` follows the
chunk, the marker and the lease, this module follows the *places* that hold the
words of a save (packet preview, episode, staged text, graph) and the statuses
that let it be published. The door, the drain and the erasure each go one
statement or batch at a time; `clock` orders acceptance against the barrier.

**McpLane.** `row` holds what the payload remembers of the page proposed; `page`
is kept by the batch that proposed it, with the set of batches its text renders
and whether the user wrote the wording. A call stages (claim, page, payload,
handoff), the drain takes an entry through `reads` … `finishes`, and `Breaks`,
`Dies` and `CallBreaks` fail or cut off any step. A compare-and-set that the code
reads and tries again is one step. One drain works at a time.

**ProviderBudget.** One reservation for each logical operation (a retry has the
same one), the totals it is charged to, the breaker with its probe, and the two
processes behind a call's back: the reaper and an erasure. The daily and the
monthly ceiling are one ledger, since the code moves both in one batch under one
guard; one failure count `Trip` stands for `GENERIC_TRIP` and `BILLING_TRIP`.
`billed` and `invoked` are what the provider saw. The breaker may start open: it
is shared with earlier traffic.

**Outbox.** `staged`, `manifest`, `place`, `tmp` and the lock files are the
directory; `mutation.lock` makes each short section one action, and a killed
process leaves a prefix of the section's file operations. `server` is what the
service has. `Stall` is a section not entered.

**Webhooks.** Rows, tasks that outlive their request, the cron, and the emission
of an event, which may be repeated. `quiet` and `aged` replace the clock.

**ProjectLifecycle.** A project is `[state, epoch]`. Requests preview, confirm and
insert a run; drivers load it, do one step of its phase against the database and
save it by compare-and-swap; each may die in between, and with `SlowDrivers` its
lease may be taken while it works. Saves go through `Accept`, `Start`, `Claim`,
`Commit`, each behind the guard of its own statement. The confirmation's checks
of actor, session, name and revision are the epoch.

## 3. What is checked

| Run | Instance | Properties | Distinct states |
| --- | --- | --- | --- |
| `calls` | two calls for one packet, both drains, four outcomes, one fault | `FirstAcceptanceHolds`, `SingleOwner`, `WakeGuaranteed`, `VerdictAnnounced`, `ImplementsLedger`, `InferenceFence`, `TerminalStable` | 795 000 |
| `share` | two overlapping packets of one context | `EnrichedMeansHandled` | 195 000 |
| `sweep` | one call, all five outcomes, one fault, the sweep, fairness | `OrphansHaveNoWork`, `AcceptedInSettledOut`, `EntriesLeave` | 48 000 |
| `budget` | two callers, two operations, a ceiling for one of them, two days, fairness | `MoneyConserved`, `WithinCeiling`, `InvokedOnce`, `SpendCovered`, `OneProbe`, `ErasureNotOvertaken`, `ProbeCloses`, `ReservationsEnd` | 188 000 |
| `erasure` | one save with two runs, two erasures, one fault, lost answers | `ErasedStaysErased`, `NoResurrection` | 835 000 |
| `outbox` | two sessions of one conversation (two batches, one batch), two drains, one of: a kill, a taken lock, a week, a busy lock; one refusal; fairness | `NothingLost`, `NeverWedged`, `InOrder`, `NoResend`, `Delivers` | 228 000 |
| `webhooks` | one event emitted twice to two hooks, two attempts, one death or lost answer, fairness | `NoCallOnceDelivered`, `EveryHookHears`, `EveryDeliveryEnds` | 465 000 |
| `mcp` | an MCP save and a REST save of one conversation, all outcomes, one upset, fairness | `OnePagePerConversation`, `AcceptedIsQueued`, `VerdictsAreAnnounced`, `CalledOnce`, `UserTextStands`, `SavesEnd` | 395 000 |
| `lifecycle` | one request, two overlapping drivers whose steps may outlast the lease, one save, two spaces, attempts that run out, one transfer | `PurgedStaysPurged`, `ArchivedIsQuiet`, `CheckpointHolds`, `PreviewedIsErased` | 997 000 |
| `lifecycle_ends` | one request, two spaces, two faults, a late row, a foreign space, fairness | `FencesEnd` | 175 000 |
| `rescued_copy` | two calls for a packet of two messages that end up in two entries, the alarm's drain, no fault | `NoStrandedWrite` (violated) | |
| `mcp_repair` | an MCP save that fails, is repaired, fails and is repaired again | `RepairsRunAfresh` (violated) | |

### The write path

* `FirstAcceptanceHolds`: the sender was told "accepted" and may have dropped its
  copy; while the row is active and was never repaired, each message that is
  still unsettled is in the object's storage. A retry, a context switch, a rescue,
  a crash or a slow drain must not break this. `NoStrandedWrite` claims the same of
  every generation, and the code does not keep it (`rescued_copy`, below).
* `EnrichedMeansHandled`: "enriched" is no false zero-write success. Each message
  is noise, or was answered for by the model, or is the business of a copy or of
  a job that is not enriched itself.
* `SingleOwner`: a retry recovers what is there instead of appending it again.
* `WakeGuaranteed`: no drain, and work in storage, means the alarm is set. The
  one exception is an eviction inside `addMessages` before its wake guarantee.
* `TerminalStable`, `ImplementsLedger`: verdicts are final; the row a sender can
  look up behaves as the abstract ledger.
* `InferenceFence`: one model call for one attempt, also when drains overlap and
  when a claim is past its time to live. A stored outcome is final, whoever else
  holds or gives up the run, with the one exception the code has: a drain whose own
  commit of the run reported an error records `db_write_failed` over it. What this
  exception costs is `RetrySettles`, below.
* `VerdictAnnounced`: the step in which an entry that carries a verdict leaves
  the object finds the event of a verdict of its job in the outbox. (Where the
  door settles a row itself, the emission is best effort, and nothing is claimed.)
* `AcceptedInSettledOut`, `EntriesLeave`: every preserved write gets a verdict,
  from a drain or from the sweep, and every queue entry leaves the queue.
* `OrphansHaveNoWork`: the sweep fails only what the object has no work for.

### The MCP lane

* `OnePagePerConversation`: batches that arrive at once over both doors, and any
  mixture of failure and repair, leave at most one live page.
* `AcceptedIsQueued`, `VerdictsAreAnnounced`: an accepted save has an entry or a
  verdict, and its entry goes only after the verdict was announced. Saves that a
  replay reopened are left out (below).
* `CalledOnce`: one model call for each run identity, across deaths and repairs.
* `UserTextStands`: no follower replaces the user's wording, whenever the edit
  lands, and no MCP save replaces an edit that landed after its attempt observed
  the page, whatever deaths, retries and advances come in between (`since` marks
  such an edit); deletion is another matter (below).
* `SavesEnd`: every staged save gets a verdict.

### Erasure, budget, outbox, webhooks, lifecycle

* `ErasedStaysErased`: once an erasure has answered, nothing accepted by its
  moment is in the graph or among the episodes, then or later, wherever the save
  was when the barrier was set. `NoResurrection`: a run it cancelled is not taken
  up again and does not end as written.
* `MoneyConserved`: what the ledger has reserved and used is what the rows say,
  over midnight. `WithinCeiling`, `InvokedOnce`, `SpendCovered`: no ceiling is
  passed, no reservation is sent twice or spent after it was given back.
  `OneProbe`: a half-open breaker sends one call. `ProbeCloses`: only the success of
  the probe that holds the breaker closes it, so the late success of a call from
  before does not. `ErasureNotOvertaken`: no
  covered content is at the provider once an erasure found none.
  `ReservationsEnd`: no reservation leaks.
* `NothingLost`: each batch of a queued session is on the disk in some form or
  with the service. `NeverWedged`: no state of the files from which a group can
  never be sent. `InOrder`: batches of a session, and sessions of a conversation,
  reach the service in order. `NoResend`: evidence of an acceptance is kept and
  honoured. `Delivers`: a queued session is delivered or its failure is on disk.
  `NeverWedged`, `NoResend` and `Delivers` are claimed while no living drain has
  lost its lock and no tombstones have expired (`Undisturbed`), and `Delivers`
  while failures have not filled the disk (`Clogged`).
* `NoCallOnceDelivered`: no endpoint that took a delivery is called for it again
  (a lost answer of the database apart). `EveryHookHears`: after an emission has
  run to its end every hook has its row. `EveryDeliveryEnds`: no row is left behind.
* `PurgedStaysPurged`: memory accepted before a finished purge or deletion is
  gone, and no save in flight brings it back when the project is active again.
  `ArchivedIsQuiet`: an archived project has no open job. `PreviewedIsErased`: a
  project is fenced for an erasure only in the epoch that was previewed.
  `CheckpointHolds`: whichever of the overlapping drivers saved it, what the
  checkpoint of an erasure says has been done has been done: every registered space
  is in its inventory, and in a space it is through with nothing is stored and
  nothing accepted can still be committed. It says nothing of what is saved after
  the operation is over: a driver that outlasts its lease erases it
  (`ErasedUnderFence`, below). `FencesEnd`: a fence
  comes down, or its run has failed for good or been cancelled.

Each property has a mutant: a plausible bug in one mapped definition (a dropped
guard, an off-by-one, a settlement that ends the job too soon, a lease that is
never checked) under which TLC finds the property violated in the same run.

These further properties are stated in the modules and hold in the instances
above: `IngestTypeOK`, `AcceptedSettles`, `SweepKeepsVerdicts`, `ErasureTypeOK`,
`VerdictStable`, `BudgetTypeOK`, `ErasureProceeds`, `OneDrain`,
`OutboxTypeOK`, `WebhookTypeOK`, `DeliveryStands`, `McpTypeOK`,
`LifecycleTypeOK`, `GraphStaysErased`. Three configurations are run by hand:
`MCContexts.cfg` checks `FirstAcceptanceHolds` and `OneDrain` for packets of two
contexts with noise and flush (816 000 states), `MCOverlap.cfg` checks
`InferenceFence` where entries are slower than the lease (156 000 states; theorem
`FenceHolds` covers it), `MCLifecycleTwo.cfg` checks the properties of `lifecycle`
for two operations with overlapping slow drivers over one space (3 588 000 states).

### Bounds, and why they are enough

* `MaxFaults`, `MaxUpsets`, `MaxKills`, `MaxEvents`: every single crash or failed
  call at every step, two in `lifecycle_ends`, where the recovery is itself a
  protocol, and none in `lifecycle`: a driver that is slow for ever is a dead one, and
  its lease passes to the other (one failed step with the same two drivers, 3 922 000
  states, was checked by hand). The recovery code keeps no count of crashes, and the
  proofs cover any number. `ErasedStaysErased` is claimed for one: two swallowed
  errors break it (below).
* `MaxAttempts`, `MaxCapacity`, `MaxRescues`, `MaxRepairs` stand for 3, 12, 1 and
  5, `Attempts` for 3 and `Trip` for 5 and 2. With 1 or 2 each counter is reached,
  exceeded and reset; the proofs cover every value.
* `MaxJobsPerDrain = 3`: the value of the code for the alarm (8 for the door).
* `MaxSeq = 3`: queue keys. A packet has at most two messages and each lineage
  is rescued at most once; behaviours that need a fourth key stop there, in the
  guards of `FireChunk`, `AddCommit` and `DrainRescue`.
* `MaxDepth` stands for 200 active writes. `Drains`: the platform never runs two
  alarm handlers of an object at once; one inline drain is enough to overlap it.
* `MaxClock = 3`, `MaxRuns = 2`, `MaxErases = 2`: a save before, at and after a
  barrier, retried once, under two barriers.
* `Ceiling = 1` with two operations of one unit: one admission too many is the
  interesting case. `Days = 2`: one midnight. `SlowCalls = FALSE`: the claims
  about the provider hold where no call outlasts its reservation.
* `MaxRaw = 4` against three envelopes, one spool file and the free slot.
* `Spaces = {1, 2}`: an inventory with a first space, a last one and one that is
  registered just before the fence. One operation in `lifecycle`: two of them meet
  only over one project's fence, which `MCLifecycleTwo.cfg` and the proofs cover.
  `MaxTries = 1` stands for the 25 residual rounds of a space; `Large` says whether
  a run may need more steps than its 500.
* `erasure`, `mcp` and the lifecycle runs do not check deadlock: with every
  sender answered and every operation over, the system rests.

### Fairness

* Write path: the runtime takes the steps of a running drain (`WF` of
  `DrainStep`); a set alarm is delivered (an alarm handler that is cut off is run
  again, which the platform promises); the cron sweep kicks a user with
  unfinished jobs; leases, idle times, backoffs and claims run out. Nothing is
  asked of a sender. `Sweep` adds that calls in progress are finished (they may
  be cut off by a fault), that a sweep ends, and, as `SF`, that a job left alone
  again and again grows old between two sweeps: a sweep takes seconds and starts
  every few minutes.
* MCP lane: calls that began end, the alarm keeps the drain going, backoffs end,
  the sweep runs.
* Budget: a call goes on or dies, reservations expire, the reaper runs (it is
  part of every admission and of the cron), and an erasure asks again.
* Outbox: sessions keep starting and their hooks go on, backoffs end, and a batch
  that is sent again and again is accepted or refused at last (`SF`).
* Webhooks: the cron runs, living tasks go on, time passes over rows nobody works on.
* Lifecycle: a living driver goes on with its step and lets go of a run that is
  over; the cron and the polls of the dashboard resume and drive what stands.

### Where the code departs from what it says

Two runs of the list end in a counterexample. `rescued_copy`: `user-memory.js:1045`
promises a crash-safe handoff of an accepted packet into the held chunk or the
queue. A packet that is split into two queue entries (20 messages or 12000
characters each) fails, and one entry is kept as a rescue. The repair's handoff
drops what is held under older generations (`#dropSupersededHeldOwnership`, :682)
and then awaits the row (:988). A drain that had taken the rescue up puts its
settled copy back in that window (`#finalizeExtractQueueState`, :2479), and
`addMessages` takes the message for one that the repair already holds
(`chunkIdentityOwners`, :1492, :1557). The repair is accepted on the strength of
its other message; the skipped one is in no chunk and no entry of the accepted
generation, and the row can only be given up by the sweep. No crash is needed.
`MCStaleCopy.cfg` below shows the same stale copy with another ending.

`mcp_repair`: `mcp_engine.js:895` says that a repair runs
under fresh run identities, but the failure of a repair rewrites the payload
(`mcp_engine.js:1727`) and drops the generation, so the second repair runs under
the first one's identities and is answered from its recorded failure.

The following configurations end in a counterexample too. They are kept to be run
by hand; each shows one such disagreement in the smallest instance found.

| Configuration | Property | What it shows |
| --- | --- | --- |
| `MCReplay.cfg` (`MCIngest`) | `NoPhantomAcceptance` | a call that loses the claim of a new key to a concurrent call, whose job has failed by then, answers as a plain duplicate (`ingest.js:579`), which the comment at `ingest.js:434` rules out |
| `MCStaleCopy.cfg` (`MCIngest`) | `EnrichedMeansHandled` | a copy of generation 0 that enters the held chunk after the repair dropped the superseded ones makes the repair's packet a duplicate of itself; the row is settled as enriched and nothing has been processed (three calls of one sender) |
| `MCCapacity.cfg` (`MCIngest`) | `RefusedAfterRepairs` | capacity refusals are written to the row's `attempts` (`user-memory.js:2882`), which the door reads as repairs (`ingest.js:437`): a packet whose provider was full is refused for good without one repair |
| `MCFutileKick.cfg` (`MCIngest`) | `KnownMeansReachable` | a settled rescue buffer keeps its job "known" although no trigger fires on it, so the sweep reports a rescue it does not achieve (comment at `user-memory.js:3059`) |
| `MCLostCommit.cfg` (`MCIngest`) | `RetrySettles` | the batch that writes the graph and moves the run to `wrote` is applied and its answer is lost; the run is then overwritten by an update without a condition (`extract.js:1307`), and the retry claims a new run and calls the model for a message whose graph is committed (comment at `extract.js:1244`: a retry "can therefore settle from this run without invoking the model again") |
| `MCSweepRace.cfg` (`MCSweep`) | `OrphansHaveNoWork` | with a second call: the sweep fails a job by what it read before, and a retry can hand the packet over in between (`sweep.js:94`) |
| `MCPageOrder.cfg` (`MCMcpLane`) | `BatchesStayOnPage` | the verdict of the batch that created a page, arriving after a later batch's, renders the page without that batch (`mcp_engine.js:1316-1343`; comment at 2086) |
| `MCLifecycleCancel.cfg` (`MCLifecycle`) | `CancelledBeforeFence` | a cancellation between the fence of the project (`project_lifecycle.js:858`) and the save of the run (:874) leaves a fenced project with a cancelled run (`docs/PROJECT_LIFECYCLE.md:32`) |
| `MCLifecycleCrash.cfg` | `EndedIsNotFailed` | a death between the last transition of the project (:974, :1104, :1195; :935) and the save makes the next driver see a superseded epoch and record a complete operation as failed (comment at 722) |
| `MCLifecycleBudget.cfg`, `MCLifecycleResidual.cfg` | `FencesEnd` | attempts are never reset, and at about five steps for each space the 512 spaces that are admitted do not fit in 500 attempts (:743); a space whose residue comes back throws before its checkpoint is saved (:1073) and the round is repeated for ever |
| `MCLifecycleSlow.cfg` | `ErasedUnderFence` | the epoch is compared once for each step (:877), so a step that outlasts its lease erases what was saved after another driver had finished (comments at 16, "Stale drivers become terminal no-ops", and 727) |
| `MCOutboxSpool.cfg` (`MCOutbox`) | `NeverWedged` | a `SessionEnd` that is killed with its spool file complete in `tmp/` and repeated: the repeat overtakes the recovery, which renames the old spool file beside the newer manifest (`outbox.mjs:2681`), and every later drain throws on the pair (`outbox.mjs:2208`); neither `claimDeliveryOrder` (:1608) nor `enqueueDeferredSession` (:2405) looks into `tmp/` |
| `MCLifecycleFresh.cfg` | `FreshWorkOnly` | writers check that the project is active, not its epoch (`db.js:241`, `write.js:28`): work that an archive cancelled may be committed after the restore (`docs/PROJECT_LIFECYCLE.md:71`) |

Not given a configuration, but seen while modelling (each is a property stated in
its module, or follows from the bound named):

* Erasure. `MaxFaults = 2` breaks `ErasedStaysErased`: deleting the episodes and
  counting them both swallow their errors and an error counts as none left
  (`episodes.js:457`, `:497`). `NoShadowArchive`: the insert of a packet is not
  guarded by the barrier (`source.js:667`). `HeldWorkCleared`: a drain whose
  awaits `resetAll` falls between puts its own copy back (`user-memory.js:3123`).
  `LaterSavesUntouched`: a save accepted after the barrier may be cancelled with
  the others (`cleanup.js:2084`).
* Outbox. `NeverWedged`, `NoResend` and `Delivers` fail without `Undisturbed`: a lock
  taken from a living drain (`outbox.mjs:1711`, `:3185`) or tombstones of one
  session that expire apart. `ReserveServes`: the free slot can be taken by another
  file (`outbox.mjs:73`, `:2061`). `RawRemoved`: a temporary envelope of a killed
  hook is recovered beside its tombstone (`outbox.mjs:2681`).
* MCP lane. An empty verdict of the creating batch deletes a page that was since
  advanced or edited (`mcp_engine.js:1946`); a repaired advance has lost its
  `pageAdvance` and finalizes as a creation; the repair of a pageless save throws
  after it has reopened the row (:1048); a repair that finds the entry of the
  failure still queued adds none, and the save waits for the sweep
  (`user-memory.js:1800`); a user's edit during the enrichment fails the save.
* Budget. With `SlowCalls` a call that outlasts its reservation is charged after
  the reaper gave the budget back: the expiry test of `markReservationInvoking`
  compares with the time of the admission.
* Sweep. With `SlowDrains`, `EntriesLeave` fails: a slow drain puts back an entry
  of an enriched job and dies, no alarm is set, and the sweep only kicks users
  with unfinished jobs. `OneDrain`, `WakeGuaranteed`, `SingleOwner` and
  `VerdictAnnounced` too are claimed where no entry outlasts the lease;
  `InferenceFence`, `FirstAcceptanceHolds` and, until a job is repaired,
  `EnrichedMeansHandled` survive (`FenceHolds`, `FirstAcceptance`, `EnrichedIsHandled`).
* Lifecycle. A run that fails for good after its fence (`Foreign`) leaves a project
  in a state in which no action is allowed.

Further hazards known and not stated as properties: a lost announcement when two
drains settle one row (`user-memory.js:2684`); rows in `awaiting_source` that
hold a slot until their sender retries (`sweep.js:57`); `clearLocalState`, which
clears entries of other projects (`user-memory.js:1968`).

## 4. What is proved

Inductive invariants, for every value of the constants that satisfies the
named assumptions of the modules; sets of jobs, requests, drains, callers, saves
and drivers are of any size.

| Module | Theorem | Statement |
| --- | --- | --- |
| `IngestProofs` | `Invariant`, `TypeCorrect` | `Spec => []IngestInv`, `Spec => []IngestTypeOK` |
| | `FenceHolds`, `VerdictsAreFinal` | `Spec => InferenceFence`, `Spec => TerminalStable` |
| | `LeaseExcludes` | `~SlowDrains` implies `Spec => []OneDrain` |
| `BudgetProofs` | `BooksInOrder`, `InvokesOnce`, `CeilingHolds` | `BudgetSpec => []BudgetInv`, `[]InvokedOnce`, `[]WithinCeiling` |
| | `CallsInTime`, `SpendIsCovered`, `ErasureIsNotOvertaken`, `ProbesAlone` | `~SlowCalls` implies `[]PromptInv`, `[]SpendCovered`, `[]ErasureNotOvertaken`, `[]OneProbe` |
| | `OnlyProbesClose` | `BudgetSpec => ProbeCloses` |
| | `BooksBalance`, `TypeCorrect` | `BudgetSpec => []MoneyConserved`, `[]BudgetTypeOK` |
| `McpProofs` | `LaneInOrder`, `PageIsUnique`, `AcceptedStays`, `VerdictsAreHeard` | `LaneSpec => []LaneInv`, `[]OnePagePerConversation`, `[]AcceptedIsQueued`, `[]VerdictsAreAnnounced` |
| | `RunsAreCalledOnce`, `UserTextIsKept` | `LaneSpec => CalledOnce`, `LaneSpec => UserTextStands` |
| `LifecycleProofs` | `Invariant`, `TypeCorrect`, `PurgesLast`, `ArchivesAreQuiet`, `FencesAsPreviewed` | `LifecycleSpec => []LifecycleInv`, `[]LifecycleTypeOK`, `[]PurgedStaysPurged`, `[]ArchivedIsQuiet`, `PreviewedIsErased` |
| | `CheckpointsHold` | `LifecycleSpec => []CheckpointHolds` |
| | `ErasesUnderFence` | `~SlowDrivers` implies `LifecycleSpec => ErasedUnderFence` |
| `OwnershipProofs` | `LedgerImplemented` | `Spec => ImplementsLedger` |
| | `Shared`, `Acceptance`, `FirstAcceptance` | `Spec => []SharedInv`, `[]AcceptInv`, `[]FirstAcceptanceHolds` |
| | `NeverAsleepOnWork`, `NoMessageTwice`, `VerdictBeforeOblivion` | `~SlowDrains` implies `Spec => []WakeGuaranteed`, `[]SingleOwner`, `VerdictAnnounced` |
| | `MessagesInCustody`, `EnrichedIsHandled` | `Spec => []HandledInv`, `Spec => [](no job was repaired => EnrichedMeansHandled)` |
| | `SweepIsSound`, `OrphansAreIdle`, `VerdictsOutliveTheSweep` | `OneCallEach` implies `SweepSpec => []SweepInv`, `OrphansHaveNoWork`, `SweepKeepsVerdicts` |
| `ErasureProofs` | `Invariant`, `TypeCorrect`, `GraphIsErased` | `ErasureSpec => []ErasureInv`, `[]ErasureTypeOK`, `[]GraphStaysErased` |
| | `ErasedIsGone` | `MaxFaults <= 1` implies `ErasureSpec => []ErasedStaysErased` |
| | `CancelledRunsStay`, `VerdictsStand` | `ErasureSpec => NoResurrection`, `VerdictStable` |
| `OutboxProofs` | `NothingIsLost`, `AcceptedOnce`, `DeliveredInOrder` | `OutboxSpec => []NothingLost`, `NoResend`, `InOrder` |
| | `NothingIsWedged` | `EndsOnce` implies `OutboxSpec => []NeverWedged` |
| `WebhookProofs` | `Invariant`, `DeliveredIsFinal`, `NoHookPassedOver` | `WebhookSpec => []WebhookInv`, `[]NoCallOnceDelivered`, `[]EveryHookHears` |
| | `OneTaskPerRow`, `DeliveryIsKept` | `WebhookSpec => []WebhookTypeOK`, `DeliveryStands` |

**IngestProofs.** `IngestTypeOK` is not inductive: nothing in the types keeps the
counters of an entry in their bounds when an attempt is added, nor a drain from
carrying no entry when it settles one. `IngestInv` adds that an entry without a
verdict has attempts and capacity refusals *below* their bounds (`LiveEntry`);
that a drain past `pick` carries a key and a live entry, without a verdict up to
`put` and with one from `settle` on (`Agrees`); and that a request about to reopen
a job holds a failed row whose repairs are not used up. There is a lemma for
every action, and `NextInv` combines them. `FenceHolds` looks at the steps of the
engine (`EngineMoves`) and at `RunAges`, the only ones that write `run`;
`SetRunFence` reduces each to the state the run was in, and `StepFence` combines
them. The unguarded failure of a broken commit is the one case in which a stored
outcome goes, and only for the drain that is at that point of that run.
`VerdictsAreFinal` goes over the actions that write `job` by `SettlementsStop`.
`LeaseExcludes` has an invariant of its own, `LeaseInv`: a running drain holds the
lease and the lease is live, since it may run out only under a drain cut off.

**BudgetProofs.** `BudgetInv` says, beside types, which place in its call an
execution may be at for the row it serves (`Working`), that a live row names its
execution (`Named`), that a row at the provider was invoked once and any other
not at all, and the ceiling; it is inductive for slow calls too, so `InvokesOnce`
and `CeilingHolds` need no assumption. `PromptInv` adds what only a prompt call
guarantees (`Timely`): an invoking row is served by a living call, the reaper is
never mistaken, a probe's token is its caller's. `BooksBalance` is about a sum over
the rows: `MoneyInv` adds that a row without a reservation has no day (`Undated`)
and that each total is the fold `MapThenSumSet` over the rows of its day
(`Balanced`). What a fold yields for every finite set is an induction; it is
done by taking a set of least size that breaks the claim (`WFMin`), which leads
to a smaller one, and needs no induction theorem.

**McpProofs.** `LaneInv` is `Rows` (a row and its payload), `Runs` (identities in
use), `Pages`, `OnePagePerConversation` and `Books` (which of row, entry and
request vouches for a save). `StepChanges` reduces every step of the lane to a
handful of ways a page may change (`PageChange`), which keep the page invariant
(an edit that no attempt has observed is the user's and moved the revision),
and `CarriesKeeps` and `OutsideKeeps` do the books.

**LifecycleProofs.** What a run claims to have done is kept in three places: its
row, the copy a driver has loaded, and the copy it is about to save. `Sound` says
that such a claim is true (`Binds`: the epoch; `Erases`: spaces already swept are
clean and under their barrier; `Archives`: no open job is left), and `Carried` that
it holds in all three. `Onward` is what every step does to the shared state;
`SoundOnward` shows that no step takes back what a claim relies on. Hence claims
stay true in stale copies, and the theorems hold for drivers that are slow or that
overlap. `PreviewedIsErased` follows because only `FenceProject` enters a fence
(`OnlyFenceErases`) and compares the confirmed epoch; `CheckpointsHold` is `Sound` of
the row, read off the invariant.

`ErasesUnderFence` needs the lease: `AloneInv` says that one driver at most has a
run in its hands, which it has leased (`Exclusive`), that one run is active at a
time (`Sole`), that a run a driver holds as active is (`Fresh`), and that between
the comparison of epochs and the removal the project's epoch does not move
(`Current`). A driver that outlasts its lease erases under a fence that has come down
(`MCLifecycleSlow.cfg`), so the hypothesis `~SlowDrivers` cannot be dropped.

**OwnershipProofs.** Who owns which message, in four layers over `IngestInv`.
`SharedInv` holds for slow drains too: an unclaimed row is blank and what remains of
a row is of its packet (`RowsInv`), an entry
key is minted once and a drain's entry is the copy under its key (`KeysInv`), the
chunk is of one context (`HeldInv`), no copy is of a generation its row has not
reached (`GensInv`), what is finalized is announced (`AnnounceInv`). Each action is
reduced to what it does to the store (`StoreStep`: the chunk is shifted into the
queue, extended, or stripped; an entry is taken up, put back, rescued, removed) and
to the places of calls and drains, and the parts are kept by these few moves.
`LoneDrainInv` adds the lease (`LeaseInv`, `LoneInv`) under `~SlowDrains`: a drain
that outlives its lease puts a finished entry back, and an eviction then leaves it
in the queue with no alarm set, so `WakeGuaranteed` and `VerdictAnnounced` are
false without the hypothesis. `AcceptInv` adds `UnclaimedInv` and `FirstInv` for
generation 0, whose copies no repair can strand: the marker, the chunk, the
entries and the drains are followed from the handoff to the verdict. That the same
of later generations is false is the finding of `rescued_copy`.
`LedgerImplemented` maps each action that writes `job` to one step of `JobLedger`.

`HandledInv` is the fourth layer, for slow drains and crashes too. `EvidenceInv`:
while the model has not been asked about a message, nothing in storage passes for
an answer about it (no stored run, no verdict, no drain about to record one, no
identity among the seen, no checkpoint: `Unread`). So no copy of it can be settled
as done or as a duplicate. `ContentInv`, `OverInv`, `AddInv`: a copy is of its packet, a row with
a verdict owes nothing, nobody settles a row whose first handoff is adding.
`CustodyInv` then follows each message of a packet: its row still owes it, or a
copy is in the object, its own or one of an overlapping packet, or a job that
carries it has failed (`Anchored`). It claims this as long as no job that carries the message
was repaired, since a repair's packet can be taken for a duplicate of itself
(`MCStaleCopy.cfg`); the hypothesis of `EnrichedIsHandled` cannot be dropped.

`SweepInv` is about the sweep, which fails a row by what it read of the packet
earlier. Where no two requests carry one job (`OneCallEach`), no row is ever
repaired, and a request that has not claimed its row finds none (`OnceInv`). What
a drain works on is still in the queue until its row has a verdict (`KeptInv`). `OrphansInv`: an old job is spent, the object holds nothing of an old
job that it did not report as live, hence nothing of an orphan, and so nothing
can move an orphan's row but the sweep. It needs no lease and bears slow drains,
crashes and faults. With a second call the row can be handed over after it was
read (`MCSweepRace.cfg`), so `OneCallEach` cannot be dropped.

**ErasureProofs.** `ErasureInv` is `TypeInv` (types, and what a drain and an
erasure carry), `Blank` (a save that has not arrived has no words anywhere),
`Fenced` (the moment an erasure covers is under the barrier) and `GraphSwept` (what
was published before the barrier is found by the first round of convergence).
`Onward` is what every step does to barriers and places, `GoneForGood` that nothing
covered comes back. The episodes need `EpisodesSwept`, which one
swallowed error leaves true and two do not: the bound of `ErasedIsGone` is sharp.

**OutboxProofs.** Four invariants, one above the other. `KeepInv`: a batch that has
landed stays landed, and a staged file goes only when all its batches have;
`NothingLost` follows under every disturbance. `TidyInv`: while no lock was taken
from a living drain, one drain is alive and each batch is in one directory. `PlansInv`: manifests,
stamps, staged and temporary files of a group agree; it needs that a session that
leaves a spool file ends once (`EndsOnce`), which `MCOutbox` satisfies and
`MCOutboxSpool.cfg` refutes otherwise. `OrderInv`: a session queued earlier in its
conversation has a smaller token than the order a drain has claimed, or has been
delivered, also in a listing the drain read long ago; `DeliveredInOrder` follows
with no hypothesis.

**WebhookProofs.** A living task writes its row too often to find it reclaimed, no
two hold the same row, and a delivered row has no task (`TasksOwn`); an emission
passes over no hook that is there (`EmissionsHear`).

Only model-checked:

* everything under fairness (`AcceptedInSettledOut`, `EntriesLeave`,
  `ReservationsEnd`, `Delivers`, `EveryDeliveryEnds`, `SavesEnd`, `FencesEnd`),
  which the prover cannot handle;
* `EnrichedMeansHandled` after a repair: it is false for three calls of one sender
  (`MCStaleCopy.cfg`), so nothing is claimed; `share` checks two packets that
  overlap, with one call each;
* `OrphansHaveNoWork` with a second call of a job: it is false
  (`MCSweepRace.cfg`), so nothing is claimed.

## 5. Left out of the modelled parts

* Write path: `clearLocalState`; the cap of 1000 seen identities; opt-out phrases
  and the `cancelled_by_*` outcomes at extraction (the erasure's are in `Erasure`);
  entries that mix jobs (a legacy format); recent-message and context snapshots;
  the reopening of an enriched job after an interrupted atomic capture; pruning of
  old rows. `blockConcurrencyWhile` resets the object when its callback throws,
  which is an eviction in the model. The eight rounds of the settlement's
  compare-and-set are one step, whose exhaustion is a failed call.
* MCP lane: rules, opt-outs, thin and oversized input, key conflicts and
  backpressure, which end a request before it stages anything; archived pages; two
  drains at once (in `UserMemory`).
* Erasure: scoped and single-object deletes, exports, semantic atoms, the deletion
  of an account, labels in receipts.
* Budget: routing, shadow comparison, the fallback to Workers AI, the account's own
  budget.
* Outbox: binding a credential, the eager enqueue that only tests call, v1 files,
  byte limits, the four-request and four-group limits of one drain.
* Webhooks: creating and listing hooks, test deliveries, signatures, URL checks.
* Lifecycle: vectors and the provider gate are a step that fails for now; the
  tables of the control plane are data; sessions, names and revisions of the
  confirmation are the epoch; retention policies.

## 6. Plan

Done: every module of section 2 and the proofs of section 4.

Every safety property that a passing run checks is stated by a theorem; what is
left for TLC alone is the liveness of section 4.

Next modules: `OwnershipTransfer` (`src/lib/ownership_transfer.js`: an offer that is
claimed, then the project's owner swapped, then both parties told; a death between
two of these), retention runs (`src/lib/retention.js`), scoped deletes and the
deletion of an account (`src/pipeline/cleanup.js`). The parts modelled are the
write path and what runs beside it; most lines of the repository are routes,
ranking, presentation and SDKs (section 1).
