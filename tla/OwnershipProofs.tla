--------------------------- MODULE OwnershipProofs ---------------------------
(***************************************************************************)
(* Theorems about who owns an accepted message, for every value of the     *)
(* constants of Ingest: the ledger is implemented, no message is owned     *)
(* twice, the object does not sleep on work, a verdict is announced before *)
(* it is forgotten, a first acceptance strands nothing, and until a repair *)
(* an enriched job is no false success; and about the sweep beside it,     *)
(* which fails no job that the object has work for.                        *)
(***************************************************************************)
EXTENDS IngestProofs, Sweep

USE MsgsAssumption, MsgsOfAssumption, RepairAssumption, CtxAssumption, DrainAssumption,
    BoundAssumption, OutcomeAssumption, ReqAssumption

SameCopy(e, f) == e.job = f.job /\ e.msg = f.msg /\ e.gen = f.gen /\ e.rescue = f.rescue

Busy(d) == drain[d].pc \notin {"off", "pick"}

(* What a step of the engine leaves alone, and where its drain goes.         *)
LEMMA EngineFrame ==
  ASSUME IngestInv, NEW d \in Drains, Engine(d)
  PROVE  /\ Busy(d)
         /\ UNCHANGED <<job, announced, chunkVars, queueVars, marker, lease, alarm, call, cut>>
         /\ \/ NextTurn(d)
            \/ \E pc \in {"model", "commit", "broken"} : Goto(d, pc)
            \/ \E out \in DrainOuts : Answer(d, out)
BY EngineMoves DEF IngestInv, Busy, EnginePcs

(* A row that is not there is NoRow, and no row owes more than its packet. *)
RowsInv ==
  \A j \in Jobs : /\ job[j].status = "none" => job[j] = NoRow
                  /\ job[j].remaining \subseteq MsgsOf[j]

(* Keys are minted once: a key names one copy of one message for ever. *)
KeysInv ==
  /\ \A k \in Keys : queue[k] # NoEntry => k <= qseq
  /\ \A d \in Drains : Busy(d) =>
       /\ drain[d].key <= qseq
       /\ queue[drain[d].key] # NoEntry => SameCopy(queue[drain[d].key], drain[d].e)
  /\ \A d, b \in Drains :
       Busy(d) /\ Busy(b) /\ drain[d].key = drain[b].key => SameCopy(drain[d].e, drain[b].e)

(* Nothing in the object is ahead of its row, and what a drain takes for     *)
(* superseded is.                                                            *)
GensInv ==
  /\ \A x \in held : x.gen <= job[x.job].gen
  /\ \A k \in Keys : queue[k] # NoEntry => queue[k].gen <= job[queue[k].job].gen
  /\ \A d \in Drains : Busy(d) => drain[d].e.gen <= job[drain[d].e.job].gen
  /\ \A d \in Drains : drain[d].pc = "superseded" => drain[d].e.gen < job[drain[d].e.job].gen
  /\ \A h \in Handoffs : call[h] \in {"prior", "add"} => h[2] <= job[h[1]].gen

(* A chunk of one extraction context that holds no message twice. *)
OneChunk(chunk) ==
  \A x, y \in chunk : Ctx[x.job] = Ctx[y.job] /\ (x.msg = y.msg => x = y)

(* The held chunk is one, and is idle only with work in it. *)
HeldInv ==
  /\ OneChunk(held)
  /\ idle => Unsettled(held) # {}

(* What a drain is about to finalize is announced. *)
Announced(e) ==
  \E state \in TERMINAL_JOB_STATES :
    /\ <<e.job, state>> \in announced
    /\ job[e.job].gen = e.gen => job[e.job].status = state
AnnounceInv == \A d \in Drains : drain[d].pc = "finalize" => Announced(drain[d].e)

(* An active row that was never repaired. *)
First(j) == Active(job[j]) /\ job[j].gen = 0

AllInObject(j) == \A m \in job[j].remaining : InObject(j, m, 0)

(* The object has nothing of the job's packet. *)
NothingOf(j) ==
  /\ \A x \in held : x.job # j
  /\ \A k \in Keys : queue[k] # NoEntry => queue[k].job # j
  /\ \A d \in Drains : Busy(d) => drain[d].e.job # j

(* Before the row is there, nothing knows of the packet. *)
UnclaimedInv ==
  \A j \in Jobs : job[j].status = "none" =>
    /\ NothingOf(j)
    /\ \A g \in Generations : call[<<j, g>>] = "off" /\ marker[<<j, g>>] = NoMarker
    /\ \A r \in Requests : ReqJob[r] = j =>
         req[r].pc \in {"new", "claim", "done"} /\ req[r].answer # "accepted"

(* What the first handoff of a row that was never repaired may show, by the  *)
(* state of its marker and call, and what its answers show.                  *)
FirstHandoff(j) ==
  LET h == <<j, 0>>
  IN  /\ marker[h].state \in {"none", "pending"} => NothingOf(j)
      /\ marker[h].state = "applied" =>
           \A m \in job[j].remaining : InObject(j, m, 0) \/ m \in marker[h].settled
      /\ marker[h].state = "accepted" => AllInObject(j)
      /\ call[h] \in {"gen", "prior", "add"} => marker[h].state \in {"none", "pending"}
      /\ call[h] \in {"settle", "own"} => marker[h].state = "applied"
      /\ call[h] \in {"own", "ok"} => AllInObject(j)

FirstAnswers(j) ==
  \A r \in Requests :
    ReqJob[r] = j /\ req[r].answer = "accepted" /\ req[r].gen = 0 => AllInObject(j)

FirstInv == \A j \in Jobs : First(j) => FirstHandoff(j) /\ FirstAnswers(j)

(* As long as no drain outlives its lease. *)

(* What a drain works on is still queued, with the verdict it knows of. *)
CarriesInv ==
  \A d \in Drains : Busy(d) =>
    /\ queue[drain[d].key] # NoEntry
    /\ queue[drain[d].key].verdict = drain[d].e.verdict

Original(x, j, m, g) == x.job = j /\ x.msg = m /\ x.gen = g /\ x.rescue = 0

(* A message has one place under one generation, and none before the handoff *)
(* of that generation has added it.                                          *)
PlacesInv ==
  /\ \A h \in Handoffs : call[h] \in {"prior", "add"} =>
       \A m \in Msgs :
         /\ \A x \in held : ~Original(x, h[1], m, h[2])
         /\ \A k \in Keys : queue[k] # NoEntry => ~Original(queue[k], h[1], m, h[2])
  /\ \A k, i \in Keys :
       queue[k] # NoEntry /\ queue[i] # NoEntry /\ queue[k].rescue = 0
         /\ SameCopy(queue[k], queue[i]) => k = i
  /\ \A k \in Keys, x \in held :
       queue[k] # NoEntry /\ x.rescue = 0 => ~SameCopy(queue[k], x)

WakeInv == HasWork(held, queue) /\ ~cut => alarm \/ drain[AlarmDrain].pc # "off"

LoneInv == CarriesInv /\ PlacesInv /\ WakeInv

---------------------------------------------------------------------------
(* The rows. What one step does to a row of memory_jobs.                    *)

RowStep(j, was, is) ==
  \/ was.status = "none" /\ is = ClaimedRow(j)
  \/ was.status = "awaiting_source" /\ is = [was EXCEPT !.status = "queued"]
  \/ \E g \in Generations : \E ms \in SUBSET Msgs : is = SettleDone(was, g, ms)
  \/ \E g \in Generations : is = SettleFailed(was, g)
  \/ \E g \in Generations : \E n \in Nat : is = SettleAttempted(was, g, n)
  \/ /\ was.status = "failed" /\ NextGeneration(was) \in Generations
     /\ is = Reopened(was, j)

RowWritten ==
  \E j \in Jobs : \E row : job' = [job EXCEPT ![j] = row] /\ RowStep(j, job[j], row)

(* Every step leaves the rows alone, or writes one as RowStep says. *)
LEMMA StepWritesRow == IngestInv /\ [Next]_vars => RowWritten \/ UNCHANGED job
<1> SUFFICES ASSUME IngestInv, [Next]_vars PROVE RowWritten \/ UNCHANGED job
  OBVIOUS
<1>1. ObjectInv /\ RequestInv /\ job \in [Jobs -> JobRow] /\ marker \in [Handoffs -> Marker]
  BY DEF IngestInv, ObjectInv, D1Type, ControlType
<1>2. ASSUME NEW h \in Handoffs, HandoffAdd(h) \/ HandoffSettle(h)
      PROVE  RowWritten \/ UNCHANGED job
  <2> DEFINE j == h[1]
             ms == IF HandoffAdd(h) THEN marker'[h].settled ELSE marker[h].settled
             row == IF ms = {} THEN job[j] ELSE SettleDone(job[j], h[2], ms)
  <2>1. j \in Jobs /\ h[2] \in Generations
    BY DEF Handoffs
  <2>2. ms \in SUBSET Msgs
    <3>1. CASE HandoffAdd(h)
      BY <1>1, <3>1, AddCommitType DEF HandoffAdd, Marker
    <3>2. CASE ~HandoffAdd(h)
      BY <1>1, <3>2 DEF Marker
    <3> QED BY <3>1, <3>2
  <2>3. job' = [job EXCEPT ![j] = row] \/ UNCHANGED job
    BY <1>2 DEF HandoffAdd, HandoffSettle
  <2>4. CASE ms = {}
    <3>1. row = job[j] /\ [job EXCEPT ![j] = job[j]] = job
      BY <1>1, <2>1, <2>4
    <3> QED BY <2>3, <3>1
  <2>5. CASE ms # {}
    <3> HIDE DEF ms
    <3>1. row = SettleDone(job[j], h[2], ms)
      BY <2>5
    <3>2. RowStep(j, job[j], row)
      BY <2>1, <2>2, <3>1 DEF RowStep
    <3> QED BY <2>1, <2>3, <3>2 DEF RowWritten
  <2> QED BY <2>4, <2>5
<1>3. ASSUME NEW h \in Handoffs, HandoffFinish(h)
      PROVE  RowWritten \/ UNCHANGED job
  <2> DEFINE j == h[1]
             row == SettleDone(job[j], h[2], job[j].remaining)
  <2>1. j \in Jobs /\ h[2] \in Generations
    BY DEF Handoffs
  <2>2. job[j].remaining \in SUBSET Msgs
    BY <1>1, <2>1 DEF JobRow
  <2>3. RowStep(j, job[j], row)
    BY <2>1, <2>2 DEF RowStep
  <2>4. job' = [job EXCEPT ![j] = row] \/ job' = [job EXCEPT ![j] = job[j]] \/ UNCHANGED job
    BY <1>3 DEF HandoffFinish
  <2>5. [job EXCEPT ![j] = job[j]] = job
    BY <1>1, <2>1
  <2> HIDE DEF row
  <2> QED BY <2>1, <2>3, <2>4, <2>5 DEF RowWritten
<1>4. ASSUME NEW d \in Drains, DrainBookkeep(d)
      PROVE  RowWritten \/ UNCHANGED job
  <2> DEFINE e == drain[d].e
             n == IF drain[d].out = "capacity" THEN e.attempts + e.cap ELSE e.attempts
             row == SettleAttempted(job[e.job], e.gen, n)
  <2>1. e \in Entry
    BY <1>1, <1>4 DEF ObjectInv, DrainOK, DrainInv, DrainBookkeep
  <2>2. e.job \in Jobs /\ e.gen \in Generations /\ n \in Nat
    BY <2>1 DEF Entry
  <2>3. RowStep(e.job, job[e.job], row)
    <3> HIDE DEF e, n
    <3> QED BY <2>2 DEF RowStep
  <2>4. job' = [job EXCEPT ![e.job] = row] \/ UNCHANGED job
    BY <1>4 DEF DrainBookkeep
  <2> HIDE DEF e, row
  <2> QED BY <2>2, <2>3, <2>4 DEF RowWritten
<1>5. ASSUME NEW d \in Drains, DrainSettle(d)
      PROVE  RowWritten \/ UNCHANGED job
  <2> DEFINE e == drain[d].e
             row == IF e.verdict = "failed" THEN SettleFailed(job[e.job], e.gen)
                    ELSE SettleDone(job[e.job], e.gen, {e.msg})
  <2>1. e \in Entry
    BY <1>1, <1>5 DEF ObjectInv, DrainOK, DrainInv, DrainSettle
  <2>2. e.job \in Jobs /\ e.gen \in Generations /\ {e.msg} \in SUBSET Msgs
    BY <2>1 DEF Entry
  <2>3. RowStep(e.job, job[e.job], row)
    <3> HIDE DEF e
    <3> QED BY <2>2 DEF RowStep
  <2>4. job' = [job EXCEPT ![e.job] = row] \/ UNCHANGED job
    BY <1>5 DEF DrainSettle
  <2> HIDE DEF e, row
  <2> QED BY <2>2, <2>3, <2>4 DEF RowWritten
<1>6. ASSUME NEW r \in Requests, Reopen(r)
      PROVE  RowWritten \/ UNCHANGED job
  <2> DEFINE j == ReqJob[r]
  <2>1. CASE req[r].row = job[j] /\ job' = [job EXCEPT ![j] = Reopened(job[j], j)]
    <3>1. j \in Jobs /\ job[j] \in JobRow /\ job[j].status = "failed" /\ ~RepairsExhausted(job[j])
      BY <1>1, <1>6, <2>1 DEF RequestInv, Reopen
    <3>2. RowStep(j, job[j], Reopened(job[j], j))
      BY <3>1, ReopenedTypes DEF RowStep
    <3> HIDE DEF j
    <3> QED BY <2>1, <3>1, <3>2 DEF RowWritten
  <2> QED BY <1>6, <2>1 DEF Reopen
<1>7. ASSUME NEW r \in Requests, Claim(r) \/ Activate(r)
      PROVE  RowWritten \/ UNCHANGED job
  <2> DEFINE j == ReqJob[r]
  <2>1. \/ job[j].status = "none" /\ job' = [job EXCEPT ![j] = ClaimedRow(j)]
        \/ /\ job[j].status = "awaiting_source"
           /\ job' = [job EXCEPT ![j] = [job[j] EXCEPT !.status = "queued"]]
        \/ UNCHANGED job
    BY <1>7 DEF Claim, Activate
  <2>2. j \in Jobs
    OBVIOUS
  <2>3. CASE job[j].status = "none" /\ job' = [job EXCEPT ![j] = ClaimedRow(j)]
    <3>1. RowStep(j, job[j], ClaimedRow(j))
      BY <2>3 DEF RowStep
    <3> QED BY <2>2, <2>3, <3>1 DEF RowWritten
  <2>4. CASE /\ job[j].status = "awaiting_source"
             /\ job' = [job EXCEPT ![j] = [job[j] EXCEPT !.status = "queued"]]
    <3>1. RowStep(j, job[j], [job[j] EXCEPT !.status = "queued"])
      BY <2>4 DEF RowStep
    <3> QED BY <2>2, <2>4, <3>1 DEF RowWritten
  <2> QED BY <2>1, <2>3, <2>4
<1>8. ASSUME NEW d \in Drains, DrainStep(d)
      PROVE  RowWritten \/ UNCHANGED job
  BY <1>4, <1>5, <1>8, EngineFrame DEF DrainStep, Engine, DrainPick, DrainDone, DrainRead,
     DrainCheck, DrainPut, DrainVerify, DrainFinalize, DrainRescue, DrainSuperseded, DrainFault,
     d1Vars
<1>9. ASSUME ObjectStep
      PROVE  RowWritten \/ UNCHANGED job
  BY <1>2, <1>3, <1>8, <1>9 DEF ObjectStep, HandoffStep, HandoffFault, HandoffGeneration,
     HandoffPrior, AlarmFires, LeaseExpires, IdlePasses, Kick, BackoffElapses, RunAges, d1Vars
<1>10. ASSUME NEW r \in Requests, RequestStep(r) \/ RequestFails(r)
       PROVE  RowWritten \/ UNCHANGED job
  BY <1>6, <1>7, <1>10 DEF RequestStep, RequestFails, Lookup, Conflict, CallHandoff,
     Inline, HandoffStart, DrainStart, umVars, d1Vars
<1>11. ASSUME Evict \/ UNCHANGED vars \/ \E h \in Handoffs : Deliver(h)
       PROVE  UNCHANGED job
  BY <1>11 DEF Evict, Crash, CrashInAdd, CutOff, Deliver, vars, umVars, d1Vars
<1> QED BY <1>9, <1>10, <1>11 DEF Next, Done

(* What RowStep leaves of a row: it never disappears, owes nothing beyond its *)
(* packet, never goes back to an earlier generation, and changes the verdict  *)
(* of its generation only by moving to a later one.                           *)
LEMMA RowStepKeeps ==
  ASSUME NEW j \in Jobs, NEW was \in JobRow, NEW is, RowStep(j, was, is),
         was.status = "none" => was = NoRow, was.remaining \subseteq MsgsOf[j]
  PROVE  /\ is.status = "none" => is = NoRow /\ was = NoRow
         /\ is.remaining \subseteq MsgsOf[j]
         /\ is.gen >= was.gen
         /\ Terminal(was) /\ is # was => is.gen > was.gen
<1>1. CASE was.status = "none" /\ is = ClaimedRow(j)
  BY <1>1 DEF NoRow, ClaimedRow, Terminal, TERMINAL_JOB_STATES
<1>2. CASE was.status = "awaiting_source" /\ is = [was EXCEPT !.status = "queued"]
  BY <1>2 DEF JobRow, Terminal, TERMINAL_JOB_STATES, Generations
<1>3. ASSUME NEW g \in Generations, NEW ms \in SUBSET Msgs, is = SettleDone(was, g, ms)
      PROVE  /\ is.gen = was.gen /\ is.remaining \subseteq was.remaining
             /\ is.status = "none" => is = was
             /\ Terminal(was) => is = was
  BY <1>3 DEF JobRow, SettleDone, Settleable, Active, ActiveStates, Terminal, TERMINAL_JOB_STATES
<1>4. ASSUME NEW g \in Generations, is = SettleFailed(was, g)
      PROVE  /\ is.gen = was.gen /\ is.remaining \subseteq was.remaining
             /\ is.status = "none" => is = was
             /\ Terminal(was) => is = was
  BY <1>4 DEF JobRow, SettleFailed, Settleable, Active, ActiveStates, Terminal, TERMINAL_JOB_STATES
<1>5. ASSUME NEW g \in Generations, NEW n \in Nat, is = SettleAttempted(was, g, n)
      PROVE  /\ is.gen = was.gen /\ is.remaining \subseteq was.remaining
             /\ is.status = "none" => is = was
             /\ Terminal(was) => is = was
  BY <1>5 DEF JobRow, SettleAttempted, Settleable, Active, ActiveStates, Terminal, TERMINAL_JOB_STATES
<1>6. CASE was.status = "failed" /\ NextGeneration(was) \in Generations /\ is = Reopened(was, j)
  BY <1>6 DEF JobRow, Reopened, NextGeneration, Generations
<1>7. was.gen \in Nat
  BY DEF JobRow, Generations
<1> QED BY <1>1, <1>2, <1>3, <1>4, <1>5, <1>6, <1>7 DEF RowStep

(* The same of all rows, with respect to a step of the system. *)
RowsKeep ==
  \A j \in Jobs :
    /\ job'[j].status = "none" => job[j].status = "none"
    /\ job'[j].gen >= job[j].gen
    /\ Terminal(job[j]) /\ job'[j] # job[j] => job'[j].gen > job[j].gen

LEMMA RowsInvKept == IngestInv /\ RowsInv /\ [Next]_vars => RowsInv' /\ RowsKeep
<1> SUFFICES ASSUME IngestInv, RowsInv, [Next]_vars PROVE RowsInv' /\ RowsKeep
  OBVIOUS
<1>1. job \in [Jobs -> JobRow] /\ \A j \in Jobs : job[j].gen \in Nat
  BY DEF IngestInv, ObjectInv, D1Type, JobRow, Generations
<1>2. CASE UNCHANGED job
  BY <1>1, <1>2 DEF RowsInv, RowsKeep
<1>3. CASE RowWritten
  <2>1. PICK j \in Jobs : \E row : job' = [job EXCEPT ![j] = row] /\ RowStep(j, job[j], row)
    BY <1>3 DEF RowWritten
  <2>2. PICK row : job' = [job EXCEPT ![j] = row] /\ RowStep(j, job[j], row)
    BY <2>1
  <2>3. /\ row.status = "none" => row = NoRow /\ job[j] = NoRow
        /\ row.remaining \subseteq MsgsOf[j]
        /\ row.gen >= job[j].gen
        /\ Terminal(job[j]) /\ row # job[j] => row.gen > job[j].gen
    BY <1>1, <2>2, RowStepKeeps DEF RowsInv
  <2>4. job'[j] = row /\ \A i \in Jobs : i # j => job'[i] = job[i]
    BY <1>1, <2>2
  <2>5. RowsInv'
    BY <2>3, <2>4 DEF RowsInv
  <2>6. RowsKeep
    BY <1>1, <2>3, <2>4 DEF RowsKeep, NoRow
  <2> QED BY <2>5, <2>6
<1> QED BY <1>2, <1>3, StepWritesRow

(* What RowStep shows of a row is a step of the ledger, or nothing.          *)
LedgerStep(j) ==
  \/ Ledger!Accept(j) \/ Ledger!Enrich(j) \/ Ledger!Fail(j)
  \/ \E done \in SUBSET MsgsOf[j] : Ledger!Progress(j, done)
  \/ \E g \in 1 .. MaxRepairs : Ledger!Repair(j, g)

LEMMA RowStepRefines ==
  ASSUME job \in [Jobs -> JobRow], RowsInv, NEW j \in Jobs, NEW row,
         job' = [job EXCEPT ![j] = row], RowStep(j, job[j], row)
  PROVE  LedgerStep(j) \/ UNCHANGED Ledger!ledger
<1> DEFINE was == job[j]
           states == [i \in Jobs |-> LedgerState(job[i])]
           gens == [i \in Jobs |-> job[i].gen]
           lefts == [i \in Jobs |-> job[i].remaining]
<1>1. was \in JobRow /\ (was.status = "none" => was = NoRow) /\ was.remaining \subseteq MsgsOf[j]
  BY DEF RowsInv
<1>2. /\ states' = [states EXCEPT ![j] = LedgerState(row)]
      /\ gens' = [gens EXCEPT ![j] = row.gen]
      /\ lefts' = [lefts EXCEPT ![j] = row.remaining]
  OBVIOUS
<1>3. /\ states \in [Jobs -> {LedgerState(job[i]) : i \in Jobs}] /\ states[j] = LedgerState(was)
      /\ gens \in [Jobs -> {job[i].gen : i \in Jobs}] /\ gens[j] = was.gen
      /\ lefts \in [Jobs -> {job[i].remaining : i \in Jobs}] /\ lefts[j] = was.remaining
  OBVIOUS
<1>4. /\ LedgerState(row) = LedgerState(was) => states' = states
      /\ row.gen = was.gen => gens' = gens
      /\ row.remaining = was.remaining => lefts' = lefts
  <2> HIDE DEF states, gens, lefts
  <2> QED BY <1>2, <1>3
<1>5. CASE LedgerState(row) = LedgerState(was) /\ row.gen = was.gen /\ row.remaining = was.remaining
  BY <1>4, <1>5 DEF Ledger!ledger
<1>6. CASE was.status = "none" /\ row = ClaimedRow(j)
  <2>1. /\ LedgerState(was) = "absent" /\ LedgerState(row) = "open"
        /\ row.gen = was.gen /\ row.remaining = MsgsOf[j]
    BY <1>1, <1>6 DEF LedgerState, ClaimedRow, NoRow, Active, ActiveStates
  <2>2. /\ states[j] = "absent" /\ states' = [states EXCEPT ![j] = "open"]
        /\ gens' = gens /\ lefts' = [lefts EXCEPT ![j] = MsgsOf[j]]
    <3> HIDE DEF states, gens, lefts
    <3> QED BY <1>2, <1>3, <1>4, <2>1
  <2>3. Ledger!Accept(j)
    BY <2>2 DEF Ledger!Accept
  <2> QED BY <2>3 DEF LedgerStep
<1>7. CASE was.status = "awaiting_source" /\ row = [was EXCEPT !.status = "queued"]
  <2>1. LedgerState(row) = LedgerState(was) /\ row.gen = was.gen /\ row.remaining = was.remaining
    BY <1>1, <1>7 DEF LedgerState, Active, ActiveStates, JobRow
  <2> QED BY <1>5, <2>1
<1>8. ASSUME NEW g \in Generations, NEW ms \in SUBSET Msgs, row = SettleDone(was, g, ms)
      PROVE  LedgerStep(j) \/ UNCHANGED Ledger!ledger
  <2>1. CASE ~Settleable(was, g)
    BY <1>5, <1>8, <2>1 DEF SettleDone
  <2>2. CASE Settleable(was, g)
    <3> DEFINE left == was.remaining \ ms
    <3>1. /\ LedgerState(was) = "open" /\ row.gen = was.gen /\ row.remaining = left
          /\ row.status = IF left = {} THEN "enriched" ELSE "processing"
      BY <1>1, <1>8, <2>2 DEF SettleDone, Settleable, LedgerState, Active, ActiveStates, JobRow
    <3>2. CASE left = {}
      <4>1. LedgerState(row) = "enriched" /\ row.remaining = {}
        BY <3>1, <3>2 DEF LedgerState, Active, ActiveStates
      <4>2. /\ states[j] = "open" /\ states' = [states EXCEPT ![j] = "enriched"]
            /\ gens' = gens /\ lefts' = [lefts EXCEPT ![j] = {}]
        <5> HIDE DEF states, gens, lefts
        <5> QED BY <1>2, <1>3, <1>4, <3>1, <4>1
      <4>3. Ledger!Enrich(j)
        BY <4>2 DEF Ledger!Enrich
      <4> QED BY <4>3 DEF LedgerStep
    <3>3. CASE left # {}
      <4> DEFINE done == ms \intersect MsgsOf[j]
      <4>1. LedgerState(row) = "open"
        BY <3>1, <3>3 DEF LedgerState, Active, ActiveStates
      <4>2. was.remaining \ done = left
        BY <1>1
      <4>3. /\ states[j] = "open" /\ lefts[j] \ done # {}
            /\ states' = states /\ gens' = gens
            /\ lefts' = [lefts EXCEPT ![j] = lefts[j] \ done]
        <5> HIDE DEF states, gens, lefts
        <5> QED BY <1>2, <1>3, <1>4, <3>1, <3>3, <4>1, <4>2
      <4>4. Ledger!Progress(j, done)
        BY <4>3 DEF Ledger!Progress
      <4> QED BY <4>4 DEF LedgerStep
    <3> QED BY <3>2, <3>3
  <2> QED BY <2>1, <2>2
<1>9. ASSUME NEW g \in Generations, row = SettleFailed(was, g)
      PROVE  LedgerStep(j) \/ UNCHANGED Ledger!ledger
  <2>1. CASE ~Settleable(was, g)
    BY <1>5, <1>9, <2>1 DEF SettleFailed
  <2>2. CASE Settleable(was, g)
    <3>1. /\ LedgerState(was) = "open" /\ LedgerState(row) = "failed"
          /\ row.gen = was.gen /\ row.remaining = {}
      BY <1>1, <1>9, <2>2 DEF SettleFailed, Settleable, LedgerState, Active, ActiveStates, JobRow
    <3>2. /\ states[j] = "open" /\ states' = [states EXCEPT ![j] = "failed"]
          /\ gens' = gens /\ lefts' = [lefts EXCEPT ![j] = {}]
      <4> HIDE DEF states, gens, lefts
      <4> QED BY <1>2, <1>3, <1>4, <3>1
    <3>3. Ledger!Fail(j)
      BY <3>2 DEF Ledger!Fail
    <3> QED BY <3>3 DEF LedgerStep
  <2> QED BY <2>1, <2>2
<1>10. ASSUME NEW g \in Generations, NEW n \in Nat, row = SettleAttempted(was, g, n)
       PROVE  LedgerStep(j) \/ UNCHANGED Ledger!ledger
  <2>1. LedgerState(row) = LedgerState(was) /\ row.gen = was.gen /\ row.remaining = was.remaining
    BY <1>1, <1>10 DEF SettleAttempted, Settleable, LedgerState, Active, ActiveStates, JobRow
  <2> QED BY <1>5, <2>1
<1>11. CASE was.status = "failed" /\ NextGeneration(was) \in Generations /\ row = Reopened(was, j)
  <2>1. was.gen \in Nat /\ was.attempts \in Nat
    BY <1>1 DEF JobRow, Generations
  <2>2. PICK g \in 1 .. MaxRepairs : g = NextGeneration(was) /\ g > was.gen
    BY <1>11, <2>1 DEF NextGeneration, Generations
  <2>3. /\ LedgerState(was) = "failed" /\ LedgerState(row) = "open"
        /\ row.gen = g /\ row.remaining = MsgsOf[j]
    BY <1>11, <2>2 DEF Reopened, LedgerState, Active, ActiveStates
  <2>4. /\ states[j] = "failed" /\ states' = [states EXCEPT ![j] = "open"]
        /\ gens[j] < g /\ gens' = [gens EXCEPT ![j] = g]
        /\ lefts' = [lefts EXCEPT ![j] = MsgsOf[j]]
    <3> HIDE DEF states, gens, lefts
    <3> QED BY <1>2, <1>3, <2>1, <2>2, <2>3
  <2>5. Ledger!Repair(j, g)
    BY <2>2, <2>4 DEF Ledger!Repair
  <2> QED BY <2>5 DEF LedgerStep
<1> QED BY <1>6, <1>7, <1>8, <1>9, <1>10, <1>11 DEF RowStep

(* The door and the object implement the ledger: whatever is retried, cut    *)
(* off, repaired or settled twice, the rows show a behaviour of JobLedger.   *)
THEOREM LedgerImplemented == Spec => ImplementsLedger
<1>1. Init => Ledger!LedgerInit /\ RowsInv
  <2>1. NoRow.gen = 0 /\ NoRow.remaining = {} /\ LedgerState(NoRow) = "absent"
    BY DEF NoRow, LedgerState
  <2>2. Init => job = [j \in Jobs |-> NoRow]
    BY DEF Init, UserMemoryInit
  <2>3. Init => RowsInv
    BY <2>1, <2>2 DEF RowsInv
  <2> QED BY <2>1, <2>2, <2>3 DEF Ledger!LedgerInit
<1>2. IngestInv /\ RowsInv /\ [Next]_vars => RowsInv'
  BY RowsInvKept
<1>3. IngestInv /\ RowsInv /\ [Next]_vars => [Ledger!LedgerNext]_Ledger!ledger
  <2> SUFFICES ASSUME IngestInv, RowsInv, [Next]_vars
               PROVE  Ledger!LedgerNext \/ UNCHANGED Ledger!ledger
    OBVIOUS
  <2>1. job \in [Jobs -> JobRow]
    BY DEF IngestInv, ObjectInv, D1Type
  <2>2. CASE UNCHANGED job
    BY <2>2 DEF Ledger!ledger
  <2>3. CASE RowWritten
    <3>1. PICK j \in Jobs : LedgerStep(j) \/ UNCHANGED Ledger!ledger
      BY <2>1, <2>3, RowStepRefines DEF RowWritten
    <3> QED BY <3>1 DEF LedgerStep, Ledger!LedgerNext
  <2> QED BY <2>2, <2>3, StepWritesRow
<1>4. Spec => [](IngestInv /\ RowsInv)
  BY <1>1, <1>2, Invariant, PTL DEF Spec
<1> QED BY <1>1, <1>3, <1>4, PTL DEF Spec, ImplementsLedger, Ledger!LedgerSpec

---------------------------------------------------------------------------
(* The store. What firing chunks does to the queue: q with last key n       *)
(* becomes p with last key m, where every message of X has its own new key. *)

Appends(q, n, p, m, X) ==
  /\ n <= m
  /\ \A k \in Keys : p[k] = q[k] \/ (n < k /\ k <= m /\ \E x \in X : p[k] = EntryOf(x))
  /\ \A x \in X : \E k \in Keys : n < k /\ k <= m /\ p[k] = EntryOf(x)
  /\ \A k, i \in Keys : n < k /\ n < i /\ p[k] # NoEntry /\ p[k] = p[i] => k = i

(* Different held messages become different entries. *)
LEMMA EntryOfInjective ==
  ASSUME NEW x \in Held, NEW y \in Held
  PROVE  /\ EntryOf(x) # NoEntry
         /\ SameCopy(EntryOf(x), x)
         /\ SameCopy(EntryOf(x), EntryOf(y)) => x = y
BY DEF EntryOf, NoEntry, Held, SameCopy

(* Ranks are distinct and run up to the size of the chunk. *)
LEMMA Ranks ==
  ASSUME NEW X \in SUBSET Held, IsFiniteSet(X), OneChunk(X), NEW x \in X
  PROVE  /\ Rank(x, X) \in 1 .. Cardinality(X)
         /\ \A y \in X : Rank(x, X) = Rank(y, X) => x = y
<1> DEFINE Below(z) == {w \in X : w.msg <= z.msg}
<1>1. ASSUME NEW z \in X
      PROVE  /\ IsFiniteSet(Below(z)) /\ Cardinality(Below(z)) <= Cardinality(X)
             /\ Cardinality(Below(z)) \in Nat /\ Below(z) # {} /\ z.msg \in Nat
  <2>1. z.msg \in Nat
    BY DEF Held
  <2>2. Below(z) \in SUBSET X /\ Below(z) # {}
    BY <2>1
  <2>3. IsFiniteSet(Below(z)) /\ Cardinality(Below(z)) <= Cardinality(X)
    BY <2>2, FS_Subset
  <2> QED BY <2>1, <2>2, <2>3, FS_CardinalityType
<1>2. Cardinality(X) \in Nat
  BY FS_CardinalityType
<1>3. \A z \in X : Rank(z, X) = Cardinality(Below(z))
  BY DEF Rank
<1>4. Cardinality(Below(x)) # 0
  BY <1>1, FS_EmptySet
<1>5. ASSUME NEW y \in X, Rank(x, X) = Rank(y, X)
      PROVE  x = y
  <2>1. Cardinality(Below(x)) = Cardinality(Below(y))
    BY <1>3, <1>5
  <2>2. x.msg \in Nat /\ y.msg \in Nat
    BY <1>1
  <2>3. Below(x) \in SUBSET Below(y) \/ Below(y) \in SUBSET Below(x)
    <3>1. \A w \in X : w.msg \in Nat
      BY <1>1
    <3> QED BY <2>2, <3>1
  <2>4. Below(x) = Below(y)
    BY <1>1, <2>1, <2>3, FS_Subset
  <2>5. x.msg = y.msg
    BY <2>2, <2>4
  <2> QED BY <2>5 DEF OneChunk
<1>6. Rank(x, X) \in 1 .. Cardinality(X)
  <2> HIDE DEF Below
  <2> QED BY <1>1, <1>2, <1>3, <1>4
<1> QED BY <1>5, <1>6

(* Firing a chunk appends it. *)
LEMMA EnqueueAppends ==
  ASSUME NEW q \in [Keys -> Entry \union {NoEntry}], NEW n \in Nat,
         \A k \in Keys : q[k] # NoEntry => k <= n,
         NEW X \in SUBSET Held, IsFiniteSet(X), OneChunk(X), n + Cardinality(X) <= MaxSeq
  PROVE  Appends(q, n, Enqueue(q, n, X), n + Cardinality(X), X)
<1> DEFINE p == Enqueue(q, n, X)
           m == n + Cardinality(X)
           At1(k, x) == k = n + Rank(x, X)
<1>1. Cardinality(X) \in Nat
  BY FS_CardinalityType
<1>2. \A x \in X : Rank(x, X) \in 1 .. Cardinality(X)
  BY Ranks
<1>3. \A x, y \in X : Rank(x, X) = Rank(y, X) => x = y
  BY Ranks
<1>4. ASSUME NEW x \in X
      PROVE  n + Rank(x, X) \in Keys /\ n < n + Rank(x, X) /\ n + Rank(x, X) <= m
  BY <1>1, <1>2 DEF Keys
<1>5. ASSUME NEW k \in Keys, NEW x \in X, k = n + Rank(x, X)
      PROVE  p[k] = EntryOf(x)
  <2> DEFINE c == CHOOSE h \in X : k = n + Rank(h, X)
  <2>1. c \in X /\ k = n + Rank(c, X)
    BY <1>5
  <2>2. p[k] = EntryOf(c)
    BY <1>5 DEF Enqueue
  <2>3. c = x
    <3> HIDE DEF c
    <3>1. Rank(c, X) \in Nat /\ Rank(x, X) \in Nat
      BY <1>1, <1>2, <2>1
    <3>2. Rank(c, X) = Rank(x, X)
      BY <1>5, <2>1, <3>1
    <3> QED BY <1>3, <2>1, <3>2
  <2> QED BY <2>2, <2>3
<1>6. ASSUME NEW k \in Keys, ~\E x \in X : k = n + Rank(x, X)
      PROVE  p[k] = q[k]
  BY <1>6 DEF Enqueue
<1>7. \A k \in Keys : p[k] = q[k] \/ (n < k /\ k <= m /\ \E x \in X : p[k] = EntryOf(x))
  BY <1>4, <1>5, <1>6
<1>8. \A x \in X : \E k \in Keys : n < k /\ k <= m /\ p[k] = EntryOf(x)
  BY <1>4, <1>5
<1>9. ASSUME NEW k \in Keys, NEW i \in Keys, n < k, n < i, p[k] # NoEntry, p[k] = p[i]
      PROVE  k = i
  <2>1. q[k] = NoEntry /\ q[i] = NoEntry
    BY <1>9 DEF Keys
  <2>2. PICK x \in X : k = n + Rank(x, X)
    BY <1>6, <1>9, <2>1
  <2>3. PICK y \in X : i = n + Rank(y, X)
    BY <1>6, <1>9, <2>1
  <2>4. EntryOf(x) = EntryOf(y)
    BY <1>5, <1>9, <2>2, <2>3
  <2>5. x = y
    BY <2>4, EntryOfInjective DEF SameCopy
  <2> QED BY <2>2, <2>3, <2>5
<1>10. n <= m
  BY <1>1
<1> HIDE DEF p, m
<1> QED BY <1>7, <1>8, <1>9, <1>10 DEF Appends, p, m

(* A chunk appended after another. *)
LEMMA AppendsTwice ==
  ASSUME NEW q, NEW n \in Nat, NEW p, NEW m \in Nat, NEW r, NEW l \in Nat,
         NEW X \in SUBSET Held, NEW Y \in SUBSET Held, X \intersect Y = {},
         \A k \in Keys : q[k] # NoEntry => k <= n,
         Appends(q, n, p, m, X), Appends(p, m, r, l, Y)
  PROVE  Appends(q, n, r, l, X \union Y)
<1>1. n <= m /\ m <= l /\ n <= l
  BY DEF Appends
<1>2. ASSUME NEW k \in Keys
      PROVE  /\ k <= m => r[k] = p[k]
             /\ k <= n => r[k] = q[k]
             /\ \/ r[k] = q[k]
                \/ n < k /\ k <= m /\ r[k] = p[k] /\ \E x \in X : r[k] = EntryOf(x)
                \/ m < k /\ k <= l /\ \E y \in Y : r[k] = EntryOf(y)
  <2>1. k \in Nat
    BY DEF Keys
  <2>2. k <= m => r[k] = p[k]
    BY <2>1 DEF Appends
  <2>3. k <= n => p[k] = q[k]
    BY <2>1 DEF Appends
  <2>4. r[k] = p[k] \/ (m < k /\ k <= l /\ \E y \in Y : r[k] = EntryOf(y))
    BY DEF Appends
  <2>5. p[k] = q[k] \/ (n < k /\ k <= m /\ \E x \in X : p[k] = EntryOf(x))
    BY DEF Appends
  <2> QED BY <1>1, <2>1, <2>2, <2>3, <2>4, <2>5
<1>3. ASSUME NEW x \in X
      PROVE  \E k \in Keys : n < k /\ k <= l /\ r[k] = EntryOf(x)
  <2>1. PICK k \in Keys : n < k /\ k <= m /\ p[k] = EntryOf(x)
    BY DEF Appends
  <2>2. r[k] = p[k] /\ k \in Nat
    BY <1>2, <2>1 DEF Keys
  <2> QED BY <1>1, <2>1, <2>2
<1>4. ASSUME NEW y \in Y
      PROVE  \E k \in Keys : n < k /\ k <= l /\ r[k] = EntryOf(y)
  <2>1. PICK k \in Keys : m < k /\ k <= l /\ r[k] = EntryOf(y)
    BY DEF Appends
  <2>2. k \in Nat
    BY DEF Keys
  <2> QED BY <1>1, <2>1, <2>2
<1>5. ASSUME NEW k \in Keys, NEW i \in Keys, n < k, n < i, r[k] # NoEntry, r[k] = r[i]
      PROVE  k = i
  <2>1. k \in Nat /\ i \in Nat
    BY DEF Keys
  <2>2. CASE k <= m /\ i <= m
    BY <1>2, <1>5, <2>2 DEF Appends
  <2>3. CASE m < k /\ m < i
    BY <1>5, <2>3 DEF Appends
  <2>4. ASSUME NEW a \in Keys, NEW b \in Keys, n < a, a <= m, m < b, r[a] # NoEntry, r[a] = r[b]
        PROVE  FALSE
    <3>1. a \in Nat /\ b \in Nat
      BY DEF Keys
    <3>2. q[a] = NoEntry /\ q[b] = NoEntry
      BY <1>1, <2>4, <3>1
    <3>3. PICK x \in X : r[a] = EntryOf(x)
      BY <1>2, <2>4, <3>1, <3>2
    <3>4. PICK y \in Y : r[b] = EntryOf(y)
      BY <1>2, <2>4, <3>1, <3>2
    <3>5. x = y
      BY <2>4, <3>3, <3>4, EntryOfInjective DEF SameCopy
    <3> QED BY <3>5
  <2>5. CASE k <= m /\ m < i
    BY <1>5, <2>4, <2>5
  <2>6. CASE i <= m /\ m < k
    BY <1>5, <2>4, <2>6
  <2> QED BY <2>1, <2>2, <2>3, <2>5, <2>6
<1>6. \A k \in Keys :
        r[k] = q[k] \/ (n < k /\ k <= l /\ \E x \in X \union Y : r[k] = EntryOf(x))
  <2> SUFFICES ASSUME NEW k \in Keys, r[k] # q[k]
               PROVE  n < k /\ k <= l /\ \E x \in X \union Y : r[k] = EntryOf(x)
    OBVIOUS
  <2>1. k \in Nat
    BY DEF Keys
  <2> QED BY <1>1, <1>2, <2>1
<1>7. \A x \in X \union Y : \E k \in Keys : n < k /\ k <= l /\ r[k] = EntryOf(x)
  BY <1>3, <1>4
<1> QED BY <1>1, <1>5, <1>6, <1>7 DEF Appends

(* Nothing appended. *)
LEMMA AppendsNothing ==
  ASSUME NEW q, NEW n \in Nat, \A k \in Keys : q[k] # NoEntry => k <= n
  PROVE  Appends(q, n, q, n, {})
BY DEF Appends, Keys

(* A chunk that fires is appended; one that does not stays held. *)
LEMMA FireChunkAppends ==
  ASSUME NEW q \in [Keys -> Entry \union {NoEntry}], NEW n \in Nat,
         \A k \in Keys : q[k] # NoEntry => k <= n,
         NEW chunk \in SUBSET Held, IsFiniteSet(chunk), OneChunk(chunk),
         NEW fire \in BOOLEAN, NEW same, FireChunk(fire, chunk, q, n, same)
  PROVE  /\ \E X \in SUBSET chunk : Appends(q, n, queue', qseq', X) /\ held' = chunk \ X
         /\ OneChunk(held')
         /\ idle' => idle /\ same /\ Unsettled(held') # {}
<1>1. idle' => idle /\ same /\ Unsettled(held') # {}
  BY DEF FireChunk
<1>2. CASE fire
  <2>1. /\ n + Cardinality(chunk) <= MaxSeq
        /\ queue' = Enqueue(q, n, chunk) /\ qseq' = n + Cardinality(chunk) /\ held' = {}
    BY <1>2 DEF FireChunk
  <2>2. Appends(q, n, queue', qseq', chunk) /\ held' = chunk \ chunk
    BY <2>1, EnqueueAppends
  <2> QED BY <1>1, <2>1, <2>2 DEF OneChunk
<1>3. CASE ~fire
  <2>1. queue' = q /\ qseq' = n /\ held' = chunk
    BY <1>3 DEF FireChunk
  <2>2. Appends(q, n, queue', qseq', {}) /\ held' = chunk \ {}
    BY <2>1, AppendsNothing
  <2> QED BY <1>1, <2>1, <2>2
<1> QED BY <1>2, <1>3

(* The chunk All takes the place of the held one: X of it fires, the rest    *)
(* is held. The keys of D are freed.                                         *)
Shifts(All, X, D) ==
  /\ All \subseteq Held /\ X \subseteq All /\ held' = All \ X /\ OneChunk(held')
  /\ qseq <= qseq'
  /\ \A k \in D : k <= qseq
  /\ \A k \in Keys :
       \/ k \notin D /\ queue'[k] = queue[k]
       \/ k \in D /\ queue'[k] = NoEntry
       \/ qseq < k /\ k <= qseq' /\ \E x \in X : queue'[k] = EntryOf(x)
  /\ \A x \in X : \E k \in Keys : qseq < k /\ queue'[k] = EntryOf(x)
  /\ \A k, i \in Keys :
       qseq < k /\ qseq < i /\ queue'[k] # NoEntry /\ queue'[k] = queue'[i] => k = i

Stored == ObjectInv /\ KeysInv /\ HeldInv

(* What Stored says of the store. *)
LEMMA StoredFacts ==
  ASSUME Stored
  PROVE  /\ held \in SUBSET Held /\ IsFiniteSet(held) /\ OneChunk(held)
         /\ queue \in [Keys -> Entry \union {NoEntry}] /\ qseq \in Nat /\ qseq <= MaxSeq
         /\ \A k \in Keys : queue[k] # NoEntry => k <= qseq
         /\ idle => Unsettled(held) # {}
         /\ drain \in [Drains -> DrainRec]
         /\ \A d \in Drains : Busy(d) => /\ drain[d].key \in Keys /\ drain[d].key <= qseq
                                         /\ drain[d].e \in Entry
BY DEF Stored, ObjectInv, ChunkType, QueueOK, QueueType, DrainOK, DrainInv, DrainType, Busy,
   KeysInv, HeldInv

(* Appending is shifting. *)
LEMMA AppendsShifts ==
  ASSUME NEW All \in SUBSET Held, NEW X \in SUBSET All,
         Appends(queue, qseq, queue', qseq', X), held' = All \ X, OneChunk(held')
  PROVE  Shifts(All, X, {})
BY DEF Appends, Shifts

(* A step that leaves the store alone shifts nothing. *)
LEMMA NothingShifts ==
  ASSUME Stored, UNCHANGED <<held, queue, qseq>>
  PROVE  Shifts(held, {}, {})
<1>1. Appends(queue, qseq, queue', qseq', {})
  BY StoredFacts, AppendsNothing
<1> QED BY <1>1, StoredFacts, AppendsShifts

(* A freed key, and nothing else. *)
LEMMA FreeingShifts ==
  ASSUME Stored, NEW k \in Keys, k <= qseq, queue' = [queue EXCEPT ![k] = NoEntry],
         UNCHANGED <<held, qseq>>
  PROVE  Shifts(held, {}, {k})
<1>1. \A i \in Keys : i # k => queue'[i] = queue[i]
  BY StoredFacts
<1>2. queue'[k] = NoEntry
  BY StoredFacts
<1>3. \A i \in Keys : qseq < i => queue'[i] = NoEntry
  BY <1>1, <1>2, StoredFacts DEF Keys
<1>4. OneChunk(held') /\ held' = held \ {} /\ qseq <= qseq'
  BY StoredFacts
<1> QED BY <1>1, <1>2, <1>3, <1>4, StoredFacts DEF Shifts

(* Of the held chunk, or of a part of it, all fires or all stays. *)
LEMMA HeldFires ==
  ASSUME Stored, NEW chunk \in SUBSET held, NEW fire \in BOOLEAN, NEW same,
         FireChunk(fire, chunk, queue, qseq, same)
  PROVE  /\ \E X \in SUBSET chunk : Shifts(chunk, X, {})
         /\ idle' => Unsettled(held') # {}
<1>1. /\ queue \in [Keys -> Entry \union {NoEntry}] /\ qseq \in Nat
      /\ \A k \in Keys : queue[k] # NoEntry => k <= qseq
  BY StoredFacts
<1>2. chunk \in SUBSET Held /\ IsFiniteSet(chunk) /\ OneChunk(chunk)
  BY StoredFacts, FS_Subset DEF OneChunk
<1>3. /\ \E X \in SUBSET chunk : Appends(queue, qseq, queue', qseq', X) /\ held' = chunk \ X
      /\ OneChunk(held')
      /\ idle' => idle /\ same /\ Unsettled(held') # {}
  BY <1>1, <1>2, FireChunkAppends
<1>4. PICK X \in SUBSET chunk : Appends(queue, qseq, queue', qseq', X) /\ held' = chunk \ X
  BY <1>3
<1>5. Shifts(chunk, X, {})
  BY <1>2, <1>3, <1>4, AppendsShifts
<1> QED BY <1>3, <1>5

(* The idle fire of a drain that starts. *)
LEMMA AcquireShifts ==
  ASSUME Stored, NEW d \in Drains, AcquireLease(d)
  PROVE  \E X \in SUBSET held : Shifts(held, X, {}) /\ (idle' => Unsettled(held') # {})
<1>1. FireChunk(idle, held, queue, qseq, TRUE) /\ idle \in BOOLEAN
  BY DEF AcquireLease, Stored, ObjectInv, ChunkType
<1> QED BY <1>1, HeldFires

(* The generation check drops what an earlier generation left in the chunk. *)
LEMMA GenerationShifts ==
  ASSUME Stored, NEW h \in Handoffs, HandoffGeneration(h)
  PROVE  \E All \in SUBSET held, X \in SUBSET held :
           /\ Shifts(All, X, {}) /\ (idle' => Unsettled(held') # {})
           /\ \A x \in held \ All : x.gen < job[x.job].gen
<1> DEFINE j == h[1]
           g == h[2]
           kept == {x \in held : ~(x.job = j /\ x.gen < g)}
           mine == \E x \in kept : x.job = j /\ x.gen = g
           owned == Owns(kept, queue, j, g)
<1>1. CASE UNCHANGED <<held, idle, queueVars>>
  <2>1. Shifts(held, {}, {})
    BY <1>1, NothingShifts DEF queueVars
  <2>2. idle' => Unsettled(held') # {}
    BY <1>1, StoredFacts DEF Unsettled
  <2> QED BY <2>1, <2>2
<1>2. kept \in SUBSET held /\ kept \in SUBSET Held /\ IsFiniteSet(kept) /\ OneChunk(kept)
  BY StoredFacts, FS_Subset DEF OneChunk
<1>3. CASE /\ job[j].gen = g
           /\ held' = kept /\ idle' = (idle /\ Unsettled(kept) # {})
           /\ UNCHANGED queueVars
  <2>1. Appends(queue, qseq, queue', qseq', {}) /\ held' = kept \ {} /\ OneChunk(held')
    BY <1>2, <1>3, StoredFacts, AppendsNothing DEF queueVars
  <2>2. Shifts(kept, {}, {})
    BY <1>2, <2>1, AppendsShifts
  <2>3. \A x \in held \ kept : x.gen < job[x.job].gen
    BY <1>3
  <2>4. idle' => Unsettled(held') # {}
    BY <1>3
  <2> HIDE DEF kept
  <2> QED BY <1>2, <2>2, <2>3, <2>4
<1>4. CASE /\ job[j].gen = g
           /\ \E fire \in BOOLEAN : FireChunk(fire, kept, queue, qseq, TRUE)
  <2>1. PICK fire \in BOOLEAN : FireChunk(fire, kept, queue, qseq, TRUE)
    BY <1>4
  <2>2. \A x \in held \ kept : x.gen < job[x.job].gen
    BY <1>4
  <2> HIDE DEF kept
  <2>3. (\E X \in SUBSET kept : Shifts(kept, X, {})) /\ (idle' => Unsettled(held') # {})
    BY <1>2, <2>1, HeldFires
  <2> QED BY <1>2, <2>2, <2>3
<1> QED BY <1>1, <1>3, <1>4, Zenon DEF HandoffGeneration

(* What a handoff puts into the chunk. *)
Handed(h, x) == x.job = h[1] /\ x.gen = h[2] /\ x.rescue = 0

(* It is of the packet and was not settled at the door, or a copy that was   *)
(* held for the job already.                                                 *)
Brought(h, x) ==
  /\ Handed(h, x)
  /\ \/ x.msg \in MsgsOf[h[1]] \ marker'[h].settled
     \/ \E y \in held : y.job = h[1] /\ y.msg = x.msg

(* The chunk All that the packet of handoff h makes of the held one, and     *)
(* what becomes of the packet's messages.                                    *)
Joins(h, All) ==
  /\ \A x \in All : x \in held \/ (marker[h].state = "pending" /\ Brought(h, x))
  /\ \A x \in held : x \in All \/ (x.job = h[1] /\ x.rescue = 0 /\ [x EXCEPT !.gen = h[2]] \in All)
  /\ marker[h].state # "pending" => marker' = marker
  /\ marker[h].state = "pending" =>
       /\ \E holds \in BOOLEAN, settled \in SUBSET Msgs :
            marker' = [marker EXCEPT ![h] = Applied(holds, settled)]
       /\ \A m \in MsgsOf[h[1]] :
            \/ m \in marker'[h].settled
            \/ \E x \in All : Handed(h, x) /\ x.msg = m
            \/ \E x \in held : x.job = h[1] /\ x.msg = m

(* Two chunks, the held one fired before the packet's. *)
LEMMA FiredBefore ==
  ASSUME Stored, NEW first \in SUBSET held, NEW q \in [Keys -> Entry \union {NoEntry}], NEW n \in Nat,
         Appends(queue, qseq, q, n, first),
         NEW chunk \in SUBSET Held, IsFiniteSet(chunk), OneChunk(chunk), first \intersect chunk = {},
         NEW fire \in BOOLEAN, NEW same, FireChunk(fire, chunk, q, n, same)
  PROVE  /\ \E X : Shifts(first \union chunk, X, {})
         /\ idle' => Unsettled(held') # {}
<1>1. \A k \in Keys : q[k] # NoEntry => k <= n
  <2>1. qseq \in Nat /\ qseq <= n /\ \A k \in Keys : queue[k] # NoEntry => k <= qseq
    BY StoredFacts DEF Appends
  <2>2. \A k \in Keys : q[k] = queue[k] \/ k <= n
    BY DEF Appends
  <2> QED BY <2>1, <2>2 DEF Keys
<1>2. /\ \E X \in SUBSET chunk : Appends(q, n, queue', qseq', X) /\ held' = chunk \ X
      /\ OneChunk(held')
      /\ idle' => idle /\ same /\ Unsettled(held') # {}
  BY <1>1, FireChunkAppends
<1>3. PICK X \in SUBSET chunk : Appends(q, n, queue', qseq', X) /\ held' = chunk \ X
  BY <1>2
<1>4. /\ qseq \in Nat /\ first \in SUBSET Held /\ X \in SUBSET Held /\ first \intersect X = {}
      /\ \A k \in Keys : queue[k] # NoEntry => k <= qseq
  BY StoredFacts
<1>5. qseq' \in Nat
  <2>1. CASE fire
    BY <2>1, FS_CardinalityType DEF FireChunk
  <2>2. CASE ~fire
    BY <2>2 DEF FireChunk
  <2> QED BY <2>1, <2>2
<1>6. Appends(queue, qseq, queue', qseq', first \union X)
  BY <1>3, <1>4, <1>5, AppendsTwice
<1>7. held' = (first \union chunk) \ (first \union X)
  BY <1>3
<1>8. Shifts(first \union chunk, first \union X, {})
  BY <1>2, <1>4, <1>6, <1>7, AppendsShifts
<1> QED BY <1>2, <1>8

(* A context switch fires the held chunk first. *)
LEMMA SwitchAppends ==
  ASSUME Stored, NEW switch \in BOOLEAN,
         switch => qseq + Cardinality(held) <= MaxSeq,
         NEW q, q = (IF switch THEN Enqueue(queue, qseq, held) ELSE queue),
         NEW n, n = (IF switch THEN qseq + Cardinality(held) ELSE qseq),
         NEW first, first = (IF switch THEN held ELSE {})
  PROVE  /\ first \in SUBSET held /\ Appends(queue, qseq, q, n, first)
         /\ q \in [Keys -> Entry \union {NoEntry}] /\ n \in Nat
<1>1. /\ queue \in [Keys -> Entry \union {NoEntry}] /\ qseq \in Nat
      /\ \A k \in Keys : queue[k] # NoEntry => k <= qseq
      /\ held \in SUBSET Held /\ IsFiniteSet(held) /\ OneChunk(held)
  BY StoredFacts
<1>2. Cardinality(held) \in Nat
  BY <1>1, FS_CardinalityType
<1>3. CASE switch
  <2>1. Appends(queue, qseq, q, n, held)
    BY <1>1, <1>3, EnqueueAppends
  <2>2. q \in [Keys -> Entry \union {NoEntry}]
    BY <1>1, <1>3, EnqueueTypes DEF Stored, ObjectInv, QueueOK, QueueInv
  <2> QED BY <1>1, <1>2, <1>3, <2>1, <2>2
<1>4. CASE ~switch
  BY <1>1, <1>4, AppendsNothing
<1> QED BY <1>3, <1>4

(* The local transaction of addMessages. *)
LEMMA AddShifts ==
  ASSUME Stored, NEW h \in Handoffs, AddCommit(h)
  PROVE  \E All, X : /\ Shifts(All, X, {}) /\ Joins(h, All)
                     /\ (idle' => Unsettled(held') # {})
<1> DEFINE j == h[1]
           g == h[2]
           c == Ctx[j]
           switch == OtherContext(held, c)
           q1 == IF switch THEN Enqueue(queue, qseq, held) ELSE queue
           n1 == IF switch THEN qseq + Cardinality(held) ELSE qseq
           first == IF switch THEN held ELSE {}
           chunk == IF switch THEN {} ELSE held
           dups == Duplicates(j, g, chunk)
           noise == (MsgsOf[j] \ dups) \intersect Noise
           fresh == (MsgsOf[j] \ dups) \ Noise
           new == {[job |-> j, msg |-> m, gen |-> g, rescue |-> 0] : m \in fresh}
           stamped == {Stamp(x, j, g) : x \in chunk}
           chunk1 == (IF fresh = {} THEN chunk ELSE stamped) \union new
           settled == noise \union {m \in dups : ~HeldBySelf(j, m, chunk)}
<1>1. j \in Jobs /\ g \in Generations /\ c \in Contexts
  BY DEF Handoffs
<1>2. dups \subseteq MsgsOf[j] /\ noise \subseteq Msgs /\ fresh \subseteq Msgs
      /\ settled \subseteq Msgs
  BY <1>1 DEF Duplicates
<1>3. held \in SUBSET Held /\ IsFiniteSet(held) /\ OneChunk(held)
  BY StoredFacts
<1>4. switch \in BOOLEAN
  BY Zenon DEF OtherContext
<1>5. first \in SUBSET held /\ Appends(queue, qseq, q1, n1, first)
      /\ q1 \in [Keys -> Entry \union {NoEntry}] /\ n1 \in Nat
  <2>1. n1 <= MaxSeq
    BY DEF AddCommit
  <2> HIDE DEF c
  <2> HIDE DEF switch
  <2> QED BY <1>4, <2>1, SwitchAppends
<1>6. /\ chunk \in SUBSET Held /\ IsFiniteSet(chunk) /\ OneChunk(chunk)
      /\ held = first \union chunk /\ first \intersect chunk = {}
      /\ \A x \in chunk : Ctx[x.job] = c
      /\ \A x \in first : x.job # j
  <2>1. CASE switch
    <3>1. PICK y \in held : Ctx[y.job] # c
      BY <2>1 DEF OtherContext
    <3>2. \A x \in held : Ctx[x.job] # c
      BY <1>3, <3>1 DEF OneChunk
    <3> QED BY <2>1, <3>2, FS_EmptySet DEF OneChunk
  <2>2. CASE ~switch
    BY <1>3, <2>2 DEF OtherContext
  <2> QED BY <2>1, <2>2
<1>7. chunk1 \in SUBSET Held /\ IsFiniteSet(chunk1)
  <2>0. fresh \in SUBSET Msgs
    BY <1>2
  <2> HIDE DEF j, g, chunk, fresh
  <2>1. new \in SUBSET Held /\ IsFiniteSet(new)
    BY <1>1, <2>0, FreshTypes, SMTT(30)
  <2>2. stamped \in SUBSET Held /\ IsFiniteSet(stamped)
    BY <1>1, <1>6, StampTypes, SMTT(30)
  <2> HIDE DEF new, stamped
  <2> QED BY <1>6, <2>1, <2>2, FS_Union
<1>8. \A x \in stamped : \E y \in chunk : x = Stamp(y, j, g) /\ x.msg = y.msg /\ x.job = y.job
  <2>1. \A y \in chunk : Stamp(y, j, g).msg = y.msg /\ Stamp(y, j, g).job = y.job
    BY <1>6 DEF Stamp, Held
  <2> QED BY <2>1
<1>9. \A x \in new : x.job = j /\ x.msg \in fresh /\ Handed(h, x)
  BY DEF Handed
<1>10. \A m \in fresh : \A x \in chunk : x.msg # m
  BY DEF Duplicates
<1>11. \A x \in first : x \notin new
  <2> HIDE DEF first, new, j
  <2> QED BY <1>6, <1>9
<1>12. OneChunk(chunk1) /\ first \intersect chunk1 = {}
  <2> HIDE DEF fresh, chunk, first, new, stamped, c
  <2>1. \A x \in new : Ctx[x.job] = c
    BY <1>9 DEF c
  <2>2. \A x, y \in new : x.msg = y.msg => x = y
    BY DEF new
  <2>3. \A x \in stamped : Ctx[x.job] = c
    BY <1>6, <1>8
  <2>4. \A x, y \in stamped : x.msg = y.msg => x = y
    <3> SUFFICES ASSUME NEW x \in stamped, NEW y \in stamped, x.msg = y.msg
                 PROVE  x = y
      OBVIOUS
    <3>1. PICK a \in chunk : x = Stamp(a, j, g) /\ x.msg = a.msg
      BY <1>8
    <3>2. PICK b \in chunk : y = Stamp(b, j, g) /\ y.msg = b.msg
      BY <1>8
    <3>3. a = b
      BY <1>6, <3>1, <3>2 DEF OneChunk
    <3> QED BY <3>1, <3>2, <3>3
  <2>5. \A x \in new, y \in stamped \union chunk : x.msg # y.msg
    BY <1>8, <1>9, <1>10
  <2>6. \A x \in first : x \notin stamped \union chunk \union new
    <3>1. \A x \in first : x \notin new
      BY <1>11
    <3>2. \A x \in first : x \notin stamped
      <4>1. CASE first = {}
        BY <4>1
      <4>2. CASE chunk = {}
        BY <4>2 DEF stamped
      <4> QED BY <4>1, <4>2 DEF first, chunk
    <3> QED BY <1>6, <3>1, <3>2
  <2>7. OneChunk(chunk1)
    BY <1>6, <2>1, <2>2, <2>3, <2>4, <2>5 DEF OneChunk
  <2> QED BY <2>6, <2>7
<1>13. CASE marker[h].state # "pending"
  <2>1. FireChunk(FALSE, chunk, q1, n1, ~switch) /\ marker' = marker
    BY <1>13, Zenon DEF AddCommit
  <2> HIDE DEF chunk, first, q1, n1, switch
  <2>2. (\E X : Shifts(first \union chunk, X, {})) /\ (idle' => Unsettled(held') # {})
    BY <1>5, <1>6, <2>1, FiredBefore
  <2>3. Joins(h, first \union chunk)
    BY <1>6, <1>13, <2>1 DEF Joins
  <2> QED BY <2>2, <2>3
<1>14. CASE marker[h].state = "pending"
  <2>1. /\ \E fire \in BOOLEAN : FireChunk(fire, chunk1, q1, n1, fresh = {} /\ ~switch)
        /\ marker' = [marker EXCEPT ![h] = Applied(fresh # {}, settled)]
    BY <1>14, Zenon DEF AddCommit
  <2>2. (\E X : Shifts(first \union chunk1, X, {})) /\ (idle' => Unsettled(held') # {})
    <3> DEFINE same == fresh = {} /\ ~switch
    <3>1. ASSUME NEW fire \in BOOLEAN, FireChunk(fire, chunk1, q1, n1, same)
          PROVE  (\E X : Shifts(first \union chunk1, X, {})) /\ (idle' => Unsettled(held') # {})
      <4> HIDE DEF same, chunk1, first, q1, n1
      <4>1. first \intersect chunk1 = {} /\ OneChunk(chunk1)
        BY <1>12
      <4>2. chunk1 \in SUBSET Held /\ IsFiniteSet(chunk1)
        BY <1>7
      <4>3. first \in SUBSET held /\ Appends(queue, qseq, q1, n1, first)
        BY <1>5
      <4>4. q1 \in [Keys -> Entry \union {NoEntry}] /\ n1 \in Nat
        BY <1>5
      <4>5. FireChunk(fire, chunk1, q1, n1, same)
        BY <3>1
      <4> HIDE DEF chunk, j, g, c, fresh, new, stamped, switch
      <4>6. CASE fire = TRUE
        <5>1. FireChunk(TRUE, chunk1, q1, n1, same)
          BY <4>5, <4>6
        <5> QED BY <4>1, <4>2, <4>3, <4>4, <5>1, FiredBefore
      <4>7. CASE fire = FALSE
        <5>1. FireChunk(FALSE, chunk1, q1, n1, same)
          BY <4>5, <4>7
        <5> QED BY <4>1, <4>2, <4>3, <4>4, <5>1, FiredBefore
      <4> QED BY <4>6, <4>7
    <3> HIDE DEF chunk1, first, q1, n1
    <3> QED BY <2>1, <3>1
  <2>3. \A x \in first \union chunk1 : x \in held \/ Brought(h, x)
    <3>1. ASSUME NEW x \in stamped
          PROVE  x \in held \/ Brought(h, x)
      <4>1. PICK y \in chunk : x = Stamp(y, j, g) /\ x.msg = y.msg
        BY <1>8, <3>1
      <4>2. y \in held /\ y \in Held
        BY <1>3, <1>6
      <4>3. CASE y.job = j /\ y.rescue = 0
        <5>1. Handed(h, x)
          BY <4>1, <4>2, <4>3 DEF Stamp, Handed, Held
        <5> QED BY <4>1, <4>2, <4>3, <5>1 DEF Brought
      <4>4. CASE ~(y.job = j /\ y.rescue = 0)
        BY <4>1, <4>2, <4>4 DEF Stamp
      <4> QED BY <4>3, <4>4
    <3>2. marker'[h].settled = settled
      BY <2>1 DEF Stored, ObjectInv, ControlType, Applied
    <3>3. \A m \in fresh : m \in MsgsOf[j] \ settled
      OBVIOUS
    <3> HIDE DEF settled, fresh, new, stamped, chunk, first
    <3>4. \A x \in new : Brought(h, x)
      BY <1>9, <3>2, <3>3 DEF Brought
    <3> QED BY <1>6, <3>1, <3>4
  <2>4. \A x \in held : \/ x \in first \union chunk1
                        \/ x.job = j /\ x.rescue = 0 /\ [x EXCEPT !.gen = g] \in first \union chunk1
    <3> SUFFICES ASSUME NEW x \in held, x \notin first, x \notin chunk1
                 PROVE  x.job = j /\ x.rescue = 0 /\ [x EXCEPT !.gen = g] \in chunk1
      OBVIOUS
    <3>1. x \in chunk /\ fresh # {}
      BY <1>6
    <3>2. Stamp(x, j, g) \in chunk1
      BY <3>1
    <3> QED BY <3>2 DEF Stamp
  <2>5. marker'[h].settled = settled
    BY <2>1 DEF Stored, ObjectInv, ControlType, Applied
  <2>6. \A m \in MsgsOf[j] : \/ m \in settled
                             \/ \E x \in first \union chunk1 : Handed(h, x) /\ x.msg = m
                             \/ \E x \in held : x.job = j /\ x.msg = m
    <3> SUFFICES ASSUME NEW m \in MsgsOf[j], m \notin settled
                 PROVE  \/ \E x \in first \union chunk1 : Handed(h, x) /\ x.msg = m
                        \/ \E x \in held : x.job = j /\ x.msg = m
      OBVIOUS
    <3>1. CASE m \in dups
      <4>1. HeldBySelf(j, m, chunk)
        BY <3>1
      <4> QED BY <1>6, <4>1 DEF HeldBySelf
    <3>2. CASE m \notin dups
      <4>1. m \in fresh
        BY <3>2
      <4> DEFINE y == [job |-> j, msg |-> m, gen |-> g, rescue |-> 0]
      <4>2. y \in new /\ y.msg = m
        BY <4>1
      <4>3. y \in first \union chunk1
        BY <4>2
      <4> HIDE DEF y, first, chunk1, new
      <4> QED BY <1>9, <4>2, <4>3
    <3> QED BY <3>1, <3>2
  <2>7. (fresh # {}) \in BOOLEAN
    BY Zenon
  <2> HIDE DEF settled, chunk1, first, fresh
  <2>8. Joins(h, first \union chunk1)
    <3>1. \E holds \in BOOLEAN, sm \in SUBSET Msgs : marker' = [marker EXCEPT ![h] = Applied(holds, sm)]
      BY <1>2, <2>1, <2>7
    <3> QED BY <1>14, <2>3, <2>4, <2>5, <2>6, <3>1 DEF Joins
  <2> QED BY <2>2, <2>8
<1> QED BY <1>13, <1>14

(* A meaningful no-write returns to the chunk, after a switch if need be. *)
LEMMA RescueShifts ==
  ASSUME Stored, NEW d \in Drains, DrainRescue(d)
  PROVE  \E All, X : /\ Shifts(All, X, {drain[d].key})
                     /\ held \subseteq All /\ \A x \in All : x \in held \/ x = Rescued(drain[d].e)
                     /\ (idle' => Unsettled(held') # {})
<1> DEFINE e == drain[d].e
           k == drain[d].key
           switch == OtherContext(held, Ctx[e.job])
           q1 == IF switch THEN Enqueue(queue, qseq, held) ELSE queue
           n1 == IF switch THEN qseq + Cardinality(held) ELSE qseq
           first == IF switch THEN held ELSE {}
           chunk == IF switch THEN {} ELSE held
           back == IF \E x \in chunk : x.msg = e.msg THEN {} ELSE {Rescued(e)}
<1>1. k \in Keys /\ k <= qseq /\ e \in Entry /\ qseq \in Nat
  BY StoredFacts DEF DrainRescue, Busy
<1>2. held \in SUBSET Held /\ IsFiniteSet(held) /\ OneChunk(held)
  BY StoredFacts
<1>3. Rescued(e) \in Held /\ Rescued(e).job = e.job /\ Rescued(e).msg = e.msg
  BY <1>1 DEF DrainRescue, EndsLineage, Entry, Rescued, Held, Generations
<1>4. switch \in BOOLEAN
  BY Zenon DEF OtherContext
<1>5. first \in SUBSET held /\ Appends(queue, qseq, q1, n1, first)
      /\ q1 \in [Keys -> Entry \union {NoEntry}] /\ n1 \in Nat
  <2>1. switch => qseq + Cardinality(held) <= MaxSeq
    BY DEF DrainRescue
  <2> HIDE DEF switch
  <2> QED BY <1>4, <2>1, SwitchAppends
<1>6. /\ \A x \in first : x.job # e.job
      /\ \A x \in chunk : Ctx[x.job] = Ctx[e.job]
      /\ held = first \union chunk /\ first \intersect chunk = {}
  <2>1. CASE switch
    <3>1. PICK y \in held : Ctx[y.job] # Ctx[e.job]
      BY <2>1 DEF OtherContext
    <3>2. \A x \in held : Ctx[x.job] # Ctx[e.job]
      BY <1>2, <3>1 DEF OneChunk
    <3> QED BY <2>1, <3>2
  <2>2. CASE ~switch
    BY <1>2, <2>2 DEF OtherContext
  <2> QED BY <2>1, <2>2
<1>7. /\ queue' = [q1 EXCEPT ![k] = NoEntry] /\ qseq' = n1 /\ held' = chunk \union back
      /\ idle' = (idle /\ ~switch)
  BY DEF DrainRescue
<1>8. \A x \in first : x \notin back
  <2> HIDE DEF first, e
  <2> QED BY <1>3, <1>6
<1>9. held' = (held \union back) \ first
  <2> HIDE DEF first, chunk, back
  <2> QED BY <1>6, <1>7, <1>8
<1>10. OneChunk(held')
  <2>1. \A x \in back : x = Rescued(e) /\ \A y \in chunk : y.msg # e.msg
    OBVIOUS
  <2>2. chunk \subseteq held
    OBVIOUS
  <2> HIDE DEF back, chunk, e
  <2> QED BY <1>2, <1>3, <1>6, <1>7, <2>1, <2>2 DEF OneChunk
<1>11. Shifts(held \union back, first, {k})
  <2>1. held \union back \subseteq Held
    BY <1>2, <1>3
  <2> HIDE DEF back, first, q1, n1, k
  <2>2. queue'[k] = NoEntry /\ \A i \in Keys : i # k => queue'[i] = q1[i]
    BY <1>1, <1>5, <1>7
  <2>3. \A i \in Keys : \/ i \notin {k} /\ queue'[i] = queue[i]
                        \/ i \in {k} /\ queue'[i] = NoEntry
                        \/ qseq < i /\ i <= qseq' /\ \E x \in first : queue'[i] = EntryOf(x)
    BY <1>5, <1>7, <2>2 DEF Appends
  <2>4. \A x \in first : \E i \in Keys : qseq < i /\ queue'[i] = EntryOf(x)
    <3> SUFFICES ASSUME NEW x \in first
                 PROVE  \E i \in Keys : qseq < i /\ queue'[i] = EntryOf(x)
      OBVIOUS
    <3>1. PICK i \in Keys : qseq < i /\ q1[i] = EntryOf(x)
      BY <1>5 DEF Appends
    <3>2. i # k
      BY <1>1, <3>1 DEF Keys
    <3> QED BY <2>2, <3>1, <3>2
  <2>5. \A i, l \in Keys :
          qseq < i /\ qseq < l /\ queue'[i] # NoEntry /\ queue'[i] = queue'[l] => i = l
    BY <1>5, <2>2 DEF Appends
  <2>6. qseq <= qseq'
    BY <1>5, <1>7 DEF Appends
  <2> QED BY <1>1, <1>5, <1>9, <1>10, <2>1, <2>3, <2>4, <2>5, <2>6 DEF Shifts
<1>12. idle' => Unsettled(held') # {}
  <2> SUFFICES ASSUME idle' PROVE Unsettled(held') # {}
    OBVIOUS
  <2>1. ~switch /\ Unsettled(held) # {}
    BY <1>7, StoredFacts
  <2>2. held \subseteq held'
    BY <1>7, <2>1
  <2> QED BY <2>1, <2>2 DEF Unsettled
<1>13. \A x \in held \union back : x \in held \/ x = Rescued(e)
  OBVIOUS
<1> HIDE DEF back, first, e, k
<1> QED BY <1>11, <1>12, <1>13 DEF e, k

(* Where the messages of a new chunk come from, what becomes of those it no  *)
(* longer has, and why an entry leaves.                                      *)
Sources(All) ==
  \A x \in All :
    \/ x \in held
    \/ \E h \in Handoffs : /\ call[h] = "add" /\ marker[h].state = "pending" /\ Brought(h, x)
                           /\ call'[h] # "add" /\ marker'[h].state = "applied"
    \/ \E d \in Drains : /\ drain[d].pc = "finalize" /\ drain[d].e.verdict = "rescue"
                         /\ x = Rescued(drain[d].e)

Drops(All) ==
  \A x \in held :
    \/ x \in All
    \/ x.gen < job[x.job].gen
    \/ \E h \in Handoffs : /\ call[h] = "add" /\ x.job = h[1] /\ x.rescue = 0
                           /\ [x EXCEPT !.gen = h[2]] \in All

(* Why a drain deletes the entry it works on. *)
Leaves(d) ==
  \/ drain[d].pc \in {"finalize", "superseded"}
  \/ /\ drain[d].pc \in {"read", "check"} /\ drain[d].e.verdict = "none"
     /\ job[drain[d].e.job].gen > drain[d].e.gen \/ Terminal(job[drain[d].e.job])

(* An entry of a superseded generation leaves with its own verdict announced. *)
LastWord(d) ==
  drain[d].pc = "superseded" =>
    \E state \in TERMINAL_JOB_STATES : <<drain[d].e.job, state>> \in announced'

Frees(D) ==
  \A k \in D : \E d \in Drains :
    Busy(d) /\ drain[d].key = k /\ Leaves(d) /\ LastWord(d) /\ drain'[d].pc = "pick"

ChunkStep ==
  \E All, X, D : Shifts(All, X, D) /\ Sources(All) /\ Drops(All) /\ D \subseteq Keys /\ Frees(D)

(* An entry is written back by the drain that works on it, or its backoff    *)
(* elapses.                                                                  *)
EntryStep ==
  /\ UNCHANGED <<held, qseq>>
  /\ \E k \in Keys, f \in Entry :
       /\ queue' = [queue EXCEPT ![k] = f]
       /\ \/ queue[k] # NoEntry /\ SameCopy(f, queue[k]) /\ f.verdict = queue[k].verdict
          \/ \E d \in Drains : /\ Busy(d) /\ drain[d].key = k /\ SameCopy(f, drain[d].e)
                               /\ \/ drain'[d].pc = "pick" /\ f.verdict = drain[d].e.verdict
                                  \/ Busy(d)' /\ drain'[d].e = f /\ drain'[d].key = k

StoreStep == (ChunkStep \/ EntryStep) /\ (idle' => Unsettled(held') # {})

(* A step that leaves the store alone. *)
LEMMA StoreKept ==
  ASSUME Stored, UNCHANGED <<held, idle, queue, qseq>>
  PROVE  StoreStep
<1>1. Shifts(held, {}, {}) /\ (idle' => Unsettled(held') # {})
  BY NothingShifts, StoredFacts
<1>2. Sources(held) /\ Drops(held) /\ Frees({})
  BY DEF Sources, Drops, Frees
<1> QED BY <1>1, <1>2 DEF StoreStep, ChunkStep

(* A drain that deletes the entry it works on. *)
LEMMA DeletingFrees ==
  ASSUME Stored, NEW d \in Drains, Busy(d), Leaves(d), LastWord(d),
         DeleteEntry(drain[d].key, drain[d].e), NextTurn(d), UNCHANGED <<held, idle>>
  PROVE  StoreStep
<1> DEFINE k == drain[d].key
<1>1. k \in Keys /\ k <= qseq
  BY StoredFacts
<1>2. Shifts(held, {}, {k}) /\ (idle' => Unsettled(held') # {})
  BY <1>1, FreeingShifts, StoredFacts DEF DeleteEntry
<1>3. drain'[d].pc = "pick"
  BY StoredFacts DEF NextTurn
<1>4. Sources(held) /\ Drops(held) /\ Frees({k})
  BY <1>3 DEF Sources, Drops, Frees
<1> QED BY <1>1, <1>2, <1>4 DEF StoreStep, ChunkStep

(* An entry written back. *)
LEMMA WritingSteps ==
  ASSUME Stored, NEW k \in Keys, NEW f \in Entry, queue' = [queue EXCEPT ![k] = f],
         UNCHANGED <<held, idle, qseq>>,
         \/ queue[k] # NoEntry /\ SameCopy(f, queue[k]) /\ f.verdict = queue[k].verdict
         \/ \E d \in Drains : /\ Busy(d) /\ drain[d].key = k /\ SameCopy(f, drain[d].e)
                              /\ \/ drain'[d].pc = "pick" /\ f.verdict = drain[d].e.verdict
                                 \/ Busy(d)' /\ drain'[d].e = f /\ drain'[d].key = k
  PROVE  StoreStep
<1>1. EntryStep
  BY DEF EntryStep
<1>2. idle' => Unsettled(held') # {}
  BY StoredFacts DEF Unsettled
<1> QED BY <1>1, <1>2 DEF StoreStep

(* A chunk that only fires, or drops what is behind its row. *)
LEMMA ShrinkingSteps ==
  ASSUME Stored, NEW All \in SUBSET held, NEW X, Shifts(All, X, {}),
         \A x \in held \ All : x.gen < job[x.job].gen,
         idle' => Unsettled(held') # {}
  PROVE  StoreStep
<1>1. Sources(All) /\ Drops(All) /\ Frees({})
  BY DEF Sources, Drops, Frees
<1> QED BY <1>1 DEF StoreStep, ChunkStep

(* The packet of a handoff joins the chunk. *)
LEMMA AddingSteps ==
  ASSUME Stored, NEW h \in Handoffs, AddCommit(h), call'[h] # "add"
  PROVE  StoreStep
<1>1. PICK All, X : Shifts(All, X, {}) /\ Joins(h, All) /\ (idle' => Unsettled(held') # {})
  BY AddShifts
<1>2. call[h] = "add"
  BY DEF AddCommit
<1>3. marker[h].state = "pending" => marker'[h].state = "applied"
  BY <1>1 DEF Joins, Applied, Stored, ObjectInv, ControlType
<1>4. Sources(All) /\ Drops(All) /\ Frees({})
  BY <1>1, <1>2, <1>3 DEF Joins, Sources, Drops, Frees
<1> QED BY <1>1, <1>4 DEF StoreStep, ChunkStep

(* What an outcome makes of an entry is the same copy. *)
LEMMA OutcomeSameCopy ==
  ASSUME NEW e \in Entry, NEW out
  PROVE  SameCopy(AfterOutcome(e, out), e)
BY DEF AfterOutcome, Settling, Retried, Entry, SameCopy

(* What every step does to the store. *)
LEMMA StepStore == IngestInv /\ Stored /\ [Next]_vars => StoreStep
<1> SUFFICES ASSUME IngestInv, Stored, [Next]_vars PROVE StoreStep
  OBVIOUS
<1>1. CASE UNCHANGED <<held, idle, queue, qseq>>
  BY <1>1, StoreKept
<1>2. \A d \in Drains : Busy(d) =>
        /\ drain[d].key \in Keys /\ drain[d].e \in Entry /\ Agrees(drain[d].pc, drain[d].e)
        /\ LiveEntry(drain[d].e)
  BY DEF Stored, ObjectInv, DrainOK, DrainInv, Busy
<1>3. ASSUME NEW h \in Handoffs, HandoffStep(h) \/ HandoffFault(h)
      PROVE  StoreStep
  <2>1. CASE HandoffGeneration(h)
    <3>1. PICK All \in SUBSET held, X \in SUBSET held :
            /\ Shifts(All, X, {}) /\ (idle' => Unsettled(held') # {})
            /\ \A x \in held \ All : x.gen < job[x.job].gen
      BY <2>1, GenerationShifts
    <3> QED BY <3>1, ShrinkingSteps
  <2>2. CASE HandoffAdd(h)
    <3>1. call'[h] # "add"
      BY <2>2 DEF HandoffAdd, Become, Stored, ObjectInv, ControlType
    <3> QED BY <2>2, <3>1, AddingSteps DEF HandoffAdd
  <2>3. CASE HandoffPrior(h) \/ HandoffSettle(h) \/ HandoffFinish(h) \/ HandoffFault(h)
    BY <1>1, <2>3 DEF HandoffPrior, HandoffSettle, HandoffFinish, HandoffFault, chunkVars, queueVars
  <2> QED BY <1>3, <2>1, <2>2, <2>3 DEF HandoffStep
<1>4. ASSUME NEW d \in Drains, AcquireLease(d)
      PROVE  StoreStep
  <2>1. PICK X \in SUBSET held : Shifts(held, X, {}) /\ (idle' => Unsettled(held') # {})
    BY <1>4, AcquireShifts
  <2>2. held \in SUBSET held /\ \A x \in held \ held : x.gen < job[x.job].gen
    OBVIOUS
  <2> QED BY <2>1, <2>2, ShrinkingSteps
<1>5. ASSUME NEW d \in Drains, DrainStart(d)
      PROVE  StoreStep
  BY <1>1, <1>4, <1>5 DEF DrainStart, LeaseHeld, queueVars
<1>6. CASE AlarmFires
  BY <1>1, <1>4, <1>6 DEF AlarmFires, LeaseHeld, queueVars
<1>7. ASSUME NEW d \in Drains, DeleteEntry(drain[d].key, drain[d].e), NextTurn(d),
             UNCHANGED <<held, idle>>, Busy(d), Leaves(d), LastWord(d)
      PROVE  StoreStep
  BY <1>7, DeletingFrees
<1>8. ASSUME NEW d \in Drains, SettleLater(d), UNCHANGED <<held, idle>>, Busy(d)
      PROVE  StoreStep
  <2> DEFINE f == [drain[d].e EXCEPT !.late = TRUE]
  <2>1. f \in Entry /\ SameCopy(f, drain[d].e) /\ f.verdict = drain[d].e.verdict
    BY <1>2, <1>8 DEF Entry, SameCopy
  <2>2. drain'[d].pc = "pick" /\ queue' = [queue EXCEPT ![drain[d].key] = f] /\ qseq' = qseq
    BY <1>8, StoredFacts DEF SettleLater, NextTurn
  <2> HIDE DEF f
  <2> QED BY <1>2, <1>8, <2>1, <2>2, WritingSteps
<1>9. ASSUME NEW d \in Drains, DrainPut(d)
      PROVE  StoreStep
  <2> DEFINE f == AfterOutcome(drain[d].e, drain[d].out)
             pc == IF f.verdict = "none" THEN "bookkeep" ELSE "settle"
  <2>1. Busy(d) /\ drain[d].pc = "put"
    BY <1>9 DEF DrainPut, Busy
  <2>2. drain[d].e \in Entry /\ LiveEntry(drain[d].e) /\ Agrees("put", drain[d].e)
    BY <1>2, <2>1
  <2>3. f \in Entry
    <3>1. drain[d].e.verdict = "none"
      BY <2>2 DEF Agrees, EnginePcs
    <3> QED BY <2>2, <3>1, AfterOutcomeTypes
  <2>4. SameCopy(f, drain[d].e)
    BY <2>2, OutcomeSameCopy
  <2>5. drain' = [drain EXCEPT ![d] = DrainAt(d, pc, f, drain[d].out)]
        /\ queue' = [queue EXCEPT ![drain[d].key] = f] /\ UNCHANGED <<held, idle, qseq>>
    BY <1>9 DEF DrainPut, chunkVars
  <2> HIDE DEF f
  <2>6. drain'[d].e = f /\ drain'[d].key = drain[d].key /\ Busy(d)'
    BY <2>5, StoredFacts DEF DrainAt, Busy
  <2> QED BY <1>2, <2>1, <2>3, <2>4, <2>5, <2>6, WritingSteps
<1>10. ASSUME NEW d \in Drains, DrainStep(d)
       PROVE  StoreStep
  <2>1. CASE DrainRead(d)
    <3>1. Busy(d)
      BY <2>1 DEF DrainRead, Busy
    <3>2. CASE /\ job[drain[d].e.job].gen > drain[d].e.gen /\ drain[d].e.verdict = "none"
               /\ DeleteEntry(drain[d].key, drain[d].e) /\ NextTurn(d)
      <4>1. Leaves(d) /\ LastWord(d)
        BY <2>1, <3>2 DEF DrainRead, Leaves, LastWord
      <4> QED BY <1>7, <2>1, <3>1, <3>2, <4>1 DEF DrainRead, chunkVars
    <3> QED BY <1>1, <2>1, <3>2 DEF DrainRead, chunkVars, queueVars
  <2>2. CASE DrainCheck(d)
    <3>1. Busy(d) /\ drain[d].e.verdict = "none" /\ drain[d].pc = "check"
      BY <1>2, <2>2 DEF DrainCheck, Busy, Agrees, EnginePcs
    <3>2. CASE Terminal(job[drain[d].e.job]) /\ DeleteEntry(drain[d].key, drain[d].e) /\ NextTurn(d)
      <4>1. Leaves(d) /\ LastWord(d)
        BY <3>1, <3>2 DEF Leaves, LastWord
      <4> QED BY <1>7, <2>2, <3>1, <3>2, <4>1 DEF DrainCheck, chunkVars
    <3> QED BY <1>1, <2>2, <3>2 DEF DrainCheck, chunkVars, queueVars
  <2>3. CASE DrainFinalize(d) \/ DrainSuperseded(d)
    <3>1. Busy(d) /\ Leaves(d)
      BY <2>3 DEF DrainFinalize, DrainSuperseded, Busy, Leaves
    <3>2. DeleteEntry(drain[d].key, drain[d].e) /\ NextTurn(d) /\ UNCHANGED <<held, idle>>
      BY <2>3 DEF DrainFinalize, DrainSuperseded, Retire, chunkVars
    <3>3. LastWord(d)
      BY <2>3 DEF DrainFinalize, DrainSuperseded, LastWord, TERMINAL_JOB_STATES
    <3> QED BY <1>7, <3>1, <3>2, <3>3
  <2>4. CASE DrainRescue(d)
    <3>1. PICK All, X : /\ Shifts(All, X, {drain[d].key})
                        /\ held \subseteq All /\ \A x \in All : x \in held \/ x = Rescued(drain[d].e)
                        /\ (idle' => Unsettled(held') # {})
      BY <2>4, RescueShifts
    <3>2. /\ Busy(d) /\ Leaves(d) /\ LastWord(d)
          /\ drain[d].pc = "finalize" /\ drain[d].e.verdict = "rescue"
      BY <2>4 DEF DrainRescue, Busy, Leaves, LastWord, EndsLineage
    <3>3. drain'[d].pc = "pick"
      BY <2>4, StoredFacts DEF DrainRescue, NextTurn
    <3>4. Sources(All) /\ Drops(All) /\ Frees({drain[d].key})
      BY <3>1, <3>2, <3>3 DEF Sources, Drops, Frees
    <3> QED BY <1>2, <3>1, <3>2, <3>4 DEF StoreStep, ChunkStep
  <2>5. CASE DrainSettle(d)
    <3>1. Busy(d) /\ UNCHANGED <<held, idle>>
      BY <2>5 DEF DrainSettle, Busy, chunkVars
    <3> QED BY <1>1, <1>8, <2>5, <3>1 DEF DrainSettle, queueVars
  <2>6. CASE DrainVerify(d)
    <3>1. Busy(d) /\ UNCHANGED <<held, idle>>
      BY <2>6 DEF DrainVerify, Busy, chunkVars
    <3> QED BY <1>1, <1>8, <2>6, <3>1 DEF DrainVerify, queueVars
  <2>7. CASE DrainPick(d) \/ DrainDone(d) \/ Engine(d) \/ DrainBookkeep(d) \/ DrainFault(d)
    BY <1>1, <2>7, EngineFrame DEF DrainPick, DrainDone, DrainBookkeep, DrainFault, chunkVars,
       queueVars
  <2> QED BY <1>9, <1>10, <2>1, <2>2, <2>3, <2>4, <2>5, <2>6, <2>7 DEF DrainStep, Engine
<1>11. CASE IdlePasses
  <2>1. UNCHANGED <<held, queue, qseq>> /\ Unsettled(held') # {}
    BY <1>11 DEF IdlePasses, queueVars
  <2>2. Shifts(held, {}, {})
    BY <2>1, NothingShifts
  <2>3. held \in SUBSET held /\ \A x \in held \ held : x.gen < job[x.job].gen
    OBVIOUS
  <2> QED BY <2>1, <2>2, <2>3, ShrinkingSteps
<1>12. ASSUME NEW k \in Keys, BackoffElapses(k)
       PROVE  StoreStep
  <2> DEFINE f == [queue[k] EXCEPT !.late = FALSE]
  <2>1. queue[k] \in Entry
    BY <1>12, StoredFacts DEF BackoffElapses
  <2>2. f \in Entry /\ SameCopy(f, queue[k]) /\ f.verdict = queue[k].verdict
    BY <2>1 DEF Entry, SameCopy
  <2>3. queue' = [queue EXCEPT ![k] = f] /\ UNCHANGED <<held, idle, qseq>> /\ queue[k] # NoEntry
    BY <1>12 DEF BackoffElapses, chunkVars
  <2> HIDE DEF f
  <2> QED BY <2>2, <2>3, WritingSteps
<1>13. CASE ObjectStep
  BY <1>1, <1>3, <1>6, <1>10, <1>11, <1>12, <1>13
     DEF ObjectStep, LeaseExpires, Kick, RunAges, chunkVars, queueVars
<1>14. ASSUME NEW r \in Requests, RequestStep(r) \/ RequestFails(r)
       PROVE  StoreStep
  <2>1. CASE Inline(r)
    BY <1>1, <1>5, <2>1 DEF Inline, umVars
  <2>2. CASE ~Inline(r)
    BY <1>1, <1>14, <2>2 DEF RequestStep, RequestFails, Lookup, Reopen, Claim, Conflict, Activate,
       CallHandoff, HandoffStart, umVars, chunkVars, queueVars
  <2> QED BY <2>1, <2>2
<1>15. CASE Evict
  <2>1. CASE Crash
    BY <1>1, <2>1 DEF Crash, chunkVars, queueVars
  <2>2. ASSUME NEW h \in Handoffs, CrashInAdd(h)
        PROVE  StoreStep
    <3>1. call'[h] # "add"
      BY <2>2 DEF CrashInAdd, CutOff
    <3> QED BY <2>2, <3>1, AddingSteps DEF CrashInAdd
  <2> QED BY <1>15, <2>1, <2>2 DEF Evict
<1>16. CASE UNCHANGED vars \/ \E h \in Handoffs : Deliver(h)
  BY <1>1, <1>16 DEF Deliver, vars, umVars, chunkVars, queueVars
<1> QED BY <1>13, <1>14, <1>15, <1>16 DEF Next, Done

---------------------------------------------------------------------------
(* The drains. What one step does to a drain: it takes an entry from the    *)
(* queue, or goes on with the one it has, which stays the same copy.        *)

Picked(d) ==
  /\ drain'[d].pc = "read"
  /\ \E k \in Keys : queue[k] # NoEntry /\ drain'[d].key = k /\ drain'[d].e = queue[k]
  /\ UNCHANGED <<job, held, queue, qseq, announced>>

GoesOn(d) ==
  /\ Busy(d)
  /\ drain'[d].key = drain[d].key
  /\ SameCopy(drain'[d].e, drain[d].e)
  /\ drain'[d].e.verdict = drain[d].e.verdict \/ queue'[drain[d].key] = drain'[d].e
  /\ drain'[d].pc = "superseded" => drain[d].e.gen < job[drain[d].e.job].gen
  /\ drain'[d].pc = "finalize" =>
       /\ Terminal(job[drain[d].e.job]) /\ UNCHANGED job
       /\ <<drain[d].e.job, job[drain[d].e.job].status>> \in announced'

DrainMove(d) ==
  drain'[d] = drain[d] \/ drain'[d].pc \in {"off", "pick"} \/ Picked(d) \/ GoesOn(d)

Others(d) == \A b \in Drains : b # d => drain'[b] = drain[b]

(* A drain that goes on with its entry unchanged. *)
LEMMA GotoGoesOn ==
  ASSUME IngestInv, NEW d \in Drains, Busy(d), NEW pc, Goto(d, pc),
         pc \notin {"superseded", "finalize"}
  PROVE  GoesOn(d) /\ Others(d)
<1>1. drain \in [Drains -> DrainRec]
  BY DEF IngestInv, ObjectInv, DrainOK, DrainType
<1>2. /\ drain'[d].pc = pc /\ drain'[d].key = drain[d].key /\ drain'[d].e = drain[d].e
      /\ Others(d)
  BY <1>1 DEF Goto, Others, DrainRec
<1> QED BY <1>2 DEF GoesOn, SameCopy

LEMMA AnswerGoesOn ==
  ASSUME IngestInv, NEW d \in Drains, Busy(d), NEW out, Answer(d, out)
  PROVE  GoesOn(d) /\ Others(d)
<1>1. drain \in [Drains -> DrainRec]
  BY DEF IngestInv, ObjectInv, DrainOK, DrainType
<1>2. /\ drain'[d].pc = "put" /\ drain'[d].key = drain[d].key /\ drain'[d].e = drain[d].e
      /\ Others(d)
  BY <1>1 DEF Answer, DrainAt, Others
<1> QED BY <1>2 DEF GoesOn, SameCopy

LEMMA TurnStops ==
  ASSUME IngestInv, NEW d \in Drains, NextTurn(d) \/ DrainExit(d) \/ Goto(d, "pick")
  PROVE  drain'[d].pc \in {"off", "pick"} /\ Others(d)
<1>1. drain \in [Drains -> DrainRec]
  BY DEF IngestInv, ObjectInv, DrainOK, DrainType
<1>2. [drain[d] EXCEPT !.pc = "pick"].pc = "pick"
  BY <1>1 DEF DrainRec
<1>3. CASE Goto(d, "pick")
  BY <1>1, <1>2, <1>3 DEF Goto, Others
<1>4. CASE NextTurn(d)
  BY <1>1, <1>4 DEF NextTurn, Others
<1>5. CASE DrainExit(d)
  BY <1>1, <1>5 DEF DrainExit, Others, DrainOff
<1> QED BY <1>3, <1>4, <1>5

LEMMA DrainStepMove ==
  ASSUME IngestInv, NEW d \in Drains, DrainStep(d)
  PROVE  DrainMove(d) /\ Others(d)
<1>1. drain \in [Drains -> DrainRec] /\ queue \in [Keys -> Entry \union {NoEntry}]
  BY DEF IngestInv, ObjectInv, DrainOK, DrainType, QueueOK, QueueType
<1>2. \A b \in Drains : Busy(b) => drain[b].key \in Keys /\ drain[b].e \in Entry
  BY DEF IngestInv, ObjectInv, DrainOK, DrainInv, Busy
<1>3. CASE NextTurn(d) \/ DrainExit(d)
  BY <1>3, TurnStops DEF DrainMove
<1>4. CASE DrainPick(d)
  <2>1. PICK k \in Keys :
          /\ Runnable(d, k)
          /\ drain' = [drain EXCEPT ![d] = [pc |-> "read", key |-> k, e |-> queue[k], out |-> None,
                                            attempted |-> drain[d].attempted \union {k}]]
    BY <1>4 DEF DrainPick
  <2>2. drain'[d].pc = "read" /\ drain'[d].key = k /\ drain'[d].e = queue[k] /\ Others(d)
    BY <1>1, <2>1 DEF Others
  <2>3. UNCHANGED <<job, held, queue, qseq, announced>>
    BY <1>4 DEF DrainPick, d1Vars, chunkVars, queueVars
  <2> QED BY <2>1, <2>2, <2>3 DEF DrainMove, Picked, Runnable
<1>5. CASE DrainRead(d)
  <2>1. Busy(d)
    BY <1>5 DEF DrainRead, Busy
  <2>2. CASE Goto(d, "superseded") /\ job[drain[d].e.job].gen > drain[d].e.gen
    <3>1. /\ drain'[d].pc = "superseded" /\ drain'[d].key = drain[d].key
          /\ drain'[d].e = drain[d].e /\ Others(d)
      BY <1>1, <2>2 DEF Goto, Others, DrainRec
    <3>2. drain[d].e.gen \in Nat /\ job[drain[d].e.job].gen \in Nat
      BY <1>2, <2>1 DEF Entry, Generations, IngestInv, ObjectInv, D1Type, JobRow
    <3> QED BY <2>1, <2>2, <3>1, <3>2 DEF DrainMove, GoesOn, SameCopy
  <2>3. CASE Goto(d, "settle") \/ Goto(d, "check") \/ Goto(d, "claim")
    BY <2>1, <2>3, GotoGoesOn DEF DrainMove
  <2> QED BY <1>3, <1>5, <2>2, <2>3 DEF DrainRead
<1>6. CASE DrainCheck(d)
  <2>1. Busy(d) /\ (NextTurn(d) \/ Goto(d, "claim"))
    BY <1>6 DEF DrainCheck, Busy
  <2> QED BY <1>3, <2>1, GotoGoesOn DEF DrainMove
<1>7. CASE Engine(d)
  <2>1. /\ Busy(d)
        /\ \/ NextTurn(d)
           \/ \E pc \in {"model", "commit", "broken"} : Goto(d, pc)
           \/ \E out \in DrainOuts : Answer(d, out)
    BY <1>7, EngineFrame
  <2> QED BY <1>3, <2>1, GotoGoesOn, AnswerGoesOn DEF DrainMove
<1>8. CASE DrainPut(d)
  <2> DEFINE f == AfterOutcome(drain[d].e, drain[d].out)
             pc == IF f.verdict = "none" THEN "bookkeep" ELSE "settle"
  <2>1. Busy(d)
    BY <1>8 DEF DrainPut, Busy
  <2>2. drain[d].e \in Entry /\ drain[d].key \in Keys
    BY <1>2, <2>1
  <2>3. SameCopy(f, drain[d].e)
    BY <2>2, OutcomeSameCopy
  <2>4. drain' = [drain EXCEPT ![d] = DrainAt(d, pc, f, drain[d].out)]
        /\ queue' = [queue EXCEPT ![drain[d].key] = f]
    BY <1>8 DEF DrainPut
  <2>5. pc \notin {"superseded", "finalize"}
    OBVIOUS
  <2> HIDE DEF f, pc
  <2>6. drain'[d].e = f /\ drain'[d].key = drain[d].key /\ drain'[d].pc = pc /\ Others(d)
    BY <1>1, <2>4 DEF DrainAt, Others
  <2>7. queue'[drain[d].key] = f
    BY <1>1, <2>2, <2>4
  <2> QED BY <2>1, <2>3, <2>5, <2>6, <2>7 DEF DrainMove, GoesOn
<1>9. CASE DrainSettle(d)
  <2>1. Busy(d)
    BY <1>9 DEF DrainSettle, Busy
  <2> QED BY <1>3, <1>9, <2>1, GotoGoesOn DEF DrainMove, DrainSettle, SettleLater
<1>10. CASE DrainVerify(d)
  <2>1. Busy(d) /\ UNCHANGED job
    BY <1>10 DEF DrainVerify, Busy
  <2>2. CASE Goto(d, "finalize") /\ Terminal(job[drain[d].e.job])
             /\ announced' = announced \union {<<drain[d].e.job, job[drain[d].e.job].status>>}
    <3>1. /\ drain'[d].pc = "finalize" /\ drain'[d].key = drain[d].key
          /\ drain'[d].e = drain[d].e /\ Others(d)
      BY <1>1, <2>2 DEF Goto, Others, DrainRec
    <3>2. GoesOn(d)
      BY <2>1, <2>2, <3>1 DEF GoesOn, SameCopy
    <3> QED BY <3>1, <3>2 DEF DrainMove
  <2> QED BY <1>3, <1>10, <2>2 DEF DrainVerify, SettleLater
<1>11. CASE DrainBookkeep(d) \/ DrainFinalize(d) \/ DrainRescue(d) \/ DrainSuperseded(d)
            \/ DrainDone(d) \/ DrainFault(d)
  <2>1. NextTurn(d) \/ DrainExit(d)
    BY <1>11 DEF DrainBookkeep, DrainFinalize, DrainRescue, DrainSuperseded, Retire, DrainDone,
       DrainFault
  <2> QED BY <1>3, <2>1
<1> QED BY <1>4, <1>5, <1>6, <1>7, <1>8, <1>9, <1>10, <1>11 DEF DrainStep, Engine

(* What every step does to the drains. *)
LEMMA StepDrains == IngestInv /\ [Next]_vars => \A d \in Drains : DrainMove(d)
<1> SUFFICES ASSUME IngestInv, [Next]_vars, NEW d \in Drains PROVE DrainMove(d)
  OBVIOUS
<1>1. CASE UNCHANGED drain
  BY <1>1 DEF DrainMove
<1>2. ASSUME NEW b \in Drains, DrainStart(b)
      PROVE  DrainMove(d)
  <2>1. CASE UNCHANGED drain
    BY <1>1, <2>1
  <2>2. CASE Goto(b, "pick")
    BY <2>2, TurnStops DEF DrainMove, Others
  <2> QED BY <1>2, <2>1, <2>2 DEF DrainStart, LeaseHeld, AcquireLease
<1>3. CASE AlarmFires
  <2>1. CASE UNCHANGED drain
    BY <1>1, <2>1
  <2>2. CASE Goto(AlarmDrain, "pick")
    BY <2>2, TurnStops DEF DrainMove, Others
  <2> QED BY <1>3, <2>1, <2>2 DEF AlarmFires, LeaseHeld, AcquireLease
<1>4. ASSUME NEW b \in Drains, DrainStep(b)
      PROVE  DrainMove(d)
  BY <1>4, DrainStepMove DEF DrainMove, Others
<1>5. CASE ObjectStep
  BY <1>1, <1>3, <1>4, <1>5 DEF ObjectStep, HandoffStep, HandoffFault, HandoffGeneration,
     HandoffPrior, HandoffAdd, HandoffSettle, HandoffFinish, LeaseExpires, IdlePasses, Kick,
     BackoffElapses, RunAges
<1>6. ASSUME NEW r \in Requests, RequestStep(r) \/ RequestFails(r)
      PROVE  DrainMove(d)
  <2>1. CASE Inline(r)
    BY <1>1, <1>2, <2>1 DEF Inline, umVars
  <2>2. CASE ~Inline(r)
    BY <1>1, <1>6, <2>2 DEF RequestStep, RequestFails, Lookup, Reopen, Claim, Conflict, Activate,
       CallHandoff, HandoffStart, umVars
  <2> QED BY <2>1, <2>2
<1>7. CASE Evict
  BY <1>7 DEF Evict, Crash, CrashInAdd, CutOff, DrainOff, DrainMove
<1>8. CASE UNCHANGED vars \/ \E h \in Handoffs : Deliver(h)
  BY <1>1, <1>8 DEF Deliver, vars, umVars
<1> QED BY <1>5, <1>6, <1>7, <1>8 DEF Next, Done

(* Keys keep naming what they named, and the chunk stays one. *)
LEMMA StoreInvKept ==
  ASSUME Stored, StoreStep, \A d \in Drains : DrainMove(d), qseq' \in Nat
  PROVE  KeysInv' /\ HeldInv'
<1> USE DEF Busy
<1>1. /\ queue \in [Keys -> Entry \union {NoEntry}] /\ qseq \in Nat
      /\ \A k \in Keys : queue[k] # NoEntry => k <= qseq
      /\ \A d \in Drains : Busy(d) => drain[d].key \in Keys /\ drain[d].key <= qseq
  BY StoredFacts
<1>2. /\ \A d \in Drains : Busy(d) /\ queue[drain[d].key] # NoEntry =>
                             SameCopy(queue[drain[d].key], drain[d].e)
      /\ \A d, b \in Drains :
           Busy(d) /\ Busy(b) /\ drain[d].key = drain[b].key => SameCopy(drain[d].e, drain[b].e)
  BY DEF Stored, KeysInv
<1>3. HeldInv'
  <2>1. CASE ChunkStep
    BY <2>1 DEF StoreStep, ChunkStep, Shifts, HeldInv
  <2>2. CASE EntryStep
    BY <2>2, StoredFacts DEF StoreStep, EntryStep, HeldInv, OneChunk
  <2> QED BY <2>1, <2>2 DEF StoreStep
<1>4. qseq <= qseq' /\ \A k \in Keys :
        /\ queue'[k] # NoEntry => k <= qseq'
        /\ k <= qseq /\ queue'[k] # NoEntry =>
             \/ queue[k] # NoEntry /\ SameCopy(queue'[k], queue[k])
             \/ \E d \in Drains : Busy(d) /\ drain[d].key = k /\ SameCopy(queue'[k], drain[d].e)
  <2>1. CASE ChunkStep
    <3>1. PICK All, X, D : Shifts(All, X, D)
      BY <2>1 DEF ChunkStep
    <3> QED BY <1>1, <3>1 DEF Shifts, SameCopy, Keys
  <2>2. CASE EntryStep
    <3>1. PICK k \in Keys, f \in Entry :
            /\ queue' = [queue EXCEPT ![k] = f]
            /\ \/ queue[k] # NoEntry /\ SameCopy(f, queue[k])
               \/ \E d \in Drains : Busy(d) /\ drain[d].key = k /\ SameCopy(f, drain[d].e)
      BY <2>2 DEF EntryStep
    <3>2. queue'[k] = f /\ qseq' = qseq /\ \A i \in Keys : i # k => queue'[i] = queue[i]
      BY <1>1, <2>2, <3>1 DEF EntryStep
    <3> QED BY <1>1, <3>1, <3>2 DEF SameCopy
  <2> QED BY <2>1, <2>2 DEF StoreStep
<1>5. ASSUME NEW d \in Drains, Busy(d)'
      PROVE  \/ Busy(d) /\ drain'[d].key = drain[d].key /\ SameCopy(drain'[d].e, drain[d].e)
             \/ Picked(d)
  BY <1>5 DEF DrainMove, GoesOn, SameCopy
<1>7. ASSUME NEW d \in Drains, Busy(d)'
      PROVE  /\ drain'[d].key \in Keys /\ drain'[d].key <= qseq /\ drain'[d].key <= qseq'
             /\ queue'[drain'[d].key] # NoEntry => SameCopy(queue'[drain'[d].key], drain'[d].e)
  <2>1. CASE Picked(d)
    BY <1>1, <2>1 DEF Picked, SameCopy
  <2>2. CASE Busy(d) /\ drain'[d].key = drain[d].key /\ SameCopy(drain'[d].e, drain[d].e)
    <3>1. drain'[d].key \in Keys /\ drain'[d].key <= qseq /\ qseq <= qseq'
      BY <1>1, <1>4, <2>2
    <3>2. drain'[d].key <= qseq'
      <4>1. qseq \in Nat /\ drain'[d].key \in Nat
        BY <1>1, <3>1 DEF Keys
      <4>2. CASE ChunkStep
        BY <3>1, <4>1, <4>2 DEF ChunkStep, Shifts
      <4>3. CASE EntryStep
        BY <3>1, <4>3 DEF EntryStep
      <4> QED BY <4>2, <4>3 DEF StoreStep
    <3>3. ASSUME queue'[drain'[d].key] # NoEntry
          PROVE  SameCopy(queue'[drain'[d].key], drain'[d].e)
      BY <1>2, <1>4, <2>2, <3>1, <3>3 DEF SameCopy
    <3> QED BY <3>1, <3>2, <3>3
  <2> QED BY <1>5, <1>7, <2>1, <2>2
<1>8. ASSUME NEW d \in Drains, NEW b \in Drains, Busy(d)', Busy(b)', drain'[d].key = drain'[b].key
      PROVE  SameCopy(drain'[d].e, drain'[b].e)
  BY <1>2, <1>5, <1>8 DEF Picked, SameCopy
<1>9. KeysInv'
  BY <1>4, <1>7, <1>8 DEF KeysInv
<1> QED BY <1>3, <1>9

(* The outbox of announcements only grows. *)
LEMMA StepAnnounces == IngestInv /\ [Next]_vars => announced \subseteq announced'
<1> SUFFICES ASSUME IngestInv, [Next]_vars PROVE announced \subseteq announced'
  OBVIOUS
<1>1. ASSUME NEW h \in Handoffs, HandoffStep(h) \/ HandoffFault(h)
      PROVE  announced \subseteq announced'
  <2>1. \A j \in Jobs : \A row : AnnounceDoor(j, row) => announced \subseteq announced'
    BY DEF AnnounceDoor
  <2>2. h[1] \in Jobs
    BY DEF Handoffs
  <2>3. CASE HandoffAdd(h)
    BY <2>1, <2>2, <2>3 DEF HandoffAdd
  <2>4. CASE HandoffSettle(h)
    BY <2>1, <2>2, <2>4 DEF HandoffSettle
  <2>5. CASE HandoffFinish(h)
    BY <2>1, <2>2, <2>5 DEF HandoffFinish
  <2>6. CASE HandoffGeneration(h) \/ HandoffPrior(h) \/ HandoffFault(h)
    BY <2>6 DEF HandoffGeneration, HandoffPrior, HandoffFault, d1Vars
  <2> QED BY <1>1, <2>3, <2>4, <2>5, <2>6 DEF HandoffStep
<1>2. ASSUME NEW d \in Drains, DrainStep(d)
      PROVE  announced \subseteq announced'
  <2>1. CASE DrainVerify(d) \/ DrainSuperseded(d)
    BY <2>1 DEF DrainVerify, DrainSuperseded
  <2>2. CASE DrainPut(d) \/ DrainBookkeep(d) \/ DrainSettle(d) \/ DrainFinalize(d) \/ DrainRescue(d)
             \/ Engine(d)
    BY <2>2, EngineFrame DEF DrainPut, DrainBookkeep, DrainSettle, DrainFinalize, DrainRescue,
       d1Vars
  <2>3. CASE DrainPick(d) \/ DrainDone(d) \/ DrainRead(d) \/ DrainCheck(d) \/ DrainFault(d)
    BY <2>3 DEF DrainPick, DrainDone, DrainRead, DrainCheck, DrainFault, d1Vars
  <2> QED BY <1>2, <2>1, <2>2, <2>3 DEF DrainStep, Engine
<1>3. CASE ObjectStep
  BY <1>1, <1>2, <1>3 DEF ObjectStep, AlarmFires, LeaseExpires, IdlePasses, Kick, BackoffElapses,
     RunAges, d1Vars
<1>4. ASSUME NEW r \in Requests, RequestStep(r) \/ RequestFails(r)
      PROVE  UNCHANGED announced
  BY <1>4 DEF RequestStep, RequestFails, Lookup, Reopen, Claim, Conflict, Activate,
     CallHandoff, Inline, HandoffStart, DrainStart, umVars, d1Vars
<1>5. ASSUME Evict \/ UNCHANGED vars \/ \E h \in Handoffs : Deliver(h)
      PROVE  UNCHANGED announced
  BY <1>5 DEF Evict, Crash, CrashInAdd, CutOff, Deliver, vars, umVars, d1Vars
<1> QED BY <1>3, <1>4, <1>5 DEF Next, Done

(* A handoff is about to add its packet only after it found nothing of the   *)
(* packet's generation in the object, and that generation to be the row's.   *)
CallMove(h) ==
  call'[h] \in {"prior", "add"} =>
    \/ call'[h] = call[h]
    \/ call[h] = "prior"
    \/ /\ job[h[1]].gen = h[2]
       /\ \A x \in held' : ~(x.job = h[1] /\ x.gen = h[2])
       /\ \A k \in Keys : queue'[k] # NoEntry => ~(queue'[k].job = h[1] /\ queue'[k].gen = h[2])

LEMMA StepCalls == IngestInv /\ [Next]_vars => \A h \in Handoffs : CallMove(h)
<1> SUFFICES ASSUME IngestInv, [Next]_vars, NEW h \in Handoffs PROVE CallMove(h)
  OBVIOUS
<1>1. call \in [Handoffs -> CallStates]
  BY DEF IngestInv, ObjectInv, ControlType
<1>2. CASE UNCHANGED call
  BY <1>2 DEF CallMove
<1>3. ASSUME NEW i \in Handoffs, NEW pc, Become(i, pc), pc \notin {"prior", "add"}
      PROVE  CallMove(h)
  BY <1>1, <1>3 DEF Become, CallMove
<1>4. ASSUME NEW i \in Handoffs, HandoffStep(i) \/ HandoffFault(i)
      PROVE  CallMove(h)
  <2>1. CASE HandoffGeneration(i)
    <3> DEFINE j == i[1]
               g == i[2]
               kept == {x \in held : ~(x.job = j /\ x.gen < g)}
    <3>1. CASE /\ job[j].gen = g /\ ~Owns(kept, queue, j, g)
               /\ held' = kept /\ Become(i, "prior") /\ UNCHANGED queueVars
      <4>1. /\ \A x \in held' : ~(x.job = i[1] /\ x.gen = i[2])
            /\ \A k \in Keys : queue'[k] # NoEntry => ~(queue'[k].job = i[1] /\ queue'[k].gen = i[2])
        BY <3>1 DEF Owns, queueVars
      <4>2. \A b \in Handoffs : b # i => call'[b] = call[b]
        BY <1>1, <3>1 DEF Become
      <4> QED BY <3>1, <4>1, <4>2 DEF CallMove
    <3>2. CASE Become(i, "err") \/ Become(i, "settle")
      BY <1>3, <3>2
    <3> QED BY <2>1, <3>1, <3>2 DEF HandoffGeneration
  <2>2. CASE HandoffPrior(i)
    <3>1. CASE Become(i, "add")
      BY <1>1, <2>2, <3>1 DEF Become, CallMove, HandoffPrior
    <3> QED BY <1>3, <2>2, <3>1 DEF HandoffPrior
  <2>3. CASE HandoffAdd(i) \/ HandoffSettle(i) \/ HandoffFinish(i) \/ HandoffFault(i)
    <3>1. Become(i, "settle") \/ Become(i, "own") \/ Become(i, "ok") \/ Become(i, "err")
      BY <2>3 DEF HandoffAdd, HandoffSettle, HandoffFinish, HandoffFault
    <3> QED BY <1>3, <3>1
  <2> QED BY <1>4, <2>1, <2>2, <2>3 DEF HandoffStep
<1>5. ASSUME NEW d \in Drains, DrainStep(d)
      PROVE  UNCHANGED call
  BY <1>5, EngineFrame DEF DrainStep, Engine, DrainPick, DrainDone, DrainRead, DrainCheck,
     DrainPut, DrainBookkeep, DrainSettle, DrainVerify, DrainFinalize, DrainRescue,
     DrainSuperseded, DrainFault
<1>6. CASE ObjectStep
  BY <1>2, <1>4, <1>5, <1>6 DEF ObjectStep, AlarmFires, LeaseExpires, IdlePasses, Kick,
     BackoffElapses, RunAges
<1>7. ASSUME NEW r \in Requests, RequestStep(r) \/ RequestFails(r)
      PROVE  CallMove(h)
  <2>1. HandoffOf(r) \in Handoffs
    BY DEF IngestInv, RequestInv, HandoffOf, Handoffs, Req
  <2>2. CASE CallHandoff(r) /\ HandoffStart(HandoffOf(r))
    <3>1. Become(HandoffOf(r), "ok") \/ Become(HandoffOf(r), "settle") \/ Become(HandoffOf(r), "gen")
      BY <2>2 DEF HandoffStart
    <3> QED BY <1>3, <2>1, <3>1
  <2> QED BY <1>2, <1>7, <2>2 DEF RequestStep, RequestFails, Lookup, Reopen, Claim, Conflict,
          Activate, CallHandoff, Inline, DrainStart, umVars
<1>8. CASE Evict
  BY <1>8 DEF Evict, Crash, CrashInAdd, CutOff, CallMove
<1>9. ASSUME NEW i \in Handoffs, Deliver(i)
      PROVE  CallMove(h)
  BY <1>3, <1>9 DEF Deliver
<1>10. CASE UNCHANGED vars
  BY <1>2, <1>10 DEF vars, umVars
<1> QED BY <1>6, <1>7, <1>8, <1>9, <1>10 DEF Next, Done

---------------------------------------------------------------------------
(* Generations and announcements, through every step.                      *)

(* Where a message of the new chunk, an entry of the new queue, or a drain's *)
(* entry comes from.                                                         *)
NewInChunk(x) ==
  \/ x \in held
  \/ \E h \in Handoffs : /\ call[h] = "add" /\ marker[h].state = "pending" /\ Brought(h, x)
                         /\ call'[h] # "add" /\ marker'[h].state = "applied"
  \/ \E d \in Drains : /\ drain[d].pc = "finalize" /\ drain[d].e.verdict = "rescue"
                       /\ x = Rescued(drain[d].e)

Earlier(k) ==
  \/ queue[k] # NoEntry /\ SameCopy(queue'[k], queue[k])
  \/ \E d \in Drains : Busy(d) /\ drain[d].key = k /\ SameCopy(queue'[k], drain[d].e)

LEMMA StoreOrigins ==
  ASSUME Stored, StoreStep
  PROVE  /\ \A x \in held' : NewInChunk(x) /\ x \in Held
         /\ \A k \in Keys : queue'[k] # NoEntry =>
              \/ Earlier(k)
              \/ /\ qseq < k /\ queue'[k].verdict = "none"
                 /\ \E x \in Held : NewInChunk(x) /\ SameCopy(queue'[k], x)
<1>1. CASE ChunkStep
  <2>1. PICK All, X, D : Shifts(All, X, D) /\ Sources(All)
    BY <1>1 DEF ChunkStep
  <2>2. \A x \in All : NewInChunk(x) /\ x \in Held
    BY <2>1 DEF Sources, NewInChunk, Shifts
  <2>3. \A x \in held' : x \in All
    BY <2>1 DEF Shifts
  <2>4. ASSUME NEW k \in Keys, queue'[k] # NoEntry
        PROVE  \/ Earlier(k)
               \/ /\ qseq < k /\ queue'[k].verdict = "none"
                  /\ \E x \in Held : NewInChunk(x) /\ SameCopy(queue'[k], x)
    <3>1. CASE queue'[k] = queue[k]
      BY <2>4, <3>1 DEF Earlier, SameCopy
    <3>2. CASE qseq < k /\ \E x \in X : queue'[k] = EntryOf(x)
      <4>1. PICK x \in X : queue'[k] = EntryOf(x)
        BY <3>2
      <4>2. queue'[k].verdict = "none"
        BY <4>1 DEF EntryOf
      <4> QED BY <2>1, <2>2, <3>2, <4>1, <4>2, EntryOfInjective DEF Shifts
    <3> QED BY <2>1, <2>4, <3>1, <3>2 DEF Shifts
  <2> QED BY <2>2, <2>3, <2>4
<1>2. CASE EntryStep
  <2>1. PICK k \in Keys, f \in Entry :
          /\ queue' = [queue EXCEPT ![k] = f]
          /\ \/ queue[k] # NoEntry /\ SameCopy(f, queue[k])
             \/ \E d \in Drains : Busy(d) /\ drain[d].key = k /\ SameCopy(f, drain[d].e)
    BY <1>2 DEF EntryStep
  <2>2. queue'[k] = f /\ held' = held /\ \A i \in Keys : i # k => queue'[i] = queue[i]
    BY <1>2, <2>1, StoredFacts DEF EntryStep
  <2>3. \A i \in Keys : queue'[i] # NoEntry => Earlier(i)
    BY <2>1, <2>2 DEF Earlier, SameCopy
  <2> QED BY <2>2, <2>3, StoredFacts DEF NewInChunk
<1> QED BY <1>1, <1>2 DEF StoreStep

(* GensInv is inductive with the store's invariant. *)
LEMMA GensInvKept ==
  ASSUME IngestInv, Stored, GensInv, StoreStep, RowsKeep, IngestInv',
         \A d \in Drains : DrainMove(d), \A h \in Handoffs : CallMove(h)
  PROVE  GensInv'
<1>1. /\ \A j \in Jobs : job[j].gen \in Nat /\ job'[j].gen \in Nat /\ job'[j].gen >= job[j].gen
      /\ \A h \in Handoffs : h[1] \in Jobs /\ h[2] \in Nat
      /\ held \in SUBSET Held /\ \A d \in Drains : Busy(d) => drain[d].e \in Entry
      /\ queue \in [Keys -> Entry \union {NoEntry}]
  BY StoredFacts DEF IngestInv, ObjectInv, D1Type, JobRow, Generations, RowsKeep, Handoffs
<1>2. \A x \in Held : x.job \in Jobs /\ x.gen \in Nat
  BY DEF Held, Generations
<1>3. \A e \in Entry : e.job \in Jobs /\ e.gen \in Nat
  BY DEF Entry, Generations
<1>4. ASSUME NEW x \in Held, NewInChunk(x)
      PROVE  x.gen <= job[x.job].gen
  <2>1. CASE x \in held
    BY <2>1 DEF GensInv
  <2>2. ASSUME NEW h \in Handoffs, call[h] = "add", Handed(h, x)
        PROVE  x.gen <= job[x.job].gen
    BY <2>2 DEF GensInv, Handed
  <2>3. ASSUME NEW d \in Drains, x = Rescued(drain[d].e)
        PROVE  x.gen <= job[x.job].gen
    BY <1>1, <1>2, <2>3 DEF Rescued
  <2> QED BY <1>4, <2>1, <2>2, <2>3 DEF NewInChunk, Brought
<1>5. \A x \in held' : x.gen <= job'[x.job].gen
  BY <1>1, <1>2, <1>4, StoreOrigins
<1>6. ASSUME NEW k \in Keys, queue'[k] # NoEntry
      PROVE  queue'[k].gen <= job'[queue'[k].job].gen
  <2>1. CASE queue[k] # NoEntry /\ SameCopy(queue'[k], queue[k])
    BY <1>1, <1>3, <2>1 DEF GensInv, SameCopy
  <2>2. ASSUME NEW d \in Drains, Busy(d), SameCopy(queue'[k], drain[d].e)
        PROVE  queue'[k].gen <= job'[queue'[k].job].gen
    BY <1>1, <1>3, <2>2 DEF GensInv, SameCopy
  <2>3. ASSUME NEW x \in Held, NewInChunk(x), SameCopy(queue'[k], x)
        PROVE  queue'[k].gen <= job'[queue'[k].job].gen
    BY <1>1, <1>2, <1>4, <2>3 DEF SameCopy
  <2> QED BY <1>6, <2>1, <2>2, <2>3, StoreOrigins DEF Earlier
<1>7. ASSUME NEW d \in Drains, Busy(d)'
      PROVE  /\ drain'[d].e.gen <= job'[drain'[d].e.job].gen
             /\ drain'[d].pc = "superseded" => drain'[d].e.gen < job'[drain'[d].e.job].gen
  <2>1. CASE drain'[d] = drain[d]
    BY <1>1, <1>3, <1>7, <2>1 DEF GensInv, Busy
  <2>2. CASE Picked(d)
    BY <1>1, <1>3, <2>2 DEF Picked, GensInv
  <2>3. CASE GoesOn(d)
    BY <1>1, <1>3, <2>3 DEF GoesOn, GensInv, SameCopy
  <2> QED BY <1>7, <2>1, <2>2, <2>3 DEF DrainMove, Busy
<1>8. ASSUME NEW h \in Handoffs, call'[h] \in {"prior", "add"}
      PROVE  h[2] <= job'[h[1]].gen
  BY <1>1, <1>8 DEF CallMove, GensInv
<1>9. \A d \in Drains : drain'[d].pc = "superseded" => Busy(d)'
  BY DEF Busy
<1> QED BY <1>5, <1>6, <1>7, <1>8, <1>9 DEF GensInv

(* AnnounceInv is inductive: the row of an announced verdict is left alone,  *)
(* or moves to a later generation.                                           *)
LEMMA AnnounceInvKept ==
  ASSUME IngestInv, Stored, GensInv, AnnounceInv, RowsKeep, IngestInv', announced \subseteq announced',
         \A d \in Drains : DrainMove(d)
  PROVE  AnnounceInv'
<1> SUFFICES ASSUME NEW d \in Drains, drain'[d].pc = "finalize"
             PROVE  Announced(drain[d].e)'
  BY DEF AnnounceInv
<1>1. \A j \in Jobs : job[j].gen \in Nat /\ job'[j].gen \in Nat
  BY DEF IngestInv, ObjectInv, D1Type, JobRow, Generations
<1>2. \A e \in Entry : e.job \in Jobs /\ e.gen \in Nat
  BY DEF Entry, Generations
<1>3. CASE drain'[d] = drain[d]
  <2> DEFINE e == drain[d].e
  <2>1. Busy(d) /\ e \in Entry /\ e.gen <= job[e.job].gen
    BY <1>3, StoredFacts DEF GensInv, Busy
  <2>2. PICK state \in TERMINAL_JOB_STATES :
          /\ <<e.job, state>> \in announced
          /\ job[e.job].gen = e.gen => job[e.job].status = state
    BY <1>3 DEF AnnounceInv, Announced
  <2>3. job'[e.job].gen = e.gen => job'[e.job].status = state
    <3> SUFFICES ASSUME job'[e.job].gen = e.gen PROVE job'[e.job].status = state
      OBVIOUS
    <3>1. e.job \in Jobs /\ e.gen \in Nat
      BY <1>2, <2>1
    <3>2. job[e.job].gen = e.gen
      <4>1. job'[e.job].gen >= job[e.job].gen
        BY <3>1 DEF RowsKeep
      <4>2. job[e.job].gen \in Nat /\ e.gen \in Nat /\ e.gen <= job[e.job].gen
        BY <1>1, <2>1, <3>1
      <4>3. job[e.job].gen <= e.gen
        BY <4>1
      <4> HIDE DEF e
      <4> QED BY <4>2, <4>3
    <3>3. Terminal(job[e.job])
      BY <2>2, <3>2 DEF Terminal
    <3>4. job'[e.job] = job[e.job]
      <4>1. job'[e.job] # job[e.job] => job'[e.job].gen > job[e.job].gen
        BY <3>1, <3>3 DEF RowsKeep
      <4> HIDE DEF e
      <4> QED BY <1>1, <3>1, <3>2, <4>1
    <3> QED BY <2>2, <3>2, <3>4
  <2> QED BY <1>3, <2>2, <2>3 DEF Announced
<1>4. CASE GoesOn(d)
  BY <1>4 DEF GoesOn, Announced, SameCopy, Terminal
<1> QED BY <1>3, <1>4 DEF DrainMove, Picked

(* What holds of the object whatever its drains do. *)
SharedInv == IngestInv /\ RowsInv /\ KeysInv /\ HeldInv /\ GensInv /\ AnnounceInv

LEMMA SharedInvKept == SharedInv /\ [Next]_vars => SharedInv'
<1> SUFFICES ASSUME SharedInv, [Next]_vars PROVE SharedInv'
  OBVIOUS
<1>1. IngestInv /\ Stored
  BY DEF SharedInv, Stored, IngestInv
<1>2. IngestInv'
  BY <1>1, NextInv
<1>3. RowsInv' /\ RowsKeep
  BY <1>1, RowsInvKept DEF SharedInv
<1>4. StoreStep /\ (\A d \in Drains : DrainMove(d)) /\ (\A h \in Handoffs : CallMove(h))
      /\ announced \subseteq announced'
  BY <1>1, StepStore, StepDrains, StepCalls, StepAnnounces
<1>5. qseq' \in Nat
  BY <1>2 DEF IngestInv, ObjectInv, QueueOK, QueueType
<1>6. KeysInv' /\ HeldInv'
  BY <1>1, <1>4, <1>5, StoreInvKept
<1>7. GensInv'
  BY <1>1, <1>2, <1>3, <1>4, GensInvKept DEF SharedInv
<1>8. AnnounceInv'
  BY <1>1, <1>2, <1>3, <1>4, AnnounceInvKept DEF SharedInv
<1> QED BY <1>2, <1>3, <1>6, <1>7, <1>8 DEF SharedInv

LEMMA SharedInvInit == Init => SharedInv
<1> SUFFICES ASSUME Init PROVE SharedInv
  OBVIOUS
<1>1. IngestInv
  BY InitInv
<1>2. /\ job = [j \in Jobs |-> NoRow] /\ held = {} /\ queue = [k \in Keys |-> NoEntry]
      /\ drain = [d \in Drains |-> DrainOff] /\ call = [h \in Handoffs |-> "off"] /\ ~idle
  BY DEF Init, UserMemoryInit
<1>3. RowsInv
  BY <1>2 DEF RowsInv, NoRow
<1>4. \A d \in Drains : drain[d].pc = "off" /\ ~Busy(d)
  BY <1>2 DEF DrainOff, Busy
<1>5. KeysInv /\ HeldInv /\ GensInv /\ AnnounceInv
  BY <1>2, <1>4 DEF KeysInv, HeldInv, OneChunk, GensInv, AnnounceInv
<1> QED BY <1>1, <1>3, <1>5 DEF SharedInv

(* Whatever interleaves, a queue key names one copy of one message for ever, *)
(* the held chunk is of one context without duplicates, nothing in the       *)
(* object is ahead of its row, and what is finalized is announced.           *)
THEOREM Shared == Spec => []SharedInv
BY SharedInvInit, SharedInvKept, PTL DEF Spec

---------------------------------------------------------------------------
(* One drain at a time: no drain outlives its lease.                        *)

OneBusy == \A d, b \in Drains : Busy(d) /\ Busy(b) => d = b

LEMMA LeaseOneBusy == LeaseInv => OneBusy
BY DEF LeaseInv, OneBusy, Busy

(* The entry that the busy drain works on stays queued under its key. *)
LEMMA CarriesInvKept ==
  ASSUME Stored, StoreStep, \A d \in Drains : DrainMove(d), OneBusy, CarriesInv
  PROVE  CarriesInv'
<1> SUFFICES ASSUME NEW d \in Drains, Busy(d)'
             PROVE  /\ queue'[drain'[d].key] # NoEntry
                    /\ queue'[drain'[d].key].verdict = drain'[d].e.verdict
  BY DEF CarriesInv
<1>1. queue \in [Keys -> Entry \union {NoEntry}] /\ qseq \in Nat /\ NoEntry \notin Entry
  BY StoredFacts DEF NoEntry, Entry, Verdicts
<1>2. drain'[d].pc \notin {"off", "pick"}
  BY DEF Busy
<1>3. CASE Picked(d)
  <2>1. \A e \in Entry : e # NoEntry
    BY <1>1
  <2> QED BY <1>3, <2>1 DEF Picked
<1>4. CASE /\ Busy(d) /\ drain'[d].key = drain[d].key
           /\ drain'[d].e.verdict = drain[d].e.verdict \/ queue'[drain[d].key] = drain'[d].e
  <2> DEFINE k == drain[d].key
  <2>1. /\ k \in Keys /\ k <= qseq /\ queue[k] # NoEntry
        /\ queue[k].verdict = drain[d].e.verdict
    BY <1>4, StoredFacts DEF CarriesInv
  <2>2. \A b \in Drains : Busy(b) => drain'[b].pc # "pick"
    BY <1>2, <1>4 DEF OneBusy
  <2>3. CASE ChunkStep
    <3>1. PICK All, X, D : Shifts(All, X, D) /\ Frees(D)
      BY <2>3 DEF ChunkStep
    <3>2. k \notin D
      BY <2>2, <3>1 DEF Frees
    <3>3. ~(qseq < k)
      <4>1. k \in Nat
        BY <2>1 DEF Keys
      <4> HIDE DEF k
      <4> QED BY <1>1, <2>1, <4>1
    <3>4. queue'[k] = queue[k]
      BY <2>1, <3>1, <3>2, <3>3 DEF Shifts
    <3> QED BY <1>4, <2>1, <3>4
  <2>4. CASE EntryStep
    <3>1. PICK i \in Keys, f \in Entry :
            /\ queue' = [queue EXCEPT ![i] = f]
            /\ \/ queue[i] # NoEntry /\ f.verdict = queue[i].verdict
               \/ \E b \in Drains : /\ Busy(b) /\ drain[b].key = i
                                    /\ \/ drain'[b].pc = "pick"
                                       \/ drain'[b].e = f /\ drain'[b].key = i
      BY <2>4 DEF EntryStep
    <3>2. queue'[i] = f /\ \A l \in Keys : l # i => queue'[l] = queue[l]
      BY <1>1, <3>1
    <3>3. CASE i # k
      <4>1. queue'[k] = queue[k]
        BY <2>1, <3>2, <3>3
      <4> QED BY <1>4, <2>1, <4>1
    <3>4. CASE i = k
      <4>1. queue'[k] = f /\ f # NoEntry
        BY <1>1, <3>2, <3>4
      <4>2. CASE queue[i] # NoEntry /\ f.verdict = queue[i].verdict
        BY <1>4, <2>1, <3>4, <4>1, <4>2
      <4>3. ASSUME NEW b \in Drains, Busy(b), drain'[b].e = f
            PROVE  drain'[d].e = f
        BY <1>4, <4>3 DEF OneBusy
      <4> QED BY <1>4, <2>2, <3>1, <4>1, <4>2, <4>3
    <3> QED BY <3>3, <3>4
  <2> QED BY <2>3, <2>4 DEF StoreStep
<1> QED BY <1>2, <1>3, <1>4 DEF DrainMove, GoesOn, Busy

(* With the entry of every busy drain queued, nothing enters the object but  *)
(* through a handoff's transaction, or as a rescue of what was there.        *)
LEMMA PlacesInvKept ==
  ASSUME IngestInv, Stored, StoreStep, \A h \in Handoffs : CallMove(h), CarriesInv, PlacesInv
  PROVE  PlacesInv'
<1>1. /\ queue \in [Keys -> Entry \union {NoEntry}] /\ qseq \in Nat
      /\ held \in SUBSET Held
      /\ \A d \in Drains : Busy(d) => drain[d].key \in Keys /\ drain[d].e \in Entry
      /\ \A k \in Keys : queue[k] # NoEntry => k <= qseq
  BY StoredFacts
<1>2. \A k \in Keys : Earlier(k) => queue[k] # NoEntry /\ SameCopy(queue'[k], queue[k])
  BY <1>1 DEF Earlier, CarriesInv, Stored, KeysInv, SameCopy
<1>3. /\ \A x \in held' : NewInChunk(x) /\ x \in Held
      /\ \A k \in Keys : queue'[k] # NoEntry =>
           \/ queue[k] # NoEntry /\ SameCopy(queue'[k], queue[k])
           \/ \E x \in Held : NewInChunk(x) /\ SameCopy(queue'[k], x)
  BY <1>2, StoreOrigins
<1>4. ASSUME NEW x \in Held, NewInChunk(x), x.rescue = 0
      PROVE  \/ x \in held
             \/ \E h \in Handoffs : call[h] = "add" /\ call'[h] # "add" /\ Handed(h, x)
  <2>1. ASSUME NEW d \in Drains, drain[d].pc = "finalize", x = Rescued(drain[d].e)
        PROVE  FALSE
    <3>1. drain[d].e \in Entry
      BY <1>1, <2>1 DEF Busy
    <3> QED BY <1>4, <2>1, <3>1 DEF Rescued, Entry
  <2> QED BY <1>4, <2>1 DEF NewInChunk, Brought
<1>5. \A h \in Handoffs, x \in Held : Handed(h, x) => x.msg \in Msgs /\ Original(x, h[1], x.msg, h[2])
  BY DEF Handed, Original, Held
<1>6. ASSUME NEW x \in Held, NewInChunk(x), x.rescue = 0, NEW k \in Keys, queue[k] # NoEntry
      PROVE  ~SameCopy(queue[k], x)
  <2>1. CASE x \in held
    BY <1>6, <2>1 DEF PlacesInv
  <2>2. ASSUME NEW h \in Handoffs, call[h] = "add", Handed(h, x)
        PROVE  ~SameCopy(queue[k], x)
    <3>1. x.msg \in Msgs /\ Original(x, h[1], x.msg, h[2])
      BY <1>5, <2>2
    <3>2. ~Original(queue[k], h[1], x.msg, h[2])
      BY <1>6, <2>2, <3>1 DEF PlacesInv
    <3> QED BY <1>6, <3>1, <3>2 DEF SameCopy, Original
  <2> QED BY <1>4, <1>6, <2>1, <2>2
<1>7. ASSUME NEW h \in Handoffs, call'[h] \in {"prior", "add"}, NEW m \in Msgs
      PROVE  /\ \A x \in held' : ~Original(x, h[1], m, h[2])
             /\ \A k \in Keys : queue'[k] # NoEntry => ~Original(queue'[k], h[1], m, h[2])
  <2>1. CASE /\ \A x \in held' : ~(x.job = h[1] /\ x.gen = h[2])
             /\ \A k \in Keys : queue'[k] # NoEntry => ~(queue'[k].job = h[1] /\ queue'[k].gen = h[2])
    BY <2>1 DEF Original
  <2>2. CASE call'[h] = call[h] \/ call[h] = "prior"
    <3>1. /\ \A x \in held : ~Original(x, h[1], m, h[2])
          /\ \A k \in Keys : queue[k] # NoEntry => ~Original(queue[k], h[1], m, h[2])
      BY <1>7, <2>2 DEF PlacesInv
    <3>2. ASSUME NEW x \in Held, NewInChunk(x), Original(x, h[1], m, h[2])
          PROVE  FALSE
      <4>1. PICK i \in Handoffs : call[i] = "add" /\ call'[i] # "add" /\ Handed(i, x)
        BY <1>4, <3>1, <3>2 DEF Original
      <4>2. i[1] = h[1] /\ i[2] = h[2]
        BY <3>2, <4>1 DEF Handed, Original
      <4>3. i = <<i[1], i[2]>> /\ h = <<h[1], h[2]>>
        BY DEF Handoffs
      <4>4. i = h
        BY <4>2, <4>3
      <4> QED BY <2>2, <4>1, <4>4
    <3>3. \A x \in held' : ~Original(x, h[1], m, h[2])
      BY <1>3, <3>2
    <3>4. ASSUME NEW k \in Keys, queue'[k] # NoEntry, Original(queue'[k], h[1], m, h[2])
          PROVE  FALSE
      BY <1>3, <3>1, <3>2, <3>4 DEF SameCopy, Original
    <3> QED BY <3>3, <3>4
  <2> QED BY <1>7, <2>1, <2>2 DEF CallMove
<1>8. CASE EntryStep
  <2>1. held' = held /\ \A k \in Keys : queue'[k] # NoEntry => queue[k] # NoEntry /\ SameCopy(queue'[k], queue[k])
    <3>1. PICK k \in Keys, f \in Entry :
            /\ queue' = [queue EXCEPT ![k] = f]
            /\ \/ queue[k] # NoEntry /\ SameCopy(f, queue[k])
               \/ \E d \in Drains : Busy(d) /\ drain[d].key = k /\ SameCopy(f, drain[d].e)
      BY <1>8 DEF EntryStep
    <3>2. queue'[k] = f /\ \A i \in Keys : i # k => queue'[i] = queue[i]
      BY <1>1, <3>1
    <3>3. Earlier(k)
      BY <3>1, <3>2 DEF Earlier
    <3> QED BY <1>2, <1>8, <3>2, <3>3 DEF EntryStep, SameCopy
  <2>2. /\ \A k, i \in Keys :
             queue'[k] # NoEntry /\ queue'[i] # NoEntry /\ queue'[k].rescue = 0
               /\ SameCopy(queue'[k], queue'[i]) => k = i
        /\ \A k \in Keys, x \in held' :
             queue'[k] # NoEntry /\ x.rescue = 0 => ~SameCopy(queue'[k], x)
    BY <2>1 DEF PlacesInv, SameCopy
  <2> QED BY <1>7, <2>2 DEF PlacesInv
<1>9. CASE ChunkStep
  <2>1. PICK All, X, D : Shifts(All, X, D) /\ Sources(All)
    BY <1>9 DEF ChunkStep
  <2>2. /\ X \subseteq All /\ held' = All \ X /\ All \subseteq Held
        /\ \A x \in All : NewInChunk(x)
    BY <2>1 DEF Shifts, Sources, NewInChunk
  <2>3. ASSUME NEW k \in Keys, queue'[k] # NoEntry
        PROVE  \/ queue'[k] = queue[k]
               \/ qseq < k /\ \E x \in X : queue'[k] = EntryOf(x)
    BY <2>1, <2>3 DEF Shifts
  <2>4. ASSUME NEW k \in Keys, NEW i \in Keys, queue'[k] # NoEntry, queue'[i] # NoEntry,
               queue'[k].rescue = 0, SameCopy(queue'[k], queue'[i])
        PROVE  k = i
    <3>1. ASSUME NEW a \in Keys, NEW b \in Keys, queue'[a] = queue[a], queue[a] # NoEntry,
                 NEW x \in X, queue'[b] = EntryOf(x), SameCopy(queue'[a], queue'[b]),
                 queue'[b].rescue = 0
          PROVE  FALSE
      <4>1. SameCopy(EntryOf(x), x) /\ x \in Held /\ NewInChunk(x)
        BY <2>2, EntryOfInjective
      <4>2. x.rescue = 0 /\ SameCopy(queue[a], x)
        BY <3>1, <4>1 DEF SameCopy
      <4> QED BY <1>6, <3>1, <4>1, <4>2
    <3>2. CASE queue'[k] = queue[k] /\ queue'[i] = queue[i]
      BY <2>4, <3>2 DEF PlacesInv
    <3>3. CASE queue'[k] = queue[k] /\ \E x \in X : queue'[i] = EntryOf(x)
      BY <2>4, <3>1, <3>3 DEF SameCopy
    <3>4. CASE queue'[i] = queue[i] /\ \E x \in X : queue'[k] = EntryOf(x)
      <4>1. SameCopy(queue'[i], queue'[k])
        BY <2>4 DEF SameCopy
      <4> QED BY <2>4, <3>1, <3>4, <4>1
    <3>5. CASE /\ qseq < k /\ \E x \in X : queue'[k] = EntryOf(x)
               /\ qseq < i /\ \E x \in X : queue'[i] = EntryOf(x)
      <4>1. PICK x \in X : queue'[k] = EntryOf(x)
        BY <3>5
      <4>2. PICK y \in X : queue'[i] = EntryOf(y)
        BY <3>5
      <4>3. x = y
        BY <2>2, <2>4, <4>1, <4>2, EntryOfInjective
      <4> QED BY <2>1, <2>4, <3>5, <4>1, <4>2, <4>3 DEF Shifts
    <3> QED BY <2>3, <2>4, <3>2, <3>3, <3>4, <3>5
  <2>5. ASSUME NEW k \in Keys, NEW x \in held', queue'[k] # NoEntry, x.rescue = 0
        PROVE  ~SameCopy(queue'[k], x)
    <3>1. x \in Held /\ NewInChunk(x) /\ x \notin X
      BY <2>2
    <3>2. CASE queue'[k] = queue[k]
      BY <1>6, <2>5, <3>1, <3>2
    <3>3. ASSUME NEW y \in X, queue'[k] = EntryOf(y), SameCopy(queue'[k], x)
          PROVE  FALSE
      <4>1. y \in Held /\ SameCopy(EntryOf(y), y)
        BY <2>2, EntryOfInjective
      <4>2. SameCopy(y, x)
        BY <3>3, <4>1 DEF SameCopy
      <4>3. x = y
        BY <3>1, <4>1, <4>2 DEF SameCopy, Held
      <4> QED BY <3>1, <4>3
    <3> QED BY <2>3, <2>5, <3>2, <3>3
  <2> QED BY <1>7, <2>4, <2>5 DEF PlacesInv
<1> QED BY <1>8, <1>9 DEF StoreStep

(* The alarm's handler is due or running. *)
Awake == alarm \/ drain[AlarmDrain].pc # "off"

LEMMA WorkPersists ==
  ASSUME WakeInv, HasWork(held', queue') => HasWork(held, queue), cut' = cut, Awake => Awake'
  PROVE  WakeInv'
BY DEF WakeInv, Awake

LEMMA StillAwake ==
  ASSUME WakeInv, UNCHANGED <<held, queue, cut>>, Awake => Awake'
  PROVE  WakeInv'
BY WorkPersists

(* Starting a drain moves work, and makes none. *)
LEMMA AcquireKeepsWork ==
  ASSUME HeldInv, idle \in BOOLEAN, NEW d \in Drains, AcquireLease(d)
  PROVE  HasWork(held', queue') => HasWork(held, queue)
<1>1. CASE idle
  BY <1>1 DEF HeldInv, HasWork
<1>2. CASE ~idle
  BY <1>2 DEF AcquireLease, FireChunk
<1> QED BY <1>1, <1>2

(* WakeInv is inductive: a drain that is at work has its entry queued, so it *)
(* never makes work where there was none.                                    *)
LEMMA WakeInvKept ==
  ASSUME IngestInv, Stored, CarriesInv, WakeInv, [Next]_vars
  PROVE  WakeInv'
<1>1. drain \in [Drains -> DrainRec] /\ idle \in BOOLEAN
  BY DEF IngestInv, ObjectInv, DrainOK, DrainType, ChunkType
<1>2. ASSUME GuaranteeWake(held', queue') \/ alarm' \/ cut'
      PROVE  WakeInv'
  BY <1>2 DEF GuaranteeWake, WakeInv
<1>3. CASE UNCHANGED <<held, queue, cut, alarm, drain>>
  BY <1>3, StillAwake DEF Awake
<1>4. ASSUME NEW h \in Handoffs, HandoffStep(h) \/ HandoffFault(h)
      PROVE  WakeInv'
  <2>1. CASE HandoffGeneration(h)
    <3> DEFINE kept == {x \in held : ~(x.job = h[1] /\ x.gen < h[2])}
    <3>1. CASE held' = kept /\ UNCHANGED <<queueVars, alarm, cut, drain>>
      <4>1. HasWork(held', queue') => HasWork(held, queue)
        BY <3>1 DEF HasWork, Unsettled, queueVars
      <4> HIDE DEF kept
      <4> QED BY <3>1, <4>1, WorkPersists DEF Awake
    <3>2. CASE GuaranteeWake(held', queue')
      BY <1>2, <3>2
    <3>3. CASE UNCHANGED <<held, idle, queueVars, alarm, cut, drain>>
      BY <1>3, <3>3 DEF queueVars
    <3> HIDE DEF kept
    <3> QED BY <2>1, <3>1, <3>2, <3>3 DEF HandoffGeneration, kept
  <2>2. CASE HandoffAdd(h)
    BY <1>2, <2>2 DEF HandoffAdd
  <2>3. CASE HandoffFinish(h)
    <3>1. UNCHANGED <<held, queue, drain>>
      BY <2>3 DEF HandoffFinish, chunkVars, queueVars
    <3>2. CASE GuaranteeWake(held, queue)
      BY <1>2, <3>1, <3>2
    <3>3. CASE UNCHANGED <<alarm, cut>>
      BY <1>3, <3>1, <3>3
    <3> QED BY <2>3, <3>2, <3>3 DEF HandoffFinish
  <2>4. CASE HandoffPrior(h) \/ HandoffSettle(h) \/ HandoffFault(h)
    BY <1>3, <2>4 DEF HandoffPrior, HandoffSettle, HandoffFault, chunkVars, queueVars
  <2> QED BY <1>4, <2>1, <2>2, <2>3, <2>4 DEF HandoffStep
<1>5. ASSUME NEW d \in Drains, DrainStart(d)
      PROVE  WakeInv'
  <2>1. CASE LeaseHeld
    BY <1>2, <2>1 DEF LeaseHeld
  <2>2. CASE AcquireLease(d) /\ UNCHANGED <<alarm, cut>>
    <3>1. drain'[AlarmDrain] = drain[AlarmDrain]
      BY <1>1, <1>5, <2>2 DEF DrainStart, AcquireLease, Goto
    <3>2. HasWork(held', queue') => HasWork(held, queue)
      BY <1>1, <2>2, AcquireKeepsWork DEF Stored
    <3> QED BY <2>2, <3>1, <3>2, WorkPersists DEF Awake
  <2> QED BY <1>5, <2>1, <2>2 DEF DrainStart
<1>6. CASE AlarmFires
  <2>1. CASE LeaseHeld
    BY <1>2, <2>1 DEF LeaseHeld
  <2>2. CASE AcquireLease(AlarmDrain) /\ UNCHANGED cut
    <3>1. drain'[AlarmDrain].pc # "off"
      BY <1>1, <2>2 DEF AcquireLease, Goto, DrainRec
    <3> QED BY <3>1 DEF WakeInv
  <2> QED BY <1>6, <2>1, <2>2 DEF AlarmFires
<1>7. ASSUME NEW d \in Drains, DrainStep(d)
      PROVE  WakeInv'
  <2>1. CASE DrainDone(d) \/ DrainFault(d)
    <3>1. GuaranteeWake(held, queue) /\ UNCHANGED <<held, queue>>
      BY <2>1 DEF DrainDone, DrainFault, DrainExit, chunkVars, queueVars
    <3> QED BY <1>2, <3>1
  <2>2. CASE DrainPick(d)
    <3>1. UNCHANGED <<held, queue, alarm, cut>>
      BY <2>2 DEF DrainPick, chunkVars, queueVars
    <3>2. drain[AlarmDrain].pc # "off" => drain'[AlarmDrain].pc # "off"
      BY <1>1, <2>2 DEF DrainPick
    <3> QED BY <3>1, <3>2, StillAwake DEF Awake
  <2>3. CASE ~DrainPick(d) /\ ~DrainDone(d) /\ ~DrainFault(d)
    <3>1. Busy(d) /\ UNCHANGED <<alarm, cut>>
      BY <1>7, <2>3, EngineFrame DEF DrainStep, Engine, DrainRead, DrainCheck, DrainPut,
         DrainBookkeep, DrainSettle, DrainVerify, DrainFinalize, DrainRescue, DrainSuperseded, Busy
    <3>2. HasWork(held, queue)
      BY <3>1, StoredFacts DEF CarriesInv, HasWork
    <3>3. drain[AlarmDrain].pc # "off" => drain'[AlarmDrain].pc # "off"
      <4>1. CASE Moves(d)
        BY <1>1, <4>1 DEF Moves
      <4>2. CASE DrainExit(d)
        <5>1. ~NextTurn(d)
          BY <1>1, <4>2 DEF DrainExit, NextTurn, DrainOff
        <5>2. drain'[d].pc = "off"
          BY <1>1, <4>2 DEF DrainExit, DrainOff
        <5>3. \A pc : Goto(d, pc) => drain'[d].pc = pc
          BY <1>1 DEF Goto, DrainRec
        <5>4. \A out : Answer(d, out) => drain'[d].pc = "put"
          BY <1>1 DEF Answer, DrainAt
        <5>5. ~DrainPut(d)
          BY <1>1, <5>2 DEF DrainPut, DrainAt
        <5>6. ~Engine(d)
          BY <5>1, <5>2, <5>3, <5>4, EngineFrame
        <5> QED BY <1>7, <2>3, <5>1, <5>2, <5>3, <5>5, <5>6 DEF DrainStep, Engine, DrainRead,
                DrainCheck, DrainBookkeep, DrainSettle, SettleLater, DrainVerify, DrainFinalize,
                Retire, DrainRescue, DrainSuperseded
      <4> QED BY <1>7, <2>3, <4>1, <4>2, DrainStepMoves
    <3> QED BY <3>1, <3>2, <3>3, WorkPersists DEF Awake
  <2> QED BY <2>1, <2>2, <2>3
<1>8. ASSUME NEW k \in Keys, BackoffElapses(k)
      PROVE  WakeInv'
  <2>1. HasWork(held, queue) /\ UNCHANGED <<alarm, cut, drain>>
    BY <1>8 DEF BackoffElapses, HasWork
  <2> QED BY <2>1, WorkPersists DEF Awake
<1>9. CASE ObjectStep
  BY <1>2, <1>3, <1>4, <1>6, <1>7, <1>8, <1>9
     DEF ObjectStep, LeaseExpires, Kick, IdlePasses, RunAges, chunkVars, queueVars
<1>10. ASSUME NEW r \in Requests, RequestStep(r) \/ RequestFails(r)
       PROVE  WakeInv'
  <2>1. CASE Inline(r)
    BY <1>3, <1>5, <2>1 DEF Inline, umVars
  <2>2. CASE ~Inline(r)
    BY <1>3, <1>10, <2>2 DEF RequestStep, RequestFails, Lookup, Reopen, Claim, Conflict, Activate,
       CallHandoff, HandoffStart, umVars, chunkVars, queueVars
  <2> QED BY <2>1, <2>2
<1>11. CASE Evict
  <2>1. CASE Crash
    <3>1. UNCHANGED <<held, queue, cut>> /\ alarm' = Awake
      BY <2>1 DEF Crash, CutOff, chunkVars, queueVars, Awake
    <3> QED BY <3>1, StillAwake DEF Awake
  <2>2. CASE \E h \in Handoffs : CrashInAdd(h)
    BY <1>2, <2>2 DEF CrashInAdd
  <2> QED BY <1>11, <2>1, <2>2 DEF Evict
<1>12. CASE UNCHANGED vars \/ \E h \in Handoffs : Deliver(h)
  BY <1>3, <1>12 DEF Deliver, vars, umVars, chunkVars, queueVars
<1> QED BY <1>9, <1>10, <1>11, <1>12 DEF Next, Done

(* The invariant of an object whose drains keep to their lease. *)
LoneDrainInv == SharedInv /\ LeaseInv /\ LoneInv

LEMMA LoneDrainInvKept ==
  ASSUME ~SlowDrains
  PROVE  LoneDrainInv /\ [Next]_vars => LoneDrainInv'
<1> SUFFICES ASSUME LoneDrainInv, [Next]_vars PROVE LoneDrainInv'
  OBVIOUS
<1>1. IngestInv /\ Stored /\ SharedInv' /\ LeaseInv' /\ OneBusy
  BY SharedInvKept, LeaseKept, LeaseOneBusy DEF LoneDrainInv, SharedInv, Stored, IngestInv
<1>2. StoreStep /\ (\A d \in Drains : DrainMove(d)) /\ (\A h \in Handoffs : CallMove(h))
  BY <1>1, StepStore, StepDrains, StepCalls
<1>3. CarriesInv' /\ PlacesInv'
  BY <1>1, <1>2, CarriesInvKept, PlacesInvKept DEF LoneDrainInv, LoneInv
<1>4. WakeInv'
  BY <1>1, WakeInvKept DEF LoneDrainInv, LoneInv
<1> QED BY <1>1, <1>3, <1>4 DEF LoneDrainInv, LoneInv

LEMMA LoneDrain ==
  ASSUME ~SlowDrains
  PROVE  Spec => []LoneDrainInv
<1>1. Init => LoneDrainInv
  <2> SUFFICES ASSUME Init PROVE LoneDrainInv
    OBVIOUS
  <2>1. /\ held = {} /\ queue = [k \in Keys |-> NoEntry]
        /\ drain = [d \in Drains |-> DrainOff] /\ call = [h \in Handoffs |-> "off"]
    BY DEF Init, UserMemoryInit
  <2>2. \A d \in Drains : drain[d].pc = "off" /\ ~Busy(d)
    BY <2>1 DEF DrainOff, Busy
  <2>3. LeaseInv /\ CarriesInv /\ PlacesInv /\ WakeInv
    BY <2>1, <2>2 DEF LeaseInv, CarriesInv, PlacesInv, WakeInv, HasWork, Unsettled
  <2> QED BY <2>3, SharedInvInit DEF LoneDrainInv, LoneInv
<1> QED BY <1>1, LoneDrainInvKept, PTL DEF Spec

(* The object never sleeps on work: with no drain running and work queued or *)
(* held, the alarm is set, through every handoff, drain and eviction but the *)
(* one that cuts addMessages off before its wake guarantee. An entry that    *)
(* outlasts its lease is excluded: its drain can put back an entry that      *)
(* another one has finished, and be evicted with no alarm set.               *)
THEOREM NeverAsleepOnWork ==
  ASSUME ~SlowDrains
  PROVE  Spec => []WakeGuaranteed
<1>1. LoneDrainInv => WakeGuaranteed
  BY DEF LoneDrainInv, LoneInv, WakeInv, WakeGuaranteed
<1> QED BY <1>1, LoneDrain, PTL

(* No message of an accepted packet is in the object twice under one         *)
(* generation, whatever retries, repairs and evictions come between.         *)
THEOREM NoMessageTwice ==
  ASSUME ~SlowDrains
  PROVE  Spec => []SingleOwner
<1>1. LoneDrainInv => SingleOwner
  <2> SUFFICES ASSUME LoneDrainInv, NEW j \in Jobs, NEW m \in Msgs, NEW g \in Generations
               PROVE  Cardinality(
                        {k \in Keys : /\ queue[k] # NoEntry /\ queue[k].job = j /\ queue[k].msg = m
                                      /\ queue[k].gen = g /\ queue[k].rescue = 0}
                        \union {0 : h \in {x \in held : x.job = j /\ x.msg = m /\ x.gen = g
                                                        /\ x.rescue = 0}}) <= 1
    BY DEF SingleOwner
  <2> DEFINE queued == {k \in Keys : /\ queue[k] # NoEntry /\ queue[k].job = j /\ queue[k].msg = m
                                     /\ queue[k].gen = g /\ queue[k].rescue = 0}
             waiting == {x \in held : x.job = j /\ x.msg = m /\ x.gen = g /\ x.rescue = 0}
             copies == queued \union {0 : h \in waiting}
  <2>1. PlacesInv
    BY DEF LoneDrainInv, LoneInv
  <2>2. \A k, i \in queued : k = i
    BY <2>1 DEF PlacesInv, SameCopy
  <2>3. \A k \in queued, x \in waiting : FALSE
    BY <2>1 DEF PlacesInv, SameCopy
  <2>4. \A a, b \in copies : a = b
    <3> HIDE DEF queued, waiting
    <3> QED BY <2>2, <2>3
  <2>5. Cardinality(copies) <= 1
    <3> HIDE DEF copies
    <3>1. CASE copies = {}
      BY <3>1, FS_EmptySet
    <3>2. CASE copies # {}
      <4>1. PICK a \in copies : copies = {a}
        BY <2>4, <3>2
      <4>2. Cardinality({a}) = 1
        BY FS_Singleton
      <4> QED BY <4>1, <4>2
    <3> QED BY <3>1, <3>2
  <2> QED BY <2>5
<1> QED BY <1>1, LoneDrain, PTL

(* An entry that carries a verdict leaves the object only with the event of  *)
(* that verdict in the outbox: no interruption, retry, repair or rescue      *)
(* makes the object forget a verdict it has not announced.                   *)
THEOREM VerdictBeforeOblivion ==
  ASSUME ~SlowDrains
  PROVE  Spec => VerdictAnnounced
<1>1. ASSUME LoneDrainInv, [Next]_vars, NEW k \in Keys, queue[k] # NoEntry,
             queue[k].verdict # "none", queue'[k] = NoEntry
      PROVE  \E state \in TERMINAL_JOB_STATES :
               /\ <<queue[k].job, state>> \in announced'
               /\ job[queue[k].job].gen = queue[k].gen => job[queue[k].job].status = state
  <2>1. IngestInv /\ Stored /\ KeysInv /\ GensInv /\ AnnounceInv /\ CarriesInv
    BY <1>1 DEF LoneDrainInv, LoneInv, SharedInv, Stored, IngestInv
  <2>2. queue \in [Keys -> Entry \union {NoEntry}] /\ NoEntry \notin Entry
    BY <2>1, StoredFacts DEF NoEntry, Entry, Verdicts
  <2>3. ChunkStep
    <3>1. ~EntryStep
      BY <1>1, <2>2 DEF EntryStep
    <3> QED BY <1>1, <2>1, <3>1, StepStore DEF StoreStep
  <2>4. PICK All, X, D : Shifts(All, X, D) /\ Frees(D)
    BY <2>3 DEF ChunkStep
  <2>5. k \in D
    <3>1. \A x \in X : EntryOf(x) # NoEntry
      BY <2>4, EntryOfInjective DEF Shifts
    <3> QED BY <1>1, <2>4, <3>1 DEF Shifts
  <2>6. PICK d \in Drains : Busy(d) /\ drain[d].key = k /\ Leaves(d) /\ LastWord(d)
    BY <2>4, <2>5 DEF Frees
  <2>7. /\ SameCopy(queue[k], drain[d].e) /\ drain[d].e.verdict # "none"
        /\ drain[d].e \in Entry
    BY <1>1, <2>1, <2>6, StoredFacts DEF KeysInv, CarriesInv
  <2>8. announced \subseteq announced'
    BY <1>1, <2>1, StepAnnounces
  <2>9. CASE drain[d].pc = "finalize"
    BY <2>1, <2>7, <2>8, <2>9 DEF AnnounceInv, Announced, SameCopy
  <2>10. CASE drain[d].pc = "superseded"
    <3>1. job[drain[d].e.job].gen # drain[d].e.gen
      <4>1. drain[d].e.gen < job[drain[d].e.job].gen
        BY <2>1, <2>10 DEF GensInv
      <4>2. drain[d].e.gen \in Nat
        BY <2>7 DEF Entry, Generations
      <4> QED BY <4>1, <4>2
    <3> QED BY <2>6, <2>7, <2>10, <3>1 DEF LastWord, SameCopy
  <2>11. CASE drain[d].pc \in {"read", "check"}
    <3>1. Agrees(drain[d].pc, drain[d].e)
      BY <2>1, <2>6 DEF Stored, ObjectInv, DrainOK, DrainInv, Busy
    <3> QED BY <2>6, <2>7, <2>11 DEF Leaves
  <2> QED BY <2>6, <2>9, <2>10, <2>11 DEF Leaves
<1>2. LoneDrainInv /\ [Next]_vars =>
        \A k \in Keys :
          LET e == queue[k]
          IN  e # NoEntry /\ e.verdict # "none" /\ queue'[k] = NoEntry
              => \E state \in TERMINAL_JOB_STATES :
                   /\ <<e.job, state>> \in announced'
                   /\ job[e.job].gen = e.gen => job[e.job].status = state
  BY <1>1
<1> QED BY <1>2, LoneDrain, PTL DEF Spec, VerdictAnnounced

---------------------------------------------------------------------------
(* The first acceptance. While a row is active and was never repaired, what *)
(* the object has of its packet stays, and what the first handoff of it     *)
(* acknowledges is there. This needs nothing of the drains.                 *)

(* How a row comes to be active under generation 0, and what it owes.       *)
RowsFirstKeep ==
  \A j \in Jobs : First(j)' =>
    \/ job[j].status = "none"
    \/ First(j) /\ job'[j].remaining \subseteq job[j].remaining

LEMMA RowStepFirst ==
  ASSUME NEW j \in Jobs, NEW was \in JobRow, NEW is, RowStep(j, was, is), Active(is), is.gen = 0
  PROVE  \/ was.status = "none"
         \/ Active(was) /\ was.gen = 0 /\ is.remaining \subseteq was.remaining
<1>1. CASE was.status = "awaiting_source" /\ is = [was EXCEPT !.status = "queued"]
  BY <1>1 DEF JobRow, Active, ActiveStates
<1>2. ASSUME NEW g \in Generations, NEW ms \in SUBSET Msgs, is = SettleDone(was, g, ms)
      PROVE  Active(was) /\ was.gen = 0 /\ is.remaining \subseteq was.remaining
  BY <1>2 DEF JobRow, SettleDone, Settleable, Active, ActiveStates
<1>3. ASSUME NEW g \in Generations, is = SettleFailed(was, g)
      PROVE  Active(was) /\ was.gen = 0 /\ is.remaining \subseteq was.remaining
  BY <1>3 DEF JobRow, SettleFailed, Settleable, Active, ActiveStates
<1>4. ASSUME NEW g \in Generations, NEW n \in Nat, is = SettleAttempted(was, g, n)
      PROVE  Active(was) /\ was.gen = 0 /\ is.remaining \subseteq was.remaining
  BY <1>4 DEF JobRow, SettleAttempted, Settleable, Active, ActiveStates
<1>5. ~(was.status = "failed" /\ is = Reopened(was, j))
  BY DEF JobRow, Reopened, NextGeneration, Generations
<1> QED BY <1>1, <1>2, <1>3, <1>4, <1>5 DEF RowStep

LEMMA RowsFirst == IngestInv /\ [Next]_vars => RowsFirstKeep
<1> SUFFICES ASSUME IngestInv, [Next]_vars PROVE RowsFirstKeep
  OBVIOUS
<1>1. job \in [Jobs -> JobRow]
  BY DEF IngestInv, ObjectInv, D1Type
<1>2. CASE UNCHANGED job
  BY <1>2 DEF RowsFirstKeep, First
<1>3. CASE RowWritten
  <2>1. PICK j \in Jobs : \E row : job' = [job EXCEPT ![j] = row] /\ RowStep(j, job[j], row)
    BY <1>3 DEF RowWritten
  <2>2. PICK row : job' = [job EXCEPT ![j] = row] /\ RowStep(j, job[j], row)
    BY <2>1
  <2>3. job'[j] = row /\ \A i \in Jobs : i # j => job'[i] = job[i]
    BY <1>1, <2>2
  <2>4. Active(row) /\ row.gen = 0 =>
          \/ job[j].status = "none"
          \/ Active(job[j]) /\ job[j].gen = 0 /\ row.remaining \subseteq job[j].remaining
    BY <1>1, <2>2, RowStepFirst
  <2> QED BY <2>3, <2>4 DEF RowsFirstKeep, First
<1> QED BY <1>2, <1>3, StepWritesRow

(* No entry of such a row leaves: a drain deletes one only when its row has  *)
(* a verdict or a later generation.                                          *)
LEMMA FirstEntriesStay ==
  ASSUME SharedInv, NEW d \in Drains, Busy(d), Leaves(d)
  PROVE  ~First(drain[d].e.job)
<1> SUFFICES ASSUME First(drain[d].e.job) PROVE FALSE
  OBVIOUS
<1> DEFINE e == drain[d].e
<1>1. e \in Entry /\ e.gen <= job[e.job].gen
  BY StoredFacts DEF SharedInv, Stored, IngestInv, GensInv
<1>2. e.gen \in Nat /\ job[e.job].gen = 0 /\ ~Terminal(job[e.job])
  BY <1>1 DEF Entry, Generations, First, Active, ActiveStates, Terminal, TERMINAL_JOB_STATES
<1>3. e.gen = 0
  <2> HIDE DEF e
  <2> QED BY <1>1, <1>2
<1>4. CASE drain[d].pc = "finalize"
  <2>1. Announced(e)
    BY <1>4 DEF SharedInv, AnnounceInv
  <2> QED BY <1>2, <1>3, <2>1 DEF Announced, Terminal
<1>5. CASE drain[d].pc = "superseded"
  BY <1>2, <1>3, <1>5 DEF SharedInv, GensInv
<1> QED BY <1>2, <1>3, <1>4, <1>5 DEF Leaves

(* What the object has of such a row, it keeps. *)
LEMMA FirstStaysInObject ==
  ASSUME SharedInv, StoreStep, NEW j \in Jobs, First(j), NEW m \in Msgs, InObject(j, m, 0)
  PROVE  InObject(j, m, 0)'
<1>1. Stored /\ held \in SUBSET Held /\ queue \in [Keys -> Entry \union {NoEntry}] /\ qseq \in Nat
      /\ NoEntry \notin Entry /\ \A k \in Keys : queue[k] # NoEntry => k <= qseq
  BY StoredFacts DEF SharedInv, Stored, IngestInv, NoEntry, Entry, Verdicts
<1>2. job[j].gen = 0
  BY DEF First
<1>3. CASE ChunkStep
  <2>1. PICK All, X, D : Shifts(All, X, D) /\ Drops(All) /\ Frees(D)
    BY <1>3 DEF ChunkStep
  <2>2. ASSUME NEW x \in All, x.job = j, x.msg = m, x.gen = 0
        PROVE  InObject(j, m, 0)'
    <3>1. CASE x \in X
      <4>1. PICK k \in Keys : queue'[k] = EntryOf(x)
        BY <2>1, <3>1 DEF Shifts
      <4>2. x \in Held
        BY <2>1 DEF Shifts
      <4>3. queue'[k] # NoEntry /\ SameCopy(queue'[k], x)
        BY <4>1, <4>2, EntryOfInjective
      <4> QED BY <2>2, <4>3 DEF InObject, SameCopy
    <3>2. CASE x \notin X
      BY <2>1, <2>2, <3>2 DEF Shifts, InObject
    <3> QED BY <3>1, <3>2
  <2>3. ASSUME NEW x \in held, x.job = j, x.msg = m, x.gen = 0
        PROVE  InObject(j, m, 0)'
    <3>1. CASE x \in All
      BY <2>2, <2>3, <3>1
    <3>2. ASSUME NEW h \in Handoffs, call[h] = "add", x.job = h[1], [x EXCEPT !.gen = h[2]] \in All
          PROVE  InObject(j, m, 0)'
      <4>1. h[2] <= job[j].gen /\ h[2] \in Nat
        BY <2>3, <3>2 DEF SharedInv, GensInv, Handoffs, Generations
      <4>2. h[2] = 0
        BY <1>2, <4>1
      <4>3. [x EXCEPT !.gen = h[2]] = x
        BY <1>1, <2>3, <4>2 DEF Held
      <4> QED BY <2>2, <2>3, <3>2, <4>3
    <3>3. ~(x.gen < job[x.job].gen)
      BY <1>2, <2>3
    <3> QED BY <2>1, <3>1, <3>2, <3>3 DEF Drops
  <2>4. ASSUME NEW k \in Keys, queue[k] # NoEntry, queue[k].job = j, queue[k].msg = m, queue[k].gen = 0
        PROVE  InObject(j, m, 0)'
    <3>1. k \notin D
      <4> SUFFICES ASSUME k \in D PROVE FALSE
        OBVIOUS
      <4>1. PICK d \in Drains : Busy(d) /\ drain[d].key = k /\ Leaves(d)
        BY <2>1 DEF Frees
      <4>2. drain[d].e.job = j
        BY <1>1, <2>4, <4>1 DEF Stored, KeysInv, SameCopy
      <4> QED BY <4>1, <4>2, FirstEntriesStay
    <3>2. ~(qseq < k)
      BY <1>1, <2>4 DEF Keys
    <3>3. queue'[k] = queue[k]
      BY <2>1, <3>1, <3>2 DEF Shifts
    <3> QED BY <2>4, <3>3 DEF InObject
  <2> QED BY <2>3, <2>4 DEF InObject
<1>4. CASE EntryStep
  <2>1. PICK i \in Keys, f \in Entry :
          /\ queue' = [queue EXCEPT ![i] = f]
          /\ \/ queue[i] # NoEntry /\ SameCopy(f, queue[i])
             \/ \E b \in Drains : Busy(b) /\ drain[b].key = i /\ SameCopy(f, drain[b].e)
    BY <1>4 DEF EntryStep
  <2>2. /\ held' = held /\ queue'[i] = f /\ f # NoEntry
        /\ \A k \in Keys : k # i => queue'[k] = queue[k]
    BY <1>1, <1>4, <2>1 DEF EntryStep
  <2>3. queue[i] # NoEntry => SameCopy(f, queue[i])
    BY <1>1, <2>1 DEF Stored, KeysInv, SameCopy
  <2>4. ASSUME NEW k \in Keys, queue[k] # NoEntry, queue[k].job = j, queue[k].msg = m, queue[k].gen = 0
        PROVE  InObject(j, m, 0)'
    <3>1. queue'[k] # NoEntry /\ SameCopy(queue'[k], queue[k])
      BY <2>2, <2>3, <2>4 DEF SameCopy
    <3> QED BY <2>4, <3>1 DEF InObject, SameCopy
  <2> QED BY <2>2, <2>4 DEF InObject
<1> QED BY <1>3, <1>4 DEF StoreStep

(* Nothing of a packet comes into the object but through a handoff of it. *)
LEMMA NothingOfStays ==
  ASSUME Stored, StoreStep, \A d \in Drains : DrainMove(d), NEW j \in Jobs, NothingOf(j),
         \A h \in Handoffs : h[1] = j =>
           ~(call[h] = "add" /\ call'[h] # "add" /\ marker[h].state = "pending" /\ marker'[h].state = "applied")
  PROVE  NothingOf(j)'
<1>1. \A x \in Held : NewInChunk(x) => x.job # j
  <2> SUFFICES ASSUME NEW x \in Held, NewInChunk(x), x.job = j PROVE FALSE
    OBVIOUS
  <2>1. ASSUME NEW d \in Drains, drain[d].pc = "finalize", x = Rescued(drain[d].e)
        PROVE  FALSE
    BY <2>1 DEF Rescued, NothingOf, Busy
  <2>2. x \notin held
    BY DEF NothingOf
  <2> QED BY <2>1, <2>2 DEF NewInChunk, Brought, Handed
<1>2. \A x \in held' : x.job # j
  BY <1>1, StoreOrigins
<1>3. \A k \in Keys : queue'[k] # NoEntry => queue'[k].job # j
  BY <1>1, StoreOrigins DEF Earlier, NothingOf, SameCopy
<1>4. \A d \in Drains : Busy(d)' => drain'[d].e.job # j
  <2> SUFFICES ASSUME NEW d \in Drains, Busy(d)' PROVE drain'[d].e.job # j
    OBVIOUS
  <2>1. CASE drain'[d] = drain[d]
    BY <2>1 DEF NothingOf, Busy
  <2>2. CASE Picked(d)
    BY <2>2 DEF Picked, NothingOf
  <2>3. CASE GoesOn(d)
    BY <2>3 DEF GoesOn, NothingOf, SameCopy
  <2> QED BY <2>1, <2>2, <2>3 DEF DrainMove, Busy
<1> QED BY <1>2, <1>3, <1>4 DEF NothingOf

(* What a step does to a handoff: its own step, its start by a request, or   *)
(* else its call ends, and its marker goes only with the job's verdict or    *)
(* with an entry of the job.                                                 *)
MarkerStays(h) ==
  \/ marker'[h] = marker[h]
  \/ Terminal(job[h[1]])
  \/ \E d \in Drains : Busy(d) /\ Leaves(d) /\ drain[d].e.job = h[1]

CallStays(h) ==
  call'[h] = call[h] \/ call'[h] = "off" \/ (call'[h] = "err" /\ call[h] # "off")

HandoffMove(h) ==
  \/ HandoffStep(h) \/ CrashInAdd(h)
  \/ HandoffStart(h) /\ \E r \in Requests : req[r].pc = "handoff" /\ ReqJob[r] = h[1]
  \/ MarkerStays(h) /\ CallStays(h)

(* A drain that deletes its entry takes only markers of the entry's job. *)
LEMMA DeletingMarkers ==
  ASSUME IngestInv, NEW d \in Drains, Busy(d), Leaves(d), marker' = WithoutMarkers(marker, drain[d].e),
         NEW h \in Handoffs
  PROVE  MarkerStays(h)
<1>1. marker \in [Handoffs -> Marker]
  BY DEF IngestInv, ObjectInv, ControlType
<1>2. CASE drain[d].e.job = h[1]
  BY <1>2 DEF MarkerStays
<1>3. CASE drain[d].e.job # h[1]
  <2>1. h # <<drain[d].e.job, drain[d].e.gen>> /\ h # <<drain[d].e.job, 0>>
    BY <1>3
  <2> QED BY <1>1, <2>1 DEF WithoutMarkers, MarkerStays
<1> QED BY <1>2, <1>3

LEMMA StepHandoffs == IngestInv /\ [Next]_vars => \A h \in Handoffs : HandoffMove(h)
<1> SUFFICES ASSUME IngestInv, [Next]_vars, NEW h \in Handoffs PROVE HandoffMove(h)
  OBVIOUS
<1>1. call \in [Handoffs -> CallStates] /\ marker \in [Handoffs -> Marker]
  BY DEF IngestInv, ObjectInv, ControlType
<1>2. CASE UNCHANGED <<call, marker>>
  BY <1>2 DEF HandoffMove, MarkerStays, CallStays
<1>3. ASSUME NEW i \in Handoffs, i # h, NEW pc, Become(i, pc),
             marker' = marker \/ \E rec : marker' = [marker EXCEPT ![i] = rec]
      PROVE  HandoffMove(h)
  BY <1>1, <1>3 DEF Become, HandoffMove, MarkerStays, CallStays
<1>4. ASSUME NEW i \in Handoffs, HandoffStep(i)
      PROVE  HandoffMove(h)
  <2>1. CASE i = h
    BY <1>4, <2>1 DEF HandoffMove
  <2>2. CASE i # h
    <3>1. \E pc : Become(i, pc)
      BY <1>4 DEF HandoffStep, HandoffGeneration, HandoffPrior, HandoffAdd, HandoffSettle,
         HandoffFinish
    <3>2. marker' = marker \/ \E rec : marker' = [marker EXCEPT ![i] = rec]
      <4>1. AddCommit(i) => marker' = marker \/ \E rec : marker' = [marker EXCEPT ![i] = rec]
        BY Zenon DEF AddCommit
      <4>2. HandoffAdd(i) => AddCommit(i)
        BY DEF HandoffAdd
      <4> QED BY <1>4, <4>1, <4>2 DEF HandoffStep, HandoffGeneration, HandoffPrior, HandoffSettle,
              HandoffFinish
    <3> QED BY <1>3, <2>2, <3>1, <3>2
  <2> QED BY <2>1, <2>2
<1>5. ASSUME NEW i \in Handoffs, HandoffFault(i)
      PROVE  HandoffMove(h)
  BY <1>1, <1>5 DEF HandoffFault, Become, HandoffMove, MarkerStays, CallStays
<1>6. ASSUME NEW i \in Handoffs, Deliver(i)
      PROVE  HandoffMove(h)
  BY <1>1, <1>6 DEF Deliver, Become, HandoffMove, MarkerStays, CallStays
<1>7. ASSUME NEW d \in Drains, DrainStep(d)
      PROVE  HandoffMove(h)
  <2>1. UNCHANGED call
    BY <1>7, EngineFrame DEF DrainStep, Engine, DrainPick, DrainDone, DrainRead, DrainCheck,
       DrainPut, DrainBookkeep, DrainSettle, DrainVerify, DrainFinalize, DrainRescue,
       DrainSuperseded, DrainFault
  <2>2. CASE Busy(d) /\ Leaves(d) /\ marker' = WithoutMarkers(marker, drain[d].e)
    BY <2>1, <2>2, DeletingMarkers DEF HandoffMove, CallStays
  <2>3. CASE DrainRead(d)
    BY <1>2, <2>1, <2>2, <2>3 DEF DrainRead, DeleteEntry, Leaves, Busy
  <2>4. CASE DrainCheck(d)
    <3>1. drain[d].e.verdict = "none" /\ Busy(d)
      BY <2>4 DEF DrainCheck, IngestInv, ObjectInv, DrainOK, DrainInv, Agrees, EnginePcs, Busy
    <3> QED BY <1>2, <2>1, <2>2, <2>4, <3>1 DEF DrainCheck, DeleteEntry, Leaves
  <2>5. CASE DrainFinalize(d) \/ DrainSuperseded(d) \/ DrainRescue(d)
    BY <2>2, <2>5 DEF DrainFinalize, DrainSuperseded, DrainRescue, Retire, DeleteEntry, Leaves, Busy
  <2>6. CASE DrainPick(d) \/ DrainDone(d) \/ Engine(d) \/ DrainPut(d) \/ DrainBookkeep(d)
             \/ DrainSettle(d) \/ DrainVerify(d) \/ DrainFault(d)
    <3>1. UNCHANGED marker
      BY <2>6, EngineFrame DEF DrainPick, DrainDone, DrainPut, DrainBookkeep, DrainSettle,
         DrainVerify, DrainFault
    <3> QED BY <1>2, <2>1, <3>1
  <2> QED BY <1>7, <2>3, <2>4, <2>5, <2>6 DEF DrainStep, Engine
<1>8. CASE Kick
  BY <1>1, <1>8 DEF Kick, HandoffMove, MarkerStays, CallStays
<1>9. CASE ObjectStep
  BY <1>2, <1>4, <1>5, <1>7, <1>8, <1>9
     DEF ObjectStep, AlarmFires, LeaseExpires, IdlePasses, BackoffElapses, RunAges
<1>10. ASSUME NEW r \in Requests, RequestStep(r) \/ RequestFails(r)
       PROVE  HandoffMove(h)
  <2>1. CASE CallHandoff(r) /\ HandoffStart(HandoffOf(r))
    <3>1. HandoffOf(r) \in Handoffs /\ req[r].pc = "handoff" /\ HandoffOf(r)[1] = ReqJob[r]
      BY <2>1 DEF IngestInv, RequestInv, HandoffOf, Handoffs, Req, CallHandoff
    <3>2. CASE HandoffOf(r) = h
      BY <2>1, <3>1, <3>2 DEF HandoffMove
    <3>3. CASE HandoffOf(r) # h
      <4>1. \E pc : Become(HandoffOf(r), pc)
        BY <2>1 DEF HandoffStart
      <4>2. marker' = marker \/ \E rec : marker' = [marker EXCEPT ![HandoffOf(r)] = rec]
        BY <2>1 DEF HandoffStart
      <4> QED BY <1>3, <3>1, <3>3, <4>1, <4>2
    <3> QED BY <3>2, <3>3
  <2> QED BY <1>2, <1>10, <2>1 DEF RequestStep, RequestFails, Lookup, Reopen, Claim, Conflict,
          Activate, CallHandoff, Inline, DrainStart, umVars
<1>11. CASE Evict
  <2>1. CASE Crash
    BY <2>1 DEF Crash, CutOff, HandoffMove, MarkerStays, CallStays
  <2>2. ASSUME NEW i \in Handoffs, CrashInAdd(i)
        PROVE  HandoffMove(h)
    <3>1. CASE i = h
      BY <2>2, <3>1 DEF HandoffMove
    <3>2. CASE i # h
      <4>1. AddCommit(i) => marker' = marker \/ \E rec : marker' = [marker EXCEPT ![i] = rec]
        BY Zenon DEF AddCommit
      <4>2. marker' = marker \/ \E rec : marker' = [marker EXCEPT ![i] = rec]
        BY <2>2, <4>1 DEF CrashInAdd
      <4>3. marker'[h] = marker[h] /\ call'[h] = "off"
        BY <1>1, <2>2, <3>2, <4>2 DEF CrashInAdd, CutOff
      <4> QED BY <4>3 DEF HandoffMove, MarkerStays, CallStays
    <3> QED BY <3>1, <3>2
  <2> QED BY <1>11, <2>1, <2>2 DEF Evict
<1>12. CASE UNCHANGED vars
  BY <1>2, <1>12 DEF vars, umVars
<1> QED BY <1>6, <1>9, <1>10, <1>11, <1>12 DEF Next, Done

(* What a step does to a request: an acceptance comes from a handoff that    *)
(* acknowledged, and a request gets beyond its claim only with a row there.  *)
ReqMove(r) ==
  \/ req'[r] = req[r]
  \/ /\ req'[r].answer # "accepted"
     /\ \/ req'[r].pc \in {"claim", "done"}
        \/ req[r].pc \notin {"new", "claim", "done"}
        \/ job[ReqJob[r]].status # "none" \/ job'[ReqJob[r]].status # "none"
  \/ /\ req'[r].answer = "accepted" /\ req[r].pc \in {"wait", "inline"}
     /\ \/ call[<<ReqJob[r], req'[r].gen>>] = "ok"
        \/ req[r].answer = "accepted" /\ req'[r].gen = req[r].gen

LEMMA StepRequests == IngestInv /\ [Next]_vars => \A r \in Requests : ReqMove(r)
<1> SUFFICES ASSUME IngestInv, [Next]_vars, NEW r \in Requests PROVE ReqMove(r)
  OBVIOUS
<1>1. req \in [Requests -> Req] /\ job \in [Jobs -> JobRow]
  BY DEF IngestInv, ObjectInv, RequestInv, D1Type
<1>2. CASE UNCHANGED req
  BY <1>2 DEF ReqMove
<1>3. ASSUME NEW i \in Requests, NEW rec, req' = [req EXCEPT ![i] = rec], i # r
      PROVE  ReqMove(r)
  BY <1>1, <1>3 DEF ReqMove
<1>4. ASSUME RequestStep(r) \/ RequestFails(r)
      PROVE  ReqMove(r)
  <2>1. ASSUME NEW a, AnswerReq(r, a), a # "accepted"
        PROVE  ReqMove(r)
    BY <1>1, <2>1 DEF AnswerReq, ReqAt, ReqMove
  <2>2. ASSUME NEW pc, NEW g, At(r, pc, g),
               \/ pc = "claim" \/ req[r].pc \notin {"new", "claim", "done"}
               \/ job[ReqJob[r]].status # "none" \/ job'[ReqJob[r]].status # "none"
        PROVE  ReqMove(r)
    BY <1>1, <2>2 DEF At, ReqAt, ReqMove
  <2>3. CASE Lookup(r)
    <3>1. CASE /\ job[ReqJob[r]].status = "failed"
               /\ req' = [req EXCEPT ![r] = [pc |-> "reopen", gen |-> 0, row |-> job[ReqJob[r]],
                                             answer |-> "none"]]
      BY <1>1, <3>1 DEF ReqMove
    <3> QED BY <2>1, <2>2, <2>3, <3>1 DEF Lookup, DuplicateOf
  <2>4. CASE Reopen(r)
    BY <2>1, <2>2, <2>4 DEF Reopen, DuplicateOf
  <2>5. CASE Claim(r)
    <3>1. CASE job' = [job EXCEPT ![ReqJob[r]] = ClaimedRow(ReqJob[r])] /\ At(r, "source", req[r].gen)
      <4>1. job'[ReqJob[r]].status # "none"
        BY <1>1, <3>1 DEF ClaimedRow
      <4> QED BY <2>2, <3>1, <4>1
    <3> QED BY <2>1, <2>2, <2>5, <3>1 DEF Claim
  <2>6. CASE Conflict(r) \/ Activate(r) \/ CallHandoff(r) \/ RequestFails(r)
    BY <2>1, <2>2, <2>6 DEF Conflict, Activate, CallHandoff, RequestFails, DuplicateOf
  <2>7. CASE Inline(r)
    <3>1. /\ req'[r].pc = "done" /\ req'[r].answer = req[r].answer /\ req'[r].gen = req[r].gen
          /\ req[r].pc = "inline"
      BY <1>1, <2>7 DEF Inline, Req
    <3> QED BY <3>1 DEF ReqMove
  <2> QED BY <1>4, <2>3, <2>4, <2>5, <2>6, <2>7 DEF RequestStep
<1>5. ASSUME NEW i \in Requests, i # r, RequestStep(i) \/ RequestFails(i)
      PROVE  ReqMove(r)
  <2>1. \E rec : req' = [req EXCEPT ![i] = rec]
    BY <1>5, Zenon DEF RequestStep, RequestFails, Lookup, Reopen, Claim, Conflict, Activate, CallHandoff,
       Inline, At, AnswerReq
  <2> QED BY <1>3, <1>5, <2>1
<1>6. ASSUME NEW h \in Handoffs, Deliver(h)
      PROVE  ReqMove(r)
  <2>1. CASE req[r].pc = "wait" /\ HandoffOf(r) = h
    <3>1. CASE call[h] = "ok"
      <4>1. req'[r] = ReqAt("inline", h[2], "accepted")
        BY <1>6, <2>1, <3>1 DEF Deliver
      <4>2. <<ReqJob[r], h[2]>> = h
        BY <2>1 DEF HandoffOf
      <4> QED BY <2>1, <3>1, <4>1, <4>2 DEF ReqMove, ReqAt
    <3>2. CASE call[h] # "ok"
      BY <1>6, <2>1, <3>2 DEF Deliver, ReqAt, ReqMove
    <3> QED BY <3>1, <3>2
  <2>2. CASE ~(req[r].pc = "wait" /\ HandoffOf(r) = h)
    BY <1>6, <2>2 DEF Deliver, ReqMove
  <2> QED BY <2>1, <2>2
<1>7. CASE Evict
  BY <1>7 DEF Evict, ReqAt, ReqMove
<1> QED BY <1>2, <1>4, <1>5, <1>6, <1>7 DEF Next, Done, vars

(* The steps of a call that has not started, or is not about to add, add     *)
(* nothing.                                                                  *)
LEMMA OffCallStays ==
  ASSUME IngestInv, NEW h \in Handoffs, HandoffMove(h), call[h] = "off",
         \A r \in Requests : ReqJob[r] = h[1] => req[r].pc # "handoff"
  PROVE  MarkerStays(h) /\ CallStays(h)
BY DEF HandoffMove, HandoffStep, HandoffGeneration, HandoffPrior, HandoffAdd, HandoffSettle,
   HandoffFinish, CrashInAdd, AddCommit

(* As long as the row is not there, nothing comes of the packet; and the     *)
(* step that claims it finds things so.                                      *)
LEMMA UnclaimedStays ==
  ASSUME SharedInv, UnclaimedInv, StoreStep, IngestInv',
         \A d \in Drains : DrainMove(d), \A h \in Handoffs : HandoffMove(h),
         \A r \in Requests : ReqMove(r), NEW j \in Jobs, job[j].status = "none"
  PROVE  /\ NothingOf(j)'
         /\ \A g \in Generations : call'[<<j, g>>] = "off" /\ marker'[<<j, g>>] = NoMarker
         /\ \A r \in Requests : ReqJob[r] = j =>
              /\ req'[r].answer # "accepted"
              /\ job'[j].status = "none" => req'[r].pc \in {"new", "claim", "done"}
<1>1. /\ IngestInv /\ Stored /\ NothingOf(j)
      /\ \A g \in Generations : call[<<j, g>>] = "off" /\ marker[<<j, g>>] = NoMarker
      /\ \A r \in Requests : ReqJob[r] = j =>
           req[r].pc \in {"new", "claim", "done"} /\ req[r].answer # "accepted"
  BY DEF SharedInv, Stored, IngestInv, UnclaimedInv
<1>2. \A h \in Handoffs : h[1] \in Jobs /\ h[2] \in Generations /\ h = <<h[1], h[2]>>
  BY DEF Handoffs
<1>3. NothingOf(j)'
  <2>1. \A h \in Handoffs : h[1] = j => call[h] # "add"
    BY <1>1, <1>2
  <2> QED BY <1>1, <2>1, NothingOfStays
<1>4. ASSUME NEW g \in Generations
      PROVE  call'[<<j, g>>] = "off" /\ marker'[<<j, g>>] = NoMarker
  <2> DEFINE h == <<j, g>>
  <2>1. h \in Handoffs /\ h[1] = j
    BY DEF Handoffs
  <2>2. \A r \in Requests : ReqJob[r] = h[1] => req[r].pc # "handoff"
    BY <1>1, <2>1
  <2>3. call[h] = "off" /\ marker[h] = NoMarker
    BY <1>1
  <2> HIDE DEF h
  <2>4. MarkerStays(h) /\ CallStays(h)
    BY <1>1, <2>1, <2>2, <2>3, OffCallStays
  <2>5. ~Terminal(job[h[1]])
    BY <2>1 DEF Terminal, TERMINAL_JOB_STATES
  <2>6. \A d \in Drains : Busy(d) => drain[d].e.job # h[1]
    BY <1>1, <2>1 DEF NothingOf
  <2>7. marker'[h] = marker[h]
    BY <2>4, <2>5, <2>6 DEF MarkerStays
  <2>8. call'[h] = "off"
    BY <2>3, <2>4 DEF CallStays
  <2> QED BY <2>3, <2>7, <2>8 DEF h
<1>5. ASSUME NEW r \in Requests, ReqJob[r] = j
      PROVE  /\ req'[r].answer # "accepted"
             /\ job'[j].status = "none" => req'[r].pc \in {"new", "claim", "done"}
  <2>1. req[r].pc \in {"new", "claim", "done"} /\ req[r].answer # "accepted"
    BY <1>1, <1>5
  <2> QED BY <1>5, <2>1 DEF ReqMove
<1> QED BY <1>3, <1>4, <1>5

(* A message of a chunk that fires or is held is in the object. *)
LEMMA ShiftsInObject ==
  ASSUME NEW All, NEW X, NEW D, Shifts(All, X, D), NEW x \in All
  PROVE  InObject(x.job, x.msg, x.gen)'
<1>1. CASE x \in X
  <2>1. PICK k \in Keys : queue'[k] = EntryOf(x)
    BY <1>1 DEF Shifts
  <2>2. x \in Held
    BY DEF Shifts
  <2>3. queue'[k] # NoEntry /\ SameCopy(queue'[k], x)
    BY <2>1, <2>2, EntryOfInjective
  <2> QED BY <2>3 DEF InObject, SameCopy
<1>2. CASE x \notin X
  BY <1>2 DEF Shifts, InObject
<1> QED BY <1>1, <1>2

(* What one step leaves of a row that stays active without a repair. *)
FirstStays(j) ==
  /\ First(j) /\ First(j)' /\ job'[j].remaining \subseteq job[j].remaining
  /\ \A m \in Msgs : InObject(j, m, 0) => InObject(j, m, 0)'
  /\ MarkerStays(<<j, 0>>) => marker'[<<j, 0>>] = marker[<<j, 0>>]
  /\ NothingOf(j) =>
       \/ NothingOf(j)'
       \/ /\ call[<<j, 0>>] = "add" /\ call'[<<j, 0>>] # "add"
          /\ marker[<<j, 0>>].state = "pending" /\ marker'[<<j, 0>>].state = "applied"

LEMMA FirstStaysSo ==
  ASSUME SharedInv, StoreStep, RowsFirstKeep, \A d \in Drains : DrainMove(d),
         NEW j \in Jobs, job[j].status # "none", First(j)'
  PROVE  FirstStays(j)
<1>1. First(j) /\ job'[j].remaining \subseteq job[j].remaining
  BY DEF RowsFirstKeep
<1>2. \A m \in Msgs : InObject(j, m, 0) => InObject(j, m, 0)'
  BY <1>1, FirstStaysInObject
<1>3. MarkerStays(<<j, 0>>) => marker'[<<j, 0>>] = marker[<<j, 0>>]
  <2>1. ~Terminal(job[j])
    BY <1>1 DEF First, Active, ActiveStates, Terminal, TERMINAL_JOB_STATES
  <2>2. \A d \in Drains : Busy(d) /\ Leaves(d) => drain[d].e.job # j
    BY <1>1, FirstEntriesStay
  <2> QED BY <2>1, <2>2 DEF MarkerStays
<1>4. ASSUME NothingOf(j),
             ~(/\ call[<<j, 0>>] = "add" /\ call'[<<j, 0>>] # "add"
               /\ marker[<<j, 0>>].state = "pending" /\ marker'[<<j, 0>>].state = "applied")
      PROVE  NothingOf(j)'
  <2>1. ASSUME NEW h \in Handoffs, h[1] = j, call[h] = "add"
        PROVE  h = <<j, 0>>
    <3>1. h[2] <= job[j].gen /\ h[2] \in Nat /\ h = <<h[1], h[2]>>
      BY <2>1 DEF SharedInv, GensInv, Handoffs, Generations
    <3>2. h[2] = 0
      BY <1>1, <3>1 DEF First
    <3> QED BY <2>1, <3>1, <3>2
  <2>2. Stored
    BY DEF SharedInv, Stored, IngestInv
  <2> QED BY <1>4, <2>1, <2>2, NothingOfStays
<1> QED BY <1>1, <1>2, <1>3, <1>4 DEF FirstStays

(* The packet that the first handoff adds is all in the object, but for what *)
(* is settled at the door.                                                   *)
LEMMA FirstAdd ==
  ASSUME SharedInv, NEW j \in Jobs, FirstStays(j), FirstHandoff(j), AddCommit(<<j, 0>>),
         call'[<<j, 0>>] \in {"settle", "off"},
         call'[<<j, 0>>] = "settle" => marker[<<j, 0>>].state = "pending"
  PROVE  FirstHandoff(j)'
<1> DEFINE h == <<j, 0>>
<1>1. h \in Handoffs /\ h[1] = j /\ h[2] = 0
  BY RepairAssumption DEF Handoffs, Generations
<1>2. Stored
  BY DEF SharedInv, Stored, IngestInv
<1>3. call[h] = "add" /\ marker[h].state \in {"none", "pending"} /\ NothingOf(j)
  BY DEF AddCommit, FirstHandoff
<1> HIDE DEF h
<1>4. PICK All, X : Shifts(All, X, {}) /\ Joins(h, All)
  BY <1>1, <1>2, AddShifts DEF h
<1>5. CASE marker[h].state # "pending"
  <2>1. marker'[h] = marker[h]
    BY <1>4, <1>5 DEF Joins
  <2>2. NothingOf(j)'
    BY <1>3, <1>5 DEF FirstStays, h
  <2> QED BY <1>3, <1>5, <2>1, <2>2 DEF FirstHandoff, h
<1>6. CASE marker[h].state = "pending"
  <2>1. marker'[h].state = "applied"
    <3>1. marker \in [Handoffs -> Marker]
      BY <1>2 DEF Stored, ObjectInv, ControlType
    <3> QED BY <1>1, <1>4, <1>6, <3>1 DEF Joins, Applied
  <2>2. ASSUME NEW m \in job'[j].remaining, m \notin marker'[h].settled
        PROVE  InObject(j, m, 0)'
    <3>1. m \in MsgsOf[j]
      BY <2>2 DEF FirstStays, SharedInv, RowsInv
    <3>2. ~\E x \in held : x.job = h[1] /\ x.msg = m
      BY <1>1, <1>3 DEF NothingOf
    <3>3. PICK x \in All : Handed(h, x) /\ x.msg = m
      BY <1>1, <1>4, <1>6, <2>2, <3>1, <3>2 DEF Joins
    <3> QED BY <1>1, <1>4, <3>3, ShiftsInObject DEF Handed
  <2> QED BY <2>1, <2>2 DEF FirstHandoff, h
<1> QED BY <1>5, <1>6

(* FirstHandoff survives every step of the handoff, and of anything else. *)
LEMMA FirstHandoffKept ==
  ASSUME SharedInv, NEW j \in Jobs, FirstStays(j), FirstHandoff(j), HandoffMove(<<j, 0>>)
  PROVE  FirstHandoff(j)'
<1> DEFINE h == <<j, 0>>
<1>1. h \in Handoffs /\ h[1] = j /\ h[2] = 0
  BY RepairAssumption DEF Handoffs, Generations
<1>2. /\ call \in [Handoffs -> CallStates] /\ marker \in [Handoffs -> Marker]
      /\ job[j] \in JobRow
  BY DEF SharedInv, IngestInv, ObjectInv, ControlType, D1Type
<1>3. First(j) /\ First(j)' /\ ~Terminal(job[j]) /\ ~Terminal(job'[j])
  BY DEF FirstStays, First, Active, ActiveStates, Terminal, TERMINAL_JOB_STATES
<1>4. job'[j].remaining \subseteq job[j].remaining /\ job[j].remaining \subseteq Msgs
  BY <1>2 DEF FirstStays, JobRow
<1>5. AllInObject(j) => AllInObject(j)'
  BY <1>4 DEF FirstStays, AllInObject
<1> HIDE DEF h
<1>6. ASSUME marker'[h] = marker[h], call[h] # "add" \/ call'[h] = "add" \/ marker[h].state # "pending",
             call'[h] \in {"gen", "prior", "add"} => marker[h].state \in {"none", "pending"},
             call'[h] \in {"settle", "own"} => marker[h].state = "applied",
             call'[h] \in {"own", "ok"} => AllInObject(j)'
      PROVE  FirstHandoff(j)'
  <2>1. marker[h].state \in {"none", "pending"} => NothingOf(j)'
    BY <1>6 DEF FirstHandoff, FirstStays, h
  <2>2. marker[h].state = "applied" =>
          \A m \in job'[j].remaining : InObject(j, m, 0)' \/ m \in marker[h].settled
    BY <1>4 DEF FirstHandoff, FirstStays, h
  <2>3. marker[h].state = "accepted" => AllInObject(j)'
    BY <1>5 DEF FirstHandoff, h
  <2> QED BY <1>6, <2>1, <2>2, <2>3 DEF FirstHandoff, h
<1>7. CASE MarkerStays(h) /\ CallStays(h)
  <2>1. marker'[h] = marker[h]
    BY <1>7 DEF FirstStays, h
  <2>2. /\ call[h] \in {"gen", "prior", "add"} => marker[h].state \in {"none", "pending"}
        /\ call[h] \in {"settle", "own"} => marker[h].state = "applied"
        /\ call[h] \in {"own", "ok"} => AllInObject(j)'
    BY <1>5 DEF FirstHandoff, h
  <2>3. NothingOf(j) => NothingOf(j)'
    BY <2>1 DEF FirstStays, h
  <2>4. marker[h].state \in {"none", "pending"} => NothingOf(j)'
    BY <2>3 DEF FirstHandoff, h
  <2>5. marker[h].state = "applied" =>
          \A m \in job'[j].remaining : InObject(j, m, 0)' \/ m \in marker[h].settled
    BY <1>4 DEF FirstHandoff, FirstStays, h
  <2>6. marker[h].state = "accepted" => AllInObject(j)'
    BY <1>5 DEF FirstHandoff, h
  <2> QED BY <1>7, <2>1, <2>2, <2>4, <2>5, <2>6 DEF CallStays, FirstHandoff, h
<1>8. CASE HandoffStart(h)
  <2>1. call[h] = "off"
    BY <1>8 DEF HandoffStart
  <2>2. CASE marker[h].state = "accepted" /\ Become(h, "ok") /\ UNCHANGED marker
    <3>1. AllInObject(j)' /\ call'[h] = "ok"
      BY <1>1, <1>2, <1>5, <2>2 DEF FirstHandoff, Become, h
    <3> QED BY <1>6, <2>1, <2>2, <3>1
  <2>3. CASE marker[h].state = "applied" /\ Become(h, "settle") /\ UNCHANGED marker
    <3>1. call'[h] = "settle"
      BY <1>1, <1>2, <2>3 DEF Become
    <3> QED BY <1>6, <2>1, <2>3, <3>1
  <2>4. CASE /\ marker[h].state \notin {"accepted", "applied"} /\ Become(h, "gen")
             /\ marker' = [marker EXCEPT ![h] = Pending]
    <3>1. marker[h].state \in {"none", "pending"}
      BY <1>1, <1>2, <2>4 DEF Marker
    <3>2. call'[h] = "gen" /\ marker'[h] = Pending
      BY <1>1, <1>2, <2>4 DEF Become
    <3>3. NothingOf(j)'
      BY <2>1, <3>1 DEF FirstHandoff, FirstStays, h
    <3> QED BY <3>2, <3>3 DEF FirstHandoff, Pending, h
  <2> QED BY <1>8, <2>2, <2>3, <2>4 DEF HandoffStart
<1>9. CASE HandoffGeneration(h)
  <2>1. call[h] = "gen" /\ marker[h].state \in {"none", "pending"} /\ NothingOf(j)
    BY <1>9 DEF HandoffGeneration, FirstHandoff, h
  <2>2. ASSUME NEW chunk \in SUBSET held, Owns(chunk, queue, h[1], h[2])
        PROVE  FALSE
    BY <1>1, <2>1, <2>2 DEF Owns, NothingOf
  <2>3. UNCHANGED marker /\ (Become(h, "err") \/ Become(h, "prior"))
    <3> DEFINE kept == {x \in held : ~(x.job = h[1] /\ x.gen < h[2])}
    <3>1. ~Owns(kept, queue, h[1], h[2])
      BY <2>2
    <3> QED BY <1>9, <3>1, Zenon DEF HandoffGeneration
  <2>4. call'[h] \in {"err", "prior"}
    BY <1>1, <1>2, <2>3 DEF Become
  <2> QED BY <1>6, <2>1, <2>3, <2>4
<1>10. CASE HandoffPrior(h)
  <2>1. call[h] = "prior" /\ Become(h, "add") /\ UNCHANGED marker
    BY <1>1, <1>3, <1>10 DEF HandoffPrior
  <2>2. call'[h] = "add"
    BY <1>1, <1>2, <2>1 DEF Become
  <2>3. marker[h].state \in {"none", "pending"}
    BY <2>1 DEF FirstHandoff, h
  <2> QED BY <1>6, <2>1, <2>2, <2>3
<1>11. CASE HandoffAdd(h)
  <2>1. AddCommit(h) /\ marker[h].state = "pending" /\ Become(h, "settle")
    BY <1>11 DEF HandoffAdd
  <2>2. call'[h] = "settle"
    BY <1>1, <1>2, <2>1 DEF Become
  <2> QED BY <2>1, <2>2, FirstAdd DEF h
<1>12. CASE CrashInAdd(h)
  <2>1. AddCommit(h) /\ call'[h] = "off"
    BY <1>1, <1>12 DEF CrashInAdd, CutOff
  <2> QED BY <2>1, FirstAdd DEF h
<1>13. CASE HandoffSettle(h)
  <2> DEFINE row == IF marker[h].settled = {} THEN job[j] ELSE SettleDone(job[j], 0, marker[h].settled)
  <2>1. /\ call[h] = "settle" /\ UNCHANGED <<held, queue, marker>> /\ Become(h, "own")
        /\ job' = [job EXCEPT ![j] = row]
    BY <1>1, <1>13 DEF HandoffSettle, chunkVars, queueVars
  <2>2. marker[h].state = "applied" /\ call'[h] = "own"
    BY <1>1, <1>2, <2>1 DEF FirstHandoff, Become, h
  <2>3. \A m \in row.remaining : m \in job[j].remaining /\ m \notin marker[h].settled
    BY <1>2, <1>3 DEF SettleDone, Settleable, First, JobRow
  <2>4. job'[j] = row
    BY <2>1 DEF SharedInv, IngestInv, ObjectInv, D1Type
  <2>5. \A m \in job'[j].remaining : InObject(j, m, 0)
    BY <2>2, <2>3, <2>4 DEF FirstHandoff, h
  <2>6. AllInObject(j)'
    BY <1>4, <2>5 DEF AllInObject, FirstStays
  <2> QED BY <1>6, <2>1, <2>2, <2>6
<1>14. CASE HandoffFinish(h)
  <2>1. call[h] = "own" /\ AllInObject(j) /\ marker[h].state = "applied"
    BY <1>14 DEF HandoffFinish, FirstHandoff, h
  <2>2. CASE marker' = [marker EXCEPT ![h] = Accepted] /\ Become(h, "ok")
    <3>1. marker'[h] = Accepted /\ call'[h] = "ok"
      BY <1>1, <1>2, <2>2 DEF Become
    <3> QED BY <1>5, <2>1, <3>1 DEF FirstHandoff, Accepted, h
  <2>3. CASE Become(h, "err") /\ UNCHANGED marker
    <3>1. call'[h] = "err"
      BY <1>1, <1>2, <2>3 DEF Become
    <3> QED BY <1>6, <2>1, <2>3, <3>1
  <2>4. ASSUME NEW row, job' = [job EXCEPT ![j] = row], Terminal(row)
        PROVE  FALSE
    BY <1>3, <2>4 DEF SharedInv, IngestInv, ObjectInv, D1Type
  <2> QED BY <1>1, <1>14, <2>2, <2>3, <2>4 DEF HandoffFinish
<1> QED BY <1>7, <1>8, <1>9, <1>10, <1>11, <1>12, <1>13, <1>14 DEF HandoffMove, HandoffStep, h

(* What was acknowledged at the first handoff stays in the object. *)
LEMMA FirstAnswersKept ==
  ASSUME SharedInv, NEW j \in Jobs, FirstStays(j), FirstHandoff(j), FirstAnswers(j),
         \A r \in Requests : ReqMove(r)
  PROVE  FirstAnswers(j)'
<1>1. AllInObject(j) => AllInObject(j)'
  <2>1. job[j].remaining \subseteq Msgs
    BY DEF SharedInv, IngestInv, ObjectInv, D1Type, JobRow
  <2> QED BY <2>1 DEF FirstStays, AllInObject
<1> SUFFICES ASSUME NEW r \in Requests, ReqJob[r] = j, req'[r].answer = "accepted", req'[r].gen = 0
             PROVE  AllInObject(j)
  BY <1>1 DEF FirstAnswers
<1>2. CASE req[r].answer = "accepted" /\ req[r].gen = 0
  BY <1>2 DEF FirstAnswers
<1>3. CASE call[<<ReqJob[r], req'[r].gen>>] = "ok"
  BY <1>3 DEF FirstHandoff
<1> QED BY <1>2, <1>3 DEF ReqMove

(* From its claim on, a row that is active without a repair is so owned. *)
AcceptInv == SharedInv /\ UnclaimedInv /\ FirstInv

LEMMA AcceptInvKept == AcceptInv /\ [Next]_vars => AcceptInv'
<1> SUFFICES ASSUME AcceptInv, [Next]_vars PROVE AcceptInv'
  OBVIOUS
<1>1. SharedInv /\ SharedInv' /\ IngestInv /\ IngestInv' /\ Stored
  BY SharedInvKept DEF AcceptInv, SharedInv, Stored, IngestInv
<1>2. /\ StoreStep /\ RowsFirstKeep /\ \A d \in Drains : DrainMove(d)
      /\ \A h \in Handoffs : HandoffMove(h)
      /\ \A r \in Requests : ReqMove(r)
  BY <1>1, StepStore, RowsFirst, StepDrains, StepHandoffs, StepRequests
<1>3. ASSUME NEW j \in Jobs, job[j].status = "none"
      PROVE  /\ NothingOf(j)'
             /\ \A g \in Generations : call'[<<j, g>>] = "off" /\ marker'[<<j, g>>] = NoMarker
             /\ \A r \in Requests : ReqJob[r] = j =>
                  /\ req'[r].answer # "accepted"
                  /\ job'[j].status = "none" => req'[r].pc \in {"new", "claim", "done"}
  BY <1>1, <1>2, <1>3, UnclaimedStays DEF AcceptInv
<1>4. UnclaimedInv'
  <2>1. \A j \in Jobs : job'[j].status = "none" => job[j].status = "none"
    BY <1>1, RowsInvKept DEF RowsKeep, SharedInv
  <2> QED BY <1>3, <2>1 DEF UnclaimedInv
<1>5. ASSUME NEW j \in Jobs, First(j)'
      PROVE  FirstHandoff(j)' /\ FirstAnswers(j)'
  <2>1. CASE job[j].status = "none"
    <3>1. 0 \in Generations
      BY RepairAssumption DEF Generations
    <3>2. NothingOf(j)' /\ call'[<<j, 0>>] = "off" /\ marker'[<<j, 0>>] = NoMarker
      BY <1>3, <2>1, <3>1
    <3>3. FirstAnswers(j)'
      BY <1>3, <2>1 DEF FirstAnswers
    <3> QED BY <3>2, <3>3 DEF FirstHandoff, NoMarker
  <2>2. CASE job[j].status # "none"
    <3>1. FirstStays(j)
      BY <1>1, <1>2, <1>5, <2>2, FirstStaysSo
    <3>2. FirstHandoff(j) /\ FirstAnswers(j)
      BY <3>1 DEF AcceptInv, FirstInv, FirstStays
    <3>3. <<j, 0>> \in Handoffs
      BY RepairAssumption DEF Handoffs, Generations
    <3> QED BY <1>1, <1>2, <3>1, <3>2, <3>3, FirstHandoffKept, FirstAnswersKept
  <2> QED BY <2>1, <2>2
<1> QED BY <1>1, <1>4, <1>5 DEF AcceptInv, FirstInv

LEMMA AcceptInvInit == Init => AcceptInv
<1> SUFFICES ASSUME Init PROVE AcceptInv
  OBVIOUS
<1>1. \A j \in Jobs : NothingOf(j) /\ ~First(j)
  BY DEF Init, UserMemoryInit, NothingOf, Busy, DrainOff, First, NoRow, Active, ActiveStates
<1>2. UnclaimedInv
  BY <1>1 DEF UnclaimedInv, Init, UserMemoryInit, Handoffs, NewReq, ReqAt
<1> QED BY <1>1, <1>2, SharedInvInit DEF AcceptInv, FirstInv

(* The invariant behind FirstAcceptance, for every state: a first handoff and *)
(* what it has put down are where the row says, whatever comes in between.   *)
THEOREM Acceptance == Spec => []AcceptInv
<1> QED BY AcceptInvInit, AcceptInvKept, PTL DEF Spec

(* Until its row is repaired or gets a verdict, an accepted packet has every *)
(* message that it still owes in the object.                                 *)
THEOREM FirstAcceptance == Spec => []FirstAcceptanceHolds
<1>1. AcceptInv => FirstAcceptanceHolds
  <2>1. \A r \in Requests : ReqJob[r] \in Jobs
    BY ReqAssumption
  <2> QED BY <2>1 DEF AcceptInv, FirstInv, First, FirstAnswers, AllInObject, FirstAcceptanceHolds
<1> QED BY <1>1, Acceptance, PTL

---------------------------------------------------------------------------
(* The evidence. Nothing in the object, and no stored outcome of a run,      *)
(* passes for an answer about a message that the model was not asked about.  *)

Of(x, c, m) == Ctx[x.job] = c /\ x.msg = m

Answered(k) == \E a \in AttemptIds : run[k][a] \in {"wrote", "skipped"}

(* An entry that no answer has touched. *)
Raw(e) == e.rescue = 0 /\ e.verdict \in {"none", "failed"}

(* A drain that is about to record an answer. *)
Hopeful(d) == drain[d].pc = "put" /\ drain[d].out \in {"wrote", "no_write"}

Unread(c, m) ==
  /\ \A x \in held : Of(x, c, m) => x.rescue = 0
  /\ \A k \in Keys : queue[k] # NoEntry /\ Of(queue[k], c, m) => Raw(queue[k]) /\ ~Answered(k)
  /\ \A d \in Drains : Busy(d) /\ Of(drain[d].e, c, m) =>
       Raw(drain[d].e) /\ ~Answered(drain[d].key) /\ ~Hopeful(d)
  /\ m \notin seen[c] /\ m # checkpoint[c]

EvidenceInv ==
  /\ \A k \in Keys : Answered(k) => k <= qseq
  /\ \A c \in Contexts : \A m \in Msgs \ Noise : <<c, m>> \notin looked => Unread(c, m)

(* What one step adds to the evidence, and for which entry.                  *)
LooksFor(d) == <<Ctx[drain[d].e.job], drain[d].e.msg>> \in looked'

RunsMove ==
  \A k \in Keys : Answered(k)' =>
    Answered(k) \/ \E d \in Drains : Busy(d) /\ drain[d].key = k /\ LooksFor(d)

MarksMove ==
  \A c \in Contexts : \A m \in Msgs \ Noise :
    m \in seen'[c] \/ m = checkpoint'[c] =>
      \/ m \in seen[c] \/ m = checkpoint[c]
      \/ \E d \in Drains : Busy(d) /\ Of(drain[d].e, c, m) /\ drain[d].e.verdict = "complete"

OutMove(d) ==
  /\ Hopeful(d)' => \/ Hopeful(d) /\ drain'[d] = drain[d]
                    \/ /\ Busy(d) /\ drain'[d].key = drain[d].key /\ drain'[d].e = drain[d].e
                       /\ Answered(drain[d].key) \/ LooksFor(d)
  /\ Busy(d)' /\ drain'[d].e.verdict \notin {"none", "failed"} =>
       \/ Busy(d) /\ SameCopy(drain'[d].e, drain[d].e)
                  /\ (drain'[d].e.verdict = drain[d].e.verdict \/ Hopeful(d))
       \/ Picked(d)

EvidenceMove == looked \subseteq looked' /\ RunsMove /\ MarksMove /\ \A d \in Drains : OutMove(d)

(* A step that leaves the runs alone stores no outcome.                     *)
LEMMA RunsUntouched ==
  ASSUME UNCHANGED run
  PROVE  RunsMove
BY DEF RunsMove, Answered

(* One attempt's run is written, and only as answered if the model was asked. *)
LEMMA RunWritten ==
  ASSUME IngestInv, NEW d \in Drains, Busy(d), NEW st, SetRun(drain[d].key, drain[d].e, st),
         \/ st \notin {"wrote", "skipped"}
         \/ LooksFor(d)
         \/ run[drain[d].key][<<drain[d].e.attempts, drain[d].e.cap>>] = st
  PROVE  RunsMove
<1> DEFINE n == drain[d].key
           i == <<drain[d].e.attempts, drain[d].e.cap>>
<1>1. run \in [Keys -> [AttemptIds -> RunStates]] /\ n \in Keys
  BY DEF IngestInv, ObjectInv, D1Type, DrainOK, DrainInv, Busy
<1>2. run' = [run EXCEPT ![n] = [run[n] EXCEPT ![i] = st]]
  BY DEF SetRun
<1> SUFFICES ASSUME NEW k \in Keys, NEW a \in AttemptIds, run'[k][a] \in {"wrote", "skipped"}
             PROVE  Answered(k) \/ \E b \in Drains : Busy(b) /\ drain[b].key = k /\ LooksFor(b)
  BY DEF RunsMove, Answered
<1>3. run'[k][a] = run[k][a] \/ (k = n /\ a = i /\ run'[k][a] = st)
  BY <1>1, <1>2
<1>4. CASE run'[k][a] = run[k][a]
  BY <1>4 DEF Answered
<1>5. CASE k = n /\ a = i /\ run'[k][a] = st
  BY <1>5 DEF Answered
<1> QED BY <1>3, <1>4, <1>5

(* A step that leaves the markers and the checkpoint alone marks nothing.   *)
LEMMA MarksUntouched ==
  ASSUME UNCHANGED <<seen, checkpoint>>
  PROVE  MarksMove
BY DEF MarksMove

(* The packet's noise is all that a handoff finalizes in the chunk's marks.  *)
LEMMA AddMarks ==
  ASSUME IngestInv, NEW h \in Handoffs, AddCommit(h)
  PROVE  MarksMove
<1>1. seen \in [Contexts -> SUBSET Msgs] /\ checkpoint \in [Contexts -> Msgs \union {NoMsg}]
      /\ h[1] \in Jobs /\ Ctx[h[1]] \in Contexts
  BY DEF IngestInv, ObjectInv, ChunkType, Handoffs
<1>2. \/ UNCHANGED <<seen, checkpoint>>
      \/ \E passed \in SUBSET Noise :
           /\ seen' = [seen EXCEPT ![Ctx[h[1]]] = seen[Ctx[h[1]]] \union passed]
           /\ \E last \in passed \union {checkpoint[Ctx[h[1]]]} :
                checkpoint' = [checkpoint EXCEPT ![Ctx[h[1]]] = last]
  <2> DEFINE j == h[1]
             c == Ctx[j]
             switch == OtherContext(held, c)
             chunk == IF switch THEN {} ELSE held
             dups == Duplicates(j, h[2], chunk)
             noise == (MsgsOf[j] \ dups) \intersect Noise
             fresh == (MsgsOf[j] \ dups) \ Noise
             passed == {n \in noise : chunk = {} /\ \A m \in fresh : m > n}
  <2>1. CASE marker[h].state # "pending"
    BY <2>1, Zenon DEF AddCommit
  <2>2. CASE marker[h].state = "pending"
    <3>1. seen' = [seen EXCEPT ![c] = @ \union passed]
      BY <2>2, Zenon DEF AddCommit
    <3>2. \E last \in IF passed = {} THEN {checkpoint[c]} ELSE {n \in passed : \A m \in passed : m <= n} :
            checkpoint' = [checkpoint EXCEPT ![c] = last]
      BY <2>2, Zenon DEF AddCommit
    <3>3. passed \in SUBSET Noise
      OBVIOUS
    <3> HIDE DEF passed, c
    <3>4. \E last \in passed \union {checkpoint[c]} : checkpoint' = [checkpoint EXCEPT ![c] = last]
      BY <3>2
    <3> QED BY <3>1, <3>3, <3>4 DEF c
  <2> QED BY <2>1, <2>2
<1>3. CASE UNCHANGED <<seen, checkpoint>>
  BY <1>3, MarksUntouched
<1>4. ASSUME NEW passed \in SUBSET Noise,
             seen' = [seen EXCEPT ![Ctx[h[1]]] = seen[Ctx[h[1]]] \union passed],
             NEW last \in passed \union {checkpoint[Ctx[h[1]]]},
             checkpoint' = [checkpoint EXCEPT ![Ctx[h[1]]] = last]
      PROVE  MarksMove
  <2> SUFFICES ASSUME NEW c \in Contexts, NEW m \in Msgs \ Noise, m \in seen'[c] \/ m = checkpoint'[c]
               PROVE  m \in seen[c] \/ m = checkpoint[c]
    BY DEF MarksMove
  <2>1. CASE c = Ctx[h[1]]
    BY <1>1, <1>4, <2>1
  <2>2. CASE c # Ctx[h[1]]
    BY <1>1, <1>4, <2>2
  <2> QED BY <2>1, <2>2
<1> QED BY <1>2, <1>3, <1>4

(* An entry that ends marks its own message, if it is complete. *)
LEMMA RetireMarks ==
  ASSUME IngestInv, NEW d \in Drains, Busy(d), Retire(d)
  PROVE  MarksMove
<1> DEFINE e == drain[d].e
<1>1. seen \in [Contexts -> SUBSET Msgs] /\ checkpoint \in [Contexts -> Msgs \union {NoMsg}]
      /\ Ctx[e.job] \in Contexts
  BY DEF IngestInv, ObjectInv, ChunkType, DrainOK, DrainInv, Busy, Entry
<1>2. CASE e.verdict # "complete"
  BY <1>2, MarksUntouched DEF Retire
<1>3. CASE e.verdict = "complete"
  <2>1. /\ checkpoint' = [checkpoint EXCEPT ![Ctx[e.job]] = e.msg]
        /\ seen' = [seen EXCEPT ![Ctx[e.job]] = seen[Ctx[e.job]] \union {e.msg}]
    BY <1>3 DEF Retire
  <2> SUFFICES ASSUME NEW c \in Contexts, NEW m \in Msgs \ Noise, m \in seen'[c] \/ m = checkpoint'[c]
               PROVE  m \in seen[c] \/ m = checkpoint[c] \/ (c = Ctx[e.job] /\ m = e.msg)
    BY <1>3 DEF MarksMove, Of
  <2> HIDE DEF e
  <2> QED BY <1>1, <2>1
<1> QED BY <1>2, <1>3

(* A drain that stays, or goes back to picking, brings no new outcome.      *)
LEMMA OutStays ==
  ASSUME NEW d \in Drains, drain'[d] = drain[d] \/ drain'[d].pc \in {"off", "pick"}
  PROVE  OutMove(d)
BY DEF OutMove, Hopeful, Busy, SameCopy

(* A drain that only moves on keeps the outcome it has.                     *)
LEMMA OutGoes ==
  ASSUME IngestInv, NEW d \in Drains, Busy(d), NEW pc, pc # "put", Goto(d, pc)
  PROVE  OutMove(d)
<1>1. drain \in [Drains -> DrainRec]
  BY DEF IngestInv, ObjectInv, DrainOK, DrainType
<1>2. drain'[d].e = drain[d].e /\ drain'[d].pc = pc
  BY <1>1 DEF Goto, DrainRec
<1> QED BY <1>2 DEF OutMove, Hopeful, Busy, SameCopy

(* A drain that answers does it from the stored run or from the model.      *)
LEMMA OutAnswers ==
  ASSUME IngestInv, NEW d \in Drains, Busy(d), NEW out, Answer(d, out),
         out \in {"wrote", "no_write"} => Answered(drain[d].key) \/ LooksFor(d)
  PROVE  OutMove(d)
<1>1. drain \in [Drains -> DrainRec]
  BY DEF IngestInv, ObjectInv, DrainOK, DrainType
<1>2. /\ drain'[d].e = drain[d].e /\ drain'[d].pc = "put" /\ drain'[d].out = out
      /\ drain'[d].key = drain[d].key
  BY <1>1 DEF Answer, DrainAt
<1> QED BY <1>2 DEF OutMove, Hopeful, Busy, SameCopy

(* A drain that puts its entry back brings no outcome either.               *)
LEMMA OutPut ==
  ASSUME IngestInv, NEW d \in Drains, DrainPut(d)
  PROVE  OutMove(d)
<1> DEFINE f == AfterOutcome(drain[d].e, drain[d].out)
           pc == IF f.verdict = "none" THEN "bookkeep" ELSE "settle"
<1>1. drain \in [Drains -> DrainRec] /\ Busy(d) /\ drain[d].pc = "put"
  BY DEF IngestInv, ObjectInv, DrainOK, DrainType, DrainPut, Busy
<1>2. drain[d].e \in Entry
  BY <1>1 DEF IngestInv, ObjectInv, DrainOK, DrainInv, Busy
<1>3. SameCopy(f, drain[d].e)
  BY <1>2, OutcomeSameCopy
<1>4. f.verdict \in {"none", "failed", drain[d].e.verdict} \/ drain[d].out \in {"wrote", "no_write"}
  BY <1>2 DEF AfterOutcome, Settling, Retried, Entry
<1>5. drain' = [drain EXCEPT ![d] = DrainAt(d, pc, f, drain[d].out)]
  BY DEF DrainPut
<1>6. pc # "put"
  OBVIOUS
<1> HIDE DEF f, pc
<1>7. drain'[d].e = f /\ drain'[d].pc = pc
  BY <1>1, <1>5 DEF DrainAt
<1> QED BY <1>1, <1>3, <1>4, <1>6, <1>7 DEF OutMove, Hopeful, Busy

(* A drain that picks starts with no outcome.                               *)
LEMMA OutPicked ==
  ASSUME IngestInv, NEW d \in Drains, DrainPick(d)
  PROVE  OutMove(d)
<1>1. drain \in [Drains -> DrainRec]
  BY DEF IngestInv, ObjectInv, DrainOK, DrainType
<1>2. PICK k \in Keys :
        /\ Runnable(d, k)
        /\ drain' = [drain EXCEPT ![d] = [pc |-> "read", key |-> k, e |-> queue[k], out |-> None,
                                          attempted |-> drain[d].attempted \union {k}]]
  BY DEF DrainPick
<1>3. drain'[d].pc = "read" /\ drain'[d].key = k /\ drain'[d].e = queue[k]
  BY <1>1, <1>2
<1>4. UNCHANGED <<job, held, queue, qseq, announced>>
  BY DEF DrainPick, d1Vars, chunkVars, queueVars
<1> QED BY <1>2, <1>3, <1>4 DEF OutMove, Hopeful, Picked, Runnable

(* What a drain does to the evidence. *)
LEMMA DrainEvidence ==
  ASSUME IngestInv, NEW d \in Drains, DrainStep(d)
  PROVE  EvidenceMove
<1>1. \A b \in Drains : b # d => OutMove(b)
  BY DrainStepMove, OutStays DEF Others
<1> SUFFICES looked \subseteq looked' /\ RunsMove /\ MarksMove /\ OutMove(d)
  BY <1>1 DEF EvidenceMove
<1> DEFINE k == drain[d].key
           e == drain[d].e
           st == RunOf(k, e)
<1>3. CASE Engine(d)
  <2>1. Busy(d) /\ UNCHANGED <<seen, checkpoint>>
    BY <1>3, EngineFrame DEF chunkVars
  <2>2. MarksMove
    BY <2>1, MarksUntouched
  <2>3. k \in Keys /\ <<e.attempts, e.cap>> \in AttemptIds /\ st \in RunStates
    BY <1>3, EngineMoves, AttemptType DEF IngestInv
  <2>4. RecoveredOutcome(st) \in {"wrote", "no_write"} => Answered(k)
    <3>1. RecoveredOutcome(st) \in {"wrote", "no_write"} => st \in {"wrote", "skipped"}
      BY <2>3 DEF RecoveredOutcome, RunStates
    <3> QED BY <2>3, <3>1 DEF Answered, RunOf
  <2> DEFINE Wrote(to) == SetRun(k, e, to) /\ (to \in {"wrote", "skipped"} => to = st \/ LooksFor(d))
             Says(out) == Answer(d, out) /\ (out \in {"wrote", "no_write"} => Answered(k) \/ LooksFor(d))
             Goes == NextTurn(d) \/ \E pc \in {"model", "commit", "broken"} : Goto(d, pc)
  <2>5. SUFFICES /\ looked \subseteq looked'
                 /\ UNCHANGED run \/ \E to : Wrote(to)
                 /\ Goes \/ \E out : Says(out)
    <3>1. ASSUME NEW to, Wrote(to)
          PROVE  RunsMove
      BY <2>1, <3>1, RunWritten DEF RunOf
    <3>2. ASSUME Goes
          PROVE  OutMove(d)
      BY <2>1, <3>2, TurnStops, OutStays, OutGoes
    <3>3. ASSUME NEW out, Says(out)
          PROVE  OutMove(d)
      BY <2>1, <3>3, OutAnswers
    <3>4. RunsMove /\ OutMove(d)
      BY <2>5, <3>1, <3>2, <3>3, RunsUntouched
    <3> QED BY <2>2, <2>5, <3>4
  <2>6. looked' = looked \/ Looks(e)
    BY <1>3, EngineMoves DEF IngestInv
  <2>7. Looks(e) => looked \subseteq looked' /\ LooksFor(d)
    BY DEF Looks, LooksFor
  <2> HIDE DEF k, e, st
  <2>8. CASE DrainClaim(d)
    BY <2>4, <2>8 DEF DrainClaim, k, e, st
  <2>9. ASSUME NEW out \in Outcomes, DrainModel(d, out)
        PROVE  /\ looked \subseteq looked'
               /\ UNCHANGED run \/ \E to : Wrote(to)
               /\ Goes \/ \E said : Says(said)
    <3>1. out = "no_write" => Looks(e)
      BY <2>9 DEF DrainModel, e
    <3>2. \/ out # "wrote" /\ Answer(d, out)
             /\ (UNCHANGED run \/ SetRun(k, e, IF out = "no_write" THEN "skipped" ELSE out))
          \/ SetRun(k, e, "committing") /\ Goto(d, "commit")
          \/ UNCHANGED run /\ (NextTurn(d) \/ Answer(d, RecoveredOutcome(st)))
      BY <2>9 DEF DrainModel, k, e, st
    <3>3. out # "skipped"
      BY OutcomeAssumption
    <3> QED BY <2>4, <2>6, <2>7, <3>1, <3>2, <3>3
  <2>10. CASE DrainCommit(d)
    <3>1. \/ SetRun(k, e, "wrote") /\ Looks(e) /\ (Answer(d, "wrote") \/ Goto(d, "broken"))
          \/ UNCHANGED <<run, looked>> /\ (Answer(d, "cancelled") \/ Goto(d, "broken"))
      BY <2>10 DEF DrainCommit, k, e
    <3> QED BY <2>7, <3>1
  <2>11. CASE DrainBroken(d)
    BY <2>11 DEF DrainBroken, k, e
  <2>12. CASE EngineFault(d)
    <3> DEFINE after == Caught(st)
    <3>1. /\ UNCHANGED looked
          /\ \/ SetRun(k, e, after) /\ Answer(d, RecoveredOutcome(after))
             \/ UNCHANGED run /\ Answer(d, "llm_failed")
      BY <2>12 DEF EngineFault, k, e, st
    <3>2. after \in {"wrote", "skipped"} => after = st
      BY DEF Caught
    <3>3. RecoveredOutcome(after) \in {"wrote", "no_write"} => Answered(k)
      BY <2>4 DEF Caught, RecoveredOutcome
    <3> QED BY <3>1, <3>2, <3>3
  <2> QED BY <1>3, <2>8, <2>9, <2>10, <2>11, <2>12 DEF Engine
<1>4. CASE DrainFinalize(d) \/ DrainSuperseded(d)
  <2>1. Busy(d) /\ UNCHANGED <<run, looked>>
    BY <1>4 DEF DrainFinalize, DrainSuperseded, Busy, d1Vars
  <2>2. NextTurn(d)
    BY <1>4 DEF DrainFinalize, DrainSuperseded, Retire
  <2>3. OutMove(d)
    BY <2>2, TurnStops, OutStays
  <2>4. Retire(d) \/ UNCHANGED chunkVars
    BY <1>4 DEF DrainFinalize, DrainSuperseded
  <2>5. MarksMove
    BY <2>1, <2>4, RetireMarks, MarksUntouched DEF chunkVars
  <2> QED BY <2>1, <2>3, <2>5, RunsUntouched
<1>5. CASE DrainPick(d) \/ DrainPut(d) \/ DrainRead(d) \/ DrainCheck(d) \/ DrainBookkeep(d)
           \/ DrainSettle(d) \/ DrainVerify(d) \/ DrainRescue(d) \/ DrainDone(d) \/ DrainFault(d)
  <2>1. UNCHANGED <<run, looked, seen, checkpoint>>
    BY <1>5 DEF DrainPick, DrainPut, DrainRead, DrainCheck, DrainBookkeep, DrainSettle, DrainVerify,
       DrainRescue, DrainDone, DrainFault, d1Vars, chunkVars
  <2>2. CASE DrainPick(d)
    BY <2>1, <2>2, OutPicked, MarksUntouched, RunsUntouched
  <2>3. CASE DrainPut(d)
    BY <2>1, <2>3, OutPut, MarksUntouched, RunsUntouched
  <2>4. CASE DrainRead(d) \/ DrainCheck(d) \/ DrainSettle(d) \/ DrainVerify(d)
    <3>1. Busy(d)
      BY <2>4 DEF DrainRead, DrainCheck, DrainSettle, DrainVerify, Busy
    <3>2. NextTurn(d) \/ \E pc : pc # "put" /\ Goto(d, pc)
      BY <2>4 DEF DrainRead, DrainCheck, DrainSettle, DrainVerify, SettleLater
    <3>3. OutMove(d)
      BY <3>1, <3>2, OutGoes, TurnStops, OutStays
    <3> QED BY <2>1, <3>3, MarksUntouched, RunsUntouched
  <2>5. CASE DrainBookkeep(d) \/ DrainRescue(d) \/ DrainDone(d) \/ DrainFault(d)
    <3>1. NextTurn(d) \/ DrainExit(d)
      BY <2>5 DEF DrainBookkeep, DrainRescue, DrainDone, DrainFault
    <3>2. OutMove(d)
      BY <3>1, TurnStops, OutStays
    <3> QED BY <2>1, <3>2, MarksUntouched, RunsUntouched
  <2> QED BY <1>5, <2>2, <2>3, <2>4, <2>5
<1> QED BY <1>3, <1>4, <1>5 DEF DrainStep, Engine

(* Where no store of answers moves and drains only rest, no evidence is made.*)
LEMMA EvidenceKeeps ==
  ASSUME UNCHANGED <<run, looked, seen, checkpoint>>,
         \A d \in Drains : drain'[d] = drain[d] \/ drain'[d].pc \in {"off", "pick"}
  PROVE  EvidenceMove
BY RunsUntouched, MarksUntouched, OutStays DEF EvidenceMove

(* What every step does to the evidence. *)
LEMMA StepEvidence == IngestInv /\ [Next]_vars => EvidenceMove
<1> SUFFICES ASSUME IngestInv, [Next]_vars PROVE EvidenceMove
  OBVIOUS
<1>1. ASSUME UNCHANGED drain, UNCHANGED <<run, looked, seen, checkpoint>>
      PROVE  EvidenceMove
  BY <1>1, EvidenceKeeps
<1>2. ASSUME NEW b \in Drains, DrainStart(b)
      PROVE  EvidenceMove
  <2>1. UNCHANGED <<run, looked, seen, checkpoint>>
    BY <1>2 DEF DrainStart, d1Vars
  <2>2. UNCHANGED drain \/ Goto(b, "pick")
    BY <1>2 DEF DrainStart, LeaseHeld, AcquireLease
  <2>3. \A d \in Drains : drain'[d] = drain[d] \/ drain'[d].pc \in {"off", "pick"}
    BY <2>2, TurnStops DEF Others
  <2> QED BY <2>1, <2>3, EvidenceKeeps
<1>3. CASE AlarmFires
  <2>1. UNCHANGED <<run, looked, seen, checkpoint>>
    BY <1>3 DEF AlarmFires, d1Vars
  <2>2. UNCHANGED drain \/ Goto(AlarmDrain, "pick")
    BY <1>3 DEF AlarmFires, LeaseHeld, AcquireLease
  <2>3. \A d \in Drains : drain'[d] = drain[d] \/ drain'[d].pc \in {"off", "pick"}
    BY <2>2, TurnStops DEF Others
  <2> QED BY <2>1, <2>3, EvidenceKeeps
<1>4. ASSUME NEW h \in Handoffs, HandoffAdd(h)
      PROVE  EvidenceMove
  <2>1. MarksMove
    BY <1>4, AddMarks DEF HandoffAdd
  <2>2. UNCHANGED <<run, looked, drain>>
    BY <1>4 DEF HandoffAdd
  <2> QED BY <2>1, <2>2, RunsUntouched, OutStays DEF EvidenceMove
<1>5. ASSUME NEW k \in Keys, NEW a \in AttemptIds, RunAges(k, a)
      PROVE  EvidenceMove
  <2>1. UNCHANGED <<looked, seen, checkpoint, drain>>
    BY <1>5 DEF RunAges, chunkVars
  <2>2. run \in [Keys -> [AttemptIds -> RunStates]]
    BY DEF IngestInv, ObjectInv, D1Type
  <2>3. \E st \in {"aged", "stalled"} : run' = [run EXCEPT ![k] = [run[k] EXCEPT ![a] = st]]
    BY <1>5, <2>2 DEF RunAges
  <2>4. \A i \in Keys : \A b \in AttemptIds :
          run'[i][b] = run[i][b] \/ run'[i][b] \in {"aged", "stalled"}
    BY <2>2, <2>3
  <2>5. RunsMove
    BY <2>4 DEF RunsMove, Answered
  <2> QED BY <2>1, <2>5, MarksUntouched, OutStays DEF EvidenceMove
<1>6. CASE ObjectStep
  <2>1. ASSUME NEW h \in Handoffs, HandoffStep(h) \/ HandoffFault(h)
        PROVE  EvidenceMove
    <3>1. CASE ~HandoffAdd(h)
      BY <1>1, <2>1, <3>1 DEF HandoffStep, HandoffFault, HandoffGeneration, HandoffPrior,
         HandoffSettle, HandoffFinish, d1Vars, chunkVars
    <3> QED BY <1>4, <3>1
  <2>2. CASE LeaseExpires \/ IdlePasses \/ Kick \/ \E k \in Keys : BackoffElapses(k)
    BY <1>1, <2>2 DEF LeaseExpires, IdlePasses, Kick, BackoffElapses, d1Vars, chunkVars
  <2> QED BY <1>3, <1>5, <1>6, <2>1, <2>2, DrainEvidence DEF ObjectStep
<1>7. ASSUME NEW r \in Requests, RequestStep(r) \/ RequestFails(r)
      PROVE  EvidenceMove
  <2>1. CASE Inline(r)
    <3>1. CASE UNCHANGED umVars
      BY <1>1, <3>1 DEF umVars
    <3> QED BY <1>2, <2>1, <3>1 DEF Inline
  <2>2. CASE ~Inline(r)
    BY <1>1, <1>7, <2>2 DEF RequestStep, RequestFails, Lookup, Reopen, Claim, Conflict, Activate,
       CallHandoff, HandoffStart, umVars, d1Vars, chunkVars
  <2> QED BY <2>1, <2>2
<1>8. CASE Evict
  <2>1. /\ UNCHANGED <<run, looked>>
        /\ \A d \in Drains : drain'[d].pc = "off"
    BY <1>8 DEF Evict, Crash, CrashInAdd, CutOff, DrainOff, d1Vars
  <2>2. MarksMove
    <3>1. CASE UNCHANGED chunkVars
      BY <3>1, MarksUntouched DEF chunkVars
    <3> QED BY <1>8, <3>1, AddMarks DEF Evict, Crash, CrashInAdd
  <2> QED BY <2>1, <2>2, RunsUntouched, OutStays DEF EvidenceMove
<1>9. CASE UNCHANGED vars \/ \E h \in Handoffs : Deliver(h)
  BY <1>1, <1>9 DEF Deliver, vars, umVars, d1Vars, chunkVars
<1> QED BY <1>6, <1>7, <1>8, <1>9 DEF Next, Done

(* Keys are only ever minted upwards.                                       *)
LEMMA StoreGrows ==
  ASSUME Stored, StoreStep
  PROVE  qseq <= qseq'
BY StoredFacts DEF StoreStep, ChunkStep, EntryStep, Shifts

(* No run is answered under a key that a message of the context, still      *)
(* unread, has.                                                              *)
LEMMA StaysUnanswered ==
  ASSUME IngestInv, Stored, EvidenceInv, EvidenceMove,
         NEW c \in Contexts, NEW m \in Msgs \ Noise, <<c, m>> \notin looked', NEW k \in Keys,
         \/ qseq < k
         \/ queue[k] # NoEntry /\ Of(queue[k], c, m)
         \/ \E d \in Drains : Busy(d) /\ drain[d].key = k /\ Of(drain[d].e, c, m)
  PROVE  ~Answered(k)'
<1>1. Unread(c, m) /\ RunsMove
  BY DEF EvidenceInv, EvidenceMove
<1>2. qseq \in Nat /\ k \in Nat /\ \A d \in Drains : Busy(d) => drain[d].key \in Nat /\ drain[d].key <= qseq
  BY StoredFacts DEF Keys
<1>3. ~Answered(k)
  <2>1. CASE qseq < k
    BY <1>2, <2>1 DEF EvidenceInv
  <2>2. CASE queue[k] # NoEntry /\ Of(queue[k], c, m)
    BY <1>1, <2>2 DEF Unread
  <2>3. CASE \E d \in Drains : Busy(d) /\ drain[d].key = k /\ Of(drain[d].e, c, m)
    BY <1>1, <2>3 DEF Unread
  <2> QED BY <2>1, <2>2, <2>3
<1>4. ASSUME NEW b \in Drains, Busy(b), drain[b].key = k, LooksFor(b)
      PROVE  FALSE
  <2>1. Of(drain[b].e, c, m)
    BY <1>2, <1>4 DEF Stored, KeysInv, SameCopy, Of
  <2> QED BY <1>4, <2>1 DEF LooksFor, Of
<1> QED BY <1>1, <1>3, <1>4 DEF RunsMove

(* What is new in the chunk is raw. *)
LEMMA NewIsRaw ==
  ASSUME IngestInv, EvidenceInv, NEW c \in Contexts, NEW m \in Msgs \ Noise, <<c, m>> \notin looked,
         NEW x, NewInChunk(x), Of(x, c, m)
  PROVE  x.rescue = 0
<1>1. Unread(c, m)
  BY DEF EvidenceInv
<1>2. CASE x \in held
  BY <1>1, <1>2 DEF Unread
<1>3. ASSUME NEW h \in Handoffs, Brought(h, x)
      PROVE  x.rescue = 0
  BY <1>3 DEF Brought, Handed
<1>4. ASSUME NEW d \in Drains, drain[d].pc = "finalize", drain[d].e.verdict = "rescue",
             x = Rescued(drain[d].e)
      PROVE  FALSE
  <2>1. Busy(d) /\ Of(drain[d].e, c, m)
    BY <1>4 DEF Busy, Of, Rescued
  <2> QED BY <1>1, <1>4, <2>1 DEF Unread, Raw
<1> QED BY <1>2, <1>3, <1>4 DEF NewInChunk

(* The verdict that a drain goes on with. *)
LEMMA StaysRaw ==
  ASSUME IngestInv, EvidenceInv, EvidenceMove,
         NEW c \in Contexts, NEW m \in Msgs \ Noise, <<c, m>> \notin looked,
         NEW d \in Drains, Busy(d), Of(drain[d].e, c, m), Busy(d)', SameCopy(drain'[d].e, drain[d].e)
  PROVE  Raw(drain'[d].e) \/ Picked(d)
<1>1. Unread(c, m) /\ OutMove(d)
  BY DEF EvidenceInv, EvidenceMove
<1>2. Raw(drain[d].e) /\ ~Hopeful(d)
  BY <1>1 DEF Unread
<1> QED BY <1>1, <1>2 DEF OutMove, Raw, SameCopy

(* The queued copies of an unread message stay unanswered.                  *)
LEMMA UnreadQueue ==
  ASSUME IngestInv, Stored, EvidenceInv, EvidenceMove, StoreStep,
         NEW c \in Contexts, NEW m \in Msgs \ Noise, <<c, m>> \notin looked',
         NEW k \in Keys, queue'[k] # NoEntry, Of(queue'[k], c, m)
  PROVE  Raw(queue'[k]) /\ ~Answered(k)'
<1>1. Unread(c, m) /\ <<c, m>> \notin looked
  BY DEF EvidenceInv, EvidenceMove
<1>2. ~Answered(k)'
  <2>1. CASE queue[k] # NoEntry /\ SameCopy(queue'[k], queue[k])
    <3>1. Of(queue[k], c, m)
      BY <2>1 DEF SameCopy, Of
    <3> QED BY <2>1, <3>1, StaysUnanswered
  <2>2. ASSUME NEW d \in Drains, Busy(d), drain[d].key = k, SameCopy(queue'[k], drain[d].e)
        PROVE  ~Answered(k)'
    <3>1. Of(drain[d].e, c, m)
      BY <2>2 DEF SameCopy, Of
    <3> QED BY <2>2, <3>1, StaysUnanswered
  <2>3. CASE qseq < k
    BY <2>3, StaysUnanswered
  <2> QED BY <2>1, <2>2, <2>3, StoreOrigins DEF Earlier
<1>3. Raw(queue'[k])
  <2>1. CASE queue'[k] = queue[k]
    BY <1>1, <2>1 DEF Unread
  <2>2. CASE ChunkStep
    <3>1. PICK All, X, D : Shifts(All, X, D) /\ Sources(All)
      BY <2>2 DEF ChunkStep
    <3>2. CASE queue'[k] = queue[k]
      BY <2>1, <3>2
    <3>3. ASSUME NEW x \in X, queue'[k] = EntryOf(x)
          PROVE  Raw(queue'[k])
      <4>1. NewInChunk(x) /\ Of(x, c, m)
        BY <3>1, <3>3 DEF Shifts, Sources, NewInChunk, Of, EntryOf
      <4>2. x.rescue = 0
        BY <1>1, <4>1, NewIsRaw
      <4> QED BY <3>3, <4>2 DEF EntryOf, Raw
    <3> QED BY <3>1, <3>2, <3>3 DEF Shifts
  <2>3. CASE EntryStep
    <3>1. PICK i \in Keys, f \in Entry :
            /\ queue' = [queue EXCEPT ![i] = f]
            /\ \/ queue[i] # NoEntry /\ SameCopy(f, queue[i]) /\ f.verdict = queue[i].verdict
               \/ \E d \in Drains : /\ Busy(d) /\ drain[d].key = i /\ SameCopy(f, drain[d].e)
                                    /\ \/ drain'[d].pc = "pick" /\ f.verdict = drain[d].e.verdict
                                       \/ Busy(d)' /\ drain'[d].e = f /\ drain'[d].key = i
      BY <2>3 DEF EntryStep
    <3>2. CASE i # k
      BY <2>1, <3>1, <3>2, StoredFacts
    <3>3. CASE i = k
      <4>1. queue'[k] = f
        BY <3>1, <3>3, StoredFacts
      <4>2. CASE queue[i] # NoEntry /\ SameCopy(f, queue[i]) /\ f.verdict = queue[i].verdict
        <5>1. Of(queue[i], c, m)
          BY <4>1, <4>2 DEF SameCopy, Of
        <5> QED BY <1>1, <4>1, <4>2, <5>1 DEF Unread, Raw, SameCopy
      <4>3. ASSUME NEW d \in Drains, Busy(d), SameCopy(f, drain[d].e),
                   \/ drain'[d].pc = "pick" /\ f.verdict = drain[d].e.verdict
                   \/ Busy(d)' /\ drain'[d].e = f /\ drain'[d].key = i
            PROVE  Raw(queue'[k])
        <5>1. Of(drain[d].e, c, m)
          BY <4>1, <4>3 DEF SameCopy, Of
        <5>2. CASE f.verdict = drain[d].e.verdict
          BY <1>1, <4>1, <4>3, <5>1, <5>2 DEF Unread, Raw, SameCopy
        <5>3. CASE Busy(d)' /\ drain'[d].e = f
          <6>1. Raw(f) \/ Picked(d)
            BY <1>1, <4>3, <5>1, <5>3, StaysRaw
          <6>2. Picked(d) => queue' = queue
            BY DEF Picked
          <6> QED BY <2>1, <4>1, <6>1, <6>2
        <5> QED BY <4>3, <5>2, <5>3
      <4> QED BY <3>1, <4>2, <4>3
    <3> QED BY <3>2, <3>3
  <2> QED BY <2>2, <2>3 DEF StoreStep
<1> QED BY <1>2, <1>3

(* And so do the copies the drains carry.                                   *)
LEMMA UnreadDrains ==
  ASSUME IngestInv, Stored, EvidenceInv, EvidenceMove,
         NEW c \in Contexts, NEW m \in Msgs \ Noise, <<c, m>> \notin looked',
         NEW d \in Drains, DrainMove(d), Busy(d)', Of(drain'[d].e, c, m)
  PROVE  Raw(drain'[d].e) /\ ~Answered(drain[d].key)' /\ ~Hopeful(d)'
<1>1. Unread(c, m) /\ <<c, m>> \notin looked /\ OutMove(d)
  BY DEF EvidenceInv, EvidenceMove
<1>2. CASE Picked(d)
  <2>1. PICK k \in Keys : queue[k] # NoEntry /\ drain'[d].key = k /\ drain'[d].e = queue[k]
    BY <1>2 DEF Picked
  <2>2. ~Answered(k)'
    BY <2>1, StaysUnanswered
  <2>3. ~Answered(drain[d].key)'
    BY <2>1, <2>2 DEF Answered
  <2>4. Raw(queue[k])
    BY <1>1, <2>1 DEF Unread
  <2> QED BY <1>2, <2>1, <2>3, <2>4 DEF Picked, Hopeful
<1>3. CASE ~Picked(d)
  <2>1. /\ Busy(d) /\ drain'[d].key = drain[d].key /\ SameCopy(drain'[d].e, drain[d].e)
        /\ drain[d].key \in Keys
    <3>1. drain'[d] = drain[d] \/ GoesOn(d)
      BY <1>3 DEF DrainMove, Busy
    <3>2. Busy(d)
      BY <3>1 DEF GoesOn, Busy
    <3> QED BY <3>1, <3>2, StoredFacts DEF GoesOn, SameCopy
  <2>2. Of(drain[d].e, c, m)
    BY <2>1 DEF SameCopy, Of
  <2>3. Raw(drain'[d].e)
    BY <1>1, <1>3, <2>1, <2>2, StaysRaw
  <2>4. ~Answered(drain[d].key)'
    <3>1. \A k \in Keys : k = drain[d].key => ~Answered(k)'
      BY <2>1, <2>2, StaysUnanswered
    <3> QED BY <2>1, <3>1 DEF Answered
  <2>5. ~Hopeful(d)'
    BY <1>1, <2>1, <2>2 DEF OutMove, Unread, LooksFor, Of
  <2> QED BY <2>3, <2>4, <2>5
<1> QED BY <1>2, <1>3

(* Every step keeps the evidence invariant.                                 *)
LEMMA EvidenceInvKept ==
  ASSUME IngestInv, Stored, EvidenceInv, EvidenceMove, StoreStep, IngestInv',
         \A d \in Drains : DrainMove(d)
  PROVE  EvidenceInv'
<1>1. ASSUME NEW k \in Keys, Answered(k)'
      PROVE  k <= qseq'
  <2>1. /\ qseq \in Nat /\ qseq' \in Nat /\ k \in Nat
        /\ \A d \in Drains : Busy(d) => drain[d].key \in Nat /\ drain[d].key <= qseq
    BY StoredFacts DEF IngestInv, ObjectInv, QueueOK, QueueType, Keys
  <2>2. k <= qseq
    BY <1>1, <2>1 DEF EvidenceMove, RunsMove, EvidenceInv
  <2> QED BY <2>1, <2>2, StoreGrows
<1>2. ASSUME NEW c \in Contexts, NEW m \in Msgs \ Noise, <<c, m>> \notin looked'
      PROVE  Unread(c, m)'
  <2>1. Unread(c, m) /\ <<c, m>> \notin looked
    BY <1>2 DEF EvidenceInv, EvidenceMove
  <2>2. ASSUME NEW x \in held', Of(x, c, m)
        PROVE  x.rescue = 0
    BY <2>1, <2>2, StoreOrigins, NewIsRaw
  <2>3. \A k \in Keys : queue'[k] # NoEntry /\ Of(queue'[k], c, m) => Raw(queue'[k]) /\ ~Answered(k)'
    BY <1>2, UnreadQueue
  <2>4. \A d \in Drains : Busy(d)' /\ Of(drain'[d].e, c, m) =>
          Raw(drain'[d].e) /\ ~Answered(drain[d].key)' /\ ~Hopeful(d)'
    BY <1>2, UnreadDrains
  <2>5. m \notin seen'[c] /\ m # checkpoint'[c]
    BY <2>1 DEF EvidenceMove, MarksMove, Unread, Raw
  <2> QED BY <2>2, <2>3, <2>4, <2>5 DEF Unread, Of
<1> QED BY <1>1, <1>2 DEF EvidenceInv

(* Nothing is answered at the start.                                        *)
LEMMA EvidenceInvInit == Init => EvidenceInv
<1> SUFFICES ASSUME Init PROVE EvidenceInv
  OBVIOUS
<1>1. /\ run = [k \in Keys |-> [a \in AttemptIds |-> "none"]] /\ held = {}
      /\ seen = [c \in Contexts |-> {}] /\ checkpoint = [c \in Contexts |-> NoMsg]
      /\ queue = [k \in Keys |-> NoEntry] /\ drain = [d \in Drains |-> DrainOff]
  BY DEF Init, UserMemoryInit
<1>2. \A k \in Keys : ~Answered(k)
  BY <1>1 DEF Answered
<1>3. NoMsg \notin Msgs
  BY DEF NoMsg
<1> QED BY <1>1, <1>2, <1>3 DEF EvidenceInv, Unread, Busy, DrainOff

---------------------------------------------------------------------------
(* The rows: what a step takes from one without moving its generation, and   *)
(* on whose word.                                                            *)
RowMove(j) ==
  job[j].status # "none" /\ job'[j].gen = job[j].gen =>
    \/ job'[j].remaining = job[j].remaining /\ (Terminal(job'[j]) => Terminal(job[j]))
    \/ \E d \in Drains :
         /\ drain[d].pc = "settle" /\ drain[d].e.job = j
         /\ \/ job'[j].status = "failed"
            \/ /\ drain[d].e.verdict # "failed"
               /\ job'[j].remaining = job[j].remaining \ {drain[d].e.msg}
    \/ LET h == <<j, job[j].gen>>
       IN  \/ HandoffAdd(h) /\ job'[j].remaining = job[j].remaining \ marker'[h].settled
           \/ HandoffSettle(h) /\ job'[j].remaining = job[j].remaining \ marker[h].settled
           \/ HandoffFinish(h) /\ ~marker[h].holds /\ ~Owns(held, queue, h[1], h[2])

(* What finalizing one message does to its row.                             *)
LEMMA DoneCases ==
  ASSUME NEW was \in JobRow, NEW g, NEW ms
  PROVE  \/ SettleDone(was, g, ms) = was
         \/ was.gen = g /\ SettleDone(was, g, ms).remaining = was.remaining \ ms
BY DEF SettleDone, Settleable, JobRow

(* A step that rewrites one row leaves the others.                          *)
LEMMA OtherRows ==
  ASSUME job \in [Jobs -> JobRow], NEW i \in Jobs, NEW row, job' = [job EXCEPT ![i] = row],
         RowMove(i)
  PROVE  \A j \in Jobs : RowMove(j)
BY DEF RowMove

(* A step that leaves the ledger alone moves no row.                        *)
LEMMA RowsStay ==
  ASSUME UNCHANGED job
  PROVE  \A j \in Jobs : RowMove(j)
BY DEF RowMove

(* The rows under a handoff.                                                *)
LEMMA HandoffRows ==
  ASSUME IngestInv, NEW h \in Handoffs, HandoffStep(h)
  PROVE  \A j \in Jobs : RowMove(j)
<1> DEFINE i == h[1]
<1>1. /\ job \in [Jobs -> JobRow] /\ i \in Jobs /\ h = <<h[1], h[2]>> /\ job[i] \in JobRow
  BY DEF IngestInv, ObjectInv, D1Type, Handoffs
<1>2. ASSUME NEW ms,
             (HandoffAdd(h) /\ ms = marker'[h].settled) \/ (HandoffSettle(h) /\ ms = marker[h].settled),
             NEW row, row = (IF ms = {} THEN job[i] ELSE SettleDone(job[i], h[2], ms)),
             job' = [job EXCEPT ![i] = row]
      PROVE  \A j \in Jobs : RowMove(j)
  <2>1. job'[i] = row
    BY <1>1, <1>2
  <2>2. CASE row = job[i]
    <3>1. RowMove(i)
      BY <2>1, <2>2 DEF RowMove
    <3> QED BY <1>1, <1>2, <3>1, OtherRows
  <2>3. CASE row # job[i]
    <3>1. job[i].gen = h[2] /\ row.remaining = job[i].remaining \ ms
      BY <1>1, <1>2, <2>3, DoneCases
    <3>2. RowMove(i)
      BY <1>1, <1>2, <2>1, <3>1 DEF RowMove
    <3> QED BY <1>1, <1>2, <3>2, OtherRows
  <2> QED BY <2>2, <2>3
<1>3. CASE HandoffAdd(h)
  <2> DEFINE ms == marker'[h].settled
             row == IF ms = {} THEN job[i] ELSE SettleDone(job[i], h[2], ms)
  <2>1. job' = [job EXCEPT ![i] = row] \/ UNCHANGED job
    BY <1>3 DEF HandoffAdd
  <2>2. HandoffAdd(h) /\ ms = marker'[h].settled
        /\ row = (IF ms = {} THEN job[i] ELSE SettleDone(job[i], h[2], ms))
    BY <1>3
  <2> HIDE DEF row, ms, i
  <2> QED BY <1>2, <2>1, <2>2, RowsStay
<1>4. CASE HandoffSettle(h)
  <2> DEFINE ms == marker[h].settled
             row == IF ms = {} THEN job[i] ELSE SettleDone(job[i], h[2], ms)
  <2>1. job' = [job EXCEPT ![i] = row]
    BY <1>4 DEF HandoffSettle
  <2>2. HandoffSettle(h) /\ ms = marker[h].settled
        /\ row = (IF ms = {} THEN job[i] ELSE SettleDone(job[i], h[2], ms))
    BY <1>4
  <2> HIDE DEF row, ms, i
  <2> QED BY <1>2, <2>1, <2>2
<1>5. CASE HandoffFinish(h)
  <2> DEFINE row == IF marker[h].holds THEN job[i] ELSE SettleDone(job[i], h[2], job[i].remaining)
  <2>1. UNCHANGED job \/ (~Owns(held, queue, i, h[2]) /\ job' = [job EXCEPT ![i] = row])
    BY <1>5 DEF HandoffFinish
  <2>2. ASSUME ~Owns(held, queue, i, h[2]), job' = [job EXCEPT ![i] = row]
        PROVE  \A j \in Jobs : RowMove(j)
    <3>1. job'[i] = row
      BY <1>1, <2>2
    <3>2. CASE row = job[i]
      <4>1. RowMove(i)
        BY <3>1, <3>2 DEF RowMove
      <4> QED BY <1>1, <2>2, <4>1, OtherRows
    <3>3. CASE row # job[i]
      <4>1. job[i].gen = h[2] /\ ~marker[h].holds
        BY <1>1, <3>3, DoneCases
      <4>2. RowMove(i)
        BY <1>1, <1>5, <2>2, <4>1 DEF RowMove
      <4> HIDE DEF row
      <4> QED BY <1>1, <2>2, <4>2, OtherRows
    <3> QED BY <3>2, <3>3
  <2> QED BY <2>1, <2>2, RowsStay
<1>6. CASE HandoffGeneration(h) \/ HandoffPrior(h)
  BY <1>6, RowsStay DEF HandoffGeneration, HandoffPrior, d1Vars
<1> QED BY <1>3, <1>4, <1>5, <1>6 DEF HandoffStep

(* The rows under a drain.                                                  *)
LEMMA DrainRows ==
  ASSUME IngestInv, NEW d \in Drains, DrainStep(d)
  PROVE  \A j \in Jobs : RowMove(j)
<1> DEFINE e == drain[d].e
           i == e.job
<1>1. job \in [Jobs -> JobRow] /\ (Busy(d) => i \in Jobs /\ job[i] \in JobRow)
  BY DEF IngestInv, ObjectInv, D1Type, DrainOK, DrainInv, Busy, Entry
<1>2. CASE DrainSettle(d)
  <2> DEFINE row == IF e.verdict = "failed" THEN SettleFailed(job[i], e.gen)
                    ELSE SettleDone(job[i], e.gen, {e.msg})
  <2>1. job' = [job EXCEPT ![i] = row] \/ UNCHANGED job
    BY <1>2 DEF DrainSettle
  <2>2. ASSUME job' = [job EXCEPT ![i] = row]
        PROVE  \A j \in Jobs : RowMove(j)
    <3>1. drain[d].pc = "settle" /\ i \in Jobs /\ job[i] \in JobRow
      BY <1>1, <1>2 DEF DrainSettle, Busy
    <3>2. job'[i] = row
      BY <1>1, <2>2, <3>1
    <3>3. \/ row = job[i]
          \/ row.status = "failed"
          \/ e.verdict # "failed" /\ row.remaining = job[i].remaining \ {e.msg}
      <4>1. SettleFailed(job[i], e.gen) = job[i] \/ SettleFailed(job[i], e.gen).status = "failed"
        BY <3>1 DEF SettleFailed, JobRow
      <4>2. \/ SettleDone(job[i], e.gen, {e.msg}) = job[i]
            \/ SettleDone(job[i], e.gen, {e.msg}).remaining = job[i].remaining \ {e.msg}
        BY <3>1 DEF SettleDone, Settleable, JobRow
      <4> HIDE DEF e
      <4> QED BY <4>1, <4>2
    <3> HIDE DEF row
    <3>4. RowMove(i)
      BY <3>1, <3>2, <3>3 DEF RowMove
    <3> QED BY <1>1, <2>2, <3>1, <3>4, OtherRows
  <2> QED BY <2>1, <2>2, RowsStay
<1>3. CASE DrainBookkeep(d)
  <2> DEFINE n == IF drain[d].out = "capacity" THEN e.attempts + e.cap ELSE e.attempts
             row == SettleAttempted(job[i], e.gen, n)
  <2>1. job' = [job EXCEPT ![i] = row] \/ UNCHANGED job
    BY <1>3 DEF DrainBookkeep
  <2>2. i \in Jobs /\ job[i] \in JobRow
    BY <1>1, <1>3 DEF DrainBookkeep, Busy
  <2>3. row.remaining = job[i].remaining /\ (Terminal(row) => Terminal(job[i]))
    BY <2>2 DEF SettleAttempted, Settleable, JobRow, Terminal, TERMINAL_JOB_STATES
  <2> HIDE DEF row
  <2>4. ASSUME job' = [job EXCEPT ![i] = row]
        PROVE  \A j \in Jobs : RowMove(j)
    <3>1. job'[i] = row
      BY <1>1, <2>2, <2>4
    <3>2. RowMove(i)
      BY <2>3, <3>1 DEF RowMove
    <3> QED BY <1>1, <2>2, <2>4, <3>2, OtherRows
  <2> QED BY <2>1, <2>4, RowsStay
<1>4. CASE ~DrainSettle(d) /\ ~DrainBookkeep(d)
  BY <1>4, RowsStay, EngineFrame DEF DrainStep, Engine, DrainPick, DrainDone, DrainRead,
     DrainCheck, DrainPut, DrainVerify, DrainFinalize, DrainRescue, DrainSuperseded, DrainFault,
     d1Vars
<1> QED BY <1>2, <1>3, <1>4

(* The rows under every step.                                               *)
LEMMA StepRows == IngestInv /\ [Next]_vars => \A j \in Jobs : RowMove(j)
<1> SUFFICES ASSUME IngestInv, [Next]_vars PROVE \A j \in Jobs : RowMove(j)
  OBVIOUS
<1>1. job \in [Jobs -> JobRow] /\ RequestInv
  BY DEF IngestInv, ObjectInv, D1Type
<1>2. ASSUME NEW r \in Requests, Reopen(r) \/ Claim(r) \/ Activate(r)
      PROVE  \A j \in Jobs : RowMove(j)
  <2> DEFINE i == ReqJob[r]
  <2>1. i \in Jobs /\ job[i] \in JobRow
    BY <1>1
  <2>2. \/ UNCHANGED job
        \/ job[i].status = "none" /\ job' = [job EXCEPT ![i] = ClaimedRow(i)]
        \/ job' = [job EXCEPT ![i] = [job[i] EXCEPT !.status = "queued"]]
        \/ job' = [job EXCEPT ![i] = Reopened(job[i], i)]
    BY <1>2 DEF Reopen, Claim, Activate
  <2>3. ASSUME NEW row, job' = [job EXCEPT ![i] = row],
               \/ job[i].status = "none"
               \/ row = [job[i] EXCEPT !.status = "queued"]
               \/ row.gen # job[i].gen
        PROVE  \A j \in Jobs : RowMove(j)
    <3>1. job'[i] = row
      BY <1>1, <2>1, <2>3
    <3>2. RowMove(i)
      BY <2>1, <2>3, <3>1 DEF RowMove, JobRow, Terminal, TERMINAL_JOB_STATES
    <3> QED BY <1>1, <2>1, <2>3, <3>2, OtherRows
  <2>4. Reopened(job[i], i).gen # job[i].gen
    BY <2>1 DEF Reopened, NextGeneration, JobRow, Generations
  <2> QED BY <2>2, <2>3, <2>4, RowsStay
<1>3. CASE ObjectStep
  <2>1. CASE UNCHANGED job
    BY <2>1, RowsStay
  <2>2. ASSUME NEW h \in Handoffs, HandoffFault(h)
        PROVE  UNCHANGED job
    BY <2>2 DEF HandoffFault, d1Vars
  <2>3. AlarmFires \/ LeaseExpires \/ IdlePasses \/ Kick \/ (\E k \in Keys : BackoffElapses(k))
        \/ (\E k \in Keys, a \in AttemptIds : RunAges(k, a)) => UNCHANGED job
    BY DEF AlarmFires, LeaseExpires, IdlePasses, Kick, BackoffElapses, RunAges, d1Vars
  <2> QED BY <1>3, <2>1, <2>2, <2>3, HandoffRows, DrainRows DEF ObjectStep
<1>4. ASSUME NEW r \in Requests, RequestStep(r) \/ RequestFails(r)
      PROVE  \A j \in Jobs : RowMove(j)
  <2>1. CASE Reopen(r) \/ Claim(r) \/ Activate(r)
    BY <1>2, <2>1
  <2>2. CASE ~(Reopen(r) \/ Claim(r) \/ Activate(r))
    BY <1>4, <2>2, RowsStay DEF RequestStep, RequestFails, Lookup, Conflict, CallHandoff,
       Inline, HandoffStart, DrainStart, umVars, d1Vars
  <2> QED BY <2>1, <2>2
<1>5. ASSUME Evict \/ UNCHANGED vars \/ \E h \in Handoffs : Deliver(h)
      PROVE  UNCHANGED job
  BY <1>5 DEF Evict, Crash, CrashInAdd, CutOff, Deliver, vars, umVars, d1Vars
<1> QED BY <1>3, <1>4, <1>5, RowsStay DEF Next, Done

---------------------------------------------------------------------------
(* The custody of a message, until the model is asked about it or one of the *)
(* jobs that carry it is repaired.                                           *)

(* No job that carries the message has been repaired. *)
Untouched(c, m) == \A j \in Jobs : Ctx[j] = c /\ m \in MsgsOf[j] => job[j].gen = 0

(* Somebody still has the message, or answered for it with a failure. *)
Anchored(c, m) ==
  \/ \E x \in held : Of(x, c, m)
  \/ \E k \in Keys : queue[k] # NoEntry /\ Of(queue[k], c, m)
  \/ \E j \in Jobs : Ctx[j] = c /\ m \in MsgsOf[j] /\ job[j].status = "failed"

(* The job's own copies of a message. *)
CopyOf(x, j, m) == x.job = j /\ x.msg = m

NoCopy(j, m) ==
  /\ \A x \in held : ~CopyOf(x, j, m)
  /\ \A k \in Keys : queue[k] # NoEntry => ~CopyOf(queue[k], j, m)
  /\ \A d \in Drains : Busy(d) => ~CopyOf(drain[d].e, j, m)

(* What the object has of a job is of its packet. *)
ContentInv == \A j \in Jobs : \A m \in Msgs \ MsgsOf[j] : NoCopy(j, m)

(* A row with a verdict owes nothing more. *)
OverInv == \A j \in Jobs : Terminal(job[j]) => job[j].remaining = {}

(* Nobody else decides about a packet that its first handoff is adding. *)
AddInv == \A j \in Jobs : job[j].gen = 0 /\ call[<<j, 0>>] = "add" => Active(job[j])

(* A copy comes into the object only as one handoff of its job adds it. *)
AddsCopy(j, m) ==
  \E h \in Handoffs : /\ h[1] = j /\ call[h] = "add" /\ marker[h].state = "pending"
                      /\ marker'[h].state = "applied" /\ m \in MsgsOf[j] \ marker'[h].settled

(* A job with no copy of a message gets none but from its handoff.          *)
LEMMA NoCopyStays ==
  ASSUME Stored, StoreStep, \A d \in Drains : DrainMove(d), NEW j \in Jobs, NEW m, NoCopy(j, m)
  PROVE  NoCopy(j, m)' \/ AddsCopy(j, m)
<1> SUFFICES ASSUME ~AddsCopy(j, m) PROVE NoCopy(j, m)'
  OBVIOUS
<1>1. ASSUME NEW x, NewInChunk(x), CopyOf(x, j, m)
      PROVE  FALSE
  <2>1. x \notin held
    BY <1>1 DEF NoCopy
  <2>2. ASSUME NEW h \in Handoffs, call[h] = "add", marker[h].state = "pending", Brought(h, x),
               marker'[h].state = "applied"
        PROVE  FALSE
    <3>1. h[1] = j
      BY <1>1, <2>2 DEF Brought, Handed, CopyOf
    <3>2. ~\E y \in held : y.job = h[1] /\ y.msg = x.msg
      BY <1>1, <3>1 DEF NoCopy, CopyOf
    <3> QED BY <1>1, <2>2, <3>1, <3>2 DEF Brought, AddsCopy, CopyOf
  <2>3. ASSUME NEW d \in Drains, drain[d].pc = "finalize", x = Rescued(drain[d].e)
        PROVE  FALSE
    BY <1>1, <2>3 DEF NoCopy, CopyOf, Rescued, Busy
  <2> QED BY <1>1, <2>1, <2>2, <2>3 DEF NewInChunk
<1>2. \A x \in held' : ~CopyOf(x, j, m)
  BY <1>1, StoreOrigins
<1>3. \A k \in Keys : queue'[k] # NoEntry => ~CopyOf(queue'[k], j, m)
  BY <1>1, StoreOrigins DEF Earlier, NoCopy, SameCopy, CopyOf
<1>4. ASSUME NEW d \in Drains, Busy(d)'
      PROVE  ~CopyOf(drain'[d].e, j, m)
  <2>1. CASE drain'[d] = drain[d]
    BY <1>4, <2>1 DEF NoCopy, Busy
  <2>2. CASE Picked(d)
    BY <2>2 DEF Picked, NoCopy
  <2>3. CASE GoesOn(d)
    BY <2>3 DEF GoesOn, NoCopy, SameCopy, CopyOf
  <2> QED BY <1>4, <2>1, <2>2, <2>3 DEF DrainMove, Busy
<1> QED BY <1>2, <1>3, <1>4 DEF NoCopy, CopyOf

(* Every step keeps the content of the copies.                              *)
LEMMA ContentInvKept ==
  ASSUME Stored, StoreStep, \A d \in Drains : DrainMove(d), ContentInv
  PROVE  ContentInv'
BY NoCopyStays DEF ContentInv, AddsCopy

(* What a step does to a job's verdict leaves nothing owed. *)
LEMMA RowStepOver ==
  ASSUME NEW j \in Jobs, NEW was \in JobRow, NEW is, RowStep(j, was, is),
         Terminal(was) => was.remaining = {}
  PROVE  Terminal(is) => is.remaining = {}
<1>1. CASE was.status = "none" /\ is = ClaimedRow(j)
  BY <1>1 DEF ClaimedRow, Terminal, TERMINAL_JOB_STATES
<1>2. CASE was.status = "awaiting_source" /\ is = [was EXCEPT !.status = "queued"]
  BY <1>2 DEF JobRow, Terminal, TERMINAL_JOB_STATES
<1>3. ASSUME NEW g \in Generations, NEW ms \in SUBSET Msgs, is = SettleDone(was, g, ms)
      PROVE  Terminal(is) => is.remaining = {}
  BY <1>3 DEF JobRow, SettleDone, Settleable, Terminal, TERMINAL_JOB_STATES
<1>4. ASSUME NEW g \in Generations, is = SettleFailed(was, g)
      PROVE  Terminal(is) => is.remaining = {}
  BY <1>4 DEF JobRow, SettleFailed, Settleable, Terminal, TERMINAL_JOB_STATES
<1>5. ASSUME NEW g \in Generations, NEW n \in Nat, is = SettleAttempted(was, g, n)
      PROVE  Terminal(is) => is.remaining = {}
  BY <1>5 DEF JobRow, SettleAttempted, Settleable, Terminal, TERMINAL_JOB_STATES
<1>6. CASE is = Reopened(was, j)
  BY <1>6 DEF Reopened, Terminal, TERMINAL_JOB_STATES
<1> QED BY <1>1, <1>2, <1>3, <1>4, <1>5, <1>6 DEF RowStep

(* A row that is over owes nothing, and stays so.                           *)
LEMMA OverInvKept == IngestInv /\ OverInv /\ [Next]_vars => OverInv'
<1> SUFFICES ASSUME IngestInv, OverInv, [Next]_vars PROVE OverInv'
  OBVIOUS
<1>1. job \in [Jobs -> JobRow]
  BY DEF IngestInv, ObjectInv, D1Type
<1>2. CASE UNCHANGED job
  BY <1>2 DEF OverInv
<1>3. CASE RowWritten
  <2>1. PICK j \in Jobs : \E row : job' = [job EXCEPT ![j] = row] /\ RowStep(j, job[j], row)
    BY <1>3 DEF RowWritten
  <2>2. PICK row : job' = [job EXCEPT ![j] = row] /\ RowStep(j, job[j], row)
    BY <2>1
  <2>3. Terminal(row) => row.remaining = {}
    BY <1>1, <2>2, RowStepOver DEF OverInv
  <2> QED BY <1>1, <2>2, <2>3 DEF OverInv
<1> QED BY <1>2, <1>3, StepWritesRow

(* A new row owes its whole packet. *)
LEMMA NewRowOwes ==
  ASSUME IngestInv, [Next]_vars, NEW j \in Jobs, job[j].status = "none", job'[j].status # "none"
  PROVE  job'[j].remaining = MsgsOf[j]
<1>1. job \in [Jobs -> JobRow]
  BY DEF IngestInv, ObjectInv, D1Type
<1>2. PICK i \in Jobs : \E row : job' = [job EXCEPT ![i] = row] /\ RowStep(i, job[i], row)
  BY StepWritesRow DEF RowWritten
<1>3. PICK row : job' = [job EXCEPT ![i] = row] /\ RowStep(i, job[i], row)
  BY <1>2
<1>4. i = j /\ job'[j] = row /\ row.status # "none"
  BY <1>1, <1>3
<1>5. row = ClaimedRow(j)
  BY <1>1, <1>3, <1>4 DEF RowStep, SettleDone, SettleFailed, SettleAttempted, Settleable, Active,
     ActiveStates
<1> QED BY <1>4, <1>5 DEF ClaimedRow

(* Every step keeps what an adding handoff owes.                            *)
LEMMA AddInvKept ==
  ASSUME AcceptInv, AddInv, IngestInv', RowsKeep, \A j \in Jobs : RowMove(j), \A h \in Handoffs : HandoffMove(h)
  PROVE  AddInv'
<1> SUFFICES ASSUME NEW j \in Jobs, job'[j].gen = 0, call'[<<j, 0>>] = "add"
             PROVE  Active(job'[j])
  BY DEF AddInv
<1> DEFINE h == <<j, 0>>
<1>1. h \in Handoffs /\ h[1] = j /\ h[2] = 0
  BY DEF Handoffs, Generations
<1>2. call \in [Handoffs -> CallStates] /\ job \in [Jobs -> JobRow] /\ job[j].gen \in Nat
  BY DEF AcceptInv, SharedInv, IngestInv, ObjectInv, ControlType, D1Type, JobRow, Generations
<1>3. job[j].gen = 0 /\ job'[j].gen = job[j].gen
  BY <1>2 DEF RowsKeep
<1> HIDE DEF h
<1>4. CASE call[h] = "add"
  <2>1. First(j) /\ job[j].status # "none"
    BY <1>3, <1>4 DEF AddInv, First, h, Active, ActiveStates
  <2>2. NothingOf(j)
    BY <1>4, <2>1 DEF AcceptInv, FirstInv, FirstHandoff, h
  <2>3. ~(HandoffAdd(h) \/ HandoffSettle(h) \/ HandoffFinish(h))
    BY <1>1, <1>2, <1>4 DEF HandoffAdd, HandoffSettle, HandoffFinish, Become, h
  <2>4. ~\E d \in Drains : drain[d].pc = "settle" /\ drain[d].e.job = j
    BY <2>2 DEF NothingOf, Busy
  <2>5. Terminal(job'[j]) => Terminal(job[j])
    BY <1>3, <2>1, <2>3, <2>4 DEF RowMove, h
  <2>6. job'[j].status # "none"
    BY <2>1 DEF RowsKeep
  <2>7. job'[j] \in JobRow
    BY DEF IngestInv, ObjectInv, D1Type
  <2> QED BY <2>1, <2>5, <2>6, <2>7 DEF First, Active, ActiveStates, Terminal, TERMINAL_JOB_STATES, JobRow
<1>5. CASE call[h] # "add"
  <2>1. HandoffPrior(h)
    <3>1. call'[h] = "add"
      BY DEF h
    <3>2. ~(MarkerStays(h) /\ CallStays(h)) /\ ~CrashInAdd(h)
      BY <1>1, <1>5, <3>1 DEF CallStays, CrashInAdd, CutOff
    <3>3. ~HandoffStart(h) /\ ~HandoffAdd(h) /\ ~HandoffSettle(h) /\ ~HandoffFinish(h)
      BY <1>1, <1>2, <3>1 DEF HandoffStart, HandoffAdd, HandoffSettle, HandoffFinish, Become
    <3>4. ~HandoffGeneration(h)
      <4>1. HandoffGeneration(h) => Become(h, "err") \/ Become(h, "prior") \/ Become(h, "settle")
        BY DEF HandoffGeneration
      <4> QED BY <1>1, <1>2, <3>1, <4>1 DEF Become
    <3> QED BY <1>1, <3>2, <3>3, <3>4 DEF HandoffMove, HandoffStep
  <2>2. call[h] = "prior" /\ UNCHANGED job
    BY <2>1 DEF HandoffPrior, d1Vars
  <2>3. ~Terminal(job[j])
    <3>1. Terminal(job[j]) => Become(h, "settle")
      BY <1>1, <2>1 DEF HandoffPrior
    <3> QED BY <1>1, <1>2, <3>1 DEF Become, h
  <2>4. job[j].status # "none"
    BY <1>1, <2>2 DEF AcceptInv, UnclaimedInv, h, Generations
  <2> QED BY <1>2, <2>2, <2>3, <2>4 DEF Active, ActiveStates, Terminal, TERMINAL_JOB_STATES, JobRow
<1> QED BY <1>4, <1>5

(* What a handoff settles at the door, it has found elsewhere. *)
LEMMA AddSettles ==
  ASSUME Stored, NEW h \in Handoffs, AddCommit(h), marker[h].state = "pending"
  PROVE  /\ \A m \in marker'[h].settled \ Noise :
              \/ m \in seen[Ctx[h[1]]] \/ m = checkpoint[Ctx[h[1]]]
              \/ \E x \in held : Of(x, Ctx[h[1]], m)
         /\ ~marker'[h].holds => \A m \in MsgsOf[h[1]] \ Noise :
              m \in marker'[h].settled \/ \E x \in held : CopyOf(x, h[1], m)
<1> DEFINE j == h[1]
           c == Ctx[j]
           switch == OtherContext(held, c)
           chunk == IF switch THEN {} ELSE held
           dups == Duplicates(j, h[2], chunk)
           noise == (MsgsOf[j] \ dups) \intersect Noise
           fresh == (MsgsOf[j] \ dups) \ Noise
           settled == noise \union {m \in dups : ~HeldBySelf(j, m, chunk)}
<1>1. marker' = [marker EXCEPT ![h] = Applied(fresh # {}, settled)]
  BY Zenon DEF AddCommit
<1>2. marker \in [Handoffs -> Marker]
  BY DEF Stored, ObjectInv, ControlType
<1>3. \A x \in chunk : x \in held /\ Ctx[x.job] = c
  BY DEF OtherContext
<1>4. \A m \in dups : m \in seen[c] \/ m = checkpoint[c] \/ \E x \in chunk : x.msg = m
  BY DEF Duplicates
<1>5. \A m \in dups : HeldBySelf(j, m, chunk) => \E x \in chunk : CopyOf(x, j, m)
  BY DEF HeldBySelf, CopyOf
<1>6. dups \subseteq MsgsOf[j]
  BY DEF Duplicates
<1> HIDE DEF dups, chunk
<1>7. marker'[h].settled = settled /\ marker'[h].holds = (fresh # {})
  BY <1>1, <1>2 DEF Applied
<1> QED BY <1>3, <1>4, <1>5, <1>6, <1>7 DEF Of

(* A message that is anchored stays so while it is untouched and unread. *)
LEMMA FailedStays ==
  ASSUME IngestInv, RowsKeep, NEW c, NEW m, Untouched(c, m)', NEW j \in Jobs, Ctx[j] = c, m \in MsgsOf[j],
         Terminal(job[j])
  PROVE  job'[j] = job[j]
<1>1. job[j].gen \in Nat
  BY DEF IngestInv, ObjectInv, D1Type, JobRow, Generations
<1> QED BY <1>1 DEF RowsKeep, Untouched

Custody(j, m) ==
  /\ job[j].status # "none" => m \in job[j].remaining \/ Anchored(Ctx[j], m)
  /\ NoCopy(j, m) \/ m \in job[j].remaining \/ job[j].status = "failed"
  /\ First(j) /\ marker[<<j, 0>>].state \in {"none", "pending"} => m \in job[j].remaining
  /\ First(j) /\ marker[<<j, 0>>].state = "applied"
       /\ (~marker[<<j, 0>>].holds \/ m \in marker[<<j, 0>>].settled)
       => NoCopy(j, m) /\ Anchored(Ctx[j], m)

CustodyInv ==
  \A j \in Jobs : \A m \in MsgsOf[j] \ Noise :
    Untouched(Ctx[j], m) /\ <<Ctx[j], m>> \notin looked => Custody(j, m)

HandledInv == AcceptInv /\ EvidenceInv /\ ContentInv /\ OverInv /\ AddInv /\ CustodyInv

(* Who anchors a message goes on doing so, or hands it over.                *)
LEMMA AnchoredStays ==
  ASSUME HandledInv, StoreStep, RowsKeep, NEW c \in Contexts, NEW m \in Msgs \ Noise,
         Untouched(c, m), Untouched(c, m)', <<c, m>> \notin looked, Anchored(c, m)
  PROVE  Anchored(c, m)'
<1>1. SharedInv /\ IngestInv /\ Stored /\ UnclaimedInv
  BY DEF HandledInv, AcceptInv, SharedInv, Stored, IngestInv
<1>2. ASSUME NEW j \in Jobs, Ctx[j] = c, m \in MsgsOf[j], job[j].status = "failed"
      PROVE  Anchored(c, m)'
  <2>1. job'[j] = job[j]
    BY <1>1, <1>2, FailedStays DEF Terminal, TERMINAL_JOB_STATES
  <2> QED BY <1>2, <2>1 DEF Anchored
<1>3. ASSUME NEW x, x.job \in Jobs, Of(x, c, m), x.gen \in Nat, x.gen <= job[x.job].gen,
             x \in held \/ \E k \in Keys : queue[k] # NoEntry /\ x = queue[k]
      PROVE  Anchored(c, m)'
  <2> DEFINE j == x.job
  <2>1. ~NoCopy(j, m)
    BY <1>3 DEF NoCopy, CopyOf, Of
  <2>2. m \in MsgsOf[j]
    BY <1>3, <2>1 DEF HandledInv, ContentInv
  <2>3. job[j].gen = 0 /\ Custody(j, m)
    BY <1>3, <2>2 DEF Untouched, HandledInv, CustodyInv, Of
  <2>4. x.gen = 0
    BY <1>3, <2>3
  <2>5. CASE job[j].status = "failed"
    BY <1>2, <1>3, <2>2, <2>5 DEF Of
  <2>6. CASE job[j].status = "enriched"
    BY <1>3, <2>1, <2>3, <2>6 DEF HandledInv, OverInv, Terminal, TERMINAL_JOB_STATES, Custody
  <2>7. CASE job[j].status = "none"
    BY <1>1, <1>3, <2>7 DEF UnclaimedInv, NothingOf
  <2>8. CASE Active(job[j])
    <3>1. First(j) /\ InObject(j, m, 0)
      BY <1>3, <2>3, <2>4, <2>8 DEF First, InObject, Of
    <3>2. InObject(j, m, 0)'
      BY <1>1, <1>3, <3>1, FirstStaysInObject
    <3> QED BY <1>3, <3>2 DEF InObject, Anchored, Of
  <2> QED BY <1>1, <1>3, <2>5, <2>6, <2>7, <2>8 DEF IngestInv, ObjectInv, D1Type, JobRow, Active,
       TERMINAL_JOB_STATES
<1>4. ASSUME NEW x \in held, Of(x, c, m)
      PROVE  Anchored(c, m)'
  BY <1>1, <1>3, <1>4, StoredFacts DEF Held, Generations, SharedInv, GensInv
<1>5. ASSUME NEW k \in Keys, queue[k] # NoEntry, Of(queue[k], c, m)
      PROVE  Anchored(c, m)'
  <2>1. queue[k] \in Entry
    BY <1>1, <1>5, StoredFacts
  <2> QED BY <1>1, <1>3, <1>5, <2>1 DEF Entry, Generations, SharedInv, GensInv
<1> QED BY <1>2, <1>4, <1>5 DEF Anchored

---------------------------------------------------------------------------
(* What is untouched after a step was so before it.                         *)
LEMMA UntouchedStays ==
  ASSUME IngestInv, IngestInv', RowsKeep, NEW c, NEW m, Untouched(c, m)'
  PROVE  Untouched(c, m)
BY DEF Untouched, RowsKeep, IngestInv, ObjectInv, D1Type, JobRow, Generations

(* Without a repair only the first handoff adds. *)
LEMMA FirstAddsCopy ==
  ASSUME SharedInv, NEW j \in Jobs, NEW m, job[j].gen = 0, AddsCopy(j, m)
  PROVE  /\ call[<<j, 0>>] = "add" /\ marker[<<j, 0>>].state = "pending"
         /\ m \in MsgsOf[j] \ marker'[<<j, 0>>].settled
<1>1. PICK h \in Handoffs : /\ h[1] = j /\ call[h] = "add" /\ marker[h].state = "pending"
                            /\ m \in MsgsOf[j] \ marker'[h].settled
  BY DEF AddsCopy
<1>2. h[2] <= 0 /\ h[2] \in Nat /\ h = <<h[1], h[2]>>
  BY <1>1 DEF SharedInv, GensInv, Handoffs, Generations
<1>3. h = <<j, 0>>
  BY <1>1, <1>2
<1> QED BY <1>1, <1>3

(* How the marker of the first handoff moves while the row is active. *)
LEMMA FirstMarker ==
  ASSUME SharedInv, NEW j \in Jobs, FirstStays(j), NEW h \in Handoffs, h[1] = j, h[2] = 0,
         HandoffMove(h)
  PROVE  \/ marker'[h] = marker[h]
         \/ marker'[h].state = "pending" /\ marker[h].state \in {"none", "pending"}
         \/ marker'[h].state = "accepted"
         \/ marker'[h] = Applied(TRUE, {})
         \/ AddCommit(h) /\ marker[h].state = "pending"
<1>1. h = <<j, 0>>
  BY DEF Handoffs
<1>2. marker \in [Handoffs -> Marker] /\ job \in [Jobs -> JobRow]
  BY DEF SharedInv, IngestInv, ObjectInv, ControlType, D1Type
<1>3. ~Terminal(job[j]) /\ ~Terminal(job'[j])
  BY DEF FirstStays, First, Active, ActiveStates, Terminal, TERMINAL_JOB_STATES
<1>0. \A v : marker' = [marker EXCEPT ![h] = v] => marker'[h] = v
  BY <1>2, Zenon
<1>4. CASE MarkerStays(h)
  BY <1>1, <1>4 DEF FirstStays
<1>5. CASE HandoffStart(h)
  <2>1. UNCHANGED marker \/ (marker[h].state \notin {"accepted", "applied"} /\ marker' = [marker EXCEPT ![h] = Pending])
    BY <1>5 DEF HandoffStart
  <2>2. marker[h].state \in {"none", "pending", "applied", "accepted"}
    BY <1>2 DEF Marker
  <2>3. CASE UNCHANGED marker
    BY <2>3
  <2>4. CASE marker[h].state \notin {"accepted", "applied"} /\ marker' = [marker EXCEPT ![h] = Pending]
    <3>1. marker'[h] = Pending
      BY <1>0, <2>4
    <3>2. marker'[h].state = "pending" /\ marker[h].state \in {"none", "pending"}
      BY <2>2, <2>4, <3>1 DEF Pending
    <3> QED BY <3>2
  <2> QED BY <2>1, <2>3, <2>4
<1>6. CASE HandoffGeneration(h)
  <2>1. UNCHANGED marker \/ marker' = [marker EXCEPT ![h] = Applied(TRUE, {})]
    BY <1>6 DEF HandoffGeneration
  <2> QED BY <1>2, <2>1
<1>7. CASE HandoffPrior(h)
  BY <1>3, <1>7 DEF HandoffPrior
<1>8. CASE HandoffSettle(h)
  BY <1>8 DEF HandoffSettle
<1>9. CASE HandoffFinish(h)
  <2>1. \/ UNCHANGED marker
        \/ marker' = [marker EXCEPT ![h] = Accepted]
        \/ \E row : job' = [job EXCEPT ![j] = row] /\ Terminal(row)
    BY <1>9 DEF HandoffFinish
  <2>2. CASE UNCHANGED marker
    BY <2>2
  <2>3. CASE marker' = [marker EXCEPT ![h] = Accepted]
    <3>1. marker'[h] = Accepted
      BY <1>0, <2>3
    <3> QED BY <3>1 DEF Accepted
  <2>4. ~\E row : job' = [job EXCEPT ![j] = row] /\ Terminal(row)
    <3> SUFFICES ASSUME NEW row, job' = [job EXCEPT ![j] = row], Terminal(row)
                 PROVE  FALSE
      OBVIOUS
    <3>1. job'[j] = row
      BY <1>2, Zenon
    <3> QED BY <1>3, <3>1, Zenon
  <2> QED BY <2>1, <2>2, <2>3, <2>4
<1>10. CASE AddCommit(h)
  <2>1. marker[h].state # "pending" => UNCHANGED marker
    BY <1>10 DEF AddCommit
  <2> QED BY <1>10, <2>1
<1> QED BY <1>4, <1>5, <1>6, <1>7, <1>8, <1>9, <1>10 DEF HandoffMove, HandoffStep, HandoffAdd, CrashInAdd

(* A message that leaves a row is failed with it, or is somebody else's.     *)
LEMMA RowLoses ==
  ASSUME HandledInv, NEW j \in Jobs, RowMove(j), job'[j].gen = job[j].gen,
         NEW m \in MsgsOf[j] \ Noise, Untouched(Ctx[j], m), <<Ctx[j], m>> \notin looked,
         job[j].status # "none", m \in job[j].remaining, m \notin job'[j].remaining
  PROVE  \/ job'[j].status = "failed"
         \/ /\ Anchored(Ctx[j], m) /\ NoCopy(j, m) /\ ~AddsCopy(j, m)
            /\ marker[<<j, 0>>].state = "applied" \/ marker'[<<j, 0>>].state = "applied"
<1> SUFFICES ASSUME job'[j].status # "failed"
             PROVE  /\ Anchored(Ctx[j], m) /\ NoCopy(j, m) /\ ~AddsCopy(j, m)
                    /\ marker[<<j, 0>>].state = "applied" \/ marker'[<<j, 0>>].state = "applied"
  OBVIOUS
<1> DEFINE c == Ctx[j]
           h == <<j, 0>>
<1>1. SharedInv /\ IngestInv /\ Stored /\ job[j].gen = 0 /\ Custody(j, m) /\ c \in Contexts /\ m \in Msgs
      /\ job[j] \in JobRow
  BY DEF HandledInv, AcceptInv, SharedInv, Stored, IngestInv, Untouched, CustodyInv, ObjectInv, D1Type
<1>2. First(j) /\ FirstHandoff(j)
  <2>1. ~Terminal(job[j])
    BY DEF HandledInv, OverInv
  <2>2. First(j)
    BY <1>1, <2>1 DEF First, Active, ActiveStates, Terminal, TERMINAL_JOB_STATES, JobRow
  <2> QED BY <2>2 DEF HandledInv, AcceptInv, FirstInv
<1>3. Unread(c, m)
  BY <1>1 DEF HandledInv, EvidenceInv
<1>4. h \in Handoffs /\ h[1] = j /\ h[2] = 0 /\ h = <<j, job[j].gen>>
  BY <1>1 DEF Handoffs, Generations
<1>5. AddsCopy(j, m) => call[h] = "add" /\ m \notin marker'[h].settled
  BY <1>1, FirstAddsCopy
<1> HIDE DEF h
<1>6. CASE \E d \in Drains :
             /\ drain[d].pc = "settle" /\ drain[d].e.job = j
             /\ drain[d].e.verdict # "failed" /\ job'[j].remaining = job[j].remaining \ {drain[d].e.msg}
  <2>1. PICK d \in Drains :
             /\ drain[d].pc = "settle" /\ drain[d].e.job = j
             /\ drain[d].e.verdict # "failed" /\ job'[j].remaining = job[j].remaining \ {drain[d].e.msg}
    BY <1>6
  <2>2. Busy(d) /\ Of(drain[d].e, c, m)
    BY <2>1 DEF Busy, Of
  <2>3. drain[d].e.verdict # "none"
    BY <1>1, <2>1 DEF IngestInv, ObjectInv, DrainOK, DrainInv, Agrees, EnginePcs
  <2> QED BY <1>3, <2>1, <2>2, <2>3 DEF Unread, Raw
<1>7. CASE HandoffAdd(h) /\ job'[j].remaining = job[j].remaining \ marker'[h].settled
  <2>1. marker[h].state = "pending" /\ AddCommit(h)
    BY <1>7 DEF HandoffAdd
  <2>2. NothingOf(j)
    BY <1>2, <2>1 DEF FirstHandoff, h
  <2>3. NoCopy(j, m)
    BY <2>2 DEF NothingOf, NoCopy, CopyOf
  <2>4. m \in marker'[h].settled
    BY <1>7
  <2>5. Anchored(c, m)
    <3>1. m \in seen[c] \/ m = checkpoint[c] \/ \E x \in held : Of(x, c, m)
      BY <1>1, <1>4, <2>1, <2>4, AddSettles
    <3> QED BY <1>3, <3>1 DEF Unread, Anchored
  <2>6. marker'[h].state = "applied"
    <3>1. PICK All, X : Joins(h, All)
      BY <1>1, <1>4, <2>1, AddShifts
    <3>2. PICK holds, settled : marker' = [marker EXCEPT ![h] = Applied(holds, settled)]
      BY <2>1, <3>1 DEF Joins
    <3>3. marker \in [Handoffs -> Marker] /\ h \in Handoffs
      BY <1>1, <1>4 DEF Stored, ObjectInv, ControlType
    <3> QED BY <3>2, <3>3 DEF Applied
  <2> QED BY <1>5, <2>3, <2>4, <2>5, <2>6 DEF h
<1>8. CASE \/ HandoffSettle(h) /\ job'[j].remaining = job[j].remaining \ marker[h].settled
           \/ HandoffFinish(h) /\ ~marker[h].holds
  <2>1. call[h] \in {"settle", "own"}
    BY <1>8 DEF HandoffSettle, HandoffFinish
  <2>2. marker[h].state = "applied"
    BY <1>2, <2>1 DEF FirstHandoff, h
  <2>3. ~marker[h].holds \/ m \in marker[h].settled
    BY <1>8
  <2>4. NoCopy(j, m) /\ Anchored(c, m)
    BY <1>1, <1>2, <2>2, <2>3 DEF Custody, h
  <2> QED BY <1>5, <2>1, <2>2, <2>4 DEF h
<1> QED BY <1>4, <1>6, <1>7, <1>8 DEF RowMove

(* Every step keeps the custody of a message.                               *)
LEMMA CustodyKept ==
  ASSUME HandledInv, [Next]_vars, NEW j \in Jobs, NEW m \in MsgsOf[j] \ Noise,
         Untouched(Ctx[j], m)', <<Ctx[j], m>> \notin looked'
  PROVE  Custody(j, m)'
<1> DEFINE c == Ctx[j]
           h == <<j, 0>>
<1>1. /\ SharedInv /\ SharedInv' /\ IngestInv /\ IngestInv' /\ Stored /\ UnclaimedInv
      /\ c \in Contexts /\ m \in Msgs
  BY SharedInvKept DEF HandledInv, AcceptInv, SharedInv, Stored, IngestInv
<1>2. /\ StoreStep /\ RowsKeep /\ RowsFirstKeep /\ EvidenceMove
      /\ \A d \in Drains : DrainMove(d)
      /\ \A i \in Handoffs : HandoffMove(i)
      /\ \A r \in Requests : ReqMove(r)
      /\ \A i \in Jobs : RowMove(i)
  BY <1>1, StepStore, RowsInvKept, RowsFirst, StepDrains, StepHandoffs, StepRequests, StepRows,
     StepEvidence DEF SharedInv
<1>3. /\ Untouched(c, m) /\ <<c, m>> \notin looked /\ Custody(j, m)
      /\ job[j].gen = 0 /\ job'[j].gen = job[j].gen
  <2>1. Untouched(c, m) /\ <<c, m>> \notin looked
    BY <1>1, <1>2, UntouchedStays DEF EvidenceMove
  <2> QED BY <2>1 DEF HandledInv, CustodyInv, Untouched
<1>4. h \in Handoffs /\ h[1] = j /\ h[2] = 0
  BY DEF Handoffs, Generations
<1>5. Anchored(c, m) => Anchored(c, m)'
  BY <1>1, <1>2, <1>3, AnchoredStays
<1>6. NoCopy(j, m) => NoCopy(j, m)' \/ AddsCopy(j, m)
  BY <1>1, <1>2, NoCopyStays
<1>7. AddsCopy(j, m) => /\ call[h] = "add" /\ marker[h].state = "pending"
                        /\ m \notin marker'[h].settled
  BY <1>1, <1>3, FirstAddsCopy
<1>8. job'[j].status = "failed" => Anchored(c, m)'
  BY DEF Anchored
<1>9. job[j].status = "none" /\ job'[j].status # "none" => m \in job'[j].remaining
  BY <1>1, NewRowOwes
<1>10. job[j].status # "none" /\ m \in job[j].remaining /\ m \notin job'[j].remaining =>
         \/ job'[j].status = "failed"
         \/ /\ Anchored(c, m) /\ NoCopy(j, m) /\ ~AddsCopy(j, m)
            /\ marker[h].state = "applied" \/ marker'[h].state = "applied"
  BY <1>2, <1>3, RowLoses
<1>11. First(j)' /\ job[j].status # "none" => FirstStays(j) /\ FirstHandoff(j)
  BY <1>1, <1>2, FirstStaysSo DEF HandledInv, AcceptInv, FirstInv, FirstStays
<1>12. NoCopy(j, m)' = (NoCopy(j, m)')
  OBVIOUS
<1> HIDE DEF h
<1>13. ASSUME job'[j].status # "none"
       PROVE  m \in job'[j].remaining \/ Anchored(c, m)'
  BY <1>3, <1>5, <1>8, <1>9, <1>10, <1>13 DEF Custody
<1>14. NoCopy(j, m)' \/ m \in job'[j].remaining \/ job'[j].status = "failed"
  <2>1. CASE job[j].status = "none"
    <3>1. NothingOf(j) /\ call[h] = "off"
      BY <1>1, <2>1 DEF UnclaimedInv, h, Generations
    <3>2. NoCopy(j, m)
      BY <3>1 DEF NothingOf, NoCopy, CopyOf
    <3> QED BY <1>6, <1>7, <3>1, <3>2
  <2>2. CASE job[j].status = "failed"
    <3>1. job'[j] = job[j]
      BY <1>1, <1>2, <2>2, FailedStays DEF Terminal, TERMINAL_JOB_STATES
    <3> QED BY <2>2, <3>1
  <2>3. CASE job[j].status # "none" /\ m \in job[j].remaining
    BY <1>6, <1>10, <2>3
  <2>4. CASE NoCopy(j, m) /\ m \notin job[j].remaining
    <3>1. ~AddsCopy(j, m)
      <4> SUFFICES ASSUME AddsCopy(j, m) PROVE FALSE
        OBVIOUS
      <4>1. First(j)
        BY <1>3, <1>7 DEF HandledInv, AddInv, First, h
      <4> QED BY <1>3, <1>7, <2>4, <4>1 DEF Custody, h
    <3> QED BY <1>6, <2>4, <3>1
  <2> QED BY <1>3, <2>1, <2>2, <2>3, <2>4 DEF Custody
<1>15. ASSUME First(j)', marker'[h].state \in {"none", "pending"}
       PROVE  m \in job'[j].remaining
  <2>1. job'[j].status # "none" /\ job'[j].status # "failed"
    BY <1>15 DEF First, Active, ActiveStates
  <2>2. CASE job[j].status # "none"
    <3>1. marker[h].state \in {"none", "pending"}
      <4>1. \/ marker'[h] = marker[h]
            \/ marker'[h].state = "pending" /\ marker[h].state \in {"none", "pending"}
            \/ marker'[h].state = "accepted"
            \/ marker'[h] = Applied(TRUE, {})
            \/ AddCommit(h) /\ marker[h].state = "pending"
        BY <1>1, <1>2, <1>4, <1>11, <1>15, <2>2, FirstMarker
      <4> QED BY <1>15, <4>1 DEF Applied
    <3>2. First(j)
      BY <1>11, <1>15, <2>2 DEF FirstStays
    <3>3. m \in job[j].remaining
      BY <1>3, <3>1, <3>2 DEF Custody, h
    <3> QED BY <1>10, <1>15, <2>1, <2>2, <3>1, <3>3
  <2> QED BY <1>9, <2>1, <2>2
<1>16. ASSUME First(j)', marker'[h].state = "applied", ~marker'[h].holds \/ m \in marker'[h].settled
       PROVE  NoCopy(j, m)' /\ Anchored(c, m)'
  <2>1. job[j].status # "none"
    <3> SUFFICES ASSUME job[j].status = "none" PROVE FALSE
      OBVIOUS
    <3>1. marker'[h] = NoMarker
      BY <1>1, <1>2, UnclaimedStays DEF h, Generations
    <3> QED BY <1>16, <3>1 DEF NoMarker
  <2>2. FirstStays(j) /\ FirstHandoff(j) /\ First(j)
    BY <1>11, <1>16, <2>1 DEF FirstStays
  <2>3. CASE marker'[h] = marker[h]
    <3>1. NoCopy(j, m) /\ Anchored(c, m)
      BY <1>3, <1>16, <2>2, <2>3 DEF Custody, h
    <3>2. ~AddsCopy(j, m)
      BY <1>7, <1>16, <2>3
    <3> QED BY <1>5, <1>6, <3>1, <3>2
  <2>4. CASE AddCommit(h) /\ marker[h].state = "pending"
    <3>1. NothingOf(j)
      BY <2>2, <2>4 DEF FirstHandoff, h
    <3>2. NoCopy(j, m)
      BY <3>1 DEF NothingOf, NoCopy, CopyOf
    <3>3. /\ m \in marker'[h].settled => \/ m \in seen[c] \/ m = checkpoint[c]
                                         \/ \E x \in held : Of(x, c, m)
          /\ ~marker'[h].holds => m \in marker'[h].settled \/ \E x \in held : CopyOf(x, j, m)
      BY <1>1, <1>4, <2>4, AddSettles
    <3>4. m \in marker'[h].settled
      BY <1>16, <3>2, <3>3 DEF NoCopy
    <3>5. ~AddsCopy(j, m)
      BY <1>7, <3>4
    <3>6. Unread(c, m)
      BY <1>1, <1>3 DEF HandledInv, EvidenceInv
    <3>7. Anchored(c, m)
      BY <3>3, <3>4, <3>6 DEF Unread, Anchored
    <3> QED BY <1>5, <1>6, <3>2, <3>5, <3>7
  <2>5. \/ marker'[h] = marker[h]
        \/ marker'[h].state \in {"pending", "accepted"}
        \/ marker'[h] = Applied(TRUE, {})
        \/ AddCommit(h) /\ marker[h].state = "pending"
    BY <1>1, <1>2, <1>4, <2>2, FirstMarker
  <2> QED BY <1>16, <2>3, <2>4, <2>5 DEF Applied
<1> QED BY <1>13, <1>14, <1>15, <1>16 DEF Custody, First, h

(* Every step keeps all of it.                                              *)
LEMMA HandledInvKept == HandledInv /\ [Next]_vars => HandledInv'
<1> SUFFICES ASSUME HandledInv, [Next]_vars PROVE HandledInv'
  OBVIOUS
<1>1. /\ AcceptInv /\ AcceptInv' /\ SharedInv /\ IngestInv /\ IngestInv' /\ Stored
      /\ EvidenceInv /\ ContentInv /\ OverInv /\ AddInv
  BY AcceptInvKept DEF HandledInv, AcceptInv, SharedInv, Stored, IngestInv
<1>2. /\ StoreStep /\ RowsKeep /\ EvidenceMove
      /\ \A d \in Drains : DrainMove(d)
      /\ \A i \in Handoffs : HandoffMove(i)
      /\ \A i \in Jobs : RowMove(i)
  BY <1>1, StepStore, RowsInvKept, StepDrains, StepHandoffs, StepRows, StepEvidence DEF SharedInv
<1>3. EvidenceInv' /\ ContentInv' /\ OverInv' /\ AddInv'
  BY <1>1, <1>2, EvidenceInvKept, ContentInvKept, OverInvKept, AddInvKept
<1>4. CustodyInv'
  BY CustodyKept DEF CustodyInv
<1> QED BY <1>1, <1>3, <1>4 DEF HandledInv

(* And it holds at the start.                                               *)
LEMMA HandledInvInit == Init => HandledInv
<1> SUFFICES ASSUME Init PROVE HandledInv
  OBVIOUS
<1>1. /\ \A j \in Jobs : job[j] = NoRow
      /\ held = {} /\ queue = [k \in Keys |-> NoEntry]
      /\ drain = [d \in Drains |-> DrainOff] /\ call = [h \in Handoffs |-> "off"]
  BY DEF Init, UserMemoryInit
<1>2. \A j \in Jobs : \A m : NoCopy(j, m)
  BY <1>1 DEF NoCopy, Busy, DrainOff
<1>3. \A j \in Jobs : job[j].status = "none" /\ ~First(j) /\ ~Terminal(job[j])
  BY <1>1 DEF NoRow, First, Active, ActiveStates, Terminal, TERMINAL_JOB_STATES
<1>4. ContentInv /\ OverInv /\ CustodyInv
  BY <1>2, <1>3 DEF ContentInv, OverInv, CustodyInv, Custody
<1>5. AddInv
  <2>1. \A j \in Jobs : <<j, 0>> \in Handoffs
    BY DEF Handoffs, Generations
  <2> QED BY <1>1, <2>1 DEF AddInv
<1> QED BY <1>4, <1>5, AcceptInvInit, EvidenceInvInit DEF HandledInv

(* Who has a message, for every state. *)
THEOREM MessagesInCustody == Spec => []HandledInv
<1> QED BY HandledInvInit, HandledInvKept, PTL DEF Spec

(* Until the first repair an enriched job is no false success: the model has *)
(* answered for each of its messages, or somebody has it who is not enriched. *)
THEOREM EnrichedIsHandled ==
  Spec => []((\A j \in Jobs : job[j].gen = 0) => EnrichedMeansHandled)
<1>1. HandledInv /\ (\A j \in Jobs : job[j].gen = 0) => EnrichedMeansHandled
  <2> SUFFICES ASSUME HandledInv, \A j \in Jobs : job[j].gen = 0,
                      NEW j \in Jobs, job[j].status = "enriched", NEW m \in MsgsOf[j] \ Noise
               PROVE  Handled(Ctx[j], m)
    BY DEF EnrichedMeansHandled
  <2>1. CASE <<Ctx[j], m>> \in looked
    BY <2>1 DEF Handled
  <2>2. CASE <<Ctx[j], m>> \notin looked
    <3>1. Custody(j, m)
      BY <2>2 DEF HandledInv, CustodyInv, Untouched
    <3>2. job[j].remaining = {}
      BY DEF HandledInv, OverInv, Terminal, TERMINAL_JOB_STATES
    <3>3. Anchored(Ctx[j], m)
      BY <3>1, <3>2 DEF Custody
    <3> QED BY <3>3 DEF Anchored, Of, Handled
  <2> QED BY <2>1, <2>2
<1> QED BY <1>1, MessagesInCustody, PTL

---------------------------------------------------------------------------
(* The sweep, beside a door that is called once for each job.                *)

OneCallEach == \A r, s \in Requests : ReqJob[r] = ReqJob[s] => r = s

(* Without a second call no row is repaired, and a request that has not      *)
(* claimed its row finds none.                                               *)
OnceInv ==
  /\ \A j \in Jobs : job[j].gen = 0
  /\ \A r \in Requests : /\ req[r].pc \notin {"reopen", "conflict"}
                         /\ req[r].pc \in {"new", "claim"} => job[ReqJob[r]].status = "none"

(* What a drain works on stays in the queue until its row has a verdict. *)
KeptInv ==
  \A d \in Drains : Busy(d) /\ ~Terminal(job[drain[d].e.job]) => queue[drain[d].key] # NoEntry

(* Nobody is going to bring the job's packet any more. *)
Spent(j) ==
  /\ \A g \in Generations : call[<<j, g>>] = "off"
  /\ \A r \in Requests : ReqJob[r] = j => req[r].pc \in {"inline", "done"}

(* What the sweep goes by: an old job is spent, the object has nothing of an *)
(* old job that it did not report, and so of an orphan, whose row nothing    *)
(* moves.                                                                    *)
OrphansInv ==
  /\ sweep \in SweepRec /\ old \subseteq Jobs
  /\ \A j \in old : Unfinished(job[j]) /\ Spent(j)
  /\ sweep.pc # "off" => \A j \in old \ sweep.known : NothingOf(j)
  /\ \A j \in sweep.orphans : Unfinished(job[j]) /\ Spent(j) /\ NothingOf(j)

SweepInv == AcceptInv /\ OnceInv /\ KeptInv /\ OrphansInv

(* A step writes a row in a call of the object or in a drain that has an     *)
(* entry of it, as long as it is active, or in a request of its own.         *)
Writer(j) ==
  \/ \E h \in Handoffs : h[1] = j /\ call[h] # "off"
  \/ \E d \in Drains : Busy(d) /\ drain[d].e.job = j

(* A settlement moves active rows only, and never to another generation. *)
LEMMA SettlementMoves ==
  ASSUME NEW was \in JobRow, NEW is, is # was, NEW g, NEW ms, NEW n,
         \/ is = SettleDone(was, g, ms) \/ is = SettleFailed(was, g)
         \/ is = SettleAttempted(was, g, n)
  PROVE  Active(was) /\ is.gen = was.gen
BY DEF JobRow, SettleDone, SettleFailed, SettleAttempted, Settleable

(* Who writes a row, and what a settlement makes of it.                     *)
LEMMA RowWriters ==
  ASSUME IngestInv, [Next]_vars, NEW j \in Jobs, job'[j] # job[j]
  PROVE  \/ Writer(j) /\ Active(job[j]) /\ job'[j].gen = job[j].gen
         \/ \E r \in Requests : ReqJob[r] = j /\ (Reopen(r) \/ Claim(r) \/ Activate(r))
<1>1. job \in [Jobs -> JobRow]
  BY DEF IngestInv, ObjectInv, D1Type
<1>2. ASSUME NEW i, NEW row, job' = [job EXCEPT ![i] = row]
      PROVE  i = j /\ row = job'[j]
  BY <1>1, <1>2
<1> DEFINE Settled(row) == \E g, ms, n : \/ row = SettleDone(job[j], g, ms)
                                         \/ row = SettleFailed(job[j], g)
                                         \/ row = SettleAttempted(job[j], g, n)
<1>3. Settled(job'[j]) => Active(job[j]) /\ job'[j].gen = job[j].gen
  BY <1>1, SettlementMoves
<1> HIDE DEF Settled
<1>4. ASSUME NEW h \in Handoffs, HandoffStep(h)
      PROVE  Writer(j) /\ Settled(job'[j])
  <2>1. call[h] # "off"
    BY <1>4 DEF HandoffStep, HandoffGeneration, HandoffPrior, HandoffAdd, AddCommit, HandoffSettle,
       HandoffFinish
  <2>2. ASSUME NEW row, NEW g, NEW ms, job' = [job EXCEPT ![h[1]] = row],
               row \in {job[h[1]], SettleDone(job[h[1]], g, ms)}
        PROVE  Writer(j) /\ Settled(job'[j])
    <3>1. h[1] = j /\ row = job'[j]
      BY <1>2, <2>2
    <3> QED BY <2>1, <2>2, <3>1 DEF Writer, Settled
  <2>3. CASE HandoffAdd(h)
    <3> DEFINE ms == marker'[h].settled
               row == IF ms = {} THEN job[h[1]] ELSE SettleDone(job[h[1]], h[2], ms)
    <3>1. job' = [job EXCEPT ![h[1]] = row]
      BY <2>3 DEF HandoffAdd
    <3>2. row \in {job[h[1]], SettleDone(job[h[1]], h[2], ms)}
      OBVIOUS
    <3> HIDE DEF row, ms
    <3> QED BY <2>2, <3>1, <3>2
  <2>4. CASE HandoffSettle(h)
    <3> DEFINE ms == marker[h].settled
               row == IF ms = {} THEN job[h[1]] ELSE SettleDone(job[h[1]], h[2], ms)
    <3>1. job' = [job EXCEPT ![h[1]] = row]
      BY <2>4 DEF HandoffSettle
    <3>2. row \in {job[h[1]], SettleDone(job[h[1]], h[2], ms)}
      OBVIOUS
    <3> HIDE DEF row, ms
    <3> QED BY <2>2, <3>1, <3>2
  <2>5. CASE HandoffFinish(h)
    <3> DEFINE ms == job[h[1]].remaining
               row == IF marker[h].holds THEN job[h[1]] ELSE SettleDone(job[h[1]], h[2], ms)
    <3>1. job' = [job EXCEPT ![h[1]] = row]
      BY <2>5 DEF HandoffFinish
    <3>2. row \in {job[h[1]], SettleDone(job[h[1]], h[2], ms)}
      OBVIOUS
    <3> HIDE DEF row, ms
    <3> QED BY <2>2, <3>1, <3>2
  <2>6. ~(HandoffGeneration(h) \/ HandoffPrior(h))
    BY DEF HandoffGeneration, HandoffPrior, d1Vars
  <2> QED BY <1>4, <2>3, <2>4, <2>5, <2>6 DEF HandoffStep
<1>5. ASSUME NEW d \in Drains, DrainStep(d)
      PROVE  Writer(j) /\ Settled(job'[j])
  <2> DEFINE e == drain[d].e
             n == IF drain[d].out = "capacity" THEN e.attempts + e.cap ELSE e.attempts
             tried == SettleAttempted(job[e.job], e.gen, n)
             done == IF e.verdict = "failed" THEN SettleFailed(job[e.job], e.gen)
                     ELSE SettleDone(job[e.job], e.gen, {e.msg})
  <2>1. DrainBookkeep(d) \/ DrainSettle(d)
    BY <1>5, EngineFrame DEF DrainStep, Engine, DrainPick, DrainDone, DrainRead, DrainCheck,
       DrainPut, DrainVerify, DrainFinalize, DrainRescue, DrainSuperseded, DrainFault, d1Vars
  <2>2. Busy(d)
    BY <2>1 DEF DrainBookkeep, DrainSettle, Busy
  <2>3. \/ job' = [job EXCEPT ![e.job] = tried]
        \/ job' = [job EXCEPT ![e.job] = done]
    BY <2>1 DEF DrainBookkeep, DrainSettle
  <2>4. \/ tried = SettleAttempted(job[e.job], e.gen, n)
        \/ done = SettleFailed(job[e.job], e.gen)
    OBVIOUS
  <2>5. done \in {SettleFailed(job[e.job], e.gen), SettleDone(job[e.job], e.gen, {e.msg})}
    OBVIOUS
  <2>6. tried = SettleAttempted(job[e.job], e.gen, n)
    OBVIOUS
  <2> HIDE DEF tried, done, n
  <2>7. e.job = j /\ job'[j] \in {tried, done}
    <3>1. CASE job' = [job EXCEPT ![e.job] = tried]
      <4>1. e.job = j /\ tried = job'[j]
        BY <1>2, <3>1, Zenon
      <4> QED BY <4>1
    <3>2. CASE job' = [job EXCEPT ![e.job] = done]
      <4>1. e.job = j /\ done = job'[j]
        BY <1>2, <3>2, Zenon
      <4> QED BY <4>1
    <3> QED BY <2>3, <3>1, <3>2
  <2> HIDE DEF e
  <2>8. Settled(job'[j])
    BY <2>5, <2>6, <2>7 DEF Settled
  <2>9. drain[d].e.job = j
    BY <2>7 DEF e
  <2> QED BY <2>2, <2>8, <2>9 DEF Writer
<1>6. CASE ObjectStep
  BY <1>3, <1>4, <1>5, <1>6 DEF ObjectStep, HandoffFault, AlarmFires, LeaseExpires, IdlePasses, Kick,
     BackoffElapses, RunAges, d1Vars
<1>7. ASSUME NEW r \in Requests, RequestStep(r) \/ RequestFails(r)
      PROVE  ReqJob[r] = j /\ (Reopen(r) \/ Claim(r) \/ Activate(r))
  <2>1. Reopen(r) \/ Claim(r) \/ Activate(r)
    BY <1>7 DEF RequestStep, RequestFails, Lookup, Conflict, CallHandoff, Inline, HandoffStart,
       DrainStart, umVars, d1Vars
  <2>2. \E row : job' = [job EXCEPT ![ReqJob[r]] = row]
    BY <2>1 DEF Reopen, Claim, Activate
  <2> QED BY <1>2, <2>1, <2>2
<1>8. ~(Evict \/ UNCHANGED vars \/ \E h \in Handoffs : Deliver(h))
  BY DEF Evict, Crash, CrashInAdd, CutOff, Deliver, vars, umVars, d1Vars
<1> QED BY <1>6, <1>7, <1>8 DEF Next, Done

(* How a request moves.                                                      *)
ReqTurn(r) ==
  \/ req'[r] = req[r] \/ req'[r].pc = "done"
  \/ Lookup(r) \/ Reopen(r) \/ Claim(r) \/ Conflict(r)
  \/ req[r].pc \notin {"inline", "done"} /\ req'[r].pc \in {"handoff", "wait", "inline"}

(* Every request moves in this way.                                         *)
LEMMA RequestTurns == IngestInv /\ [Next]_vars => \A r \in Requests : ReqTurn(r)
<1> SUFFICES ASSUME IngestInv, [Next]_vars, NEW r \in Requests PROVE ReqTurn(r)
  OBVIOUS
<1>1. req \in [Requests -> Req]
  BY DEF IngestInv, RequestInv
<1>2. CASE UNCHANGED req
  BY <1>2 DEF ReqTurn
<1>3. ASSUME RequestStep(r) \/ RequestFails(r)
      PROVE  ReqTurn(r)
  <2>1. CASE Lookup(r) \/ Reopen(r) \/ Claim(r) \/ Conflict(r)
    BY <2>1 DEF ReqTurn
  <2>2. CASE Activate(r) \/ CallHandoff(r)
    BY <1>1, <2>2 DEF Activate, CallHandoff, At, ReqAt, ReqTurn
  <2>3. CASE Inline(r) \/ RequestFails(r)
    BY <1>1, <2>3 DEF Inline, RequestFails, AnswerReq, ReqAt, ReqTurn, Req
  <2> QED BY <1>3, <2>1, <2>2, <2>3 DEF RequestStep
<1>4. ASSUME NEW i \in Requests, i # r, RequestStep(i) \/ RequestFails(i)
      PROVE  ReqTurn(r)
  <2>1. \E rec : req' = [req EXCEPT ![i] = rec]
    BY <1>4, Zenon DEF RequestStep, RequestFails, Lookup, Reopen, Claim, Conflict, Activate, CallHandoff,
       Inline, At, AnswerReq
  <2> QED BY <1>1, <1>4, <2>1 DEF ReqTurn
<1>5. ASSUME NEW h \in Handoffs, Deliver(h)
      PROVE  ReqTurn(r)
  BY <1>5 DEF Deliver, ReqAt, ReqTurn
<1>6. CASE Evict
  BY <1>6 DEF Evict, ReqAt, ReqTurn
<1> QED BY <1>2, <1>3, <1>4, <1>5, <1>6 DEF Next, Done, vars

(* Without a second call, rows stay at their first generation, and are there *)
(* only once their request has claimed them.                                 *)
LEMMA OnceInvKept ==
  ASSUME OneCallEach, AcceptInv, OnceInv, [Next]_vars
  PROVE  OnceInv'
<1>1. IngestInv /\ RowsInv /\ job \in [Jobs -> JobRow] /\ req \in [Requests -> Req]
  BY DEF AcceptInv, SharedInv, IngestInv, ObjectInv, D1Type, RequestInv
<1>2. \A r \in Requests : ReqJob[r] \in Jobs
  BY ReqAssumption
<1>3. ASSUME NEW j \in Jobs
      PROVE  job'[j].gen = 0
  <2>1. CASE job'[j] = job[j]
    BY <2>1 DEF OnceInv
  <2>2. ASSUME NEW r \in Requests, ReqJob[r] = j, Claim(r) \/ Activate(r)
        PROVE  job'[j].gen = 0
    <3>1. \/ job' = [job EXCEPT ![j] = ClaimedRow(j)]
          \/ job' = [job EXCEPT ![j].status = "queued"]
          \/ job' = job
      BY <2>2 DEF Claim, Activate
    <3> QED BY <1>1, <3>1 DEF ClaimedRow, JobRow, OnceInv
  <2>3. \A r \in Requests : ~Reopen(r)
    BY DEF OnceInv, Reopen
  <2> QED BY <1>1, <2>1, <2>2, <2>3, RowWriters DEF OnceInv
<1>4. ASSUME NEW r \in Requests, job[ReqJob[r]].status = "none", job'[ReqJob[r]].status # "none"
      PROVE  Claim(r)
  <2> DEFINE j == ReqJob[r]
  <2>1. ~Active(job[j])
    BY <1>4 DEF Active, ActiveStates
  <2>2. PICK i \in Requests : ReqJob[i] = j /\ (Reopen(i) \/ Claim(i) \/ Activate(i))
    BY <1>1, <1>2, <1>4, <2>1, RowWriters
  <2>3. i = r /\ ~Reopen(i)
    BY <2>2 DEF OneCallEach, OnceInv, Reopen
  <2>4. Activate(r) => job' = job
    BY <1>4 DEF Activate
  <2> QED BY <1>4, <2>2, <2>3, <2>4
<1>5. ASSUME NEW r \in Requests
      PROVE  /\ req'[r].pc \notin {"reopen", "conflict"}
             /\ req'[r].pc \in {"new", "claim"} => job'[ReqJob[r]].status = "none"
  <2> DEFINE j == ReqJob[r]
  <2>1. ~Reopen(r) /\ ~Conflict(r)
    BY DEF OnceInv, Reopen, Conflict
  <2>2. CASE req'[r] = req[r]
    <3>1. ~Claim(r) \/ req[r].pc = "claim"
      BY DEF Claim
    <3>2. Claim(r) => req'[r].pc # "claim"
      BY <1>1 DEF Claim, At, AnswerReq, ReqAt
    <3> QED BY <1>4, <2>2, <3>1, <3>2 DEF OnceInv
  <2>3. CASE Lookup(r)
    <3>1. job[j].status = "none" /\ job' = job
      BY <2>3 DEF OnceInv, Lookup, umVars
    <3>2. At(r, "claim", 0)
      BY <2>3, <3>1 DEF Lookup, Active, ActiveStates
    <3>3. req'[r].pc = "claim"
      BY <1>1, <3>2 DEF At, ReqAt
    <3> QED BY <3>1, <3>3
  <2>4. CASE Claim(r)
    <3>1. job[j].status = "none"
      BY <2>4 DEF OnceInv, Claim
    <3>2. At(r, "source", req[r].gen) \/ AnswerReq(r, "busy")
      BY <2>4, <3>1 DEF Claim
    <3>3. req'[r].pc \in {"source", "done"}
      BY <1>1, <3>2 DEF At, AnswerReq, ReqAt
    <3> QED BY <3>3
  <2>5. ReqTurn(r)
    BY <1>1, RequestTurns
  <2> QED BY <2>1, <2>2, <2>3, <2>4, <2>5 DEF ReqTurn
<1> QED BY <1>3, <1>5 DEF OnceInv

(* A packet that nobody brings stays so. *)
LEMMA SpentStays ==
  ASSUME IngestInv, [Next]_vars, NEW j \in Jobs, Spent(j)
  PROVE  Spent(j)'
<1>1. ASSUME NEW g \in Generations
      PROVE  call'[<<j, g>>] = "off"
  <2> DEFINE h == <<j, g>>
  <2>1. h \in Handoffs /\ h[1] = j /\ call[h] = "off"
    BY DEF Handoffs, Spent
  <2> HIDE DEF h
  <2>2. ~HandoffStep(h) /\ ~CrashInAdd(h)
    BY <2>1 DEF HandoffStep, HandoffGeneration, HandoffPrior, HandoffAdd, AddCommit, HandoffSettle,
       HandoffFinish, CrashInAdd
  <2>3. \A r \in Requests : ReqJob[r] = j => req[r].pc # "handoff"
    BY DEF Spent
  <2>4. HandoffMove(h)
    BY <2>1, StepHandoffs
  <2>5. CallStays(h)
    BY <2>1, <2>2, <2>3, <2>4 DEF HandoffMove
  <2>6. call'[h] = "off"
    BY <2>1, <2>5 DEF CallStays
  <2> QED BY <2>6 DEF h
<1>2. ASSUME NEW r \in Requests, ReqJob[r] = j
      PROVE  req'[r].pc \in {"inline", "done"}
  <2>1. req[r].pc \in {"inline", "done"}
    BY <1>2 DEF Spent
  <2>2. ~(Lookup(r) \/ Reopen(r) \/ Claim(r) \/ Conflict(r))
    BY <2>1 DEF Lookup, Reopen, Claim, Conflict
  <2> QED BY <2>1, <2>2, RequestTurns DEF ReqTurn
<1> QED BY <1>1, <1>2 DEF Spent

(* And the object gets nothing of it, nor does its row move. *)
LEMMA NothingStays ==
  ASSUME AcceptInv, [Next]_vars, NEW j \in Jobs, Spent(j), NothingOf(j)
  PROVE  NothingOf(j)' /\ job'[j] = job[j]
<1>1. IngestInv /\ Stored
  BY DEF AcceptInv, SharedInv, Stored, IngestInv
<1>2. StoreStep /\ \A d \in Drains : DrainMove(d)
  BY <1>1, StepStore, StepDrains
<1>3. \A m : NoCopy(j, m) /\ ~AddsCopy(j, m)
  <2>1. \A h \in Handoffs : h[1] = j => call[h] = "off"
    BY DEF Spent, Handoffs
  <2> QED BY <2>1 DEF NothingOf, NoCopy, CopyOf, AddsCopy
<1>4. \A m : NoCopy(j, m)'
  BY <1>1, <1>2, <1>3, NoCopyStays
<1>5. NothingOf(j)'
  <2>1. \A x \in held' : x.job # j
    BY <1>4 DEF NoCopy, CopyOf
  <2>2. \A k \in Keys : queue'[k] # NoEntry => queue'[k].job # j
    BY <1>4 DEF NoCopy, CopyOf
  <2>3. \A d \in Drains : Busy(d)' => drain'[d].e.job # j
    BY <1>4 DEF NoCopy, CopyOf
  <2> QED BY <2>1, <2>2, <2>3 DEF NothingOf
<1>6. ~Writer(j)
  BY DEF Writer, NothingOf, Spent, Handoffs
<1>7. \A r \in Requests : ReqJob[r] = j => ~(Reopen(r) \/ Claim(r) \/ Activate(r))
  BY DEF Spent, Reopen, Claim, Activate
<1> QED BY <1>1, <1>5, <1>6, <1>7, RowWriters

(* An entry leaves the queue only under a drain that takes its row for over. *)
LEMMA EntriesGo ==
  ASSUME Stored, StoreStep, NEW k \in Keys, queue[k] # NoEntry, queue'[k] = NoEntry
  PROVE  \E d \in Drains : Busy(d) /\ drain[d].key = k /\ Leaves(d)
<1>1. queue \in [Keys -> Entry \union {NoEntry}]
  BY StoredFacts
<1>2. CASE ChunkStep
  <2>1. PICK All, X, D : Shifts(All, X, D) /\ Frees(D)
    BY <1>2 DEF ChunkStep
  <2>2. k \in D
    <3>1. \A x \in X : EntryOf(x) # NoEntry
      BY <2>1, EntryTypes DEF Shifts
    <3> QED BY <2>1, <3>1 DEF Shifts
  <2> QED BY <2>1, <2>2 DEF Frees
<1>3. CASE EntryStep
  <2>1. \A f \in Entry : f # NoEntry
    BY DEF Entry, NoEntry, Verdicts
  <2> QED BY <1>1, <1>3, <2>1 DEF EntryStep
<1> QED BY <1>2, <1>3 DEF StoreStep

(* Every step of the door and the object keeps the entry of a drain.        *)
LEMMA KeptInvKept ==
  ASSUME AcceptInv, OnceInv, OnceInv', KeptInv, [Next]_vars
  PROVE  KeptInv'
<1>1. IngestInv /\ Stored /\ RowsInv /\ KeysInv /\ GensInv /\ AnnounceInv
  BY DEF AcceptInv, SharedInv, Stored, IngestInv
<1>2. StoreStep /\ RowsKeep /\ \A d \in Drains : DrainMove(d)
  BY <1>1, StepStore, StepDrains, RowsInvKept
<1>3. \A d \in Drains : Busy(d) => /\ drain[d].key \in Keys /\ drain[d].e.job \in Jobs
                                   /\ drain[d].e.gen \in Nat
  BY <1>1, StoredFacts DEF Entry, Generations
<1>4. ASSUME NEW j \in Jobs, Terminal(job[j])
      PROVE  Terminal(job'[j])
  BY <1>2, <1>4 DEF RowsKeep, OnceInv
<1>5. ASSUME NEW d \in Drains, Busy(d), Leaves(d)
      PROVE  Terminal(job[drain[d].e.job])
  <2>1. job[drain[d].e.job].gen = 0 /\ drain[d].e.gen = 0
    BY <1>1, <1>3, <1>5 DEF OnceInv, GensInv
  <2>2. drain[d].pc # "superseded"
    BY <1>1, <2>1 DEF GensInv
  <2>3. CASE drain[d].pc = "finalize"
    BY <1>1, <2>1, <2>3 DEF AnnounceInv, Announced, Terminal
  <2> QED BY <1>5, <2>1, <2>2, <2>3 DEF Leaves
<1>6. ASSUME NEW d \in Drains, Busy(d), NEW e, e.job = drain[d].e.job, ~Terminal(job'[e.job])
      PROVE  queue'[drain[d].key] # NoEntry
  <2> DEFINE k == drain[d].key
  <2>1. ~Terminal(job[e.job])
    BY <1>3, <1>4, <1>6
  <2>2. queue[k] # NoEntry
    BY <1>6, <2>1 DEF KeptInv
  <2>3. SUFFICES ASSUME queue'[k] = NoEntry PROVE FALSE
    OBVIOUS
  <2>4. PICK b \in Drains : Busy(b) /\ drain[b].key = k /\ Leaves(b)
    BY <1>1, <1>2, <1>3, <1>6, <2>2, <2>3, EntriesGo
  <2>5. drain[b].e.job = e.job
    BY <1>1, <1>6, <2>4 DEF KeysInv, SameCopy
  <2> QED BY <1>5, <2>1, <2>4, <2>5
<1>7. ASSUME NEW d \in Drains, Busy(d)', ~Terminal(job'[drain'[d].e.job])
      PROVE  queue'[drain'[d].key] # NoEntry
  <2>1. CASE drain'[d] = drain[d]
    BY <1>6, <1>7, <2>1 DEF Busy
  <2>2. CASE Picked(d)
    BY <2>2 DEF Picked
  <2>3. CASE GoesOn(d)
    BY <1>6, <1>7, <2>3 DEF GoesOn, SameCopy
  <2> QED BY <1>2, <1>7, <2>1, <2>2, <2>3 DEF DrainMove, Busy
<1> QED BY <1>7 DEF KeptInv

(* What the sweep does to the rest: it fails the row of a job that the       *)
(* object has nothing of, or has a fault.                                    *)
LEMMA FailKeepsAccept ==
  ASSUME AcceptInv, NEW j \in Jobs, NothingOf(j), Unfinished(job[j]),
         job' = [job EXCEPT ![j].status = "failed"],
         UNCHANGED <<run, looked, announced, chunkVars, queueVars, marker, lease, alarm, call,
                     drain, faults, cut, req>>
  PROVE  AcceptInv'
<1>1. /\ job \in [Jobs -> JobRow] /\ IngestInv /\ RowsInv /\ KeysInv /\ HeldInv /\ GensInv
      /\ AnnounceInv /\ UnclaimedInv /\ FirstInv
  BY DEF AcceptInv, SharedInv, IngestInv, ObjectInv, D1Type
<1>2. /\ job'[j].status = "failed" /\ job'[j].gen = job[j].gen
      /\ job'[j].remaining = job[j].remaining /\ job' \in [Jobs -> JobRow]
  BY <1>1 DEF JobRow, TERMINAL_JOB_STATES
<1>3. \A i \in Jobs : i # j => job'[i] = job[i]
  BY <1>1
<1>4. job[j].status # "none"
  BY DEF Unfinished
<1>5. IngestInv'
  <2>1. ObjectInv'
    BY <1>1, <1>2, RowsFrame DEF IngestInv
  <2>2. RequestInv'
    BY <1>1 DEF IngestInv, RequestInv
  <2> QED BY <2>1, <2>2 DEF IngestInv
<1>6. RowsInv'
  BY <1>1, <1>2, <1>3 DEF RowsInv
<1>7. KeysInv' /\ HeldInv'
  BY <1>1 DEF KeysInv, HeldInv, Busy, chunkVars, queueVars
<1>8. \A i \in Jobs : job'[i].gen = job[i].gen
  BY <1>2, <1>3
<1>9. /\ \A x \in held : x.job \in Jobs
      /\ \A k \in Keys : queue[k] # NoEntry => queue[k].job \in Jobs
      /\ \A d \in Drains : Busy(d) => drain[d].e.job \in Jobs
      /\ \A h \in Handoffs : h[1] \in Jobs
  BY <1>1, StoredFacts DEF IngestInv, Stored, Held, Entry, Handoffs
<1>10. GensInv'
  BY <1>1, <1>8, <1>9 DEF GensInv, Busy, chunkVars, queueVars
<1>11. AnnounceInv'
  <2> SUFFICES ASSUME NEW d \in Drains, drain[d].pc = "finalize" PROVE Announced(drain[d].e)'
    BY DEF AnnounceInv
  <2>1. Busy(d) /\ drain[d].e.job # j
    BY DEF Busy, NothingOf
  <2>2. job'[drain[d].e.job] = job[drain[d].e.job]
    BY <1>3, <1>9, <2>1
  <2>3. Announced(drain[d].e) /\ announced' = announced /\ drain' = drain
    BY <1>1 DEF AnnounceInv
  <2>4. PICK state \in TERMINAL_JOB_STATES :
          /\ <<drain[d].e.job, state>> \in announced
          /\ job[drain[d].e.job].gen = drain[d].e.gen => job[drain[d].e.job].status = state
    BY <2>3, Zenon DEF Announced
  <2>5. /\ <<drain'[d].e.job, state>> \in announced'
        /\ job'[drain'[d].e.job].gen = drain'[d].e.gen => job'[drain'[d].e.job].status = state
    BY <2>2, <2>3, <2>4, Zenon
  <2> QED BY <2>5, Zenon DEF Announced
<1>12. UnclaimedInv'
  BY <1>1, <1>2, <1>3 DEF UnclaimedInv, NothingOf, Busy, chunkVars, queueVars
<1>13. FirstInv'
  <2> SUFFICES ASSUME NEW i \in Jobs, First(i)' PROVE (FirstHandoff(i) /\ FirstAnswers(i))'
    BY DEF FirstInv
  <2>1. i # j
    BY <1>2 DEF First, Active, ActiveStates
  <2>2. job'[i] = job[i]
    BY <1>3, <2>1
  <2>3. FirstHandoff(i) /\ FirstAnswers(i)
    BY <1>1, <2>2 DEF FirstInv, First
  <2> QED BY <2>2, <2>3 DEF FirstHandoff, FirstAnswers, AllInObject, InObject, NothingOf, Busy,
             chunkVars, queueVars
<1> QED BY <1>5, <1>6, <1>7, <1>10, <1>11, <1>12, <1>13 DEF AcceptInv, SharedInv

(* A fault of the sweep touches nothing.                                    *)
LEMMA FaultKeepsAccept ==
  ASSUME AcceptInv, Fault,
         UNCHANGED <<d1Vars, chunkVars, queueVars, marker, lease, alarm, call, drain, cut, req>>
  PROVE  AcceptInv'
<1>1. IngestInv'
  <2>1. faults' \in 0 .. MaxFaults
    BY FaultType DEF AcceptInv, SharedInv, IngestInv, ObjectInv, ControlType
  <2>2. ObjectInv'
    BY <2>1 DEF AcceptInv, SharedInv, IngestInv, ObjectInv, D1Type, ChunkType, ControlType, QueueOK,
       QueueType, QueueInv, DrainOK, DrainType, DrainInv, d1Vars, chunkVars, queueVars
  <2> QED BY <2>2 DEF AcceptInv, SharedInv, IngestInv, RequestInv
<1>2. RowsInv' /\ KeysInv' /\ HeldInv' /\ GensInv' /\ AnnounceInv'
  BY DEF AcceptInv, SharedInv, RowsInv, KeysInv, HeldInv, GensInv, AnnounceInv, Announced, Busy,
     d1Vars, chunkVars, queueVars
<1>3. UnclaimedInv' /\ FirstInv'
  BY DEF AcceptInv, UnclaimedInv, FirstInv, First, FirstHandoff, FirstAnswers, AllInObject, InObject,
     NothingOf, Busy, d1Vars, chunkVars, queueVars
<1> QED BY <1>1, <1>2, <1>3 DEF AcceptInv, SharedInv

(* The door and the object go on, and every row they write is renewed. *)
LEMMA RuntimeKeepsOrphans ==
  ASSUME SweepInv, [Next]_vars, old' \subseteq {j \in old : job'[j] = job[j]}, UNCHANGED sweep
  PROVE  OrphansInv'
<1>1. AcceptInv /\ IngestInv /\ OrphansInv
  BY DEF SweepInv, AcceptInv, SharedInv
<1>2. \A j \in old' : j \in old /\ j \in Jobs /\ job'[j] = job[j]
  BY <1>1 DEF OrphansInv
<1>3. \A j \in old' : Unfinished(job'[j]) /\ Spent(j)'
  BY <1>1, <1>2, SpentStays DEF OrphansInv
<1>4. sweep'.pc # "off" => \A j \in old' \ sweep'.known : NothingOf(j)'
  BY <1>1, <1>2, NothingStays DEF OrphansInv
<1>5. \A j \in sweep.orphans : j \in Jobs
  BY <1>1 DEF OrphansInv, SweepRec
<1>6. \A j \in sweep'.orphans : Unfinished(job'[j]) /\ Spent(j)' /\ NothingOf(j)'
  BY <1>1, <1>5, SpentStays, NothingStays DEF OrphansInv
<1>7. sweep' \in SweepRec /\ old' \subseteq Jobs
  BY <1>1, <1>2 DEF OrphansInv
<1> QED BY <1>3, <1>4, <1>6, <1>7 DEF OrphansInv

(* Every step of the door and the object keeps what the sweep goes by. *)
LEMMA RuntimeKeepsSweep ==
  ASSUME OneCallEach, SweepInv, [Next]_vars, old' \subseteq {j \in old : job'[j] = job[j]},
         UNCHANGED sweep
  PROVE  SweepInv'
<1>1. AcceptInv' /\ OnceInv'
  BY AcceptInvKept, OnceInvKept DEF SweepInv
<1> QED BY <1>1, KeptInvKept, RuntimeKeepsOrphans DEF SweepInv

(* An unfinished old job that the object does not report has nothing there. *)
LEMMA UnknownHasNothing ==
  ASSUME SweepInv, NEW j \in old, j \notin KnownJobs
  PROVE  NothingOf(j)
<1>1. KeysInv /\ IngestInv /\ Unfinished(job[j])
  BY DEF SweepInv, AcceptInv, SharedInv, OrphansInv
<1>2. ASSUME NEW d \in Drains, Busy(d), drain[d].e.job = j
      PROVE  FALSE
  <2>1. drain[d].key \in Keys
    BY <1>1, <1>2 DEF IngestInv, ObjectInv, DrainOK, DrainInv, Busy
  <2>2. ~Terminal(job[j])
    BY <1>1 DEF Unfinished, Terminal, TERMINAL_JOB_STATES
  <2>3. queue[drain[d].key] # NoEntry
    BY <1>2, <2>2 DEF SweepInv, KeptInv
  <2>4. queue[drain[d].key].job = j
    BY <1>1, <1>2, <2>3 DEF KeysInv, SameCopy
  <2> QED BY <2>1, <2>3, <2>4 DEF KnownJobs
<1> QED BY <1>2 DEF NothingOf, KnownJobs

(* A step of the sweep that leaves everything else alone, or time passing. *)
LEMMA StandsStill ==
  ASSUME SweepInv, UNCHANGED vars
  PROVE  /\ AcceptInv' /\ OnceInv' /\ KeptInv' /\ UNCHANGED job
         /\ \A j \in Jobs : Spent(j)' = Spent(j) /\ NothingOf(j)' = NothingOf(j)
<1>1. AcceptInv'
  BY AcceptInvKept DEF SweepInv
<1>2. OnceInv' /\ KeptInv' /\ UNCHANGED job
  BY DEF SweepInv, vars, umVars, OnceInv, KeptInv, Busy
<1>3. \A j \in Jobs : Spent(j)' = Spent(j) /\ NothingOf(j)' = NothingOf(j)
  BY DEF vars, umVars, Spent, NothingOf, Busy
<1> QED BY <1>1, <1>2, <1>3

(* Failing an orphan takes nothing back.                                    *)
LEMMA SweepFailKeeps ==
  ASSUME SweepInv, NEW j \in Jobs, SweepFail(j)
  PROVE  SweepInv'
<1>1. /\ job \in [Jobs -> JobRow] /\ AcceptInv /\ OnceInv /\ KeptInv /\ OrphansInv
      /\ sweep \in SweepRec /\ old \subseteq Jobs
  BY DEF SweepInv, AcceptInv, SharedInv, IngestInv, ObjectInv, D1Type, OrphansInv
<1>2. /\ Unfinished(job[j]) /\ Spent(j) /\ NothingOf(j) /\ job' = [job EXCEPT ![j].status = "failed"]
      /\ UNCHANGED <<run, looked, announced, chunkVars, queueVars, marker, lease, alarm, call,
                     drain, faults, cut, req>>
  BY <1>1 DEF SweepFail, OrphansInv
<1>3. AcceptInv'
  BY <1>1, <1>2, FailKeepsAccept
<1>4. /\ job'[j].status = "failed" /\ job'[j].gen = job[j].gen
      /\ \A i \in Jobs : i # j => job'[i] = job[i]
  BY <1>1, <1>2 DEF JobRow
<1>5. OnceInv'
  <2>1. \A r \in Requests : req[r].pc \in {"new", "claim"} => ReqJob[r] # j /\ ReqJob[r] \in Jobs
    BY <1>2, ReqAssumption DEF Spent
  <2>2. \A i \in Jobs : job'[i].gen = 0
    BY <1>1, <1>4 DEF OnceInv
  <2> QED BY <1>1, <1>2, <1>4, <2>1, <2>2 DEF OnceInv
<1>6. KeptInv'
  <2>1. \A d \in Drains : Busy(d) => drain[d].e.job \in Jobs
    BY <1>1 DEF AcceptInv, SharedInv, IngestInv, ObjectInv, DrainOK, DrainInv, Busy, Entry
  <2>2. \A i \in Jobs : ~Terminal(job'[i]) => ~Terminal(job[i])
    BY <1>4 DEF Terminal, TERMINAL_JOB_STATES
  <2> QED BY <1>1, <1>2, <2>1, <2>2 DEF KeptInv, Busy, queueVars
<1>7. \A i \in Jobs : Spent(i)' = Spent(i) /\ NothingOf(i)' = NothingOf(i)
  BY <1>2 DEF Spent, NothingOf, Busy, chunkVars, queueVars
<1>8. OrphansInv'
  <2>1. /\ sweep'.pc = sweep.pc /\ sweep'.known = sweep.known
        /\ sweep'.orphans = sweep.orphans \ {j} /\ sweep' \in SweepRec /\ old' = old \ {j}
    BY <1>1 DEF SweepFail, SweepRec
  <2>2. sweep.orphans \subseteq Jobs
    BY <1>1 DEF SweepRec
  <2>3. \A i \in old' : Unfinished(job'[i]) /\ Spent(i)'
    BY <1>1, <1>4, <1>7, <2>1 DEF OrphansInv
  <2>4. sweep'.pc # "off" => \A i \in old' \ sweep'.known : NothingOf(i)'
    BY <1>1, <1>7, <2>1 DEF OrphansInv
  <2>5. \A i \in sweep'.orphans : Unfinished(job'[i]) /\ Spent(i)' /\ NothingOf(i)'
    BY <1>1, <1>4, <1>7, <2>1, <2>2 DEF OrphansInv
  <2> QED BY <1>1, <2>1, <2>3, <2>4, <2>5 DEF OrphansInv
<1> QED BY <1>3, <1>5, <1>6, <1>8 DEF SweepInv

(* Every step keeps all of it.                                              *)
LEMMA SweepInvKept ==
  ASSUME OneCallEach
  PROVE  SweepInv /\ [SweepNext]_sweepVars => SweepInv'
<1> SUFFICES ASSUME SweepInv, [SweepNext]_sweepVars PROVE SweepInv'
  OBVIOUS
<1>1. /\ job \in [Jobs -> JobRow] /\ AcceptInv /\ OnceInv /\ KeptInv /\ OrphansInv
      /\ sweep \in SweepRec /\ old \subseteq Jobs
  BY DEF SweepInv, AcceptInv, SharedInv, IngestInv, ObjectInv, D1Type, OrphansInv
<1>2. CASE Next /\ Renew /\ UNCHANGED sweep
  BY <1>2, RuntimeKeepsSweep DEF Renew
<1>3. CASE SweepKick
  <2>1. Kick /\ UNCHANGED req
    BY <1>3 DEF SweepKick
  <2>2. Next
    BY <2>1 DEF Next, ObjectStep
  <2>3. /\ UNCHANGED <<job, held, queue, call, drain, req, old>>
        /\ sweep' = [SweepOff EXCEPT !.pc = "query", !.known = KnownJobs]
    BY <1>3, <2>1 DEF SweepKick, Kick, d1Vars, chunkVars, queueVars
  <2>4. AcceptInv' /\ KeptInv' /\ OnceInv'
    <3>1. AcceptInv'
      BY <1>1, <2>2, AcceptInvKept
    <3> QED BY <1>1, <2>3, <3>1 DEF KeptInv, OnceInv, Busy
  <2>5. \A j \in Jobs : Spent(j)' = Spent(j) /\ NothingOf(j)' = NothingOf(j)
    BY <2>3 DEF Spent, NothingOf, Busy
  <2>6. sweep'.orphans = {} /\ sweep'.known = KnownJobs /\ sweep' \in SweepRec
    <3>1. KnownJobs \subseteq Jobs
      BY <1>1 DEF AcceptInv, SharedInv, IngestInv, ObjectInv, ChunkType, QueueOK, QueueType, Held,
         Entry, KnownJobs
    <3> QED BY <2>3, <3>1 DEF SweepOff, SweepRec
  <2>7. OrphansInv'
    BY <1>1, <2>3, <2>5, <2>6, UnknownHasNothing DEF OrphansInv
  <2> QED BY <2>4, <2>7 DEF SweepInv
<1>4. CASE SweepQuery
  <2>1. /\ UNCHANGED <<vars, old>> /\ sweep.pc = "query"
        /\ sweep' = [sweep EXCEPT !.pc = "fail",
                                  !.orphans = {j \in old \ sweep.known : Unfinished(job[j])}]
    BY <1>4 DEF SweepQuery
  <2>2. /\ sweep' \in SweepRec /\ sweep'.known = sweep.known
        /\ \A j \in sweep'.orphans : j \in old \ sweep.known /\ Unfinished(job[j])
    BY <1>1, <2>1 DEF SweepRec
  <2>3. \A j \in Jobs : Spent(j)' = Spent(j) /\ NothingOf(j)' = NothingOf(j)
    BY <2>1, StandsStill
  <2>4. \A j \in old : j \in Jobs /\ Unfinished(job'[j]) /\ Spent(j)'
    BY <1>1, <2>1, <2>3, StandsStill DEF OrphansInv
  <2>5. \A j \in old \ sweep.known : NothingOf(j)'
    BY <1>1, <2>1, <2>3 DEF OrphansInv
  <2>6. OrphansInv'
    BY <1>1, <2>1, <2>2, <2>4, <2>5 DEF OrphansInv
  <2> QED BY <2>1, <2>6, StandsStill DEF SweepInv
<1>5. CASE SweepEnds
  <2>1. UNCHANGED <<vars, old>> /\ sweep' = SweepOff
    BY <1>5 DEF SweepEnds
  <2>2. sweep' \in SweepRec /\ sweep'.pc = "off" /\ sweep'.orphans = {}
    BY <2>1 DEF SweepOff, SweepRec
  <2>3. \A j \in old : j \in Jobs /\ Unfinished(job'[j]) /\ Spent(j)'
    BY <1>1, <2>1, StandsStill DEF OrphansInv
  <2>4. OrphansInv'
    BY <1>1, <2>1, <2>2, <2>3 DEF OrphansInv
  <2> QED BY <2>1, <2>4, StandsStill DEF SweepInv
<1>6. CASE SweepFault
  <2>1. AcceptInv'
    BY <1>1, <1>6, FaultKeepsAccept DEF SweepFault
  <2>2. OnceInv' /\ KeptInv' /\ UNCHANGED <<job, old>> /\ sweep' = SweepOff
    BY <1>1, <1>6 DEF SweepFault, OnceInv, KeptInv, Busy, d1Vars, queueVars
  <2>3. \A j \in Jobs : Spent(j)' = Spent(j)
    BY <1>6 DEF SweepFault, Spent
  <2>4. OrphansInv'
    BY <1>1, <2>2, <2>3 DEF OrphansInv, SweepOff, SweepRec
  <2> QED BY <2>1, <2>2, <2>4 DEF SweepInv
<1>7. ASSUME NEW j \in Jobs, JobAges(j)
      PROVE  SweepInv'
  <2>1. /\ UNCHANGED vars /\ UNCHANGED sweep /\ sweep.pc = "off" /\ old' = old \union {j}
        /\ Unfinished(job[j]) /\ ~InFlight(j)
    BY <1>7 DEF JobAges
  <2>2. Spent(j)
    <3>1. \A r \in Requests : ReqJob[r] = j => req[r].pc \in {"inline", "done"}
      <4> SUFFICES ASSUME NEW r \in Requests, ReqJob[r] = j PROVE req[r].pc \in {"inline", "done"}
        OBVIOUS
      <4>1. req[r].pc \notin {"reopen", "claim", "conflict", "source", "handoff", "wait"}
        BY <2>1 DEF InFlight
      <4>2. req[r].pc # "new"
        BY <1>1, <2>1 DEF OnceInv, Unfinished
      <4> QED BY <1>1, <4>1, <4>2 DEF AcceptInv, SharedInv, IngestInv, RequestInv, Req
    <3> QED BY <2>1, <3>1 DEF Spent, InFlight
  <2>3. \A i \in Jobs : Spent(i)' = Spent(i) /\ NothingOf(i)' = NothingOf(i) /\ job'[i] = job[i]
    BY <2>1, StandsStill
  <2>4. \A i \in old' : i \in Jobs /\ Unfinished(job'[i]) /\ Spent(i)'
    BY <1>1, <2>1, <2>2, <2>3 DEF OrphansInv
  <2>5. \A i \in sweep.orphans : Unfinished(job'[i]) /\ Spent(i)' /\ NothingOf(i)'
    BY <1>1, <2>3 DEF OrphansInv, SweepRec
  <2>6. OrphansInv'
    BY <1>1, <2>1, <2>4, <2>5 DEF OrphansInv
  <2> QED BY <2>1, <2>6, StandsStill DEF SweepInv
<1>8. CASE UNCHANGED sweepVars
  <2>1. UNCHANGED vars /\ UNCHANGED <<sweep, old>>
    BY <1>8 DEF sweepVars
  <2>2. [Next]_vars /\ old' \subseteq {j \in old : job'[j] = job[j]} /\ UNCHANGED sweep
    BY <2>1 DEF vars, umVars
  <2> QED BY <2>2, RuntimeKeepsSweep
<1> QED BY <1>2, <1>3, <1>4, <1>5, <1>6, <1>7, <1>8, SweepFailKeeps DEF SweepNext, SweepStep

(* And it holds at the start.                                               *)
LEMMA SweepInvInit == SweepInit => SweepInv
<1> SUFFICES ASSUME SweepInit PROVE SweepInv
  OBVIOUS
<1>1. Init /\ sweep = SweepOff /\ old = {}
  BY DEF SweepInit
<1>2. OnceInv /\ KeptInv
  BY <1>1, ReqAssumption DEF Init, UserMemoryInit, OnceInv, KeptInv, Busy, DrainOff, NoRow, NewReq, ReqAt
<1>3. OrphansInv
  BY <1>1 DEF OrphansInv, SweepOff, SweepRec
<1> QED BY <1>1, <1>2, <1>3, AcceptInvInit DEF SweepInv

(* Beside a door that is called once for each job, the sweep knows what it   *)
(* is doing: slow drains, retries, rescues, crashes and faults included.     *)
THEOREM SweepIsSound ==
  ASSUME OneCallEach
  PROVE  SweepSpec => []SweepInv
<1> QED BY SweepInvInit, SweepInvKept, PTL DEF SweepSpec

(* The sweep fails a job only when the object has no work for it, as long as *)
(* no job is called twice; with a second call it does not (MCSweepRace.cfg). *)
THEOREM OrphansAreIdle ==
  ASSUME OneCallEach
  PROVE  SweepSpec => OrphansHaveNoWork
<1>1. SweepInv /\ [SweepNext]_sweepVars =>
        [\A j \in Jobs : SweepFail(j) /\ job'[j] # job[j] => j \notin KnownJobs]_sweepVars
  BY DEF SweepInv, OrphansInv, SweepFail, NothingOf, KnownJobs
<1> QED BY <1>1, SweepIsSound, PTL DEF SweepSpec, OrphansHaveNoWork

(* Nor does it overwrite a verdict that the queue has reached. *)
THEOREM VerdictsOutliveTheSweep ==
  ASSUME OneCallEach
  PROVE  SweepSpec => SweepKeepsVerdicts
<1>1. SweepInv /\ [SweepNext]_sweepVars =>
        [\A j \in Jobs : SweepFail(j) => ~Terminal(job[j])]_sweepVars
  BY DEF SweepInv, OrphansInv, SweepFail, Unfinished, Terminal, TERMINAL_JOB_STATES
<1> QED BY <1>1, SweepIsSound, PTL DEF SweepSpec, SweepKeepsVerdicts
=============================================================================
