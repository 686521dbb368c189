-------------------------------- MODULE Sweep --------------------------------
(***************************************************************************)
(* The reconciliation sweep (runReconciliationSweep, rescue and orphan     *)
(* part, src/src/pipeline/sweep.js), a cron job that runs beside the door  *)
(* and the object: it kicks the object of a user with stale jobs, asks     *)
(* which jobs the object knows, and fails the old jobs that it does not    *)
(* know.                                                                   *)
(*                                                                         *)
(* Time is abstracted to one flag for each job: `old` holds the jobs whose *)
(* row has not been written for ORPHAN_MS (15 minutes).  No HTTP call      *)
(* lasts that long, so a job does not become old under a call that is      *)
(* still at work on it; a later call may well begin on an old job. A sweep *)
(* measures every age against the moment it began.                         *)
(***************************************************************************)
EXTENDS Ingest

VARIABLES
  sweep,   \* volatile: the sweep in progress
  old      \* jobs with updated_at < now - ORPHAN_MS

sweepVars == <<vars, sweep, old>>

SweepOff == [pc |-> "off", known |-> {}, orphans |-> {}]

SweepRec == [pc : {"off", "query", "fail"}, known : SUBSET Jobs, orphans : SUBSET Jobs]

(* The kick of one user: prune, arm the alarm, report. *)
SweepKick ==
  /\ sweep.pc = "off"
  /\ Kick
  /\ sweep' = [SweepOff EXCEPT !.pc = "query", !.known = KnownJobs]
  /\ UNCHANGED <<req, old>>

(* The second query, after the kick: which unfinished jobs are orphans? *)
SweepQuery ==
  /\ sweep.pc = "query"
  /\ sweep' = [sweep EXCEPT !.pc = "fail",
                            !.orphans = {j \in old \ sweep.known : Unfinished(job[j])}]
  /\ UNCHANGED <<vars, old>>

(* updateMemoryJob: the orphan's row is failed, with no condition on what it *)
(* has become since.                                                         *)
SweepFail(j) ==
  /\ sweep.pc = "fail" /\ j \in sweep.orphans
  /\ job' = [job EXCEPT ![j].status = "failed"]
  /\ sweep' = [sweep EXCEPT !.orphans = @ \ {j}]
  /\ old' = old \ {j}
  /\ UNCHANGED <<run, looked, announced, chunkVars, queueVars, marker, lease, alarm, call,
                 drain, faults, cut, req>>

SweepEnds ==
  /\ sweep.pc = "fail" /\ sweep.orphans = {}
  /\ sweep' = SweepOff
  /\ UNCHANGED <<vars, old>>

(* A failed D1 or RPC call ends the work for this user. *)
SweepFault ==
  /\ sweep.pc # "off"
  /\ Fault
  /\ sweep' = SweepOff
  /\ UNCHANGED <<d1Vars, chunkVars, queueVars, marker, lease, alarm, call, drain, cut, req, old>>

(* A request, or the object behind a request that has died, is at work. *)
InFlight(j) ==
  \/ \E r \in Requests :
       /\ ReqJob[r] = j
       /\ req[r].pc \in {"reopen", "claim", "conflict", "source", "handoff", "wait"}
  \/ \E g \in Generations : call[<<j, g>>] # "off"

JobAges(j) ==
  /\ sweep.pc = "off"
  /\ Unfinished(job[j]) /\ j \notin old /\ ~InFlight(j)
  /\ old' = old \union {j}
  /\ UNCHANGED <<vars, sweep>>

(* Every write of a row renews its updated_at. *)
Renew == old' = {j \in old : job'[j] = job[j]}

SweepInit == Init /\ sweep = SweepOff /\ old = {}

SweepStep == SweepKick \/ SweepQuery \/ (\E j \in Jobs : SweepFail(j)) \/ SweepEnds

SweepNext ==
  \/ Next /\ Renew /\ UNCHANGED sweep
  \/ SweepStep \/ SweepFault
  \/ \E j \in Jobs : JobAges(j)

(* The runtime finishes what it runs, the cron starts sweeps, and time       *)
(* passes: a sweep lasts seconds and starts every few minutes, so a job that *)
(* is left alone again and again grows old between two sweeps.               *)
SweepFairness ==
  /\ ObjectFairness
  /\ \A r \in Requests : WF_vars(RequestStep(r))
  /\ \A h \in Handoffs : WF_vars(Deliver(h)) /\ WF_vars(ByObject(HandoffStep(h)))
  /\ WF_sweepVars(SweepStep)
  /\ \A j \in Jobs : SF_sweepVars(JobAges(j))

SweepSpec     == SweepInit /\ [][SweepNext]_sweepVars
FairSweepSpec == SweepSpec /\ SweepFairness
---------------------------------------------------------------------------
(* The sweep fails a job only when the object has no work for it: "there is  *)
(* no window where live work looks orphaned" (sweep.js).                     *)
OrphansHaveNoWork ==
  [][\A j \in Jobs : SweepFail(j) /\ job'[j] # job[j] => j \notin KnownJobs]_sweepVars

(* The sweep never overwrites a verdict that the queue has reached. *)
SweepKeepsVerdicts ==
  [][\A j \in Jobs : SweepFail(j) => ~Terminal(job[j])]_sweepVars

(* Accepted in is settled out: every job whose source is preserved gets a    *)
(* verdict, from the queue or, when its work is lost, from the sweep         *)
(* ("accepted-in == settled-out", sweep.spec.js; runReconciliationSweep).    *)
AcceptedInSettledOut ==
  \A j \in Jobs : Unfinished(job[j]) ~> ~Unfinished(job[j])
=============================================================================
