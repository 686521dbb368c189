--------------------------- MODULE ProjectLifecycle ---------------------------
(***************************************************************************)
(* One managed project and the lifecycle operations over it: archive,      *)
(* restore, memory purge and deletion (src/lib/project_lifecycle.js).      *)
(*                                                                         *)
(* An operation is previewed, confirmed, recorded as a durable run and     *)
(* then driven in steps by whoever holds the run's lease: the request that *)
(* asked for it, a poll, or the cron.  A step loads the project, does its  *)
(* work in the database and saves the run by compare-and-swap; a driver    *)
(* may die between any two of these.  Beside the runs, writers accept,     *)
(* extract and commit memory in the project's spaces, each behind its own  *)
(* guard, and an ownership transfer may move the project's epoch.          *)
(***************************************************************************)
EXTENDS Naturals, FiniteSets

CONSTANTS
    Requests,     \* calls of the execute door, one idempotency key each
    Writes,       \* accepted saves
    Spaces,       \* memory spaces, in the order of the inventory
    Drivers,      \* isolates that may drive a run
    SlowDrivers,  \* may one step outlast the driver's lease?
    Foreign,      \* may the inventory refuse a space it finds?
    Large,        \* may a run need more steps than MAX_RUN_ATTEMPTS?
    MaxFaults,    \* deaths of a driver and retryable failures of a step
    MaxBumps,     \* ownership transfers
    MaxLate,      \* rows that land in a space after its sweep
    MaxTries      \* rounds of one space before it is given up

ASSUME LifecycleConstants ==
    /\ Spaces \subseteq Nat
    /\ {SlowDrivers, Foreign, Large} \subseteq BOOLEAN
    /\ {MaxFaults, MaxBumps, MaxLate, MaxTries} \subseteq Nat

VARIABLES
    project,      \* the row of managed_projects
    registry,     \* project_memory_spaces
    ask,          \* per request: what it has read, and its confirmation
    run,          \* project_lifecycle_runs
    lease,        \* driver_lease_until, as the driver it belongs to
    drv,          \* per driver: where it is and what it carries
    wr,           \* per save: its job row, queue entry, run and memory
    barred,       \* saves at or before the deletion barrier of their space
    late,         \* spaces with a row that no save owns
    faults, bumps, lates,
    purged,       \* history: saves accepted before a finished erasure
    ended         \* history: runs whose last transition of the project took effect

vars == <<project, registry, ask, run, lease, drv, wr, barred, late, lates, faults, bumps, purged, ended>>
books == <<wr, barred, late, lates>>
history == <<purged, ended>>

-----------------------------------------------------------------------------
Actions == {"memory_purge", "project_delete", "archive", "restore"}
Erasing == {"memory_purge", "project_delete"}
ActiveRun == {"accepted", "running", "verifying", "failed_retryable"}
TerminalRun == {"completed", "failed_terminal", "cancelled"}

\* The state an operation holds the project in while it runs.
Fence == [memory_purge |-> "purging_memory", project_delete |-> "deleting",
          archive |-> "archiving", restore |-> "restoring"]
Fenced == {Fence[a] : a \in Actions}
Erasure == {Fence[a] : a \in Erasing}

\* SOURCE_STATES: where an operation may start.  An absent lifecycle_state reads as
\* the status.
StartsFrom(a) ==
    CASE a \in Erasing -> {"active", "archived"}
      [] a = "archive" -> {"active"}
      [] a = "restore" -> {"archived"}

Phases == {"pending", "inventory", "cancel_work", "quiesce_stale", "spaces", "verify",
           "reactivate", "reopen", "control_plane", "tombstone", "done"}

NoRun == [st |-> "none", phase |-> "pending", epoch |-> 0,
          spaces |-> {}, left |-> {}, sub |-> "cancel", tries |-> 0, spent |-> FALSE]
\* A lease is a driver's, or nobody's.
NoDriver == "nobody"
ASSUME DriverAssumption == NoDriver \notin Drivers
Idle == [at |-> "idle"]

Active == {r \in Requests : run[r].st \in ActiveRun}

\* The space a run works on: the first of those it has left.
IsFirst(s, S) == s \in S /\ \A t \in S : s <= t

In(s) == {w \in Writes : wr[w].at # "none" /\ wr[w].space = s}
Open(s) == {w \in In(s) : wr[w].job = "open"}
Holds(s) == s \in late \/ \E w \in In(s) : wr[w].at = "stored"

-----------------------------------------------------------------------------
LifecycleInit ==
    /\ project \in {[state |-> s, epoch |-> 0] : s \in {"active", "archived"}}
    /\ registry \in SUBSET Spaces
    /\ ask = [r \in Requests |-> [st |-> "none", act |-> "archive", epoch |-> 0]]
    /\ run = [r \in Requests |-> NoRun]
    /\ lease = [r \in Requests |-> NoDriver]
    /\ drv = [d \in Drivers |-> Idle]
    /\ wr = [w \in Writes |-> [at |-> "none", job |-> "none", space |-> 0]]
    /\ barred = {} /\ late = {}
    /\ faults = 0 /\ bumps = 0 /\ lates = 0
    /\ purged = {} /\ ended = {}

-----------------------------------------------------------------------------
(* The requests *)

\* A preview of an erasure mints a confirmation for the epoch it has read; the other
\* operations read the project when they are asked for.
Preview(r) ==
    /\ ask[r].st = "none"
    /\ \E a \in Actions :
        /\ project.state \in StartsFrom(a)
        /\ a \in Erasing => Active = {}
        /\ ask' = [ask EXCEPT ![r] = [st |-> IF a \in Erasing THEN "previewed" ELSE "confirmed",
                                      act |-> a, epoch |-> project.epoch]]
    /\ UNCHANGED <<project, registry, run, lease, drv, books, faults, bumps, history>>

\* The confirmation is consumed if the project is still as it was previewed.
Confirm(r) ==
    /\ ask[r].st = "previewed"
    /\ ask' = [ask EXCEPT ![r].st =
                 IF project.epoch = ask[r].epoch /\ project.state \in StartsFrom(ask[r].act)
                 THEN "confirmed" ELSE "refused"]
    /\ UNCHANGED <<project, registry, run, lease, drv, books, faults, bumps, history>>

\* The run is inserted unless the project has one that is not over.
InsertRun(r) ==
    /\ ask[r].st = "confirmed"
    /\ IF Active = {}
       THEN /\ run' = [run EXCEPT ![r].st = "accepted", ![r].epoch = ask[r].epoch + 1]
            /\ ask' = [ask EXCEPT ![r].st = "accepted"]
       ELSE /\ ask' = [ask EXCEPT ![r].st = "refused"]
            /\ UNCHANGED run
    /\ UNCHANGED <<project, registry, lease, drv, books, faults, bumps, history>>

\* A run may be cancelled until its first step has been saved.
Cancel(r) ==
    /\ run[r].st = "accepted" /\ run[r].phase = "pending"
    /\ run' = [run EXCEPT ![r].st = "cancelled"]
    /\ UNCHANGED <<project, registry, ask, lease, drv, books, faults, bumps, history>>

\* The retry door and the cron take a run up again that failed for now.
Resume(r) ==
    /\ run[r].st = "failed_retryable"
    /\ run' = [run EXCEPT ![r].st = IF run[r].phase = "verify" THEN "verifying" ELSE "running"]
    /\ UNCHANGED <<project, registry, ask, lease, drv, books, faults, bumps, history>>

\* An ownership transfer moves the epoch of an active project.
Transfer ==
    /\ project.state = "active" /\ bumps < MaxBumps
    /\ project' = [project EXCEPT !.epoch = @ + 1]
    /\ bumps' = bumps + 1
    /\ UNCHANGED <<registry, ask, run, lease, drv, books, faults, history>>

-----------------------------------------------------------------------------
(* The writers *)

\* A save is accepted, and its space registered, while the project is active.
Accept(w) ==
    /\ wr[w].at = "none" /\ project.state = "active"
    /\ \E s \in Spaces :
        /\ wr' = [wr EXCEPT ![w] = [at |-> "queued", job |-> "open", space |-> s]]
        /\ registry' = registry \cup {s}
    /\ UNCHANGED <<project, ask, run, lease, drv, barred, late, lates, faults, bumps, history>>

\* A drain takes the entry; one of a project that is not active clears the object.
Start(w) ==
    /\ wr[w].at = "queued"
    /\ wr' = IF project.state # "active"
             THEN [v \in Writes |-> IF wr[v].at = "queued" /\ wr[v].space = wr[w].space
                                    THEN [wr[v] EXCEPT !.at = "gone"] ELSE wr[v]]
             ELSE [wr EXCEPT ![w].at = IF wr[w].job = "open" THEN "started" ELSE "gone"]
    /\ UNCHANGED <<project, registry, ask, run, lease, drv, barred, late, lates, faults, bumps, history>>

\* The claim of the extraction run is guarded by the project.
Claim(w) ==
    /\ wr[w].at = "started"
    /\ wr' = [wr EXCEPT ![w].at = IF project.state = "active" THEN "claimed" ELSE "gone"]
    /\ UNCHANGED <<project, registry, ask, run, lease, drv, barred, late, lates, faults, bumps, history>>

(* Mutant: the commit asks for an active project only. *)
CommittableWhenActive(w) == project.state = "active"
\* The fences of the commit batch.
Committable(w) == project.state = "active" /\ w \notin barred

\* The commit is one batch: the project is active, the run has not been cancelled,
\* and no deletion barrier covers the acceptance.
Commit(w) ==
    /\ wr[w].at = "claimed"
    /\ wr' = [wr EXCEPT ![w].at = IF Committable(w) THEN "stored" ELSE "gone",
                         ![w].job = IF Committable(w) /\ @ = "open" THEN "done" ELSE @]
    /\ UNCHANGED <<project, registry, ask, run, lease, drv, barred, late, lates, faults, bumps, history>>

\* The settlement of earlier work leaves a row in a swept space.
LateRow(s) ==
    /\ s \in registry \ late /\ lates < MaxLate
    /\ late' = late \cup {s}
    /\ lates' = lates + 1
    /\ UNCHANGED <<project, registry, ask, run, lease, drv, wr, barred, faults, bumps, history>>

-----------------------------------------------------------------------------
(* The drivers *)

(* Mutant: a lease is only ever released. *)
LapsedNever(r) == lease[r] = NoDriver
\* The lease of a driver that is gone expires; that of a live one only if a step may
\* last longer.
Lapsed(r) ==
    lease[r] # NoDriver /\ ~SlowDrivers /\ drv[lease[r]].at # "idle"
        => drv[lease[r]].run # r

\* Take the lease and load the run.
Drive(d, r) ==
    /\ drv[d] = Idle /\ run[r].st \in ActiveRun \ {"failed_retryable"} /\ Lapsed(r)
    /\ lease' = [lease EXCEPT ![r] = d]
    /\ drv' = [drv EXCEPT ![d] = [at |-> "claimed", run |-> r, seen |-> run[r]]]
    /\ UNCHANGED <<project, registry, ask, run, books, faults, bumps, history>>

\* The driver has a run that is neither over nor failed for now.
Drives(d) ==
    drv[d].at \in {"claimed", "ready"} /\ drv[d].seen.st \in ActiveRun \ {"failed_retryable"}

\* Load the project for the next step; every driver takes one at least.
Load(d) ==
    /\ Drives(d) /\ ~drv[d].seen.spent
    /\ drv' = [drv EXCEPT ![d] = [at |-> "loaded", run |-> @.run, seen |-> @.seen,
                                  epoch |-> project.epoch]]
    /\ UNCHANGED <<project, registry, ask, run, lease, books, faults, bumps, history>>

\* The run is over, failed for now, or the time of this driver is up.
Release(d) ==
    /\ drv[d].at = "ready"
    /\ drv' = [drv EXCEPT ![d] = Idle]
    /\ lease' = [lease EXCEPT ![drv[d].run] = IF @ = d THEN NoDriver ELSE @]
    /\ UNCHANGED <<project, registry, ask, run, books, faults, bumps, history>>

Die(d) ==
    /\ drv[d] # Idle /\ faults < MaxFaults
    /\ drv' = [drv EXCEPT ![d] = Idle]
    /\ faults' = faults + 1
    /\ UNCHANGED <<project, registry, ask, run, lease, books, bumps, history>>

\* saveRun: compare-and-swap on what the driver has loaded, the count of attempts
\* excepted; a driver that loses loads the run again.
Save(d) ==
    LET r == drv[d].run
        won == [run[r] EXCEPT !.spent = drv[d].seen.spent] = drv[d].seen
    IN  /\ drv[d].at = "worked"
        /\ run' = IF won THEN [run EXCEPT ![r] = drv[d].next] ELSE run
        /\ drv' = [drv EXCEPT ![d] = [at |-> "ready", run |-> r, seen |-> run'[r]]]
        /\ UNCHANGED <<project, registry, ask, lease, books, faults, bumps, history>>

\* The work of a step is done; what remains is to save next.
Worked(d, next) ==
    drv' = [drv EXCEPT ![d] = [at |-> "worked", run |-> @.run, seen |-> @.seen, next |-> next]]

-----------------------------------------------------------------------------
(* The steps.  Each works on the run as loaded, seen, and the epoch as loaded. *)

Seen(d) == drv[d].seen
Act(d) == ask[drv[d].run].act
Failed(s) == [s EXCEPT !.st = "failed_retryable"]
Terminal(s) == [s EXCEPT !.st = "failed_terminal"]
Done(s) == [s EXCEPT !.st = "completed", !.phase = "done"]

\* A step of a run that is past its fence, in the given phase.
At(d, phase) ==
    /\ drv[d].at = "loaded" /\ Seen(d).phase = phase
    /\ phase # "pending" => drv[d].epoch = Seen(d).epoch

(* Mutant: the transition looks at the state only. *)
MovesFrom(from, epoch) == project.state \in from
\* Move the project from one state to another under the run's epoch.
Moves(from, epoch) == project.state \in from /\ project.epoch = epoch

\* The fence of this run stands already: its last driver was lost before the save.
Stands(a, epoch) == project = [state |-> Fence[a], epoch |-> epoch]

FenceProject(d) ==
    LET s == Seen(d)
        fenced == [s EXCEPT !.st = "running", !.phase = "inventory"]
    IN  /\ At(d, "pending")
        /\ \/ /\ Moves(StartsFrom(Act(d)), s.epoch - 1)
              /\ project' = [state |-> Fence[Act(d)], epoch |-> s.epoch]
              /\ Worked(d, fenced)
           \/ /\ ~Moves(StartsFrom(Act(d)), s.epoch - 1)
              /\ Worked(d, IF Stands(Act(d), s.epoch) THEN fenced ELSE Terminal(s))
              /\ UNCHANGED project
        /\ UNCHANGED <<registry, ask, run, lease, books, faults, bumps, history>>

\* A newer operation has moved the epoch on.
Superseded(d) ==
    /\ drv[d].at = "loaded" /\ Seen(d).phase # "pending" /\ drv[d].epoch # Seen(d).epoch
    /\ Worked(d, Terminal(Seen(d)))
    /\ UNCHANGED <<project, registry, ask, run, lease, books, faults, bumps, history>>

\* The coordinator, the vector store or a provider call in flight makes the step fail
\* before it has done its work, or after.
Retryable(d) ==
    /\ drv[d].at \in {"loaded", "worked"} /\ faults < MaxFaults
    /\ Worked(d, Failed(Seen(d)))
    /\ faults' = faults + 1
    /\ UNCHANGED <<project, registry, ask, run, lease, books, bumps, history>>

\* Every saved step counts as an attempt; a run that has used up its attempts fails for
\* now, whoever drives it.
Exhausted(d) ==
    /\ Drives(d) /\ (Large \/ drv[d].seen.spent)
    /\ Worked(d, [Failed(Seen(d)) EXCEPT !.spent = TRUE])
    /\ UNCHANGED <<project, registry, ask, run, lease, books, faults, bumps, history>>

(* Mutant: the inventory is taken from what is stored. *)
DiscoveredStored == {x \in registry : Holds(x)}
\* discoverProjectMemorySpaces: the registry, checked against the tables.
Discovered == registry

\* The spaces are frozen: a space is registered only while the project is active.
Inventory(d) ==
    LET s == Seen(d)
        phase == CASE Act(d) = "archive" -> "cancel_work"
                   [] Act(d) = "restore" -> "quiesce_stale"
                   [] OTHER -> "spaces"
    IN  /\ At(d, "inventory")
        /\ \/ Worked(d, [s EXCEPT !.phase = phase, !.spaces = Discovered, !.left = Discovered,
                                  !.sub = "cancel"])
           \/ Foreign /\ Worked(d, Terminal(s))
        /\ UNCHANGED <<project, registry, ask, run, lease, books, faults, bumps, history>>

\* cancelSpaceWork, and with it resetSpaceCoordinator where reset is set.
Cancelled(s, reset) ==
    [w \in Writes |->
        IF w \notin In(s) THEN wr[w]
        ELSE [wr[w] EXCEPT !.job = IF @ = "open" THEN "failed" ELSE @,
                           !.at = IF @ = "claimed" \/ (reset /\ @ = "queued") THEN "gone" ELSE @]]

\* Archive and restore settle the work of every space.
Quiesce(d) ==
    LET s == Seen(d)
    IN  /\ At(d, "cancel_work") \/ At(d, "quiesce_stale")
        /\ \/ /\ s.left = {}
              /\ Worked(d, [s EXCEPT !.st = "verifying",
                                     !.phase = IF @ = "cancel_work" THEN "verify" ELSE "reactivate"])
              /\ UNCHANGED wr
           \/ \E x \in Spaces :
                /\ IsFirst(x, s.left)
                /\ wr' = Cancelled(x, TRUE)
                /\ Worked(d, [s EXCEPT !.left = @ \ {x}])
        /\ UNCHANGED <<project, registry, ask, run, lease, barred, late, lates, faults, bumps, history>>

\* The archive is over when no job of its spaces is open.
VerifyArchive(d) ==
    LET s == Seen(d)
        moves == Moves({"archiving"}, s.epoch)
    IN  /\ At(d, "verify") /\ Act(d) = "archive"
        /\ \/ /\ \E x \in s.spaces : Open(x) # {}
              /\ Worked(d, [s EXCEPT !.phase = "cancel_work", !.left = s.spaces])
              /\ UNCHANGED <<project, ended>>
           \/ /\ \A x \in s.spaces : Open(x) = {}
              /\ project' = IF moves THEN [project EXCEPT !.state = "archived"] ELSE project
              /\ ended' = IF moves THEN ended \cup {drv[d].run} ELSE ended
              /\ Worked(d, IF moves THEN Done(s) ELSE Terminal(s))
        /\ UNCHANGED <<registry, ask, run, lease, books, faults, bumps, purged>>

\* Restore and purge make the project active again, a deletion ends it, each in a
\* fresh epoch.
Finish(d, phase, to) ==
    LET moves == Moves({Fence[Act(d)]}, Seen(d).epoch)
        erased == Act(d) \in Erasing /\ moves
    IN  /\ At(d, phase)
        /\ project' = IF moves THEN [state |-> to, epoch |-> project.epoch + 1] ELSE project
        /\ ended' = IF moves THEN ended \cup {drv[d].run} ELSE ended
        /\ purged' = IF erased THEN {w \in Writes : wr[w].at # "none"} ELSE purged
        /\ UNCHANGED <<ask, run, lease, books, faults, bumps>>

Reopens(d, phase) ==
    /\ Finish(d, phase, "active")
    /\ Worked(d, IF project' # project THEN Done(Seen(d)) ELSE Terminal(Seen(d)))
    /\ UNCHANGED registry

Reactivate(d) == Reopens(d, "reactivate")
Reopen(d) == Reopens(d, "reopen")

\* The registry goes with the last step of a deletion, which looks at the state that
\* results and not at its own part in it.
Tombstone(d) ==
    /\ Finish(d, "tombstone", "deleted")
    /\ Worked(d, IF project'.state = "deleted" THEN Done(Seen(d)) ELSE Terminal(Seen(d)))
    /\ registry' = {}

(* Mutant: the barrier covers what is stored. *)
BarrierOverStored(x) == {w \in In(x) : wr[w].at = "stored"}
\* What a deletion barrier of the space covers from now on.
Barrier(x) == In(x)

\* One space of an erasure: cancel, erase behind a barrier, sweep, count what is left.
\* The erasure of a space arms the barrier before it removes anything and resets the
\* object; the sweep removes every row of the space.
EraseSpace(d) ==
    LET s == Seen(d)
        gone(x) == [w \in Writes |-> IF w \in In(x) /\ wr[w].at = "stored"
                                     THEN [wr[w] EXCEPT !.at = "gone"]
                                     ELSE Cancelled(x, TRUE)[w]]
    IN  /\ At(d, "spaces")
        /\ \E x \in Spaces :
            /\ IsFirst(x, s.left)
            /\ \/ /\ s.sub = "cancel"
                  /\ wr' = Cancelled(x, FALSE)
                  /\ Worked(d, [s EXCEPT !.sub = "erase"])
                  /\ UNCHANGED <<barred, late>>
               \/ /\ s.sub = "erase"
                  /\ barred' = barred \cup Barrier(x)
                  /\ wr' = gone(x)
                  /\ Worked(d, [s EXCEPT !.sub = "sweep"])
                  /\ UNCHANGED late
               \/ /\ s.sub = "sweep"
                  /\ wr' = [w \in Writes |-> IF w \in In(x) /\ wr[w].at = "stored"
                                             THEN [wr[w] EXCEPT !.at = "gone"] ELSE wr[w]]
                  /\ late' = late \ {x}
                  /\ Worked(d, [s EXCEPT !.sub = "residual"])
                  /\ UNCHANGED barred
               \/ /\ s.sub = "residual" /\ Holds(x)
                  /\ Worked(d, IF s.tries < MaxTries
                               THEN [s EXCEPT !.sub = "erase", !.tries = @ + 1] ELSE Failed(s))
                  /\ UNCHANGED <<wr, barred, late>>
               \/ /\ s.sub = "residual" /\ ~Holds(x)
                  /\ wr' = [w \in Writes |-> IF w \in In(x) /\ wr[w].at = "queued"
                                             THEN [wr[w] EXCEPT !.at = "gone"] ELSE wr[w]]
                  /\ Worked(d, [s EXCEPT !.left = @ \ {x}, !.sub = "cancel", !.tries = 0])
                  /\ UNCHANGED <<barred, late>>
        /\ UNCHANGED <<project, registry, ask, run, lease, lates, faults, bumps, history>>

SpacesDone(d) ==
    /\ At(d, "spaces") /\ Seen(d).left = {}
    /\ Worked(d, [Seen(d) EXCEPT !.st = "verifying", !.phase = "verify"])
    /\ UNCHANGED <<project, registry, ask, run, lease, books, faults, bumps, history>>

\* Every space is counted once more; from the first that holds anything, the spaces
\* are worked through again.
VerifyErased(d) ==
    LET s == Seen(d)
        dirty == {x \in s.spaces : Holds(x)}
    IN  /\ At(d, "verify") /\ Act(d) \in Erasing
        /\ \/ \E x \in Spaces :
                /\ IsFirst(x, dirty)
                /\ Worked(d, [s EXCEPT !.st = "running", !.phase = "spaces", !.sub = "erase",
                                       !.left = {y \in s.spaces : x <= y}])
           \/ /\ dirty = {}
              /\ Worked(d, [s EXCEPT !.phase = IF Act(d) = "memory_purge"
                                               THEN "reopen" ELSE "control_plane"])
        /\ UNCHANGED <<project, registry, ask, run, lease, books, faults, bumps, history>>

\* Keys, grants, members and the confirmations of the project are removed.
ControlPlane(d) ==
    /\ At(d, "control_plane")
    /\ ask' = [r \in Requests |-> IF ask[r].st = "previewed"
                                  THEN [ask[r] EXCEPT !.st = "refused"] ELSE ask[r]]
    /\ Worked(d, [Seen(d) EXCEPT !.phase = "tombstone"])
    /\ UNCHANGED <<project, registry, run, lease, books, faults, bumps, history>>

Steps(d) ==
    \/ FenceProject(d) \/ Superseded(d) \/ Exhausted(d) \/ Inventory(d) \/ Quiesce(d) \/ VerifyArchive(d)
    \/ Reactivate(d) \/ EraseSpace(d) \/ SpacesDone(d) \/ VerifyErased(d) \/ Reopen(d)
    \/ ControlPlane(d) \/ Tombstone(d)

LifecycleNext ==
    \/ \E r \in Requests :
        Preview(r) \/ Confirm(r) \/ InsertRun(r) \/ Cancel(r) \/ Resume(r)
    \/ Transfer
    \/ \E w \in Writes : Accept(w) \/ Start(w) \/ Claim(w) \/ Commit(w)
    \/ \E s \in Spaces : LateRow(s)
    \/ \E d \in Drivers :
        \/ \E r \in Requests : Drive(d, r)
        \/ Load(d) \/ Release(d) \/ Die(d) \/ Save(d) \/ Steps(d) \/ Retryable(d)

\* The cron drives runs that stand and resumes those that failed for now; a driver
\* that lives goes on with its step.
LifecycleSpec ==
    /\ LifecycleInit /\ [][LifecycleNext]_vars
    /\ \A d \in Drivers : WF_vars(Load(d) \/ Save(d) \/ Steps(d))
    /\ \A d \in Drivers : WF_vars(Release(d) /\ drv[d].seen.st \notin ActiveRun \ {"failed_retryable"})
    /\ \A r \in Requests : WF_vars(Resume(r)) /\ WF_vars(\E d \in Drivers : Drive(d, r))
-----------------------------------------------------------------------------
RunRecords ==
    [st: {"none"} \cup ActiveRun \cup TerminalRun, phase: Phases, epoch: Nat,
     spaces: SUBSET Spaces, left: SUBSET Spaces,
     sub: {"cancel", "erase", "sweep", "residual"}, tries: 0..MaxTries, spent: BOOLEAN]

DriverRecords ==
    {Idle} \cup [at: {"claimed", "ready"}, run: Requests, seen: RunRecords]
    \cup [at: {"loaded"}, run: Requests, seen: RunRecords, epoch: Nat]
    \cup [at: {"worked"}, run: Requests, seen: RunRecords, next: RunRecords]

\* Every variable has its type.
LifecycleTypeOK ==
    /\ project \in [state: {"active", "archived", "deleted"} \cup Fenced, epoch: Nat]
    /\ registry \subseteq Spaces
    /\ ask \in [Requests -> [st: {"none", "previewed", "confirmed", "accepted", "refused"},
                             act: Actions, epoch: Nat]]
    /\ run \in [Requests -> RunRecords]
    /\ lease \in [Requests -> Drivers \cup {NoDriver}]
    /\ drv \in [Drivers -> DriverRecords]
    /\ wr \in [Writes -> [at: {"none", "queued", "started", "claimed", "stored", "gone"},
                          job: {"none", "open", "failed", "done"}, space: Spaces \cup {0}]]
    /\ barred \subseteq Writes /\ late \subseteq Spaces
    /\ {faults, bumps, lates} \subseteq Nat
    /\ purged \subseteq Writes /\ ended \subseteq Requests

\* Memory accepted before a finished purge or deletion is not there, and no save of
\* that time that is still in flight brings it back when the project is active again.
PurgedStaysPurged == \A w \in purged : wr[w].at # "stored"

\* The spaces an erasure is through with.
Swept(s) == IF s.phase = "spaces" THEN s.spaces \ s.left ELSE s.spaces
\* The run is past its inventory and its fence stands.
Works(s, p) == s.phase \notin {"pending", "inventory", "done"} /\ s.epoch = p.epoch

\* "every step CAS-es the checkpoint, so a lost isolate or a concurrent driver can only
\* repeat idempotent work" (project_lifecycle.js:723).  However its drivers overlap, what
\* the row of an erasure says has been done has been done: no registered space is missing
\* from its inventory, and in a space it is through with nothing is stored and nothing
\* that was accepted can still be committed.
CheckpointHolds ==
    \A r \in Requests : ask[r].act \in Erasing /\ Works(run[r], project) =>
        /\ registry \subseteq run[r].spaces
        /\ \A s \in Swept(run[r]) : \A w \in In(s) : w \in barred /\ wr[w].at # "stored"

\* A project is fenced for an erasure only as it was previewed: whatever has moved its
\* epoch between the preview and the fence, a transfer or another operation, refuses it.
PreviewedIsErased ==
    [][project.state \notin Erasure /\ project'.state \in Erasure
       => \E r \in Requests :
            /\ ask[r].st = "accepted" /\ Fence[ask[r].act] = project'.state
            /\ ask[r].epoch = project.epoch]_vars

\* An archived project has no open job in any of its spaces, also in one that was
\* registered just before the fence.
ArchivedIsQuiet == project.state = "archived" => \A s \in registry : Open(s) = {}

\* "re-checks it before each durable side effect. Stale drivers become terminal no-ops"
\* (project_lifecycle.js:17): memory is removed only while the project is fenced for an
\* erasure, so that nothing saved since is touched for an operation that is over.
ErasedUnderFence ==
    [][\A w \in Writes : wr[w].at = "stored" /\ wr'[w].at # "stored"
                          => project.state \in Erasure]_vars

\* A fence comes down, or its run has failed for good or been cancelled.
Fences(r) == run[r].st # "none" /\ Stands(ask[r].act, run[r].epoch)
FencesEnd == \A r \in Requests : Fences(r) ~> ~Fences(r) \/ run[r].st \in TerminalRun

\* A cancelled run has not fenced the project.
CancelledBeforeFence ==
    \A r \in Requests : run[r].st = "cancelled" => ~Fences(r)

\* An operation whose effect is complete is not recorded as failed.
EndedIsNotFailed == \A r \in ended : run[r].st # "failed_terminal"

\* Work that an archive has cancelled does not reach the memory of the project when it
\* is restored.
FreshWorkOnly == \A w \in Writes : wr[w].at = "stored" => wr[w].job # "failed"
=============================================================================
