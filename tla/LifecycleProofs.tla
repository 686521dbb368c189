--------------------------- MODULE LifecycleProofs ---------------------------
(***************************************************************************)
(* Theorems about ProjectLifecycle for any number of requests, drivers,    *)
(* saves and spaces, with drivers that die, that are only slow, or that    *)
(* work on a run at the same time.  Only the last theorem asks that a step *)
(* does not outlast the lease of its driver.                               *)
(***************************************************************************)
EXTENDS ProjectLifecycle, TLAPS

-----------------------------------------------------------------------------
(* The inductive invariant.  What a run says of its own progress is kept in *)
(* three places: the row, what a driver has loaded, and what it is about to *)
(* save.  Sound is what all of them promise about the project p, the        *)
(* registry g, the saves x and the barriers b, whoever carries them and     *)
(* however old they are.                                                    *)

Covered(S, x, b) == \A w \in Writes : x[w].at # "none" /\ x[w].space \in S => w \in b
Clean(S, x, b) ==
    \A w \in Writes : x[w].at # "none" /\ x[w].space \in S => w \in b /\ x[w].at # "stored"

PhasesOf(a) ==
    {"pending", "inventory", "done"} \cup
        CASE a = "archive" -> {"cancel_work", "verify"}
          [] a = "restore" -> {"quiesce_stale", "reactivate"}
          [] a = "memory_purge" -> {"spaces", "verify", "reopen"}
          [] a = "project_delete" -> {"spaces", "verify", "control_plane", "tombstone"}

First(s) == {y \in Spaces : IsFirst(y, s.left)}

Binds(s, a, p) ==
    /\ s.phase \in PhasesOf(a)
    /\ s.phase # "pending" => s.epoch <= p.epoch
    /\ s.phase # "pending" /\ a = "project_delete" =>
         p.state = "deleted" \/ (p.state = "deleting" /\ p.epoch = s.epoch)

Erases(s, a, p, g, x, b) ==
    a \in Erasing =>
      /\ s.phase \notin {"pending", "done"} /\ s.epoch = p.epoch => p.state = Fence[a]
      /\ Works(s, p) =>
           /\ g \subseteq s.spaces /\ Clean(Swept(s), x, b)
           /\ s.phase = "spaces" /\ s.sub \in {"sweep", "residual"} => Covered(First(s), x, b)

Archives(s, a, p, g) ==
    a = "archive" /\ Works(s, p) /\ p.state = "archiving" => g \subseteq s.spaces

Sound(s, a, p, g, x, b) == Binds(s, a, p) /\ Erases(s, a, p, g, x, b) /\ Archives(s, a, p, g)

Kept(s, a) == Sound(s, a, project, registry, wr, barred)

\* Record s is one of the run of request r: in the epoch after the one the request
\* has read, and true of the project as it is.
Held(r, s) ==
    /\ s \in RunRecords /\ s.st # "none"
    /\ ask[r].st = "accepted" /\ s.epoch = ask[r].epoch + 1
    /\ Kept(s, ask[r].act)

Rows ==
    \A r \in Requests :
        IF run[r].st = "none" THEN run[r].phase = "pending" /\ ask[r].st # "accepted"
                              ELSE Held(r, run[r])

Carried ==
    \A d \in Drivers :
        /\ drv[d].at # "idle" => Held(drv[d].run, drv[d].seen)
        /\ drv[d].at = "worked" => Held(drv[d].run, drv[d].next)

Registered == project.state # "deleted" => \A w \in Writes : wr[w].at # "none" => wr[w].space \in registry
Purged == \A w \in purged : w \in barred /\ wr[w].at \notin {"none", "stored"}

Books == Registered /\ Purged /\ ArchivedIsQuiet

LifecycleInv == LifecycleTypeOK /\ Rows /\ Carried /\ Books

USE LifecycleConstants

-----------------------------------------------------------------------------
(* Constants and records *)

LEMMA Fences4 ==
  /\ Fence["memory_purge"] = "purging_memory" /\ Fence["project_delete"] = "deleting"
  /\ Fence["archive"] = "archiving" /\ Fence["restore"] = "restoring"
BY DEF Fence

LEMMA FenceStates ==
  /\ Fenced = {"purging_memory", "deleting", "archiving", "restoring"}
  /\ Erasure = {"purging_memory", "deleting"}
BY Fences4 DEF Fenced, Erasure, Actions, Erasing

\* What the steps save of a run.
LEMMA RunEnds ==
  ASSUME NEW s \in RunRecords
  PROVE  /\ Failed(s) \in RunRecords /\ Terminal(s) \in RunRecords /\ Done(s) \in RunRecords
         /\ Failed(s).epoch = s.epoch /\ Terminal(s).epoch = s.epoch /\ Done(s).epoch = s.epoch
         /\ Done(s).phase = "done"
         /\ \A t \in {Failed(s), Terminal(s)} :
              /\ t.phase = s.phase /\ t.spaces = s.spaces /\ t.left = s.left /\ t.sub = s.sub
BY DEF RunRecords, Failed, Terminal, Done, ActiveRun, TerminalRun, Phases

LEMMA DriverTypes ==
  ASSUME LifecycleTypeOK, NEW d \in Drivers, drv[d].at # "idle"
  PROVE  /\ drv[d] \in DriverRecords
         /\ drv[d].run \in Requests /\ drv[d].seen \in RunRecords
         /\ drv[d].at \in {"claimed", "ready", "loaded", "worked"}
         /\ drv[d].at = "loaded" => drv[d].epoch \in Nat
         /\ drv[d].at = "worked" => drv[d].next \in RunRecords
<1>1. drv[d] \in DriverRecords
  BY DEF LifecycleTypeOK
<1> QED BY <1>1 DEF DriverRecords, Idle

-----------------------------------------------------------------------------
(* Nothing a step does to the project, the registry, the saves and the      *)
(* barriers takes back what a run relies on.                                *)

Onward(p, g, x, b, p2, g2, x2, b2) ==
    /\ p.epoch <= p2.epoch
    /\ p2.epoch = p.epoch => p2.state = p.state \/ (p.state = "archiving" /\ p2.state = "archived")
    /\ p.state = "deleting" => p2 = p \/ p2.state = "deleted"
    /\ p.state = "deleted" => p2.state = "deleted"
    /\ p.state # "active" =>
         /\ g2 \subseteq g
         /\ \A w \in Writes : x2[w].at # "none" => x[w].at # "none" /\ x2[w].space = x[w].space
    /\ b \subseteq b2
    /\ \A w \in Writes : x2[w].at = "stored" => x[w].at = "stored" \/ w \notin b

Projects == [state: {"active", "archived", "deleted"} \cup Fenced, epoch: Nat]

LEMMA SoundOnward ==
  ASSUME NEW s \in RunRecords, NEW a \in Actions,
         NEW p \in Projects, NEW g, NEW x, NEW b, NEW p2 \in Projects, NEW g2, NEW x2, NEW b2,
         Sound(s, a, p, g, x, b), Onward(p, g, x, b, p2, g2, x2, b2)
  PROVE  Sound(s, a, p2, g2, x2, b2)
<1>1. s.epoch \in Nat /\ p.epoch \in Nat /\ p2.epoch \in Nat
  BY DEF RunRecords, Projects
<1>2. Binds(s, a, p2)
  BY <1>1 DEF Sound, Binds, Onward
<1>3. ASSUME s.phase # "pending", s.epoch = p2.epoch
      PROVE  p.epoch = p2.epoch /\ s.epoch = p.epoch
            /\ (p2.state = p.state \/ (p.state = "archiving" /\ p2.state = "archived"))
  BY <1>1, <1>3 DEF Sound, Binds, Onward
<1>4. ASSUME Works(s, p2), p.state # "active"
      PROVE  /\ Works(s, p)
             /\ g \subseteq s.spaces => g2 \subseteq s.spaces
             /\ \A S : Clean(S, x, b) => Clean(S, x2, b2)
             /\ \A S : Covered(S, x, b) => Covered(S, x2, b2)
  <2>1. Works(s, p)
    BY <1>3, <1>4 DEF Works
  <2>2. /\ g2 \subseteq g
        /\ b \subseteq b2
        /\ \A w \in Writes : x2[w].at # "none" => x[w].at # "none" /\ x2[w].space = x[w].space
        /\ \A w \in Writes : x2[w].at = "stored" => x[w].at = "stored" \/ w \notin b
    BY <1>4 DEF Onward
  <2>3. \A S : Clean(S, x, b) => Clean(S, x2, b2)
    BY <2>2 DEF Clean
  <2>4. \A S : Covered(S, x, b) => Covered(S, x2, b2)
    BY <2>2 DEF Covered
  <2> QED BY <2>1, <2>2, <2>3, <2>4
<1>5. Erases(s, a, p2, g2, x2, b2)
  <2> SUFFICES ASSUME a \in Erasing, s.phase \notin {"pending", "done"}, s.epoch = p2.epoch
               PROVE  /\ p2.state = Fence[a]
                      /\ Works(s, p2) =>
                           /\ g2 \subseteq s.spaces /\ Clean(Swept(s), x2, b2)
                           /\ s.phase = "spaces" /\ s.sub \in {"sweep", "residual"}
                                => Covered(First(s), x2, b2)
    BY DEF Erases, Works
  <2>1. p.state = Fence[a]
    BY <1>3 DEF Sound, Erases
  <2>2. p2.state = p.state /\ p.state # "active"
    BY <1>3, <2>1, Fences4 DEF Erasing
  <2>3. CASE Works(s, p2)
    <3>1. Works(s, p)
      BY <1>4, <2>2, <2>3
    <3>2. /\ g \subseteq s.spaces /\ Clean(Swept(s), x, b)
          /\ s.phase = "spaces" /\ s.sub \in {"sweep", "residual"} => Covered(First(s), x, b)
      BY <3>1 DEF Sound, Erases
    <3> QED BY <1>4, <2>1, <2>2, <2>3, <3>2
  <2> QED BY <2>1, <2>2, <2>3
<1>6. Archives(s, a, p2, g2)
  <2> SUFFICES ASSUME a = "archive", Works(s, p2), p2.state = "archiving"
               PROVE  g2 \subseteq s.spaces
    BY DEF Archives
  <2>1. p.state = "archiving"
    BY <1>3 DEF Works
  <2> QED BY <1>4, <2>1 DEF Sound, Archives
<1> QED BY <1>2, <1>5, <1>6 DEF Sound

Same == UNCHANGED <<project, registry, wr, barred>>
Moved == Onward(project, registry, wr, barred, project', registry', wr', barred')

LEMMA SameMoves ==
  ASSUME LifecycleTypeOK, Same
  PROVE  Moved
BY DEF LifecycleTypeOK, Same, Moved, Onward

\* A request that has a run keeps what it was accepted for.
AskKept == \A r \in Requests : ask[r].st = "accepted" => ask'[r] = ask[r]
NoneAccepted == \A r \in Requests : ask'[r].st = "accepted" => ask[r].st = "accepted"

\* Held in the next state, of a record of this one or of the next.
HeldNext(r, s) ==
    /\ s \in RunRecords /\ s.st # "none"
    /\ ask'[r].st = "accepted" /\ s.epoch = ask'[r].epoch + 1
    /\ Sound(s, ask'[r].act, project', registry', wr', barred')

LEMMA HeldOnward ==
  ASSUME LifecycleTypeOK, project' \in Projects, Moved, AskKept,
         NEW r \in Requests, NEW s, Held(r, s)
  PROVE  HeldNext(r, s)
<1>1. project \in Projects /\ ask[r].act \in Actions
  BY DEF LifecycleTypeOK, Projects
<1>2. s \in RunRecords /\ Kept(s, ask[r].act) /\ ask'[r] = ask[r]
  BY DEF Held, AskKept
<1>3. Sound(s, ask[r].act, project', registry', wr', barred')
  BY <1>1, <1>2, SoundOnward DEF Kept, Moved
<1> QED BY <1>2, <1>3 DEF Held, HeldNext

LEMMA RowsOnward ==
  ASSUME LifecycleTypeOK, project' \in Projects, Moved, AskKept, NoneAccepted, Rows, UNCHANGED run
  PROVE  Rows'
<1> SUFFICES ASSUME NEW r \in Requests
             PROVE  IF run'[r].st = "none" THEN run'[r].phase = "pending" /\ ask'[r].st # "accepted"
                                           ELSE HeldNext(r, run'[r])
  BY DEF Rows, Held, HeldNext, Kept
<1>1. CASE run[r].st = "none"
  BY <1>1 DEF Rows, NoneAccepted
<1>2. CASE run[r].st # "none"
  <2>1. Held(r, run[r])
    BY <1>2 DEF Rows
  <2>2. HeldNext(r, run[r])
    BY <2>1, HeldOnward
  <2> QED BY <1>2, <2>2
<1> QED BY <1>1, <1>2

\* A step of one driver: what the others carry stays, and what it carries is shown.
LEMMA CarriedOnward ==
  ASSUME LifecycleTypeOK, project' \in Projects, Moved, AskKept, Carried, NEW d \in Drivers,
         \A e \in Drivers \ {d} : drv'[e] = drv[e],
         drv'[d].at # "idle" => HeldNext(drv'[d].run, drv'[d].seen),
         drv'[d].at = "worked" => HeldNext(drv'[d].run, drv'[d].next)
  PROVE  Carried'
<1> SUFFICES ASSUME NEW e \in Drivers
             PROVE  /\ drv'[e].at # "idle" => HeldNext(drv'[e].run, drv'[e].seen)
                    /\ drv'[e].at = "worked" => HeldNext(drv'[e].run, drv'[e].next)
  BY DEF Carried, Held, HeldNext, Kept
<1>1. CASE e = d
  BY <1>1
<1>2. CASE e # d
  <2>1. drv'[e] = drv[e]
    BY <1>2
  <2>2. drv[e].at # "idle" => drv[e].run \in Requests /\ Held(drv[e].run, drv[e].seen)
    BY DriverTypes DEF Carried
  <2>3. drv[e].at = "worked" => Held(drv[e].run, drv[e].next)
    BY DEF Carried
  <2>4. drv[e].at # "idle" => HeldNext(drv[e].run, drv[e].seen)
    BY <2>2, HeldOnward
  <2>5. drv[e].at = "worked" => HeldNext(drv[e].run, drv[e].next)
    BY <2>2, <2>3, HeldOnward
  <2> QED BY <2>1, <2>4, <2>5
<1> QED BY <1>1, <1>2

LEMMA AllCarriedOnward ==
  ASSUME LifecycleTypeOK, project' \in Projects, Moved, AskKept, Carried, UNCHANGED drv
  PROVE  Carried'
<1> SUFFICES ASSUME NEW d \in Drivers
             PROVE  /\ drv'[d].at # "idle" => HeldNext(drv'[d].run, drv'[d].seen)
                    /\ drv'[d].at = "worked" => HeldNext(drv'[d].run, drv'[d].next)
  BY DEF Carried, Held, HeldNext, Kept
<1>1. drv'[d] = drv[d]
  OBVIOUS
<1>2. drv[d].at # "idle" => drv[d].run \in Requests /\ Held(drv[d].run, drv[d].seen)
  BY DriverTypes DEF Carried
<1>3. drv[d].at = "worked" => Held(drv[d].run, drv[d].next)
  BY DEF Carried
<1>4. drv[d].at # "idle" => HeldNext(drv[d].run, drv[d].seen)
  BY <1>2, HeldOnward
<1>5. drv[d].at = "worked" => HeldNext(drv[d].run, drv[d].next)
  BY <1>2, <1>3, HeldOnward
<1> QED BY <1>1, <1>4, <1>5

LEMMA BooksSame ==
  ASSUME Books, UNCHANGED <<project, registry, wr, barred, purged>>
  PROVE  Books'
BY DEF Books, Registered, Purged, ArchivedIsQuiet, Open, In

LEMMA AskSame == ASSUME UNCHANGED ask PROVE AskKept /\ NoneAccepted
BY DEF AskKept, NoneAccepted

-----------------------------------------------------------------------------
(* What a step saves *)

LEMMA PendingSound ==
  ASSUME NEW s, s.phase = "pending", NEW a \in Actions, NEW p, NEW g, NEW x, NEW b
  PROVE  Sound(s, a, p, g, x, b)
<1>1. Binds(s, a, p)
  BY DEF Binds, PhasesOf
<1> QED BY <1>1 DEF Sound, Erases, Archives, Works

LEMMA AlikeSound ==
  ASSUME NEW s, NEW t, NEW a, NEW p, NEW g, NEW x, NEW b, Sound(s, a, p, g, x, b),
         t.phase = s.phase, t.epoch = s.epoch, t.spaces = s.spaces, t.left = s.left, t.sub = s.sub
  PROVE  Sound(t, a, p, g, x, b)
BY DEF Sound, Binds, Erases, Archives, Works, Swept, First

LEMMA DoneSound ==
  ASSUME NEW s, NEW t, NEW a, NEW p, NEW g, NEW x, NEW b, Sound(s, a, p, g, x, b),
         s.phase # "pending", t.phase = "done", t.epoch = s.epoch
  PROVE  Sound(t, a, p, g, x, b)
<1>1. Binds(t, a, p)
  BY DEF Sound, Binds, PhasesOf
<1> QED BY <1>1 DEF Sound, Erases, Archives, Works

\* The phases of the operations on the project, and of those on its memory.
LEMMA OnwardSound ==
  ASSUME NEW s, NEW t, NEW a \in Actions, NEW p, NEW g, NEW x, NEW b, Sound(s, a, p, g, x, b),
         s.phase \notin {"pending", "done"}, t.epoch = s.epoch, t.phase # "pending",
         t.phase \in PhasesOf(a), Works(t, p) => g \subseteq t.spaces, a \notin Erasing
  PROVE  Sound(t, a, p, g, x, b)
<1>1. Binds(t, a, p)
  BY DEF Sound, Binds
<1> QED BY <1>1 DEF Sound, Erases, Archives, Works

LEMMA ErasingSound ==
  ASSUME NEW s, NEW t, NEW a \in Erasing, NEW p, NEW g, NEW x, NEW b, Sound(s, a, p, g, x, b),
         s.phase \notin {"pending", "done"}, t.epoch = s.epoch, t.phase # "pending",
         t.phase \in PhasesOf(a),
         Works(t, p) =>
           /\ g \subseteq t.spaces /\ Clean(Swept(t), x, b)
           /\ t.phase = "spaces" /\ t.sub \in {"sweep", "residual"} => Covered(First(t), x, b)
  PROVE  Sound(t, a, p, g, x, b)
<1>1. Binds(t, a, p)
  BY DEF Sound, Binds
<1>2. Erases(t, a, p, g, x, b)
  BY DEF Sound, Erases
<1>3. Archives(t, a, p, g)
  BY DEF Archives, Erasing
<1> QED BY <1>1, <1>2, <1>3 DEF Sound

\* The driver of a step: what it works on, and what it may save.
LEMMA AtWork ==
  ASSUME LifecycleTypeOK, Carried, NEW d \in Drivers, drv[d].at # "idle"
  PROVE  /\ drv[d].run \in Requests /\ Seen(d) \in RunRecords /\ Act(d) \in Actions
         /\ Held(drv[d].run, Seen(d)) /\ Kept(Seen(d), Act(d))
         /\ Seen(d).epoch \in Nat /\ Seen(d).spaces \subseteq Spaces /\ Seen(d).left \subseteq Spaces
<1>1. drv[d].run \in Requests /\ Seen(d) \in RunRecords
  BY DriverTypes DEF Seen
<1>2. Act(d) \in Actions
  BY <1>1 DEF LifecycleTypeOK, Act
<1>3. Held(drv[d].run, Seen(d))
  BY DEF Carried, Seen
<1>4. Kept(Seen(d), Act(d))
  BY <1>3 DEF Held, Act
<1> QED BY <1>1, <1>2, <1>3, <1>4 DEF RunRecords

\* A driver whose record of what is next is true of the project as its step leaves it.
Onto(d, next) ==
    /\ next \in RunRecords /\ next.st # "none" /\ next.epoch = Seen(d).epoch
    /\ Sound(next, Act(d), project', registry', wr', barred')

LEMMA WorkedFields ==
  ASSUME LifecycleTypeOK, NEW d \in Drivers, drv[d].at # "idle", NEW next \in RunRecords,
         Worked(d, next)
  PROVE  /\ drv' \in [Drivers -> DriverRecords]
         /\ drv'[d] = [at |-> "worked", run |-> drv[d].run, seen |-> drv[d].seen, next |-> next]
         /\ \A e \in Drivers \ {d} : drv'[e] = drv[e]
<1> DEFINE new == [at |-> "worked", run |-> drv[d].run, seen |-> drv[d].seen, next |-> next]
<1>1. drv \in [Drivers -> DriverRecords] /\ drv' = [drv EXCEPT ![d] = new]
  BY DEF LifecycleTypeOK, Worked
<1>2. new \in DriverRecords
  BY DriverTypes DEF DriverRecords
<1> HIDE DEF new
<1>3. drv'[d] = new
  BY <1>1
<1> QED BY <1>1, <1>2, <1>3 DEF new

LEMMA WorkKeeps ==
  ASSUME LifecycleTypeOK, Rows, Carried, NEW d \in Drivers, drv[d].at # "idle",
         NEW next, Onto(d, next), Worked(d, next),
         project' \in Projects, Moved, AskKept, NoneAccepted, UNCHANGED run
  PROVE  drv' \in [Drivers -> DriverRecords] /\ Rows' /\ Carried'
<1>1. next \in RunRecords
  BY DEF Onto
<1>2. /\ drv' \in [Drivers -> DriverRecords]
      /\ drv'[d] = [at |-> "worked", run |-> drv[d].run, seen |-> drv[d].seen, next |-> next]
      /\ \A e \in Drivers \ {d} : drv'[e] = drv[e]
  BY <1>1, WorkedFields
<1>3. drv[d].run \in Requests /\ Held(drv[d].run, drv[d].seen)
  BY AtWork DEF Seen
<1>4. HeldNext(drv[d].run, drv[d].seen)
  BY <1>3, HeldOnward
<1>5. ask'[drv[d].run] = ask[drv[d].run]
  BY <1>3 DEF AskKept, Held
<1>6. HeldNext(drv[d].run, next)
  BY <1>3, <1>5 DEF Onto, HeldNext, Held, Act, Seen
<1>7. Carried'
  <2>1. drv'[d].run = drv[d].run /\ drv'[d].seen = drv[d].seen /\ drv'[d].next = next
    BY <1>2
  <2> QED BY <1>2, <1>4, <1>6, <2>1, CarriedOnward
<1> QED BY <1>2, <1>7, RowsOnward

-----------------------------------------------------------------------------
(* The saves *)

\* Work is cancelled, dropped or erased and nothing is added to it.
Quieter ==
    \A w \in Writes :
        /\ wr'[w].space = wr[w].space
        /\ wr'[w].at = "none" <=> wr[w].at = "none"
        /\ wr'[w].at = "stored" => wr[w].at = "stored"
        /\ wr'[w].job = "open" => wr[w].job = "open"

LEMMA QuieterKeeps ==
  ASSUME LifecycleTypeOK, Books, Quieter, UNCHANGED <<project, registry, purged>>, barred \subseteq barred'
  PROVE  Moved /\ Books'
<1>1. Moved
  BY DEF Moved, Onward, Quieter, LifecycleTypeOK
<1>2. Registered' /\ Purged'
  BY DEF Books, Registered, Purged, Quieter, LifecycleTypeOK
<1>3. ArchivedIsQuiet'
  <2> SUFFICES ASSUME project.state = "archived", NEW s \in registry, NEW w \in Open(s)'
               PROVE  FALSE
    BY DEF ArchivedIsQuiet
  <2>1. w \in Open(s)
    BY DEF Open, In, Quieter
  <2> QED BY <2>1 DEF Books, ArchivedIsQuiet
<1> QED BY <1>1, <1>2, <1>3 DEF Books

SaveRecords == [at: {"none", "queued", "started", "claimed", "stored", "gone"},
                job: {"none", "open", "failed", "done"}, space: Spaces \cup {0}]

LEMMA CancelledQuiets ==
  ASSUME LifecycleTypeOK, NEW x \in Spaces, NEW reset \in BOOLEAN
  PROVE  /\ Cancelled(x, reset) \in [Writes -> SaveRecords]
         /\ \A w \in Writes :
              /\ Cancelled(x, reset)[w].space = wr[w].space
              /\ Cancelled(x, reset)[w].at = "none" <=> wr[w].at = "none"
              /\ Cancelled(x, reset)[w].at = "stored" => wr[w].at = "stored"
              /\ Cancelled(x, reset)[w].job = "open" => wr[w].job = "open"
<1> DEFINE cut(w) == [wr[w] EXCEPT !.job = IF @ = "open" THEN "failed" ELSE @,
                                   !.at = IF @ = "claimed" \/ (reset /\ @ = "queued") THEN "gone" ELSE @]
<1>1. \A w \in Writes : wr[w] \in SaveRecords
  BY DEF LifecycleTypeOK, SaveRecords
<1>2. \A w \in Writes :
        /\ cut(w) \in SaveRecords /\ cut(w).space = wr[w].space
        /\ cut(w).at = "none" <=> wr[w].at = "none"
        /\ cut(w).at = "stored" => wr[w].at = "stored"
        /\ cut(w).job = "open" => wr[w].job = "open"
  BY <1>1 DEF SaveRecords
<1>3. Cancelled(x, reset) = [w \in Writes |-> IF w \notin In(x) THEN wr[w] ELSE cut(w)]
  BY DEF Cancelled
<1> HIDE DEF cut
<1> QED BY <1>1, <1>2, <1>3

-----------------------------------------------------------------------------
(* The requests *)

LEMMA SameKeeps ==
  ASSUME LifecycleInv, Same, UNCHANGED purged
  PROVE  Moved /\ Books' /\ project' \in Projects /\ project \in Projects
BY SameMoves, BooksSame DEF LifecycleInv, Same, LifecycleTypeOK, Projects

AskRecords == [st: {"none", "previewed", "confirmed", "accepted", "refused"}, act: Actions, epoch: Nat]

LEMMA RowOnward ==
  ASSUME LifecycleTypeOK, project' \in Projects, Moved, AskKept, Rows, NEW r \in Requests,
         \A q \in Requests \ {r} : run'[q] = run[q] /\ (ask'[q].st = "accepted" => ask[q].st = "accepted"),
         HeldNext(r, run'[r])
  PROVE  Rows'
<1> SUFFICES ASSUME NEW q \in Requests
             PROVE  IF run'[q].st = "none" THEN run'[q].phase = "pending" /\ ask'[q].st # "accepted"
                                           ELSE HeldNext(q, run'[q])
  BY DEF Rows, Held, HeldNext, Kept
<1>1. CASE q = r
  BY <1>1 DEF HeldNext
<1>2. CASE q # r /\ run[q].st = "none"
  BY <1>2 DEF Rows
<1>3. CASE q # r /\ run[q].st # "none"
  <2>1. Held(q, run[q])
    BY <1>3 DEF Rows
  <2>2. HeldNext(q, run[q])
    BY <2>1, HeldOnward
  <2> QED BY <1>3, <2>2
<1> QED BY <1>1, <1>2, <1>3

\* A request that asks: no run is touched.
LEMMA AskingKeeps ==
  ASSUME LifecycleInv, ask' \in [Requests -> AskRecords], AskKept, NoneAccepted,
         UNCHANGED <<project, registry, run, lease, drv, books, faults, bumps, history>>
  PROVE  LifecycleInv'
<1>1. Moved /\ Books' /\ project' \in Projects
  BY SameKeeps DEF Same, books, history
<1>2. Rows' /\ Carried'
  BY <1>1, RowsOnward, AllCarriedOnward DEF LifecycleInv
<1>3. LifecycleTypeOK'
  BY DEF LifecycleInv, LifecycleTypeOK, books, history, AskRecords
<1> QED BY <1>1, <1>2, <1>3 DEF LifecycleInv

LEMMA PreviewKeeps == ASSUME LifecycleInv, NEW r \in Requests, Preview(r) PROVE LifecycleInv'
<1> PICK a \in Actions : ask' = [ask EXCEPT ![r] =
        [st |-> IF a \in Erasing THEN "previewed" ELSE "confirmed", act |-> a, epoch |-> project.epoch]]
  BY DEF Preview
<1>1. ask \in [Requests -> AskRecords] /\ project.epoch \in Nat
  BY DEF LifecycleInv, LifecycleTypeOK, AskRecords
<1>2. [st |-> IF a \in Erasing THEN "previewed" ELSE "confirmed", act |-> a, epoch |-> project.epoch]
        \in AskRecords
  BY <1>1 DEF AskRecords
<1>3. ask' \in [Requests -> AskRecords]
  BY <1>1, <1>2
<1>4. AskKept /\ NoneAccepted
  BY <1>1 DEF Preview, AskKept, NoneAccepted
<1> QED BY <1>3, <1>4, AskingKeeps DEF Preview

LEMMA ConfirmKeeps == ASSUME LifecycleInv, NEW r \in Requests, Confirm(r) PROVE LifecycleInv'
<1> DEFINE st == IF project.epoch = ask[r].epoch /\ project.state \in StartsFrom(ask[r].act)
                 THEN "confirmed" ELSE "refused"
<1>1. ask \in [Requests -> AskRecords] /\ ask' = [ask EXCEPT ![r].st = st]
  BY DEF LifecycleInv, LifecycleTypeOK, AskRecords, Confirm
<1>2. st \in {"confirmed", "refused"}
  OBVIOUS
<1> HIDE DEF st
<1>3. ask' \in [Requests -> AskRecords]
  BY <1>1, <1>2 DEF AskRecords
<1>4. AskKept /\ NoneAccepted
  BY <1>1, <1>2 DEF Confirm, AskKept, NoneAccepted
<1> QED BY <1>3, <1>4, AskingKeeps DEF Confirm

\* A run whose row moves on.
LEMMA RowKeeps ==
  ASSUME LifecycleInv, NEW r \in Requests, NEW t, Held(r, t), run' = [run EXCEPT ![r] = t],
         UNCHANGED <<project, registry, ask, lease, drv, books, faults, bumps, history>>
  PROVE  LifecycleInv'
<1>1. Moved /\ Books' /\ project' \in Projects /\ AskKept /\ NoneAccepted
  BY SameKeeps, AskSame DEF Same, books, history
<1>2. run' \in [Requests -> RunRecords] /\ run'[r] = t
  BY DEF LifecycleInv, LifecycleTypeOK, Held
<1>3. HeldNext(r, run'[r])
  BY <1>1, <1>2, HeldOnward DEF LifecycleInv
<1>4. Rows' /\ Carried'
  BY <1>1, <1>3, RowOnward, AllCarriedOnward DEF LifecycleInv
<1>5. LifecycleTypeOK'
  BY <1>2 DEF LifecycleInv, LifecycleTypeOK, books, history
<1> QED BY <1>1, <1>4, <1>5 DEF LifecycleInv

\* The status alone says nothing of how far a run is.
LEMMA StatusHeld ==
  ASSUME LifecycleTypeOK, NEW r \in Requests, NEW s, Held(r, s),
         NEW st \in (ActiveRun \cup TerminalRun)
  PROVE  Held(r, [s EXCEPT !.st = st])
<1> DEFINE t == [s EXCEPT !.st = st]
<1>1. s \in RunRecords
  BY DEF Held
<1>2. t \in RunRecords /\ t.st = st /\ t.epoch = s.epoch /\ t.phase = s.phase /\ t.spaces = s.spaces
      /\ t.left = s.left /\ t.sub = s.sub
  BY <1>1 DEF RunRecords
<1> HIDE DEF t
<1>3. Kept(t, ask[r].act)
  BY <1>2, AlikeSound DEF Held, Kept
<1>4. st # "none"
  BY DEF ActiveRun, TerminalRun
<1> QED BY <1>2, <1>3, <1>4 DEF Held, t

LEMMA CancelKeeps == ASSUME LifecycleInv, NEW r \in Requests, Cancel(r) PROVE LifecycleInv'
<1>1. Held(r, run[r]) /\ run \in [Requests -> RunRecords]
  BY DEF LifecycleInv, LifecycleTypeOK, Rows, Cancel
<1>2. Held(r, [run[r] EXCEPT !.st = "cancelled"])
  BY <1>1, StatusHeld DEF LifecycleInv, TerminalRun
<1> QED BY <1>1, <1>2, RowKeeps DEF Cancel

LEMMA ResumeKeeps == ASSUME LifecycleInv, NEW r \in Requests, Resume(r) PROVE LifecycleInv'
<1> DEFINE st == IF run[r].phase = "verify" THEN "verifying" ELSE "running"
<1>1. Held(r, run[r]) /\ run \in [Requests -> RunRecords]
  BY DEF LifecycleInv, LifecycleTypeOK, Rows, Resume
<1>2. st \in ActiveRun /\ run' = [run EXCEPT ![r].st = st]
  BY DEF Resume, ActiveRun
<1> HIDE DEF st
<1>3. Held(r, [run[r] EXCEPT !.st = st])
  BY <1>1, <1>2, StatusHeld DEF LifecycleInv
<1> QED BY <1>1, <1>2, <1>3, RowKeeps DEF Resume

LEMMA InsertRunKeeps == ASSUME LifecycleInv, NEW r \in Requests, InsertRun(r) PROVE LifecycleInv'
<1>1. ask \in [Requests -> AskRecords] /\ run \in [Requests -> RunRecords] /\ ask[r].st = "confirmed"
  BY DEF LifecycleInv, LifecycleTypeOK, AskRecords, InsertRun
<1>2. CASE Active = {}
  <2> DEFINE t == [[run[r] EXCEPT !.st = "accepted"] EXCEPT !.epoch = ask[r].epoch + 1]
  <2>1. run[r].phase = "pending" /\ run[r] \in RunRecords /\ ask[r].epoch \in Nat
    BY <1>1 DEF LifecycleInv, Rows, Held, AskRecords
  <2>2. t \in RunRecords /\ t.phase = "pending" /\ t.st = "accepted" /\ t.epoch = ask[r].epoch + 1
    <3> DEFINE e == ask[r].epoch + 1
    <3>1. e \in Nat
      BY <2>1
    <3> HIDE DEF e
    <3>2. [[run[r] EXCEPT !.st = "accepted"] EXCEPT !.epoch = e] \in RunRecords
      BY <2>1, <3>1 DEF RunRecords, ActiveRun
    <3>3. t = [[run[r] EXCEPT !.st = "accepted"] EXCEPT !.epoch = e]
      BY DEF e
    <3>4. t.phase = run[r].phase /\ t.st = "accepted" /\ t.epoch = ask[r].epoch + 1
      BY <2>1 DEF RunRecords
    <3> QED BY <2>1, <3>2, <3>3, <3>4
  <2>3. run' = [run EXCEPT ![r] = t] /\ ask' = [ask EXCEPT ![r].st = "accepted"]
    BY <1>1, <1>2 DEF InsertRun
  <2> HIDE DEF t
  <2>4. Moved /\ Books' /\ project' \in Projects
    BY SameKeeps DEF Same, InsertRun, books, history
  <2>5. ask' \in [Requests -> AskRecords] /\ ask'[r].st = "accepted" /\ ask'[r].epoch = ask[r].epoch
        /\ ask'[r].act \in Actions
    BY <1>1, <2>3 DEF AskRecords
  <2>6. AskKept /\ \A q \in Requests \ {r} : ask'[q] = ask[q] /\ run'[q] = run[q]
    BY <1>1, <2>3 DEF AskKept
  <2>7. run' \in [Requests -> RunRecords] /\ run'[r] = t
    BY <1>1, <2>2, <2>3
  <2>8. HeldNext(r, run'[r])
    BY <2>2, <2>5, <2>7, PendingSound DEF HeldNext
  <2>9. Rows' /\ Carried'
    BY <2>4, <2>6, <2>8, RowOnward, AllCarriedOnward DEF LifecycleInv, InsertRun
  <2>10. LifecycleTypeOK'
    BY <2>5, <2>7 DEF LifecycleInv, LifecycleTypeOK, InsertRun, books, history, AskRecords
  <2> QED BY <2>4, <2>9, <2>10 DEF LifecycleInv
<1>3. CASE Active # {}
  <2>1. ask' = [ask EXCEPT ![r].st = "refused"] /\ UNCHANGED run
    BY <1>3 DEF InsertRun
  <2>2. ask' \in [Requests -> AskRecords] /\ AskKept /\ NoneAccepted
    BY <1>1, <2>1 DEF AskRecords, AskKept, NoneAccepted
  <2> QED BY <2>1, <2>2, AskingKeeps DEF InsertRun
<1> QED BY <1>2, <1>3

LEMMA TransferKeeps == ASSUME LifecycleInv, Transfer PROVE LifecycleInv'
<1>1. project \in Projects /\ project.state = "active" /\ project' = [project EXCEPT !.epoch = @ + 1]
  BY DEF LifecycleInv, LifecycleTypeOK, Projects, Transfer
<1>2. project' \in Projects /\ project'.state = "active" /\ project'.epoch = project.epoch + 1
  BY <1>1 DEF Projects
<1>3. UNCHANGED <<registry, wr, barred, purged, ask, run, drv>>
  BY DEF Transfer, books, history
<1>4. Moved
  BY <1>1, <1>2, <1>3 DEF Moved, Onward, Projects
<1>5. Books'
  BY <1>1, <1>2, <1>3 DEF LifecycleInv, Books, Registered, Purged, ArchivedIsQuiet
<1>6. Rows' /\ Carried'
  BY <1>2, <1>3, <1>4, AskSame, RowsOnward, AllCarriedOnward DEF LifecycleInv
<1>7. LifecycleTypeOK'
  BY <1>2 DEF LifecycleInv, LifecycleTypeOK, Transfer, books, history, Projects
<1> QED BY <1>5, <1>6, <1>7 DEF LifecycleInv

\* A step of a writer that adds nothing.
LEMMA QuietWriter ==
  ASSUME LifecycleInv, Quieter, wr' \in [Writes -> SaveRecords],
         UNCHANGED <<project, registry, ask, run, lease, drv, barred, late, lates, faults, bumps, history>>
  PROVE  LifecycleInv'
<1>1. Moved /\ Books'
  BY QuieterKeeps DEF LifecycleInv, history
<1>2. project' \in Projects
  BY DEF LifecycleInv, LifecycleTypeOK, Projects
<1>3. Rows' /\ Carried'
  BY <1>1, <1>2, AskSame, RowsOnward, AllCarriedOnward DEF LifecycleInv
<1>4. LifecycleTypeOK'
  BY DEF LifecycleInv, LifecycleTypeOK, history, SaveRecords
<1> QED BY <1>1, <1>3, <1>4 DEF LifecycleInv

LEMMA Saves == ASSUME LifecycleInv PROVE wr \in [Writes -> SaveRecords]
BY DEF LifecycleInv, LifecycleTypeOK, SaveRecords

LEMMA AcceptKeeps == ASSUME LifecycleInv, NEW w \in Writes, Accept(w) PROVE LifecycleInv'
<1> PICK s \in Spaces :
      /\ wr' = [wr EXCEPT ![w] = [at |-> "queued", job |-> "open", space |-> s]]
      /\ registry' = registry \cup {s}
  BY DEF Accept
<1> DEFINE new == [at |-> "queued", job |-> "open", space |-> s]
<1>1. project \in Projects /\ project.state = "active" /\ wr[w].at = "none" /\ registry \subseteq Spaces
      /\ UNCHANGED <<project, barred, purged, ask, run, drv>>
  BY DEF LifecycleInv, LifecycleTypeOK, Projects, Accept, history
<1>2. new \in SaveRecords
  BY DEF SaveRecords
<1>3. wr' \in [Writes -> SaveRecords] /\ wr'[w] = new /\ \A v \in Writes \ {w} : wr'[v] = wr[v]
  BY <1>2, Saves
<1>4. Moved
  BY <1>1, <1>3 DEF Moved, Onward, Projects
<1>5. Registered'
  BY <1>1, <1>3 DEF LifecycleInv, Books, Registered
<1>6. Purged' /\ ArchivedIsQuiet'
  BY <1>1, <1>3 DEF LifecycleInv, Books, Purged, ArchivedIsQuiet
<1>7. Rows' /\ Carried'
  BY <1>1, <1>4, AskSame, RowsOnward, AllCarriedOnward DEF LifecycleInv
<1>8. LifecycleTypeOK'
  BY <1>1, <1>3 DEF LifecycleInv, LifecycleTypeOK, Accept, history, SaveRecords
<1> QED BY <1>5, <1>6, <1>7, <1>8 DEF LifecycleInv, Books

LEMMA StartKeeps == ASSUME LifecycleInv, NEW w \in Writes, Start(w) PROVE LifecycleInv'
<1>1. wr \in [Writes -> SaveRecords]
  BY Saves
<1>2. CASE project.state # "active"
  <2> DEFINE drop(v) == [wr[v] EXCEPT !.at = "gone"]
  <2>1. wr' = [v \in Writes |-> IF wr[v].at = "queued" /\ wr[v].space = wr[w].space
                                THEN drop(v) ELSE wr[v]]
    BY <1>2 DEF Start
  <2>2. \A v \in Writes : drop(v) \in SaveRecords /\ drop(v).space = wr[v].space
                         /\ drop(v).at = "gone" /\ drop(v).job = wr[v].job
    BY <1>1 DEF SaveRecords
  <2> HIDE DEF drop
  <2>3. wr' \in [Writes -> SaveRecords]
    BY <1>1, <2>1, <2>2
  <2>4. Quieter
    BY <2>1, <2>2 DEF Quieter
  <2> QED BY <2>3, <2>4, QuietWriter DEF Start
<1>3. CASE project.state = "active"
  <2> DEFINE at == IF wr[w].job = "open" THEN "started" ELSE "gone"
             new == [wr[w] EXCEPT !.at = at]
  <2>1. wr' = [wr EXCEPT ![w] = new] /\ wr[w].at = "queued"
    BY <1>3 DEF Start
  <2>2. new \in SaveRecords /\ new.space = wr[w].space /\ new.at \in {"started", "gone"}
        /\ new.job = wr[w].job
    BY <1>1 DEF SaveRecords
  <2> HIDE DEF new
  <2>3. wr' \in [Writes -> SaveRecords] /\ wr'[w] = new /\ \A v \in Writes \ {w} : wr'[v] = wr[v]
    BY <1>1, <2>1, <2>2
  <2>4. Quieter
    BY <2>1, <2>2, <2>3 DEF Quieter
  <2> QED BY <2>3, <2>4, QuietWriter DEF Start
<1> QED BY <1>2, <1>3

LEMMA ClaimKeeps == ASSUME LifecycleInv, NEW w \in Writes, Claim(w) PROVE LifecycleInv'
<1> DEFINE at == IF project.state = "active" THEN "claimed" ELSE "gone"
           new == [wr[w] EXCEPT !.at = at]
<1>1. wr \in [Writes -> SaveRecords] /\ wr[w].at = "started" /\ wr' = [wr EXCEPT ![w] = new]
  BY Saves DEF Claim
<1>2. new \in SaveRecords /\ new.space = wr[w].space /\ new.at \in {"claimed", "gone"}
      /\ new.job = wr[w].job
  BY <1>1 DEF SaveRecords
<1> HIDE DEF new
<1>3. wr' \in [Writes -> SaveRecords] /\ wr'[w] = new /\ \A v \in Writes \ {w} : wr'[v] = wr[v]
  BY <1>1, <1>2
<1>4. Quieter
  BY <1>1, <1>2, <1>3 DEF Quieter
<1> QED BY <1>3, <1>4, QuietWriter DEF Claim

LEMMA CommitKeeps == ASSUME LifecycleInv, NEW w \in Writes, Commit(w) PROVE LifecycleInv'
<1>1. wr \in [Writes -> SaveRecords] /\ wr[w].at = "claimed"
  BY Saves DEF Commit
<1>2. CASE Committable(w)
  <2> DEFINE job == IF wr[w].job = "open" THEN "done" ELSE wr[w].job
             new == [[wr[w] EXCEPT !.at = "stored"] EXCEPT !.job = job]
  <2>1. wr' = [wr EXCEPT ![w] = new]
    BY <1>1, <1>2 DEF Commit, SaveRecords
  <2>2. new \in SaveRecords /\ new.space = wr[w].space /\ new.at = "stored"
    BY <1>1 DEF SaveRecords
  <2> HIDE DEF new
  <2>3. wr' \in [Writes -> SaveRecords] /\ wr'[w] = new /\ \A v \in Writes \ {w} : wr'[v] = wr[v]
    BY <1>1, <2>1, <2>2
  <2>4. project \in Projects /\ project.state = "active" /\ w \notin barred
        /\ UNCHANGED <<project, registry, barred, purged, ask, run, drv>>
    BY <1>2 DEF LifecycleInv, LifecycleTypeOK, Projects, Commit, Committable, history
  <2>5. Moved
    BY <1>1, <2>2, <2>3, <2>4 DEF Moved, Onward, Projects
  <2>6. Registered'
    <3>1. \A v \in Writes : wr'[v].at # "none" => wr[v].at # "none" /\ wr'[v].space = wr[v].space
      BY <1>1, <2>2, <2>3
    <3>2. Registered
      BY DEF LifecycleInv, Books
    <3> QED BY <2>4, <3>1, <3>2 DEF Registered
  <2>7. Purged'
    <3>1. Purged /\ purged \subseteq Writes
      BY DEF LifecycleInv, LifecycleTypeOK, Books
    <3>2. \A v \in purged : v \in Writes \ {w}
      BY <2>4, <3>1 DEF Purged
    <3> QED BY <2>3, <2>4, <3>1, <3>2 DEF Purged
  <2>10. ArchivedIsQuiet'
    BY <2>4 DEF ArchivedIsQuiet
  <2>8. Rows' /\ Carried'
    BY <2>4, <2>5, AskSame, RowsOnward, AllCarriedOnward DEF LifecycleInv
  <2>9. LifecycleTypeOK'
    BY <2>3 DEF LifecycleInv, LifecycleTypeOK, Commit, history, SaveRecords
  <2> QED BY <2>6, <2>7, <2>10, <2>8, <2>9 DEF LifecycleInv, Books
<1>3. CASE ~Committable(w)
  <2> DEFINE new == [wr[w] EXCEPT !.at = "gone"]
  <2>1. wr' = [wr EXCEPT ![w] = new]
    BY <1>1, <1>3 DEF Commit, SaveRecords
  <2>2. new \in SaveRecords /\ new.space = wr[w].space /\ new.at = "gone" /\ new.job = wr[w].job
    BY <1>1 DEF SaveRecords
  <2> HIDE DEF new
  <2>3. wr' \in [Writes -> SaveRecords] /\ wr'[w] = new /\ \A v \in Writes \ {w} : wr'[v] = wr[v]
    BY <1>1, <2>1, <2>2
  <2>4. Quieter
    BY <1>1, <2>2, <2>3 DEF Quieter
  <2> QED BY <2>3, <2>4, QuietWriter DEF Commit
<1> QED BY <1>2, <1>3

LEMMA LateRowKeeps == ASSUME LifecycleInv, NEW s \in Spaces, LateRow(s) PROVE LifecycleInv'
<1>1. Moved /\ Books' /\ project' \in Projects
  BY SameKeeps DEF Same, LateRow, history
<1>2. Rows' /\ Carried'
  BY <1>1, AskSame, RowsOnward, AllCarriedOnward DEF LifecycleInv, LateRow
<1>3. LifecycleTypeOK'
  BY DEF LifecycleInv, LifecycleTypeOK, LateRow, history
<1> QED BY <1>1, <1>2, <1>3 DEF LifecycleInv

-----------------------------------------------------------------------------
(* The drivers *)

\* A driver that takes up, puts down or keeps what it carries.
LEMMA DriverKeeps ==
  ASSUME LifecycleInv, NEW d \in Drivers, NEW new \in DriverRecords, drv' = [drv EXCEPT ![d] = new],
         new.at \notin {"idle", "worked"} => Held(new.run, new.seen), new.at # "worked",
         new.at # "idle" => new.run \in Requests, lease' \in [Requests -> Drivers \cup {NoDriver}],
         faults' \in Nat, UNCHANGED <<project, registry, ask, run, books, bumps, history>>
  PROVE  LifecycleInv'
<1>1. Moved /\ Books' /\ project' \in Projects /\ AskKept /\ NoneAccepted
  BY SameKeeps, AskSame DEF Same, books, history
<1>2. drv \in [Drivers -> DriverRecords]
  BY DEF LifecycleInv, LifecycleTypeOK
<1>3. drv' \in [Drivers -> DriverRecords] /\ drv'[d] = new /\ \A e \in Drivers \ {d} : drv'[e] = drv[e]
  BY <1>2
<1>4. new.at # "idle" => HeldNext(new.run, new.seen)
  BY <1>1, HeldOnward DEF LifecycleInv
<1>5. Carried'
  BY <1>1, <1>3, <1>4, CarriedOnward DEF LifecycleInv
<1>6. Rows'
  BY <1>1, RowsOnward DEF LifecycleInv
<1>7. LifecycleTypeOK'
  BY <1>3 DEF LifecycleInv, LifecycleTypeOK, books, history
<1> QED BY <1>1, <1>5, <1>6, <1>7 DEF LifecycleInv

LEMMA Leases == ASSUME LifecycleInv PROVE lease \in [Requests -> Drivers \cup {NoDriver}] /\ faults \in Nat
BY DEF LifecycleInv, LifecycleTypeOK

LEMMA DriveKeeps ==
  ASSUME LifecycleInv, NEW d \in Drivers, NEW r \in Requests, Drive(d, r) PROVE LifecycleInv'
<1> DEFINE new == [at |-> "claimed", run |-> r, seen |-> run[r]]
<1>1. Held(r, run[r]) /\ run[r] \in RunRecords
  BY DEF LifecycleInv, LifecycleTypeOK, Rows, Drive, ActiveRun
<1>2. new \in DriverRecords
  BY <1>1 DEF DriverRecords
<1>3. lease' \in [Requests -> Drivers \cup {NoDriver}]
  BY Leases DEF Drive
<1>4. drv' = [drv EXCEPT ![d] = new] /\ UNCHANGED <<project, registry, ask, run, books, faults, bumps, history>>
  BY DEF Drive
<1>5. new.at = "claimed" /\ new.run = r /\ new.seen = run[r] /\ faults' \in Nat
  BY <1>4, Leases
<1> HIDE DEF new
<1> QED BY <1>1, <1>2, <1>3, <1>4, <1>5, DriverKeeps

LEMMA LoadKeeps == ASSUME LifecycleInv, NEW d \in Drivers, Load(d) PROVE LifecycleInv'
<1> DEFINE new == [at |-> "loaded", run |-> drv[d].run, seen |-> drv[d].seen, epoch |-> project.epoch]
<1>1. drv[d].at # "idle"
  BY DEF Load, Drives
<1>2. drv[d].run \in Requests /\ drv[d].seen \in RunRecords /\ Held(drv[d].run, drv[d].seen)
  BY <1>1, AtWork DEF LifecycleInv, Seen
<1>3. new \in DriverRecords
  BY <1>2 DEF DriverRecords, LifecycleInv, LifecycleTypeOK
<1>4. drv' = [drv EXCEPT ![d] = new]
      /\ UNCHANGED <<project, registry, ask, run, lease, books, faults, bumps, history>>
  BY DEF Load
<1>5. new.at = "loaded" /\ new.run = drv[d].run /\ new.seen = drv[d].seen
  OBVIOUS
<1> HIDE DEF new
<1> QED BY <1>2, <1>3, <1>4, <1>5, Leases, DriverKeeps

LEMMA IdleRecord == Idle \in DriverRecords /\ Idle.at = "idle"
BY DEF Idle, DriverRecords

LEMMA ReleaseKeeps == ASSUME LifecycleInv, NEW d \in Drivers, Release(d) PROVE LifecycleInv'
<1> DEFINE h == IF lease[drv[d].run] = d THEN NoDriver ELSE lease[drv[d].run]
<1>1. drv[d].run \in Requests
  BY AtWork DEF LifecycleInv, Release
<1>2. lease' = [lease EXCEPT ![drv[d].run] = h]
  BY DEF Release
<1>3. h \in Drivers \cup {NoDriver}
  BY <1>1, Leases
<1> HIDE DEF h
<1>4. lease' \in [Requests -> Drivers \cup {NoDriver}]
  BY <1>2, <1>3, Leases
<1> QED BY <1>4, IdleRecord, Leases, DriverKeeps DEF Release

LEMMA DieKeeps == ASSUME LifecycleInv, NEW d \in Drivers, Die(d) PROVE LifecycleInv'
<1>1. faults' \in Nat
  BY Leases DEF Die
<1> QED BY <1>1, IdleRecord, Leases, DriverKeeps DEF Die

LEMMA SaveKeeps == ASSUME LifecycleInv, NEW d \in Drivers, Save(d) PROVE LifecycleInv'
<1> DEFINE r == drv[d].run
           t == run'[r]
           new == [at |-> "ready", run |-> r, seen |-> t]
<1>1. drv[d].at = "worked" /\ run \in [Requests -> RunRecords] /\ drv \in [Drivers -> DriverRecords]
  BY DEF LifecycleInv, LifecycleTypeOK, Save
<1>2. r \in Requests /\ Held(r, drv[d].seen) /\ Held(r, drv[d].next)
  BY <1>1, AtWork DEF LifecycleInv, Seen, Carried
<1>3. Held(r, run[r])
  BY <1>2 DEF LifecycleInv, Rows, Held
<1>4. drv' = [drv EXCEPT ![d] = new] /\ (run' = run \/ run' = [run EXCEPT ![r] = drv[d].next])
      /\ UNCHANGED <<project, registry, ask, lease, books, faults, bumps, history>>
  BY DEF Save
<1>5. Held(r, t) /\ t \in RunRecords /\ run' \in [Requests -> RunRecords]
      /\ \A q \in Requests \ {r} : run'[q] = run[q]
  <2>1. CASE run' = run
    BY <1>1, <1>2, <1>3, <2>1 DEF Held
  <2>2. CASE run' = [run EXCEPT ![r] = drv[d].next]
    <3>1. drv[d].next \in RunRecords
      BY <1>2 DEF Held
    <3>2. t = drv[d].next
      BY <1>1, <1>2, <2>2
    <3> QED BY <1>1, <1>2, <2>2, <3>1, <3>2
  <2> QED BY <1>4, <2>1, <2>2
<1>6. Moved /\ Books' /\ project' \in Projects /\ AskKept /\ NoneAccepted
  BY <1>4, SameKeeps, AskSame DEF Same, books, history
<1>7. HeldNext(r, t)
  BY <1>2, <1>5, <1>6, HeldOnward DEF LifecycleInv
<1>8. Rows'
  BY <1>2, <1>4, <1>5, <1>6, <1>7, RowOnward DEF LifecycleInv
<1>9. new \in DriverRecords
  BY <1>2, <1>5 DEF DriverRecords
<1>10. new.at = "ready" /\ new.run = r /\ new.seen = t
  OBVIOUS
<1> HIDE DEF new, t
<1>11. drv' \in [Drivers -> DriverRecords] /\ drv'[d] = new /\ \A e \in Drivers \ {d} : drv'[e] = drv[e]
  BY <1>1, <1>4, <1>9
<1>12. Carried'
  BY <1>6, <1>7, <1>10, <1>11, CarriedOnward DEF LifecycleInv
<1>13. LifecycleTypeOK'
  BY <1>4, <1>5, <1>11 DEF LifecycleInv, LifecycleTypeOK, books, history
<1> QED BY <1>6, <1>8, <1>12, <1>13 DEF LifecycleInv

-----------------------------------------------------------------------------
(* The steps that leave the project and its memory alone *)

LEMMA SameStep ==
  ASSUME LifecycleInv, NEW d \in Drivers, drv[d].at # "idle", NEW next \in RunRecords,
         next.st # "none", next.epoch = Seen(d).epoch, Kept(next, Act(d)), Worked(d, next),
         ask' \in [Requests -> AskRecords], AskKept, NoneAccepted, faults' \in Nat,
         UNCHANGED <<project, registry, run, lease, books, bumps, history>>
  PROVE  LifecycleInv'
<1>1. Moved /\ Books' /\ project' \in Projects
  BY SameKeeps DEF Same, books, history
<1>2. Onto(d, next)
  BY DEF Onto, Kept, books
<1>3. drv' \in [Drivers -> DriverRecords] /\ Rows' /\ Carried'
  BY <1>1, <1>2, WorkKeeps DEF LifecycleInv
<1>4. LifecycleTypeOK'
  BY <1>3 DEF LifecycleInv, LifecycleTypeOK, books, history, AskRecords
<1> QED BY <1>1, <1>3, <1>4 DEF LifecycleInv

\* The common case: the requests are left alone too.
LEMMA QuietStep ==
  ASSUME LifecycleInv, NEW d \in Drivers, drv[d].at # "idle", NEW next \in RunRecords,
         next.st # "none", next.epoch = Seen(d).epoch, Kept(next, Act(d)), Worked(d, next),
         faults' \in Nat,
         UNCHANGED <<project, registry, ask, run, lease, books, bumps, history>>
  PROVE  LifecycleInv'
<1>1. ask' \in [Requests -> AskRecords]
  BY DEF LifecycleInv, LifecycleTypeOK, AskRecords
<1> QED BY <1>1, AskSame, SameStep

LEMMA Working ==
  ASSUME LifecycleInv, NEW d \in Drivers, drv[d].at # "idle"
  PROVE  /\ drv[d].run \in Requests /\ Seen(d) \in RunRecords /\ Act(d) \in Actions
         /\ Held(drv[d].run, Seen(d)) /\ Kept(Seen(d), Act(d)) /\ Seen(d).st # "none"
         /\ Seen(d).phase \in PhasesOf(Act(d))
         /\ Seen(d).epoch \in Nat /\ Seen(d).spaces \subseteq Spaces /\ Seen(d).left \subseteq Spaces
         /\ ask[drv[d].run].st = "accepted" /\ Seen(d).epoch = ask[drv[d].run].epoch + 1
BY AtWork DEF LifecycleInv, Held, Kept, Sound, Binds

\* A run that fails has got as far as it was.
LEMMA FailureKept ==
  ASSUME LifecycleInv, NEW d \in Drivers, drv[d].at # "idle",
         NEW next \in {Failed(Seen(d)), Terminal(Seen(d)), [Failed(Seen(d)) EXCEPT !.spent = TRUE]}
  PROVE  /\ next \in RunRecords /\ next.st # "none" /\ next.epoch = Seen(d).epoch
         /\ Kept(next, Act(d))
         /\ \A a, p, g, x, b : Sound(Seen(d), a, p, g, x, b) => Sound(next, a, p, g, x, b)
<1>1. Seen(d) \in RunRecords /\ Kept(Seen(d), Act(d))
  BY Working
<1>2. Failed(Seen(d)) \in RunRecords
  BY <1>1, RunEnds
<1>3. [Failed(Seen(d)) EXCEPT !.spent = TRUE] \in RunRecords
  BY <1>2 DEF RunRecords
<1>4. /\ next.epoch = Seen(d).epoch /\ next.phase = Seen(d).phase /\ next.spaces = Seen(d).spaces
      /\ next.left = Seen(d).left /\ next.sub = Seen(d).sub
  <2>1. CASE next \in {Failed(Seen(d)), Terminal(Seen(d))}
    BY <1>1, <2>1, RunEnds
  <2>2. CASE next = [Failed(Seen(d)) EXCEPT !.spent = TRUE]
    BY <1>1, <1>2, <2>2 DEF RunRecords, Failed
  <2> QED BY <2>1, <2>2
<1>5. next.st \in {"failed_retryable", "failed_terminal"}
  BY <1>1, <1>2 DEF Failed, Terminal, RunRecords
<1>6. \A a, p, g, x, b : Sound(Seen(d), a, p, g, x, b) => Sound(next, a, p, g, x, b)
  BY <1>4, AlikeSound
<1> QED BY <1>1, <1>2, <1>3, <1>4, <1>5, <1>6, RunEnds DEF Kept

LEMMA SupersededKeeps == ASSUME LifecycleInv, NEW d \in Drivers, Superseded(d) PROVE LifecycleInv'
BY FailureKept, QuietStep, Leases DEF Superseded

LEMMA RetryableKeeps == ASSUME LifecycleInv, NEW d \in Drivers, Retryable(d) PROVE LifecycleInv'
<1>1. faults' \in Nat
  BY Leases DEF Retryable
<1> QED BY <1>1, FailureKept, QuietStep DEF Retryable

LEMMA ExhaustedKeeps == ASSUME LifecycleInv, NEW d \in Drivers, Exhausted(d) PROVE LifecycleInv'
BY FailureKept, QuietStep, Leases DEF Exhausted, Drives

LEMMA InventoryKeeps == ASSUME LifecycleInv, NEW d \in Drivers, Inventory(d) PROVE LifecycleInv'
<1> DEFINE s == Seen(d)
           phase == CASE Act(d) = "archive" -> "cancel_work"
                      [] Act(d) = "restore" -> "quiesce_stale"
                      [] OTHER -> "spaces"
           next == [s EXCEPT !.phase = phase, !.spaces = registry, !.left = registry, !.sub = "cancel"]
<1>1. drv[d].at # "idle" /\ s.phase = "inventory" /\ registry \subseteq Spaces
  BY DEF Inventory, At, LifecycleInv, LifecycleTypeOK
<1>2. s \in RunRecords /\ Act(d) \in Actions /\ Kept(s, Act(d)) /\ s.st # "none"
  BY <1>1, Working
<1>3. CASE Worked(d, Terminal(s))
  BY <1>1, <1>3, FailureKept, QuietStep, Leases DEF Inventory
<1>4. CASE Worked(d, next)
  <2>1. phase \in PhasesOf(Act(d)) /\ phase \in {"cancel_work", "quiesce_stale", "spaces"}
    BY <1>2 DEF PhasesOf, Actions
  <2> HIDE DEF phase
  <2>2. next \in RunRecords /\ next.phase = phase /\ next.spaces = registry /\ next.left = registry
        /\ next.sub = "cancel" /\ next.epoch = s.epoch /\ next.st = s.st
    BY <1>1, <1>2, <2>1 DEF RunRecords, Phases
  <2> HIDE DEF next
  <2>3. Kept(next, Act(d))
    <3>1. CASE Act(d) \in Erasing
      <4>1. phase = "spaces" \/ Swept(next) = registry
        BY <2>2 DEF Swept
      <4>2. phase = "spaces"
        BY <3>1 DEF phase, Erasing
      <4>3. Swept(next) = {}
        BY <2>2, <4>2 DEF Swept
      <4>4. Clean(Swept(next), wr, barred)
        BY <4>3 DEF Clean
      <4> QED BY <1>1, <1>2, <2>1, <2>2, <3>1, <4>4, ErasingSound DEF Kept
    <3>2. CASE Act(d) \notin Erasing
      BY <1>1, <1>2, <2>1, <2>2, <3>2, OnwardSound DEF Kept
    <3> QED BY <3>1, <3>2
  <2> QED BY <1>1, <1>2, <1>4, <2>2, <2>3, QuietStep, Leases DEF Inventory
<1> QED BY <1>3, <1>4 DEF Inventory, Discovered

LEMMA SpacesDoneKeeps == ASSUME LifecycleInv, NEW d \in Drivers, SpacesDone(d) PROVE LifecycleInv'
<1> DEFINE s == Seen(d)
           next == [s EXCEPT !.st = "verifying", !.phase = "verify"]
<1>1. drv[d].at # "idle" /\ s.phase = "spaces" /\ s.left = {}
  BY DEF SpacesDone, At
<1>2. s \in RunRecords /\ Act(d) \in Actions /\ Kept(s, Act(d)) /\ s.phase \in PhasesOf(Act(d))
  BY <1>1, Working
<1>3. Act(d) \in Erasing
  BY <1>1, <1>2 DEF PhasesOf, Actions, Erasing
<1>4. next \in RunRecords /\ next.phase = "verify" /\ next.spaces = s.spaces /\ next.left = s.left
      /\ next.sub = s.sub /\ next.epoch = s.epoch /\ next.st = "verifying"
  BY <1>2 DEF RunRecords, Phases, ActiveRun
<1> HIDE DEF next
<1>5. Swept(next) = Swept(s)
  BY <1>1, <1>4 DEF Swept
<1>6. Works(next, project) => registry \subseteq next.spaces /\ Clean(Swept(next), wr, barred)
  BY <1>1, <1>2, <1>3, <1>4, <1>5 DEF Kept, Sound, Erases, Works
<1>7. next.phase \in PhasesOf(Act(d))
  BY <1>3, <1>4 DEF PhasesOf, Erasing
<1>8. Kept(next, Act(d))
  BY <1>1, <1>2, <1>3, <1>4, <1>6, <1>7, ErasingSound DEF Kept
<1> QED BY <1>1, <1>4, <1>8, QuietStep, Leases DEF SpacesDone, next

LEMMA VerifyErasedKeeps == ASSUME LifecycleInv, NEW d \in Drivers, VerifyErased(d) PROVE LifecycleInv'
<1> DEFINE s == Seen(d)
<1>1. drv[d].at # "idle" /\ s.phase = "verify" /\ Act(d) \in Erasing
  BY DEF VerifyErased, At
<1>2. s \in RunRecords /\ Act(d) \in Actions /\ Kept(s, Act(d)) /\ s.phase \in PhasesOf(Act(d))
      /\ s.st # "none" /\ s.spaces \subseteq Spaces
  BY <1>1, Working
<1>3. Works(s, project) => registry \subseteq s.spaces /\ Clean(s.spaces, wr, barred)
  BY <1>1, <1>2 DEF Kept, Sound, Erases, Swept
<1>4. SUFFICES ASSUME NEW next \in RunRecords, Worked(d, next), next.st # "none", next.epoch = s.epoch,
                      Kept(next, Act(d))
               PROVE  LifecycleInv'
  <2>1. ASSUME NEW x \in Spaces,
               Worked(d, [s EXCEPT !.st = "running", !.phase = "spaces", !.sub = "erase",
                                   !.left = {y \in s.spaces : x <= y}])
        PROVE  \E next \in RunRecords : /\ Worked(d, next) /\ next.st # "none" /\ next.epoch = s.epoch
                                        /\ Kept(next, Act(d))
    <3> DEFINE left == {y \in s.spaces : x <= y}
               next == [s EXCEPT !.st = "running", !.phase = "spaces", !.sub = "erase", !.left = left]
    <3>1. left \subseteq Spaces
      BY <1>2
    <3> HIDE DEF left
    <3>2. next \in RunRecords /\ next.phase = "spaces" /\ next.spaces = s.spaces /\ next.left = left
          /\ next.sub = "erase" /\ next.epoch = s.epoch /\ next.st = "running"
      BY <1>2, <3>1 DEF RunRecords, Phases, ActiveRun
    <3> HIDE DEF next
    <3>3. Works(next, project) => registry \subseteq next.spaces /\ Clean(Swept(next), wr, barred)
      <4>1. Works(next, project) => Works(s, project)
        BY <1>1, <3>2 DEF Works
      <4>2. Swept(next) \subseteq s.spaces
        BY <3>2 DEF Swept
      <4> QED BY <1>3, <3>2, <4>1, <4>2 DEF Clean
    <3>4. next.phase \in PhasesOf(Act(d))
      BY <1>1, <3>2 DEF PhasesOf, Erasing
    <3>5. Kept(next, Act(d))
      BY <1>1, <1>2, <3>2, <3>3, <3>4, ErasingSound DEF Kept
    <3>6. Worked(d, next)
      BY <2>1 DEF next, left
    <3> QED BY <3>2, <3>5, <3>6
  <2>2. ASSUME Worked(d, [s EXCEPT !.phase = IF Act(d) = "memory_purge" THEN "reopen" ELSE "control_plane"])
        PROVE  \E next \in RunRecords : /\ Worked(d, next) /\ next.st # "none" /\ next.epoch = s.epoch
                                        /\ Kept(next, Act(d))
    <3> DEFINE phase == IF Act(d) = "memory_purge" THEN "reopen" ELSE "control_plane"
               next == [s EXCEPT !.phase = phase]
    <3>1. phase \in PhasesOf(Act(d)) /\ phase \in {"reopen", "control_plane"}
      BY <1>1 DEF PhasesOf, Erasing
    <3> HIDE DEF phase
    <3>2. next \in RunRecords /\ next.phase = phase /\ next.spaces = s.spaces /\ next.epoch = s.epoch
          /\ next.st = s.st
      BY <1>2, <3>1 DEF RunRecords, Phases
    <3> HIDE DEF next
    <3>3. Works(next, project) => registry \subseteq next.spaces /\ Clean(Swept(next), wr, barred)
      BY <1>1, <1>3, <3>1, <3>2 DEF Works, Swept
    <3>4. Kept(next, Act(d))
      BY <1>1, <1>2, <3>1, <3>2, <3>3, ErasingSound DEF Kept
    <3>5. Worked(d, next)
      BY <2>2 DEF next, phase
    <3> QED BY <1>2, <3>2, <3>4, <3>5
  <2> QED BY <2>1, <2>2 DEF VerifyErased
<1> QED BY <1>1, <1>4, QuietStep, Leases DEF VerifyErased

LEMMA ControlPlaneKeeps == ASSUME LifecycleInv, NEW d \in Drivers, ControlPlane(d) PROVE LifecycleInv'
<1> DEFINE s == Seen(d)
           next == [s EXCEPT !.phase = "tombstone"]
           refused(r) == [ask[r] EXCEPT !.st = "refused"]
<1>1. drv[d].at # "idle" /\ s.phase = "control_plane" /\ Worked(d, next)
      /\ ask' = [r \in Requests |-> IF ask[r].st = "previewed" THEN refused(r) ELSE ask[r]]
  BY DEF ControlPlane, At
<1>2. s \in RunRecords /\ Act(d) \in Actions /\ Kept(s, Act(d)) /\ s.phase \in PhasesOf(Act(d))
      /\ s.st # "none"
  BY <1>1, Working
<1>3. Act(d) = "project_delete"
  BY <1>1, <1>2 DEF PhasesOf, Actions
<1>4. next \in RunRecords /\ next.phase = "tombstone" /\ next.spaces = s.spaces /\ next.epoch = s.epoch
      /\ next.st = s.st
  BY <1>2 DEF RunRecords, Phases
<1> HIDE DEF next
<1>5. Works(next, project) => registry \subseteq next.spaces /\ Clean(Swept(next), wr, barred)
  BY <1>1, <1>2, <1>3, <1>4 DEF Works, Swept, Kept, Sound, Erases, Erasing
<1>6. next.phase \in PhasesOf(Act(d)) /\ Act(d) \in Erasing
  BY <1>3, <1>4 DEF PhasesOf, Erasing
<1>7. Kept(next, Act(d))
  BY <1>1, <1>2, <1>4, <1>5, <1>6, ErasingSound DEF Kept
<1>8. \A r \in Requests : ask[r] \in AskRecords /\ refused(r) \in AskRecords /\ refused(r).st = "refused"
  BY DEF LifecycleInv, LifecycleTypeOK, AskRecords
<1> HIDE DEF refused
<1>9. ask' \in [Requests -> AskRecords] /\ AskKept /\ NoneAccepted
  BY <1>1, <1>8 DEF AskKept, NoneAccepted
<1> QED BY <1>1, <1>2, <1>4, <1>7, <1>9, SameStep, Leases DEF ControlPlane

-----------------------------------------------------------------------------
(* The steps that settle or erase what is in a space *)

LEMMA SpaceStep ==
  ASSUME LifecycleInv, NEW d \in Drivers, drv[d].at # "idle", NEW next, Onto(d, next), Worked(d, next),
         wr' \in [Writes -> SaveRecords], Quieter, barred' \subseteq Writes, barred \subseteq barred',
         late' \subseteq Spaces,
         UNCHANGED <<project, registry, ask, run, lease, lates, faults, bumps, history>>
  PROVE  LifecycleInv'
<1>1. Moved /\ Books' /\ AskKept /\ NoneAccepted
  BY QuieterKeeps, AskSame DEF LifecycleInv, history
<1>2. project' \in Projects
  BY DEF LifecycleInv, LifecycleTypeOK, Projects
<1>3. drv' \in [Drivers -> DriverRecords] /\ Rows' /\ Carried'
  BY <1>1, <1>2, WorkKeeps DEF LifecycleInv
<1>4. LifecycleTypeOK'
  BY <1>3 DEF LifecycleInv, LifecycleTypeOK, history, SaveRecords
<1> QED BY <1>1, <1>3, <1>4 DEF LifecycleInv

\* What a run has seen is true of the memory also after a step that adds nothing.
LEMMA SeenOnward ==
  ASSUME LifecycleInv, NEW d \in Drivers, drv[d].at # "idle", Quieter, barred \subseteq barred',
         UNCHANGED <<project, registry, purged>>
  PROVE  Sound(Seen(d), Act(d), project', registry', wr', barred')
<1>1. Moved
  BY QuieterKeeps DEF LifecycleInv
<1>2. Seen(d) \in RunRecords /\ Act(d) \in Actions /\ Kept(Seen(d), Act(d))
  BY Working
<1>3. project \in Projects /\ project' \in Projects
  BY DEF LifecycleInv, LifecycleTypeOK, Projects
<1> QED BY <1>1, <1>2, <1>3, SoundOnward DEF Kept, Moved

LEMMA QuiesceKeeps == ASSUME LifecycleInv, NEW d \in Drivers, Quiesce(d) PROVE LifecycleInv'
<1> DEFINE s == Seen(d)
<1>1. drv[d].at # "idle" /\ s.phase \in {"cancel_work", "quiesce_stale"}
      /\ UNCHANGED <<project, registry, ask, run, lease, barred, late, lates, faults, bumps, history>>
  BY DEF Quiesce, At
<1>2. s \in RunRecords /\ Act(d) \in Actions /\ Kept(s, Act(d)) /\ s.phase \in PhasesOf(Act(d))
      /\ s.st # "none"
  BY <1>1, Working
<1>3. \/ Act(d) = "archive" /\ s.phase = "cancel_work"
      \/ Act(d) = "restore" /\ s.phase = "quiesce_stale"
  BY <1>1, <1>2 DEF PhasesOf, Actions
<1>4. Act(d) = "archive" /\ s.epoch = project.epoch /\ project.state = "archiving" => registry \subseteq s.spaces
  BY <1>1, <1>2 DEF Kept, Sound, Archives, Works
<1>5. ASSUME NEW next \in RunRecords, next.st # "none", next.epoch = s.epoch, next.spaces = s.spaces,
             next.phase \in PhasesOf(Act(d)), next.phase # "pending", Worked(d, next),
             wr' \in [Writes -> SaveRecords], Quieter
      PROVE  LifecycleInv'
  <2>1. Sound(s, Act(d), project', registry', wr', barred')
    BY <1>1, <1>5, SeenOnward DEF history
  <2>2. Binds(next, Act(d), project')
    BY <1>1, <1>5, <2>1 DEF Sound, Binds
  <2>3. Archives(next, Act(d), project', registry')
    BY <1>1, <1>4, <1>5 DEF Archives, Works
  <2>4. Erases(next, Act(d), project', registry', wr', barred')
    BY <1>3 DEF Erases, Erasing
  <2>5. Onto(d, next)
    BY <1>5, <2>2, <2>3, <2>4 DEF Onto, Sound
  <2>6. barred \subseteq Writes /\ late \subseteq Spaces
    BY DEF LifecycleInv, LifecycleTypeOK
  <2> QED BY <1>1, <1>5, <2>5, <2>6, SpaceStep
<1>6. CASE /\ s.left = {} /\ UNCHANGED wr
           /\ Worked(d, [s EXCEPT !.st = "verifying",
                                  !.phase = IF @ = "cancel_work" THEN "verify" ELSE "reactivate"])
  <2> DEFINE phase == IF s.phase = "cancel_work" THEN "verify" ELSE "reactivate"
             next == [s EXCEPT !.st = "verifying", !.phase = phase]
  <2>1. phase \in PhasesOf(Act(d)) /\ phase \in {"verify", "reactivate"}
    BY <1>3 DEF PhasesOf
  <2> HIDE DEF phase
  <2>2. next \in RunRecords /\ next.phase = phase /\ next.spaces = s.spaces /\ next.epoch = s.epoch
        /\ next.st = "verifying"
    BY <1>2, <2>1 DEF RunRecords, Phases, ActiveRun
  <2> HIDE DEF next
  <2>3. Worked(d, next)
    BY <1>6 DEF next, phase
  <2>4. Quieter /\ wr' \in [Writes -> SaveRecords]
    BY <1>6, Saves DEF Quieter
  <2> QED BY <1>5, <2>1, <2>2, <2>3, <2>4
<1>7. ASSUME NEW x \in Spaces, wr' = Cancelled(x, TRUE), Worked(d, [s EXCEPT !.left = @ \ {x}])
      PROVE  LifecycleInv'
  <2> DEFINE next == [s EXCEPT !.left = s.left \ {x}]
  <2>1. next \in RunRecords /\ next.phase = s.phase /\ next.spaces = s.spaces /\ next.epoch = s.epoch
        /\ next.st = s.st
    BY <1>2 DEF RunRecords
  <2>2. Worked(d, next)
    BY <1>7
  <2> HIDE DEF next
  <2>3. Quieter /\ wr' \in [Writes -> SaveRecords]
    BY <1>7, CancelledQuiets DEF Quieter, LifecycleInv
  <2> QED BY <1>1, <1>2, <1>5, <2>1, <2>2, <2>3
<1> QED BY <1>6, <1>7 DEF Quiesce

\* What an erasure that works through its spaces says of them after the step.
Through(s) ==
    /\ Clean(Swept(s), wr', barred')
    /\ s.sub \in {"sweep", "residual"} => Covered(First(s), wr', barred')

\* One step of an erasure, whatever it has done, if it is through with no more than
\* what is clean and behind the barrier.
LEMMA EraseStep ==
  ASSUME LifecycleInv, NEW d \in Drivers, drv[d].at # "idle", Seen(d).phase = "spaces",
         NEW next \in RunRecords, next.st # "none", next.epoch = Seen(d).epoch,
         next.spaces = Seen(d).spaces, next.phase = "spaces", Worked(d, next),
         wr' \in [Writes -> SaveRecords], Quieter, barred' \subseteq Writes, barred \subseteq barred',
         late' \subseteq Spaces,
         UNCHANGED <<project, registry, ask, run, lease, lates, faults, bumps, history>>,
         Through(Seen(d)) => Through(next)
  PROVE  LifecycleInv'
<1> DEFINE s == Seen(d)
<1>1. s \in RunRecords /\ Act(d) \in Actions /\ s.phase \in PhasesOf(Act(d))
  BY Working
<1>2. Act(d) \in Erasing
  BY <1>1 DEF PhasesOf, Actions, Erasing
<1>3. Sound(s, Act(d), project', registry', wr', barred')
  BY SeenOnward DEF history
<1>4. Works(next, project') => Works(s, project')
  BY DEF Works
<1>5. Works(s, project') => registry' \subseteq s.spaces /\ Through(s)
  BY <1>2, <1>3 DEF Sound, Erases, Through
<1>6. Works(next, project') => registry' \subseteq next.spaces /\ Through(next)
  BY <1>4, <1>5
<1>7. Sound(next, Act(d), project', registry', wr', barred')
  BY <1>1, <1>2, <1>3, <1>6, ErasingSound DEF Through
<1>8. Onto(d, next)
  BY <1>7 DEF Onto
<1> QED BY <1>8, SpaceStep

LEMMA EraseSpaceKeeps == ASSUME LifecycleInv, NEW d \in Drivers, EraseSpace(d) PROVE LifecycleInv'
<1> DEFINE s == Seen(d)
           gone(w) == [wr[w] EXCEPT !.at = "gone"]
<1>1. drv[d].at # "idle" /\ s.phase = "spaces"
      /\ UNCHANGED <<project, registry, ask, run, lease, lates, faults, bumps, history>>
  BY DEF EraseSpace, At
<1>2. s \in RunRecords /\ s.st # "none" /\ s.left \subseteq Spaces
  BY <1>1, Working
<1>3. PICK x \in Spaces :
        /\ IsFirst(x, s.left)
        /\ \/ /\ s.sub = "cancel"
              /\ wr' = Cancelled(x, FALSE)
              /\ Worked(d, [s EXCEPT !.sub = "erase"])
              /\ UNCHANGED <<barred, late>>
           \/ /\ s.sub = "erase"
              /\ barred' = barred \cup In(x)
              /\ wr' = [w \in Writes |-> IF w \in In(x) /\ wr[w].at = "stored"
                                         THEN gone(w) ELSE Cancelled(x, TRUE)[w]]
              /\ Worked(d, [s EXCEPT !.sub = "sweep"])
              /\ UNCHANGED late
           \/ /\ s.sub = "sweep"
              /\ wr' = [w \in Writes |-> IF w \in In(x) /\ wr[w].at = "stored" THEN gone(w) ELSE wr[w]]
              /\ late' = late \ {x}
              /\ Worked(d, [s EXCEPT !.sub = "residual"])
              /\ UNCHANGED barred
           \/ /\ s.sub = "residual" /\ Holds(x)
              /\ Worked(d, IF s.tries < MaxTries
                           THEN [s EXCEPT !.sub = "erase", !.tries = @ + 1] ELSE Failed(s))
              /\ UNCHANGED <<wr, barred, late>>
           \/ /\ s.sub = "residual" /\ ~Holds(x)
              /\ wr' = [w \in Writes |-> IF w \in In(x) /\ wr[w].at = "queued" THEN gone(w) ELSE wr[w]]
              /\ Worked(d, [s EXCEPT !.left = @ \ {x}, !.sub = "cancel", !.tries = 0])
              /\ UNCHANGED <<barred, late>>
  BY DEF EraseSpace, Barrier
<1>4. wr \in [Writes -> SaveRecords] /\ barred \subseteq Writes /\ late \subseteq Spaces
  BY Saves DEF LifecycleInv, LifecycleTypeOK
<1>5. \A w \in Writes : gone(w) \in SaveRecords /\ gone(w).space = wr[w].space
                       /\ gone(w).at = "gone" /\ gone(w).job = wr[w].job
  BY <1>4 DEF SaveRecords
<1> HIDE DEF gone
<1>6. First(s) = {x}
  BY <1>2, <1>3 DEF First, IsFirst
<1>7. In(x) \subseteq Writes
  BY DEF In
<1>8. CASE /\ s.sub = "cancel" /\ wr' = Cancelled(x, FALSE)
           /\ Worked(d, [s EXCEPT !.sub = "erase"]) /\ UNCHANGED <<barred, late>>
  <2> DEFINE next == [s EXCEPT !.sub = "erase"]
  <2>1. next \in RunRecords /\ next.epoch = s.epoch /\ next.spaces = s.spaces /\ next.phase = "spaces"
        /\ next.st = s.st /\ next.left = s.left /\ next.sub = "erase"
    BY <1>1, <1>2 DEF RunRecords
  <2>2. Worked(d, next)
    BY <1>8
  <2> HIDE DEF next
  <2>3. Quieter /\ wr' \in [Writes -> SaveRecords]
    BY <1>8, CancelledQuiets DEF Quieter, LifecycleInv
  <2>4. Swept(next) = Swept(s)
    BY <1>1, <2>1 DEF Swept
  <2> QED BY <1>1, <1>2, <1>4, <1>8, <2>1, <2>2, <2>3, <2>4, EraseStep DEF Through
<1>9. CASE /\ s.sub = "erase" /\ barred' = barred \cup In(x) /\ UNCHANGED late
           /\ wr' = [w \in Writes |-> IF w \in In(x) /\ wr[w].at = "stored"
                                      THEN gone(w) ELSE Cancelled(x, TRUE)[w]]
           /\ Worked(d, [s EXCEPT !.sub = "sweep"])
  <2> DEFINE next == [s EXCEPT !.sub = "sweep"]
  <2>1. next \in RunRecords /\ next.epoch = s.epoch /\ next.spaces = s.spaces /\ next.phase = "spaces"
        /\ next.st = s.st /\ next.left = s.left /\ next.sub = "sweep"
    BY <1>1, <1>2 DEF RunRecords
  <2>2. Worked(d, next)
    BY <1>9
  <2> HIDE DEF next
  <2>3. /\ Cancelled(x, TRUE) \in [Writes -> SaveRecords]
        /\ \A w \in Writes :
             /\ Cancelled(x, TRUE)[w].space = wr[w].space
             /\ Cancelled(x, TRUE)[w].at = "none" <=> wr[w].at = "none"
             /\ Cancelled(x, TRUE)[w].at = "stored" => wr[w].at = "stored"
             /\ Cancelled(x, TRUE)[w].job = "open" => wr[w].job = "open"
    BY CancelledQuiets DEF LifecycleInv
  <2>4. wr' \in [Writes -> SaveRecords]
    BY <1>5, <1>9, <2>3
  <2>5. Quieter
    BY <1>5, <1>9, <2>3 DEF Quieter
  <2>6. Swept(next) = Swept(s) /\ First(next) = {x}
    BY <1>1, <1>6, <2>1 DEF Swept, First
  <2>7. Covered({x}, wr', barred')
    BY <1>9, <2>5 DEF Covered, Quieter, In
  <2> QED BY <1>1, <1>2, <1>4, <1>7, <1>9, <2>1, <2>2, <2>4, <2>5, <2>6, <2>7, EraseStep DEF Through
<1>10. CASE /\ s.sub = "sweep" /\ late' = late \ {x} /\ UNCHANGED barred
            /\ wr' = [w \in Writes |-> IF w \in In(x) /\ wr[w].at = "stored" THEN gone(w) ELSE wr[w]]
            /\ Worked(d, [s EXCEPT !.sub = "residual"])
  <2> DEFINE next == [s EXCEPT !.sub = "residual"]
  <2>1. next \in RunRecords /\ next.epoch = s.epoch /\ next.spaces = s.spaces /\ next.phase = "spaces"
        /\ next.st = s.st /\ next.left = s.left /\ next.sub = "residual"
    BY <1>1, <1>2 DEF RunRecords
  <2>2. Worked(d, next)
    BY <1>10
  <2> HIDE DEF next
  <2>3. wr' \in [Writes -> SaveRecords]
    BY <1>4, <1>5, <1>10
  <2>4. Quieter
    BY <1>5, <1>10 DEF Quieter
  <2>5. Swept(next) = Swept(s) /\ First(next) = First(s)
    BY <1>1, <2>1 DEF Swept, First
  <2> QED BY <1>1, <1>2, <1>4, <1>10, <2>1, <2>2, <2>3, <2>4, <2>5, EraseStep DEF Through
<1>11. CASE /\ s.sub = "residual" /\ Holds(x) /\ UNCHANGED <<wr, barred, late>>
            /\ Worked(d, IF s.tries < MaxTries
                         THEN [s EXCEPT !.sub = "erase", !.tries = @ + 1] ELSE Failed(s))
  <2>1. Quieter /\ wr' \in [Writes -> SaveRecords]
    BY <1>4, <1>11 DEF Quieter
  <2>2. CASE s.tries < MaxTries
    <3> DEFINE next == [s EXCEPT !.sub = "erase", !.tries = s.tries + 1]
    <3>1. next \in RunRecords /\ next.epoch = s.epoch /\ next.spaces = s.spaces /\ next.phase = "spaces"
          /\ next.st = s.st /\ next.left = s.left /\ next.sub = "erase"
      <4>1. s.tries + 1 \in 0 .. MaxTries
        BY <1>2, <2>2 DEF RunRecords
      <4> QED BY <1>1, <1>2, <4>1 DEF RunRecords
    <3>2. Worked(d, next)
      BY <1>11, <2>2
    <3> HIDE DEF next
    <3>3. Swept(next) = Swept(s)
      BY <1>1, <3>1 DEF Swept
    <3> QED BY <1>1, <1>2, <1>4, <1>11, <2>1, <3>1, <3>2, <3>3, EraseStep DEF Through
  <2>3. CASE ~(s.tries < MaxTries)
    BY <1>1, <1>11, <2>3, FailureKept, QuietStep, Leases DEF books
  <2> QED BY <2>2, <2>3
<1>12. CASE /\ s.sub = "residual" /\ ~Holds(x) /\ UNCHANGED <<barred, late>>
            /\ wr' = [w \in Writes |-> IF w \in In(x) /\ wr[w].at = "queued" THEN gone(w) ELSE wr[w]]
            /\ Worked(d, [s EXCEPT !.left = @ \ {x}, !.sub = "cancel", !.tries = 0])
  <2> DEFINE next == [s EXCEPT !.left = s.left \ {x}, !.sub = "cancel", !.tries = 0]
  <2>1. next \in RunRecords /\ next.epoch = s.epoch /\ next.spaces = s.spaces /\ next.phase = "spaces"
        /\ next.st = s.st /\ next.left = s.left \ {x} /\ next.sub = "cancel"
    <3> DEFINE rest == s.left \ {x}
    <3>1. rest \subseteq Spaces /\ 0 \in 0 .. MaxTries
      BY <1>2
    <3> HIDE DEF rest
    <3>2. [s EXCEPT !.left = rest, !.sub = "cancel", !.tries = 0] \in RunRecords
      BY <1>2, <3>1 DEF RunRecords
    <3>3. next = [s EXCEPT !.left = rest, !.sub = "cancel", !.tries = 0]
      BY DEF rest
    <3>4. next.epoch = s.epoch /\ next.spaces = s.spaces /\ next.phase = s.phase
          /\ next.st = s.st /\ next.left = s.left \ {x} /\ next.sub = "cancel"
      BY <1>2 DEF RunRecords
    <3> QED BY <1>1, <3>2, <3>3, <3>4
  <2>2. Worked(d, next)
    BY <1>12
  <2> HIDE DEF next
  <2>3. wr' \in [Writes -> SaveRecords]
    BY <1>4, <1>5, <1>12
  <2>4. Quieter
    BY <1>5, <1>12 DEF Quieter
  <2>5. Swept(next) \subseteq Swept(s) \cup {x}
    BY <1>1, <2>1 DEF Swept
  <2>6. \A w \in Writes : wr'[w].at # "none" /\ wr'[w].space = x => wr'[w].at # "stored"
    BY <1>12, <2>4 DEF Holds, In, Quieter
  <2>7. Clean(Swept(s), wr', barred') /\ Covered({x}, wr', barred') => Clean(Swept(next), wr', barred')
    BY <2>5, <2>6 DEF Clean, Covered
  <2> QED BY <1>1, <1>2, <1>4, <1>6, <1>12, <2>1, <2>2, <2>3, <2>4, <2>7, EraseStep DEF Through
<1> QED BY <1>3, <1>8, <1>9, <1>10, <1>11, <1>12

-----------------------------------------------------------------------------
(* The steps that move the project *)

LEMMA ProjectStep ==
  ASSUME LifecycleInv, NEW d \in Drivers, drv[d].at # "idle", NEW next, Onto(d, next), Worked(d, next),
         project' \in Projects, Moved, registry' \subseteq Spaces, Books',
         ended' \subseteq Requests, purged' \subseteq Writes,
         UNCHANGED <<ask, run, lease, books, faults, bumps>>
  PROVE  LifecycleInv'
<1>1. drv' \in [Drivers -> DriverRecords] /\ Rows' /\ Carried'
  BY AskSame, WorkKeeps DEF LifecycleInv
<1>2. LifecycleTypeOK'
  BY <1>1 DEF LifecycleInv, LifecycleTypeOK, books, Projects
<1> QED BY <1>1, <1>2 DEF LifecycleInv

\* The run of a step whose work moved the project is over.
LEMMA OverOnto ==
  ASSUME LifecycleInv, NEW d \in Drivers, drv[d].at # "idle", Seen(d).phase # "pending",
         project' \in Projects, Moved, NEW next \in {Done(Seen(d)), Terminal(Seen(d))}
  PROVE  Onto(d, next)
<1>1. Seen(d) \in RunRecords /\ Act(d) \in Actions /\ Kept(Seen(d), Act(d))
  BY Working
<1>2. project \in Projects
  BY DEF LifecycleInv, LifecycleTypeOK, Projects
<1>3. Sound(Seen(d), Act(d), project', registry', wr', barred')
  BY <1>1, <1>2, SoundOnward DEF Kept, Moved
<1>4. CASE next = Terminal(Seen(d))
  BY <1>3, <1>4, FailureKept DEF Onto
<1>5. CASE next = Done(Seen(d))
  <2>1. next \in RunRecords /\ next.epoch = Seen(d).epoch /\ next.phase = "done"
    BY <1>1, <1>5, RunEnds
  <2>2. next.st = "completed"
    BY <1>1, <1>5 DEF Done, RunRecords
  <2> QED BY <1>3, <2>1, <2>2, DoneSound DEF Onto
<1> QED BY <1>4, <1>5

LEMMA FenceKnown ==
  ASSUME NEW a \in Actions
  PROVE  /\ Fence[a] \in Fenced /\ Fence[a] \notin {"active", "archived", "deleted"}
         /\ StartsFrom(a) \subseteq {"active", "archived"}
         /\ a \in Erasing <=> Fence[a] \in Erasure
BY Fences4, FenceStates DEF Actions, Erasing, StartsFrom

LEMMA FenceProjectKeeps == ASSUME LifecycleInv, NEW d \in Drivers, FenceProject(d) PROVE LifecycleInv'
<1> DEFINE s == Seen(d)
           a == Act(d)
           fenced == [s EXCEPT !.st = "running", !.phase = "inventory"]
<1>1. drv[d].at # "idle" /\ s.phase = "pending"
      /\ UNCHANGED <<registry, ask, run, lease, books, faults, bumps, history>>
  BY DEF FenceProject, At
<1>2. s \in RunRecords /\ a \in Actions /\ s.epoch \in Nat
  BY <1>1, Working
<1>3. fenced \in RunRecords /\ fenced.phase = "inventory" /\ fenced.epoch = s.epoch
      /\ fenced.st = "running"
  BY <1>2 DEF RunRecords, Phases, ActiveRun
<1>4. project \in Projects
  BY DEF LifecycleInv, LifecycleTypeOK, Projects
<1>5. project' = [state |-> Fence[a], epoch |-> s.epoch]
      => \A g, x, b : Sound(fenced, a, project', g, x, b)
  <2> SUFFICES ASSUME project' = [state |-> Fence[a], epoch |-> s.epoch], NEW g, NEW x, NEW b
               PROVE  Sound(fenced, a, project', g, x, b)
    OBVIOUS
  <2> HIDE DEF fenced
  <2>1. Binds(fenced, a, project')
    BY <1>2, <1>3, Fences4 DEF Binds, PhasesOf
  <2> QED BY <1>3, <2>1 DEF Sound, Erases, Archives, Works
<1> HIDE DEF fenced
<1>6. CASE /\ Moves(StartsFrom(a), s.epoch - 1) /\ Worked(d, fenced)
           /\ project' = [state |-> Fence[a], epoch |-> s.epoch]
  <2>1. project.state \in {"active", "archived"} /\ project.epoch = s.epoch - 1
    BY <1>2, <1>6, FenceKnown DEF Moves
  <2>2. project' \in Projects /\ project'.state = Fence[a] /\ project'.epoch = project.epoch + 1
    BY <1>2, <1>6, <2>1, FenceKnown DEF Projects
  <2>3. UNCHANGED <<registry, wr, barred, purged>> /\ ended' \subseteq Requests /\ purged' \subseteq Writes
        /\ registry' \subseteq Spaces
    BY <1>1 DEF books, history, LifecycleInv, LifecycleTypeOK
  <2>4. Moved
    BY <1>4, <2>1, <2>2, <2>3 DEF Moved, Onward, Projects
  <2>5. Books'
    BY <1>2, <2>1, <2>2, <2>3, FenceKnown DEF LifecycleInv, Books, Registered, Purged, ArchivedIsQuiet
  <2>6. Onto(d, fenced)
    BY <1>3, <1>5, <1>6 DEF Onto
  <2> QED BY <1>1, <1>6, <2>2, <2>3, <2>4, <2>5, <2>6, ProjectStep
<1>7. CASE UNCHANGED project /\ Worked(d, Terminal(s))
  BY <1>1, <1>7, FailureKept, QuietStep, Leases
<1>8. CASE UNCHANGED project /\ Worked(d, fenced) /\ Stands(a, s.epoch)
  <2>1. Sound(fenced, a, project, registry, wr, barred)
    BY <1>5, <1>8 DEF Stands
  <2> QED BY <1>1, <1>3, <1>8, <2>1, QuietStep, Leases DEF Kept
<1> QED BY <1>6, <1>7, <1>8 DEF FenceProject, fenced

LEMMA VerifyArchiveKeeps == ASSUME LifecycleInv, NEW d \in Drivers, VerifyArchive(d) PROVE LifecycleInv'
<1> DEFINE s == Seen(d)
           moves == Moves({"archiving"}, s.epoch)
<1>1. drv[d].at # "idle" /\ s.phase = "verify" /\ Act(d) = "archive"
      /\ UNCHANGED <<registry, ask, run, lease, books, faults, bumps, purged>>
  BY DEF VerifyArchive, At
<1>2. s \in RunRecords /\ Kept(s, "archive") /\ s.st # "none" /\ s.spaces \subseteq Spaces
      /\ drv[d].run \in Requests
  BY <1>1, Working
<1>3. project \in Projects /\ ended \subseteq Requests /\ purged \subseteq Writes /\ registry \subseteq Spaces
  BY DEF LifecycleInv, LifecycleTypeOK, Projects
<1>4. CASE Worked(d, [s EXCEPT !.phase = "cancel_work", !.left = s.spaces]) /\ UNCHANGED <<project, ended>>
  <2> DEFINE next == [s EXCEPT !.phase = "cancel_work", !.left = s.spaces]
  <2>1. next \in RunRecords /\ next.phase = "cancel_work" /\ next.spaces = s.spaces /\ next.epoch = s.epoch
        /\ next.st = s.st
    BY <1>2 DEF RunRecords, Phases
  <2> HIDE DEF next
  <2>2. Works(next, project) /\ project.state = "archiving" => registry \subseteq next.spaces
    BY <1>1, <1>2, <2>1 DEF Kept, Sound, Archives, Works
  <2>3. Binds(next, "archive", project)
    BY <1>1, <1>2, <2>1 DEF Kept, Sound, Binds, PhasesOf
  <2>4. Kept(next, Act(d))
    BY <1>1, <2>2, <2>3 DEF Kept, Sound, Archives, Erases, Erasing
  <2> QED BY <1>1, <1>2, <1>4, <2>1, <2>4, QuietStep, Leases DEF next, history
<1>5. CASE /\ moves /\ (\A x \in s.spaces : Open(x) = {}) /\ Worked(d, Done(s))
           /\ project' = [project EXCEPT !.state = "archived"] /\ ended' = ended \cup {drv[d].run}
  <2>1. project.state = "archiving" /\ project.epoch = s.epoch
        /\ project' \in Projects /\ project'.state = "archived" /\ project'.epoch = project.epoch
    BY <1>3, <1>5 DEF Moves, Projects
  <2>2. Moved
    BY <1>1, <1>3, <2>1 DEF Moved, Onward, Projects, books
  <2>3. registry \subseteq s.spaces
    BY <1>1, <1>2, <2>1 DEF Kept, Sound, Archives, Works
  <2>4. ArchivedIsQuiet'
    BY <1>1, <1>5, <2>3 DEF ArchivedIsQuiet, Open, In, books
  <2>5. Registered' /\ Purged'
    BY <1>1, <2>1 DEF LifecycleInv, Books, Registered, Purged, books
  <2>6. Onto(d, Done(s))
    BY <1>1, <2>1, <2>2, OverOnto
  <2>7. ended' \subseteq Requests /\ purged' \subseteq Writes /\ registry' \subseteq Spaces /\ Books'
    BY <1>1, <1>2, <1>3, <1>5, <2>4, <2>5 DEF Books
  <2>8. Worked(d, Done(s)) /\ project' \in Projects
    BY <1>5, <2>1
  <2> QED BY <1>1, <2>2, <2>6, <2>7, <2>8, ProjectStep
<1>6. CASE Worked(d, Terminal(s)) /\ UNCHANGED <<project, ended>>
  BY <1>1, <1>6, FailureKept, QuietStep, Leases DEF history
<1> QED BY <1>4, <1>5, <1>6 DEF VerifyArchive

\* The last step of a restore, a purge or a deletion.
LEMMA FinishKeeps ==
  ASSUME LifecycleInv, NEW d \in Drivers, NEW to, NEW phase, Finish(d, phase, to),
         \/ phase \in {"reactivate", "reopen"} /\ to = "active" /\ UNCHANGED registry
         \/ phase = "tombstone" /\ to = "deleted" /\ registry' = {},
         NEW next \in {Done(Seen(d)), Terminal(Seen(d))}, Worked(d, next)
  PROVE  LifecycleInv'
<1> DEFINE s == Seen(d)
           a == Act(d)
           moves == Moves({Fence[a]}, s.epoch)
<1>1. drv[d].at # "idle" /\ s.phase = phase /\ s.phase # "pending"
      /\ UNCHANGED <<ask, run, lease, books, faults, bumps>>
  BY DEF Finish, At
<1>2. s \in RunRecords /\ Kept(s, a) /\ a \in Actions /\ s.phase \in PhasesOf(a)
      /\ drv[d].run \in Requests
  BY <1>1, Working
<1>3. \/ a \in {"restore", "memory_purge"} /\ to = "active" /\ UNCHANGED registry
      \/ a = "project_delete" /\ to = "deleted" /\ registry' = {}
  BY <1>1, <1>2 DEF PhasesOf, Actions
<1>4. project \in Projects /\ ended \subseteq Requests /\ purged \subseteq Writes /\ registry \subseteq Spaces
      /\ \A w \in Writes : wr[w].at \in {"none", "queued", "started", "claimed", "stored", "gone"}
  BY DEF LifecycleInv, LifecycleTypeOK, Projects
<1>5. UNCHANGED <<wr, barred>>
  BY <1>1 DEF books
<1>6. CASE moves
  <2>1. project.state = Fence[a] /\ project.epoch = s.epoch
        /\ project' = [state |-> to, epoch |-> project.epoch + 1]
    BY <1>6 DEF Finish, Moves
  <2>2. project' \in Projects /\ project'.state = to /\ project'.epoch = project.epoch + 1
    BY <1>3, <1>4, <2>1 DEF Projects
  <2>3. project.state \notin {"active", "archived", "deleted"}
        /\ (project.state = "deleting" => to = "deleted")
    BY <1>2, <1>3, <2>1, FenceKnown, Fences4
  <2>4. Moved
    BY <1>3, <1>4, <1>5, <2>2, <2>3 DEF Moved, Onward, Projects
  <2>5. ended' \subseteq Requests /\ purged' \subseteq Writes /\ registry' \subseteq Spaces
    BY <1>2, <1>3, <1>4 DEF Finish
  <2>6. Registered'
    BY <1>3, <1>5, <2>2, <2>3 DEF LifecycleInv, Books, Registered
  <2>7. ArchivedIsQuiet'
    BY <1>3, <2>2 DEF ArchivedIsQuiet
  <2>8. Purged'
    <3>1. CASE a \in Erasing
      <4>1. purged' = {w \in Writes : wr[w].at # "none"}
        BY <1>6, <3>1 DEF Finish
      <4>2. Works(s, project) /\ Swept(s) = s.spaces
        BY <1>1, <1>2, <2>1 DEF Works, Swept
      <4>3. registry \subseteq s.spaces /\ Clean(s.spaces, wr, barred)
        BY <1>2, <3>1, <4>2 DEF Kept, Sound, Erases
      <4>4. \A w \in Writes : wr[w].at # "none" => wr[w].space \in registry
        BY <2>3 DEF LifecycleInv, Books, Registered
      <4>5. \A w \in Writes : wr[w].at # "none" => w \in barred /\ wr[w].at # "stored"
        BY <4>3, <4>4 DEF Clean
      <4> QED BY <1>5, <4>1, <4>5 DEF Purged
    <3>2. CASE a \notin Erasing
      BY <1>5, <3>2 DEF Finish, LifecycleInv, Books, Purged
    <3> QED BY <3>1, <3>2
  <2>9. Onto(d, next)
    BY <1>1, <2>2, <2>4, OverOnto
  <2> QED BY <1>1, <2>2, <2>4, <2>5, <2>6, <2>7, <2>8, <2>9, ProjectStep DEF Books
<1>7. CASE ~moves
  <2>1. UNCHANGED <<project, ended, purged>>
    BY <1>7 DEF Finish
  <2>2. CASE a = "project_delete"
    <3>1. project.state = "deleted"
      BY <1>1, <1>2, <1>7, <2>2, Fences4 DEF Kept, Sound, Binds, Moves
    <3>2. registry' = {}
      BY <1>3, <2>2
    <3>3. Moved
      BY <1>4, <1>5, <2>1, <3>1, <3>2 DEF Moved, Onward, Projects
    <3>4. Books'
      BY <1>5, <2>1, <3>1, <3>2 DEF LifecycleInv, Books, Registered, Purged, ArchivedIsQuiet
    <3>5. Onto(d, next) /\ project' \in Projects
      BY <1>1, <1>4, <2>1, <3>3, OverOnto
    <3> QED BY <1>1, <1>4, <2>1, <3>2, <3>3, <3>4, <3>5, ProjectStep
  <2>3. CASE a # "project_delete"
    <3>1. UNCHANGED registry
      BY <1>3, <2>3
    <3>2. Moved /\ Books' /\ project' \in Projects
      BY <1>5, <2>1, <3>1, SameKeeps DEF Same
    <3>3. Onto(d, next)
      BY <1>1, <3>2, OverOnto
    <3> QED BY <1>1, <1>4, <2>1, <3>1, <3>2, <3>3, ProjectStep
  <2> QED BY <2>2, <2>3
<1> QED BY <1>6, <1>7

LEMMA ReopensKeeps ==
  ASSUME LifecycleInv, NEW d \in Drivers, NEW phase \in {"reactivate", "reopen"}, Reopens(d, phase)
  PROVE  LifecycleInv'
<1>1. Worked(d, Done(Seen(d))) \/ Worked(d, Terminal(Seen(d)))
  BY DEF Reopens
<1> QED BY <1>1, FinishKeeps DEF Reopens

LEMMA TombstoneKeeps == ASSUME LifecycleInv, NEW d \in Drivers, Tombstone(d) PROVE LifecycleInv'
<1>1. Worked(d, Done(Seen(d))) \/ Worked(d, Terminal(Seen(d)))
  BY DEF Tombstone
<1> QED BY <1>1, FinishKeeps DEF Tombstone

-----------------------------------------------------------------------------
(* The theorems *)

LEMMA InitHolds == LifecycleInit => LifecycleInv
<1> SUFFICES ASSUME LifecycleInit PROVE LifecycleInv
  OBVIOUS
<1>1. NoRun \in RunRecords /\ NoRun.st = "none" /\ NoRun.phase = "pending"
  BY DEF NoRun, RunRecords, Phases
<1>2. LifecycleTypeOK
  <2>1. run \in [Requests -> RunRecords]
    BY <1>1 DEF LifecycleInit
  <2>2. drv \in [Drivers -> DriverRecords]
    BY IdleRecord DEF LifecycleInit
  <2>3. ask \in [Requests -> AskRecords] /\ wr \in [Writes -> SaveRecords]
    BY DEF LifecycleInit, AskRecords, SaveRecords, Actions
  <2>4. project \in [state: {"active", "archived", "deleted"} \cup Fenced, epoch: Nat]
    BY DEF LifecycleInit
  <2> QED BY <2>1, <2>2, <2>3, <2>4 DEF LifecycleInit, LifecycleTypeOK, AskRecords, SaveRecords
<1>3. Rows /\ Carried
  BY <1>1 DEF LifecycleInit, Rows, Carried, Idle
<1>4. Books
  BY DEF LifecycleInit, Books, Registered, Purged, ArchivedIsQuiet, Open, In
<1> QED BY <1>2, <1>3, <1>4 DEF LifecycleInv

LEMMA StepsKeep == ASSUME LifecycleInv, NEW d \in Drivers, Steps(d) PROVE LifecycleInv'
<1>1. ASSUME Superseded(d) \/ Exhausted(d) \/ Inventory(d) \/ SpacesDone(d) \/ VerifyErased(d)
             \/ ControlPlane(d)
      PROVE  LifecycleInv'
  BY <1>1, SupersededKeeps, ExhaustedKeeps, InventoryKeeps, SpacesDoneKeeps, VerifyErasedKeeps,
     ControlPlaneKeeps
<1>2. ASSUME Quiesce(d) \/ EraseSpace(d) PROVE LifecycleInv'
  BY <1>2, QuiesceKeeps, EraseSpaceKeeps
<1>3. ASSUME FenceProject(d) \/ VerifyArchive(d) \/ Reactivate(d) \/ Reopen(d) \/ Tombstone(d)
      PROVE  LifecycleInv'
  BY <1>3, FenceProjectKeeps, VerifyArchiveKeeps, ReopensKeeps, TombstoneKeeps DEF Reactivate, Reopen
<1> QED BY <1>1, <1>2, <1>3 DEF Steps

LEMMA StutterKeeps == ASSUME LifecycleInv, UNCHANGED vars PROVE LifecycleInv'
<1>1. Moved /\ Books' /\ project' \in Projects
  BY SameKeeps DEF Same, vars
<1>2. Rows' /\ Carried'
  BY <1>1, AskSame, RowsOnward, AllCarriedOnward DEF LifecycleInv, vars
<1>3. LifecycleTypeOK'
  BY DEF LifecycleInv, LifecycleTypeOK, vars
<1> QED BY <1>1, <1>2, <1>3 DEF LifecycleInv

LEMMA NextKeeps == LifecycleInv /\ [LifecycleNext]_vars => LifecycleInv'
<1> SUFFICES ASSUME LifecycleInv, [LifecycleNext]_vars PROVE LifecycleInv'
  OBVIOUS
<1>1. ASSUME NEW r \in Requests, Preview(r) \/ Confirm(r) \/ InsertRun(r) \/ Cancel(r) \/ Resume(r)
      PROVE  LifecycleInv'
  BY <1>1, PreviewKeeps, ConfirmKeeps, InsertRunKeeps, CancelKeeps, ResumeKeeps
<1>2. ASSUME NEW w \in Writes, Accept(w) \/ Start(w) \/ Claim(w) \/ Commit(w)
      PROVE  LifecycleInv'
  BY <1>2, AcceptKeeps, StartKeeps, ClaimKeeps, CommitKeeps
<1>3. ASSUME NEW s \in Spaces, LateRow(s) PROVE LifecycleInv'
  BY <1>3, LateRowKeeps
<1>4. ASSUME NEW d \in Drivers, NEW r \in Requests, Drive(d, r) PROVE LifecycleInv'
  BY <1>4, DriveKeeps
<1>5. ASSUME NEW d \in Drivers,
             Load(d) \/ Release(d) \/ Die(d) \/ Save(d) \/ Steps(d) \/ Retryable(d)
      PROVE  LifecycleInv'
  BY <1>5, LoadKeeps, ReleaseKeeps, DieKeeps, SaveKeeps, StepsKeep, RetryableKeeps
<1> QED BY <1>1, <1>2, <1>3, <1>4, <1>5, TransferKeeps, StutterKeeps DEF LifecycleNext

\* Whatever a run has written down of its progress, in its row or with a driver that
\* may be long behind, is true of the project, its registry and its memory.
THEOREM Invariant == LifecycleSpec => []LifecycleInv
BY InitHolds, NextKeeps, PTL DEF LifecycleSpec

\* Every variable of the lifecycle has its type, for any number of requests and drivers.
THEOREM TypeCorrect == LifecycleSpec => []LifecycleTypeOK
<1>1. LifecycleInv => LifecycleTypeOK
  BY DEF LifecycleInv
<1> QED BY <1>1, Invariant, PTL

\* Memory accepted before a finished purge or deletion is gone and does not come back,
\* also if a step outlasts the lease and two drivers work on one run
\* (src/lib/project_lifecycle.js, advancePhase).
THEOREM PurgesLast == LifecycleSpec => []PurgedStaysPurged
<1>1. LifecycleInv => PurgedStaysPurged
  BY DEF LifecycleInv, Books, Purged, PurgedStaysPurged
<1> QED BY <1>1, Invariant, PTL

\* An archived project has no open job in a registered space: the inventory of the run
\* holds every space, also one registered just before the fence.
THEOREM ArchivesAreQuiet == LifecycleSpec => []ArchivedIsQuiet
<1>1. LifecycleInv => ArchivedIsQuiet
  BY DEF LifecycleInv, Books
<1> QED BY <1>1, Invariant, PTL

\* What the row of an erasure says it has done is so, however many drivers work on its
\* run at once and however old what they carry is (saveRun, advanceDestructive).
THEOREM CheckpointsHold == LifecycleSpec => []CheckpointHolds
<1>1. ASSUME LifecycleInv, NEW r \in Requests, ask[r].act \in Erasing, Works(run[r], project)
      PROVE  /\ registry \subseteq run[r].spaces
             /\ \A s \in Swept(run[r]) : \A w \in In(s) : w \in barred /\ wr[w].at # "stored"
  <2>1. run[r].st # "none"
    BY <1>1 DEF LifecycleInv, Rows, Works
  <2>2. Erases(run[r], ask[r].act, project, registry, wr, barred)
    BY <1>1, <2>1 DEF LifecycleInv, Rows, Held, Kept, Sound
  <2> QED BY <1>1, <2>2 DEF Erases, Clean, In
<1>2. LifecycleInv => CheckpointHolds
  BY <1>1 DEF CheckpointHolds
<1> QED BY <1>2, Invariant, PTL

\* Only the fence of a run leads into an erasure, and it binds the epoch of the preview.
LEMMA OnlyFenceErases ==
  ASSUME LifecycleInv, [LifecycleNext]_vars, project.state \notin Erasure, project'.state \in Erasure
  PROVE  \E d \in Drivers : FenceProject(d)
<1>1. project' # project
  OBVIOUS
<1>2. ASSUME Transfer PROVE FALSE
  <2>1. project'.state = project.state
    BY <1>2 DEF Transfer, LifecycleInv, LifecycleTypeOK
  <2> QED BY <2>1
<1>3. ASSUME NEW d \in Drivers, VerifyArchive(d) PROVE FALSE
  <2>1. project' = [project EXCEPT !.state = "archived"] /\ project \in Projects
    BY <1>1, <1>3 DEF VerifyArchive, LifecycleInv, LifecycleTypeOK, Projects
  <2>2. project'.state = "archived"
    BY <2>1 DEF Projects
  <2> QED BY <2>2, FenceStates
<1>4. ASSUME NEW d \in Drivers, Reactivate(d) \/ Reopen(d) \/ Tombstone(d) PROVE FALSE
  <2>1. project'.state \in {"active", "deleted"}
    BY <1>1, <1>4 DEF Reactivate, Reopen, Reopens, Tombstone, Finish
  <2> QED BY <2>1, FenceStates
<1>5. ASSUME NEW r \in Requests, Preview(r) \/ Confirm(r) \/ InsertRun(r) \/ Cancel(r) \/ Resume(r)
      PROVE  FALSE
  BY <1>1, <1>5 DEF Preview, Confirm, InsertRun, Cancel, Resume
<1>6. ASSUME NEW w \in Writes, Accept(w) \/ Start(w) \/ Claim(w) \/ Commit(w) PROVE FALSE
  BY <1>1, <1>6 DEF Accept, Start, Claim, Commit
<1>7. ASSUME NEW d \in Drivers, Load(d) \/ Release(d) \/ Die(d) \/ Save(d) \/ Retryable(d) PROVE FALSE
  BY <1>1, <1>7 DEF Load, Release, Die, Save, Retryable
<1>8. ASSUME NEW d \in Drivers, NEW r \in Requests, Drive(d, r) PROVE FALSE
  BY <1>1, <1>8 DEF Drive
<1>9. ASSUME NEW s \in Spaces, LateRow(s) PROVE FALSE
  BY <1>1, <1>9 DEF LateRow
<1>10. ASSUME NEW d \in Drivers, Superseded(d) \/ Exhausted(d) \/ Inventory(d) \/ Quiesce(d)
              \/ EraseSpace(d) \/ SpacesDone(d) \/ VerifyErased(d) \/ ControlPlane(d)
       PROVE  FALSE
  BY <1>1, <1>10 DEF Superseded, Exhausted, Inventory, Quiesce, EraseSpace, SpacesDone, VerifyErased,
                     ControlPlane
<1>11. ASSUME NEW d \in Drivers, Steps(d) PROVE FenceProject(d)
  BY <1>3, <1>4, <1>10, <1>11 DEF Steps
<1>12. UNCHANGED vars => FALSE
  BY <1>1 DEF vars
<1> QED BY <1>2, <1>5, <1>6, <1>7, <1>8, <1>9, <1>11, <1>12 DEF LifecycleNext

\* A project is fenced for an erasure only in the epoch that was previewed
\* (transitionProject under fence_expect).
THEOREM FencesAsPreviewed == LifecycleSpec => PreviewedIsErased
<1>1. ASSUME LifecycleInv, [LifecycleNext]_vars, project.state \notin Erasure, project'.state \in Erasure
      PROVE  \E r \in Requests : /\ ask[r].st = "accepted" /\ Fence[ask[r].act] = project'.state
                                /\ ask[r].epoch = project.epoch
  <2>1. PICK d \in Drivers : FenceProject(d)
    BY <1>1, OnlyFenceErases
  <2>2. drv[d].at # "idle"
    BY <2>1 DEF FenceProject, At
  <2>3. /\ drv[d].run \in Requests /\ ask[drv[d].run].st = "accepted"
        /\ Seen(d).epoch = ask[drv[d].run].epoch + 1 /\ Seen(d).epoch \in Nat
    BY <1>1, <2>2, Working
  <2>4. Moves(StartsFrom(Act(d)), Seen(d).epoch - 1) /\ project' = [state |-> Fence[Act(d)], epoch |-> Seen(d).epoch]
    BY <1>1, <2>1 DEF FenceProject
  <2>5. ask[drv[d].run].epoch \in Nat
    BY <1>1, <2>3 DEF LifecycleInv, LifecycleTypeOK
  <2>6. project.epoch = ask[drv[d].run].epoch
    BY <2>3, <2>4, <2>5 DEF Moves
  <2>7. Fence[ask[drv[d].run].act] = project'.state
    BY <2>4 DEF Act
  <2> QED BY <2>3, <2>6, <2>7
<1>2. LifecycleInv /\ [LifecycleNext]_vars
      => [project.state \notin Erasure /\ project'.state \in Erasure
          => \E r \in Requests :
               /\ ask[r].st = "accepted" /\ Fence[ask[r].act] = project'.state
               /\ ask[r].epoch = project.epoch]_vars
  BY <1>1
<1> QED BY <1>2, Invariant, PTL DEF LifecycleSpec, PreviewedIsErased
-----------------------------------------------------------------------------
(* One driver at a time.  Where no step outlasts its lease, whoever works   *)
(* on a run holds its lease, and whoever has loaded a run past its fence    *)
(* works on the one run of the project that is not over: the fence cannot   *)
(* move under an erasure.                                                   *)

Underway(s) == s.st \in ActiveRun /\ s.phase # "pending"

\* The driver is in a step of an erasure, its epoch compared with that of the project.
Removes(d) ==
    /\ drv[d].at = "loaded" /\ Seen(d).phase \notin {"pending", "done"}
    /\ drv[d].epoch = Seen(d).epoch /\ Act(d) \in Erasing

Exclusive == \A d \in Drivers : drv[d].at # "idle" => lease[drv[d].run] = d
Sole == \A r, q \in Requests : run[r].st \in ActiveRun /\ run[q].st \in ActiveRun => r = q
Fresh ==
    \A d \in Drivers :
        /\ drv[d].at # "idle" /\ Underway(Seen(d)) => Underway(run[drv[d].run])
        /\ drv[d].at \in {"loaded", "worked"} => Seen(d).st \in ActiveRun
Current == \A d \in Drivers : Removes(d) => project.epoch = Seen(d).epoch

AloneInv == Exclusive /\ Sole /\ Fresh /\ Current

LEMMA FenceUpright ==
  ASSUME LifecycleInv, Current, NEW d \in Drivers, Removes(d)
  PROVE  project.state = Fence[Act(d)] /\ project.state \in Erasure
<1>1. Kept(Seen(d), Act(d)) /\ Act(d) \in Erasing
  BY Working DEF Removes
<1>2. Seen(d).phase \notin {"pending", "done"} /\ Seen(d).epoch = project.epoch
  BY DEF Removes, Current
<1> QED BY <1>1, <1>2 DEF Kept, Sound, Erases, Erasure

\* Of all drivers one at most has loaded a run that is past its fence.
LEMMA OnlyOne ==
  ASSUME AloneInv, LifecycleInv, NEW d \in Drivers, NEW e \in Drivers, Removes(e),
         drv[d].at = "loaded", Seen(d).phase # "pending"
  PROVE  d = e
<1>1. drv[d].run \in Requests /\ drv[e].run \in Requests
  BY DriverTypes DEF Removes, LifecycleInv
<1>2. Underway(Seen(d)) /\ Underway(Seen(e))
  BY DEF AloneInv, Fresh, Underway, Removes
<1>3. run[drv[d].run].st \in ActiveRun /\ run[drv[e].run].st \in ActiveRun
  BY <1>2 DEF AloneInv, Fresh, Underway, Removes
<1>4. drv[d].run = drv[e].run
  BY <1>1, <1>3 DEF AloneInv, Sole
<1> QED BY <1>4 DEF AloneInv, Exclusive, Removes

\* What a request asks for does not change under its run.
LEMMA ActKept ==
  ASSUME LifecycleInv, AskKept, NEW d \in Drivers, drv[d].at # "idle"
  PROVE  ask'[drv[d].run] = ask[drv[d].run]
BY Working DEF AskKept

\* The requests and the writers leave the drivers alone.
LEMMA RunAlone ==
  ASSUME LifecycleInv, AloneInv, AskKept, UNCHANGED <<project, lease, drv>>,
         Sole', \A r \in Requests : Underway(run[r]) => Underway(run'[r])
  PROVE  AloneInv'
<1>1. \A d \in Drivers : drv[d].at # "idle" => drv[d].run \in Requests /\ ask'[drv[d].run] = ask[drv[d].run]
  BY ActKept, Working
<1>2. Exclusive'
  BY DEF AloneInv, Exclusive
<1>3. Fresh'
  BY <1>1 DEF AloneInv, Fresh, Underway, Seen
<1>4. Current'
  BY <1>1 DEF AloneInv, Current, Removes, Seen, Act
<1> QED BY <1>2, <1>3, <1>4 DEF AloneInv

LEMMA RestAlone ==
  ASSUME LifecycleInv, AloneInv, AskKept, UNCHANGED <<project, run, lease, drv>>
  PROVE  AloneInv'
<1>1. Sole' /\ \A r \in Requests : Underway(run[r]) => Underway(run'[r])
  BY DEF AloneInv, Sole
<1> QED BY <1>1, RunAlone

LEMMA RequestAlone ==
  ASSUME LifecycleInv, AloneInv, NEW r \in Requests,
         Preview(r) \/ Confirm(r) \/ InsertRun(r) \/ Cancel(r) \/ Resume(r)
  PROVE  AloneInv'
<1>1. ask \in [Requests -> AskRecords] /\ run \in [Requests -> RunRecords]
  BY DEF LifecycleInv, LifecycleTypeOK, AskRecords
<1>2. CASE Preview(r) \/ Confirm(r)
  <2>1. AskKept
    BY <1>1, <1>2 DEF AskKept, Preview, Confirm
  <2> QED BY <1>2, <2>1, RestAlone DEF Preview, Confirm
<1>3. CASE InsertRun(r)
  <2>1. ask[r].st = "confirmed" /\ UNCHANGED <<project, lease, drv>>
    BY <1>3 DEF InsertRun
  <2>2. AskKept
    BY <1>1, <1>3, <2>1 DEF AskKept, InsertRun
  <2>3. CASE Active = {}
    <3>1. \A q \in Requests : run[q].st \notin ActiveRun
      BY <2>3 DEF Active
    <3>2. \A q \in Requests \ {r} : run'[q] = run[q]
      BY <1>1, <1>3, <2>3 DEF InsertRun
    <3>3. Sole' /\ \A q \in Requests : Underway(run[q]) => Underway(run'[q])
      BY <3>1, <3>2 DEF Sole, Underway
    <3> QED BY <2>1, <2>2, <3>3, RunAlone
  <2>4. CASE Active # {}
    <3>1. UNCHANGED run
      BY <1>3, <2>4 DEF InsertRun
    <3> QED BY <2>1, <2>2, <3>1, RestAlone
  <2> QED BY <2>3, <2>4
<1>4. CASE Cancel(r) \/ Resume(r)
  <2>1. UNCHANGED <<project, ask, lease, drv>>
    BY <1>4 DEF Cancel, Resume
  <2>2. PICK st \in ActiveRun \cup TerminalRun :
          /\ run' = [run EXCEPT ![r].st = st]
          /\ st \in ActiveRun => run[r].st \in ActiveRun
          /\ Underway(run[r]) => st \in ActiveRun
    BY <1>1, <1>4 DEF Cancel, Resume, ActiveRun, TerminalRun, Underway
  <2>3. run'[r].st = st /\ run'[r].phase = run[r].phase /\ \A q \in Requests \ {r} : run'[q] = run[q]
    BY <1>1, <2>2 DEF RunRecords
  <2>4. Sole' /\ \A q \in Requests : Underway(run[q]) => Underway(run'[q])
    BY <2>2, <2>3 DEF AloneInv, Sole, Underway
  <2> QED BY <2>1, <2>4, AskSame, RunAlone
<1> QED BY <1>2, <1>3, <1>4

LEMMA WriterAlone ==
  ASSUME LifecycleInv, AloneInv,
         \/ \E w \in Writes : Accept(w) \/ Start(w) \/ Claim(w) \/ Commit(w)
         \/ \E s \in Spaces : LateRow(s)
  PROVE  AloneInv'
<1>1. UNCHANGED <<project, ask, run, lease, drv>>
  BY DEF Accept, Start, Claim, Commit, LateRow
<1> QED BY <1>1, AskSame, RestAlone

\* A transfer needs an active project, and none is active that is being erased.
LEMMA TransferAlone ==
  ASSUME LifecycleInv, AloneInv, Transfer
  PROVE  AloneInv'
<1>1. project.state = "active" /\ UNCHANGED <<ask, run, lease, drv>>
  BY DEF Transfer
<1>2. \A d \in Drivers : ~Removes(d)
  BY <1>1, FenceUpright, FenceStates DEF AloneInv
<1>3. Current'
  BY <1>1, <1>2 DEF Current, Removes, Seen, Act
<1> QED BY <1>1, <1>3 DEF AloneInv, Exclusive, Sole, Fresh, Underway, Seen

-----------------------------------------------------------------------------
(* The driver itself *)

\* A driver takes, gives up or loses a lease, or loads the project.
LEMMA DriverAlone ==
  ASSUME LifecycleInv, AloneInv, NEW d \in Drivers, NEW new, drv' = [drv EXCEPT ![d] = new],
         UNCHANGED <<project, ask, run>>,
         \A e \in Drivers \ {d} : drv[e].at # "idle" => lease'[drv[e].run] = e,
         new.at # "idle" =>
           /\ lease'[new.run] = d
           /\ Underway(new.seen) => Underway(run[new.run])
           /\ new.at \in {"loaded", "worked"} => new.seen.st \in ActiveRun
           /\ new.at = "loaded" => new.epoch = project.epoch
  PROVE  AloneInv'
<1>1. drv'[d] = new /\ \A e \in Drivers \ {d} : drv'[e] = drv[e]
  BY DEF LifecycleInv, LifecycleTypeOK
<1>2. Exclusive'
  BY <1>1 DEF Exclusive
<1>3. Sole'
  BY DEF AloneInv, Sole
<1>4. Fresh'
  <2> SUFFICES ASSUME NEW e \in Drivers
               PROVE  /\ drv'[e].at # "idle" /\ Underway(drv'[e].seen) => Underway(run[drv'[e].run])
                      /\ drv'[e].at \in {"loaded", "worked"} => drv'[e].seen.st \in ActiveRun
    BY DEF Fresh, Seen, Underway
  <2>1. CASE e = d
    BY <1>1, <2>1
  <2>2. CASE e # d
    BY <1>1, <2>2 DEF AloneInv, Fresh, Seen
  <2> QED BY <2>1, <2>2
<1>5. Current'
  BY <1>1 DEF AloneInv, Current, Removes, Seen, Act
<1> QED BY <1>2, <1>3, <1>4, <1>5 DEF AloneInv

\* A lease in use is not taken.
LEMMA DriveAlone ==
  ASSUME ~SlowDrivers, LifecycleInv, AloneInv, NEW d \in Drivers, NEW r \in Requests, Drive(d, r)
  PROVE  AloneInv'
<1> DEFINE new == [at |-> "claimed", run |-> r, seen |-> run[r]]
<1>1. drv' = [drv EXCEPT ![d] = new] /\ lease' = [lease EXCEPT ![r] = d] /\ Lapsed(r)
      /\ UNCHANGED <<project, ask, run>>
  BY DEF Drive
<1>2. \A e \in Drivers : drv[e].at # "idle" => drv[e].run # r
  <2> SUFFICES ASSUME NEW e \in Drivers, drv[e].at # "idle", drv[e].run = r PROVE FALSE
    OBVIOUS
  <2>1. lease[r] = e /\ e # NoDriver
    BY DriverAssumption DEF AloneInv, Exclusive
  <2> QED BY <1>1, <2>1 DEF Lapsed
<1>3. \A e \in Drivers \ {d} : drv[e].at # "idle" => lease'[drv[e].run] = e
  BY <1>1, <1>2, Leases, Working DEF AloneInv, Exclusive
<1>4. lease'[r] = d
  BY <1>1, Leases
<1>5. new.at = "claimed" /\ new.run = r /\ new.seen = run[r]
  OBVIOUS
<1> HIDE DEF new
<1> QED BY <1>1, <1>3, <1>4, <1>5, DriverAlone

LEMMA LoadAlone ==
  ASSUME LifecycleInv, AloneInv, NEW d \in Drivers, Load(d)
  PROVE  AloneInv'
<1> DEFINE new == [at |-> "loaded", run |-> drv[d].run, seen |-> drv[d].seen, epoch |-> project.epoch]
<1>1. drv' = [drv EXCEPT ![d] = new] /\ UNCHANGED <<project, ask, run, lease>> /\ drv[d].at # "idle"
      /\ drv[d].seen.st \in ActiveRun
  BY DEF Load, Drives
<1>2. new.at = "loaded" /\ new.run = drv[d].run /\ new.seen = drv[d].seen /\ new.epoch = project.epoch
  OBVIOUS
<1> HIDE DEF new
<1>3. lease'[drv[d].run] = d /\ (Underway(drv[d].seen) => Underway(run[drv[d].run]))
      /\ \A e \in Drivers \ {d} : drv[e].at # "idle" => lease'[drv[e].run] = e
  BY <1>1 DEF AloneInv, Exclusive, Fresh, Seen
<1> QED BY <1>1, <1>2, <1>3, DriverAlone

LEMMA LeaveAlone ==
  ASSUME LifecycleInv, AloneInv, NEW d \in Drivers, Release(d) \/ Die(d)
  PROVE  AloneInv'
<1>1. drv' = [drv EXCEPT ![d] = Idle] /\ UNCHANGED <<project, ask, run>>
  BY DEF Release, Die
<1>2. \A e \in Drivers \ {d} : drv[e].at # "idle" => lease'[drv[e].run] = e
  <2> SUFFICES ASSUME NEW e \in Drivers \ {d}, drv[e].at # "idle" PROVE lease'[drv[e].run] = e
    OBVIOUS
  <2>1. lease[drv[e].run] = e /\ drv[e].run \in Requests
    BY Working DEF AloneInv, Exclusive
  <2>2. CASE Release(d)
    <3>1. lease[drv[d].run] = d
      BY <2>2 DEF Release, AloneInv, Exclusive
    <3>2. drv[e].run # drv[d].run
      BY <2>1, <3>1
    <3> QED BY <2>1, <2>2, <3>2, Leases DEF Release
  <2>3. CASE Die(d)
    BY <2>1, <2>3 DEF Die
  <2> QED BY <2>2, <2>3
<1> QED BY <1>1, <1>2, IdleRecord, DriverAlone

\* A save changes the row of the run only, and no other driver has loaded that.
LEMMA SaveAlone ==
  ASSUME LifecycleInv, AloneInv, NEW d \in Drivers, Save(d)
  PROVE  AloneInv'
<1> DEFINE r == drv[d].run
           new == [at |-> "ready", run |-> r, seen |-> run'[r]]
<1>1. drv[d].at = "worked" /\ drv' = [drv EXCEPT ![d] = new] /\ UNCHANGED <<project, ask, lease>>
  BY DEF Save
<1>2. r \in Requests /\ run \in [Requests -> RunRecords]
  BY <1>1, Working DEF LifecycleInv, LifecycleTypeOK
<1>3. drv'[d] = new /\ \A e \in Drivers \ {d} : drv'[e] = drv[e]
  BY <1>1 DEF LifecycleInv, LifecycleTypeOK
<1>4. \/ UNCHANGED run
      \/ /\ [run[r] EXCEPT !.spent = drv[d].seen.spent] = drv[d].seen
         /\ run' = [run EXCEPT ![r] = drv[d].next]
  BY DEF Save
<1>5. \A q \in Requests \ {r} : run'[q] = run[q]
  BY <1>2, <1>4
<1>6. run'[r].st \in ActiveRun => run[r].st \in ActiveRun
  <2>1. CASE UNCHANGED run
    BY <2>1
  <2>2. CASE [run[r] EXCEPT !.spent = drv[d].seen.spent] = drv[d].seen
    <3>1. run[r].st = drv[d].seen.st
      BY <1>2, <2>2 DEF RunRecords
    <3>2. drv[d].seen.st \in ActiveRun
      BY <1>1 DEF AloneInv, Fresh, Seen
    <3> QED BY <3>1, <3>2
  <2> QED BY <1>4, <2>1, <2>2
<1>7. new.at = "ready" /\ new.run = r /\ new.seen = run'[r]
  OBVIOUS
<1> HIDE DEF new
<1>8. Exclusive'
  BY <1>1, <1>3, <1>7 DEF AloneInv, Exclusive
<1>9. Sole'
  BY <1>2, <1>5, <1>6 DEF AloneInv, Sole
<1>10. ASSUME NEW e \in Drivers \ {d}, drv[e].at # "idle" PROVE run'[drv[e].run] = run[drv[e].run]
  <2>1. drv[e].run # r /\ drv[e].run \in Requests
    BY <1>1, <1>10, Working DEF AloneInv, Exclusive
  <2> QED BY <1>5, <2>1
<1>11. Fresh'
  <2> SUFFICES ASSUME NEW e \in Drivers
               PROVE  /\ drv'[e].at # "idle" /\ Underway(drv'[e].seen) => Underway(run'[drv'[e].run])
                      /\ drv'[e].at \in {"loaded", "worked"} => drv'[e].seen.st \in ActiveRun
    BY DEF Fresh, Seen, Underway
  <2>1. CASE e = d
    BY <1>3, <1>7, <2>1
  <2>2. CASE e # d
    BY <1>3, <1>10, <2>2 DEF AloneInv, Fresh, Seen
  <2> QED BY <2>1, <2>2
<1>12. Current'
  BY <1>1, <1>3, <1>7 DEF AloneInv, Current, Removes, Seen, Act
<1> QED BY <1>8, <1>9, <1>11, <1>12 DEF AloneInv

-----------------------------------------------------------------------------
(* The steps *)

LEMMA StepAlone ==
  ASSUME LifecycleInv, AloneInv, NEW d \in Drivers, drv[d].at # "idle", Seen(d).st \in ActiveRun,
         NEW next, Worked(d, next), AskKept, UNCHANGED <<run, lease>>,
         \A e \in Drivers \ {d} : Removes(e) => project'.epoch = project.epoch
  PROVE  AloneInv'
<1>1. /\ drv'[d].at = "worked" /\ drv'[d].run = drv[d].run /\ drv'[d].seen = drv[d].seen
      /\ \A e \in Drivers \ {d} : drv'[e] = drv[e]
  BY DEF LifecycleInv, LifecycleTypeOK, Worked
<1>2. Exclusive' /\ Sole'
  BY <1>1 DEF AloneInv, Exclusive, Sole
<1>3. Fresh'
  <2> SUFFICES ASSUME NEW e \in Drivers
               PROVE  /\ drv'[e].at # "idle" /\ Underway(drv'[e].seen) => Underway(run[drv'[e].run])
                      /\ drv'[e].at \in {"loaded", "worked"} => drv'[e].seen.st \in ActiveRun
    BY DEF Fresh, Seen, Underway
  <2>1. CASE e = d
    BY <1>1, <2>1 DEF AloneInv, Fresh, Seen
  <2>2. CASE e # d
    BY <1>1, <2>2 DEF AloneInv, Fresh, Seen
  <2> QED BY <2>1, <2>2
<1>4. Current'
  <2> SUFFICES ASSUME NEW e \in Drivers, Removes(e)' PROVE project'.epoch = Seen(e)'.epoch
    BY DEF Current
  <2>1. e # d /\ drv'[e] = drv[e]
    BY <1>1 DEF Removes
  <2>2. ask'[drv[e].run] = ask[drv[e].run]
    BY <2>1, ActKept DEF Removes
  <2>3. Removes(e)
    BY <2>1, <2>2 DEF Removes, Seen, Act
  <2> QED BY <2>1, <2>3 DEF AloneInv, Current, Seen
<1> QED BY <1>2, <1>3, <1>4 DEF AloneInv

\* A driver that has loaded the project for a step works on a run that stands.
LEMMA AtLoaded ==
  ASSUME AloneInv, NEW d \in Drivers, drv[d].at \in {"loaded", "worked"}
  PROVE  drv[d].at # "idle" /\ Seen(d).st \in ActiveRun
BY DEF AloneInv, Fresh

\* The steps that leave the project as it is.
LEMMA QuietAlone ==
  ASSUME LifecycleInv, AloneInv, NEW d \in Drivers,
         \/ Superseded(d) \/ Exhausted(d) \/ Inventory(d) \/ Quiesce(d) \/ EraseSpace(d)
         \/ SpacesDone(d) \/ VerifyErased(d) \/ ControlPlane(d) \/ Retryable(d)
  PROVE  AloneInv'
<1>1. UNCHANGED <<project, run, lease>>
  BY DEF Superseded, Exhausted, Inventory, Quiesce, EraseSpace, SpacesDone, VerifyErased,
         ControlPlane, Retryable
<1>2. AskKept
  <2>1. CASE ControlPlane(d)
    BY <2>1 DEF ControlPlane, AskKept, LifecycleInv, LifecycleTypeOK
  <2>2. CASE ~ControlPlane(d)
    BY <2>2, AskSame DEF Superseded, Exhausted, Inventory, Quiesce, EraseSpace, SpacesDone,
                         VerifyErased, Retryable
  <2> QED BY <2>1, <2>2
<1>3. drv[d].at # "idle" /\ Seen(d).st \in ActiveRun
  <2>1. CASE Exhausted(d)
    BY <2>1 DEF Exhausted, Drives, Seen
  <2>2. CASE ~Exhausted(d)
    BY <2>2, AtLoaded DEF Superseded, Inventory, Quiesce, EraseSpace, SpacesDone, VerifyErased,
                          ControlPlane, Retryable, At
  <2> QED BY <2>1, <2>2
<1>4. \E next : Worked(d, next)
  BY DEF Superseded, Exhausted, Inventory, Quiesce, EraseSpace, SpacesDone, VerifyErased,
         ControlPlane, Retryable
<1> QED BY <1>1, <1>2, <1>3, <1>4, StepAlone

\* The fence goes up over a project that is active or archived.
LEMMA FenceAlone ==
  ASSUME LifecycleInv, AloneInv, NEW d \in Drivers, FenceProject(d)
  PROVE  AloneInv'
<1>1. drv[d].at = "loaded" /\ UNCHANGED <<ask, run, lease>> /\ \E next : Worked(d, next)
  BY DEF FenceProject, At
<1>2. ASSUME NEW e \in Drivers, Removes(e) PROVE UNCHANGED project
  <2>1. project.state \in Erasure
    BY <1>2, FenceUpright DEF AloneInv
  <2>2. Act(d) \in Actions
    BY <1>1, Working
  <2>3. project.state \notin StartsFrom(Act(d))
    BY <2>1, <2>2, FenceStates DEF StartsFrom, Actions, Erasing
  <2> QED BY <2>3 DEF FenceProject, Moves
<1> QED BY <1>1, <1>2, AskSame, AtLoaded, StepAlone

\* Only a driver whose run is past its fence moves the project on, and that is the one
\* that erases, if one does.
LEMMA EndAlone ==
  ASSUME LifecycleInv, AloneInv, NEW d \in Drivers,
         VerifyArchive(d) \/ Reactivate(d) \/ Reopen(d) \/ Tombstone(d)
  PROVE  AloneInv'
<1>1. drv[d].at = "loaded" /\ Seen(d).phase # "pending" /\ UNCHANGED <<ask, run, lease>>
  BY DEF VerifyArchive, Reactivate, Reopen, Reopens, Tombstone, Finish, At
<1>2. \E next : Worked(d, next)
  BY DEF VerifyArchive, Reactivate, Reopen, Reopens, Tombstone
<1>3. \A e \in Drivers \ {d} : ~Removes(e)
  BY <1>1, OnlyOne
<1> QED BY <1>1, <1>2, <1>3, AskSame, AtLoaded, StepAlone

LEMMA NextAlone ==
  ASSUME ~SlowDrivers, LifecycleInv, AloneInv, [LifecycleNext]_vars
  PROVE  AloneInv'
<1>1. ASSUME NEW d \in Drivers, Steps(d) \/ Retryable(d) PROVE AloneInv'
  BY <1>1, QuietAlone, FenceAlone, EndAlone DEF Steps
<1>2. ASSUME NEW d \in Drivers, \/ \E r \in Requests : Drive(d, r)
                               \/ Load(d) \/ Release(d) \/ Die(d) \/ Save(d)
      PROVE  AloneInv'
  BY <1>2, DriveAlone, LoadAlone, LeaveAlone, SaveAlone
<1>3. CASE UNCHANGED vars
  BY <1>3, AskSame, RestAlone DEF vars
<1> QED BY <1>1, <1>2, <1>3, RequestAlone, WriterAlone, TransferAlone DEF LifecycleNext

\* Nothing but the erasure of a space takes a stored save away.
LEMMA OnlyErasureRemoves ==
  ASSUME LifecycleInv, [LifecycleNext]_vars, NEW w \in Writes, wr[w].at = "stored", wr'[w].at # "stored"
  PROVE  \E d \in Drivers : EraseSpace(d)
<1>1. wr \in [Writes -> SaveRecords] /\ wr'[w] # wr[w]
  BY Saves
<1>2. ASSUME NEW v \in Writes, Accept(v) \/ Start(v) \/ Claim(v) \/ Commit(v) PROVE FALSE
  BY <1>1, <1>2 DEF Accept, Start, Claim, Commit
<1>3. ASSUME NEW d \in Drivers, Quiesce(d) PROVE FALSE
  <2>1. PICK x \in Spaces : wr' = Cancelled(x, TRUE)
    BY <1>1, <1>3 DEF Quiesce
  <2>2. wr'[w].at = wr[w].at
    BY <1>1, <2>1 DEF Cancelled, SaveRecords
  <2> QED BY <2>2
<1>4. ASSUME NEW d \in Drivers, Steps(d), ~EraseSpace(d) PROVE FALSE
  BY <1>1, <1>3, <1>4 DEF Steps, FenceProject, Superseded, Exhausted, Inventory, VerifyArchive,
     Reactivate, Reopen, Reopens, Tombstone, Finish, SpacesDone, VerifyErased, ControlPlane, books
<1>5. ASSUME NEW d \in Drivers, NEW r \in Requests, Drive(d, r) PROVE FALSE
  BY <1>1, <1>5 DEF Drive, books
<1>6. ASSUME NEW d \in Drivers, Load(d) \/ Release(d) \/ Die(d) \/ Save(d) \/ Retryable(d) PROVE FALSE
  BY <1>1, <1>6 DEF Load, Release, Die, Save, Retryable, books
<1>7. ASSUME NEW r \in Requests, Preview(r) \/ Confirm(r) \/ InsertRun(r) \/ Cancel(r) \/ Resume(r)
      PROVE  FALSE
  BY <1>1, <1>7 DEF Preview, Confirm, InsertRun, Cancel, Resume, books
<1>8. ASSUME Transfer \/ \E s \in Spaces : LateRow(s) PROVE FALSE
  BY <1>1, <1>8 DEF Transfer, LateRow, books
<1>9. UNCHANGED vars => FALSE
  BY <1>1 DEF vars
<1> QED BY <1>2, <1>4, <1>5, <1>6, <1>7, <1>8, <1>9 DEF LifecycleNext

\* Memory is removed only while the project is fenced for an erasure, where a lease
\* excludes: the epoch is compared when the project is loaded (advancePhase), and until
\* the step is saved no other driver can take the fence down.
THEOREM ErasesUnderFence == ASSUME ~SlowDrivers PROVE LifecycleSpec => ErasedUnderFence
<1> DEFINE IInv == LifecycleInv /\ AloneInv
<1>1. LifecycleInit => AloneInv
  BY DEF LifecycleInit, AloneInv, Exclusive, Sole, Fresh, Current, Removes, Idle, NoRun, ActiveRun
<1>2. IInv /\ [LifecycleNext]_vars => IInv'
  BY NextKeeps, NextAlone
<1>3. ASSUME LifecycleInv, AloneInv, [LifecycleNext]_vars, NEW w \in Writes,
             wr[w].at = "stored", wr'[w].at # "stored"
      PROVE  project.state \in Erasure
  <2>1. PICK d \in Drivers : EraseSpace(d)
    BY <1>3, OnlyErasureRemoves
  <2>2. /\ drv[d].at = "loaded" /\ Seen(d).phase = "spaces" /\ drv[d].epoch = Seen(d).epoch
    BY <2>1 DEF EraseSpace, At
  <2>3. Act(d) \in Erasing
    BY <1>3, <2>2, Working DEF PhasesOf, Actions, Erasing
  <2> QED BY <1>3, <2>2, <2>3, FenceUpright DEF Removes, AloneInv
<1>4. IInv /\ [LifecycleNext]_vars
      => [\A w \in Writes : wr[w].at = "stored" /\ wr'[w].at # "stored" => project.state \in Erasure]_vars
  BY <1>3
<1>5. LifecycleInit => IInv
  BY <1>1, InitHolds
<1> QED BY <1>2, <1>4, <1>5, PTL DEF LifecycleSpec, ErasedUnderFence
=============================================================================
