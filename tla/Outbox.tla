------------------------------- MODULE Outbox -------------------------------
(***************************************************************************)
(* The protected local outbox of the Claude plugin (hooks/outbox.mjs): a   *)
(* directory of files that several short-lived hook processes share.       *)
(*                                                                         *)
(* SessionEnd spools one scrubbed session (a group) as a single "staged"   *)
(* file and never touches the network.  SessionStart drains: it recovers   *)
(* what killed hooks left, expands each staged group into its batches      *)
(* (manifest first, then one envelope per batch, then the staged file is   *)
(* retired), takes a snapshot and sends the batches that are ready, in     *)
(* order.  An envelope moves pending -> inflight -> accepted -> done, or   *)
(* back to pending, or to failed; every move is a rename.                  *)
(*                                                                         *)
(* mutation.lock makes each short section one action here; a process may   *)
(* be killed between any two file operations of a section, and then only   *)
(* the operations before the cut happen.  The lock of a dead process is    *)
(* taken over at once.  drain.lock keeps other drains out, but it also     *)
(* goes to another process when its holder, still alive, is more than ten  *)
(* minutes old (a laptop that slept).                                      *)
(*                                                                         *)
(* Abstracted: the text of a session, redaction, credentials (one key,     *)
(* always bound), sizes in bytes, the eager enqueue that only tests call,  *)
(* v1 files, and the four-request and four-group limits of one drain.      *)
(***************************************************************************)
EXTENDS Naturals, FiniteSets, SequencesExt

CONSTANTS
    Groups,         \* scrubbed sessions, each with its content-derived queue id
    Size,           \* [Groups -> 1..n]: batches of each
    Conversation,   \* [Groups -> ...]: sessions of one conversation are ordered
    Ends,           \* [Groups -> Nat]: how often SessionEnd runs for each
    Drains,         \* SessionStart processes that may be alive at once
    NoDrain,        \* drain.lock is free
    MaxRaw,         \* OUTBOX_LIMITS.maxRawCount
    Spoolable,      \* groups whose SessionEnd may be killed with its spool file
                    \* written and not renamed
    SleepsAt,       \* where a living drain may be when its lock is taken over
    MaxKills,       \* bound: processes killed
    MaxTakeovers,   \* bound: drain locks taken from a live process
    MaxAgings,      \* bound: times a week passes over the oldest files
    MaxRefusals,    \* bound: permanent refusals of the server
    MaxFaults,      \* bound: kills, takeovers, weeks and stalls together
    MaxStalls       \* bound: sections not entered (mutation.lock busy for
                    \* 250 ms, or the budget of the hook spent)

ASSUME OutboxConstants ==
    /\ Size \in [Groups -> Nat \ {0}]
    /\ DOMAIN Conversation = Groups
    /\ Ends \in [Groups -> Nat]
    /\ NoDrain \notin Drains
    /\ Spoolable \subseteq Groups
    /\ {MaxRaw, MaxKills, MaxTakeovers, MaxAgings, MaxRefusals, MaxStalls,
     MaxFaults} \subseteq Nat

Batches == UNION {{<<g, i>> : i \in 1..Size[g]} : g \in Groups}
BatchesOf(g) == {b \in Batches : b[1] = g}
Places == {"pending", "inflight", "failed", "accepted", "done"}
RawPlaces == {"pending", "inflight", "failed"}

VARIABLES
    sequence,   \* next_order of delivery-sequence.json
    staged,     \* [Groups -> Nat]: the order in the staged file, 0 without one
    manifest,   \* [Groups -> Nat]: the order in the group's manifest, 0 without
    place,      \* [Batches -> SUBSET Places]: the directories that hold it
    stamp,      \* [Batches -> Nat]: the delivery order its file carries
    tmp,        \* complete spool files a killed process left in tmp/
    resting,    \* batches whose next_attempt_at lies ahead
    paused,     \* a fresh auth-block.json
    lock,       \* who holds drain.lock
    drain,      \* [Drains -> the local variables of drainOutbox]
    young, old, \* tombstones and manifests: in the order written; past a week
    server,     \* batches the service has accepted
    queued,     \* groups a SessionEnd has reported as queued
    before,     \* <<n, h>>: h was queued when another group claimed order n
    ends, kills, takeovers, agings, refusals, stalls    \* what the bounds count

spool == <<sequence, staged, manifest, tmp>>
batchFiles == <<place, stamp, resting, young, old>>
history == <<server, queued, before>>
bounds == <<ends, kills, takeovers, agings, refusals, stalls>>
vars == <<spool, batchFiles, paused, lock, drain, history, bounds>>

NothingSeen ==
    [place |-> [b \in Batches |-> {}], stamp |-> [b \in Batches |-> 0],
     staged |-> [g \in Groups |-> 0], manifest |-> [g \in Groups |-> 0]]

\* todo: staged groups with the order they were listed with; missing: envelopes
\* of the group being expanded; view and pend: the snapshot, and the batches of
\* it still to be looked at; answer: of the request under way.
Idle == [pc |-> "off", todo |-> {}, blocked |-> {}, missing |-> {},
         view |-> NothingSeen, pend |-> {}, answer |-> "none"]


InitOutbox ==
    /\ sequence = 1
    /\ staged = [g \in Groups |-> 0]
    /\ manifest = [g \in Groups |-> 0]
    /\ place = [b \in Batches |-> {}]
    /\ stamp = [b \in Batches |-> 0]
    /\ tmp = {}
    /\ resting = {}
    /\ paused = FALSE
    /\ lock = NoDrain
    /\ drain = [d \in Drains |-> Idle]
    /\ young = <<>>
    /\ old = {}
    /\ server = {}
    /\ queued = {}
    /\ before = {}
    /\ ends = [g \in Groups |-> 0]
    /\ kills = 0
    /\ takeovers = 0
    /\ agings = 0
    /\ refusals = 0
    /\ stalls = 0

----------------------------------------------------------------------------
(* What the directories say *)

\* rawUsage: files that hold raw content, leftovers in tmp/ included.
RawUsage ==
    Cardinality({g \in Groups : staged[g] # 0}) + Cardinality(tmp)
      + Cardinality({f \in Batches \X RawPlaces : f[2] \in place[f[1]]})

\* lifecyclePath finds no file of this batch.
Absent(b) == place[b] = {}

Failed(g) == \E b \in BatchesOf(g) : "failed" \in place[b]

\* deliveryLifecycle: a view is what one scan of the directories recorded; the
\* last directory scanned wins.
StateIn(v, b) ==
    CASE "done" \in v.place[b]     -> "done"
      [] "accepted" \in v.place[b] -> "accepted"
      [] "failed" \in v.place[b]   -> "failed"
      [] "inflight" \in v.place[b] -> "inflight"
      [] "pending" \in v.place[b]  -> "pending"
      [] OTHER                     -> "none"

HasPlan(v, g) == v.staged[g] # 0 /\ v.manifest[g] # 0

OrdersIn(v, g) ==
    {v.stamp[b] : b \in {x \in BatchesOf(g) : v.place[x] # {}}}
      \cup (IF HasPlan(v, g) THEN {v.staged[g]} ELSE {})

Inconsistent(v, g) ==
    \/ \E b \in BatchesOf(g) : Cardinality(v.place[b]) > 1
    \/ Cardinality(OrdersIn(v, g)) > 1

\* compareGroupPosition: the order a scan attributes to a group.
OrderIn(v, g) ==
    LET settled == {b \in BatchesOf(g) : v.place[b] \cap {"accepted", "done"} # {}}
        raw     == {b \in BatchesOf(g) : v.place[b] # {}}
    IN  IF settled # {} THEN v.stamp[CHOOSE b \in settled : TRUE]
        ELSE IF raw # {} THEN v.stamp[CHOOSE b \in raw : TRUE]
        ELSE v.staged[g]

FailedIn(v, g) == \E b \in BatchesOf(g) : StateIn(v, b) = "failed"

\* groupIsNonterminal
Nonterminal(v, g) ==
    /\ ~FailedIn(v, g)
    /\ \/ v.staged[g] # 0
       \/ \E b \in BatchesOf(g) : StateIn(v, b) \in {"pending", "inflight"}

PredecessorsStaged(v, g) ==
    {h \in Groups \ {g} : /\ Conversation[h] = Conversation[g]
                          /\ v.staged[h] # 0
                          /\ OrderIn(v, h) < OrderIn(v, g)}

\* A permanent failure ends its own group only; an older session of the same
\* conversation that is not over holds back the newer ones.
Predecessors(v, g) ==
    {h \in Groups \ {g} : /\ Conversation[h] = Conversation[g]
                          /\ Nonterminal(v, h)
                          /\ OrderIn(v, h) < OrderIn(v, g)}

\* deliveryReady
Ready(v, b) ==
    LET g == b[1]
    IN  /\ ~Inconsistent(v, g)
        /\ ~FailedIn(v, g)
        /\ StateIn(v, b) # "none"
        /\ HasPlan(v, g) \/ \A c \in BatchesOf(g) : StateIn(v, c) # "none"
        /\ \A c \in BatchesOf(g) : c[2] < b[2] => StateIn(v, c) \in {"accepted", "done"}
        /\ Predecessors(v, g) = {}

----------------------------------------------------------------------------
AnotherFault == kills + takeovers + agings + stalls < MaxFaults

(* SessionEnd: enqueueDeferredSession, one mutation.lock section *)

NeedsStage(g) ==
    /\ staged[g] = 0
    /\ manifest[g] = 0 \/ \E b \in BatchesOf(g) : Absent(b)

\* A repair resumes the order of the plan; a new group claims the next one.
OrderFor(g) == IF manifest[g] # 0 THEN manifest[g] ELSE sequence

ClaimOrder(g) ==
    /\ sequence' = IF manifest[g] # 0 THEN sequence ELSE sequence + 1
    /\ before' = IF manifest[g] # 0 THEN before
                 ELSE before \cup ({sequence} \X (queued \ {g}))

\* One entry stays reserved for the drain.
SpoolHasRoom == RawUsage + 1 <= MaxRaw - 1

RunsSessionEnd(g) ==
    /\ ends[g] < Ends[g]
    /\ ends' = [ends EXCEPT ![g] = @ + 1]

SessionEnd(g) ==
    /\ RunsSessionEnd(g)
    /\ IF NeedsStage(g)
       THEN /\ SpoolHasRoom
            /\ ClaimOrder(g)
            /\ staged' = [staged EXCEPT ![g] = OrderFor(g)]
       ELSE UNCHANGED <<sequence, staged, before>>
    /\ queued' = queued \cup {g}
    /\ UNCHANGED <<manifest, tmp, batchFiles, paused, lock, drain, server,
                   kills, takeovers, agings, refusals, stalls>>

\* The host kills the hook: before the spool file is complete, before it is
\* renamed, or before the hook can report.
SessionEndKilled(g) ==
    /\ RunsSessionEnd(g)
    /\ kills < MaxKills /\ AnotherFault
    /\ kills' = kills + 1
    /\ NeedsStage(g) /\ SpoolHasRoom
    /\ ClaimOrder(g)
    /\ \/ UNCHANGED <<staged, tmp>>
       \/ /\ g \in Spoolable
          /\ tmp' = tmp \cup {[kind |-> "staged", of |-> g, order |-> OrderFor(g)]}
          /\ UNCHANGED staged
       \/ /\ staged' = [staged EXCEPT ![g] = OrderFor(g)]
          /\ UNCHANGED tmp
    /\ UNCHANGED <<manifest, batchFiles, paused, lock, drain, server, queued,
                   takeovers, agings, refusals, stalls>>

----------------------------------------------------------------------------
(* SessionStart: drainOutbox *)

\* The drain ends, by return or by an exception; release only gives back a
\* lock that still carries its own token.
Quits(d) ==
    /\ drain' = [drain EXCEPT ![d] = Idle]
    /\ lock' = IF lock = d THEN NoDrain ELSE lock

Rewritten(w, f) == Append(SelectSeq(w, LAMBDA x : x # f), f)

(* recoverTmp: a complete spool file goes where it belonged, unless something
   is there already. *)
Leftover(kind, x) == {t \in tmp : t.kind = kind /\ t.of = x}
RestoredFile(file, kind) ==
    [g \in Groups |-> IF file[g] = 0 /\ Leftover(kind, g) # {}
                      THEN (CHOOSE t \in Leftover(kind, g) : TRUE).order
                      ELSE file[g]]
Restorable(b) == Absent(b) /\ Leftover("envelope", b) # {}
RestoredPlace == [b \in Batches |-> IF Restorable(b) THEN {"pending"} ELSE place[b]]
RestoredStamp ==
    [b \in Batches |-> IF Restorable(b)
                       THEN (CHOOSE t \in Leftover("envelope", b) : TRUE).order
                       ELSE stamp[b]]

(* finalizeAccepted, then recoverInflight. *)
FinalizedAround(pl) ==
    [b \in Batches |-> IF "accepted" \in pl[b] THEN (pl[b] \ {"accepted"}) \cup {"done"}
                       ELSE pl[b]]
FinalizedIfBare(pl) ==
    [b \in Batches |-> IF "accepted" \notin pl[b] THEN pl[b]
                       ELSE IF "inflight" \in pl[b] THEN pl[b] \ {"accepted"}
                       ELSE (pl[b] \ {"accepted"}) \cup {"done"}]
Finalized(pl) ==
    [b \in Batches |-> IF "accepted" \in pl[b]
                       THEN (pl[b] \ {"accepted", "inflight"}) \cup {"done"}
                       ELSE pl[b]]
RequeuedNever(pl) == pl
RequeuedAway(pl) == [b \in Batches |-> pl[b] \ {"inflight"}]
Requeued(pl) ==
    [b \in Batches |-> IF "inflight" \in pl[b]
                       THEN (pl[b] \ {"inflight"}) \cup {"pending"}
                       ELSE pl[b]]

(* gcOutbox: tombstones and manifests past a week go, unless their group is
   still active. *)
Active(pl, st, mf, g) ==
    \/ st[g] # 0 /\ mf[g] # 0
    \/ \E b \in BatchesOf(g) : pl[b] \cap RawPlaces # {}
Expired(pl, st, mf) ==
    {f \in old : ~Active(pl, st, mf, IF f.kind = "done" THEN f.of[1] ELSE f.of)}

DoneFile(b) == [kind |-> "done", of |-> b]
ManifestFile(g) == [kind |-> "manifest", of |-> g]

\* A drain may start when drain.lock is free, or when it can be taken over.  The
\* names of processes mean nothing: a new one has the first name that is free.
TakesLock(d) ==
    /\ drain[d].pc = "off"
    /\ d = CHOOSE x \in Drains : drain[x].pc = "off"
    /\ \/ lock = NoDrain /\ UNCHANGED takeovers
       \/ /\ lock # NoDrain /\ drain[lock].pc \in SleepsAt
          /\ takeovers < MaxTakeovers /\ AnotherFault
          /\ takeovers' = takeovers + 1

\* The first section: recover, collect garbage, and stop if delivery is paused.
Recover(d) ==
    LET st == RestoredFile(staged, "staged")
        mf == RestoredFile(manifest, "manifest")
        pl == Requeued(Finalized(RestoredPlace))
        gone == Expired(pl, st, mf)
        finalized == {b \in Batches : "accepted" \in place[b]}
    IN  /\ TakesLock(d)
        /\ tmp' = {}
        /\ staged' = st
        /\ manifest' = [g \in Groups |-> IF ManifestFile(g) \in gone THEN 0 ELSE mf[g]]
        /\ stamp' = RestoredStamp
        /\ place' = [b \in Batches |-> IF DoneFile(b) \in gone THEN pl[b] \ {"done"}
                                       ELSE pl[b]]
        /\ resting' = resting \ finalized
        /\ old' = old \ gone
        /\ young' = young \o SetToSeq({DoneFile(b) : b \in {x \in finalized : "done" \notin place[x]}})
                          \o SetToSeq({ManifestFile(g) : g \in {x \in Groups : mf[x] # manifest[x]}})
        /\ IF paused THEN UNCHANGED <<lock, drain>>
           ELSE lock' = d /\ drain' = [drain EXCEPT ![d].pc = "list"]
        /\ UNCHANGED <<sequence, paused, history, ends, kills, agings, refusals, stalls>>

\* materializeStagedGroups reads the staged files, in delivery order.
List(d) ==
    /\ drain[d].pc = "list"
    /\ drain' = [drain EXCEPT ![d].pc = "plan", ![d].blocked = {},
                              ![d].todo = {<<g, staged[g]>> : g \in {h \in Groups : staged[h] # 0}}]
    /\ UNCHANGED <<spool, batchFiles, paused, lock, history, bounds>>

FirstListed(d) ==
    CHOOSE t \in drain[d].todo : \A u \in drain[d].todo : t[2] <= u[2]
Group(d) == FirstListed(d)[1]
NextGroup(d) ==
    drain' = [drain EXCEPT ![d].pc = "plan", ![d].todo = @ \ {FirstListed(d)},
                           ![d].missing = {}]

\* The conversation waits: no later group of it is expanded in this drain.
BlocksConversation(d) ==
    drain' = [drain EXCEPT ![d].pc = "plan", ![d].todo = @ \ {FirstListed(d)},
                           ![d].missing = {},
                           ![d].blocked = @ \cup {Conversation[Group(d)]}]

HasRoomJust == RawUsage <= MaxRaw
HasRoom == RawUsage + 1 <= MaxRaw

\* readCompatibleManifest throws, and the drain with it.
Conflicting(g) == manifest[g] # 0 /\ staged[g] # manifest[g]

MissingOf(g) == {b \in BatchesOf(g) : Absent(b)}

Materializing(d) == drain[d].pc \in {"plan", "fill"} /\ drain[d].todo # {}

\* The plan of one group becomes durable before its first envelope.
Plan(d) ==
    LET g == Group(d)
    IN  /\ Materializing(d) /\ drain[d].pc = "plan"
        /\ \/ /\ \/ Conversation[g] \in drain[d].blocked
                 \/ manifest[g] # 0 /\ Failed(g) /\ ~Conflicting(g)
              /\ NextGroup(d)
              /\ UNCHANGED <<manifest, young, lock>>
           \/ /\ Conversation[g] \notin drain[d].blocked
              /\ Conflicting(g)
              /\ Quits(d)
              /\ UNCHANGED <<manifest, young>>
           \/ /\ Conversation[g] \notin drain[d].blocked
              /\ ~Conflicting(g)
              /\ ~(manifest[g] # 0 /\ Failed(g))
              /\ IF MissingOf(g) # {} /\ ~HasRoom
                 THEN BlocksConversation(d) /\ UNCHANGED <<manifest, young>>
                 ELSE /\ manifest' = [manifest EXCEPT ![g] = staged[g]]
                      /\ young' = IF manifest[g] = 0 THEN Append(young, ManifestFile(g))
                                  ELSE young
                      /\ drain' = [drain EXCEPT ![d].pc = "fill", ![d].missing = MissingOf(g)]
              /\ UNCHANGED lock
        /\ UNCHANGED <<sequence, staged, tmp, place, stamp, resting, old, paused,
                       history, bounds>>

\* One missing envelope after the other, each in its own section.
FirstMissing(d) == CHOOSE b \in drain[d].missing : \A c \in drain[d].missing : b[2] <= c[2]
Fill(d) ==
    LET b == FirstMissing(d)
        filled == drain' = [drain EXCEPT ![d].missing = @ \ {b}]
    IN  /\ drain[d].pc = "fill" /\ drain[d].missing # {}
        /\ \/ ~Absent(b) /\ filled /\ UNCHANGED <<place, stamp>>
           \/ /\ Absent(b) /\ HasRoom
              /\ place' = [place EXCEPT ![b] = @ \cup {"pending"}]
              /\ stamp' = [stamp EXCEPT ![b] = manifest[b[1]]]
              /\ filled
           \/ /\ Absent(b) /\ ~HasRoom
              /\ BlocksConversation(d)
              /\ UNCHANGED <<place, stamp>>
        /\ UNCHANGED <<spool, resting, young, old, paused, lock, history, bounds>>

\* Every batch was observed or written: the staged file can go.  A file that
\* another drain already removed is an exception.
Retire(d) ==
    LET g == Group(d)
    IN  /\ drain[d].pc = "fill" /\ drain[d].missing = {}
        /\ IF staged[g] = 0 \/ Conflicting(g)
           THEN Quits(d) /\ UNCHANGED staged
           ELSE /\ staged' = [staged EXCEPT ![g] = 0]
                /\ NextGroup(d)
                /\ UNCHANGED lock
        /\ UNCHANGED <<sequence, manifest, tmp, batchFiles, paused, history, bounds>>

\* The drain is killed between writing a plan or an envelope and renaming it.
SpoolLeft(d) ==
    IF drain[d].pc = "plan"
    THEN {[kind |-> "manifest", of |-> Group(d), order |-> staged[Group(d)]]}
    ELSE {[kind |-> "envelope", of |-> FirstMissing(d),
           order |-> manifest[Group(d)]]}
MaterializeKilled(d) ==
    /\ Materializing(d)
    /\ kills < MaxKills /\ AnotherFault
    /\ kills' = kills + 1
    /\ IF drain[d].pc = "plan"
       THEN manifest[Group(d)] = 0 /\ staged[Group(d)] # 0
       ELSE drain[d].missing # {} /\ Absent(FirstMissing(d))
    /\ HasRoom
    /\ tmp' = tmp \cup SpoolLeft(d)
    /\ Quits(d)
    /\ UNCHANGED <<sequence, staged, manifest, batchFiles, paused, history,
                   ends, takeovers, agings, refusals, stalls>>

\* The scan that every later decision of this drain is made from.
View == [place |-> place, stamp |-> stamp, staged |-> staged, manifest |-> manifest]
Before(v, b, c) == \/ v.stamp[b] < v.stamp[c]
                   \/ v.stamp[b] = v.stamp[c] /\ b[1] = c[1] /\ b[2] < c[2]
Snapshot(d) ==
    /\ drain[d].pc = "plan" /\ drain[d].todo = {}
    /\ drain' = [drain EXCEPT ![d].pc = "deliver", ![d].view = View, ![d].blocked = {},
                              ![d].pend = {b \in Batches : "pending" \in place[b]}]
    /\ UNCHANGED <<spool, batchFiles, paused, lock, history, bounds>>

Item(d) ==
    CHOOSE b \in drain[d].pend : \A c \in drain[d].pend : ~Before(drain[d].view, c, b)
Delivering(d, pc) == drain[d].pc = pc /\ drain[d].pend # {}
NextItem(d) ==
    drain' = [drain EXCEPT ![d].pc = "deliver", ![d].pend = @ \ {Item(d)},
                           ![d].answer = "none"]

\* The in-memory lifecycle follows this drain's own outcomes only.
NextItemKnowing(d, state) ==
    drain' = [drain EXCEPT ![d].pc = "deliver", ![d].pend = @ \ {Item(d)},
                           ![d].answer = "none", ![d].view.place[Item(d)] = {state}]

\* Not due, or something before it is not accepted yet, by the snapshot.
Skip(d) ==
    /\ Delivering(d, "deliver")
    /\ Item(d) \in resting \/ ~Ready(drain[d].view, Item(d))
    /\ NextItem(d)
    /\ UNCHANGED <<spool, batchFiles, paused, lock, history, bounds>>

\* The claim: a rename under mutation.lock; the file may be gone by now.
Claim(d) ==
    LET b == Item(d)
    IN  /\ Delivering(d, "deliver")
        /\ b \notin resting /\ Ready(drain[d].view, b)
        /\ IF "pending" \in place[b]
           THEN /\ place' = [place EXCEPT ![b] = (@ \ {"pending"}) \cup {"inflight"}]
                /\ drain' = [drain EXCEPT ![d].pc = "send"]
           ELSE UNCHANGED place /\ NextItem(d)
        /\ UNCHANGED <<spool, stamp, resting, young, old, paused, lock, history, bounds>>

(* The request, with no lock held.  A lost answer, a timeout and a refusal may
   each come after the service has taken the batch: an answer without a packet
   or receipt id is a refusal. *)
Sent(d, answer, taken) ==
    /\ Delivering(d, "send")
    /\ drain' = [drain EXCEPT ![d].pc = "settle", ![d].answer = answer]
    /\ server' = IF taken THEN server \cup {Item(d)} ELSE server
    /\ UNCHANGED <<spool, batchFiles, paused, lock, queued, before, ends, kills,
                   takeovers, agings, stalls>>

SendAccepted(d) == Sent(d, "accepted", TRUE) /\ UNCHANGED refusals
SendLost(d) == \E taken \in BOOLEAN : Sent(d, "lost", taken) /\ UNCHANGED refusals
SendLater(d) == Sent(d, "later", FALSE) /\ UNCHANGED refusals
SendUnauthorized(d) == Sent(d, "unauthorized", FALSE) /\ UNCHANGED refusals
SendRefused(d) ==
    /\ refusals < MaxRefusals
    /\ refusals' = refusals + 1
    /\ \E taken \in BOOLEAN : Sent(d, "refused", taken)

Settles(d) == Delivering(d, "settle")

\* The tombstone first, then the raw file goes, then accepted becomes done.  An
\* inflight file that is missing, or a tombstone that exists, is an exception.
SettleAccepted(d) ==
    LET b == Item(d)
    IN  /\ Settles(d) /\ drain[d].answer = "accepted"
        /\ \/ /\ "accepted" \in place[b]
              /\ Quits(d)
              /\ UNCHANGED <<place, resting, young, old>>
           \/ /\ "accepted" \notin place[b] /\ "inflight" \notin place[b]
              /\ place' = [place EXCEPT ![b] = @ \cup {"accepted"}]
              /\ Quits(d)
              /\ UNCHANGED <<resting, young, old>>
           \/ /\ "accepted" \notin place[b] /\ "inflight" \in place[b]
              /\ place' = [place EXCEPT ![b] = (@ \ {"inflight"}) \cup {"done"}]
              /\ resting' = resting \ {b}
              /\ young' = Rewritten(young, DoneFile(b))
              /\ old' = old \ {DoneFile(b)}
              /\ NextItemKnowing(d, "done")
              /\ UNCHANGED lock
        /\ UNCHANGED <<spool, stamp, paused, history, bounds>>

\* Every other answer writes the retry state, then renames the inflight file.
MovesBack(d, dir, due, last) ==
    LET b == Item(d)
    IN  /\ resting' = IF due THEN resting \ {b} ELSE resting \cup {b}
        /\ IF "inflight" \notin place[b]
           THEN UNCHANGED place /\ Quits(d)
           ELSE /\ place' = [place EXCEPT ![b] = (@ \ {"inflight"}) \cup {dir}]
                /\ IF last THEN Quits(d)
                   ELSE NextItemKnowing(d, dir) /\ UNCHANGED lock
        /\ UNCHANGED <<spool, stamp, young, old, history, bounds>>

SettleLost(d) ==
    /\ Settles(d) /\ drain[d].answer = "lost"
    /\ MovesBack(d, "pending", FALSE, TRUE)
    /\ UNCHANGED paused
SettleLater(d) ==
    /\ Settles(d) /\ drain[d].answer = "later"
    /\ MovesBack(d, "pending", FALSE, FALSE)
    /\ UNCHANGED paused
SettleUnauthorized(d) ==
    /\ Settles(d) /\ drain[d].answer = "unauthorized"
    /\ MovesBack(d, "pending", TRUE, TRUE)
    /\ paused' = (paused \/ "inflight" \in place[Item(d)])
SettleRefused(d) ==
    /\ Settles(d) /\ drain[d].answer = "refused"
    /\ MovesBack(d, "failed", TRUE, FALSE)
    /\ UNCHANGED paused

Finish(d) ==
    /\ drain[d].pc = "deliver" /\ drain[d].pend = {}
    /\ Quits(d)
    /\ UNCHANGED <<spool, batchFiles, paused, history, bounds>>

----------------------------------------------------------------------------
(* Locks not had, kills, and time *)

\* A section that does not get mutation.lock: the group being expanded waits,
\* and anywhere else the drain ends, an answer in hand or not.  Running out of
\* the hook's time budget before a claim ends it too.
Stall(d) ==
    /\ stalls < MaxStalls /\ AnotherFault
    /\ stalls' = stalls + 1
    /\ \/ Materializing(d) /\ BlocksConversation(d) /\ UNCHANGED lock
       \/ /\ ~Materializing(d)
          /\ drain[d].pc \in {"plan", "deliver", "settle"}
          /\ Quits(d)
    /\ UNCHANGED <<spool, batchFiles, paused, history, ends, kills, takeovers,
                   agings, refusals>>

Killed(d) ==
    /\ drain[d].pc # "off"
    /\ kills < MaxKills /\ AnotherFault
    /\ kills' = kills + 1
    /\ Quits(d)
    /\ UNCHANGED <<spool, batchFiles, paused, history, ends, takeovers, agings,
                   refusals, stalls>>

\* Killed with the acceptance tombstone written: the raw file may still be there.
KilledAccepting(d) ==
    /\ Settles(d) /\ drain[d].answer = "accepted"
    /\ "accepted" \notin place[Item(d)] /\ "inflight" \in place[Item(d)]
    /\ kills < MaxKills /\ AnotherFault
    /\ kills' = kills + 1
    /\ \E raw \in {{}, {"inflight"}} :
         place' = [place EXCEPT ![Item(d)] = (@ \ {"inflight"}) \cup raw \cup {"accepted"}]
    /\ Quits(d)
    /\ UNCHANGED <<spool, stamp, resting, young, old, paused, history, ends,
                   takeovers, agings, refusals, stalls>>

BackoffEnds(b) ==
    /\ b \in resting
    /\ resting' = resting \ {b}
    /\ UNCHANGED <<spool, place, stamp, young, old, paused, lock, drain, history, bounds>>

PauseEnds ==
    /\ paused
    /\ paused' = FALSE
    /\ UNCHANGED <<spool, batchFiles, lock, drain, history, bounds>>

\* A week passes over the first n tombstones and manifests still there.
WeekPasses ==
    /\ agings < MaxAgings /\ AnotherFault
    /\ agings' = agings + 1
    /\ \E n \in 1..Len(young) :
         /\ old' = old \cup {young[i] : i \in 1..n}
         /\ young' = SubSeq(young, n + 1, Len(young))
    /\ UNCHANGED <<spool, place, stamp, resting, paused, lock, drain, history, ends,
                   kills, takeovers, refusals, stalls>>

----------------------------------------------------------------------------
Materialize(d) == List(d) \/ Plan(d) \/ Fill(d) \/ Retire(d)
Settle(d) ==
    \/ SettleAccepted(d) \/ SettleLost(d) \/ SettleLater(d)
    \/ SettleUnauthorized(d) \/ SettleRefused(d)
Advance(d) ==
    \/ Materialize(d) \/ Snapshot(d) \/ Skip(d) \/ Claim(d) \/ Settle(d) \/ Finish(d)
Send(d) ==
    \/ SendAccepted(d) \/ SendLost(d) \/ SendLater(d)
    \/ SendUnauthorized(d) \/ SendRefused(d)
Dies(d) == Killed(d) \/ KilledAccepting(d) \/ MaterializeKilled(d)

NextOutbox ==
    \/ \E g \in Groups : SessionEnd(g) \/ SessionEndKilled(g)
    \/ \E d \in Drains : Recover(d) \/ Advance(d) \/ Send(d) \/ Stall(d) \/ Dies(d)
    \/ \E b \in Batches : BackoffEnds(b)
    \/ PauseEnds
    \/ WeekPasses

OutboxSpec == InitOutbox /\ [][NextOutbox]_vars

(* Sessions keep starting, a living hook goes on, backoff and pause end, and a
   batch that is sent again and again is accepted or refused in the end. *)
FairOutboxSpec ==
    /\ OutboxSpec
    /\ \A d \in Drains : /\ WF_vars(Recover(d))
                         /\ WF_vars(Advance(d))
                         /\ SF_vars(SendAccepted(d))
    /\ \A b \in Batches : WF_vars(BackoffEnds(b))
    /\ WF_vars(PauseEnds)

----------------------------------------------------------------------------
(* Properties *)

Ours == {"off", "list", "plan", "fill", "deliver", "send", "settle"}

\* Types, and what the directories may hold: no more raw entries than the limit
\* allows, whatever was recovered or retried.
OutboxTypeOK ==
    /\ sequence \in Nat
    /\ staged \in [Groups -> Nat] /\ manifest \in [Groups -> Nat]
    /\ place \in [Batches -> SUBSET Places] /\ stamp \in [Batches -> Nat]
    /\ \A t \in tmp : t.kind \in {"staged", "manifest", "envelope"}
    /\ resting \subseteq Batches /\ server \subseteq Batches
    /\ queued \subseteq Groups /\ before \subseteq Nat \X Groups
    /\ paused \in BOOLEAN /\ lock \in Drains \cup {NoDrain}
    /\ \A d \in Drains : drain[d].pc \in Ours
    /\ old \cap {young[i] : i \in DOMAIN young} = {}
    /\ RawUsage <= MaxRaw

Spooled(g) == staged[g] # 0 \/ Leftover("staged", g) # {}
OnDisk(b) ==
    \/ Spooled(b[1])
    \/ place[b] \cap RawPlaces # {}
    \/ Leftover("envelope", b) # {}

\* A session reported as queued is never lost: each of its batches is still on
\* the disk in some form, or the service has it.
NothingLost ==
    \A g \in queued : \A b \in BatchesOf(g) : OnDisk(b) \/ b \in server

\* The lifecycle of a batch is never in two places, and a staged file always
\* agrees with its plan: otherwise the group can never be sent, and it holds back
\* its conversation.  An acceptance cut short is repaired by the next drain.
\* (Neither holds once a living drain has lost its lock, nor after tombstones of
\* one session have expired apart, nor when a SessionEnd is repeated that left its
\* spool file in tmp/: see the README.)
Wedged(g) ==
    \/ Inconsistent(View, g) /\ \A b \in BatchesOf(g) : "accepted" \notin place[b]
    \/ HasPlan(View, g) /\ Conflicting(g)
Undisturbed == takeovers = 0 /\ agings = 0
NeverWedged == Undisturbed => \A g \in Groups : ~Wedged(g)

Over(g) == Failed(g) \/ \A b \in BatchesOf(g) : b \in server

\* The service gets the batches of a session in order, and never a batch of a
\* session before every earlier queued session of its conversation is over.
InOrder ==
    [][\A b \in server' \ server :
         /\ \A c \in BatchesOf(b[1]) : c[2] < b[2] => c \in server
         /\ \A h \in Groups :
              <<stamp[b], h>> \in before /\ Conversation[h] = Conversation[b[1]] => Over(h)]_vars

\* The evidence of an acceptance is kept, and a batch that has it is not sent
\* again (a lost drain lock and expired tombstones apart, as above).
Accepted(pl, b) == pl[b] \cap {"accepted", "done"} # {}
NoResend ==
    [][\A b \in Batches :
         Undisturbed' /\ Accepted(place, b) =>
           /\ Accepted(place', b)
           /\ "inflight" \in place'[b] => "inflight" \in place[b]]_vars

\* A queued session is delivered, or its failure stays on the disk for the
\* operator, as long as sessions start and failures have not filled the disk.
Clogged == ~HasRoom /\ \E h \in Groups : Failed(h)
Delivers == \A g \in Groups : g \in queued ~> (Over(g) \/ Clogged \/ ~Undisturbed)

\* OUTBOX_LIMITS: the entry that every enqueue leaves free lets the drain expand
\* staged sessions, so a queued session is over in the end whatever is refused.
ReserveServes == \A g \in Groups : g \in queued ~> Over(g)

\* The README of the plugin: raw content is removed as soon as the service has
\* durably accepted it, here once the acceptance is recorded as done.
RawRemoved == \A b \in Batches : "done" \in place[b] => place[b] \cap RawPlaces = {}
=============================================================================
