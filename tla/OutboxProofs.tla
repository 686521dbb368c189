---------------------------- MODULE OutboxProofs ----------------------------
(***************************************************************************)
(* Theorems about Outbox, for any sessions, batches, drains and bounds.    *)
(*                                                                         *)
(* The first layer needs no hypothesis: a batch that has landed, in a raw  *)
(* directory or at the service, stays landed, and a staged file goes only  *)
(* when all of its batches have.  The second holds while one drain is      *)
(* alive at a time and nothing has expired: a batch is in one directory.   *)
(* The third adds that stamps, plans, staged files and what a killed hook  *)
(* left in tmp/ agree, for which no SessionEnd that left its spool file    *)
(* may be repeated.  The fourth needs none again: a session queued earlier *)
(* in a conversation has an earlier place in the order of whatever is on   *)
(* the disk, or the service has it, and what a drain saw of that once      *)
(* stays good to act on.                                                   *)
(***************************************************************************)
EXTENDS Outbox, FiniteSetTheorems, WellFoundedInduction, TLAPS

----------------------------------------------------------------------------
(* Lemmas about the operators *)

LEMMA LeastExists ==
  ASSUME NEW S, S # {}, NEW f, \A x \in S : f[x] \in Nat
  PROVE  \E x \in S : \A y \in S : f[x] <= f[y]
<1> DEFINE R == OpToRel(<, Nat)
           T == {f[x] : x \in S}
<1>1. R = {ss \in Nat \X Nat : ss[1] < ss[2]}
  BY DEF OpToRel
<1>2. IsWellFoundedOn(R, Nat)
  BY NatLessThanWellFounded
<1>3. T \in SUBSET Nat /\ T # {}
  OBVIOUS
<1> HIDE DEF R
<1>4. \E m \in T : \A n \in T : ~ (<<n, m>> \in R)
  <2> HIDE DEF T
  <2> QED BY <1>2, <1>3, WFMin
<1>5. PICK m \in T : \A n \in T : ~ (<<n, m>> \in R)
  BY <1>4
<1>6. \A n \in T : m <= n
  <2>1. T \subseteq Nat /\ m \in Nat
    BY <1>3, <1>5
  <2> HIDE DEF T
  <2>2. \A n \in T : ~ (n < m)
    BY <1>1, <1>5, <2>1
  <2> QED BY <2>1, <2>2
<1>7. PICK x \in S : m = f[x]
  BY <1>5
<1>8. \A y \in S : f[y] \in T
  OBVIOUS
<1> QED BY <1>6, <1>7, <1>8

----------------------------------------------------------------------------
(* Types *)

Answers == {"none", "accepted", "lost", "later", "unauthorized", "refused"}
Views == [place : [Batches -> SUBSET Places], stamp : [Batches -> Nat],
          staged : [Groups -> Nat], manifest : [Groups -> Nat]]
Locals == [pc : Ours, todo : SUBSET (Groups \X Nat),
           blocked : SUBSET {Conversation[g] : g \in Groups},
           missing : SUBSET Batches, view : Views, pend : SUBSET Batches,
           answer : Answers]
SpoolFiles == [kind : {"staged", "manifest"}, of : Groups, order : Nat]
                \union [kind : {"envelope"}, of : Batches, order : Nat]

Types ==
    /\ sequence \in Nat \ {0}
    /\ staged \in [Groups -> Nat]
    /\ manifest \in [Groups -> Nat]
    /\ place \in [Batches -> SUBSET Places]
    /\ stamp \in [Batches -> Nat]
    /\ tmp \subseteq SpoolFiles
    /\ resting \subseteq Batches
    /\ paused \in BOOLEAN
    /\ lock \in Drains \union {NoDrain}
    /\ drain \in [Drains -> Locals]
    /\ server \subseteq Batches
    /\ queued \subseteq Groups
    /\ before \subseteq Nat \X Groups
    /\ ends \in [Groups -> Nat]

LEMMA BatchOf == \A b \in Batches : b[1] \in Groups /\ b[2] \in Nat /\ b \in BatchesOf(b[1])
BY OutboxConstants DEF Batches, BatchesOf

LEMMA FirstListedIn ==
  ASSUME Types, NEW d \in Drains, drain[d].todo # {}
  PROVE  FirstListed(d) \in drain[d].todo /\ Group(d) \in Groups
<1>1. drain[d].todo \subseteq Groups \X Nat
  BY DEF Types, Locals
<1>2. PICK x \in drain[d].todo : TRUE
  OBVIOUS
<1> DEFINE f == [t \in drain[d].todo |-> t[2]]
<1>3. \A t \in drain[d].todo : f[t] \in Nat
  BY <1>1
<1> HIDE DEF f
<1>4. \E t \in drain[d].todo : \A u \in drain[d].todo : f[t] <= f[u]
  BY <1>3, LeastExists
<1>5. \E t \in drain[d].todo : \A u \in drain[d].todo : t[2] <= u[2]
  BY <1>4 DEF f
<1>6. FirstListed(d) \in drain[d].todo
  BY <1>5, Zenon DEF FirstListed
<1> QED BY <1>1, <1>6 DEF Group

LEMMA FirstMissingIn ==
  ASSUME Types, NEW d \in Drains, drain[d].missing # {}
  PROVE  FirstMissing(d) \in drain[d].missing /\ FirstMissing(d) \in Batches
<1>1. drain[d].missing \subseteq Batches
  BY DEF Types, Locals
<1> DEFINE f == [t \in drain[d].missing |-> t[2]]
<1>3. \A t \in drain[d].missing : f[t] \in Nat
  BY <1>1, BatchOf
<1> HIDE DEF f
<1>4. \E t \in drain[d].missing : \A u \in drain[d].missing : f[t] <= f[u]
  BY <1>3, LeastExists
<1>5. \E t \in drain[d].missing : \A u \in drain[d].missing : t[2] <= u[2]
  BY <1>4 DEF f
<1>6. FirstMissing(d) \in drain[d].missing
  BY <1>5, Zenon DEF FirstMissing
<1> QED BY <1>1, <1>6

LEMMA ItemIn ==
  ASSUME Types, NEW d \in Drains, drain[d].pend # {}
  PROVE  Item(d) \in drain[d].pend /\ Item(d) \in Batches
<1> DEFINE S == drain[d].pend
           v == drain[d].view
<1>1. S \subseteq Batches /\ v.stamp \in [Batches -> Nat]
  BY DEF Types, Locals, Views
<1> HIDE DEF S, v
<1> DEFINE f == [b \in S |-> v.stamp[b]]
<1>2. \A b \in S : f[b] \in Nat /\ f[b] = v.stamp[b]
  BY <1>1
<1>3. S # {}
  BY DEF S
<1> HIDE DEF f
<1>4. PICK a \in S : \A b \in S : f[a] <= f[b]
  BY <1>2, <1>3, LeastExists
<1> DEFINE T == {b \in S : v.stamp[b] = v.stamp[a] /\ b[1] = a[1]}
           h == [b \in T |-> b[2]]
<1>5. \A b \in T : h[b] \in Nat /\ h[b] = b[2]
  BY <1>1, BatchOf
<1>6. T # {}
  BY <1>4
<1> HIDE DEF h
<1>7. PICK b \in T : \A c \in T : h[b] <= h[c]
  <2> HIDE DEF T
  <2> QED BY <1>5, <1>6, LeastExists
<1>8. \A c \in S : ~Before(v, c, b)
  <2> SUFFICES ASSUME NEW c \in S, Before(v, c, b) PROVE FALSE
    OBVIOUS
  <2>1. v.stamp[b] = v.stamp[a] /\ b[1] = a[1] /\ b \in S
    BY <1>7
  <2>2. v.stamp[a] <= v.stamp[c]
    BY <1>2, <1>4
  <2>3. v.stamp[a] \in Nat /\ v.stamp[c] \in Nat
    BY <1>1, <1>4
  <2>4. ~(v.stamp[c] < v.stamp[b])
    BY <2>1, <2>2, <2>3
  <2>5. v.stamp[c] = v.stamp[b] /\ c[1] = b[1] /\ c[2] < b[2]
    BY <2>4 DEF Before
  <2>6. c \in T
    BY <2>1, <2>5
  <2>7. b[2] <= c[2] /\ b[2] \in Nat /\ c[2] \in Nat
    BY <1>5, <1>7, <2>6
  <2> QED BY <2>5, <2>7
<1>9. \E x \in S : \A c \in S : ~Before(v, c, x)
  BY <1>7, <1>8
<1>10. Item(d) \in drain[d].pend
  BY <1>9, Zenon DEF Item, S, v
<1> QED BY <1>1, <1>10 DEF S

LEMMA IdleLocal == Idle \in Locals
<1>1. NothingSeen \in Views
  BY DEF NothingSeen, Views
<1> QED BY <1>1 DEF Idle, Locals, Ours, Answers

LEMMA TypesInit == InitOutbox => Types
<1> SUFFICES ASSUME InitOutbox PROVE Types
  OBVIOUS
<1>1. drain \in [Drains -> Locals]
  BY IdleLocal DEF InitOutbox
<1>2. sequence \in Nat \ {0} /\ tmp \subseteq SpoolFiles /\ resting \subseteq Batches
  BY DEF InitOutbox
<1>3. place \in [Batches -> SUBSET Places]
  BY DEF InitOutbox
<1> QED BY <1>1, <1>2, <1>3 DEF InitOutbox, Types

LEMMA QuitsTyped ==
  ASSUME Types, NEW d \in Drains, Quits(d)
  PROVE  drain' \in [Drains -> Locals] /\ lock' \in Drains \union {NoDrain}
BY IdleLocal DEF Quits, Types

LEMMA SessionEndTyped ==
  ASSUME Types, NEW g \in Groups, SessionEnd(g) \/ SessionEndKilled(g)
  PROVE  Types'
<1>1. OrderFor(g) \in Nat
  BY DEF Types, OrderFor
<1>2. CASE SessionEnd(g)
  BY <1>1, <1>2 DEF Types, SessionEnd, RunsSessionEnd, ClaimOrder, spool, batchFiles
<1>3. CASE SessionEndKilled(g)
  <2>1. [kind |-> "staged", of |-> g, order |-> OrderFor(g)] \in SpoolFiles
    BY <1>1 DEF SpoolFiles
  <2>2. tmp' \subseteq SpoolFiles
    BY <1>3, <2>1 DEF Types, SessionEndKilled
  <2> QED BY <1>1, <1>3, <2>2 DEF Types, SessionEndKilled, RunsSessionEnd, ClaimOrder, spool, batchFiles
<1> QED BY <1>2, <1>3

LEMMA PcTyped ==
  ASSUME Types, NEW d \in Drains, NEW p \in Ours
  PROVE  [drain EXCEPT ![d].pc = p] \in [Drains -> Locals]
<1>1. drain \in [Drains -> Locals] /\ drain[d] \in Locals
  BY DEF Types
<1>2. [drain[d] EXCEPT !.pc = p] \in Locals
  BY <1>1 DEF Locals
<1> QED BY <1>1, <1>2

LEMMA RecoverTyped ==
  ASSUME Types, NEW d \in Drains, Recover(d)
  PROVE  Types'
<1>1. \A k : \A g : Leftover(k, g) # {} =>
          /\ (CHOOSE t \in Leftover(k, g) : TRUE) \in Leftover(k, g)
          /\ (CHOOSE t \in Leftover(k, g) : TRUE).order \in Nat
  BY DEF Leftover, Types, SpoolFiles
<1>2. RestoredFile(staged, "staged") \in [Groups -> Nat]
  BY <1>1 DEF RestoredFile, Types
<1>3. RestoredFile(manifest, "manifest") \in [Groups -> Nat]
  BY <1>1 DEF RestoredFile, Types
<1>4. RestoredStamp \in [Batches -> Nat]
  BY <1>1 DEF RestoredStamp, Restorable, Types
<1>5. RestoredPlace \in [Batches -> SUBSET Places]
  BY DEF RestoredPlace, Types, Places
<1>6. Requeued(Finalized(RestoredPlace)) \in [Batches -> SUBSET Places]
  <2>1. Finalized(RestoredPlace) \in [Batches -> SUBSET Places]
    BY <1>5 DEF Finalized, Places
  <2> QED BY <2>1 DEF Requeued, Places
<1>7. drain' \in [Drains -> Locals] /\ lock' \in Drains \union {NoDrain}
  <2>1. \/ drain' = drain /\ lock' = lock
        \/ drain' = [drain EXCEPT ![d].pc = "list"] /\ lock' = d
    BY DEF Recover
  <2>2. "list" \in Ours
    BY DEF Ours
  <2> QED BY <2>1, <2>2, PcTyped DEF Types
<1>8. /\ staged' \in [Groups -> Nat] /\ manifest' \in [Groups -> Nat]
      /\ stamp' \in [Batches -> Nat] /\ place' \in [Batches -> SUBSET Places]
      /\ tmp' \subseteq SpoolFiles /\ resting' \subseteq Batches
  BY <1>2, <1>3, <1>4, <1>6 DEF Recover, Types
<1> QED BY <1>7, <1>8 DEF Recover, Types, history

LEMMA NextGroupTyped ==
  ASSUME Types, NEW d \in Drains, NextGroup(d) \/ BlocksConversation(d), drain[d].todo # {}
  PROVE  drain' \in [Drains -> Locals]
<1>1. drain \in [Drains -> Locals] /\ drain[d] \in Locals
  BY DEF Types
<1>2. Conversation[Group(d)] \in {Conversation[g] : g \in Groups}
  BY FirstListedIn
<1>3. CASE NextGroup(d)
  <2>1. [drain[d] EXCEPT !.pc = "plan", !.todo = @ \ {FirstListed(d)}, !.missing = {}] \in Locals
    BY <1>1 DEF Locals, Ours
  <2> QED BY <1>1, <1>3, <2>1 DEF NextGroup
<1>4. CASE BlocksConversation(d)
  <2>1. [drain[d] EXCEPT !.pc = "plan", !.todo = @ \ {FirstListed(d)}, !.missing = {},
                         !.blocked = @ \union {Conversation[Group(d)]}] \in Locals
    BY <1>1, <1>2 DEF Locals, Ours
  <2> QED BY <1>1, <1>4, <2>1 DEF BlocksConversation
<1> QED BY <1>3, <1>4

LEMMA ListTyped ==
  ASSUME Types, NEW d \in Drains, List(d)
  PROVE  Types'
<1>1. drain \in [Drains -> Locals] /\ drain[d] \in Locals
  BY DEF Types
<1> DEFINE T == {<<g, staged[g]>> : g \in {h \in Groups : staged[h] # 0}}
<1>2. T \subseteq Groups \X Nat
  BY DEF Types
<1> HIDE DEF T
<1>3. [drain[d] EXCEPT !.pc = "plan", !.blocked = {}, !.todo = T] \in Locals
  BY <1>1, <1>2 DEF Locals, Ours
<1>4. drain' = [drain EXCEPT ![d] = [drain[d] EXCEPT !.pc = "plan", !.blocked = {}, !.todo = T]]
  BY <1>1 DEF List, T
<1>5. drain' \in [Drains -> Locals]
  BY <1>1, <1>3, <1>4
<1> QED BY <1>5 DEF List, Types, spool, batchFiles, history, bounds

LEMMA PlanTyped ==
  ASSUME Types, NEW d \in Drains, Plan(d)
  PROVE  Types'
<1>1. drain \in [Drains -> Locals] /\ drain[d] \in Locals
  BY DEF Types
<1>2. drain[d].todo # {}
  BY DEF Plan, Materializing
<1>3. \/ NextGroup(d) /\ UNCHANGED <<manifest, lock>>
      \/ Quits(d) /\ UNCHANGED manifest
      \/ BlocksConversation(d) /\ UNCHANGED <<manifest, lock>>
      \/ /\ drain' = [drain EXCEPT ![d].pc = "fill", ![d].missing = MissingOf(Group(d))]
         /\ manifest' = [manifest EXCEPT ![Group(d)] = staged[Group(d)]]
         /\ UNCHANGED lock
  BY DEF Plan
<1>4. /\ UNCHANGED <<sequence, staged, tmp, place, stamp, resting, paused, history, bounds>>
  BY DEF Plan
<1>5. drain' \in [Drains -> Locals] /\ lock' \in Drains \union {NoDrain} /\ manifest' \in [Groups -> Nat]
  <2>1. CASE NextGroup(d) /\ UNCHANGED <<manifest, lock>>
    BY <1>2, <2>1, NextGroupTyped DEF Types
  <2>2. CASE Quits(d) /\ UNCHANGED manifest
    BY <2>2, QuitsTyped DEF Types
  <2>3. CASE BlocksConversation(d) /\ UNCHANGED <<manifest, lock>>
    BY <1>2, <2>3, NextGroupTyped DEF Types
  <2>4. CASE /\ drain' = [drain EXCEPT ![d].pc = "fill", ![d].missing = MissingOf(Group(d))]
             /\ manifest' = [manifest EXCEPT ![Group(d)] = staged[Group(d)]]
             /\ UNCHANGED lock
    <3>1. MissingOf(Group(d)) \subseteq Batches
      BY DEF MissingOf, BatchesOf
    <3> DEFINE M == MissingOf(Group(d))
    <3> HIDE DEF M
    <3>2. [drain[d] EXCEPT !.pc = "fill", !.missing = M] \in Locals
      BY <1>1, <3>1 DEF Locals, Ours, M
    <3>3. drain' \in [Drains -> Locals]
      BY <1>1, <2>4, <3>2 DEF M
    <3>4. staged[Group(d)] \in Nat
      BY <1>2, FirstListedIn DEF Types
    <3> QED BY <2>4, <3>3, <3>4 DEF Types
  <2> QED BY <1>3, <2>1, <2>2, <2>3, <2>4
<1> QED BY <1>4, <1>5 DEF Types, history, bounds

LEMMA FillTyped ==
  ASSUME Types, NEW d \in Drains, Fill(d), drain[d].todo # {}
  PROVE  Types'
<1>1. drain \in [Drains -> Locals] /\ drain[d] \in Locals
  BY DEF Types
<1>2. drain[d].missing # {}
  BY DEF Fill
<1> DEFINE b == FirstMissing(d)
<1>3. b \in Batches /\ b[1] \in Groups
  BY <1>2, FirstMissingIn, BatchOf
<1> HIDE DEF b
<1>4. /\ \/ drain' = [drain EXCEPT ![d].missing = @ \ {b}]
         \/ BlocksConversation(d)
      /\ \/ UNCHANGED <<place, stamp>>
         \/ /\ place' = [place EXCEPT ![b] = @ \union {"pending"}]
            /\ stamp' = [stamp EXCEPT ![b] = manifest[b[1]]]
      /\ UNCHANGED <<spool, resting, young, old, paused, lock, history, bounds>>
  BY DEF Fill, b
<1>5. drain' \in [Drains -> Locals]
  <2>1. CASE BlocksConversation(d)
    BY <2>1, NextGroupTyped
  <2>2. CASE drain' = [drain EXCEPT ![d].missing = @ \ {b}]
    <3>1. [drain[d] EXCEPT !.missing = @ \ {b}] \in Locals
      BY <1>1 DEF Locals
    <3> QED BY <1>1, <2>2, <3>1
  <2> QED BY <1>4, <2>1, <2>2
<1>6. place' \in [Batches -> SUBSET Places] /\ stamp' \in [Batches -> Nat]
  BY <1>3, <1>4 DEF Types, Places
<1> QED BY <1>4, <1>5, <1>6 DEF Types, spool, history, bounds

LEMMA RetireTyped ==
  ASSUME Types, NEW d \in Drains, Retire(d), drain[d].todo # {}
  PROVE  Types'
<1>1. \/ Quits(d) /\ UNCHANGED staged
      \/ NextGroup(d) /\ UNCHANGED lock /\ staged' = [staged EXCEPT ![Group(d)] = 0]
  BY DEF Retire
<1>2. drain' \in [Drains -> Locals] /\ lock' \in Drains \union {NoDrain} /\ staged' \in [Groups -> Nat]
  BY <1>1, QuitsTyped, NextGroupTyped DEF Types
<1> QED BY <1>2 DEF Retire, Types, batchFiles, history, bounds

LEMMA MaterializeKilledTyped ==
  ASSUME Types, NEW d \in Drains, MaterializeKilled(d)
  PROVE  Types'
<1>1. drain[d].todo # {}
  BY DEF MaterializeKilled, Materializing
<1>2. Group(d) \in Groups
  BY <1>1, FirstListedIn
<1>3. tmp' \subseteq SpoolFiles
  <2>1. CASE drain[d].pc = "plan"
    BY <1>2, <2>1 DEF MaterializeKilled, SpoolLeft, SpoolFiles, Types
  <2>2. CASE drain[d].pc # "plan"
    <3>1. FirstMissing(d) \in Batches
      BY <2>2, FirstMissingIn DEF MaterializeKilled
    <3> QED BY <1>2, <2>2, <3>1 DEF MaterializeKilled, SpoolLeft, SpoolFiles, Types
  <2> QED BY <2>1, <2>2
<1> QED BY <1>3, QuitsTyped DEF MaterializeKilled, Types, batchFiles, history

LEMMA SnapshotTyped ==
  ASSUME Types, NEW d \in Drains, Snapshot(d)
  PROVE  Types'
<1>1. drain \in [Drains -> Locals] /\ drain[d] \in Locals
  BY DEF Types
<1>2. View \in Views
  BY DEF View, Views, Types
<1> DEFINE P == {b \in Batches : "pending" \in place[b]}
<1>3. P \subseteq Batches
  OBVIOUS
<1> HIDE DEF P
<1>4. [drain[d] EXCEPT !.pc = "deliver", !.view = View, !.blocked = {}, !.pend = P] \in Locals
  BY <1>1, <1>2, <1>3 DEF Locals, Ours
<1>5. drain' = [drain EXCEPT ![d] = [drain[d] EXCEPT !.pc = "deliver", !.view = View,
                                                     !.blocked = {}, !.pend = P]]
  BY <1>1 DEF Snapshot, P
<1>6. drain' \in [Drains -> Locals]
  BY <1>1, <1>4, <1>5
<1> QED BY <1>6 DEF Snapshot, Types, spool, batchFiles, history, bounds

LEMMA NextItemTyped ==
  ASSUME Types, NEW d \in Drains, NextItem(d)
  PROVE  drain' \in [Drains -> Locals]
<1>1. drain \in [Drains -> Locals] /\ drain[d] \in Locals
  BY DEF Types
<1>2. [drain[d] EXCEPT !.pc = "deliver", !.pend = @ \ {Item(d)}, !.answer = "none"] \in Locals
  BY <1>1 DEF Locals, Ours, Answers
<1> QED BY <1>1, <1>2 DEF NextItem

LEMMA NextItemKnowingIs ==
  ASSUME Types, NEW d \in Drains, NEW state, NextItemKnowing(d, state)
  PROVE  drain' = [drain EXCEPT ![d] =
                     [drain[d] EXCEPT !.pc = "deliver", !.pend = @ \ {Item(d)}, !.answer = "none",
                        !.view = [drain[d].view EXCEPT !.place =
                                    [drain[d].view.place EXCEPT ![Item(d)] = {state}]]]]
<1>1. drain \in [Drains -> Locals] /\ drain[d] \in Locals
  BY DEF Types
<1> DEFINE i == Item(d)
<1> HIDE DEF i
<1> SUFFICES drain' = [drain EXCEPT ![d] =
                     [drain[d] EXCEPT !.pc = "deliver", !.pend = @ \ {i}, !.answer = "none",
                        !.view = [drain[d].view EXCEPT !.place =
                                    [drain[d].view.place EXCEPT ![i] = {state}]]]]
  BY DEF i
<1>2. drain' = [drain EXCEPT ![d].pc = "deliver", ![d].pend = @ \ {i},
                           ![d].answer = "none", ![d].view.place[i] = {state}]
  BY DEF NextItemKnowing, i
<1> QED BY <1>1, <1>2 DEF Locals, Views

LEMMA NextItemKnowingSets ==
  ASSUME Types, NEW d \in Drains, NEW state, NextItemKnowing(d, state)
  PROVE  /\ drain'[d].pc = "deliver" /\ drain'[d].todo = drain[d].todo
         /\ drain'[d].pend = drain[d].pend \ {Item(d)}
         /\ drain'[d].view = [drain[d].view EXCEPT !.place =
                                [drain[d].view.place EXCEPT ![Item(d)] = {state}]]
<1>1. drain \in [Drains -> Locals] /\ drain[d] \in Locals
  BY DEF Types
<1> DEFINE i == Item(d)
           w == [drain[d].view EXCEPT !.place = [drain[d].view.place EXCEPT ![i] = {state}]]
<1> HIDE DEF w
<1>2. drain' = [drain EXCEPT ![d] = [drain[d] EXCEPT !.pc = "deliver", !.pend = @ \ {i},
                                                     !.answer = "none", !.view = w]]
  BY NextItemKnowingIs DEF w
<1>3. /\ drain'[d].pc = "deliver" /\ drain'[d].todo = drain[d].todo
      /\ drain'[d].pend = drain[d].pend \ {i} /\ drain'[d].view = w
  BY <1>1, <1>2 DEF Locals
<1> QED BY <1>3 DEF w

LEMMA NextItemKnowingTyped ==
  ASSUME Types, NEW d \in Drains, NEW state \in Places, NextItemKnowing(d, state)
  PROVE  drain' \in [Drains -> Locals]
<1>1. drain \in [Drains -> Locals] /\ drain[d] \in Locals
  BY DEF Types
<1> DEFINE i == Item(d)
           w == [drain[d].view EXCEPT !.place = [drain[d].view.place EXCEPT ![i] = {state}]]
<1>2. w \in Views
  BY <1>1 DEF Locals, Views
<1> HIDE DEF w
<1>3. [drain[d] EXCEPT !.pc = "deliver", !.pend = @ \ {i}, !.answer = "none", !.view = w] \in Locals
  BY <1>1, <1>2 DEF Locals, Ours, Answers
<1>4. drain' = [drain EXCEPT ![d] = [drain[d] EXCEPT !.pc = "deliver", !.pend = @ \ {i},
                                                     !.answer = "none", !.view = w]]
  BY NextItemKnowingIs DEF w
<1> QED BY <1>1, <1>3, <1>4

LEMMA SkipTyped ==
  ASSUME Types, NEW d \in Drains, Skip(d)
  PROVE  Types'
BY NextItemTyped DEF Skip, Types, spool, batchFiles, history, bounds

LEMMA ClaimTyped ==
  ASSUME Types, NEW d \in Drains, Claim(d)
  PROVE  Types'
<1>1. Item(d) \in Batches
  BY ItemIn DEF Claim, Delivering
<1>2. \/ /\ place' = [place EXCEPT ![Item(d)] = (@ \ {"pending"}) \union {"inflight"}]
         /\ drain' = [drain EXCEPT ![d].pc = "send"]
      \/ UNCHANGED place /\ NextItem(d)
  BY DEF Claim
<1>3. "send" \in Ours
  BY DEF Ours
<1>4. drain' \in [Drains -> Locals]
  BY <1>2, <1>3, NextItemTyped, PcTyped
<1>5. place' \in [Batches -> SUBSET Places]
  BY <1>1, <1>2 DEF Types, Places
<1> QED BY <1>4, <1>5 DEF Claim, Types, spool, history, bounds

LEMMA SentTyped ==
  ASSUME Types, NEW d \in Drains, NEW answer \in Answers, NEW taken, Sent(d, answer, taken)
  PROVE  Types'
<1>1. drain \in [Drains -> Locals] /\ drain[d] \in Locals
  BY DEF Types
<1>2. [drain[d] EXCEPT !.pc = "settle", !.answer = answer] \in Locals
  BY <1>1 DEF Locals, Ours
<1>3. drain' \in [Drains -> Locals]
  BY <1>1, <1>2 DEF Sent
<1>4. Item(d) \in Batches
  BY ItemIn DEF Sent, Delivering
<1>5. server' \subseteq Batches
  BY <1>4 DEF Sent, Types
<1> QED BY <1>3, <1>5 DEF Sent, Types, spool, batchFiles, bounds

LEMMA SendIs ==
  ASSUME NEW d \in Drains, Send(d)
  PROVE  \E answer \in Answers, taken \in BOOLEAN :
            /\ Sent(d, answer, taken)
            /\ answer = "accepted" => taken
BY DEF Send, SendAccepted, SendLost, SendLater, SendUnauthorized, SendRefused, Answers

LEMMA SettleAcceptedTyped ==
  ASSUME Types, NEW d \in Drains, SettleAccepted(d)
  PROVE  Types'
<1>1. Item(d) \in Batches
  BY ItemIn DEF SettleAccepted, Settles, Delivering
<1>2. \/ Quits(d) /\ UNCHANGED <<place, resting>>
      \/ /\ place' = [place EXCEPT ![Item(d)] = @ \union {"accepted"}]
         /\ Quits(d) /\ UNCHANGED resting
      \/ /\ place' = [place EXCEPT ![Item(d)] = (@ \ {"inflight"}) \union {"done"}]
         /\ resting' = resting \ {Item(d)}
         /\ NextItemKnowing(d, "done") /\ UNCHANGED lock
  BY DEF SettleAccepted
<1>3. "done" \in Places
  BY DEF Places
<1>4. drain' \in [Drains -> Locals] /\ lock' \in Drains \union {NoDrain}
  BY <1>2, <1>3, QuitsTyped, NextItemKnowingTyped DEF Types
<1>5. place' \in [Batches -> SUBSET Places] /\ resting' \subseteq Batches
  BY <1>1, <1>2 DEF Types, Places
<1> QED BY <1>4, <1>5 DEF SettleAccepted, Types, spool, history, bounds

LEMMA MovesBackTyped ==
  ASSUME Types, NEW d \in Drains, NEW dir \in Places, NEW due \in BOOLEAN, NEW last \in BOOLEAN,
         Settles(d),
         MovesBack(d, dir, due, last), paused' \in BOOLEAN
  PROVE  Types'
<1>1. Item(d) \in Batches
  BY ItemIn DEF Settles, Delivering
<1>2. /\ Quits(d) \/ (NextItemKnowing(d, dir) /\ UNCHANGED lock)
      /\ \/ UNCHANGED place
         \/ place' = [place EXCEPT ![Item(d)] = (@ \ {"inflight"}) \union {dir}]
  BY DEF MovesBack
<1>3. drain' \in [Drains -> Locals] /\ lock' \in Drains \union {NoDrain}
  BY <1>2, QuitsTyped, NextItemKnowingTyped DEF Types
<1>4. place' \in [Batches -> SUBSET Places] /\ resting' \subseteq Batches
  BY <1>1, <1>2 DEF Types, Places, MovesBack
<1> QED BY <1>3, <1>4 DEF MovesBack, Types, spool, history, bounds

LEMMA SettleIs ==
  ASSUME Types, NEW d \in Drains, Settle(d), ~SettleAccepted(d)
  PROVE  /\ Settles(d) /\ drain[d].answer # "accepted"
         /\ paused' \in BOOLEAN
         /\ \E dir \in {"pending", "failed"}, due \in BOOLEAN, last \in BOOLEAN :
              MovesBack(d, dir, due, last)
BY DEF Settle, SettleLost, SettleLater, SettleUnauthorized, SettleRefused, Types

LEMMA OthersTyped ==
  ASSUME Types,
         \/ \E d \in Drains : Finish(d) \/ Stall(d) \/ Killed(d) \/ KilledAccepting(d)
         \/ \E b \in Batches : BackoffEnds(b)
         \/ PauseEnds
         \/ WeekPasses
  PROVE  Types'
<1>1. ASSUME NEW d \in Drains, Finish(d) PROVE Types'
  BY <1>1, QuitsTyped DEF Finish, Types, spool, batchFiles, history, bounds
<1>2. ASSUME NEW d \in Drains, Killed(d) PROVE Types'
  BY <1>2, QuitsTyped DEF Killed, Types, spool, batchFiles, history
<1>3. ASSUME NEW d \in Drains, Stall(d) PROVE Types'
  <2>1. \/ drain[d].todo # {} /\ BlocksConversation(d) /\ UNCHANGED lock
        \/ Quits(d)
    BY <1>3 DEF Stall, Materializing
  <2>2. drain' \in [Drains -> Locals] /\ lock' \in Drains \union {NoDrain}
    BY <2>1, QuitsTyped, NextGroupTyped DEF Types
  <2> QED BY <1>3, <2>2 DEF Stall, Types, spool, batchFiles, history
<1>4. ASSUME NEW d \in Drains, KilledAccepting(d) PROVE Types'
  <2>1. PICK raw \in {{}, {"inflight"}} :
           place' = [place EXCEPT ![Item(d)] = (@ \ {"inflight"}) \union raw \union {"accepted"}]
    BY <1>4 DEF KilledAccepting
  <2>2. place' \in [Batches -> SUBSET Places]
    BY <2>1 DEF Types, Places
  <2> QED BY <1>4, <2>2, QuitsTyped DEF KilledAccepting, Types, spool, history
<1>5. ASSUME NEW b \in Batches, BackoffEnds(b) PROVE Types'
  BY <1>5 DEF BackoffEnds, Types, spool, history, bounds
<1>6. CASE PauseEnds
  BY <1>6 DEF PauseEnds, Types, spool, batchFiles, history, bounds
<1>7. CASE WeekPasses
  BY <1>7 DEF WeekPasses, Types, spool, history
<1> QED BY <1>1, <1>2, <1>3, <1>4, <1>5, <1>6, <1>7

----------------------------------------------------------------------------
(* Nothing is lost *)

\* A batch whose raw file exists, in some directory, or that the service has.
Landed(b) == place[b] \intersect RawPlaces # {} \/ b \in server

\* What a drain says the service has accepted, the service has.
Answered ==
    \A d \in Drains :
        /\ drain[d].pc \in {"send", "settle"} => drain[d].pend # {}
        /\ drain[d].pc = "settle" /\ drain[d].answer = "accepted" => Item(d) \in server

\* So has it everything there is a tombstone of.
Taken == \A b \in Batches : place[b] \intersect {"accepted", "done"} # {} => b \in server

\* While a group is expanded, each of its batches is still missing or has landed.
Expanding ==
    \A d \in Drains : drain[d].pc = "fill" =>
        /\ drain[d].todo # {}
        /\ drain[d].missing \subseteq BatchesOf(Group(d))
        /\ \A b \in BatchesOf(Group(d)) : b \in drain[d].missing \/ Landed(b)

\* What was reported as queued is staged, until all of it has landed.
Kept(g) == staged[g] # 0 \/ \A b \in BatchesOf(g) : Landed(b)
Held == \A g \in queued : Kept(g)

KeepInv == Types /\ Answered /\ Taken /\ Expanding /\ Held

\* What one step does to the files of the batches.
Safely ==
    /\ server \subseteq server'
    /\ \A b \in Batches : Landed(b) => Landed(b)'
    /\ Taken'

\* What the recovery makes of the directories of one batch.
LEMMA RecoverPlaces ==
  ASSUME Types, NEW d \in Drains, Recover(d), NEW b \in Batches
  PROVE  \E r, f, q :
            /\ r = IF Restorable(b) THEN {"pending"} ELSE place[b]
            /\ f = IF "accepted" \in r THEN (r \ {"accepted", "inflight"}) \union {"done"} ELSE r
            /\ q = IF "inflight" \in f THEN (f \ {"inflight"}) \union {"pending"} ELSE f
            /\ place'[b] = q \/ (place'[b] = q \ {"done"} /\ DoneFile(b) \in old)
<1> DEFINE pl == Requeued(Finalized(RestoredPlace))
<1>1. place'[b] = pl[b] \/ (place'[b] = pl[b] \ {"done"} /\ DoneFile(b) \in old)
  BY DEF Recover, Expired
<1>2. RestoredPlace[b] = IF Restorable(b) THEN {"pending"} ELSE place[b]
  BY DEF RestoredPlace
<1>3. Finalized(RestoredPlace)[b] =
        IF "accepted" \in RestoredPlace[b]
        THEN (RestoredPlace[b] \ {"accepted", "inflight"}) \union {"done"}
        ELSE RestoredPlace[b]
  BY DEF Finalized
<1>4. pl[b] = IF "inflight" \in Finalized(RestoredPlace)[b]
              THEN (Finalized(RestoredPlace)[b] \ {"inflight"}) \union {"pending"}
              ELSE Finalized(RestoredPlace)[b]
  BY DEF Requeued
<1> HIDE DEF pl
<1> QED BY <1>1, <1>2, <1>3, <1>4

LEMMA RecoverSafely ==
  ASSUME Types, Taken, NEW d \in Drains, Recover(d)
  PROVE  Safely
<1>1. server' = server
  BY DEF Recover, history
<1>3. ASSUME NEW b \in Batches
      PROVE  /\ Landed(b) => Landed(b)'
             /\ place'[b] \intersect {"accepted", "done"} # {} => b \in server'
  <2>0. PICK r, f, q :
            /\ r = IF Restorable(b) THEN {"pending"} ELSE place[b]
            /\ f = IF "accepted" \in r THEN (r \ {"accepted", "inflight"}) \union {"done"} ELSE r
            /\ q = IF "inflight" \in f THEN (f \ {"inflight"}) \union {"pending"} ELSE f
            /\ place'[b] = q \/ (place'[b] = q \ {"done"} /\ DoneFile(b) \in old)
    BY RecoverPlaces
  <2>1. CASE Restorable(b)
    <3>1. place[b] = {} /\ q = {"pending"}
      BY <2>0, <2>1 DEF Restorable, Absent
    <3>2. place'[b] = {"pending"}
      BY <2>0, <3>1
    <3> QED BY <3>2 DEF Landed, RawPlaces
  <2>2. CASE "accepted" \in place[b]
    <3>1. b \in server
      BY <2>2 DEF Taken
    <3> QED BY <1>1, <3>1 DEF Landed
  <2>3. CASE ~Restorable(b) /\ "accepted" \notin place[b]
    <3>1. q = IF "inflight" \in place[b] THEN (place[b] \ {"inflight"}) \union {"pending"} ELSE place[b]
      BY <2>0, <2>3
    <3>2. place[b] \intersect {"accepted", "done"} # {} => b \in server
      BY DEF Taken
    <3>3. Landed(b) => Landed(b)'
      BY <1>1, <2>0, <3>1 DEF Landed, RawPlaces
    <3>4. place'[b] \intersect {"accepted", "done"} # {} => b \in server'
      BY <1>1, <2>0, <3>1, <3>2
    <3> QED BY <3>3, <3>4
  <2> QED BY <2>1, <2>2, <2>3
<1> QED BY <1>1, <1>3 DEF Safely, Taken

\* A step that touches the file of one batch only.
LEMMA OneFile ==
  ASSUME Types, Taken, server \subseteq server', NEW b \in Batches, NEW files,
         place' = [place EXCEPT ![b] = files],
         Landed(b) => files \intersect RawPlaces # {} \/ b \in server',
         files \intersect {"accepted", "done"} # {} => b \in server'
  PROVE  Safely
<1>1. \A c \in Batches : c # b => place'[c] = place[c]
  BY DEF Types
<1>2. place'[b] = files
  BY DEF Types
<1> QED BY <1>1, <1>2 DEF Safely, Landed, Taken

LEMMA NoFile ==
  ASSUME Taken, server \subseteq server', UNCHANGED place
  PROVE  Safely
BY DEF Safely, Landed, Taken

LEMMA StepSafely ==
  ASSUME Types, Answered, Taken, NextOutbox
  PROVE  Safely
<1>1. ASSUME NEW g \in Groups, SessionEnd(g) \/ SessionEndKilled(g) PROVE Safely
  BY <1>1, NoFile DEF SessionEnd, SessionEndKilled, batchFiles
<1>2. ASSUME NEW d \in Drains, Recover(d) PROVE Safely
  BY <1>2, RecoverSafely
<1>3. ASSUME NEW d \in Drains, List(d) \/ Plan(d) \/ Retire(d) \/ Snapshot(d) \/ Skip(d) \/ Finish(d) PROVE Safely
  BY <1>3, NoFile DEF List, Plan, Retire, Snapshot, Skip, Finish, batchFiles, history
<1>4. ASSUME NEW d \in Drains, Stall(d) \/ Killed(d) \/ MaterializeKilled(d) PROVE Safely
  BY <1>4, NoFile DEF Stall, Killed, MaterializeKilled, batchFiles, history
<1>5. ASSUME NEW d \in Drains, Fill(d) PROVE Safely
  <2>1. server' = server
    BY <1>5 DEF Fill, history
  <2>2. CASE UNCHANGED place
    BY <2>1, <2>2, NoFile
  <2>3. CASE ~UNCHANGED place
    <3>1. FirstMissing(d) \in Batches
      BY <1>5, FirstMissingIn DEF Fill
    <3>2. /\ place' = [place EXCEPT ![FirstMissing(d)] = place[FirstMissing(d)] \union {"pending"}]
          /\ Absent(FirstMissing(d))
      BY <1>5, <2>3 DEF Fill
    <3>3. place[FirstMissing(d)] \union {"pending"} = {"pending"}
      BY <3>2 DEF Absent
    <3>4. place' = [place EXCEPT ![FirstMissing(d)] = {"pending"}]
      BY <3>2, <3>3
    <3> QED BY <2>1, <3>1, <3>4, OneFile DEF RawPlaces
  <2> QED BY <2>2, <2>3
<1>6. ASSUME NEW d \in Drains, Claim(d) PROVE Safely
  <2>1. server' = server
    BY <1>6 DEF Claim, history
  <2>2. CASE UNCHANGED place
    BY <2>1, <2>2, NoFile
  <2>3. CASE ~UNCHANGED place
    <3>1. Item(d) \in Batches
      BY <1>6, ItemIn DEF Claim, Delivering
    <3>2. place' = [place EXCEPT ![Item(d)] = (place[Item(d)] \ {"pending"}) \union {"inflight"}]
      BY <1>6, <2>3 DEF Claim
    <3> QED BY <2>1, <3>1, <3>2, OneFile DEF RawPlaces, Taken
  <2> QED BY <2>2, <2>3
<1>7. ASSUME NEW d \in Drains, Send(d) PROVE Safely
  <2>1. server \subseteq server' /\ UNCHANGED place
    BY <1>7, SendIs DEF Sent, batchFiles
  <2> QED BY <2>1, NoFile
<1>8. ASSUME NEW d \in Drains, SettleAccepted(d) \/ KilledAccepting(d) PROVE Safely
  <2>1. Settles(d) /\ drain[d].answer = "accepted" /\ server' = server
    BY <1>8 DEF SettleAccepted, KilledAccepting, history
  <2>2. Item(d) \in server /\ Item(d) \in Batches
    BY <2>1, ItemIn DEF Answered, Settles, Delivering
  <2>3. UNCHANGED place \/ \E files : place' = [place EXCEPT ![Item(d)] = files]
    BY <1>8 DEF SettleAccepted, KilledAccepting
  <2> QED BY <2>1, <2>2, <2>3, NoFile, OneFile
<1>9. ASSUME NEW d \in Drains, Settle(d), ~SettleAccepted(d) PROVE Safely
  <2>1. PICK dir \in {"pending", "failed"}, due \in BOOLEAN, last \in BOOLEAN : MovesBack(d, dir, due, last)
    BY <1>9, SettleIs
  <2>2. server' = server
    BY <2>1 DEF MovesBack, history
  <2>3. CASE UNCHANGED place
    BY <2>2, <2>3, NoFile
  <2>4. CASE ~UNCHANGED place
    <3>1. Item(d) \in Batches
      BY <1>9, SettleIs, ItemIn DEF Settles, Delivering
    <3>2. place' = [place EXCEPT ![Item(d)] = (place[Item(d)] \ {"inflight"}) \union {dir}]
      BY <2>1, <2>4 DEF MovesBack
    <3> QED BY <2>2, <3>1, <3>2, OneFile DEF RawPlaces, Taken
  <2> QED BY <2>3, <2>4
<1>10. ASSUME NEW b \in Batches, BackoffEnds(b) PROVE Safely
  BY <1>10, NoFile DEF BackoffEnds, history
<1>11. CASE PauseEnds
  BY <1>11, NoFile DEF PauseEnds, batchFiles, history
<1>12. CASE WeekPasses
  BY <1>12, NoFile DEF WeekPasses, history
<1> QED BY <1>1, <1>2, <1>3, <1>4, <1>5, <1>6, <1>7, <1>8, <1>9, <1>10, <1>11, <1>12
        DEF NextOutbox, Advance, Materialize, Dies

\* The steps of one drain.
DrainSteps(d) == Recover(d) \/ Advance(d) \/ Send(d) \/ Stall(d) \/ Dies(d)

\* They leave the variables of the others alone.
LEMMA OthersStand ==
  ASSUME Types, NEW d \in Drains, DrainSteps(d)
  PROVE  \A c \in Drains \ {d} : drain'[c] = drain[c]
<1>1. drain \in [Drains -> Locals]
  BY DEF Types
<1>2. ASSUME NextGroup(d) \/ BlocksConversation(d) \/ Quits(d) \/ NextItem(d)
                               \/ (\E state : NextItemKnowing(d, state))
      PROVE  \A c \in Drains \ {d} : drain'[c] = drain[c]
  BY <1>1, <1>2 DEF NextGroup, BlocksConversation, Quits, NextItem, NextItemKnowing
<1>4. ASSUME Recover(d) \/ List(d) \/ Snapshot(d)
      PROVE  \A c \in Drains \ {d} : drain'[c] = drain[c]
  BY <1>1, <1>4 DEF Recover, List, Snapshot
<1>5. ASSUME Plan(d)
      PROVE  \A c \in Drains \ {d} : drain'[c] = drain[c]
  <2>1. \/ NextGroup(d) \/ Quits(d) \/ BlocksConversation(d)
        \/ drain' = [drain EXCEPT ![d].pc = "fill", ![d].missing = MissingOf(Group(d))]
    BY <1>5 DEF Plan
  <2> QED BY <1>1, <1>2, <2>1
<1>6. ASSUME Fill(d) \/ Retire(d)
      PROVE  \A c \in Drains \ {d} : drain'[c] = drain[c]
  BY <1>1, <1>2, <1>6 DEF Fill, Retire
<1>7. ASSUME Skip(d) \/ Finish(d) \/ Dies(d) \/ Stall(d)
      PROVE  \A c \in Drains \ {d} : drain'[c] = drain[c]
  BY <1>2, <1>7 DEF Skip, Finish, Dies, Killed, KilledAccepting, MaterializeKilled, Stall
<1>8. ASSUME Claim(d) \/ Send(d)
      PROVE  \A c \in Drains \ {d} : drain'[c] = drain[c]
  <2>1. CASE Claim(d)
    BY <1>1, <1>2, <2>1 DEF Claim
  <2>2. CASE Send(d)
    <3>1. PICK answer \in Answers, taken \in BOOLEAN : Sent(d, answer, taken)
      BY <2>2, SendIs
    <3> QED BY <1>1, <3>1 DEF Sent
  <2> QED BY <1>8, <2>1, <2>2
<1>9. ASSUME Settle(d)
      PROVE  \A c \in Drains \ {d} : drain'[c] = drain[c]
  <2>1. CASE SettleAccepted(d)
    BY <1>2, <2>1 DEF SettleAccepted
  <2>2. CASE ~SettleAccepted(d)
    BY <1>2, <1>9, <2>2, SettleIs DEF MovesBack
  <2> QED BY <2>1, <2>2
<1> QED BY <1>4, <1>5, <1>6, <1>7, <1>8, <1>9 DEF DrainSteps, Advance, Materialize

LEMMA DrainsStand ==
  ASSUME NextOutbox, ~ \E d \in Drains : DrainSteps(d)
  PROVE  UNCHANGED drain
<1>1. ASSUME NEW g \in Groups, SessionEnd(g) \/ SessionEndKilled(g) PROVE UNCHANGED drain
  BY <1>1 DEF SessionEnd, SessionEndKilled
<1>2. ASSUME (\E b \in Batches : BackoffEnds(b)) \/ PauseEnds \/ WeekPasses PROVE UNCHANGED drain
  BY <1>2 DEF BackoffEnds, PauseEnds, WeekPasses
<1> QED BY <1>1, <1>2 DEF NextOutbox, DrainSteps

LEMMA LocalsOf ==
  ASSUME NEW c, drain'[c] = drain[c]
  PROVE  /\ Item(c)' = Item(c) /\ FirstListed(c)' = FirstListed(c) /\ Group(c)' = Group(c)
         /\ FirstMissing(c)' = FirstMissing(c)
BY DEF Item, FirstListed, Group, FirstMissing

\* The steps of a drain that leave it neither with a request nor with an answer.
LEMMA Unasked ==
  ASSUME Types, NEW d \in Drains,
         \/ Recover(d) \/ Materialize(d) \/ Snapshot(d) \/ Skip(d) \/ Settle(d)
         \/ Finish(d) \/ Stall(d) \/ Dies(d)
  PROVE  drain'[d] = drain[d] \/ drain'[d].pc \notin {"send", "settle"}
<1>1. drain \in [Drains -> Locals] /\ drain[d] \in Locals
  BY DEF Types
<1>2. ASSUME NextGroup(d) \/ BlocksConversation(d) \/ Quits(d) \/ NextItem(d)
               \/ (\E state : NextItemKnowing(d, state))
      PROVE  drain'[d].pc \notin {"send", "settle"}
  <2>1. CASE NextGroup(d) \/ BlocksConversation(d)
    BY <1>1, <2>1 DEF NextGroup, BlocksConversation, Locals
  <2>2. CASE Quits(d)
    BY <1>1, <2>2 DEF Quits, Idle
  <2>3. CASE NextItem(d)
    BY <1>1, <2>3 DEF NextItem, Locals
  <2>4. ASSUME NEW state, NextItemKnowing(d, state) PROVE drain'[d].pc \notin {"send", "settle"}
    BY <2>4, NextItemKnowingSets
  <2> QED BY <1>2, <2>1, <2>2, <2>3, <2>4
<1>3. CASE Recover(d)
  BY <1>1, <1>3 DEF Recover, Locals
<1>4. CASE List(d) \/ Snapshot(d)
  BY <1>1, <1>4 DEF List, Snapshot, Locals
<1>5. CASE Plan(d)
  <2>1. \/ NextGroup(d) \/ Quits(d) \/ BlocksConversation(d)
        \/ drain' = [drain EXCEPT ![d].pc = "fill", ![d].missing = MissingOf(Group(d))]
    BY <1>5 DEF Plan
  <2> QED BY <1>1, <1>2, <2>1 DEF Locals
<1>6. CASE Fill(d) \/ Retire(d)
  <2>1. \/ NextGroup(d) \/ Quits(d) \/ BlocksConversation(d)
        \/ drain[d].pc = "fill" /\ drain' = [drain EXCEPT ![d].missing = @ \ {FirstMissing(d)}]
    BY <1>6 DEF Fill, Retire
  <2> QED BY <1>1, <1>2, <2>1 DEF Locals
<1>7. CASE Skip(d) \/ Finish(d) \/ Dies(d) \/ Stall(d)
  BY <1>2, <1>7 DEF Skip, Finish, Dies, Killed, KilledAccepting, MaterializeKilled, Stall
<1>8. CASE Settle(d)
  <2>1. CASE SettleAccepted(d)
    BY <1>2, <2>1 DEF SettleAccepted
  <2>2. CASE ~SettleAccepted(d)
    BY <1>2, <1>8, <2>2, SettleIs DEF MovesBack
  <2> QED BY <2>1, <2>2
<1> QED BY <1>3, <1>4, <1>5, <1>6, <1>7, <1>8 DEF Materialize

LEMMA AnsweredKept ==
  ASSUME Types, Answered, Taken, NextOutbox
  PROVE  Answered'
<1>1. server \subseteq server'
  BY StepSafely DEF Safely
<1> DEFINE A(d) == /\ drain[d].pc \in {"send", "settle"} => drain[d].pend # {}
                   /\ drain[d].pc = "settle" /\ drain[d].answer = "accepted" => Item(d) \in server
<1>2. ASSUME NEW c \in Drains, drain'[c] = drain[c] PROVE A(c)'
  BY <1>1, <1>2, LocalsOf DEF Answered
<1>3. drain \in [Drains -> Locals]
  BY DEF Types
<1>4. ASSUME NEW d \in Drains, Claim(d) \/ Send(d) PROVE A(d)'
  <2>0. drain[d] \in Locals
    BY <1>3
  <2>1. CASE Claim(d)
    <3>1. CASE drain' = [drain EXCEPT ![d].pc = "send"]
      BY <1>3, <2>0, <2>1, <3>1 DEF Claim, Delivering, Locals
    <3>2. CASE NextItem(d)
      BY <1>3, <2>0, <3>2 DEF NextItem, Locals
    <3> QED BY <2>1, <3>1, <3>2 DEF Claim
  <2>2. CASE Send(d)
    <3>1. PICK answer \in Answers, taken \in BOOLEAN :
             Sent(d, answer, taken) /\ (answer = "accepted" => taken)
      BY <2>2, SendIs
    <3>2. /\ drain'[d].pend = drain[d].pend /\ drain'[d].view = drain[d].view
          /\ drain'[d].answer = answer /\ drain[d].pend # {}
      BY <1>3, <2>0, <3>1 DEF Sent, Locals, Delivering
    <3>3. Item(d)' = Item(d)
      BY <3>2 DEF Item
    <3>4. answer = "accepted" => Item(d) \in server'
      BY <3>1 DEF Sent
    <3> QED BY <3>2, <3>3, <3>4
  <2> QED BY <1>4, <2>1, <2>2
<1>5. ASSUME NEW d \in Drains,
             \/ Recover(d) \/ Materialize(d) \/ Snapshot(d) \/ Skip(d) \/ Settle(d)
             \/ Finish(d) \/ Stall(d) \/ Dies(d)
      PROVE  A(d)'
  BY <1>2, <1>5, Unasked
<1>6. ASSUME NEW d \in Drains, DrainSteps(d) PROVE A(d)'
  BY <1>4, <1>5, <1>6 DEF Advance, DrainSteps
<1>7. ASSUME NEW d \in Drains, DrainSteps(d)
      PROVE  \A c \in Drains \ {d} : drain'[c] = drain[c]
  BY <1>7, OthersStand
<1>8. CASE \E d \in Drains : DrainSteps(d)
  BY <1>2, <1>6, <1>7, <1>8 DEF Answered
<1>9. CASE ~ \E d \in Drains : DrainSteps(d)
  BY <1>2, <1>9, DrainsStand DEF Answered
<1> QED BY <1>8, <1>9

\* The steps that do not end with a group under way.
LEMMA Unfilled ==
  ASSUME Types, NEW d \in Drains,
         DrainSteps(d), ~Plan(d), ~Fill(d)
  PROVE  drain'[d] = drain[d] \/ drain'[d].pc # "fill"
<1>1. drain \in [Drains -> Locals] /\ drain[d] \in Locals
  BY DEF Types
<1>2. ASSUME NextGroup(d) \/ BlocksConversation(d) \/ Quits(d) \/ NextItem(d)
               \/ (\E state : NextItemKnowing(d, state))
      PROVE  drain'[d].pc # "fill"
  <2>1. CASE NextGroup(d) \/ BlocksConversation(d)
    BY <1>1, <2>1 DEF NextGroup, BlocksConversation, Locals
  <2>2. CASE Quits(d)
    BY <1>1, <2>2 DEF Quits, Idle
  <2>3. CASE NextItem(d)
    BY <1>1, <2>3 DEF NextItem, Locals
  <2>4. ASSUME NEW state, NextItemKnowing(d, state) PROVE drain'[d].pc # "fill"
    BY <2>4, NextItemKnowingSets
  <2> QED BY <1>2, <2>1, <2>2, <2>3, <2>4
<1>3. CASE Recover(d)
  BY <1>1, <1>3 DEF Recover, Locals
<1>4. CASE List(d) \/ Snapshot(d)
  BY <1>1, <1>4 DEF List, Snapshot, Locals
<1>5. CASE Retire(d) \/ Skip(d) \/ Finish(d) \/ Dies(d) \/ Stall(d)
  BY <1>2, <1>5 DEF Retire, Skip, Finish, Dies, Killed, KilledAccepting, MaterializeKilled, Stall
<1>6. CASE Claim(d)
  <2>1. NextItem(d) \/ drain' = [drain EXCEPT ![d].pc = "send"]
    BY <1>6 DEF Claim
  <2> QED BY <1>1, <1>2, <2>1 DEF Locals
<1>7. CASE Send(d)
  <2>1. PICK answer \in Answers, taken \in BOOLEAN : Sent(d, answer, taken)
    BY <1>7, SendIs
  <2>2. drain'[d] = [drain[d] EXCEPT !.pc = "settle", !.answer = answer]
    BY <1>1, <2>1 DEF Sent
  <2> QED BY <1>1, <2>2 DEF Locals
<1>8. CASE Settle(d)
  <2>1. CASE SettleAccepted(d)
    BY <1>2, <2>1 DEF SettleAccepted
  <2>2. CASE ~SettleAccepted(d)
    BY <1>2, <1>8, <2>2, SettleIs DEF MovesBack
  <2> QED BY <2>1, <2>2
<1> QED BY <1>3, <1>4, <1>5, <1>6, <1>7, <1>8 DEF DrainSteps, Advance, Materialize

\* A batch with any file has landed.
LEMMA FilesLand ==
  ASSUME Types, Taken, NEW b \in Batches, ~Absent(b)
  PROVE  Landed(b)
<1>1. place[b] \in SUBSET Places
  BY DEF Types
<1> QED BY <1>1 DEF Absent, Taken, Landed, Places, RawPlaces

LEMMA ExpandingKept ==
  ASSUME Types, Answered, Taken, Expanding, NextOutbox
  PROVE  Expanding'
<1>1. \A b \in Batches : Landed(b) => Landed(b)'
  BY StepSafely DEF Safely
<1>2. \A g : BatchesOf(g) \subseteq Batches
  BY DEF BatchesOf
<1> DEFINE E(d) == drain[d].pc = "fill" =>
                     /\ drain[d].todo # {}
                     /\ drain[d].missing \subseteq BatchesOf(Group(d))
                     /\ \A b \in BatchesOf(Group(d)) : b \in drain[d].missing \/ Landed(b)
<1>3. ASSUME NEW c \in Drains, drain'[c] = drain[c] PROVE E(c)'
  BY <1>1, <1>2, <1>3, LocalsOf DEF Expanding
<1>4. drain \in [Drains -> Locals]
  BY DEF Types
<1>5. ASSUME NEW d \in Drains, Plan(d) PROVE E(d)'
  <2>0. drain[d] \in Locals
    BY <1>4
  <2>1. CASE drain' = [drain EXCEPT ![d].pc = "fill", ![d].missing = MissingOf(Group(d))]
    <3>1. drain'[d].todo = drain[d].todo /\ drain'[d].missing = MissingOf(Group(d))
      BY <1>4, <2>0, <2>1 DEF Locals
    <3>2. Group(d)' = Group(d)
      BY <3>1 DEF Group, FirstListed
    <3>3. drain[d].todo # {}
      BY <1>5 DEF Plan, Materializing
    <3>4. \A b \in BatchesOf(Group(d)) : b \in MissingOf(Group(d)) \/ Landed(b)
      BY <1>2, FilesLand DEF MissingOf
    <3>5. MissingOf(Group(d)) \subseteq BatchesOf(Group(d))
      BY DEF MissingOf
    <3> QED BY <1>1, <1>2, <3>1, <3>2, <3>3, <3>4, <3>5 DEF BatchesOf, Batches
  <2>2. CASE NextGroup(d) \/ Quits(d) \/ BlocksConversation(d)
    <3>1. drain'[d].pc # "fill"
      BY <1>4, <2>0, <2>2 DEF NextGroup, Quits, BlocksConversation, Idle, Locals
    <3> QED BY <3>1
  <2> QED BY <1>5, <2>1, <2>2 DEF Plan
<1>6. ASSUME NEW d \in Drains, Fill(d) PROVE E(d)'
  <2>0. drain[d] \in Locals
    BY <1>4
  <2>1. CASE drain' = [drain EXCEPT ![d].missing = @ \ {FirstMissing(d)}]
    <3>1. drain'[d].todo = drain[d].todo /\ drain'[d].missing = drain[d].missing \ {FirstMissing(d)}
      BY <1>4, <2>0, <2>1 DEF Locals
    <3>2. Group(d)' = Group(d)
      BY <3>1 DEF Group, FirstListed
    <3>3. E(d) /\ drain[d].pc = "fill" /\ drain[d].missing # {}
      BY <1>6 DEF Expanding, Fill
    <3>0. PICK b : b = FirstMissing(d)
      OBVIOUS
    <3>4. Landed(b)' \/ BlocksConversation(d)
      <4>1. b \in Batches
        BY <3>0, <3>3, FirstMissingIn
      <4>2. CASE ~Absent(b)
        BY <1>1, <4>1, <4>2, FilesLand
      <4>3. CASE Absent(b) /\ ~BlocksConversation(d)
        <5>1. place' = [place EXCEPT ![b] = @ \union {"pending"}]
          BY <1>6, <3>0, <4>3 DEF Fill
        <5> QED BY <4>1, <5>1 DEF Types, Landed, RawPlaces
      <4> QED BY <4>2, <4>3
    <3>5. BlocksConversation(d) => drain'[d].pc = "plan"
      BY <1>4, <2>0 DEF BlocksConversation, Locals
    <3> QED BY <1>1, <1>2, <3>0, <3>1, <3>2, <3>3, <3>4, <3>5 DEF BatchesOf, Batches
  <2>2. CASE BlocksConversation(d)
    <3>1. drain'[d].pc # "fill"
      BY <1>4, <2>0, <2>2 DEF BlocksConversation, Locals
    <3> QED BY <3>1
  <2> QED BY <1>6, <2>1, <2>2 DEF Fill
<1>7. ASSUME NEW d \in Drains, DrainSteps(d), ~Plan(d), ~Fill(d) PROVE E(d)'
  BY <1>3, <1>7, Unfilled
<1>8. CASE \E d \in Drains : DrainSteps(d)
  BY <1>3, <1>5, <1>6, <1>7, <1>8, OthersStand DEF Expanding
<1>9. CASE ~ \E d \in Drains : DrainSteps(d)
  BY <1>3, <1>9, DrainsStand DEF Expanding
<1> QED BY <1>8, <1>9

LEMMA KeptStays ==
  ASSUME Types, Answered, Taken, Expanding, NextOutbox, NEW g \in Groups, Kept(g)
  PROVE  Kept(g)'
<1>1. \A b \in Batches : Landed(b) => Landed(b)'
  BY StepSafely DEF Safely
<1>2. BatchesOf(g) \subseteq Batches /\ BatchesOf(g)' = BatchesOf(g)
  BY DEF BatchesOf, Batches
<1>3. ASSUME staged[g] # 0 => staged'[g] # 0 PROVE Kept(g)'
  BY <1>1, <1>2, <1>3 DEF Kept
<1>4. ASSUME NEW h \in Groups, SessionEnd(h) \/ SessionEndKilled(h)
      PROVE  staged[g] # 0 => staged'[g] # 0
  <2>1. OrderFor(h) # 0
    BY DEF Types, OrderFor
  <2>2. UNCHANGED staged \/ staged' = [staged EXCEPT ![h] = OrderFor(h)]
    BY <1>4 DEF SessionEnd, SessionEndKilled
  <2> QED BY <2>1, <2>2 DEF Types
<1>5. ASSUME NEW d \in Drains, Recover(d) PROVE staged[g] # 0 => staged'[g] # 0
  BY <1>5 DEF Recover, RestoredFile, Types
<1>6. ASSUME NEW d \in Drains, Retire(d) PROVE Kept(g)'
  <2>1. CASE UNCHANGED staged \/ g # Group(d)
    <3>1. staged'[g] = staged[g]
      BY <1>6, <2>1 DEF Retire, Types
    <3> QED BY <1>3, <3>1
  <2>2. CASE g = Group(d)
    <3>1. \A b \in BatchesOf(g) : Landed(b)
      BY <1>6, <2>2 DEF Expanding, Retire
    <3> QED BY <1>1, <1>2, <3>1 DEF Kept
  <2> QED BY <2>1, <2>2
<1>7. ASSUME NEW d \in Drains,
             \/ List(d) \/ Plan(d) \/ Fill(d) \/ Snapshot(d) \/ Skip(d) \/ Claim(d)
             \/ Finish(d) \/ Stall(d) \/ Dies(d)
      PROVE  UNCHANGED staged
  BY <1>7 DEF List, Plan, Fill, Snapshot, Skip, Claim, Finish, Stall, Dies, Killed,
              KilledAccepting, MaterializeKilled, spool
<1>8. ASSUME NEW d \in Drains, Send(d) PROVE UNCHANGED staged
  BY <1>8, SendIs DEF Sent, spool
<1>9. ASSUME NEW d \in Drains, Settle(d) PROVE UNCHANGED staged
  <2>1. CASE SettleAccepted(d)
    BY <2>1 DEF SettleAccepted, spool
  <2>2. CASE ~SettleAccepted(d)
    BY <1>9, <2>2, SettleIs DEF MovesBack, spool
  <2> QED BY <2>1, <2>2
<1>10. ASSUME (\E b \in Batches : BackoffEnds(b)) \/ PauseEnds \/ WeekPasses
       PROVE  UNCHANGED staged
  BY <1>10 DEF BackoffEnds, PauseEnds, WeekPasses, spool
<1> QED BY <1>3, <1>4, <1>5, <1>6, <1>7, <1>8, <1>9, <1>10 DEF NextOutbox, Advance, Materialize

\* Only a SessionEnd reports, and only a SessionEnd takes an order.
LEMMA DrainHistory ==
  ASSUME Types, NEW d \in Drains, DrainSteps(d)
  PROVE  UNCHANGED <<queued, before, sequence>>
<1>1. CASE Recover(d) \/ List(d) \/ Plan(d) \/ Fill(d) \/ Retire(d) \/ Snapshot(d)
  BY <1>1 DEF Recover, List, Plan, Fill, Retire, Snapshot, spool, history
<1>2. CASE Skip(d) \/ Claim(d) \/ Finish(d) \/ Stall(d) \/ Dies(d)
  BY <1>2 DEF Skip, Claim, Finish, Stall, Dies, Killed, KilledAccepting,
              MaterializeKilled, spool, history
<1>3. CASE Send(d)
  BY <1>3, SendIs DEF Sent, spool
<1>4. CASE SettleAccepted(d)
  BY <1>4 DEF SettleAccepted, spool, history
<1>5. CASE Settle(d) /\ ~SettleAccepted(d)
  BY <1>5, SettleIs DEF MovesBack, spool, history
<1> QED BY <1>1, <1>2, <1>3, <1>4, <1>5 DEF DrainSteps, Advance, Materialize

LEMMA HistoryStands ==
  ASSUME Types, NextOutbox, ~ \E g \in Groups : SessionEnd(g) \/ SessionEndKilled(g)
  PROVE  UNCHANGED <<queued, before, sequence>>
<1>1. ASSUME (\E b \in Batches : BackoffEnds(b)) \/ PauseEnds \/ WeekPasses
      PROVE  UNCHANGED <<queued, before, sequence>>
  BY <1>1 DEF BackoffEnds, PauseEnds, WeekPasses, spool, history
<1> QED BY <1>1, DrainHistory DEF NextOutbox, DrainSteps

LEMMA HeldKept ==
  ASSUME Types, Answered, Taken, Expanding, Held, NextOutbox
  PROVE  Held'
<1>1. \A g \in queued : g \in Groups /\ Kept(g)'
  BY KeptStays DEF Held, Types
<1>2. ASSUME NEW g \in Groups, SessionEnd(g) PROVE Kept(g)'
  <2>1. CASE NeedsStage(g)
    <3>1. OrderFor(g) # 0
      BY DEF Types, OrderFor
    <3> QED BY <1>2, <2>1, <3>1 DEF SessionEnd, Types, Kept
  <2>2. CASE ~NeedsStage(g)
    <3>1. staged[g] # 0 \/ \A b \in BatchesOf(g) : ~Absent(b)
      BY <2>2 DEF NeedsStage
    <3>2. Kept(g)
      BY <3>1, FilesLand DEF BatchesOf, Kept
    <3> QED BY <3>2, KeptStays
  <2> QED BY <2>1, <2>2
<1>3. queued' \subseteq queued \union {g \in Groups : SessionEnd(g)}
  <2>1. ASSUME NEW g \in Groups, SessionEnd(g) \/ SessionEndKilled(g)
        PROVE  queued' \subseteq queued \union {h \in Groups : SessionEnd(h)}
    BY <2>1 DEF SessionEnd, SessionEndKilled
  <2> QED BY <2>1, HistoryStands
<1> QED BY <1>1, <1>2, <1>3 DEF Held

LEMMA TypesKept ==
  ASSUME Types, Expanding, NextOutbox
  PROVE  Types'
<1>1. ASSUME NEW d \in Drains, drain[d].pc = "fill" PROVE drain[d].todo # {}
  BY <1>1 DEF Expanding
<1>2. ASSUME NEW g \in Groups, SessionEnd(g) \/ SessionEndKilled(g) PROVE Types'
  BY <1>2, SessionEndTyped
<1>3. ASSUME NEW d \in Drains, Recover(d) \/ Materialize(d) PROVE Types'
  BY <1>1, <1>3, RecoverTyped, ListTyped, PlanTyped, FillTyped, RetireTyped
     DEF Materialize, Fill, Retire
<1>4. ASSUME NEW d \in Drains, Snapshot(d) \/ Skip(d) \/ Claim(d) \/ Send(d) PROVE Types'
  BY <1>4, SnapshotTyped, SkipTyped, ClaimTyped, SendIs, SentTyped
<1>5. ASSUME NEW d \in Drains, Settle(d) PROVE Types'
  <2>1. CASE ~SettleAccepted(d)
    <3>1. {"pending", "failed"} \subseteq Places
      BY DEF Places
    <3> QED BY <1>5, <2>1, <3>1, SettleIs, MovesBackTyped
  <2> QED BY <2>1, SettleAcceptedTyped
<1>6. ASSUME NEW d \in Drains, MaterializeKilled(d) PROVE Types'
  BY <1>6, MaterializeKilledTyped
<1> QED BY <1>2, <1>3, <1>4, <1>5, <1>6, OthersTyped DEF NextOutbox, Advance, Dies

LEMMA KeepInvKept == OutboxSpec => []KeepInv
<1>1. InitOutbox => KeepInv
  <2> SUFFICES ASSUME InitOutbox PROVE KeepInv
    OBVIOUS
  <2>1. \A d \in Drains : drain[d].pc = "off"
    BY DEF InitOutbox, Idle
  <2>2. Answered /\ Expanding
    BY <2>1 DEF Answered, Expanding
  <2>3. Taken /\ Held
    BY DEF InitOutbox, Taken, Held
  <2> QED BY <2>2, <2>3, TypesInit DEF KeepInv
<1>2. KeepInv /\ [NextOutbox]_vars => KeepInv'
  <2> SUFFICES ASSUME KeepInv, [NextOutbox]_vars PROVE KeepInv'
    OBVIOUS
  <2>1. CASE NextOutbox
    <3>1. Taken'
      BY <2>1, StepSafely DEF KeepInv, Safely
    <3> QED BY <2>1, <3>1, TypesKept, AnsweredKept, ExpandingKept, HeldKept DEF KeepInv
  <2>2. CASE UNCHANGED vars
    <3>1. UNCHANGED <<sequence, staged, manifest, tmp, place, stamp, resting, paused, lock,
                      drain, server, queued, before, ends>>
      BY <2>2 DEF vars, spool, batchFiles, history, bounds
    <3>2. Types'
      BY <3>1 DEF KeepInv, Types
    <3>3. Answered'
      BY <3>1 DEF KeepInv, Answered, Item
    <3>4. Taken'
      BY <3>1 DEF KeepInv, Taken
    <3>5. Expanding'
      BY <3>1 DEF KeepInv, Expanding, Landed, Group, FirstListed
    <3>6. Held'
      BY <3>1 DEF KeepInv, Held, Kept, Landed
    <3> QED BY <3>2, <3>3, <3>4, <3>5, <3>6 DEF KeepInv
  <2> QED BY <2>1, <2>2
<1> QED BY <1>1, <1>2, PTL DEF OutboxSpec

\* Every batch of a session that was reported as queued is on the disk in some
\* form, or the service has it: with any number of kills, of locks taken from
\* living drains, of expired files, of refusals and lost answers.
THEOREM NothingIsLost == OutboxSpec => []NothingLost
<1>1. KeepInv => NothingLost
  BY DEF KeepInv, Held, Kept, NothingLost, OnDisk, Spooled, Landed, BatchesOf
<1> QED BY <1>1, KeepInvKept, PTL

----------------------------------------------------------------------------
(* One drain at a time, and one directory for each batch *)

\* The bounds count from zero.
Counts == takeovers \in Nat /\ agings \in Nat

\* As long as no lock was taken from a living drain, one drain is alive at a time.
Alone == takeovers = 0 => \A d \in Drains : drain[d].pc # "off" => lock = d

\* As long as no week has passed, no tombstone and no manifest is old.
Fresh == agings = 0 => old = {}

Lifecycles == {{}, {"pending"}, {"inflight"}, {"failed"}, {"accepted"},
               {"accepted", "inflight"}, {"done"}}

\* A batch is then in one directory, but for an acceptance that was cut short, and
\* the batch of a request is in inflight.
OneDirectory ==
    takeovers = 0 =>
        /\ \A b \in Batches : place[b] \in Lifecycles
        /\ \A d \in Drains : drain[d].pc \in {"send", "settle"} => place[Item(d)] = {"inflight"}

TidyInv == KeepInv /\ Counts /\ Alone /\ Fresh /\ OneDirectory

LEMMA LockStep ==
  ASSUME Types, NEW d \in Drains, DrainSteps(d), ~Recover(d)
  PROVE  /\ drain[d].pc # "off"
         /\ Quits(d) \/ UNCHANGED lock
         /\ UNCHANGED <<takeovers, agings>>
<1>1. CASE Materialize(d)
  BY <1>1 DEF Materialize, List, Plan, Fill, Retire, Materializing, bounds
<1>2. CASE Snapshot(d) \/ Skip(d) \/ Claim(d) \/ Finish(d)
  BY <1>2 DEF Snapshot, Skip, Claim, Finish, Delivering, bounds
<1>3. CASE Send(d)
  BY <1>3, SendIs DEF Sent, Delivering
<1>4. CASE Settle(d)
  <2>1. CASE SettleAccepted(d)
    BY <2>1 DEF SettleAccepted, Settles, Delivering, bounds
  <2>2. CASE ~SettleAccepted(d)
    <3>1. PICK dir \in {"pending", "failed"}, due \in BOOLEAN, last \in BOOLEAN : MovesBack(d, dir, due, last)
      BY <1>4, <2>2, SettleIs
    <3> QED BY <1>4, <2>2, <3>1, SettleIs DEF Settles, Delivering, MovesBack, bounds
  <2> QED BY <2>1, <2>2
<1>5. CASE Stall(d) \/ Dies(d)
  BY <1>5 DEF Stall, Dies, Killed, KilledAccepting, MaterializeKilled, Materializing, Settles, Delivering
<1> QED BY <1>1, <1>2, <1>3, <1>4, <1>5 DEF DrainSteps, Advance

LEMMA OutsideStep ==
  ASSUME Types, Counts, NextOutbox, ~ \E d \in Drains : DrainSteps(d)
  PROVE  /\ UNCHANGED <<drain, lock, place, takeovers>>
         /\ UNCHANGED <<agings, old>> \/ (agings' \in Nat /\ agings' # 0)
<1>1. ASSUME NEW g \in Groups, SessionEnd(g) \/ SessionEndKilled(g)
      PROVE  UNCHANGED <<drain, lock, place, takeovers, agings, old>>
  BY <1>1 DEF SessionEnd, SessionEndKilled, batchFiles
<1>2. ASSUME (\E b \in Batches : BackoffEnds(b)) \/ PauseEnds
      PROVE  UNCHANGED <<drain, lock, place, takeovers, agings, old>>
  BY <1>2 DEF BackoffEnds, PauseEnds, batchFiles, bounds
<1>3. CASE WeekPasses
  BY <1>3 DEF WeekPasses, Counts
<1> QED BY <1>1, <1>2, <1>3 DEF NextOutbox, DrainSteps

LEMMA AloneKept ==
  ASSUME Types, Counts, Alone, NextOutbox
  PROVE  Counts' /\ Alone'
<1>1. drain \in [Drains -> Locals]
  BY DEF Types
<1>2. ASSUME NEW d \in Drains, Recover(d) PROVE Counts' /\ Alone'
  <2>1. TakesLock(d)
    BY <1>2 DEF Recover
  <2>2. Counts'
    BY <1>2, <2>1 DEF Recover, TakesLock, Counts
  <2>3. ASSUME takeovers' = 0, NEW c \in Drains, drain'[c].pc # "off" PROVE lock' = c
    <3>1. takeovers = 0 /\ lock = NoDrain
      BY <2>1, <2>3 DEF TakesLock, Counts
    <3>2. drain[c].pc = "off" /\ drain[d].pc = "off"
      BY <3>1, OutboxConstants DEF Alone
    <3> QED BY <1>1, <1>2, <2>3, <3>2, OthersStand DEF Recover, DrainSteps
  <2> QED BY <2>2, <2>3 DEF Alone
<1>3. ASSUME NEW d \in Drains, DrainSteps(d), ~Recover(d) PROVE Counts' /\ Alone'
  <2>1. drain[d].pc # "off" /\ (Quits(d) \/ UNCHANGED lock) /\ UNCHANGED <<takeovers, agings>>
    BY <1>3, LockStep
  <2>2. \A c \in Drains \ {d} : drain'[c] = drain[c]
    BY <1>3, OthersStand
  <2>3. ASSUME takeovers' = 0, NEW c \in Drains, drain'[c].pc # "off" PROVE lock' = c
    <3>1. lock = d
      BY <2>1, <2>3 DEF Alone
    <3>2. c = d
      BY <2>1, <2>2, <2>3, <3>1 DEF Alone
    <3>3. ~Quits(d)
      BY <1>1, <2>3, <3>2 DEF Quits, Idle
    <3> QED BY <2>1, <3>1, <3>2, <3>3
  <2> QED BY <2>1, <2>3 DEF Counts, Alone
<1>4. CASE ~ \E d \in Drains : DrainSteps(d)
  BY <1>4, OutsideStep DEF Counts, Alone
<1> QED BY <1>2, <1>3, <1>4

LEMMA FreshKept ==
  ASSUME Types, Counts, Fresh, NextOutbox
  PROVE  Fresh'
<1>1. ASSUME NEW d \in Drains, DrainSteps(d) PROVE old' \subseteq old /\ agings' = agings
  <2>1. CASE Recover(d)
    BY <2>1 DEF Recover
  <2>2. CASE Materialize(d) \/ Snapshot(d) \/ Skip(d) \/ Claim(d) \/ Finish(d)
    BY <2>2 DEF Materialize, List, Plan, Fill, Retire, Snapshot, Skip, Claim, Finish, batchFiles, bounds
  <2>3. CASE Send(d)
    BY <2>3, SendIs DEF Sent, batchFiles
  <2>4. CASE Settle(d)
    <3>1. CASE SettleAccepted(d)
      BY <3>1 DEF SettleAccepted, bounds
    <3>2. CASE ~SettleAccepted(d)
      BY <2>4, <3>2, SettleIs DEF MovesBack, bounds
    <3> QED BY <3>1, <3>2
  <2>5. CASE Stall(d) \/ Dies(d)
    BY <2>5 DEF Stall, Dies, Killed, KilledAccepting, MaterializeKilled, batchFiles
  <2> QED BY <1>1, <2>1, <2>2, <2>3, <2>4, <2>5 DEF DrainSteps, Advance
<1> QED BY <1>1, OutsideStep DEF Fresh

\* The steps that leave every batch where it is.
LEMMA PlaceStands ==
  ASSUME Types, NEW d \in Drains, DrainSteps(d), ~Recover(d), ~Fill(d), ~Claim(d), ~Settle(d),
         ~KilledAccepting(d)
  PROVE  UNCHANGED place
<1>1. CASE Materialize(d) \/ Snapshot(d) \/ Skip(d) \/ Finish(d)
  BY <1>1 DEF Materialize, List, Plan, Retire, Snapshot, Skip, Finish, batchFiles
<1>2. CASE Send(d)
  BY <1>2, SendIs DEF Sent, batchFiles
<1>3. CASE Stall(d) \/ Dies(d)
  BY <1>3 DEF Stall, Dies, Killed, MaterializeKilled, batchFiles
<1> QED BY <1>1, <1>2, <1>3 DEF DrainSteps, Advance

LEMMA OneDirectoryKept ==
  ASSUME Types, Answered, Counts, Alone, OneDirectory, NextOutbox
  PROVE  OneDirectory'
<1>1. drain \in [Drains -> Locals] /\ place \in [Batches -> SUBSET Places]
  BY DEF Types
<1>2. CASE ~ \E d \in Drains : DrainSteps(d)
  BY <1>2, OutsideStep DEF OneDirectory, Item
<1>3. ASSUME NEW d \in Drains, DrainSteps(d), takeovers' = 0
      PROVE  /\ \A b \in Batches : place'[b] \in Lifecycles
             /\ \A c \in Drains : drain'[c].pc \in {"send", "settle"} => place'[Item(c)'] = {"inflight"}
  <2>1. takeovers = 0 /\ (drain[d].pc # "off" \/ lock = NoDrain)
    <3>1. CASE Recover(d)
      BY <1>3, <3>1 DEF Recover, TakesLock, Counts
    <3>2. CASE ~Recover(d)
      BY <1>3, <3>2, LockStep
    <3> QED BY <3>1, <3>2
  <2>2. \A b \in Batches : place[b] \in Lifecycles
    BY <2>1 DEF OneDirectory
  <2>3. drain[d].pc \in {"send", "settle"} => place[Item(d)] = {"inflight"} /\ Item(d) \in Batches
    BY <2>1, ItemIn DEF OneDirectory, Answered
  <2>4. \A c \in Drains \ {d} : drain'[c].pc = "off"
    BY <1>3, <2>1, OthersStand, OutboxConstants DEF Alone
  <2>5. ASSUME ~Claim(d), ~Send(d), drain'[d].pc \in {"send", "settle"}
        PROVE  drain'[d] = drain[d]
    BY <1>3, <2>5, Unasked DEF DrainSteps, Advance
  <2>6. CASE Recover(d)
    <3>1. ASSUME NEW b \in Batches PROVE place'[b] \in Lifecycles
      <4>1. PICK r, f, q :
            /\ r = IF Restorable(b) THEN {"pending"} ELSE place[b]
            /\ f = IF "accepted" \in r THEN (r \ {"accepted", "inflight"}) \union {"done"} ELSE r
            /\ q = IF "inflight" \in f THEN (f \ {"inflight"}) \union {"pending"} ELSE f
            /\ place'[b] = q \/ (place'[b] = q \ {"done"} /\ DoneFile(b) \in old)
        BY <2>6, RecoverPlaces
      <4>2. r \in Lifecycles
        BY <2>2, <4>1 DEF Lifecycles
      <4>3. f \in {{}, {"pending"}, {"inflight"}, {"failed"}, {"done"}}
        BY <4>1, <4>2 DEF Lifecycles
      <4>4. q \in {{}, {"pending"}, {"failed"}, {"done"}}
        BY <4>1, <4>3
      <4> QED BY <4>1, <4>4 DEF Lifecycles
    <3>2. drain'[d].pc \notin {"send", "settle"}
      <4>1. drain[d].pc = "off" /\ (drain' = drain \/ drain' = [drain EXCEPT ![d].pc = "list"])
        BY <2>6 DEF Recover, TakesLock
      <4> QED BY <1>1, <4>1 DEF Locals
    <3> QED BY <2>4, <3>1, <3>2
  <2>7. CASE Fill(d)
    <3>1. FirstMissing(d) \in Batches
      BY <2>7, FirstMissingIn DEF Fill
    <3>2. \/ UNCHANGED place
          \/ place[FirstMissing(d)] = {} /\ place' = [place EXCEPT ![FirstMissing(d)] = @ \union {"pending"}]
      BY <2>7 DEF Fill, Absent
    <3>3. \A b \in Batches : place'[b] = place[b] \/ (place[b] = {} /\ place'[b] = {"pending"})
      BY <1>1, <3>1, <3>2
    <3>4. drain[d].pc = "fill" /\ ~Claim(d) /\ ~Send(d)
      BY <2>7, SendIs DEF Fill, Claim, Sent, Delivering
    <3> QED BY <2>2, <2>4, <2>5, <3>3, <3>4 DEF Lifecycles
  <2>8. CASE Claim(d)
    <3>1. PICK b : b = Item(d)
      OBVIOUS
    <3>2. b \in Batches
      BY <2>8, <3>1, ItemIn DEF Claim, Delivering
    <3>3. CASE UNCHANGED place /\ NextItem(d)
      <4>1. drain'[d].pc = "deliver"
        BY <1>1, <3>3 DEF NextItem, Locals
      <4> QED BY <2>2, <2>4, <3>3, <4>1
    <3>4. CASE /\ "pending" \in place[b]
               /\ place' = [place EXCEPT ![b] = (@ \ {"pending"}) \union {"inflight"}]
               /\ drain' = [drain EXCEPT ![d].pc = "send"]
      <4>1. place[b] = {"pending"}
        BY <2>2, <3>2, <3>4 DEF Lifecycles
      <4>2. place'[b] = {"inflight"} /\ \A c \in Batches \ {b} : place'[c] = place[c]
        BY <1>1, <3>2, <3>4, <4>1
      <4>3. drain'[d].pend = drain[d].pend /\ drain'[d].view = drain[d].view
        BY <1>1, <3>4 DEF Locals
      <4>4. Item(d)' = b
        BY <3>1, <4>3 DEF Item
      <4> QED BY <2>2, <2>4, <4>2, <4>4 DEF Lifecycles
    <3> QED BY <2>8, <3>1, <3>3, <3>4 DEF Claim
  <2>9. CASE Send(d)
    <3>1. PICK answer \in Answers, taken \in BOOLEAN : Sent(d, answer, taken)
      BY <2>9, SendIs
    <3>2. UNCHANGED place /\ drain[d].pc = "send"
      BY <3>1 DEF Sent, Delivering, batchFiles
    <3>3. drain'[d].pend = drain[d].pend /\ drain'[d].view = drain[d].view
      BY <1>1, <3>1 DEF Sent, Locals
    <3>4. Item(d)' = Item(d)
      BY <3>3 DEF Item
    <3> QED BY <2>2, <2>3, <2>4, <3>2, <3>4
  <2>10. CASE Settle(d) \/ KilledAccepting(d)
    <3>1. drain[d].pc = "settle"
      <4>1. CASE ~SettleAccepted(d) /\ ~KilledAccepting(d)
        BY <2>10, <4>1, SettleIs DEF Settles, Delivering
      <4> QED BY <4>1 DEF SettleAccepted, KilledAccepting, Settles, Delivering
    <3>2. PICK b \in Batches : b = Item(d) /\ place[b] = {"inflight"}
      BY <2>3, <3>1
    <3>3. \/ UNCHANGED place
          \/ \E files \in Lifecycles : place' = [place EXCEPT ![b] = files]
      <4>1. CASE SettleAccepted(d)
        BY <3>2, <4>1 DEF SettleAccepted, Lifecycles
      <4>2. CASE KilledAccepting(d)
        BY <3>2, <4>2 DEF KilledAccepting, Lifecycles
      <4>3. CASE Settle(d) /\ ~SettleAccepted(d)
        <5>1. PICK dir \in {"pending", "failed"}, due \in BOOLEAN, last \in BOOLEAN : MovesBack(d, dir, due, last)
          BY <4>3, SettleIs
        <5> QED BY <3>2, <5>1 DEF MovesBack, Lifecycles
      <4> QED BY <2>10, <4>1, <4>2, <4>3
    <3>4. drain'[d].pc \notin {"send", "settle"}
      <4>1. ASSUME Quits(d) PROVE drain'[d].pc = "off"
        BY <1>1, <4>1 DEF Quits, Idle
      <4>2. Quits(d) \/ \E state : NextItemKnowing(d, state)
        <5>1. CASE Settle(d) /\ ~SettleAccepted(d)
          BY <5>1, SettleIs DEF MovesBack
        <5> QED BY <2>10, <5>1 DEF SettleAccepted, KilledAccepting
      <4>3. ASSUME NEW state, NextItemKnowing(d, state) PROVE drain'[d].pc = "deliver"
        BY <4>3, NextItemKnowingSets
      <4> QED BY <4>1, <4>2, <4>3
    <3> QED BY <1>1, <2>2, <2>4, <3>3, <3>4
  <2>11. CASE ~Recover(d) /\ ~Fill(d) /\ ~Claim(d) /\ ~Settle(d) /\ ~KilledAccepting(d) /\ ~Send(d)
    <3>1. UNCHANGED place
      BY <1>3, <2>11, PlaceStands
    <3>2. drain'[d].pc \in {"send", "settle"} => Item(d)' = Item(d) /\ drain[d].pc = drain'[d].pc
      BY <2>5, <2>11, LocalsOf
    <3> QED BY <2>2, <2>3, <2>4, <3>1, <3>2
  <2> QED BY <2>6, <2>7, <2>8, <2>9, <2>10, <2>11
<1> QED BY <1>2, <1>3 DEF OneDirectory

LEMMA TidyInvKept == OutboxSpec => []TidyInv
<1>1. InitOutbox => Counts /\ Alone /\ Fresh /\ OneDirectory
  <2> SUFFICES ASSUME InitOutbox PROVE Counts /\ Alone /\ Fresh /\ OneDirectory
    OBVIOUS
  <2>1. \A d \in Drains : drain[d].pc = "off"
    BY DEF InitOutbox, Idle
  <2> QED BY <2>1 DEF InitOutbox, Counts, Alone, Fresh, OneDirectory, Lifecycles
<1>2. KeepInv /\ Counts /\ Alone /\ Fresh /\ OneDirectory /\ [NextOutbox]_vars
        => Counts' /\ Alone' /\ Fresh' /\ OneDirectory'
  <2> SUFFICES ASSUME KeepInv, Counts, Alone, Fresh, OneDirectory, [NextOutbox]_vars
               PROVE  Counts' /\ Alone' /\ Fresh' /\ OneDirectory'
    OBVIOUS
  <2>1. CASE NextOutbox
    BY <2>1, AloneKept, FreshKept, OneDirectoryKept DEF KeepInv
  <2>2. CASE UNCHANGED vars
    <3>1. UNCHANGED <<place, lock, drain, old, takeovers, agings>>
      BY <2>2 DEF vars, batchFiles, bounds
    <3> QED BY <3>1 DEF Counts, Alone, Fresh, OneDirectory, Item
  <2> QED BY <2>1, <2>2
<1> QED BY <1>1, <1>2, KeepInvKept, PTL DEF OutboxSpec, TidyInv

\* As long as no lock was taken from a living drain and nothing has expired, the
\* evidence of an acceptance is kept, and a batch that has it is not sent again.
THEOREM AcceptedOnce == OutboxSpec => NoResend
<1> DEFINE Stays == \A b \in Batches :
                      Undisturbed' /\ Accepted(place, b) =>
                        /\ Accepted(place', b)
                        /\ "inflight" \in place'[b] => "inflight" \in place[b]
<1>1. TidyInv /\ [NextOutbox]_vars => [Stays]_vars
  <2> SUFFICES ASSUME TidyInv, NextOutbox, NEW b \in Batches, Undisturbed', Accepted(place, b)
               PROVE  /\ Accepted(place', b)
                      /\ "inflight" \in place'[b] => "inflight" \in place[b]
    OBVIOUS
  <2>1. Types /\ Answered /\ Counts /\ Alone /\ Fresh /\ OneDirectory
    BY DEF TidyInv, KeepInv
  <2>2. takeovers' = 0 /\ agings' = 0
    BY DEF Undisturbed
  <2>3. CASE ~ \E d \in Drains : DrainSteps(d)
    BY <2>1, <2>3, OutsideStep
  <2>4. ASSUME NEW d \in Drains, DrainSteps(d)
        PROVE  /\ Accepted(place', b)
               /\ "inflight" \in place'[b] => "inflight" \in place[b]
    <3>1. takeovers = 0 /\ agings = 0
      <4>1. CASE Recover(d)
        BY <2>1, <2>2, <4>1 DEF Recover, TakesLock, Counts
      <4>2. CASE ~Recover(d)
        BY <2>1, <2>2, <2>4, <4>2, LockStep
      <4> QED BY <4>1, <4>2
    <3>2. place[b] \in {{"accepted"}, {"accepted", "inflight"}, {"done"}} /\ old = {}
      BY <2>1, <3>1 DEF OneDirectory, Lifecycles, Accepted, Fresh
    <3>3. \A c \in Drains : drain[c].pc \in {"send", "settle"} => Item(c) # b
      BY <2>1, <3>1, <3>2 DEF OneDirectory
    <3>4. place \in [Batches -> SUBSET Places]
      BY <2>1 DEF Types
    <3>5. CASE Recover(d)
      <4>1. PICK r, f, q :
            /\ r = IF Restorable(b) THEN {"pending"} ELSE place[b]
            /\ f = IF "accepted" \in r THEN (r \ {"accepted", "inflight"}) \union {"done"} ELSE r
            /\ q = IF "inflight" \in f THEN (f \ {"inflight"}) \union {"pending"} ELSE f
            /\ place'[b] = q \/ (place'[b] = q \ {"done"} /\ DoneFile(b) \in old)
        BY <2>1, <3>5, RecoverPlaces
      <4>2. r = place[b]
        BY <3>2, <4>1 DEF Restorable, Absent
      <4>3. f = {"done"}
        BY <3>2, <4>1, <4>2
      <4>4. place'[b] = {"done"}
        BY <3>2, <4>1, <4>3
      <4> QED BY <4>4 DEF Accepted
    <3>6. CASE Fill(d)
      <4>1. \/ UNCHANGED place
            \/ place[FirstMissing(d)] = {} /\ place' = [place EXCEPT ![FirstMissing(d)] = @ \union {"pending"}]
        BY <3>6 DEF Fill, Absent
      <4>2. place'[b] = place[b]
        BY <3>2, <3>4, <4>1
      <4> QED BY <4>2 DEF Accepted
    <3>7. CASE Claim(d)
      <4>1. \/ UNCHANGED place
            \/ /\ "pending" \in place[Item(d)]
               /\ place' = [place EXCEPT ![Item(d)] = (@ \ {"pending"}) \union {"inflight"}]
        BY <3>7 DEF Claim
      <4>2. place'[b] = place[b]
        BY <3>2, <3>4, <4>1
      <4> QED BY <4>2 DEF Accepted
    <3>8. CASE Settle(d) \/ KilledAccepting(d)
      <4>1. drain[d].pc = "settle" /\ (UNCHANGED place \/ \E files : place' = [place EXCEPT ![Item(d)] = files])
        <5>1. CASE Settle(d) /\ ~SettleAccepted(d)
          BY <2>1, <5>1, SettleIs DEF Settles, Delivering, MovesBack
        <5> QED BY <3>8, <5>1 DEF SettleAccepted, KilledAccepting, Settles, Delivering
      <4>2. place'[b] = place[b]
        BY <3>3, <3>4, <4>1
      <4> QED BY <4>2 DEF Accepted
    <3>9. CASE ~Recover(d) /\ ~Fill(d) /\ ~Claim(d) /\ ~Settle(d) /\ ~KilledAccepting(d)
      BY <2>1, <2>4, <3>9, PlaceStands DEF Accepted
    <3> QED BY <3>5, <3>6, <3>7, <3>8, <3>9
  <2> QED BY <2>3, <2>4 DEF Accepted
<1> QED BY <1>1, TidyInvKept, PTL DEF OutboxSpec, NoResend

----------------------------------------------------------------------------
(* Staged files agree with their plans *)

\* SessionEnd is not run again for a session that left a complete spool file
\* behind: a repetition that overtakes the recovery of that file claims an order
\* of its own, and the two disagree.
EndsOnce == \A g \in Spoolable : Ends[g] <= 1

AllOff == \A d \in Drains : drain[d].pc = "off"

\* What a drain has listed is still staged as it was listed, and a group that is
\* being expanded has its plan.
Listed ==
    \A d \in Drains :
        /\ drain[d].pc = "off" => drain[d].todo = {}
        /\ \A t \in drain[d].todo : t[2] # 0 /\ staged[t[1]] = t[2]
        /\ drain[d].pc = "fill" => manifest[Group(d)] # 0

\* Every file of a batch carries the order of the plan.
Stamped == \A b \in Batches : ~Absent(b) => manifest[b[1]] # 0 /\ stamp[b] = manifest[b[1]]

\* So does the staged file.
Agreed == \A g \in Groups : staged[g] # 0 /\ manifest[g] # 0 => staged[g] = manifest[g]

\* What a killed process left in tmp/ fits in where it will be put back.
Fits(t) ==
    /\ t.kind = "staged" => /\ staged[t.of] = 0 /\ manifest[t.of] = 0
                            /\ ends[t.of] # 0 /\ Ends[t.of] <= ends[t.of]
    /\ t.kind = "manifest" => /\ AllOff /\ manifest[t.of] = 0
                              /\ staged[t.of] # 0 /\ staged[t.of] = t.order
    /\ t.kind = "envelope" => /\ AllOff /\ Absent(t.of)
                              /\ manifest[t.of[1]] # 0 /\ manifest[t.of[1]] = t.order

\* Before its first SessionEnd a session has no files.
Unended == \A g \in Groups : ends[g] = 0 => staged[g] = 0 /\ manifest[g] = 0

Plans == Listed /\ Stamped /\ Agreed /\ (\A t \in tmp : Fits(t)) /\ Unended

PlansInv == TidyInv /\ (Undisturbed => Plans)

LEMMA SessionEndPlans ==
  ASSUME Types, EndsOnce, Plans, NEW g \in Groups, SessionEnd(g) \/ SessionEndKilled(g)
  PROVE  Plans'
<1>1. /\ UNCHANGED <<manifest, place, stamp, drain>>
      /\ ends[g] < Ends[g] /\ ends' = [ends EXCEPT ![g] = @ + 1]
  BY DEF SessionEnd, SessionEndKilled, RunsSessionEnd, batchFiles
<1>2. \/ UNCHANGED staged
      \/ staged[g] = 0 /\ staged' = [staged EXCEPT ![g] = OrderFor(g)]
  BY DEF SessionEnd, SessionEndKilled, NeedsStage
<1>3. /\ OrderFor(g) # 0
      /\ manifest[g] # 0 => OrderFor(g) = manifest[g]
  BY DEF Types, OrderFor
<1>4. /\ staged \in [Groups -> Nat] /\ manifest \in [Groups -> Nat] /\ ends \in [Groups -> Nat]
      /\ Ends \in [Groups -> Nat] /\ tmp \subseteq SpoolFiles
  BY OutboxConstants DEF Types
<1>5. \A h \in Groups : staged[h] # 0 => staged'[h] = staged[h]
  BY <1>2, <1>4
<1>6. Listed'
  <2>1. ASSUME NEW d \in Drains, NEW t \in drain[d].todo PROVE staged'[t[1]] = staged[t[1]]
    <3>1. t[1] \in Groups /\ staged[t[1]] # 0
      BY DEF Types, Locals, Plans, Listed
    <3> QED BY <1>5, <3>1
  <2> QED BY <1>1, <2>1, LocalsOf DEF Plans, Listed
<1>7. Stamped' /\ Agreed'
  BY <1>1, <1>2, <1>3, <1>4 DEF Plans, Stamped, Agreed, Absent
<1>8. Unended'
  BY <1>1, <1>2, <1>4 DEF Plans, Unended
<1>9. ASSUME NEW t \in tmp' PROVE Fits(t)'
  <2>1. AllOff' <=> AllOff
    BY <1>1 DEF AllOff
  <2>2. CASE t \in tmp
    <3>1. t \in SpoolFiles /\ Fits(t)
      BY <1>4, <2>2 DEF Plans
    <3>2. CASE t.kind = "staged"
      <4>1. t.of \in Groups
        BY <3>1, <3>2 DEF SpoolFiles
      <4>2. t.of # g
        BY <1>1, <1>4, <3>1, <3>2 DEF Fits
      <4> QED BY <1>1, <1>2, <1>4, <3>1, <3>2, <4>1, <4>2 DEF Fits
    <3>3. CASE t.kind = "manifest"
      <4>1. t.of \in Groups
        BY <3>1, <3>3 DEF SpoolFiles
      <4> QED BY <1>1, <1>5, <2>1, <3>1, <3>3, <4>1 DEF Fits
    <3>4. CASE t.kind = "envelope"
      BY <1>1, <2>1, <3>1, <3>4 DEF Fits, Absent
    <3>5. t.kind \in {"staged", "manifest", "envelope"}
      BY <3>1 DEF SpoolFiles
    <3> QED BY <3>2, <3>3, <3>4, <3>5
  <2>3. CASE t \notin tmp
    <3>1. /\ SessionEndKilled(g) /\ g \in Spoolable /\ UNCHANGED staged /\ staged[g] = 0
          /\ t = [kind |-> "staged", of |-> g, order |-> OrderFor(g)]
      BY <1>9, <2>3 DEF SessionEnd, SessionEndKilled, NeedsStage
    <3>2. Ends[g] <= 1 /\ ends[g] = 0
      BY <1>1, <1>4, <3>1 DEF EndsOnce
    <3>3. manifest[g] = 0 /\ Ends[g] <= ends'[g] /\ ends'[g] # 0
      BY <1>1, <1>4, <3>2 DEF Plans, Unended
    <3> QED BY <1>1, <3>1, <3>3 DEF Fits
  <2> QED BY <2>2, <2>3
<1> QED BY <1>6, <1>7, <1>8, <1>9 DEF Plans

LEMMA RecoverPlans ==
  ASSUME Types, Plans, Fresh, agings = 0, NEW d \in Drains, Recover(d), AllOff
  PROVE  Plans'
<1>1. /\ staged \in [Groups -> Nat] /\ manifest \in [Groups -> Nat] /\ ends' = ends
      /\ tmp \subseteq SpoolFiles /\ tmp' = {} /\ old = {}
      /\ place \in [Batches -> SUBSET Places] /\ drain \in [Drains -> Locals]
  BY DEF Types, Recover, Fresh
<1>2. \A k, x : Leftover(k, x) # {} =>
        /\ (CHOOSE t \in Leftover(k, x) : TRUE) \in tmp
        /\ (CHOOSE t \in Leftover(k, x) : TRUE).kind = k
        /\ (CHOOSE t \in Leftover(k, x) : TRUE).of = x
  BY DEF Leftover
<1>3. ASSUME NEW g \in Groups
      PROVE  /\ staged[g] # 0 => staged'[g] = staged[g]
             /\ manifest[g] # 0 => manifest'[g] = manifest[g]
             /\ staged[g] = 0 /\ staged'[g] # 0 => Leftover("staged", g) # {}
             /\ manifest[g] = 0 /\ manifest'[g] # 0 =>
                  Leftover("manifest", g) # {} /\ manifest'[g] = staged[g]
             /\ manifest[g] = 0 /\ Leftover("manifest", g) # {} => manifest'[g] = staged[g]
  <2>1. staged'[g] = RestoredFile(staged, "staged")[g]
    BY DEF Recover
  <2>2. manifest'[g] = RestoredFile(manifest, "manifest")[g]
    BY <1>1 DEF Recover, Expired
  <2>3. staged'[g] = IF staged[g] = 0 /\ Leftover("staged", g) # {}
                     THEN (CHOOSE t \in Leftover("staged", g) : TRUE).order ELSE staged[g]
    BY <2>1 DEF RestoredFile
  <2>4. manifest'[g] = IF manifest[g] = 0 /\ Leftover("manifest", g) # {}
                       THEN (CHOOSE t \in Leftover("manifest", g) : TRUE).order ELSE manifest[g]
    BY <2>2 DEF RestoredFile
  <2>5. Leftover("manifest", g) # {} => (CHOOSE t \in Leftover("manifest", g) : TRUE).order = staged[g]
    BY <1>2 DEF Plans, Fits
  <2> QED BY <2>3, <2>4, <2>5
<1>4. \A g \in Groups : Leftover("staged", g) # {} =>
         /\ staged[g] = 0 /\ manifest[g] = 0 /\ Leftover("manifest", g) = {}
         /\ ends[g] # 0
  BY <1>2 DEF Plans, Fits
<1>5. Agreed'
  BY <1>3, <1>4 DEF Plans, Agreed
<1>6. Unended'
  <2>1. ASSUME NEW g \in Groups, ends[g] = 0 PROVE staged'[g] = 0 /\ manifest'[g] = 0
    <3>1. staged[g] = 0 /\ manifest[g] = 0
      BY <2>1 DEF Plans, Unended
    <3>2. Leftover("manifest", g) = {}
      BY <1>2, <3>1 DEF Plans, Fits
    <3> QED BY <1>1, <1>3, <1>4, <2>1, <3>1, <3>2
  <2> QED BY <1>1, <2>1 DEF Unended
<1>7. Stamped'
  <2>1. ASSUME NEW b \in Batches, place'[b] # {}
        PROVE  manifest'[b[1]] # 0 /\ stamp'[b] = manifest'[b[1]]
    <3>1. b[1] \in Groups
      BY BatchOf
    <3>2. stamp'[b] = IF Restorable(b) THEN (CHOOSE t \in Leftover("envelope", b) : TRUE).order ELSE stamp[b]
      BY DEF Recover, RestoredStamp
    <3>3. CASE Restorable(b)
      <4>1. Leftover("envelope", b) # {}
        BY <3>3 DEF Restorable
      <4>2. manifest[b[1]] # 0 /\ manifest[b[1]] = (CHOOSE t \in Leftover("envelope", b) : TRUE).order
        BY <1>2, <4>1 DEF Plans, Fits
      <4> QED BY <1>3, <3>1, <3>2, <3>3, <4>2
    <3>4. CASE ~Restorable(b)
      <4>1. place[b] # {}
        <5>1. PICK r, f, q :
            /\ r = IF Restorable(b) THEN {"pending"} ELSE place[b]
            /\ f = IF "accepted" \in r THEN (r \ {"accepted", "inflight"}) \union {"done"} ELSE r
            /\ q = IF "inflight" \in f THEN (f \ {"inflight"}) \union {"pending"} ELSE f
            /\ place'[b] = q \/ (place'[b] = q \ {"done"} /\ DoneFile(b) \in old)
          BY RecoverPlaces
        <5> QED BY <2>1, <3>4, <5>1
      <4>2. manifest[b[1]] # 0 /\ stamp[b] = manifest[b[1]]
        BY <4>1 DEF Plans, Stamped, Absent
      <4> QED BY <1>3, <3>1, <3>2, <3>4, <4>2
    <3> QED BY <3>3, <3>4
  <2> QED BY <2>1 DEF Stamped, Absent
<1>8. Listed'
  <2>1. \A c \in Drains : drain[c].pc = "off" /\ drain[c].todo = {}
    BY DEF AllOff, Plans, Listed
  <2>2. drain' = drain \/ drain' = [drain EXCEPT ![d].pc = "list"]
    BY DEF Recover
  <2>3. \A c \in Drains : drain'[c].todo = {} /\ drain'[c].pc # "fill"
    BY <1>1, <2>1, <2>2 DEF Locals
  <2> QED BY <2>3 DEF Listed
<1> QED BY <1>1, <1>5, <1>6, <1>7, <1>8 DEF Plans

\* Apart from the listing, a drain only strikes groups off its list.
LEMMA TodoStep ==
  ASSUME Types, NEW d \in Drains, DrainSteps(d), ~Recover(d), ~List(d), drain[d].pc # "off"
  PROVE  \/ drain'[d] = Idle
         \/ drain'[d].pc # "off" /\ drain'[d].todo \subseteq drain[d].todo
<1>1. drain \in [Drains -> Locals] /\ drain[d] \in Locals
  BY DEF Types
<1> DEFINE OK == \/ drain'[d] = Idle
                 \/ drain'[d].pc # "off" /\ drain'[d].todo \subseteq drain[d].todo
<1>2. ASSUME NextGroup(d) \/ BlocksConversation(d) \/ Quits(d) \/ NextItem(d)
               \/ (\E state : NextItemKnowing(d, state))
      PROVE  OK
  <2>1. CASE NextGroup(d) \/ BlocksConversation(d)
    BY <1>1, <2>1 DEF NextGroup, BlocksConversation, Locals
  <2>2. CASE Quits(d)
    BY <1>1, <2>2 DEF Quits
  <2>3. CASE NextItem(d)
    BY <1>1, <2>3 DEF NextItem, Locals
  <2>4. ASSUME NEW state, NextItemKnowing(d, state) PROVE OK
    BY <2>4, NextItemKnowingSets
  <2> QED BY <1>2, <2>1, <2>2, <2>3, <2>4
<1>4. CASE Snapshot(d)
  BY <1>1, <1>4 DEF Snapshot, Locals
<1>5. CASE Plan(d)
  <2>1. \/ NextGroup(d) \/ Quits(d) \/ BlocksConversation(d)
        \/ drain' = [drain EXCEPT ![d].pc = "fill", ![d].missing = MissingOf(Group(d))]
    BY <1>5 DEF Plan
  <2> QED BY <1>1, <1>2, <2>1 DEF Locals
<1>6. CASE Fill(d) \/ Retire(d)
  <2>1. \/ NextGroup(d) \/ Quits(d) \/ BlocksConversation(d)
        \/ drain' = [drain EXCEPT ![d].missing = @ \ {FirstMissing(d)}]
    BY <1>6 DEF Fill, Retire
  <2> QED BY <1>1, <1>2, <2>1 DEF Locals
<1>7. CASE Skip(d) \/ Finish(d) \/ Dies(d) \/ Stall(d)
  BY <1>2, <1>7 DEF Skip, Finish, Dies, Killed, KilledAccepting, MaterializeKilled, Stall
<1>8. CASE Claim(d)
  <2>1. NextItem(d) \/ drain' = [drain EXCEPT ![d].pc = "send"]
    BY <1>8 DEF Claim
  <2> QED BY <1>1, <1>2, <2>1 DEF Locals
<1>9. CASE Send(d)
  <2>1. PICK answer \in Answers, taken \in BOOLEAN : Sent(d, answer, taken)
    BY <1>9, SendIs
  <2>2. drain'[d] = [drain[d] EXCEPT !.pc = "settle", !.answer = answer]
    BY <1>1, <2>1 DEF Sent
  <2> QED BY <1>1, <2>2 DEF Locals
<1>10. CASE Settle(d)
  <2>1. CASE SettleAccepted(d)
    BY <1>2, <2>1 DEF SettleAccepted
  <2>2. CASE ~SettleAccepted(d)
    BY <1>2, <1>10, <2>2, SettleIs DEF MovesBack
  <2> QED BY <2>1, <2>2
<1> QED BY <1>4, <1>5, <1>6, <1>7, <1>8, <1>9, <1>10 DEF DrainSteps, Advance, Materialize

\* The steps of a drain that leave plans, stamps and spool files alone.
LEMMA SpoolStands ==
  ASSUME Types, NEW d \in Drains, DrainSteps(d), ~Recover(d), ~Plan(d), ~Fill(d), ~Retire(d),
         ~MaterializeKilled(d)
  PROVE  UNCHANGED <<staged, manifest, tmp, stamp, ends>>
<1>1. CASE List(d) \/ Snapshot(d) \/ Skip(d) \/ Claim(d) \/ Finish(d)
  BY <1>1 DEF List, Snapshot, Skip, Claim, Finish, spool, batchFiles, bounds
<1>2. CASE Send(d)
  BY <1>2, SendIs DEF Sent, spool, batchFiles
<1>3. CASE Settle(d)
  <2>1. CASE SettleAccepted(d)
    BY <2>1 DEF SettleAccepted, spool, bounds
  <2>2. CASE ~SettleAccepted(d)
    BY <1>3, <2>2, SettleIs DEF MovesBack, spool, bounds
  <2> QED BY <2>1, <2>2
<1>4. CASE Stall(d)
  BY <1>4 DEF Stall, spool, batchFiles
<1>5. CASE Killed(d) \/ KilledAccepting(d)
  BY <1>5 DEF Killed, KilledAccepting, spool, batchFiles
<1> QED BY <1>1, <1>2, <1>3, <1>4, <1>5 DEF DrainSteps, Advance, Materialize, Dies

\* They put no file where there was none either.
LEMMA NoNewFile ==
  ASSUME Types, Answered, OneDirectory, takeovers = 0, NEW d \in Drains,
         DrainSteps(d), ~Recover(d), ~Fill(d), NEW b \in Batches, place'[b] # {}
  PROVE  place[b] # {}
<1>1. place \in [Batches -> SUBSET Places]
  BY DEF Types
<1>2. CASE Claim(d)
  <2>1. \/ UNCHANGED place
        \/ /\ "pending" \in place[Item(d)]
           /\ place' = [place EXCEPT ![Item(d)] = (@ \ {"pending"}) \union {"inflight"}]
    BY <1>2 DEF Claim
  <2> QED BY <1>1, <2>1
<1>3. CASE Settle(d) \/ KilledAccepting(d)
  <2>1. drain[d].pc = "settle" /\ (UNCHANGED place \/ \E files : place' = [place EXCEPT ![Item(d)] = files])
    <3>1. CASE Settle(d) /\ ~SettleAccepted(d)
      BY <3>1, SettleIs DEF Settles, Delivering, MovesBack
    <3> QED BY <1>3, <3>1 DEF SettleAccepted, KilledAccepting, Settles, Delivering
  <2>2. place[Item(d)] = {"inflight"}
    BY <2>1 DEF OneDirectory
  <2> QED BY <1>1, <2>1, <2>2
<1>4. CASE ~Claim(d) /\ ~Settle(d) /\ ~KilledAccepting(d)
  BY <1>4, PlaceStands
<1> QED BY <1>2, <1>3, <1>4

\* What a drain has listed, it has listed once.
LEMMA ListedOnce ==
  ASSUME Types, Plans, NEW d \in Drains, drain[d].todo # {}
  PROVE  /\ FirstListed(d) \in drain[d].todo /\ Group(d) \in Groups
         /\ staged[Group(d)] # 0
         /\ \A t \in drain[d].todo : t[1] = Group(d) => t = FirstListed(d)
<1>1. FirstListed(d) \in drain[d].todo /\ Group(d) \in Groups
  BY FirstListedIn
<1>2. \A t \in drain[d].todo : t \in Groups \X Nat /\ t[2] # 0 /\ staged[t[1]] = t[2]
  BY DEF Types, Locals, Plans, Listed
<1>3. FirstListed(d) \in Groups \X Nat
  BY <1>1, <1>2
<1> QED BY <1>1, <1>2, <1>3 DEF Group

\* While a drain is alive, tmp/ holds only what SessionEnd left there.
LEMMA DrainClears ==
  ASSUME Types, Plans, NEW d \in Drains, drain[d].pc # "off", NEW t \in tmp
  PROVE  t.kind = "staged" /\ t.of \in Groups /\ staged[t.of] = 0 /\ manifest[t.of] = 0
<1>1. t \in SpoolFiles /\ Fits(t)
  BY DEF Types, Plans
<1>2. ~AllOff
  BY DEF AllOff
<1> QED BY <1>1, <1>2 DEF SpoolFiles, Fits

LEMMA PlanPlans ==
  ASSUME Types, Expanding, Plans, NEW d \in Drains, Plan(d),
         \A c \in Drains \ {d} : drain[c].pc = "off"
  PROVE  Plans'
<1>1. /\ UNCHANGED <<staged, tmp, stamp, place, ends>>
      /\ drain[d].pc = "plan" /\ drain[d].todo # {}
  BY DEF Plan, Materializing, bounds
<1>2. /\ FirstListed(d) \in drain[d].todo /\ Group(d) \in Groups /\ staged[Group(d)] # 0
      /\ \A t \in drain[d].todo : t[1] = Group(d) => t = FirstListed(d)
  BY <1>1, ListedOnce
<1>3. drain \in [Drains -> Locals] /\ drain[d] \in Locals /\ manifest \in [Groups -> Nat]
  BY DEF Types
<1>4. \A c \in Drains \ {d} : drain'[c] = drain[c]
  BY OthersStand DEF DrainSteps, Advance, Materialize
<1>5. \A t \in tmp : t.kind = "staged" /\ t.of \in Groups /\ staged[t.of] = 0 /\ manifest[t.of] = 0
  BY <1>1, DrainClears
<1>6. \/ UNCHANGED manifest /\ (NextGroup(d) \/ Quits(d) \/ BlocksConversation(d))
      \/ /\ manifest' = [manifest EXCEPT ![Group(d)] = staged[Group(d)]]
         /\ ~Conflicting(Group(d))
         /\ drain' = [drain EXCEPT ![d].pc = "fill", ![d].missing = MissingOf(Group(d))]
  BY DEF Plan
<1>7. \A g \in Groups : \/ manifest'[g] = manifest[g]
                        \/ /\ manifest[g] = 0 /\ manifest'[g] = staged[g] /\ staged[g] # 0
  BY <1>2, <1>3, <1>6 DEF Conflicting
<1>8. Stamped' /\ Agreed'
  BY <1>1, <1>7, BatchOf DEF Plans, Stamped, Agreed, Absent
<1>9. Unended'
  BY <1>1, <1>7 DEF Plans, Unended
<1>10. \A t \in tmp' : Fits(t)'
  BY <1>1, <1>5, <1>7 DEF Plans, Fits
<1>11. Listed'
  <2>1. \A c \in Drains \ {d} : drain'[c].pc = "off" /\ drain'[c].todo = {}
    BY <1>4 DEF Plans, Listed
  <2>2. drain'[d] = Idle \/ (drain'[d].pc # "off" /\ drain'[d].todo \subseteq drain[d].todo)
    BY <1>1, TodoStep DEF DrainSteps, Advance, Materialize, List, Recover, TakesLock
  <2>3. \A t \in drain'[d].todo : t[2] # 0 /\ staged'[t[1]] = t[2]
    BY <1>1, <2>2 DEF Plans, Listed, Idle
  <2>4. drain'[d].pc = "off" => drain'[d].todo = {}
    BY <2>2 DEF Idle
  <2>5. drain'[d].pc = "fill" => manifest'[Group(d)'] # 0
    <3>1. CASE NextGroup(d) \/ Quits(d) \/ BlocksConversation(d)
      BY <1>3, <3>1 DEF NextGroup, Quits, BlocksConversation, Idle, Locals
    <3>2. CASE /\ manifest' = [manifest EXCEPT ![Group(d)] = staged[Group(d)]]
               /\ drain' = [drain EXCEPT ![d].pc = "fill", ![d].missing = MissingOf(Group(d))]
      <4>1. drain'[d].todo = drain[d].todo
        BY <1>3, <3>2 DEF Locals
      <4>2. Group(d)' = Group(d)
        BY <4>1 DEF Group, FirstListed
      <4> QED BY <1>2, <1>3, <3>2, <4>2
    <3> QED BY <1>6, <3>1, <3>2
  <2>6. \A c \in Drains \ {d} : drain'[c].pc # "fill"
    BY <2>1
  <2> QED BY <2>1, <2>3, <2>4, <2>5, <2>6 DEF Listed
<1> QED BY <1>8, <1>9, <1>10, <1>11 DEF Plans

LEMMA FillPlans ==
  ASSUME Types, Expanding, Plans, NEW d \in Drains, Fill(d),
         \A c \in Drains \ {d} : drain[c].pc = "off"
  PROVE  Plans'
<1>1. UNCHANGED <<staged, manifest, tmp, ends>> /\ drain[d].pc = "fill" /\ drain[d].missing # {}
  BY DEF Fill, spool, bounds
<1>2. drain \in [Drains -> Locals] /\ drain[d] \in Locals
      /\ place \in [Batches -> SUBSET Places] /\ stamp \in [Batches -> Nat]
  BY DEF Types
<1>3. \A c \in Drains \ {d} : drain'[c] = drain[c]
  BY OthersStand DEF DrainSteps, Advance, Materialize
<1>4. manifest[Group(d)] # 0
  BY <1>1 DEF Plans, Listed
<1>5. PICK b : b = FirstMissing(d)
  OBVIOUS
<1>6. b \in Batches /\ b[1] = Group(d)
  BY <1>1, <1>5, FirstMissingIn DEF Expanding, BatchesOf
<1>7. \/ UNCHANGED <<place, stamp>>
      \/ /\ place' = [place EXCEPT ![b] = @ \union {"pending"}]
         /\ stamp' = [stamp EXCEPT ![b] = manifest[b[1]]]
  BY <1>5 DEF Fill
<1>8. Stamped'
  <2>1. ASSUME NEW x \in Batches, place'[x] # {}
        PROVE  manifest[x[1]] # 0 /\ stamp'[x] = manifest[x[1]]
    <3>1. CASE x = b /\ ~ UNCHANGED <<place, stamp>>
      BY <1>2, <1>4, <1>6, <1>7, <3>1
    <3>2. CASE x # b \/ UNCHANGED <<place, stamp>>
      <4>1. place'[x] = place[x] /\ stamp'[x] = stamp[x]
        BY <1>2, <1>7, <3>2
      <4> QED BY <2>1, <4>1 DEF Plans, Stamped, Absent
    <3> QED BY <3>1, <3>2
  <2> QED BY <1>1, <2>1 DEF Stamped, Absent
<1>9. Agreed' /\ Unended'
  BY <1>1 DEF Plans, Agreed, Unended
<1>10. \A t \in tmp' : Fits(t)'
  <2>1. \A t \in tmp : t.kind = "staged"
    BY <1>1, DrainClears
  <2> QED BY <1>1, <2>1 DEF Plans, Fits
<1>11. Listed'
  <2>1. \A c \in Drains \ {d} : drain'[c].pc = "off" /\ drain'[c].todo = {}
    BY <1>3 DEF Plans, Listed
  <2>2. drain'[d] = Idle \/ (drain'[d].pc # "off" /\ drain'[d].todo \subseteq drain[d].todo)
    BY <1>1, TodoStep DEF DrainSteps, Advance, Materialize, List, Recover, TakesLock
  <2>3. \A t \in drain'[d].todo : t[2] # 0 /\ staged'[t[1]] = t[2]
    BY <1>1, <2>2 DEF Plans, Listed, Idle
  <2>4. drain'[d].pc = "off" => drain'[d].todo = {}
    BY <2>2 DEF Idle
  <2>5. drain'[d].pc = "fill" => manifest'[Group(d)'] # 0
    <3>1. CASE BlocksConversation(d)
      BY <1>2, <3>1 DEF BlocksConversation, Locals
    <3>2. CASE drain' = [drain EXCEPT ![d].missing = @ \ {b}]
      <4>1. drain'[d].todo = drain[d].todo
        BY <1>2, <3>2 DEF Locals
      <4>2. Group(d)' = Group(d)
        BY <4>1 DEF Group, FirstListed
      <4> QED BY <1>1, <1>4, <4>2
    <3> QED BY <1>5, <3>1, <3>2 DEF Fill
  <2>6. \A c \in Drains \ {d} : drain'[c].pc # "fill"
    BY <2>1
  <2> QED BY <2>1, <2>3, <2>4, <2>5, <2>6 DEF Listed
<1> QED BY <1>8, <1>9, <1>10, <1>11 DEF Plans

LEMMA RetirePlans ==
  ASSUME Types, Expanding, Plans, NEW d \in Drains, Retire(d),
         \A c \in Drains \ {d} : drain[c].pc = "off"
  PROVE  Plans'
<1>1. /\ UNCHANGED <<manifest, tmp, place, stamp, ends>>
      /\ drain[d].pc = "fill" /\ drain[d].todo # {}
  BY DEF Retire, batchFiles, bounds, Expanding
<1>2. /\ drain \in [Drains -> Locals] /\ drain[d] \in Locals
      /\ staged \in [Groups -> Nat]
  BY DEF Types
<1>3. \A c \in Drains \ {d} : drain'[c] = drain[c]
  BY OthersStand DEF DrainSteps, Advance, Materialize
<1>4. /\ FirstListed(d) \in drain[d].todo /\ Group(d) \in Groups
      /\ \A t \in drain[d].todo : t[1] = Group(d) => t = FirstListed(d)
  BY <1>1, ListedOnce
<1>5. \/ Quits(d) /\ UNCHANGED staged
      \/ NextGroup(d) /\ staged' = [staged EXCEPT ![Group(d)] = 0]
  BY DEF Retire
<1>6. \A g \in Groups : staged'[g] = staged[g] \/ staged'[g] = 0
  BY <1>2, <1>5
<1>7. Stamped' /\ Agreed' /\ Unended'
  BY <1>1, <1>6 DEF Plans, Stamped, Agreed, Unended, Absent
<1>8. \A t \in tmp' : Fits(t)'
  <2>1. \A t \in tmp : t.kind = "staged" /\ t.of \in Groups
    BY <1>1, DrainClears
  <2> QED BY <1>1, <1>6, <2>1 DEF Plans, Fits
<1>9. Listed'
  <2>1. \A c \in Drains \ {d} : drain'[c].pc = "off" /\ drain'[c].todo = {}
    BY <1>3 DEF Plans, Listed
  <2>2. CASE Quits(d)
    <3>1. drain'[d] = Idle
      BY <1>2, <2>2 DEF Quits
    <3> QED BY <2>1, <3>1 DEF Listed, Idle
  <2>3. CASE NextGroup(d) /\ staged' = [staged EXCEPT ![Group(d)] = 0]
    <3>1. drain'[d].pc = "plan" /\ drain'[d].todo = drain[d].todo \ {FirstListed(d)}
      BY <1>2, <2>3 DEF NextGroup, Locals
    <3>2. \A t \in drain'[d].todo : t[2] # 0 /\ staged'[t[1]] = t[2]
      BY <1>2, <1>4, <2>3, <3>1 DEF Plans, Listed
    <3> QED BY <2>1, <3>1, <3>2 DEF Listed
  <2> QED BY <1>5, <2>2, <2>3
<1> QED BY <1>7, <1>8, <1>9 DEF Plans

LEMMA QuitsOff ==
  ASSUME Types, Plans, NEW d \in Drains, Quits(d), UNCHANGED <<staged, manifest>>,
         \A c \in Drains \ {d} : drain[c].pc = "off"
  PROVE  AllOff' /\ Listed'
<1>1. drain \in [Drains -> Locals]
  BY DEF Types
<1>2. drain'[d] = Idle /\ \A c \in Drains \ {d} : drain'[c] = drain[c]
  BY <1>1 DEF Quits
<1>3. \A c \in Drains : drain'[c].pc = "off" /\ drain'[c].todo = {}
  BY <1>2 DEF Plans, Listed, Idle
<1> QED BY <1>3 DEF AllOff, Listed

LEMMA MaterializeKilledPlans ==
  ASSUME Types, Expanding, Plans, NEW d \in Drains, MaterializeKilled(d),
         \A c \in Drains \ {d} : drain[c].pc = "off"
  PROVE  Plans'
<1>1. /\ UNCHANGED <<staged, manifest, place, stamp, ends>>
      /\ drain[d].pc \in {"plan", "fill"} /\ drain[d].todo # {} /\ Quits(d)
      /\ tmp' = tmp \union SpoolLeft(d)
  BY DEF MaterializeKilled, Materializing, batchFiles
<1>2. AllOff' /\ Listed'
  BY <1>1, QuitsOff
<1>3. Stamped' /\ Agreed' /\ Unended'
  BY <1>1 DEF Plans, Stamped, Agreed, Unended, Absent
<1>4. ASSUME NEW t \in tmp' PROVE Fits(t)'
  <2>1. CASE t \in tmp
    <3>1. t.kind = "staged" /\ Fits(t)
      BY <1>1, <2>1, DrainClears DEF Plans
    <3> QED BY <1>1, <3>1 DEF Fits
  <2>2. CASE t \in SpoolLeft(d) /\ drain[d].pc = "plan"
    <3>1. t = [kind |-> "manifest", of |-> Group(d), order |-> staged[Group(d)]]
      BY <2>2 DEF SpoolLeft
    <3>2. manifest[Group(d)] = 0 /\ staged[Group(d)] # 0
      BY <2>2 DEF MaterializeKilled
    <3> QED BY <1>1, <1>2, <3>1, <3>2 DEF Fits
  <2>3. CASE t \in SpoolLeft(d) /\ drain[d].pc = "fill"
    <3>1. t = [kind |-> "envelope", of |-> FirstMissing(d), order |-> manifest[Group(d)]]
      BY <2>3 DEF SpoolLeft
    <3>2. drain[d].missing # {} /\ Absent(FirstMissing(d))
      BY <2>3 DEF MaterializeKilled
    <3>3. FirstMissing(d)[1] = Group(d) /\ manifest[Group(d)] # 0
      BY <2>3, <3>2, FirstMissingIn DEF Expanding, BatchesOf, Plans, Listed
    <3>4. PICK b : b = FirstMissing(d)
      OBVIOUS
    <3> QED BY <1>1, <1>2, <3>1, <3>2, <3>3, <3>4 DEF Fits, Absent
  <2> QED BY <1>1, <2>1, <2>2, <2>3
<1> QED BY <1>2, <1>3, <1>4 DEF Plans

LEMMA OtherDrainPlans ==
  ASSUME Types, Answered, OneDirectory, takeovers = 0, Plans, NEW d \in Drains, DrainSteps(d),
         ~Recover(d), ~Plan(d), ~Fill(d), ~Retire(d), ~MaterializeKilled(d),
         drain[d].pc # "off", \A c \in Drains \ {d} : drain[c].pc = "off"
  PROVE  Plans'
<1>1. UNCHANGED <<staged, manifest, tmp, stamp, ends>>
  BY SpoolStands
<1>2. \A b \in Batches : place'[b] # {} => place[b] # {}
  BY NoNewFile
<1>3. Stamped' /\ Agreed' /\ Unended'
  BY <1>1, <1>2 DEF Plans, Stamped, Agreed, Unended, Absent
<1>4. \A t \in tmp' : Fits(t)'
  <2>1. \A t \in tmp : t.kind = "staged"
    BY DrainClears
  <2> QED BY <1>1, <2>1 DEF Plans, Fits
<1>5. \A c \in Drains \ {d} : drain'[c].pc = "off" /\ drain'[c].todo = {}
  BY OthersStand DEF Plans, Listed
<1>6. drain'[d] = drain[d] \/ drain'[d].pc # "fill"
  BY Unfilled
<1>7. drain'[d].pc = "fill" => manifest'[Group(d)'] # 0
  BY <1>1, <1>6, LocalsOf DEF Plans, Listed
<1>8. CASE List(d)
  <2>1. drain'[d].pc = "plan" /\ drain'[d].todo = {<<g, staged[g]>> : g \in {h \in Groups : staged[h] # 0}}
    BY <1>8 DEF List, Types, Locals
  <2> QED BY <1>1, <1>3, <1>4, <1>5, <2>1 DEF Plans, Listed
<1>9. CASE ~List(d)
  <2>1. drain'[d] = Idle \/ (drain'[d].pc # "off" /\ drain'[d].todo \subseteq drain[d].todo)
    BY <1>9, TodoStep
  <2>2. \A t \in drain'[d].todo : t[2] # 0 /\ staged'[t[1]] = t[2]
    BY <1>1, <2>1 DEF Plans, Listed, Idle
  <2>3. drain'[d].pc = "off" => drain'[d].todo = {}
    BY <2>1 DEF Idle
  <2> QED BY <1>3, <1>4, <1>5, <1>7, <2>2, <2>3 DEF Plans, Listed
<1> QED BY <1>8, <1>9

LEMMA OutsidePlans ==
  ASSUME Types, EndsOnce, Plans, Counts, NextOutbox, agings' = 0,
         ~ \E d \in Drains : DrainSteps(d)
  PROVE  Plans'
<1>1. ASSUME NEW g \in Groups, SessionEnd(g) \/ SessionEndKilled(g) PROVE Plans'
  BY <1>1, SessionEndPlans
<1>2. CASE (\E b \in Batches : BackoffEnds(b)) \/ PauseEnds
  <2>1. UNCHANGED <<staged, manifest, tmp, place, stamp, drain, ends>>
    BY <1>2 DEF BackoffEnds, PauseEnds, spool, batchFiles, bounds
  <2>2. Listed' /\ AllOff' = AllOff
    BY <2>1, LocalsOf DEF Plans, Listed, AllOff
  <2> QED BY <2>1, <2>2 DEF Plans, Stamped, Agreed, Unended, Absent, Fits
<1>3. CASE WeekPasses
  BY <1>3 DEF WeekPasses, Counts
<1> QED BY <1>1, <1>2, <1>3 DEF NextOutbox, DrainSteps

LEMMA PlansKept ==
  ASSUME EndsOnce, PlansInv, NextOutbox
  PROVE  (Undisturbed => Plans)'
<1>1. Types /\ Answered /\ Expanding /\ Counts /\ Alone /\ Fresh /\ OneDirectory
  BY DEF PlansInv, TidyInv, KeepInv
<1> SUFFICES ASSUME takeovers' = 0, agings' = 0 PROVE Plans'
  BY DEF Undisturbed
<1>2. CASE ~ \E d \in Drains : DrainSteps(d)
  <2>1. takeovers = 0 /\ agings = 0
    BY <1>1, <1>2, OutsideStep
  <2>2. Plans
    BY <2>1 DEF PlansInv, Undisturbed
  <2> QED BY <1>1, <1>2, <2>2, OutsidePlans
<1>3. ASSUME NEW d \in Drains, Recover(d) PROVE Plans'
  <2>1. /\ takeovers = 0 /\ agings = 0
        /\ lock = NoDrain
    BY <1>1, <1>3 DEF Recover, TakesLock, Counts
  <2>2. AllOff
    BY <1>1, <2>1, OutboxConstants DEF Alone, AllOff
  <2>3. Plans
    BY <2>1 DEF PlansInv, Undisturbed
  <2> QED BY <1>1, <1>3, <2>1, <2>2, <2>3, RecoverPlans
<1>4. ASSUME NEW d \in Drains, DrainSteps(d), ~Recover(d) PROVE Plans'
  <2>1. drain[d].pc # "off" /\ takeovers = 0 /\ agings = 0
    BY <1>1, <1>4, LockStep
  <2>2. \A c \in Drains \ {d} : drain[c].pc = "off"
    BY <1>1, <2>1 DEF Alone
  <2>3. Plans
    BY <2>1 DEF PlansInv, Undisturbed
  <2>4. CASE Plan(d) \/ Fill(d)
    BY <1>1, <2>2, <2>3, <2>4, PlanPlans, FillPlans
  <2>5. CASE Retire(d) \/ MaterializeKilled(d)
    BY <1>1, <2>2, <2>3, <2>5, RetirePlans, MaterializeKilledPlans
  <2>6. CASE ~Plan(d) /\ ~Fill(d) /\ ~Retire(d) /\ ~MaterializeKilled(d)
    BY <1>1, <1>4, <2>1, <2>2, <2>3, <2>6, OtherDrainPlans
  <2> QED BY <2>4, <2>5, <2>6
<1> QED BY <1>2, <1>3, <1>4

LEMMA PlansInit == InitOutbox => Plans
<1> SUFFICES ASSUME InitOutbox PROVE Plans
  OBVIOUS
<1>1. /\ \A d \in Drains : drain[d] = Idle
      /\ \A g \in Groups : staged[g] = 0 /\ manifest[g] = 0
      /\ \A b \in Batches : place[b] = {}
      /\ tmp = {}
  BY DEF InitOutbox
<1> QED BY <1>1 DEF Plans, Listed, Stamped, Agreed, Unended, Absent, Idle

LEMMA PlansInvKept ==
  ASSUME EndsOnce
  PROVE  OutboxSpec => []PlansInv
<1>1. TidyInv /\ (Undisturbed => Plans) /\ [NextOutbox]_vars => (Undisturbed => Plans)'
  <2> SUFFICES ASSUME TidyInv, Undisturbed => Plans, [NextOutbox]_vars
               PROVE  (Undisturbed => Plans)'
    OBVIOUS
  <2>1. CASE NextOutbox
    BY <2>1, PlansKept DEF PlansInv
  <2>2. CASE UNCHANGED vars
    <3>1. UNCHANGED <<staged, manifest, tmp, place, stamp, drain, ends, takeovers, agings>>
      BY <2>2 DEF vars, spool, batchFiles, bounds
    <3>2. Listed' = Listed /\ AllOff' = AllOff
      BY <3>1, LocalsOf DEF Listed, AllOff
    <3> QED BY <3>1, <3>2 DEF Undisturbed, Plans, Stamped, Agreed, Unended, Absent, Fits
  <2> QED BY <2>1, <2>2
<1> QED BY <1>1, PlansInit, TidyInvKept, PTL DEF OutboxSpec, PlansInv

LEMMA NoneOrOne ==
  ASSUME NEW S, NEW a, S \subseteq {a}
  PROVE  ~(Cardinality(S) > 1)
<1>1. S = {} \/ S = {a}
  OBVIOUS
<1>2. Cardinality(S) \in {0, 1}
  BY <1>1, FS_EmptySet, FS_Singleton
<1> QED BY <1>2

\* As long as no lock was taken from a living drain and nothing has expired, and
\* when no SessionEnd is repeated that left its spool file behind, no group gets
\* into a state it cannot be sent from.
THEOREM NothingIsWedged ==
  ASSUME EndsOnce
  PROVE  OutboxSpec => []NeverWedged
<1>1. PlansInv => NeverWedged
  <2> SUFFICES ASSUME PlansInv, Undisturbed, NEW g \in Groups PROVE ~Wedged(g)
    BY DEF NeverWedged
  <2>1. takeovers = 0 /\ OneDirectory /\ Plans
    BY DEF PlansInv, TidyInv, Undisturbed
  <2>2. ~(HasPlan(View, g) /\ Conflicting(g))
    BY <2>1 DEF HasPlan, View, Conflicting, Plans, Agreed
  <2>3. OrdersIn(View, g) \subseteq {manifest[g]}
    <3>1. ASSUME NEW x \in OrdersIn(View, g) PROVE x = manifest[g]
      <4>1. \/ \E b \in BatchesOf(g) : place[b] # {} /\ x = stamp[b]
            \/ staged[g] # 0 /\ manifest[g] # 0 /\ x = staged[g]
        BY <3>1 DEF OrdersIn, View, HasPlan
      <4>2. ASSUME NEW b \in BatchesOf(g), place[b] # {} PROVE stamp[b] = manifest[g]
        BY <2>1, <4>2 DEF BatchesOf, Plans, Stamped, Absent
      <4> QED BY <2>1, <4>1, <4>2 DEF Plans, Agreed
    <3> QED BY <3>1
  <2>4. ~(Cardinality(OrdersIn(View, g)) > 1)
    BY <2>3, NoneOrOne
  <2>5. ASSUME NEW b \in BatchesOf(g), "accepted" \notin place[b]
        PROVE  ~(Cardinality(View.place[b]) > 1)
    <3>1. b \in Batches /\ View.place[b] = place[b]
      BY DEF BatchesOf, View
    <3>2. place[b] \in Lifecycles
      BY <2>1, <3>1 DEF OneDirectory
    <3>3. PICK a : place[b] \subseteq {a}
      BY <2>5, <3>2 DEF Lifecycles
    <3> QED BY <3>1, <3>3, NoneOrOne
  <2> QED BY <2>2, <2>4, <2>5 DEF Wedged, Inconsistent
<1> QED BY <1>1, PlansInvKept, PTL

----------------------------------------------------------------------------
(* The order of deliveries *)

AllTaken(g) == \A b \in BatchesOf(g) : b \in server

\* A group with a plan, in a file or in a drain's list, is staged or has landed.
Anchored ==
    /\ \A g \in Groups : manifest[g] # 0 => Kept(g)
    /\ \A d \in Drains : \A t \in drain[d].todo : Kept(t[1])
    /\ \A t \in tmp : t.kind = "manifest" => Kept(t.of)

\* A raw batch that the service does not have has the plan of its group.
Planned ==
    /\ \A b \in Batches : place[b] \intersect RawPlaces # {} => b \in server \/ manifest[b[1]] # 0
    /\ \A t \in tmp : t.kind = "envelope" => t.of \in server \/ manifest[t.of[1]] # 0
    /\ \A d \in Drains : drain[d].pc = "fill" => manifest[Group(d)] # 0 \/ AllTaken(Group(d))

\* The orders that the files of group g carry, or carried, are below n.
GroupOf(t) == IF t.kind = "envelope" THEN t.of[1] ELSE t.of
Below(g, n) ==
    /\ staged[g] < n /\ manifest[g] < n
    /\ \A b \in BatchesOf(g) : stamp[b] < n
    /\ \A t \in tmp : GroupOf(t) = g => t.order < n

\* Every order was handed out by the sequence, and a group that was queued before
\* another claimed order n is known to the service, or has a smaller order.
Ranked ==
    /\ \A g \in Groups : Below(g, sequence)
    /\ \A p \in before : /\ p[1] < sequence
                         /\ p[2] \in queued
                         /\ AllTaken(p[2]) \/ Below(p[2], p[1])

\* What a drain's snapshot of group g shows as long as the group is not over: it
\* is there, and its order is below n.
ShownBelow(v, g, n) ==
    /\ v.staged[g] < n
    /\ \A b \in BatchesOf(g) : v.stamp[b] < n
    /\ v.staged[g] # 0 \/ \A b \in BatchesOf(g) : b \in server \/ v.place[b] # {}

\* A snapshot is old, but what it shows of acceptances and failures stays true, a
\* batch still to be sent has not moved since, and neither have its predecessors.
Trusted(d) ==
    LET v == drain[d].view
    IN  /\ \A b \in Batches : v.place[b] \intersect {"accepted", "done"} # {} => b \in server
        /\ \A b \in Batches : "failed" \in v.place[b] => "failed" \in place[b]
        /\ \A b \in drain[d].pend :
             /\ v.place[b] # {}
             /\ v.stamp[b] < sequence
             /\ b \in server \/ (place[b] \intersect RawPlaces # {} /\ stamp[b] = v.stamp[b])
             /\ \A p \in before : p[1] = v.stamp[b] => AllTaken(p[2]) \/ ShownBelow(v, p[2], p[1])
        /\ drain[d].pc = "send" => Ready(v, Item(d))

OrderInv ==
    KeepInv /\ Anchored /\ Planned /\ Ranked /\ (\A d \in Drains : Trusted(d))

LEMMA StampStands ==
  ASSUME Types, NextOutbox, NEW b \in Batches, place[b] # {}
  PROVE  stamp'[b] = stamp[b]
<1>1. ASSUME NEW d \in Drains, Recover(d) PROVE stamp'[b] = stamp[b]
  BY <1>1 DEF Recover, RestoredStamp, Restorable, Absent
<1>2. ASSUME NEW d \in Drains, Fill(d) PROVE stamp'[b] = stamp[b]
  <2>1. \/ UNCHANGED stamp
        \/ place[FirstMissing(d)] = {} /\ stamp' = [stamp EXCEPT ![FirstMissing(d)] = manifest[FirstMissing(d)[1]]]
    BY <1>2 DEF Fill, Absent
  <2> QED BY <2>1 DEF Types
<1>3. ASSUME NEW d \in Drains, DrainSteps(d), ~Recover(d), ~Fill(d) PROVE stamp'[b] = stamp[b]
  <2>1. CASE Plan(d) \/ Retire(d) \/ MaterializeKilled(d)
    BY <2>1 DEF Plan, Retire, MaterializeKilled, batchFiles
  <2>2. CASE ~(Plan(d) \/ Retire(d) \/ MaterializeKilled(d))
    BY <1>3, <2>2, SpoolStands
  <2> QED BY <2>1, <2>2
<1>4. ASSUME NEW g \in Groups, SessionEnd(g) \/ SessionEndKilled(g) PROVE UNCHANGED stamp
  BY <1>4 DEF SessionEnd, SessionEndKilled, batchFiles
<1>5. ASSUME (\E c \in Batches : BackoffEnds(c)) \/ PauseEnds \/ WeekPasses PROVE UNCHANGED stamp
  BY <1>5 DEF BackoffEnds, PauseEnds, WeekPasses, batchFiles
<1> QED BY <1>1, <1>2, <1>3, <1>4, <1>5 DEF NextOutbox, DrainSteps

\* A failure stays on the disk.
LEMMA FailureStands ==
  ASSUME Types, NextOutbox, NEW b \in Batches, "failed" \in place[b]
  PROVE  "failed" \in place'[b]
<1>1. place \in [Batches -> SUBSET Places]
  BY DEF Types
<1>2. ASSUME NEW d \in Drains, Recover(d) PROVE "failed" \in place'[b]
  <2>1. PICK r, f, q :
            /\ r = IF Restorable(b) THEN {"pending"} ELSE place[b]
            /\ f = IF "accepted" \in r THEN (r \ {"accepted", "inflight"}) \union {"done"} ELSE r
            /\ q = IF "inflight" \in f THEN (f \ {"inflight"}) \union {"pending"} ELSE f
            /\ place'[b] = q \/ (place'[b] = q \ {"done"} /\ DoneFile(b) \in old)
    BY <1>2, RecoverPlaces
  <2>2. "failed" \in r
    BY <2>1 DEF Restorable, Absent
  <2>3. "failed" \in f
    BY <2>1, <2>2
  <2>4. "failed" \in q
    BY <2>1, <2>3
  <2> QED BY <2>1, <2>4
<1>3. ASSUME NEW d \in Drains, DrainSteps(d), ~Recover(d) PROVE "failed" \in place'[b]
  <2>1. CASE Fill(d)
    BY <1>1, <2>1 DEF Fill
  <2>2. CASE Claim(d)
    BY <1>1, <2>2 DEF Claim
  <2>3. CASE SettleAccepted(d)
    BY <1>1, <2>3 DEF SettleAccepted
  <2>4. CASE KilledAccepting(d)
    BY <1>1, <2>4 DEF KilledAccepting
  <2>5. CASE Settle(d) /\ ~SettleAccepted(d)
    <3>1. PICK dir \in {"pending", "failed"}, due \in BOOLEAN, last \in BOOLEAN : MovesBack(d, dir, due, last)
      BY <2>5, SettleIs
    <3> QED BY <1>1, <3>1 DEF MovesBack
  <2>6. CASE ~Fill(d) /\ ~Claim(d) /\ ~Settle(d) /\ ~KilledAccepting(d)
    BY <1>3, <2>6, PlaceStands
  <2> QED BY <1>3, <2>1, <2>2, <2>3, <2>4, <2>5, <2>6
<1>4. ASSUME NEW g \in Groups, SessionEnd(g) \/ SessionEndKilled(g) PROVE UNCHANGED place
  BY <1>4 DEF SessionEnd, SessionEndKilled, batchFiles
<1>5. ASSUME (\E c \in Batches : BackoffEnds(c)) \/ PauseEnds \/ WeekPasses PROVE UNCHANGED place
  BY <1>5 DEF BackoffEnds, PauseEnds, WeekPasses, batchFiles
<1> QED BY <1>2, <1>3, <1>4, <1>5 DEF NextOutbox, DrainSteps

\* Raw files come from the expansion of a group and from the recovery only.
LEMMA NoNewRaw ==
  ASSUME Types, NEW d \in Drains, DrainSteps(d), ~Recover(d), ~Fill(d), NEW b \in Batches,
         place'[b] \intersect RawPlaces # {}
  PROVE  place[b] \intersect RawPlaces # {}
<1>1. place \in [Batches -> SUBSET Places]
  BY DEF Types
<1>2. CASE Claim(d)
  BY <1>1, <1>2 DEF Claim, RawPlaces
<1>3. CASE SettleAccepted(d)
  BY <1>1, <1>3 DEF SettleAccepted, RawPlaces
<1>4. CASE KilledAccepting(d)
  BY <1>1, <1>4 DEF KilledAccepting, RawPlaces
<1>5. CASE Settle(d) /\ ~SettleAccepted(d)
  <2>1. PICK dir \in {"pending", "failed"}, due \in BOOLEAN, last \in BOOLEAN : MovesBack(d, dir, due, last)
    BY <1>5, SettleIs
  <2> QED BY <1>1, <2>1 DEF MovesBack, RawPlaces
<1>6. CASE ~Claim(d) /\ ~Settle(d) /\ ~KilledAccepting(d)
  BY <1>6, PlaceStands
<1> QED BY <1>2, <1>3, <1>4, <1>5, <1>6

LEMMA OutsideFiles ==
  ASSUME Types, NextOutbox, ~ \E d \in Drains : DrainSteps(d)
  PROVE  UNCHANGED <<manifest, place, stamp, drain, server>>
<1>1. ASSUME NEW g \in Groups, SessionEnd(g) \/ SessionEndKilled(g)
      PROVE  UNCHANGED <<manifest, place, stamp, drain, server>>
  BY <1>1 DEF SessionEnd, SessionEndKilled, batchFiles
<1>2. ASSUME (\E b \in Batches : BackoffEnds(b)) \/ PauseEnds \/ WeekPasses
      PROVE  UNCHANGED <<manifest, place, stamp, drain, server>>
  BY <1>2 DEF BackoffEnds, PauseEnds, WeekPasses, batchFiles, spool, history
<1> QED BY <1>1, <1>2 DEF NextOutbox, DrainSteps

\* What tmp/ gains.
LEMMA SpoolGains ==
  ASSUME Types, Expanding, NextOutbox, NEW t \in tmp', t \notin tmp
  PROVE  \/ \E g \in Groups : /\ SessionEndKilled(g)
                              /\ t = [kind |-> "staged", of |-> g, order |-> OrderFor(g)]
         \/ \E d \in Drains :
              /\ MaterializeKilled(d) /\ Group(d) \in Groups /\ drain[d].todo # {}
              /\ FirstListed(d) \in drain[d].todo
              /\ \/ /\ t = [kind |-> "manifest", of |-> Group(d), order |-> staged[Group(d)]]
                    /\ staged[Group(d)] # 0
                 \/ \E b \in Batches :
                      /\ b = FirstMissing(d) /\ b[1] = Group(d) /\ drain[d].pc = "fill"
                      /\ t = [kind |-> "envelope", of |-> b, order |-> manifest[Group(d)]]
<1>1. ASSUME NEW d \in Drains, DrainSteps(d), ~MaterializeKilled(d) PROVE tmp' \subseteq tmp
  <2>1. CASE Recover(d) \/ Plan(d) \/ Fill(d) \/ Retire(d)
    BY <2>1 DEF Recover, Plan, Fill, Retire, spool
  <2>2. CASE ~(Recover(d) \/ Plan(d) \/ Fill(d) \/ Retire(d))
    BY <1>1, <2>2, SpoolStands
  <2> QED BY <2>1, <2>2
<1>2. ASSUME (\E c \in Batches : BackoffEnds(c)) \/ PauseEnds \/ WeekPasses PROVE UNCHANGED tmp
  BY <1>2 DEF BackoffEnds, PauseEnds, WeekPasses, spool
<1>3. ASSUME NEW g \in Groups, SessionEnd(g) PROVE UNCHANGED tmp
  BY <1>3 DEF SessionEnd
<1>4. ASSUME NEW g \in Groups, SessionEndKilled(g)
      PROVE  t = [kind |-> "staged", of |-> g, order |-> OrderFor(g)]
  BY <1>4 DEF SessionEndKilled
<1>5. ASSUME NEW d \in Drains, MaterializeKilled(d)
      PROVE  /\ Group(d) \in Groups /\ drain[d].todo # {} /\ FirstListed(d) \in drain[d].todo
             /\ \/ /\ t = [kind |-> "manifest", of |-> Group(d), order |-> staged[Group(d)]]
                   /\ staged[Group(d)] # 0
                \/ \E b \in Batches :
                      /\ b = FirstMissing(d) /\ b[1] = Group(d) /\ drain[d].pc = "fill"
                      /\ t = [kind |-> "envelope", of |-> b, order |-> manifest[Group(d)]]
  <2>1. drain[d].todo # {} /\ drain[d].pc \in {"plan", "fill"} /\ t \in SpoolLeft(d)
    BY <1>5 DEF MaterializeKilled, Materializing
  <2>2. Group(d) \in Groups /\ FirstListed(d) \in drain[d].todo
    BY <2>1, FirstListedIn
  <2>3. CASE drain[d].pc = "plan"
    BY <1>5, <2>1, <2>2, <2>3 DEF MaterializeKilled, SpoolLeft
  <2>4. CASE drain[d].pc = "fill"
    <3>1. FirstMissing(d) \in drain[d].missing /\ FirstMissing(d) \in Batches
      BY <1>5, <2>4, FirstMissingIn DEF MaterializeKilled
    <3>2. FirstMissing(d)[1] = Group(d)
      BY <2>4, <3>1 DEF Expanding, BatchesOf
    <3> QED BY <2>1, <2>2, <2>4, <3>1, <3>2 DEF SpoolLeft
  <2> QED BY <2>1, <2>2, <2>3, <2>4
<1> QED BY <1>1, <1>2, <1>3, <1>4, <1>5 DEF NextOutbox, DrainSteps

LEMMA ManifestStep ==
  ASSUME Types, NextOutbox, NEW g \in Groups, manifest'[g] # manifest[g]
  PROVE  \/ \E d \in Drains : /\ Plan(d) /\ drain[d].pc = "plan" /\ g = Group(d)
                              /\ FirstListed(d) \in drain[d].todo /\ ~Conflicting(g)
                              /\ manifest'[g] = staged[g]
         \/ /\ \E d \in Drains : Recover(d)
            /\ manifest'[g] # 0 => /\ manifest[g] = 0
                                   /\ \E t \in Leftover("manifest", g) : manifest'[g] = t.order
<1>1. \A c \in Drains : FirstListed(c) \in drain[c].todo \/ drain[c].todo = {}
  BY FirstListedIn
<1>2. ASSUME NEW d \in Drains, Recover(d)
      PROVE  manifest'[g] # 0 => /\ manifest[g] = 0
                                 /\ \E t \in Leftover("manifest", g) : manifest'[g] = t.order
  <2>1. manifest'[g] = 0 \/ manifest'[g] = RestoredFile(manifest, "manifest")[g]
    BY <1>2 DEF Recover
  <2> QED BY <2>1 DEF RestoredFile
<1>3. ASSUME NEW d \in Drains, Plan(d)
      PROVE  /\ drain[d].pc = "plan" /\ g = Group(d) /\ FirstListed(d) \in drain[d].todo
             /\ ~Conflicting(g) /\ manifest'[g] = staged[g]
  BY <1>1, <1>3 DEF Plan, Materializing, Types
<1>4. ASSUME NEW d \in Drains, DrainSteps(d), ~Recover(d), ~Plan(d) PROVE UNCHANGED manifest
  <2>1. CASE Fill(d) \/ Retire(d) \/ MaterializeKilled(d)
    BY <2>1 DEF Fill, Retire, MaterializeKilled, spool
  <2>2. CASE ~(Fill(d) \/ Retire(d) \/ MaterializeKilled(d))
    BY <1>4, <2>2, SpoolStands
  <2> QED BY <2>1, <2>2
<1>5. CASE ~ \E d \in Drains : DrainSteps(d)
  BY <1>5, OutsideFiles
<1> QED BY <1>2, <1>3, <1>4, <1>5

LEMMA AnchoredKept ==
  ASSUME KeepInv, Anchored, NextOutbox
  PROVE  Anchored'
<1>1. Types /\ Answered /\ Taken /\ Expanding /\ Held
  BY DEF KeepInv
<1>2. \A g \in Groups : Kept(g) => Kept(g)'
  BY <1>1, KeptStays
<1>3. ASSUME NEW g \in Groups, manifest'[g] # 0 PROVE Kept(g)
  <2>1. CASE manifest'[g] = manifest[g]
    BY <1>3, <2>1 DEF Anchored
  <2>2. CASE manifest'[g] # manifest[g]
    BY <1>1, <1>3, <2>2, ManifestStep DEF Anchored, Group, Leftover
  <2> QED BY <2>1, <2>2
<1>4. ASSUME NEW d \in Drains, NEW t \in drain'[d].todo PROVE t[1] \in Groups /\ Kept(t[1])
  <2>0. \A x \in drain[d].todo : x[1] \in Groups /\ Kept(x[1])
    BY <1>1 DEF Anchored, Types, Locals
  <2>1. CASE drain'[d] = drain[d]
    BY <1>4, <2>0, <2>1
  <2>2. CASE DrainSteps(d) /\ ~Recover(d) /\ ~List(d)
    BY <1>1, <1>4, <2>0, <2>2, LockStep, TodoStep DEF Idle
  <2>3. CASE Recover(d)
    <3>1. drain'[d].todo = drain[d].todo
      BY <1>1, <2>3 DEF Recover, Types, Locals
    <3> QED BY <1>4, <2>0, <3>1
  <2>4. CASE List(d)
    <3>1. drain'[d].todo = {<<g, staged[g]>> : g \in {h \in Groups : staged[h] # 0}}
      BY <1>1, <2>4 DEF List, Types, Locals
    <3> QED BY <1>4, <3>1 DEF Kept
  <2>5. drain'[d] = drain[d] \/ DrainSteps(d)
    BY <1>1, OthersStand, DrainsStand
  <2> QED BY <2>1, <2>2, <2>3, <2>4, <2>5
<1>5. ASSUME NEW t \in tmp', t.kind = "manifest" PROVE t.of \in Groups /\ Kept(t.of)
  <2>1. CASE t \in tmp
    BY <1>1, <1>5, <2>1 DEF Anchored, Types, SpoolFiles
  <2>2. CASE t \notin tmp
    BY <1>1, <1>5, <2>2, SpoolGains DEF Kept
  <2> QED BY <2>1, <2>2
<1> QED BY <1>2, <1>3, <1>4, <1>5 DEF Anchored

\* The manifest of a group expires only when the service has all of it.
LEMMA ExpiredTaken ==
  ASSUME KeepInv, Anchored, NextOutbox, NEW g \in Groups, manifest[g] # 0, manifest'[g] = 0
  PROVE  \A b \in BatchesOf(g) : b \in server'
<1>1. Types /\ Answered /\ Taken /\ Expanding /\ Held
  BY DEF KeepInv
<1>2. ASSUME NEW d \in Drains, Plan(d), g = Group(d), ~Conflicting(g), manifest'[g] = staged[g]
      PROVE  FALSE
  BY <1>2 DEF Conflicting
<1>3. PICK d \in Drains : Recover(d)
  BY <1>1, <1>2, ManifestStep
<1> DEFINE st == RestoredFile(staged, "staged")
           mf == RestoredFile(manifest, "manifest")
           pl == Requeued(Finalized(RestoredPlace))
<1>4. mf[g] # 0
  BY DEF RestoredFile
<1>5. /\ manifest'[g] = IF ManifestFile(g) \in Expired(pl, st, mf) THEN 0 ELSE mf[g]
      /\ \A b \in Batches : place'[b] \subseteq pl[b]
  BY <1>3 DEF Recover
<1>6. ~Active(pl, st, mf, g)
  BY <1>4, <1>5 DEF Expired, ManifestFile
<1>7. st[g] = 0 /\ \A b \in BatchesOf(g) : pl[b] \intersect RawPlaces = {}
  BY <1>4, <1>6 DEF Active
<1>8. staged[g] = 0
  BY <1>7 DEF RestoredFile
<1>9. \A b \in BatchesOf(g) : Landed(b)
  BY <1>8 DEF Anchored, Kept
<1>10. \A b \in BatchesOf(g) : b \in Batches /\ Landed(b)'
  BY <1>1, <1>9, StepSafely DEF Safely, BatchesOf
<1> HIDE DEF pl
<1>11. \A b \in BatchesOf(g) : b \in server'
  BY <1>5, <1>7, <1>10 DEF Landed
<1> QED BY <1>11

LEMMA PlannedKept ==
  ASSUME KeepInv, Anchored, Planned, NextOutbox
  PROVE  Planned'
<1>1. Types /\ Answered /\ Taken /\ Expanding /\ Held
  BY DEF KeepInv
<1>2. server \subseteq server' /\ \A b \in Batches : b[1] \in Groups /\ b \in BatchesOf(b[1])
  BY <1>1, StepSafely, BatchOf DEF Safely
<1>3. \A g \in Groups : AllTaken(g) => \A b \in BatchesOf(g) : b \in server'
  BY <1>2 DEF AllTaken
<1>4. \A g \in Groups : manifest[g] # 0 => manifest'[g] # 0 \/ \A b \in BatchesOf(g) : b \in server'
  BY ExpiredTaken
<1>6. \A b \in Batches : b \in server \/ manifest[b[1]] # 0 => b \in server' \/ manifest'[b[1]] # 0
  BY <1>2, <1>4
<1>7. ASSUME NEW b \in Batches, place'[b] \intersect RawPlaces # {}
      PROVE  b \in server \/ manifest[b[1]] # 0
  <2>1. ASSUME place[b] \intersect RawPlaces # {} PROVE b \in server \/ manifest[b[1]] # 0
    BY <2>1 DEF Planned
  <2>2. ASSUME NEW d \in Drains, Recover(d), place[b] \intersect RawPlaces = {}
        PROVE  Leftover("envelope", b) # {}
    <3>1. PICK r, f, q :
            /\ r = IF Restorable(b) THEN {"pending"} ELSE place[b]
            /\ f = IF "accepted" \in r THEN (r \ {"accepted", "inflight"}) \union {"done"} ELSE r
            /\ q = IF "inflight" \in f THEN (f \ {"inflight"}) \union {"pending"} ELSE f
            /\ place'[b] = q \/ (place'[b] = q \ {"done"} /\ DoneFile(b) \in old)
      BY <1>1, <2>2, RecoverPlaces
    <3>2. ASSUME ~Restorable(b) PROVE FALSE
      <4>1. "inflight" \notin place[b] /\ "pending" \notin place[b] /\ "failed" \notin place[b]
        BY <2>2 DEF RawPlaces
      <4>2. "inflight" \notin f /\ "pending" \notin f /\ "failed" \notin f
        BY <3>1, <3>2, <4>1
      <4> QED BY <1>7, <3>1, <4>2 DEF RawPlaces
    <3> QED BY <3>2 DEF Restorable
  <2>3. ASSUME Leftover("envelope", b) # {} PROVE b \in server \/ manifest[b[1]] # 0
    BY <2>3 DEF Leftover, Planned
  <2>4. ASSUME NEW d \in Drains, Fill(d), place[b] \intersect RawPlaces = {}
        PROVE  b \in server \/ manifest[b[1]] # 0
    <3>1. FirstMissing(d) \in drain[d].missing /\ drain[d].pc = "fill"
      BY <1>1, <2>4, FirstMissingIn DEF Fill
    <3>2. UNCHANGED place \/ place' = [place EXCEPT ![FirstMissing(d)] = @ \union {"pending"}]
      BY <2>4 DEF Fill
    <3>3. b = FirstMissing(d)
      BY <1>1, <1>7, <2>4, <3>2 DEF Types
    <3>4. b[1] = Group(d)
      BY <1>1, <3>1, <3>3 DEF Expanding, BatchesOf
    <3> QED BY <1>2, <3>1, <3>4 DEF Planned, AllTaken
  <2>5. ASSUME NEW d \in Drains, DrainSteps(d), ~Recover(d), ~Fill(d)
        PROVE  place[b] \intersect RawPlaces # {}
    BY <1>1, <1>7, <2>5, NoNewRaw
  <2>6. CASE ~ \E d \in Drains : DrainSteps(d)
    BY <1>1, <1>7, <2>1, <2>6, OutsideFiles
  <2> QED BY <2>1, <2>2, <2>3, <2>4, <2>5, <2>6
<1>8. ASSUME NEW t \in tmp', t.kind = "envelope"
      PROVE  t.of \in Batches /\ (t.of \in server \/ manifest[t.of[1]] # 0)
  <2>1. CASE t \in tmp
    BY <1>1, <1>8, <2>1 DEF Planned, Types, SpoolFiles
  <2>2. CASE t \notin tmp
    <3>1. PICK d \in Drains, b \in Batches :
             /\ b[1] = Group(d) /\ drain[d].pc = "fill"
             /\ t = [kind |-> "envelope", of |-> b, order |-> manifest[Group(d)]]
      BY <1>1, <1>8, <2>2, SpoolGains
    <3> QED BY <1>2, <3>1 DEF Planned, AllTaken
  <2> QED BY <2>1, <2>2
<1>9. ASSUME NEW d \in Drains, drain'[d].pc = "fill", NEW g, g = Group(d)'
      PROVE  manifest'[g] # 0 \/ \A b \in BatchesOf(g) : b \in server'
  <2>1. CASE drain[d].pc = "fill" /\ drain'[d].todo = drain[d].todo
    <3>1. Group(d)' = Group(d) /\ Group(d) \in Groups
      BY <1>1, <2>1, FirstListedIn DEF Group, FirstListed, Expanding
    <3> QED BY <1>3, <1>4, <1>9, <2>1, <3>1 DEF Planned
  <2>2. CASE Plan(d)
    <3>1. drain[d].pc = "plan" /\ drain[d].todo # {} /\ Group(d) \in Groups
          /\ FirstListed(d) \in drain[d].todo
      BY <1>1, <2>2, FirstListedIn DEF Plan, Materializing
    <3>2. drain \in [Drains -> Locals] /\ drain[d] \in Locals
      BY <1>1 DEF Types
    <3>3. /\ manifest' = [manifest EXCEPT ![Group(d)] = staged[Group(d)]]
          /\ drain' = [drain EXCEPT ![d].pc = "fill", ![d].missing = MissingOf(Group(d))]
          /\ ~Conflicting(Group(d))
      <4>1. ~(NextGroup(d) \/ Quits(d) \/ BlocksConversation(d))
        BY <1>9, <3>2 DEF NextGroup, Quits, BlocksConversation, Idle, Locals
      <4> QED BY <2>2, <4>1 DEF Plan
    <3>4. drain'[d].todo = drain[d].todo
      BY <3>2, <3>3 DEF Locals
    <3>5. Group(d)' = Group(d)
      BY <3>4 DEF Group, FirstListed
    <3>6. manifest'[Group(d)] = staged[Group(d)]
      BY <1>1, <3>1, <3>3 DEF Types
    <3>7. ASSUME staged[Group(d)] = 0 PROVE AllTaken(Group(d))
      <4>1. manifest[Group(d)] = 0
        BY <3>3, <3>7 DEF Conflicting
      <4>2. \A b \in BatchesOf(Group(d)) : Landed(b)
        BY <3>1, <3>7 DEF Anchored, Kept, Group
      <4>3. \A b \in BatchesOf(Group(d)) : b \in Batches /\ b[1] = Group(d)
        BY DEF BatchesOf
      <4> QED BY <4>1, <4>2, <4>3 DEF Planned, Landed, AllTaken
    <3> QED BY <1>3, <1>9, <3>1, <3>5, <3>6, <3>7
  <2>3. CASE Fill(d)
    <3>1. drain \in [Drains -> Locals] /\ drain[d] \in Locals
      BY <1>1 DEF Types
    <3>2. ~BlocksConversation(d)
      BY <1>9, <3>1 DEF BlocksConversation, Locals
    <3>3. drain[d].pc = "fill" /\ drain' = [drain EXCEPT ![d].missing = @ \ {FirstMissing(d)}]
      BY <2>3, <3>2 DEF Fill
    <3>4. drain'[d].todo = drain[d].todo
      BY <3>1, <3>3 DEF Locals
    <3> QED BY <2>1, <3>3, <3>4
  <2>4. CASE drain'[d] = drain[d]
    BY <1>9, <2>1, <2>4
  <2>5. CASE DrainSteps(d) /\ ~Plan(d) /\ ~Fill(d)
    BY <1>1, <1>9, <2>4, <2>5, Unfilled
  <2> QED BY <1>1, <2>2, <2>3, <2>4, <2>5, OthersStand, DrainsStand
<1>10. ASSUME NEW d \in Drains, drain'[d].pc = "fill"
       PROVE  (manifest[Group(d)] # 0 \/ AllTaken(Group(d)))'
  BY <1>9, <1>10 DEF AllTaken, BatchesOf, Batches
<1> QED BY <1>6, <1>7, <1>8, <1>10 DEF Planned

\* A drain hands no order out: it copies those that are there.
LEMMA BelowKept ==
  ASSUME KeepInv, NextOutbox, NEW d \in Drains, DrainSteps(d),
         NEW g \in Groups, NEW n \in Nat, Below(g, n)
  PROVE  Below(g, n)'
<1>1. Types /\ Answered /\ Taken /\ Expanding /\ Held
  BY DEF KeepInv
<1>2. /\ staged \in [Groups -> Nat] /\ manifest \in [Groups -> Nat] /\ stamp \in [Batches -> Nat]
      /\ BatchesOf(g) \subseteq Batches /\ BatchesOf(g)' = BatchesOf(g)
      /\ \A b \in BatchesOf(g) : b[1] = g
      /\ 0 < n
  BY <1>1 DEF Types, BatchesOf, Batches, Below
<1>3. CASE Recover(d)
  <2>1. staged'[g] = RestoredFile(staged, "staged")[g]
    BY <1>3 DEF Recover
  <2>2. manifest'[g] = 0 \/ manifest'[g] = RestoredFile(manifest, "manifest")[g]
    BY <1>3 DEF Recover
  <2>3. \A k : \A t \in Leftover(k, g) : k # "envelope" => t.order < n
    BY DEF Leftover, Below, GroupOf
  <2>4. ASSUME NEW file \in [Groups -> Nat], NEW k \in {"staged", "manifest"}, file[g] < n
        PROVE  RestoredFile(file, k)[g] < n
    BY <2>3, <2>4 DEF RestoredFile
  <2>5. staged'[g] < n /\ manifest'[g] < n
    BY <1>2, <2>1, <2>2, <2>4 DEF Below
  <2>6. ASSUME NEW b \in BatchesOf(g) PROVE stamp'[b] < n
    <3>1. stamp'[b] = IF Restorable(b) THEN (CHOOSE t \in Leftover("envelope", b) : TRUE).order ELSE stamp[b]
      BY <1>2, <1>3 DEF Recover, RestoredStamp
    <3>2. \A t \in Leftover("envelope", b) : t.order < n
      BY <1>2 DEF Leftover, Below, GroupOf
    <3> QED BY <3>1, <3>2 DEF Restorable, Below
  <2>7. tmp' = {}
    BY <1>3 DEF Recover
  <2> QED BY <1>2, <2>5, <2>6, <2>7 DEF Below
<1>4. CASE Plan(d)
  <2>1. manifest'[g] = manifest[g] \/ manifest'[g] = staged[g]
    BY <1>2, <1>4 DEF Plan
  <2> QED BY <1>2, <1>4, <2>1 DEF Plan, Below
<1>5. CASE Fill(d)
  <2>1. \A b \in BatchesOf(g) : stamp'[b] = stamp[b] \/ stamp'[b] = manifest[b[1]]
    BY <1>2, <1>5 DEF Fill
  <2> QED BY <1>2, <1>5, <2>1 DEF Fill, Below, spool
<1>6. CASE Retire(d)
  <2>1. staged'[g] = staged[g] \/ staged'[g] = 0
    BY <1>2, <1>6 DEF Retire
  <2> QED BY <1>2, <1>6, <2>1 DEF Retire, Below, batchFiles
<1>7. CASE MaterializeKilled(d)
  <2>1. UNCHANGED <<staged, manifest, stamp>>
    BY <1>7 DEF MaterializeKilled, batchFiles
  <2>2. ASSUME NEW t \in tmp', GroupOf(t) = g PROVE t.order < n
    <3>1. CASE t \in tmp
      BY <2>2, <3>1 DEF Below
    <3>2. CASE t \notin tmp
      <4>1. \/ /\ t = [kind |-> "manifest", of |-> Group(d), order |-> staged[Group(d)]]
               /\ Group(d) \in Groups
            \/ \E b \in Batches :
                 /\ b[1] = Group(d)
                 /\ t = [kind |-> "envelope", of |-> b, order |-> manifest[Group(d)]]
        <5>1. drain[d].pc \in {"plan", "fill"} /\ drain[d].todo # {} /\ t \in SpoolLeft(d)
          BY <1>7, <2>2, <3>2 DEF MaterializeKilled, Materializing
        <5>2. CASE drain[d].pc = "plan"
          BY <1>1, <5>1, <5>2, FirstListedIn DEF SpoolLeft
        <5>3. CASE drain[d].pc = "fill"
          <6>1. FirstMissing(d) \in drain[d].missing /\ FirstMissing(d) \in Batches
            BY <1>1, <1>7, <5>3, FirstMissingIn DEF MaterializeKilled
          <6>2. FirstMissing(d)[1] = Group(d)
            BY <1>1, <5>3, <6>1 DEF Expanding, BatchesOf
          <6> QED BY <5>1, <5>3, <6>1, <6>2 DEF SpoolLeft
        <5> QED BY <5>1, <5>2, <5>3
      <4>2. t.order = staged[g] \/ t.order = manifest[g]
        BY <2>2, <4>1 DEF GroupOf
      <4> QED BY <4>2 DEF Below
    <3> QED BY <3>1, <3>2
  <2> QED BY <1>2, <2>1, <2>2 DEF Below, GroupOf
<1>8. CASE ~(Recover(d) \/ Plan(d) \/ Fill(d) \/ Retire(d) \/ MaterializeKilled(d))
  <2>1. UNCHANGED <<staged, manifest, tmp, stamp>>
    BY <1>1, <1>8, SpoolStands
  <2> QED BY <1>2, <2>1 DEF Below, GroupOf
<1> QED BY <1>3, <1>4, <1>5, <1>6, <1>7, <1>8

LEMMA EndStep ==
  ASSUME Types, NEW g \in Groups, SessionEnd(g) \/ SessionEndKilled(g)
  PROVE  /\ UNCHANGED <<manifest, place, stamp, drain, server>>
         /\ queued \subseteq queued'
         /\ \/ UNCHANGED <<sequence, before, staged, tmp>>
            \/ /\ NeedsStage(g)
               /\ ClaimOrder(g)
               /\ UNCHANGED staged \/ staged' = [staged EXCEPT ![g] = OrderFor(g)]
               /\ \/ UNCHANGED tmp
                  \/ tmp' = tmp \union {[kind |-> "staged", of |-> g, order |-> OrderFor(g)]}
<1>1. CASE SessionEnd(g)
  BY <1>1 DEF SessionEnd, batchFiles
<1>2. CASE SessionEndKilled(g)
  BY <1>2 DEF SessionEndKilled, batchFiles
<1> QED BY <1>1, <1>2

LEMMA RankedKept ==
  ASSUME KeepInv, Anchored, Planned, Ranked, NextOutbox
  PROVE  Ranked'
<1>1. Types /\ Answered /\ Taken /\ Expanding /\ Held
  BY DEF KeepInv
<1>2. /\ server \subseteq server' /\ sequence \in Nat /\ before \subseteq Nat \X Groups
      /\ \A g \in Groups : Below(g, sequence)
      /\ \A p \in before : /\ p[1] < sequence /\ p[2] \in queued /\ p[1] \in Nat /\ p[2] \in Groups
                           /\ AllTaken(p[2]) \/ Below(p[2], p[1])
  BY <1>1, StepSafely DEF Safely, Ranked, Types
<1>3. \A g \in Groups : AllTaken(g) => AllTaken(g)'
  BY <1>2 DEF AllTaken, BatchesOf, Batches
<1>4. ASSUME NEW d \in Drains, DrainSteps(d) PROVE Ranked'
  <2>1. UNCHANGED <<queued, before, sequence>>
    BY <1>1, <1>4, DrainHistory
  <2>2. \A g \in Groups, n \in Nat : Below(g, n) => Below(g, n)'
    BY <1>4, BelowKept
  <2>3. \A g \in Groups : Below(g, sequence)'
    BY <1>2, <2>1, <2>2 DEF Below
  <2>4. \A p \in before : AllTaken(p[2])' \/ Below(p[2], p[1])'
    BY <1>2, <1>3, <2>2
  <2> QED BY <1>2, <2>1, <2>3, <2>4 DEF Ranked
<1>5. ASSUME NEW g \in Groups, SessionEnd(g) \/ SessionEndKilled(g) PROVE Ranked'
  <2>1. /\ UNCHANGED <<manifest, place, stamp, drain, server>>
        /\ queued \subseteq queued'
        /\ \/ UNCHANGED <<sequence, before, staged, tmp>>
           \/ /\ NeedsStage(g)
              /\ ClaimOrder(g)
              /\ UNCHANGED staged \/ staged' = [staged EXCEPT ![g] = OrderFor(g)]
              /\ \/ UNCHANGED tmp
                 \/ tmp' = tmp \union {[kind |-> "staged", of |-> g, order |-> OrderFor(g)]}
    BY <1>1, <1>5, EndStep
  <2>2. CASE UNCHANGED <<sequence, before, staged, tmp>>
    BY <1>2, <2>1, <2>2 DEF Ranked, Below, GroupOf, AllTaken, BatchesOf, Batches
  <2>3. CASE /\ NeedsStage(g)
             /\ ClaimOrder(g)
             /\ UNCHANGED staged \/ staged' = [staged EXCEPT ![g] = OrderFor(g)]
             /\ \/ UNCHANGED tmp
                \/ tmp' = tmp \union {[kind |-> "staged", of |-> g, order |-> OrderFor(g)]}
    <3>1. /\ staged \in [Groups -> Nat] /\ manifest \in [Groups -> Nat]
          /\ \A h : BatchesOf(h)' = BatchesOf(h)
      BY <1>1 DEF Types, BatchesOf, Batches
    <3>2. ASSUME NEW h \in Groups, NEW n \in Nat, Below(h, n), h = g => OrderFor(g) < n
          PROVE  Below(h, n)'
      <4>1. staged'[h] < n
        BY <2>3, <3>1, <3>2 DEF Below
      <4>2. ASSUME NEW t \in tmp', GroupOf(t) = h PROVE t.order < n
        BY <2>3, <3>2, <4>2 DEF Below, GroupOf
      <4> QED BY <2>1, <3>1, <3>2, <4>1, <4>2 DEF Below, GroupOf
    <3>3. ASSUME NEW n \in Nat, Below(g, n), manifest[g] # 0 PROVE OrderFor(g) < n
      BY <3>3 DEF Below, OrderFor
    <3>4. ASSUME manifest[g] = 0, g \in queued PROVE AllTaken(g)
      <4>1. staged[g] = 0 /\ Kept(g)
        BY <1>1, <2>3, <3>4 DEF NeedsStage, Held
      <4>2. \A b \in BatchesOf(g) : b \in Batches /\ b[1] = g /\ Landed(b)
        BY <4>1 DEF Kept, BatchesOf
      <4> QED BY <3>4, <4>2 DEF Planned, Landed, AllTaken
    <3>5. sequence' \in Nat /\ sequence <= sequence' /\ OrderFor(g) < sequence'
      BY <1>2, <2>3, <3>3 DEF ClaimOrder, OrderFor
    <3>6. ASSUME NEW h \in Groups PROVE Below(h, sequence)'
      <4>1. Below(h, sequence')
        BY <1>1, <1>2, <3>1, <3>5 DEF Below, Types, SpoolFiles, BatchesOf
      <4>2. PICK n \in Nat : n = sequence'
        BY <3>5
      <4>3. Below(h, n)'
        BY <3>2, <3>5, <4>1, <4>2
      <4> QED BY <4>2, <4>3 DEF Below
    <3>7. ASSUME NEW p \in before PROVE AllTaken(p[2])' \/ Below(p[2], p[1])'
      <4>1. CASE AllTaken(p[2])
        BY <1>2, <1>3, <4>1
      <4>2. CASE ~AllTaken(p[2])
        <5>1. Below(p[2], p[1]) /\ (p[2] = g => manifest[g] # 0)
          BY <1>2, <3>4, <4>2
        <5> QED BY <1>2, <3>2, <3>3, <5>1
      <4> QED BY <4>1, <4>2
    <3>8. ASSUME NEW p \in before', p \notin before
          PROVE  /\ p[1] = sequence /\ sequence < sequence' /\ p[2] \in queued \ {g}
                 /\ Below(p[2], p[1])'
      <4>1. p \in {sequence} \X (queued \ {g}) /\ sequence' = sequence + 1
        BY <2>3, <3>8 DEF ClaimOrder
      <4>2. p[1] = sequence /\ p[2] \in queued \ {g} /\ p[2] \in Groups
        BY <1>1, <4>1 DEF Types
      <4> QED BY <1>2, <3>2, <4>1, <4>2
    <3>9. \A p \in before' : /\ p[1] < sequence' /\ p[2] \in queued'
                             /\ AllTaken(p[2])' \/ Below(p[2], p[1])'
      <4>1. ASSUME NEW p \in before PROVE p[1] < sequence' /\ p[2] \in queued'
        BY <1>2, <2>1, <3>5
      <4> QED BY <1>2, <2>1, <3>7, <3>8, <4>1
    <3> QED BY <3>6, <3>9 DEF Ranked
  <2> QED BY <2>1, <2>2, <2>3
<1>6. ASSUME (\E c \in Batches : BackoffEnds(c)) \/ PauseEnds \/ WeekPasses PROVE Ranked'
  <2>1. UNCHANGED <<sequence, before, queued, staged, manifest, tmp, stamp, server>>
    BY <1>6 DEF BackoffEnds, PauseEnds, WeekPasses, batchFiles, spool, history
  <2> QED BY <1>2, <2>1 DEF Ranked, Below, GroupOf, AllTaken, BatchesOf, Batches
<1> QED BY <1>4, <1>5, <1>6 DEF NextOutbox, DrainSteps

\* What a step does to the snapshot of the drain that takes it.
LEMMA ViewStep ==
  ASSUME Types, Answered, NEW d \in Drains, DrainSteps(d), ~Snapshot(d)
  PROVE  \/ drain'[d] = Idle
         \/ /\ drain'[d].view = drain[d].view /\ drain'[d].pend \subseteq drain[d].pend
            /\ drain'[d].pc = "send" => Ready(drain[d].view, Item(d)')
         \/ \E state \in {"done", "pending", "failed"} :
              /\ NextItemKnowing(d, state) /\ Item(d) \in drain[d].pend
              /\ state = "done" => Item(d) \in server
              /\ state = "failed" => "failed" \in place'[Item(d)]
<1>1. drain \in [Drains -> Locals] /\ drain[d] \in Locals /\ place \in [Batches -> SUBSET Places]
  BY DEF Types
<1> DEFINE Same == /\ drain'[d].view = drain[d].view /\ drain'[d].pend \subseteq drain[d].pend
                   /\ drain'[d].pc # "send"
<1>2. ASSUME NextGroup(d) \/ BlocksConversation(d) \/ NextItem(d) PROVE Same
  BY <1>1, <1>2 DEF NextGroup, BlocksConversation, NextItem, Locals
<1>3. ASSUME Quits(d) PROVE drain'[d] = Idle
  BY <1>1, <1>3 DEF Quits
<1>4. CASE Recover(d)
  <2>1. drain[d].pc = "off" /\ (drain' = drain \/ drain' = [drain EXCEPT ![d].pc = "list"])
    BY <1>4 DEF Recover, TakesLock
  <2> QED BY <1>1, <2>1 DEF Locals
<1>5. CASE List(d)
  BY <1>1, <1>5 DEF List, Locals
<1>6. CASE Plan(d)
  <2>1. \/ NextGroup(d) \/ Quits(d) \/ BlocksConversation(d)
        \/ drain' = [drain EXCEPT ![d].pc = "fill", ![d].missing = MissingOf(Group(d))]
    BY <1>6 DEF Plan
  <2> QED BY <1>1, <1>2, <1>3, <2>1 DEF Locals
<1>7. CASE Fill(d) \/ Retire(d)
  <2>1. \/ NextGroup(d) \/ Quits(d) \/ BlocksConversation(d)
        \/ drain[d].pc = "fill" /\ drain' = [drain EXCEPT ![d].missing = @ \ {FirstMissing(d)}]
    BY <1>7 DEF Fill, Retire
  <2> QED BY <1>1, <1>2, <1>3, <2>1 DEF Locals
<1>8. CASE Skip(d) \/ Finish(d) \/ Dies(d) \/ Stall(d)
  BY <1>2, <1>3, <1>8 DEF Skip, Finish, Dies, Killed, KilledAccepting, MaterializeKilled, Stall
<1>9. CASE Claim(d)
  <2>1. CASE NextItem(d)
    BY <1>2, <2>1
  <2>2. CASE drain' = [drain EXCEPT ![d].pc = "send"]
    <3>1. drain'[d].view = drain[d].view /\ drain'[d].pend = drain[d].pend
      BY <1>1, <2>2 DEF Locals
    <3>2. Item(d)' = Item(d)
      BY <3>1 DEF Item
    <3> QED BY <1>9, <3>1, <3>2 DEF Claim
  <2> QED BY <1>9, <2>1, <2>2 DEF Claim
<1>10. CASE Send(d)
  <2>1. PICK answer \in Answers, taken \in BOOLEAN : Sent(d, answer, taken)
    BY <1>10, SendIs
  <2> QED BY <1>1, <2>1 DEF Sent, Locals
<1>11. CASE SettleAccepted(d)
  <2>1. CASE Quits(d)
    BY <1>3, <2>1
  <2>2. CASE NextItemKnowing(d, "done")
    <3>1. drain[d].pc = "settle" /\ drain[d].answer = "accepted" /\ drain[d].pend # {}
      BY <1>11 DEF SettleAccepted, Settles, Delivering
    <3>2. Item(d) \in server /\ Item(d) \in drain[d].pend
      BY <3>1, ItemIn DEF Answered
    <3> QED BY <2>2, <3>2
  <2> QED BY <1>11, <2>1, <2>2 DEF SettleAccepted
<1>12. CASE Settle(d) /\ ~SettleAccepted(d)
  <2>1. PICK dir \in {"pending", "failed"}, due \in BOOLEAN, last \in BOOLEAN : MovesBack(d, dir, due, last)
    BY <1>12, SettleIs
  <2>2. Item(d) \in drain[d].pend /\ Item(d) \in Batches
    BY <1>12, SettleIs, ItemIn DEF Settles, Delivering
  <2>3. CASE Quits(d)
    BY <1>3, <2>3
  <2>4. CASE ~Quits(d)
    <3>1. /\ NextItemKnowing(d, dir)
          /\ place' = [place EXCEPT ![Item(d)] = (@ \ {"inflight"}) \union {dir}]
      BY <2>1, <2>4 DEF MovesBack
    <3>2. dir \in place'[Item(d)]
      BY <1>1, <2>2, <3>1
    <3> QED BY <2>2, <3>1, <3>2
  <2> QED BY <2>3, <2>4
<1> QED BY <1>4, <1>5, <1>6, <1>7, <1>8, <1>9, <1>10, <1>11, <1>12 DEF DrainSteps, Advance, Materialize

\* Whatever the others do, what was true of a snapshot stays true.
LEMMA FactsStay ==
  ASSUME KeepInv, Ranked, NextOutbox
  PROVE  /\ server \subseteq server' /\ sequence <= sequence' /\ sequence' \in Nat
         /\ \A b \in Batches : "failed" \in place[b] => "failed" \in place'[b]
         /\ \A b \in Batches, n \in Nat :
              b \in server \/ (place[b] \intersect RawPlaces # {} /\ stamp[b] = n)
                => b \in server' \/ (place'[b] \intersect RawPlaces # {} /\ stamp'[b] = n)
         /\ \A p \in before' : p \in before \/ p[1] = sequence
<1>1. Types /\ Answered /\ Taken /\ Expanding /\ Held
  BY DEF KeepInv
<1>2. server \subseteq server' /\ \A b \in Batches : Landed(b) => Landed(b)'
  BY <1>1, StepSafely DEF Safely
<1>3. \A b \in Batches : place[b] \intersect RawPlaces # {} => stamp'[b] = stamp[b]
  BY <1>1, StampStands
<1>4. sequence <= sequence' /\ sequence' \in Nat /\ \A p \in before' : p \in before \/ p[1] = sequence
  <2>1. sequence \in Nat
    BY <1>1 DEF Types
  <2>2. CASE UNCHANGED <<sequence, before>>
    BY <2>1, <2>2
  <2>3. ASSUME NEW g \in Groups, SessionEnd(g) \/ SessionEndKilled(g)
        PROVE  UNCHANGED <<sequence, before>> \/ ClaimOrder(g)
    BY <1>1, <2>3, EndStep
  <2>4. ASSUME NEW g \in Groups, ClaimOrder(g)
        PROVE  sequence <= sequence' /\ sequence' \in Nat /\ \A p \in before' : p \in before \/ p[1] = sequence
    BY <2>1, <2>4 DEF ClaimOrder
  <2> QED BY <1>1, <2>2, <2>3, <2>4, HistoryStands
<1>5. \A b \in Batches : "failed" \in place[b] => "failed" \in place'[b]
  BY <1>1, FailureStands
<1> QED BY <1>2, <1>3, <1>4, <1>5 DEF Landed

LEMMA TrustStays ==
  ASSUME KeepInv, Ranked, NextOutbox, NEW d \in Drains, Trusted(d),
         drain'[d].view = drain[d].view, drain'[d].pend \subseteq drain[d].pend,
         drain'[d].pc = "send" => Ready(drain[d].view, Item(d)')
  PROVE  Trusted(d)'
<1>1. /\ server \subseteq server' /\ sequence <= sequence' /\ sequence' \in Nat /\ sequence \in Nat
      /\ \A b \in Batches : "failed" \in place[b] => "failed" \in place'[b]
      /\ \A b \in Batches, n \in Nat :
           b \in server \/ (place[b] \intersect RawPlaces # {} /\ stamp[b] = n)
             => b \in server' \/ (place'[b] \intersect RawPlaces # {} /\ stamp'[b] = n)
      /\ \A p \in before' : p \in before \/ p[1] = sequence
  BY FactsStay DEF KeepInv, Types
<1> DEFINE v == drain[d].view
<1>2. v \in Views /\ drain[d].pend \subseteq Batches
  BY DEF KeepInv, Types, Locals
<1>3. ASSUME NEW b \in drain'[d].pend
      PROVE  /\ v.place[b] # {}
             /\ v.stamp[b] < sequence'
             /\ b \in server' \/ (place'[b] \intersect RawPlaces # {} /\ stamp'[b] = v.stamp[b])
             /\ \A p \in before' : p[1] = v.stamp[b] => AllTaken(p[2])' \/ ShownBelow(v, p[2], p[1])'
  <2>1. b \in drain[d].pend /\ b \in Batches /\ v.stamp[b] \in Nat
    BY <1>2, <1>3 DEF Views
  <2>2. /\ v.place[b] # {}
        /\ v.stamp[b] < sequence
        /\ b \in server \/ (place[b] \intersect RawPlaces # {} /\ stamp[b] = v.stamp[b])
        /\ \A p \in before : p[1] = v.stamp[b] => AllTaken(p[2]) \/ ShownBelow(v, p[2], p[1])
    BY <2>1 DEF Trusted
  <2>3. ASSUME NEW p \in before', p[1] = v.stamp[b]
        PROVE  AllTaken(p[2])' \/ ShownBelow(v, p[2], p[1])'
    <3>1. p \in before
      BY <1>1, <2>1, <2>2, <2>3
    <3>2. AllTaken(p[2]) \/ ShownBelow(v, p[2], p[1])
      BY <2>2, <2>3, <3>1
    <3>3. PICK g, n : g = p[2] /\ n = p[1]
      OBVIOUS
    <3>4. PICK w : w = v
      OBVIOUS
    <3>5. AllTaken(g) => AllTaken(g)'
      BY <1>1 DEF AllTaken, BatchesOf, Batches
    <3>6. ShownBelow(w, g, n) => ShownBelow(w, g, n)'
      BY <1>1 DEF ShownBelow, BatchesOf, Batches
    <3> QED BY <3>2, <3>3, <3>4, <3>5, <3>6
  <2> QED BY <1>1, <2>1, <2>2, <2>3
<1> QED BY <1>1, <1>3 DEF Trusted

\* A drain that has just taken its snapshot, or that has none.
LEMMA SnapshotTrusted ==
  ASSUME KeepInv, Ranked, NextOutbox, NEW d \in Drains, Snapshot(d)
  PROVE  Trusted(d)'
<1>1. Types /\ Taken /\ Held
  BY DEF KeepInv
<1>2. UNCHANGED <<place, stamp, staged, server, before, queued, sequence>>
  BY DEF Snapshot, batchFiles, spool, history
<1> DEFINE P == {b \in Batches : "pending" \in place[b]}
<1>3. drain'[d].view = View /\ drain'[d].pend = P /\ drain'[d].pc = "deliver"
  <2>1. drain \in [Drains -> Locals] /\ drain[d] \in Locals
    BY <1>1 DEF Types
  <2> HIDE DEF P
  <2>2. drain' = [drain EXCEPT ![d].pc = "deliver", ![d].view = View, ![d].blocked = {}, ![d].pend = P]
    BY DEF Snapshot, P
  <2> QED BY <2>1, <2>2 DEF Locals
<1>4. View.place = place /\ View.stamp = stamp /\ View.staged = staged
  BY DEF View
<1>5. ASSUME NEW b \in P, NEW p \in before, p[1] = stamp[b]
      PROVE  AllTaken(p[2]) \/ ShownBelow(View, p[2], p[1])
  <2>1. AllTaken(p[2]) \/ Below(p[2], p[1])
    BY DEF Ranked
  <2>2. p[2] \in queued
    BY DEF Ranked
  <2>3. staged[p[2]] # 0 \/ \A c \in BatchesOf(p[2]) : Landed(c)
    BY <1>1, <2>2 DEF Held, Kept
  <2>4. \A c : Landed(c) => c \in server \/ place[c] # {}
    BY DEF Landed
  <2> QED BY <1>4, <2>1, <2>3, <2>4 DEF Below, ShownBelow
<1>6. ASSUME NEW b \in P
      PROVE  /\ place[b] # {} /\ stamp[b] < sequence /\ place[b] \intersect RawPlaces # {}
  <2>1. b \in Batches /\ "pending" \in place[b] /\ b[1] \in Groups /\ b \in BatchesOf(b[1])
    BY BatchOf
  <2> QED BY <2>1 DEF Ranked, Below, RawPlaces
<1>7. \A b \in P : \A p \in before :
         p[1] = stamp[b] => AllTaken(p[2])' \/ ShownBelow(View, p[2], p[1])
  BY <1>2, <1>5 DEF AllTaken, BatchesOf, Batches
<1>8. PICK w : w = View
  OBVIOUS
<1>9. ASSUME NEW p \in before, ShownBelow(w, p[2], p[1]) PROVE ShownBelow(w, p[2], p[1])'
  BY <1>2, <1>9 DEF ShownBelow, BatchesOf, Batches
<1>10. \A b \in Batches : place[b] \intersect {"accepted", "done"} # {} => b \in server
  BY <1>1 DEF Taken
<1> HIDE DEF P
<1>11. \A b \in P : /\ w.place[b] # {} /\ w.stamp[b] < sequence'
                    /\ place'[b] \intersect RawPlaces # {} /\ stamp'[b] = w.stamp[b]
                    /\ \A p \in before' : p[1] = w.stamp[b] =>
                         AllTaken(p[2])' \/ ShownBelow(w, p[2], p[1])'
  BY <1>2, <1>4, <1>6, <1>7, <1>8, <1>9
<1>12. /\ \A b \in Batches : w.place[b] \intersect {"accepted", "done"} # {} => b \in server'
       /\ \A b \in Batches : "failed" \in w.place[b] => "failed" \in place'[b]
  BY <1>2, <1>4, <1>8, <1>10
<1> QED BY <1>3, <1>8, <1>11, <1>12 DEF Trusted, Batches

LEMMA IdleTrusted ==
  ASSUME NEW d \in Drains, drain'[d] = Idle
  PROVE  Trusted(d)'
<1>1. /\ \A b \in Batches : drain'[d].view.place[b] = {}
      /\ drain'[d].pend = {} /\ drain'[d].pc = "off"
  BY DEF Idle, NothingSeen
<1> QED BY <1>1 DEF Trusted, Batches

\* The own outcomes of a drain are true as well.
LEMMA KnowingTrusted ==
  ASSUME KeepInv, Ranked, NextOutbox, NEW d \in Drains, Trusted(d),
         NEW state \in {"done", "pending", "failed"}, NextItemKnowing(d, state),
         Item(d) \in drain[d].pend,
         state = "done" => Item(d) \in server,
         state = "failed" => "failed" \in place'[Item(d)]
  PROVE  Trusted(d)'
<1>1. /\ server \subseteq server' /\ sequence <= sequence' /\ sequence' \in Nat /\ sequence \in Nat
      /\ \A b \in Batches : "failed" \in place[b] => "failed" \in place'[b]
      /\ \A b \in Batches, n \in Nat :
           b \in server \/ (place[b] \intersect RawPlaces # {} /\ stamp[b] = n)
             => b \in server' \/ (place'[b] \intersect RawPlaces # {} /\ stamp'[b] = n)
      /\ \A p \in before' : p \in before \/ p[1] = sequence
  BY FactsStay DEF KeepInv, Types
<1> DEFINE v == drain[d].view
<1>2. v \in Views /\ drain[d].pend \subseteq Batches
  BY DEF KeepInv, Types, Locals
<1>3. PICK i : i = Item(d)
  OBVIOUS
<1>4. PICK w : w = drain'[d].view
  OBVIOUS
<1>5. /\ drain'[d].pc = "deliver" /\ drain'[d].pend = drain[d].pend \ {i}
      /\ w = [v EXCEPT !.place = [v.place EXCEPT ![i] = {state}]]
  BY <1>3, <1>4, NextItemKnowingSets DEF KeepInv
<1>6. /\ w.stamp = v.stamp /\ w.staged = v.staged
      /\ \A b \in Batches : w.place[b] = v.place[b] \/ (b = i /\ w.place[b] = {state})
  BY <1>2, <1>5 DEF Views
<1>7. \A b \in Batches : w.place[b] \intersect {"accepted", "done"} # {} => b \in server'
  BY <1>1, <1>3, <1>6 DEF Trusted
<1>8. \A b \in Batches : "failed" \in w.place[b] => "failed" \in place'[b]
  BY <1>1, <1>3, <1>6 DEF Trusted
<1>9. ASSUME NEW b \in drain'[d].pend
      PROVE  /\ w.place[b] # {}
             /\ w.stamp[b] < sequence'
             /\ b \in server' \/ (place'[b] \intersect RawPlaces # {} /\ stamp'[b] = w.stamp[b])
             /\ \A p \in before' : p[1] = w.stamp[b] => AllTaken(p[2])' \/ ShownBelow(w, p[2], p[1])'
  <2>1. b \in drain[d].pend /\ b \in Batches /\ v.stamp[b] \in Nat
    BY <1>2, <1>5, <1>9 DEF Views
  <2>2. /\ v.place[b] # {}
        /\ v.stamp[b] < sequence
        /\ b \in server \/ (place[b] \intersect RawPlaces # {} /\ stamp[b] = v.stamp[b])
        /\ \A p \in before : p[1] = v.stamp[b] => AllTaken(p[2]) \/ ShownBelow(v, p[2], p[1])
    BY <2>1 DEF Trusted
  <2>3. ASSUME NEW p \in before', p[1] = v.stamp[b]
        PROVE  AllTaken(p[2])' \/ ShownBelow(w, p[2], p[1])'
    <3>1. p \in before
      BY <1>1, <2>1, <2>2, <2>3
    <3>2. AllTaken(p[2]) \/ ShownBelow(v, p[2], p[1])
      BY <2>2, <2>3, <3>1
    <3>3. PICK g, n : g = p[2] /\ n = p[1]
      OBVIOUS
    <3>4. PICK u : u = v
      OBVIOUS
    <3>5. AllTaken(g) => AllTaken(g)'
      BY <1>1 DEF AllTaken, BatchesOf, Batches
    <3>6. ShownBelow(u, g, n) => ShownBelow(w, g, n)
      BY <1>6, <3>4 DEF ShownBelow, BatchesOf
    <3>7. ShownBelow(w, g, n) => ShownBelow(w, g, n)'
      BY <1>1 DEF ShownBelow, BatchesOf, Batches
    <3> QED BY <3>2, <3>3, <3>4, <3>5, <3>6, <3>7
  <2> QED BY <1>1, <1>6, <2>1, <2>2, <2>3
<1> QED BY <1>4, <1>5, <1>7, <1>8, <1>9 DEF Trusted, Batches

LEMMA TrustedKept ==
  ASSUME KeepInv, Ranked, NextOutbox, NEW d \in Drains, Trusted(d)
  PROVE  Trusted(d)'
<1>1. Types /\ Answered
  BY DEF KeepInv
<1>2. CASE drain'[d] = drain[d]
  <2>1. Item(d)' = Item(d)
    BY <1>2, LocalsOf
  <2> QED BY <1>2, <2>1, TrustStays DEF Trusted
<1>3. CASE DrainSteps(d) /\ ~Snapshot(d)
  <2>1. \/ drain'[d] = Idle
        \/ /\ drain'[d].view = drain[d].view /\ drain'[d].pend \subseteq drain[d].pend
           /\ drain'[d].pc = "send" => Ready(drain[d].view, Item(d)')
        \/ \E state \in {"done", "pending", "failed"} :
              /\ NextItemKnowing(d, state) /\ Item(d) \in drain[d].pend
              /\ state = "done" => Item(d) \in server
              /\ state = "failed" => "failed" \in place'[Item(d)]
    BY <1>1, <1>3, ViewStep
  <2> QED BY <2>1, IdleTrusted, TrustStays, KnowingTrusted
<1>4. CASE Snapshot(d)
  BY <1>4, SnapshotTrusted
<1> QED BY <1>1, <1>2, <1>3, <1>4, OthersStand, DrainsStand

LEMMA OrderInvKept == OutboxSpec => []OrderInv
<1>1. InitOutbox => Anchored /\ Planned /\ Ranked /\ (\A d \in Drains : Trusted(d))
  <2> SUFFICES ASSUME InitOutbox
               PROVE  Anchored /\ Planned /\ Ranked /\ (\A d \in Drains : Trusted(d))
    OBVIOUS
  <2>1. /\ \A d \in Drains : drain[d] = Idle
        /\ \A g \in Groups : staged[g] = 0 /\ manifest[g] = 0
        /\ \A b \in Batches : place[b] = {} /\ stamp[b] = 0
        /\ tmp = {} /\ before = {} /\ sequence = 1
    BY DEF InitOutbox
  <2>2. Anchored /\ Planned
    BY <2>1 DEF Anchored, Planned, Idle
  <2>3. Ranked
    BY <2>1 DEF Ranked, Below, BatchesOf
  <2>4. \A d \in Drains : Trusted(d)
    BY <2>1 DEF Trusted, Idle, NothingSeen
  <2> QED BY <2>2, <2>3, <2>4
<1>2. KeepInv /\ Anchored /\ Planned /\ Ranked /\ (\A d \in Drains : Trusted(d)) /\ [NextOutbox]_vars
        => Anchored' /\ Planned' /\ Ranked' /\ (\A d \in Drains : Trusted(d))'
  <2> SUFFICES ASSUME KeepInv, Anchored, Planned, Ranked, \A d \in Drains : Trusted(d), [NextOutbox]_vars
               PROVE  Anchored' /\ Planned' /\ Ranked' /\ (\A d \in Drains : Trusted(d))'
    OBVIOUS
  <2>1. CASE NextOutbox
    BY <2>1, AnchoredKept, PlannedKept, RankedKept, TrustedKept
  <2>2. CASE UNCHANGED vars
    <3>1. UNCHANGED <<sequence, staged, manifest, tmp, place, stamp, drain, server, queued, before>>
      BY <2>2 DEF vars, spool, batchFiles, history
    <3>2. Anchored' /\ Planned'
      BY <3>1, LocalsOf DEF Anchored, Planned, Kept, Landed, AllTaken, BatchesOf, Batches
    <3>3. Ranked'
      BY <3>1 DEF Ranked, Below, GroupOf, AllTaken, BatchesOf, Batches
    <3>4. \A d \in Drains : Trusted(d)'
      BY <3>1 DEF Trusted, ShownBelow, AllTaken, Item
    <3> QED BY <3>2, <3>3, <3>4
  <2> QED BY <2>1, <2>2
<1> QED BY <1>1, <1>2, KeepInvKept, PTL DEF OutboxSpec, OrderInv

LEMMA AtMostOne ==
  ASSUME NEW S, IsFiniteSet(S), ~(Cardinality(S) > 1), NEW x \in S, NEW y \in S
  PROVE  x = y
<1> SUFFICES ASSUME x # y PROVE FALSE
  OBVIOUS
<1>1. IsFiniteSet({x}) /\ Cardinality({x}) = 1
  BY FS_Singleton
<1>2. IsFiniteSet({x} \union {y}) /\ Cardinality({x} \union {y}) = 2
  <2> DEFINE X == {x}
  <2>1. y \notin X
    OBVIOUS
  <2>2. IsFiniteSet(X) /\ Cardinality(X) = 1
    BY <1>1
  <2> HIDE DEF X
  <2>3. Cardinality(X \union {y}) = Cardinality(X) + 1
    BY <2>1, <2>2, FS_AddElement
  <2>4. IsFiniteSet(X \union {y}) /\ Cardinality(X \union {y}) = 2
    BY <2>2, <2>3, FS_AddElement
  <2> QED BY <2>4 DEF X
<1>3. {x} \union {y} \in SUBSET S
  OBVIOUS
<1>4. Cardinality({x} \union {y}) <= Cardinality(S) /\ Cardinality(S) \in Nat
  BY <1>3, FS_Subset, FS_CardinalityType
<1> QED BY <1>2, <1>4

LEMMA OrdersFinite ==
  ASSUME NEW v \in Views, NEW g \in Groups
  PROVE  IsFiniteSet(OrdersIn(v, g))
<1> DEFINE I == 1..Size[g]
           f == [i \in I |-> v.stamp[<<g, i>>]]
           T == {f[i] : i \in I}
<1>1. IsFiniteSet(I)
  BY OutboxConstants, FS_Interval
<1>2. f \in Surjection(I, T)
  BY DEF Surjection
<1>3. IsFiniteSet(T)
  <2> HIDE DEF f, T, I
  <2> QED BY <1>1, <1>2, FS_Surjection
<1>4. IsFiniteSet(T \union {v.staged[g]})
  <2> HIDE DEF T
  <2> QED BY <1>3, FS_AddElement
<1>5. ASSUME NEW b \in BatchesOf(g) PROVE v.stamp[b] \in T
  <2>1. PICK i \in I : b = <<g, i>>
    BY DEF BatchesOf, Batches
  <2> QED BY <2>1
<1>6. OrdersIn(v, g) \subseteq T \union {v.staged[g]}
  <2> HIDE DEF T
  <2> QED BY <1>5 DEF OrdersIn
<1>7. OrdersIn(v, g) \in SUBSET (T \union {v.staged[g]})
  BY <1>6
<1> HIDE DEF T
<1> QED BY <1>4, <1>7, FS_Subset

\* A consistent group has the order that any of its files carries.
LEMMA OrderOf ==
  ASSUME NEW v \in Views, NEW b \in Batches, ~Inconsistent(v, b[1]), v.place[b] # {}
  PROVE  OrderIn(v, b[1]) = v.stamp[b]
<1>1. PICK g : g = b[1]
  OBVIOUS
<1>2. g \in Groups /\ b \in BatchesOf(g)
  BY <1>1, BatchOf
<1>3. IsFiniteSet(OrdersIn(v, g)) /\ ~(Cardinality(OrdersIn(v, g)) > 1)
  BY <1>1, <1>2, OrdersFinite DEF Inconsistent
<1>4. \A c \in BatchesOf(g) : v.place[c] # {} => v.stamp[c] = v.stamp[b]
  <2>1. \A c \in BatchesOf(g) : v.place[c] # {} => v.stamp[c] \in OrdersIn(v, g)
    BY DEF OrdersIn
  <2> HIDE <1>1
  <2> QED BY <1>2, <1>3, <2>1, AtMostOne
<1> DEFINE settled == {c \in BatchesOf(g) : v.place[c] \intersect {"accepted", "done"} # {}}
           raw == {c \in BatchesOf(g) : v.place[c] # {}}
<1>5. OrderIn(v, g) = IF settled # {} THEN v.stamp[CHOOSE c \in settled : TRUE]
                      ELSE IF raw # {} THEN v.stamp[CHOOSE c \in raw : TRUE]
                      ELSE v.staged[g]
  BY DEF OrderIn
<1>6. b \in raw
  BY <1>2
<1>7. settled # {} => (CHOOSE c \in settled : TRUE) \in settled
  OBVIOUS
<1>8. (CHOOSE c \in raw : TRUE) \in raw
  BY <1>6
<1>9. settled \subseteq raw /\ \A c \in raw : v.stamp[c] = v.stamp[b]
  BY <1>4
<1> HIDE DEF settled, raw
<1>10. OrderIn(v, g) = v.stamp[b]
  BY <1>5, <1>6, <1>7, <1>8, <1>9
<1> QED BY <1>1, <1>10

LEMMA OrderBelow ==
  ASSUME NEW v, NEW g \in Groups, NEW n \in Nat, ShownBelow(v, g, n)
  PROVE  OrderIn(v, g) < n
<1> DEFINE settled == {c \in BatchesOf(g) : v.place[c] \intersect {"accepted", "done"} # {}}
           raw == {c \in BatchesOf(g) : v.place[c] # {}}
<1>1. OrderIn(v, g) = IF settled # {} THEN v.stamp[CHOOSE c \in settled : TRUE]
                      ELSE IF raw # {} THEN v.stamp[CHOOSE c \in raw : TRUE]
                      ELSE v.staged[g]
  BY DEF OrderIn
<1>2. settled # {} => (CHOOSE c \in settled : TRUE) \in BatchesOf(g)
  OBVIOUS
<1>3. raw # {} => (CHOOSE c \in raw : TRUE) \in BatchesOf(g)
  OBVIOUS
<1> HIDE DEF settled, raw
<1> QED BY <1>1, <1>2, <1>3 DEF ShownBelow

\* A batch is new to the service by a request of a drain only.
LEMMA ServerStep ==
  ASSUME Types, NextOutbox, NEW b \in server', b \notin server
  PROVE  \E d \in Drains : drain[d].pc = "send" /\ drain[d].pend # {} /\ b = Item(d)
<1>1. ASSUME NEW d \in Drains, Send(d)
      PROVE  drain[d].pc = "send" /\ drain[d].pend # {} /\ b = Item(d)
  BY <1>1, SendIs DEF Sent, Delivering
<1>2. ASSUME NEW d \in Drains, DrainSteps(d), ~Send(d) PROVE UNCHANGED server
  <2>1. CASE Recover(d) \/ Materialize(d)
    BY <2>1 DEF Recover, Materialize, List, Plan, Fill, Retire, history
  <2>2. CASE Snapshot(d) \/ Skip(d) \/ Claim(d) \/ Finish(d)
    BY <2>2 DEF Snapshot, Skip, Claim, Finish, history
  <2>3. CASE Stall(d) \/ Dies(d)
    BY <2>3 DEF Stall, Dies, Killed, KilledAccepting, MaterializeKilled, history
  <2>4. CASE SettleAccepted(d)
    BY <2>4 DEF SettleAccepted, history
  <2>5. CASE Settle(d) /\ ~SettleAccepted(d)
    BY <2>5, SettleIs DEF MovesBack, history
  <2> QED BY <1>2, <2>1, <2>2, <2>3, <2>4, <2>5 DEF DrainSteps, Advance
<1>3. CASE ~ \E d \in Drains : DrainSteps(d)
  BY <1>3, OutsideFiles
<1> QED BY <1>1, <1>2, <1>3

\* The service gets the batches of a session in order, and never a batch of a
\* session before every earlier queued session of its conversation is over: with
\* any number of kills, of locks taken from living drains, of expired files, of
\* refusals and lost answers.
THEOREM DeliveredInOrder == OutboxSpec => InOrder
<1> DEFINE Ordered ==
      \A b \in server' \ server :
         /\ \A c \in BatchesOf(b[1]) : c[2] < b[2] => c \in server
         /\ \A h \in Groups :
              <<stamp[b], h>> \in before /\ Conversation[h] = Conversation[b[1]] => Over(h)
<1>1. OrderInv /\ [NextOutbox]_vars => [Ordered]_vars
  <2> SUFFICES ASSUME OrderInv, NextOutbox, NEW b \in server', b \notin server
               PROVE  /\ \A c \in BatchesOf(b[1]) : c[2] < b[2] => c \in server
                      /\ \A h \in Groups :
                           <<stamp[b], h>> \in before /\ Conversation[h] = Conversation[b[1]] => Over(h)
    OBVIOUS
  <2>1. Types /\ Ranked /\ \A d \in Drains : Trusted(d)
    BY DEF OrderInv, KeepInv
  <2>2. PICK d \in Drains : drain[d].pc = "send" /\ drain[d].pend # {} /\ b = Item(d)
    BY <2>1, ServerStep
  <2>3. PICK v : v = drain[d].view
    OBVIOUS
  <2>4. v \in Views /\ b \in drain[d].pend /\ b \in Batches /\ b[1] \in Groups
        /\ b \in BatchesOf(b[1])
    BY <2>1, <2>2, <2>3, ItemIn, BatchOf DEF Types, Locals
  <2>5. /\ Ready(v, b)
        /\ v.place[b] # {}
        /\ place[b] \intersect RawPlaces # {} /\ stamp[b] = v.stamp[b]
        /\ \A p \in before : p[1] = v.stamp[b] => AllTaken(p[2]) \/ ShownBelow(v, p[2], p[1])
        /\ \A c \in Batches : v.place[c] \intersect {"accepted", "done"} # {} => c \in server
        /\ \A c \in Batches : "failed" \in v.place[c] => "failed" \in place[c]
    BY <2>1, <2>2, <2>3, <2>4 DEF Trusted
  <2>6. /\ ~Inconsistent(v, b[1])
        /\ \A c \in BatchesOf(b[1]) : c[2] < b[2] => StateIn(v, c) \in {"accepted", "done"}
        /\ Predecessors(v, b[1]) = {}
    BY <2>5 DEF Ready
  <2>7. ASSUME NEW c \in BatchesOf(b[1]), c[2] < b[2] PROVE c \in server
    <3>1. c \in Batches /\ StateIn(v, c) \in {"accepted", "done"}
      BY <2>6, <2>7 DEF BatchesOf
    <3>2. v.place[c] \intersect {"accepted", "done"} # {}
      BY <3>1 DEF StateIn
    <3> QED BY <2>5, <3>1, <3>2
  <2>8. ASSUME NEW h \in Groups, <<stamp[b], h>> \in before,
               Conversation[h] = Conversation[b[1]], ~Over(h)
        PROVE  FALSE
    <3>1. PICK n \in Nat : n = stamp[b]
      BY <2>1, <2>4 DEF Types
    <3>2. ~AllTaken(h) /\ ~Failed(h)
      BY <2>8 DEF Over, AllTaken
    <3>3. Below(h, n) /\ ShownBelow(v, h, n)
      BY <2>1, <2>5, <2>8, <3>1, <3>2 DEF Ranked
    <3>4. h # b[1]
      BY <2>4, <3>1, <3>3 DEF Below
    <3>5. OrderIn(v, h) < OrderIn(v, b[1])
      BY <2>4, <2>5, <2>6, <3>1, <3>3, OrderOf, OrderBelow
    <3>6. ~FailedIn(v, h)
      <4>1. ASSUME NEW c \in BatchesOf(h), StateIn(v, c) = "failed" PROVE FALSE
        <5>1. "failed" \in v.place[c] /\ c \in Batches
          BY <4>1 DEF StateIn, BatchesOf
        <5> QED BY <2>5, <3>2, <5>1 DEF Failed
      <4> QED BY <4>1 DEF FailedIn
    <3>7. PICK c \in BatchesOf(h) : c \notin server
      BY <3>2 DEF AllTaken
    <3>8. Nonterminal(v, h)
      <4>1. CASE v.staged[h] # 0
        BY <3>6, <4>1 DEF Nonterminal
      <4>2. CASE v.staged[h] = 0
        <5>1. v.place[c] # {} /\ c \in Batches
          BY <3>3, <3>7, <4>2 DEF ShownBelow, BatchesOf
        <5>2. v.place[c] \subseteq Places
          BY <2>4, <5>1 DEF Views
        <5>3. "accepted" \notin v.place[c] /\ "done" \notin v.place[c]
          BY <2>5, <3>7, <5>1
        <5>4. StateIn(v, c) # "failed"
          BY <3>6, <3>7 DEF FailedIn
        <5>5. StateIn(v, c) \in {"pending", "inflight"}
          BY <5>1, <5>2, <5>3, <5>4 DEF StateIn, Places
        <5> QED BY <3>6, <3>7, <5>5 DEF Nonterminal
      <4> QED BY <4>1, <4>2
    <3> QED BY <2>6, <2>8, <3>4, <3>5, <3>8 DEF Predecessors
  <2> QED BY <2>7, <2>8
<1> QED BY <1>1, OrderInvKept, PTL DEF OutboxSpec, InOrder
=============================================================================
