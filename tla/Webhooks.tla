------------------------------ MODULE Webhooks ------------------------------
(***************************************************************************)
(* The webhook outbox (pipeline/webhooks.js).  emitWebhookEvent inserts    *)
(* one row of webhook_deliveries per subscribed hook, under an id derived  *)
(* from the event, and dispatches it at once: a conditional UPDATE claims  *)
(* the row and a task that outlives the request (waitUntil) makes up to    *)
(* three attempts.  The cron reclaims rows whose task died, expires rows   *)
(* older than a day, fails rows whose hook is gone and dispatches what is  *)
(* pending.  Every database call is an await: isolates die between two of  *)
(* them, and an answer may be lost after the statement took effect.        *)
(*                                                                         *)
(* Abstracted: payloads and signatures, URL checks (a hook's URL is fine), *)
(* the response code, the row limit of one cron run.                       *)
(***************************************************************************)
EXTENDS Naturals, FiniteSets

CONSTANTS
    Events,         \* events with a stable id
    Hooks,          \* hooks subscribed to them, in the order queries return them
    Workers,        \* slots of the delivery tasks alive at once, 1..n
    Attempts,       \* ATTEMPTS, 3 in the code
    MaxEmits,       \* bound: how often one event is emitted (its work is retried)
    MaxFaults,      \* bound: isolates that die, database answers lost
    MaxUpsets       \* bound: hooks deleted, accounts ended, days passed

ASSUME WebhookConstants ==
    /\ Attempts \in Nat \ {0}
    /\ Workers \subseteq Nat /\ Hooks \subseteq Nat
    /\ {MaxEmits, MaxFaults, MaxUpsets} \subseteq Nat

VARIABLES
    hooks,      \* hooks that exist and are active
    alive,      \* the account (or project) they belong to is active
    row,        \* [Rows -> status], "none" before the INSERT
    quiet,      \* rows not updated for two minutes
    aged,       \* rows created more than a day ago
    emit,       \* [Events -> the emission in progress]
    worker,     \* [Workers -> a delivery task]
    cron,       \* the sweep in progress: step and rows it selected
    announced,  \* events an emission of which ran to its end
    emits, deaths, lost, upsets     \* what the bounds count

vars == <<hooks, alive, row, quiet, aged, emit, worker, cron,
          announced, emits, deaths, lost, upsets>>
world == <<hooks, alive, aged, upsets>>
others == <<world, announced>>
counters == <<emits, deaths, lost>>

Rows == Events \X Hooks
Statuses == {"none", "pending", "dispatching", "delivered", "failed"}
Terminal == {"delivered", "failed"}
NoTask == [pc |-> "off", row |-> <<>>, attempt |-> 0]
NoEmission == [pc |-> "off", todo |-> {}]

InitWebhooks ==
    /\ hooks = Hooks
    /\ alive = TRUE
    /\ row = [r \in Rows |-> "none"]
    /\ quiet = {}
    /\ aged = {}
    /\ emit = [e \in Events |-> NoEmission]
    /\ worker = [w \in Workers |-> NoTask]
    /\ cron = [step |-> "off", todo |-> {}]
    /\ announced = {}
    /\ upsets = 0
    /\ emits = [e \in Events |-> 0]
    /\ deaths = 0
    /\ lost = 0

----------------------------------------------------------------------------
(* Claiming a row, shared by the emission and the cron *)

\* UPDATE ... SET updated_at touches the row.
Writes(rows, status) ==
    /\ row' = [r \in Rows |-> IF r \in rows THEN status ELSE row[r]]
    /\ quiet' = quiet \ rows

ClaimableBlindly(r) == row[r] \in {"pending", "dispatching"}
Claimable(r) == row[r] = "pending"

\* dispatchPendingDelivery: at most one caller sees its UPDATE change the row.
Dispatches(r) ==
    \/ /\ Claimable(r)
       /\ Writes({r}, "dispatching")
       /\ \E w \in Workers :
            /\ worker[w].pc = "off"
            /\ \A v \in Workers : worker[v].pc = "off" => w <= v
            /\ worker' = [worker EXCEPT ![w] =
                            [pc |-> "try", row |-> r, attempt |-> 1]]
    \/ ~Claimable(r) /\ UNCHANGED <<row, quiet, worker>>

\* The answer of a statement is lost, or the statement was never run.
Loses == deaths + lost < MaxFaults /\ lost' = lost + 1

\* Then nobody delivers a claimed row until it has gone quiet.
DispatchFails(r) ==
    /\ Loses
    /\ \/ Claimable(r) /\ Writes({r}, "dispatching")
       \/ UNCHANGED <<row, quiet>>
    /\ UNCHANGED worker

----------------------------------------------------------------------------
(* emitWebhookEvent: strict callers run it again until it ends *)

EmitStarts(e) ==
    /\ emit[e].pc = "off"
    /\ emits[e] < MaxEmits
    /\ emits' = [emits EXCEPT ![e] = @ + 1]
    /\ emit' = [emit EXCEPT ![e] = [pc |-> "insert", todo |-> hooks]]
    /\ UNCHANGED <<others, row, quiet, worker, cron, deaths, lost>>

\* INSERT ... WHERE the hook is deliverable ON CONFLICT DO NOTHING; only a row
\* that this call inserted is dispatched by it.
Deliverable(h) == h \in hooks /\ alive
First(S, h) == h \in S /\ \A g \in S : h <= g
Inserts(e, h) ==
    /\ emit[e].pc = "insert" /\ First(emit[e].todo, h)
    /\ IF Deliverable(h) /\ row[<<e, h>>] = "none"
       THEN /\ Writes({<<e, h>>}, "pending")
            /\ emit' = [emit EXCEPT ![e] = [pc |-> "dispatch", todo |-> @.todo \ {h}, at |-> h]]
       ELSE /\ emit' = [emit EXCEPT ![e].todo = @ \ {h}]
            /\ UNCHANGED <<row, quiet>>
    /\ UNCHANGED <<others, worker, cron, counters>>

EmitDispatches(e) ==
    /\ emit[e].pc = "dispatch"
    /\ Dispatches(<<e, emit[e].at>>)
    /\ emit' = [emit EXCEPT ![e] = [pc |-> "insert", todo |-> @.todo]]
    /\ UNCHANGED <<others, cron, counters>>

\* A statement that fails ends the loop: the hooks that are left hear nothing.
AfterFailureGoesOn(e) ==
    [emit EXCEPT ![e] = [pc |-> "insert",
                         todo |-> {h \in @.todo : \E g \in @.todo : g < h}]]
AfterFailure(e) == [emit EXCEPT ![e] = NoEmission]
EmitBreaks(e) ==
    /\ \/ /\ emit[e].pc = "dispatch"
          /\ DispatchFails(<<e, emit[e].at>>)
       \/ /\ emit[e].pc = "insert"
          /\ Loses
          /\ \E h \in Hooks :
               /\ First(emit[e].todo, h)
               /\ \/ Deliverable(h) /\ row[<<e, h>>] = "none" /\ Writes({<<e, h>>}, "pending")
                  \/ UNCHANGED <<row, quiet>>
          /\ UNCHANGED worker
    /\ emit' = AfterFailure(e)
    /\ UNCHANGED <<others, cron, emits, deaths>>

EmitEnds(e) ==
    /\ emit[e].pc = "insert" /\ emit[e].todo = {}
    /\ emit' = [emit EXCEPT ![e] = NoEmission]
    /\ announced' = announced \cup {e}
    /\ UNCHANGED <<world, row, quiet, worker, cron, counters>>

----------------------------------------------------------------------------
(* deliver *)

Goes(w, pc) == worker' = [worker EXCEPT ![w].pc = pc]
Stops(w) == worker' = [worker EXCEPT ![w] = NoTask]
RowOf(w) == worker[w].row

\* The check right before connecting.
Tries(w) ==
    /\ worker[w].pc = "try"
    /\ Goes(w, IF Deliverable(RowOf(w)[2]) THEN "post" ELSE "fail")
    /\ UNCHANGED <<others, row, quiet, emit, cron, counters>>

\* The endpoint answers 2xx, redirects, or does anything else (a timeout may hide
\* that it has taken the delivery).
Posts(w) ==
    /\ worker[w].pc = "post"
    /\ \E answer \in {"ok", "fail", "retry"} : Goes(w, answer)
    /\ UNCHANGED <<others, row, quiet, emit, cron, counters>>

\* The verdict is written by id, whatever the row says by now.  A lost answer is
\* caught like a failed attempt.
RecordsDelivery(w) ==
    /\ worker[w].pc = "ok"
    /\ \/ Writes({RowOf(w)}, "delivered") /\ Stops(w) /\ UNCHANGED lost
       \/ /\ Loses
          /\ Goes(w, "retry")
          /\ \/ Writes({RowOf(w)}, "delivered")
             \/ UNCHANGED <<row, quiet>>
    /\ UNCHANGED <<others, emit, cron, emits, deaths>>

\* attempts, response_code and error of the row; then the next attempt or none.
RecordsAttempt(w) ==
    /\ worker[w].pc = "retry"
    /\ quiet' = quiet \ {RowOf(w)}
    /\ \/ /\ worker[w].attempt < Attempts
          /\ worker' = [worker EXCEPT ![w].pc = "try", ![w].attempt = @ + 1]
       \/ worker[w].attempt >= Attempts /\ Goes(w, "fail")
    /\ UNCHANGED <<others, row, emit, cron, counters>>

RecordsFailure(w) ==
    /\ worker[w].pc = "fail"
    /\ Writes({RowOf(w)}, "failed")
    /\ Stops(w)
    /\ UNCHANGED <<others, emit, cron, counters>>

----------------------------------------------------------------------------
(* retryPendingWebhookDeliveries, one statement at a time *)

CronStep(from, to) == cron.step = from /\ cron' = [cron EXCEPT !.step = to]

CronReclaimsAll ==
    /\ CronStep("off", "expire")
    /\ Writes({r \in Rows : row[r] = "dispatching"}, "pending")
    /\ UNCHANGED <<others, emit, worker, counters>>

CronReclaims ==
    /\ CronStep("off", "expire")
    /\ Writes({r \in quiet : row[r] = "dispatching"}, "pending")
    /\ UNCHANGED <<others, emit, worker, counters>>

CronExpiresAny ==
    /\ CronStep("expire", "bury")
    /\ Writes({r \in aged : row[r] # "failed"}, "failed")
    /\ UNCHANGED <<others, emit, worker, counters>>

CronExpires ==
    /\ CronStep("expire", "bury")
    /\ Writes({r \in aged : row[r] \in {"pending", "dispatching"}}, "failed")
    /\ UNCHANGED <<others, emit, worker, counters>>

CronBuriesNone ==
    /\ CronStep("bury", "select")
    /\ UNCHANGED <<others, row, quiet, emit, worker, counters>>

CronBuries ==
    /\ CronStep("bury", "select")
    /\ Writes({r \in Rows : row[r] = "pending" /\ r[2] \notin hooks}, "failed")
    /\ UNCHANGED <<others, emit, worker, counters>>

CronSelects ==
    /\ cron.step = "select"
    /\ cron' = [step |-> "dispatch",
                todo |-> {r \in Rows : row[r] = "pending" /\ r[2] \in hooks}]
    /\ UNCHANGED <<others, row, quiet, emit, worker, counters>>

\* ORDER BY created_at: the rows of one event in the order of its hooks.
Oldest(r) == r \in cron.todo /\ First({h \in Hooks : <<r[1], h>> \in cron.todo}, r[2])

CronDispatches(r) ==
    /\ cron.step = "dispatch" /\ Oldest(r)
    /\ Dispatches(r)
    /\ cron' = [cron EXCEPT !.todo = @ \ {r}]
    /\ UNCHANGED <<others, emit, counters>>

\* A dispatch that fails ends the run of the cron.
CronBreaks(r) ==
    /\ cron.step = "dispatch" /\ Oldest(r)
    /\ DispatchFails(r)
    /\ cron' = [step |-> "off", todo |-> {}]
    /\ UNCHANGED <<others, emit, emits, deaths>>

CronEnds ==
    /\ cron.step = "dispatch" /\ cron.todo = {}
    /\ CronStep("dispatch", "off")
    /\ UNCHANGED <<others, row, quiet, emit, worker, counters>>

----------------------------------------------------------------------------
(* The environment *)

Upsets == upsets < MaxUpsets /\ upsets' = upsets + 1
untouched == <<announced, row, quiet, emit, worker, cron, counters>>

\* deleteWebhook removes the row of the hook for good.
DeleteWebhook(h) ==
    /\ h \in hooks /\ Upsets
    /\ hooks' = hooks \ {h}
    /\ UNCHANGED <<alive, aged, untouched>>

AccountEnds ==
    /\ alive /\ Upsets
    /\ alive' = FALSE
    /\ UNCHANGED <<hooks, aged, untouched>>

\* Two minutes without a write.  A living task writes more often than that: an
\* attempt takes 25 seconds at most.
Quiets(r) ==
    /\ row[r] = "dispatching" /\ r \notin quiet
    /\ \A w \in Workers : worker[w].pc # "off" => RowOf(w) # r
    /\ quiet' = quiet \cup {r}
    /\ UNCHANGED <<others, row, emit, worker, cron, counters>>

DayPasses(r) ==
    /\ row[r] \in {"pending", "dispatching"} /\ r \notin aged
    /\ Upsets
    /\ aged' = aged \cup {r}
    /\ UNCHANGED <<hooks, alive, untouched>>

Dies ==
    /\ deaths + lost < MaxFaults
    /\ deaths' = deaths + 1
    /\ \/ \E w \in Workers :
            worker[w].pc # "off" /\ Stops(w) /\ UNCHANGED <<emit, cron>>
       \/ \E e \in Events :
            /\ emit[e].pc # "off"
            /\ emit' = [emit EXCEPT ![e] = NoEmission]
            /\ UNCHANGED <<worker, cron>>
       \/ /\ cron.step # "off"
          /\ cron' = [step |-> "off", todo |-> {}]
          /\ UNCHANGED <<worker, emit>>
    /\ UNCHANGED <<others, row, quiet, emits, lost>>

----------------------------------------------------------------------------
Emission(e) ==
    \/ EmitStarts(e) \/ EmitDispatches(e) \/ EmitBreaks(e) \/ EmitEnds(e)
    \/ \E h \in Hooks : Inserts(e, h)
Delivery(w) ==
    Tries(w) \/ Posts(w) \/ RecordsDelivery(w) \/ RecordsAttempt(w) \/ RecordsFailure(w)
Cron ==
    \/ CronReclaims \/ CronExpires \/ CronBuries \/ CronSelects \/ CronEnds
    \/ \E r \in Rows : CronDispatches(r) \/ CronBreaks(r)

NextWebhooks ==
    \/ \E e \in Events : Emission(e)
    \/ \E w \in Workers : Delivery(w)
    \/ Cron
    \/ \E h \in Hooks : DeleteWebhook(h)
    \/ AccountEnds
    \/ \E r \in Rows : Quiets(r) \/ DayPasses(r)
    \/ Dies

WebhookSpec == InitWebhooks /\ [][NextWebhooks]_vars

(* The cron keeps running, living tasks go on, and time passes over rows nobody
   works on. *)
FairWebhookSpec ==
    /\ WebhookSpec
    /\ WF_vars(Cron)
    /\ \A w \in Workers : WF_vars(Delivery(w))
    /\ \A e \in Events : WF_vars(Emission(e))
    /\ \A r \in Rows : WF_vars(Quiets(r))

----------------------------------------------------------------------------
(* Properties *)

Working(r) == {w \in Workers : worker[w].pc # "off" /\ RowOf(w) = r}

\* Types, and one living task per row however the emission, the cron and the
\* reclaim of dead tasks interleave: the endpoint is not called twice at once.
WebhookTypeOK ==
    /\ hooks \subseteq Hooks /\ alive \in BOOLEAN
    /\ row \in [Rows -> Statuses]
    /\ quiet \subseteq Rows /\ aged \subseteq Rows /\ announced \subseteq Events
    /\ \A w \in Workers : worker[w].attempt \in 0..Attempts
    /\ \A r \in Rows : Cardinality(Working(r)) <= 1

\* An endpoint that has taken a delivery is not called for it again, whatever is
\* emitted again, reclaimed or expired meanwhile: once the row says delivered, no
\* task is left that would call (a lost answer to the verdict itself apart).
NoCallOnceDelivered ==
    \A r \in Rows : row[r] = "delivered" /\ lost = 0 =>
        \A w \in Working(r) : worker[w].pc \notin {"try", "post"}

\* Once an emission has run to its end, every hook that is still there has a row:
\* no hook is passed over because the dispatch to another one failed, an isolate
\* died, or an earlier emission of the event was cut short.
EveryHookHears ==
    \A e \in announced, h \in Hooks : Deliverable(h) => row[<<e, h>>] # "none"

\* A recorded delivery stays one, however often the event is emitted again and
\* whatever the cron expires or buries (lost database answers apart).
DeliveryStands ==
    [][\A r \in Rows : row[r] = "delivered" /\ lost = 0 => row'[r] = "delivered"]_vars

\* Every delivery that was queued is delivered or failed in the end: not left
\* behind by a dead task, a deleted hook or an account that is gone.
EveryDeliveryEnds == \A r \in Rows : row[r] = "pending" ~> row[r] \in Terminal
=============================================================================
