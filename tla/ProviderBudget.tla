--------------------------- MODULE ProviderBudget ---------------------------
(***************************************************************************)
(* Admission and spend accounting for a metered AI provider                *)
(* (src/src/ai/provider_budget.js, called by src/src/ai/dispatch.js): one  *)
(* reservation row for each logical operation, the totals it is charged    *)
(* to, the circuit breaker with its half-open probe, and the two processes *)
(* that act behind a call's back, the reaper and a confirmed erasure.      *)
(*                                                                         *)
(* The daily unit ceiling and the monthly cost ceiling are one ledger: the *)
(* code moves both in the same batch under the same guard.  D1 runs a      *)
(* batch as one transaction, so a step is one batch.                       *)
(***************************************************************************)
EXTENDS Integers, FiniteSets, FiniteSetsExt

CONSTANTS
  Ops,          \* logical operations: stable reservation ids
  Callers,      \* executions of dispatchAi, a retry of the same op included
  Nobody,       \* no execution
  Estimate,     \* estimated_units * max_attempts of an operation
  Ceiling,      \* GOOGLE_DAILY_*, GOOGLE_MONTHLY_COST_MICROS
  LaterOps,     \* operations accepted after the erasure's barrier
  Days,         \* the last accounting day; days are 1 .. Days
  Trip,         \* failures that open the breaker: GENERIC_TRIP, BILLING_TRIP
  SlowCalls,    \* may a call outlast its reservation and probe lease?
  MaxEvents    \* bound: deaths, lost answers of D1, midnights, switches

ASSUME OpsAssumption ==
  IsFiniteSet(Ops) /\ Nobody \notin Callers /\ LaterOps \subseteq Ops
ASSUME EstimateAssumption == Estimate \in [Ops -> Nat]
ASSUME BoundAssumption ==
  /\ Ceiling \in Nat /\ Days \in Nat \ {0} /\ MaxEvents \in Nat
  /\ Trip \in Nat \ {0} /\ SlowCalls \in BOOLEAN

VARIABLES
  row,      \* ai_provider_reservations
  totals,   \* ai_provider_daily_totals and ai_provider_monthly_costs
  today,
  health,   \* ai_provider_health
  disabled, \* ai_provider_overrides.disabled
  fence,    \* a deletion barrier for the content of Ops \ LaterOps
  call,     \* where each execution stands
  reap,     \* the reservation the reaper has read
  events,
  billed,   \* history: what the provider charged
  invoked   \* history: how often an operation reached the provider

vars == <<row, totals, today, health, disabled, fence, call, reap, events, billed, invoked>>

Live == {"reserved", "invoking"}
Final == {"settled", "released", "ambiguous_charged"}

Reservation == [status  : {"none"} \union Live \union Final,
                attempt : Callers \union {Nobody},
                day     : 0 .. Days,
                actual  : Nat,
                expired : BOOLEAN,
                owned   : BOOLEAN]

NoReservation == [status |-> "none", attempt |-> Nobody, day |-> 0, actual |-> 0,
                  expired |-> FALSE, owned |-> FALSE]

Outcomes == {"settled", "unbilled", "ambiguous"}

Call == [pc      : {"start", "probe", "reserve", "mark", "release", "abandon", "invoke",
                    "finish", "record", "done"},
         op      : Ops \union {Nobody},
         gate    : {"none", "closed", "probe"},
         outcome : Outcomes \union {"none"},
         used    : Nat]

BudgetTypeOK ==
  /\ row \in [Ops -> Reservation]
  /\ totals \in [1 .. Days -> [used : Nat, reserved : Nat]]
  /\ today \in 1 .. Days
  /\ health \in [state   : {"closed", "open", "half_open"},
                 fails   : 0 .. Trip,
                 token   : Callers \union {Nobody},
                 over    : BOOLEAN]
  /\ disabled \in BOOLEAN
  /\ fence \in {"none", "armed", "clear"}
  /\ call \in [Callers -> Call]
  /\ reap \in [op : Ops, status : Live] \union {Nobody}
  /\ events \in 0 .. MaxEvents
  /\ billed \in [Ops -> Nat]
  /\ invoked \in [Ops -> Nat]

Closed == [state |-> "closed", fails |-> 0, token |-> Nobody, over |-> FALSE]

(* The breaker is shared with earlier traffic, which may have opened it.   *)
Opened == [Closed EXCEPT !.state = "open", !.fails = Trip]

Blank(pc) == [pc |-> pc, op |-> Nobody, gate |-> "none", outcome |-> "none", used |-> 0]

BudgetInit ==
  /\ row = [o \in Ops |-> NoReservation]
  /\ totals = [d \in 1 .. Days |-> [used |-> 0, reserved |-> 0]]
  /\ today = 1
  /\ health \in {Closed, Opened}
  /\ disabled = FALSE
  /\ fence = "none"
  /\ call = [c \in Callers |-> Blank("start")]
  /\ reap = Nobody
  /\ events = 0
  /\ billed = [o \in Ops |-> 0]
  /\ invoked = [o \in Ops |-> 0]

At(c, pc)   == call[c].pc = pc
Go(c, pc)   == call' = [call EXCEPT ![c] = IF pc = "done" THEN Blank(pc)
                                           ELSE [@ EXCEPT !.pc = pc]]
Mine(c)     == row[call[c].op].attempt = c
FirstRefusalStep(c) == IF call[c].gate = "probe" THEN "abandon" ELSE "done"

---------------------------------------------------------------------------
(* The circuit breaker (acquireBreakerGate, abandonProbe).                 *)

(* `over` says that the cooldown of an open breaker, or the lease of a     *)
(* half-open one, has run out.                                             *)
ProbeFree == health.state \in {"open", "half_open"} /\ health.over

GateRead(c) ==
  /\ At(c, "start")
  /\ \/ /\ disabled \/ (health.state # "closed" /\ ~ProbeFree)
        /\ Go(c, "done")
     \/ /\ ~disabled
        /\ health.state = "closed" \/ ProbeFree
        /\ \E o \in Ops :
             call' = [call EXCEPT ![c].op = o,
                                  ![c].pc = IF ProbeFree THEN "probe" ELSE "reserve",
                                  ![c].gate = IF ProbeFree THEN "none" ELSE "closed"]
  /\ UNCHANGED <<row, totals, today, health, disabled, fence, reap, events, billed, invoked>>

(* Mutant: the probe is taken on the strength of what was read before.     *)
ClaimProbeBlindly(c) ==
  /\ At(c, "probe")
  /\ health' = [health EXCEPT !.state = "half_open", !.token = c, !.over = FALSE]
  /\ call' = [call EXCEPT ![c].pc = "reserve", ![c].gate = "probe"]
  /\ UNCHANGED <<row, totals, today, disabled, fence, reap, events, billed, invoked>>

ClaimProbe(c) ==
  /\ At(c, "probe")
  /\ IF ProbeFree
     THEN /\ health' = [health EXCEPT !.state = "half_open", !.token = c, !.over = FALSE]
          /\ call' = [call EXCEPT ![c].pc = "reserve", ![c].gate = "probe"]
     ELSE Go(c, "done") /\ UNCHANGED health
  /\ UNCHANGED <<row, totals, today, disabled, fence, reap, events, billed, invoked>>

AbandonProbe(c) ==
  /\ At(c, "abandon")
  /\ health' = IF health.state = "half_open" /\ health.token = c
               THEN [health EXCEPT !.state = "open", !.token = Nobody, !.over = FALSE]
               ELSE health
  /\ Go(c, "done")
  /\ UNCHANGED <<row, totals, today, disabled, fence, reap, events, billed, invoked>>

(* healthGuardSql, and the WHERE of the reservation's INSERT.              *)
GateHolds(c) ==
  /\ ~disabled
  /\ IF call[c].gate = "probe" THEN health.state = "half_open" /\ health.token = c
                               ELSE health.state = "closed"

---------------------------------------------------------------------------
(* Reserve (reserveSpend): the INSERT, the totals and the ceiling are one  *)
(* batch; a ceiling that would be exceeded rolls all of it back.           *)

(* Mutant: the ceiling is compared with what has been used so far only.    *)
UsedFits(o) == totals[today].used + Estimate[o] <= Ceiling

Fits(o) == totals[today].used + totals[today].reserved + Estimate[o] <= Ceiling

(* Mutant: an operation that is over may be reserved again.                *)
NotLive(o) == row[o].status \notin Live

(* INSERT .. ON CONFLICT DO NOTHING: the id is spent for good.             *)
Unreserved(o) == row[o].status = "none"

Reserve(c) ==
  LET o == call[c].op
      wins == Unreserved(o) /\ GateHolds(c)
  IN /\ At(c, "reserve")
     /\ IF wins /\ Fits(o)
        THEN /\ row' = [row EXCEPT ![o] = [status |-> "reserved", attempt |-> c, day |-> today,
                                           actual |-> 0, expired |-> FALSE, owned |-> TRUE]]
             /\ totals' = [totals EXCEPT ![today].reserved = @ + Estimate[o]]
             /\ Go(c, "mark")
        ELSE Go(c, FirstRefusalStep(c)) /\ UNCHANGED <<row, totals>>
     /\ UNCHANGED <<today, health, disabled, fence, reap, events, billed, invoked>>

---------------------------------------------------------------------------
(* reserved -> invoking (markReservationInvoking): the last fence before   *)
(* content leaves.                                                         *)

(* Mutant: the lifecycle is not looked at again.                           *)
LifecycleIgnored(o) == TRUE

(* invocationLifecycleGuardSql: the row still names its tenant, and no     *)
(* barrier covers the time at which the content was accepted.              *)
LifecycleAllows(o) == row[o].owned /\ (o \in LaterOps \/ fence = "none")

MayInvoke(c) ==
  /\ row[call[c].op].status = "reserved" /\ Mine(c)
  /\ GateHolds(c)
  /\ LifecycleAllows(call[c].op)

Mark(c) ==
  /\ At(c, "mark")
  /\ IF MayInvoke(c)
     THEN /\ row' = [row EXCEPT ![call[c].op].status = "invoking", ![call[c].op].expired = FALSE]
          /\ invoked' = [invoked EXCEPT ![call[c].op] = @ + 1]
          /\ Go(c, "invoke")
     ELSE Go(c, "release") /\ UNCHANGED <<row, invoked>>
  /\ UNCHANGED <<totals, today, health, disabled, fence, reap, events, billed>>

(* The UPDATE fails, or takes effect and its answer is lost.               *)
MarkUnknown(c) ==
  /\ At(c, "mark")
  /\ events < MaxEvents
  /\ events' = events + 1
  /\ \/ UNCHANGED row
     \/ MayInvoke(c) /\ row' = [row EXCEPT ![call[c].op].status = "invoking"]
  /\ Go(c, "release")
  /\ UNCHANGED <<totals, today, health, disabled, fence, reap, billed, invoked>>

---------------------------------------------------------------------------
(* The terminal transitions (transitionReservation): one CAS on the status *)
(* and the attempt token, and the money moves only for its winner.         *)

(* Mutant: charged to the day on which it is settled.                      *)
MovedToday(t, o, used) == [t EXCEPT ![today].reserved = @ - Estimate[o],
                                    ![today].used = @ + used]

Moved(t, o, used) == [t EXCEPT ![row[o].day].reserved = @ - Estimate[o],
                               ![row[o].day].used = @ + used]

Finished(o, to, used) ==
  /\ row' = [row EXCEPT ![o].status = to, ![o].actual = used, ![o].expired = FALSE]
  /\ totals' = Moved(totals, o, used)

(* Mutant: the row's status is not compared.                               *)
AnyStatus(o, from) == row[o].status # "none"

InStatus(o, from) == row[o].status \in from

Transition(o, c, from, to, used) ==
  IF InStatus(o, from) /\ row[o].attempt = c
  THEN Finished(o, to, used)
  ELSE UNCHANGED <<row, totals>>

(* releaseReservation after a refused invocation.                          *)
Release(c) ==
  /\ At(c, "release")
  /\ Transition(call[c].op, c, Live, "released", 0)
  /\ Go(c, FirstRefusalStep(c))
  /\ UNCHANGED <<today, health, disabled, fence, reap, events, billed, invoked>>

(* The provider answers.  Usage that it reports is what it charges, a      *)
(* definite refusal is not charged, and of an unknown outcome anything may *)
(* have been charged, up to the estimate (one token a byte, the output     *)
(* limit, for every attempt).                                              *)
Charges(o, outcome) ==
  CASE outcome = "unbilled" -> {0}
    [] OTHER -> 0 .. Estimate[o]

Answer(c) ==
  /\ At(c, "invoke")
  /\ \E outcome \in Outcomes : \E charge \in Charges(call[c].op, outcome) :
       /\ call' = [call EXCEPT ![c].pc = "finish", ![c].outcome = outcome, ![c].used = charge]
       /\ billed' = [billed EXCEPT ![call[c].op] = @ + charge]
  /\ UNCHANGED <<row, totals, today, health, disabled, fence, reap, events, invoked>>

(* Mutant: an unknown outcome is charged nothing.                          *)
DispositionOptimistic(c) ==
  CASE call[c].outcome = "settled"   -> [from |-> {"invoking"}, to |-> "settled", used |-> call[c].used]
    [] OTHER                         -> [from |-> Live, to |-> "released", used |-> 0]

Disposition(c) ==
  CASE call[c].outcome = "settled"   -> [from |-> {"invoking"}, to |-> "settled", used |-> call[c].used]
    [] call[c].outcome = "ambiguous" -> [from |-> {"invoking"}, to |-> "ambiguous_charged",
                                         used |-> Estimate[call[c].op]]
    [] OTHER                         -> [from |-> Live, to |-> "released", used |-> 0]

(* finishProviderCall, first half.  A transition that somebody else made   *)
(* first leaves the breaker alone; a D1 failure does not.                  *)
Finish(c) ==
  LET o == call[c].op
      d == Disposition(c)
  IN /\ At(c, "finish")
     /\ Transition(o, c, d.from, d.to, d.used)
     /\ Go(c, IF InStatus(o, d.from) /\ Mine(c) THEN "record" ELSE "done")
     /\ UNCHANGED <<today, health, disabled, fence, reap, events, billed, invoked>>

FinishFails(c) ==
  /\ At(c, "finish")
  /\ events < MaxEvents
  /\ events' = events + 1
  /\ Go(c, "record")
  /\ UNCHANGED <<row, totals, today, health, disabled, fence, reap, billed, invoked>>

---------------------------------------------------------------------------
(* recordProviderOutcome: only the probe's own token moves a half-open     *)
(* breaker, and only a closed one counts the failures of ordinary calls.   *)

Ok(c) == call[c].outcome \in {"settled", "ambiguous"}

(* Mutant: a stale success closes whatever it finds.                       *)
AfterAnySuccess(c) == Closed

(* What a successful call does.  (An unreadable or unmetered answer is a   *)
(* success of the transport and an ambiguous outcome of the account.)      *)
AfterSuccess(c) ==
  CASE call[c].gate = "probe" /\ health.state = "half_open" /\ health.token = c -> Closed
    [] call[c].gate = "closed" /\ health.state = "closed" ->
         [health EXCEPT !.fails = 0]
    [] OTHER -> health

Tripped(h) == IF h.fails >= Trip
              THEN [h EXCEPT !.state = "open", !.over = FALSE, !.token = Nobody]
              ELSE h

Counted(h) == [h EXCEPT !.fails = Min({@ + 1, Trip})]

AfterFailure(c) ==
  CASE call[c].gate = "probe" /\ health.state = "half_open" /\ health.token = c ->
         [Counted(health) EXCEPT !.state = "open", !.over = FALSE, !.token = Nobody]
    [] call[c].gate = "closed" /\ health.state = "closed" -> Tripped(Counted(health))
    [] OTHER -> health

(* An ambiguous outcome is either a late success or an error.              *)
Record(c) ==
  /\ At(c, "record")
  /\ \/ Ok(c) /\ health' = AfterSuccess(c)
     \/ call[c].outcome # "settled" /\ health' = AfterFailure(c)
  /\ Go(c, "done")
  /\ UNCHANGED <<row, totals, today, disabled, fence, reap, events, billed, invoked>>

---------------------------------------------------------------------------
(* What happens to a call from outside.                                    *)

Crash(c) ==
  /\ events < MaxEvents
  /\ call[c].pc \notin {"done", "start"}
  /\ events' = events + 1
  /\ Go(c, "done")
  /\ \E charge \in IF At(c, "invoke") THEN 0 .. Estimate[call[c].op] ELSE {0} :
       billed' = [billed EXCEPT ![call[c].op] = @ + charge]
  /\ UNCHANGED <<row, totals, today, health, disabled, fence, reap, invoked>>

(* RESERVATION_TTL_MS and BREAKER_PROBE_LEASE_MS exceed the bounded call,  *)
(* so they run out under a call only when SlowCalls lets them.             *)
Overdue(c) == SlowCalls \/ call[c].pc \in {"finish", "release", "record", "done"}

Expires(o) ==
  /\ row[o].status \in Live /\ ~row[o].expired
  /\ Overdue(row[o].attempt)
  /\ row' = [row EXCEPT ![o].expired = TRUE]
  /\ UNCHANGED <<totals, today, health, disabled, fence, call, reap, events, billed, invoked>>

CooldownOver ==
  /\ health.state = "open" /\ ~health.over
  /\ health' = [health EXCEPT !.over = TRUE]
  /\ UNCHANGED <<row, totals, today, disabled, fence, call, reap, events, billed, invoked>>

ProbeLeaseOver ==
  /\ health.state = "half_open" /\ ~health.over
  /\ Overdue(health.token)
  /\ health' = [health EXCEPT !.over = TRUE]
  /\ UNCHANGED <<row, totals, today, disabled, fence, call, reap, events, billed, invoked>>

Midnight ==
  /\ today < Days /\ events < MaxEvents
  /\ today' = today + 1
  /\ events' = events + 1
  /\ UNCHANGED <<row, totals, health, disabled, fence, call, reap, billed, invoked>>

Disable ==
  /\ ~disabled /\ events < MaxEvents
  /\ disabled' = TRUE
  /\ events' = events + 1
  /\ UNCHANGED <<row, totals, today, health, fence, call, reap, billed, invoked>>

(* Mutant: an invocation is left to the call that made it.                 *)
ReapReadReserved(o) ==
  /\ reap = Nobody
  /\ row[o].status = "reserved" /\ row[o].expired
  /\ reap' = [op |-> o, status |-> row[o].status]
  /\ UNCHANGED <<row, totals, today, health, disabled, fence, call, events, billed, invoked>>

(* reapExpiredReservations: a SELECT, then one transition for each row.    *)
ReapRead(o) ==
  /\ reap = Nobody
  /\ row[o].status \in Live /\ row[o].expired
  /\ reap' = [op |-> o, status |-> row[o].status]
  /\ UNCHANGED <<row, totals, today, health, disabled, fence, call, events, billed, invoked>>

Reap ==
  /\ reap # Nobody
  /\ LET o == reap.op
     IN IF reap.status = "reserved"
        THEN Transition(o, row[o].attempt, Live, "released", 0)
        ELSE Transition(o, row[o].attempt, {"invoking"}, "ambiguous_charged", Estimate[o])
  /\ reap' = Nobody
  /\ UNCHANGED <<today, health, disabled, fence, call, events, billed, invoked>>

---------------------------------------------------------------------------
(* The destructive side: a barrier is installed, then no invocation may be *)
(* in flight (assertNoActiveProviderInvocation), then the provenance of    *)
(* the other rows is cut (scrubProviderReservationLifecycle).              *)

ArmFence ==
  /\ fence = "none"
  /\ fence' = "armed"
  /\ UNCHANGED <<row, totals, today, health, disabled, call, reap, events, billed, invoked>>

Covered == Ops \ LaterOps

NoActiveInvocation == \A o \in Covered : row[o].status # "invoking"

Erase ==
  /\ fence = "armed"
  /\ NoActiveInvocation
  /\ fence' = "clear"
  /\ row' = [o \in Ops |-> IF o \in Covered THEN [row[o] EXCEPT !.owned = FALSE] ELSE row[o]]
  /\ UNCHANGED <<totals, today, health, disabled, call, reap, events, billed, invoked>>

---------------------------------------------------------------------------
CallStep(c) ==
  \/ GateRead(c) \/ ClaimProbe(c) \/ AbandonProbe(c)
  \/ Reserve(c) \/ Mark(c) \/ Release(c) \/ Answer(c) \/ Finish(c) \/ Record(c)

Quiet == (\A c \in Callers : call[c].pc = "done") /\ UNCHANGED vars

BudgetNext ==
  \/ \E c \in Callers : CallStep(c) \/ MarkUnknown(c) \/ FinishFails(c) \/ Crash(c)
  \/ \E o \in Ops : Expires(o) \/ ReapRead(o)
  \/ Reap \/ CooldownOver \/ ProbeLeaseOver \/ Midnight \/ Disable
  \/ ArmFence \/ Erase
  \/ Quiet

BudgetSpec == BudgetInit /\ [][BudgetNext]_vars

(* The runtime runs a call that has not died, the cron runs the reaper     *)
(* every few minutes, time passes, and a refused erasure is retried.       *)
BudgetFairness ==
  /\ WF_vars(\E c \in Callers : CallStep(c))
  /\ WF_vars(\E o \in Ops : Expires(o))
  /\ WF_vars(Reap \/ \E o \in Ops : ReapRead(o))
  /\ WF_vars(Erase)

FairBudgetSpec == BudgetSpec /\ BudgetFairness

---------------------------------------------------------------------------
(* Properties.                                                             *)

Spent(o) == IF row[o].status \in Final THEN row[o].actual ELSE 0
Reserved(o) == IF row[o].status \in Live THEN Estimate[o] ELSE 0
OnDay(d) == {o \in Ops : row[o].day = d}

(* The totals are exactly the sum of the reservations, whatever was        *)
(* settled, reaped, released or repeated: no charge is lost or made twice. *)
MoneyConserved ==
  \A d \in 1 .. Days :
    /\ totals[d].reserved = MapThenSumSet(Reserved, OnDay(d))
    /\ totals[d].used = MapThenSumSet(Spent, OnDay(d))

(* Concurrent admissions never promise more than the ceiling.              *)
WithinCeiling == \A d \in 1 .. Days : totals[d].used + totals[d].reserved <= Ceiling

(* "The INSERT winner is the only caller allowed to cross reserved ->      *)
(* invoking": a logical operation reaches the provider at most once,       *)
(* through retries, crashes and the reaper.                                *)
InvokedOnce == \A o \in Ops : invoked[o] <= 1

(* What the provider charged is on the books once the operation is over:   *)
(* nothing is released while it may have been billed.                      *)
SpendCovered ==
  \A o \in Ops :
    /\ row[o].status \in Final
    /\ \A c \in Callers : call[c].op = o => ~At(c, "invoke")
    => billed[o] <= row[o].actual

(* Half-open admits one probe at a time.                                   *)
OneProbe ==
  Cardinality({c \in Callers : call[c].gate = "probe" /\ call[c].pc = "invoke"}) <= 1

(* "A stale in-flight success must never close a breaker another call      *)
(* opened": only the success of the current probe closes it.               *)
ProbeCloses ==
  [][health.state # "closed" /\ health'.state = "closed" =>
       \E c \in Callers : health.token = c /\ call[c].gate = "probe" /\ At(c, "record")]_vars

(* An erasure that went ahead has no covered content at the provider, and  *)
(* none will get there.                                                    *)
ErasureNotOvertaken ==
  fence = "clear" => \A c \in Callers : call[c].op \in Covered => ~At(c, "invoke")

(* No reservation keeps its share of the budget for ever.                  *)
ReservationsEnd == \A o \in Ops : (row[o].status \in Live) ~> (row[o].status \in Final)

(* A confirmed erasure goes ahead in the end: an invocation that nobody    *)
(* will answer for is retired.                                             *)
ErasureProceeds == (fence = "armed") ~> (fence = "clear")
=============================================================================
