---------------------------- MODULE BudgetProofs ----------------------------
(***************************************************************************)
(* Theorems about ProviderBudget for every set of operations and callers,  *)
(* every ceiling and every number of crashes, midnights and lost answers.  *)
(***************************************************************************)
EXTENDS ProviderBudget, FiniteSetTheorems, WellFoundedInduction, TLAPS

Breaker == [state : {"closed", "open", "half_open"},
            fails : 0 .. Trip,
            token : Callers \union {Nobody},
            over  : BOOLEAN]

(* The totals are integers here: that they are never negative is a          *)
(* consequence of MoneyConserved, which sums over a set.                    *)
Records ==
  /\ row \in [Ops -> Reservation]
  /\ totals \in [1 .. Days -> [used : Int, reserved : Int]]
  /\ today \in 1 .. Days
  /\ health \in Breaker
  /\ call \in [Callers -> Call]
  /\ reap \in [op : Ops, status : Live] \union {Nobody}
  /\ invoked \in [Ops -> Nat]
  /\ billed \in [Ops -> Nat]

(* A call at work has an operation, and the usage it reports is within the  *)
(* estimate.                                                                *)
Working ==
  \A c \in Callers :
    call[c].pc \notin {"start", "done"} =>
      /\ call[c].op \in Ops
      /\ call[c].pc = "finish" => call[c].used <= Estimate[call[c].op]

(* A reservation names its attempt and its day. *)
Named == \A o \in Ops : row[o].status # "none" => row[o].attempt \in Callers /\ row[o].day \in 1 .. Days

(* Before it is invoked, an operation has not reached the provider. *)
Uninvoked == \A o \in Ops : row[o].status \in {"none", "reserved"} => invoked[o] = 0

BudgetInv == Records /\ Working /\ Named /\ Uninvoked /\ InvokedOnce /\ WithinCeiling

USE OpsAssumption, EstimateAssumption, BoundAssumption

(* The smaller of two numbers, as a breaker counts its failures. *)
LEMMA MinOfTwo ==
  ASSUME NEW a \in Nat, NEW b \in Nat
  PROVE  Min({a, b}) \in {a, b} /\ Min({a, b}) <= a /\ Min({a, b}) <= b
<1>1. \E x \in {a, b} : \A y \in {a, b} : x <= y
  OBVIOUS
<1>2. Min({a, b}) \in {a, b} /\ \A y \in {a, b} : Min({a, b}) <= y
  BY <1>1, Zenon DEF Min
<1> QED BY <1>2

(* What a step does to one call leaves the others alone. *)
LEMMA GoTypes ==
  ASSUME call \in [Callers -> Call], NEW c \in Callers,
         NEW pc \in {"release", "abandon", "finish", "record", "mark", "invoke", "reserve", "done"},
         Go(c, pc)
  PROVE  /\ call' \in [Callers -> Call]
         /\ call'[c].pc = pc
         /\ pc # "done" => call'[c].op = call[c].op /\ call'[c].gate = call[c].gate
                           /\ call'[c].used = call[c].used /\ call'[c].outcome = call[c].outcome
         /\ \A d \in Callers \ {c} : call'[d] = call[d]
<1>1. Blank(pc) \in Call /\ Blank(pc).pc = pc
  BY DEF Blank, Call
<1>2. [call[c] EXCEPT !.pc = pc] \in Call
  BY DEF Call
<1> QED BY <1>1, <1>2, SMT DEF Go, Call

(* A reservation that ends is a reservation. *)
Ended(e, to, used) == [e EXCEPT !.status = to, !.actual = used, !.expired = FALSE]

LEMMA EndedTypes ==
  ASSUME NEW e \in Reservation, NEW to \in Final, NEW used \in Nat
  PROVE  LET r == Ended(e, to, used)
         IN  /\ r \in Reservation
             /\ r.status = to /\ r.actual = used /\ ~r.expired
             /\ r.attempt = e.attempt /\ r.day = e.day /\ r.owned = e.owned
BY DEF Reservation, Live, Final, Ended

(* What moves to or from a day of the totals are integers. *)
LEMMA MovedTypes ==
  ASSUME NEW t \in [used : Int, reserved : Int], NEW u \in Nat, NEW n \in Nat, u <= n,
         NEW m, m = [t EXCEPT !.reserved = t.reserved - n, !.used = t.used + u]
  PROVE  m \in [used : Int, reserved : Int] /\ m.used + m.reserved <= t.used + t.reserved
<1>1. /\ t.reserved - n \in Int /\ t.used + u \in Int
      /\ t.used + u + (t.reserved - n) <= t.used + t.reserved
  OBVIOUS
<1>2. m \in [used : Int, reserved : Int]
  BY <1>1
<1>3. m.used = t.used + u /\ m.reserved = t.reserved - n
  BY <1>1
<1> QED BY <1>1, <1>2, <1>3

(* A call that takes up an operation, and one that becomes a probe. *)
Placed(k, o, pc, gate) == [k EXCEPT !.op = o, !.pc = pc, !.gate = gate]

LEMMA PlacedTypes ==
  ASSUME NEW k \in Call, NEW o, NEW pc, NEW gate
  PROVE  /\ Placed(k, o, pc, gate).pc = pc /\ Placed(k, o, pc, gate).op = o
         /\ o \in Ops /\ pc \in {"probe", "reserve"} /\ gate \in {"none", "closed"}
            => Placed(k, o, pc, gate) \in Call
BY DEF Placed, Call

Probing(k) == [k EXCEPT !.pc = "reserve", !.gate = "probe"]

LEMMA ProbingTypes ==
  ASSUME NEW k \in Call
  PROVE  Probing(k) \in Call /\ Probing(k).pc = "reserve" /\ Probing(k).op = k.op
BY DEF Probing, Call

(* A terminal transition turns a live row into a final one and never gives  *)
(* the budget more than it had set aside.                                   *)
LEMMA TransitionTypes ==
  ASSUME Records, Named, NEW o \in Ops, NEW c, NEW from \in SUBSET Live, NEW to \in Final,
         NEW used \in Nat, used <= Estimate[o],
         Transition(o, c, from, to, used)
  PROVE  /\ row' \in [Ops -> Reservation]
         /\ totals' \in [1 .. Days -> [used : Int, reserved : Int]]
         /\ \A x \in Ops : row'[x].attempt = row[x].attempt /\ row'[x].day = row[x].day
                           /\ row'[x].owned = row[x].owned
         /\ \A x \in Ops : \/ row'[x] = row[x]
                           \/ /\ x = o /\ row[o].status \in from /\ row[o].attempt = c
                              /\ row'[o].status = to /\ row'[o].actual = used /\ ~row'[o].expired
         /\ row[o].status \in from /\ row[o].attempt = c =>
              row'[o].status = to /\ row'[o].actual = used
         /\ \A d \in 1 .. Days :
              totals'[d].used + totals'[d].reserved <= totals[d].used + totals[d].reserved
<1>1. CASE row[o].status \in from /\ row[o].attempt = c
  <2>1. row' = [row EXCEPT ![o].status = to, ![o].actual = used, ![o].expired = FALSE]
        /\ totals' = Moved(totals, o, used)
    BY <1>1 DEF Transition, InStatus, Finished
  <2>2. row[o].day \in 1 .. Days
    BY <1>1 DEF Named, Live
  <2> DEFINE r == Ended(row[o], to, used)
             day == row[o].day
             t == [totals[day] EXCEPT !.reserved = totals[day].reserved - Estimate[o],
                                      !.used = totals[day].used + used]
  <2>3. /\ r \in Reservation
        /\ r.status = to /\ r.actual = used /\ ~r.expired
        /\ r.attempt = row[o].attempt /\ r.day = row[o].day /\ r.owned = row[o].owned
    <3>1. row[o] \in Reservation
      BY DEF Records
    <3> QED BY <3>1, EndedTypes
  <2>4. t \in [used : Int, reserved : Int]
        /\ t.used + t.reserved <= totals[day].used + totals[day].reserved
    BY <2>2, MovedTypes DEF Records
  <2>5. row' = [row EXCEPT ![o] = r] /\ totals' = [totals EXCEPT ![day] = t]
    BY <2>1 DEF Moved, Ended
  <2> HIDE DEF r, t
  <2>6. /\ row' \in [Ops -> Reservation]
        /\ row'[o] = r /\ \A x \in Ops \ {o} : row'[x] = row[x]
    BY <2>3, <2>5 DEF Records
  <2>7. /\ totals' \in [1 .. Days -> [used : Int, reserved : Int]]
        /\ \A d \in 1 .. Days :
             totals'[d].used + totals'[d].reserved <= totals[d].used + totals[d].reserved
    <3>1. \A d \in 1 .. Days : totals[d].used \in Int /\ totals[d].reserved \in Int
      BY DEF Records
    <3>2. totals'[day] = t /\ \A d \in (1 .. Days) \ {day} : totals'[d] = totals[d]
      BY <2>2, <2>5 DEF Records
    <3>3. totals' \in [1 .. Days -> [used : Int, reserved : Int]]
      BY <2>2, <2>4, <2>5 DEF Records
    <3> HIDE DEF day
    <3>4. ASSUME NEW d \in 1 .. Days
          PROVE  totals'[d].used + totals'[d].reserved <= totals[d].used + totals[d].reserved
      <4>1. CASE d = day
        BY <2>4, <3>2, <4>1
      <4>2. CASE d # day
        BY <3>1, <3>2, <4>2
      <4> QED BY <4>1, <4>2
    <3> QED BY <3>3, <3>4
  <2> QED BY <1>1, <2>3, <2>6, <2>7
<1>2. CASE ~(row[o].status \in from /\ row[o].attempt = c)
  BY <1>2 DEF Transition, InStatus, Records
<1> QED BY <1>1, <1>2

(* A step that leaves reservations, totals and invocations alone. *)
LEMMA BooksStand ==
  ASSUME BudgetInv, UNCHANGED <<row, totals, invoked>>, Records', Working'
  PROVE  BudgetInv'
BY DEF BudgetInv, Named, Uninvoked, InvokedOnce, WithinCeiling

(* A call that moves on with its operation is a call at work. *)
LEMMA GoWorks ==
  ASSUME BudgetInv, NEW c \in Callers,
         NEW pc \in {"release", "abandon", "record", "mark", "invoke", "done"},
         pc # "done" => call[c].pc \notin {"start", "done"},
         Go(c, pc)
  PROVE  call' \in [Callers -> Call] /\ Working'
<1>1. /\ call' \in [Callers -> Call]
      /\ call'[c].pc = pc
      /\ pc # "done" => call'[c].op = call[c].op
      /\ \A d \in Callers \ {c} : call'[d] = call[d]
  BY GoTypes DEF BudgetInv, Records
<1> SUFFICES ASSUME NEW d \in Callers, call'[d].pc \notin {"start", "done"}
             PROVE  /\ call'[d].op \in Ops
                    /\ call'[d].pc = "finish" => call'[d].used <= Estimate[call'[d].op]
  BY <1>1 DEF Working
<1>2. CASE d = c
  BY <1>1, <1>2 DEF BudgetInv, Working
<1>3. CASE d # c
  BY <1>1, <1>3 DEF BudgetInv, Working
<1> QED BY <1>2, <1>3

(* An operation comes to an end: the books stay in order. *)
LEMMA EndingKeeps ==
  ASSUME BudgetInv, NEW o \in Ops, NEW c, NEW from \in SUBSET Live, NEW to \in Final,
         NEW used \in Nat, used <= Estimate[o],
         Transition(o, c, from, to, used), UNCHANGED invoked
  PROVE  /\ row' \in [Ops -> Reservation]
         /\ totals' \in [1 .. Days -> [used : Int, reserved : Int]]
         /\ Named' /\ Uninvoked' /\ InvokedOnce' /\ WithinCeiling'
<1>0. Records /\ Named
  BY DEF BudgetInv
<1>1. /\ row' \in [Ops -> Reservation]
      /\ totals' \in [1 .. Days -> [used : Int, reserved : Int]]
      /\ \A x \in Ops : row'[x].attempt = row[x].attempt /\ row'[x].day = row[x].day
      /\ \A x \in Ops : row'[x] # row[x] => row[x].status \in from /\ row'[x].status = to
      /\ \A d \in 1 .. Days :
           totals'[d].used + totals'[d].reserved <= totals[d].used + totals[d].reserved
  <2>1. \A x \in Ops : \/ row'[x] = row[x]
                     \/ /\ x = o /\ row[o].status \in from /\ row[o].attempt = c
                        /\ row'[o].status = to /\ row'[o].actual = used /\ ~row'[o].expired
    BY <1>0, TransitionTypes
  <2>2. /\ row' \in [Ops -> Reservation]
        /\ totals' \in [1 .. Days -> [used : Int, reserved : Int]]
        /\ \A x \in Ops : row'[x].attempt = row[x].attempt /\ row'[x].day = row[x].day
    BY <1>0, TransitionTypes
  <2>3. \A d \in 1 .. Days :
          totals'[d].used + totals'[d].reserved <= totals[d].used + totals[d].reserved
    BY <1>0, TransitionTypes
  <2> QED BY <2>1, <2>2, <2>3
<1>2. Named'
  BY <1>1 DEF BudgetInv, Named, Live
<1>3. Uninvoked' /\ InvokedOnce'
  BY <1>1 DEF BudgetInv, Uninvoked, InvokedOnce, Final
<1>4. WithinCeiling'
  <2> SUFFICES ASSUME NEW d \in 1 .. Days
               PROVE  totals'[d].used + totals'[d].reserved <= Ceiling
    BY DEF WithinCeiling
  <2>1. totals[d].used + totals[d].reserved <= Ceiling
    BY DEF BudgetInv, WithinCeiling
  <2>2. /\ totals[d] \in [used : Int, reserved : Int]
        /\ totals'[d] \in [used : Int, reserved : Int]
    BY <1>1 DEF BudgetInv, Records
  <2>3. totals'[d].used + totals'[d].reserved <= totals[d].used + totals[d].reserved
    BY <1>1
  <2>4. /\ totals[d].used + totals[d].reserved \in Int
        /\ totals'[d].used + totals'[d].reserved \in Int
    BY <2>2
  <2> QED BY <2>1, <2>3, <2>4
<1> QED BY <1>1, <1>2, <1>3, <1>4

---------------------------------------------------------------------------
LEMMA InitInv == BudgetInit => BudgetInv
<1> SUFFICES ASSUME BudgetInit PROVE BudgetInv
  OBVIOUS
<1>1. Closed \in Breaker /\ Opened \in Breaker
  <2>1. Closed \in Breaker
    BY DEF Closed, Breaker
  <2>2. \A h \in Breaker : [h EXCEPT !.state = "open", !.fails = Trip] \in Breaker
    <3>1. Trip \in 0 .. Trip
      OBVIOUS
    <3> QED BY <3>1 DEF Breaker
  <2> QED BY <2>1, <2>2 DEF Opened
<1>2. Blank("start") \in Call /\ Blank("start").pc = "start"
  BY DEF Blank, Call
<1>3. NoReservation \in Reservation /\ NoReservation.status = "none"
  BY DEF NoReservation, Reservation
<1>4. Records
  BY <1>1, <1>2, <1>3 DEF BudgetInit, Records
<1> QED BY <1>2, <1>3, <1>4
        DEF BudgetInit, BudgetInv, Working, Named, Uninvoked, InvokedOnce, WithinCeiling

LEMMA GateReadInv == ASSUME BudgetInv, NEW c \in Callers, GateRead(c) PROVE BudgetInv'
<1>1. CASE Go(c, "done")
  <2>1. call' \in [Callers -> Call] /\ Working'
    BY <1>1, GoWorks
  <2> QED BY <2>1, BooksStand DEF GateRead, BudgetInv, Records
<1>2. CASE \E o \in Ops :
             call' = [call EXCEPT ![c].op = o,
                                  ![c].pc = IF ProbeFree THEN "probe" ELSE "reserve",
                                  ![c].gate = IF ProbeFree THEN "none" ELSE "closed"]
  <2>1. PICK o \in Ops, pc \in {"probe", "reserve"}, gate \in {"none", "closed"} :
          call' = [call EXCEPT ![c].op = o, ![c].pc = pc, ![c].gate = gate]
    BY <1>2
  <2>2. /\ Placed(call[c], o, pc, gate) \in Call
        /\ Placed(call[c], o, pc, gate).pc = pc /\ Placed(call[c], o, pc, gate).op = o
    <3>1. call[c] \in Call
      BY DEF BudgetInv, Records
    <3> QED BY <3>1, PlacedTypes
  <2>3. call' = [call EXCEPT ![c] = Placed(call[c], o, pc, gate)]
    BY <2>1 DEF Placed
  <2>4. call' \in [Callers -> Call] /\ Working'
    BY <2>2, <2>3 DEF BudgetInv, Records, Working
  <2> QED BY <2>4, BooksStand DEF GateRead, BudgetInv, Records
<1> QED BY <1>1, <1>2 DEF GateRead

LEMMA ClaimProbeInv == ASSUME BudgetInv, NEW c \in Callers, ClaimProbe(c) PROVE BudgetInv'
<1>1. CASE ProbeFree
  <2>1. /\ health' = [health EXCEPT !.state = "half_open", !.token = c, !.over = FALSE]
        /\ call' = [call EXCEPT ![c].pc = "reserve", ![c].gate = "probe"]
    BY <1>1 DEF ClaimProbe
  <2>2. health' \in Breaker
    BY <2>1 DEF BudgetInv, Records, Breaker
  <2>3. call' \in [Callers -> Call] /\ Working'
    <3> DEFINE k == Probing(call[c])
    <3>1. k \in Call /\ k.pc = "reserve" /\ k.op = call[c].op
      BY ProbingTypes DEF BudgetInv, Records
    <3>2. call' = [call EXCEPT ![c] = k]
      BY <2>1 DEF Probing
    <3> HIDE DEF k
    <3> QED BY <3>1, <3>2 DEF BudgetInv, Records, Working, ClaimProbe, At
  <2> QED BY <2>2, <2>3, BooksStand DEF ClaimProbe, BudgetInv, Records
<1>2. CASE ~ProbeFree
  <2>1. call' \in [Callers -> Call] /\ Working'
    BY <1>2, GoWorks DEF ClaimProbe
  <2> QED BY <1>2, <2>1, BooksStand DEF ClaimProbe, BudgetInv, Records
<1> QED BY <1>1, <1>2

LEMMA AbandonProbeInv == ASSUME BudgetInv, NEW c \in Callers, AbandonProbe(c) PROVE BudgetInv'
<1>1. call' \in [Callers -> Call] /\ Working'
  BY GoWorks DEF AbandonProbe
<1>2. health' \in Breaker
  BY DEF AbandonProbe, BudgetInv, Records, Breaker
<1> QED BY <1>1, <1>2, BooksStand DEF AbandonProbe, BudgetInv, Records

LEMMA ReserveInv == ASSUME BudgetInv, NEW c \in Callers, Reserve(c) PROVE BudgetInv'
<1> DEFINE o == call[c].op
<1>1. o \in Ops /\ At(c, "reserve")
  BY DEF Reserve, BudgetInv, Working, At
<1>2. call' \in [Callers -> Call] /\ Working'
  <2>1. Go(c, "mark") \/ Go(c, FirstRefusalStep(c))
    BY DEF Reserve
  <2>2. FirstRefusalStep(c) \in {"abandon", "done"}
    BY DEF FirstRefusalStep
  <2> QED BY <1>1, <2>1, <2>2, GoWorks DEF At
<1>3. CASE UNCHANGED <<row, totals>>
  BY <1>2, <1>3, BooksStand DEF Reserve, BudgetInv, Records
<1>4. CASE ~UNCHANGED <<row, totals>>
  <2> DEFINE r == [status |-> "reserved", attempt |-> c, day |-> today,
                   actual |-> 0, expired |-> FALSE, owned |-> TRUE]
             t == [totals[today] EXCEPT !.reserved = totals[today].reserved + Estimate[o]]
  <2>1. /\ Unreserved(o) /\ Fits(o)
        /\ row' = [row EXCEPT ![o] = r]
        /\ totals' = [totals EXCEPT ![today] = t]
    BY <1>4 DEF Reserve
  <2>2. r \in Reservation /\ r.status = "reserved" /\ r.attempt = c /\ r.day = today
    BY DEF BudgetInv, Records, Reservation, Live
  <2>3. t \in [used : Int, reserved : Int] /\ t.used + t.reserved <= Ceiling
    <3>1. totals[today] \in [used : Int, reserved : Int] /\ Estimate[o] \in Nat
      BY <1>1 DEF BudgetInv, Records
    <3>2. totals[today].reserved + Estimate[o] \in Int
      BY <3>1
    <3>3. /\ t \in [used : Int, reserved : Int]
          /\ t.used = totals[today].used /\ t.reserved = totals[today].reserved + Estimate[o]
      BY <3>1, <3>2
    <3> QED BY <2>1, <3>1, <3>3 DEF Fits
  <2> HIDE DEF r, t, o
  <2>4. today \in 1 .. Days /\ row[o].status = "none"
    BY <2>1 DEF BudgetInv, Records, Unreserved
  <2>5. /\ row' \in [Ops -> Reservation]
        /\ totals' \in [1 .. Days -> [used : Int, reserved : Int]]
        /\ row'[o] = r /\ \A x \in Ops \ {o} : row'[x] = row[x]
        /\ totals'[today] = t /\ \A d \in (1 .. Days) \ {today} : totals'[d] = totals[d]
    BY <1>1, <2>1, <2>2, <2>3, <2>4 DEF BudgetInv, Records
  <2>6. Records'
    BY <1>2, <2>5 DEF Reserve, BudgetInv, Records
  <2>7. Named' /\ Uninvoked' /\ InvokedOnce'
    BY <1>1, <2>2, <2>4, <2>5 DEF Reserve, BudgetInv, Named, Uninvoked, InvokedOnce
  <2>8. WithinCeiling'
    BY <2>3, <2>4, <2>5 DEF BudgetInv, WithinCeiling
  <2> QED BY <1>2, <2>6, <2>7, <2>8 DEF BudgetInv
<1> QED BY <1>3, <1>4

(* A reservation that is invoked. *)
Invoking(e) == [e EXCEPT !.status = "invoking", !.expired = FALSE]
InvokedBlind(e) == [e EXCEPT !.status = "invoking"]

LEMMA InvokingTypes ==
  ASSUME NEW e \in Reservation
  PROVE  /\ Invoking(e) \in Reservation /\ InvokedBlind(e) \in Reservation
         /\ Invoking(e).status = "invoking" /\ InvokedBlind(e).status = "invoking"
         /\ Invoking(e).attempt = e.attempt /\ InvokedBlind(e).attempt = e.attempt
         /\ Invoking(e).day = e.day /\ InvokedBlind(e).day = e.day
         /\ Invoking(e).owned = e.owned /\ InvokedBlind(e).owned = e.owned
         /\ ~Invoking(e).expired /\ InvokedBlind(e).expired = e.expired
BY DEF Invoking, InvokedBlind, Reservation, Live

LEMMA MarkInv == ASSUME BudgetInv, NEW c \in Callers, Mark(c) PROVE BudgetInv'
<1> DEFINE o == call[c].op
<1>1. o \in Ops /\ At(c, "mark")
  BY DEF Mark, BudgetInv, Working, At
<1>2. call' \in [Callers -> Call] /\ Working'
  <2>1. Go(c, "invoke") \/ Go(c, "release")
    BY DEF Mark
  <2> QED BY <1>1, <2>1, GoWorks DEF At
<1>3. CASE MayInvoke(c)
  <2>1. /\ row' = [row EXCEPT ![o].status = "invoking", ![o].expired = FALSE]
        /\ invoked' = [invoked EXCEPT ![o] = invoked[o] + 1]
        /\ row[o].status = "reserved" /\ row[o].attempt = c
    BY <1>3 DEF Mark, MayInvoke, Mine
  <2> HIDE DEF o
  <2>2. invoked[o] = 0 /\ invoked' \in [Ops -> Nat] /\ invoked'[o] = 1
        /\ \A x \in Ops \ {o} : invoked'[x] = invoked[x]
    BY <1>1, <2>1 DEF BudgetInv, Records, Uninvoked
  <2>3. /\ row' \in [Ops -> Reservation]
        /\ row'[o].status = "invoking" /\ row'[o].attempt = c /\ row'[o].day = row[o].day
        /\ \A x \in Ops \ {o} : row'[x] = row[x]
    <3>1. row[o] \in Reservation /\ row' = [row EXCEPT ![o] = Invoking(row[o])]
      BY <1>1, <2>1 DEF BudgetInv, Records, Invoking
    <3>2. /\ Invoking(row[o]) \in Reservation /\ Invoking(row[o]).status = "invoking"
          /\ Invoking(row[o]).attempt = row[o].attempt /\ Invoking(row[o]).day = row[o].day
      BY <3>1, InvokingTypes
    <3> QED BY <1>1, <2>1, <3>1, <3>2, ZenonT(60) DEF BudgetInv, Records
  <2>4. Records'
    BY <1>2, <2>2, <2>3 DEF Mark, BudgetInv, Records
  <2>5. Named' /\ Uninvoked' /\ InvokedOnce'
    BY <1>1, <2>1, <2>2, <2>3 DEF BudgetInv, Named, Uninvoked, InvokedOnce
  <2>6. WithinCeiling'
    BY DEF Mark, BudgetInv, WithinCeiling
  <2> QED BY <1>2, <2>4, <2>5, <2>6 DEF BudgetInv
<1>4. CASE ~MayInvoke(c)
  BY <1>2, <1>4, BooksStand DEF Mark, BudgetInv, Records
<1> QED BY <1>3, <1>4

LEMMA MarkUnknownInv == ASSUME BudgetInv, NEW c \in Callers, MarkUnknown(c) PROVE BudgetInv'
<1> DEFINE o == call[c].op
<1>1. o \in Ops /\ At(c, "mark") /\ Go(c, "release")
  BY DEF MarkUnknown, BudgetInv, Working, At
<1>2. call' \in [Callers -> Call] /\ Working'
  BY <1>1, GoWorks DEF At
<1>3. CASE UNCHANGED row
  BY <1>2, <1>3, BooksStand DEF MarkUnknown, BudgetInv, Records
<1>4. CASE MayInvoke(c) /\ row' = [row EXCEPT ![o].status = "invoking"]
  <2>1. row[o].status = "reserved" /\ row[o].attempt = c
    BY <1>4 DEF MayInvoke, Mine
  <2> HIDE DEF o
  <2>2. /\ row' \in [Ops -> Reservation]
        /\ row'[o].status = "invoking" /\ row'[o].attempt = c /\ row'[o].day = row[o].day
        /\ \A x \in Ops \ {o} : row'[x] = row[x]
    <3>1. row[o] \in Reservation /\ row' = [row EXCEPT ![o] = InvokedBlind(row[o])]
      BY <1>1, <1>4, <2>1 DEF BudgetInv, Records, InvokedBlind, o
    <3>2. /\ InvokedBlind(row[o]) \in Reservation /\ InvokedBlind(row[o]).status = "invoking"
          /\ InvokedBlind(row[o]).attempt = row[o].attempt /\ InvokedBlind(row[o]).day = row[o].day
      BY <3>1, InvokingTypes
    <3> QED BY <1>1, <2>1, <3>1, <3>2 DEF BudgetInv, Records
  <2>3. Records'
    BY <1>2, <2>2 DEF MarkUnknown, BudgetInv, Records
  <2>4. Named' /\ Uninvoked' /\ InvokedOnce' /\ WithinCeiling'
    BY <1>1, <2>1, <2>2
    DEF MarkUnknown, BudgetInv, Named, Uninvoked, InvokedOnce, WithinCeiling
  <2> QED BY <1>2, <2>3, <2>4 DEF BudgetInv
<1> QED BY <1>3, <1>4 DEF MarkUnknown

LEMMA ReleaseInv == ASSUME BudgetInv, NEW c \in Callers, Release(c) PROVE BudgetInv'
<1>1. call[c].op \in Ops /\ At(c, "release")
  BY DEF Release, BudgetInv, Working, At
<1>2. call' \in [Callers -> Call] /\ Working'
  <2>1. FirstRefusalStep(c) \in {"abandon", "done"} /\ Go(c, FirstRefusalStep(c))
    BY DEF FirstRefusalStep, Release
  <2> QED BY <1>1, <2>1, GoWorks DEF At
<1>3. Transition(call[c].op, c, Live, "released", 0)
  BY DEF Release
<1>4. /\ row' \in [Ops -> Reservation]
      /\ totals' \in [1 .. Days -> [used : Int, reserved : Int]]
      /\ Named' /\ Uninvoked' /\ InvokedOnce' /\ WithinCeiling'
  <2>1. /\ 0 \in Nat /\ 0 <= Estimate[call[c].op]
        /\ Live \in SUBSET Live /\ "released" \in Final /\ UNCHANGED invoked
    BY <1>1 DEF Release, Final
  <2> QED BY <1>1, <1>3, <2>1, EndingKeeps
<1> QED BY <1>2, <1>4 DEF Release, BudgetInv, Records

(* The provider's answer. *)
Answered(k, outcome, charge) == [k EXCEPT !.pc = "finish", !.outcome = outcome, !.used = charge]

LEMMA AnsweredTypes ==
  ASSUME NEW k \in Call, NEW outcome \in Outcomes, NEW charge \in Nat
  PROVE  /\ Answered(k, outcome, charge) \in Call
         /\ Answered(k, outcome, charge).pc = "finish"
         /\ Answered(k, outcome, charge).outcome = outcome
         /\ Answered(k, outcome, charge).used = charge
         /\ Answered(k, outcome, charge).op = k.op
         /\ Answered(k, outcome, charge).gate = k.gate
BY DEF Answered, Call, Outcomes

LEMMA AnswerInv == ASSUME BudgetInv, NEW c \in Callers, Answer(c) PROVE BudgetInv'
<1>1. call[c].op \in Ops /\ call[c] \in Call
  BY DEF Answer, BudgetInv, Working, Records, At
<1>0. PICK outcome \in Outcomes : \E charge \in Charges(call[c].op, outcome) :
        /\ call' = [call EXCEPT ![c].pc = "finish", ![c].outcome = outcome, ![c].used = charge]
        /\ billed' = [billed EXCEPT ![call[c].op] = @ + charge]
  BY DEF Answer
<1>2. PICK charge \in Charges(call[c].op, outcome) :
        /\ call' = [call EXCEPT ![c] = Answered(call[c], outcome, charge)]
        /\ billed' = [billed EXCEPT ![call[c].op] = billed[call[c].op] + charge]
  BY <1>0, ZenonT(60) DEF Answered
<1>3. charge \in Nat /\ charge <= Estimate[call[c].op]
  <2>1. Estimate[call[c].op] \in Nat
    BY <1>1
  <2> QED BY <1>2, <2>1 DEF Charges, Outcomes
<1>4. /\ Answered(call[c], outcome, charge) \in Call
      /\ Answered(call[c], outcome, charge).pc = "finish"
      /\ Answered(call[c], outcome, charge).used = charge
      /\ Answered(call[c], outcome, charge).op = call[c].op
  BY <1>1, <1>3, AnsweredTypes
<1>5. call' \in [Callers -> Call] /\ Working'
  BY <1>1, <1>2, <1>3, <1>4 DEF BudgetInv, Working, Records
<1>6. billed' \in [Ops -> Nat]
  BY <1>1, <1>2, <1>3 DEF BudgetInv, Records
<1> QED BY <1>5, <1>6, BooksStand DEF Answer, BudgetInv, Records

(* How a call's disposition ends its operation. *)
LEMMA DispositionTypes ==
  ASSUME BudgetInv, NEW c \in Callers, At(c, "finish")
  PROVE  /\ Disposition(c).from \in SUBSET Live
         /\ Disposition(c).to \in Final
         /\ Disposition(c).used \in Nat /\ Disposition(c).used <= Estimate[call[c].op]
<1>1. /\ call[c].op \in Ops /\ call[c].used \in Nat
      /\ call[c].used <= Estimate[call[c].op] /\ Estimate[call[c].op] \in Nat
  BY DEF BudgetInv, Working, Records, Call, At
<1>2. CASE call[c].outcome = "settled"
  BY <1>1, <1>2 DEF Disposition, Live, Final
<1>3. CASE call[c].outcome = "ambiguous"
  BY <1>1, <1>3 DEF Disposition, Live, Final
<1>4. CASE call[c].outcome \notin {"settled", "ambiguous"}
  BY <1>1, <1>4 DEF Disposition, Live, Final
<1> QED BY <1>2, <1>3, <1>4

LEMMA FinishInv == ASSUME BudgetInv, NEW c \in Callers, Finish(c) PROVE BudgetInv'
<1> DEFINE d == Disposition(c)
<1>1. call[c].op \in Ops /\ At(c, "finish")
  BY DEF Finish, BudgetInv, Working, At
<1>2. call' \in [Callers -> Call] /\ Working'
  <2>1. Go(c, "record") \/ Go(c, "done")
    BY DEF Finish
  <2> QED BY <1>1, <2>1, GoWorks DEF At
<1>3. /\ d.from \in SUBSET Live /\ d.to \in Final /\ d.used \in Nat
      /\ d.used <= Estimate[call[c].op]
  BY <1>1, DispositionTypes
<1>4. Transition(call[c].op, c, d.from, d.to, d.used) /\ UNCHANGED invoked
  BY DEF Finish
<1> HIDE DEF d
<1>5. /\ row' \in [Ops -> Reservation]
      /\ totals' \in [1 .. Days -> [used : Int, reserved : Int]]
      /\ Named' /\ Uninvoked' /\ InvokedOnce' /\ WithinCeiling'
  BY <1>1, <1>3, <1>4, EndingKeeps
<1> QED BY <1>2, <1>5 DEF Finish, BudgetInv, Records

LEMMA FinishFailsInv == ASSUME BudgetInv, NEW c \in Callers, FinishFails(c) PROVE BudgetInv'
<1>1. At(c, "finish") /\ Go(c, "record")
  BY DEF FinishFails
<1>2. call' \in [Callers -> Call] /\ Working'
  BY <1>1, GoWorks DEF At
<1> QED BY <1>2, BooksStand DEF FinishFails, BudgetInv, Records

(* Whatever a call records of its outcome leaves a breaker. *)
LEMMA BreakerTypes ==
  ASSUME BudgetInv, NEW c \in Callers
  PROVE  AfterSuccess(c) \in Breaker /\ AfterFailure(c) \in Breaker
<1>1. health \in Breaker
  BY DEF BudgetInv, Records
<1>2. Closed \in Breaker
  BY DEF Closed, Breaker
<1>3. [health EXCEPT !.fails = 0] \in Breaker
  BY <1>1 DEF Breaker
<1>4. \A h \in Breaker : Tripped(h) \in Breaker
  BY DEF Tripped, Breaker
<1>5. Counted(health) \in Breaker
  <2>1. health.fails \in 0 .. Trip
    BY <1>1 DEF Breaker
  <2>2. health.fails + 1 \in Nat /\ Trip \in Nat
    BY <2>1
  <2>3. Min({health.fails + 1, Trip}) \in 0 .. Trip
    BY <2>2, MinOfTwo
  <2>4. Counted(health) = [health EXCEPT !.fails = Min({health.fails + 1, Trip})]
    BY DEF Counted
  <2> HIDE DEF Counted
  <2> QED BY <1>1, <2>3, <2>4 DEF Breaker
<1>6. \A h \in Breaker :
        [h EXCEPT !.state = "open", !.over = FALSE, !.token = Nobody] \in Breaker
  BY DEF Breaker
<1>7. AfterSuccess(c) \in {Closed, [health EXCEPT !.fails = 0], health}
  BY DEF AfterSuccess
<1>8. AfterFailure(c) \in {[Counted(health) EXCEPT !.state = "open", !.over = FALSE, !.token = Nobody],
                          Tripped(Counted(health)), health}
  BY DEF AfterFailure
<1> QED BY <1>1, <1>2, <1>3, <1>4, <1>5, <1>6, <1>7, <1>8

LEMMA RecordInv == ASSUME BudgetInv, NEW c \in Callers, Record(c) PROVE BudgetInv'
<1>1. Go(c, "done") /\ health' \in {AfterSuccess(c), AfterFailure(c)}
  BY DEF Record
<1>2. call' \in [Callers -> Call] /\ Working'
  BY <1>1, GoWorks
<1>3. health' \in Breaker
  BY <1>1, BreakerTypes
<1> QED BY <1>2, <1>3, BooksStand DEF Record, BudgetInv, Records

LEMMA CrashInv == ASSUME BudgetInv, NEW c \in Callers, Crash(c) PROVE BudgetInv'
<1>1. call[c].op \in Ops /\ Estimate[call[c].op] \in Nat /\ Go(c, "done")
  BY DEF Crash, BudgetInv, Working
<1>2. call' \in [Callers -> Call] /\ Working'
  BY <1>1, GoWorks
<1>3. \E charge \in Nat : billed' = [billed EXCEPT ![call[c].op] = billed[call[c].op] + charge]
  <2>1. PICK charge \in IF At(c, "invoke") THEN 0 .. Estimate[call[c].op] ELSE {0} :
          billed' = [billed EXCEPT ![call[c].op] = @ + charge]
    BY DEF Crash
  <2>2. charge \in Nat
    BY <1>1, <2>1
  <2> QED BY <2>1, <2>2
<1>4. billed' \in [Ops -> Nat]
  BY <1>1, <1>3 DEF BudgetInv, Records
<1> QED BY <1>2, <1>4, BooksStand DEF Crash, BudgetInv, Records

(* A reservation that expires, or whose provenance is cut. *)
Overtaken(e) == [e EXCEPT !.expired = TRUE]
Disowned(e) == [e EXCEPT !.owned = FALSE]

LEMMA TouchedTypes ==
  ASSUME NEW e \in Reservation
  PROVE  /\ Overtaken(e) \in Reservation /\ Disowned(e) \in Reservation
         /\ Overtaken(e).status = e.status /\ Disowned(e).status = e.status
         /\ Overtaken(e).attempt = e.attempt /\ Disowned(e).attempt = e.attempt
         /\ Overtaken(e).day = e.day /\ Disowned(e).day = e.day
         /\ Overtaken(e).actual = e.actual /\ Disowned(e).actual = e.actual
         /\ Overtaken(e).expired /\ Disowned(e).expired = e.expired
BY DEF Overtaken, Disowned, Reservation

LEMMA ExpiresInv == ASSUME BudgetInv, NEW o \in Ops, Expires(o) PROVE BudgetInv'
<1>1. row' = [row EXCEPT ![o].expired = TRUE]
  BY DEF Expires
<1>2. /\ row' \in [Ops -> Reservation]
      /\ \A x \in Ops : /\ row'[x].status = row[x].status /\ row'[x].attempt = row[x].attempt
                        /\ row'[x].day = row[x].day
  <2>1. row[o] \in Reservation /\ row' = [row EXCEPT ![o] = Overtaken(row[o])]
    BY <1>1 DEF BudgetInv, Records, Overtaken
  <2>2. /\ Overtaken(row[o]) \in Reservation /\ Overtaken(row[o]).status = row[o].status
        /\ Overtaken(row[o]).attempt = row[o].attempt /\ Overtaken(row[o]).day = row[o].day
    BY <2>1, TouchedTypes
  <2> QED BY <2>1, <2>2 DEF BudgetInv, Records
<1>3. Records' /\ Working'
  BY <1>2 DEF Expires, BudgetInv, Records, Working
<1>4. Named' /\ Uninvoked' /\ InvokedOnce' /\ WithinCeiling'
  BY <1>2 DEF Expires, BudgetInv, Named, Uninvoked, InvokedOnce, WithinCeiling
<1> QED BY <1>3, <1>4 DEF BudgetInv

LEMMA ReapInv == ASSUME BudgetInv, Reap PROVE BudgetInv'
<1> DEFINE o == reap.op
<1>1. o \in Ops /\ Estimate[o] \in Nat
  BY DEF Reap, BudgetInv, Records
<1>2. /\ row' \in [Ops -> Reservation]
      /\ totals' \in [1 .. Days -> [used : Int, reserved : Int]]
      /\ Named' /\ Uninvoked' /\ InvokedOnce' /\ WithinCeiling'
  <2>1. CASE Transition(o, row[o].attempt, Live, "released", 0)
    <3>1. /\ 0 \in Nat /\ 0 <= Estimate[o] /\ Live \in SUBSET Live
          /\ "released" \in Final /\ UNCHANGED invoked
      BY <1>1 DEF Reap, Final
    <3> HIDE DEF o
    <3> QED BY <1>1, <2>1, <3>1, EndingKeeps
  <2>2. CASE Transition(o, row[o].attempt, {"invoking"}, "ambiguous_charged", Estimate[o])
    <3>1. /\ Estimate[o] <= Estimate[o] /\ {"invoking"} \in SUBSET Live
          /\ "ambiguous_charged" \in Final /\ UNCHANGED invoked
      BY <1>1 DEF Reap, Final, Live
    <3> HIDE DEF o
    <3> QED BY <1>1, <2>2, <3>1, EndingKeeps
  <2> QED BY <2>1, <2>2 DEF Reap
<1>3. Records' /\ Working'
  BY <1>2 DEF Reap, BudgetInv, Records, Working
<1> QED BY <1>2, <1>3 DEF BudgetInv

LEMMA ReapReadInv == ASSUME BudgetInv, NEW o \in Ops, ReapRead(o) PROVE BudgetInv'
BY DEF ReapRead, BudgetInv, Records, Working, Named, Uninvoked, InvokedOnce, WithinCeiling

LEMMA EraseInv == ASSUME BudgetInv, Erase PROVE BudgetInv'
<1>1. /\ row' \in [Ops -> Reservation]
      /\ \A x \in Ops : /\ row'[x].status = row[x].status /\ row'[x].attempt = row[x].attempt
                        /\ row'[x].day = row[x].day
  <2>1. row' = [o \in Ops |-> IF o \in Covered THEN Disowned(row[o]) ELSE row[o]]
    BY DEF Erase, Disowned
  <2>2. ASSUME NEW x \in Ops
        PROVE  /\ row'[x] \in Reservation /\ row'[x].status = row[x].status
               /\ row'[x].attempt = row[x].attempt /\ row'[x].day = row[x].day
    <3>1. row[x] \in Reservation /\ row'[x] = IF x \in Covered THEN Disowned(row[x]) ELSE row[x]
      BY <2>1 DEF BudgetInv, Records
    <3>2. /\ Disowned(row[x]) \in Reservation /\ Disowned(row[x]).status = row[x].status
          /\ Disowned(row[x]).attempt = row[x].attempt /\ Disowned(row[x]).day = row[x].day
      BY <3>1, TouchedTypes
    <3> QED BY <3>1, <3>2
  <2> QED BY <2>1, <2>2
<1>2. Records' /\ Working'
  BY <1>1 DEF Erase, BudgetInv, Records, Working
<1>3. Named' /\ Uninvoked' /\ InvokedOnce' /\ WithinCeiling'
  BY <1>1 DEF Erase, BudgetInv, Named, Uninvoked, InvokedOnce, WithinCeiling
<1> QED BY <1>2, <1>3 DEF BudgetInv

(* Time, switches and the breaker's leases do not touch the books. *)
LEMMA ElsewhereInv ==
  ASSUME BudgetInv, CooldownOver \/ ProbeLeaseOver \/ Midnight \/ Disable \/ ArmFence \/ Quiet
  PROVE  BudgetInv'
<1>1. UNCHANGED <<row, totals, invoked, call, billed, reap>>
  BY DEF CooldownOver, ProbeLeaseOver, Midnight, Disable, ArmFence, Quiet, vars
<1>2. today' \in 1 .. Days
  BY DEF CooldownOver, ProbeLeaseOver, Midnight, Disable, ArmFence, Quiet, vars, BudgetInv, Records
<1>3. health' \in Breaker
  <2>1. health \in Breaker
    BY DEF BudgetInv, Records
  <2>2. [health EXCEPT !.over = TRUE] \in Breaker
    BY <2>1 DEF Breaker
  <2> QED BY <2>1, <2>2 DEF CooldownOver, ProbeLeaseOver, Midnight, Disable, ArmFence, Quiet, vars
<1> QED BY <1>1, <1>2, <1>3, BooksStand DEF BudgetInv, Records, Working

LEMMA NextInv == BudgetInv /\ [BudgetNext]_vars => BudgetInv'
<1> SUFFICES ASSUME BudgetInv, [BudgetNext]_vars PROVE BudgetInv'
  OBVIOUS
<1>1. ASSUME NEW c \in Callers, CallStep(c) PROVE BudgetInv'
  BY <1>1, GateReadInv, ClaimProbeInv, AbandonProbeInv, ReserveInv, MarkInv, ReleaseInv,
     AnswerInv, FinishInv, RecordInv DEF CallStep
<1>2. ASSUME NEW c \in Callers, MarkUnknown(c) \/ FinishFails(c) \/ Crash(c) PROVE BudgetInv'
  BY <1>2, MarkUnknownInv, FinishFailsInv, CrashInv
<1>3. ASSUME NEW o \in Ops, Expires(o) \/ ReapRead(o) PROVE BudgetInv'
  BY <1>3, ExpiresInv, ReapReadInv
<1>4. CASE UNCHANGED vars
  BY <1>4, BooksStand DEF BudgetInv, Records, Working, vars
<1> QED BY <1>1, <1>2, <1>3, <1>4, ReapInv, EraseInv, ElsewhereInv DEF BudgetNext

---------------------------------------------------------------------------
(* What more holds as long as no call outlasts its reservation.  A call at  *)
(* the provider has its row to itself, a row that expires and a probe whose *)
(* lease is over belong to calls that are past the provider, and so does    *)
(* what the reaper has read.                                                *)
Late == {"finish", "release", "abandon", "record", "done"}

Serving ==
  \A c \in Callers : call[c].pc = "invoke" =>
    /\ row[call[c].op].status = "invoking" /\ row[call[c].op].attempt = c
    /\ ~row[call[c].op].expired /\ invoked[call[c].op] # 0

Overruns == \A o \in Ops : row[o].status \in Live /\ row[o].expired => call[row[o].attempt].pc \in Late

Reaping == reap # Nobody => row[reap.op].status # "none" /\ call[row[reap.op].attempt].pc \in Late

Probes ==
  \A c \in Callers : call[c].pc = "invoke" /\ call[c].gate = "probe" =>
    health.state = "half_open" /\ health.token = c

Lapses ==
  health.state = "half_open" =>
    health.token \in Callers /\ (health.over => call[health.token].pc \in Late)

(* What the provider has charged for an operation: nothing before the call  *)
(* that owns its row is answered, and from then on what that call says.     *)
Charged ==
  /\ \A o \in Ops : billed[o] <= Estimate[o] /\ (invoked[o] = 0 => billed[o] = 0)
  /\ \A c \in Callers :
       /\ call[c].pc \in {"mark", "release", "invoke"} /\ row[call[c].op].attempt = c
            => billed[call[c].op] = 0
       /\ call[c].pc = "finish" /\ row[call[c].op].attempt = c
            => /\ call[c].outcome = "settled" => billed[call[c].op] = call[c].used
               /\ call[c].outcome \notin {"settled", "ambiguous"} => billed[call[c].op] = 0
  /\ reap # Nobody /\ reap.status = "reserved" => billed[reap.op] = 0
  /\ \A o \in Ops : row[o].status \in Final => billed[o] <= row[o].actual

Timely == Serving /\ Overruns /\ Reaping /\ Probes /\ Lapses /\ ErasureNotOvertaken

PromptInv == BudgetInv /\ Timely /\ Charged

(* A call that moves on, past the provider or to its refusal, changes       *)
(* nothing else.                                                            *)
LEMMA GoesOn ==
  ASSUME PromptInv, NEW c \in Callers, NEW pc \in {"release", "abandon", "record", "done"},
         Go(c, pc), pc = "release" => At(c, "mark"),
         UNCHANGED <<row, health, fence, reap, billed, invoked>>
  PROVE  Timely' /\ Charged'
<1>1. /\ call'[c].pc = pc
      /\ pc # "done" => call'[c].op = call[c].op
      /\ \A d \in Callers \ {c} : call'[d] = call[d]
  BY GoTypes DEF PromptInv, BudgetInv, Records
<1>2. Serving' /\ Probes' /\ ErasureNotOvertaken'
  BY <1>1 DEF PromptInv, Timely, Serving, Probes, ErasureNotOvertaken, At
<1>3. Overruns' /\ Reaping' /\ Lapses'
  BY <1>1 DEF PromptInv, BudgetInv, Records, Named, Timely, Overruns, Reaping, Lapses, Late, Live
<1>4. Charged'
  BY <1>1 DEF PromptInv, Charged, At
<1> QED BY <1>2, <1>3, <1>4 DEF Timely

LEMMA PromptInit == BudgetInit => PromptInv
<1> SUFFICES ASSUME BudgetInit PROVE PromptInv
  OBVIOUS
<1>1. BudgetInv
  BY InitInv
<1>2. \A c \in Callers : call[c].pc = "start"
  BY DEF BudgetInit, Blank
<1>3. \A o \in Ops : row[o].status = "none" /\ ~row[o].expired
  BY DEF BudgetInit, NoReservation
<1>4. health.state # "half_open"
  <2>1. Closed \in Breaker /\ Closed.state = "closed"
    BY DEF Closed, Breaker
  <2>2. \A h \in Breaker : [h EXCEPT !.state = "open", !.fails = Trip].state = "open"
    BY DEF Breaker
  <2>3. Opened.state = "open"
    BY <2>1, <2>2 DEF Opened
  <2> QED BY <2>1, <2>3 DEF BudgetInit
<1>5. Timely
  BY <1>2, <1>3, <1>4
  DEF BudgetInit, Timely, Serving, Overruns, Reaping, Probes, Lapses, ErasureNotOvertaken, At, Live
<1>6. Charged
  <2>1. \A o \in Ops : billed[o] = 0 /\ Estimate[o] \in Nat /\ row[o].status \notin Final
    BY <1>3 DEF BudgetInit, Final
  <2>2. reap = Nobody
    BY DEF BudgetInit
  <2> QED BY <1>2, <2>1, <2>2 DEF Charged
<1> QED BY <1>1, <1>5, <1>6 DEF PromptInv

LEMMA GateReadPrompt == ASSUME PromptInv, NEW c \in Callers, GateRead(c) PROVE Timely' /\ Charged'
<1>1. CASE Go(c, "done")
  BY <1>1, GoesOn DEF GateRead
<1>2. CASE \E o \in Ops :
             call' = [call EXCEPT ![c].op = o,
                                  ![c].pc = IF ProbeFree THEN "probe" ELSE "reserve",
                                  ![c].gate = IF ProbeFree THEN "none" ELSE "closed"]
  <2>1. PICK o \in Ops, pc \in {"probe", "reserve"}, gate \in {"none", "closed"} :
          call' = [call EXCEPT ![c].op = o, ![c].pc = pc, ![c].gate = gate]
    BY <1>2
  <2>2. call[c] \in Call /\ call[c].pc = "start"
    BY DEF PromptInv, BudgetInv, Records, GateRead, At
  <2>3. call' = [call EXCEPT ![c] = Placed(call[c], o, pc, gate)]
    BY <2>1 DEF Placed
  <2>4. call'[c].pc \in {"probe", "reserve"} /\ \A d \in Callers \ {c} : call'[d] = call[d]
    <3>1. Placed(call[c], o, pc, gate).pc = pc
      BY <2>2, PlacedTypes
    <3> QED BY <2>3, <3>1 DEF PromptInv, BudgetInv, Records
  <2>5. Timely'
    <3>1. UNCHANGED <<row, health, fence, reap, invoked>>
      BY DEF GateRead
    <3>2. Serving' /\ Probes' /\ ErasureNotOvertaken'
      BY <2>4, <3>1 DEF PromptInv, Timely, Serving, Probes, ErasureNotOvertaken, At
    <3>3. Overruns' /\ Reaping' /\ Lapses'
      BY <2>2, <2>4, <3>1
      DEF PromptInv, BudgetInv, Records, Named, Timely, Overruns, Reaping, Lapses, Late, Live
    <3> QED BY <3>2, <3>3 DEF Timely
  <2>6. Charged'
    <3>1. UNCHANGED <<row, reap, invoked, billed>>
      BY DEF GateRead
    <3> QED BY <2>4, <3>1 DEF PromptInv, Charged
  <2> QED BY <2>5, <2>6
<1> QED BY <1>1, <1>2 DEF GateRead

LEMMA ClaimProbePrompt ==
  ASSUME PromptInv, NEW c \in Callers, ClaimProbe(c) PROVE Timely' /\ Charged'
<1>1. CASE ~ProbeFree
  BY <1>1, GoesOn DEF ClaimProbe
<1>2. CASE ProbeFree
  <2>1. /\ health' = [health EXCEPT !.state = "half_open", !.token = c, !.over = FALSE]
        /\ call' = [call EXCEPT ![c] = Probing(call[c])]
        /\ UNCHANGED <<row, fence, reap, billed, invoked>>
    BY <1>2 DEF ClaimProbe, Probing
  <2>2. call[c] \in Call /\ call[c].pc = "probe" /\ health \in Breaker
    BY DEF ClaimProbe, At, PromptInv, BudgetInv, Records
  <2>3. health'.state = "half_open" /\ health'.token = c /\ ~health'.over
    BY <2>1, <2>2 DEF Breaker
  <2>4. call'[c].pc = "reserve" /\ \A d \in Callers \ {c} : call'[d] = call[d]
    <3>1. Probing(call[c]).pc = "reserve"
      BY <2>2, ProbingTypes
    <3> QED BY <2>1, <3>1 DEF PromptInv, BudgetInv, Records
  <2>5. Serving' /\ ErasureNotOvertaken'
    BY <2>1, <2>4 DEF PromptInv, Timely, Serving, ErasureNotOvertaken, At
  <2>6. Overruns' /\ Reaping' /\ Lapses'
    BY <2>1, <2>2, <2>3, <2>4
    DEF PromptInv, BudgetInv, Records, Named, Timely, Overruns, Reaping, Lapses, Late, Live
  <2>7. Probes'
    BY <1>2, <2>3, <2>4 DEF PromptInv, Timely, Probes, Lapses, ProbeFree, Late
  <2>8. Charged'
    BY <2>1, <2>4 DEF PromptInv, Charged
  <2> QED BY <2>5, <2>6, <2>7, <2>8 DEF Timely
<1> QED BY <1>1, <1>2

LEMMA AbandonProbePrompt ==
  ASSUME PromptInv, NEW c \in Callers, AbandonProbe(c) PROVE Timely' /\ Charged'
<1>1. /\ call'[c].pc = "done" /\ call[c].pc = "abandon"
      /\ \A d \in Callers \ {c} : call'[d] = call[d]
      /\ UNCHANGED <<row, fence, reap, billed, invoked>>
  BY GoTypes DEF AbandonProbe, At, PromptInv, BudgetInv, Records
<1>2. health' = health \/ (health'.state = "open" /\ health.token = c)
  BY DEF AbandonProbe, PromptInv, BudgetInv, Records, Breaker
<1>3. Serving' /\ ErasureNotOvertaken' /\ Probes'
  BY <1>1, <1>2 DEF PromptInv, Timely, Serving, Probes, ErasureNotOvertaken, At
<1>4. Overruns' /\ Reaping' /\ Lapses'
  BY <1>1, <1>2, ZenonT(60)
  DEF PromptInv, BudgetInv, Records, Named, Timely, Overruns, Reaping, Lapses, Late, Live
<1>5. Charged'
  BY <1>1 DEF PromptInv, Charged
<1> QED BY <1>3, <1>4, <1>5 DEF Timely

LEMMA ReservePrompt ==
  ASSUME PromptInv, NEW c \in Callers, Reserve(c) PROVE Timely' /\ Charged'
<1> DEFINE o == call[c].op
<1>1. o \in Ops /\ call[c].pc = "reserve" /\ UNCHANGED <<health, fence, reap, billed, invoked>>
  BY DEF Reserve, PromptInv, BudgetInv, Working, At
<1>2. CASE UNCHANGED row /\ Go(c, FirstRefusalStep(c))
  <2>1. FirstRefusalStep(c) \in {"abandon", "done"}
    BY DEF FirstRefusalStep
  <2> QED BY <1>1, <1>2, <2>1, GoesOn
<1>3. CASE ~(UNCHANGED row /\ Go(c, FirstRefusalStep(c)))
  <2> DEFINE r == [status |-> "reserved", attempt |-> c, day |-> today,
                   actual |-> 0, expired |-> FALSE, owned |-> TRUE]
  <2>1. Unreserved(o) /\ row' = [row EXCEPT ![o] = r] /\ Go(c, "mark")
    BY <1>3 DEF Reserve
  <2>2. /\ row[o].status = "none"
        /\ row'[o].status = "reserved" /\ row'[o].attempt = c /\ ~row'[o].expired
        /\ \A x \in Ops \ {o} : row'[x] = row[x]
    BY <1>1, <2>1 DEF PromptInv, BudgetInv, Records, Unreserved
  <2>3. /\ call'[c].pc = "mark" /\ call'[c].op = o
        /\ \A d \in Callers \ {c} : call'[d] = call[d]
    BY <2>1, GoTypes DEF PromptInv, BudgetInv, Records
  <2>4. billed[o] = 0
    BY <1>1, <2>2 DEF PromptInv, BudgetInv, Uninvoked, Charged
  <2> HIDE DEF o
  <2>5. Serving'
    BY <1>1, <2>2, <2>3 DEF PromptInv, BudgetInv, Working, Timely, Serving
  <2>6. Overruns' /\ Reaping' /\ Lapses'
    <3>1. Overruns'
      BY <1>1, <2>2, <2>3 DEF PromptInv, BudgetInv, Named, Timely, Overruns, Late, Live
    <3>2. Reaping'
      BY <1>1, <2>2, <2>3, ZenonT(60) DEF PromptInv, BudgetInv, Records, Named, Timely, Reaping, Late
    <3>3. Lapses'
      BY <1>1, <2>3 DEF PromptInv, Timely, Lapses, Late
    <3> QED BY <3>1, <3>2, <3>3
  <2>7. Probes' /\ ErasureNotOvertaken'
    BY <1>1, <2>3 DEF PromptInv, Timely, Probes, ErasureNotOvertaken, At
  <2>8. Charged'
    BY <1>1, <2>2, <2>3, <2>4 DEF PromptInv, BudgetInv, Working, Charged, Final
  <2> QED BY <2>5, <2>6, <2>7, <2>8 DEF Timely
<1> QED BY <1>2, <1>3

LEMMA MarkPrompt ==
  ASSUME PromptInv, NEW c \in Callers, Mark(c) PROVE Timely' /\ Charged'
<1> DEFINE o == call[c].op
<1>1. o \in Ops /\ call[c].pc = "mark" /\ UNCHANGED <<health, fence, reap, billed>>
  BY DEF Mark, PromptInv, BudgetInv, Working, At
<1>2. CASE ~MayInvoke(c)
  BY <1>1, <1>2, GoesOn DEF Mark, At
<1>3. CASE MayInvoke(c)
  <2>1. /\ row[o].status = "reserved" /\ row[o].attempt = c /\ row[o] \in Reservation
        /\ row' = [row EXCEPT ![o] = Invoking(row[o])]
        /\ invoked' = [invoked EXCEPT ![o] = invoked[o] + 1] /\ invoked[o] = 0
        /\ Go(c, "invoke")
    BY <1>1, <1>3
    DEF Mark, MayInvoke, Mine, Invoking, PromptInv, BudgetInv, Records, Uninvoked
  <2>2. /\ row'[o].status = "invoking" /\ row'[o].attempt = c /\ ~row'[o].expired
        /\ \A x \in Ops \ {o} : row'[x] = row[x] /\ invoked'[x] = invoked[x]
        /\ invoked'[o] = 1
    <3>1. /\ Invoking(row[o]).status = "invoking" /\ Invoking(row[o]).attempt = row[o].attempt
          /\ ~Invoking(row[o]).expired
      BY <2>1, InvokingTypes
    <3> QED BY <1>1, <2>1, <3>1 DEF PromptInv, BudgetInv, Records
  <2>3. /\ call'[c].pc = "invoke" /\ call'[c].op = o /\ call'[c].gate = call[c].gate
        /\ \A d \in Callers \ {c} : call'[d] = call[d]
    BY <2>1, GoTypes DEF PromptInv, BudgetInv, Records
  <2>4. /\ call[c].gate = "probe" => health.state = "half_open" /\ health.token = c
        /\ o \in LaterOps \/ fence = "none"
    BY <1>3 DEF MayInvoke, GateHolds, LifecycleAllows
  <2> HIDE DEF o
  <2>5. Serving'
    BY <1>1, <2>1, <2>2, <2>3 DEF PromptInv, BudgetInv, Working, Timely, Serving
  <2>6. Overruns' /\ Reaping' /\ Lapses'
    <3>1. Overruns'
      BY <1>1, <2>1, <2>2, <2>3 DEF PromptInv, BudgetInv, Named, Timely, Overruns, Late, Live
    <3>2. Reaping'
      BY <1>1, <2>1, <2>2, <2>3 DEF PromptInv, BudgetInv, Records, Named, Timely, Reaping, Late
    <3>3. Lapses'
      BY <1>1, <2>3 DEF PromptInv, Timely, Lapses, Late
    <3> QED BY <3>1, <3>2, <3>3
  <2>7. Probes' /\ ErasureNotOvertaken'
    BY <1>1, <2>3, <2>4 DEF PromptInv, Timely, Probes, ErasureNotOvertaken, Covered, At, o
  <2>8. Charged'
    <3>1. \A x \in Ops : billed[x] <= Estimate[x] /\ (invoked'[x] = 0 => billed[x] = 0)
      BY <2>2 DEF PromptInv, Charged
    <3>2. \A x \in Ops : row'[x].status \in Final => billed[x] <= row'[x].actual
      BY <2>2 DEF PromptInv, Charged, Final
    <3>3. \A x \in Ops : row'[x].attempt = row[x].attempt
      BY <2>1, <2>2
    <3>4. \A d \in Callers : call[d].pc \notin {"start", "done"} => call[d].op \in Ops
      BY DEF PromptInv, BudgetInv, Working
    <3> QED BY <1>1, <2>1, <2>3, <3>1, <3>2, <3>3, <3>4 DEF PromptInv, Charged
  <2> QED BY <2>5, <2>6, <2>7, <2>8 DEF Timely
<1> QED BY <1>2, <1>3

LEMMA MarkUnknownPrompt ==
  ASSUME PromptInv, NEW c \in Callers, MarkUnknown(c) PROVE Timely' /\ Charged'
<1> DEFINE o == call[c].op
<1>1. /\ o \in Ops /\ call[c].pc = "mark" /\ Go(c, "release")
      /\ UNCHANGED <<health, fence, reap, billed, invoked>>
  BY DEF MarkUnknown, PromptInv, BudgetInv, Working, At
<1>2. CASE UNCHANGED row
  BY <1>1, <1>2, GoesOn DEF At
<1>3. CASE MayInvoke(c) /\ row' = [row EXCEPT ![o].status = "invoking"]
  <2>1. /\ row[o].status = "reserved" /\ row[o].attempt = c /\ row[o] \in Reservation
        /\ row' = [row EXCEPT ![o] = InvokedBlind(row[o])]
    BY <1>1, <1>3 DEF MayInvoke, Mine, InvokedBlind, PromptInv, BudgetInv, Records
  <2>2. /\ row'[o].status = "invoking" /\ row'[o].attempt = c
        /\ row'[o].expired = row[o].expired
        /\ \A x \in Ops \ {o} : row'[x] = row[x]
    <3>1. /\ InvokedBlind(row[o]).status = "invoking"
          /\ InvokedBlind(row[o]).attempt = row[o].attempt
          /\ InvokedBlind(row[o]).expired = row[o].expired
      BY <2>1, InvokingTypes
    <3> QED BY <1>1, <2>1, <3>1 DEF PromptInv, BudgetInv, Records
  <2>3. /\ call'[c].pc = "release" /\ call'[c].op = o
        /\ \A d \in Callers \ {c} : call'[d] = call[d]
    BY <1>1, GoTypes DEF PromptInv, BudgetInv, Records
  <2> HIDE DEF o
  <2>5. Serving'
    BY <1>1, <2>1, <2>2, <2>3 DEF PromptInv, BudgetInv, Working, Timely, Serving
  <2>6. Overruns' /\ Reaping' /\ Lapses'
    <3>1. Overruns'
      BY <1>1, <2>1, <2>2, <2>3 DEF PromptInv, BudgetInv, Named, Timely, Overruns, Late, Live
    <3>2. Reaping'
      BY <1>1, <2>1, <2>2, <2>3 DEF PromptInv, BudgetInv, Records, Named, Timely, Reaping, Late
    <3>3. Lapses'
      BY <1>1, <2>3 DEF PromptInv, Timely, Lapses, Late
    <3> QED BY <3>1, <3>2, <3>3
  <2>7. Probes' /\ ErasureNotOvertaken'
    BY <1>1, <2>3 DEF PromptInv, Timely, Probes, ErasureNotOvertaken, At
  <2>8. Charged'
    <3>2. \A x \in Ops : row'[x].status \in Final => billed[x] <= row'[x].actual
      BY <2>2 DEF PromptInv, Charged, Final
    <3>3. \A x \in Ops : row'[x].attempt = row[x].attempt
      BY <2>1, <2>2
    <3>4. \A d \in Callers : call[d].pc \notin {"start", "done"} => call[d].op \in Ops
      BY DEF PromptInv, BudgetInv, Working
    <3> QED BY <1>1, <2>1, <2>3, <3>2, <3>3, <3>4 DEF PromptInv, Charged, o
  <2> QED BY <2>5, <2>6, <2>7, <2>8 DEF Timely
<1> QED BY <1>2, <1>3 DEF MarkUnknown

(* An operation ends after its call is past the provider. *)
LEMMA EndingPrompt ==
  ASSUME PromptInv, NEW o \in Ops, NEW c, NEW from \in SUBSET Live, NEW to \in Final,
         NEW used \in Nat, used <= Estimate[o],
         Transition(o, c, from, to, used), UNCHANGED <<health, fence, billed, invoked>>,
         reap' \in {reap, Nobody},
         \A d \in Callers :
           call'[d] # call[d] => call[d].pc \in Late /\ call'[d].pc \in {"abandon", "record", "done"},
         row[o].status \in from /\ row[o].attempt = c => call[c].pc # "invoke" /\ billed[o] <= used
  PROVE  Timely' /\ Charged'
<1>1. /\ \A x \in Ops : row'[x].attempt = row[x].attempt
      /\ \A x \in Ops : \/ row'[x] = row[x]
                        \/ /\ x = o /\ row[o].status \in from /\ row[o].attempt = c
                           /\ row'[o].status = to /\ row'[o].actual = used /\ ~row'[o].expired
  <2>1. Records /\ Named
    BY DEF PromptInv, BudgetInv
  <2>2. \A x \in Ops : row'[x].attempt = row[x].attempt
    BY <2>1, TransitionTypes
  <2>3. \A x \in Ops : \/ row'[x] = row[x]
                     \/ /\ x = o /\ row[o].status \in from /\ row[o].attempt = c
                        /\ row'[o].status = to /\ row'[o].actual = used /\ ~row'[o].expired
    BY <2>1, TransitionTypes
  <2> QED BY <2>2, <2>3
<1>2. to \notin Live /\ to # "none"
  BY DEF Live, Final
<1>3. Serving'
  BY <1>1 DEF PromptInv, BudgetInv, Working, Timely, Serving, Late
<1>4. Overruns'
  BY <1>1, <1>2 DEF PromptInv, BudgetInv, Named, Timely, Overruns, Late, Live
<1>5. Reaping'
  BY <1>1, <1>2 DEF PromptInv, BudgetInv, Records, Named, Timely, Reaping, Late
<1>6. Lapses'
  BY DEF PromptInv, Timely, Lapses, Late
<1>7. Probes' /\ ErasureNotOvertaken'
  BY DEF PromptInv, Timely, Probes, ErasureNotOvertaken, At, Late
<1>8. Charged'
  <2>1. \A x \in Ops : row'[x].status \in Final => billed[x] <= row'[x].actual
    BY <1>1 DEF PromptInv, Charged
  <2>2. \A d \in Callers : call[d].pc \notin {"start", "done"} => call[d].op \in Ops
    BY DEF PromptInv, BudgetInv, Working
  <2> QED BY <1>1, <2>1, <2>2 DEF PromptInv, Charged, Late
<1> QED BY <1>3, <1>4, <1>5, <1>6, <1>7, <1>8 DEF Timely

LEMMA ReleasePrompt ==
  ASSUME PromptInv, NEW c \in Callers, Release(c) PROVE Timely' /\ Charged'
<1>1. /\ call[c].op \in Ops /\ call[c].pc = "release" /\ Estimate[call[c].op] \in Nat
      /\ Transition(call[c].op, c, Live, "released", 0)
      /\ UNCHANGED <<health, fence, reap, billed, invoked>>
  BY DEF Release, PromptInv, BudgetInv, Working, At
<1>2. call'[c].pc \in {"abandon", "done"} /\ \A d \in Callers \ {c} : call'[d] = call[d]
  <2>1. Go(c, FirstRefusalStep(c)) /\ FirstRefusalStep(c) \in {"abandon", "done"}
    BY DEF Release, FirstRefusalStep
  <2> QED BY <2>1, GoTypes DEF PromptInv, BudgetInv, Records
<1>3. /\ Live \in SUBSET Live /\ "released" \in Final /\ 0 \in Nat /\ 0 <= Estimate[call[c].op]
      /\ reap' \in {reap, Nobody}
  BY <1>1 DEF Final
<1>4. row[call[c].op].status \in Live /\ row[call[c].op].attempt = c
      => call[c].pc # "invoke" /\ billed[call[c].op] <= 0
  BY <1>1 DEF PromptInv, Charged
<1>5. \A d \in Callers :
        call'[d] # call[d] => call[d].pc \in Late /\ call'[d].pc \in {"abandon", "record", "done"}
  BY <1>1, <1>2 DEF Late
<1> QED BY <1>1, <1>3, <1>4, <1>5, EndingPrompt

LEMMA FinishPrompt ==
  ASSUME PromptInv, NEW c \in Callers, Finish(c) PROVE Timely' /\ Charged'
<1> DEFINE o == call[c].op
           d == Disposition(c)
<1>1. /\ o \in Ops /\ call[c].pc = "finish"
      /\ Transition(o, c, d.from, d.to, d.used)
      /\ UNCHANGED <<health, fence, reap, billed, invoked>>
  BY DEF Finish, PromptInv, BudgetInv, Working, At
<1>2. call'[c].pc \in {"record", "done"} /\ \A k \in Callers \ {c} : call'[k] = call[k]
  <2>1. Go(c, "record") \/ Go(c, "done")
    BY DEF Finish
  <2> QED BY <2>1, GoTypes DEF PromptInv, BudgetInv, Records
<1>3. d.from \in SUBSET Live /\ d.to \in Final /\ d.used \in Nat /\ d.used <= Estimate[o]
  BY <1>1, DispositionTypes DEF PromptInv, At
<1>4. row[o].attempt = c => billed[o] <= d.used
  <2> SUFFICES ASSUME row[o].attempt = c PROVE billed[o] <= d.used
    OBVIOUS
  <2>1. /\ billed[o] \in Nat /\ billed[o] <= Estimate[o]
        /\ call[c].outcome = "settled" => billed[o] = call[c].used
        /\ call[c].outcome \notin {"settled", "ambiguous"} => billed[o] = 0
    BY <1>1 DEF PromptInv, BudgetInv, Records, Charged
  <2> HIDE DEF o
  <2>2. CASE call[c].outcome = "settled"
    BY <2>1, <2>2 DEF Disposition
  <2>3. CASE call[c].outcome = "ambiguous"
    BY <2>1, <2>3 DEF Disposition, o
  <2>4. CASE call[c].outcome \notin {"settled", "ambiguous"}
    BY <2>1, <2>4 DEF Disposition
  <2> QED BY <2>2, <2>3, <2>4
<1>5. \A k \in Callers :
        call'[k] # call[k] => call[k].pc \in Late /\ call'[k].pc \in {"abandon", "record", "done"}
  BY <1>1, <1>2 DEF Late
<1>6. row[o].status \in d.from /\ row[o].attempt = c
      => call[c].pc # "invoke" /\ billed[o] <= d.used
  BY <1>1, <1>4
<1>7. reap' \in {reap, Nobody}
  BY <1>1
<1> HIDE DEF o, d
<1> QED BY <1>1, <1>3, <1>5, <1>6, <1>7, EndingPrompt

LEMMA ReapPrompt == ASSUME PromptInv, Reap PROVE Timely' /\ Charged'
<1> DEFINE o == reap.op
           a == row[o].attempt
<1>1. /\ o \in Ops /\ Estimate[o] \in Nat /\ reap # Nobody
      /\ UNCHANGED <<health, fence, billed, invoked, call>> /\ reap' = Nobody
  BY DEF Reap, PromptInv, BudgetInv, Records
<1>2. call[a].pc # "invoke"
  BY <1>1 DEF PromptInv, Timely, Reaping, Late
<1>3. CASE reap.status = "reserved" /\ Transition(o, a, Live, "released", 0)
  <2>1. billed[o] <= 0
    BY <1>1, <1>3 DEF PromptInv, Charged
  <2>2. /\ Live \in SUBSET Live /\ "released" \in Final /\ 0 \in Nat /\ 0 <= Estimate[o]
    BY <1>1 DEF Final
  <2> HIDE DEF o, a
  <2> QED BY <1>1, <1>2, <1>3, <2>1, <2>2, EndingPrompt
<1>4. CASE Transition(o, a, {"invoking"}, "ambiguous_charged", Estimate[o])
  <2>1. billed[o] <= Estimate[o]
    BY <1>1 DEF PromptInv, Charged
  <2>2. /\ {"invoking"} \in SUBSET Live /\ "ambiguous_charged" \in Final
        /\ Estimate[o] <= Estimate[o]
    BY <1>1 DEF Final, Live
  <2> HIDE DEF o, a
  <2> QED BY <1>1, <1>2, <1>4, <2>1, <2>2, EndingPrompt
<1> QED BY <1>3, <1>4 DEF Reap

(* Charges at the provider: the call that answers or dies there has its row *)
(* to itself, and the row has nothing on its bill.                          *)
LEMMA AtProvider ==
  ASSUME PromptInv, NEW c \in Callers, call[c].pc = "invoke"
  PROVE  /\ call[c].op \in Ops /\ row[call[c].op].status = "invoking"
         /\ row[call[c].op].attempt = c /\ invoked[call[c].op] # 0
         /\ billed[call[c].op] = 0 /\ Estimate[call[c].op] \in Nat
         /\ reap # Nobody => reap.op # call[c].op
<1>1. call[c].op \in Ops
  BY DEF PromptInv, BudgetInv, Working
<1>2. /\ row[call[c].op].status = "invoking"
      /\ row[call[c].op].attempt = c /\ invoked[call[c].op] # 0
  BY DEF PromptInv, Timely, Serving
<1>3. reap # Nobody => reap.op # call[c].op
  BY <1>2 DEF PromptInv, Timely, Reaping, Late
<1> QED BY <1>1, <1>2, <1>3 DEF PromptInv, Charged

LEMMA AnswerPrompt ==
  ASSUME PromptInv, NEW c \in Callers, Answer(c) PROVE Timely' /\ Charged'
<1> DEFINE o == call[c].op
<1>1. /\ o \in Ops /\ row[o].status = "invoking" /\ row[o].attempt = c /\ invoked[o] # 0
      /\ billed[o] = 0 /\ Estimate[o] \in Nat /\ (reap # Nobody => reap.op # o)
      /\ call[c].pc = "invoke" /\ UNCHANGED <<row, health, fence, reap, invoked>>
  BY AtProvider DEF Answer, At
<1>2. PICK outcome \in Outcomes : \E charge \in Charges(o, outcome) :
        /\ call' = [call EXCEPT ![c].pc = "finish", ![c].outcome = outcome, ![c].used = charge]
        /\ billed' = [billed EXCEPT ![o] = @ + charge]
  BY DEF Answer
<1>3. PICK charge \in Charges(o, outcome) :
        /\ call' = [call EXCEPT ![c] = Answered(call[c], outcome, charge)]
        /\ billed' = [billed EXCEPT ![o] = billed[o] + charge]
  BY <1>2, ZenonT(60) DEF Answered
<1> HIDE DEF o
<1>4. /\ charge \in Nat /\ charge <= Estimate[o]
      /\ outcome \notin {"settled", "ambiguous"} => charge = 0
  BY <1>1, <1>3 DEF Charges, Outcomes
<1>5. /\ call'[c].pc = "finish" /\ call'[c].op = o
      /\ call'[c].outcome = outcome /\ call'[c].used = charge
      /\ \A d \in Callers \ {c} : call'[d] = call[d]
  <2>1. call[c] \in Call
    BY DEF PromptInv, BudgetInv, Records
  <2>2. /\ Answered(call[c], outcome, charge).pc = "finish"
        /\ Answered(call[c], outcome, charge).outcome = outcome
        /\ Answered(call[c], outcome, charge).used = charge
        /\ Answered(call[c], outcome, charge).op = call[c].op
    BY <1>4, <2>1, AnsweredTypes
  <2> QED BY <1>3, <2>2 DEF PromptInv, BudgetInv, Records, o
<1>6. billed'[o] = charge /\ \A x \in Ops \ {o} : billed'[x] = billed[x]
  BY <1>1, <1>3, <1>4 DEF PromptInv, BudgetInv, Records
<1>7. Serving' /\ Probes' /\ ErasureNotOvertaken'
  BY <1>1, <1>5 DEF PromptInv, Timely, Serving, Probes, ErasureNotOvertaken, At
<1>8. Overruns' /\ Reaping' /\ Lapses'
  <2>1. Overruns'
    BY <1>1, <1>5 DEF PromptInv, BudgetInv, Named, Timely, Overruns, Late, Live
  <2>2. Reaping'
    BY <1>1, <1>5 DEF PromptInv, BudgetInv, Records, Named, Timely, Reaping, Late
  <2>3. Lapses'
    BY <1>1, <1>5 DEF PromptInv, Timely, Lapses, Late
  <2> QED BY <2>1, <2>2, <2>3
<1>9. Charged'
  <2>1. \A x \in Ops : billed'[x] <= Estimate[x] /\ (invoked'[x] = 0 => billed'[x] = 0)
    BY <1>1, <1>4, <1>6 DEF PromptInv, Charged
  <2>2. \A x \in Ops : row'[x].status \in Final => billed'[x] <= row'[x].actual
    BY <1>1, <1>6 DEF PromptInv, Charged, Final
  <2>3. reap' # Nobody /\ reap'.status = "reserved" => billed'[reap'.op] = 0
    BY <1>1, <1>6 DEF PromptInv, BudgetInv, Records, Charged
  <2>4. \A d \in Callers : call[d].pc \notin {"start", "done"} => call[d].op \in Ops
    BY DEF PromptInv, BudgetInv, Working
  <2> QED BY <1>1, <1>4, <1>5, <1>6, <2>1, <2>2, <2>3, <2>4 DEF PromptInv, Charged
<1> QED BY <1>7, <1>8, <1>9 DEF Timely

LEMMA FinishFailsPrompt ==
  ASSUME PromptInv, NEW c \in Callers, FinishFails(c) PROVE Timely' /\ Charged'
BY GoesOn DEF FinishFails

(* Only the probe's own call moves a half-open breaker, and only its        *)
(* success closes one that is not closed.                                   *)
LEMMA BreakerMoves ==
  ASSUME health \in Breaker, NEW c \in Callers,
         NEW h \in {AfterSuccess(c), AfterFailure(c)}
  PROVE  /\ h.state = "half_open" => h = health
         /\ health.state = "half_open" /\ health.token # c => h = health
         /\ health.state # "closed" /\ h.state = "closed"
              => h = AfterSuccess(c) /\ call[c].gate = "probe" /\ health.token = c
<1>1. Closed.state = "closed"
  BY DEF Closed
<1>2. [health EXCEPT !.fails = 0].state = health.state
  BY DEF Breaker
<1>3. Counted(health).state = health.state
  BY DEF Counted, Breaker
<1>4. [Counted(health) EXCEPT !.state = "open", !.over = FALSE, !.token = Nobody].state = "open"
  BY DEF Counted, Breaker
<1>5. Tripped(Counted(health)).state \in {"open", health.state}
  BY <1>3, <1>4 DEF Tripped
<1>6. CASE h = AfterSuccess(c)
  <2>1. CASE call[c].gate = "probe" /\ health.state = "half_open" /\ health.token = c
    BY <1>1, <1>6, <2>1 DEF AfterSuccess
  <2>2. CASE call[c].gate = "closed" /\ health.state = "closed"
    BY <1>2, <1>6, <2>2 DEF AfterSuccess
  <2>3. CASE /\ ~(call[c].gate = "probe" /\ health.state = "half_open" /\ health.token = c)
             /\ ~(call[c].gate = "closed" /\ health.state = "closed")
    BY <1>6, <2>3 DEF AfterSuccess
  <2> QED BY <2>1, <2>2, <2>3
<1>7. CASE h = AfterFailure(c)
  <2>1. CASE call[c].gate = "probe" /\ health.state = "half_open" /\ health.token = c
    <3>1. h.state = "open"
      BY <1>4, <1>7, <2>1 DEF AfterFailure
    <3> QED BY <2>1, <3>1
  <2>2. CASE call[c].gate = "closed" /\ health.state = "closed"
    <3>1. h.state \in {"open", "closed"}
      BY <1>5, <1>7, <2>2 DEF AfterFailure
    <3> QED BY <2>2, <3>1
  <2>3. CASE /\ ~(call[c].gate = "probe" /\ health.state = "half_open" /\ health.token = c)
             /\ ~(call[c].gate = "closed" /\ health.state = "closed")
    BY <1>7, <2>3 DEF AfterFailure
  <2> QED BY <2>1, <2>2, <2>3
<1> QED BY <1>6, <1>7

LEMMA RecordPrompt ==
  ASSUME PromptInv, NEW c \in Callers, Record(c) PROVE Timely' /\ Charged'
<1>1. /\ call[c].pc = "record" /\ call'[c].pc = "done"
      /\ \A d \in Callers \ {c} : call'[d] = call[d]
      /\ UNCHANGED <<row, fence, reap, billed, invoked>>
  BY GoTypes DEF Record, At, PromptInv, BudgetInv, Records
<1>2. /\ health'.state = "half_open" => health' = health
      /\ health.state = "half_open" /\ health.token # c => health' = health
  <2>1. health \in Breaker /\ health' \in {AfterSuccess(c), AfterFailure(c)}
    BY DEF Record, PromptInv, BudgetInv, Records
  <2> QED BY <2>1, BreakerMoves
<1>3. Serving' /\ ErasureNotOvertaken' /\ Probes'
  BY <1>1, <1>2 DEF PromptInv, Timely, Serving, Probes, ErasureNotOvertaken, At
<1>4. Overruns' /\ Reaping' /\ Lapses'
  <2>1. Overruns'
    BY <1>1 DEF PromptInv, BudgetInv, Named, Timely, Overruns, Late, Live
  <2>2. Reaping'
    BY <1>1 DEF PromptInv, BudgetInv, Records, Named, Timely, Reaping, Late
  <2>3. Lapses'
    BY <1>1, <1>2 DEF PromptInv, Timely, Lapses, Late
  <2> QED BY <2>1, <2>2, <2>3
<1>5. Charged'
  BY <1>1 DEF PromptInv, Charged
<1> QED BY <1>3, <1>4, <1>5 DEF Timely

LEMMA CrashPrompt ==
  ASSUME PromptInv, NEW c \in Callers, Crash(c) PROVE Timely' /\ Charged'
<1> DEFINE o == call[c].op
<1>1. /\ o \in Ops /\ Go(c, "done") /\ UNCHANGED <<row, health, fence, reap, invoked>>
      /\ Estimate[o] \in Nat /\ billed[o] \in Nat
  BY DEF Crash, PromptInv, BudgetInv, Working, Records
<1>2. PICK charge \in IF At(c, "invoke") THEN 0 .. Estimate[o] ELSE {0} :
        billed' = [billed EXCEPT ![o] = @ + charge]
  BY DEF Crash
<1>3. CASE ~At(c, "invoke")
  <2>1. billed' = billed
    BY <1>1, <1>2, <1>3 DEF PromptInv, BudgetInv, Records
  <2> QED BY <1>1, <2>1, GoesOn
<1>4. CASE At(c, "invoke")
  <2>1. /\ row[o].status = "invoking" /\ row[o].attempt = c /\ invoked[o] # 0
        /\ billed[o] = 0 /\ (reap # Nobody => reap.op # o)
    BY <1>4, AtProvider DEF At
  <2>2. charge \in Nat /\ charge <= Estimate[o]
    BY <1>1, <1>2, <1>4
  <2> HIDE DEF o
  <2>3. billed'[o] = charge /\ \A x \in Ops \ {o} : billed'[x] = billed[x]
    BY <1>1, <1>2, <2>1, <2>2 DEF PromptInv, BudgetInv, Records
  <2>4. call'[c].pc = "done" /\ \A d \in Callers \ {c} : call'[d] = call[d]
    BY <1>1, GoTypes DEF PromptInv, BudgetInv, Records
  <2>5. Serving' /\ Probes' /\ ErasureNotOvertaken'
    BY <1>1, <2>4 DEF PromptInv, Timely, Serving, Probes, ErasureNotOvertaken, At
  <2>6. Overruns'
    BY <1>1, <2>4 DEF PromptInv, BudgetInv, Named, Timely, Overruns, Late, Live
  <2>7. Reaping'
    BY <1>1, <2>4 DEF PromptInv, BudgetInv, Records, Named, Timely, Reaping, Late
  <2>8. Lapses'
    BY <1>1, <2>4 DEF PromptInv, Timely, Lapses, Late
  <2>9. Charged'
    <3>1. \A x \in Ops : billed'[x] <= Estimate[x] /\ (invoked'[x] = 0 => billed'[x] = 0)
      BY <1>1, <2>1, <2>2, <2>3 DEF PromptInv, Charged
    <3>2. \A x \in Ops : row'[x].status \in Final => billed'[x] <= row'[x].actual
      BY <1>1, <2>1, <2>3 DEF PromptInv, Charged, Final
    <3>3. reap' # Nobody /\ reap'.status = "reserved" => billed'[reap'.op] = 0
      BY <1>1, <2>1, <2>3 DEF PromptInv, BudgetInv, Records, Charged
    <3>4. \A d \in Callers : call[d].pc \notin {"start", "done"} => call[d].op \in Ops
      BY DEF PromptInv, BudgetInv, Working
    <3> QED BY <1>1, <2>1, <2>3, <2>4, <3>1, <3>2, <3>3, <3>4 DEF PromptInv, Charged
  <2> QED BY <2>5, <2>6, <2>7, <2>8, <2>9 DEF Timely
<1> QED BY <1>3, <1>4

LEMMA ExpiresPrompt ==
  ASSUME ~SlowCalls, PromptInv, NEW o \in Ops, Expires(o) PROVE Timely' /\ Charged'
<1>1. /\ UNCHANGED <<health, fence, call, reap, billed, invoked>>
      /\ row[o].status \in Live /\ call[row[o].attempt].pc \in Late
      /\ row[o] \in Reservation /\ row' = [row EXCEPT ![o] = Overtaken(row[o])]
  BY DEF Expires, Overdue, Late, Overtaken, PromptInv, BudgetInv, Records
<1>2. /\ row'[o].status = row[o].status /\ row'[o].attempt = row[o].attempt
      /\ row'[o].actual = row[o].actual
      /\ \A x \in Ops \ {o} : row'[x] = row[x]
  <2>1. /\ Overtaken(row[o]).status = row[o].status
        /\ Overtaken(row[o]).attempt = row[o].attempt
        /\ Overtaken(row[o]).actual = row[o].actual
    BY <1>1, TouchedTypes
  <2> QED BY <1>1, <2>1 DEF PromptInv, BudgetInv, Records
<1>3. Serving'
  BY <1>1, <1>2 DEF PromptInv, BudgetInv, Working, Timely, Serving, Late
<1>4. Overruns' /\ Reaping'
  BY <1>1, <1>2 DEF PromptInv, BudgetInv, Records, Timely, Overruns, Reaping
<1>5. Lapses' /\ Probes' /\ ErasureNotOvertaken'
  BY <1>1 DEF PromptInv, Timely, Lapses, Probes, ErasureNotOvertaken, At
<1>6. Charged'
  <2>1. \A x \in Ops : row'[x].attempt = row[x].attempt /\ row'[x].status = row[x].status
                      /\ row'[x].actual = row[x].actual
    BY <1>2
  <2>2. \A d \in Callers : call[d].pc \notin {"start", "done"} => call[d].op \in Ops
    BY DEF PromptInv, BudgetInv, Working
  <2> QED BY <1>1, <2>1, <2>2 DEF PromptInv, Charged
<1> QED BY <1>3, <1>4, <1>5, <1>6 DEF Timely

LEMMA ReapReadPrompt ==
  ASSUME PromptInv, NEW o \in Ops, ReapRead(o) PROVE Timely' /\ Charged'
<1>1. /\ UNCHANGED <<row, health, fence, call, billed, invoked>>
      /\ reap' = [op |-> o, status |-> row[o].status]
      /\ row[o].status \in Live /\ row[o].expired
  BY DEF ReapRead
<1>2. row[o].status = "reserved" => billed[o] = 0
  BY DEF PromptInv, BudgetInv, Uninvoked, Charged
<1>3. Reaping'
  BY <1>1 DEF PromptInv, Timely, Overruns, Reaping, Live
<1>4. Serving' /\ Overruns' /\ Lapses' /\ Probes' /\ ErasureNotOvertaken'
  BY <1>1 DEF PromptInv, Timely, Serving, Overruns, Lapses, Probes, ErasureNotOvertaken, At
<1>5. Charged'
  BY <1>1, <1>2 DEF PromptInv, Charged
<1> QED BY <1>3, <1>4, <1>5 DEF Timely

LEMMA ErasePrompt == ASSUME PromptInv, Erase PROVE Timely' /\ Charged'
<1>1. UNCHANGED <<health, call, reap, billed, invoked>> /\ NoActiveInvocation
  BY DEF Erase
<1>2. \A x \in Ops : /\ row'[x].status = row[x].status /\ row'[x].attempt = row[x].attempt
                    /\ row'[x].actual = row[x].actual /\ row'[x].expired = row[x].expired
  <2>1. row' = [o \in Ops |-> IF o \in Covered THEN Disowned(row[o]) ELSE row[o]]
    BY DEF Erase, Disowned
  <2> SUFFICES ASSUME NEW x \in Ops
               PROVE  /\ row'[x].status = row[x].status /\ row'[x].attempt = row[x].attempt
                      /\ row'[x].actual = row[x].actual /\ row'[x].expired = row[x].expired
    OBVIOUS
  <2>2. row[x] \in Reservation /\ row'[x] = IF x \in Covered THEN Disowned(row[x]) ELSE row[x]
    BY <2>1 DEF PromptInv, BudgetInv, Records
  <2>3. /\ Disowned(row[x]).status = row[x].status /\ Disowned(row[x]).attempt = row[x].attempt
        /\ Disowned(row[x]).actual = row[x].actual /\ Disowned(row[x]).expired = row[x].expired
    BY <2>2, TouchedTypes
  <2> QED BY <2>2, <2>3
<1>3. Serving'
  BY <1>1, <1>2 DEF PromptInv, BudgetInv, Working, Timely, Serving
<1>4. Overruns' /\ Reaping'
  BY <1>1, <1>2 DEF PromptInv, BudgetInv, Records, Timely, Overruns, Reaping
<1>5. Lapses' /\ Probes'
  BY <1>1 DEF PromptInv, Timely, Lapses, Probes, At
<1>6. ErasureNotOvertaken'
  BY <1>1 DEF PromptInv, Timely, Serving, ErasureNotOvertaken, NoActiveInvocation, Covered, At
<1>7. Charged'
  <2>1. \A d \in Callers : call[d].pc \notin {"start", "done"} => call[d].op \in Ops
    BY DEF PromptInv, BudgetInv, Working
  <2> QED BY <1>1, <1>2, <2>1 DEF PromptInv, Charged
<1> QED BY <1>3, <1>4, <1>5, <1>6, <1>7 DEF Timely

LEMMA ElsewherePrompt ==
  ASSUME ~SlowCalls, PromptInv,
         CooldownOver \/ ProbeLeaseOver \/ Midnight \/ Disable \/ ArmFence \/ UNCHANGED vars
  PROVE  Timely' /\ Charged'
<1>1. UNCHANGED <<row, call, reap, billed, invoked>>
  BY DEF CooldownOver, ProbeLeaseOver, Midnight, Disable, ArmFence, vars
<1>2. /\ health'.state = health.state /\ health'.token = health.token
      /\ health'.state = "half_open" /\ health'.over =>
           health.over \/ call[health.token].pc \in Late
  BY DEF CooldownOver, ProbeLeaseOver, Midnight, Disable, ArmFence, vars, Overdue, Late,
         PromptInv, BudgetInv, Records, Breaker
<1>3. fence' = "clear" => fence = "clear"
  BY DEF CooldownOver, ProbeLeaseOver, Midnight, Disable, ArmFence, vars
<1>4. Serving' /\ Overruns' /\ Reaping' /\ Probes' /\ ErasureNotOvertaken'
  BY <1>1, <1>2, <1>3
  DEF PromptInv, Timely, Serving, Overruns, Reaping, Probes, ErasureNotOvertaken, At
<1>5. Lapses'
  BY <1>1, <1>2 DEF PromptInv, Timely, Lapses
<1>6. Charged'
  BY <1>1 DEF PromptInv, Charged
<1> QED BY <1>4, <1>5, <1>6 DEF Timely

LEMMA PromptNext == ~SlowCalls /\ PromptInv /\ [BudgetNext]_vars => PromptInv'
<1> SUFFICES ASSUME ~SlowCalls, PromptInv, [BudgetNext]_vars PROVE Timely' /\ Charged'
  BY NextInv DEF PromptInv
<1>1. ASSUME NEW c \in Callers, CallStep(c) PROVE Timely' /\ Charged'
  BY <1>1, GateReadPrompt, ClaimProbePrompt, AbandonProbePrompt, ReservePrompt, MarkPrompt,
     ReleasePrompt, AnswerPrompt, FinishPrompt, RecordPrompt DEF CallStep
<1>2. ASSUME NEW c \in Callers, MarkUnknown(c) \/ FinishFails(c) \/ Crash(c)
      PROVE  Timely' /\ Charged'
  BY <1>2, MarkUnknownPrompt, FinishFailsPrompt, CrashPrompt
<1>3. ASSUME NEW o \in Ops, Expires(o) \/ ReapRead(o) PROVE Timely' /\ Charged'
  BY <1>3, ExpiresPrompt, ReapReadPrompt
<1> QED BY <1>1, <1>2, <1>3, ReapPrompt, ErasePrompt, ElsewherePrompt DEF BudgetNext, Quiet

---------------------------------------------------------------------------
(* The books stay in order through every interleaving of callers, reaper    *)
(* and crashes (the inductive invariant of reserveSpend,                    *)
(* markReservationInvoking and transitionReservation).                      *)
THEOREM BooksInOrder == BudgetSpec => []BudgetInv
<1>1. BudgetInit => BudgetInv
  BY InitInv
<1>2. BudgetInv /\ [BudgetNext]_vars => BudgetInv'
  BY NextInv
<1> QED BY <1>1, <1>2, PTL DEF BudgetSpec

(* No operation reaches the provider twice, however many executions retry   *)
(* it and wherever they die (markReservationInvoking).                      *)
THEOREM InvokesOnce == BudgetSpec => []InvokedOnce
<1>1. BudgetInv => InvokedOnce
  BY DEF BudgetInv
<1> QED BY <1>1, BooksInOrder, PTL

(* Admission never promises more than the ceiling, for any number of        *)
(* concurrent calls and any days on which they end (reserveSpend).          *)
THEOREM CeilingHolds == BudgetSpec => []WithinCeiling
<1>1. BudgetInv => WithinCeiling
  BY DEF BudgetInv
<1> QED BY <1>1, BooksInOrder, PTL

(* As long as no call outlasts its reservation, the books say who may be at *)
(* the provider and what it has charged.                                    *)
THEOREM CallsInTime == ASSUME ~SlowCalls PROVE BudgetSpec => []PromptInv
<1>1. BudgetInit => PromptInv
  BY PromptInit
<1>2. PromptInv /\ [BudgetNext]_vars => PromptInv'
  BY PromptNext
<1> QED BY <1>1, <1>2, PTL DEF BudgetSpec

(* Then nothing that may have been billed is released: the charge of an     *)
(* operation that is over is on the books (finishProviderCall, reaper).     *)
THEOREM SpendIsCovered == ASSUME ~SlowCalls PROVE BudgetSpec => []SpendCovered
<1>1. PromptInv => SpendCovered
  BY DEF PromptInv, Charged, SpendCovered
<1> QED BY <1>1, CallsInTime, PTL

(* Then an erasure that goes ahead has no covered content at the provider,  *)
(* and none gets there (assertNoActiveProviderInvocation).                  *)
THEOREM ErasureIsNotOvertaken == ASSUME ~SlowCalls PROVE BudgetSpec => []ErasureNotOvertaken
<1>1. PromptInv => ErasureNotOvertaken
  BY DEF PromptInv, Timely
<1> QED BY <1>1, CallsInTime, PTL

(* Then a half-open breaker lets one probe through (acquireBreakerGate).    *)
THEOREM ProbesAlone == ASSUME ~SlowCalls PROVE BudgetSpec => []OneProbe
<1>1. PromptInv => OneProbe
  <2> SUFFICES ASSUME PromptInv PROVE OneProbe
    OBVIOUS
  <2> DEFINE P == {c \in Callers : call[c].gate = "probe" /\ call[c].pc = "invoke"}
  <2>1. P \subseteq {health.token}
    BY DEF PromptInv, Timely, Probes
  <2>2. IsFiniteSet({health.token}) /\ Cardinality({health.token}) = 1
    BY FS_Singleton
  <2>3. Cardinality(P) \in Nat /\ Cardinality(P) <= 1
    BY <2>1, <2>2, FS_Subset, FS_CardinalityType
  <2> QED BY <2>3 DEF OneProbe
<1> QED BY <1>1, CallsInTime, PTL

(* Only the success of the probe that holds the breaker closes it, however  *)
(* late other calls answer (recordProviderOutcome).                         *)
THEOREM OnlyProbesClose == BudgetSpec => ProbeCloses
<1>1. BudgetInv /\ [BudgetNext]_vars =>
        (health.state # "closed" /\ health'.state = "closed" =>
           \E c \in Callers : health.token = c /\ call[c].gate = "probe" /\ At(c, "record"))
  <2> SUFFICES ASSUME BudgetInv, [BudgetNext]_vars, health.state # "closed", health'.state = "closed"
               PROVE  \E c \in Callers : health.token = c /\ call[c].gate = "probe" /\ At(c, "record")
    OBVIOUS
  <2>1. health \in Breaker /\ health' # health
    BY DEF BudgetInv, Records
  <2>2. ASSUME NEW c \in Callers, Record(c)
        PROVE  health.token = c /\ call[c].gate = "probe" /\ At(c, "record")
    <3>1. health' \in {AfterSuccess(c), AfterFailure(c)} /\ At(c, "record")
      BY <2>2 DEF Record
    <3> QED BY <2>1, <3>1, BreakerMoves
  <2>3. ASSUME NEW c \in Callers, ClaimProbe(c) \/ AbandonProbe(c) PROVE FALSE
    <3>1. health'.state \in {"half_open", "open"} \/ health' = health
      BY <2>1, <2>3 DEF ClaimProbe, AbandonProbe, Breaker
    <3> QED BY <2>1, <3>1
  <2>4. ~CooldownOver /\ ~ProbeLeaseOver
    BY <2>1 DEF CooldownOver, ProbeLeaseOver, Breaker
  <2> QED BY <2>1, <2>2, <2>3, <2>4
          DEF BudgetNext, CallStep, GateRead, Reserve, Mark, Release, Answer, Finish, MarkUnknown,
              FinishFails, Crash, Expires, ReapRead, Reap, Midnight, Disable, ArmFence, Erase,
              Quiet, vars
<1> QED BY <1>1, BooksInOrder, PTL DEF BudgetSpec, ProbeCloses

---------------------------------------------------------------------------
(* Sums over finite sets: Pick is the order in which MapThenSumSet adds. *)
Pick(s) == CHOOSE x \in s : TRUE
Adds(g, D, f) == f = [s \in D |-> IF s = {} THEN 0 ELSE g[Pick(s)] + f[s \ {Pick(s)}]]
Adder(g, S) == CHOOSE f : Adds(g, SUBSET S, f)
Total(g, S) == Adder(g, S)[S]

LEMMA LeastNumber ==
  ASSUME NEW T \in SUBSET Nat, T # {}
  PROVE  \E m \in T : \A n \in T : m <= n
<1> DEFINE R == OpToRel(<, Nat)
<1>1. R = {ss \in Nat \X Nat : ss[1] < ss[2]}
  BY DEF OpToRel
<1>2. IsWellFoundedOn(R, Nat)
  BY NatLessThanWellFounded
<1> HIDE DEF R
<1>3. PICK m \in T : \A n \in T : ~ (<<n, m>> \in R)
  BY <1>2, WFMin
<1>4. \A n \in T : n \in Nat /\ ~ (n < m)
  BY <1>1, <1>3
<1> QED BY <1>3, <1>4

(* A family of finite sets has one from which nothing can be taken. *)
LEMMA Minimal ==
  ASSUME NEW U, IsFiniteSet(U), NEW B \in SUBSET SUBSET U, B # {}
  PROVE  \E s \in B : \A x \in s : s \ {x} \notin B
<1> DEFINE T == {Cardinality(s) : s \in B}
<1>1. \A s \in SUBSET U : IsFiniteSet(s) /\ Cardinality(s) \in Nat
  BY FS_Subset, FS_CardinalityType
<1>2. T \in SUBSET Nat /\ T # {}
  BY <1>1
<1>3. PICK m \in T : \A n \in T : m <= n
  <2> HIDE DEF T
  <2> QED BY <1>2, LeastNumber
<1>4. PICK s \in B : m = Cardinality(s)
  BY <1>3
<1>5. ASSUME NEW x \in s, s \ {x} \in B PROVE FALSE
  <2>1. IsFiniteSet(s) /\ Cardinality(s) \in Nat
    BY <1>1
  <2>2. Cardinality(s \ {x}) = Cardinality(s) - 1
    BY <2>1, FS_RemoveElement
  <2>3. Cardinality(s \ {x}) \in T
    BY <1>5
  <2> HIDE DEF T
  <2>4. Cardinality(s) <= Cardinality(s \ {x})
    BY <1>3, <1>4, <2>3
  <2> QED BY <2>1, <2>2, <2>4
<1> QED BY <1>5

LEMMA PickIn == ASSUME NEW s, s # {} PROVE Pick(s) \in s
BY DEF Pick

(* The sums of the subsets of a finite set are defined. *)
LEMMA AdderAdds ==
  ASSUME NEW U, IsFiniteSet(U), NEW g
  PROVE  Adds(g, SUBSET U, Adder(g, U))
<1> SUFFICES \E f : Adds(g, SUBSET U, f)
  BY Zenon DEF Adder
<1> DEFINE UpTo(n) == {s \in SUBSET U : Cardinality(s) <= n}
           B == {n \in Nat : ~ \E f : Adds(g, UpTo(n), f)}
<1>1. \A s \in SUBSET U : IsFiniteSet(s) /\ Cardinality(s) \in Nat
  BY FS_Subset, FS_CardinalityType
<1>2. ASSUME B # {} PROVE FALSE
  <2>1. PICK n \in B : \A k \in B : n <= k
    <3>1. B \in SUBSET Nat
      OBVIOUS
    <3> HIDE DEF B
    <3> QED BY <1>2, <3>1, LeastNumber
  <2>2. n # 0
    <3>1. ASSUME NEW s \in UpTo(0) PROVE s = {}
      <4>1. IsFiniteSet(s) /\ Cardinality(s) = 0
        BY <1>1
      <4> QED BY <4>1, FS_EmptySet
    <3>2. Adds(g, UpTo(0), [s \in UpTo(0) |-> 0])
      <4> HIDE DEF UpTo
      <4> QED BY <3>1 DEF Adds
    <3>3. 0 \notin B
      <4> HIDE DEF UpTo
      <4> QED BY <3>2
    <3> QED BY <3>3
  <2>3. PICK f : Adds(g, UpTo(n - 1), f)
    <3>1. n - 1 \in Nat /\ n - 1 \notin B
      <4>1. n \in Nat
        OBVIOUS
      <4> HIDE DEF B
      <4> QED BY <4>1, <2>1, <2>2
    <3> HIDE DEF UpTo
    <3> QED BY <3>1
  <2> DEFINE h == [s \in UpTo(n) |-> IF s = {} THEN 0 ELSE g[Pick(s)] + f[s \ {Pick(s)}]]
  <2>4. ASSUME NEW s \in UpTo(n), s # {}
        PROVE  h[s \ {Pick(s)}] = f[s \ {Pick(s)}]
    <3>1. Pick(s) \in s
      BY <2>4, PickIn
    <3> DEFINE t == s \ {Pick(s)}
    <3>2. Cardinality(t) = Cardinality(s) - 1
      BY <1>1, <3>1, FS_RemoveElement
    <3>3. t \in UpTo(n - 1) /\ t \in UpTo(n)
      BY <1>1, <3>2
    <3>4. f[t] = IF t = {} THEN 0 ELSE g[Pick(t)] + f[t \ {Pick(t)}]
      <4> HIDE DEF t, UpTo
      <4> QED BY <2>3, <3>3, Zenon DEF Adds
    <3>5. h[t] = IF t = {} THEN 0 ELSE g[Pick(t)] + f[t \ {Pick(t)}]
      <4> HIDE DEF t, UpTo
      <4> QED BY <3>3, Zenon
    <3> QED BY <3>4, <3>5
  <2>5. \A s \in UpTo(n) : (IF s = {} THEN 0 ELSE g[Pick(s)] + f[s \ {Pick(s)}])
                              = IF s = {} THEN 0 ELSE g[Pick(s)] + h[s \ {Pick(s)}]
    <3> HIDE DEF h, UpTo
    <3> QED BY <2>4
  <2>6. Adds(g, UpTo(n), h)
    <3>1. h = [s \in UpTo(n) |-> IF s = {} THEN 0 ELSE g[Pick(s)] + h[s \ {Pick(s)}]]
      <4> HIDE DEF UpTo
      <4> QED BY <2>5, Zenon
    <3> QED BY <3>1 DEF Adds
  <2> HIDE DEF h, UpTo
  <2> QED BY <2>6
<1>3. UpTo(Cardinality(U)) = SUBSET U
  <2>1. \A s \in SUBSET U : Cardinality(s) <= Cardinality(U)
    BY FS_Subset
  <2> QED BY <2>1
<1>4. Cardinality(U) \in Nat /\ Cardinality(U) \notin B
  BY <1>2, FS_CardinalityType
<1> HIDE DEF UpTo
<1> QED BY <1>3, <1>4

(* What a sum is. *)
LEMMA AdderStep ==
  ASSUME NEW U, IsFiniteSet(U), NEW g, \A x \in U : g[x] \in Int
  PROVE  /\ Adder(g, U)[{}] = 0
         /\ \A s \in SUBSET U :
              /\ Adder(g, U)[s] \in Int
              /\ s # {} => Adder(g, U)[s] = g[Pick(s)] + Adder(g, U)[s \ {Pick(s)}]
<1> DEFINE F == Adder(g, U)
<1>1. F = [s \in SUBSET U |-> IF s = {} THEN 0 ELSE g[Pick(s)] + F[s \ {Pick(s)}]]
  BY AdderAdds DEF Adds
<1> HIDE DEF F
<1>2. F[{}] = 0
  BY <1>1, Zenon
<1>3. \A s \in SUBSET U : s # {} => F[s] = g[Pick(s)] + F[s \ {Pick(s)}]
  BY <1>1, Zenon
<1>4. \A s \in SUBSET U : F[s] \in Int
  <2> DEFINE B == {s \in SUBSET U : F[s] \notin Int}
  <2>1. ASSUME B # {} PROVE FALSE
    <3>1. PICK s \in B : \A x \in s : s \ {x} \notin B
      <4>1. B \in SUBSET SUBSET U
        OBVIOUS
      <4> HIDE DEF B
      <4> QED BY <2>1, <4>1, Minimal
    <3>2. s # {}
      BY <1>2
    <3>3. F[s \ {Pick(s)}] \in Int /\ g[Pick(s)] \in Int
      BY <3>1, <3>2, PickIn
    <3>4. F[s] = g[Pick(s)] + F[s \ {Pick(s)}] /\ F[s] \notin Int
      BY <1>3, <3>2
    <3> HIDE DEF B
    <3> QED BY <3>3, <3>4
  <2> QED BY <2>1
<1> QED BY <1>2, <1>3, <1>4 DEF F

(* The order in which it is taken does not matter. *)
LEMMA AnyOrder ==
  ASSUME NEW U, IsFiniteSet(U), NEW g, \A y \in U : g[y] \in Int,
         NEW s \in SUBSET U, NEW x \in s
  PROVE  Adder(g, U)[s] = g[x] + Adder(g, U)[s \ {x}]
<1> DEFINE F == Adder(g, U)
           B == {t \in SUBSET U : \E y \in t : F[t] # g[y] + F[t \ {y}]}
<1>1. \A t \in SUBSET U : /\ F[t] \in Int
                          /\ t # {} => F[t] = g[Pick(t)] + F[t \ {Pick(t)}]
  BY AdderStep
<1> HIDE DEF F
<1>2. ASSUME B # {} PROVE FALSE
  <2>1. PICK t \in B : \A y \in t : t \ {y} \notin B
    <3>1. B \in SUBSET SUBSET U
      OBVIOUS
    <3> HIDE DEF B
    <3> QED BY <1>2, <3>1, Minimal
  <2>2. PICK y \in t : F[t] # g[y] + F[t \ {y}]
    OBVIOUS
  <2> DEFINE c == Pick(t)
  <2>3. c \in t
    BY <2>2, PickIn
  <2>4. F[t] = g[c] + F[t \ {c}]
    BY <1>1, <2>2
  <2> HIDE DEF c
  <2>5. c # y
    BY <2>2, <2>4
  <2>6. F[t \ {c}] = g[y] + F[(t \ {c}) \ {y}]
    BY <2>1, <2>3, <2>5
  <2>7. F[t \ {y}] = g[c] + F[(t \ {c}) \ {y}]
    <3>1. F[t \ {y}] = g[c] + F[(t \ {y}) \ {c}]
      BY <2>1, <2>3, <2>5
    <3>2. (t \ {y}) \ {c} = (t \ {c}) \ {y}
      OBVIOUS
    <3> QED BY <3>1, <3>2
  <2>8. g[y] \in Int /\ g[c] \in Int /\ F[(t \ {c}) \ {y}] \in Int
    BY <1>1, <2>3
  <2>9. F[t] = g[c] + (g[y] + F[(t \ {c}) \ {y}]) /\ F[t] # g[y] + F[t \ {y}]
    BY <2>2, <2>4, <2>6
  <2>10. g[y] + F[t \ {y}] = g[y] + (g[c] + F[(t \ {c}) \ {y}])
    BY <2>7
  <2> HIDE DEF B
  <2> QED BY <2>8, <2>9, <2>10
<1>3. F[s] = g[x] + F[s \ {x}]
  BY <1>2
<1> QED BY <1>3 DEF F

LEMMA TotalEmpty == ASSUME NEW g PROVE Total(g, {}) = 0
<1>1. IsFiniteSet({}) /\ \A x \in {} : g[x] \in Int
  BY FS_EmptySet
<1> QED BY <1>1, AdderStep DEF Total

LEMMA TotalType ==
  ASSUME NEW S, IsFiniteSet(S), NEW g, \A y \in S : g[y] \in Int
  PROVE  Total(g, S) \in Int
BY AdderStep DEF Total

LEMMA TotalNat ==
  ASSUME NEW S, IsFiniteSet(S), NEW g, \A y \in S : g[y] \in Nat
  PROVE  Total(g, S) \in Nat
<1> DEFINE F == Adder(g, S)
           B == {s \in SUBSET S : F[s] \notin Nat}
<1>1. F[{}] = 0 /\ \A s \in SUBSET S : s # {} => F[s] = g[Pick(s)] + F[s \ {Pick(s)}]
  <2>1. \A y \in S : g[y] \in Int
    OBVIOUS
  <2> QED BY <2>1, AdderStep
<1> HIDE DEF F
<1>2. ASSUME B # {} PROVE FALSE
  <2>1. PICK s \in B : \A x \in s : s \ {x} \notin B
    <3>1. B \in SUBSET SUBSET S
      OBVIOUS
    <3> HIDE DEF B
    <3> QED BY <1>2, <3>1, Minimal
  <2>2. s # {}
    <3>1. F[s] \notin Nat
      OBVIOUS
    <3>2. F[{}] \in Nat
      BY <1>1
    <3> HIDE DEF B
    <3> QED BY <3>1, <3>2, Zenon
  <2>3. F[s \ {Pick(s)}] \in Nat /\ g[Pick(s)] \in Nat
    BY <2>1, <2>2, PickIn
  <2>4. F[s] = g[Pick(s)] + F[s \ {Pick(s)}] /\ F[s] \notin Nat
    BY <1>1, <2>2
  <2> HIDE DEF B
  <2> QED BY <2>3, <2>4
<1>3. S \notin B /\ S \in SUBSET S
  BY <1>2
<1> QED BY <1>3 DEF Total, F

(* One more summand. *)
LEMMA TotalAdd ==
  ASSUME NEW S, IsFiniteSet(S), NEW x, x \notin S,
         NEW g, \A y \in S \union {x} : g[y] \in Int
  PROVE  Total(g, S \union {x}) = Total(g, S) + g[x]
<1> DEFINE U == S \union {x}
           F == Adder(g, U)
           G == Adder(g, S)
<1>1. IsFiniteSet(U)
  BY FS_AddElement
<1>2. /\ F[{}] = 0 /\ G[{}] = 0
      /\ \A s \in SUBSET S : s # {} => /\ F[s] = g[Pick(s)] + F[s \ {Pick(s)}]
                                       /\ G[s] = g[Pick(s)] + G[s \ {Pick(s)}]
      /\ F[S] \in Int /\ F[U] = g[x] + F[U \ {x}]
  <2>1. \A y \in U : g[y] \in Int
    OBVIOUS
  <2>2. x \in U /\ S \in SUBSET U /\ U \in SUBSET U /\ \A s \in SUBSET S : s \in SUBSET U
    OBVIOUS
  <2>3. IsFiniteSet(S) /\ \A y \in S : g[y] \in Int
    OBVIOUS
  <2> HIDE DEF U
  <2>4. /\ G[{}] = 0
        /\ \A s \in SUBSET S : s # {} => G[s] = g[Pick(s)] + G[s \ {Pick(s)}]
    BY <2>3, AdderStep
  <2>5. /\ F[{}] = 0
        /\ \A s \in SUBSET U : s # {} => F[s] = g[Pick(s)] + F[s \ {Pick(s)}]
        /\ \A s \in SUBSET U : F[s] \in Int
    BY <1>1, <2>1, AdderStep
  <2>6. F[U] = g[x] + F[U \ {x}]
    BY <1>1, <2>1, <2>2, AnyOrder
  <2> HIDE DEF F, G
  <2> QED BY <2>2, <2>4, <2>5, <2>6
<1> HIDE DEF F, G
<1>3. \A s \in SUBSET S : F[s] = G[s]
  <2> DEFINE B == {s \in SUBSET S : F[s] # G[s]}
  <2>1. ASSUME B # {} PROVE FALSE
    <3>1. PICK s \in B : \A y \in s : s \ {y} \notin B
      <4>1. B \in SUBSET SUBSET S
        OBVIOUS
      <4> HIDE DEF B
      <4> QED BY <2>1, <4>1, Minimal
    <3>2. s # {}
      BY <1>2
    <3>3. F[s \ {Pick(s)}] = G[s \ {Pick(s)}]
      BY <3>1, <3>2, PickIn
    <3> QED BY <1>2, <3>2, <3>3
  <2> QED BY <2>1
<1>4. U \ {x} = S
  OBVIOUS
<1>5. F[U] = g[x] + G[S] /\ G[S] \in Int /\ g[x] \in Int
  BY <1>2, <1>3, <1>4
<1> QED BY <1>5 DEF F, G, Total

(* A sum depends on its summands only. *)
LEMMA TotalAgree ==
  ASSUME NEW S, IsFiniteSet(S), NEW g, NEW h, \A y \in S : g[y] = h[y]
  PROVE  Total(g, S) = Total(h, S)
<1>1. ASSUME NEW f PROVE Adds(g, SUBSET S, f) <=> Adds(h, SUBSET S, f)
  <2>1. \A s \in SUBSET S : (IF s = {} THEN 0 ELSE g[Pick(s)] + f[s \ {Pick(s)}])
                              = IF s = {} THEN 0 ELSE h[Pick(s)] + f[s \ {Pick(s)}]
    BY PickIn
  <2> QED BY <2>1, Zenon DEF Adds
<1> QED BY <1>1, Zenon DEF Total, Adder

(* One summand changes. *)
LEMMA TotalChange ==
  ASSUME NEW S, IsFiniteSet(S), NEW x \in S, NEW g, NEW h,
         \A y \in S : g[y] \in Int /\ h[y] \in Int,
         \A y \in S \ {x} : g[y] = h[y]
  PROVE  Total(h, S) = Total(g, S) - g[x] + h[x]
<1> DEFINE R == S \ {x}
<1>1. IsFiniteSet(R) /\ x \notin R /\ R \union {x} = S /\ \A y \in R : y \in S
  BY FS_RemoveElement
<1> HIDE DEF R
<1>2. Total(g, R \union {x}) = Total(g, R) + g[x]
  BY <1>1, TotalAdd
<1>3. Total(h, R \union {x}) = Total(h, R) + h[x]
  BY <1>1, TotalAdd
<1>4. Total(g, R) = Total(h, R)
  <2>1. \A y \in R : g[y] = h[y]
    BY DEF R
  <2> QED BY <1>1, <2>1, TotalAgree
<1>5. Total(g, R) \in Int
  BY <1>1, TotalType
<1>6. g[x] \in Int /\ h[x] \in Int
  OBVIOUS
<1>7. Total(g, S) = Total(g, R) + g[x] /\ Total(h, S) = Total(g, R) + h[x]
  BY <1>1, <1>2, <1>3, <1>4
<1> QED BY <1>5, <1>6, <1>7

---------------------------------------------------------------------------
(* What each operation has reserved and what it has spent.                  *)
Owed == [o \in Ops |-> Reserved(o)]
Paid == [o \in Ops |-> Spent(o)]

Balanced ==
  \A d \in 1 .. Days : /\ totals[d].reserved = Total(Owed, OnDay(d))
                       /\ totals[d].used = Total(Paid, OnDay(d))

(* A row that is not there is on no day. *)
Undated == \A o \in Ops : row[o].status = "none" => row[o].day = 0

MoneyInv == BudgetInv /\ Undated /\ Balanced

LEMMA OnDayFinite ==
  ASSUME NEW d
  PROVE  IsFiniteSet(OnDay(d)) /\ \A o \in OnDay(d) : o \in Ops
<1>1. OnDay(d) \in SUBSET Ops
  BY DEF OnDay
<1> QED BY <1>1, FS_Subset

LEMMA SummandTypes ==
  ASSUME Records, Records'
  PROVE  \A o \in Ops : /\ Owed[o] \in Int /\ Owed'[o] \in Int
                        /\ Paid[o] \in Int /\ Paid'[o] \in Int
<1> SUFFICES ASSUME NEW o \in Ops
             PROVE  Owed[o] \in Int /\ Owed'[o] \in Int /\ Paid[o] \in Int /\ Paid'[o] \in Int
  OBVIOUS
<1>1. row[o].actual \in Int /\ row'[o].actual \in Int /\ Estimate[o] \in Int
  <2>1. row[o] \in Reservation /\ row'[o] \in Reservation
    BY DEF Records
  <2>2. \A e \in Reservation : e.actual \in Int
    BY DEF Reservation
  <2> QED BY <2>1, <2>2
<1> QED BY <1>1 DEF Owed, Paid, Reserved, Spent

(* The books balance also when a step only touches what no sum counts. *)
LEMMA SumsStand ==
  ASSUME MoneyInv, UNCHANGED totals,
         \A o \in Ops : /\ row'[o].day = row[o].day /\ row'[o].actual = row[o].actual
                        /\ row'[o].status \in Live <=> row[o].status \in Live
                        /\ row'[o].status \in Final <=> row[o].status \in Final
                        /\ row'[o].status = "none" <=> row[o].status = "none"
  PROVE  Undated' /\ Balanced'
<1>1. \A d : OnDay(d)' = OnDay(d)
  BY DEF OnDay
<1>2. Owed' = Owed /\ Paid' = Paid
  BY DEF Owed, Paid, Reserved, Spent
<1>3. Undated'
  BY DEF MoneyInv, Undated
<1>4. Balanced'
  BY <1>1, <1>2 DEF MoneyInv, Balanced
<1> QED BY <1>3, <1>4

LEMMA RowStands ==
  ASSUME MoneyInv, UNCHANGED <<row, totals>>
  PROVE  Undated' /\ Balanced'
BY SumsStand

(* A terminal transition moves the estimate out and the usage in, on the    *)
(* day of the reservation.                                                  *)
LEMMA TransitionBalances ==
  ASSUME MoneyInv, Records', NEW o \in Ops, NEW c, NEW from \in SUBSET Live, NEW to \in Final,
         NEW used \in Nat, Transition(o, c, from, to, used)
  PROVE  Undated' /\ Balanced'
<1>1. CASE ~(InStatus(o, from) /\ row[o].attempt = c)
  BY <1>1, RowStands DEF Transition
<1>2. CASE InStatus(o, from) /\ row[o].attempt = c
  <2> DEFINE day == row[o].day
  <2>1. Records /\ Named
    BY DEF MoneyInv, BudgetInv
  <2>2. row[o].status \in Live /\ day \in 1 .. Days
    BY <1>2, <2>1 DEF InStatus, Live, Named
  <2>3. row' = [row EXCEPT ![o].status = to, ![o].actual = used, ![o].expired = FALSE]
        /\ totals' = Moved(totals, o, used)
    BY <1>2 DEF Transition, Finished
  <2>4. /\ row'[o].status = to /\ row'[o].actual = used /\ row'[o].day = day
        /\ \A x \in Ops \ {o} : row'[x] = row[x]
    BY <2>1, <2>3 DEF Records, Reservation
  <2>5. /\ totals'[day].reserved = totals[day].reserved - Estimate[o]
        /\ totals'[day].used = totals[day].used + used
        /\ \A d \in (1 .. Days) \ {day} : totals'[d] = totals[d]
    <3> DEFINE t == [totals[day] EXCEPT !.reserved = totals[day].reserved - Estimate[o],
                                        !.used = totals[day].used + used]
    <3>1. totals' = [totals EXCEPT ![day] = t]
      BY <2>3 DEF Moved
    <3>2. totals[day] \in [used : Int, reserved : Int]
      BY <2>1, <2>2 DEF Records
    <3>3. t.reserved = totals[day].reserved - Estimate[o] /\ t.used = totals[day].used + used
      BY <3>2
    <3> HIDE DEF t
    <3> QED BY <2>1, <2>2, <3>1, <3>3 DEF Records
  <2>6. \A d : OnDay(d)' = OnDay(d)
    BY <2>4 DEF OnDay
  <2>7. Undated'
    BY <2>2, <2>4 DEF MoneyInv, Undated, Final
  <2>8. /\ Owed[o] = Estimate[o] /\ Owed'[o] = 0 /\ Paid[o] = 0 /\ Paid'[o] = used
        /\ \A x \in Ops \ {o} : Owed'[x] = Owed[x] /\ Paid'[x] = Paid[x]
    BY <2>2, <2>4 DEF Owed, Paid, Reserved, Spent, Live, Final
  <2>9. \A x \in Ops : Owed[x] \in Int /\ Owed'[x] \in Int /\ Paid[x] \in Int /\ Paid'[x] \in Int
    BY <2>1, SummandTypes
  <2>10. ASSUME NEW d \in 1 .. Days
         PROVE  /\ totals'[d].reserved = Total(Owed', OnDay(d))
                /\ totals'[d].used = Total(Paid', OnDay(d))
    <3> DEFINE S == OnDay(d)
    <3>1. IsFiniteSet(S) /\ \A x \in S : x \in Ops
      BY OnDayFinite
    <3>2. totals[d].reserved = Total(Owed, S) /\ totals[d].used = Total(Paid, S)
      BY DEF MoneyInv, Balanced
    <3>3. CASE d = day
      <4>1. o \in S
        BY <3>3 DEF OnDay
      <4> HIDE DEF S, day
      <4>2. Total(Owed', S) = Total(Owed, S) - Owed[o] + Owed'[o]
        BY <2>8, <2>9, <3>1, <4>1, TotalChange
      <4>3. Total(Paid', S) = Total(Paid, S) - Paid[o] + Paid'[o]
        BY <2>8, <2>9, <3>1, <4>1, TotalChange
      <4>4. Total(Owed, S) \in Int /\ Total(Paid, S) \in Int
        BY <2>9, <3>1, TotalType
      <4>5. totals'[d].reserved = Total(Owed, S) - Estimate[o] /\ totals'[d].used = Total(Paid, S) + used
        BY <2>5, <3>2, <3>3
      <4> QED BY <2>8, <4>2, <4>3, <4>4, <4>5 DEF S
    <3>4. CASE d # day
      <4>1. o \notin S
        BY <3>4 DEF OnDay
      <4> HIDE DEF S, day
      <4>2. \A x \in S : Owed'[x] = Owed[x] /\ Paid'[x] = Paid[x]
        BY <2>8, <3>1, <4>1
      <4>3. Total(Owed', S) = Total(Owed, S) /\ Total(Paid', S) = Total(Paid, S)
        BY <3>1, <4>2, TotalAgree
      <4> QED BY <2>5, <3>2, <3>4, <4>3 DEF S
    <3> QED BY <3>3, <3>4
  <2> QED BY <2>6, <2>7, <2>10 DEF Balanced
<1> QED BY <1>1, <1>2

LEMMA ReserveBalances ==
  ASSUME MoneyInv, Records', NEW c \in Callers, Reserve(c)
  PROVE  Undated' /\ Balanced'
<1> DEFINE o == call[c].op
<1>1. CASE UNCHANGED <<row, totals>>
  BY <1>1, RowStands
<1>2. CASE ~UNCHANGED <<row, totals>>
  <2>1. Records /\ today \in 1 .. Days /\ o \in Ops
    BY DEF MoneyInv, BudgetInv, Records, Working, Reserve, At
  <2>2. /\ Unreserved(o)
        /\ row' = [row EXCEPT ![o] = [status |-> "reserved", attempt |-> c, day |-> today,
                                      actual |-> 0, expired |-> FALSE, owned |-> TRUE]]
        /\ totals' = [totals EXCEPT ![today].reserved = @ + Estimate[o]]
    BY <1>2 DEF Reserve
  <2> HIDE DEF o
  <2>3. /\ row'[o].status = "reserved" /\ row'[o].day = today /\ row'[o].actual = 0
        /\ \A x \in Ops \ {o} : row'[x] = row[x]
    BY <2>1, <2>2 DEF Records
  <2>4. /\ totals'[today].reserved = totals[today].reserved + Estimate[o]
        /\ totals'[today].used = totals[today].used
        /\ \A d \in (1 .. Days) \ {today} : totals'[d] = totals[d]
    BY <2>1, <2>2 DEF Records
  <2>5. row[o].status = "none" /\ row[o].day = 0
    BY <2>1, <2>2 DEF Unreserved, MoneyInv, Undated
  <2>6. Undated'
    BY <2>3 DEF MoneyInv, Undated
  <2>7. /\ Owed'[o] = Estimate[o] /\ Paid'[o] = 0
        /\ \A x \in Ops \ {o} : Owed'[x] = Owed[x] /\ Paid'[x] = Paid[x]
    BY <2>1, <2>3 DEF Owed, Paid, Reserved, Spent, Live, Final
  <2>8. \A x \in Ops : Owed[x] \in Int /\ Owed'[x] \in Int /\ Paid[x] \in Int /\ Paid'[x] \in Int
    BY <2>1, SummandTypes
  <2>9. ASSUME NEW d \in 1 .. Days
        PROVE  /\ totals'[d].reserved = Total(Owed', OnDay(d)')
               /\ totals'[d].used = Total(Paid', OnDay(d)')
    <3> DEFINE S == OnDay(d)
    <3>1. IsFiniteSet(S) /\ (\A x \in S : x \in Ops) /\ o \notin S
      <4>1. o \notin S
        BY <2>5 DEF OnDay
      <4> QED BY <4>1, OnDayFinite
    <3>2. totals[d].reserved = Total(Owed, S) /\ totals[d].used = Total(Paid, S)
      BY DEF MoneyInv, Balanced
    <3>3. Total(Owed', S) = Total(Owed, S) /\ Total(Paid', S) = Total(Paid, S)
      <4> HIDE DEF S
      <4>1. \A x \in S : Owed'[x] = Owed[x] /\ Paid'[x] = Paid[x]
        BY <2>7, <3>1
      <4> QED BY <3>1, <4>1, TotalAgree
    <3>4. CASE d = today
      <4>1. OnDay(d)' = S \union {o}
        BY <2>1, <2>3, <3>4 DEF OnDay
      <4> HIDE DEF S
      <4>2. \A x \in S \union {o} : Owed'[x] \in Int /\ Paid'[x] \in Int
        BY <2>1, <2>8, <3>1
      <4>3. Total(Owed', S \union {o}) = Total(Owed', S) + Owed'[o]
        BY <3>1, <4>2, TotalAdd
      <4>4. Total(Paid', S \union {o}) = Total(Paid', S) + Paid'[o]
        BY <3>1, <4>2, TotalAdd
      <4>5. Total(Owed', S) \in Int /\ Total(Paid', S) \in Int
        BY <3>1, <4>2, TotalType
      <4> QED BY <2>4, <2>7, <3>2, <3>3, <3>4, <4>1, <4>3, <4>4, <4>5
    <3>5. CASE d # today
      <4>1. OnDay(d)' = S
        BY <2>3, <2>5, <3>5 DEF OnDay
      <4> HIDE DEF S
      <4> QED BY <2>4, <3>2, <3>3, <3>5, <4>1
    <3> QED BY <3>4, <3>5
  <2> QED BY <2>6, <2>9 DEF Balanced
<1> QED BY <1>1, <1>2

LEMMA MarkBalances ==
  ASSUME MoneyInv, NEW c \in Callers, Mark(c) \/ MarkUnknown(c)
  PROVE  Undated' /\ Balanced'
<1>1. UNCHANGED totals
  BY DEF Mark, MarkUnknown
<1>2. CASE UNCHANGED row
  BY <1>1, <1>2, RowStands
<1>3. CASE ~UNCHANGED row
  <2>1. row[call[c].op].status = "reserved" /\ row \in [Ops -> Reservation]
    BY <1>3 DEF Mark, MarkUnknown, MayInvoke, MoneyInv, BudgetInv, Records
  <2>2. \/ row' = [row EXCEPT ![call[c].op].status = "invoking", ![call[c].op].expired = FALSE]
        \/ row' = [row EXCEPT ![call[c].op].status = "invoking"]
    BY <1>3 DEF Mark, MarkUnknown
  <2>3. ASSUME NEW x \in Ops
        PROVE  /\ row'[x].day = row[x].day /\ row'[x].actual = row[x].actual
               /\ \/ row'[x].status = row[x].status
                  \/ row[x].status = "reserved" /\ row'[x].status = "invoking"
    BY <2>1, <2>2 DEF Reservation
  <2> QED BY <1>1, <2>3, SumsStand DEF Live, Final
<1> QED BY <1>2, <1>3

(* Rows that expire or are disowned are on the same day with the same money. *)
LEMMA TouchBalances ==
  ASSUME MoneyInv, (\E o \in Ops : Expires(o)) \/ Erase
  PROVE  Undated' /\ Balanced'
<1>1. UNCHANGED totals /\ row \in [Ops -> Reservation]
  BY DEF Expires, Erase, MoneyInv, BudgetInv, Records
<1>2. ASSUME NEW x \in Ops
      PROVE  row'[x].day = row[x].day /\ row'[x].actual = row[x].actual /\ row'[x].status = row[x].status
  BY <1>1 DEF Expires, Erase, Reservation
<1> QED BY <1>1, <1>2, SumsStand

LEMMA MoneyNext == MoneyInv /\ [BudgetNext]_vars => MoneyInv'
<1> SUFFICES ASSUME MoneyInv, [BudgetNext]_vars PROVE Undated' /\ Balanced'
  BY NextInv DEF MoneyInv
<1>1. Records' /\ BudgetInv
  BY NextInv DEF MoneyInv, BudgetInv
<1>2. ASSUME NEW c \in Callers, Release(c) PROVE Undated' /\ Balanced'
  <2>1. call[c].op \in Ops /\ Transition(call[c].op, c, Live, "released", 0)
    BY <1>1, <1>2 DEF Release, At, BudgetInv, Working
  <2> QED BY <1>1, <2>1, TransitionBalances DEF Final
<1>3. ASSUME NEW c \in Callers, Finish(c) PROVE Undated' /\ Balanced'
  <2> DEFINE d == Disposition(c)
  <2>1. call[c].op \in Ops /\ Transition(call[c].op, c, d.from, d.to, d.used)
    BY <1>1, <1>3 DEF Finish, At, BudgetInv, Working
  <2>2. d.from \in SUBSET Live /\ d.to \in Final /\ d.used \in Nat
    BY <1>1, <1>3, DispositionTypes DEF Finish
  <2> HIDE DEF d
  <2> QED BY <1>1, <2>1, <2>2, TransitionBalances
<1>4. CASE Reap
  <2>1. reap.op \in Ops /\ Estimate[reap.op] \in Nat
    BY <1>1, <1>4 DEF Reap, BudgetInv, Records
  <2>2. CASE Transition(reap.op, row[reap.op].attempt, Live, "released", 0)
    BY <1>1, <2>1, <2>2, TransitionBalances DEF Final
  <2>3. CASE Transition(reap.op, row[reap.op].attempt, {"invoking"}, "ambiguous_charged", Estimate[reap.op])
    BY <1>1, <2>1, <2>3, TransitionBalances DEF Final, Live
  <2> QED BY <1>4, <2>2, <2>3 DEF Reap
<1>5. ASSUME NEW c \in Callers,
             GateRead(c) \/ ClaimProbe(c) \/ AbandonProbe(c) \/ Answer(c) \/ Record(c)
               \/ FinishFails(c) \/ Crash(c)
      PROVE  Undated' /\ Balanced'
  BY <1>5, RowStands DEF GateRead, ClaimProbe, AbandonProbe, Answer, Record, FinishFails, Crash
<1>6. CASE (\E o \in Ops : ReapRead(o)) \/ CooldownOver \/ ProbeLeaseOver \/ Midnight \/ Disable
           \/ ArmFence \/ Quiet \/ UNCHANGED vars
  BY <1>6, RowStands
  DEF ReapRead, CooldownOver, ProbeLeaseOver, Midnight, Disable, ArmFence, Quiet, vars
<1>7. ASSUME NEW c \in Callers, Reserve(c) \/ Mark(c) \/ MarkUnknown(c)
      PROVE  Undated' /\ Balanced'
  BY <1>1, <1>7, ReserveBalances, MarkBalances
<1> QED BY <1>2, <1>3, <1>4, <1>5, <1>6, <1>7, TouchBalances DEF BudgetNext, CallStep

LEMMA MoneyInit == BudgetInit => MoneyInv
<1> SUFFICES ASSUME BudgetInit PROVE Undated /\ Balanced
  BY InitInv DEF MoneyInv
<1>1. Undated
  BY DEF BudgetInit, Undated, NoReservation
<1>2. \A d \in 1 .. Days : OnDay(d) = {}
  BY DEF BudgetInit, OnDay, NoReservation
<1> QED BY <1>1, <1>2, TotalEmpty DEF BudgetInit, Balanced

LEMMA BalanceConserves == Balanced => MoneyConserved
<1>1. ASSUME NEW d
      PROVE  /\ MapThenSumSet(Reserved, OnDay(d)) = Total([o \in OnDay(d) |-> Reserved(o)], OnDay(d))
             /\ MapThenSumSet(Spent, OnDay(d)) = Total([o \in OnDay(d) |-> Spent(o)], OnDay(d))
  <2>1. ASSUME NEW S PROVE MapThenSumSet(Reserved, S) = Total([o \in S |-> Reserved(o)], S)
    BY ONLY Zenon DEF MapThenSumSet, MapThenFoldSet, Total, Adder, Adds, Pick
  <2>2. ASSUME NEW S PROVE MapThenSumSet(Spent, S) = Total([o \in S |-> Spent(o)], S)
    BY ONLY Zenon DEF MapThenSumSet, MapThenFoldSet, Total, Adder, Adds, Pick
  <2> QED BY <2>1, <2>2
<1>2. ASSUME NEW d
      PROVE  /\ Total([o \in OnDay(d) |-> Reserved(o)], OnDay(d)) = Total(Owed, OnDay(d))
             /\ Total([o \in OnDay(d) |-> Spent(o)], OnDay(d)) = Total(Paid, OnDay(d))
  <2> DEFINE S == OnDay(d)
             r == [o \in S |-> Reserved(o)]
             s == [o \in S |-> Spent(o)]
  <2>1. IsFiniteSet(S) /\ \A o \in S : o \in Ops
    BY OnDayFinite
  <2> HIDE DEF S
  <2>2. \A o \in S : r[o] = Owed[o] /\ s[o] = Paid[o]
    BY <2>1 DEF Owed, Paid
  <2> HIDE DEF r, s
  <2>3. Total(r, S) = Total(Owed, S) /\ Total(s, S) = Total(Paid, S)
    BY <2>1, <2>2, TotalAgree
  <2> QED BY <2>3 DEF r, s, S
<1> QED BY <1>1, <1>2 DEF Balanced, MoneyConserved

(* No charge is lost and none is made twice: the totals of a day are the    *)
(* sum of its reservations, through settlements that come late or twice,    *)
(* the reaper, releases, crashes and midnights (reserveSpend,               *)
(* transitionReservation).                                                  *)
THEOREM BooksBalance == BudgetSpec => []MoneyConserved
<1>1. MoneyInv => MoneyConserved
  BY BalanceConserves DEF MoneyInv
<1> QED BY <1>1, MoneyInit, MoneyNext, PTL DEF BudgetSpec

(* No total is ever negative: it is a sum over reservations. *)
LEMMA TotalsTypes ==
  ASSUME MoneyInv
  PROVE  totals \in [1 .. Days -> [used : Nat, reserved : Nat]]
<1>1. Records
  BY DEF MoneyInv, BudgetInv
<1>2. \A o \in Ops : Owed[o] \in Nat /\ Paid[o] \in Nat
  <2>1. \A o \in Ops : row[o] \in Reservation
    BY <1>1 DEF Records
  <2>2. \A e \in Reservation : e.actual \in Nat
    BY DEF Reservation
  <2> QED BY <2>1, <2>2 DEF Owed, Paid, Reserved, Spent
<1>3. ASSUME NEW d \in 1 .. Days PROVE totals[d] \in [used : Nat, reserved : Nat]
  <2> DEFINE S == OnDay(d)
  <2>1. IsFiniteSet(S) /\ \A o \in S : o \in Ops
    BY OnDayFinite
  <2>2. totals[d].reserved = Total(Owed, S) /\ totals[d].used = Total(Paid, S)
    BY DEF MoneyInv, Balanced
  <2> HIDE DEF S
  <2>3. totals[d].reserved \in Nat /\ totals[d].used \in Nat
    BY <1>2, <2>1, <2>2, TotalNat
  <2>4. totals[d] \in [used : Int, reserved : Int]
    BY <1>1 DEF Records
  <2> QED BY <2>3, <2>4
<1> QED BY <1>1, <1>3 DEF Records

Switches == events \in 0 .. MaxEvents /\ disabled \in BOOLEAN /\ fence \in {"none", "armed", "clear"}

LEMMA SwitchesNext == Switches /\ [BudgetNext]_vars => Switches'
<1> SUFFICES ASSUME Switches, [BudgetNext]_vars PROVE Switches'
  OBVIOUS
<1>1. CASE UNCHANGED <<events, disabled, fence>>
  BY <1>1 DEF Switches
<1>2. ASSUME NEW c \in Callers, MarkUnknown(c) \/ FinishFails(c) \/ Crash(c) PROVE Switches'
  BY <1>2 DEF MarkUnknown, FinishFails, Crash, Switches
<1>3. CASE Midnight \/ Disable \/ ArmFence \/ Erase
  <2>1. (events \in 0 .. MaxEvents)'
    BY <1>3 DEF Midnight, Disable, ArmFence, Erase, Switches
  <2>2. disabled' = disabled \/ disabled' = TRUE
    BY <1>3 DEF Midnight, Disable, ArmFence, Erase
  <2>3. (disabled \in BOOLEAN)'
    BY <2>2, Zenon DEF Switches
  <2>4. (fence \in {"none", "armed", "clear"})'
    BY <1>3 DEF Midnight, Disable, ArmFence, Erase, Switches
  <2> QED BY <2>1, <2>3, <2>4, Zenon DEF Switches
<1>4. ASSUME NEW c \in Callers, CallStep(c) PROVE UNCHANGED <<events, disabled, fence>>
  BY <1>4 DEF CallStep, GateRead, ClaimProbe, AbandonProbe, Reserve, Mark, Release, Answer,
              Finish, Record
<1>5. CASE \/ \E o \in Ops : Expires(o) \/ ReapRead(o)
           \/ Reap \/ CooldownOver \/ ProbeLeaseOver \/ Quiet \/ UNCHANGED vars
  BY <1>5, <1>1 DEF Expires, ReapRead, Reap, CooldownOver, ProbeLeaseOver, Quiet, vars
<1> QED BY <1>1, <1>2, <1>3, <1>4, <1>5 DEF BudgetNext

(* Every variable keeps its type; that the totals are natural numbers rests *)
(* on the books being balanced.                                             *)
THEOREM TypeCorrect == BudgetSpec => []BudgetTypeOK
<1>1. BudgetInit => Switches
  <2>1. 0 \in 0 .. MaxEvents
    OBVIOUS
  <2> QED BY <2>1, Zenon DEF BudgetInit, Switches
<1>2. MoneyInv /\ Switches => BudgetTypeOK
  <2> SUFFICES ASSUME MoneyInv, Switches PROVE BudgetTypeOK
    OBVIOUS
  <2>1. Records /\ totals \in [1 .. Days -> [used : Nat, reserved : Nat]]
    BY TotalsTypes DEF MoneyInv, BudgetInv
  <2> QED BY <2>1, Zenon DEF Records, Breaker, Switches, BudgetTypeOK
<1> QED BY <1>1, <1>2, MoneyInit, MoneyNext, SwitchesNext, PTL DEF BudgetSpec
=============================================================================
