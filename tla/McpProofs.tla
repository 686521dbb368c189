------------------------------ MODULE McpProofs ------------------------------
(***************************************************************************)
(* Theorems about McpLane for any number of batches and calls over either  *)
(* door, any outcomes of the model, and any number of faults, crashes,     *)
(* edits and deletions.                                                    *)
(***************************************************************************)
EXTENDS McpLane, SequenceTheorems, TLAPS

----------------------------------------------------------------------------
(* The inductive invariant *)

Maybe(S) == S \cup {None}

Own == [gen : 0 .. MaxRepairs, page : Maybe(Jobs), adv : BOOLEAN,
        pageless : BOOLEAN, key : BOOLEAN]
Row == [st : {None, "staged"} \cup TerminalJob, own : Own]
PageShape == [st : {None, "staged", "enriched", "failed", "deleted"}, seen : BOOLEAN,
              src : Maybe(Jobs), body : SUBSET Jobs, user : BOOLEAN, since : BOOLEAN]
(* An edit that no attempt has read is the user's, and moved the revision. *)
Page == {rec \in PageShape : rec.since => rec.user /\ ~rec.seen}
QueueEntry == [phase : {"work", "terminal_pending", "announcement_pending"},
               gen : 0 .. MaxRepairs, page : Maybe(Jobs), adv : BOOLEAN,
               attempts : 0 .. MaxAttempts - 1, cap : 0 .. MaxCapacity - 1,
               late : BOOLEAN]
Ending == {"wrote", "empty", "llm_failed", "capacity", "terminal"}
RunState == {None, "running", "aged"} \cup Ending
Verdict == {"open", "late", "wrote", "empty", "failed"}
Begins == {"observe", "claim", "follow", "fail", "repair", "announce"}
Middle == Begins \cup {"model", "ended", "settle", "mark", "confirm"}
Work == [pc : Middle \cup {"finish"}, job : Jobs, out : RunState \cup Verdict]
Door == [pc : {"new", "reopen", "resolve", "claim", "stage", "handoff", "done"},
         claimed : BOOLEAN, own : Own,
         answer : {None, "duplicate", "refused", "skipped", "error", "accepted", "joined"}]

Rows ==
    /\ row \in [Jobs -> Row]
    /\ req \in [Requests -> Door]
    /\ \A r \in Requests : req[r].pc = "reopen" => req[r].own.gen < MaxRepairs

Runs ==
    /\ run \in [Jobs -> [RunIds -> RunState]]
    /\ extract \in [Jobs -> Verdict]

(* A page that is not there yet holds no wording of the user's. *)
Pages ==
    /\ page \in [Jobs -> Page]
    /\ \A p \in Jobs : page[p].st = None => ~page[p].user

Records ==
    /\ entry \in [Jobs -> QueueEntry \cup {NoEntry}]
    /\ queue \in Seq(Jobs)
    /\ drain \in Work \cup {Off}
    /\ announced \subseteq Jobs \X TerminalJob

(* Every entry has its place in the queue, and only entries have one. *)
Queued ==
    /\ \A n \in DOMAIN queue : entry[queue[n]] # NoEntry
    /\ \A m, n \in DOMAIN queue : queue[m] = queue[n] => m = n
    /\ \A j \in Jobs : entry[j] # NoEntry => \E n \in DOMAIN queue : queue[n] = j

(* The drain holds an entry, and lets go of it with its verdict announced. *)
Holds ==
    drain # Off =>
      /\ entry[Job] # NoEntry
      /\ drain.pc = "finish" /\ Job \notin reopened =>
           /\ row[Job].st \in TerminalJob
           /\ Lane[Job] = "mcp" => <<Job, row[Job].st>> \in announced

Books == Records /\ Queued /\ Holds /\ AcceptedIsQueued /\ VerdictsAreAnnounced

LaneInv == Rows /\ Runs /\ Pages /\ OnePagePerConversation /\ Books

USE McpConstants

----------------------------------------------------------------------------
(* Records *)

(* A queue entry is told from the absence of one by its phase. *)
LEMMA EntryIsThere ==
  ASSUME NEW e \in QueueEntry
  PROVE  e # NoEntry
BY DEF QueueEntry, NoEntry, None

LEMMA EmptyRecords ==
  /\ NoRow \in Row /\ NoPage \in Page /\ NewCall \in Door /\ Payload(0, None, FALSE, FALSE) \in Own
  /\ NoRow.st = None /\ NoPage.st = None /\ ~NoPage.user
  /\ NewCall.pc = "new" /\ NewCall.answer = None
<1>1. Payload(0, None, FALSE, FALSE) \in Own
  BY DEF Payload, Own, Maybe
<1> QED BY <1>1 DEF NoRow, NoPage, PageShape, NewCall, Row, Page, Door, Maybe, None

(* A call moves on without an answer. *)
LEMMA CallAtTypes ==
  ASSUME Rows, NEW r \in Requests, NEW pc \in {"reopen", "resolve", "claim", "stage", "handoff"},
         NEW own \in Own, pc = "reopen" => own.gen < MaxRepairs, CallAt(r, pc, own)
  PROVE  /\ req' \in [Requests -> Door]
         /\ \A q \in Requests : req'[q].pc = "reopen" => req'[q].own.gen < MaxRepairs
         /\ \A q \in Requests : req'[q].answer = req[q].answer
<1> DEFINE k == [req[r] EXCEPT !.pc = pc, !.own = own]
<1>1. k \in Door /\ k.pc = pc /\ k.own = own /\ k.answer = req[r].answer
  BY ZenonT(60) DEF Rows, Door
<1>2. req' = [req EXCEPT ![r] = k]
  BY DEF CallAt, Rows
<1> HIDE DEF k
<1> QED BY <1>1, <1>2 DEF Rows

(* A call ends with its answer. *)
LEMMA RepliesTypes ==
  ASSUME Rows, NEW r \in Requests,
         NEW a \in {"duplicate", "refused", "skipped", "error", "accepted", "joined"},
         Replies(r, a)
  PROVE  /\ req' \in [Requests -> Door]
         /\ \A q \in Requests : req'[q].pc = "reopen" => req'[q].own.gen < MaxRepairs
         /\ req'[r].answer = a
         /\ \A q \in Requests \ {r} : req'[q] = req[q]
<1> DEFINE k == [NewCall EXCEPT !.pc = "done", !.answer = a]
<1>1. k \in Door /\ k.pc = "done" /\ k.answer = a
  BY EmptyRecords DEF Door
<1>2. req' = [req EXCEPT ![r] = k]
  BY DEF Replies
<1> HIDE DEF k
<1> QED BY <1>1, <1>2 DEF Rows

(* What a payload becomes. *)
LEMMA PayloadTypes ==
  ASSUME NEW o \in Own
  PROVE  /\ \A p \in Jobs : [o EXCEPT !.page = p, !.adv = TRUE] \in Own
         /\ [o EXCEPT !.page = None, !.adv = FALSE, !.pageless = TRUE] \in Own
         /\ o.gen < MaxRepairs => [o EXCEPT !.gen = @ + 1] \in Own
<1>1. \A p \in Jobs : [o EXCEPT !.page = p, !.adv = TRUE] \in Own
  BY DEF Own, Maybe
<1>2. [o EXCEPT !.page = None, !.adv = FALSE, !.pageless = TRUE] \in Own
  BY DEF Own, Maybe
<1>3. o.gen < MaxRepairs => [o EXCEPT !.gen = o.gen + 1] \in Own
  <2>1. o.gen < MaxRepairs => o.gen + 1 \in 0 .. MaxRepairs
    BY DEF Own
  <2> QED BY <2>1 DEF Own
<1> QED BY <1>1, <1>2, <1>3

LEMMA ForgetsTypes ==
  ASSUME NEW o \in Own, NEW p \in Maybe(Jobs)
  PROVE  [o EXCEPT !.gen = 0, !.page = p, !.adv = FALSE, !.pageless = FALSE, !.key = FALSE] \in Own
<1>1. 0 \in 0 .. MaxRepairs
  OBVIOUS
<1> QED BY <1>1 DEF Own

(* A status of the job and what its payload remembers, written at once. *)
LEMMA RowTypes ==
  ASSUME NEW f \in [Jobs -> Row], NEW j \in Jobs,
         NEW st \in {None, "staged"} \cup TerminalJob, NEW own \in Own
  PROVE  /\ [f EXCEPT ![j] = [st |-> st, own |-> own]] \in [Jobs -> Row]
         /\ [f EXCEPT ![j].st = st] \in [Jobs -> Row]
         /\ [f EXCEPT ![j].own = own] \in [Jobs -> Row]
         /\ [f EXCEPT ![j] = [st |-> st, own |-> own]][j].st = st
         /\ [f EXCEPT ![j].st = st][j].st = st
         /\ [f EXCEPT ![j].own = own][j].st = f[j].st
<1>1. /\ [st |-> st, own |-> own] \in Row
      /\ [f[j] EXCEPT !.st = st] \in Row /\ [f[j] EXCEPT !.st = st].st = st
      /\ [f[j] EXCEPT !.own = own] \in Row /\ [f[j] EXCEPT !.own = own].st = f[j].st
  BY DEF Row
<1> QED BY <1>1

----------------------------------------------------------------------------
(* What a step of the drain does to the entry it holds *)

(* A step after which the same entries are there, and which does not let    *)
(* the drain go to the end.                                                 *)
Carries ==
    /\ entry' \in [Jobs -> QueueEntry \cup {NoEntry}]
    /\ \A j \in Jobs : entry'[j] # NoEntry <=> entry[j] # NoEntry
    /\ drain' \in Work \cup {Off}
    /\ drain' # Off => drain'.pc # "finish" /\ entry[drain'.job] # NoEntry

LEMMA AtWork ==
  ASSUME Records, Holds, drain.pc # "off"
  PROVE  /\ drain # Off /\ drain \in Work /\ Job \in Jobs
         /\ Entry \in QueueEntry /\ Entry # NoEntry
         /\ Entry.page \in Maybe(Jobs)
<1>1. drain # Off
  BY DEF Off
<1>2. drain \in Work /\ Job \in Jobs
  BY <1>1 DEF Records, Work, Job
<1>3. Entry \in QueueEntry /\ Entry # NoEntry
  BY <1>1, <1>2 DEF Records, Holds, Entry, Job
<1> QED BY <1>1, <1>2, <1>3 DEF QueueEntry

LEMMA GoesCarries ==
  ASSUME Records, Holds, drain.pc # "off", NEW pc \in Middle, Goes(pc), entry' = entry
  PROVE  Carries
<1>1. /\ [drain EXCEPT !.pc = pc] \in Work /\ [drain EXCEPT !.pc = pc].pc # "finish"
      /\ [drain EXCEPT !.pc = pc].job = Job
  BY AtWork DEF Work, Job, Middle, Begins
<1> QED BY <1>1, AtWork DEF Carries, Goes, Records, Entry, Job

LEMMA EndsCarries ==
  ASSUME Records, Holds, drain.pc # "off", NEW out \in RunState \cup Verdict, Ends(out), entry' = entry
  PROVE  Carries
<1> DEFINE d == [drain EXCEPT !.pc = "ended", !.out = out]
<1>1. d \in Work /\ d.pc # "finish" /\ d.job = Job
  BY AtWork DEF Work, Job, Middle, Begins
<1>2. drain' = d
  BY DEF Ends
<1> HIDE DEF d
<1> QED BY <1>1, <1>2, AtWork DEF Carries, Records, Entry, Job

LEMMA PutsTypes ==
  ASSUME Records, Holds, drain.pc # "off", NEW e \in QueueEntry, Puts(e)
  PROVE  /\ entry' \in [Jobs -> QueueEntry \cup {NoEntry}]
         /\ entry'[Job] = e
         /\ \A j \in Jobs : entry'[j] # NoEntry <=> entry[j] # NoEntry
<1>1. Job \in Jobs /\ entry[Job] # NoEntry
  BY AtWork DEF Entry, Job
<1>2. e # NoEntry
  BY EntryIsThere
<1>3. entry' = [entry EXCEPT ![Job] = e]
  BY DEF Puts
<1> QED BY <1>1, <1>2, <1>3 DEF Records

LEMMA SleepsCarries ==
  ASSUME Records, Holds, drain.pc # "off", NEW e \in QueueEntry, Sleeps(e)
  PROVE  Carries
<1>1. [e EXCEPT !.late = TRUE] \in QueueEntry
  BY DEF QueueEntry
<1> QED BY <1>1, PutsTypes DEF Sleeps, Leaves, Carries

(* The counters and the phase an entry moves on to. *)
LEMMA EntryMoves ==
  ASSUME NEW e \in QueueEntry
  PROVE  /\ \A p \in {"terminal_pending", "announcement_pending"} : [e EXCEPT !.phase = p] \in QueueEntry
         /\ e.attempts + 1 < MaxAttempts => [e EXCEPT !.attempts = @ + 1] \in QueueEntry
         /\ e.cap + 1 < MaxCapacity => [e EXCEPT !.cap = @ + 1] \in QueueEntry
<1>1. \A p \in {"terminal_pending", "announcement_pending"} : [e EXCEPT !.phase = p] \in QueueEntry
  BY DEF QueueEntry
<1>2. e.attempts + 1 < MaxAttempts => e.attempts + 1 \in 0 .. MaxAttempts - 1
  BY DEF QueueEntry
<1>3. e.attempts + 1 < MaxAttempts => [e EXCEPT !.attempts = e.attempts + 1] \in QueueEntry
  BY <1>2 DEF QueueEntry
<1>4. e.cap + 1 < MaxCapacity => e.cap + 1 \in 0 .. MaxCapacity - 1
  BY DEF QueueEntry
<1>5. e.cap + 1 < MaxCapacity => [e EXCEPT !.cap = e.cap + 1] \in QueueEntry
  BY <1>4 DEF QueueEntry
<1> QED BY <1>1, <1>3, <1>5

LEMMA TodoTypes ==
  ASSUME NEW j, NEW phase
  PROVE  Todo(j, phase) \in Begins
BY DEF Todo, Begins

LEMMA GivesUpCarries ==
  ASSUME Records, Holds, drain.pc # "off", GivesUp
  PROVE  Carries
<1> DEFINE pc == Todo(Job, "terminal_pending")
           d == [drain EXCEPT !.pc = pc]
<1>1. pc \in Begins
  BY TodoTypes
<1> HIDE DEF pc
<1>2. d \in Work /\ d.pc # "finish" /\ d.job = Job
  BY <1>1, AtWork DEF Work, Job, Middle, Begins
<1>3. drain' = d
  BY DEF GivesUp, Goes, pc
<1> HIDE DEF d
<1>4. [Entry EXCEPT !.phase = "terminal_pending"] \in QueueEntry
  BY AtWork, EntryMoves
<1>5. Puts([Entry EXCEPT !.phase = "terminal_pending"])
  BY DEF GivesUp
<1>6. /\ entry' \in [Jobs -> QueueEntry \cup {NoEntry}]
      /\ \A j \in Jobs : entry'[j] # NoEntry <=> entry[j] # NoEntry
  BY <1>4, <1>5, PutsTypes
<1>7. entry[Job] # NoEntry
  BY AtWork DEF Entry, Job
<1> QED BY <1>2, <1>3, <1>6, <1>7 DEF Carries

LEMMA TriesAgainCarries ==
  ASSUME Records, Holds, drain.pc # "off", TriesAgain
  PROVE  Carries
<1>1. CASE LastAttempt
  BY <1>1, GivesUpCarries DEF TriesAgain
<1>2. CASE ~LastAttempt
  <2>1. Entry.attempts + 1 < MaxAttempts
    BY <1>2, AtWork DEF LastAttempt, QueueEntry
  <2>2. [Entry EXCEPT !.attempts = @ + 1] \in QueueEntry
    BY <2>1, AtWork, EntryMoves
  <2> QED BY <1>2, <2>2, SleepsCarries DEF TriesAgain
<1> QED BY <1>1, <1>2

LEMMA WaitsCarries ==
  ASSUME Records, Holds, drain.pc # "off", WaitsForVerdict \/ Pends
  PROVE  Carries
<1>1. /\ [Entry EXCEPT !.phase = "terminal_pending"] \in QueueEntry
      /\ [Entry EXCEPT !.phase = "announcement_pending"] \in QueueEntry
  BY AtWork, EntryMoves
<1> QED BY <1>1, SleepsCarries DEF WaitsForVerdict, Pends

LEMMA LeavesCarries ==
  ASSUME Records, Leaves, entry' = entry
  PROVE  Carries
BY DEF Leaves, Carries, Records

----------------------------------------------------------------------------
(* The books of the object: entries, queue, drain and announcements *)

(* A verdict is not a job that is not there, nor one that is staged. *)
LEMMA NoVerdict == None \notin TerminalJob /\ "staged" \notin TerminalJob
BY DEF None, TerminalJob

(* A step of the drain that carries its entry on, and writes no more than   *)
(* verdicts of jobs with an entry, keeps the books.                         *)
LEMMA CarriesKeeps ==
  ASSUME Books, Carries, queue' = queue, req' = req, reopened' = reopened,
         announced \subseteq announced', announced' \subseteq Jobs \X TerminalJob,
         \A j \in Jobs : \/ row'[j].st = row[j].st
                         \/ entry[j] # NoEntry /\ row'[j].st \in TerminalJob
  PROVE  Books'
<1>1. Records'
  BY DEF Books, Records, Carries
<1>2. Queued'
  <2>1. \A n \in DOMAIN queue : queue[n] \in Jobs
    BY DEF Books, Records
  <2> QED BY <2>1 DEF Books, Queued, Carries
<1>3. Holds'
  <2>1. drain' # Off => drain'.job \in Jobs
    BY <1>1 DEF Records, Work
  <2> QED BY <2>1 DEF Holds, Carries, Job
<1>4. AcceptedIsQueued'
  BY DEF Books, AcceptedIsQueued, Carries
<1>5. VerdictsAreAnnounced'
  BY DEF Books, VerdictsAreAnnounced, Carries
<1> QED BY <1>1, <1>2, <1>3, <1>4, <1>5 DEF Books

(* A step of a door, of the sweep or of the user that leaves the object     *)
(* alone keeps the books, if it gives no answer and takes no verdict back.  *)
LEMMA OutsideKeeps ==
  ASSUME Books, UNCHANGED <<object, announced>>, reopened \subseteq reopened',
         \A r \in Requests : req'[r].answer \in {"accepted", "joined"} => req'[r].answer = req[r].answer,
         \A j \in Jobs : \/ row'[j].st = row[j].st
                         \/ j \in reopened'
                         \/ row[j].st = None /\ row'[j].st = "staged"
                         \/ Lane[j] = "follow" /\ row'[j].st = "enriched"
                         \/ entry[j] = NoEntry /\ row[j].st = "staged" /\ row'[j].st = "failed"
  PROVE  Books'
<1>1. Records' /\ Queued'
  BY DEF Books, Records, Queued, object
<1>2. Holds'
  <2> SUFFICES ASSUME drain # Off PROVE Holds'
    BY DEF Holds, object
  <2>1. Job \in Jobs
    BY DEF Books, Records, Work, Job
  <2>2. entry[Job] # NoEntry
    BY DEF Books, Holds
  <2>3. CASE drain.pc = "finish" /\ Job \notin reopened'
    <3>1. row[Job].st \in TerminalJob /\ (Lane[Job] = "mcp" => <<Job, row[Job].st>> \in announced)
      BY <2>3 DEF Books, Holds
    <3>2. \/ row'[Job].st = row[Job].st
          \/ Lane[Job] = "follow" /\ row'[Job].st = "enriched"
      BY <2>1, <2>2, <2>3, <3>1, NoVerdict
    <3> QED BY <2>2, <3>1, <3>2 DEF Holds, object, Job, TerminalJob
  <2>4. CASE ~(drain.pc = "finish" /\ Job \notin reopened')
    BY <2>2, <2>4 DEF Holds, object, Job
  <2> QED BY <2>3, <2>4
<1>3. AcceptedIsQueued'
  <2> SUFFICES ASSUME NEW r \in Requests, ReqJob[r] \notin reopened', req'[r].answer \in {"accepted", "joined"}
               PROVE  row'[ReqJob[r]].st \in TerminalJob \/ entry[ReqJob[r]] # NoEntry
    BY DEF AcceptedIsQueued, object
  <2>1. ReqJob[r] \in Jobs
    OBVIOUS
  <2>2. row[ReqJob[r]].st \in TerminalJob \/ entry[ReqJob[r]] # NoEntry
    BY DEF Books, AcceptedIsQueued
  <2> QED BY <2>1, <2>2, NoVerdict DEF TerminalJob
<1>4. VerdictsAreAnnounced'
  <2> SUFFICES ASSUME NEW r \in Requests, ReqJob[r] \notin reopened', Lane[ReqJob[r]] = "mcp",
                      req'[r].answer = "accepted", entry[ReqJob[r]] = NoEntry
               PROVE  <<ReqJob[r], row'[ReqJob[r]].st>> \in announced
    BY DEF VerdictsAreAnnounced, object
  <2>1. ReqJob[r] \in Jobs
    OBVIOUS
  <2>2. <<ReqJob[r], row[ReqJob[r]].st>> \in announced
    BY DEF Books, VerdictsAreAnnounced
  <2>3. row[ReqJob[r]].st \in TerminalJob
    BY <2>2 DEF Books, Records
  <2>4. row'[ReqJob[r]].st = row[ReqJob[r]].st
    BY <2>1, <2>3, NoVerdict
  <2> QED BY <2>2, <2>4
<1> QED BY <1>1, <1>2, <1>3, <1>4 DEF Books

----------------------------------------------------------------------------
(* The doors *)

(* What a call reads of the job's row is a payload. *)
LEMMA RowRead ==
  ASSUME Rows, NEW r \in Requests
  PROVE  /\ ReqJob[r] \in Jobs /\ row[ReqJob[r]] \in Row /\ row[ReqJob[r]].own \in Own
         /\ req[r] \in Door /\ req[r].own \in Own
BY DEF Rows, Row, Door

LEMMA LooksKeeps ==
  ASSUME LaneInv, NEW r \in Requests, Looks(r)
  PROVE  Rows' /\ Runs' /\ Books'
<1> DEFINE own == row[ReqJob[r]].own
<1>1. own \in Own
  BY RowRead DEF LaneInv
<1> HIDE DEF own
<1>2. \/ \E pc \in {"resolve", "stage", "reopen"} :
           CallAt(r, pc, own) /\ (pc = "reopen" => own.gen < MaxRepairs)
      \/ \E a \in {"duplicate", "refused"} : Replies(r, a)
  BY DEF Looks, own
<1>3. /\ UNCHANGED <<row, run, extract, object, announced, reopened>>
  BY DEF Looks, tables, bounds
<1>4. /\ req' \in [Requests -> Door]
      /\ \A q \in Requests : req'[q].pc = "reopen" => req'[q].own.gen < MaxRepairs
      /\ \A q \in Requests : req'[q].answer \in {"accepted", "joined"} => req'[q].answer = req[q].answer
  BY <1>1, <1>2, CallAtTypes, RepliesTypes DEF LaneInv
<1>5. Rows' /\ Runs'
  BY <1>3, <1>4 DEF LaneInv, Rows, Runs
<1> QED BY <1>3, <1>4, <1>5, OutsideKeeps DEF LaneInv

LEMMA ReopensKeeps ==
  ASSUME LaneInv, NEW r \in Requests, Reopens(r)
  PROVE  Rows' /\ Runs' /\ Books'
<1> DEFINE next == [req[r].own EXCEPT !.gen = @ + 1]
           j == ReqJob[r]
<1>1. next \in Own /\ j \in Jobs
  <2>1. req[r].own \in Own /\ req[r].own.gen < MaxRepairs
    BY RowRead DEF LaneInv, Rows, Reopens
  <2> QED BY <2>1, PayloadTypes, RowRead DEF LaneInv
<1>2. CallAt(r, "stage", next)
  BY DEF Reopens
<1>3. \/ row' = row /\ reopened' = reopened
      \/ row' = [row EXCEPT ![j] = [st |-> "staged", own |-> next]] /\ reopened' = reopened \cup {j}
  BY DEF Reopens
<1>4. UNCHANGED <<run, extract, object, announced>>
  BY DEF Reopens, tables
<1> HIDE DEF next, j
<1>5. /\ req' \in [Requests -> Door]
      /\ \A q \in Requests : req'[q].pc = "reopen" => req'[q].own.gen < MaxRepairs
      /\ \A q \in Requests : req'[q].answer = req[q].answer
  BY <1>1, <1>2, CallAtTypes DEF LaneInv
<1>6. row' \in [Jobs -> Row] /\ \A i \in Jobs : row'[i].st = row[i].st \/ i \in reopened'
  <2> DEFINE mine == [row EXCEPT ![j] = [st |-> "staged", own |-> next]]
  <2>1. row \in [Jobs -> Row]
    BY DEF LaneInv, Rows
  <2>2. mine \in [Jobs -> Row]
    BY <1>1, <2>1, RowTypes
  <2>4. \A i \in Jobs \ {j} : mine[i] = row[i]
    BY <2>1
  <2>3. (row' = row /\ reopened' = reopened) \/ (row' = mine /\ reopened' = reopened \cup {j})
    BY <1>3
  <2> HIDE DEF mine
  <2> QED BY <2>1, <2>2, <2>3, <2>4
<1>7. Rows' /\ Runs'
  BY <1>4, <1>5, <1>6 DEF LaneInv, Rows, Runs
<1> QED BY <1>3, <1>4, <1>5, <1>6, <1>7, OutsideKeeps DEF LaneInv

LEMMA ResolvesKeeps ==
  ASSUME LaneInv, NEW r \in Requests, Resolves(r)
  PROVE  Rows' /\ Runs' /\ Books'
<1>1. \E own \in Own : CallAt(r, "claim", own)
  <2>1. \A p \in Maybe(Jobs), adv, pageless \in BOOLEAN : Payload(0, p, adv, pageless) \in Own
    <3>1. 0 \in 0 .. MaxRepairs
      OBVIOUS
    <3> QED BY <3>1 DEF Payload, Own
  <2>2. ReqJob[r] \in Jobs
    OBVIOUS
  <2> QED BY <2>1, <2>2 DEF Resolves, Maybe
<1>2. UNCHANGED <<row, run, extract, object, announced, reopened>>
  BY DEF Resolves, tables, bounds
<1>3. /\ req' \in [Requests -> Door]
      /\ \A q \in Requests : req'[q].pc = "reopen" => req'[q].own.gen < MaxRepairs
      /\ \A q \in Requests : req'[q].answer = req[q].answer
  BY <1>1, CallAtTypes DEF LaneInv
<1>4. Rows' /\ Runs'
  BY <1>2, <1>3 DEF LaneInv, Rows, Runs
<1> QED BY <1>2, <1>3, <1>4, OutsideKeeps DEF LaneInv

LEMMA ClaimsKeeps ==
  ASSUME LaneInv, NEW r \in Requests, Claims(r)
  PROVE  Rows' /\ Runs' /\ Books'
<1> DEFINE j == ReqJob[r]
           mine == [row EXCEPT ![j] = [st |-> "staged", own |-> req[r].own]]
           k == [req[r] EXCEPT !.pc = "stage", !.claimed = TRUE]
<1>1. /\ j \in Jobs /\ row[j].own \in Own /\ req[r].own \in Own
      /\ row \in [Jobs -> Row]
  BY RowRead DEF LaneInv, Rows
<1>2. UNCHANGED <<run, extract, object, announced, reopened>>
  BY DEF Claims, tables, bounds
<1>3. CASE row[j].st = None /\ row' = mine /\ req' = [req EXCEPT ![r].pc = "stage", ![r].claimed = TRUE]
  <2>1. k \in Door /\ k.pc = "stage" /\ k.answer = req[r].answer
    BY RowRead DEF LaneInv, Door
  <2>2. req' = [req EXCEPT ![r] = k]
    BY <1>3 DEF LaneInv, Rows
  <2> HIDE DEF k
  <2>3. /\ req' \in [Requests -> Door]
        /\ \A q \in Requests : req'[q].pc = "reopen" => req'[q].own.gen < MaxRepairs
        /\ \A q \in Requests : req'[q].answer = req[q].answer
    BY <2>1, <2>2 DEF LaneInv, Rows
  <2>4. mine \in [Jobs -> Row]
    BY <1>1, RowTypes
  <2>8. mine[j].st = "staged"
    BY <1>1
  <2>7. \A i \in Jobs \ {j} : mine[i] = row[i]
    BY <1>1
  <2> HIDE DEF mine
  <2>5. \A i \in Jobs : mine[i].st = row[i].st \/ (row[i].st = None /\ mine[i].st = "staged")
    BY <1>3, <2>4, <2>7, <2>8
  <2>6. Rows' /\ Runs'
    BY <1>2, <1>3, <2>3, <2>4 DEF LaneInv, Rows, Runs
  <2> QED BY <1>2, <1>3, <2>3, <2>5, <2>6, OutsideKeeps DEF LaneInv
<1>4. CASE row' = row /\ (Replies(r, "duplicate") \/ CallAt(r, "stage", row[j].own))
  <2>1. /\ req' \in [Requests -> Door]
        /\ \A q \in Requests : req'[q].pc = "reopen" => req'[q].own.gen < MaxRepairs
        /\ \A q \in Requests : req'[q].answer \in {"accepted", "joined"} => req'[q].answer = req[q].answer
    BY <1>1, <1>4, CallAtTypes, RepliesTypes DEF LaneInv
  <2>2. Rows' /\ Runs'
    BY <1>2, <1>4, <2>1 DEF LaneInv, Rows, Runs
  <2> QED BY <1>2, <1>4, <2>1, <2>2, OutsideKeeps DEF LaneInv
<1>5. \/ row[j].st = None /\ row' = mine /\ req' = [req EXCEPT ![r].pc = "stage", ![r].claimed = TRUE]
      \/ row' = row /\ (Replies(r, "duplicate") \/ CallAt(r, "stage", row[j].own))
  BY DEF Claims
<1> QED BY <1>3, <1>4, <1>5

(* What the payload of a job comes to remember leaves its status alone. *)
LEMMA RemembersTypes ==
  ASSUME LaneInv, NEW r \in Requests, NEW own \in Own, Remembers(r, own)
  PROVE  /\ row' \in [Jobs -> Row]
         /\ \A j \in Jobs : row'[j].st = row[j].st
         /\ req' \in [Requests -> Door]
         /\ \A q \in Requests : req'[q].pc = "reopen" => req'[q].own.gen < MaxRepairs
         /\ \A q \in Requests : req'[q].answer = req[q].answer
<1> DEFINE j == ReqJob[r]
           k == [row[j] EXCEPT !.own = own]
<1>1. row \in [Jobs -> Row] /\ j \in Jobs /\ row[j] \in Row
  BY RowRead DEF LaneInv, Rows
<1>2. k \in Row /\ k.st = row[j].st
  BY <1>1 DEF Row
<1>3. row' = [row EXCEPT ![j] = k]
  BY <1>1 DEF Remembers
<1>4. CallAt(r, "handoff", own)
  BY DEF Remembers
<1> HIDE DEF j, k
<1>5. row' \in [Jobs -> Row] /\ \A i \in Jobs : row'[i].st = row[i].st
  BY <1>1, <1>2, <1>3
<1> QED BY <1>4, <1>5, CallAtTypes DEF LaneInv

LEMMA PagelessTypes ==
  ASSUME LaneInv, NEW r \in Requests, GoesPageless(r)
  PROVE  /\ row' \in [Jobs -> Row]
         /\ \A j \in Jobs : row'[j].st = row[j].st \/ (Lane[j] = "follow" /\ row'[j].st = "enriched")
         /\ req' \in [Requests -> Door]
         /\ \A q \in Requests : req'[q].pc = "reopen" => req'[q].own.gen < MaxRepairs
         /\ \A q \in Requests : req'[q].answer \in {"accepted", "joined"} => req'[q].answer = req[q].answer
<1> DEFINE j == ReqJob[r]
           own == [req[r].own EXCEPT !.page = None, !.adv = FALSE, !.pageless = TRUE]
           rec == [st |-> "enriched", own |-> own]
<1>1. own \in Own /\ row \in [Jobs -> Row] /\ j \in Jobs
  BY RowRead, PayloadTypes DEF LaneInv, Rows
<1>2. CASE Lane[j] = "mcp"
  <2>1. Remembers(r, own)
    BY <1>2 DEF GoesPageless
  <2> HIDE DEF own
  <2> QED BY <1>1, <2>1, RemembersTypes
<1>3. CASE Lane[j] # "mcp"
  <2>1. row' = [row EXCEPT ![j] = rec] /\ Replies(r, "skipped")
    BY <1>3 DEF GoesPageless
  <2>2. rec \in Row /\ rec.st = "enriched"
    BY <1>1 DEF Row, TerminalJob
  <2>3. Lane[j] = "follow"
    BY <1>1, <1>3
  <2> HIDE DEF rec, j
  <2>4. row' \in [Jobs -> Row]
        /\ \A i \in Jobs : row'[i].st = row[i].st \/ (Lane[i] = "follow" /\ row'[i].st = "enriched")
    BY <1>1, <2>1, <2>2, <2>3
  <2> QED BY <2>1, <2>4, RepliesTypes DEF LaneInv
<1> QED BY <1>2, <1>3

LEMMA StagesKeeps ==
  ASSUME LaneInv, NEW r \in Requests,
         StagesNoPage(r) \/ StagesAdvance(r) \/ StagesCreate(r) \/ StagesNothing(r)
  PROVE  Rows' /\ Runs' /\ Books'
<1>1. UNCHANGED <<run, extract, object, announced, reopened>>
  BY DEF StagesNoPage, StagesAdvance, StagesCreate, StagesNothing, tables, bounds
<1>2. req[r].own \in Own /\ ReqJob[r] \in Jobs
  BY RowRead DEF LaneInv
<1>3. \/ row' = row /\ (CallAt(r, "handoff", req[r].own) \/ Replies(r, "error"))
      \/ GoesPageless(r)
      \/ \E own \in Own : Remembers(r, own)
  <2>1. CASE StagesCreate(r)
    <3>1. \A q \in Jobs : [req[r].own EXCEPT !.page = q, !.adv = TRUE] \in Own
      BY <1>2, PayloadTypes
    <3> QED BY <2>1, <3>1 DEF StagesCreate, OthersPage
  <2>2. CASE ~StagesCreate(r)
    BY <2>2 DEF StagesNoPage, StagesAdvance, StagesNothing
  <2> QED BY <2>1, <2>2
<1>4. /\ row' \in [Jobs -> Row]
      /\ \A j \in Jobs : row'[j].st = row[j].st \/ (Lane[j] = "follow" /\ row'[j].st = "enriched")
      /\ req' \in [Requests -> Door]
      /\ \A q \in Requests : req'[q].pc = "reopen" => req'[q].own.gen < MaxRepairs
      /\ \A q \in Requests : req'[q].answer \in {"accepted", "joined"} => req'[q].answer = req[q].answer
  <2>1. CASE row' = row /\ (CallAt(r, "handoff", req[r].own) \/ Replies(r, "error"))
    BY <1>2, <2>1, CallAtTypes, RepliesTypes DEF LaneInv, Rows
  <2>2. CASE GoesPageless(r)
    BY <2>2, PagelessTypes
  <2>3. CASE \E own \in Own : Remembers(r, own)
    BY <2>3, RemembersTypes
  <2> QED BY <1>3, <2>1, <2>2, <2>3
<1>5. Rows' /\ Runs'
  BY <1>1, <1>4 DEF LaneInv, Rows, Runs
<1> QED BY <1>1, <1>4, <1>5, OutsideKeeps DEF LaneInv

LEMMA HandsOffKeeps ==
  ASSUME LaneInv, NEW r \in Requests, HandsOff(r)
  PROVE  Rows' /\ Runs' /\ Books'
<1> DEFINE j == ReqJob[r]
           e == NewEntry(req[r].own)
<1>1. j \in Jobs /\ req[r].own \in Own
  BY RowRead DEF LaneInv
<1>2. UNCHANGED <<row, run, extract, announced, drain, reopened>>
  BY DEF HandsOff, tables, bounds
<1>3. \E a \in {"accepted", "joined"} : Replies(r, a)
  BY DEF HandsOff
<1>4. /\ req' \in [Requests -> Door]
      /\ \A q \in Requests : req'[q].pc = "reopen" => req'[q].own.gen < MaxRepairs
      /\ \A q \in Requests \ {r} : req'[q] = req[q]
  BY <1>3, RepliesTypes DEF LaneInv
<1>5. Rows' /\ Runs'
  BY <1>2, <1>4 DEF LaneInv, Rows, Runs
<1>6. e \in QueueEntry
  <2>1. 0 \in 0 .. MaxAttempts - 1 /\ 0 \in 0 .. MaxCapacity - 1
    OBVIOUS
  <2> QED BY <1>1, <2>1 DEF NewEntry, QueueEntry, Own
<1>7. e # NoEntry
  BY <1>6, EntryIsThere
<1>8. \/ entry[j] = NoEntry /\ entry' = [entry EXCEPT ![j] = e] /\ queue' = Append(queue, j)
      \/ entry[j] # NoEntry /\ UNCHANGED <<entry, queue>>
  BY DEF HandsOff
<1> HIDE DEF e, j
<1>9. entry \in [Jobs -> QueueEntry \cup {NoEntry}] /\ queue \in Seq(Jobs)
  BY DEF LaneInv, Books, Records
<1>10. Records'
  <2>3. entry' = [entry EXCEPT ![j] = e] \/ entry' = entry
    BY <1>8
  <2>4. [entry EXCEPT ![j] = e] \in [Jobs -> QueueEntry \cup {NoEntry}]
    BY <1>1, <1>6, <1>9
  <2>1. entry' \in [Jobs -> QueueEntry \cup {NoEntry}]
    BY <1>9, <2>3, <2>4
  <2>5. Append(queue, j) \in Seq(Jobs)
    BY <1>1, <1>9
  <2>2. queue' \in Seq(Jobs)
    BY <1>8, <1>9, <2>5
  <2> QED BY <1>2, <2>1, <2>2 DEF LaneInv, Books, Records
<1>11. entry'[j] # NoEntry /\ \A i \in Jobs : entry[i] # NoEntry => entry'[i] # NoEntry
  BY <1>1, <1>7, <1>8, <1>9
<1>12. \A i \in Jobs \ {j} : entry'[i] = entry[i]
  BY <1>1, <1>8, <1>9
<1>13. Queued'
  <2>1. CASE entry[j] # NoEntry
    BY <1>8, <2>1 DEF LaneInv, Books, Queued
  <2>2. CASE entry[j] = NoEntry
    <3>1. queue' = Append(queue, j) /\ DOMAIN queue = 1 .. Len(queue) /\ Len(queue) \in Nat
      BY <1>8, <1>9, <2>2
    <3>2. /\ DOMAIN queue' = 1 .. Len(queue) + 1
          /\ queue'[Len(queue) + 1] = j
          /\ \A n \in 1 .. Len(queue) : queue'[n] = queue[n]
      BY <1>1, <1>9, <3>1
    <3>3. \A n \in 1 .. Len(queue) : queue[n] # j /\ queue[n] \in Jobs
      BY <1>9, <2>2, <3>1 DEF LaneInv, Books, Queued
    <3>4. \A n \in DOMAIN queue' : n \in 1 .. Len(queue) \/ n = Len(queue) + 1
      BY <3>1, <3>2
    <3>5. \A n \in DOMAIN queue' : entry'[queue'[n]] # NoEntry
      BY <1>11, <3>1, <3>2, <3>3, <3>4 DEF LaneInv, Books, Queued
    <3>6. \A m, n \in DOMAIN queue' : queue'[m] = queue'[n] => m = n
      BY <3>1, <3>2, <3>3, <3>4 DEF LaneInv, Books, Queued
    <3>7. \A i \in Jobs : entry'[i] # NoEntry => \E n \in DOMAIN queue' : queue'[n] = i
      <4> SUFFICES ASSUME NEW i \in Jobs, entry'[i] # NoEntry PROVE \E n \in DOMAIN queue' : queue'[n] = i
        OBVIOUS
      <4>1. CASE i = j
        BY <3>1, <3>2, <4>1
      <4>2. CASE i # j
        <5>1. PICK n \in DOMAIN queue : queue[n] = i
          BY <1>12, <4>2 DEF LaneInv, Books, Queued
        <5> QED BY <3>1, <3>2, <5>1
      <4> QED BY <4>1, <4>2
    <3> QED BY <3>5, <3>6, <3>7 DEF Queued
  <2> QED BY <2>1, <2>2
<1>14. Holds'
  <2>1. drain # Off => Job \in Jobs
    BY DEF LaneInv, Books, Records, Work, Job
  <2> QED BY <1>2, <1>11, <2>1 DEF LaneInv, Books, Holds, Job
<1>15. AcceptedIsQueued'
  BY <1>2, <1>4, <1>11 DEF LaneInv, Books, AcceptedIsQueued, j
<1>16. VerdictsAreAnnounced'
  BY <1>2, <1>4, <1>11 DEF LaneInv, Books, VerdictsAreAnnounced, j
<1> QED BY <1>5, <1>10, <1>13, <1>14, <1>15, <1>16 DEF Books

LEMMA CallEndsKeeps ==
  ASSUME LaneInv, NEW r \in Requests, CallBreaks(r) \/ CallsAgain(r)
  PROVE  Rows' /\ Runs' /\ Books'
<1>1. UNCHANGED <<row, run, extract, object, announced, reopened>>
  BY DEF CallBreaks, CallsAgain, tables
<1>2. /\ req' \in [Requests -> Door]
      /\ \A q \in Requests : req'[q].pc = "reopen" => req'[q].own.gen < MaxRepairs
      /\ \A q \in Requests : req'[q].answer \in {"accepted", "joined"} => req'[q].answer = req[q].answer
  <2>1. CASE CallBreaks(r)
    BY <2>1, RepliesTypes DEF LaneInv, CallBreaks
  <2>2. CASE CallsAgain(r)
    <3>1. req' = [req EXCEPT ![r] = NewCall]
      BY <2>2 DEF CallsAgain
    <3> QED BY <3>1, EmptyRecords DEF LaneInv, Rows, None
  <2> QED BY <2>1, <2>2
<1>3. Rows' /\ Runs'
  BY <1>1, <1>2 DEF LaneInv, Rows, Runs
<1> QED BY <1>1, <1>2, <1>3, OutsideKeeps DEF LaneInv

----------------------------------------------------------------------------
(* The drain *)

(* A job with an entry. *)
LEMMA HasEntry ==
  ASSUME LaneInv, drain.pc # "off"
  PROVE  /\ Records /\ Holds /\ drain # Off
         /\ Job \in Jobs /\ entry[Job] # NoEntry /\ Entry \in QueueEntry
         /\ Entry.page \in Maybe(Jobs) /\ RunId \in RunIds
<1>1. Records /\ Holds
  BY DEF LaneInv, Books
<1>2. Job \in Jobs /\ Entry \in QueueEntry /\ Entry # NoEntry /\ drain # Off /\ Entry.page \in Maybe(Jobs)
  BY <1>1, AtWork
<1>3. RunId \in RunIds
  BY <1>2 DEF RunId, RunIds, QueueEntry
<1> QED BY <1>1, <1>2, <1>3 DEF Entry, Job

(* Rows that the drain does not write, and the verdicts that it does. *)
LEMMA SetsRowTypes ==
  ASSUME LaneInv, drain.pc # "off", NEW st \in TerminalJob, SetsRow(st)
  PROVE  /\ row' \in [Jobs -> Row]
         /\ row'[Job].st = st
         /\ \A j \in Jobs : row'[j].st = row[j].st \/ (entry[j] # NoEntry /\ row'[j].st \in TerminalJob)
<1> DEFINE own == Forgets(row[Job].own)
           rec == [st |-> st, own |-> own]
<1>1. Job \in Jobs /\ entry[Job] # NoEntry /\ Entry.page \in Maybe(Jobs) /\ row \in [Jobs -> Row]
  BY HasEntry DEF LaneInv, Rows
<1>2. own \in Own
  BY <1>1, ForgetsTypes DEF Forgets, Row
<1> HIDE DEF own
<1>3. rec \in Row /\ rec.st = st
  BY <1>2 DEF Row
<1>4. row' = [row EXCEPT ![Job] = rec]
  BY <1>1 DEF SetsRow, own
<1> HIDE DEF rec
<1> QED BY <1>1, <1>3, <1>4

(* A drain step that leaves rows, runs and announcements alone. *)
LEMMA CarriesOnKeeps ==
  ASSUME LaneInv, Carries, UNCHANGED <<row, run, extract, announced, queue, req, reopened>>
  PROVE  Rows' /\ Runs' /\ Books'
<1>1. Rows' /\ Runs'
  BY DEF LaneInv, Rows, Runs
<1>2. announced \subseteq Jobs \X TerminalJob
  BY DEF LaneInv, Books, Records
<1> QED BY <1>1, <1>2, CarriesKeeps DEF LaneInv

LEMMA PicksKeeps ==
  ASSUME LaneInv, Picks
  PROVE  Rows' /\ Runs' /\ Books'
<1>1. PICK n \in DOMAIN queue :
        drain' = [pc |-> Todo(queue[n], entry[queue[n]].phase), job |-> queue[n], out |-> None]
  BY DEF Picks
<1>2. queue[n] \in Jobs /\ entry[queue[n]] # NoEntry
  BY DEF LaneInv, Books, Records, Queued
<1> DEFINE pc == Todo(queue[n], entry[queue[n]].phase)
<1>3. pc \in Begins
  BY TodoTypes
<1> HIDE DEF pc
<1>4. drain' = [pc |-> pc, job |-> queue[n], out |-> None]
  BY <1>1 DEF pc
<1>5. drain' \in Work /\ drain'.pc # "finish" /\ drain'.job = queue[n]
  BY <1>2, <1>3, <1>4 DEF Work, Begins, Middle, RunState
<1>6. entry' = entry
  BY DEF Picks
<1>7. Carries
  BY <1>2, <1>5, <1>6 DEF Carries, LaneInv, Books, Records
<1>8. UNCHANGED <<row, run, extract, announced, queue, req, reopened>>
  BY DEF Picks, elsewhere, bounds
<1> QED BY <1>7, <1>8, CarriesOnKeeps

(* The steps of an attempt that neither call the model nor write a verdict. *)
LEMMA ObservesKeeps ==
  ASSUME LaneInv, Observes
  PROVE  Rows' /\ Runs' /\ Books'
<1>1. drain.pc = "observe" /\ UNCHANGED <<row, run, extract, announced, queue, req, reopened>>
  BY DEF Observes, elsewhere, bounds
<1>2. (Goes("claim") /\ entry' = entry) \/ TriesAgain
  BY DEF Observes
<1>3. Carries
  BY <1>1, <1>2, HasEntry, GoesCarries, TriesAgainCarries DEF Middle, Begins
<1> QED BY <1>1, <1>3, CarriesOnKeeps

LEMMA FollowsKeeps ==
  ASSUME LaneInv, Follows
  PROVE  Rows' /\ Runs' /\ Books'
<1>1. drain.pc = "follow" /\ UNCHANGED <<row, run, extract, announced, queue, req, reopened>>
  BY DEF Follows, elsewhere, bounds
<1>2. Job \in Jobs /\ Entry \in QueueEntry /\ extract[Job] \in Verdict
  BY <1>1, HasEntry DEF LaneInv, Runs
<1>3. \/ Sleeps(Entry)
      \/ Goes("fail") /\ entry' = entry
      \/ \E out \in RunState \cup Verdict : Ends(out) /\ entry' = entry
  BY <1>2 DEF Follows, RunState, Ending
<1>4. Carries
  BY <1>1, <1>2, <1>3, HasEntry, SleepsCarries, GoesCarries, EndsCarries DEF Middle, Begins
<1> QED BY <1>1, <1>4, CarriesOnKeeps

LEMMA RefusedKeeps ==
  ASSUME LaneInv, Refused \/ Misses
  PROVE  Rows' /\ Runs' /\ Books'
<1>1. drain.pc = "ended" /\ UNCHANGED <<row, run, extract, announced, queue, req, reopened>>
  BY DEF Refused, Misses, elsewhere, bounds
<1>2. Entry \in QueueEntry
  BY <1>1, HasEntry
<1>3. \/ GivesUp \/ TriesAgain
      \/ Goes("fail") /\ entry' = entry
      \/ Entry.cap + 1 < MaxCapacity /\ Sleeps([Entry EXCEPT !.cap = @ + 1])
  <2>1. Entry.cap \in Int /\ MaxCapacity \in Int
    BY <1>2 DEF QueueEntry
  <2> QED BY <2>1 DEF Refused, Misses
<1>4. Entry.cap + 1 < MaxCapacity => [Entry EXCEPT !.cap = @ + 1] \in QueueEntry
  BY <1>2, EntryMoves
<1>5. Carries
  BY <1>1, <1>3, <1>4, HasEntry, GivesUpCarries, TriesAgainCarries, GoesCarries, SleepsCarries
     DEF Middle, Begins
<1> QED BY <1>1, <1>5, CarriesOnKeeps

LEMMA FinalizesKeeps ==
  ASSUME LaneInv,
         WithoutPage \/ FinalizesAdvance \/ FinalizesFollowed \/ FinalizesCreated \/ AddsNothing
  PROVE  Rows' /\ Runs' /\ Books'
<1>1. drain.pc = "ended" /\ UNCHANGED <<row, run, extract, announced, queue, req, reopened>>
  BY DEF WithoutPage, FinalizesAdvance, FinalizesFollowed, FinalizesCreated, AddsNothing, HasPlan,
         elsewhere, bounds
<1>2. \/ TriesAgain
      \/ \E pc \in {"settle", "fail"} : Goes(pc) /\ entry' = entry
  BY DEF WithoutPage, FinalizesAdvance, FinalizesFollowed, FinalizesCreated, AddsNothing
<1>3. Carries
  BY <1>1, <1>2, HasEntry, TriesAgainCarries, GoesCarries DEF Middle, Begins
<1> QED BY <1>1, <1>3, CarriesOnKeeps

LEMMA BreaksKeeps ==
  ASSUME LaneInv, Marks \/ Confirms \/ Breaks \/ Dies
  PROVE  Rows' /\ Runs' /\ Books'
<1>1. UNCHANGED <<row, run, extract, announced, queue, req, reopened>>
  BY DEF Marks, Confirms, Breaks, Dies, elsewhere, bounds
<1>2. CASE Dies
  BY <1>1, <1>2, LeavesCarries, CarriesOnKeeps DEF Dies, LaneInv, Books
<1>3. CASE ~Dies
  <2>1. drain.pc # "off"
    BY <1>3 DEF Marks, Confirms, Breaks, NotSettled
  <2>2. \/ TriesAgain \/ WaitsForVerdict \/ Pends
        \/ \E pc \in {"fail", "confirm", "announce"} : Goes(pc) /\ entry' = entry
    BY <1>3 DEF Marks, Confirms, Breaks, NotSettled
  <2>3. Carries
    BY <2>1, <2>2, HasEntry, TriesAgainCarries, WaitsCarries, GoesCarries DEF Middle, Begins
  <2> QED BY <1>1, <2>3, CarriesOnKeeps
<1> QED BY <1>2, <1>3

LEMMA RunTypes ==
  ASSUME LaneInv, drain.pc # "off", NEW st \in RunState, SetsRun(st)
  PROVE  run' \in [Jobs -> [RunIds -> RunState]]
<1> DEFINE f == [run[Job] EXCEPT ![RunId] = st]
<1>1. Job \in Jobs /\ RunId \in RunIds /\ run \in [Jobs -> [RunIds -> RunState]]
  BY HasEntry DEF LaneInv, Runs
<1>2. f \in [RunIds -> RunState]
  BY <1>1
<1>3. run' = [run EXCEPT ![Job] = f]
  BY <1>1 DEF SetsRun
<1> HIDE DEF f
<1> QED BY <1>1, <1>2, <1>3

(* The steps that work on a run. *)
LEMMA InfersKeeps ==
  ASSUME LaneInv, ClaimsRun \/ \E out \in Outcomes : Infers(out)
  PROVE  Rows' /\ Runs' /\ Books'
<1>1. /\ drain.pc # "off"
      /\ UNCHANGED <<row, extract, announced, queue, req, reopened>>
  BY DEF ClaimsRun, Infers, elsewhere, bounds
<1>2. run[Job][RunId] \in RunState /\ Entry \in QueueEntry
  BY <1>1, HasEntry DEF LaneInv, Runs
<1>3. run' = run \/ \E st \in RunState : SetsRun(st)
  BY DEF ClaimsRun, Infers, RunState, Ending
<1>4. run' \in [Jobs -> [RunIds -> RunState]]
  BY <1>1, <1>3, RunTypes DEF LaneInv, Runs
<1>5. \/ Goes("model") /\ entry' = entry
      \/ Sleeps(Entry)
      \/ \E st \in RunState \cup Verdict : Ends(st) /\ entry' = entry
  BY <1>2 DEF ClaimsRun, Infers, RunState, Ending
<1>6. Carries
  BY <1>1, <1>2, <1>5, HasEntry, SleepsCarries, GoesCarries, EndsCarries DEF Middle, Begins
<1>7. Rows' /\ Runs'
  BY <1>1, <1>4 DEF LaneInv, Rows, Runs
<1>8. announced \subseteq Jobs \X TerminalJob
  BY DEF LaneInv, Books, Records
<1> QED BY <1>1, <1>6, <1>7, <1>8, CarriesKeeps DEF LaneInv

(* The steps that write the verdict. *)
LEMMA VerdictKeeps ==
  ASSUME LaneInv, Settles \/ Fails \/ Repairs
  PROVE  Rows' /\ Runs' /\ Books'
<1>1. /\ drain.pc # "off"
      /\ UNCHANGED <<run, extract, announced, queue, req, reopened>>
  BY DEF Settles, Fails, Repairs, elsewhere, bounds
<1>2. \E pc \in {"confirm", "mark", "announce"} : Goes(pc) /\ entry' = entry
  BY DEF Settles, Fails, Repairs
<1>3. \E st \in TerminalJob : SetsRow(st)
  BY DEF Settles, Fails, Repairs, TerminalJob
<1>4. Carries
  BY <1>1, <1>2, HasEntry, GoesCarries DEF Middle, Begins
<1>5. /\ row' \in [Jobs -> Row]
      /\ \A j \in Jobs : row'[j].st = row[j].st \/ (entry[j] # NoEntry /\ row'[j].st \in TerminalJob)
  BY <1>1, <1>3, SetsRowTypes
<1>6. Rows' /\ Runs'
  BY <1>1, <1>5 DEF LaneInv, Rows, Runs
<1>7. announced \subseteq Jobs \X TerminalJob
  BY DEF LaneInv, Books, Records
<1> QED BY <1>1, <1>4, <1>5, <1>6, <1>7, CarriesKeeps DEF LaneInv

LEMMA AnnouncesKeeps ==
  ASSUME LaneInv, Announces
  PROVE  Rows' /\ Runs' /\ Books'
<1>1. /\ drain.pc # "off"
      /\ UNCHANGED <<row, run, extract, queue, req, reopened>>
  BY DEF Announces, elsewhere, bounds
<1>2. Rows' /\ Runs'
  BY <1>1 DEF LaneInv, Rows, Runs
<1>3. CASE row[Job].st \in TerminalJob
  <2>1. /\ drain' = [drain EXCEPT !.pc = "finish"] /\ entry' = entry
        /\ announced' = announced \/ announced' = announced \cup {<<Job, row[Job].st>>}
        /\ Lane[Job] = "mcp" => <<Job, row[Job].st>> \in announced'
    BY <1>3 DEF Announces, Goes
  <2>2. Job \in Jobs /\ entry[Job] # NoEntry /\ Records /\ drain # Off /\ drain \in Work
    BY <1>1, HasEntry DEF Records
  <2>3. drain' \in Work /\ drain'.job = Job
    BY <2>1, <2>2 DEF Work, Job
  <2>4. drain'.pc = "finish"
    BY <2>1, <2>2 DEF Work
  <2>5. Records' /\ announced \subseteq announced'
    BY <1>1, <1>3, <2>1, <2>2, <2>3 DEF Records
  <2>6. Queued'
    BY <1>1, <2>1 DEF LaneInv, Books, Queued
  <2>7. Holds'
    BY <1>1, <1>3, <2>1, <2>2, <2>3 DEF Holds, Job
  <2>8. AcceptedIsQueued'
    BY <1>1, <2>1 DEF LaneInv, Books, AcceptedIsQueued
  <2>9. VerdictsAreAnnounced'
    BY <1>1, <2>1, <2>5 DEF LaneInv, Books, VerdictsAreAnnounced
  <2> QED BY <1>2, <2>5, <2>6, <2>7, <2>8, <2>9 DEF Books
<1>4. CASE row[Job].st \notin TerminalJob
  <2>1. Pends /\ announced' = announced
    BY <1>4 DEF Announces
  <2>2. Carries
    BY <1>1, <2>1, HasEntry, WaitsCarries
  <2> QED BY <1>1, <2>1, <2>2, CarriesOnKeeps
<1> QED BY <1>3, <1>4

(* What is left of the queue when one entry has gone. *)
LEMMA RemovedFrom ==
  ASSUME NEW S, NEW q \in Seq(S), NEW n \in DOMAIN q,
         \A l, m \in DOMAIN q : q[l] = q[m] => l = m
  PROVE  LET t == RemoveAt(q, n)
         IN  /\ t \in Seq(S)
             /\ \A m \in DOMAIN t : \E l \in DOMAIN q \ {n} : t[m] = q[l]
             /\ \A l \in DOMAIN q \ {n} : \E m \in DOMAIN t : t[m] = q[l]
             /\ \A l, m \in DOMAIN t : t[l] = t[m] => l = m
<1> DEFINE t == RemoveAt(q, n)
<1>1. n \in 1 .. Len(q) /\ Len(q) \in Nat /\ DOMAIN q = 1 .. Len(q)
  OBVIOUS
<1> DEFINE front == SubSeq(q, 1, n - 1)
           back == SubSeq(q, n + 1, Len(q))
<1>2. t = front \o back
  BY DEF RemoveAt
<1>3. front \in Seq(S) /\ Len(front) = n - 1 /\ \A i \in 1 .. n - 1 : front[i] = q[i]
  <2>1. \A i \in 1 .. n - 1 : q[i] \in S
    BY <1>1
  <2>2. /\ front \in Seq(S) /\ Len(front) = IF 1 <= n - 1 THEN (n - 1) - 1 + 1 ELSE 0
        /\ \A i \in 1 .. (n - 1) - 1 + 1 : front[i] = q[1 + i - 1]
    BY <1>1, <2>1, SubSeqProperties
  <2> HIDE DEF front
  <2>3. Len(front) = IF 1 <= n - 1 THEN (n - 1) - 1 + 1 ELSE 0
    BY <2>2, Zenon
  <2>4. Len(front) = n - 1
    BY <1>1, <2>3
  <2>5. \A i \in 1 .. n - 1 : front[i] = q[i]
    <3> SUFFICES ASSUME NEW i \in 1 .. n - 1 PROVE front[i] = q[i]
      OBVIOUS
    <3>1. i \in 1 .. (n - 1) - 1 + 1 /\ 1 + i - 1 = i
      BY <1>1
    <3>2. front[i] = q[1 + i - 1]
      BY <2>2, <3>1, Zenon
    <3> QED BY <3>1, <3>2, Zenon
  <2> QED BY <2>2, <2>4, <2>5
<1>4. back \in Seq(S) /\ Len(back) = Len(q) - n /\ \A i \in 1 .. Len(q) - n : back[i] = q[i + n]
  <2>1. \A i \in n + 1 .. Len(q) : q[i] \in S
    BY <1>1
  <2>2. /\ back \in Seq(S) /\ Len(back) = IF n + 1 <= Len(q) THEN Len(q) - (n + 1) + 1 ELSE 0
        /\ \A i \in 1 .. Len(q) - (n + 1) + 1 : back[i] = q[(n + 1) + i - 1]
    BY <1>1, <2>1, SubSeqProperties, SMTT(30)
  <2> HIDE DEF back
  <2>5. Len(back) = IF n + 1 <= Len(q) THEN Len(q) - (n + 1) + 1 ELSE 0
    BY <2>2, Zenon
  <2>3. Len(back) = Len(q) - n
    BY <1>1, <2>5, SMTT(30)
  <2>4. \A i \in 1 .. Len(q) - n : back[i] = q[i + n]
    <3> SUFFICES ASSUME NEW i \in 1 .. Len(q) - n PROVE back[i] = q[i + n]
      OBVIOUS
    <3>1. i \in 1 .. Len(q) - (n + 1) + 1 /\ (n + 1) + i - 1 = i + n
      BY <1>1
    <3>2. back[i] = q[(n + 1) + i - 1]
      BY <2>2, <3>1, Zenon
    <3> QED BY <3>1, <3>2, Zenon
  <2> QED BY <2>2, <2>3, <2>4
<1> HIDE DEF t, front, back
<1>11. front \in Seq(S) /\ back \in Seq(S)
  BY <1>3, <1>4
<1>12. /\ front \o back \in Seq(S)
       /\ Len(front \o back) = Len(front) + Len(back)
       /\ \A i \in 1 .. Len(front) + Len(back) :
            (front \o back)[i] = IF i <= Len(front) THEN front[i] ELSE back[i - Len(front)]
  <2> HIDE McpConstants
  <2>1. \A s1, s2 \in Seq(S) :
         /\ s1 \o s2 \in Seq(S)
         /\ Len(s1 \o s2) = Len(s1) + Len(s2)
         /\ \A i \in 1 .. Len(s1) + Len(s2) :
              (s1 \o s2)[i] = IF i <= Len(s1) THEN s1[i] ELSE s2[i - Len(s1)]
    BY ConcatProperties, Zenon
  <2> QED BY <1>11, <2>1, Zenon
<1>5. t \in Seq(S) /\ Len(t) = Len(q) - 1
  <2>1. Len(front) + Len(back) = Len(q) - 1
    BY <1>1, <1>3, <1>4
  <2> QED BY <1>2, <1>12, <2>1, Zenon
<1>6. \A i \in 1 .. Len(q) - 1 : t[i] = IF i < n THEN q[i] ELSE q[i + 1]
  <2>1. \A i \in 1 .. Len(front) + Len(back) :
          t[i] = IF i <= Len(front) THEN front[i] ELSE back[i - Len(front)]
    BY <1>2, <1>12, Zenon
  <2> SUFFICES ASSUME NEW i \in 1 .. Len(q) - 1 PROVE t[i] = IF i < n THEN q[i] ELSE q[i + 1]
    OBVIOUS
  <2>2. CASE i < n
    <3>1. i \in 1 .. n - 1 /\ i \in 1 .. Len(front) + Len(back) /\ i <= Len(front)
      BY <1>1, <1>3, <1>4, <2>2, SMTT(30)
    <3>2. t[i] = front[i]
      BY <2>1, <3>1, Zenon
    <3> QED BY <1>3, <2>2, <3>1, <3>2, Zenon
  <2>3. CASE i >= n
    <3>3. i - (n - 1) \in 1 .. Len(q) - n /\ i \in 1 .. Len(front) + Len(back) /\ ~(i <= Len(front))
      BY <1>1, <1>3, <1>4, <2>3, SMTT(30)
    <3>4. t[i] = back[i - Len(front)]
      BY <2>1, <3>3, Zenon
    <3>1. t[i] = back[i - (n - 1)] /\ i - (n - 1) \in 1 .. Len(q) - n
      BY <1>3, <3>3, <3>4, Zenon
    <3>2. (i - (n - 1)) + n = i + 1
      OBVIOUS
    <3> QED BY <1>4, <2>3, <3>1, <3>2
  <2> QED BY <1>1, <2>2, <2>3
<1>7. DOMAIN t = 1 .. Len(q) - 1
  BY <1>5
<1>8. \A m \in DOMAIN t : \E l \in DOMAIN q \ {n} : t[m] = q[l]
  <2> TAKE m \in DOMAIN t
  <2>1. CASE m < n
    BY <1>1, <1>6, <1>7, <2>1
  <2>2. CASE m >= n
    <3>1. m + 1 \in DOMAIN q \ {n} /\ t[m] = q[m + 1]
      BY <1>1, <1>6, <1>7, <2>2
    <3> QED BY <3>1
  <2> QED BY <1>1, <1>7, <2>1, <2>2
<1>9. \A l \in DOMAIN q \ {n} : \E m \in DOMAIN t : t[m] = q[l]
  <2> TAKE l \in DOMAIN q \ {n}
  <2>1. CASE l < n
    BY <1>1, <1>6, <1>7, <2>1
  <2>2. CASE l > n
    <3>1. l - 1 \in DOMAIN t /\ t[l - 1] = q[l]
      BY <1>1, <1>6, <1>7, <2>2
    <3> QED BY <3>1
  <2> QED BY <1>1, <2>1, <2>2
<1>10. \A l, m \in DOMAIN t : t[l] = t[m] => l = m
  <2> SUFFICES ASSUME NEW l \in DOMAIN t, NEW m \in DOMAIN t, t[l] = t[m] PROVE l = m
    OBVIOUS
  <2> DEFINE a == IF l < n THEN l ELSE l + 1
             b == IF m < n THEN m ELSE m + 1
  <2>1. l \in Int /\ m \in Int /\ a \in DOMAIN q /\ b \in DOMAIN q
    BY <1>1, <1>7
  <2>2. t[l] = q[a] /\ t[m] = q[b]
    BY <1>1, <1>6, <1>7
  <2>3. a = b
    <3> HIDE DEF a, b
    <3> QED BY <2>1, <2>2
  <2> QED BY <1>1, <2>1, <2>3
<1> QED BY <1>5, <1>8, <1>9, <1>10 DEF t

(* The entry of a job goes with its place in the queue, and not before its   *)
(* verdict is announced.                                                     *)
LEMMA FinishesKeeps ==
  ASSUME LaneInv, Finishes
  PROVE  Rows' /\ Runs' /\ Books'
<1>1. /\ drain.pc = "finish" /\ drain' = Off
      /\ entry' = [entry EXCEPT ![Job] = NoEntry]
      /\ UNCHANGED <<row, run, extract, announced, req, reopened>>
  BY DEF Finishes, Leaves, elsewhere, bounds
<1>2. PICK n \in DOMAIN queue : queue[n] = Job /\ queue' = RemoveAt(queue, n)
  BY DEF Finishes
<1>3. Rows' /\ Runs'
  BY <1>1 DEF LaneInv, Rows, Runs
<1>4. /\ Job \in Jobs /\ queue \in Seq(Jobs)
      /\ entry \in [Jobs -> QueueEntry \cup {NoEntry}]
      /\ \A l, m \in DOMAIN queue : queue[l] = queue[m] => l = m
  BY <1>1, HasEntry DEF LaneInv, Books, Records, Queued
<1>5. /\ queue' \in Seq(Jobs)
      /\ \A m \in DOMAIN queue' : \E l \in DOMAIN queue \ {n} : queue'[m] = queue[l]
      /\ \A l \in DOMAIN queue \ {n} : \E m \in DOMAIN queue' : queue'[m] = queue[l]
      /\ \A l, m \in DOMAIN queue' : queue'[l] = queue'[m] => l = m
  BY <1>2, <1>4, RemovedFrom
<1>6. entry'[Job] = NoEntry /\ \A j \in Jobs \ {Job} : entry'[j] = entry[j]
  BY <1>1, <1>4
<1>7. Records'
  BY <1>1, <1>4, <1>5 DEF LaneInv, Books, Records
<1>8. Queued'
  <2>1. \A l \in DOMAIN queue \ {n} : queue[l] # Job /\ queue[l] \in Jobs /\ entry[queue[l]] # NoEntry
    BY <1>2, <1>4 DEF LaneInv, Books, Queued
  <2>2. \A m \in DOMAIN queue' : entry'[queue'[m]] # NoEntry
    BY <1>5, <1>6, <2>1
  <2>3. \A j \in Jobs : entry'[j] # NoEntry => \E m \in DOMAIN queue' : queue'[m] = j
    <3> SUFFICES ASSUME NEW j \in Jobs, entry'[j] # NoEntry PROVE \E m \in DOMAIN queue' : queue'[m] = j
      OBVIOUS
    <3>1. j # Job /\ entry[j] # NoEntry
      BY <1>6
    <3>2. PICK l \in DOMAIN queue : queue[l] = j
      BY <3>1 DEF LaneInv, Books, Queued
    <3>3. l # n
      BY <1>2, <3>1, <3>2
    <3> QED BY <1>5, <3>2, <3>3
  <2> QED BY <1>5, <2>2, <2>3 DEF Queued
<1>9. Holds'
  BY <1>1 DEF Holds
<1>10. Job \in reopened \/ /\ row[Job].st \in TerminalJob
                           /\ Lane[Job] = "mcp" => <<Job, row[Job].st>> \in announced
  <2>1. drain # Off
    BY <1>1, HasEntry
  <2> QED BY <1>1, <2>1 DEF LaneInv, Books, Holds
<1>11. AcceptedIsQueued'
  BY <1>1, <1>6, <1>10 DEF LaneInv, Books, AcceptedIsQueued
<1>12. VerdictsAreAnnounced'
  BY <1>1, <1>6, <1>10 DEF LaneInv, Books, VerdictsAreAnnounced
<1> QED BY <1>3, <1>7, <1>8, <1>9, <1>11, <1>12 DEF Books

(* Time passes for an entry asleep, while nothing drains. *)
LEMMA WakesKeeps ==
  ASSUME LaneInv, NEW j \in Jobs, Wakes(j)
  PROVE  Rows' /\ Runs' /\ Books'
<1> DEFINE e == [entry[j] EXCEPT !.late = FALSE]
           i == <<entry[j].gen, entry[j].attempts, entry[j].cap>>
           f == [run[j] EXCEPT ![i] = "aged"]
<1>1. /\ entry[j] # NoEntry /\ drain = Off
      /\ UNCHANGED <<row, announced, queue, drain, req, reopened>>
  BY DEF Wakes, bounds
<1>2. entry[j] \in QueueEntry
  BY <1>1 DEF LaneInv, Books, Records
<1>3. e \in QueueEntry
  BY <1>2 DEF QueueEntry
<1>4. entry' = [entry EXCEPT ![j] = e]
  BY DEF Wakes, LaneInv, Books, Records
<1>5. e # NoEntry
  BY <1>3, EntryIsThere
<1> HIDE DEF e
<1>6. /\ entry' \in [Jobs -> QueueEntry \cup {NoEntry}]
      /\ \A k \in Jobs : entry'[k] # NoEntry <=> entry[k] # NoEntry
  BY <1>1, <1>3, <1>4, <1>5 DEF LaneInv, Books, Records
<1>7. Carries
  BY <1>1, <1>6 DEF Carries
<1>8. run' \in [Jobs -> [RunIds -> RunState]]
  <2>1. i \in RunIds
    BY <1>2 DEF RunIds, QueueEntry
  <2>2. run \in [Jobs -> [RunIds -> RunState]]
    BY DEF LaneInv, Runs
  <2>3. f \in [RunIds -> RunState]
    BY <2>1, <2>2 DEF RunState
  <2>4. run' = run \/ run' = [run EXCEPT ![j] = f]
    BY <2>2 DEF Wakes
  <2> HIDE DEF f
  <2> QED BY <2>2, <2>3, <2>4
<1>9. extract' \in [Jobs -> Verdict]
  <2>1. extract \in [Jobs -> Verdict]
    BY DEF LaneInv, Runs
  <2>2. extract' = extract \/ \E v \in Verdict : extract' = [extract EXCEPT ![j] = v]
    BY DEF Wakes, Verdict
  <2> QED BY <2>1, <2>2
<1>10. Rows' /\ Runs'
  BY <1>1, <1>8, <1>9 DEF LaneInv, Rows, Runs
<1>11. announced \subseteq Jobs \X TerminalJob
  BY DEF LaneInv, Books, Records
<1> QED BY <1>1, <1>7, <1>10, <1>11, CarriesKeeps DEF LaneInv

LEMMA SweepsKeeps ==
  ASSUME LaneInv, NEW j \in Jobs, Sweeps(j)
  PROVE  Rows' /\ Runs' /\ Books'
<1> DEFINE k == [row[j] EXCEPT !.st = "failed"]
<1>1. /\ row[j].st = "staged" /\ entry[j] = NoEntry
      /\ row \in [Jobs -> Row] /\ row' = [row EXCEPT ![j].st = "failed"]
      /\ UNCHANGED <<run, extract, object, announced, req, reopened>>
  BY DEF LaneInv, Rows, Sweeps, tables, bounds
<1>2. k \in Row /\ k.st = "failed"
  BY <1>1 DEF Row, TerminalJob
<1>3. row' = [row EXCEPT ![j] = k]
  BY <1>1
<1> HIDE DEF k
<1>4. /\ row' \in [Jobs -> Row] /\ row'[j].st = "failed"
      /\ \A i \in Jobs \ {j} : row'[i] = row[i]
  BY <1>1, <1>2, <1>3
<1>5. Rows' /\ Runs'
  BY <1>1, <1>4 DEF LaneInv, Rows, Runs
<1> QED BY <1>1, <1>4, <1>5, OutsideKeeps DEF LaneInv

LEMMA UserKeeps ==
  ASSUME LaneInv, NEW p \in Jobs, EditsPage(p) \/ DeletesPage(p)
  PROVE  Rows' /\ Runs' /\ Books'
<1>1. UNCHANGED <<row, run, extract, object, announced, req, reopened>>
  BY DEF EditsPage, DeletesPage, tables
<1>2. Rows' /\ Runs'
  BY <1>1 DEF LaneInv, Rows, Runs
<1> QED BY <1>1, <1>2, OutsideKeeps DEF LaneInv

----------------------------------------------------------------------------
(* The pages *)

Overwrites == drain # Off /\ Lane[Job] # "follow"

(* What a step may do to the pages: it changes one, which was live or takes  *)
(* a place that is free, and which keeps the user's wording unless it goes   *)
(* or an MCP save renders it that has observed its revision.               *)
Becomes(p, rec) ==
    /\ page' = [page EXCEPT ![p] = rec]
    /\ rec.st = None => ~rec.user
    /\ rec.st \in {"staged", "enriched", "failed"} => Live(p) \/ OthersPage(p) = {}
    /\ page[p].user => rec.user \/ rec.st = "deleted" \/ (Overwrites /\ page[p].seen)

PageChange == page' = page \/ \E p \in Jobs, rec \in Page : Becomes(p, rec)

LEMMA PageChangeKeeps ==
  ASSUME Pages, OnePagePerConversation, PageChange
  PROVE  /\ Pages' /\ OnePagePerConversation'
         /\ \A p \in Jobs : page[p].user /\ (page[p].since \/ ~Overwrites) /\ page'[p].st # "deleted"
              => page'[p].user
<1>1. CASE page' = page
  BY <1>1 DEF Pages, OnePagePerConversation, Live
<1>2. CASE \E p \in Jobs, rec \in Page : Becomes(p, rec)
  <2>1. PICK p \in Jobs, rec \in Page : Becomes(p, rec)
    BY <1>2
  <2>2. /\ page' \in [Jobs -> Page] /\ page'[p] = rec
        /\ \A q \in Jobs \ {p} : page'[q] = page[q]
    BY <2>1 DEF Becomes, Pages
  <2>3. Pages'
    BY <2>1, <2>2 DEF Becomes, Pages
  <2>4. Live(p)' => Live(p) \/ OthersPage(p) = {}
    BY <2>1, <2>2 DEF Becomes, Live
  <2>5. \A q \in Jobs \ {p} : Live(q)' = Live(q)
    BY <2>2 DEF Live
  <2>6. OnePagePerConversation'
    <3>1. \A q \in Jobs \ {p} : Live(p)' => ~Live(q)
      BY <2>4 DEF OnePagePerConversation, OthersPage
    <3>2. \A q, s \in Jobs : Live(q)' /\ Live(s)' => q = s
      BY <2>5, <3>1 DEF OnePagePerConversation
    <3> QED BY <3>2 DEF OnePagePerConversation
  <2>7. \A q \in Jobs : page[q].user /\ (page[q].since \/ ~Overwrites) /\ page'[q].st # "deleted"
          => page'[q].user
    <3>1. page[p].since => ~page[p].seen
      BY DEF Pages, Page
    <3> QED BY <2>1, <2>2, <3>1 DEF Becomes
  <2> QED BY <2>3, <2>6, <2>7
<1> QED BY <1>1, <1>2 DEF PageChange

(* A live page stays where it is when its state, its revision or its packet *)
(* pointer moves on.                                                        *)
LEMMA LivePage ==
  ASSUME Pages, NEW p \in Maybe(Jobs), Live(p)
  PROVE  p \in Jobs /\ page[p] \in Page /\ page[p].st \in {"staged", "enriched", "failed"}
BY DEF Live, Maybe, Pages

LEMMA RestoredPage ==
  ASSUME Pages, NEW p \in Jobs
  PROVE  /\ Restored(p) \in Page /\ Restored(p).user = page[p].user
         /\ Restored(p).st = None => ~Restored(p).user
         /\ Restored(p).st \in {"staged", "enriched", "failed"} => Live(p)
<1>1. page[p] \in Page /\ p # None /\ (page[p].st = None => ~page[p].user)
  BY DEF Pages, None
<1>2. CASE page[p].st = "staged"
  <2>1. Restored(p) = [page[p] EXCEPT !.st = "enriched"]
    BY <1>2 DEF Restored
  <2>2. Restored(p) \in Page /\ Restored(p).user = page[p].user /\ Restored(p).st = "enriched"
    BY <1>1, <2>1 DEF Page, PageShape
  <2> QED BY <1>1, <1>2, <2>2 DEF Live, None
<1>3. CASE page[p].st # "staged"
  BY <1>1, <1>3 DEF Restored, Live
<1> QED BY <1>2, <1>3

LEMMA AdvancedPage ==
  ASSUME Pages, NEW p \in Maybe(Jobs), Live(p), NEW j \in Jobs, page' = Advanced(p, j)
  PROVE  PageChange
<1> DEFINE rec == [page[p] EXCEPT !.st = "staged", !.seen = FALSE, !.src = j]
<1>1. p \in Jobs /\ page[p] \in Page /\ page \in [Jobs -> Page]
  BY LivePage DEF Pages
<1>2. rec \in Page /\ rec.user = page[p].user /\ rec.st = "staged"
  BY <1>1 DEF Page, PageShape, Maybe
<1>3. page' = [page EXCEPT ![p] = rec]
  BY <1>1 DEF Advanced
<1> HIDE DEF rec
<1> QED BY <1>1, <1>2, <1>3 DEF PageChange, Becomes, None

LEMMA MarkFailedPage ==
  ASSUME LaneInv, drain.pc # "off", MarkFailed(Entry.page)
  PROVE  PageChange
<1> DEFINE p == Entry.page
           rec == [page[p] EXCEPT !.st = "failed"]
<1>1. p \in Maybe(Jobs) /\ Pages
  BY HasEntry DEF LaneInv
<1>2. CASE ~Live(p)
  BY <1>2 DEF MarkFailed, PageChange
<1>3. CASE Live(p)
  <2>1. p \in Jobs /\ page[p] \in Page
    BY <1>1, <1>3, LivePage
  <2>2. page' = [page EXCEPT ![p] = Restored(p)] \/ page' = [page EXCEPT ![p] = rec]
    BY <1>3, <2>1 DEF MarkFailed, Pages
  <2>3. rec \in Page /\ rec.user = page[p].user /\ rec.st = "failed"
    BY <2>1 DEF Page, PageShape
  <2> HIDE DEF p, rec
  <2>4. page' = [page EXCEPT ![p] = rec] => Becomes(p, rec)
    BY <1>3, <2>1, <2>3 DEF Becomes, None
  <2>5. page' = [page EXCEPT ![p] = Restored(p)] => Becomes(p, Restored(p)) /\ Restored(p) \in Page
    BY <1>1, <1>3, <2>1, RestoredPage DEF Becomes
  <2> QED BY <2>1, <2>2, <2>3, <2>4, <2>5 DEF PageChange
<1> QED BY <1>2, <1>3

LEMMA StagesCreateChanges ==
  ASSUME LaneInv, NEW r \in Requests, StagesCreate(r)
  PROVE  PageChange
<1> DEFINE j == ReqJob[r]
           p == req[r].own.page
           rec == [NoPage EXCEPT !.st = "staged", !.src = j]
<1>1. j \in Jobs /\ p \in Jobs
  BY RowRead DEF LaneInv, StagesCreate, Own, Maybe
<1>2. \/ page' = page
      \/ page[p].st = None /\ OthersPage(p) = {} /\ page' = [page EXCEPT ![p] = rec]
      \/ \E q \in OthersPage(p) : page' = Advanced(q, j)
  BY DEF StagesCreate
<1>3. rec \in Page /\ rec.st = "staged"
  BY <1>1, EmptyRecords DEF Page, PageShape, Maybe
<1> HIDE DEF rec, p, j
<1>4. CASE page[p].st = None /\ OthersPage(p) = {} /\ page' = [page EXCEPT ![p] = rec]
  <2>1. ~page[p].user
    BY <1>1, <1>4 DEF LaneInv, Pages
  <2> QED BY <1>1, <1>3, <1>4, <2>1 DEF PageChange, Becomes, None
<1>5. CASE \E q \in OthersPage(p) : page' = Advanced(q, j)
  <2>1. PICK q \in OthersPage(p) : page' = Advanced(q, j)
    BY <1>5
  <2>2. q \in Maybe(Jobs) /\ Live(q)
    BY <2>1 DEF OthersPage, Maybe
  <2> QED BY <1>1, <2>1, <2>2, AdvancedPage DEF LaneInv
<1> QED BY <1>2, <1>4, <1>5 DEF PageChange

LEMMA StagesAdvanceChanges ==
  ASSUME LaneInv, NEW r \in Requests, StagesAdvance(r)
  PROVE  PageChange
<1>1. req[r].own.page \in Maybe(Jobs) /\ ReqJob[r] \in Jobs
  BY RowRead DEF LaneInv, Own
<1>2. page' = page \/ (Live(req[r].own.page) /\ page' = Advanced(req[r].own.page, ReqJob[r]))
  BY DEF StagesAdvance
<1> QED BY <1>1, <1>2, AdvancedPage DEF LaneInv, PageChange

LEMMA ObservesChanges ==
  ASSUME LaneInv, Observes
  PROVE  PageChange
<1> DEFINE p == Entry.page
           rec == [page[p] EXCEPT !.seen = TRUE, !.since = FALSE]
<1>1. page' = page \/ (Live(p) /\ page' = [page EXCEPT ![p].seen = TRUE, ![p].since = FALSE])
  BY DEF Observes
<1>2. CASE Live(p) /\ page' = [page EXCEPT ![p].seen = TRUE, ![p].since = FALSE]
  <2>1. drain.pc # "off"
    BY DEF Observes
  <2>2. p \in Jobs /\ page[p] \in Page /\ page \in [Jobs -> Page]
    BY <1>2, <2>1, HasEntry, LivePage DEF LaneInv, Pages
  <2>3. rec \in Page /\ rec.user = page[p].user /\ rec.st = page[p].st
    BY <2>2 DEF Page, PageShape
  <2>4. page' = [page EXCEPT ![p] = rec]
    BY <1>2, <2>2
  <2>5. page[p].st # None
    BY <1>2 DEF Live, None
  <2> HIDE DEF rec, p
  <2> QED BY <1>2, <2>2, <2>3, <2>4, <2>5 DEF PageChange, Becomes
<1> QED BY <1>1, <1>2 DEF PageChange

(* Finished: the section of the batch is appended, or not where the text is  *)
(* the user's.                                                               *)
LEMMA FinalizesAdvanceChanges ==
  ASSUME LaneInv, FinalizesAdvance
  PROVE  PageChange
<1> DEFINE p == Entry.page
           done == [page[p] EXCEPT !.st = "enriched", !.seen = FALSE]
           more == [done EXCEPT !.body = @ \cup {Job}]
<1>1. drain.pc # "off" /\ Live(p) /\ (page' = [page EXCEPT ![p] = done] \/ page' = [page EXCEPT ![p] = more])
  BY DEF FinalizesAdvance, HasPlan, SetPage
<1>2. p \in Jobs /\ page[p] \in Page /\ Job \in Jobs
  BY <1>1, HasEntry, LivePage DEF LaneInv
<1>3. done \in Page /\ done.user = page[p].user /\ done.st = "enriched"
  BY <1>2 DEF Page, PageShape
<1> HIDE DEF done
<1>4. more \in Page /\ more.user = done.user /\ more.st = done.st
  BY <1>2, <1>3 DEF Page, PageShape
<1> HIDE DEF p, more
<1>5. \E rec \in Page : page' = [page EXCEPT ![p] = rec] /\ rec.user = page[p].user /\ rec.st = "enriched"
  BY <1>1, <1>3, <1>4
<1> QED BY <1>1, <1>2, <1>5 DEF PageChange, Becomes, None

LEMMA RenderedPage ==
  ASSUME Pages, NEW p \in Jobs, Job \in Jobs, page[p].seen \/ ~page[p].user
  PROVE  Rendered(p) \in Page /\ Rendered(p).st = "enriched" /\ ~Rendered(p).user
<1>1. page[p] \in Page
  BY DEF Pages
<1> QED BY <1>1 DEF Rendered, Page, PageShape

LEMMA FinalizesFollowedChanges ==
  ASSUME LaneInv, FinalizesFollowed
  PROVE  PageChange
<1> DEFINE p == Entry.page
           kept == [page[p] EXCEPT !.st = "enriched", !.seen = FALSE]
<1>1. drain.pc # "off" /\ Live(p) /\ page' = [page EXCEPT ![p] = IF page[p].user THEN kept ELSE Rendered(p)]
  BY DEF FinalizesFollowed, HasPlan, SetPage, FollowerRenders
<1>2. p \in Jobs /\ page[p] \in Page /\ Job \in Jobs /\ Pages
  BY <1>1, HasEntry, LivePage DEF LaneInv
<1>3. kept \in Page /\ kept.user = page[p].user /\ kept.st = "enriched"
  BY <1>2 DEF Page, PageShape
<1>4. ~page[p].user => Rendered(p) \in Page /\ Rendered(p).st = "enriched" /\ ~Rendered(p).user
  BY <1>2, RenderedPage
<1> HIDE DEF p, kept
<1>5. CASE page[p].user
  BY <1>1, <1>2, <1>3, <1>5 DEF PageChange, Becomes, None
<1>6. CASE ~page[p].user
  BY <1>1, <1>2, <1>4, <1>6 DEF PageChange, Becomes, None
<1> QED BY <1>5, <1>6

LEMMA FinalizesCreatedChanges ==
  ASSUME LaneInv, FinalizesCreated
  PROVE  PageChange
<1> DEFINE p == Entry.page
<1>1. /\ drain.pc # "off" /\ Lane[Job] = "mcp"
      /\ page' = page \/ (StillObserved(p) /\ page' = [page EXCEPT ![p] = Rendered(p)])
  BY DEF FinalizesCreated, HasPlan, SetPage
<1>2. CASE StillObserved(p) /\ page' = [page EXCEPT ![p] = Rendered(p)]
  <2>1. p \in Jobs /\ Job \in Jobs /\ Pages /\ drain # Off /\ Live(p) /\ page[p].seen
    BY <1>1, <1>2, HasEntry, LivePage DEF LaneInv, StillObserved
  <2>2. Rendered(p) \in Page /\ Rendered(p).st = "enriched" /\ ~Rendered(p).user
    BY <2>1, RenderedPage
  <2>3. Overwrites
    BY <1>1, <2>1 DEF Overwrites
  <2> HIDE DEF p
  <2> QED BY <1>2, <2>1, <2>2, <2>3 DEF PageChange, Becomes
<1> QED BY <1>1, <1>2 DEF PageChange

LEMMA AddsNothingChanges ==
  ASSUME LaneInv, AddsNothing
  PROVE  PageChange
<1> DEFINE p == Entry.page
           rec == [page[p] EXCEPT !.st = "deleted"]
<1>1. /\ drain.pc # "off"
      /\ \/ page' = page
         \/ p # None /\ page' = [page EXCEPT ![p] = Restored(p)]
         \/ p # None /\ page' = [page EXCEPT ![p] = rec]
  BY DEF AddsNothing, SetPage
<1>2. CASE p # None
  <2>1. p \in Jobs /\ Pages
    BY <1>1, <1>2, HasEntry DEF LaneInv, Maybe
  <2>2. page[p] \in Page
    BY <2>1 DEF Pages
  <2>3. rec \in Page /\ rec.st = "deleted"
    BY <2>2 DEF Page, PageShape
  <2> HIDE DEF p, rec
  <2>4. page' = [page EXCEPT ![p] = rec] => Becomes(p, rec)
    BY <2>3 DEF Becomes, None
  <2>5. page' = [page EXCEPT ![p] = Restored(p)] => Becomes(p, Restored(p)) /\ Restored(p) \in Page
    BY <2>1, RestoredPage DEF Becomes
  <2> QED BY <1>1, <2>1, <2>3, <2>4, <2>5 DEF PageChange
<1> QED BY <1>1, <1>2 DEF PageChange

LEMMA UserChanges ==
  ASSUME LaneInv, NEW p \in Jobs, EditsPage(p) \/ DeletesPage(p)
  PROVE  PageChange
<1> DEFINE mine == [page[p] EXCEPT !.user = TRUE, !.seen = FALSE, !.since = TRUE]
           gone == [page[p] EXCEPT !.st = "deleted"]
<1>1. page[p] \in Page /\ page \in [Jobs -> Page] /\ Live(p)
  BY DEF LaneInv, Pages, EditsPage, DeletesPage
<1>2. page' = [page EXCEPT ![p] = mine] \/ page' = [page EXCEPT ![p] = gone]
  BY <1>1 DEF EditsPage, DeletesPage
<1>3. mine \in Page /\ mine.user /\ mine.st = page[p].st
  BY <1>1 DEF Page, PageShape
<1>4. gone \in Page /\ gone.st = "deleted"
  BY <1>1 DEF Page, PageShape
<1>5. page[p].st # None
  BY <1>1 DEF Live, None
<1> HIDE DEF mine, gone
<1> QED BY <1>1, <1>2, <1>3, <1>4, <1>5 DEF PageChange, Becomes, None

(* Every step of the lane changes the pages in this way. *)
LEMMA StepChanges ==
  ASSUME LaneInv, [NextLane]_vars
  PROVE  PageChange
<1>1. CASE \E r \in Requests : Call(r) \/ CallBreaks(r) \/ CallsAgain(r)
  <2>1. PICK r \in Requests : Call(r) \/ CallBreaks(r) \/ CallsAgain(r)
    BY <1>1
  <2>2. CASE StagesCreate(r) \/ StagesAdvance(r)
    BY <2>2, StagesCreateChanges, StagesAdvanceChanges
  <2>3. CASE ~(StagesCreate(r) \/ StagesAdvance(r))
    <3>1. page' = page
      BY <2>1, <2>3 DEF Call, Looks, Reopens, Resolves, Claims, StagesNoPage, StagesNothing, HandsOff,
         CallBreaks, CallsAgain
    <3> QED BY <3>1 DEF PageChange
  <2> QED BY <2>2, <2>3
<1>2. CASE Drains \/ Breaks \/ Dies
  <2>1. CASE Observes
    BY <2>1, ObservesChanges
  <2>2. CASE FinalizesAdvance
    BY <2>2, FinalizesAdvanceChanges
  <2>3. CASE FinalizesFollowed
    BY <2>3, FinalizesFollowedChanges
  <2>4. CASE FinalizesCreated
    BY <2>4, FinalizesCreatedChanges
  <2>5. CASE AddsNothing
    BY <2>5, AddsNothingChanges
  <2>6. CASE Marks \/ Repairs
    <3>1. drain.pc # "off" /\ MarkFailed(Entry.page)
      BY <2>6 DEF Marks, Repairs
    <3> QED BY <3>1, MarkFailedPage
  <2>7. CASE \/ Picks \/ ClaimsRun \/ (\E out \in Outcomes : Infers(out)) \/ Follows
             \/ Refused \/ Misses \/ WithoutPage \/ Settles \/ Fails \/ Confirms
             \/ Announces \/ Finishes \/ Breaks \/ Dies
    <3>1. page' = page
      BY <2>7 DEF Picks, ClaimsRun, Infers, Follows, Refused, Misses, WithoutPage, Settles, Fails,
         Confirms, Announces, Finishes, Breaks, Dies
    <3> QED BY <3>1 DEF PageChange
  <2> QED BY <1>2, <2>1, <2>2, <2>3, <2>4, <2>5, <2>6, <2>7 DEF Drains
<1>3. CASE \E j \in Jobs : Wakes(j) \/ Sweeps(j) \/ EditsPage(j) \/ DeletesPage(j)
  <2>1. PICK j \in Jobs : Wakes(j) \/ Sweeps(j) \/ EditsPage(j) \/ DeletesPage(j)
    BY <1>3
  <2>2. CASE EditsPage(j) \/ DeletesPage(j)
    BY <2>2, UserChanges
  <2>3. CASE Wakes(j) \/ Sweeps(j)
    BY <2>3 DEF Wakes, Sweeps, PageChange
  <2> QED BY <2>1, <2>2, <2>3
<1>4. CASE UNCHANGED vars
  BY <1>4 DEF vars, PageChange
<1> QED BY <1>1, <1>2, <1>3, <1>4 DEF NextLane

----------------------------------------------------------------------------
(* The runs *)

(* A run is called only when no attempt of the entry has opened it.          *)
LEMMA StepCalls ==
  ASSUME LaneInv, [NextLane]_vars
  PROVE  \A j \in Jobs, i \in RunIds :
           run[j][i] # None /\ run'[j][i] = "running" => run[j][i] = "running"
<1> SUFFICES ASSUME run' # run
             PROVE  \A j \in Jobs, i \in RunIds :
                      run[j][i] # None /\ run'[j][i] = "running" => run[j][i] = "running"
  OBVIOUS
<1>1. run \in [Jobs -> [RunIds -> RunState]]
  BY DEF LaneInv, Runs
<1>2. \/ ClaimsRun
      \/ \E out \in Outcomes : Infers(out)
      \/ \E j \in Jobs : Wakes(j)
  <2>1. ~UNCHANGED vars
    BY DEF vars
  <2>2. \A r \in Requests : ~(Call(r) \/ CallBreaks(r) \/ CallsAgain(r))
    BY ZenonT(60) DEF Call, Looks, Reopens, Resolves, Claims, StagesNoPage, StagesNothing, StagesAdvance,
       StagesCreate, HandsOff, CallBreaks, CallsAgain
  <2>3. ~(Breaks \/ Dies) /\ \A j \in Jobs : ~(Sweeps(j) \/ EditsPage(j) \/ DeletesPage(j))
    BY DEF Breaks, Dies, Sweeps, EditsPage, DeletesPage
  <2>4. Drains => ClaimsRun \/ \E out \in Outcomes : Infers(out)
    BY DEF Drains, Picks, Observes, Follows, Refused, Misses, WithoutPage, FinalizesAdvance,
       FinalizesFollowed, FinalizesCreated, AddsNothing, Settles, Fails, Marks, Repairs, Confirms,
       Announces, Finishes
  <2> QED BY <2>1, <2>2, <2>3, <2>4 DEF NextLane
<1>3. CASE ClaimsRun \/ \E out \in Outcomes : Infers(out)
  <2>1. drain.pc # "off"
    BY <1>3 DEF ClaimsRun, Infers
  <2>2. Job \in Jobs /\ RunId \in RunIds
    BY <2>1, HasEntry
  <2>3. \E st \in RunState : SetsRun(st) /\ (st = "running" => run[Job][RunId] = None)
    BY <1>3 DEF ClaimsRun, Infers, RunState, Ending
  <2>4. PICK st \in RunState : SetsRun(st) /\ (st = "running" => run[Job][RunId] = None)
    BY <2>3
  <2> DEFINE f == [run[Job] EXCEPT ![RunId] = st]
  <2>5. f[RunId] = st /\ \A i \in RunIds \ {RunId} : f[i] = run[Job][i]
    BY <1>1, <2>2
  <2>6. run' = [run EXCEPT ![Job] = f]
    BY <1>1, <2>4 DEF SetsRun
  <2> HIDE DEF f
  <2>7. run'[Job] = f /\ \A j \in Jobs \ {Job} : run'[j] = run[j]
    BY <1>1, <2>2, <2>6
  <2> QED BY <2>2, <2>4, <2>5, <2>7
<1>4. CASE \E j \in Jobs : Wakes(j)
  <2>1. PICK j \in Jobs : Wakes(j)
    BY <1>4
  <2> DEFINE i == <<entry[j].gen, entry[j].attempts, entry[j].cap>>
             f == [run[j] EXCEPT ![i] = "aged"]
  <2>2. run' = [run EXCEPT ![j] = f]
    BY <1>1, <2>1 DEF Wakes
  <2>3. \A k \in RunIds : f[k] = run[j][k] \/ f[k] = "aged"
    BY <1>1
  <2> HIDE DEF f
  <2>4. run'[j] = f /\ \A k \in Jobs \ {j} : run'[k] = run[k]
    BY <1>1, <2>2
  <2> QED BY <2>3, <2>4
<1> QED BY <1>2, <1>3, <1>4

----------------------------------------------------------------------------
(* The theorems *)

LEMMA InvStart == InitLane => LaneInv
<1> SUFFICES ASSUME InitLane PROVE LaneInv
  OBVIOUS
<1>1. Rows
  BY EmptyRecords DEF InitLane, Rows
<1>2. Runs
  BY DEF InitLane, Runs, RunState, Verdict
<1>3. Pages
  BY EmptyRecords DEF InitLane, Pages
<1>4. OnePagePerConversation
  <2>1. \A p \in Jobs : ~Live(p)
    BY EmptyRecords DEF InitLane, Live, None
  <2> QED BY <2>1 DEF OnePagePerConversation
<1>5. Books
  <2>1. Records /\ Queued /\ Holds
    BY DEF InitLane, Records, Queued, Holds
  <2>2. AcceptedIsQueued /\ VerdictsAreAnnounced
    BY EmptyRecords DEF InitLane, AcceptedIsQueued, VerdictsAreAnnounced, None
  <2> QED BY <2>1, <2>2 DEF Books
<1> QED BY <1>1, <1>2, <1>3, <1>4, <1>5 DEF LaneInv

LEMMA InvStep == LaneInv /\ [NextLane]_vars => LaneInv'
<1> SUFFICES ASSUME LaneInv, [NextLane]_vars PROVE LaneInv'
  OBVIOUS
<1>1. Pages' /\ OnePagePerConversation'
  BY StepChanges, PageChangeKeeps DEF LaneInv
<1>2. CASE \E r \in Requests : Call(r) \/ CallBreaks(r) \/ CallsAgain(r)
  <2>1. PICK r \in Requests : Call(r) \/ CallBreaks(r) \/ CallsAgain(r)
    BY <1>2
  <2>2. Rows' /\ Runs' /\ Books'
    BY <2>1, LooksKeeps, ReopensKeeps, ResolvesKeeps, ClaimsKeeps, StagesKeeps, HandsOffKeeps,
       CallEndsKeeps DEF Call
  <2> QED BY <1>1, <2>2 DEF LaneInv
<1>3. CASE Drains \/ Breaks \/ Dies
  <2>1. Rows' /\ Runs' /\ Books'
    BY <1>3, PicksKeeps, ObservesKeeps, InfersKeeps, FollowsKeeps, RefusedKeeps, FinalizesKeeps,
       VerdictKeeps, AnnouncesKeeps, FinishesKeeps, BreaksKeeps DEF Drains
  <2> QED BY <1>1, <2>1 DEF LaneInv
<1>4. CASE \E j \in Jobs : Wakes(j) \/ Sweeps(j) \/ EditsPage(j) \/ DeletesPage(j)
  BY <1>1, <1>4, WakesKeeps, SweepsKeeps, UserKeeps DEF LaneInv
<1>5. CASE UNCHANGED vars
  <2>1. UNCHANGED <<row, run, extract, object, announced, req, reopened>>
    BY <1>5 DEF vars, object
  <2>2. Rows' /\ Runs'
    BY <2>1 DEF LaneInv, Rows, Runs
  <2>3. Books'
    BY <2>1, OutsideKeeps DEF LaneInv
  <2> QED BY <1>1, <2>2, <2>3 DEF LaneInv
<1> QED BY <1>2, <1>3, <1>4, <1>5 DEF NextLane

(* What holds of the rows, the pages, the runs, the queue and the drain at   *)
(* any time, however calls, drains, faults, edits and the sweep interleave.  *)
THEOREM LaneInOrder == LaneSpec => []LaneInv
<1> QED BY InvStart, InvStep, PTL DEF LaneSpec

(* A conversation has at most one live page.  Doors that resolve the         *)
(* identity at the same time rely on the unique index (mcp_engine.js).       *)
THEOREM PageIsUnique == LaneSpec => []OnePagePerConversation
<1>1. LaneInv => OnePagePerConversation
  BY DEF LaneInv
<1> QED BY <1>1, LaneInOrder, PTL

(* What the door answered as accepted is in the queue of the object until it *)
(* has its verdict: the marker and the entry are written before the answer.  *)
THEOREM AcceptedStays == LaneSpec => []AcceptedIsQueued
<1>1. LaneInv => AcceptedIsQueued
  BY DEF LaneInv, Books
<1> QED BY <1>1, LaneInOrder, PTL

(* The entry of an MCP save goes after its verdict was announced, whatever   *)
(* statement failed and wherever the isolate died.                           *)
THEOREM VerdictsAreHeard == LaneSpec => []VerdictsAreAnnounced
<1>1. LaneInv => VerdictsAreAnnounced
  BY DEF LaneInv, Books
<1> QED BY <1>1, LaneInOrder, PTL

(* The run's claim is the fence of the model call: a run is called once.     *)
THEOREM RunsAreCalledOnce == LaneSpec => CalledOnce
<1>1. LaneInv /\ [NextLane]_vars =>
        [\A j \in Jobs, i \in RunIds : run[j][i] # None /\ run'[j][i] = "running"
           => run[j][i] = "running"]_vars
  BY StepCalls
<1> QED BY <1>1, LaneInOrder, PTL DEF LaneSpec, CalledOnce

(* The follower's writes are fenced on the wording being the system's own,   *)
(* and an MCP save's on the revision that its attempt observed: an edit that *)
(* landed since wins, whatever deaths, retries and advances come in between. *)
THEOREM UserTextIsKept == LaneSpec => UserTextStands
<1>1. LaneInv /\ [NextLane]_vars =>
        [\A p \in Jobs :
           /\ page[p].user /\ (page[p].since \/ (drain # Off => Lane[drain.job] = "follow"))
           /\ page'[p].st # "deleted"
           => page'[p].user]_vars
  BY StepChanges, PageChangeKeeps DEF LaneInv, Overwrites, Job
<1> QED BY <1>1, LaneInOrder, PTL DEF LaneSpec, UserTextStands

=============================================================================
