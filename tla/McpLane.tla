------------------------------ MODULE McpLane ------------------------------
(***************************************************************************)
(* The receipt-first lane (pipeline/mcp_engine.js) and the Conversation    *)
(* Pages it builds.  A door stages a batch of one conversation: it claims  *)
(* a job row, creates the conversation's page or advances it, and hands an *)
(* entry to the user's object.  The object works its queue: for an MCP     *)
(* save the extraction runs here, for a REST save a follower waits for the *)
(* verdict of the ingest lane; then the page is finalized, the row settled *)
(* and the verdict announced.  A replay of a failed MCP save reopens it.   *)
(*                                                                         *)
(* Abstracted: a page's text is the set of batches it renders and whether  *)
(* it is the user's wording; a compare-and-set that is read and tried      *)
(* again is one step, and losing it three or four times is left out; rules,*)
(* opt-outs, thin and oversized input, key conflicts and backpressure end  *)
(* a request before it stages anything.  One drain works at a time: what   *)
(* overlapping drains do is in UserMemory.                                 *)
(***************************************************************************)
EXTENDS Naturals, Sequences, FiniteSets, SequencesExt

CONSTANTS
    Jobs,           \* batches of one conversation, each with a save key of its own
    Lane,           \* [Jobs -> {"mcp", "follow"}]
    Requests,       \* calls of the doors
    ReqJob,         \* the batch a call brings
    Outcomes,       \* what an extraction may end in
    MaxAttempts,    \* MAX_ATTEMPTS, 3 in the code
    MaxCapacity,    \* MAX_CAPACITY_ATTEMPTS
    MaxRepairs,     \* MAX_FAILED_REPLAY_REPAIRS, 5 in the code
    MaxUpsets       \* bound: calls repeated, edits and deletions by the user,
                    \* statements that fail, isolates that die

ASSUME McpConstants ==
    /\ Lane \in [Jobs -> {"mcp", "follow"}]
    /\ ReqJob \in [Requests -> Jobs]
    /\ {MaxAttempts, MaxCapacity} \subseteq Nat \ {0}
    /\ {MaxRepairs, MaxUpsets} \subseteq Nat
    /\ Outcomes \subseteq {"wrote", "empty", "llm_failed", "capacity", "terminal"}
    /\ "none" \notin Jobs

VARIABLES
    row,        \* D1: memory_jobs, status and what the payload remembers
    page,       \* D1: memory_pages, by the batch that proposed the page
    suppressed, \* D1: the user wants no page for this conversation
    run,        \* D1: extraction_runs of the MCP saves
    extract,    \* D1: the ingest lane's verdict on the batch of a follower
    announced,  \* D1: events inserted into the webhook outbox
    entry,      \* object: the queue entry of a job
    queue,      \* object: jobs with an entry, in the order of their keys
    drain,      \* the entry being worked on
    req,        \* the calls
    reopened,   \* jobs that a replay reopened
    upsets      \* what the bound counts

vars == <<row, page, suppressed, run, extract, announced, entry, queue, drain,
          req, reopened, upsets>>
tables == <<suppressed, extract>>
object == <<entry, queue, drain>>
bounds == <<reopened, upsets>>

None == "none"
Payload(gen, p, adv, pageless) ==
    [gen |-> gen, page |-> p, adv |-> adv, pageless |-> pageless, key |-> TRUE]
NoRow == [st |-> None, own |-> Payload(0, None, FALSE, FALSE)]
NoPage == [st |-> None, seen |-> FALSE, src |-> None, body |-> {},
           user |-> FALSE, since |-> FALSE]
NoEntry == [phase |-> None]
Off == [pc |-> "off"]
NewCall == [pc |-> "new", claimed |-> FALSE, own |-> NoRow.own, answer |-> None]

TerminalJob == {"enriched", "failed"}
RunIds == (0..MaxRepairs) \X (0..MaxAttempts - 1) \X (0..MaxCapacity)
Live(p) == p # None /\ page[p].st \in {"staged", "enriched", "failed"}

InitLane ==
    /\ row = [j \in Jobs |-> NoRow]
    /\ page = [j \in Jobs |-> NoPage]
    /\ suppressed = FALSE
    /\ run = [j \in Jobs |-> [i \in RunIds |-> None]]
    /\ extract = [j \in Jobs |-> "open"]
    /\ announced = {}
    /\ entry = [j \in Jobs |-> NoEntry]
    /\ queue = <<>>
    /\ drain = Off
    /\ req = [r \in Requests |-> NewCall]
    /\ reopened = {} /\ upsets = 0

Upset == upsets < MaxUpsets /\ upsets' = upsets + 1

----------------------------------------------------------------------------
(* The doors: stageMcpConversation and stageRestConversationPage *)

CallAt(r, pc, own) == req' = [req EXCEPT ![r].pc = pc, ![r].own = own]
Replies(r, answer) == req' = [req EXCEPT ![r] = [NewCall EXCEPT !.pc = "done", !.answer = answer]]

\* findExistingJob.  Only the MCP door takes up a job that it finds.
Looks(r) ==
    LET j == ReqJob[r]
        own == row[j].own
    IN  /\ req[r].pc = "new"
        /\ \/ row[j].st = None /\ CallAt(r, "resolve", own)
           \/ /\ row[j].st # None /\ Lane[j] = "follow"
              /\ Replies(r, "duplicate")
           \/ /\ row[j].st # None /\ Lane[j] = "mcp"
              /\ \/ row[j].st = "staged" /\ CallAt(r, "stage", own)
                 \/ row[j].st = "enriched" /\ Replies(r, "duplicate")
                 \/ row[j].st = "failed" /\ own.gen >= MaxRepairs /\ Replies(r, "refused")
                 \/ row[j].st = "failed" /\ own.gen < MaxRepairs /\ CallAt(r, "reopen", own)
        /\ UNCHANGED <<row, page, tables, run, announced, object, bounds>>

\* UPDATE ... WHERE status = 'failed' with the payload that was read.  The call
\* goes on under the next generation whether or not it was the one to reopen.
Reopens(r) ==
    LET j == ReqJob[r]
        next == [req[r].own EXCEPT !.gen = @ + 1]
    IN  /\ req[r].pc = "reopen"
        /\ IF row[j].st = "failed"
           THEN /\ reopened' = reopened \cup {j}
                /\ row' = [row EXCEPT ![j] = [st |-> "staged", own |-> next]]
           ELSE UNCHANGED <<row, reopened>>
        /\ CallAt(r, "stage", next)
        /\ UNCHANGED <<page, tables, run, announced, object, upsets>>

\* resolveConversationPageIdentity: advance the live page of the conversation,
\* create one, or keep no page.
Resolves(r) ==
    LET owners == {p \in Jobs : Live(p)}
    IN  /\ req[r].pc = "resolve"
        /\ \/ suppressed /\ CallAt(r, "claim", Payload(0, None, FALSE, TRUE))
           \/ /\ ~suppressed /\ owners = {}
              /\ CallAt(r, "claim", Payload(0, ReqJob[r], FALSE, FALSE))
           \/ /\ ~suppressed
              /\ \E p \in owners : CallAt(r, "claim", Payload(0, p, TRUE, FALSE))
        /\ UNCHANGED <<row, page, tables, run, announced, object, bounds>>

\* claimMemoryJob: one insert wins; a call that lost joins an active job.
Claims(r) ==
    LET j == ReqJob[r]
    IN  /\ req[r].pc = "claim"
        /\ \/ /\ row[j].st = None
              /\ row' = [row EXCEPT ![j] = [st |-> "staged", own |-> req[r].own]]
              /\ req' = [req EXCEPT ![r].pc = "stage", ![r].claimed = TRUE]
           \/ /\ row[j].st # None /\ UNCHANGED row
              /\ IF row[j].st \in TerminalJob \/ Lane[j] = "follow"
                 THEN Replies(r, "duplicate")
                 ELSE CallAt(r, "stage", row[j].own)
        /\ UNCHANGED <<page, tables, run, announced, object, bounds>>

----------------------------------------------------------------------------
(* Staging the page *)

Remembers(r, own) ==
    /\ row' = [row EXCEPT ![ReqJob[r]].own = own]
    /\ CallAt(r, "handoff", own)

\* stageConversationAdvance: state, packet pointers, revision.
Advanced(p, j) == [page EXCEPT ![p].st = "staged", ![p].seen = FALSE, ![p].src = j]

\* A follower that ends up without a page is settled by the door.
GoesPageless(r) ==
    LET j == ReqJob[r]
        own == [req[r].own EXCEPT !.page = None, !.adv = FALSE, !.pageless = TRUE]
    IN  IF Lane[j] = "mcp" THEN Remembers(r, own)
        ELSE row' = [row EXCEPT ![j] = [st |-> "enriched", own |-> own]] /\ Replies(r, "skipped")

StagesNoPage(r) ==
    /\ req[r].pc = "stage" /\ req[r].own.pageless
    /\ CallAt(r, "handoff", req[r].own)
    /\ UNCHANGED <<row, page, tables, run, announced, object, bounds>>

StagesAdvance(r) ==
    LET own == req[r].own
    IN  /\ req[r].pc = "stage" /\ own.adv
        /\ IF Live(own.page)
           THEN /\ page' = Advanced(own.page, ReqJob[r])
                /\ CallAt(r, "handoff", own)
                /\ UNCHANGED row
           ELSE GoesPageless(r) /\ UNCHANGED page
        /\ UNCHANGED <<tables, run, announced, object, bounds>>

\* insertProvisionalPage: ON CONFLICT(id) DO NOTHING, and the unique index of the
\* conversation's live page.  Who loses the index advances the winner.
(* Mutant: no unique index on the conversation's live page. *)
OthersPageUnseen(p) == {}
OthersPage(p) == {q \in Jobs \ {p} : Live(q)}
StagesCreate(r) ==
    LET j == ReqJob[r]
        own == req[r].own
        p == own.page
    IN  /\ req[r].pc = "stage" /\ ~own.adv /\ ~own.pageless /\ p # None
        /\ \/ /\ page[p].st = None /\ OthersPage(p) = {}
              /\ page' = [page EXCEPT ![p] = [NoPage EXCEPT !.st = "staged", !.src = j]]
              /\ CallAt(r, "handoff", own) /\ UNCHANGED row
           \/ /\ page[p].st = None
              /\ \E q \in OthersPage(p) :
                   /\ page' = Advanced(q, j)
                   /\ Remembers(r, [own EXCEPT !.page = q, !.adv = TRUE])
           \/ /\ page[p].st # None /\ (own.key \/ page[p].src = j)
              /\ CallAt(r, "handoff", own) /\ UNCHANGED <<row, page>>
           \/ /\ page[p].st # None /\ ~(own.key \/ page[p].src = j)
              /\ Replies(r, "error") /\ UNCHANGED <<row, page>>
        /\ UNCHANGED <<tables, run, announced, object, bounds>>

\* A payload that names no page and does not say that there is none.
StagesNothing(r) ==
    /\ req[r].pc = "stage"
    /\ ~req[r].own.pageless /\ ~req[r].own.adv /\ req[r].own.page = None
    /\ Replies(r, "error")
    /\ UNCHANGED <<row, page, tables, run, announced, object, bounds>>

\* enqueueMcpJobOnce: entry and marker in one local transaction; a job that still
\* has its entry gets no other one.
NewEntry(own) ==
    [phase |-> "work", gen |-> own.gen, page |-> own.page, adv |-> own.adv,
     attempts |-> 0, cap |-> 0, late |-> FALSE]
HandsOff(r) ==
    LET j == ReqJob[r]
    IN  /\ req[r].pc = "handoff"
        /\ IF entry[j] = NoEntry
           THEN /\ entry' = [entry EXCEPT ![j] = NewEntry(req[r].own)]
                /\ queue' = Append(queue, j)
           ELSE UNCHANGED <<entry, queue>>
        /\ Replies(r, IF req[r].claimed THEN "accepted" ELSE "joined")
        /\ UNCHANGED <<row, page, tables, run, announced, drain, bounds>>

CallBreaks(r) ==
    /\ req[r].pc \notin {"new", "done"}
    /\ Upset
    /\ Replies(r, "error")
    /\ UNCHANGED <<row, page, tables, run, announced, object, reopened>>

\* The client calls again with the same batch: it missed the answer, or means to
\* repair a save that failed.
CallsAgain(r) ==
    /\ req[r].pc = "done"
    /\ Upset
    /\ req' = [req EXCEPT ![r] = NewCall]
    /\ UNCHANGED <<row, page, tables, run, announced, object, reopened>>

----------------------------------------------------------------------------
(* The object: #processMcpEntry, one entry at a time *)

Job == drain.job
Entry == entry[drain.job]
Goes(pc) == drain' = [drain EXCEPT !.pc = pc]
Puts(e) == entry' = [entry EXCEPT ![Job] = e]
Leaves == drain' = Off
elsewhere == <<suppressed, extract, req>>

\* The entry sleeps, its phase or its counters changed.
Sleeps(e) == Puts([e EXCEPT !.late = TRUE]) /\ Leaves
WaitsForVerdict == Sleeps([Entry EXCEPT !.phase = "terminal_pending"])

(* Mutant: a job with a verdict needs nothing more. *)
TodoNoMore(j, phase) ==
    IF row[j].st = "failed" /\ phase # "announcement_pending" THEN "repair"
    ELSE IF row[j].st \in TerminalJob THEN "finish"
    ELSE IF phase = "terminal_pending" THEN "fail"
    ELSE IF Lane[j] = "follow" THEN "follow"
    ELSE IF entry[j].page # None /\ ~entry[j].adv THEN "observe" ELSE "claim"
\* The job's verdict decides what is left to do.  One that stands is announced,
\* a failure first written out once more, unless the announcement was all there was.
Todo(j, phase) ==
    IF row[j].st = "failed" /\ phase # "announcement_pending" THEN "repair"
    ELSE IF row[j].st \in TerminalJob THEN "announce"
    ELSE IF phase = "terminal_pending" THEN "fail"
    ELSE IF Lane[j] = "follow" THEN "follow"
    ELSE IF entry[j].page # None /\ ~entry[j].adv THEN "observe" ELSE "claim"

\* The first entry in key order that is not asleep.
Picks ==
    /\ drain = Off
    /\ \E n \in DOMAIN queue :
         LET j == queue[n]
         IN  /\ ~entry[j].late
             /\ \A k \in 1..n - 1 : entry[queue[k]].late
             /\ drain' = [pc |-> Todo(j, entry[j].phase), job |-> j, out |-> None]
    /\ UNCHANGED <<row, page, run, announced, entry, queue, elsewhere, bounds>>

\* An attempt that did not end in a plan: once more, or the end of it, for which
\* the verdict is read again.
(* Mutant: one attempt too many. *)
LastAttemptLate == Entry.attempts >= MaxAttempts
LastAttempt == Entry.attempts + 1 >= MaxAttempts
GivesUp ==
    /\ Puts([Entry EXCEPT !.phase = "terminal_pending"])
    /\ Goes(Todo(Job, "terminal_pending"))
TriesAgain == IF LastAttempt THEN GivesUp ELSE Sleeps([Entry EXCEPT !.attempts = @ + 1])

\* The revision the final write of a created page is fenced on.
Observes ==
    /\ drain.pc = "observe"
    /\ IF Live(Entry.page)
       THEN /\ page' = [page EXCEPT ![Entry.page].seen = TRUE, ![Entry.page].since = FALSE]
            /\ Goes("claim") /\ UNCHANGED entry
       ELSE TriesAgain /\ UNCHANGED page
    /\ UNCHANGED <<row, run, announced, queue, elsewhere, bounds>>

\* mcpExtractionRunId: job, generation, attempt, capacity attempt.
RunId == <<Entry.gen, Entry.attempts, Entry.cap>>
SetsRun(st) == run' = [run EXCEPT ![Job][RunId] = st]
Ends(out) == drain' = [drain EXCEPT !.pc = "ended", !.out = out]

(* Mutant: a claim past its time to live is taken over and the model called again. *)
ClaimsRunAgain ==
    LET st == run[Job][RunId]
    IN  /\ drain.pc = "claim"
        /\ \/ st \in {None, "aged"} /\ SetsRun("running") /\ Goes("model") /\ UNCHANGED entry
           \/ st = "running" /\ Sleeps(Entry) /\ UNCHANGED run
           \/ st \notin {None, "running", "aged"} /\ Ends(st) /\ UNCHANGED <<run, entry>>
        /\ UNCHANGED <<row, page, announced, queue, elsewhere, bounds>>

\* claimExtractionRun: a run that exists answers with what it ended in; one past
\* its time to live was interrupted and is not called again.
ClaimsRun ==
    LET st == run[Job][RunId]
    IN  /\ drain.pc = "claim"
        /\ \/ st = None /\ SetsRun("running") /\ Goes("model") /\ UNCHANGED entry
           \/ st = "running" /\ Sleeps(Entry) /\ UNCHANGED run
           \/ st = "aged" /\ SetsRun("terminal") /\ Ends("terminal") /\ UNCHANGED entry
           \/ st \notin {None, "running", "aged"} /\ Ends(st) /\ UNCHANGED <<run, entry>>
        /\ UNCHANGED <<row, page, announced, queue, elsewhere, bounds>>

Infers(out) ==
    /\ drain.pc = "model"
    /\ SetsRun(out) /\ Ends(out)
    /\ UNCHANGED <<row, page, announced, entry, queue, elsewhere, bounds>>

\* followConversationPage: the ingest lane's verdict, or none before the deadline.
\* A poll that finds neither changes nothing: the follower sleeps until one is there.
Follows ==
    /\ drain.pc = "follow"
    /\ \/ extract[Job] = "open" /\ Sleeps(Entry)
       \/ extract[Job] = "late" /\ Goes("fail") /\ UNCHANGED entry
       \/ /\ extract[Job] \notin {"open", "late"} /\ UNCHANGED entry
          /\ Ends(IF extract[Job] = "failed" /\ ~Entry.adv THEN "terminal" ELSE extract[Job])
    /\ UNCHANGED <<row, page, run, announced, queue, elsewhere, bounds>>

(* Mutant: waiting for capacity is not counted. *)
RefusedForever ==
    /\ drain.pc = "ended" /\ drain.out = "capacity"
    /\ Sleeps(Entry)
    /\ UNCHANGED <<row, page, run, announced, queue, elsewhere, bounds>>
\* Workers AI is out of capacity: a ladder of its own.
Refused ==
    /\ drain.pc = "ended" /\ drain.out = "capacity"
    /\ IF Entry.cap + 1 >= MaxCapacity THEN GivesUp ELSE Sleeps([Entry EXCEPT !.cap = @ + 1])
    /\ UNCHANGED <<row, page, run, announced, queue, elsewhere, bounds>>

Misses ==
    /\ drain.pc = "ended"
    /\ \/ drain.out = "llm_failed" /\ ~LastAttempt /\ TriesAgain
       \/ drain.out = "llm_failed" /\ LastAttempt /\ Goes("fail") /\ UNCHANGED entry
       \/ drain.out = "terminal" /\ Goes("fail") /\ UNCHANGED entry
    /\ UNCHANGED <<row, page, run, announced, queue, elsewhere, bounds>>

----------------------------------------------------------------------------
(* The page at the end of an attempt *)

SetPage(p, rec) == page' = [page EXCEPT ![p] = rec]
Restored(p) == IF page[p].st = "staged" THEN [page[p] EXCEPT !.st = "enriched"] ELSE page[p]
HasPlan == drain.pc = "ended" /\ drain.out = "wrote"

WithoutPage ==
    /\ HasPlan /\ (Entry.page = None \/ (~Live(Entry.page) /\ (Entry.adv \/ Lane[Job] = "follow")))
    /\ Goes("settle")
    /\ UNCHANGED <<row, page, run, announced, entry, queue, elsewhere, bounds>>

\* finalizeConversationAdvance: append this batch's section, but leave a text of
\* the user's alone.
FinalizesAdvance ==
    LET p == Entry.page
        done == [page[p] EXCEPT !.st = "enriched", !.seen = FALSE]
    IN  /\ HasPlan /\ Entry.adv /\ Live(p)
        /\ SetPage(p, IF page[p].user THEN done ELSE [done EXCEPT !.body = @ \cup {Job}])
        /\ Goes("settle")
        /\ UNCHANGED <<row, run, announced, entry, queue, elsewhere, bounds>>

\* The body becomes this batch's rendering.
Rendered(p) ==
    [page[p] EXCEPT !.st = "enriched", !.seen = FALSE, !.body = {Job}, !.user = FALSE]

(* Mutant: the follower's render is not fenced against the user's text. *)
FollowerOverwrites(p) == Rendered(p)
FollowerRenders(p) ==
    IF page[p].user THEN [page[p] EXCEPT !.st = "enriched", !.seen = FALSE] ELSE Rendered(p)
\* finalizeConversationCreate: fenced against a text of the user's.
FinalizesFollowed ==
    /\ HasPlan /\ ~Entry.adv /\ Live(Entry.page) /\ Lane[Job] = "follow"
    /\ SetPage(Entry.page, FollowerRenders(Entry.page))
    /\ Goes("settle")
    /\ UNCHANGED <<row, run, announced, entry, queue, elsewhere, bounds>>

(* Mutant: the final write is not fenced on the revision. *)
StillObservedUnfenced(p) == Live(p)
StillObserved(p) == Live(p) /\ page[p].seen
\* The MCP lane's own page: fenced on the revision observed when the attempt
\* began.  An advance staged on top of it is a reason to try again, anything else
\* fails the job.
FinalizesCreated ==
    LET p == Entry.page
        onTop == ~page[p].seen /\ page[p].st = "staged" /\ page[p].src # Job
    IN  /\ HasPlan /\ Lane[Job] = "mcp" /\ p # None /\ ~Entry.adv
        /\ \/ StillObserved(p) /\ SetPage(p, Rendered(p)) /\ Goes("settle") /\ UNCHANGED entry
           \/ onTop /\ TriesAgain /\ UNCHANGED page
           \/ ~StillObserved(p) /\ ~onTop /\ Goes("fail") /\ UNCHANGED <<page, entry>>
        /\ UNCHANGED <<row, run, announced, queue, elsewhere, bounds>>

\* Nothing durable, or a follower's advance whose batch failed: a page that was
\* only staged is removed, one that was advanced keeps what it had.
AddsNothing ==
    LET p == Entry.page
    IN  /\ drain.pc = "ended"
        /\ drain.out = "empty" \/ (drain.out = "failed" /\ Entry.adv)
        /\ \/ p = None /\ UNCHANGED page
           \/ p # None /\ Entry.adv /\ SetPage(p, Restored(p))
           \/ p # None /\ ~Entry.adv /\ SetPage(p, [page[p] EXCEPT !.st = "deleted"])
        /\ Goes("settle")
        /\ UNCHANGED <<row, run, announced, entry, queue, elsewhere, bounds>>

----------------------------------------------------------------------------
(* The verdict *)

\* updateMemoryJob replaces the payload: what it does not name is forgotten.
Forgets(own) == [own EXCEPT !.gen = 0, !.page = Entry.page, !.adv = FALSE,
                            !.pageless = FALSE, !.key = FALSE]
SetsRow(st) == row' = [row EXCEPT ![Job] = [st |-> st, own |-> Forgets(@.own)]]

Settles ==
    /\ drain.pc = "settle"
    /\ SetsRow("enriched") /\ Goes("confirm")
    /\ UNCHANGED <<page, run, announced, entry, queue, elsewhere, bounds>>

\* markMcpEnrichmentFailed: the row first, then the receipt and the page.
Fails ==
    /\ drain.pc = "fail"
    /\ SetsRow("failed") /\ Goes("mark")
    /\ UNCHANGED <<page, run, announced, entry, queue, elsewhere, bounds>>

MarkFailed(p) ==
    page' = IF ~Live(p) THEN page
            ELSE [page EXCEPT ![p] = IF Entry.adv THEN Restored(p) ELSE [@ EXCEPT !.st = "failed"]]
Marks ==
    /\ drain.pc = "mark"
    /\ MarkFailed(Entry.page) /\ Goes("confirm")
    /\ UNCHANGED <<row, run, announced, entry, queue, elsewhere, bounds>>

\* #finishConfirmedMcp writes a failure that it found out once more.
Repairs ==
    /\ drain.pc = "repair"
    /\ SetsRow("failed") /\ MarkFailed(Entry.page) /\ Goes("announce")
    /\ UNCHANGED <<run, announced, entry, queue, elsewhere, bounds>>

Confirms ==
    /\ drain.pc = "confirm"
    /\ IF row[Job].st \in TerminalJob
       THEN Goes("announce") /\ UNCHANGED entry
       ELSE WaitsForVerdict
    /\ UNCHANGED <<row, page, run, announced, queue, elsewhere, bounds>>

\* announceMcpTerminal reads the verdict again; a follower's is not announced.
Pends == Sleeps([Entry EXCEPT !.phase = "announcement_pending"])
Announces ==
    /\ drain.pc = "announce"
    /\ IF row[Job].st \in TerminalJob
       THEN /\ announced' = IF Lane[Job] = "follow" THEN announced
                            ELSE announced \cup {<<Job, row[Job].st>>}
            /\ Goes("finish") /\ UNCHANGED entry
       ELSE Pends /\ UNCHANGED announced
    /\ UNCHANGED <<row, page, run, queue, elsewhere, bounds>>

\* #finishMcpEntry: marker and entry go in one transaction.
Finishes ==
    /\ drain.pc = "finish"
    /\ entry' = [entry EXCEPT ![Job] = NoEntry]
    /\ \E n \in DOMAIN queue : queue[n] = Job /\ queue' = RemoveAt(queue, n)
    /\ Leaves
    /\ UNCHANGED <<row, page, run, announced, elsewhere, bounds>>

\* The verdict of an attempt cannot be written.  An MCP save is failed for it,
\* though its page is finished; a follower tries again.
NotSettled ==
    /\ drain.pc = "settle"
    /\ IF Lane[Job] = "mcp" THEN Goes("fail") /\ UNCHANGED entry ELSE TriesAgain

(* Mutant: bookkeeping that fails counts as done. *)
BreaksQuietly ==
    /\ Upset
    /\ \/ NotSettled
       \/ drain.pc \in {"fail", "mark"} /\ Goes("finish") /\ UNCHANGED entry
       \/ drain.pc \in {"repair", "announce"} /\ Pends
    /\ UNCHANGED <<row, page, run, announced, queue, elsewhere, reopened>>
\* A D1 call fails.  In the bookkeeping the entry remembers how far it got.
Breaks ==
    /\ Upset
    /\ \/ NotSettled
       \/ drain.pc \in {"fail", "mark"} /\ WaitsForVerdict
       \/ drain.pc \in {"repair", "announce"} /\ Pends
    /\ UNCHANGED <<row, page, run, announced, queue, elsewhere, reopened>>

Dies ==
    /\ drain # Off /\ Upset
    /\ Leaves
    /\ UNCHANGED <<row, page, run, announced, entry, queue, elsewhere, reopened>>

----------------------------------------------------------------------------
(* Time, the sweep, the ingest lane and the user *)

\* A sleeping entry is due: its backoff is over; the claim it found running is past
\* its time to live; the verdict its follower waits for is there, or will not come.
Wakes(j) ==
    LET i == <<entry[j].gen, entry[j].attempts, entry[j].cap>>
    IN  /\ entry[j] # NoEntry /\ entry[j].late /\ drain = Off
        /\ entry' = [entry EXCEPT ![j].late = FALSE]
        /\ run' = IF run[j][i] = "running" THEN [run EXCEPT ![j][i] = "aged"] ELSE run
        /\ IF Lane[j] = "follow" /\ extract[j] = "open"
           THEN extract' \in {[extract EXCEPT ![j] = v] : v \in {"wrote", "empty", "failed", "late"}}
           ELSE UNCHANGED extract
        /\ UNCHANGED <<row, page, suppressed, announced, queue, drain, req, bounds>>

\* runReconciliationSweep: a job without work, long after the last call for it.
Sweeps(j) ==
    /\ row[j].st = "staged" /\ entry[j] = NoEntry
    /\ \A r \in Requests : ReqJob[r] = j => req[r].pc \in {"new", "done"}
    /\ row' = [row EXCEPT ![j].st = "failed"]
    /\ UNCHANGED <<page, tables, run, announced, object, req, bounds>>

EditsPage(p) ==
    /\ Live(p) /\ Upset
    /\ page' = [page EXCEPT ![p].user = TRUE, ![p].seen = FALSE, ![p].since = TRUE]
    /\ UNCHANGED <<row, tables, run, announced, object, req, reopened>>

\* deleteObject of a page, with suppression.
DeletesPage(p) ==
    /\ Live(p) /\ Upset
    /\ page' = [page EXCEPT ![p].st = "deleted"]
    /\ suppressed' = TRUE
    /\ UNCHANGED <<row, extract, run, announced, object, req, reopened>>

----------------------------------------------------------------------------
Call(r) ==
    \/ Looks(r) \/ Reopens(r) \/ Resolves(r) \/ Claims(r) \/ StagesNoPage(r)
    \/ StagesAdvance(r) \/ StagesCreate(r) \/ StagesNothing(r) \/ HandsOff(r)
Drains ==
    \/ Picks \/ Observes \/ ClaimsRun \/ (\E out \in Outcomes : Infers(out))
    \/ Follows \/ Refused \/ Misses \/ WithoutPage \/ FinalizesAdvance
    \/ FinalizesFollowed \/ FinalizesCreated \/ AddsNothing
    \/ Settles \/ Fails \/ Marks \/ Repairs \/ Confirms \/ Announces \/ Finishes

NextLane ==
    \/ \E r \in Requests : Call(r) \/ CallBreaks(r) \/ CallsAgain(r)
    \/ Drains \/ Breaks \/ Dies
    \/ \E j \in Jobs : Wakes(j) \/ Sweeps(j) \/ EditsPage(j) \/ DeletesPage(j)

LaneSpec == InitLane /\ [][NextLane]_vars

(* Calls that began end, the object's alarm keeps its drain going, backoffs, runs
   and the ingest lane's work come to an end, and the sweep runs. *)
FairLaneSpec ==
    /\ LaneSpec
    /\ WF_vars(Drains)
    /\ \A r \in Requests : WF_vars(Call(r))
    /\ \A j \in Jobs : WF_vars(Wakes(j)) /\ WF_vars(Sweeps(j))

----------------------------------------------------------------------------
(* Properties *)

McpTypeOK ==
    /\ \A j \in Jobs : row[j].st \in {None, "staged"} \cup TerminalJob
    /\ \A j \in Jobs : entry[j] # NoEntry =>
         entry[j].attempts \in 0..MaxAttempts - 1 /\ entry[j].cap \in 0..MaxCapacity - 1
    /\ Len(queue) <= Cardinality(Jobs)
    /\ \A j \in Jobs : entry[j] # NoEntry <=> j \in Range(queue)

\* A conversation has at most one live page, however many batches create it at
\* once over whichever door.
OnePagePerConversation == \A p, q \in Jobs : Live(p) /\ Live(q) => p = q

\* The model is called once for a run: not again after a crash, a retry of the
\* entry or a replay of the save.
CalledOnce ==
    [][\A j \in Jobs, i \in RunIds : run[j][i] # None /\ run'[j][i] = "running"
         => run[j][i] = "running"]_vars

\* A save answered as accepted is in the object's queue until it has its verdict.
AcceptedIsQueued ==
    \A r \in Requests :
      ReqJob[r] \notin reopened /\ req[r].answer \in {"accepted", "joined"} =>
        row[ReqJob[r]].st \in TerminalJob \/ entry[ReqJob[r]] # NoEntry

\* The object lets go of a save only when its verdict has been announced.
VerdictsAreAnnounced ==
    \A r \in Requests :
        LET j == ReqJob[r]
        IN  /\ j \notin reopened /\ Lane[j] = "mcp"
            /\ req[r].answer = "accepted" /\ entry[j] = NoEntry
            => <<j, row[j].st>> \in announced

\* The user's wording stays.  A follower never replaces it, in the page it created
\* or in one that it advances, whenever the edit lands; an MCP save, which waits for
\* the model with a revision that it read before, does not replace an edit that
\* landed since ("If an explicit edit landed since, this write must lose:",
\* mcp_engine.js:2052), whatever deaths, retries and advances come in between.
UserTextStands ==
    [][\A p \in Jobs :
         /\ page[p].user /\ (page[p].since \/ (drain # Off => Lane[drain.job] = "follow"))
         /\ page'[p].st # "deleted"
         => page'[p].user]_vars

\* Every staged save gets a verdict: from the object, or from the sweep.
SavesEnd == \A j \in Jobs : row[j].st = "staged" ~> row[j].st # "staged"

\* A batch that is on the page stays on it, whatever other batches of the
\* conversation do; only deletion takes it off.
BatchesStayOnPage ==
    [][\A p \in Jobs : page'[p].st = "deleted" \/ page[p].body \subseteq page'[p].body]_vars

\* A job that is reopened runs under an identity that no earlier attempt used: the
\* repair asks the model again.
RepairsRunAfresh ==
    [][\A j \in Jobs : row[j].st = "failed" /\ row'[j].st = "staged" =>
         \A i \in RunIds : i[1] = row'[j].own.gen => run[j][i] = None]_vars
=============================================================================
