---------------------------- MODULE V4Collection ----------------------------
(***************************************************************************)
(* The one-off v4 collection: scripts/run_full_managed_v4_collection.mjs   *)
(* drives one run row, one attempt row per store and work item (a grain),  *)
(* append-only page evidence, capability observations and one coverage row *)
(* through src/warehouse/full-webapi-fact-repository.mjs, under the        *)
(* triggers and constraints of db/migrations/0028.  Executions of the same *)
(* approved plan share the run row; nothing excludes two of them at once.  *)
(*                                                                         *)
(* Every repository call is one transaction.  beginAttempt takes two steps *)
(* because its check of the run row and its commit are not serialised with *)
(* another execution's transition of that row: the foreign key's KEY SHARE *)
(* lock does not conflict with an update of non-key columns.               *)
(***************************************************************************)
EXTENDS Naturals, Sequences, FiniteSets

CONSTANTS
    Executions,     \* processes started for the same plan
    Grains,         \* the frozen roster: store x work item
    Statistics,     \* the grains that are statistics work items
    Plan,           \* the order in which grains are opened
    CloseOrder,     \* the order in which they are closed: pages, then statistics
    MaxPages,       \* pages one page grain may return
    MaxFaults,      \* failed calls, lost answers and deaths
    NoExecution

\* The plan is frozen: 25 distinct stores times 13 distinct work items.
Enumerates(order) ==
    /\ order \in Seq(Grains)
    /\ \A g \in Grains : \E i \in 1..Len(order) : order[i] = g
    /\ \A i, j \in 1..Len(order) : order[i] = order[j] => i = j

ASSUME PlanAssumption ==
    /\ Statistics \subseteq Grains
    /\ Enumerates(Plan) /\ Len(Plan) >= 2
    /\ Enumerates(CloseOrder)
    /\ \A i, j \in 1..Len(CloseOrder) :
         i < j /\ CloseOrder[i] \in Statistics => CloseOrder[j] \in Statistics
    /\ MaxPages \in Nat /\ MaxFaults \in Nat
    /\ NoExecution \notin Executions

VARIABLES
    db,         \* the ledger: run, attempt, pages, observed, coverage
    m,          \* the memory of each execution
    staging,    \* the executions whose staging file is on disk
    candidate,  \* whose snapshot is at the candidate path
    faults      \* faults so far

vars == <<db, m, staging, candidate, faults>>

OpenAttempt == {"PLANNED", "RUNNING"}
EndedAttempt == {"SUCCEEDED", "PARTIAL", "FAILED"}
EndedRun == {"SUCCEEDED", "PARTIAL", "FAILED"}

\* What one sync invocation hands over for a grain: the pages it fetched,
\* whether every row of them is accepted, and whether the gates hold.
Answer == [pages: 0..MaxPages, clean: BOOLEAN, gates: BOOLEAN]
NoAnswer == [pages |-> 0, clean |-> TRUE, gates |-> FALSE]

-----------------------------------------------------------------------------
(* The ledger's own rules.                                                 *)

Opened(d) == {g \in Grains : d.attempt[g] # "none"}
AttemptsClosed(d) == \A g \in Grains : d.attempt[g] \notin OpenAttempt

\* Mutant: preflight may pass twice.
RunMayBecome_Replay(d, s) ==
    /\ CASE s = "PREFLIGHT_PASSED" -> d.run \in {"PLANNED", "PREFLIGHT_PASSED"}
         [] s = "RUNNING" -> d.run \in {"PREFLIGHT_PASSED", "RUNNING"}
         [] OTHER -> d.run = "RUNNING"
    /\ s \in EndedRun => AttemptsClosed(d)

\* Mutant: a run may end over attempts that are still open.
RunMayBecome_Open(d, s) ==
    CASE s = "PREFLIGHT_PASSED" -> d.run = "PLANNED"
      [] s = "RUNNING" -> d.run = "PREFLIGHT_PASSED"
      [] OTHER -> d.run = "RUNNING"

\* guard_v4_collection_run_state and the timeline constraint.  The guard lets
\* a PLANNED or PREFLIGHT_PASSED run fail; the constraint wants started_at
\* next to completed_at, which only RUNNING sets.
RunMayBecome(d, s) ==
    /\ CASE s = "PREFLIGHT_PASSED" -> d.run = "PLANNED"
         [] s = "RUNNING" -> d.run = "PREFLIGHT_PASSED"
         [] OTHER -> d.run = "RUNNING"
    /\ s \in EndedRun => AttemptsClosed(d)
    /\ s = "SUCCEEDED" => \A g \in Grains : d.attempt[g] = "SUCCEEDED"
    /\ s = "PARTIAL" => Opened(d) # {}

\* Mutant: only a started attempt may fail.
AttemptMayBecome_Started(d, g, s, n) ==
    CASE s = "RUNNING" -> d.attempt[g] = "PLANNED"
      [] OTHER -> d.attempt[g] = "RUNNING"

\* guard_v4_collection_attempt_terminal, for an update; n is the page count
\* the caller observed.
AttemptMayBecome(d, g, s, n) ==
    /\ CASE s = "RUNNING" -> d.attempt[g] = "PLANNED"
         [] s = "FAILED" -> d.attempt[g] \in OpenAttempt
         [] OTHER -> d.attempt[g] = "RUNNING"
    /\ s = "SUCCEEDED" => /\ n > 0 /\ Len(d.pages[g]) = n
                          /\ \A k \in 1..n : d.pages[g][k] = "SUCCEEDED"
    /\ s = "PARTIAL" => Len(d.pages[g]) > 0

Complete(d) == \A g \in Grains : d.attempt[g] = "SUCCEEDED"

\* The coverage row: what the guard recomputes from attempts and evidence,
\* the caller's reason and its paging and dedupe flags.
NoCoverage == [complete |-> FALSE, reason |-> "none", pages |-> {}, verified |-> FALSE]
CoverageOf(d, reason, verified) ==
    [complete |-> Complete(d), reason |-> reason, verified |-> verified,
     pages |-> {<<g, Len(d.pages[g])>> : g \in Grains}]

\* A replay must agree with the row on everything but the two flags.
MayCover(d, reason) ==
    /\ d.run \in EndedRun
    /\ IF d.coverage = NoCoverage
       THEN Complete(d) \/ reason # "none"
       ELSE d.coverage = CoverageOf(d, reason, d.coverage.verified)

Covered(d, reason, verified) ==
    IF d.coverage = NoCoverage
    THEN [d EXCEPT !.coverage = CoverageOf(d, reason, verified)] ELSE d

-----------------------------------------------------------------------------
(* One repository call of p: it commits, is refused, fails, or commits and *)
(* its answer is lost.  new is the ledger it commits, next the memory after*)
(* an answer and bad the memory after an error.                            *)
Call(p, allowed, new, next, bad) ==
    \/ /\ allowed
       /\ db' = new /\ m' = [m EXCEPT ![p] = next]
       /\ UNCHANGED faults
    \/ /\ ~allowed
       /\ m' = [m EXCEPT ![p] = bad]
       /\ UNCHANGED <<db, faults>>
    \/ /\ faults < MaxFaults
       /\ faults' = faults + 1
       /\ m' = [m EXCEPT ![p] = bad]
       /\ db' \in IF allowed THEN {db, new} ELSE {db}

Goto(p, pc) == [m[p] EXCEPT !.pc = pc]
\* An error of the first phase is kept; the second phase still runs.
SyncError(p) == [m[p] EXCEPT !.pc = "closing", !.i = 1, !.error = TRUE]
\* An error of the second phase starts the best-effort clean-up.
PersistError(p) == [m[p] EXCEPT !.pc = "failing", !.i = 1, !.error = TRUE]
Thrown(p) == Goto(p, "thrown")

\* createCollectionRun: a run that is there is replayed.
CreateRun(p) ==
    /\ m[p].pc = "create"
    /\ Call(p, TRUE, db, Goto(p, IF db.run = "none" THEN "creating" ELSE "preflight"),
            SyncError(p))
    /\ UNCHANGED <<staging, candidate>>

\* Otherwise it is inserted; of two inserts the second meets the unique key.
InsertRun(p) ==
    /\ m[p].pc = "creating"
    /\ Call(p, db.run = "none", [db EXCEPT !.run = "PLANNED"],
            Goto(p, "preflight"), SyncError(p))
    /\ UNCHANGED <<staging, candidate>>

TransitionRun(p, from, s, next, bad) ==
    /\ m[p].pc = from
    /\ Call(p, RunMayBecome(db, s), [db EXCEPT !.run = s], next, bad)
    /\ UNCHANGED <<staging, candidate>>

Preflight(p) ==
    TransitionRun(p, "preflight", "PREFLIGHT_PASSED", Goto(p, "start"), SyncError(p))

Start(p) ==
    TransitionRun(p, "start", "RUNNING",
                  [m[p] EXCEPT !.pc = "begin", !.i = 1], SyncError(p))

\* beginAttempt up to its insert statement, whose trigger is the last to read
\* the run row.
BeginAttempt(p) ==
    /\ m[p].pc = "begin"
    /\ m[p].i <= Len(Plan)
    /\ m' = [m EXCEPT ![p] = IF db.run \in EndedRun THEN SyncError(p)
                                                   ELSE Goto(p, "inserting")]
    /\ UNCHANGED <<db, staging, candidate, faults>>

\* beginAttempt's commit: a grain that exists is replayed, not inserted.
InsertAttempt(p) ==
    /\ m[p].pc = "inserting"
    /\ LET g == Plan[m[p].i]
       IN  Call(p, TRUE,
                IF db.attempt[g] = "none" THEN [db EXCEPT !.attempt[g] = "PLANNED"] ELSE db,
                [m[p] EXCEPT !.pc = "run", !.own = @ \cup {g}], SyncError(p))
    /\ UNCHANGED <<staging, candidate>>

RunAttempt(p) ==
    /\ m[p].pc = "run"
    /\ LET g == Plan[m[p].i]
       IN  Call(p, AttemptMayBecome(db, g, "RUNNING", 0),
                [db EXCEPT !.attempt[g] = "RUNNING"],
                [m[p] EXCEPT !.pc = "begin", !.i = @ + 1], SyncError(p))
    /\ UNCHANGED <<staging, candidate>>

\* One sync invocation: it returns with the staging file written, or throws
\* with whatever evidence it had gathered, before or after writing it.
Sync(p) ==
    /\ m[p].pc = "begin"
    /\ m[p].i > Len(Plan)
    /\ \E got \in [Grains -> Answer], ok \in BOOLEAN :
         /\ \A g \in Statistics : got[g].pages <= 1 /\ got[g].clean
         /\ \A g \in Grains : ok \/ ~got[g].gates
         /\ \A g \in Grains : got[g].pages = 0 => got[g].clean
         /\ m' = [m EXCEPT ![p] = [@ EXCEPT !.pc = "closing", !.i = 1,
                      !.got = got, !.synced = ok, !.error = ~ok]]
         /\ staging' \in {staging \cup {p}} \cup (IF ok THEN {} ELSE {staging})
    /\ UNCHANGED <<db, candidate, faults>>

-----------------------------------------------------------------------------
(* The second phase: evidence, then a terminal status for each own attempt.*)

Closing(p) == CloseOrder[m[p].i]
NextClose(p) == [m[p] EXCEPT !.pc = "closing", !.i = @ + 1, !.page = 1]

FetchStatus(a, k) == IF a.clean \/ k < a.pages THEN "SUCCEEDED" ELSE "PARTIAL"

\* insertTypedFacts for a page grain, recordPageEvidence for a statistic:
\* typed rows and the evidence row in one transaction, while the attempt is
\* open.  Only the execution that opened an attempt writes its evidence, once.
RecordPage(p) ==
    /\ m[p].pc = "closing"
    /\ m[p].i <= Len(CloseOrder)
    /\ LET g == Closing(p)
           a == m[p].got[g]
       IN  /\ m[p].page <= a.pages
           /\ Call(p, db.attempt[g] \in OpenAttempt,
                   [db EXCEPT !.pages[g] = Append(@, FetchStatus(a, m[p].page))],
                   IF g \in Statistics THEN [m[p] EXCEPT !.pc = "observe", !.page = @ + 1]
                                       ELSE [m[p] EXCEPT !.page = @ + 1],
                   PersistError(p))
    /\ UNCHANGED <<staging, candidate>>

\* recordCapabilityObservation refuses a run that has ended.
Observe(p) ==
    /\ m[p].pc = "observe"
    /\ Call(p, db.run \notin EndedRun,
            [db EXCEPT !.observed = @ \cup {Closing(p)}],
            Goto(p, "closing"), PersistError(p))
    /\ UNCHANGED <<staging, candidate>>

\* Mutant: the gates of a page are not looked at.
ClosingStatus_NoGates(p, g) ==
    LET a == m[p].got[g]
    IN  IF a.pages = 0 THEN "FAILED" ELSE IF m[p].synced /\ a.clean THEN "SUCCEEDED" ELSE "PARTIAL"

\* Mutant: a grain that was not fetched stays as it was opened.
ClosingStatus_Planned(p, g) ==
    IF m[p].got[g].pages = 0 THEN "RUNNING" ELSE "PARTIAL"

\* SUCCEEDED only for a grain whose sync returned with its gates and whose
\* pages were all accepted; PARTIAL when some evidence was written.
ClosingStatus(p, g) ==
    LET a == m[p].got[g]
    IN  IF g \in Statistics
        THEN IF a.pages = 0 THEN "FAILED"
             ELSE IF m[p].synced THEN "SUCCEEDED" ELSE "PARTIAL"
        ELSE IF a.gates /\ a.clean /\ a.pages > 0 THEN "SUCCEEDED"
             ELSE IF a.pages > 0 THEN "PARTIAL" ELSE "FAILED"

\* terminalAttempt: a grain this execution never opened has no key and is
\* passed over.
CloseAttempt(p) ==
    /\ m[p].pc = "closing"
    /\ m[p].i <= Len(CloseOrder)
    /\ LET g == Closing(p)
           n == m[p].got[g].pages
           s == ClosingStatus(p, g)
       IN  /\ m[p].page > n
           /\ IF g \in m[p].own
              THEN Call(p, AttemptMayBecome(db, g, s, n), [db EXCEPT !.attempt[g] = s],
                        [NextClose(p) EXCEPT !.outcome[g] = s], PersistError(p))
              ELSE /\ m' = [m EXCEPT ![p] = NextClose(p)]
                   /\ UNCHANGED <<db, faults>>
    /\ UNCHANGED <<staging, candidate>>

-----------------------------------------------------------------------------
(* The clean-up after a persistence failure: every step is best effort.    *)

FailAttempt(p) ==
    /\ m[p].pc = "failing"
    /\ m[p].i <= Len(Plan)
    /\ LET g == Plan[m[p].i]
           on == [m[p] EXCEPT !.i = @ + 1]
       IN  IF g \in m[p].own /\ m[p].outcome[g] = "none"
           THEN Call(p, AttemptMayBecome(db, g, "FAILED", 0),
                     [db EXCEPT !.attempt[g] = "FAILED"],
                     [on EXCEPT !.outcome[g] = "FAILED"], on)
           ELSE m' = [m EXCEPT ![p] = on] /\ UNCHANGED <<db, faults>>
    /\ UNCHANGED <<staging, candidate>>

FailRun(p) ==
    /\ m[p].i > Len(Plan)
    /\ TransitionRun(p, "failing", "FAILED", Goto(p, "failCoverage"), Goto(p, "failCoverage"))

FailCoverage(p) ==
    /\ m[p].pc = "failCoverage"
    /\ Call(p, MayCover(db, "failed"), Covered(db, "failed", FALSE), Thrown(p), Thrown(p))
    /\ staging' = staging \ {p}
    /\ UNCHANGED candidate

-----------------------------------------------------------------------------
(* The third phase: the run's status, its coverage, and the candidate.     *)

RunStatus(p) ==
    LET won == {g \in m[p].own : m[p].outcome[g] = "SUCCEEDED"}
    IN  IF m[p].own # {} /\ won = m[p].own THEN "SUCCEEDED"
        ELSE IF won # {} THEN "PARTIAL" ELSE "FAILED"

Conclude(p) ==
    /\ m[p].i > Len(CloseOrder)
    /\ TransitionRun(p, "closing", RunStatus(p), Goto(p, "cover"), Thrown(p))

CoverageReason(p) == IF RunStatus(p) = "SUCCEEDED" THEN "none" ELSE RunStatus(p)

\* pagingVerified and dedupeVerified: the sync returned and every page grain
\* passed its gates.
Verified(p) == m[p].synced /\ \A g \in Grains \ Statistics : m[p].got[g].gates

Cover(p) ==
    /\ m[p].pc = "cover"
    /\ Call(p, MayCover(db, CoverageReason(p)), Covered(db, CoverageReason(p), Verified(p)),
            Goto(p, "publish"), Thrown(p))
    /\ UNCHANGED <<staging, candidate>>

\* promoteStaging renames the staging file over the candidate; a run short of
\* success, or a rename that fails, only removes it.
Publish(p) ==
    /\ m[p].pc = "publish"
    /\ staging' = staging \ {p}
    /\ \/ /\ m' = [m EXCEPT ![p] = Goto(p, "done")]
          /\ candidate' = IF ~m[p].error /\ m[p].synced /\ RunStatus(p) = "SUCCEEDED"
                          THEN p ELSE candidate
          /\ UNCHANGED faults
       \/ /\ faults < MaxFaults
          /\ faults' = faults + 1
          /\ m' = [m EXCEPT ![p] = Thrown(p)]
          /\ UNCHANGED candidate
    /\ UNCHANGED db

Ended == {"done", "thrown", "dead"}

\* A process may die at any point; nothing recovers what it left.
Die(p) ==
    /\ m[p].pc \notin Ended
    /\ faults < MaxFaults
    /\ faults' = faults + 1
    /\ m' = [m EXCEPT ![p] = Goto(p, "dead")]
    /\ UNCHANGED <<db, staging, candidate>>

-----------------------------------------------------------------------------
Fresh == [pc |-> "create", i |-> 1, page |-> 1, own |-> {},
          got |-> [g \in Grains |-> NoAnswer], synced |-> FALSE, error |-> FALSE,
          outcome |-> [g \in Grains |-> "none"]]

Init ==
    /\ db = [run |-> "none", attempt |-> [g \in Grains |-> "none"],
             pages |-> [g \in Grains |-> <<>>], observed |-> {}, coverage |-> NoCoverage]
    /\ m = [p \in Executions |-> Fresh]
    /\ staging = {}
    /\ candidate = NoExecution
    /\ faults = 0

Step(p) ==
    \/ CreateRun(p) \/ InsertRun(p) \/ Preflight(p) \/ Start(p)
    \/ BeginAttempt(p) \/ InsertAttempt(p) \/ RunAttempt(p) \/ Sync(p)
    \/ RecordPage(p) \/ Observe(p) \/ CloseAttempt(p)
    \/ FailAttempt(p) \/ FailRun(p) \/ FailCoverage(p)
    \/ Conclude(p) \/ Cover(p) \/ Publish(p)

Next == \E p \in Executions : Step(p) \/ Die(p)

Spec == Init /\ [][Next]_vars

-----------------------------------------------------------------------------
RunStatuses == {"none", "PLANNED", "PREFLIGHT_PASSED", "RUNNING"} \cup EndedRun
AttemptStatuses == {"none"} \cup OpenAttempt \cup EndedAttempt
Counters == {"create", "creating", "preflight", "start", "begin", "inserting", "run",
             "closing", "observe", "failing", "failCoverage", "cover", "publish"} \cup Ended

\* The ledger's rows hold the statuses the migration admits and an execution's
\* memory what the runner's variables can hold.
TypeOK ==
    /\ db.run \in RunStatuses
    /\ db.attempt \in [Grains -> AttemptStatuses]
    /\ \A g \in Grains : db.pages[g] \in Seq({"SUCCEEDED", "PARTIAL"})
    /\ db.observed \subseteq Statistics
    /\ \A p \in Executions :
         /\ m[p].pc \in Counters
         /\ m[p].own \subseteq Grains
         /\ m[p].outcome \in [Grains -> {"none"} \cup EndedAttempt]
    /\ staging \subseteq Executions
    /\ candidate \in Executions \cup {NoExecution}
    /\ faults \in 0..MaxFaults

\* The candidate path is materialisable only after every database gate: the
\* run SUCCEEDED, every grain of the roster has its accepted evidence, each
\* statistic its observation, and the coverage row says complete and verified,
\* whatever a second execution, a lost answer or a death did meanwhile.
CandidateIsProven ==
    candidate # NoExecution =>
        /\ db.run = "SUCCEEDED"
        /\ \A g \in Grains : /\ db.attempt[g] = "SUCCEEDED"
                             /\ Len(db.pages[g]) > 0
                             /\ \A k \in DOMAIN db.pages[g] : db.pages[g][k] = "SUCCEEDED"
        /\ Statistics \subseteq db.observed
        /\ db.coverage.complete /\ db.coverage.verified /\ db.coverage.reason = "none"

\* Fixed retry NONE: of all executions of one plan a single one opens attempts
\* and calls the platform; the others find the run past PLANNED.
OneCollector ==
    \A p, q \in Executions : p # q => m[p].own = {} \/ m[q].own = {}

\* Every attempt an execution knows it opened is terminal once that execution
\* has ended, after any single failed call or lost answer: only a death, or a
\* second failure inside the clean-up, leaves one open.
OwnAttemptsClosed ==
    \A p \in Executions :
        m[p].pc \in {"done", "thrown"} /\ faults <= 1 =>
            \A g \in m[p].own : db.attempt[g] \in EndedAttempt

\* Executions share the ledger without disturbing it: one of them collects, and
\* it closes what it opened.
CollectionSafety == TypeOK /\ OneCollector /\ OwnAttemptsClosed

\* Evidence is final once the run or the attempt it belongs to has ended, in
\* whatever way: no late call adds a page or an observation or ends it again.
\* Only under a FAILED run may an attempt still be opened, by an execution that
\* had checked the run before it failed; it has no evidence and ends FAILED.
EndedIsFinal ==
    [][/\ db.run \in EndedRun =>
             /\ db'.run = db.run /\ db'.pages = db.pages /\ db'.observed = db.observed
             /\ \A g \in Grains : db'.attempt[g] # db.attempt[g] =>
                   /\ db.run = "FAILED" /\ db.pages[g] = <<>>
                   /\ db'.attempt[g] \in OpenAttempt \cup {"FAILED"}
       /\ \A g \in Grains : db.attempt[g] \in EndedAttempt =>
             db'.attempt[g] = db.attempt[g] /\ db'.pages[g] = db.pages[g]]_vars

\* A persistence failure must not leave the run open forever: when every
\* execution has returned or thrown, the run they shared has ended, or is
\* still PLANNED, where another execution can take it up.
RunIsNotLeftOpen ==
    (\A p \in Executions : m[p].pc \in {"done", "thrown"}) =>
        db.run \in EndedRun \cup {"none", "PLANNED"}
=============================================================================
