------------------------------ MODULE Backfill ------------------------------
(***************************************************************************)
(* Historical backfill: src/backfill/runner.mjs executes one approved plan *)
(* over ops.backfill_run, backfill_window and backfill_checkpoint          *)
(* (src/backfill/checkpoint-repository.mjs, db/migrations/0012), judging   *)
(* each window with src/backfill/quality-gate.mjs and calling the platform *)
(* through the one registered adapter, which delegates to the supply sync  *)
(* under a run id made of plan, window and attempt ordinal.                *)
(*                                                                         *)
(* A grain is store + domain + adapter; its windows are days 1..Days[g],   *)
(* taken newest first, and the watermark of a window is its day.           *)
(* Executions of the same plan share the run row.  Nothing keeps two of    *)
(* them from running at once, so the properties say where that matters.    *)
(***************************************************************************)
EXTENDS Naturals, Sequences, FiniteSets

CONSTANTS
    Executions,     \* processes started for the plan
    Grains,         \* the plan's grains
    Order,          \* the plan's order of grains
    Blocked,        \* grains without a verified capability or an adapter
    Days,           \* how many windows each grain has
    Lanes,          \* the plan's concurrency
    MaxAttempts,    \* attempts of one execution at a window
    MaxOrdinal,     \* the last attempt ordinal: 99
    Prints,         \* schema fingerprints, one per release of the adapter
    MaxFaults,      \* failed calls, lost answers and deaths
    MayOverlap,     \* an execution may start while another is alive
    None

Windows == UNION {{g} \X (1..Days[g]) : g \in Grains}

\* A plan lists its grains once, each with at least one window.
ASSUME PlanAssumption ==
    /\ Blocked \subseteq Grains
    /\ Order \in Seq(Grains)
    /\ \A g \in Grains : \E i \in 1..Len(Order) : Order[i] = g
    /\ \A i, j \in 1..Len(Order) : Order[i] = Order[j] => i = j
    /\ Days \in [Grains -> Nat \ {0}]
    /\ MaxAttempts \in Nat \ {0} /\ MaxOrdinal \in Nat \ {0} /\ Lanes \in Nat \ {0}
    /\ MaxFaults \in Nat
    /\ None \notin Prints

VARIABLES
    run,        \* status of the run row
    row,        \* window rows: execution status, attempt count, fingerprint
    ckpt,       \* checkpoint of each grain: day and fingerprint
    ledger,     \* <<window, ordinal>> of the supply attempts started
    refused,    \* those a second start was refused for
    m,          \* the memory of each execution
    overlapped, \* two executions were alive at once
    faults      \* faults so far

tables == <<run, row, ckpt>>
vars == <<run, row, ckpt, ledger, refused, m, overlapped, faults>>

NoRow == [status |-> "none", count |-> 0, print |-> None]
NoCheckpoint == [day |-> 0, print |-> None]

\* A lane's place in its grain: the day it works on, the attempts made at it,
\* what it waits for and the outcome it is about to commit.
Idle(d) == [at |-> "wait", day |-> d, tries |-> 0, outcome |-> "none"]

\* The memory of an execution that has just started, and of one that is gone.
Fresh == [pc |-> "start", print |-> None, done |-> {},
          prior |-> [w \in Windows |-> 0], ckpt |-> [g \in Grains |-> NoCheckpoint],
          next |-> 1, lanes |-> Lanes, broken |-> FALSE,
          lane |-> [g \in Grains |-> Idle(Days[g])],
          result |-> [w \in Windows |-> "none"]]
Gone(pc) == [Fresh EXCEPT !.pc = pc]

\* An execution whose lane has thrown lives on until its other lanes end.
Alive(p) == m[p].pc \in {"completed", "counts", "checkpoints", "lanes"}

-----------------------------------------------------------------------------
(* Opening: the run row, then three reads in three transactions.           *)

\* openRun inserts the row or takes up the one that is there, as it is.
OpenRun(p) ==
    /\ m[p].pc = "start"
    /\ \A q \in Executions : MayOverlap \/ ~Alive(q)
    /\ run' = IF run = "none" THEN "RUNNING" ELSE run
    /\ overlapped' = (overlapped \/ \E q \in Executions : Alive(q))
    /\ \E f \in Prints : m' = [m EXCEPT ![p].pc = "completed", ![p].print = f]
    /\ UNCHANGED <<row, ckpt, ledger, refused, faults>>

LoadCompletedWindowKeys(p) ==
    /\ m[p].pc = "completed"
    /\ m' = [m EXCEPT ![p].pc = "counts",
                      ![p].done = {w \in Windows : row[w].status = "SUCCEEDED"}]
    /\ UNCHANGED <<tables, ledger, refused, overlapped, faults>>

\* A count above the last ordinal is not taken over: the window starts at zero.
PriorAttempts(n) == IF n <= MaxOrdinal THEN n ELSE 0

LoadWindowAttemptCounts(p) ==
    /\ m[p].pc = "counts"
    /\ m' = [m EXCEPT ![p].pc = "checkpoints",
                      ![p].prior = [w \in Windows |-> PriorAttempts(row[w].count)]]
    /\ UNCHANGED <<tables, ledger, refused, overlapped, faults>>

LoadCheckpoints(p) ==
    /\ m[p].pc = "checkpoints"
    /\ m' = [m EXCEPT ![p].pc = "lanes", ![p].ckpt = ckpt]
    /\ UNCHANGED <<tables, ledger, refused, overlapped, faults>>

-----------------------------------------------------------------------------
(* The lanes: at most Lanes grains at a time, each strictly in its order.  *)

Lane(p, g) == m[p].lane[g]
Window(p, g) == <<g, Lane(p, g).day>>
Busy(p) == {g \in Grains : Lane(p, g).at \notin {"wait", "over"}}

TakeGrain(p) ==
    /\ m[p].pc = "lanes"
    /\ m[p].next <= Len(Order)
    /\ Cardinality(Busy(p)) < m[p].lanes
    /\ m' = [m EXCEPT ![p].next = @ + 1,
                      ![p].lane[Order[m[p].next]].at = "ready"]
    /\ UNCHANGED <<tables, ledger, refused, overlapped, faults>>

\* The lane after a window: the next older one, or the end of the grain.
Forward(p, g) ==
    LET l == Lane(p, g)
    IN  [Idle(l.day - 1) EXCEPT !.at = IF l.day > 1 THEN "ready" ELSE "over"]

\* A blocked window is committed as such without a call; a completed one is
\* skipped without a row.
Skip(p, g) ==
    /\ m[p].pc = "lanes"
    /\ Lane(p, g).at = "ready"
    /\ g \notin Blocked
    /\ Window(p, g) \in m[p].done
    /\ m' = [m EXCEPT ![p].lane[g] = Forward(p, g),
                      ![p].result[Window(p, g)] = "SKIPPED"]
    /\ UNCHANGED <<tables, ledger, refused, overlapped, faults>>

Block(p, g) ==
    /\ m[p].pc = "lanes"
    /\ Lane(p, g).at = "ready"
    /\ g \in Blocked
    /\ m' = [m EXCEPT ![p].lane[g].at = "commit", ![p].lane[g].outcome = "BLOCKED"]
    /\ UNCHANGED <<tables, ledger, refused, overlapped, faults>>

\* Mutant: every execution counts its attempts from one.
Ordinal_FromOne(p, g) == Lane(p, g).tries + 1

\* The ordinal of the next attempt, prior attempts included.
Ordinal(p, g) == m[p].prior[Window(p, g)] + Lane(p, g).tries + 1

\* An attempt past the last ordinal is not made, but it is counted.
LimitReached(p, g) ==
    /\ m[p].pc = "lanes"
    /\ Lane(p, g).at = "ready"
    /\ g \notin Blocked /\ Window(p, g) \notin m[p].done
    /\ Ordinal(p, g) > MaxOrdinal
    /\ LET l == Lane(p, g)
       IN  m' = [m EXCEPT ![p].lane[g] =
                   [l EXCEPT !.at = "commit", !.tries = l.tries + 1, !.outcome = "FAILED"]]
    /\ UNCHANGED <<tables, ledger, refused, overlapped, faults>>

\* fetchWindow delegates to the supply sync, which starts its attempt in an
\* immutable ledger: a second start of the same attempt is refused, because it
\* differs in its start instant, and ends as an adapter error.  (A request the
\* adapter rejects before it delegates is counted as started.)
FetchWindow(p, g) ==
    /\ m[p].pc = "lanes"
    /\ Lane(p, g).at = "ready"
    /\ g \notin Blocked /\ Window(p, g) \notin m[p].done
    /\ Ordinal(p, g) <= MaxOrdinal
    /\ LET key == <<Window(p, g), Ordinal(p, g)>>
           again == key \in ledger
       IN  /\ ledger' = ledger \cup {key}
           /\ refused' = IF again THEN refused \cup {key} ELSE refused
           /\ m' = [m EXCEPT ![p].lane[g].tries = @ + 1,
                             ![p].lane[g].at = IF again THEN "refused" ELSE "calling"]
    /\ UNCHANGED <<tables, overlapped, faults>>

\* Mutant: the fingerprint is not compared.
Judged_NoDrift(p, g, answer) == IF answer = "loaded" THEN "SUCCEEDED" ELSE "FAILED"

\* evaluateWindowOutcome on what the adapter may return: an error, a window
\* past its page or row bound, or a loaded window, which fails when the
\* checkpoint in memory has another fingerprint.
Judged(p, g, answer) ==
    IF answer = "loaded" /\ m[p].ckpt[g].print \in {None, m[p].print}
    THEN "SUCCEEDED" ELSE "FAILED"

\* Only an adapter error is tried again.
Answered(p, g) ==
    /\ Lane(p, g).at \in {"calling", "refused"}
    /\ m[p].pc = "lanes"
    /\ \E answer \in IF Lane(p, g).at = "refused" THEN {"error"}
                     ELSE {"error", "unbounded", "loaded"} :
         m' = IF answer = "error" /\ Lane(p, g).tries < MaxAttempts
              THEN [m EXCEPT ![p].lane[g].at = "ready"]
              ELSE [m EXCEPT ![p].lane[g].at = "commit",
                             ![p].lane[g].outcome = Judged(p, g, answer)]
    /\ UNCHANGED <<tables, ledger, refused, overlapped, faults>>

-----------------------------------------------------------------------------
(* commitWindowOutcome: the window row and the checkpoint, one transaction.*)

\* Mutant: the fingerprint of a success is not stored.
Fingerprint_Missing(p, g) == None

Fingerprint(p, g) == IF Lane(p, g).outcome = "SUCCEEDED" THEN m[p].print ELSE None

\* The upsert of the window row adds to the attempt count and overwrites the
\* rest.
NewRow(p, g) ==
    [status |-> Lane(p, g).outcome, print |-> Fingerprint(p, g),
     count |-> row[Window(p, g)].count + Lane(p, g).tries]

\* Mutant: a window row cited by a checkpoint may change.
MayCommit_Unpinned(p, g) == TRUE

\* A checkpoint's foreign key pins the status, the watermark and the
\* fingerprint of the window it cites.
MayCommit(p, g) ==
    ckpt[g].day = Lane(p, g).day =>
        Lane(p, g).outcome = "SUCCEEDED" /\ Fingerprint(p, g) = ckpt[g].print

\* Mutant: the checkpoint follows every success.
Advances_Always(p, g) == Lane(p, g).outcome = "SUCCEEDED"

\* The checkpoint moves when the watermark is past the one in memory
\* (nextCheckpointState) and past the one in the table (the upsert).
Advances(p, g) ==
    /\ Lane(p, g).outcome = "SUCCEEDED"
    /\ Lane(p, g).day > m[p].ckpt[g].day
    /\ Lane(p, g).day > ckpt[g].day

Committed(p, g) ==
    /\ MayCommit(p, g)
    /\ row' = [row EXCEPT ![Window(p, g)] = NewRow(p, g)]
    /\ ckpt' = IF Advances(p, g)
               THEN [ckpt EXCEPT ![g] = [day |-> Lane(p, g).day, print |-> m[p].print]]
               ELSE ckpt

\* A commit that is made keeps the checkpoint it moved, notes the result and goes
\* on to the next window.
PastWindow(p, g) ==
    [m[p] EXCEPT !.lane[g] = Forward(p, g),
                 !.ckpt[g] = IF Advances(p, g) THEN ckpt'[g] ELSE @,
                 !.result[Window(p, g)] = Lane(p, g).outcome]

\* A commit that fails ends its lane and rejects the whole execution; the
\* other lanes run on, but the pool is being closed under them.
Broken(p, g) ==
    [m[p] EXCEPT !.broken = TRUE, !.lanes = @ - 1,
                 !.lane[g] = [Idle(0) EXCEPT !.at = "over"]]

CommitWindowOutcome(p, g) ==
    /\ m[p].pc = "lanes"
    /\ Lane(p, g).at = "commit"
    /\ \/ /\ Committed(p, g)
          /\ m' = [m EXCEPT ![p] = PastWindow(p, g)]
          /\ UNCHANGED faults
       \/ /\ m[p].broken \/ ~MayCommit(p, g)
          /\ m' = [m EXCEPT ![p] = Broken(p, g)]
          /\ UNCHANGED <<row, ckpt, faults>>
       \/ /\ faults < MaxFaults
          /\ faults' = faults + 1
          /\ m' = [m EXCEPT ![p] = Broken(p, g)]
          /\ Committed(p, g) \/ UNCHANGED <<row, ckpt>>
    /\ UNCHANGED <<run, ledger, refused, overlapped>>

-----------------------------------------------------------------------------
Count(p, s) == Cardinality({w \in Windows : m[p].result[w] = s})

\* Mutant: blocked windows do not count against the run.
RunStatus_Blocked(p) ==
    IF Count(p, "FAILED") > 0 THEN "PARTIAL" ELSE "SUCCEEDED"

RunStatus(p) ==
    IF Count(p, "FAILED") > 0 /\ Count(p, "SUCCEEDED") + Count(p, "SKIPPED") = 0 THEN "FAILED"
    ELSE IF Count(p, "FAILED") + Count(p, "BLOCKED") > 0 THEN "PARTIAL" ELSE "SUCCEEDED"

LanesEnded(p) ==
    /\ m[p].pc = "lanes"
    /\ Busy(p) = {}
    /\ m[p].lanes = 0 \/ m[p].next > Len(Order)

\* A broken execution leaves the run row as it is.
CloseRun(p) ==
    /\ LanesEnded(p)
    /\ ~m[p].broken
    /\ \/ /\ run' = RunStatus(p)
          /\ m' = [m EXCEPT ![p] = Gone("done")]
          /\ UNCHANGED faults
       \/ /\ faults < MaxFaults
          /\ faults' = faults + 1
          /\ m' = [m EXCEPT ![p] = Gone("thrown")]
          /\ run' \in {run, RunStatus(p)}
    /\ UNCHANGED <<row, ckpt, ledger, refused, overlapped>>

ExitBroken(p) ==
    /\ LanesEnded(p)
    /\ m[p].broken
    /\ m' = [m EXCEPT ![p] = Gone("thrown")]
    /\ UNCHANGED <<tables, ledger, refused, overlapped, faults>>

ReadFails(p) ==
    /\ m[p].pc \in {"completed", "counts", "checkpoints"}
    /\ faults < MaxFaults
    /\ faults' = faults + 1
    /\ m' = [m EXCEPT ![p] = Gone("thrown")]
    /\ UNCHANGED <<tables, ledger, refused, overlapped>>

Die(p) ==
    /\ Alive(p)
    /\ faults < MaxFaults
    /\ faults' = faults + 1
    /\ m' = [m EXCEPT ![p] = Gone("dead")]
    /\ UNCHANGED <<tables, ledger, refused, overlapped>>

-----------------------------------------------------------------------------
Init ==
    /\ run = "none"
    /\ row = [w \in Windows |-> NoRow]
    /\ ckpt = [g \in Grains |-> NoCheckpoint]
    /\ ledger = {} /\ refused = {}
    /\ m = [p \in Executions |-> Fresh]
    /\ overlapped = FALSE
    /\ faults = 0

Step(p) ==
    \/ OpenRun(p) \/ LoadCompletedWindowKeys(p) \/ LoadWindowAttemptCounts(p)
    \/ LoadCheckpoints(p) \/ TakeGrain(p) \/ CloseRun(p) \/ ExitBroken(p)
    \/ ReadFails(p) \/ Die(p)
    \/ \E g \in Grains :
         \/ Skip(p, g) \/ Block(p, g) \/ LimitReached(p, g)
         \/ FetchWindow(p, g) \/ Answered(p, g) \/ CommitWindowOutcome(p, g)

Next == \E p \in Executions : Step(p)

Spec == Init /\ [][Next]_vars

-----------------------------------------------------------------------------
Outcomes == {"SUCCEEDED", "FAILED", "BLOCKED"}
RowType == [status: {"none"} \cup Outcomes, count: Nat, print: Prints \cup {None}]
CheckpointType == [day: Nat, print: Prints \cup {None}]

\* The rows hold what the migration's constraints admit: among others, a
\* success always has its fingerprint.
TypeOK ==
    /\ run \in {"none", "RUNNING", "PARTIAL", "SUCCEEDED", "FAILED"}
    /\ row \in [Windows -> RowType]
    /\ ckpt \in [Grains -> CheckpointType]
    /\ \A w \in Windows : row[w].status = "SUCCEEDED" => row[w].print # None
    /\ ledger \subseteq Windows \X (1..MaxOrdinal)
    /\ refused \subseteq ledger
    /\ overlapped \in BOOLEAN
    /\ faults \in 0..MaxFaults

\* A checkpoint always cites a window that has succeeded with the same
\* watermark and fingerprint, whatever stale executions commit after it.
CheckpointIsProven ==
    \A g \in Grains :
        ckpt[g] # NoCheckpoint =>
            /\ row[<<g, ckpt[g].day>>].status = "SUCCEEDED"
            /\ row[<<g, ckpt[g].day>>].print = ckpt[g].print

\* Same-grain schema drift is detected: executions one after another, of
\* whatever releases, leave one fingerprint among the successes of a grain.
OneSchemaPerGrain ==
    ~overlapped =>
        \A v, w \in Windows :
            v[1] = w[1] /\ row[v].status = "SUCCEEDED" /\ row[w].status = "SUCCEEDED"
                => row[v].print = row[w].print

\* A run is SUCCEEDED only when every window of the plan is, after any number
\* of resumed executions; a blocked grain keeps it from that.
SucceededMeansEveryWindow ==
    run = "SUCCEEDED" /\ ~overlapped =>
        \A w \in Windows : row[w].status = "SUCCEEDED"

\* What the plan's rows say is true: a checkpoint and a SUCCEEDED run rest on
\* windows that succeeded, with one fingerprint per grain.
BackfillSafety ==
    TypeOK /\ CheckpointIsProven /\ OneSchemaPerGrain /\ SucceededMeansEveryWindow

\* Without faults and one after another, executions never start a supply
\* attempt twice while no window has been tried past the last ordinal.
OrdinalsAreFresh ==
    faults = 0 /\ ~overlapped /\ (\A w \in Windows : row[w].count <= MaxOrdinal)
        => refused = {}

\* The resumed call continues at the next attempt ordinal, without colliding
\* with the immutable supply-attempt ledger.
NeverCollides == refused = {}

\* A checkpoint only moves to a later day, and no commit of a later execution
\* turns a success back while executions do not overlap.
SuccessIsKept ==
    [][/\ \A g \in Grains : ckpt'[g] # ckpt[g] => ckpt'[g].day > ckpt[g].day
       /\ \A w \in Windows :
            row[w].status = "SUCCEEDED" /\ ~overlapped => row'[w] = row[w]]_vars
=============================================================================
