------------------------------- MODULE Cutover -------------------------------
(***************************************************************************)
(* Moving the webhook tables between the cloud database and the fnOS one:  *)
(* scripts/fnos_webhook_cutover.mjs, run by an operator who follows        *)
(* docs/runbooks/fnos-cutover.md section 7.                                *)
(*                                                                         *)
(* A row stands for one receipt with what hangs off it: the immutable      *)
(* fields (note; heartbeat rows are compared the same way), the monotonic  *)
(* duplicate count, and the mutable job and directive (work).  "side" says *)
(* that a subscription or gate row exists.  next is logicalNext of the     *)
(* identity sequence: it moves outside transactions, and a duplicate       *)
(* delivery consumes a value too.                                          *)
(*                                                                         *)
(* The tool's REPEATABLE READ transaction takes its snapshot at the        *)
(* advisory lock, before LOCK TABLE: those are two steps here, and a       *)
(* writer that began earlier may commit between them.                      *)
(***************************************************************************)
EXTENDS Naturals, FiniteSets, FiniteSetsExt

CONSTANTS
    Notes,      \* notifications the platform sends
    First,      \* the one the cloud has stored at the start
    MaxId,      \* identity values handed out on one side
    Drained,    \* the operator sees no writer lock before a run (7.4)
    None

ASSUME FirstAssumption == First \in Notes
ASSUME MaxIdAssumption == MaxId \in Nat /\ MaxId >= 2
ASSUME DrainedAssumption == Drained \in BOOLEAN

VARIABLES
    data,       \* the committed tables of each side
    next,       \* the sequence of each side
    tx,         \* the tables as a writer's open transaction will leave them
    up,         \* the sides whose webhook units run
    upstream,   \* where the public webhook goes
    tool,       \* the running command of the cutover tool
    baseline,   \* the manifest of the last forward
    approved,   \* the plan of the last dry run, which the operator approves
    ready,      \* what the last result allows: a baseline, or a start
    acked       \* notifications some side has acknowledged

cutoverVars == <<data, next, tx, up, upstream, tool, baseline, approved, ready, acked>>
services == <<data, next, tx, up, upstream, acked>>
results == <<baseline, approved, ready>>

Sides == {"cloud", "fnos"}
Other(s) == IF s = "cloud" THEN "fnos" ELSE "cloud"
Ids == 1..MaxId
ReceiptRow == [note: Notes, dup: 0..MaxId, work: {"job", "directive", "idle"}]
ASSUME NoneAssumption == None \notin ReceiptRow \cup Sides
Data == [row: [Ids -> ReceiptRow \cup {None}], side: BOOLEAN]
Snapshot == [row: [Ids -> ReceiptRow \cup {None}], side: BOOLEAN, next: 1..MaxId + 1]

Keys(d) == {i \in Ids : d.row[i] # None}
MaxKey(d) == Max(Keys(d) \cup {0})
NotesOf(d) == {d.row[i].note : i \in Keys(d)}

Modes == {"prepare", "forward", "reverse"}
Source(mode) == IF mode = "reverse" THEN "fnos" ELSE "cloud"
Target(mode) == Other(Source(mode))

Tool == [pc: {"idle", "begin", "lock", "decide", "commit", "judge"},
         mode: Modes, execute: BOOLEAN, readback: BOOLEAN,
         snap: [Sides -> Data \cup {None}], locked: SUBSET Sides,
         frozen: Snapshot \cup {None}]
NoTool == [pc |-> "idle", mode |-> "forward", execute |-> FALSE, readback |-> FALSE,
           snap |-> [s \in Sides |-> None], locked |-> {}, frozen |-> None]

\* fnOS is a prefix of the cloud, or has run on its own since.
CutoverInit ==
    /\ \E r \in {None} \cup [note: Notes, dup: 0..1, work: {"idle"}] :
         LET one == [note |-> First, dup |-> 0, work |-> "idle"]
             With(x) == [row |-> [i \in Ids |-> IF i = 1 THEN x ELSE None],
                         side |-> FALSE]
             NextAfter(x) == IF x = None THEN 1 ELSE x.dup + 2
         IN  /\ data = [s \in Sides |-> With(IF s = "cloud" THEN one ELSE r)]
             /\ next = [s \in Sides |-> NextAfter(IF s = "cloud" THEN one ELSE r)]
    /\ tx = [s \in Sides |-> None]
    /\ up = {"cloud"} /\ upstream = "cloud"
    /\ tool = NoTool
    /\ baseline = None /\ approved = None /\ ready = None
    /\ acked = {First}

-----------------------------------------------------------------------------
(* The services of a side, and the operator who stops and starts them.     *)

\* A writer waits for the tool's table lock.
MayWrite(s) == s \in up /\ tx[s] = None /\ s \notin tool.locked

\* accept: a receipt and its job, or one more duplicate of a stored receipt;
\* both take a value of the sequence.
Accept(s, n) ==
    /\ MayWrite(s) /\ upstream = s
    /\ next[s] <= MaxId
    /\ next' = [next EXCEPT ![s] = @ + 1]
    /\ LET d == data[s]
           known == {i \in Keys(d) : d.row[i].note = n}
       IN  IF known = {}
           THEN tx' = [tx EXCEPT ![s] = [d EXCEPT !.row[next[s]] =
                         [note |-> n, dup |-> 0, work |-> "job"]]]
           ELSE \E i \in known :
                  tx' = [tx EXCEPT ![s] = [d EXCEPT !.row[i].dup = @ + 1]]
    /\ UNCHANGED <<data, up, upstream, tool, results, acked>>

\* The worker ends a job and leaves a directive, or hydration ends that.
Work(s, i) ==
    /\ MayWrite(s) /\ i \in Keys(data[s])
    /\ data[s].row[i].work # "idle"
    /\ tx' = [tx EXCEPT ![s] = [data[s] EXCEPT !.row[i].work =
                IF @ = "job" THEN "directive" ELSE "idle"]]
    /\ UNCHANGED <<data, next, up, upstream, tool, results, acked>>

\* A permission failure writes a gate row, a probe a subscription row.
WriteSide(s) ==
    /\ MayWrite(s) /\ ~data[s].side
    /\ tx' = [tx EXCEPT ![s] = [data[s] EXCEPT !.side = TRUE]]
    /\ UNCHANGED <<data, next, up, upstream, tool, results, acked>>

\* The receiver answers 200 once the transaction has committed.
Commit(s) ==
    /\ tx[s] # None
    /\ data' = [data EXCEPT ![s] = tx[s]]
    /\ acked' = acked \cup NotesOf(tx[s])
    /\ tx' = [tx EXCEPT ![s] = None]
    /\ UNCHANGED <<next, up, upstream, tool, results>>

Abort(s) ==
    /\ tx[s] # None
    /\ tx' = [tx EXCEPT ![s] = None]
    /\ UNCHANGED <<data, next, up, upstream, tool, results, acked>>

\* Stopping the units does not end a transaction the server already has.
Stop(s) ==
    /\ s \in up
    /\ up' = up \ {s}
    /\ UNCHANGED <<data, next, tx, upstream, tool, results, acked>>

\* The side the webhook goes to is started again: the cutover is given up.
\* What the tool said about the frozen pair no longer counts.
Resume ==
    /\ tool = NoTool
    /\ upstream \notin up
    /\ up' = up \cup {upstream}
    /\ ready' = None
    /\ UNCHANGED <<data, next, tx, upstream, tool, baseline, approved, acked>>

\* The other side is started and the webhook goes there: only after forward
\* has written the manifest, or reverse has returned readyForCloudStart.
Switch ==
    /\ tool = NoTool
    /\ up = {} /\ ready \in Sides
    /\ upstream' = ready
    /\ up' = {ready}
    /\ ready' = None
    /\ UNCHANGED <<data, next, tx, tool, baseline, approved, acked>>

-----------------------------------------------------------------------------
(* What the tool reads and decides on a frozen pair.                       *)

\* Rows come from the transaction's snapshot, sequences from the present.
SnapshotOf(s) == [row |-> tool.snap[s].row, side |-> tool.snap[s].side,
                  next |-> next[s]]

\* validateSnapshot: the sequence has passed every key.
ValidSnapshot(f) == f.next > MaxKey(f)

\* Mutant: sequences are left out of the comparison.
SnapshotsEqual_TablesOnly(f, g) == f.row = g.row /\ f.side = g.side
\* snapshotsEqual: tables, sequences, and the readiness they determine.
SnapshotsEqual(f, g) == f = g

\* assertQuiescent: no open job; an idle directive backlog is carried.
Quiescent(f) == \A i \in Keys(f) : f.row[i].work # "job"

\* receiptUpdateNeeded and the immutable fields, for a key both sides have.
\* Mutant: the duplicate count is taken from the source, whatever it is.
Follows_AnyCount(s, t) == s.note = t.note
Follows(s, t) == s.note = t.note /\ s.dup >= t.dup

\* calculatePreparePlan: every key of the target is on the source, and no
\* receipt goes back.
MayPrepare(fs, ft) ==
    /\ Keys(ft) \subseteq Keys(fs)
    /\ ft.side => fs.side
    /\ \A i \in Keys(ft) : Follows(fs.row[i], ft.row[i])

\* validateSourceBaselinePrefixes and streamBaselineUpdates: below the
\* baseline's largest key the source has the same receipts, none gone back.
MayReverse(b, fs, ft) ==
    /\ Keys(fs) \cap 1..MaxKey(b) = Keys(b)
    /\ \A i \in Keys(b) : /\ fs.row[i].note = b.row[i].note
                          /\ Follows(fs.row[i], ft.row[i])

\* The operations applied to the target's rows: every source row inserted,
\* or written over the target's.
Converged(fs, ft) ==
    [row |-> [i \in Ids |-> IF i \in Keys(fs) THEN fs.row[i] ELSE ft.row[i]],
     side |-> fs.side \/ ft.side, next |-> fs.next]

\* The hash covers mode, baseline, both snapshots and every operation, which
\* those determine.
PlanOf(mode, b, fs, ft) ==
    [mode |-> mode, base |-> IF mode = "reverse" THEN b ELSE None,
     source |-> fs, target |-> ft]

Plan == [mode: {"prepare", "reverse"}, base: Snapshot \cup {None},
         source: Snapshot, target: Snapshot]

\* assertReverseDirection and the state the target may be in.
MayReverseInto(fs, ft) ==
    /\ baseline # None
    /\ SnapshotsEqual(fs, ft) \/ ft = baseline

\* The checks of each mode before anything is planned.
Admitted(mode, fs, ft) ==
    /\ ValidSnapshot(fs) /\ ValidSnapshot(ft)
    /\ Quiescent(fs) /\ Quiescent(ft)
    /\ mode # "reverse" => ~fs.side
    /\ mode = "forward" => SnapshotsEqual(fs, ft)
    /\ mode = "reverse" => MayReverseInto(fs, ft)
    /\ ~SnapshotsEqual(fs, ft) =>
         CASE mode = "prepare" -> MayPrepare(fs, ft)
           [] mode = "reverse" -> MayReverse(baseline, fs, ft)
           [] OTHER -> TRUE

\* Mutant: execute computes its own plan and goes ahead with it.
Approved_Any(mode, fs, ft) == approved # None
\* Execute stops at PLAN_HASH_MISMATCH.
Approved(mode, fs, ft) == approved = PlanOf(mode, baseline, fs, ft)

-----------------------------------------------------------------------------
(* One run of the tool.                                                    *)

\* The operator starts a command with both sides stopped.
Invoke(mode, execute) ==
    /\ tool = NoTool
    /\ up = {}
    /\ Drained => \A s \in Sides : tx[s] = None
    /\ mode = "reverse" => baseline # None
    /\ mode = "forward" => execute
    /\ mode # "forward" /\ execute => approved # None
    /\ tool' = [NoTool EXCEPT !.pc = "begin", !.mode = mode, !.execute = execute]
    /\ ready' = None
    /\ UNCHANGED <<services, baseline, approved>>

\* The side beginPair turns to: the source, then the target.
Turn == IF Source(tool.mode) \in tool.locked THEN Target(tool.mode)
        ELSE Source(tool.mode)

\* BEGIN REPEATABLE READ and SELECT pg_advisory_xact_lock.
BeginFrozen ==
    /\ tool.pc = "begin"
    /\ tool' = [tool EXCEPT !.snap[Turn] = data[Turn], !.pc = "lock"]
    /\ UNCHANGED <<services, results>>

\* LOCK TABLE ... IN ACCESS EXCLUSIVE MODE waits for open writers.
LockTables ==
    /\ tool.pc = "lock"
    /\ tx[Turn] = None
    /\ tool' = [tool EXCEPT !.locked = @ \cup {Turn},
                            !.pc = IF Turn = Source(tool.mode) THEN "begin"
                                   ELSE IF tool.readback THEN "judge" ELSE "decide"]
    /\ UNCHANGED <<services, results>>

\* The command ends: both transactions are rolled back.
End == tool' = NoTool

\* A check fails, a lock times out, a connection breaks, or the process dies;
\* before COMMIT is sent this changes no table.
Fail ==
    /\ tool.pc \notin {"idle", "commit"}
    /\ End
    /\ UNCHANGED <<services, results>>

Frozen == [source |-> SnapshotOf(Source(tool.mode)), target |-> SnapshotOf(Target(tool.mode))]

\* runForward: equal and quiescent sides become the manifest.
RunForward ==
    /\ tool.pc = "decide" /\ tool.mode = "forward"
    /\ Admitted("forward", Frozen.source, Frozen.target)
    /\ baseline' = Frozen.source
    /\ ready' = "fnos"
    /\ End
    /\ UNCHANGED <<services, approved>>

\* What a result with its ready flag allows.
Allows(mode) == IF mode = "reverse" THEN "cloud" ELSE "baseline"

\* A dry run prints its plan; equal sides are already_applied and ready.
DryRun ==
    /\ tool.pc = "decide" /\ tool.mode # "forward" /\ ~tool.execute
    /\ Admitted(tool.mode, Frozen.source, Frozen.target)
    /\ approved' = PlanOf(tool.mode, baseline, Frozen.source, Frozen.target)
    /\ ready' = IF SnapshotsEqual(Frozen.source, Frozen.target) THEN Allows(tool.mode) ELSE None
    /\ End
    /\ UNCHANGED <<services, baseline>>

\* Execute on equal sides writes nothing and reads both back.
AlreadyApplied ==
    /\ tool.pc = "decide" /\ tool.mode # "forward" /\ tool.execute
    /\ Admitted(tool.mode, Frozen.source, Frozen.target)
    /\ SnapshotsEqual(Frozen.source, Frozen.target)
    /\ Approved(tool.mode, Frozen.source, Frozen.target)
    /\ tool' = [tool EXCEPT !.pc = "begin", !.readback = TRUE, !.locked = {},
                            !.frozen = Frozen.source]
    /\ UNCHANGED <<services, results>>

\* PostgreSQL refuses to update a row changed since the snapshot, and to
\* insert a key that exists although the snapshot does not show it.
Clash(s, new) ==
    \/ \E i \in Ids : /\ new.row[i] # tool.snap[s].row[i]
                      /\ data[s].row[i] # tool.snap[s].row[i]
    \/ new.side # tool.snap[s].side /\ data[s].side # tool.snap[s].side

\* The approved plan is applied in the target's transaction, its sequence
\* restarted, the result compared with the source, and the source released.
Apply ==
    /\ tool.pc = "decide" /\ tool.mode # "forward" /\ tool.execute
    /\ Admitted(tool.mode, Frozen.source, Frozen.target)
    /\ ~SnapshotsEqual(Frozen.source, Frozen.target)
    /\ Approved(tool.mode, Frozen.source, Frozen.target)
    /\ LET new == Converged(Frozen.source, Frozen.target)
       IN  /\ ~Clash(Target(tool.mode), new)
           /\ SnapshotsEqual(new, Frozen.source) /\ ValidSnapshot(new) /\ Quiescent(new)
    /\ tool' = [tool EXCEPT !.pc = "commit", !.frozen = Frozen.source,
                            !.locked = {Target(tool.mode)}]
    /\ UNCHANGED <<services, results>>

\* What the target holds once the transaction is in: what it wrote, and rows
\* its snapshot never showed.
Installed(s) ==
    [row |-> [i \in Ids |-> IF tool.frozen.row[i] # tool.snap[s].row[i]
                            THEN tool.frozen.row[i] ELSE data[s].row[i]],
     side |-> tool.frozen.side \/ data[s].side]

\* Mutant: logicalNext is read as the last value handed out.
Restarted_After == tool.frozen.next + 1
\* Mutant: the sequence restarts after the count of rows.
Restarted_Count == Cardinality(Keys(tool.frozen)) + 1
\* alignTargetSequences: the source's logicalNext.
Restarted == tool.frozen.next

\* COMMIT is done or is not, whatever the answer says: the connection is
\* thrown away and the readback decides.  Or the process dies around it.
CommitTarget ==
    /\ tool.pc = "commit"
    /\ LET t == Target(tool.mode)
       IN  \/ /\ data' = [data EXCEPT ![t] = Installed(t)]
              /\ next' = [next EXCEPT ![t] = Restarted]
           \/ UNCHANGED <<data, next>>
    /\ \/ tool' = [tool EXCEPT !.pc = "begin", !.readback = TRUE, !.locked = {}]
       \/ End
    /\ UNCHANGED <<tx, up, upstream, acked, results>>

\* Mutant: the readback looks at the source only.
Verified_SourceOnly(fs, ft) == fs = tool.frozen

\* authoritativeReadback, on new connections: the source as it was frozen and
\* the target equal to it.  Anything else is OUTCOME_UNVERIFIED,
\* COMMIT_NOT_APPLIED or POST_COMMIT_STATE_MISMATCH.
Verified(fs, ft) ==
    SnapshotsEqual(fs, tool.frozen) /\ SnapshotsEqual(ft, tool.frozen)

Judge ==
    /\ tool.pc = "judge"
    /\ LET fs == Frozen.source  ft == Frozen.target
       IN  /\ ValidSnapshot(fs) /\ ValidSnapshot(ft)
           /\ Quiescent(fs) /\ Quiescent(ft)
           /\ Verified(fs, ft)
    /\ ready' = Allows(tool.mode)
    /\ End
    /\ UNCHANGED <<services, baseline, approved>>

CutoverNext ==
    \/ \E s \in Sides : \/ \E n \in Notes : Accept(s, n)
                        \/ \E i \in Ids : Work(s, i)
                        \/ WriteSide(s) \/ Commit(s) \/ Abort(s) \/ Stop(s)
    \/ Resume \/ Switch
    \/ \E mode \in Modes, execute \in BOOLEAN : Invoke(mode, execute)
    \/ BeginFrozen \/ LockTables \/ Fail
    \/ RunForward \/ DryRun \/ AlreadyApplied \/ Apply
    \/ CommitTarget \/ Judge

CutoverSpec == CutoverInit /\ [][CutoverNext]_cutoverVars

-----------------------------------------------------------------------------
(* Properties.                                                             *)

\* Every variable has its type.
CutoverTypeOK ==
    /\ data \in [Sides -> Data] /\ next \in [Sides -> 1..MaxId + 1]
    /\ tx \in [Sides -> Data \cup {None}]
    /\ up \subseteq Sides /\ upstream \in Sides
    /\ tool \in Tool /\ baseline \in Snapshot \cup {None}
    /\ approved \in Plan \cup {None}
    /\ ready \in Sides \cup {"baseline", None}
    /\ acked \subseteq Notes

\* A notification that was answered is stored where the webhook now goes:
\* no switch in either direction, after whatever interrupted runs, leaves an
\* acknowledged receipt behind (runbook 7.6, 7.7).
AckedIsServed == acked \subseteq NotesOf(data[upstream])

\* No side's sequence hands out a key its table already has (runbook 7.1:
\* "Every logicalNext must be greater than its table's maximum identity").
SequenceIsAhead == \A s \in Sides : next[s] > MaxKey(data[s])

\* While a result allows a baseline or a start, both databases hold the same
\* tables and sequences (7.8: "Exact equality to the frozen source is the only
\* state that can set a readiness flag").
ReadyMeansEqual ==
    ready # None => /\ data["cloud"] = data["fnos"]
                    /\ next["cloud"] = next["fnos"]

\* Whatever was interrupted, an acknowledged notification is where the webhook
\* goes, the next key is free on both sides, and readiness means equality.
CutoverSafety == CutoverTypeOK /\ AckedIsServed /\ SequenceIsAhead /\ ReadyMeansEqual

\* No step on either side loses a receipt, changes one, or lowers its
\* duplicate count.
ReceiptsAreKept ==
    [][\A s \in Sides : \A i \in Keys(data[s]) :
         /\ i \in Keys(data'[s])
         /\ data'[s].row[i].note = data[s].row[i].note
         /\ data'[s].row[i].dup >= data[s].row[i].dup]_cutoverVars

Present(s) == [row |-> data[s].row, side |-> data[s].side, next |-> next[s]]

\* The tool changes a database only while both hold exactly what the approved
\* plan was computed from, and leaves the target equal to the source.
OnlyTheApprovedPlan ==
    [][tool.pc = "commit" /\ data' # data =>
         LET s == Source(tool.mode)  t == Target(tool.mode)
         IN  /\ approved.source = Present(s) /\ approved.target = Present(t)
             /\ data'[t] = data[s]]_cutoverVars

=============================================================================
