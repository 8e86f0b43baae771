-------------------------- MODULE CoordinatorProofs --------------------------
(***************************************************************************)
(* Proofs about the business coordinator, for any plans, stores and number *)
(* of faults: a ready run has covered every store, a recovery is skipped   *)
(* only when there is nothing to recover, and nothing complete is undone.  *)
(* Stages run in parallel, so the invariant is one of each stage on its own *)
(* (StageInv), which the steps of the others leave alone.                  *)
(***************************************************************************)
EXTENDS Coordinator, TLAPS

RunRow == [status : RunStatus, stages : [Stages -> Stage]]

IsComplete(s) == run.stages[s].status = "COMPLETE"

FactKinds == {"home", "sales", "supply"}

(* A store that a stage has seen to an end, and one whose every store was  *)
(* found in order.                                                         *)
Seen(s, t) ==
    /\ outcome[s][t] \notin {"none", "error"}
    /\ Kind[s] = "sales" => outcome[s][t] # "unknown"
AllLoaded(s) == \A t \in Stores : outcome[s][t] = "loaded"

(* A stage whose last child has been paid for: nothing runs, or what ran   *)
(* will have to run again.                                                 *)
Rested(s) ==
    \/ ~up \/ pc[s] \in {"idle", "sleep", "done", "thrown"}
    \/ pc[s] = "exited" /\ ~Completes(s)

(* What the exit of a child says about the stores it worked on.            *)
ResultInv(s) ==
    /\ res[s] = "unreadable" => Kind[s] \in FactKinds
    /\ \A t \in Scope(s) :
          /\ res[s] = "ok" =>
                /\ outcome[s][t] \in {"loaded", "gap", "denied"}
                /\ Kind[s] \notin FactKinds => outcome[s][t] = "loaded"
          /\ res[s] = "partial" => outcome[s][t] \in {"loaded", "gap", "denied", "error"}
          /\ res[s] = "unreadable" => outcome[s][t] = "unknown"

(* Every attempt but one was paid for by a fault, and every child that was *)
(* launched is counted until the stage is complete.                        *)
CountInv(s) ==
    LET e == run.stages[s] IN
    /\ e.attempts <= faults + 1
    /\ ~IsComplete(s) => launched[s] <= e.attempts
    /\ ~IsComplete(s) /\ Rested(s) => e.attempts <= faults

(* The stores that are no longer pending were seen to an end.              *)
PendingInv(s) ==
    LET pending == run.stages[s].pending IN
    /\ Kind[s] \notin FactKinds => pending = {}
    /\ pending # {} => \A t \in Stores \ pending : Seen(s, t)

(* A child works, has exited or is waited for only while the stage is not  *)
(* complete.                                                               *)
PlaceInv(s) ==
    /\ s \notin plan => pc[s] = "idle"
    /\ pc[s] \in {"child", "exited", "sleep"} => ~IsComplete(s)
    /\ pc[s] = "exited" => ResultInv(s)

CompleteInv(s) ==
    IsComplete(s) =>
       /\ Kind[s] \in FactKinds => \A t \in Stores : Seen(s, t)
       /\ Kind[s] = "renewal" /\ ~run.stages[s].needs => AllLoaded(s)
       /\ After[s] # NoStage =>
             AllLoaded(s) \/ (IsComplete(After[s]) /\ AllLoaded(After[s]))

StageInv(s) == CountInv(s) /\ PendingInv(s) /\ PlaceInv(s) /\ CompleteInv(s)

(* A run that is, or is about to be marked, ready has completed its plan.  *)
ReadyInv ==
    run.status \in {"READY_TO_PUBLISH", "PUBLISHED"} \/ marking => AllComplete

CoordinatorInv == TypeOK /\ ReadyInv /\ \A s \in Stages : StageInv(s)

-----------------------------------------------------------------------------
(* The cells of the state file and of the process, per stage.              *)
LEMMA Cells ==
    ASSUME TypeOK, NEW s \in Stages
    PROVE  /\ run \in RunRow /\ run.stages[s] \in Stage
           /\ run.stages[s].status \in StageStatus
           /\ run.stages[s].attempts \in 0..(MaxFaults + 1)
           /\ run.stages[s].pending \subseteq Stores
           /\ run.stages[s].gaps \subseteq Stores
           /\ run.stages[s].needs \in BOOLEAN
           /\ pc \in [Stages -> Pcs] /\ res \in [Stages -> Results]
           /\ outcome \in [Stages -> [Stores -> Outcomes]]
           /\ launched \in [Stages -> 0..(MaxFaults + 1)] /\ launched[s] \in Nat
           /\ faults \in 0..MaxFaults /\ faults \in Nat /\ MaxFaults \in Nat
<1>1. run \in RunRow /\ run.stages[s] \in Stage
  BY DEF TypeOK, RunType, RunRow
<1>2. MaxFaults \in Nat
  BY CoordinatorAssumption
<1> QED
  BY <1>1, <1>2 DEF TypeOK, ProcType, GhostType, Stage

(* Writing the run's status and one stage.                                 *)
LEMMA RunUpdate ==
    ASSUME run \in RunRow, NEW st \in RunStatus, NEW s \in Stages, NEW v \in Stage,
           run' = [run EXCEPT !.status = st, !.stages[s] = v]
    PROVE  /\ run' \in RunRow /\ run'.status = st /\ run'.stages[s] = v
           /\ \A p \in Stages \ {s} : run'.stages[p] = run.stages[p]
BY DEF RunRow

(* A step of stage s leaves the others alone.                              *)
OnlyStage(s) ==
    /\ UNCHANGED <<plan, up>>
    /\ \A q \in Stages \ {s} :
          /\ run'.stages[q] = run.stages[q] /\ pc'[q] = pc[q] /\ res'[q] = res[q]
          /\ outcome'[q] = outcome[q] /\ launched'[q] = launched[q]

(* What the steps of stage s do to its row in the state file.              *)
WritesRow(s, v) ==
    /\ run' \in RunRow /\ v \in Stage /\ run'.stages[s] = v
    /\ \A q \in Stages \ {s} : run'.stages[q] = run.stages[q]

(* The head of the loop: the stage is started or waited for, and not       *)
(* complete.                                                               *)
LEMMA HeadFacts ==
    ASSUME TypeOK, NEW s \in Stages, StageInv(s), AtLoopHead(s)
    PROVE  /\ up /\ pc[s] \in {"idle", "sleep"} /\ ~IsComplete(s) /\ s \in plan
           /\ run.stages[s].attempts <= faults /\ Rested(s)
<1>1. up /\ pc[s] \in {"idle", "sleep"} /\ ~IsComplete(s) /\ s \in plan
  BY DEF AtLoopHead, Runnable, StageInv, PlaceInv, IsComplete
<1> QED
  BY <1>1 DEF StageInv, CountInv, Rested

(* Starting a child.                                                       *)
LEMMA LaunchEffects ==
    ASSUME TypeOK, NEW s \in Stages, StageInv(s), Launch(s)
    PROVE  /\ WritesRow(s, [run.stages[s] EXCEPT !.status = "RUNNING", !.attempts = @ + 1,
                                                 !.needs = FALSE])
           /\ run'.stages[s].status = "RUNNING"
           /\ run'.stages[s].attempts = run.stages[s].attempts + 1
           /\ run'.stages[s].pending = run.stages[s].pending
           /\ run'.status \in {"RUNNING", run.status}
           /\ pc' = [pc EXCEPT ![s] = "child"]
           /\ launched' = [launched EXCEPT ![s] = run.stages[s].attempts + 1]
           /\ UNCHANGED <<plan, up, res, expired, aborted, marking, outcome, faults>>
<1> DEFINE v == [run.stages[s] EXCEPT !.status = "RUNNING", !.attempts = @ + 1,
                                      !.needs = FALSE]
<1>1. run.stages[s].attempts <= faults
  BY HeadFacts DEF Launch
<1>2. run.stages[s].attempts + 1 \in 0..(MaxFaults + 1)
  BY <1>1, Cells
<1>3. /\ v \in Stage /\ v.status = "RUNNING" /\ v.attempts = run.stages[s].attempts + 1
      /\ v.pending = run.stages[s].pending
  BY <1>2, Cells DEF Stage, StageStatus
<1>4. run' = [run EXCEPT !.status = StatusAtHead(s), !.stages[s] = v]
  BY ZenonT(60) DEF Launch
<1>5. StatusAtHead(s) \in RunStatus /\ StatusAtHead(s) \in {"RUNNING", run.status}
  BY Cells DEF StatusAtHead, RunStatus, RunRow
<1> HIDE DEF v
<1>6. run \in RunRow
  BY Cells
<1>7. /\ run' \in RunRow /\ run'.status = StatusAtHead(s) /\ run'.stages[s] = v
      /\ \A q \in Stages \ {s} : run'.stages[q] = run.stages[q]
  BY <1>3, <1>4, <1>5, <1>6, RunUpdate
<1>8. WritesRow(s, v)
  BY <1>3, <1>7 DEF WritesRow
<1> QED
  BY <1>3, <1>5, <1>7, <1>8 DEF Launch, v

(* The budget is spent.                                                    *)
LEMMA OutOfBudgetEffects ==
    ASSUME TypeOK, NEW s \in Stages, OutOfBudget(s)
    PROVE  /\ WritesRow(s, [run.stages[s] EXCEPT !.status = "WAITING", !.gaps = {},
                                                 !.needs = FALSE])
           /\ run'.stages[s].status = "WAITING"
           /\ run'.stages[s].attempts = run.stages[s].attempts
           /\ run'.stages[s].pending = run.stages[s].pending
           /\ run'.status = "WAITING_PLATFORM"
           /\ pc' = [pc EXCEPT ![s] = "done"]
           /\ UNCHANGED <<plan, up, res, expired, aborted, marking, outcome, launched, faults>>
<1> DEFINE v == [run.stages[s] EXCEPT !.status = "WAITING", !.gaps = {}, !.needs = FALSE]
<1>1. /\ v \in Stage /\ v.status = "WAITING" /\ v.attempts = run.stages[s].attempts
      /\ v.pending = run.stages[s].pending
  BY Cells DEF Stage, StageStatus
<1>2. run' = [run EXCEPT !.status = "WAITING_PLATFORM", !.stages[s] = v]
  BY ZenonT(60) DEF OutOfBudget
<1> HIDE DEF v
<1>3. run \in RunRow /\ "WAITING_PLATFORM" \in RunStatus
  BY Cells DEF RunStatus
<1>4. /\ run' \in RunRow /\ run'.status = "WAITING_PLATFORM" /\ run'.stages[s] = v
      /\ \A q \in Stages \ {s} : run'.stages[q] = run.stages[q]
  BY <1>1, <1>2, <1>3, RunUpdate
<1>5. WritesRow(s, v)
  BY <1>1, <1>4 DEF WritesRow
<1> QED
  BY <1>1, <1>4, <1>5 DEF OutOfBudget, v

(* Recording what a child left, or that no child is needed.                *)
RecordsEntry(s, v, st, p) ==
    /\ WritesRow(s, v) /\ run'.status = st
    /\ pc' = [pc EXCEPT ![s] = p]
    /\ UNCHANGED <<plan, up, res, expired, aborted, marking, outcome, launched, faults>>

(* The four ways in which the end of a child, or a recovery not needed,    *)
(* is written to the stage's entry and nowhere else.                       *)
LEMMA RecordEffects ==
    ASSUME TypeOK, NEW s \in Stages
    PROVE  /\ SkipRecovery(s) =>
                RecordsEntry(s, [NoEntry EXCEPT !.status = "COMPLETE"], run.status, "done")
           /\ RecordComplete(s) =>
                RecordsEntry(s, Entry(s, "COMPLETE", {}, TerminalGaps(s),
                                      Kind[s] = "renewal" /\ res[s] = "partial"),
                             run.status, "done")
           /\ RecordFatal(s) => RecordsEntry(s, FailedEntry(s), "FAILED", "done")
           /\ RecordRetry(s) =>
                \E ss \in {"WAITING_RESOURCE", "RETRYING"},
                   rs \in {"WAITING_RESOURCE", "WAITING_PLATFORM"} :
                   RecordsEntry(s, Entry(s, ss, StillPending(s), run.stages[s].gaps, FALSE),
                                rs, "sleep")
<1>0. run \in RunRow /\ run.status \in RunStatus
  BY Cells DEF RunRow
<1>1. ASSUME NEW v \in Stage, NEW st \in RunStatus,
             run' = [run EXCEPT !.status = st, !.stages[s] = v]
      PROVE  WritesRow(s, v) /\ run'.status = st
  BY <1>0, <1>1, RunUpdate DEF WritesRow
<1>2. ASSUME NEW v \in Stage, run' = [run EXCEPT !.stages[s] = v]
      PROVE  WritesRow(s, v) /\ run'.status = run.status
  BY <1>0, <1>2 DEF WritesRow, RunRow
<1>3. Scope(s) \subseteq Stores /\ \A o : Found(s, o) \subseteq Stores
  BY Cells DEF Scope, Found
<1>4. ASSUME NEW ss \in StageStatus, NEW p \in SUBSET Stores, NEW g \in SUBSET Stores,
             NEW n \in BOOLEAN
      PROVE  Entry(s, ss, p, g, n) \in Stage
  BY Cells DEF Entry, Stage
<1>5. ASSUME SkipRecovery(s)
      PROVE  RecordsEntry(s, [NoEntry EXCEPT !.status = "COMPLETE"], run.status, "done")
  <2>0. 0 \in 0..(MaxFaults + 1)
    BY Cells
  <2>1. [NoEntry EXCEPT !.status = "COMPLETE"] \in Stage
    BY <2>0 DEF NoEntry, Stage, StageStatus
  <2> QED
    BY <1>2, <1>5, <2>1 DEF SkipRecovery, RecordsEntry
<1>6. ASSUME RecordComplete(s)
      PROVE  RecordsEntry(s, Entry(s, "COMPLETE", {}, TerminalGaps(s),
                                   Kind[s] = "renewal" /\ res[s] = "partial"),
                          run.status, "done")
  <2>1. TerminalGaps(s) \subseteq Stores
    BY <1>3 DEF TerminalGaps
  <2>2. Entry(s, "COMPLETE", {}, TerminalGaps(s), Kind[s] = "renewal" /\ res[s] = "partial")
          \in Stage
    BY <1>4, <2>1 DEF StageStatus
  <2> QED
    BY <1>2, <1>6, <2>2 DEF RecordComplete, RecordsEntry
<1>7. ASSUME RecordFatal(s) PROVE RecordsEntry(s, FailedEntry(s), "FAILED", "done")
  <2>1. FailedEntry(s) \in Stage /\ "FAILED" \in RunStatus
    BY <1>4 DEF FailedEntry, StageStatus, RunStatus
  <2> QED
    BY <1>1, <1>7, <2>1 DEF RecordFatal, RecordsEntry
<1>8. ASSUME RecordRetry(s)
      PROVE  \E ss \in {"WAITING_RESOURCE", "RETRYING"},
                rs \in {"WAITING_RESOURCE", "WAITING_PLATFORM"} :
                RecordsEntry(s, Entry(s, ss, StillPending(s), run.stages[s].gaps, FALSE),
                             rs, "sleep")
  <2> DEFINE ss == IF res[s] = "deferred" THEN "WAITING_RESOURCE" ELSE "RETRYING"
             rs == IF res[s] = "deferred" THEN "WAITING_RESOURCE" ELSE "WAITING_PLATFORM"
  <2>1. StillPending(s) \subseteq Stores
    BY <1>3, Cells DEF StillPending, RetryStores
  <2>2. ss \in StageStatus /\ rs \in RunStatus
    BY DEF StageStatus, RunStatus
  <2>3. Entry(s, ss, StillPending(s), run.stages[s].gaps, FALSE) \in Stage
    BY <1>4, <2>1, <2>2, Cells
  <2>4. RecordsEntry(s, Entry(s, ss, StillPending(s), run.stages[s].gaps, FALSE), rs, "sleep")
    BY <1>1, <1>8, <2>2, <2>3 DEF RecordRetry, RecordsEntry
  <2> QED
    BY <2>4
<1> QED
  BY <1>5, <1>6, <1>7, <1>8

-----------------------------------------------------------------------------
(* What is concluded from a stage's cells is the same while they are.      *)
SameCells(s) ==
    /\ run'.stages[s] = run.stages[s] /\ res'[s] = res[s] /\ outcome'[s] = outcome[s]

(* They are read from these cells only.                                    *)
LEMMA SameConclusions ==
    ASSUME NEW s \in Stages, SameCells(s)
    PROVE  /\ Scope(s)' = Scope(s) /\ Completes(s)' = Completes(s)
           /\ ResultInv(s)' = ResultInv(s)
<1>1. Scope(s)' = Scope(s)
  BY DEF Scope, SameCells
<1>2. \A o : Found(s, o)' = Found(s, o)
  BY <1>1 DEF Found, SameCells
<1>3. RetryStores(s)' = RetryStores(s)
  BY <1>2 DEF RetryStores, SameCells
<1>4. Completes(s)' = Completes(s)
  BY <1>3 DEF Completes, SameCells
<1> QED
  BY <1>1, <1>4 DEF ResultInv, SameCells

(* A complete stage keeps its row and what its last child found.           *)
KeepsComplete(s) ==
    IsComplete(s) => run'.stages[s] = run.stages[s] /\ outcome'[s] = outcome[s]

(* A stage that a step does not touch.                                     *)
LEMMA UntouchedStage ==
    ASSUME NEW s \in Stages, StageInv(s), SameCells(s), UNCHANGED plan,
           pc'[s] = pc[s] \/ pc'[s] = "idle",
           \A q \in Stages : KeepsComplete(q)
    PROVE  PendingInv(s)' /\ PlaceInv(s)' /\ CompleteInv(s)'
<1>1. PendingInv(s)'
  BY DEF StageInv, PendingInv, SameCells, Seen
<1>2. PlaceInv(s)'
  BY SameConclusions DEF StageInv, PlaceInv, SameCells, IsComplete
<1>3. After[s] # NoStage => After[s] \in Stages
  BY CoordinatorAssumption
<1>4. CompleteInv(s)'
  <2>1. CASE After[s] = NoStage
    BY <2>1 DEF StageInv, CompleteInv, SameCells, IsComplete, AllLoaded, Seen
  <2>2. CASE After[s] # NoStage
    <3>1. KeepsComplete(After[s])
      BY <1>3, <2>2
    <3> QED
      BY <2>2, <3>1 DEF StageInv, CompleteInv, SameCells, IsComplete, AllLoaded, Seen, KeepsComplete
  <2> QED
    BY <2>1, <2>2
<1> QED
  BY <1>1, <1>2, <1>4

(* The faults that are counted never become fewer.                         *)
LEMMA UntouchedCount ==
    ASSUME TypeOK, NEW s \in Stages, CountInv(s), SameCells(s),
           launched'[s] = launched[s], faults' = faults \/ faults' = faults + 1,
           Rested(s)' => Rested(s) \/ IsComplete(s) \/ faults' = faults + 1
    PROVE  CountInv(s)'
<1>1. /\ run.stages[s].attempts \in Nat /\ faults \in Nat
  BY Cells
<1> QED
  BY <1>1 DEF CountInv, SameCells, IsComplete

(* A child's exit: its stage's row is as it was.                           *)
ExitEffect(s) ==
    /\ up /\ pc[s] = "child" /\ pc' = [pc EXCEPT ![s] = "exited"]
    /\ UNCHANGED <<plan, run, up, expired, aborted, marking, launched>>
    /\ res' \in [Stages -> Results] /\ outcome' \in [Stages -> [Stores -> Outcomes]]
    /\ \A q \in Stages \ {s} : res'[q] = res[q] /\ outcome'[q] = outcome[q]
    /\ \A t \in Stores \ Scope(s) : outcome'[s][t] = outcome[s][t]
    /\ faults' = faults \/ Fault

(* Every way in which a child exits: what it found is what it reports, and *)
(* one that is run again has cost a fault.                                 *)
LEMMA ExitEffects ==
    ASSUME TypeOK, NEW s \in Stages, StageInv(s),
           ChildReports(s) \/ ChildUnreadable(s) \/ ChildDeferred(s) \/ ChildFatal(s)
    PROVE  ExitEffect(s) /\ ResultInv(s)' /\ (Completes(s)' \/ faults' = faults + 1)
<1>0. /\ res \in [Stages -> Results] /\ outcome \in [Stages -> [Stores -> Outcomes]]
      /\ outcome[s] \in [Stores -> Outcomes] /\ Scope(s) \subseteq Stores
      /\ Kind[s] \in {"home", "sales", "supply", "renewal", "recovery", "validation"}
  BY Cells, CoordinatorAssumption DEF Scope
<1>1. Scope(s)' = Scope(s) /\ (faults' = faults \/ Fault)
  BY DEF Scope, ChildReports, ChildUnreadable, ChildDeferred, ChildFatal, Exits
<1>2. ASSUME NEW how \in Results, Exits(s, how)
      PROVE  /\ res'[s] = how /\ res' \in [Stages -> Results]
             /\ \A q \in Stages \ {s} : res'[q] = res[q]
             /\ up /\ pc[s] = "child" /\ pc' = [pc EXCEPT ![s] = "exited"]
             /\ UNCHANGED <<plan, run, up, expired, aborted, marking, launched>>
  BY <1>0, <1>2 DEF Exits
<1>3. ASSUME NEW found, \A t \in Scope(s) : found[t] \in Outcomes,
             outcome' = SeenBy(s, found)
      PROVE  /\ outcome' \in [Stages -> [Stores -> Outcomes]]
             /\ \A q \in Stages \ {s} : outcome'[q] = outcome[q]
             /\ \A t \in Scope(s) : outcome'[s][t] = found[t]
             /\ \A t \in Stores \ Scope(s) : outcome'[s][t] = outcome[s][t]
  <2> DEFINE o == [t \in Stores |-> IF t \in Scope(s) THEN found[t] ELSE outcome[s][t]]
  <2>1. o \in [Stores -> Outcomes]
    BY <1>0, <1>3
  <2>2. /\ \A t \in Scope(s) : o[t] = found[t]
        /\ \A t \in Stores \ Scope(s) : o[t] = outcome[s][t]
    BY <1>0
  <2>3. outcome' = [outcome EXCEPT ![s] = o]
    BY <1>3 DEF SeenBy
  <2> HIDE DEF o
  <2> QED
    BY <1>0, <2>1, <2>2, <2>3
<1>4. CASE ChildReports(s)
  <2>1. PICK found \in [Scope(s) -> CanFind(Kind[s])] :
          LET seen == {found[t] : t \in Scope(s)} IN
          /\ Exits(s, IF ExitsOk(Kind[s], seen) THEN "ok" ELSE "partial")
          /\ outcome' = SeenBy(s, found)
          /\ IF "error" \in seen /\ Kind[s] # "renewal" THEN Fault ELSE UNCHANGED faults
    BY <1>4 DEF ChildReports
  <2> DEFINE seen == {found[t] : t \in Scope(s)}
             how == IF ExitsOk(Kind[s], seen) THEN "ok" ELSE "partial"
  <2>2. how \in Results
    BY DEF Results
  <2>3. /\ Exits(s, how) /\ outcome' = SeenBy(s, found)
        /\ "error" \in seen /\ Kind[s] # "renewal" => Fault
    BY <2>1
  <2>4. /\ \A t \in Scope(s) : found[t] \in {"loaded", "gap", "denied", "error"}
        /\ Kind[s] \notin FactKinds =>
              \A t \in Scope(s) : found[t] \in {"loaded", "error"}
        /\ \A t \in Scope(s) : found[t] \in seen
        /\ \A o \in seen : \E t \in Scope(s) : o = found[t]
    BY <1>0, <2>1 DEF CanFind, FactKinds
  <2>5. /\ how = "ok" => "error" \notin seen
        /\ how = "partial" => "error" \in seen \/ Kind[s] \in {"sales", "supply"}
    BY <1>0 DEF ExitsOk
  <2> HIDE DEF seen, how
  <2>6. /\ outcome' \in [Stages -> [Stores -> Outcomes]]
        /\ \A q \in Stages \ {s} : outcome'[q] = outcome[q]
        /\ \A t \in Scope(s) : outcome'[s][t] = found[t]
        /\ \A t \in Stores \ Scope(s) : outcome'[s][t] = outcome[s][t]
    BY <1>3, <2>3, <2>4 DEF Outcomes
  <2>7. ExitEffect(s) /\ res'[s] = how
    BY <1>1, <1>2, <2>2, <2>3, <2>6 DEF ExitEffect
  <2>8. how \in {"ok", "partial"}
    BY DEF how
  <2>9. ResultInv(s)'
    BY <1>1, <2>4, <2>5, <2>6, <2>7, <2>8 DEF ResultInv
  <2>10. CASE "error" \in seen /\ Kind[s] # "renewal"
    BY <2>3, <2>7, <2>9, <2>10 DEF Fault
  <2>11. CASE how = "ok"
    BY <2>7, <2>9, <2>11 DEF Completes
  <2>12. CASE how = "partial" /\ ~("error" \in seen /\ Kind[s] # "renewal")
    <3>1. Kind[s] \in {"renewal", "sales", "supply"}
      BY <2>5, <2>12
    <3>2. Kind[s] # "renewal" => Found(s, "error")' = {}
      BY <1>1, <2>4, <2>6, <2>12 DEF Found
    <3>3. RetryStores(s)' = {}
      BY <2>7, <2>12, <3>1, <3>2 DEF RetryStores
    <3> QED
      BY <2>7, <2>9, <2>12, <3>1, <3>3 DEF Completes
  <2> QED
    BY <2>8, <2>10, <2>11, <2>12
<1>5. CASE ChildUnreadable(s)
  <2> DEFINE found == [t \in Scope(s) |-> "unknown"]
  <2>1. /\ Exits(s, "unreadable") /\ outcome' = SeenBy(s, found) /\ Fault
        /\ Kind[s] \in FactKinds /\ "unreadable" \in Results
    BY <1>5 DEF ChildUnreadable, FactKinds, Results
  <2>2. \A t \in Scope(s) : found[t] = "unknown"
    OBVIOUS
  <2> HIDE DEF found
  <2>3. /\ outcome' \in [Stages -> [Stores -> Outcomes]]
        /\ \A q \in Stages \ {s} : outcome'[q] = outcome[q]
        /\ \A t \in Scope(s) : outcome'[s][t] = "unknown"
        /\ \A t \in Stores \ Scope(s) : outcome'[s][t] = outcome[s][t]
    BY <1>3, <2>1, <2>2 DEF Outcomes
  <2>4. ExitEffect(s) /\ res'[s] = "unreadable"
    BY <1>1, <1>2, <2>1, <2>3 DEF ExitEffect
  <2> QED
    BY <1>1, <2>1, <2>3, <2>4 DEF ResultInv, Fault
<1>6. CASE ChildDeferred(s)
  <2>1. Exits(s, "deferred") /\ Fault /\ UNCHANGED outcome /\ "deferred" \in Results
    BY <1>6 DEF ChildDeferred, Results
  <2>2. ExitEffect(s) /\ res'[s] = "deferred"
    BY <1>0, <1>1, <1>2, <2>1 DEF ExitEffect
  <2> QED
    BY <2>1, <2>2 DEF ResultInv, Fault
<1>7. CASE ChildFatal(s)
  <2> DEFINE found == [t \in Scope(s) |-> "error"]
  <2>1. /\ Exits(s, "fatal") /\ outcome' = SeenBy(s, found) /\ Fault
        /\ "fatal" \in Results
    BY <1>7 DEF ChildFatal, Results
  <2>2. \A t \in Scope(s) : found[t] = "error"
    OBVIOUS
  <2> HIDE DEF found
  <2>3. /\ outcome' \in [Stages -> [Stores -> Outcomes]]
        /\ \A q \in Stages \ {s} : outcome'[q] = outcome[q]
        /\ \A t \in Stores \ Scope(s) : outcome'[s][t] = outcome[s][t]
    BY <1>3, <2>1, <2>2 DEF Outcomes
  <2>4. ExitEffect(s) /\ res'[s] = "fatal"
    BY <1>1, <1>2, <2>1, <2>3 DEF ExitEffect
  <2> QED
    BY <2>1, <2>4 DEF ResultInv, Fault
<1> QED
  BY <1>4, <1>5, <1>6, <1>7

-----------------------------------------------------------------------------
(* A stage that completes has seen every store to an end.                  *)
LEMMA CompletionCovers ==
    ASSUME TypeOK, NEW s \in Stages, StageInv(s), pc[s] = "exited", Completes(s)
    PROVE  /\ Kind[s] \in FactKinds => \A t \in Stores : Seen(s, t)
           /\ Kind[s] = "renewal" /\ res[s] # "partial" => AllLoaded(s)
           /\ Kind[s] = "recovery" => AllLoaded(s)
<1>1. /\ ResultInv(s) /\ PendingInv(s)
      /\ res[s] \in {"ok", "partial", "unreadable"}
      /\ res[s] = "unreadable" => Kind[s] \in FactKinds \ {"sales"}
      /\ res[s] \in {"partial", "unreadable"} =>
            Kind[s] \notin {"recovery", "validation"} /\ RetryStores(s) = {}
  BY DEF StageInv, PlaceInv, ResultInv, Completes, FactKinds
<1>2. \A t \in Stores : t \notin Scope(s) => Seen(s, t)
  BY <1>1 DEF PendingInv, Scope
<1>3. ASSUME NEW t \in Scope(s), Kind[s] \in FactKinds PROVE Seen(s, t)
  <2>1. CASE res[s] = "ok"
    BY <1>1, <2>1 DEF ResultInv, Seen
  <2>2. CASE res[s] = "partial"
    <3>1. Found(s, "error") = {}
      BY <1>1, <1>3, <2>2 DEF RetryStores, FactKinds
    <3> QED
      BY <1>1, <2>2, <3>1 DEF ResultInv, Seen, Found
  <2>3. CASE res[s] = "unreadable"
    BY <1>1, <2>3 DEF ResultInv, Seen
  <2> QED
    BY <1>1, <2>1, <2>2, <2>3
<1>4. Kind[s] \in {"renewal", "recovery"} => Scope(s) = Stores
  BY <1>1 DEF PendingInv, Scope, FactKinds
<1>5. Kind[s] \in {"renewal", "recovery"} /\ res[s] = "ok" => AllLoaded(s)
  BY <1>1, <1>4 DEF ResultInv, AllLoaded, FactKinds
<1> QED
  BY <1>1, <1>2, <1>3, <1>5 DEF FactKinds

(* What stays pending is all that was not seen to an end.                  *)
LEMMA PendingIsRest ==
    ASSUME TypeOK, NEW s \in Stages, StageInv(s), pc[s] = "exited"
    PROVE  /\ Kind[s] \notin FactKinds => StillPending(s) = {}
           /\ StillPending(s) # {} => \A t \in Stores \ StillPending(s) : Seen(s, t)
<1>1. /\ ResultInv(s) /\ PendingInv(s)
  BY DEF StageInv, PlaceInv
<1>2. CASE ~(res[s] = "partial" /\ RetryStores(s) # {})
  BY <1>1, <1>2 DEF PendingInv, StillPending
<1>3. CASE res[s] = "partial" /\ RetryStores(s) # {}
  <2>1. StillPending(s) = RetryStores(s) /\ Found(s, "error") \subseteq RetryStores(s)
        /\ Kind[s] \in FactKinds
    BY <1>3 DEF StillPending, RetryStores, FactKinds
  <2>2. ASSUME NEW t \in Stores \ RetryStores(s) PROVE Seen(s, t)
    <3>1. CASE t \in Scope(s)
      BY <1>1, <1>3, <2>1, <3>1 DEF ResultInv, Seen, Found
    <3>2. CASE t \notin Scope(s)
      BY <1>1, <3>2 DEF PendingInv, Scope
    <3> QED
      BY <3>1, <3>2
  <2> QED
    BY <2>1, <2>2
<1> QED
  BY <1>2, <1>3

(* What a step of stage s does to the other stages.                        *)
LEMMA StageStepsAlone ==
    ASSUME TypeOK, NEW s \in Stages, StageInv(s), StageStep(s) \/ ChildSignalled(s)
    PROVE  /\ OnlyStage(s) /\ UNCHANGED marking /\ (faults' = faults \/ faults' = faults + 1)
           /\ run' \in RunRow /\ KeepsComplete(s) /\ (IsComplete(s) => run' = run)
           /\ run'.status \in {"READY_TO_PUBLISH", "PUBLISHED"} => run'.status = run.status
<1>0. /\ run \in RunRow /\ pc \in [Stages -> Pcs] /\ res \in [Stages -> Results]
      /\ launched \in [Stages -> 0..(MaxFaults + 1)]
  BY Cells
<1> USE DEF OnlyStage, KeepsComplete
<1>1. CASE SkipComplete(s)
  BY <1>0, <1>1 DEF SkipComplete
<1>2. CASE Launch(s)
  BY <1>0, <1>2, LaunchEffects, HeadFacts DEF WritesRow, Launch
<1>3. CASE OutOfBudget(s)
  BY <1>0, <1>3, OutOfBudgetEffects, HeadFacts DEF WritesRow, OutOfBudget
<1>4. CASE ChildReports(s) \/ ChildUnreadable(s) \/ ChildDeferred(s) \/ ChildFatal(s)
  BY <1>0, <1>4, ExitEffects DEF ExitEffect, Fault, StageInv, PlaceInv
<1>5. CASE SkipRecovery(s) \/ RecordComplete(s) \/ RecordFatal(s) \/ RecordRetry(s)
  <2>1. ~IsComplete(s)
    BY <1>5 DEF SkipRecovery, RecordComplete, RecordFatal, RecordRetry, IsComplete,
       StageInv, PlaceInv
  <2>2. ASSUME NEW v, NEW st, NEW p, RecordsEntry(s, v, st, p),
               st \in {"READY_TO_PUBLISH", "PUBLISHED"} => st = run.status
        PROVE  /\ OnlyStage(s) /\ UNCHANGED marking /\ faults' = faults
               /\ run' \in RunRow
               /\ run'.status \in {"READY_TO_PUBLISH", "PUBLISHED"} => run'.status = run.status
    BY <1>0, <2>2 DEF RecordsEntry, WritesRow
  <2>3. CASE SkipRecovery(s)
    BY <2>1, <2>2, <2>3, RecordEffects
  <2>4. CASE RecordComplete(s)
    BY <2>1, <2>2, <2>4, RecordEffects
  <2>5. CASE RecordFatal(s)
    <3>1. RecordsEntry(s, FailedEntry(s), "FAILED", "done")
      BY <2>5, RecordEffects
    <3> QED
      BY <2>1, <2>2, <3>1
  <2>6. CASE RecordRetry(s)
    <3>1. PICK ss \in {"WAITING_RESOURCE", "RETRYING"},
               rs \in {"WAITING_RESOURCE", "WAITING_PLATFORM"} :
            RecordsEntry(s, Entry(s, ss, StillPending(s), run.stages[s].gaps, FALSE), rs, "sleep")
      BY <2>6, RecordEffects
    <3> QED
      BY <2>1, <2>2, <3>1
  <2> QED
    BY <1>5, <2>3, <2>4, <2>5, <2>6
<1>6. CASE ChildSignalled(s)
  BY <1>0, <1>6 DEF ChildSignalled, Fault
<1> QED
  BY <1>1, <1>2, <1>3, <1>4, <1>5, <1>6 DEF StageStep

(* A step of a stage keeps its own invariant.                              *)
LEMMA OwnStage ==
    ASSUME TypeOK, \A q \in Stages : StageInv(q), NEW s \in Stages,
           StageStep(s) \/ ChildSignalled(s)
    PROVE  StageInv(s)'
<1>0. /\ StageInv(s) /\ CountInv(s) /\ PendingInv(s) /\ PlaceInv(s) /\ CompleteInv(s)
      /\ pc \in [Stages -> Pcs] /\ launched \in [Stages -> 0..(MaxFaults + 1)]
      /\ run.stages[s].attempts \in Nat /\ faults \in Nat
  BY Cells DEF StageInv
<1>1. /\ OnlyStage(s) /\ KeepsComplete(s) /\ (faults' = faults \/ faults' = faults + 1)
  BY <1>0, StageStepsAlone
<1>2. \A q \in Stages : KeepsComplete(q)
  BY <1>1 DEF OnlyStage, KeepsComplete
<1>3. CASE SkipComplete(s)
  <2>1. /\ UNCHANGED <<plan, run, up, res, outcome, launched, faults>> /\ s \in plan
        /\ pc'[s] = "done" /\ IsComplete(s)
    BY <1>0, <1>3 DEF SkipComplete, Runnable, IsComplete
  <2>2. CountInv(s)'
    BY <1>0, <2>1 DEF CountInv, IsComplete
  <2>3. PendingInv(s)' /\ PlaceInv(s)' /\ CompleteInv(s)'
    BY <1>0, <2>1 DEF PendingInv, PlaceInv, CompleteInv, IsComplete, Seen, AllLoaded
  <2> QED
    BY <2>2, <2>3 DEF StageInv
<1>4. CASE SkipRecovery(s)
  <2> DEFINE v == [NoEntry EXCEPT !.status = "COMPLETE"]
             a == After[s]
  <2>1. /\ WritesRow(s, v) /\ pc' = [pc EXCEPT ![s] = "done"] /\ s \in plan
        /\ UNCHANGED <<plan, up, res, outcome, launched, faults>>
    BY <1>4, RecordEffects DEF RecordsEntry, SkipRecovery, Runnable
  <2>2. /\ run'.stages[s].status = "COMPLETE" /\ run'.stages[s].attempts = 0
        /\ run'.stages[s].pending = {} /\ pc'[s] = "done"
    BY <1>0, <2>1 DEF WritesRow, NoEntry
  <2>3. /\ a \in Stages \ {s} /\ Kind[s] = "recovery" /\ Kind[a] = "renewal"
        /\ IsComplete(a) /\ ~run.stages[a].needs
    BY <1>4, CoordinatorAssumption DEF SkipRecovery, NotNeeded, Runnable, IsComplete
  <2>4. AllLoaded(a)' /\ IsComplete(a)'
    BY <2>1, <2>3 DEF StageInv, CompleteInv, AllLoaded, IsComplete, WritesRow
  <2>5. CountInv(s)'
    BY <1>0, <2>1, <2>2 DEF CountInv, IsComplete
  <2>6. PendingInv(s)' /\ PlaceInv(s)'
    BY <2>1, <2>2 DEF PendingInv, PlaceInv
  <2>7. CompleteInv(s)'
    BY <2>3, <2>4 DEF CompleteInv, FactKinds
  <2> QED
    BY <2>5, <2>6, <2>7 DEF StageInv
<1>5. CASE Launch(s)
  <2>1. /\ run'.stages[s].status = "RUNNING" /\ pc'[s] = "child" /\ s \in plan /\ up
        /\ run'.stages[s].attempts = run.stages[s].attempts + 1
        /\ run'.stages[s].pending = run.stages[s].pending
        /\ launched'[s] = run.stages[s].attempts + 1
        /\ UNCHANGED <<plan, up, outcome, faults>>
        /\ run.stages[s].attempts <= faults
    BY <1>0, <1>5, LaunchEffects, HeadFacts DEF Launch
  <2>2. CountInv(s)'
    BY <1>0, <2>1 DEF CountInv, IsComplete, Rested
  <2>3. PendingInv(s)' /\ PlaceInv(s)' /\ CompleteInv(s)'
    BY <1>0, <2>1 DEF PendingInv, PlaceInv, CompleteInv, IsComplete, Seen
  <2> QED
    BY <2>2, <2>3 DEF StageInv
<1>6. CASE OutOfBudget(s)
  <2>1. /\ run'.stages[s].status = "WAITING" /\ pc'[s] = "done" /\ s \in plan
        /\ run'.stages[s].attempts = run.stages[s].attempts
        /\ run'.stages[s].pending = run.stages[s].pending
        /\ UNCHANGED <<plan, up, outcome, launched, faults>>
        /\ run.stages[s].attempts <= faults /\ ~IsComplete(s)
    BY <1>0, <1>6, OutOfBudgetEffects, HeadFacts DEF OutOfBudget
  <2>2. CountInv(s)'
    BY <1>0, <2>1 DEF CountInv, IsComplete
  <2>3. PendingInv(s)' /\ PlaceInv(s)' /\ CompleteInv(s)'
    BY <1>0, <2>1 DEF PendingInv, PlaceInv, CompleteInv, IsComplete, Seen
  <2> QED
    BY <2>2, <2>3 DEF StageInv
<1>7. CASE ChildReports(s) \/ ChildUnreadable(s) \/ ChildDeferred(s) \/ ChildFatal(s)
  <2>1. ExitEffect(s) /\ ResultInv(s)' /\ (Completes(s)' \/ faults' = faults + 1)
    BY <1>0, <1>7, ExitEffects
  <2>2. /\ pc'[s] = "exited" /\ UNCHANGED <<plan, run, up, launched>> /\ ~IsComplete(s)
        /\ s \in plan
    BY <1>0, <2>1 DEF ExitEffect, PlaceInv
  <2>3. CountInv(s)'
    BY <1>0, <1>1, <2>1, <2>2 DEF CountInv, IsComplete, Rested, ExitEffect
  <2>4. PendingInv(s)'
    BY <1>0, <2>1, <2>2 DEF PendingInv, ExitEffect, Scope, Seen
  <2>5. PlaceInv(s)' /\ CompleteInv(s)'
    BY <2>1, <2>2 DEF PlaceInv, CompleteInv, IsComplete
  <2> QED
    BY <2>3, <2>4, <2>5 DEF StageInv
<1>8. CASE RecordComplete(s)
  <2> DEFINE v == Entry(s, "COMPLETE", {}, TerminalGaps(s),
                        Kind[s] = "renewal" /\ res[s] = "partial")
  <2>1. RecordsEntry(s, v, run.status, "done")
    BY <1>8, RecordEffects
  <2>2. /\ run'.stages[s].status = "COMPLETE" /\ pc'[s] = "done"
        /\ run'.stages[s].attempts = run.stages[s].attempts
        /\ run'.stages[s].pending = {}
        /\ run'.stages[s].needs = (Kind[s] = "renewal" /\ res[s] = "partial")
        /\ UNCHANGED <<plan, outcome, faults>>
    BY <1>0, <2>1 DEF RecordsEntry, WritesRow, Entry
  <2>3. pc[s] = "exited" /\ Completes(s) /\ s \in plan
    BY <1>0, <1>8 DEF RecordComplete, PlaceInv
  <2>4. CountInv(s)'
    BY <1>0, <2>2 DEF CountInv, IsComplete
  <2>5. PendingInv(s)' /\ PlaceInv(s)'
    BY <2>2, <2>3 DEF PendingInv, PlaceInv
  <2>6. CompleteInv(s)'
    BY <1>0, <2>2, <2>3, CompletionCovers, CoordinatorAssumption
    DEF CompleteInv, Seen, AllLoaded
  <2> QED
    BY <2>4, <2>5, <2>6 DEF StageInv
<1>9. CASE RecordFatal(s) \/ RecordRetry(s)
  <2>1. pc[s] = "exited" /\ ~Completes(s) /\ ~IsComplete(s) /\ s \in plan
    BY <1>0, <1>9 DEF RecordFatal, RecordRetry, PlaceInv, Fatal, Completes
  <2>2. ASSUME NEW ss \in {"FAILED", "WAITING_RESOURCE", "RETRYING"},
               NEW p \in {{}, StillPending(s)}, NEW g, NEW n, NEW st, NEW q \in {"done", "sleep"},
               RecordsEntry(s, Entry(s, ss, p, g, n), st, q)
        PROVE  StageInv(s)'
    <3>1. /\ run'.stages[s].status = ss /\ pc'[s] = q
          /\ run'.stages[s].attempts = run.stages[s].attempts
          /\ run'.stages[s].pending = p
          /\ UNCHANGED <<plan, outcome, launched, faults>>
      BY <1>0, <2>2 DEF RecordsEntry, WritesRow, Entry
    <3>2. CountInv(s)'
      BY <1>0, <2>1, <3>1 DEF CountInv, IsComplete, Rested
    <3>3. PendingInv(s)'
      BY <1>0, <2>1, <3>1, PendingIsRest DEF PendingInv, Seen
    <3>4. PlaceInv(s)' /\ CompleteInv(s)'
      BY <2>1, <3>1 DEF PlaceInv, CompleteInv, IsComplete
    <3> QED
      BY <3>2, <3>3, <3>4 DEF StageInv
  <2>3. CASE RecordFatal(s)
    <3>1. RecordsEntry(s, Entry(s, "FAILED", {}, {}, FALSE), "FAILED", "done")
      BY <2>3, RecordEffects DEF FailedEntry
    <3> QED
      BY <2>2, <3>1
  <2>4. CASE RecordRetry(s)
    <3>1. PICK ss \in {"WAITING_RESOURCE", "RETRYING"},
               rs \in {"WAITING_RESOURCE", "WAITING_PLATFORM"} :
            RecordsEntry(s, Entry(s, ss, StillPending(s), run.stages[s].gaps, FALSE), rs, "sleep")
      BY <2>4, RecordEffects
    <3> QED
      BY <2>2, <3>1
  <2> QED
    BY <1>9, <2>3, <2>4
<1>10. CASE ChildSignalled(s)
  <2>1. /\ pc'[s] = "thrown" /\ faults' = faults + 1 /\ s \in plan /\ ~IsComplete(s)
        /\ UNCHANGED <<plan, run, up, outcome, launched>>
    BY <1>0, <1>10 DEF ChildSignalled, Fault, PlaceInv
  <2>2. CountInv(s)'
    BY <1>0, <2>1 DEF CountInv, IsComplete
  <2>3. PendingInv(s)' /\ PlaceInv(s)' /\ CompleteInv(s)'
    BY <1>0, <2>1 DEF PendingInv, PlaceInv, CompleteInv, IsComplete, Seen
  <2> QED
    BY <2>2, <2>3 DEF StageInv
<1> QED
  BY <1>3, <1>4, <1>5, <1>6, <1>7, <1>8, <1>9, <1>10 DEF StageStep

-----------------------------------------------------------------------------
(* Steps of a stage keep the types: attempts are within the faults.        *)
LEMMA StageType ==
    ASSUME TypeOK, NEW s \in Stages, StageInv(s), StageStep(s) \/ ChildSignalled(s)
    PROVE  TypeOK'
<1>0. /\ run \in RunRow /\ pc \in [Stages -> Pcs] /\ res \in [Stages -> Results]
      /\ outcome \in [Stages -> [Stores -> Outcomes]]
      /\ launched \in [Stages -> 0..(MaxFaults + 1)]
      /\ faults \in 0..MaxFaults /\ MaxFaults \in Nat /\ plan \in Plans
      /\ up \in BOOLEAN /\ expired \in BOOLEAN /\ aborted \in BOOLEAN /\ marking \in BOOLEAN
  BY Cells DEF TypeOK, RunType, ProcType
<1>1. run' \in RunRow /\ UNCHANGED <<plan, up, marking>>
  BY StageStepsAlone DEF OnlyStage
<1>2. ASSUME NEW p \in Pcs, pc' = [pc EXCEPT ![s] = p] PROVE pc' \in [Stages -> Pcs]
  BY <1>0, <1>2
<1>3. ASSUME pc' \in [Stages -> Pcs], res' \in [Stages -> Results],
             outcome' \in [Stages -> [Stores -> Outcomes]],
             launched' \in [Stages -> 0..(MaxFaults + 1)], faults' \in 0..MaxFaults,
             expired' \in BOOLEAN, aborted' \in BOOLEAN
      PROVE  TypeOK'
  BY <1>0, <1>1, <1>3 DEF TypeOK, RunType, ProcType, GhostType, RunRow
<1>4. CASE SkipComplete(s) \/ OutOfBudget(s)
  <2>1. "done" \in Pcs
    BY DEF Pcs
  <2> QED
    BY <1>0, <1>2, <1>3, <1>4, <2>1 DEF SkipComplete, OutOfBudget
<1>5. CASE Launch(s)
  <2>1. "child" \in Pcs
    BY DEF Pcs
  <2>2. AtLoopHead(s)
    BY <1>5 DEF Launch
  <2>3. /\ pc' = [pc EXCEPT ![s] = "child"]
        /\ launched' = [launched EXCEPT ![s] = run.stages[s].attempts + 1]
        /\ UNCHANGED <<res, expired, aborted, outcome, faults>>
    BY <1>5 DEF Launch
  <2>4. run.stages[s].attempts <= faults /\ run.stages[s].attempts \in Nat
    BY <2>2, HeadFacts, Cells
  <2>5. run.stages[s].attempts + 1 \in 0..(MaxFaults + 1)
    BY <1>0, <2>4
  <2>6. launched' \in [Stages -> 0..(MaxFaults + 1)]
    BY <1>0, <2>3, <2>5
  <2> QED
    BY <1>0, <1>2, <1>3, <2>1, <2>3, <2>6
<1>6. CASE ChildReports(s) \/ ChildUnreadable(s) \/ ChildDeferred(s) \/ ChildFatal(s)
  <2>1. ExitEffect(s) /\ "exited" \in Pcs
    BY <1>6, ExitEffects DEF Pcs
  <2>2. faults' \in 0..MaxFaults
    BY <1>0, <2>1 DEF ExitEffect, Fault
  <2>3. pc' \in [Stages -> Pcs]
    BY <1>2, <2>1 DEF ExitEffect
  <2> QED
    BY <1>0, <1>3, <2>1, <2>2, <2>3 DEF ExitEffect
<1>7. CASE SkipRecovery(s) \/ RecordComplete(s) \/ RecordFatal(s) \/ RecordRetry(s)
  <2>1. /\ \E p \in {"done", "sleep"} : pc' = [pc EXCEPT ![s] = p]
        /\ UNCHANGED <<res, expired, aborted, outcome, launched, faults>>
    BY <1>7 DEF SkipRecovery, RecordComplete, RecordFatal, RecordRetry
  <2>2. pc' \in [Stages -> Pcs]
    BY <1>2, <2>1 DEF Pcs
  <2> QED
    BY <1>0, <1>3, <2>1, <2>2
<1>8. CASE ChildSignalled(s)
  <2>1. /\ "thrown" \in Pcs /\ pc' = [pc EXCEPT ![s] = "thrown"] /\ aborted' \in BOOLEAN
        /\ UNCHANGED <<res, expired, outcome, launched>> /\ Fault
    BY <1>8 DEF ChildSignalled, Pcs
  <2>2. faults' \in 0..MaxFaults
    BY <1>0, <2>1 DEF Fault
  <2> QED
    BY <1>0, <1>2, <1>3, <2>1, <2>2
<1> QED
  BY <1>4, <1>5, <1>6, <1>7, <1>8 DEF StageStep

(* The status of the run, as the coordinator and the publisher write it.   *)
LEMMA StatusUpdate ==
    ASSUME run \in RunRow, NEW st \in RunStatus, run' = [run EXCEPT !.status = st]
    PROVE  run' \in RunRow /\ run'.status = st /\ run'.stages = run.stages
BY DEF RunRow

(* What the steps of the whole run leave alone: every stage's row and what *)
(* its children found.                                                     *)
LEMMA WholeRunSteps ==
    ASSUME TypeOK, Progress \/ Crash \/ Deadline
    PROVE  /\ run' \in RunRow /\ run'.stages = run.stages
           /\ UNCHANGED <<plan, outcome, launched>>
           /\ TypeOK'
<1>0. /\ run \in RunRow /\ run.status \in RunStatus /\ plan \in Plans
      /\ pc \in [Stages -> Pcs] /\ res \in [Stages -> Results]
      /\ up \in BOOLEAN /\ expired \in BOOLEAN /\ aborted \in BOOLEAN /\ marking \in BOOLEAN
      /\ GhostType /\ faults \in 0..MaxFaults /\ MaxFaults \in Nat
  BY CoordinatorAssumption DEF TypeOK, RunType, ProcType, GhostType, RunRow
<1>1. UNCHANGED <<plan, outcome, launched>>
  BY DEF Progress, Activate, Finish, EndsAborted, Crash, Deadline, ReadReady, WritePublished
<1>2. run' = run \/ \E st \in RunStatus : run' = [run EXCEPT !.status = st]
  <2>1. CASE Activate \/ WritePublished
    BY <2>1 DEF Activate, WritePublished, RunStatus
  <2>2. CASE Finish
    <3> DEFINE st == IF ReadyToPublish THEN "READY_TO_PUBLISH"
                     ELSE IF run.status = "RUNNING" THEN "WAITING_PLATFORM" ELSE run.status
    <3>1. run' = [run EXCEPT !.status = st]
      BY <2>2 DEF Finish
    <3>2. st \in RunStatus
      BY <1>0 DEF RunStatus
    <3> QED
      BY <3>1, <3>2
  <2>3. CASE EndsAborted \/ Crash \/ Deadline \/ ReadReady
    BY <2>3 DEF EndsAborted, Crash, Deadline, ReadReady
  <2> QED
    BY <2>1, <2>2, <2>3 DEF Progress
<1>3. run' \in RunRow /\ run'.stages = run.stages
  BY <1>0, <1>2, StatusUpdate
<1>4. faults' \in 0..MaxFaults
  BY <1>0 DEF Progress, Activate, Finish, EndsAborted, Crash, Deadline, ReadReady,
      WritePublished, Fault
<1>5. pc' \in [Stages -> Pcs] /\ res' \in [Stages -> Results]
  BY <1>0 DEF Progress, Activate, Finish, EndsAborted, Crash, Deadline, ReadReady,
      WritePublished, Pcs, Results
<1>6. up' \in BOOLEAN /\ expired' \in BOOLEAN /\ aborted' \in BOOLEAN /\ marking' \in BOOLEAN
  BY <1>0 DEF Progress, Activate, Finish, EndsAborted, Crash, Deadline, ReadReady,
      WritePublished, FreshBudget
<1> QED
  BY <1>0, <1>1, <1>3, <1>4, <1>5, <1>6 DEF TypeOK, RunType, ProcType, GhostType, RunRow

(* An activation, its end or its death, and the publication keep what is   *)
(* known of every stage: an activation that ends has no child, and one     *)
(* that dies with children has cost a fault.                               *)
LEMMA WholeRunKeepsStages ==
    ASSUME TypeOK, \A q \in Stages : StageInv(q), Progress \/ Crash \/ Deadline,
           NEW s \in Stages
    PROVE  StageInv(s)'
<1>0. /\ run'.stages = run.stages /\ UNCHANGED <<plan, outcome, launched>>
      /\ StageInv(s) /\ CountInv(s) /\ PendingInv(s) /\ PlaceInv(s) /\ CompleteInv(s)
      /\ faults \in Nat
  BY WholeRunSteps, Cells DEF StageInv
<1>1. PendingInv(s)' /\ CompleteInv(s)'
  BY <1>0 DEF PendingInv, CompleteInv, IsComplete, Seen, AllLoaded
<1>2. CASE Activate
  <2>1. /\ pc'[s] = "idle" /\ ~up /\ (faults' = faults \/ faults' = faults + 1)
    BY <1>2 DEF Activate, Fault
  <2>2. PlaceInv(s)'
    BY <1>0, <2>1 DEF PlaceInv
  <2>3. CountInv(s)'
    BY <1>0, <2>1, Cells DEF CountInv, IsComplete, Rested
  <2> QED
    BY <1>1, <2>2, <2>3 DEF StageInv
<1>3. CASE ~Activate
  <2>1. UNCHANGED <<pc, res>> /\ (faults' = faults \/ faults' = faults + 1)
    BY <1>3 DEF Progress, Finish, EndsAborted, Crash, Deadline, ReadReady, WritePublished, Fault
  <2>2. SameCells(s)
    BY <1>0, <2>1 DEF SameCells
  <2>3. PlaceInv(s)'
    BY <1>0, <2>1, <2>2, SameConclusions DEF PlaceInv, IsComplete
  <2>4. Rested(s)' => Rested(s) \/ IsComplete(s) \/ faults' = faults + 1
    <3>1. CASE Finish \/ EndsAborted
      BY <1>0, <3>1 DEF Finish, EndsAborted, Quiet, Rested, PlaceInv
    <3>2. CASE Crash
      BY <3>2 DEF Crash, Fault
    <3>3. CASE Deadline \/ ReadReady \/ WritePublished
      BY <2>1, <2>2, <3>3, SameConclusions DEF Deadline, ReadReady, WritePublished, Rested
    <3> QED
      BY <1>3, <3>1, <3>2, <3>3 DEF Progress
  <2>5. CountInv(s)'
    BY <1>0, <2>1, <2>2, <2>4, UntouchedCount
  <2> QED
    BY <1>1, <2>3, <2>5 DEF StageInv
<1> QED
  BY <1>2, <1>3

(* The run is ready, or about to be published, only with its plan          *)
(* complete, and stays complete.                                           *)
LEMMA ReadyStep ==
    ASSUME CoordinatorInv, [Next]_vars PROVE ReadyInv' /\ \A s \in Stages : KeepsComplete(s)
<1>0. TypeOK /\ ReadyInv /\ (\A s \in Stages : StageInv(s))
      /\ plan \subseteq Stages /\ run \in RunRow
  BY CoordinatorAssumption DEF CoordinatorInv, TypeOK, RunType, RunRow
<1>1. ASSUME NEW s \in Stages, StageStep(s) \/ ChildSignalled(s)
      PROVE  ReadyInv' /\ \A q \in Stages : KeepsComplete(q)
  <2>1. /\ OnlyStage(s) /\ UNCHANGED marking /\ KeepsComplete(s)
        /\ run'.status \in {"READY_TO_PUBLISH", "PUBLISHED"} => run'.status = run.status
    BY <1>0, <1>1, StageStepsAlone
  <2>2. \A q \in Stages : KeepsComplete(q)
    BY <2>1 DEF OnlyStage, KeepsComplete
  <2>3. AllComplete => AllComplete'
    BY <1>0, <2>1, <2>2 DEF AllComplete, KeepsComplete, IsComplete, OnlyStage
  <2> QED
    BY <1>0, <2>1, <2>2, <2>3 DEF ReadyInv
<1>2. CASE Progress \/ Crash \/ Deadline
  <2>1. run'.stages = run.stages /\ UNCHANGED <<plan, outcome>>
    BY <1>0, <1>2, WholeRunSteps
  <2>2. /\ \A q \in Stages : KeepsComplete(q)
        /\ AllComplete' = AllComplete
    BY <2>1 DEF KeepsComplete, AllComplete
  <2>3. CASE Activate
    <3>1. run' = [run EXCEPT !.status = "RUNNING"] /\ UNCHANGED marking
      BY <2>3 DEF Activate
    <3>2. run'.status = "RUNNING"
      BY <1>0, <3>1, StatusUpdate DEF RunStatus
    <3> QED
      BY <1>0, <2>2, <3>1, <3>2 DEF ReadyInv
  <2>4. CASE Finish
    <3> DEFINE st == IF ReadyToPublish THEN "READY_TO_PUBLISH"
                     ELSE IF run.status = "RUNNING" THEN "WAITING_PLATFORM" ELSE run.status
    <3>1. run' = [run EXCEPT !.status = st] /\ UNCHANGED marking
      BY <2>4 DEF Finish
    <3>2. st \in RunStatus
      BY <1>0 DEF RunStatus, RunRow
    <3>3. st \in {"READY_TO_PUBLISH", "PUBLISHED"} => AllComplete
      BY <1>0 DEF ReadyToPublish, ReadyInv
    <3> HIDE DEF st
    <3>4. run'.status = st
      BY <1>0, <3>1, <3>2, StatusUpdate
    <3> QED
      BY <1>0, <2>2, <3>1, <3>3, <3>4 DEF ReadyInv
  <2>5. CASE EndsAborted \/ Crash \/ Deadline \/ ReadReady
    BY <1>0, <2>2, <2>5 DEF EndsAborted, Crash, Deadline, ReadReady, ReadyInv
  <2>6. CASE WritePublished
    BY <1>0, <2>2, <2>6 DEF WritePublished, ReadyInv
  <2> QED
    BY <1>2, <2>2, <2>3, <2>4, <2>5, <2>6 DEF Progress
<1>3. CASE UNCHANGED vars
  BY <1>0, <1>3 DEF vars, ReadyInv, AllComplete, KeepsComplete
<1> QED
  BY <1>1, <1>2, <1>3 DEF Next

(* Every step keeps the invariant.                                         *)
LEMMA InvStep == CoordinatorInv /\ [Next]_vars => CoordinatorInv'
<1> SUFFICES ASSUME CoordinatorInv, [Next]_vars PROVE CoordinatorInv'
  OBVIOUS
<1>0. TypeOK /\ ReadyInv /\ \A s \in Stages : StageInv(s)
  BY DEF CoordinatorInv
<1>1. ReadyInv' /\ \A s \in Stages : KeepsComplete(s)
  BY ReadyStep
<1>2. ASSUME NEW s \in Stages, StageStep(s) \/ ChildSignalled(s) PROVE CoordinatorInv'
  <2>1. TypeOK' /\ StageInv(s)'
    BY <1>0, <1>2, StageType, OwnStage
  <2>2. OnlyStage(s) /\ (faults' = faults \/ faults' = faults + 1)
    BY <1>0, <1>2, StageStepsAlone
  <2>3. ASSUME NEW q \in Stages \ {s} PROVE StageInv(q)'
    <3>1. /\ SameCells(q) /\ UNCHANGED <<plan, up>> /\ pc'[q] = pc[q]
          /\ launched'[q] = launched[q]
      BY <2>2 DEF OnlyStage, SameCells
    <3>2. PendingInv(q)' /\ PlaceInv(q)' /\ CompleteInv(q)'
      BY <1>0, <1>1, <3>1, UntouchedStage
    <3>3. Rested(q)' = Rested(q)
      BY <3>1, SameConclusions DEF Rested
    <3>4. CountInv(q)'
      BY <1>0, <2>2, <3>1, <3>3, UntouchedCount DEF StageInv
    <3> QED
      BY <3>2, <3>4 DEF StageInv
  <2> QED
    BY <1>1, <2>1, <2>3 DEF CoordinatorInv
<1>3. CASE Progress \/ Crash \/ Deadline
  BY <1>0, <1>1, <1>3, WholeRunSteps, WholeRunKeepsStages DEF CoordinatorInv
<1>4. CASE UNCHANGED vars
  <2>1. TypeOK'
    BY <1>0, <1>4 DEF vars, TypeOK, RunType, ProcType, GhostType
  <2>2. ASSUME NEW s \in Stages PROVE StageInv(s)'
    <3>1. SameCells(s) /\ UNCHANGED <<plan, up, pc, launched, faults>>
      BY <1>4 DEF vars, SameCells
    <3>2. PendingInv(s)' /\ PlaceInv(s)' /\ CompleteInv(s)'
      BY <1>0, <1>1, <3>1, UntouchedStage
    <3>3. Rested(s)' = Rested(s)
      BY <3>1, SameConclusions DEF Rested
    <3>4. CountInv(s)'
      BY <1>0, <3>1, <3>3, UntouchedCount DEF StageInv
    <3> QED
      BY <3>2, <3>4 DEF StageInv
  <2> QED
    BY <1>1, <2>1, <2>2 DEF CoordinatorInv
<1> QED
  BY <1>2, <1>3, <1>4 DEF Next

(* A run that has not started.                                             *)
LEMMA InitInv == Init => CoordinatorInv
<1> SUFFICES ASSUME Init PROVE CoordinatorInv
  OBVIOUS
<1>1. MaxFaults \in Nat /\ 0 \in 0..MaxFaults /\ 0 \in 0..(MaxFaults + 1)
  BY CoordinatorAssumption
<1>2. NoEntry \in Stage /\ NoEntry.status = "NONE" /\ NoEntry.attempts = 0
      /\ NoEntry.pending = {}
  BY <1>1 DEF NoEntry, Stage, StageStatus
<1>3. /\ run = [status |-> "NONE", stages |-> [s \in Stages |-> NoEntry]]
      /\ \A s \in Stages : run.stages[s] = NoEntry /\ pc[s] = "idle" /\ launched[s] = 0
      /\ run.status = "NONE" /\ ~marking /\ faults = 0
  BY DEF Init
<1>4. TypeOK
  <2>1. RunType
    BY <1>2, <1>3 DEF Init, RunType, RunStatus
  <2>2. ProcType
    BY DEF Init, ProcType, Pcs, Results
  <2>3. GhostType
    BY <1>1 DEF Init, GhostType, Outcomes
  <2> QED
    BY <2>1, <2>2, <2>3 DEF TypeOK
<1>5. \A s \in Stages : StageInv(s)
  BY <1>2, <1>3 DEF StageInv, CountInv, PendingInv, PlaceInv, CompleteInv, IsComplete
<1> QED
  BY <1>3, <1>4, <1>5 DEF CoordinatorInv, ReadyInv

(* The invariant holds always.                                             *)
LEMMA InvCorrect == Spec => []CoordinatorInv
BY InitInv, InvStep, PTL DEF Spec

(* What the state file says is true through any kills, restarts, deferrals *)
(* and retries: a finished run has seen every store of every stage to an   *)
(* end, and no recovery was skipped that the renewal before it called for. *)
THEOREM StateFileIsTrue == Spec => []CoordinatorSafety
<1>1. CoordinatorInv => CoordinatorSafety
  <2> SUFFICES ASSUME CoordinatorInv PROVE TypeOK /\ ReadyMeansCovered /\ RecoveryNotSkipped
    BY DEF CoordinatorSafety
  <2>1. TypeOK /\ ReadyInv /\ (\A s \in Stages : StageInv(s)) /\ plan \subseteq Stages
    BY CoordinatorAssumption DEF CoordinatorInv, TypeOK, RunType
  <2>2. ReadyMeansCovered
    BY <2>1 DEF ReadyMeansCovered, Finished, ReadyInv, AllComplete, StageInv, CompleteInv,
       IsComplete, FactKinds, Seen
  <2>3. RecoveryNotSkipped
    BY <2>1 DEF RecoveryNotSkipped, StageInv, CompleteInv, IsComplete, AllLoaded
  <2> QED
    BY <2>1, <2>2, <2>3
<1> QED
  BY <1>1, InvCorrect, PTL

(* A completed stage is never run again nor altered, and a stage's attempt *)
(* numbers, which are part of the run ids of its children, never repeat.   *)
THEOREM CompletionIsFinal == Spec => CompleteIsFinal
<1> DEFINE Final == \A s \in Stages :
         /\ run.stages[s].status = "COMPLETE" => run'.stages[s] = run.stages[s]
         /\ pc'[s] = "child" /\ pc[s] # "child" =>
                run'.stages[s].attempts > launched[s]
<1>1. ASSUME CoordinatorInv, [Next]_vars PROVE Final
  <2>0. TypeOK /\ \A s \in Stages : StageInv(s)
    BY <1>1 DEF CoordinatorInv
  <2> SUFFICES ASSUME NEW s \in Stages
               PROVE  /\ run.stages[s].status = "COMPLETE" => run'.stages[s] = run.stages[s]
                      /\ pc'[s] = "child" /\ pc[s] # "child" =>
                             run'.stages[s].attempts > launched[s]
    OBVIOUS
  <2>1. KeepsComplete(s)
    BY <1>1, ReadyStep
  <2>2. ASSUME pc'[s] = "child", pc[s] # "child" PROVE Launch(s)
    <3>0. pc \in [Stages -> Pcs]
      BY <2>0, Cells
    <3>1. ~(Progress \/ Crash \/ Deadline \/ UNCHANGED vars)
      BY <2>2 DEF Progress, Activate, Finish, EndsAborted, Crash, Deadline, ReadReady,
         WritePublished, vars
    <3>2. PICK q \in Stages : StageStep(q) \/ ChildSignalled(q)
      BY <1>1, <3>1 DEF Next
    <3>3. q = s
      BY <2>0, <2>2, <3>2, StageStepsAlone DEF OnlyStage
    <3> QED
      BY <2>2, <3>0, <3>2, <3>3 DEF StageStep, SkipComplete, SkipRecovery, OutOfBudget,
         ChildReports, ChildUnreadable, ChildDeferred, ChildFatal, Exits, RecordComplete,
         RecordFatal, RecordRetry, ChildSignalled
  <2>3. ASSUME Launch(s) PROVE run'.stages[s].attempts > launched[s]
    <3>1. /\ run'.stages[s].attempts = run.stages[s].attempts + 1
          /\ launched[s] <= run.stages[s].attempts
          /\ launched[s] \in Nat /\ run.stages[s].attempts \in Nat
      <4>1. AtLoopHead(s)
        BY <2>3 DEF Launch
      <4>2. run'.stages[s].attempts = run.stages[s].attempts + 1
        BY <2>0, <2>3, LaunchEffects
      <4>3. ~IsComplete(s) /\ launched[s] \in Nat /\ run.stages[s].attempts \in Nat
        BY <2>0, <4>1, HeadFacts, Cells
      <4>4. launched[s] <= run.stages[s].attempts
        BY <2>0, <4>1, <4>3, HeadFacts DEF StageInv, CountInv
      <4> QED
        BY <4>2, <4>3, <4>4
    <3> QED
      BY <3>1
  <2> QED
    BY <2>1, <2>2, <2>3 DEF KeepsComplete, IsComplete
<1>2. CoordinatorInv /\ [Next]_vars => [Final]_vars
  BY <1>1
<1> HIDE DEF Final
<1>3. Spec => [][Final]_vars
  BY <1>2, InvCorrect, PTL DEF Spec
<1> QED
  BY <1>3 DEF Final, CompleteIsFinal
=============================================================================
