---------------------------- MODULE Coordinator ----------------------------
(***************************************************************************)
(* One business run of the coordinator: its stages, the state file that    *)
(* survives restarts, per-store retries, deferrals, the execution budget,  *)
(* and the publication mark set by the materializer.                       *)
(*                                                                         *)
(*   scripts/run_full_managed_business_coordinator.mjs,                    *)
(*   scripts/mark_full_managed_coordinators_published.mjs                  *)
(*                                                                         *)
(* Every segment of executeStage between two awaits mutates the state and  *)
(* snapshots it at once, and the snapshots are written in that order, so   *)
(* `run` is the file as well as the memory: a crash before a write is a    *)
(* crash before the segment.  What a child process did is not undone.      *)
(***************************************************************************)
EXTENDS Naturals, FiniteSets

CONSTANTS
    Stages, Stores,
    Plans,      \* the stages of each task's plan
    Kind,       \* [Stages -> {"home","sales","supply","renewal","recovery","validation"}]
    Earlier,    \* [Stages -> SUBSET Stages]; empty in the parallel plan
    After,      \* onlyAfterPartial: [Stages -> Stages \cup {NoStage}]
    NoStage,
    MaxFaults   \* bound on deferrals, retries, deadlines, kills and restarts

ASSUME CoordinatorAssumption ==
    /\ Kind \in [Stages -> {"home", "sales", "supply",
                            "renewal", "recovery", "validation"}]
    /\ Plans \subseteq SUBSET Stages
    /\ Earlier \in [Stages -> SUBSET Stages]
    /\ \A s \in Stages : s \notin Earlier[s]
    /\ \A s \in Stages : \A e \in Earlier[s] : Earlier[e] \subseteq Earlier[s]
    /\ After \in [Stages -> Stages \cup {NoStage}]
    /\ \A s \in Stages : After[s] # NoStage =>
          /\ After[s] \in Earlier[s]
          /\ Kind[s] = "recovery" /\ Kind[After[s]] = "renewal"
    /\ NoStage \notin Stages
    /\ Stores # {} /\ MaxFaults \in Nat

VARIABLES
    plan,       \* the stages of this run; never changes
    run,        \* the state file: status and stages
    up,         \* is the oneshot unit's process alive?
    pc,         \* where executeStage is, per stage
    res,        \* how the last child of a stage exited
    expired,    \* has this activation's budget run out?
    aborted,    \* did a stage throw in this activation?
    marking,    \* has the publisher read the run as READY_TO_PUBLISH?
    outcome,    \* ghost: what the last child that saw a store found there
    launched,   \* ghost: the highest attempt number ever given to a child
    faults      \* how much of MaxFaults is spent

vars == <<plan, run, up, pc, res, expired, aborted, marking, outcome, launched,
          faults>>

RunStatus == {"NONE", "RUNNING", "WAITING_RESOURCE", "WAITING_PLATFORM",
              "FAILED", "READY_TO_PUBLISH", "PUBLISHED"}
StageStatus == {"NONE", "RUNNING", "WAITING_RESOURCE", "RETRYING", "WAITING",
                "COMPLETE", "FAILED"}
Stage == [status : StageStatus, attempts : 0..(MaxFaults + 1),
          pending : SUBSET Stores, gaps : SUBSET Stores, needs : BOOLEAN]
NoEntry == [status |-> "NONE", attempts |-> 0, pending |-> {}, gaps |-> {},
            needs |-> FALSE]

Pcs == {"idle", "child", "exited", "sleep", "done", "thrown"}

(* What a child finds at a store: facts loaded; a gap of the platform; a   *)
(* denied (sales) or skipped (supply) store; an error; or nothing that the *)
(* coordinator can read.                                                   *)
Outcomes == {"none", "loaded", "gap", "denied", "error", "unknown"}
Results == {"none", "ok", "partial", "unreadable", "deferred", "fatal"}

RunType == plan \in Plans /\ run \in [status : RunStatus, stages : [Stages -> Stage]]
ProcType ==
    /\ up \in BOOLEAN /\ expired \in BOOLEAN /\ aborted \in BOOLEAN
    /\ marking \in BOOLEAN
    /\ pc \in [Stages -> Pcs] /\ res \in [Stages -> Results]
GhostType ==
    /\ outcome \in [Stages -> [Stores -> Outcomes]]
    /\ launched \in [Stages -> 0..(MaxFaults + 1)]
    /\ faults \in 0..MaxFaults

(* The state file and the process keep their shape; attempts grow by one   *)
(* per fault at most.                                                      *)
TypeOK == RunType /\ ProcType /\ GhostType

Init ==
    /\ plan \in Plans
    /\ run = [status |-> "NONE", stages |-> [s \in Stages |-> NoEntry]]
    /\ up = FALSE /\ expired = FALSE /\ aborted = FALSE /\ marking = FALSE
    /\ pc = [s \in Stages |-> "idle"]
    /\ res = [s \in Stages |-> "none"]
    /\ outcome = [s \in Stages |-> [t \in Stores |-> "none"]]
    /\ launched = [s \in Stages |-> 0]
    /\ faults = 0

Fault == faults < MaxFaults /\ faults' = faults + 1

-----------------------------------------------------------------------------
(* classifyStageResult.                                                    *)

(* The stores a child works on: the ones pending, or all of them.          *)
Scope(s) == IF run.stages[s].pending = {} THEN Stores ELSE run.stages[s].pending

Found(s, o) == {t \in Scope(s) : outcome[s][t] = o}

(* Exit code 0 of the stage scripts: each counts its own idea of failure.  *)
ExitsOk(kind, seen) ==
    CASE kind = "sales" -> seen \cap {"error", "gap"} = {}
      [] kind = "supply" -> seen \cap {"error", "gap", "denied"} = {}
      [] OTHER -> "error" \notin seen

(* The stores to run again after exit code 2.                              *)
RetryStores_NoHome(s) ==
    CASE res[s] = "unreadable" -> {}
      [] Kind[s] \in {"sales", "supply"} -> Found(s, "error")
      [] OTHER -> {}

RetryStores(s) ==
    CASE res[s] = "unreadable" -> {}
      [] Kind[s] = "home" -> Found(s, "error") \cup Found(s, "gap")
      [] Kind[s] \in {"sales", "supply"} -> Found(s, "error")
      [] OTHER -> {}

(* The terminal details that a completing classification carries.          *)
TerminalGaps(s) ==
    CASE res[s] # "partial" -> {}
      [] Kind[s] = "sales" -> Found(s, "gap") \cup Found(s, "denied")
      [] Kind[s] = "supply" -> Found(s, "gap")
      [] OTHER -> {}

Completes_OnlyExitZero(s) == res[s] = "ok"

Completes(s) ==
    \/ res[s] = "ok"
    \/ /\ res[s] \in {"partial", "unreadable"}
       /\ Kind[s] \notin {"recovery", "validation"}
       /\ ~(Kind[s] = "sales" /\ res[s] = "unreadable")
       /\ RetryStores(s) = {}

Fatal(s) == res[s] = "fatal" \/ (res[s] = "unreadable" /\ Kind[s] = "sales")

-----------------------------------------------------------------------------
(* runCoordinator.                                                         *)

AllComplete == \A s \in plan : run.stages[s].status = "COMPLETE"

Rests == run.status \in {"READY_TO_PUBLISH", "PUBLISHED"}

(* The unit is started.  A finished run is left alone once published; any  *)
(* other continues from its file with a fresh budget.                      *)
FreshBudget_Anchored == expired

FreshBudget == FALSE

Activate ==
    /\ ~up
    /\ ~(run.status = "PUBLISHED" /\ AllComplete)
    /\ run' = [run EXCEPT !.status = "RUNNING"]
    /\ up' = TRUE
    /\ expired' = FreshBudget
    /\ aborted' = FALSE
    /\ pc' = [s \in Stages |-> "idle"]
    /\ res' = [s \in Stages |-> "none"]
    /\ IF Rests THEN Fault ELSE UNCHANGED faults
    /\ UNCHANGED <<plan, marking, outcome, launched>>

(* A stage starts when the ones before it are complete.                    *)
Runnable(s) ==
    /\ up /\ s \in plan /\ pc[s] = "idle"
    /\ \A e \in Earlier[s] : pc[e] = "done" /\ run.stages[e].status = "COMPLETE"

NotNeeded_Always(s) == After[s] # NoStage

NotNeeded(s) == After[s] # NoStage /\ ~run.stages[After[s]].needs

SkipComplete(s) ==
    /\ Runnable(s) /\ run.stages[s].status = "COMPLETE"
    /\ pc' = [pc EXCEPT ![s] = "done"]
    /\ UNCHANGED <<plan, run, up, res, expired, aborted, marking, outcome,
                   launched, faults>>

SkipRecovery(s) ==
    /\ Runnable(s) /\ run.stages[s].status # "COMPLETE" /\ NotNeeded(s)
    /\ run' = [run EXCEPT !.stages[s] = [NoEntry EXCEPT !.status = "COMPLETE"]]
    /\ pc' = [pc EXCEPT ![s] = "done"]
    /\ UNCHANGED <<plan, up, res, expired, aborted, marking, outcome,
                   launched, faults>>

(* The head of the retry loop, from the start or after the sleep.          *)
AtLoopHead(s) ==
    \/ Runnable(s) /\ run.stages[s].status # "COMPLETE" /\ ~NotNeeded(s)
    \/ up /\ pc[s] = "sleep"

StatusAtHead(s) == IF pc[s] = "sleep" THEN "RUNNING" ELSE run.status

Launch(s) ==
    /\ AtLoopHead(s) /\ ~expired
    /\ run' = [run EXCEPT !.status = StatusAtHead(s),
                          !.stages[s].status = "RUNNING",
                          !.stages[s].attempts = @ + 1,
                          !.stages[s].needs = FALSE]
    /\ launched' = [launched EXCEPT ![s] = run.stages[s].attempts + 1]
    /\ pc' = [pc EXCEPT ![s] = "child"]
    /\ UNCHANGED <<plan, up, res, expired, aborted, marking, outcome, faults>>

OutOfBudget(s) ==
    /\ AtLoopHead(s) /\ expired
    /\ run' = [run EXCEPT !.status = "WAITING_PLATFORM",
                          !.stages[s].status = "WAITING",
                          !.stages[s].gaps = {}, !.stages[s].needs = FALSE]
    /\ pc' = [pc EXCEPT ![s] = "done"]
    /\ UNCHANGED <<plan, up, res, expired, aborted, marking, outcome,
                   launched, faults>>

-----------------------------------------------------------------------------
(* The child process of a stage, behind the host lane and the flock.       *)

CanFind(kind) ==
    CASE kind \in {"sales", "supply"} -> {"loaded", "gap", "denied", "error"}
      [] kind = "home" -> {"loaded", "gap", "error"}
      [] OTHER -> {"loaded", "error"}

SeenBy(s, found) ==
    [outcome EXCEPT ![s] = [t \in Stores |->
        IF t \in Scope(s) THEN found[t] ELSE outcome[s][t]]]

Exits(s, how) ==
    /\ up /\ pc[s] = "child"
    /\ res' = [res EXCEPT ![s] = how]
    /\ pc' = [pc EXCEPT ![s] = "exited"]
    /\ UNCHANGED <<plan, run, up, expired, aborted, marking, launched>>

(* It works through its stores and exits 0 or 2.                           *)
ChildReports(s) ==
    \E found \in [Scope(s) -> CanFind(Kind[s])] :
        LET seen == {found[t] : t \in Scope(s)} IN
        /\ Exits(s, IF ExitsOk(Kind[s], seen) THEN "ok" ELSE "partial")
        /\ outcome' = SeenBy(s, found)
        /\ IF "error" \in seen /\ Kind[s] # "renewal"
           THEN Fault ELSE UNCHANGED faults

(* It exits 2 and no JSON document can be found at the end of its output.  *)
ChildUnreadable(s) ==
    /\ Kind[s] \in {"home", "sales", "supply"}
    /\ Exits(s, "unreadable")
    /\ outcome' = SeenBy(s, [t \in Scope(s) |-> "unknown"])
    /\ Fault

(* The lane, the host pressure gate or the stage lock defers it.           *)
ChildDeferred(s) == Exits(s, "deferred") /\ Fault /\ UNCHANGED outcome

(* It exits with another code, somewhere among its stores.                 *)
ChildFatal(s) ==
    /\ Exits(s, "fatal")
    /\ outcome' = SeenBy(s, [t \in Scope(s) |-> "error"])
    /\ Fault

(* It is killed: runStage rejects, and with it runCoordinator.  Stages     *)
(* that run in parallel go on to their own end.                            *)
ChildSignalled(s) ==
    /\ up /\ pc[s] = "child"
    /\ pc' = [pc EXCEPT ![s] = "thrown"]
    /\ aborted' = TRUE
    /\ Fault
    /\ UNCHANGED <<plan, run, up, res, expired, marking, outcome, launched>>

-----------------------------------------------------------------------------
(* executeStage after runStage.                                            *)

Entry(s, status, pending, gaps, needs) ==
    [status |-> status, attempts |-> run.stages[s].attempts,
     pending |-> pending, gaps |-> gaps, needs |-> needs]

RecordComplete(s) ==
    /\ up /\ pc[s] = "exited" /\ Completes(s)
    /\ run' = [run EXCEPT !.stages[s] =
         Entry(s, "COMPLETE", {}, TerminalGaps(s),
               Kind[s] = "renewal" /\ res[s] = "partial")]
    /\ pc' = [pc EXCEPT ![s] = "done"]
    /\ UNCHANGED <<plan, up, res, expired, aborted, marking, outcome,
                   launched, faults>>

FailedEntry_Renumbered(s) == [NoEntry EXCEPT !.status = "FAILED"]

FailedEntry(s) == Entry(s, "FAILED", {}, {}, FALSE)

RecordFatal(s) ==
    /\ up /\ pc[s] = "exited" /\ Fatal(s)
    /\ run' = [run EXCEPT !.status = "FAILED", !.stages[s] = FailedEntry(s)]
    /\ pc' = [pc EXCEPT ![s] = "done"]
    /\ UNCHANGED <<plan, up, res, expired, aborted, marking, outcome,
                   launched, faults>>

(* Only the stores to retry stay pending; with none named, the same ones.  *)
StillPending(s) ==
    IF res[s] = "partial" /\ RetryStores(s) # {} THEN RetryStores(s)
    ELSE run.stages[s].pending

RecordRetry(s) ==
    /\ up /\ pc[s] = "exited" /\ ~Completes(s) /\ ~Fatal(s)
    /\ run' = [run EXCEPT
         !.status = IF res[s] = "deferred" THEN "WAITING_RESOURCE"
                    ELSE "WAITING_PLATFORM",
         !.stages[s] = Entry(s, IF res[s] = "deferred" THEN "WAITING_RESOURCE"
                                ELSE "RETRYING",
                             StillPending(s), run.stages[s].gaps, FALSE)]
    /\ pc' = [pc EXCEPT ![s] = "sleep"]
    /\ UNCHANGED <<plan, up, res, expired, aborted, marking, outcome,
                   launched, faults>>

-----------------------------------------------------------------------------
(* The end of an activation.                                               *)

Quiet ==
    \A s \in plan : pc[s] \in {"done", "thrown"} \/ (pc[s] = "idle" /\ ~Runnable(s))

ReadyToPublish == AllComplete

Finish ==
    /\ up /\ ~aborted /\ Quiet
    /\ run' = [run EXCEPT !.status =
         IF ReadyToPublish THEN "READY_TO_PUBLISH"
         ELSE IF @ = "RUNNING" THEN "WAITING_PLATFORM" ELSE @]
    /\ up' = FALSE
    /\ UNCHANGED <<plan, pc, res, expired, aborted, marking, outcome,
                   launched, faults>>

(* The process ends on the exception, without a last write.                *)
EndsAborted ==
    /\ up /\ aborted /\ Quiet
    /\ up' = FALSE
    /\ UNCHANGED <<plan, run, pc, res, expired, aborted, marking, outcome,
                   launched, faults>>

(* TimeoutStartSec, a reboot or the memory limit ends the control group.   *)
Crash ==
    /\ up /\ Fault /\ up' = FALSE
    /\ UNCHANGED <<plan, run, pc, res, expired, aborted, marking, outcome, launched>>

(* The budget is hours long: it never runs out before the first stage has  *)
(* begun or been skipped.                                                  *)
Starting == up /\ \A s \in Stages : pc[s] = "idle"

Deadline ==
    /\ up /\ ~expired /\ ~Starting /\ Fault /\ expired' = TRUE
    /\ UNCHANGED <<plan, run, up, pc, res, aborted, marking, outcome, launched>>

-----------------------------------------------------------------------------
(* markReadyCoordinatorsPublished: a read, then a write of what was read.  *)

ReadReady ==
    /\ ~marking /\ run.status = "READY_TO_PUBLISH"
    /\ marking' = TRUE
    /\ UNCHANGED <<plan, run, up, pc, res, expired, aborted, outcome,
                   launched, faults>>

WritePublished ==
    /\ marking
    /\ marking' = FALSE
    /\ run' = [run EXCEPT !.status = "PUBLISHED"]
    /\ UNCHANGED <<plan, up, pc, res, expired, aborted, outcome, launched, faults>>

-----------------------------------------------------------------------------
StageStep(s) ==
    \/ SkipComplete(s) \/ SkipRecovery(s) \/ Launch(s) \/ OutOfBudget(s)
    \/ ChildReports(s) \/ ChildUnreadable(s) \/ ChildDeferred(s) \/ ChildFatal(s)
    \/ RecordComplete(s) \/ RecordFatal(s) \/ RecordRetry(s)

Progress ==
    \/ Activate \/ Finish \/ EndsAborted \/ ReadReady \/ WritePublished

Next ==
    \/ Progress \/ Crash \/ Deadline
    \/ \E s \in Stages : StageStep(s) \/ ChildSignalled(s)

Spec == Init /\ [][Next]_vars

(* A live process goes on, and the materializer that OnSuccess starts marks*)
(* what is ready.  Nothing is assumed of Activate: the units are oneshot   *)
(* without Restart=, the next scheduled start is another run, and only an  *)
(* operator starts an interrupted run again.                               *)
Fairness ==
    /\ WF_vars(Finish) /\ WF_vars(EndsAborted)
    /\ WF_vars(ReadReady) /\ WF_vars(WritePublished)
    /\ \A s \in Stages : WF_vars(StageStep(s))

FairSpec == Spec /\ Fairness

-----------------------------------------------------------------------------
Finished == run.status \in {"READY_TO_PUBLISH", "PUBLISHED"} /\ ~up

(* A run becomes ready only when every stage saw every store to an end:    *)
(* loaded, or a gap that no retry can close.  A summary that could not be  *)
(* read never passes for the sales stage.  Holds across kills, budget      *)
(* expiry and restarts that lose a child's answer.                         *)
ReadyMeansCovered ==
    Finished => \A s \in plan : run.stages[s].status = "COMPLETE" /\
        (Kind[s] \in {"home", "sales", "supply"} =>
            \A t \in Stores :
                /\ outcome[s][t] \notin {"none", "error"}
                /\ Kind[s] = "sales" => outcome[s][t] # "unknown")

(* A recovery stage is skipped only when its renewal found every session   *)
(* alive: a restart between the two never loses the need to recover.       *)
RecoveryNotSkipped ==
    \A s \in Stages :
        After[s] # NoStage /\ run.stages[s].status = "COMPLETE" =>
            \/ \A t \in Stores : outcome[s][t] = "loaded"
            \/ \A t \in Stores : outcome[After[s]][t] = "loaded"

(* What the state file says is true after any kill, restart and retry: a   *)
(* finished run covered every store, and no needed recovery was skipped.   *)
CoordinatorSafety == TypeOK /\ ReadyMeansCovered /\ RecoveryNotSkipped

(* A completed stage is never run again nor altered by a later activation, *)
(* and no two children of a stage get the same attempt number, which is    *)
(* part of the run id under which they store their facts.                  *)
CompleteIsFinal ==
    [][\A s \in Stages :
         /\ run.stages[s].status = "COMPLETE" => run'.stages[s] = run.stages[s]
         /\ pc'[s] = "child" /\ pc[s] # "child" =>
                run'.stages[s].attempts > launched[s]
      ]_vars

(* Whoever starts the unit, from whatever state file the earlier kills,    *)
(* retries, fatal exits and expired budgets left behind: either something  *)
(* goes wrong once more, or the run is published.  No interrupted run is   *)
(* beyond being resumed.                                                   *)
ResumableToTheEnd ==
    \A n \in 0..MaxFaults :
        Starting /\ faults = n ~> run.status = "PUBLISHED" \/ faults # n

(* "records terminal quality gap per store without silent completion": a   *)
(* complete sales stage lists every store whose last result was a gap.  A  *)
(* summary that also names a store to retry loses its gaps.                *)
GapsAreRecorded ==
    \A s \in Stages :
        Kind[s] = "sales" /\ run.stages[s].status = "COMPLETE" =>
            \A t \in Stores :
                outcome[s][t] = "gap" => t \in run.stages[s].gaps

(* "an abnormal exit-2 summary must not complete silently": no stage is    *)
(* complete on the strength of a summary that nobody could read.           *)
UnreadableNeverCompletes ==
    \A s \in Stages : run.stages[s].status = "COMPLETE" =>
        \A t \in Stores : outcome[s][t] # "unknown"
=============================================================================
