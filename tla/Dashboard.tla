----------------------------- MODULE Dashboard -----------------------------
(***************************************************************************)
(* From facts to the published dashboard: the webhook worker's request     *)
(* marker, the debounced enqueue unit, the pending and kick markers, the   *)
(* two materializer units that share one lock, and the promotion of the    *)
(* staged files with the publication mark at its end.                      *)
(*                                                                         *)
(*   scripts/enqueue_full_managed_dashboard_materialization.sh,            *)
(*   scripts/run_full_managed_dashboard_materializer.sh,                   *)
(*   scripts/materialize_and_promote_full_managed_dashboard.sh,            *)
(*   scripts/mark_full_managed_coordinators_published.mjs                  *)
(*                                                                         *)
(* A file's content is the number of facts it shows.  Times are kept only  *)
(* as the answers of the comparisons that the scripts make.                *)
(***************************************************************************)
EXTENDS Naturals

CONSTANTS
    Runs,       \* coordinator runs that become ready
    MaxFacts,   \* bound on committed facts
    MaxFaults   \* bound on deferrals by host pressure, failures, kills and
                \* lost notices

ASSUME DashboardAssumption ==
    MaxFacts \in Nat /\ MaxFaults \in Nat

(* The unit that OnSuccess of a coordinator starts, and the path unit's.   *)
Units == {"materialize", "retry"}
Steps == {"idle", "begin", "read", "stage", "promote", "mark", "done"}
Files == {"home", "core", "shipping", "order"}

VARIABLES
    facts,      \* facts committed to the warehouse
    notice,     \* does the worker's notifier hold an unwritten request?
    request,    \* facts behind the request marker; 0 while it is absent
    newer,      \* request -nt dashboard.home.json
    newerStaged,\* request -nt the staged home file
    requested,  \* a path event for the enqueue unit
    enqueue,    \* the enqueue unit: "off", "debounce", "kick"
    pending,    \* .materialize-pending exists
    kicked,     \* a path event for the retry unit
    wanted,     \* an OnSuccess start of the materialize unit
    unit,       \* the materializer units: "off", "lane", "work"
    step,       \* where the promotion script is; "idle" when nobody runs it
    moved,      \* how many staged files it has moved
    snapshot,   \* what the open database snapshot shows
    staged, file,   \* [Files -> facts shown]
    ready,      \* [Runs -> "no", "READY", "PUBLISHED"]
    inTime,     \* READY runs whose readyAt is not after the script's start
    runFacts,   \* ghost: facts committed when the run became ready
    faults      \* how much of MaxFaults is spent

wakeVars == <<notice, request, newer, requested, enqueue, kicked, wanted>>
workVars == <<step, moved, snapshot, staged, file, newerStaged, inTime>>
vars == <<facts, wakeVars, pending, unit, workVars, ready, runFacts, faults>>

(* Files, snapshots and runs show facts that exist.                        *)
FactTypes ==
    /\ facts \in 0..MaxFacts /\ request \in 0..facts /\ snapshot \in 0..facts
    /\ staged \in [Files -> 0..facts] /\ file \in [Files -> 0..facts]
    /\ runFacts \in [Runs -> 0..facts]

FlagTypes ==
    /\ notice \in BOOLEAN /\ newer \in BOOLEAN /\ newerStaged \in BOOLEAN
    /\ requested \in BOOLEAN /\ pending \in BOOLEAN
    /\ kicked \in BOOLEAN /\ wanted \in BOOLEAN

BoundTypes ==
    enqueue \in {"off", "debounce", "kick"} /\ faults \in 0..MaxFaults

(* The promotion script runs exactly while one of the units is in it.      *)
UnitTypes ==
    /\ unit \in [Units -> {"off", "lane", "work"}]
    /\ step \in Steps /\ moved \in 0..4
    /\ (step = "idle") <=> (\A u \in Units : unit[u] # "work")

RunTypes ==
    ready \in [Runs -> {"no", "READY", "PUBLISHED"}] /\ inTime \subseteq Runs

(* Files show facts that exist; units, markers and runs keep their states, *)
(* and the promotion script runs exactly while one of the units is in it.  *)
TypeOK == FactTypes /\ FlagTypes /\ BoundTypes /\ UnitTypes /\ RunTypes

Init ==
    /\ facts = 0 /\ faults = 0 /\ notice = FALSE /\ request = 0
    /\ newer = FALSE /\ newerStaged = FALSE /\ requested = FALSE
    /\ enqueue = "off" /\ pending = FALSE /\ kicked = FALSE /\ wanted = FALSE
    /\ unit = [u \in Units |-> "off"] /\ step = "idle" /\ moved = 0 /\ snapshot = 0
    /\ staged = [f \in Files |-> 0] /\ file = [f \in Files |-> 0]
    /\ ready = [r \in Runs |-> "no"] /\ inTime = {}
    /\ runFacts = [r \in Runs |-> 0]

Fault == faults < MaxFaults /\ faults' = faults + 1

-----------------------------------------------------------------------------
(* Facts arrive.                                                           *)

(* The webhook worker settles a job and asks its notifier for a wake-up.   *)
WebhookFact ==
    /\ facts < MaxFacts
    /\ facts' = facts + 1 /\ notice' = TRUE
    /\ UNCHANGED <<request, newer, requested, enqueue, kicked, wanted,
                   pending, unit, workVars, ready, runFacts, faults>>

(* flush: requests within the interval share one write of the marker.      *)
Notify ==
    /\ notice
    /\ notice' = FALSE /\ request' = facts /\ requested' = TRUE
    /\ newer' = TRUE /\ newerStaged' = TRUE
    /\ UNCHANGED <<facts, enqueue, kicked, wanted, pending, unit, step, moved, snapshot,
                   staged, file, inTime, ready, runFacts, faults>>

(* The write fails and is only logged, or the worker dies before it.       *)
NoticeLost ==
    /\ notice /\ Fault
    /\ notice' = FALSE
    /\ UNCHANGED <<facts, request, newer, requested, enqueue, kicked, wanted,
                   pending, unit, workVars, ready, runFacts>>

(* A coordinator run becomes READY_TO_PUBLISH; OnSuccess follows.          *)
RunReady(r) ==
    /\ ready[r] = "no" /\ facts < MaxFacts
    /\ facts' = facts + 1
    /\ ready' = [ready EXCEPT ![r] = "READY"]
    /\ runFacts' = [runFacts EXCEPT ![r] = facts + 1]
    /\ wanted' = TRUE
    /\ UNCHANGED <<notice, request, newer, requested, enqueue, kicked, pending,
                   unit, workVars, faults>>

(* A later run of the schedule that has nothing new to show.               *)
LaterRun ==
    /\ ~wanted
    /\ wanted' = TRUE
    /\ UNCHANGED <<facts, notice, request, newer, requested, enqueue, kicked,
                   pending, unit, workVars, ready, runFacts, faults>>

-----------------------------------------------------------------------------
(* enqueue_full_managed_dashboard_materialization.sh                       *)

EnqueueStarts ==
    /\ requested /\ enqueue = "off"
    /\ requested' = FALSE /\ enqueue' = "debounce"
    /\ UNCHANGED <<facts, notice, request, newer, kicked, wanted, pending, unit,
                   workVars, ready, runFacts, faults>>

(* After the debounce: nothing to do unless the request is newer.          *)
EnqueueSkips ==
    /\ enqueue = "debounce" /\ ~newer
    /\ enqueue' = "off"
    /\ UNCHANGED <<facts, notice, request, newer, requested, kicked, wanted,
                   pending, unit, workVars, ready, runFacts, faults>>

EnqueuePends ==
    /\ enqueue = "debounce" /\ newer
    /\ pending' = TRUE /\ enqueue' = "kick"
    /\ UNCHANGED <<facts, notice, request, newer, requested, kicked, wanted, unit,
                   workVars, ready, runFacts, faults>>

EnqueueKicks ==
    /\ enqueue = "kick"
    /\ kicked' = TRUE /\ enqueue' = "off"
    /\ UNCHANGED <<facts, notice, request, newer, requested, wanted, pending, unit,
                   workVars, ready, runFacts, faults>>

EnqueueDies ==
    /\ enqueue # "off" /\ Fault
    /\ enqueue' = "off"
    /\ UNCHANGED <<facts, notice, request, newer, requested, kicked, wanted,
                   pending, unit, workVars, ready, runFacts>>

-----------------------------------------------------------------------------
(* run_full_managed_dashboard_materializer.sh                              *)

(* Started by OnSuccess, or by the kick and only if something is pending.  *)
OnlyPending_Both(u) == TRUE

OnlyPending(u) == u = "retry"

StartEvent(u) == IF u = "retry" THEN kicked ELSE wanted

UnitStarts(u) ==
    /\ unit[u] = "off" /\ StartEvent(u)
    /\ IF OnlyPending(u) /\ ~pending
       THEN UNCHANGED <<pending, unit>>
       ELSE pending' = TRUE /\ unit' = [unit EXCEPT ![u] = "lane"]
    /\ kicked' = (kicked /\ u # "retry") /\ wanted' = (wanted /\ u = "retry")
    /\ UNCHANGED <<facts, notice, request, newer, requested, enqueue, workVars,
                   ready, runFacts, faults>>

(* The lane slot and the flock are free and the pressure gate lets it in.  *)
LockFree_Always == TRUE

LockFree == step = "idle"

(* READY runs up to the script's start are the ones it may mark.           *)
UnitEnters(u) ==
    /\ unit[u] = "lane" /\ LockFree
    /\ unit' = [unit EXCEPT ![u] = "work"]
    /\ step' = "begin" /\ moved' = 0
    /\ inTime' = {r \in Runs : ready[r] = "READY"}
    /\ UNCHANGED <<facts, wakeVars, pending, snapshot, staged, file, newerStaged,
                   ready, runFacts, faults>>

(* Exit 75: a busy slot, or host pressure.  The pending marker stays.      *)
UnitDefers(u) ==
    /\ unit[u] = "lane"
    /\ IF LockFree THEN Fault ELSE UNCHANGED faults
    /\ unit' = [unit EXCEPT ![u] = "off"]
    /\ UNCHANGED <<facts, wakeVars, pending, workVars, ready, runFacts>>

(* What only the script's process knows goes with it.                      *)
ScriptEnds == step' = "idle" /\ moved' = 0 /\ snapshot' = 0 /\ inTime' = {}

(* A step of the script fails, or the unit times out.                      *)
UnitDies(u) ==
    /\ unit[u] = "work" /\ Fault
    /\ unit' = [unit EXCEPT ![u] = "off"]
    /\ ScriptEnds
    /\ UNCHANGED <<facts, wakeVars, pending, staged, file, newerStaged, ready, runFacts>>

(* The script succeeded: the marker goes, whoever touched it last.         *)
UnitSucceeds(u) ==
    /\ unit[u] = "work" /\ step = "done"
    /\ pending' = FALSE
    /\ unit' = [unit EXCEPT ![u] = "off"] /\ ScriptEnds
    /\ UNCHANGED <<facts, wakeVars, staged, file, newerStaged, ready, runFacts, faults>>

-----------------------------------------------------------------------------
(* materialize_and_promote_full_managed_dashboard.sh                       *)

(* The dashboard's snapshot: one REPEATABLE READ transaction.              *)
ReadFacts ==
    /\ step = "begin"
    /\ snapshot' = facts /\ step' = "read"
    /\ UNCHANGED <<moved, facts, wakeVars, pending, unit, staged, file, newerStaged,
                   inTime, ready, runFacts, faults>>

StageDashboard ==
    /\ step = "read"
    /\ staged' = [staged EXCEPT !["home"] = snapshot, !["core"] = snapshot]
    /\ newerStaged' = FALSE
    /\ step' = "stage"
    /\ UNCHANGED <<moved, facts, wakeVars, pending, unit, snapshot, file, inTime, ready,
                   runFacts, faults>>

(* The shipping-order index and the order index, from later snapshots.     *)
StageIndexes ==
    /\ step = "stage"
    /\ \E order \in {staged["order"], facts} :
         staged' = [staged EXCEPT !["shipping"] = facts, !["order"] = order]
    /\ step' = "promote"
    /\ UNCHANGED <<moved, facts, wakeVars, pending, unit, snapshot, file, newerStaged,
                   inTime, ready, runFacts, faults>>

(* The core file is the observable publication boundary and goes last.     *)
PromotionOrder_CoreFirst == <<"core", "home", "shipping", "order">>

PromotionOrder == <<"home", "shipping", "order", "core">>

(* One mv.  The order index moves only if its coverage gate passes.        *)
Promote ==
    /\ step = "promote"
    /\ LET f == PromotionOrder[moved + 1] IN
       /\ \/ file' = [file EXCEPT ![f] = staged[f]]
          \/ f = "order" /\ UNCHANGED file
       /\ newer' = IF f = "home" THEN newerStaged ELSE newer
    /\ moved' = moved + 1
    /\ step' = IF moved + 1 = 4 THEN "mark" ELSE "promote"
    /\ UNCHANGED <<facts, notice, request, requested, enqueue, kicked, wanted,
                   pending, unit, snapshot, staged, newerStaged, inTime, ready,
                   runFacts, faults>>

Markable_AnyReady(r) == ready[r] = "READY"

Markable(r) == ready[r] = "READY" /\ r \in inTime

MarkPublished ==
    /\ step = "mark"
    /\ ready' = [r \in Runs |-> IF Markable(r) THEN "PUBLISHED" ELSE ready[r]]
    /\ step' = "done"
    /\ UNCHANGED <<moved, facts, wakeVars, pending, unit, snapshot, staged, file,
                   newerStaged, inTime, runFacts, faults>>

-----------------------------------------------------------------------------
EnqueueStep == EnqueueStarts \/ EnqueueSkips \/ EnqueuePends \/ EnqueueKicks

ScriptStep ==
    \/ ReadFacts \/ StageDashboard \/ StageIndexes \/ Promote \/ MarkPublished

UnitStep(u) == UnitStarts(u) \/ UnitEnters(u) \/ UnitSucceeds(u)

Next ==
    \/ WebhookFact \/ Notify \/ NoticeLost \/ LaterRun
    \/ \E r \in Runs : RunReady(r)
    \/ EnqueueStep \/ EnqueueDies
    \/ \E u \in Units : UnitStep(u) \/ UnitDefers(u) \/ UnitDies(u)
    \/ ScriptStep

Spec == Init /\ [][Next]_vars

(* Path events start their units and what is started goes on.              *)
EventFairness ==
    /\ WF_vars(Notify) /\ WF_vars(EnqueueStep) /\ WF_vars(ScriptStep)
    /\ \A u \in Units : WF_vars(UnitStep(u)) /\ SF_vars(UnitEnters(u))

EventSpec == Spec /\ EventFairness

(* The schedule's coordinator runs keep coming as well.                    *)
ScheduleSpec == Spec /\ EventFairness /\ WF_vars(LaterRun)

-----------------------------------------------------------------------------
(* "an SSE refresh can never see the new core beside an older              *)
(* shipping-order index": at every instant, with promotions cut short      *)
(* anywhere, the core shows no fact that the shipping index or the home    *)
(* file lacks.                                                             *)
CoreNeverAhead == file["core"] <= file["shipping"] /\ file["core"] <= file["home"]

(* A run marked PUBLISHED has its facts in every file of the dashboard,    *)
(* though runs become ready at any point of a materialization.             *)
PublishedMeansShown ==
    \A r \in Runs : ready[r] = "PUBLISHED" =>
        \A f \in {"home", "core", "shipping"} : file[f] >= runFacts[r]

(* As long as scheduled runs keep coming, every fact reaches the core file *)
(* and every ready run is published: lost notices, deferrals, a marker     *)
(* removed too early and dead units only delay them.                       *)
EventuallyShown ==
    /\ \A n \in 1..MaxFacts : facts >= n ~> file["core"] >= n
    /\ \A r \in Runs : ready[r] = "READY" ~> ready[r] = "PUBLISHED"

(* "pressure deferrals remain recoverable without periodic full runs": a   *)
(* pending materialization happens although no scheduled run follows.      *)
DeferralsRecover == pending ~> ~pending

(* "Only publish if an event is still newer than the last atomically       *)
(* promoted dashboard snapshot": a request that the enqueue unit drops is  *)
(* one whose facts the published home file shows.                          *)
DroppedMeansShown ==
    [][enqueue = "debounce" /\ enqueue' = "off" /\ ~newer => file["home"] >= request]_vars
=============================================================================
