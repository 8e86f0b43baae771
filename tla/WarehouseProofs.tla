--------------------------- MODULE WarehouseProofs --------------------------
(***************************************************************************)
(* Proofs about what the warehouse is read for: the publication of the     *)
(* dashboard, and the mapping of SKUs to canonical products.               *)
(***************************************************************************)
EXTENDS Dashboard, ProductIdentity, FiniteSetTheorems, SequenceTheorems, TLAPS

(***************************************************************************)
(* The publication, for every number of facts, runs, deferrals and         *)
(* failures: the core file is never ahead, and a run marked PUBLISHED is   *)
(* shown.  Both need to know what the promotion script has already done    *)
(* when it reaches a step, which DashboardInv says; the script may be cut  *)
(* off at any of them and started again.                                   *)
(***************************************************************************)
(* The flock: one unit at a time is in the script.                         *)
OneWorker ==
    \A u, v \in Units : unit[u] = "work" /\ unit[v] = "work" => u = v

(* The runs the script may mark were ready when it started.                *)
InTimeReady == \A r \in inTime : ready[r] # "no"

(* The snapshot is no older than what is published and than the runs to    *)
(* be marked.                                                              *)
SnapshotIsNew ==
    step \in {"read", "stage", "promote", "mark"} =>
        /\ file["core"] <= snapshot
        /\ \A r \in inTime : runFacts[r] <= snapshot

(* What is staged: the dashboard's files from the snapshot, the shipping   *)
(* index from it or a later one.                                           *)
StagedFiles ==
    /\ step \in {"stage", "promote", "mark"} =>
         staged["home"] = snapshot /\ staged["core"] = snapshot
    /\ step \in {"promote", "mark"} => staged["shipping"] >= snapshot

(* What is promoted, by the number of files moved.                         *)
Promoted ==
    /\ step \in {"begin", "read", "stage"} => moved = 0
    /\ step = "promote" => moved \in 0..3
    /\ (step = "promote" /\ moved >= 1) \/ step = "mark" => file["home"] = snapshot
    /\ (step = "promote" /\ moved >= 2) \/ step = "mark" => file["shipping"] >= snapshot
    /\ step = "mark" => file["core"] = snapshot

DashboardInv ==
    /\ TypeOK /\ OneWorker /\ InTimeReady
    /\ SnapshotIsNew /\ StagedFiles /\ Promoted
    /\ CoreNeverAhead /\ PublishedMeansShown

-----------------------------------------------------------------------------
(* The empty dashboard satisfies the invariant.                            *)
LEMMA InitInv == Init => DashboardInv
<1> SUFFICES ASSUME Init PROVE DashboardInv
  OBVIOUS
<1> USE DashboardAssumption DEF Init
<1>1. FactTypes
  BY DEF FactTypes
<1>2. FlagTypes
  BY Zenon DEF FlagTypes
<1>3. BoundTypes
  BY DEF BoundTypes
<1>4. UnitTypes
  BY DEF UnitTypes, Units, Steps
<1>5. RunTypes
  BY DEF RunTypes
<1>6. OneWorker /\ InTimeReady /\ SnapshotIsNew /\ StagedFiles /\ Promoted
  BY DEF OneWorker, InTimeReady, SnapshotIsNew, StagedFiles, Promoted
<1>7. CoreNeverAhead /\ PublishedMeansShown
  BY DEF CoreNeverAhead, PublishedMeansShown, Files
<1> QED
  BY <1>1, <1>2, <1>3, <1>4, <1>5, <1>6, <1>7 DEF DashboardInv, TypeOK

(* A fact arrives, with or without a run that it makes ready.              *)
Arrival ==
    /\ facts < MaxFacts /\ facts' = facts + 1
    /\ \/ UNCHANGED <<ready, runFacts>>
       \/ \E r \in Runs :
            /\ ready[r] = "no"
            /\ ready' = [ready EXCEPT ![r] = "READY"]
            /\ runFacts' = [runFacts EXCEPT ![r] = facts + 1]
    /\ UNCHANGED <<request, unit, step, moved, snapshot, staged, file, inTime>>

(* The markers and the notifier move, nothing of the materialization does. *)
Marking ==
    /\ request' \in {request, facts}
    /\ UNCHANGED <<facts, unit, step, moved, snapshot, staged, file, inTime,
                   ready, runFacts>>

(* A unit starts, enters the script, or leaves the lane or the script.     *)
UnitMoves ==
    /\ \E u \in Units :
         \/ /\ unit[u] \in {"off", "lane"}
            /\ \/ UNCHANGED unit
               \/ \E s \in {"off", "lane"} : unit' = [unit EXCEPT ![u] = s]
            /\ UNCHANGED <<step, moved, snapshot, inTime>>
         \/ /\ unit[u] = "lane" /\ step = "idle"
            /\ unit' = [unit EXCEPT ![u] = "work"]
            /\ step' = "begin" /\ moved' = 0 /\ UNCHANGED snapshot
            /\ inTime' = {r \in Runs : ready[r] = "READY"}
         \/ /\ unit[u] = "work"
            /\ unit' = [unit EXCEPT ![u] = "off"]
            /\ step' = "idle" /\ moved' = 0 /\ snapshot' = 0 /\ inTime' = {}
    /\ UNCHANGED <<facts, request, staged, file, ready, runFacts>>

(* Every step of the specification is one of these, as far as the          *)
(* materialization goes.                                                   *)
LEMMA StepKinds ==
    ASSUME [Next]_vars
    PROVE  Arrival \/ Marking \/ UnitMoves \/ ScriptStep
<1> USE DEF workVars, wakeVars
<1>1. CASE WebhookFact
  BY <1>1 DEF WebhookFact, Arrival
<1>2. CASE \E r \in Runs : RunReady(r)
  BY <1>2 DEF RunReady, Arrival
<1>3. CASE Notify \/ NoticeLost \/ LaterRun
  BY <1>3 DEF Notify, NoticeLost, LaterRun, Marking
<1>4. CASE EnqueueStep \/ EnqueueDies
  BY <1>4 DEF EnqueueStep, EnqueueStarts, EnqueueSkips, EnqueuePends, EnqueueKicks,
     EnqueueDies, Marking
<1>5. ASSUME NEW u \in Units, UnitStep(u) \/ UnitDefers(u) \/ UnitDies(u)
      PROVE UnitMoves
  <2>1. CASE UnitStarts(u)
    BY <2>1 DEF UnitStarts, UnitMoves
  <2>2. CASE UnitEnters(u)
    BY <2>2 DEF UnitEnters, LockFree, UnitMoves
  <2>3. CASE UnitSucceeds(u)
    BY <2>3 DEF UnitSucceeds, ScriptEnds, UnitMoves
  <2>4. CASE UnitDefers(u)
    BY <2>4 DEF UnitDefers, UnitMoves
  <2>5. CASE UnitDies(u)
    BY <2>5 DEF UnitDies, ScriptEnds, UnitMoves
  <2> QED
    BY <1>5, <2>1, <2>2, <2>3, <2>4, <2>5 DEF UnitStep
<1>6. CASE UNCHANGED vars
  BY <1>6 DEF vars, Marking
<1> QED
  BY <1>1, <1>2, <1>3, <1>4, <1>5, <1>6 DEF Next

(* The flags stay Boolean.                                                 *)
LEMMA FlagsStep ==
    ASSUME FlagTypes, [Next]_vars
    PROVE  FlagTypes'
<1> USE DEF workVars, wakeVars
<1>1. CASE WebhookFact \/ Notify \/ NoticeLost \/ LaterRun
  BY <1>1, Zenon DEF WebhookFact, Notify, NoticeLost, LaterRun, FlagTypes
<1>2. CASE \E r \in Runs : RunReady(r)
  BY <1>2, Zenon DEF RunReady, FlagTypes
<1>3. CASE EnqueueStep \/ EnqueueDies
  BY <1>3, Zenon DEF EnqueueStep, EnqueueStarts, EnqueueSkips, EnqueuePends,
     EnqueueKicks, EnqueueDies, FlagTypes
<1>4. ASSUME NEW u \in Units, UnitStarts(u) PROVE FlagTypes'
  <2>1. pending' \in BOOLEAN
    BY <1>4, Zenon DEF UnitStarts, FlagTypes
  <2>2. kicked' \in BOOLEAN /\ wanted' \in BOOLEAN
    BY <1>4, Zenon DEF UnitStarts
  <2> QED
    BY <1>4, <2>1, <2>2, Zenon DEF UnitStarts, FlagTypes
<1>5. ASSUME NEW u \in Units,
             UnitEnters(u) \/ UnitSucceeds(u) \/ UnitDefers(u) \/ UnitDies(u)
      PROVE FlagTypes'
  BY <1>5, Zenon DEF UnitEnters, UnitSucceeds, UnitDefers, UnitDies, FlagTypes
<1>6. CASE ScriptStep
  <2>1. CASE Promote
    <3>1. newer' \in BOOLEAN
      BY <2>1, Zenon DEF Promote, FlagTypes
    <3> QED
      BY <2>1, <3>1, Zenon DEF Promote, FlagTypes
  <2>2. CASE ReadFacts \/ StageDashboard \/ StageIndexes \/ MarkPublished
    BY <2>2, Zenon DEF ReadFacts, StageDashboard, StageIndexes, MarkPublished, FlagTypes
  <2> QED
    BY <1>6, <2>1, <2>2 DEF ScriptStep
<1>7. CASE UNCHANGED vars
  BY <1>7, Zenon DEF vars, FlagTypes
<1> QED
  BY <1>1, <1>2, <1>3, <1>4, <1>5, <1>6, <1>7, Zenon DEF Next, UnitStep

(* The counter of deferrals and failures stays within its bound.           *)
LEMMA BoundsStep ==
    ASSUME BoundTypes, [Next]_vars
    PROVE  BoundTypes'
<1> USE DashboardAssumption DEF workVars, wakeVars, BoundTypes, Fault
<1>1. CASE WebhookFact \/ Notify \/ NoticeLost \/ LaterRun
  BY <1>1 DEF WebhookFact, Notify, NoticeLost, LaterRun
<1>2. CASE \E r \in Runs : RunReady(r)
  BY <1>2 DEF RunReady
<1>3. CASE EnqueueStep \/ EnqueueDies
  BY <1>3 DEF EnqueueStep, EnqueueStarts, EnqueueSkips, EnqueuePends, EnqueueKicks,
     EnqueueDies
<1>4. ASSUME NEW u \in Units,
             UnitStarts(u) \/ UnitEnters(u) \/ UnitSucceeds(u) \/ UnitDies(u)
      PROVE BoundTypes'
  BY <1>4 DEF UnitStarts, UnitEnters, UnitSucceeds, UnitDies
<1>5. ASSUME NEW u \in Units, UnitDefers(u) PROVE BoundTypes'
  BY <1>5 DEF UnitDefers
<1>6. CASE ScriptStep
  BY <1>6 DEF ScriptStep, ReadFacts, StageDashboard, StageIndexes, Promote, MarkPublished
<1>7. CASE UNCHANGED vars
  BY <1>7 DEF vars
<1> QED
  BY <1>1, <1>2, <1>3, <1>4, <1>5, <1>6, <1>7 DEF Next, UnitStep

(* Staging two files keeps the type of the staging area.                   *)
LEMMA StagedTwice ==
    ASSUME NEW S, NEW T, NEW h \in [S -> T], NEW a \in S, NEW b \in S,
           NEW x \in T, NEW y \in T
    PROVE  [h EXCEPT ![a] = x, ![b] = y] \in [S -> T]
<1>1. [h EXCEPT ![a] = x] \in [S -> T]
  OBVIOUS
<1> QED
  BY <1>1

(* Facts only grow, and what shows facts goes on showing existing ones.    *)
LEMMA FactsStep ==
    ASSUME DashboardInv, [Next]_vars
    PROVE  FactTypes' /\ facts <= facts'
<1> USE DEF DashboardInv, TypeOK, FactTypes
<1>1. CASE Arrival
  <2>1. facts' \in 0..MaxFacts /\ 0..facts \subseteq 0..facts' /\ facts + 1 \in 0..facts'
    BY <1>1, DashboardAssumption DEF Arrival
  <2>2. runFacts' \in [Runs -> 0..facts']
    BY <1>1, <2>1 DEF Arrival
  <2> QED
    BY <1>1, <2>1, <2>2 DEF Arrival
<1>2. CASE Marking
  BY <1>2, DashboardAssumption DEF Marking
<1>3. CASE UnitMoves
  BY <1>3, DashboardAssumption DEF UnitMoves
<1>4. CASE ScriptStep
  <2> USE DashboardAssumption DEF wakeVars
  <2>1. CASE ReadFacts
    BY <2>1 DEF ReadFacts
  <2>2. CASE StageDashboard
    <3>1. staged' \in [Files -> 0..facts]
      BY <2>2, StagedTwice DEF StageDashboard, Files
    <3> QED
      BY <2>2, <3>1 DEF StageDashboard
  <2>3. CASE StageIndexes
    <3>1. facts \in 0..facts /\ staged["order"] \in 0..facts
      BY DEF Files
    <3>2. PICK order \in {staged["order"], facts} :
            staged' = [staged EXCEPT !["shipping"] = facts, !["order"] = order]
      BY <2>3 DEF StageIndexes
    <3>3. staged' \in [Files -> 0..facts]
      BY <3>1, <3>2, StagedTwice DEF Files
    <3> QED
      BY <2>3, <3>3 DEF StageIndexes
  <2>4. CASE Promote
    <3> DEFINE f == PromotionOrder[moved + 1]
    <3>1. f \in Files
      BY <2>4 DEF Promote, PromotionOrder, Files, Promoted
    <3> HIDE DEF f
    <3>2. file' = [file EXCEPT ![f] = staged[f]] \/ UNCHANGED file
      BY <2>4 DEF Promote, f
    <3>3. file' \in [Files -> 0..facts]
      BY <3>1, <3>2
    <3> QED
      BY <2>4, <3>3 DEF Promote
  <2>5. CASE MarkPublished
    BY <2>5 DEF MarkPublished
  <2> QED
    BY <1>4, <2>1, <2>2, <2>3, <2>4, <2>5 DEF ScriptStep
<1> QED
  BY <1>1, <1>2, <1>3, <1>4, StepKinds

(* One unit at a time, and the script runs while it does.                  *)
LEMMA UnitsStep ==
    ASSUME DashboardInv, [Next]_vars
    PROVE  UnitTypes' /\ OneWorker'
<1> USE DEF DashboardInv, TypeOK, UnitTypes, OneWorker, Steps
<1>1. CASE Arrival
  BY <1>1 DEF Arrival
<1>2. CASE Marking
  BY <1>2 DEF Marking
<1>3. CASE UnitMoves
  BY <1>3 DEF UnitMoves
<1>4. CASE ScriptStep
  BY <1>4 DEF ScriptStep, ReadFacts, StageDashboard, StageIndexes, Promote, MarkPublished,
     Promoted
<1> QED
  BY <1>1, <1>2, <1>3, <1>4, StepKinds

(* Runs to be marked are ready ones, and a run leaves "no" for good.       *)
LEMMA RunsStep ==
    ASSUME DashboardInv, [Next]_vars
    PROVE  RunTypes' /\ InTimeReady'
<1> USE DEF DashboardInv, TypeOK, RunTypes, InTimeReady
<1>1. CASE Arrival
  BY <1>1 DEF Arrival
<1>2. CASE Marking
  BY <1>2 DEF Marking
<1>3. CASE UnitMoves
  BY <1>3 DEF UnitMoves
<1>4. CASE ScriptStep
  BY <1>4 DEF ScriptStep, ReadFacts, StageDashboard, StageIndexes, Promote, MarkPublished,
     wakeVars
<1> QED
  BY <1>1, <1>2, <1>3, <1>4, StepKinds

(* What the script knows of the snapshot, the staged and the promoted      *)
(* files, and the two properties, as far as the other processes go: they   *)
(* add facts and runs, start units and stop them, and write no file.       *)
Progress ==
    /\ SnapshotIsNew /\ StagedFiles /\ Promoted
    /\ CoreNeverAhead /\ PublishedMeansShown

(* Numbers behind the comparisons.                                         *)
LEMMA Numbers ==
    ASSUME DashboardInv
    PROVE  /\ facts \in Nat /\ snapshot \in Nat /\ snapshot <= facts /\ moved \in Nat
           /\ \A f \in Files : /\ file[f] \in Nat /\ file[f] <= facts
                               /\ staged[f] \in Nat
           /\ \A r \in Runs : runFacts[r] \in Nat /\ runFacts[r] <= facts
BY DashboardAssumption DEF DashboardInv, TypeOK, FactTypes, UnitTypes

(* A fact that arrives, a marker that moves and a unit that starts or      *)
(* stops break nothing.                                                    *)
LEMMA OthersKeepProgress ==
    ASSUME DashboardInv, Arrival \/ Marking \/ UnitMoves
    PROVE  Progress'
<1> USE DEF DashboardInv, Progress, SnapshotIsNew, StagedFiles, Promoted, CoreNeverAhead,
        PublishedMeansShown
<1>1. CASE Arrival
  <2>1. CASE UNCHANGED <<ready, runFacts>>
    BY <1>1, <2>1 DEF Arrival
  <2>2. ASSUME NEW r \in Runs, ready[r] = "no",
               ready' = [ready EXCEPT ![r] = "READY"],
               runFacts' = [runFacts EXCEPT ![r] = facts + 1]
        PROVE Progress'
    <3>1. r \notin inTime
      BY <2>2 DEF InTimeReady
    <3>2. \A q \in Runs : q # r => runFacts'[q] = runFacts[q] /\ ready'[q] = ready[q]
      BY <2>2 DEF TypeOK, FactTypes, RunTypes
    <3>3. ready'[r] = "READY"
      BY <2>2 DEF TypeOK, RunTypes
    <3>4. inTime \subseteq Runs
      BY DEF TypeOK, RunTypes
    <3> QED
      BY <1>1, <3>1, <3>2, <3>3, <3>4 DEF Arrival
  <2> QED
    BY <1>1, <2>1, <2>2 DEF Arrival
<1>2. CASE Marking
  BY <1>2 DEF Marking
<1>3. CASE UnitMoves
  BY <1>3 DEF UnitMoves
<1> QED
  BY <1>1, <1>2, <1>3

(* The promotion: the home file shows the snapshot, the shipping index no  *)
(* less, and the core file follows when both are in place.                 *)
LEMMA PromoteKeepsProgress ==
    ASSUME DashboardInv, Promote
    PROVE  Progress'
<1> USE Numbers DEF DashboardInv, Promote
<1>1. moved \in 0..3 /\ step = "promote"
  BY DEF Promoted
<1>2. UNCHANGED <<snapshot, staged, inTime, ready, runFacts>>
  OBVIOUS
<1>3. /\ file["core"] <= snapshot
      /\ \A r \in inTime : runFacts[r] <= snapshot
      /\ staged["home"] = snapshot /\ staged["core"] = snapshot
      /\ staged["shipping"] >= snapshot
  BY <1>1 DEF SnapshotIsNew, StagedFiles
<1>4. file \in [Files -> 0..facts]
  BY DEF TypeOK, FactTypes
<1>5. \A r \in Runs : ready[r] = "PUBLISHED" => runFacts[r] <= file["core"]
  BY DEF PublishedMeansShown, Files
<1>6. CASE moved = 0
  <2>1. file' = [file EXCEPT !["home"] = staged["home"]] /\ step' = "promote" /\ moved' = 1
    BY <1>6 DEF PromotionOrder
  <2>2. /\ file'["home"] = snapshot /\ file'["core"] = file["core"]
        /\ file'["shipping"] = file["shipping"]
    BY <1>3, <1>4, <2>1 DEF Files
  <2> QED
    BY <1>2, <1>3, <1>5, <2>1, <2>2 DEF Progress, SnapshotIsNew, StagedFiles, Promoted,
       CoreNeverAhead, PublishedMeansShown, Files
<1>7. CASE moved = 1
  <2>1. /\ file' = [file EXCEPT !["shipping"] = staged["shipping"]]
        /\ step' = "promote" /\ moved' = 2
    BY <1>7 DEF PromotionOrder
  <2>2. /\ file'["home"] = file["home"] /\ file'["core"] = file["core"]
        /\ file'["shipping"] = staged["shipping"]
    BY <1>4, <2>1 DEF Files
  <2>3. file["home"] = snapshot
    BY <1>1, <1>7 DEF Promoted
  <2> QED
    BY <1>2, <1>3, <1>5, <2>1, <2>2, <2>3 DEF Progress, SnapshotIsNew, StagedFiles,
       Promoted, CoreNeverAhead, PublishedMeansShown, Files
<1>8. CASE moved = 2
  <2>1. /\ file' = [file EXCEPT !["order"] = staged["order"]] \/ UNCHANGED file
        /\ step' = "promote" /\ moved' = 3
    BY <1>8 DEF PromotionOrder
  <2>2. \A f \in {"home", "core", "shipping"} : file'[f] = file[f]
    BY <1>4, <2>1 DEF Files
  <2>3. file["home"] = snapshot /\ file["shipping"] >= snapshot
    BY <1>1, <1>8 DEF Promoted
  <2> QED
    BY <1>2, <1>3, <1>5, <2>1, <2>2, <2>3 DEF Progress, SnapshotIsNew, StagedFiles,
       Promoted, CoreNeverAhead, PublishedMeansShown, Files
<1>9. CASE moved = 3
  <2>1. file' = [file EXCEPT !["core"] = staged["core"]] /\ step' = "mark"
    BY <1>9 DEF PromotionOrder
  <2>2. /\ file'["home"] = file["home"] /\ file'["core"] = snapshot
        /\ file'["shipping"] = file["shipping"]
    BY <1>3, <1>4, <2>1 DEF Files
  <2>3. file["home"] = snapshot /\ file["shipping"] >= snapshot
    BY <1>1, <1>9 DEF Promoted
  <2> QED
    BY <1>2, <1>3, <1>5, <2>1, <2>2, <2>3 DEF Progress, SnapshotIsNew, StagedFiles,
       Promoted, CoreNeverAhead, PublishedMeansShown, Files
<1> QED
  BY <1>1, <1>6, <1>7, <1>8, <1>9

(* The script's other steps: the snapshot is of now, what is staged comes  *)
(* from it, and the runs marked at the end are shown by then.              *)
LEMMA ScriptKeepsProgress ==
    ASSUME DashboardInv, ScriptStep
    PROVE  Progress'
<1> USE Numbers DEF DashboardInv, wakeVars
<1>1. CASE ReadFacts
  <2>1. inTime \subseteq Runs
    BY DEF TypeOK, RunTypes
  <2> QED
    BY <1>1, <2>1 DEF ReadFacts, Progress, SnapshotIsNew, StagedFiles, Promoted,
       CoreNeverAhead, PublishedMeansShown, Files
<1>2. CASE StageDashboard
  <2>1. staged'["home"] = snapshot /\ staged'["core"] = snapshot
    BY <1>2 DEF StageDashboard, TypeOK, FactTypes, Files
  <2> QED
    BY <1>2, <2>1 DEF StageDashboard, Progress, SnapshotIsNew, StagedFiles, Promoted,
       CoreNeverAhead, PublishedMeansShown
<1>3. CASE StageIndexes
  <2>1. PICK order \in {staged["order"], facts} :
          staged' = [staged EXCEPT !["shipping"] = facts, !["order"] = order]
    BY <1>3 DEF StageIndexes
  <2>2. /\ staged'["home"] = staged["home"] /\ staged'["core"] = staged["core"]
        /\ staged'["shipping"] = facts
    BY <2>1 DEF TypeOK, FactTypes, Files
  <2> QED
    BY <1>3, <2>2 DEF StageIndexes, Progress, SnapshotIsNew, StagedFiles, Promoted,
       CoreNeverAhead, PublishedMeansShown
<1>4. CASE Promote
  BY <1>4, PromoteKeepsProgress
<1>5. CASE MarkPublished
  <2>1. /\ file["home"] = snapshot /\ file["core"] = snapshot
        /\ file["shipping"] >= snapshot
        /\ \A r \in inTime : runFacts[r] <= snapshot
    BY <1>5 DEF MarkPublished, Promoted, SnapshotIsNew
  <2>2. ASSUME NEW r \in Runs, ready'[r] = "PUBLISHED"
        PROVE ready[r] = "PUBLISHED" \/ r \in inTime
    BY <1>5, <2>2 DEF MarkPublished, Markable
  <2>3. PublishedMeansShown'
    BY <1>5, <2>1, <2>2 DEF MarkPublished, PublishedMeansShown, Files
  <2> QED
    BY <1>5, <2>3 DEF MarkPublished, Progress, SnapshotIsNew, StagedFiles, Promoted,
       CoreNeverAhead
<1> QED
  BY <1>1, <1>2, <1>3, <1>4, <1>5 DEF ScriptStep

(* Every step keeps the invariant.                                         *)
LEMMA InvStep ==
    ASSUME DashboardInv, [Next]_vars
    PROVE  DashboardInv'
<1>1. Progress'
  BY StepKinds, OthersKeepProgress, ScriptKeepsProgress
<1>2. TypeOK'
  BY FlagsStep, BoundsStep, FactsStep, UnitsStep, RunsStep DEF DashboardInv, TypeOK
<1> QED
  BY <1>1, <1>2, UnitsStep, RunsStep DEF DashboardInv, Progress

(* So it always holds.                                                     *)
LEMMA Invariance == Spec => []DashboardInv
<1>1. DashboardInv /\ [Next]_vars => DashboardInv'
  BY InvStep
<1> QED
  BY <1>1, InitInv, PTL DEF Spec

(* Whatever fails, files show facts that exist and the promotion script    *)
(* runs exactly while one of the two units is in it.                       *)
THEOREM DashboardTypes == Spec => []TypeOK
<1>1. DashboardInv => TypeOK
  BY DEF DashboardInv
<1> QED
  BY <1>1, Invariance, PTL

(* The core file, which an SSE refresh reads last, never shows a fact that *)
(* the home file or the shipping index lacks: not between two moves of a   *)
(* promotion, and not after one that was cut short.                        *)
THEOREM CoreIsLast == Spec => []CoreNeverAhead
<1>1. DashboardInv => CoreNeverAhead
  BY DEF DashboardInv
<1> QED
  BY <1>1, Invariance, PTL

(* A run that mark_full_managed_coordinators_published marks PUBLISHED is  *)
(* shown by every file, and stays shown through later materializations.    *)
THEOREM PublishedIsShown == Spec => []PublishedMeansShown
<1>1. DashboardInv => PublishedMeansShown
  BY DEF DashboardInv
<1> QED
  BY <1>1, Invariance, PTL

-----------------------------------------------------------------------------
(***************************************************************************)
(* Product identity, for any SPUs, SKUs and stores, answers of the         *)
(* platform, observation runs, loads and applies.  IdentityInv follows a   *)
(* plan from its sealed sets to the rows an apply writes: a candidate is   *)
(* stored with all of its plan, and the products of the plan with it.      *)
(***************************************************************************)
Recalls == UNION {{Answers[v][p].recall : p \in Spus} : v \in DOMAIN Answers}
Times == FetchTimes \cup {0}
SetRow == [spu : Spus, at : Times, answer : DOMAIN Answers]
BatchRow == [at : Times, answer : DOMAIN Answers, resolved : Nat]
CatalogRow == [known : BOOLEAN, active : BOOLEAN, spu : Spus \cup {0}]
LoadRow == [pc : {"idle", "running", "done"}, obs : Observations \cup {None}, at : Times,
            todo : SUBSET Spus, got : [Spus -> DOMAIN Answers \cup {0}]]
ApplyRow == [pc : {"idle", "begun", "locked", "committed"},
             plan : Nat, obs : Observations \cup {None}, audit : Audits \cup {None},
             touched : SUBSET Skus, late : BOOLEAN]

TableTypes ==
    /\ site \in DOMAIN Answers /\ catalog \in [Skus -> CatalogRow]
    /\ batch \in [Observations -> [Spus -> BatchRow \cup {None}]]
    /\ sets \in [Observations -> [Skus -> SetRow \cup {None}]]
    /\ DOMAIN products = Recalls

MemoryTypes ==
    /\ load \in [Loads -> LoadRow] /\ app \in [Applies -> ApplyRow]
    /\ \A l \in Loads : load[l].todo # {} => load[l].obs \in Observations
    /\ \E S : plans \in Seq(S)

(* A set comes from the answer of its SPU's fetch batch.                   *)
BatchInv ==
    \A o \in Observations : \A s \in Skus : sets[o][s] # None =>
        LET b == batch[o][sets[o][s].spu]
        IN  b # None /\ b.at = sets[o][s].at /\ b.answer = sets[o][s].answer

(* A node of a plan holds sealed sets of one SPU, and no other node does.  *)
SoundNode(o, n) ==
    /\ n.spu \in Spus /\ DOMAIN n.sets \subseteq Skus /\ DOMAIN n.sets # {}
    /\ \A s \in DOMAIN n.sets : /\ sets[o][s] # None /\ n.sets[s] = sets[o][s]
                                /\ n.sets[s].spu = n.spu
SoundPlan(plan) ==
    /\ plan.obs \in Observations /\ plan.components = Components(plan.nodes)
    /\ IsFiniteSet(plan.nodes)
    /\ \A n \in plan.nodes : SoundNode(plan.obs, n)
    /\ \A n, q \in plan.nodes : n.spu = q.spu => n = q
PlansInv == \A h \in DOMAIN plans : SoundPlan(plans[h])

(* The SKUs are where the evidence of the run saw them.                    *)
Standing(o, S) == \A s \in S : Active(s) /\ catalog[s].spu = sets[o][s].spu

ApplyInv(a) ==
    LET h == app[a].plan IN
    /\ h \in DOMAIN plans \cup {0}
    /\ app[a].pc \in {"begun", "locked", "committed"} =>
         h \in DOMAIN plans /\ app[a].obs = plans[h].obs
    /\ app[a].pc = "begun" => Standing(app[a].obs, AffectedSkus(plans[h]) \ app[a].touched)
    /\ app[a].pc = "locked" => Standing(app[a].obs, AffectedSkus(plans[h]))
    /\ app[a].pc = "committed" => Candidates(h, app[a].audit) \subseteq candidates

(* A candidate is stored with all others of its plan and audit, and each   *)
(* of them maps its SKU.                                                   *)
CandidateInv(c) ==
    /\ c.plan \in DOMAIN plans /\ c \in Candidates(c.plan, c.audit)
    /\ Candidates(c.plan, c.audit) \subseteq candidates
    /\ c.sku \in Skus /\ assigned[c.sku] = c
    /\ \A k \in plans[c.plan].components : products[k] = SetMembers(plans[c.plan], k)

MappingInv ==
    /\ \A c \in candidates : CandidateInv(c)
    /\ \A s \in Skus : assigned[s] # None => assigned[s] \in candidates /\ assigned[s].sku = s
    /\ \A k \in Recalls : products[k] # {} =>
         \E c \in candidates : k \in plans[c.plan].components

IdentityRest ==
    /\ BatchInv /\ PlansInv /\ MappingInv
    /\ \A a \in Applies : ApplyInv(a)
IdentityInv == TableTypes /\ MemoryTypes /\ IdentityRest

-----------------------------------------------------------------------------
(* Data.                                                                   *)

(* A set of naturals has a least member.                                   *)
LEMMA LeastIsMember ==
    ASSUME NEW S \in SUBSET Nat, S # {}
    PROVE  Min(S) \in S /\ \A y \in S : Min(S) <= y
<1>1. PICK x \in S : \A y \in S : ~(<<y, x>> \in OpToRel(<, Nat))
  BY NatLessThanWellFounded, WFMin
<1>2. ASSUME NEW y \in S PROVE x <= y
  <2>1. ~(y < x)
    BY <1>1 DEF OpToRel
  <2> QED
    BY <2>1
<1> QED
  BY <1>2 DEF Min

LEMMA RowsAreSome == None \notin SetRow /\ None \notin BatchRow
BY DEF None, SetRow, BatchRow

LEMMA CandidateIsSome ==
    ASSUME NEW h, NEW n, NEW s, NEW u
    PROVE  /\ Candidate(h, n, s, u) # None
           /\ Candidate(h, n, s, u).component = Profile(n).recall
           /\ Candidate(h, n, s, u).source = <<plans[h].obs, s>>
           /\ Candidate(h, n, s, u).sku = s
           /\ Candidate(h, n, s, u).plan = h
           /\ Candidate(h, n, s, u).audit = u
BY DEF Candidate, None

(* Two members make a cardinality above one, and need one.                 *)
LEMMA TwoMembers ==
    ASSUME NEW S, IsFiniteSet(S), NEW x \in S, NEW y \in S, x # y
    PROVE  Cardinality(S) > 1
<1>1. IsFiniteSet({x, y}) /\ Cardinality({x, y}) = 2
  <2>1. {x, y} = {x} \cup {y} /\ y \notin {x}
    OBVIOUS
  <2>2. IsFiniteSet({x}) /\ Cardinality({x}) = 1
    BY FS_Singleton
  <2>3. IsFiniteSet({x} \cup {y}) /\ Cardinality({x} \cup {y}) = 2
    BY <2>1, <2>2, FS_AddElement
  <2> QED
    BY <2>1, <2>3
<1>2. Cardinality({x, y}) <= Cardinality(S) /\ Cardinality(S) \in Nat
  BY FS_Subset, FS_CardinalityType
<1> QED
  BY <1>1, <1>2

LEMMA MembersOfTwo ==
    ASSUME NEW S, IsFiniteSet(S), Cardinality(S) >= 2
    PROVE  \E x, y \in S : x # y
<1>1. S # {} /\ ~\E x : S = {x}
  BY FS_EmptySet, FS_Singleton
<1>2. PICK x \in S : TRUE
  BY <1>1
<1>3. S # {x}
  BY <1>1
<1> QED
  BY <1>2, <1>3

-----------------------------------------------------------------------------
(* The members of a plan's components.                                     *)

\* Node n of the plan has a set of SKU s and is of component k.
Has(plan, k, n, s) ==
    /\ n \in plan.nodes /\ s \in DOMAIN n.sets /\ s \in Skus
    /\ k \in plan.components /\ Profile(n).recall = k

LEMMA AffectedAre ==
    ASSUME NEW plan, \A n \in plan.nodes : DOMAIN n.sets \subseteq Skus
    PROVE  \A s : s \in AffectedSkus(plan) <=> \E n \in plan.nodes : Has(plan, Profile(n).recall, n, s)
BY DEF AffectedSkus, Accepted, Has

LEMMA CandidatesAre ==
    ASSUME NEW h, NEW u
    PROVE  /\ \A c \in Candidates(h, u) :
                \E n \in plans[h].nodes : \E s \in Skus :
                   c = Candidate(h, n, s, u) /\ Has(plans[h], Profile(n).recall, n, s)
           /\ \A n \in plans[h].nodes : \A s \in Skus :
                Has(plans[h], Profile(n).recall, n, s) => Candidate(h, n, s, u) \in Candidates(h, u)
<1> DEFINE P == plans[h]
           R == {q \in Accepted(P) \X Skus : q[2] \in DOMAIN q[1].sets}
<1>1. Candidates(h, u) = {Candidate(h, r[1], r[2], u) : r \in R}
  BY DEF Candidates
<1>2. ASSUME NEW c \in Candidates(h, u)
      PROVE  \E n \in P.nodes : \E s \in Skus :
                c = Candidate(h, n, s, u) /\ Has(P, Profile(n).recall, n, s)
  <2>1. PICK r \in R : c = Candidate(h, r[1], r[2], u)
    BY <1>1, <1>2
  <2>2. r[1] \in Accepted(P) /\ r[2] \in Skus /\ r[2] \in DOMAIN r[1].sets
    OBVIOUS
  <2> QED
    BY <2>1, <2>2 DEF Accepted, Has
<1>3. ASSUME NEW n \in P.nodes, NEW s \in Skus, Has(P, Profile(n).recall, n, s)
      PROVE  Candidate(h, n, s, u) \in Candidates(h, u)
  <2>1. n \in Accepted(P) /\ s \in DOMAIN n.sets
    BY <1>3 DEF Has, Accepted
  <2>2. <<n, s>> \in R /\ <<n, s>>[1] = n /\ <<n, s>>[2] = s
    BY <2>1
  <2> QED
    BY <1>1, <2>2
<1> QED
  BY <1>2, <1>3

(* The provenance of a component, member by member.                        *)
Member(plan, n, s) ==
    [set |-> <<plan.obs, s>>, spu |-> n.spu, content |-> n.sets[s],
     representative |-> s = Representative(n)]

LEMMA SetMembersAre ==
    ASSUME NEW plan, NEW k
    PROVE  /\ \A x \in SetMembers(plan, k) :
                \E n \in plan.nodes : \E s \in Skus :
                  /\ x = Member(plan, n, s) /\ s \in DOMAIN n.sets /\ Profile(n).recall = k
                  /\ x.set[1] = plan.obs /\ x.set[2] = s
           /\ \A n \in plan.nodes : \A s \in Skus :
                s \in DOMAIN n.sets /\ Profile(n).recall = k =>
                  /\ Member(plan, n, s) \in SetMembers(plan, k)
                  /\ Member(plan, n, s).set[1] = plan.obs /\ Member(plan, n, s).set[2] = s
<1> DEFINE R == {q \in Group(plan.nodes, k) \X Skus : q[2] \in DOMAIN q[1].sets}
<1>1. SetMembers(plan, k) = {Member(plan, r[1], r[2]) : r \in R}
  BY DEF SetMembers, Member
<1>2. \A n, s : Member(plan, n, s).set[1] = plan.obs /\ Member(plan, n, s).set[2] = s
  BY DEF Member
<1>3. ASSUME NEW x \in SetMembers(plan, k)
      PROVE  \E n \in plan.nodes : \E s \in Skus :
                  /\ x = Member(plan, n, s) /\ s \in DOMAIN n.sets /\ Profile(n).recall = k
                  /\ x.set[1] = plan.obs /\ x.set[2] = s
  <2>1. PICK r \in R : x = Member(plan, r[1], r[2])
    BY <1>1, <1>3
  <2>2. r[1] \in Group(plan.nodes, k) /\ r[2] \in Skus /\ r[2] \in DOMAIN r[1].sets
    OBVIOUS
  <2> QED
    BY <1>2, <2>1, <2>2 DEF Group
<1>4. ASSUME NEW n \in plan.nodes, NEW s \in Skus, s \in DOMAIN n.sets, Profile(n).recall = k
      PROVE  Member(plan, n, s) \in SetMembers(plan, k)
  <2>1. n \in Group(plan.nodes, k)
    BY <1>4 DEF Group
  <2>2. <<n, s>> \in R /\ <<n, s>>[1] = n /\ <<n, s>>[2] = s
    BY <1>4, <2>1
  <2> QED
    BY <1>1, <2>2
<1> QED
  BY <1>2, <1>3, <1>4

-----------------------------------------------------------------------------
(* Two plans that agree on what they say of SKUs, and the sets they name.  *)

\* Nodes of a sound plan that share a SKU are one node.
LEMMA OneNodePerSku ==
    ASSUME NEW plan, SoundPlan(plan), NEW n \in plan.nodes, NEW q \in plan.nodes,
           NEW s, s \in DOMAIN n.sets, s \in DOMAIN q.sets
    PROVE  n = q
<1>1. SoundNode(plan.obs, n) /\ SoundNode(plan.obs, q)
  BY DEF SoundPlan
<1>2. n.spu = q.spu
  BY <1>1 DEF SoundNode
<1> QED
  BY <1>2 DEF SoundPlan

\* A component of a sound plan has two nodes at least, of two stores, any two
\* of them confirmed; and a recall identity that the platform knows.
LEMMA ComponentFacts ==
    ASSUME NEW plan, SoundPlan(plan), NEW k \in plan.components, sets \in [Observations -> [Skus -> SetRow \cup {None}]]
    PROVE  LET g == Group(plan.nodes, k) IN
           /\ IsFiniteSet(g) /\ (\E n, q \in g : n # q) /\ Clique(g)
           /\ \A n, q \in g : n # q => Store[n.spu] # Store[q.spu]
           /\ k \in Recalls
<1> DEFINE g == Group(plan.nodes, k)
           T == {Store[n.spu] : n \in g}
           f == [n \in g |-> Store[n.spu]]
<1>1. /\ k \in {Profile(n).recall : n \in plan.nodes} /\ Cardinality(T) = Cardinality(g)
      /\ Cardinality(g) >= 2 /\ Clique(g)
  BY DEF SoundPlan, Components
<1>2. IsFiniteSet(g)
  <2>1. g \in SUBSET plan.nodes
    BY DEF Group
  <2> QED
    BY <2>1, FS_Subset DEF SoundPlan
<1>3. \E n, q \in g : n # q
  BY <1>1, <1>2, MembersOfTwo
<1>4. f \in Injection(g, T)
  <2>1. f \in Surjection(g, T)
    BY DEF Surjection
  <2> QED
    BY <1>1, <1>2, <2>1, FS_SurjSameCardinalityImpliesInj
<1>5. \A n, q \in g : n # q => Store[n.spu] # Store[q.spu]
  BY <1>4 DEF Injection, IsInjective
<1>6. k \in Recalls
  <2>1. PICK n \in plan.nodes : k = Profile(n).recall
    BY <1>1
  <2>2. SoundNode(plan.obs, n) /\ plan.obs \in Observations
    BY DEF SoundPlan
  <2>3. DOMAIN n.sets \in SUBSET Nat /\ DOMAIN n.sets # {} /\ n.spu \in Spus
    BY <2>2, OrderAssumption DEF SoundNode
  <2>4. PICK r \in DOMAIN n.sets : r = Representative(n)
    BY <2>3, LeastIsMember DEF Representative
  <2>5. n.sets[r] \in SetRow
    BY <2>2 DEF SoundNode
  <2>6. n.sets[r].answer \in DOMAIN Answers
    BY <2>5 DEF SetRow
  <2>7. k = Answers[n.sets[r].answer][n.spu].recall
    BY <2>1, <2>4 DEF Profile, Details
  <2> QED
    BY <2>3, <2>6, <2>7 DEF Recalls
<1> QED
  BY <1>1, <1>2, <1>3, <1>5, <1>6

(* A candidate is of a SKU in a component of its plan.                     *)
LEMMA CandidateNode ==
    ASSUME NEW c \in candidates, CandidateInv(c)
    PROVE  \E n \in plans[c.plan].nodes :
             /\ c = Candidate(c.plan, n, c.sku, c.audit)
             /\ Has(plans[c.plan], Profile(n).recall, n, c.sku)
             /\ c.component = Profile(n).recall
<1>1. PICK n \in plans[c.plan].nodes, s \in Skus :
        c = Candidate(c.plan, n, s, c.audit) /\ Has(plans[c.plan], Profile(n).recall, n, s)
  BY CandidatesAre DEF CandidateInv
<1>2. c.sku = s /\ c.component = Profile(n).recall
  BY <1>1, CandidateIsSome
<1> QED
  BY <1>1, <1>2

(* The SKUs of one canonical product are those of one component of one     *)
(* plan, with the sets that plan saw.                                      *)
LEMMA MappedFacts ==
    ASSUME IdentityInv, NEW k \in Recalls, Mapped(k) # {}
    PROVE  \E h \in DOMAIN plans : \E u :
             /\ SoundPlan(plans[h]) /\ k \in plans[h].components
             /\ products[k] = SetMembers(plans[h], k)
             /\ \A s \in Skus : s \in Mapped(k) =>
                  \E n \in Group(plans[h].nodes, k) : s \in DOMAIN n.sets
             /\ \A n \in Group(plans[h].nodes, k) : \A s \in DOMAIN n.sets :
                  /\ s \in Mapped(k) /\ assigned[s] = Candidate(h, n, s, u)
                  /\ Source(s) = n.sets[s]
<1>1. PICK t \in Skus : assigned[t] # None /\ assigned[t].component = k
  BY DEF Mapped
<1>2. PICK c \in candidates : c = assigned[t] /\ c.component = k /\ CandidateInv(c)
  BY <1>1 DEF IdentityInv, IdentityRest, MappingInv
<1>3. PICK h, u : h = c.plan /\ u = c.audit
  OBVIOUS
<1>4. /\ h \in DOMAIN plans /\ SoundPlan(plans[h]) /\ k \in plans[h].components
      /\ Candidates(h, u) \subseteq candidates
      /\ products[k] = SetMembers(plans[h], k)
  <2>1. k \in plans[c.plan].components
    BY <1>2, CandidateNode DEF Has
  <2> QED
    BY <1>2, <1>3, <2>1 DEF CandidateInv, IdentityInv, IdentityRest, PlansInv
<1>5. ASSUME NEW n \in Group(plans[h].nodes, k), NEW s \in DOMAIN n.sets
      PROVE  /\ s \in Mapped(k) /\ assigned[s] = Candidate(h, n, s, u)
             /\ Source(s) = n.sets[s]
  <2>1. /\ n \in plans[h].nodes /\ Profile(n).recall = k /\ SoundNode(plans[h].obs, n)
        /\ s \in Skus /\ n.sets[s] = sets[plans[h].obs][s]
    BY <1>4, <1>5 DEF Group, SoundPlan, SoundNode
  <2>2. Has(plans[h], Profile(n).recall, n, s)
    BY <1>4, <1>5, <2>1 DEF Has
  <2>3. PICK d \in candidates : d = Candidate(h, n, s, u)
    BY <1>4, <2>1, <2>2, CandidatesAre
  <2>4. /\ d # None /\ d.component = k /\ d.sku = s /\ d.source = <<plans[h].obs, s>>
    BY <2>1, <2>3, CandidateIsSome
  <2>5. assigned[s] = d
    BY <2>4 DEF IdentityInv, IdentityRest, MappingInv, CandidateInv
  <2> QED
    BY <2>1, <2>3, <2>4, <2>5 DEF Mapped, Source
<1>6. ASSUME NEW s \in Skus, s \in Mapped(k)
      PROVE  \E n \in Group(plans[h].nodes, k) : s \in DOMAIN n.sets
  <2>1. PICK d \in candidates : d = assigned[s] /\ d.component = k /\ d.sku = s /\ CandidateInv(d)
    BY <1>6 DEF Mapped, IdentityInv, IdentityRest, MappingInv
  <2>2. PICK n \in plans[d.plan].nodes : Has(plans[d.plan], k, n, s)
    BY <2>1, CandidateNode
  <2>3. products[k] = SetMembers(plans[d.plan], k) /\ s \in DOMAIN n.sets /\ Profile(n).recall = k
    BY <2>1, <2>2 DEF Has, CandidateInv
  <2>4. PICK x \in SetMembers(plans[h], k) : x.set[2] = s
    BY <1>4, <2>3, SetMembersAre
  <2>5. PICK q \in plans[h].nodes : s \in DOMAIN q.sets /\ Profile(q).recall = k
    BY <2>4, SetMembersAre
  <2> QED
    BY <2>5 DEF Group
<1> QED
  BY <1>4, <1>5, <1>6

LEMMA OnePlanHolds == IdentityInv => ProductIsOnePlan
<1> SUFFICES ASSUME IdentityInv, NEW k \in Recalls
             PROVE  /\ Mapped(k) = {x.set[2] : x \in products[k]}
                    /\ \A s, t \in Mapped(k) : /\ assigned[s].plan = assigned[t].plan
                                               /\ assigned[s].audit = assigned[t].audit
  BY DEF ProductIsOnePlan, IdentityInv, TableTypes
<1>1. CASE Mapped(k) = {}
  <2>1. products[k] = {}
    <3> SUFFICES ASSUME products[k] # {} PROVE FALSE
      OBVIOUS
    <3>1. PICK c \in candidates : k \in plans[c.plan].components /\ CandidateInv(c)
      BY DEF IdentityInv, IdentityRest, MappingInv
    <3>2. PICK x \in SetMembers(plans[c.plan], k) : TRUE
      BY <3>1 DEF CandidateInv
    <3>3. PICK n \in plans[c.plan].nodes, s \in Skus :
            s \in DOMAIN n.sets /\ Profile(n).recall = k
      BY <3>2, SetMembersAre
    <3>4. Has(plans[c.plan], Profile(n).recall, n, s)
      BY <3>1, <3>3 DEF Has
    <3>5. PICK d \in candidates : d = Candidate(c.plan, n, s, c.audit)
      BY <3>1, <3>3, <3>4, CandidatesAre DEF CandidateInv
    <3>6. d # None /\ d.component = k /\ d.sku = s
      BY <3>3, <3>5, CandidateIsSome
    <3>7. assigned[s] = d
      BY <3>6 DEF IdentityInv, IdentityRest, MappingInv, CandidateInv
    <3> QED
      BY <1>1, <3>3, <3>6, <3>7 DEF Mapped
  <2> QED
    BY <1>1, <2>1
<1>2. CASE Mapped(k) # {}
  <2> DEFINE Facts(h, u) ==
             /\ products[k] = SetMembers(plans[h], k)
             /\ \A s \in Skus : s \in Mapped(k) =>
                  \E n \in Group(plans[h].nodes, k) : s \in DOMAIN n.sets
             /\ \A n \in Group(plans[h].nodes, k) : \A s \in DOMAIN n.sets :
                  s \in Mapped(k) /\ assigned[s] = Candidate(h, n, s, u)
  <2>1. \E h, u : Facts(h, u)
    BY <1>2, MappedFacts, SMTT(40)
  <2>2. PICK h, u : Facts(h, u)
    BY <2>1
  <2>3. ASSUME NEW s \in Mapped(k)
        PROVE  /\ \E n \in Group(plans[h].nodes, k) : s \in DOMAIN n.sets
               /\ assigned[s].plan = h /\ assigned[s].audit = u
    <3>1. s \in Skus
      BY <2>3 DEF Mapped
    <3>2. PICK n \in Group(plans[h].nodes, k) : s \in DOMAIN n.sets
      BY <2>2, <2>3, <3>1
    <3>3. assigned[s] = Candidate(h, n, s, u)
      BY <2>2, <3>2
    <3> QED
      BY <3>2, <3>3, CandidateIsSome
  <2>4. ASSUME NEW x \in products[k] PROVE x.set[2] \in Mapped(k)
    <3>1. PICK n \in plans[h].nodes, s \in Skus :
            s \in DOMAIN n.sets /\ Profile(n).recall = k /\ x.set[2] = s
      BY <2>2, <2>4, SetMembersAre
    <3> QED
      BY <2>2, <3>1 DEF Group
  <2>5. ASSUME NEW s \in Mapped(k) PROVE \E x \in products[k] : x.set[2] = s
    <3>1. PICK n \in Group(plans[h].nodes, k) : s \in DOMAIN n.sets
      BY <2>3, <2>5
    <3>2. s \in Skus /\ n \in plans[h].nodes /\ Profile(n).recall = k
      BY <2>5, <3>1 DEF Mapped, Group
    <3> QED
      BY <2>2, <3>1, <3>2, SetMembersAre
  <2> QED
    BY <2>3, <2>4, <2>5
<1> QED
  BY <1>1, <1>2

(* What a confirmed pair shares, in terms of the attributes themselves.    *)
LEMMA PairEvidence ==
    ASSUME NEW x, NEW y, Confirmed(x, y),
           \A b \in x.attributes \cup y.attributes : b = [id |-> b.id, value |-> b.value]
    PROVE  LET shared == x.attributes \cap y.attributes IN
           /\ \/ x.barcodes \cap y.barcodes # {}
              \/ Cardinality({b.id : b \in shared} \cap Curated) > 1
           /\ \A b \in x.attributes : \A c \in y.attributes :
                b.id \in Hard /\ b.id = c.id => b \in shared \/ c \in shared
<1> DEFINE shared == x.attributes \cap y.attributes
           I == {b.id : b \in shared} \cap Curated
<1>1. \A b \in x.attributes, c \in y.attributes :
        b.id = c.id /\ b.value = c.value => b = c
  OBVIOUS
<1>2. \A i : /\ \A v : v \in Values(x, i) <=> \E b \in x.attributes : b.id = i /\ b.value = v
             /\ \A v : v \in Values(y, i) <=> \E b \in y.attributes : b.id = i /\ b.value = v
  BY DEF Values
<1>3. CuratedPairs(x, y) = I
  <2>1. ASSUME NEW i \in CuratedPairs(x, y) PROVE i \in I
    <3>1. i \in Curated /\ Values(x, i) \cap Values(y, i) # {}
      BY <2>1 DEF CuratedPairs
    <3>2. PICK v : v \in Values(x, i) /\ v \in Values(y, i)
      BY <3>1
    <3>3. PICK b \in x.attributes, c \in y.attributes :
            b.id = i /\ b.value = v /\ c.id = i /\ c.value = v
      BY <1>2, <3>2
    <3>4. b \in shared
      BY <1>1, <3>3
    <3> QED
      BY <3>1, <3>3, <3>4
  <2>2. ASSUME NEW i \in I PROVE i \in CuratedPairs(x, y)
    <3>1. PICK b \in shared : b.id = i /\ i \in Curated
      BY <2>2
    <3>2. b.value \in Values(x, i) /\ b.value \in Values(y, i)
      BY <1>2, <3>1
    <3> QED
      BY <3>1, <3>2 DEF CuratedPairs
  <2> QED
    BY <2>1, <2>2
<1>4. Cardinality(I) \in Nat
  <2>1. I \in SUBSET Curated
    OBVIOUS
  <2>2. IsFiniteSet(I)
    BY <2>1, FiniteAssumption, FS_Subset
  <2> QED
    BY <2>2, FS_CardinalityType
<1>5. x.barcodes \cap y.barcodes # {} \/ Cardinality(I) > 1
  <2>1. x.barcodes \cap y.barcodes # {} \/ Cardinality(I) >= 2
    BY <1>3 DEF Confirmed, BarcodePair
  <2> QED
    BY <1>4, <2>1
<1>6. ASSUME NEW b \in x.attributes, NEW c \in y.attributes, b.id \in Hard, b.id = c.id,
             b \notin shared, c \notin shared
      PROVE  FALSE
  <2>1. b.value \in Values(x, b.id) /\ c.value \in Values(y, b.id)
    BY <1>2, <1>6
  <2>2. b.value \notin Values(y, b.id)
    <3> SUFFICES ASSUME b.value \in Values(y, b.id) PROVE FALSE
      OBVIOUS
    <3>1. PICK d \in y.attributes : d.id = b.id /\ d.value = b.value
      BY <1>2
    <3>2. d = b
      BY <1>1, <3>1
    <3> QED
      BY <1>6, <3>2
  <2>3. Values(x, b.id) # Values(y, b.id)
    BY <2>1, <2>2
  <2>4. b.id \in HardConflicts(x, y)
    BY <1>6, <2>1, <2>3 DEF HardConflicts
  <2> QED
    BY <2>4 DEF Confirmed
<1> QED
  BY <1>5, <1>6

LEMMA MatchedHolds == IdentityInv => MappedMeansMatched
<1> SUFFICES ASSUME IdentityInv, NEW k \in Recalls
    PROVE LET mapped == Mapped(k)
            spus == {Source(s).spu : s \in mapped}
            first == [p \in spus |-> Min({s \in mapped : Source(s).spu = p})]
            details == [p \in spus |-> Details(p, Source(first[p]).answer)]
            Shared(p, q) == details[p].attributes \cap details[q].attributes
            Differs(p, q) == {i \in Hard : \E b \in details[p].attributes : b.id = i /\ b \notin Shared(p, q)}
        IN  /\ mapped # {} => Cardinality(spus) > 1
            /\ \A p, q \in spus : p < q =>
                /\ Store[p] # Store[q]
                /\ \/ details[p].barcodes[first[p]] \cap details[q].barcodes[first[q]] # {}
                   \/ Cardinality({b.id : b \in Shared(p, q)} \cap Curated) > 1
                /\ Differs(p, q) \cap Differs(q, p) = {}
  BY DEF MappedMeansMatched, IdentityInv, TableTypes
<1> DEFINE mapped == Mapped(k)
           spus == {Source(s).spu : s \in mapped}
           first == [p \in spus |-> Min({s \in mapped : Source(s).spu = p})]
           details == [p \in spus |-> Details(p, Source(first[p]).answer)]
           Shared(p, q) == details[p].attributes \cap details[q].attributes
           Differs(p, q) == {i \in Hard : \E b \in details[p].attributes : b.id = i /\ b \notin Shared(p, q)}
<1>1. CASE mapped = {}
  BY <1>1
<1>2. CASE mapped # {}
  <2> DEFINE Facts(P) ==
             /\ SoundPlan(P) /\ k \in P.components
             /\ \A s \in Skus : s \in mapped =>
                  \E n \in Group(P.nodes, k) : s \in DOMAIN n.sets
             /\ \A n \in Group(P.nodes, k) : \A s \in DOMAIN n.sets :
                  s \in mapped /\ Source(s) = n.sets[s]
  <2>1. \E P : Facts(P)
    BY <1>2, MappedFacts
  <2>2. PICK P : Facts(P)
    BY <2>1
  <2>3. PICK g : g = Group(P.nodes, k)
    OBVIOUS
  <2>4. /\ IsFiniteSet(g) /\ (\E n, q \in g : n # q) /\ Clique(g)
        /\ \A n, q \in g : n # q => Store[n.spu] # Store[q.spu]
    BY <2>2, <2>3, ComponentFacts DEF IdentityInv, TableTypes
  <2>5. \A n \in g : n \in P.nodes /\ SoundNode(P.obs, n)
    BY <2>2, <2>3 DEF Group, SoundPlan
  <2>6. \A n, q \in g : n.spu = q.spu => n = q
    BY <2>2, <2>5 DEF SoundPlan
  <2>7. ASSUME NEW n \in g
        PROVE  /\ n.spu \in spus /\ {s \in mapped : Source(s).spu = n.spu} = DOMAIN n.sets
               /\ first[n.spu] = Representative(n)
               /\ details[n.spu] = Details(n.spu, n.sets[Representative(n)].answer)
               /\ Representative(n) \in DOMAIN n.sets
    <3>1. \A s \in DOMAIN n.sets : s \in mapped /\ Source(s) = n.sets[s] /\ Source(s).spu = n.spu
      BY <2>2, <2>3, <2>5, <2>7 DEF SoundNode
    <3>2. ASSUME NEW s \in mapped, Source(s).spu = n.spu PROVE s \in DOMAIN n.sets
      <4>1. s \in Skus
        BY <3>2 DEF Mapped
      <4>2. PICK q \in g : s \in DOMAIN q.sets
        BY <2>2, <2>3, <3>2, <4>1
      <4>3. Source(s) = q.sets[s] /\ q.sets[s].spu = q.spu
        BY <2>2, <2>3, <2>5, <4>2 DEF SoundNode
      <4> QED
        BY <2>6, <3>2, <4>2, <4>3
    <3>3. {s \in mapped : Source(s).spu = n.spu} = DOMAIN n.sets
      BY <3>1, <3>2
    <3>4. DOMAIN n.sets \in SUBSET Nat /\ DOMAIN n.sets # {}
      BY <2>5, OrderAssumption DEF SoundNode
    <3>5. Representative(n) \in DOMAIN n.sets
      BY <3>4, LeastIsMember DEF Representative
    <3>6. n.spu \in spus
      BY <3>1, <3>4
    <3>7. first[n.spu] = Representative(n)
      BY <3>3, <3>6 DEF Representative
    <3>8. details[n.spu] = Details(n.spu, n.sets[Representative(n)].answer)
      BY <3>1, <3>5, <3>6, <3>7
    <3> QED
      BY <3>3, <3>5, <3>6, <3>7, <3>8
  <2>8. \A p \in spus : \E n \in g : n.spu = p
    <3> SUFFICES ASSUME NEW s \in mapped PROVE \E n \in g : n.spu = Source(s).spu
      OBVIOUS
    <3>1. s \in Skus
      BY DEF Mapped
    <3>2. PICK q \in g : s \in DOMAIN q.sets
      BY <2>2, <2>3, <3>1
    <3>3. Source(s) = q.sets[s] /\ q.sets[s].spu = q.spu
      BY <2>2, <2>3, <2>5, <3>2 DEF SoundNode
    <3> QED
      BY <3>2, <3>3
  <2>9. Cardinality(spus) > 1
    <3>1. IsFiniteSet(spus)
      <4> DEFINE f == [n \in g |-> n.spu]
      <4>1. f \in Surjection(g, spus)
        BY <2>7, <2>8 DEF Surjection
      <4> QED
        BY <2>4, <4>1, FS_Surjection
    <3>2. PICK n \in g, q \in g : n.spu # q.spu
      BY <2>4, <2>6
    <3> QED
      BY <2>7, <3>1, <3>2, TwoMembers
  <2> HIDE DEF mapped, spus, first, details
  <2>10. ASSUME NEW p \in spus, NEW q \in spus, p < q
         PROVE  /\ Store[p] # Store[q]
                /\ \/ details[p].barcodes[first[p]] \cap details[q].barcodes[first[q]] # {}
                   \/ Cardinality({b.id : b \in Shared(p, q)} \cap Curated) > 1
                /\ Differs(p, q) \cap Differs(q, p) = {}
    <3>1. PICK n \in g, r \in g : n.spu = p /\ r.spu = q
      BY <2>8, <2>10
    <3>2. n.spu \in Nat /\ r.spu \in Nat /\ n # r /\ Confirmed(Profile(n), Profile(r))
      <4>1. n.spu \in Nat /\ r.spu \in Nat
        BY <2>5, OrderAssumption DEF SoundNode
      <4> QED
        BY <2>4, <2>10, <3>1, <4>1 DEF Clique
    <3>3. Store[p] # Store[q]
      BY <2>4, <3>1, <3>2
    <3>4. PICK x, y : x = Profile(n) /\ y = Profile(r)
      OBVIOUS
    <3>5. /\ x.attributes = details[p].attributes /\ x.barcodes = details[p].barcodes[first[p]]
          /\ y.attributes = details[q].attributes /\ y.barcodes = details[q].barcodes[first[q]]
      BY <2>7, <3>1, <3>4 DEF Profile
    <3>6. \A b \in x.attributes \cup y.attributes : b = [id |-> b.id, value |-> b.value]
      <4>1. ASSUME NEW m \in g
            PROVE  /\ m.spu \in Spus
                   /\ m.sets[Representative(m)].answer \in DOMAIN Answers
        <5>1. Representative(m) \in DOMAIN m.sets /\ SoundNode(P.obs, m) /\ P.obs \in Observations
          BY <2>2, <2>5, <2>7 DEF SoundPlan
        <5>2. m.sets[Representative(m)] \in SetRow /\ m.spu \in Spus
          BY <5>1 DEF SoundNode, IdentityInv, TableTypes
        <5> QED
          BY <5>2 DEF SetRow
      <4>2. /\ \A b \in details[p].attributes : b = [id |-> b.id, value |-> b.value]
            /\ \A b \in details[q].attributes : b = [id |-> b.id, value |-> b.value]
        BY <2>7, <3>1, <4>1, AnswerAssumption DEF Details
      <4> QED
        BY <3>5, <4>2
    <3>7. LET shared == x.attributes \cap y.attributes IN
           /\ \/ x.barcodes \cap y.barcodes # {}
              \/ Cardinality({b.id : b \in shared} \cap Curated) > 1
           /\ \A b \in x.attributes : \A c \in y.attributes :
                b.id \in Hard /\ b.id = c.id => b \in shared \/ c \in shared
      BY <3>2, <3>4, <3>6, PairEvidence
    <3>8. Differs(p, q) \cap Differs(q, p) = {}
      BY <3>5, <3>7
    <3> QED
      BY <3>3, <3>5, <3>7, <3>8
  <2> QED
    BY <2>9, <2>10 DEF mapped, spus, first, details
<1> QED
  BY <1>1, <1>2

(* Sets of one SPU in one run repeat one fetch batch.                      *)
LEMMA OneAnswerHolds == IdentityInv => OneAnswerPerSpu
<1> SUFFICES ASSUME IdentityInv, NEW o \in Observations, NEW s \in Skus, NEW t \in Skus,
                    sets[o][s] # None, sets[o][t] # None, sets[o][s].spu = sets[o][t].spu
             PROVE  sets[o][s] = sets[o][t]
  BY DEF OneAnswerPerSpu, Sealed
<1>1. sets[o][s] \in SetRow /\ sets[o][t] \in SetRow
  BY DEF IdentityInv, TableTypes
<1>2. sets[o][s].at = sets[o][t].at /\ sets[o][s].answer = sets[o][t].answer
  BY DEF IdentityInv, IdentityRest, BatchInv
<1> QED
  BY <1>1, <1>2 DEF SetRow

LEMMA TypesHold == IdentityInv => IdentityTypeOK
<1> SUFFICES ASSUME IdentityInv PROVE IdentityTypeOK
  OBVIOUS
<1>1. /\ site \in DOMAIN Answers
      /\ \A s \in Skus : catalog[s] \in [known : BOOLEAN, active : BOOLEAN, spu : Spus \union {0}]
  BY DEF IdentityInv, TableTypes, CatalogRow
<1>2. \A l \in Loads : load[l].todo \subseteq Spus /\ load[l].pc \in {"idle", "running", "done"}
  BY DEF IdentityInv, MemoryTypes, LoadRow
<1>3. \A a \in Applies :
        /\ app[a].pc \in {"idle", "begun", "locked", "committed", "refuted"}
        /\ app[a].touched \subseteq Skus /\ app[a].plan \in 0..Len(plans)
  <2> SUFFICES ASSUME NEW a \in Applies
               PROVE  /\ app[a].pc \in {"idle", "begun", "locked", "committed", "refuted"}
                      /\ app[a].touched \subseteq Skus /\ app[a].plan \in 0..Len(plans)
    OBVIOUS
  <2>1. app[a] \in ApplyRow /\ app[a].plan \in DOMAIN plans \cup {0}
    BY DEF IdentityInv, MemoryTypes, IdentityRest, ApplyInv
  <2>2. DOMAIN plans = 1..Len(plans) /\ Len(plans) \in Nat
    BY LenProperties DEF IdentityInv, MemoryTypes
  <2> QED
    BY <2>1, <2>2 DEF ApplyRow
<1>4. \A s \in Skus : assigned[s] # None => assigned[s].sku = s /\ assigned[s] \in candidates
  BY DEF IdentityInv, IdentityRest, MappingInv
<1> QED
  BY <1>1, <1>2, <1>3, <1>4 DEF IdentityTypeOK

-----------------------------------------------------------------------------
(* What a step may do to the evidence and to the plans.                    *)

\* A set that is sealed stays as it is.
SetsKept == \A o \in Observations : \A s \in Skus :
    sets[o][s] # None => sets'[o][s] = sets[o][s]

LEMMA SoundPlanKept ==
    ASSUME NEW CONSTANT plan, SoundPlan(plan), SetsKept PROVE SoundPlan(plan)'
<1>1. \A n \in plan.nodes : SoundNode(plan.obs, n)'
  <2> SUFFICES ASSUME NEW n \in plan.nodes PROVE SoundNode(plan.obs, n)'
    OBVIOUS
  <2>1. SoundNode(plan.obs, n) /\ plan.obs \in Observations
    BY DEF SoundPlan
  <2>2. \A s \in DOMAIN n.sets : s \in Skus /\ sets'[plan.obs][s] = sets[plan.obs][s]
    BY <2>1 DEF SoundNode, SetsKept
  <2> QED
    BY <2>1, <2>2 DEF SoundNode
<1> QED
  BY <1>1 DEF SoundPlan, Components, Group, Clique

(* The SKUs that a sound plan maps have sealed sets.                       *)
LEMMA AffectedAreSealed ==
    ASSUME NEW plan, SoundPlan(plan)
    PROVE  \A s \in AffectedSkus(plan) : s \in Skus /\ sets[plan.obs][s] # None
<1> SUFFICES ASSUME NEW s \in AffectedSkus(plan) PROVE s \in Skus /\ sets[plan.obs][s] # None
  OBVIOUS
<1>1. PICK n \in plan.nodes : s \in DOMAIN n.sets
  BY DEF AffectedSkus, Accepted
<1> QED
  BY <1>1 DEF SoundPlan, SoundNode

(* The plan a dry run makes is sound.                                      *)
LEMMA PlanIsSound ==
    ASSUME TableTypes, NEW o \in Observations, NEW ign PROVE SoundPlan(Plan(o, ign))
<1> DEFINE NodeOf(p) == [spu |-> p,
                         sets |-> [s \in Members(o, p) |-> sets[o][s]],
                         assigned |-> [s \in Members(o, p) |-> Fingerprint(s, ign)]]
           f == [s \in Sealed(o) |-> NodeOf(sets[o][s].spu)]
           N == Nodes(o, ign)
<1>1. N = {NodeOf(p) : p \in {sets[o][s].spu : s \in Sealed(o)}}
  BY DEF Nodes
<1>2. IsFiniteSet(N)
  <2>1. Sealed(o) \in SUBSET Skus
    BY DEF Sealed
  <2>2. IsFiniteSet(Sealed(o))
    BY <2>1, FiniteAssumption, FS_Subset
  <2>3. f \in Surjection(Sealed(o), N)
    <3> HIDE DEF NodeOf
    <3> QED
      BY <1>1 DEF Surjection
  <2> QED
    BY <2>2, <2>3, FS_Surjection
<1>3. \A p : /\ NodeOf(p).spu = p /\ NodeOf(p).sets = [s \in Members(o, p) |-> sets[o][s]]
             /\ DOMAIN NodeOf(p).sets = Members(o, p)
             /\ \A s \in Members(o, p) : NodeOf(p).sets[s] = sets[o][s]
  OBVIOUS
<1> HIDE DEF NodeOf
<1>4. ASSUME NEW n \in N PROVE SoundNode(o, n)
  <2>1. PICK t \in Sealed(o) : n = NodeOf(sets[o][t].spu)
    BY <1>1, <1>4
  <2>2. PICK p : p = sets[o][t].spu
    OBVIOUS
  <2>3. t \in Skus /\ sets[o][t] # None /\ sets[o][t] \in SetRow /\ t \in Members(o, p)
    BY <2>2 DEF Sealed, Members, TableTypes
  <2>4. p \in Spus /\ n.spu = p
    BY <1>3, <2>1, <2>2, <2>3 DEF SetRow
  <2>5. \A s \in Members(o, p) : s \in Skus /\ sets[o][s] # None /\ sets[o][s].spu = p
    BY DEF Members, Sealed
  <2> QED
    BY <1>3, <2>1, <2>2, <2>3, <2>4, <2>5 DEF SoundNode
<1>5. \A n, q \in N : n.spu = q.spu => n = q
  BY <1>1, <1>3
<1>6. /\ Plan(o, ign).obs = o /\ Plan(o, ign).nodes = N
      /\ Plan(o, ign).components = Components(N)
  BY DEF Plan
<1> HIDE DEF N
<1> QED
  BY <1>2, <1>4, <1>5, <1>6 DEF SoundPlan

(* A new plan comes after the others.                                      *)
LEMMA PlansGrow ==
    ASSUME NEW S, plans \in Seq(S), NEW plan, plans' = Append(plans, plan)
    PROVE  /\ plans' \in Seq(S \cup {plan})
           /\ \A h \in DOMAIN plans : h \in DOMAIN plans' /\ plans'[h] = plans[h]
           /\ \A h \in DOMAIN plans' : h \in DOMAIN plans \/ plans'[h] = plan
           /\ DOMAIN plans \subseteq Nat
<1>1. plans \in Seq(S \cup {plan})
  BY SeqMonotonic
<1>2. /\ plans' \in Seq(S \cup {plan}) /\ Len(plans') = Len(plans) + 1
      /\ \A i \in 1..Len(plans) : plans'[i] = plans[i]
      /\ plans'[Len(plans) + 1] = plan
  BY <1>1, AppendProperties
<1>3. DOMAIN plans = 1..Len(plans) /\ DOMAIN plans' = 1..Len(plans') /\ Len(plans) \in Nat
  BY <1>1, <1>2, LenProperties
<1> QED
  BY <1>2, <1>3

-----------------------------------------------------------------------------
(* The steps.  The mapping invariant is kept by whoever writes none of it. *)
PlansKept ==
    /\ \A h \in DOMAIN plans : h \in DOMAIN plans' /\ plans'[h] = plans[h]
    /\ 0 \notin DOMAIN plans

LEMMA CandidatesKept ==
    ASSUME PlansKept, NEW CONSTANT h, h \in DOMAIN plans, NEW CONSTANT u
    PROVE  Candidates(h, u)' = Candidates(h, u)
<1>1. plans'[h] = plans[h]
  BY DEF PlansKept
<1> QED
  BY <1>1 DEF Candidates, Candidate, Target

LEMMA MappingKept ==
    ASSUME MappingInv, PlansKept, UNCHANGED mapping PROVE MappingInv'
<1>1. /\ products' = products /\ candidates' = candidates /\ assigned' = assigned
  BY DEF mapping
<1>2. ASSUME NEW c \in candidates PROVE CandidateInv(c)'
  <2>1. CandidateInv(c) /\ c.plan \in DOMAIN plans
    BY <1>2 DEF MappingInv, CandidateInv
  <2>2. /\ c.plan \in DOMAIN plans' /\ plans'[c.plan] = plans[c.plan]
        /\ Candidates(c.plan, c.audit)' = Candidates(c.plan, c.audit)
    BY <2>1, CandidatesKept DEF PlansKept
  <2> QED
    BY <1>1, <2>1, <2>2 DEF CandidateInv
<1>3. \A k \in Recalls : products'[k] # {} => \E c \in candidates' : k \in plans'[c.plan].components
  BY <1>1 DEF MappingInv, CandidateInv, PlansKept
<1> QED
  BY <1>1, <1>2, <1>3 DEF MappingInv

(* An apply that does not move, among evidence, plans and candidates that  *)
(* only grow, is right about the SKUs nobody has moved.                    *)
LEMMA ApplyKept ==
    ASSUME NEW a \in Applies, ApplyInv(a), PlansInv, SetsKept, PlansKept,
           app'[a].pc = app[a].pc, app'[a].plan = app[a].plan, app'[a].obs = app[a].obs,
           app'[a].audit = app[a].audit, candidates \subseteq candidates',
           app[a].pc = "begun" =>
             /\ app[a].touched \subseteq app'[a].touched
             /\ \A s \in AffectedSkus(plans[app[a].plan]) \ app'[a].touched :
                  catalog'[s] = catalog[s],
           app[a].pc = "locked" => \A s \in AffectedSkus(plans[app[a].plan]) :
             catalog'[s] = catalog[s]
    PROVE  ApplyInv(a)'
<1>1. PICK h, o, u, T : /\ h = app[a].plan /\ o = app[a].obs /\ u = app[a].audit
                       /\ T = app'[a].touched
  OBVIOUS
<1>2. h \in DOMAIN plans' \cup {0}
  BY <1>1 DEF ApplyInv, PlansKept
<1>3. CASE app[a].pc \notin {"begun", "locked", "committed"}
  BY <1>1, <1>2, <1>3 DEF ApplyInv
<1>4. CASE app[a].pc \in {"begun", "locked", "committed"}
  <2>1. h \in DOMAIN plans /\ h \in DOMAIN plans' /\ plans'[h] = plans[h] /\ o = plans[h].obs
    BY <1>1, <1>4 DEF ApplyInv, PlansKept
  <2>2. SoundPlan(plans[h])
    BY <2>1 DEF PlansInv
  <2>3. PICK P : P = plans[h]
    OBVIOUS
  <2>4. \A s \in AffectedSkus(P) : sets'[o][s] = sets[o][s]
    BY <2>1, <2>2, <2>3, AffectedAreSealed DEF SetsKept, SoundPlan
  <2>5. Candidates(h, u)' = Candidates(h, u)
    BY <2>1, CandidatesKept
  <2>6. app[a].pc = "begun" => Standing(o, AffectedSkus(P) \ T)'
    <3>1. SUFFICES ASSUME app[a].pc = "begun" PROVE Standing(o, AffectedSkus(P) \ T)'
      OBVIOUS
    <3>2. \A s \in AffectedSkus(P) \ T : /\ catalog[s].known /\ catalog[s].active
                                         /\ catalog[s].spu = sets[o][s].spu
      BY <1>1, <2>3, <3>1 DEF ApplyInv, Standing, Active, Known
    <3>3. \A s \in AffectedSkus(P) \ T : catalog'[s] = catalog[s]
      BY <1>1, <2>3, <3>1
    <3> QED
      BY <2>4, <3>2, <3>3 DEF Standing, Active, Known
  <2>7. app[a].pc = "locked" => Standing(o, AffectedSkus(P))'
    BY <1>1, <2>1, <2>3, <2>4 DEF ApplyInv, Standing, Active, Known
  <2>8. app[a].pc = "committed" => Candidates(h, u)' \subseteq candidates'
    BY <1>1, <2>5 DEF ApplyInv
  <2>9. plans'[h] = P
    BY <2>1, <2>3
  <2> QED
    BY <1>1, <1>2, <2>1, <2>3, <2>6, <2>7, <2>8, <2>9 DEF ApplyInv
<1> QED
  BY <1>3, <1>4

LEMMA PlansStay ==
    ASSUME MemoryTypes, plans' = plans PROVE PlansKept /\ DOMAIN plans \subseteq Nat
<1>1. DOMAIN plans = 1..Len(plans) /\ Len(plans) \in Nat
  BY LenProperties DEF MemoryTypes
<1> QED
  BY <1>1 DEF PlansKept

(* Steps that touch the loads only.                                        *)
LEMMA LoadOnly ==
    ASSUME IdentityInv, load' \in [Loads -> LoadRow],
           \A l \in Loads : load'[l].todo # {} => load'[l].obs \in Observations,
           site' \in DOMAIN Answers,
           UNCHANGED <<catalog, batch, sets, plans, products, candidates, assigned, app>>
    PROVE  IdentityInv'
<1>1. PlansKept /\ SetsKept
  BY PlansStay DEF IdentityInv, SetsKept
<1>2. TableTypes' /\ MemoryTypes'
  BY DEF IdentityInv, TableTypes, MemoryTypes
<1>3. BatchInv'
  BY DEF IdentityInv, IdentityRest, BatchInv
<1>4. PlansInv'
  BY <1>1, SoundPlanKept DEF IdentityInv, IdentityRest, PlansInv
<1>5. MappingInv'
  BY <1>1, MappingKept DEF IdentityInv, IdentityRest, mapping
<1>6. \A a \in Applies : ApplyInv(a)'
  BY <1>1, ApplyKept DEF IdentityInv, IdentityRest
<1> QED
  BY <1>2, <1>3, <1>4, <1>5, <1>6 DEF IdentityInv, IdentityRest

(* The catalog changes, and applies that began before take note.           *)
LEMMA UpdateStep ==
    ASSUME IdentityInv, NEW S \in SUBSET Skus, NEW rows \in [Skus -> CatalogRow],
           \A s \in Skus \ S : rows[s] = catalog[s], UpdateSkus(S, rows)
    PROVE  IdentityInv'
<1>1. /\ catalog' = rows /\ S \cap LockedSkus = {}
      /\ app' = [a \in Applies |-> IF app[a].pc = "begun"
                                   THEN [app[a] EXCEPT !.touched = app[a].touched \union S]
                                   ELSE app[a]]
      /\ UNCHANGED <<site, batch, sets, load, plans, products, candidates, assigned>>
  BY DEF UpdateSkus
<1>2. PlansKept /\ SetsKept /\ app \in [Applies -> ApplyRow]
  BY <1>1, PlansStay DEF IdentityInv, SetsKept, MemoryTypes
<1>3. ASSUME NEW a \in Applies
      PROVE  /\ app'[a] \in ApplyRow /\ app'[a].pc = app[a].pc /\ app'[a].plan = app[a].plan
             /\ app'[a].obs = app[a].obs /\ app'[a].audit = app[a].audit
             /\ app[a].pc = "begun" => app'[a].touched = app[a].touched \cup S
  <2>1. app[a] \in ApplyRow
    BY <1>2
  <2>2. CASE app[a].pc = "begun"
    <3>1. app'[a] = [app[a] EXCEPT !.touched = app[a].touched \union S]
      BY <1>1, <2>2
    <3> QED
      BY <2>1, <3>1 DEF ApplyRow
  <2>3. CASE app[a].pc # "begun"
    <3>1. app'[a] = app[a]
      BY <1>1, <2>3
    <3> QED
      BY <2>1, <2>3, <3>1
  <2> QED
    BY <2>2, <2>3
<1>4. app' \in [Applies -> ApplyRow]
  BY <1>1, <1>3
<1>5. TableTypes' /\ MemoryTypes' /\ BatchInv'
  BY <1>1, <1>4 DEF IdentityInv, IdentityRest, TableTypes, MemoryTypes, BatchInv
<1>6. PlansInv'
  BY <1>1, <1>2, SoundPlanKept DEF IdentityInv, IdentityRest, PlansInv
<1>7. MappingInv'
  BY <1>1, <1>2, MappingKept DEF IdentityInv, IdentityRest, mapping
<1>8. ASSUME NEW a \in Applies PROVE ApplyInv(a)'
  <2>1. ApplyInv(a) /\ PlansInv
    BY DEF IdentityInv, IdentityRest
  <2>2. app[a].pc \in {"begun", "locked"} => AffectedSkus(plans[app[a].plan]) \subseteq Skus
    BY <2>1, AffectedAreSealed DEF ApplyInv, PlansInv
  <2>3. app[a].pc = "begun" =>
             /\ app[a].touched \subseteq app'[a].touched
             /\ \A s \in AffectedSkus(plans[app[a].plan]) \ app'[a].touched :
                  catalog'[s] = catalog[s]
    BY <1>1, <1>3, <2>2
  <2>4. app[a].pc = "locked" => \A s \in AffectedSkus(plans[app[a].plan]) :
             catalog'[s] = catalog[s]
    <3> SUFFICES ASSUME app[a].pc = "locked", NEW s \in AffectedSkus(plans[app[a].plan])
                 PROVE  catalog'[s] = catalog[s]
      OBVIOUS
    <3>1. s \in LockedSkus
      BY DEF LockedSkus
    <3> QED
      BY <1>1, <2>2, <3>1
  <2> QED
    BY <1>1, <1>2, <1>3, <2>1, <2>3, <2>4, ApplyKept
<1> QED
  BY <1>5, <1>6, <1>7, <1>8 DEF IdentityInv, IdentityRest

LEMMA CatalogLoadStep ==
    ASSUME IdentityInv, NEW c \in Listings, CatalogLoad(c.store, c.skus) PROVE IdentityInv'
<1> DEFINE retired == {s \in Skus \ c.skus : SkuStore[s] = c.store /\ Active(s)}
           rows == [s \in Skus |-> [known |-> catalog[s].known \/ s \in c.skus,
                             active |-> (catalog[s].active \/ s \in c.skus) /\ s \notin retired,
                             spu |-> catalog[s].spu]]
<1>1. c.skus \union retired \in SUBSET Skus /\ UpdateSkus(c.skus \union retired, rows)
  BY CatalogAssumption DEF CatalogLoad
<1>2. \A s \in Skus : catalog[s] \in CatalogRow
  BY DEF IdentityInv, TableTypes
<1>3. rows \in [Skus -> CatalogRow]
  BY <1>2 DEF CatalogRow
<1>4. ASSUME NEW s \in Skus \ (c.skus \union retired) PROVE rows[s] = catalog[s]
  <2>1. /\ catalog[s].known \in BOOLEAN /\ catalog[s].active \in BOOLEAN
        /\ catalog[s] = [known |-> catalog[s].known, active |-> catalog[s].active,
                         spu |-> catalog[s].spu]
    BY <1>2 DEF CatalogRow
  <2>2. s \notin c.skus /\ s \notin retired
    OBVIOUS
  <2>3. (catalog[s].known \/ s \in c.skus) = catalog[s].known
    BY <2>1, <2>2
  <2>4. ((catalog[s].active \/ s \in c.skus) /\ s \notin retired) = catalog[s].active
    BY <2>1, <2>2
  <2> QED
    BY <2>1, <2>3, <2>4
<1> HIDE DEF rows, retired
<1> QED
  BY <1>1, <1>3, <1>4, UpdateStep

LEMMA EnrichCatalogStep ==
    ASSUME IdentityInv, NEW p \in Supplied, EnrichCatalog(p) PROVE IdentityInv'
<1>1. PICK S : S = {s \in Details(p, site).skus : Known(s)}
  OBVIOUS
<1> DEFINE rows == [s \in Skus |-> IF s \in S THEN [catalog[s] EXCEPT !.spu = p] ELSE catalog[s]]
<1>2. UpdateSkus(S, rows)
  BY <1>1 DEF EnrichCatalog
<1>3. S \in SUBSET Skus /\ p \in Spus
  <2>1. site \in DOMAIN Answers /\ p \in Spus
    BY CatalogAssumption DEF IdentityInv, TableTypes
  <2> QED
    BY <1>1, <2>1, AnswerAssumption DEF Details
<1>4. \A s \in Skus : catalog[s] \in CatalogRow
  BY DEF IdentityInv, TableTypes
<1>5. rows \in [Skus -> CatalogRow]
  BY <1>3, <1>4 DEF CatalogRow
<1>6. \A s \in Skus \ S : rows[s] = catalog[s]
  OBVIOUS
<1> HIDE DEF rows
<1> QED
  BY <1>2, <1>3, <1>5, <1>6, UpdateStep

LEMMA SiteStep == ASSUME IdentityInv, SiteChanges PROVE IdentityInv'
<1>1. /\ site < Len(Answers) /\ site' = site + 1 /\ load' = load
      /\ UNCHANGED <<catalog, batch, sets, plans, products, candidates, assigned, app>>
  BY DEF SiteChanges
<1>2. site' \in DOMAIN Answers
  BY <1>1, AnswerAssumption DEF IdentityInv, TableTypes
<1> QED
  BY <1>1, <1>2, LoadOnly DEF IdentityInv, MemoryTypes

-----------------------------------------------------------------------------
(* The evidence load.                                                      *)
LEMMA IdleRow ==
    ASSUME NEW pc \in {"idle", "running", "done"}
    PROVE  Idle(pc) \in LoadRow /\ Idle(pc).todo = {} /\ Idle(pc).pc = pc
BY DEF Idle, LoadRow, Times

\* An SPU of a load is over.
LEMMA SettleType ==
    ASSUME IdentityInv, NEW l \in Loads, NEW p \in load[l].todo, Settle(l, p)
    PROVE  /\ load' \in [Loads -> LoadRow]
           /\ \A m \in Loads : load'[m].todo # {} => load'[m].obs \in Observations
<1>1. /\ load \in [Loads -> LoadRow] /\ load[l] \in LoadRow
      /\ \A m \in Loads : load[m].todo # {} => load[m].obs \in Observations
  BY DEF IdentityInv, MemoryTypes
<1>2. PICK todo : todo = load[l].todo \ {p}
  OBVIOUS
<1>3. CASE todo = {}
  <2>1. load' = [load EXCEPT ![l] = Idle("done")]
    BY <1>2, <1>3 DEF Settle
  <2> QED
    BY <1>1, <2>1, IdleRow
<1>4. CASE todo # {}
  <2>1. load' = [load EXCEPT ![l] = [load[l] EXCEPT !.todo = todo, !.got[p] = 0]]
    BY <1>2, <1>4 DEF Settle
  <2>2. PICK r : r = [load[l] EXCEPT !.todo = todo, !.got[p] = 0]
    OBVIOUS
  <2>3. r \in LoadRow /\ r.obs = load[l].obs
    BY <1>1, <1>2, <2>2 DEF LoadRow
  <2>4. load[l].obs \in Observations
    BY <1>1
  <2> QED
    BY <1>1, <2>1, <2>2, <2>3, <2>4
<1> QED
  BY <1>3, <1>4

LEMMA FingerprintType ==
    ASSUME NEW p, NEW v \in DOMAIN Answers
    PROVE  ResponseFingerprint(p, v) \in DOMAIN Answers
<1> DEFINE W == {w \in DOMAIN Answers : Details(p, w) = Details(p, v)}
<1>1. W \in SUBSET Nat /\ W # {} /\ W \subseteq DOMAIN Answers
  BY AnswerAssumption
<1> HIDE DEF W
<1>2. Min(W) \in W
  BY <1>1, LeastIsMember
<1> QED
  BY <1>1, <1>2 DEF ResponseFingerprint, W

LEMMA LoadSteps ==
    ASSUME IdentityInv, NEW l \in Loads,
           \/ \E o \in Observations, at \in FetchTimes : StartLoad(l, o, at)
           \/ \E p \in Spus : FetchSpuInfo(l, p) \/ SpuFails(l, p)
    PROVE  IdentityInv'
<1>0. /\ load \in [Loads -> LoadRow] /\ load[l] \in LoadRow /\ site \in DOMAIN Answers
      /\ \A m \in Loads : load[m].todo # {} => load[m].obs \in Observations
  BY DEF IdentityInv, TableTypes, MemoryTypes
<1>1. /\ site' = site
      /\ UNCHANGED <<catalog, batch, sets, plans, products, candidates, assigned, app>>
  BY DEF StartLoad, FetchSpuInfo, SpuFails
<1>2. ASSUME NEW o \in Observations, NEW at \in FetchTimes, StartLoad(l, o, at)
      PROVE  IdentityInv'
  <2>1. PICK U : /\ U = {catalog[s].spu : s \in {t \in Skus : Active(t)}} \ {0}
                 /\ load' = [load EXCEPT ![l] = [Idle("running") EXCEPT !.obs = o, !.at = at, !.todo = U]]
    BY <1>2 DEF StartLoad
  <2>2. U \in SUBSET Spus
    <3>1. \A s \in Skus : catalog[s].spu \in Spus \cup {0}
      BY DEF IdentityInv, TableTypes, CatalogRow
    <3> QED
      BY <2>1, <3>1
  <2>3. PICK r : r = [Idle("running") EXCEPT !.obs = o, !.at = at, !.todo = U]
    OBVIOUS
  <2>4. r \in LoadRow /\ r.obs = o
    BY <2>2, <2>3, IdleRow DEF LoadRow, Times
  <2>5. /\ load' \in [Loads -> LoadRow]
        /\ \A m \in Loads : load'[m].todo # {} => load'[m].obs \in Observations
    BY <1>0, <2>1, <2>3, <2>4
  <2> QED
    BY <1>0, <1>1, <2>5, LoadOnly
<1>3. ASSUME NEW p \in Spus, FetchSpuInfo(l, p) PROVE IdentityInv'
  <2>1. PICK x \in DOMAIN Answers : load' = [load EXCEPT ![l].got[p] = x]
    BY <1>0, <1>3, FingerprintType DEF FetchSpuInfo
  <2>2. PICK r : r = [load[l] EXCEPT !.got = [load[l].got EXCEPT ![p] = x]]
    OBVIOUS
  <2>3. r \in LoadRow /\ r.obs = load[l].obs /\ r.todo = load[l].todo
    BY <1>0, <2>2 DEF LoadRow
  <2>4. load' = [load EXCEPT ![l] = r]
    BY <2>1, <2>2
  <2>5. /\ load' \in [Loads -> LoadRow]
        /\ \A m \in Loads : load'[m].todo # {} => load'[m].obs \in Observations
    BY <1>0, <2>3, <2>4
  <2> QED
    BY <1>0, <1>1, <2>5, LoadOnly
<1>4. ASSUME NEW p \in Spus, SpuFails(l, p) PROVE IdentityInv'
  <2>1. p \in load[l].todo /\ Settle(l, p)
    BY <1>4 DEF SpuFails, InFlight
  <2> QED
    BY <1>0, <1>1, <2>1, SettleType, LoadOnly
<1> QED
  BY <1>2, <1>3, <1>4

(* One SPU is recorded.  What the run holds already is what it records.    *)
LEMMA RecordStep ==
    ASSUME IdentityInv, NEW l \in Loads, NEW p \in Spus, RecordObservation(l, p)
    PROVE  IdentityInv'
<1>0. /\ load \in [Loads -> LoadRow] /\ load[l] \in LoadRow
      /\ batch \in [Observations -> [Spus -> BatchRow \cup {None}]]
      /\ sets \in [Observations -> [Skus -> SetRow \cup {None}]]
  BY DEF IdentityInv, TableTypes, MemoryTypes
<1>1. PICK o, x, R, F, D :
        /\ o = load[l].obs /\ x = load[l].got[p] /\ R = Resolved(p, x)
        /\ F = FetchBatch(l, p, x) /\ D = ObservationSet(l, p, x)
  OBVIOUS
<1>2. /\ p \in load[l].todo /\ load[l].got[p] # 0 /\ Settle(l, p)
      /\ UNCHANGED <<site, catalog, plans, products, candidates, assigned, app>>
  BY DEF RecordObservation
<1>3. /\ load' \in [Loads -> LoadRow]
      /\ \A m \in Loads : load'[m].todo # {} => load'[m].obs \in Observations
  BY <1>2, SettleType
<1>4. o \in Observations /\ x \in DOMAIN Answers /\ load[l].at \in Times
  BY <1>0, <1>1, <1>2 DEF IdentityInv, MemoryTypes, LoadRow
<1>5. /\ R \subseteq Skus /\ IsFiniteSet(R)
      /\ F \in BatchRow /\ F.at = load[l].at /\ F.answer = x
      /\ D \in SetRow /\ D.at = load[l].at /\ D.answer = x /\ D.spu = p
  <2>1. R \in SUBSET Skus
    BY <1>1, <1>4, AnswerAssumption DEF Resolved, Details
  <2>2. IsFiniteSet(R) /\ Cardinality(R) \in Nat
    <3>1. IsFiniteSet(R)
      BY <2>1, FiniteAssumption, FS_Subset
    <3> QED
      BY <3>1, FS_CardinalityType
  <2> QED
    BY <1>1, <1>4, <2>1, <2>2 DEF FetchBatch, ObservationSet, BatchRow, SetRow
<1>6. \/ UNCHANGED <<batch, sets>>
      \/ /\ batch[o][p] \in {None, F} /\ \A s \in R : sets[o][s] \in {None, D}
         /\ batch' = [batch EXCEPT ![o] = [batch[o] EXCEPT ![p] = F]]
         /\ sets' = [sets EXCEPT ![o] = [s \in Skus |-> IF s \in R THEN D ELSE sets[o][s]]]
  <2> DEFINE accepted == /\ \A s \in R : catalog[s].spu = p
                         /\ SameBatch(l, p, x) /\ SameSets(l, p, x)
  <2>1. CASE accepted
    <3>1. /\ batch' = [batch EXCEPT ![o][p] = IF batch[o][p] = None THEN F ELSE batch[o][p]]
          /\ sets' = [sets EXCEPT ![o] = [s \in Skus |-> IF s \in R THEN D ELSE sets[o][s]]]
      BY <1>1, <2>1 DEF RecordObservation
    <3>2. batch[o][p] \in {None, F} /\ \A s \in R : sets[o][s] \in {None, D}
      BY <1>1, <2>1 DEF SameBatch, SameSets
    <3>3. (IF batch[o][p] = None THEN F ELSE batch[o][p]) = F
      BY <3>2
    <3>4. batch' = [batch EXCEPT ![o] = [batch[o] EXCEPT ![p] = F]]
      BY <3>1, <3>3
    <3> QED
      BY <3>1, <3>2, <3>4
  <2>2. CASE ~accepted
    BY <1>1, <2>2 DEF RecordObservation, evidence
  <2> QED
    BY <2>1, <2>2
<1>7. /\ sets' \in [Observations -> [Skus -> SetRow \cup {None}]]
      /\ batch' \in [Observations -> [Spus -> BatchRow \cup {None}]] /\ SetsKept
  <2>1. CASE UNCHANGED <<batch, sets>>
    BY <1>0, <2>1 DEF SetsKept
  <2>2. CASE ~UNCHANGED <<batch, sets>>
    <3>1. PICK g : g = [s \in Skus |-> IF s \in R THEN D ELSE sets[o][s]]
      OBVIOUS
    <3>2. g \in [Skus -> SetRow \cup {None}] /\ \A s \in Skus : sets[o][s] # None => g[s] = sets[o][s]
      BY <1>0, <1>4, <1>5, <1>6, <2>2, <3>1
    <3>3. [batch[o] EXCEPT ![p] = F] \in [Spus -> BatchRow \cup {None}]
      BY <1>0, <1>4, <1>5
    <3>4. /\ sets' \in [Observations -> [Skus -> SetRow \cup {None}]]
          /\ batch' \in [Observations -> [Spus -> BatchRow \cup {None}]]
      <4>1. /\ sets' = [sets EXCEPT ![o] = g]
            /\ batch' = [batch EXCEPT ![o] = [batch[o] EXCEPT ![p] = F]]
        BY <1>6, <2>2, <3>1
      <4> QED
        BY <1>0, <1>4, <3>2, <3>3, <4>1
    <3>5. \A q \in Observations : sets'[q] = IF q = o THEN g ELSE sets[q]
      BY <1>0, <1>4, <1>6, <2>2, <3>1
    <3> QED
      BY <3>2, <3>4, <3>5 DEF SetsKept
  <2> QED
    BY <2>1, <2>2
<1>8. BatchInv'
  <2>0. BatchInv
    BY DEF IdentityInv, IdentityRest
  <2>1. CASE UNCHANGED <<batch, sets>>
    BY <2>0, <2>1 DEF BatchInv
  <2>2. CASE ~UNCHANGED <<batch, sets>>
    <3> SUFFICES ASSUME NEW q \in Observations, NEW s \in Skus, sets'[q][s] # None
                 PROVE  /\ batch'[q][sets'[q][s].spu] # None
                        /\ batch'[q][sets'[q][s].spu].at = sets'[q][s].at
                        /\ batch'[q][sets'[q][s].spu].answer = sets'[q][s].answer
      BY DEF BatchInv
    <3>0. F # None
      BY <1>5, RowsAreSome
    <3>1. CASE q # o
      <4>1. sets'[q] = sets[q] /\ batch'[q] = batch[q]
        BY <1>0, <1>6, <2>2, <3>1
      <4> QED
        BY <2>0, <4>1 DEF BatchInv
    <3>2. CASE q = o
      <4>1. /\ batch'[o] = [batch[o] EXCEPT ![p] = F]
            /\ sets'[o] = [t \in Skus |-> IF t \in R THEN D ELSE sets[o][t]]
        BY <1>0, <1>4, <1>6, <2>2
      <4>2. /\ batch'[o][p] = F /\ \A r \in Spus \ {p} : batch'[o][r] = batch[o][r]
        BY <1>0, <1>4, <4>1
      <4>3. CASE s \in R
        <5>1. sets'[o][s] = D
          BY <4>1, <4>3
        <5> QED
          BY <1>5, <3>0, <3>2, <4>2, <5>1
      <4>4. CASE s \notin R
        <5>1. sets'[o][s] = sets[o][s] /\ sets[o][s] # None /\ sets[o][s] \in SetRow
          BY <1>0, <1>4, <3>2, <4>1, <4>4
        <5>2. /\ batch[o][sets[o][s].spu] # None
              /\ batch[o][sets[o][s].spu].at = sets[o][s].at
              /\ batch[o][sets[o][s].spu].answer = sets[o][s].answer
          BY <1>4, <2>0, <5>1 DEF BatchInv
        <5>3. sets[o][s].spu \in Spus
          BY <5>1 DEF SetRow
        <5>4. batch'[o][sets[o][s].spu] = batch[o][sets[o][s].spu]
          BY <1>6, <2>2, <4>2, <5>2, <5>3
        <5> QED
          BY <3>2, <5>1, <5>2, <5>4
      <4> QED
        BY <4>3, <4>4
    <3> QED
      BY <3>1, <3>2
  <2> QED
    BY <2>1, <2>2
<1>9. PlansKept
  BY <1>2, PlansStay DEF IdentityInv
<1>10. TableTypes' /\ MemoryTypes'
  BY <1>2, <1>3, <1>7 DEF IdentityInv, TableTypes, MemoryTypes
<1>11. PlansInv'
  BY <1>2, <1>7, SoundPlanKept DEF IdentityInv, IdentityRest, PlansInv
<1>12. MappingInv'
  BY <1>2, <1>9, MappingKept DEF IdentityInv, IdentityRest, mapping
<1>13. \A a \in Applies : ApplyInv(a)'
  BY <1>2, <1>7, <1>9, ApplyKept DEF IdentityInv, IdentityRest
<1> QED
  BY <1>8, <1>10, <1>11, <1>12, <1>13 DEF IdentityInv, IdentityRest

-----------------------------------------------------------------------------
(* The resolution.                                                         *)
LEMMA PrepareStep ==
    ASSUME IdentityInv, NEW o \in Observations, Prepare(o) PROVE IdentityInv'
<1>1. PICK plan : plan = Plan(o, 0)
  OBVIOUS
<1>2. /\ plans' = Append(plans, plan)
      /\ UNCHANGED <<site, catalog, batch, sets, load, products, candidates, assigned, app>>
  BY <1>1 DEF Prepare
<1>3. PICK S : plans \in Seq(S)
  BY DEF IdentityInv, MemoryTypes
<1>4. /\ plans' \in Seq(S \cup {plan})
      /\ \A h \in DOMAIN plans : h \in DOMAIN plans' /\ plans'[h] = plans[h]
      /\ \A h \in DOMAIN plans' : h \in DOMAIN plans \/ plans'[h] = plan
  BY <1>2, <1>3, PlansGrow
<1>5. 0 \notin DOMAIN plans
  <2>1. DOMAIN plans = 1..Len(plans) /\ Len(plans) \in Nat
    BY <1>3, LenProperties
  <2> QED
    BY <2>1
<1>6. PlansKept /\ SetsKept
  BY <1>2, <1>4, <1>5 DEF PlansKept, SetsKept
<1>7. SoundPlan(plan)
  BY <1>1, PlanIsSound DEF IdentityInv
<1>8. PlansInv'
  <2> SUFFICES ASSUME NEW CONSTANT h, NEW CONSTANT P, h \in DOMAIN plans', P = plans'[h]
               PROVE  SoundPlan(P)'
    BY DEF PlansInv
  <2>1. SoundPlan(P)
    BY <1>4, <1>7 DEF IdentityInv, IdentityRest, PlansInv
  <2> QED
    BY <1>6, <2>1, SoundPlanKept
<1>9. TableTypes' /\ MemoryTypes' /\ BatchInv'
  BY <1>2, <1>4 DEF IdentityInv, IdentityRest, TableTypes, MemoryTypes, BatchInv
<1>10. MappingInv'
  BY <1>2, <1>6, MappingKept DEF IdentityInv, IdentityRest, mapping
<1>11. \A a \in Applies : ApplyInv(a)'
  BY <1>2, <1>6, ApplyKept DEF IdentityInv, IdentityRest
<1> QED
  BY <1>8, <1>9, <1>10, <1>11 DEF IdentityInv, IdentityRest

(* A step of one apply that touches nothing else.                          *)
LEMMA ApplyOnly ==
    ASSUME IdentityInv, NEW a \in Applies, app' \in [Applies -> ApplyRow],
           \A b \in Applies \ {a} : app'[b] = app[b], ApplyInv(a)',
           UNCHANGED <<site, catalog, batch, sets, load, plans, products, candidates, assigned>>
    PROVE  IdentityInv'
<1>1. PlansKept /\ SetsKept
  BY PlansStay DEF IdentityInv, SetsKept
<1>2. TableTypes' /\ MemoryTypes' /\ BatchInv'
  BY DEF IdentityInv, IdentityRest, TableTypes, MemoryTypes, BatchInv
<1>3. PlansInv'
  BY <1>1, SoundPlanKept DEF IdentityInv, IdentityRest, PlansInv
<1>4. MappingInv'
  BY <1>1, MappingKept DEF IdentityInv, IdentityRest, mapping
<1>5. ASSUME NEW b \in Applies PROVE ApplyInv(b)'
  <2>1. CASE b = a
    BY <2>1
  <2>2. CASE b # a
    BY <1>1, <2>2, ApplyKept DEF IdentityInv, IdentityRest
  <2> QED
    BY <2>1, <2>2
<1> QED
  BY <1>2, <1>3, <1>4, <1>5 DEF IdentityInv, IdentityRest

LEMMA NoApplyRow == NoApply \in ApplyRow /\ NoApply.pc = "idle" /\ NoApply.plan = 0
BY DEF NoApply, ApplyRow

\* An apply that is over.
LEMMA ApplyOver ==
    ASSUME IdentityInv, NEW a \in Applies, app' = [app EXCEPT ![a] = NoApply],
           UNCHANGED <<site, catalog, batch, sets, load, plans, products, candidates, assigned>>
    PROVE  IdentityInv'
<1>1. app \in [Applies -> ApplyRow]
  BY DEF IdentityInv, MemoryTypes
<1>2. app' \in [Applies -> ApplyRow] /\ app'[a] = NoApply /\ \A b \in Applies \ {a} : app'[b] = app[b]
  BY <1>1, NoApplyRow
<1>3. ApplyInv(a)'
  BY <1>2, NoApplyRow DEF ApplyInv
<1> QED
  BY <1>2, <1>3, ApplyOnly

\* What the plan maps stands where its evidence saw it.
LEMMA BeginStep ==
    ASSUME IdentityInv, NEW a \in Applies, NEW h \in DOMAIN plans, NEW o \in Observations,
           NEW u \in Audits, BeginApply(a, h, o, u)
    PROVE  IdentityInv'
<1>1. PICK r : r = [NoApply EXCEPT !.pc = "begun", !.plan = h, !.obs = o, !.audit = u]
  OBVIOUS
<1>2. /\ app' = [app EXCEPT ![a] = r] /\ Plannable(o) /\ plans[h].obs = o
      /\ UNCHANGED <<site, catalog, batch, sets, load, plans, products, candidates, assigned>>
  BY <1>1 DEF BeginApply, SamePlan
<1>3. h \in Nat /\ app \in [Applies -> ApplyRow]
  BY PlansStay DEF IdentityInv, MemoryTypes
<1>4. /\ r \in ApplyRow /\ r.pc = "begun" /\ r.plan = h /\ r.obs = o /\ r.touched = {}
  BY <1>1, <1>3 DEF NoApply, ApplyRow
<1>5. app' \in [Applies -> ApplyRow] /\ app'[a] = r /\ \A b \in Applies \ {a} : app'[b] = app[b]
  BY <1>2, <1>3, <1>4
<1>6. PICK P : P = plans[h]
  OBVIOUS
<1>7. Standing(o, AffectedSkus(P))
  <2>1. SoundPlan(P)
    BY <1>6 DEF IdentityInv, IdentityRest, PlansInv
  <2>2. AffectedSkus(P) \subseteq Sealed(o)
    BY <1>2, <1>6, <2>1, AffectedAreSealed DEF Sealed
  <2> QED
    BY <1>2, <2>2 DEF Plannable, Standing
<1>8. Standing(o, AffectedSkus(P) \ {})'
  BY <1>2, <1>7 DEF Standing, Active, Known
<1>9. ApplyInv(a)'
  BY <1>2, <1>4, <1>5, <1>6, <1>8 DEF ApplyInv
<1> QED
  BY <1>2, <1>5, <1>9, ApplyOnly

\* A row nobody has touched since the snapshot is as the snapshot has it.
LEMMA LockStep ==
    ASSUME IdentityInv, NEW a \in Applies, LockSkus(a) PROVE IdentityInv'
<1>1. /\ app[a].pc = "begun"
      /\ UNCHANGED <<site, catalog, batch, sets, load, plans, products, candidates, assigned>>
  BY DEF LockSkus
<1>2. CASE ~Unmoved(a)
  BY <1>1, <1>2, ApplyOver DEF LockSkus
<1>3. CASE Unmoved(a)
  <2>1. PICK r : r = [app[a] EXCEPT !.pc = "locked", !.touched = {}]
    OBVIOUS
  <2>2. app' = [app EXCEPT ![a] = r]
    BY <1>3, <2>1 DEF LockSkus
  <2>3. app \in [Applies -> ApplyRow] /\ app[a] \in ApplyRow
    BY DEF IdentityInv, MemoryTypes
  <2>4. PICK h, o : h = app[a].plan /\ o = app[a].obs
    OBVIOUS
  <2>5. r \in ApplyRow /\ r.pc = "locked" /\ r.plan = h /\ r.obs = o
    BY <2>1, <2>3, <2>4 DEF ApplyRow
  <2>6. app' \in [Applies -> ApplyRow] /\ app'[a] = r /\ \A b \in Applies \ {a} : app'[b] = app[b]
    BY <2>2, <2>3, <2>5
  <2>7. PICK P : P = plans[h]
    OBVIOUS
  <2>8. /\ h \in DOMAIN plans /\ o = P.obs
        /\ Standing(o, AffectedSkus(P) \ app[a].touched)
    BY <1>1, <2>4, <2>7 DEF IdentityInv, IdentityRest, ApplyInv
  <2>9. AffectedSkus(P) \ app[a].touched = AffectedSkus(P)
    BY <1>3, <2>4, <2>7 DEF Unmoved
  <2>10. Standing(o, AffectedSkus(P))'
    BY <1>1, <2>8, <2>9 DEF Standing, Active, Known
  <2>11. ApplyInv(a)'
    BY <1>1, <2>5, <2>6, <2>7, <2>8, <2>10 DEF ApplyInv
  <2> QED
    BY <1>1, <2>6, <2>11, ApplyOnly
<1> QED
  BY <1>2, <1>3

(* Every component of a sound plan has a candidate.                        *)
LEMMA CandidateOfComponent ==
    ASSUME TableTypes, NEW h, SoundPlan(plans[h]), NEW k \in plans[h].components, NEW u
    PROVE  \E c \in Candidates(h, u) : c.plan = h /\ c.component = k
<1>1. PICK P : P = plans[h]
  OBVIOUS
<1>2. \E n \in Group(P.nodes, k) : TRUE
  BY <1>1, ComponentFacts DEF TableTypes
<1>3. PICK n \in P.nodes : Profile(n).recall = k /\ SoundNode(P.obs, n)
  BY <1>1, <1>2 DEF Group, SoundPlan
<1>4. PICK s \in Skus : s \in DOMAIN n.sets
  BY <1>3 DEF SoundNode
<1>5. Has(P, Profile(n).recall, n, s)
  BY <1>1, <1>3, <1>4 DEF Has
<1>6. Candidate(h, n, s, u) \in Candidates(h, u)
  BY <1>1, <1>3, <1>4, <1>5, CandidatesAre
<1> QED
  BY <1>3, <1>6, CandidateIsSome

(* The rows of a plan: one for each SKU.                                   *)
LEMMA RowFacts ==
    ASSUME NEW h, SoundPlan(plans[h]), NEW u
    PROVE  /\ \A c \in Candidates(h, u) :
                /\ c.sku \in AffectedSkus(plans[h]) /\ c.sku \in Skus
                /\ c # None /\ c.plan = h /\ c.audit = u
                /\ c.source = <<plans[h].obs, c.sku>>
           /\ \A c, d \in Candidates(h, u) : c.sku = d.sku => c = d
<1>1. PICK P : P = plans[h]
  OBVIOUS
<1>2. \A n \in P.nodes : DOMAIN n.sets \subseteq Skus
  BY <1>1 DEF SoundPlan, SoundNode
<1>3. ASSUME NEW c \in Candidates(h, u)
      PROVE  \E n \in P.nodes : /\ c = Candidate(h, n, c.sku, u) /\ c.sku \in Skus
                                /\ Has(P, Profile(n).recall, n, c.sku)
  <2>1. PICK n \in P.nodes, s \in Skus :
          c = Candidate(h, n, s, u) /\ Has(P, Profile(n).recall, n, s)
    BY <1>1, <1>3, CandidatesAre
  <2>2. c.sku = s
    BY <2>1, CandidateIsSome
  <2> QED
    BY <2>1, <2>2
<1>4. ASSUME NEW c \in Candidates(h, u)
      PROVE  /\ c.sku \in AffectedSkus(P) /\ c.sku \in Skus
             /\ c # None /\ c.plan = h /\ c.audit = u /\ c.source = <<P.obs, c.sku>>
  <2>1. PICK n \in P.nodes : /\ c = Candidate(h, n, c.sku, u) /\ c.sku \in Skus
                             /\ Has(P, Profile(n).recall, n, c.sku)
    BY <1>3
  <2>2. c.sku \in AffectedSkus(P)
    BY <1>2, <2>1, AffectedAre
  <2>3. PICK s : s = c.sku
    OBVIOUS
  <2>4. c = Candidate(h, n, s, u)
    BY <2>1, <2>3
  <2>5. c # None /\ c.plan = h /\ c.audit = u /\ c.source = <<P.obs, s>>
    BY <1>1, <2>4, CandidateIsSome
  <2> QED
    BY <2>1, <2>2, <2>3, <2>5
<1>5. ASSUME NEW c \in Candidates(h, u), NEW d \in Candidates(h, u), c.sku = d.sku
      PROVE  c = d
  <2>1. PICK n \in P.nodes : c = Candidate(h, n, c.sku, u) /\ Has(P, Profile(n).recall, n, c.sku)
    BY <1>3
  <2>2. PICK q \in P.nodes : d = Candidate(h, q, d.sku, u) /\ Has(P, Profile(q).recall, q, d.sku)
    BY <1>3
  <2>3. n = q
    BY <1>1, <1>5, <2>1, <2>2, OneNodePerSku DEF Has
  <2> QED
    BY <1>5, <2>1, <2>2, <2>3
<1> QED
  BY <1>1, <1>4, <1>5

(* The second look of an apply that has committed finds what it wrote.     *)
LEMMA SecondLook ==
    ASSUME IdentityInv, NEW a \in Applies, app[a].pc = "committed",
           NEW h, h = app[a].plan, NEW u, u = app[a].audit
    PROVE  /\ \A k \in plans[h].components :
                {x \in products[k] : x.set[1] = app[a].obs} = SetMembers(plans[h], k)
           /\ {c \in candidates : c.plan = h} = Candidates(h, u)
           /\ \A c \in Candidates(h, u) : ReadBack(c.sku, c)
<1>1. /\ h \in DOMAIN plans /\ app[a].obs = plans[h].obs /\ Candidates(h, u) \subseteq candidates
      /\ SoundPlan(plans[h]) /\ TableTypes
  BY DEF IdentityInv, IdentityRest, ApplyInv, PlansInv
<1>2. \A c \in candidates : CandidateInv(c)
  BY DEF IdentityInv, IdentityRest, MappingInv
<1>3. ASSUME NEW k \in plans[h].components
      PROVE  {x \in products[k] : x.set[1] = app[a].obs} = SetMembers(plans[h], k)
  <2>1. PICK c \in Candidates(h, u) : c.plan = h
    BY <1>1, CandidateOfComponent
  <2>2. products[k] = SetMembers(plans[h], k)
    BY <1>1, <1>2, <2>1 DEF CandidateInv
  <2>3. \A x \in SetMembers(plans[h], k) : x.set[1] = plans[h].obs
    BY SetMembersAre
  <2> QED
    BY <1>1, <2>2, <2>3
<1>4. ASSUME NEW c \in candidates, c.plan = h PROVE c \in Candidates(h, u)
  <2>1. PICK n \in plans[h].nodes : /\ c = Candidate(h, n, c.sku, c.audit)
                                    /\ Has(plans[h], Profile(n).recall, n, c.sku)
    BY <1>2, <1>4, CandidateNode
  <2>2. PICK d : d = Candidate(h, n, c.sku, u)
    OBVIOUS
  <2>3. d \in Candidates(h, u) /\ d.sku = c.sku
    BY <2>1, <2>2, CandidatesAre, CandidateIsSome DEF Has
  <2>4. assigned[c.sku] = c /\ assigned[d.sku] = d
    BY <1>1, <1>2, <2>3 DEF CandidateInv
  <2> QED
    BY <2>3, <2>4
<1>5. \A c \in Candidates(h, u) : c.plan = h
  BY <1>1, RowFacts
<1>6. \A c \in Candidates(h, u) : ReadBack(c.sku, c)
  BY <1>1, <1>2 DEF CandidateInv, ReadBack
<1> QED
  BY <1>1, <1>3, <1>4, <1>5, <1>6

LEMMA VerifyStep ==
    ASSUME IdentityInv, NEW a \in Applies, Verify(a)
    PROVE  app' = [app EXCEPT ![a] = NoApply] /\ IdentityInv'
<1>1. /\ app[a].pc = "committed"
      /\ UNCHANGED <<site, catalog, batch, sets, load, plans, products, candidates, assigned>>
  BY DEF Verify
<1>2. app' = [app EXCEPT ![a] = NoApply]
  BY <1>1, SecondLook DEF Verify
<1> QED
  BY <1>1, <1>2, ApplyOver

(* What an accepted plan writes.  A SKU or a product that is mapped stays  *)
(* as it is.                                                               *)
PersistsPlan(a) ==
    PersistPlan(a) /\ Accepts(a, plans[app[a].plan], Candidates(app[a].plan, app[a].audit))

LEMMA PersistFacts ==
    ASSUME IdentityInv, NEW a \in Applies, PersistsPlan(a),
           NEW h, h = app[a].plan, NEW u, u = app[a].audit
    PROVE  /\ h \in DOMAIN plans /\ SoundPlan(plans[h]) /\ app[a].obs = plans[h].obs
           /\ Standing(plans[h].obs, AffectedSkus(plans[h]))
           /\ candidates' = candidates \cup Candidates(h, u)
           /\ DOMAIN products' = Recalls
           /\ \A k \in plans[h].components : products'[k] = SetMembers(plans[h], k)
           /\ \A k \in Recalls : products[k] # {} => products'[k] = products[k]
           /\ \A k \in Recalls : products'[k] # {} =>
                products[k] # {} \/ k \in plans[h].components
           /\ \A c \in Candidates(h, u) : assigned'[c.sku] = c
           /\ \A s \in Skus : assigned[s] # None => assigned'[s] = assigned[s]
           /\ \A s \in Skus : assigned'[s] # None =>
                assigned[s] # None \/ (assigned'[s] \in Candidates(h, u) /\ assigned'[s].sku = s)
<1>1. PICK P, rows : P = plans[h] /\ rows = Candidates(h, u)
  OBVIOUS
<1>2. /\ app[a].pc = "locked"
      /\ products' = [k \in DOMAIN products |->
                        IF k \in P.components THEN products[k] \union SetMembers(P, k) ELSE products[k]]
      /\ candidates' = candidates \cup rows
      /\ assigned' = [s \in Skus |->
                        IF \E c \in rows : c.sku = s THEN CHOOSE c \in rows : c.sku = s ELSE assigned[s]]
  BY <1>1 DEF PersistsPlan, PersistPlan, Stored
<1>3. /\ \A k \in P.components : products[k] \in {{}, SetMembers(P, k)}
      /\ \A c \in rows : assigned[c.sku] \in {None, c}
  BY <1>1 DEF PersistsPlan, Accepts, SameProduct, SameAssignments
<1>4. /\ h \in DOMAIN plans /\ app[a].obs = P.obs /\ SoundPlan(P) /\ TableTypes
      /\ Standing(P.obs, AffectedSkus(P)) /\ DOMAIN products = Recalls
  BY <1>1, <1>2 DEF IdentityInv, IdentityRest, ApplyInv, PlansInv, TableTypes
<1>5. \A k \in P.components : k \in Recalls
  BY <1>4, ComponentFacts DEF TableTypes
<1>6. /\ DOMAIN products' = Recalls
      /\ \A k \in P.components : products'[k] = SetMembers(P, k)
      /\ \A k \in Recalls : products[k] # {} => products'[k] = products[k]
      /\ \A k \in Recalls : products'[k] # {} => products[k] # {} \/ k \in P.components
  BY <1>2, <1>3, <1>4, <1>5
<1>7. \A c \in rows : c.sku \in Skus
  BY <1>1, <1>4, RowFacts
<1>8. ASSUME NEW c \in rows PROVE assigned'[c.sku] = c
  <2>1. \A d \in rows : d.sku = c.sku => d = c
    BY <1>1, <1>4, RowFacts
  <2>2. assigned'[c.sku] = CHOOSE d \in rows : d.sku = c.sku
    BY <1>2, <1>7
  <2> QED
    BY <2>1, <2>2
<1>9. \A s \in Skus : (~\E c \in rows : c.sku = s) => assigned'[s] = assigned[s]
  BY <1>2
<1>10. ASSUME NEW s \in Skus, assigned[s] # None PROVE assigned'[s] = assigned[s]
  <2>1. CASE \E c \in rows : c.sku = s
    BY <1>3, <1>8, <1>10, <2>1
  <2>2. CASE ~\E c \in rows : c.sku = s
    BY <1>9, <2>2
  <2> QED
    BY <2>1, <2>2
<1>11. ASSUME NEW s \in Skus, assigned'[s] # None
       PROVE  assigned[s] # None \/ (assigned'[s] \in rows /\ assigned'[s].sku = s)
  <2>1. CASE \E c \in rows : c.sku = s
    BY <1>8, <2>1
  <2>2. CASE ~\E c \in rows : c.sku = s
    BY <1>9, <1>11, <2>2
  <2> QED
    BY <2>1, <2>2
<1>12. candidates' = candidates \cup rows
  BY <1>2
<1>13. /\ h \in DOMAIN plans /\ SoundPlan(P) /\ app[a].obs = P.obs
       /\ Standing(P.obs, AffectedSkus(P))
  BY <1>4
<1> QED
  BY <1>1, <1>6, <1>8, <1>10, <1>11, <1>12, <1>13

\* The mapping after an accepted plan: what was there, and the plan.
LEMMA PersistMapping ==
    ASSUME IdentityInv, NEW a \in Applies, PersistsPlan(a), UNCHANGED <<plans, catalog, sets>>
    PROVE  MappingInv'
<1>1. PICK h, u : h = app[a].plan /\ u = app[a].audit
  OBVIOUS
<1>2. /\ h \in DOMAIN plans /\ SoundPlan(plans[h])
      /\ candidates' = candidates \cup Candidates(h, u)
      /\ \A k \in plans[h].components : products'[k] = SetMembers(plans[h], k)
      /\ \A k \in Recalls : products[k] # {} => products'[k] = products[k]
      /\ \A k \in Recalls : products'[k] # {} => products[k] # {} \/ k \in plans[h].components
      /\ \A c \in Candidates(h, u) : assigned'[c.sku] = c
      /\ \A s \in Skus : assigned[s] # None => assigned'[s] = assigned[s]
      /\ \A s \in Skus : assigned'[s] # None =>
           assigned[s] # None \/ (assigned'[s] \in Candidates(h, u) /\ assigned'[s].sku = s)
  BY <1>1, PersistFacts
<1>3. PlansKept /\ TableTypes
  BY PlansStay DEF IdentityInv
<1>4. \A g \in DOMAIN plans : \A v : Candidates(g, v)' = Candidates(g, v)
  BY <1>3, CandidatesKept
<1>5. \A g \in DOMAIN plans : SoundPlan(plans[g])
  BY DEF IdentityInv, IdentityRest, PlansInv
<1>6. ASSUME NEW CONSTANT c, c \in candidates PROVE CandidateInv(c)'
  <2>1. CandidateInv(c)
    BY <1>6 DEF IdentityInv, IdentityRest, MappingInv
  <2>2. PICK g, v : g = c.plan /\ v = c.audit
    OBVIOUS
  <2>3. /\ g \in DOMAIN plans /\ c \in Candidates(g, v) /\ Candidates(g, v) \subseteq candidates
        /\ c.sku \in Skus /\ assigned[c.sku] = c
        /\ \A k \in plans[g].components : products[k] = SetMembers(plans[g], k)
    BY <2>1, <2>2 DEF CandidateInv
  <2>4. c # None
    BY <1>5, <2>3, RowFacts
  <2>5. ASSUME NEW k \in plans[g].components PROVE products'[k] = SetMembers(plans[g], k)
    <3>1. k \in Recalls /\ \E n \in Group(plans[g].nodes, k) : TRUE
      BY <1>3, <1>5, <2>3, ComponentFacts DEF TableTypes
    <3>2. PICK n \in plans[g].nodes : Profile(n).recall = k /\ SoundNode(plans[g].obs, n)
      BY <1>5, <2>3, <3>1 DEF Group, SoundPlan
    <3>3. SetMembers(plans[g], k) # {}
      <4>1. PICK s \in Skus : s \in DOMAIN n.sets
        BY <3>2 DEF SoundNode
      <4> QED
        BY <3>2, <4>1, SetMembersAre
    <3> QED
      BY <1>2, <2>3, <3>1, <3>3
  <2>6. assigned'[c.sku] = c
    BY <1>2, <2>3, <2>4
  <2>7. Candidates(g, v)' = Candidates(g, v)
    BY <1>4, <2>3
  <2> QED
    BY <1>2, <2>2, <2>3, <2>5, <2>6, <2>7 DEF CandidateInv
<1>7. ASSUME NEW CONSTANT c, c \in Candidates(h, u) PROVE CandidateInv(c)'
  <2>1. c.plan = h /\ c.audit = u /\ c.sku \in Skus
    BY <1>2, <1>7, RowFacts
  <2>2. Candidates(h, u)' = Candidates(h, u)
    BY <1>2, <1>4
  <2> QED
    BY <1>2, <1>7, <2>1, <2>2 DEF CandidateInv
<1>8. \A c \in candidates' : CandidateInv(c)'
  BY <1>2, <1>6, <1>7
<1>9. \A s \in Skus : assigned'[s] # None => assigned'[s] \in candidates' /\ assigned'[s].sku = s
  BY <1>2 DEF IdentityInv, IdentityRest, MappingInv
<1>10. ASSUME NEW k \in Recalls, products'[k] # {}
       PROVE  \E c \in candidates' : k \in plans'[c.plan].components
  <2>1. CASE products[k] # {}
    BY <1>2, <2>1 DEF IdentityInv, IdentityRest, MappingInv
  <2>2. CASE products[k] = {}
    <3>1. k \in plans[h].components
      BY <1>2, <1>10, <2>2
    <3>2. PICK c \in Candidates(h, u) : c.plan = h
      BY <1>2, <1>3, <3>1, CandidateOfComponent
    <3> QED
      BY <1>2, <3>1, <3>2
  <2> QED
    BY <2>1, <2>2
<1> QED
  BY <1>8, <1>9, <1>10 DEF MappingInv

LEMMA PersistStep ==
    ASSUME IdentityInv, NEW a \in Applies, PersistPlan(a) PROVE IdentityInv'
<1>0. /\ app[a].pc = "locked"
      /\ UNCHANGED <<site, catalog, batch, sets, load, plans>>
  BY DEF PersistPlan
<1>1. CASE ~PersistsPlan(a)
  <2>1. app' = [app EXCEPT ![a] = NoApply] /\ UNCHANGED mapping
    BY <1>1 DEF PersistPlan, PersistsPlan
  <2> QED
    BY <1>0, <2>1, ApplyOver DEF mapping
<1>2. CASE PersistsPlan(a)
  <2>1. PICK h, u, rows : h = app[a].plan /\ u = app[a].audit /\ rows = Candidates(h, u)
    OBVIOUS
  <2>2. /\ h \in DOMAIN plans /\ app[a].obs = plans[h].obs /\ DOMAIN products' = Recalls
        /\ candidates' = candidates \cup rows
    BY <1>2, <2>1, PersistFacts
  <2>3. app' = [b \in Applies |->
                 CASE b = a -> [app[a] EXCEPT !.pc = "committed"]
                   [] app[b].pc = "begun" /\ ~(rows \subseteq candidates) -> [app[b] EXCEPT !.late = TRUE]
                   [] OTHER -> app[b]]
    BY <1>2, <2>1 DEF PersistPlan, PersistsPlan
  <2>4. app \in [Applies -> ApplyRow]
    BY DEF IdentityInv, MemoryTypes
  <2>5. /\ app'[a] \in ApplyRow /\ app'[a].pc = "committed" /\ app'[a].plan = h
        /\ app'[a].audit = u /\ app'[a].obs = app[a].obs
    <3>1. app'[a] = [app[a] EXCEPT !.pc = "committed"]
      BY <1>0, <2>3
    <3> QED
      BY <2>1, <2>4, <3>1 DEF ApplyRow
  <2>6. ASSUME NEW b \in Applies, b # a
        PROVE  /\ app'[b] \in ApplyRow /\ app'[b].pc = app[b].pc /\ app'[b].plan = app[b].plan
               /\ app'[b].obs = app[b].obs /\ app'[b].audit = app[b].audit
               /\ app'[b].touched = app[b].touched
    <3>1. app'[b] = app[b] \/ app'[b] = [app[b] EXCEPT !.late = TRUE]
      BY <2>3, <2>6
    <3> QED
      BY <2>4, <3>1 DEF ApplyRow
  <2>7. app' \in [Applies -> ApplyRow]
    BY <2>3, <2>5, <2>6
  <2>8. PlansKept /\ SetsKept
    BY <1>0, PlansStay DEF IdentityInv, SetsKept
  <2>9. TableTypes' /\ MemoryTypes' /\ BatchInv'
    BY <1>0, <2>2, <2>7 DEF IdentityInv, IdentityRest, TableTypes, MemoryTypes, BatchInv
  <2>10. PlansInv'
    BY <1>0, <2>8, SoundPlanKept DEF IdentityInv, IdentityRest, PlansInv
  <2>11. MappingInv'
    BY <1>0, <1>2, PersistMapping
  <2>12. ASSUME NEW b \in Applies PROVE ApplyInv(b)'
    <3>1. CASE b = a
      <4>1. Candidates(h, u)' = Candidates(h, u)
        BY <2>2, <2>8, CandidatesKept
      <4> QED
        BY <1>0, <2>1, <2>2, <2>5, <3>1, <4>1 DEF ApplyInv
    <3>2. CASE b # a
      BY <1>0, <2>2, <2>6, <2>8, <3>2, ApplyKept DEF IdentityInv, IdentityRest
    <3> QED
      BY <3>1, <3>2
  <2> QED
    BY <2>9, <2>10, <2>11, <2>12 DEF IdentityInv, IdentityRest
<1> QED
  BY <1>1, <1>2

-----------------------------------------------------------------------------
(* The specification.                                                      *)
LEMMA InitialMapping == IdentityInit => IdentityInv
<1> SUFFICES ASSUME IdentityInit PROVE IdentityInv
  OBVIOUS
<1>1. /\ site = 1 /\ batch = [o \in Observations |-> [p \in Spus |-> None]]
      /\ sets = [o \in Observations |-> [s \in Skus |-> None]]
      /\ load = [l \in Loads |-> Idle("idle")] /\ plans = <<>> /\ candidates = {}
      /\ products = [k \in Recalls |-> {}]
      /\ assigned = [s \in Skus |-> None] /\ app = [a \in Applies |-> NoApply]
  BY DEF IdentityInit, Recalls
<1>2. catalog \in [Skus -> CatalogRow]
  BY CatalogAssumption DEF IdentityInit, CatalogRow
<1>3. site \in DOMAIN Answers
  BY <1>1, AnswerAssumption
<1>4. TableTypes
  BY <1>1, <1>2, <1>3 DEF TableTypes
<1>5. plans \in Seq({}) /\ DOMAIN plans = {}
  BY <1>1
<1>6. MemoryTypes
  <2>1. load \in [Loads -> LoadRow] /\ \A l \in Loads : load[l].todo = {}
    BY <1>1, IdleRow
  <2> QED
    BY <1>1, <1>5, <2>1, NoApplyRow DEF MemoryTypes
<1>7. BatchInv /\ PlansInv /\ MappingInv
  BY <1>1, <1>5 DEF BatchInv, PlansInv, MappingInv
<1>8. \A a \in Applies : ApplyInv(a)
  BY <1>1, NoApplyRow DEF ApplyInv
<1> QED
  BY <1>4, <1>6, <1>7, <1>8 DEF IdentityInv, IdentityRest

\* The apply that dies, of the four that end.
LEMMA ApplyDiesStep ==
    ASSUME IdentityInv, NEW a \in Applies, ApplyDies(a) PROVE IdentityInv'
BY ApplyOver DEF ApplyDies

LEMMA StillMapping == ASSUME IdentityInv, UNCHANGED identityVars PROVE IdentityInv'
<1>1. /\ UNCHANGED <<catalog, batch, sets, plans, products, candidates, assigned, app>>
      /\ load' = load /\ site' = site
  BY DEF identityVars
<1> QED
  BY <1>1, LoadOnly DEF IdentityInv, TableTypes, MemoryTypes

LEMMA IdentityStep == IdentityInv /\ [IdentityNext]_identityVars => IdentityInv'
<1> SUFFICES ASSUME IdentityInv, [IdentityNext]_identityVars PROVE IdentityInv'
  OBVIOUS
<1>1. CASE UNCHANGED identityVars
  BY <1>1, StillMapping
<1>2. CASE SiteChanges
  BY <1>2, SiteStep
<1>3. ASSUME NEW c \in Listings, CatalogLoad(c.store, c.skus) PROVE IdentityInv'
  BY <1>3, CatalogLoadStep
<1>4. ASSUME NEW p \in Supplied, EnrichCatalog(p) PROVE IdentityInv'
  BY <1>4, EnrichCatalogStep
<1>5. ASSUME NEW l \in Loads, NEW o \in Observations, NEW at \in FetchTimes, StartLoad(l, o, at)
      PROVE  IdentityInv'
  BY <1>5, LoadSteps
<1>6. ASSUME NEW l \in Loads, NEW p \in Spus, FetchSpuInfo(l, p) \/ SpuFails(l, p) PROVE IdentityInv'
  BY <1>6, LoadSteps
<1>7. ASSUME NEW l \in Loads, NEW p \in Spus, RecordObservation(l, p) PROVE IdentityInv'
  BY <1>7, RecordStep
<1>8. ASSUME NEW o \in Observations, Prepare(o) PROVE IdentityInv'
  BY <1>8, PrepareStep
<1>9. ASSUME NEW a \in Applies, NEW h \in DOMAIN plans, NEW o \in Observations, NEW u \in Audits,
             BeginApply(a, h, o, u)
      PROVE  IdentityInv'
  BY <1>9, BeginStep
<1>10. ASSUME NEW a \in Applies, LockSkus(a) PROVE IdentityInv'
  BY <1>10, LockStep
<1>11. ASSUME NEW a \in Applies, PersistPlan(a) PROVE IdentityInv'
  BY <1>11, PersistStep
<1>12. ASSUME NEW a \in Applies, Verify(a) PROVE IdentityInv'
  BY <1>12, VerifyStep
<1>13. ASSUME NEW a \in Applies, ApplyDies(a) PROVE IdentityInv'
  BY <1>13, ApplyDiesStep
<1> QED
  BY <1>1, <1>2, <1>3, <1>4, <1>5, <1>6, <1>7, <1>8, <1>9, <1>10, <1>11, <1>12, <1>13
     DEF IdentityNext

LEMMA IdentityInvCorrect == IdentitySpec => []IdentityInv
<1>1. IdentityInit => IdentityInv
  BY InitialMapping
<1>2. IdentityInv /\ [IdentityNext]_identityVars => IdentityInv'
  BY IdentityStep
<1> QED
  BY <1>1, <1>2, PTL DEF IdentitySpec

(* A mapping rests on a confirmed clique, one plan and one answer per SPU, *)
(* by the planner (buildGlobalProductIdentityResolutionPlan) and by the    *)
(* read-backs of persistPlan, whatever was observed, planned, loaded and   *)
(* applied meanwhile.                                                      *)
THEOREM IdentityIsSafe == IdentitySpec => []IdentitySafety
<1>1. IdentityInv => IdentitySafety
  BY TypesHold, MatchedHolds, OnePlanHolds, OneAnswerHolds DEF IdentitySafety
<1> QED
  BY <1>1, IdentityInvCorrect, PTL

\* Who writes the mapping: an accepted plan, and nobody else.
LEMMA OnlyPlansMap ==
    ASSUME IdentityInv, [IdentityNext]_identityVars
    PROVE  \/ assigned' = assigned
           \/ \E a \in Applies : PersistsPlan(a) /\ UNCHANGED <<catalog, sets>>
<1>1. ASSUME NEW S, NEW rows, UpdateSkus(S, rows) PROVE assigned' = assigned
  BY <1>1 DEF UpdateSkus
<1>2. ASSUME NEW a \in Applies, PersistPlan(a)
      PROVE  assigned' = assigned \/ (PersistsPlan(a) /\ UNCHANGED <<catalog, sets>>)
  BY <1>2 DEF PersistPlan, PersistsPlan, mapping
<1>3. CASE UNCHANGED identityVars
  BY <1>3 DEF identityVars
<1>4. ASSUME SiteChanges \/ (\E c \in Listings : CatalogLoad(c.store, c.skus))
               \/ (\E p \in Supplied : EnrichCatalog(p))
      PROVE  assigned' = assigned
  BY <1>1, <1>4 DEF SiteChanges, CatalogLoad, EnrichCatalog
<1>5. ASSUME NEW l \in Loads,
             \/ \E o \in Observations, at \in FetchTimes : StartLoad(l, o, at)
             \/ \E p \in Spus : FetchSpuInfo(l, p) \/ SpuFails(l, p) \/ RecordObservation(l, p)
      PROVE  assigned' = assigned
  BY <1>5 DEF StartLoad, FetchSpuInfo, SpuFails, RecordObservation
<1>6. ASSUME NEW o \in Observations, Prepare(o) PROVE assigned' = assigned
  BY <1>6 DEF Prepare
<1>7. ASSUME NEW a \in Applies,
             \/ \E h \in DOMAIN plans, o \in Observations, u \in Audits : BeginApply(a, h, o, u)
             \/ LockSkus(a) \/ Verify(a) \/ ApplyDies(a)
      PROVE  assigned' = assigned
  BY <1>7 DEF BeginApply, LockSkus, Verify, ApplyDies
<1> QED
  BY <1>2, <1>3, <1>4, <1>5, <1>6, <1>7 DEF IdentityNext

LEMMA MapsListedStep ==
    ASSUME IdentityInv, [IdentityNext]_identityVars, NEW s \in Skus,
           assigned[s] = None, assigned'[s] # None
    PROVE  Active(s) /\ catalog[s].spu = Source(s)'.spu
<1>1. PICK a \in Applies : PersistsPlan(a) /\ UNCHANGED <<catalog, sets>>
  BY OnlyPlansMap
<1>2. PICK h, u : h = app[a].plan /\ u = app[a].audit
  OBVIOUS
<1>3. /\ SoundPlan(plans[h]) /\ Standing(plans[h].obs, AffectedSkus(plans[h]))
      /\ assigned'[s] \in Candidates(h, u) /\ assigned'[s].sku = s
  BY <1>1, <1>2, PersistFacts
<1>4. PICK c : c = assigned'[s]
  OBVIOUS
<1>5. s \in AffectedSkus(plans[h]) /\ c.source = <<plans[h].obs, s>>
  BY <1>3, <1>4, RowFacts
<1>6. Active(s) /\ catalog[s].spu = sets[plans[h].obs][s].spu
  BY <1>3, <1>5 DEF Standing
<1>7. Source(s)' = sets[plans[h].obs][s]
  BY <1>1, <1>4, <1>5 DEF Source
<1> QED
  BY <1>6, <1>7

(* A SKU is mapped only while it is active and in the SPU its evidence is  *)
(* about: what the snapshot saw is held by the row locks from              *)
(* SELECT ... FOR UPDATE to the commit.                                    *)
THEOREM IdentityMapsListedSkus == IdentitySpec => MapsListedSkus
<1>1. ASSUME IdentityInv, [IdentityNext]_identityVars
      PROVE  [\A s \in Skus : assigned[s] = None /\ assigned'[s] # None =>
                Active(s) /\ catalog[s].spu = Source(s)'.spu]_identityVars
  BY <1>1, MapsListedStep
<1> QED
  BY <1>1, IdentityInvCorrect, PTL DEF IdentitySpec, MapsListedSkus

LEMMA ReportHoldsStep ==
    ASSUME IdentityInv, [IdentityNext]_identityVars
    PROVE  /\ \A a \in Applies : app'[a].pc # "refuted"
           /\ \A s \in Skus : assigned[s] # None => assigned'[s] = assigned[s]
<1>1. IdentityInv'
  BY IdentityStep
<1>2. \A a \in Applies : app'[a].pc # "refuted"
  BY <1>1 DEF IdentityInv, MemoryTypes, ApplyRow
<1>3. \A s \in Skus : assigned[s] # None => assigned'[s] = assigned[s]
  BY OnlyPlansMap, PersistFacts
<1> QED
  BY <1>2, <1>3

(* What a committed apply reports is true and stays true: the verification *)
(* in its second transaction never disagrees, and no later plan or retry   *)
(* changes a mapping or takes it away.                                     *)
THEOREM IdentityReportHolds == IdentitySpec => ReportHolds
<1>1. ASSUME IdentityInv, [IdentityNext]_identityVars
      PROVE  [/\ \A a \in Applies : app'[a].pc # "refuted"
              /\ \A s \in Skus : assigned[s] # None => assigned'[s] = assigned[s]]_identityVars
  BY <1>1, ReportHoldsStep
<1> QED
  BY <1>1, IdentityInvCorrect, PTL DEF IdentitySpec, ReportHolds
=============================================================================
