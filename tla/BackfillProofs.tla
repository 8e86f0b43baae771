--------------------------- MODULE BackfillProofs ---------------------------
(***************************************************************************)
(* Proofs about Backfill, for any plan, any number of executions and any   *)
(* releases: checkpoints cite what succeeded and only move forward; while  *)
(* executions come one after another the rows are true, successes stay,    *)
(* and no supply attempt is started twice.                                 *)
(*                                                                         *)
(* Without overlap one execution at most is alive, so what it read when it *)
(* opened is still what the tables say, up to its own commits              *)
(* (SequentialInv).  Overlapping executions keep only what the             *)
(* checkpoint's foreign key pins (TablesInv).                              *)
(***************************************************************************)
EXTENDS Backfill, Integers, FiniteSetTheorems, SequenceTheorems, TLAPS

Places == {"wait", "ready", "calling", "refused", "commit", "over"}
LaneType == [at: Places, day: Nat, tries: Nat, outcome: {"none"} \cup Outcomes]
Counters == {"start", "completed", "counts", "checkpoints", "lanes", "done", "thrown", "dead"}
Memory == [pc: Counters, print: Prints \cup {None}, done: SUBSET Windows,
           prior: [Windows -> Nat], ckpt: [Grains -> CheckpointType],
           next: Nat \ {0}, lanes: Int, broken: BOOLEAN, lane: [Grains -> LaneType],
           result: [Windows -> {"none", "SKIPPED"} \cup Outcomes]]

TypeInv == TypeOK /\ m \in [Executions -> Memory]

-----------------------------------------------------------------------------
(* The memory x of one execution on its own.                               *)

\* The lane l of grain g: where it is, and what it may be about to commit.
LaneInv(x, g) ==
    LET l == x.lane[g]
    IN  /\ IF l.at = "over" THEN l.day = 0 ELSE l.day \in 1..Days[g]
        /\ l.at = "wait" => l.day = Days[g] /\ l.tries = 0
        /\ l.at \in {"calling", "refused"} \/ l.tries > 0 =>
               g \notin Blocked /\ <<g, l.day>> \notin x.done
        /\ l.at = "commit" =>
             /\ l.outcome \in Outcomes
             /\ IF l.outcome = "BLOCKED" THEN g \in Blocked
                ELSE g \notin Blocked /\ <<g, l.day>> \notin x.done
             /\ l.outcome = "SUCCEEDED" => x.ckpt[g].print \in {None, x.print}

Reading == {"completed", "counts", "checkpoints"}

\* Grains are taken in their order; an execution that no commit has broken has
\* a result for every window its lanes are past.
MemoryInv(x) ==
    /\ \A g \in Grains : LaneInv(x, g)
    /\ x.pc # "lanes" => /\ \A g \in Grains : x.lane[g] = Idle(Days[g])
                         /\ ~x.broken /\ \A w \in Windows : x.result[w] = "none"
    /\ x.pc \in Reading \cup {"lanes"} => x.print \in Prints
    /\ \A i \in 1..Len(Order) : i < x.next <=> x.lane[Order[i]].at # "wait"
    /\ ~x.broken => /\ x.lanes = Lanes
                    /\ \A g \in Grains : \A d \in 1..Days[g] :
                         d > x.lane[g].day => x.result[<<g, d>>] # "none"

-----------------------------------------------------------------------------
(* The tables: what holds however executions overlap.                      *)

Success(r, w) == r[w].status = "SUCCEEDED"

TablesInv ==
    /\ \A g \in Grains :
         \/ ckpt[g] = NoCheckpoint
         \/ /\ ckpt[g].day \in 1..Days[g] /\ Success(row, <<g, ckpt[g].day>>)
            /\ row[<<g, ckpt[g].day>>].print = ckpt[g].print
    /\ \A g \in Blocked : \A d \in 1..Days[g] : ~Success(row, <<g, d>>)

-----------------------------------------------------------------------------
(* While executions come one after another.                                *)

\* What the live execution read is what the tables say, up to its own commits.
LiveInv(x) ==
    /\ x.pc \in {"counts", "checkpoints", "lanes"} =>
         \A g \in Grains : \A d \in 1..Days[g] :
           /\ Success(row, <<g, d>>) => <<g, d>> \in x.done \/ d > x.lane[g].day
           /\ <<g, d>> \in x.done => Success(row, <<g, d>>)
    /\ \A w \in Windows : x.result[w] \in {"SUCCEEDED", "SKIPPED"} => Success(row, w)
    /\ x.pc = "lanes" => \A g \in Grains : x.lane[g].at # "over" => x.ckpt[g] = ckpt[g]

SequentialInv ==
    /\ \A p, q \in Executions : Alive(p) /\ Alive(q) => p = q
    /\ \A p \in Executions : Alive(p) => LiveInv(m[p])
    /\ \A g \in Grains : \A d \in 1..Days[g] : Success(row, <<g, d>>) =>
         ckpt[g] # NoCheckpoint /\ row[<<g, d>>].print = ckpt[g].print
    /\ run = "SUCCEEDED" => \A w \in Windows : Success(row, w)

\* One after another, without a fault, and no window past the last ordinal.
Quiet == faults = 0 /\ ~overlapped /\ \A w \in Windows : row[w].count <= MaxOrdinal

\* The attempt ordinals in the ledger are counted in the window's row, or are
\* the live execution's own at the window it works on.
CountsInv(x) ==
    x.pc \in {"checkpoints", "lanes"} =>
        \A g \in Grains : \A d \in 1..Days[g] :
            d <= x.lane[g].day => x.prior[<<g, d>>] = row[<<g, d>>].count

Own(x, g, d, n) ==
    /\ x.pc = "lanes" /\ x.lane[g].day = d
    /\ n <= x.prior[<<g, d>>] + x.lane[g].tries

Counted(g, d, n) ==
    n <= row[<<g, d>>].count \/ \E p \in Executions : Own(m[p], g, d, n)

QuietInv ==
    /\ refused = {}
    /\ \A p \in Executions : Alive(p) => ~m[p].broken /\ CountsInv(m[p])
    /\ \A g \in Grains : \A d \in 1..Days[g] : \A n \in 1..MaxOrdinal :
         <<<<g, d>>, n>> \in ledger => Counted(g, d, n)

BackfillInv ==
    /\ TypeInv /\ TablesInv
    /\ \A p \in Executions : MemoryInv(m[p])
    /\ ~overlapped => SequentialInv
    /\ Quiet => QuietInv

-----------------------------------------------------------------------------
(* What the types and the plan say.                                        *)

(* The plan's order goes through every grain once, and a window is a grain *)
(* and one of its days.                                                    *)
LEMMA PlanFacts ==
    /\ Len(Order) \in Nat /\ \A i \in 1..Len(Order) : Order[i] \in Grains
    /\ \A g \in Grains : Days[g] \in Nat /\ Days[g] > 0
    /\ \A g \in Grains : \A d \in 1..Days[g] : <<g, d>> \in Windows /\ d \in Nat
    /\ \A w \in Windows : \E g \in Grains : \E d \in 1..Days[g] : w = <<g, d>>
    /\ Lanes \in Nat /\ Lanes > 0 /\ MaxOrdinal \in Nat /\ MaxOrdinal > 0
    /\ MaxAttempts \in Nat /\ MaxFaults \in Nat /\ Blocked \subseteq Grains
    /\ None \notin Prints
<1>1. Len(Order) \in Nat /\ \A i \in 1..Len(Order) : Order[i] \in Grains
  BY PlanAssumption, LenProperties, ElementOfSeq
<1>2. \A g \in Grains : Days[g] \in Nat /\ Days[g] > 0
  BY PlanAssumption
<1>3. \A g \in Grains : \A d \in 1..Days[g] : <<g, d>> \in Windows /\ d \in Nat
  BY DEF Windows
<1>4. \A w \in Windows : \E g \in Grains : \E d \in 1..Days[g] : w = <<g, d>>
  <2> SUFFICES ASSUME NEW w \in Windows
               PROVE  \E g \in Grains : \E d \in 1..Days[g] : w = <<g, d>>
    OBVIOUS
  <2>1. PICK g \in Grains : w \in {g} \X (1..Days[g])
    BY DEF Windows
  <2> QED
    BY <2>1
<1> QED
  BY <1>1, <1>2, <1>3, <1>4, PlanAssumption

(* The windows of a plan are finitely many.                                *)
LEMMA WindowsAreFinite == IsFiniteSet(Windows)
<1>1. IsFiniteSet(Grains)
  <2>1. Order \in [1..Len(Order) -> Grains]
    BY PlanAssumption, LenProperties, SeqDef
  <2>2. Order \in Surjection(1..Len(Order), Grains)
    BY <2>1, PlanAssumption DEF Surjection
  <2>3. IsFiniteSet(1..Len(Order))
    BY PlanFacts, FS_Interval
  <2> QED
    BY <2>2, <2>3, FS_Surjection
<1>2. PICK f : f = [g \in Grains |-> {g} \X (1..Days[g])]
  OBVIOUS
<1>3. PICK S : S = {{g} \X (1..Days[g]) : g \in Grains}
  OBVIOUS
<1>4. f \in Surjection(Grains, S)
  BY <1>2, <1>3 DEF Surjection
<1>5. IsFiniteSet(S)
  BY <1>1, <1>4, FS_Surjection
<1>6. \A T \in S : IsFiniteSet(T)
  <2> SUFFICES ASSUME NEW g \in Grains PROVE IsFiniteSet({g} \X (1..Days[g]))
    BY <1>3
  <2>1. IsFiniteSet({g})
    BY FS_Singleton
  <2>2. 1 \in Int /\ Days[g] \in Int
    BY PlanFacts
  <2>3. IsFiniteSet(1..Days[g])
    BY <2>2, FS_Interval
  <2> QED
    BY <2>1, <2>3, FS_Product
<1> QED
  BY <1>3, <1>5, <1>6, FS_UNION DEF Windows

(* The fields of a memory.                                                 *)
LEMMA MemoryFields ==
    ASSUME NEW x \in Memory
    PROVE  /\ x.pc \in Counters /\ x.print \in Prints \cup {None} /\ x.done \subseteq Windows
           /\ x.prior \in [Windows -> Nat] /\ x.ckpt \in [Grains -> CheckpointType]
           /\ x.next \in Nat \ {0} /\ x.lanes \in Int /\ x.broken \in BOOLEAN
           /\ x.lane \in [Grains -> LaneType]
           /\ x.result \in [Windows -> {"none", "SKIPPED"} \cup Outcomes]
           /\ \A g \in Grains : /\ x.lane[g] \in LaneType /\ x.lane[g].at \in Places
                                /\ x.lane[g].day \in Nat /\ x.lane[g].tries \in Nat
                                /\ x.lane[g].outcome \in {"none"} \cup Outcomes
                                /\ x.ckpt[g] \in CheckpointType
                                /\ x.ckpt[g].day \in Nat
                                /\ x.ckpt[g].print \in Prints \cup {None}
           /\ \A w \in Windows : x.prior[w] \in Nat
<1>1. /\ x.pc \in Counters /\ x.print \in Prints \cup {None} /\ x.done \subseteq Windows
      /\ x.prior \in [Windows -> Nat] /\ x.ckpt \in [Grains -> CheckpointType]
      /\ x.next \in Nat \ {0} /\ x.lanes \in Int /\ x.broken \in BOOLEAN
      /\ x.lane \in [Grains -> LaneType]
      /\ x.result \in [Windows -> {"none", "SKIPPED"} \cup Outcomes]
  BY DEF Memory
<1>2. ASSUME NEW l \in LaneType
      PROVE  /\ l.at \in Places /\ l.day \in Nat /\ l.tries \in Nat
             /\ l.outcome \in {"none"} \cup Outcomes
  BY DEF LaneType
<1>3. ASSUME NEW c \in CheckpointType PROVE c.day \in Nat /\ c.print \in Prints \cup {None}
  BY DEF CheckpointType
<1> QED
  BY <1>1, <1>2, <1>3

(* The cells of the tables.                                                *)
LEMMA Cells ==
    ASSUME BackfillInv
    PROVE  /\ m \in [Executions -> Memory] /\ row \in [Windows -> RowType]
           /\ ckpt \in [Grains -> CheckpointType]
           /\ \A p \in Executions : m[p] \in Memory /\ MemoryInv(m[p])
           /\ \A w \in Windows : /\ row[w] \in RowType /\ row[w].count \in Nat
                                 /\ row[w].print \in Prints \cup {None}
                                 /\ row[w].status \in {"none"} \cup Outcomes
                                 /\ Success(row, w) => row[w].print \in Prints
           /\ \A g \in Grains : /\ ckpt[g] \in CheckpointType /\ ckpt[g].day \in Nat
                                /\ ckpt[g].print \in Prints \cup {None}
           /\ faults \in Nat /\ faults \in 0..MaxFaults /\ TypeOK /\ TablesInv
           /\ ~overlapped => SequentialInv
           /\ Quiet => QuietInv
<1>1. TypeOK /\ m \in [Executions -> Memory]
  BY DEF BackfillInv, TypeInv
<1>2. ASSUME NEW c \in CheckpointType PROVE c.day \in Nat /\ c.print \in Prints \cup {None}
  BY DEF CheckpointType
<1>3. ASSUME NEW r \in RowType
      PROVE  /\ r.count \in Nat /\ r.print \in Prints \cup {None}
             /\ r.status \in {"none"} \cup Outcomes
  BY DEF RowType
<1>4. row \in [Windows -> RowType] /\ ckpt \in [Grains -> CheckpointType]
      /\ faults \in 0..MaxFaults
      /\ \A w \in Windows : row[w].status = "SUCCEEDED" => row[w].print # None
  BY <1>1 DEF TypeOK
<1> QED
  BY <1>1, <1>2, <1>3, <1>4, PlanFacts DEF BackfillInv, Success

-----------------------------------------------------------------------------
(* What a step changes of a memory.                                        *)

\* y is x with the lane of g set to l.
LaneIs(x, y, g, l) ==
    /\ y.pc = x.pc /\ y.print = x.print /\ y.done = x.done /\ y.prior = x.prior
    /\ y.ckpt = x.ckpt /\ y.next = x.next /\ y.lanes = x.lanes /\ y.broken = x.broken
    /\ y.result = x.result /\ y.lane[g] = l
    /\ \A h \in Grains : h # g => y.lane[h] = x.lane[h]

(* A lane that is set.                                                     *)
LEMMA LaneSet ==
    ASSUME NEW x \in Memory, NEW g \in Grains, NEW l \in LaneType, NEW y,
           y = [x EXCEPT !.lane[g] = l]
    PROVE  y \in Memory /\ LaneIs(x, y, g, l)
BY DEF Memory, LaneIs

(* The place of an execution, with what it read there.                     *)
LEMMA IdleLane ==
    ASSUME NEW d \in Nat
    PROVE  /\ Idle(d) \in LaneType /\ Idle(d).at = "wait" /\ Idle(d).day = d
           /\ Idle(d).tries = 0 /\ Idle(d).outcome = "none"
BY DEF Idle, LaneType, Places

(* The memory of an execution that has not started, or is gone.            *)
LEMMA GoneMemory ==
    ASSUME NEW c \in {"start", "done", "thrown", "dead"}, NEW y, y = Gone(c)
    PROVE  y \in Memory /\ y.pc = c /\ MemoryInv(y)
<1>1. \A g \in Grains : /\ Idle(Days[g]) \in LaneType /\ Idle(Days[g]).at = "wait"
                        /\ Idle(Days[g]).day = Days[g] /\ Idle(Days[g]).tries = 0
  BY PlanFacts, IdleLane
<1>2. NoCheckpoint \in CheckpointType
  BY DEF NoCheckpoint, CheckpointType
<1>3. PICK k, n, l, r : /\ k = [w \in Windows |-> 0] /\ n = [g \in Grains |-> NoCheckpoint]
                        /\ l = [g \in Grains |-> Idle(Days[g])]
                        /\ r = [w \in Windows |-> "none"]
  OBVIOUS
<1>4. /\ k \in [Windows -> Nat] /\ n \in [Grains -> CheckpointType]
      /\ l \in [Grains -> LaneType] /\ r \in [Windows -> {"none", "SKIPPED"} \cup Outcomes]
  BY <1>1, <1>2, <1>3
<1>5. y = [pc |-> c, print |-> None, done |-> {}, prior |-> k, ckpt |-> n, next |-> 1,
           lanes |-> Lanes, broken |-> FALSE, lane |-> l, result |-> r]
  BY <1>3 DEF Gone, Fresh
<1>6. y \in Memory
  BY <1>4, <1>5, PlanFacts DEF Memory, Counters
<1>7. /\ y.pc = c /\ y.next = 1 /\ y.lanes = Lanes /\ y.done = {} /\ ~y.broken
      /\ \A g \in Grains : y.lane[g] = Idle(Days[g])
      /\ \A w \in Windows : y.result[w] = "none"
  BY <1>3, <1>5
<1>8. \A g \in Grains : LaneInv(y, g)
  BY <1>1, <1>7, PlanFacts DEF LaneInv
<1>9. \A i \in 1..Len(Order) : i < y.next <=> y.lane[Order[i]].at # "wait"
  BY <1>1, <1>7, PlanFacts
<1>10. \A g \in Grains : \A d \in 1..Days[g] : ~(d > y.lane[g].day)
  BY <1>1, <1>7, PlanFacts
<1> QED
  BY <1>6, <1>7, <1>8, <1>9, <1>10 DEF MemoryInv, Reading

-----------------------------------------------------------------------------
(* From one step to the invariant.                                         *)

\* A step of p leaves the other memories alone.
Only(p) ==
    /\ m' \in [Executions -> Memory] /\ MemoryInv(m'[p])
    /\ \A q \in Executions : q # p => m'[q] = m[q]

AliveAt(c) == c \in {"completed", "counts", "checkpoints", "lanes"}

(* While one execution at most is alive, what it is true of is what is     *)
(* true of the live ones.                                                  *)
LEMMA OneLives ==
    ASSUME BackfillInv, ~overlapped, NEW p \in Executions, Alive(p), Only(p),
           NEW q \in Executions, q # p
    PROVE  ~Alive(q) /\ ~AliveAt(m'[q].pc)
BY Cells DEF SequentialInv, Alive, AliveAt, Only

(* A step that leaves the tables alone.                                    *)
LEMMA TablesStay ==
    ASSUME BackfillInv, NEW p \in Executions, Alive(p), Only(p),
           UNCHANGED <<row, ckpt, overlapped>>, faults' \in 0..MaxFaults, faults <= faults',
           run' = run \/ (run' \in {"PARTIAL", "FAILED", "SUCCEEDED"}
                          /\ (~overlapped /\ run' = "SUCCEEDED" =>
                                \A w \in Windows : Success(row, w))),
           ~overlapped /\ AliveAt(m'[p].pc) => LiveInv(m'[p]),
           ledger' \subseteq Windows \X (1..MaxOrdinal), refused' \subseteq ledger',
           Quiet /\ faults' = faults => QuietInv'
    PROVE  BackfillInv'
<1>0. faults \in Nat /\ faults' \in Nat /\ TypeOK /\ TablesInv
  BY Cells, PlanFacts
<1>1. TypeInv'
  BY <1>0 DEF TypeInv, TypeOK, Only
<1>2. TablesInv'
  BY <1>0 DEF TablesInv
<1>3. \A q \in Executions : MemoryInv(m'[q])
  BY Cells DEF Only
<1>4. ASSUME ~overlapped' PROVE SequentialInv'
  <2>0. ~overlapped /\ SequentialInv
    BY <1>4, Cells
  <2>1. \A q \in Executions : q # p => ~AliveAt(m'[q].pc)
    BY <2>0, OneLives
  <2>2. \A q, r \in Executions : AliveAt(m'[q].pc) /\ AliveAt(m'[r].pc) => q = r
    BY <2>1
  <2>3. \A q \in Executions : AliveAt(m'[q].pc) => LiveInv(m'[q])
    BY <2>0, <2>1
  <2>4. \A q \in Executions : AliveAt(m'[q].pc) => LiveInv(m[q])'
    BY <2>3 DEF LiveInv
  <2>5. run' = "SUCCEEDED" => \A w \in Windows : Success(row', w)
    BY <2>0 DEF SequentialInv
  <2> QED
    BY <2>0, <2>2, <2>4, <2>5 DEF SequentialInv, Alive, AliveAt
<1>5. ASSUME Quiet' PROVE QuietInv'
  <2>1. Quiet /\ faults' = faults
    BY <1>0, <1>5, Cells DEF Quiet
  <2> QED
    BY <2>1
<1> QED
  BY <1>1, <1>2, <1>3, <1>4, <1>5 DEF BackfillInv

(* The attempts of the ledger stay counted.                                *)
LEMMA QuietStays ==
    ASSUME BackfillInv, Quiet, NEW p \in Executions, Only(p), row' = row, refused' = {},
           AliveAt(m'[p].pc) => ~m'[p].broken /\ CountsInv(m'[p]),
           \A g \in Grains : \A d \in 1..Days[g] : \A n \in 1..MaxOrdinal :
               <<<<g, d>>, n>> \in ledger' =>
                   <<<<g, d>>, n>> \in ledger \/ Own(m'[p], g, d, n),
           \A g \in Grains : \A d \in 1..Days[g] : \A n \in 1..MaxOrdinal :
               Own(m[p], g, d, n) => n <= row[<<g, d>>].count \/ Own(m'[p], g, d, n)
    PROVE  QuietInv'
<1>1. QuietInv
  BY Cells
<1>2. \A q \in Executions : AliveAt(m'[q].pc) => ~m'[q].broken /\ CountsInv(m'[q])
  BY <1>1 DEF QuietInv, Only, Alive, AliveAt
<1>3. \A q \in Executions : Alive(q)' => ~m'[q].broken /\ CountsInv(m[q])'
  BY <1>2 DEF Alive, AliveAt, CountsInv
<1>4. ASSUME NEW g \in Grains, NEW d \in 1..Days[g], NEW n \in 1..MaxOrdinal,
             <<<<g, d>>, n>> \in ledger'
      PROVE  n <= row'[<<g, d>>].count \/ \E q \in Executions : Own(m'[q], g, d, n)
  <2>1. CASE <<<<g, d>>, n>> \in ledger
    <3>1. n <= row[<<g, d>>].count \/ \E q \in Executions : Own(m[q], g, d, n)
      BY <1>1, <2>1 DEF QuietInv, Counted
    <3>2. \A q \in Executions : q # p => m'[q] = m[q]
      BY DEF Only
    <3> QED
      BY <3>1, <3>2
  <2>2. CASE Own(m'[p], g, d, n)
    BY <2>2
  <2> QED
    BY <1>4, <2>1, <2>2
<1> QED
  BY <1>3, <1>4 DEF QuietInv, Counted

(* The reads of an execution that opens.                                   *)
LEMMA LoadSteps ==
    ASSUME BackfillInv, NEW p \in Executions,
           \/ LoadCompletedWindowKeys(p) \/ LoadWindowAttemptCounts(p) \/ LoadCheckpoints(p)
    PROVE  BackfillInv'
<1>0. /\ m[p].pc \in Reading /\ Alive(p) /\ m[p] \in Memory /\ MemoryInv(m[p])
      /\ m \in [Executions -> Memory] /\ faults \in 0..MaxFaults /\ faults \in Nat
      /\ m[p].pc # "lanes"
      /\ UNCHANGED <<run, row, ckpt, ledger, refused, overlapped, faults>>
  BY Cells DEF LoadCompletedWindowKeys, LoadWindowAttemptCounts, LoadCheckpoints, Reading,
     Alive, tables
<1>1. PICK d, k : /\ d = {w \in Windows : row[w].status = "SUCCEEDED"}
                  /\ k = [w \in Windows |-> PriorAttempts(row[w].count)]
  OBVIOUS
<1>2. d \subseteq Windows /\ k \in [Windows -> Nat] /\ ckpt \in [Grains -> CheckpointType]
  BY <1>1, Cells DEF PriorAttempts
<1>3. PICK y : /\ m' = [m EXCEPT ![p] = y]
               /\ \/ m[p].pc = "completed" /\ y = [m[p] EXCEPT !.pc = "counts", !.done = d]
                  \/ m[p].pc = "counts" /\ y = [m[p] EXCEPT !.pc = "checkpoints", !.prior = k]
                  \/ m[p].pc = "checkpoints" /\ y = [m[p] EXCEPT !.pc = "lanes", !.ckpt = ckpt]
  BY <1>0, <1>1 DEF LoadCompletedWindowKeys, LoadWindowAttemptCounts, LoadCheckpoints
<1>4. /\ y \in Memory /\ y.print = m[p].print /\ y.next = m[p].next /\ y.lanes = m[p].lanes
      /\ y.broken = m[p].broken /\ y.lane = m[p].lane /\ y.result = m[p].result
      /\ \/ y.pc = "counts" /\ y.done = d
         \/ /\ y.pc = "checkpoints" /\ y.prior = k /\ y.done = m[p].done
            /\ m[p].pc = "counts"
         \/ /\ y.pc = "lanes" /\ y.ckpt = ckpt /\ y.done = m[p].done
            /\ y.prior = m[p].prior /\ m[p].pc = "checkpoints"
  <2>0. m[p] \in Memory
    BY <1>0
  <2>1. CASE m[p].pc = "completed" /\ y = [m[p] EXCEPT !.pc = "counts", !.done = d]
    BY <1>2, <2>0, <2>1 DEF Memory, Counters
  <2>2. CASE m[p].pc = "counts" /\ y = [m[p] EXCEPT !.pc = "checkpoints", !.prior = k]
    BY <1>2, <2>0, <2>2 DEF Memory, Counters
  <2>3. CASE m[p].pc = "checkpoints" /\ y = [m[p] EXCEPT !.pc = "lanes", !.ckpt = ckpt]
    BY <1>2, <2>0, <2>3 DEF Memory, Counters
  <2> QED
    BY <1>3, <2>1, <2>2, <2>3
<1>5. \A g \in Grains : /\ y.lane[g] = Idle(Days[g]) /\ y.lane[g].at = "wait"
                        /\ y.lane[g].day = Days[g] /\ y.lane[g].tries = 0
  BY <1>0, <1>4, PlanFacts, IdleLane DEF MemoryInv
<1>6. MemoryInv(y)
  <2>1. \A g \in Grains : LaneInv(y, g)
    BY <1>5, PlanFacts DEF LaneInv
  <2>2. y.pc \in Reading \cup {"lanes"} /\ y.print \in Prints
    BY <1>0, <1>4 DEF MemoryInv, Reading
  <2> QED
    BY <1>0, <1>4, <1>5, <2>1, <2>2 DEF MemoryInv
<1>7. m'[p] = y /\ Only(p)
  BY <1>0, <1>3, <1>4, <1>6 DEF Only
<1>8. ASSUME ~overlapped PROVE LiveInv(y)
  <2>1. LiveInv(m[p])
    BY <1>0, <1>8, Cells DEF SequentialInv
  <2>2. \A w \in Windows : w \in d <=> Success(row, w)
    BY <1>1 DEF Success
  <2>3. y.pc \in {"counts", "checkpoints", "lanes"} =>
         \A g \in Grains : \A e \in 1..Days[g] :
           /\ Success(row, <<g, e>>) => <<g, e>> \in y.done \/ e > y.lane[g].day
           /\ <<g, e>> \in y.done => Success(row, <<g, e>>)
    BY <1>4, <2>1, <2>2, PlanFacts DEF LiveInv
  <2> QED
    BY <1>4, <2>1, <2>3 DEF LiveInv
<1>9. ASSUME Quiet PROVE QuietInv'
  <2>1. refused = {} /\ ~m[p].broken /\ CountsInv(m[p])
    BY <1>0, <1>9, Cells DEF QuietInv
  <2>2. \A w \in Windows : k[w] = row[w].count
    BY <1>1, <1>9, Cells DEF Quiet, PriorAttempts
  <2>3. CountsInv(y)
    BY <1>4, <2>1, <2>2, PlanFacts DEF CountsInv
  <2>4. \A g, e, n : ~Own(m[p], g, e, n)
    BY <1>0 DEF Own
  <2> QED
    BY <1>0, <1>4, <1>7, <1>9, <2>1, <2>3, <2>4, QuietStays
<1>10. ledger \subseteq Windows \X (1..MaxOrdinal) /\ refused \subseteq ledger
  BY Cells DEF TypeOK
<1> QED
  BY <1>0, <1>7, <1>8, <1>9, <1>10, TablesStay

(* A lane is taken in its turn.                                            *)
LEMMA TakeGrainStep ==
    ASSUME BackfillInv, NEW p \in Executions, TakeGrain(p)
    PROVE  BackfillInv'
<1>0. /\ m[p].pc = "lanes" /\ Alive(p) /\ m[p] \in Memory /\ MemoryInv(m[p])
      /\ m \in [Executions -> Memory] /\ faults \in 0..MaxFaults /\ faults \in Nat
      /\ UNCHANGED <<run, row, ckpt, ledger, refused, overlapped, faults>>
      /\ m[p].next <= Len(Order)
  BY Cells DEF TakeGrain, Alive, tables
<1>1. PICK g : g = Order[m[p].next]
  OBVIOUS
<1>2. PICK l : l = [m[p].lane[g] EXCEPT !.at = "ready"]
  OBVIOUS
<1>3. PICK z : z = [m[p] EXCEPT !.lane[g] = l]
  OBVIOUS
<1>4. PICK y : y = [z EXCEPT !.next = @ + 1]
  OBVIOUS
<1>5. m[p].next \in Nat \ {0} /\ m[p].lane \in [Grains -> LaneType]
  BY <1>0, MemoryFields
<1>6. m[p].next \in 1..Len(Order) /\ g \in Grains
  BY <1>0, <1>1, <1>5, PlanFacts
<1>7. m[p].lane[g].at = "wait" /\ m[p].lane[g].day = Days[g] /\ m[p].lane[g].tries = 0
  <2>1. LaneInv(m[p], g) /\ \A i \in 1..Len(Order) :
           i < m[p].next <=> m[p].lane[Order[i]].at # "wait"
    BY <1>0, <1>6 DEF MemoryInv
  <2>2. ~(m[p].next < m[p].next)
    BY <1>5
  <2>3. m[p].lane[g].at = "wait"
    BY <1>1, <1>6, <2>1, <2>2
  <2> QED
    BY <2>1, <2>3 DEF LaneInv
<1>8. /\ l \in LaneType /\ l.at = "ready" /\ l.day = Days[g] /\ l.tries = 0
  <2>1. m[p].lane[g] \in LaneType
    BY <1>5, <1>6
  <2> QED
    BY <1>2, <1>7, <2>1 DEF LaneType, Places
<1>9. z \in Memory /\ LaneIs(m[p], z, g, l)
  BY <1>0, <1>3, <1>6, <1>8, LaneSet
<1>10. /\ y \in Memory /\ y.pc = "lanes" /\ y.print = m[p].print /\ y.done = m[p].done
       /\ y.prior = m[p].prior /\ y.ckpt = m[p].ckpt /\ y.next = m[p].next + 1
       /\ y.lanes = m[p].lanes /\ y.broken = m[p].broken /\ y.result = m[p].result
       /\ y.lane[g] = l /\ \A h \in Grains : h # g => y.lane[h] = m[p].lane[h]
  <2>1. z.next + 1 \in Nat \ {0} /\ z.next = m[p].next
    BY <1>5, <1>9 DEF LaneIs
  <2>2. /\ y \in Memory /\ y.pc = z.pc /\ y.print = z.print /\ y.done = z.done
        /\ y.prior = z.prior /\ y.ckpt = z.ckpt /\ y.next = z.next + 1
        /\ y.lanes = z.lanes /\ y.broken = z.broken /\ y.result = z.result
        /\ y.lane = z.lane
    BY <1>4, <1>9, <2>1 DEF Memory
  <2> QED
    BY <1>0, <1>9, <2>1, <2>2 DEF LaneIs
<1>11. m' = [m EXCEPT ![p] = y]
  <2>1. y = [m[p] EXCEPT !.lane[g] = l, !.next = @ + 1]
    BY <1>3, <1>4
  <2>2. m' = [m EXCEPT ![p] = [m[p] EXCEPT !.next = m[p].next + 1,
                                 !.lane[g] = [m[p].lane[g] EXCEPT !.at = "ready"]]]
    BY <1>0, <1>1 DEF TakeGrain
  <2>3. [m[p] EXCEPT !.next = m[p].next + 1,
                     !.lane[g] = [m[p].lane[g] EXCEPT !.at = "ready"]] = y
    BY <1>0, <1>2, <1>6, <2>1 DEF Memory
  <2> QED
    BY <2>2, <2>3
<1>12. \A h \in Grains :
          /\ y.lane[h].day = m[p].lane[h].day
          /\ y.lane[h].tries = m[p].lane[h].tries
          /\ y.lane[h].at = "over" <=> m[p].lane[h].at = "over"
  BY <1>7, <1>8, <1>10
<1>13. MemoryInv(y)
  <2>1. LaneInv(y, g)
    BY <1>6, <1>8, <1>10, PlanFacts DEF LaneInv
  <2>2. \A h \in Grains : LaneInv(y, h)
    BY <1>0, <1>10, <2>1 DEF MemoryInv, LaneInv
  <2>3. ASSUME NEW i \in 1..Len(Order)
        PROVE  i < y.next <=> y.lane[Order[i]].at # "wait"
    <3>1. i < m[p].next <=> m[p].lane[Order[i]].at # "wait"
      BY <1>0 DEF MemoryInv
    <3>2. CASE i = m[p].next
      BY <1>1, <1>5, <1>8, <1>10, <3>2
    <3>3. CASE i # m[p].next
      <4>1. Order[i] # g /\ Order[i] \in Grains
        BY <1>1, <1>6, <3>3, PlanAssumption, PlanFacts
      <4>2. i < m[p].next + 1 <=> i < m[p].next
        BY <1>5, <3>3
      <4> QED
        BY <1>10, <3>1, <4>1, <4>2
    <3> QED
      BY <3>2, <3>3
  <2>4. ~y.broken => /\ y.lanes = Lanes
                     /\ \A h \in Grains : \A d \in 1..Days[h] :
                          d > y.lane[h].day => y.result[<<h, d>>] # "none"
    BY <1>0, <1>10, <1>12 DEF MemoryInv
  <2> QED
    BY <1>0, <1>10, <2>2, <2>3, <2>4 DEF MemoryInv
<1>14. m'[p] = y /\ Only(p)
  BY <1>0, <1>10, <1>11, <1>13 DEF Only
<1>15. ASSUME ~overlapped PROVE LiveInv(y)
  <2>1. LiveInv(m[p])
    BY <1>0, <1>15, Cells DEF SequentialInv
  <2> QED
    BY <1>0, <1>10, <1>12, <2>1 DEF LiveInv
<1>16. ASSUME Quiet PROVE QuietInv'
  <2>1. refused = {} /\ ~m[p].broken /\ CountsInv(m[p])
    BY <1>0, <1>16, Cells DEF QuietInv
  <2>2. CountsInv(y)
    BY <1>0, <1>10, <1>12, <2>1 DEF CountsInv
  <2>3. \A h \in Grains : \A e, n : Own(m[p], h, e, n) => Own(y, h, e, n)
    BY <1>0, <1>10, <1>12 DEF Own
  <2> QED
    BY <1>0, <1>10, <1>14, <1>16, <2>1, <2>2, <2>3, QuietStays
<1>17. ledger \subseteq Windows \X (1..MaxOrdinal) /\ refused \subseteq ledger
  BY Cells DEF TypeOK
<1> QED
  BY <1>0, <1>14, <1>15, <1>16, <1>17, TablesStay

(* A lane that stays at its window.                                        *)
LEMMA LaneStays ==
    ASSUME BackfillInv, NEW p \in Executions, m[p].pc = "lanes", NEW g \in Grains,
           m[p].lane[g].at \notin {"wait", "over"},
           NEW l \in LaneType, NEW y \in Memory, LaneIs(m[p], y, g, l), LaneInv(y, g),
           m' = [m EXCEPT ![p] = y], l.at \notin {"wait", "over"},
           l.day = m[p].lane[g].day, l.tries >= m[p].lane[g].tries,
           UNCHANGED <<run, row, ckpt, overlapped, faults>>,
           ledger' \subseteq Windows \X (1..MaxOrdinal), refused' \subseteq ledger',
           Quiet => refused' = {},
           \A h \in Grains : \A d \in 1..Days[h] : \A n \in 1..MaxOrdinal :
               <<<<h, d>>, n>> \in ledger' =>
                   <<<<h, d>>, n>> \in ledger \/ Own(y, h, d, n)
    PROVE  BackfillInv'
<1>0. /\ Alive(p) /\ m[p] \in Memory /\ MemoryInv(m[p])
      /\ m \in [Executions -> Memory] /\ faults \in 0..MaxFaults /\ faults \in Nat
  BY Cells DEF Alive
<1>1. /\ y.pc = "lanes" /\ y.print = m[p].print /\ y.done = m[p].done
      /\ y.prior = m[p].prior /\ y.ckpt = m[p].ckpt /\ y.next = m[p].next
      /\ y.lanes = m[p].lanes /\ y.broken = m[p].broken /\ y.result = m[p].result
      /\ y.lane[g] = l /\ \A h \in Grains : h # g => y.lane[h] = m[p].lane[h]
  BY DEF LaneIs
<1>2. \A h \in Grains :
         /\ y.lane[h].day = m[p].lane[h].day
         /\ y.lane[h].at = "over" <=> m[p].lane[h].at = "over"
         /\ y.lane[h].at = "wait" <=> m[p].lane[h].at = "wait"
  <2> SUFFICES ASSUME NEW h \in Grains
               PROVE  /\ y.lane[h].day = m[p].lane[h].day
                      /\ y.lane[h].at = "over" <=> m[p].lane[h].at = "over"
                      /\ y.lane[h].at = "wait" <=> m[p].lane[h].at = "wait"
    OBVIOUS
  <2>1. CASE h = g
    BY <1>1, <2>1
  <2>2. CASE h # g
    BY <1>1, <2>2
  <2> QED
    BY <2>1, <2>2
<1>3. MemoryInv(y)
  <2>1. \A h \in Grains : LaneInv(y, h)
    <3>1. ASSUME NEW h \in Grains, h # g PROVE LaneInv(y, h)
      <4>1. LaneInv(m[p], h)
        BY <1>0 DEF MemoryInv
      <4> QED
        BY <1>1, <3>1, <4>1 DEF LaneInv
    <3> QED
      BY <3>1
  <2>2. \A i \in 1..Len(Order) : i < y.next <=> y.lane[Order[i]].at # "wait"
    BY <1>0, <1>1, <1>2, PlanFacts DEF MemoryInv
  <2>3. ~y.broken => /\ y.lanes = Lanes
                     /\ \A h \in Grains : \A d \in 1..Days[h] :
                          d > y.lane[h].day => y.result[<<h, d>>] # "none"
    BY <1>0, <1>1, <1>2 DEF MemoryInv
  <2> QED
    BY <1>0, <1>1, <2>1, <2>2, <2>3 DEF MemoryInv
<1>4. m'[p] = y /\ Only(p)
  BY <1>0, <1>3 DEF Only
<1>5. ASSUME ~overlapped PROVE LiveInv(y)
  <2>1. LiveInv(m[p])
    BY <1>0, <1>5, Cells DEF SequentialInv
  <2> QED
    BY <1>1, <1>2, <2>1 DEF LiveInv
<1>6. ASSUME Quiet PROVE QuietInv'
  <2>1. refused = {} /\ ~m[p].broken /\ CountsInv(m[p])
    BY <1>0, <1>6, Cells DEF QuietInv
  <2>2. CountsInv(y)
    BY <1>1, <1>2, <2>1 DEF CountsInv
  <2>3. ASSUME NEW h \in Grains, NEW d \in 1..Days[h], NEW n \in 1..MaxOrdinal,
               Own(m[p], h, d, n)
        PROVE  Own(y, h, d, n)
    <3>1. /\ y.lane[h].tries \in Nat /\ m[p].lane[h].tries \in Nat
          /\ m[p].prior[<<h, d>>] \in Nat /\ n \in Nat
      BY <1>0, MemoryFields, PlanFacts
    <3>2. y.lane[h].tries >= m[p].lane[h].tries
      BY <1>1, <3>1
    <3> QED
      BY <1>1, <1>2, <2>3, <3>1, <3>2 DEF Own
  <2> QED
    BY <1>1, <1>4, <1>6, <2>1, <2>2, <2>3, QuietStays
<1> QED
  BY <1>0, <1>4, <1>5, <1>6, TablesStay

(* The lane of a window that is ready: what its guard says of it.          *)
LEMMA LaneFacts ==
    ASSUME BackfillInv, NEW p \in Executions, NEW g \in Grains, m[p].pc = "lanes",
           m[p].lane[g].at \notin {"wait", "over"}
    PROVE  /\ m[p] \in Memory /\ MemoryInv(m[p]) /\ LaneInv(m[p], g) /\ Alive(p)
           /\ m[p].lane[g] \in LaneType /\ m[p].lane[g].day \in 1..Days[g]
           /\ m[p].lane[g].tries \in Nat /\ m[p].lane[g].outcome \in {"none"} \cup Outcomes
           /\ m[p].print \in Prints
           /\ ledger \subseteq Windows \X (1..MaxOrdinal) /\ refused \subseteq ledger
           /\ Quiet => refused = {} /\ QuietInv
           /\ Window(p, g) = <<g, m[p].lane[g].day>> /\ Window(p, g) \in Windows
           /\ m[p].prior[Window(p, g)] \in Nat
<1>1. m[p] \in Memory /\ MemoryInv(m[p]) /\ Alive(p)
  BY Cells DEF Alive
<1>2. LaneInv(m[p], g) /\ m[p].print \in Prints
  BY <1>1 DEF MemoryInv
<1>3. /\ m[p].lane[g] \in LaneType /\ m[p].lane[g].tries \in Nat
      /\ m[p].lane[g].outcome \in {"none"} \cup Outcomes
      /\ \A w \in Windows : m[p].prior[w] \in Nat
  BY <1>1, MemoryFields
<1>4. m[p].lane[g].day \in 1..Days[g]
  BY <1>2 DEF LaneInv
<1>5. ledger \subseteq Windows \X (1..MaxOrdinal) /\ refused \subseteq ledger
  BY Cells DEF TypeOK
<1>6. Window(p, g) = <<g, m[p].lane[g].day>> /\ Window(p, g) \in Windows
  BY <1>4, PlanFacts DEF Window, Lane
<1>7. Quiet => refused = {} /\ QuietInv
  BY Cells DEF QuietInv
<1> QED
  BY <1>1, <1>2, <1>3, <1>4, <1>5, <1>6, <1>7

(* A lane that stays at its window and makes no call.                      *)
LEMMA QuietLaneStays ==
    ASSUME BackfillInv, NEW p \in Executions, m[p].pc = "lanes", NEW g \in Grains,
           m[p].lane[g].at \in {"ready", "calling", "refused", "commit"},
           NEW l \in LaneType, NEW y \in Memory, LaneIs(m[p], y, g, l), LaneInv(y, g),
           m' = [m EXCEPT ![p] = y], l.at \in {"ready", "commit"},
           l.day = m[p].lane[g].day, l.tries >= m[p].lane[g].tries,
           UNCHANGED <<run, row, ckpt, ledger, refused, overlapped, faults>>
    PROVE  BackfillInv'
<1>1. m[p].lane[g].at \notin {"wait", "over"} /\ l.at \notin {"wait", "over"}
  OBVIOUS
<1>2. /\ ledger' \subseteq Windows \X (1..MaxOrdinal) /\ refused' \subseteq ledger'
      /\ Quiet => refused' = {}
  BY <1>1, LaneFacts
<1>3. \A h \in Grains : \A d \in 1..Days[h] : \A n \in 1..MaxOrdinal :
         <<<<h, d>>, n>> \in ledger' =>
             <<<<h, d>>, n>> \in ledger \/ Own(y, h, d, n)
  OBVIOUS
<1> QED
  BY <1>1, <1>2, <1>3, LaneStays

\* The memories x with the lane of g set.
SetLane(x, p, g, l) == [x EXCEPT ![p].lane[g] = l]

(* A lane edited again.                                                    *)
LEMMA EditAgain ==
    ASSUME NEW x \in [Executions -> Memory], NEW p \in Executions, NEW g \in Grains,
           NEW l \in LaneType, NEW k \in LaneType
    PROVE  /\ SetLane(x, p, g, l)[p].lane[g] = l
           /\ SetLane(SetLane(x, p, g, l), p, g, k) = SetLane(x, p, g, k)
<1>1. x[p] \in Memory /\ x[p].lane \in [Grains -> LaneType]
  BY MemoryFields
<1>2. PICK u, v, y, z : /\ u = [x[p] EXCEPT !.lane[g] = l] /\ v = [x[p] EXCEPT !.lane[g] = k]
                        /\ y = SetLane(x, p, g, l) /\ z = SetLane(y, p, g, k)
  OBVIOUS
<1>3. /\ u.lane = [x[p].lane EXCEPT ![g] = l]
      /\ [u EXCEPT !.lane = [x[p].lane EXCEPT ![g] = k]] = v
  BY <1>1, <1>2 DEF Memory
<1>4. y = [x EXCEPT ![p] = u] /\ y[p] = u
  BY <1>2 DEF SetLane
<1>5. [u.lane EXCEPT ![g] = k] = [x[p].lane EXCEPT ![g] = k]
  BY <1>1, <1>3
<1>6. z = [y EXCEPT ![p] = v]
  BY <1>2, <1>3, <1>4, <1>5 DEF SetLane
<1>7. z = [x EXCEPT ![p] = v]
  BY <1>4, <1>6
<1>8. y[p].lane[g] = l
  BY <1>1, <1>3, <1>4
<1>9. SetLane(x, p, g, k) = [x EXCEPT ![p] = v]
  BY <1>2 DEF SetLane
<1> QED
  BY <1>2, <1>7, <1>8, <1>9

(* A blocked window goes to its commit without a call.                     *)
LEMMA BlockStep ==
    ASSUME BackfillInv, NEW p \in Executions, NEW g \in Grains, Block(p, g)
    PROVE  BackfillInv'
<1>0. /\ m[p].pc = "lanes" /\ m[p].lane[g].at = "ready" /\ g \in Blocked
      /\ UNCHANGED <<run, row, ckpt, ledger, refused, overlapped, faults>>
  BY DEF Block, Lane, tables
<1>1. PICK l : l = [m[p].lane[g] EXCEPT !.at = "commit", !.outcome = "BLOCKED"]
  OBVIOUS
<1>2. PICK y : y = [m[p] EXCEPT !.lane[g] = l]
  OBVIOUS
<1>3. /\ l \in LaneType /\ l.at = "commit" /\ l.outcome = "BLOCKED"
      /\ l.day = m[p].lane[g].day /\ l.tries = m[p].lane[g].tries
  BY <1>0, <1>1, LaneFacts DEF LaneType, Places, Outcomes
<1>4. y \in Memory /\ LaneIs(m[p], y, g, l)
  BY <1>0, <1>2, <1>3, LaneFacts, LaneSet
<1>5. m' = [m EXCEPT ![p] = y]
  <2>1. PICK k, n : /\ k = [m[p].lane[g] EXCEPT !.at = "commit"]
                    /\ n = SetLane(m, p, g, k)
    OBVIOUS
  <2>2. m[p].lane[g] \in LaneType /\ m \in [Executions -> Memory]
    BY <1>0, LaneFacts, Cells
  <2>3. k \in LaneType
    BY <2>1, <2>2 DEF LaneType, Places
  <2>4. n[p].lane[g] = k
    BY <1>3, <2>1, <2>2, <2>3, EditAgain
  <2>5. m' = SetLane(n, p, g, [n[p].lane[g] EXCEPT !.outcome = "BLOCKED"])
    BY <2>1 DEF Block, SetLane
  <2>6. l = [k EXCEPT !.outcome = "BLOCKED"]
    BY <1>1, <2>1
  <2>7. m' = SetLane(n, p, g, l)
    BY <2>4, <2>5, <2>6
  <2>8. m' = SetLane(m, p, g, l)
    BY <1>3, <2>1, <2>2, <2>3, <2>7, EditAgain
  <2> QED
    BY <1>2, <2>8 DEF SetLane
<1>6. LaneInv(y, g)
  BY <1>0, <1>3, <1>4, LaneFacts DEF LaneInv, LaneIs, Outcomes
<1>7. l.tries >= m[p].lane[g].tries
  BY <1>0, <1>3, LaneFacts
<1> QED
  BY <1>0, <1>3, <1>4, <1>5, <1>6, <1>7, QuietLaneStays

(* An attempt past the last ordinal is counted and fails.                  *)
LEMMA LimitReachedStep ==
    ASSUME BackfillInv, NEW p \in Executions, NEW g \in Grains, LimitReached(p, g)
    PROVE  BackfillInv'
<1>0. /\ m[p].pc = "lanes" /\ m[p].lane[g].at = "ready" /\ g \notin Blocked
      /\ Window(p, g) \notin m[p].done
      /\ UNCHANGED <<run, row, ckpt, ledger, refused, overlapped, faults>>
  BY DEF LimitReached, Lane, tables
<1>1. PICK l : l = [m[p].lane[g] EXCEPT !.at = "commit", !.tries = @ + 1, !.outcome = "FAILED"]
  OBVIOUS
<1>2. PICK y : y = [m[p] EXCEPT !.lane[g] = l]
  OBVIOUS
<1>3. /\ l \in LaneType /\ l.at = "commit" /\ l.outcome = "FAILED"
      /\ l.day = m[p].lane[g].day /\ l.tries >= m[p].lane[g].tries
  <2>1. m[p].lane[g] \in LaneType /\ m[p].lane[g].tries + 1 \in Nat
    BY <1>0, LaneFacts
  <2>2. /\ l \in LaneType /\ l.at = "commit" /\ l.outcome = "FAILED"
        /\ l.day = m[p].lane[g].day /\ l.tries = m[p].lane[g].tries + 1
    BY <1>1, <2>1 DEF LaneType, Places, Outcomes
  <2>3. m[p].lane[g].tries \in Nat
    BY <1>0, LaneFacts
  <2> QED
    BY <2>2, <2>3
<1>4. y \in Memory /\ LaneIs(m[p], y, g, l)
  BY <1>0, <1>2, <1>3, LaneFacts, LaneSet
<1>5. m' = [m EXCEPT ![p] = y]
  BY <1>1, <1>2 DEF LimitReached, Lane
<1>6. LaneInv(y, g)
  BY <1>0, <1>3, <1>4, LaneFacts DEF LaneInv, LaneIs, Outcomes
<1> QED
  BY <1>0, <1>3, <1>4, <1>5, <1>6, QuietLaneStays

(* The answer of a call: tried again, or judged.                           *)
LEMMA AnsweredStep ==
    ASSUME BackfillInv, NEW p \in Executions, NEW g \in Grains, Answered(p, g)
    PROVE  BackfillInv'
<1>0. /\ m[p].pc = "lanes" /\ m[p].lane[g].at \in {"calling", "refused"}
      /\ UNCHANGED <<run, row, ckpt, ledger, refused, overlapped, faults>>
  BY DEF Answered, Lane, tables
<1>1. PICK l, a :
        /\ \/ l = [m[p].lane[g] EXCEPT !.at = "ready"]
           \/ l = [m[p].lane[g] EXCEPT !.at = "commit", !.outcome = Judged(p, g, a)]
        /\ m' = [m EXCEPT ![p] = [m[p] EXCEPT !.lane[g] = l]]
  <2>1. PICK a :
          m' = IF a = "error" /\ Lane(p, g).tries < MaxAttempts
               THEN [m EXCEPT ![p].lane[g].at = "ready"]
               ELSE [m EXCEPT ![p].lane[g].at = "commit",
                              ![p].lane[g].outcome = Judged(p, g, a)]
    BY DEF Answered
  <2>2. CASE m' = [m EXCEPT ![p].lane[g].at = "ready"]
    BY <2>2
  <2>3. CASE m' = [m EXCEPT ![p].lane[g].at = "commit",
                            ![p].lane[g].outcome = Judged(p, g, a)]
    <3>1. PICK o : o = Judged(p, g, a)
      OBVIOUS
    <3>2. PICK k : k = [m[p].lane[g] EXCEPT !.at = "commit", !.outcome = o]
      OBVIOUS
    <3>3. PICK j, n : /\ j = [m[p].lane[g] EXCEPT !.at = "commit"]
                      /\ n = SetLane(m, p, g, j)
      OBVIOUS
    <3>4. m[p].lane[g] \in LaneType /\ m \in [Executions -> Memory]
      BY <1>0, LaneFacts, Cells
    <3>5. o \in Outcomes
      BY <3>1 DEF Judged, Outcomes
    <3>6. j \in LaneType /\ k \in LaneType
      BY <3>2, <3>3, <3>4, <3>5 DEF LaneType, Places
    <3>7. n[p].lane[g] = j
      BY <3>3, <3>4, <3>6, EditAgain
    <3>8. m' = SetLane(n, p, g, [n[p].lane[g] EXCEPT !.outcome = o])
      BY <2>3, <3>1, <3>3 DEF SetLane
    <3>9. k = [j EXCEPT !.outcome = o]
      BY <3>2, <3>3
    <3>10. m' = SetLane(n, p, g, k)
      BY <3>7, <3>8, <3>9
    <3>11. m' = SetLane(m, p, g, k)
      BY <3>3, <3>4, <3>6, <3>10, EditAgain
    <3> QED
      BY <3>1, <3>2, <3>11 DEF SetLane
  <2> QED
    BY <2>1, <2>2, <2>3
<1>2. PICK y : y = [m[p] EXCEPT !.lane[g] = l]
  OBVIOUS
<1>3. /\ Judged(p, g, a) \in Outcomes /\ Judged(p, g, a) # "BLOCKED"
      /\ Judged(p, g, a) = "SUCCEEDED" => m[p].ckpt[g].print \in {None, m[p].print}
  BY DEF Judged, Outcomes
<1>4. /\ l \in LaneType /\ l.day = m[p].lane[g].day /\ l.tries = m[p].lane[g].tries
      /\ l.at \in {"ready", "commit"}
      /\ l.at = "commit" => l.outcome = Judged(p, g, a)
  <2>1. m[p].lane[g] \in LaneType
    BY <1>0, LaneFacts
  <2>2. CASE l = [m[p].lane[g] EXCEPT !.at = "ready"]
    BY <2>1, <2>2 DEF LaneType, Places
  <2>3. CASE l = [m[p].lane[g] EXCEPT !.at = "commit", !.outcome = Judged(p, g, a)]
    <3>1. PICK o : o = Judged(p, g, a)
      OBVIOUS
    <3> QED
      BY <1>3, <2>1, <2>3, <3>1 DEF LaneType, Places
  <2> QED
    BY <1>1, <2>2, <2>3
<1>5. y \in Memory /\ LaneIs(m[p], y, g, l)
  BY <1>0, <1>2, <1>4, LaneFacts, LaneSet
<1>6. LaneInv(y, g)
  <2>1. /\ LaneInv(m[p], g) /\ m[p].lane[g].day \in 1..Days[g]
        /\ m[p].lane[g].tries \in Nat
    BY <1>0, LaneFacts
  <2>2. /\ y.print = m[p].print /\ y.done = m[p].done /\ y.ckpt = m[p].ckpt
        /\ y.lane[g] = l
    BY <1>5 DEF LaneIs
  <2>3. g \notin Blocked /\ <<g, l.day>> \notin m[p].done
    BY <1>0, <1>4, <2>1 DEF LaneInv
  <2> QED
    BY <1>0, <1>3, <1>4, <2>1, <2>2, <2>3 DEF LaneInv
<1>7. m' = [m EXCEPT ![p] = y] /\ l.tries >= m[p].lane[g].tries
  BY <1>0, <1>1, <1>2, <1>4, LaneFacts
<1> QED
  BY <1>0, <1>4, <1>5, <1>6, <1>7, QuietLaneStays

(* A call: with every attempt counted, its ordinal is new to the ledger.   *)
LEMMA OrdinalIsNew ==
    ASSUME BackfillInv, NEW p \in Executions, NEW g \in Grains, m[p].pc = "lanes",
           m[p].lane[g].at \notin {"wait", "over"}, Quiet, Ordinal(p, g) \in 1..MaxOrdinal
    PROVE  <<Window(p, g), Ordinal(p, g)>> \notin ledger
<1>1. PICK d, n, t, w : /\ d = m[p].lane[g].day /\ n = Ordinal(p, g)
                        /\ t = m[p].lane[g].tries /\ w = <<g, d>>
  OBVIOUS
<1>2. /\ d \in 1..Days[g] /\ n \in 1..MaxOrdinal /\ t \in Nat /\ Window(p, g) = w
      /\ m[p].prior[w] \in Nat /\ n = m[p].prior[w] + t + 1 /\ d <= m[p].lane[g].day
      /\ Alive(p) /\ QuietInv /\ SequentialInv
  <2>1. /\ d \in 1..Days[g] /\ t \in Nat /\ Window(p, g) = w /\ m[p].prior[w] \in Nat
        /\ Alive(p) /\ QuietInv
    BY <1>1, LaneFacts
  <2>2. n = m[p].prior[w] + t + 1
    BY <1>1, <2>1 DEF Ordinal, Lane
  <2>3. SequentialInv
    BY Cells DEF Quiet
  <2> QED
    BY <1>1, <2>1, <2>2, <2>3
<1>3. m[p].prior[w] = row[w].count
  BY <1>1, <1>2 DEF QuietInv, CountsInv
<1>4. ASSUME <<w, n>> \in ledger PROVE FALSE
  <2>1. Counted(g, d, n)
    BY <1>1, <1>2, <1>4 DEF QuietInv
  <2>2. ~(n <= row[w].count)
    BY <1>2, <1>3
  <2>3. PICK q \in Executions : Own(m[q], g, d, n)
    BY <1>1, <2>1, <2>2 DEF Counted
  <2>4. q = p
    BY <1>2, <2>3 DEF Own, Alive, SequentialInv
  <2>5. n <= m[p].prior[w] + t
    BY <1>1, <2>3, <2>4 DEF Own
  <2> QED
    BY <1>2, <2>5
<1> QED
  BY <1>1, <1>2, <1>4

(* A call starts its attempt in the ledger.                                *)
LEMMA FetchWindowStep ==
    ASSUME BackfillInv, NEW p \in Executions, NEW g \in Grains, FetchWindow(p, g)
    PROVE  BackfillInv'
<1>0. /\ m[p].pc = "lanes" /\ m[p].lane[g].at = "ready" /\ g \notin Blocked
      /\ Window(p, g) \notin m[p].done /\ Ordinal(p, g) <= MaxOrdinal
      /\ UNCHANGED <<run, row, ckpt, overlapped, faults>>
  BY DEF FetchWindow, Lane, tables
<1>1. PICK key, a : /\ key = <<Window(p, g), Ordinal(p, g)>>
                    /\ a = IF key \in ledger THEN "refused" ELSE "calling"
  OBVIOUS
<1>2. /\ ledger' = ledger \cup {key}
      /\ refused' = IF key \in ledger THEN refused \cup {key} ELSE refused
      /\ m' = [m EXCEPT ![p].lane[g].tries = @ + 1, ![p].lane[g].at = a]
  BY <1>1 DEF FetchWindow
<1>3. PICK k, n, l, y : /\ k = [m[p].lane[g] EXCEPT !.tries = @ + 1]
                        /\ n = SetLane(m, p, g, k)
                        /\ l = [k EXCEPT !.at = a]
                        /\ y = [m[p] EXCEPT !.lane[g] = l]
  OBVIOUS
<1>4. /\ m[p].lane[g] \in LaneType /\ m \in [Executions -> Memory]
      /\ m[p].lane[g].tries \in Nat /\ m[p].lane[g].tries + 1 \in Nat
      /\ m[p] \in Memory
  BY <1>0, LaneFacts, Cells
<1>5. a \in {"refused", "calling"}
  BY <1>1
<1>6. /\ k \in LaneType /\ l \in LaneType /\ l.at = a /\ l.day = m[p].lane[g].day
      /\ l.tries = m[p].lane[g].tries + 1
  <2>1. /\ k \in LaneType /\ k.day = m[p].lane[g].day /\ k.tries = m[p].lane[g].tries + 1
    BY <1>3, <1>4 DEF LaneType
  <2> QED
    BY <1>3, <1>5, <2>1 DEF LaneType, Places
<1>7. m' = [m EXCEPT ![p] = y]
  <2>1. n[p].lane[g] = k
    BY <1>3, <1>4, <1>6, EditAgain
  <2>2. m' = SetLane(n, p, g, [n[p].lane[g] EXCEPT !.at = a])
    BY <1>2, <1>3 DEF SetLane
  <2>3. m' = SetLane(n, p, g, l)
    BY <1>3, <2>1, <2>2
  <2>4. m' = SetLane(m, p, g, l)
    BY <1>3, <1>4, <1>6, <2>3, EditAgain
  <2> QED
    BY <1>3, <2>4 DEF SetLane
<1>8. y \in Memory /\ LaneIs(m[p], y, g, l)
  BY <1>3, <1>4, <1>6, LaneSet
<1>9. LaneInv(y, g)
  <2>1. LaneInv(m[p], g) /\ m[p].lane[g].day \in 1..Days[g]
        /\ Window(p, g) = <<g, m[p].lane[g].day>>
    BY <1>0, LaneFacts
  <2>2. y.done = m[p].done /\ y.lane[g] = l
    BY <1>8 DEF LaneIs
  <2> QED
    BY <1>0, <1>5, <1>6, <2>1, <2>2 DEF LaneInv
<1>10. /\ Window(p, g) \in Windows /\ Ordinal(p, g) \in 1..MaxOrdinal
       /\ Ordinal(p, g) = m[p].prior[Window(p, g)] + m[p].lane[g].tries + 1
       /\ m[p].prior[Window(p, g)] \in Nat
  <2>1. Window(p, g) \in Windows /\ m[p].prior[Window(p, g)] \in Nat
    BY <1>0, LaneFacts
  <2>2. Ordinal(p, g) = m[p].prior[Window(p, g)] + m[p].lane[g].tries + 1
    BY DEF Ordinal, Lane
  <2>3. \A i, j \in Nat : i + j + 1 <= MaxOrdinal => i + j + 1 \in 1..MaxOrdinal
    BY PlanFacts
  <2>4. Ordinal(p, g) \in 1..MaxOrdinal
    BY <1>0, <1>4, <2>1, <2>2, <2>3
  <2> QED
    BY <2>1, <2>2, <2>4
<1>11. /\ ledger' \subseteq Windows \X (1..MaxOrdinal) /\ refused' \subseteq ledger'
       /\ Quiet => refused' = {}
  <2>1. /\ ledger \subseteq Windows \X (1..MaxOrdinal) /\ refused \subseteq ledger
        /\ Quiet => refused = {}
    BY <1>0, LaneFacts
  <2>2. key \in Windows \X (1..MaxOrdinal)
    BY <1>1, <1>10
  <2>3. Quiet => key \notin ledger
    BY <1>0, <1>1, <1>10, OrdinalIsNew
  <2> QED
    BY <1>2, <2>1, <2>2, <2>3
<1>12. ASSUME NEW h \in Grains, NEW d \in 1..Days[h], NEW i \in 1..MaxOrdinal,
              <<<<h, d>>, i>> \in ledger'
       PROVE  <<<<h, d>>, i>> \in ledger \/ Own(y, h, d, i)
  <2>1. CASE <<<<h, d>>, i>> = key
    <3>1. h = g /\ d = m[p].lane[g].day /\ i = Ordinal(p, g) /\ <<h, d>> = Window(p, g)
      BY <1>0, <1>1, <2>1, LaneFacts
    <3>2. y.pc = "lanes" /\ y.prior = m[p].prior /\ y.lane[g] = l
      BY <1>0, <1>8 DEF LaneIs
    <3>3. i = m[p].prior[Window(p, g)] + (m[p].lane[g].tries + 1)
      BY <1>4, <1>10, <3>1
    <3>4. i <= y.prior[<<h, d>>] + y.lane[h].tries
      BY <1>4, <1>6, <1>10, <3>1, <3>2, <3>3
    <3> QED
      BY <1>6, <3>1, <3>2, <3>4 DEF Own
  <2> QED
    BY <1>2, <1>12, <2>1
<1>13. /\ m[p].lane[g].at \notin {"wait", "over"} /\ l.at \notin {"wait", "over"}
       /\ l.tries >= m[p].lane[g].tries
  BY <1>0, <1>4, <1>5, <1>6
<1> QED
  BY <1>0, <1>6, <1>7, <1>8, <1>9, <1>11, <1>12, <1>13, LaneStays

-----------------------------------------------------------------------------
(* A lane moves on: over a window that is skipped or committed.            *)

(* The lane of the next older window.                                      *)
LEMMA ForwardLane ==
    ASSUME BackfillInv, NEW p \in Executions, NEW g \in Grains, m[p].pc = "lanes",
           m[p].lane[g].at \notin {"wait", "over"}
    PROVE  /\ Forward(p, g) \in LaneType /\ Forward(p, g).day = m[p].lane[g].day - 1
           /\ Forward(p, g).tries = 0
           /\ Forward(p, g).at = IF m[p].lane[g].day > 1 THEN "ready" ELSE "over"
<1>1. PICK d, k, a : /\ d = m[p].lane[g].day /\ k = Idle(d - 1)
                     /\ a = IF d > 1 THEN "ready" ELSE "over"
  OBVIOUS
<1>2. d \in 1..Days[g] /\ Days[g] \in Nat
  BY <1>1, LaneFacts, PlanFacts
<1>3. d - 1 \in Nat
  BY <1>2
<1>4. k \in LaneType /\ k.day = d - 1 /\ k.tries = 0
  BY <1>1, <1>3, IdleLane
<1>5. a \in {"ready", "over"}
  BY <1>1
<1>6. Forward(p, g) = [k EXCEPT !.at = a]
  BY <1>1 DEF Forward, Lane
<1>7. /\ Forward(p, g) \in LaneType /\ Forward(p, g).day = k.day
      /\ Forward(p, g).tries = k.tries /\ Forward(p, g).at = a
  BY <1>4, <1>5, <1>6 DEF LaneType, Places
<1> QED
  BY <1>1, <1>4, <1>7

\* y is x with the lane of g moved over its window w, which ended as s.
MovesOver(x, y, g, l, w, s) ==
    /\ y.pc = x.pc /\ y.print = x.print /\ y.done = x.done /\ y.prior = x.prior
    /\ y.next = x.next /\ y.lanes = x.lanes /\ y.broken = x.broken /\ y.lane[g] = l
    /\ \A h \in Grains : h # g => y.lane[h] = x.lane[h] /\ y.ckpt[h] = x.ckpt[h]
    /\ y.result[w] = s /\ \A v \in Windows : v # w => y.result[v] = x.result[v]

(* The memory of an execution whose lane has moved over its window.        *)
LEMMA MovedMemory ==
    ASSUME BackfillInv, NEW p \in Executions, NEW g \in Grains, m[p].pc = "lanes",
           m[p].lane[g].at \notin {"wait", "over"}, NEW y \in Memory,
           NEW s \in {"SKIPPED"} \cup Outcomes,
           MovesOver(m[p], y, g, Forward(p, g), Window(p, g), s)
    PROVE  /\ MemoryInv(y)
           /\ \A h \in Grains : /\ y.lane[h].day <= m[p].lane[h].day
                                /\ m[p].lane[h].at = "over" => y.lane[h].at = "over"
<1>1. PICK l, d, w : l = Forward(p, g) /\ d = m[p].lane[g].day /\ w = <<g, d>>
  OBVIOUS
<1>2. /\ l \in LaneType /\ l.day = d - 1 /\ l.tries = 0 /\ d \in 1..Days[g]
      /\ l.at = IF d > 1 THEN "ready" ELSE "over"
      /\ m[p] \in Memory /\ MemoryInv(m[p]) /\ Window(p, g) = w /\ Days[g] \in Nat
  BY <1>1, ForwardLane, LaneFacts, PlanFacts
<1>3. /\ y.pc = "lanes" /\ y.print = m[p].print /\ y.done = m[p].done
      /\ y.next = m[p].next /\ y.lanes = m[p].lanes /\ y.broken = m[p].broken
      /\ y.lane[g] = l
      /\ \A h \in Grains : h # g => y.lane[h] = m[p].lane[h] /\ y.ckpt[h] = m[p].ckpt[h]
      /\ y.result[w] = s /\ \A v \in Windows : v # w => y.result[v] = m[p].result[v]
  BY <1>1, <1>2 DEF MovesOver
<1>4. \A h \in Grains : m[p].lane[h].day \in Nat
  BY <1>2, MemoryFields
<1>5. ASSUME NEW h \in Grains
      PROVE  /\ y.lane[h].day <= m[p].lane[h].day
             /\ m[p].lane[h].at = "over" => y.lane[h].at = "over"
             /\ y.lane[h].at = "wait" <=> m[p].lane[h].at = "wait"
  <2>1. CASE h = g
    BY <1>1, <1>2, <1>3, <2>1
  <2>2. CASE h # g
    BY <1>3, <1>4, <2>2
  <2> QED
    BY <2>1, <2>2
<1>6. \A h \in Grains : LaneInv(y, h)
  <2>1. LaneInv(y, g)
    BY <1>2, <1>3 DEF LaneInv
  <2>2. ASSUME NEW h \in Grains, h # g PROVE LaneInv(y, h)
    <3>1. LaneInv(m[p], h)
      BY <1>2 DEF MemoryInv
    <3> QED
      BY <1>3, <2>2, <3>1 DEF LaneInv
  <2> QED
    BY <2>1, <2>2
<1>7. \A i \in 1..Len(Order) : i < y.next <=> y.lane[Order[i]].at # "wait"
  BY <1>2, <1>3, <1>5, PlanFacts DEF MemoryInv
<1>8. ASSUME ~y.broken, NEW h \in Grains, NEW e \in 1..Days[h], e > y.lane[h].day
      PROVE  y.result[<<h, e>>] # "none"
  <2>1. CASE <<h, e>> = w
    BY <1>3, <2>1 DEF Outcomes
  <2>2. CASE <<h, e>> # w
    <3>1. e > m[p].lane[h].day
      <4>1. CASE h = g
        <5>1. e # d /\ e > d - 1 /\ e \in Nat
          BY <1>1, <1>2, <1>3, <1>8, <2>2, <4>1, PlanFacts
        <5> QED
          BY <1>1, <1>2, <4>1, <5>1
      <4>2. CASE h # g
        BY <1>3, <1>8, <4>2
      <4> QED
        BY <4>1, <4>2
    <3>2. m[p].result[<<h, e>>] # "none"
      BY <1>2, <1>3, <1>8, <3>1 DEF MemoryInv
    <3> QED
      BY <1>3, <2>2, <3>2, PlanFacts
  <2> QED
    BY <2>1, <2>2
<1>9. ~y.broken => y.lanes = Lanes
  BY <1>2, <1>3 DEF MemoryInv
<1>10. y.pc \in Reading \cup {"lanes"} => y.print \in Prints
  BY <1>2, <1>3 DEF MemoryInv
<1>11. MemoryInv(y)
  BY <1>3, <1>6, <1>7, <1>8, <1>9, <1>10 DEF MemoryInv
<1> QED
  BY <1>5, <1>11

(* A window that was done when the execution opened is skipped.            *)
LEMMA SkipStep ==
    ASSUME BackfillInv, NEW p \in Executions, NEW g \in Grains, Skip(p, g)
    PROVE  BackfillInv'
<1>0. /\ m[p].pc = "lanes" /\ m[p].lane[g].at = "ready" /\ Window(p, g) \in m[p].done
      /\ UNCHANGED <<run, row, ckpt, ledger, refused, overlapped, faults>>
  BY DEF Skip, Lane, tables
<1>1. PICK l, w, z, y : /\ l = Forward(p, g) /\ w = Window(p, g)
                        /\ z = [m[p] EXCEPT !.lane[g] = l]
                        /\ y = [z EXCEPT !.result[w] = "SKIPPED"]
  OBVIOUS
<1>2. /\ m[p] \in Memory /\ l \in LaneType /\ w \in Windows
      /\ m \in [Executions -> Memory] /\ faults \in 0..MaxFaults /\ faults \in Nat
      /\ LaneInv(m[p], g) /\ Alive(p) /\ w = <<g, m[p].lane[g].day>>
      /\ m[p].lane[g].day \in 1..Days[g] /\ m[p].lane[g].tries \in Nat
  BY <1>0, <1>1, ForwardLane, LaneFacts, Cells
<1>3. z \in Memory /\ LaneIs(m[p], z, g, l)
  BY <1>1, <1>2, LaneSet
<1>4. y \in Memory /\ MovesOver(m[p], y, g, l, w, "SKIPPED") /\ y.ckpt = m[p].ckpt
  <2>1. /\ y \in Memory /\ y.pc = z.pc /\ y.print = z.print /\ y.done = z.done
        /\ y.prior = z.prior /\ y.ckpt = z.ckpt /\ y.next = z.next
        /\ y.lanes = z.lanes /\ y.broken = z.broken /\ y.lane = z.lane
        /\ y.result = [z.result EXCEPT ![w] = "SKIPPED"]
    BY <1>1, <1>2, <1>3 DEF Memory
  <2>2. z.result \in [Windows -> {"none", "SKIPPED"} \cup Outcomes]
    BY <1>3, MemoryFields
  <2>3. y.result[w] = "SKIPPED" /\ \A v \in Windows : v # w => y.result[v] = z.result[v]
    BY <1>2, <2>1, <2>2
  <2> QED
    BY <1>3, <2>1, <2>3 DEF LaneIs, MovesOver
<1>5. m' = [m EXCEPT ![p] = y]
  <2>1. PICK n : n = [m EXCEPT ![p] = z]
    OBVIOUS
  <2>2. m' = [n EXCEPT ![p].result[w] = "SKIPPED"]
    BY <1>1, <2>1 DEF Skip
  <2>3. n[p] = z
    BY <1>2, <2>1
  <2>4. m' = [n EXCEPT ![p] = y]
    BY <1>1, <2>2, <2>3
  <2> QED
    BY <2>1, <2>4
<1>6. /\ MemoryInv(y)
      /\ \A h \in Grains : /\ y.lane[h].day <= m[p].lane[h].day
                           /\ m[p].lane[h].at = "over" => y.lane[h].at = "over"
  <2>1. PICK s \in {"SKIPPED"} \cup Outcomes : s = "SKIPPED"
    OBVIOUS
  <2>2. MovesOver(m[p], y, g, Forward(p, g), Window(p, g), s)
    BY <1>1, <1>4, <2>1
  <2>3. m[p].lane[g].at \notin {"wait", "over"}
    BY <1>0
  <2> QED
    BY <1>0, <1>4, <2>2, <2>3, MovedMemory
<1>7. m'[p] = y /\ Only(p)
  BY <1>2, <1>4, <1>5, <1>6 DEF Only
<1>8. /\ y.pc = "lanes" /\ y.done = m[p].done /\ y.prior = m[p].prior
      /\ y.broken = m[p].broken /\ y.result[w] = "SKIPPED"
      /\ \A v \in Windows : v # w => y.result[v] = m[p].result[v]
      /\ \A h \in Grains : h # g => y.lane[h] = m[p].lane[h]
      /\ \A h \in Grains : y.lane[h].day \in Nat /\ m[p].lane[h].day \in Nat
  BY <1>0, <1>2, <1>4, MemoryFields DEF MovesOver
<1>9. ASSUME ~overlapped PROVE LiveInv(y)
  <2>1. LiveInv(m[p])
    BY <1>2, <1>9, Cells DEF SequentialInv
  <2>2. Success(row, w)
    BY <1>0, <1>1, <1>2, <2>1 DEF LiveInv
  <2>3. \A v \in Windows : y.result[v] \in {"SUCCEEDED", "SKIPPED"} => Success(row, v)
    BY <1>8, <2>1, <2>2 DEF LiveInv
  <2>4. ASSUME NEW h \in Grains, NEW e \in 1..Days[h]
        PROVE  /\ Success(row, <<h, e>>) => <<h, e>> \in y.done \/ e > y.lane[h].day
               /\ <<h, e>> \in y.done => Success(row, <<h, e>>)
    <3>1. /\ Success(row, <<h, e>>) => <<h, e>> \in m[p].done \/ e > m[p].lane[h].day
          /\ <<h, e>> \in m[p].done => Success(row, <<h, e>>)
      BY <1>0, <2>1 DEF LiveInv
    <3>2. e > m[p].lane[h].day => e > y.lane[h].day
      BY <1>6, <1>8, PlanFacts
    <3> QED
      BY <1>8, <3>1, <3>2
  <2>5. \A h \in Grains : y.lane[h].at # "over" => y.ckpt[h] = ckpt[h]
    BY <1>0, <1>4, <1>6, <2>1 DEF LiveInv
  <2> QED
    BY <2>3, <2>4, <2>5 DEF LiveInv
<1>10. ASSUME Quiet PROVE QuietInv'
  <2>1. refused = {} /\ ~m[p].broken /\ CountsInv(m[p])
    BY <1>2, <1>10, Cells DEF QuietInv
  <2>2. CountsInv(y)
    <3>1. ASSUME NEW h \in Grains, NEW e \in 1..Days[h], e <= y.lane[h].day
          PROVE  y.prior[<<h, e>>] = row[<<h, e>>].count
      <4>1. e <= m[p].lane[h].day
        BY <1>6, <1>8, <3>1, PlanFacts
      <4> QED
        BY <1>0, <1>8, <2>1, <4>1 DEF CountsInv
    <3> QED
      BY <3>1 DEF CountsInv
  <2>3. ASSUME NEW h \in Grains, NEW e \in 1..Days[h], NEW n \in 1..MaxOrdinal,
               Own(m[p], h, e, n)
        PROVE  n <= row[<<h, e>>].count \/ Own(y, h, e, n)
    <3>1. CASE h = g
      <4>1. e = m[p].lane[g].day /\ <<h, e>> = w
        BY <1>2, <2>3, <3>1 DEF Own
      <4>2. m[p].lane[g].tries = 0
        BY <1>0, <1>1, <1>2 DEF LaneInv
      <4>3. m[p].prior[w] = row[w].count /\ m[p].prior[w] \in Nat
        BY <1>0, <1>2, <2>1, <4>1, MemoryFields DEF CountsInv
      <4>4. n <= m[p].prior[w] + 0
        BY <2>3, <3>1, <4>1, <4>2 DEF Own
      <4> QED
        BY <4>1, <4>3, <4>4
    <3>2. CASE h # g
      BY <1>8, <2>3, <3>2 DEF Own
    <3> QED
      BY <3>1, <3>2
  <2> QED
    BY <1>0, <1>7, <1>8, <1>10, <2>1, <2>2, <2>3, QuietStays
<1>11. ledger \subseteq Windows \X (1..MaxOrdinal) /\ refused \subseteq ledger
  BY Cells DEF TypeOK
<1> QED
  BY <1>0, <1>2, <1>7, <1>9, <1>10, <1>11, TablesStay

-----------------------------------------------------------------------------
(* The commit: the window row and the checkpoint.                          *)

(* A step that moves the tables while executions come one after another.   *)
LEMMA TablesMove ==
    ASSUME BackfillInv, NEW p \in Executions, Alive(p), Only(p),
           UNCHANGED <<run, ledger, refused, overlapped>>,
           faults' \in 0..MaxFaults, faults <= faults',
           row' \in [Windows -> RowType], ckpt' \in [Grains -> CheckpointType],
           \A w \in Windows : row'[w].status = "SUCCEEDED" => row'[w].print # None,
           TablesInv', NEW y, m'[p] = y, ~overlapped /\ AliveAt(y.pc) => LiveInv(y)',
           ~overlapped =>
             /\ \A g \in Grains : \A d \in 1..Days[g] : Success(row', <<g, d>>) =>
                  ckpt'[g] # NoCheckpoint /\ row'[<<g, d>>].print = ckpt'[g].print
             /\ \A w \in Windows : Success(row, w) => Success(row', w),
           Quiet' => QuietInv'
    PROVE  BackfillInv'
<1>1. TypeInv'
  <2>1. TypeOK
    BY Cells
  <2> QED
    BY <2>1 DEF TypeInv, TypeOK, Only
<1>2. \A q \in Executions : MemoryInv(m'[q])
  BY Cells DEF Only
<1>3. ASSUME ~overlapped' PROVE SequentialInv'
  <2>0. ~overlapped /\ SequentialInv
    BY <1>3, Cells
  <2>1. \A q \in Executions : q # p => ~AliveAt(m'[q].pc)
    BY <2>0, OneLives
  <2>2. \A q, r \in Executions : AliveAt(m'[q].pc) /\ AliveAt(m'[r].pc) => q = r
    BY <2>1
  <2>3. AliveAt(m'[p].pc) => LiveInv(m[p])'
    BY <2>0 DEF LiveInv
  <2>4. \A q \in Executions : AliveAt(m'[q].pc) => LiveInv(m[q])'
    BY <2>1, <2>3
  <2>5. run' = "SUCCEEDED" => \A w \in Windows : Success(row', w)
    BY <2>0 DEF SequentialInv
  <2> QED
    BY <2>0, <2>2, <2>4, <2>5 DEF SequentialInv, Alive, AliveAt
<1> QED
  BY <1>1, <1>2, <1>3 DEF BackfillInv

(* The window a lane is about to commit.                                   *)
LEMMA CommitFacts ==
    ASSUME BackfillInv, NEW p \in Executions, NEW g \in Grains, m[p].pc = "lanes",
           m[p].lane[g].at = "commit"
    PROVE  /\ m[p].lane[g].outcome \in Outcomes
           /\ m[p].lane[g].outcome # "BLOCKED" => g \notin Blocked
           /\ m[p].lane[g].outcome = "SUCCEEDED" => m[p].ckpt[g].print \in {None, m[p].print}
           /\ ~overlapped => /\ ~Success(row, Window(p, g)) /\ LiveInv(m[p])
                             /\ m[p].ckpt[g] = ckpt[g]
           /\ ~overlapped => MayCommit(p, g)
<1>1. /\ LaneInv(m[p], g) /\ Window(p, g) = <<g, m[p].lane[g].day>> /\ Alive(p)
      /\ m[p].lane[g].day \in 1..Days[g]
  BY LaneFacts
<1>2. /\ m[p].lane[g].outcome \in Outcomes
      /\ IF m[p].lane[g].outcome = "BLOCKED" THEN g \in Blocked
         ELSE g \notin Blocked /\ <<g, m[p].lane[g].day>> \notin m[p].done
      /\ m[p].lane[g].outcome = "SUCCEEDED" => m[p].ckpt[g].print \in {None, m[p].print}
  BY <1>1 DEF LaneInv
<1>3. ASSUME ~overlapped
      PROVE  ~Success(row, Window(p, g)) /\ LiveInv(m[p]) /\ m[p].ckpt[g] = ckpt[g]
  <2>1. LiveInv(m[p]) /\ TablesInv
    BY <1>1, <1>3, Cells DEF SequentialInv
  <2>2. m[p].ckpt[g] = ckpt[g]
    BY <2>1 DEF LiveInv
  <2>3. ~(m[p].lane[g].day > m[p].lane[g].day)
    BY <1>1, PlanFacts
  <2>4. CASE m[p].lane[g].outcome = "BLOCKED"
    BY <1>1, <1>2, <2>1, <2>2, <2>4 DEF TablesInv
  <2>5. CASE m[p].lane[g].outcome # "BLOCKED"
    BY <1>1, <1>2, <2>1, <2>2, <2>3, <2>5 DEF LiveInv
  <2> QED
    BY <2>4, <2>5
<1>4. ASSUME ~overlapped PROVE MayCommit(p, g)
  <2>1. ckpt[g].day # m[p].lane[g].day
    <3>1. ASSUME ckpt[g].day = m[p].lane[g].day PROVE FALSE
      <4>1. ~Success(row, <<g, ckpt[g].day>>) /\ TablesInv
        BY <1>1, <1>3, <1>4, <3>1, Cells
      <4>2. ckpt[g] = NoCheckpoint
        BY <4>1 DEF TablesInv
      <4>3. ckpt[g].day = 0
        BY <4>2 DEF NoCheckpoint
      <4> QED
        BY <1>1, <3>1, <4>3, PlanFacts
    <3> QED
      BY <3>1
  <2> QED
    BY <2>1 DEF MayCommit, Lane
<1> QED
  BY <1>2, <1>3, <1>4

\* What a commit writes: the row r of window w, and the checkpoint of g when it
\* advances.
Writes(p, g, w, r) ==
    /\ row' = [row EXCEPT ![w] = r]
    /\ \A h \in Grains : h # g => ckpt'[h] = ckpt[h]
    /\ IF Advances(p, g)
       THEN ckpt'[g].day = m[p].lane[g].day /\ ckpt'[g].print = m[p].print
       ELSE ckpt'[g] = ckpt[g]

(* The tables after a commit.                                              *)
LEMMA CommittedTables ==
    ASSUME BackfillInv, NEW p \in Executions, NEW g \in Grains, m[p].pc = "lanes",
           m[p].lane[g].at = "commit", Committed(p, g)
    PROVE  \E r \in RowType :
             /\ r.status = m[p].lane[g].outcome
             /\ r.status = "SUCCEEDED" => r.print = m[p].print
             /\ r.count = row[Window(p, g)].count + m[p].lane[g].tries
             /\ Writes(p, g, Window(p, g), r)
             /\ row' \in [Windows -> RowType] /\ ckpt' \in [Grains -> CheckpointType]
             /\ \A w \in Windows : row'[w].status = "SUCCEEDED" => row'[w].print # None
             /\ TablesInv'
<1>1. PICK r, d, w, o : /\ r = NewRow(p, g) /\ d = m[p].lane[g].day /\ w = Window(p, g)
                        /\ o = m[p].lane[g].outcome
  OBVIOUS
<1>2. /\ d \in 1..Days[g] /\ d \in Nat /\ d > 0 /\ w = <<g, d>> /\ w \in Windows
      /\ m[p].lane[g].tries \in Nat /\ m[p].print \in Prints /\ m[p].print # None
      /\ o \in Outcomes
      /\ o # "BLOCKED" => g \notin Blocked
  BY <1>1, LaneFacts, CommitFacts, PlanFacts
<1>3. /\ row \in [Windows -> RowType] /\ ckpt \in [Grains -> CheckpointType]
      /\ row[w].count \in Nat /\ TablesInv
      /\ \A v \in Windows : Success(row, v) => row[v].print \in Prints
  BY <1>2, Cells
<1>4. /\ r.status = o /\ r.print = Fingerprint(p, g)
      /\ r.count = row[w].count + m[p].lane[g].tries
      /\ r = [status |-> o, print |-> r.print, count |-> r.count]
  BY <1>1 DEF NewRow, Lane
<1>5. /\ r.status = "SUCCEEDED" => r.print = m[p].print /\ r.print # None
      /\ r.print \in Prints \cup {None}
  BY <1>1, <1>2, <1>4 DEF Fingerprint, Lane
<1>6. r.count \in Nat
  BY <1>2, <1>3, <1>4
<1>7. r \in RowType
  <2>1. PICK f, n : f = r.print /\ n = r.count
    OBVIOUS
  <2>2. f \in Prints \cup {None} /\ n \in Nat /\ r = [status |-> o, print |-> f, count |-> n]
    BY <1>4, <1>5, <1>6, <2>1
  <2>3. o \in {"none"} \cup Outcomes
    BY <1>2
  <2> QED
    BY <2>2, <2>3 DEF RowType
<1>8. /\ row' = [row EXCEPT ![w] = r] /\ row'[w] = r
      /\ \A v \in Windows : v # w => row'[v] = row[v]
      /\ row' \in [Windows -> RowType]
  BY <1>1, <1>2, <1>3, <1>7 DEF Committed
<1>9. /\ ckpt' \in [Grains -> CheckpointType]
      /\ \A h \in Grains : h # g => ckpt'[h] = ckpt[h]
      /\ Advances(p, g) => ckpt'[g].day = d /\ ckpt'[g].print = m[p].print
      /\ ~Advances(p, g) => ckpt'[g] = ckpt[g]
  <2>1. CASE Advances(p, g)
    <3>1. PICK c : c = [day |-> d, print |-> m[p].print]
      OBVIOUS
    <3>2. c \in CheckpointType
      BY <1>2, <3>1 DEF CheckpointType
    <3>3. ckpt' = [ckpt EXCEPT ![g] = c]
      BY <1>1, <2>1, <3>1 DEF Committed, Lane
    <3> QED
      BY <1>3, <2>1, <3>1, <3>2, <3>3
  <2>2. CASE ~Advances(p, g)
    BY <1>3, <2>2 DEF Committed
  <2> QED
    BY <2>1, <2>2
<1>10. \A v \in Windows : row'[v].status = "SUCCEEDED" => row'[v].print # None
  BY <1>3, <1>5, <1>8, PlanFacts DEF Success
<1>11. Advances(p, g) => r.status = "SUCCEEDED"
  BY <1>1, <1>4 DEF Advances, Lane
<1>12. ckpt[g].day = d => r.status = "SUCCEEDED" /\ r.print = ckpt[g].print
  BY <1>1, <1>4 DEF Committed, MayCommit, Lane
<1>13. ASSUME NEW h \in Grains
       PROVE  \/ ckpt'[h] = NoCheckpoint
              \/ /\ ckpt'[h].day \in 1..Days[h] /\ Success(row', <<h, ckpt'[h].day>>)
                 /\ row'[<<h, ckpt'[h].day>>].print = ckpt'[h].print
  <2>1. CASE h = g /\ Advances(p, g)
    BY <1>2, <1>5, <1>8, <1>9, <1>11, <2>1 DEF Success
  <2>2. CASE ckpt'[h] = ckpt[h] /\ ckpt[h] # NoCheckpoint
    <3>1. /\ ckpt[h].day \in 1..Days[h] /\ Success(row, <<h, ckpt[h].day>>)
          /\ row[<<h, ckpt[h].day>>].print = ckpt[h].print
      BY <1>3, <2>2 DEF TablesInv
    <3>2. <<h, ckpt[h].day>> \in Windows
      BY <3>1, PlanFacts
    <3>3. CASE <<h, ckpt[h].day>> = w
      BY <1>2, <1>8, <1>12, <2>2, <3>1, <3>3 DEF Success
    <3>4. CASE <<h, ckpt[h].day>> # w
      BY <1>8, <2>2, <3>1, <3>2, <3>4 DEF Success
    <3> QED
      BY <3>3, <3>4
  <2> QED
    BY <1>9, <2>1, <2>2
<1>14. ASSUME NEW h \in Blocked, NEW e \in 1..Days[h] PROVE ~Success(row', <<h, e>>)
  <2>1. h \in Grains /\ <<h, e>> \in Windows
    BY PlanFacts
  <2>2. CASE <<h, e>> = w
    BY <1>2, <1>4, <1>8, <2>2 DEF Success, Outcomes
  <2>3. CASE <<h, e>> # w
    BY <1>3, <1>8, <2>1, <2>3 DEF Success, TablesInv
  <2> QED
    BY <2>2, <2>3
<1>15. TablesInv'
  BY <1>13, <1>14 DEF TablesInv, Success
<1>16. Writes(p, g, w, r)
  BY <1>1, <1>8, <1>9 DEF Writes
<1> QED
  BY <1>1, <1>4, <1>5, <1>7, <1>8, <1>9, <1>10, <1>15, <1>16

(* What a commit leaves of the rows while executions do not overlap.       *)
LEMMA SequentialWrites ==
    ASSUME BackfillInv, ~overlapped, NEW p \in Executions, NEW g \in Grains,
           m[p].pc = "lanes", m[p].lane[g].at = "commit", NEW r \in RowType,
           r.status = m[p].lane[g].outcome, r.status = "SUCCEEDED" => r.print = m[p].print,
           Writes(p, g, Window(p, g), r)
    PROVE  /\ \A h \in Grains : \A d \in 1..Days[h] : Success(row', <<h, d>>) =>
                ckpt'[h] # NoCheckpoint /\ row'[<<h, d>>].print = ckpt'[h].print
           /\ \A w \in Windows : Success(row, w) => Success(row', w) /\ row'[w] = row[w]
<1>1. PICK d, w : d = m[p].lane[g].day /\ w = Window(p, g)
  OBVIOUS
<1>2. /\ d \in 1..Days[g] /\ d \in Nat /\ d > 0 /\ w = <<g, d>> /\ w \in Windows
      /\ m[p].print \in Prints /\ m[p].ckpt[g] = ckpt[g] /\ ~Success(row, w)
      /\ r.status = "SUCCEEDED" => ckpt[g].print \in {None, m[p].print}
  BY <1>1, LaneFacts, CommitFacts, PlanFacts
<1>3. /\ row \in [Windows -> RowType] /\ TablesInv /\ ckpt[g].day \in Nat
      /\ \A v \in Windows : Success(row, v) => row[v].print \in Prints
      /\ \A h \in Grains : \A e \in 1..Days[h] : Success(row, <<h, e>>) =>
           ckpt[h] # NoCheckpoint /\ row[<<h, e>>].print = ckpt[h].print
  BY Cells DEF SequentialInv
<1>4. /\ row'[w] = r /\ \A v \in Windows : v # w => row'[v] = row[v]
  BY <1>1, <1>2, <1>3 DEF Writes
<1>5. /\ \A h \in Grains : h # g => ckpt'[h] = ckpt[h]
      /\ Advances(p, g) => ckpt'[g].day = d /\ ckpt'[g].print = m[p].print
      /\ ~Advances(p, g) => ckpt'[g] = ckpt[g]
  BY <1>1 DEF Writes
<1>6. Advances(p, g) <=> r.status = "SUCCEEDED" /\ d > ckpt[g].day
  BY <1>1, <1>2 DEF Advances, Lane
<1>7. ckpt[g] # NoCheckpoint => ckpt[g].print \in Prints
  BY <1>3, PlanFacts DEF TablesInv
<1>8. Advances(p, g) => ckpt'[g] # NoCheckpoint
  BY <1>2, <1>5 DEF NoCheckpoint
<1>9. ASSUME NEW h \in Grains, NEW e \in 1..Days[h], Success(row', <<h, e>>)
      PROVE  ckpt'[h] # NoCheckpoint /\ row'[<<h, e>>].print = ckpt'[h].print
  <2>0. <<h, e>> \in Windows
    BY PlanFacts
  <2>1. CASE h # g
    <3>1. <<h, e>> # w
      BY <1>2, <2>1
    <3> QED
      BY <1>3, <1>4, <1>5, <1>9, <2>0, <2>1, <3>1 DEF Success
  <2>2. CASE <<h, e>> = w
    <3>1. r.status = "SUCCEEDED" /\ row'[<<h, e>>].print = m[p].print /\ h = g
      BY <1>2, <1>4, <1>9, <2>2 DEF Success
    <3>2. CASE Advances(p, g)
      BY <1>5, <1>8, <3>1, <3>2
    <3>3. CASE ~Advances(p, g)
      <4>1. ckpt'[g] = ckpt[g] /\ ~(d > ckpt[g].day)
        BY <1>5, <1>6, <3>1, <3>3
      <4>2. ckpt[g] # NoCheckpoint
        BY <1>2, <4>1 DEF NoCheckpoint
      <4>3. ckpt[g].print = m[p].print
        BY <1>2, <1>7, <3>1, <4>2, PlanFacts
      <4> QED
        BY <3>1, <4>1, <4>2, <4>3
    <3> QED
      BY <3>2, <3>3
  <2>3. CASE h = g /\ <<h, e>> # w
    <3>1. /\ row'[<<h, e>>] = row[<<h, e>>] /\ Success(row, <<h, e>>)
      BY <1>4, <1>9, <2>0, <2>3 DEF Success
    <3>2. ckpt[g] # NoCheckpoint /\ row[<<h, e>>].print = ckpt[g].print
      BY <1>3, <2>3, <3>1
    <3>3. CASE Advances(p, g)
      <4>1. ckpt[g].print = m[p].print
        BY <1>2, <1>6, <1>7, <3>2, <3>3, PlanFacts
      <4> QED
        BY <1>5, <1>8, <2>3, <3>1, <3>2, <3>3, <4>1
    <3>4. CASE ~Advances(p, g)
      BY <1>5, <2>3, <3>1, <3>2, <3>4
    <3> QED
      BY <3>3, <3>4
  <2> QED
    BY <2>1, <2>2, <2>3
<1>10. ASSUME NEW v \in Windows, Success(row, v)
       PROVE  Success(row', v) /\ row'[v] = row[v]
  BY <1>2, <1>4, <1>10 DEF Success
<1> QED
  BY <1>9, <1>10

(* The memory of an execution that a commit has broken.                    *)
LEMMA BrokenMemory ==
    ASSUME BackfillInv, NEW p \in Executions, NEW g \in Grains, m[p].pc = "lanes",
           m[p].lane[g].at = "commit", NEW y, y = Broken(p, g)
    PROVE  /\ y \in Memory /\ MemoryInv(y) /\ y.pc = "lanes" /\ y.done = m[p].done
           /\ y.result = m[p].result /\ y.ckpt = m[p].ckpt /\ y.lane[g].day = 0
           /\ y.lane[g].at = "over" /\ \A h \in Grains : h # g => y.lane[h] = m[p].lane[h]
<1>1. PICK k, l, z : /\ k = Idle(0) /\ l = [k EXCEPT !.at = "over"]
                     /\ z = [m[p] EXCEPT !.lane[g] = l]
  OBVIOUS
<1>2. m[p] \in Memory /\ MemoryInv(m[p]) /\ m[p].lanes \in Int
  BY LaneFacts, MemoryFields
<1>3. l \in LaneType /\ l.at = "over" /\ l.day = 0 /\ l.tries = 0
  <2>1. k \in LaneType /\ k.day = 0 /\ k.tries = 0
    BY <1>1, IdleLane
  <2> QED
    BY <1>1, <2>1 DEF LaneType, Places
<1>4. z \in Memory /\ LaneIs(m[p], z, g, l)
  BY <1>1, <1>2, <1>3, LaneSet
<1>5. PICK i \in Int : i = m[p].lanes - 1
  BY <1>2
<1>6. y = [z EXCEPT !.broken = TRUE, !.lanes = i]
  <2>1. y = [m[p] EXCEPT !.broken = TRUE, !.lanes = i, !.lane[g] = l]
    BY <1>1, <1>5 DEF Broken
  <2> QED
    BY <1>1, <1>2, <2>1 DEF Memory
<1>7. /\ y \in Memory /\ y.pc = z.pc /\ y.print = z.print /\ y.done = z.done
      /\ y.ckpt = z.ckpt /\ y.next = z.next /\ y.broken = TRUE /\ y.lane = z.lane
      /\ y.result = z.result
  BY <1>4, <1>5, <1>6 DEF Memory
<1>8. /\ y.pc = "lanes" /\ y.print = m[p].print /\ y.done = m[p].done
      /\ y.result = m[p].result /\ y.ckpt = m[p].ckpt /\ y.next = m[p].next
      /\ y.lane[g] = l /\ \A h \in Grains : h # g => y.lane[h] = m[p].lane[h]
  BY <1>4, <1>7 DEF LaneIs
<1>9. MemoryInv(y)
  <2>1. ASSUME NEW h \in Grains PROVE LaneInv(y, h)
    <3>1. CASE h = g
      BY <1>3, <1>8, <3>1 DEF LaneInv
    <3>2. CASE h # g
      <4>1. LaneInv(m[p], h)
        BY <1>2 DEF MemoryInv
      <4> QED
        BY <1>8, <3>2, <4>1 DEF LaneInv
    <3> QED
      BY <3>1, <3>2
  <2>2. \A h \in Grains : y.lane[h].at = "wait" <=> m[p].lane[h].at = "wait"
    BY <1>3, <1>8
  <2>3. \A j \in 1..Len(Order) : j < y.next <=> y.lane[Order[j]].at # "wait"
    BY <1>2, <1>8, <2>2, PlanFacts DEF MemoryInv
  <2>4. y.print \in Prints
    BY <1>2, <1>8 DEF MemoryInv
  <2> QED
    BY <1>7, <1>8, <2>1, <2>3, <2>4 DEF MemoryInv
<1> QED
  BY <1>3, <1>7, <1>8, <1>9

(* A commit that fails, whether or not the tables got it.                  *)
LEMMA BrokenStep ==
    ASSUME BackfillInv, NEW p \in Executions, NEW g \in Grains, m[p].pc = "lanes",
           m[p].lane[g].at = "commit", m' = [m EXCEPT ![p] = Broken(p, g)],
           Committed(p, g) \/ UNCHANGED <<row, ckpt>>,
           UNCHANGED <<run, ledger, refused, overlapped>>,
           \/ faults' = faults /\ (m[p].broken \/ ~MayCommit(p, g))
           \/ faults < MaxFaults /\ faults' = faults + 1
    PROVE  BackfillInv'
<1>1. PICK y, w : y = Broken(p, g) /\ w = Window(p, g)
  OBVIOUS
<1>2. /\ y \in Memory /\ MemoryInv(y) /\ y.pc = "lanes" /\ y.done = m[p].done
      /\ y.result = m[p].result /\ y.ckpt = m[p].ckpt /\ y.lane[g].day = 0
      /\ y.lane[g].at = "over" /\ \A h \in Grains : h # g => y.lane[h] = m[p].lane[h]
  BY <1>1, BrokenMemory
<1>3. /\ m \in [Executions -> Memory] /\ Alive(p) /\ w = <<g, m[p].lane[g].day>>
      /\ row \in [Windows -> RowType] /\ ckpt \in [Grains -> CheckpointType]
      /\ \A v \in Windows : row[v].status = "SUCCEEDED" => row[v].print # None
      /\ TablesInv /\ faults \in Nat /\ faults \in 0..MaxFaults
  BY <1>1, LaneFacts, Cells, PlanFacts DEF Success
<1>4. m'[p] = y /\ Only(p)
  BY <1>1, <1>2, <1>3 DEF Only
<1>5. faults' \in 0..MaxFaults /\ faults <= faults'
  BY <1>3, PlanFacts
<1>6. /\ row' \in [Windows -> RowType] /\ ckpt' \in [Grains -> CheckpointType]
      /\ \A v \in Windows : row'[v].status = "SUCCEEDED" => row'[v].print # None
      /\ TablesInv'
      /\ \A h \in Grains : h # g => ckpt'[h] = ckpt[h]
      /\ \A v \in Windows : v # w => row'[v] = row[v]
  <2>1. CASE UNCHANGED <<row, ckpt>>
    BY <1>3, <2>1 DEF TablesInv
  <2>2. CASE Committed(p, g)
    <3>1. PICK r \in RowType :
             /\ Writes(p, g, w, r)
             /\ row' \in [Windows -> RowType] /\ ckpt' \in [Grains -> CheckpointType]
             /\ \A v \in Windows : row'[v].status = "SUCCEEDED" => row'[v].print # None
             /\ TablesInv'
      BY <1>1, <2>2, CommittedTables
    <3>2. /\ \A h \in Grains : h # g => ckpt'[h] = ckpt[h]
          /\ \A v \in Windows : v # w => row'[v] = row[v]
      BY <1>3, <3>1 DEF Writes
    <3> QED
      BY <3>1, <3>2
  <2> QED
    BY <2>1, <2>2
<1>7. ASSUME ~overlapped
      PROVE  /\ \A h \in Grains : \A d \in 1..Days[h] : Success(row', <<h, d>>) =>
                  ckpt'[h] # NoCheckpoint /\ row'[<<h, d>>].print = ckpt'[h].print
             /\ \A v \in Windows : Success(row, v) => Success(row', v)
  <2>1. CASE UNCHANGED <<row, ckpt>>
    <3>1. SequentialInv
      BY <1>7, Cells
    <3> QED
      BY <2>1, <3>1 DEF SequentialInv, Success
  <2>2. CASE Committed(p, g)
    <3>1. PICK r \in RowType :
             /\ r.status = m[p].lane[g].outcome
             /\ r.status = "SUCCEEDED" => r.print = m[p].print
             /\ Writes(p, g, Window(p, g), r)
      BY <2>2, CommittedTables
    <3> QED
      BY <1>7, <3>1, SequentialWrites
  <2> QED
    BY <2>1, <2>2
<1>8. ASSUME ~overlapped PROVE LiveInv(y)'
  <2>1. LiveInv(m[p]) /\ ~Success(row, w)
    BY <1>1, <1>8, CommitFacts
  <2>2. ASSUME NEW h \in Grains, NEW e \in 1..Days[h]
        PROVE  /\ Success(row', <<h, e>>) => <<h, e>> \in y.done \/ e > y.lane[h].day
               /\ <<h, e>> \in y.done => Success(row', <<h, e>>)
    <3>1. /\ Success(row, <<h, e>>) => <<h, e>> \in m[p].done \/ e > m[p].lane[h].day
          /\ <<h, e>> \in m[p].done => Success(row, <<h, e>>)
          /\ <<h, e>> \in Windows
      BY <2>1, PlanFacts DEF LiveInv
    <3>2. CASE h = g
      <4>1. e > y.lane[h].day
        BY <1>2, <3>2, PlanFacts
      <4> QED
        BY <1>2, <1>7, <1>8, <3>1, <4>1
    <3>3. CASE h # g
      <4>1. <<h, e>> # w
        BY <1>3, <3>3
      <4>2. row'[<<h, e>>] = row[<<h, e>>]
        BY <1>6, <3>1, <4>1
      <4> QED
        BY <1>2, <3>1, <3>3, <4>2 DEF Success
    <3> QED
      BY <3>2, <3>3
  <2>3. \A v \in Windows : y.result[v] \in {"SUCCEEDED", "SKIPPED"} => Success(row', v)
    BY <1>2, <1>7, <1>8, <2>1 DEF LiveInv
  <2>4. ASSUME NEW h \in Grains, y.lane[h].at # "over" PROVE y.ckpt[h] = ckpt'[h]
    <3>1. h # g
      BY <1>2, <2>4
    <3> QED
      BY <1>2, <1>6, <2>1, <2>4, <3>1 DEF LiveInv
  <2> QED
    BY <2>2, <2>3, <2>4 DEF LiveInv, Success
<1>9. ~Quiet'
  <2>1. ASSUME faults' = 0, ~overlapped', \A v \in Windows : row'[v].count <= MaxOrdinal
        PROVE  FALSE
    <3>1. faults' = faults /\ ~overlapped
      BY <1>3, <2>1
    <3>2. MayCommit(p, g)
      BY <3>1, CommitFacts
    <3>3. m[p].broken
      BY <1>3, <2>1, <3>1, <3>2
    <3>4. ASSUME NEW v \in Windows PROVE row[v].count <= MaxOrdinal
      <4>1. row[v].count \in Nat /\ m[p].lane[g].tries \in Nat /\ w \in Windows
        BY <1>1, LaneFacts, Cells
      <4>2. row'[v].count >= row[v].count
        <5>1. CASE UNCHANGED <<row, ckpt>>
          BY <4>1, <5>1
        <5>2. CASE Committed(p, g)
          <6>1. PICK r \in RowType : /\ r.count = row[w].count + m[p].lane[g].tries
                                     /\ Writes(p, g, w, r)
            BY <1>1, <5>2, CommittedTables
          <6>2. row'[v] = IF v = w THEN r ELSE row[v]
            BY <1>3, <4>1, <6>1 DEF Writes
          <6>3. CASE v = w
            BY <4>1, <6>1, <6>2, <6>3
          <6>4. CASE v # w
            BY <4>1, <6>2, <6>4
          <6> QED
            BY <6>3, <6>4
        <5> QED
          BY <5>1, <5>2
      <4>3. row'[v].count \in Nat /\ row'[v].count <= MaxOrdinal
        BY <1>6, <2>1 DEF RowType
      <4> QED
        BY <4>1, <4>2, <4>3, PlanFacts
    <3>5. Quiet
      BY <2>1, <3>1, <3>4 DEF Quiet
    <3>6. ~m[p].broken
      BY <1>3, <3>5, Cells DEF QuietInv
    <3> QED
      BY <3>3, <3>6
  <2> QED
    BY <2>1 DEF Quiet
<1> QED
  BY <1>3, <1>4, <1>5, <1>6, <1>7, <1>8, <1>9, TablesMove

(* The memory of an execution whose commit has been made.                  *)
LEMMA DoneMemory ==
    ASSUME BackfillInv, NEW p \in Executions, NEW g \in Grains, m[p].pc = "lanes",
           m[p].lane[g].at = "commit", ckpt'[g] \in CheckpointType,
           NEW y, y = PastWindow(p, g)
    PROVE  /\ y \in Memory
           /\ MovesOver(m[p], y, g, Forward(p, g), Window(p, g), m[p].lane[g].outcome)
           /\ y.ckpt[g] = IF Advances(p, g) THEN ckpt'[g] ELSE m[p].ckpt[g]
<1>1. PICK l, w, o, z : /\ l = Forward(p, g) /\ w = Window(p, g)
                        /\ o = m[p].lane[g].outcome
                        /\ z = [m[p] EXCEPT !.lane[g] = l]
  OBVIOUS
<1>2. PICK c : c = IF Advances(p, g) THEN ckpt'[g] ELSE z.ckpt[g]
  OBVIOUS
<1>3. PICK u : u = [z EXCEPT !.ckpt[g] = c]
  OBVIOUS
<1>4. /\ m[p] \in Memory /\ l \in LaneType /\ w \in Windows
      /\ o \in Outcomes /\ m[p].ckpt[g] \in CheckpointType
  <2>1. /\ m[p] \in Memory /\ l \in LaneType /\ w \in Windows /\ o \in Outcomes
    BY <1>1, ForwardLane, LaneFacts, CommitFacts
  <2> QED
    BY <2>1, MemoryFields
<1>5. z \in Memory /\ LaneIs(m[p], z, g, l)
  BY <1>1, <1>4, LaneSet
<1>6. c \in CheckpointType /\ c = IF Advances(p, g) THEN ckpt'[g] ELSE m[p].ckpt[g]
  <2>1. z.ckpt = m[p].ckpt
    BY <1>5 DEF LaneIs
  <2> QED
    BY <1>2, <1>4, <2>1
<1>7. y = [u EXCEPT !.result[w] = o]
  BY <1>1, <1>2, <1>3 DEF PastWindow, Lane
<1>8. /\ u \in Memory /\ u.pc = z.pc /\ u.print = z.print /\ u.done = z.done
      /\ u.prior = z.prior /\ u.next = z.next /\ u.lanes = z.lanes
      /\ u.broken = z.broken /\ u.lane = z.lane /\ u.result = z.result
      /\ u.ckpt = [z.ckpt EXCEPT ![g] = c]
  BY <1>3, <1>5, <1>6 DEF Memory
<1>9. /\ y \in Memory /\ y.pc = u.pc /\ y.print = u.print /\ y.done = u.done
      /\ y.prior = u.prior /\ y.next = u.next /\ y.lanes = u.lanes
      /\ y.broken = u.broken /\ y.lane = u.lane /\ y.ckpt = u.ckpt
      /\ y.result = [u.result EXCEPT ![w] = o]
  BY <1>4, <1>7, <1>8 DEF Memory
<1>10. /\ z.ckpt \in [Grains -> CheckpointType]
       /\ u.result \in [Windows -> {"none", "SKIPPED"} \cup Outcomes]
  BY <1>5, <1>8, MemoryFields
<1>11. /\ y.ckpt[g] = c /\ \A h \in Grains : h # g => y.ckpt[h] = z.ckpt[h]
       /\ y.result[w] = o /\ \A v \in Windows : v # w => y.result[v] = z.result[v]
  BY <1>4, <1>8, <1>9, <1>10
<1>12. MovesOver(m[p], y, g, l, w, o)
  BY <1>5, <1>8, <1>9, <1>11 DEF LaneIs, MovesOver
<1> QED
  BY <1>1, <1>6, <1>9, <1>11, <1>12

(* A commit that is made.                                                  *)
LEMMA DoneStep ==
    ASSUME BackfillInv, NEW p \in Executions, NEW g \in Grains, m[p].pc = "lanes",
           m[p].lane[g].at = "commit", Committed(p, g),
           m' = [m EXCEPT ![p] = PastWindow(p, g)],
           UNCHANGED <<run, ledger, refused, overlapped, faults>>
    PROVE  BackfillInv'
<1>1. PICK r \in RowType :
        /\ r.status = m[p].lane[g].outcome
        /\ r.status = "SUCCEEDED" => r.print = m[p].print
        /\ r.count = row[Window(p, g)].count + m[p].lane[g].tries
        /\ Writes(p, g, Window(p, g), r)
        /\ row' \in [Windows -> RowType] /\ ckpt' \in [Grains -> CheckpointType]
        /\ \A v \in Windows : row'[v].status = "SUCCEEDED" => row'[v].print # None
        /\ TablesInv'
  BY CommittedTables
<1>2. PICK y \in Memory :
        /\ m' = [m EXCEPT ![p] = y]
        /\ MovesOver(m[p], y, g, Forward(p, g), Window(p, g), m[p].lane[g].outcome)
        /\ y.ckpt[g] = IF Advances(p, g) THEN ckpt'[g] ELSE m[p].ckpt[g]
  <2>1. ckpt'[g] \in CheckpointType
    BY <1>1
  <2> QED
    BY <2>1, DoneMemory, ZenonT(60)
<1>3. PICK l, d, w, o : /\ l = Forward(p, g) /\ d = m[p].lane[g].day /\ w = Window(p, g)
                        /\ o = m[p].lane[g].outcome
  OBVIOUS
<1>4. /\ m \in [Executions -> Memory] /\ Alive(p) /\ m[p] \in Memory
      /\ w = <<g, d>> /\ w \in Windows /\ d \in 1..Days[g] /\ d \in Nat
      /\ m[p].lane[g].tries \in Nat /\ o \in Outcomes
      /\ row \in [Windows -> RowType] /\ l.day = d - 1
      /\ \A v \in Windows : row[v].count \in Nat
      /\ faults \in Nat /\ faults \in 0..MaxFaults
  BY <1>3, LaneFacts, CommitFacts, ForwardLane, Cells, PlanFacts
<1>5. /\ MemoryInv(y)
      /\ \A h \in Grains : /\ y.lane[h].day <= m[p].lane[h].day
                           /\ m[p].lane[h].at = "over" => y.lane[h].at = "over"
  <2>1. PICK s \in {"SKIPPED"} \cup Outcomes : s = o
    BY <1>4
  <2>2. MovesOver(m[p], y, g, Forward(p, g), Window(p, g), s)
    BY <1>2, <1>3, <2>1
  <2>3. m[p].lane[g].at \notin {"wait", "over"}
    OBVIOUS
  <2> QED
    BY <2>2, <2>3, MovedMemory
<1>6. m'[p] = y /\ Only(p)
  BY <1>2, <1>4, <1>5 DEF Only
<1>7. /\ y.pc = "lanes" /\ y.done = m[p].done /\ y.prior = m[p].prior
      /\ y.broken = m[p].broken /\ y.result[w] = o /\ y.lane[g].day = d - 1
      /\ \A v \in Windows : v # w => y.result[v] = m[p].result[v]
      /\ \A h \in Grains : h # g => y.lane[h] = m[p].lane[h] /\ y.ckpt[h] = m[p].ckpt[h]
      /\ \A h \in Grains : y.lane[h].day \in Nat /\ m[p].lane[h].day \in Nat
  BY <1>2, <1>3, <1>4, MemoryFields DEF MovesOver
<1>8. /\ row'[w] = r /\ \A v \in Windows : v # w => row'[v] = row[v]
      /\ \A h \in Grains : h # g => ckpt'[h] = ckpt[h]
      /\ ~Advances(p, g) => ckpt'[g] = ckpt[g]
  BY <1>1, <1>3, <1>4 DEF Writes
<1>9. ASSUME ~overlapped
      PROVE  /\ \A h \in Grains : \A e \in 1..Days[h] : Success(row', <<h, e>>) =>
                  ckpt'[h] # NoCheckpoint /\ row'[<<h, e>>].print = ckpt'[h].print
             /\ \A v \in Windows : Success(row, v) => Success(row', v)
  BY <1>1, <1>9, SequentialWrites
<1>10. ASSUME ~overlapped PROVE LiveInv(y)'
  <2>1. LiveInv(m[p]) /\ m[p].ckpt[g] = ckpt[g]
    BY <1>10, CommitFacts
  <2>2. ASSUME NEW h \in Grains, NEW e \in 1..Days[h]
        PROVE  /\ Success(row', <<h, e>>) => <<h, e>> \in y.done \/ e > y.lane[h].day
               /\ <<h, e>> \in y.done => Success(row', <<h, e>>)
    <3>1. /\ Success(row, <<h, e>>) => <<h, e>> \in m[p].done \/ e > m[p].lane[h].day
          /\ <<h, e>> \in m[p].done => Success(row, <<h, e>>)
          /\ <<h, e>> \in Windows /\ e \in Nat
      BY <2>1, PlanFacts DEF LiveInv
    <3>2. CASE <<h, e>> = w
      <4>1. e > y.lane[h].day
        BY <1>4, <1>7, <3>1, <3>2
      <4> QED
        BY <1>7, <1>9, <1>10, <3>1, <4>1
    <3>3. CASE <<h, e>> # w
      <4>1. row'[<<h, e>>] = row[<<h, e>>]
        BY <1>8, <3>1, <3>3
      <4>2. e > m[p].lane[h].day => e > y.lane[h].day
        BY <1>5, <1>7, <3>1
      <4> QED
        BY <1>7, <3>1, <4>1, <4>2 DEF Success
    <3> QED
      BY <3>2, <3>3
  <2>3. ASSUME NEW v \in Windows, y.result[v] \in {"SUCCEEDED", "SKIPPED"}
        PROVE  Success(row', v)
    <3>1. CASE v = w
      BY <1>1, <1>3, <1>4, <1>7, <1>8, <2>3, <3>1 DEF Success, Outcomes
    <3>2. CASE v # w
      BY <1>7, <1>9, <1>10, <2>1, <2>3, <3>2 DEF LiveInv
    <3> QED
      BY <3>1, <3>2
  <2>4. ASSUME NEW h \in Grains, y.lane[h].at # "over" PROVE y.ckpt[h] = ckpt'[h]
    <3>1. CASE h = g
      BY <1>2, <1>8, <2>1, <3>1
    <3>2. CASE h # g
      BY <1>7, <1>8, <2>1, <2>4, <3>2 DEF LiveInv
    <3> QED
      BY <3>1, <3>2
  <2> QED
    BY <2>2, <2>3, <2>4 DEF LiveInv, Success
<1>11. \A v \in Windows : row'[v].count >= row[v].count /\ row'[v].count \in Nat
  <2> SUFFICES ASSUME NEW v \in Windows
               PROVE  row'[v].count >= row[v].count /\ row'[v].count \in Nat
    OBVIOUS
  <2>1. CASE v = w
    <3>1. row'[v].count = row[v].count + m[p].lane[g].tries
      BY <1>1, <1>3, <1>8, <2>1
    <3>2. row[v].count \in Nat /\ m[p].lane[g].tries \in Nat
      BY <1>4
    <3> QED
      BY <3>1, <3>2
  <2>2. CASE v # w
    BY <1>4, <1>8, <2>2
  <2> QED
    BY <2>1, <2>2
<1>12. ASSUME Quiet' PROVE QuietInv'
  <2>1. Quiet
    <3>1. \A v \in Windows : row[v].count <= MaxOrdinal
      BY <1>4, <1>11, <1>12, PlanFacts DEF Quiet
    <3> QED
      BY <1>12, <3>1 DEF Quiet
  <2>2. /\ refused = {} /\ ~m[p].broken /\ CountsInv(m[p]) /\ QuietInv
        /\ ~overlapped /\ SequentialInv
    BY <1>4, <2>1, Cells DEF QuietInv, Quiet
  <2>3. \A q \in Executions : q # p => ~AliveAt(m'[q].pc)
    BY <1>4, <1>6, <2>2, OneLives
  <2>4. ASSUME NEW h \in Grains, NEW e \in 1..Days[h], e <= y.lane[h].day
        PROVE  y.prior[<<h, e>>] = row'[<<h, e>>].count
    <3>1. e <= m[p].lane[h].day /\ <<h, e>> \in Windows /\ e \in Nat
      BY <1>5, <1>7, <2>4, PlanFacts
    <3>2. <<h, e>> # w
      BY <1>4, <1>7, <2>4, <3>1
    <3> QED
      BY <1>7, <1>8, <2>2, <3>1, <3>2 DEF CountsInv
  <2>5. CountsInv(y)'
    BY <2>4 DEF CountsInv
  <2>6. CountsInv(m[p])'
    BY <1>6, <2>5 DEF CountsInv
  <2>7. \A q \in Executions : Alive(q)' => ~m'[q].broken /\ CountsInv(m[q])'
    BY <1>6, <1>7, <2>2, <2>3, <2>6 DEF Alive, AliveAt
  <2>8. ASSUME NEW h \in Grains, NEW e \in 1..Days[h], NEW n \in 1..MaxOrdinal,
               <<<<h, e>>, n>> \in ledger
        PROVE  n <= row'[<<h, e>>].count \/ \E q \in Executions : Own(m'[q], h, e, n)
    <3>1. /\ row[<<h, e>>].count \in Nat /\ row'[<<h, e>>].count \in Nat
          /\ row'[<<h, e>>].count >= row[<<h, e>>].count /\ n \in Nat
      BY <1>4, <1>11, PlanFacts
    <3>2. CASE n <= row[<<h, e>>].count
      BY <3>1, <3>2
    <3>3. CASE \E q \in Executions : Own(m[q], h, e, n)
      <4>1. PICK q \in Executions : Own(m[q], h, e, n)
        BY <3>3
      <4>2. q = p
        BY <1>4, <2>2, <4>1 DEF Own, Alive, SequentialInv
      <4>3. CASE h = g
        <5>1. e = d /\ <<h, e>> = w /\ n <= m[p].prior[w] + m[p].lane[g].tries
          BY <1>3, <1>4, <4>1, <4>2, <4>3 DEF Own
        <5>2. m[p].prior[w] = row[w].count
          BY <1>3, <1>4, <2>2, <4>3, <5>1 DEF CountsInv
        <5>3. row'[w].count = row[w].count + m[p].lane[g].tries
          BY <1>1, <1>3, <1>8
        <5> QED
          BY <5>1, <5>2, <5>3
      <4>4. CASE h # g
        <5>1. Own(y, h, e, n)
          BY <1>7, <4>1, <4>2, <4>4 DEF Own
        <5> QED
          BY <1>6, <5>1
      <4> QED
        BY <4>3, <4>4
    <3> QED
      BY <2>2, <2>8, <3>2, <3>3 DEF QuietInv, Counted
  <2> QED
    BY <2>2, <2>7, <2>8 DEF QuietInv, Counted
<1> QED
  BY <1>1, <1>4, <1>6, <1>9, <1>10, <1>12, TablesMove

(* A commit.                                                               *)
LEMMA CommitStep ==
    ASSUME BackfillInv, NEW p \in Executions, NEW g \in Grains, CommitWindowOutcome(p, g)
    PROVE  BackfillInv'
<1>1. /\ m[p].pc = "lanes" /\ m[p].lane[g].at = "commit"
      /\ UNCHANGED <<run, ledger, refused, overlapped>>
  BY DEF CommitWindowOutcome, Lane
<1>2. \/ /\ Committed(p, g)
         /\ m' = [m EXCEPT ![p] = PastWindow(p, g)]
         /\ UNCHANGED faults
      \/ /\ m[p].broken \/ ~MayCommit(p, g)
         /\ m' = [m EXCEPT ![p] = Broken(p, g)]
         /\ UNCHANGED <<row, ckpt, faults>>
      \/ /\ faults < MaxFaults /\ faults' = faults + 1
         /\ m' = [m EXCEPT ![p] = Broken(p, g)]
         /\ Committed(p, g) \/ UNCHANGED <<row, ckpt>>
  BY DEF CommitWindowOutcome
<1>3. CASE /\ Committed(p, g)
           /\ m' = [m EXCEPT ![p] = PastWindow(p, g)]
           /\ UNCHANGED faults
  BY <1>1, <1>3, DoneStep
<1>4. CASE /\ m[p].broken \/ ~MayCommit(p, g)
           /\ m' = [m EXCEPT ![p] = Broken(p, g)]
           /\ UNCHANGED <<row, ckpt, faults>>
  BY <1>1, <1>4, BrokenStep
<1>5. CASE /\ faults < MaxFaults /\ faults' = faults + 1
           /\ m' = [m EXCEPT ![p] = Broken(p, g)]
           /\ Committed(p, g) \/ UNCHANGED <<row, ckpt>>
  BY <1>1, <1>5, BrokenStep
<1> QED
  BY <1>2, <1>3, <1>4, <1>5

-----------------------------------------------------------------------------
(* An execution opens, and an execution ends.                              *)

(* The run row is opened, or taken up as it is.                            *)
LEMMA OpenRunStep ==
    ASSUME BackfillInv, NEW p \in Executions, OpenRun(p)
    PROVE  BackfillInv'
<1>0. /\ m[p].pc = "start" /\ UNCHANGED <<row, ckpt, ledger, refused, faults>>
      /\ run' = IF run = "none" THEN "RUNNING" ELSE run
      /\ overlapped' = (overlapped \/ \E q \in Executions : Alive(q))
      /\ m[p] \in Memory /\ MemoryInv(m[p]) /\ m \in [Executions -> Memory]
  BY Cells DEF OpenRun
<1>1. PICK f \in Prints : m' = [m EXCEPT ![p].pc = "completed", ![p].print = f]
  BY DEF OpenRun
<1>2. PICK y : y = [m[p] EXCEPT !.pc = "completed", !.print = f]
  OBVIOUS
<1>3. m' = [m EXCEPT ![p] = y]
  BY <1>0, <1>1, <1>2
<1>4. /\ y \in Memory /\ y.pc = "completed" /\ y.print = f /\ y.next = m[p].next
      /\ y.lanes = m[p].lanes /\ y.broken = m[p].broken /\ y.lane = m[p].lane
      /\ y.result = m[p].result
  BY <1>0, <1>2 DEF Memory, Counters
<1>5. /\ \A g \in Grains : /\ y.lane[g] = Idle(Days[g]) /\ y.lane[g].at = "wait"
                           /\ y.lane[g].day = Days[g] /\ y.lane[g].tries = 0
      /\ ~y.broken /\ \A w \in Windows : y.result[w] = "none"
  BY <1>0, <1>4, PlanFacts, IdleLane DEF MemoryInv
<1>6. MemoryInv(y)
  <2>1. \A g \in Grains : LaneInv(y, g)
    BY <1>5, PlanFacts DEF LaneInv
  <2> QED
    BY <1>0, <1>4, <1>5, <2>1 DEF MemoryInv
<1>7. m'[p] = y /\ m' \in [Executions -> Memory] /\ \A q \in Executions : q # p => m'[q] = m[q]
  BY <1>0, <1>3, <1>4
<1>8. TypeInv' /\ TablesInv' /\ \A q \in Executions : MemoryInv(m'[q])
  <2>1. TypeOK /\ TablesInv /\ \A q \in Executions : MemoryInv(m[q])
    BY Cells
  <2>2. overlapped' \in BOOLEAN
    BY <1>0, <2>1 DEF TypeOK
  <2>3. run' \in {"none", "RUNNING", "PARTIAL", "SUCCEEDED", "FAILED"}
    BY <1>0, <2>1 DEF TypeOK
  <2>4. TypeInv'
    BY <1>0, <1>7, <2>1, <2>2, <2>3 DEF TypeInv, TypeOK
  <2> QED
    BY <1>0, <1>6, <1>7, <2>1, <2>4 DEF TablesInv
<1>9. ASSUME ~overlapped'
      PROVE  /\ ~overlapped /\ SequentialInv
             /\ \A q \in Executions : q # p => ~AliveAt(m'[q].pc)
  BY <1>0, <1>7, <1>9, Cells DEF Alive, AliveAt
<1>10. ASSUME ~overlapped' PROVE SequentialInv'
  <2>1. \A q, r \in Executions : AliveAt(m'[q].pc) /\ AliveAt(m'[r].pc) => q = r
    BY <1>9, <1>10
  <2>2. LiveInv(y)'
    BY <1>4, <1>5 DEF LiveInv
  <2>3. LiveInv(m[p])'
    BY <1>7, <2>2 DEF LiveInv
  <2>4. \A q \in Executions : AliveAt(m'[q].pc) => LiveInv(m[q])'
    BY <1>9, <1>10, <2>3
  <2>5. run' = "SUCCEEDED" => \A w \in Windows : Success(row', w)
    BY <1>0, <1>9, <1>10 DEF SequentialInv
  <2> QED
    BY <1>0, <1>9, <1>10, <2>1, <2>4, <2>5 DEF SequentialInv, Alive, AliveAt
<1>11. ASSUME Quiet' PROVE QuietInv'
  <2>1. /\ ~overlapped' /\ Quiet
    BY <1>0, <1>9, <1>11 DEF Quiet
  <2>2. QuietInv
    BY <2>1, Cells
  <2>3. CountsInv(m[p])'
    BY <1>4, <1>7 DEF CountsInv
  <2>4. \A q \in Executions : Alive(q)' => ~m'[q].broken /\ CountsInv(m[q])'
    BY <1>5, <1>7, <1>9, <2>1, <2>3 DEF Alive, AliveAt
  <2>5. \A q, g, d, n : Own(m[q], g, d, n) /\ q \in Executions => Own(m'[q], g, d, n)
    BY <1>0, <1>7 DEF Own
  <2> QED
    BY <1>0, <2>2, <2>4, <2>5 DEF QuietInv, Counted
<1> QED
  BY <1>6, <1>8, <1>10, <1>11 DEF BackfillInv

(* When the lanes of an unbroken execution have ended, they are past every *)
(* window of the plan.                                                     *)
LEMMA LanesAreOver ==
    ASSUME BackfillInv, NEW p \in Executions, LanesEnded(p), ~m[p].broken
    PROVE  /\ \A g \in Grains : m[p].lane[g].day = 0
           /\ \A w \in Windows : m[p].result[w] \in {"SKIPPED"} \cup Outcomes
<1>1. /\ m[p].pc = "lanes" /\ Busy(p) = {}
      /\ m[p].lanes = 0 \/ m[p].next > Len(Order)
      /\ m[p] \in Memory /\ MemoryInv(m[p])
  BY Cells DEF LanesEnded
<1>2. /\ m[p].next > Len(Order) /\ m[p].next \in Nat
      /\ \A w \in Windows : m[p].result[w] \in {"none", "SKIPPED"} \cup Outcomes
  <2>1. m[p].lanes = Lanes
    BY <1>1 DEF MemoryInv
  <2> QED
    BY <1>1, <2>1, PlanFacts, MemoryFields
<1>3. ASSUME NEW g \in Grains PROVE m[p].lane[g].day = 0
  <2>1. PICK i \in 1..Len(Order) : Order[i] = g
    BY PlanAssumption
  <2>2. i < m[p].next
    BY <1>2, PlanFacts
  <2>3. m[p].lane[g].at # "wait"
    BY <1>1, <2>1, <2>2 DEF MemoryInv
  <2>4. m[p].lane[g].at = "over"
    BY <1>1, <2>3 DEF Busy, Lane
  <2> QED
    BY <1>1, <2>4 DEF MemoryInv, LaneInv
<1>4. ASSUME NEW w \in Windows PROVE m[p].result[w] # "none"
  <2>1. PICK g \in Grains : \E d \in 1..Days[g] : w = <<g, d>>
    BY PlanFacts
  <2>2. PICK d \in 1..Days[g] : w = <<g, d>>
    BY <2>1
  <2>3. d > m[p].lane[g].day
    BY <1>3, PlanFacts
  <2> QED
    BY <1>1, <2>2, <2>3 DEF MemoryInv
<1> QED
  BY <1>2, <1>3, <1>4

(* A run is closed as succeeded only over windows that all are.            *)
LEMMA SucceededRun ==
    ASSUME BackfillInv, NEW p \in Executions, LanesEnded(p), ~m[p].broken, ~overlapped,
           RunStatus(p) = "SUCCEEDED", NEW w \in Windows
    PROVE  Success(row, w)
<1>1. LiveInv(m[p])
  BY Cells DEF LanesEnded, Alive, SequentialInv
<1>2. ASSUME NEW s
      PROVE  /\ Count(p, s) \in Nat
             /\ Count(p, s) = 0 => \A v \in Windows : m[p].result[v] # s
  <2>1. PICK S : S = {v \in Windows : m[p].result[v] = s}
    OBVIOUS
  <2>2. IsFiniteSet(S)
    BY <2>1, WindowsAreFinite, FS_Subset
  <2>3. Cardinality(S) \in Nat /\ (Cardinality(S) = 0 <=> S = {})
    BY <2>2, FS_CardinalityType, FS_EmptySet
  <2> QED
    BY <2>1, <2>3 DEF Count
<1>3. Count(p, "FAILED") + Count(p, "BLOCKED") = 0
  BY <1>2 DEF RunStatus
<1>4. Count(p, "FAILED") = 0 /\ Count(p, "BLOCKED") = 0
  BY <1>2, <1>3
<1>5. m[p].result[w] # "FAILED" /\ m[p].result[w] # "BLOCKED"
  BY <1>2, <1>4
<1>6. m[p].result[w] \in {"SKIPPED", "SUCCEEDED"}
  BY <1>5, LanesAreOver DEF Outcomes
<1> QED
  BY <1>1, <1>6 DEF LiveInv

(* An execution that ends: done, thrown or dead.                           *)
LEMMA EndSteps ==
    ASSUME BackfillInv, NEW p \in Executions,
           CloseRun(p) \/ ExitBroken(p) \/ ReadFails(p) \/ Die(p)
    PROVE  BackfillInv'
<1>1. PICK c \in {"start", "done", "thrown", "dead"} :
        m' = [m EXCEPT ![p] = Gone(c)] /\ c # "start"
  BY DEF CloseRun, ExitBroken, ReadFails, Die
<1>2. PICK y : y = Gone(c)
  OBVIOUS
<1>3. y \in Memory /\ y.pc = c /\ MemoryInv(y)
  BY <1>2, GoneMemory
<1>4. /\ m \in [Executions -> Memory] /\ Alive(p) /\ faults \in Nat /\ faults \in 0..MaxFaults
      /\ UNCHANGED <<row, ckpt, ledger, refused, overlapped>>
      /\ ledger \subseteq Windows \X (1..MaxOrdinal) /\ refused \subseteq ledger
  BY Cells DEF CloseRun, ExitBroken, ReadFails, Die, Alive, LanesEnded, tables, TypeOK
<1>5. m'[p] = y /\ Only(p) /\ ~AliveAt(m'[p].pc)
  BY <1>1, <1>2, <1>3, <1>4 DEF Only, AliveAt
<1>6. faults' \in 0..MaxFaults /\ faults <= faults'
  <2>1. faults' = faults \/ (faults < MaxFaults /\ faults' = faults + 1)
    BY DEF CloseRun, ExitBroken, ReadFails, Die
  <2> QED
    BY <1>4, <2>1, PlanFacts
<1>7. run' = run \/ (run' \in {"PARTIAL", "FAILED", "SUCCEEDED"}
                     /\ (~overlapped /\ run' = "SUCCEEDED" =>
                           \A w \in Windows : Success(row, w)))
  <2>1. CASE CloseRun(p)
    <3>1. LanesEnded(p) /\ ~m[p].broken /\ (run' = run \/ run' = RunStatus(p))
      BY <2>1 DEF CloseRun
    <3>2. RunStatus(p) \in {"PARTIAL", "FAILED", "SUCCEEDED"}
      BY DEF RunStatus
    <3> QED
      BY <3>1, <3>2, SucceededRun
  <2> QED
    BY <2>1 DEF ExitBroken, ReadFails, Die, tables
<1>8. ASSUME Quiet, faults' = faults PROVE QuietInv'
  <2>1. refused = {} /\ ~m[p].broken
    BY <1>4, <1>8, Cells DEF QuietInv
  <2>2. LanesEnded(p)
    BY <1>4, <1>8 DEF CloseRun, ExitBroken, ReadFails, Die
  <2>3. ASSUME NEW g \in Grains, NEW d \in 1..Days[g], NEW n, Own(m[p], g, d, n) PROVE FALSE
    <3>1. m[p].lane[g].day = 0 /\ m[p].lane[g].day = d
      BY <2>1, <2>2, <2>3, LanesAreOver DEF Own
    <3> QED
      BY <3>1, PlanFacts
  <2> QED
    BY <1>4, <1>5, <1>8, <2>1, <2>3, QuietStays
<1> QED
  BY <1>4, <1>5, <1>6, <1>7, <1>8, TablesStay

-----------------------------------------------------------------------------
(* The invariant holds, and the theorems.                                  *)

(* A plan that nobody has started.                                         *)
LEMMA InitiallyTrue == Init => BackfillInv
<1> SUFFICES ASSUME Init PROVE BackfillInv
  OBVIOUS
<1>1. PICK y : y = Gone("start")
  OBVIOUS
<1>2. y = Fresh
  BY <1>1 DEF Gone, Fresh
<1>3. PICK c \in {"start", "done", "thrown", "dead"} : c = "start"
  OBVIOUS
<1>4. y \in Memory /\ y.pc = "start" /\ MemoryInv(y)
  <2>1. y = Gone(c)
    BY <1>1, <1>3
  <2> QED
    BY <1>3, <2>1, GoneMemory
<1>5. \A p \in Executions : m[p] = y
  BY <1>2 DEF Init
<1>6. TypeInv
  <2>1. NoRow \in RowType /\ NoRow.status = "none" /\ NoCheckpoint \in CheckpointType
    BY DEF NoRow, RowType, NoCheckpoint, CheckpointType
  <2>2. row \in [Windows -> RowType] /\ ckpt \in [Grains -> CheckpointType]
    BY <2>1 DEF Init
  <2>3. \A w \in Windows : row[w].status # "SUCCEEDED"
    BY <2>1 DEF Init
  <2>4. m \in [Executions -> Memory]
    BY <1>2, <1>4 DEF Init
  <2>5. faults \in 0..MaxFaults
    BY PlanFacts DEF Init
  <2> QED
    BY <2>2, <2>3, <2>4, <2>5 DEF TypeInv, TypeOK, Init
<1>7. \A w \in Windows : ~Success(row, w)
  BY DEF Init, Success, NoRow
<1>8. TablesInv
  BY <1>7, PlanFacts DEF TablesInv, Init
<1>9. \A p \in Executions : ~Alive(p) /\ MemoryInv(m[p])
  BY <1>4, <1>5 DEF Alive
<1>10. SequentialInv
  BY <1>7, <1>9, PlanFacts DEF SequentialInv, Init
<1>11. QuietInv
  BY <1>9 DEF QuietInv, Init
<1> QED
  BY <1>6, <1>8, <1>9, <1>10, <1>11 DEF BackfillInv

(* Every step keeps the invariant.                                         *)
LEMMA StepsKeepIt == BackfillInv /\ [Next]_vars => BackfillInv'
<1> SUFFICES ASSUME BackfillInv, [Next]_vars PROVE BackfillInv'
  OBVIOUS
<1>1. ASSUME NEW p \in Executions, Step(p) PROVE BackfillInv'
  <2>1. CASE OpenRun(p)
    BY <2>1, OpenRunStep
  <2>2. CASE LoadCompletedWindowKeys(p) \/ LoadWindowAttemptCounts(p) \/ LoadCheckpoints(p)
    BY <2>2, LoadSteps
  <2>3. CASE TakeGrain(p)
    BY <2>3, TakeGrainStep
  <2>4. CASE CloseRun(p) \/ ExitBroken(p) \/ ReadFails(p) \/ Die(p)
    BY <2>4, EndSteps
  <2>5. ASSUME NEW g \in Grains,
               \/ Skip(p, g) \/ Block(p, g) \/ LimitReached(p, g)
               \/ FetchWindow(p, g) \/ Answered(p, g) \/ CommitWindowOutcome(p, g)
        PROVE  BackfillInv'
    BY <2>5, SkipStep, BlockStep, LimitReachedStep, FetchWindowStep, AnsweredStep, CommitStep
  <2> QED
    BY <1>1, <2>1, <2>2, <2>3, <2>4, <2>5 DEF Step
<1>2. CASE UNCHANGED vars
  <2>1. UNCHANGED <<run, row, ckpt, ledger, refused, m, overlapped, faults>>
    BY <1>2 DEF vars
  <2>2. TypeInv' /\ TablesInv' /\ \A p \in Executions : MemoryInv(m'[p])
    BY <2>1 DEF BackfillInv, TypeInv, TypeOK, TablesInv
  <2>3. ~overlapped' => SequentialInv'
    BY <2>1 DEF BackfillInv, SequentialInv, Alive, LiveInv
  <2>4. Quiet' => QuietInv'
    BY <2>1 DEF BackfillInv, Quiet, QuietInv, Alive, CountsInv, Counted, Own
  <2> QED
    BY <2>2, <2>3, <2>4 DEF BackfillInv
<1> QED
  BY <1>1, <1>2 DEF Next

(* The invariant says what the properties say.                             *)
LEMMA InvIsSafe == BackfillInv => BackfillSafety /\ OrdinalsAreFresh
<1> SUFFICES ASSUME BackfillInv PROVE BackfillSafety /\ OrdinalsAreFresh
  OBVIOUS
<1>1. TypeOK /\ TablesInv /\ (~overlapped => SequentialInv) /\ (Quiet => QuietInv)
  BY Cells
<1>2. CheckpointIsProven
  BY <1>1 DEF TablesInv, CheckpointIsProven, Success
<1>3. OneSchemaPerGrain
  <2>1. ASSUME ~overlapped, NEW v \in Windows, NEW w \in Windows, v[1] = w[1],
               Success(row, v), Success(row, w)
        PROVE  row[v].print = row[w].print
    <3>1. PICK g \in Grains : \E d \in 1..Days[g] : v = <<g, d>>
      BY PlanFacts
    <3>2. PICK h \in Grains : \E e \in 1..Days[h] : w = <<h, e>>
      BY PlanFacts
    <3>3. g = h
      BY <2>1, <3>1, <3>2
    <3>4. row[v].print = ckpt[g].print /\ row[w].print = ckpt[h].print
      BY <1>1, <2>1, <3>1, <3>2 DEF SequentialInv
    <3> QED
      BY <3>3, <3>4
  <2> QED
    BY <2>1 DEF OneSchemaPerGrain, Success
<1>4. SucceededMeansEveryWindow
  BY <1>1 DEF SequentialInv, SucceededMeansEveryWindow, Success
<1>5. OrdinalsAreFresh
  BY <1>1 DEF OrdinalsAreFresh, Quiet, QuietInv
<1> QED
  BY <1>1, <1>2, <1>3, <1>4, <1>5 DEF BackfillSafety

(* The invariant holds in every state.                                     *)
LEMMA AlwaysTrue == Spec => []BackfillInv
BY InitiallyTrue, StepsKeepIt, PTL DEF Spec

(* What the plan's rows say is true, for any plan and any executions: a    *)
(* checkpoint cites a window that has succeeded with its fingerprint,      *)
(* however executions overlap; and while they do not, a grain has one      *)
(* fingerprint and a SUCCEEDED run rests on successes only                 *)
(* (commitWindowOutcome, evaluateWindowOutcome, closeRun).                 *)
THEOREM RowsAreTrue == Spec => []BackfillSafety
BY AlwaysTrue, InvIsSafe, PTL

(* Without faults and one after another, executions that resume a plan     *)
(* never start a supply attempt twice: the ordinal of the next call is     *)
(* above every one in the ledger (loadWindowAttemptCounts, processWindow). *)
THEOREM AttemptsAreNew == Spec => []OrdinalsAreFresh
BY AlwaysTrue, InvIsSafe, PTL

(* A checkpoint only moves to a later day, and while executions do not     *)
(* overlap no commit rewrites the row of a success (nextCheckpointState    *)
(* and the upsert of commitWindowOutcome).                                 *)
THEOREM SuccessesAreKept == Spec => SuccessIsKept
<1>1. ASSUME BackfillInv, NEW p \in Executions, NEW g \in Grains,
             CommitWindowOutcome(p, g)
      PROVE  /\ \A h \in Grains : ckpt'[h] # ckpt[h] => ckpt'[h].day > ckpt[h].day
             /\ \A w \in Windows : Success(row, w) /\ ~overlapped => row'[w] = row[w]
  <2>1. /\ m[p].pc = "lanes" /\ m[p].lane[g].at = "commit"
        /\ Committed(p, g) \/ UNCHANGED <<row, ckpt>>
    BY <1>1 DEF CommitWindowOutcome, Lane
  <2>2. CASE Committed(p, g)
    <3>1. PICK r \in RowType :
             /\ r.status = m[p].lane[g].outcome
             /\ r.status = "SUCCEEDED" => r.print = m[p].print
             /\ Writes(p, g, Window(p, g), r)
      BY <1>1, <2>1, <2>2, CommittedTables
    <3>2. ~overlapped => \A w \in Windows : Success(row, w) => row'[w] = row[w]
      BY <1>1, <2>1, <3>1, SequentialWrites
    <3>3. /\ \A h \in Grains : h # g => ckpt'[h] = ckpt[h]
          /\ Advances(p, g) => ckpt'[g].day = m[p].lane[g].day
          /\ ~Advances(p, g) => ckpt'[g] = ckpt[g]
      BY <3>1 DEF Writes
    <3>4. Advances(p, g) => m[p].lane[g].day > ckpt[g].day
      BY DEF Advances, Lane
    <3> QED
      BY <3>2, <3>3, <3>4
  <2> QED
    BY <2>1, <2>2
<1>2. ASSUME BackfillInv, [Next]_vars
      PROVE  [/\ \A g \in Grains : ckpt'[g] # ckpt[g] => ckpt'[g].day > ckpt[g].day
              /\ \A w \in Windows :
                   row[w].status = "SUCCEEDED" /\ ~overlapped => row'[w] = row[w]]_vars
  <2>1. CASE UNCHANGED <<row, ckpt>>
    BY <2>1
  <2>2. CASE \E p \in Executions : \E g \in Grains : CommitWindowOutcome(p, g)
    BY <1>1, <1>2, <2>2 DEF Success
  <2>3. ASSUME NEW p \in Executions, Step(p),
               ~(\E g \in Grains : CommitWindowOutcome(p, g))
        PROVE  UNCHANGED <<row, ckpt>>
    BY <2>3 DEF Step, OpenRun, LoadCompletedWindowKeys, LoadWindowAttemptCounts,
       LoadCheckpoints, TakeGrain, CloseRun, ExitBroken, ReadFails, Die, Skip, Block,
       LimitReached, FetchWindow, Answered, tables
  <2>4. UNCHANGED vars => UNCHANGED <<row, ckpt>>
    BY DEF vars
  <2> QED
    BY <1>2, <2>1, <2>2, <2>3, <2>4 DEF Next
<1> QED
  BY <1>2, AlwaysTrue, PTL DEF Spec, SuccessIsKept
=============================================================================
