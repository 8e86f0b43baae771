------------------------- MODULE V4CollectionProofs -------------------------
(***************************************************************************)
(* Proofs about V4Collection, for any number of executions and any frozen  *)
(* plan of at least two grains: executions share the ledger safely, the    *)
(* candidate is proven by the ledger, and an ended run keeps its evidence. *)
(*                                                                         *)
(* One execution, the collector, ever passes RUNNING; it alone touches     *)
(* attempts, pages and observations, and walks the plan in order, so what  *)
(* it holds in memory and what the ledger says of a grain agree at every   *)
(* step (OpeningInv, ClosingInv).  The others only end the run early,      *)
(* which they can do before a second grain is open (LateInv) and so before *)
(* there is any evidence (FetchedInv).                                     *)
(***************************************************************************)
EXTENDS V4Collection, SequenceTheorems, TLAPS

Coverage == [complete: BOOLEAN, reason: {"none", "failed", "PARTIAL", "FAILED"},
             pages: SUBSET (Grains \X Nat), verified: BOOLEAN]
Ledger == [run: RunStatuses, attempt: [Grains -> AttemptStatuses],
           pages: [Grains -> Seq({"SUCCEEDED", "PARTIAL"})],
           observed: SUBSET Statistics, coverage: Coverage]
Memory == [pc: Counters, i: Nat, page: Nat, own: SUBSET Grains,
           got: [Grains -> Answer], synced: BOOLEAN, error: BOOLEAN,
           outcome: [Grains -> {"none"} \cup EndedAttempt]]

TypeInv ==
    /\ db \in Ledger /\ m \in [Executions -> Memory]
    /\ staging \subseteq Executions /\ candidate \in Executions \cup {NoExecution}
    /\ faults \in 0..MaxFaults

-----------------------------------------------------------------------------
(* The ledger d on its own.                                                *)

Begun(d) == d.run \in {"RUNNING"} \cup EndedRun

\* A grain that SUCCEEDED has accepted pages and, for a statistic, its
\* observation.
Evident(d, g) ==
    /\ Len(d.pages[g]) > 0
    /\ \A k \in 1..Len(d.pages[g]) : d.pages[g][k] = "SUCCEEDED"
    /\ g \in Statistics => g \in d.observed

\* A run that ended under an open attempt ended before a second grain opened.
LateInv(d) == d.run \in EndedRun => AttemptsClosed(d) \/ Opened(d) \subseteq {Plan[1]}

LedgerInv(d) ==
    /\ ~Begun(d) => \A g \in Grains : d.attempt[g] = "none"
    /\ d.run = "SUCCEEDED" => Complete(d)
    /\ LateInv(d)
    /\ \A g \in Grains : d.attempt[g] = "none" => d.pages[g] = <<>>
    /\ \A g \in Grains : d.attempt[g] = "SUCCEEDED" => Evident(d, g)
    /\ d.coverage # NoCoverage => d.run \in EndedRun
    /\ d.coverage.complete /\ d.coverage.reason = "none" => d.coverage.verified

Proven(d) ==
    /\ d.run = "SUCCEEDED"
    /\ \A g \in Grains : d.attempt[g] = "SUCCEEDED"
    /\ d.coverage.complete /\ d.coverage.verified /\ d.coverage.reason = "none"

-----------------------------------------------------------------------------
(* The memory x of one execution beside the ledger d, with f faults so far.*)

Collects(x) == x.own # {} \/ x.pc \in {"begin", "inserting", "run"}

Untouched(x) ==
    /\ \A g \in Grains : x.outcome[g] = "none" /\ x.got[g].pages = 0
    /\ ~x.synced

\* Only the collector has answers, outcomes and attempts of its own.
CollectorInv(x, d) ==
    /\ x.pc \in {"create", "creating", "preflight", "start"} => x.own = {} /\ x.page = 1
    /\ x.own = {} => Untouched(x)
    /\ Collects(x) => Begun(d)
    /\ Collects(x) /\ d.run \in {"SUCCEEDED", "PARTIAL"} =>
           x.pc \in {"cover", "publish"} \cup Ended

\* While grains are opened: those before place i are RUNNING, the one at it is
\* PLANNED, those after it are not there.
OpeningInv(x, d) ==
    x.pc \in {"begin", "inserting", "run"} =>
        /\ x.i \in 1..Len(Plan) + 1 /\ (x.pc # "begin" => x.i <= Len(Plan))
        /\ Untouched(x) /\ x.page = 1 /\ \A g \in Grains : d.pages[g] = <<>>
        /\ \A j \in 1..Len(Plan) :
             LET a == d.attempt[Plan[j]]  mine == Plan[j] \in x.own
             IN  /\ j < x.i => a = "RUNNING" /\ mine
                 /\ j = x.i => IF x.pc = "run" THEN a = "PLANNED" /\ mine
                                               ELSE a = "none" /\ ~mine
                 /\ j > x.i => a = "none" /\ ~mine
        /\ x.pc = "inserting" /\ x.i >= 2 => d.run \notin EndedRun

\* What a sync left in memory: all grains were RUNNING when it started.
AnswerInv(x, d) ==
    \A g \in Grains :
        /\ x.got[g].pages > 0 =>
               x.own = Grains /\ \A h \in Grains : d.attempt[h] \notin {"none", "PLANNED"}
        /\ g \in Statistics => x.got[g].pages <= 1 /\ x.got[g].clean
        /\ x.got[g].gates => x.synced

GatesHeld(x, g) == x.synced /\ (g \notin Statistics => x.got[g].gates)

\* Every outcome in memory is the ledger's, and a success passed its gates.
OutcomeInv(x, d) ==
    \A g \in Grains :
        /\ g \in x.own => d.attempt[g] # "none"
        /\ x.outcome[g] # "none" => x.outcome[g] = d.attempt[g] /\ g \in x.own
        /\ g \in x.own /\ d.attempt[g] = "SUCCEEDED" => GatesHeld(x, g)

\* While grains are closed: those before place i have their outcome, those
\* after it are open and have no evidence, and the one at it has the pages
\* handed over so far.
ClosingInv(x, d) ==
    x.pc \in {"closing", "observe"} =>
        /\ x.i \in 1..Len(CloseOrder) + 1 /\ x.page >= 1
        /\ x.i > Len(CloseOrder) => x.page = 1
        /\ x.pc = "observe" => /\ x.i <= Len(CloseOrder) /\ x.page > 1
                               /\ CloseOrder[x.i] \in Statistics
        /\ \A j \in 1..Len(CloseOrder) :
             LET g == CloseOrder[j]
             IN  /\ j < x.i /\ g \in x.own => x.outcome[g] # "none"
                 /\ j >= x.i => x.outcome[g] = "none"
                 /\ j >= x.i /\ g \in x.own => d.attempt[g] \in OpenAttempt
                 /\ j > x.i /\ g \in x.own => d.pages[g] = <<>>
                 /\ j = x.i => x.page <= x.got[g].pages + 1
                 /\ j = x.i /\ g \in x.own =>
                      /\ Len(d.pages[g]) = x.page - 1
                      /\ \A k \in 1..x.page - 1 : d.pages[g][k] = FetchStatus(x.got[g], k)
                      /\ x.pc = "closing" /\ g \in Statistics /\ x.page > 1 =>
                           g \in d.observed

\* The clean-up is entered with a fault; without another it closes what is
\* open, and an execution that gets to its end leaves nothing open.
FailingInv(x, d, f) ==
    /\ x.pc = "failing" =>
         /\ f >= 1 /\ x.i \in 1..Len(Plan) + 1
         /\ f <= 1 => \A j \in 1..Len(Plan) :
              j < x.i /\ Plan[j] \in x.own => d.attempt[Plan[j]] \in EndedAttempt
    /\ x.pc \in {"failCoverage", "cover", "publish", "done", "thrown"} /\ f <= 1 =>
         \A g \in x.own : d.attempt[g] \in EndedAttempt

\* RunStatus, of a memory.
Won(x) == x.own # {} /\ \A g \in x.own : x.outcome[g] = "SUCCEEDED"

ConcludedInv(x, d) ==
    /\ x.pc = "cover" /\ Won(x) => d.run = "SUCCEEDED"
    /\ x.pc = "publish" /\ Won(x) => Proven(d)

ExecutionInv(x, d, f) ==
    /\ CollectorInv(x, d) /\ OpeningInv(x, d) /\ AnswerInv(x, d) /\ OutcomeInv(x, d)
    /\ ClosingInv(x, d) /\ FailingInv(x, d, f) /\ ConcludedInv(x, d)

-----------------------------------------------------------------------------
\* There is one collector, and only what it owns has left PLANNED.
OneInv ==
    /\ \A p, q \in Executions : Collects(m[p]) /\ Collects(m[q]) => p = q
    /\ \A g \in Grains : db.attempt[g] \notin {"none", "PLANNED"} =>
         \E p \in Executions : g \in m[p].own

CollectionInv ==
    /\ TypeInv /\ LedgerInv(db) /\ OneInv
    /\ \A p \in Executions : ExecutionInv(m[p], db, faults)
    /\ candidate # NoExecution => Proven(db)

-----------------------------------------------------------------------------
(* What the types and the plan say.                                        *)

(* Both orders go through every grain once.                                *)
LEMMA PlanFacts ==
    /\ Len(Plan) \in Nat /\ Len(Plan) >= 2 /\ Len(CloseOrder) \in Nat
    /\ \A i \in 1..Len(Plan) : Plan[i] \in Grains
    /\ \A i \in 1..Len(CloseOrder) : CloseOrder[i] \in Grains
    /\ \A g \in Grains : \E i \in 1..Len(Plan) : Plan[i] = g
    /\ \A g \in Grains : \E i \in 1..Len(CloseOrder) : CloseOrder[i] = g
    /\ \A i, j \in 1..Len(Plan) : Plan[i] = Plan[j] => i = j
    /\ \A i, j \in 1..Len(CloseOrder) : CloseOrder[i] = CloseOrder[j] => i = j
<1>1. Plan \in Seq(Grains) /\ CloseOrder \in Seq(Grains)
  BY PlanAssumption DEF Enumerates
<1>2. /\ \A i \in 1..Len(Plan) : Plan[i] \in Grains
      /\ \A i \in 1..Len(CloseOrder) : CloseOrder[i] \in Grains
  BY <1>1, ElementOfSeq
<1>3. Len(Plan) \in Nat /\ Len(CloseOrder) \in Nat
  BY <1>1, LenProperties
<1> QED
  BY <1>2, <1>3, PlanAssumption DEF Enumerates

(* The fields of a ledger.                                                 *)
LEMMA LedgerFields ==
    ASSUME NEW d \in Ledger
    PROVE  /\ d.run \in RunStatuses /\ d.attempt \in [Grains -> AttemptStatuses]
           /\ d.pages \in [Grains -> Seq({"SUCCEEDED", "PARTIAL"})]
           /\ d.observed \subseteq Statistics /\ d.coverage \in Coverage
           /\ \A g \in Grains : /\ d.attempt[g] \in AttemptStatuses
                                /\ d.pages[g] \in Seq({"SUCCEEDED", "PARTIAL"})
                                /\ Len(d.pages[g]) \in Nat
<1>1. /\ d.run \in RunStatuses /\ d.attempt \in [Grains -> AttemptStatuses]
      /\ d.pages \in [Grains -> Seq({"SUCCEEDED", "PARTIAL"})]
      /\ d.observed \subseteq Statistics /\ d.coverage \in Coverage
  BY DEF Ledger
<1> QED
  BY <1>1, LenProperties

(* The fields of a memory.                                                 *)
LEMMA MemoryFields ==
    ASSUME NEW x \in Memory
    PROVE  /\ x.pc \in Counters /\ x.i \in Nat /\ x.page \in Nat /\ x.own \subseteq Grains
           /\ x.got \in [Grains -> Answer] /\ x.synced \in BOOLEAN
           /\ x.outcome \in [Grains -> {"none"} \cup EndedAttempt]
           /\ \A g \in Grains : /\ x.got[g].pages \in Nat /\ x.got[g].clean \in BOOLEAN
                                /\ x.got[g].gates \in BOOLEAN
                                /\ x.outcome[g] \in {"none"} \cup EndedAttempt
<1>1. /\ x.pc \in Counters /\ x.i \in Nat /\ x.page \in Nat /\ x.own \subseteq Grains
      /\ x.got \in [Grains -> Answer] /\ x.synced \in BOOLEAN
      /\ x.outcome \in [Grains -> {"none"} \cup EndedAttempt]
  BY DEF Memory
<1>2. ASSUME NEW a \in Answer
      PROVE  a.pages \in Nat /\ a.clean \in BOOLEAN /\ a.gates \in BOOLEAN
  BY PlanAssumption DEF Answer
<1> QED
  BY <1>1, <1>2

(* The memory after a move that changes the place only.                    *)
LEMMA Moved ==
    ASSUME NEW x \in Memory, NEW c \in Counters, NEW y, y = [x EXCEPT !.pc = c]
    PROVE  /\ y \in Memory /\ y.pc = c /\ y.i = x.i /\ y.page = x.page /\ y.own = x.own
           /\ y.got = x.got /\ y.synced = x.synced /\ y.outcome = x.outcome
BY DEF Memory

(* The ledger after its run row was written.                               *)
LEMMA RunWritten ==
    ASSUME NEW d \in Ledger, NEW s \in RunStatuses, NEW e, e = [d EXCEPT !.run = s]
    PROVE  /\ e \in Ledger /\ e.run = s /\ e.attempt = d.attempt /\ e.pages = d.pages
           /\ e.observed = d.observed /\ e.coverage = d.coverage
BY DEF Ledger

\* e is d with the attempt of g written.
AttemptIs(d, e, g, s) ==
    /\ e.run = d.run /\ e.pages = d.pages
    /\ e.observed = d.observed /\ e.coverage = d.coverage /\ e.attempt[g] = s
    /\ \A h \in Grains : h # g => e.attempt[h] = d.attempt[h]

(* The ledger after an attempt row was written.                            *)
LEMMA AttemptWritten ==
    ASSUME NEW d \in Ledger, NEW g \in Grains, NEW s \in AttemptStatuses, NEW e,
           e = [d EXCEPT !.attempt[g] = s]
    PROVE  e \in Ledger /\ AttemptIs(d, e, g, s)
BY DEF Ledger, AttemptIs

\* e is d with one more page of evidence for g.
PageIs(d, e, g, s) ==
    /\ e.run = d.run /\ e.attempt = d.attempt
    /\ e.observed = d.observed /\ e.coverage = d.coverage
    /\ Len(e.pages[g]) = Len(d.pages[g]) + 1
    /\ \A k \in 1..Len(d.pages[g]) : e.pages[g][k] = d.pages[g][k]
    /\ e.pages[g][Len(d.pages[g]) + 1] = s
    /\ \A h \in Grains : h # g => e.pages[h] = d.pages[h]

(* The ledger after a page of evidence was added.                          *)
LEMMA PageWritten ==
    ASSUME NEW d \in Ledger, NEW g \in Grains, NEW s \in {"SUCCEEDED", "PARTIAL"},
           NEW q, q = Append(d.pages[g], s), NEW e, e = [d EXCEPT !.pages[g] = q]
    PROVE  e \in Ledger /\ PageIs(d, e, g, s)
<1>1. /\ d.pages \in [Grains -> Seq({"SUCCEEDED", "PARTIAL"})]
      /\ d \in [run: RunStatuses, attempt: [Grains -> AttemptStatuses],
                pages: [Grains -> Seq({"SUCCEEDED", "PARTIAL"})],
                observed: SUBSET Statistics, coverage: Coverage]
  BY DEF Ledger
<1>2. d.pages[g] \in Seq({"SUCCEEDED", "PARTIAL"})
  BY <1>1
<1>3. /\ q \in Seq({"SUCCEEDED", "PARTIAL"}) /\ Len(q) = Len(d.pages[g]) + 1
      /\ \A k \in 1..Len(d.pages[g]) : q[k] = d.pages[g][k]
      /\ q[Len(d.pages[g]) + 1] = s
  BY <1>2, AppendProperties
<1>4. PICK f : f = [d.pages EXCEPT ![g] = q]
  OBVIOUS
<1>5. /\ f \in [Grains -> Seq({"SUCCEEDED", "PARTIAL"})] /\ f[g] = q
      /\ \A h \in Grains : h # g => f[h] = d.pages[h]
  BY <1>1, <1>3, <1>4
<1>6. e = [d EXCEPT !.pages = f]
  BY <1>4
<1>7. e \in Ledger /\ e.run = d.run /\ e.attempt = d.attempt /\ e.pages = f
      /\ e.observed = d.observed /\ e.coverage = d.coverage
  BY <1>1, <1>5, <1>6 DEF Ledger
<1> QED
  BY <1>3, <1>5, <1>7 DEF PageIs

-----------------------------------------------------------------------------
(* What one step does to the ledger, seen by the executions that did not   *)
(* take it.                                                                *)

SameEvidence(d, e) ==
    e.attempt = d.attempt /\ e.pages = d.pages /\ e.observed = d.observed

\* What is final stays.
Grows(d, e) ==
    /\ d.run \in EndedRun => e.run = d.run
    /\ Begun(d) => Begun(e)
    /\ \A g \in Grains :
         /\ d.attempt[g] \in EndedAttempt => e.attempt[g] = d.attempt[g]
         /\ d.attempt[g] # "none" => e.attempt[g] # "none"
         /\ d.attempt[g] \notin {"none", "PLANNED"} => e.attempt[g] # "PLANNED"
    /\ d.coverage # NoCoverage => e.coverage = d.coverage

\* One that does not collect leaves the evidence alone, and ends a run only as
\* FAILED and over closed attempts.
Behaves(x, d, e) ==
    /\ Grows(d, e)
    /\ Collects(x) \/ SameEvidence(d, e)
    /\ Collects(x) \/ e.run = d.run \/ e.run \notin {"SUCCEEDED", "PARTIAL"}
    /\ e.run \in EndedRun => e.run = d.run \/ AttemptsClosed(d)

(* What is proven stays proven.                                            *)
LEMMA ProvenStays ==
    ASSUME NEW d \in Ledger, NEW e \in Ledger, Proven(d), Grows(d, e)
    PROVE  Proven(e)
<1>1. d.coverage # NoCoverage
  BY DEF Proven, NoCoverage
<1> QED
  BY <1>1 DEF Proven, Grows, EndedRun, EndedAttempt

(* What holds between an execution and the ledger survives the steps of    *)
(* another: either it does not collect, and the evidence says nothing of   *)
(* it, or the other does not, and leaves the evidence alone.               *)
LEMMA OthersKeep ==
    ASSUME NEW x \in Memory, NEW y \in Memory, NEW d \in Ledger, NEW e \in Ledger,
           NEW f \in Nat, NEW h \in Nat, f <= h, Behaves(y, d, e),
           ~(Collects(x) /\ Collects(y)), ExecutionInv(x, d, f)
    PROVE  ExecutionInv(x, e, h)
<1>0. /\ CollectorInv(x, d) /\ OpeningInv(x, d) /\ AnswerInv(x, d) /\ OutcomeInv(x, d)
      /\ ClosingInv(x, d) /\ FailingInv(x, d, f) /\ ConcludedInv(x, d) /\ Grows(d, e)
  BY DEF ExecutionInv, Behaves
<1>1. CASE ~Collects(x)
  <2>1. x.own = {} /\ Untouched(x) /\ x.pc \notin {"begin", "inserting", "run"} /\ ~Won(x)
    BY <1>0, <1>1 DEF Collects, CollectorInv, Won
  <2>2. CollectorInv(x, e) /\ OpeningInv(x, e) /\ ConcludedInv(x, e)
    BY <1>0, <1>1, <2>1 DEF CollectorInv, OpeningInv, ConcludedInv
  <2>3. \A g \in Grains : x.got[g].pages = 0 /\ x.outcome[g] = "none" /\ g \notin x.own
    BY <2>1 DEF Untouched
  <2>4. AnswerInv(x, e) /\ OutcomeInv(x, e)
    BY <1>0, <2>3 DEF AnswerInv, OutcomeInv
  <2>5. ClosingInv(x, e)
    BY <1>0, <2>3, PlanFacts DEF ClosingInv
  <2>6. FailingInv(x, e, h)
    BY <1>0, <2>1 DEF FailingInv
  <2> QED
    BY <2>2, <2>4, <2>5, <2>6 DEF ExecutionInv
<1>2. CASE Collects(x)
  <2>1. /\ SameEvidence(d, e) /\ Begun(e)
        /\ e.run = d.run \/ e.run \notin {"SUCCEEDED", "PARTIAL"}
        /\ e.run \in EndedRun => e.run = d.run \/ AttemptsClosed(d)
    BY <1>0, <1>2 DEF Behaves, CollectorInv, Grows
  <2>2. CollectorInv(x, e)
    BY <1>0, <2>1 DEF CollectorInv
  <2>3. OpeningInv(x, e)
    <3>1. ASSUME x.pc = "inserting", x.i >= 2 PROVE e.run \notin EndedRun
      <4>1. d.attempt[Plan[1]] = "RUNNING" /\ d.run \notin EndedRun
        BY SMTT(30), <1>0, <3>1, PlanFacts DEF OpeningInv
      <4>2. ~AttemptsClosed(d)
        BY <4>1, PlanFacts DEF AttemptsClosed, OpenAttempt
      <4> QED
        BY <2>1, <4>1, <4>2
    <3> QED
      BY <1>0, <2>1, <3>1 DEF OpeningInv, SameEvidence
  <2>4. AnswerInv(x, e) /\ OutcomeInv(x, e) /\ ClosingInv(x, e)
    BY <1>0, <2>1 DEF AnswerInv, OutcomeInv, ClosingInv, SameEvidence
  <2>5. FailingInv(x, e, h)
    BY <1>0, <2>1 DEF FailingInv, SameEvidence
  <2>6. ConcludedInv(x, e)
    BY <1>0, ProvenStays DEF ConcludedInv, Grows, EndedRun
  <2> QED
    BY <2>2, <2>3, <2>4, <2>5, <2>6 DEF ExecutionInv
<1> QED
  BY <1>1, <1>2

-----------------------------------------------------------------------------
(* The three places an error leads to.                                     *)

\* What an execution must leave behind when it stops opening grains.
OpenOnly(x, e) ==
    /\ Untouched(x) /\ x.page = 1
    /\ Collects(x) => Begun(e)
    /\ x.own # {} => e.run \notin {"SUCCEEDED", "PARTIAL"}
    /\ \A g \in x.own : e.attempt[g] \in OpenAttempt /\ e.pages[g] = <<>>

(* An error of the first phase: everything owned is still to be closed.    *)
LEMMA ToClosing ==
    ASSUME NEW x \in Memory, NEW d \in Ledger, NEW e \in Ledger, NEW f \in Nat,
           AnswerInv(x, d), OpenOnly(x, e), NEW y,
           y = [x EXCEPT !.pc = "closing", !.i = 1, !.error = TRUE]
    PROVE  y \in Memory /\ y.own = x.own /\ ExecutionInv(y, e, f)
<1>1. /\ y \in Memory /\ y.pc = "closing" /\ y.i = 1 /\ y.page = 1 /\ y.own = x.own
      /\ y.got = x.got /\ y.synced = x.synced /\ y.outcome = x.outcome
  <2>1. "closing" \in Counters
    BY DEF Counters
  <2> QED
    BY <2>1 DEF OpenOnly, Memory
<1>2. \A g \in Grains : y.got[g].pages = 0 /\ y.outcome[g] = "none"
  BY <1>1 DEF OpenOnly, Untouched
<1>3. CollectorInv(y, e)
  BY <1>1 DEF CollectorInv, OpenOnly, Collects, Untouched
<1>4. AnswerInv(y, e)
  BY <1>1, <1>2 DEF AnswerInv
<1>5. OutcomeInv(y, e)
  BY <1>1, <1>2 DEF OutcomeInv, OpenOnly, OpenAttempt
<1>6. ClosingInv(y, e)
  BY <1>1, <1>2, PlanFacts, EmptySeq DEF ClosingInv, OpenOnly
<1>7. OpeningInv(y, e) /\ FailingInv(y, e, f) /\ ConcludedInv(y, e)
  BY <1>1 DEF OpeningInv, FailingInv, ConcludedInv
<1> QED
  BY <1>1, <1>3, <1>4, <1>5, <1>6, <1>7 DEF ExecutionInv

\* What an execution must leave behind when it stops closing grains.
Consistent(x, e) ==
    /\ AnswerInv(x, e) /\ OutcomeInv(x, e)
    /\ x.own = {} => Untouched(x)
    /\ x.own # {} => Begun(e)

(* An error of the second phase, which takes a fault.                      *)
LEMMA ToFailing ==
    ASSUME NEW x \in Memory, NEW e \in Ledger, NEW f \in Nat, f >= 1, Consistent(x, e),
           x.own # {} => e.run \notin {"SUCCEEDED", "PARTIAL"},
           NEW y, y = [x EXCEPT !.pc = "failing", !.i = 1, !.error = TRUE]
    PROVE  y \in Memory /\ y.own = x.own /\ ExecutionInv(y, e, f)
<1>1. /\ y \in Memory /\ y.pc = "failing" /\ y.i = 1 /\ y.own = x.own
      /\ y.got = x.got /\ y.synced = x.synced /\ y.outcome = x.outcome
  <2>1. "failing" \in Counters
    BY DEF Counters
  <2> QED
    BY <2>1 DEF Memory
<1>2. CollectorInv(y, e)
  BY <1>1 DEF CollectorInv, Consistent, Collects, Untouched
<1>3. AnswerInv(y, e) /\ OutcomeInv(y, e)
  BY <1>1 DEF AnswerInv, OutcomeInv, Consistent, GatesHeld
<1>4. FailingInv(y, e, f)
  BY <1>1, PlanFacts DEF FailingInv
<1>5. OpeningInv(y, e) /\ ClosingInv(y, e) /\ ConcludedInv(y, e)
  BY <1>1 DEF OpeningInv, ClosingInv, ConcludedInv
<1> QED
  BY <1>1, <1>2, <1>3, <1>4, <1>5 DEF ExecutionInv

(* An execution that ends, or has one thing left to do, with what it owns  *)
(* closed, or is killed.                                                   *)
LEMMA ToEnd ==
    ASSUME NEW x \in Memory, NEW e \in Ledger, NEW f \in Nat, Consistent(x, e),
           NEW c \in Ended \cup {"failCoverage", "cover", "publish"},
           c = "failCoverage" /\ x.own # {} => e.run \notin {"SUCCEEDED", "PARTIAL"},
           c = "dead" \/ (f <= 1 => \A g \in x.own : e.attempt[g] \in EndedAttempt),
           c = "cover" /\ Won(x) => e.run = "SUCCEEDED",
           c = "publish" /\ Won(x) => Proven(e),
           NEW y, y = [x EXCEPT !.pc = c]
    PROVE  y \in Memory /\ y.own = x.own /\ ExecutionInv(y, e, f)
<1>1. /\ y \in Memory /\ y.pc = c /\ y.own = x.own
      /\ y.got = x.got /\ y.synced = x.synced /\ y.outcome = x.outcome
  BY Moved DEF Counters, Ended
<1>2. CollectorInv(y, e)
  BY <1>1 DEF CollectorInv, Consistent, Collects, Untouched, Ended
<1>3. AnswerInv(y, e) /\ OutcomeInv(y, e)
  BY <1>1 DEF AnswerInv, OutcomeInv, Consistent, GatesHeld
<1>4. FailingInv(y, e, f)
  BY <1>1 DEF FailingInv, Ended
<1>5. OpeningInv(y, e) /\ ClosingInv(y, e)
  BY <1>1 DEF OpeningInv, ClosingInv, Ended
<1>6. ConcludedInv(y, e)
  BY <1>1 DEF ConcludedInv, Won, Ended
<1> QED
  BY <1>1, <1>2, <1>3, <1>4, <1>5, <1>6 DEF ExecutionInv

-----------------------------------------------------------------------------
(* What a write leaves of the ledger's own invariant.                      *)

(* A step that writes nothing.                                             *)
LEMMA NothingWritten ==
    ASSUME NEW x \in Memory, NEW d \in Ledger
    PROVE  Behaves(x, d, d)
BY DEF Behaves, Grows, SameEvidence

(* A transition of the run row, which only goes forward.                   *)
LEMMA RunKept ==
    ASSUME NEW x \in Memory, NEW d \in Ledger, LedgerInv(d),
           NEW s \in {"PLANNED", "PREFLIGHT_PASSED", "RUNNING"} \cup EndedRun,
           IF s = "PLANNED" THEN d.run = "none" ELSE RunMayBecome(d, s),
           s \in {"SUCCEEDED", "PARTIAL"} => Collects(x),
           NEW e, e = [d EXCEPT !.run = s]
    PROVE  /\ e \in Ledger /\ LedgerInv(e) /\ Behaves(x, d, e)
           /\ e.run = s /\ SameEvidence(d, e) /\ e.coverage = d.coverage
<1>1. /\ e \in Ledger /\ e.run = s /\ SameEvidence(d, e) /\ e.coverage = d.coverage
  BY RunWritten DEF RunStatuses, SameEvidence
<1>2. d.run \in RunStatuses
  BY LedgerFields
<1>3. /\ d.run \notin EndedRun
      /\ ~Begun(d) \/ Begun(e)
      /\ s \in EndedRun => d.run = "RUNNING" /\ AttemptsClosed(d)
      /\ s = "SUCCEEDED" => \A g \in Grains : d.attempt[g] = "SUCCEEDED"
      /\ s = "RUNNING" => d.run = "PREFLIGHT_PASSED"
      /\ s = "PREFLIGHT_PASSED" => d.run = "PLANNED"
  BY <1>1 DEF RunMayBecome, EndedRun, Begun
<1>4. LateInv(e)
  BY <1>1, <1>3 DEF LateInv, AttemptsClosed, SameEvidence
<1>5. /\ ~Begun(e) => ~Begun(d)
      /\ e.run = "SUCCEEDED" => Complete(e)
      /\ e.coverage # NoCoverage => e.run \in EndedRun
  BY <1>1, <1>3 DEF LedgerInv, Complete, SameEvidence
<1>6. LedgerInv(e)
  BY <1>1, <1>4, <1>5 DEF LedgerInv, Evident, SameEvidence
<1>7. Behaves(x, d, e)
  BY <1>1, <1>3 DEF Behaves, Grows, SameEvidence
<1> QED
  BY <1>1, <1>6, <1>7

(* A write to the attempt row of one grain by the collector.               *)
LEMMA AttemptKept ==
    ASSUME NEW x \in Memory, NEW d \in Ledger, LedgerInv(d), Collects(x), Begun(d),
           NEW g \in Grains, NEW s \in AttemptStatuses \ {"none"},
           d.attempt[g] \notin EndedAttempt,
           d.attempt[g] \notin {"none", "PLANNED"} => s # "PLANNED",
           s = "PLANNED" => d.attempt[g] = "none",
           d.attempt[g] = "none" => s = "PLANNED",
           d.attempt[g] = "none" /\ d.run \in EndedRun => Opened(d) = {} /\ g = Plan[1],
           s = "SUCCEEDED" => Evident(d, g),
           NEW e \in Ledger, AttemptIs(d, e, g, s)
    PROVE  LedgerInv(e) /\ Behaves(x, d, e)
<1>1. /\ e \in Ledger /\ e.run = d.run /\ e.pages = d.pages
      /\ e.observed = d.observed /\ e.coverage = d.coverage /\ e.attempt[g] = s
      /\ \A h \in Grains : h # g => e.attempt[h] = d.attempt[h]
  BY DEF AttemptIs
<1>2. d.attempt[g] \in AttemptStatuses
  BY LedgerFields
<1>3. d.attempt[g] # "SUCCEEDED" /\ Begun(e) /\ d.run # "SUCCEEDED"
  BY <1>1 DEF EndedAttempt, Begun, LedgerInv, Complete
<1>4. LateInv(e)
  <2>1. CASE d.attempt[g] = "none"
    BY <1>1, <2>1 DEF LateInv, Opened
  <2>2. CASE d.attempt[g] # "none"
    <3>1. d.attempt[g] \in OpenAttempt
      BY <1>2, <2>2 DEF AttemptStatuses
    <3>2. ~AttemptsClosed(d) /\ Opened(e) \subseteq Opened(d)
      BY <1>1, <2>2, <3>1 DEF AttemptsClosed, Opened
    <3> QED
      BY <1>1, <3>2 DEF LedgerInv, LateInv
  <2> QED
    BY <2>1, <2>2
<1>5. LedgerInv(e)
  <2>1. \A h \in Grains : e.attempt[h] = "SUCCEEDED" => Evident(e, h)
    BY <1>1 DEF LedgerInv, Evident
  <2>2. \A h \in Grains : e.attempt[h] = "none" => e.pages[h] = <<>>
    BY <1>1 DEF LedgerInv
  <2> QED
    BY <1>1, <1>3, <1>4, <2>1, <2>2 DEF LedgerInv
<1>6. Behaves(x, d, e)
  BY <1>1, <1>3 DEF Behaves, Grows
<1> QED
  BY <1>1, <1>5, <1>6

(* A page of evidence for an open attempt.                                 *)
LEMMA PageKept ==
    ASSUME NEW x \in Memory, NEW d \in Ledger, LedgerInv(d), Collects(x), Begun(d),
           NEW g \in Grains, d.attempt[g] \in OpenAttempt,
           NEW s \in {"SUCCEEDED", "PARTIAL"}, NEW e \in Ledger, PageIs(d, e, g, s)
    PROVE  LedgerInv(e) /\ Behaves(x, d, e)
<1>1. /\ e \in Ledger /\ e.run = d.run /\ e.attempt = d.attempt
      /\ e.observed = d.observed /\ e.coverage = d.coverage
      /\ Len(e.pages[g]) = Len(d.pages[g]) + 1
      /\ \A k \in 1..Len(d.pages[g]) : e.pages[g][k] = d.pages[g][k]
      /\ e.pages[g][Len(d.pages[g]) + 1] = s
      /\ \A h \in Grains : h # g => e.pages[h] = d.pages[h]
  BY DEF PageIs
<1>2. d.attempt[g] \notin {"none", "SUCCEEDED"}
  BY DEF OpenAttempt
<1>3. /\ \A h \in Grains : e.attempt[h] = "SUCCEEDED" => Evident(e, h)
      /\ \A h \in Grains : e.attempt[h] = "none" => e.pages[h] = <<>>
  <2> SUFFICES ASSUME NEW h \in Grains
               PROVE  /\ e.attempt[h] = "SUCCEEDED" => Evident(e, h)
                      /\ e.attempt[h] = "none" => e.pages[h] = <<>>
    OBVIOUS
  <2>1. e.attempt[h] \in {"none", "SUCCEEDED"} => e.pages[h] = d.pages[h]
    BY <1>1, <1>2
  <2> QED
    <3>1. d.attempt[h] = "SUCCEEDED" => Evident(d, h)
      BY DEF LedgerInv
    <3>2. d.attempt[h] = "none" => d.pages[h] = <<>>
      BY DEF LedgerInv
    <3> QED
      BY <1>1, <2>1, <3>1, <3>2 DEF Evident
<1>4. LedgerInv(e)
  BY <1>1, <1>3 DEF LedgerInv, LateInv, Opened, AttemptsClosed, Begun, Complete
<1>5. Behaves(x, d, e)
  BY <1>1 DEF Behaves, Grows, Begun
<1> QED
  BY <1>1, <1>4, <1>5

(* An observation.                                                         *)
LEMMA ObservationKept ==
    ASSUME NEW x \in Memory, NEW d \in Ledger, LedgerInv(d), Collects(x), Begun(d),
           NEW g \in Statistics, NEW e, e = [d EXCEPT !.observed = @ \cup {g}]
    PROVE  /\ e \in Ledger /\ LedgerInv(e) /\ Behaves(x, d, e)
           /\ e.run = d.run /\ e.attempt = d.attempt /\ e.pages = d.pages
           /\ e.observed = d.observed \cup {g}
<1>1. /\ e \in Ledger /\ e.run = d.run /\ e.attempt = d.attempt /\ e.pages = d.pages
      /\ e.observed = d.observed \cup {g} /\ e.coverage = d.coverage
  BY DEF Ledger
<1>2. LedgerInv(e)
  BY <1>1 DEF LedgerInv, LateInv, Opened, AttemptsClosed, Begun, Complete, Evident
<1>3. Behaves(x, d, e)
  BY <1>1 DEF Behaves, Grows, Begun
<1> QED
  BY <1>1, <1>2, <1>3

(* The coverage row: verified whenever it says complete without a reason.  *)
LEMMA CoverageKept ==
    ASSUME NEW x \in Memory, NEW d \in Ledger, LedgerInv(d),
           NEW r \in {"none", "failed", "PARTIAL", "FAILED"}, NEW v \in BOOLEAN,
           MayCover(d, r), r = "none" /\ Complete(d) => v, NEW e, e = Covered(d, r, v)
    PROVE  /\ e \in Ledger /\ LedgerInv(e) /\ Behaves(x, d, e)
           /\ e.run = d.run /\ SameEvidence(d, e)
           /\ r = "none" /\ Complete(d) =>
                e.coverage.complete /\ e.coverage.verified /\ e.coverage.reason = "none"
<1>1. CASE d.coverage # NoCoverage
  <2>1. e = d /\ d.coverage = CoverageOf(d, r, d.coverage.verified) /\ d.run \in EndedRun
    BY <1>1 DEF Covered, MayCover
  <2>2. d.coverage.complete = Complete(d) /\ d.coverage.reason = r
    BY <2>1 DEF CoverageOf
  <2> QED
    BY <2>1, <2>2, NothingWritten DEF LedgerInv, SameEvidence
<1>2. CASE d.coverage = NoCoverage
  <2> DEFINE c == CoverageOf(d, r, v)
  <2>1. /\ e = [d EXCEPT !.coverage = c] /\ d.run \in EndedRun
        /\ r = "none" => Complete(d)
    BY <1>2 DEF Covered, MayCover
  <2>2. c \in Coverage /\ c.complete = Complete(d) /\ c.reason = r /\ c.verified = v
    <3>1. {<<g, Len(d.pages[g])>> : g \in Grains} \in SUBSET (Grains \X Nat)
      BY LedgerFields
    <3>2. Complete(d) \in BOOLEAN
      BY DEF Complete
    <3> QED
      BY <3>1, <3>2 DEF CoverageOf, Coverage
  <2> HIDE DEF c
  <2>3. /\ e \in Ledger /\ e.run = d.run /\ SameEvidence(d, e) /\ e.coverage = c
    BY <2>1, <2>2 DEF Ledger, SameEvidence
  <2>4. LedgerInv(e)
    BY <2>1, <2>2, <2>3 DEF LedgerInv, LateInv, Opened, AttemptsClosed, Begun, Complete,
       Evident, SameEvidence
  <2>5. Behaves(x, d, e)
    BY <1>2, <2>3 DEF Behaves, Grows, Begun, SameEvidence
  <2> QED
    BY <2>1, <2>2, <2>3, <2>4, <2>5
<1> QED
  BY <1>1, <1>2

-----------------------------------------------------------------------------
(* The steps.                                                              *)

\* What a step of p leaves behind.
Advanced(p) ==
    /\ m' \in [Executions -> Memory] /\ \A q \in Executions \ {p} : m'[q] = m[q]
    /\ db' \in Ledger /\ LedgerInv(db') /\ Behaves(m[p], db, db')
    /\ faults' \in 0..MaxFaults /\ faults <= faults'
    /\ ExecutionInv(m'[p], db', faults')
    /\ m[p].own \subseteq m'[p].own
    /\ Collects(m'[p]) => Collects(m[p]) \/ ~Begun(db)
    /\ \A g \in Grains : db'.attempt[g] \notin {"none", "PLANNED"} =>
         db.attempt[g] \notin {"none", "PLANNED"} \/ g \in m'[p].own

(* The facts a step starts from.                                           *)
LEMMA Facts ==
    ASSUME CollectionInv, NEW p \in Executions
    PROVE  /\ m[p] \in Memory /\ m \in [Executions -> Memory] /\ db \in Ledger
           /\ faults \in Nat /\ faults \in 0..MaxFaults /\ MaxFaults \in Nat
           /\ LedgerInv(db) /\ ExecutionInv(m[p], db, faults)
           /\ CollectorInv(m[p], db) /\ OpeningInv(m[p], db) /\ AnswerInv(m[p], db)
           /\ OutcomeInv(m[p], db) /\ ClosingInv(m[p], db)
           /\ FailingInv(m[p], db, faults) /\ ConcludedInv(m[p], db)
BY PlanAssumption DEF CollectionInv, TypeInv, ExecutionInv

(* A step is made of what it writes and the memory it leaves.              *)
LEMMA Advances ==
    ASSUME CollectionInv, NEW p \in Executions, NEW y \in Memory, m' = [m EXCEPT ![p] = y],
           db' \in Ledger, LedgerInv(db'), Behaves(m[p], db, db'),
           faults' = faults \/ (faults < MaxFaults /\ faults' = faults + 1),
           ExecutionInv(y, db', faults'), m[p].own \subseteq y.own,
           Collects(y) => Collects(m[p]) \/ ~Begun(db),
           \A g \in Grains : db'.attempt[g] \notin {"none", "PLANNED"} =>
             db.attempt[g] \notin {"none", "PLANNED"} \/ g \in y.own
    PROVE  Advanced(p)
<1>1. /\ m' \in [Executions -> Memory] /\ m'[p] = y
      /\ \A q \in Executions \ {p} : m'[q] = m[q]
  BY Facts
<1>2. faults' \in 0..MaxFaults /\ faults <= faults'
  BY Facts
<1> QED
  BY <1>1, <1>2 DEF Advanced

(* A step that leaves the attempts alone and moves on.                     *)
LEMMA AdvancesOnly ==
    ASSUME CollectionInv, NEW p \in Executions, NEW y \in Memory, m' = [m EXCEPT ![p] = y],
           db' \in Ledger, LedgerInv(db'), Behaves(m[p], db, db'),
           faults' = faults \/ (faults < MaxFaults /\ faults' = faults + 1),
           ExecutionInv(y, db', faults'), m[p].own = y.own,
           y.pc \in {"begin", "inserting", "run"} =>
               m[p].pc \in {"begin", "inserting", "run"} \/ ~Begun(db),
           db'.attempt = db.attempt
    PROVE  Advanced(p)
<1>1. Collects(y) => Collects(m[p]) \/ ~Begun(db)
  BY DEF Collects
<1> QED
  BY <1>1, Advances

(* Before an execution has the run RUNNING it owns nothing, and it may     *)
(* move on over any ledger.                                                *)
LEMMA ToEarly ==
    ASSUME NEW x \in Memory, NEW d \in Ledger, NEW e \in Ledger, NEW f \in Nat,
           AnswerInv(x, d), x.own = {}, x.page = 1, Untouched(x),
           NEW c \in {"creating", "preflight", "start"}, NEW y, y = [x EXCEPT !.pc = c]
    PROVE  y \in Memory /\ y.own = {} /\ ExecutionInv(y, e, f)
<1>1. /\ y \in Memory /\ y.pc = c /\ y.page = 1 /\ y.own = {}
      /\ y.got = x.got /\ y.synced = x.synced /\ y.outcome = x.outcome
  BY DEF Memory, Counters
<1>2. Untouched(y) /\ ~Collects(y)
  BY <1>1 DEF Untouched, Collects
<1>3. CollectorInv(y, e)
  BY <1>1, <1>2 DEF CollectorInv
<1>4. AnswerInv(y, e) /\ OutcomeInv(y, e)
  BY <1>1, <1>2 DEF AnswerInv, OutcomeInv, Untouched
<1>5. OpeningInv(y, e) /\ ClosingInv(y, e) /\ FailingInv(y, e, f) /\ ConcludedInv(y, e)
  BY <1>1 DEF OpeningInv, ClosingInv, FailingInv, ConcludedInv
<1> QED
  BY <1>1, <1>3, <1>4, <1>5 DEF ExecutionInv

(* The execution that moved the run to RUNNING finds no attempt.           *)
LEMMA ToOpening ==
    ASSUME NEW x \in Memory, NEW d \in Ledger, NEW e \in Ledger, NEW f \in Nat,
           AnswerInv(x, d), x.own = {}, x.page = 1, Untouched(x),
           e.run = "RUNNING", \A g \in Grains : e.attempt[g] = "none" /\ e.pages[g] = <<>>,
           NEW y, y = [x EXCEPT !.pc = "begin", !.i = 1]
    PROVE  y \in Memory /\ y.own = {} /\ ExecutionInv(y, e, f)
<1>1. /\ y \in Memory /\ y.pc = "begin" /\ y.i = 1 /\ y.page = 1 /\ y.own = {}
      /\ y.got = x.got /\ y.synced = x.synced /\ y.outcome = x.outcome
  BY DEF Memory, Counters
<1>2. Untouched(y)
  BY <1>1 DEF Untouched
<1>3. CollectorInv(y, e)
  BY <1>1, <1>2 DEF CollectorInv, Begun, EndedRun
<1>4. AnswerInv(y, e) /\ OutcomeInv(y, e)
  BY <1>1, <1>2 DEF AnswerInv, OutcomeInv, Untouched
<1>5. OpeningInv(y, e)
  BY <1>1, <1>2, PlanFacts DEF OpeningInv
<1>6. ClosingInv(y, e) /\ FailingInv(y, e, f) /\ ConcludedInv(y, e)
  BY <1>1 DEF ClosingInv, FailingInv, ConcludedInv
<1> QED
  BY <1>1, <1>3, <1>4, <1>5, <1>6 DEF ExecutionInv

(* A call of the first phase that fails, written or not.                   *)
LEMMA StopsOpening ==
    ASSUME CollectionInv, NEW p \in Executions, m' = [m EXCEPT ![p] = SyncError(p)],
           db' \in Ledger, LedgerInv(db'), Behaves(m[p], db, db'), OpenOnly(m[p], db'),
           faults' = faults \/ (faults < MaxFaults /\ faults' = faults + 1),
           \A g \in Grains : db'.attempt[g] \notin {"none", "PLANNED"} =>
             db.attempt[g] \notin {"none", "PLANNED"} \/ g \in m[p].own
    PROVE  Advanced(p)
<1>1. faults' \in Nat /\ m[p] \in Memory /\ AnswerInv(m[p], db) /\ db \in Ledger
  BY Facts
<1>2. PICK y : y = SyncError(p)
  OBVIOUS
<1>3. y = [m[p] EXCEPT !.pc = "closing", !.i = 1, !.error = TRUE]
  BY <1>2 DEF SyncError
<1>4. y \in Memory /\ y.own = m[p].own /\ ExecutionInv(y, db', faults')
  BY <1>1, <1>3, ToClosing
<1>5. y.pc = "closing"
  BY <1>1, <1>3 DEF Memory
<1>6. Collects(y) => Collects(m[p])
  BY <1>4, <1>5 DEF Collects
<1> QED
  BY <1>2, <1>4, <1>6, Advances

(* The steps up to the run RUNNING.                                        *)
LEMMA EarlySteps ==
    ASSUME CollectionInv, NEW p \in Executions,
           CreateRun(p) \/ InsertRun(p) \/ Preflight(p) \/ Start(p)
    PROVE  Advanced(p)
<1>0. m[p].pc \in {"create", "creating", "preflight", "start"}
  BY DEF CreateRun, InsertRun, Preflight, Start, TransitionRun
<1>1. m[p].own = {} /\ m[p].page = 1 /\ Untouched(m[p]) /\ ~Collects(m[p])
  BY <1>0, Facts DEF CollectorInv, Collects
<1>2. OpenOnly(m[p], db')
  BY <1>1 DEF OpenOnly
<1>3. ASSUME db' \in Ledger, LedgerInv(db'), Behaves(m[p], db, db'),
             db'.attempt = db.attempt, m' = [m EXCEPT ![p] = SyncError(p)],
             faults' = faults \/ (faults < MaxFaults /\ faults' = faults + 1)
      PROVE  Advanced(p)
  BY <1>2, <1>3, StopsOpening
<1>4. ASSUME db' \in Ledger, LedgerInv(db'), Behaves(m[p], db, db'),
             db'.attempt = db.attempt, faults' = faults,
             NEW c \in {"creating", "preflight", "start"}, m' = [m EXCEPT ![p] = Goto(p, c)]
      PROVE  Advanced(p)
  <2>1. /\ Goto(p, c) \in Memory /\ Goto(p, c).own = m[p].own
        /\ ExecutionInv(Goto(p, c), db', faults')
    BY <1>1, <1>4, Facts, ToEarly DEF Goto
  <2>2. Goto(p, c).pc = c
    BY Facts DEF Goto, Memory
  <2> QED
    BY <1>4, <2>1, <2>2, AdvancesOnly
<1>5. LedgerInv(db) /\ Behaves(m[p], db, db) /\ db \in Ledger
  BY Facts, NothingWritten
<1>6. ASSUME NEW s \in {"PLANNED", "PREFLIGHT_PASSED", "RUNNING"}, db' = [db EXCEPT !.run = s],
             IF s = "PLANNED" THEN db.run = "none" ELSE RunMayBecome(db, s)
      PROVE  /\ db' \in Ledger /\ LedgerInv(db') /\ Behaves(m[p], db, db')
             /\ db'.attempt = db.attempt /\ db'.pages = db.pages /\ db'.run = s
  BY <1>6, Facts, RunKept DEF SameEvidence
<1>7. CASE CreateRun(p)
  <2>1. \/ m' = [m EXCEPT ![p] = Goto(p, "creating")] /\ faults' = faults
        \/ m' = [m EXCEPT ![p] = Goto(p, "preflight")] /\ faults' = faults
        \/ /\ m' = [m EXCEPT ![p] = SyncError(p)]
           /\ faults' = faults \/ (faults < MaxFaults /\ faults' = faults + 1)
    BY <1>7 DEF CreateRun, Call
  <2>2. db' = db
    BY <1>7 DEF CreateRun, Call
  <2> QED
    BY <1>3, <1>4, <1>5, <2>1, <2>2
<1>8. CASE InsertRun(p)
  <2>1. \/ m' = [m EXCEPT ![p] = Goto(p, "preflight")] /\ faults' = faults
        \/ /\ m' = [m EXCEPT ![p] = SyncError(p)]
           /\ faults' = faults \/ (faults < MaxFaults /\ faults' = faults + 1)
    BY <1>8 DEF InsertRun, Call
  <2>2. db' = db \/ (db.run = "none" /\ db' = [db EXCEPT !.run = "PLANNED"])
    <3> DEFINE free == db.run = "none"
               new == [db EXCEPT !.run = "PLANNED"]
    <3>1. Call(p, free, new, Goto(p, "preflight"), SyncError(p))
      BY <1>8 DEF InsertRun
    <3> HIDE DEF free, new
    <3>2. db' = db \/ (free /\ db' = new)
      BY <3>1 DEF Call
    <3> QED
      BY <3>2 DEF free, new
  <2> QED
    BY <1>3, <1>4, <1>5, <1>6, <2>1, <2>2
<1>9. CASE Preflight(p)
  <2>1. \/ m' = [m EXCEPT ![p] = Goto(p, "start")] /\ faults' = faults
        \/ /\ m' = [m EXCEPT ![p] = SyncError(p)]
           /\ faults' = faults \/ (faults < MaxFaults /\ faults' = faults + 1)
    BY <1>9 DEF Preflight, TransitionRun, Call
  <2>2. \/ db' = db
        \/ RunMayBecome(db, "PREFLIGHT_PASSED") /\ db' = [db EXCEPT !.run = "PREFLIGHT_PASSED"]
    BY <1>9 DEF Preflight, TransitionRun, Call
  <2> QED
    BY <1>3, <1>4, <1>5, <1>6, <2>1, <2>2
<1>10. CASE Start(p)
  <2> DEFINE y == [m[p] EXCEPT !.pc = "begin", !.i = 1]
  <2>1. \/ /\ m' = [m EXCEPT ![p] = y] /\ faults' = faults
           /\ RunMayBecome(db, "RUNNING") /\ db' = [db EXCEPT !.run = "RUNNING"]
        \/ /\ m' = [m EXCEPT ![p] = SyncError(p)]
           /\ faults' = faults \/ (faults < MaxFaults /\ faults' = faults + 1)
    BY <1>10 DEF Start, TransitionRun, Call
  <2>2. \/ db' = db
        \/ RunMayBecome(db, "RUNNING") /\ db' = [db EXCEPT !.run = "RUNNING"]
    BY <1>10 DEF Start, TransitionRun, Call
  <2>3. CASE /\ m' = [m EXCEPT ![p] = y] /\ faults' = faults
             /\ RunMayBecome(db, "RUNNING") /\ db' = [db EXCEPT !.run = "RUNNING"]
    <3>1. /\ db' \in Ledger /\ LedgerInv(db') /\ Behaves(m[p], db, db')
          /\ db'.attempt = db.attempt /\ db'.pages = db.pages /\ db'.run = "RUNNING"
      BY <1>6, <2>3
    <3>2. ~Begun(db)
      BY <2>3 DEF RunMayBecome, Begun, EndedRun
    <3>3. \A g \in Grains : db'.attempt[g] = "none" /\ db'.pages[g] = <<>>
      BY <3>1, <3>2, Facts DEF LedgerInv
    <3>4. y \in Memory /\ y.own = m[p].own /\ ExecutionInv(y, db', faults')
      BY <1>1, <2>3, <3>1, <3>3, Facts, ToOpening
    <3> HIDE DEF y
    <3> QED
      BY <2>3, <3>1, <3>2, <3>4, AdvancesOnly
  <2>4. CASE /\ m' = [m EXCEPT ![p] = SyncError(p)]
             /\ faults' = faults \/ (faults < MaxFaults /\ faults' = faults + 1)
    BY <1>3, <1>5, <1>6, <2>2, <2>4
  <2> QED
    BY <2>1, <2>3, <2>4
<1> QED
  BY <1>7, <1>8, <1>9, <1>10

(* Whatever stops the opening finds every owned grain open and empty.      *)
LEMMA OpenHere ==
    ASSUME NEW x \in Memory, NEW d \in Ledger, OpeningInv(x, d), CollectorInv(x, d),
           x.pc \in {"begin", "inserting", "run"}
    PROVE  OpenOnly(x, d) /\ Begun(d) /\ Collects(x) /\ d.run \notin {"SUCCEEDED", "PARTIAL"}
<1>1. Collects(x)
  BY DEF Collects
<1>2. Begun(d) /\ d.run \notin {"SUCCEEDED", "PARTIAL"}
  BY <1>1 DEF CollectorInv, Ended
<1>3. \A g \in x.own : d.attempt[g] \in OpenAttempt /\ d.pages[g] = <<>>
  <2> SUFFICES ASSUME NEW g \in x.own
               PROVE  d.attempt[g] \in OpenAttempt /\ d.pages[g] = <<>>
    OBVIOUS
  <2>1. g \in Grains
    BY MemoryFields
  <2>2. PICK j \in 1..Len(Plan) : Plan[j] = g
    BY <2>1, PlanFacts
  <2>3. x.i \in Nat /\ j \in Nat
    BY MemoryFields, PlanFacts
  <2>4. d.attempt[g] \in {"PLANNED", "RUNNING"} /\ d.pages[g] = <<>>
    BY <2>1, <2>2, <2>3 DEF OpeningInv
  <2> QED
    BY <2>4 DEF OpenAttempt
<1> QED
  BY <1>1, <1>2, <1>3 DEF OpenOnly, OpeningInv

(* beginAttempt finds the run still open, or stops.                        *)
LEMMA BeginAttemptStep ==
    ASSUME CollectionInv, NEW p \in Executions, BeginAttempt(p)
    PROVE  Advanced(p)
<1>0. /\ m[p].pc = "begin" /\ m[p].i <= Len(Plan) /\ db' = db /\ faults' = faults
      /\ m' = [m EXCEPT ![p] = IF db.run \in EndedRun THEN SyncError(p)
                                                      ELSE Goto(p, "inserting")]
  BY DEF BeginAttempt
<1>1. OpenOnly(m[p], db) /\ LedgerInv(db) /\ Behaves(m[p], db, db)
  BY <1>0, Facts, OpenHere, NothingWritten
<1>2. CASE db.run \in EndedRun
  <2>1. m' = [m EXCEPT ![p] = SyncError(p)]
    BY <1>0, <1>2
  <2> QED
    BY <1>0, <1>1, <2>1, Facts, StopsOpening
<1>3. CASE db.run \notin EndedRun
  <2>1. m' = [m EXCEPT ![p] = Goto(p, "inserting")]
    BY <1>0, <1>3
  <2>2. PICK y : y = Goto(p, "inserting")
    OBVIOUS
  <2>3. /\ y \in Memory /\ y.pc = "inserting" /\ y.i = m[p].i /\ y.page = m[p].page
        /\ y.own = m[p].own /\ y.got = m[p].got /\ y.synced = m[p].synced
        /\ y.outcome = m[p].outcome
    BY <2>2, Facts DEF Goto, Memory, Counters
  <2>4. CollectorInv(y, db) /\ AnswerInv(y, db) /\ OutcomeInv(y, db)
    BY <1>0, <2>3, Facts DEF CollectorInv, AnswerInv, OutcomeInv, GatesHeld, Collects,
       Untouched, Ended
  <2>5. OpeningInv(y, db)
    BY <1>0, <1>3, <2>3, Facts DEF OpeningInv, Untouched
  <2>6. ClosingInv(y, db) /\ FailingInv(y, db, faults) /\ ConcludedInv(y, db)
    BY <2>3 DEF ClosingInv, FailingInv, ConcludedInv
  <2>7. ExecutionInv(y, db', faults')
    BY <1>0, <2>4, <2>5, <2>6 DEF ExecutionInv
  <2> QED
    BY <1>0, <1>1, <2>1, <2>2, <2>3, <2>7, Facts, AdvancesOnly
<1> QED
  BY <1>2, <1>3

(* The attempt inserted is the collector's next one.                       *)
LEMMA InsertAttemptStep ==
    ASSUME CollectionInv, NEW p \in Executions, InsertAttempt(p)
    PROVE  Advanced(p)
<1>1. PICK g : g = Plan[m[p].i]
  OBVIOUS
<1>2. PICK y : y = [m[p] EXCEPT !.pc = "run", !.own = @ \cup {g}]
  OBVIOUS
<1>3. PICK e : e = [db EXCEPT !.attempt[g] = "PLANNED"]
  OBVIOUS
<1>4. m[p].pc = "inserting" /\ m[p].i \in 1..Len(Plan) /\ g \in Grains /\ m[p].i \in Nat
  BY <1>1, Facts, PlanFacts DEF InsertAttempt, OpeningInv
<1>5. db.attempt[g] = "none" /\ g \notin m[p].own
  BY <1>1, <1>4, Facts, PlanFacts DEF OpeningInv
<1>6. \/ m' = [m EXCEPT ![p] = y] /\ db' = e /\ faults' = faults
      \/ /\ m' = [m EXCEPT ![p] = SyncError(p)] /\ db' \in {db, e}
         /\ faults' = faults \/ (faults < MaxFaults /\ faults' = faults + 1)
  BY <1>1, <1>2, <1>3, <1>5 DEF InsertAttempt, Call
<1>7. OpenOnly(m[p], db) /\ Begun(db) /\ Collects(m[p])
      /\ db.run \notin {"SUCCEEDED", "PARTIAL"}
  BY <1>4, Facts, OpenHere
<1>8. db.run \in EndedRun => Opened(db) = {} /\ g = Plan[1]
  <2> SUFFICES ASSUME db.run \in EndedRun PROVE Opened(db) = {} /\ g = Plan[1]
    OBVIOUS
  <2>1. m[p].i = 1
    BY <1>4, Facts DEF OpeningInv
  <2>2. \A j \in 1..Len(Plan) : db.attempt[Plan[j]] = "none"
    BY <1>4, <2>1, Facts, PlanFacts DEF OpeningInv
  <2>3. \A h \in Grains : db.attempt[h] = "none"
    BY <2>2, PlanFacts
  <2> QED
    BY <1>1, <2>1, <2>3 DEF Opened
<1>9. /\ e \in Ledger /\ LedgerInv(e) /\ Behaves(m[p], db, e)
      /\ e.run = db.run /\ e.pages = db.pages /\ e.observed = db.observed
      /\ e.attempt[g] = "PLANNED" /\ \A h \in Grains : h # g => e.attempt[h] = db.attempt[h]
  <2>1. PICK s : s = "PLANNED"
    OBVIOUS
  <2>2. s \in AttemptStatuses \ {"none"}
    BY <2>1 DEF AttemptStatuses, OpenAttempt
  <2>3. "none" \notin EndedAttempt
    BY DEF EndedAttempt
  <2>4. e = [db EXCEPT !.attempt[g] = s]
    BY <1>3, <2>1
  <2>5. s # "SUCCEEDED"
    BY <2>1
  <2>6. /\ e \in Ledger /\ LedgerInv(e) /\ Behaves(m[p], db, e)
        /\ e.run = db.run /\ e.pages = db.pages /\ e.observed = db.observed
        /\ e.attempt[g] = s /\ \A h \in Grains : h # g => e.attempt[h] = db.attempt[h]
    <3>1. e \in Ledger /\ AttemptIs(db, e, g, s)
      BY <1>4, <2>2, <2>4, Facts, AttemptWritten
    <3>2. LedgerInv(e) /\ Behaves(m[p], db, e)
      BY <1>4, <1>5, <1>7, <1>8, <2>1, <2>2, <2>3, <2>5, <3>1, Facts, AttemptKept
    <3> QED
      BY <3>1, <3>2 DEF AttemptIs
  <2> QED
    BY <2>1, <2>6
<1>10. CASE m' = [m EXCEPT ![p] = y] /\ db' = e /\ faults' = faults
  <2>1. /\ y \in Memory /\ y.pc = "run" /\ y.i = m[p].i /\ y.page = m[p].page
        /\ y.own = m[p].own \cup {g} /\ y.got = m[p].got /\ y.synced = m[p].synced
        /\ y.outcome = m[p].outcome
    BY <1>2, <1>4, Facts DEF Memory, Counters
  <2>2. Untouched(y) /\ Begun(e)
    BY <1>4, <1>7, <1>9, <2>1, Facts DEF OpeningInv, Untouched, Begun
  <2>3. CollectorInv(y, e)
    BY <1>7, <1>9, <2>1, <2>2 DEF CollectorInv
  <2>4. AnswerInv(y, e)
    BY <2>1, <2>2, Facts DEF AnswerInv, Untouched
  <2>5. OutcomeInv(y, e)
    <3>1. \A h \in Grains : h \in y.own => e.attempt[h] \in OpenAttempt
      BY <1>7, <1>9, <2>1 DEF OpenOnly, OpenAttempt
    <3> QED
      BY <2>2, <3>1 DEF OutcomeInv, Untouched, OpenAttempt
  <2>6. OpeningInv(y, e)
    <3>1. ASSUME NEW j \in 1..Len(Plan)
          PROVE  LET a == e.attempt[Plan[j]]  mine == Plan[j] \in y.own
                 IN  /\ j < y.i => a = "RUNNING" /\ mine
                     /\ j = y.i => IF y.pc = "run" THEN a = "PLANNED" /\ mine
                                                   ELSE a = "none" /\ ~mine
                     /\ j > y.i => a = "none" /\ ~mine
      <4>1. CASE j = y.i
        BY <1>1, <1>9, <2>1, <4>1
      <4>2. CASE j # y.i
        <5>1. Plan[j] # g /\ Plan[j] \in Grains
          BY <1>1, <1>4, <2>1, <4>2, PlanFacts
        <5>2. /\ j < m[p].i => db.attempt[Plan[j]] = "RUNNING" /\ Plan[j] \in m[p].own
              /\ j > m[p].i => db.attempt[Plan[j]] = "none" /\ Plan[j] \notin m[p].own
          BY <1>4, Facts DEF OpeningInv
        <5> QED
          BY <1>9, <2>1, <4>2, <5>1, <5>2
      <4> QED
        BY <4>1, <4>2
    <3>2. y.page = 1 /\ (\A h \in Grains : e.pages[h] = <<>>) /\ y.i \in 1..Len(Plan) + 1
          /\ y.i <= Len(Plan)
      BY <1>4, <1>9, <2>1, Facts, PlanFacts DEF OpeningInv
    <3> QED
      BY <2>1, <2>2, <3>1, <3>2 DEF OpeningInv
  <2>7. ClosingInv(y, e) /\ FailingInv(y, e, faults) /\ ConcludedInv(y, e)
    BY <2>1 DEF ClosingInv, FailingInv, ConcludedInv
  <2>8. ExecutionInv(y, db', faults')
    BY <1>10, <2>3, <2>4, <2>5, <2>6, <2>7 DEF ExecutionInv
  <2>9. \A h \in Grains : db'.attempt[h] \notin {"none", "PLANNED"} =>
           db.attempt[h] \notin {"none", "PLANNED"} \/ h \in y.own
    BY <1>9, <1>10
  <2> QED
    BY <1>7, <1>9, <1>10, <2>1, <2>8, <2>9, Advances
<1>11. CASE /\ m' = [m EXCEPT ![p] = SyncError(p)] /\ db' \in {db, e}
            /\ faults' = faults \/ (faults < MaxFaults /\ faults' = faults + 1)
  <2>1. OpenOnly(m[p], e)
    BY <1>5, <1>7, <1>9, Facts, MemoryFields DEF OpenOnly, Begun
  <2>2. /\ db' \in Ledger /\ LedgerInv(db') /\ Behaves(m[p], db, db')
        /\ OpenOnly(m[p], db')
    BY <1>7, <1>9, <1>11, <2>1, Facts, NothingWritten
  <2>3. \A h \in Grains : db'.attempt[h] \notin {"none", "PLANNED"} =>
           db.attempt[h] \notin {"none", "PLANNED"} \/ h \in m[p].own
    BY <1>9, <1>11
  <2> QED
    BY <1>11, <2>2, <2>3, StopsOpening
<1> QED
  BY <1>6, <1>10, <1>11

(* The attempt it inserted is PLANNED, and becomes RUNNING.                *)
LEMMA RunAttemptStep ==
    ASSUME CollectionInv, NEW p \in Executions, RunAttempt(p)
    PROVE  Advanced(p)
<1>1. PICK g : g = Plan[m[p].i]
  OBVIOUS
<1>2. PICK y : y = [m[p] EXCEPT !.pc = "begin", !.i = @ + 1]
  OBVIOUS
<1>3. PICK s : s = "RUNNING"
  OBVIOUS
<1>4. PICK e : e = [db EXCEPT !.attempt[g] = s]
  OBVIOUS
<1>5. m[p].pc = "run" /\ m[p].i \in 1..Len(Plan) /\ g \in Grains /\ m[p].i \in Nat
  BY <1>1, Facts, PlanFacts DEF RunAttempt, OpeningInv
<1>6. db.attempt[g] = "PLANNED" /\ g \in m[p].own
  BY <1>1, <1>5, Facts, PlanFacts DEF OpeningInv
<1>7. \/ m' = [m EXCEPT ![p] = y] /\ db' = e /\ faults' = faults
      \/ /\ m' = [m EXCEPT ![p] = SyncError(p)] /\ db' \in {db, e}
         /\ faults' = faults \/ (faults < MaxFaults /\ faults' = faults + 1)
  BY <1>1, <1>2, <1>3, <1>4, <1>6 DEF RunAttempt, Call, AttemptMayBecome
<1>8. OpenOnly(m[p], db) /\ Begun(db) /\ Collects(m[p])
      /\ db.run \notin {"SUCCEEDED", "PARTIAL"}
  BY <1>5, Facts, OpenHere
<1>9. /\ e \in Ledger /\ LedgerInv(e) /\ Behaves(m[p], db, e)
      /\ e.run = db.run /\ e.pages = db.pages /\ e.observed = db.observed
      /\ e.attempt[g] = "RUNNING" /\ \A h \in Grains : h # g => e.attempt[h] = db.attempt[h]
  <2>1. s \in AttemptStatuses \ {"none"} /\ s # "SUCCEEDED" /\ s # "PLANNED"
    BY <1>3 DEF AttemptStatuses, OpenAttempt
  <2>2. "PLANNED" \notin EndedAttempt
    BY DEF EndedAttempt
  <2> QED
    <3>1. e \in Ledger /\ AttemptIs(db, e, g, s)
      BY <1>4, <1>5, <2>1, Facts, AttemptWritten
    <3>2. LedgerInv(e) /\ Behaves(m[p], db, e)
      BY <1>5, <1>6, <1>8, <2>1, <2>2, <3>1, Facts, AttemptKept
    <3> QED
      BY <1>3, <3>1, <3>2 DEF AttemptIs
<1>10. \A h \in Grains : db'.attempt[h] \notin {"none", "PLANNED"} =>
          db.attempt[h] \notin {"none", "PLANNED"} \/ h \in m[p].own
  BY <1>6, <1>7, <1>9
<1>11. CASE m' = [m EXCEPT ![p] = y] /\ db' = e /\ faults' = faults
  <2>1. /\ y \in Memory /\ y.pc = "begin" /\ y.i = m[p].i + 1 /\ y.page = m[p].page
        /\ y.own = m[p].own /\ y.got = m[p].got /\ y.synced = m[p].synced
        /\ y.outcome = m[p].outcome
    <3>1. m[p] \in Memory /\ m[p].i + 1 \in Nat
      BY <1>5, Facts
    <3> QED
      BY <1>2, <3>1 DEF Memory, Counters
  <2>2. Untouched(y) /\ Begun(e) /\ Collects(y)
    BY <1>5, <1>8, <1>9, <2>1, Facts DEF OpeningInv, Untouched, Begun, Collects
  <2>3. CollectorInv(y, e)
    BY <1>8, <1>9, <2>1, <2>2 DEF CollectorInv
  <2>4. AnswerInv(y, e)
    BY <2>1, <2>2, Facts DEF AnswerInv, Untouched
  <2>5. OutcomeInv(y, e)
    <3>1. \A h \in Grains : h \in y.own => e.attempt[h] \in OpenAttempt
      BY <1>8, <1>9, <2>1 DEF OpenOnly, OpenAttempt
    <3> QED
      BY <2>2, <3>1 DEF OutcomeInv, Untouched, OpenAttempt
  <2>6. OpeningInv(y, e)
    <3>1. ASSUME NEW j \in 1..Len(Plan)
          PROVE  LET a == e.attempt[Plan[j]]  mine == Plan[j] \in y.own
                 IN  /\ j < y.i => a = "RUNNING" /\ mine
                     /\ j = y.i => IF y.pc = "run" THEN a = "PLANNED" /\ mine
                                                   ELSE a = "none" /\ ~mine
                     /\ j > y.i => a = "none" /\ ~mine
      <4>0. j \in Nat
        BY PlanFacts
      <4>1. CASE j = m[p].i
        BY <1>1, <1>5, <1>6, <1>9, <2>1, <4>0, <4>1
      <4>2. CASE j # m[p].i
        <5>1. Plan[j] # g /\ Plan[j] \in Grains
          BY <1>1, <1>5, <4>2, PlanFacts
        <5>2. /\ j < m[p].i => db.attempt[Plan[j]] = "RUNNING" /\ Plan[j] \in m[p].own
              /\ j > m[p].i => db.attempt[Plan[j]] = "none" /\ Plan[j] \notin m[p].own
          BY <1>5, Facts DEF OpeningInv
        <5> QED
          BY <1>5, <1>9, <2>1, <4>0, <4>2, <5>1, <5>2
      <4> QED
        BY <4>1, <4>2
    <3>2. y.page = 1 /\ (\A h \in Grains : e.pages[h] = <<>>) /\ y.i \in 1..Len(Plan) + 1
      BY <1>5, <1>9, <2>1, Facts, PlanFacts DEF OpeningInv
    <3> QED
      BY <2>1, <2>2, <3>1, <3>2 DEF OpeningInv
  <2>7. ClosingInv(y, e) /\ FailingInv(y, e, faults) /\ ConcludedInv(y, e)
    BY <2>1 DEF ClosingInv, FailingInv, ConcludedInv
  <2>8. ExecutionInv(y, db', faults')
    BY <1>11, <2>3, <2>4, <2>5, <2>6, <2>7 DEF ExecutionInv
  <2> QED
    BY <1>8, <1>9, <1>10, <1>11, <2>1, <2>8, Advances
<1>12. CASE /\ m' = [m EXCEPT ![p] = SyncError(p)] /\ db' \in {db, e}
            /\ faults' = faults \/ (faults < MaxFaults /\ faults' = faults + 1)
  <2>1. OpenOnly(m[p], e)
    BY <1>6, <1>8, <1>9, Facts, MemoryFields DEF OpenOnly, Begun, OpenAttempt
  <2>2. /\ db' \in Ledger /\ LedgerInv(db') /\ Behaves(m[p], db, db')
        /\ OpenOnly(m[p], db')
    BY <1>8, <1>9, <1>12, <2>1, Facts, NothingWritten
  <2> QED
    BY <1>10, <1>12, <2>2, StopsOpening
<1> QED
  BY <1>7, <1>11, <1>12

(* The sync finds every grain RUNNING and the collector's own.             *)
LEMMA SyncStep ==
    ASSUME CollectionInv, NEW p \in Executions, Sync(p)
    PROVE  Advanced(p)
<1>1. PICK got \in [Grains -> Answer], ok \in BOOLEAN :
         /\ \A g \in Statistics : got[g].pages <= 1 /\ got[g].clean
         /\ \A g \in Grains : ok \/ ~got[g].gates
         /\ m' = [m EXCEPT ![p] = [@ EXCEPT !.pc = "closing", !.i = 1,
                      !.got = got, !.synced = ok, !.error = ~ok]]
         /\ db' = db /\ faults' = faults
  BY DEF Sync
<1>2. PICK y : y = [m[p] EXCEPT !.pc = "closing", !.i = 1, !.got = got, !.synced = ok,
                                !.error = ~ok]
  OBVIOUS
<1>3. m' = [m EXCEPT ![p] = y]
  BY <1>1, <1>2, Facts
<1>4. m[p].pc = "begin" /\ m[p].i = Len(Plan) + 1 /\ m[p].i \in Nat
  BY Facts, PlanFacts DEF Sync, OpeningInv
<1>5. \A j \in 1..Len(Plan) : db.attempt[Plan[j]] = "RUNNING" /\ Plan[j] \in m[p].own
  BY <1>4, Facts, PlanFacts DEF OpeningInv
<1>6. m[p].own = Grains /\ Grains # {} /\ \A g \in Grains : db.attempt[g] = "RUNNING"
  <2>1. m[p].own \subseteq Grains
    BY Facts, MemoryFields
  <2>2. ASSUME NEW g \in Grains PROVE g \in m[p].own /\ db.attempt[g] = "RUNNING"
    BY <1>5, PlanFacts
  <2>3. Plan[1] \in Grains
    BY PlanFacts
  <2> QED
    BY <2>1, <2>2, <2>3
<1>7. OpenOnly(m[p], db) /\ Begun(db) /\ Collects(m[p])
      /\ db.run \notin {"SUCCEEDED", "PARTIAL"}
  BY <1>4, Facts, OpenHere
<1>8. /\ y \in Memory /\ y.pc = "closing" /\ y.i = 1 /\ y.page = 1
      /\ y.own = m[p].own /\ y.got = got /\ y.synced = ok
      /\ y.outcome = m[p].outcome
  BY <1>2, <1>7, Facts DEF Memory, Counters, OpenOnly
<1>9. \A g \in Grains : y.outcome[g] = "none" /\ y.got[g].pages \in Nat
  BY <1>7, <1>8, MemoryFields DEF OpenOnly, Untouched
<1>10. CollectorInv(y, db)
  BY <1>6, <1>7, <1>8 DEF CollectorInv
<1>11. AnswerInv(y, db)
  BY <1>1, <1>6, <1>8 DEF AnswerInv
<1>12. OutcomeInv(y, db)
  BY <1>6, <1>8, <1>9 DEF OutcomeInv
<1>13. ClosingInv(y, db)
  BY <1>7, <1>8, <1>9, PlanFacts, EmptySeq DEF ClosingInv, OpenOnly
<1>14. OpeningInv(y, db) /\ FailingInv(y, db, faults) /\ ConcludedInv(y, db)
  BY <1>8 DEF OpeningInv, FailingInv, ConcludedInv
<1>15. ExecutionInv(y, db', faults')
  BY <1>1, <1>10, <1>11, <1>12, <1>13, <1>14 DEF ExecutionInv
<1> QED
  BY <1>1, <1>3, <1>8, <1>15, Facts, NothingWritten, AdvancesOnly

(* What an execution knows agrees with the ledger.                         *)
LEMMA ConsistentHere ==
    ASSUME CollectionInv, NEW p \in Executions
    PROVE  /\ Consistent(m[p], db)
           /\ m[p].own # {} /\ m[p].pc \in {"closing", "observe", "failing"} =>
                db.run \notin {"SUCCEEDED", "PARTIAL"}
BY Facts DEF Consistent, CollectorInv, Collects, Ended

(* The grain being closed: the pages of an answer belong to an attempt     *)
(* that is RUNNING, in a run that nothing has ended.                       *)
LEMMA ClosingHere ==
    ASSUME CollectionInv, NEW p \in Executions, NEW g,
           m[p].pc \in {"closing", "observe"}, m[p].i <= Len(CloseOrder),
           g = CloseOrder[m[p].i]
    PROVE  /\ g \in Grains /\ m[p].i \in 1..Len(CloseOrder) /\ m[p].i \in Nat
           /\ m[p].page \in Nat /\ m[p].page >= 1 /\ m[p].page <= m[p].got[g].pages + 1
           /\ m[p].got[g].pages \in Nat /\ m[p].outcome[g] = "none"
           /\ g \in m[p].own =>
                /\ Collects(m[p]) /\ Begun(db) /\ db.run \notin {"SUCCEEDED", "PARTIAL"}
                /\ db.attempt[g] \in OpenAttempt /\ Len(db.pages[g]) = m[p].page - 1
           /\ m[p].got[g].pages > 0 =>
                g \in m[p].own /\ db.attempt[g] = "RUNNING" /\ db.run \notin EndedRun
<1>1. /\ m[p].i \in Nat /\ m[p].i \in 1..Len(CloseOrder) /\ m[p].page \in Nat
      /\ m[p].page >= 1
  BY Facts, MemoryFields DEF ClosingInv
<1>2. g \in Grains
  BY <1>1, PlanFacts
<1>3. m[p].got[g].pages \in Nat
  BY <1>2, Facts, MemoryFields
<1>4. /\ m[p].page <= m[p].got[g].pages + 1 /\ m[p].outcome[g] = "none"
      /\ g \in m[p].own =>
           db.attempt[g] \in OpenAttempt /\ Len(db.pages[g]) = m[p].page - 1
  BY <1>1, Facts DEF ClosingInv
<1>5. g \in m[p].own =>
        Collects(m[p]) /\ Begun(db) /\ db.run \notin {"SUCCEEDED", "PARTIAL"}
  BY Facts DEF Collects, CollectorInv, Ended
<1>6. ASSUME m[p].got[g].pages > 0
      PROVE  g \in m[p].own /\ db.attempt[g] = "RUNNING" /\ db.run \notin EndedRun
  <2>1. m[p].own = Grains /\ \A h \in Grains : db.attempt[h] \notin {"none", "PLANNED"}
    BY <1>2, <1>6, Facts DEF AnswerInv
  <2>2. db.attempt[g] = "RUNNING"
    BY <1>2, <1>4, <2>1 DEF OpenAttempt
  <2>3. ~AttemptsClosed(db)
    BY <1>2, <2>2 DEF AttemptsClosed, OpenAttempt
  <2>4. Plan[2] \in Opened(db) /\ Plan[2] # Plan[1]
    BY <2>1, PlanFacts DEF Opened
  <2>5. db.run \notin EndedRun
    BY <2>3, <2>4, Facts DEF LedgerInv, LateInv
  <2> QED
    BY <1>2, <2>1, <2>2, <2>5
<1> QED
  BY <1>1, <1>2, <1>3, <1>4, <1>5, <1>6

(* A call of the second phase that fails with a fault.                     *)
LEMMA StopsClosing ==
    ASSUME CollectionInv, NEW p \in Executions, m' = [m EXCEPT ![p] = PersistError(p)],
           db' \in Ledger, LedgerInv(db'), Behaves(m[p], db, db'), Consistent(m[p], db'),
           m[p].own # {} => db'.run \notin {"SUCCEEDED", "PARTIAL"},
           faults < MaxFaults /\ faults' = faults + 1,
           \A g \in Grains : db'.attempt[g] \notin {"none", "PLANNED"} =>
             db.attempt[g] \notin {"none", "PLANNED"} \/ g \in m[p].own
    PROVE  Advanced(p)
<1>1. faults' \in Nat /\ faults' >= 1 /\ m[p] \in Memory
  BY Facts
<1>2. PICK y : y = PersistError(p)
  OBVIOUS
<1>3. y = [m[p] EXCEPT !.pc = "failing", !.i = 1, !.error = TRUE]
  BY <1>2 DEF PersistError
<1>4. y \in Memory /\ y.own = m[p].own /\ ExecutionInv(y, db', faults')
  BY <1>1, <1>3, ToFailing
<1>5. y.pc = "failing"
  BY <1>1, <1>3 DEF Memory
<1>6. Collects(y) => Collects(m[p])
  BY <1>4, <1>5 DEF Collects
<1> QED
  BY <1>2, <1>4, <1>6, Advances

(* One more page of evidence for the grain being closed.                   *)
LEMMA RecordPageStep ==
    ASSUME CollectionInv, NEW p \in Executions, RecordPage(p)
    PROVE  Advanced(p)
<1>1. PICK g : g = Closing(p)
  OBVIOUS
<1>2. PICK s : s = FetchStatus(m[p].got[g], m[p].page)
  OBVIOUS
<1>3. PICK e : e = [db EXCEPT !.pages[g] = Append(@, s)]
  OBVIOUS
<1>4. PICK y : y = IF g \in Statistics THEN [m[p] EXCEPT !.pc = "observe", !.page = @ + 1]
                                       ELSE [m[p] EXCEPT !.page = @ + 1]
  OBVIOUS
<1>5. /\ m[p].pc = "closing" /\ m[p].i <= Len(CloseOrder) /\ g = CloseOrder[m[p].i]
      /\ m[p].page <= m[p].got[g].pages
  BY <1>1 DEF RecordPage, Closing
<1>6. /\ g \in Grains /\ m[p].i \in 1..Len(CloseOrder) /\ m[p].i \in Nat
      /\ m[p].page \in Nat /\ m[p].page >= 1
      /\ m[p].got[g].pages \in Nat /\ g \in m[p].own /\ db.attempt[g] = "RUNNING"
      /\ Collects(m[p]) /\ Begun(db) /\ db.run \notin {"SUCCEEDED", "PARTIAL"}
      /\ Len(db.pages[g]) = m[p].page - 1
  BY SMTT(30), <1>5, ClosingHere
<1>7. db.attempt[g] \in OpenAttempt /\ s \in {"SUCCEEDED", "PARTIAL"}
  BY <1>2, <1>6 DEF OpenAttempt, FetchStatus
<1>8. \/ m' = [m EXCEPT ![p] = y] /\ db' = e /\ faults' = faults
      \/ /\ m' = [m EXCEPT ![p] = PersistError(p)] /\ db' \in {db, e}
         /\ faults < MaxFaults /\ faults' = faults + 1
  BY <1>1, <1>2, <1>3, <1>4, <1>7 DEF RecordPage, Call
<1>9. /\ e \in Ledger /\ LedgerInv(e) /\ Behaves(m[p], db, e)
      /\ e.run = db.run /\ e.attempt = db.attempt /\ e.observed = db.observed
      /\ Len(e.pages[g]) = Len(db.pages[g]) + 1
      /\ \A k \in 1..Len(db.pages[g]) : e.pages[g][k] = db.pages[g][k]
      /\ e.pages[g][Len(db.pages[g]) + 1] = s
      /\ \A h \in Grains : h # g => e.pages[h] = db.pages[h]
  <2>1. PICK q : q = Append(db.pages[g], s)
    OBVIOUS
  <2>2. e = [db EXCEPT !.pages[g] = q]
    BY <1>3, <2>1
  <2>3. e \in Ledger /\ PageIs(db, e, g, s)
    BY <1>6, <1>7, <2>1, <2>2, Facts, PageWritten
  <2>4. LedgerInv(e) /\ Behaves(m[p], db, e)
    BY <1>6, <1>7, <2>3, Facts, PageKept
  <2> QED
    BY <2>3, <2>4 DEF PageIs
<1>10. Consistent(m[p], e) /\ Consistent(m[p], db)
  BY <1>6, <1>9, ConsistentHere DEF Consistent, AnswerInv, OutcomeInv, Begun
<1>11. CASE m' = [m EXCEPT ![p] = y] /\ db' = e /\ faults' = faults
  <2>1. m[p] \in Memory /\ m[p].page + 1 \in Nat
    BY <1>6, Facts
  <2>2. /\ y \in Memory /\ y.pc = (IF g \in Statistics THEN "observe" ELSE "closing")
        /\ g \in Statistics => y.pc = "observe"
        /\ y.i = m[p].i /\ y.page = m[p].page + 1
        /\ y.own = m[p].own /\ y.got = m[p].got /\ y.synced = m[p].synced
        /\ y.outcome = m[p].outcome
    BY <1>4, <1>5, <2>1 DEF Memory, Counters
  <2>3. CollectorInv(y, e)
    BY <1>6, <1>9, <2>2 DEF CollectorInv, Begun
  <2>4. AnswerInv(y, e) /\ OutcomeInv(y, e)
    BY <1>10, <2>2 DEF AnswerInv, OutcomeInv, GatesHeld, Consistent
  <2>5. ClosingInv(y, e)
    <3>1. ASSUME NEW j \in 1..Len(CloseOrder), NEW h, h = CloseOrder[j]
          PROVE  /\ j < y.i /\ h \in y.own => y.outcome[h] # "none"
                 /\ j >= y.i => y.outcome[h] = "none"
                 /\ j >= y.i /\ h \in y.own => e.attempt[h] \in OpenAttempt
                 /\ j > y.i /\ h \in y.own => e.pages[h] = <<>>
      <4>1. j # m[p].i => h # g
        BY <1>5, <1>6, <3>1, PlanFacts
      <4>2. h \in Grains /\ j \in Nat
        BY <3>1, PlanFacts
      <4>3. /\ j < m[p].i /\ h \in m[p].own => m[p].outcome[h] # "none"
            /\ j >= m[p].i => m[p].outcome[h] = "none"
            /\ j >= m[p].i /\ h \in m[p].own => db.attempt[h] \in OpenAttempt
            /\ j > m[p].i /\ h \in m[p].own => db.pages[h] = <<>>
        BY <1>5, <3>1, Facts DEF ClosingInv
      <4>4. j > m[p].i => e.pages[h] = db.pages[h]
        BY <1>6, <1>9, <4>1, <4>2
      <4> QED
        BY <1>9, <2>2, <4>3, <4>4
    <3>2. /\ y.page <= y.got[g].pages + 1 /\ Len(e.pages[g]) = y.page - 1
          /\ ~(y.pc = "closing" /\ g \in Statistics)
      <4>1. /\ y.page = m[p].page + 1 /\ y.got[g].pages = m[p].got[g].pages
            /\ ~(y.pc = "closing" /\ g \in Statistics)
        BY <2>2
      <4>2. /\ m[p].page \in Nat /\ m[p].got[g].pages \in Nat
            /\ m[p].page <= m[p].got[g].pages
        BY <1>5, <1>6
      <4>3. Len(e.pages[g]) = m[p].page - 1 + 1
        BY <1>6, <1>9
      <4>4. y.page <= y.got[g].pages + 1
        BY <4>1, <4>2
      <4>5. Len(e.pages[g]) = y.page - 1
        BY <4>1, <4>2, <4>3
      <4> QED
        BY <4>1, <4>4, <4>5
    <3>3. ASSUME NEW k \in 1..y.page - 1
          PROVE  e.pages[g][k] = FetchStatus(y.got[g], k)
      <4>1. CASE k = m[p].page
        BY <1>2, <1>6, <1>9, <2>2, <4>1
      <4>2. CASE k # m[p].page
        <5>1. k \in 1..m[p].page - 1
          BY <1>6, <2>2, <4>2
        <5>2. ClosingInv(m[p], db)
          BY Facts
        <5>3. /\ m[p].i \in 1..Len(CloseOrder) /\ CloseOrder[m[p].i] = g /\ g \in m[p].own
              /\ m[p].pc = "closing"
          BY <1>5, <1>6
        <5>4. db.pages[g][k] = FetchStatus(m[p].got[g], k)
          BY ONLY <5>1, <5>2, <5>3 DEF ClosingInv
        <5> QED
          BY <1>6, <1>9, <2>2, <5>1, <5>4
      <4> QED
        BY <4>1, <4>2
    <3>4. /\ y.i \in 1..Len(CloseOrder) + 1 /\ y.page >= 1 /\ y.i <= Len(CloseOrder)
          /\ y.pc = "observe" => y.page > 1 /\ CloseOrder[y.i] \in Statistics
          /\ CloseOrder[y.i] = g
      BY <1>5, <1>6, <2>2
    <3>5. ASSUME NEW j \in 1..Len(CloseOrder), j = y.i
          PROVE  LET h == CloseOrder[j]
                 IN  /\ y.page <= y.got[h].pages + 1
                     /\ Len(e.pages[h]) = y.page - 1
                     /\ \A k \in 1..y.page - 1 : e.pages[h][k] = FetchStatus(y.got[h], k)
                     /\ ~(y.pc = "closing" /\ h \in Statistics)
      BY <3>2, <3>3, <3>4, <3>5
    <3> QED
      BY <3>1, <3>4, <3>5 DEF ClosingInv
  <2>6. OpeningInv(y, e) /\ FailingInv(y, e, faults) /\ ConcludedInv(y, e)
    BY <2>2 DEF OpeningInv, FailingInv, ConcludedInv
  <2>7. ExecutionInv(y, db', faults')
    BY <1>11, <2>3, <2>4, <2>5, <2>6 DEF ExecutionInv
  <2>8. y.pc \notin {"begin", "inserting", "run"} /\ db'.attempt = db.attempt
    BY <1>9, <1>11, <2>2
  <2> QED
    BY <1>9, <1>11, <2>2, <2>7, <2>8, AdvancesOnly
<1>12. CASE /\ m' = [m EXCEPT ![p] = PersistError(p)] /\ db' \in {db, e}
            /\ faults < MaxFaults /\ faults' = faults + 1
  <2>1. /\ db' \in Ledger /\ LedgerInv(db') /\ Behaves(m[p], db, db')
        /\ Consistent(m[p], db') /\ db'.run = db.run /\ db'.attempt = db.attempt
    BY <1>9, <1>10, <1>12, Facts, NothingWritten
  <2> QED
    BY <1>6, <1>12, <2>1, StopsClosing
<1> QED
  BY <1>8, <1>11, <1>12

(* The observation of the statistic being closed.                          *)
LEMMA ObserveStep ==
    ASSUME CollectionInv, NEW p \in Executions, Observe(p)
    PROVE  Advanced(p)
<1>1. PICK g : g = Closing(p)
  OBVIOUS
<1>2. PICK e : e = [db EXCEPT !.observed = @ \cup {g}]
  OBVIOUS
<1>3. PICK y : y = Goto(p, "closing")
  OBVIOUS
<1>4. m[p].pc = "observe" /\ m[p].i <= Len(CloseOrder) /\ g = CloseOrder[m[p].i]
      /\ g \in Statistics /\ m[p].page > 1
  BY <1>1, Facts DEF Observe, Closing, ClosingInv
<1>5. /\ g \in Grains /\ m[p].i \in 1..Len(CloseOrder) /\ m[p].i \in Nat
      /\ m[p].page \in Nat /\ m[p].page >= 1
      /\ m[p].got[g].pages \in Nat /\ g \in m[p].own /\ db.attempt[g] = "RUNNING"
      /\ Collects(m[p]) /\ Begun(db) /\ db.run \notin EndedRun
      /\ db.run \notin {"SUCCEEDED", "PARTIAL"}
  BY <1>4, ClosingHere
<1>6. \/ m' = [m EXCEPT ![p] = y] /\ db' = e /\ faults' = faults
      \/ /\ m' = [m EXCEPT ![p] = PersistError(p)] /\ db' \in {db, e}
         /\ faults < MaxFaults /\ faults' = faults + 1
  BY <1>1, <1>2, <1>3, <1>5 DEF Observe, Call
<1>7. /\ e \in Ledger /\ LedgerInv(e) /\ Behaves(m[p], db, e)
      /\ e.run = db.run /\ e.attempt = db.attempt /\ e.pages = db.pages
      /\ e.observed = db.observed \cup {g}
  BY <1>2, <1>4, <1>5, Facts, ObservationKept
<1>8. Consistent(m[p], e) /\ Consistent(m[p], db)
  BY <1>5, <1>7, ConsistentHere DEF Consistent, AnswerInv, OutcomeInv, Begun
<1>9. CASE m' = [m EXCEPT ![p] = y] /\ db' = e /\ faults' = faults
  <2>1. m[p] \in Memory
    BY Facts
  <2>2. /\ y \in Memory /\ y.pc = "closing" /\ y.i = m[p].i /\ y.page = m[p].page
        /\ y.own = m[p].own /\ y.got = m[p].got /\ y.synced = m[p].synced
        /\ y.outcome = m[p].outcome
    BY <1>3, <2>1 DEF Goto, Memory, Counters
  <2>3. CollectorInv(y, e)
    BY <1>5, <1>7, <2>2 DEF CollectorInv, Begun
  <2>4. AnswerInv(y, e) /\ OutcomeInv(y, e)
    BY <1>8, <2>2 DEF AnswerInv, OutcomeInv, GatesHeld, Consistent
  <2>5. ClosingInv(y, e)
    <3>1. g \in e.observed /\ y.i <= Len(CloseOrder) /\ CloseOrder[y.i] = g
      BY <1>4, <1>7, <2>2
    <3> QED
      BY <1>4, <1>7, <2>2, <3>1, Facts DEF ClosingInv
  <2>6. OpeningInv(y, e) /\ FailingInv(y, e, faults) /\ ConcludedInv(y, e)
    BY <2>2 DEF OpeningInv, FailingInv, ConcludedInv
  <2>7. ExecutionInv(y, db', faults')
    BY <1>9, <2>3, <2>4, <2>5, <2>6 DEF ExecutionInv
  <2>8. y.pc \notin {"begin", "inserting", "run"} /\ db'.attempt = db.attempt
    BY <1>7, <1>9, <2>2
  <2> QED
    BY <1>7, <1>9, <2>2, <2>7, <2>8, AdvancesOnly
<1>10. CASE /\ m' = [m EXCEPT ![p] = PersistError(p)] /\ db' \in {db, e}
            /\ faults < MaxFaults /\ faults' = faults + 1
  <2>1. /\ db' \in Ledger /\ LedgerInv(db') /\ Behaves(m[p], db, db')
        /\ Consistent(m[p], db') /\ db'.run = db.run /\ db'.attempt = db.attempt
    BY <1>7, <1>8, <1>10, Facts, NothingWritten
  <2> QED
    BY <1>5, <1>10, <2>1, StopsClosing
<1> QED
  BY <1>6, <1>9, <1>10

(* Closing a grain leaves the next one as it was.                          *)
LEMMA NextClosing ==
    ASSUME NEW x \in Memory, NEW y \in Memory, NEW d \in Ledger, NEW e \in Ledger,
           ClosingInv(x, d), x.pc = "closing", x.i \in 1..Len(CloseOrder),
           NEW g, g = CloseOrder[x.i],
           y.pc = "closing", y.i = x.i + 1, y.page = 1, y.own = x.own, y.got = x.got,
           e.pages = d.pages, g \in y.own => y.outcome[g] # "none",
           \A h \in Grains : h # g =>
               y.outcome[h] = x.outcome[h] /\ e.attempt[h] = d.attempt[h]
    PROVE  ClosingInv(y, e)
<1>1. x.i \in Nat /\ Len(CloseOrder) \in Nat
  BY PlanFacts
<1>2. y.i \in 1..Len(CloseOrder) + 1 /\ y.page >= 1
  BY <1>1
<1>3. ASSUME NEW j \in 1..Len(CloseOrder)
      PROVE  LET h == CloseOrder[j]
             IN  /\ j < y.i /\ h \in y.own => y.outcome[h] # "none"
                 /\ j >= y.i => y.outcome[h] = "none"
                 /\ j >= y.i /\ h \in y.own => e.attempt[h] \in OpenAttempt
                 /\ j > y.i /\ h \in y.own => e.pages[h] = <<>>
                 /\ j = y.i => y.page <= y.got[h].pages + 1
                 /\ j = y.i /\ h \in y.own => e.pages[h] = <<>>
  <2>1. PICK h : h = CloseOrder[j]
    OBVIOUS
  <2>2. h \in Grains /\ j \in Nat /\ y.got[h].pages \in Nat
    BY <2>1, PlanFacts, MemoryFields
  <2>3. j # x.i => h # g
    BY <2>1, PlanFacts
  <2>4. /\ j < x.i /\ h \in x.own => x.outcome[h] # "none"
        /\ j >= x.i => x.outcome[h] = "none"
        /\ j >= x.i /\ h \in x.own => d.attempt[h] \in OpenAttempt
        /\ j > x.i /\ h \in x.own => d.pages[h] = <<>>
    BY <2>1 DEF ClosingInv
  <2>5. CASE j = x.i
    BY <1>1, <2>1, <2>5
  <2>6. CASE j # x.i
    BY <1>1, <2>1, <2>2, <2>3, <2>4, <2>6
  <2> QED
    BY <2>5, <2>6
<1> QED
  BY <1>2, <1>3, EmptySeq DEF ClosingInv

(* The status a grain closes with is one the ledger admits, and a success  *)
(* has its evidence and its gates.                                         *)
LEMMA ClosingStatusFits ==
    ASSUME CollectionInv, NEW p \in Executions, NEW g, NEW n, NEW s,
           m[p].pc = "closing", m[p].i <= Len(CloseOrder), g = CloseOrder[m[p].i],
           n = m[p].got[g].pages, s = ClosingStatus(p, g), m[p].page > n, g \in m[p].own
    PROVE  /\ s \in EndedAttempt /\ AttemptMayBecome(db, g, s, n)
           /\ s = "SUCCEEDED" => Evident(db, g) /\ GatesHeld(m[p], g)
<1>1. /\ g \in Grains /\ m[p].i \in 1..Len(CloseOrder) /\ n \in Nat /\ m[p].page \in Nat
      /\ m[p].page <= n + 1 /\ db.attempt[g] \in OpenAttempt
      /\ Len(db.pages[g]) = m[p].page - 1
      /\ n > 0 => db.attempt[g] = "RUNNING"
  BY ClosingHere
<1>2. m[p].page = n + 1 /\ m[p].page - 1 = n /\ Len(db.pages[g]) = n
  <2>1. \A a, b \in Nat : a > b /\ a <= b + 1 => a = b + 1 /\ a - 1 = b
    OBVIOUS
  <2> QED
    BY <1>1, <2>1
<1>3. /\ \A k \in 1..n : db.pages[g][k] = FetchStatus(m[p].got[g], k)
      /\ n > 0 /\ g \in Statistics => g \in db.observed
  <2>0. ClosingInv(m[p], db)
    BY Facts
  <2>1. /\ \A k \in 1..m[p].page - 1 : db.pages[g][k] = FetchStatus(m[p].got[g], k)
        /\ g \in Statistics /\ m[p].page > 1 => g \in db.observed
    BY <1>1, <2>0 DEF ClosingInv
  <2>2. n > 0 => m[p].page > 1
    BY <1>1, <1>2
  <2> QED
    BY <1>2, <2>1, <2>2
<1>4. /\ g \in Statistics => m[p].got[g].clean
      /\ m[p].got[g].gates => m[p].synced
      /\ m[p].synced \in BOOLEAN
  BY <1>1, Facts, MemoryFields DEF AnswerInv
<1>5. s \in EndedAttempt
  BY DEF ClosingStatus, EndedAttempt
<1>6. s = "SUCCEEDED" => n > 0 /\ m[p].got[g].clean /\ GatesHeld(m[p], g)
  BY <1>1, <1>4 DEF ClosingStatus, GatesHeld
<1>7. s = "SUCCEEDED" => \A k \in 1..n : db.pages[g][k] = "SUCCEEDED"
  BY <1>3, <1>6 DEF FetchStatus
<1>8. s = "SUCCEEDED" => Evident(db, g)
  BY <1>2, <1>3, <1>6, <1>7 DEF Evident
<1>9. s # "FAILED" => n > 0
  BY <1>1 DEF ClosingStatus
<1>10. AttemptMayBecome(db, g, s, n)
  <2>1. s # "RUNNING"
    BY <1>5 DEF EndedAttempt
  <2> QED
    BY <1>1, <1>2, <1>6, <1>7, <1>9, <2>1 DEF AttemptMayBecome
<1> QED
  BY <1>5, <1>6, <1>8, <1>10

(* The terminal status of the grain being closed.                          *)
LEMMA CloseAttemptStep ==
    ASSUME CollectionInv, NEW p \in Executions, CloseAttempt(p)
    PROVE  Advanced(p)
<1>1. PICK g : g = Closing(p)
  OBVIOUS
<1>2. PICK n : n = m[p].got[g].pages
  OBVIOUS
<1>3. /\ m[p].pc = "closing" /\ m[p].i <= Len(CloseOrder) /\ g = CloseOrder[m[p].i]
      /\ m[p].page > n
  BY <1>1, <1>2 DEF CloseAttempt, Closing
<1>4. /\ g \in Grains /\ m[p].i \in 1..Len(CloseOrder) /\ m[p].i \in Nat
      /\ n \in Nat /\ m[p].outcome[g] = "none"
      /\ n > 0 => g \in m[p].own
      /\ g \in m[p].own => /\ Collects(m[p]) /\ Begun(db)
                           /\ db.run \notin {"SUCCEEDED", "PARTIAL"}
                           /\ db.attempt[g] \in OpenAttempt
  BY <1>2, <1>3, ClosingHere
<1>5. m[p] \in Memory /\ m[p].i + 1 \in Nat
  BY <1>4, Facts
<1>6. CASE g \in m[p].own
  <2>1. PICK s : s = ClosingStatus(p, g)
    OBVIOUS
  <2>2. PICK e : e = [db EXCEPT !.attempt[g] = s]
    OBVIOUS
  <2>3. PICK y : y = [NextClose(p) EXCEPT !.outcome[g] = s]
    OBVIOUS
  <2>4. /\ s \in EndedAttempt /\ AttemptMayBecome(db, g, s, n)
        /\ s = "SUCCEEDED" => Evident(db, g) /\ GatesHeld(m[p], g)
    BY <1>2, <1>3, <1>6, <2>1, ClosingStatusFits
  <2>5. \/ m' = [m EXCEPT ![p] = y] /\ db' = e /\ faults' = faults
        \/ /\ m' = [m EXCEPT ![p] = PersistError(p)] /\ db' \in {db, e}
           /\ faults < MaxFaults /\ faults' = faults + 1
    <3>1. Call(p, AttemptMayBecome(db, g, s, n), e, y, PersistError(p))
      BY <1>1, <1>2, <1>6, <2>1, <2>2, <2>3 DEF CloseAttempt
    <3> QED
      BY <2>4, <3>1 DEF Call
  <2>6. /\ e \in Ledger /\ LedgerInv(e) /\ Behaves(m[p], db, e)
        /\ e.run = db.run /\ e.pages = db.pages /\ e.attempt[g] = s
        /\ \A h \in Grains : h # g => e.attempt[h] = db.attempt[h]
    <3>1. s \in AttemptStatuses \ {"none"} /\ s # "PLANNED"
      BY <2>4 DEF AttemptStatuses, EndedAttempt
    <3>2. db.attempt[g] \notin EndedAttempt /\ db.attempt[g] # "none"
      BY <1>4, <1>6 DEF EndedAttempt, OpenAttempt
    <3>3. e \in Ledger /\ AttemptIs(db, e, g, s)
      BY <1>4, <2>2, <3>1, Facts, AttemptWritten
    <3>4. LedgerInv(e) /\ Behaves(m[p], db, e)
      BY <1>4, <1>6, <2>4, <3>1, <3>2, <3>3, Facts, AttemptKept
    <3> QED
      BY <3>3, <3>4 DEF AttemptIs
  <2>7. s \notin {"none", "PLANNED"}
    BY <2>4 DEF EndedAttempt
  <2>8. Consistent(m[p], e) /\ Consistent(m[p], db)
    <3>1. Consistent(m[p], db)
      BY ConsistentHere
    <3>2. AnswerInv(m[p], e)
      BY <2>6, <2>7, <3>1 DEF Consistent, AnswerInv
    <3>3. OutcomeInv(m[p], e)
      BY <1>4, <2>4, <2>6, <2>7, <3>1 DEF Consistent, OutcomeInv
    <3> QED
      BY <2>6, <3>1, <3>2, <3>3 DEF Consistent, Begun
  <2>9. CASE m' = [m EXCEPT ![p] = y] /\ db' = e /\ faults' = faults
    <3>1. /\ y \in Memory /\ y.pc = "closing" /\ y.i = m[p].i + 1 /\ y.page = 1
          /\ y.own = m[p].own /\ y.got = m[p].got /\ y.synced = m[p].synced
          /\ y.outcome[g] = s /\ \A h \in Grains : h # g => y.outcome[h] = m[p].outcome[h]
      BY <1>4, <1>5, <2>3, <2>4 DEF NextClose, Memory, Counters
    <3>2. CollectorInv(y, e)
      BY <1>4, <1>6, <2>6, <3>1 DEF CollectorInv, Begun
    <3>3. AnswerInv(y, e)
      BY <2>8, <3>1 DEF AnswerInv, Consistent
    <3>4. OutcomeInv(y, e)
      <4> SUFFICES ASSUME NEW h \in Grains
                   PROVE  /\ h \in y.own => e.attempt[h] # "none"
                          /\ y.outcome[h] # "none" =>
                               y.outcome[h] = e.attempt[h] /\ h \in y.own
                          /\ h \in y.own /\ e.attempt[h] = "SUCCEEDED" => GatesHeld(y, h)
        BY DEF OutcomeInv
      <4>1. /\ h \in m[p].own => e.attempt[h] # "none"
            /\ m[p].outcome[h] # "none" => m[p].outcome[h] = e.attempt[h] /\ h \in m[p].own
            /\ h \in m[p].own /\ e.attempt[h] = "SUCCEEDED" => GatesHeld(m[p], h)
        BY <2>8 DEF Consistent, OutcomeInv
      <4>2. GatesHeld(m[p], h) => GatesHeld(y, h)
        BY <3>1 DEF GatesHeld
      <4> QED
        BY <1>6, <2>6, <3>1, <4>1, <4>2
    <3>5. ClosingInv(y, e)
      BY <1>3, <1>4, <1>5, <2>6, <2>7, <3>1, Facts, NextClosing
    <3>6. OpeningInv(y, e) /\ FailingInv(y, e, faults) /\ ConcludedInv(y, e)
      BY <3>1 DEF OpeningInv, FailingInv, ConcludedInv
    <3>7. ExecutionInv(y, db', faults')
      BY <2>9, <3>2, <3>3, <3>4, <3>5, <3>6 DEF ExecutionInv
    <3>8. Collects(y) => Collects(m[p])
      BY <1>4, <1>6
    <3>9. \A h \in Grains : db'.attempt[h] \notin {"none", "PLANNED"} =>
             db.attempt[h] \notin {"none", "PLANNED"} \/ h \in y.own
      BY <1>6, <2>6, <2>9, <3>1
    <3> QED
      BY <2>6, <2>9, <3>1, <3>7, <3>8, <3>9, Advances
  <2>10. CASE /\ m' = [m EXCEPT ![p] = PersistError(p)] /\ db' \in {db, e}
              /\ faults < MaxFaults /\ faults' = faults + 1
    <3>1. /\ db' \in Ledger /\ LedgerInv(db') /\ Behaves(m[p], db, db')
          /\ Consistent(m[p], db') /\ db'.run = db.run
      BY <2>6, <2>8, <2>10, Facts, NothingWritten
    <3>2. \A h \in Grains : db'.attempt[h] \notin {"none", "PLANNED"} =>
             db.attempt[h] \notin {"none", "PLANNED"} \/ h \in m[p].own
      BY <1>6, <2>6, <2>10
    <3> QED
      BY <1>4, <1>6, <2>10, <3>1, <3>2, StopsClosing
  <2> QED
    BY <2>5, <2>9, <2>10
<1>7. CASE g \notin m[p].own
  <2>1. PICK y : y = NextClose(p)
    OBVIOUS
  <2>2. m' = [m EXCEPT ![p] = y] /\ db' = db /\ faults' = faults
    BY <1>1, <1>7, <2>1 DEF CloseAttempt
  <2>3. /\ y \in Memory /\ y.pc = "closing" /\ y.i = m[p].i + 1 /\ y.page = 1
        /\ y.own = m[p].own /\ y.got = m[p].got /\ y.synced = m[p].synced
        /\ y.outcome = m[p].outcome
    BY <1>5, <2>1 DEF NextClose, Memory, Counters
  <2>4. CollectorInv(y, db) /\ AnswerInv(y, db) /\ OutcomeInv(y, db)
    BY <1>3, <2>3, Facts DEF CollectorInv, AnswerInv, OutcomeInv, GatesHeld, Collects,
       Untouched, Ended
  <2>5. ClosingInv(y, db)
    BY <1>3, <1>4, <1>5, <1>7, <2>3, Facts, NextClosing
  <2>6. OpeningInv(y, db) /\ FailingInv(y, db, faults) /\ ConcludedInv(y, db)
    BY <2>3 DEF OpeningInv, FailingInv, ConcludedInv
  <2>7. ExecutionInv(y, db', faults')
    BY <2>2, <2>4, <2>5, <2>6 DEF ExecutionInv
  <2> QED
    BY <2>2, <2>3, <2>7, Facts, NothingWritten, AdvancesOnly
<1> QED
  BY <1>6, <1>7

(* The clean-up goes on to the next grain.                                 *)
LEMMA StillFailing ==
    ASSUME NEW x \in Memory, NEW y \in Memory, NEW e \in Ledger, NEW f \in Nat, f >= 1,
           Consistent(x, e), x.own # {} => e.run \notin {"SUCCEEDED", "PARTIAL"},
           x.i \in 1..Len(Plan), y.pc = "failing", y.i = x.i + 1, y.own = x.own,
           y.got = x.got, y.synced = x.synced, OutcomeInv(y, e),
           x.own = {} => y.outcome = x.outcome,
           f <= 1 => \A j \in 1..Len(Plan) :
               j <= x.i /\ Plan[j] \in x.own => e.attempt[Plan[j]] \in EndedAttempt
    PROVE  ExecutionInv(y, e, f)
<1>1. CollectorInv(y, e)
  BY DEF CollectorInv, Consistent, Collects, Untouched
<1>2. AnswerInv(y, e)
  BY DEF AnswerInv, Consistent
<1>3. FailingInv(y, e, f)
  <2>1. x.i \in Nat /\ Len(Plan) \in Nat /\ y.i \in 1..Len(Plan) + 1
    BY PlanFacts
  <2>2. \A j \in 1..Len(Plan) : j < y.i => j <= x.i
    BY <2>1
  <2> QED
    BY <2>1, <2>2 DEF FailingInv
<1>4. OpeningInv(y, e) /\ ClosingInv(y, e) /\ ConcludedInv(y, e)
  BY DEF OpeningInv, ClosingInv, ConcludedInv
<1> QED
  BY <1>1, <1>2, <1>3, <1>4 DEF ExecutionInv

(* The clean-up of one grain, as far as it succeeds.                       *)
LEMMA FailAttemptStep ==
    ASSUME CollectionInv, NEW p \in Executions, FailAttempt(p)
    PROVE  Advanced(p)
<1>1. PICK g : g = Plan[m[p].i]
  OBVIOUS
<1>2. PICK on : on = [m[p] EXCEPT !.i = @ + 1]
  OBVIOUS
<1>3. /\ m[p].pc = "failing" /\ m[p].i \in 1..Len(Plan) /\ m[p].i \in Nat /\ g \in Grains
      /\ faults >= 1
  BY <1>1, Facts, PlanFacts DEF FailAttempt, FailingInv
<1>4. /\ Consistent(m[p], db)
      /\ m[p].own # {} => db.run \notin {"SUCCEEDED", "PARTIAL"}
  BY <1>3, ConsistentHere
<1>5. faults <= 1 => \A j \in 1..Len(Plan) :
         j < m[p].i /\ Plan[j] \in m[p].own => db.attempt[Plan[j]] \in EndedAttempt
  BY <1>3, Facts DEF FailingInv
<1>6. m[p] \in Memory /\ m[p].i + 1 \in Nat
  BY <1>3, Facts
<1>7. /\ on \in Memory /\ on.pc = "failing" /\ on.i = m[p].i + 1 /\ on.own = m[p].own
      /\ on.got = m[p].got /\ on.synced = m[p].synced /\ on.outcome = m[p].outcome
  BY <1>2, <1>3, <1>6 DEF Memory
<1>8. OutcomeInv(on, db)
  BY <1>4, <1>7 DEF Consistent, OutcomeInv, GatesHeld
<1>9. ASSUME m' = [m EXCEPT ![p] = on], db' = db,
             faults' = faults \/ (faults < MaxFaults /\ faults' = faults + 1),
             faults' <= 1 => (g \in m[p].own => db.attempt[g] \in EndedAttempt)
      PROVE  Advanced(p)
  <2>1. faults' \in Nat /\ faults' >= 1 /\ (faults' <= 1 => faults <= 1)
    BY <1>3, <1>9, Facts
  <2>2. faults' <= 1 => \A j \in 1..Len(Plan) :
           j <= m[p].i /\ Plan[j] \in m[p].own => db.attempt[Plan[j]] \in EndedAttempt
    BY <1>1, <1>3, <1>5, <1>9, <2>1
  <2>3. ExecutionInv(on, db, faults')
    BY <1>3, <1>4, <1>6, <1>7, <1>8, <2>1, <2>2, Facts, StillFailing
  <2> QED
    BY <1>7, <1>9, <2>3, Facts, NothingWritten, AdvancesOnly
<1>10. CASE g \in m[p].own /\ m[p].outcome[g] = "none"
  <2>1. PICK s : s = "FAILED"
    OBVIOUS
  <2>2. PICK e : e = [db EXCEPT !.attempt[g] = s]
    OBVIOUS
  <2>3. PICK y : y = [on EXCEPT !.outcome[g] = s]
    OBVIOUS
  <2>4. Call(p, AttemptMayBecome(db, g, "FAILED", 0), e, y, on)
    BY <1>1, <1>2, <1>10, <2>1, <2>2, <2>3 DEF FailAttempt
  <2>5. AttemptMayBecome(db, g, "FAILED", 0) <=> db.attempt[g] \in OpenAttempt
    BY DEF AttemptMayBecome
  <2>6. db.attempt[g] \in OpenAttempt \/ db.attempt[g] \in EndedAttempt
    BY <1>3, <1>4, <1>10, Facts, LedgerFields DEF Consistent, OutcomeInv, AttemptStatuses
  <2>7. \/ /\ db.attempt[g] \in OpenAttempt /\ m' = [m EXCEPT ![p] = y]
           /\ db' = e /\ faults' = faults
        \/ /\ db.attempt[g] \in EndedAttempt /\ m' = [m EXCEPT ![p] = on]
           /\ db' = db /\ faults' = faults
        \/ /\ m' = [m EXCEPT ![p] = on] /\ faults < MaxFaults /\ faults' = faults + 1
           /\ db' = db \/ (db.attempt[g] \in OpenAttempt /\ db' = e)
    <3>1. \/ /\ AttemptMayBecome(db, g, "FAILED", 0) /\ m' = [m EXCEPT ![p] = y]
             /\ db' = e /\ faults' = faults
          \/ /\ ~AttemptMayBecome(db, g, "FAILED", 0) /\ m' = [m EXCEPT ![p] = on]
             /\ db' = db /\ faults' = faults
          \/ /\ m' = [m EXCEPT ![p] = on] /\ faults < MaxFaults /\ faults' = faults + 1
             /\ db' = db \/ (AttemptMayBecome(db, g, "FAILED", 0) /\ db' = e)
      BY <2>4 DEF Call
    <3> QED
      BY <2>5, <2>6, <3>1
  <2>8. ASSUME db.attempt[g] \in OpenAttempt
        PROVE  /\ e \in Ledger /\ LedgerInv(e) /\ Behaves(m[p], db, e)
               /\ e.run = db.run /\ e.pages = db.pages /\ e.attempt[g] = s
               /\ \A h \in Grains : h # g => e.attempt[h] = db.attempt[h]
               /\ Consistent(m[p], e)
    <3>1. s \in AttemptStatuses \ {"none"} /\ s \notin {"PLANNED", "SUCCEEDED"}
      BY <2>1 DEF AttemptStatuses, EndedAttempt
    <3>2. db.attempt[g] \notin EndedAttempt /\ db.attempt[g] # "none"
      BY <2>8 DEF EndedAttempt, OpenAttempt
    <3>3. e \in Ledger /\ AttemptIs(db, e, g, s)
      BY <1>3, <2>2, <3>1, Facts, AttemptWritten
    <3>4. Collects(m[p]) /\ Begun(db)
      BY <1>4, <1>10 DEF Collects, Consistent
    <3>5. LedgerInv(e) /\ Behaves(m[p], db, e)
      BY <1>3, <3>1, <3>2, <3>3, <3>4, Facts, AttemptKept
    <3>6. /\ e.run = db.run /\ e.pages = db.pages /\ e.attempt[g] = s
          /\ \A h \in Grains : h # g => e.attempt[h] = db.attempt[h]
      BY <3>3 DEF AttemptIs
    <3>7. AnswerInv(m[p], e)
      BY <1>4, <3>1, <3>6 DEF Consistent, AnswerInv
    <3>8. OutcomeInv(m[p], e)
      BY <1>4, <1>10, <3>1, <3>6 DEF Consistent, OutcomeInv
    <3> QED
      BY <1>4, <3>3, <3>5, <3>6, <3>7, <3>8 DEF Consistent, Begun
  <2>9. CASE /\ db.attempt[g] \in OpenAttempt /\ m' = [m EXCEPT ![p] = y]
             /\ db' = e /\ faults' = faults
    <3>1. s \in EndedAttempt
      BY <2>1 DEF EndedAttempt
    <3>2. /\ y \in Memory /\ y.pc = "failing" /\ y.i = m[p].i + 1 /\ y.own = m[p].own
          /\ y.got = m[p].got /\ y.synced = m[p].synced
          /\ y.outcome[g] = s /\ \A h \in Grains : h # g => y.outcome[h] = m[p].outcome[h]
      BY <1>3, <1>7, <2>3, <3>1 DEF Memory
    <3>3. OutcomeInv(y, e)
      <4> SUFFICES ASSUME NEW h \in Grains
                   PROVE  /\ h \in y.own => e.attempt[h] # "none"
                          /\ y.outcome[h] # "none" =>
                               y.outcome[h] = e.attempt[h] /\ h \in y.own
                          /\ h \in y.own /\ e.attempt[h] = "SUCCEEDED" => GatesHeld(y, h)
        BY DEF OutcomeInv
      <4>1. /\ h \in m[p].own => e.attempt[h] # "none"
            /\ m[p].outcome[h] # "none" => m[p].outcome[h] = e.attempt[h] /\ h \in m[p].own
            /\ h \in m[p].own /\ e.attempt[h] = "SUCCEEDED" => GatesHeld(m[p], h)
        BY <2>8, <2>9 DEF Consistent, OutcomeInv
      <4>2. GatesHeld(m[p], h) => GatesHeld(y, h)
        BY <3>2 DEF GatesHeld
      <4> QED
        BY <1>10, <2>8, <2>9, <3>2, <4>1, <4>2
    <3>4. faults' <= 1 => \A j \in 1..Len(Plan) :
             j <= m[p].i /\ Plan[j] \in m[p].own => e.attempt[Plan[j]] \in EndedAttempt
      <4> SUFFICES ASSUME faults' <= 1, NEW j \in 1..Len(Plan), j <= m[p].i,
                          Plan[j] \in m[p].own
                   PROVE  e.attempt[Plan[j]] \in EndedAttempt
        OBVIOUS
      <4>1. CASE Plan[j] = g
        BY <2>8, <2>9, <3>1, <4>1
      <4>2. CASE Plan[j] # g
        <5>1. j < m[p].i /\ Plan[j] \in Grains
          BY <1>1, <1>3, <4>2, PlanFacts
        <5> QED
          BY <1>5, <2>8, <2>9, <4>2, <5>1
      <4> QED
        BY <4>1, <4>2
    <3>5. faults' \in Nat /\ faults' >= 1
      BY <1>3, <2>9, Facts
    <3>6. ExecutionInv(y, db', faults')
      BY <1>3, <1>4, <1>6, <1>10, <2>8, <2>9, <3>2, <3>3, <3>4, <3>5, StillFailing
    <3>7. \A h \in Grains : db'.attempt[h] \notin {"none", "PLANNED"} =>
             db.attempt[h] \notin {"none", "PLANNED"} \/ h \in y.own
      BY <1>10, <2>8, <2>9, <3>2
    <3>8. Collects(m[p])
      BY <1>10 DEF Collects
    <3> QED
      BY <2>8, <2>9, <3>2, <3>6, <3>7, <3>8, Advances
  <2>10. CASE /\ db.attempt[g] \in EndedAttempt /\ m' = [m EXCEPT ![p] = on]
              /\ db' = db /\ faults' = faults
    BY <1>9, <2>10
  <2>11. CASE /\ m' = [m EXCEPT ![p] = on] /\ faults < MaxFaults /\ faults' = faults + 1
              /\ db' = db \/ (db.attempt[g] \in OpenAttempt /\ db' = e)
    <3>1. faults' \in Nat /\ faults' >= 1 /\ ~(faults' <= 1)
      BY <1>3, <2>11, Facts
    <3>2. CASE db' = db
      BY <1>9, <2>11, <3>1, <3>2
    <3>3. CASE db.attempt[g] \in OpenAttempt /\ db' = e
      <4>1. OutcomeInv(on, e)
        BY <1>7, <2>8, <3>3 DEF Consistent, OutcomeInv, GatesHeld
      <4>2. ExecutionInv(on, db', faults')
        BY <1>3, <1>4, <1>6, <1>7, <2>8, <3>1, <3>3, <4>1, StillFailing
      <4>3. \A h \in Grains : db'.attempt[h] \notin {"none", "PLANNED"} =>
               db.attempt[h] \notin {"none", "PLANNED"} \/ h \in on.own
        BY <1>7, <1>10, <2>8, <3>3
      <4>4. Collects(m[p])
        BY <1>10 DEF Collects
      <4> QED
        BY <1>7, <2>8, <2>11, <3>3, <4>2, <4>3, <4>4, Advances
    <3> QED
      BY <2>11, <3>2, <3>3
  <2> QED
    BY <2>7, <2>9, <2>10, <2>11
<1>11. CASE ~(g \in m[p].own /\ m[p].outcome[g] = "none")
  <2>1. m' = [m EXCEPT ![p] = on] /\ db' = db /\ faults' = faults
    BY <1>1, <1>2, <1>11 DEF FailAttempt
  <2>2. g \in m[p].own => db.attempt[g] \in EndedAttempt
    <3>1. m[p].outcome[g] \in {"none"} \cup EndedAttempt
      BY <1>3, <1>6, MemoryFields
    <3> QED
      BY <1>3, <1>4, <1>11, <3>1 DEF Consistent, OutcomeInv
  <2> QED
    BY <1>9, <2>1, <2>2
<1> QED
  BY <1>10, <1>11

(* A step that only ends, or leaves one thing to do.                       *)
LEMMA Ends ==
    ASSUME CollectionInv, NEW p \in Executions,
           NEW c \in Ended \cup {"failCoverage", "cover", "publish"},
           m' = [m EXCEPT ![p] = Goto(p, c)],
           db' \in Ledger, LedgerInv(db'), Behaves(m[p], db, db'), SameEvidence(db, db'),
           m[p].own # {} => Begun(db'),
           faults' = faults \/ (faults < MaxFaults /\ faults' = faults + 1),
           c = "failCoverage" /\ m[p].own # {} => db'.run \notin {"SUCCEEDED", "PARTIAL"},
           c = "dead" \/ (faults' <= 1 => \A g \in m[p].own : db.attempt[g] \in EndedAttempt),
           c = "cover" /\ Won(m[p]) => db'.run = "SUCCEEDED",
           c = "publish" /\ Won(m[p]) => Proven(db')
    PROVE  Advanced(p)
<1>1. m[p] \in Memory /\ faults' \in Nat
  BY Facts
<1>2. PICK y : y = Goto(p, c)
  OBVIOUS
<1>3. y = [m[p] EXCEPT !.pc = c]
  BY <1>2 DEF Goto
<1>4. Consistent(m[p], db')
  BY ConsistentHere DEF Consistent, SameEvidence, AnswerInv, OutcomeInv
<1>5. y \in Memory /\ y.own = m[p].own /\ ExecutionInv(y, db', faults')
  BY <1>1, <1>3, <1>4, ToEnd DEF SameEvidence
<1>6. y.pc \notin {"begin", "inserting", "run"}
  BY <1>1, <1>3 DEF Memory, Ended
<1> QED
  BY <1>2, <1>5, <1>6, AdvancesOnly DEF SameEvidence

(* The clean-up ends by failing the run, if it is still open.              *)
LEMMA FailRunStep ==
    ASSUME CollectionInv, NEW p \in Executions, FailRun(p)
    PROVE  Advanced(p)
<1>1. PICK s : s = "FAILED"
  OBVIOUS
<1>2. PICK e : e = [db EXCEPT !.run = s]
  OBVIOUS
<1>3. PICK c : c = "failCoverage"
  OBVIOUS
<1>4. m[p].pc = "failing" /\ m[p].i > Len(Plan) /\ m[p].i \in Nat
  BY Facts, MemoryFields DEF FailRun, TransitionRun
<1>5. /\ m' = [m EXCEPT ![p] = Goto(p, c)]
      /\ faults' = faults \/ (faults < MaxFaults /\ faults' = faults + 1)
      /\ db' = db \/ (RunMayBecome(db, s) /\ db' = e)
  BY <1>1, <1>2, <1>3 DEF FailRun, TransitionRun, Call
<1>6. RunMayBecome(db, s) => /\ e \in Ledger /\ LedgerInv(e) /\ Behaves(m[p], db, e)
                             /\ e.run = s /\ SameEvidence(db, e)
  <2>1. s \in {"PLANNED", "PREFLIGHT_PASSED", "RUNNING"} \cup EndedRun
        /\ s \notin {"PLANNED", "SUCCEEDED", "PARTIAL"}
    BY <1>1 DEF EndedRun
  <2> QED
    BY <1>2, <2>1, Facts, RunKept
<1>7. /\ m[p].own # {} => Begun(db) /\ db.run \notin {"SUCCEEDED", "PARTIAL"}
      /\ faults <= 1 => \A g \in m[p].own : db.attempt[g] \in EndedAttempt
  <2>1. m[p].own # {} => Begun(db) /\ db.run \notin {"SUCCEEDED", "PARTIAL"}
    BY <1>4, ConsistentHere DEF Consistent
  <2>2. ASSUME faults <= 1, NEW g \in m[p].own PROVE db.attempt[g] \in EndedAttempt
    <3>1. PICK j \in 1..Len(Plan) : Plan[j] = g
      BY <2>2, Facts, MemoryFields, PlanFacts
    <3>2. j < m[p].i
      BY <1>4, PlanFacts
    <3> QED
      BY <1>4, <2>2, <3>1, <3>2, Facts DEF FailingInv
  <2> QED
    BY <2>1, <2>2
<1>8. /\ db' \in Ledger /\ LedgerInv(db') /\ Behaves(m[p], db, db') /\ SameEvidence(db, db')
      /\ m[p].own # {} => Begun(db') /\ db'.run \notin {"SUCCEEDED", "PARTIAL"}
  <2>1. CASE db' = db
    BY <1>7, <2>1, Facts, NothingWritten DEF SameEvidence
  <2>2. CASE RunMayBecome(db, s) /\ db' = e
    BY <1>1, <1>6, <2>2 DEF Begun, EndedRun
  <2> QED
    BY <1>5, <2>1, <2>2
<1>9. faults' <= 1 => \A g \in m[p].own : db.attempt[g] \in EndedAttempt
  BY <1>5, <1>7, Facts
<1> QED
  BY <1>3, <1>5, <1>8, <1>9, Ends

(* What the ledger says of an execution that is past its attempts.         *)
LEMMA EndingHere ==
    ASSUME CollectionInv, NEW p \in Executions,
           m[p].pc \in {"failCoverage", "cover", "publish"}
    PROVE  /\ m[p].own # {} => Begun(db)
           /\ faults <= 1 => \A g \in m[p].own : db.attempt[g] \in EndedAttempt
BY Facts, ConsistentHere DEF FailingInv, Consistent

(* The coverage row of a run that failed.                                  *)
LEMMA FailCoverageStep ==
    ASSUME CollectionInv, NEW p \in Executions, FailCoverage(p)
    PROVE  Advanced(p)
<1>1. PICK r : r = "failed"
  OBVIOUS
<1>2. PICK v, e : v = FALSE /\ e = Covered(db, r, v)
  OBVIOUS
<1>3. PICK c : c = "thrown"
  OBVIOUS
<1>4. /\ m[p].pc = "failCoverage" /\ m' = [m EXCEPT ![p] = Goto(p, c)]
      /\ faults' = faults \/ (faults < MaxFaults /\ faults' = faults + 1)
      /\ db' = db \/ (MayCover(db, r) /\ db' = e)
  BY <1>1, <1>2, <1>3 DEF FailCoverage, Thrown, Call
<1>5. MayCover(db, r) => /\ e \in Ledger /\ LedgerInv(e) /\ Behaves(m[p], db, e)
                         /\ e.run = db.run /\ SameEvidence(db, e)
  <2>1. r \in {"none", "failed", "PARTIAL", "FAILED"} /\ r # "none" /\ v \in BOOLEAN
    BY <1>1, <1>2
  <2> QED
    BY <1>2, <2>1, Facts, CoverageKept
<1>6. /\ db' \in Ledger /\ LedgerInv(db') /\ Behaves(m[p], db, db') /\ SameEvidence(db, db')
      /\ db'.run = db.run
  <2>1. CASE db' = db
    BY <2>1, Facts, NothingWritten DEF SameEvidence
  <2> QED
    BY <1>4, <1>5, <2>1
<1>7. /\ m[p].own # {} => Begun(db')
      /\ faults' <= 1 => \A g \in m[p].own : db.attempt[g] \in EndedAttempt
  BY <1>4, <1>6, EndingHere, Facts DEF Begun
<1>8. c \in Ended \cup {"failCoverage", "cover", "publish"}
      /\ c \notin {"failCoverage", "cover", "publish"}
  BY <1>3 DEF Ended
<1> QED
  BY <1>4, <1>6, <1>7, <1>8, Ends

(* RunStatus is SUCCEEDED exactly for an execution that won.               *)
LEMMA RunStatusIs ==
    ASSUME NEW p, NEW s, s = RunStatus(p)
    PROVE  /\ s \in EndedRun
           /\ s = "SUCCEEDED" <=> Won(m[p])
           /\ s \in {"SUCCEEDED", "PARTIAL"} => m[p].own # {}
BY DEF RunStatus, Won, EndedRun

(* The run ends as its attempts did.                                       *)
LEMMA ConcludeStep ==
    ASSUME CollectionInv, NEW p \in Executions, Conclude(p)
    PROVE  Advanced(p)
<1>1. PICK s : s = RunStatus(p)
  OBVIOUS
<1>2. PICK e : e = [db EXCEPT !.run = s]
  OBVIOUS
<1>3. m[p].pc = "closing" /\ m[p].i > Len(CloseOrder) /\ m[p].i \in Nat
  BY Facts, MemoryFields DEF Conclude, TransitionRun
<1>4. /\ \/ /\ m' = [m EXCEPT ![p] = Goto(p, "cover")]
            /\ RunMayBecome(db, s) /\ db' = e
         \/ m' = [m EXCEPT ![p] = Goto(p, "thrown")]
      /\ faults' = faults \/ (faults < MaxFaults /\ faults' = faults + 1)
      /\ db' = db \/ (RunMayBecome(db, s) /\ db' = e)
  <2>1. Call(p, RunMayBecome(db, s), e, Goto(p, "cover"), Goto(p, "thrown"))
    BY <1>1, <1>2 DEF Conclude, TransitionRun, Thrown
  <2> QED
    BY <2>1 DEF Call
<1>5. /\ s \in EndedRun
      /\ s = "SUCCEEDED" <=> Won(m[p])
      /\ s \in {"SUCCEEDED", "PARTIAL"} => Collects(m[p])
  BY <1>1, RunStatusIs DEF Collects
<1>6. RunMayBecome(db, s) => /\ e \in Ledger /\ LedgerInv(e) /\ Behaves(m[p], db, e)
                             /\ e.run = s /\ SameEvidence(db, e)
  <2>1. s \in {"PLANNED", "PREFLIGHT_PASSED", "RUNNING"} \cup EndedRun /\ s # "PLANNED"
    BY <1>5 DEF EndedRun
  <2> QED
    BY <1>2, <1>5, <2>1, Facts, RunKept
<1>7. ASSUME NEW g \in m[p].own PROVE db.attempt[g] \in EndedAttempt
  <2>1. g \in Grains /\ m[p].outcome[g] \in {"none"} \cup EndedAttempt
    BY <1>7, Facts, MemoryFields
  <2>2. PICK j \in 1..Len(CloseOrder) : CloseOrder[j] = g
    BY <2>1, PlanFacts
  <2>3. j < m[p].i
    BY <1>3, PlanFacts
  <2>4. m[p].outcome[g] # "none"
    BY <1>3, <1>7, <2>2, <2>3, Facts DEF ClosingInv
  <2> QED
    BY <2>1, <2>4, Facts DEF OutcomeInv
<1>8. m[p].own # {} => Begun(db)
  BY ConsistentHere DEF Consistent
<1>9. /\ db' \in Ledger /\ LedgerInv(db') /\ Behaves(m[p], db, db') /\ SameEvidence(db, db')
      /\ m[p].own # {} => Begun(db')
  <2>1. CASE db' = db
    BY <1>8, <2>1, Facts, NothingWritten DEF SameEvidence
  <2>2. CASE RunMayBecome(db, s) /\ db' = e
    BY <1>5, <1>6, <2>2 DEF Begun
  <2> QED
    BY <1>4, <2>1, <2>2
<1>10. CASE /\ m' = [m EXCEPT ![p] = Goto(p, "cover")]
            /\ RunMayBecome(db, s) /\ db' = e
  <2>1. Won(m[p]) => db'.run = "SUCCEEDED"
    BY <1>5, <1>6, <1>10
  <2>2. PICK c : c = "cover"
    OBVIOUS
  <2>3. m' = [m EXCEPT ![p] = Goto(p, c)]
    BY <1>10, <2>2
  <2> QED
    BY <1>4, <1>7, <1>9, <2>1, <2>2, <2>3, Ends
<1>11. CASE m' = [m EXCEPT ![p] = Goto(p, "thrown")]
  <2>1. PICK c : c = "thrown"
    OBVIOUS
  <2>2. c \in Ended /\ c \notin {"failCoverage", "cover", "publish"}
    BY <2>1 DEF Ended
  <2>3. m' = [m EXCEPT ![p] = Goto(p, c)]
    BY <1>11, <2>1
  <2> QED
    BY <1>4, <1>7, <1>9, <2>2, <2>3, Ends
<1> QED
  BY <1>4, <1>10, <1>11

(* An execution that won over a complete ledger owns all of it, so every   *)
(* gate it looks at was held.                                              *)
LEMMA WonIsVerified ==
    ASSUME CollectionInv, NEW p \in Executions, m[p].pc = "cover", Won(m[p])
    PROVE  db.run = "SUCCEEDED" /\ Complete(db) /\ Verified(p)
<1>1. db.run = "SUCCEEDED" /\ Complete(db)
  BY Facts DEF ConcludedInv, LedgerInv
<1>2. ASSUME NEW g \in Grains PROVE GatesHeld(m[p], g)
  <2>1. db.attempt[g] = "SUCCEEDED"
    BY <1>1, <1>2 DEF Complete
  <2>2. PICK q \in Executions : g \in m[q].own
    BY <1>2, <2>1 DEF CollectionInv, OneInv
  <2>3. Collects(m[p]) /\ Collects(m[q])
    BY <2>2 DEF Won, Collects
  <2>4. g \in m[p].own
    BY <2>2, <2>3 DEF CollectionInv, OneInv
  <2> QED
    BY <1>2, <2>1, <2>4, Facts DEF OutcomeInv
<1>3. PICK g \in Grains : g \in m[p].own
  BY Facts, MemoryFields DEF Won
<1> QED
  BY <1>1, <1>2, <1>3 DEF Verified, GatesHeld

(* The coverage row of a run that was concluded.                           *)
LEMMA CoverStep ==
    ASSUME CollectionInv, NEW p \in Executions, Cover(p)
    PROVE  Advanced(p)
<1>1. PICK r : r = CoverageReason(p)
  OBVIOUS
<1>2. PICK v : v = Verified(p)
  OBVIOUS
<1>3. PICK e : e = Covered(db, r, v)
  OBVIOUS
<1>4. /\ m[p].pc = "cover"
      /\ \/ /\ m' = [m EXCEPT ![p] = Goto(p, "publish")]
            /\ MayCover(db, r) /\ db' = e
         \/ m' = [m EXCEPT ![p] = Goto(p, "thrown")]
      /\ faults' = faults \/ (faults < MaxFaults /\ faults' = faults + 1)
      /\ db' = db \/ (MayCover(db, r) /\ db' = e)
  <2>1. m[p].pc = "cover" /\ Call(p, MayCover(db, r), e, Goto(p, "publish"), Goto(p, "thrown"))
    BY <1>1, <1>2, <1>3 DEF Cover, Thrown
  <2> QED
    BY <2>1 DEF Call
<1>5. /\ r \in {"none", "PARTIAL", "FAILED"}
      /\ r = "none" <=> Won(m[p])
  <2>1. PICK s : s = RunStatus(p)
    OBVIOUS
  <2>2. /\ s \in {"SUCCEEDED", "PARTIAL", "FAILED"}
        /\ s = "SUCCEEDED" <=> Won(m[p])
    BY <2>1, RunStatusIs DEF EndedRun
  <2>3. r = IF s = "SUCCEEDED" THEN "none" ELSE s
    BY <1>1, <2>1 DEF CoverageReason
  <2> QED
    BY <2>2, <2>3
<1>6. Won(m[p]) => v
  BY <1>2, <1>4, WonIsVerified DEF Verified
<1>7. MayCover(db, r) => /\ e \in Ledger /\ LedgerInv(e) /\ Behaves(m[p], db, e)
                         /\ e.run = db.run /\ SameEvidence(db, e)
                         /\ r = "none" /\ Complete(db) => /\ e.coverage.complete
                                                          /\ e.coverage.verified
                                                          /\ e.coverage.reason = "none"
  <2>1. v \in BOOLEAN
    BY <1>2, Facts, MemoryFields DEF Verified
  <2> QED
    BY <1>3, <1>5, <1>6, <2>1, Facts, CoverageKept
<1>8. /\ db' \in Ledger /\ LedgerInv(db') /\ Behaves(m[p], db, db') /\ SameEvidence(db, db')
      /\ db'.run = db.run
  <2>1. CASE db' = db
    BY <2>1, Facts, NothingWritten DEF SameEvidence
  <2> QED
    BY <1>4, <1>7, <2>1
<1>9. /\ m[p].own # {} => Begun(db')
      /\ faults' <= 1 => \A g \in m[p].own : db.attempt[g] \in EndedAttempt
  BY <1>4, <1>8, EndingHere, Facts DEF Begun
<1>10. CASE /\ m' = [m EXCEPT ![p] = Goto(p, "publish")] /\ MayCover(db, r) /\ db' = e
  <2>1. Won(m[p]) => Proven(db')
    BY <1>4, <1>5, <1>7, <1>8, <1>10, WonIsVerified DEF Proven, Complete, SameEvidence
  <2>2. PICK c : c = "publish"
    OBVIOUS
  <2>3. m' = [m EXCEPT ![p] = Goto(p, c)]
    BY <1>10, <2>2
  <2> QED
    BY <1>4, <1>8, <1>9, <2>1, <2>2, <2>3, Ends
<1>11. CASE m' = [m EXCEPT ![p] = Goto(p, "thrown")]
  <2>1. PICK c : c = "thrown"
    OBVIOUS
  <2>2. c \in Ended /\ c \notin {"failCoverage", "cover", "publish"}
    BY <2>1 DEF Ended
  <2>3. m' = [m EXCEPT ![p] = Goto(p, c)]
    BY <1>11, <2>1
  <2> QED
    BY <1>4, <1>8, <1>9, <2>2, <2>3, Ends
<1> QED
  BY <1>4, <1>10, <1>11

(* Publication, or its failure, is the end of an execution; so is a death. *)
LEMMA PublishStep ==
    ASSUME CollectionInv, NEW p \in Executions, Publish(p) \/ Die(p)
    PROVE  Advanced(p)
<1>1. /\ db' = db
      /\ faults' = faults \/ (faults < MaxFaults /\ faults' = faults + 1)
      /\ \/ m[p].pc = "publish" /\ m' = [m EXCEPT ![p] = Goto(p, "done")]
         \/ m[p].pc = "publish" /\ m' = [m EXCEPT ![p] = Goto(p, "thrown")]
         \/ m' = [m EXCEPT ![p] = Goto(p, "dead")]
  BY DEF Publish, Die, Thrown
<1>2. PICK c : /\ c \in {"done", "thrown", "dead"}
               /\ c = "dead" \/ m[p].pc = "publish"
               /\ m' = [m EXCEPT ![p] = Goto(p, c)]
  BY <1>1
<1>3. c \in Ended /\ c \notin {"failCoverage", "cover", "publish"}
  BY <1>2 DEF Ended
<1>4. LedgerInv(db) /\ Behaves(m[p], db, db) /\ SameEvidence(db, db) /\ db \in Ledger
  BY Facts, NothingWritten DEF SameEvidence
<1>5. m[p].own # {} => Begun(db)
  BY ConsistentHere DEF Consistent
<1>6. c = "dead" \/ (faults' <= 1 => \A g \in m[p].own : db.attempt[g] \in EndedAttempt)
  BY <1>1, <1>2, EndingHere, Facts
<1> QED
  BY <1>1, <1>2, <1>3, <1>4, <1>5, <1>6, Ends

-----------------------------------------------------------------------------
(* The invariant, and what follows from it.                                *)

(* Every action of an execution is one of the steps above.                 *)
LEMMA StepAdvances ==
    ASSUME CollectionInv, NEW p \in Executions, Step(p) \/ Die(p)
    PROVE  Advanced(p)
BY EarlySteps, BeginAttemptStep, InsertAttemptStep, RunAttemptStep, SyncStep,
   RecordPageStep, ObserveStep, CloseAttemptStep, FailAttemptStep, FailRunStep,
   FailCoverageStep, ConcludeStep, CoverStep, PublishStep DEF Step

(* Only an execution that won puts its snapshot at the candidate path.     *)
LEMMA FilesKept ==
    ASSUME CollectionInv, NEW p \in Executions, Step(p) \/ Die(p)
    PROVE  /\ staging' \subseteq Executions /\ candidate' \in Executions \cup {NoExecution}
           /\ candidate' # NoExecution => candidate # NoExecution \/ Proven(db)
<1>0. staging \subseteq Executions /\ candidate \in Executions \cup {NoExecution}
  BY DEF CollectionInv, TypeInv
<1>1. CASE CreateRun(p) \/ InsertRun(p) \/ Preflight(p) \/ Start(p) \/ FailRun(p) \/ Conclude(p)
  BY <1>0, <1>1 DEF CreateRun, InsertRun, Preflight, Start, FailRun, Conclude, TransitionRun
<1>2. CASE \/ BeginAttempt(p) \/ InsertAttempt(p) \/ RunAttempt(p) \/ RecordPage(p)
           \/ Observe(p) \/ CloseAttempt(p) \/ FailAttempt(p) \/ Cover(p) \/ Die(p)
  BY <1>0, <1>2 DEF BeginAttempt, InsertAttempt, RunAttempt, RecordPage, Observe,
     CloseAttempt, FailAttempt, Cover, Die
<1>3. CASE Sync(p) \/ FailCoverage(p)
  BY <1>0, <1>3 DEF Sync, FailCoverage
<1>4. CASE Publish(p)
  <2>1. /\ m[p].pc = "publish" /\ staging' = staging \ {p}
        /\ candidate' = candidate \/ (candidate' = p /\ RunStatus(p) = "SUCCEEDED")
    BY <1>4 DEF Publish
  <2>2. RunStatus(p) = "SUCCEEDED" => Proven(db)
    BY <2>1, RunStatusIs, Facts DEF ConcludedInv
  <2> QED
    BY <1>0, <2>1, <2>2
<1> QED
  BY <1>1, <1>2, <1>3, <1>4 DEF Step

(* The invariant is inductive: the step of one execution advances it, and  *)
(* leaves the others where they were.                                      *)
LEMMA InvStep == CollectionInv /\ [Next]_vars => CollectionInv'
<1> SUFFICES ASSUME CollectionInv, [Next]_vars PROVE CollectionInv'
  OBVIOUS
<1>1. CASE UNCHANGED vars
  BY <1>1 DEF vars, CollectionInv, TypeInv, OneInv
<1>2. CASE Next
  <2>1. PICK p \in Executions : Step(p) \/ Die(p)
    BY <1>2 DEF Next
  <2>2. Advanced(p)
    BY <2>1, StepAdvances
  <2>3. /\ m' \in [Executions -> Memory] /\ \A q \in Executions \ {p} : m'[q] = m[q]
        /\ db' \in Ledger /\ LedgerInv(db') /\ Behaves(m[p], db, db')
        /\ faults' \in 0..MaxFaults /\ faults <= faults'
        /\ ExecutionInv(m'[p], db', faults')
        /\ m[p].own \subseteq m'[p].own
        /\ Collects(m'[p]) => Collects(m[p]) \/ ~Begun(db)
        /\ \A g \in Grains : db'.attempt[g] \notin {"none", "PLANNED"} =>
             db.attempt[g] \notin {"none", "PLANNED"} \/ g \in m'[p].own
    BY <2>2 DEF Advanced
  <2>4. /\ \A q, r \in Executions : Collects(m[q]) /\ Collects(m[r]) => q = r
        /\ \A g \in Grains : db.attempt[g] \notin {"none", "PLANNED"} =>
             \E q \in Executions : g \in m[q].own
    BY DEF CollectionInv, OneInv
  <2>5. ASSUME NEW q \in Executions, q # p PROVE ExecutionInv(m[q], db', faults')
    <3>1. m[q] \in Memory /\ m[p] \in Memory /\ db \in Ledger /\ faults \in Nat
          /\ ExecutionInv(m[q], db, faults)
      BY Facts
    <3>2. faults' \in Nat
      BY <2>3
    <3>3. ~(Collects(m[q]) /\ Collects(m[p]))
      BY <2>4, <2>5
    <3> QED
      BY <2>3, <3>1, <3>2, <3>3, OthersKeep
  <2>6. \A q \in Executions : ExecutionInv(m'[q], db', faults')
    BY <2>3, <2>5
  <2>7. \A q, r \in Executions : Collects(m'[q]) /\ Collects(m'[r]) => q = r
    <3>1. \A q \in Executions : Collects(m[q]) => Begun(db)
      BY Facts DEF CollectorInv
    <3>2. \A q \in Executions : q # p => (Collects(m'[q]) <=> Collects(m[q]))
      BY <2>3
    <3> QED
      BY <2>3, <2>4, <3>1, <3>2
  <2>8. \A g \in Grains : db'.attempt[g] \notin {"none", "PLANNED"} =>
           \E q \in Executions : g \in m'[q].own
    <3>1. \A q \in Executions : m[q].own \subseteq m'[q].own
      BY <2>3
    <3> QED
      BY <2>3, <2>4, <3>1
  <2>9. Proven(db) => Proven(db')
    BY <2>3, Facts, ProvenStays DEF Behaves
  <2>10. /\ staging' \subseteq Executions /\ candidate' \in Executions \cup {NoExecution}
         /\ candidate' # NoExecution => candidate # NoExecution \/ Proven(db)
    BY <2>1, FilesKept
  <2>11. candidate' # NoExecution => Proven(db')
    BY <2>9, <2>10 DEF CollectionInv
  <2> QED
    BY <2>3, <2>6, <2>7, <2>8, <2>10, <2>11 DEF CollectionInv, TypeInv, OneInv
<1> QED
  BY <1>1, <1>2

(* Executions that have not started, over an empty ledger.                 *)
LEMMA InitInv == Init => CollectionInv
<1> SUFFICES ASSUME Init PROVE CollectionInv
  OBVIOUS
<1>1. NoAnswer \in Answer /\ NoAnswer.pages = 0 /\ NoAnswer.clean /\ ~NoAnswer.gates
  BY PlanAssumption DEF NoAnswer, Answer
<1>2. /\ Fresh \in Memory /\ Fresh.pc = "create" /\ Fresh.own = {} /\ Fresh.page = 1
      /\ ~Fresh.synced /\ \A g \in Grains : Fresh.outcome[g] = "none" /\ Fresh.got[g] = NoAnswer
  BY <1>1 DEF Fresh, Memory, Counters
<1>3. NoCoverage \in Coverage /\ ~NoCoverage.complete
  BY DEF NoCoverage, Coverage
<1>4. /\ db.run = "none" /\ db.observed = {} /\ db.coverage = NoCoverage
      /\ \A g \in Grains : db.attempt[g] = "none" /\ db.pages[g] = <<>>
  BY DEF Init
<1>5. db \in Ledger
  <2>1. <<>> \in Seq({"SUCCEEDED", "PARTIAL"})
    BY EmptySeq
  <2>2. PICK a, c : /\ a = [g \in Grains |-> "none"] /\ c = [g \in Grains |-> <<>>]
    OBVIOUS
  <2>3. a \in [Grains -> AttemptStatuses] /\ c \in [Grains -> Seq({"SUCCEEDED", "PARTIAL"})]
    BY <2>1, <2>2 DEF AttemptStatuses
  <2>4. db = [run |-> "none", attempt |-> a, pages |-> c, observed |-> {},
              coverage |-> NoCoverage]
    BY <2>2 DEF Init
  <2> QED
    BY <1>3, <2>3, <2>4 DEF Ledger, RunStatuses
<1>6. TypeInv
  BY <1>2, <1>5, PlanAssumption DEF Init, TypeInv
<1>7. LedgerInv(db)
  BY <1>3, <1>4 DEF LedgerInv, LateInv, EndedRun
<1>8. ASSUME NEW p \in Executions PROVE ExecutionInv(m[p], db, faults) /\ ~Collects(m[p])
  <2>1. m[p] = Fresh
    BY DEF Init
  <2>2. Untouched(Fresh) /\ ~Collects(Fresh)
    BY <1>1, <1>2 DEF Untouched, Collects
  <2>3. CollectorInv(Fresh, db)
    BY <1>2, <2>2 DEF CollectorInv
  <2>4. AnswerInv(Fresh, db) /\ OutcomeInv(Fresh, db)
    BY <1>1, <1>2 DEF AnswerInv, OutcomeInv
  <2>5. OpeningInv(Fresh, db) /\ ClosingInv(Fresh, db) /\ FailingInv(Fresh, db, faults)
        /\ ConcludedInv(Fresh, db)
    BY <1>2 DEF OpeningInv, ClosingInv, FailingInv, ConcludedInv
  <2> QED
    BY <2>1, <2>2, <2>3, <2>4, <2>5 DEF ExecutionInv
<1>9. OneInv
  BY <1>4, <1>8 DEF OneInv
<1>10. candidate = NoExecution
  BY DEF Init
<1> QED
  BY <1>6, <1>7, <1>8, <1>9, <1>10 DEF CollectionInv

(* The invariant holds always.                                             *)
LEMMA InvCorrect == Spec => []CollectionInv
BY InitInv, InvStep, PTL DEF Spec

(* Executions share the ledger without disturbing it: one of them collects,*)
(* and after at most one failed call it has closed what it opened.         *)
THEOREM CollectionIsSafe == Spec => []CollectionSafety
<1>1. CollectionInv => CollectionSafety
  <2> SUFFICES ASSUME CollectionInv PROVE TypeOK /\ OneCollector /\ OwnAttemptsClosed
    BY DEF CollectionSafety
  <2>1. TypeOK
    <3>1. /\ db \in Ledger /\ m \in [Executions -> Memory]
          /\ staging \subseteq Executions /\ candidate \in Executions \cup {NoExecution}
          /\ faults \in 0..MaxFaults
      BY DEF CollectionInv, TypeInv
    <3>2. \A p \in Executions :
             /\ m[p].pc \in Counters /\ m[p].own \subseteq Grains
             /\ m[p].outcome \in [Grains -> {"none"} \cup EndedAttempt]
      BY <3>1, MemoryFields
    <3> QED
      BY <3>1, <3>2, LedgerFields DEF TypeOK
  <2>2. OneCollector
    BY DEF CollectionInv, OneInv, OneCollector, Collects
  <2>3. OwnAttemptsClosed
    BY Facts DEF OwnAttemptsClosed, FailingInv
  <2> QED
    BY <2>1, <2>2, <2>3
<1> QED
  BY <1>1, InvCorrect, PTL

(* A snapshot at the candidate path has every database gate behind it,     *)
(* whatever a second execution, a lost answer or a death did meanwhile.    *)
THEOREM CandidatesAreProven == Spec => []CandidateIsProven
<1>1. CollectionInv => CandidateIsProven
  <2> SUFFICES ASSUME CollectionInv, candidate # NoExecution
               PROVE  /\ db.run = "SUCCEEDED"
                      /\ \A g \in Grains :
                           /\ db.attempt[g] = "SUCCEEDED"
                           /\ Len(db.pages[g]) > 0
                           /\ \A k \in DOMAIN db.pages[g] : db.pages[g][k] = "SUCCEEDED"
                      /\ Statistics \subseteq db.observed
                      /\ /\ db.coverage.complete /\ db.coverage.verified
                         /\ db.coverage.reason = "none"
    BY DEF CandidateIsProven
  <2>1. Proven(db) /\ LedgerInv(db) /\ db \in Ledger
    BY DEF CollectionInv, TypeInv
  <2>2. \A g \in Grains : db.attempt[g] = "SUCCEEDED" /\ Evident(db, g)
    BY <2>1 DEF Proven, LedgerInv
  <2>3. \A g \in Grains : DOMAIN db.pages[g] = 1..Len(db.pages[g])
    BY <2>1, LedgerFields, LenProperties
  <2>4. Statistics \subseteq db.observed
    BY <2>2, PlanAssumption DEF Evident
  <2> QED
    BY <2>1, <2>2, <2>3, <2>4 DEF Proven, Evident
<1> QED
  BY <1>1, InvCorrect, PTL

-----------------------------------------------------------------------------
(* Evidence is there only when every grain has been started.               *)
FetchedInv ==
    \A g \in Grains : db.pages[g] # <<>> =>
        \A h \in Grains : db.attempt[h] \notin {"none", "PLANNED"}

(* What a step may do to the evidence: a page goes to an open attempt of a *)
(* plan that has been started, an observation to a run that has not ended, *)
(* and an attempt becomes PARTIAL over some page.                          *)
LEMMA EvidenceStep ==
    ASSUME CollectionInv, NEW p \in Executions, Step(p) \/ Die(p)
    PROVE  /\ \A g \in Grains : db'.pages[g] # db.pages[g] =>
                /\ db.attempt[g] \in OpenAttempt
                /\ \A h \in Grains : db.attempt[h] \notin {"none", "PLANNED"}
           /\ db'.pages = db.pages \/ \E g \in Grains : db'.pages[g] # db.pages[g]
           /\ db'.observed = db.observed \/ db.run \notin EndedRun
           /\ \A g \in Grains : db'.attempt[g] = "PARTIAL" =>
                db.attempt[g] = "PARTIAL" \/ Len(db.pages[g]) > 0
<1>0. db \in Ledger /\ db' \in Ledger
  BY StepAdvances, Facts DEF Advanced
<1>1. ASSUME NEW s, NEW c,
             db' = db \/ db' = [db EXCEPT !.run = s] \/ db' = [db EXCEPT !.coverage = c]
      PROVE  SameEvidence(db, db')
  BY <1>0, <1>1 DEF SameEvidence, Ledger
<1>2. CASE CreateRun(p) \/ InsertRun(p) \/ Preflight(p) \/ Start(p) \/ BeginAttempt(p)
           \/ Sync(p) \/ FailRun(p) \/ Conclude(p) \/ Publish(p) \/ Die(p)
  <2>1. \E s : db' = db \/ db' = [db EXCEPT !.run = s]
    BY <1>2 DEF CreateRun, InsertRun, Preflight, Start, BeginAttempt, Sync, FailRun,
       Conclude, Publish, Die, TransitionRun, Call
  <2> QED
    BY <1>1, <2>1 DEF SameEvidence
<1>3. CASE FailCoverage(p) \/ Cover(p)
  <2>1. \E c : db' = db \/ db' = [db EXCEPT !.coverage = c]
    BY <1>3 DEF FailCoverage, Cover, Call, Covered
  <2> QED
    BY <1>1, <2>1 DEF SameEvidence
<1>4. ASSUME NEW g \in Grains, NEW s \in AttemptStatuses,
             db' = db \/ db' = [db EXCEPT !.attempt[g] = s],
             s = "PARTIAL" => Len(db.pages[g]) > 0
      PROVE  /\ db'.pages = db.pages /\ db'.observed = db.observed
             /\ \A h \in Grains : db'.attempt[h] = "PARTIAL" =>
                  db.attempt[h] = "PARTIAL" \/ Len(db.pages[h]) > 0
  BY <1>0, <1>4, AttemptWritten DEF AttemptIs
<1>5. CASE InsertAttempt(p) \/ RunAttempt(p) \/ FailAttempt(p)
  <2>1. PICK g : g = Plan[m[p].i]
    OBVIOUS
  <2>2. m[p].i \in 1..Len(Plan)
    <3>1. \/ m[p].pc \in {"inserting", "run"}
          \/ m[p].pc = "failing" /\ m[p].i <= Len(Plan)
      BY <1>5 DEF InsertAttempt, RunAttempt, FailAttempt
    <3> QED
      BY <3>1, Facts, PlanFacts DEF OpeningInv, FailingInv
  <2>3. g \in Grains
    BY <2>1, <2>2, PlanFacts
  <2>4. \E s \in {"PLANNED", "RUNNING", "FAILED"} :
          db' = db \/ db' = [db EXCEPT !.attempt[g] = s]
    BY <1>5, <2>1 DEF InsertAttempt, RunAttempt, FailAttempt, Call
  <2>5. PICK s \in {"PLANNED", "RUNNING", "FAILED"} :
          db' = db \/ db' = [db EXCEPT !.attempt[g] = s]
    BY <2>4
  <2>6. s \in AttemptStatuses /\ s # "PARTIAL"
    BY <2>5 DEF AttemptStatuses, OpenAttempt, EndedAttempt
  <2> QED
    BY <1>4, <2>3, <2>5, <2>6
<1>6. CASE CloseAttempt(p)
  <2>1. PICK g, n, s : /\ g = Closing(p) /\ n = m[p].got[g].pages
                       /\ s = ClosingStatus(p, g)
    OBVIOUS
  <2>2. m[p].pc = "closing" /\ m[p].i <= Len(CloseOrder) /\ g = CloseOrder[m[p].i]
        /\ m[p].page > n
    BY <1>6, <2>1 DEF CloseAttempt, Closing
  <2>3. g \in Grains
    BY <2>2, ClosingHere
  <2>4. CASE g \in m[p].own
    <3>1. s \in EndedAttempt /\ AttemptMayBecome(db, g, s, n)
      BY <2>1, <2>2, <2>4, ClosingStatusFits
    <3>2. s \in AttemptStatuses /\ (s = "PARTIAL" => Len(db.pages[g]) > 0)
      BY <3>1 DEF AttemptStatuses, AttemptMayBecome
    <3>3. db' = db \/ db' = [db EXCEPT !.attempt[g] = s]
      BY <1>6, <2>1, <2>4 DEF CloseAttempt, Call
    <3> QED
      BY <1>4, <2>3, <3>2, <3>3
  <2>5. CASE g \notin m[p].own
    BY <1>6, <2>1, <2>5 DEF CloseAttempt
  <2> QED
    BY <2>4, <2>5
<1>7. CASE RecordPage(p)
  <2>1. PICK g, s, q : /\ g = Closing(p) /\ s = FetchStatus(m[p].got[g], m[p].page)
                       /\ q = Append(db.pages[g], s)
    OBVIOUS
  <2>2. m[p].pc = "closing" /\ m[p].i <= Len(CloseOrder) /\ g = CloseOrder[m[p].i]
        /\ m[p].page <= m[p].got[g].pages
    BY <1>7, <2>1 DEF RecordPage, Closing
  <2>3. g \in Grains /\ m[p].got[g].pages > 0 /\ db.attempt[g] \in OpenAttempt
    BY <2>2, ClosingHere DEF OpenAttempt
  <2>4. \A h \in Grains : db.attempt[h] \notin {"none", "PLANNED"}
    BY <2>3, Facts DEF AnswerInv
  <2>5. db' = db \/ db' = [db EXCEPT !.pages[g] = q]
    BY <1>7, <2>1 DEF RecordPage, Call
  <2>6. s \in {"SUCCEEDED", "PARTIAL"}
    BY <2>1 DEF FetchStatus
  <2>7. CASE db' = [db EXCEPT !.pages[g] = q]
    <3>1. PageIs(db, db', g, s)
      BY <1>0, <2>1, <2>3, <2>6, <2>7, PageWritten
    <3>2. db'.pages[g] # db.pages[g]
      BY <1>0, <2>3, <3>1, LedgerFields DEF PageIs
    <3> QED
      BY <2>3, <2>4, <3>1, <3>2 DEF PageIs
  <2> QED
    BY <2>5, <2>7
<1>8. CASE Observe(p)
  <2>1. db' = db \/ (db.run \notin EndedRun /\ \E o : db' = [db EXCEPT !.observed = o])
    BY <1>8 DEF Observe, Call
  <2> QED
    BY <1>0, <2>1 DEF Ledger
<1> QED
  BY <1>2, <1>3, <1>5, <1>6, <1>7, <1>8 DEF Step

(* Evidence is written after the whole plan was started, and no attempt    *)
(* ever goes back.                                                         *)
LEMMA FetchedStep == CollectionInv /\ FetchedInv /\ [Next]_vars => FetchedInv'
<1> SUFFICES ASSUME CollectionInv, FetchedInv, Next PROVE FetchedInv'
  BY DEF FetchedInv, vars
<1>1. PICK p \in Executions : Step(p) \/ Die(p)
  BY DEF Next
<1>2. Grows(db, db')
  BY <1>1, StepAdvances DEF Advanced, Behaves
<1> QED
  BY <1>1, <1>2, EvidenceStep DEF FetchedInv, Grows

(* Evidence is final: whoever could still write some has opened the whole  *)
(* plan, and no run ends over two open attempts.                           *)
THEOREM EvidenceIsFinal == Spec => EndedIsFinal
<1> DEFINE Final ==
        /\ db.run \in EndedRun =>
             /\ db'.run = db.run /\ db'.pages = db.pages /\ db'.observed = db.observed
             /\ \A g \in Grains : db'.attempt[g] # db.attempt[g] =>
                   /\ db.run = "FAILED" /\ db.pages[g] = <<>>
                   /\ db'.attempt[g] \in OpenAttempt \cup {"FAILED"}
        /\ \A g \in Grains : db.attempt[g] \in EndedAttempt =>
             db'.attempt[g] = db.attempt[g] /\ db'.pages[g] = db.pages[g]
<1>1. ASSUME CollectionInv, FetchedInv, Next PROVE Final
  <2>1. PICK p \in Executions : Step(p) \/ Die(p)
    BY <1>1 DEF Next
  <2>2. /\ db \in Ledger /\ db' \in Ledger /\ LedgerInv(db) /\ LedgerInv(db')
        /\ Grows(db, db') /\ (Collects(m[p]) \/ SameEvidence(db, db'))
    BY <1>1, <2>1, StepAdvances, Facts DEF Advanced, Behaves, CollectionInv
  <2>3. \A g \in Grains : db.attempt[g] \in EndedAttempt =>
          db'.attempt[g] = db.attempt[g] /\ db'.pages[g] = db.pages[g]
    BY <1>1, <2>1, <2>2, EvidenceStep DEF Grows, EndedAttempt, OpenAttempt
  <2>4. ASSUME db.run \in EndedRun, NEW h \in Grains, db.attempt[h] \notin EndedAttempt
        PROVE  \E g \in Grains : db.attempt[g] \in {"none", "PLANNED"}
    <3>1. CASE ~AttemptsClosed(db)
      <4>1. Opened(db) \subseteq {Plan[1]}
        BY <2>2, <2>4, <3>1 DEF LedgerInv, LateInv
      <4>2. Plan[2] \in Grains /\ Plan[2] # Plan[1]
        BY PlanFacts
      <4> QED
        BY <4>1, <4>2 DEF Opened
    <3>2. CASE AttemptsClosed(db)
      BY <2>2, <2>4, <3>2, LedgerFields
         DEF AttemptsClosed, AttemptStatuses, OpenAttempt, EndedAttempt
    <3> QED
      BY <3>1, <3>2
  <2>5. ASSUME db.run \in EndedRun PROVE db'.pages = db.pages
    <3>1. ASSUME NEW g \in Grains, db'.pages[g] # db.pages[g] PROVE FALSE
      <4>1. /\ db.attempt[g] \notin EndedAttempt
            /\ \A h \in Grains : db.attempt[h] \notin {"none", "PLANNED"}
        BY <1>1, <2>1, <3>1, EvidenceStep DEF OpenAttempt, EndedAttempt
      <4> QED
        BY <2>4, <2>5, <4>1
    <3> QED
      BY <1>1, <2>1, <3>1, EvidenceStep
  <2>6. ASSUME db.run \in EndedRun, NEW g \in Grains, db'.attempt[g] # db.attempt[g]
        PROVE  /\ db.run = "FAILED" /\ db.pages[g] = <<>>
               /\ db'.attempt[g] \in OpenAttempt \cup {"FAILED"}
    <3>1. db.attempt[g] \notin EndedAttempt
      BY <2>2, <2>6 DEF Grows
    <3>2. db.pages[g] = <<>>
      BY <1>1, <2>4, <2>6, <3>1 DEF FetchedInv
    <3>3. db.run = "FAILED"
      <4>1. Collects(m[p])
        BY <2>2, <2>6 DEF SameEvidence
      <4>2. CASE db.run \in {"SUCCEEDED", "PARTIAL"}
        <5>1. m[p].pc \in {"cover", "publish"} \cup Ended
          BY <1>1, <4>1, <4>2, Facts DEF CollectorInv
        <5>2. Cover(p) \/ Publish(p) \/ Die(p)
          BY <2>1, <5>1 DEF Step, CreateRun, InsertRun, Preflight, Start, TransitionRun,
             BeginAttempt, InsertAttempt, RunAttempt, Sync, RecordPage, Observe,
             CloseAttempt, FailAttempt, FailRun, FailCoverage, Conclude, Ended
        <5>3. db' = db \/ \E c : db' = [db EXCEPT !.coverage = c]
          BY <5>2 DEF Cover, Publish, Die, Call, Covered
        <5> QED
          BY <2>2, <2>6, <5>3 DEF Ledger
      <4> QED
        BY <2>6, <4>2 DEF EndedRun
    <3>4. Len(db.pages[g]) = 0 /\ db'.pages[g] = db.pages[g]
      BY <2>5, <2>6, <3>2, EmptySeq
    <3>5. db'.attempt[g] \notin {"none", "SUCCEEDED", "PARTIAL"}
      <4>1. db'.attempt[g] # "none"
        BY <2>2, <2>6 DEF Grows
      <4>2. db'.attempt[g] # "SUCCEEDED"
        BY <2>2, <3>4 DEF LedgerInv, Evident
      <4>3. db'.attempt[g] # "PARTIAL"
        BY <1>1, <2>1, <3>1, <3>4, EvidenceStep DEF EndedAttempt
      <4> QED
        BY <4>1, <4>2, <4>3
    <3> QED
      BY <2>2, <3>2, <3>3, <3>5, LedgerFields
         DEF AttemptStatuses, OpenAttempt, EndedAttempt
  <2>7. db.run \in EndedRun => db'.run = db.run /\ db'.observed = db.observed
    BY <1>1, <2>1, <2>2, EvidenceStep DEF Grows
  <2> QED
    BY <2>3, <2>5, <2>6, <2>7
<1>2. Init => FetchedInv
  BY DEF Init, FetchedInv
<1>3. CollectionInv /\ FetchedInv /\ [Next]_vars => [Final]_vars
  BY <1>1
<1> HIDE DEF Final
<1>4. Spec => [][Final]_vars
  BY <1>2, <1>3, FetchedStep, InvCorrect, PTL DEF Spec
<1> QED
  BY <1>4 DEF Final, EndedIsFinal
=============================================================================
