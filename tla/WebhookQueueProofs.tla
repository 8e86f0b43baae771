------------------------- MODULE WebhookQueueProofs -------------------------
(***************************************************************************)
(* Proofs about WebhookQueue for every set of pushes, workers, requests    *)
(* and every bound: type correctness; from one inductive invariant, atomic *)
(* settling, the single effect, durable acknowledgements and the refinement *)
(* of WebhookInbox; from two more, the fencing of stale workers (LeasesInv) *)
(* and the authorization gate (GateInv).                                   *)
(***************************************************************************)
EXTENDS WebhookQueue, TLAPS

(* The job rows that storing, claiming, settling and releasing write are   *)
(* well-typed.                                                             *)
LEMMA JobFacts ==
    /\ NoJob \in Job /\ QueuedJob \in Job
    /\ \A j \in Job, e \in Errors : DeadLetter(j, e) \in Job
    /\ \A j \in Job, e \in Errors : ReleasedJob(j, e) \in Job
    /\ \A j \in Job, w \in Workers : Claimable(j) => Leased(j, w) \in Job
<1> USE QueueAssumption DEF Job
<1>1. NoJob \in Job
  BY DEF NoJob, Statuses, Errors
<1>2. QueuedJob \in Job
  BY <1>1 DEF QueuedJob, Statuses, Active
<1>3. ASSUME NEW j \in Job, NEW e \in Errors PROVE DeadLetter(j, e) \in Job
  BY DEF DeadLetter, Statuses
<1>4. ASSUME NEW j \in Job, NEW e \in Errors PROVE ReleasedJob(j, e) \in Job
  BY <1>3 DEF ReleasedJob, Statuses, Active
<1>5. ASSUME NEW j \in Job, NEW w \in Workers, Claimable(j)
      PROVE Leased(j, w) \in Job
  <2>1. j.attempts + 1 \in 0..MaxAttempts
    BY <1>5 DEF Claimable
  <2> QED
    BY <2>1 DEF Leased, Statuses, Active
<1> QED
  BY <1>1, <1>2, <1>3, <1>4, <1>5

(* Storing a push again leaves a well-typed receipt.                       *)
LEMMA ReceiptFacts == \A rc \in Receipt : AfterStore(rc) \in Receipt
<1> SUFFICES ASSUME NEW rc \in Receipt PROVE AfterStore(rc) \in Receipt
  OBVIOUS
<1>1. CASE rc.stored
  <2>1. rc.dup + 1 \in Nat
    BY DEF Receipt
  <2> QED
    BY <1>1, <2>1 DEF AfterStore, Receipt
<1>2. CASE ~rc.stored
  BY <1>2 DEF AfterStore, Receipt
<1> QED
  BY <1>1, <1>2

(* A worker that holds nothing is well-typed.                              *)
LEMMA InitWorker == IdleWorker \in Worker
<1>1. 0 \in 0..MaxAttempts /\ "" \in Errors
  BY QueueAssumption DEF Errors
<1> QED
  BY <1>1 DEF IdleWorker, Worker

(* The empty queue is well-typed.                                          *)
LEMMA InitType == Init => TypeOK
<1> SUFFICES ASSUME Init PROVE TypeOK
  OBVIOUS
<1> USE DEF Init
<1>1. ReqType
  BY DEF ReqType, IdleRequest
<1>2. WorkerType
  BY InitWorker DEF WorkerType, IdleWorker
<1>3. JobType
  BY JobFacts DEF JobType
<1>4. GateType /\ ReceiptType
  BY DEF GateType, Gate, NoGate, ReceiptType, Receipt
<1>5. OutcomeType /\ CountType
  BY DEF OutcomeType, CountType
<1> QED
  BY <1>1, <1>2, <1>3, <1>4, <1>5 DEF TypeOK

(* The receiver's steps keep the types.                                    *)
LEMMA ReceiverType ==
    ASSUME TypeOK, NEW r \in Requests, ReceiverStep(r)
    PROVE  TypeOK'
<1> USE DEF TypeOK, ReqType, ReceiptType, CountType
<1>0. /\ UNCHANGED <<worker, outcomeVars, gateVars, replays>>
      /\ WorkerType' /\ GateType' /\ OutcomeType'
  BY DEF ReceiverStep, ReceivePush, IngressDeadline, StoreCommits, StoreAborts,
         WorkerType, GateType, OutcomeType, outcomeVars, gateVars
<1>1. ASSUME NEW k \in Keys, ReceivePush(r, k) PROVE TypeOK'
  BY <1>0, <1>1 DEF ReceivePush, JobType
<1>2. CASE IngressDeadline(r)
  BY <1>0, <1>2 DEF IngressDeadline, JobType
<1>3. CASE StoreCommits(r)
  <2>1. req[r].key \in Keys
    BY <1>3 DEF StoreCommits
  <2>2. JobType'
    BY <1>3, <2>1, JobFacts DEF StoreCommits, JobType, JobAfterStore
  <2>3. ReceiptType'
    <3>1. AfterStore(receipt[req[r].key]) \in Receipt
      BY <2>1, ReceiptFacts
    <3> QED
      BY <1>3, <2>1, <3>1 DEF StoreCommits
  <2>4. ReqType'
    BY <1>3 DEF StoreCommits, IdleRequest
  <2>5. CountType'
    BY <1>0, <1>3, <2>1 DEF StoreCommits
  <2> QED
    BY <1>0, <2>2, <2>3, <2>4, <2>5
<1>4. CASE StoreAborts(r)
  BY <1>0, <1>4 DEF StoreAborts, IdleRequest, JobType
<1> QED
  BY <1>1, <1>2, <1>3, <1>4 DEF ReceiverStep

(* Time passing keeps the types.                                           *)
LEMMA TimeType ==
    ASSUME TypeOK, TimeStep
    PROVE  TypeOK'
<1> USE DEF TypeOK
<1>1. CASE Tick
  BY <1>1 DEF Tick, receiverVars, outcomeVars, ReqType, ReceiptType, JobType,
      WorkerType, OutcomeType, GateType, CountType
<1>2. ASSUME NEW k \in Keys, LeaseExpires(k) \/ RetryDue(k) PROVE TypeOK'
  <2>1. \/ job' = [job EXCEPT ![k] = [@ EXCEPT !.live = FALSE]]
        \/ job' = [job EXCEPT ![k] = [@ EXCEPT !.ready = TRUE]]
    BY <1>2 DEF LeaseExpires, RetryDue
  <2>2. /\ [job[k] EXCEPT !.live = FALSE] \in Job
        /\ [job[k] EXCEPT !.ready = TRUE] \in Job
    BY DEF JobType, Job
  <2>3. JobType'
    BY <2>1, <2>2 DEF JobType
  <2> QED
    BY <1>2, <2>3 DEF LeaseExpires, RetryDue, receiverVars, outcomeVars,
        gateVars, ReqType, ReceiptType, WorkerType, OutcomeType, GateType,
        CountType
<1> QED
  BY <1>1, <1>2 DEF TimeStep

(* A claim leases a well-typed job and counts one attempt more.            *)
LEMMA ClaimType ==
    ASSUME TypeOK, NEW w \in Workers, Claim(w)
    PROVE  TypeOK'
<1> USE DEF TypeOK
<1>0. ReqType' /\ ReceiptType' /\ OutcomeType' /\ GateType' /\ CountType'
  BY DEF Claim, receiverVars, outcomeVars, gateVars, ReqType, ReceiptType,
      OutcomeType, GateType, CountType
<1>1. ASSUME NEW k \in Keys \cup {NoKey}, k \in Keys => Claimable(job[k])
      PROVE  ClaimStatement(w, k) \in [Keys -> Job]
  <2>1. "LEASE_EXHAUSTED" \in Errors
    BY DEF Errors
  <2> QED
    BY <1>1, <2>1, JobFacts DEF ClaimStatement, JobType
<1>2. ASSUME NEW k \in Keys, Claimable(job[k]),
             job' = ClaimStatement(w, k),
             worker' = [worker EXCEPT ![w] =
                          [pc |-> "processing", key |-> k,
                           attempt |-> job[k].attempts + 1, err |-> ""]]
      PROVE  TypeOK'
  <2>1. job[k].attempts + 1 \in 0..MaxAttempts
    <3>1. job[k] \in Job /\ Claimable(job[k])
      BY <1>2 DEF JobType
    <3>2. job[k].attempts \in 0..MaxAttempts /\ job[k].attempts < MaxAttempts
      BY <3>1 DEF Job, Claimable
    <3> QED
      BY <3>2, QueueAssumption
  <2>2. WorkerType'
    BY <1>2, <2>1 DEF WorkerType, Worker, Errors
  <2> QED
    BY <1>0, <1>1, <1>2, <2>2 DEF JobType
<1>3. CASE job' = ClaimStatement(w, NoKey) /\ UNCHANGED worker
  <2>1. NoKey \notin Keys
    BY QueueAssumption
  <2> QED
    BY <1>0, <1>1, <1>3, <2>1 DEF JobType, WorkerType
<1> QED
  BY <1>2, <1>3 DEF Claim

(* Settling a job keeps the types of everything the transaction writes.    *)
LEMMA SettleType ==
    ASSUME TypeOK, NEW w \in Workers, CompleteTransaction(w)
    PROVE  /\ ReqType' /\ ReceiptType' /\ JobType' /\ OutcomeType'
           /\ GateType' /\ CountType'
<1> USE DEF TypeOK
<1> DEFINE k == worker[w].key
<1>1. k \in Keys
  BY DEF CompleteTransaction, WorkerType
<1>2. JobType'
  <2>1. SettledJob(k) \in Job
    <3>1. FinalStatus(k) \in Statuses /\ "" \in Errors
      BY DEF FinalStatus, Statuses, Settled, Errors
    <3>2. job[k] \in Job
      BY <1>1 DEF JobType
    <3> QED
      BY <3>1, <3>2 DEF SettledJob, Job
  <2> QED
    BY <1>1, <2>1 DEF CompleteTransaction, JobType
<1>3. OutcomeType'
  <2>1. (directive[k] \/ Hydrates(k)) \in BOOLEAN
    BY Zenon
  <2>2. directive' \in [Keys -> BOOLEAN]
    BY <1>1, <2>1, Zenon DEF CompleteTransaction, OutcomeType
  <2>3. event' \in [Keys -> BOOLEAN]
    BY <1>1 DEF CompleteTransaction, OutcomeType
  <2>4. done' \in [Keys -> [count : Nat, at : Nat]]
    BY <1>1 DEF CompleteTransaction, OutcomeType, GateType
  <2> QED
    BY <2>2, <2>3, <2>4 DEF OutcomeType
<1>4. GateType'
  <2>1. BlockGate(k) \in [Stores -> Gate]
    BY DEF BlockGate, GateType, Gate
  <2> QED
    BY <2>1 DEF CompleteTransaction, GateType
<1> QED
  BY <1>2, <1>3, <1>4 DEF CompleteTransaction, receiverVars, ReqType,
      ReceiptType, CountType

(* A worker's steps keep the types.                                        *)
LEMMA WorkerTypeStep ==
    ASSUME TypeOK, NEW w \in Workers, WorkerStep(w) \/ WorkerCrash(w)
    PROVE  TypeOK'
<1> USE DEF TypeOK
<1>1. IdleWorker \in Worker
  BY InitWorker
<1>2. {"REPLAYABLE", "OTHER"} \subseteq Errors
  BY DEF Errors
<1>3. CASE Claim(w)
  BY <1>3, ClaimType
<1>4. CASE CompleteJob(w)
  <2>1. WorkerType'
    BY <1>1, <1>4 DEF CompleteJob, WorkerType, IdleWorker
  <2> QED
    BY <1>4, <2>1, SettleType DEF CompleteJob
<1>5. CASE CompleteJobAnswerLost(w)
  <2>1. WorkerType'
    BY <1>2, <1>5 DEF CompleteJobAnswerLost, CompleteTransaction, WorkerType, Worker
  <2> QED
    BY <1>5, <2>1, SettleType DEF CompleteJobAnswerLost
<1>6. CASE CompleteJobFails(w) \/ ProcessingFails(w)
  <2>1. PICK e \in Errors :
           /\ worker[w].pc = "processing"
           /\ worker' = [worker EXCEPT ![w].pc = "releasing", ![w].err = e]
    BY <1>2, <1>6 DEF CompleteJobFails, ProcessingFails
  <2>2. [worker[w] EXCEPT !.pc = "releasing", !.err = e] \in Worker
    BY DEF WorkerType, Worker
  <2>3. worker' = [worker EXCEPT ![w] =
                     [worker[w] EXCEPT !.pc = "releasing", !.err = e]]
    BY <2>1
  <2>4. WorkerType'
    BY <2>1, <2>2, <2>3 DEF WorkerType
  <2> QED
    BY <1>6, <2>4 DEF CompleteJobFails, ProcessingFails, receiverVars,
        outcomeVars, gateVars, ReqType, ReceiptType, JobType, OutcomeType,
        GateType, CountType
<1>7. CASE FailJob(w)
  <2>1. worker[w].key \in Keys /\ worker[w].err \in Errors
    BY <1>7 DEF FailJob, WorkerType, Worker
  <2>2. JobType'
    BY <1>7, <2>1, JobFacts DEF FailJob, JobType
  <2>3. WorkerType'
    BY <1>1, <1>7 DEF FailJob, WorkerType, IdleWorker
  <2> QED
    BY <1>7, <2>2, <2>3 DEF FailJob, receiverVars, outcomeVars, gateVars,
        ReqType, ReceiptType, OutcomeType, GateType, CountType
<1>8. CASE FailJobLost(w) \/ WorkerCrash(w)
  <2>0. worker' = [worker EXCEPT ![w] = IdleWorker]
    BY <1>8 DEF FailJobLost, WorkerCrash
  <2>1. WorkerType'
    BY <1>1, <2>0 DEF WorkerType, IdleWorker
  <2> QED
    BY <1>8, <2>1 DEF FailJobLost, WorkerCrash, receiverVars, outcomeVars,
        gateVars, ReqType, ReceiptType, JobType, OutcomeType, GateType,
        CountType
<1> QED
  BY <1>3, <1>4, <1>5, <1>6, <1>7, <1>8 DEF WorkerStep

(* The replay script and the gate's operations keep the types.             *)
LEMMA OperatorType ==
    ASSUME TypeOK, ReplayDeadLetters \/ GateStep
    PROVE  TypeOK'
<1> USE DEF TypeOK
<1>1. CASE ReplayDeadLetters
  <2>1. ASSUME NEW j \in Job
        PROVE  [j EXCEPT !.status = "RETRY", !.attempts = 0,
                         !.ready = TRUE, !.err = ""] \in Job
    <3>1. 0 \in 0..MaxAttempts
      BY QueueAssumption
    <3> QED
      BY <3>1 DEF Job, Statuses, Active, Errors
  <2>2. JobType'
    BY <1>1, <2>1 DEF ReplayDeadLetters, JobType
  <2>3. CountType'
    <3>1. replays' = replays + 1 /\ UNCHANGED <<acks, sent>>
      BY <1>1 DEF ReplayDeadLetters, receiverVars
    <3>2. replays \in Nat
      BY DEF CountType
    <3> QED
      BY <3>1, <3>2 DEF CountType
  <2>4. ReqType' /\ ReceiptType' /\ WorkerType' /\ OutcomeType' /\ GateType'
    BY <1>1 DEF ReplayDeadLetters, receiverVars, outcomeVars, gateVars,
        ReqType, ReceiptType, WorkerType, OutcomeType, GateType
  <2> QED
    BY <2>2, <2>3, <2>4
<1>2. ASSUME NEW st \in Stores, RecordGrantedProbe(st) PROVE TypeOK'
  BY <1>2 DEF RecordGrantedProbe, receiverVars, outcomeVars, ReqType,
      ReceiptType, JobType, WorkerType, OutcomeType, GateType, CountType
<1>3. ASSUME NEW st \in Stores, ReopenGate(st) PROVE TypeOK'
  <2>1. PICK p \in Stores \X Nat :
          gate' = [gate EXCEPT ![st].state = "OPEN", ![st].probeAt = p[2]]
    BY <1>3 DEF ReopenGate, GateType
  <2>2. gate' \in [Stores -> Gate]
    BY <2>1 DEF GateType, Gate
  <2> QED
    BY <1>3, <2>2 DEF ReopenGate, receiverVars, outcomeVars, ReqType,
        ReceiptType, JobType, WorkerType, OutcomeType, GateType, CountType
<1> QED
  BY <1>1, <1>2, <1>3 DEF GateStep

(* Every step keeps the types: attempts never pass the ceiling, and a busy *)
(* process is busy with a push.                                            *)
LEMMA TypeStep == TypeOK /\ [Next]_vars => TypeOK'
<1> SUFFICES ASSUME TypeOK, [Next]_vars PROVE TypeOK'
  OBVIOUS
<1>1. CASE UNCHANGED vars
  BY <1>1 DEF vars, TypeOK, ReqType, ReceiptType, JobType, WorkerType,
      OutcomeType, GateType, CountType
<1> QED
  BY <1>1, ReceiverType, TimeType, WorkerTypeStep, OperatorType DEF Next

(* The columns' CHECKs of ops.webhook_job and the processes' memory hold   *)
(* their types for ever: no job is leased more than max_attempts times.    *)
THEOREM TypeCorrect == Spec => []TypeOK
BY InitType, TypeStep, PTL DEF Spec

-----------------------------------------------------------------------------
(* The inductive invariant, one row at a time: the receipt, its job, what  *)
(* settling wrote and what the platform was told agree with each other.    *)
RowInv(k) ==
    /\ receipt[k].stored <=> job[k].status # "NONE"
    /\ event[k] <=> job[k].status \in Settled
    /\ directive[k] <=> event[k] /\ Hydrates(k)
    /\ done[k].count = IF event[k] THEN 1 ELSE 0
    /\ acks[k] <= IF receipt[k].stored THEN 1 + receipt[k].dup ELSE 0

QueueInv == TypeOK /\ \A k \in Keys : RowInv(k)

(* What leasing, releasing, expiry, dead-lettering and replay may do to a  *)
(* job's status: move it among the unsettled ones.                         *)
Unsettled == Active \cup {"DEAD_LETTER"}
Churn(k) ==
    \/ job'[k].status = job[k].status
    \/ job[k].status \in Unsettled /\ job'[k].status \in Unsettled

(* Nothing has been received, and every worker is idle.                    *)
LEMMA InitInv == Init => QueueInv
<1> SUFFICES ASSUME Init, NEW k \in Keys PROVE RowInv(k)
  BY InitType DEF QueueInv
<1>1. receipt[k] = [stored |-> FALSE, dup |-> 0]
  BY DEF Init
<1>2. job[k] = NoJob
  BY DEF Init
<1>3. done[k] = [count |-> 0, at |-> 0]
  BY DEF Init
<1>4. ~receipt[k].stored
  BY <1>1
<1>5. job[k].status = "NONE"
  <2>1. NoJob.status = "NONE"
    BY DEF NoJob
  <2> QED
    BY <1>2, <2>1
<1>6. done[k].count = 0
  BY <1>3
<1>7. ~event[k] /\ ~directive[k] /\ acks[k] = 0
  BY DEF Init
<1> QED
  BY <1>4, <1>5, <1>6, <1>7 DEF RowInv, Settled

(* A step that leaves the receipt and the outcome alone and only churns    *)
(* the job keeps the row consistent.                                       *)
LEMMA ChurnKeepsRow ==
    ASSUME NEW k \in Keys, RowInv(k), Churn(k),
           UNCHANGED <<receipt, event, directive, done, acks>>
    PROVE  RowInv(k)'
BY DEF RowInv, Churn, Unsettled, Active, Settled

(* Claiming, expiry, retry, release and replay only churn.                 *)
LEMMA QueueStepsChurn ==
    ASSUME TypeOK, NEW k \in Keys,
           \/ TimeStep \/ ReplayDeadLetters \/ GateStep
           \/ \E w \in Workers :
                 \/ Claim(w) \/ CompleteJobFails(w) \/ ProcessingFails(w)
                 \/ FailJob(w) \/ FailJobLost(w) \/ WorkerCrash(w)
    PROVE  Churn(k) /\ UNCHANGED <<receipt, event, directive, done, acks>>
<1>0. job \in [Keys -> Job]
  BY DEF TypeOK, JobType
<1>1. CASE TimeStep
  <2>1. CASE Tick
    BY <2>1 DEF Tick, Churn, receiverVars, outcomeVars
  <2>2. ASSUME NEW x \in Keys, LeaseExpires(x) \/ RetryDue(x)
        PROVE  Churn(k) /\ UNCHANGED <<receipt, event, directive, done, acks>>
    BY <1>0, <2>2 DEF LeaseExpires, RetryDue, Churn, Job, receiverVars, outcomeVars
  <2> QED
    BY <1>1, <2>1, <2>2 DEF TimeStep
<1>2. CASE ReplayDeadLetters
  <2>1. CASE Replayable(k)
    <3>1. job[k] \in Job
      BY <1>0
    <3>2. job'[k].status = "RETRY" /\ job[k].status \in {"DEAD_LETTER", "RETRY"}
      BY <1>2, <2>1, <3>1 DEF ReplayDeadLetters, Replayable, Job
    <3> QED
      BY <1>2, <3>2 DEF ReplayDeadLetters, Churn, Unsettled, Active, receiverVars, outcomeVars
  <2>2. CASE ~Replayable(k)
    BY <1>2, <2>2 DEF ReplayDeadLetters, Churn, receiverVars, outcomeVars
  <2> QED
    BY <2>1, <2>2
<1>3. CASE GateStep
  BY <1>3 DEF GateStep, RecordGrantedProbe, ReopenGate, Churn, receiverVars, outcomeVars
<1>4. ASSUME NEW w \in Workers, Claim(w)
      PROVE  Churn(k) /\ UNCHANGED <<receipt, event, directive, done, acks>>
  <2>1. PICK x \in Keys \cup {NoKey} :
           job' = ClaimStatement(w, x) /\ (x \in Keys => Claimable(job[x]))
    <3>1. CASE \E x \in Keys : Claimable(job[x]) /\ job' = ClaimStatement(w, x)
      BY <3>1
    <3>2. CASE job' = ClaimStatement(w, NoKey)
      BY <3>2, QueueAssumption
    <3> QED
      BY <1>4, <3>1, <3>2 DEF Claim
  <2>2. job[k] \in Job
    BY <1>0
  <2>3. CASE k = x
    <3>1. job'[k] = Leased(job[k], w) /\ Claimable(job[k])
      BY <2>1, <2>3 DEF ClaimStatement
    <3>2. job'[k].status = "RUNNING"
      BY <2>2, <3>1 DEF Leased, Job
    <3> QED
      BY <1>4, <3>1, <3>2 DEF Claim, Churn, Claimable, Unsettled, Active, receiverVars, outcomeVars
  <2>4. CASE k # x /\ Exhausted(job[k])
    <3>1. job'[k] = DeadLetter(job[k], "LEASE_EXHAUSTED")
      BY <2>1, <2>4 DEF ClaimStatement
    <3>2. job'[k].status = "DEAD_LETTER"
      BY <2>2, <3>1 DEF DeadLetter, Job
    <3> QED
      BY <1>4, <2>4, <3>2 DEF Claim, Churn, Exhausted, Unsettled, Active, receiverVars, outcomeVars
  <2>5. CASE k # x /\ ~Exhausted(job[k])
    BY <1>4, <2>1, <2>5 DEF Claim, ClaimStatement, Churn, receiverVars, outcomeVars
  <2> QED
    BY <2>3, <2>4, <2>5
<1>5. ASSUME NEW w \in Workers,
             \/ CompleteJobFails(w) \/ ProcessingFails(w)
             \/ FailJobLost(w) \/ WorkerCrash(w)
      PROVE  Churn(k) /\ UNCHANGED <<receipt, event, directive, done, acks>>
  BY <1>5 DEF CompleteJobFails, ProcessingFails, FailJobLost, WorkerCrash,
      Churn, receiverVars, outcomeVars
<1>6. ASSUME NEW w \in Workers, FailJob(w)
      PROVE  Churn(k) /\ UNCHANGED <<receipt, event, directive, done, acks>>
  <2> DEFINE x == worker[w].key
  <2>1. x \in Keys
    BY <1>6 DEF FailJob, TypeOK, WorkerType
  <2>2. CASE OwnsJob(w, x) /\ k = x
    <3>1. job'[k] = ReleasedJob(job[k], worker[w].err) /\ job[k] \in Job
      BY <1>0, <1>6, <2>1, <2>2 DEF FailJob
    <3>2. job'[k].status \in {"DEAD_LETTER", "RETRY"}
      BY <3>1 DEF ReleasedJob, DeadLetter, Job
    <3> QED
      BY <1>6, <2>2, <3>2 DEF FailJob, Churn, OwnsJob, Unsettled, Active, receiverVars, outcomeVars
  <2>3. CASE ~(OwnsJob(w, x) /\ k = x)
    BY <1>6, <2>3 DEF FailJob, Churn, receiverVars, outcomeVars
  <2> QED
    BY <2>2, <2>3
<1> QED
  BY <1>1, <1>2, <1>3, <1>4, <1>5, <1>6

(* A delivery stores the receipt with its job, or counts a duplicate, and  *)
(* only then answers 200.                                                  *)
LEMMA ReceiverKeepsRow ==
    ASSUME QueueInv, NEW r \in Requests, ReceiverStep(r), NEW k \in Keys
    PROVE  RowInv(k)'
<1> USE DEF QueueInv, TypeOK
<1>1. CASE ~StoreCommits(r)
  <2>1. UNCHANGED <<receipt, event, directive, done, acks, job>>
    BY <1>1 DEF ReceiverStep, ReceivePush, IngressDeadline, StoreAborts, outcomeVars
  <2> QED
    BY <2>1, ChurnKeepsRow DEF Churn
<1>2. CASE StoreCommits(r)
  <2> DEFINE x == req[r].key
  <2>1. x \in Keys
    BY <1>2 DEF StoreCommits, ReqType
  <2>2. UNCHANGED <<event, directive, done>>
    BY <1>2 DEF StoreCommits, outcomeVars
  <2>3. CASE k # x
    <3>1. receipt'[k] = receipt[k] /\ job'[k] = job[k] /\ acks'[k] = acks[k]
      BY <1>2, <2>1, <2>3 DEF StoreCommits, ReceiptType, JobType, CountType
    <3> QED
      BY <2>2, <3>1 DEF RowInv
  <2>4. CASE k = x
    <3>1. /\ receipt'[k] = AfterStore(receipt[k]) /\ job'[k] = JobAfterStore(k)
          /\ acks'[k] \in {acks[k], acks[k] + 1}
          /\ receipt[k] \in Receipt /\ acks[k] \in Nat
      BY <1>2, <2>1, <2>4 DEF StoreCommits, ReceiptType, JobType, CountType
    <3>2. CASE receipt[k].stored
      <4>1. receipt'[k] = [receipt[k] EXCEPT !.dup = @ + 1] /\ job'[k] = job[k]
        BY <3>1, <3>2 DEF AfterStore, JobAfterStore
      <4>2. /\ receipt'[k].stored = receipt[k].stored
            /\ receipt'[k].dup = receipt[k].dup + 1 /\ receipt[k].dup \in Nat
        BY <3>1, <4>1 DEF Receipt
      <4>3. acks[k] <= 1 + receipt[k].dup
        BY <3>2 DEF RowInv
      <4>4. acks'[k] <= 1 + receipt'[k].dup
        BY <3>1, <4>2, <4>3
      <4> QED
        BY <2>2, <3>2, <4>1, <4>2, <4>4 DEF RowInv
    <3>3. CASE ~receipt[k].stored
      <4>1. receipt'[k] = [receipt[k] EXCEPT !.stored = TRUE] /\ job'[k] = QueuedJob
        BY <3>1, <3>3 DEF AfterStore, JobAfterStore
      <4>2. /\ receipt'[k].stored = TRUE /\ receipt'[k].dup \in Nat
            /\ job'[k].status = "QUEUED"
        BY <3>1, <4>1 DEF Receipt, QueuedJob, NoJob
      <4>3. acks[k] <= 0 /\ job[k].status = "NONE"
        BY <3>3 DEF RowInv
      <4>4. acks'[k] <= 1 + receipt'[k].dup
        BY <3>1, <4>2, <4>3
      <4> QED
        BY <2>2, <4>2, <4>3, <4>4 DEF RowInv, Settled
    <3> QED
      BY <3>2, <3>3
  <2> QED
    BY <2>3, <2>4
<1> QED
  BY <1>1, <1>2

(* Settling needs a RUNNING job, hence one without an event; it writes the *)
(* event, the directive and the final status together.                     *)
LEMMA SettleKeepsRow ==
    ASSUME QueueInv, NEW w \in Workers, CompleteTransaction(w), NEW k \in Keys
    PROVE  RowInv(k)'
<1> USE DEF QueueInv, TypeOK
<1> DEFINE x == worker[w].key
<1>1. x \in Keys
  BY DEF CompleteTransaction, WorkerType
<1>2. UNCHANGED <<receipt, acks>>
  BY DEF CompleteTransaction, receiverVars
<1>3. CASE k # x
  <2>1. /\ job'[k] = job[k] /\ event'[k] = event[k]
        /\ directive'[k] = directive[k] /\ done'[k] = done[k]
    BY <1>1, <1>3 DEF CompleteTransaction, JobType, OutcomeType
  <2> QED
    BY <1>2, <2>1 DEF RowInv
<1>4. CASE k = x
  <2>1. job[k].status = "RUNNING" /\ RowInv(k)
    BY <1>4 DEF CompleteTransaction, HoldsLease
  <2>2. ~event[k] /\ done[k].count = 0 /\ ~directive[k] /\ receipt[k].stored
    BY <2>1 DEF RowInv, Settled
  <2>3. event'[k] = TRUE /\ done'[k].count = 1
    BY <1>1, <1>4, <2>2 DEF CompleteTransaction, OutcomeType
  <2>4. directive'[k] <=> Hydrates(k)
    BY <1>1, <1>4, <2>2, Zenon DEF CompleteTransaction, OutcomeType
  <2>5. job'[k].status \in Settled
    <3>1. job'[k] = SettledJob(k) /\ job[k] \in Job
      BY <1>1, <1>4 DEF CompleteTransaction, JobType
    <3>2. job'[k].status = FinalStatus(k)
      BY <3>1 DEF SettledJob, Job
    <3> QED
      BY <3>2 DEF FinalStatus, Settled
  <2> QED
    BY <1>2, <2>1, <2>2, <2>3, <2>4, <2>5 DEF RowInv, Settled
<1> QED
  BY <1>3, <1>4

(* Every step keeps the invariant of every push.                           *)
LEMMA InvStep == QueueInv /\ [Next]_vars => QueueInv'
<1> SUFFICES ASSUME QueueInv, [Next]_vars, NEW k \in Keys PROVE RowInv(k)'
  BY TypeStep DEF QueueInv
<1>1. CASE UNCHANGED vars
  BY <1>1 DEF vars, QueueInv, RowInv
<1>2. ASSUME NEW r \in Requests, ReceiverStep(r) PROVE RowInv(k)'
  BY <1>2, ReceiverKeepsRow
<1>3. ASSUME NEW w \in Workers, CompleteJob(w) \/ CompleteJobAnswerLost(w)
      PROVE  RowInv(k)'
  BY <1>3, SettleKeepsRow DEF CompleteJob, CompleteJobAnswerLost
<1>4. CASE \/ TimeStep \/ ReplayDeadLetters \/ GateStep
           \/ \E w \in Workers :
                 \/ Claim(w) \/ CompleteJobFails(w) \/ ProcessingFails(w)
                 \/ FailJob(w) \/ FailJobLost(w) \/ WorkerCrash(w)
  <2>1. Churn(k) /\ UNCHANGED <<receipt, event, directive, done, acks>>
    BY <1>4, QueueStepsChurn DEF QueueInv
  <2> QED
    BY <2>1, ChurnKeepsRow DEF QueueInv
<1> QED
  BY <1>1, <1>2, <1>3, <1>4 DEF Next, WorkerStep

(* The invariant holds in every reachable state.                           *)
LEMMA InvCorrect == Spec => []QueueInv
BY InitInv, InvStep, PTL DEF Spec

(* The operational event and the hydration directive exist exactly for     *)
(* settled jobs, for any number of pushes, workers, crashes and replays    *)
(* (completeJob's transaction).                                            *)
THEOREM SettlingIsAtomic == Spec => []SettledAtomically
<1>1. QueueInv => SettledAtomically
  BY DEF QueueInv, RowInv, SettledAtomically
<1> QED
  BY <1>1, InvCorrect, PTL

(* The completion of one receipt commits at most once.                     *)
THEOREM EffectHappensOnce == Spec => []AtMostOneEffect
<1>1. QueueInv => AtMostOneEffect
  BY DEF QueueInv, RowInv, AtMostOneEffect
<1> QED
  BY <1>1, InvCorrect, PTL

(* Every 200 the receiver sent is backed by a receipt or by a counted      *)
(* duplicate (storeReceiptAndJob before the answer).                       *)
THEOREM AcksAreBacked == Spec => []AcksAreDurable
<1>1. QueueInv => AcksAreDurable
  BY DEF QueueInv, RowInv, AcksAreDurable
<1> QED
  BY <1>1, InvCorrect, PTL

-----------------------------------------------------------------------------
(* Leases.  What one step may do to a job's lease: hand it to an idle      *)
(* worker, end it, or keep it with its owner.                              *)
LeasesTo(k, w) ==
    /\ Claimable(job[k]) /\ worker[w].pc = "idle"
    /\ worker'[w].key = k /\ worker'[w].attempt = job[k].attempts + 1
    /\ job'[k].status = "RUNNING" /\ job'[k].owner = w
    /\ job'[k].attempts = job[k].attempts + 1

StopsLease(k) ==
    /\ job'[k].status # "RUNNING"
    /\ job'[k].live => job[k].live /\ job[k].status # "RUNNING"
    /\ job[k].status = "RUNNING" =>
          \/ Exhausted(job[k])
          \/ \E w \in Workers : /\ worker[w].pc # "idle" /\ worker[w].key = k
                                /\ job[k].owner = w /\ StepsAlone(w)

KeepsLease(k) ==
    /\ job'[k].status = job[k].status /\ job'[k].owner = job[k].owner
    /\ job'[k].attempts = job[k].attempts
    /\ job'[k].live => job[k].live

LeaseStep(k) ==
    (\E w \in Workers : LeasesTo(k, w)) \/ StopsLease(k) \/ KeepsLease(k)

(* A busy worker's memory of its claim is kept until it is idle again.     *)
MemoryStep(w) ==
    \/ worker'[w].pc = "idle"
    \/ /\ worker[w].pc # "idle"
       /\ worker'[w].key = worker[w].key /\ worker'[w].attempt = worker[w].attempt
    \/ \E k \in Keys : LeasesTo(k, w)

(* The receiver, the clock, the gate and the replay script never hand out  *)
(* a lease, and leave the workers' memory alone.                           *)
LEMMA OthersKeepLeases ==
    ASSUME QueueInv, NEW k \in Keys,
           \/ \E r \in Requests : ReceiverStep(r)
           \/ TimeStep \/ GateStep \/ ReplayDeadLetters
    PROVE  LeaseStep(k) /\ UNCHANGED worker
<1>0. job \in [Keys -> Job] /\ job[k] \in Job
  BY DEF QueueInv, TypeOK, JobType
<1>1. ASSUME NEW r \in Requests, ReceiverStep(r) PROVE LeaseStep(k) /\ UNCHANGED worker
  <2>1. CASE ~StoreCommits(r)
    BY <1>1, <2>1 DEF ReceiverStep, ReceivePush, IngressDeadline, StoreAborts, LeaseStep, KeepsLease
  <2>2. CASE StoreCommits(r)
    <3>1. job'[k] = job[k] \/ (job'[k] = QueuedJob /\ job[k].status = "NONE")
      BY <1>0, <2>2 DEF StoreCommits, JobAfterStore, QueueInv, RowInv
    <3>2. QueuedJob.status = "QUEUED" /\ ~QueuedJob.live
      BY DEF QueuedJob, NoJob
    <3> QED
      BY <2>2, <3>1, <3>2 DEF StoreCommits, LeaseStep, KeepsLease, StopsLease
  <2> QED
    BY <2>1, <2>2
<1>2. CASE TimeStep
  BY <1>0, <1>2 DEF TimeStep, Tick, LeaseExpires, RetryDue, Job, LeaseStep, KeepsLease
<1>3. CASE GateStep
  BY <1>3 DEF GateStep, RecordGrantedProbe, ReopenGate, LeaseStep, KeepsLease
<1>4. CASE ReplayDeadLetters
  <2>1. CASE Replayable(k)
    <3>1. job'[k] = [job[k] EXCEPT !.status = "RETRY", !.attempts = 0,
                                   !.ready = TRUE, !.err = ""]
      BY <1>4, <2>1 DEF ReplayDeadLetters
    <3>2. job'[k].status = "RETRY" /\ job'[k].live = job[k].live
      BY <1>0, <3>1 DEF Job
    <3> QED
      BY <1>4, <2>1, <3>2 DEF ReplayDeadLetters, Replayable, LeaseStep, StopsLease
  <2>2. CASE ~Replayable(k)
    BY <1>4, <2>2 DEF ReplayDeadLetters, LeaseStep, KeepsLease
  <2> QED
    BY <2>1, <2>2
<1> QED
  BY <1>1, <1>2, <1>3, <1>4

(* The job rows of a worker's steps, field by field.                       *)
LEMMA LeaseFacts ==
    /\ \A j \in Job, w \in Workers :
          /\ Leased(j, w).status = "RUNNING" /\ Leased(j, w).owner = w
          /\ Leased(j, w).attempts = j.attempts + 1
    /\ \A j \in Job, e \in Errors :
          /\ DeadLetter(j, e).status = "DEAD_LETTER" /\ ~DeadLetter(j, e).live
          /\ ReleasedJob(j, e).status \in {"DEAD_LETTER", "RETRY"} /\ ~ReleasedJob(j, e).live
    /\ \A j \in Job : /\ DeadLetter(j, "LEASE_EXHAUSTED").status = "DEAD_LETTER"
                      /\ ~DeadLetter(j, "LEASE_EXHAUSTED").live
BY DEF Leased, DeadLetter, ReleasedJob, Job

(* A worker's step leases a job to it, ends a lease it holds, or lets an   *)
(* exhausted one end; the other workers' memory is left alone.             *)
LEMMA WorkersKeepLeases ==
    ASSUME QueueInv, NEW w \in Workers, WorkerStep(w) \/ WorkerCrash(w),
           NEW k \in Keys
    PROVE  /\ LeaseStep(k)
           /\ MemoryStep(w) /\ \A v \in Workers \ {w} : worker'[v] = worker[v]
<1>0. /\ job \in [Keys -> Job] /\ job[k] \in Job
      /\ worker \in [Workers -> Worker]
      /\ worker[w].pc # "idle" => worker[w].key \in Keys
      /\ worker[w].err \in Errors
  BY DEF QueueInv, TypeOK, JobType, WorkerType, Worker
<1>1. IdleWorker.pc = "idle"
  BY DEF IdleWorker
<1>2. CASE Claim(w)
  <2>1. CASE \E x \in Keys : Claimable(job[x]) /\ job' = ClaimStatement(w, x)
               /\ worker' = [worker EXCEPT ![w] =
                      [pc |-> "processing", key |-> x,
                       attempt |-> job[x].attempts + 1, err |-> ""]]
    <3> PICK x \in Keys : Claimable(job[x]) /\ job' = ClaimStatement(w, x)
               /\ worker' = [worker EXCEPT ![w] =
                      [pc |-> "processing", key |-> x,
                       attempt |-> job[x].attempts + 1, err |-> ""]]
      BY <2>1
    <3>1. LeasesTo(x, w)
      <4>1. job'[x] = Leased(job[x], w) /\ job[x] \in Job
        BY <1>0 DEF ClaimStatement
      <4>2. worker'[w].key = x /\ worker'[w].attempt = job[x].attempts + 1
        BY <1>0
      <4>3. worker[w].pc = "idle"
        BY <1>2 DEF Claim
      <4>4. /\ job'[x].status = "RUNNING" /\ job'[x].owner = w
            /\ job'[x].attempts = job[x].attempts + 1
        BY <4>1 DEF Leased, Job
      <4> QED
        BY <4>2, <4>3, <4>4 DEF LeasesTo
    <3>2. MemoryStep(w) /\ \A v \in Workers \ {w} : worker'[v] = worker[v]
      BY <1>0, <3>1 DEF MemoryStep
    <3>3. CASE k = x
      BY <3>1, <3>2, <3>3 DEF LeaseStep
    <3>4. CASE k # x /\ Exhausted(job[k])
      <4>1. job'[k] = DeadLetter(job[k], "LEASE_EXHAUSTED")
        BY <3>4 DEF ClaimStatement
      <4>2. job'[k].status = "DEAD_LETTER" /\ ~job'[k].live
        BY <1>0, <4>1 DEF DeadLetter, Job
      <4> QED
        BY <3>2, <3>4, <4>2 DEF LeaseStep, StopsLease
    <3>5. CASE k # x /\ ~Exhausted(job[k])
      BY <3>2, <3>5 DEF ClaimStatement, LeaseStep, KeepsLease
    <3> QED
      BY <3>3, <3>4, <3>5
  <2>2. CASE job' = ClaimStatement(w, NoKey) /\ UNCHANGED worker
    <3>1. MemoryStep(w) /\ \A v \in Workers \ {w} : worker'[v] = worker[v]
      BY <1>2, <2>2 DEF MemoryStep, Claim
    <3>2. k # NoKey
      BY QueueAssumption
    <3>3. CASE Exhausted(job[k])
      <4>1. job'[k] = DeadLetter(job[k], "LEASE_EXHAUSTED")
        BY <2>2, <3>2, <3>3 DEF ClaimStatement
      <4>2. job'[k].status = "DEAD_LETTER" /\ ~job'[k].live
        BY <1>0, <4>1, LeaseFacts
      <4> QED
        BY <3>1, <3>3, <4>2 DEF LeaseStep, StopsLease
    <3>4. CASE ~Exhausted(job[k])
      BY <2>2, <3>1, <3>2, <3>4 DEF ClaimStatement, LeaseStep, KeepsLease
    <3> QED
      BY <3>3, <3>4
  <2> QED
    BY <1>2, <2>1, <2>2 DEF Claim
<1>3. CASE CompleteTransaction(w) /\ (CompleteJob(w) \/ CompleteJobAnswerLost(w))
  <2> DEFINE x == worker[w].key
  <2>1. x \in Keys /\ worker[w].pc = "processing" /\ HoldsLease(w, x)
    BY <1>0, <1>3 DEF CompleteTransaction
  <2>2. /\ worker'[w].pc = "idle" \/ (worker'[w].key = x /\ worker'[w].attempt = worker[w].attempt)
        /\ \A v \in Workers \ {w} : worker'[v] = worker[v]
    BY <1>0, <1>1, <1>3 DEF CompleteJob, CompleteJobAnswerLost, Worker
  <2>5. worker'[w].pc \in {"idle", "releasing"}
    BY <1>0, <1>1, <1>3 DEF CompleteJob, CompleteJobAnswerLost, Worker
  <2>6. StepsAlone(w)
    BY <2>1, <2>2, <2>5 DEF StepsAlone
  <2>3. CASE k = x
    <3>1. job'[k] = SettledJob(k)
      BY <1>0, <1>3, <2>1, <2>3 DEF CompleteTransaction
    <3>2. job'[k].status # "RUNNING" /\ ~job'[k].live
      BY <1>0, <3>1 DEF SettledJob, FinalStatus, Job
    <3> QED
      BY <2>1, <2>2, <2>3, <2>6, <3>2 DEF LeaseStep, StopsLease, MemoryStep, HoldsLease
  <2>4. CASE k # x
    BY <1>0, <1>3, <2>1, <2>2, <2>4 DEF CompleteTransaction, LeaseStep, KeepsLease, MemoryStep
  <2> QED
    BY <2>3, <2>4
<1>4. CASE CompleteJobFails(w) \/ ProcessingFails(w) \/ FailJobLost(w) \/ WorkerCrash(w)
  <2>1. UNCHANGED job
    BY <1>4 DEF CompleteJobFails, ProcessingFails, FailJobLost, WorkerCrash
  <2>2. /\ \/ worker'[w].pc = "idle"
           \/ /\ worker[w].pc # "idle"
              /\ worker'[w].key = worker[w].key /\ worker'[w].attempt = worker[w].attempt
        /\ \A v \in Workers \ {w} : worker'[v] = worker[v]
    BY <1>0, <1>1, <1>4 DEF CompleteJobFails, ProcessingFails, FailJobLost, WorkerCrash, Worker
  <2> QED
    BY <2>1, <2>2 DEF LeaseStep, KeepsLease, MemoryStep
<1>5. CASE FailJob(w)
  <2> DEFINE x == worker[w].key
  <2>1. x \in Keys /\ worker[w].pc = "releasing"
    BY <1>0, <1>5 DEF FailJob
  <2>2. worker'[w].pc = "idle" /\ \A v \in Workers \ {w} : worker'[v] = worker[v]
    BY <1>0, <1>1, <1>5 DEF FailJob
  <2>5. StepsAlone(w)
    BY <2>1, <2>2 DEF StepsAlone
  <2>3. CASE k = x /\ OwnsJob(w, x)
    <3>1. job'[k] = ReleasedJob(job[k], worker[w].err)
      BY <1>0, <1>5, <2>1, <2>3 DEF FailJob
    <3>2. job'[k].status # "RUNNING" /\ ~job'[k].live
      BY <1>0, <3>1, LeaseFacts
    <3> QED
      BY <2>1, <2>2, <2>3, <2>5, <3>2 DEF LeaseStep, StopsLease, MemoryStep, OwnsJob
  <2>4. CASE ~(k = x /\ OwnsJob(w, x))
    BY <1>0, <1>5, <2>1, <2>2, <2>4 DEF FailJob, LeaseStep, KeepsLease, MemoryStep
  <2> QED
    BY <2>3, <2>4
<1> QED
  BY <1>2, <1>3, <1>4, <1>5 DEF WorkerStep, CompleteJob, CompleteJobAnswerLost

(* The lease invariant of a job: a live lease is a RUNNING one, and the    *)
(* worker that owns a running job and still works on it works on its       *)
(* latest attempt.                                                         *)
LeaseInv(k) ==
    /\ job[k].live => job[k].status = "RUNNING"
    /\ \A w \in Workers :
          /\ worker[w].pc # "idle" /\ worker[w].key = k
          /\ job[k].status = "RUNNING" /\ job[k].owner = w
          => worker[w].attempt = job[k].attempts

LeasesInv == QueueInv /\ \A k \in Keys : LeaseInv(k)

(* What one step may do to a job's lease and to the workers' memory.       *)
LEMMA LeaseStepFacts ==
    ASSUME QueueInv, [Next]_vars, NEW k \in Keys
    PROVE  /\ LeaseStep(k)
           /\ \A w \in Workers : MemoryStep(w) \/ worker'[w] = worker[w]
<1>1. CASE UNCHANGED vars
  BY <1>1 DEF vars, LeaseStep, KeepsLease
<1>2. CASE \/ \E r \in Requests : ReceiverStep(r)
           \/ TimeStep \/ GateStep \/ ReplayDeadLetters
  BY <1>2, OthersKeepLeases
<1>3. ASSUME NEW w \in Workers, WorkerStep(w) \/ WorkerCrash(w)
      PROVE  LeaseStep(k) /\ \A v \in Workers : MemoryStep(v) \/ worker'[v] = worker[v]
  BY <1>3, WorkersKeepLeases
<1> QED
  BY <1>1, <1>2, <1>3 DEF Next

(* A step keeps the lease invariant: a new lease is handed out together    *)
(* with its attempt number, and neither changes while it runs.             *)
LEMMA LeaseInvStep == LeasesInv /\ [Next]_vars => LeasesInv'
<1> SUFFICES ASSUME LeasesInv, [Next]_vars, NEW k \in Keys PROVE LeaseInv(k)'
  BY InvStep DEF LeasesInv
<1>1. LeaseStep(k) /\ \A w \in Workers : MemoryStep(w) \/ worker'[w] = worker[w]
  BY LeaseStepFacts DEF LeasesInv
<1>2. LeaseInv(k)
  BY DEF LeasesInv
<1>3. job'[k].live => job'[k].status = "RUNNING"
  BY <1>1, <1>2 DEF LeaseStep, LeasesTo, StopsLease, KeepsLease, LeaseInv
<1>4. ASSUME NEW w \in Workers, worker'[w].pc # "idle", worker'[w].key = k,
             job'[k].status = "RUNNING", job'[k].owner = w
      PROVE  worker'[w].attempt = job'[k].attempts
  <2>1. CASE \E x \in Keys : LeasesTo(x, w)
    BY <1>4, <2>1 DEF LeasesTo
  <2>2. CASE /\ ~\E x \in Keys : LeasesTo(x, w)
             /\ worker[w].pc # "idle" /\ worker'[w].key = worker[w].key
             /\ worker'[w].attempt = worker[w].attempt
    <3>1. ~\E v \in Workers : LeasesTo(k, v)
      BY <1>4, <2>2 DEF LeasesTo
    <3>2. KeepsLease(k)
      BY <1>1, <1>4, <3>1 DEF LeaseStep, StopsLease
    <3> QED
      BY <1>2, <1>4, <2>2, <3>2 DEF KeepsLease, LeaseInv
  <2> QED
    BY <1>1, <1>4, <2>1, <2>2 DEF MemoryStep
<1> QED
  BY <1>3, <1>4 DEF LeaseInv

(* What a worker believes of its live lease is always what the job says.   *)
LEMMA LeaseInvCorrect == Spec => []LeasesInv
<1>1. Init => LeasesInv
  <2> SUFFICES ASSUME Init, NEW k \in Keys PROVE LeaseInv(k)
    BY InitInv DEF LeasesInv
  <2>1. \A w \in Workers : worker[w].pc = "idle"
    BY DEF Init, IdleWorker
  <2>2. ~job[k].live
    BY DEF Init, NoJob
  <2> QED
    BY <2>1, <2>2 DEF LeaseInv
<1> QED
  BY <1>1, LeaseInvStep, PTL DEF Spec

(* A job stops running only by a step of the worker whose claim is its     *)
(* latest, or through exhaustion, and a live lease is never taken over     *)
(* (the lease tests of claimNextJob, completeJob and failJob): a stale     *)
(* worker's step never ends a job that another one holds.                  *)
THEOREM OnlyTheLatestClaimMoves == Spec => Fencing
<1> DEFINE Fenced ==
      \A k \in Keys :
         /\ job[k].status = "RUNNING" /\ job'[k].status # "RUNNING" =>
              \/ Exhausted(job[k])
              \/ \E w \in Workers : LatestClaim(w, k) /\ StepsAlone(w)
         /\ job[k].live /\ job'[k].status = "RUNNING" =>
              job'[k].owner = job[k].owner /\ job'[k].attempts = job[k].attempts
<1>1. LeasesInv /\ [Next]_vars => Fenced
  <2> SUFFICES ASSUME LeasesInv, [Next]_vars, NEW k \in Keys
               PROVE  /\ job[k].status = "RUNNING" /\ job'[k].status # "RUNNING" =>
                           \/ Exhausted(job[k])
                           \/ \E w \in Workers : LatestClaim(w, k) /\ StepsAlone(w)
                      /\ job[k].live /\ job'[k].status = "RUNNING" =>
                           job'[k].owner = job[k].owner /\ job'[k].attempts = job[k].attempts
    OBVIOUS
  <2>1. LeaseStep(k) /\ LeaseInv(k)
    BY LeaseStepFacts DEF LeasesInv
  <2>2. ASSUME job[k].status = "RUNNING", job'[k].status # "RUNNING"
        PROVE  \/ Exhausted(job[k])
               \/ \E w \in Workers : LatestClaim(w, k) /\ StepsAlone(w)
    <3>1. StopsLease(k)
      BY <2>1, <2>2 DEF LeaseStep, LeasesTo, KeepsLease
    <3> QED
      BY <2>1, <2>2, <3>1 DEF StopsLease, LeaseInv, LatestClaim
  <2>3. ASSUME job[k].live, job'[k].status = "RUNNING"
        PROVE  job'[k].owner = job[k].owner /\ job'[k].attempts = job[k].attempts
    <3>1. ~\E w \in Workers : LeasesTo(k, w)
      BY <2>1, <2>3 DEF LeasesTo, Claimable, LeaseInv
    <3> QED
      BY <2>1, <2>3, <3>1 DEF LeaseStep, StopsLease, KeepsLease
  <2> QED
    BY <2>2, <2>3
<1>2. LeasesInv /\ [Next]_vars => [Fenced]_job
  BY <1>1
<1> QED
  BY <1>2, LeaseInvCorrect, PTL DEF Spec, Fencing

-----------------------------------------------------------------------------
(* The gate invariant: an open gate carries a granted probe newer than the *)
(* instant it was blocked at, and that instant is no earlier than any      *)
(* authorization change completed for the store.                           *)
GateFacts(g, p) ==
    \A s \in Stores : g[s].state = "OPEN" =>
        <<s, g[s].probeAt>> \in p /\ g[s].probeAt > g[s].blockedAt

ChangeFacts(g, d, c) ==
    \A k \in Keys :
        /\ d[k].at <= c
        /\ ClosesGate(k) /\ d[k].count > 0 =>
              /\ g[StoreOf[k[1]]].state # "NONE"
              /\ g[StoreOf[k[1]]].blockedAt >= d[k].at

GateInv == TypeOK /\ GateFacts(gate, probes) /\ ChangeFacts(gate, done, clock)

(* A push that closes a gate is a push of a store.                         *)
LEMMA ChangedStore == \A k \in Keys : ClosesGate(k) => StoreOf[k[1]] \in Stores
BY QueueAssumption DEF ClosesGate, Keys

(* Everything but the clock, the gate's own operations and settling leaves *)
(* the gate, the probes, the clock and the completions alone.              *)
LEMMA OthersLeaveTheGate ==
    ASSUME [Next]_vars
    PROVE  \/ UNCHANGED <<gate, probes, clock, done>>
           \/ Tick \/ GateStep \/ \E w \in Workers : CompleteTransaction(w)
<1> USE DEF gateVars, outcomeVars
<1>1. CASE UNCHANGED vars
  BY <1>1 DEF vars
<1>2. CASE \E r \in Requests : ReceiverStep(r)
  BY <1>2 DEF ReceiverStep, ReceivePush, IngressDeadline, StoreCommits, StoreAborts
<1>3. ASSUME NEW w \in Workers, WorkerStep(w) \/ WorkerCrash(w)
      PROVE  UNCHANGED <<gate, probes, clock, done>> \/ CompleteTransaction(w)
  BY <1>3 DEF WorkerStep, Claim, CompleteJob, CompleteJobAnswerLost, CompleteJobFails,
      ProcessingFails, FailJob, FailJobLost, WorkerCrash
<1>4. CASE TimeStep
  BY <1>4 DEF TimeStep, LeaseExpires, RetryDue
<1>5. CASE ReplayDeadLetters
  BY <1>5 DEF ReplayDeadLetters
<1> QED
  BY <1>1, <1>2, <1>3, <1>4, <1>5 DEF Next

(* Settling an authorization change blocks its store's gate at the current *)
(* instant, so every earlier completion stays behind blocked_at.           *)
LEMMA SettlingKeepsTheGate ==
    ASSUME GateInv, NEW w \in Workers, CompleteTransaction(w)
    PROVE  GateFacts(gate, probes)' /\ ChangeFacts(gate, done, clock)'
<1> DEFINE x == worker[w].key
<1>1. x \in Keys
  BY DEF CompleteTransaction, GateInv, TypeOK, WorkerType
<1>2. /\ gate' = BlockGate(x) /\ UNCHANGED <<probes, clock>>
      /\ done' = [done EXCEPT ![x] = [count |-> @.count + 1, at |-> clock]]
  BY DEF CompleteTransaction
<1>3. /\ clock \in Nat /\ gate \in [Stores -> Gate]
      /\ done \in [Keys -> [count : Nat, at : Nat]]
  BY DEF GateInv, TypeOK, GateType, OutcomeType
<1>4. \A s \in Stores :
         \/ gate'[s] = gate[s] /\ ~(ClosesGate(x) /\ s = StoreOf[x[1]])
         \/ /\ gate'[s].state = "BLOCKED" /\ gate'[s].blockedAt = clock
            /\ ClosesGate(x) /\ s = StoreOf[x[1]]
  BY <1>1, <1>2, <1>3 DEF BlockGate
<1>5. GateFacts(gate, probes)'
  BY <1>2, <1>4 DEF GateFacts, GateInv
<1>6. ASSUME NEW k \in Keys
      PROVE  /\ done'[k].at <= clock'
             /\ ClosesGate(k) /\ done'[k].count > 0 =>
                  /\ gate'[StoreOf[k[1]]].state # "NONE"
                  /\ gate'[StoreOf[k[1]]].blockedAt >= done'[k].at
  <2>1. done'[k].at <= clock'
    BY <1>1, <1>2, <1>3 DEF GateInv, ChangeFacts
  <2>2. ASSUME ClosesGate(k), done'[k].count > 0
        PROVE  /\ gate'[StoreOf[k[1]]].state # "NONE"
               /\ gate'[StoreOf[k[1]]].blockedAt >= done'[k].at
    <3>1. StoreOf[k[1]] \in Stores
      BY <2>2, ChangedStore
    <3>2. CASE gate'[StoreOf[k[1]]] = gate[StoreOf[k[1]]]
               /\ ~(ClosesGate(x) /\ StoreOf[k[1]] = StoreOf[x[1]])
      <4>1. k # x
        BY <2>2, <3>2
      <4>2. done'[k] = done[k]
        BY <1>1, <1>2, <1>3, <4>1
      <4> QED
        BY <2>2, <3>2, <4>2 DEF GateInv, ChangeFacts
    <3>3. CASE gate'[StoreOf[k[1]]].state = "BLOCKED"
               /\ gate'[StoreOf[k[1]]].blockedAt = clock
      <4>1. done'[k].at <= clock /\ done'[k].at \in Nat
        BY <1>1, <1>2, <1>3, <2>1
      <4> QED
        BY <1>3, <3>3, <4>1
    <3> QED
      BY <1>4, <3>1, <3>2, <3>3
  <2> QED
    BY <2>1, <2>2
<1> QED
  BY <1>5, <1>6 DEF ChangeFacts

(* A probe, the trigger's reopening and the clock keep the gate invariant. *)
LEMMA GateOperations ==
    ASSUME GateInv, Tick \/ GateStep
    PROVE  GateFacts(gate, probes)' /\ ChangeFacts(gate, done, clock)'
<1> USE DEF outcomeVars
<1>1. /\ clock \in Nat /\ gate \in [Stores -> Gate] /\ probes \subseteq Stores \X Nat
      /\ done \in [Keys -> [count : Nat, at : Nat]]
  BY DEF GateInv, TypeOK, GateType, OutcomeType
<1>2. CASE Tick
  <2>1. clock' = clock + 1 /\ UNCHANGED <<gate, probes, done>>
    BY <1>2 DEF Tick
  <2> QED
    BY <1>1, <2>1 DEF GateInv, GateFacts, ChangeFacts
<1>3. ASSUME NEW s \in Stores, RecordGrantedProbe(s)
      PROVE  GateFacts(gate, probes)' /\ ChangeFacts(gate, done, clock)'
  <2>1. probes \subseteq probes' /\ UNCHANGED <<gate, clock, done>>
    BY <1>3 DEF RecordGrantedProbe
  <2> QED
    BY <2>1 DEF GateInv, GateFacts, ChangeFacts
<1>4. ASSUME NEW s \in Stores, ReopenGate(s)
      PROVE  GateFacts(gate, probes)' /\ ChangeFacts(gate, done, clock)'
  <2>1. PICK p \in probes : /\ ProbeIsNewer(s, p)
                            /\ gate' = [gate EXCEPT ![s].state = "OPEN", ![s].probeAt = p[2]]
    BY <1>4 DEF ReopenGate
  <2>2. UNCHANGED <<probes, clock, done>>
    BY <1>4 DEF ReopenGate
  <2>3. gate'[s].state = "OPEN" /\ gate'[s].probeAt = p[2]
    BY <1>1, <2>1 DEF Gate
  <2>4. \A t \in Stores : /\ gate'[t].blockedAt = gate[t].blockedAt
                          /\ t # s => gate'[t] = gate[t]
    BY <1>1, <2>1 DEF Gate
  <2>5. <<s, p[2]>> \in probes /\ p[2] > gate[s].blockedAt
    BY <1>1, <2>1 DEF ProbeIsNewer
  <2>6. GateFacts(gate, probes)'
    BY <2>2, <2>3, <2>4, <2>5 DEF GateInv, GateFacts
  <2>7. ChangeFacts(gate, done, clock)'
    <3>1. \A t \in Stores : gate[t].state # "NONE" => gate'[t].state # "NONE"
      BY <2>3, <2>4
    <3> QED
      BY <2>2, <2>4, <3>1, ChangedStore DEF GateInv, ChangeFacts
  <2> QED
    BY <2>6, <2>7
<1> QED
  BY <1>2, <1>3, <1>4 DEF GateStep

(* Every step keeps what is known of the gates.                            *)
LEMMA GateInvStep == GateInv /\ [Next]_vars => GateInv'
<1> SUFFICES ASSUME GateInv, [Next]_vars
             PROVE  GateFacts(gate, probes)' /\ ChangeFacts(gate, done, clock)'
  BY TypeStep DEF GateInv
<1>1. CASE UNCHANGED <<gate, probes, clock, done>>
  BY <1>1 DEF GateInv, GateFacts, ChangeFacts
<1> QED
  BY <1>1, OthersLeaveTheGate, SettlingKeepsTheGate, GateOperations

(* A store's gate is open only on a granted probe newer than every         *)
(* authorization change processed for it (completeJob's BLOCKED upsert and *)
(* ops.reopen_webhook_authorization_gate_after_probe).                     *)
THEOREM GateReopensOnNewerProbe == Spec => []GateNeedsNewerProbe
<1>1. Init => GateInv
  <2> SUFFICES ASSUME Init PROVE GateFacts(gate, probes) /\ ChangeFacts(gate, done, clock)
    BY InitType DEF GateInv
  <2>1. \A s \in Stores : gate[s].state = "NONE"
    BY DEF Init, NoGate
  <2>2. \A k \in Keys : done[k].count = 0 /\ done[k].at = 0
    BY DEF Init
  <2> QED
    BY <2>1, <2>2 DEF GateFacts, ChangeFacts, Init
<1>2. GateInv => GateNeedsNewerProbe
  <2> SUFFICES ASSUME GateInv, NEW k \in Keys, ClosesGate(k), done[k].count > 0
               PROVE  LET g == gate[StoreOf[k[1]]] IN
                      /\ g.state # "NONE"
                      /\ g.state = "OPEN" => /\ <<StoreOf[k[1]], g.probeAt>> \in probes
                                             /\ g.probeAt > done[k].at
    BY DEF GateNeedsNewerProbe
  <2> DEFINE s == StoreOf[k[1]]
  <2>1. s \in Stores
    BY ChangedStore
  <2>2. /\ gate[s].probeAt \in Nat /\ gate[s].blockedAt \in Nat
        /\ done[k].at \in Nat
    BY <2>1 DEF GateInv, TypeOK, GateType, Gate, OutcomeType
  <2>3. gate[s].state # "NONE" /\ gate[s].blockedAt >= done[k].at
    BY DEF GateInv, ChangeFacts
  <2>4. gate[s].state = "OPEN" =>
           <<s, gate[s].probeAt>> \in probes /\ gate[s].probeAt > gate[s].blockedAt
    BY <2>1 DEF GateInv, GateFacts
  <2> QED
    BY <2>2, <2>3, <2>4
<1> QED
  BY <1>1, <1>2, GateInvStep, PTL DEF Spec

-----------------------------------------------------------------------------
(* Refinement.  A push's place in the abstract inbox, one push at a time.  *)
Phase(k) ==
    IF ~receipt[k].stored THEN "absent"
    ELSE IF job[k].status \in Settled THEN "done"
    ELSE IF job[k].status = "DEAD_LETTER" THEN "dead" ELSE "pending"

(* A step that moves the pushes of one set from one phase to another and   *)
(* leaves the others is a move of the inbox.                               *)
LEMMA PhasesMove ==
    ASSUME NEW S \in SUBSET Keys, NEW from, NEW to,
           \A k \in S : Phase(k) = from /\ Phase(k)' = to,
           \A k \in Keys \ S : Phase(k)' = Phase(k)
    PROVE  Inbox!Move(S, from, to)
<1>1. InboxState = [k \in Keys |-> Phase(k)] /\ InboxState' = [k \in Keys |-> Phase(k)']
  BY DEF InboxState, Phase
<1>2. \A k \in S : InboxState[k] = from
  BY <1>1
<1>3. InboxState' = [k \in Keys |-> IF k \in S THEN to ELSE InboxState[k]]
  BY <1>1
<1> QED
  BY <1>2, <1>3 DEF Inbox!Move

(* A step that moves no push to another phase leaves the inbox alone.      *)
LEMMA PhasesStay ==
    ASSUME \A k \in Keys : Phase(k)' = Phase(k)
    PROVE  UNCHANGED InboxState
<1>1. InboxState = [k \in Keys |-> Phase(k)] /\ InboxState' = [k \in Keys |-> Phase(k)']
  BY DEF InboxState, Phase
<1> QED
  BY <1>1

(* A delivery is accepted, or only counted.                                *)
LEMMA StoringAccepts ==
    ASSUME QueueInv, NEW r \in Requests, ReceiverStep(r)
    PROVE  [Inbox!InboxNext]_InboxState
<1>1. CASE ~StoreCommits(r)
  <2>1. UNCHANGED <<receipt, job>>
    BY <1>1 DEF ReceiverStep, ReceivePush, IngressDeadline, StoreAborts
  <2> QED
    BY <2>1, PhasesStay DEF Phase
<1>2. CASE StoreCommits(r)
  <2>1. PICK x \in Keys : x = req[r].key
    BY <1>2 DEF StoreCommits, QueueInv, TypeOK, ReqType
  <2>2. /\ receipt' = [receipt EXCEPT ![x] = AfterStore(receipt[x])]
        /\ job' = [job EXCEPT ![x] = JobAfterStore(x)]
        /\ receipt \in [Keys -> Receipt] /\ job \in [Keys -> Job]
    BY <1>2, <2>1 DEF StoreCommits, QueueInv, TypeOK, ReceiptType, JobType
  <2>3. \A k \in Keys \ {x} : Phase(k)' = Phase(k)
    BY <2>2 DEF Phase
  <2>4. CASE receipt[x].stored
    <3>1. receipt'[x].stored /\ job'[x] = job[x]
      BY <2>1, <2>2, <2>4 DEF AfterStore, JobAfterStore, Receipt
    <3>2. Phase(x)' = Phase(x)
      BY <2>4, <3>1 DEF Phase
    <3> QED
      BY <2>3, <3>2, PhasesStay
  <2>5. CASE ~receipt[x].stored
    <3>1. receipt'[x].stored /\ job'[x] = QueuedJob
      BY <2>1, <2>2, <2>5 DEF AfterStore, JobAfterStore, Receipt
    <3>2. QueuedJob.status = "QUEUED"
      BY DEF QueuedJob, NoJob
    <3>3. Phase(x) = "absent" /\ Phase(x)' = "pending"
      BY <2>5, <3>1, <3>2 DEF Phase, Settled
    <3>4. Inbox!Move({x}, "absent", "pending")
      BY <2>1, <2>3, <3>3, PhasesMove
    <3> QED
      BY <2>1, <3>4 DEF Inbox!InboxNext, Inbox!Accept
  <2> QED
    BY <2>4, <2>5
<1> QED
  BY <1>1, <1>2

(* Settling processes the push.                                            *)
LEMMA SettlingProcesses ==
    ASSUME QueueInv, NEW w \in Workers, CompleteTransaction(w)
    PROVE  [Inbox!InboxNext]_InboxState
<1>1. PICK x \in Keys : /\ x = worker[w].key
                        /\ job[x].status = "RUNNING" /\ job \in [Keys -> Job]
  BY DEF CompleteTransaction, HoldsLease, QueueInv, TypeOK, WorkerType, JobType
<1>2. receipt[x].stored
  BY <1>1 DEF QueueInv, RowInv
<1>3. UNCHANGED receipt /\ job' = [job EXCEPT ![x] = SettledJob(x)]
  BY <1>1 DEF CompleteTransaction, receiverVars
<1>4. SettledJob(x).status \in Settled
  <2>1. job[x] \in Job
    BY <1>1
  <2>2. SettledJob(x).status = FinalStatus(x)
    BY <2>1 DEF SettledJob, Job
  <2> QED
    BY <2>2 DEF FinalStatus, Settled
<1>5. Phase(x) = "pending" /\ Phase(x)' = "done"
  BY <1>1, <1>2, <1>3, <1>4 DEF Phase, Settled
<1>6. \A k \in Keys \ {x} : Phase(k)' = Phase(k)
  BY <1>1, <1>3 DEF Phase
<1>7. Inbox!Move({x}, "pending", "done")
  BY <1>1, <1>5, <1>6, PhasesMove
<1> QED
  BY <1>1, <1>7 DEF Inbox!InboxNext, Inbox!Process

(* Leasing, releasing, expiry, exhaustion and replay: every push whose job *)
(* changes phase is abandoned, or every one of them is replayed.           *)
LEMMA ChurnAbandonsOrReplays ==
    ASSUME QueueInv, UNCHANGED receipt,
           \A k \in Keys : Churn(k),
           \/ \A k \in Keys : job'[k].status = "DEAD_LETTER" \/ job[k].status # "DEAD_LETTER"
           \/ \A k \in Keys : job'[k].status # "DEAD_LETTER" \/ job[k].status = "DEAD_LETTER"
    PROVE  [Inbox!InboxNext]_InboxState
<1>1. \A k \in Keys : receipt[k].stored <=> job[k].status # "NONE"
  BY DEF QueueInv, RowInv
<1>2. CASE \A k \in Keys : job'[k].status = "DEAD_LETTER" \/ job[k].status # "DEAD_LETTER"
  <2> DEFINE S == {k \in Keys : job[k].status # "DEAD_LETTER" /\ job'[k].status = "DEAD_LETTER"}
  <2>1. \A k \in S : Phase(k) = "pending" /\ Phase(k)' = "dead"
    BY <1>1 DEF Churn, Phase, Unsettled, Active, Settled
  <2>2. \A k \in Keys \ S : Phase(k)' = Phase(k)
    BY <1>1, <1>2 DEF Churn, Phase, Unsettled, Active, Settled
  <2>3. S \in SUBSET Keys
    OBVIOUS
  <2>4. Inbox!Move(S, "pending", "dead")
    BY <2>1, <2>2, <2>3, PhasesMove
  <2> QED
    BY <2>3, <2>4 DEF Inbox!InboxNext, Inbox!Abandon
<1>3. CASE \A k \in Keys : job'[k].status # "DEAD_LETTER" \/ job[k].status = "DEAD_LETTER"
  <2> DEFINE S == {k \in Keys : job[k].status = "DEAD_LETTER" /\ job'[k].status # "DEAD_LETTER"}
  <2>1. \A k \in S : Phase(k) = "dead" /\ Phase(k)' = "pending"
    BY <1>1 DEF Churn, Phase, Unsettled, Active, Settled
  <2>2. \A k \in Keys \ S : Phase(k)' = Phase(k)
    BY <1>1, <1>3 DEF Churn, Phase, Unsettled, Active, Settled
  <2>3. S \in SUBSET Keys
    OBVIOUS
  <2>4. Inbox!Move(S, "dead", "pending")
    BY <2>1, <2>2, <2>3, PhasesMove
  <2> QED
    BY <2>3, <2>4 DEF Inbox!InboxNext, Inbox!Replay
<1> QED
  BY <1>2, <1>3

(* Only the replay script takes a job out of the dead letters, and it puts *)
(* none there.                                                             *)
LEMMA DeadStaysDead ==
    ASSUME QueueInv, NEW k \in Keys, job[k].status = "DEAD_LETTER",
           \/ TimeStep \/ GateStep
           \/ \E w \in Workers :
                 \/ Claim(w) \/ CompleteJobFails(w) \/ ProcessingFails(w)
                 \/ FailJob(w) \/ FailJobLost(w) \/ WorkerCrash(w)
    PROVE  job'[k].status = "DEAD_LETTER"
<1>0. job \in [Keys -> Job]
  BY DEF QueueInv, TypeOK, JobType
<1>1. CASE TimeStep
  BY <1>0, <1>1 DEF TimeStep, Tick, LeaseExpires, RetryDue, Job
<1>2. CASE GateStep
  BY <1>2 DEF GateStep, RecordGrantedProbe, ReopenGate
<1>3. ASSUME NEW w \in Workers, Claim(w) PROVE job'[k] = job[k]
  <2>1. ~Claimable(job[k]) /\ ~Exhausted(job[k]) /\ k # NoKey
    BY QueueAssumption DEF Claimable, Exhausted
  <2> QED
    BY <1>3, <2>1 DEF Claim, ClaimStatement
<1>4. ASSUME NEW w \in Workers, FailJob(w) PROVE job'[k] = job[k]
  BY <1>4 DEF FailJob, OwnsJob
<1>5. ASSUME NEW w \in Workers,
             CompleteJobFails(w) \/ ProcessingFails(w) \/ FailJobLost(w) \/ WorkerCrash(w)
      PROVE  job'[k] = job[k]
  BY <1>5 DEF CompleteJobFails, ProcessingFails, FailJobLost, WorkerCrash
<1> QED
  BY <1>1, <1>2, <1>3, <1>4, <1>5

(* Replaying dead letters creates none.                                    *)
LEMMA ReplayRevives ==
    ASSUME QueueInv, NEW k \in Keys, ReplayDeadLetters, job[k].status # "DEAD_LETTER"
    PROVE  job'[k].status # "DEAD_LETTER"
<1>1. job[k] \in Job
  BY DEF QueueInv, TypeOK, JobType
<1> QED
  BY <1>1 DEF ReplayDeadLetters, Job

(* Every step of the queue is a step of the inbox or leaves it alone.      *)
LEMMA InboxStep == QueueInv /\ [Next]_vars => [Inbox!InboxNext]_InboxState
<1> SUFFICES ASSUME QueueInv, [Next]_vars PROVE [Inbox!InboxNext]_InboxState
  OBVIOUS
<1>1. CASE UNCHANGED vars
  BY <1>1, PhasesStay DEF vars, Phase
<1>2. CASE \E r \in Requests : ReceiverStep(r)
  BY <1>2, StoringAccepts
<1>3. CASE \E w \in Workers : CompleteJob(w) \/ CompleteJobAnswerLost(w)
  BY <1>3, SettlingProcesses DEF CompleteJob, CompleteJobAnswerLost
<1>4. CASE \/ TimeStep \/ GateStep
           \/ \E w \in Workers :
                 \/ Claim(w) \/ CompleteJobFails(w) \/ ProcessingFails(w)
                 \/ FailJob(w) \/ FailJobLost(w) \/ WorkerCrash(w)
  <2>1. UNCHANGED receipt
    BY <1>4 DEF TimeStep, Tick, LeaseExpires, RetryDue, GateStep, RecordGrantedProbe,
       ReopenGate, Claim, CompleteJobFails, ProcessingFails, FailJob, FailJobLost,
       WorkerCrash, receiverVars
  <2>2. \A k \in Keys : Churn(k)
    BY <1>4, QueueStepsChurn DEF QueueInv
  <2>3. \A k \in Keys : job'[k].status = "DEAD_LETTER" \/ job[k].status # "DEAD_LETTER"
    BY <1>4, DeadStaysDead
  <2> QED
    BY <2>1, <2>2, <2>3, ChurnAbandonsOrReplays
<1>5. CASE ReplayDeadLetters
  <2>1. UNCHANGED receipt
    BY <1>5 DEF ReplayDeadLetters, receiverVars
  <2>2. \A k \in Keys : Churn(k)
    BY <1>5, QueueStepsChurn DEF QueueInv
  <2>3. \A k \in Keys : job'[k].status # "DEAD_LETTER" \/ job[k].status = "DEAD_LETTER"
    BY <1>5, ReplayRevives
  <2> QED
    BY <2>1, <2>2, <2>3, ChurnAbandonsOrReplays
<1> QED
  BY <1>1, <1>2, <1>3, <1>4, <1>5 DEF Next, WorkerStep

(* The queue implements the inbox: an accepted push is never forgotten,    *)
(* its committed effect is final, and only the replay script revives a     *)
(* dead letter, whatever the receiver, the workers and the clock do.       *)
THEOREM QueueImplementsInbox == Spec => ImplementsInbox
<1>1. Init => Inbox!InboxInit
  <2> SUFFICES ASSUME Init PROVE InboxState = [k \in Keys |-> "absent"]
    BY DEF Inbox!InboxInit
  <2>1. \A k \in Keys : ~receipt[k].stored
    BY DEF Init
  <2> QED
    BY <2>1 DEF InboxState
<1> QED
  BY <1>1, InboxStep, InvCorrect, PTL DEF Spec, ImplementsInbox, Inbox!InboxSpec
=============================================================================
