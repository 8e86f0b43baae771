---------------------------- MODULE WebhookQueue ----------------------------
(***************************************************************************)
(* The durable webhook queue: the HTTP receiver that stores a signed push  *)
(* as a receipt plus a job, the workers that lease, decrypt, normalise and *)
(* complete jobs, the dead-letter replay script, and the per-store         *)
(* authorization gate that completing a job may close.                     *)
(*                                                                         *)
(*   src/webhook/receiver.mjs, src/webhook/worker.mjs,                     *)
(*   src/warehouse/webhook-repository.mjs,                                 *)
(*   scripts/requeue_full_managed_webhook_dead_letters.mjs,                *)
(*   db/migrations/0005_webhook_runtime.sql                                *)
(*                                                                         *)
(* A database transaction is one step.  Everything else - HTTP deadlines,  *)
(* lease expiry, retry delays, crashes, lost COMMIT answers - interleaves. *)
(* Wall-clock time is abstracted to whether a lease is still live and      *)
(* whether a retry is due; only the gate needs an ordering of instants.    *)
(***************************************************************************)
EXTENDS Naturals, FiniteSets

CONSTANTS
    Pushes,         \* distinct signed payloads the platform may push
    Windows,        \* 10-minute retry-dedup windows of the platform timestamp
    Family,         \* [Pushes -> Families], event-registry.mjs
    Stores, StoreOf,\* [Pushes -> Stores \cup {NoStore}]; NoStore = APP_ONLY
    Requests,       \* HTTP requests the receiver can have in flight
    Workers,        \* worker identities (hostname:pid)
    NoStore, NoWorker, NoKey,
    MaxAttempts,    \* webhook_job.max_attempts (8 in the schema)
    MaxDeliveries,  \* [Pushes -> Nat], bound: deliveries of one push in one window
    MaxReplays,     \* bound: executions of the dead-letter replay script
    MaxClock        \* bound: instants that the gate tells apart

(* A push's idempotency key is its payload identity and its dedup window.  *)
Keys == Pushes \X Windows

(* Event families, by what the code tells apart: every registered family   *)
(* asks for a read-back, only purchase orders and deliveries may be        *)
(* replayed, only authorization changes close the gate.                    *)
Families == {"unknown", "order", "product", "authorization"}

ASSUME QueueAssumption ==
    /\ NoStore \notin Stores /\ NoWorker \notin Workers /\ NoKey \notin Keys
    /\ Family \in [Pushes -> Families]
    /\ StoreOf \in [Pushes -> Stores \cup {NoStore}]
    /\ MaxAttempts \in Nat \ {0}
    /\ MaxDeliveries \in [Pushes -> Nat] /\ MaxReplays \in Nat /\ MaxClock \in Nat

VARIABLES
    req,        \* receiver: in-flight requests
    receipt,    \* raw.webhook_receipt: stored?, duplicate_count
    job,        \* ops.webhook_job, one row per receipt
    worker,     \* what each worker process holds in memory
    event,      \* ops.operational_event: one row per receipt at most
    directive,  \* ops.webhook_hydration_directive: one row per event at most
    gate,       \* ops.webhook_store_gate, key AUTHORIZATION
    probes,     \* ops.permission_probe rows with outcome GRANTED
    clock,      \* instants, for blocked_at and probed_at
    replays,    \* executions of the replay script so far
    acks,       \* ghost: HTTP 200 answers the platform got
    sent,       \* environment: deliveries so far
    done        \* ghost: committed completeJob transactions, last instant

vars == <<req, receipt, job, worker, event, directive, gate, probes, clock,
          replays, acks, sent, done>>

receiverVars == <<req, receipt, acks, sent>>
gateVars == <<gate, probes, clock>>
outcomeVars == <<event, directive, done>>

Active == {"QUEUED", "RUNNING", "RETRY"}
Settled == {"SUCCEEDED", "QUARANTINED"}
Statuses == {"NONE", "DEAD_LETTER"} \cup Active \cup Settled
(* Error codes, grouped by whether the replay script accepts them.         *)
Errors == {"", "REPLAYABLE", "OTHER", "LEASE_EXHAUSTED"}

Job == [status : Statuses, attempts : 0..MaxAttempts,
        owner : Workers \cup {NoWorker}, live : BOOLEAN, ready : BOOLEAN,
        err : Errors]
NoJob == [status |-> "NONE", attempts |-> 0, owner |-> NoWorker,
          live |-> FALSE, ready |-> FALSE, err |-> ""]

IdleWorker == [pc |-> "idle", key |-> NoKey, attempt |-> 0, err |-> ""]
IdleRequest == [pc |-> "idle", key |-> NoKey]
NoGate == [state |-> "NONE", blockedAt |-> 0, probeAt |-> 0]

Receipt == [stored : BOOLEAN, dup : Nat]
Worker == [pc : {"idle", "processing", "releasing"}, key : Keys \cup {NoKey},
           attempt : 0..MaxAttempts, err : Errors]
Gate == [state : {"NONE", "OPEN", "BLOCKED"}, blockedAt : Nat, probeAt : Nat]

ReqType ==
    /\ req \in [Requests -> [pc : {"idle", "storing", "late"},
                             key : Keys \cup {NoKey}]]
    /\ \A r \in Requests : req[r].pc # "idle" => req[r].key \in Keys
ReceiptType == receipt \in [Keys -> Receipt]
JobType == job \in [Keys -> Job]
WorkerType ==
    /\ worker \in [Workers -> Worker]
    /\ \A w \in Workers : worker[w].pc # "idle" => worker[w].key \in Keys
OutcomeType ==
    /\ event \in [Keys -> BOOLEAN] /\ directive \in [Keys -> BOOLEAN]
    /\ done \in [Keys -> [count : Nat, at : Nat]]
GateType ==
    /\ gate \in [Stores -> Gate] /\ probes \subseteq (Stores \X Nat)
    /\ clock \in Nat
CountType ==
    /\ replays \in Nat /\ acks \in [Keys -> Nat] /\ sent \in [Keys -> Nat]

(* The columns' CHECKs and the shape of the processes' memory; a request   *)
(* or a worker that is busy is busy with some push, and no job is ever     *)
(* leased more than max_attempts times between two replays.                *)
TypeOK ==
    /\ ReqType /\ ReceiptType /\ JobType /\ WorkerType
    /\ OutcomeType /\ GateType /\ CountType

Init ==
    /\ req = [r \in Requests |-> IdleRequest]
    /\ receipt = [k \in Keys |-> [stored |-> FALSE, dup |-> 0]]
    /\ job = [k \in Keys |-> NoJob]
    /\ worker = [w \in Workers |-> IdleWorker]
    /\ event = [k \in Keys |-> FALSE]
    /\ directive = [k \in Keys |-> FALSE]
    /\ gate = [s \in Stores |-> NoGate]
    /\ probes = {} /\ clock = 1 /\ replays = 0
    /\ acks = [k \in Keys |-> 0]
    /\ sent = [k \in Keys |-> 0]
    /\ done = [k \in Keys |-> [count |-> 0, at |-> 0]]

-----------------------------------------------------------------------------
(* The receiver.                                                           *)

(* A push passes signature, identity and body checks and its transaction   *)
(* is issued.  A push that fails a check changes nothing durable.          *)
ReceivePush(r, k) ==
    /\ req[r].pc = "idle"
    /\ sent[k] < MaxDeliveries[k[1]]
    /\ req' = [req EXCEPT ![r] = [pc |-> "storing", key |-> k]]
    /\ sent' = [sent EXCEPT ![k] = @ + 1]
    /\ UNCHANGED <<receipt, acks, job, worker, outcomeVars, gateVars, replays>>

(* The ingress budget expires: 503 goes out while the transaction runs on. *)
IngressDeadline(r) ==
    /\ req[r].pc = "storing"
    /\ req' = [req EXCEPT ![r].pc = "late"]
    /\ UNCHANGED <<receipt, acks, sent, job, worker, outcomeVars, gateVars,
                   replays>>

(* storeReceiptAndJob: the receipt and its job in one transaction, or one  *)
(* more duplicate of a receipt already there.                              *)
AfterStore_DropsDuplicate(rc) == [rc EXCEPT !.stored = TRUE]

AfterStore(rc) ==
    IF rc.stored THEN [rc EXCEPT !.dup = @ + 1] ELSE [rc EXCEPT !.stored = TRUE]

QueuedJob == [NoJob EXCEPT !.status = "QUEUED", !.ready = TRUE]

JobAfterStore_Requeues(k) == QueuedJob

JobAfterStore(k) == IF receipt[k].stored THEN job[k] ELSE QueuedJob

Acknowledges(r) == req[r].pc = "storing"

StoreCommits(r) ==
    /\ req[r].pc # "idle"
    /\ LET k == req[r].key IN
       /\ receipt' = [receipt EXCEPT ![k] = AfterStore(@)]
       /\ job' = [job EXCEPT ![k] = JobAfterStore(k)]
       /\ acks' = IF Acknowledges(r) THEN [acks EXCEPT ![k] = @ + 1] ELSE acks
    /\ req' = [req EXCEPT ![r] = IdleRequest]
    /\ UNCHANGED <<sent, worker, outcomeVars, gateVars, replays>>

(* The transaction rolls back (statement timeout, inactive store, no       *)
(* connection); the push is answered 503 if it was not already.            *)
StoreAborts(r) ==
    /\ req[r].pc # "idle"
    /\ req' = [req EXCEPT ![r] = IdleRequest]
    /\ UNCHANGED <<receipt, acks, sent, job, worker, outcomeVars, gateVars,
                   replays>>

-----------------------------------------------------------------------------
(* Time, seen through the columns that the SQL compares with the clock.    *)

LeaseExpires(k) ==
    /\ job[k].status = "RUNNING" /\ job[k].live
    /\ job' = [job EXCEPT ![k].live = FALSE]
    /\ UNCHANGED <<receiverVars, worker, outcomeVars, gateVars, replays>>

RetryDue(k) ==
    /\ job[k].status = "RETRY" /\ ~job[k].ready
    /\ job' = [job EXCEPT ![k].ready = TRUE]
    /\ UNCHANGED <<receiverVars, worker, outcomeVars, gateVars, replays>>

Tick ==
    /\ clock < MaxClock
    /\ clock' = clock + 1
    /\ UNCHANGED <<receiverVars, job, worker, outcomeVars, gate, probes, replays>>

-----------------------------------------------------------------------------
(* claimNextJob: one statement that dead-letters every job whose last      *)
(* attempt's lease expired and leases at most one job that may run.        *)

Exhausted(j) ==
    j.status = "RUNNING" /\ ~j.live /\ j.attempts >= MaxAttempts

Claimable_NoCeiling(j) ==
    \/ j.status \in {"QUEUED", "RETRY"} /\ j.ready
    \/ j.status = "RUNNING" /\ ~j.live

Claimable_NoRecovery(j) ==
    j.attempts < MaxAttempts /\ j.status \in {"QUEUED", "RETRY"} /\ j.ready

Claimable(j) ==
    /\ j.attempts < MaxAttempts
    /\ \/ j.status \in {"QUEUED", "RETRY"} /\ j.ready
       \/ j.status = "RUNNING" /\ ~j.live

DeadLetter(j, err) ==
    [j EXCEPT !.status = "DEAD_LETTER", !.owner = NoWorker, !.live = FALSE,
              !.err = err]

Leased(j, w) ==
    [j EXCEPT !.status = "RUNNING", !.owner = w, !.live = TRUE,
              !.attempts = @ + 1]

(* The job table after one claim statement; k = NoKey when nothing may run.*)
ClaimStatement(w, k) ==
    [x \in Keys |-> IF x = k THEN Leased(job[x], w)
                    ELSE IF Exhausted(job[x])
                         THEN DeadLetter(job[x], "LEASE_EXHAUSTED")
                         ELSE job[x]]

Claim(w) ==
    /\ worker[w].pc = "idle"
    /\ \/ \E k \in Keys :
            /\ Claimable(job[k])
            /\ job' = ClaimStatement(w, k)
            /\ worker' = [worker EXCEPT ![w] =
                            [pc |-> "processing", key |-> k,
                             attempt |-> job[k].attempts + 1, err |-> ""]]
       \/ /\ \A k \in Keys : ~Claimable(job[k])
          /\ \E k \in Keys : Exhausted(job[k])
          /\ job' = ClaimStatement(w, NoKey)
          /\ UNCHANGED worker
    /\ UNCHANGED <<receiverVars, outcomeVars, gateVars, replays>>

-----------------------------------------------------------------------------
(* processOne after the claim.                                             *)

(* The lease test of completeJob (FOR UPDATE, so it holds to the commit).  *)
HoldsLease(w, k) ==
    /\ job[k].status = "RUNNING"
    /\ job[k].owner = w
    /\ job[k].live

(* What completing k writes beside the event (normalizer.mjs): a hydration *)
(* directive, a closed gate.  App-scoped pushes get neither.               *)
Hydrates(k) == Family[k[1]] # "unknown" /\ StoreOf[k[1]] # NoStore
ClosesGate(k) == Family[k[1]] = "authorization" /\ StoreOf[k[1]] # NoStore
FinalStatus(k) ==
    IF Family[k[1]] = "unknown" THEN "QUARANTINED" ELSE "SUCCEEDED"

BlockGate_KeepsOpenGate(k) ==
    IF ClosesGate(k) /\ gate[StoreOf[k[1]]].state = "NONE"
    THEN [gate EXCEPT ![StoreOf[k[1]]] =
             [state |-> "BLOCKED", blockedAt |-> clock, probeAt |-> 0]]
    ELSE gate

BlockGate(k) ==
    IF ClosesGate(k)
    THEN [gate EXCEPT ![StoreOf[k[1]]] =
             [state |-> "BLOCKED", blockedAt |-> clock, probeAt |-> 0]]
    ELSE gate

SettledJob(k) ==
    [job[k] EXCEPT !.status = FinalStatus(k), !.owner = NoWorker,
                   !.live = FALSE, !.err = ""]

(* The completeJob transaction commits.  A second directive for the same   *)
(* event would violate uq_ops_webhook_hydration_event and roll back.       *)
CompleteTransaction(w) ==
    LET k == worker[w].key IN
    /\ worker[w].pc = "processing"
    /\ HoldsLease(w, k)
    /\ ~(Hydrates(k) /\ directive[k])
    /\ job' = [job EXCEPT ![k] = SettledJob(k)]
    /\ event' = [event EXCEPT ![k] = TRUE]
    /\ directive' = [directive EXCEPT ![k] = @ \/ Hydrates(k)]
    /\ gate' = BlockGate(k)
    /\ done' = [done EXCEPT ![k] = [count |-> @.count + 1, at |-> clock]]
    /\ UNCHANGED <<receiverVars, probes, clock, replays>>

CompleteJob(w) ==
    /\ CompleteTransaction(w)
    /\ worker' = [worker EXCEPT ![w] = IdleWorker]

(* The COMMIT took effect but its answer was lost: the worker sees a       *)
(* failure and goes on to release a job that is already settled.           *)
CompleteJobAnswerLost(w) ==
    /\ CompleteTransaction(w)
    /\ worker' = [worker EXCEPT ![w].pc = "releasing", ![w].err = "REPLAYABLE"]

(* The transaction does not commit: no lease, or the database failed.      *)
CompleteJobFails(w) ==
    /\ worker[w].pc = "processing"
    /\ worker' = [worker EXCEPT ![w].pc = "releasing",
                    ![w].err = IF HoldsLease(w, worker[w].key)
                               THEN "REPLAYABLE" ELSE "OTHER"]
    /\ UNCHANGED <<receiverVars, job, outcomeVars, gateVars, replays>>

(* Credentials, ciphertext or payload are refused before completeJob.      *)
(* Unknown events are not decrypted and cannot fail here.                  *)
ProcessingFails(w) ==
    /\ worker[w].pc = "processing"
    /\ Family[worker[w].key[1]] # "unknown"
    /\ \E err \in {"REPLAYABLE", "OTHER"} :
         worker' = [worker EXCEPT ![w].pc = "releasing", ![w].err = err]
    /\ UNCHANGED <<receiverVars, job, outcomeVars, gateVars, replays>>

OwnsJob_AnyOwner(w, k) == job[k].status = "RUNNING"
OwnsJob_AnyStatus(w, k) == TRUE

OwnsJob(w, k) == job[k].status = "RUNNING" /\ job[k].owner = w

ReleasedJob(j, err) ==
    IF j.attempts >= MaxAttempts THEN DeadLetter(j, err)
    ELSE [j EXCEPT !.status = "RETRY", !.owner = NoWorker, !.live = FALSE,
                   !.ready = FALSE, !.err = err]

(* failJob, whose own failure (no such lease, no database) is only logged. *)
FailJob(w) ==
    /\ worker[w].pc = "releasing"
    /\ LET k == worker[w].key IN
       job' = IF OwnsJob(w, k)
              THEN [job EXCEPT ![k] = ReleasedJob(@, worker[w].err)] ELSE job
    /\ worker' = [worker EXCEPT ![w] = IdleWorker]
    /\ UNCHANGED <<receiverVars, outcomeVars, gateVars, replays>>

FailJobLost(w) ==
    /\ worker[w].pc = "releasing"
    /\ worker' = [worker EXCEPT ![w] = IdleWorker]
    /\ UNCHANGED <<receiverVars, job, outcomeVars, gateVars, replays>>

(* The process dies (or its claim's answer is lost) and starts again under *)
(* the same identity; the row stays RUNNING until its lease expires.       *)
WorkerCrash(w) ==
    /\ worker[w].pc # "idle"
    /\ worker' = [worker EXCEPT ![w] = IdleWorker]
    /\ UNCHANGED <<receiverVars, job, outcomeVars, gateVars, replays>>

-----------------------------------------------------------------------------
(* The dead-letter replay script (operator, --execute).                    *)

Replayable_Settled(k) ==
    job[k].status \in {"DEAD_LETTER"} \cup Settled /\ Family[k[1]] = "order"

Replayable(k) ==
    /\ job[k].status \in {"DEAD_LETTER", "RETRY"}
    /\ Family[k[1]] = "order"
    /\ job[k].err = "REPLAYABLE"
    /\ ~event[k]

ReplayDeadLetters ==
    /\ replays < MaxReplays
    /\ \E k \in Keys : Replayable(k)
    /\ job' = [k \in Keys |->
                 IF Replayable(k)
                 THEN [job[k] EXCEPT !.status = "RETRY", !.attempts = 0,
                                     !.ready = TRUE, !.err = ""]
                 ELSE job[k]]
    /\ replays' = replays + 1
    /\ UNCHANGED <<receiverVars, worker, outcomeVars, gateVars>>

-----------------------------------------------------------------------------
(* The authorization gate.                                                 *)

(* A read-only permission probe of store s is granted and recorded.        *)
RecordGrantedProbe(s) ==
    /\ clock <= MaxClock
    /\ <<s, clock>> \notin probes
    /\ probes' = probes \cup {<<s, clock>>}
    /\ UNCHANGED <<receiverVars, job, worker, outcomeVars, gate, clock, replays>>

(* ops.reopen_webhook_authorization_gate_after_probe and its trigger.      *)
ProbeIsNewer(s, p) == p[1] = s /\ p[2] > gate[s].blockedAt

ReopenGate(s) ==
    /\ gate[s].state = "BLOCKED"
    /\ \E p \in probes :
         /\ ProbeIsNewer(s, p)
         /\ gate' = [gate EXCEPT ![s].state = "OPEN", ![s].probeAt = p[2]]
    /\ UNCHANGED <<receiverVars, job, worker, outcomeVars, probes, clock, replays>>

-----------------------------------------------------------------------------
ReceiverStep(r) ==
    \/ \E k \in Keys : ReceivePush(r, k)
    \/ IngressDeadline(r) \/ StoreCommits(r) \/ StoreAborts(r)

WorkerStep(w) ==
    \/ Claim(w) \/ CompleteJob(w) \/ CompleteJobAnswerLost(w)
    \/ CompleteJobFails(w) \/ ProcessingFails(w) \/ FailJob(w)
    \/ FailJobLost(w)

TimeStep == Tick \/ \E k \in Keys : LeaseExpires(k) \/ RetryDue(k)

GateStep == \E s \in Stores : RecordGrantedProbe(s) \/ ReopenGate(s)

Next ==
    \/ \E r \in Requests : ReceiverStep(r)
    \/ \E w \in Workers : WorkerStep(w) \/ WorkerCrash(w)
    \/ TimeStep \/ GateStep \/ ReplayDeadLetters

Spec == Init /\ [][Next]_vars

(* The worker loop polls for ever and restarts after a crash, and time     *)
(* passes; nothing is assumed of the platform, the operator or the probes. *)
Fairness ==
    /\ \A w \in Workers : WF_vars(WorkerStep(w))
    /\ \A k \in Keys : WF_vars(LeaseExpires(k)) /\ WF_vars(RetryDue(k))

FairSpec == Spec /\ Fairness

-----------------------------------------------------------------------------
(* Every 200 the platform got for a push is backed by durable evidence: a  *)
(* receipt for the first, one counted duplicate for each further one.      *)
AcksAreDurable ==
    \A k \in Keys :
        acks[k] <= IF receipt[k].stored THEN 1 + receipt[k].dup ELSE 0

(* The job's status and what completing it writes change together: the     *)
(* operational event exists exactly for a settled job, the directive       *)
(* exactly for a settled read-back push of a store.                        *)
SettledAtomically ==
    \A k \in Keys :
        /\ event[k] <=> job[k].status \in Settled
        /\ directive[k] <=> event[k] /\ Hydrates(k)

(* However many workers, crashes, lost answers and replays: the completion *)
(* of one receipt commits at most once.                                    *)
AtMostOneEffect == \A k \in Keys : done[k].count <= 1

(* What has become of each push, read off the tables, and the promise it   *)
(* keeps.                                                                  *)
InboxState ==
    [k \in Keys |->
        IF ~receipt[k].stored THEN "absent"
        ELSE IF job[k].status \in Settled THEN "done"
        ELSE IF job[k].status = "DEAD_LETTER" THEN "dead" ELSE "pending"]

Inbox == INSTANCE WebhookInbox WITH state <- InboxState

(* The queue implements the inbox: an accepted push is never forgotten and *)
(* its committed effect is never undone or repeated, whatever the workers, *)
(* deadlines and the replay script do.                                     *)
ImplementsInbox == Inbox!InboxSpec

(* Worker w holds the job's latest claim, and the step is w's: it changes   *)
(* w's memory and no other worker's.                                       *)
LatestClaim(w, k) ==
    /\ worker[w].pc # "idle" /\ worker[w].key = k
    /\ worker[w].attempt = job[k].attempts /\ job[k].owner = w

StepsAlone(w) == \A v \in Workers : worker'[v] # worker[v] <=> v = w

(* A job stops running only by a step of the very worker whose claim is    *)
(* its latest, or through exhaustion: a stale worker's completeJob or      *)
(* failJob leaves the row alone, above all while the present holder is     *)
(* processing it.  A live lease is not taken over by a claim either.       *)
Fencing ==
    [][\A k \in Keys :
         /\ job[k].status = "RUNNING" /\ job'[k].status # "RUNNING" =>
              \/ Exhausted(job[k])
              \/ \E w \in Workers : LatestClaim(w, k) /\ StepsAlone(w)
         /\ job[k].live /\ job'[k].status = "RUNNING" =>
              job'[k].owner = job[k].owner /\ job'[k].attempts = job[k].attempts
      ]_job

(* A store's gate is open only on a granted probe of that store that is    *)
(* newer than every authorization change processed for it so far.          *)
GateNeedsNewerProbe ==
    \A k \in Keys : ClosesGate(k) /\ done[k].count > 0 =>
        LET g == gate[StoreOf[k[1]]] IN
        /\ g.state # "NONE"
        /\ g.state = "OPEN" => /\ <<StoreOf[k[1]], g.probeAt>> \in probes
                               /\ g.probeAt > done[k].at

(* A stored push is eventually settled or dead-lettered, whatever crashes: *)
(* attempts bound the crashes, and expiry recovers every abandoned lease.  *)
EventuallyResolved ==
    \A k \in Keys :
        receipt[k].stored ~> job[k].status \in Settled \cup {"DEAD_LETTER"}
=============================================================================
