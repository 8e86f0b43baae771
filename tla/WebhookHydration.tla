-------------------------- MODULE WebhookHydration --------------------------
(***************************************************************************)
(* Read-back of webhook facts: the directives that completing a webhook    *)
(* job leaves behind, and the runner that leases them in small batches,    *)
(* groups them by store, reads the platform back and settles each group.   *)
(*                                                                         *)
(*   src/webhook/hydration-repository.mjs,                                 *)
(*   scripts/run_full_managed_webhook_hydration.mjs,                       *)
(*   db/migrations/0027_webhook_projection_hydration.sql                   *)
(*                                                                         *)
(* Each repository call is one autocommitted statement; a thrown           *)
(* HYDRATION_LEASE_LOST does not undo the rows it already changed.         *)
(***************************************************************************)
EXTENDS Naturals, FiniteSets

CONSTANTS
    Directives,     \* rows that webhook jobs may emit
    Stores,
    StoresOf,       \* [Directives -> SUBSET Stores]: whose row may it be?
    Supported,      \* directives of the two types that the runner claims
    Docs, Domains,  \* documents of the platform; purchase orders, deliveries
    DomainOf,       \* [Docs -> Domains]
    KeysOf,         \* [Directives -> SUBSET Docs]: the keys of its lookup
    Strays,         \* documents a lookup may answer without being asked for
    Runners,        \* runner processes: the timer's and an operator's
    NoRunner,
    MaxAttempts,    \* 8 in the code
    BatchLimit,     \* 3 in the code
    MaxBatches      \* 10 in the code

ASSUME HydrationAssumption ==
    /\ StoresOf \in [Directives -> SUBSET Stores]
    /\ Supported \subseteq Directives
    /\ IsFiniteSet(Docs) /\ DomainOf \in [Docs -> Domains]
    /\ KeysOf \in [Directives -> SUBSET Docs] /\ Strays \subseteq Docs
    /\ NoRunner \notin Runners
    /\ MaxAttempts \in Nat \ {0} /\ BatchLimit \in Nat \ {0}
    /\ MaxBatches \in Nat \ {0}

VARIABLES
    row,        \* ops.webhook_hydration_directive
    runner,     \* each runner's memory
    loaded,     \* ghost: documents read back into the warehouse
    storeOf     \* the store column, written with the row and never changed

vars == <<row, runner, loaded, storeOf>>

States == {"NONE", "PENDING", "RUNNING", "RETRY", "SUCCEEDED", "FAILED"}
Row == [state : States, attempts : 0..MaxAttempts,
        owner : Runners \cup {NoRunner}, live : BOOLEAN, ready : BOOLEAN,
        keyed : BOOLEAN]    \* does the lookup carry a business key?
NoRow == [state |-> "NONE", attempts |-> 0, owner |-> NoRunner,
          live |-> FALSE, ready |-> FALSE, keyed |-> FALSE]

(* A runner between two awaits: what it claimed and has not settled yet,   *)
(* the attempt counts it read, and the valid rows of the group at hand.    *)
Pcs == {"off", "claim", "group", "sync", "settle", "release"}
Off == [pc |-> "off", batches |-> 0, claimed |-> {}, group |-> {},
        att |-> [d \in Directives |-> 0]]

RowType == row \in [Directives -> Row]
RunnerType ==
    runner \in [Runners -> [pc : Pcs, batches : 0..MaxBatches,
                            claimed : SUBSET Directives,
                            group : SUBSET Directives,
                            att : [Directives -> 0..MaxAttempts]]]

(* Rows and runner memory keep their shape; attempts stay within the       *)
(* ceiling that the claim statement tests.                                 *)
TypeOK ==
    /\ RowType /\ RunnerType /\ loaded \subseteq Docs
    /\ storeOf \in [Directives -> Stores]

Init ==
    /\ row = [d \in Directives |-> NoRow]
    /\ runner = [r \in Runners |-> Off]
    /\ loaded = {}
    /\ storeOf \in [Directives -> Stores]
    /\ \A d \in Directives : storeOf[d] \in StoresOf[d]

-----------------------------------------------------------------------------
(* completeJob of the webhook queue emits a directive.                     *)
Emit(d) ==
    /\ row[d].state = "NONE"
    /\ \E keyed \in BOOLEAN :
         row' = [row EXCEPT ![d].state = "PENDING", ![d].ready = TRUE,
                            ![d].keyed = keyed]
    /\ UNCHANGED <<runner, loaded, storeOf>>

LeaseExpires(d) ==
    /\ row[d].state = "RUNNING" /\ row[d].live
    /\ row' = [row EXCEPT ![d].live = FALSE]
    /\ UNCHANGED <<runner, loaded, storeOf>>

RetryDue(d) ==
    /\ row[d].state = "RETRY" /\ ~row[d].ready
    /\ row' = [row EXCEPT ![d].ready = TRUE]
    /\ UNCHANGED <<runner, loaded, storeOf>>

-----------------------------------------------------------------------------
(* claimBatch.                                                             *)

Exhausted(d) ==
    row[d].state = "RUNNING" /\ ~row[d].live /\ row[d].attempts >= MaxAttempts

Claimable_LiveLease(d) ==
    /\ d \in Supported
    /\ row[d].attempts < MaxAttempts
    /\ \/ row[d].state \in {"PENDING", "RETRY"} /\ row[d].ready
       \/ row[d].state = "RUNNING"

Claimable_NoRecovery(d) ==
    /\ d \in Supported
    /\ row[d].attempts < MaxAttempts
    /\ row[d].state \in {"PENDING", "RETRY"} /\ row[d].ready

Claimable_NoCeiling(d) ==
    /\ d \in Supported
    /\ \/ row[d].state \in {"PENDING", "RETRY"} /\ row[d].ready
       \/ row[d].state = "RUNNING" /\ ~row[d].live

Claimable(d) ==
    /\ d \in Supported
    /\ row[d].attempts < MaxAttempts
    /\ \/ row[d].state \in {"PENDING", "RETRY"} /\ row[d].ready
       \/ row[d].state = "RUNNING" /\ ~row[d].live

Claimables == {d \in Directives : Claimable(d)}

(* A batch is the claimable rows, or BatchLimit of them.                   *)
Batches ==
    {S \in SUBSET Claimables :
        Cardinality(S) = IF Cardinality(Claimables) < BatchLimit
                         THEN Cardinality(Claimables) ELSE BatchLimit}

Leased(d, r) ==
    [row[d] EXCEPT !.state = "RUNNING", !.owner = r, !.live = TRUE,
                   !.attempts = @ + 1]

Ended(rw, state) ==
    [rw EXCEPT !.state = state, !.owner = NoRunner, !.live = FALSE]

ClaimStatement(r, S) ==
    [d \in Directives |-> IF d \in S THEN Leased(d, r)
                          ELSE IF Exhausted(d) THEN Ended(row[d], "FAILED")
                          ELSE row[d]]

-----------------------------------------------------------------------------
(* runWebhookHydration.                                                    *)

StartRun(r) ==
    /\ runner[r].pc = "off"
    /\ runner' = [runner EXCEPT ![r].pc = "claim"]
    /\ UNCHANGED <<row, loaded, storeOf>>

(* One more batch; an empty one, or the batch limit, ends the run.         *)
ClaimBatch(r) ==
    /\ runner[r].pc = "claim" /\ runner[r].batches < MaxBatches
    /\ \E S \in Batches :
         /\ row' = ClaimStatement(r, S)
         /\ runner' = [runner EXCEPT ![r] =
              IF S = {} THEN Off
              ELSE [pc |-> "group", batches |-> @.batches + 1, claimed |-> S,
                    group |-> {},
                    att |-> [d \in Directives |-> IF d \in S
                               THEN row[d].attempts + 1 ELSE 0]]]
    /\ UNCHANGED <<loaded, storeOf>>

EndRun(r) ==
    /\ runner[r].pc = "claim" /\ runner[r].batches = MaxBatches
    /\ runner' = [runner EXCEPT ![r] = Off]
    /\ UNCHANGED <<row, loaded, storeOf>>

(* The guard of complete and fail.  Neither tests the lease's expiry.      *)
Owns_Anyone(r, d) == row[d].state = "RUNNING"

Owns(r, d) == row[d].state = "RUNNING" /\ row[d].owner = r

Owned(r, S) == {d \in S : Owns(r, d)}

(* fail: one verdict for the whole call, from its largest attempt count.   *)
Terminal_OfTheBatch(r, S) == \E d \in Directives : runner[r].att[d] >= MaxAttempts

Terminal(r, S) == \E d \in S : runner[r].att[d] >= MaxAttempts

FailStatement(r, S) ==
    [d \in Directives |->
        IF d \notin Owned(r, S) THEN row[d]
        ELSE IF Terminal(r, S) THEN Ended(row[d], "FAILED")
        ELSE [Ended(row[d], "RETRY") EXCEPT !.ready = FALSE]]

CompleteStatement(r, S) ==
    [d \in Directives |->
        IF d \in Owned(r, S) THEN Ended(row[d], "SUCCEEDED") ELSE row[d]]

(* The runner after a group: the next one, or the next batch.              *)
NextGroup(r) ==
    [runner[r] EXCEPT !.pc = IF runner[r].claimed = {} THEN "claim" ELSE "group",
                      !.group = {}]

(* One store's rows: those without a business key are failed at once, and  *)
(* a lost lease among them ends the run; the others are read back.         *)
TakeGroup(r) ==
    /\ runner[r].pc = "group"
    /\ \E s \in {storeOf[d] : d \in runner[r].claimed} :
         LET rows == {d \in runner[r].claimed : storeOf[d] = s}
             invalid == {d \in rows : ~row[d].keyed}
             rest == [runner[r] EXCEPT !.claimed = @ \ rows]
         IN
         /\ row' = FailStatement(r, invalid)
         /\ runner' = [runner EXCEPT ![r] =
              IF Owned(r, invalid) # invalid THEN Off
              ELSE IF rows = invalid
              THEN [rest EXCEPT !.pc = IF rest.claimed = {} THEN "claim" ELSE "group"]
              ELSE [rest EXCEPT !.pc = "sync", !.group = rows \ invalid]]
    /\ UNCHANGED <<loaded, storeOf>>

(* The point lookup asks for the distinct keys of the group.  The script   *)
(* never looks at which documents came back: it only compares, domain by   *)
(* domain, how many distinct ones did with how many it asked for.          *)
Requested(group) == UNION {KeysOf[d] : d \in group}

InDomain(docs, domain) == {x \in docs : DomainOf[x] = domain}

ReadsAll_OnePerDirective(group, found) == Cardinality(found) >= Cardinality(group)

ReadsAll(group, found) ==
    \A domain \in Domains :
        Cardinality(InDomain(found, domain))
            >= Cardinality(InDomain(Requested(group), domain))

(* Some documents are fetched and loaded; a domain that could not be       *)
(* fetched or loaded makes the whole sync not ok.                          *)
Sync(r) ==
    /\ runner[r].pc = "sync"
    /\ \E found \in SUBSET (Requested(runner[r].group) \cup Strays), ok \in BOOLEAN :
         /\ loaded' = loaded \cup found
         /\ runner' = [runner EXCEPT ![r].pc =
              IF ok /\ ReadsAll(runner[r].group, found) THEN "settle" ELSE "release"]
    /\ UNCHANGED <<row, storeOf>>

(* complete: a lease lost for some rows still settles the others, and the  *)
(* error sends the group to fail.                                          *)
Complete(r) ==
    /\ runner[r].pc = "settle"
    /\ LET group == runner[r].group IN
       /\ row' = CompleteStatement(r, group)
       /\ runner' = [runner EXCEPT ![r] =
            IF Owned(r, group) = group THEN NextGroup(r)
            ELSE [@ EXCEPT !.pc = "release"]]
    /\ UNCHANGED <<loaded, storeOf>>

(* The statement fails, or took effect and its answer is lost.             *)
CompleteErrs(r) ==
    /\ runner[r].pc = "settle"
    /\ \/ row' = CompleteStatement(r, runner[r].group)
       \/ UNCHANGED row
    /\ runner' = [runner EXCEPT ![r].pc = "release"]
    /\ UNCHANGED <<loaded, storeOf>>

Release(r) ==
    /\ runner[r].pc = "release"
    /\ LET group == runner[r].group IN
       /\ row' = FailStatement(r, group)
       /\ runner' = [runner EXCEPT ![r] =
            IF Owned(r, group) = group THEN NextGroup(r) ELSE Off]
    /\ UNCHANGED <<loaded, storeOf>>

(* The process dies, is stopped by TimeoutStartSec or loses the database.  *)
Crash(r) ==
    /\ runner[r].pc # "off"
    /\ runner' = [runner EXCEPT ![r] = Off]
    /\ UNCHANGED <<row, loaded, storeOf>>

-----------------------------------------------------------------------------
RunnerStep(r) ==
    \/ StartRun(r) \/ ClaimBatch(r) \/ EndRun(r) \/ TakeGroup(r) \/ Sync(r)
    \/ Complete(r) \/ CompleteErrs(r) \/ Release(r)

Next ==
    \/ \E d \in Directives : Emit(d) \/ LeaseExpires(d) \/ RetryDue(d)
    \/ \E r \in Runners : RunnerStep(r) \/ Crash(r)

Spec == Init /\ [][Next]_vars

(* The timer starts a run every ten minutes and a started run goes on;     *)
(* leases expire and retries come due.  Runs may die anywhere, but not all *)
(* of them before their first statement.                                   *)
Fairness ==
    /\ \A r \in Runners : WF_vars(RunnerStep(r)) /\ SF_vars(ClaimBatch(r))
    /\ \A d \in Directives : WF_vars(LeaseExpires(d)) /\ WF_vars(RetryDue(d))

FairSpec == Spec /\ Fairness

-----------------------------------------------------------------------------
(* What counting rests on, and nothing in the script checks: the           *)
(* platform's identifier filter returns only documents that were asked for.*)
LookupsAreExact == Strays = {}

(* A directive is marked successful only after every document it names was *)
(* read back into the warehouse, however the leases moved meanwhile.       *)
SucceededMeansLoaded ==
    \A d \in Directives : row[d].state = "SUCCEEDED" => KeysOf[d] \subseteq loaded

(* Runner r works on the row's latest claim, and the step is r's: it       *)
(* changes r's memory and no other runner's.                               *)
LatestClaim(r, d) ==
    /\ d \in runner[r].group \cup runner[r].claimed
    /\ row[d].owner = r /\ runner[r].att[d] = row[d].attempts

StepsAlone(r) == \A q \in Runners : runner'[q] # runner[q] <=> q = r

(* A row stops running only by a step of the very runner that holds it, or *)
(* through exhaustion: a runner that outlived its lease neither completes  *)
(* nor fails a row another one has claimed.  A live lease is not taken     *)
(* over, and a settled row never changes again.                            *)
LeasesFence ==
    [][\A d \in Directives :
         /\ row[d].state = "RUNNING" /\ row'[d].state # "RUNNING" =>
              Exhausted(d) \/ \E r \in Runners : LatestClaim(r, d) /\ StepsAlone(r)
         /\ row[d].live /\ row'[d].live =>
              row'[d].owner = row[d].owner /\ row'[d].attempts = row[d].attempts
         /\ row[d].state \in {"SUCCEEDED", "FAILED"} => row'[d] = row[d]
      ]_row

(* A directive is given up only together with a directive of its own store *)
(* that used up its attempts: failures never leak across stores.           *)
FailsWithAnExhaustedOne ==
    \A d \in Directives : row[d].state = "FAILED" =>
        \E e \in Directives :
            storeOf[e] = storeOf[d] /\ row[e].attempts = MaxAttempts

(* What the table of directives says is true: a success was read back, and *)
(* a failure is due to a directive of the store that used up its attempts. *)
HydrationSafety == TypeOK /\ SucceededMeansLoaded /\ FailsWithAnExhaustedOne

(* Every emitted directive of a supported type is eventually settled.      *)
EventuallySettled ==
    \A d \in Supported :
        row[d].state = "PENDING" ~> row[d].state \in {"SUCCEEDED", "FAILED"}
=============================================================================
