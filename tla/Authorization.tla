--------------------------- MODULE Authorization ---------------------------
(***************************************************************************)
(* Remote store authorization: batches of stores, one-time callback        *)
(* states, the credential receipts that callbacks leave on disk, and the   *)
(* two root scripts that review them - the finalizer, which moves a        *)
(* receipt's credentials into the OpenAPI configuration under a lock       *)
(* directory, and the rejecter, which takes no lock.                       *)
(*                                                                         *)
(*   src/authorization/file-store.mjs, src/authorization/service.mjs,      *)
(*   scripts/create_full_managed_authorization_batch.mjs,                  *)
(*   scripts/finalize_full_managed_authorization_receipt.mjs,              *)
(*   scripts/reject_full_managed_authorization_receipt.mjs                 *)
(*                                                                         *)
(* A mutation of the state file, under its lock file, is one step; so is   *)
(* every rename, unlink or atomic write.  A key is what the platform gives *)
(* out in an exchange: a pair of application and open key, told apart by   *)
(* its fingerprint, of one supplier account, which may get several.  A     *)
(* receipt is identified with the callback state that wrote it.  Every     *)
(* batch lists every store, and the application of every store is ready.   *)
(* A mutation that fails has written nothing.                              *)
(***************************************************************************)
EXTENDS Naturals, FiniteSets

CONSTANTS
    Stores, Batches, Suppliers, Keys,
    SupplierOf,             \* [Keys -> Suppliers], whose credentials a key is
    IdentityMap,            \* [Stores -> Suppliers], the reviewer's own source
    States,                 \* one-time callback states
    Finalizers, Rejecters,  \* invocations of the scripts; each runs once
    NoKey, NoState, NoBatch, NoStore, NoProcess,
    MaxAttempts,            \* attempts of one store in one batch (6)
    MaxFaults               \* bound: failed file operations and crashes

ASSUME AuthorizationAssumption ==
    /\ NoKey \notin Keys /\ NoState \notin States
    /\ NoBatch \notin Batches /\ NoStore \notin Stores
    /\ NoProcess \notin Finalizers
    /\ SupplierOf \in [Keys -> Suppliers] /\ IdentityMap \in [Stores -> Suppliers]
    /\ \A s, t \in Stores : IdentityMap[s] = IdentityMap[t] => s = t
    /\ MaxAttempts \in Nat /\ MaxFaults \in Nat

VARIABLES
    batch,      \* [Batches -> status, and whether its time is over]
    entry,      \* a store's row in a batch
    state,      \* the one-time states
    receipt,    \* receipt files
    callback,   \* where the server is with the callback of a state
    config,     \* OpenAPI configuration: the key a store uses
    lock,       \* owner in the finalization lock directory
    fin,        \* finalizer processes
    rej,        \* rejecter processes
    faults

fileVars == <<batch, entry, state>>
vars == <<fileVars, receipt, callback, config, lock, fin, rej, faults>>

Entries == Batches \X Stores
Received == {"REVIEW_REQUIRED", "APPROVED"}
Open == {"PENDING", "PROCESSING"}

FinSteps == {"idle", "lock", "reap", "read", "isolate", "write", "approve",
             "dispose", "undoApproval", "undoConfig", "undoReceipt", "release"}
RejSteps == {"idle", "isolate", "reject", "confirm", "restore", "delete"}
Ended == {"done", "dead"}

BatchRow == [status : {"none", "ACTIVE", "COMPLETED", "REVOKED"}, late : BOOLEAN]
Entry == [status : Received \cup {"NOT_STARTED", "AUTHORIZING", "REJECTED", "ERROR"},
          attempts : 0..MaxAttempts,
          key : Keys \cup {NoKey},             \* its supplier id and fingerprint
          receipt : States \cup {NoState},
          reviewer : Finalizers \cup {NoProcess}]   \* whose reviewedAt it shows
StateRow == [status : Open \cup {"free", "SUCCEEDED", "FAILED", "EXPIRED"},
             batch : Batches \cup {NoBatch},
             store : Stores \cup {NoStore}, late : BOOLEAN]
Receipt == [place : {"none", "file", "isolated", "gone"},
            key : Keys \cup {NoKey}]
FinMemory == [pc : FinSteps \cup Ended,
              batch : Batches \cup {NoBatch}, store : Stores \cup {NoStore},
              receipt : States \cup {NoState},
              before : [Stores -> Keys \cup {NoKey}],  \* configuration
              bad : BOOLEAN]                   \* did a rollback step fail?
FinBusy == FinSteps \ {"idle"}
FinChosen == FinBusy \ {"lock", "reap", "read", "release"}
FinProcess == {p \in FinMemory : /\ p.pc \in FinBusy => p.store \in Stores
                                 /\ p.pc \in FinChosen => p.receipt \in States}
RejProcess == [pc : RejSteps \cup Ended,
               batch : Batches \cup {NoBatch}, store : Stores \cup {NoStore},
               receipt : States \cup {NoState}]

BatchType == batch \in [Batches -> BatchRow]
EntryType == entry \in [Entries -> Entry]
StateType == state \in [States -> StateRow]
ReceiptType == receipt \in [States -> Receipt]
CallbackType == callback \in [States -> {"off", "exchange", "store", "fail"}]
ReviewType ==
    /\ config \in [Stores -> Keys \cup {NoKey}]
    /\ lock \in Finalizers \cup {NoProcess}
    /\ fin \in [Finalizers -> FinProcess]
    /\ rej \in [Rejecters -> RejProcess]

(* The schema that the state file is validated against, the processes'     *)
(* memory, and the limit on a store's attempts.                            *)
TypeOK ==
    /\ BatchType /\ EntryType /\ StateType /\ ReceiptType /\ CallbackType /\ ReviewType
    /\ faults \in 0..MaxFaults

(* A script that runs has arguments and what it read; before and after, it *)
(* has nothing.                                                            *)
FinAt(pc) == [pc |-> pc, batch |-> NoBatch, store |-> NoStore, receipt |-> NoState,
              before |-> [s \in Stores |-> NoKey], bad |-> FALSE]
RejAt(pc) == [pc |-> pc, batch |-> NoBatch, store |-> NoStore, receipt |-> NoState]

Init ==
    /\ batch = [b \in Batches |-> [status |-> "none", late |-> FALSE]]
    /\ entry = [e \in Entries |-> [status |-> "NOT_STARTED", attempts |-> 0,
                                   key |-> NoKey, receipt |-> NoState,
                                   reviewer |-> NoProcess]]
    /\ state = [x \in States |-> [status |-> "free", batch |-> NoBatch,
                                  store |-> NoStore, late |-> FALSE]]
    /\ receipt = [x \in States |-> [place |-> "none", key |-> NoKey]]
    /\ callback = [x \in States |-> "off"]
    /\ config = [s \in Stores |-> NoKey]
    /\ lock = NoProcess
    /\ fin = [f \in Finalizers |-> FinAt("idle")]
    /\ rej = [r \in Rejecters |-> RejAt("idle")]
    /\ faults = 0

Fault == faults < MaxFaults /\ faults' = faults + 1

-----------------------------------------------------------------------------
(* The state file: file-store.mjs, called by the service, or by a script.  *)

Usable(b) == batch[b].status = "ACTIVE" /\ ~batch[b].late

(* A new batch revokes the active one.                                     *)
CreateBatch(b) ==
    /\ batch[b].status = "none"
    /\ batch' = [c \in Batches |->
                   IF c = b THEN [status |-> "ACTIVE", late |-> FALSE]
                   ELSE IF batch[c].status = "ACTIVE"
                        THEN [batch[c] EXCEPT !.status = "REVOKED"]
                        ELSE batch[c]]
    /\ UNCHANGED <<entry, state, receipt, callback, config, lock, fin, rej, faults>>

BatchExpires(b) ==
    /\ batch[b].status \in {"ACTIVE", "COMPLETED"} /\ ~batch[b].late
    /\ batch' = [batch EXCEPT ![b].late = TRUE]
    /\ UNCHANGED <<entry, state, receipt, callback, config, lock, fin, rej, faults>>

StateExpires(x) ==
    /\ state[x].status = "PENDING" /\ ~state[x].late
    /\ state' = [state EXCEPT ![x].late = TRUE]
    /\ UNCHANGED <<batch, entry, receipt, callback, config, lock, fin, rej, faults>>

(* The operator starts a store over: earlier states of it are superseded,  *)
(* the ones whose exchange is under way included.                          *)
Superseded_PendingOnly(x, b, s) ==
    state[x].status = "PENDING" /\ state[x].batch = b /\ state[x].store = s

Superseded(x, b, s) ==
    state[x].status \in Open /\ state[x].batch = b /\ state[x].store = s

BeginState(x, b, s) ==
    /\ state[x].status = "free"
    /\ Usable(b)
    /\ entry[<<b, s>>].status \notin Received
    /\ entry[<<b, s>>].attempts < MaxAttempts
    /\ state' = [y \in States |->
                   IF y = x THEN [status |-> "PENDING", batch |-> b, store |-> s,
                                  late |-> FALSE]
                   ELSE IF Superseded(y, b, s)
                        THEN [state[y] EXCEPT !.status = "EXPIRED"] ELSE state[y]]
    /\ entry' = [entry EXCEPT ![<<b, s>>].status = "AUTHORIZING",
                              ![<<b, s>>].attempts = @ + 1]
    /\ UNCHANGED <<batch, receipt, callback, config, lock, fin, rej, faults>>

(* A store that was waiting for the state of this key shows the error.     *)
EntryFails_StateWord(x) ==
    LET e == <<state[x].batch, state[x].store>> IN
    entry' = IF entry[e].status = "AUTHORIZING"
             THEN [entry EXCEPT ![e].status = "FAILED"] ELSE entry

EntryFails(x) ==
    LET e == <<state[x].batch, state[x].store>> IN
    entry' = IF entry[e].status = "AUTHORIZING"
             THEN [entry EXCEPT ![e].status = "ERROR"] ELSE entry

(* complete: the callback arrives and claims its state, or finds it late.  *)
ClaimState(x) ==
    /\ state[x].status = "PENDING"
    /\ \/ /\ state[x].late
          /\ state' = [state EXCEPT ![x].status = "EXPIRED"]
          /\ EntryFails(x)
          /\ UNCHANGED callback
       \/ /\ ~state[x].late /\ Usable(state[x].batch)
          /\ state' = [state EXCEPT ![x].status = "PROCESSING"]
          /\ callback' = [callback EXCEPT ![x] = "exchange"]
          /\ UNCHANGED entry
    /\ UNCHANGED <<batch, receipt, config, lock, fin, rej, faults>>

(* The exchange of the token, the identity check and the receipt file.     *)
Exchange(x) ==
    /\ callback[x] = "exchange"
    /\ \/ \E k \in Keys :
            /\ receipt' = [receipt EXCEPT ![x] = [place |-> "file", key |-> k]]
            /\ callback' = [callback EXCEPT ![x] = "store"]
       \/ /\ callback' = [callback EXCEPT ![x] = "fail"]
          /\ UNCHANGED receipt
    /\ UNCHANGED <<fileVars, config, lock, fin, rej, faults>>

(* A key of this supplier account.                                         *)
KeyOf(k, p) == k \in Keys /\ SupplierOf[k] = p

(* Another store, in whatever batch, that was received from this supplier, *)
(* with the same key or another.                                           *)
BoundElsewhere_ThisBatch(b, s, p) ==
    \E t \in Stores \ {s} :
        entry[<<b, t>>].status \in Received /\ KeyOf(entry[<<b, t>>].key, p)

BoundElsewhere(b, s, p) ==
    \E c \in Batches, t \in Stores \ {s} :
        entry[<<c, t>>].status \in Received /\ KeyOf(entry[<<c, t>>].key, p)

CompleteState(x) ==
    LET b == state[x].batch  s == state[x].store  k == receipt[x].key IN
    /\ callback[x] = "store"
    /\ state[x].status = "PROCESSING" /\ Usable(b) /\ ~BoundElsewhere(b, s, SupplierOf[k])
    /\ state' = [state EXCEPT ![x].status = "SUCCEEDED"]
    /\ entry' = [entry EXCEPT ![<<b, s>>].status = "REVIEW_REQUIRED",
                              ![<<b, s>>].key = k, ![<<b, s>>].receipt = x,
                              ![<<b, s>>].reviewer = NoProcess]
    /\ batch' = IF \A t \in Stores \ {s} : entry[<<b, t>>].status \in Received
                THEN [batch EXCEPT ![b].status = "COMPLETED"] ELSE batch
    /\ callback' = [callback EXCEPT ![x] = "off"]
    /\ UNCHANGED <<receipt, config, lock, fin, rej, faults>>

(* completeState refuses or cannot be done: the receipt is removed again.  *)
CompleteStateFails(x) ==
    LET b == state[x].batch  s == state[x].store IN
    /\ callback[x] = "store"
    /\ IF state[x].status = "PROCESSING" /\ Usable(b)
          /\ ~BoundElsewhere(b, s, SupplierOf[receipt[x].key])
       THEN Fault ELSE UNCHANGED faults
    /\ state' = IF state[x].status = "PROCESSING" /\ ~Usable(b)
                THEN [state EXCEPT ![x].status = "FAILED"] ELSE state
    /\ receipt' = [receipt EXCEPT ![x].place = "gone"]
    /\ callback' = [callback EXCEPT ![x] = "fail"]
    /\ UNCHANGED <<batch, entry, config, lock, fin, rej>>

FailState(x) ==
    /\ callback[x] = "fail"
    /\ state' = [state EXCEPT ![x].status = "FAILED"]
    /\ EntryFails(x)
    /\ callback' = [callback EXCEPT ![x] = "off"]
    /\ UNCHANGED <<batch, receipt, config, lock, fin, rej, faults>>

(* The server dies with every callback it was serving.                     *)
ServerDies ==
    /\ Fault /\ \E x \in States : callback[x] # "off"
    /\ callback' = [x \in States |-> "off"]
    /\ UNCHANGED <<fileVars, receipt, config, lock, fin, rej>>

-----------------------------------------------------------------------------
(* The finalizer.                                                          *)

FinGoes(f, pc) == fin' = [fin EXCEPT ![f].pc = pc]
FinEnds(f, pc) ==
    fin' = [fin EXCEPT ![f] = [FinAt(pc) EXCEPT !.store = IF fin[f].bad THEN fin[f].store
                                                         ELSE NoStore,
                                                !.bad = fin[f].bad]]

(* mkdir of the lock directory.  Whoever finds one whose owner has exited  *)
(* goes on to move it away - whatever directory has that name by then.     *)
(* Not modelled: a lock is also taken from a live owner after 5 minutes.   *)
FinLocks(f, s) ==
    /\ fin[f].pc = "idle" \/ (fin[f].pc = "lock" /\ fin[f].store = s)
    /\ LET goes(pc) == fin' = [fin EXCEPT ![f].pc = pc, ![f].store = s] IN
       \/ lock = NoProcess /\ lock' = f /\ goes("read")
       \/ /\ lock # NoProcess /\ UNCHANGED lock
          /\ IF fin[lock].pc = "dead" THEN goes("reap") ELSE FinEnds(f, "done")
    /\ UNCHANGED <<fileVars, receipt, callback, config, rej, faults>>

FinReaps(f) ==
    /\ fin[f].pc = "reap"
    /\ lock' = NoProcess
    /\ FinGoes(f, "lock")
    /\ UNCHANGED <<fileVars, receipt, callback, config, rej, faults>>

(* Exactly one reviewable row of the store with the expected supplier,     *)
(* whose receipt is in place and has the row's fingerprint; no other store *)
(* configured for that supplier.                                           *)
Reviewable(s) ==
    {b \in Batches : entry[<<b, s>>].status = "REVIEW_REQUIRED"
                     /\ KeyOf(entry[<<b, s>>].key, IdentityMap[s])}

FinReads(f) ==
    LET s == fin[f].store IN
    /\ fin[f].pc = "read"
    /\ \/ \E b \in Batches :
            /\ Reviewable(s) = {b}
            /\ entry[<<b, s>>].receipt \in States
            /\ receipt[entry[<<b, s>>].receipt]
                 = [place |-> "file", key |-> entry[<<b, s>>].key]
            /\ \A t \in Stores \ {s} : ~KeyOf(config[t], IdentityMap[s])
            /\ fin' = [fin EXCEPT ![f].pc = "isolate", ![f].batch = b,
                                  ![f].receipt = entry[<<b, s>>].receipt,
                                  ![f].before = config]
       \/ FinGoes(f, "release")
    /\ UNCHANGED <<fileVars, receipt, callback, config, lock, rej, faults>>

(* The live identity check may fail; after it the receipt is renamed away, *)
(* which only one reviewer can do.                                         *)
FinIsolates(f) ==
    LET x == fin[f].receipt IN
    /\ fin[f].pc = "isolate"
    /\ \/ /\ receipt[x].place = "file"
          /\ receipt' = [receipt EXCEPT ![x].place = "isolated"]
          /\ FinGoes(f, "write")
       \/ UNCHANGED receipt /\ FinGoes(f, "release")
    /\ UNCHANGED <<fileVars, callback, config, lock, rej, faults>>

(* The file as it is now is backed up, and written whole from the copy     *)
(* that was read, with the keys of the receipt that was isolated.          *)
FinWrites(f) ==
    LET s == fin[f].store IN
    /\ fin[f].pc = "write"
    /\ \/ /\ config' = [fin[f].before EXCEPT ![s] = receipt[fin[f].receipt].key]
          /\ fin' = [fin EXCEPT ![f].pc = "approve", ![f].before = config]
          /\ UNCHANGED faults
       \/ Fault /\ FinGoes(f, "undoReceipt") /\ UNCHANGED config
    /\ UNCHANGED <<fileVars, receipt, callback, lock, rej>>

(* approveStore compares the supplier, not the receipt nor the fingerprint. *)
Approvable(f) ==
    LET e == <<fin[f].batch, fin[f].store>> IN
    entry[e].status = "REVIEW_REQUIRED" /\ KeyOf(entry[e].key, IdentityMap[fin[f].store])

FinApproves(f) ==
    LET e == <<fin[f].batch, fin[f].store>> IN
    /\ fin[f].pc = "approve"
    /\ \/ /\ Approvable(f)
          /\ entry' = [entry EXCEPT ![e].status = "APPROVED", ![e].receipt = NoState,
                                    ![e].reviewer = f]
          /\ FinGoes(f, "dispose")
          /\ UNCHANGED faults
       \/ /\ IF Approvable(f) THEN Fault ELSE UNCHANGED faults
          /\ FinGoes(f, "undoConfig")
          /\ UNCHANGED entry
    /\ UNCHANGED <<batch, state, receipt, callback, config, lock, rej>>

FinDisposes_KeepsApproval(f) ==
    /\ fin[f].pc = "dispose"
    /\ \/ /\ receipt' = [receipt EXCEPT ![fin[f].receipt].place = "gone"]
          /\ FinGoes(f, "release")
          /\ UNCHANGED faults
       \/ Fault /\ FinGoes(f, "undoConfig") /\ UNCHANGED receipt
    /\ UNCHANGED <<fileVars, callback, config, lock, rej>>

FinDisposes(f) ==
    /\ fin[f].pc = "dispose"
    /\ \/ /\ receipt' = [receipt EXCEPT ![fin[f].receipt].place = "gone"]
          /\ FinGoes(f, "release")
          /\ UNCHANGED faults
       \/ Fault /\ FinGoes(f, "undoApproval") /\ UNCHANGED receipt
    /\ UNCHANGED <<fileVars, callback, config, lock, rej>>

(* The rollback: approval, configuration, receipt.  A step that fails is   *)
(* remembered and the next one is tried all the same.                      *)
FinRollsOn(f, pc, ok) ==
    fin' = [fin EXCEPT ![f].pc = pc, ![f].bad = @ \/ ~ok]

ApprovalStands_AnyKey(f) ==
    LET e == <<fin[f].batch, fin[f].store>> IN
    /\ entry[e].status = "APPROVED" /\ entry[e].receipt = NoState
    /\ KeyOf(entry[e].key, IdentityMap[fin[f].store])

ApprovalStands(f) ==
    LET e == <<fin[f].batch, fin[f].store>> IN
    /\ entry[e].status = "APPROVED" /\ entry[e].receipt = NoState
    /\ entry[e].reviewer = f /\ entry[e].key = receipt[fin[f].receipt].key

FinUndoesApproval(f) ==
    LET e == <<fin[f].batch, fin[f].store>> IN
    /\ fin[f].pc = "undoApproval"
    /\ \/ /\ ApprovalStands(f)
          /\ entry' = [entry EXCEPT ![e].status = "REVIEW_REQUIRED",
                                    ![e].receipt = fin[f].receipt,
                                    ![e].reviewer = NoProcess]
          /\ FinRollsOn(f, "undoConfig", TRUE)
          /\ UNCHANGED faults
       \/ /\ IF ApprovalStands(f) THEN Fault ELSE UNCHANGED faults
          /\ FinRollsOn(f, "undoConfig", FALSE)
          /\ UNCHANGED entry
    /\ UNCHANGED <<batch, state, receipt, callback, config, lock, rej>>

FinUndoesConfig_NotWritten(f) ==
    /\ fin[f].pc = "undoConfig"
    /\ FinRollsOn(f, "undoReceipt", TRUE)
    /\ UNCHANGED <<fileVars, receipt, callback, config, lock, rej, faults>>

FinUndoesConfig(f) ==
    /\ fin[f].pc = "undoConfig"
    /\ \/ /\ config' = fin[f].before
          /\ FinRollsOn(f, "undoReceipt", TRUE)
          /\ UNCHANGED faults
       \/ Fault /\ FinRollsOn(f, "undoReceipt", FALSE) /\ UNCHANGED config
    /\ UNCHANGED <<fileVars, receipt, callback, lock, rej>>

FinUndoesReceipt_Removes(f) ==
    /\ fin[f].pc = "undoReceipt"
    /\ receipt' = [receipt EXCEPT ![fin[f].receipt].place = "gone"]
    /\ FinRollsOn(f, "release", TRUE)
    /\ UNCHANGED <<fileVars, callback, config, lock, rej, faults>>

FinUndoesReceipt(f) ==
    /\ fin[f].pc = "undoReceipt"
    /\ \/ /\ receipt' = [receipt EXCEPT ![fin[f].receipt].place = "file"]
          /\ FinRollsOn(f, "release", TRUE)
          /\ UNCHANGED faults
       \/ Fault /\ FinRollsOn(f, "release", FALSE) /\ UNCHANGED receipt
    /\ UNCHANGED <<fileVars, callback, config, lock, rej>>

(* Released only by the owner that the directory names.                    *)
FinReleases(f) ==
    /\ fin[f].pc = "release"
    /\ lock' = IF lock = f THEN NoProcess ELSE lock
    /\ FinEnds(f, "done")
    /\ UNCHANGED <<fileVars, receipt, callback, config, rej, faults>>

FinDies(f) ==
    /\ fin[f].pc \notin {"idle"} \cup Ended /\ Fault
    /\ FinEnds(f, "dead")
    /\ UNCHANGED <<fileVars, receipt, callback, config, lock, rej>>

-----------------------------------------------------------------------------
(* The rejecter.                                                           *)

RejGoes(r, pc) == rej' = [rej EXCEPT ![r].pc = pc]
RejEnds(r, pc) == rej' = [rej EXCEPT ![r] = RejAt(pc)]

RejStarts(r, b, s) ==
    /\ rej[r].pc = "idle"
    /\ entry[<<b, s>>].status = "REVIEW_REQUIRED"
    /\ receipt[entry[<<b, s>>].receipt].place = "file"
    /\ rej' = [rej EXCEPT ![r] = [pc |-> "isolate", batch |-> b, store |-> s,
                                  receipt |-> entry[<<b, s>>].receipt]]
    /\ UNCHANGED <<fileVars, receipt, callback, config, lock, fin, faults>>

RejIsolates(r) ==
    LET x == rej[r].receipt IN
    /\ rej[r].pc = "isolate"
    /\ \/ /\ receipt[x].place = "file"
          /\ receipt' = [receipt EXCEPT ![x].place = "isolated"]
          /\ RejGoes(r, "reject")
       \/ receipt[x].place # "file" /\ RejEnds(r, "done") /\ UNCHANGED receipt
    /\ UNCHANGED <<fileVars, callback, config, lock, fin, faults>>

(* rejectStore also reopens a completed batch, unless another is active.   *)
Reopens_Always(b) == batch[b].status = "COMPLETED" /\ ~batch[b].late

Reopens(b) ==
    /\ batch[b].status = "COMPLETED" /\ ~batch[b].late
    /\ \A c \in Batches \ {b} : batch[c].status # "ACTIVE"

RejRejects(r) ==
    LET b == rej[r].batch  s == rej[r].store
        can == /\ entry[<<b, s>>].status = "REVIEW_REQUIRED"
               /\ KeyOf(entry[<<b, s>>].key, SupplierOf[receipt[rej[r].receipt].key])
    IN
    /\ rej[r].pc = "reject"
    /\ \/ /\ can
          /\ entry' = [entry EXCEPT ![<<b, s>>].status = "REJECTED"]
          /\ batch' = IF Reopens(b) THEN [batch EXCEPT ![b].status = "ACTIVE"]
                      ELSE batch
          /\ RejGoes(r, "confirm")
          /\ UNCHANGED faults
       \/ /\ IF can THEN Fault ELSE UNCHANGED faults
          /\ RejGoes(r, "restore")
          /\ UNCHANGED <<batch, entry>>
    /\ UNCHANGED <<state, receipt, callback, config, lock, fin>>

(* The state file is read back; the store may be in a new round already.   *)
RejConfirms(r) ==
    LET e == entry[<<rej[r].batch, rej[r].store>>] IN
    /\ rej[r].pc = "confirm"
    /\ RejGoes(r, IF /\ e.status = "REJECTED" /\ e.receipt = rej[r].receipt
                     /\ e.key = receipt[rej[r].receipt].key
                  THEN "delete" ELSE "restore")
    /\ UNCHANGED <<fileVars, receipt, callback, config, lock, fin, faults>>

RejRestores(r) ==
    /\ rej[r].pc = "restore"
    /\ \/ /\ receipt' = [receipt EXCEPT ![rej[r].receipt].place = "file"]
          /\ UNCHANGED faults
       \/ Fault /\ UNCHANGED receipt
    /\ RejEnds(r, "done")
    /\ UNCHANGED <<fileVars, callback, config, lock, fin>>

RejDeletes(r) ==
    /\ rej[r].pc = "delete"
    /\ \/ /\ receipt' = [receipt EXCEPT ![rej[r].receipt].place = "gone"]
          /\ UNCHANGED faults
       \/ Fault /\ UNCHANGED receipt
    /\ RejEnds(r, "done")
    /\ UNCHANGED <<fileVars, callback, config, lock, fin>>

RejDies(r) ==
    /\ rej[r].pc \notin {"idle"} \cup Ended /\ Fault
    /\ RejEnds(r, "dead")
    /\ UNCHANGED <<fileVars, receipt, callback, config, lock, fin>>

-----------------------------------------------------------------------------
StateFileStep ==
    \/ \E b \in Batches : CreateBatch(b) \/ BatchExpires(b)
    \/ \E x \in States :
        \/ StateExpires(x) \/ ClaimState(x) \/ Exchange(x) \/ CompleteState(x)
        \/ CompleteStateFails(x) \/ FailState(x)
        \/ \E b \in Batches, s \in Stores : BeginState(x, b, s)
    \/ ServerDies

FinStep(f) ==
    \/ \E s \in Stores : FinLocks(f, s)
    \/ FinReaps(f) \/ FinReads(f) \/ FinIsolates(f) \/ FinWrites(f)
    \/ FinApproves(f) \/ FinDisposes(f) \/ FinUndoesApproval(f)
    \/ FinUndoesConfig(f) \/ FinUndoesReceipt(f) \/ FinReleases(f) \/ FinDies(f)

RejStep(r) ==
    \/ \E b \in Batches, s \in Stores : RejStarts(r, b, s)
    \/ RejIsolates(r) \/ RejRejects(r) \/ RejConfirms(r) \/ RejRestores(r)
    \/ RejDeletes(r) \/ RejDies(r)

Next ==
    \/ StateFileStep
    \/ \E f \in Finalizers : FinStep(f)
    \/ \E r \in Rejecters : RejStep(r)

Spec == Init /\ [][Next]_vars

-----------------------------------------------------------------------------
(* Creating a batch revokes the active one and a rejection may reopen a    *)
(* completed one; there are never two links that work.                     *)
OneActiveBatch ==
    \A b, c \in Batches :
        batch[b].status = "ACTIVE" /\ batch[c].status = "ACTIVE" => b = c

(* A supplier account is received for one store only, over all batches,    *)
(* rollbacks and rejections.                                               *)
UniqueBinding ==
    \A d, e \in Entries, p \in Suppliers :
        /\ entry[d].status \in Received /\ entry[e].status \in Received
        /\ KeyOf(entry[d].key, p) /\ KeyOf(entry[e].key, p)
        => d[2] = e[2]

(* The credentials of a store that waits for review are on disk, in place  *)
(* or set aside by a reviewer: failures and crashes never lose them.       *)
ReviewKeepsReceipt ==
    \A e \in Entries : entry[e].status = "REVIEW_REQUIRED" =>
        /\ entry[e].receipt \in States
        /\ receipt[entry[e].receipt].place \in {"file", "isolated"}
        /\ receipt[entry[e].receipt].key = entry[e].key

(* A late, repeated or superseded callback never replaces what was         *)
(* received: a received row keeps its key until it is rejected.            *)
ReceivedIsKept ==
    [][\A e \in Entries : entry[e].status \in Received =>
          /\ entry'[e].key = entry[e].key
          /\ entry'[e].status \in Received \cup {"REJECTED"}
          /\ entry[e].status = "REVIEW_REQUIRED"
             /\ entry'[e].status = "REVIEW_REQUIRED"
                => entry'[e].receipt = entry[e].receipt]_vars

(* The receipt x was left by a callback that completed for row e.          *)
RowOf(x) == <<state[x].batch, state[x].store>>
Completed(x, e) == x \in States /\ state[x].status = "SUCCEEDED" /\ RowOf(x) = e

(* The key k is of a receipt of the store s that has approved one of its   *)
(* rows, or that a finalizer has set aside, which may have died with it.   *)
Provided(k, s) ==
    \E x \in States, b \in Batches :
        /\ Completed(x, <<b, s>>) /\ receipt[x].key = k /\ KeyOf(k, IdentityMap[s])
        /\ \/ receipt[x].place = "isolated"
           \/ receipt[x].place = "gone" /\ entry[<<b, s>>].status = "APPROVED"

(* An approved store runs on a key of the approved account that one of its *)
(* own callbacks brought and a finalizer took out of review, unless a      *)
(* finalizer has reported that it could not roll back.                     *)
ApprovedMeansConfigured ==
    \A e \in Entries : entry[e].status = "APPROVED" =>
        \/ KeyOf(entry[e].key, IdentityMap[e[2]]) /\ Provided(config[e[2]], e[2])
        \/ \E f \in Finalizers : fin[f].store = e[2] /\ fin[f].bad

(* What is under review can be finished, and what is finished is in use:   *)
(* through every failure and crash of finalizers and the rejecter.         *)
ReviewSafety == ReviewKeepsReceipt /\ ApprovedMeansConfigured

(* "FINALIZATION_TRANSACTION_FAILED: finalization failed and was fully     *)
(* rolled back": the configuration of the store is what it was, its        *)
(* receipt is in place and no approval is left.                            *)
RollbackIsComplete ==
    [][\A f \in Finalizers :
          fin[f].pc = "undoReceipt" /\ fin'[f].pc = "release" /\ ~fin'[f].bad =>
             /\ config'[fin[f].store] = fin[f].before[fin[f].store]
             /\ receipt'[fin[f].receipt].place = "file"
             /\ entry'[<<fin[f].batch, fin[f].store>>].status # "APPROVED"]_vars

(* "two real finalizer processes preserve different stores in one          *)
(* configuration": only the finalizer of a store changes its credentials.  *)
FinalizersKeepOtherStores ==
    [][\A s \in Stores : config'[s] # config[s] =>
          \E f \in Finalizers : fin[f].store = s /\ fin'[f].pc # fin[f].pc]_vars

(* "After success the receipt with the keys is deleted exactly, only the   *)
(* audit fingerprint is kept" (docs/remote-authorization.md:54): the row   *)
(* that a finalizer approves shows the fingerprint of the keys that the    *)
(* store then runs on.                                                     *)
ApprovesWhatItWrote ==
    [][\A e \in Entries :
          entry[e].status # "APPROVED" /\ entry'[e].status = "APPROVED" =>
             config[e[2]] = entry'[e].key]_vars
=============================================================================
