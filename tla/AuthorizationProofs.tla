------------------------ MODULE AuthorizationProofs ------------------------
(***************************************************************************)
(* Proofs about store authorization, for any number of stores, batches,    *)
(* states, reviewers and faults.  The state file keeps its promises by its *)
(* own mutations, and the receipts by renames that only one process wins   *)
(* (ReceiptsInv).  The configuration is read in one step and written whole *)
(* in another: what is approved is configured as long as one finalizer at a *)
(* time is between them (ReviewInv under LockIsExclusive), which the lock  *)
(* directory ensures as long as no two invocations are at once about to    *)
(* move a dead owner's directory away (LockInv under OneReaper).           *)
(***************************************************************************)
EXTENDS Authorization, TLAPS

(* The records of processes that have not started, or have ended.          *)
LEMMA ProcessFacts ==
    /\ \A pc \in {"idle"} \cup Ended : FinAt(pc) \in FinProcess
    /\ \A pc \in RejSteps \cup Ended : RejAt(pc) \in RejProcess
BY DEF FinAt, RejAt, FinSteps, Ended, FinProcess, FinMemory, FinBusy, FinChosen, RejProcess

(* Updating a function at one place, if it has that place, keeps its type. *)
LEMMA Update ==
    ASSUME NEW S, NEW T, NEW f \in [S -> T], NEW a, NEW v, a \in S => v \in T
    PROVE  [f EXCEPT ![a] = v] \in [S -> T]
OBVIOUS

(* Setting one column of a row keeps the others.                           *)
LEMMA BatchFacts ==
    ASSUME NEW r \in BatchRow, NEW v \in {"ACTIVE", "COMPLETED", "REVOKED"}
    PROVE  [r EXCEPT !.status = v] \in BatchRow /\ [r EXCEPT !.late = TRUE] \in BatchRow
BY DEF BatchRow

(* The columns of an authorization state that the callback sets.           *)
LEMMA StateFacts ==
    ASSUME NEW r \in StateRow,
           NEW v \in {"PROCESSING", "SUCCEEDED", "FAILED", "EXPIRED"}
    PROVE  [r EXCEPT !.status = v] \in StateRow /\ [r EXCEPT !.late = TRUE] \in StateRow
BY DEF StateRow, Open

(* The columns of a store's row that the ledger sets.                      *)
LEMMA EntryFacts ==
    ASSUME NEW r \in Entry
    PROVE  /\ [r EXCEPT !.status = "ERROR"] \in Entry
           /\ [r EXCEPT !.status = "REJECTED"] \in Entry
BY DEF Entry, Received

(* The columns that a completed callback or a finalizer sets.              *)
LEMMA ReviewFacts ==
    ASSUME NEW r \in Entry, NEW k \in Keys \cup {NoKey},
           NEW x \in States \cup {NoState}, NEW f \in Finalizers
    PROVE  /\ [r EXCEPT !.status = "APPROVED", !.receipt = NoState, !.reviewer = f]
                \in Entry
           /\ [r EXCEPT !.status = "REVIEW_REQUIRED", !.receipt = x,
                        !.reviewer = NoProcess] \in Entry
           /\ [r EXCEPT !.status = "REVIEW_REQUIRED", !.key = k, !.receipt = x,
                        !.reviewer = NoProcess] \in Entry
BY DEF Entry, Received

(* Nothing has happened yet, and it is well-typed.                         *)
LEMMA InitType == Init => TypeOK
<1> SUFFICES ASSUME Init PROVE TypeOK
  OBVIOUS
<1>1. BatchType /\ EntryType /\ StateType
  BY AuthorizationAssumption DEF Init, BatchType, EntryType, StateType, BatchRow, Entry, StateRow, Received, Open, Entries
<1>2. ReceiptType
  BY DEF Init, ReceiptType, Receipt
<1>3. ReviewType
  BY ProcessFacts DEF Init, ReviewType, FinSteps, RejSteps
<1>4. CallbackType /\ faults \in 0..MaxFaults
  BY AuthorizationAssumption DEF Init, CallbackType
<1> QED
  BY <1>1, <1>2, <1>3, <1>4 DEF TypeOK

(* The state file: batches and rows.                                       *)
LEMMA StateFileType ==
    ASSUME TypeOK, StateFileStep PROVE TypeOK'
<1> USE AuthorizationAssumption
<1>0. /\ BatchType /\ EntryType /\ StateType /\ ReceiptType /\ CallbackType
      /\ ReviewType /\ faults \in 0..MaxFaults
  BY DEF TypeOK
<1>1. CASE \E b \in Batches : CreateBatch(b) \/ BatchExpires(b)
  <2>1. BatchType'
    <3>1. CASE \E b \in Batches : CreateBatch(b)
      <4>1. [status |-> "ACTIVE", late |-> FALSE] \in BatchRow
        BY DEF BatchRow
      <4>2. \A c \in Batches : batch[c] \in BatchRow
                                 /\ [batch[c] EXCEPT !.status = "REVOKED"] \in BatchRow
        BY <1>0, BatchFacts DEF BatchType
      <4>3. PICK b \in Batches : CreateBatch(b)
        BY <3>1
      <4>4. batch' = [c \in Batches |->
                        IF c = b THEN [status |-> "ACTIVE", late |-> FALSE]
                        ELSE IF batch[c].status = "ACTIVE"
                             THEN [batch[c] EXCEPT !.status = "REVOKED"]
                             ELSE batch[c]]
        BY <4>3 DEF CreateBatch
      <4> QED
        BY <4>1, <4>2, <4>4, Zenon DEF BatchType
    <3>2. CASE \E b \in Batches : BatchExpires(b)
      <4> PICK b \in Batches : BatchExpires(b)
        BY <3>2
      <4>1. batch' = [batch EXCEPT ![b] = [batch[b] EXCEPT !.late = TRUE]]
        BY DEF BatchExpires
      <4> QED
        BY <1>0, <4>1, BatchFacts, Update DEF BatchType
    <3> QED
      BY <1>1, <3>1, <3>2
  <2> QED
    BY <1>0, <1>1, <2>1 DEF CreateBatch, BatchExpires, TypeOK, EntryType, StateType,
        ReceiptType, CallbackType, ReviewType
<1>2. CASE \E x \in States : StateExpires(x)
  <2>1. StateType'
    <3> PICK x \in States : StateExpires(x)
      BY <1>2
    <3>1. state' = [state EXCEPT ![x] = [state[x] EXCEPT !.late = TRUE]]
      BY DEF StateExpires
    <3>2. [state[x] EXCEPT !.late = TRUE] \in StateRow
      BY <1>0, StateFacts DEF StateType
    <3> QED
      BY <1>0, <3>1, <3>2, Update DEF StateType
  <2> QED
    BY <1>0, <1>2, <2>1 DEF StateExpires, TypeOK, BatchType, EntryType,
        ReceiptType, CallbackType, ReviewType
<1>3. CASE \E x \in States, b \in Batches, s \in Stores : BeginState(x, b, s)
  <2> PICK x \in States, b \in Batches, s \in Stores : BeginState(x, b, s)
    BY <1>3
  <2>1. StateType'
    BY SMTT(30), <1>0 DEF BeginState, StateType, StateRow, Open
  <2>2. EntryType'
    <3> DEFINE e == <<b, s>>
               v == [entry[e] EXCEPT !.status = "AUTHORIZING", !.attempts = @ + 1]
    <3>1. entry' = [entry EXCEPT ![e] = v]
      BY DEF BeginState
    <3>2. /\ e \in Entries /\ entry[e] \in Entry /\ entry[e].attempts < MaxAttempts
      BY <1>0 DEF BeginState, EntryType, Entries
    <3>3. v \in Entry
      <4>1. entry[e].attempts \in 0..MaxAttempts
        BY <3>2 DEF Entry
      <4>2. entry[e].attempts + 1 \in 0..MaxAttempts
        BY <3>2, <4>1
      <4>3. \A r \in Entry, n \in 0..MaxAttempts :
              [r EXCEPT !.status = "AUTHORIZING", !.attempts = n] \in Entry
        BY DEF Entry
      <4> QED
        BY <3>2, <4>2, <4>3
    <3> HIDE DEF e, v
    <3> QED
      BY <1>0, <3>1, <3>3, Update DEF EntryType
  <2> QED
    BY <1>0, <2>1, <2>2 DEF BeginState, TypeOK, BatchType,
        ReceiptType, CallbackType, ReviewType
<1>4. CASE \E x \in States : ClaimState(x) \/ FailState(x)
  <2> PICK x \in States : ClaimState(x) \/ FailState(x)
    BY <1>4
  <2>1. StateType'
    <3>1. PICK v \in {"PROCESSING", "FAILED", "EXPIRED"} :
            state' = [state EXCEPT ![x] = [state[x] EXCEPT !.status = v]]
      BY DEF ClaimState, FailState
    <3>2. [state[x] EXCEPT !.status = v] \in StateRow
      BY <1>0, StateFacts DEF StateType
    <3> QED
      BY <1>0, <3>1, <3>2, Update DEF StateType
  <2>3. CallbackType'
    BY <1>0 DEF ClaimState, FailState, CallbackType
  <2>2. EntryType'
    <3> DEFINE e == <<state[x].batch, state[x].store>>
    <3>1. entry' = entry \/ entry' = [entry EXCEPT ![e] = [entry[e] EXCEPT !.status = "ERROR"]]
      BY DEF ClaimState, FailState, EntryFails
    <3>2. e \in Entries => [entry[e] EXCEPT !.status = "ERROR"] \in Entry
      BY <1>0, EntryFacts DEF EntryType
    <3> HIDE DEF e
    <3> QED
      BY <1>0, <3>1, <3>2, Update DEF EntryType
  <2> QED
    BY <1>0, <2>1, <2>2, <2>3 DEF ClaimState, FailState, TypeOK, BatchType, ReceiptType,
        ReviewType
<1>5. CASE \E x \in States : Exchange(x)
  <2>1. ReceiptType' /\ CallbackType'
    BY <1>0, <1>5 DEF Exchange, ReceiptType, Receipt, CallbackType
  <2> QED
    BY <1>0, <1>5, <2>1 DEF Exchange, fileVars, TypeOK, BatchType, EntryType, StateType,
        ReviewType
<1>6. CASE \E x \in States : CompleteState(x)
  <2> PICK x \in States : CompleteState(x)
    BY <1>6
  <2>1. StateType' /\ CallbackType'
    <3>1. state' = state \/ \E v \in {"SUCCEEDED", "FAILED"} :
            state' = [state EXCEPT ![x] = [state[x] EXCEPT !.status = v]]
      BY DEF CompleteState
    <3>2. StateType'
      <4>1. CASE state' = state
        BY <1>0, <4>1 DEF StateType
      <4>2. CASE state' # state
        <5>1. PICK v \in {"SUCCEEDED", "FAILED"} :
                state' = [state EXCEPT ![x] = [state[x] EXCEPT !.status = v]]
          BY <3>1, <4>2
        <5>2. [state[x] EXCEPT !.status = v] \in StateRow
          BY <1>0, StateFacts DEF StateType
        <5> QED
          BY <1>0, <5>1, <5>2, Update DEF StateType
      <4> QED
        BY <4>1, <4>2
    <3> QED
      BY <1>0, <3>2 DEF CompleteState, CallbackType
  <2>2. EntryType'
    <3> DEFINE e == <<state[x].batch, state[x].store>>
               v == [entry[e] EXCEPT !.status = "REVIEW_REQUIRED",
                                     !.key = receipt[x].key, !.receipt = x,
                                     !.reviewer = NoProcess]
    <3>1. entry' = [entry EXCEPT ![e] = v]
      BY DEF CompleteState
    <3>2. e \in Entries => v \in Entry
      <4>1. receipt[x].key \in Keys \cup {NoKey}
        BY <1>0 DEF ReceiptType, Receipt
      <4> QED
        <5> DEFINE k == receipt[x].key
        <5>1. \A r \in Entry : [r EXCEPT !.status = "REVIEW_REQUIRED", !.key = k,
                                   !.receipt = x, !.reviewer = NoProcess] \in Entry
          BY <4>1 DEF Entry, Received
        <5> QED
          BY <1>0, <5>1 DEF EntryType
    <3> HIDE DEF e, v
    <3> QED
      BY <1>0, <3>1, <3>2, Update DEF EntryType
  <2>3. BatchType'
    <3> DEFINE b == state[x].batch
               v == [batch[b] EXCEPT !.status = "COMPLETED"]
    <3>1. batch' = batch \/ batch' = [batch EXCEPT ![b] = v]
      BY DEF CompleteState
    <3>2. b \in Batches => v \in BatchRow
      BY <1>0, BatchFacts DEF BatchType
    <3> HIDE DEF b, v
    <3> QED
      BY <1>0, <3>1, <3>2, Update DEF BatchType
  <2> QED
    BY <1>0, <2>1, <2>2, <2>3 DEF CompleteState, TypeOK, ReceiptType, ReviewType
<1>7. CASE \E x \in States : CompleteStateFails(x)
  <2> PICK x \in States : CompleteStateFails(x)
    BY <1>7
  <2>1. StateType' /\ CallbackType'
    <3>1. state' = state \/ \E v \in {"SUCCEEDED", "FAILED"} :
            state' = [state EXCEPT ![x] = [state[x] EXCEPT !.status = v]]
      BY DEF CompleteStateFails
    <3>2. StateType'
      <4>1. CASE state' = state
        BY <1>0, <4>1 DEF StateType
      <4>2. CASE state' # state
        <5>1. PICK v \in {"SUCCEEDED", "FAILED"} :
                state' = [state EXCEPT ![x] = [state[x] EXCEPT !.status = v]]
          BY <3>1, <4>2
        <5>2. [state[x] EXCEPT !.status = v] \in StateRow
          BY <1>0, StateFacts DEF StateType
        <5> QED
          BY <1>0, <5>1, <5>2, Update DEF StateType
      <4> QED
        BY <4>1, <4>2
    <3> QED
      BY <1>0, <3>2 DEF CompleteStateFails, CallbackType
  <2>2. ReceiptType'
    BY <1>0 DEF CompleteStateFails, ReceiptType, Receipt
  <2>3. faults' \in 0..MaxFaults
    BY <1>0 DEF CompleteStateFails, Fault
  <2> QED
    BY <1>0, <2>1, <2>2, <2>3 DEF CompleteStateFails, TypeOK, BatchType, EntryType, ReviewType
<1>8. CASE ServerDies
  BY <1>0, <1>8 DEF ServerDies, Fault, fileVars, TypeOK, BatchType, EntryType, StateType,
      ReceiptType, CallbackType, ReviewType
<1> QED
  BY <1>1, <1>2, <1>3, <1>4, <1>5, <1>6, <1>7, <1>8 DEF StateFileStep

(* The memory of a finalizer that goes on, or ends.                        *)
LEMMA FinFacts ==
    ASSUME NEW p \in FinProcess, p.pc \in FinBusy,
           NEW pc \in FinSteps \cup Ended, NEW ok \in BOOLEAN,
           pc \in FinChosen => p.pc \in FinChosen
    PROVE  /\ [p EXCEPT !.pc = pc] \in FinProcess
           /\ [p EXCEPT !.pc = pc, !.bad = @ \/ ~ok] \in FinProcess
BY DEF FinProcess, FinMemory

(* A finalizer that ended holds nothing.                                   *)
LEMMA FinEndFacts ==
    ASSUME NEW p \in FinProcess, NEW pc \in Ended
    PROVE  [FinAt(pc) EXCEPT !.store = IF p.bad THEN p.store ELSE NoStore,
                             !.bad = p.bad] \in FinProcess
BY ZenonT(60) DEF FinProcess, FinMemory, FinAt, FinChosen, FinBusy, FinSteps, Ended

(* A finalizer's step changes its own memory only, to something well-typed. *)
LEMMA FinMemoryType ==
    ASSUME TypeOK, NEW f \in Finalizers, FinStep(f)
    PROVE  fin' \in [Finalizers -> FinProcess]
<1>0. /\ fin \in [Finalizers -> FinProcess] /\ fin[f] \in FinProcess
      /\ config \in [Stores -> Keys \cup {NoKey}]
      /\ entry \in [Entries -> Entry]
  BY DEF TypeOK, ReviewType, EntryType
<1> USE DEF FinSteps, FinChosen, FinBusy, Ended
<1>1. ASSUME NEW pc \in FinSteps \cup Ended, fin[f].pc \in FinBusy, FinGoes(f, pc),
             pc \in FinChosen => fin[f].pc \in FinChosen
      PROVE  fin' \in [Finalizers -> FinProcess]
  <2>1. fin' = [fin EXCEPT ![f] = [fin[f] EXCEPT !.pc = pc]]
    BY <1>1 DEF FinGoes
  <2>2. [fin[f] EXCEPT !.pc = pc] \in FinProcess
    BY <1>0, <1>1, FinFacts
  <2> QED
    BY <1>0, <2>1, <2>2, Update
<1>2. ASSUME NEW pc \in Ended, FinEnds(f, pc)
      PROVE  fin' \in [Finalizers -> FinProcess]
  <2> DEFINE v == [FinAt(pc) EXCEPT !.store = IF fin[f].bad THEN fin[f].store
                                              ELSE NoStore,
                                    !.bad = fin[f].bad]
  <2>1. fin' = [fin EXCEPT ![f] = v]
    BY <1>2 DEF FinEnds
  <2>2. v \in FinProcess
    BY <1>0, FinEndFacts
  <2> HIDE DEF v
  <2> QED
    BY <1>0, <2>1, <2>2, Update
<1>3. ASSUME NEW pc \in FinSteps \cup Ended, NEW ok \in BOOLEAN,
             fin[f].pc \in FinChosen, FinRollsOn(f, pc, ok)
      PROVE  fin' \in [Finalizers -> FinProcess]
  <2> DEFINE v == [fin[f] EXCEPT !.pc = pc, !.bad = @ \/ ~ok]
  <2>1. fin' = [fin EXCEPT ![f] = v]
    BY <1>3 DEF FinRollsOn
  <2>2. v \in FinProcess
    BY <1>0, <1>3, FinFacts
  <2> HIDE DEF v
  <2> QED
    BY <1>0, <2>1, <2>2, Update
<1>4. CASE \E s \in Stores : FinLocks(f, s)
  <2> PICK s \in Stores : FinLocks(f, s)
    BY <1>4
  <2>1. CASE FinEnds(f, "done")
    BY <1>2, <2>1
  <2>2. CASE ~FinEnds(f, "done")
    <3>1. PICK pc \in {"read", "reap"} :
            fin' = [fin EXCEPT ![f] = [fin[f] EXCEPT !.pc = pc, !.store = s]]
      BY <2>2 DEF FinLocks
    <3>2. [fin[f] EXCEPT !.pc = pc, !.store = s] \in FinProcess
      BY <1>0 DEF FinProcess, FinMemory
    <3> QED
      BY <1>0, <3>1, <3>2, Update
  <2> QED
    BY <2>1, <2>2
<1>5. CASE FinReads(f)
  <2>1. CASE FinGoes(f, "release")
    BY <1>1, <1>5, <2>1 DEF FinReads
  <2>2. CASE ~FinGoes(f, "release")
    <3>1. PICK b \in Batches :
            /\ entry[<<b, fin[f].store>>].receipt \in States
            /\ fin' = [fin EXCEPT ![f].pc = "isolate", ![f].batch = b,
                               ![f].receipt = entry[<<b, fin[f].store>>].receipt,
                               ![f].before = config]
      BY <1>5, <2>2, Zenon DEF FinReads
    <3>2. entry[<<b, fin[f].store>>].receipt \in States
      BY <3>1
    <3>3. [fin[f] EXCEPT !.pc = "isolate", !.batch = b,
               !.receipt = entry[<<b, fin[f].store>>].receipt, !.before = config]
            \in FinProcess
      BY <1>0, <1>5, <3>2 DEF FinReads, FinProcess, FinMemory
    <3>4. fin' = [fin EXCEPT ![f] = [fin[f] EXCEPT !.pc = "isolate", !.batch = b,
                     !.receipt = entry[<<b, fin[f].store>>].receipt, !.before = config]]
      BY <3>1
    <3> QED
      BY <1>0, <3>3, <3>4, Update
  <2> QED
    BY <2>1, <2>2
<1>6. CASE FinWrites(f)
  <2>1. CASE FinGoes(f, "undoReceipt")
    BY <1>1, <1>6, <2>1 DEF FinWrites
  <2>2. CASE ~FinGoes(f, "undoReceipt")
    <3> DEFINE v == [fin[f] EXCEPT !.pc = "approve", !.before = config]
    <3>1. fin' = [fin EXCEPT ![f] = v]
      BY <1>6, <2>2 DEF FinWrites
    <3>2. v \in FinProcess
      BY <1>0, <1>6 DEF FinWrites, FinProcess, FinMemory
    <3> HIDE DEF v
    <3> QED
      BY <1>0, <3>1, <3>2, Update
  <2> QED
    BY <2>1, <2>2
<1>7. CASE FinReaps(f) \/ FinIsolates(f) \/ FinApproves(f) \/ FinDisposes(f)
  <2>1. /\ fin[f].pc \in FinBusy
        /\ \E pc \in FinSteps : /\ FinGoes(f, pc)
                                /\ pc \in FinChosen => fin[f].pc \in FinChosen
    BY <1>7 DEF FinReaps, FinIsolates, FinApproves, FinDisposes
  <2> QED
    BY <1>1, <2>1
<1>8. CASE FinReleases(f) \/ FinDies(f)
  BY <1>2, <1>8 DEF FinReleases, FinDies
<1>9. CASE FinUndoesApproval(f) \/ FinUndoesConfig(f) \/ FinUndoesReceipt(f)
  <2>1. fin[f].pc \in FinChosen /\ \E pc \in FinSteps, ok \in BOOLEAN : FinRollsOn(f, pc, ok)
    BY <1>9 DEF FinUndoesApproval, FinUndoesConfig, FinUndoesReceipt
  <2> QED
    BY <1>3, <2>1
<1> QED
  BY <1>4, <1>5, <1>6, <1>7, <1>8, <1>9 DEF FinStep

(* The finalizer's steps keep the types.                                   *)
LEMMA FinType ==
    ASSUME TypeOK, NEW f \in Finalizers, FinStep(f)
    PROVE  TypeOK'
<1> USE AuthorizationAssumption
<1>0. /\ BatchType /\ EntryType /\ StateType /\ ReceiptType /\ CallbackType
      /\ ReviewType /\ faults \in 0..MaxFaults
      /\ fin' \in [Finalizers -> FinProcess]
  BY FinMemoryType DEF TypeOK
<1>1. /\ UNCHANGED <<batch, state, callback, rej>>
      /\ UNCHANGED faults \/ Fault
  BY DEF FinStep, FinLocks, FinReaps, FinReads, FinIsolates, FinWrites, FinApproves,
      FinDisposes, FinUndoesApproval, FinUndoesConfig, FinUndoesReceipt, FinReleases,
      FinDies, fileVars
<1>2. faults' \in 0..MaxFaults
  BY <1>0, <1>1 DEF Fault
<1>3. fin[f].store \in Stores \/ fin[f].pc \notin FinBusy
  BY <1>0 DEF ReviewType, FinProcess
<1>4. config' \in [Stores -> Keys \cup {NoKey}]
  <2>1. CASE FinWrites(f)
    <3>1. fin[f].before \in [Stores -> Keys \cup {NoKey}]
      BY <1>0 DEF ReviewType, FinProcess, FinMemory
    <3>2. fin[f].store \in Stores
      BY <1>3, <2>1 DEF FinWrites, FinBusy, FinSteps
    <3> DEFINE k == receipt[fin[f].receipt].key
    <3>3. \/ config' = config
          \/ config' = [fin[f].before EXCEPT ![fin[f].store] = k]
      BY <2>1 DEF FinWrites
    <3>4. fin[f].receipt \in States
      BY <1>0, <2>1 DEF FinWrites, ReviewType, FinProcess, FinChosen, FinBusy, FinSteps
    <3>5. k \in Keys \cup {NoKey}
      BY <1>0, <3>4 DEF ReceiptType, Receipt
    <3> HIDE DEF k
    <3> QED
      BY <1>0, <3>1, <3>2, <3>3, <3>5, Update DEF ReviewType
  <2>2. CASE FinUndoesConfig(f)
    <3>1. config' = config \/ config' = fin[f].before
      BY <2>2 DEF FinUndoesConfig
    <3>2. fin[f].before \in [Stores -> Keys \cup {NoKey}]
      BY <1>0 DEF ReviewType, FinProcess, FinMemory
    <3> QED
      BY <1>0, <3>1, <3>2 DEF ReviewType
  <2>3. CASE UNCHANGED config
    BY <1>0, <2>3 DEF ReviewType
  <2> QED
    BY <2>1, <2>2, <2>3 DEF FinStep, FinLocks, FinReaps, FinReads, FinIsolates,
        FinApproves, FinDisposes, FinUndoesApproval, FinUndoesReceipt, FinReleases, FinDies
<1>5. lock' \in Finalizers \cup {NoProcess}
  BY <1>0 DEF ReviewType, FinStep, FinLocks, FinReaps, FinReads, FinIsolates, FinWrites,
      FinApproves, FinDisposes, FinUndoesApproval, FinUndoesConfig, FinUndoesReceipt,
      FinReleases, FinDies
<1>6. ReceiptType'
  <2> DEFINE x == fin[f].receipt
  <2>1. receipt' = receipt \/ \E v \in {"isolated", "gone", "file"} :
          receipt' = [receipt EXCEPT ![x] = [receipt[x] EXCEPT !.place = v]]
    BY DEF FinStep, FinLocks, FinReaps, FinReads, FinIsolates, FinWrites,
        FinApproves, FinDisposes, FinUndoesApproval, FinUndoesConfig, FinUndoesReceipt,
        FinReleases, FinDies
  <2>2. ASSUME NEW v \in {"isolated", "gone", "file"}, x \in States
        PROVE  [receipt[x] EXCEPT !.place = v] \in Receipt
    BY <1>0, <2>2 DEF ReceiptType, Receipt
  <2> HIDE DEF x
  <2> QED
    BY <1>0, <2>1, <2>2, Update DEF ReceiptType
<1>7. EntryType'
  <2> DEFINE e == <<fin[f].batch, fin[f].store>>
  <2>1. \/ entry' = entry
        \/ entry' = [entry EXCEPT ![e] = [entry[e] EXCEPT !.status = "APPROVED",
                                                        !.receipt = NoState,
                                                        !.reviewer = f]]
        \/ entry' = [entry EXCEPT ![e] = [entry[e] EXCEPT !.status = "REVIEW_REQUIRED",
                                                        !.receipt = fin[f].receipt,
                                                        !.reviewer = NoProcess]]
    BY DEF FinStep, FinLocks, FinReaps, FinReads, FinIsolates, FinWrites,
        FinApproves, FinDisposes, FinUndoesApproval, FinUndoesConfig, FinUndoesReceipt,
        FinReleases, FinDies, fileVars
  <2>2. fin[f].receipt \in States \cup {NoState}
    BY <1>0 DEF ReviewType, FinProcess, FinMemory
  <2>3. e \in Entries =>
          /\ [entry[e] EXCEPT !.status = "APPROVED", !.receipt = NoState,
                              !.reviewer = f] \in Entry
          /\ [entry[e] EXCEPT !.status = "REVIEW_REQUIRED", !.receipt = fin[f].receipt,
                              !.reviewer = NoProcess] \in Entry
    BY <1>0, <2>2, ReviewFacts DEF EntryType
  <2> HIDE DEF e
  <2> QED
    BY <1>0, <2>1, <2>3, Update DEF EntryType
<1> QED
  BY <1>0, <1>1, <1>2, <1>4, <1>5, <1>6, <1>7 DEF TypeOK, BatchType, StateType,
      CallbackType, ReviewType

(* The rejecter's steps keep the types.                                    *)
LEMMA RejType ==
    ASSUME TypeOK, NEW r \in Rejecters, RejStep(r)
    PROVE  TypeOK'
<1> USE AuthorizationAssumption
<1>0. /\ BatchType /\ EntryType /\ StateType /\ ReceiptType /\ CallbackType
      /\ ReviewType /\ faults \in 0..MaxFaults
  BY DEF TypeOK
<1>1. /\ UNCHANGED <<state, callback, config, lock, fin>>
      /\ UNCHANGED faults \/ Fault
  BY DEF RejStep, RejStarts, RejIsolates, RejRejects, RejConfirms, RejRestores,
      RejDeletes, RejDies, fileVars
<1>2. faults' \in 0..MaxFaults
  BY <1>0, <1>1 DEF Fault
<1>3. rej' \in [Rejecters -> RejProcess]
  <2>1. CASE \E b \in Batches, s \in Stores : RejStarts(r, b, s)
    BY <1>0, <2>1 DEF RejStarts, ReviewType, RejProcess, RejSteps, EntryType, Entries, Entry
  <2>2. CASE \E pc \in RejSteps : RejGoes(r, pc)
    BY SMTT(30), <1>0, <2>2 DEF RejGoes, ReviewType, RejProcess
  <2>3. CASE \E pc \in Ended : RejEnds(r, pc)
    BY <1>0, <2>3 DEF RejEnds, RejAt, ReviewType, RejProcess
  <2> QED
    BY <2>1, <2>2, <2>3 DEF RejStep, RejIsolates, RejRejects, RejConfirms, RejRestores,
        RejDeletes, RejDies, RejSteps, Ended
<1>4. ReceiptType'
  <2> DEFINE x == rej[r].receipt
  <2>1. receipt' = receipt \/ \E v \in {"isolated", "gone", "file"} :
          receipt' = [receipt EXCEPT ![x] = [receipt[x] EXCEPT !.place = v]]
    BY DEF RejStep, RejStarts, RejIsolates, RejRejects, RejConfirms, RejRestores,
        RejDeletes, RejDies
  <2>2. ASSUME NEW v \in {"isolated", "gone", "file"}, x \in States
        PROVE  [receipt[x] EXCEPT !.place = v] \in Receipt
    BY <1>0, <2>2 DEF ReceiptType, Receipt
  <2> HIDE DEF x
  <2> QED
    BY <1>0, <2>1, <2>2, Update DEF ReceiptType
<1>5. EntryType'
  <2> DEFINE e == <<rej[r].batch, rej[r].store>>
  <2>1. \/ entry' = entry
        \/ entry' = [entry EXCEPT ![e] = [entry[e] EXCEPT !.status = "REJECTED"]]
    BY DEF RejStep, RejStarts, RejIsolates, RejRejects, RejConfirms, RejRestores,
        RejDeletes, RejDies, fileVars
  <2>2. e \in Entries => [entry[e] EXCEPT !.status = "REJECTED"] \in Entry
    BY <1>0, EntryFacts DEF EntryType
  <2> HIDE DEF e
  <2> QED
    BY <1>0, <2>1, <2>2, Update DEF EntryType
<1>6. BatchType'
  <2> DEFINE b == rej[r].batch
  <2>1. \/ batch' = batch
        \/ batch' = [batch EXCEPT ![b] = [batch[b] EXCEPT !.status = "ACTIVE"]]
    BY DEF RejStep, RejStarts, RejIsolates, RejRejects, RejConfirms, RejRestores,
        RejDeletes, RejDies, fileVars
  <2>2. b \in Batches => [batch[b] EXCEPT !.status = "ACTIVE"] \in BatchRow
    BY <1>0, BatchFacts DEF BatchType
  <2> HIDE DEF b
  <2> QED
    BY <1>0, <2>1, <2>2, Update DEF BatchType
<1> QED
  BY <1>0, <1>1, <1>2, <1>3, <1>4, <1>5, <1>6 DEF TypeOK, StateType, CallbackType,
      ReviewType

(* Every step keeps the types.                                             *)
LEMMA TypeStep == TypeOK /\ [Next]_vars => TypeOK'
<1> SUFFICES ASSUME TypeOK, [Next]_vars PROVE TypeOK'
  OBVIOUS
<1>1. CASE UNCHANGED vars
  BY <1>1 DEF vars, fileVars, TypeOK, BatchType, EntryType, StateType, ReceiptType,
      CallbackType, ReviewType
<1>2. CASE StateFileStep
  BY <1>2, StateFileType
<1>3. CASE \E f \in Finalizers : FinStep(f)
  BY <1>3, FinType
<1>4. CASE \E r \in Rejecters : RejStep(r)
  BY <1>4, RejType
<1> QED
  BY <1>1, <1>2, <1>3, <1>4 DEF Next

(* The state file satisfies the schema that every read checks, a store is  *)
(* never given more than maxAttempts attempts in a batch, and whoever      *)
(* reviews has a store to review.                                          *)
THEOREM AuthorizationTypes == Spec => []TypeOK
BY InitType, TypeStep, PTL DEF Spec

-----------------------------------------------------------------------------
(* One link works at a time, for any history of links and rejections.      *)
THEOREM OneLinkWorks == Spec => []OneActiveBatch
<1>1. Init => OneActiveBatch
  BY DEF Init, OneActiveBatch
<1>2. TypeOK /\ OneActiveBatch /\ [Next]_vars => OneActiveBatch'
  <2> SUFFICES ASSUME TypeOK, OneActiveBatch, [Next]_vars PROVE OneActiveBatch'
    OBVIOUS
  <2>0. BatchType
    BY DEF TypeOK
  <2>1. CASE \E b \in Batches : CreateBatch(b)
    BY <2>0, <2>1 DEF CreateBatch, OneActiveBatch, BatchType, BatchRow
  <2>2. CASE \E r \in Rejecters : RejRejects(r)
    BY <2>0, <2>2 DEF RejRejects, Reopens, OneActiveBatch, BatchType, BatchRow
  <2>3. CASE \A b \in Batches : batch'[b].status = "ACTIVE" => batch[b].status = "ACTIVE"
    BY <2>3 DEF OneActiveBatch
  <2>4. CASE \E b \in Batches : BatchExpires(b)
    BY <2>0, <2>3, <2>4 DEF BatchExpires, BatchType, BatchRow
  <2>5. CASE \E x \in States : CompleteState(x)
    BY <2>0, <2>3, <2>5 DEF CompleteState, BatchType, BatchRow
  <2>6. CASE UNCHANGED batch
    BY <2>6 DEF OneActiveBatch
  <2> QED
    BY <2>1, <2>2, <2>4, <2>5, <2>6, ZenonT(60) DEF Next, vars, fileVars, StateFileStep, StateExpires,
        ClaimState, Exchange, CompleteStateFails, FailState, BeginState, ServerDies,
        FinStep, FinLocks, FinReaps, FinReads, FinIsolates, FinWrites, FinApproves,
        FinDisposes, FinUndoesApproval, FinUndoesConfig, FinUndoesReceipt, FinReleases,
        FinDies, RejStep, RejStarts, RejIsolates, RejConfirms, RejRestores, RejDeletes,
        RejDies
<1> QED
  BY <1>1, <1>2, AuthorizationTypes, PTL DEF Spec

(* What a step does to rows: unless a callback completes, a row is         *)
(* received after it only if it was before, with the same key.             *)
Keeps(e) ==
    entry'[e].status \in Received =>
        entry[e].status \in Received /\ entry'[e].key = entry[e].key

(* Only a callback that completes (completeOneTimeState) makes a row a     *)
(* received one.                                                           *)
LEMMA RowsKept ==
    ASSUME TypeOK, [Next]_vars, \A x \in States : ~CompleteState(x)
    PROVE  \A e \in Entries : Keeps(e)
<1>0. EntryType
  BY DEF TypeOK
<1>1. CASE UNCHANGED entry
  BY <1>1 DEF Keeps
<1>2. CASE \E x \in States, b \in Batches, s \in Stores : BeginState(x, b, s)
  BY <1>0, <1>2 DEF BeginState, Keeps, EntryType, Entry, Received
<1>3. CASE \E x \in States : ClaimState(x) \/ FailState(x)
  BY <1>0, <1>3, SMTT(30) DEF ClaimState, FailState, EntryFails, Keeps, EntryType, Entry, Received
<1>4. CASE \E f \in Finalizers : FinApproves(f)
  <2> PICK f \in Finalizers : FinApproves(f)
    BY <1>4
  <2> DEFINE d == <<fin[f].batch, fin[f].store>>
             v == [entry[d] EXCEPT !.status = "APPROVED", !.receipt = NoState,
                                   !.reviewer = f]
  <2>1. \/ entry' = entry
        \/ entry[d].status = "REVIEW_REQUIRED" /\ entry' = [entry EXCEPT ![d] = v]
    BY DEF FinApproves, Approvable
  <2>2. d \in Entries => v.key = entry[d].key
    BY <1>0 DEF EntryType, Entry
  <2> HIDE DEF d, v
  <2> QED
    BY <1>0, <2>1, <2>2 DEF Keeps, EntryType, Received
<1>5. CASE \E f \in Finalizers : FinUndoesApproval(f)
  <2> PICK f \in Finalizers : FinUndoesApproval(f)
    BY <1>5
  <2> DEFINE d == <<fin[f].batch, fin[f].store>>
             v == [entry[d] EXCEPT !.status = "REVIEW_REQUIRED", !.receipt = fin[f].receipt,
                                   !.reviewer = NoProcess]
  <2>1. \/ entry' = entry
        \/ entry[d].status = "APPROVED" /\ entry' = [entry EXCEPT ![d] = v]
    BY DEF FinUndoesApproval, ApprovalStands
  <2>2. d \in Entries => v.key = entry[d].key
    BY <1>0 DEF EntryType, Entry
  <2> HIDE DEF d, v
  <2> QED
    BY <1>0, <2>1, <2>2 DEF Keeps, EntryType, Received
<1>6. CASE \E r \in Rejecters : RejRejects(r)
  <2> PICK r \in Rejecters : RejRejects(r)
    BY <1>6
  <2> DEFINE d == <<rej[r].batch, rej[r].store>>
  <2>1. \/ entry' = entry
        \/ entry' = [entry EXCEPT ![d] = [entry[d] EXCEPT !.status = "REJECTED"]]
    BY DEF RejRejects
  <2> HIDE DEF d
  <2> QED
    BY <1>0, <2>1 DEF Keeps, EntryType, Entry, Received
<1> QED
  BY <1>1, <1>2, <1>3, <1>4, <1>5, <1>6 DEF Next, vars, fileVars, StateFileStep,
      CreateBatch, BatchExpires, StateExpires, Exchange, CompleteStateFails, ServerDies,
      FinStep, FinLocks, FinReaps, FinReads, FinIsolates, FinWrites,
      FinDisposes, FinUndoesConfig, FinUndoesReceipt, FinReleases,
      FinDies, RejStep, RejStarts, RejIsolates, RejConfirms, RejRestores, RejDeletes,
      RejDies

(* A supplier account is bound to one store at most, whatever callbacks,   *)
(* links and reviews interleave: completing a callback looks at the rows   *)
(* of every batch in the transaction that writes its own row.              *)
THEOREM BindingsAreUnique == Spec => []UniqueBinding
<1>1. Init => UniqueBinding
  BY DEF Init, UniqueBinding, Received
<1>2. TypeOK /\ UniqueBinding /\ [Next]_vars => UniqueBinding'
  <2> SUFFICES ASSUME TypeOK, UniqueBinding, [Next]_vars PROVE UniqueBinding'
    OBVIOUS
  <2>1. CASE \A x \in States : ~CompleteState(x)
    BY <2>1, RowsKept DEF UniqueBinding, Keeps, KeyOf
  <2>2. CASE \E x \in States : CompleteState(x)
    <3> PICK x \in States : CompleteState(x)
      BY <2>2
    <3> DEFINE b == state[x].batch
               s == state[x].store
               k == receipt[x].key
    <3>1. \A c \in Batches, t \in Stores :
            entry[<<c, t>>].status \in Received /\ KeyOf(entry[<<c, t>>].key, SupplierOf[k])
               => t = s
      BY DEF CompleteState, BoundElsewhere
    <3>2. entry' = [entry EXCEPT ![<<b, s>>] =
                      [entry[<<b, s>>] EXCEPT !.status = "REVIEW_REQUIRED",
                                              !.key = k, !.receipt = x,
                                              !.reviewer = NoProcess]]
      BY DEF CompleteState
    <3> HIDE DEF b, s, k
    <3>3. ASSUME NEW e \in Entries
          PROVE  \/ entry'[e] = entry[e]
                 \/ e = <<b, s>> /\ entry'[e].key = k
      BY <3>2 DEF TypeOK, EntryType, Entry
    <3>4. SUFFICES ASSUME NEW d \in Entries, NEW e \in Entries, NEW p \in Suppliers,
                          entry'[d].status \in Received, entry'[e].status \in Received,
                          KeyOf(entry'[d].key, p), KeyOf(entry'[e].key, p)
                   PROVE  d[2] = e[2]
      BY DEF UniqueBinding, KeyOf
    <3>5. CASE entry'[d] = entry[d] /\ entry'[e] = entry[e]
      BY <3>4, <3>5 DEF UniqueBinding
    <3>6. CASE d = <<b, s>> /\ entry'[d].key = k /\ entry'[e] = entry[e]
      BY <3>1, <3>4, <3>6 DEF Entries, KeyOf
    <3>7. CASE e = <<b, s>> /\ entry'[e].key = k /\ entry'[d] = entry[d]
      BY <3>1, <3>4, <3>7 DEF Entries, KeyOf
    <3> QED
      BY <3>3, <3>5, <3>6, <3>7
  <2> QED
    BY <2>1, <2>2
<1> QED
  BY <1>1, <1>2, AuthorizationTypes, PTL DEF Spec

-----------------------------------------------------------------------------
(* The strengthening that keeps received rows: a store that may still be   *)
(* completed by a callback has not been received, and a row has one open   *)
(* state at most, because beginning supersedes the others.                 *)
OpenRows ==
    /\ \A x \in States : state[x].status \in Open =>
          RowOf(x) \in Entries /\ entry[RowOf(x)].status \notin Received
    /\ \A x, y \in States :
          state[x].status \in Open /\ state[y].status \in Open /\ RowOf(x) = RowOf(y)
             => x = y

(* No state is opened, and none changes its row.                           *)
NoneOpened ==
    \A x \in States : state'[x].status \in Open =>
        state[x].status \in Open /\ RowOf(x)' = RowOf(x)

(* A step that opens no state and receives no row keeps the relation of    *)
(* states and rows.                                                        *)
LEMMA OpenRowsKept ==
    ASSUME OpenRows, NoneOpened, \A e \in Entries : Keeps(e) PROVE OpenRows'
BY DEF OpenRows, NoneOpened, Keeps

(* Only beginning opens a state.                                           *)
LEMMA OnlyBeginOpens ==
    ASSUME TypeOK, [Next]_vars,
           \A x \in States, b \in Batches, s \in Stores : ~BeginState(x, b, s)
    PROVE  NoneOpened
<1>0. StateType
  BY DEF TypeOK
<1>1. CASE UNCHANGED state
  BY <1>1 DEF NoneOpened, RowOf
<1>2. CASE \E x \in States : StateExpires(x)
  BY <1>0, <1>2 DEF StateExpires, NoneOpened, RowOf, StateType, StateRow
<1>3. CASE \E x \in States : ClaimState(x)
  BY <1>0, <1>3 DEF ClaimState, NoneOpened, RowOf, StateType, StateRow, Open
<1>4. CASE \E x \in States : CompleteState(x) \/ CompleteStateFails(x) \/ FailState(x)
  <2> PICK x \in States : CompleteState(x) \/ CompleteStateFails(x) \/ FailState(x)
    BY <1>4
  <2>1. \/ state' = state
        \/ state' = [state EXCEPT ![x] = [state[x] EXCEPT !.status = "SUCCEEDED"]]
        \/ state' = [state EXCEPT ![x] = [state[x] EXCEPT !.status = "FAILED"]]
    BY DEF CompleteState, CompleteStateFails, FailState
  <2> QED
    BY <1>0, <2>1 DEF NoneOpened, RowOf, StateType, StateRow, Open
<1> QED
  BY <1>1, <1>2, <1>3, <1>4 DEF Next, vars, fileVars, StateFileStep,
      CreateBatch, BatchExpires, Exchange, ServerDies,
      FinStep, FinLocks, FinReaps, FinReads, FinIsolates, FinWrites, FinApproves,
      FinDisposes, FinUndoesApproval, FinUndoesConfig, FinUndoesReceipt, FinReleases,
      FinDies, RejStep, RejStarts, RejIsolates, RejRejects, RejConfirms, RejRestores,
      RejDeletes, RejDies

(* Every step keeps what is known of open states.                          *)
LEMMA OpenRowsStep == TypeOK /\ OpenRows /\ [Next]_vars => OpenRows'
<1> SUFFICES ASSUME TypeOK, OpenRows, [Next]_vars PROVE OpenRows'
  OBVIOUS
<1>0. StateType /\ EntryType
  BY DEF TypeOK
<1>1. CASE \E x \in States, b \in Batches, s \in Stores : BeginState(x, b, s)
  <2> PICK x \in States, b \in Batches, s \in Stores : BeginState(x, b, s)
    BY <1>1
  <2>1. ASSUME NEW y \in States, state'[y].status \in Open
        PROVE  \/ y = x /\ RowOf(y)' = <<b, s>>
               \/ /\ state[y].status \in Open /\ RowOf(y)' = RowOf(y)
                  /\ RowOf(y) # <<b, s>>
    <3>1. CASE y = x
      BY <3>1 DEF BeginState, RowOf
    <3>2. CASE y # x
      <4>1. CASE Superseded(y, b, s)
        BY <1>0, <2>1, <3>2, <4>1 DEF BeginState, StateType, StateRow, Open
      <4>2. CASE ~Superseded(y, b, s)
        <5>1. state'[y] = state[y]
          BY <3>2, <4>2 DEF BeginState
        <5> QED
          BY <2>1, <4>2, <5>1 DEF Superseded, RowOf
      <4> QED
        BY <4>1, <4>2
    <3> QED
      BY <3>1, <3>2
  <2>2. <<b, s>> \in Entries /\ entry'[<<b, s>>].status \notin Received
    BY <1>0 DEF BeginState, EntryType, Entry, Entries, Received
  <2>3. \A e \in Entries : e # <<b, s>> => entry'[e] = entry[e]
    BY <1>0 DEF BeginState, EntryType
  <2> QED
    BY <2>1, <2>2, <2>3 DEF OpenRows
<1>2. CASE \E x \in States : CompleteState(x)
  <2> PICK x \in States : CompleteState(x)
    BY <1>2
  <2>1. NoneOpened /\ state[x].status \in Open /\ state'[x].status \notin Open
    BY SMTT(30), <1>0, OnlyBeginOpens DEF CompleteState, BeginState, StateType, StateRow, Open
  <2>2. \A e \in Entries : e # RowOf(x) => entry'[e] = entry[e]
    BY <1>0 DEF CompleteState, RowOf, EntryType
  <2> QED
    BY <2>1, <2>2 DEF OpenRows, NoneOpened
<1>3. CASE /\ \A x \in States : ~CompleteState(x)
           /\ \A x \in States, b \in Batches, s \in Stores : ~BeginState(x, b, s)
  BY <1>3, OnlyBeginOpens, RowsKept, OpenRowsKept
<1> QED
  BY <1>1, <1>2, <1>3

(* What ReceivedIsKept says of one row in one step.                        *)
Kept(e) ==
    entry[e].status \in Received =>
        /\ entry'[e].key = entry[e].key
        /\ entry'[e].status \in Received \cup {"REJECTED"}
        /\ entry[e].status = "REVIEW_REQUIRED" /\ entry'[e].status = "REVIEW_REQUIRED"
             => entry'[e].receipt = entry[e].receipt

(* A step that writes one row keeps the others; the row it writes was not  *)
(* received, or moves on as a review may move it.                          *)
LEMMA KeptStep ==
    ASSUME TypeOK, OpenRows, [Next]_vars PROVE \A e \in Entries : Kept(e)
<1>0. EntryType
  BY DEF TypeOK
<1>1. CASE UNCHANGED entry
  BY <1>1 DEF Kept
<1>2. CASE \E x \in States, b \in Batches, s \in Stores : BeginState(x, b, s)
  BY <1>0, <1>2 DEF BeginState, Kept, EntryType
<1>3. CASE \E x \in States : ClaimState(x) \/ FailState(x)
  <2> PICK x \in States : ClaimState(x) \/ FailState(x)
    BY <1>3
  <2>1. \/ entry' = entry
        \/ /\ entry[RowOf(x)].status = "AUTHORIZING"
           /\ entry' = [entry EXCEPT ![RowOf(x)] =
                           [entry[RowOf(x)] EXCEPT !.status = "ERROR"]]
    BY DEF ClaimState, FailState, EntryFails, RowOf
  <2> QED
    BY <1>0, <2>1 DEF Kept, EntryType, Received
<1>4. CASE \E x \in States : CompleteState(x)
  <2> PICK x \in States : CompleteState(x)
    BY <1>4
  <2>1. entry[RowOf(x)].status \notin Received
    BY DEF CompleteState, OpenRows, Open
  <2>2. \A e \in Entries : e # RowOf(x) => entry'[e] = entry[e]
    BY <1>0 DEF CompleteState, RowOf, EntryType
  <2> QED
    BY <2>1, <2>2 DEF Kept
<1>5. CASE \E f \in Finalizers : FinApproves(f) \/ FinUndoesApproval(f)
  <2> PICK f \in Finalizers : FinApproves(f) \/ FinUndoesApproval(f)
    BY <1>5
  <2> DEFINE d == <<fin[f].batch, fin[f].store>>
             v == [entry[d] EXCEPT !.status = "APPROVED", !.receipt = NoState,
                                   !.reviewer = f]
             w == [entry[d] EXCEPT !.status = "REVIEW_REQUIRED", !.receipt = fin[f].receipt,
                                   !.reviewer = NoProcess]
  <2>1. \/ entry' = entry
        \/ entry' = [entry EXCEPT ![d] = v]
        \/ entry[d].status = "APPROVED" /\ entry' = [entry EXCEPT ![d] = w]
    BY DEF FinApproves, FinUndoesApproval, ApprovalStands
  <2>2. d \in Entries => /\ v.key = entry[d].key /\ v.status = "APPROVED"
                         /\ w.key = entry[d].key
                         /\ w.status = "REVIEW_REQUIRED"
    BY <1>0 DEF EntryType, Entry
  <2> HIDE DEF d, v, w
  <2> QED
    BY <1>0, <2>1, <2>2 DEF Kept, EntryType, Received
<1>6. CASE \E r \in Rejecters : RejRejects(r)
  <2> PICK r \in Rejecters : RejRejects(r)
    BY <1>6
  <2> DEFINE d == <<rej[r].batch, rej[r].store>>
             v == [entry[d] EXCEPT !.status = "REJECTED"]
  <2>1. entry' = entry \/ entry' = [entry EXCEPT ![d] = v]
    BY DEF RejRejects
  <2>2. d \in Entries => v.key = entry[d].key /\ v.status = "REJECTED"
    BY <1>0 DEF EntryType, Entry
  <2> HIDE DEF d, v
  <2> QED
    BY <1>0, <2>1, <2>2 DEF Kept, EntryType
<1> QED
  BY <1>1, <1>2, <1>3, <1>4, <1>5, <1>6 DEF Next, vars, fileVars, StateFileStep,
      CreateBatch, BatchExpires, StateExpires, Exchange, CompleteStateFails, ServerDies,
      FinStep, FinLocks, FinReaps, FinReads, FinIsolates, FinWrites,
      FinDisposes, FinUndoesConfig, FinUndoesReceipt, FinReleases,
      FinDies, RejStep, RejStarts, RejIsolates, RejConfirms, RejRestores, RejDeletes,
      RejDies

(* No callback, however late, repeated or superseded, replaces what was    *)
(* received for a store; only a review moves a received row.               *)
THEOREM ReceivedRowsAreKept == Spec => ReceivedIsKept
<1>1. Init => OpenRows
  BY DEF Init, OpenRows, Open
<1>2. TypeOK /\ OpenRows /\ [Next]_vars =>
        [\A e \in Entries : entry[e].status \in Received =>
            /\ entry'[e].key = entry[e].key
            /\ entry'[e].status \in Received \cup {"REJECTED"}
            /\ entry[e].status = "REVIEW_REQUIRED"
               /\ entry'[e].status = "REVIEW_REQUIRED"
                  => entry'[e].receipt = entry[e].receipt]_vars
  BY KeptStep DEF Kept
<1> QED
  BY <1>1, <1>2, OpenRowsStep, AuthorizationTypes, PTL DEF Spec, ReceivedIsKept

-----------------------------------------------------------------------------
(* Receipts under review.  A reviewer holds the receipt it has moved away  *)
(* until it disposes of it, puts it back or dies.                          *)
FinHolds(f) ==
    fin[f].pc \in {"write", "approve", "dispose", "undoApproval", "undoConfig",
                   "undoReceipt"}
RejHolds(r) == rej[r].pc \in {"reject", "confirm", "restore", "delete"}

(* A callback that is being served has been claimed and is not complete;   *)
(* what it is about to store is in its file.                               *)
CallbackInv ==
    \A x \in States :
        /\ callback[x] # "off" =>
              state[x].status \notin {"free", "PENDING", "SUCCEEDED"}
        /\ callback[x] = "store" => receipt[x].place = "file"

(* A row under review has the receipt of the callback that completed it.   *)
RowsInv ==
    \A e \in Entries : entry[e].status = "REVIEW_REQUIRED" =>
        /\ Completed(entry[e].receipt, e)
        /\ receipt[entry[e].receipt].place \in {"file", "isolated"}
        /\ receipt[entry[e].receipt].key = entry[e].key

(* A reviewer's receipt belongs to the row it reviews, and while it holds  *)
(* it nobody finds it in its place.                                        *)
FinInv(f) ==
    LET x == fin[f].receipt  d == <<fin[f].batch, fin[f].store>> IN
    /\ FinHolds(f) \/ fin[f].pc = "isolate" =>
          /\ d \in Entries /\ Completed(x, d)
          /\ KeyOf(receipt[x].key, IdentityMap[fin[f].store])
    /\ FinHolds(f) => receipt[x].place = "isolated"
    /\ fin[f].pc \in {"dispose", "undoApproval"} => entry[d].status = "APPROVED"

RejInv(r) ==
    LET x == rej[r].receipt  d == <<rej[r].batch, rej[r].store>> IN
    /\ RejHolds(r) \/ rej[r].pc = "isolate" => Completed(x, d)
    /\ RejHolds(r) => receipt[x].place = "isolated"
    /\ rej[r].pc = "delete" =>
          \A e \in Entries : entry[e].status = "REVIEW_REQUIRED" => entry[e].receipt # x

(* A receipt has one holder, and a row one approver that may take its      *)
(* approval back.                                                          *)
HoldersInv ==
    /\ \A f, g \in Finalizers :
          FinHolds(f) /\ FinHolds(g) /\ fin[f].receipt = fin[g].receipt => f = g
    /\ \A r, q \in Rejecters :
          RejHolds(r) /\ RejHolds(q) /\ rej[r].receipt = rej[q].receipt => r = q
    /\ \A f \in Finalizers, r \in Rejecters :
          FinHolds(f) /\ RejHolds(r) => fin[f].receipt # rej[r].receipt
    /\ \A f, g \in Finalizers :
          /\ fin[f].pc \in {"dispose", "undoApproval"} /\ fin[g].pc \in {"dispose", "undoApproval"}
          /\ fin[f].batch = fin[g].batch /\ fin[f].store = fin[g].store
          => f = g

ReceiptsInv ==
    /\ TypeOK /\ CallbackInv /\ RowsInv /\ HoldersInv
    /\ \A f \in Finalizers : FinInv(f)
    /\ \A r \in Rejecters : RejInv(r)

-----------------------------------------------------------------------------
(* The steps of the callbacks and links leave a completed state and its    *)
(* receipt alone, and a received row too.                                  *)
LEMMA StateFileEffects ==
    ASSUME TypeOK, OpenRows, CallbackInv, StateFileStep
    PROVE  /\ UNCHANGED <<config, fin, rej>>
           /\ \A x \in States : state[x].status = "SUCCEEDED" =>
                 state'[x] = state[x] /\ receipt'[x] = receipt[x]
           /\ \A e \in Entries : entry[e].status \in Received => entry'[e] = entry[e]
           /\ \A e \in Entries : entry'[e].status \in Received =>
                 \/ entry'[e] = entry[e]
                 \/ \E x \in States : /\ CompleteState(x) /\ e = RowOf(x)
                                      /\ entry'[e].status = "REVIEW_REQUIRED"
                                      /\ entry'[e].key = receipt[x].key
                                      /\ entry'[e].receipt = x
           /\ CallbackInv'
<1>0. /\ state \in [States -> StateRow] /\ entry \in [Entries -> Entry]
      /\ receipt \in [States -> Receipt]
      /\ callback \in [States -> {"off", "exchange", "store", "fail"}]
  BY DEF TypeOK, StateType, EntryType, ReceiptType, CallbackType
<1>1. CASE (\E b \in Batches : CreateBatch(b) \/ BatchExpires(b))
           \/ \E x \in States : StateExpires(x)
  BY <1>0, <1>1 DEF CreateBatch, BatchExpires, StateExpires, CallbackInv, StateRow
<1>2. ASSUME NEW x \in States, NEW b \in Batches, NEW s \in Stores, BeginState(x, b, s)
      PROVE  /\ UNCHANGED <<config, fin, rej>>
             /\ \A y \in States : state[y].status = "SUCCEEDED" =>
                   state'[y] = state[y] /\ receipt'[y] = receipt[y]
             /\ \A e \in Entries : entry[e].status \in Received => entry'[e] = entry[e]
             /\ \A e \in Entries : entry'[e].status \in Received => entry'[e] = entry[e]
             /\ CallbackInv'
  <2>1. state[x].status = "free" /\ UNCHANGED <<receipt, callback, config, fin, rej>>
    BY <1>2 DEF BeginState
  <2>2. \A y \in States : y # x =>
           state'[y] = state[y] \/ (state[y].status \in Open /\ state'[y].status = "EXPIRED")
    BY <1>0, <1>2 DEF BeginState, Superseded, StateRow
  <2>3. CallbackInv'
    BY <2>1, <2>2 DEF CallbackInv, Open
  <2>4. <<b, s>> \in Entries /\ entry[<<b, s>>].status \notin Received
    BY <1>2 DEF BeginState, Entries
  <2>5. entry'[<<b, s>>].status \notin Received
    BY <1>0, <1>2, <2>4 DEF BeginState, Entry, Received
  <2>6. \A e \in Entries : e # <<b, s>> => entry'[e] = entry[e]
    BY <1>0, <1>2 DEF BeginState
  <2> QED
    BY <2>1, <2>2, <2>3, <2>4, <2>5, <2>6 DEF Open
<1>3. ASSUME NEW x \in States, ClaimState(x) \/ FailState(x)
      PROVE  /\ UNCHANGED <<config, fin, rej>>
             /\ \A y \in States : state[y].status = "SUCCEEDED" =>
                   state'[y] = state[y] /\ receipt'[y] = receipt[y]
             /\ \A e \in Entries : entry[e].status \in Received => entry'[e] = entry[e]
             /\ \A e \in Entries : entry'[e].status \in Received => entry'[e] = entry[e]
             /\ CallbackInv'
  <2>1. state[x].status # "SUCCEEDED" /\ UNCHANGED <<receipt, config, fin, rej>>
    BY <1>3 DEF ClaimState, FailState, CallbackInv
  <2>2. \A y \in States : y # x => state'[y] = state[y] /\ callback'[y] = callback[y]
    BY <1>0, <1>3 DEF ClaimState, FailState
  <2>3. /\ callback'[x] # "off" => state'[x].status = "PROCESSING"
        /\ callback'[x] # "store"
    BY <1>0, <1>3 DEF ClaimState, FailState, StateRow, CallbackInv
  <2>4. CallbackInv'
    BY <2>1, <2>2, <2>3 DEF CallbackInv
  <2>5. \/ entry' = entry
        \/ /\ entry[RowOf(x)].status = "AUTHORIZING"
           /\ entry' = [entry EXCEPT ![RowOf(x)] =
                           [entry[RowOf(x)] EXCEPT !.status = "ERROR"]]
    BY <1>3 DEF ClaimState, FailState, EntryFails, RowOf
  <2>6. \A e \in Entries : \/ entry'[e] = entry[e]
                           \/ entry[e].status \notin Received /\ entry'[e].status \notin Received
    BY <1>0, <2>5 DEF Entry, Received
  <2> QED
    BY <2>1, <2>2, <2>4, <2>6
<1>4. ASSUME NEW x \in States, Exchange(x)
      PROVE  /\ UNCHANGED <<config, fin, rej, state, entry>>
             /\ \A y \in States : state[y].status = "SUCCEEDED" => receipt'[y] = receipt[y]
             /\ CallbackInv'
  BY <1>0, <1>4 DEF Exchange, fileVars, CallbackInv
<1>5. ASSUME NEW x \in States, CompleteState(x)
      PROVE  /\ UNCHANGED <<config, fin, rej, receipt>>
             /\ \A y \in States : state[y].status = "SUCCEEDED" => state'[y] = state[y]
             /\ CallbackInv'
             /\ \A e \in Entries : entry[e].status \in Received => entry'[e] = entry[e]
             /\ \A e \in Entries : \/ entry'[e] = entry[e]
                                   \/ /\ e = RowOf(x)
                                      /\ entry'[e].status = "REVIEW_REQUIRED"
                                      /\ entry'[e].key = receipt[x].key
                                      /\ entry'[e].receipt = x
  <2>1. entry[RowOf(x)].status \notin Received
    BY <1>5 DEF CompleteState, OpenRows, Open
  <2>2. \A e \in Entries : e # RowOf(x) => entry'[e] = entry[e]
    BY <1>0, <1>5 DEF CompleteState, RowOf
  <2>3. ASSUME RowOf(x) \in Entries
        PROVE  /\ entry'[RowOf(x)].status = "REVIEW_REQUIRED"
               /\ entry'[RowOf(x)].key = receipt[x].key
               /\ entry'[RowOf(x)].receipt = x
    BY <1>0, <1>5, <2>3 DEF CompleteState, RowOf, Entry
  <2>4. CallbackInv' /\ \A y \in States : state[y].status = "SUCCEEDED" => state'[y] = state[y]
    BY <1>0, <1>5 DEF CompleteState, CallbackInv
  <2> QED
    BY <1>5, <2>1, <2>2, <2>3, <2>4 DEF CompleteState
<1>6. ASSUME NEW x \in States, CompleteStateFails(x)
      PROVE  /\ UNCHANGED <<config, fin, rej, entry>>
             /\ \A y \in States : state[y].status = "SUCCEEDED" =>
                   state'[y] = state[y] /\ receipt'[y] = receipt[y]
             /\ CallbackInv'
  BY <1>0, <1>6 DEF CompleteStateFails, CallbackInv, StateRow
<1>7. CASE ServerDies
  BY <1>0, <1>7 DEF ServerDies, fileVars, CallbackInv
<1> QED
  BY <1>1, <1>2, <1>3, <1>4, <1>5, <1>6, <1>7 DEF StateFileStep

(* Callbacks and links keep what is known of receipts under review.        *)
LEMMA StateFileKeepsReceipts ==
    ASSUME ReceiptsInv, OpenRows, StateFileStep
    PROVE  ReceiptsInv'
<1> USE DEF Received
<1>0. /\ TypeOK /\ CallbackInv /\ RowsInv /\ HoldersInv
      /\ state \in [States -> StateRow]
  BY DEF ReceiptsInv, TypeOK, StateType
<1>1. /\ UNCHANGED <<fin, rej>> /\ CallbackInv'
      /\ \A x \in States : state[x].status = "SUCCEEDED" =>
            state'[x] = state[x] /\ receipt'[x] = receipt[x]
      /\ \A e \in Entries : entry[e].status \in Received => entry'[e] = entry[e]
      /\ \A e \in Entries : entry'[e].status \in Received =>
            \/ entry'[e] = entry[e]
            \/ \E x \in States : /\ CompleteState(x) /\ e = RowOf(x)
                                 /\ entry'[e].status = "REVIEW_REQUIRED"
                                 /\ entry'[e].key = receipt[x].key
                                 /\ entry'[e].receipt = x
  BY <1>0, StateFileEffects
<1>2. \A x, e : Completed(x, e) => Completed(x, e)' /\ receipt'[x] = receipt[x]
  BY <1>1 DEF Completed, RowOf
<1>3. ASSUME NEW e \in Entries, entry'[e].status = "REVIEW_REQUIRED"
      PROVE  /\ Completed(entry[e].receipt, e)'
             /\ receipt'[entry'[e].receipt].place \in {"file", "isolated"}
             /\ receipt'[entry'[e].receipt].key = entry'[e].key
  <2>1. CASE entry'[e] = entry[e]
    BY <1>0, <1>2, <1>3, <2>1 DEF RowsInv, Completed, RowOf
  <2>2. ASSUME NEW x \in States, CompleteState(x), e = RowOf(x),
               entry'[e].key = receipt[x].key, entry'[e].receipt = x
        PROVE  /\ Completed(entry[e].receipt, e)'
               /\ receipt'[entry'[e].receipt].place \in {"file", "isolated"}
               /\ receipt'[entry'[e].receipt].key = entry'[e].key
    <3>1. receipt' = receipt /\ receipt[x].place = "file"
      BY <1>0, <2>2 DEF CompleteState, CallbackInv
    <3>2. state'[x].status = "SUCCEEDED" /\ RowOf(x)' = RowOf(x)
      BY <1>0, <2>2 DEF CompleteState, RowOf, StateRow
    <3> QED
      BY <2>2, <3>1, <3>2 DEF Completed, RowOf
  <2> QED
    BY <1>1, <1>3, <2>1, <2>2
<1>4. RowsInv'
  BY <1>3 DEF RowsInv
<1>5. ASSUME NEW f \in Finalizers PROVE FinInv(f)'
  <2>1. FinInv(f)
    BY DEF ReceiptsInv
  <2>2. fin'[f] = fin[f]
    BY <1>1
  <2>3. fin[f].pc \in {"dispose", "undoApproval"} => FinHolds(f)
    BY DEF FinHolds
  <2> QED
    BY <1>1, <1>2, <2>1, <2>2, <2>3 DEF FinInv, FinHolds, Completed, RowOf
<1>6. ASSUME NEW r \in Rejecters PROVE RejInv(r)'
  <2>1. RejInv(r)
    BY DEF ReceiptsInv
  <2>2. rej'[r] = rej[r]
    BY <1>1
  <2>3. ASSUME rej[r].pc = "delete", NEW e \in Entries, entry'[e].status = "REVIEW_REQUIRED"
        PROVE  entry'[e].receipt # rej[r].receipt
    <3>1. state[rej[r].receipt].status = "SUCCEEDED"
      BY <2>1, <2>3 DEF RejInv, RejHolds, Completed
    <3>2. \A x \in States : CompleteState(x) => state[x].status # "SUCCEEDED"
      BY DEF CompleteState
    <3> QED
      BY <1>1, <2>1, <2>3, <3>1, <3>2 DEF RejInv
  <2> QED
    BY <1>1, <1>2, <2>1, <2>2, <2>3 DEF RejInv, RejHolds, Completed, RowOf
<1>7. HoldersInv'
  BY <1>0, <1>1 DEF HoldersInv, FinHolds, RejHolds
<1>8. TypeOK'
  BY <1>0, StateFileType
<1> QED
  BY <1>1, <1>4, <1>5, <1>6, <1>7, <1>8 DEF ReceiptsInv

(* What a finalizer's step does to the receipts, the rows and the row it   *)
(* has chosen: it rests, picks a row, takes its receipt, goes on holding   *)
(* it, grants or revokes the approval, or drops the receipt.               *)
FinKeepsRow(f) ==
    /\ fin'[f].batch = fin[f].batch /\ fin'[f].store = fin[f].store
    /\ fin'[f].receipt = fin[f].receipt
FinRow(f) == <<fin[f].batch, fin[f].store>>

FinRests(f) ==
    /\ ~FinHolds(f)' /\ fin'[f].pc # "isolate"
    /\ UNCHANGED <<receipt, entry>>
FinPicks(f) ==
    /\ fin'[f].pc = "isolate" /\ fin'[f].store = fin[f].store
    /\ fin[f].store \in Stores /\ fin'[f].batch \in Reviewable(fin[f].store)
    /\ fin'[f].receipt = entry[<<fin'[f].batch, fin[f].store>>].receipt
    /\ UNCHANGED <<receipt, entry>>
FinTakes(f) ==
    /\ fin[f].pc = "isolate" /\ fin'[f].pc = "write" /\ FinKeepsRow(f)
    /\ receipt[fin[f].receipt].place = "file"
    /\ receipt' = [receipt EXCEPT ![fin[f].receipt].place = "isolated"]
    /\ UNCHANGED entry
FinHoldsOn(f) ==
    /\ FinHolds(f) /\ FinHolds(f)' /\ FinKeepsRow(f)
    /\ fin'[f].pc \in {"dispose", "undoApproval"} => fin[f].pc \in {"dispose", "undoApproval"}
    /\ UNCHANGED <<receipt, entry>>
FinGrants(f) ==
    /\ fin[f].pc = "approve" /\ fin'[f].pc = "dispose" /\ FinKeepsRow(f)
    /\ entry[FinRow(f)].status = "REVIEW_REQUIRED"
    /\ entry' = [entry EXCEPT ![FinRow(f)].status = "APPROVED",
                              ![FinRow(f)].receipt = NoState, ![FinRow(f)].reviewer = f]
    /\ UNCHANGED receipt
FinRevokes(f) ==
    /\ fin[f].pc = "undoApproval" /\ fin'[f].pc = "undoConfig" /\ FinKeepsRow(f)
    /\ entry[FinRow(f)].key = receipt[fin[f].receipt].key
    /\ entry' = [entry EXCEPT ![FinRow(f)].status = "REVIEW_REQUIRED",
                              ![FinRow(f)].receipt = fin[f].receipt,
                              ![FinRow(f)].reviewer = NoProcess]
    /\ UNCHANGED receipt
FinDrops(f) ==
    /\ FinHolds(f) /\ ~FinHolds(f)' /\ fin'[f].pc # "isolate" /\ UNCHANGED entry
    /\ \E p \in {"file", "gone"} :
          /\ receipt' = [receipt EXCEPT ![fin[f].receipt].place = p]
          /\ p = "gone" => fin[f].pc = "dispose"

(* Moving on changes a finalizer's step, and at most its verdict.          *)
LEMMA FinMoves ==
    ASSUME TypeOK, NEW f \in Finalizers, NEW pc,
           FinGoes(f, pc) \/ \E ok \in BOOLEAN : FinRollsOn(f, pc, ok)
    PROVE  /\ fin'[f].pc = pc /\ FinKeepsRow(f) /\ fin'[f].before = fin[f].before
           /\ fin[f].bad => fin'[f].bad
           /\ \A g \in Finalizers \ {f} : fin'[g] = fin[g]
<1>1. fin \in [Finalizers -> FinProcess] /\ fin[f] \in FinMemory
  BY DEF TypeOK, ReviewType, FinProcess
<1>2. CASE FinGoes(f, pc)
  BY <1>1, <1>2 DEF FinGoes, FinKeepsRow, FinMemory
<1>3. ASSUME NEW ok \in BOOLEAN, FinRollsOn(f, pc, ok)
      PROVE  /\ fin'[f].pc = pc /\ FinKeepsRow(f) /\ fin'[f].before = fin[f].before
             /\ fin[f].bad => fin'[f].bad
             /\ \A g \in Finalizers \ {f} : fin'[g] = fin[g]
  BY <1>1, <1>3 DEF FinRollsOn, FinKeepsRow, FinMemory
<1> QED
  BY <1>2, <1>3

(* Ending forgets all but the verdict.                                     *)
LEMMA FinStops ==
    ASSUME TypeOK, NEW f \in Finalizers, NEW pc, FinEnds(f, pc)
    PROVE  /\ fin'[f].pc = pc /\ fin'[f].bad = fin[f].bad
           /\ fin[f].bad => fin'[f].store = fin[f].store
           /\ \A g \in Finalizers \ {f} : fin'[g] = fin[g]
<1>1. fin \in [Finalizers -> FinProcess]
  BY DEF TypeOK, ReviewType
<1> QED
  BY <1>1 DEF FinEnds, FinAt

(* Every step of a finalizer is one of those.                              *)
LEMMA FinEffects ==
    ASSUME TypeOK, NEW f \in Finalizers, FinStep(f)
    PROVE  /\ UNCHANGED <<state, callback, rej>>
           /\ \A g \in Finalizers \ {f} : fin'[g] = fin[g]
           /\ \/ FinRests(f) \/ FinPicks(f) \/ FinTakes(f) \/ FinHoldsOn(f)
              \/ FinGrants(f) \/ FinRevokes(f) \/ FinDrops(f)
<1> USE DEF fileVars, FinHolds
<1>0. fin \in [Finalizers -> FinProcess] /\ fin[f] \in FinMemory
      /\ fin[f] \in FinProcess
  BY DEF TypeOK, ReviewType, FinProcess
<1>1. UNCHANGED <<state, callback, rej>>
  BY DEF FinStep, FinLocks, FinReaps, FinReads, FinIsolates, FinWrites, FinApproves,
      FinDisposes, FinUndoesApproval, FinUndoesConfig, FinUndoesReceipt, FinReleases,
      FinDies
<1>2. ASSUME NEW s \in Stores, FinLocks(f, s)
      PROVE  FinRests(f) /\ \A g \in Finalizers \ {f} : fin'[g] = fin[g]
  <2>1. CASE FinEnds(f, "done")
    BY <1>2, <2>1, FinStops DEF FinLocks, FinRests
  <2>2. CASE ~FinEnds(f, "done")
    BY <1>0, <1>2, <2>2 DEF FinLocks, FinRests, FinMemory
  <2> QED
    BY <2>1, <2>2
<1>3. CASE FinReaps(f)
  <2>1. FinGoes(f, "lock")
    BY <1>3 DEF FinReaps
  <2> QED
    BY <1>1, <1>3, <2>1, FinMoves DEF FinReaps, FinRests
<1>4. CASE FinReads(f)
  <2>1. CASE FinGoes(f, "release")
    <3>1. UNCHANGED <<receipt, entry>>
      BY <1>4 DEF FinReads
    <3>2. fin'[f].pc = "release" /\ \A g \in Finalizers \ {f} : fin'[g] = fin[g]
      BY <2>1, FinMoves
    <3> QED
      BY <1>1, <3>1, <3>2 DEF FinRests
  <2>2. CASE ~FinGoes(f, "release")
    <3>1. PICK b \in Batches :
            /\ Reviewable(fin[f].store) = {b}
            /\ fin' = [fin EXCEPT ![f].pc = "isolate", ![f].batch = b,
                               ![f].receipt = entry[<<b, fin[f].store>>].receipt,
                               ![f].before = config]
      BY <1>4, <2>2 DEF FinReads
    <3>2. fin[f].store \in Stores
      BY <1>0, <1>4 DEF FinReads, FinProcess, FinBusy, FinSteps
    <3>3. /\ fin'[f].pc = "isolate" /\ fin'[f].store = fin[f].store /\ fin'[f].batch = b
          /\ fin'[f].receipt = entry[<<b, fin[f].store>>].receipt
          /\ \A g \in Finalizers \ {f} : fin'[g] = fin[g]
      BY <1>0, <3>1 DEF FinMemory
    <3>4. UNCHANGED <<receipt, entry>>
      BY <1>4 DEF FinReads
    <3> QED
      BY <1>1, <3>1, <3>2, <3>3, <3>4 DEF FinPicks
  <2> QED
    BY <2>1, <2>2
<1>5. CASE FinIsolates(f)
  BY <1>1, <1>5, FinMoves DEF FinIsolates, FinRests, FinTakes
<1>6. CASE FinWrites(f)
  <2>1. fin[f].pc = "write" /\ UNCHANGED <<receipt, entry>>
    BY <1>6 DEF FinWrites
  <2>2. CASE FinGoes(f, "undoReceipt")
    BY <1>1, <2>1, <2>2, FinMoves DEF FinHoldsOn
  <2>3. CASE fin' = [fin EXCEPT ![f].pc = "approve", ![f].before = config]
    BY <1>0, <1>1, <2>1, <2>3 DEF FinHoldsOn, FinKeepsRow, FinMemory
  <2> QED
    BY <1>6, <2>2, <2>3 DEF FinWrites
<1>7. CASE FinApproves(f)
  BY <1>1, <1>7, FinMoves DEF FinApproves, Approvable, FinGrants, FinHoldsOn, FinRow
<1>8. CASE FinDisposes(f)
  BY <1>1, <1>8, FinMoves DEF FinDisposes, FinDrops, FinHoldsOn
<1>9. CASE FinUndoesApproval(f)
  BY <1>1, <1>9, FinMoves DEF FinUndoesApproval, ApprovalStands, FinRevokes, FinHoldsOn, FinRow
<1>10. CASE FinUndoesConfig(f)
  <2>1. /\ fin[f].pc = "undoConfig" /\ UNCHANGED <<receipt, entry>>
        /\ \E ok \in BOOLEAN : FinRollsOn(f, "undoReceipt", ok)
    BY <1>10 DEF FinUndoesConfig
  <2>2. fin'[f].pc = "undoReceipt" /\ FinKeepsRow(f) /\ \A g \in Finalizers \ {f} : fin'[g] = fin[g]
    BY <2>1, FinMoves
  <2> QED
    BY <1>1, <2>1, <2>2 DEF FinHoldsOn
<1>11. CASE FinUndoesReceipt(f)
  <2>1. /\ fin[f].pc = "undoReceipt" /\ UNCHANGED entry
        /\ \E ok \in BOOLEAN : FinRollsOn(f, "release", ok)
        /\ receipt' = receipt \/ receipt' = [receipt EXCEPT ![fin[f].receipt].place = "file"]
    BY <1>11 DEF FinUndoesReceipt
  <2>2. fin'[f].pc = "release" /\ \A g \in Finalizers \ {f} : fin'[g] = fin[g]
    BY <2>1, FinMoves
  <2> QED
    BY <1>1, <2>1, <2>2 DEF FinRests, FinDrops
<1>12. CASE FinReleases(f) \/ FinDies(f)
  <2>1. \E pc \in Ended : FinEnds(f, pc)
    BY <1>12 DEF FinReleases, FinDies, Ended
  <2> QED
    BY <1>1, <1>12, <2>1, FinStops DEF FinReleases, FinDies, FinRests, Ended
<1> QED
  BY <1>1, <1>2, <1>3, <1>4, <1>5, <1>6, <1>7, <1>8, <1>9, <1>10, <1>11, <1>12 DEF FinStep

(* A finalizer's step keeps the rows backed by receipts: it disposes of a  *)
(* receipt only after its row is approved, and revoking an approval brings *)
(* the receipt it holds back into the row.                                 *)
LEMMA FinKeepsRows ==
    ASSUME ReceiptsInv, NEW f \in Finalizers, FinStep(f)
    PROVE  CallbackInv' /\ RowsInv'
<1> DEFINE x == fin[f].receipt
           d == FinRow(f)
<1>0. /\ TypeOK /\ CallbackInv /\ RowsInv /\ FinInv(f)
      /\ entry \in [Entries -> Entry] /\ receipt \in [States -> Receipt]
  BY DEF ReceiptsInv, TypeOK, EntryType, ReceiptType
<1>1. /\ UNCHANGED <<state, callback, rej>>
      /\ \/ FinRests(f) \/ FinPicks(f) \/ FinTakes(f) \/ FinHoldsOn(f)
         \/ FinGrants(f) \/ FinRevokes(f) \/ FinDrops(f)
  BY <1>0, FinEffects
<1>2. CASE UNCHANGED <<receipt, entry>>
  BY <1>0, <1>1, <1>2 DEF CallbackInv, RowsInv, Completed, RowOf
<1>3. ASSUME FinHolds(f) \/ fin[f].pc = "isolate"
      PROVE  /\ x \in States /\ d \in Entries /\ Completed(x, d) /\ callback[x] = "off"
             /\ KeyOf(receipt[x].key, IdentityMap[fin[f].store])
  BY <1>0, <1>3 DEF FinInv, FinRow, Completed, CallbackInv
<1>4. ASSUME FinHolds(f) \/ fin[f].pc = "isolate", UNCHANGED entry,
             NEW p \in {"file", "isolated", "gone"},
             receipt' = [receipt EXCEPT ![x].place = p],
             p = "gone" => \A e \in Entries :
                entry[e].status = "REVIEW_REQUIRED" => entry[e].receipt # x
      PROVE  CallbackInv' /\ RowsInv'
  <2>1. callback[x] = "off" /\ x \in States
    BY <1>3, <1>4
  <2>2. \A y \in States : /\ receipt'[y].key = receipt[y].key
                          /\ y # x => receipt'[y].place = receipt[y].place
    BY <1>0, <1>4 DEF Receipt
  <2>3. receipt'[x].place = p
    BY <1>0, <1>4, <2>1 DEF Receipt
  <2>4. CallbackInv'
    BY <1>0, <1>1, <2>1, <2>2 DEF CallbackInv
  <2>5. RowsInv'
    BY <1>0, <1>1, <1>4, <2>2, <2>3 DEF RowsInv, Completed, RowOf
  <2> QED
    BY <2>4, <2>5
<1>5. CASE FinTakes(f)
  BY <1>4, <1>5 DEF FinTakes
<1>6. CASE FinDrops(f)
  <2>1. PICK p \in {"file", "gone"} : /\ receipt' = [receipt EXCEPT ![x].place = p]
                                      /\ p = "gone" => fin[f].pc = "dispose"
    BY <1>6 DEF FinDrops
  <2>2. FinHolds(f) /\ UNCHANGED entry
    BY <1>6 DEF FinDrops
  <2>3. ASSUME p = "gone", NEW e \in Entries, entry[e].status = "REVIEW_REQUIRED"
        PROVE  entry[e].receipt # x
    <3>1. entry[d].status = "APPROVED" /\ RowOf(x) = d
      BY <1>0, <1>3, <2>1, <2>2, <2>3 DEF FinInv, FinRow, Completed
    <3>2. RowOf(entry[e].receipt) = e
      BY <1>0, <2>3 DEF RowsInv, Completed
    <3> QED
      BY <2>3, <3>1, <3>2
  <2> HIDE DEF x
  <2> QED
    BY <1>4, <2>1, <2>2, <2>3
<1>7. CASE FinGrants(f)
  <2>1. UNCHANGED receipt /\ d \in Entries
    BY <1>3, <1>7 DEF FinGrants, FinHolds
  <2>2. \A e \in Entries : /\ e # d => entry'[e] = entry[e]
                           /\ e = d => entry'[e].status = "APPROVED"
    BY <1>0, <1>7, <2>1 DEF FinGrants, Entry
  <2>3. RowsInv'
    BY <1>0, <1>1, <2>1, <2>2 DEF RowsInv, Completed, RowOf
  <2> QED
    BY <1>0, <1>1, <2>1, <2>3 DEF CallbackInv
<1>8. CASE FinRevokes(f)
  <2>1. /\ UNCHANGED receipt /\ FinHolds(f)
        /\ entry[d].key = receipt[x].key
    BY <1>8 DEF FinRevokes, FinHolds
  <2>2. \A e \in Entries :
           /\ e # d => entry'[e] = entry[e]
           /\ e = d => entry'[e].receipt = x /\ entry'[e].key = entry[e].key
    BY <1>0, <1>8 DEF FinRevokes, Entry
  <2>3. receipt[x].place = "isolated" /\ Completed(x, d)
        /\ receipt[x].key = entry[d].key
    BY <1>0, <1>3, <2>1 DEF FinInv
  <2>4. RowsInv'
    BY <1>0, <1>1, <2>1, <2>2, <2>3 DEF RowsInv, Completed, RowOf
  <2> QED
    BY <1>0, <1>1, <2>1, <2>4 DEF CallbackInv
<1> QED
  BY <1>1, <1>2, <1>5, <1>6, <1>7, <1>8 DEF FinRests, FinPicks, FinHoldsOn

(* A finalizer's step leaves the receipts that others hold: it moves only  *)
(* the receipt it holds, or takes one that is in its place.                *)
LEMMA FinSparesOthers ==
    ASSUME ReceiptsInv, NEW f \in Finalizers, FinStep(f)
    PROVE  /\ \A y \in States : receipt'[y].key = receipt[y].key
           /\ \A g \in Finalizers \ {f} : FinHolds(g) =>
                 receipt'[fin[g].receipt] = receipt[fin[g].receipt]
           /\ \A r \in Rejecters : RejHolds(r) =>
                 receipt'[rej[r].receipt] = receipt[rej[r].receipt]
<1>0. TypeOK /\ HoldersInv /\ receipt \in [States -> Receipt]
  BY DEF ReceiptsInv, TypeOK, ReceiptType
<1>1. \/ UNCHANGED receipt
      \/ /\ FinHolds(f) \/ (fin[f].pc = "isolate" /\ receipt[fin[f].receipt].place = "file")
         /\ \E p \in {"file", "isolated", "gone"} :
               receipt' = [receipt EXCEPT ![fin[f].receipt].place = p]
  BY <1>0, FinEffects DEF FinRests, FinPicks, FinTakes, FinHoldsOn, FinGrants, FinRevokes, FinDrops
<1>2. \A y \in States : /\ receipt'[y].key = receipt[y].key
                        /\ y # fin[f].receipt => receipt'[y] = receipt[y]
  BY <1>0, <1>1 DEF Receipt
<1>3. ASSUME NEW g \in Finalizers \ {f}, FinHolds(g)
      PROVE  receipt'[fin[g].receipt] = receipt[fin[g].receipt]
  <2>1. receipt[fin[g].receipt].place = "isolated" /\ fin[g].receipt \in States
    BY <1>3 DEF ReceiptsInv, FinInv, Completed
  <2> QED
    BY <1>0, <1>1, <1>2, <1>3, <2>1 DEF HoldersInv
<1>4. ASSUME NEW r \in Rejecters, RejHolds(r)
      PROVE  receipt'[rej[r].receipt] = receipt[rej[r].receipt]
  <2>1. receipt[rej[r].receipt].place = "isolated" /\ rej[r].receipt \in States
    BY <1>4 DEF ReceiptsInv, RejInv, Completed
  <2> QED
    BY <1>0, <1>1, <1>2, <1>4, <2>1 DEF HoldersInv
<1> QED
  BY <1>2, <1>3, <1>4

(* A finalizer's step keeps what the other reviewers know.                 *)
LEMMA FinKeepsOthers ==
    ASSUME ReceiptsInv, NEW f \in Finalizers, FinStep(f)
    PROVE  /\ \A g \in Finalizers \ {f} : FinInv(g)'
           /\ \A r \in Rejecters : RejInv(r)'
<1>0. /\ TypeOK /\ HoldersInv /\ FinInv(f)
      /\ entry \in [Entries -> Entry]
  BY DEF ReceiptsInv, TypeOK, EntryType
<1>1. /\ UNCHANGED <<state, callback, rej>>
      /\ \A g \in Finalizers \ {f} : fin'[g] = fin[g]
  BY <1>0, FinEffects
<1>2. \/ UNCHANGED entry
      \/ FinGrants(f) /\ \A e \in Entries :
            /\ e # FinRow(f) => entry'[e] = entry[e]
            /\ e = FinRow(f) => entry'[e].status = "APPROVED"
      \/ FinRevokes(f) /\ \A e \in Entries :
            /\ e # FinRow(f) => entry'[e] = entry[e]
            /\ e = FinRow(f) => entry'[e].receipt = fin[f].receipt
  <2>1. FinGrants(f) => \A e \in Entries :
            /\ e # FinRow(f) => entry'[e] = entry[e]
            /\ e = FinRow(f) => entry'[e].status = "APPROVED"
    BY <1>0 DEF FinGrants, Entry
  <2>2. FinRevokes(f) => \A e \in Entries :
            /\ e # FinRow(f) => entry'[e] = entry[e]
            /\ e = FinRow(f) => entry'[e].receipt = fin[f].receipt
    BY <1>0 DEF FinRevokes, Entry
  <2>3. UNCHANGED entry \/ FinGrants(f) \/ FinRevokes(f)
    BY <1>0, FinEffects DEF FinRests, FinPicks, FinTakes, FinHoldsOn, FinDrops
  <2> QED
    BY <2>1, <2>2, <2>3
<1>3. ASSUME NEW g \in Finalizers \ {f} PROVE FinInv(g)'
  <2>1. FinInv(g) /\ fin'[g] = fin[g]
    BY <1>1 DEF ReceiptsInv
  <2>2. ASSUME fin[g].pc \in {"dispose", "undoApproval"}
        PROVE  entry'[FinRow(g)].status = "APPROVED"
    <3>1. FinRow(g) \in Entries /\ entry[FinRow(g)].status = "APPROVED"
      BY <2>1, <2>2 DEF FinInv, FinHolds, FinRow
    <3>2. FinRevokes(f) => FinRow(g) # FinRow(f)
      BY <1>0, <2>2 DEF FinRevokes, HoldersInv, FinRow
    <3> QED
      BY <1>2, <3>1, <3>2
  <2>3. FinHolds(g) => receipt'[fin[g].receipt] = receipt[fin[g].receipt]
    BY FinSparesOthers
  <2>4. FinHolds(g) \/ fin[g].pc = "isolate" =>
           receipt'[fin[g].receipt].key = receipt[fin[g].receipt].key
    BY <2>1, FinSparesOthers DEF FinInv, Completed
  <2> QED
    BY <1>1, <2>1, <2>2, <2>3, <2>4 DEF FinInv, FinHolds, FinRow, Completed, RowOf
<1>4. ASSUME NEW r \in Rejecters PROVE RejInv(r)'
  <2>1. RejInv(r) /\ rej'[r] = rej[r]
    BY <1>1 DEF ReceiptsInv
  <2>2. RejHolds(r) => receipt'[rej[r].receipt] = receipt[rej[r].receipt]
    BY FinSparesOthers
  <2>3. ASSUME rej[r].pc = "delete", NEW e \in Entries, entry'[e].status = "REVIEW_REQUIRED"
        PROVE  entry'[e].receipt # rej[r].receipt
    <3>1. FinRevokes(f) => fin[f].receipt # rej[r].receipt
      BY <1>0, <2>3 DEF FinRevokes, HoldersInv, FinHolds, RejHolds
    <3> QED
      BY <1>2, <2>1, <2>3, <3>1 DEF RejInv
  <2> QED
    BY <1>1, <2>1, <2>2, <2>3 DEF RejInv, RejHolds, Completed, RowOf
<1> QED
  BY <1>3, <1>4

(* A finalizer's step keeps what it knows itself.                          *)
LEMMA FinKeepsItself ==
    ASSUME ReceiptsInv, NEW f \in Finalizers, FinStep(f)
    PROVE  FinInv(f)'
<1>0. /\ TypeOK /\ RowsInv /\ FinInv(f)
      /\ entry \in [Entries -> Entry] /\ receipt \in [States -> Receipt]
  BY DEF ReceiptsInv, TypeOK, EntryType, ReceiptType
<1>1. UNCHANGED state
  BY <1>0, FinEffects
<1>2. CASE FinRests(f) \/ FinDrops(f)
  BY <1>2 DEF FinRests, FinDrops, FinInv, FinHolds
<1>3. CASE FinPicks(f)
  <2> DEFINE d == <<fin'[f].batch, fin'[f].store>>
  <2>1. /\ d \in Entries /\ entry[d].status = "REVIEW_REQUIRED"
        /\ KeyOf(entry[d].key, IdentityMap[fin'[f].store])
        /\ fin'[f].receipt = entry[d].receipt
        /\ UNCHANGED <<receipt, entry>> /\ fin'[f].pc = "isolate"
    BY <1>3 DEF FinPicks, Reviewable, Entries
  <2>2. Completed(entry[d].receipt, d) /\ receipt[entry[d].receipt].key = entry[d].key
    BY <1>0, <2>1 DEF RowsInv
  <2> QED
    BY <1>1, <2>1, <2>2 DEF FinInv, FinHolds, Completed, RowOf
<1>4. CASE FinTakes(f)
  <2>1. fin[f].receipt \in States /\ FinRow(f) \in Entries
    BY <1>0, <1>4 DEF FinTakes, FinInv, FinRow, Completed
  <2>2. receipt'[fin[f].receipt].place = "isolated"
        /\ receipt'[fin[f].receipt].key = receipt[fin[f].receipt].key
    BY <1>0, <1>4, <2>1 DEF FinTakes, Receipt
  <2> QED
    BY <1>0, <1>1, <1>4, <2>2 DEF FinTakes, FinKeepsRow, FinInv, FinHolds, Completed, RowOf
<1>5. CASE FinHoldsOn(f)
  BY <1>0, <1>1, <1>5 DEF FinHoldsOn, FinKeepsRow, FinInv, Completed, RowOf
<1>6. CASE FinGrants(f) \/ FinRevokes(f)
  <2>1. FinRow(f) \in Entries /\ FinHolds(f) /\ FinHolds(f)' /\ UNCHANGED receipt
    BY <1>0, <1>6 DEF FinGrants, FinRevokes, FinHolds, FinInv, FinRow
  <2>2. fin'[f].pc = "dispose" => entry'[FinRow(f)].status = "APPROVED"
    BY <1>0, <1>6, <2>1 DEF FinGrants, FinRevokes, Entry
  <2> QED
    BY <1>0, <1>1, <1>6, <2>1, <2>2 DEF FinGrants, FinRevokes, FinKeepsRow, FinInv, FinRow,
       Completed, RowOf
<1> QED
  BY <1>0, <1>2, <1>3, <1>4, <1>5, <1>6, FinEffects

(* A receipt is taken only from its place, where no holder's receipt is,   *)
(* and an approval granted only to a row that has none.                    *)
LEMMA FinKeepsHolders ==
    ASSUME ReceiptsInv, NEW f \in Finalizers, FinStep(f)
    PROVE  HoldersInv'
<1>0. TypeOK /\ HoldersInv /\ FinInv(f)
  BY DEF ReceiptsInv
<1>1. /\ UNCHANGED rej /\ \A g \in Finalizers \ {f} : fin'[g] = fin[g]
  BY <1>0, FinEffects
<1>2. FinHolds(f)' => /\ FinKeepsRow(f)
                      /\ FinHolds(f) \/ receipt[fin[f].receipt].place = "file"
  BY <1>0, FinEffects DEF FinRests, FinPicks, FinTakes, FinHoldsOn, FinGrants, FinRevokes,
     FinDrops, FinHolds
<1>3. /\ \A g \in Finalizers : FinHolds(g) => receipt[fin[g].receipt].place = "isolated"
      /\ \A r \in Rejecters : RejHolds(r) => receipt[rej[r].receipt].place = "isolated"
  BY DEF ReceiptsInv, FinInv, RejInv
<1>4. ASSUME FinHolds(f)'
      PROVE  /\ \A g \in Finalizers \ {f} : FinHolds(g) => fin[g].receipt # fin'[f].receipt
             /\ \A r \in Rejecters : RejHolds(r) => rej[r].receipt # fin'[f].receipt
  BY <1>0, <1>2, <1>3, <1>4 DEF HoldersInv, FinKeepsRow
<1>5. /\ \A g \in Finalizers \ {f} : FinHolds(g)' <=> FinHolds(g)
      /\ \A r \in Rejecters : RejHolds(r)' <=> RejHolds(r)
  BY <1>1 DEF FinHolds, RejHolds
<1>6. /\ \A g, h \in Finalizers :
            FinHolds(g)' /\ FinHolds(h)' /\ fin'[g].receipt = fin'[h].receipt => g = h
      /\ \A r, q \in Rejecters :
            RejHolds(r)' /\ RejHolds(q)' /\ rej'[r].receipt = rej'[q].receipt => r = q
      /\ \A g \in Finalizers, r \in Rejecters :
            FinHolds(g)' /\ RejHolds(r)' => fin'[g].receipt # rej'[r].receipt
  BY <1>0, <1>1, <1>4, <1>5 DEF HoldersInv
<1>7. ASSUME fin'[f].pc \in {"dispose", "undoApproval"}, NEW g \in Finalizers \ {f},
             fin[g].pc \in {"dispose", "undoApproval"},
             fin[g].batch = fin'[f].batch, fin[g].store = fin'[f].store
      PROVE  FALSE
  <2>1. entry[FinRow(g)].status = "APPROVED"
    BY <1>7 DEF ReceiptsInv, FinInv, FinRow
  <2>2. FinKeepsRow(f) /\ (FinGrants(f) \/ fin[f].pc \in {"dispose", "undoApproval"})
    BY <1>0, <1>2, <1>7, FinEffects DEF FinRests, FinPicks, FinTakes, FinHoldsOn, FinGrants,
       FinRevokes, FinDrops, FinHolds
  <2> QED
    BY <1>0, <1>7, <2>1, <2>2 DEF FinGrants, FinRow, FinKeepsRow, HoldersInv
<1> QED
  BY <1>0, <1>1, <1>6, <1>7 DEF HoldersInv

(* What a rejecter's step does: it rests, picks a row, takes its receipt,  *)
(* goes on holding it, refuses the row, or drops the receipt.              *)
RejKeepsRow(r) ==
    /\ rej'[r].batch = rej[r].batch /\ rej'[r].store = rej[r].store
    /\ rej'[r].receipt = rej[r].receipt
RejRow(r) == <<rej[r].batch, rej[r].store>>

RejRests(r) ==
    /\ ~RejHolds(r)' /\ rej'[r].pc # "isolate"
    /\ UNCHANGED <<receipt, entry>>
RejPicks(r) ==
    /\ rej'[r].pc = "isolate"
    /\ \E e \in Entries : /\ e = <<rej'[r].batch, rej'[r].store>>
                          /\ entry[e].status = "REVIEW_REQUIRED"
                          /\ rej'[r].receipt = entry[e].receipt
    /\ UNCHANGED <<receipt, entry>>
RejTakes(r) ==
    /\ rej[r].pc = "isolate" /\ rej'[r].pc = "reject" /\ RejKeepsRow(r)
    /\ receipt[rej[r].receipt].place = "file"
    /\ receipt' = [receipt EXCEPT ![rej[r].receipt].place = "isolated"]
    /\ UNCHANGED entry
RejHoldsOn(r) ==
    /\ RejHolds(r) /\ RejHolds(r)' /\ RejKeepsRow(r)
    /\ rej'[r].pc = "delete" => entry[RejRow(r)].status = "REJECTED"
    /\ UNCHANGED <<receipt, entry>>
RejRefuses(r) ==
    /\ rej[r].pc = "reject" /\ rej'[r].pc = "confirm" /\ RejKeepsRow(r)
    /\ entry[RejRow(r)].status = "REVIEW_REQUIRED"
    /\ entry' = [entry EXCEPT ![RejRow(r)].status = "REJECTED"]
    /\ UNCHANGED receipt
RejDrops(r) ==
    /\ RejHolds(r) /\ ~RejHolds(r)' /\ rej'[r].pc # "isolate" /\ UNCHANGED entry
    /\ \E p \in {"file", "gone"} :
          /\ receipt' = [receipt EXCEPT ![rej[r].receipt].place = p]
          /\ p = "gone" => rej[r].pc = "delete"

(* Every step of the rejecter is one of those.                             *)
LEMMA RejEffects ==
    ASSUME TypeOK, NEW r \in Rejecters, RejStep(r)
    PROVE  /\ UNCHANGED <<state, callback, fin, config>>
           /\ \A q \in Rejecters \ {r} : rej'[q] = rej[q]
           /\ \/ RejRests(r) \/ RejPicks(r) \/ RejTakes(r) \/ RejHoldsOn(r)
              \/ RejRefuses(r) \/ RejDrops(r)
<1> USE DEF fileVars, RejHolds
<1>0. rej \in [Rejecters -> RejProcess]
  BY DEF TypeOK, ReviewType
<1>1. UNCHANGED <<state, callback, fin, config>>
  BY DEF RejStep, RejStarts, RejIsolates, RejRejects, RejConfirms, RejRestores, RejDeletes,
     RejDies
<1>2. ASSUME NEW pc, RejGoes(r, pc)
      PROVE  /\ rej'[r].pc = pc /\ RejKeepsRow(r)
             /\ \A q \in Rejecters \ {r} : rej'[q] = rej[q]
  BY <1>0, <1>2 DEF RejGoes, RejKeepsRow, RejProcess
<1>3. ASSUME NEW pc, RejEnds(r, pc)
      PROVE  rej'[r].pc = pc /\ \A q \in Rejecters \ {r} : rej'[q] = rej[q]
  BY <1>0, <1>3 DEF RejEnds, RejAt
<1>4. ASSUME NEW b \in Batches, NEW s \in Stores, RejStarts(r, b, s)
      PROVE  RejPicks(r) /\ \A q \in Rejecters \ {r} : rej'[q] = rej[q]
  BY <1>0, <1>4 DEF RejStarts, RejPicks, Entries
<1>5. CASE RejIsolates(r)
  <2>1. CASE RejGoes(r, "reject")
    <3>1. /\ rej'[r].pc = "reject" /\ RejKeepsRow(r)
          /\ \A q \in Rejecters \ {r} : rej'[q] = rej[q]
      BY <1>2, <2>1
    <3>2. ~RejEnds(r, "done")
      BY <1>3, <3>1
    <3> QED
      BY <1>1, <1>5, <3>1, <3>2 DEF RejIsolates, RejTakes
  <2>2. CASE RejEnds(r, "done") /\ UNCHANGED receipt
    BY <1>1, <1>3, <1>5, <2>2 DEF RejIsolates, RejRests
  <2> QED
    BY <1>5, <2>1, <2>2 DEF RejIsolates
<1>6. CASE RejRejects(r)
  BY <1>1, <1>2, <1>6 DEF RejRejects, RejRefuses, RejHoldsOn, RejRow
<1>7. CASE RejConfirms(r)
  BY <1>1, <1>2, <1>7 DEF RejConfirms, RejHoldsOn, RejRow
<1>8. CASE RejRestores(r) \/ RejDeletes(r)
  <2>1. rej'[r].pc = "done" /\ \A q \in Rejecters \ {r} : rej'[q] = rej[q]
    BY <1>3, <1>8 DEF RejRestores, RejDeletes
  <2> QED
    BY <1>1, <1>8, <2>1 DEF RejRestores, RejDeletes, RejRests, RejDrops
<1>9. CASE RejDies(r)
  BY <1>1, <1>3, <1>9 DEF RejDies, RejRests
<1> QED
  BY <1>1, <1>4, <1>5, <1>6, <1>7, <1>8, <1>9 DEF RejStep

(* A rejecter's step leaves the receipts that others hold.                 *)
LEMMA RejSparesOthers ==
    ASSUME ReceiptsInv, NEW r \in Rejecters, RejStep(r)
    PROVE  /\ \A y \in States : receipt'[y].key = receipt[y].key
           /\ \A f \in Finalizers : FinHolds(f) =>
                 receipt'[fin[f].receipt] = receipt[fin[f].receipt]
           /\ \A q \in Rejecters \ {r} : RejHolds(q) =>
                 receipt'[rej[q].receipt] = receipt[rej[q].receipt]
<1>0. TypeOK /\ HoldersInv /\ receipt \in [States -> Receipt]
  BY DEF ReceiptsInv, TypeOK, ReceiptType
<1>1. \/ UNCHANGED receipt
      \/ /\ RejHolds(r) \/ (rej[r].pc = "isolate" /\ receipt[rej[r].receipt].place = "file")
         /\ \E p \in {"file", "isolated", "gone"} :
               receipt' = [receipt EXCEPT ![rej[r].receipt].place = p]
  BY <1>0, RejEffects DEF RejRests, RejPicks, RejTakes, RejHoldsOn, RejRefuses, RejDrops
<1>2. \A y \in States : /\ receipt'[y].key = receipt[y].key
                        /\ y # rej[r].receipt => receipt'[y] = receipt[y]
  BY <1>0, <1>1 DEF Receipt
<1>3. ASSUME NEW f \in Finalizers, FinHolds(f)
      PROVE  receipt'[fin[f].receipt] = receipt[fin[f].receipt]
  <2>1. receipt[fin[f].receipt].place = "isolated" /\ fin[f].receipt \in States
    BY <1>3 DEF ReceiptsInv, FinInv, Completed
  <2> QED
    BY <1>0, <1>1, <1>2, <1>3, <2>1 DEF HoldersInv
<1>4. ASSUME NEW q \in Rejecters \ {r}, RejHolds(q)
      PROVE  receipt'[rej[q].receipt] = receipt[rej[q].receipt]
  <2>1. receipt[rej[q].receipt].place = "isolated" /\ rej[q].receipt \in States
    BY <1>4 DEF ReceiptsInv, RejInv, Completed
  <2> QED
    BY <1>0, <1>1, <1>2, <1>4, <2>1 DEF HoldersInv
<1> QED
  BY <1>2, <1>3, <1>4

(* A rejecter's step keeps the rows backed by receipts: it deletes only a  *)
(* receipt that no row under review has.                                   *)
LEMMA RejKeepsRows ==
    ASSUME ReceiptsInv, NEW r \in Rejecters, RejStep(r)
    PROVE  CallbackInv' /\ RowsInv'
<1> DEFINE x == rej[r].receipt
           d == RejRow(r)
<1>0. /\ TypeOK /\ CallbackInv /\ RowsInv /\ RejInv(r)
      /\ entry \in [Entries -> Entry] /\ receipt \in [States -> Receipt]
  BY DEF ReceiptsInv, TypeOK, EntryType, ReceiptType
<1>1. /\ UNCHANGED <<state, callback, fin>>
      /\ \/ RejRests(r) \/ RejPicks(r) \/ RejTakes(r) \/ RejHoldsOn(r)
         \/ RejRefuses(r) \/ RejDrops(r)
  BY <1>0, RejEffects
<1>2. CASE UNCHANGED <<receipt, entry>>
  BY <1>0, <1>1, <1>2 DEF CallbackInv, RowsInv, Completed, RowOf
<1>3. RejHolds(r) \/ rej[r].pc = "isolate" => x \in States /\ callback[x] = "off"
  BY <1>0 DEF RejInv, Completed, CallbackInv
<1>4. ASSUME RejHolds(r) \/ rej[r].pc = "isolate", UNCHANGED entry,
             NEW p \in {"file", "isolated", "gone"},
             receipt' = [receipt EXCEPT ![x].place = p],
             p = "gone" => \A e \in Entries :
                entry[e].status = "REVIEW_REQUIRED" => entry[e].receipt # x
      PROVE  CallbackInv' /\ RowsInv'
  <2>1. callback[x] = "off" /\ x \in States
    BY <1>3, <1>4
  <2>2. \A y \in States : /\ receipt'[y].key = receipt[y].key
                          /\ y # x => receipt'[y].place = receipt[y].place
    BY <1>0, <1>4 DEF Receipt
  <2>3. receipt'[x].place = p
    BY <1>0, <1>4, <2>1 DEF Receipt
  <2>4. CallbackInv'
    BY <1>0, <1>1, <2>1, <2>2 DEF CallbackInv
  <2>5. RowsInv'
    BY <1>0, <1>1, <1>4, <2>2, <2>3 DEF RowsInv, Completed, RowOf
  <2> QED
    BY <2>4, <2>5
<1>5. CASE RejTakes(r)
  BY <1>4, <1>5 DEF RejTakes
<1>6. CASE RejDrops(r)
  <2>1. PICK p \in {"file", "gone"} : /\ receipt' = [receipt EXCEPT ![x].place = p]
                                      /\ p = "gone" => rej[r].pc = "delete"
    BY <1>6 DEF RejDrops
  <2>2. RejHolds(r) /\ UNCHANGED entry
    BY <1>6 DEF RejDrops
  <2>3. ASSUME p = "gone", NEW e \in Entries, entry[e].status = "REVIEW_REQUIRED"
        PROVE  entry[e].receipt # x
    BY <1>0, <2>1, <2>3 DEF RejInv
  <2> HIDE DEF x
  <2> QED
    BY <1>4, <2>1, <2>2, <2>3
<1>7. CASE RejRefuses(r)
  <2>1. UNCHANGED receipt
    BY <1>7 DEF RejRefuses
  <2>2. \A e \in Entries : /\ e # d => entry'[e] = entry[e]
                           /\ e = d => entry'[e].status = "REJECTED"
    BY <1>0, <1>7 DEF RejRefuses, Entry
  <2>3. RowsInv'
    BY <1>0, <1>1, <2>1, <2>2 DEF RowsInv, Completed, RowOf
  <2> QED
    BY <1>0, <1>1, <2>1, <2>3 DEF CallbackInv
<1> QED
  BY <1>1, <1>2, <1>5, <1>6, <1>7 DEF RejRests, RejPicks, RejHoldsOn

(* A rejecter's step keeps what every reviewer knows.                      *)
LEMMA RejKeepsReviewers ==
    ASSUME ReceiptsInv, NEW r \in Rejecters, RejStep(r)
    PROVE  /\ \A f \in Finalizers : FinInv(f)'
           /\ \A q \in Rejecters : RejInv(q)'
<1>0. /\ TypeOK /\ HoldersInv /\ RowsInv /\ RejInv(r)
      /\ entry \in [Entries -> Entry] /\ receipt \in [States -> Receipt]
  BY DEF ReceiptsInv, TypeOK, EntryType, ReceiptType
<1>1. /\ UNCHANGED <<state, callback, fin>>
      /\ \A q \in Rejecters \ {r} : rej'[q] = rej[q]
      /\ \/ RejRests(r) \/ RejPicks(r) \/ RejTakes(r) \/ RejHoldsOn(r)
         \/ RejRefuses(r) \/ RejDrops(r)
  BY <1>0, RejEffects
<1>2. \/ UNCHANGED entry
      \/ RejRefuses(r) /\ \A e \in Entries :
            /\ e # RejRow(r) => entry'[e] = entry[e]
            /\ e = RejRow(r) => entry'[e].status = "REJECTED"
  <2>1. RejRefuses(r) => \A e \in Entries :
            /\ e # RejRow(r) => entry'[e] = entry[e]
            /\ e = RejRow(r) => entry'[e].status = "REJECTED"
    BY <1>0 DEF RejRefuses, Entry
  <2> QED
    BY <1>1, <2>1 DEF RejRests, RejPicks, RejTakes, RejHoldsOn, RejDrops
<1>3. ASSUME NEW f \in Finalizers PROVE FinInv(f)'
  <2>1. FinInv(f) /\ fin'[f] = fin[f]
    BY <1>1 DEF ReceiptsInv
  <2>2. ASSUME fin[f].pc \in {"dispose", "undoApproval"}
        PROVE  entry'[FinRow(f)].status = "APPROVED"
    <3>1. FinRow(f) \in Entries /\ entry[FinRow(f)].status = "APPROVED"
      BY <2>1, <2>2 DEF FinInv, FinHolds, FinRow
    <3> QED
      BY <1>2, <3>1 DEF RejRefuses
  <2>3. /\ FinHolds(f) => receipt'[fin[f].receipt] = receipt[fin[f].receipt]
        /\ FinHolds(f) \/ fin[f].pc = "isolate" =>
              receipt'[fin[f].receipt].key = receipt[fin[f].receipt].key
    BY <2>1, RejSparesOthers DEF FinInv, Completed
  <2> QED
    BY <1>1, <2>1, <2>2, <2>3 DEF FinInv, FinHolds, FinRow, Completed, RowOf
<1>4. ASSUME NEW q \in Rejecters \ {r} PROVE RejInv(q)'
  <2>1. RejInv(q) /\ rej'[q] = rej[q]
    BY <1>1 DEF ReceiptsInv
  <2>2. RejHolds(q) => receipt'[rej[q].receipt] = receipt[rej[q].receipt]
    BY RejSparesOthers
  <2>3. \A e \in Entries : entry'[e].status = "REVIEW_REQUIRED" => entry'[e] = entry[e]
    BY <1>2
  <2> QED
    BY <1>1, <2>1, <2>2, <2>3 DEF RejInv, RejHolds, Completed, RowOf
<1>5. RejInv(r)'
  <2>1. CASE RejRests(r) \/ RejDrops(r)
    BY <2>1 DEF RejRests, RejDrops, RejInv, RejHolds
  <2>2. CASE RejPicks(r)
    BY <1>0, <1>1, <2>2 DEF RejPicks, RejInv, RejHolds, RowsInv, Completed, RowOf
  <2>3. CASE RejTakes(r)
    <3>1. rej[r].receipt \in States
      BY <1>0, <2>3 DEF RejTakes, RejInv, Completed
    <3>2. receipt'[rej[r].receipt].place = "isolated"
      BY <1>0, <2>3, <3>1 DEF RejTakes, Receipt
    <3> QED
      BY <1>0, <1>1, <2>3, <3>2 DEF RejTakes, RejKeepsRow, RejInv, RejHolds, Completed, RowOf
  <2>4. CASE RejHoldsOn(r)
    <3>1. Completed(rej[r].receipt, RejRow(r)) /\ receipt[rej[r].receipt].place = "isolated"
      BY <1>0, <2>4 DEF RejHoldsOn, RejInv, RejRow
    <3>2. ASSUME rej'[r].pc = "delete", NEW e \in Entries, entry[e].status = "REVIEW_REQUIRED"
          PROVE  entry[e].receipt # rej[r].receipt
      <4>1. RowOf(entry[e].receipt) = e /\ RowOf(rej[r].receipt) = RejRow(r)
        BY <1>0, <3>1, <3>2 DEF RowsInv, Completed
      <4> QED
        BY <2>4, <3>2, <4>1 DEF RejHoldsOn
    <3> QED
      BY <1>1, <2>4, <3>1, <3>2 DEF RejHoldsOn, RejKeepsRow, RejInv, RejRow, Completed, RowOf
  <2>5. CASE RejRefuses(r)
    BY <1>0, <1>1, <2>5 DEF RejRefuses, RejKeepsRow, RejInv, RejHolds, Completed, RowOf
  <2> QED
    BY <1>1, <2>1, <2>2, <2>3, <2>4, <2>5
<1> QED
  BY <1>3, <1>4, <1>5

(* A rejecter too takes a receipt only from its place.                     *)
LEMMA RejKeepsHolders ==
    ASSUME ReceiptsInv, NEW r \in Rejecters, RejStep(r)
    PROVE  HoldersInv'
<1>0. TypeOK /\ HoldersInv
  BY DEF ReceiptsInv
<1>1. /\ UNCHANGED fin /\ \A q \in Rejecters \ {r} : rej'[q] = rej[q]
  BY <1>0, RejEffects
<1>2. RejHolds(r)' => /\ RejKeepsRow(r)
                      /\ RejHolds(r) \/ receipt[rej[r].receipt].place = "file"
  BY <1>0, RejEffects DEF RejRests, RejPicks, RejTakes, RejHoldsOn, RejRefuses, RejDrops, RejHolds
<1>3. /\ \A f \in Finalizers : FinHolds(f) => receipt[fin[f].receipt].place = "isolated"
      /\ \A q \in Rejecters : RejHolds(q) => receipt[rej[q].receipt].place = "isolated"
  BY DEF ReceiptsInv, FinInv, RejInv
<1>4. ASSUME RejHolds(r)'
      PROVE  /\ \A q \in Rejecters \ {r} : RejHolds(q) => rej[q].receipt # rej'[r].receipt
             /\ \A f \in Finalizers : FinHolds(f) => fin[f].receipt # rej'[r].receipt
  BY <1>0, <1>2, <1>3, <1>4 DEF HoldersInv, RejKeepsRow
<1>5. /\ \A f \in Finalizers : FinHolds(f)' <=> FinHolds(f)
      /\ \A q \in Rejecters \ {r} : RejHolds(q)' <=> RejHolds(q)
  BY <1>1 DEF FinHolds, RejHolds
<1> QED
  BY <1>0, <1>1, <1>4, <1>5 DEF HoldersInv

(* Every step keeps what is known of receipts under review.                *)
LEMMA ReceiptsStep == ReceiptsInv /\ OpenRows /\ [Next]_vars => ReceiptsInv'
<1> SUFFICES ASSUME ReceiptsInv, OpenRows, [Next]_vars PROVE ReceiptsInv'
  OBVIOUS
<1>0. TypeOK'
  BY TypeStep DEF ReceiptsInv
<1>1. CASE UNCHANGED vars
  <2>1. UNCHANGED <<entry, state, receipt, callback, fin, rej>>
    BY <1>1 DEF vars, fileVars
  <2> QED
    BY <1>0, <2>1 DEF ReceiptsInv, CallbackInv, RowsInv, HoldersInv, FinInv, RejInv,
        Completed, RowOf, FinHolds, RejHolds
<1>2. CASE StateFileStep
  BY <1>2, StateFileKeepsReceipts
<1>3. ASSUME NEW f \in Finalizers, FinStep(f) PROVE ReceiptsInv'
  <2>1. \A g \in Finalizers : FinInv(g)'
    BY <1>3, FinKeepsItself, FinKeepsOthers
  <2> QED
    BY <1>0, <1>3, <2>1, FinKeepsRows, FinKeepsOthers, FinKeepsHolders DEF ReceiptsInv
<1>4. ASSUME NEW r \in Rejecters, RejStep(r) PROVE ReceiptsInv'
  BY <1>0, <1>4, RejKeepsRows, RejKeepsReviewers, RejKeepsHolders DEF ReceiptsInv
<1> QED
  BY <1>1, <1>2, <1>3, <1>4 DEF Next

(* In the beginning there is nothing to review.                            *)
LEMMA ReceiptsStart == Init => ReceiptsInv /\ OpenRows
<1> SUFFICES ASSUME Init PROVE ReceiptsInv /\ OpenRows
  OBVIOUS
<1>1. /\ \A f \in Finalizers : fin[f].pc = "idle"
      /\ \A r \in Rejecters : rej[r].pc = "idle"
  BY DEF Init, FinAt, RejAt
<1>2. HoldersInv /\ \A f \in Finalizers : FinInv(f)
  BY <1>1 DEF HoldersInv, FinInv, FinHolds, RejHolds
<1>3. \A r \in Rejecters : RejInv(r)
  BY <1>1 DEF RejInv, RejHolds
<1>4. CallbackInv /\ RowsInv
  BY DEF Init, CallbackInv, RowsInv
<1>5. OpenRows
  BY DEF Init, OpenRows, Open
<1> QED
  BY <1>2, <1>3, <1>4, <1>5, InitType DEF ReceiptsInv

(* What is known of receipts under review holds always.                    *)
LEMMA ReceiptsCorrect == Spec => [](ReceiptsInv /\ OpenRows)
<1>1. ReceiptsInv => TypeOK
  BY DEF ReceiptsInv
<1> QED
  BY <1>1, ReceiptsStart, ReceiptsStep, OpenRowsStep, PTL DEF Spec

(* The credentials of a store under review are on disk, in their place or  *)
(* set aside by one reviewer, and are the very keys the row shows:         *)
(* for any number of finalizers, rejecters, crashes and failed file        *)
(* operations, even when the finalization lock is lost to a second owner.  *)
THEOREM ReceiptsAreKept == Spec => []ReviewKeepsReceipt
<1>1. ReceiptsInv => ReviewKeepsReceipt
  BY DEF ReceiptsInv, RowsInv, ReviewKeepsReceipt, Completed
<1> QED
  BY <1>1, ReceiptsCorrect, PTL

-----------------------------------------------------------------------------
(* The steps of a finalizer that owns the lock, in the code's intention.   *)
Critical(f) ==
    fin[f].pc \in {"read", "isolate", "write", "approve", "dispose", "undoApproval",
                   "undoConfig", "undoReceipt", "release"}

LockIsExclusive ==
    \A f, g \in Finalizers : Critical(f) /\ Critical(g) => f = g

(* A finalizer has written the configuration, and may write it back.       *)
Writing(f) == fin[f].pc \in {"approve", "dispose", "undoApproval", "undoConfig"}
BeingWritten(s) == \E f \in Finalizers : Writing(f) /\ fin[f].store = s

(* A finalizer has reported a rollback step of store s that failed.        *)
Reported(s) == \E f \in Finalizers : fin[f].store = s /\ fin[f].bad

(* Nobody holds the receipt x.                                             *)
Unheld(x) ==
    /\ \A f \in Finalizers : FinHolds(f) => fin[f].receipt # x
    /\ \A r \in Rejecters : RejHolds(r) => rej[r].receipt # x

(* The key k is of the approved account of s, and was brought by a         *)
(* callback of s whose receipt is out of everybody's reach: left aside by  *)
(* a reviewer that died, or disposed of when another row than b's was      *)
(* approved.                                                               *)
Source(x, c, k, s, b) ==
    /\ Completed(x, <<c, s>>) /\ receipt[x].key = k /\ KeyOf(k, IdentityMap[s])
    /\ Unheld(x)
    /\ \/ receipt[x].place = "isolated"
       \/ receipt[x].place = "gone" /\ c # b /\ entry[<<c, s>>].status = "APPROVED"
Sourced(k, s, b) == \E x \in States, c \in Batches : Source(x, c, k, s, b)

(* An approved row was approved with a key of its store's supplier, and    *)
(* the store uses such a key, unless a finalizer of the store is at work.  *)
ApprovedInv ==
    \A c \in Batches, s \in Stores, k \in Keys \cup {NoKey} :
        entry[<<c, s>>].status = "APPROVED" /\ config[s] = k =>
            /\ KeyOf(entry[<<c, s>>].key, IdentityMap[s])
            /\ Sourced(k, s, NoBatch) \/ Reported(s) \/ BeingWritten(s)

(* What a finalizer in its critical steps knows of the configuration: it   *)
(* is what it read, but for the keys of the receipt it holds.              *)
ConfigInv(f) ==
    LET s == fin[f].store  b == fin[f].batch  before == fin[f].before IN
    /\ fin[f].pc = "idle" => ~fin[f].bad
    /\ fin[f].pc \in {"isolate", "write"} => before = config
    /\ fin[f].pc \in {"isolate", "write", "approve"} => entry[<<b, s>>].status # "APPROVED"
    /\ Writing(f) => /\ config[s] = receipt[fin[f].receipt].key
                     /\ \A t \in Stores \ {s} : before[t] = config[t]
    /\ fin[f].pc = "undoConfig" /\ entry[<<b, s>>].status = "APPROVED" => fin[f].bad

(* Restoring what it read gives the store a key that its other approved    *)
(* rows brought.                                                           *)
RestoreInv(f) ==
    \A s \in Stores, b \in Batches, k \in Keys \cup {NoKey} :
        /\ Writing(f) /\ fin[f].store = s /\ fin[f].batch = b /\ fin[f].before[s] = k
        /\ \E c \in Batches \ {b} : entry[<<c, s>>].status = "APPROVED"
        => Sourced(k, s, b) \/ Reported(s)

ReviewInv ==
    /\ ReceiptsInv /\ OpenRows /\ ApprovedInv
    /\ \A f \in Finalizers : ConfigInv(f) /\ RestoreInv(f)

(* What a step leaves of receipts whose callback has completed: their key, *)
(* and all of them if nobody holds them and they are out of their place.   *)
LEMMA ReceiptsStay ==
    ASSUME ReceiptsInv, OpenRows, [Next]_vars,
           NEW x \in States, state[x].status = "SUCCEEDED"
    PROVE  /\ state'[x] = state[x] /\ receipt'[x].key = receipt[x].key
           /\ Unheld(x) /\ receipt[x].place # "file" =>
                 receipt'[x].place = receipt[x].place /\ Unheld(x)'
<1>0. TypeOK /\ CallbackInv /\ receipt \in [States -> Receipt]
  BY DEF ReceiptsInv, TypeOK, ReceiptType
<1>1. CASE StateFileStep
  <2>1. UNCHANGED <<fin, rej>> /\ state'[x] = state[x] /\ receipt'[x] = receipt[x]
    BY <1>0, <1>1, StateFileEffects
  <2> QED
    BY <2>1 DEF Unheld, FinHolds, RejHolds
<1>2. CASE UNCHANGED vars
  <2>1. UNCHANGED <<fin, rej, state, receipt>>
    BY <1>2 DEF vars, fileVars
  <2> QED
    BY <2>1 DEF Unheld, FinHolds, RejHolds
<1>3. ASSUME NEW f \in Finalizers, FinStep(f)
      PROVE  /\ state'[x] = state[x] /\ receipt'[x].key = receipt[x].key
             /\ Unheld(x) /\ receipt[x].place # "file" =>
                   receipt'[x].place = receipt[x].place /\ Unheld(x)'
  <2>1. /\ UNCHANGED <<state, rej>> /\ receipt'[x].key = receipt[x].key
        /\ \A g \in Finalizers \ {f} : fin'[g] = fin[g]
    BY <1>0, <1>3, FinEffects, FinSparesOthers
  <2>2. /\ FinHolds(f)' => /\ fin'[f].receipt = fin[f].receipt
                           /\ FinHolds(f) \/ receipt[fin[f].receipt].place = "file"
        /\ \/ UNCHANGED receipt
           \/ /\ FinHolds(f) \/ receipt[fin[f].receipt].place = "file"
              /\ \E p \in {"file", "isolated", "gone"} :
                    receipt' = [receipt EXCEPT ![fin[f].receipt].place = p]
    BY <1>0, <1>3, FinEffects DEF FinRests, FinPicks, FinTakes, FinHoldsOn, FinGrants,
       FinRevokes, FinDrops, FinHolds, FinKeepsRow
  <2>3. ASSUME Unheld(x), receipt[x].place # "file"
        PROVE  receipt'[x].place = receipt[x].place /\ Unheld(x)'
    <3>1. receipt'[x].place = receipt[x].place
      BY <1>0, <2>2, <2>3 DEF Unheld
    <3>2. \A g \in Finalizers : FinHolds(g)' => fin'[g].receipt # x
      BY <2>1, <2>2, <2>3 DEF Unheld, FinHolds
    <3>3. \A r \in Rejecters : RejHolds(r)' => rej'[r].receipt # x
      BY <2>1, <2>3 DEF Unheld, RejHolds
    <3> QED
      BY <3>1, <3>2, <3>3 DEF Unheld
  <2> QED
    BY <2>1, <2>3
<1>4. ASSUME NEW r \in Rejecters, RejStep(r)
      PROVE  /\ state'[x] = state[x] /\ receipt'[x].key = receipt[x].key
             /\ Unheld(x) /\ receipt[x].place # "file" =>
                   receipt'[x].place = receipt[x].place /\ Unheld(x)'
  <2>1. /\ UNCHANGED <<state, fin>> /\ receipt'[x].key = receipt[x].key
        /\ \A q \in Rejecters \ {r} : rej'[q] = rej[q]
    BY <1>0, <1>4, RejEffects, RejSparesOthers
  <2>2. /\ RejHolds(r)' => /\ rej'[r].receipt = rej[r].receipt
                           /\ RejHolds(r) \/ receipt[rej[r].receipt].place = "file"
        /\ \/ UNCHANGED receipt
           \/ /\ RejHolds(r) \/ receipt[rej[r].receipt].place = "file"
              /\ \E p \in {"file", "isolated", "gone"} :
                    receipt' = [receipt EXCEPT ![rej[r].receipt].place = p]
    BY <1>0, <1>4, RejEffects DEF RejRests, RejPicks, RejTakes, RejHoldsOn, RejRefuses,
       RejDrops, RejHolds, RejKeepsRow
  <2>3. ASSUME Unheld(x), receipt[x].place # "file"
        PROVE  receipt'[x].place = receipt[x].place /\ Unheld(x)'
    <3>1. receipt'[x].place = receipt[x].place
      BY <1>0, <2>2, <2>3 DEF Unheld
    <3>2. \A q \in Rejecters : RejHolds(q)' => rej'[q].receipt # x
      BY <2>1, <2>2, <2>3 DEF Unheld, RejHolds
    <3>3. \A f \in Finalizers : FinHolds(f)' => fin'[f].receipt # x
      BY <2>1, <2>3 DEF Unheld, FinHolds
    <3> QED
      BY <3>1, <3>2, <3>3 DEF Unheld
  <2> QED
    BY <2>1, <2>3
<1> QED
  BY <1>1, <1>2, <1>3, <1>4 DEF Next

(* A key that was brought stays brought, as long as the approvals of the   *)
(* other rows stand.                                                       *)
LEMMA SourcedStays ==
    ASSUME ReceiptsInv, OpenRows, [Next]_vars,
           NEW s \in Stores, NEW k, NEW b, Sourced(k, s, b),
           \A c \in Batches \ {b} : entry[<<c, s>>].status = "APPROVED"
              => entry'[<<c, s>>].status = "APPROVED"
    PROVE  Sourced(k, s, b)'
<1>1. PICK x \in States, c \in Batches : Source(x, c, k, s, b)
  BY DEF Sourced
<1>2. state[x].status = "SUCCEEDED" /\ Unheld(x) /\ receipt[x].place # "file"
  BY <1>1 DEF Source, Completed
<1>3. /\ state'[x] = state[x] /\ receipt'[x].key = receipt[x].key
      /\ receipt'[x].place = receipt[x].place /\ Unheld(x)'
  BY <1>2, ReceiptsStay
<1>4. Completed(x, <<c, s>>)'
  BY <1>1, <1>3 DEF Source, Completed, RowOf
<1>5. Source(x, c, k, s, b)'
  BY <1>1, <1>3, <1>4 DEF Source
<1> QED
  BY <1>5 DEF Sourced

(* A reported failure stays reported: the process keeps its store and its  *)
(* verdict to the end.                                                     *)
LEMMA ReportsStay ==
    ASSUME TypeOK, NEW f \in Finalizers, ConfigInv(f), FinStep(f)
    PROVE  /\ fin'[f].pc # "idle"
           /\ \A s : Reported(s) => Reported(s)'
<1>0. fin \in [Finalizers -> FinProcess] /\ fin[f] \in FinMemory
  BY DEF TypeOK, ReviewType, FinProcess
<1> SUFFICES fin'[f].pc # "idle" /\ (fin[f].bad => fin'[f].bad /\ fin'[f].store = fin[f].store)
  <2>1. \A g \in Finalizers \ {f} : fin'[g] = fin[g]
    BY FinEffects
  <2> QED
    BY <2>1 DEF Reported
<1>1. ASSUME NEW pc, FinGoes(f, pc) \/ (\E ok \in BOOLEAN : FinRollsOn(f, pc, ok)) \/ FinEnds(f, pc)
      PROVE  fin'[f].pc = pc /\ (fin[f].bad => fin'[f].bad /\ fin'[f].store = fin[f].store)
  <2>1. CASE FinEnds(f, pc)
    BY <2>1, FinStops
  <2>2. CASE FinGoes(f, pc) \/ \E ok \in BOOLEAN : FinRollsOn(f, pc, ok)
    BY <2>2, FinMoves DEF FinKeepsRow
  <2> QED
    BY <1>1, <2>1, <2>2
<1>2. ASSUME NEW s \in Stores, FinLocks(f, s)
      PROVE  fin'[f].pc # "idle" /\ (fin[f].bad => fin'[f].bad /\ fin'[f].store = fin[f].store)
  <2>1. CASE FinEnds(f, "done")
    BY <1>1, <2>1
  <2>2. CASE ~FinEnds(f, "done")
    BY <1>0, <1>2, <2>2 DEF FinLocks, FinMemory, ConfigInv
  <2> QED
    BY <2>1, <2>2
<1>3. CASE FinReads(f)
  <2>1. CASE FinGoes(f, "release")
    BY <1>1, <2>1
  <2>2. CASE ~FinGoes(f, "release")
    <3>1. PICK b \in Batches :
            fin' = [fin EXCEPT ![f].pc = "isolate", ![f].batch = b,
                               ![f].receipt = entry[<<b, fin[f].store>>].receipt,
                               ![f].before = config]
      BY <1>3, <2>2 DEF FinReads
    <3> QED
      BY <1>0, <3>1 DEF FinMemory
  <2> QED
    BY <2>1, <2>2
<1>4. CASE FinWrites(f)
  <2>1. CASE FinGoes(f, "undoReceipt")
    BY <1>1, <2>1
  <2>2. CASE fin' = [fin EXCEPT ![f].pc = "approve", ![f].before = config]
    BY <1>0, <2>2 DEF FinMemory
  <2> QED
    BY <1>4, <2>1, <2>2 DEF FinWrites
<1>5. CASE FinReaps(f) \/ FinIsolates(f) \/ FinApproves(f) \/ FinDisposes(f) \/ FinDies(f)
           \/ FinUndoesApproval(f) \/ FinUndoesConfig(f) \/ FinUndoesReceipt(f) \/ FinReleases(f)
  <2>1. \E pc \in (FinSteps \cup Ended) \ {"idle"} :
          FinGoes(f, pc) \/ (\E ok \in BOOLEAN : FinRollsOn(f, pc, ok)) \/ FinEnds(f, pc)
    BY <1>5 DEF FinReaps, FinIsolates, FinApproves, FinDisposes, FinUndoesApproval,
       FinUndoesConfig, FinUndoesReceipt, FinReleases, FinDies, FinSteps, Ended
  <2> QED
    BY <1>1, <2>1, SMTT(30)
<1> QED
  BY <1>2, <1>3, <1>4, <1>5 DEF FinStep

(* A rollback step that fails makes the verdict.                           *)
LEMMA FailureIsReported ==
    ASSUME TypeOK, NEW f \in Finalizers, NEW pc, FinRollsOn(f, pc, FALSE)
    PROVE  fin'[f].bad
<1>1. fin \in [Finalizers -> FinProcess] /\ fin[f] \in FinMemory
  BY DEF TypeOK, ReviewType, FinProcess
<1> QED
  BY <1>1 DEF FinRollsOn, FinMemory

(* Only a finalizer approves a row, or takes its approval back.            *)
LEMMA OthersApproveNothing ==
    ASSUME TypeOK, CallbackInv, OpenRows,
           StateFileStep \/ (\E r \in Rejecters : RejStep(r)) \/ UNCHANGED vars
    PROVE  /\ UNCHANGED <<config, fin>>
           /\ \A e \in Entries :
                 entry'[e].status = "APPROVED" \/ entry[e].status = "APPROVED"
                    => entry'[e] = entry[e]
<1>0. entry \in [Entries -> Entry]
  BY DEF TypeOK, EntryType
<1>1. UNCHANGED <<config, fin>>
  BY StateFileEffects, RejEffects DEF vars
<1>2. \A e \in Entries : entry'[e].status = "APPROVED" \/ entry[e].status = "APPROVED"
                            => entry'[e] = entry[e]
  <2>1. CASE StateFileStep
    BY <2>1, StateFileEffects DEF Received
  <2>2. ASSUME NEW r \in Rejecters, RejStep(r)
        PROVE  \A e \in Entries : entry'[e].status = "APPROVED" \/ entry[e].status = "APPROVED"
                                     => entry'[e] = entry[e]
    <3>1. CASE RejRefuses(r)
      BY <1>0, <3>1 DEF RejRefuses, Entry
    <3> QED
      BY <1>0, <2>2, <3>1, RejEffects DEF RejRests, RejPicks, RejTakes, RejHoldsOn, RejDrops
  <2>3. CASE UNCHANGED vars
    BY <2>3 DEF vars, fileVars
  <2> QED
    BY <2>1, <2>2, <2>3
<1> QED
  BY <1>1, <1>2

(* What a finalizer that has written knows: it holds the receipt whose key *)
(* the store uses.                                                         *)
LEMMA WritingFacts ==
    ASSUME ReviewInv, NEW f \in Finalizers, Writing(f)
    PROVE  /\ FinHolds(f) /\ Critical(f) /\ fin[f].receipt \in States
           /\ fin[f].store \in Stores /\ fin[f].batch \in Batches
           /\ Completed(fin[f].receipt, FinRow(f))
           /\ receipt[fin[f].receipt].place = "isolated"
           /\ receipt[fin[f].receipt].key = config[fin[f].store]
           /\ KeyOf(config[fin[f].store], IdentityMap[fin[f].store])
<1>1. FinHolds(f) /\ Critical(f) /\ FinInv(f) /\ ConfigInv(f)
  BY DEF Writing, FinHolds, Critical, ReviewInv, ReceiptsInv
<1>2. FinRow(f) \in Entries /\ Completed(fin[f].receipt, FinRow(f))
  BY <1>1 DEF FinInv, FinRow
<1>3. receipt[fin[f].receipt].key = config[fin[f].store]
  BY <1>1 DEF ConfigInv
<1> QED
  BY <1>1, <1>2, <1>3 DEF FinInv, FinRow, Entries, Completed

(* The key of the receipt of a finalizer that has written stays.           *)
LEMMA WrittenKeyStays ==
    ASSUME ReviewInv, [Next]_vars, NEW f \in Finalizers, Writing(f) \/ fin[f].pc = "write"
    PROVE  receipt'[fin[f].receipt].key = receipt[fin[f].receipt].key
<1>1. FinInv(f) /\ FinHolds(f) /\ ReceiptsInv /\ OpenRows
  BY DEF Writing, FinHolds, ReviewInv, ReceiptsInv
<1>2. fin[f].receipt \in States /\ state[fin[f].receipt].status = "SUCCEEDED"
  BY <1>1 DEF FinInv, Completed
<1> QED
  BY <1>1, <1>2, ReceiptsStay

(* Only a finalizer approves a row: callbacks, links and rejecters leave   *)
(* the approvals and the configuration.                                    *)
LEMMA OthersKeepReview ==
    ASSUME ReviewInv, [Next]_vars,
           StateFileStep \/ (\E r \in Rejecters : RejStep(r)) \/ UNCHANGED vars
    PROVE  ApprovedInv' /\ \A f \in Finalizers : ConfigInv(f)' /\ RestoreInv(f)'
<1>0. /\ TypeOK /\ CallbackInv /\ ApprovedInv /\ ReceiptsInv /\ OpenRows
      /\ \A f \in Finalizers : ConfigInv(f) /\ RestoreInv(f)
  BY DEF ReviewInv, ReceiptsInv
<1>1. UNCHANGED <<config, fin>>
  BY <1>0, OthersApproveNothing
<1>2. \A e \in Entries : entry'[e].status = "APPROVED" \/ entry[e].status = "APPROVED"
                            => entry'[e] = entry[e]
  BY <1>0, OthersApproveNothing
<1>3. \A s : (Reported(s)' <=> Reported(s)) /\ (BeingWritten(s)' <=> BeingWritten(s))
  BY <1>1 DEF Reported, BeingWritten, Writing
<1>4. ASSUME NEW s \in Stores, NEW k, NEW b, Sourced(k, s, b) PROVE Sourced(k, s, b)'
  <2>1. \A c \in Batches : entry[<<c, s>>].status = "APPROVED"
                              => entry'[<<c, s>>].status = "APPROVED"
    BY <1>2 DEF Entries
  <2> QED
    BY <1>0, <1>4, <2>1, SourcedStays
<1>5. ApprovedInv'
  <2> SUFFICES ASSUME NEW c \in Batches, NEW s \in Stores, NEW k \in Keys \cup {NoKey},
                      entry'[<<c, s>>].status = "APPROVED", config'[s] = k
               PROVE  /\ KeyOf(entry'[<<c, s>>].key, IdentityMap[s])
                      /\ Sourced(k, s, NoBatch)' \/ Reported(s)' \/ BeingWritten(s)'
    BY DEF ApprovedInv, KeyOf
  <2>1. entry'[<<c, s>>] = entry[<<c, s>>]
    BY <1>2 DEF Entries
  <2>2. /\ KeyOf(entry[<<c, s>>].key, IdentityMap[s])
        /\ Sourced(k, s, NoBatch) \/ Reported(s) \/ BeingWritten(s)
    BY <1>0, <1>1, <2>1 DEF ApprovedInv
  <2> QED
    BY <1>3, <1>4, <2>1, <2>2
<1>6. ASSUME NEW f \in Finalizers PROVE ConfigInv(f)'
  <2>1. ConfigInv(f) /\ FinInv(f) /\ fin'[f] = fin[f] /\ config' = config
    BY <1>0, <1>1 DEF ReceiptsInv
  <2>2. fin[f].pc \in {"isolate", "write", "approve", "undoConfig"} =>
          <<fin[f].batch, fin[f].store>> \in Entries
    BY <2>1 DEF FinInv, FinHolds
  <2>3. Writing(f) => receipt'[fin[f].receipt].key = receipt[fin[f].receipt].key
    BY WrittenKeyStays
  <2> QED
    BY <1>2, <2>1, <2>2, <2>3 DEF ConfigInv, Writing
<1>7. ASSUME NEW f \in Finalizers PROVE RestoreInv(f)'
  <2> SUFFICES ASSUME NEW s \in Stores, NEW b \in Batches, NEW k \in Keys \cup {NoKey},
                      Writing(f)', fin'[f].store = s, fin'[f].batch = b, fin'[f].before[s] = k,
                      \E c \in Batches \ {b} : entry'[<<c, s>>].status = "APPROVED"
               PROVE  Sourced(k, s, b)' \/ Reported(s)'
    BY DEF RestoreInv
  <2>1. Writing(f) /\ \E c \in Batches \ {b} : entry[<<c, s>>].status = "APPROVED"
    BY <1>1, <1>2 DEF Writing, Entries
  <2>2. Sourced(k, s, b) \/ Reported(s)
    BY <1>0, <1>1, <2>1 DEF RestoreInv
  <2> QED
    BY <1>3, <1>4, <2>2
<1> QED
  BY <1>5, <1>6, <1>7

(* A finalizer in its critical steps is the only one there, so what the    *)
(* others know of the configuration is nothing.                            *)
LEMMA FinAlone ==
    ASSUME ReviewInv, LockIsExclusive, NEW f \in Finalizers, FinStep(f), Critical(f)
    PROVE  /\ \A g \in Finalizers \ {f} : ConfigInv(g)' /\ RestoreInv(g)'
           /\ \A s : BeingWritten(s) => Writing(f) /\ fin[f].store = s
<1>1. ASSUME NEW g \in Finalizers \ {f} PROVE ConfigInv(g)' /\ RestoreInv(g)'
  <2>1. fin'[g] = fin[g] /\ ConfigInv(g) /\ ~Critical(g)
    BY FinEffects DEF ReviewInv, ReceiptsInv, LockIsExclusive
  <2> QED
    BY <2>1 DEF ConfigInv, RestoreInv, Critical, Writing
<1>2. \A s : BeingWritten(s) => Writing(f) /\ fin[f].store = s
  BY DEF BeingWritten, Writing, Critical, LockIsExclusive
<1> QED
  BY <1>1, <1>2

(* What a finalizer that is done writing leaves in the configuration has   *)
(* been brought, or its failure is reported.                               *)
LeavesKeys(f) ==
    \A s \in Stores, k \in Keys \cup {NoKey} :
        Writing(f) /\ fin[f].store = s /\ config[s] = k =>
            BeingWritten(s)' \/ Reported(s)' \/ Sourced(k, s, NoBatch)'

(* The steps of a finalizer that do not write the configuration or a row.  *)
LEMMA FinQuietKeepsReview ==
    ASSUME ReviewInv, LockIsExclusive, NEW f \in Finalizers, FinStep(f),
           UNCHANGED <<config, entry>>, ConfigInv(f)', RestoreInv(f)', LeavesKeys(f)
    PROVE  ApprovedInv' /\ \A g \in Finalizers : ConfigInv(g)' /\ RestoreInv(g)'
<1>0. /\ TypeOK /\ ApprovedInv /\ ReceiptsInv /\ OpenRows /\ [Next]_vars
      /\ \A g \in Finalizers : ConfigInv(g) /\ RestoreInv(g)
  BY DEF ReviewInv, ReceiptsInv, Next
<1>1. /\ \A s : Reported(s) => Reported(s)'
      /\ \A g \in Finalizers \ {f} : fin'[g] = fin[g]
  BY <1>0, ReportsStay, FinEffects
<1>2. \A s \in Stores : \A k, b : Sourced(k, s, b) => Sourced(k, s, b)'
  BY <1>0, SourcedStays
<1>3. ApprovedInv'
  <2> SUFFICES ASSUME NEW c \in Batches, NEW s \in Stores, NEW k \in Keys \cup {NoKey},
                      entry[<<c, s>>].status = "APPROVED", config[s] = k
               PROVE  /\ KeyOf(entry[<<c, s>>].key, IdentityMap[s])
                      /\ Sourced(k, s, NoBatch)' \/ Reported(s)' \/ BeingWritten(s)'
    BY DEF ApprovedInv
  <2>1. /\ KeyOf(entry[<<c, s>>].key, IdentityMap[s])
        /\ Sourced(k, s, NoBatch) \/ Reported(s) \/ BeingWritten(s)
    BY <1>0 DEF ApprovedInv
  <2>2. ASSUME BeingWritten(s)
        PROVE  Sourced(k, s, NoBatch)' \/ Reported(s)' \/ BeingWritten(s)'
    <3>1. PICK g \in Finalizers : Writing(g) /\ fin[g].store = s
      BY <2>2 DEF BeingWritten
    <3>2. CASE g = f
      BY <3>1, <3>2 DEF LeavesKeys
    <3>3. CASE g # f
      <4>1. Writing(g)' /\ fin'[g].store = s
        BY <1>1, <3>1, <3>3 DEF Writing
      <4> QED
        BY <4>1 DEF BeingWritten
    <3> QED
      BY <3>2, <3>3
  <2> QED
    BY <1>1, <1>2, <2>1, <2>2
<1>4. ASSUME NEW g \in Finalizers \ {f} PROVE ConfigInv(g)' /\ RestoreInv(g)'
  <2>1. /\ ConfigInv(g) /\ RestoreInv(g)
        /\ fin'[g] = fin[g] /\ config' = config /\ entry' = entry
    BY <1>0, <1>1
  <2>2. Writing(g) => receipt'[fin[g].receipt].key = receipt[fin[g].receipt].key
    BY <1>0, WrittenKeyStays
  <2>3. ConfigInv(g)'
    BY <2>1, <2>2 DEF ConfigInv, Writing
  <2>4. RestoreInv(g)'
    <3> SUFFICES ASSUME NEW s \in Stores, NEW b \in Batches, NEW k \in Keys \cup {NoKey},
                        Writing(g), fin[g].store = s, fin[g].batch = b, fin[g].before[s] = k,
                        \E c \in Batches \ {b} : entry[<<c, s>>].status = "APPROVED"
                 PROVE  Sourced(k, s, b)' \/ Reported(s)'
      BY <2>1 DEF RestoreInv, Writing
    <3>1. Sourced(k, s, b) \/ Reported(s)
      BY <2>1 DEF RestoreInv
    <3> QED
      BY <1>1, <1>2, <3>1
  <2> QED
    BY <2>3, <2>4
<1> QED
  BY <1>3, <1>4

(* Writing: what is written differs from what was there by the store only, *)
(* which gets the keys of the receipt that the finalizer holds.            *)
LEMMA FinWritesKeepsReview ==
    ASSUME ReviewInv, LockIsExclusive, NEW f \in Finalizers, FinWrites(f)
    PROVE  ApprovedInv' /\ \A g \in Finalizers : ConfigInv(g)' /\ RestoreInv(g)'
<1>0. /\ TypeOK /\ ApprovedInv /\ ConfigInv(f) /\ FinInv(f) /\ FinStep(f) /\ [Next]_vars
      /\ ReceiptsInv /\ OpenRows
      /\ fin \in [Finalizers -> FinProcess] /\ fin[f] \in FinMemory
      /\ config \in [Stores -> Keys \cup {NoKey}]
  BY DEF ReviewInv, ReceiptsInv, TypeOK, ReviewType, FinStep, FinProcess, Next
<1>1. /\ fin[f].pc = "write" /\ Critical(f) /\ UNCHANGED <<entry, receipt>>
      /\ fin[f].before = config /\ fin[f].store \in Stores
      /\ entry[<<fin[f].batch, fin[f].store>>].status # "APPROVED"
  BY <1>0 DEF FinWrites, Critical, fileVars, ConfigInv, FinInv, FinHolds, Entries
<1>2. /\ \A t : Reported(t) => Reported(t)'
      /\ \A t \in Stores : \A k, b : Sourced(k, t, b) => Sourced(k, t, b)'
  BY <1>0, <1>1, ReportsStay, SourcedStays
<1>3. CASE FinGoes(f, "undoReceipt") /\ UNCHANGED config
  <2>1. fin'[f].pc = "undoReceipt"
    BY <1>0, <1>3, FinMoves
  <2>2. ConfigInv(f)' /\ RestoreInv(f)'
    BY <2>1 DEF ConfigInv, RestoreInv, Writing
  <2>3. LeavesKeys(f)
    BY <1>1 DEF LeavesKeys, Writing
  <2> QED
    BY <1>0, <1>1, <1>3, <2>2, <2>3, FinQuietKeepsReview
<1>4. CASE /\ config' = [fin[f].before EXCEPT ![fin[f].store] = receipt[fin[f].receipt].key]
           /\ fin' = [fin EXCEPT ![f].pc = "approve", ![f].before = config]
  <2> PICK s \in Stores : s = fin[f].store
    BY <1>1
  <2>1. /\ fin'[f].pc = "approve" /\ fin'[f].before = config
        /\ fin'[f].store = s /\ fin'[f].batch = fin[f].batch
        /\ fin'[f].receipt = fin[f].receipt
    BY <1>0, <1>4 DEF FinMemory
  <2>2. /\ config'[s] = receipt[fin[f].receipt].key
        /\ \A t \in Stores \ {s} : config'[t] = config[t]
    BY <1>0, <1>1, <1>4
  <2>3. \A t : ~BeingWritten(t)
    BY <1>0, <1>1, FinAlone DEF Writing
  <2>4. ConfigInv(f)'
    BY <1>1, <2>1, <2>2 DEF ConfigInv, Writing
  <2>5. RestoreInv(f)'
    <3> SUFFICES ASSUME NEW b \in Batches, NEW k \in Keys \cup {NoKey},
                        fin[f].batch = b, config[s] = k,
                        NEW c \in Batches \ {b}, entry[<<c, s>>].status = "APPROVED"
                 PROVE  Sourced(k, s, b)' \/ Reported(s)'
      BY <1>1, <2>1 DEF RestoreInv
    <3>1. Sourced(k, s, NoBatch) \/ Reported(s)
      BY <1>0, <2>3 DEF ApprovedInv
    <3>2. Sourced(k, s, NoBatch) => Sourced(k, s, b)
      BY <1>1 DEF Sourced, Source
    <3> QED
      BY <1>2, <3>1, <3>2
  <2>6. ApprovedInv'
    <3> SUFFICES ASSUME NEW c \in Batches, NEW t \in Stores, NEW k \in Keys \cup {NoKey},
                        entry[<<c, t>>].status = "APPROVED", config'[t] = k
                 PROVE  /\ KeyOf(entry[<<c, t>>].key, IdentityMap[t])
                        /\ Sourced(k, t, NoBatch)' \/ Reported(t)' \/ BeingWritten(t)'
      BY <1>1 DEF ApprovedInv
    <3>1. KeyOf(entry[<<c, t>>].key, IdentityMap[t])
      BY <1>0 DEF ApprovedInv
    <3>2. CASE t = s
      BY <2>1, <3>1, <3>2 DEF BeingWritten, Writing
    <3>3. CASE t # s
      BY <1>0, <1>2, <2>2, <2>3, <3>1, <3>3 DEF ApprovedInv
    <3> QED
      BY <3>2, <3>3
  <2> QED
    BY <1>0, <1>1, <2>4, <2>5, <2>6, FinAlone
<1> QED
  BY <1>3, <1>4 DEF FinWrites

(* A step of a finalizer that has written and goes on: what it writes back *)
(* later has been brought, as before.                                      *)
LEMMA WritingGoesOn ==
    ASSUME ReviewInv, NEW f \in Finalizers, FinStep(f), Writing(f), FinKeepsRow(f),
           fin'[f].before = fin[f].before,
           \A e \in Entries : e # FinRow(f) => entry'[e] = entry[e]
    PROVE  /\ RestoreInv(f)'
           /\ \A s \in Stores : \A k, b : Sourced(k, s, b) /\ <<b, s>> = FinRow(f)
                                             => Sourced(k, s, b)'
           /\ \A s \in Stores : \A k, b : Sourced(k, s, b) /\ s # fin[f].store
                                             => Sourced(k, s, b)'
<1>0. /\ TypeOK /\ RestoreInv(f) /\ [Next]_vars /\ ReceiptsInv /\ OpenRows /\ ConfigInv(f)
  BY DEF ReviewInv, ReceiptsInv, Next
<1>1. ASSUME NEW s \in Stores, NEW k, NEW b, Sourced(k, s, b), <<b, s>> = FinRow(f)
      PROVE  Sourced(k, s, b)'
  <2>1. \A c \in Batches \ {b} : entry'[<<c, s>>] = entry[<<c, s>>]
    BY <1>1 DEF FinRow, Entries
  <2> QED
    BY <1>0, <1>1, <2>1, SourcedStays
<1>2. ASSUME NEW s \in Stores, NEW k, NEW b, Sourced(k, s, b), s # fin[f].store
      PROVE  Sourced(k, s, b)'
  <2>1. \A c \in Batches : entry'[<<c, s>>] = entry[<<c, s>>]
    BY <1>2 DEF FinRow, Entries
  <2> QED
    BY <1>0, <1>2, <2>1, SourcedStays
<1>3. RestoreInv(f)'
  <2> SUFFICES ASSUME NEW s \in Stores, NEW b \in Batches, NEW k \in Keys \cup {NoKey},
                      fin[f].store = s, fin[f].batch = b, fin[f].before[s] = k,
                      \E c \in Batches \ {b} : entry'[<<c, s>>].status = "APPROVED"
               PROVE  Sourced(k, s, b)' \/ Reported(s)'
    BY DEF RestoreInv, FinKeepsRow
  <2>1. \E c \in Batches \ {b} : entry[<<c, s>>].status = "APPROVED"
    BY DEF FinRow, Entries
  <2>2. Sourced(k, s, b) \/ Reported(s)
    BY <1>0, <2>1 DEF RestoreInv
  <2>3. Reported(s) => Reported(s)'
    BY <1>0, ReportsStay
  <2> QED
    BY <1>1, <2>2, <2>3 DEF FinRow
<1> QED
  BY <1>1, <1>2, <1>3

(* A finalizer that changes its row, and goes on writing, keeps what is    *)
(* known of all approved rows.                                             *)
LEMMA RowChangeKeepsApproved ==
    ASSUME ReviewInv, LockIsExclusive, NEW f \in Finalizers, FinStep(f),
           Writing(f), Writing(f)', FinKeepsRow(f), fin'[f].before = fin[f].before,
           UNCHANGED config, \A e \in Entries : e # FinRow(f) => entry'[e] = entry[e],
           entry'[FinRow(f)].status = "APPROVED" =>
              KeyOf(entry'[FinRow(f)].key, IdentityMap[fin[f].store])
    PROVE  ApprovedInv'
<1>0. TypeOK /\ ApprovedInv /\ ConfigInv(f) /\ Critical(f)
  BY DEF ReviewInv, ReceiptsInv, Critical, Writing
<1> SUFFICES ASSUME NEW c \in Batches, NEW t \in Stores, NEW k \in Keys \cup {NoKey},
                    entry'[<<c, t>>].status = "APPROVED", config[t] = k
             PROVE  /\ KeyOf(entry'[<<c, t>>].key, IdentityMap[t])
                    /\ Sourced(k, t, NoBatch)' \/ Reported(t)' \/ BeingWritten(t)'
  BY DEF ApprovedInv, KeyOf
<1>1. CASE t = fin[f].store
  <2>1. KeyOf(entry'[<<c, t>>].key, IdentityMap[t])
    <3>1. CASE <<c, t>> = FinRow(f)
      BY <1>1, <3>1
    <3>2. CASE <<c, t>> # FinRow(f)
      BY <1>0, <3>2 DEF ApprovedInv, Entries
    <3> QED
      BY <3>1, <3>2
  <2>2. BeingWritten(t)'
    BY <1>1 DEF BeingWritten, FinKeepsRow
  <2> QED
    BY <2>1, <2>2
<1>2. CASE t # fin[f].store
  <2>1. entry'[<<c, t>>] = entry[<<c, t>>] /\ ~BeingWritten(t)
    BY <1>0, <1>2, FinAlone DEF FinRow, Entries
  <2>2. /\ KeyOf(entry[<<c, t>>].key, IdentityMap[t])
        /\ Sourced(k, t, NoBatch) \/ Reported(t)
    BY <1>0, <2>1 DEF ApprovedInv
  <2>3. Reported(t) => Reported(t)'
    BY <1>0, ReportsStay
  <2>4. Sourced(k, t, NoBatch) => Sourced(k, t, NoBatch)'
    BY <1>2, WritingGoesOn
  <2> QED
    BY <2>1, <2>2, <2>3, <2>4
<1> QED
  BY <1>1, <1>2

(* Approving: the store has the keys that a receipt of its supplier        *)
(* brought.                                                                *)
LEMMA FinApprovesKeepsReview ==
    ASSUME ReviewInv, LockIsExclusive, NEW f \in Finalizers, FinApproves(f)
    PROVE  ApprovedInv' /\ \A g \in Finalizers : ConfigInv(g)' /\ RestoreInv(g)'
<1>0. /\ TypeOK /\ ConfigInv(f) /\ FinStep(f) /\ entry \in [Entries -> Entry]
  BY DEF ReviewInv, ReceiptsInv, TypeOK, EntryType, FinStep
<1>1. /\ fin[f].pc = "approve" /\ Writing(f) /\ Critical(f) /\ UNCHANGED <<config, receipt>>
      /\ FinRow(f) \in Entries
  BY WritingFacts DEF FinApproves, Writing, FinRow, Entries
<1>2. CASE FinGoes(f, "undoConfig") /\ UNCHANGED entry
  <2>1. fin'[f].pc = "undoConfig" /\ FinKeepsRow(f) /\ fin'[f].before = fin[f].before
    BY <1>0, <1>2, FinMoves
  <2>2. ConfigInv(f)'
    BY <1>0, <1>1, <1>2, <2>1 DEF ConfigInv, FinKeepsRow, Writing
  <2>3. RestoreInv(f)' /\ LeavesKeys(f)
    BY <1>0, <1>1, <1>2, <2>1, WritingGoesOn DEF LeavesKeys, BeingWritten, Writing, FinKeepsRow
  <2> QED
    BY <1>0, <1>1, <1>2, <2>2, <2>3, FinQuietKeepsReview
<1>3. CASE /\ Approvable(f) /\ FinGoes(f, "dispose")
           /\ entry' = [entry EXCEPT ![FinRow(f)].status = "APPROVED",
                                     ![FinRow(f)].receipt = NoState,
                                     ![FinRow(f)].reviewer = f]
  <2>1. fin'[f].pc = "dispose" /\ FinKeepsRow(f) /\ fin'[f].before = fin[f].before
    BY <1>0, <1>3, FinMoves
  <2>2. /\ entry'[FinRow(f)].key = entry[FinRow(f)].key
        /\ \A e \in Entries : e # FinRow(f) => entry'[e] = entry[e]
    BY <1>0, <1>1, <1>3 DEF Entry
  <2>3. ConfigInv(f)'
    BY <1>0, <1>1, <2>1 DEF ConfigInv, FinKeepsRow, Writing
  <2>4. RestoreInv(f)'
    BY <1>0, <1>1, <2>1, <2>2, WritingGoesOn
  <2>5. KeyOf(entry'[FinRow(f)].key, IdentityMap[fin[f].store])
    BY <1>3, <2>2 DEF Approvable, FinRow
  <2>6. ApprovedInv'
    BY <1>0, <1>1, <2>1, <2>2, <2>5, RowChangeKeepsApproved DEF Writing
  <2> QED
    BY <1>0, <1>1, <2>3, <2>4, <2>6, FinAlone
<1> QED
  BY <1>2, <1>3 DEF FinApproves, FinRow

(* Taking the approval back, or reporting that it could not be.            *)
LEMMA FinUndoesApprovalKeepsReview ==
    ASSUME ReviewInv, LockIsExclusive, NEW f \in Finalizers, FinUndoesApproval(f)
    PROVE  ApprovedInv' /\ \A g \in Finalizers : ConfigInv(g)' /\ RestoreInv(g)'
<1>0. /\ TypeOK /\ ConfigInv(f) /\ FinStep(f) /\ entry \in [Entries -> Entry]
  BY DEF ReviewInv, ReceiptsInv, TypeOK, EntryType, FinStep
<1>1. /\ fin[f].pc = "undoApproval" /\ Writing(f) /\ Critical(f)
      /\ UNCHANGED <<config, receipt>> /\ FinRow(f) \in Entries
  BY WritingFacts DEF FinUndoesApproval, Writing, FinRow, Entries
<1>2. CASE FinRollsOn(f, "undoConfig", FALSE) /\ UNCHANGED entry
  <2>1. /\ fin'[f].pc = "undoConfig" /\ FinKeepsRow(f) /\ fin'[f].before = fin[f].before
        /\ fin'[f].bad
    BY <1>0, <1>2, FinMoves, FailureIsReported
  <2>2. ConfigInv(f)'
    BY <1>0, <1>1, <1>2, <2>1 DEF ConfigInv, FinKeepsRow, Writing
  <2>3. RestoreInv(f)' /\ LeavesKeys(f)
    BY <1>0, <1>1, <1>2, <2>1, WritingGoesOn DEF LeavesKeys, BeingWritten, Writing, FinKeepsRow
  <2> QED
    BY <1>0, <1>1, <1>2, <2>2, <2>3, FinQuietKeepsReview
<1>3. CASE /\ FinRollsOn(f, "undoConfig", TRUE)
           /\ entry' = [entry EXCEPT ![FinRow(f)].status = "REVIEW_REQUIRED",
                                     ![FinRow(f)].receipt = fin[f].receipt,
                                     ![FinRow(f)].reviewer = NoProcess]
  <2>1. fin'[f].pc = "undoConfig" /\ FinKeepsRow(f) /\ fin'[f].before = fin[f].before
    BY <1>0, <1>3, FinMoves
  <2>2. /\ entry'[FinRow(f)].status = "REVIEW_REQUIRED"
        /\ \A e \in Entries : e # FinRow(f) => entry'[e] = entry[e]
    BY <1>0, <1>1, <1>3 DEF Entry
  <2>3. ConfigInv(f)'
    BY <1>0, <1>1, <2>1, <2>2 DEF ConfigInv, FinKeepsRow, FinRow, Writing
  <2>4. RestoreInv(f)'
    BY <1>0, <1>1, <2>1, <2>2, WritingGoesOn
  <2>5. ApprovedInv'
    BY <1>0, <1>1, <2>1, <2>2, RowChangeKeepsApproved DEF Writing
  <2> QED
    BY <1>0, <1>1, <2>3, <2>4, <2>5, FinAlone
<1> QED
  BY <1>2, <1>3 DEF FinUndoesApproval, FinRow

(* Restoring what was read gives every approved row's store keys that its  *)
(* own callback brought: other stores have what they had, and the store    *)
(* too, unless the failure to take its approval back has been reported.    *)
LEMMA FinUndoesConfigKeepsReview ==
    ASSUME ReviewInv, LockIsExclusive, NEW f \in Finalizers, FinUndoesConfig(f)
    PROVE  ApprovedInv' /\ \A g \in Finalizers : ConfigInv(g)' /\ RestoreInv(g)'
<1>0. /\ TypeOK /\ ApprovedInv /\ ConfigInv(f) /\ RestoreInv(f) /\ FinStep(f)
      /\ [Next]_vars /\ ReceiptsInv /\ OpenRows
  BY DEF ReviewInv, ReceiptsInv, FinStep, Next
<1>1. /\ fin[f].pc = "undoConfig" /\ Writing(f) /\ Critical(f) /\ UNCHANGED entry
      /\ fin[f].store \in Stores /\ fin[f].batch \in Batches
  BY WritingFacts DEF FinUndoesConfig, Writing, fileVars
<1>2. /\ \A t : Reported(t) => Reported(t)'
      /\ \A t \in Stores : \A k, b : Sourced(k, t, b) => Sourced(k, t, b)'
  BY <1>0, <1>1, ReportsStay, SourcedStays
<1>3. PICK ok \in BOOLEAN : /\ FinRollsOn(f, "undoReceipt", ok)
                            /\ IF ok THEN config' = fin[f].before ELSE config' = config
  BY DEF FinUndoesConfig
<1>4. fin'[f].pc = "undoReceipt" /\ FinKeepsRow(f)
  BY <1>0, <1>3, FinMoves
<1>5. ConfigInv(f)' /\ RestoreInv(f)'
  BY <1>4 DEF ConfigInv, RestoreInv, Writing
<1>6. CASE ~ok
  <2>1. fin'[f].bad
    BY <1>0, <1>3, <1>6, FailureIsReported
  <2>2. LeavesKeys(f)
    BY <1>4, <2>1 DEF LeavesKeys, Reported, FinKeepsRow
  <2> QED
    BY <1>0, <1>1, <1>3, <1>5, <1>6, <2>2, FinQuietKeepsReview
<1>7. CASE ok
  <2> SUFFICES ASSUME NEW c \in Batches, NEW t \in Stores, NEW k \in Keys \cup {NoKey},
                      entry[<<c, t>>].status = "APPROVED", fin[f].before[t] = k
               PROVE  /\ KeyOf(entry[<<c, t>>].key, IdentityMap[t])
                      /\ Sourced(k, t, NoBatch)' \/ Reported(t)' \/ BeingWritten(t)'
    BY <1>0, <1>1, <1>3, <1>5, <1>7, FinAlone DEF ApprovedInv
  <2>0. config \in [Stores -> Keys \cup {NoKey}]
    BY <1>0 DEF TypeOK, ReviewType
  <2>1. KeyOf(entry[<<c, t>>].key, IdentityMap[t])
    BY <1>0, <2>0 DEF ApprovedInv
  <2>2. CASE t # fin[f].store
    <3>1. config[t] = k /\ ~BeingWritten(t)
      BY <1>0, <1>1, <2>2, FinAlone DEF ConfigInv
    <3> QED
      BY <1>0, <1>2, <2>1, <3>1 DEF ApprovedInv
  <2>3. CASE t = fin[f].store /\ c # fin[f].batch
    <3> PICK b \in Batches : b = fin[f].batch
      BY <1>1
    <3>1. Sourced(k, t, b) \/ Reported(t)
      BY <1>0, <1>1, <2>3 DEF RestoreInv
    <3>2. Sourced(k, t, b) => Sourced(k, t, NoBatch)
      BY AuthorizationAssumption DEF Sourced, Source
    <3> QED
      BY <1>2, <2>1, <3>1, <3>2
  <2>4. CASE t = fin[f].store /\ c = fin[f].batch
    <3>1. Reported(t)
      BY <1>0, <1>1, <2>4 DEF ConfigInv, Reported
    <3> QED
      BY <1>2, <2>1, <3>1
  <2> QED
    BY <2>2, <2>3, <2>4
<1> QED
  BY <1>6, <1>7

(* A finalizer that dies, or disposes of the receipt it holds, leaves the  *)
(* store a key that the receipt brought.                                   *)
LEMMA LeftKeysAreSourced ==
    ASSUME ReviewInv, NEW f \in Finalizers, FinDisposes(f) \/ FinDies(f),
           ~FinHolds(f)'
    PROVE  LeavesKeys(f)
<1>0. /\ TypeOK /\ HoldersInv /\ FinInv(f) /\ FinStep(f) /\ receipt \in [States -> Receipt]
  BY DEF ReviewInv, ReceiptsInv, TypeOK, ReceiptType, FinStep
<1> SUFFICES ASSUME NEW s \in Stores, NEW k \in Keys \cup {NoKey},
                    Writing(f), fin[f].store = s, config[s] = k
             PROVE  Sourced(k, s, NoBatch)'
  BY DEF LeavesKeys
<1> PICK x \in States, b \in Batches : x = fin[f].receipt /\ b = fin[f].batch
  BY WritingFacts
<1>1. /\ FinHolds(f) /\ Completed(x, <<b, s>>) /\ receipt[x].key = k
      /\ receipt[x].place = "isolated" /\ KeyOf(k, IdentityMap[s])
  BY WritingFacts DEF FinRow
<1>2. /\ UNCHANGED <<state, rej, entry>>
      /\ \A g \in Finalizers \ {f} : fin'[g] = fin[g]
  BY <1>0, FinEffects DEF FinDisposes, FinDies, fileVars
<1>3. /\ receipt'[x].key = k
      /\ \/ receipt'[x].place = "isolated"
         \/ receipt'[x].place = "gone" /\ fin[f].pc = "dispose"
  BY <1>0, <1>1 DEF FinDisposes, FinDies, Receipt
<1>4. fin[f].pc = "dispose" => entry[<<b, s>>].status = "APPROVED"
  BY <1>0 DEF FinInv
<1>5. Unheld(x)'
  BY <1>0, <1>1, <1>2 DEF Unheld, HoldersInv, FinHolds, RejHolds
<1>6. Completed(x, <<b, s>>)'
  BY <1>1, <1>2 DEF Completed, RowOf
<1>7. Source(x, b, k, s, NoBatch)'
  BY <1>1, <1>2, <1>3, <1>4, <1>5, <1>6, AuthorizationAssumption DEF Source
<1> QED
  BY <1>7 DEF Sourced

(* The other steps write neither: reading records the configuration as it  *)
(* is, for a row that is not approved.                                     *)
LEMMA FinOthersKeepReview ==
    ASSUME ReviewInv, LockIsExclusive, NEW f \in Finalizers,
           \/ \E s \in Stores : FinLocks(f, s)
           \/ FinReaps(f) \/ FinReads(f) \/ FinIsolates(f) \/ FinDisposes(f)
           \/ FinUndoesReceipt(f) \/ FinReleases(f) \/ FinDies(f)
    PROVE  ApprovedInv' /\ \A g \in Finalizers : ConfigInv(g)' /\ RestoreInv(g)'
<1>0. /\ TypeOK /\ ConfigInv(f) /\ RestoreInv(f) /\ FinInv(f) /\ FinStep(f)
      /\ UNCHANGED <<config, entry>>
      /\ fin \in [Finalizers -> FinProcess] /\ fin[f] \in FinMemory
  BY DEF ReviewInv, ReceiptsInv, TypeOK, ReviewType, FinStep, FinProcess, fileVars,
      FinLocks, FinReaps, FinReads, FinIsolates, FinDisposes, FinUndoesReceipt,
      FinReleases, FinDies
<1> SUFFICES ConfigInv(f)' /\ RestoreInv(f)' /\ LeavesKeys(f)
  BY <1>0, FinQuietKeepsReview
<1>1. ~Writing(f) => LeavesKeys(f)
  BY DEF LeavesKeys
<1>2. ASSUME fin'[f].pc \in {"read", "reap", "lock", "release", "done", "dead"}
      PROVE  ConfigInv(f)' /\ RestoreInv(f)' /\ ~FinHolds(f)'
  BY <1>2 DEF ConfigInv, RestoreInv, Writing, FinHolds
<1>3. ASSUME NEW s \in Stores, FinLocks(f, s)
      PROVE  ConfigInv(f)' /\ RestoreInv(f)' /\ LeavesKeys(f)
  <2>1. ~Writing(f)
    BY <1>3 DEF FinLocks, Writing
  <2>2. CASE FinEnds(f, "done")
    BY <1>0, <1>1, <1>2, <2>1, <2>2, FinStops
  <2>3. CASE ~FinEnds(f, "done")
    <3>1. fin'[f].pc \in {"read", "reap"}
      BY <1>0, <1>3, <2>3 DEF FinLocks, FinMemory
    <3> QED
      BY <1>1, <1>2, <2>1, <3>1
  <2> QED
    BY <2>2, <2>3
<1>4. CASE FinReaps(f) \/ FinUndoesReceipt(f)
  <2>1. /\ ~Writing(f)
        /\ \E pc \in {"lock", "release"} :
              FinGoes(f, pc) \/ \E ok \in BOOLEAN : FinRollsOn(f, pc, ok)
    BY <1>4 DEF FinReaps, FinUndoesReceipt, Writing
  <2> QED
    BY <1>0, <1>1, <1>2, <2>1, FinMoves
<1>5. CASE FinReleases(f)
  <2>1. ~Writing(f) /\ FinEnds(f, "done")
    BY <1>5 DEF FinReleases, Writing
  <2> QED
    BY <1>0, <1>1, <1>2, <2>1, FinStops
<1>6. CASE FinDies(f)
  <2>1. ConfigInv(f)' /\ RestoreInv(f)' /\ ~FinHolds(f)'
    BY <1>0, <1>2, <1>6, FinStops DEF FinDies
  <2> QED
    BY <1>6, <2>1, LeftKeysAreSourced
<1>7. CASE FinReads(f)
  <2>1. ~Writing(f)
    BY <1>7 DEF FinReads, Writing
  <2>2. CASE FinGoes(f, "release")
    BY <1>0, <1>1, <1>2, <2>1, <2>2, FinMoves
  <2>3. CASE ~FinGoes(f, "release")
    <3> DEFINE s == fin[f].store
    <3>1. PICK b \in Batches :
            /\ Reviewable(s) = {b}
            /\ fin' = [fin EXCEPT ![f].pc = "isolate", ![f].batch = b,
                                  ![f].receipt = entry[<<b, s>>].receipt,
                                  ![f].before = config]
      BY <1>7, <2>3 DEF FinReads
    <3>2. /\ fin'[f].pc = "isolate" /\ fin'[f].batch = b /\ fin'[f].store = s
          /\ fin'[f].before = config
      BY <1>0, <3>1 DEF FinMemory
    <3>3. entry[<<b, s>>].status = "REVIEW_REQUIRED"
      BY <3>1 DEF Reviewable
    <3> QED
      BY <1>0, <1>1, <2>1, <3>2, <3>3 DEF ConfigInv, RestoreInv, Writing
  <2> QED
    BY <2>2, <2>3
<1>8. CASE FinIsolates(f)
  <2>1. ~Writing(f)
    BY <1>8 DEF FinIsolates, Writing
  <2>2. CASE FinGoes(f, "release")
    BY <1>0, <1>1, <1>2, <2>1, <2>2, FinMoves
  <2>3. CASE FinGoes(f, "write")
    <3>1. /\ fin'[f].pc = "write" /\ FinKeepsRow(f) /\ fin'[f].before = fin[f].before
          /\ fin[f].pc = "isolate"
      BY <1>0, <1>8, <2>3, FinMoves DEF FinIsolates
    <3> QED
      BY <1>0, <1>1, <2>1, <3>1 DEF ConfigInv, RestoreInv, Writing, FinKeepsRow
  <2> QED
    BY <1>8, <2>2, <2>3 DEF FinIsolates
<1>9. CASE FinDisposes(f)
  <2>1. CASE FinGoes(f, "release")
    <3>1. ConfigInv(f)' /\ RestoreInv(f)' /\ ~FinHolds(f)'
      BY <1>0, <1>2, <2>1, FinMoves
    <3> QED
      BY <1>9, <3>1, LeftKeysAreSourced
  <2>2. CASE FinGoes(f, "undoApproval") /\ UNCHANGED receipt
    <3>1. /\ fin'[f].pc = "undoApproval" /\ FinKeepsRow(f)
          /\ fin'[f].before = fin[f].before /\ fin[f].pc = "dispose" /\ Writing(f)
      BY <1>0, <1>9, <2>2, FinMoves DEF FinDisposes, Writing
    <3>2. ConfigInv(f)'
      BY <1>0, <2>2, <3>1 DEF ConfigInv, FinKeepsRow, Writing
    <3>3. RestoreInv(f)'
      BY <1>0, <3>1, WritingGoesOn
    <3>4. LeavesKeys(f)
      BY <3>1 DEF LeavesKeys, BeingWritten, Writing, FinKeepsRow
    <3> QED
      BY <3>2, <3>3, <3>4
  <2> QED
    BY <1>9, <2>1, <2>2 DEF FinDisposes
<1> QED
  BY <1>3, <1>4, <1>5, <1>6, <1>7, <1>8, <1>9

(* Every step keeps what is known of approvals and the configuration.      *)
LEMMA ReviewStep == ReviewInv /\ LockIsExclusive /\ [Next]_vars => ReviewInv'
<1> SUFFICES ASSUME ReviewInv, LockIsExclusive, [Next]_vars PROVE ReviewInv'
  OBVIOUS
<1>1. ReceiptsInv' /\ OpenRows'
  BY ReceiptsStep, OpenRowsStep DEF ReviewInv, ReceiptsInv
<1>2. ASSUME NEW f \in Finalizers, FinStep(f)
      PROVE  ApprovedInv' /\ \A g \in Finalizers : ConfigInv(g)' /\ RestoreInv(g)'
  BY <1>2, FinOthersKeepReview, FinWritesKeepsReview, FinApprovesKeepsReview,
     FinUndoesApprovalKeepsReview, FinUndoesConfigKeepsReview DEF FinStep
<1>3. ApprovedInv' /\ \A g \in Finalizers : ConfigInv(g)' /\ RestoreInv(g)'
  BY <1>2, OthersKeepReview DEF Next
<1> QED
  BY <1>1, <1>3 DEF ReviewInv

(* In the beginning nothing is approved and no finalizer runs.             *)
LEMMA InitReview == Init => ReviewInv
<1> SUFFICES ASSUME Init PROVE ReviewInv
  OBVIOUS
<1>1. \A f \in Finalizers : fin[f].pc = "idle" /\ ~fin[f].bad
  BY DEF Init, FinAt
<1>2. ApprovedInv
  BY DEF Init, ApprovedInv, Entries
<1>3. \A f \in Finalizers : ConfigInv(f) /\ RestoreInv(f)
  BY <1>1 DEF ConfigInv, RestoreInv, Writing
<1> QED
  BY <1>2, <1>3, ReceiptsStart DEF ReviewInv

(* As long as one finalizer at a time works under the lock, an approved    *)
(* store runs on a key of the approved account that one of its callbacks   *)
(* brought and a review took out of the way - and not on keys that were    *)
(* put back under review, rejected or rolled back - and what is under      *)
(* review can be finished: through every failed step and crash of any      *)
(* number of finalizers, rejecters and callbacks.                          *)
THEOREM ReviewIsSafe == Spec /\ []LockIsExclusive => []ReviewSafety
<1>1. ReviewInv => ReviewSafety
  <2> SUFFICES ASSUME ReviewInv PROVE ReviewKeepsReceipt /\ ApprovedMeansConfigured
    BY DEF ReviewSafety
  <2>0. TypeOK /\ ApprovedInv
    BY DEF ReviewInv, ReceiptsInv
  <2>1. ReviewKeepsReceipt
    BY DEF ReviewInv, ReceiptsInv, RowsInv, ReviewKeepsReceipt, Completed
  <2>2. ASSUME NEW c \in Batches, NEW s \in Stores, entry[<<c, s>>].status = "APPROVED"
        PROVE  \/ KeyOf(entry[<<c, s>>].key, IdentityMap[s]) /\ Provided(config[s], s)
               \/ \E f \in Finalizers : fin[f].store = s /\ fin[f].bad
    <3> PICK k \in Keys \cup {NoKey} : k = config[s]
      BY <2>0 DEF TypeOK, ReviewType
    <3>1. /\ KeyOf(entry[<<c, s>>].key, IdentityMap[s])
          /\ Sourced(k, s, NoBatch) \/ Reported(s) \/ BeingWritten(s)
      BY <2>0, <2>2 DEF ApprovedInv
    <3>2. Sourced(k, s, NoBatch) => Provided(k, s)
      BY DEF Sourced, Source, Provided
    <3>3. ASSUME NEW f \in Finalizers, Writing(f), fin[f].store = s
          PROVE  Provided(k, s)
      BY <3>3, WritingFacts DEF Provided, FinRow
    <3> QED
      BY <3>1, <3>2, <3>3 DEF Reported, BeingWritten
  <2>3. ApprovedMeansConfigured
    BY <2>2 DEF ApprovedMeansConfigured, Entries
  <2> QED
    BY <2>1, <2>3
<1> QED
  BY <1>1, ReviewStep, InitReview, PTL DEF Spec

(* Only the finalizer of a store changes its credentials, as long as one   *)
(* finalizer at a time works under the lock.                               *)
THEOREM OtherStoresAreKept ==
    Spec /\ []LockIsExclusive => FinalizersKeepOtherStores
<1> DEFINE OwnOnly == \A s \in Stores : config'[s] # config[s] =>
                      \E f \in Finalizers : fin[f].store = s /\ fin'[f].pc # fin[f].pc
<1>1. ASSUME ReviewInv, LockIsExclusive, [Next]_vars PROVE OwnOnly
  <2>0. TypeOK /\ CallbackInv /\ OpenRows
    BY <1>1 DEF ReviewInv, ReceiptsInv
  <2>1. CASE UNCHANGED config
    BY <2>1
  <2>2. ASSUME NEW f \in Finalizers, FinStep(f), ~UNCHANGED config PROVE OwnOnly
    <3>0. /\ ConfigInv(f) /\ fin \in [Finalizers -> FinProcess] /\ fin[f] \in FinMemory
          /\ config \in [Stores -> Keys \cup {NoKey}]
      BY <1>1, <2>0 DEF ReviewInv, TypeOK, ReviewType, FinProcess
    <3>1. CASE FinWrites(f)
      <4>1. /\ config' = [fin[f].before EXCEPT ![fin[f].store] = receipt[fin[f].receipt].key]
            /\ fin' = [fin EXCEPT ![f].pc = "approve", ![f].before = config]
            /\ fin[f].pc = "write"
        BY <2>2, <3>1 DEF FinWrites
      <4>2. fin'[f].pc = "approve" /\ fin[f].before = config
        BY <3>0, <4>1 DEF FinMemory, ConfigInv
      <4> QED
        BY <3>0, <4>1, <4>2
    <3>2. CASE FinUndoesConfig(f)
      <4>1. /\ config' = fin[f].before /\ fin[f].pc = "undoConfig"
            /\ FinRollsOn(f, "undoReceipt", TRUE)
        BY <2>2, <3>2 DEF FinUndoesConfig
      <4>2. fin'[f].pc = "undoReceipt"
        BY <2>0, <4>1, FinMoves
      <4> QED
        BY <3>0, <4>1, <4>2 DEF ConfigInv, Writing
    <3> QED
      BY <2>2, <3>1, <3>2 DEF FinStep, FinLocks, FinReaps, FinReads, FinIsolates,
          FinApproves, FinDisposes, FinUndoesApproval, FinUndoesReceipt, FinReleases,
          FinDies
  <2> QED
    BY <1>1, <2>0, <2>1, <2>2, OthersApproveNothing DEF Next
<1>2. ReviewInv /\ LockIsExclusive /\ [Next]_vars => ReviewInv'
  BY ReviewStep
<1>3. ReviewInv /\ LockIsExclusive /\ [Next]_vars => [OwnOnly]_vars
  BY <1>1
<1> HIDE DEF OwnOnly
<1>4. Spec /\ []LockIsExclusive => [][OwnOnly]_vars
  BY <1>2, <1>3, InitReview, PTL DEF Spec
<1> QED
  BY <1>4 DEF OwnOnly, FinalizersKeepOtherStores

(* What a rollback has done by the time only the receipt is left to be put *)
(* back: without a failure, the store's configuration is what was read and *)
(* the row is not approved.                                                *)
UndoneInv(f) ==
    fin[f].pc = "undoReceipt" /\ ~fin[f].bad =>
        /\ config[fin[f].store] = fin[f].before[fin[f].store]
        /\ entry[FinRow(f)].status # "APPROVED"

(* Reading ends in the step that isolates, or in releasing the lock.       *)
LEMMA ReadsGoOn ==
    ASSUME TypeOK, NEW f \in Finalizers, FinReads(f)
    PROVE  fin'[f].pc \in {"isolate", "release"}
<1>1. CASE FinGoes(f, "release")
  BY <1>1, FinMoves
<1>2. CASE ~FinGoes(f, "release")
  <2>1. fin \in [Finalizers -> FinProcess] /\ fin[f] \in FinMemory
    BY DEF TypeOK, ReviewType, FinProcess
  <2>2. PICK b \in Batches :
          fin' = [fin EXCEPT ![f].pc = "isolate", ![f].batch = b,
                             ![f].receipt = entry[<<b, fin[f].store>>].receipt,
                             ![f].before = config]
    BY <1>2 DEF FinReads
  <2> QED
    BY <2>1, <2>2 DEF FinMemory
<1> QED
  BY <1>1, <1>2

(* A finalizer's own rollback, and nobody else, brings it there.           *)
LEMMA UndoneStep ==
    ASSUME ReviewInv, LockIsExclusive, [Next]_vars,
           NEW f \in Finalizers, UndoneInv(f)
    PROVE  UndoneInv(f)'
<1>0. /\ TypeOK /\ CallbackInv /\ OpenRows /\ ConfigInv(f) /\ FinInv(f)
      /\ fin \in [Finalizers -> FinProcess] /\ fin[f] \in FinMemory
  BY DEF ReviewInv, ReceiptsInv, TypeOK, ReviewType, FinProcess
<1>1. CASE StateFileStep \/ (\E r \in Rejecters : RejStep(r)) \/ UNCHANGED vars
  <2>1. /\ fin'[f] = fin[f] /\ config' = config
        /\ \A e \in Entries : entry'[e].status = "APPROVED" => entry'[e] = entry[e]
    BY <1>0, <1>1, OthersApproveNothing
  <2>2. fin[f].pc = "undoReceipt" => FinRow(f) \in Entries
    BY <1>0 DEF FinInv, FinHolds, FinRow
  <2> QED
    BY <2>1, <2>2 DEF UndoneInv, FinRow
<1>2. ASSUME NEW g \in Finalizers \ {f}, FinStep(g) PROVE UndoneInv(f)'
  <2>1. fin'[f] = fin[f]
    BY <1>0, <1>2, FinEffects
  <2>2. CASE fin[f].pc = "undoReceipt"
    <3>1. ~Critical(g)
      BY <2>2 DEF LockIsExclusive, Critical
    <3>2. UNCHANGED <<config, entry>>
      BY <1>2, <3>1 DEF Critical, FinStep, FinLocks, FinReaps, FinReads, FinIsolates,
          FinWrites, FinApproves, FinDisposes, FinUndoesApproval, FinUndoesConfig,
          FinUndoesReceipt, FinReleases, FinDies, fileVars
    <3> QED
      BY <2>1, <3>2 DEF UndoneInv, FinRow
  <2> QED
    BY <2>1, <2>2 DEF UndoneInv
<1>3. CASE FinWrites(f)
  <2>1. CASE FinGoes(f, "undoReceipt") /\ UNCHANGED config
    <3>1. /\ FinKeepsRow(f) /\ fin'[f].before = fin[f].before /\ UNCHANGED entry
          /\ fin[f].pc = "write"
      BY <1>0, <1>3, <2>1, FinMoves DEF FinWrites, fileVars
    <3> QED
      BY <1>0, <2>1, <3>1 DEF UndoneInv, ConfigInv, FinRow, FinKeepsRow
  <2>2. CASE fin' = [fin EXCEPT ![f].pc = "approve", ![f].before = config]
    <3>1. fin'[f].pc = "approve"
      BY <1>0, <2>2 DEF FinMemory
    <3> QED
      BY <3>1 DEF UndoneInv
  <2> QED
    BY <1>3, <2>1, <2>2 DEF FinWrites
<1>4. CASE FinUndoesConfig(f)
  <2>1. CASE FinRollsOn(f, "undoReceipt", FALSE)
    BY <1>0, <2>1, FailureIsReported DEF UndoneInv
  <2>2. CASE FinRollsOn(f, "undoReceipt", TRUE) /\ config' = fin[f].before
    <3>1. /\ FinKeepsRow(f) /\ fin'[f].before = fin[f].before /\ UNCHANGED entry
          /\ fin[f].pc = "undoConfig" /\ (fin[f].bad => fin'[f].bad)
      BY <1>0, <1>4, <2>2, FinMoves DEF FinUndoesConfig, fileVars
    <3> QED
      BY <1>0, <2>2, <3>1 DEF UndoneInv, ConfigInv, FinRow, FinKeepsRow
  <2> QED
    BY <1>4, <2>1, <2>2 DEF FinUndoesConfig
<1>5. CASE FinReaps(f) \/ FinIsolates(f) \/ FinApproves(f) \/ FinDisposes(f) \/ FinDies(f)
           \/ FinUndoesApproval(f) \/ FinUndoesReceipt(f) \/ FinReleases(f)
  <2>1. \E pc \in (FinSteps \cup Ended) \ {"undoReceipt"} :
          FinGoes(f, pc) \/ (\E ok \in BOOLEAN : FinRollsOn(f, pc, ok)) \/ FinEnds(f, pc)
    BY <1>5 DEF FinReaps, FinIsolates, FinApproves, FinDisposes, FinUndoesApproval,
       FinUndoesReceipt, FinReleases, FinDies, FinSteps, Ended
  <2>2. fin'[f].pc # "undoReceipt"
    BY <1>0, <2>1, FinMoves, FinStops
  <2> QED
    BY <2>2 DEF UndoneInv
<1>6. CASE FinReads(f)
  BY <1>0, <1>6, ReadsGoOn DEF UndoneInv
<1>7. ASSUME NEW s \in Stores, FinLocks(f, s) PROVE UndoneInv(f)'
  <2>1. CASE FinEnds(f, "done")
    BY <1>0, <2>1, FinStops DEF UndoneInv
  <2>2. CASE ~FinEnds(f, "done")
    <3>1. fin'[f].pc \in {"read", "reap"}
      BY <1>0, <1>7, <2>2 DEF FinLocks, FinMemory
    <3> QED
      BY <3>1 DEF UndoneInv
  <2> QED
    BY <2>1, <2>2
<1> QED
  BY <1>1, <1>2, <1>3, <1>4, <1>5, <1>6, <1>7 DEF Next, FinStep

(* "finalization failed and was fully rolled back" is true when it is      *)
(* reported, as long as one finalizer at a time works under the lock.      *)
THEOREM RollbacksAreComplete == Spec /\ []LockIsExclusive => RollbackIsComplete
<1> DEFINE Undone == \A f \in Finalizers : UndoneInv(f)
           Complete == \A f \in Finalizers :
              fin[f].pc = "undoReceipt" /\ fin'[f].pc = "release" /\ ~fin'[f].bad =>
                 /\ config'[fin[f].store] = fin[f].before[fin[f].store]
                 /\ receipt'[fin[f].receipt].place = "file"
                 /\ entry'[<<fin[f].batch, fin[f].store>>].status # "APPROVED"
<1>1. Init => Undone
  BY DEF Init, FinAt, UndoneInv
<1>2. ReviewInv /\ LockIsExclusive /\ Undone /\ [Next]_vars => Undone'
  BY UndoneStep
<1>3. ASSUME ReviewInv, LockIsExclusive, Undone, [Next]_vars PROVE Complete
  <2> SUFFICES ASSUME NEW f \in Finalizers, fin[f].pc = "undoReceipt",
                      fin'[f].pc = "release", ~fin'[f].bad
               PROVE  /\ config'[fin[f].store] = fin[f].before[fin[f].store]
                      /\ receipt'[fin[f].receipt].place = "file"
                      /\ entry'[<<fin[f].batch, fin[f].store>>].status # "APPROVED"
    OBVIOUS
  <2>0. /\ TypeOK /\ CallbackInv /\ OpenRows /\ FinInv(f) /\ UndoneInv(f)
        /\ receipt \in [States -> Receipt]
    BY <1>3 DEF ReviewInv, ReceiptsInv, TypeOK, ReceiptType
  <2>1. ~(StateFileStep \/ (\E r \in Rejecters : RejStep(r)) \/ UNCHANGED vars)
    BY <1>3, <2>0, OthersApproveNothing
  <2>2. FinStep(f)
    BY <1>3, <2>0, <2>1, FinEffects DEF Next
  <2>3. FinUndoesReceipt(f)
    <3>1. ~FinEnds(f, "dead")
      BY <2>0, FinStops
    <3> QED
      BY <2>2, <3>1 DEF FinStep, FinLocks, FinReaps, FinReads, FinIsolates, FinWrites,
          FinApproves, FinDisposes, FinUndoesApproval, FinUndoesConfig, FinReleases,
          FinDies
  <2>4. FinRollsOn(f, "release", TRUE) /\ fin[f].receipt \in States
        /\ receipt' = [receipt EXCEPT ![fin[f].receipt].place = "file"]
    BY <2>0, <2>3, FailureIsReported DEF FinUndoesReceipt, FinInv, FinHolds, Completed
  <2>5. ~fin[f].bad /\ UNCHANGED <<config, entry>>
    BY <2>0, <2>3, <2>4, FinMoves DEF FinUndoesReceipt, fileVars
  <2> QED
    BY <2>0, <2>4, <2>5 DEF UndoneInv, FinRow, Receipt
<1>4. ReviewInv /\ LockIsExclusive /\ [Next]_vars => ReviewInv'
  BY ReviewStep
<1>5. ReviewInv /\ LockIsExclusive /\ Undone /\ [Next]_vars => [Complete]_vars
  BY <1>3
<1> HIDE DEF Undone, Complete
<1>6. Spec /\ []LockIsExclusive => [][Complete]_vars
  BY <1>1, <1>2, <1>4, <1>5, InitReview, PTL DEF Spec
<1> QED
  BY <1>6 DEF Complete, RollbackIsComplete

-----------------------------------------------------------------------------
(* The lock directory keeps finalizers apart as long as no two of them are *)
(* at once between finding a dead owner in it (reapStaleLock reads its     *)
(* process number) and renaming it away.  Otherwise the slower one renames *)
(* the directory that the faster one has made since.                       *)
OneReaper ==
    \A f, g \in Finalizers : fin[f].pc = "reap" /\ fin[g].pc = "reap" => f = g

LockInv ==
    /\ \A f \in Finalizers : Critical(f) => lock = f
    /\ \A f \in Finalizers : fin[f].pc = "reap" =>
          lock \in Finalizers /\ fin[lock].pc = "dead"

(* A finalizer that leaves the lock alone and does not begin to reap.      *)
LEMMA LockStays ==
    ASSUME LockInv, NEW f \in Finalizers, UNCHANGED lock,
           \A g \in Finalizers \ {f} : fin'[g] = fin[g],
           fin[f].pc # "dead", fin'[f].pc # "reap", Critical(f)' => Critical(f)
    PROVE  LockInv'
BY DEF LockInv, Critical

(* Nobody else is at the lock while one finalizer moves a dead owner's     *)
(* directory away.                                                         *)
LEMMA ReapsAlone ==
    ASSUME OneReaper, TypeOK, LockInv, NEW f \in Finalizers, FinReaps(f)
    PROVE  LockInv'
<1>1. /\ fin[f].pc = "reap" /\ fin'[f].pc = "lock"
      /\ \A g \in Finalizers \ {f} : fin'[g] = fin[g]
  BY FinMoves DEF FinReaps
<1>2. \A g \in Finalizers : fin[g].pc = "reap" => g = f
  BY <1>1 DEF OneReaper
<1>3. \A g \in Finalizers : ~Critical(g)
  BY <1>1 DEF LockInv, Critical
<1> QED
  BY <1>1, <1>2, <1>3 DEF LockInv, Critical

(* The lock's owner is the one in the critical steps.                      *)
LEMMA LockStep ==
    ASSUME OneReaper, TypeOK, LockInv, [Next]_vars PROVE LockInv'
<1>0. /\ fin \in [Finalizers -> FinProcess] /\ lock \in Finalizers \cup {NoProcess}
      /\ \A f \in Finalizers : fin[f] \in FinMemory
      /\ NoProcess \notin Finalizers
  BY AuthorizationAssumption DEF TypeOK, ReviewType, FinProcess
<1>1. CASE UNCHANGED <<fin, lock>>
  BY <1>1 DEF LockInv, Critical
<1>2. ASSUME NEW f \in Finalizers, FinStep(f) PROVE LockInv'
  <2>0. \A g \in Finalizers \ {f} : fin'[g] = fin[g]
    BY <1>2, FinEffects
  <2>1. ASSUME Critical(f), Critical(f)', UNCHANGED lock PROVE LockInv'
    <3>1. fin[f].pc # "dead" /\ fin'[f].pc # "reap"
      BY <2>1 DEF Critical
    <3> QED
      BY <2>0, <2>1, <3>1, LockStays
  <2>2. ASSUME NEW s \in Stores, FinLocks(f, s) PROVE LockInv'
    <3>1. fin[f].pc \in {"idle", "lock"}
      BY <2>2 DEF FinLocks
    <3>2. CASE lock = NoProcess
      <4>1. lock' = f /\ fin'[f].pc = "read"
        BY <1>0, <2>2, <3>2 DEF FinLocks, FinMemory
      <4>2. \A g \in Finalizers : ~Critical(g) /\ fin[g].pc # "reap"
        BY <1>0, <3>2 DEF LockInv
      <4> QED
        BY <2>0, <4>1, <4>2 DEF LockInv, Critical
    <3>3. CASE lock # NoProcess /\ fin[lock].pc = "dead"
      <4>1. UNCHANGED lock /\ fin'[f].pc = "reap" /\ lock \in Finalizers \ {f}
        BY <1>0, <2>2, <3>1, <3>3 DEF FinLocks, FinMemory
      <4>2. fin'[lock].pc = "dead"
        BY <2>0, <3>3, <4>1
      <4> QED
        BY <2>0, <4>1, <4>2 DEF LockInv, Critical
    <3>4. CASE lock # NoProcess /\ fin[lock].pc # "dead"
      <4>1. UNCHANGED lock /\ fin'[f].pc = "done"
        BY <1>0, <2>2, <3>4, FinStops DEF FinLocks
      <4> QED
        BY <2>0, <3>1, <4>1, LockStays DEF Critical
    <3> QED
      BY <3>2, <3>3, <3>4
  <2>3. CASE FinReaps(f)
    BY <2>3, ReapsAlone
  <2>4. CASE FinReleases(f)
    <3>1. /\ lock = f /\ lock' = NoProcess /\ fin[f].pc = "release" /\ fin'[f].pc = "done"
      BY <2>4, FinStops DEF FinReleases, LockInv, Critical
    <3>2. \A g \in Finalizers \ {f} : ~Critical(g) /\ fin[g].pc # "reap"
      BY <3>1 DEF LockInv
    <3> QED
      BY <2>0, <3>1, <3>2 DEF LockInv, Critical
  <2>5. CASE FinDies(f)
    <3>1. UNCHANGED lock /\ fin[f].pc # "dead" /\ fin'[f].pc = "dead"
      BY <2>5, FinStops DEF FinDies, Ended
    <3> QED
      BY <2>0, <3>1, LockStays DEF Critical
  <2>6. CASE FinReads(f) \/ FinWrites(f)
    <3>1. Critical(f) /\ UNCHANGED lock
      BY <2>6 DEF FinReads, FinWrites, Critical
    <3>2. Critical(f)'
      <4>1. CASE FinReads(f)
        BY <4>1, ReadsGoOn DEF Critical
      <4>2. CASE FinWrites(f) /\ FinGoes(f, "undoReceipt")
        BY <4>2, FinMoves DEF Critical
      <4>3. CASE fin' = [fin EXCEPT ![f].pc = "approve", ![f].before = config]
        <5>1. fin'[f].pc = "approve"
          BY <1>0, <4>3 DEF FinMemory
        <5> QED
          BY <5>1 DEF Critical
      <4> QED
        BY <2>6, <4>1, <4>2, <4>3 DEF FinWrites
    <3> QED
      BY <2>1, <3>1, <3>2
  <2>7. CASE FinIsolates(f) \/ FinApproves(f) \/ FinDisposes(f)
             \/ FinUndoesApproval(f) \/ FinUndoesConfig(f) \/ FinUndoesReceipt(f)
    <3>1. Critical(f) /\ UNCHANGED lock
      BY <2>7 DEF FinIsolates, FinApproves, FinDisposes, FinUndoesApproval,
         FinUndoesConfig, FinUndoesReceipt, Critical
    <3>2. \E pc \in {"write", "dispose", "undoApproval", "undoConfig", "undoReceipt", "release"} :
            FinGoes(f, pc) \/ (\E ok \in BOOLEAN : FinRollsOn(f, pc, ok))
      BY <2>7 DEF FinIsolates, FinApproves, FinDisposes, FinUndoesApproval,
         FinUndoesConfig, FinUndoesReceipt
    <3>3. Critical(f)'
      BY <3>2, FinMoves DEF Critical
    <3> QED
      BY <2>1, <3>1, <3>3
  <2> QED
    BY <1>2, <2>2, <2>3, <2>4, <2>5, <2>6, <2>7 DEF FinStep
<1> QED
  <2>1. CASE StateFileStep \/ UNCHANGED vars \/ \E r \in Rejecters : RejStep(r)
    <3>1. UNCHANGED <<fin, lock>>
      BY <2>1, ZenonT(60) DEF vars, fileVars, StateFileStep, CreateBatch, BatchExpires, StateExpires, ClaimState,
          Exchange, CompleteState, CompleteStateFails, FailState, BeginState, ServerDies,
          RejStep, RejStarts, RejIsolates, RejRejects, RejConfirms, RejRestores, RejDeletes,
          RejDies
    <3> QED
      BY <1>1, <3>1
  <2> QED
    BY <1>2, <2>1 DEF Next

(* Any number of finalizers, rejecters, callbacks, stores, batches,        *)
(* crashes and failed file operations: as long as no two invocations move  *)
(* a dead owner's lock away at once, one finalizer at a time works under   *)
(* the lock, what is under review can be finished, what is approved is in  *)
(* use, a reported rollback is complete and other stores' credentials are  *)
(* left alone.                                                             *)
THEOREM OneReaperIsSafe ==
    Spec /\ []OneReaper =>
        /\ []LockIsExclusive /\ []ReviewSafety
        /\ RollbackIsComplete /\ FinalizersKeepOtherStores
<1>1. Init => LockInv
  BY DEF Init, FinAt, LockInv, Critical
<1>2. OneReaper /\ TypeOK /\ LockInv /\ [Next]_vars => LockInv'
  BY LockStep
<1>3. LockInv => LockIsExclusive
  BY DEF LockInv, LockIsExclusive
<1>4. Spec /\ []OneReaper => []LockIsExclusive
  BY <1>1, <1>2, <1>3, AuthorizationTypes, PTL DEF Spec
<1> QED
  BY <1>4, ReviewIsSafe, RollbacksAreComplete, OtherStoresAreKept, PTL
=============================================================================
