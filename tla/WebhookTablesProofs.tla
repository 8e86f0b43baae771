------------------------- MODULE WebhookTablesProofs ------------------------
(***************************************************************************)
(* Proofs about two users of the webhook tables: the read-back of webhook  *)
(* facts, and the cutover of the tables to another host.                   *)
(***************************************************************************)
EXTENDS WebhookHydration, Cutover, FiniteSetTheorems, WellFoundedInduction, TLAPS

(***************************************************************************)
(* The read-back, for any number of directives, stores and runners and any *)
(* limits.  A runner settles what it remembers, while others may have      *)
(* taken over the rows; RunnerInv says what of its memory is still true    *)
(* then.                                                                   *)
(***************************************************************************)
(* What the repository's statements make of a row.                         *)
LEMMA EndedRow ==
    ASSUME NEW rw \in Row, NEW st \in States
    PROVE  /\ Ended(rw, st) \in Row
           /\ Ended(rw, st).state = st /\ ~Ended(rw, st).live
           /\ Ended(rw, st).attempts = rw.attempts
<1>1. rw.attempts \in 0..MaxAttempts
  BY DEF Row
<1> QED
  BY <1>1 DEF Row, Ended

(* A row that is put off.                                                  *)
LEMMA RetriedRow ==
    ASSUME NEW rw \in Row
    PROVE  LET rt == [Ended(rw, "RETRY") EXCEPT !.ready = FALSE] IN
           /\ rt \in Row /\ rt.state = "RETRY" /\ ~rt.live /\ rt.attempts = rw.attempts
<1>1. "RETRY" \in States
  BY DEF States
<1>2. ASSUME NEW q \in Row
      PROVE  LET rt == [q EXCEPT !.ready = FALSE] IN
             /\ rt \in Row /\ rt.state = q.state /\ rt.live = q.live
             /\ rt.attempts = q.attempts
  BY DEF Row
<1> QED
  BY <1>1, <1>2, EndedRow

(* A row that a runner leases.                                             *)
LEMMA LeasedRow ==
    ASSUME NEW d, NEW r \in Runners, row[d] \in Row, row[d].attempts < MaxAttempts
    PROVE  /\ Leased(d, r) \in Row /\ Leased(d, r).state = "RUNNING"
           /\ Leased(d, r).owner = r /\ Leased(d, r).attempts = row[d].attempts + 1
<1>1. row[d].attempts \in 0..MaxAttempts /\ MaxAttempts \in Nat
  BY HydrationAssumption DEF Row
<1>2. row[d].attempts + 1 \in 0..MaxAttempts
  BY <1>1
<1> QED
  BY <1>2 DEF Row, States, Leased

(* A row is kept, emitted, leased or ended, or time passes for it.  Whoever *)
(* ends a leased row is the owner, and the step is the owner's, or finds   *)
(* the lease expired; whoever leases one has nothing left in its memory.   *)
Kept(d) == row'[d] = row[d]
Emitted(d) ==
    /\ row[d].state = "NONE" /\ row'[d].state = "PENDING"
    /\ row'[d].live = row[d].live /\ row'[d].attempts = row[d].attempts
Aged(d) ==
    /\ row'[d].state = row[d].state /\ row'[d].attempts = row[d].attempts
    /\ row'[d].owner = row[d].owner /\ row[d].state \in {"RUNNING", "RETRY"}
    /\ row'[d].live => row[d].live
Taken(r, d) ==
    /\ runner[r].pc = "claim" /\ row'[d].owner = r
    /\ row[d].state \in {"PENDING", "RETRY", "RUNNING"}
    /\ row[d].state = "RUNNING" => ~row[d].live
    /\ row'[d].state = "RUNNING" /\ row'[d].attempts = row[d].attempts + 1
GaveUp(d) ==
    /\ row[d].state = "RUNNING" /\ ~row[d].live /\ row[d].attempts = MaxAttempts
    /\ row'[d].state = "FAILED" /\ ~row'[d].live /\ row'[d].attempts = row[d].attempts
Settled(r, d) ==
    /\ row[d].state = "RUNNING" /\ row[d].owner = r
    /\ d \in runner[r].group \cup runner[r].claimed
    /\ row'[d].state \in {"SUCCEEDED", "FAILED", "RETRY"} /\ ~row'[d].live
    /\ row'[d].attempts = row[d].attempts
    /\ row'[d].state = "SUCCEEDED" => runner[r].pc = "settle" /\ d \in runner[r].group
    /\ row'[d].state = "FAILED" =>
          \E e \in runner[r].group \cup runner[r].claimed :
             storeOf[e] = storeOf[d] /\ runner[r].att[e] >= MaxAttempts

(* Reporting a failure for some of the rows of one store that it holds.    *)
LEMMA FailEffects ==
    ASSUME RowType, NEW r \in Runners, NEW S \in SUBSET Directives,
           S \subseteq runner[r].group \cup runner[r].claimed,
           \A d, e \in S : storeOf[d] = storeOf[e],
           row' = FailStatement(r, S)
    PROVE  RowType' /\ \A d \in Directives : Kept(d) \/ Settled(r, d)
<1>1. ASSUME NEW d \in Directives
      PROVE  row'[d] \in Row /\ (Kept(d) \/ Settled(r, d))
  <2>0. row[d] \in Row
    BY DEF RowType
  <2>1. CASE d \notin Owned(r, S)
    <3>1. row'[d] = row[d]
      BY <2>1 DEF FailStatement
    <3> QED
      BY <2>0, <3>1 DEF Kept
  <2>2. CASE d \in Owned(r, S)
    <3>1. d \in S /\ row[d].state = "RUNNING" /\ row[d].owner = r
      BY <2>2 DEF Owned, Owns
    <3>2. CASE Terminal(r, S)
      <4>1. row'[d] = Ended(row[d], "FAILED")
        BY <2>2, <3>2 DEF FailStatement
      <4>2. /\ row'[d].state = "FAILED" /\ ~row'[d].live
            /\ row'[d].attempts = row[d].attempts /\ row'[d] \in Row
        BY <2>0, <4>1, EndedRow DEF States
      <4> QED
        BY <3>1, <3>2, <4>2 DEF Settled, Terminal
    <3>3. CASE ~Terminal(r, S)
      <4>1. row'[d] = [Ended(row[d], "RETRY") EXCEPT !.ready = FALSE]
        BY <2>2, <3>3 DEF FailStatement
      <4>2. /\ row'[d].state = "RETRY" /\ ~row'[d].live
            /\ row'[d].attempts = row[d].attempts /\ row'[d] \in Row
        BY <2>0, <4>1, RetriedRow
      <4> QED
        BY <3>1, <4>2 DEF Settled
    <3> QED
      BY <3>2, <3>3
  <2> QED
    BY <2>1, <2>2
<1>2. row' = [d \in Directives |-> row'[d]]
  BY DEF FailStatement
<1> QED
  BY <1>1, <1>2 DEF RowType

(* Reporting a success for the rows of the group at hand.                  *)
LEMMA CompleteEffects ==
    ASSUME RowType, NEW r \in Runners, runner[r].group \subseteq Directives,
           runner[r].pc = "settle", row' = CompleteStatement(r, runner[r].group)
    PROVE  RowType' /\ \A d \in Directives : Kept(d) \/ Settled(r, d)
<1>1. ASSUME NEW d \in Directives
      PROVE  row'[d] \in Row /\ (Kept(d) \/ Settled(r, d))
  <2>0. row[d] \in Row
    BY DEF RowType
  <2>1. CASE d \notin Owned(r, runner[r].group)
    <3>1. row'[d] = row[d]
      BY <2>1 DEF CompleteStatement
    <3> QED
      BY <2>0, <3>1 DEF Kept
  <2>2. CASE d \in Owned(r, runner[r].group)
    <3>1. d \in runner[r].group /\ row[d].state = "RUNNING" /\ row[d].owner = r
      BY <2>2 DEF Owned, Owns
    <3>2. row'[d] = Ended(row[d], "SUCCEEDED")
      BY <2>2 DEF CompleteStatement
    <3>3. /\ row'[d].state = "SUCCEEDED" /\ ~row'[d].live
          /\ row'[d].attempts = row[d].attempts /\ row'[d] \in Row
      BY <2>0, <3>2, EndedRow DEF States
    <3> QED
      BY <3>1, <3>3 DEF Settled
  <2> QED
    BY <2>1, <2>2
<1>2. row' = [d \in Directives |-> row'[d]]
  BY DEF CompleteStatement
<1> QED
  BY <1>1, <1>2 DEF RowType

(* The claim leases rows that nobody holds and gives up those that used up *)
(* their attempts.                                                         *)
LEMMA ClaimEffects ==
    ASSUME RowType, NEW r \in Runners, runner[r].pc = "claim",
           NEW S \in Batches, row' = ClaimStatement(r, S)
    PROVE  /\ RowType'
           /\ \A d \in Directives : Kept(d) \/ GaveUp(d) \/ Taken(r, d)
           /\ \A d \in S : row'[d].attempts = row[d].attempts + 1
           /\ S \subseteq Directives /\ \A d \in S : row[d].attempts < MaxAttempts
<1>0. S \subseteq Directives /\ \A d \in S : Claimable(d)
  BY DEF Batches, Claimables
<1>1. ASSUME NEW d \in Directives
      PROVE  /\ row'[d] \in Row
             /\ Kept(d) \/ GaveUp(d) \/ Taken(r, d)
             /\ d \in S => row'[d].attempts = row[d].attempts + 1
  <2>0. row[d] \in Row
    BY DEF RowType
  <2>1. CASE d \in S
    <3>1. row'[d] = Leased(d, r) /\ Claimable(d)
      BY <1>0, <2>1 DEF ClaimStatement
    <3>2. /\ row'[d] \in Row /\ row'[d].state = "RUNNING" /\ row'[d].owner = r
          /\ row'[d].attempts = row[d].attempts + 1
      BY <2>0, <3>1, LeasedRow DEF Claimable
    <3> QED
      BY <3>1, <3>2 DEF Taken, Claimable
  <2>2. CASE d \notin S /\ Exhausted(d)
    <3>1. row'[d] = Ended(row[d], "FAILED")
      BY <2>2 DEF ClaimStatement
    <3>2. /\ row'[d] \in Row /\ row'[d].state = "FAILED" /\ ~row'[d].live
          /\ row'[d].attempts = row[d].attempts
      BY <2>0, <3>1, EndedRow DEF States
    <3>3. row[d].attempts = MaxAttempts
      BY <2>0, <2>2, HydrationAssumption DEF Exhausted, Row
    <3> QED
      BY <2>2, <3>2, <3>3 DEF GaveUp, Exhausted
  <2>3. CASE d \notin S /\ ~Exhausted(d)
    BY <2>0, <2>3 DEF ClaimStatement, Kept
  <2> QED
    BY <2>1, <2>2, <2>3
<1>2. row' = [d \in Directives |-> row'[d]]
  BY DEF ClaimStatement
<1> QED
  BY <1>0, <1>1, <1>2 DEF RowType, Claimable

-----------------------------------------------------------------------------
Memory == [pc : Pcs, batches : 0..MaxBatches, claimed : SUBSET Directives,
           group : SUBSET Directives, att : [Directives -> 0..MaxAttempts]]

(* What a runner knows stays true while others take over what it claimed:  *)
(* the rows it settles as successes were read back (if lookups are exact), *)
(* it has not counted more attempts than the row has, and exactly as many  *)
(* while it owns it, a group is of one store, and between batches its      *)
(* memory is empty.                                                        *)
Fits(att, r, rw) ==
    /\ att <= rw.attempts
    /\ rw.state = "RUNNING" /\ rw.owner = r => att = rw.attempts

MemoryFits(me) ==
    /\ \A d, e \in me.group : storeOf[d] = storeOf[e]
    /\ me.pc \in {"off", "claim"} => me.claimed = {}
    /\ me.pc \in {"off", "claim", "group"} => me.group = {}

RunnerInv(r) ==
    /\ runner[r].pc = "settle" /\ LookupsAreExact => Requested(runner[r].group) \subseteq loaded
    /\ \A d \in runner[r].claimed \cup runner[r].group : Fits(runner[r].att[d], r, row[d])
    /\ MemoryFits(runner[r])

(* Only a leased row has a live lease.                                     *)
LiveInv == \A d \in Directives : row[d].live => row[d].state = "RUNNING"

HydrationInv ==
    /\ TypeOK /\ LiveInv /\ FailsWithAnExhaustedOne
    /\ LookupsAreExact => SucceededMeansLoaded
    /\ \A r \in Runners : RunnerInv(r)

(* Nothing has been emitted and no runner works.                           *)
LEMMA InitInv == Init => HydrationInv
<1> SUFFICES ASSUME Init PROVE HydrationInv
  OBVIOUS
<1>1. NoRow \in Row /\ NoRow.state = "NONE" /\ ~NoRow.live
  BY HydrationAssumption DEF NoRow, Row, States
<1>2. Off \in Memory /\ Off.pc = "off" /\ Off.claimed = {} /\ Off.group = {}
  BY HydrationAssumption DEF Off, Memory, Pcs
<1>3. /\ \A d \in Directives : row[d] = NoRow
      /\ \A r \in Runners : runner[r] = Off
      /\ row = [d \in Directives |-> NoRow] /\ runner = [r \in Runners |-> Off]
      /\ loaded = {} /\ storeOf \in [Directives -> Stores]
  BY DEF Init
<1>4. TypeOK
  BY <1>1, <1>2, <1>3 DEF TypeOK, RowType, RunnerType, Memory
<1>5. LiveInv /\ SucceededMeansLoaded /\ FailsWithAnExhaustedOne
  BY <1>1, <1>3 DEF LiveInv, SucceededMeansLoaded, FailsWithAnExhaustedOne
<1>6. \A r \in Runners : RunnerInv(r)
  BY <1>2, <1>3 DEF RunnerInv, MemoryFits
<1> QED
  BY <1>4, <1>5, <1>6 DEF HydrationInv

(* What can happen to a row in a step of the system.                       *)
Moves(d) ==
    \/ Kept(d) \/ Emitted(d) \/ Aged(d) \/ GaveUp(d)
    \/ \E r \in Runners : Taken(r, d) \/ (Settled(r, d) /\ StepsAlone(r))

(* A runner that settles rows leaves its mark on its own memory only.      *)
LEMMA SettlingSteps ==
    ASSUME runner \in [Runners -> Memory], NEW r \in Runners,
           TakeGroup(r) \/ Complete(r) \/ CompleteErrs(r) \/ Release(r)
    PROVE  StepsAlone(r)
<1>0. runner[r] \in Memory
  OBVIOUS
<1>1. ASSUME NEW q, runner' = [runner EXCEPT ![r] = q], q # runner[r]
      PROVE  StepsAlone(r)
  BY <1>1 DEF StepsAlone
<1>2. Off.pc = "off"
  BY DEF Off
<1>3. CASE TakeGroup(r)
  <2>1. PICK s \in {storeOf[d] : d \in runner[r].claimed} :
          LET rows == {d \in runner[r].claimed : storeOf[d] = s}
              invalid == {d \in rows : ~row[d].keyed}
              rest == [runner[r] EXCEPT !.claimed = @ \ rows]
          IN  runner' = [runner EXCEPT ![r] =
                IF Owned(r, invalid) # invalid THEN Off
                ELSE IF rows = invalid
                THEN [rest EXCEPT !.pc = IF rest.claimed = {} THEN "claim" ELSE "group"]
                ELSE [rest EXCEPT !.pc = "sync", !.group = rows \ invalid]]
    BY <1>3 DEF TakeGroup
  <2> DEFINE rows == {d \in runner[r].claimed : storeOf[d] = s}
             invalid == {d \in rows : ~row[d].keyed}
             rest == [runner[r] EXCEPT !.claimed = @ \ rows]
  <2>2. runner[r].claimed \ rows # runner[r].claimed
    OBVIOUS
  <2>3. rest.claimed # runner[r].claimed /\ rest \in Memory
    BY <1>0, <2>2 DEF Memory
  <2>4. \/ runner' = [runner EXCEPT ![r] = Off]
        \/ \E pc \in {"claim", "group"} : runner' = [runner EXCEPT ![r] = [rest EXCEPT !.pc = pc]]
        \/ runner' = [runner EXCEPT ![r] = [rest EXCEPT !.pc = "sync", !.group = rows \ invalid]]
    BY <2>1
  <2> HIDE DEF rows, invalid, rest
  <2>5. \A pc : [rest EXCEPT !.pc = pc].claimed = rest.claimed
    BY <2>3 DEF Memory
  <2>6. [rest EXCEPT !.pc = "sync", !.group = rows \ invalid].claimed = rest.claimed
    BY <2>3 DEF Memory
  <2>7. Off # runner[r]
    BY <1>2, <1>3 DEF TakeGroup
  <2>8. \A pc : [rest EXCEPT !.pc = pc] # runner[r]
    BY <2>3, <2>5
  <2>9. [rest EXCEPT !.pc = "sync", !.group = rows \ invalid] # runner[r]
    BY <2>3, <2>6
  <2> QED
    BY <1>1, <2>4, <2>7, <2>8, <2>9
<1>4. CASE Complete(r) \/ CompleteErrs(r) \/ Release(r)
  <2>1. /\ runner[r].pc \in {"settle", "release"}
        /\ \/ runner' = [runner EXCEPT ![r] = NextGroup(r)]
           \/ runner' = [runner EXCEPT ![r] = Off]
           \/ runner[r].pc = "settle" /\ runner' = [runner EXCEPT ![r] = [runner[r] EXCEPT !.pc = "release"]]
    BY <1>4 DEF Complete, CompleteErrs, Release
  <2>2. NextGroup(r).pc \in {"claim", "group"} /\ [runner[r] EXCEPT !.pc = "release"].pc = "release"
    BY <1>0 DEF NextGroup, Memory
  <2>3. NextGroup(r) # runner[r] /\ Off # runner[r]
    BY <1>2, <2>1, <2>2
  <2>4. runner[r].pc = "settle" => [runner[r] EXCEPT !.pc = "release"] # runner[r]
    BY <2>2
  <2> QED
    BY <1>1, <2>1, <2>3, <2>4
<1> QED
  BY <1>3, <1>4

(* The store column is written once.                                       *)
LEMMA StoresStay == [Next]_vars => storeOf' = storeOf
BY DEF Next, RunnerStep, Emit, LeaseExpires, RetryDue, StartRun, ClaimBatch, EndRun,
   TakeGroup, Sync, Complete, CompleteErrs, Release, Crash, vars

(* Every step moves the rows in one of those ways and keeps what was read. *)
LEMMA RowsMove ==
    ASSUME HydrationInv, [Next]_vars
    PROVE  /\ RowType' /\ \A d \in Directives : Moves(d)
           /\ loaded \subseteq loaded' /\ loaded' \subseteq Docs
<1>0. /\ RowType /\ runner \in [Runners -> Memory] /\ loaded \subseteq Docs
      /\ \A d \in Directives : row[d] \in Row
      /\ \A r \in Runners : runner[r] \in Memory /\ RunnerInv(r)
  BY DEF HydrationInv, TypeOK, RowType, RunnerType, Memory
<1>1. ASSUME UNCHANGED row PROVE RowType' /\ \A d \in Directives : Moves(d)
  BY <1>0, <1>1 DEF Moves, Kept, RowType
<1>2. ASSUME NEW d \in Directives, Emit(d) \/ LeaseExpires(d) \/ RetryDue(d)
      PROVE  RowType' /\ \A e \in Directives : Moves(e)
  <2>1. PICK q \in Row : row' = [row EXCEPT ![d] = q] /\ (row'[d] = q => Emitted(d) \/ Aged(d))
    <3>1. CASE Emit(d)
      <4>1. PICK keyed \in BOOLEAN :
              row' = [row EXCEPT ![d] = [row[d] EXCEPT !.state = "PENDING", !.ready = TRUE,
                                                       !.keyed = keyed]]
        BY <3>1 DEF Emit
      <4> DEFINE q == [row[d] EXCEPT !.state = "PENDING", !.ready = TRUE, !.keyed = keyed]
      <4>2. q \in Row /\ q.state = "PENDING" /\ q.live = row[d].live
            /\ q.attempts = row[d].attempts
        BY <1>0 DEF Row, States
      <4> HIDE DEF q
      <4>3. row' = [row EXCEPT ![d] = q]
        BY <4>1 DEF q
      <4> QED
        BY <3>1, <4>2, <4>3 DEF Emitted, Emit
    <3>2. CASE LeaseExpires(d)
      <4> DEFINE q == [row[d] EXCEPT !.live = FALSE]
      <4>1. q \in Row /\ q.state = row[d].state /\ ~q.live /\ q.owner = row[d].owner
            /\ q.attempts = row[d].attempts
        BY <1>0 DEF Row
      <4>2. row' = [row EXCEPT ![d] = q]
        BY <3>2 DEF LeaseExpires
      <4> HIDE DEF q
      <4> QED
        BY <3>2, <4>1, <4>2 DEF Aged, LeaseExpires
    <3>3. CASE RetryDue(d)
      <4> DEFINE q == [row[d] EXCEPT !.ready = TRUE]
      <4>1. q \in Row /\ q.state = row[d].state /\ q.live = row[d].live
            /\ q.owner = row[d].owner /\ q.attempts = row[d].attempts
        BY <1>0 DEF Row
      <4>2. row' = [row EXCEPT ![d] = q]
        BY <3>3 DEF RetryDue
      <4> HIDE DEF q
      <4> QED
        BY <3>3, <4>1, <4>2 DEF Aged, RetryDue
    <3> QED
      BY <1>2, <3>1, <3>2, <3>3
  <2>2. RowType' /\ row'[d] = q /\ \A e \in Directives \ {d} : row'[e] = row[e]
    BY <1>0, <2>1 DEF RowType
  <2> QED
    BY <2>1, <2>2 DEF Moves, Kept
<1>3. ASSUME NEW r \in Runners, ClaimBatch(r)
      PROVE  RowType' /\ \A d \in Directives : Moves(d)
  BY <1>0, <1>3, ClaimEffects DEF ClaimBatch, Moves
<1>4. ASSUME NEW r \in Runners, TakeGroup(r)
      PROVE  RowType' /\ \A d \in Directives : Moves(d)
  <2>1. PICK S \in SUBSET runner[r].claimed :
          (\A d, e \in S : storeOf[d] = storeOf[e]) /\ row' = FailStatement(r, S)
    <3>1. PICK s \in {storeOf[d] : d \in runner[r].claimed} :
            row' = FailStatement(r, {d \in {e \in runner[r].claimed : storeOf[e] = s} :
                                       ~row[d].keyed})
      BY <1>4 DEF TakeGroup
    <3> QED
      BY <3>1
  <2>2. S \subseteq Directives /\ S \subseteq runner[r].group \cup runner[r].claimed
    BY <1>0, <2>1 DEF Memory
  <2> QED
    BY <1>0, <1>4, <2>1, <2>2, FailEffects, SettlingSteps DEF Moves
<1>5. ASSUME NEW r \in Runners, Complete(r) \/ CompleteErrs(r)
      PROVE  RowType' /\ \A d \in Directives : Moves(d)
  <2>1. /\ runner[r].pc = "settle" /\ runner[r].group \subseteq Directives
        /\ UNCHANGED row \/ row' = CompleteStatement(r, runner[r].group)
    BY <1>0, <1>5 DEF Complete, CompleteErrs, Memory
  <2> QED
    BY <1>0, <1>1, <1>5, <2>1, CompleteEffects, SettlingSteps DEF Moves
<1>6. ASSUME NEW r \in Runners, Release(r)
      PROVE  RowType' /\ \A d \in Directives : Moves(d)
  <2>1. /\ runner[r].group \subseteq Directives
        /\ \A d, e \in runner[r].group : storeOf[d] = storeOf[e]
        /\ row' = FailStatement(r, runner[r].group)
    BY <1>0, <1>6 DEF Release, Memory, RunnerInv, MemoryFits
  <2> QED
    BY <1>0, <1>6, <2>1, FailEffects, SettlingSteps DEF Moves
<1>7. RowType' /\ \A d \in Directives : Moves(d)
  BY <1>1, <1>2, <1>3, <1>4, <1>5, <1>6
  DEF Next, RunnerStep, StartRun, EndRun, Sync, Crash, vars
<1>8. loaded \subseteq loaded' /\ loaded' \subseteq Docs
  <2>1. ASSUME NEW r \in Runners, Sync(r)
        PROVE  loaded \subseteq loaded' /\ loaded' \subseteq Docs
    <3>1. PICK found \in SUBSET (Requested(runner[r].group) \cup Strays) :
            loaded' = loaded \cup found
      BY <2>1 DEF Sync
    <3>2. Requested(runner[r].group) \subseteq Docs /\ Strays \subseteq Docs
      BY <1>0, HydrationAssumption DEF Memory, Requested
    <3> QED
      BY <1>0, <3>1, <3>2
  <2> QED
    BY <1>0, <2>1 DEF Next, RunnerStep, Emit, LeaseExpires, RetryDue, StartRun, ClaimBatch,
       EndRun, TakeGroup, Complete, CompleteErrs, Release, Crash, vars
<1> QED
  BY <1>7, <1>8

(* Attempts are never taken back.                                          *)
LEMMA AttemptsGrow ==
    ASSUME RowType, NEW d \in Directives, Moves(d)
    PROVE  /\ row[d].attempts \in 0..MaxAttempts
           /\ row'[d].attempts = row[d].attempts \/ row'[d].attempts = row[d].attempts + 1
<1>1. row[d].attempts \in 0..MaxAttempts
  BY DEF RowType, Row
<1> QED
  BY <1>1 DEF Moves, Kept, Emitted, Aged, Taken, GaveUp, Settled

(* The table: successes were read back, failures have an exhausted cause.  *)
LEMMA TableStep ==
    ASSUME HydrationInv, [Next]_vars
    PROVE  LiveInv' /\ (LookupsAreExact => SucceededMeansLoaded') /\ FailsWithAnExhaustedOne'
<1>0. /\ RowType /\ RowType' /\ LiveInv /\ FailsWithAnExhaustedOne
      /\ LookupsAreExact => SucceededMeansLoaded
      /\ \A r \in Runners : RunnerInv(r) /\ runner[r] \in Memory
      /\ loaded \subseteq loaded' /\ storeOf' = storeOf
      /\ \A d \in Directives : /\ Moves(d) /\ row[d] \in Row /\ row'[d] \in Row
                               /\ row[d].attempts \in 0..MaxAttempts
                               /\ row'[d].attempts \in 0..MaxAttempts
      /\ MaxAttempts \in Nat
  BY RowsMove, StoresStay, HydrationAssumption
  DEF HydrationInv, TypeOK, RowType, RunnerType, Memory, Row
<1>1. LiveInv'
  BY <1>0 DEF LiveInv, Moves, Kept, Emitted, Aged, Taken, GaveUp, Settled
<1>2. LookupsAreExact => SucceededMeansLoaded'
  <2> SUFFICES ASSUME LookupsAreExact, NEW d \in Directives, row'[d].state = "SUCCEEDED"
               PROVE  KeysOf[d] \subseteq loaded'
    BY DEF SucceededMeansLoaded
  <2>1. CASE \E r \in Runners : Settled(r, d)
    <3>1. PICK r \in Runners : runner[r].pc = "settle" /\ d \in runner[r].group
      BY <2>1 DEF Settled
    <3>2. Requested(runner[r].group) \subseteq loaded
      BY <1>0, <3>1 DEF RunnerInv
    <3> QED
      BY <1>0, <3>1, <3>2 DEF Requested
  <2>2. CASE ~\E r \in Runners : Settled(r, d)
    BY <1>0, <2>2 DEF Moves, Kept, Emitted, Aged, Taken, GaveUp, SucceededMeansLoaded
  <2> QED
    BY <2>1, <2>2
<1>3. \A d \in Directives : row[d].attempts = MaxAttempts => row'[d].attempts = MaxAttempts
  <2> SUFFICES ASSUME NEW d \in Directives, row[d].attempts = MaxAttempts
               PROVE  row'[d].attempts = MaxAttempts
    OBVIOUS
  <2>1. row'[d].attempts \in 0..MaxAttempts
        /\ (row'[d].attempts = MaxAttempts \/ row'[d].attempts = MaxAttempts + 1)
    BY <1>0, AttemptsGrow
  <2> QED
    BY <1>0, <2>1
<1>4. FailsWithAnExhaustedOne'
  <2> SUFFICES ASSUME NEW d \in Directives, row'[d].state = "FAILED"
               PROVE  \E e \in Directives :
                         storeOf[e] = storeOf[d] /\ row'[e].attempts = MaxAttempts
    BY <1>0 DEF FailsWithAnExhaustedOne
  <2>1. ASSUME NEW r \in Runners, Settled(r, d)
        PROVE  \E e \in Directives :
                  storeOf[e] = storeOf[d] /\ row'[e].attempts = MaxAttempts
    <3>1. PICK e \in runner[r].group \cup runner[r].claimed :
            storeOf[e] = storeOf[d] /\ runner[r].att[e] >= MaxAttempts
      BY <2>1 DEF Settled
    <3>2. e \in Directives /\ runner[r].att[e] \in 0..MaxAttempts
      BY <1>0, <3>1 DEF Memory
    <3>3. runner[r].att[e] <= row[e].attempts
      BY <1>0, <3>1 DEF RunnerInv, Fits
    <3>4. row[e].attempts = MaxAttempts
      BY <1>0, <3>1, <3>2, <3>3
    <3> QED
      BY <1>3, <3>1, <3>2, <3>4
  <2>2. CASE GaveUp(d)
    BY <1>3, <2>2 DEF GaveUp
  <2>3. CASE row[d].state = "FAILED"
    BY <1>0, <1>3, <2>3 DEF FailsWithAnExhaustedOne
  <2> QED
    BY <1>0, <2>1, <2>2, <2>3 DEF Moves, Kept, Emitted, Aged, Taken
<1> QED
  BY <1>1, <1>2, <1>4

(* What a runner remembers of its rows is true after any step.             *)
LEMMA StillFits ==
    ASSUME RowType, NEW r \in Runners, runner[r] \in Memory, RunnerInv(r),
           NEW d \in runner[r].claimed \cup runner[r].group, Moves(d)
    PROVE  Fits(runner[r].att[d], r, row'[d])
<1>1. /\ d \in Directives /\ runner[r].att[d] \in 0..MaxAttempts
      /\ Fits(runner[r].att[d], r, row[d]) /\ runner[r].pc # "claim"
  BY DEF Memory, RunnerInv, MemoryFits
<1>2. /\ row[d].attempts \in 0..MaxAttempts
      /\ row'[d].attempts = row[d].attempts \/ row'[d].attempts = row[d].attempts + 1
  BY <1>1, AttemptsGrow
<1>3. CASE \E q \in Runners : Taken(q, d)
  BY <1>1, <1>2, <1>3 DEF Taken, Fits
<1>4. CASE Kept(d) \/ Emitted(d) \/ Aged(d) \/ GaveUp(d) \/ \E q \in Runners : Settled(q, d)
  BY <1>1, <1>2, <1>4 DEF Kept, Emitted, Aged, GaveUp, Settled, Fits
<1> QED
  BY <1>3, <1>4 DEF Moves

(* Documents counted domain by domain are the requested ones as soon as    *)
(* they are no fewer, provided only requested ones are answered.           *)
LEMMA CountingSuffices ==
    ASSUME LookupsAreExact, NEW group \in SUBSET Directives,
           NEW found \in SUBSET (Requested(group) \cup Strays), ReadsAll(group, found)
    PROVE  Requested(group) \subseteq found
<1>1. found \subseteq Requested(group) /\ Requested(group) \subseteq Docs
  BY HydrationAssumption DEF LookupsAreExact, Requested
<1> SUFFICES ASSUME NEW x \in Requested(group) PROVE x \in found
  OBVIOUS
<1> DEFINE f == InDomain(found, DomainOf[x])
           q == InDomain(Requested(group), DomainOf[x])
<1>2. DomainOf[x] \in Domains /\ x \in q
  BY <1>1, HydrationAssumption DEF InDomain
<1>3. f \subseteq q /\ q \subseteq Docs /\ f \subseteq found
  BY <1>1 DEF InDomain
<1>4. Cardinality(f) >= Cardinality(q)
  BY <1>2 DEF ReadsAll
<1> HIDE DEF f, q
<1>5. IsFiniteSet(q)
  BY <1>3, HydrationAssumption, FS_Subset
<1>6. Cardinality(f) <= Cardinality(q) /\ (Cardinality(f) = Cardinality(q) => f = q)
      /\ Cardinality(f) \in Nat /\ Cardinality(q) \in Nat
  BY <1>3, <1>5, FS_Subset, FS_CardinalityType
<1> QED
  BY <1>2, <1>3, <1>4, <1>6

(* A runner's memory after one of its own steps.                           *)
LEMMA RunnerMoves ==
    ASSUME HydrationInv, RowType', NEW r \in Runners, RunnerStep(r) \/ Crash(r),
           storeOf' = storeOf, \A d \in Directives : Moves(d)
    PROVE  /\ runner' = [runner EXCEPT ![r] = runner'[r]]
           /\ runner'[r] \in Memory /\ RunnerInv(r)'
<1>0. /\ RowType /\ runner \in [Runners -> Memory] /\ runner[r] \in Memory
      /\ RunnerInv(r) /\ Off \in Memory
      /\ \A d \in Directives : /\ row[d].attempts \in 0..MaxAttempts
                               /\ row'[d].attempts \in 0..MaxAttempts
  BY HydrationAssumption DEF HydrationInv, TypeOK, RowType, Row, RunnerType, Memory, Off, Pcs
<1>1. /\ runner[r].batches \in 0..MaxBatches /\ runner[r].claimed \subseteq Directives
      /\ runner[r].group \subseteq Directives
      /\ runner[r].att \in [Directives -> 0..MaxAttempts]
  BY <1>0 DEF Memory
<1>2. \A d \in runner[r].claimed \cup runner[r].group :
         Fits(runner[r].att[d], r, row'[d])
  BY <1>0, <1>1, StillFits
<1>3. ASSUME runner' = [runner EXCEPT ![r] = Off]
      PROVE  /\ runner' = [runner EXCEPT ![r] = runner'[r]]
             /\ runner'[r] \in Memory /\ RunnerInv(r)'
  <2>1. runner'[r] = Off
    BY <1>0, <1>3
  <2>2. Off.pc = "off" /\ Off.claimed = {} /\ Off.group = {}
    BY DEF Off
  <2> QED
    BY <1>0, <1>3, <2>1, <2>2 DEF RunnerInv, MemoryFits
<1>4. ASSUME NEW q \in Memory, runner' = [runner EXCEPT ![r] = q],
             q.claimed \cup q.group \subseteq runner[r].claimed \cup runner[r].group,
             q.att = runner[r].att, q.pc # "settle",
             MemoryFits(q)
      PROVE  /\ runner' = [runner EXCEPT ![r] = runner'[r]]
             /\ runner'[r] \in Memory /\ RunnerInv(r)'
  <2>1. runner'[r] = q
    BY <1>0, <1>4
  <2>2. \A d \in q.claimed \cup q.group : Fits(q.att[d], r, row'[d])
    BY <1>2, <1>4
  <2> QED
    BY <1>4, <2>1, <2>2 DEF RunnerInv, MemoryFits
<1>5. ASSUME NEW pc \in Pcs \ {"settle"}, runner' = [runner EXCEPT ![r].pc = pc],
             runner[r].pc = "off" \/ pc = "release"
      PROVE  /\ runner' = [runner EXCEPT ![r] = runner'[r]]
             /\ runner'[r] \in Memory /\ RunnerInv(r)'
  <2> DEFINE q == [runner[r] EXCEPT !.pc = pc]
  <2>1. /\ q \in Memory /\ q.claimed = runner[r].claimed /\ q.group = runner[r].group
        /\ q.att = runner[r].att /\ q.pc = pc
    BY <1>0 DEF Memory
  <2>2. runner' = [runner EXCEPT ![r] = q]
    BY <1>5
  <2>3. MemoryFits(q)
    BY <1>0, <1>5, <2>1 DEF RunnerInv, MemoryFits
  <2> HIDE DEF q
  <2> QED
    BY <1>4, <2>1, <2>2, <2>3
<1>6. ASSUME runner' = [runner EXCEPT ![r] = NextGroup(r)]
      PROVE  /\ runner' = [runner EXCEPT ![r] = runner'[r]]
             /\ runner'[r] \in Memory /\ RunnerInv(r)'
  <2>1. /\ NextGroup(r) \in Memory /\ NextGroup(r).claimed = runner[r].claimed
        /\ NextGroup(r).group = {} /\ NextGroup(r).att = runner[r].att
        /\ NextGroup(r).pc \in {"claim", "group"}
        /\ NextGroup(r).pc = "claim" => runner[r].claimed = {}
    BY <1>0 DEF Memory, NextGroup, Pcs
  <2>2. MemoryFits(NextGroup(r))
    BY <2>1 DEF MemoryFits
  <2> QED
    BY <1>4, <1>6, <2>1, <2>2
<1>7. CASE StartRun(r) \/ EndRun(r) \/ Crash(r)
  BY <1>3, <1>5, <1>7 DEF StartRun, EndRun, Crash, Pcs
<1>8. CASE ClaimBatch(r)
  <2>1. PICK S \in Batches :
          /\ row' = ClaimStatement(r, S)
          /\ runner' = [runner EXCEPT ![r] =
               IF S = {} THEN Off
               ELSE [pc |-> "group", batches |-> runner[r].batches + 1, claimed |-> S,
                     group |-> {},
                     att |-> [d \in Directives |-> IF d \in S
                                THEN row[d].attempts + 1 ELSE 0]]]
    BY <1>8 DEF ClaimBatch
  <2>2. /\ S \subseteq Directives /\ \A d \in S : row[d].attempts < MaxAttempts
        /\ \A d \in S : row'[d].attempts = row[d].attempts + 1
    BY <1>0, <1>8, <2>1, ClaimEffects DEF ClaimBatch
  <2>3. CASE S = {}
    BY <1>3, <2>1, <2>3
  <2>4. CASE S # {}
    <3> DEFINE a == [d \in Directives |-> IF d \in S THEN row[d].attempts + 1 ELSE 0]
               q == [pc |-> "group", batches |-> runner[r].batches + 1, claimed |-> S,
                     group |-> {}, att |-> a]
    <3>1. a \in [Directives -> 0..MaxAttempts]
      BY <1>0, <2>2, HydrationAssumption
    <3>2. \A d \in S : Fits(a[d], r, row'[d])
      <4>1. \A d \in S : a[d] = row'[d].attempts /\ row'[d].attempts \in Nat
        BY <1>0, <2>2
      <4> QED
        BY <4>1 DEF Fits
    <3> HIDE DEF a
    <3>3. runner[r].batches + 1 \in 0..MaxBatches
      BY <1>1, <1>8, HydrationAssumption DEF ClaimBatch
    <3>4. /\ q \in Memory /\ q.pc = "group" /\ q.claimed = S /\ q.group = {} /\ q.att = a
      BY <2>2, <3>1, <3>3 DEF Memory, Pcs
    <3>5. runner' = [runner EXCEPT ![r] = q]
      BY <2>1, <2>4 DEF a
    <3> HIDE DEF q
    <3>6. runner'[r] = q
      BY <1>0, <3>5
    <3> QED
      BY <3>2, <3>4, <3>5, <3>6 DEF RunnerInv, MemoryFits
  <2> QED
    BY <2>3, <2>4
<1>9. CASE TakeGroup(r)
  <2>1. PICK s \in {storeOf[d] : d \in runner[r].claimed} :
          LET rows == {d \in runner[r].claimed : storeOf[d] = s}
              invalid == {d \in rows : ~row[d].keyed}
              rest == [runner[r] EXCEPT !.claimed = @ \ rows]
          IN  runner' = [runner EXCEPT ![r] =
                IF Owned(r, invalid) # invalid THEN Off
                ELSE IF rows = invalid
                THEN [rest EXCEPT !.pc = IF rest.claimed = {} THEN "claim" ELSE "group"]
                ELSE [rest EXCEPT !.pc = "sync", !.group = rows \ invalid]]
    BY <1>9 DEF TakeGroup
  <2> DEFINE rows == {d \in runner[r].claimed : storeOf[d] = s}
             invalid == {d \in rows : ~row[d].keyed}
             rest == [runner[r] EXCEPT !.claimed = @ \ rows]
  <2>2. /\ rest \in Memory /\ rest.claimed \subseteq runner[r].claimed
        /\ rest.group = runner[r].group /\ rest.att = runner[r].att
    BY <1>0, <1>1 DEF Memory
  <2>3. /\ \A d, e \in rows : storeOf[d] = storeOf[e]
        /\ rows \subseteq runner[r].claimed /\ invalid \subseteq rows
    OBVIOUS
  <2>4. \/ runner' = [runner EXCEPT ![r] = Off]
        \/ \E pc \in {"claim", "group"} :
              /\ runner' = [runner EXCEPT ![r] = [rest EXCEPT !.pc = pc]]
              /\ pc = "claim" => rest.claimed = {}
        \/ runner' = [runner EXCEPT ![r] = [rest EXCEPT !.pc = "sync", !.group = rows \ invalid]]
    BY <2>1
  <2> HIDE DEF rows, invalid, rest
  <2>5. ASSUME NEW pc \in {"claim", "group"}, pc = "claim" => rest.claimed = {},
               runner' = [runner EXCEPT ![r] = [rest EXCEPT !.pc = pc]]
        PROVE  /\ runner' = [runner EXCEPT ![r] = runner'[r]]
               /\ runner'[r] \in Memory /\ RunnerInv(r)'
    <3> DEFINE q == [rest EXCEPT !.pc = pc]
    <3>1. /\ q \in Memory /\ q.claimed = rest.claimed /\ q.group = rest.group
          /\ q.att = rest.att /\ q.pc = pc
      BY <2>2 DEF Memory, Pcs
    <3>2. MemoryFits(q)
      BY <1>0, <1>9, <2>2, <2>5, <3>1 DEF RunnerInv, MemoryFits, TakeGroup
    <3> HIDE DEF q
    <3>3. runner' = [runner EXCEPT ![r] = q]
      BY <2>5 DEF q
    <3> QED
      BY <1>4, <2>2, <3>1, <3>2, <3>3
  <2>6. ASSUME runner' = [runner EXCEPT ![r] = [rest EXCEPT !.pc = "sync",
                                                            !.group = rows \ invalid]]
        PROVE  /\ runner' = [runner EXCEPT ![r] = runner'[r]]
               /\ runner'[r] \in Memory /\ RunnerInv(r)'
    <3> DEFINE q == [rest EXCEPT !.pc = "sync", !.group = rows \ invalid]
    <3>1. /\ q \in Memory /\ q.claimed = rest.claimed /\ q.group = rows \ invalid
          /\ q.att = rest.att /\ q.pc = "sync"
      BY <1>1, <2>2, <2>3 DEF Memory, Pcs
    <3> HIDE DEF q
    <3>2. runner' = [runner EXCEPT ![r] = q]
      BY <2>6 DEF q
    <3>3. MemoryFits(q)
      BY <2>3, <3>1 DEF MemoryFits
    <3> QED
      BY <1>4, <2>2, <2>3, <3>1, <3>2, <3>3
  <2> QED
    BY <1>3, <2>4, <2>5, <2>6
<1>10. CASE Sync(r)
  <2>1. PICK found \in SUBSET (Requested(runner[r].group) \cup Strays), ok \in BOOLEAN :
          /\ loaded' = loaded \cup found
          /\ runner' = [runner EXCEPT ![r].pc =
               IF ok /\ ReadsAll(runner[r].group, found) THEN "settle" ELSE "release"]
    BY <1>10 DEF Sync
  <2>2. CASE ok /\ ReadsAll(runner[r].group, found)
    <3> DEFINE q == [runner[r] EXCEPT !.pc = "settle"]
    <3>1. /\ q \in Memory /\ q.claimed = runner[r].claimed /\ q.group = runner[r].group
          /\ q.att = runner[r].att /\ q.pc = "settle"
      BY <1>0 DEF Memory, Pcs
    <3>2. runner' = [runner EXCEPT ![r] = q]
      BY <2>1, <2>2
    <3>4. LookupsAreExact => Requested(runner[r].group) \subseteq loaded'
      BY <1>1, <2>1, <2>2, CountingSuffices
    <3> HIDE DEF q
    <3>3. runner'[r] = q
      BY <1>0, <3>2
    <3>5. MemoryFits(q)
      BY <1>0, <3>1 DEF RunnerInv, MemoryFits
    <3> QED
      BY <1>0, <1>2, <3>1, <3>2, <3>3, <3>4, <3>5 DEF RunnerInv, MemoryFits
  <2>3. CASE ~(ok /\ ReadsAll(runner[r].group, found))
    BY <1>5, <2>1, <2>3 DEF Pcs
  <2> QED
    BY <2>2, <2>3
<1>11. CASE Complete(r) \/ CompleteErrs(r) \/ Release(r)
  <2>1. \/ runner' = [runner EXCEPT ![r] = NextGroup(r)]
        \/ runner' = [runner EXCEPT ![r].pc = "release"]
        \/ runner' = [runner EXCEPT ![r] = Off]
    BY <1>11 DEF Complete, CompleteErrs, Release
  <2> QED
    BY <1>3, <1>5, <1>6, <2>1 DEF Pcs
<1> QED
  BY <1>7, <1>8, <1>9, <1>10, <1>11 DEF RunnerStep

(* A runner that takes no part is right about what it holds all the same.  *)
LEMMA OtherRunners ==
    ASSUME HydrationInv, NEW r \in Runners, runner'[r] = runner[r],
           loaded \subseteq loaded', storeOf' = storeOf, RowType',
           \A d \in Directives : Moves(d)
    PROVE  RunnerInv(r)'
<1>0. /\ RowType /\ runner[r] \in Memory /\ RunnerInv(r)
  BY DEF HydrationInv, TypeOK, RunnerType, Memory
<1>1. \A d \in runner[r].claimed \cup runner[r].group :
         Fits(runner[r].att[d], r, row'[d])
  BY <1>0, StillFits DEF Memory
<1> QED
  BY <1>0, <1>1 DEF RunnerInv, MemoryFits

(* Every step keeps the invariant.                                         *)
LEMMA InvStep == HydrationInv /\ [Next]_vars => HydrationInv'
<1> SUFFICES ASSUME HydrationInv, [Next]_vars PROVE HydrationInv'
  OBVIOUS
<1>1. /\ RowType' /\ \A d \in Directives : Moves(d)
      /\ loaded \subseteq loaded' /\ loaded' \subseteq Docs /\ storeOf' = storeOf
  BY RowsMove, StoresStay
<1>2. LiveInv' /\ (LookupsAreExact => SucceededMeansLoaded') /\ FailsWithAnExhaustedOne'
  BY TableStep
<1>3. runner \in [Runners -> Memory]
  BY DEF HydrationInv, TypeOK, RunnerType, Memory
<1>4. CASE UNCHANGED runner
  <2>1. \A r \in Runners : RunnerInv(r)'
    BY <1>1, <1>4, OtherRunners
  <2> QED
    BY <1>1, <1>2, <1>3, <1>4, <2>1 DEF HydrationInv, TypeOK, RunnerType, Memory
<1>5. ASSUME NEW r \in Runners, RunnerStep(r) \/ Crash(r) PROVE HydrationInv'
  <2>1. /\ runner' = [runner EXCEPT ![r] = runner'[r]]
        /\ runner'[r] \in Memory /\ RunnerInv(r)'
    BY <1>1, <1>5, RunnerMoves
  <2>2. \A q \in Runners \ {r} : runner'[q] = runner[q]
    BY <1>3, <2>1
  <2>3. runner' \in [Runners -> Memory]
    BY <1>3, <2>1
  <2>4. \A q \in Runners : RunnerInv(q)'
    BY <1>1, <2>1, <2>2, OtherRunners
  <2> QED
    BY <1>1, <1>2, <2>3, <2>4 DEF HydrationInv, TypeOK, RunnerType, Memory
<1> QED
  BY <1>4, <1>5 DEF Next, Emit, LeaseExpires, RetryDue, vars

(* The invariant holds always.                                             *)
LEMMA InvCorrect == Spec => []HydrationInv
BY InitInv, InvStep, PTL DEF Spec

(* What the table of directives says is true, for any number of directives,*)
(* documents and runners: if the platform's lookups answer only what they  *)
(* were asked for, the script's count of rows is enough for a success to   *)
(* have been read back; and a failure is due to a directive of the same    *)
(* store that used up its attempts.                                        *)
THEOREM TableIsTrue == ASSUME LookupsAreExact PROVE Spec => []HydrationSafety
<1>1. HydrationInv => HydrationSafety
  BY DEF HydrationInv, HydrationSafety
<1> QED
  BY <1>1, InvCorrect, PTL

(* A leased row is ended by a step of the runner whose claim is its latest,*)
(* or through exhaustion, a live lease is not taken over, and a settled    *)
(* row never changes (the owner tests of complete and fail).               *)
THEOREM LeasesAreRespected == Spec => LeasesFence
<1> DEFINE Fenced == \A d \in Directives :
         /\ row[d].state = "RUNNING" /\ row'[d].state # "RUNNING" =>
              Exhausted(d) \/ \E r \in Runners : LatestClaim(r, d) /\ StepsAlone(r)
         /\ row[d].live /\ row'[d].live =>
              row'[d].owner = row[d].owner /\ row'[d].attempts = row[d].attempts
         /\ row[d].state \in {"SUCCEEDED", "FAILED"} => row'[d] = row[d]
<1>1. ASSUME HydrationInv, [Next]_vars PROVE Fenced
  <2> SUFFICES ASSUME NEW d \in Directives
               PROVE  /\ row[d].state = "RUNNING" /\ row'[d].state # "RUNNING" =>
                            \/ Exhausted(d)
                            \/ \E r \in Runners : LatestClaim(r, d) /\ StepsAlone(r)
                      /\ row[d].live /\ row'[d].live =>
                            /\ row'[d].owner = row[d].owner
                            /\ row'[d].attempts = row[d].attempts
                      /\ row[d].state \in {"SUCCEEDED", "FAILED"} => row'[d] = row[d]
    OBVIOUS
  <2>1. Moves(d) /\ (row[d].live => row[d].state = "RUNNING")
    BY <1>1, RowsMove DEF HydrationInv, LiveInv
  <2>2. ASSUME NEW r \in Runners, Settled(r, d) PROVE LatestClaim(r, d)
    <3>1. RunnerInv(r)
      BY <1>1 DEF HydrationInv
    <3> QED
      BY <2>2, <3>1 DEF Settled, RunnerInv, Fits, LatestClaim
  <2>3. GaveUp(d) => Exhausted(d)
    BY HydrationAssumption DEF GaveUp, Exhausted
  <2> QED
    BY <2>1, <2>2, <2>3 DEF Moves, Kept, Emitted, Aged, Taken, GaveUp, Settled
<1>2. HydrationInv /\ [Next]_vars => [Fenced]_row
  BY <1>1
<1> HIDE DEF Fenced
<1>3. Spec => [][Fenced]_row
  BY <1>2, InvCorrect, PTL DEF Spec
<1> QED
  BY <1>3 DEF Fenced, LeasesFence

-----------------------------------------------------------------------------
(***************************************************************************)
(* The cutover, for any number of receipts, commands, faults and turns of  *)
(* the services, while writers are stopped and drained before a command as *)
(* the runbook demands.  CutoverInv says of each side what it owes to the  *)
(* other, and of the tool what its snapshots still mean.                   *)
(***************************************************************************)
(* No receipt of d is missing in e, another one there, or gone back.       *)
KeepsReceipts(d, e) ==
    \A i \in Keys(d) : /\ i \in Keys(e)
                       /\ e.row[i].note = d.row[i].note
                       /\ e.row[i].dup >= d.row[i].dup

(* A sequence at n has passed every key, and each duplicate took a value.  *)
Numbered(d, n) == \A i \in Keys(d) : i < n /\ d.row[i].dup + 2 <= n

Same(s, t) == data[s] = data[t] /\ next[s] = next[t]

(* While the tool runs, or may be believed, nobody writes.                 *)
QuietInv ==
    /\ tool.pc # "idle" \/ ready # None =>
         up = {} /\ \A s \in Sides : tx[s] = None
    /\ tool.pc # "idle" => ready = None

(* Only the side that the webhook goes to is written to, and a transaction *)
(* loses nothing.                                                          *)
ServeInv ==
    /\ up \subseteq {upstream}
    /\ \A s \in Sides : tx[s] # None =>
         s = upstream /\ KeepsReceipts(data[s], tx[s])

RowsInv ==
    \A s \in Sides : /\ Numbered(data[s], next[s])
                     /\ tx[s] # None => Numbered(tx[s], next[s])

(* Without open writers a locked side is as its snapshot shows it.         *)
SnapInv ==
    /\ tool.pc \in {"begin", "lock", "decide", "judge"} =>
         \A s \in tool.locked : tool.snap[s] = data[s]
    /\ tool.pc = "lock" => tool.snap[Turn] = data[Turn]
    /\ tool.pc \in {"decide", "judge"} => tool.locked = Sides

(* What COMMIT is about to install: the source as it is, over a target that *)
(* is as the approved plan found it.                                       *)
CommitInv ==
    LET s == Source(tool.mode)  t == Target(tool.mode) IN
    /\ tool.snap[t] = data[t] /\ tool.frozen = Present(s)
    /\ KeepsReceipts(data[t], data[s]) /\ (data[t].side => data[s].side)
    /\ approved.source = Present(s) /\ approved.target = Present(t)

CutoverInv ==
    /\ CutoverTypeOK /\ QuietInv /\ ServeInv /\ RowsInv /\ SnapInv
    /\ tool.pc = "commit" => CommitInv
    /\ AckedIsServed /\ ReadyMeansEqual

(* The operators of the tool.                                              *)

(* A finite set of keys has a largest member.                              *)
LEMMA LargestExists ==
    ASSUME NEW m \in Nat, NEW S \in SUBSET (0..m), S # {}
    PROVE  \E x \in S : \A y \in S : x >= y
<1> DEFINE T == {k \in 0..m : m - k \in S}
<1>1. T \subseteq Nat /\ T # {}
  <2>1. PICK x \in S : TRUE
    OBVIOUS
  <2>2. x \in 0..m /\ m - (m - x) = x /\ m - x \in 0..m
    BY <2>1
  <2>3. m - x \in T
    BY <2>1, <2>2
  <2>4. T \subseteq Nat
    OBVIOUS
  <2> QED
    BY <2>3, <2>4
<1>2. PICK k \in T : \A j \in T : ~(<<j, k>> \in OpToRel(<, Nat))
  BY <1>1, NatLessThanWellFounded, WFMin
<1>3. ASSUME NEW y \in S PROVE m - k >= y
  <2>1. /\ y \in 0..m /\ m - (m - y) = y /\ m - y \in T /\ m - y \in Nat
        /\ k \in Nat
    BY <1>3
  <2>2. ~(m - y < k)
    BY <1>2, <2>1 DEF OpToRel
  <2> QED
    BY <2>1, <2>2
<1> QED
  BY <1>2, <1>3

(* MaxKey is a bound of the keys, and a key unless there is none.          *)
LEMMA MaxKeyBounds ==
    ASSUME NEW d
    PROVE  /\ MaxKey(d) \in Keys(d) \cup {0}
           /\ \A i \in Keys(d) : MaxKey(d) >= i
<1> DEFINE S == Keys(d) \cup {0}
<1>1. S \in SUBSET (0..MaxId) /\ S # {} /\ MaxId \in Nat
  BY MaxIdAssumption DEF Keys, Ids
<1>2. \E x \in S : \A y \in S : x >= y
  BY ONLY <1>1, LargestExists
<1>3. Max(S) \in S /\ \A y \in S : Max(S) >= y
  BY ONLY <1>2 DEF Max
<1> QED
  BY <1>3 DEF MaxKey

(* A sequence that has passed every key has passed the largest.            *)
LEMMA NumberedIsAhead ==
    ASSUME NEW d, NEW n \in 1..MaxId + 1, Numbered(d, n)
    PROVE  n > MaxKey(d)
<1>1. n \in Nat /\ n > 0 /\ (\A i \in Keys(d) : i < n)
  BY MaxIdAssumption DEF Numbered
<1>2. MaxKey(d) \in Keys(d) \cup {0} /\ Keys(d) \subseteq Nat
  BY MaxKeyBounds, MaxIdAssumption DEF Keys, Ids
<1> QED
  BY <1>1, <1>2

LEMMA SideFacts ==
    ASSUME NEW mode \in Modes
    PROVE  /\ Source(mode) \in Sides /\ Target(mode) \in Sides
           /\ Source(mode) # Target(mode) /\ Sides = {Source(mode), Target(mode)}
BY DEF Modes, Source, Target, Other, Sides

LEMMA TurnFacts ==
    ASSUME tool \in Tool
    PROVE  /\ Turn \in Sides
           /\ Turn = Source(tool.mode) \/ Turn = Target(tool.mode)
           /\ Turn # Source(tool.mode) => Source(tool.mode) \in tool.locked
<1>1. tool.mode \in Modes
  BY DEF Tool
<1> QED
  BY <1>1, SideFacts DEF Turn

(* What a side holds is what its snapshot says, when that is of the present. *)
LEMMA PresentSnapshot ==
    ASSUME CutoverTypeOK, NEW s \in Sides, tool.snap[s] = data[s]
    PROVE  /\ SnapshotOf(s) = Present(s) /\ Present(s) \in Snapshot
           /\ Present(s).row = data[s].row /\ Present(s).side = data[s].side
           /\ Present(s).next = next[s]
<1>1. data[s] \in Data /\ next[s] \in 1..MaxId + 1
  BY DEF CutoverTypeOK
<1>2. data[s].row \in [Ids -> ReceiptRow \cup {None}] /\ data[s].side \in BOOLEAN
  BY <1>1 DEF Data
<1> QED
  BY <1>1, <1>2 DEF SnapshotOf, Present, Snapshot

(* Databases that look the same are the same.                              *)
LEMMA EqualPresents ==
    ASSUME CutoverTypeOK, NEW s \in Sides, NEW t \in Sides, Present(s) = Present(t)
    PROVE  Same(s, t)
<1>1. data[s] \in Data /\ data[t] \in Data
  BY DEF CutoverTypeOK
<1>2. data[s].row = data[t].row /\ data[s].side = data[t].side /\ next[s] = next[t]
  BY DEF Present
<1> QED
  BY <1>1, <1>2 DEF Data, Same

LEMMA KeepsItself ==
    ASSUME NEW d \in Data PROVE KeepsReceipts(d, d)
<1> SUFFICES ASSUME NEW i \in Keys(d) PROVE d.row[i].dup >= d.row[i].dup
  BY DEF KeepsReceipts
<1>1. d.row[i] \in ReceiptRow
  BY DEF Data, Keys
<1> QED
  BY <1>1, MaxIdAssumption DEF ReceiptRow

(* Whoever keeps the receipts keeps the notifications.                     *)
LEMMA KeptNotes ==
    ASSUME NEW d, NEW e, KeepsReceipts(d, e) PROVE NotesOf(d) \subseteq NotesOf(e)
BY DEF KeepsReceipts, NotesOf

(* A plan that is admitted and not yet applied loses nothing the target has. *)
LEMMA AdmittedKeeps ==
    ASSUME NEW mode \in Modes, mode # "forward", NEW fs, NEW ft,
           Admitted(mode, fs, ft), ~SnapshotsEqual(fs, ft)
    PROVE  KeepsReceipts(ft, fs)
<1>1. CASE mode = "prepare"
  <2>1. MayPrepare(fs, ft)
    BY <1>1 DEF Admitted
  <2> QED
    BY <2>1 DEF MayPrepare, Follows, KeepsReceipts
<1>2. CASE mode = "reverse"
  <2>1. MayReverse(baseline, fs, ft) /\ ft = baseline
    BY <1>2 DEF Admitted, MayReverseInto
  <2> QED
    BY <2>1 DEF MayReverse, Follows, KeepsReceipts
<1> QED
  BY <1>1, <1>2 DEF Modes

(* One row of a database written.                                          *)
Written(d, i, r) == [d EXCEPT !.row = [d.row EXCEPT ![i] = r]]

LEMMA RowWritten ==
    ASSUME NEW d \in Data, NEW i \in Ids, NEW r \in ReceiptRow, NEW e,
           e = Written(d, i, r)
    PROVE  /\ e \in Data /\ e.side = d.side /\ e.row[i] = r /\ i \in Keys(e)
           /\ \A j \in Ids \ {i} : e.row[j] = d.row[j]
           /\ \A j \in Keys(e) \ {i} : j \in Keys(d)
<1>1. d.row \in [Ids -> ReceiptRow \cup {None}] /\ d.side \in BOOLEAN
  BY DEF Data
<1>2. e.row = [d.row EXCEPT ![i] = r] /\ e.side = d.side /\ e \in Data
  BY <1>1 DEF Data, Written
<1>3. e.row[i] = r /\ \A j \in Ids \ {i} : e.row[j] = d.row[j]
  BY <1>1, <1>2
<1> QED
  BY <1>2, <1>3, NoneAssumption DEF Keys

(* A new key, or a row with the same notification and no fewer duplicates. *)
LEMMA RowKept ==
    ASSUME NEW d \in Data, NEW i \in Ids, NEW r \in ReceiptRow, NEW e,
           e = Written(d, i, r),
           i \in Keys(d) => r.note = d.row[i].note /\ r.dup >= d.row[i].dup
    PROVE  KeepsReceipts(d, e)
<1> SUFFICES ASSUME NEW j \in Keys(d)
             PROVE  /\ j \in Keys(e) /\ e.row[j].note = d.row[j].note
                    /\ e.row[j].dup >= d.row[j].dup
  BY DEF KeepsReceipts
<1>1. CASE j = i
  <2>1. e.row[i] = r /\ i \in Keys(e)
    BY RowWritten
  <2> QED
    BY <1>1, <2>1
<1>2. CASE j # i
  <2>1. e.row[j] = d.row[j] /\ d.row[j] # None /\ j \in Ids
    BY <1>2, RowWritten DEF Keys
  <2>2. d.row[j] \in ReceiptRow
    BY <2>1 DEF Data
  <2>3. d.row[j].dup >= d.row[j].dup
    BY <2>2, MaxIdAssumption DEF ReceiptRow
  <2> QED
    BY <2>1, <2>3 DEF Keys
<1> QED
  BY <1>1, <1>2

LEMMA RowNumbered ==
    ASSUME NEW d \in Data, NEW i \in Ids, NEW r \in ReceiptRow, NEW e,
           e = Written(d, i, r),
           NEW m \in Nat, NEW n \in Nat, m <= n, Numbered(d, m),
           i < n, r.dup + 2 <= n
    PROVE  Numbered(e, n)
<1> SUFFICES ASSUME NEW j \in Keys(e) PROVE j < n /\ e.row[j].dup + 2 <= n
  BY DEF Numbered
<1>1. CASE j = i
  <2>1. e.row[i] = r
    BY RowWritten
  <2> QED
    BY <1>1, <2>1
<1>2. CASE j # i
  <2>1. e.row[j] = d.row[j] /\ j \in Keys(d) /\ j \in Ids
    BY <1>2, RowWritten DEF Keys
  <2>2. d.row[j] \in ReceiptRow /\ j < m /\ d.row[j].dup + 2 <= m
    BY <2>1 DEF Data, Keys, Numbered
  <2>3. j \in Nat /\ d.row[j].dup \in Nat
    BY <2>1, <2>2, MaxIdAssumption DEF ReceiptRow, Ids
  <2> QED
    BY <2>1, <2>2, <2>3
<1> QED
  BY <1>1, <1>2

LEMMA LaterNumbered ==
    ASSUME NEW d \in Data, NEW m \in Nat, NEW n \in Nat, m <= n, Numbered(d, m)
    PROVE  Numbered(d, n)
<1> SUFFICES ASSUME NEW j \in Keys(d) PROVE j < n /\ d.row[j].dup + 2 <= n
  BY DEF Numbered
<1>1. d.row[j] \in ReceiptRow /\ j < m /\ d.row[j].dup + 2 <= m /\ j \in Ids
  BY DEF Data, Keys, Numbered
<1>2. j \in Nat /\ d.row[j].dup \in Nat
  BY <1>1, MaxIdAssumption DEF ReceiptRow, Ids
<1> QED
  BY <1>1, <1>2

-----------------------------------------------------------------------------
(* A writer of one side.  What its transaction will leave keeps the        *)
(* receipts and is numbered below the sequence.                            *)
WriterTx(s) ==
    /\ tx' = [tx EXCEPT ![s] = tx'[s]] /\ tx'[s] \in Data
    /\ next' = [next EXCEPT ![s] = next'[s]]
    /\ next'[s] \in 1..MaxId + 1 /\ next[s] <= next'[s]
    /\ KeepsReceipts(data[s], tx'[s]) /\ Numbered(tx'[s], next'[s])
    /\ s \in up
    /\ UNCHANGED <<data, up, upstream, tool, results, acked>>

LEMMA AcceptWrites ==
    ASSUME CutoverInv, NEW s \in Sides, NEW n \in Notes, Accept(s, n)
    PROVE  WriterTx(s)
<1>1. /\ data[s] \in Data /\ next[s] \in 1..MaxId + 1 /\ Numbered(data[s], next[s])
      /\ tx \in [Sides -> Data \cup {None}] /\ next \in [Sides -> 1..MaxId + 1]
  BY DEF CutoverInv, CutoverTypeOK, RowsInv
<1>2. /\ s \in up /\ next[s] <= MaxId /\ next' = [next EXCEPT ![s] = next[s] + 1]
      /\ UNCHANGED <<data, up, upstream, tool, results, acked>>
  BY DEF Accept, MayWrite
<1>3. /\ next'[s] = next[s] + 1 /\ next[s] \in Ids /\ next[s] \in Nat
      /\ next'[s] \in Nat /\ next'[s] \in 1..MaxId + 1 /\ next[s] <= next'[s]
  BY <1>1, <1>2, MaxIdAssumption DEF Ids
<1>4. PICK i \in Ids, r \in ReceiptRow :
        /\ tx' = [tx EXCEPT ![s] = [data[s] EXCEPT !.row = [data[s].row EXCEPT ![i] = r]]]
        /\ i < next'[s] /\ r.dup + 2 <= next'[s]
        /\ i \in Keys(data[s]) => r.note = data[s].row[i].note /\ r.dup >= data[s].row[i].dup
  <2> DEFINE d == data[s]
             known == {i \in Keys(d) : d.row[i].note = n}
  <2>1. CASE known = {}
    <3> DEFINE r == [note |-> n, dup |-> 0, work |-> "job"]
    <3>1. r \in ReceiptRow /\ r.dup = 0
      BY MaxIdAssumption DEF ReceiptRow
    <3>2. next[s] \notin Keys(data[s])
      BY <1>1, <1>3 DEF Numbered
    <3>3. tx' = [tx EXCEPT ![s] = [d EXCEPT !.row[next[s]] = r]]
      BY <2>1 DEF Accept
    <3>4. 0 + 2 <= next'[s] /\ next[s] < next'[s]
      BY <1>1, <1>3, MaxIdAssumption
    <3> HIDE DEF r
    <3>5. tx' = [tx EXCEPT ![s] = [d EXCEPT !.row = [d.row EXCEPT ![next[s]] = r]]]
      BY <3>3
    <3> QED
      BY <1>3, <3>1, <3>2, <3>4, <3>5
  <2>2. CASE known # {}
    <3>1. PICK i \in known : tx' = [tx EXCEPT ![s] = [d EXCEPT !.row[i].dup = @ + 1]]
      BY <2>2 DEF Accept
    <3>2. i \in Ids /\ d.row[i] \in ReceiptRow /\ i < next[s] /\ d.row[i].dup + 2 <= next[s]
      BY <1>1, <3>1 DEF Keys, Data, Numbered
    <3> DEFINE r == [d.row[i] EXCEPT !.dup = d.row[i].dup + 1]
    <3>3. d.row[i].dup \in Nat /\ d.row[i].dup + 1 \in 0..MaxId
      BY <1>2, <1>3, <3>2, MaxIdAssumption DEF ReceiptRow
    <3>4. r \in ReceiptRow /\ r.note = d.row[i].note /\ r.dup = d.row[i].dup + 1
      BY <3>2, <3>3 DEF ReceiptRow
    <3>5. tx' = [tx EXCEPT ![s] = [d EXCEPT !.row = [d.row EXCEPT ![i] = r]]]
      BY <3>1
    <3> HIDE DEF r
    <3>6. i < next'[s] /\ r.dup + 2 <= next'[s] /\ r.dup >= d.row[i].dup
      BY <1>3, <3>2, <3>3, <3>4 DEF Ids
    <3> QED
      BY <3>2, <3>4, <3>5, <3>6
  <2> QED
    BY <2>1, <2>2
<1>5. PICK e : e = Written(data[s], i, r)
  OBVIOUS
<1>6. e \in Data /\ KeepsReceipts(data[s], e) /\ Numbered(e, next'[s])
  BY <1>1, <1>3, <1>4, <1>5, RowWritten, RowKept, RowNumbered
<1>7. tx' = [tx EXCEPT ![s] = e] /\ tx'[s] = e
  BY <1>1, <1>4, <1>5 DEF Written
<1>8. next' = [next EXCEPT ![s] = next'[s]]
  BY <1>2, <1>3
<1> QED
  BY <1>2, <1>3, <1>6, <1>7, <1>8 DEF WriterTx

LEMMA WorkWrites ==
    ASSUME CutoverInv, NEW s \in Sides, NEW i \in Ids, Work(s, i) \/ WriteSide(s)
    PROVE  WriterTx(s)
<1>1. /\ data[s] \in Data /\ next[s] \in 1..MaxId + 1 /\ Numbered(data[s], next[s])
      /\ tx \in [Sides -> Data \cup {None}] /\ next \in [Sides -> 1..MaxId + 1]
  BY DEF CutoverInv, CutoverTypeOK, RowsInv
<1>2. /\ s \in up /\ next' = next
      /\ UNCHANGED <<data, up, upstream, tool, results, acked>>
  BY DEF Work, WriteSide, MayWrite
<1>3. next[s] \in Nat /\ next[s] <= next[s]
  BY <1>1, MaxIdAssumption
<1>4. CASE Work(s, i)
  <2> DEFINE d == data[s]
             r == [d.row[i] EXCEPT !.work = IF d.row[i].work = "job" THEN "directive" ELSE "idle"]
  <2>1. d.row[i] \in ReceiptRow /\ i \in Keys(d) /\ i < next[s] /\ d.row[i].dup + 2 <= next[s]
    BY <1>1, <1>4 DEF Work, Keys, Data, Numbered
  <2>2. r \in ReceiptRow /\ r.note = d.row[i].note /\ r.dup = d.row[i].dup
    BY <2>1 DEF ReceiptRow
  <2>3. tx' = [tx EXCEPT ![s] = [d EXCEPT !.row = [d.row EXCEPT ![i] = r]]]
    BY <1>4 DEF Work
  <2> HIDE DEF r
  <2>4. r.dup >= d.row[i].dup
    BY <2>1, <2>2, MaxIdAssumption DEF ReceiptRow
  <2>5. PICK e : e = Written(d, i, r)
    OBVIOUS
  <2>6. e \in Data /\ KeepsReceipts(d, e) /\ Numbered(e, next[s])
    BY <1>1, <1>3, <2>1, <2>2, <2>4, <2>5, RowWritten, RowKept, RowNumbered
  <2>7. tx' = [tx EXCEPT ![s] = e] /\ tx'[s] = e
    BY <1>1, <2>3, <2>5 DEF Written
  <2> QED
    BY <1>1, <1>2, <1>3, <2>6, <2>7 DEF WriterTx
<1>5. CASE WriteSide(s)
  <2>1. PICK e : e = [data[s] EXCEPT !.side = TRUE]
    OBVIOUS
  <2>2. e \in Data /\ e.row = data[s].row
    BY <1>1, <2>1 DEF Data
  <2>3. KeepsReceipts(data[s], e) /\ Numbered(e, next[s])
    BY <1>1, <2>2, KeepsItself DEF KeepsReceipts, Numbered, Keys
  <2>4. tx' = [tx EXCEPT ![s] = e] /\ tx'[s] = e
    BY <1>1, <1>5, <2>1 DEF WriteSide
  <2> QED
    BY <1>1, <1>2, <1>3, <2>2, <2>3, <2>4 DEF WriterTx
<1> QED
  BY <1>4, <1>5

LEMMA WriterStep ==
    ASSUME CutoverInv, NEW s \in Sides, WriterTx(s) PROVE CutoverInv'
<1>0. /\ tx \in [Sides -> Data \cup {None}] /\ next \in [Sides -> 1..MaxId + 1]
      /\ data \in [Sides -> Data]
  BY DEF CutoverInv, CutoverTypeOK
<1>1. /\ s \in up /\ tool.pc = "idle" /\ ready = None /\ s = upstream
      /\ UNCHANGED <<data, up, upstream, tool, results, acked>>
  BY DEF WriterTx, CutoverInv, QuietInv, ServeInv
<1>2. /\ UNCHANGED <<baseline, approved, ready>>
      /\ tool'.pc = "idle" /\ ready' = None
  BY <1>1 DEF results
<1>3. /\ tx' \in [Sides -> Data \cup {None}] /\ next' \in [Sides -> 1..MaxId + 1]
      /\ \A t \in Sides \ {s} : tx'[t] = tx[t] /\ next'[t] = next[t]
  BY <1>0 DEF WriterTx
<1>4. CutoverTypeOK'
  BY <1>1, <1>2, <1>3 DEF CutoverInv, CutoverTypeOK
<1>5. ServeInv'
  BY <1>1, <1>3 DEF CutoverInv, ServeInv, WriterTx
<1>6. RowsInv'
  <2>1. Numbered(data[s], next'[s])
    <3>1. next[s] \in Nat /\ next'[s] \in Nat /\ next[s] <= next'[s]
      BY <1>0, <1>3, MaxIdAssumption DEF WriterTx
    <3> QED
      BY <1>0, <3>1, LaterNumbered DEF CutoverInv, RowsInv
  <2> SUFFICES ASSUME NEW t \in Sides
               PROVE  /\ Numbered(data[t], next'[t])
                      /\ tx'[t] # None => Numbered(tx'[t], next'[t])
    BY <1>1 DEF RowsInv
  <2>2. CASE t = s
    BY <2>1, <2>2 DEF WriterTx
  <2>3. CASE t # s
    BY <1>3, <2>3 DEF CutoverInv, RowsInv
  <2> QED
    BY <2>2, <2>3
<1>7. QuietInv' /\ SnapInv' /\ tool'.pc # "commit" /\ ReadyMeansEqual'
  BY <1>2 DEF QuietInv, SnapInv, ReadyMeansEqual
<1>8. AckedIsServed'
  BY <1>1 DEF CutoverInv, AckedIsServed
<1> QED
  BY <1>4, <1>5, <1>6, <1>7, <1>8 DEF CutoverInv

(* A transaction ends.                                                     *)
LEMMA EndOfTransaction ==
    ASSUME CutoverInv, NEW s \in Sides, Commit(s) \/ Abort(s) PROVE CutoverInv'
<1>0. /\ tx \in [Sides -> Data \cup {None}] /\ data \in [Sides -> Data]
      /\ acked \subseteq Notes
  BY DEF CutoverInv, CutoverTypeOK
<1>1. /\ tx[s] # None /\ tx' = [tx EXCEPT ![s] = None]
      /\ UNCHANGED <<next, up, upstream, tool, results>>
  BY DEF Commit, Abort, results
<1>2. /\ tx[s] \in Data /\ s = upstream /\ tool.pc = "idle" /\ ready = None
      /\ KeepsReceipts(data[s], tx[s]) /\ Numbered(tx[s], next[s])
  BY <1>0, <1>1 DEF CutoverInv, QuietInv, ServeInv, RowsInv
<1>3. /\ UNCHANGED <<baseline, approved, ready>> /\ tool'.pc = "idle" /\ ready' = None
  BY <1>1, <1>2 DEF results
<1>4. /\ tx' \in [Sides -> Data \cup {None}] /\ tx'[s] = None
      /\ \A t \in Sides \ {s} : tx'[t] = tx[t]
  BY <1>0, <1>1
<1>5. /\ data' \in [Sides -> Data] /\ \A t \in Sides \ {s} : data'[t] = data[t]
      /\ Numbered(data'[s], next[s])
  BY <1>0, <1>2 DEF Commit, Abort, CutoverInv, RowsInv
<1>6. acked' \subseteq Notes /\ acked' \subseteq NotesOf(data'[upstream])
  <2>1. NotesOf(data[s]) \subseteq NotesOf(tx[s]) /\ NotesOf(tx[s]) \subseteq Notes
    <3>1. \A i \in Keys(tx[s]) : tx[s].row[i] \in ReceiptRow
      BY <1>2 DEF Keys, Data
    <3>2. \A i \in Keys(tx[s]) : tx[s].row[i].note \in Notes
      BY <3>1 DEF ReceiptRow
    <3> QED
      BY <1>2, <3>2, KeptNotes DEF NotesOf
  <2>2. CASE Commit(s)
    <3>1. data'[s] = tx[s] /\ acked' = acked \cup NotesOf(tx[s])
      BY <1>0, <2>2 DEF Commit
    <3> QED
      BY <1>0, <1>2, <2>1, <3>1 DEF CutoverInv, AckedIsServed
  <2>3. CASE Abort(s)
    BY <1>0, <2>3 DEF Abort, CutoverInv, AckedIsServed
  <2> QED
    BY <2>2, <2>3
<1>7. CutoverTypeOK'
  BY <1>1, <1>3, <1>4, <1>5, <1>6 DEF CutoverInv, CutoverTypeOK
<1>8. ServeInv'
  BY <1>1, <1>4, <1>5 DEF CutoverInv, ServeInv
<1>9. RowsInv'
  BY <1>1, <1>4, <1>5 DEF CutoverInv, RowsInv
<1>10. QuietInv' /\ SnapInv' /\ tool'.pc # "commit" /\ ReadyMeansEqual'
  BY <1>3 DEF QuietInv, SnapInv, ReadyMeansEqual
<1>11. AckedIsServed'
  BY <1>1, <1>6 DEF AckedIsServed
<1> QED
  BY <1>7, <1>8, <1>9, <1>10, <1>11 DEF CutoverInv

(* The operator stops or starts a side.                                    *)
LEMMA OperatorStep ==
    ASSUME CutoverInv, (\E s \in Sides : Stop(s)) \/ Resume \/ Switch
    PROVE  CutoverInv'
<1>1. UNCHANGED <<data, next, tx, tool, baseline, approved, acked>>
  BY DEF Stop, Resume, Switch, results
<1>2. tool'.pc # "idle" => UNCHANGED <<upstream, ready>> /\ up' \subseteq up
  BY <1>1 DEF Stop, Resume, Switch, NoTool, results
<1>3. CASE \E s \in Sides : Stop(s)
  <2>1. up' \subseteq up /\ UNCHANGED <<upstream, ready>>
    BY <1>3 DEF Stop, results
  <2>2. CutoverTypeOK' /\ QuietInv' /\ ServeInv' /\ AckedIsServed' /\ ReadyMeansEqual'
    BY <1>1, <2>1 DEF CutoverInv, CutoverTypeOK, QuietInv, ServeInv, AckedIsServed, ReadyMeansEqual
  <2>3. RowsInv' /\ SnapInv' /\ (tool'.pc = "commit" => CommitInv')
    BY <1>1 DEF CutoverInv, RowsInv, SnapInv, Turn, CommitInv, Present
  <2> QED
    BY <2>2, <2>3 DEF CutoverInv
<1>4. CASE Resume
  <2>1. /\ tool.pc = "idle" /\ ready' = None /\ upstream' = upstream
        /\ up' = up \cup {upstream}
    BY <1>4 DEF Resume, NoTool
  <2>2. CutoverTypeOK' /\ QuietInv' /\ ServeInv' /\ AckedIsServed' /\ ReadyMeansEqual'
    BY <1>1, <2>1 DEF CutoverInv, CutoverTypeOK, QuietInv, ServeInv, AckedIsServed, ReadyMeansEqual
  <2>3. RowsInv' /\ SnapInv' /\ tool'.pc # "commit"
    BY <1>1, <2>1 DEF CutoverInv, RowsInv, SnapInv
  <2> QED
    BY <2>2, <2>3 DEF CutoverInv
<1>5. CASE Switch
  <2>1. /\ tool.pc = "idle" /\ ready' = None /\ ready \in Sides /\ ready # None
        /\ upstream' = ready /\ up' = {ready}
    BY <1>5, NoneAssumption DEF Switch, NoTool
  <2>2. data[ready] = data[upstream] /\ \A s \in Sides : tx[s] = None
    BY <2>1 DEF CutoverInv, ReadyMeansEqual, QuietInv, CutoverTypeOK, Sides
  <2>3. CutoverTypeOK' /\ QuietInv' /\ ServeInv' /\ AckedIsServed' /\ ReadyMeansEqual'
    BY <1>1, <2>1, <2>2
    DEF CutoverInv, CutoverTypeOK, QuietInv, ServeInv, AckedIsServed, ReadyMeansEqual
  <2>4. RowsInv' /\ SnapInv' /\ tool'.pc # "commit"
    BY <1>1, <2>1 DEF CutoverInv, RowsInv, SnapInv
  <2> QED
    BY <2>3, <2>4 DEF CutoverInv
<1> QED
  BY <1>3, <1>4, <1>5

-----------------------------------------------------------------------------
(* The tool.  Between its commands nothing but the tool's memory and what  *)
(* it says changes.                                                        *)
LEMMA ToolStep ==
    ASSUME CutoverInv, UNCHANGED services,
           tool' \in Tool, baseline' \in Snapshot \cup {None},
           approved' \in Plan \cup {None}, ready' \in Sides \cup {"baseline", None},
           tool.pc # "idle" \/ tool'.pc # "idle" =>
             up = {} /\ \A s \in Sides : tx[s] = None,
           tool'.pc # "idle" => ready' = None,
           ready' # None => ready' = ready \/ (tool.pc # "idle" /\ Same("cloud", "fnos")),
           SnapInv', tool'.pc = "commit" => CommitInv'
    PROVE  CutoverInv'
<1>1. UNCHANGED <<data, next, tx, up, upstream, acked>>
  BY DEF services
<1>2. CutoverTypeOK'
  BY <1>1 DEF CutoverInv, CutoverTypeOK
<1>3. QuietInv'
  BY <1>1 DEF CutoverInv, QuietInv
<1>4. ServeInv' /\ RowsInv' /\ AckedIsServed'
  BY <1>1 DEF CutoverInv, ServeInv, RowsInv, AckedIsServed
<1>5. ReadyMeansEqual'
  BY <1>1 DEF CutoverInv, ReadyMeansEqual, Same
<1> QED
  BY <1>2, <1>3, <1>4, <1>5 DEF CutoverInv

LEMMA NoToolType == NoTool \in Tool /\ NoTool.pc = "idle" /\ NoTool.locked = {}
BY DEF NoTool, Tool, Modes

(* The tool ends and says nothing, or that the sides are equal, which they are. *)
LEMMA ToolEnds ==
    ASSUME CutoverInv, UNCHANGED services, tool.pc # "idle", End,
           baseline' \in Snapshot \cup {None}, approved' \in Plan \cup {None},
           ready' \in Sides \cup {"baseline", None},
           ready' # None => ready' = ready \/ Same("cloud", "fnos")
    PROVE  CutoverInv'
<1>1. tool' \in Tool /\ tool'.pc = "idle"
  BY NoToolType DEF End
<1>2. SnapInv'
  BY <1>1 DEF SnapInv
<1>3. up = {} /\ \A s \in Sides : tx[s] = None
  BY DEF CutoverInv, QuietInv
<1> QED
  BY <1>1, <1>2, <1>3, ToolStep

LEMMA InvokeStep ==
    ASSUME Drained, CutoverInv, NEW mode \in Modes, NEW execute \in BOOLEAN,
           Invoke(mode, execute)
    PROVE  CutoverInv'
<1>1. /\ tool.pc = "idle" /\ up = {} /\ (\A s \in Sides : tx[s] = None)
      /\ ready' = None /\ UNCHANGED <<services, baseline, approved>>
  BY NoToolType DEF Invoke
<1>2. /\ tool' \in Tool /\ tool'.pc = "begin" /\ tool'.locked = {}
  BY NoToolType DEF Invoke, Tool
<1>3. SnapInv'
  BY <1>2 DEF SnapInv
<1>4. /\ baseline' \in Snapshot \cup {None} /\ approved' \in Plan \cup {None}
      /\ UNCHANGED services
  BY <1>1 DEF CutoverInv, CutoverTypeOK
<1> QED
  BY <1>1, <1>2, <1>3, <1>4, ToolStep

LEMMA LockSteps ==
    ASSUME CutoverInv, BeginFrozen \/ LockTables PROVE CutoverInv'
<1>0. /\ tool \in Tool /\ CutoverTypeOK /\ data \in [Sides -> Data]
      /\ tool.mode \in Modes
  BY DEF CutoverInv, CutoverTypeOK, Tool
<1>1. /\ Turn \in Sides /\ (Turn = Source(tool.mode) \/ Turn = Target(tool.mode))
      /\ (Turn # Source(tool.mode) => Source(tool.mode) \in tool.locked)
  BY <1>0, TurnFacts
<1>2. /\ tool.pc \in {"begin", "lock"} /\ UNCHANGED <<services, results>>
      /\ up = {} /\ ready = None /\ \A s \in Sides : tx[s] = None
  BY DEF BeginFrozen, LockTables, CutoverInv, QuietInv
<1>3. UNCHANGED <<data, baseline, approved, ready>>
  BY <1>2 DEF services, results
<1>4. /\ baseline' \in Snapshot \cup {None} /\ approved' \in Plan \cup {None}
      /\ ready' \in Sides \cup {"baseline", None}
  BY <1>0, <1>3 DEF CutoverTypeOK
<1>5. CASE BeginFrozen
  <2>1. PICK u \in Sides : u = Turn
    BY <1>1
  <2>2. /\ tool.pc = "begin" /\ data[u] \in Data
        /\ tool' = [tool EXCEPT !.snap[u] = data[u], !.pc = "lock"]
    BY <1>0, <1>5, <2>1 DEF BeginFrozen
  <2>3. /\ tool' \in Tool /\ tool'.pc = "lock" /\ tool'.mode = tool.mode
        /\ tool'.locked = tool.locked /\ tool'.snap = [tool.snap EXCEPT ![u] = data[u]]
    BY <1>0, <2>2 DEF Tool
  <2>4. Turn' = Turn
    BY <2>3 DEF Turn
  <2>5. tool.snap \in [Sides -> Data \cup {None}]
    BY <1>0 DEF Tool
  <2>6. SnapInv'
    <3>1. tool'.snap[u] = data[u] /\ \A s \in Sides \ {u} : tool'.snap[s] = tool.snap[s]
      BY <2>3, <2>5
    <3>2. \A s \in tool.locked : s \in Sides /\ tool.snap[s] = data[s]
      BY <1>0, <2>2 DEF CutoverInv, SnapInv, Tool
    <3> QED
      BY <1>3, <2>1, <2>3, <2>4, <3>1, <3>2 DEF SnapInv
  <2> QED
    BY <1>2, <1>3, <1>4, <2>3, <2>6, ToolStep
<1>6. CASE LockTables
  <2>1. PICK u \in Sides : u = Turn
    BY <1>1
  <2>2. PICK pc \in {"begin", "judge", "decide"} :
          /\ tool' = [tool EXCEPT !.locked = tool.locked \cup {u}, !.pc = pc]
          /\ pc # "begin" => u # Source(tool.mode)
    BY <1>6, <2>1 DEF LockTables
  <2>3. /\ tool' \in Tool /\ tool'.pc = pc /\ tool'.snap = tool.snap
        /\ tool'.locked = tool.locked \cup {u}
    BY <1>0, <2>2 DEF Tool
  <2>4. tool.pc = "lock" /\ tool.snap[u] = data[u] /\ \A s \in tool.locked : tool.snap[s] = data[s]
    BY <1>6, <2>1 DEF LockTables, CutoverInv, SnapInv
  <2>5. pc # "begin" => tool'.locked = Sides
    BY <1>0, <1>1, <2>1, <2>2, <2>3, SideFacts DEF Tool
  <2>6. SnapInv'
    BY <1>3, <2>3, <2>4, <2>5 DEF SnapInv
  <2> QED
    BY <1>2, <1>3, <1>4, <2>2, <2>3, <2>6, ToolStep
<1> QED
  BY <1>5, <1>6

(* What the tool decides on is what both sides hold.                       *)
LEMMA FrozenPair ==
    ASSUME CutoverInv, tool.pc \in {"decide", "judge"}
    PROVE  LET s == Source(tool.mode)  t == Target(tool.mode) IN
           /\ s \in Sides /\ t \in Sides /\ s # t /\ Sides = {s, t}
           /\ tool.snap[s] = data[s] /\ tool.snap[t] = data[t]
           /\ Frozen.source = Present(s) /\ Frozen.target = Present(t)
           /\ Present(s) \in Snapshot /\ Present(t) \in Snapshot
           /\ SnapshotsEqual(Frozen.source, Frozen.target) => Same("cloud", "fnos")
<1> DEFINE s == Source(tool.mode)
           t == Target(tool.mode)
<1>1. CutoverTypeOK /\ tool.mode \in Modes /\ tool.locked = Sides
  BY DEF CutoverInv, CutoverTypeOK, Tool, SnapInv
<1>2. s \in Sides /\ t \in Sides /\ s # t /\ Sides = {s, t}
  BY <1>1, SideFacts
<1>3. tool.snap[s] = data[s] /\ tool.snap[t] = data[t]
  BY <1>1, <1>2 DEF CutoverInv, SnapInv
<1> HIDE DEF s, t
<1>4. /\ SnapshotOf(s) = Present(s) /\ SnapshotOf(t) = Present(t)
      /\ Present(s) \in Snapshot /\ Present(t) \in Snapshot
  BY <1>1, <1>2, <1>3, PresentSnapshot
<1>5. Frozen.source = Present(s) /\ Frozen.target = Present(t)
  BY <1>4 DEF Frozen, s, t
<1>6. Present(s) = Present(t) => Same(s, t)
  BY <1>1, <1>2, EqualPresents
<1>7. Same(s, t) => Same("cloud", "fnos")
  BY <1>2 DEF Same, Sides
<1> QED
  BY <1>2, <1>3, <1>4, <1>5, <1>6, <1>7 DEF SnapshotsEqual, s, t

LEMMA FailStep == ASSUME CutoverInv, Fail PROVE CutoverInv'
<1>1. tool.pc # "idle" /\ End /\ UNCHANGED services /\ UNCHANGED <<baseline, approved, ready>>
  BY DEF Fail, results
<1> QED
  BY <1>1, ToolEnds DEF CutoverInv, CutoverTypeOK

LEMMA ForwardStep == ASSUME CutoverInv, RunForward PROVE CutoverInv'
<1>1. /\ tool.pc = "decide" /\ End /\ UNCHANGED services /\ approved' = approved
      /\ baseline' = Frozen.source /\ ready' = "fnos"
      /\ SnapshotsEqual(Frozen.source, Frozen.target)
  BY DEF RunForward, Admitted
<1>2. Frozen.source \in Snapshot /\ Same("cloud", "fnos")
  BY <1>1, FrozenPair
<1> QED
  BY <1>1, <1>2, ToolEnds DEF CutoverInv, CutoverTypeOK, Sides

(* The plan of a run that is not a forward is a plan.                      *)
LEMMA PlanType ==
    ASSUME NEW mode \in Modes, mode # "forward", NEW fs \in Snapshot, NEW ft \in Snapshot,
           NEW b \in Snapshot \cup {None}
    PROVE  /\ PlanOf(mode, b, fs, ft) \in Plan
           /\ PlanOf(mode, b, fs, ft).source = fs /\ PlanOf(mode, b, fs, ft).target = ft
BY DEF PlanOf, Plan, Modes

LEMMA DryRunStep == ASSUME CutoverInv, DryRun PROVE CutoverInv'
<1>1. /\ tool.pc = "decide" /\ End /\ UNCHANGED services /\ baseline' = baseline
      /\ approved' = PlanOf(tool.mode, baseline, Frozen.source, Frozen.target)
      /\ ready' = None \/ SnapshotsEqual(Frozen.source, Frozen.target)
      /\ ready' \in {"cloud", "baseline", None} /\ tool.mode # "forward"
  BY DEF DryRun, Allows
<1>2. /\ Frozen.source \in Snapshot /\ Frozen.target \in Snapshot
      /\ SnapshotsEqual(Frozen.source, Frozen.target) => Same("cloud", "fnos")
  BY <1>1, FrozenPair
<1>3. baseline \in Snapshot \cup {None} /\ tool.mode \in Modes
  BY DEF CutoverInv, CutoverTypeOK, Tool
<1>4. approved' \in Plan
  BY <1>1, <1>2, <1>3, PlanType
<1> QED
  BY <1>1, <1>2, <1>3, <1>4, ToolEnds DEF Sides

LEMMA JudgeStep == ASSUME CutoverInv, Judge PROVE CutoverInv'
<1>1. /\ tool.pc = "judge" /\ End /\ UNCHANGED services /\ UNCHANGED <<baseline, approved>>
      /\ ready' \in {"cloud", "baseline"}
      /\ Verified(Frozen.source, Frozen.target)
  BY DEF Judge, Allows
<1>2. SnapshotsEqual(Frozen.source, Frozen.target)
  BY <1>1 DEF Verified, SnapshotsEqual
<1>3. Same("cloud", "fnos")
  BY <1>1, <1>2, FrozenPair
<1> QED
  BY <1>1, <1>3, ToolEnds DEF CutoverInv, CutoverTypeOK, Sides

LEMMA AlreadyAppliedStep == ASSUME CutoverInv, AlreadyApplied PROVE CutoverInv'
<1>1. /\ tool.pc = "decide" /\ UNCHANGED services /\ UNCHANGED <<baseline, approved, ready>>
      /\ tool' = [tool EXCEPT !.pc = "begin", !.readback = TRUE, !.locked = {},
                              !.frozen = Frozen.source]
  BY DEF AlreadyApplied, results
<1>2. Frozen.source \in Snapshot
  BY <1>1, FrozenPair
<1>3. tool \in Tool
  BY DEF CutoverInv, CutoverTypeOK
<1>4. tool' \in Tool /\ tool'.pc = "begin" /\ tool'.locked = {}
  BY <1>1, <1>2, <1>3 DEF Tool
<1>5. SnapInv'
  BY <1>4 DEF SnapInv
<1>6. ready = None /\ up = {} /\ \A s \in Sides : tx[s] = None
  BY <1>1 DEF CutoverInv, QuietInv
<1> QED
  BY <1>1, <1>4, <1>5, <1>6, ToolStep DEF CutoverInv, CutoverTypeOK

LEMMA ApplyStep == ASSUME CutoverInv, Apply PROVE CutoverInv'
<1> DEFINE s == Source(tool.mode)
           t == Target(tool.mode)
<1>1. /\ tool.pc = "decide" /\ UNCHANGED services /\ UNCHANGED <<baseline, approved, ready>>
      /\ tool.mode # "forward" /\ Admitted(tool.mode, Frozen.source, Frozen.target)
      /\ ~SnapshotsEqual(Frozen.source, Frozen.target)
      /\ approved = PlanOf(tool.mode, baseline, Frozen.source, Frozen.target)
      /\ Converged(Frozen.source, Frozen.target) = Frozen.source
      /\ tool' = [tool EXCEPT !.pc = "commit", !.frozen = Frozen.source, !.locked = {t}]
  BY DEF Apply, Approved, SnapshotsEqual, results
<1>2. /\ s \in Sides /\ t \in Sides /\ s # t
      /\ tool.snap[t] = data[t]
      /\ Frozen.source = Present(s) /\ Frozen.target = Present(t)
      /\ Present(s) \in Snapshot /\ Present(t) \in Snapshot
  BY <1>1, FrozenPair
<1>3. /\ tool \in Tool /\ tool.mode \in Modes /\ baseline \in Snapshot \cup {None}
      /\ data[s] \in Data /\ data[t] \in Data
  BY <1>2 DEF CutoverInv, CutoverTypeOK, Tool
<1>4. /\ tool' \in Tool /\ tool'.pc = "commit" /\ tool'.mode = tool.mode
      /\ tool'.snap = tool.snap /\ tool'.frozen = Present(s)
  BY <1>1, <1>2, <1>3 DEF Tool
<1>5. approved.source = Present(s) /\ approved.target = Present(t)
  BY <1>1, <1>2, <1>3, PlanType
<1>6. KeepsReceipts(Present(t), Present(s))
  BY <1>1, <1>2, <1>3, AdmittedKeeps
<1>7. KeepsReceipts(data[t], data[s])
  BY <1>6 DEF KeepsReceipts, Present, Keys
<1>8. data[t].side => data[s].side
  <2>1. (data[s].side \/ data[t].side) = data[s].side
    BY <1>1, <1>2 DEF Converged, Present
  <2> QED
    BY <2>1
<1>9. SnapInv'
  BY <1>4 DEF SnapInv
<1>10. UNCHANGED <<data, next, approved>>
  BY <1>1 DEF services
<1>11. CommitInv'
  BY <1>2, <1>4, <1>5, <1>7, <1>8, <1>10 DEF CommitInv, Present
<1>12. ready = None /\ up = {} /\ \A q \in Sides : tx[q] = None
  BY <1>1 DEF CutoverInv, QuietInv
<1> QED
  BY <1>1, <1>4, <1>9, <1>11, <1>12, ToolStep DEF CutoverInv, CutoverTypeOK

-----------------------------------------------------------------------------
(* COMMIT.  The target is as it was, or it is what the source is.          *)
LEMMA Installs ==
    ASSUME CutoverInv, CommitTarget
    PROVE  LET s == Source(tool.mode)  t == Target(tool.mode) IN
           /\ s \in Sides /\ t \in Sides /\ s # t
           /\ \/ UNCHANGED <<data, next>>
              \/ /\ data' = [data EXCEPT ![t] = data[s]]
                 /\ next' = [next EXCEPT ![t] = next[s]]
<1> DEFINE s == Source(tool.mode)
           t == Target(tool.mode)
<1>1. tool.pc = "commit" /\ tool.mode \in Modes
  BY DEF CommitTarget, CutoverInv, CutoverTypeOK, Tool
<1>2. s \in Sides /\ t \in Sides /\ s # t
  BY <1>1, SideFacts
<1>3. /\ tool.snap[t] = data[t] /\ tool.frozen = Present(s)
      /\ (data[t].side => data[s].side)
  BY <1>1 DEF CutoverInv, CommitInv
<1>4. data[s] \in Data /\ data[t] \in Data
  BY <1>2 DEF CutoverInv, CutoverTypeOK
<1>5. CASE ~UNCHANGED <<data, next>>
  <2>1. /\ data' = [data EXCEPT ![t] = Installed(t)]
        /\ next' = [next EXCEPT ![t] = tool.frozen.next]
    BY <1>5 DEF CommitTarget, Restarted
  <2> HIDE DEF s, t
  <2>2. PICK d \in Data, e \in Data : d = data[s] /\ e = data[t]
    BY <1>4
  <2>3. /\ d.row \in [Ids -> ReceiptRow \cup {None}] /\ d.side \in BOOLEAN
        /\ e.side \in BOOLEAN /\ d = [row |-> d.row, side |-> d.side]
    BY <2>2 DEF Data
  <2>4. tool.frozen.row = d.row /\ tool.frozen.side = d.side /\ tool.frozen.next = next[s]
    BY <1>3, <2>2 DEF Present
  <2>5. Installed(t) = [row |-> [i \in Ids |-> d.row[i]], side |-> d.side \/ e.side]
    <3>1. \A i \in Ids : (IF tool.frozen.row[i] # tool.snap[t].row[i]
                          THEN tool.frozen.row[i] ELSE data[t].row[i]) = d.row[i]
      BY <1>3, <2>4
    <3> QED
      BY <2>2, <2>4, <3>1 DEF Installed
  <2>6. (d.side \/ e.side) = d.side
    BY <1>3, <2>2, <2>3
  <2>7. [i \in Ids |-> d.row[i]] = d.row
    BY <2>3
  <2>8. Installed(t) = data[s]
    BY <2>2, <2>3, <2>5, <2>6, <2>7
  <2> QED
    BY <1>2, <2>1, <2>4, <2>8 DEF s, t
<1> QED
  BY <1>2, <1>5

LEMMA CommitStep == ASSUME CutoverInv, CommitTarget PROVE CutoverInv'
<1>1. PICK s \in Sides, t \in Sides :
        /\ s = Source(tool.mode) /\ t = Target(tool.mode) /\ s # t
        /\ \/ UNCHANGED <<data, next>>
           \/ /\ data' = [data EXCEPT ![t] = data[s]]
              /\ next' = [next EXCEPT ![t] = next[s]]
  BY Installs
<1>2. /\ tool.pc = "commit" /\ UNCHANGED <<tx, up, upstream, acked, baseline, approved, ready>>
      /\ \/ tool' = [tool EXCEPT !.pc = "begin", !.readback = TRUE, !.locked = {}]
         \/ tool' = NoTool
  BY DEF CommitTarget, End, results
<1>3. /\ tool \in Tool /\ data \in [Sides -> Data] /\ next \in [Sides -> 1..MaxId + 1]
      /\ ready = None /\ up = {} /\ \A q \in Sides : tx[q] = None
  BY <1>2 DEF CutoverInv, CutoverTypeOK, QuietInv
<1>4. tool' \in Tool /\ tool'.pc \in {"begin", "idle"} /\ tool'.locked = {}
  BY <1>2, <1>3, NoToolType DEF Tool
<1>5. /\ data' \in [Sides -> Data] /\ next' \in [Sides -> 1..MaxId + 1]
      /\ \A q \in Sides \ {t} : data'[q] = data[q] /\ next'[q] = next[q]
      /\ \/ data'[t] = data[t] /\ next'[t] = next[t]
         \/ data'[t] = data[s] /\ next'[t] = next[s]
  BY <1>1, <1>3
<1>6. CutoverTypeOK'
  BY <1>2, <1>4, <1>5 DEF CutoverInv, CutoverTypeOK
<1>7. QuietInv' /\ SnapInv' /\ ReadyMeansEqual' /\ tool'.pc # "commit"
  BY <1>2, <1>3, <1>4 DEF QuietInv, SnapInv, ReadyMeansEqual
<1>8. ServeInv'
  BY <1>2, <1>3 DEF ServeInv
<1>9. RowsInv'
  BY <1>2, <1>3, <1>5 DEF CutoverInv, RowsInv
<1>10. AckedIsServed'
  <2>1. NotesOf(data[t]) \subseteq NotesOf(data[s])
    BY <1>1, <1>2, KeptNotes DEF CutoverInv, CommitInv
  <2>2. NotesOf(data[upstream]) \subseteq NotesOf(data'[upstream])
    BY <1>3, <1>5, <2>1 DEF CutoverInv, CutoverTypeOK
  <2> QED
    BY <1>2, <2>2 DEF CutoverInv, AckedIsServed
<1> QED
  BY <1>6, <1>7, <1>8, <1>9, <1>10 DEF CutoverInv

-----------------------------------------------------------------------------
LEMMA CutoverInitInv == CutoverInit => CutoverInv
<1> SUFFICES ASSUME CutoverInit PROVE CutoverInv
  OBVIOUS
<1> DEFINE With(x) == [row |-> [i \in Ids |-> IF i = 1 THEN x ELSE None], side |-> FALSE]
           After(x) == IF x = None THEN 1 ELSE x.dup + 2
           one == [note |-> First, dup |-> 0, work |-> "idle"]
           Stored == {None} \cup [note: Notes, dup: 0..1, work: {"idle"}]
<1>1. PICK r \in Stored :
        /\ data = [s \in Sides |-> With(IF s = "cloud" THEN one ELSE r)]
        /\ next = [s \in Sides |-> After(IF s = "cloud" THEN one ELSE r)]
  BY DEF CutoverInit
<1>2. /\ tx = [s \in Sides |-> None] /\ up = {"cloud"} /\ upstream = "cloud"
      /\ tool = NoTool /\ baseline = None /\ approved = None /\ ready = None
      /\ acked = {First}
  BY DEF CutoverInit
<1>3. one \in Stored /\ one # None
  <2>1. one \in ReceiptRow
    BY FirstAssumption, MaxIdAssumption DEF ReceiptRow
  <2> QED
    BY <2>1, FirstAssumption, NoneAssumption
<1>4. ASSUME NEW x \in Stored
      PROVE  /\ With(x) \in Data /\ After(x) \in 1..MaxId + 1
             /\ With(x).row[1] = x /\ Keys(With(x)) \subseteq {1}
             /\ Numbered(With(x), After(x))
  <2>0. 0 \in 0..MaxId /\ 1 \in 0..MaxId /\ 1 \in Ids /\ MaxId >= 2 /\ MaxId \in Nat
    BY MaxIdAssumption DEF Ids
  <2>1. x \in ReceiptRow \cup {None} /\ (x # None => x.dup \in 0..1)
    BY <1>4, <2>0 DEF ReceiptRow
  <2>2. With(x) \in Data /\ With(x).row = [i \in Ids |-> IF i = 1 THEN x ELSE None]
    BY <2>1 DEF Data
  <2>3. After(x) \in 1..MaxId + 1
    BY <2>0, <2>1
  <2>4. With(x).row[1] = x /\ Keys(With(x)) \subseteq {1}
    BY <2>0, <2>2 DEF Keys
  <2>5. ASSUME NEW i \in Keys(With(x)) PROVE i < After(x) /\ With(x).row[i].dup + 2 <= After(x)
    <3>1. i = 1 /\ x # None
      BY <2>4, <2>5 DEF Keys
    <3> QED
      BY <2>1, <2>4, <3>1
  <2> HIDE DEF With, After
  <2> QED
    BY <2>2, <2>3, <2>4, <2>5 DEF Numbered
<1> HIDE DEF With, After, Stored
<1>5. /\ data \in [Sides -> Data] /\ next \in [Sides -> 1..MaxId + 1]
      /\ \A s \in Sides : Numbered(data[s], next[s])
  BY <1>1, <1>3, <1>4
<1>6. acked \subseteq NotesOf(data[upstream])
  <2>1. data["cloud"].row[1] = one /\ 1 \in Ids
    BY <1>1, <1>3, <1>4, MaxIdAssumption DEF Sides, Ids
  <2>2. data["cloud"].row[1].note = First
    BY <2>1
  <2> HIDE DEF one
  <2> QED
    BY <1>2, <1>3, <2>1, <2>2 DEF NotesOf, Keys
<1>7. CutoverTypeOK
  BY <1>2, <1>5, NoToolType, FirstAssumption DEF CutoverTypeOK, Sides
<1>8. QuietInv /\ SnapInv /\ tool.pc # "commit" /\ ReadyMeansEqual
  BY <1>2, NoToolType DEF QuietInv, SnapInv, ReadyMeansEqual
<1>9. ServeInv /\ RowsInv
  BY <1>2, <1>5 DEF ServeInv, RowsInv
<1> QED
  BY <1>6, <1>7, <1>8, <1>9 DEF CutoverInv, AckedIsServed

(* Every step keeps the invariant.                                         *)
LEMMA CutoverInvStep ==
    ASSUME Drained PROVE CutoverInv /\ [CutoverNext]_cutoverVars => CutoverInv'
<1> SUFFICES ASSUME CutoverInv, [CutoverNext]_cutoverVars PROVE CutoverInv'
  OBVIOUS
<1>1. ASSUME NEW s \in Sides, NEW n \in Notes, Accept(s, n) PROVE CutoverInv'
  BY <1>1, AcceptWrites, WriterStep
<1>2. ASSUME NEW s \in Sides, NEW i \in Ids, Work(s, i) \/ WriteSide(s) PROVE CutoverInv'
  BY <1>2, WorkWrites, WriterStep
<1>3. ASSUME NEW s \in Sides, WriteSide(s) PROVE CutoverInv'
  <2>1. 1 \in Ids
    BY MaxIdAssumption DEF Ids
  <2> QED
    BY <1>2, <1>3, <2>1
<1>4. ASSUME NEW s \in Sides, Commit(s) \/ Abort(s) PROVE CutoverInv'
  BY <1>4, EndOfTransaction
<1>5. ASSUME (\E s \in Sides : Stop(s)) \/ Resume \/ Switch PROVE CutoverInv'
  BY <1>5, OperatorStep
<1>6. ASSUME NEW mode \in Modes, NEW execute \in BOOLEAN, Invoke(mode, execute)
      PROVE  CutoverInv'
  BY <1>6, InvokeStep
<1>7. ASSUME \/ BeginFrozen \/ LockTables \/ Fail \/ RunForward \/ DryRun
             \/ AlreadyApplied \/ Apply \/ CommitTarget \/ Judge
      PROVE  CutoverInv'
  BY <1>7, LockSteps, FailStep, ForwardStep, DryRunStep, AlreadyAppliedStep, ApplyStep,
     CommitStep, JudgeStep
<1>8. ASSUME UNCHANGED cutoverVars PROVE CutoverInv'
  BY <1>8 DEF cutoverVars, CutoverInv, CutoverTypeOK, QuietInv, ServeInv, RowsInv, SnapInv,
     CommitInv, Turn, Present, AckedIsServed, ReadyMeansEqual
<1> QED
  BY <1>1, <1>2, <1>3, <1>4, <1>5, <1>6, <1>7, <1>8 DEF CutoverNext

(* The invariant holds always.                                             *)
LEMMA CutoverInvCorrect == ASSUME Drained PROVE CutoverSpec => []CutoverInv
<1>1. CutoverInv /\ [CutoverNext]_cutoverVars => CutoverInv'
  BY CutoverInvStep
<1> QED
  BY <1>1, CutoverInitInv, PTL DEF CutoverSpec

(* Whatever commands are given, interrupted and repeated, in whatever       *)
(* order, on databases without open writers: what was acknowledged is where *)
(* the webhook goes, no sequence hands out a key twice, and a readiness     *)
(* flag means two equal databases.                                         *)
THEOREM CutoverIsSafe == ASSUME Drained PROVE CutoverSpec => []CutoverSafety
<1>1. CutoverInv => CutoverSafety
  <2> SUFFICES ASSUME CutoverInv, NEW s \in Sides PROVE next[s] > MaxKey(data[s])
    BY DEF CutoverInv, CutoverSafety, SequenceIsAhead
  <2>1. next[s] \in 1..MaxId + 1 /\ Numbered(data[s], next[s])
    BY DEF CutoverInv, CutoverTypeOK, RowsInv
  <2> QED
    BY <2>1, NumberedIsAhead
<1> QED
  BY <1>1, CutoverInvCorrect, PTL

(* What a step can make of a database.                                     *)
LEMMA DataMoves ==
    ASSUME CutoverInv, [CutoverNext]_cutoverVars, NEW s \in Sides
    PROVE  \/ data'[s] = data[s]
           \/ Commit(s) /\ data'[s] = tx[s]
           \/ /\ CommitTarget /\ s = Target(tool.mode)
              /\ data'[s] = data[Source(tool.mode)]
<1>0. data \in [Sides -> Data]
  BY DEF CutoverInv, CutoverTypeOK
<1>1. ASSUME NEW q \in Sides, Commit(q)
      PROVE  data'[s] = data[s] \/ (Commit(s) /\ data'[s] = tx[s])
  BY <1>0, <1>1 DEF Commit
<1>2. ASSUME CommitTarget
      PROVE  \/ data'[s] = data[s]
             \/ s = Target(tool.mode) /\ data'[s] = data[Source(tool.mode)]
  BY <1>0, <1>2, Installs
<1>3. ASSUME \/ \E q \in Sides : \/ \E n \in Notes : Accept(q, n)
                                 \/ \E i \in Ids : Work(q, i)
                                 \/ WriteSide(q) \/ Abort(q) \/ Stop(q)
             \/ Resume \/ Switch
             \/ \E mode \in Modes, execute \in BOOLEAN : Invoke(mode, execute)
             \/ BeginFrozen \/ LockTables \/ Fail \/ RunForward \/ DryRun
             \/ AlreadyApplied \/ Apply \/ Judge
             \/ UNCHANGED cutoverVars
      PROVE  data' = data
  BY <1>3 DEF Accept, Work, WriteSide, Abort, Stop, Resume, Switch, Invoke, BeginFrozen,
     LockTables, Fail, RunForward, DryRun, AlreadyApplied, Apply, Judge, services, cutoverVars
<1> QED
  BY <1>1, <1>2, <1>3 DEF CutoverNext

(* No step of anyone loses a receipt, changes one, or takes a duplicate    *)
(* back.                                                                   *)
THEOREM CutoverKeepsReceipts == ASSUME Drained PROVE CutoverSpec => ReceiptsAreKept
<1> DEFINE Keeps == \A s \in Sides : \A i \in Keys(data[s]) :
             /\ i \in Keys(data'[s])
             /\ data'[s].row[i].note = data[s].row[i].note
             /\ data'[s].row[i].dup >= data[s].row[i].dup
<1>1. ASSUME CutoverInv, [CutoverNext]_cutoverVars PROVE Keeps
  <2>1. ASSUME NEW s \in Sides PROVE KeepsReceipts(data[s], data'[s])
    <3>0. data[s] \in Data
      BY <1>1 DEF CutoverInv, CutoverTypeOK
    <3>1. CASE data'[s] = data[s]
      BY <3>0, <3>1, KeepsItself
    <3>2. CASE Commit(s) /\ data'[s] = tx[s]
      BY <1>1, <3>2 DEF Commit, CutoverInv, ServeInv
    <3>3. CASE /\ CommitTarget /\ s = Target(tool.mode)
               /\ data'[s] = data[Source(tool.mode)]
      BY <1>1, <3>3 DEF CommitTarget, CutoverInv, CommitInv
    <3> QED
      BY <1>1, <3>1, <3>2, <3>3, DataMoves
  <2> QED
    BY <2>1 DEF KeepsReceipts
<1>2. CutoverInv /\ [CutoverNext]_cutoverVars => [Keeps]_cutoverVars
  BY <1>1
<1> HIDE DEF Keeps
<1>3. CutoverSpec => [][Keeps]_cutoverVars
  BY <1>2, CutoverInvCorrect, PTL DEF CutoverSpec
<1> QED
  BY <1>3 DEF Keeps, ReceiptsAreKept

(* COMMIT reaches a target that is as the approved plan found it, from a   *)
(* source that is as well, and leaves both equal.                          *)
THEOREM CutoverFollowsThePlan == ASSUME Drained PROVE CutoverSpec => OnlyTheApprovedPlan
<1> DEFINE Planned == tool.pc = "commit" /\ data' # data =>
             LET s == Source(tool.mode)  t == Target(tool.mode)
             IN  /\ approved.source = Present(s) /\ approved.target = Present(t)
                 /\ data'[t] = data[s]
<1>1. ASSUME CutoverInv, CutoverInv', [CutoverNext]_cutoverVars PROVE Planned
  <2> SUFFICES ASSUME tool.pc = "commit", data' # data
               PROVE  LET s == Source(tool.mode)  t == Target(tool.mode)
                      IN  /\ approved.source = Present(s) /\ approved.target = Present(t)
                          /\ data'[t] = data[s]
    OBVIOUS
  <2>1. PICK q \in Sides : data'[q] # data[q]
    BY <1>1 DEF CutoverInv, CutoverTypeOK
  <2>2. tx[q] = None
    BY <1>1 DEF CutoverInv, QuietInv
  <2>3. q = Target(tool.mode) /\ data'[q] = data[Source(tool.mode)]
    BY <1>1, <2>1, <2>2, DataMoves DEF Commit
  <2> QED
    BY <1>1, <2>3 DEF CutoverInv, CommitInv
<1>2. CutoverInv /\ CutoverInv' /\ [CutoverNext]_cutoverVars => [Planned]_cutoverVars
  BY <1>1
<1> HIDE DEF Planned
<1>3. CutoverSpec => [][Planned]_cutoverVars
  BY <1>2, CutoverInvCorrect, PTL DEF CutoverSpec
<1> QED
  BY <1>3 DEF Planned, OnlyTheApprovedPlan
=============================================================================
