------------------------------- MODULE Supply -------------------------------
(***************************************************************************)
(* Supply synchronisation of one store: scripts/sync_full_managed_supply   *)
(* .mjs (runSupplySync, syncStore) over src/warehouse/supply-repository    *)
(* .mjs and db/migrations/0006.  A run opens one attempt per selected      *)
(* domain in an append-only ledger, fetches the domains one after another, *)
(* loads the primary ones in one transaction and the inventory in another, *)
(* and closes its attempts.                                                *)
(*                                                                         *)
(* Stores share only the loader's advisory lock, which makes a load one    *)
(* step; one store is modelled, with one purchase order (the mother of at  *)
(* most one JIT child), one delivery and one inventory type.  Everything a *)
(* run writes carries the time it was planned at, not the time it fetched; *)
(* orders alone are ordered by the platform's update time.                 *)
(* An answer whose window misses the order leaves it as it is and is not   *)
(* modelled.  Two runs of one id are in module Backfill; here each run has *)
(* its own and no two are planned at the same instant.                     *)
(***************************************************************************)
EXTENDS Naturals, Sequences

CONSTANTS
    Runs,           \* invocations: coordinator, hydration, backfill, operator
    Requests,       \* what is asked of a run: freshness scope, domains in order
    Skus,
    MaxTime,        \* how far the clock goes
    LiveMaxAge,     \* a success older than this is stale (5 hours)
    StartedTimeout, \* an attempt open for longer is stale (45 minutes)
    MaxUpsets,      \* sales loads, and changes of the order without a new time
    MaxFaults,      \* failed calls, lost answers and deaths
    MayOverlap      \* a run may start while another is under way

Primary == <<"catalog", "details", "advice", "orders", "deliveries">>
Docs == {"orders", "deliveries"}
Domains == {Primary[i] : i \in DOMAIN Primary} \union {"inventory"}

\* A request asks for one domain at least (uniqueCsv).
ASSUME SelectionAssumption ==
    /\ Requests \subseteq [scope : {"LIVE", "BACKFILL"}, domains : Seq(Domains) \ {<<>>}]
    /\ MaxTime \in Nat \ {0} /\ LiveMaxAge \in Nat /\ StartedTimeout \in Nat
    /\ MaxUpsets \in Nat /\ MaxFaults \in Nat

VARIABLES
    now,        \* the clock that the platform and the runs share
    site,       \* the platform's order: update time, content, silent changes
    sales,      \* membership authority: usable evidence, active SKUs, loads
    row,        \* stored order and delivery
    lines,      \* their line versions
    jit,        \* versions of the order's JIT relation
    sku,        \* source time of the SKUs' catalog and detail attributes
    projection, \* projection batches of stock advice and inventory
    recon,      \* source time of each SKU's inventory reconciliation
    batches,    \* raw batches: run, domain and effective time
    ledger,     \* attempt events
    m,          \* the memory of each run
    overlapped, \* two runs were under way at once
    faults

warehouse == <<row, lines, jit, sku, projection, recon, batches>>
world == <<now, site, sales>>
vars == <<now, site, sales, row, lines, jit, sku, projection, recon, batches,
          ledger, m, overlapped, faults>>

-----------------------------------------------------------------------------
(* The memory of a run.                                                    *)

NoDoc == [time |-> 0, content |-> "none"]
NoRequest == [scope |-> "LIVE", domains |-> <<>>]
Fresh == [pc |-> "idle", ask |-> NoRequest, time |-> 0, i |-> 1, open |-> <<>>, known |-> FALSE,
          universe |-> {}, moved |-> FALSE,
          doc |-> [d \in Docs |-> NoDoc], seen |-> {},
          res |-> [d \in Domains |-> "none"], cov |-> [d \in Domains |-> "COMPLETE"],
          status |-> "running"]
Gone(pc, status) == [Fresh EXCEPT !.pc = pc, !.status = status]

Active(r) == m[r].pc \notin {"idle", "done", "dead"}

\* details need the catalog, which is then fetched and loaded without an attempt
\* of its own.
Selected(r) == m[r].ask.domains
Chosen(r) == {Selected(r)[i] : i \in DOMAIN Selected(r)}
Needed(r, d) == d \in Chosen(r) \/ (d = "catalog" /\ "details" \in Chosen(r))
\* The places in Primary that are still to be fetched, in that order.
Todo(r) == {k \in DOMAIN Primary : Needed(r, Primary[k]) /\ m[r].res[Primary[k]] = "none"}
WithInventory(r) == "inventory" \in Chosen(r)

-----------------------------------------------------------------------------
(* The platform and the sales loader.                                      *)

Contents == {"plain", "linked"}

\* The order changes and the platform stamps the change.
SiteUpdate ==
    /\ now < MaxTime
    /\ now' = now + 1
    /\ \E c \in Contents : site' = [site EXCEPT !.time = now + 1, !.content = c]
    /\ UNCHANGED <<sales, warehouse, ledger, m, overlapped, faults>>

\* It has been seen to change an order and keep the order's update time.
SilentUpdate ==
    /\ site.silent + sales.loads < MaxUpsets
    /\ \E c \in Contents \ {site.content} :
          site' = [site EXCEPT !.content = c, !.silent = @ + 1]
    /\ UNCHANGED <<now, sales, warehouse, ledger, m, overlapped, faults>>

\* A sales load sets the active SKUs, under the lock the supply loads take, and
\* leaves evidence that readActiveFullManagedSkuUniverse accepts, or not.
SalesLoad ==
    /\ site.silent + sales.loads < MaxUpsets
    /\ \E a \in SUBSET Skus, u \in BOOLEAN :
          /\ <<a, u>> # <<sales.active, sales.usable>>
          /\ sales' = [usable |-> u, active |-> a, loads |-> sales.loads + 1]
    /\ m' = [r \in Runs |-> [m[r] EXCEPT !.moved =
                @ \/ (m[r].known /\ sales'.active # sales.active)]]
    /\ UNCHANGED <<now, site, warehouse, ledger, overlapped, faults>>

-----------------------------------------------------------------------------
(* The ledger.                                                             *)

\* A committed event, a failure before it or a lost answer after it: the run
\* goes on with ok, or with bad.
Record(r, event, ok, bad) ==
    \/ /\ ledger' = ledger \union {event}
       /\ m' = [m EXCEPT ![r] = ok]
       /\ UNCHANGED faults
    \/ /\ faults < MaxFaults
       /\ faults' = faults + 1
       /\ ledger' \in {ledger, ledger \union {event}}
       /\ m' = [m EXCEPT ![r] = bad]

\* Mutant: events carry the time they are written at.
Event_Wall(r, d, status) ==
    [run |-> r, scope |-> m[r].ask.scope, domain |-> d, status |-> status, at |-> now]

\* Started and completed alike carry the time of the plan.
Event(r, d, status) ==
    [run |-> r, scope |-> m[r].ask.scope, domain |-> d, status |-> status, at |-> m[r].time]

\* SUPPLY_SYNC_HEALTH_SQL: the last event of the newest attempt of the scope.
Health(scope, d) ==
    LET E == {e \in ledger : e.domain = d /\ e.scope = scope}
        top == {e \in E : \A f \in E : f.at <= e.at}
    IN  {e \in top : e.status = "STARTED" => \A f \in top : f.status = "STARTED"}

-----------------------------------------------------------------------------
(* Opening.                                                                *)

\* The plan is made; a store that may not be called is skipped without a trace.
Begin(r) ==
    /\ m[r].pc = "idle"
    /\ now < MaxTime
    /\ MayOverlap \/ \A q \in Runs : ~Active(q)
    /\ now' = now + 1
    /\ overlapped' = (overlapped \/ \E q \in Runs : Active(q))
    /\ \/ \E q \in Requests :
             m' = [m EXCEPT ![r].pc = "starting", ![r].ask = q, ![r].time = now + 1]
       \/ m' = [m EXCEPT ![r] = Gone("done", "skipped")]
    /\ UNCHANGED <<site, sales, warehouse, ledger, faults>>

\* When one start fails the attempts opened before it are closed as failed.
StartAttempt(r) ==
    LET d == Selected(r)[m[r].i]
        last == m[r].i = Len(Selected(r))
        ok == [m[r] EXCEPT !.open = Append(@, d),
                           !.i = IF last THEN 1 ELSE @ + 1,
                           !.pc = IF ~last THEN @
                                  ELSE IF WithInventory(r) THEN "universe" ELSE "fetch"]
        bad == IF m[r].open = <<>> THEN Gone("done", "error")
               ELSE [m[r] EXCEPT !.pc = "finish", !.i = 1, !.status = "error"]
    IN  /\ m[r].pc = "starting"
        /\ Record(r, Event(r, d, "STARTED"), ok, bad)
        /\ UNCHANGED <<world, warehouse, overlapped>>

\* Read before the fetches, for inventory only; a failed read counts as
\* unavailable evidence.
ReadUniverse(r) ==
    LET none == [m[r] EXCEPT !.pc = "fetch", !.known = FALSE]
        read == [none EXCEPT !.known = TRUE, !.universe = sales.active]
    IN  /\ m[r].pc = "universe"
        /\ \/ /\ m' = [m EXCEPT ![r] = IF sales.usable THEN read ELSE none]
              /\ UNCHANGED faults
           \/ /\ faults < MaxFaults
              /\ m' = [m EXCEPT ![r] = none]
              /\ faults' = faults + 1
        /\ UNCHANGED <<world, warehouse, ledger, overlapped>>

-----------------------------------------------------------------------------
(* Fetching.  Retries of a fetch change nothing; only its outcome counts.  *)

Fetched(r, d) == m[r].res[d] = "fetched"

\* What a fetch returns: the order as the platform stamped it, a delivery with
\* the time of the plan, which stands for its content too.
Answer(r, d) ==
    IF d = "orders" THEN [time |-> site.time, content |-> site.content]
    ELSE [time |-> m[r].time, content |-> "plain"]

\* The SKUs that complete sweeps of the advice list hold.
Advised == SUBSET Skus

\* What the run holds once d was fetched with this coverage and these SKUs.
Holding(r, d, coverage, seen) ==
    [m[r] EXCEPT !.res = [@ EXCEPT ![d] = "fetched"], !.cov = [@ EXCEPT ![d] = coverage],
                 !.doc = IF d \in Docs THEN [@ EXCEPT ![d] = Answer(r, d)] ELSE @,
                 !.seen = seen]

\* Details alone may be incomplete, advice alone lists SKUs.
Got(r, d) ==
    {Holding(r, d, c, s) : c \in IF d = "details" THEN {"COMPLETE", "PARTIAL"} ELSE {"COMPLETE"},
                           s \in IF d = "advice" THEN Advised ELSE {m[r].seen}}

Ends(r, d, result) == [m[r] EXCEPT !.res = [@ EXCEPT ![d] = result]]

FetchDomain(r, d) ==
    /\ \/ /\ d = "details" /\ ~Fetched(r, "catalog")
          /\ m' = [m EXCEPT ![r] = Ends(r, d, "blocked_by_dependency")]
          /\ UNCHANGED faults
       \/ /\ d = "details" => Fetched(r, "catalog")
          /\ \E g \in Got(r, d) : m' = [m EXCEPT ![r] = g]
          /\ UNCHANGED faults
       \/ /\ d = "details" => Fetched(r, "catalog")
          /\ faults < MaxFaults
          /\ m' = [m EXCEPT ![r] = Ends(r, d, "fetch_error")]
          /\ faults' = faults + 1
    /\ UNCHANGED <<world, warehouse, ledger, overlapped>>

Fetch(r) ==
    /\ m[r].pc = "fetch"
    /\ \E k \in Todo(r) : /\ \A j \in Todo(r) : k <= j
                          /\ FetchDomain(r, Primary[k])

-----------------------------------------------------------------------------
(* Loading: one transaction for all primary domains that were fetched.     *)

Snapshot(r) == {d \in Domains : Fetched(r, d)}

\* Mutant: what the warehouse has is never newer.
Stale_Never(r, d) == FALSE

\* A document older than the stored one is left out, its relations too.
Stale(r, d) == row[d].time > m[r].doc[d].time

\* The row is replaced by a newer one only.
RowAfter(r, d) == IF m[r].doc[d].time > row[d].time THEN m[r].doc[d] ELSE row[d]

\* Lines up to the version's time are retired, its own inserted or revived.
LinesAfter(r, d) ==
    LET v == m[r].doc[d]
    IN  {[l EXCEPT !.current = l.current /\ l.time > v.time] :
            l \in {k \in lines[d] : k.time # v.time}}
        \union {[time |-> v.time, content |-> v.content, current |-> TRUE]}

\* Relations of the order's scope seen up to the plan's time are retired.
JitRetired(r) == {[j EXCEPT !.current = j.current /\ j.time > m[r].time] : j \in jit}

\* Mutant: an order that states no relation leaves the stored one alone.
JitAfter_OnlyLinked(r) ==
    IF m[r].doc["orders"].content = "linked"
    THEN JitRetired(r) \union {[time |-> m[r].time, current |-> TRUE]} ELSE jit

\* The relation of the fetched order is inserted as current.
JitAfter(r) ==
    JitRetired(r) \union
    (IF m[r].doc["orders"].content = "linked"
        THEN {[time |-> m[r].time, current |-> TRUE]} ELSE {})

\* The transaction fails on a document that changed under its time, and on the
\* unique index of current relations when a later plan's one is not retired.
Refused(r) ==
    \/ \E d \in Docs : /\ Fetched(r, d)
                       /\ row[d].time = m[r].doc[d].time
                       /\ row[d].content # m[r].doc[d].content
    \/ /\ Fetched(r, "orders") /\ ~Stale(r, "orders")
       /\ m[r].doc["orders"].content = "linked"
       /\ \E j \in JitRetired(r) : j.current

\* A projection batch keeps the SKUs of the answer that are active by now, its
\* coverage, and a fingerprint of the active SKUs it was judged by.
ProjectionBatch(r, d, coverage) ==
    [run |-> r, domain |-> d, time |-> m[r].time, coverage |-> coverage,
     members |-> sales.active \intersect m[r].seen, listed |-> m[r].seen,
     authority |-> sales.active, moved |-> m[r].moved]

BatchTime(r, d) == IF d \in Docs THEN m[r].doc[d].time ELSE m[r].time

\* The list names no SKUs it was asked for: its coverage is COMPLETE as fetched.
AdviceLoaded(r) == ProjectionBatch(r, "advice", "COMPLETE")

\* Mutant: the attributes fetched last replace any.
SkuAfter_Always(r) == [d \in DOMAIN sku |-> IF Fetched(r, d) THEN m[r].time ELSE sku[d]]

\* The later of two source times.
Newer(s, t) == IF s > t THEN s ELSE t

\* Attributes of a SKU are replaced unless a newer source gave them.
SkuAfter(r) ==
    [d \in DOMAIN sku |-> IF Fetched(r, d) THEN Newer(sku[d], m[r].time) ELSE sku[d]]

Loaded(r) ==
    /\ row' = [d \in Docs |-> IF Fetched(r, d) THEN RowAfter(r, d) ELSE row[d]]
    /\ lines' = [d \in Docs |-> IF Fetched(r, d) /\ ~Stale(r, d)
                                   THEN LinesAfter(r, d) ELSE lines[d]]
    /\ jit' = IF Fetched(r, "orders") /\ ~Stale(r, "orders") THEN JitAfter(r) ELSE jit
    /\ sku' = SkuAfter(r)
    /\ batches' = batches \union
          {[run |-> r, domain |-> d, time |-> BatchTime(r, d)] : d \in Snapshot(r)}
    /\ projection' = projection \union
          (IF Fetched(r, "advice") THEN {AdviceLoaded(r)} ELSE {})
    /\ UNCHANGED recon

\* The store's status once every domain has its result.
StoreStatus(res, cov) ==
    LET failed == {d \in Domains : res[d] \in {"fetch_error", "load_error",
                      "blocked_by_dependency"} \/ (res[d] # "none" /\ cov[d] = "PARTIAL")}
        loaded == {d \in Domains : res[d] = "loaded"}
    IN  IF failed = {} THEN "loaded" ELSE IF loaded # {} THEN "partial" ELSE "error"

\* On to closing the attempts, with the status of the results.
Closing(memory) ==
    [memory EXCEPT !.pc = "finish", !.i = 1, !.universe = {}, !.seen = {},
                   !.known = FALSE, !.moved = FALSE,
                   !.status = StoreStatus(memory.res, memory.cov)]

\* The results of all domains of the snapshot change together; inventory is next.
Marked(r, status) ==
    LET marked == [m[r] EXCEPT !.pc = "inventory", !.doc = Fresh.doc, !.seen = {},
                      !.res = [d \in Domains |->
                                  IF Fetched(r, d) THEN status ELSE m[r].res[d]]]
    IN  IF WithInventory(r) THEN marked ELSE Closing(marked)

LoadPrimary(r) ==
    /\ m[r].pc = "fetch"
    /\ Todo(r) = {}
    /\ \/ /\ Snapshot(r) = {}
          /\ m' = [m EXCEPT ![r] = Marked(r, "none")]
          /\ UNCHANGED <<warehouse, faults>>
       \/ /\ Snapshot(r) # {}
          /\ Refused(r)
          /\ m' = [m EXCEPT ![r] = Marked(r, "load_error")]
          /\ UNCHANGED <<warehouse, faults>>
       \/ /\ Snapshot(r) # {}
          /\ ~Refused(r)
          /\ Loaded(r)
          /\ m' = [m EXCEPT ![r] = Marked(r, "loaded")]
          /\ UNCHANGED faults
       \/ /\ Snapshot(r) # {}
          /\ faults < MaxFaults
          /\ faults' = faults + 1
          /\ (~Refused(r) /\ Loaded(r)) \/ UNCHANGED warehouse
          /\ m' = [m EXCEPT ![r] = Marked(r, "load_error")]
    /\ UNCHANGED <<world, ledger, overlapped>>

-----------------------------------------------------------------------------
(* Inventory: requested for the SKUs read at the beginning, judged by the  *)
(* script against that set and by the warehouse against the active SKUs.   *)

\* Mutant: the platform's answer is taken as it comes.
Observable_Any(r) == SUBSET Skus

\* The SKUs an answer may hold: one that was not asked for is an error.
Observable(r) == SUBSET m[r].universe

\* The last domain has its result.
InventoryIs(r, result) == Closing([m[r] EXCEPT !.res["inventory"] = result])

FetchInventory(r) ==
    /\ m[r].pc = "inventory"
    /\ \/ /\ ~m[r].known
          /\ m' = [m EXCEPT ![r] = InventoryIs(r, "blocked_by_dependency")]
          /\ UNCHANGED faults
       \/ /\ m[r].known
          /\ \E seen \in Observable(r) :
                m' = [m EXCEPT ![r].pc = "load", ![r].seen = seen,
                               ![r].res["inventory"] = "fetched",
                               ![r].cov["inventory"] =
                                   IF seen = m[r].universe THEN "COMPLETE" ELSE "PARTIAL"]
          /\ UNCHANGED faults
       \/ /\ m[r].known
          /\ faults < MaxFaults
          /\ faults' = faults + 1
          /\ m' = [m EXCEPT ![r] = InventoryIs(r, "fetch_error")]
    /\ UNCHANGED <<world, warehouse, ledger, overlapped>>

\* Mutant: coverage is judged by the SKUs that were asked for.
InventoryCoverage_Asked(r) ==
    IF m[r].universe \subseteq m[r].seen THEN "COMPLETE" ELSE "PARTIAL"

\* Complete when no SKU that is active by now is missing.
InventoryCoverage(r) == IF sales.active \subseteq m[r].seen THEN "COMPLETE" ELSE "PARTIAL"

\* The reconciliation of a SKU is replaced unless a newer source gave it.
ReconAfter(r) ==
    [s \in Skus |-> IF s \in m[r].seen THEN Newer(recon[s], m[r].time) ELSE recon[s]]

InventoryLoaded(r) ==
    /\ projection' = projection \union
          {ProjectionBatch(r, "inventory", InventoryCoverage(r))}
    /\ recon' = ReconAfter(r)
    /\ batches' = batches \union
          {[run |-> r, domain |-> "inventory", time |-> m[r].time]}
    /\ UNCHANGED <<row, lines, jit, sku>>

LoadInventory(r) ==
    /\ m[r].pc = "load"
    /\ \/ /\ InventoryLoaded(r)
          /\ m' = [m EXCEPT ![r] = InventoryIs(r, "loaded")]
          /\ UNCHANGED faults
       \/ /\ faults < MaxFaults
          /\ faults' = faults + 1
          /\ InventoryLoaded(r) \/ UNCHANGED warehouse
          /\ m' = [m EXCEPT ![r] = InventoryIs(r, "load_error")]
    /\ UNCHANGED <<world, ledger, overlapped>>

-----------------------------------------------------------------------------
(* Closing.                                                                *)

\* Mutant: what was fetched but not stored counts as success.
TerminalStatus_Fetched(r, d) ==
    IF m[r].res[d] \in {"loaded", "load_error"} /\ m[r].cov[d] # "PARTIAL"
    THEN "SUCCEEDED" ELSE "PARTIAL"

\* Mutant: partial coverage that was loaded counts as success.
TerminalStatus_Loaded(r, d) ==
    CASE m[r].res[d] = "loaded" -> "SUCCEEDED"
      [] m[r].res[d] = "blocked_by_dependency" -> "PARTIAL"
      [] OTHER -> "FAILED"

\* Partial coverage is reported as such whether or not it was loaded.
TerminalStatus(r, d) ==
    CASE m[r].res[d] = "loaded" /\ m[r].cov[d] # "PARTIAL" -> "SUCCEEDED"
      [] m[r].cov[d] = "PARTIAL" \/ m[r].res[d] = "blocked_by_dependency" -> "PARTIAL"
      [] OTHER -> "FAILED"

\* Mutant: a terminal event that could not be written leaves the status alone.
Unclosed_Kept(r) == [Gone("done", m[r].status) EXCEPT !.ask = m[r].ask]

\* The first terminal event that cannot be written ends the closing.
Unclosed(r) == Gone("done", "error")

FinishAttempt(r) ==
    LET d == m[r].open[m[r].i]
        ok == IF m[r].i < Len(m[r].open) THEN [m[r] EXCEPT !.i = @ + 1]
              ELSE [Gone("done", m[r].status) EXCEPT !.ask = m[r].ask]
    IN  /\ m[r].pc = "finish"
        /\ Record(r, Event(r, d, TerminalStatus(r, d)), ok, Unclosed(r))
        /\ UNCHANGED <<world, warehouse, overlapped>>

Die(r) ==
    /\ Active(r)
    /\ faults < MaxFaults
    /\ faults' = faults + 1
    /\ m' = [m EXCEPT ![r] = Gone("dead", "running")]
    /\ UNCHANGED <<world, warehouse, ledger, overlapped>>

-----------------------------------------------------------------------------
(* The operations dashboard reads all of this in one repeatable-read       *)
(* snapshot: what it shows is a function of the state.                     *)

Projected == {"advice", "inventory"}

\* ranked_batch, recency 1.
Latest(d) ==
    {p \in projection : p.domain = d /\
        \A q \in projection : q.domain = d => q.time <= p.time}

\* The members that are still active are counted; totals are given only for a
\* COMPLETE batch that has lost none of its members.
InventorySummary ==
    {[skus |-> p.members \intersect sales.active,
      totalled |-> p.coverage = "COMPLETE" /\ p.members \subseteq sales.active] :
        p \in Latest("inventory")}

StockAdviceSummary ==
    {[skus |-> p.members \intersect sales.active,
      totalled |-> p.coverage = "COMPLETE" /\ p.members \subseteq sales.active] :
        p \in Latest("advice")}

Summary(d) == IF d = "inventory" THEN InventorySummary ELSE StockAdviceSummary

\* What an order or a delivery is shown with: the totals of its current lines.
LineTotals(d) == {l \in lines[d] : l.current}

\* An attempt's age counts from the plan.
Outdated(e) ==
    IF e.status = "STARTED" THEN now - e.at > StartedTimeout
    ELSE e.status = "SUCCEEDED" /\ now - e.at > LiveMaxAge

\* readSupplyCoverage: the store's standing in a domain, from its LIVE health.
Standing(d) ==
    LET E == Health("LIVE", d)
    IN  IF E = {} THEN "missing"
        ELSE IF \E e \in E : e.status \in {"FAILED", "PARTIAL"} \/ Outdated(e) THEN "failed"
        ELSE IF \A e \in E : e.status = "SUCCEEDED" THEN "succeeded" ELSE "in_progress"

\* buildReadOnlyActionPool: a failed or missing domain is put to the operator.
Reviewed(standing) == standing \in {"failed", "missing"}

-----------------------------------------------------------------------------

Init ==
    /\ now = 1
    /\ site = [time |-> 1, content |-> "plain", silent |-> 0]
    /\ \E a \in SUBSET Skus : sales = [usable |-> TRUE, active |-> a, loads |-> 0]
    /\ row = [d \in Docs |-> NoDoc]
    /\ lines = [d \in Docs |-> {}]
    /\ jit = {}
    /\ sku = [d \in {"catalog", "details"} |-> 0]
    /\ projection = {} /\ batches = {} /\ ledger = {}
    /\ recon = [s \in Skus |-> 0]
    /\ m = [r \in Runs |-> Fresh]
    /\ overlapped = FALSE
    /\ faults = 0

Step(r) ==
    \/ Begin(r) \/ StartAttempt(r) \/ ReadUniverse(r) \/ Fetch(r) \/ LoadPrimary(r)
    \/ FetchInventory(r) \/ LoadInventory(r) \/ FinishAttempt(r) \/ Die(r)

Next ==
    \/ \E r \in Runs : Step(r)
    \/ SiteUpdate
    \/ SilentUpdate
    \/ SalesLoad

Spec == Init /\ [][Next]_vars

-----------------------------------------------------------------------------
(* Properties.                                                             *)

Times == 0..MaxTime
DocType == [time : Times, content : Contents \union {"none"}]
Results == {"none", "fetched", "loaded", "fetch_error", "load_error",
            "blocked_by_dependency"}
Events == [run : Runs, scope : {"LIVE", "BACKFILL"}, domain : Domains, at : Times,
           status : {"STARTED", "SUCCEEDED", "PARTIAL", "FAILED"}]

\* The shapes of the tables and of a run's memory; inventory is never more than
\* the SKUs that were asked for.
TypeOK ==
    /\ now \in Times
    /\ site \in [time : Times, content : Contents, silent : 0..MaxUpsets]
    /\ row \in [Docs -> DocType]
    /\ sales.active \subseteq Skus
    /\ lines \in [Docs -> SUBSET [time : Times, content : Contents, current : BOOLEAN]]
    /\ jit \in SUBSET [time : Times, current : BOOLEAN]
    /\ sku \in [{"catalog", "details"} -> Times]
    /\ batches \in SUBSET [run : Runs, domain : Domains, time : Times]
    /\ ledger \in SUBSET Events
    /\ recon \in [Skus -> Times]
    /\ \A r \in Runs : /\ m[r].pc = "load" => m[r].seen \subseteq m[r].universe
                       /\ m[r].res \in [Domains -> Results]

\* The current lines of an order or a delivery are those of the version in its
\* row, whatever versions runs load in whatever order (loadPurchaseOrders and
\* loadDeliveries: stale check, retirement, revival).
OneVersionIsCurrent ==
    \A d \in Docs :
        LineTotals(d) =
            IF row[d] = NoDoc THEN {}
            ELSE {[time |-> row[d].time, content |-> row[d].content, current |-> TRUE]}

\* While runs do not overlap the JIT relation is current exactly when the
\* stored order states it.  (Overlapping runs can leave it behind: the relation
\* is ordered by the plan's time and the order by its update time.)
JitFollowsTheOrder ==
    ~overlapped => ((\E j \in jit : j.current) <=> row["orders"].content = "linked")

\* An attempt is recorded as SUCCEEDED only when its batch is committed, and
\* the stored document is then at least as new as the one it fetched.
SucceededMeansStored ==
    \A e \in ledger : e.status = "SUCCEEDED" =>
        \E b \in batches :
            /\ b.run = e.run /\ b.domain = e.domain
            /\ e.domain \in Docs => row[e.domain].time >= b.time

\* A SUCCEEDED inventory attempt has a COMPLETE projection, unless a sales load
\* moved the active SKUs after the run had read them.
SucceededInventoryIsComplete ==
    \A e \in ledger : e.status = "SUCCEEDED" /\ e.domain = "inventory" =>
        \E p \in projection : p.run = e.run /\ p.domain = "inventory" /\
            (p.coverage = "COMPLETE" \/ p.moved)

\* A run that reports its store as loaded has closed every selected domain as
\* SUCCEEDED: the exit code the coordinator reads never hides an open or a
\* failed attempt.
LoadedMeansAllSucceeded ==
    \A r \in Runs : m[r].pc = "done" /\ m[r].status = "loaded" =>
        \A d \in Chosen(r) :
            \E e \in ledger : e.run = r /\ e.domain = d /\ e.status = "SUCCEEDED"

\* LIVE health shows the last event of the LIVE run planned last, however late
\* older runs and backfills write theirs.
HealthIsOfTheNewest ==
    \A e \in {x \in ledger : x.status = "STARTED" /\ x.scope = "LIVE"} :
        (\A f \in ledger : (/\ f.status = "STARTED" /\ f.scope = "LIVE"
                            /\ f.domain = e.domain /\ f.run # e.run) => f.at < e.at)
        => LET mine == {x \in ledger : x.run = e.run /\ x.domain = e.domain}
               last == IF mine = {e} THEN mine ELSE mine \ {e}
           IN  Health("LIVE", e.domain) = last

\* What is stored never goes back to an older source time.
NothingGoesBack ==
    [][/\ \A d \in Docs : row'[d].time >= row[d].time
       /\ \A d \in DOMAIN sku : sku'[d] >= sku[d]
       /\ \A s \in Skus : recon'[s] >= recon[s]
       /\ \A d \in Docs : row'[d].time = row[d].time => row'[d] = row[d]]_vars

\* A total on the dashboard is a total of everything: of all SKUs that were active
\* when its batch was loaded (of those of them the platform lists, for advice),
\* none of which was retired since, whatever the runs asked for and in whatever
\* order they and the sales loads committed.
TotalsAreWhole ==
    /\ \A p \in Latest("inventory") : \A s \in InventorySummary :
          s.totalled => s.skus = p.authority
    /\ \A p \in Latest("advice") : \A s \in StockAdviceSummary :
          s.totalled => s.skus = p.authority \intersect p.listed

\* A domain for which the dashboard neither asks for a review nor shows a sync
\* under way is up to date: the live run planned last has stored its batch, not
\* too long ago, it is the batch that is shown, and it is shown with its total
\* unless the active SKUs have changed since the run read them.
QuietMeansCurrent ==
    \A d \in {e.domain : e \in ledger} :
        \/ LET s == Standing(d) IN s = "in_progress" \/ Reviewed(s)
        \/ \E e \in {x \in ledger : x.domain = d /\ x.scope = "LIVE"} :
              /\ \A f \in ledger : f.domain = d /\ f.scope = "LIVE" => f.at <= e.at
              /\ now - e.at <= LiveMaxAge
              /\ \E b \in batches : b.run = e.run /\ b.domain = d
              /\ d \in Projected => \A p \in Latest(d) :
                    /\ p.run = e.run
                    /\ \/ \A s \in Summary(d) : s.totalled
                       \/ p.moved \/ p.authority # sales.active

\* "A failed domain does not pollute the others" (docs/architecture.md): while
\* no call fails, no domain but the one the warehouse refuses ends as FAILED.
FailedDomainStaysAlone ==
    faults = 0 => \A e \in ledger : e.status = "FAILED" => e.domain = "orders"

\* The stored documents show one version each, with the relation that version
\* states.
DocumentSafety == TypeOK /\ OneVersionIsCurrent /\ JitFollowsTheOrder

\* The ledger never claims more than the warehouse holds, and health is read from
\* the right entry of it.
LedgerSafety ==
    /\ SucceededMeansStored
    /\ SucceededInventoryIsComplete
    /\ LoadedMeansAllSucceeded
    /\ HealthIsOfTheNewest

\* What the dashboard shows of supply can be relied on.
DashboardSafety == TotalsAreWhole /\ QuietMeansCurrent
=============================================================================
