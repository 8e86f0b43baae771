-------------------------- MODULE ProductIdentity --------------------------
(***************************************************************************)
(* Product identity: which SKUs of different stores are one product.       *)
(*                                                                         *)
(* scripts/sync_full_managed_product_identity_evidence.mjs fetches the     *)
(* details of every active SPU and seals them, under an observation run,   *)
(* as evidence (src/warehouse/product-identity-evidence-repository.mjs).   *)
(* scripts/resolve_full_managed_product_identity.mjs makes a plan of one   *)
(* run's evidence (src/domain/product-identity-resolution-plan.mjs); an    *)
(* operator approves its hash, and an apply that recomputes the same plan  *)
(* maps the SKUs to canonical products (src/warehouse/                     *)
(* product-identity-resolution-repository.mjs).  Meanwhile the catalog     *)
(* loads of the stores add, retire and move SKUs.                          *)
(*                                                                         *)
(* A fingerprint is the value it is taken of; the hash of a plan is its    *)
(* place in the sequence of plans that dry runs have shown.  SKUs and SPUs *)
(* are numbers in the order the code sorts them in: an SPU by store code   *)
(* and node key, a SKU by its platform id.  An SPU stands for its store    *)
(* too, and for the SKC between it and a SKU.                              *)
(***************************************************************************)
EXTENDS Naturals, Sequences, FiniteSets, FiniteSetsExt

CONSTANTS
    Spus, Skus,
    Store,          \* the store of each SPU
    SkuStore,       \* the store of each SKU
    Listed,         \* SKUs that the catalog knows at first, with their SPU
    Answers,        \* what the platform says of each SPU, version by version
    Listings,       \* stores with the SKUs a catalog load may find in them
    Supplied,       \* SPUs that a supply load may bring
    Curated,        \* attributes that count as evidence of identity
    Hard,           \* attributes that must not differ
    Observations,   \* observation runs
    FetchTimes,     \* --now of an evidence load, part of what it records
    Audits,         \* --now and --run-id of an apply, part of what it writes
    MaxConcurrency, \* SPUs of a load that are in flight at once
    Loads,          \* evidence loads, one invocation each
    Applies,        \* applies, one invocation each
    MaxPlans,       \* dry runs that show a new plan
    MaxUpsets       \* changes of the catalog, failed calls, deaths

\* 0 stands for no SPU.
ASSUME OrderAssumption == Spus \subseteq Nat \ {0} /\ Skus \subseteq Nat
ASSUME FiniteAssumption == IsFiniteSet(Skus) /\ IsFiniteSet(Curated)
ASSUME CatalogAssumption ==
    /\ DOMAIN Listed \subseteq Skus /\ \A s \in DOMAIN Listed : Listed[s] \in Spus
    /\ \A c \in Listings : c.skus \subseteq Skus /\ \A s \in c.skus : SkuStore[s] = c.store
    /\ Supplied \subseteq Spus
ASSUME AnswerAssumption ==
    /\ Len(Answers) \in Nat \ {0} /\ DOMAIN Answers = 1..Len(Answers)
    /\ \A v \in DOMAIN Answers : \A p \in Spus :
        LET x == Answers[v][p]
        IN  /\ x.skus \subseteq Skus /\ DOMAIN x.barcodes = x.skus
            /\ \A s \in x.skus : SkuStore[s] = Store[p]
            /\ \A b \in x.attributes : b = [id |-> b.id, value |-> b.value]

VARIABLES
    site,       \* version of what the platform says
    catalog,    \* dim.full_sku: the SPU of a SKU, and whether it is active
    batch,      \* raw.openapi_fetch_batch by run and SPU
    sets,       \* sealed observation sets by run and SKU
    load,       \* the evidence loads under way
    plans,      \* plans shown by dry runs; the index is the hash
    products,   \* canonical products with their provenance, by recall identity
    candidates, \* candidates, each with its one decision and assignment
    assigned,   \* current assignment of each SKU
    app,        \* the applies under way
    upsets

identityVars == <<site, catalog, batch, sets, load, plans, products, candidates, assigned, app, upsets>>
evidence == <<batch, sets>>
mapping == <<products, candidates, assigned>>

None == [none |-> TRUE]
NoRecall == ""
Known(s) == catalog[s].known
Active(s) == Known(s) /\ catalog[s].active

\* An answer is kept as the first version that has it, its fingerprint.
Details(p, v) == Answers[v][p]
ResponseFingerprint(p, v) == Min({w \in DOMAIN Answers : Details(p, w) = Details(p, v)})

-----------------------------------------------------------------------------
(* The planner.  A node is an SPU with its sealed sets of one run.         *)

\* The set with the smallest platform SKU id speaks for the whole SPU: the
\* details it shares with the other sets, and its own barcodes.
Representative(n) == Min(DOMAIN n.sets)
Profile(n) ==
    LET s == Representative(n)
        x == Details(n.spu, n.sets[s].answer)
    IN  [recall |-> x.recall, attributes |-> x.attributes, barcodes |-> x.barcodes[s]]

Values(x, i) == {at.value : at \in {b \in x.attributes : b.id = i}}
CuratedPairs(x, y) == {i \in Curated : Values(x, i) \cap Values(y, i) # {}}
BarcodePair(x, y) == x.barcodes \cap y.barcodes # {}
HardConflicts(x, y) ==
    {i \in Hard : Values(x, i) # {} /\ Values(y, i) # {} /\ Values(x, i) # Values(y, i)}

\* In hundredths.  Profiles are compared only when they agree on model, supplier
\* code, brand and category.
Score(x, y) ==
    LET curated == Cardinality(CuratedPairs(x, y))
    IN  35 + 25 + 10 + 10 + (IF BarcodePair(x, y) THEN 60 ELSE 0)
            + 10 * (IF curated < 2 THEN curated ELSE 2)

\* Model, brand and category are then two strong kinds of evidence in any case; a
\* barcode or two curated attributes make an approved path.
Confirmed(x, y) ==
    /\ HardConflicts(x, y) = {}
    /\ BarcodePair(x, y) \/ Cardinality(CuratedPairs(x, y)) >= 2
    /\ Score(x, y) >= 95

\* Mutant: a node is compared with the next one only.
Clique_Chain(g) ==
    \A n, q \in g :
        n.spu < q.spu /\ (\A r \in g : ~(n.spu < r.spu /\ r.spu < q.spu))
            => Confirmed(Profile(n), Profile(q))

Clique(g) == \A n, q \in g : n.spu < q.spu => Confirmed(Profile(n), Profile(q))

Group(nodes, k) == {n \in nodes : Profile(n).recall = k}

\* One node per store, two stores at least, every pair confirmed.  A node without
\* a complete recall identity is left out.
Components(nodes) ==
    {k \in {Profile(n).recall : n \in nodes} \ {NoRecall} :
        LET g == Group(nodes, k)
        IN  /\ Cardinality({Store[n.spu] : n \in g}) = Cardinality(g)
            /\ Cardinality(g) >= 2
            /\ Clique(g)}
Accepted(plan) == {n \in plan.nodes : Profile(n).recall \in plan.components}
AffectedSkus(plan) == UNION {DOMAIN n.sets : n \in Accepted(plan)}

SetMembers(plan, k) ==
    {[set |-> <<plan.obs, r[2]>>, spu |-> r[1].spu, content |-> r[1].sets[r[2]],
      representative |-> r[2] = Representative(r[1])] :
        r \in {q \in Group(plan.nodes, k) \X Skus : q[2] \in DOMAIN q[1].sets}}

\* A candidate compares the set of a SKU with the representative of the first node
\* of another store.
Target(plan, n) ==
    LET others == Group(plan.nodes, Profile(n).recall) \ {n}
        first == CHOOSE q \in others : \A r \in others : q.spu <= r.spu
    IN  <<plan.obs, Representative(first)>>

Candidate(h, n, s, audit) ==
    [component |-> Profile(n).recall, source |-> <<plans[h].obs, s>>,
     target |-> Target(plans[h], n), sku |-> s, plan |-> h, audit |-> audit]
Candidates(h, audit) ==
    {Candidate(h, r[1], r[2], audit) :
        r \in {q \in Accepted(plans[h]) \X Skus : q[2] \in DOMAIN q[1].sets}}
Key(c) == <<c.component, c.source, c.target>>

LockedSkus ==
    UNION {AffectedSkus(plans[app[a].plan]) : a \in {b \in Applies : app[b].pc = "locked"}}

-----------------------------------------------------------------------------
(* What a resolution reads.                                                *)

Evidence(o, s) == Details(sets[o][s].spu, sets[o][s].answer)
Sealed(o) == {s \in Skus : sets[o][s] # None}
Members(o, p) == {s \in Sealed(o) : sets[o][s].spu = p}

\* Every set is of an active SKU that is still in the SPU it was seen in, and the
\* sets of one SPU agree on the product's details; else there is no plan.
Plannable(o) ==
    /\ \A s \in Sealed(o) : Active(s) /\ catalog[s].spu = sets[o][s].spu
    /\ \A s, t \in Sealed(o) :
        sets[o][s].spu = sets[o][t].spu =>
            LET x == Evidence(o, s)  y == Evidence(o, t)
            IN  x.recall = y.recall /\ x.attributes = y.attributes

\* An assignment of the plan under consideration counts as none.
Fingerprint(s, ignored) ==
    IF assigned[s] = None \/ assigned[s].plan = ignored THEN None ELSE assigned[s]

Nodes(o, ignored) ==
    {[spu |-> p,
      sets |-> [s \in Members(o, p) |-> sets[o][s]],
      assigned |-> [s \in Members(o, p) |-> Fingerprint(s, ignored)]] :
        p \in {sets[o][s].spu : s \in Sealed(o)}}
ExcludedMissingEvidence(o, ignored) ==
    {[sku |-> s, spu |-> catalog[s].spu, assigned |-> Fingerprint(s, ignored)] :
        s \in {t \in Skus : Active(t)} \ Sealed(o)}
Plan(o, ignored) ==
    LET nodes == Nodes(o, ignored)
    IN  [obs |-> o, nodes |-> nodes, components |-> Components(nodes),
         excluded |-> ExcludedMissingEvidence(o, ignored)]

\* The components follow from the nodes.
SamePlan(o, h, ignored) ==
    /\ plans[h].obs = o
    /\ plans[h].excluded = ExcludedMissingEvidence(o, ignored)
    /\ plans[h].nodes = Nodes(o, ignored)

-----------------------------------------------------------------------------
(* The platform and the catalog.                                           *)

Idle(pc) == [pc |-> pc, obs |-> None, at |-> 0, todo |-> {}, got |-> [p \in Spus |-> 0]]
NoApply ==
    [pc |-> "idle", plan |-> 0, obs |-> None, audit |-> None, touched |-> {}, late |-> FALSE]

IdentityInit ==
    /\ site = 1
    /\ catalog = [s \in Skus |->
                    [known |-> s \in DOMAIN Listed, active |-> s \in DOMAIN Listed,
                     spu |-> IF s \in DOMAIN Listed THEN Listed[s] ELSE 0]]
    /\ batch = [o \in Observations |-> [p \in Spus |-> None]]
    /\ sets = [o \in Observations |-> [s \in Skus |-> None]]
    /\ load = [l \in Loads |-> Idle("idle")]
    /\ plans = <<>>
    /\ products = [k \in UNION {{Answers[v][p].recall : p \in Spus} : v \in DOMAIN Answers} |-> {}]
    /\ candidates = {}
    /\ assigned = [s \in Skus |-> None]
    /\ app = [a \in Applies |-> NoApply]
    /\ upsets = 0

Upset == upsets < MaxUpsets /\ upsets' = upsets + 1

SiteChanges ==
    /\ site < Len(Answers)
    /\ site' = site + 1
    /\ UNCHANGED <<catalog, batch, sets, load, plans, products, candidates, assigned, app, upsets>>

\* A row an apply has locked is not updated before its transaction ends; an update,
\* even to the same values, is noticed by an apply whose snapshot is older.
UpdateSkus(S, rows) ==
    /\ Upset
    /\ S \cap LockedSkus = {}
    /\ catalog' = rows
    /\ app' = [a \in Applies |->
                IF app[a].pc = "begun" THEN [app[a] EXCEPT !.touched = @ \union S] ELSE app[a]]
    /\ UNCHANGED <<site, batch, sets, load, plans, products, candidates, assigned>>

\* A sales load lists the SKUs of a store and retires the others.  A new one has no
\* SPU yet.
CatalogLoad(st, listed) ==
    LET retired == {s \in Skus \ listed : SkuStore[s] = st /\ Active(s)}
    IN  UpdateSkus(listed \union retired,
            [s \in Skus |-> [known |-> catalog[s].known \/ s \in listed,
                             active |-> (catalog[s].active \/ s \in listed) /\ s \notin retired,
                             spu |-> catalog[s].spu]])

\* A supply load moves the SKUs of a product to it; it adds none.
EnrichCatalog(p) ==
    LET S == {s \in Details(p, site).skus : Known(s)}
    IN  /\ S # {}
        /\ UpdateSkus(S, [s \in Skus |-> IF s \in S THEN [catalog[s] EXCEPT !.spu = p] ELSE catalog[s]])

-----------------------------------------------------------------------------
(* The evidence load.                                                      *)

\* The universe is the one the approved dry run saw, or the load is refused and
\* nothing happens.
StartLoad(l, o, at) ==
    LET universe == {catalog[s].spu : s \in {t \in Skus : Active(t)}} \ {0}
    IN  /\ load[l].pc = "idle"
        /\ universe # {}
        /\ load' = [load EXCEPT ![l] = [Idle("running") EXCEPT !.obs = o, !.at = at, !.todo = universe]]
        /\ UNCHANGED <<site, catalog, batch, sets, plans, products, candidates, assigned, app, upsets>>

Settle(l, p) ==
    LET todo == load[l].todo \ {p}
    IN  load' = [load EXCEPT ![l] =
                    IF todo = {} THEN Idle("done") ELSE [@ EXCEPT !.todo = todo, !.got[p] = 0]]

\* Workers take the SPUs in order: those in flight are the first ones not settled.
InFlight(l, p) ==
    /\ p \in load[l].todo
    /\ Cardinality({q \in load[l].todo : q < p}) < MaxConcurrency

FetchSpuInfo(l, p) ==
    /\ InFlight(l, p) /\ load[l].got[p] = 0
    /\ load' = [load EXCEPT ![l].got[p] = ResponseFingerprint(p, site)]
    /\ UNCHANGED <<site, catalog, batch, sets, plans, products, candidates, assigned, app, upsets>>

\* The call failed, the transaction timed out, or the loader died.
SpuFails(l, p) ==
    /\ InFlight(l, p) /\ Upset
    /\ Settle(l, p)
    /\ UNCHANGED <<site, catalog, batch, sets, plans, products, candidates, assigned, app>>

Resolved(p, x) == {s \in Details(p, x).skus : Known(s)}
FetchBatch(l, p, x) == [at |-> load[l].at, answer |-> x, resolved |-> Cardinality(Resolved(p, x))]
ObservationSet(l, p, x) == [spu |-> p, at |-> load[l].at, answer |-> x]

\* Mutant: a fetch batch that exists is taken without comparing it.
SameBatch_Any(l, p, x) == TRUE
SameBatch(l, p, x) == batch[load[l].obs][p] \in {None, FetchBatch(l, p, x)}
SameSets(l, p, x) ==
    \A s \in Resolved(p, x) : sets[load[l].obs][s] \in {None, ObservationSet(l, p, x)}

\* One transaction per SPU.  It is refused when a SKU is in another SPU by now, and
\* when the run has already recorded something else.  The foreign key of a new set
\* waits for an apply that has locked the SKU.
RecordObservation(l, p) ==
    /\ p \in load[l].todo /\ load[l].got[p] # 0
    /\ LET o == load[l].obs
           x == load[l].got[p]
           accepted == /\ \A s \in Resolved(p, x) : catalog[s].spu = p
                       /\ SameBatch(l, p, x)
                       /\ SameSets(l, p, x)
       IN  /\ {s \in Resolved(p, x) : sets[o][s] = None} \cap LockedSkus = {}
           /\ IF accepted
                THEN /\ batch' = [batch EXCEPT ![o][p] = IF @ = None THEN FetchBatch(l, p, x) ELSE @]
                     /\ sets' = [sets EXCEPT ![o] = [s \in Skus |->
                                    IF s \in Resolved(p, x) THEN ObservationSet(l, p, x) ELSE @[s]]]
                ELSE UNCHANGED evidence
    /\ Settle(l, p)
    /\ UNCHANGED <<site, catalog, plans, products, candidates, assigned, app, upsets>>

-----------------------------------------------------------------------------
(* The resolution.                                                         *)

\* A dry run.  A plan without components is left out: to apply it writes nothing.
Prepare(o) ==
    /\ Len(plans) < MaxPlans
    /\ Plannable(o)
    /\ \A h \in DOMAIN plans : ~SamePlan(o, h, 0)
    /\ LET plan == Plan(o, 0)
       IN  /\ plan.components # {}
           /\ plans' = Append(plans, plan)
    /\ UNCHANGED <<site, catalog, batch, sets, load, products, candidates, assigned, app, upsets>>

\* The statement that waits for the advisory lock fixes the snapshot of the
\* serializable transaction, so what the plan is compared with is read here.  An
\* apply that finds another plan ends and leaves nothing behind.
BeginApply(a, h, o, audit) ==
    /\ app[a].pc = "idle"
    /\ Plannable(o) /\ SamePlan(o, h, h)
    /\ app' = [app EXCEPT ![a] = [NoApply EXCEPT !.pc = "begun", !.plan = h, !.obs = o, !.audit = audit]]
    /\ UNCHANGED <<site, catalog, batch, sets, load, plans, products, candidates, assigned, upsets>>

\* Mutant: rows updated since the snapshot are locked all the same.
Unmoved_Any(a) == TRUE
Unmoved(a) == app[a].touched \cap AffectedSkus(plans[app[a].plan]) = {}

\* One apply at a time has the advisory lock.  SELECT ... FOR UPDATE fails for a row
\* updated since the snapshot.
LockSkus(a) ==
    /\ app[a].pc = "begun"
    /\ \A b \in Applies : app[b].pc # "locked"
    /\ app' = [app EXCEPT ![a] = IF Unmoved(a) THEN [@ EXCEPT !.pc = "locked", !.touched = {}]
                                 ELSE NoApply]
    /\ UNCHANGED <<site, catalog, batch, sets, load, plans, products, candidates, assigned, upsets>>

\* Mutant: the read-back of a canonical product leaves its provenance out.
SameProduct_Key(k, members) == TRUE
SameProduct(k, members) == products[k] \in {{}, members}

\* A candidate that is stored under the key is the one expected, and a SKU that is
\* mapped is mapped by it.
SameCandidates(rows) == \A c \in rows : \A d \in candidates : Key(c) = Key(d) => c = d
SameAssignments(rows) == \A c \in rows : assigned[c.sku] \in {None, c}

\* Every row is inserted, or read back and compared.  Rows another apply committed
\* after the snapshot are a serialization failure.
Accepts(a, plan, rows) ==
    /\ app[a].late => rows = {}
    /\ \A k \in plan.components : SameProduct(k, SetMembers(plan, k))
    /\ SameCandidates(rows)
    /\ SameAssignments(rows)

\* Mutant: the bulk insert of the candidates stops one short.
Stored_OneShort(rows) == candidates \union {c \in rows : \E d \in rows : d.sku > c.sku}
Stored(rows) == candidates \union rows

PersistPlan(a) ==
    LET h == app[a].plan
        plan == plans[h]
        rows == Candidates(h, app[a].audit)
    IN  /\ app[a].pc = "locked"
        /\ IF Accepts(a, plan, rows)
             THEN /\ products' = [k \in DOMAIN products |->
                        IF k \in plan.components
                        THEN products[k] \union SetMembers(plan, k) ELSE products[k]]
                  /\ candidates' = Stored(rows)
                  /\ assigned' = [s \in Skus |->
                        IF \E c \in rows : c.sku = s THEN CHOOSE c \in rows : c.sku = s ELSE assigned[s]]
                  /\ app' = [b \in Applies |->
                        CASE b = a -> [app[a] EXCEPT !.pc = "committed"]
                          [] app[b].pc = "begun" /\ ~(rows \subseteq candidates) -> [app[b] EXCEPT !.late = TRUE]
                          [] OTHER -> app[b]]
             ELSE /\ app' = [app EXCEPT ![a] = NoApply]
                  /\ UNCHANGED mapping
        /\ UNCHANGED <<site, catalog, batch, sets, load, plans, upsets>>

\* Mutant: the read-back asks for SKUs that are still active.
ReadBack_Active(s, c) == assigned[s] = c /\ Active(s)
ReadBack(s, c) == assigned[s] = c

\* A second transaction reads the counts and the current assignments again.
Verify(a) ==
    LET h == app[a].plan
        plan == plans[h]
        rows == Candidates(h, app[a].audit)
        verified == /\ \A k \in plan.components :
                          {x \in products[k] : x.set[1] = app[a].obs} = SetMembers(plan, k)
                    /\ {c \in candidates : c.plan = h} = rows
                    /\ \A c \in rows : ReadBack(c.sku, c)
    IN  /\ app[a].pc = "committed"
        /\ app' = [app EXCEPT ![a] = IF verified THEN NoApply ELSE [NoApply EXCEPT !.pc = "refuted"]]
        /\ UNCHANGED <<site, catalog, batch, sets, load, plans, products, candidates, assigned, upsets>>

\* A timeout or a lost connection rolls back; after the commit only the answer is lost.
ApplyDies(a) ==
    /\ app[a].pc \in {"begun", "locked", "committed"} /\ Upset
    /\ app' = [app EXCEPT ![a] = NoApply]
    /\ UNCHANGED <<site, catalog, batch, sets, load, plans, products, candidates, assigned>>

IdentityNext ==
    \/ SiteChanges
    \/ \E c \in Listings : CatalogLoad(c.store, c.skus)
    \/ \E p \in Supplied : EnrichCatalog(p)
    \/ \E l \in Loads :
        \/ \E o \in Observations, at \in FetchTimes : StartLoad(l, o, at)
        \/ \E p \in Spus : FetchSpuInfo(l, p) \/ SpuFails(l, p) \/ RecordObservation(l, p)
    \/ \E o \in Observations : Prepare(o)
    \/ \E a \in Applies :
        \/ \E h \in DOMAIN plans, o \in Observations, audit \in Audits : BeginApply(a, h, o, audit)
        \/ LockSkus(a) \/ PersistPlan(a) \/ Verify(a) \/ ApplyDies(a)

IdentitySpec == IdentityInit /\ [][IdentityNext]_identityVars

-----------------------------------------------------------------------------
(* Properties.                                                             *)

\* Every variable has its type, and an assignment is of its SKU and of a candidate
\* that is stored with it.
IdentityTypeOK ==
    /\ site \in DOMAIN Answers
    /\ \A s \in Skus : catalog[s] \in [known : BOOLEAN, active : BOOLEAN, spu : Spus \union {0}]
    /\ \A l \in Loads : load[l].todo \subseteq Spus /\ load[l].pc \in {"idle", "running", "done"}
    /\ \A a \in Applies :
        /\ app[a].pc \in {"idle", "begun", "locked", "committed", "refuted"}
        /\ app[a].plan \in 0..Len(plans)
        /\ app[a].touched \subseteq Skus
    /\ \A s \in Skus : assigned[s] # None => assigned[s].sku = s /\ assigned[s] \in candidates

Mapped(k) == {s \in Skus : assigned[s] # None /\ assigned[s].component = k}
Source(s) == sets[assigned[s].source[1]][assigned[s].source[2]]

\* SKUs mapped to one product are of two stores at least and of one SPU per store,
\* and any two of its SPUs share a barcode of their first SKUs or two curated
\* attributes, and differ in no hard attribute.
MappedMeansMatched ==
    \A k \in DOMAIN products :
        LET mapped == Mapped(k)
            spus == {Source(s).spu : s \in mapped}
            first == [p \in spus |-> Min({s \in mapped : Source(s).spu = p})]
            facts == [p \in spus |-> Details(p, Source(first[p]).answer)]
            Shared(p, q) == facts[p].attributes \cap facts[q].attributes
            Differs(p, q) == {i \in Hard : \E b \in facts[p].attributes : b.id = i /\ b \notin Shared(p, q)}
        IN  /\ mapped # {} => Cardinality(spus) > 1
            /\ \A p, q \in spus : p < q =>
                /\ Store[p] # Store[q]
                /\ \/ facts[p].barcodes[first[p]] \cap facts[q].barcodes[first[q]] # {}
                   \/ Cardinality({b.id : b \in Shared(p, q)} \cap Curated) > 1
                /\ Differs(p, q) \cap Differs(q, p) = {}

\* A canonical product is the work of one approved plan and one audit, whatever was
\* observed, planned and retried later: its provenance names exactly its SKUs.
ProductIsOnePlan ==
    \A k \in DOMAIN products :
        /\ Mapped(k) = {x.set[2] : x \in products[k]}
        /\ \A s, t \in Mapped(k) : /\ assigned[s].plan = assigned[t].plan
                                   /\ assigned[s].audit = assigned[t].audit

\* A SKU is mapped only while it is active and in the SPU its evidence is about,
\* although the plan was computed before the catalog could be held still.
MapsListedSkus ==
    [][\A s \in Skus : assigned[s] = None /\ assigned'[s] # None =>
            Active(s) /\ catalog[s].spu = Source(s)'.spu]_identityVars

\* What an observation run says about an SPU comes from one answer of the platform,
\* however often its load was repeated.
OneAnswerPerSpu ==
    \A o \in Observations : \A s, t \in Sealed(o) :
        sets[o][s].spu = sets[o][t].spu => sets[o][s] = sets[o][t]

\* What a committed apply reports is true and stays true: its second look never
\* disagrees, whatever happened in between, and no later plan or retry changes a
\* mapping or takes it away.
ReportHolds ==
    [][/\ \A a \in Applies : app'[a].pc # "refuted"
       /\ \A s \in Skus : assigned[s] # None => assigned'[s] = assigned[s]]_identityVars

\* A mapping rests on a confirmed clique, one plan and one answer per SPU.
IdentitySafety == IdentityTypeOK /\ MappedMeansMatched /\ ProductIsOnePlan /\ OneAnswerPerSpu
=============================================================================
