---------------------------- MODULE SupplyProofs ----------------------------
(***************************************************************************)
(* Proofs about Supply.  A run is described by what its memory says at     *)
(* each place (PhaseInv) and by what the tables hold of it (TracesInv);    *)
(* the ledger, the documents and the projections each have an invariant of *)
(* their own.  A step of one run adds to the tables only rows of that run  *)
(* at the time of its plan, which no other run shares.                     *)
(***************************************************************************)
EXTENDS Supply, TLAPS

-----------------------------------------------------------------------------
(* The inductive invariant: shapes.                                        *)

Places == {"idle", "starting", "universe", "fetch", "inventory", "load", "finish",
           "done", "dead"}
Statuses == {"running", "error", "loaded", "partial", "skipped"}
Coverages == {"COMPLETE", "PARTIAL"}

Memory == [pc : Places, ask : Requests \union {NoRequest}, time : Times, i : Nat,
           open : Seq(Domains), known : BOOLEAN, universe : SUBSET Skus, moved : BOOLEAN,
           doc : [Docs -> DocType], seen : SUBSET Skus, res : [Domains -> Results],
           cov : [Domains -> Coverages], status : Statuses]

Projections == [run : Runs, domain : Projected, time : Times, coverage : Coverages,
                members : SUBSET Skus, listed : SUBSET Skus, authority : SUBSET Skus,
                moved : BOOLEAN]

LineType == [time : Times, content : Contents, current : BOOLEAN]

TypeInv ==
    /\ now \in Times /\ now >= 1
    /\ site \in [time : Times, content : Contents, silent : 0..MaxUpsets]
    /\ site.time >= 1
    /\ sales \in [usable : BOOLEAN, active : SUBSET Skus, loads : Nat]
    /\ row \in [Docs -> DocType]
    /\ lines \in [Docs -> SUBSET LineType]
    /\ jit \in SUBSET [time : Times, current : BOOLEAN]
    /\ sku \in [{"catalog", "details"} -> Times]
    /\ projection \in SUBSET Projections
    /\ recon \in [Skus -> Times]
    /\ batches \in SUBSET [run : Runs, domain : Domains, time : Times]
    /\ ledger \in SUBSET Events
    /\ m \in [Runs -> Memory]
    /\ overlapped \in BOOLEAN
    /\ faults \in Nat

-----------------------------------------------------------------------------
(* What a run remembers at each place.                                     *)

Running(x) == x.pc \notin {"idle", "done", "dead"}
Asked(x) == {x.ask.domains[j] : j \in DOMAIN x.ask.domains}
Nothing(x) == x.res = [d \in Domains |-> "none"]
Opened(x) == x.open = x.ask.domains

\* Attempts are opened in the order of the request.
OpeningInv(x) ==
    x.pc = "starting" =>
        /\ x.i \in 1..Len(x.ask.domains) /\ Len(x.open) = x.i - 1
        /\ \A j \in 1..Len(x.open) : x.open[j] = x.ask.domains[j]
        /\ Nothing(x) /\ ~x.known

\* Nothing is fetched or known before the universe is read.
UniverseInv(x) == x.pc = "universe" => Opened(x) /\ Nothing(x) /\ ~x.known

\* Only needed domains have a result, none of them is stored yet, and inventory,
\* which is not one of the primary domains, has none.
FetchingInv(x) ==
    x.pc = "fetch" =>
        /\ Opened(x)
        /\ \A d \in Domains : x.res[d] \notin {"loaded", "load_error"}
        /\ \A d \in Domains : x.res[d] # "none" =>
              d \in Asked(x) \/ (d = "catalog" /\ "details" \in Asked(x))
        /\ x.res["inventory"] = "none"
        /\ \A d \in Docs : x.res[d] = "fetched" => x.doc[d].time >= 1 /\ x.doc[d].content \in Contents

\* The primary domains that were asked for have their final results.
InventoryInv(x) ==
    x.pc \in {"inventory", "load"} =>
        /\ Opened(x) /\ "inventory" \in Asked(x)
        /\ \A d \in Asked(x) \ {"inventory"} : x.res[d] \notin {"none", "fetched"}
        /\ \A d \in Domains : x.res[d] = "fetched" => d = "inventory" /\ x.pc = "load"
        /\ x.pc = "inventory" => x.res["inventory"] = "none"
        /\ x.pc = "load" => /\ x.known /\ x.seen \subseteq x.universe
                            /\ x.cov["inventory"] = "COMPLETE" => x.seen = x.universe

\* What is closed was opened; a store reported as loaded has all its results.
ClosingInv(x) ==
    x.pc = "finish" =>
        /\ x.i \in 1..Len(x.open) /\ Len(x.open) <= Len(x.ask.domains)
        /\ \A j \in 1..Len(x.open) : x.open[j] = x.ask.domains[j]
        /\ x.status # "error" => Opened(x)
        /\ x.status = "loaded" =>
              \A d \in Asked(x) : x.res[d] = "loaded" /\ x.cov[d] # "PARTIAL"

\* A run that has ended remembers its status and its request only.
OverInv(x) == x.pc \in {"done", "dead"} => Nothing(x) /\ ~x.known

PhaseInv(x) ==
    /\ x.pc = "idle" => x = Fresh
    /\ Running(x) => x.ask \in Requests /\ x.time >= 1
    /\ OpeningInv(x) /\ UniverseInv(x) /\ FetchingInv(x) /\ InventoryInv(x)
    /\ ClosingInv(x) /\ OverInv(x)

-----------------------------------------------------------------------------
(* What the tables hold of a run.                                          *)

Has(r, d, status) ==
    \E e \in ledger : e.run = r /\ e.domain = d /\ e.status = status

\* Its events carry the time and the scope of its plan and are the only ones of
\* that time; what it opened is started, what it closed as loaded succeeded.
EventsInv(r, x) ==
    /\ x.pc = "idle" => \A e \in ledger : e.run # r
    /\ Running(x) => /\ x.time <= now
                     /\ \A e \in ledger : (e.run = r <=> e.at = x.time)
                     /\ \A e \in ledger : e.run = r => e.scope = x.ask.scope
                     /\ \A j \in 1..Len(x.open) : Has(r, x.open[j], "STARTED")
    /\ x.pc = "finish" /\ x.status = "loaded" =>
           \A j \in 1..(x.i - 1) : Has(r, x.open[j], "SUCCEEDED")
    /\ x.pc = "done" /\ x.status = "loaded" => \A d \in Asked(x) : Has(r, d, "SUCCEEDED")

\* The batch of a domain is committed and the document not older than it.
Stored(r, d) == \E b \in batches : /\ b.run = r /\ b.domain = d
                                   /\ d \in Docs => row[d].time >= b.time

\* The projection of a domain is committed with the coverage that was reported,
\* unless the active SKUs moved under the run.
Shown(r, d, t) == \E p \in projection : /\ p.run = r /\ p.domain = d /\ p.time = t
                                        /\ p.coverage = "COMPLETE" \/ p.moved

ResultsInv(r, x) ==
    \A d \in Domains : x.res[d] = "loaded" =>
        /\ Stored(r, d)
        /\ d \in Projected /\ x.cov[d] # "PARTIAL" => Shown(r, d, x.time)

\* Its projections carry the time of its plan, which is no other's, and are
\* there only when it has loaded them.
BatchesInv(r, x) ==
    /\ x.pc = "idle" => \A p \in projection : p.run # r
    /\ Running(x) => \A p \in projection : (p.run = r <=> p.time = x.time)
    /\ x.pc \in {"starting", "universe", "fetch"} => \A p \in projection : p.run # r
    /\ x.pc \in {"inventory", "load"} =>
           \A p \in projection : p.run = r => p.domain # "inventory"

\* The SKUs it asked for are the active ones until a load moves them.
AuthorityInv(x) == x.known /\ ~x.moved => x.universe = sales.active

TracesInv(r, x) ==
    EventsInv(r, x) /\ ResultsInv(r, x) /\ BatchesInv(r, x) /\ AuthorityInv(x)

\* No two runs under way are planned at one instant.
PlansInv == \A r, q \in Runs : r # q /\ Running(m[r]) /\ Running(m[q]) => m[r].time # m[q].time

RunsInv == \A r \in Runs : PhaseInv(m[r]) /\ TracesInv(r, m[r])

-----------------------------------------------------------------------------
(* What the tables hold.                                                   *)

\* The events of a run share time and scope and those of two runs are of two times;
\* what is closed was started, and was asked for; a success has its rows.
LedgerInv ==
    /\ \A e, f \in ledger : (e.run = f.run <=> e.at = f.at)
    /\ \A e, f \in ledger : e.run = f.run => e.scope = f.scope
    /\ \A e \in ledger : e.at <= now /\ Has(e.run, e.domain, "STARTED")
    /\ \A e \in ledger : \E q \in Requests : /\ e.scope = q.scope
                                             /\ \E j \in DOMAIN q.domains : e.domain = q.domains[j]
    /\ \A e \in ledger : e.status = "SUCCEEDED" =>
          /\ Stored(e.run, e.domain)
          /\ e.domain \in Projected => Shown(e.run, e.domain, e.at)

\* No line is newer than the version in the row, which alone is current.
DocumentsInv ==
    /\ \A d \in Docs : row[d] = NoDoc \/ (row[d].time >= 1 /\ row[d].content \in Contents)
    /\ \A d \in Docs : \A l \in lines[d] : l.time <= row[d].time
    /\ OneVersionIsCurrent

\* While runs do not overlap, one is under way and no relation is later than it.
RelationsInv ==
    /\ \A j \in jit : j.time <= now
    /\ ~overlapped =>
          /\ \A r, q \in Runs : Running(m[r]) /\ Running(m[q]) => r = q
          /\ \A r \in Runs : Running(m[r]) => \A j \in jit : j.time <= m[r].time
    /\ JitFollowsTheOrder

\* A batch of projections holds what was active and listed; there is one for a
\* domain and a time, of an attempt that was started.
ProjectionsInv ==
    /\ \A p \in projection :
          /\ p.members = p.authority \intersect p.listed
          /\ p.domain = "inventory" /\ p.coverage = "COMPLETE" => p.authority \subseteq p.listed
          /\ p.time <= now
          /\ \E e \in ledger : /\ e.run = p.run /\ e.domain = p.domain
                               /\ e.at = p.time /\ e.status = "STARTED"
    /\ \A p, q \in projection : p.domain = q.domain /\ p.time = q.time => p = q

SupplyInv ==
    /\ TypeInv /\ RunsInv /\ PlansInv
    /\ LedgerInv /\ DocumentsInv /\ RelationsInv /\ ProjectionsInv

-----------------------------------------------------------------------------
(* Domains, requests and memories.                                         *)

LEMMA DomainFacts ==
    /\ Domains = {"catalog", "details", "advice", "orders", "deliveries", "inventory"}
    /\ DOMAIN Primary = 1..5
    /\ \A k \in DOMAIN Primary : Primary[k] \in Domains \ {"inventory"}
    /\ \A d \in Domains \ {"inventory"} : \E k \in DOMAIN Primary : Primary[k] = d
    /\ Docs \subseteq Domains /\ Projected \subseteq Domains /\ "inventory" \notin Docs
    /\ "catalog" \notin Projected /\ Docs \cap Projected = {}
<1>1. /\ Len(Primary) = 5 /\ DOMAIN Primary = 1..5
      /\ Primary[1] = "catalog" /\ Primary[2] = "details" /\ Primary[3] = "advice"
      /\ Primary[4] = "orders" /\ Primary[5] = "deliveries"
  BY DEF Primary
<1>2. \A k \in 1..5 : k = 1 \/ k = 2 \/ k = 3 \/ k = 4 \/ k = 5
  OBVIOUS
<1>3. Domains = {"catalog", "details", "advice", "orders", "deliveries", "inventory"}
  BY <1>1, <1>2 DEF Domains
<1> QED
  BY <1>1, <1>2, <1>3 DEF Docs, Projected

LEMMA ConstantFacts ==
    /\ MaxTime \in Nat /\ MaxTime >= 1 /\ LiveMaxAge \in Nat /\ StartedTimeout \in Nat
    /\ MaxUpsets \in Nat /\ MaxFaults \in Nat
    /\ Times \subseteq Nat /\ 0 \in Times /\ 1 \in Times
BY SelectionAssumption DEF Times

LEMMA RequestFacts ==
    ASSUME NEW q \in Requests
    PROVE  /\ q.scope \in {"LIVE", "BACKFILL"} /\ q.domains \in Seq(Domains)
           /\ Len(q.domains) \in Nat /\ Len(q.domains) >= 1
           /\ DOMAIN q.domains = 1..Len(q.domains)
           /\ \A j \in 1..Len(q.domains) : q.domains[j] \in Domains
<1>1. q.scope \in {"LIVE", "BACKFILL"} /\ q.domains \in Seq(Domains) /\ q.domains # <<>>
  BY SelectionAssumption
<1> QED
  BY <1>1

LEMMA MemoryFields ==
    ASSUME NEW x \in Memory
    PROVE  /\ x.pc \in Places /\ x.ask \in Requests \union {NoRequest} /\ x.time \in Times
           /\ x.i \in Nat /\ x.open \in Seq(Domains) /\ Len(x.open) \in Nat
           /\ x.known \in BOOLEAN /\ x.universe \in SUBSET Skus /\ x.moved \in BOOLEAN
           /\ x.doc \in [Docs -> DocType] /\ x.seen \in SUBSET Skus
           /\ x.res \in [Domains -> Results] /\ x.cov \in [Domains -> Coverages]
           /\ x.status \in Statuses
           /\ \A j \in 1..Len(x.open) : x.open[j] \in Domains
           /\ x.time \in Nat
<1>1. /\ x.pc \in Places /\ x.ask \in Requests \union {NoRequest} /\ x.time \in Times
      /\ x.i \in Nat /\ x.open \in Seq(Domains)
      /\ x.known \in BOOLEAN /\ x.universe \in SUBSET Skus /\ x.moved \in BOOLEAN
      /\ x.doc \in [Docs -> DocType] /\ x.seen \in SUBSET Skus
      /\ x.res \in [Domains -> Results] /\ x.cov \in [Domains -> Coverages]
      /\ x.status \in Statuses
  BY DEF Memory
<1>2. Len(x.open) \in Nat /\ \A j \in 1..Len(x.open) : x.open[j] \in Domains
  BY <1>1
<1>3. x.time \in Nat
  BY <1>1, ConstantFacts
<1> QED
  BY <1>1, <1>2, <1>3

(* A run that has not begun, or has ended, holds nothing.                  *)
LEMMA FreshMemory ==
    /\ Fresh \in Memory /\ Fresh.pc = "idle" /\ Nothing(Fresh) /\ ~Fresh.known /\ ~Fresh.moved
    /\ Fresh.i = 1 /\ Fresh.open = <<>> /\ Fresh.status = "running"
<1>1. [d \in Docs |-> NoDoc] \in [Docs -> DocType]
  BY ConstantFacts DEF NoDoc, DocType
<1>2. /\ [d \in Domains |-> "none"] \in [Domains -> Results]
      /\ [d \in Domains |-> "COMPLETE"] \in [Domains -> Coverages]
  BY DEF Results, Coverages
<1>3. <<>> \in Seq(Domains)
  OBVIOUS
<1> QED
  BY <1>1, <1>2, <1>3, ConstantFacts DEF Fresh, Memory, Places, Statuses, Nothing

LEMMA GoneMemory ==
    ASSUME NEW c \in {"done", "dead"}, NEW s \in Statuses
    PROVE  /\ Gone(c, s) \in Memory /\ Gone(c, s).pc = c /\ Gone(c, s).status = s
           /\ PhaseInv(Gone(c, s)) /\ Nothing(Gone(c, s)) /\ ~Gone(c, s).known
<1>1. PICK f : f = Fresh
  OBVIOUS
<1>2. f \in Memory /\ Nothing(f) /\ ~f.known
  BY <1>1, FreshMemory
<1>3. Gone(c, s) = [f EXCEPT !.pc = c, !.status = s]
  BY <1>1 DEF Gone
<1>4. /\ Gone(c, s) \in Memory /\ Gone(c, s).pc = c /\ Gone(c, s).status = s
      /\ Nothing(Gone(c, s)) /\ ~Gone(c, s).known
  BY <1>2, <1>3 DEF Memory, Places, Statuses, Nothing
<1> QED
  BY <1>4 DEF PhaseInv, Running, OpeningInv, UniverseInv, FetchingInv, InventoryInv,
     ClosingInv, OverInv

(* The results are all in: the attempts are closed with the store's status. *)
LEMMA ClosingMemory ==
    ASSUME NEW x \in Memory, x.ask \in Requests, x.time >= 1, Opened(x),
           \A d \in Asked(x) : x.res[d] \notin {"none", "fetched"}
    PROVE  /\ Closing(x) \in Memory /\ PhaseInv(Closing(x)) /\ Closing(x).pc = "finish"
           /\ Closing(x).i = 1 /\ Closing(x).time = x.time /\ Closing(x).ask = x.ask
           /\ Closing(x).open = x.open /\ Closing(x).res = x.res /\ Closing(x).cov = x.cov
           /\ ~Closing(x).known
<1>1. PICK s : s = StoreStatus(x.res, x.cov)
  OBVIOUS
<1>2. s \in {"loaded", "partial", "error"}
  BY <1>1, ZenonT(30) DEF StoreStatus
<1>3. s = "loaded" => \A d \in Domains :
        /\ x.res[d] \notin {"fetch_error", "load_error", "blocked_by_dependency"}
        /\ x.res[d] # "none" => x.cov[d] # "PARTIAL"
  <2>1. PICK failed : failed = {d \in Domains : x.res[d] \in {"fetch_error", "load_error",
                      "blocked_by_dependency"} \/ (x.res[d] # "none" /\ x.cov[d] = "PARTIAL")}
    OBVIOUS
  <2>2. s = "loaded" => failed = {}
    BY <1>1, <2>1 DEF StoreStatus
  <2> QED
    BY <2>1, <2>2
<1>4. PICK y : y = Closing(x)
  OBVIOUS
<1>5. /\ y \in Memory /\ y.pc = "finish" /\ y.i = 1 /\ y.time = x.time /\ y.ask = x.ask
      /\ y.open = x.open /\ y.res = x.res /\ y.cov = x.cov /\ ~y.known /\ y.status = s
  BY <1>1, <1>2, <1>4 DEF Closing, Memory, Places, Statuses
<1>6. Len(y.open) = Len(y.ask.domains) /\ Len(y.open) >= 1 /\ Len(y.open) \in Nat
  BY <1>5, RequestFacts DEF Opened
<1>7. \A d \in Asked(y) : d \in Domains /\ x.res[d] \in Results /\ x.res[d] \notin {"none", "fetched"}
  <2>1. Asked(y) = Asked(x)
    BY <1>5 DEF Asked
  <2>2. \A d \in Asked(y) : d \in Domains
    BY <2>1, RequestFacts DEF Asked
  <2> QED
    BY <2>1, <2>2, MemoryFields
<1>8. s = "loaded" => \A d \in Asked(y) : y.res[d] = "loaded" /\ y.cov[d] # "PARTIAL"
  BY <1>3, <1>5, <1>7 DEF Results
<1>9. ClosingInv(y)
  BY <1>5, <1>6, <1>8 DEF ClosingInv, Opened
<1>10. PhaseInv(y)
  BY <1>5, <1>9 DEF PhaseInv, Running, OpeningInv, UniverseInv, FetchingInv, InventoryInv,
     OverInv
<1> QED
  BY <1>4, <1>5, <1>10

-----------------------------------------------------------------------------
(* Rows of other runs.                                                     *)

\* What a step of run r may add to the tables: rows of its own, at the time of
\* its plan; documents do not go back.
Grows(r) ==
    /\ ledger \subseteq ledger' /\ projection \subseteq projection' /\ batches \subseteq batches'
    /\ \A e \in ledger' \ ledger : e.run = r /\ e.at = m[r].time /\ e.scope = m[r].ask.scope
    /\ \A p \in projection' \ projection : p.run = r /\ p.time = m[r].time
    /\ ledger' # ledger \/ projection' # projection => Running(m[r])
    /\ \A d \in Docs : row'[d].time >= row[d].time
    /\ now' = now /\ sales' = sales

LEMMA Cells ==
    ASSUME SupplyInv
    PROVE  /\ m \in [Runs -> Memory] /\ \A r \in Runs : m[r] \in Memory
           /\ \A r \in Runs : PhaseInv(m[r]) /\ TracesInv(r, m[r])
           /\ now \in Nat /\ now >= 1 /\ now \in Times /\ faults \in Nat
           /\ \A e \in ledger : e \in Events /\ e.at \in Nat
           /\ \A p \in projection : p \in Projections /\ p.time \in Nat
           /\ \A b \in batches : b.time \in Nat
           /\ \A d \in Docs : row[d] \in DocType /\ row[d].time \in Nat
           /\ TypeInv /\ PlansInv /\ LedgerInv /\ DocumentsInv /\ RelationsInv /\ ProjectionsInv
<1>1. TypeInv
  BY DEF SupplyInv
<1>2. m \in [Runs -> Memory] /\ now \in Times /\ now >= 1 /\ faults \in Nat
  BY <1>1 DEF TypeInv
<1>3. \A e \in ledger : e \in Events /\ e.at \in Times
  BY <1>1 DEF TypeInv, Events
<1>4. \A p \in projection : p \in Projections /\ p.time \in Times
  BY <1>1 DEF TypeInv, Projections
<1>5. \A b \in batches : b.time \in Times
  BY <1>1 DEF TypeInv
<1>6. \A d \in Docs : row[d] \in DocType /\ row[d].time \in Times
  BY <1>1 DEF TypeInv, DocType
<1> QED
  BY <1>1, <1>2, <1>3, <1>4, <1>5, <1>6, ConstantFacts DEF SupplyInv, RunsInv

(* Rows stay.                                                              *)
LEMMA RowsStay ==
    ASSUME SupplyInv, NEW r \in Runs, Grows(r), TypeInv'
    PROVE  /\ \A q, d, s : Has(q, d, s) => Has(q, d, s)'
           /\ \A q, d : Stored(q, d) => Stored(q, d)'
           /\ \A q, d, t : Shown(q, d, t) => Shown(q, d, t)'
<1>1. ASSUME NEW q, NEW d, NEW s, Has(q, d, s)
      PROVE  Has(q, d, s)'
  BY <1>1 DEF Has, Grows
<1>2. ASSUME NEW q, NEW d, Stored(q, d)
      PROVE  Stored(q, d)'
  <2>1. PICK b \in batches : b.run = q /\ b.domain = d /\ (d \in Docs => row[d].time >= b.time)
    BY <1>2 DEF Stored
  <2>2. d \in Docs => /\ row[d].time \in Nat /\ row'[d].time \in Nat /\ b.time \in Nat
                      /\ row'[d].time >= row[d].time
    BY <2>1, Cells, ConstantFacts DEF TypeInv, DocType, Grows
  <2>3. d \in Docs => row'[d].time >= b.time
    BY <2>1, <2>2
  <2>4. b \in batches'
    BY <2>1 DEF Grows
  <2> QED
    BY <2>1, <2>3, <2>4 DEF Stored
<1>3. ASSUME NEW q, NEW d, NEW t, Shown(q, d, t)
      PROVE  Shown(q, d, t)'
  BY <1>3 DEF Shown, Grows
<1> QED
  BY <1>1, <1>2, <1>3

(* The others' traces are as they were.                                    *)
LEMMA OthersKept ==
    ASSUME SupplyInv, NEW r \in Runs, Grows(r), TypeInv',
           NEW q \in Runs, q # r, NEW x, x = m[q]
    PROVE  TracesInv(q, x)'
<1>1. x \in Memory /\ TracesInv(q, x)
  BY Cells
<1>2. Running(x) /\ Running(m[r]) => x.time # m[r].time
  BY Cells DEF PlansInv
<1>3. /\ \A e \in ledger' : e \in ledger \/ (e.run = r /\ e.at = m[r].time /\ Running(m[r]))
      /\ \A p \in projection' : p \in projection \/ (p.run = r /\ p.time = m[r].time /\ Running(m[r]))
      /\ now' = now /\ sales' = sales
  BY DEF Grows
<1>4. EventsInv(q, x)'
  <2>1. EventsInv(q, x)
    BY <1>1 DEF TracesInv
  <2>2. x.pc = "idle" => \A e \in ledger' : e.run # q
    BY <1>3, <2>1 DEF EventsInv
  <2>3. ASSUME Running(x)
        PROVE  /\ x.time <= now'
               /\ \A e \in ledger' : (e.run = q <=> e.at = x.time)
               /\ \A e \in ledger' : e.run = q => e.scope = x.ask.scope
               /\ \A j \in 1..Len(x.open) : Has(q, x.open[j], "STARTED")'
    BY <1>2, <1>3, <2>1, <2>3, RowsStay DEF EventsInv
  <2>4. /\ x.pc = "finish" /\ x.status = "loaded" =>
             \A j \in 1..(x.i - 1) : Has(q, x.open[j], "SUCCEEDED")'
        /\ x.pc = "done" /\ x.status = "loaded" => \A d \in Asked(x) : Has(q, d, "SUCCEEDED")'
    BY <2>1, RowsStay DEF EventsInv
  <2> QED
    BY <2>2, <2>3, <2>4 DEF EventsInv
<1>5. ResultsInv(q, x)'
  BY <1>1, RowsStay DEF TracesInv, ResultsInv
<1>6. BatchesInv(q, x)'
  BY <1>1, <1>2, <1>3 DEF TracesInv, BatchesInv
<1>7. AuthorityInv(x)'
  BY <1>1, <1>3 DEF TracesInv, AuthorityInv
<1> QED
  BY <1>4, <1>5, <1>6, <1>7 DEF TracesInv

(* A step of one run keeps what is said of all runs.                       *)
LEMMA RunsKept ==
    ASSUME SupplyInv, NEW r \in Runs, Grows(r), TypeInv', NEW y \in Memory,
           m' = [m EXCEPT ![r] = y], PhaseInv(y), TracesInv(r, y)',
           Running(y) => Running(m[r]) /\ y.time = m[r].time
    PROVE  RunsInv' /\ PlansInv'
<1>1. m'[r] = y /\ \A q \in Runs : q # r => m'[q] = m[q]
  BY Cells
<1>2. ASSUME NEW q \in Runs
      PROVE  PhaseInv(m'[q]) /\ TracesInv(q, m[q])'
  <2>1. CASE q = r
    <3>1. TracesInv(q, y)'
      BY <2>1
    <3>2. TracesInv(q, y)' <=> TracesInv(q, m[q])'
      BY <1>1, <2>1 DEF TracesInv, EventsInv, ResultsInv, BatchesInv, AuthorityInv
    <3> QED
      BY <1>1, <2>1, <3>1, <3>2
  <2>2. CASE q # r
    <3>1. PICK x : x = m[q]
      OBVIOUS
    <3>2. TracesInv(q, x)'
      BY <2>2, <3>1, OthersKept
    <3>3. m'[q] = x /\ PhaseInv(x)
      BY <1>1, <2>2, <3>1, Cells
    <3>4. TracesInv(q, x)' <=> TracesInv(q, m[q])'
      BY <3>3 DEF TracesInv, EventsInv, ResultsInv, BatchesInv, AuthorityInv
    <3> QED
      BY <3>2, <3>3, <3>4
  <2> QED
    BY <2>1, <2>2
<1>3. RunsInv'
  BY <1>2 DEF RunsInv
<1>4. PlansInv'
  BY <1>1, Cells DEF PlansInv
<1> QED
  BY <1>3, <1>4

-----------------------------------------------------------------------------
(* Steps that leave the tables alone.                                      *)

\* Where a run may be after a step on the way.
GoesOn(x, y) ==
    /\ Running(x) /\ Running(y) /\ y.ask = x.ask /\ y.time = x.time /\ y.open = x.open
    /\ y.pc = "finish" => y.i = 1
    /\ y.pc \in {"universe", "fetch"} => x.pc \in {"universe", "fetch"}
    /\ y.pc \in {"inventory", "load"} => x.pc \in {"fetch", "inventory", "load"}
    /\ y.pc # "starting"

(* What is recorded of a run that goes on stays true of it.                *)
LEMMA EventsOfOn ==
    ASSUME NEW r, NEW x, NEW y, EventsInv(r, x), GoesOn(x, y), y.i \in Nat
    PROVE  EventsInv(r, y)
<1>1. /\ y.time <= now
      /\ \A e \in ledger : (e.run = r <=> e.at = y.time)
      /\ \A e \in ledger : e.run = r => e.scope = y.ask.scope
      /\ \A j \in 1..Len(y.open) : Has(r, y.open[j], "STARTED")
  BY DEF EventsInv, GoesOn
<1>2. y.pc = "finish" => 1..(y.i - 1) = {}
  BY DEF GoesOn
<1> QED
  BY <1>1, <1>2 DEF EventsInv, GoesOn, Running

LEMMA GoesOnQuietly ==
    ASSUME NEW r, NEW x \in Memory, NEW y \in Memory, TracesInv(r, x), GoesOn(x, y),
           \A d \in Domains : y.res[d] = "loaded" => x.res[d] = "loaded" /\ y.cov[d] = x.cov[d],
           AuthorityInv(y)
    PROVE  TracesInv(r, y)
<1>1. EventsInv(r, y)
  BY EventsOfOn, MemoryFields DEF TracesInv
<1>2. ResultsInv(r, y)
  BY DEF TracesInv, ResultsInv, GoesOn
<1>3. BatchesInv(r, y)
  BY DEF TracesInv, BatchesInv, GoesOn, Running
<1> QED
  BY <1>1, <1>2, <1>3 DEF TracesInv

(* Nothing is claimed for a run that has ended otherwise than loaded.      *)
LEMMA EndsQuietly ==
    ASSUME NEW r, NEW y, y.pc \in {"done", "dead"}, Nothing(y), ~y.known,
           y.pc = "done" => y.status # "loaded"
    PROVE  TracesInv(r, y) /\ TracesInv(r, y)'
BY DomainFacts DEF TracesInv, EventsInv, ResultsInv, BatchesInv, AuthorityInv, Running, Nothing

(* The relations when the order, the clock and the overlap stay.           *)
LEMMA RelationsKept ==
    ASSUME SupplyInv, NEW r \in Runs, NEW y, m' = [m EXCEPT ![r] = y],
           Running(y) => Running(m[r]) /\ y.time = m[r].time,
           UNCHANGED <<now, row, jit, overlapped>>
    PROVE  RelationsInv'
<1>1. m'[r] = y /\ \A q \in Runs : q # r => m'[q] = m[q]
  BY Cells
<1>2. \A q \in Runs : Running(m'[q]) => Running(m[q]) /\ m'[q].time = m[q].time
  BY <1>1
<1>3. JitFollowsTheOrder'
  BY Cells DEF RelationsInv, JitFollowsTheOrder
<1> QED
  BY <1>2, <1>3, Cells DEF RelationsInv

LEMMA QuietStep ==
    ASSUME SupplyInv, NEW r \in Runs, NEW y \in Memory, m' = [m EXCEPT ![r] = y],
           UNCHANGED <<now, site, sales, warehouse, ledger, overlapped>>,
           faults' \in {faults, faults + 1}, PhaseInv(y), TracesInv(r, y), Running(y) => Running(m[r]) /\ y.time = m[r].time
    PROVE  SupplyInv'
<1>1. /\ now' = now /\ site' = site /\ sales' = sales /\ row' = row /\ lines' = lines
      /\ jit' = jit /\ sku' = sku /\ projection' = projection /\ recon' = recon
      /\ batches' = batches /\ ledger' = ledger /\ overlapped' = overlapped
  BY DEF warehouse
<1>2. TypeInv'
  <2>1. faults' \in Nat /\ m' \in [Runs -> Memory]
    BY Cells
  <2> QED
    BY <1>1, <2>1, Cells DEF TypeInv
<1>3. Grows(r)
  BY <1>1, Cells DEF Grows
<1>4. TracesInv(r, y)'
  BY <1>1 DEF TracesInv, EventsInv, ResultsInv, BatchesInv, AuthorityInv, Has, Stored, Shown
<1>5. RunsInv' /\ PlansInv'
  BY <1>2, <1>3, <1>4, RunsKept
<1>6. LedgerInv'
  BY <1>1, Cells DEF LedgerInv, Has, Stored, Shown
<1>7. DocumentsInv'
  BY <1>1, Cells DEF DocumentsInv, OneVersionIsCurrent, LineTotals
<1>8. ProjectionsInv'
  BY <1>1, Cells DEF ProjectionsInv
<1>9. RelationsInv'
  BY <1>1, RelationsKept
<1> QED
  BY <1>2, <1>5, <1>6, <1>7, <1>8, <1>9 DEF SupplyInv

(* A run on its way.                                                       *)
LEMMA RunningFacts ==
    ASSUME SupplyInv, NEW r \in Runs, Running(m[r])
    PROVE  /\ m[r] \in Memory /\ m[r].ask \in Requests /\ m[r].time >= 1 /\ m[r].time <= now
           /\ m[r].time \in Nat /\ m[r].i \in Nat
           /\ Selected(r) = m[r].ask.domains /\ Chosen(r) = Asked(m[r])
           /\ Selected(r) \in Seq(Domains) /\ Len(Selected(r)) \in Nat /\ Len(Selected(r)) >= 1
           /\ DOMAIN Selected(r) = 1..Len(Selected(r))
           /\ PhaseInv(m[r]) /\ TracesInv(r, m[r]) /\ Chosen(r) \subseteq Domains
<1>1. m[r] \in Memory /\ PhaseInv(m[r]) /\ TracesInv(r, m[r])
  BY Cells
<1>2. m[r].ask \in Requests /\ m[r].time >= 1
  BY <1>1 DEF PhaseInv
<1>3. m[r].time <= now
  BY <1>1 DEF TracesInv, EventsInv
<1> QED
  BY <1>1, <1>2, <1>3, RequestFacts, MemoryFields DEF Selected, Chosen, Asked

LEMMA DieStep ==
    ASSUME SupplyInv, NEW r \in Runs, Die(r)
    PROVE  SupplyInv'
<1>1. PICK y : y = Gone("dead", "running")
  OBVIOUS
<1>2. y \in Memory /\ y.pc = "dead" /\ PhaseInv(y) /\ Nothing(y) /\ ~y.known
  BY <1>1, GoneMemory DEF Statuses
<1>3. TracesInv(r, y)
  BY <1>2, EndsQuietly
<1>4. /\ m' = [m EXCEPT ![r] = y] /\ faults' = faults + 1 /\ ~Running(y)
      /\ UNCHANGED <<now, site, sales, warehouse, ledger, overlapped>>
  BY <1>1, <1>2 DEF Die, world, Running
<1> QED
  BY <1>2, <1>3, <1>4, QuietStep

LEMMA ReadUniverseStep ==
    ASSUME SupplyInv, NEW r \in Runs, ReadUniverse(r)
    PROVE  SupplyInv'
<1>1. m[r].pc = "universe" /\ Running(m[r])
  BY DEF ReadUniverse, Running
<1>2. /\ m[r] \in Memory /\ m[r].ask \in Requests /\ m[r].time >= 1 /\ TracesInv(r, m[r])
      /\ Opened(m[r]) /\ Nothing(m[r]) /\ ~m[r].known
  BY <1>1, RunningFacts DEF PhaseInv, UniverseInv
<1>3. PICK k \in BOOLEAN, u \in SUBSET Skus :
        /\ k => u = sales.active
        /\ m' = [m EXCEPT ![r] = [m[r] EXCEPT !.pc = "fetch", !.known = k, !.universe = u]]
        /\ faults' \in {faults, faults + 1}
        /\ UNCHANGED <<now, site, sales, warehouse, ledger, overlapped>>
  <2>1. PICK n : n = [m[r] EXCEPT !.pc = "fetch", !.known = FALSE]
    OBVIOUS
  <2>2. n = [m[r] EXCEPT !.pc = "fetch", !.known = FALSE, !.universe = m[r].universe]
    BY <1>2, <2>1 DEF Memory
  <2>3. [n EXCEPT !.known = TRUE, !.universe = sales.active]
          = [m[r] EXCEPT !.pc = "fetch", !.known = TRUE, !.universe = sales.active]
    BY <1>2, <2>1 DEF Memory
  <2>4. /\ m' = [m EXCEPT ![r] = n]
           \/ m' = [m EXCEPT ![r] = [n EXCEPT !.known = TRUE, !.universe = sales.active]]
        /\ faults' \in {faults, faults + 1}
        /\ UNCHANGED <<now, site, sales, warehouse, ledger, overlapped>>
    BY <2>1 DEF ReadUniverse, world
  <2>5. sales.active \in SUBSET Skus /\ m[r].universe \in SUBSET Skus
    BY Cells, MemoryFields DEF TypeInv
  <2> QED
    BY <2>2, <2>3, <2>4, <2>5
<1>4. PICK y : y = [m[r] EXCEPT !.pc = "fetch", !.known = k, !.universe = u]
  OBVIOUS
<1>5. /\ y \in Memory /\ y.pc = "fetch" /\ y.ask = m[r].ask /\ y.time = m[r].time
      /\ y.open = m[r].open /\ y.res = m[r].res /\ y.cov = m[r].cov /\ y.known = k
      /\ y.universe = u
  BY <1>2, <1>3, <1>4 DEF Memory, Places
<1>6. \A d \in Domains : y.res[d] = "none"
  BY <1>2, <1>5 DEF Nothing
<1>7. FetchingInv(y)
  BY <1>2, <1>5, <1>6, DomainFacts DEF FetchingInv, Opened
<1>8. PhaseInv(y)
  BY <1>2, <1>5, <1>7 DEF PhaseInv, Running, OpeningInv, UniverseInv, InventoryInv,
     ClosingInv, OverInv
<1>9. AuthorityInv(y)
  BY <1>3, <1>5 DEF AuthorityInv
<1>10. TracesInv(r, y)
  BY <1>1, <1>2, <1>5, <1>6, <1>9, GoesOnQuietly DEF GoesOn, Running
<1> QED
  BY <1>1, <1>3, <1>4, <1>5, <1>8, <1>10, QuietStep

\* The domain d ended as result; the rest of the memory is for later steps.
FetchIs(x, y, d, result) ==
    /\ y.pc = x.pc /\ y.ask = x.ask /\ y.time = x.time /\ y.open = x.open /\ y.i = x.i
    /\ y.known = x.known /\ y.moved = x.moved /\ y.universe = x.universe
    /\ y.res[d] = result /\ \A c \in Domains \ {d} : y.res[c] = x.res[c] /\ y.cov[c] = x.cov[c]
    /\ \A c \in Docs \ {d} : y.doc[c] = x.doc[c]

(* The order's answer has a version.                                       *)
LEMMA AnswerFacts ==
    ASSUME SupplyInv, NEW r \in Runs, Running(m[r]), NEW d
    PROVE  /\ Answer(r, d) \in DocType /\ Answer(r, d).time >= 1
           /\ Answer(r, d).content \in Contents
<1>1. /\ site.time \in Times /\ site.content \in Contents /\ site.time >= 1
      /\ m[r].time \in Times /\ m[r].time >= 1
  BY Cells, RunningFacts, MemoryFields DEF TypeInv
<1> QED
  BY <1>1 DEF Answer, DocType, Contents

LEMMA GotFacts ==
    ASSUME SupplyInv, NEW r \in Runs, Running(m[r]), NEW d \in Domains, NEW y \in Got(r, d)
    PROVE  /\ y \in Memory /\ FetchIs(m[r], y, d, "fetched")
           /\ d \in Docs => y.doc[d].time >= 1 /\ y.doc[d].content \in Contents
<1>0. m[r] \in Memory /\ m[r].seen \in SUBSET Skus
  BY RunningFacts, MemoryFields
<1>1. PICK c \in Coverages, s \in SUBSET Skus :
        y = Holding(r, d, c, s)
  <2>1. PICK C : C = (IF d = "details" THEN {"COMPLETE", "PARTIAL"} ELSE {"COMPLETE"})
    OBVIOUS
  <2>2. PICK S : S = (IF d = "advice" THEN Advised ELSE {m[r].seen})
    OBVIOUS
  <2>3. PICK c \in C, s \in S :
          y = Holding(r, d, c, s)
    BY <2>1, <2>2 DEF Got
  <2>4. c \in Coverages /\ s \in SUBSET Skus
    BY <1>0, <2>1, <2>2, <2>3 DEF Coverages, Advised
  <2> QED
    BY <2>3, <2>4
<1>2. PICK f : f = [m[r].res EXCEPT ![d] = "fetched"]
  OBVIOUS
<1>3. PICK v : v = [m[r].cov EXCEPT ![d] = c]
  OBVIOUS
<1>4. PICK a : a = Answer(r, d)
  OBVIOUS
<1>5. PICK o : o = (IF d \in Docs THEN [m[r].doc EXCEPT ![d] = a] ELSE m[r].doc)
  OBVIOUS
<1>6. y = [m[r] EXCEPT !.res = f, !.cov = v, !.doc = o, !.seen = s]
  BY <1>1, <1>2, <1>3, <1>4, <1>5 DEF Holding
<1>7. a \in DocType /\ a.time >= 1 /\ a.content \in Contents
  BY <1>4, AnswerFacts
<1>8. /\ f \in [Domains -> Results] /\ v \in [Domains -> Coverages] /\ o \in [Docs -> DocType]
      /\ f[d] = "fetched" /\ \A e \in Domains \ {d} : f[e] = m[r].res[e] /\ v[e] = m[r].cov[e]
      /\ \A e \in Docs \ {d} : o[e] = m[r].doc[e]
      /\ d \in Docs => o[d] = a
  BY <1>2, <1>3, <1>5, <1>7, RunningFacts, MemoryFields DEF Results
<1>9. /\ y \in Memory /\ y.res = f /\ y.cov = v /\ y.doc = o
      /\ y.pc = m[r].pc /\ y.ask = m[r].ask /\ y.time = m[r].time /\ y.open = m[r].open
      /\ y.i = m[r].i /\ y.known = m[r].known /\ y.moved = m[r].moved
      /\ y.universe = m[r].universe
  BY <1>0, <1>6, <1>8 DEF Memory
<1> QED
  BY <1>7, <1>8, <1>9 DEF FetchIs

LEMMA EndsFacts ==
    ASSUME NEW r \in Runs, m[r] \in Memory, NEW d \in Domains, NEW result \in Results
    PROVE  Ends(r, d, result) \in Memory /\ FetchIs(m[r], Ends(r, d, result), d, result)
<1>1. PICK f : f = [m[r].res EXCEPT ![d] = result]
  OBVIOUS
<1>2. /\ f \in [Domains -> Results] /\ f[d] = result
      /\ \A e \in Domains \ {d} : f[e] = m[r].res[e]
  BY <1>1, MemoryFields
<1>3. PICK y : y = Ends(r, d, result)
  OBVIOUS
<1>4. y = [m[r] EXCEPT !.res = f]
  BY <1>1, <1>3 DEF Ends
<1>5. /\ y \in Memory /\ y.res = f /\ y.cov = m[r].cov /\ y.doc = m[r].doc
      /\ y.pc = m[r].pc /\ y.ask = m[r].ask /\ y.time = m[r].time /\ y.open = m[r].open
      /\ y.i = m[r].i /\ y.known = m[r].known /\ y.moved = m[r].moved
      /\ y.universe = m[r].universe
  BY <1>2, <1>4 DEF Memory
<1> QED
  BY <1>2, <1>3, <1>5 DEF FetchIs

LEMMA FetchStep ==
    ASSUME SupplyInv, NEW r \in Runs, Fetch(r)
    PROVE  SupplyInv'
<1>1. m[r].pc = "fetch" /\ Running(m[r])
  BY DEF Fetch, Running
<1>2. /\ m[r] \in Memory /\ m[r].ask \in Requests /\ m[r].time >= 1 /\ TracesInv(r, m[r])
      /\ FetchingInv(m[r])
  BY <1>1, RunningFacts DEF PhaseInv
<1>3. PICK k \in Todo(r) : FetchDomain(r, Primary[k])
  BY DEF Fetch
<1>4. PICK d : d = Primary[k]
  OBVIOUS
<1>5. d \in Domains \ {"inventory"} /\ Needed(r, d)
  BY <1>3, <1>4, DomainFacts DEF Todo
<1>6. PICK y \in Memory, result \in {"fetched", "fetch_error", "blocked_by_dependency"} :
        /\ m' = [m EXCEPT ![r] = y] /\ FetchIs(m[r], y, d, result)
        /\ d \in Docs /\ result = "fetched" => y.doc[d].time >= 1 /\ y.doc[d].content \in Contents
        /\ faults' \in {faults, faults + 1}
        /\ UNCHANGED <<now, site, sales, warehouse, ledger, overlapped>>
  <2>1. /\ \/ m' = [m EXCEPT ![r] = Ends(r, d, "blocked_by_dependency")]
           \/ \E g \in Got(r, d) : m' = [m EXCEPT ![r] = g]
           \/ m' = [m EXCEPT ![r] = Ends(r, d, "fetch_error")]
        /\ faults' \in {faults, faults + 1}
        /\ UNCHANGED <<now, site, sales, warehouse, ledger, overlapped>>
    BY <1>3, <1>4 DEF FetchDomain, world
  <2>2. CASE \E g \in Got(r, d) : m' = [m EXCEPT ![r] = g]
    BY <1>1, <1>5, <2>1, <2>2, GotFacts
  <2>3. CASE m' = [m EXCEPT ![r] = Ends(r, d, "blocked_by_dependency")]
    BY <1>2, <1>5, <2>1, <2>3, EndsFacts DEF Results
  <2>4. CASE m' = [m EXCEPT ![r] = Ends(r, d, "fetch_error")]
    BY <1>2, <1>5, <2>1, <2>4, EndsFacts DEF Results
  <2> QED
    BY <2>1, <2>2, <2>3, <2>4
<1>7. /\ y.pc = "fetch" /\ y.ask = m[r].ask /\ y.time = m[r].time /\ y.open = m[r].open
      /\ y.known = m[r].known /\ y.moved = m[r].moved /\ y.universe = m[r].universe
      /\ Asked(y) = Asked(m[r])
  BY <1>1, <1>6 DEF FetchIs, Asked
<1>8. d \in Asked(y) \/ (d = "catalog" /\ "details" \in Asked(y))
  BY <1>1, <1>5, <1>7, RunningFacts DEF Needed
<1>9. \A c \in Domains : y.res[c] \notin {"loaded", "load_error"}
  BY <1>1, <1>2, <1>6 DEF FetchIs, FetchingInv
<1>10. FetchingInv(y)
  BY <1>1, <1>2, <1>5, <1>6, <1>7, <1>8, <1>9, DomainFacts DEF FetchIs, FetchingInv, Opened
<1>11. PhaseInv(y)
  BY <1>2, <1>7, <1>10 DEF PhaseInv, Running, OpeningInv, UniverseInv, InventoryInv,
     ClosingInv, OverInv
<1>12. AuthorityInv(y)
  BY <1>2, <1>7 DEF TracesInv, AuthorityInv
<1>13. TracesInv(r, y)
  BY <1>1, <1>2, <1>6, <1>7, <1>9, <1>12, GoesOnQuietly DEF GoesOn, Running
<1> QED
  BY <1>1, <1>6, <1>7, <1>11, <1>13, QuietStep

-----------------------------------------------------------------------------
(* Steps that write an event.                                              *)

(* What is recorded of a run whose own step adds rows.                     *)
LEMMA EventsGrown ==
    ASSUME SupplyInv, NEW r \in Runs, Grows(r), TypeInv', Running(m[r]),
           NEW y, Running(y), y.ask = m[r].ask, y.time = m[r].time,
           \A j \in 1..Len(y.open) : Has(r, y.open[j], "STARTED")',
           y.pc = "finish" /\ y.status = "loaded" =>
               \A j \in 1..(y.i - 1) : Has(r, y.open[j], "SUCCEEDED")'
    PROVE  EventsInv(r, y)'
<1>1. EventsInv(r, m[r])
  BY RunningFacts DEF TracesInv
<1>2. \A e \in ledger' : \/ e \in ledger
                         \/ e.run = r /\ e.at = m[r].time /\ e.scope = m[r].ask.scope
  BY DEF Grows
<1>3. /\ y.time <= now'
      /\ \A e \in ledger' : (e.run = r <=> e.at = y.time)
      /\ \A e \in ledger' : e.run = r => e.scope = y.ask.scope
  BY <1>1, <1>2 DEF EventsInv, Grows
<1> QED
  BY <1>3 DEF EventsInv, Running

LEMMA EventStep ==
    ASSUME SupplyInv, NEW r \in Runs, Running(m[r]), NEW d \in Asked(m[r]),
           NEW s \in {"STARTED", "SUCCEEDED", "PARTIAL", "FAILED"},
           ledger' \in {ledger, ledger \union {Event(r, d, s)}},
           s = "STARTED" \/ Has(r, d, "STARTED"),
           s = "SUCCEEDED" => Stored(r, d) /\ (d \in Projected => Shown(r, d, m[r].time)),
           NEW y \in Memory, m' = [m EXCEPT ![r] = y], PhaseInv(y),
           Running(y) => y.time = m[r].time,
           UNCHANGED <<now, site, sales, warehouse, overlapped>>,
           faults' \in {faults, faults + 1},
           Grows(r) /\ TypeInv' => TracesInv(r, y)'
    PROVE  SupplyInv'
<1>1. /\ now' = now /\ site' = site /\ sales' = sales /\ row' = row /\ lines' = lines
      /\ jit' = jit /\ sku' = sku /\ projection' = projection /\ recon' = recon
      /\ batches' = batches /\ overlapped' = overlapped
  BY DEF warehouse
<1>2. PICK v : v = Event(r, d, s)
  OBVIOUS
<1>3. /\ v.run = r /\ v.scope = m[r].ask.scope /\ v.domain = d /\ v.status = s
      /\ v.at = m[r].time /\ v \in Events
  BY <1>2, RunningFacts, RequestFacts, MemoryFields DEF Event, Events
<1>4. ledger' \in {ledger, ledger \union {v}}
  BY <1>2
<1>5. TypeInv'
  <2>1. faults' \in Nat /\ m' \in [Runs -> Memory] /\ ledger' \in SUBSET Events
    BY <1>3, <1>4, Cells DEF TypeInv
  <2> QED
    BY <1>1, <2>1, Cells DEF TypeInv
<1>6. Grows(r)
  BY <1>1, <1>3, <1>4, Cells DEF Grows
<1>7. RunsInv' /\ PlansInv'
  BY <1>5, <1>6, RunsKept
<1>8. LedgerInv'
  <2>1. EventsInv(r, m[r]) /\ LedgerInv
    BY RunningFacts, Cells DEF TracesInv
  <2>2. \A e \in ledger : (e.run = r <=> e.at = v.at) /\ (e.run = r => e.scope = v.scope)
    BY <1>3, <2>1 DEF EventsInv
  <2>3. \A e, f \in ledger' : (e.run = f.run <=> e.at = f.at) /\ (e.run = f.run => e.scope = f.scope)
    BY <1>3, <1>4, <2>1, <2>2 DEF LedgerInv
  <2>4. \A e \in ledger' : e.at <= now' /\ Has(e.run, e.domain, "STARTED")'
    <3>1. \A q, c, t : Has(q, c, t) => Has(q, c, t)'
      BY <1>5, <1>6, RowsStay
    <3>2. v \in ledger' => v.at <= now' /\ Has(v.run, v.domain, "STARTED")'
      BY <1>1, <1>3, <3>1, RunningFacts DEF Has
    <3> QED
      BY <1>1, <1>4, <2>1, <3>1, <3>2 DEF LedgerInv
  <2>5. \A e \in ledger' : \E q \in Requests : /\ e.scope = q.scope
                                               /\ \E j \in DOMAIN q.domains : e.domain = q.domains[j]
    <3>1. m[r].ask \in Requests /\ \E j \in DOMAIN m[r].ask.domains : v.domain = m[r].ask.domains[j]
      BY <1>3, RunningFacts DEF Asked
    <3> QED
      BY <1>3, <1>4, <2>1, <3>1 DEF LedgerInv
  <2>6. \A e \in ledger' : e.status = "SUCCEEDED" =>
          /\ Stored(e.run, e.domain)'
          /\ e.domain \in Projected => Shown(e.run, e.domain, e.at)'
    <3>1. /\ \A q, c : Stored(q, c) => Stored(q, c)'
          /\ \A q, c, t : Shown(q, c, t) => Shown(q, c, t)'
      BY <1>5, <1>6, RowsStay
    <3>2. \A e \in ledger' : e.status = "SUCCEEDED" =>
            /\ Stored(e.run, e.domain)
            /\ e.domain \in Projected => Shown(e.run, e.domain, e.at)
      BY <1>3, <1>4, <2>1 DEF LedgerInv
    <3> QED
      BY <3>1, <3>2
  <2> QED
    BY <2>3, <2>4, <2>5, <2>6 DEF LedgerInv
<1>9. DocumentsInv'
  BY <1>1, Cells DEF DocumentsInv, OneVersionIsCurrent, LineTotals
<1>10. ProjectionsInv'
  BY <1>1, <1>4, Cells DEF ProjectionsInv
<1>11. RelationsInv'
  BY <1>1, RelationsKept
<1> QED
  BY <1>5, <1>7, <1>8, <1>9, <1>10, <1>11 DEF SupplyInv

LEMMA StartAttemptStep ==
    ASSUME SupplyInv, NEW r \in Runs, StartAttempt(r)
    PROVE  SupplyInv'
<1> DEFINE x == m[r]
           d == Selected(r)[x.i]
           last == x.i = Len(Selected(r))
<1>1. x.pc = "starting" /\ Running(x)
  BY DEF StartAttempt, Running
<1>2. /\ x \in Memory /\ x.ask \in Requests /\ x.time >= 1 /\ TracesInv(r, x)
      /\ Selected(r) = x.ask.domains /\ Chosen(r) = Asked(x)
      /\ x.i \in 1..Len(x.ask.domains) /\ Len(x.open) = x.i - 1
      /\ \A j \in 1..Len(x.open) : x.open[j] = x.ask.domains[j]
      /\ Nothing(x) /\ ~x.known
      /\ x.ask.domains \in Seq(Domains) /\ Len(x.ask.domains) \in Nat
      /\ DOMAIN x.ask.domains = 1..Len(x.ask.domains)
  BY <1>1, RunningFacts DEF PhaseInv, OpeningInv
<1>3. d \in Asked(x) /\ d \in Domains
  BY <1>2 DEF Asked
<1>4. PICK o : o = Append(x.open, d)
  OBVIOUS
<1>5. /\ o \in Seq(Domains) /\ Len(o) = x.i /\ o[x.i] = d
      /\ \A j \in 1..(x.i - 1) : o[j] = x.open[j]
  <2>1. \A s \in Seq(Domains), c \in Domains :
          /\ Append(s, c) \in Seq(Domains) /\ Len(Append(s, c)) = Len(s) + 1
          /\ Append(s, c)[Len(s) + 1] = c
          /\ \A j \in 1..Len(s) : Append(s, c)[j] = s[j]
    OBVIOUS
  <2>2. x.open \in Seq(Domains) /\ x.i \in Nat /\ Len(x.open) = x.i - 1
    BY <1>2, MemoryFields
  <2>3. /\ o \in Seq(Domains) /\ Len(o) = Len(x.open) + 1 /\ o[Len(x.open) + 1] = d
        /\ \A j \in 1..Len(x.open) : o[j] = x.open[j]
    BY ONLY <1>3, <1>4, <2>1, <2>2
  <2>4. Len(x.open) + 1 = x.i
    BY <2>2
  <2> QED
    BY <2>2, <2>3, <2>4
<1>6. \A j \in 1..Len(o) : o[j] = x.ask.domains[j]
  BY <1>2, <1>5
<1>7. PICK ok : ok = [x EXCEPT !.open = o, !.i = IF last THEN 1 ELSE x.i + 1,
                        !.pc = IF ~last THEN "starting"
                               ELSE IF WithInventory(r) THEN "universe" ELSE "fetch"]
  OBVIOUS
<1>8. /\ ok \in Memory /\ ok.ask = x.ask /\ ok.time = x.time /\ ok.open = o
      /\ ok.i = (IF last THEN 1 ELSE x.i + 1) /\ ok.res = x.res /\ ok.cov = x.cov
      /\ ok.known = x.known
      /\ ok.pc = (IF ~last THEN "starting" ELSE IF WithInventory(r) THEN "universe" ELSE "fetch")
  <2>1. (IF last THEN 1 ELSE x.i + 1) \in Nat
    BY <1>2, MemoryFields
  <2>2. (IF ~last THEN "starting" ELSE IF WithInventory(r) THEN "universe" ELSE "fetch") \in Places
    BY DEF Places
  <2> QED
    BY <1>2, <1>5, <1>7, <2>1, <2>2 DEF Memory
<1>9. PhaseInv(ok)
  <2>1. OpeningInv(ok)
    BY <1>2, <1>5, <1>6, <1>8, SMTT(30) DEF OpeningInv, Nothing
  <2>2. last => o = x.ask.domains
    <3>1. Len(o) = x.i /\ DOMAIN o = 1..Len(o)
      BY <1>5
    <3> QED
      BY <1>2, <1>5, <1>6, <3>1, SMTT(30)
  <2>3. Nothing(ok) /\ ~ok.known
    BY <1>2, <1>8 DEF Nothing
  <2>4. UniverseInv(ok)
    BY <1>8, <2>2, <2>3 DEF UniverseInv, Opened
  <2>5. FetchingInv(ok)
    BY <1>8, <2>2, <2>3, DomainFacts DEF FetchingInv, Opened, Nothing
  <2> QED
    BY <1>2, <1>8, <2>1, <2>4, <2>5 DEF PhaseInv, Running, InventoryInv, ClosingInv, OverInv
<1>10. PICK bad \in Memory :
         /\ bad = (IF x.open = <<>> THEN Gone("done", "error")
                   ELSE [x EXCEPT !.pc = "finish", !.i = 1, !.status = "error"])
         /\ PhaseInv(bad)
         /\ \/ bad.pc = "done" /\ bad.status # "loaded" /\ Nothing(bad) /\ ~bad.known
            \/ /\ bad.pc = "finish" /\ bad.status = "error" /\ bad.ask = x.ask
               /\ bad.time = x.time /\ bad.open = x.open /\ Nothing(bad) /\ ~bad.known
  <2>1. CASE x.open = <<>>
    BY <2>1, GoneMemory DEF Statuses
  <2>2. CASE x.open # <<>>
    <3>1. PICK b : b = [x EXCEPT !.pc = "finish", !.i = 1, !.status = "error"]
      OBVIOUS
    <3>2. /\ b \in Memory /\ b.pc = "finish" /\ b.i = 1 /\ b.status = "error" /\ b.ask = x.ask
          /\ b.time = x.time /\ b.open = x.open /\ Nothing(b) /\ ~b.known
      BY <1>2, <3>1 DEF Memory, Places, Statuses, Nothing
    <3>3. Len(x.open) >= 1
      BY <1>2, <2>2, MemoryFields
    <3>4. ClosingInv(b)
      BY <1>2, <3>2, <3>3 DEF ClosingInv
    <3>5. PhaseInv(b)
      BY <1>2, <3>2, <3>4 DEF PhaseInv, Running, OpeningInv, UniverseInv, FetchingInv,
         InventoryInv, OverInv
    <3> QED
      BY <2>2, <3>1, <3>2, <3>5
  <2> QED
    BY <2>1, <2>2
<1>11. PICK v : v = Event(r, d, "STARTED")
  OBVIOUS
<1>12. /\ \/ ledger' = ledger \union {v} /\ m' = [m EXCEPT ![r] = ok] /\ faults' = faults
          \/ /\ ledger' \in {ledger, ledger \union {v}} /\ m' = [m EXCEPT ![r] = bad]
             /\ faults' = faults + 1
       /\ UNCHANGED <<now, site, sales, warehouse, overlapped>>
  <2>1. /\ [x EXCEPT !.open = Append(@, d), !.i = IF last THEN 1 ELSE @ + 1,
                     !.pc = IF ~last THEN @ ELSE IF WithInventory(r) THEN "universe" ELSE "fetch"]
             = ok
    BY <1>1, <1>4, <1>7
  <2>2. Record(r, v, ok, bad)
    BY <1>10, <1>11, <2>1 DEF StartAttempt
  <2> QED
    BY <2>2 DEF Record, StartAttempt, world
<1>13. v.run = r /\ v.domain = d /\ v.status = "STARTED"
  BY <1>11 DEF Event
<1>14. EventsInv(r, x) /\ \A j \in 1..Len(x.open) : Has(r, x.open[j], "STARTED")
  BY <1>1, <1>2 DEF TracesInv, EventsInv
<1>15. BatchesInv(r, x) /\ \A p \in projection : p.run # r
  BY <1>1, <1>2 DEF TracesInv, BatchesInv
<1> HIDE DEF x, d, last
<1>16. ASSUME NEW y \in Memory, Running(y), y.ask = x.ask, y.time = x.time, Nothing(y), ~y.known,
              y.pc = "finish" => y.status # "loaded",
              Grows(r), TypeInv', \A j \in 1..Len(y.open) : Has(r, y.open[j], "STARTED")'
       PROVE  TracesInv(r, y)'
  <2>1. EventsInv(r, y)'
    BY <1>1, <1>16, EventsGrown DEF x
  <2>2. \A p \in projection' : p.run # r
    BY <1>12, <1>15 DEF warehouse
  <2>3. \A p \in projection' : p.time # y.time
    BY <1>1, <1>12, <1>15, <1>16 DEF warehouse, BatchesInv
  <2>4. BatchesInv(r, y)'
    BY <2>2, <2>3 DEF BatchesInv
  <2>5. ResultsInv(r, y)' /\ AuthorityInv(y)'
    BY <1>16 DEF ResultsInv, AuthorityInv, Nothing
  <2> QED
    BY <2>1, <2>4, <2>5 DEF TracesInv
<1>17. CASE ledger' = ledger \union {v} /\ m' = [m EXCEPT ![r] = ok] /\ faults' = faults
  <2>1. ASSUME Grows(r), TypeInv' PROVE TracesInv(r, ok)'
    <3>1. ASSUME NEW j \in 1..Len(ok.open) PROVE Has(r, ok.open[j], "STARTED")'
      <4>1. CASE j = x.i
        BY <1>5, <1>8, <1>13, <1>17, <4>1 DEF Has
      <4>2. CASE j # x.i
        <5>1. j \in 1..Len(x.open) /\ ok.open[j] = x.open[j]
          BY <1>2, <1>5, <1>8, <4>2, MemoryFields
        <5> QED
          BY <1>14, <2>1, <5>1, RowsStay
      <4> QED
        BY <4>1, <4>2
    <3>2. Running(ok) /\ ok.pc # "finish" /\ Nothing(ok) /\ ~ok.known
      BY <1>2, <1>8 DEF Running, Nothing
    <3> QED
      BY <1>8, <1>16, <2>1, <3>1, <3>2
  <2> QED
    BY <1>1, <1>3, <1>8, <1>9, <1>11, <1>12, <1>17, <2>1, EventStep DEF x
<1>18. CASE /\ ledger' \in {ledger, ledger \union {v}} /\ m' = [m EXCEPT ![r] = bad]
            /\ faults' = faults + 1
  <2>1. ASSUME Grows(r), TypeInv' PROVE TracesInv(r, bad)'
    <3>1. CASE bad.pc = "done"
      BY <1>10, <3>1, EndsQuietly
    <3>2. CASE bad.pc = "finish"
      <4>1. \A j \in 1..Len(bad.open) : Has(r, bad.open[j], "STARTED")'
        BY <1>10, <1>14, <2>1, <3>2, RowsStay
      <4> QED
        BY <1>10, <1>16, <2>1, <3>2, <4>1 DEF Running
    <3> QED
      BY <1>10, <3>1, <3>2
  <2>2. Running(bad) => bad.time = x.time
    BY <1>10 DEF Running
  <2> QED
    BY <1>1, <1>3, <1>10, <1>11, <1>12, <1>18, <2>1, <2>2, EventStep DEF x
<1> QED
  BY <1>12, <1>17, <1>18

(* A domain is closed as succeeded only when its rows are there.           *)
LEMMA TerminalFacts ==
    ASSUME SupplyInv, NEW r \in Runs, Running(m[r]), NEW d \in Domains,
           NEW s, s = TerminalStatus(r, d)
    PROVE  /\ s \in {"SUCCEEDED", "PARTIAL", "FAILED"}
           /\ s = "SUCCEEDED" => Stored(r, d) /\ (d \in Projected => Shown(r, d, m[r].time))
           /\ m[r].res[d] = "loaded" /\ m[r].cov[d] # "PARTIAL" => s = "SUCCEEDED"
<1>1. PICK l \in BOOLEAN : l <=> m[r].res[d] = "loaded" /\ m[r].cov[d] # "PARTIAL"
  OBVIOUS
<1>2. PICK b \in BOOLEAN : b <=> m[r].cov[d] = "PARTIAL" \/ m[r].res[d] = "blocked_by_dependency"
  OBVIOUS
<1>3. ~(l /\ b)
  BY <1>1, <1>2
<1>4. s = CASE l -> "SUCCEEDED" [] b -> "PARTIAL" [] OTHER -> "FAILED"
  BY <1>1, <1>2 DEF TerminalStatus
<1>5. s \in {"SUCCEEDED", "PARTIAL", "FAILED"} /\ (s = "SUCCEEDED" <=> l)
  BY ONLY <1>3, <1>4
<1>6. ResultsInv(r, m[r])
  BY RunningFacts DEF TracesInv
<1> QED
  BY <1>1, <1>5, <1>6 DEF ResultsInv

LEMMA FinishAttemptStep ==
    ASSUME SupplyInv, NEW r \in Runs, FinishAttempt(r)
    PROVE  SupplyInv'
<1>0. PICK x, d : x = m[r] /\ d = x.open[x.i]
  OBVIOUS
<1> USE <1>0
<1>1. x.pc = "finish" /\ Running(x)
  BY DEF FinishAttempt, Running
<1>2. /\ x \in Memory /\ x.ask \in Requests /\ x.time >= 1 /\ TracesInv(r, x)
      /\ x.i \in 1..Len(x.open) /\ Len(x.open) <= Len(x.ask.domains)
      /\ \A j \in 1..Len(x.open) : x.open[j] = x.ask.domains[j]
      /\ x.status # "error" => Opened(x)
      /\ x.status = "loaded" => \A c \in Asked(x) : x.res[c] = "loaded" /\ x.cov[c] # "PARTIAL"
      /\ DOMAIN x.ask.domains = 1..Len(x.ask.domains) /\ Len(x.ask.domains) \in Nat
      /\ x.i \in Nat /\ Len(x.open) \in Nat /\ x.status \in Statuses
  BY <1>1, RunningFacts, MemoryFields DEF PhaseInv, ClosingInv
<1>3. d \in Asked(x) /\ d \in Domains
  <2>1. x.i \in DOMAIN x.ask.domains /\ d = x.ask.domains[x.i]
    BY <1>2
  <2> QED
    BY <1>2, <2>1, MemoryFields DEF Asked
<1>4. PICK s : s = TerminalStatus(r, d)
  OBVIOUS
<1>5. /\ s \in {"SUCCEEDED", "PARTIAL", "FAILED"}
      /\ s = "SUCCEEDED" => Stored(r, d) /\ (d \in Projected => Shown(r, d, x.time))
      /\ x.status = "loaded" => s = "SUCCEEDED"
  BY <1>1, <1>2, <1>3, <1>4, TerminalFacts
<1>6. PICK ok : ok = (IF x.i < Len(x.open) THEN [x EXCEPT !.i = x.i + 1]
                      ELSE [Gone("done", x.status) EXCEPT !.ask = x.ask])
  OBVIOUS
<1>7. PICK v : v = Event(r, d, s)
  OBVIOUS
<1>8. /\ \/ ledger' = ledger \union {v} /\ m' = [m EXCEPT ![r] = ok] /\ faults' = faults
         \/ /\ ledger' \in {ledger, ledger \union {v}} /\ m' = [m EXCEPT ![r] = Gone("done", "error")]
            /\ faults' = faults + 1
      /\ UNCHANGED <<now, site, sales, warehouse, overlapped>>
  <2>1. (IF x.i < Len(x.open) THEN [x EXCEPT !.i = @ + 1]
         ELSE [Gone("done", x.status) EXCEPT !.ask = x.ask]) = ok
    BY <1>6
  <2>2. Record(r, v, ok, Unclosed(r))
    BY <1>4, <1>7, <2>1 DEF FinishAttempt
  <2> QED
    BY <2>2 DEF Record, FinishAttempt, world, Unclosed
<1>9. v.run = r /\ v.domain = d /\ v.status = s
  BY <1>7 DEF Event
<1>10. /\ EventsInv(r, x) /\ ResultsInv(r, x) /\ BatchesInv(r, x) /\ AuthorityInv(x)
       /\ \A j \in 1..Len(x.open) : Has(r, x.open[j], "STARTED")
       /\ x.status = "loaded" => \A j \in 1..(x.i - 1) : Has(r, x.open[j], "SUCCEEDED")
  BY <1>1, <1>2 DEF TracesInv, EventsInv
<1>11. Has(r, d, "STARTED")
  BY <1>2, <1>10
<1>12. CASE /\ ledger' \in {ledger, ledger \union {v}} /\ m' = [m EXCEPT ![r] = Gone("done", "error")]
            /\ faults' = faults + 1
  <2>1. PICK y \in Memory : /\ y = Gone("done", "error") /\ PhaseInv(y) /\ y.pc = "done"
                            /\ y.status # "loaded" /\ Nothing(y) /\ ~y.known
    BY GoneMemory DEF Statuses
  <2>2. TracesInv(r, y)'
    BY <2>1, EndsQuietly
  <2>3. ~Running(y)
    BY <2>1 DEF Running
  <2> QED
    BY <1>1, <1>3, <1>5, <1>7, <1>8, <1>11, <1>12, <2>1, <2>2, <2>3, EventStep
<1>13. CASE ledger' = ledger \union {v} /\ m' = [m EXCEPT ![r] = ok] /\ faults' = faults
  <2>1. ASSUME x.status = "loaded", Grows(r), TypeInv', NEW j \in 1..x.i
        PROVE  Has(r, x.open[j], "SUCCEEDED")'
    <3>1. CASE j = x.i
      BY <1>5, <1>9, <1>13, <2>1, <3>1 DEF Has
    <3>2. CASE j # x.i
      <4>1. j \in 1..(x.i - 1)
        BY <1>2, <2>1, <3>2
      <4> QED
        BY <1>10, <2>1, <4>1, RowsStay
    <3> QED
      BY <3>1, <3>2
  <2>2. CASE x.i < Len(x.open)
    <3>1. /\ ok \in Memory /\ ok.pc = "finish" /\ ok.i = x.i + 1 /\ ok.open = x.open
          /\ ok.ask = x.ask /\ ok.time = x.time /\ ok.res = x.res /\ ok.cov = x.cov
          /\ ok.known = x.known /\ ok.moved = x.moved /\ ok.universe = x.universe
          /\ ok.status = x.status
      <4>1. x \in Memory /\ x.pc = "finish" /\ x.i + 1 \in Nat
        BY <1>1, <1>2
      <4>2. ok = [x EXCEPT !.i = x.i + 1]
        BY <1>6, <2>2
      <4> QED
        BY ONLY <4>1, <4>2 DEF Memory
    <3>2. x.i + 1 \in 1..Len(x.open) /\ Asked(ok) = Asked(x)
      <4>1. x.i \in 1..Len(x.open) /\ Len(x.open) \in Nat
        BY <1>2
      <4>2. x.i + 1 \in 1..Len(x.open)
        BY ONLY <2>2, <4>1
      <4> QED
        BY <3>1, <4>2 DEF Asked
    <3>3. ClosingInv(ok)
      BY <1>2, <3>1, <3>2 DEF ClosingInv, Opened
    <3>4. PhaseInv(ok)
      BY <1>2, <3>1, <3>3 DEF PhaseInv, Running, OpeningInv, UniverseInv, FetchingInv,
         InventoryInv, OverInv
    <3>5. Running(ok)
      BY <3>1 DEF Running
    <3>6. ASSUME Grows(r), TypeInv' PROVE TracesInv(r, ok)'
      <4>1. \A j \in 1..Len(ok.open) : Has(r, ok.open[j], "STARTED")'
        BY <1>10, <3>1, <3>6, RowsStay
      <4>2. ok.status = "loaded" => \A j \in 1..(ok.i - 1) : Has(r, ok.open[j], "SUCCEEDED")'
        <5>1. ok.i - 1 = x.i
          BY <1>2, <3>1
        <5> QED
          BY <2>1, <3>1, <3>6, <5>1
      <4>3. EventsInv(r, ok)'
        BY <1>1, <3>1, <3>5, <3>6, <4>1, <4>2, EventsGrown
      <4>4. ResultsInv(r, ok)'
        BY <1>10, <3>1, <3>6, RowsStay DEF ResultsInv
      <4>5. BatchesInv(r, ok)' /\ AuthorityInv(ok)'
        BY <1>1, <1>8, <1>10, <3>1, <3>5 DEF BatchesInv, AuthorityInv, warehouse, Running
      <4> QED
        BY <4>3, <4>4, <4>5 DEF TracesInv
    <3> QED
      BY <1>1, <1>3, <1>5, <1>7, <1>8, <1>11, <1>13, <3>1, <3>4, <3>6, EventStep
  <2>3. CASE ~(x.i < Len(x.open))
    <3>1. PICK g : g = Gone("done", x.status)
      OBVIOUS
    <3>2. g \in Memory /\ g.pc = "done" /\ g.status = x.status /\ Nothing(g) /\ ~g.known
      BY <1>2, <3>1, GoneMemory
    <3>3. ok = [g EXCEPT !.ask = x.ask]
      BY <1>6, <2>3, <3>1
    <3>4. /\ ok \in Memory /\ ok.pc = "done" /\ ok.status = x.status /\ Nothing(ok) /\ ~ok.known
          /\ ok.ask = x.ask
      BY <1>2, <3>2, <3>3 DEF Memory, Nothing
    <3>5. PhaseInv(ok) /\ ~Running(ok)
      BY <3>4 DEF PhaseInv, Running, OpeningInv, UniverseInv, FetchingInv, InventoryInv,
         ClosingInv, OverInv
    <3>6. ASSUME Grows(r), TypeInv' PROVE TracesInv(r, ok)'
      <4>1. ASSUME ok.status = "loaded", NEW c \in Asked(ok) PROVE Has(r, c, "SUCCEEDED")'
        <5>1. PICK j \in 1..Len(x.ask.domains) : c = x.ask.domains[j]
          BY <1>2, <3>4, <4>1 DEF Asked
        <5>2. x.open = x.ask.domains /\ x.i = Len(x.ask.domains)
          BY <1>2, <2>3, <3>4, <4>1 DEF Opened
        <5> QED
          BY <2>1, <3>4, <3>6, <4>1, <5>1, <5>2
      <4>2. EventsInv(r, ok)'
        BY <3>4, <3>5, <4>1 DEF EventsInv
      <4>3. ResultsInv(r, ok)' /\ BatchesInv(r, ok)' /\ AuthorityInv(ok)'
        BY <3>4, <3>5 DEF ResultsInv, BatchesInv, AuthorityInv, Nothing
      <4> QED
        BY <4>2, <4>3 DEF TracesInv
    <3> QED
      BY <1>1, <1>3, <1>5, <1>7, <1>8, <1>11, <1>13, <3>4, <3>5, <3>6, EventStep
  <2> QED
    BY <2>2, <2>3
<1> QED
  BY <1>8, <1>12, <1>13

-----------------------------------------------------------------------------
(* A run begins; the world moves on.                                       *)

(* Time goes by, nothing else.                                             *)
LEMMA TracesLater ==
    ASSUME SupplyInv, NEW q \in Runs, NEW x, x = m[q], now' >= now, now' \in Nat,
           UNCHANGED <<sales, warehouse, ledger>>
    PROVE  TracesInv(q, x)'
<1>1. /\ row' = row /\ projection' = projection /\ batches' = batches /\ ledger' = ledger
      /\ sales' = sales
  BY DEF warehouse
<1>2. TracesInv(q, x) /\ x.time \in Nat /\ now \in Nat
  BY Cells, MemoryFields
<1>3. Running(x) => x.time <= now'
  BY <1>2 DEF TracesInv, EventsInv
<1>4. EventsInv(q, x)'
  BY <1>1, <1>2, <1>3 DEF TracesInv, EventsInv, Has
<1> QED
  BY <1>1, <1>2, <1>4 DEF TracesInv, ResultsInv, BatchesInv, AuthorityInv, Stored, Shown

(* What the tables say stays true when time goes by.                       *)
LEMMA TablesLater ==
    ASSUME SupplyInv, now' >= now, now' \in Nat, UNCHANGED <<warehouse, ledger>>
    PROVE  LedgerInv' /\ DocumentsInv' /\ ProjectionsInv'
<1>1. /\ row' = row /\ lines' = lines /\ projection' = projection /\ batches' = batches
      /\ ledger' = ledger
  BY DEF warehouse
<1>2. /\ \A e \in ledger : e.at \in Nat /\ e.at <= now
      /\ \A p \in projection : p.time \in Nat /\ p.time <= now
      /\ now \in Nat
  BY Cells DEF LedgerInv, ProjectionsInv
<1>3. (\A e \in ledger : e.at <= now') /\ \A p \in projection : p.time <= now'
  BY <1>2
<1>4. LedgerInv'
  BY <1>1, <1>3, Cells DEF LedgerInv, Has, Stored, Shown
<1>5. DocumentsInv'
  BY <1>1, Cells DEF DocumentsInv, OneVersionIsCurrent, LineTotals
<1>6. ProjectionsInv'
  BY <1>1, <1>3, Cells DEF ProjectionsInv
<1> QED
  BY <1>4, <1>5, <1>6

LEMMA SameTraces ==
    ASSUME NEW q, NEW x, x = m'[q], TracesInv(q, x)'
    PROVE  TracesInv(q, m[q])'
BY DEF TracesInv, EventsInv, ResultsInv, BatchesInv, AuthorityInv

LEMMA BeginStep ==
    ASSUME SupplyInv, NEW r \in Runs, Begin(r)
    PROVE  SupplyInv'
<1>1. /\ m[r].pc = "idle" /\ now < MaxTime /\ now' = now + 1
      /\ overlapped' = (overlapped \/ \E q \in Runs : Running(m[q]))
      /\ site' = site /\ sales' = sales /\ row' = row /\ lines' = lines
      /\ jit' = jit /\ sku' = sku /\ projection' = projection /\ recon' = recon
      /\ batches' = batches /\ ledger' = ledger /\ faults' = faults
      /\ UNCHANGED <<sales, warehouse, ledger>>
  BY DEF Begin, warehouse, Active, Running
<1>2. /\ now \in Nat /\ now' \in Nat /\ now' \in Times /\ now' >= now /\ now' >= 1 /\ now' > now
      /\ MaxTime \in Nat
  BY <1>1, Cells, ConstantFacts DEF Times
<1>3. m[r] \in Memory /\ m[r] = Fresh /\ TracesInv(r, m[r])
  BY <1>1, Cells DEF PhaseInv
<1>4. PICK y \in Memory :
        /\ m' = [m EXCEPT ![r] = y] /\ PhaseInv(y) /\ Nothing(y) /\ ~y.known
        /\ \/ y.pc = "starting" /\ y.time = now' /\ y.open = <<>>
           \/ y.pc = "done" /\ y.status = "skipped"
  <2>1. CASE \E q \in Requests :
               m' = [m EXCEPT ![r].pc = "starting", ![r].ask = q, ![r].time = now + 1]
    <3>1. PICK q \in Requests :
            m' = [m EXCEPT ![r].pc = "starting", ![r].ask = q, ![r].time = now + 1]
      BY <2>1
    <3>2. PICK f : f = Fresh
      OBVIOUS
    <3>3. PICK y : y = [f EXCEPT !.pc = "starting", !.ask = q, !.time = now']
      OBVIOUS
    <3>4. m' = [m EXCEPT ![r] = y]
      BY <1>1, <1>3, <3>1, <3>2, <3>3, Cells
    <3>5. f \in Memory /\ Nothing(f) /\ ~f.known /\ f.i = 1 /\ f.open = <<>>
      BY <3>2, FreshMemory
    <3>6. /\ y \in Memory /\ y.pc = "starting" /\ y.ask = q /\ y.time = now' /\ y.i = 1
          /\ y.open = <<>> /\ Nothing(y) /\ ~y.known
      BY <1>2, <3>3, <3>5 DEF Memory, Places, Nothing
    <3>7. OpeningInv(y)
      BY <3>6, RequestFacts DEF OpeningInv
    <3>8. PhaseInv(y)
      BY <1>2, <3>6, <3>7 DEF PhaseInv, Running, UniverseInv, FetchingInv, InventoryInv,
         ClosingInv, OverInv
    <3> QED
      BY <3>4, <3>6, <3>8
  <2>2. CASE m' = [m EXCEPT ![r] = Gone("done", "skipped")]
    BY <2>2, GoneMemory DEF Statuses
  <2> QED
    BY <2>1, <2>2 DEF Begin
<1>5. m' \in [Runs -> Memory] /\ m'[r] = y /\ \A q \in Runs : q # r => m'[q] = m[q]
  BY <1>4, Cells
<1>6. TypeInv'
  BY <1>1, <1>2, <1>5, Cells DEF TypeInv
<1>7. LedgerInv' /\ DocumentsInv' /\ ProjectionsInv'
  BY <1>1, <1>2, TablesLater
<1>8. /\ \A e \in ledger : e.at \in Nat /\ e.at < now'
      /\ \A p \in projection : p.time \in Nat /\ p.time < now'
      /\ \A j \in jit : j.time \in Nat /\ j.time <= now'
      /\ \A q \in Runs : Running(m[q]) => m[q].time < now'
  <2>1. \A a \in Nat : a <= now => a < now'
    BY <1>1, <1>2
  <2>2. \A j \in jit : j.time \in Nat /\ j.time <= now
    BY Cells, ConstantFacts DEF TypeInv, RelationsInv
  <2>3. /\ \A e \in ledger : e.at \in Nat /\ e.at <= now
        /\ \A p \in projection : p.time \in Nat /\ p.time <= now
    BY Cells DEF LedgerInv, ProjectionsInv
  <2>4. \A q \in Runs : Running(m[q]) => m[q].time \in Nat /\ m[q].time <= now
    BY RunningFacts
  <2> QED
    BY <1>2, <2>1, <2>2, <2>3, <2>4
<1>9. TracesInv(r, y)'
  <2>1. (\A e \in ledger : e.run # r) /\ \A p \in projection : p.run # r
    BY <1>1, <1>3 DEF TracesInv, EventsInv, BatchesInv
  <2>2. EventsInv(r, y)'
    BY <1>1, <1>2, <1>4, <1>8, <2>1 DEF EventsInv, Running
  <2>3. BatchesInv(r, y)'
    BY <1>1, <1>4, <1>8, <2>1 DEF BatchesInv, Running
  <2>4. ResultsInv(r, y)' /\ AuthorityInv(y)'
    BY <1>4 DEF ResultsInv, AuthorityInv, Nothing
  <2> QED
    BY <2>2, <2>3, <2>4 DEF TracesInv
<1>10. RunsInv'
  <2>1. ASSUME NEW q \in Runs PROVE PhaseInv(m'[q]) /\ TracesInv(q, m[q])'
    <3>1. CASE q = r
      BY <1>4, <1>5, <1>9, <3>1, SameTraces
    <3>2. CASE q # r
      <4>1. PICK x : x = m[q]
        OBVIOUS
      <4>2. TracesInv(q, x)'
        BY <1>1, <1>2, <4>1, TracesLater
      <4> QED
        BY <1>5, <3>2, <4>1, <4>2, Cells, SameTraces
    <3> QED
      BY <3>1, <3>2
  <2> QED
    BY <2>1 DEF RunsInv
<1>11. PlansInv'
  <2>1. \A q \in Runs : q # r /\ Running(m[q]) => m[q].time # now'
    BY <1>2, <1>8, Cells, MemoryFields
  <2> QED
    BY <1>4, <1>5, <2>1, Cells DEF PlansInv, Running
<1>12. RelationsInv'
  <2>1. RelationsInv /\ (~overlapped' => ~overlapped /\ \A q \in Runs : ~Running(m[q]))
    BY <1>1, Cells
  <2>2. Running(y) => y.time = now'
    BY <1>4 DEF Running
  <2>3. JitFollowsTheOrder'
    BY <1>1, <2>1 DEF RelationsInv, JitFollowsTheOrder
  <2> QED
    BY <1>1, <1>5, <1>8, <2>1, <2>2, <2>3 DEF RelationsInv
<1> QED
  BY <1>6, <1>7, <1>10, <1>11, <1>12 DEF SupplyInv

(* The clock and the platform.                                             *)
LEMMA SiteStep ==
    ASSUME SupplyInv, SiteUpdate \/ SilentUpdate
    PROVE  SupplyInv'
<1>1. /\ sales' = sales /\ row' = row /\ lines' = lines
      /\ jit' = jit /\ sku' = sku /\ projection' = projection /\ recon' = recon
      /\ batches' = batches /\ ledger' = ledger /\ faults' = faults /\ m' = m
      /\ overlapped' = overlapped
      /\ UNCHANGED <<sales, warehouse, ledger>>
  BY DEF SiteUpdate, SilentUpdate, warehouse
<1>2. /\ now' \in Nat /\ now' >= now /\ now' \in Times /\ now' >= 1
      /\ site' \in [time : Times, content : Contents, silent : 0..MaxUpsets]
      /\ site'.time >= 1
  <2>1. /\ now \in Nat /\ now >= 1 /\ now \in Times /\ MaxTime \in Nat /\ MaxUpsets \in Nat
        /\ site \in [time : Times, content : Contents, silent : 0..MaxUpsets]
        /\ site.time >= 1 /\ sales.loads \in Nat
    BY Cells, ConstantFacts DEF TypeInv
  <2> DEFINE Sites == [time : Times, content : Contents, silent : 0..MaxUpsets]
  <2>4. \A a \in Sites, t \in Times, c \in Contents :
          LET b == [a EXCEPT !.time = t, !.content = c] IN b \in Sites /\ b.time = t
    OBVIOUS
  <2>5. \A a \in Sites, i \in 0..MaxUpsets, c \in Contents :
          LET b == [a EXCEPT !.content = c, !.silent = i] IN b \in Sites /\ b.time = a.time
    OBVIOUS
  <2>2. CASE SiteUpdate
    <3>1. /\ now < MaxTime /\ now' = now + 1
          /\ \E c \in Contents : site' = [site EXCEPT !.time = now + 1, !.content = c]
      BY <2>2 DEF SiteUpdate
    <3>2. PICK c \in Contents : site' = [site EXCEPT !.time = now + 1, !.content = c]
      BY <3>1
    <3>3. now + 1 \in Times /\ now + 1 >= 1
      BY ONLY <2>1, <3>1 DEF Times
    <3>4. site' \in Sites /\ site'.time = now + 1
      BY ONLY <2>1, <2>4, <3>2, <3>3
    <3> QED
      BY ONLY <2>1, <3>1, <3>3, <3>4
  <2>3. CASE SilentUpdate
    <3>1. /\ site.silent + sales.loads < MaxUpsets /\ now' = now
          /\ \E c \in Contents : site' = [site EXCEPT !.content = c, !.silent = site.silent + 1]
      BY <2>3 DEF SilentUpdate
    <3>2. PICK c \in Contents : site' = [site EXCEPT !.content = c, !.silent = site.silent + 1]
      BY <3>1
    <3>3. site.silent + 1 \in 0..MaxUpsets
      BY ONLY <2>1, <3>1
    <3>4. site' \in Sites /\ site'.time = site.time
      BY ONLY <2>1, <2>5, <3>2, <3>3
    <3> QED
      BY ONLY <2>1, <3>1, <3>4
  <2> QED
    BY <2>2, <2>3
<1>3. TypeInv'
  BY <1>1, <1>2, Cells DEF TypeInv
<1>4. LedgerInv' /\ DocumentsInv' /\ ProjectionsInv'
  BY <1>1, <1>2, TablesLater
<1>5. RunsInv'
  <2>1. ASSUME NEW q \in Runs PROVE PhaseInv(m'[q]) /\ TracesInv(q, m[q])'
    <3>1. PICK x : x = m[q]
      OBVIOUS
    <3>2. TracesInv(q, x)'
      BY <1>1, <1>2, <3>1, TracesLater
    <3> QED
      BY <1>1, <3>1, <3>2, Cells, SameTraces
  <2> QED
    BY <2>1 DEF RunsInv
<1>6. PlansInv'
  BY <1>1, Cells DEF PlansInv
<1>7. RelationsInv'
  <2>1. \A j \in jit : j.time \in Nat /\ j.time <= now
    BY Cells, ConstantFacts DEF TypeInv, RelationsInv
  <2>2. \A j \in jit : j.time <= now'
    BY <1>2, <2>1, Cells
  <2> QED
    BY <1>1, <2>2, Cells DEF RelationsInv, JitFollowsTheOrder
<1> QED
  BY <1>3, <1>4, <1>5, <1>6, <1>7 DEF SupplyInv

(* A sales load is remembered by the runs that have read the active SKUs.  *)
LEMMA SalesLoadStep ==
    ASSUME SupplyInv, SalesLoad
    PROVE  SupplyInv'
<1>1. /\ now' = now /\ site' = site /\ row' = row /\ lines' = lines
      /\ jit' = jit /\ sku' = sku /\ projection' = projection /\ recon' = recon
      /\ batches' = batches /\ ledger' = ledger /\ faults' = faults
      /\ overlapped' = overlapped /\ UNCHANGED <<warehouse, ledger>>
  BY DEF SalesLoad, warehouse
<1>2. now \in Nat /\ now' \in Nat /\ now' >= now
  BY <1>1, Cells
<1>3. sales' \in [usable : BOOLEAN, active : SUBSET Skus, loads : Nat]
  <2>1. sales.loads + 1 \in Nat
    BY Cells DEF TypeInv
  <2> QED
    BY <2>1 DEF SalesLoad
<1>4. ASSUME NEW r \in Runs
      PROVE  \E b \in BOOLEAN : /\ m'[r] = [m[r] EXCEPT !.moved = b]
                                /\ b = (m[r].moved \/ (m[r].known /\ sales'.active # sales.active))
  <2>1. PICK b \in BOOLEAN : b = (m[r].moved \/ (m[r].known /\ sales'.active # sales.active))
    BY Cells, MemoryFields
  <2> QED
    BY <1>4, <2>1 DEF SalesLoad
<1>5. ASSUME NEW r \in Runs
      PROVE  /\ m'[r] \in Memory /\ PhaseInv(m'[r])
             /\ Running(m'[r]) = Running(m[r]) /\ m'[r].time = m[r].time
             /\ TracesInv(r, m[r])'
  <2>1. PICK b, y : /\ b \in BOOLEAN /\ y = m'[r] /\ y = [m[r] EXCEPT !.moved = b]
                    /\ b = (m[r].moved \/ (m[r].known /\ sales'.active # sales.active))
    BY <1>4
  <2>2. PICK x : x = m[r]
    OBVIOUS
  <2>3. x \in Memory /\ PhaseInv(x) /\ TracesInv(r, x)
    BY <2>2, Cells
  <2>4. /\ y \in Memory /\ y.pc = x.pc /\ y.ask = x.ask /\ y.time = x.time /\ y.i = x.i
        /\ y.open = x.open /\ y.known = x.known /\ y.universe = x.universe /\ y.doc = x.doc
        /\ y.seen = x.seen /\ y.res = x.res /\ y.cov = x.cov /\ y.status = x.status
        /\ y.moved = b
    BY <2>1, <2>2, <2>3 DEF Memory
  <2>5. Asked(y) = Asked(x) /\ Opened(y) = Opened(x) /\ Nothing(y) = Nothing(x)
        /\ Running(y) = Running(x)
    BY <2>4 DEF Asked, Opened, Nothing, Running
  <2>6. y.pc = "idle" => y = Fresh
    <3>1. x.pc = "idle" => x = Fresh /\ ~x.known /\ ~x.moved
      BY <2>3, FreshMemory DEF PhaseInv
    <3>2. x.pc = "idle" => b = FALSE /\ x.moved = FALSE
      BY <2>1, <2>2, <2>3, <3>1, MemoryFields
    <3>3. b = x.moved => y = x
      BY <2>1, <2>2, <2>3 DEF Memory
    <3> QED
      BY <2>4, <3>1, <3>2, <3>3
  <2>7. PhaseInv(y)
    BY <2>3, <2>4, <2>5, <2>6 DEF PhaseInv, OpeningInv, UniverseInv, FetchingInv, InventoryInv,
       ClosingInv, OverInv
  <2>8. EventsInv(r, y)' /\ ResultsInv(r, y)' /\ BatchesInv(r, y)'
    BY <1>1, <2>3, <2>4, <2>5 DEF TracesInv, EventsInv, ResultsInv, BatchesInv, Has, Stored, Shown
  <2>9. AuthorityInv(y)'
    BY <2>1, <2>2, <2>3, <2>4 DEF TracesInv, AuthorityInv
  <2> QED
    BY <2>1, <2>2, <2>4, <2>5, <2>7, <2>8, <2>9, SameTraces DEF TracesInv
<1>6. m' \in [Runs -> Memory]
  <2>1. m' = [r \in Runs |-> m'[r]]
    BY DEF SalesLoad
  <2> QED
    BY <1>5, <2>1
<1>7. TypeInv'
  BY <1>1, <1>3, <1>6, Cells DEF TypeInv
<1>8. RunsInv'
  BY <1>5 DEF RunsInv
<1>9. PlansInv'
  BY <1>5, Cells DEF PlansInv
<1>10. LedgerInv' /\ DocumentsInv' /\ ProjectionsInv'
  BY <1>1, <1>2, TablesLater
<1>11. RelationsInv'
  BY <1>1, <1>5, Cells DEF RelationsInv, JitFollowsTheOrder
<1> QED
  BY <1>7, <1>8, <1>9, <1>10, <1>11 DEF SupplyInv

-----------------------------------------------------------------------------
(* Loads.                                                                  *)

(* The batch of a projected domain that the run has not loaded before.     *)
LEMMA ProjectionAdded ==
    ASSUME SupplyInv, NEW r \in Runs, Running(m[r]), Opened(m[r]),
           NEW d \in Projected \cap Asked(m[r]), NEW c \in Coverages,
           d = "inventory" /\ c = "COMPLETE" => sales.active \subseteq m[r].seen,
           \A p \in projection : p.run = r => p.domain # d,
           NEW b, b = ProjectionBatch(r, d, c), projection' = projection \union {b},
           UNCHANGED <<now, ledger>>
    PROVE  /\ b \in Projections /\ projection' \in SUBSET Projections /\ ProjectionsInv'
           /\ b.run = r /\ b.domain = d /\ b.time = m[r].time /\ b.coverage = c
           /\ b.moved = m[r].moved
<1>1. m[r] \in Memory /\ m[r].time <= now /\ m[r].time \in Times /\ m[r].seen \in SUBSET Skus
      /\ m[r].moved \in BOOLEAN /\ EventsInv(r, m[r]) /\ BatchesInv(r, m[r])
  BY RunningFacts, MemoryFields DEF TracesInv
<1>2. sales.active \in SUBSET Skus
  BY Cells DEF TypeInv
<1>3. /\ b.run = r /\ b.domain = d /\ b.time = m[r].time /\ b.coverage = c
      /\ b.moved = m[r].moved /\ b.members = sales.active \cap m[r].seen
      /\ b.listed = m[r].seen /\ b.authority = sales.active /\ b \in Projections
  BY <1>1, <1>2 DEF ProjectionBatch, Projections
<1>4. projection' \in SUBSET Projections
  BY <1>3, Cells DEF TypeInv
<1>5. \E e \in ledger : e.run = r /\ e.domain = d /\ e.at = b.time /\ e.status = "STARTED"
  <2>1. PICK j \in DOMAIN m[r].ask.domains : m[r].ask.domains[j] = d
    BY DEF Asked
  <2>2. j \in 1..Len(m[r].open) /\ m[r].open[j] = d
    BY <2>1, RunningFacts DEF Opened
  <2>3. Has(r, d, "STARTED")
    BY <1>1, <2>2 DEF EventsInv
  <2> QED
    BY <1>1, <1>3, <2>3 DEF EventsInv, Has
<1>6. \A p \in projection : ~(p.domain = d /\ p.time = b.time)
  BY <1>1, <1>3 DEF BatchesInv
<1>7. /\ b.members = b.authority \cap b.listed /\ b.time <= now
      /\ b.domain = "inventory" /\ b.coverage = "COMPLETE" => b.authority \subseteq b.listed
  BY <1>1, <1>3
<1>8. ProjectionsInv'
  <2>1. ProjectionsInv
    BY Cells
  <2>2. \A p \in projection' :
          /\ p.members = p.authority \intersect p.listed
          /\ p.domain = "inventory" /\ p.coverage = "COMPLETE" => p.authority \subseteq p.listed
          /\ p.time <= now'
          /\ \E e \in ledger' : /\ e.run = p.run /\ e.domain = p.domain
                                /\ e.at = p.time /\ e.status = "STARTED"
    BY <1>3, <1>5, <1>7, <2>1 DEF ProjectionsInv
  <2>3. \A p, q \in projection' : p.domain = q.domain /\ p.time = q.time => p = q
    BY <1>3, <1>6, <2>1 DEF ProjectionsInv
  <2> QED
    BY <2>2, <2>3 DEF ProjectionsInv
<1> QED
  BY <1>3, <1>4, <1>8

LEMMA LoadStep ==
    ASSUME SupplyInv, NEW r \in Runs, Running(m[r]), NEW y \in Memory, m' = [m EXCEPT ![r] = y],
           PhaseInv(y), Running(y) => y.time = m[r].time, UNCHANGED ledger, TypeInv', Grows(r),
           TracesInv(r, y)', DocumentsInv', RelationsInv', ProjectionsInv'
    PROVE  SupplyInv'
<1>1. RunsInv' /\ PlansInv'
  BY RunsKept
<1>2. LedgerInv'
  <2>1. LedgerInv /\ now' = now
    BY Cells DEF Grows
  <2>2. /\ \A q, d, s : Has(q, d, s) => Has(q, d, s)'
        /\ \A q, d : Stored(q, d) => Stored(q, d)'
        /\ \A q, d, t : Shown(q, d, t) => Shown(q, d, t)'
    BY RowsStay
  <2> QED
    BY <2>1, <2>2 DEF LedgerInv
<1> QED
  BY <1>1, <1>2 DEF SupplyInv

(* What a run claims after a load that adds rows of its own.               *)
LEMMA TracesGrown ==
    ASSUME SupplyInv, NEW r \in Runs, Grows(r), TypeInv', NEW y \in Memory, GoesOn(m[r], y),
           \A d \in Domains : y.res[d] = "loaded" =>
               \/ m[r].res[d] = "loaded" /\ y.cov[d] = m[r].cov[d]
               \/ /\ Stored(r, d)'
                  /\ d \in Projected /\ y.cov[d] # "PARTIAL" => Shown(r, d, y.time)',
           y.pc \in {"finish", "inventory"},
           y.pc = "inventory" => \A p \in projection' : p.run = r => p.domain # "inventory",
           AuthorityInv(y)'
    PROVE  TracesInv(r, y)'
<1>1. /\ TracesInv(r, m[r]) /\ y.ask = m[r].ask /\ y.time = m[r].time /\ y.open = m[r].open
      /\ Running(m[r]) /\ Running(y) /\ y.i \in Nat /\ (y.pc = "finish" => y.i = 1)
  BY Cells, MemoryFields DEF GoesOn
<1>2. \A j \in 1..Len(y.open) : Has(r, y.open[j], "STARTED")'
  BY <1>1, RowsStay DEF TracesInv, EventsInv
<1>3. y.pc = "finish" => 1..(y.i - 1) = {}
  BY <1>1
<1>4. EventsInv(r, y)'
  BY <1>1, <1>2, <1>3, EventsGrown
<1>5. ResultsInv(r, y)'
  <2>1. ASSUME NEW d \in Domains, y.res[d] = "loaded"
        PROVE  /\ Stored(r, d)'
               /\ d \in Projected /\ y.cov[d] # "PARTIAL" => Shown(r, d, y.time)'
    BY <1>1, <2>1, RowsStay DEF TracesInv, ResultsInv
  <2> QED
    BY <2>1 DEF ResultsInv
<1>6. BatchesInv(r, y)'
  <2>1. \A p \in projection' : (p.run = r <=> p.time = y.time)
    BY <1>1 DEF TracesInv, BatchesInv, Grows
  <2> QED
    BY <1>1, <2>1 DEF BatchesInv, Running
<1> QED
  BY <1>4, <1>5, <1>6 DEF TracesInv

(* The inventory has its result: the attempts are closed next.             *)
LEMMA InventoryEnds ==
    ASSUME SupplyInv, NEW r \in Runs, m[r].pc \in {"inventory", "load"},
           NEW v \in {"loaded", "load_error", "fetch_error", "blocked_by_dependency"},
           NEW y, y = InventoryIs(r, v)
    PROVE  /\ y \in Memory /\ PhaseInv(y) /\ GoesOn(m[r], y) /\ y.pc = "finish"
           /\ y.res["inventory"] = v /\ y.cov = m[r].cov /\ ~y.known
           /\ \A d \in Domains \ {"inventory"} : y.res[d] = m[r].res[d]
<1>1. Running(m[r])
  BY DEF Running
<1>2. /\ m[r] \in Memory /\ m[r].ask \in Requests /\ m[r].time >= 1 /\ Opened(m[r])
      /\ \A d \in Asked(m[r]) \ {"inventory"} : m[r].res[d] \notin {"none", "fetched"}
      /\ m[r].res \in [Domains -> Results]
  BY <1>1, RunningFacts, MemoryFields DEF PhaseInv, InventoryInv
<1>3. PICK f : f = [m[r].res EXCEPT !["inventory"] = v]
  OBVIOUS
<1>4. /\ f \in [Domains -> Results] /\ f["inventory"] = v
      /\ \A d \in Domains \ {"inventory"} : f[d] = m[r].res[d]
  BY <1>2, <1>3, DomainFacts DEF Results
<1>5. PICK z : z = [m[r] EXCEPT !.res = f]
  OBVIOUS
<1>6. y = Closing(z)
  <2>1. [m[r] EXCEPT !.res["inventory"] = v] = z
    BY <1>2, <1>3, <1>5
  <2> QED
    BY <2>1 DEF InventoryIs
<1>7. /\ z \in Memory /\ z.ask = m[r].ask /\ z.time = m[r].time /\ z.open = m[r].open
      /\ z.res = f /\ z.cov = m[r].cov
  BY <1>2, <1>4, <1>5 DEF Memory
<1>8. Opened(z) /\ Asked(z) = Asked(m[r]) /\ Asked(z) \subseteq Domains
  BY <1>1, <1>2, <1>7, RunningFacts DEF Opened, Asked
<1>9. \A d \in Asked(z) : z.res[d] \notin {"none", "fetched"}
  BY <1>2, <1>4, <1>7, <1>8
<1>10. /\ y \in Memory /\ PhaseInv(y) /\ y.pc = "finish" /\ y.i = 1 /\ y.time = z.time
       /\ y.ask = z.ask /\ y.open = z.open /\ y.res = z.res /\ y.cov = z.cov /\ ~y.known
  BY <1>2, <1>6, <1>7, <1>8, <1>9, ClosingMemory
<1> QED
  BY <1>1, <1>4, <1>7, <1>10 DEF GoesOn, Running

LEMMA FetchInventoryStep ==
    ASSUME SupplyInv, NEW r \in Runs, FetchInventory(r)
    PROVE  SupplyInv'
<1>1. m[r].pc = "inventory" /\ Running(m[r])
  BY DEF FetchInventory, Running
<1>2. /\ m[r] \in Memory /\ m[r].ask \in Requests /\ m[r].time >= 1 /\ TracesInv(r, m[r])
      /\ InventoryInv(m[r]) /\ m[r].universe \in SUBSET Skus
  BY <1>1, RunningFacts, MemoryFields DEF PhaseInv
<1>3. UNCHANGED <<now, site, sales, warehouse, ledger, overlapped>>
  BY DEF FetchInventory, world
<1>4. CASE \E v \in {"fetch_error", "blocked_by_dependency"} :
             /\ m' = [m EXCEPT ![r] = InventoryIs(r, v)]
             /\ faults' \in {faults, faults + 1}
  <2>1. PICK v \in {"fetch_error", "blocked_by_dependency"} :
          /\ m' = [m EXCEPT ![r] = InventoryIs(r, v)]
          /\ faults' \in {faults, faults + 1}
    BY <1>4
  <2>2. PICK y : y = InventoryIs(r, v)
    OBVIOUS
  <2>3. /\ y \in Memory /\ PhaseInv(y) /\ GoesOn(m[r], y) /\ y.pc = "finish"
        /\ y.res["inventory"] = v /\ y.cov = m[r].cov /\ ~y.known
        /\ \A d \in Domains \ {"inventory"} : y.res[d] = m[r].res[d]
    BY <1>1, <2>2, InventoryEnds
  <2>4. TracesInv(r, y)
    BY <1>2, <2>3, GoesOnQuietly DEF AuthorityInv
  <2> QED
    BY <1>1, <1>3, <2>1, <2>2, <2>3, <2>4, QuietStep DEF GoesOn
<1>5. CASE /\ m[r].known /\ faults' = faults
           /\ \E seen \in Observable(r) :
                m' = [m EXCEPT ![r].pc = "load", ![r].seen = seen,
                               ![r].res["inventory"] = "fetched",
                               ![r].cov["inventory"] =
                                   IF seen = m[r].universe THEN "COMPLETE" ELSE "PARTIAL"]
  <2>1. PICK seen \in SUBSET m[r].universe :
          m' = [m EXCEPT ![r].pc = "load", ![r].seen = seen,
                         ![r].res["inventory"] = "fetched",
                         ![r].cov["inventory"] =
                             IF seen = m[r].universe THEN "COMPLETE" ELSE "PARTIAL"]
    BY <1>5 DEF Observable
  <2>2. PICK c : c = (IF seen = m[r].universe THEN "COMPLETE" ELSE "PARTIAL")
    OBVIOUS
  <2>3. PICK f : f = [m[r].res EXCEPT !["inventory"] = "fetched"]
    OBVIOUS
  <2>4. PICK v : v = [m[r].cov EXCEPT !["inventory"] = c]
    OBVIOUS
  <2>5. PICK y : y = [m[r] EXCEPT !.pc = "load", !.seen = seen, !.res = f, !.cov = v]
    OBVIOUS
  <2>6. m' = [m EXCEPT ![r] = y]
    BY <1>2, <2>1, <2>2, <2>3, <2>4, <2>5, Cells DEF Memory
  <2>7. /\ f \in [Domains -> Results] /\ f["inventory"] = "fetched"
        /\ \A d \in Domains \ {"inventory"} : f[d] = m[r].res[d]
        /\ v \in [Domains -> Coverages] /\ v["inventory"] = c
        /\ \A d \in Domains \ {"inventory"} : v[d] = m[r].cov[d]
    BY <1>2, <2>2, <2>3, <2>4, MemoryFields, DomainFacts DEF Results, Coverages
  <2>8. /\ y \in Memory /\ y.pc = "load" /\ y.seen = seen /\ y.res = f /\ y.cov = v
        /\ y.ask = m[r].ask /\ y.time = m[r].time /\ y.open = m[r].open /\ y.known = m[r].known
        /\ y.universe = m[r].universe /\ y.moved = m[r].moved /\ y.i = m[r].i
    BY <1>2, <2>5, <2>7 DEF Memory, Places
  <2>9. Opened(y) /\ Asked(y) = Asked(m[r]) /\ Asked(y) \subseteq Domains
    BY <1>1, <1>2, <2>8, RunningFacts DEF Opened, Asked, InventoryInv
  <2>10. InventoryInv(y)
    BY <1>1, <1>2, <1>5, <2>2, <2>7, <2>8, <2>9 DEF InventoryInv
  <2>11. PhaseInv(y)
    BY <1>2, <2>8, <2>10 DEF PhaseInv, Running, OpeningInv, UniverseInv, FetchingInv,
       ClosingInv, OverInv
  <2>12. AuthorityInv(y) /\ GoesOn(m[r], y)
    BY <1>1, <1>2, <2>8 DEF TracesInv, AuthorityInv, GoesOn, Running
  <2>13. TracesInv(r, y)
    BY <1>2, <2>7, <2>8, <2>12, GoesOnQuietly
  <2> QED
    BY <1>1, <1>3, <1>5, <2>6, <2>8, <2>11, <2>13, QuietStep
<1> QED
  BY <1>4, <1>5 DEF FetchInventory

LEMMA LoadInventoryStep ==
    ASSUME SupplyInv, NEW r \in Runs, LoadInventory(r)
    PROVE  SupplyInv'
<1>1. m[r].pc = "load" /\ Running(m[r])
  BY DEF LoadInventory, Running
<1>2. /\ m[r] \in Memory /\ m[r].ask \in Requests /\ m[r].time >= 1 /\ TracesInv(r, m[r])
      /\ InventoryInv(m[r]) /\ m[r].time \in Times /\ m[r].seen \in SUBSET Skus
      /\ m[r].known /\ (m[r].cov["inventory"] = "COMPLETE" => m[r].seen = m[r].universe)
      /\ m[r].cov["inventory"] \in Coverages
  BY <1>1, RunningFacts, MemoryFields, DomainFacts DEF PhaseInv, InventoryInv
<1>3. PICK v, y :
        /\ v \in {"loaded", "load_error"}
        /\ y = InventoryIs(r, v)
        /\ m' = [m EXCEPT ![r] = y]
        /\ InventoryLoaded(r) \/ (v = "load_error" /\ UNCHANGED warehouse)
        /\ faults' \in {faults, faults + 1}
        /\ UNCHANGED <<now, site, sales, ledger, overlapped>>
  <2>1. /\ \/ /\ InventoryLoaded(r)
              /\ m' = [m EXCEPT ![r] = InventoryIs(r, "loaded")]
           \/ /\ InventoryLoaded(r) \/ UNCHANGED warehouse
              /\ m' = [m EXCEPT ![r] = InventoryIs(r, "load_error")]
        /\ faults' \in {faults, faults + 1}
        /\ UNCHANGED <<now, site, sales, ledger, overlapped>>
    BY DEF LoadInventory, world
  <2>2. PICK a : a = InventoryIs(r, "loaded")
    OBVIOUS
  <2>3. PICK b : b = InventoryIs(r, "load_error")
    OBVIOUS
  <2> QED
    BY <2>1, <2>2, <2>3
<1>4. /\ y \in Memory /\ PhaseInv(y) /\ GoesOn(m[r], y) /\ y.pc = "finish"
      /\ y.res["inventory"] = v /\ y.cov = m[r].cov /\ ~y.known /\ y.time = m[r].time
      /\ \A d \in Domains \ {"inventory"} : y.res[d] = m[r].res[d]
  BY <1>1, <1>3, InventoryEnds DEF GoesOn
<1>5. CASE v = "load_error" /\ UNCHANGED warehouse
  <2>1. TracesInv(r, y)
    BY <1>2, <1>4, <1>5, GoesOnQuietly DEF AuthorityInv
  <2> QED
    BY <1>1, <1>3, <1>4, <1>5, <2>1, QuietStep
<1>6. CASE InventoryLoaded(r)
  <2>1. PICK c \in Coverages : c = InventoryCoverage(r)
    BY DEF InventoryCoverage, Coverages
  <2>2. PICK b : b = ProjectionBatch(r, "inventory", c)
    OBVIOUS
  <2>3. PICK a : a = [run |-> r, domain |-> "inventory", time |-> m[r].time]
    OBVIOUS
  <2>4. /\ projection' = projection \union {b} /\ batches' = batches \union {a}
        /\ recon' = ReconAfter(r) /\ row' = row /\ lines' = lines /\ jit' = jit /\ sku' = sku
    BY <1>6, <2>1, <2>2, <2>3 DEF InventoryLoaded
  <2>5. /\ b \in Projections /\ projection' \in SUBSET Projections /\ ProjectionsInv'
        /\ b.run = r /\ b.domain = "inventory" /\ b.time = m[r].time /\ b.coverage = c
        /\ b.moved = m[r].moved
    <3>1. c = "COMPLETE" => sales.active \subseteq m[r].seen
      BY <2>1 DEF InventoryCoverage
    <3>2. "inventory" \in Projected \cap Asked(m[r]) /\ Opened(m[r])
      BY <1>1, <1>2 DEF InventoryInv, Projected
    <3>3. \A p \in projection : p.run = r => p.domain # "inventory"
      BY <1>1, <1>2 DEF TracesInv, BatchesInv
    <3> QED
      BY <1>1, <1>3, <2>2, <2>4, <3>1, <3>2, <3>3, ProjectionAdded
  <2>6. TypeInv'
    <3>1. ReconAfter(r) \in [Skus -> Times]
      <4>1. \A s \in Skus : recon[s] \in Times
        BY Cells DEF TypeInv
      <4> QED
        BY <1>2, <4>1 DEF ReconAfter, Newer
    <3>2. a \in [run : Runs, domain : Domains, time : Times]
      BY <1>2, <2>3, DomainFacts
    <3>3. m' \in [Runs -> Memory] /\ faults' \in Nat
      BY <1>3, <1>4, Cells
    <3> QED
      BY <1>3, <2>4, <2>5, <3>1, <3>2, <3>3, Cells DEF TypeInv
  <2>7. Grows(r)
    <3>1. \A p \in projection' \ projection : p.run = r /\ p.time = m[r].time
      BY <2>4, <2>5
    <3> QED
      BY <1>1, <1>3, <2>4, <3>1, Cells DEF Grows
  <2>8. TracesInv(r, y)'
    <3>1. Stored(r, "inventory")'
      BY <2>3, <2>4, DomainFacts DEF Stored
    <3>2. y.cov["inventory"] # "PARTIAL" => Shown(r, "inventory", y.time)'
      <4>1. m[r].cov["inventory"] = "COMPLETE" /\ ~m[r].moved => c = "COMPLETE"
        BY <1>2, <2>1 DEF TracesInv, AuthorityInv, InventoryCoverage
      <4>2. y.cov["inventory"] # "PARTIAL" => b.coverage = "COMPLETE" \/ b.moved
        BY <1>2, <1>4, <2>5, <4>1, MemoryFields DEF Coverages
      <4> QED
        BY <1>4, <2>4, <2>5, <4>2 DEF Shown
    <3>3. AuthorityInv(y)'
      BY <1>4 DEF AuthorityInv
    <3> QED
      BY <1>4, <2>6, <2>7, <3>1, <3>2, <3>3, TracesGrown
  <2>9. DocumentsInv'
    BY <2>4, Cells DEF DocumentsInv, OneVersionIsCurrent, LineTotals
  <2>10. RelationsInv'
    BY <1>1, <1>3, <1>4, <2>4, RelationsKept
  <2> QED
    BY <1>1, <1>3, <1>4, <2>5, <2>6, <2>7, <2>8, <2>9, <2>10, LoadStep
<1> QED
  BY <1>3, <1>5, <1>6

(* The primary domains have their results: inventory is next, or the end.  *)
LEMMA MarkedFacts ==
    ASSUME SupplyInv, NEW r \in Runs, m[r].pc = "fetch", Todo(r) = {},
           NEW s \in {"none", "loaded", "load_error"}, s = "none" => Snapshot(r) = {},
           NEW y, y = Marked(r, s)
    PROVE  /\ y \in Memory /\ PhaseInv(y) /\ GoesOn(m[r], y) /\ y.pc \in {"inventory", "finish"}
           /\ \A d \in Domains : y.res[d] = IF Fetched(r, d) THEN s ELSE m[r].res[d]
           /\ y.cov = m[r].cov
           /\ y.known => /\ m[r].known /\ y.moved = m[r].moved /\ y.universe = m[r].universe
<1>1. Running(m[r])
  BY DEF Running
<1>2. /\ m[r] \in Memory /\ m[r].ask \in Requests /\ m[r].time >= 1 /\ FetchingInv(m[r])
      /\ m[r].res \in [Domains -> Results] /\ Chosen(r) = Asked(m[r]) /\ Asked(m[r]) \subseteq Domains
  BY <1>1, RunningFacts, MemoryFields DEF PhaseInv
<1>3. PICK f : f = [d \in Domains |-> IF Fetched(r, d) THEN s ELSE m[r].res[d]]
  OBVIOUS
<1>4. /\ f \in [Domains -> Results]
      /\ \A d \in Domains : f[d] = IF Fetched(r, d) THEN s ELSE m[r].res[d]
  BY <1>2, <1>3 DEF Results
<1>5. PICK a : a = Fresh.doc
  OBVIOUS
<1>6. a \in [Docs -> DocType]
  BY <1>5, FreshMemory, MemoryFields
<1>7. PICK z : z = [m[r] EXCEPT !.pc = "inventory", !.doc = a, !.seen = {}, !.res = f]
  OBVIOUS
<1>8. y = (IF WithInventory(r) THEN z ELSE Closing(z))
  BY <1>3, <1>5, <1>7 DEF Marked
<1>9. /\ z \in Memory /\ z.pc = "inventory" /\ z.res = f /\ z.cov = m[r].cov /\ z.ask = m[r].ask
      /\ z.time = m[r].time /\ z.open = m[r].open /\ z.known = m[r].known
      /\ z.moved = m[r].moved /\ z.universe = m[r].universe
  BY <1>2, <1>4, <1>6, <1>7 DEF Memory, Places
<1>10. \A d \in Domains : f[d] # "fetched"
  BY <1>4 DEF Fetched
<1>11. \A d \in Asked(m[r]) \ {"inventory"} : f[d] \notin {"none", "fetched"}
  <2>1. ASSUME NEW d \in Asked(m[r]) \ {"inventory"} PROVE f[d] # "none"
    <3>1. d \in Domains \ {"inventory"} /\ Needed(r, d)
      BY <1>2 DEF Needed
    <3>2. PICK k \in DOMAIN Primary : Primary[k] = d
      BY <3>1, DomainFacts
    <3>3. m[r].res[d] # "none"
      BY <3>1, <3>2 DEF Todo
    <3>4. Fetched(r, d) => s # "none"
      BY <3>1 DEF Snapshot
    <3> QED
      BY <1>4, <3>1, <3>3, <3>4
  <2> QED
    BY <1>2, <1>10, <2>1
<1>12. Asked(z) = Asked(m[r]) /\ Opened(z)
  BY <1>1, <1>2, <1>9 DEF Asked, Opened, FetchingInv
<1>13. CASE WithInventory(r)
  <2>1. "inventory" \in Asked(z) /\ f["inventory"] = "none"
    BY <1>2, <1>4, <1>12, <1>13, DomainFacts DEF WithInventory, FetchingInv, Fetched
  <2>2. InventoryInv(z)
    BY <1>9, <1>10, <1>11, <1>12, <2>1 DEF InventoryInv
  <2>3. PhaseInv(z)
    BY <1>2, <1>9, <2>2 DEF PhaseInv, Running, OpeningInv, UniverseInv, FetchingInv,
       ClosingInv, OverInv
  <2> QED
    BY <1>1, <1>4, <1>8, <1>9, <1>13, <2>3 DEF GoesOn, Running
<1>14. CASE ~WithInventory(r)
  <2>1. \A d \in Asked(z) : z.res[d] \notin {"none", "fetched"}
    BY <1>2, <1>9, <1>11, <1>12, <1>14 DEF WithInventory
  <2>2. /\ y \in Memory /\ PhaseInv(y) /\ y.pc = "finish" /\ y.i = 1 /\ y.time = z.time
        /\ y.ask = z.ask /\ y.open = z.open /\ y.res = z.res /\ y.cov = z.cov /\ ~y.known
    BY <1>2, <1>8, <1>9, <1>12, <1>14, <2>1, ClosingMemory
  <2> QED
    BY <1>1, <1>4, <1>9, <2>2 DEF GoesOn, Running
<1> QED
  BY <1>13, <1>14

(* The lines of the version that is stored.                                *)
LEMMA LinesFacts ==
    ASSUME NEW r, NEW d, NEW v, v = m[r].doc[d], v.time \in Times, v.content \in Contents,
           lines[d] \in SUBSET LineType, NEW t \in Nat, t <= v.time,
           \A l \in lines[d] : l.time <= t
    PROVE  /\ LinesAfter(r, d) \in SUBSET LineType
           /\ \A l \in LinesAfter(r, d) : l.time <= v.time
           /\ {l \in LinesAfter(r, d) : l.current}
                = {[time |-> v.time, content |-> v.content, current |-> TRUE]}
<1>1. PICK w : w = [time |-> v.time, content |-> v.content, current |-> TRUE]
  OBVIOUS
<1>2. w \in LineType /\ w.time = v.time /\ w.current /\ v.time \in Nat
  BY <1>1, ConstantFacts DEF LineType
<1>3. ASSUME NEW l \in lines[d], l.time # v.time
      PROVE  /\ [l EXCEPT !.current = l.current /\ l.time > v.time] \in LineType
             /\ [l EXCEPT !.current = l.current /\ l.time > v.time].time <= v.time
             /\ ~[l EXCEPT !.current = l.current /\ l.time > v.time].current
  <2>1. l \in LineType /\ l.time \in Times /\ l.time <= t
    BY <1>3 DEF LineType
  <2>2. ~(l.time > v.time) /\ l.time <= v.time
    <3>1. \A a, b, c \in Nat : a <= b /\ b <= c => ~(a > c) /\ a <= c
      OBVIOUS
    <3>2. l.time \in Nat
      BY <2>1, ConstantFacts
    <3> QED
      BY <1>2, <2>1, <3>1, <3>2
  <2>3. [l EXCEPT !.current = l.current /\ l.time > v.time] = [l EXCEPT !.current = FALSE]
    BY <2>2
  <2>4. [l EXCEPT !.current = FALSE] \in LineType /\ [l EXCEPT !.current = FALSE].time = l.time
        /\ ~[l EXCEPT !.current = FALSE].current
    BY <2>1 DEF LineType
  <2> QED
    BY <2>2, <2>3, <2>4
<1>4. PICK F : F = {[l EXCEPT !.current = l.current /\ l.time > v.time] :
                       l \in {k \in lines[d] : k.time # v.time}}
  OBVIOUS
<1>5. \A l \in F : l \in LineType /\ l.time <= v.time /\ ~l.current
  BY <1>3, <1>4
<1>6. LinesAfter(r, d) = F \union {w}
  BY <1>1, <1>4 DEF LinesAfter
<1>7. /\ F \union {w} \in SUBSET LineType
      /\ \A l \in F \union {w} : l.time <= v.time
      /\ {l \in F \union {w} : l.current} = {w}
  <2>1. v.time <= v.time
    BY <1>2
  <2>2. \A l \in F \union {w} :
          /\ l \in LineType /\ l.time <= v.time
          /\ l.current => l = w
    BY ONLY <1>2, <1>5, <2>1
  <2>3. w \in F \union {w}
    OBVIOUS
  <2> QED
    BY ONLY <1>2, <2>2, <2>3
<1> QED
  BY <1>1, <1>6, <1>7

(* What a load leaves of a document.                                       *)
LEMMA DocumentLoaded ==
    ASSUME SupplyInv, NEW r \in Runs, m[r].pc = "fetch", ~Refused(r), Loaded(r), NEW d \in Docs
    PROVE  /\ row'[d] \in DocType /\ row'[d].time >= row[d].time
           /\ Fetched(r, d) => /\ row'[d].time >= m[r].doc[d].time
                               /\ ~Stale(r, d) => row'[d] = m[r].doc[d]
           /\ ~Fetched(r, d) \/ Stale(r, d) => row'[d] = row[d]
           /\ row'[d] = NoDoc \/ (row'[d].time >= 1 /\ row'[d].content \in Contents)
           /\ lines'[d] \in SUBSET LineType /\ \A l \in lines'[d] : l.time <= row'[d].time
           /\ {l \in lines'[d] : l.current} =
                 IF row'[d] = NoDoc THEN {}
                 ELSE {[time |-> row'[d].time, content |-> row'[d].content, current |-> TRUE]}
<1>1. PICK v, o : v = m[r].doc[d] /\ o = row[d]
  OBVIOUS
<1>2. /\ o \in DocType /\ o.time \in Nat /\ lines[d] \in SUBSET LineType
      /\ o = NoDoc \/ (o.time >= 1 /\ o.content \in Contents)
      /\ \A l \in lines[d] : l.time <= o.time
      /\ {l \in lines[d] : l.current} =
            IF o = NoDoc THEN {}
            ELSE {[time |-> o.time, content |-> o.content, current |-> TRUE]}
  <2>1. DocumentsInv /\ lines \in [Docs -> SUBSET LineType]
    BY Cells DEF TypeInv
  <2> QED
    BY <1>1, <2>1, Cells DEF DocumentsInv, OneVersionIsCurrent, LineTotals
<1>3. /\ v \in DocType /\ v.time \in Nat /\ v.time \in Times
      /\ Fetched(r, d) => v.time >= 1 /\ v.content \in Contents
  <2>1. m[r] \in Memory /\ FetchingInv(m[r]) /\ m[r].doc \in [Docs -> DocType]
    BY Cells, MemoryFields DEF PhaseInv
  <2>2. v \in DocType /\ v.time \in Times
    BY <1>1, <2>1 DEF DocType
  <2>3. Fetched(r, d) => v.time >= 1 /\ v.content \in Contents
    BY <1>1, <2>1 DEF FetchingInv, Fetched
  <2> QED
    BY <2>2, <2>3, ConstantFacts
<1>4. /\ row'[d] = (IF Fetched(r, d) THEN IF v.time > o.time THEN v ELSE o ELSE o)
      /\ lines'[d] = (IF Fetched(r, d) /\ ~Stale(r, d) THEN LinesAfter(r, d) ELSE lines[d])
      /\ Stale(r, d) <=> o.time > v.time
      /\ Fetched(r, d) /\ o.time = v.time => o.content = v.content
  <2>1. row'[d] = (IF Fetched(r, d) THEN RowAfter(r, d) ELSE row[d])
    BY DEF Loaded
  <2>2. lines'[d] = (IF Fetched(r, d) /\ ~Stale(r, d) THEN LinesAfter(r, d) ELSE lines[d])
    BY DEF Loaded
  <2>3. Fetched(r, d) /\ o.time = v.time => o.content = v.content
    BY <1>1 DEF Refused
  <2> QED
    BY <1>1, <2>1, <2>2, <2>3 DEF RowAfter, Stale
<1>5. CASE ~Fetched(r, d) \/ Stale(r, d)
  <2>1. row'[d] = o /\ lines'[d] = lines[d] /\ (Fetched(r, d) => o.time >= v.time)
    BY <1>2, <1>3, <1>4, <1>5
  <2> QED
    BY <1>1, <1>2, <1>5, <2>1
<1>6. CASE Fetched(r, d) /\ ~Stale(r, d)
  <2>1. o.time <= v.time
    BY <1>2, <1>3, <1>4, <1>6
  <2>2. row'[d] = v
    <3>1. o.time = v.time => o = v
      BY <1>2, <1>3, <1>4, <1>6 DEF DocType
    <3> QED
      BY <1>2, <1>3, <1>4, <1>6, <2>1, <3>1
  <2>3. /\ lines'[d] \in SUBSET LineType /\ \A l \in lines'[d] : l.time <= v.time
        /\ {l \in lines'[d] : l.current} =
              {[time |-> v.time, content |-> v.content, current |-> TRUE]}
    BY <1>1, <1>2, <1>3, <1>4, <1>6, <2>1, LinesFacts
  <2>4. v # NoDoc
    BY <1>3, <1>6 DEF NoDoc
  <2> QED
    BY <1>1, <1>3, <1>6, <2>1, <2>2, <2>3, <2>4
<1> QED
  BY <1>5, <1>6

(* The relations after a load of the order.                                *)
LEMMA JitFacts ==
    ASSUME NEW r, m[r].time \in Times, jit \in SUBSET [time : Times, current : BOOLEAN]
    PROVE  /\ JitAfter(r) \in SUBSET [time : Times, current : BOOLEAN]
           /\ \A k \in JitAfter(r) : k.time = m[r].time \/ \E j \in jit : k.time = j.time
           /\ (\A j \in jit : j.time <= m[r].time) =>
                 ((\E k \in JitAfter(r) : k.current) <=> m[r].doc["orders"].content = "linked")
<1>1. PICK t : t = m[r].time
  OBVIOUS
<1>2. PICK n : n = [time |-> t, current |-> TRUE]
  OBVIOUS
<1>3. n \in [time : Times, current : BOOLEAN] /\ n.time = t /\ n.current
  BY <1>1, <1>2
<1>4. PICK F : F = {[j EXCEPT !.current = j.current /\ j.time > t] : j \in jit}
  OBVIOUS
<1>5. \A k \in F : /\ k \in [time : Times, current : BOOLEAN]
                   /\ \E j \in jit : k.time = j.time /\ (j.time <= t => ~k.current)
  <2>1. ASSUME NEW j \in jit
        PROVE  LET k == [j EXCEPT !.current = j.current /\ j.time > t]
               IN  /\ k \in [time : Times, current : BOOLEAN] /\ k.time = j.time
                   /\ j.time <= t => ~k.current
    <3>1. j \in [time : Times, current : BOOLEAN] /\ j.time \in Nat /\ t \in Nat
      BY <1>1, ConstantFacts
    <3>2. PICK b \in BOOLEAN : b = (j.current /\ j.time > t)
      BY <3>1
    <3>3. [j EXCEPT !.current = j.current /\ j.time > t] = [j EXCEPT !.current = b]
      BY <3>2
    <3>4. j.time <= t => b = FALSE
      <4>1. j.time <= t => ~(j.time > t)
        BY <3>1
      <4> QED
        BY <3>2, <4>1
    <3>5. /\ [j EXCEPT !.current = b] \in [time : Times, current : BOOLEAN]
          /\ [j EXCEPT !.current = b].time = j.time /\ [j EXCEPT !.current = b].current = b
      BY <3>1
    <3> QED
      BY <3>3, <3>4, <3>5
  <2> QED
    BY <1>4, <2>1
<1>6. JitAfter(r) = F \union (IF m[r].doc["orders"].content = "linked" THEN {n} ELSE {})
  BY <1>1, <1>2, <1>4 DEF JitAfter, JitRetired
<1>7. /\ \A k \in F : k \in [time : Times, current : BOOLEAN] /\ \E j \in jit : k.time = j.time
      /\ (\A j \in jit : j.time <= t) => \A k \in F : ~k.current
  BY <1>5
<1> QED
  BY <1>1, <1>3, <1>6, <1>7

(* The primary load.                                                       *)
LEMMA PrimaryLoaded ==
    ASSUME SupplyInv, NEW r \in Runs, m[r].pc = "fetch", Todo(r) = {}, ~Refused(r), Loaded(r),
           NEW s \in {"loaded", "load_error"}, NEW y, y = Marked(r, s),
           m' = [m EXCEPT ![r] = y], faults' \in {faults, faults + 1},
           UNCHANGED <<now, site, sales, ledger, overlapped>>
    PROVE  SupplyInv'
<1>1. Running(m[r])
  BY DEF Running
<1>2. /\ m[r] \in Memory /\ m[r].time \in Times /\ m[r].time \in Nat /\ m[r].time <= now
      /\ m[r].time >= 1 /\ FetchingInv(m[r]) /\ TracesInv(r, m[r]) /\ Opened(m[r])
  BY <1>1, RunningFacts, MemoryFields DEF PhaseInv, FetchingInv
<1>3. /\ y \in Memory /\ PhaseInv(y) /\ GoesOn(m[r], y) /\ y.pc \in {"inventory", "finish"}
      /\ \A d \in Domains : y.res[d] = IF Fetched(r, d) THEN s ELSE m[r].res[d]
      /\ y.cov = m[r].cov
      /\ y.known => /\ m[r].known /\ y.moved = m[r].moved /\ y.universe = m[r].universe
  BY MarkedFacts
<1>4. \A d \in Docs :
        /\ row'[d] \in DocType /\ row'[d].time >= row[d].time
        /\ Fetched(r, d) => /\ row'[d].time >= m[r].doc[d].time
                            /\ ~Stale(r, d) => row'[d] = m[r].doc[d]
        /\ ~Fetched(r, d) \/ Stale(r, d) => row'[d] = row[d]
        /\ row'[d] = NoDoc \/ (row'[d].time >= 1 /\ row'[d].content \in Contents)
        /\ lines'[d] \in SUBSET LineType /\ \A l \in lines'[d] : l.time <= row'[d].time
        /\ {l \in lines'[d] : l.current} =
              IF row'[d] = NoDoc THEN {}
              ELSE {[time |-> row'[d].time, content |-> row'[d].content, current |-> TRUE]}
  BY DocumentLoaded
<1>5. DocumentsInv'
  BY <1>4 DEF DocumentsInv, OneVersionIsCurrent, LineTotals
<1>6. /\ projection' \in SUBSET Projections /\ ProjectionsInv'
      /\ \A p \in projection' : \/ p \in projection
                                \/ p.run = r /\ p.time = m[r].time /\ p.domain = "advice"
      /\ projection \subseteq projection'
      /\ Fetched(r, "advice") => Shown(r, "advice", y.time)'
  <2>1. CASE ~Fetched(r, "advice")
    <3>1. projection' = projection
      BY <2>1 DEF Loaded
    <3> QED
      BY <2>1, <3>1, Cells DEF TypeInv, ProjectionsInv
  <2>2. CASE Fetched(r, "advice")
    <3>1. PICK b : b = ProjectionBatch(r, "advice", "COMPLETE")
      OBVIOUS
    <3>2. projection' = projection \union {b}
      BY <2>2, <3>1 DEF Loaded, AdviceLoaded
    <3>3. "advice" \in Projected \cap Asked(m[r])
      BY <1>2, <2>2, DomainFacts DEF FetchingInv, Fetched, Projected
    <3>4. \A p \in projection : p.run # r
      BY <1>2 DEF TracesInv, BatchesInv
    <3>5. /\ b \in Projections /\ projection' \in SUBSET Projections /\ ProjectionsInv'
          /\ b.run = r /\ b.domain = "advice" /\ b.time = m[r].time /\ b.coverage = "COMPLETE"
          /\ b.moved = m[r].moved
      BY <1>1, <1>2, <3>1, <3>2, <3>3, <3>4, ProjectionAdded DEF Coverages
    <3> QED
      BY <1>3, <3>2, <3>5 DEF Shown, GoesOn
  <2> QED
    BY <2>1, <2>2
<1>7. /\ jit' \in SUBSET [time : Times, current : BOOLEAN]
      /\ \A k \in jit' : k.time = m[r].time \/ \E j \in jit : k.time = j.time
      /\ Fetched(r, "orders") /\ ~Stale(r, "orders") => jit' = JitAfter(r)
      /\ ~Fetched(r, "orders") \/ Stale(r, "orders") => jit' = jit
  <2>1. jit \in SUBSET [time : Times, current : BOOLEAN]
    BY Cells DEF TypeInv
  <2> QED
    BY <1>2, <2>1, JitFacts DEF Loaded
<1>8. \A d \in Domains : Fetched(r, d) =>
        \E b \in batches' : b.run = r /\ b.domain = d /\ b.time = BatchTime(r, d)
  <2>1. ASSUME NEW d \in Domains, Fetched(r, d)
        PROVE  [run |-> r, domain |-> d, time |-> BatchTime(r, d)] \in batches'
    BY <2>1 DEF Loaded, Snapshot
  <2>2. \A d, t : /\ [run |-> r, domain |-> d, time |-> t].run = r
                  /\ [run |-> r, domain |-> d, time |-> t].domain = d
                  /\ [run |-> r, domain |-> d, time |-> t].time = t
    OBVIOUS
  <2> QED
    BY <2>1, <2>2
<1>9. TypeInv'
  <2>1. row' \in [Docs -> DocType] /\ lines' \in [Docs -> SUBSET LineType]
    BY <1>4 DEF Loaded
  <2>2. sku' \in [{"catalog", "details"} -> Times]
    <3>1. sku \in [{"catalog", "details"} -> Times] /\ sku' = SkuAfter(r)
      BY Cells DEF TypeInv, Loaded
    <3> QED
      BY <1>2, <3>1 DEF SkuAfter, Newer
  <2>3. batches' \in SUBSET [run : Runs, domain : Domains, time : Times]
    <3>1. \A d \in Domains : BatchTime(r, d) \in Times
      BY <1>2, MemoryFields DEF BatchTime, DocType
    <3>2. PICK B : B = {[run |-> r, domain |-> d, time |-> BatchTime(r, d)] : d \in Snapshot(r)}
      OBVIOUS
    <3>3. B \in SUBSET [run : Runs, domain : Domains, time : Times]
      BY <3>1, <3>2 DEF Snapshot
    <3>4. batches' = batches \union B
      BY <3>2 DEF Loaded
    <3> QED
      BY <3>3, <3>4, Cells DEF TypeInv
  <2>4. m' \in [Runs -> Memory] /\ faults' \in Nat
    BY <1>3, Cells
  <2>5. recon' = recon
    BY DEF Loaded
  <2> QED
    BY <1>6, <1>7, <2>1, <2>2, <2>3, <2>4, <2>5, Cells DEF TypeInv
<1>10. Grows(r)
  <2>1. batches \subseteq batches'
    BY DEF Loaded
  <2> QED
    BY <1>1, <1>4, <1>6, <2>1, Cells DEF Grows
<1>11. TracesInv(r, y)'
  <2>1. ASSUME NEW d \in Domains, y.res[d] = "loaded"
        PROVE  \/ m[r].res[d] = "loaded" /\ y.cov[d] = m[r].cov[d]
               \/ /\ Stored(r, d)'
                  /\ d \in Projected /\ y.cov[d] # "PARTIAL" => Shown(r, d, y.time)'
    <3>1. CASE ~Fetched(r, d)
      BY <1>3, <2>1, <3>1
    <3>2. CASE Fetched(r, d)
      <4>1. PICK b \in batches' : b.run = r /\ b.domain = d /\ b.time = BatchTime(r, d)
        BY <1>8, <3>2
      <4>2. Stored(r, d)'
        BY <1>4, <3>2, <4>1 DEF Stored, BatchTime
      <4>3. d \in Projected => d = "advice"
        BY <1>2, <3>2 DEF FetchingInv, Fetched, Projected
      <4> QED
        BY <1>3, <1>6, <3>2, <4>2, <4>3 DEF GoesOn
    <3> QED
      BY <3>1, <3>2
  <2>2. \A p \in projection' : p.run = r => p.domain # "inventory"
    BY <1>2, <1>6 DEF TracesInv, BatchesInv
  <2>3. AuthorityInv(y)'
    BY <1>2, <1>3 DEF TracesInv, AuthorityInv
  <2> QED
    BY <1>3, <1>9, <1>10, <2>1, <2>2, <2>3, TracesGrown
<1>12. RelationsInv'
  <2>1. RelationsInv
    BY Cells
  <2>2. \A k \in jit' : k.time <= now'
    BY <1>2, <1>7, <2>1 DEF RelationsInv
  <2>3. m'[r] = y /\ (\A q \in Runs : q # r => m'[q] = m[q]) /\ y.time = m[r].time
    BY <1>3, Cells DEF GoesOn
  <2>4. ~overlapped => \A q \in Runs : Running(m[q]) => q = r
    BY <1>1, <2>1 DEF RelationsInv
  <2>5. ~overlapped => \A j \in jit : j.time <= m[r].time
    BY <1>1, <2>1 DEF RelationsInv
  <2>6. ~overlapped' =>
          /\ \A q, p \in Runs : Running(m'[q]) /\ Running(m'[p]) => q = p
          /\ \A q \in Runs : Running(m'[q]) => \A k \in jit' : k.time <= m'[q].time
    BY <1>2, <1>7, <2>3, <2>4, <2>5
  <2>7. JitFollowsTheOrder'
    <3>1. CASE Fetched(r, "orders") /\ ~Stale(r, "orders")
      <4>1. row'["orders"] = m[r].doc["orders"] /\ jit' = JitAfter(r)
        BY <1>4, <1>7, <3>1 DEF Docs
      <4>2. ~overlapped =>
              ((\E k \in JitAfter(r) : k.current) <=> m[r].doc["orders"].content = "linked")
        BY <1>2, <2>5, Cells, JitFacts DEF TypeInv
      <4> QED
        BY <4>1, <4>2 DEF JitFollowsTheOrder
    <3>2. CASE ~Fetched(r, "orders") \/ Stale(r, "orders")
      <4>1. row'["orders"] = row["orders"] /\ jit' = jit
        BY <1>4, <1>7, <3>2 DEF Docs
      <4> QED
        BY <2>1, <4>1 DEF RelationsInv, JitFollowsTheOrder
    <3> QED
      BY <3>1, <3>2
  <2> QED
    BY <2>2, <2>6, <2>7 DEF RelationsInv
<1> QED
  BY <1>1, <1>3, <1>5, <1>6, <1>9, <1>10, <1>11, <1>12, LoadStep DEF GoesOn

LEMMA LoadPrimaryStep ==
    ASSUME SupplyInv, NEW r \in Runs, LoadPrimary(r)
    PROVE  SupplyInv'
<1>1. m[r].pc = "fetch" /\ Todo(r) = {} /\ Running(m[r]) /\ m[r] \in Memory
      /\ TracesInv(r, m[r]) /\ FetchingInv(m[r])
  BY Cells DEF LoadPrimary, Running, PhaseInv
<1>2. /\ \/ /\ Snapshot(r) = {} /\ UNCHANGED warehouse
            /\ m' = [m EXCEPT ![r] = Marked(r, "none")]
         \/ UNCHANGED warehouse /\ m' = [m EXCEPT ![r] = Marked(r, "load_error")]
         \/ ~Refused(r) /\ Loaded(r) /\ m' = [m EXCEPT ![r] = Marked(r, "loaded")]
         \/ ~Refused(r) /\ Loaded(r) /\ m' = [m EXCEPT ![r] = Marked(r, "load_error")]
      /\ faults' \in {faults, faults + 1}
      /\ UNCHANGED <<now, site, sales, ledger, overlapped>>
  BY DEF LoadPrimary, world
<1>3. CASE \E s \in {"loaded", "load_error"} :
             ~Refused(r) /\ Loaded(r) /\ m' = [m EXCEPT ![r] = Marked(r, s)]
  <2>1. PICK s \in {"loaded", "load_error"} :
          ~Refused(r) /\ Loaded(r) /\ m' = [m EXCEPT ![r] = Marked(r, s)]
    BY <1>3
  <2>2. PICK y : y = Marked(r, s)
    OBVIOUS
  <2> QED
    BY <1>1, <1>2, <2>1, <2>2, PrimaryLoaded
<1>4. CASE \E s \in {"none", "load_error"} : /\ s = "none" => Snapshot(r) = {}
                                             /\ UNCHANGED warehouse
                                             /\ m' = [m EXCEPT ![r] = Marked(r, s)]
  <2>1. PICK s \in {"none", "load_error"} : /\ s = "none" => Snapshot(r) = {}
                                            /\ UNCHANGED warehouse
                                            /\ m' = [m EXCEPT ![r] = Marked(r, s)]
    BY <1>4
  <2>2. PICK y : y = Marked(r, s)
    OBVIOUS
  <2>3. /\ y \in Memory /\ PhaseInv(y) /\ GoesOn(m[r], y)
        /\ \A d \in Domains : y.res[d] = IF Fetched(r, d) THEN s ELSE m[r].res[d]
        /\ y.cov = m[r].cov
        /\ y.known => /\ m[r].known /\ y.moved = m[r].moved /\ y.universe = m[r].universe
    BY <1>1, <2>1, <2>2, MarkedFacts
  <2>4. AuthorityInv(y)
    BY <1>1, <2>3 DEF TracesInv, AuthorityInv
  <2>5. TracesInv(r, y)
    BY <1>1, <2>3, <2>4, GoesOnQuietly
  <2> QED
    BY <1>1, <1>2, <2>1, <2>2, <2>3, <2>5, QuietStep DEF GoesOn
<1> QED
  BY <1>2, <1>3, <1>4

-----------------------------------------------------------------------------
(* The invariant.                                                          *)

LEMMA InitInv == Init => SupplyInv
<1> SUFFICES ASSUME Init PROVE SupplyInv
  OBVIOUS
<1>1. \A r \in Runs : m[r] = Fresh
  BY DEF Init
<1>2. TypeInv
  <2>1. /\ now = 1 /\ site = [time |-> 1, content |-> "plain", silent |-> 0]
        /\ jit = {} /\ projection = {} /\ batches = {} /\ ledger = {}
        /\ overlapped = FALSE /\ faults = 0
    BY DEF Init
  <2>2. site \in [time : Times, content : Contents, silent : 0..MaxUpsets] /\ site.time = 1
    BY <2>1, ConstantFacts DEF Contents
  <2>3. sales \in [usable : BOOLEAN, active : SUBSET Skus, loads : Nat]
    BY DEF Init
  <2>4. /\ row \in [Docs -> DocType] /\ lines \in [Docs -> SUBSET LineType]
        /\ sku \in [{"catalog", "details"} -> Times]
        /\ m \in [Runs -> Memory]
    BY FreshMemory, ConstantFacts DEF Init, NoDoc, DocType
  <2>5. now \in Times /\ now >= 1 /\ site.time >= 1 /\ faults \in Nat
    BY <2>1, <2>2, ConstantFacts
  <2>8. overlapped \in BOOLEAN
    BY <2>1
  <2>7. recon \in [Skus -> Times]
    BY ConstantFacts DEF Init
  <2>6. /\ jit \in SUBSET [time : Times, current : BOOLEAN]
        /\ projection \in SUBSET Projections
        /\ batches \in SUBSET [run : Runs, domain : Domains, time : Times]
        /\ ledger \in SUBSET Events
    BY <2>1
  <2> QED
    BY <2>2, <2>3, <2>4, <2>5, <2>6, <2>7, <2>8 DEF TypeInv
<1>3. PhaseInv(Fresh)
  BY FreshMemory DEF PhaseInv, Running, OpeningInv, UniverseInv, FetchingInv, InventoryInv,
     ClosingInv, OverInv
<1>4. ledger = {} /\ projection = {} /\ jit = {} /\ overlapped = FALSE
  BY DEF Init
<1>5. \A r \in Runs : TracesInv(r, Fresh)
  BY <1>4, FreshMemory DEF TracesInv, EventsInv, ResultsInv, BatchesInv, AuthorityInv, Running,
     Nothing
<1>6. RunsInv /\ PlansInv
  BY <1>1, <1>3, <1>5, FreshMemory DEF RunsInv, PlansInv, Running
<1>7. LedgerInv /\ ProjectionsInv
  BY <1>4 DEF LedgerInv, ProjectionsInv
<1>8. DocumentsInv
  BY DEF Init, DocumentsInv, OneVersionIsCurrent, LineTotals
<1>9. RelationsInv
  <2>1. row["orders"].content = "none"
    BY DEF Init, Docs, NoDoc
  <2> QED
    BY <1>1, <1>4, <2>1, FreshMemory DEF RelationsInv, JitFollowsTheOrder, Running
<1> QED
  BY <1>2, <1>6, <1>7, <1>8, <1>9 DEF SupplyInv

LEMMA Stutters == SupplyInv /\ UNCHANGED vars => SupplyInv'
<1> SUFFICES ASSUME SupplyInv, UNCHANGED vars PROVE SupplyInv'
  OBVIOUS
<1>1. /\ now' = now /\ site' = site /\ sales' = sales /\ row' = row /\ lines' = lines
      /\ jit' = jit /\ sku' = sku /\ projection' = projection /\ recon' = recon
      /\ batches' = batches /\ ledger' = ledger /\ faults' = faults /\ m' = m
      /\ overlapped' = overlapped /\ UNCHANGED <<warehouse, ledger>> /\ UNCHANGED <<sales, warehouse, ledger>>
  BY DEF vars, warehouse
<1>2. TypeInv'
  BY <1>1, Cells DEF TypeInv
<1>3. RunsInv'
  <2>1. ASSUME NEW q \in Runs PROVE PhaseInv(m'[q]) /\ TracesInv(q, m[q])'
    <3>1. PICK x : x = m[q]
      OBVIOUS
    <3>2. TracesInv(q, x)'
      BY <1>1, <3>1, Cells, TracesLater
    <3> QED
      BY <1>1, <3>1, <3>2, Cells, SameTraces
  <2> QED
    BY <2>1 DEF RunsInv
<1>4. LedgerInv' /\ DocumentsInv' /\ ProjectionsInv'
  BY <1>1, Cells, TablesLater
<1>5. PlansInv' /\ RelationsInv'
  BY <1>1, Cells DEF PlansInv, RelationsInv, JitFollowsTheOrder
<1> QED
  BY <1>2, <1>3, <1>4, <1>5 DEF SupplyInv

LEMMA NextInv == SupplyInv /\ [Next]_vars => SupplyInv'
<1> SUFFICES ASSUME SupplyInv, [Next]_vars PROVE SupplyInv'
  OBVIOUS
<1>1. CASE \E r \in Runs : Step(r)
  <2>1. PICK r \in Runs : Step(r)
    BY <1>1
  <2> QED
    BY <2>1, BeginStep, StartAttemptStep, ReadUniverseStep, FetchStep, LoadPrimaryStep,
       FetchInventoryStep, LoadInventoryStep, FinishAttemptStep, DieStep DEF Step
<1> QED
  BY <1>1, SiteStep, SalesLoadStep, Stutters DEF Next

(* Every reachable state satisfies the invariant.                          *)
THEOREM SupplyInvariant == Spec => []SupplyInv
BY InitInv, NextInv, PTL DEF Spec

-----------------------------------------------------------------------------
(* The stored documents and the ledger.                                    *)

(* The tables and the runs' memories keep their shapes, inventory is never  *)
(* more than was asked for, the current lines are those of the stored       *)
(* version, and the relation follows it while runs do not overlap, whatever *)
(* loads, failures and deaths there are (loadPurchaseOrders, loadDeliveries). *)
THEOREM DocumentsAreTrue == Spec => []DocumentSafety
<1>1. SupplyInv => DocumentSafety
  <2> SUFFICES ASSUME SupplyInv PROVE DocumentSafety
    OBVIOUS
  <2>1. TypeInv /\ OneVersionIsCurrent /\ JitFollowsTheOrder
    BY Cells DEF DocumentsInv, RelationsInv
  <2>2. \A r \in Runs : /\ m[r].pc = "load" => m[r].seen \subseteq m[r].universe
                        /\ m[r].res \in [Domains -> Results]
    BY Cells, MemoryFields DEF PhaseInv, InventoryInv
  <2>3. TypeOK
    BY <2>1, <2>2 DEF TypeInv, TypeOK, LineType
  <2> QED
    BY <2>1, <2>3 DEF DocumentSafety
<1> QED
  BY <1>1, SupplyInvariant, PTL

(* Two events of one run for one domain differ in their status only.        *)
LEMMA EventsOfOneRun ==
    ASSUME SupplyInv, NEW e \in ledger, NEW f \in ledger,
           e.run = f.run, e.domain = f.domain, e.status = f.status
    PROVE  e = f
<1>1. e \in Events /\ f \in Events /\ e.scope = f.scope /\ e.at = f.at
  BY Cells DEF LedgerInv
<1> QED
  BY <1>1 DEF Events

(* Health shows the terminal events of the run it shows, if there are any.   *)
LEMMA HealthOfMine ==
    ASSUME SupplyInv, NEW e \in ledger, e.status = "STARTED", e.scope = "LIVE",
           \A f \in ledger : (/\ f.status = "STARTED" /\ f.scope = "LIVE"
                              /\ f.domain = e.domain /\ f.run # e.run) => f.at < e.at,
           NEW mine, mine = {x \in ledger : x.run = e.run /\ x.domain = e.domain}
    PROVE  Health("LIVE", e.domain) = IF mine = {e} THEN mine ELSE mine \ {e}
<1>1. PICK E : E = {x \in ledger : x.domain = e.domain /\ x.scope = "LIVE"}
  OBVIOUS
<1>2. PICK top : top = {x \in E : \A f \in E : f.at <= x.at}
  OBVIOUS
<1>3. e \in E /\ mine \subseteq E /\ \A x \in mine : x.at = e.at
  BY <1>1, Cells DEF LedgerInv
<1>4. \A x \in E : x \in mine \/ x.at < e.at
  <2> SUFFICES ASSUME NEW x \in E, x.run # e.run PROVE x.at < e.at
    BY <1>1
  <2>1. PICK f \in ledger : f.run = x.run /\ f.domain = x.domain /\ f.status = "STARTED"
    BY <1>1, Cells DEF LedgerInv, Has
  <2>2. f.scope = "LIVE" /\ f.at = x.at
    BY <1>1, <2>1, Cells DEF LedgerInv
  <2> QED
    BY <1>1, <2>1, <2>2
<1>5. top = mine
  <2>1. \A x \in E : x.at \in Nat
    BY <1>1, Cells
  <2>2. \A x \in E : x.at <= e.at
    BY <1>3, <1>4, <2>1
  <2> QED
    BY <1>2, <1>3, <1>4, <2>1, <2>2
<1>6. \A x \in mine : x.status = "STARTED" => x = e
  BY EventsOfOneRun
<1>7. Health("LIVE", e.domain) =
        {x \in top : x.status = "STARTED" => \A f \in top : f.status = "STARTED"}
  BY <1>1, <1>2 DEF Health
<1> QED
  BY <1>5, <1>6, <1>7

(* What the ledger calls SUCCEEDED is stored, and shown if it is inventory, a *)
(* store is reported as loaded only when all its attempts are SUCCEEDED, and  *)
(* health is that of the run planned last (recordSupplySyncAttempt,           *)
(* SUPPLY_SYNC_HEALTH_SQL), for any number of runs in any interleaving.       *)
THEOREM LedgerIsTrue == Spec => []LedgerSafety
<1>1. SupplyInv => LedgerSafety
  <2> SUFFICES ASSUME SupplyInv PROVE LedgerSafety
    OBVIOUS
  <2>1. LedgerInv
    BY Cells
  <2>2. SucceededMeansStored
    BY <2>1 DEF SucceededMeansStored, LedgerInv, Stored
  <2>3. SucceededInventoryIsComplete
    BY <2>1 DEF SucceededInventoryIsComplete, LedgerInv, Shown, Projected
  <2>4. LoadedMeansAllSucceeded
    <3>1. \A r \in Runs : EventsInv(r, m[r])
      BY Cells DEF TracesInv
    <3> QED
      BY <3>1 DEF EventsInv, LoadedMeansAllSucceeded, Chosen, Selected, Asked, Has
  <2>5. HealthIsOfTheNewest
    <3> SUFFICES ASSUME NEW e \in {x \in ledger : x.status = "STARTED" /\ x.scope = "LIVE"},
                        \A f \in ledger : (/\ f.status = "STARTED" /\ f.scope = "LIVE"
                                  /\ f.domain = e.domain /\ f.run # e.run) => f.at < e.at
                 PROVE  LET mine == {x \in ledger : x.run = e.run /\ x.domain = e.domain}
                            last == IF mine = {e} THEN mine ELSE mine \ {e}
                        IN  Health("LIVE", e.domain) = last
      BY DEF HealthIsOfTheNewest
    <3>1. PICK mine : mine = {x \in ledger : x.run = e.run /\ x.domain = e.domain}
      OBVIOUS
    <3>2. Health("LIVE", e.domain) = IF mine = {e} THEN mine ELSE mine \ {e}
      BY <3>1, HealthOfMine
    <3> QED
      BY <3>1, <3>2
  <2> QED
    BY <2>2, <2>3, <2>4, <2>5 DEF LedgerSafety
<1> QED
  BY <1>1, SupplyInvariant, PTL

-----------------------------------------------------------------------------
(* What is stored never goes back.                                         *)

(* The action of NothingGoesBack.                                           *)
Onward ==
    /\ \A d \in Docs : row'[d].time >= row[d].time
    /\ \A d \in DOMAIN sku : sku'[d] >= sku[d]
    /\ \A s \in Skus : recon'[s] >= recon[s]
    /\ \A d \in Docs : row'[d].time = row[d].time => row'[d] = row[d]

LEMMA SourceTimes ==
    ASSUME SupplyInv
    PROVE  /\ \A d \in Docs : row[d].time \in Nat
           /\ DOMAIN sku = {"catalog", "details"} /\ \A d \in DOMAIN sku : sku[d] \in Nat
           /\ \A s \in Skus : recon[s] \in Nat
<1>1. /\ \A d \in Docs : row[d].time \in Nat
      /\ sku \in [{"catalog", "details"} -> Times] /\ recon \in [Skus -> Times]
  BY Cells DEF TypeInv
<1> QED
  BY <1>1, ConstantFacts

LEMMA NewerFacts ==
    ASSUME NEW s \in Nat, NEW t \in Nat
    PROVE  Newer(s, t) >= s
BY DEF Newer

(* A step that leaves the tables alone.                                     *)
LEMMA StoredStays ==
    ASSUME SupplyInv, row' = row, sku' = sku, recon' = recon
    PROVE  Onward
BY SourceTimes DEF Onward

LEMMA LoadedGoesOn ==
    ASSUME SupplyInv, NEW r \in Runs, m[r].pc = "fetch", ~Refused(r), Loaded(r)
    PROVE  Onward
<1>1. \A d \in Docs : row'[d].time >= row[d].time
  BY DocumentLoaded
<1>2. ASSUME NEW d \in Docs, row'[d].time = row[d].time
      PROVE  row'[d] = row[d]
  <2>1. row'[d] = IF Fetched(r, d) THEN RowAfter(r, d) ELSE row[d]
    BY DEF Loaded
  <2>2. m[r].doc[d].time \in Nat /\ row[d].time \in Nat
    <3>1. m[r].doc \in [Docs -> DocType] /\ row[d].time \in Nat
      BY Cells, MemoryFields
    <3>2. m[r].doc[d].time \in Times
      BY <3>1 DEF DocType
    <3> QED
      BY <3>1, <3>2, ConstantFacts
  <2> QED
    BY <1>2, <2>1, <2>2 DEF RowAfter
<1>3. m[r].time \in Nat
  BY Cells, MemoryFields
<1>4. ASSUME NEW d \in DOMAIN sku PROVE sku'[d] >= sku[d]
  <2>1. sku'[d] = IF Fetched(r, d) THEN Newer(sku[d], m[r].time) ELSE sku[d]
    BY DEF Loaded, SkuAfter
  <2> QED
    BY <1>3, <2>1, SourceTimes, NewerFacts
<1>5. \A s \in Skus : recon'[s] >= recon[s]
  BY SourceTimes DEF Loaded
<1> QED
  BY <1>1, <1>2, <1>4, <1>5 DEF Onward

LEMMA InventoryGoesOn ==
    ASSUME SupplyInv, NEW r \in Runs, InventoryLoaded(r)
    PROVE  Onward
<1>1. row' = row /\ sku' = sku
  BY DEF InventoryLoaded
<1>2. m[r].time \in Nat
  BY Cells, MemoryFields
<1>3. ASSUME NEW s \in Skus PROVE recon'[s] >= recon[s]
  <2>1. recon'[s] = IF s \in m[r].seen THEN Newer(recon[s], m[r].time) ELSE recon[s]
    BY DEF InventoryLoaded, ReconAfter
  <2> QED
    BY <1>2, <2>1, SourceTimes, NewerFacts
<1> QED
  BY <1>1, <1>3, SourceTimes DEF Onward

LEMMA StepGoesOn == SupplyInv /\ [Next]_vars => Onward
<1> SUFFICES ASSUME SupplyInv, [Next]_vars PROVE Onward
  OBVIOUS
<1>1. CASE UNCHANGED warehouse
  BY <1>1, StoredStays DEF warehouse
<1>2. CASE \E r \in Runs : LoadPrimary(r)
  <2>1. PICK r \in Runs : LoadPrimary(r)
    BY <1>2
  <2>2. m[r].pc = "fetch" /\ (UNCHANGED warehouse \/ (~Refused(r) /\ Loaded(r)))
    BY <2>1 DEF LoadPrimary
  <2> QED
    BY <1>1, <2>2, LoadedGoesOn
<1>3. CASE \E r \in Runs : LoadInventory(r)
  <2>1. PICK r \in Runs : UNCHANGED warehouse \/ InventoryLoaded(r)
    BY <1>3 DEF LoadInventory
  <2> QED
    BY <1>1, <2>1, InventoryGoesOn
<1>4. CASE ~(\E r \in Runs : LoadPrimary(r) \/ LoadInventory(r))
  <2>1. CASE UNCHANGED vars
    BY <1>1, <2>1 DEF vars, warehouse
  <2>2. CASE SiteUpdate \/ SilentUpdate \/ SalesLoad
    BY <1>1, <2>2 DEF SiteUpdate, SilentUpdate, SalesLoad
  <2>3. CASE \E r \in Runs : Step(r)
    <3>1. PICK r \in Runs : Step(r) /\ ~LoadPrimary(r) /\ ~LoadInventory(r)
      BY <1>4, <2>3
    <3>2. ASSUME Fetch(r) PROVE UNCHANGED warehouse
      <4>1. PICK d : FetchDomain(r, d)
        BY <3>2 DEF Fetch
      <4> QED
        BY <4>1 DEF FetchDomain
    <3>3. CASE Begin(r) \/ ReadUniverse(r)
      BY <1>1, <3>3 DEF Begin, ReadUniverse
    <3>4. CASE StartAttempt(r) \/ FinishAttempt(r)
      BY <1>1, <3>4 DEF StartAttempt, FinishAttempt
    <3>5. CASE FetchInventory(r) \/ Die(r)
      BY <1>1, <3>5 DEF FetchInventory, Die
    <3> QED
      BY <1>1, <3>1, <3>2, <3>3, <3>4, <3>5 DEF Step
  <2> QED
    BY <2>1, <2>2, <2>3 DEF Next
<1> QED
  BY <1>2, <1>3, <1>4

(* A stored document, SKU attribute or reconciliation is never replaced by an *)
(* older one, nor a document by another of its time, in whatever order runs   *)
(* load what they fetched (loadPurchaseOrders, loadDeliveries, loadCatalog,   *)
(* loadInventory).                                                          *)
THEOREM StoredNeverGoesBack == Spec => NothingGoesBack
<1>1. SupplyInv /\ [Next]_vars => [Onward]_vars
  BY StepGoesOn
<1> QED
  BY <1>1, SupplyInvariant, PTL DEF Spec, NothingGoesBack, Onward

-----------------------------------------------------------------------------
(* The dashboard.                                                          *)

LEMMA OneLatest ==
    ASSUME SupplyInv, NEW d, NEW p \in Latest(d), NEW q \in Latest(d)
    PROVE  p = q
<1>1. p \in projection /\ q \in projection /\ p.domain = d /\ q.domain = d
      /\ p.time <= q.time /\ q.time <= p.time
  BY DEF Latest
<1>2. p.time \in Nat /\ q.time \in Nat /\ ProjectionsInv
  BY <1>1, Cells
<1>3. p.time = q.time
  BY <1>1, <1>2
<1> QED
  BY <1>1, <1>2, <1>3 DEF ProjectionsInv

(* What is shown of a domain is shown of its latest batch.                   *)
LEMMA SummaryOfLatest ==
    ASSUME SupplyInv, NEW d \in Projected, NEW p \in Latest(d), NEW s \in Summary(d)
    PROVE  /\ s.skus = p.members \intersect sales.active
           /\ s.totalled <=> p.coverage = "COMPLETE" /\ p.members \subseteq sales.active
<1>1. PICK q \in Latest(d) :
        s = [skus |-> q.members \intersect sales.active,
             totalled |-> q.coverage = "COMPLETE" /\ q.members \subseteq sales.active]
  BY DEF Summary, InventorySummary, StockAdviceSummary, Projected
<1>2. q = p
  BY OneLatest
<1>3. /\ s.skus = p.members \intersect sales.active
      /\ s.totalled = (p.coverage = "COMPLETE" /\ p.members \subseteq sales.active)
  BY <1>1, <1>2
<1> QED
  BY <1>3

(* A total is of the SKUs that its batch was judged by and that are listed.  *)
LEMMA WholeTotals == SupplyInv => TotalsAreWhole
<1> SUFFICES ASSUME SupplyInv PROVE TotalsAreWhole
  OBVIOUS
<1>1. ASSUME NEW d \in Projected, NEW p \in Latest(d), NEW s \in Summary(d), s.totalled
      PROVE  /\ s.skus = p.authority \intersect p.listed
             /\ d = "inventory" => s.skus = p.authority
  <2>1. /\ s.skus = p.members \intersect sales.active
        /\ p.coverage = "COMPLETE" /\ p.members \subseteq sales.active
    BY <1>1, SummaryOfLatest
  <2>2. /\ p.members = p.authority \intersect p.listed
        /\ d = "inventory" => p.authority \subseteq p.listed
    BY <2>1, Cells DEF ProjectionsInv, Latest
  <2> QED
    BY <2>1, <2>2
<1>2. /\ "inventory" \in Projected /\ "advice" \in Projected
      /\ Summary("inventory") = InventorySummary /\ Summary("advice") = StockAdviceSummary
  BY DEF Projected, Summary
<1> QED
  BY <1>1, <1>2 DEF TotalsAreWhole

(* A total that the dashboard shows is over every SKU that was active when  *)
(* its batch was loaded (and is listed, for advice), none retired since      *)
(* (loadStockAdvice, loadInventory, the inventory and advice summaries).      *)
THEOREM TotalsAreTrue == Spec => []TotalsAreWhole
BY WholeTotals, SupplyInvariant, PTL

(* Backfills ask for documents only, which have no projection batches.      *)
BackfillsOfDocuments ==
    \A q \in Requests : q.scope = "BACKFILL" => \A j \in DOMAIN q.domains : q.domains[j] \in Docs

(* The latest batch of a domain whose live health is a success is the one    *)
(* that this success tells of.                                              *)
LEMMA LatestOfSuccess ==
    ASSUME SupplyInv, BackfillsOfDocuments, NEW d \in Projected,
           NEW e \in ledger, e.domain = d, e.scope = "LIVE", e.status = "SUCCEEDED",
           \A f \in ledger : f.domain = d /\ f.scope = "LIVE" => f.at <= e.at,
           NEW p \in Latest(d)
    PROVE  p.run = e.run /\ (p.coverage = "COMPLETE" \/ p.moved)
<1>1. PICK o \in projection : /\ o.run = e.run /\ o.domain = d /\ o.time = e.at
                              /\ o.coverage = "COMPLETE" \/ o.moved
  BY Cells DEF LedgerInv, Shown
<1>2. p \in projection /\ p.domain = d /\ o.time <= p.time
  BY <1>1 DEF Latest
<1>3. PICK f \in ledger : f.domain = d /\ f.at = p.time
  BY <1>2, Cells DEF ProjectionsInv
<1>4. f.scope = "LIVE"
  <2>1. PICK q \in Requests : f.scope = q.scope /\ \E j \in DOMAIN q.domains : d = q.domains[j]
    BY <1>3, Cells DEF LedgerInv
  <2>2. q.scope = "BACKFILL" => d \in Docs
    BY <2>1 DEF BackfillsOfDocuments
  <2> QED
    BY <2>1, <2>2, RequestFacts, DomainFacts
<1>5. p.time = o.time
  <2>1. p.time <= o.time
    BY <1>1, <1>3, <1>4
  <2> QED
    BY <1>1, <1>2, <2>1, Cells
<1>6. p = o
  BY <1>1, <1>2, <1>5, Cells DEF ProjectionsInv
<1> QED
  BY <1>1, <1>6

(* A domain that the dashboard neither puts to review nor shows as under way *)
(* is stored by the live run planned last, not too long ago, and is shown as *)
(* that run stored it, with its total unless the active SKUs moved            *)
(* (readSupplyCoverage, buildReadOnlyActionPool).                           *)
LEMMA QuietDomain ==
    ASSUME SupplyInv, BackfillsOfDocuments, NEW d, Standing(d) # "in_progress",
           ~Reviewed(Standing(d))
    PROVE  \E e \in {x \in ledger : x.domain = d /\ x.scope = "LIVE"} :
              /\ \A f \in ledger : f.domain = d /\ f.scope = "LIVE" => f.at <= e.at
              /\ now - e.at <= LiveMaxAge
              /\ \E b \in batches : b.run = e.run /\ b.domain = d
              /\ d \in Projected => \A p \in Latest(d) :
                    /\ p.run = e.run
                    /\ \/ \A s \in Summary(d) : s.totalled
                       \/ p.moved \/ p.authority # sales.active
<1>1. PICK E : E = Health("LIVE", d)
  OBVIOUS
<1>2. /\ E # {} /\ \A e \in E : e.status = "SUCCEEDED" /\ ~Outdated(e)
  BY <1>1 DEF Standing, Reviewed
<1>3. PICK e \in E : e.status = "SUCCEEDED" /\ ~Outdated(e)
  BY <1>2
<1>4. /\ e \in ledger /\ e.domain = d /\ e.scope = "LIVE"
      /\ \A f \in ledger : f.domain = d /\ f.scope = "LIVE" => f.at <= e.at
  BY <1>1, <1>3 DEF Health
<1>5. now - e.at <= LiveMaxAge
  <2>1. ~(now - e.at > LiveMaxAge)
    BY <1>3 DEF Outdated
  <2> QED
    BY <1>4, <2>1, Cells, ConstantFacts
<1>6. \E b \in batches : b.run = e.run /\ b.domain = d
  BY <1>3, <1>4, Cells DEF LedgerInv, Stored
<1>7. ASSUME d \in Projected, NEW p \in Latest(d)
      PROVE  /\ p.run = e.run
             /\ \/ \A s \in Summary(d) : s.totalled
                \/ p.moved \/ p.authority # sales.active
  <2>1. p.run = e.run /\ (p.coverage = "COMPLETE" \/ p.moved)
    BY <1>3, <1>4, <1>7, LatestOfSuccess
  <2>2. p.members = p.authority \intersect p.listed
    BY <1>7, Cells DEF ProjectionsInv, Latest
  <2>3. ASSUME ~p.moved, p.authority = sales.active, NEW s \in Summary(d)
        PROVE  s.totalled
    <3>1. p.coverage = "COMPLETE" /\ p.members \subseteq sales.active
      BY <2>1, <2>2, <2>3
    <3> QED
      BY <1>7, <3>1, SummaryOfLatest
  <2> QED
    BY <2>1, <2>3
<1> QED
  BY <1>4, <1>5, <1>6, <1>7

(* What the dashboard shows of supply can be relied on, whatever runs there  *)
(* are, as long as backfills are of documents only (runSupplySync with a     *)
(* BACKFILL scope, readSupplyCoverage, the summaries).                      *)
THEOREM DashboardIsTrue ==
    ASSUME BackfillsOfDocuments
    PROVE  Spec => []DashboardSafety
<1>1. SupplyInv => QuietMeansCurrent
  BY QuietDomain DEF QuietMeansCurrent
<1>2. SupplyInv => DashboardSafety
  BY <1>1, WholeTotals DEF DashboardSafety
<1> QED
  BY <1>2, SupplyInvariant, PTL
=============================================================================
