-------------------------- MODULE CustomerPipeline --------------------------
(***************************************************************************)
(* The customer branch of the production pipeline (spark/declarations.py): *)
(*                                                                         *)
(*   landing files -> customers_raw        -> customers_valid        \     *)
(*                 -> customer_updates_raw -> customer_updates_valid /     *)
(*      -> dim_customer_hist -> dim_customer                               *)
(*      -> dim_customer_held_orphans                                       *)
(*                                                                         *)
(* The bronze tables are append-only streaming tables fed by Auto Loader;  *)
(* every other dataset is a materialized view, recomputed as a whole from  *)
(* what it reads.  A pipeline update refreshes the datasets one by one in  *)
(* the order of the graph, each refresh being atomic; the update may fail  *)
(* between two of them, and files may land at any time.                    *)
(***************************************************************************)
EXTENDS Scd2Compiler

CONSTANTS
    Keys,            \* the customers
    Times,           \* the values of updated_at and change_ts
    ChangeSeqs,      \* the values of change_seq, which no rule forbids to be Null
    Attributes,      \* ranks of what a row says besides its key, op and sequence
    Rejected,        \* the attributes that a blocking record rule refuses
    DeleteAttributes,  \* those of the delete rows that no rule refuses
    UpsertOps,       \* the op codes that are not "D": "I", "U"
    SnapshotPaths,   \* landing paths under customers/
    UpdatePaths,     \* landing paths under customer_updates/
    MaxLandings,     \* bound: files written
    MaxFailures      \* bound: updates that fail (failures are transient)

\* source_system is part of the payload: "SNAPSHOT" on snapshot rows, so that theirs is
\* no payload of the feed; on CDC rows a column like the others.  A key-only delete has
\* it too, and may have more, so that two deletes of one slot can differ.
SnapshotPayload(a) == 2 * a + 1
UpdatePayload(a) == 2 * a

ASSUME PipelineAssumption ==
    /\ Times \subseteq Int /\ ChangeSeqs \subseteq SortValue
    /\ Attributes \subseteq Int /\ Rejected \subseteq Attributes
    /\ DeleteAttributes \subseteq Int
    /\ OpDelete \notin UpsertOps
    /\ SnapshotPaths \cap UpdatePaths = {}
    /\ MaxLandings \in Nat /\ MaxFailures \in Nat
    /\ \A a \in Attributes \cup DeleteAttributes :
           {SnapshotPayload(a), UpdatePayload(a)} \subseteq Payloads

Paths == SnapshotPaths \cup UpdatePaths

\* Rows whose keys are usable: the rules also refuse a null customer_id or change_ts and
\* a change_ts in the future, in a delete as well; such rows never leave bronze.
SnapshotRow == [customer_id : Keys, updated_at : Times, attributes : Attributes]

UpdateRow ==
    [op : UpsertOps, customer_id : Keys, change_ts : Times, change_seq : ChangeSeqs,
     attributes : Attributes]
      \cup
    [op : {OpDelete}, customer_id : Keys, change_ts : Times, change_seq : ChangeSeqs,
     attributes : DeleteAttributes]

RowsOf(path) == IF path \in SnapshotPaths THEN SnapshotRow ELSE UpdateRow

Raw(paths, rows) == [path : paths, row : rows]

\* Fault: the graph has no edge from customers_valid to the history.
Reads_EdgeMissing ==
    [customers_raw             |-> {},
     customer_updates_raw      |-> {},
     customers_valid           |-> {"customers_raw"},
     customer_updates_valid    |-> {"customer_updates_raw"},
     dim_customer_hist         |-> {"customer_updates_valid"},
     dim_customer_held_orphans |-> {"customers_valid", "customer_updates_valid"},
     dim_customer              |-> {"dim_customer_hist"}]

\* What each dataset reads, which orders the refreshes.
Reads ==
    [customers_raw             |-> {},
     customer_updates_raw      |-> {},
     customers_valid           |-> {"customers_raw"},
     customer_updates_valid    |-> {"customer_updates_raw"},
     dim_customer_hist         |-> {"customers_valid", "customer_updates_valid"},
     dim_customer_held_orphans |-> {"customers_valid", "customer_updates_valid"},
     dim_customer              |-> {"dim_customer_hist"}]

Datasets == DOMAIN Reads

VARIABLES
    files,                      \* path -> the row of the file there, or Null
    customers_raw,
    customer_updates_raw,
    customers_valid,
    customer_updates_valid,
    dim_customer_hist,
    dim_customer_held_orphans,
    dim_customer,
    pending,                    \* the datasets the running update has still to refresh
    outcome,                    \* of the last update: "none", "running", "completed", "failed"
    landings,                   \* bounded counters
    failures

bronze == <<customers_raw, customer_updates_raw>>
silver == <<customers_valid, customer_updates_valid>>
dims == <<dim_customer_hist, dim_customer_held_orphans, dim_customer>>
vars == <<files, bronze, silver, dims, pending, outcome, landings, failures>>

-----------------------------------------------------------------------------
(* What each dataset is computed from.                                     *)

Rows(raw) == {b.row : b \in raw}

\* Blocking rules of source customers: a record rule, or the duplicate rule at
\* severity quarantine over the whole of bronze.  An exact copy of a row adds
\* nothing (its first occurrence stays); two different rows of one identity,
\* customer_id, are both key duplicates, whatever else is wrong with either.
CustomersValid(raw) ==
    {r \in Rows(raw) :
        /\ r.attributes \notin Rejected
        /\ \A q \in Rows(raw) : q.customer_id = r.customer_id => q = r}

\* Fault: the duplicate rule of customers is applied to the CDC feed.
CustomerUpdatesValid_DuplicatesBlocked(raw) ==
    {r \in Rows(raw) :
        /\ r.op = OpDelete \/ r.attributes \notin Rejected
        /\ \A q \in Rows(raw) : q.customer_id = r.customer_id => q = r}

\* Blocking rules of source customer_updates: record rules only (a delete image is
\* exempt); duplicates are observed, exact re-delivery being legitimate replay.
CustomerUpdatesValid(raw) ==
    {r \in Rows(raw) : r.op = OpDelete \/ r.attributes \notin Rejected}

\* Snapshot branch: op-less rows are upserts at (updated_at, null).
SnapshotEvent(r) ==
    [key |-> r.customer_id, op |-> OpUpsert, sequence |-> <<r.updated_at, Null>>,
     payload |-> SnapshotPayload(r.attributes)]

UpdateEvent(r) ==
    [key |-> r.customer_id, op |-> IF r.op = OpDelete THEN OpDelete ELSE OpUpsert,
     sequence |-> <<r.change_ts, r.change_seq>>, payload |-> UpdatePayload(r.attributes)]

\* The unified stream: both branches, one schema.
Events(snapshots, updates) ==
    {SnapshotEvent(r) : r \in snapshots} \cup {UpdateEvent(r) : r \in updates}

\* _customer_event_stream: normalized with no known keys.
EventStream(snapshots, updates) == SparkResolved(Events(snapshots, updates))

\* Fault: the history is built from the whole stream, held orphans included.
DimCustomerHist_OrphansApplied(snapshots, updates) ==
    RebuildHistory({}, EventStream(snapshots, updates))

DimCustomerHist(snapshots, updates) ==
    RebuildHistory({}, SparkApplied(EventStream(snapshots, updates), {}))

HeldOrphans(snapshots, updates) ==
    SparkOrphans(EventStream(snapshots, updates), {})

-----------------------------------------------------------------------------
Init ==
    /\ files = [p \in Paths |-> Null]
    /\ customers_raw = {} /\ customer_updates_raw = {}
    /\ customers_valid = {} /\ customer_updates_valid = {}
    /\ dim_customer_hist = {} /\ dim_customer_held_orphans = {} /\ dim_customer = {}
    /\ pending = {}
    /\ outcome = "none"
    /\ landings = 0 /\ failures = 0

\* A file is written, over the previous one if the name is reused (writer.py).
Land(path, row) ==
    /\ landings < MaxLandings
    /\ files' = [files EXCEPT ![path] = row]
    /\ landings' = landings + 1
    /\ UNCHANGED <<bronze, silver, dims, pending, outcome, failures>>

\* Fault: a failed update is never followed by another.
StartUpdate_NotAfterFailure ==
    /\ pending = {}
    /\ outcome # "failed"
    /\ pending' = Datasets
    /\ outcome' = "running"
    /\ UNCHANGED <<files, bronze, silver, dims, landings, failures>>

\* The orchestrator runs the pipeline; it never runs two updates at once.
StartUpdate ==
    /\ pending = {}
    /\ pending' = Datasets
    /\ outcome' = "running"
    /\ UNCHANGED <<files, bronze, silver, dims, landings, failures>>

\* Dataset d is next: everything it reads has been refreshed in this update.
Refreshed(d) ==
    /\ d \in pending
    /\ Reads[d] \cap pending = {}
    /\ pending' = pending \ {d}
    /\ outcome' = IF pending' = {} THEN "completed" ELSE "running"
    /\ UNCHANGED <<files, landings, failures>>

\* Auto Loader: a path is read once, when it is first seen, and committed with its
\* rows; what is later written to the same path is never read.
NewRows(raw, paths) ==
    {[path |-> p, row |-> files[p]] :
        p \in {q \in paths : files[q] # Null /\ \A b \in raw : b.path # q}}

IngestCustomers ==
    /\ Refreshed("customers_raw")
    /\ customers_raw' = customers_raw \cup NewRows(customers_raw, SnapshotPaths)
    /\ UNCHANGED <<customer_updates_raw, silver, dims>>

IngestCustomerUpdates ==
    /\ Refreshed("customer_updates_raw")
    /\ customer_updates_raw' =
           customer_updates_raw \cup NewRows(customer_updates_raw, UpdatePaths)
    /\ UNCHANGED <<customers_raw, silver, dims>>

RefreshCustomersValid ==
    /\ Refreshed("customers_valid")
    /\ customers_valid' = CustomersValid(customers_raw)
    /\ UNCHANGED <<bronze, customer_updates_valid, dims>>

RefreshCustomerUpdatesValid ==
    /\ Refreshed("customer_updates_valid")
    /\ customer_updates_valid' = CustomerUpdatesValid(customer_updates_raw)
    /\ UNCHANGED <<bronze, customers_valid, dims>>

RefreshDimCustomerHist ==
    /\ Refreshed("dim_customer_hist")
    /\ dim_customer_hist' = DimCustomerHist(customers_valid, customer_updates_valid)
    /\ UNCHANGED <<bronze, silver, dim_customer_held_orphans, dim_customer>>

RefreshHeldOrphans ==
    /\ Refreshed("dim_customer_held_orphans")
    /\ dim_customer_held_orphans' = HeldOrphans(customers_valid, customer_updates_valid)
    /\ UNCHANGED <<bronze, silver, dim_customer_hist, dim_customer>>

RefreshDimCustomer ==
    /\ Refreshed("dim_customer")
    /\ dim_customer' = CurrentRows(dim_customer_hist)
    /\ UNCHANGED <<bronze, silver, dim_customer_hist, dim_customer_held_orphans>>

Refresh ==
    \/ IngestCustomers
    \/ IngestCustomerUpdates
    \/ RefreshCustomersValid
    \/ RefreshCustomerUpdatesValid
    \/ RefreshDimCustomerHist
    \/ RefreshHeldOrphans
    \/ RefreshDimCustomer

\* The update stops between two refreshes; what was refreshed stays.
FailUpdate ==
    /\ pending # {}
    /\ failures < MaxFailures
    /\ pending' = {}
    /\ outcome' = "failed"
    /\ failures' = failures + 1
    /\ UNCHANGED <<files, bronze, silver, dims, landings>>

Next ==
    \/ \E path \in Paths : \E row \in RowsOf(path) : Land(path, row)
    \/ StartUpdate
    \/ Refresh
    \/ FailUpdate

Spec == Init /\ [][Next]_vars

\* The schedule keeps starting updates, and an update that does not fail finishes.
FairSpec ==
    Spec /\ WF_pending(StartUpdate) /\ WF_pending(\E d \in Datasets : Refreshed(d))

-----------------------------------------------------------------------------
TypeOK ==
    /\ \A p \in Paths : files[p] \in RowsOf(p) \cup {Null}
    /\ customers_raw \subseteq Raw(SnapshotPaths, SnapshotRow)
    /\ customer_updates_raw \subseteq Raw(UpdatePaths, UpdateRow)
    /\ customers_valid \subseteq SnapshotRow
    /\ customer_updates_valid \subseteq UpdateRow
    /\ dim_customer_hist \subseteq Version(Keys, Payloads)
    /\ dim_customer_held_orphans \subseteq Event(Keys, Payloads)
    /\ dim_customer \subseteq Version(Keys, Payloads)
    /\ pending \subseteq Datasets
    /\ outcome \in {"none", "running", "completed", "failed"}
    /\ landings \in 0..MaxLandings
    /\ failures \in 0..MaxFailures

\* What a completed update leaves is what recomputing everything from bronze gives:
\* nothing computed before a failure, or from a file that landed half way, survives
\* in it (ADR-0010, "full-recompute semantics").
CompletedIsRecomputed ==
    outcome = "completed" =>
        LET snapshots == CustomersValid(customers_raw)
            updates   == CustomerUpdatesValid(customer_updates_raw)
        IN  /\ dim_customer_hist = DimCustomerHist(snapshots, updates)
            /\ dim_customer_held_orphans = HeldOrphans(snapshots, updates)
            /\ dim_customer = CurrentRows(dim_customer_hist)

\* The version of k that is valid at point p, if any.
Covering(history, k, p) ==
    {v \in history :
        /\ v.key = k
        /\ v.valid_from = p \/ SeqLt(v.valid_from, p)
        /\ v.valid_to = Null \/ SeqLt(p, v.valid_to)}

Deleted == {r \in CustomerUpdatesValid(customer_updates_raw) : r.op = OpDelete}

\* The upserts and the held deletes that claim the slot of e.
UpsertsInSlot(e) ==
    {u \in Events(customers_valid, customer_updates_valid) :
        SameSlot(u, e) /\ u.op = OpUpsert}

HeldInSlot(e) == {h \in dim_customer_held_orphans : SameSlot(h, e)}

\* Once an update has completed, every point at which a valid delete came is accounted
\* for in exactly one way: an upsert holds it, or a delete of it is held back, or the
\* customer shows as deleted there.  (A delete of each point is: which one of several,
\* see OrphansHeld.)
DeletesAccountedFor ==
    outcome = "completed" =>
        \A r \in Deleted :
            LET e     == UpdateEvent(r)
                shown == \E v \in Covering(dim_customer_hist, e.key, e.sequence) : v.is_deleted
            IN  /\ UpsertsInSlot(e) # {} => HeldInSlot(e) = {} /\ ~shown
                /\ UpsertsInSlot(e) = {} => (HeldInSlot(e) # {} <=> ~shown)

\* A valid delete that no upsert comes before, nor claims the slot of, is found among the
\* held orphans (ADR-0006: "never dropped", "Zero data loss"; cdc_compiler.py: "losers
\* kept").
OrphansHeld ==
    outcome = "completed" =>
        \A r \in Deleted :
            LET e == UpdateEvent(r)
            IN  (\A u \in Events(customers_valid, customer_updates_valid) :
                     u.op = OpUpsert => ~SameSlot(u, e) /\ ~Precedes(u, e))
                    => e \in dim_customer_held_orphans

\* A customer who has never been in a snapshot does not leave the dimension once in
\* it, whatever the CDC feed sends: late, contradictory, deleted.  (One who has may:
\* two snapshots of one customer_id are both quarantined.)
CdcCustomerStays ==
    [][\A k \in KeysOf(dim_customer_hist) :
          (\A b \in customers_raw' : b.row.customer_id # k) =>
              k \in KeysOf(dim_customer_hist')]_vars

\* When files stop landing, every path is eventually in bronze and the dimension is
\* that of all the paths, in spite of failed updates.
EventuallyPublished ==
    <>[](/\ \A p \in Paths : files[p] # Null =>
                \E b \in customers_raw \cup customer_updates_raw : b.path = p
         /\ dim_customer_hist =
                DimCustomerHist(CustomersValid(customers_raw),
                                CustomerUpdatesValid(customer_updates_raw)))

-----------------------------------------------------------------------------
(* The dimension implements a timeline: its intervals answer every as-of   *)
(* question with the latest fact in the silver tables.                     *)

CONSTANTS
    Points,     \* the sequence points at which readers ask
    Absent      \* no version covers the point

ASSUME PointsAssumption == Points \subseteq Sequence

AnswerAt(k, p) ==
    LET covering == Covering(dim_customer_hist, k, p)
    IN  IF covering = {} THEN Absent
        ELSE LET v == CHOOSE v \in covering : TRUE
             IN  IF v.is_deleted THEN Tombstone ELSE v.attributes

Timeline ==
    INSTANCE DimTimeline WITH
        facts   <- {EventState(e) :
                       e \in SparkApplied(EventStream(customers_valid, customer_updates_valid), {})},
        answers <- [q \in Keys \X Points |-> AnswerAt(q[1], q[2])]

ImplementsTimeline == Timeline!Spec
=============================================================================
