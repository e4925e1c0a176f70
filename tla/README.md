# A formal model of the retail lakehouse

This directory holds TLA+ specifications of the retail lakehouse platform in this
repository, TLC configurations that check them on small instances, and proofs, checked
by TLAPS, of theorems about them for every value of their parameters.

The platform's own argument for its correctness is "oracle first": each business rule
is a pure Python function (`transform/`, `dq/`), and the Spark code (`spark/`) is held
to it by differential tests on fixtures. What those tests do not reach is what happens
over *time*: a row that lands late, a batch delivered twice, an update that stops half
way, a view that is evaluated twice and not in the same way, a later row that changes
the verdict on an earlier one. That is what these modules are about.

Contents: [1 The system](#1-the-system) · [2 Plan](#2-plan-and-state-of-the-work) ·
[3 Modules](#3-the-modules-and-the-code) · [4 Runs](#4-what-the-runs-check) ·
[5 Disagreements](#5-where-code-and-documents-disagree) ·
[6 Bounds and fairness](#6-bounds-symmetry-deadlock-fairness) ·
[7 Proofs](#7-what-is-proved) · [8 Limits](#8-what-is-not-modelled-and-why)

To repeat a check, in this directory: `tlc -config SalesPipeline.cfg MCSalesPipeline.tla`
for a run, `tlapm SalesPipelineProofs.tla` for a proof module.

Source paths below are relative to `src/src/retail_lakehouse/` unless they start with
another directory of the repository.

---

## 1 The system

Six sources write files to landing volumes. A declarative pipeline (Lakeflow) ingests
them into *bronze* streaming tables, splits each into a valid and a quarantine half
(*silver*), builds history dimensions from the valid halves, and computes *gold* tables
from those. Bronze tables are append-only and remember which paths they have read.
Everything after bronze is a materialized view, recomputed as a whole by every update.
The orchestrator job runs the emulator (in dev), the pipeline update, an audit and the
invariant checks, one after the other; it is scheduled in prod, and the deployment
workflows run it after each deployment.

```
 landing/customers ---------> customers_raw --------> customers_valid, _quarantine --------\
 landing/customer_updates --> customer_updates_raw -> customer_updates_valid, _quarantine --> dim_customer_hist --> dim_customer
                                                                                          \-> dim_customer_held_orphans
 landing/products ----------> products_raw ---------> products_valid --> dim_product_hist --\
 landing/order_events ------> order_events_raw -----> order_events_valid -------------------> fct_sales -> sales_per_region_daily
                                                                         \                                sales_per_store_daily
 landing/customer_activity -> customer_activity_raw -> customer_activity_valid -> funnel_sessions -> funnel_conversion_daily
 landing/stores ------------> stores_raw -----------> stores_valid -----> dim_store_hist -> dim_store (region of sales_per_region_daily)
                              every raw, valid, quarantine ---> dq_reconciliation
```

### Inventory

| Component | State it keeps | Operations | What is hard | What makes it correct |
|---|---|---|---|---|
| Ordering primitives (`transform/ordering.py`) | none | sequence order, canonical form | `None` sorts below everything | a strict total order |
| CDC oracle (`transform/cdc.py`) | none; the caller keeps the known keys | `normalize` | replays, two contents for one slot, deletes of keys nobody knows, in any order | every event is applied, held, flagged or a replay; a contested slot has a winner |
| SCD2 oracle (`transform/scd2.py`) | the history, kept by the caller | `apply_scd2`, `current_rows`, `validate_history` | late events between versions, tombstones, collapsed no-change states | contiguous intervals, one current version at most, no repeated content |
| CDC and SCD2 compilers (`spark/cdc_compiler.py`, `spark/scd2_compiler.py`) | none | `normalized_stream`, `rebuild_history`, `current_rows` | window frames and tie orders instead of sorts | the oracle's verdicts |
| Differential chain (`tests/differential/test_scd2_differential.py`) | one history per implementation | apply a batch | the same, over several batches | both healthy, replays are no-ops, split of batches does not matter |
| Customer branch (`spark/declarations.py`) | bronze with its path checkpoint, silver, three dimension views | ingest, refresh, fail, restart | files landing during an update; an update that stops half way; snapshot rows that quarantine each other | a completed update is a full recompute; where a delete came, one is held or shown; published customers stay; every path is published in the end |
| DQ engine and rules (`dq/engine.py`, `dq/rules.py`) | none | `bind_ruleset`, `coerce_value`, `validate_batch` | two duplicate rules that interact; rules suppressed on delete images | each record in exactly one half, with its reasons |
| DQ compiler (`spark/dq_compiler.py`) | none | flags, windows, `split` | `monotonically_increasing_id` breaks ties anew in each evaluation; `F.trim` and `try_cast` against Python's `strip` and parsing | the engine's verdicts |
| Silver split, reconciliation (`spark/declarations.py`) | raw, valid, quarantine, `dq_reconciliation` | three independent refreshes | the halves are evaluated apart, the clock moves between | raw = valid + quarantine, always |
| Revenue and FX (`transform/revenue.py`, `transform/fx.py`) | none | `resolve_order_lifecycle`, `FxRates.convert`, `compute_line_revenue` | several payments, late cancellations, currencies without a rate yet | an order counted once, at its last payment, unless cancelled |
| Sales branch (`spark/gold_compiler.py`, `spark/declarations.py`) | `fct_sales`, two daily tables | refresh | as-of join at interval ends, late product rows, null groups | revenue neither multiplied nor lost by a join |
| Funnel (`transform/funnel.py`) | none | `attribute_conversions` | order of cart events, window from the *last* cart add | the contract in its docstring |
| Funnel branch (`spark/gold_compiler.py`) | `funnel_conversion_daily` | cogroup by customer | sessions under two customers, anonymous sessions | grouping changes no verdict; every session counted once |
| Store dimension (`spark/declarations.py`) | `dim_store_hist`, `dim_store` | refresh | a row with an old `update_date` lands last; the region of past sales is the current one | a sale is counted in the region its store has by the latest `update_date` |
| Daily aggregates, oracle (`transform/aggregates.py`) | none | `aggregate_sum`, `sales_by_dimension_daily`, `make_segment_aggregate` | null groups | conservation |
| Run audit, invariants (`audit/`, `entrypoints/post_run_audit.py`, `entrypoints/run_invariants.py`) | `pipeline_runs`, `dq_results`, append only | count and append, check | counts and reasons are taken at different moments and appended apart; the sha is the job's, the tables are the pipeline's | both appends are of one update; the sha is that of the code that computed what is counted |
| Orchestrator (`src/resources/job.orchestrator.yml`) | task states | run tasks in order | conditional emulator, `run_if`, failures | every green run is updated, audited and checked; what is delivered is audited in the end |
| Source emulator (`scenarios/`, `entrypoints/source_emulator.py`) | landing files | parse, generate, write file by file | emulations that fail half way, replays, parts for emitters, one file name per clock | bronze has each scenario whole, once |
| Ingest helpers (`ingest/`) | none | lateness, fingerprints, CDC preparation, file names | boundaries | inclusive windows |
| Configuration (`config/`) | none | load, validate, resolve, guard | environment mix-up | nothing is written for another environment's catalog |
| Deployment workflows (`.github/workflows/`) | what is deployed, per resource | deploy, ops run, roll back | resources switch one by one, deployments fail half way, scheduled runs come in between | a green workflow is deployed everywhere and has computed the tables |

`PROJECT.json` lists the same components with the modules that model them, and, under
"hazards", each thing that can go wrong at its line with the properties that watch it.

### Interactions

Components interact through tables only: a dataset reads what the datasets before it
have materialized, *at the time it is refreshed*. This is the one kind of shared state
of the system and the source of its hard behaviours:

- **Files land whenever they like**, under names that may have been used before, and
  their names, not their arrival, give rows their place in `_ingestion_order`.
- **An update is not a transaction.** Each dataset is refreshed atomically; the update
  is a sequence of refreshes that can stop after any of them. The next update starts
  over, and must leave no trace of the half finished one.
- **A view can be evaluated more than once.** `<source>_valid` and `<source>_quarantine`
  each run all the rules over all of bronze. What the two evaluations share is the
  rules, the rows and the clock reading `as_of`; the row ids that decide which of two
  copies survives are each evaluation's own.
- **Verdicts depend on all of bronze.** A row is a key duplicate because of another row,
  which may land a week later: silver is not append-only, and what gold has published
  may be withdrawn.
- **Two implementations of one rule** must agree wherever a tie is broken.
- **A deployment is not a transaction either.** The pipeline, the orchestrator and the
  emulator job are switched one after the other, and each keeps its own parameters, the
  sha among them. A run uses the parameters of its job and counts tables that the
  pipeline wrote with its own.
- **The audit reads twice.** It counts and appends, then reads the quarantine tables
  again and appends its reasons; an update in between would make them tell of two states.

---

## 2 Plan and state of the work

The order is by importance: the history dimensions are the core of the platform and
everything in gold joins with them; then the silver boundary, which all data passes;
then revenue; then the funnel; then operations, which put all of it to use.

| Step | Modules | State |
|---|---|---|
| 1 Dimension core | `Ordering`, `CdcNormalize`, `Scd2`, `CdcCompiler`, `Scd2Compiler`, composed by `DimensionChain` | done, checked, proved |
| 2 Customer branch | `CustomerPipeline` over step 1; abstract specification `DimTimeline` | done, checked, proved with the refinement |
| 3 Silver boundary | `DqEngine`, `DqCompiler`, composed by `SilverSplit` | done, checked, proved |
| 4 Revenue | `Revenue`, `GoldCompiler`, composed with step 1 by `SalesPipeline` | done, checked, proved |
| 5 Funnel | `Funnel`, composed with `GoldCompiler`'s part of it by `FunnelPipeline` | done, checked, proved |
| 6 Operations | `Scenarios`, composed with workflows, jobs, updates and audit by `Orchestrator` | done, checked, proved |
| 7 Boundaries | lateness in `SilverSplit`, stores in `SalesPipeline` | done, checked, proved |
| 8 More abstract specifications | revenue as a function of the facts in silver (no versions, no join); the silver split as one atomic partition | possible next |
| 9 More proofs | step 8's specifications as refinements. Of what the runs check, only the two liveness properties are without a proof | possible next |

---

## 3 The modules and the code

One operator of a module is one function or dataset of the code, under the code's name
(`apply_scd2` is `ApplyScd2`, `dim_customer_hist` is `DimCustomerHist` or the variable
`dim_customer_hist`). `PROJECT.json` "map" gives the lines for each.

Operators named `X_Something` and commented *Fault:* are not part of any specification.
Each is a plausible bug in `X`, kept to show that the properties notice it: with the
fault in place of `X`, a run of section 4 fails. They are listed under "mutants".

### Algorithms (no variables)

| Module | Code | Correspondence |
|---|---|---|
| `Ordering` | `transform/ordering.py` | `SeqLt` is the comparison of `sequence_sort_key` tuples, `None` lowest. Values are integers: only their order is seen. |
| `CdcNormalize` | `transform/cdc.py` | `Normalize(batch, known)`: `Distinct` drops replays, `Resolved` keeps the winner of each slot, `IsOrphan` holds deletes with nothing before them. The canonical JSON of a payload is the payload's rank, deletes have the rank of `{}`. |
| `Scd2` | `transform/scd2.py` | `ApplyScd2` = states of the history, merged with the events' states by slot, collapsed, materialized. `ValidateHistory` is the code's own validator. |
| `CdcCompiler`, `Scd2Compiler` | `spark/cdc_compiler.py`, `spark/scd2_compiler.py` | Windows as sets: `row_number() = 1` is "no row of the partition is before me". `SparkRank` is the order of `to_json` strings: any order at all, as nothing relates it to the oracle's. |
| `DqEngine` | `dq/engine.py`, `dq/rules.py`, `dq/reason.py` | A rule set is a record of columns, casts (partial functions on texts), identity, rules with severities. `Strip` is what `str.strip` leaves of a text. Reasons are sets. |
| `DqCompiler` | `spark/dq_compiler.py` | Flags and two windows, over any assignment `ord` of row ids. What it makes of a text is its own: `Trim` (`F.trim`: spaces only), `try_casts`, `rlike`. `ReadAlike` says that the two languages agree on a cell. |
| `Revenue` | `transform/revenue.py`, `transform/fx.py` | `RevenueLines(events)` is `compute_line_revenue` of `resolve_order_lifecycle`; `Convert` is `FxRates.convert`, in cents and with its one rounding. |
| `GoldCompiler` | `spark/gold_compiler.py` | The as-of join, region and store joins, daily aggregation with the bucket for nulls. |
| `Funnel` | `transform/funnel.py`, `spark/gold_compiler.py` | `AttributeConversions`, as the oracle runs over everything, and `FunnelSessions`, as the cogroup runs it customer by customer. `InSequence` are a session's events sorted, the walk over them is a fold, `Progress` its body. |
| `Scenarios` | `scenarios/parser.py`, `scenarios/generator.py`, `scenarios/writer.py` | `Parses` is what the parser accepts. `FaultedRows` (`ApplyFaults` over the spec's list) applies the faults in order, `Null` if a handler fails; a row is its clock, its number, its faults and whether its price has been converted. `Part` cuts a batch for the emitters, `FileName` holds the clock and the place, `ReplayTarget` follows `replay_of`, and `Generated` are the files of every scenario for which all of this comes to an end. |

### State machines

**`DimensionChain`.** The documented use of `normalize` and `apply_scd2`: one dimension
brought up to date batch by batch, by both implementations side by side. Variables are
the two histories; the others (`delivered`, `ordered`, `last`) only remember the feed for
the properties. One action, `ApplyBatch`, with any list of events as the batch.

**`CustomerPipeline`.** `declarations.py` for customers, dataset by dataset. `Land`
writes a file, over an older one if the name is used again. `StartUpdate` makes all
datasets `pending`; each refresh requires what it reads (`Reads`) to be refreshed, which
is the order the graph imposes and no more, so independent datasets are refreshed in any
order and files land in between. `FailUpdate` stops the update and leaves what was
refreshed. Bronze stores paths with rows because Auto Loader's checkpoint is per path.
Silver is here the valid half only, with the two blocking rule sets that customers have.
A delete row has attributes too: its `source_system`, at least, is part of the payload, so
that two deletes of one slot can differ.

**`DimTimeline`.** What a reader of a dimension is promised, with no versions and no
intervals: facts, revised at will, and a published answer to each as-of question.
`CustomerPipeline` implements it: its facts are the applied events of the silver tables,
its answers are read from the intervals of `dim_customer_hist`.

**`SilverSplit`.** One source from bronze to reconciliation. `Ingest` appends rows,
`Tick` moves the clock, `StartUpdate` reads it into `as_of`, `RefreshValid` and
`RefreshQuarantine` evaluate the split *each with row ids of its own choice*,
`RefreshReconciliation` counts, `FailUpdate` stops. `source` is chosen once, as sources
share nothing. The valid half of a fact source carries `_lateness` as the view
computes it; the property compares it with what `ingest/batches.py` classifies.

**`SalesPipeline`.** Order events, products and stores to `fct_sales` and the daily
tables, the region being that of `dim_store`. The
refreshes of one update are one step here, `Update(last)`, which ends after layer `last`:
the interleavings inside an update are the subject of `CustomerPipeline`, and no dataset
of this branch is evaluated twice. Rows land with any free place in the ingestion order.

**`FunnelPipeline`.** Activity and order events to funnel sessions and daily counts; only
completed updates.

**`Orchestrator`.** One environment, dev or prod, as it is operated.
- *Workflows.* `StartWorkflow` begins a release (`deploy`, `run`) or an ops run (`deploy`,
  `emulate`, `update`, `run`; dev only) of some version. `Deploy(resource)` switches one
  of the three resources, `FailDeploy` leaves the rest. The later steps wait for the job
  or update that they started, and a failed step ends the workflow. A rollback is a
  release of an earlier version.
- *Emulator.* `StartEmulation` takes the files of a scenario, `WriteFile` writes one,
  over a file of that path if there is one; `FailEmulation` leaves what was written.
  `Deliver` is prod's producers.
- *Update.* `StartUpdate` (which empties bronze on a full refresh), `Ingest` (paths not
  read before), `FinishUpdate` (all of bronze split anew), `FailUpdate`. Updates inside
  are the subject of the other modules; of a row only the half it falls into is seen.
- *Run.* `StartRun` by schedule in prod or by a workflow; then each task when the tasks
  it depends on have ended, or `Exclude` if its condition (`RunIf`) says no. The audit is
  two steps, `AppendRuns` and `AppendReasons`, which read the tables apart; `FailAudit`
  may come before, between and after. `CheckInvariants` fails the run where the counts
  are not conserved. Entry points begin with `Resolves`, the guard of `config/params.py`.

The jobs platform itself is external: a job and the pipeline run one at a time, and a
run keeps the version that was deployed when it started (`version`). The row of
`pipeline_runs` also holds two values that the properties need and the table has not:
which version computed what was counted, and whether the run was undisturbed (`steady`).

`MC*` modules define the values for TLC and nothing else.

---

## 4 What the runs check

Twelve runs. Six must pass; each of the other six checks one sentence of a document or
docstring that the code does not keep (section 5).

### `chain` — `DimensionChain.cfg`
Any feed of three events over two keys in any batches: late, replayed, contradicting.

- `HistoryHealthy`: both histories pass `validate_history` after every batch.
- `NoRedundantVersions`: neighbours differ in content, also where a late event has just
  been put between two versions or has replaced one.
- `StreamConserved`: normalization neither loses nor doubles an event, and no contested
  slot falls silent: every flagged loser has a winner.
- `InOrderFeedIsSplitInvariant`: a feed in order and without contradiction gives the
  same history however it is cut into batches. (For a late feed it does not: section 5.)
- `UncontestedReplayIsNoOp`, `UncontestedVerdictsAgree`: where no slot has two contents,
  delivering a batch again changes nothing, and both implementations agree, whatever the
  order of JSON strings. Both fail with contested slots; for the second see section 5.

### `pipeline` — `CustomerPipeline.cfg`
Snapshot and CDC files land, are rewritten, and updates fail.

- `CompletedIsRecomputed`: what a completed update leaves is what recomputing everything
  from bronze gives; nothing of a failed update remains.
- `DeletesAccountedFor`: at each point at which a valid delete came, an upsert holds the
  slot, or *a* delete of the slot is held, or the dimension shows the customer as
  deleted; never two of these, though the two datasets normalize the stream each for
  itself. Of two different deletes of one slot only one is held (section 5).
- `CdcCustomerStays`: a customer never seen in a snapshot does not leave the dimension.
  (One known from snapshots only does: section 5.)
- `ImplementsTimeline`: refinement of `DimTimeline`. Every as-of question is answered
  with the latest fact, and answers change only by publication.
- `EventuallyPublished`: in spite of a failed update and of rewritten files every path
  reaches bronze and then the dimension.

### `silver_split` — `SilverSplit.cfg`
Two sources: one that blocks duplicates (`order_events`), one that observes them and has
key-only deletes (`customer_updates`).

- `Conserved`: the reconciliation never reports a loss, though its three inputs are
  evaluated apart.
- `EachRowOnce`: rows without copies are in exactly one half. For a row with copies the
  evaluations may choose different survivors, so the *lineage* of one copy may be in both
  halves and that of another in neither; the counts still agree.
- `IdentityIsKey`: valid rows of a blocking source have distinct identities, provided no
  two landed strings cast to one identity value (`OneSpelling`; section 8).
- `DeletesReachSilver`: a delete whose identity and op are in order, and read alike by
  both languages, is never quarantined for what the rest of its row lacks or holds of the rules a delete is excused from.
- `VerdictsAgreeWhereReadAlike`: as long as the two languages read every landed cell
  alike, typed rows, reasons and the lateness label are those of the oracle, as
  multisets. Windows, row ids, suppression, null rules and the clock make no difference.
  The label compares an instant with a cutoff in one implementation and a difference with
  the window in the other; an event on the edge is in time in both. The records include
  cells that are *not* read alike, a tab alone, a padded op and a year alone: without the
  premise the property fails (section 5).
- `StaysQuarantined`: what is quarantined for another reason than lying in the future
  stays quarantined for it, whatever lands later.

### `sales` — `SalesPipeline.cfg`
- `OneRowPerOrder`: the as-of join never multiplies an order.
- `OrdersAccountedFor`: an order is in `fct_sales` *iff* nothing cancels it and its last
  payment has a price in a currency with a rate by then.
- `DatedProductAsOfSale`: the product shown is the last row effective on or before the
  day of the sale, however late it landed.
- `TotalsReported`: both daily tables add up to `fct_sales` group by group, in money and
  rows, null regions and stores included, and each sale is in the region that its store
  has by the latest `update_date`, though an older row may land last.
- `UncontestedCancelledStaysOut`: a cancelled order does not come back, unless another
  event takes the `event_id` of its cancellation (section 5).

### `funnel` — `FunnelPipeline.cfg`
- `SessionsAsDocumented`: stage, regression and conversion are what `funnel.py`'s
  contract says of the session's *set* of events, with any PAID order of the customer for
  the revenue-eligible one that the contract asks for (section 5).
- `WholeSessionsAgree`: for sessions under one customer (or none) the cogroup gives the
  verdict of the oracle run over everything, in one row.
- `DailyCountsSessions`: every row of the sessions is counted, once. A session whose
  activity is under two customers has two rows; this property counts both, and
  `WholeSessionsAgree` does not speak of it.
- `StageNeverFalls`: stages short of conversion are permanent; the fall that is allowed,
  from converted to cart, is the next property's.
- `ConversionLostToCartAdd`: a conversion is not permanent: a cart add after all those
  known moves the window, and is the only thing that takes one back (section 5). It
  happens in this run: a payment at 1 converts an add at 1, and the add at 4 ends that.

### `orchestrator` — `Orchestrator.cfg`
Releases, rollbacks, ops runs and scheduled runs; jobs, updates, audits and deployments
may fail; scenarios with faults, for two emitters, replayed, absent, refused or broken.

- `EmulatedWhole`: where the emulator is enabled, when bronze has read all paths of a
  scenario, the rows of its files, in the files' order, are exactly those generated.
  Cutting a batch for emitters loses nothing, and neither a replay nor an emulation that
  failed half way and was repeated, nor another scenario, adds or removes a row.
  Elsewhere no emulation runs and nothing emulated lands.
- `AuditsAgree`: the two appends of an audit and its counts are of one completed update.
  What may come between is an update that fails after its ingestion, and in dev an update
  that the workflow starts itself, before its run. (A workflow's update and a scheduled
  run never meet: the one is in dev, the other in prod.)
- `UndisturbedAuditTraces`: the sha of an audit row is that of the code that computed
  what it counts, for runs during which nothing is deployed (section 5 for the others).
- `GreenMeansDeployed`: a workflow that has succeeded left its version everywhere and
  its version has computed the tables, also after failed deployments, and for rollbacks.
- `MisTargetedWritesNothing`: a version with the other environment's catalog runs no
  emulation, no update and no audit.
- `EventuallyAudited`: in prod, everything delivered is again and again counted by an
  audit row, if what is deployed is on target in the end.

Each passing run also checks the type invariant of its module; that of `Orchestrator`
says too that a task is running exactly as long as its job or update is.

---

## 5 Where code and documents disagree

Each is a run that TLC must find violated; the traces are short and worth reading.

| Run | What the documents say | What the code does |
|---|---|---|
| `newest_upsert` | late corrections are "handled by construction" (`scd2.py:12`) | A@1, then A@2 (no change, collapsed, forgotten), then late B@1.5: B becomes the last version and is current, though the newest event said A. Only incremental use of the library is affected; the pipeline rebuilds from all events, and `ImplementsTimeline` holds. |
| `orphan_dropped` | orphan deletes are "never dropped" (`docs/adr/0006`), "losers kept" (`spark/cdc_compiler.py:86`) | Two deletes of one slot that differ, in `source_system` for example: one is held, the other goes to `conflicts`, which no dataset materializes. |
| `verdicts` | compiler "verdict-equal to transform.scd2" | A delete in the slot of a *stored* upsert: the oracle compares `{}`, which is above every payload, the compiler `__tombstone__`, which is below every JSON object. One deletes the key, the other does not. |
| `cancelled_stays_out` | cancellation is terminal (`docs/adr/0005`) | An event landing later with the `event_id` of the cancellation quarantines both; silver has no cancellation left and the order is revenue again. |
| `cancelled_conversion` | a session converts for "a PAID revenue-eligible order" (`funnel.py:10`) | `funnel_conversion_daily` passes every PAID event, also of cancelled orders. |
| `audit_traces` | "any number in ops traces to a commit" (`audit/run_audit.py:4`) | The sha is a parameter of the orchestrator job and the tables are the pipeline's. A deployment switches one after the other and may stop between: a scheduled run in prod then records the tables of one version under the sha of another. |

Seen while modelling, and not runs:

- *A snapshot customer leaves the dimension.* "Dimensions remain correct via CDC
  unification" (`docs/architecture.md:205`), but a second, different snapshot row of a
  customer makes both key duplicates over all of bronze; both are quarantined, and a
  customer without CDC rows is gone. `CdcCustomerStays` holds of the others.
- *One rule, two readings of a text.* "Verdicts must equal dq.engine (oracle)"
  (`spark/dq_compiler.py:1`), but the engine strips all whitespace and the compiler's
  `F.trim` only spaces: op `"U\t"` is valid to the one and quarantined by the other. The
  casts differ as well: `try_cast` makes a timestamp of a year alone, `coerce_value` does not.
- *A conversion is taken back.* "reaching a stage is permanent for the session"
  (`transform/funnel.py:4`); conversion is judged from the *last* cart add, so a later one
  can undo it. `ConversionLostToCartAdd` describes when.
- *An undated product hides a dated one.* A valid row without `effective_date` is the
  first version; a dated row of equal content collapses into it, and
  `sale_date >= NULL` matches nothing. `DatedProductAsOfSale` excludes undated rows.
- *The invariant checks check less than they say.* The docstring of the invariants
  promises conservation of `fct_sales` against silver, `docs/architecture.md:138`
  contiguous intervals; `run_all` checks the counts of the split and that no key has two
  current versions.
- *Gates without effect.* The expectation on the rescue rate is compiled and registered
  nowhere; `variants` of a scenario are validated and never generated.
- *Parameters.* A deployment from a developer's machine has the `git_sha` "local". The
  guard checks the catalog and not the emulator's `base_path`.
- *Scenarios that parse and never finish.* Replays that name each other are accepted one
  by one and then followed for ever; a batch too short for its fault fails in the
  handler. In the model neither is in `Generating`.

---

## 6 Bounds, symmetry, deadlock, fairness

Bounds are constants in guards or in the sets that inputs come from, and named `Max…`.

| Run | Instance | Why it is enough to be interesting |
|---|---|---|
| `chain`, `newest_upsert`, `verdicts` | 3 events, 2 keys, 4 sequences (a snapshot without tiebreak, a CDC event at its timestamp, two later ones), 2 payloads whose JSON order is the reverse of the oracle's | three events make late-between-two, replay of a collapsed state, delete before upsert and slot conflicts across batches; two keys show independence |
| `pipeline`, `orphan_dropped` | 1 customer, 2 + 2 paths, 2 times, 2 contents of rows of which one is refused, 2 of deletes, 3 landings, 1 failure | two snapshots that contradict each other with one CDC row, a late or rewritten file around a failed update, an upsert or nothing between two different deletes of one slot |
| `silver_split` | 3 rows, 2 arrivals per update, clock 1..2, 1 failure, 7 + 9 records, three padded with spaces, two with a tab, one with a year for a timestamp | three rows are two copies and a rival of one identity; each rule is violated by a record; one instant lies in the future of the first clock and not of the second; with a window of 1 the other is on its edge at 1 and beyond it at 2 |
| `sales`, `cancelled_stays_out` | 3 landings out of 9 order events, 5 product and 4 store rows, any places; 1 currency with a rate from day 2 | payment, second payment and cancellation; product rows that enclose a sale and a sale on their edges; or a sale and two rows of its store, undated, older or in contradiction |
| `funnel` | 4 landings, 2 sessions, 1 customer and none, day of 2 ticks | two cart adds with a removal between, and an order; orders at both ends of the window of one add and just outside both ends of another's; an add after orders, which moves the window |
| `cancelled_conversion` | 3 landings | a cart add, the payment and the cancellation |
| `orchestrator`, `audit_traces` | 2 sources, one with 2 emitters; 8 scenarios; 3 versions, one off target; 2 workflows, 2 deliveries, 2 failures (1 for `audit_traces`) | a release and its rollback, or two ops runs of which one replays the other, a failed deployment with a scheduled run over it and a repetition; batches that two emitters cannot share evenly |

`Times`, days and ticks are integers with ties. The boundaries that the modelled comparisons
draw are met: interval ends and days of versions by sales on them, the lateness window by
an event on its edge, the attribution window by orders at and just beyond either end.

**Symmetry** is declared for keys in `chain`, which nothing orders, and nowhere else.

**Deadlock** is checked wherever the system never stops: the pipelines can always start
an update. The `DimensionChain` configurations turn it off, as a feed may end, and so do
those of `Orchestrator`: in dev nothing runs unless somebody starts a workflow.

**Fairness.** `FairSpec` of `CustomerPipeline`: weak fairness of `StartUpdate`, since the
job is scheduled by cron (`src/resources/job.orchestrator.yml`), and of the refresh of
some dataset that is due, since an update that has not failed goes on. `FairSpec` of `Orchestrator`: weak fairness of
`StartRun("schedule")` for the same reason, and of `RunStep`, `EmulatorStep` and
`UpdateStep`, since what has been started goes on unless it fails. Nothing is assumed of
landings, deliveries and workflows (a deployment may stand still half done for ever),
and failures are transient: there are at most `MaxFailures` of them. With an unbounded
number of failures nothing would ever have to be published, in the model as in production.
`EventuallyAudited` asks besides that what is deployed resolves in the end, as the guard
rightly stops every update of a version that does not.

---

## 7 What is proved

TLC checks the instances above. The following hold for all keys, payloads, rows, rates,
rule sets, versions, scenarios and bounds. They cover every safety invariant, every
action property and the refinement that a run checks, and the lemmas worth knowing.

| Theorems | Module | Statement |
|---|---|---|
| `TypeCorrect`, `HistoriesHealthy`, `VersionsDiffer`, `StreamsConserved` | `DimensionChainProofs` | `Spec => []` of `TypeOK`, `HistoryHealthy`, `NoRedundantVersions`, `StreamConserved` |
| `SplitInvariance`, `ReplaysAreNoOps`, `VerdictsEqual` | `DimensionChainProofs` | `Spec => []` of `InOrderFeedIsSplitInvariant`, `UncontestedReplayIsNoOp`, `UncontestedVerdictsAgree` |
| `NormalizeConserves` | `Scd2Proofs` | `normalize` conserves any batch against any known keys; every loser has a winner |
| `MaterializeHealthy`, `ApplyScd2WellFormed`, `RebuildHistoryWellFormed` | `Scd2Proofs` | states with one per slot materialize to a healthy history; `apply_scd2` and `rebuild_history` keep histories well formed |
| `TypeCorrect`, `UpdateRecomputes`, `DeletesNotLost`, `FeedCustomersStay` | `CustomerPipelineProofs` | `Spec => []` of `TypeOK`, `CompletedIsRecomputed`, `DeletesAccountedFor`; `Spec => CdcCustomerStays` |
| `AnswerIsAsOf`, `PipelineImplementsTimeline` | `CustomerPipelineProofs` | a collapsed history answers as-of questions with the latest fact; `Spec => ImplementsTimeline` |
| `SplitConserves`, `ReconciliationConserved`, `RowsInOneHalf` | `SilverSplitProofs` | two evaluations with different row ids count together what the batch has; `Spec => []` of `Conserved`, `EachRowOnce` |
| `TypeCorrect`, `DeletesPass`, `IdentityClaimedOnce`, `VerdictsAgree`, `QuarantineLasts` | `SilverSplitProofs` | `Spec => []` of `TypeOK`, `DeletesReachSilver`, `IdentityIsKey`, `VerdictsAgreeWhereReadAlike`; `Spec => StaysQuarantined` |
| `AtMostOneMatch`, `TablesReport` | `SalesPipelineProofs` | the as-of join finds at most one version; daily aggregation reports each group's sum and count |
| `TypeCorrect`, `NoOrderTwice`, `OrdersCounted`, `ProductsAsOfSale`, `TotalsConserved`, `CancelledStayOut` | `SalesPipelineProofs` | `Spec => []` of `TypeOK`, `OneRowPerOrder`, `OrdersAccountedFor`, `DatedProductAsOfSale`, `TotalsReported`; `Spec => UncontestedCancelledStaysOut` |
| `SessionTold` | `FunnelPipelineProofs` | the walk over a session's events ends in what the *set* of the events determines |
| `TypeCorrect`, `AsContracted`, `WholeSessionsAsOracle`, `SessionsCountedDaily`, `StagesNeverFall`, `ConversionsLast` | `FunnelPipelineProofs` | `Spec => []` of `TypeOK`, `SessionsAsDocumented`, `WholeSessionsAgree`, `DailyCountsSessions`; `Spec => StageNeverFalls`, `Spec => ConversionLostToCartAdd` |
| `TypeCorrect`, `GuardHolds`, `AuditRowsTrace`, `SuccessMeansDeployed`, `AuditsOfOneUpdate`, `ScenariosWhole` | `OrchestratorProofs` | `Spec => []` of `TypeOK`, `MisTargetedWritesNothing`, `UndisturbedAuditTraces`, `GreenMeansDeployed`, `AuditsAgree`, `EmulatedWhole` |

`BasicProofs` holds what the others need: the sequence order is a strict total order, and
a finite set has a least and a greatest element in it. Data of any size is dealt with by
induction over the subsets of a finite set, or over numbers up to a bound, stated with a
*set* as the parameter (`SubsetInduction`, `InductionUpTo`), so that it can be cited: a
finite set can be listed in any total order (`ListExists`), a sum over a set is the sum
of the sums of its parts (`SumParts`), and a fold over finitely many places exists and
stays where its step stays (`FoldsExist`, `FoldsStay`).

**Dimensions.** `HistoryHealthy` alone is not inductive: the next batch is merged with
the states *read back* from the history, and an unhealthy merge could start from a
history that is healthy but has two versions in one slot or is infinite. The invariant
`IInv` therefore keeps `WellFormed` of both histories: typed, finite, one version per
slot, healthy, and with content changes between neighbours. The argument for a batch:
resolution leaves one event per slot (`ResolvedOnePerSlot`, `SparkResolvedOnePerSlot`);
merging with stored states leaves one state per slot (`MergeOnePerSlot`,
`SlotWinnersOnePerSlot`); collapsing keeps a state only if its predecessor differs, and
then the predecessor among those kept differs as well (`CollapseNoRepeats`); in a finite
set with one state per slot each state has a unique successor, which is `valid_to`
(`ValidToIsSuccessor`), and so intervals are contiguous (`MaterializeHealthy`).
The three properties of uncontested feeds need to know where versions come from: every
version of the oracle was said by a delivered event (`Sourced`). Then an event of an
uncontested feed finds in its slot what it says itself or nothing (`BatchSays`), so that
merging is union (`UncontestedBatch`); what was collapsed away is collapsed again when it
is replayed (`ReplayChangesNothing`); the compilers, which differ from the oracle in ties
alone, follow it (`CompilersFollow`); and a batch in order meets the collapsed states as
it would meet all events before it, since both say the same at their end (`SplitsAgree`).

**Customers.** These properties are not inductive, because an update refreshes one
dataset at a time and may stop after any. `IInv` of `CustomerPipelineProofs` adds to
`TypeOK`: only finitely many rows have landed (`Finite`); in an update
that runs or has completed, what is no longer pending was computed from its inputs, and
these are not pending either (`UpToDate`), which at the end is a full recompute; silver
is no more than what bronze has, and whoever is in the history but in no snapshot has an
upsert in silver (`Feed`). An update that starts empties nothing, so `UpToDate` says
nothing after a failure and `Feed` carries what must survive one. A delete that wins its
slot is applied exactly when some upsert of its key is earlier (`AppliedOrHeld`), and then
it shows (`WinnerHeldOrShown`). In a slot an upsert wins, so that one upsert in silver
keeps its customer in the history (`UpsertShows`); in a slot of deletes one of them does
(`SparkSlotHasAWinner`), which accounts for all of them (`DeleteAccountedFor`). That each
of them be held is false: that is `orphan_dropped`.
The refinement: the history is materialized from the collapsed facts (`HistoryOfFacts`),
which are one per slot; at any point with a known fact exactly one version covers the
point (`LatestCovers`), and the last state kept at or before it has the content of the
latest fact, since whatever was collapsed in between says the same (`LastKeptSays`).
Hence `AnswerIsAsOf`; a refresh of the history is `Publish`, any other step `Revise` or a
stutter (`StepMaps`).

**Silver.** `Conserved` is about a row that was counted once; what makes it inductive is
that *until the reconciliation has been made, each half refreshed in this update is the
split of the present raw table at the present `as_of` under some row ids*. Two splits of
one batch under different row ids reject equally many rows: whether a record is a key
duplicate does not depend on the ids (`KeyDuplicateOfRecords`), and of the copies of a
record exactly one survives under any ids (`OneSurvivor`), so the passing rows have the
same records, one row each, under any ids (`PassingRecords`); where duplicates are only
observed the ids play no part (`PassingUnordered`). Hence `PassingCount`.
Rows are numbered by arrival, which is kept by `AppendedBatch`. The label of lateness
neither merges rows nor renames them (`FlaggedSame`), so counts and lineage are those of
the split.
Agreement with the oracle reduces to the same fact. A cell that the two languages read
alike is the same value to both, breaks the same rules and excuses the same ones
(`CellsAgree`, `FlagsAgree`, `SuppressionAgrees`); where all of bronze is, the oracle's
tables *are* an evaluation, the one whose row ids follow the order of arrival
(`OracleIsAnEvaluation`), and from one evaluation to another the rows are renumbered
without changing records and reasons (`Renumbering`), so every record has each set of
reasons equally often (`SameChoice`).
`StaysQuarantined` compares two updates that may be far apart. Its invariant is that
every reason in the quarantine table still has its cause in bronze (`Kept`): a second
copy, a rival for the identity, a rule broken whatever the time. Bronze only grows, so
causes remain (`CausesRemain`), and the next evaluation finds a reason for each.
`IdentityIsKey` needs its hypothesis `OneSpelling`, which is part of the property.

**Sales.** `IInv` says that landed rows are finite and have each a place of their own
(`Placed`), that silver lags behind bronze and bronze behind what has landed (`Read`),
that after a completed update the dimensions and gold are what silver gives
(`Recomputed`), and `TypeOK` and `OneRowPerOrder`: the last two are part of it because an
update may stop before `fct_sales` and leave it as it was.
Silver product and store rows give one upsert per slot, so their history is materialized
from one state each (`SnapshotHistory`) and its intervals exclude each other
(`EarlierIsOver`, `AtMostOneMatch`); silver order events give one line per order; a line
joined with at most one version is one row. On the day of a sale the version met is the
one that the last row effective by then speaks for, collapsed or not (`SaleMeetsLast`).
A store has one current row, which is its last (`LastRow`, `OneStoreRow`), so the joins
with stores keep the number of sales (`RegionJoined`); grouping cuts the sales into parts
and their sums add up (`SumParts`, `TablesReport`). A cancellation that nothing contests
is valid in every later evaluation, itself or as a copy (`CancellationStays`), which is
what keeps its order out.

**Funnel.** The code sorts a session's events and walks over them. `InSequence` lists all
of them, once and in order (`ListExists`); the walk is a fold that exists for any list
(`FoldsExist`), and by induction along the list (`InductionUpTo`) each of its components
is described by the *set* of the events walked over: the furthest stage, whether a removal
follows the last cart add, and the time of that one. So `SessionTold`, and landing order
does not matter. `IInv` (`Placed`, `Read`, `Recomputed`) ties the tables to
silver. A session's verdict uses its own customer's orders only (`OwnOrdersSuffice`),
hence agreement with the oracle for sessions under one customer. A step takes no activity
and no order away and leaves each session its row (`OnlyMore`): stages are maxima of a
growing set, and a conversion can be lost only to a cart add after all those known.
Days and stages cut the sessions into parts that are counted apart (`DailyCounted`).

**Operations: who waits for whom.** The three properties of versions are not inductive:
each is about what was established steps ago by somebody else. `IInv` of
`OrchestratorProofs` adds that whoever started a job or an update *is still waiting for
it* (`Waits`), so that its end tells the right step or task; that all resources are of
the workflow's version except, while it deploys, those still to be switched (`Progress`);
that a task which waits for a success has seen one (`TasksInOrder`); that in an
undisturbed run everything deployed is of its version and so, from its update on, are the
tables (`SteadyRun`), which is what `AppendRuns` needs for the sha and the end of a green
run for its workflow; and that after a workflow nothing of another version is computed
until the next (`Succeeded`). The guard enters once, as `ResolvedOnTarget`. One lemma per
action.

**Operations: what is stored.** A second invariant, `DataInv`, rests on the first. Jobs
are jobs and tables are files of rows, one of a path (`Jobs`, `Stored`, `TasksRun`,
`Numbers`): whatever the scenario documents say, the fault handlers and the cutting for
emitters yield lists of rows (`HandlerTyped`, `FaultsTyped`, `PartTyped`). From the end
of a run's update to the end of the run no other update starts (`Settled`), because only
a workflow in dev could start one and it is waiting for the run, and in prod no workflow
updates (`InEnvironment`). So the audit's two reads see the same tables (`Audited`); that
they are conserved is a sum over files of sums over rows (`CountsAddUp`, `HalvesAddUp`).
For `EmulatedWhole`: in dev all that lands was made by the emulator (`Whose`); the file
names tell scenarios, sources and places in a batch apart (`ClocksTell`, which is where
`OwnClocks` is used, and `PathsTell`), so bronze has, of a scenario whose paths it has
read, the files generated and no others; the emitters' parts are consecutive pieces of
the batch of which the empty ones come last (`PartsCut`), put together they are the batch
(`FlattenCut`); and there is one order of files by their numbers (`RisingIsAll`,
`InOrderIs`), the one in which they were generated (`BatchRead`).

**Assumptions.** The proofs use the constants' assumptions and nothing else; each is
named in the module that declares the constants, and the runs evaluate it.

- *Values.* `Null` is no integer, sequence or dimension version, no emulation and no
  update (`NullAssumption`, `NoSequenceAssumption`, `SalesAssumption`,
  `NothingAssumption`); the tombstone is no payload (`TombstoneAssumption`); the unknown
  region is not null (`UnknownAssumption`). Stripping leaves null, the
  empty text and the code of deletes alone and is idempotent; `Trim` changes no text that
  `Strip` does not, and what it leaves of one strips to the same (`StripAssumption`,
  `TrimAssumption`). How the casts and patterns of the two languages relate is not assumed.
- *Payloads* are integers, their ranks, and `SparkRank` is injective: two payloads with
  one JSON text are one payload (`PayloadsAssumption`). Sequences are sequences, and
  readers ask at sequence points (`ChainAssumption`, `PointsAssumption`).
- *Rows* have the columns of their contract, with integer times where the column is
  never null and integer prices (`SplitAssumption`, `SalesAssumption`,
  `LandingsAssumption`); rule kinds are those of the engine, and the event time casts to
  an integer (`SplitAssumption`). Store attributes have a region (`StoresAssumption`).
- *Rates* are finitely many and one per currency and day, as `FxRates.from_records`
  enforces (`RatesAssumption`); a day has a positive length (`FunnelAssumption`).
- *Scenarios*: lists in a document are lists (`ListsAssumption`), delivered files are
  lists of rows, and two scenarios with batches have different clocks (`OwnClocks`,
  which a test enforces). The version deployed first is on target in both environments
  (`OrchestratorAssumption`).

**Model-checked only.** `EventuallyPublished` and `EventuallyAudited`: liveness under
fairness is out of the prover's reach. The six runs that must fail are refuted by TLC's
traces and need no proof.


---

## 8 What is not modelled, and why

- *pandas' view of nulls.* Revenue and funnel run in executors on pandas frames, where a
  missing quantity is `NaN` and a missing timestamp `NaT`, neither of which is `None`.
  Those columns are never null in the model; a missing `unit_price`, an object, is.
- *Identity as text.* The duplicate rule groups landed strings. `"1"` and `"01"` are two
  identities there and one customer after the cast. `IdentityIsKey` is stated, and
  proved, for rule sets without such strings (`OneSpelling`), as those checked are.
- *Contents.* Payloads, categories and attributes are ranks or small values: the code
  compares them for equality and in one order. Formatting, JSON and hashing appear as
  the order or equality they induce. `rule_metrics` counts the verdicts that are modelled.
- *Funnel details.* The id of the converting order, the count of repeated stages, and
  activity without a timestamp. The day of an anonymous session without cart add is the
  first of *all* anonymous activity; no document says what it should be.
- *The jobs platform* is external and known from the job's YAML: no task has retries there,
  so none is modelled; a run repaired by hand, which would append a second time, is not.
  A full refresh is modelled where a workflow offers it (ops runs, in dev).
- *Contents of emulated rows, rendering of files, hashing.* A row is told apart by clock,
  number and faults. Two scenarios of one clock would overwrite each other's files; a
  test of the packaged scenarios forbids that (`tests/unit/test_generator.py:36`), and the
  model assumes it (`OwnClocks`).
- *Validation of the configuration files*: parsing, one value at a time.
- *Fingerprints, CDC preparation and file-name checks* (`ingest/`) and the segment factory
  (`transform/aggregates.py`) are called by tests only.
- *The ci job, approvals and release tags* of the workflows.
- *Auto Loader, Lakeflow, Delta* are known from how the code uses them: paths read once
  with their rows, datasets refreshed atomically in the order of the graph, at most one
  update at a time.
