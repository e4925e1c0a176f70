---------------------------- MODULE Orchestrator ----------------------------
(***************************************************************************)
(* One environment of the platform in operation:                           *)
(*                                                                         *)
(*   - the workflows (.github/workflows) deploy a version resource by      *)
(*     resource and then run the orchestrator; ops-run first emulates a    *)
(*     scenario and updates the pipeline, all of it possibly refreshed     *)
(*   - the orchestrator job (resources/job.orchestrator.yml) runs the      *)
(*     emulator, where it is enabled, then a pipeline update, the audit    *)
(*     and the invariant checks; in prod also by schedule                  *)
(*   - the source emulator writes the files of a scenario, one by one      *)
(*   - an update ingests new paths into bronze and splits bronze anew      *)
(*   - the audit (audit/run_audit.py) appends to pipeline_runs and then    *)
(*     to dq_results                                                       *)
(*                                                                         *)
(* The jobs platform is external: each job and the pipeline run one at a   *)
(* time, a run keeps the settings that were deployed when it started.      *)
(***************************************************************************)
EXTENDS Scenarios

CONSTANTS
    Versions,        \* what can be deployed
    ParamsOf,        \* version, environment -> parameters, a function from their names
    FirstVersion,    \* what is deployed at first
    DefaultScenario, \* of the emulator job
    Deliveries,      \* the files that producers deliver in prod
    BlockingFaults,  \* faults whose rows the rules quarantine
    MaxWorkflows,    \* bound: workflows started
    MaxFailures      \* bound: jobs and deployments that fail

Resources == {"source_emulator", "retail_lakehouse", "orchestrator"}
Tasks == {"source_emulator", "pipeline_update", "post_run_audit", "invariant_checks"}

\* A catalog and the environment that it is of.
Matching(values) ==
    <<values.catalog, values.environment_tag>>
        \in {<<"retail_dev", "dev">>, <<"retail_prod", "prod">>}

ASSUME OrchestratorAssumption ==
    /\ FirstVersion \in Versions /\ \A v \in Versions : DOMAIN ParamsOf[v] = {"dev", "prod"}
    /\ \A environment \in {"dev", "prod"} : Matching(ParamsOf[FirstVersion][environment])
    /\ DefaultScenario \in Names
    /\ \A f \in Deliveries : f.records \in Seq(Row)
    /\ MaxWorkflows \in Nat /\ MaxFailures \in Nat

Files == Deliveries \cup UNION {Range(Generated[s]) : s \in Generating}

\* What is under way: an emulation with the files that are left to write, and an update.
Callers == {"workflow", "run"}
Emulation == [by : Callers, version : Versions, left : Seq(Files)]
Update == [by : Callers, version : Versions, stage : {"bronze", "silver"}]

ASSUME NothingAssumption == Null \notin Emulation \cup Update

VARIABLES
    target,          \* the environment: "dev" or "prod"
    deployed,        \* resource -> version
    workflow,        \* the last workflow [steps, version, left, scenario, full], or Null
    volume,          \* the files in the landing volume
    emulator,        \* the running emulation [by, version, left], or Null
    update,          \* the running update [by, version, stage], or Null
    bronze,          \* the files read into the bronze tables
    silver,          \* [version, valid, quarantine]: row counts by source
    run,             \* the last run of the orchestrator
    pipeline_runs,   \* the rows that the last run has appended; earlier ones
    dq_results,      \* are never touched again
    workflows,
    failures

tables == <<bronze, silver>>
ops == <<pipeline_runs, dq_results>>
counters == <<workflows, failures>>
vars == <<target, deployed, workflow, volume, emulator, update, tables, run, ops, counters>>

-----------------------------------------------------------------------------
(* Parameters (config/params.py, config/contracts.py).                     *)

RequiredParams == {"catalog", "environment_tag", "git_sha", "lateness_window_days"}

\* What the bundle passes to the jobs and the pipeline of this environment.
Params(version) == ParamsOf[version][target]

CatalogByEnvironment == [dev |-> "retail_dev", prod |-> "retail_prod"]

\* Fault: the R1 guard is not called.
Resolves_NoGuard(version) ==
    LET values == Params(version)
    IN  RequiredParams \subseteq DOMAIN values /\ values.lateness_window_days > 0

\* resolve: the parameters are there and make sense, and the catalog is that of the
\* environment (the R1 guard).
Resolves(version) ==
    LET values == Params(version)
    IN  /\ RequiredParams \subseteq DOMAIN values
        /\ values.lateness_window_days > 0
        /\ values.environment_tag \in DOMAIN CatalogByEnvironment
        /\ values.catalog = CatalogByEnvironment[values.environment_tag]

-----------------------------------------------------------------------------
(* Counting rows.                                                          *)

\* The half of silver that a row falls into.
Half(row) == IF row.faults \cap BlockingFaults = {} THEN "valid" ELSE "quarantine"
Halves == {"valid", "quarantine"}

RowsOf(files, source, halves) ==
    MapThenSumSet(LAMBDA f : Cardinality({i \in DOMAIN f.records : Half(f.records[i]) \in halves}),
                  {f \in files : f.path.file.source = source})

CountAll(files, half) == [s \in DeclaredSources |-> RowsOf(files, s, {half})]

\* collect_source_counts: bronze against silver, source by source.
SourceCounts ==
    [s \in DeclaredSources |->
        [bronze     |-> RowsOf(bronze, s, Halves),
         valid      |-> silver.valid[s],
         quarantine |-> silver.quarantine[s]]]

AllConserved(counts) ==
    \A s \in DeclaredSources : counts[s].bronze = counts[s].valid + counts[s].quarantine

-----------------------------------------------------------------------------
Idle == [t \in Tasks |-> "pending"]

Init ==
    /\ target \in {"dev", "prod"}
    /\ deployed = [r \in Resources |-> FirstVersion]
    /\ workflow = Null
    /\ volume = {} /\ bronze = {}
    /\ emulator = Null /\ update = Null
    /\ silver = [version |-> FirstVersion, valid |-> CountAll({}, "valid"),
                 quarantine |-> CountAll({}, "quarantine")]
    /\ run = [state |-> "none", by |-> Null, version |-> FirstVersion, tasks |-> Idle,
              steady |-> FALSE]
    /\ pipeline_runs = {} /\ dq_results = {}
    /\ workflows = 0 /\ failures = 0

Fail == failures < MaxFailures /\ failures' = failures + 1 /\ UNCHANGED workflows

\* In prod, files come from producers, under names of their own.
Deliver(file) ==
    /\ target = "prod"
    /\ \A f \in volume : f.path # file.path
    /\ volume' = volume \cup {file}
    /\ UNCHANGED <<target, deployed, workflow, emulator, update, tables, run, ops, counters>>

-----------------------------------------------------------------------------
(* Workflows.                                                              *)

\* The steps of deploy-dev and deploy-prod, and those of ops-run.
Release == <<"deploy", "run">>
OpsRun == <<"deploy", "emulate", "update", "run">>

At(step) == workflow # Null /\ workflow.steps # <<>> /\ Head(workflow.steps) = step

\* One workflow of an environment at a time (concurrency group).
MayStartWorkflow == workflow # Null => workflow.steps = <<>>

StartWorkflow(version, steps, scenario, full) ==
    /\ MayStartWorkflow
    /\ workflows < MaxWorkflows
    /\ steps = OpsRun => target = "dev"
    /\ workflow' = [steps |-> steps, version |-> version, left |-> Resources,
                    scenario |-> scenario, full |-> full]
    /\ workflows' = workflows + 1
    /\ UNCHANGED <<target, deployed, volume, emulator, update, tables, run, ops, failures>>

\* Fault: a failed step does not end the workflow.
AfterStep_GoesOn(ok) == [workflow EXCEPT !.steps = Tail(@)]

\* What a step that has ended leaves of the workflow: a failed step ends it.
AfterStep(ok) == IF ok THEN [workflow EXCEPT !.steps = Tail(@)] ELSE Null

\* "bundle deploy" switches one resource; a run that is under way is not steady.
Deploy(resource) ==
    /\ At("deploy")
    /\ resource \in workflow.left
    /\ deployed' = [deployed EXCEPT ![resource] = workflow.version]
    /\ LET left == workflow.left \ {resource}
       IN  workflow' = IF left = {} THEN [AfterStep(TRUE) EXCEPT !.left = {}]
                       ELSE [workflow EXCEPT !.left = left]
    /\ run' = [run EXCEPT !.steady = FALSE]
    /\ UNCHANGED <<target, volume, emulator, update, tables, ops, counters>>

FailDeploy ==
    /\ At("deploy")
    /\ Fail
    /\ workflow' = Null
    /\ UNCHANGED <<target, deployed, volume, emulator, update, tables, run, ops>>

\* A job or update ends: the workflow step or the task that waits for it is told.
Ends(by, task, ok) ==
    IF by = "workflow"
    THEN workflow' = AfterStep(ok) /\ UNCHANGED run
    ELSE /\ run' = [run EXCEPT !.tasks[task] = IF ok THEN "succeeded" ELSE "failed"]
         /\ UNCHANGED workflow

\* It starts, and they wait.
Starts(by, task) ==
    /\ run' = IF by = "run" THEN [run EXCEPT !.tasks[task] = "running"] ELSE run
    /\ UNCHANGED workflow

-----------------------------------------------------------------------------
(* The source emulator (entrypoints/source_emulator.py).                   *)

StartEmulation(by, scenario) ==
    /\ emulator = Null
    /\ LET version == deployed["source_emulator"]
       IN  IF Resolves(version) /\ scenario \in Generating
           THEN /\ emulator' = [by |-> by, version |-> version,
                                left |-> Generated[scenario]]
                /\ Starts(by, "source_emulator")
           ELSE emulator' = Null /\ Ends(by, "source_emulator", FALSE)
    /\ UNCHANGED <<target, deployed, volume, update, tables, ops, counters>>

\* write_files: the next file, over the one of that path if there is one.
WriteFile ==
    /\ emulator # Null /\ emulator.left # <<>>
    /\ LET file == Head(emulator.left)
       IN  volume' = {f \in volume : f.path # file.path} \cup {file}
    /\ emulator' = [emulator EXCEPT !.left = Tail(@)]
    /\ UNCHANGED <<target, deployed, workflow, update, tables, run, ops, counters>>

FinishEmulation ==
    /\ emulator # Null /\ emulator.left = <<>>
    /\ Ends(emulator.by, "source_emulator", TRUE)
    /\ emulator' = Null
    /\ UNCHANGED <<target, deployed, volume, update, tables, ops, counters>>

\* The files written so far stay.
FailEmulation ==
    /\ emulator # Null
    /\ Fail
    /\ Ends(emulator.by, "source_emulator", FALSE)
    /\ emulator' = Null
    /\ UNCHANGED <<target, deployed, volume, update, tables, ops>>

-----------------------------------------------------------------------------
(* Pipeline updates.  What happens inside one is the subject of            *)
(* CustomerPipeline and SilverSplit; here it ingests, and then splits.     *)

StartUpdate(by, full) ==
    /\ update = Null
    /\ LET version == deployed["retail_lakehouse"]
       IN  IF Resolves(version)
           THEN /\ update' = [by |-> by, version |-> version, stage |-> "bronze"]
                /\ bronze' = IF full THEN {} ELSE bronze
                /\ Starts(by, "pipeline_update")
           ELSE /\ Ends(by, "pipeline_update", FALSE)
                /\ UNCHANGED <<update, bronze>>
    /\ UNCHANGED <<target, deployed, volume, emulator, silver, ops, counters>>

\* Auto Loader reads a path once; a full refresh forgets what has been read.
NewFiles == {f \in volume : \A b \in bronze : b.path # f.path}

Ingest ==
    /\ update # Null /\ update.stage = "bronze"
    /\ bronze' = bronze \cup NewFiles
    /\ update' = [update EXCEPT !.stage = "silver"]
    /\ UNCHANGED <<target, deployed, workflow, volume, emulator, silver, run, ops, counters>>

FinishUpdate ==
    /\ update # Null /\ update.stage = "silver"
    /\ silver' = [version    |-> update.version,
                  valid      |-> CountAll(bronze, "valid"),
                  quarantine |-> CountAll(bronze, "quarantine")]
    /\ Ends(update.by, "pipeline_update", TRUE)
    /\ update' = Null
    /\ UNCHANGED <<target, deployed, volume, emulator, bronze, ops, counters>>

FailUpdate ==
    /\ update # Null
    /\ Fail
    /\ Ends(update.by, "pipeline_update", FALSE)
    /\ update' = Null
    /\ UNCHANGED <<target, deployed, volume, emulator, tables, ops>>

-----------------------------------------------------------------------------
(* The orchestrator job.                                                   *)

\* Fault: a second run may start beside the first.
MayStartRun_Concurrent == TRUE

\* One run at a time.
MayStartRun == run.state # "active"

\* By schedule in prod (in dev it is paused), or as the last step of a workflow.
StartRun(by) ==
    /\ MayStartRun
    /\ IF by = "schedule" THEN target = "prod" ELSE At("run")
    /\ run' = [state |-> "active", by |-> by, version |-> deployed["orchestrator"],
               tasks |-> Idle,
               steady |-> \A r \in Resources : deployed[r] = deployed["orchestrator"]]
    /\ pipeline_runs' = {} /\ dq_results' = {}
    /\ UNCHANGED <<target, deployed, workflow, volume, emulator, update, tables, counters>>

EmulatorEnabled == target = "dev"

\* check_emulator_enabled is the condition on source_emulator and no task here.
DependsOn ==
    [source_emulator  |-> {},
     pipeline_update  |-> {"source_emulator"},
     post_run_audit   |-> {"pipeline_update"},
     invariant_checks |-> {"post_run_audit"}]

\* Fault: no run_if on pipeline_update, which then waits for a success.
RunIf_AllSuccess(task) ==
    IF task = "source_emulator" THEN EmulatorEnabled
    ELSE \A d \in DependsOn[task] : run.tasks[d] = "succeeded"

\* Fault: run_if ALL_DONE also on the tasks after the update.
RunIf_AllDone(task) == task = "source_emulator" => EmulatorEnabled

\* The condition on a task whose dependencies have ended.
RunIf(task) ==
    CASE task = "source_emulator" -> EmulatorEnabled
      [] task = "pipeline_update" -> TRUE
      [] OTHER -> \A d \in DependsOn[task] : run.tasks[d] = "succeeded"

Ended(task) == run.tasks[task] \in {"succeeded", "failed", "excluded"}

Ready(task) ==
    /\ run.state = "active"
    /\ run.tasks[task] = "pending"
    /\ \A d \in DependsOn[task] : Ended(d)

Exclude(task) ==
    /\ Ready(task) /\ ~RunIf(task)
    /\ run' = [run EXCEPT !.tasks[task] = "excluded"]
    /\ UNCHANGED <<target, deployed, workflow, volume, emulator, update, tables, ops, counters>>

\* write_run_audit, first part: the counts are taken and appended.  The row also
\* remembers, for the properties, which version computed what was counted, and
\* whether the versions were one and remained so.
AppendRuns ==
    /\ Ready("post_run_audit") /\ RunIf("post_run_audit")
    /\ IF Resolves(run.version)
       THEN /\ pipeline_runs' =
                   {[git_sha |-> Params(run.version).git_sha, counts |-> SourceCounts,
                     conserved |-> AllConserved(SourceCounts),
                     computed_by |-> silver.version, steady |-> run.steady]}
            /\ run' = [run EXCEPT !.tasks["post_run_audit"] = "running"]
       ELSE /\ run' = [run EXCEPT !.tasks["post_run_audit"] = "failed"]
            /\ UNCHANGED pipeline_runs
    /\ UNCHANGED <<target, deployed, workflow, volume, emulator, update, tables, dq_results,
                   counters>>

\* The reasons of what is in quarantine now.
Reasons ==
    IF \A s \in DeclaredSources : silver.quarantine[s] = 0 THEN {}
    ELSE {[git_sha |-> Params(run.version).git_sha, quarantine |-> silver.quarantine]}

\* Second part: the reasons are counted and appended, if there are any.
AppendReasons ==
    /\ run.tasks["post_run_audit"] = "running"
    /\ dq_results' = Reasons
    /\ run' = [run EXCEPT !.tasks["post_run_audit"] = "succeeded"]
    /\ UNCHANGED <<target, deployed, workflow, volume, emulator, update, tables,
                   pipeline_runs, counters>>

\* The audit fails before it appends, between, or when it prints what it has appended.
FailAudit ==
    /\ \/ Ready("post_run_audit") /\ RunIf("post_run_audit") /\ UNCHANGED dq_results
       \/ run.tasks["post_run_audit"] = "running" /\ dq_results' \in {{}, Reasons}
    /\ Fail
    /\ run' = [run EXCEPT !.tasks["post_run_audit"] = "failed"]
    /\ UNCHANGED <<target, deployed, workflow, volume, emulator, update, tables,
                   pipeline_runs>>

\* run_all.  (That no key has two current versions is proved of the dimensions.)
CheckInvariants ==
    /\ Ready("invariant_checks") /\ RunIf("invariant_checks")
    /\ run' = [run EXCEPT !.tasks["invariant_checks"] =
                   IF Resolves(run.version) /\ AllConserved(SourceCounts)
                   THEN "succeeded" ELSE "failed"]
    /\ UNCHANGED <<target, deployed, workflow, volume, emulator, update, tables, ops, counters>>

\* A run is green when its last task is, whatever became of the others.
Green == run.tasks["invariant_checks"] = "succeeded"

EndRun ==
    /\ run.state = "active" /\ \A t \in Tasks : Ended(t)
    /\ run' = [run EXCEPT !.state = "ended"]
    /\ workflow' = IF run.by = "workflow" THEN AfterStep(Green) ELSE workflow
    /\ UNCHANGED <<target, deployed, volume, emulator, update, tables, ops, counters>>

-----------------------------------------------------------------------------
WorkflowStep ==
    \/ \E r \in Resources : Deploy(r)
    \/ At("emulate") /\ StartEmulation("workflow", workflow.scenario)
    \/ At("update") /\ StartUpdate("workflow", workflow.full)
    \/ StartRun("workflow")

EmulatorStep == WriteFile \/ FinishEmulation

UpdateStep == Ingest \/ FinishUpdate

RunStep ==
    \/ \E t \in Tasks : Exclude(t)
    \/ Ready("source_emulator") /\ RunIf("source_emulator")
         /\ StartEmulation("run", DefaultScenario)
    \/ Ready("pipeline_update") /\ RunIf("pipeline_update") /\ StartUpdate("run", FALSE)
    \/ AppendRuns
    \/ AppendReasons
    \/ CheckInvariants
    \/ EndRun

Next ==
    \/ \E file \in Deliveries : Deliver(file)
    \/ \E version \in Versions :
           \/ StartWorkflow(version, Release, Null, FALSE)
           \/ \E scenario \in Names, full \in BOOLEAN :
                  StartWorkflow(version, OpsRun, scenario, full)
    \/ WorkflowStep
    \/ EmulatorStep
    \/ UpdateStep
    \/ StartRun("schedule")
    \/ RunStep
    \/ FailDeploy
    \/ FailEmulation
    \/ FailUpdate
    \/ FailAudit

Spec == Init /\ [][Next]_vars

\* The schedule goes on, and what has been started goes on unless it fails.  Nobody has
\* to start a workflow or deliver a file.
FairSpec ==
    /\ Spec
    /\ WF_vars(StartRun("schedule"))
    /\ WF_vars(RunStep)
    /\ WF_vars(EmulatorStep)
    /\ WF_vars(UpdateStep)

-----------------------------------------------------------------------------
\* The types; and that a task runs as long as the job or update that it waits for, and
\* a path is read once.
TypeOK ==
    /\ target \in {"dev", "prod"}
    /\ deployed \in [Resources -> Versions]
    /\ workflow # Null =>
           /\ workflow.version \in Versions
           /\ workflow.left \subseteq Resources
           /\ workflow.steps # <<>> => Head(workflow.steps) \in Range(OpsRun)
    /\ volume \subseteq Files /\ bronze \subseteq Files
    /\ emulator \in Emulation \cup {Null} /\ update \in Update \cup {Null}
    /\ silver.version \in Versions
    /\ \A s \in DeclaredSources : silver.valid[s] \in Nat /\ silver.quarantine[s] \in Nat
    /\ \A f, g \in bronze : f.path = g.path => f = g
    /\ run.state \in {"none", "active", "ended"}
    /\ run.tasks \in [Tasks -> {"pending", "running", "succeeded", "failed", "excluded"}]
    /\ run.tasks["source_emulator"] = "running" <=> emulator # Null /\ emulator.by = "run"
    /\ run.tasks["pipeline_update"] = "running" <=> update # Null /\ update.by = "run"
    /\ Cardinality(pipeline_runs) <= 1 /\ Cardinality(dq_results) <= 1
    /\ workflows \in 0..MaxWorkflows /\ failures \in 0..MaxFailures

Content(records) == [i \in DOMAIN records |-> [records[i] EXCEPT !.converted = FALSE]]

OfScenario(file, source, clock) ==
    /\ file.path.file.source = source
    /\ \E i \in DOMAIN file.records : file.records[i].clock = clock

\* Files by their numbers.
InOrder(files) ==
    CHOOSE s \in [1..Cardinality(files) -> files] :
        \A i, j \in DOMAIN s :
            i < j => s[i] # s[j] /\ s[i].path.file.seq <= s[j].path.file.seq

\* Where the emulator is enabled, bronze holds a scenario all of whose paths have been
\* read row for row as it was generated: nothing is lost between the emitters, and no
\* file of another scenario, no replay and no second emulation after a failure adds a
\* row to it or takes one away (generator.py: "replay support by construction";
\* mock_data/scenarios/replay_day1.yml: "zero new rows anywhere").  Elsewhere no file
\* of the emulator lands.
EmulatedWhole ==
    IF EmulatorEnabled
    THEN \A name \in Generating :
             LET t == ReplayTarget[name]
                 paths == {f.path : f \in Range(Generated[name])}
                 read(source) ==
                     LET files == {f \in bronze : OfScenario(f, source, Documents[t].logical_clock)}
                     IN  FlattenSeq([i \in DOMAIN InOrder(files) |->
                                        Content(InOrder(files)[i].records)])
             IN  paths \subseteq {b.path : b \in bronze} =>
                     \A source \in {p.file.source : p \in paths} :
                         read(source) = FaultedRows(t, source)
    ELSE emulator = Null /\ volume \subseteq Deliveries

\* What the last run has put down is of one completed update: the counts are conserved,
\* the reasons belong to the quarantined rows that were counted, and a green run has
\* put down both.  Neither an update that fails after its ingestion nor, in dev, the one
\* that the workflow starts before its run leaves half of it in what is counted, and none
\* comes between the appends.
AuditsAgree ==
    /\ \A row \in pipeline_runs : row.conserved
    /\ \A d \in dq_results : \E row \in pipeline_runs :
           /\ d.git_sha = row.git_sha
           /\ \A s \in DeclaredSources : d.quarantine[s] = row.counts[s].quarantine
    /\ run.state = "ended" /\ Green =>
           \E row \in pipeline_runs :
               (\E s \in DeclaredSources : row.counts[s].quarantine > 0) => dq_results # {}

\* The git_sha of an audit row is that of the code that computed what was counted
\* (run_audit.py: "any number in ops traces to a commit").
AuditTraces ==
    \A row \in pipeline_runs : row.git_sha = Params(row.computed_by).git_sha

\* The same of runs that start with one version deployed everywhere, and during which
\* nothing is deployed.
UndisturbedAuditTraces ==
    \A row \in pipeline_runs : row.steady => row.git_sha = Params(row.computed_by).git_sha

\* When a workflow has succeeded, its version is deployed everywhere and has computed
\* the tables: deployed and working (deploy-prod.yml); so a rollback, which is a release
\* of an earlier version, has rebuilt them (docs/runbook.md, "Rollback").
GreenMeansDeployed ==
    workflow # Null /\ workflow.steps = <<>> =>
        /\ \A r \in Resources : deployed[r] = workflow.version
        /\ silver.version = workflow.version

OnTarget(version) == Matching(Params(version))

\* A version whose catalog is not that of its environment never gets to write: no file,
\* no table, no audit row is from it (contracts.py: "asserts ... BEFORE any table is
\* touched").
MisTargetedWritesNothing ==
    /\ emulator # Null => OnTarget(emulator.version)
    /\ update # Null => OnTarget(update.version)
    /\ OnTarget(silver.version)
    /\ pipeline_runs # {} => OnTarget(run.version)

\* In prod, in spite of failed updates and audits and of deployments that stop half way,
\* everything delivered is again and again counted by an audit row, as long as what is
\* deployed is in the end on target.
EventuallyAudited ==
    target = "prod" /\ <>[](\A r \in Resources : Resolves(deployed[r])) =>
        []<>(/\ bronze = volume
             /\ \E row \in pipeline_runs : row.conserved /\ row.counts = SourceCounts)
=============================================================================
