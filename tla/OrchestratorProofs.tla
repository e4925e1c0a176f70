------------------------- MODULE OrchestratorProofs -------------------------
(***************************************************************************)
(* An environment in operation, for any versions, parameters, scenarios    *)
(* and bounds.  First the versions: one whose catalog is not that of its   *)
(* environment writes nothing, an audit row of an undisturbed run names    *)
(* the version that computed what it counts, and a workflow that has       *)
(* succeeded is deployed everywhere and has computed the tables.  Then     *)
(* what is written and counted: the files are lists of rows, a scenario    *)
(* all of whose files have been read is there row for row, and what a run  *)
(* has put down is of one completed update.                                *)
(***************************************************************************)
EXTENDS Orchestrator, BasicProofs, SequenceTheorems

Status == {"pending", "running", "succeeded", "failed", "excluded"}

\* What may be left of the steps of a workflow.
StepsLeft ==
    {<<>>, <<"run">>, <<"update", "run">>, <<"emulate", "update", "run">>,
     <<"deploy", "run">>, <<"deploy", "emulate", "update", "run">>}

WorkflowType ==
    workflow # Null =>
        workflow \in [steps : StepsLeft, version : Versions, left : SUBSET Resources,
                      scenario : Names \cup {Null}, full : BOOLEAN]

RunType ==
    run \in [state : {"none", "active", "ended"}, by : {Null, "schedule", "workflow"},
             version : Versions, tasks : [Tasks -> Status], steady : BOOLEAN]

Types ==
    /\ target \in {"dev", "prod"}
    /\ deployed \in [Resources -> Versions]
    /\ WorkflowType
    /\ RunType
    /\ emulator # Null =>
           /\ emulator.by \in {"workflow", "run"}
           /\ {"by", "version", "left"} \subseteq DOMAIN emulator
    /\ update # Null =>
           /\ update.by \in {"workflow", "run"}
           /\ {"by", "version", "stage"} \subseteq DOMAIN update

\* Whoever started a job or an update is still waiting for it.
Waits ==
    /\ emulator # Null /\ emulator.by = "workflow" => At("emulate")
    /\ update # Null /\ update.by = "workflow" => At("update")
    /\ update # Null /\ update.by = "run" =>
           run.state = "active" /\ run.tasks["pipeline_update"] = "running"
    /\ run.state = "active" /\ run.by = "workflow" =>
           At("run") /\ run.steady /\ run.version = workflow.version

\* How far the deployment has come.
Progress ==
    workflow # Null =>
        \A r \in Resources :
            (At("deploy") => r \notin workflow.left) => deployed[r] = workflow.version

\* A task that waits for a success has seen it.
TasksInOrder ==
    /\ run.tasks["post_run_audit"] \in {"running", "succeeded"} =>
           run.tasks["pipeline_update"] = "succeeded"
    /\ run.tasks["invariant_checks"] = "succeeded" =>
           run.tasks["post_run_audit"] = "succeeded"

\* In a steady run everything is of its version, the tables from its update on.
SteadyRun ==
    run.state = "active" /\ run.steady =>
        /\ \A r \in Resources : deployed[r] = run.version
        /\ run.tasks["pipeline_update"] \in {"running", "succeeded"} /\ update # Null =>
               update.version = run.version
        /\ run.tasks["pipeline_update"] = "succeeded" => silver.version = run.version

\* After a workflow nothing else is computed until the next one.
Succeeded ==
    workflow # Null /\ workflow.steps = <<>> =>
        /\ silver.version = workflow.version
        /\ update # Null => update.version = workflow.version

IInv ==
    /\ Types /\ Waits /\ Progress /\ TasksInOrder /\ SteadyRun /\ Succeeded
    /\ MisTargetedWritesNothing
    /\ UndisturbedAuditTraces

\* The steps that may be left, and what follows each of them.
LEMMA StepFacts ==
    /\ Release \in StepsLeft /\ OpsRun \in StepsLeft
    /\ Release # <<>> /\ OpsRun # <<>> /\ Head(Release) = "deploy" /\ Head(OpsRun) = "deploy"
    /\ \A s \in StepsLeft :
           s # <<>> =>
               /\ Tail(s) \in StepsLeft
               /\ Tail(s) # <<>> => Head(Tail(s)) # "deploy"
               /\ Tail(s) = <<>> <=> Head(s) = "run"
BY DEF StepsLeft, Release, OpsRun

\* The R1 guard lets only matching parameters through.
LEMMA ResolvedOnTarget ==
    ASSUME NEW v, Resolves(v)
    PROVE  OnTarget(v)
BY DEF Resolves, OnTarget, Matching, CatalogByEnvironment

\* Telling the step or the task that waits is well typed.
LEMMA EndsTypes ==
    ASSUME Types, NEW by, by = "workflow" => workflow # Null /\ workflow.steps # <<>>,
           NEW task \in Tasks, NEW ok \in BOOLEAN, Ends(by, task, ok)
    PROVE  WorkflowType' /\ RunType'
<1>1. CASE by = "workflow"
  BY <1>1, StepFacts DEF Ends, AfterStep, Types, WorkflowType, RunType
<1>2. CASE by # "workflow"
  BY <1>2 DEF Ends, Types, WorkflowType, RunType, Status
<1> QED
  BY <1>1, <1>2

\* The first version is on target, and nothing is under way.
LEMMA InitEstablishes == Init => IInv
<1> SUFFICES ASSUME Init PROVE IInv
  OBVIOUS
<1>1. Types
  BY OrchestratorAssumption DEF Init, Types, RunType, WorkflowType, Idle, Status, Resources
<1>2. OnTarget(FirstVersion)
  BY OrchestratorAssumption DEF Init, OnTarget, Params
<1>3. MisTargetedWritesNothing
  BY <1>2 DEF Init, MisTargetedWritesNothing
<1>4. TasksInOrder
  BY DEF Init, TasksInOrder, Idle, Tasks
<1> QED
  BY <1>1, <1>3, <1>4
     DEF Init, IInv, Waits, Progress, SteadyRun, Succeeded, UndisturbedAuditTraces

-----------------------------------------------------------------------------
(* The inductive invariant, action by action.                              *)

\* Files in the volume have no part in the versions.
LEMMA Delivery ==
    ASSUME IInv, NEW file \in Deliveries, Deliver(file)
    PROVE  IInv'
<1> USE DEF IInv, Deliver, Types, RunType, WorkflowType, tables, ops, At, Tasks
<1>1. /\ Types' /\ Waits' /\ Progress' /\ TasksInOrder'
      /\ SteadyRun' /\ Succeeded' /\ MisTargetedWritesNothing' /\ UndisturbedAuditTraces'
  BY DEF Waits, Progress, TasksInOrder, SteadyRun, Succeeded, MisTargetedWritesNothing,
     UndisturbedAuditTraces, OnTarget, Params
<1> QED
  BY <1>1

\* A workflow starts when nothing waits for a step of the last one, and has everything
\* still to deploy.
LEMMA WorkflowStarts ==
    ASSUME IInv, NEW version \in Versions, NEW steps \in {Release, OpsRun},
           NEW scenario \in Names \cup {Null}, NEW full \in BOOLEAN,
           StartWorkflow(version, steps, scenario, full)
    PROVE  IInv'
<1> USE DEF IInv, StartWorkflow, MayStartWorkflow, Types, RunType, WorkflowType, tables,
           ops, At, Tasks, Resources
<1>1. Types'
  BY StepFacts DEF Waits, Status
<1>2. Waits'
  BY StepFacts DEF Waits, Progress
<1>3. Progress'
  BY StepFacts DEF Waits, Progress
<1>4. Succeeded'
  BY StepFacts DEF Waits, Progress, TasksInOrder, SteadyRun, Succeeded
<1>5. TasksInOrder' /\ SteadyRun' /\ MisTargetedWritesNothing' /\ UndisturbedAuditTraces'
  BY DEF TasksInOrder, SteadyRun, MisTargetedWritesNothing, UndisturbedAuditTraces,
     OnTarget, Params
<1> QED
  BY <1>1, <1>2, <1>3, <1>4, <1>5

\* A resource is switched when no step of the workflow is waited for; a run that is
\* under way is steady no more.
LEMMA ResourceDeployed ==
    ASSUME IInv, NEW resource \in Resources, Deploy(resource)
    PROVE  IInv'
<1> USE DEF IInv, Deploy, AfterStep, Types, RunType, WorkflowType, tables, ops, At, Tasks,
           Resources
<1>1. Types'
  BY StepFacts DEF Waits, Status
<1>2. Waits'
  BY StepFacts DEF Waits, Progress
<1>3. Progress'
  BY StepFacts DEF Waits, Progress
<1>4. TasksInOrder'
  BY DEF Waits, TasksInOrder
<1>5. SteadyRun'
  BY DEF Waits, SteadyRun
<1>6. Succeeded'
  BY StepFacts DEF Waits, Progress, TasksInOrder, SteadyRun, Succeeded
<1>7. MisTargetedWritesNothing'
  BY DEF MisTargetedWritesNothing, OnTarget, Params
<1>8. UndisturbedAuditTraces'
  BY DEF UndisturbedAuditTraces, Params
<1> QED
  BY <1>1, <1>2, <1>3, <1>4, <1>5, <1>6, <1>7, <1>8

\* A deployment that stops half way leaves no workflow that could succeed.
LEMMA DeploymentFails ==
    ASSUME IInv, FailDeploy
    PROVE  IInv'
<1> USE DEF IInv, FailDeploy, Types, RunType, WorkflowType, tables, ops, At, Tasks
<1>1. Types'
  BY StepFacts DEF Waits, Status
<1>2. Waits'
  BY StepFacts DEF Waits, Progress
<1>3. Progress'
  BY StepFacts DEF Waits, Progress
<1>4. Succeeded'
  BY StepFacts DEF Waits, Progress, TasksInOrder, SteadyRun, Succeeded
<1>5. TasksInOrder' /\ SteadyRun' /\ MisTargetedWritesNothing' /\ UndisturbedAuditTraces'
  BY DEF TasksInOrder, SteadyRun, MisTargetedWritesNothing, UndisturbedAuditTraces,
     OnTarget, Params
<1> QED
  BY <1>1, <1>2, <1>3, <1>4, <1>5

\* An emulation starts with a version that the guard has let through, or not at all.
LEMMA EmulationStarts ==
    ASSUME IInv, NEW by \in {"workflow", "run"}, NEW scenario,
           by = "workflow" => At("emulate"), by = "run" => Ready("source_emulator"),
           StartEmulation(by, scenario)
    PROVE  IInv'
<1> USE DEF IInv, StartEmulation, Starts, Ends, AfterStep, Ready, Types, RunType,
           WorkflowType, tables, ops, At, Tasks, Resources
<1>1. Types'
  BY StepFacts, EndsTypes DEF Waits, Status
<1>2. Waits'
  BY StepFacts DEF Waits, Progress
<1>3. Progress'
  BY StepFacts DEF Waits, Progress
<1>4. TasksInOrder'
  BY DEF Waits, TasksInOrder
<1>5. SteadyRun'
  BY DEF Waits, SteadyRun
<1>6. Succeeded'
  BY StepFacts DEF Waits, Progress, TasksInOrder, SteadyRun, Succeeded
<1>7. MisTargetedWritesNothing'
  BY ResolvedOnTarget DEF MisTargetedWritesNothing, OnTarget, Params
<1>8. UndisturbedAuditTraces'
  BY DEF UndisturbedAuditTraces, Params
<1> QED
  BY <1>1, <1>2, <1>3, <1>4, <1>5, <1>6, <1>7, <1>8

\* An emulation goes on under the version that it has started with.
LEMMA FileWritten ==
    ASSUME IInv, WriteFile
    PROVE  IInv'
<1> USE DEF IInv, WriteFile, Types, RunType, WorkflowType, tables, ops, At, Tasks
<1>1. Types'
  BY DEF Waits, Status
<1>2. Waits'
  BY DEF Waits, Progress
<1>3. MisTargetedWritesNothing'
  BY DEF MisTargetedWritesNothing, OnTarget, Params
<1>4. /\ Progress' /\ TasksInOrder' /\ SteadyRun' /\ Succeeded'
      /\ UndisturbedAuditTraces'
  BY DEF Progress, TasksInOrder, SteadyRun, Succeeded, UndisturbedAuditTraces, Params
<1> QED
  BY <1>1, <1>2, <1>3, <1>4

\* Whoever waits for the emulation is told that it succeeded; what follows is no deployment.
LEMMA EmulationFinishes ==
    ASSUME IInv, FinishEmulation
    PROVE  IInv'
<1> USE DEF IInv, FinishEmulation, Ends, AfterStep, Types, RunType, WorkflowType, tables,
           ops, At, Tasks
<1>1. Types'
  BY StepFacts, EndsTypes DEF Waits, Status
<1>2. Waits'
  BY StepFacts DEF Waits, Progress
<1>3. Progress'
  BY StepFacts DEF Waits, Progress
<1>4. TasksInOrder'
  BY DEF Waits, TasksInOrder
<1>5. SteadyRun'
  BY DEF Waits, SteadyRun
<1>6. Succeeded'
  BY StepFacts DEF Waits, Progress, TasksInOrder, SteadyRun, Succeeded
<1>7. MisTargetedWritesNothing'
  BY DEF MisTargetedWritesNothing, OnTarget, Params
<1>8. UndisturbedAuditTraces'
  BY DEF UndisturbedAuditTraces, Params
<1> QED
  BY <1>1, <1>2, <1>3, <1>4, <1>5, <1>6, <1>7, <1>8

\* The same of a failure, which ends the workflow that waits for it.
LEMMA EmulationFails ==
    ASSUME IInv, FailEmulation
    PROVE  IInv'
<1> USE DEF IInv, FailEmulation, Ends, AfterStep, Types, RunType, WorkflowType, tables, ops,
           At, Tasks
<1>1. Types'
  BY StepFacts, EndsTypes DEF Waits, Status
<1>2. Waits'
  BY StepFacts DEF Waits, Progress
<1>3. Progress'
  BY StepFacts DEF Waits, Progress
<1>4. TasksInOrder'
  BY DEF Waits, TasksInOrder
<1>5. SteadyRun'
  BY DEF Waits, SteadyRun
<1>6. Succeeded'
  BY StepFacts DEF Waits, Progress, TasksInOrder, SteadyRun, Succeeded
<1>7. MisTargetedWritesNothing'
  BY DEF MisTargetedWritesNothing, OnTarget, Params
<1>8. UndisturbedAuditTraces'
  BY DEF UndisturbedAuditTraces, Params
<1> QED
  BY <1>1, <1>2, <1>3, <1>4, <1>5, <1>6, <1>7, <1>8

\* An update of a steady run, and one after a workflow, has the version deployed.
LEMMA UpdateStarts ==
    ASSUME IInv, NEW by \in {"workflow", "run"}, NEW full \in BOOLEAN,
           by = "workflow" => At("update"), by = "run" => Ready("pipeline_update"),
           StartUpdate(by, full)
    PROVE  IInv'
<1> USE DEF IInv, StartUpdate, Starts, Ends, AfterStep, Ready, Types, RunType, WorkflowType,
           tables, ops, At, Tasks, Resources
<1>1. Types'
  BY StepFacts, EndsTypes DEF Waits, Status
<1>2. Waits'
  <2>1. CASE by = "workflow"
    BY <2>1, StepFacts DEF Waits
  <2>2. CASE by = "run"
    BY <2>2 DEF Waits
  <2> QED
    BY <2>1, <2>2
<1>3. Progress'
  BY StepFacts DEF Waits, Progress
<1>4. TasksInOrder'
  BY DEF Waits, TasksInOrder
<1>5. SteadyRun'
  BY DEF Waits, SteadyRun
<1>6. Succeeded'
  BY StepFacts DEF Waits, Progress, TasksInOrder, SteadyRun, Succeeded
<1>7. MisTargetedWritesNothing'
  BY ResolvedOnTarget DEF MisTargetedWritesNothing, OnTarget, Params
<1>8. UndisturbedAuditTraces'
  BY DEF UndisturbedAuditTraces, Params
<1> QED
  BY <1>1, <1>2, <1>3, <1>4, <1>5, <1>6, <1>7, <1>8

\* An update goes on under the version that it has started with.
LEMMA FilesIngested ==
    ASSUME IInv, Ingest
    PROVE  IInv'
<1> USE DEF IInv, Ingest, Types, RunType, WorkflowType, tables, ops, At, Tasks
<1>1. Types'
  BY DEF Waits, Status
<1>2. Waits'
  BY DEF Waits, Progress
<1>3. SteadyRun'
  BY DEF Waits, SteadyRun
<1>4. Succeeded'
  BY DEF Waits, Progress, TasksInOrder, SteadyRun, Succeeded
<1>5. MisTargetedWritesNothing'
  BY DEF MisTargetedWritesNothing, OnTarget, Params
<1>6. Progress' /\ TasksInOrder' /\ UndisturbedAuditTraces'
  BY DEF Progress, TasksInOrder, UndisturbedAuditTraces, Params
<1> QED
  BY <1>1, <1>2, <1>3, <1>4, <1>5, <1>6

\* The tables get the version of the update, which in a steady run is that of the run.
LEMMA UpdateFinishes ==
    ASSUME IInv, FinishUpdate
    PROVE  IInv'
<1> USE DEF IInv, FinishUpdate, Ends, AfterStep, Types, RunType, WorkflowType, tables, ops,
           At, Tasks
<1>1. Types'
  BY StepFacts, EndsTypes DEF Waits, Status
<1>2. Waits'
  BY StepFacts DEF Waits, Progress
<1>3. Progress'
  BY StepFacts DEF Waits, Progress
<1>4. TasksInOrder'
  BY DEF Waits, TasksInOrder
<1>5. SteadyRun'
  BY DEF Waits, SteadyRun
<1>6. Succeeded'
  BY StepFacts DEF Waits, Progress, TasksInOrder, SteadyRun, Succeeded
<1>7. MisTargetedWritesNothing'
  BY DEF MisTargetedWritesNothing, OnTarget, Params
<1>8. UndisturbedAuditTraces'
  BY DEF UndisturbedAuditTraces, Params
<1> QED
  BY <1>1, <1>2, <1>3, <1>4, <1>5, <1>6, <1>7, <1>8

\* The tables keep the version that they have.
LEMMA UpdateFails ==
    ASSUME IInv, FailUpdate
    PROVE  IInv'
<1> USE DEF IInv, FailUpdate, Ends, AfterStep, Types, RunType, WorkflowType, tables, ops,
           At, Tasks
<1>1. Types'
  BY StepFacts, EndsTypes DEF Waits, Status
<1>2. Waits'
  BY StepFacts DEF Waits, Progress
<1>3. Progress'
  BY StepFacts DEF Waits, Progress
<1>4. TasksInOrder'
  BY DEF Waits, TasksInOrder
<1>5. SteadyRun'
  BY DEF Waits, SteadyRun
<1>6. Succeeded'
  BY StepFacts DEF Waits, Progress, TasksInOrder, SteadyRun, Succeeded
<1>7. MisTargetedWritesNothing'
  BY DEF MisTargetedWritesNothing, OnTarget, Params
<1>8. UndisturbedAuditTraces'
  BY DEF UndisturbedAuditTraces, Params
<1> QED
  BY <1>1, <1>2, <1>3, <1>4, <1>5, <1>6, <1>7, <1>8

\* A run starts when no other is active, so that no update is waited for by a run; if a
\* workflow starts it, its version has been deployed everywhere.
LEMMA RunStarts ==
    ASSUME IInv, NEW by \in {"schedule", "workflow"}, StartRun(by)
    PROVE  IInv'
<1> USE DEF IInv, StartRun, MayStartRun, Idle, Types, RunType, WorkflowType, tables, ops,
           At, Tasks, Resources
<1>1. Types'
  BY DEF Waits, Status
<1>2. Waits'
  BY DEF Waits, Progress
<1>3. TasksInOrder'
  BY DEF Waits, TasksInOrder
<1>4. SteadyRun'
  BY DEF Waits, SteadyRun
<1>5. MisTargetedWritesNothing'
  BY DEF MisTargetedWritesNothing, OnTarget, Params
<1>6. UndisturbedAuditTraces'
  BY DEF SteadyRun, TasksInOrder, UndisturbedAuditTraces, Params
<1>7. Progress' /\ Succeeded'
  BY DEF Progress, Succeeded
<1> QED
  BY <1>1, <1>2, <1>3, <1>4, <1>5, <1>6, <1>7

\* Only a task that is pending is excluded, and never the update.
LEMMA TaskExcluded ==
    ASSUME IInv, NEW task \in Tasks, Exclude(task)
    PROVE  IInv'
<1> USE DEF IInv, Exclude, Ready, RunIf, Types, RunType, WorkflowType, tables, ops, At,
           Tasks
<1>1. Types'
  BY DEF Waits, Status
<1>2. Waits'
  BY DEF Waits, Progress
<1>3. TasksInOrder'
  BY DEF Waits, TasksInOrder
<1>4. SteadyRun'
  BY DEF Waits, SteadyRun
<1>5. MisTargetedWritesNothing'
  BY DEF MisTargetedWritesNothing, OnTarget, Params
<1>6. Progress' /\ Succeeded' /\ UndisturbedAuditTraces'
  BY DEF Progress, Succeeded, UndisturbedAuditTraces, Params
<1> QED
  BY <1>1, <1>2, <1>3, <1>4, <1>5, <1>6

\* The audit row of a steady run names the version of the tables, and a run off target
\* appends none.
LEMMA RunsAppended ==
    ASSUME IInv, AppendRuns
    PROVE  IInv'
<1> USE DEF IInv, AppendRuns, Ready, RunIf, DependsOn, Types, RunType, WorkflowType, tables,
           ops, At, Tasks
<1>1. Types'
  BY DEF Waits, Status
<1>2. Waits'
  BY DEF Waits, Progress
<1>3. TasksInOrder'
  BY DEF Waits, TasksInOrder
<1>4. SteadyRun'
  BY DEF Waits, SteadyRun
<1>5. MisTargetedWritesNothing'
  BY ResolvedOnTarget DEF MisTargetedWritesNothing, OnTarget, Params
<1>6. UndisturbedAuditTraces'
  BY DEF SteadyRun, TasksInOrder, UndisturbedAuditTraces, Params
<1>7. Progress' /\ Succeeded'
  BY DEF Progress, Succeeded
<1> QED
  BY <1>1, <1>2, <1>3, <1>4, <1>5, <1>6, <1>7

\* The audit succeeds only after the update.
LEMMA ReasonsAppended ==
    ASSUME IInv, AppendReasons
    PROVE  IInv'
<1> USE DEF IInv, AppendReasons, Types, RunType, WorkflowType, tables, ops, At, Tasks
<1>1. Types'
  BY DEF Waits, Status
<1>2. Waits'
  BY DEF Waits, Progress
<1>3. TasksInOrder'
  BY DEF Waits, TasksInOrder
<1>4. SteadyRun'
  BY DEF Waits, SteadyRun
<1>5. MisTargetedWritesNothing'
  BY DEF MisTargetedWritesNothing, OnTarget, Params
<1>6. Progress' /\ Succeeded' /\ UndisturbedAuditTraces'
  BY DEF Progress, Succeeded, UndisturbedAuditTraces, Params
<1> QED
  BY <1>1, <1>2, <1>3, <1>4, <1>5, <1>6

\* An audit that fails, fails after the update too.
LEMMA AuditFails ==
    ASSUME IInv, FailAudit
    PROVE  IInv'
<1> USE DEF IInv, FailAudit, Ready, RunIf, DependsOn, Types, RunType, WorkflowType, tables,
           ops, At, Tasks
<1>1. Types'
  BY DEF Waits, Status
<1>2. Waits'
  BY DEF Waits, Progress
<1>3. TasksInOrder'
  BY DEF Waits, TasksInOrder
<1>4. SteadyRun'
  BY DEF Waits, SteadyRun
<1>5. MisTargetedWritesNothing'
  BY DEF MisTargetedWritesNothing, OnTarget, Params
<1>6. Progress' /\ Succeeded' /\ UndisturbedAuditTraces'
  BY DEF Progress, Succeeded, UndisturbedAuditTraces, Params
<1> QED
  BY <1>1, <1>2, <1>3, <1>4, <1>5, <1>6

\* The checks succeed only after the audit.
LEMMA InvariantsChecked ==
    ASSUME IInv, CheckInvariants
    PROVE  IInv'
<1> USE DEF IInv, CheckInvariants, Ready, RunIf, DependsOn, Types, RunType, WorkflowType,
           tables, ops, At, Tasks
<1>1. Types'
  BY DEF Waits, Status
<1>2. Waits'
  BY DEF Waits, Progress
<1>3. TasksInOrder'
  BY DEF Waits, TasksInOrder
<1>4. SteadyRun'
  BY DEF Waits, SteadyRun
<1>5. MisTargetedWritesNothing'
  BY DEF MisTargetedWritesNothing, OnTarget, Params
<1>6. Progress' /\ Succeeded' /\ UndisturbedAuditTraces'
  BY DEF Progress, Succeeded, UndisturbedAuditTraces, Params
<1> QED
  BY <1>1, <1>2, <1>3, <1>4, <1>5, <1>6

\* When the last task is green the update has succeeded, with the version of the workflow.
LEMMA RunEnds ==
    ASSUME IInv, EndRun
    PROVE  IInv'
<1> USE DEF IInv, EndRun, AfterStep, Green, Ended, Types, RunType, WorkflowType, tables,
           ops, At, Tasks
<1>1. Types'
  BY StepFacts DEF Waits, Status
<1>2. Waits'
  BY StepFacts DEF Waits, Progress
<1>3. Progress'
  BY StepFacts DEF Waits, Progress
<1>4. TasksInOrder'
  BY DEF Waits, TasksInOrder
<1>5. SteadyRun'
  BY DEF Waits, SteadyRun
<1>6. Succeeded'
  BY StepFacts DEF Waits, Progress, TasksInOrder, SteadyRun, Succeeded
<1>7. MisTargetedWritesNothing'
  BY DEF MisTargetedWritesNothing, OnTarget, Params
<1>8. UndisturbedAuditTraces'
  BY DEF UndisturbedAuditTraces, Params
<1> QED
  BY <1>1, <1>2, <1>3, <1>4, <1>5, <1>6, <1>7, <1>8

\* Every step preserves the inductive invariant.
LEMMA NextPreserves == IInv /\ [Next]_vars => IInv'
<1> SUFFICES ASSUME IInv, [Next]_vars PROVE IInv'
  OBVIOUS
<1>1. CASE \E file \in Deliveries : Deliver(file)
  BY <1>1, Delivery
<1>2. ASSUME NEW version \in Versions, NEW scenario \in Names, NEW full \in BOOLEAN,
             StartWorkflow(version, OpsRun, scenario, full)
      PROVE  IInv'
  BY <1>2, WorkflowStarts
<1>3. ASSUME NEW version \in Versions, StartWorkflow(version, Release, Null, FALSE)
      PROVE  IInv'
  BY <1>3, WorkflowStarts
<1>4. CASE WorkflowStep
  <2>1. CASE \E r \in Resources : Deploy(r)
    BY <2>1, ResourceDeployed
  <2>2. CASE At("emulate") /\ StartEmulation("workflow", workflow.scenario)
    BY <2>2, EmulationStarts
  <2>3. CASE At("update") /\ StartUpdate("workflow", workflow.full)
    <3>1. workflow.full \in BOOLEAN
      BY <2>3 DEF At, IInv, Types, WorkflowType
    <3> QED
      BY <2>3, <3>1, UpdateStarts
  <2>4. CASE StartRun("workflow")
    BY <2>4, RunStarts
  <2> QED
    BY <1>4, <2>1, <2>2, <2>3, <2>4 DEF WorkflowStep
<1>5. CASE EmulatorStep
  BY <1>5, FileWritten, EmulationFinishes DEF EmulatorStep
<1>6. CASE UpdateStep
  BY <1>6, FilesIngested, UpdateFinishes DEF UpdateStep
<1>7. CASE StartRun("schedule")
  BY <1>7, RunStarts
<1>8. CASE RunStep
  <2>1. CASE \E t \in Tasks : Exclude(t)
    BY <2>1, TaskExcluded
  <2>2. CASE Ready("source_emulator") /\ StartEmulation("run", DefaultScenario)
    BY <2>2, EmulationStarts
  <2>3. CASE Ready("pipeline_update") /\ StartUpdate("run", FALSE)
    BY <2>3, UpdateStarts
  <2> QED
    BY <1>8, <2>1, <2>2, <2>3, RunsAppended, ReasonsAppended, InvariantsChecked, RunEnds
       DEF RunStep
<1>9. CASE UNCHANGED vars
  BY <1>9 DEF vars, tables, ops, counters, IInv, Types, WorkflowType, RunType, Waits,
     Progress, TasksInOrder, SteadyRun, Succeeded, MisTargetedWritesNothing,
     UndisturbedAuditTraces, OnTarget, Params, At
<1>10. CASE FailDeploy \/ FailEmulation \/ FailUpdate \/ FailAudit
  BY <1>10, DeploymentFails, EmulationFails, UpdateFails, AuditFails
<1> QED
  BY <1>1, <1>2, <1>3, <1>4, <1>5, <1>6, <1>7, <1>8, <1>9, <1>10 DEF Next

\* So it holds always.
LEMMA InductiveInvariant == Spec => []IInv
BY InitEstablishes, NextPreserves, PTL DEF Spec

\* The guard holds: a version whose catalog is not that of its environment writes no
\* file, no table and no audit row, whatever is deployed in which order and fails.
THEOREM GuardHolds == Spec => []MisTargetedWritesNothing
<1>1. IInv => MisTargetedWritesNothing
  BY DEF IInv
<1> QED
  BY <1>1, InductiveInvariant, PTL

\* An audit row of a run that nothing was deployed in names the commit that computed
\* what the row counts.
THEOREM AuditRowsTrace == Spec => []UndisturbedAuditTraces
<1>1. IInv => UndisturbedAuditTraces
  BY DEF IInv
<1> QED
  BY <1>1, InductiveInvariant, PTL

\* A workflow that has succeeded is deployed everywhere and has computed the tables,
\* and no later update of the schedule takes that back.
THEOREM SuccessMeansDeployed == Spec => []GreenMeansDeployed
<1>1. IInv => GreenMeansDeployed
  BY DEF IInv, Progress, Succeeded, At, GreenMeansDeployed
<1> QED
  BY <1>1, InductiveInvariant, PTL

-----------------------------------------------------------------------------
(***************************************************************************)
(* The files of a scenario (Scenarios): whatever the documents say, the    *)
(* emulator writes files of rows.                                          *)
(***************************************************************************)

\* A function from 1..n is a list of n elements.
LEMMA FunctionIsList ==
    ASSUME NEW S, NEW n \in Nat, NEW f \in [1..n -> S]
    PROVE  f \in Seq(S) /\ Len(f) = n
OBVIOUS

\* The rows of a scenario of this clock, before any of them is converted.
RowAt(clock) ==
    [clock : {clock}, number : Nat, faults : SUBSET KnownFaults, converted : {FALSE}]

\* What faults are injected into: such rows, at least one.
Batches(clock) == Seq(RowAt(clock)) \ {<<>>}

\* A row that a fault has changed is still a row.
LEMMA MarkedTyped ==
    ASSUME NEW clock, NEW row \in RowAt(clock), NEW fault \in KnownFaults
    PROVE  Marked(row, fault) \in RowAt(clock)
BY DEF Marked, RowAt

\* Every fault has one place.
LEMMA Places ==
    /\ \A fault \in DOMAIN ChangedRow : ChangedRow[fault] \in Nat \ {0}
    /\ \A fault \in DOMAIN CopiedRow : CopiedRow[fault] \in Nat \ {0}
    /\ \A fault \in DOMAIN ChangedRows :
           fault \notin DOMAIN ChangedRow \cup DOMAIN CopiedRow
    /\ \A fault \in DOMAIN ChangedRow : fault \notin DOMAIN CopiedRow
    /\ \A fault \in DOMAIN ChangedRow \cup DOMAIN ChangedRows \cup DOMAIN CopiedRow :
           fault \notin {"extra_column_south_all_rows", "orphan_delete",
                         "cancelled_before_placed", "out_of_order_within_batch"}
BY DEF ChangedRow, ChangedRows, CopiedRow

\* A handler makes a batch of rows of a batch of rows.
LEMMA HandlerTyped ==
    ASSUME NEW clock, NEW rows \in Batches(clock), NEW fault \in KnownFaults, NEW source,
           Handles(fault, source, rows)
    PROVE  Handler(fault, rows) \in Batches(clock)
<1>1. /\ rows \in [1..Len(rows) -> RowAt(clock)] /\ DOMAIN rows = 1..Len(rows)
      /\ Len(rows) \in Nat \ {0}
  BY LenProperties, EmptySeq DEF Batches
<1>2. \A f \in [1..Len(rows) -> RowAt(clock)] : f \in Batches(clock)
  <2> SUFFICES ASSUME NEW f \in [1..Len(rows) -> RowAt(clock)] PROVE f \in Batches(clock)
    OBVIOUS
  <2>1. f \in Seq(RowAt(clock)) /\ Len(f) = Len(rows)
    BY <1>1, FunctionIsList
  <2>2. Len(<<>>) = 0
    OBVIOUS
  <2> QED
    BY <1>1, <2>1, <2>2 DEF Batches
<1>3. \A row \in RowAt(clock) : Append(rows, row) \in Batches(clock) /\ <<row>> \o rows \in Batches(clock)
  <2> SUFFICES ASSUME NEW row \in RowAt(clock)
               PROVE  Append(rows, row) \in Batches(clock) /\ <<row>> \o rows \in Batches(clock)
    OBVIOUS
  <2>1. Append(rows, row) \in Seq(RowAt(clock)) /\ Append(rows, row) # <<>>
    BY AppendProperties DEF Batches
  <2>2. <<row>> \in Seq(RowAt(clock)) /\ Len(<<row>>) = 1
    OBVIOUS
  <2>3. <<row>> \o rows \in Seq(RowAt(clock)) /\ Len(<<row>> \o rows) = 1 + Len(rows)
    BY <2>2, ConcatProperties DEF Batches
  <2>4. Len(<<>>) = 0
    OBVIOUS
  <2> QED
    BY <1>1, <2>1, <2>3, <2>4 DEF Batches
<1> HIDE DEF Batches, RowAt, KnownFaults
<1>4. CASE fault \in DOMAIN ChangedRow
  <2>1. ChangedRow[fault] \in 1..Len(rows)
    BY <1>1, <1>4, Places DEF Handles
  <2>2. Handler(fault, rows) = [rows EXCEPT ![ChangedRow[fault]] = Marked(@, fault)]
    BY <1>4, Places DEF Handler
  <2>3. Marked(rows[ChangedRow[fault]], fault) \in RowAt(clock)
    BY <1>1, <2>1, MarkedTyped
  <2> HIDE DEF Marked, ChangedRow
  <2>4. [rows EXCEPT ![ChangedRow[fault]] = Marked(@, fault)] \in [1..Len(rows) -> RowAt(clock)]
    BY <1>1, <2>1, <2>3
  <2> QED
    BY <1>2, <2>2, <2>4
<1>5. CASE fault \in DOMAIN ChangedRows
  <2>1. Handler(fault, rows) =
            [i \in DOMAIN rows |->
                IF i <= ChangedRows[fault] THEN Marked(rows[i], fault) ELSE rows[i]]
    BY <1>5, Places DEF Handler
  <2>2. \A i \in 1..Len(rows) : rows[i] \in RowAt(clock) /\ Marked(rows[i], fault) \in RowAt(clock)
    BY <1>1, MarkedTyped
  <2>3. Handler(fault, rows) \in [1..Len(rows) -> RowAt(clock)]
    BY <1>1, <2>1, <2>2
  <2> QED
    BY <1>2, <2>3
<1>6. CASE fault \in DOMAIN CopiedRow
  <2>1. CopiedRow[fault] \in 1..Len(rows)
    BY <1>1, <1>6, Places DEF Handles
  <2>2. Handler(fault, rows) = Append(rows, Marked(rows[CopiedRow[fault]], fault))
    BY <1>6, Places DEF Handler
  <2>3. Marked(rows[CopiedRow[fault]], fault) \in RowAt(clock)
    BY <1>1, <2>1, MarkedTyped
  <2> QED
    BY <1>3, <2>2, <2>3
<1>7. CASE fault = "extra_column_south_all_rows"
  <2>1. Handler(fault, rows) = [i \in DOMAIN rows |-> Marked(rows[i], fault)]
    BY <1>7, Places DEF Handler
  <2>2. \A i \in 1..Len(rows) : Marked(rows[i], fault) \in RowAt(clock)
    BY <1>1, MarkedTyped
  <2>3. Handler(fault, rows) \in [1..Len(rows) -> RowAt(clock)]
    BY <1>1, <2>1, <2>2
  <2> QED
    BY <1>2, <2>3
<1>8. CASE fault = "orphan_delete"
  <2>1. Handler(fault, rows) = Append(rows, Marked(Last(rows), fault))
    BY <1>8, Places DEF Handler
  <2>2. Marked(rows[Len(rows)], fault) \in RowAt(clock)
    BY <1>1, MarkedTyped
  <2> QED
    BY <1>3, <2>1, <2>2 DEF Last
<1>9. CASE fault = "cancelled_before_placed"
  <2>1. Handler(fault, rows) = <<Marked(rows[1], fault)>> \o rows
    BY <1>9, Places DEF Handler
  <2>2. Marked(rows[1], fault) \in RowAt(clock)
    BY <1>1, MarkedTyped
  <2> QED
    BY <1>3, <2>1, <2>2
<1>10. CASE fault = "out_of_order_within_batch"
  <2>1. Handler(fault, rows) = Reverse(rows)
    BY <1>10, Places DEF Handler
  <2>2. \A i \in 1..Len(rows) : (Len(rows) - i) + 1 \in 1..Len(rows)
    BY <1>1
  <2>3. Reverse(rows) \in [1..Len(rows) -> RowAt(clock)]
    BY <1>1, <2>2 DEF Reverse
  <2> QED
    BY <1>2, <2>1, <2>3
<1> QED
  BY <1>4, <1>5, <1>6, <1>7, <1>8, <1>9, <1>10 DEF KnownFaults

\* A batch starts from rows without faults.
LEMMA BaseRowsTyped ==
    ASSUME NEW clock, NEW n \in Nat \ {0}
    PROVE  BaseRows(clock, n) \in Batches(clock)
<1>1. BaseRows(clock, n) \in [1..n -> RowAt(clock)]
  BY DEF BaseRows, RowAt
<1>2. BaseRows(clock, n) \in Seq(RowAt(clock)) /\ Len(BaseRows(clock, n)) = n
  BY <1>1
<1>3. Len(<<>>) = 0
  OBVIOUS
<1> QED
  BY <1>2, <1>3 DEF Batches

\* The faults that a handler has applied so far leave a batch, or Null.
LEMMA FaultsTyped ==
    ASSUME NEW source, NEW clock, NEW base \in Batches(clock), NEW faults \in Seq(KnownFaults)
    PROVE  ApplyFaults(base, faults, source) \in Batches(clock) \cup {Null}
<1> DEFINE V == Batches(clock) \cup {Null}
           I == 1..Len(faults)
           After(rows, fault) == IF rows = Null \/ ~Handles(fault, source, rows)
                                 THEN Null ELSE Handler(fault, rows)
           step == [x \in V \X I |-> After(x[1], faults[x[2]])]
           It(g) == [t \in SUBSET I |-> IF t = {} THEN base
                       ELSE After(g[t \ {Highest(t)}], faults[Highest(t)])]
           g == CHOOSE h : h = It(h)
<1>1. Len(faults) \in Nat /\ DOMAIN faults = I /\ \A i \in I : faults[i] \in KnownFaults
  BY LenProperties
<1>2. IsFiniteSet(I) /\ \A t \in SUBSET I : t # {} => Highest(t) \in t
  <2>1. IsFiniteSet(I)
    BY <1>1, FS_Interval
  <2>2. \A t \in SUBSET I : t # {} => Highest(t) \in t
    BY <1>1, HighestIn
  <2> QED
    BY <2>1, <2>2
<1>3. \A rows \in V, fault \in KnownFaults : After(rows, fault) \in V
  BY HandlerTyped
<1> HIDE DEF After, V
<1>4. step \in [V \X I -> V]
  BY <1>1, <1>3
<1>5. \A rows \in V, i \in I : step[<<rows, i>>] = After(rows, faults[i])
  OBVIOUS
<1>6. base \in V
  BY DEF V
<1> HIDE DEF step, I
<1>7. PICK h : FoldsUp(h, base, step, I)
  BY <1>2, FoldsExist
<1>8. \A t \in SUBSET I : h[t] \in V
  BY <1>2, <1>4, <1>6, <1>7, FoldsStay
<1>9. \A t \in SUBSET I : t # {} =>
          step[<<h[t \ {Highest(t)}], Highest(t)>>]
            = After(h[t \ {Highest(t)}], faults[Highest(t)])
  <2> TAKE t \in SUBSET I
  <2> HAVE t # {}
  <2>1. Highest(t) \in I /\ t \ {Highest(t)} \in SUBSET I
    BY <1>2
  <2> QED
    BY <1>5, <1>8, <2>1
<1>10. h = It(h)
  BY <1>7, <1>9 DEF FoldsUp
<1> HIDE DEF It
<1>11. g = It(g)
  BY <1>10
<1>12. g[{}] = base /\ \A t \in SUBSET I : t # {} =>
           g[t] = After(g[t \ {Highest(t)}], faults[Highest(t)])
  <2>1. \A t \in SUBSET I : It(g)[t] = IF t = {} THEN base
                       ELSE After(g[t \ {Highest(t)}], faults[Highest(t)])
    BY DEF It
  <2>2. \A t \in SUBSET I : g[t] = It(g)[t]
    BY <1>11
  <2> QED
    BY <2>1, <2>2
<1>13. FoldLeft(After, base, faults) = g[I]
  BY <1>1 DEF FoldLeft, MapThenFoldSet, Max, Highest, It
<1> HIDE DEF g
<1> DEFINE Good == {t \in SUBSET I : g[t] \in V}
<1>14. ASSUME NEW t \in SUBSET I, \A u \in SUBSET t : u # t => u \in Good
       PROVE  t \in Good
  <2>1. CASE t = {}
    BY <1>6, <1>12, <2>1
  <2>2. CASE t # {}
    <3>1. Highest(t) \in t
      BY <1>2, <2>2
    <3>2. t \ {Highest(t)} \in Good
      BY <1>14, <3>1
    <3>3. faults[Highest(t)] \in KnownFaults
      BY <1>1, <3>1 DEF I
    <3> QED
      BY <1>3, <1>12, <2>2, <3>2, <3>3
  <2> QED
    BY <2>1, <2>2
<1> HIDE DEF Good
<1>15. SUBSET I \subseteq Good
  BY <1>2, <1>14, SubsetInduction
<1>16. g[I] \in V
  BY <1>15 DEF Good
<1> QED
  BY <1>13, <1>16 DEF After, V, ApplyFaults

\* What is selected from a list is a list of its elements.
LEMMA SelectedTyped ==
    ASSUME NEW S, NEW s \in Seq(S), NEW wanted
    PROVE  Selected(s, wanted) \in Seq(S \cap wanted)
<1> DEFINE V == Seq(S \cap wanted)
           I == 1..Len(s)
           After(kept, e) == IF e \in wanted THEN Append(kept, e) ELSE kept
           step == [x \in V \X I |-> After(x[1], s[x[2]])]
           It(g) == [t \in SUBSET I |-> IF t = {} THEN <<>>
                       ELSE After(g[t \ {Highest(t)}], s[Highest(t)])]
           g == CHOOSE h : h = It(h)
<1>1. Len(s) \in Nat /\ DOMAIN s = I /\ \A i \in I : s[i] \in S
  BY LenProperties
<1>2. IsFiniteSet(I) /\ \A t \in SUBSET I : t # {} => Highest(t) \in t
  <2>1. IsFiniteSet(I)
    BY <1>1, FS_Interval
  <2>2. \A t \in SUBSET I : t # {} => Highest(t) \in t
    BY <1>1, HighestIn
  <2> QED
    BY <2>1, <2>2
<1>3. \A kept \in V, e \in S : After(kept, e) \in V
  BY AppendProperties
<1>4. <<>> \in V
  BY EmptySeq
<1> HIDE DEF After, V
<1>5. step \in [V \X I -> V]
  BY <1>1, <1>3
<1>6. \A kept \in V, i \in I : step[<<kept, i>>] = After(kept, s[i])
  OBVIOUS
<1> HIDE DEF step, I
<1>7. PICK h : FoldsUp(h, <<>>, step, I)
  BY <1>2, FoldsExist
<1>8. \A t \in SUBSET I : h[t] \in V
  BY <1>2, <1>4, <1>5, <1>7, FoldsStay
<1>9. \A t \in SUBSET I : t # {} =>
          step[<<h[t \ {Highest(t)}], Highest(t)>>]
            = After(h[t \ {Highest(t)}], s[Highest(t)])
  <2> TAKE t \in SUBSET I
  <2> HAVE t # {}
  <2>1. Highest(t) \in I /\ t \ {Highest(t)} \in SUBSET I
    BY <1>2
  <2> QED
    BY <1>6, <1>8, <2>1
<1>10. h = It(h)
  BY <1>7, <1>9 DEF FoldsUp
<1> HIDE DEF It
<1>11. g = It(g)
  BY <1>10
<1>12. g[{}] = <<>> /\ \A t \in SUBSET I : t # {} =>
           g[t] = After(g[t \ {Highest(t)}], s[Highest(t)])
  <2>1. \A t \in SUBSET I : It(g)[t] = IF t = {} THEN <<>>
                       ELSE After(g[t \ {Highest(t)}], s[Highest(t)])
    BY DEF It
  <2>2. \A t \in SUBSET I : g[t] = It(g)[t]
    BY <1>11
  <2> QED
    BY <2>1, <2>2
<1>13. FoldLeft(After, <<>>, s) = g[I]
  BY <1>1 DEF FoldLeft, MapThenFoldSet, Max, Highest, It
<1> HIDE DEF g
<1> DEFINE Good == {t \in SUBSET I : g[t] \in V}
<1>14. ASSUME NEW t \in SUBSET I, \A u \in SUBSET t : u # t => u \in Good
       PROVE  t \in Good
  <2>1. CASE t = {}
    BY <1>4, <1>12, <2>1
  <2>2. CASE t # {}
    <3>1. Highest(t) \in t
      BY <1>2, <2>2
    <3>2. t \ {Highest(t)} \in Good
      BY <1>14, <3>1
    <3>3. s[Highest(t)] \in S
      BY <1>1, <3>1 DEF I
    <3> QED
      BY <1>3, <1>12, <2>2, <3>2, <3>3
  <2> QED
    BY <2>1, <2>2
<1> HIDE DEF Good
<1>15. SUBSET I \subseteq Good
  BY <1>2, <1>14, SubsetInduction
<1>16. g[I] \in V
  BY <1>15 DEF Good
<1> QED
  BY <1>13, <1>16 DEF After, V, Selected

\* f puts lists one after the other: the first none, the first one, and so on.
Flattens(f, seqs, F) ==
    /\ f \in [0..Len(seqs) -> Seq(F)]
    /\ f[0] = <<>>
    /\ \A i \in 1..Len(seqs) : f[i] = f[i - 1] \o seqs[i]

\* So does FlattenSeq, with all of them.
LEMMA FlattenSays ==
    ASSUME NEW F, NEW seqs \in Seq(Seq(F))
    PROVE  \E f : Flattens(f, seqs, F) /\ FlattenSeq(seqs) = f[Len(seqs)]
<1>1. CASE Len(seqs) = 0
  <2>1. seqs = <<>> /\ FlattenSeq(seqs) = <<>>
    BY <1>1, EmptySeq DEF FlattenSeq
  <2> DEFINE f == [i \in 0..0 |-> <<>>]
  <2>2. f \in [0..0 -> Seq(F)]
    BY EmptySeq
  <2>3. Flattens(f, seqs, F)
    BY <1>1, <2>2 DEF Flattens
  <2> QED
    BY <1>1, <2>1, <2>3
<1>2. CASE Len(seqs) # 0
  <2> DEFINE V == Seq(F)
             n == Len(seqs)
             I == 1..n
             It(f) == [i \in I |-> IF i = 1 THEN seqs[i] ELSE f[i - 1] \o seqs[i]]
             f == CHOOSE h : h = It(h)
             step == [x \in V \X I |-> x[1] \o seqs[x[2]]]
  <2>1. n \in Nat \ {0} /\ \A i \in I : seqs[i] \in V
    BY <1>2, LenProperties
  <2>2. IsFiniteSet(I) /\ \A t \in SUBSET I : t # {} => Highest(t) \in t
    <3>1. IsFiniteSet(I)
      BY <2>1, FS_Interval
    <3>2. \A t \in SUBSET I : t # {} => Highest(t) \in t
      BY <2>1, HighestIn
    <3> QED
      BY <3>1, <3>2
  <2>3. <<>> \in V /\ \A a \in V, b \in V : a \o b \in V
    BY EmptySeq, ConcatProperties
  <2>4. \A a \in V : <<>> \o a = a
    BY ConcatEmptySeq
  <2> HIDE DEF V
  <2>5. step \in [V \X I -> V]
    BY <2>1, <2>3
  <2>6. \A a \in V, i \in I : step[<<a, i>>] = a \o seqs[i]
    OBVIOUS
  <2> HIDE DEF step, I
  <2>7. PICK g : FoldsUp(g, <<>>, step, I)
    BY <2>2, FoldsExist
  <2>8. \A t \in SUBSET I : g[t] \in V
    BY <2>2, <2>3, <2>5, <2>7, FoldsStay
  <2>9. g[{}] = <<>> /\ \A t \in SUBSET I : t # {} => g[t] = step[<<g[t \ {Highest(t)}], Highest(t)>>]
    <3> DEFINE G(h) == [t \in SUBSET I |-> IF t = {} THEN <<>>
                                          ELSE step[<<h[t \ {Highest(t)}], Highest(t)>>]]
    <3>1. g = G(g)
      BY <2>7 DEF FoldsUp
    <3>2. \A t \in SUBSET I : G(g)[t] = IF t = {} THEN <<>>
                                          ELSE step[<<g[t \ {Highest(t)}], Highest(t)>>]
      OBVIOUS
    <3> HIDE DEF G
    <3> QED
      BY <3>1, <3>2
  <2> DEFINE p == [i \in I |-> g[1..i]]
  <2>10. \A i \in I : g[1..i] = g[1..(i - 1)] \o seqs[i]
    <3> TAKE i \in I
    <3> DEFINE t == 1..i
    <3>1. t \in SUBSET I /\ t # {}
      <4>1. i \in t /\ \A x \in t : x \in I
        BY <2>1 DEF I
      <4> QED
        BY <4>1
    <3>2. Highest(t) = i /\ t \ {Highest(t)} = 1..(i - 1)
      BY <2>1, HighestUpTo DEF I
    <3>3. 1..(i - 1) \in SUBSET I
      BY <2>1 DEF I
    <3> HIDE DEF t
    <3>4. g[t] = step[<<g[1..(i - 1)], i>>]
      BY <2>9, <3>1, <3>2
    <3>5. g[t] = g[1..(i - 1)] \o seqs[i]
      BY <2>6, <2>8, <3>3, <3>4
    <3> QED
      BY <3>5 DEF t
  <2>11. p = It(p)
    <3>1. ASSUME NEW i \in I
          PROVE  g[1..i] = IF i = 1 THEN seqs[i] ELSE p[i - 1] \o seqs[i]
      <4>1. CASE i = 1
        <5>1. 1..(i - 1) = {}
          BY <4>1
        <5>2. g[1..i] = <<>> \o seqs[i]
          BY <2>9, <2>10, <5>1
        <5>3. g[1..i] = seqs[i]
          BY <2>1, <2>4, <5>2
        <5> QED
          BY <4>1, <5>3
      <4>2. CASE i # 1
        <5>1. i - 1 \in I
          BY <2>1, <4>2 DEF I
        <5> QED
          BY <2>10, <4>2, <5>1
      <4> QED
        BY <4>1, <4>2
    <3> QED
      BY <3>1
  <2> HIDE DEF p, It
  <2>12. f = It(f)
    BY <2>11
  <2>13. FlattenSeq(seqs) = f[n]
    BY <1>2 DEF FlattenSeq, It, I
  <2> HIDE DEF f
  <2>14. \A i \in I : f[i] = IF i = 1 THEN seqs[i] ELSE f[i - 1] \o seqs[i]
    <3>1. \A i \in I : It(f)[i] = IF i = 1 THEN seqs[i] ELSE f[i - 1] \o seqs[i]
      BY DEF It
    <3> QED
      BY <2>12, <3>1
  <2> DEFINE Good == {i \in 0..n : i # 0 => f[i] \in V}
  <2>15. 0 \in Good /\ \A i \in 0..n : i \in Good /\ i < n => i + 1 \in Good
    <3>1. 0 \in Good
      BY <2>1
    <3>2. ASSUME NEW i \in 0..n, i \in Good, i < n PROVE i + 1 \in Good
      <4>1. i + 1 \in I /\ i + 1 \in 0..n /\ (i + 1) - 1 = i
        BY <2>1, <3>2 DEF I
      <4>2. f[i + 1] = IF i + 1 = 1 THEN seqs[i + 1] ELSE f[i] \o seqs[i + 1]
        BY <2>14, <4>1
      <4>3. f[i + 1] \in V
        BY <2>1, <2>3, <3>2, <4>1, <4>2
      <4> QED
        BY <4>1, <4>3
    <3> QED
      BY <3>1, <3>2
  <2> HIDE DEF Good
  <2>16. 0..n \subseteq Good
    BY <2>1, <2>15, InductionUpTo
  <2> DEFINE q == [i \in 0..n |-> IF i = 0 THEN <<>> ELSE f[i]]
  <2>17. q \in [0..n -> V]
    <3>1. \A i \in 0..n : i # 0 => f[i] \in V
      BY <2>16 DEF Good
    <3> QED
      BY <2>1, <2>3, <3>1
  <2>18. q[0] = <<>> /\ q[n] = f[n]
    BY <2>1
  <2>19. ASSUME NEW i \in 1..n
         PROVE  q[i] = q[i - 1] \o seqs[i]
    <3>1. i \in I /\ q[i] = f[i] /\ i - 1 \in 0..n
      BY <2>1 DEF I
    <3>2. CASE i = 1
      <4>1. q[i - 1] = <<>>
        BY <3>2, <3>1
      <4> QED
        BY <2>1, <2>4, <2>14, <3>1, <3>2, <4>1
    <3>3. CASE i # 1
      <4>1. q[i - 1] = f[i - 1]
        BY <3>1, <3>3
      <4> QED
        BY <2>14, <3>1, <3>3, <4>1
    <3> QED
      BY <3>2, <3>3
  <2> HIDE DEF q
  <2>20. Flattens(q, seqs, F)
    BY <2>17, <2>18, <2>19 DEF Flattens, V
  <2> QED
    BY <2>13, <2>18, <2>20
<1> QED
  BY <1>1, <1>2

\* The files of several batches, one after the other, are a list of files.
LEMMA FlattenTyped ==
    ASSUME NEW F, NEW seqs \in Seq(Seq(F))
    PROVE  FlattenSeq(seqs) \in Seq(F)
<1>1. PICK f : Flattens(f, seqs, F) /\ FlattenSeq(seqs) = f[Len(seqs)]
  BY FlattenSays
<1>2. Len(seqs) \in Nat
  BY LenProperties
<1> QED
  BY <1>1, <1>2 DEF Flattens

\* Its elements are those of the lists.
LEMMA FlattenRange ==
    ASSUME NEW F, NEW seqs \in Seq(Seq(F))
    PROVE  Range(FlattenSeq(seqs)) = UNION {Range(seqs[i]) : i \in 1..Len(seqs)}
<1> DEFINE n == Len(seqs)
           All(i) == UNION {Range(seqs[j]) : j \in 1..i}
<1>1. PICK f : Flattens(f, seqs, F) /\ FlattenSeq(seqs) = f[n]
  BY FlattenSays
<1>2. n \in Nat /\ \A i \in 1..n : seqs[i] \in Seq(F)
  BY LenProperties
<1> DEFINE Good == {i \in 0..n : Range(f[i]) = All(i)}
<1>3. 0 \in Good
  <2>1. Range(f[0]) = {}
    BY <1>1 DEF Flattens, Range
  <2>2. All(0) = {}
    OBVIOUS
  <2> QED
    BY <1>2, <2>1, <2>2
<1>4. ASSUME NEW i \in 0..n, i \in Good, i < n
      PROVE  i + 1 \in Good
  <2>1. i + 1 \in 1..n /\ (i + 1) - 1 = i
    BY <1>2, <1>4
  <2>2. f[i + 1] = f[i] \o seqs[i + 1] /\ f[i] \in Seq(F)
    BY <1>1, <2>1 DEF Flattens
  <2>3. Range(f[i + 1]) = Range(f[i]) \cup Range(seqs[i + 1])
    BY <1>2, <2>1, <2>2, RangeConcatenation
  <2>4. 1..(i + 1) = (1..i) \cup {i + 1}
    BY <1>2
  <2>5. All(i + 1) = All(i) \cup Range(seqs[i + 1])
    BY <2>4
  <2>6. Range(f[i]) = All(i)
    BY <1>4
  <2>7. Range(f[i + 1]) = All(i + 1)
    BY <2>3, <2>5, <2>6
  <2>8. i + 1 \in 0..n
    BY <1>2, <2>1
  <2> HIDE DEF All
  <2> QED
    BY <2>7, <2>8
<1> HIDE DEF Good
<1>5. 0..n \subseteq Good
  BY <1>2, <1>3, <1>4, InductionUpTo
<1>6. n \in Good
  BY <1>2, <1>5
<1> QED
  BY <1>1, <1>6 DEF Good

\* A list cut at the places B, and put together again.
LEMMA FlattenCut ==
    ASSUME NEW S, NEW rows \in Seq(S), NEW k \in Nat, NEW B \in [0..k -> 0..Len(rows)],
           B[0] = 0, B[k] = Len(rows),
           \A i \in 1..k : B[i - 1] <= B[i],
           NEW parts, parts = [i \in 1..k |-> parts[i]],
           \A i \in 1..k : parts[i] = SubSeq(rows, B[i - 1] + 1, B[i])
    PROVE  FlattenSeq(parts) = rows
<1>1. Len(rows) \in Nat /\ \A j \in 1..Len(rows) : rows[j] \in S
  BY LenProperties
<1>2. \A i \in 0..k : B[i] \in 0..Len(rows)
  OBVIOUS
<1>3. \A i \in 1..k : SubSeq(rows, B[i - 1] + 1, B[i]) \in Seq(S)
  <2> TAKE i \in 1..k
  <2>1. B[i - 1] \in 0..Len(rows) /\ B[i] \in 0..Len(rows)
    BY <1>2
  <2>2. \A j \in (B[i - 1] + 1)..B[i] : rows[j] \in S
    BY <1>1, <2>1
  <2> QED
    BY <1>1, <2>1, <2>2, SubSeqProperties
<1>4. parts \in [1..k -> Seq(S)]
  BY <1>3
<1>5. parts \in Seq(Seq(S)) /\ Len(parts) = k
  BY <1>4, FunctionIsList
<1>6. PICK f : Flattens(f, parts, S) /\ FlattenSeq(parts) = f[k]
  BY <1>5, FlattenSays
<1> DEFINE Good == {i \in 0..k : f[i] = SubSeq(rows, 1, B[i])}
<1>7. 0 \in Good
  <2>1. SubSeq(rows, 1, 0) = <<>>
    BY SubSeqEmpty
  <2>2. f[0] = <<>>
    BY <1>6 DEF Flattens
  <2>3. f[0] = SubSeq(rows, 1, B[0])
    BY <2>1, <2>2
  <2>4. 0 \in 0..k
    OBVIOUS
  <2> QED
    BY <2>3, <2>4
<1>8. ASSUME NEW i \in 0..k, i \in Good, i < k
      PROVE  i + 1 \in Good
  <2>1. i + 1 \in 1..k /\ (i + 1) - 1 = i
    BY <1>8
  <2>2. f[i + 1] = f[i] \o parts[i + 1]
    BY <1>5, <1>6, <2>1 DEF Flattens
  <2>3. parts[i + 1] = SubSeq(rows, B[i] + 1, B[i + 1])
    BY <2>1
  <2>4. /\ B[i] \in 0..Len(rows) /\ B[i + 1] \in 0..Len(rows) /\ B[i] <= B[i + 1]
    BY <1>2, <2>1
  <2>5. SubSeq(rows, 1, B[i]) \o SubSeq(rows, B[i] + 1, B[i + 1]) = SubSeq(rows, 1, B[i + 1])
    <3> DEFINE x == B[i]
               y == B[i + 1]
    <3>1. x \in 0..Len(rows) /\ y \in x..Len(rows) /\ 1 \in 1..(Len(rows) + 1) /\ 1 - 1 = 0
      BY <1>1, <2>4
    <3> HIDE DEF x, y
    <3>2. SubSeq(rows, 1, x) \o SubSeq(rows, x + 1, y) = SubSeq(rows, 1, y)
      BY <3>1, ConcatAdjacentSubSeq
    <3> QED
      BY <3>2 DEF x, y
  <2>6. f[i] = SubSeq(rows, 1, B[i])
    BY <1>8
  <2>7. f[i + 1] = SubSeq(rows, 1, B[i + 1])
    BY <2>2, <2>3, <2>5, <2>6
  <2>8. i + 1 \in 0..k
    BY <2>1
  <2> QED
    BY <2>7, <2>8
<1> HIDE DEF Good
<1>9. 0..k \subseteq Good
  BY <1>7, <1>8, InductionUpTo
<1>10. k \in Good
  BY <1>9
<1>11. f[k] = SubSeq(rows, 1, Len(rows))
  BY <1>10 DEF Good
<1> QED
  BY <1>6, <1>11, SubSeqFull

\* Arithmetic that the solver does not find inside a larger step.
LEMMA ProductInt == \A a, b \in Int : a * b \in Int
OBVIOUS

LEMMA QuotientNat == \A a \in Nat, b \in Nat \ {0} : a \div b \in Nat
BY SMT

\* Greatest and least of two numbers.
LEMMA MaxOfTwo ==
    ASSUME NEW a \in Int, NEW b \in Int
    PROVE  /\ Max({a, b}) = IF a >= b THEN a ELSE b
           /\ Min({a, b}) = IF a <= b THEN a ELSE b
<1>1. \E x \in {a, b} : \A y \in {a, b} : x >= y
  OBVIOUS
<1>2. \E x \in {a, b} : \A y \in {a, b} : x <= y
  OBVIOUS
<1>3. Max({a, b}) \in {a, b} /\ \A y \in {a, b} : Max({a, b}) >= y
  BY <1>1 DEF Max
<1>4. Min({a, b}) \in {a, b} /\ \A y \in {a, b} : Min({a, b}) <= y
  BY <1>2 DEF Min
<1> QED
  BY <1>3, <1>4

\* An emitter's part of a batch.
LEMMA PartTyped ==
    ASSUME NEW S, NEW rows \in Seq(S), NEW n \in Nat \ {0}, NEW i \in 1..n
    PROVE  Part(rows, i, n) \in Seq(S)
<1> DEFINE chunk == Max({1, Len(rows) \div n})
           last  == IF i = n THEN Len(rows) ELSE Min({i * chunk, Len(rows)})
           first == (i - 1) * chunk + 1
<1>1. Len(rows) \in Nat /\ \A j \in 1..Len(rows) : rows[j] \in S
  BY LenProperties
<1>2. chunk \in Nat \ {0}
  <2>1. Len(rows) \div n \in Nat
    BY <1>1, QuotientNat
  <2> DEFINE q == Len(rows) \div n
  <2> HIDE DEF q
  <2>2. Max({1, q}) \in Nat \ {0}
    BY <2>1, MaxOfTwo DEF q
  <2> QED
    BY <2>2 DEF q
<1> HIDE DEF chunk
<1>3. i * chunk \in Int /\ (i - 1) * chunk \in Nat
  BY <1>2, ProductInt
<1>4. last \in Int /\ last <= Len(rows)
  <2> DEFINE p == i * chunk
  <2>1. p \in Int /\ Len(rows) \in Int
    BY <1>1, <1>3
  <2>2. Min({p, Len(rows)}) = IF p <= Len(rows) THEN p ELSE Len(rows)
    <3> HIDE DEF p
    <3> QED
      BY <2>1, MaxOfTwo, Zenon
  <2> QED
    BY <1>1, <2>1, <2>2
<1>5. first \in Nat \ {0}
  BY <1>3
<1>6. Part(rows, i, n) = SubSeq(rows, first, last)
  BY DEF Part, chunk
<1> HIDE DEF first, last
<1>7. \A j \in first..last : rows[j] \in S
  BY <1>1, <1>4, <1>5
<1> QED
  BY <1>4, <1>5, <1>6, <1>7, SubSeqProperties

\* The emitters' parts of a batch are the pieces of it, in its order: the first ones
\* have rows, and those that are left out have none.
LEMMA PartsCut ==
    ASSUME NEW S, NEW rows \in Seq(S), rows # <<>>, NEW n \in Nat \ {0}
    PROVE  \E k \in 1..n : \E B \in [0..k -> 0..Len(rows)] :
               /\ B[0] = 0 /\ B[k] = Len(rows)
               /\ \A i \in 1..k : /\ B[i - 1] < B[i]
                                  /\ Part(rows, i, n) = SubSeq(rows, B[i - 1] + 1, B[i])
               /\ \A i \in 1..n : i > k => Part(rows, i, n) = <<>>
<1> DEFINE m == Len(rows)
           q == Max({1, m \div n})
           K == {i \in 1..n : (i - 1) * q < m}
<1>1. m \in Nat \ {0}
  BY EmptySeq
<1>2. q \in Nat \ {0}
  <2>1. m \div n \in Nat
    BY <1>1, QuotientNat
  <2> DEFINE p == m \div n
  <2> HIDE DEF p
  <2>2. Max({1, p}) \in Nat \ {0}
    BY <2>1, MaxOfTwo DEF p
  <2> QED
    BY <2>2 DEF p
<1>3. \A i \in 1..n : Part(rows, i, n) =
          SubSeq(rows, (i - 1) * q + 1, IF i = n THEN m ELSE Min({i * q, m}))
  BY DEF Part
<1> HIDE DEF q, m
<1>4. \A i \in Int : i * q \in Int /\ (i - 1) * q \in Int /\ (i - 1) * q + q = i * q
  <2> TAKE i \in Int
  <2>1. i * q \in Int /\ (i - 1) * q \in Int
    BY <1>2, ProductInt
  <2>2. (i - 1) * q + q = i * q
    BY <1>2, SMTT(60)
  <2> QED
    BY <2>1, <2>2
<1>5. K \in SUBSET Int /\ IsFiniteSet(K) /\ 1 \in K
  <2>1. IsFiniteSet(1..n)
    BY FS_Interval
  <2>2. (1 - 1) * q = 0
    BY <1>2
  <2> QED
    BY <1>1, <2>1, <2>2, FS_Subset
<1>6. PICK k \in K : \A x \in K : k >= x
  BY <1>5, IntGreatest
<1>7. k \in 1..n /\ (k - 1) * q < m
  BY <1>6
\* The earlier ones are full, the later ones empty.
<1>8. ASSUME NEW i \in 1..k
      PROVE  (i - 1) * q < m
  <2>1. (i - 1) * q <= (k - 1) * q
    <3> DEFINE a == i - 1
               b == k - 1
    <3>1. a \in Nat /\ b \in Nat /\ a <= b
      BY <1>7
    <3> HIDE DEF a, b
    <3>2. \A x, y \in Nat, z \in Nat : x <= y => x * z <= y * z
      BY SMTT(60)
    <3>3. a * q <= b * q
      BY <1>2, <3>1, <3>2
    <3> QED
      BY <3>3 DEF a, b
  <2>2. (i - 1) * q \in Int /\ (k - 1) * q \in Int
    BY <1>4, <1>7
  <2> QED
    BY <1>1, <1>7, <2>1, <2>2
<1>9. ASSUME NEW i \in 1..n, i > k
      PROVE  ~ (i - 1) * q < m
  BY <1>6, <1>7, <1>9
<1> HIDE DEF K
<1> DEFINE B == [i \in 0..k |-> IF i = k THEN m ELSE i * q]
<1>10. B[0] = 0 /\ B[k] = m
  <2>1. 0 * q = 0
    BY <1>2
  <2> QED
    BY <1>7, <2>1
<1>11. \A i \in 1..k : B[i - 1] = (i - 1) * q
  BY <1>7
<1>12. \A i \in 1..k : i # k => i * q < m
  <2> TAKE i \in 1..k
  <2> HAVE i # k
  <2>1. i + 1 \in 1..k /\ (i + 1) - 1 = i
    BY <1>7
  <2> QED
    BY <1>8, <2>1
<1>13. B \in [0..k -> 0..m]
  <2>1. ASSUME NEW i \in 0..k
        PROVE  (IF i = k THEN m ELSE i * q) \in 0..m
    <3>1. CASE i = k
      BY <1>1, <3>1
    <3>2. CASE i # k /\ i # 0
      <4>0. i \in 1..k /\ i \in Int
        BY <1>7, <3>2
      <4>1. i * q < m /\ i * q \in Int
        BY <1>4, <1>12, <3>2, <4>0
      <4>2. i * q >= 0
        <5>1. \A x, y \in Nat : x * y >= 0
          BY SMTT(60)
        <5> QED
          BY <1>2, <5>1
      <4> QED
        BY <1>1, <3>2, <4>1, <4>2
    <3>3. CASE i # k /\ i = 0
      <4>1. 0 * q = 0
        BY <1>2
      <4> QED
        BY <1>1, <3>3, <4>1
    <3> QED
      BY <3>1, <3>2, <3>3
  <2> QED
    BY <2>1
<1>14. ASSUME NEW i \in 1..k
       PROVE  /\ B[i - 1] < B[i]
              /\ Part(rows, i, n) = SubSeq(rows, B[i - 1] + 1, B[i])
  <2>1. i \in 1..n /\ i \in Int
    BY <1>7
  <2> DEFINE x == (i - 1) * q
             y == i * q
  <2>2. x \in Int /\ y \in Int /\ x + q = y /\ x < m
    BY <1>4, <1>8, <2>1
  <2>3. B[i - 1] = x
    BY <1>11
  <2>4. B[i] = IF i = k THEN m ELSE y
    OBVIOUS
  <2>5. i # k => y < m
    BY <1>12
  <2>6. i = k /\ k # n => ~ y < m
    <3> HAVE i = k /\ k # n
    <3>1. i + 1 \in 1..n /\ i + 1 > k /\ (i + 1) - 1 = i
      BY <1>7
    <3> QED
      BY <1>9, <3>1
  <2>7. Part(rows, i, n) = SubSeq(rows, x + 1, IF i = n THEN m ELSE Min({y, m}))
    BY <1>3, <2>1
  <2> HIDE DEF x, y, B
  <2>8. B[i - 1] < B[i]
    BY <1>1, <1>2, <2>2, <2>3, <2>4
  <2>9. (IF i = n THEN m ELSE Min({y, m})) = B[i]
    <3>1. y \in Int /\ m \in Int
      BY <1>1, <2>2
    <3>2. Min({y, m}) = IF y <= m THEN y ELSE m
      BY <3>1, MaxOfTwo, Zenon
    <3> QED
      BY <1>1, <1>7, <2>2, <2>4, <2>5, <2>6, <3>2
  <2> QED
    BY <2>3, <2>7, <2>8, <2>9
<1>15. ASSUME NEW i \in 1..n, i > k
       PROVE  Part(rows, i, n) = <<>>
  <2> DEFINE x == (i - 1) * q
             y == i * q
  <2>1. x \in Int /\ y \in Int /\ ~ x < m
    BY <1>4, <1>9, <1>15
  <2>2. Part(rows, i, n) = SubSeq(rows, x + 1, IF i = n THEN m ELSE Min({y, m}))
    BY <1>3
  <2> HIDE DEF x, y
  <2>3. Min({y, m}) = IF y <= m THEN y ELSE m
    <3>1. y \in Int /\ m \in Int
      BY <1>1, <2>1
    <3> QED
      BY <3>1, MaxOfTwo, Zenon
  <2> DEFINE z == IF i = n THEN m ELSE Min({y, m})
  <2>4. z \in Int /\ z < x + 1
    BY <1>1, <2>1, <2>3
  <2> HIDE DEF z
  <2>5. SubSeq(rows, x + 1, z) = <<>>
    BY <2>1, <2>4, SubSeqEmpty
  <2> QED
    BY <2>2, <2>5 DEF z
<1> HIDE DEF B
<1> QED
  BY <1>7, <1>10, <1>13, <1>14, <1>15 DEF m

\* A file as the writer puts it into the volume.
File ==
    [path : [emitter : {Null} \cup UNION {Range(Emitters[s]) : s \in DeclaredSources},
             file : [source : DeclaredSources, clock : Clocks, seq : Nat]],
     records : Seq(Row)]

\* What Parses says of a scenario with batches.
LEMMA ScenarioParsed ==
    ASSUME NEW t, Parses(t), ~IsReplay(t)
    PROVE  /\ t \in Names
           /\ Documents[t].logical_clock \in Clocks
           /\ "batches" \in DOMAIN Documents[t]
           /\ DOMAIN Documents[t].batches \subseteq DeclaredSources
           /\ \A s \in DOMAIN Documents[t].batches :
                  LET spec == Documents[t].batches[s]
                  IN  /\ spec.rows \in Nat \ {0}
                      /\ Optional(spec, "faults", <<>>) \in Seq(KnownFaults)
                      /\ Optional(spec, "emitters", <<>>)
                             \in Seq({Null} \cup Range(Emitters[s]))
<1>1. /\ t \in Names /\ Documents[t].logical_clock \in Clocks
      /\ "batches" \in DOMAIN Documents[t] /\ ValidBatches(Documents[t].batches)
  <2>1. "batches" \in DOMAIN Documents[t]
    BY DEF Parses, IsReplay
  <2>2. ValidBatches(Documents[t].batches)
    BY DEF Parses
  <2>3. t \in Names /\ Documents[t].logical_clock \in Clocks
    BY DEF Parses
  <2> QED
    BY <2>1, <2>2, <2>3
<1>2. ASSUME NEW s \in DOMAIN Documents[t].batches
      PROVE  LET spec == Documents[t].batches[s]
             IN  /\ s \in DeclaredSources
                 /\ spec.rows \in Nat \ {0}
                 /\ Optional(spec, "faults", <<>>) \in Seq(KnownFaults)
                 /\ Optional(spec, "emitters", <<>>) \in Seq({Null} \cup Range(Emitters[s]))
  <2> DEFINE spec == Documents[t].batches[s]
             faults == Optional(spec, "faults", <<>>)
             emitters == Optional(spec, "emitters", <<>>)
  <2>1. /\ s \in DeclaredSources
        /\ Optional(spec, "rows", 0) \in Nat \ {0}
        /\ Range(faults) \subseteq KnownFaults
        /\ "emitters" \in DOMAIN spec => Range(spec.emitters) \subseteq Range(Emitters[s])
    BY <1>1 DEF ValidBatches
  <2>2. IsList(faults) /\ IsList(emitters)
    BY <1>1, ListsAssumption
  <2>3. spec.rows \in Nat \ {0}
    BY <2>1 DEF Optional
  <2>4. faults \in Seq(KnownFaults)
    <3> HIDE DEF faults, KnownFaults
    <3> QED
      BY <2>1, <2>2, SeqMonotonic DEF IsList
  <2>5. emitters \in Seq({Null} \cup Range(Emitters[s]))
    <3>1. CASE "emitters" \in DOMAIN spec
      <4>1. emitters = spec.emitters
        BY <3>1 DEF Optional
      <4>2. Range(emitters) \subseteq {Null} \cup Range(Emitters[s])
        BY <2>1, <3>1, <4>1
      <4> HIDE DEF emitters
      <4> QED
        BY <2>2, <4>2, SeqMonotonic DEF IsList
    <3>2. CASE "emitters" \notin DOMAIN spec
      <4>1. emitters = <<>>
        BY <3>2 DEF Optional
      <4> QED
        BY <4>1, EmptySeq
    <3> QED
      BY <3>1, <3>2
  <2> QED
    BY <2>1, <2>3, <2>4, <2>5
<1> QED
  BY <1>1, <1>2

\* The rows of a batch with the faults of its document.
LEMMA FaultedTyped ==
    ASSUME NEW t, Parses(t), ~IsReplay(t), NEW s \in DOMAIN Documents[t].batches,
           FaultedRows(t, s) # Null
    PROVE  FaultedRows(t, s) \in Batches(Documents[t].logical_clock)
<1> DEFINE spec == Documents[t].batches[s]
           base == BaseRows(Documents[t].logical_clock, spec.rows)
           faults == Optional(spec, "faults", <<>>)
<1>1. spec.rows \in Nat \ {0} /\ faults \in Seq(KnownFaults)
  BY ScenarioParsed
<1>2. base \in Batches(Documents[t].logical_clock)
  BY <1>1, BaseRowsTyped
<1>3. FaultedRows(t, s) = ApplyFaults(base, faults, s)
  BY DEF FaultedRows
<1> HIDE DEF base, faults
<1>4. FaultedRows(t, s) \in Batches(Documents[t].logical_clock) \cup {Null}
  BY <1>1, <1>2, <1>3, FaultsTyped
<1> QED
  BY <1>4

\* The emitters of a batch are a list.
LEMMA EmittersTyped ==
    ASSUME NEW t, Parses(t), ~IsReplay(t), NEW s \in DOMAIN Documents[t].batches, NEW absent
    PROVE  BatchEmitters(s, Documents[t].batches[s], absent)
               \in Seq({Null} \cup Range(Emitters[s]))
<1> DEFINE spec == Documents[t].batches[s]
           emitters == BatchEmitters(s, spec, absent)
           All == {Null} \cup Range(Emitters[s])
           asked    == Optional(spec, "emitters", <<>>)
           declared == IF Emitters[s] = <<>> THEN <<Null>> ELSE Emitters[s]
           chosen == IF asked # <<>> THEN asked ELSE declared
           wanted == {e \in Range(chosen) : <<s, e>> \notin absent}
<1>1. asked \in Seq(All)
  BY ScenarioParsed
<1>2. declared \in Seq(All)
  <2>1. Emitters[s] \in Seq(Range(Emitters[s]))
    BY ScenarioParsed, ScenariosAssumption DEF IsList
  <2>2. Emitters[s] \in Seq(All)
    BY <2>1, SeqMonotonic
  <2>3. <<Null>> \in Seq(All)
    OBVIOUS
  <2> QED
    BY <2>2, <2>3
<1>3. emitters = Selected(chosen, wanted)
  BY DEF BatchEmitters
<1> HIDE DEF asked, declared, wanted, emitters, All
<1>4. chosen \in Seq(All)
  BY <1>1, <1>2
<1>5. emitters \in Seq(All \cap wanted)
  BY <1>3, <1>4, SelectedTyped
<1>6. emitters \in Seq(All)
  BY <1>5, SeqMonotonic
<1> QED
  BY <1>6 DEF emitters, All

\* The files of one batch.
LEMMA BatchFilesTyped ==
    ASSUME NEW t, Parses(t), ~IsReplay(t), NEW s \in DOMAIN Documents[t].batches,
           FaultedRows(t, s) # Null
    PROVE  BatchFiles(t, s) \in Seq(File)
<1> DEFINE raw == Documents[t]
           spec == raw.batches[s]
           rows == FaultedRows(t, s)
           absent == Optional(raw, "expected_absent", {})
           emitters == BatchEmitters(s, spec, absent)
           All == {Null} \cup Range(Emitters[s])
<1>1. rows \in Seq(Row)
  <2>1. rows \in Seq(RowAt(raw.logical_clock))
    BY FaultedTyped DEF Batches
  <2>2. RowAt(raw.logical_clock) \subseteq Row
    BY ScenarioParsed DEF RowAt, Row
  <2> HIDE DEF rows, raw, Row
  <2> QED
    BY <2>1, <2>2, SeqMonotonic
<1>2. s \in DeclaredSources /\ raw.logical_clock \in Clocks
  BY ScenarioParsed
<1>3. emitters \in Seq(All)
  BY EmittersTyped
<1>4. BatchFiles(t, s) =
          [i \in DOMAIN emitters |->
            LET part == Part(rows, i, Len(emitters))
            IN  [path |-> [emitter |-> emitters[i],
                           file |-> FileName(s, raw.logical_clock, i)],
                 records |-> IF emitters[i] = "south" THEN Converted(part) ELSE part]]
  BY DEF BatchFiles
<1> HIDE DEF emitters, rows, absent
<1>5. /\ Len(emitters) \in Nat /\ DOMAIN emitters = 1..Len(emitters)
      /\ \A i \in 1..Len(emitters) : emitters[i] \in All
  <2> HIDE DEF All
  <2> QED
    BY <1>3, LenProperties
<1>6. ASSUME NEW i \in 1..Len(emitters)
      PROVE  [path |-> [emitter |-> emitters[i],
                        file |-> FileName(s, raw.logical_clock, i)],
              records |-> IF emitters[i] = "south" THEN Converted(Part(rows, i, Len(emitters)))
                          ELSE Part(rows, i, Len(emitters))] \in File
  <2> DEFINE part == Part(rows, i, Len(emitters))
  <2>1. Len(emitters) \in Nat \ {0}
    BY <1>5
  <2>2. part \in Seq(Row)
    BY <1>1, <2>1, PartTyped
  <2> HIDE DEF part
  <2>3. Converted(part) \in Seq(Row)
    <3>1. Len(part) \in Nat /\ DOMAIN part = 1..Len(part) /\ \A j \in 1..Len(part) : part[j] \in Row
      BY <2>2, LenProperties
    <3>2. \A row \in Row : [row EXCEPT !.converted = TRUE] \in Row
      BY DEF Row
    <3> HIDE DEF Row
    <3>3. Converted(part) \in [1..Len(part) -> Row]
      BY <3>1, <3>2 DEF Converted
    <3> QED
      BY <3>1, <3>3, FunctionIsList
  <2>4. FileName(s, raw.logical_clock, i) \in [source : DeclaredSources, clock : Clocks, seq : Nat]
    BY <1>2 DEF FileName
  <2>5. emitters[i] \in {Null} \cup UNION {Range(Emitters[z]) : z \in DeclaredSources}
    BY <1>2, <1>5
  <2> HIDE DEF Row
  <2> QED
    BY <2>2, <2>3, <2>4, <2>5 DEF File, part
<1> HIDE DEF File
<1>7. BatchFiles(t, s) \in [1..Len(emitters) -> File]
  BY <1>4, <1>5, <1>6
<1> QED
  BY <1>5, <1>7, FunctionIsList

\* The sources of a scenario are a list.
LEMMA SourcesTyped ==
    ASSUME NEW t
    PROVE  BatchSources(t) \in Seq(DOMAIN Documents[t].batches)
<1> DEFINE sources == BatchSources(t)
           wanted == DOMAIN Documents[t].batches
<1>1. SourceOrder \in Seq(DeclaredSources)
  BY ScenariosAssumption DEF IsList, DeclaredSources
<1>2. sources = Selected(SourceOrder, wanted)
  BY DEF BatchSources
<1> HIDE DEF sources, wanted, DeclaredSources
<1>3. sources \in Seq(DeclaredSources \cap wanted)
  BY <1>1, <1>2, SelectedTyped
<1>4. sources \in Seq(wanted)
  BY <1>3, SeqMonotonic
<1> QED
  BY <1>4 DEF sources, wanted

\* The emulator's list of files for a scenario.
LEMMA GeneratedTyped ==
    ASSUME NEW name \in Generating
    PROVE  Generated[name] \in Seq(File)
<1> DEFINE t == ReplayTarget[name]
           sources == BatchSources(t)
           batches == [i \in DOMAIN sources |-> BatchFiles(t, sources[i])]
<1>1. /\ Parses(t) /\ ~IsReplay(t)
      /\ \A s \in DOMAIN Documents[t].batches : FaultedRows(t, s) # Null
  BY DEF Generating, Generates
<1>2. sources \in Seq(DOMAIN Documents[t].batches)
  BY SourcesTyped
<1>3. Generated[name] = FlattenSeq(batches)
  BY DEF Generated, GenerateBatches
<1> HIDE DEF t, sources
<1>4. /\ Len(sources) \in Nat /\ DOMAIN sources = 1..Len(sources)
      /\ \A i \in 1..Len(sources) : sources[i] \in DOMAIN Documents[t].batches
  BY <1>2, LenProperties
<1>5. batches \in [1..Len(sources) -> Seq(File)]
  <2>1. \A i \in 1..Len(sources) : BatchFiles(t, sources[i]) \in Seq(File)
    BY <1>1, <1>4, BatchFilesTyped
  <2> HIDE DEF File
  <2> QED
    BY <1>4, <2>1
<1>6. batches \in Seq(Seq(File))
  BY <1>4, <1>5, FunctionIsList
<1> HIDE DEF batches, File
<1> QED
  BY <1>3, <1>6, FlattenTyped

\* Whoever writes a file, its records are rows.
LEMMA FilesTyped == \A f \in Files : f.records \in Seq(Row)
<1> SUFFICES ASSUME NEW f \in Files PROVE f.records \in Seq(Row)
  OBVIOUS
<1>1. CASE f \in Deliveries
  BY <1>1, OrchestratorAssumption
<1>2. CASE f \notin Deliveries
  <2>1. PICK name \in Generating : f \in Range(Generated[name])
    BY <1>2 DEF Files
  <2>2. Generated[name] \in Seq(File)
    BY GeneratedTyped
  <2>3. f \in File
    <3> DEFINE s == Generated[name]
    <3>1. \A i \in 1..Len(s) : s[i] \in File
      BY <2>2, LenProperties
    <3>2. DOMAIN s = 1..Len(s)
      BY <2>2, LenProperties
    <3> HIDE DEF File, s
    <3> QED
      BY <2>1, <3>1, <3>2 DEF Range, s
  <2> HIDE DEF Row
  <2> QED
    BY <2>3 DEF File
<1> QED
  BY <1>1, <1>2

\* What the emulator is about to write.
LEMMA GeneratedFiles ==
    ASSUME NEW name \in Generating
    PROVE  Generated[name] \in Seq(Files)
<1> DEFINE s == Generated[name]
<1>1. s \in Seq(File)
  BY GeneratedTyped
<1>2. Len(s) \in Nat /\ DOMAIN s = 1..Len(s) /\ s \in [1..Len(s) -> File]
  BY <1>1, LenProperties
<1>3. Range(s) \subseteq Files
  BY DEF Files
<1> HIDE DEF s, File, Files
<1>4. \A i \in 1..Len(s) : s[i] \in Files
  BY <1>2, <1>3 DEF Range
<1>5. s \in [1..Len(s) -> Files]
  BY <1>2, <1>4
<1> QED
  BY <1>2, <1>5, FunctionIsList DEF s

-----------------------------------------------------------------------------
(* Counting.                                                               *)

\* What RowsOf adds up.
FilesOf(files, source) == {f \in files : f.path.file.source = source}
RowsIn(f, halves) == Cardinality({i \in DOMAIN f.records : Half(f.records[i]) \in halves})

\* The rows of a file that are counted are so many.
LEMMA RowsInNat ==
    ASSUME NEW f \in Files, NEW halves
    PROVE  /\ IsFiniteSet(DOMAIN f.records)
           /\ RowsIn(f, halves) \in Nat
<1>1. f.records \in Seq(Row)
  BY FilesTyped
<1>2. Len(f.records) \in Nat /\ DOMAIN f.records = 1..Len(f.records)
  BY <1>1, LenProperties
<1>3. IsFiniteSet(DOMAIN f.records)
  BY <1>2, FS_Interval
<1>4. IsFiniteSet({i \in DOMAIN f.records : Half(f.records[i]) \in halves})
  BY <1>3, FS_Subset
<1> QED
  BY <1>3, <1>4, FS_CardinalityType DEF RowsIn

\* RowsOf is a sum.
LEMMA RowTotals ==
    ASSUME NEW files, IsFiniteSet(files), NEW source, NEW halves
    PROVE  RowsOf(files, source, halves) =
               SumOver([f \in FilesOf(files, source) |-> RowsIn(f, halves)], FilesOf(files, source))
<1> DEFINE S == FilesOf(files, source)
           val == [f \in S |-> RowsIn(f, halves)]
           It(g) == [s \in SUBSET S |->
                       IF s = {} THEN 0
                       ELSE RowsIn(Chosen(s), halves) + g[s \ {Chosen(s)}]]
           g == CHOOSE h : h = It(h)
<1>1. IsFiniteSet(S)
  BY FS_Subset DEF FilesOf
<1>2. RowsOf(files, source, halves) = g[S]
  BY DEF RowsOf, MapThenSumSet, MapThenFoldSet, Chosen, It, FilesOf, RowsIn
<1> HIDE DEF S
<1>3. PICK h : AddsUp(h, val, S)
  BY <1>1, SumsExist
<1>4. \A s \in SUBSET S : s # {} => val[Chosen(s)] = RowsIn(Chosen(s), halves)
  <2>1. \A s \in SUBSET S : s # {} => Chosen(s) \in S
    BY PickIn
  <2> QED
    BY <2>1
<1> HIDE DEF val
<1>5. \A k : AddsUp(k, val, S) <=> k = It(k)
  BY <1>4 DEF AddsUp
<1> HIDE DEF It
<1>6. g = It(g)
  BY <1>3, <1>5
<1>7. AddsUp(g, val, S)
  BY <1>5, <1>6
<1> QED
  BY <1>1, <1>2, <1>7, SumFound DEF val, S

\* Counts are numbers, and each row is in one half.
LEMMA HalvesAddUp ==
    ASSUME NEW files \in SUBSET Files, IsFiniteSet(files), NEW source
    PROVE  /\ RowsOf(files, source, {"valid"}) \in Nat
           /\ RowsOf(files, source, {"quarantine"}) \in Nat
           /\ RowsOf(files, source, Halves)
                = RowsOf(files, source, {"valid"}) + RowsOf(files, source, {"quarantine"})
<1> DEFINE S == FilesOf(files, source)
           u == [f \in S |-> RowsIn(f, Halves)]
           v == [f \in S |-> RowsIn(f, {"valid"})]
           w == [f \in S |-> RowsIn(f, {"quarantine"})]
<1>1. IsFiniteSet(S) /\ S \subseteq Files
  BY FS_Subset DEF FilesOf
<1>2. ASSUME NEW f \in Files
      PROVE  RowsIn(f, Halves) = RowsIn(f, {"valid"}) + RowsIn(f, {"quarantine"})
  <2> DEFINE I == DOMAIN f.records
             A == {i \in I : Half(f.records[i]) \in {"valid"}}
             B == {i \in I : Half(f.records[i]) \in {"quarantine"}}
             C == {i \in I : Half(f.records[i]) \in Halves}
  <2>1. IsFiniteSet(A) /\ IsFiniteSet(B)
    BY RowsInNat, FS_Subset
  <2>2. C = A \cup B /\ A \cap B = {}
    BY DEF Halves
  <2> HIDE DEF A, B, C
  <2>3. Cardinality(C) = Cardinality(A) + Cardinality(B) - Cardinality(A \cap B)
    BY <2>1, <2>2, FS_Union
  <2>4. Cardinality(A \cap B) = 0
    BY <2>2, FS_EmptySet
  <2>5. Cardinality(A) \in Nat /\ Cardinality(B) \in Nat
    BY <2>1, FS_CardinalityType
  <2>6. Cardinality(C) = Cardinality(A) + Cardinality(B)
    BY <2>3, <2>4, <2>5
  <2> QED
    BY <2>6 DEF RowsIn, A, B, C
<1>3. \A f \in S : /\ v[f] \in Nat /\ w[f] \in Nat
                   /\ u[f] = v[f] + w[f]
  <2> TAKE f \in S
  <2>1. f \in Files
    BY <1>1
  <2>2. RowsIn(f, {"valid"}) \in Nat /\ RowsIn(f, {"quarantine"}) \in Nat
    BY <2>1, RowsInNat
  <2>3. RowsIn(f, Halves) = RowsIn(f, {"valid"}) + RowsIn(f, {"quarantine"})
    BY <1>2, <2>1
  <2> HIDE DEF S
  <2> QED
    BY <2>2, <2>3
<1>4. /\ RowsOf(files, source, Halves) = SumOver(u, S)
      /\ RowsOf(files, source, {"valid"}) = SumOver(v, S)
      /\ RowsOf(files, source, {"quarantine"}) = SumOver(w, S)
  BY RowTotals
<1> HIDE DEF S, u, v, w
<1>5. SumOver(v, S) \in Nat /\ SumOver(w, S) \in Nat
  BY <1>1, <1>3, SumNat
<1>6. SumOver(u, S) = SumOver(v, S) + SumOver(w, S)
  BY <1>1, <1>3, SumPlus
<1> QED
  BY <1>4, <1>5, <1>6

\* The same of every declared source.
LEMMA CountsAddUp ==
    ASSUME NEW files \in SUBSET Files, IsFiniteSet(files), NEW s \in DeclaredSources
    PROVE  /\ CountAll(files, "valid")[s] \in Nat
           /\ CountAll(files, "quarantine")[s] \in Nat
           /\ RowsOf(files, s, Halves)
                = CountAll(files, "valid")[s] + CountAll(files, "quarantine")[s]
BY HalvesAddUp DEF CountAll

-----------------------------------------------------------------------------
(* Steps.                                                                  *)

\* A step is one of these, or changes nothing.
LEMMA StepIs ==
    ASSUME Types, [Next]_vars
    PROVE  \/ \E file \in Deliveries : Deliver(file)
           \/ \E version \in Versions, steps \in {Release, OpsRun},
                 scenario \in Names \cup {Null}, full \in BOOLEAN :
                  StartWorkflow(version, steps, scenario, full)
           \/ \E r \in Resources : Deploy(r)
           \/ FailDeploy
           \/ \E by \in Callers, scenario \in Names \cup {Null} :
                  /\ StartEmulation(by, scenario)
                  /\ IF by = "workflow" THEN At("emulate")
                     ELSE Ready("source_emulator") /\ EmulatorEnabled
           \/ WriteFile \/ FinishEmulation \/ FailEmulation
           \/ \E by \in Callers, full \in BOOLEAN :
                  /\ StartUpdate(by, full)
                  /\ IF by = "workflow" THEN At("update") ELSE Ready("pipeline_update")
           \/ Ingest \/ FinishUpdate \/ FailUpdate
           \/ StartRun("schedule") \/ StartRun("workflow")
           \/ \E t \in Tasks : Exclude(t)
           \/ AppendRuns \/ AppendReasons \/ FailAudit \/ CheckInvariants \/ EndRun
           \/ UNCHANGED vars
<1>1. CASE \E version \in Versions :
           \/ StartWorkflow(version, Release, Null, FALSE)
           \/ \E scenario \in Names, full \in BOOLEAN :
                  StartWorkflow(version, OpsRun, scenario, full)
  BY <1>1, Zenon
<1>2. CASE WorkflowStep
  <2>1. CASE At("emulate") /\ StartEmulation("workflow", workflow.scenario)
    <3>1. workflow.scenario \in Names \cup {Null}
      BY <2>1 DEF At, Types, WorkflowType
    <3> QED
      BY <2>1, <3>1 DEF Callers
  <2>2. CASE At("update") /\ StartUpdate("workflow", workflow.full)
    <3>1. workflow.full \in BOOLEAN
      BY <2>2 DEF At, Types, WorkflowType
    <3> QED
      BY <2>2, <3>1 DEF Callers
  <2> QED
    BY <1>2, <2>1, <2>2 DEF WorkflowStep
<1>3. CASE RunStep
  <2>1. CASE /\ Ready("source_emulator") /\ RunIf("source_emulator")
             /\ StartEmulation("run", DefaultScenario)
    <3>1. DefaultScenario \in Names
      BY OrchestratorAssumption
    <3>2. EmulatorEnabled
      BY <2>1 DEF RunIf
    <3> QED
      BY <2>1, <3>1, <3>2 DEF Callers
  <2>2. CASE Ready("pipeline_update") /\ StartUpdate("run", FALSE)
    BY <2>2 DEF Callers
  <2> QED
    BY <1>3, <2>1, <2>2 DEF RunStep
<1> QED
  BY <1>1, <1>2, <1>3 DEF Next, EmulatorStep, UpdateStep

-----------------------------------------------------------------------------
(* Jobs and files.                                                         *)

\* Files of different paths.
OncePerPath(files) == \A f, g \in files : f.path = g.path => f = g

\* What is under way is an emulation or an update, or nothing.
Jobs == emulator \in Emulation \cup {Null} /\ update \in Update \cup {Null}

\* An emulation stays one as it writes.
LEMMA WritingGoesOn ==
    ASSUME Jobs, WriteFile
    PROVE  /\ emulator \in Emulation /\ emulator.left # <<>>
           /\ emulator' \in Emulation /\ emulator'.by = emulator.by
<1> HIDE DEF Files
<1>1. emulator \in Emulation /\ emulator.left # <<>>
  BY DEF WriteFile, Jobs
<1>2. Tail(emulator.left) \in Seq(Files)
  BY <1>1, HeadTailProperties DEF Emulation
<1>3. emulator' = [emulator EXCEPT !.left = Tail(@)]
  BY DEF WriteFile
<1> QED
  BY <1>1, <1>2, <1>3 DEF Emulation

\* Starting one and going on with one keep that.
LEMMA JobsKept ==
    ASSUME IInv, Jobs, [Next]_vars
    PROVE  Jobs'
<1> USE DEF Jobs
<1>1. Types
  BY DEF IInv
<1> HIDE DEF Files
<1>2. CASE emulator' \in {emulator, Null} /\ update' \in {update, Null}
  BY <1>2
<1>3. ASSUME NEW by \in Callers, NEW scenario, StartEmulation(by, scenario)
      PROVE  Jobs'
  <2> DEFINE version == deployed["source_emulator"]
             begun == [by |-> by, version |-> version, left |-> Generated[scenario]]
  <2>1. CASE Resolves(version) /\ scenario \in Generating
    <3>1. emulator' = begun /\ update' = update
      BY <1>3, <2>1 DEF StartEmulation
    <3>2. version \in Versions
      BY <1>1 DEF Types, Resources
    <3>3. Generated[scenario] \in Seq(Files)
      BY <2>1, GeneratedFiles
    <3>4. begun \in Emulation
      BY <3>2, <3>3 DEF Emulation
    <3> QED
      BY <3>1, <3>4
  <2>2. CASE ~(Resolves(version) /\ scenario \in Generating)
    BY <1>3, <2>2 DEF StartEmulation
  <2> QED
    BY <2>1, <2>2
<1>4. CASE WriteFile
  BY <1>4, WritingGoesOn DEF WriteFile
<1>5. ASSUME NEW by \in Callers, NEW full, StartUpdate(by, full)
      PROVE  Jobs'
  <2>1. deployed["retail_lakehouse"] \in Versions
    BY <1>1 DEF Types, Resources
  <2>2. update' = update \/ update' = [by |-> by, version |-> deployed["retail_lakehouse"],
                                      stage |-> "bronze"]
    BY <1>5 DEF StartUpdate
  <2>3. emulator' = emulator
    BY <1>5 DEF StartUpdate
  <2> QED
    BY <2>1, <2>2, <2>3 DEF Update
<1>6. CASE Ingest
  <2>1. update \in Update /\ update' = [update EXCEPT !.stage = "silver"] /\ emulator' = emulator
    BY <1>6 DEF Ingest
  <2>2. update' \in Update
    BY <2>1 DEF Update
  <2> QED
    BY <2>1, <2>2
<1>7. CASE \/ \E file \in Deliveries : Deliver(file)
           \/ \E version \in Versions, steps \in {Release, OpsRun},
                 scenario \in Names \cup {Null}, full \in BOOLEAN :
                  StartWorkflow(version, steps, scenario, full)
           \/ \E r \in Resources : Deploy(r)
           \/ FailDeploy \/ FinishEmulation \/ FailEmulation \/ FinishUpdate \/ FailUpdate
           \/ StartRun("schedule") \/ StartRun("workflow")
           \/ \E t \in Tasks : Exclude(t)
           \/ AppendRuns \/ AppendReasons \/ FailAudit \/ CheckInvariants \/ EndRun
           \/ UNCHANGED vars
  <2>1. emulator' \in {emulator, Null} /\ update' \in {update, Null}
    BY <1>7 DEF Deliver, StartWorkflow, Deploy, FailDeploy, FinishEmulation, FailEmulation,
       FinishUpdate, FailUpdate, StartRun, Exclude, AppendRuns, AppendReasons, FailAudit,
       CheckInvariants, EndRun, vars
  <2> QED
    BY <1>2, <2>1
<1> QED
  BY <1>1, <1>3, <1>4, <1>5, <1>6, <1>7, StepIs

\* The volume and bronze hold files that somebody writes, finitely many and one of a
\* path.
Stored ==
    /\ volume \subseteq Files /\ IsFiniteSet(volume) /\ OncePerPath(volume)
    /\ bronze \subseteq Files /\ IsFiniteSet(bronze) /\ OncePerPath(bronze)

\* Writing, delivering and ingesting keep that.
LEMMA StoredKept ==
    ASSUME IInv, Jobs, Stored, [Next]_vars
    PROVE  Stored'
<1> USE DEF tables
<1>1. Types
  BY DEF IInv
<1> HIDE DEF Files
<1>2. CASE UNCHANGED <<volume, bronze>>
  BY <1>2 DEF Stored, OncePerPath
<1>3. ASSUME NEW file \in Deliveries, Deliver(file)
      PROVE  Stored'
  <2>1. file \in Files
    BY DEF Files
  <2>2. volume' = volume \cup {file} /\ \A f \in volume : f.path # file.path
    BY <1>3 DEF Deliver
  <2>3. IsFiniteSet(volume')
    BY <2>2, FS_AddElement DEF Stored
  <2>4. OncePerPath(volume') /\ volume' \subseteq Files
    BY <2>1, <2>2 DEF OncePerPath, Stored
  <2> QED
    BY <1>3, <2>3, <2>4 DEF Stored, Deliver, OncePerPath
<1>4. ASSUME NEW by, NEW scenario, StartEmulation(by, scenario)
      PROVE  Stored'
  BY <1>2, <1>4 DEF StartEmulation
<1>5. CASE WriteFile
  <2> DEFINE file == Head(emulator.left)
             others == {f \in volume : f.path # file.path}
  <2>1. emulator \in Emulation /\ emulator.left # <<>>
    BY <1>5, WritingGoesOn
  <2>2. file \in Files
    BY <2>1, HeadTailProperties DEF Emulation
  <2>3. volume' = others \cup {file} /\ bronze' = bronze
    BY <1>5 DEF WriteFile
  <2>4. IsFiniteSet(others) /\ others \subseteq Files
    BY FS_Subset DEF Stored
  <2>5. OncePerPath(volume')
    BY <2>3 DEF OncePerPath, Stored
  <2> HIDE DEF others, file
  <2>6. IsFiniteSet(volume')
    BY <2>3, <2>4, FS_AddElement
  <2> QED
    BY <2>2, <2>3, <2>4, <2>5, <2>6 DEF Stored, OncePerPath
<1>6. ASSUME NEW by, NEW full, StartUpdate(by, full)
      PROVE  Stored'
  <2>1. bronze' = bronze \/ bronze' = {}
    BY <1>6 DEF StartUpdate
  <2>2. volume' = volume
    BY <1>6 DEF StartUpdate
  <2>3. IsFiniteSet({})
    BY FS_EmptySet
  <2> QED
    BY <2>1, <2>2, <2>3 DEF Stored, OncePerPath
<1>7. CASE Ingest
  <2>1. bronze' = bronze \cup NewFiles /\ volume' = volume
    BY <1>7 DEF Ingest
  <2>2. NewFiles \subseteq volume /\ \A f \in NewFiles, b \in bronze : b.path # f.path
    BY DEF NewFiles
  <2>3. IsFiniteSet(NewFiles)
    BY <2>2, FS_Subset DEF Stored
  <2>4. IsFiniteSet(bronze')
    BY <2>1, <2>3, FS_Union DEF Stored
  <2>5. OncePerPath(bronze')
    BY <2>1, <2>2 DEF OncePerPath, Stored
  <2> QED
    BY <2>1, <2>2, <2>4, <2>5 DEF Stored, OncePerPath
<1>8. CASE \/ \E version \in Versions, steps \in {Release, OpsRun},
                 scenario \in Names \cup {Null}, full \in BOOLEAN :
                  StartWorkflow(version, steps, scenario, full)
           \/ \E r \in Resources : Deploy(r)
           \/ FailDeploy \/ FinishEmulation \/ FailEmulation \/ FinishUpdate \/ FailUpdate
           \/ StartRun("schedule") \/ StartRun("workflow")
           \/ \E t \in Tasks : Exclude(t)
           \/ AppendRuns \/ AppendReasons \/ FailAudit \/ CheckInvariants \/ EndRun
           \/ UNCHANGED vars
  BY <1>2, <1>8 DEF StartWorkflow, Deploy, FailDeploy, FinishEmulation, FailEmulation,
     FinishUpdate, FailUpdate, StartRun, Exclude, AppendRuns, AppendReasons, FailAudit,
     CheckInvariants, EndRun, vars
<1> QED
  BY <1>1, <1>3, <1>4, <1>5, <1>6, <1>7, <1>8, StepIs

-----------------------------------------------------------------------------
(* Tasks, and the environment.                                             *)

\* A task runs as long as the job or update that it waits for, in an active run.
TasksRun ==
    /\ run.state # "active" => \A t \in Tasks : run.tasks[t] # "running"
    /\ run.tasks["source_emulator"] = "running" <=> emulator # Null /\ emulator.by = "run"
    /\ run.tasks["pipeline_update"] = "running" <=> update # Null /\ update.by = "run"

\* What becomes of the tasks when one of them is told something.
Told(task, status) == run' = [run EXCEPT !.tasks[task] = status]

\* The other tasks, and what the run was started with, stay.
LEMMA ToldSays ==
    ASSUME Types, NEW task, NEW status, Told(task, status)
    PROVE  /\ run'.state = run.state /\ run'.by = run.by /\ run'.version = run.version
           /\ \A t \in Tasks : run'.tasks[t] = IF t = task THEN status ELSE run.tasks[t]
<1>1. /\ run \in [state : {"none", "active", "ended"}, by : {Null, "schedule", "workflow"},
                  version : Versions, tasks : [Tasks -> Status], steady : BOOLEAN]
  BY DEF Types, RunType
<1> HIDE DEF Tasks, Status
<1> QED
  BY <1>1 DEF Told

\* The four tasks are four.
LEMMA FourTasks ==
    /\ Tasks = {"source_emulator", "pipeline_update", "post_run_audit", "invariant_checks"}
    /\ "source_emulator" # "pipeline_update" /\ "source_emulator" # "post_run_audit"
    /\ "source_emulator" # "invariant_checks" /\ "pipeline_update" # "post_run_audit"
    /\ "pipeline_update" # "invariant_checks" /\ "post_run_audit" # "invariant_checks"
BY DEF Tasks

\* A job or update that starts or ends is told to the task that waits for it.
LEMMA TasksRunKept ==
    ASSUME IInv, Jobs, Jobs', TasksRun, [Next]_vars
    PROVE  TasksRun'
<1> USE DEF tables, ops
<1>1. Types /\ Waits
  BY DEF IInv
<1>2. CASE UNCHANGED <<emulator, update, run>>
  BY <1>2 DEF TasksRun
<1>3. ASSUME NEW r \in Resources, Deploy(r)
      PROVE  TasksRun'
  <2>1. run'.tasks = run.tasks /\ run'.state = run.state
    BY <1>1, <1>3 DEF Deploy, Types, RunType
  <2> QED
    BY <1>3, <2>1 DEF Deploy, TasksRun
\* A task that is told something other than to run, and the jobs as they were.
<1>4. ASSUME NEW task \in {"post_run_audit", "invariant_checks"}, NEW status \in Status,
             Told(task, status), UNCHANGED <<emulator, update>>,
             status = "running" => run.state = "active"
      PROVE  TasksRun'
  BY <1>1, <1>4, ToldSays, FourTasks DEF TasksRun
<1>5. ASSUME NEW task \in Tasks, Told(task, "excluded"), Ready(task),
             UNCHANGED <<emulator, update>>
      PROVE  TasksRun'
  <2>1. run.tasks[task] # "running"
    BY <1>5 DEF Ready
  <2> QED
    BY <1>1, <1>5, <2>1, ToldSays, FourTasks DEF TasksRun
<1>6. ASSUME NEW by \in Callers, NEW scenario, StartEmulation(by, scenario),
             IF by = "workflow" THEN At("emulate") ELSE Ready("source_emulator")
      PROVE  TasksRun'
  <2>1. emulator = Null /\ update' = update
    BY <1>6 DEF StartEmulation
  <2>2. \/ emulator' # Null /\ emulator'.by = by /\ Starts(by, "source_emulator")
        \/ emulator' = Null /\ Ends(by, "source_emulator", FALSE)
    <3> DEFINE version == deployed["source_emulator"]
               begun == [by |-> by, version |-> version, left |-> Generated[scenario]]
    <3>1. CASE Resolves(version) /\ scenario \in Generating
      <4>1. emulator' = begun /\ Starts(by, "source_emulator")
        BY <1>6, <3>1 DEF StartEmulation
      <4>2. begun.by = by /\ begun # Null
        <5>1. begun \in Emulation
          <6>1. Generated[scenario] \in Seq(Files) /\ version \in Versions
            BY <1>1, <3>1, GeneratedFiles DEF Types, Resources
          <6> HIDE DEF Files
          <6> QED
            BY <6>1 DEF Emulation
        <5> QED
          BY <5>1, NothingAssumption
      <4> HIDE DEF begun
      <4> QED
        BY <4>1, <4>2
    <3>2. CASE ~(Resolves(version) /\ scenario \in Generating)
      BY <1>6, <3>2 DEF StartEmulation
    <3> QED
      BY <3>1, <3>2
  <2>3. CASE by = "workflow"
    BY <2>1, <2>2, <2>3 DEF Starts, Ends, TasksRun
  <2>4. CASE by = "run"
    <3>1. run.state = "active" /\ run.tasks["source_emulator"] = "pending"
      BY <1>6, <2>4 DEF Ready
    <3>2. \/ emulator' # Null /\ emulator'.by = "run" /\ Told("source_emulator", "running")
          \/ emulator' = Null /\ Told("source_emulator", "failed")
      BY <2>2, <2>4 DEF Starts, Ends, Told
    <3> QED
      BY <1>1, <2>1, <3>1, <3>2, ToldSays, FourTasks DEF TasksRun
  <2> QED
    BY <2>3, <2>4 DEF Callers
<1>7. CASE WriteFile
  <2>1. emulator # Null /\ emulator' # Null /\ emulator'.by = emulator.by
    BY <1>7, WritingGoesOn, NothingAssumption
  <2> QED
    BY <1>7, <2>1 DEF WriteFile, TasksRun
<1>8. CASE FinishEmulation \/ FailEmulation
  <2>1. /\ emulator # Null /\ emulator' = Null /\ update' = update
        /\ \E ok \in BOOLEAN : Ends(emulator.by, "source_emulator", ok)
    BY <1>8 DEF FinishEmulation, FailEmulation
  <2>2. CASE emulator.by = "workflow"
    BY <2>1, <2>2 DEF Ends, TasksRun
  <2>3. CASE emulator.by # "workflow"
    <3>1. \E status \in {"succeeded", "failed"} : Told("source_emulator", status)
      BY <2>1, <2>3 DEF Ends, Told
    <3> QED
      BY <1>1, <2>1, <3>1, ToldSays, FourTasks DEF TasksRun
  <2> QED
    BY <2>2, <2>3
<1>9. ASSUME NEW by \in Callers, NEW full, StartUpdate(by, full),
             IF by = "workflow" THEN At("update") ELSE Ready("pipeline_update")
      PROVE  TasksRun'
  <2>1. update = Null /\ emulator' = emulator
    BY <1>9 DEF StartUpdate
  <2>2. \/ update' # Null /\ update'.by = by /\ Starts(by, "pipeline_update")
        \/ update' = Null /\ Ends(by, "pipeline_update", FALSE)
    <3> DEFINE version == deployed["retail_lakehouse"]
               begun == [by |-> by, version |-> version, stage |-> "bronze"]
    <3>1. CASE Resolves(version)
      <4>1. update' = begun /\ Starts(by, "pipeline_update")
        BY <1>9, <3>1 DEF StartUpdate
      <4>2. begun.by = by /\ begun # Null
        <5>1. begun \in Update
          BY <1>1 DEF Types, Resources, Update
        <5> QED
          BY <5>1, NothingAssumption
      <4> HIDE DEF begun
      <4> QED
        BY <4>1, <4>2
    <3>2. CASE ~Resolves(version)
      BY <1>9, <2>1, <3>2 DEF StartUpdate
    <3> QED
      BY <3>1, <3>2
  <2>3. CASE by = "workflow"
    BY <2>1, <2>2, <2>3 DEF Starts, Ends, TasksRun
  <2>4. CASE by = "run"
    <3>1. run.state = "active" /\ run.tasks["pipeline_update"] = "pending"
      BY <1>9, <2>4 DEF Ready
    <3>2. \/ update' # Null /\ update'.by = "run" /\ Told("pipeline_update", "running")
          \/ update' = Null /\ Told("pipeline_update", "failed")
      BY <2>2, <2>4 DEF Starts, Ends, Told
    <3> QED
      BY <1>1, <2>1, <3>1, <3>2, ToldSays, FourTasks DEF TasksRun
  <2> QED
    BY <2>3, <2>4 DEF Callers
<1>10. CASE Ingest
  <2>1. update # Null /\ update' # Null /\ update'.by = update.by
    BY <1>10, NothingAssumption DEF Ingest, Jobs, Update
  <2> QED
    BY <1>10, <2>1 DEF Ingest, TasksRun
<1>11. CASE FinishUpdate \/ FailUpdate
  <2>1. /\ update # Null /\ update' = Null /\ emulator' = emulator
        /\ \E ok \in BOOLEAN : Ends(update.by, "pipeline_update", ok)
    BY <1>11 DEF FinishUpdate, FailUpdate
  <2>2. CASE update.by = "workflow"
    BY <2>1, <2>2 DEF Ends, TasksRun
  <2>3. CASE update.by # "workflow"
    <3>1. \E status \in {"succeeded", "failed"} : Told("pipeline_update", status)
      BY <2>1, <2>3 DEF Ends, Told
    <3> QED
      BY <1>1, <2>1, <3>1, ToldSays, FourTasks DEF TasksRun
  <2> QED
    BY <2>2, <2>3
<1>12. ASSUME NEW by, StartRun(by)
       PROVE  TasksRun'
  <2>1. run.state # "active" /\ run'.tasks = Idle /\ UNCHANGED <<emulator, update>>
    BY <1>12 DEF StartRun, MayStartRun
  <2> QED
    BY <2>1, FourTasks DEF TasksRun, Idle
<1>13. ASSUME NEW t \in Tasks, Exclude(t)
       PROVE  TasksRun'
  BY <1>5, <1>13 DEF Exclude, Told
<1>14. CASE AppendRuns \/ CheckInvariants
  <2>1. /\ run.state = "active" /\ UNCHANGED <<emulator, update>>
        /\ \E task \in {"post_run_audit", "invariant_checks"}, status \in Status :
              Told(task, status)
    BY <1>14 DEF AppendRuns, CheckInvariants, Ready, Told, Status
  <2> QED
    BY <1>4, <2>1
<1>15. CASE AppendReasons \/ FailAudit
  <2>1. /\ UNCHANGED <<emulator, update>>
        /\ \E status \in {"succeeded", "failed"} : Told("post_run_audit", status)
    BY <1>15 DEF AppendReasons, FailAudit, Told
  <2> QED
    BY <1>4, <2>1 DEF Status
<1>16. CASE EndRun
  <2>1. /\ \A t \in Tasks : run.tasks[t] # "running"
        /\ run'.tasks = run.tasks /\ UNCHANGED <<emulator, update>>
    BY <1>1, <1>16 DEF EndRun, Ended, Types, RunType
  <2> QED
    BY <2>1, FourTasks DEF TasksRun
<1>17. CASE \/ \E file \in Deliveries : Deliver(file)
            \/ \E version \in Versions, steps \in {Release, OpsRun},
                  scenario \in Names \cup {Null}, full \in BOOLEAN :
                   StartWorkflow(version, steps, scenario, full)
            \/ FailDeploy \/ UNCHANGED vars
  BY <1>2, <1>17 DEF Deliver, StartWorkflow, FailDeploy, vars
<1> QED
  BY <1>1, <1>3, <1>6, <1>7, <1>8, <1>9, <1>10, <1>11, <1>12, <1>13, <1>14, <1>15, <1>16,
     <1>17, StepIs

\* What is left of an ops-run that has still to update.
ToUpdate == {<<"update", "run">>, <<"emulate", "update", "run">>, OpsRun}

\* Only dev has ops-runs, and only prod a schedule.
InEnvironment ==
    /\ workflow # Null /\ workflow.steps \in ToUpdate => target = "dev"
    /\ run.state = "active" => run.by = "workflow" \/ target = "prod"

\* A step leads out of an ops-run's part before the update, never into it.
LEMMA ToUpdateFacts ==
    /\ Release \notin ToUpdate
    /\ \A s \in StepsLeft :
           /\ s # <<>> /\ Head(s) \in {"emulate", "update"} => s \in ToUpdate
           /\ s # <<>> /\ Tail(s) \in ToUpdate => s \in ToUpdate
BY DEF StepsLeft, ToUpdate, Release, OpsRun

\* A step that ends leaves the rest of the workflow, or no workflow.
LEMMA AfterStepSays ==
    ASSUME Types, workflow # Null, NEW ok
    PROVE  AfterStep(ok) = Null \/ AfterStep(ok).steps = Tail(workflow.steps)
BY DEF AfterStep, Types, WorkflowType

\* A workflow starts, goes on with a step that it has waited for, or stays as it is.
LEMMA WorkflowMoves ==
    ASSUME Types, Waits, [Next]_vars
    PROVE  \/ workflow' \in {workflow, Null}
           \/ workflow # Null /\ workflow'.steps = workflow.steps
           \/ At(Head(workflow.steps)) /\ workflow'.steps = Tail(workflow.steps)
           \/ \E steps \in {Release, OpsRun} :
                  workflow'.steps = steps /\ (steps = OpsRun => target = "dev")
<1> DEFINE Moves == \/ workflow' \in {workflow, Null}
                    \/ workflow # Null /\ workflow'.steps = workflow.steps
                    \/ At(Head(workflow.steps)) /\ workflow'.steps = Tail(workflow.steps)
                    \/ \E steps \in {Release, OpsRun} :
                           workflow'.steps = steps /\ (steps = OpsRun => target = "dev")
<1> SUFFICES Moves
  OBVIOUS
<1>1. ASSUME NEW version \in Versions, NEW steps \in {Release, OpsRun},
             NEW scenario \in Names \cup {Null}, NEW full \in BOOLEAN,
             StartWorkflow(version, steps, scenario, full)
      PROVE  Moves
  BY <1>1 DEF StartWorkflow
<1>2. ASSUME NEW r \in Resources, Deploy(r)
      PROVE  Moves
  <2>1. /\ At("deploy") /\ workflow # Null
        /\ \/ workflow' = [AfterStep(TRUE) EXCEPT !.left = {}]
           \/ workflow' = [workflow EXCEPT !.left = workflow.left \ {r}]
    BY <1>2 DEF Deploy, At
  <2>2. workflow \in [steps : StepsLeft, version : Versions, left : SUBSET Resources,
                      scenario : Names \cup {Null}, full : BOOLEAN]
    BY <2>1 DEF Types, WorkflowType
  <2>3. workflow'.steps \in {workflow.steps, Tail(workflow.steps)}
    BY <2>1, <2>2 DEF AfterStep
  <2> QED
    BY <2>1, <2>3 DEF At
<1>3. ASSUME NEW step, At(step), NEW ok, workflow' = AfterStep(ok)
      PROVE  Moves
  BY <1>3, AfterStepSays DEF At
<1>4. ASSUME NEW by, NEW task, NEW ok, Ends(by, task, ok),
             by = "workflow" => \E step : At(step)
      PROVE  Moves
  <2>1. CASE by = "workflow"
    BY <1>3, <1>4, <2>1 DEF Ends
  <2>2. CASE by # "workflow"
    BY <1>4, <2>2 DEF Ends
  <2> QED
    BY <2>1, <2>2
<1>5. CASE EndRun
  <2>1. CASE run.by = "workflow"
    BY <1>3, <1>5, <2>1 DEF EndRun, Waits
  <2>2. CASE run.by # "workflow"
    BY <1>5, <2>2 DEF EndRun
  <2> QED
    BY <2>1, <2>2
<1>6. CASE workflow' = workflow \/ workflow' = Null
  BY <1>6
<1> HIDE DEF Moves
<1>7. ASSUME NEW by \in Callers, NEW scenario, StartEmulation(by, scenario),
             by = "workflow" => At("emulate")
      PROVE  Moves
  <2>1. workflow' = workflow \/ Ends(by, "source_emulator", FALSE)
    BY <1>7 DEF StartEmulation, Starts
  <2> QED
    BY <1>4, <1>6, <1>7, <2>1
<1>8. ASSUME NEW by \in Callers, NEW full, StartUpdate(by, full),
             by = "workflow" => At("update")
      PROVE  Moves
  <2>1. workflow' = workflow \/ Ends(by, "pipeline_update", FALSE)
    BY <1>8 DEF StartUpdate, Starts
  <2> QED
    BY <1>4, <1>6, <1>8, <2>1
<1>9. CASE FinishEmulation \/ FailEmulation
  <2>1. emulator # Null /\ \E ok : Ends(emulator.by, "source_emulator", ok)
    BY <1>9 DEF FinishEmulation, FailEmulation
  <2> QED
    BY <1>4, <2>1 DEF Waits
<1>10. CASE FinishUpdate \/ FailUpdate
  <2>1. update # Null /\ \E ok : Ends(update.by, "pipeline_update", ok)
    BY <1>10 DEF FinishUpdate, FailUpdate
  <2> QED
    BY <1>4, <2>1 DEF Waits
<1>11. CASE \/ \E file \in Deliveries : Deliver(file)
            \/ FailDeploy \/ WriteFile \/ Ingest
            \/ StartRun("schedule") \/ StartRun("workflow")
            \/ \E t \in Tasks : Exclude(t)
            \/ AppendRuns \/ AppendReasons \/ FailAudit \/ CheckInvariants
            \/ UNCHANGED vars
  BY <1>6, <1>11 DEF Deliver, FailDeploy, WriteFile, Ingest, StartRun, Exclude, AppendRuns,
     AppendReasons, FailAudit, CheckInvariants, vars
<1> QED
  BY <1>1, <1>2, <1>5, <1>7, <1>8, <1>9, <1>10, <1>11, StepIs

\* An active run stays the one that it is, or has just started.
LEMMA RunMoves ==
    ASSUME Types, [Next]_vars
    PROVE  \/ run'.state = run.state /\ run'.by = run.by /\ run'.version = run.version
           \/ run'.state = "ended"
           \/ StartRun("schedule") \/ StartRun("workflow")
<1> DEFINE Same == run'.state = run.state /\ run'.by = run.by /\ run'.version = run.version
           Moves == \/ Same \/ run'.state = "ended"
                    \/ StartRun("schedule") \/ StartRun("workflow")
<1> SUFFICES Moves
  OBVIOUS
<1>1. ASSUME NEW task, NEW status, Told(task, status) PROVE Same
  BY <1>1, ToldSays
<1>2. ASSUME NEW r \in Resources, Deploy(r) PROVE Same
  BY <1>2 DEF Deploy, Types, RunType
<1>3. CASE run' = run
  BY <1>3
<1>4. CASE EndRun
  BY <1>4 DEF EndRun, Types, RunType
<1>5. ASSUME NEW by, NEW task, NEW ok, Ends(by, task, ok) PROVE Same
  <2>1. run' = run \/ \E status : Told(task, status)
    BY <1>5 DEF Ends, Told
  <2> QED
    BY <1>1, <1>3, <2>1
<1>6. ASSUME NEW by, NEW task, Starts(by, task) PROVE Same
  <2>1. run' = run \/ \E status : Told(task, status)
    BY <1>6 DEF Starts, Told
  <2> QED
    BY <1>1, <1>3, <2>1
<1> HIDE DEF Same
<1>7. ASSUME NEW by, NEW scenario, StartEmulation(by, scenario) PROVE Same
  <2>1. Starts(by, "source_emulator") \/ Ends(by, "source_emulator", FALSE)
    BY <1>7 DEF StartEmulation
  <2> QED
    BY <1>5, <1>6, <2>1
<1>8. ASSUME NEW by, NEW full, StartUpdate(by, full) PROVE Same
  <2>1. Starts(by, "pipeline_update") \/ Ends(by, "pipeline_update", FALSE)
    BY <1>8 DEF StartUpdate
  <2> QED
    BY <1>5, <1>6, <2>1
<1>9. CASE FinishEmulation \/ FailEmulation \/ FinishUpdate \/ FailUpdate
  BY <1>5, <1>9 DEF FinishEmulation, FailEmulation, FinishUpdate, FailUpdate
<1>10. CASE (\E t \in Tasks : Exclude(t)) \/ AppendRuns \/ AppendReasons \/ FailAudit
            \/ CheckInvariants
  <2>1. \E task, status : Told(task, status)
    BY <1>10 DEF Exclude, AppendRuns, AppendReasons, FailAudit, CheckInvariants, Told
  <2> QED
    BY <1>1, <2>1
<1>11. CASE \/ \E file \in Deliveries : Deliver(file)
            \/ \E version \in Versions, steps \in {Release, OpsRun},
                  scenario \in Names \cup {Null}, full \in BOOLEAN :
                   StartWorkflow(version, steps, scenario, full)
            \/ FailDeploy \/ WriteFile \/ Ingest \/ UNCHANGED vars
  BY <1>3, <1>11 DEF Deliver, StartWorkflow, FailDeploy, WriteFile, Ingest, vars
<1> QED
  BY <1>2, <1>4, <1>7, <1>8, <1>9, <1>10, <1>11, StepIs

\* The environment stays the same.
LEMMA SameEnvironment ==
    ASSUME Types, [Next]_vars
    PROVE  target' = target
BY StepIs DEF Deliver, StartWorkflow, Deploy, FailDeploy, StartEmulation, WriteFile,
   FinishEmulation, FailEmulation, StartUpdate, Ingest, FinishUpdate, FailUpdate, StartRun,
   Exclude, AppendRuns, AppendReasons, FailAudit, CheckInvariants, EndRun, vars

\* Only StartWorkflow and StartRun could go against it, and their guards do not let them.
LEMMA InEnvironmentKept ==
    ASSUME IInv, InEnvironment, [Next]_vars
    PROVE  InEnvironment'
<1>1. Types /\ Waits
  BY DEF IInv
<1>2. target' = target
  BY <1>1, SameEnvironment
<1>3. workflow' # Null /\ workflow'.steps \in ToUpdate => target = "dev"
  <2>1. workflow # Null => workflow.steps \in StepsLeft
    BY <1>1 DEF Types, WorkflowType
  <2> QED
    BY <1>1, <2>1, WorkflowMoves, ToUpdateFacts DEF InEnvironment, At
<1>4. run'.state = "active" => run'.by = "workflow" \/ target = "prod"
  <2>1. ASSUME NEW by, StartRun(by), by \in {"schedule", "workflow"}
        PROVE  run'.by = "workflow" \/ target = "prod"
    BY <2>1 DEF StartRun
  <2> QED
    BY <1>1, <2>1, RunMoves DEF InEnvironment
<1> QED
  BY <1>2, <1>3, <1>4 DEF InEnvironment

-----------------------------------------------------------------------------
(* What has landed.                                                        *)

\* A rising list of the first k numbers is all of them.
LEMMA RisingIsAll ==
    ASSUME NEW k \in Nat, NEW g \in [1..k -> 1..k],
           \A i, j \in 1..k : i < j => g[i] < g[j]
    PROVE  \A i \in 1..k : g[i] = i
<1> DEFINE Up == {i \in 0..k : i # 0 => g[i] >= i}
           Down == {j \in 0..k : j # k => g[k - j] <= k - j}
<1>1. 0 \in Up
  OBVIOUS
<1>2. ASSUME NEW i \in 0..k, i \in Up, i < k
      PROVE  i + 1 \in Up
  <2>1. i + 1 \in 1..k /\ g[i + 1] \in 1..k
    BY <1>2
  <2>2. CASE i = 0
    BY <2>1, <2>2
  <2>3. CASE i # 0
    <3>1. i \in 1..k /\ g[i] \in 1..k /\ g[i] >= i /\ g[i] < g[i + 1]
      BY <1>2, <2>1, <2>3
    <3> QED
      BY <2>1, <3>1
  <2> QED
    BY <2>2, <2>3
<1>3. 0 \in Down
  <2>1. k - 0 = k
    OBVIOUS
  <2>2. k # 0 => g[k] \in 1..k
    OBVIOUS
  <2> QED
    BY <2>1, <2>2
<1>4. ASSUME NEW j \in 0..k, j \in Down, j < k
      PROVE  j + 1 \in Down
  <2>1. CASE j + 1 = k
    BY <2>1
  <2>2. CASE j + 1 # k
    <3> DEFINE a == k - j
    <3>1. a \in 1..k /\ a - 1 \in 1..k /\ k - (j + 1) = a - 1 /\ g[a] <= a
      BY <1>4, <2>2
    <3> HIDE DEF a
    <3>2. g[a - 1] < g[a] /\ g[a] \in 1..k /\ g[a - 1] \in 1..k
      BY <3>1
    <3>3. g[a - 1] <= a - 1
      BY <3>1, <3>2
    <3>4. j + 1 \in 0..k
      BY <1>4
    <3> QED
      BY <3>1, <3>3, <3>4
  <2> QED
    BY <2>1, <2>2
<1> HIDE DEF Up, Down
<1>5. 0..k \subseteq Up /\ 0..k \subseteq Down
  BY <1>1, <1>2, <1>3, <1>4, InductionUpTo
<1> SUFFICES ASSUME NEW i \in 1..k PROVE g[i] = i
  OBVIOUS
<1>6. i \in Up /\ k - i \in Down /\ k - (k - i) = i
  BY <1>5
<1>7. g[i] \in 1..k
  OBVIOUS
<1> QED
  BY <1>6, <1>7 DEF Up, Down

\* Files that are numbered from 1 on come in the order of their numbers.
LEMMA InOrderIs ==
    ASSUME NEW k \in Nat, NEW F, DOMAIN F = 1..k, F = [i \in 1..k |-> F[i]],
           \A i \in 1..k : F[i].path.file.seq = i
    PROVE  InOrder({F[i] : i \in 1..k}) = F
<1> DEFINE files == {F[i] : i \in 1..k}
           Rises(s) == \A i, j \in DOMAIN s :
                           i < j => s[i] # s[j] /\ s[i].path.file.seq <= s[j].path.file.seq
<1>1. Cardinality(files) = k
  <2>1. IsFiniteSet(1..k) /\ Cardinality(1..k) = k
    <3>1. 1 <= k => k - 1 + 1 = k
      OBVIOUS
    <3> QED
      BY FS_Interval
  <2>2. \A i, j \in 1..k : F[i] = F[j] => i = j
    OBVIOUS
  <2> QED
    BY <2>1, <2>2, ImageCardinality
<1>2. F \in [1..k -> files] /\ Rises(F)
  OBVIOUS
<1>3. ASSUME NEW s \in [1..k -> files], Rises(s)
      PROVE  s = F
  <2> DEFINE g == [i \in 1..k |-> s[i].path.file.seq]
  <2>1. \A i \in 1..k : g[i] \in 1..k /\ s[i] = F[g[i]]
    OBVIOUS
  <2>2. ASSUME NEW i \in 1..k, NEW j \in 1..k, i < j
        PROVE  g[i] < g[j]
    <3>1. s[i] # s[j] /\ g[i] <= g[j]
      BY <1>3, <2>2
    <3> HIDE DEF g
    <3>2. g[i] # g[j]
      BY <2>1, <3>1
    <3> DEFINE x == g[i]
               y == g[j]
    <3>3. x \in 1..k /\ y \in 1..k /\ x # y /\ x <= y
      BY <2>1, <3>1, <3>2
    <3> HIDE DEF x, y
    <3>4. x < y
      BY <3>3
    <3> QED
      BY <3>4 DEF x, y
  <2>3. g \in [1..k -> 1..k]
    BY <2>1
  <2> HIDE DEF g
  <2>4. \A i \in 1..k : g[i] = i
    BY <2>2, <2>3, RisingIsAll
  <2>5. \A i \in 1..k : s[i] = F[i]
    BY <2>1, <2>4
  <2> QED
    BY <2>5
<1>4. InOrder(files) = CHOOSE s \in [1..Cardinality(files) -> files] : Rises(s)
  BY DEF InOrder
<1> HIDE DEF files, Rises
<1>5. InOrder(files) \in [1..k -> files] /\ Rises(InOrder(files))
  BY <1>1, <1>2, <1>4
<1> QED
  BY <1>3, <1>5 DEF files

\* A batch of a scenario that generates.
Batched(t, s) ==
    /\ Parses(t) /\ ~IsReplay(t)
    /\ s \in DOMAIN Documents[t].batches /\ FaultedRows(t, s) # Null

\* What the files of a batch are called, and what is in them.
LEMMA BatchFile ==
    ASSUME NEW t, NEW s, Batched(t, s)
    PROVE  \E n \in Nat :
               /\ DOMAIN BatchFiles(t, s) = 1..n
               /\ \A i \in 1..n :
                      LET f == BatchFiles(t, s)[i]
                      IN  /\ f.path.file = FileName(s, Documents[t].logical_clock, i)
                          /\ Content(f.records) = Part(FaultedRows(t, s), i, n)
                          /\ \A j \in DOMAIN f.records :
                                 f.records[j].clock = Documents[t].logical_clock
<1> DEFINE raw == Documents[t]
           clock == raw.logical_clock
           spec == raw.batches[s]
           rows == FaultedRows(t, s)
           emitters == BatchEmitters(s, spec, Optional(raw, "expected_absent", {}))
           n == Len(emitters)
<1>1. rows \in Seq(RowAt(clock))
  BY FaultedTyped DEF Batches, Batched
<1>2. BatchFiles(t, s) =
          [i \in DOMAIN emitters |->
            LET part == Part(rows, i, Len(emitters))
            IN  [path |-> [emitter |-> emitters[i], file |-> FileName(s, clock, i)],
                 records |-> IF emitters[i] = "south" THEN Converted(part) ELSE part]]
  BY DEF BatchFiles
<1>4. DOMAIN emitters = DOMAIN BatchFiles(t, s)
  BY <1>2
<1>5. n \in Nat /\ DOMAIN emitters = 1..n
  <2>1. emitters \in Seq({Null} \cup Range(Emitters[s]))
    BY EmittersTyped DEF Batched
  <2> HIDE DEF emitters
  <2> QED
    BY <2>1, LenProperties
<1> HIDE DEF emitters, rows, clock
<1> SUFFICES ASSUME NEW i \in 1..n
             PROVE  LET f == BatchFiles(t, s)[i]
                    IN  /\ f.path.file = FileName(s, clock, i)
                        /\ Content(f.records) = Part(rows, i, n)
                        /\ \A j \in DOMAIN f.records : f.records[j].clock = clock
  BY <1>4, <1>5 DEF rows, clock
<1> DEFINE part == Part(rows, i, n)
           f == BatchFiles(t, s)[i]
<1>6. part \in Seq(RowAt(clock))
  <2>1. n \in Nat \ {0}
    BY <1>5
  <2> QED
    BY <1>1, <2>1, PartTyped
<1>7. /\ f.path.file = FileName(s, clock, i)
      /\ f.records = IF emitters[i] = "south" THEN Converted(part) ELSE part
  BY <1>2, <1>5
<1> HIDE DEF f, part
<1>8. part = [j \in DOMAIN part |-> part[j]] /\ \A j \in DOMAIN part : part[j] \in RowAt(clock)
  <2>1. /\ Len(part) \in Nat /\ DOMAIN part = 1..Len(part)
        /\ part \in [1..Len(part) -> RowAt(clock)]
    BY <1>6, LenProperties
  <2> HIDE DEF RowAt
  <2> QED
    BY <2>1
<1>9. \A row \in RowAt(clock) :
          /\ [row EXCEPT !.converted = FALSE] = row
          /\ [[row EXCEPT !.converted = TRUE] EXCEPT !.converted = FALSE] = row
          /\ [row EXCEPT !.converted = TRUE].clock = clock /\ row.clock = clock
  BY DEF RowAt
<1> DEFINE Plain(row) == [row EXCEPT !.converted = FALSE]
           InTHB(row) == [row EXCEPT !.converted = TRUE]
<1>12. \A j \in DOMAIN part : /\ Plain(part[j]) = part[j] /\ Plain(InTHB(part[j])) = part[j]
                              /\ InTHB(part[j]).clock = clock /\ part[j].clock = clock
  BY <1>8, <1>9
<1> HIDE DEF RowAt
<1>10. CASE emitters[i] = "south"
  <2>1. f.records = Converted(part)
    BY <1>7, <1>10
  <2>2. f.records = [j \in DOMAIN part |-> InTHB(part[j])]
    BY <2>1 DEF Converted
  <2>3. Content(f.records) = [j \in DOMAIN part |-> Plain(InTHB(part[j]))]
    BY <2>2 DEF Content
  <2> HIDE DEF Plain, InTHB
  <2>4. Content(f.records) = part
    BY <1>8, <1>12, <2>3
  <2>5. \A j \in DOMAIN f.records : f.records[j].clock = clock
    BY <1>12, <2>2
  <2> QED
    BY <1>7, <2>4, <2>5 DEF f, part
<1>11. CASE emitters[i] # "south"
  <2>1. f.records = part
    BY <1>7, <1>11
  <2>2. Content(f.records) = [j \in DOMAIN part |-> Plain(part[j])]
    BY <2>1 DEF Content
  <2> HIDE DEF Plain, InTHB
  <2>3. Content(f.records) = part
    BY <1>8, <1>12, <2>2
  <2>4. \A j \in DOMAIN f.records : f.records[j].clock = clock
    BY <1>12, <2>1
  <2> QED
    BY <1>7, <2>3, <2>4 DEF f, part
<1> QED
  BY <1>10, <1>11

\* The files of a scenario are those of its batches.
LEMMA GeneratedFrom ==
    ASSUME NEW name \in Generating
    PROVE  LET t == ReplayTarget[name]
           IN  /\ \A s \in Range(BatchSources(t)) : Batched(t, s)
               /\ Range(Generated[name]) =
                      UNION {Range(BatchFiles(t, s)) : s \in Range(BatchSources(t))}
<1> DEFINE t == ReplayTarget[name]
           sources == BatchSources(t)
           batches == [i \in DOMAIN sources |-> BatchFiles(t, sources[i])]
<1>1. /\ Parses(t) /\ ~IsReplay(t)
      /\ \A s \in DOMAIN Documents[t].batches : FaultedRows(t, s) # Null
  BY DEF Generating, Generates
<1>2. sources \in Seq(DOMAIN Documents[t].batches)
  BY <1>1, SourcesTyped
<1>3. Generated[name] = FlattenSeq(batches)
  BY DEF Generated, GenerateBatches
<1> HIDE DEF t, sources
<1>4. /\ Len(sources) \in Nat /\ DOMAIN sources = 1..Len(sources)
      /\ \A i \in 1..Len(sources) : sources[i] \in DOMAIN Documents[t].batches
  BY <1>2, LenProperties
<1>5. Range(sources) = {sources[i] : i \in 1..Len(sources)}
  BY <1>4 DEF Range
<1>6. \A s \in Range(sources) : Batched(t, s)
  BY <1>1, <1>4, <1>5 DEF Batched
<1>7. batches \in Seq(Seq(File)) /\ Len(batches) = Len(sources)
  <2>1. \A i \in 1..Len(sources) : BatchFiles(t, sources[i]) \in Seq(File)
    BY <1>1, <1>4, BatchFilesTyped
  <2> HIDE DEF File
  <2>2. batches \in [1..Len(sources) -> Seq(File)]
    BY <1>4, <2>1
  <2> QED
    BY <1>4, <2>2, FunctionIsList
<1>8. Range(FlattenSeq(batches)) = UNION {Range(batches[i]) : i \in 1..Len(sources)}
  BY <1>7, FlattenRange
<1>9. UNION {Range(batches[i]) : i \in 1..Len(sources)}
          = UNION {Range(BatchFiles(t, s)) : s \in Range(sources)}
  <2>1. \A i \in 1..Len(sources) : batches[i] = BatchFiles(t, sources[i])
    BY <1>4
  <2> HIDE DEF batches
  <2> QED
    BY <1>5, <2>1
<1> HIDE DEF batches
<1> QED
  BY <1>3, <1>6, <1>8, <1>9 DEF t, sources

\* What the emulator can write.
Made == UNION {Range(Generated[name]) : name \in Generating}

\* Every file of it is one of a batch.
LEMMA MadeByBatch ==
    ASSUME NEW f \in Made
    PROVE  \E t, s : Batched(t, s) /\ \E i \in DOMAIN BatchFiles(t, s) : f = BatchFiles(t, s)[i]
<1>1. PICK name \in Generating : f \in Range(Generated[name])
  BY DEF Made
<1> DEFINE t == ReplayTarget[name]
<1>2. PICK s \in Range(BatchSources(t)) : Batched(t, s) /\ f \in Range(BatchFiles(t, s))
  BY <1>1, GeneratedFrom
<1> HIDE DEF t
<1> QED
  BY <1>2 DEF Range

\* Two scenarios with batches have different clocks.
LEMMA ClocksTell ==
    ASSUME NEW t, NEW s, Batched(t, s), NEW u, NEW r, Batched(u, r),
           Documents[t].logical_clock = Documents[u].logical_clock
    PROVE  t = u
<1>1. ASSUME NEW d, NEW b, Batched(d, b)
      PROVE  d \in Names /\ {"logical_clock", "batches"} \subseteq DOMAIN Documents[d]
  <2>1. d \in Names /\ "logical_clock" \in DOMAIN Documents[d]
    BY <1>1 DEF Batched, Parses
  <2>2. "batches" \in DOMAIN Documents[d]
    BY <1>1, ScenarioParsed DEF Batched
  <2> QED
    BY <2>1, <2>2
<1> QED
  BY <1>1, OwnClocks

\* Files of one path are one file.
LEMMA PathsTell ==
    ASSUME NEW f \in Made, NEW g \in Made, f.path = g.path
    PROVE  f = g
<1>1. PICK t, s : Batched(t, s) /\ \E i \in DOMAIN BatchFiles(t, s) : f = BatchFiles(t, s)[i]
  BY MadeByBatch
<1>2. PICK u, r : Batched(u, r) /\ \E i \in DOMAIN BatchFiles(u, r) : g = BatchFiles(u, r)[i]
  BY MadeByBatch
<1>3. PICK i \in DOMAIN BatchFiles(t, s) : f = BatchFiles(t, s)[i]
  BY <1>1
<1>4. PICK j \in DOMAIN BatchFiles(u, r) : g = BatchFiles(u, r)[j]
  BY <1>2
<1>5. f.path.file = FileName(s, Documents[t].logical_clock, i)
  BY <1>1, <1>3, BatchFile
<1>6. g.path.file = FileName(r, Documents[u].logical_clock, j)
  BY <1>2, <1>4, BatchFile
<1>7. s = r /\ i = j /\ Documents[t].logical_clock = Documents[u].logical_clock
  BY <1>5, <1>6 DEF FileName
<1>8. t = u
  BY <1>1, <1>2, <1>7, ClocksTell
<1> QED
  BY <1>3, <1>4, <1>7, <1>8

\* A batch all of whose paths are there is read as it was generated, whatever other
\* files of the emulator are there beside it.
LEMMA BatchRead ==
    ASSUME NEW t, NEW s, Batched(t, s), BatchFiles(t, s) # <<>>,
           NEW files \in SUBSET Made,
           \A i \in DOMAIN BatchFiles(t, s) :
               /\ BatchFiles(t, s)[i] \in Made
               /\ \E b \in files : b.path = BatchFiles(t, s)[i].path,
           NEW these, these = {f \in files : OfScenario(f, s, Documents[t].logical_clock)}
    PROVE  FlattenSeq([i \in DOMAIN InOrder(these) |-> Content(InOrder(these)[i].records)])
               = FaultedRows(t, s)
<1> DEFINE clock == Documents[t].logical_clock
           F == BatchFiles(t, s)
           rows == FaultedRows(t, s)
<1>1. PICK n \in Nat :
          /\ DOMAIN F = 1..n
          /\ \A i \in 1..n : /\ F[i].path.file = FileName(s, clock, i)
                             /\ Content(F[i].records) = Part(rows, i, n)
                             /\ \A j \in DOMAIN F[i].records : F[i].records[j].clock = clock
  BY BatchFile
<1>2. n # 0
  <2>1. F \in Seq(File)
    BY BatchFilesTyped DEF Batched
  <2>2. Len(F) \in Nat \ {0} /\ DOMAIN F = 1..Len(F)
    <3> HIDE DEF F, File
    <3> QED
      BY <2>1, EmptySeq, LenProperties DEF F
  <2>3. 1 \in 1..n
    BY <1>1, <2>2
  <2> QED
    BY <2>3
<1>3. rows \in Seq(RowAt(clock)) /\ rows # <<>>
  BY FaultedTyped DEF Batched, Batches
<1>4. PICK k \in 1..n : \E B \in [0..k -> 0..Len(rows)] :
          /\ B[0] = 0 /\ B[k] = Len(rows)
          /\ \A i \in 1..k : /\ B[i - 1] < B[i]
                             /\ Part(rows, i, n) = SubSeq(rows, B[i - 1] + 1, B[i])
          /\ \A i \in 1..n : i > k => Part(rows, i, n) = <<>>
  BY <1>2, <1>3, PartsCut
<1>5. PICK B \in [0..k -> 0..Len(rows)] :
          /\ B[0] = 0 /\ B[k] = Len(rows)
          /\ \A i \in 1..k : /\ B[i - 1] < B[i]
                             /\ Part(rows, i, n) = SubSeq(rows, B[i - 1] + 1, B[i])
          /\ \A i \in 1..n : i > k => Part(rows, i, n) = <<>>
  BY <1>4
<1> HIDE DEF rows, clock
<1>6. Len(rows) \in Nat /\ k \in Nat /\ \A i \in 0..k : B[i] \in 0..Len(rows)
  <2>1. Len(rows) \in Nat
    BY <1>3, LenProperties
  <2>2. k \in Nat
    BY <1>4
  <2> QED
    BY <2>1, <2>2
\* Only the first k files have rows.
<1>7. \A i \in 1..n : DOMAIN F[i].records # {} <=> i <= k
  <2> TAKE i \in 1..n
  <2>1. DOMAIN Content(F[i].records) = DOMAIN F[i].records
    BY DEF Content
  <2>2. DOMAIN F[i].records = DOMAIN Part(rows, i, n)
    BY <1>1, <2>1
  <2>3. CASE i <= k
    <3> DEFINE a == B[i - 1] + 1
               b == B[i]
    <3>1. i \in 1..k /\ i - 1 \in 0..k /\ i \in 0..k
      BY <1>6, <2>3
    <3>2. a \in 1..Len(rows) /\ b \in a..Len(rows)
      <4> DEFINE x == B[i - 1]
      <4>1. x \in 0..Len(rows) /\ b \in 0..Len(rows) /\ x < b
        BY <1>5, <1>6, <3>1
      <4> HIDE DEF x, b
      <4>2. x + 1 \in 1..Len(rows) /\ b \in (x + 1)..Len(rows)
        BY <1>6, <4>1
      <4> QED
        BY <4>2 DEF x
    <3>3. Part(rows, i, n) = SubSeq(rows, a, b)
      BY <1>5, <3>1
    <3> HIDE DEF a, b
    <3>4. \A j \in a..b : rows[j] \in RowAt(clock)
      BY <1>3, <1>6, <3>2, ElementOfSeq
    <3>5. SubSeq(rows, a, b) \in Seq(RowAt(clock)) /\ Len(SubSeq(rows, a, b)) = b - a + 1
      BY <1>6, <3>2, <3>4, SubSeqProperties
    <3>6. DOMAIN SubSeq(rows, a, b) = 1..(b - a + 1)
      BY <3>5, LenProperties
    <3>7. 1 \in 1..(b - a + 1)
      BY <1>6, <3>2
    <3> QED
      BY <2>2, <2>3, <3>3, <3>6, <3>7
  <2>4. CASE ~ i <= k
    <3>1. i > k
      BY <1>6, <2>4
    <3>2. Part(rows, i, n) = <<>>
      BY <1>5, <3>1
    <3>3. DOMAIN <<>> = {}
      OBVIOUS
    <3> QED
      BY <2>2, <2>4, <3>2, <3>3
  <2> QED
    BY <2>3, <2>4
\* They are there, and nothing else is of the batch.
<1> DEFINE G == [i \in 1..k |-> F[i]]
<1>8. these = {G[i] : i \in 1..k}
  <2>1. ASSUME NEW i \in 1..k
        PROVE  G[i] \in these
    <3>1. i \in 1..n /\ G[i] = F[i]
      BY <1>4
    <3>2. PICK b \in files : b.path = F[i].path
      BY <1>1, <3>1
    <3>3. F[i] \in Made
      BY <1>1, <3>1
    <3>4. F[i] \in files
      BY <3>2, <3>3, PathsTell
    <3>5. F[i].path.file.source = s
      <4>1. F[i].path.file = FileName(s, clock, i)
        BY <1>1, <3>1
      <4> QED
        BY <4>1 DEF FileName
    <3>6. \E j \in DOMAIN F[i].records : F[i].records[j].clock = clock
      <4> HIDE DEF F
      <4>0. i <= k
        BY ONLY <1>6, i \in 1..k
      <4>1. DOMAIN F[i].records # {}
        BY <1>7, <3>1, <4>0
      <4>2. \A j \in DOMAIN F[i].records : F[i].records[j].clock = clock
        BY <1>1, <3>1
      <4> QED
        BY ONLY <4>1, <4>2
    <3> QED
      BY <3>1, <3>4, <3>5, <3>6 DEF OfScenario, clock
  <2>2. ASSUME NEW f \in these
        PROVE  f \in {G[i] : i \in 1..k}
    <3>1. /\ f \in Made /\ f.path.file.source = s
          /\ \E j \in DOMAIN f.records : f.records[j].clock = clock
      BY DEF OfScenario, clock
    <3>2. PICK u, r : Batched(u, r) /\ \E i \in DOMAIN BatchFiles(u, r) : f = BatchFiles(u, r)[i]
      BY <3>1, MadeByBatch
    <3>3. PICK i \in DOMAIN BatchFiles(u, r) : f = BatchFiles(u, r)[i]
      BY <3>2
    <3>4. /\ f.path.file = FileName(r, Documents[u].logical_clock, i)
          /\ \A j \in DOMAIN f.records : f.records[j].clock = Documents[u].logical_clock
      BY <3>2, <3>3, BatchFile
    <3>5. r = s /\ Documents[u].logical_clock = Documents[t].logical_clock
      BY <3>1, <3>4 DEF FileName, clock
    <3>6. u = t
      BY <3>2, <3>5, ClocksTell
    <3>7. i \in 1..n /\ f = F[i]
      BY <1>1, <3>3, <3>5, <3>6
    <3>8. DOMAIN F[i].records # {}
      BY <3>1, <3>7
    <3>9. i \in 1..k /\ G[i] = f
      BY <1>7, <3>7, <3>8
    <3> QED
      BY <3>9
  <2> QED
    BY <2>1, <2>2
<1> HIDE DEF F
<1>9. /\ \A i \in 1..k : G[i].path.file.seq = i
      /\ \A i \in 1..k : Content(G[i].records) = Part(rows, i, n)
  <2> SUFFICES ASSUME NEW i \in 1..k
               PROVE  G[i].path.file.seq = i /\ Content(G[i].records) = Part(rows, i, n)
    BY Zenon
  <2>1. i \in 1..n /\ G[i] = F[i]
    BY <1>4
  <2>2. F[i].path.file = FileName(s, clock, i) /\ Content(F[i].records) = Part(rows, i, n)
    BY <1>1, <2>1
  <2>3. F[i].path.file.seq = i
    BY <2>2 DEF FileName
  <2> QED
    BY <2>1, <2>2, <2>3
<1>10. InOrder(these) = G
  <2>1. DOMAIN G = 1..k /\ G = [i \in 1..k |-> G[i]]
    OBVIOUS
  <2> HIDE DEF G
  <2>2. InOrder({G[i] : i \in 1..k}) = G
    BY <1>6, <1>9, <2>1, InOrderIs
  <2> QED
    BY <1>8, <2>2
<1> DEFINE parts == [i \in DOMAIN InOrder(these) |-> Content(InOrder(these)[i].records)]
<1>11. parts = [i \in 1..k |-> SubSeq(rows, B[i - 1] + 1, B[i])]
  <2>1. parts = [i \in DOMAIN G |-> Content(G[i].records)]
    BY <1>10
  <2>2. DOMAIN G = 1..k
    OBVIOUS
  <2>3. \A i \in 1..k : Content(G[i].records) = SubSeq(rows, B[i - 1] + 1, B[i])
    <3> SUFFICES ASSUME NEW i \in 1..k
                 PROVE  Content(G[i].records) = SubSeq(rows, B[i - 1] + 1, B[i])
      BY Zenon
    <3>1. Content(G[i].records) = Part(rows, i, n)
      BY <1>9
    <3>2. Part(rows, i, n) = SubSeq(rows, B[i - 1] + 1, B[i])
      BY <1>5, <1>4
    <3> QED
      BY <3>1, <3>2
  <2> HIDE DEF G, parts
  <2> QED
    BY <2>1, <2>2, <2>3
<1>12. \A i \in 1..k : B[i - 1] <= B[i]
  <2> TAKE i \in 1..k
  <2>1. i - 1 \in 0..k /\ i \in 0..k
    BY ONLY <1>4, i \in 1..k
  <2>2. B[i - 1] \in 0..Len(rows) /\ B[i] \in 0..Len(rows) /\ B[i - 1] < B[i]
    BY ONLY <1>5, <2>1, i \in 1..k
  <2> QED
    BY ONLY <1>6, <2>2
<1> HIDE DEF parts, G
<1>13. FlattenSeq(parts) = rows
  <2>1. B[0] = 0 /\ B[k] = Len(rows)
    BY <1>5
  <2>2. rows \in Seq(RowAt(clock))
    BY <1>3
  <2>3. k \in Nat
    BY <1>6
  <2>4. /\ parts = [i \in 1..k |-> parts[i]]
        /\ \A i \in 1..k : parts[i] = SubSeq(rows, B[i - 1] + 1, B[i])
    BY <1>11
  <2> QED
    BY <1>12, <2>1, <2>2, <2>3, <2>4, FlattenCut
<1> QED
  BY <1>13 DEF parts, rows

\* A scenario's list is one of files that the emulator can write.
LEMMA GeneratedMade ==
    ASSUME NEW name \in Generating
    PROVE  Generated[name] \in Seq(Made)
<1> DEFINE s == Generated[name]
<1>1. s \in Seq(File)
  BY GeneratedTyped
<1>2. Range(s) \subseteq Made
  BY DEF Made
<1> HIDE DEF s, File
<1>3. s \in Seq(Range(s))
  BY <1>1, SeqOfRange
<1> QED
  BY <1>2, <1>3, SeqMonotonic DEF s

\* In dev everything that lands is the emulator's, in prod nothing is.
Whose ==
    /\ target = "dev" =>
           /\ volume \subseteq Made /\ bronze \subseteq Made
           /\ emulator # Null => emulator.left \in Seq(Made)
    /\ target = "prod" => emulator = Null /\ volume \subseteq Deliveries

\* The emulator starts in dev only, and producers deliver in prod only.
LEMMA WhoseKept ==
    ASSUME IInv, Jobs, InEnvironment, Whose, [Next]_vars
    PROVE  Whose'
<1> USE DEF tables
<1>1. Types /\ Waits /\ target' = target /\ target \in {"dev", "prod"}
  BY SameEnvironment DEF IInv, Types
<1>2. CASE UNCHANGED volume /\ bronze' \subseteq bronze /\ emulator' \in {emulator, Null}
  BY <1>1, <1>2 DEF Whose
<1>3. ASSUME NEW file \in Deliveries, Deliver(file)
      PROVE  Whose'
  BY <1>1, <1>3 DEF Deliver, Whose
<1>4. ASSUME NEW by \in Callers, NEW scenario, StartEmulation(by, scenario),
             IF by = "workflow" THEN At("emulate")
             ELSE Ready("source_emulator") /\ EmulatorEnabled
      PROVE  Whose'
  <2>1. target = "dev"
    <3>1. CASE by = "workflow"
      <4>1. workflow # Null /\ workflow.steps \in StepsLeft /\ workflow.steps # <<>>
            /\ Head(workflow.steps) = "emulate"
        BY <1>1, <1>4, <3>1 DEF At, Types, WorkflowType
      <4> QED
        BY <4>1, ToUpdateFacts DEF InEnvironment
    <3>2. CASE by # "workflow"
      BY <1>4, <3>2 DEF EmulatorEnabled
    <3> QED
      BY <3>1, <3>2
  <2>2. volume' = volume /\ bronze' = bronze
    BY <1>4 DEF StartEmulation
  <2>3. CASE emulator' = Null
    BY <1>2, <2>2, <2>3
  <2>4. CASE emulator' # Null
    <3>1. scenario \in Generating /\ emulator' = [by |-> by,
              version |-> deployed["source_emulator"], left |-> Generated[scenario]]
      BY <1>4, <2>4 DEF StartEmulation
    <3>2. emulator'.left \in Seq(Made)
      BY <3>1, GeneratedMade
    <3> QED
      BY <1>1, <2>1, <2>2, <3>2 DEF Whose
  <2> QED
    BY <2>3, <2>4
<1>5. CASE WriteFile
  <2> DEFINE left == emulator.left
  <2>1. target = "dev" /\ left \in Seq(Made) /\ left # <<>>
    BY <1>1, <1>5 DEF WriteFile, Whose
  <2>2. Head(left) \in Made /\ Tail(left) \in Seq(Made)
    <3> HIDE DEF left
    <3> QED
      BY <2>1, HeadTailProperties
  <2>3. volume' \subseteq volume \cup {Head(left)} /\ bronze' = bronze
    BY <1>5 DEF WriteFile
  <2>4. emulator'.left = Tail(left)
    BY <1>5, WritingGoesOn DEF WriteFile, Emulation
  <2> HIDE DEF left
  <2> QED
    BY <1>1, <2>1, <2>2, <2>3, <2>4 DEF Whose
<1>6. ASSUME NEW by, NEW full, StartUpdate(by, full)
      PROVE  Whose'
  <2>1. bronze' = bronze \/ bronze' = {}
    BY <1>6 DEF StartUpdate
  <2>2. volume' = volume /\ emulator' = emulator
    BY <1>6 DEF StartUpdate
  <2> QED
    BY <1>2, <2>1, <2>2
<1>7. CASE Ingest
  <2>1. bronze' = bronze \cup NewFiles /\ volume' = volume /\ emulator' = emulator
    BY <1>7 DEF Ingest
  <2>2. NewFiles \subseteq volume
    BY DEF NewFiles
  <2> QED
    BY <1>1, <2>1, <2>2 DEF Whose
<1>8. CASE \/ \E version \in Versions, steps \in {Release, OpsRun},
                 scenario \in Names \cup {Null}, full \in BOOLEAN :
                  StartWorkflow(version, steps, scenario, full)
           \/ \E r \in Resources : Deploy(r)
           \/ FailDeploy \/ FinishEmulation \/ FailEmulation \/ FinishUpdate \/ FailUpdate
           \/ StartRun("schedule") \/ StartRun("workflow")
           \/ \E t \in Tasks : Exclude(t)
           \/ AppendRuns \/ AppendReasons \/ FailAudit \/ CheckInvariants \/ EndRun
           \/ UNCHANGED vars
  <2>1. volume' = volume /\ bronze' = bronze /\ emulator' \in {emulator, Null}
    BY <1>8 DEF StartWorkflow, Deploy, FailDeploy, FinishEmulation, FailEmulation,
       FinishUpdate, FailUpdate, StartRun, Exclude, AppendRuns, AppendReasons, FailAudit,
       CheckInvariants, EndRun, vars
  <2> QED
    BY <1>2, <2>1
<1> QED
  BY <1>1, <1>3, <1>4, <1>5, <1>6, <1>7, <1>8, StepIs

-----------------------------------------------------------------------------
(* The audit.                                                              *)

\* After the update of a run, and as long as the run is active, no other update comes:
\* the workflow whose step it would be is waiting for the run, and in prod no workflow
\* updates.
Settled ==
    run.state = "active" /\ run.tasks["pipeline_update"] = "succeeded" =>
        /\ update = Null
        /\ silver.valid = CountAll(bronze, "valid")
        /\ silver.quarantine = CountAll(bronze, "quarantine")

\* A workflow does not update during a run.
LEMMA NoUpdateBeside ==
    ASSUME Types, Waits, InEnvironment, At("update")
    PROVE  run.state # "active"
<1>1. workflow # Null /\ workflow.steps \in StepsLeft /\ Head(workflow.steps) = "update"
      /\ workflow.steps # <<>>
  BY DEF At, Types, WorkflowType
<1>2. target = "dev"
  BY <1>1, ToUpdateFacts DEF InEnvironment
<1> QED
  BY <1>1, <1>2 DEF InEnvironment, Waits, At

\* Neither a workflow nor a run updates between the update of a run and its end.
LEMMA SettledKept ==
    ASSUME IInv, TasksRun, InEnvironment, Settled, [Next]_vars
    PROVE  Settled'
<1> USE DEF tables, ops
<1>1. Types /\ Waits
  BY DEF IInv
\* What is counted stays, and the run or what it knows of its update does.
<1>2. ASSUME UNCHANGED <<update, bronze, silver>>,
             \/ run'.state = run.state
                /\ (run'.tasks["pipeline_update"] = "succeeded"
                       => run.tasks["pipeline_update"] = "succeeded")
             \/ run'.state # "active" \/ run'.tasks["pipeline_update"] # "succeeded"
      PROVE  Settled'
  <2>1. \A half : CountAll(bronze, half)' = CountAll(bronze, half)
    BY <1>2
  <2> QED
    BY <1>2, <2>1 DEF Settled
<1>3. ASSUME NEW r \in Resources, Deploy(r)
      PROVE  Settled'
  BY <1>1, <1>2, <1>3 DEF Deploy, Types, RunType
<1>4. ASSUME NEW task, NEW status, Told(task, status), UNCHANGED <<update, bronze, silver>>,
             task = "pipeline_update" => status # "succeeded"
      PROVE  Settled'
  <2>1. /\ run'.state = run.state
        /\ run'.tasks["pipeline_update"] = "succeeded"
              => run.tasks["pipeline_update"] = "succeeded"
    BY <1>1, <1>4, ToldSays, FourTasks
  <2> QED
    BY <1>2, <1>4, <2>1
<1>5. ASSUME NEW by \in Callers, NEW scenario, StartEmulation(by, scenario)
      PROVE  Settled'
  <2>1. UNCHANGED <<update, bronze, silver>>
    BY <1>5 DEF StartEmulation
  <2>2. run' = run \/ \E status : Told("source_emulator", status)
    BY <1>5 DEF StartEmulation, Starts, Ends, Told
  <2> QED
    BY <1>2, <1>4, <2>1, <2>2, FourTasks
<1>6. CASE FinishEmulation \/ FailEmulation
  <2>1. UNCHANGED <<update, bronze, silver>>
    BY <1>6 DEF FinishEmulation, FailEmulation
  <2>2. run' = run \/ \E status : Told("source_emulator", status)
    BY <1>6 DEF FinishEmulation, FailEmulation, Ends, Told
  <2> QED
    BY <1>2, <1>4, <2>1, <2>2, FourTasks
<1>7. ASSUME NEW by \in Callers, NEW full, StartUpdate(by, full),
             IF by = "workflow" THEN At("update") ELSE Ready("pipeline_update")
      PROVE  Settled'
  <2>1. CASE by = "workflow"
    <3>1. run.state # "active" /\ run' = run
      BY <1>1, <1>7, <2>1, NoUpdateBeside DEF StartUpdate, Starts, Ends
    <3> QED
      BY <3>1 DEF Settled
  <2>2. CASE by # "workflow"
    <3>1. Ready("pipeline_update") /\ by = "run"
      BY <1>7, <2>2 DEF Callers
    <3>2. Told("pipeline_update", "running") \/ Told("pipeline_update", "failed")
      BY <1>7, <3>1 DEF StartUpdate, Starts, Ends, Told
    <3>3. run'.tasks["pipeline_update"] # "succeeded"
      BY <1>1, <3>2, ToldSays, FourTasks
    <3> QED
      BY <3>3 DEF Settled
  <2> QED
    BY <2>1, <2>2
\* An update that is under way is no update that has succeeded.
<1>8. CASE Ingest
  BY <1>8 DEF Ingest, Settled
<1>9. CASE FinishUpdate
  <2>1. /\ update' = Null /\ bronze' = bronze
        /\ silver'.valid = CountAll(bronze, "valid")
        /\ silver'.quarantine = CountAll(bronze, "quarantine")
    BY <1>9 DEF FinishUpdate
  <2>2. \A half : CountAll(bronze, half)' = CountAll(bronze, half)
    BY <2>1
  <2>3. silver'.valid = CountAll(bronze, "valid")' /\ silver'.quarantine = CountAll(bronze, "quarantine")'
    BY <2>1, <2>2
  <2> QED
    BY <2>1, <2>3 DEF Settled
<1>10. CASE FailUpdate
  <2>1. update # Null
    BY <1>10 DEF FailUpdate
  <2>2. run' = run \/ Told("pipeline_update", "failed")
    BY <1>10 DEF FailUpdate, Ends, Told
  <2>3. run'.tasks["pipeline_update"] # "succeeded" \/ run' = run
    BY <1>1, <2>2, ToldSays, FourTasks
  <2> QED
    BY <2>1, <2>3 DEF Settled
<1>11. ASSUME NEW by, StartRun(by)
       PROVE  Settled'
  <2>1. run'.tasks["pipeline_update"] = "pending"
    BY <1>11, FourTasks DEF StartRun, Idle
  <2> QED
    BY <2>1 DEF Settled
<1>12. CASE (\E t \in Tasks : Exclude(t)) \/ AppendRuns \/ AppendReasons \/ FailAudit
            \/ CheckInvariants
  <2>1. UNCHANGED <<update, bronze, silver>>
    BY <1>12 DEF Exclude, AppendRuns, AppendReasons, FailAudit, CheckInvariants
  <2>2. \E task \in Tasks : \E status :
            Told(task, status) /\ (task = "pipeline_update" => status # "succeeded")
    <3>1. CASE \E t \in Tasks : Exclude(t)
      <4>1. PICK t \in Tasks : Told(t, "excluded")
        BY <3>1 DEF Exclude, Told
      <4> QED
        BY <4>1
    <3>2. CASE AppendRuns \/ AppendReasons \/ FailAudit
      <4>1. \E status : Told("post_run_audit", status)
        BY <3>2 DEF AppendRuns, AppendReasons, FailAudit, Told
      <4> QED
        BY <4>1, FourTasks
    <3>3. CASE CheckInvariants
      <4>1. \E status : Told("invariant_checks", status)
        BY <3>3 DEF CheckInvariants, Told
      <4> QED
        BY <4>1, FourTasks
    <3> QED
      BY <1>12, <3>1, <3>2, <3>3
  <2> QED
    BY <1>4, <2>1, <2>2
<1>13. CASE EndRun
  <2>1. run'.state = "ended"
    BY <1>1, <1>13 DEF EndRun, Types, RunType
  <2> QED
    BY <2>1 DEF Settled
<1>14. CASE \/ \E file \in Deliveries : Deliver(file)
            \/ \E version \in Versions, steps \in {Release, OpsRun},
                  scenario \in Names \cup {Null}, full \in BOOLEAN :
                   StartWorkflow(version, steps, scenario, full)
            \/ FailDeploy \/ WriteFile \/ UNCHANGED vars
  <2>1. UNCHANGED <<update, bronze, silver, run>>
    BY <1>14 DEF Deliver, StartWorkflow, FailDeploy, WriteFile, vars
  <2> QED
    BY <1>2, <2>1
<1> QED
  BY <1>1, <1>3, <1>5, <1>6, <1>7, <1>8, <1>9, <1>10, <1>11, <1>12, <1>13, <1>14, StepIs

\* The reasons d belong to the quarantined rows that an audit row has counted, which are
\* those of silver now, and there are reasons if there are such rows.
Belongs(d, row) ==
    /\ d.git_sha = row.git_sha
    /\ \A s \in DeclaredSources : d.quarantine[s] = row.counts[s].quarantine
CountsNow(row) ==
    /\ row.git_sha = Params(run.version).git_sha
    /\ \A s \in DeclaredSources : row.counts[s].quarantine = silver.quarantine[s]
Explained(row, reasons) ==
    (\E s \in DeclaredSources : row.counts[s].quarantine > 0) => reasons # {}

\* How far the audit has come.
Audited ==
    /\ \A row \in pipeline_runs : row.conserved
    /\ \A a, b \in pipeline_runs : a = b
    /\ \A a, b \in dq_results : a = b
    /\ \A d \in dq_results : \E row \in pipeline_runs : Belongs(d, row)
    /\ run.tasks["post_run_audit"] = "pending" => pipeline_runs = {} /\ dq_results = {}
    /\ run.tasks["post_run_audit"] = "running" => \E row \in pipeline_runs : CountsNow(row)
    /\ run.tasks["post_run_audit"] = "succeeded" =>
           \E row \in pipeline_runs : Explained(row, dq_results)

\* What the audit counts is conserved: the update has counted the same files.
LEMMA Conserved ==
    ASSUME Stored, Settled, run.state = "active", run.tasks["pipeline_update"] = "succeeded"
    PROVE  AllConserved(SourceCounts)
<1> SUFFICES ASSUME NEW s \in DeclaredSources
             PROVE  SourceCounts[s].bronze = SourceCounts[s].valid + SourceCounts[s].quarantine
  BY DEF AllConserved
<1>1. /\ SourceCounts[s].bronze = RowsOf(bronze, s, Halves)
      /\ SourceCounts[s].valid = silver.valid[s]
      /\ SourceCounts[s].quarantine = silver.quarantine[s]
  BY DEF SourceCounts
<1>2. bronze \in SUBSET Files /\ IsFiniteSet(bronze)
  BY DEF Stored
<1> HIDE DEF Files
<1>3. RowsOf(bronze, s, Halves) = CountAll(bronze, "valid")[s] + CountAll(bronze, "quarantine")[s]
  BY <1>2, CountsAddUp
<1> QED
  BY <1>1, <1>3 DEF Settled

\* The reasons are those of what an audit row has counted.
LEMMA ReasonsBelong ==
    ASSUME NEW row, CountsNow(row)
    PROVE  /\ \A d \in Reasons : Belongs(d, row)
           /\ \A a, b \in Reasons : a = b
           /\ Explained(row, Reasons)
<1>1. CASE \A s \in DeclaredSources : silver.quarantine[s] = 0
  <2>1. Reasons = {}
    BY <1>1 DEF Reasons
  <2>2. \A s \in DeclaredSources : row.counts[s].quarantine = 0
    BY <1>1 DEF CountsNow
  <2>3. ~ (0 > 0)
    OBVIOUS
  <2> QED
    BY <2>1, <2>2, <2>3 DEF Explained
<1>2. CASE ~ \A s \in DeclaredSources : silver.quarantine[s] = 0
  <2> DEFINE reasons == [git_sha |-> Params(run.version).git_sha,
                         quarantine |-> silver.quarantine]
  <2>1. Reasons = {reasons}
    BY <1>2 DEF Reasons
  <2>2. Belongs(reasons, row)
    BY DEF Belongs, CountsNow
  <2> HIDE DEF reasons
  <2> QED
    BY <2>1, <2>2 DEF Explained
<1> QED
  BY <1>1, <1>2

\* The audit appends row and reasons of the same tables.
LEMMA AuditedKept ==
    ASSUME IInv, TasksRun, Settled, Stored, Audited, [Next]_vars
    PROVE  Audited'
<1> USE DEF tables, ops
<1>1. Types /\ Waits /\ TasksInOrder /\ target' = target
  BY SameEnvironment DEF IInv
\* Nothing is appended, and what the audit has counted stays as long as it runs.
<1>2. ASSUME UNCHANGED <<pipeline_runs, dq_results>>, run'.version = run.version,
             run'.tasks["post_run_audit"]
                 \in {run.tasks["post_run_audit"], "failed", "excluded"},
             run.tasks["post_run_audit"] = "running" => silver' = silver
      PROVE  Audited'
  <2>1. run.tasks["post_run_audit"] = "running" => \A row : CountsNow(row) => CountsNow(row)'
    BY <1>1, <1>2 DEF CountsNow, Params
  <2>2. \A row, d : Belongs(d, row)' = Belongs(d, row)
    BY DEF Belongs
  <2>3. \A row : Explained(row, dq_results)' = Explained(row, dq_results)
    BY <1>2 DEF Explained
  <2> QED
    BY <1>2, <2>1, <2>2, <2>3 DEF Audited
<1>3. ASSUME NEW task \in Tasks, NEW status, Told(task, status),
             UNCHANGED <<pipeline_runs, dq_results>>,
             task = "post_run_audit" => status \in {"failed", "excluded"},
             run.tasks["post_run_audit"] = "running" => silver' = silver
      PROVE  Audited'
  <2>1. /\ run'.version = run.version
        /\ run'.tasks["post_run_audit"]
               \in {run.tasks["post_run_audit"], "failed", "excluded"}
    BY <1>1, <1>3, ToldSays, FourTasks
  <2> QED
    BY <1>2, <1>3, <2>1
<1>4. ASSUME NEW r \in Resources, Deploy(r)
      PROVE  Audited'
  <2>1. run'.version = run.version /\ run'.tasks = run.tasks
    BY <1>1, <1>4 DEF Deploy, Types, RunType
  <2> QED
    BY <1>2, <1>4, <2>1 DEF Deploy
<1>5. ASSUME run' = run \/ (\E task \in {"source_emulator", "pipeline_update"} : \E status :
                               Told(task, status)),
             UNCHANGED <<pipeline_runs, dq_results>>,
             run.tasks["post_run_audit"] = "running" => silver' = silver
      PROVE  Audited'
  BY <1>2, <1>3, <1>5, FourTasks
<1>6. ASSUME NEW by \in Callers, NEW scenario, StartEmulation(by, scenario)
      PROVE  Audited'
  BY <1>5, <1>6 DEF StartEmulation, Starts, Ends, Told
<1>7. CASE FinishEmulation \/ FailEmulation
  BY <1>5, <1>7 DEF FinishEmulation, FailEmulation, Ends, Told
<1>8. ASSUME NEW by \in Callers, NEW full, StartUpdate(by, full)
      PROVE  Audited'
  BY <1>5, <1>8 DEF StartUpdate, Starts, Ends, Told
\* No update finishes while the audit runs.
<1>9. CASE FinishUpdate
  <2>1. run.tasks["post_run_audit"] # "running"
    BY <1>1, <1>9, FourTasks DEF FinishUpdate, TasksInOrder, TasksRun, Settled
  <2>2. /\ run' = run \/ Told("pipeline_update", "succeeded")
        /\ UNCHANGED <<pipeline_runs, dq_results>>
    BY <1>9 DEF FinishUpdate, Ends, Told
  <2> QED
    BY <1>5, <2>1, <2>2
<1>10. CASE FailUpdate
  BY <1>5, <1>10 DEF FailUpdate, Ends, Told
<1>11. ASSUME NEW by, StartRun(by)
       PROVE  Audited'
  <2>1. /\ pipeline_runs' = {} /\ dq_results' = {}
        /\ run'.tasks["post_run_audit"] = "pending"
    BY <1>11, FourTasks DEF StartRun, Idle
  <2> QED
    BY <2>1 DEF Audited
<1>12. ASSUME NEW t \in Tasks, Exclude(t)
       PROVE  Audited'
  BY <1>3, <1>12 DEF Exclude, Told
\* The audit starts with nothing appended, after the update of the run.
<1>13. CASE AppendRuns
  <2> DEFINE row == [git_sha |-> Params(run.version).git_sha, counts |-> SourceCounts,
                     conserved |-> AllConserved(SourceCounts),
                     computed_by |-> silver.version, steady |-> run.steady]
  <2>1. /\ run.state = "active" /\ run.tasks["post_run_audit"] = "pending"
        /\ run.tasks["pipeline_update"] = "succeeded"
    BY <1>13 DEF AppendRuns, Ready, RunIf, DependsOn
  <2>2. pipeline_runs = {} /\ dq_results = {} /\ dq_results' = {} /\ silver' = silver
    BY <1>13, <2>1 DEF AppendRuns, Audited
  <2>3. CASE Resolves(run.version)
    <3>1. pipeline_runs' = {row} /\ Told("post_run_audit", "running")
      BY <1>13, <2>3 DEF AppendRuns, Told
    <3>2. row.conserved
      BY <2>1, Conserved
    <3>3. run'.version = run.version /\ run'.tasks["post_run_audit"] = "running"
      BY <1>1, <3>1, ToldSays, FourTasks
    <3>4. /\ row.git_sha = Params(run.version).git_sha
          /\ \A s \in DeclaredSources : row.counts[s].quarantine = silver.quarantine[s]
      BY DEF SourceCounts
    <3> HIDE DEF row
    <3>5. /\ row.git_sha = Params(run.version)'.git_sha
          /\ \A s \in DeclaredSources : row.counts[s].quarantine = silver'.quarantine[s]
      BY <1>1, <2>2, <3>3, <3>4 DEF Params
    <3>6. \E r \in pipeline_runs' :
              /\ r.git_sha = Params(run.version)'.git_sha
              /\ \A s \in DeclaredSources : r.counts[s].quarantine = silver'.quarantine[s]
      BY <3>1, <3>5
    <3> QED
      BY <2>2, <3>1, <3>2, <3>3, <3>6 DEF Audited, CountsNow
  <2>4. CASE ~Resolves(run.version)
    <3>1. pipeline_runs' = pipeline_runs /\ Told("post_run_audit", "failed")
      BY <1>13, <2>4 DEF AppendRuns, Told
    <3> QED
      BY <1>3, <2>2, <3>1, FourTasks
  <2> QED
    BY <2>3, <2>4
<1>14. CASE AppendReasons
  <2>1. /\ run.tasks["post_run_audit"] = "running" /\ pipeline_runs' = pipeline_runs
        /\ dq_results' = Reasons /\ Told("post_run_audit", "succeeded")
    BY <1>14 DEF AppendReasons, Told
  <2>2. PICK row \in pipeline_runs : CountsNow(row)
    BY <2>1 DEF Audited
  <2>3. /\ \A d \in dq_results' : Belongs(d, row)
        /\ \A a, b \in dq_results' : a = b
        /\ Explained(row, dq_results')
    BY <2>1, <2>2, ReasonsBelong
  <2>4. run'.tasks["post_run_audit"] = "succeeded"
    BY <1>1, <2>1, ToldSays, FourTasks
  <2>5. /\ \A d \in dq_results' : \E r \in pipeline_runs' : Belongs(d, r)'
        /\ \E r \in pipeline_runs' : Explained(r, dq_results)'
    <3>1. row \in pipeline_runs'
      BY <2>1, <2>2
    <3> QED
      BY <2>3, <3>1 DEF Belongs, Explained
  <2> QED
    BY <2>1, <2>3, <2>4, <2>5 DEF Audited
<1>15. CASE FailAudit
  <2>1. Told("post_run_audit", "failed") /\ pipeline_runs' = pipeline_runs
    BY <1>15 DEF FailAudit, Told
  <2>2. run'.tasks["post_run_audit"] = "failed"
    BY <1>1, <2>1, ToldSays, FourTasks
  <2>3. CASE dq_results' = dq_results
    BY <2>1, <2>2, <2>3 DEF Audited, Belongs
  <2>4. CASE run.tasks["post_run_audit"] = "running" /\ dq_results' \in {{}, Reasons}
    <3>1. PICK row \in pipeline_runs : CountsNow(row)
      BY <2>4 DEF Audited
    <3>2. /\ \A d \in dq_results' : Belongs(d, row)
          /\ \A a, b \in dq_results' : a = b
      BY <2>4, <3>1, ReasonsBelong
    <3>3. \A d \in dq_results' : \E r \in pipeline_runs' : Belongs(d, r)'
      <4>1. row \in pipeline_runs'
        BY <2>1, <3>1
      <4> QED
        BY <3>2, <4>1 DEF Belongs
    <3> QED
      BY <2>1, <2>2, <3>2, <3>3 DEF Audited
  <2> QED
    BY <1>15, <2>3, <2>4 DEF FailAudit
<1>16. CASE CheckInvariants
  <2>1. \E status : Told("invariant_checks", status)
    BY <1>16 DEF CheckInvariants, Told
  <2> QED
    BY <1>3, <1>16, <2>1, FourTasks DEF CheckInvariants
<1>17. CASE EndRun
  <2>1. run'.version = run.version /\ run'.tasks = run.tasks
    BY <1>1, <1>17 DEF EndRun, Types, RunType
  <2> QED
    BY <1>2, <1>17, <2>1 DEF EndRun
<1>18. CASE \/ \E file \in Deliveries : Deliver(file)
            \/ \E version \in Versions, steps \in {Release, OpsRun},
                  scenario \in Names \cup {Null}, full \in BOOLEAN :
                   StartWorkflow(version, steps, scenario, full)
            \/ FailDeploy \/ WriteFile \/ Ingest \/ UNCHANGED vars
  <2>1. UNCHANGED <<pipeline_runs, dq_results, silver, run>>
    BY <1>18 DEF Deliver, StartWorkflow, FailDeploy, WriteFile, Ingest, vars
  <2> QED
    BY <1>5, <2>1
<1> QED
  BY <1>1, <1>4, <1>6, <1>7, <1>8, <1>9, <1>10, <1>11, <1>12, <1>13, <1>14, <1>15, <1>16,
     <1>17, <1>18, StepIs

\* What has been counted, and the bounds.
Numbers ==
    /\ silver.version \in Versions
    /\ \A s \in DeclaredSources : silver.valid[s] \in Nat /\ silver.quarantine[s] \in Nat
    /\ workflows \in 0..MaxWorkflows /\ failures \in 0..MaxFailures

\* Counts are taken of files that are stored, and the bounds are guards.
LEMMA NumbersKept ==
    ASSUME IInv, Jobs, Stored, Numbers, [Next]_vars
    PROVE  Numbers'
<1>1. Types
  BY DEF IInv
<1>2. silver' = silver \/ FinishUpdate
  BY <1>1, StepIs DEF Deliver, StartWorkflow, Deploy, FailDeploy, StartEmulation, WriteFile,
     FinishEmulation, FailEmulation, StartUpdate, Ingest, FailUpdate, StartRun, Exclude,
     AppendRuns, AppendReasons, FailAudit, CheckInvariants, EndRun, vars, tables
<1>3. CASE FinishUpdate
  <2>1. silver' = [version |-> update.version, valid |-> CountAll(bronze, "valid"),
                   quarantine |-> CountAll(bronze, "quarantine")]
    BY <1>3 DEF FinishUpdate
  <2>2. update \in Update
    BY <1>3 DEF FinishUpdate, Jobs
  <2>3. \A s \in DeclaredSources : /\ CountAll(bronze, "valid")[s] \in Nat
                                   /\ CountAll(bronze, "quarantine")[s] \in Nat
    <3> HIDE DEF Files
    <3> QED
      BY CountsAddUp DEF Stored
  <2>4. silver'.version \in Versions
    BY <2>1, <2>2 DEF Update
  <2> QED
    BY <1>3, <2>1, <2>3, <2>4 DEF Numbers, FinishUpdate, counters
<1>4. CASE silver' = silver
  <2>1. /\ \/ workflows' = workflows
           \/ workflows' = workflows + 1 /\ workflows < MaxWorkflows
        /\ \/ failures' = failures
           \/ failures' = failures + 1 /\ failures < MaxFailures
    BY <1>1, StepIs DEF Deliver, StartWorkflow, Deploy, FailDeploy, StartEmulation, WriteFile,
       FinishEmulation, FailEmulation, StartUpdate, Ingest, FinishUpdate, FailUpdate, StartRun,
       Exclude, AppendRuns, AppendReasons, FailAudit, CheckInvariants, EndRun, Fail, vars,
       counters
  <2> QED
    BY <1>4, <2>1, OrchestratorAssumption DEF Numbers
<1> QED
  BY <1>2, <1>3, <1>4

-----------------------------------------------------------------------------
\* The second inductive invariant, which holds beside the first.
DataInv ==
    /\ Jobs /\ Stored /\ TasksRun /\ InEnvironment /\ Whose /\ Settled /\ Audited
    /\ Numbers

\* Nothing has been written, counted or appended at first.
LEMMA InitData == Init => DataInv
<1> SUFFICES ASSUME Init PROVE DataInv
  OBVIOUS
<1> USE DEF Init
<1>1. Jobs /\ InEnvironment /\ Whose
  BY DEF Jobs, InEnvironment, Whose
<1>2. Stored
  BY FS_EmptySet DEF Stored, OncePerPath
<1>3. TasksRun /\ Settled
  BY FourTasks DEF TasksRun, Settled, Idle
<1>4. Audited
  BY FourTasks DEF Audited, Idle
<1>5. Numbers
  <2>1. \A s \in DeclaredSources :
            CountAll({}, "valid")[s] \in Nat /\ CountAll({}, "quarantine")[s] \in Nat
    BY CountsAddUp, FS_EmptySet
  <2> QED
    BY <2>1, OrchestratorAssumption DEF Numbers
<1> QED
  BY <1>1, <1>2, <1>3, <1>4, <1>5 DEF DataInv

\* Every step preserves it.
LEMMA NextData == IInv /\ DataInv /\ [Next]_vars => DataInv'
<1> SUFFICES ASSUME IInv, DataInv, [Next]_vars PROVE DataInv'
  OBVIOUS
<1>1. /\ Jobs /\ Stored /\ TasksRun /\ InEnvironment /\ Whose /\ Settled /\ Audited
      /\ Numbers
  BY DEF DataInv
<1>2. Jobs' /\ Stored' /\ InEnvironment' /\ Whose' /\ Numbers'
  BY <1>1, JobsKept, StoredKept, InEnvironmentKept, WhoseKept, NumbersKept
<1>3. TasksRun' /\ Settled' /\ Audited'
  BY <1>1, <1>2, TasksRunKept, SettledKept, AuditedKept
<1> QED
  BY <1>2, <1>3 DEF DataInv

\* So both hold always.
LEMMA DataInvariant == Spec => [](IInv /\ DataInv)
BY InitEstablishes, InitData, NextPreserves, NextData, PTL DEF Spec

\* Everything is of its type.
THEOREM TypeCorrect == Spec => []TypeOK
<1>1. IInv /\ DataInv => TypeOK
  <2> SUFFICES ASSUME IInv, DataInv PROVE TypeOK
    OBVIOUS
  <2>1. Types /\ Jobs /\ Stored /\ TasksRun /\ Audited /\ Numbers
    BY DEF IInv, DataInv
  <2>2. \A s \in StepsLeft : s # <<>> => Head(s) \in Range(OpsRun)
    <3>1. Range(OpsRun) = {"deploy", "emulate", "update", "run"}
      BY DEF Range, OpsRun
    <3> QED
      BY <3>1 DEF StepsLeft
  <2>3. workflow # Null =>
           /\ workflow.version \in Versions /\ workflow.left \subseteq Resources
           /\ workflow.steps # <<>> => Head(workflow.steps) \in Range(OpsRun)
    BY <2>1, <2>2 DEF Types, WorkflowType
  <2>4. /\ run.state \in {"none", "active", "ended"}
        /\ run.tasks \in [Tasks -> {"pending", "running", "succeeded", "failed", "excluded"}]
    BY <2>1 DEF Types, RunType, Status
  <2>5. Cardinality(pipeline_runs) <= 1 /\ Cardinality(dq_results) <= 1
    <3>1. ASSUME NEW S, \A a, b \in S : a = b
          PROVE  Cardinality(S) <= 1
      <4>1. CASE S = {}
        BY <4>1, FS_EmptySet
      <4>2. CASE S # {}
        <5>1. PICK x : x \in S
          BY <4>2
        <5>2. S = {x}
          BY <3>1, <5>1
        <5> QED
          BY <5>2, FS_Singleton
      <4> QED
        BY <4>1, <4>2
    <3> QED
      BY <2>1, <3>1 DEF Audited
  <2>6. \A f, g \in bronze : f.path = g.path => f = g
    BY <2>1 DEF Stored, OncePerPath
  <2> HIDE DEF Files
  <2> QED
    BY <2>1, <2>3, <2>4, <2>5, <2>6 DEF TypeOK, Types, Jobs, Stored, TasksRun, Numbers
<1> QED
  BY <1>1, DataInvariant, PTL

\* What the last run has put down is of one completed update: conserved, the reasons of
\* the rows that were counted, and in a green run complete.
THEOREM AuditsOfOneUpdate == Spec => []AuditsAgree
<1>1. IInv /\ DataInv => AuditsAgree
  <2> SUFFICES ASSUME IInv, DataInv PROVE AuditsAgree
    OBVIOUS
  <2>1. TasksInOrder /\ Audited
    BY DEF IInv, DataInv
  <2> QED
    BY <2>1 DEF TasksInOrder, Audited, Belongs, Explained, AuditsAgree, Green
<1> QED
  BY <1>1, DataInvariant, PTL

\* Where the emulator is enabled, a scenario all of whose paths have been read is there
\* row for row; elsewhere nothing emulated lands.
THEOREM ScenariosWhole == Spec => []EmulatedWhole
<1>1. ASSUME Types, Whose
      PROVE  EmulatedWhole
  <2>1. CASE ~EmulatorEnabled
    BY <1>1, <2>1 DEF Types, Whose, EmulatorEnabled, EmulatedWhole
  <2>2. CASE EmulatorEnabled
    <3>1. bronze \in SUBSET Made
      BY <1>1, <2>2 DEF Whose, EmulatorEnabled
    <3>2. ASSUME NEW name \in Generating,
                 {f.path : f \in Range(Generated[name])} \subseteq {b.path : b \in bronze},
                 NEW source \in {p.file.source : p \in {f.path : f \in Range(Generated[name])}},
                 NEW these, these = {f \in bronze : OfScenario(f, source,
                                        Documents[ReplayTarget[name]].logical_clock)}
          PROVE  FlattenSeq([i \in DOMAIN InOrder(these) |-> Content(InOrder(these)[i].records)])
                     = FaultedRows(ReplayTarget[name], source)
      <4> DEFINE t == ReplayTarget[name]
      <4>1. PICK g \in Range(Generated[name]) : source = g.path.file.source
        BY <3>2
      <4>2. PICK s \in Range(BatchSources(t)) : g \in Range(BatchFiles(t, s))
        BY <4>1, GeneratedFrom
      <4>3. Batched(t, s) /\ Range(BatchFiles(t, s)) \subseteq Range(Generated[name])
        BY <4>2, GeneratedFrom
      <4> HIDE DEF t
      <4>4. PICK j \in DOMAIN BatchFiles(t, s) : g = BatchFiles(t, s)[j]
        BY <4>2 DEF Range
      <4>5. g.path.file = FileName(s, Documents[t].logical_clock, j)
        BY <4>3, <4>4, BatchFile
      <4>6. source = s
        BY <4>1, <4>5 DEF FileName
      <4>7. \A i \in DOMAIN BatchFiles(t, s) :
                /\ BatchFiles(t, s)[i] \in Made
                /\ \E b \in bronze : b.path = BatchFiles(t, s)[i].path
        <5> TAKE i \in DOMAIN BatchFiles(t, s)
        <5>1. BatchFiles(t, s)[i] \in Range(Generated[name])
          BY <4>3 DEF Range
        <5> QED
          BY <3>2, <5>1 DEF Made
      <4>8. BatchFiles(t, s) # <<>>
        BY <4>4
      <4> QED
        BY <3>1, <3>2, <4>3, <4>6, <4>7, <4>8, BatchRead DEF t
    <3> QED
      BY <2>2, <3>2 DEF EmulatedWhole
  <2> QED
    BY <2>1, <2>2
<1>2. IInv /\ DataInv => EmulatedWhole
  BY <1>1 DEF IInv, DataInv
<1> QED
  BY <1>2, DataInvariant, PTL
=============================================================================
