-------------------------------- MODULE Tasks --------------------------------
(***************************************************************************)
(* The active task of a conversation: its plan, its acceptance criteria    *)
(* and its files (forge/tasks/manager.py, state.py, store.py), driven by   *)
(* the task tools (forge/tools/task.py), by the router and by the end of a *)
(* turn (runner.py).                                                       *)
(*                                                                         *)
(* A source is a quote of the user with a clause name. Goals, directives,  *)
(* constraints and scopes are left out.                                    *)
(***************************************************************************)
EXTENDS Naturals, Sequences, FiniteSets

CONSTANTS
  StepCounts,   \* lengths of a plan
  Sources,      \* what a criterion may quote
  MaxTasks,     \* bound: tasks
  MaxPlans,     \* bound: plans
  MaxRevisions, \* bound: revisions of a criterion
  MaxSaveFaults \* bound: saves that fail

ASSUME TaskAssumption ==
  /\ StepCounts \subseteq 2 .. 20
  /\ MaxTasks \in Nat /\ MaxPlans \in Nat /\ MaxRevisions \in Nat /\ MaxSaveFaults \in Nat

VARIABLES
  active,       \* TaskManager.active
  taskFiles,    \* .forge/tasks/<id>.json
  currentFile,  \* .forge/tasks/current.json
  tasks,        \* history: number of tasks
  plans,        \* history: number of plans
  saveFaults    \* history: number of saves that failed

\* A task also has a history: the steps of its plan that an update set to pending or blocked, and
\* whether it was completed since it was planned.
task_vars == <<active, taskFiles, currentFile, tasks, plans, saveFaults>>

NoTask == [id |-> 0]
HasTask == active # NoTask

TaskInit ==
  /\ active = NoTask /\ taskFiles = <<>> /\ currentFile = NoTask
  /\ tasks = 0 /\ plans = 0 /\ saveFaults = 0

(***************************************************************************)
(* Saving. Only a planned task has files: its own first, then current.json;*)
(* an error leaves what was written and what memory holds.                 *)
(***************************************************************************)
Save(task) ==
  /\ active' = task
  /\ IF ~task.planned THEN UNCHANGED <<taskFiles, currentFile, saveFaults>>
     ELSE \/ /\ taskFiles' = [taskFiles EXCEPT ![task.id] = task] /\ currentFile' = task
             /\ UNCHANGED saveFaults
          \/ /\ saveFaults < MaxSaveFaults /\ saveFaults' = saveFaults + 1
             /\ taskFiles' \in {taskFiles, [taskFiles EXCEPT ![task.id] = task]}
             /\ UNCHANGED currentFile

(***************************************************************************)
(* start, continue_active, and the statuses that the end of a turn sets.   *)
(***************************************************************************)
StartTask ==
  /\ tasks < MaxTasks
  /\ tasks' = tasks + 1
  /\ active' = [id |-> tasks', status |-> "in_progress", planned |-> FALSE, step |-> 0, steps |-> <<>>,
                criteria |-> {}, retired |-> {}, moved |-> {}, closed |-> FALSE]
  /\ taskFiles' = Append(taskFiles, NoTask)
  /\ UNCHANGED <<currentFile, plans, saveFaults>>

ContinueTask ==
  /\ HasTask
  /\ Save([active EXCEPT !.status = "in_progress"])
  /\ UNCHANGED <<tasks, plans>>

\* complete keeps the steps as they are and forgets the current one.
CompleteTask ==
  /\ HasTask
  /\ Save([active EXCEPT !.status = "completed", !.step = 0, !.closed = TRUE])
  /\ UNCHANGED <<tasks, plans>>

\* partial, block, fail and stuck: nothing here tells them apart.
StopTask ==
  /\ HasTask
  /\ Save([active EXCEPT !.status = "stopped"])
  /\ UNCHANGED <<tasks, plans>>

\* /resume of a task by its id: what its own file holds.
ResumeTask(id) ==
  /\ id \in DOMAIN taskFiles /\ taskFiles[id] # NoTask
  /\ Save([taskFiles[id] EXCEPT !.status = "in_progress"])
  /\ UNCHANGED <<tasks, plans>>

(***************************************************************************)
(* Acceptance criteria. The id of a proposal is made of its source, so     *)
(* that a repetition finds it; the id of a revision is new.                *)
(***************************************************************************)
Quoted(task) == {c.source : c \in task.criteria}

\* _merge_acceptance: a source that is known already keeps its interpretation.
Merged(task, sources) ==
  task.criteria \union {[id |-> <<s, 0>>, source |-> s] : s \in sources \ Quoted(task)}

Register(sources) ==
  /\ HasTask
  /\ Save([active EXCEPT !.criteria = Merged(active, sources)])
  /\ UNCHANGED <<tasks, plans>>

\* revise_acceptance: the old interpretation goes to the history, with or without a new one.
Revise(c, replacement) ==
  LET revision == Cardinality(active.retired) + 1 IN
  /\ Cardinality(active.retired) < MaxRevisions
  /\ Save([active EXCEPT
             !.criteria = (@ \ {c}) \union {[id |-> <<s, revision>>, source |-> s] : s \in replacement},
             !.retired = @ \union {[c EXCEPT !.id = <<c.id, revision>>]}])
  /\ UNCHANGED <<tasks, plans>>

(***************************************************************************)
(* The plan.                                                               *)
(***************************************************************************)
\* task_plan; without replace it preserves a plan that is there.
Plan(count, sources, replace) ==
  /\ HasTask /\ plans < MaxPlans
  /\ active.planned => replace
  /\ Save([active EXCEPT
             !.status = "in_progress", !.planned = TRUE, !.step = 1,
             !.steps = [i \in 1 .. count |->
                          [status |-> IF i = 1 THEN "in_progress" ELSE "pending", evidence |-> FALSE]],
             !.criteria = Merged(active, sources), !.moved = {}, !.closed = FALSE])
  /\ plans' = plans + 1
  /\ UNCHANGED tasks

\* The tool answers a request that is satisfied already without the manager.
Satisfied(step, status) ==
  step.status = status \/ (step.status = "completed" /\ status = "in_progress")

RefusedLoosely(task, i, status, evidence) ==
  \/ status = "in_progress" /\ evidence
  \/ status = "completed" /\ ~(evidence \/ task.steps[i].evidence)

Refused(task, i, status, evidence) ==
  \/ status = "in_progress" /\ (i # task.step \/ evidence)
  \/ status = "completed" /\ (i # task.step \/ task.steps[i].status # "in_progress"
                               \/ ~(evidence \/ task.steps[i].evidence))

\* The step with its new status; an active one is the only one.
Updated(task, i, status, evidence) ==
  [j \in DOMAIN task.steps |->
    IF j = i THEN [status |-> status, evidence |-> task.steps[j].evidence \/ evidence]
    ELSE IF status = "in_progress" /\ task.steps[j].status = "in_progress"
         THEN [task.steps[j] EXCEPT !.status = "pending"] ELSE task.steps[j]]

Pending(steps) == {j \in DOMAIN steps : steps[j].status = "pending"}

UpdateStep(i, status, evidence) ==
  LET steps == Updated(active, i, status, evidence)
      next == CHOOSE j \in Pending(steps) : \A k \in Pending(steps) : j <= k
      advances == status = "completed" /\ i = active.step IN
  /\ HasTask /\ active.planned /\ i \in DOMAIN active.steps
  /\ ~Satisfied(active.steps[i], status)
  /\ ~Refused(active, i, status, evidence)
  /\ Save([active EXCEPT
             !.steps = IF advances /\ Pending(steps) # {} THEN [steps EXCEPT ![next].status = "in_progress"]
                       ELSE steps,
             !.step = IF status = "in_progress" THEN i
                      ELSE IF ~advances THEN @
                      ELSE IF Pending(steps) # {} THEN next ELSE 0,
             !.moved = IF status \in {"pending", "blocked"} THEN @ \union {i} ELSE @])
  /\ UNCHANGED <<tasks, plans>>

TaskNext ==
  \/ StartTask \/ ContinueTask \/ CompleteTask \/ StopTask
  \/ \E id \in 1 .. MaxTasks : ResumeTask(id)
  \/ \E sources \in SUBSET Sources :
       \/ Register(sources)
       \/ \E count \in StepCounts, replace \in BOOLEAN : Plan(count, sources, replace)
  \/ HasTask /\ \E c \in active.criteria, replacement \in {{}} \union {{s} : s \in Sources} :
                   Revise(c, replacement)
  \/ \E i \in 1 .. 20, status \in {"pending", "in_progress", "completed", "blocked"},
        evidence \in BOOLEAN : UpdateStep(i, status, evidence)

TaskSpec == TaskInit /\ [][TaskNext]_task_vars

(***************************************************************************)
(* What a plan is worth as a record.                                       *)
(***************************************************************************)

\* Whatever was repeated, reset, blocked, continued or resumed: a completed step carries evidence
\* of work, no two steps are active, the current step is not a completed one, and no step before it
\* was passed over unless an update said so; a plan without a current step is at its end or its
\* task was completed (TaskManager.update_step, TaskUpdateTool.execute).
PlanInOrder ==
  HasTask /\ active.planned =>
    LET status(i) == active.steps[i].status
        steps == DOMAIN active.steps IN
    /\ \A i \in steps : status(i) = "completed" => active.steps[i].evidence
    /\ \A i, j \in steps : status(i) = "in_progress" /\ status(j) = "in_progress" => i = j
    /\ active.step # 0 =>
         /\ status(active.step) # "completed"
         /\ \A j \in 1 .. active.step - 1 : status(j) = "completed" \/ j \in active.moved
    /\ active.step = 0 => active.closed \/ \A i \in steps : status(i) = "completed" \/ i \in active.moved
=============================================================================
