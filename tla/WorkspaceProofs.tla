---------------------------- MODULE WorkspaceProofs ----------------------------
(***************************************************************************)
(* Theorems about two parts that keep a record of the work: the plan of a  *)
(* task (Tasks) and the evidence a turn is accepted on (Evidence), and     *)
(* about what may be put back in the workspace: the tree of a sandbox      *)
(* (Writeback) and what a turn changed (Checkpoints).                      *)
(*                                                                         *)
(* Tasks: PlanInOrder speaks of the active task only, but a task comes     *)
(* back from its file (ResumeTask), so that the invariant says the same of *)
(* every file; and it needs what the property leaves out, that a step was  *)
(* blocked by an update only.                                              *)
(*                                                                         *)
(* Evidence: what the gate compares are counters, a revision and an epoch; *)
(* what the property speaks of is the tree and the commands. The invariant *)
(* ties the two: a check of this turn with the revision of the tracker has *)
(* seen what the tracker holds, and the epochs since count the commands.   *)
(*                                                                         *)
(* Writeback: the system calls of apply see whether a name exists, the     *)
(* check before them the identity of a file. The invariant says whose      *)
(* everything is that stands there; with it an entry that may be applied   *)
(* is nobody else's, but for one he wrote since its check.                 *)
(*                                                                         *)
(* Checkpoints: that the newest one can be undone needs that those that    *)
(* were not undone stand on each other: what one turn left is what the     *)
(* next one found, and the workspace is what the newest one left.          *)
(*                                                                         *)
(* Sandboxes: the cleanup report of a session may say "clean" for what     *)
(* lives without an owner, unless what the task of each execution has done *)
(* at each place of it is known: who started its processes, whether they   *)
(* were waited for, which directory is left, how many frames were sent.    *)
(***************************************************************************)
EXTENDS Evidence, Tasks, Writeback, Checkpoints, Sandboxes, SequenceTheorems, WellFoundedInduction, TLAPS

Statuses == {"pending", "in_progress", "completed", "blocked"}

PlanStep == [status : Statuses, evidence : BOOLEAN]

\* A task as the manager keeps it; nothing is said of its criteria.
Task(t) ==
  /\ t \in [id : Nat, status : {"in_progress", "completed", "stopped"}, planned : BOOLEAN, step : Nat,
           steps : Seq(PlanStep), criteria : {t.criteria}, retired : {t.retired}, moved : SUBSET Nat,
           closed : BOOLEAN]
  /\ t.step \in {0} \union DOMAIN t.steps

\* What PlanInOrder says, of any task, and that a blocked step was moved by an update.
InOrder(t) ==
  /\ \A i \in DOMAIN t.steps :
       /\ t.steps[i].status = "completed" => t.steps[i].evidence
       /\ t.steps[i].status = "blocked" => i \in t.moved
  /\ \A i, j \in DOMAIN t.steps :
       t.steps[i].status = "in_progress" /\ t.steps[j].status = "in_progress" => i = j
  /\ t.step # 0 =>
       /\ t.steps[t.step].status # "completed"
       /\ \A j \in 1 .. t.step - 1 : t.steps[j].status = "completed" \/ j \in t.moved
  /\ t.step = 0 => t.closed \/ \A i \in DOMAIN t.steps : t.steps[i].status = "completed" \/ i \in t.moved

Sound(t) == Task(t) /\ (t.planned => InOrder(t))

TaskInv ==
  /\ HasTask => Sound(active)
  /\ tasks \in Nat
  /\ \E S : taskFiles \in Seq(S)
  /\ \A id \in DOMAIN taskFiles : taskFiles[id] # NoTask => Sound(taskFiles[id])

-----------------------------------------------------------------------------
(* Tasks: what the helpers keep. *)

\* The task that is saved is sound, whatever part of the save fails (TaskStore.save): so is then
\* every file.
LEMMA SaveKeeps ==
  ASSUME TaskInv, NEW t, Sound(t), Save(t), tasks' = tasks
  PROVE  TaskInv'
<1>1. active' = t
  BY DEF Save
<1>2. taskFiles' = taskFiles \/ taskFiles' = [taskFiles EXCEPT ![t.id] = t]
  BY DEF Save
<1>3. (HasTask => Sound(active))'
  BY <1>1 DEF Sound, Task, InOrder
<1>4. (\E S : taskFiles \in Seq(S))'
  <2>1. PICK S : taskFiles \in Seq(S)
    BY DEF TaskInv
  <2>2. taskFiles \in Seq(S \union {t}) /\ taskFiles' \in Seq(S \union {t})
    BY <2>1, <1>2
  <2> QED
    BY <2>2
<1>5. ASSUME NEW id \in DOMAIN taskFiles', taskFiles'[id] # NoTask
      PROVE  Sound(taskFiles'[id])
  <2>1. id \in DOMAIN taskFiles /\ (taskFiles'[id] = taskFiles[id] \/ taskFiles'[id] = t)
    <3>1. CASE taskFiles' = taskFiles
      BY <3>1, <1>5
    <3>2. CASE taskFiles' = [taskFiles EXCEPT ![t.id] = t]
      BY <3>2, <1>5
    <3> QED
      BY <3>1, <3>2, <1>2
  <2>2. CASE taskFiles'[id] = t
    BY <2>2
  <2>3. CASE taskFiles'[id] = taskFiles[id]
    BY <2>1, <2>3, <1>5 DEF TaskInv
  <2> QED
    BY <2>1, <2>2, <2>3
<1>6. NoTask' = NoTask /\ tasks' \in Nat
  BY DEF NoTask, TaskInv
<1>7. (\A id \in DOMAIN taskFiles : taskFiles[id] # NoTask => Sound(taskFiles[id]))'
  <2> SUFFICES ASSUME NEW id \in DOMAIN taskFiles', taskFiles'[id] # NoTask
               PROVE  Sound(taskFiles[id])'
    BY <1>6
  <2>1. Sound(taskFiles'[id])
    BY <1>5
  <2> QED
    BY <2>1 DEF Sound, Task, InOrder
<1> QED
  BY <1>3, <1>4, <1>6, <1>7 DEF TaskInv

\* A task whose plan, current step, moves and closing stay as they are stays sound.
LEMMA SamePlan ==
  ASSUME NEW t, Sound(t), NEW u, Task(u), u.planned = t.planned, u.steps = t.steps, u.step = t.step,
         u.moved = t.moved, u.closed = t.closed
  PROVE  Sound(u)
<1>1. u.planned => InOrder(t)
  BY DEF Sound
<1>2. u.planned => InOrder(u)
  BY <1>1 DEF InOrder
<1> QED
  BY <1>2 DEF Sound

-----------------------------------------------------------------------------
(* Tasks: the steps. *)

\* A task that changes its status only (continue_active, the ends of a turn).
LEMMA StatusOnly ==
  ASSUME NEW t, Sound(t), NEW s \in {"in_progress", "completed", "stopped"}
  PROVE  Sound([t EXCEPT !.status = s])
<1> DEFINE u == [t EXCEPT !.status = s]
<1>1. /\ u.planned = t.planned /\ u.steps = t.steps /\ u.step = t.step /\ u.moved = t.moved
      /\ u.closed = t.closed /\ u.criteria = t.criteria /\ u.retired = t.retired
  BY DEF Sound, Task
<1>2. Task(u)
  BY <1>1 DEF Sound, Task
<1> HIDE DEF u
<1>3. Sound(u)
  BY <1>1, <1>2, SamePlan
<1> QED
  BY <1>3 DEF u

\* complete: without a current step, but closed.
LEMMA CompleteKeeps ==
  ASSUME NEW t, Sound(t)
  PROVE  Sound([t EXCEPT !.status = "completed", !.step = 0, !.closed = TRUE])
<1> DEFINE u == [t EXCEPT !.status = "completed", !.step = 0, !.closed = TRUE]
<1>1. /\ u.planned = t.planned /\ u.steps = t.steps /\ u.step = 0 /\ u.moved = t.moved
      /\ u.closed = TRUE /\ u.criteria = t.criteria /\ u.retired = t.retired
  BY DEF Sound, Task
<1>2. Task(u)
  BY <1>1 DEF Sound, Task
<1>3. t.planned => InOrder(t)
  BY DEF Sound
<1> HIDE DEF u
<1>4. u.planned => InOrder(u)
  BY <1>1, <1>3 DEF InOrder
<1>5. Sound(u)
  BY <1>2, <1>4 DEF Sound
<1> QED
  BY <1>5 DEF u

\* Criteria come and go without touching the plan (_merge_acceptance, revise_acceptance).
LEMMA CriteriaOnly ==
  ASSUME NEW t, Sound(t), NEW c, NEW r
  PROVE  /\ Sound([t EXCEPT !.criteria = c])
         /\ Sound([t EXCEPT !.criteria = c, !.retired = r])
<1> DEFINE u == [t EXCEPT !.criteria = c]
           v == [t EXCEPT !.criteria = c, !.retired = r]
<1>1. /\ u.planned = t.planned /\ u.steps = t.steps /\ u.step = t.step /\ u.moved = t.moved
      /\ u.closed = t.closed /\ u.criteria = c /\ u.retired = t.retired
  BY DEF Sound, Task
<1>2. /\ v.planned = t.planned /\ v.steps = t.steps /\ v.step = t.step /\ v.moved = t.moved
      /\ v.closed = t.closed /\ v.criteria = c /\ v.retired = r
  BY DEF Sound, Task
<1>3. Task(u)
  BY <1>1 DEF Sound, Task
<1>4. Task(v)
  BY <1>2 DEF Sound, Task
<1> HIDE DEF u, v
<1>5. Sound(u)
  BY <1>1, <1>3, SamePlan
<1>6. Sound(v)
  BY <1>2, <1>4, SamePlan
<1> QED
  BY <1>5, <1>6 DEF u, v

\* A new plan starts at its first step (TaskManager.plan).
LEMMA PlanKeeps ==
  ASSUME NEW t, Sound(t), NEW count \in StepCounts, NEW c
  PROVE  Sound([t EXCEPT
             !.status = "in_progress", !.planned = TRUE, !.step = 1,
             !.steps = [i \in 1 .. count |->
                          [status |-> IF i = 1 THEN "in_progress" ELSE "pending", evidence |-> FALSE]],
             !.criteria = c, !.moved = {}, !.closed = FALSE])
<1> DEFINE list == [i \in 1 .. count |->
                      [status |-> IF i = 1 THEN "in_progress" ELSE "pending", evidence |-> FALSE]]
           u == [t EXCEPT !.status = "in_progress", !.planned = TRUE, !.step = 1, !.steps = list,
                          !.criteria = c, !.moved = {}, !.closed = FALSE]
<1>1. count \in Nat /\ count >= 2
  BY TaskAssumption
<1>2. \A i \in 1 .. count :
        [status |-> IF i = 1 THEN "in_progress" ELSE "pending", evidence |-> FALSE] \in PlanStep
  BY DEF PlanStep, Statuses
<1>3. list \in Seq(PlanStep) /\ DOMAIN list = 1 .. count
  BY <1>1, <1>2
<1>4. \A i \in 1 .. count : list[i].status = (IF i = 1 THEN "in_progress" ELSE "pending")
  OBVIOUS
<1> HIDE DEF list
<1>5. /\ u.id = t.id /\ u.status = "in_progress" /\ u.planned = TRUE /\ u.steps = list /\ u.step = 1
      /\ u.moved = {} /\ u.closed = FALSE /\ u.criteria = c /\ u.retired = t.retired
  BY DEF Sound, Task
<1>6. u \in [id : Nat, status : {"in_progress", "completed", "stopped"}, planned : BOOLEAN, step : Nat,
             steps : Seq(PlanStep), criteria : {c}, retired : {t.retired}, moved : SUBSET Nat,
             closed : BOOLEAN]
  BY <1>3 DEF Sound, Task
<1> HIDE DEF u
<1>7. Task(u)
  BY <1>1, <1>3, <1>5, <1>6 DEF Task
<1>8. InOrder(u)
  BY <1>1, <1>3, <1>4, <1>5 DEF InOrder
<1>9. Sound(u)
  BY <1>7, <1>8 DEF Sound
<1> QED
  BY <1>9 DEF u, list

\* The first pending step is there when one is pending.
LEMMA FirstPending ==
  ASSUME NEW steps, NEW n \in Nat, DOMAIN steps = 1 .. n, Pending(steps) # {}
  PROVE  LET next == CHOOSE j \in Pending(steps) : \A k \in Pending(steps) : j <= k IN
         next \in Pending(steps) /\ \A k \in Pending(steps) : next <= k
<1>1. Pending(steps) \in SUBSET Nat
  BY DEF Pending
<1>2. \E j \in Pending(steps) : \A k \in Pending(steps) : j <= k
  <2>1. PICK j \in Pending(steps) : \A k \in Pending(steps) : ~(<<k, j>> \in OpToRel(<, Nat))
    BY <1>1, NatLessThanWellFounded, WFMin
  <2>2. ASSUME NEW k \in Pending(steps), k < j PROVE FALSE
    <3>1. <<k, j>> \in Nat \X Nat /\ <<k, j>>[1] < <<k, j>>[2]
      BY <1>1, <2>2
    <3> QED
      BY <2>1, <3>1 DEF OpToRel
  <2> QED
    BY <1>1, <2>2
<1> QED
  BY <1>2

\* What update_step makes of the steps before it moves on: the one it was asked about has the new
\* status, another one keeps its status unless it gives way to a new active one.
LEMMA UpdatedSteps ==
  ASSUME NEW t, Sound(t), NEW i \in DOMAIN t.steps, NEW status \in Statuses, NEW evidence \in BOOLEAN
  PROVE  LET steps == Updated(t, i, status, evidence) IN
         /\ steps \in Seq(PlanStep) /\ DOMAIN steps = DOMAIN t.steps
         /\ steps[i].status = status
         /\ evidence => steps[i].evidence
         /\ \A j \in DOMAIN t.steps : t.steps[j].evidence => steps[j].evidence
         /\ \A j \in DOMAIN t.steps \ {i} :
              IF status = "in_progress" /\ t.steps[j].status = "in_progress"
              THEN steps[j].status = "pending" ELSE steps[j].status = t.steps[j].status
<1> DEFINE steps == Updated(t, i, status, evidence)
<1>1. t.steps \in Seq(PlanStep)
  BY DEF Sound, Task
<1>2. PICK n \in Nat : DOMAIN t.steps = 1 .. n
  BY <1>1
<1>3. \A j \in DOMAIN t.steps : /\ t.steps[j] \in PlanStep /\ t.steps[j].status \in Statuses
                                /\ t.steps[j].evidence \in BOOLEAN
  <2> TAKE j \in DOMAIN t.steps
  <2>1. t.steps[j] \in PlanStep
    BY <1>1
  <2> QED
    BY <2>1 DEF PlanStep
<1>4. DOMAIN steps = DOMAIN t.steps
  BY DEF Updated
<1>5. steps[i] = [status |-> status, evidence |-> t.steps[i].evidence \/ evidence]
  BY DEF Updated
<1>6. ASSUME NEW j \in DOMAIN t.steps, j # i
      PROVE  steps[j] = (IF status = "in_progress" /\ t.steps[j].status = "in_progress"
                         THEN [t.steps[j] EXCEPT !.status = "pending"] ELSE t.steps[j])
  BY <1>6 DEF Updated
<1> HIDE DEF steps
<1>7. steps[i] \in PlanStep /\ steps[i].status = status
  BY <1>3, <1>5 DEF PlanStep
<1>8. (evidence => steps[i].evidence) /\ (t.steps[i].evidence => steps[i].evidence)
  BY <1>3, <1>5
<1>9. ASSUME NEW j \in DOMAIN t.steps, j # i
      PROVE  /\ steps[j] \in PlanStep
             /\ steps[j].evidence = t.steps[j].evidence
             /\ IF status = "in_progress" /\ t.steps[j].status = "in_progress"
                THEN steps[j].status = "pending" ELSE steps[j].status = t.steps[j].status
  <2>1. [t.steps[j] EXCEPT !.status = "pending"] \in PlanStep
    BY <1>3, <1>9 DEF PlanStep, Statuses
  <2>2. /\ [t.steps[j] EXCEPT !.status = "pending"].status = "pending"
        /\ [t.steps[j] EXCEPT !.status = "pending"].evidence = t.steps[j].evidence
    BY <1>3, <1>9 DEF PlanStep
  <2> QED
    BY <1>3, <1>6, <1>9, <2>1, <2>2
<1>10. steps = [j \in 1 .. n |-> steps[j]]
  BY <1>2, <1>4 DEF Updated, steps
<1>11. steps \in Seq(PlanStep)
  <2>1. \A j \in 1 .. n : steps[j] \in PlanStep
    BY <1>2, <1>7, <1>9
  <2> QED
    BY <1>10, <2>1
<1>12. \A j \in DOMAIN t.steps : t.steps[j].evidence => steps[j].evidence
  BY <1>8, <1>9
<1>13. \A j \in DOMAIN t.steps \ {i} :
         IF status = "in_progress" /\ t.steps[j].status = "in_progress"
         THEN steps[j].status = "pending" ELSE steps[j].status = t.steps[j].status
  BY <1>9
<1> QED
  BY <1>4, <1>7, <1>8, <1>11, <1>12, <1>13 DEF steps

\* What an accepted update makes of a task.
Advanced(t, i, status, evidence) ==
  LET steps == Updated(t, i, status, evidence)
      next == CHOOSE j \in Pending(steps) : \A k \in Pending(steps) : j <= k
      advances == status = "completed" /\ i = t.step IN
  [t EXCEPT
     !.steps = IF advances /\ Pending(steps) # {} THEN [steps EXCEPT ![next].status = "in_progress"]
               ELSE steps,
     !.step = IF status = "in_progress" THEN i
              ELSE IF ~advances THEN @
              ELSE IF Pending(steps) # {} THEN next ELSE 0,
     !.moved = IF status \in {"pending", "blocked"} THEN @ \union {i} ELSE @]

\* A step the tool does not answer itself and the manager does not refuse leaves the plan in order
\* (TaskManager.update_step).
LEMMA UpdateKeeps ==
  ASSUME NEW t, Sound(t), t.planned, NEW i \in DOMAIN t.steps, NEW status \in Statuses,
         NEW evidence \in BOOLEAN, ~Satisfied(t.steps[i], status), ~Refused(t, i, status, evidence)
  PROVE  Sound(Advanced(t, i, status, evidence))
<1> DEFINE steps == Updated(t, i, status, evidence)
           next == CHOOSE j \in Pending(steps) : \A k \in Pending(steps) : j <= k
           advances == status = "completed" /\ i = t.step
           onward == IF advances /\ Pending(steps) # {} THEN [steps EXCEPT ![next].status = "in_progress"]
                     ELSE steps
           step == IF status = "in_progress" THEN i
                   ELSE IF ~advances THEN t.step
                   ELSE IF Pending(steps) # {} THEN next ELSE 0
           moved == IF status \in {"pending", "blocked"} THEN t.moved \union {i} ELSE t.moved
           u == [t EXCEPT !.steps = onward, !.step = step, !.moved = moved]
<1>1. /\ steps \in Seq(PlanStep) /\ DOMAIN steps = DOMAIN t.steps
      /\ steps[i].status = status
      /\ evidence => steps[i].evidence
      /\ \A j \in DOMAIN t.steps : t.steps[j].evidence => steps[j].evidence
      /\ \A j \in DOMAIN t.steps \ {i} :
           IF status = "in_progress" /\ t.steps[j].status = "in_progress"
           THEN steps[j].status = "pending" ELSE steps[j].status = t.steps[j].status
  BY UpdatedSteps
<1>2. PICK n \in Nat : DOMAIN t.steps = 1 .. n
  BY DEF Sound, Task
<1>3. InOrder(t) /\ t.step \in Nat /\ t.moved \in SUBSET Nat
  BY DEF Sound, Task
<1>4. i \in Nat /\ i # 0
  BY <1>2
<1> HIDE DEF steps
<1>5. Pending(steps) # {} => next \in Pending(steps) /\ \A k \in Pending(steps) : next <= k
  BY <1>1, <1>2, FirstPending
<1> HIDE DEF next
<1>6. Pending(steps) # {} => next \in DOMAIN t.steps /\ next \in Nat
  BY <1>1, <1>2, <1>5 DEF Pending
<1>7. /\ onward \in Seq(PlanStep) /\ DOMAIN onward = DOMAIN t.steps
      /\ \A j \in DOMAIN t.steps :
           /\ onward[j].evidence = steps[j].evidence
           /\ onward[j].status = (IF advances /\ Pending(steps) # {} /\ j = next THEN "in_progress"
                                  ELSE steps[j].status)
  <2>1. CASE ~(advances /\ Pending(steps) # {})
    <3>1. onward = steps
      BY <2>1
    <3> HIDE DEF onward, advances
    <3> QED
      BY <1>1, <2>1, <3>1
  <2>2. CASE advances /\ Pending(steps) # {}
    <3>1. onward = [steps EXCEPT ![next].status = "in_progress"]
      BY <2>2
    <3>2. steps[next] \in PlanStep /\ next \in DOMAIN steps
      BY <1>1, <1>6, <2>2
    <3> HIDE DEF onward, advances
    <3>3. onward = [steps EXCEPT ![next] = [steps[next] EXCEPT !.status = "in_progress"]]
      BY <3>1
    <3>4. LET active_step == [steps[next] EXCEPT !.status = "in_progress"] IN
            /\ active_step \in PlanStep /\ active_step.status = "in_progress"
            /\ active_step.evidence = steps[next].evidence
      BY <3>2 DEF PlanStep, Statuses
    <3>5. onward[next] = [steps[next] EXCEPT !.status = "in_progress"]
      BY <3>2, <3>3
    <3>6. DOMAIN onward = DOMAIN steps /\ \A j \in DOMAIN steps \ {next} : onward[j] = steps[j]
      BY <3>2, <3>3
    <3>7. onward \in Seq(PlanStep)
      BY <1>1, <3>2, <3>3, <3>4
    <3> QED
      BY <1>1, <2>2, <3>4, <3>5, <3>6, <3>7
  <2> QED
    BY <2>1, <2>2
<1> HIDE DEF onward
<1>8. step \in {0} \union DOMAIN t.steps /\ step \in Nat
  BY <1>2, <1>3, <1>4, <1>6 DEF Sound, Task
<1>9. moved \in SUBSET Nat
  BY <1>3, <1>4
<1>10. /\ u.steps = onward /\ u.step = step /\ u.moved = moved /\ u.closed = t.closed
       /\ u.planned = t.planned /\ u.criteria = t.criteria /\ u.retired = t.retired
  <2> HIDE DEF step, moved
  <2> QED
    BY DEF Sound, Task
<1>11. Task(u)
  <2> HIDE DEF step, moved
  <2>1. u \in [id : Nat, status : {"in_progress", "completed", "stopped"}, planned : BOOLEAN, step : Nat,
               steps : Seq(PlanStep), criteria : {t.criteria}, retired : {t.retired}, moved : SUBSET Nat,
               closed : BOOLEAN]
    BY <1>7, <1>8, <1>9 DEF Sound, Task
  <2> HIDE DEF u
  <2> QED
    BY <1>7, <1>8, <1>10, <2>1 DEF Task

<1>12. InOrder(u)
  <2>0. /\ DOMAIN steps = 1 .. n /\ DOMAIN onward = 1 .. n /\ i \in 1 .. n
        /\ \A j \in 1 .. n : steps[j].status = "pending" <=> j \in Pending(steps)
    BY <1>1, <1>2, <1>7 DEF Pending
  <2>1. \A j \in 1 .. n : onward[j].status = "completed" => onward[j].evidence
    <3>1. ASSUME NEW j \in 1 .. n, steps[j].status = "completed" PROVE steps[j].evidence
      <4>1. CASE j # i
        BY <1>1, <1>2, <1>3, <3>1, <4>1 DEF InOrder
      <4>2. CASE j = i
        <5>1. status = "completed"
          BY <1>1, <3>1, <4>2
        <5>2. evidence \/ t.steps[i].evidence
          BY <5>1 DEF Refused
        <5> QED
          BY <1>1, <4>2, <5>2
      <4> QED
        BY <4>1, <4>2
    <3> HIDE DEF u, advances
    <3> QED
      BY <1>2, <1>7, <3>1
  <2>2. \A j \in 1 .. n : steps[j].status = "blocked" => j \in moved
    <3> TAKE j \in 1 .. n
    <3>1. CASE j = i
      BY <1>1, <3>1
    <3>2. CASE j # i
      <4>1. steps[j].status = "blocked" => t.steps[j].status = "blocked"
        BY <1>1, <1>2, <3>2
      <4> QED
        BY <1>2, <1>3, <4>1 DEF InOrder
    <3> QED
      BY <3>1, <3>2
  <2>3. \A j \in 1 .. n : onward[j].status = "blocked" => j \in moved
    <3> HIDE DEF u, advances, moved
    <3> QED
      BY <1>2, <1>7, <2>2
  <2>4. \A j \in 1 .. n : steps[j].status = "in_progress" => IF status = "in_progress" THEN j = i
                                                             ELSE j # i /\ t.steps[j].status = "in_progress"
    BY <1>1, <1>2
  <2>5. advances => \A j \in 1 .. n : steps[j].status # "in_progress"
    <3>1. SUFFICES ASSUME advances, NEW j \in 1 .. n, steps[j].status = "in_progress" PROVE FALSE
      OBVIOUS
    <3>2. j # i /\ t.steps[j].status = "in_progress"
      BY <2>4, <3>1
    <3>3. t.steps[i].status = "in_progress"
      BY <3>1 DEF Refused
    <3> QED
      BY <1>2, <1>3, <3>2, <3>3 DEF InOrder
  <2>6. \A j, k \in 1 .. n : onward[j].status = "in_progress" /\ onward[k].status = "in_progress" => j = k
    <3> SUFFICES ASSUME NEW j \in 1 .. n, NEW k \in 1 .. n, onward[j].status = "in_progress",
                        onward[k].status = "in_progress"
                 PROVE  j = k
      OBVIOUS
    <3>1. CASE advances
      <4>1. j = next /\ k = next
        <5> HIDE DEF u, advances, moved, step
        <5> QED
          BY <1>2, <1>7, <2>5, <3>1
      <4> QED
        BY <4>1
    <3>2. CASE ~advances
      <4>1. steps[j].status = "in_progress" /\ steps[k].status = "in_progress"
        <5> HIDE DEF u, advances, moved, step
        <5> QED
          BY <1>2, <1>7, <3>2
      <4> QED
        BY <1>2, <1>3, <2>4, <4>1 DEF InOrder
    <3> QED
      BY <3>1, <3>2
  <2>7. ASSUME step # 0
        PROVE  /\ onward[step].status # "completed"
               /\ \A j \in 1 .. step - 1 : onward[j].status = "completed" \/ j \in moved
    <3>1. CASE status = "in_progress"
      <4>1. step = i /\ i = t.step /\ moved = t.moved /\ ~advances
        BY <3>1 DEF Refused
      <4>2. \A j \in 1 .. n : onward[j].status = steps[j].status
        <5> HIDE DEF u, advances
        <5> QED
          BY <1>2, <1>7, <4>1
      <4>3. ASSUME NEW j \in 1 .. step - 1 PROVE onward[j].status = "completed" \/ j \in moved
        <5>1. j \in 1 .. n /\ j # i /\ j \in 1 .. t.step - 1
          BY <2>0, <4>1
        <5>2. t.steps[j].status = "completed" \/ j \in t.moved
          BY <1>3, <1>4, <4>1, <5>1 DEF InOrder
        <5> QED
          BY <1>1, <1>2, <4>1, <4>2, <5>1, <5>2
      <4> QED
        BY <1>1, <2>0, <3>1, <4>1, <4>2, <4>3
    <3>2. CASE status # "in_progress" /\ ~advances
      <4>1. step = t.step /\ \A j \in 1 .. n : onward[j].status = steps[j].status
        <5>1. step = t.step
          BY <3>2
        <5> HIDE DEF u, advances, step
        <5> QED
          BY <1>2, <1>7, <3>2, <5>1
      <4>2. /\ t.steps[t.step].status # "completed" /\ t.step \in 1 .. n
            /\ \A j \in 1 .. t.step - 1 : t.steps[j].status = "completed" \/ j \in t.moved
        BY <1>2, <1>3, <1>8, <2>7, <4>1 DEF InOrder
      <4>3. status = "completed" => i # t.step
        BY <3>2
      <4>4. onward[step].status # "completed"
        <5>1. CASE t.step = i
          BY <1>1, <2>0, <4>1, <4>3, <5>1
        <5>2. CASE t.step # i
          BY <1>1, <1>2, <3>2, <4>1, <4>2, <5>2
        <5> QED
          BY <5>1, <5>2
      <4>5. ASSUME NEW j \in 1 .. step - 1 PROVE onward[j].status = "completed" \/ j \in moved
        <5>1. j \in 1 .. n /\ (t.steps[j].status = "completed" \/ j \in t.moved)
          BY <4>1, <4>2
        <5>2. CASE j = i
          BY <1>1, <4>1, <5>1, <5>2 DEF Statuses
        <5>3. CASE j # i
          BY <1>1, <1>2, <3>2, <4>1, <5>1, <5>3
        <5> QED
          BY <5>2, <5>3
      <4> QED
        BY <4>4, <4>5
    <3>3. CASE advances
      <4>1. step = next /\ Pending(steps) # {} /\ moved = t.moved
        BY <2>7, <3>3
      <4>2. next \in 1 .. n /\ onward[next].status = "in_progress"
        <5> HIDE DEF u, advances, moved, step
        <5> QED
          BY <1>2, <1>6, <1>7, <3>3, <4>1
      <4>3. ASSUME NEW j \in 1 .. next - 1 PROVE onward[j].status = "completed" \/ j \in moved
        <5>1. j \in 1 .. n /\ j # next /\ j \in Nat
          BY <4>2
        <5>2. onward[j].status = steps[j].status
          <6> HIDE DEF u, advances, moved, step
          <6> QED
            BY <1>2, <1>7, <5>1
        <5>3. j \notin Pending(steps)
          BY <1>5, <1>6, <4>1
        <5>4. steps[j].status # "pending" /\ steps[j].status # "in_progress"
          BY <2>0, <2>5, <3>3, <5>1, <5>3
        <5>5. steps[j].status \in Statuses
          <6>1. steps[j] \in PlanStep
            BY <1>1, <2>0, <5>1
          <6> QED
            BY <6>1 DEF PlanStep
        <5> QED
          BY <2>2, <5>1, <5>2, <5>4, <5>5 DEF Statuses
      <4> QED
        BY <4>1, <4>2, <4>3
    <3> QED
      BY <3>1, <3>2, <3>3
  <2>8. ASSUME step = 0
        PROVE  t.closed \/ \A j \in 1 .. n : onward[j].status = "completed" \/ j \in moved
    <3>1. status # "in_progress"
      BY <1>4, <2>8
    <3>2. CASE ~advances
      <4>1. t.step = 0
        BY <2>8, <3>1, <3>2
      <4>2. \A j \in 1 .. n : onward[j].status = steps[j].status
        <5> HIDE DEF u, advances, moved, step
        <5> QED
          BY <1>2, <1>7, <3>2
      <4>3. t.closed \/ \A j \in 1 .. n : t.steps[j].status = "completed" \/ j \in t.moved
        BY <1>2, <1>3, <4>1 DEF InOrder
      <4>4. t.moved \subseteq moved
        OBVIOUS
      <4>5. ASSUME NEW j \in 1 .. n, t.steps[j].status = "completed" \/ j \in t.moved
            PROVE  onward[j].status = "completed" \/ j \in moved
        <5>1. CASE j = i
          <6>1. status = "completed" \/ i \in moved
            BY <3>1 DEF Statuses
          <6> QED
            BY <1>1, <4>2, <5>1, <6>1
        <5>2. CASE j # i
          <6> HIDE DEF u, advances, moved, step
          <6> QED
            BY <1>1, <1>2, <3>1, <4>2, <4>4, <4>5, <5>2
        <5> QED
          BY <5>1, <5>2
      <4> QED
        BY <4>3, <4>5
    <3>3. CASE advances
      <4>1. Pending(steps) = {}
        <5>1. next \in Pending(steps) => next # 0
          BY <1>2, <1>6
        <5> QED
          BY <1>5, <2>8, <3>1, <3>3, <5>1
      <4>2. \A j \in 1 .. n : onward[j].status = steps[j].status
        <5> HIDE DEF u, advances, moved, step
        <5> QED
          BY <1>2, <1>7, <4>1
      <4>3. ASSUME NEW j \in 1 .. n PROVE steps[j].status = "completed" \/ j \in moved
        <5>1. steps[j] \in PlanStep
          BY <1>1, <2>0
        <5>2. steps[j].status \in Statuses
          BY <5>1 DEF PlanStep
        <5>3. steps[j].status # "pending" /\ steps[j].status # "in_progress"
          BY <2>0, <2>5, <3>3, <4>1
        <5> QED
          BY <2>2, <5>2, <5>3 DEF Statuses
      <4> QED
        BY <4>2, <4>3
    <3> QED
      BY <3>2, <3>3
  <2> HIDE DEF u, step, moved, advances
  <2> QED
    BY <1>8, <1>10, <2>0, <2>1, <2>3, <2>6, <2>7, <2>8 DEF InOrder
<1>13. Sound(u)
  <2> HIDE DEF u
  <2> QED
    BY <1>11, <1>12 DEF Sound
<1> QED
  BY <1>13 DEF steps, next, onward, Advanced

-----------------------------------------------------------------------------
(* Tasks: every operation keeps the invariant. *)

\* start: a new task has no plan, and a file name that holds nothing yet.
LEMMA StartKeeps ==
  ASSUME TaskInv, StartTask
  PROVE  TaskInv'
<1> DEFINE new == [id |-> tasks + 1, status |-> "in_progress", planned |-> FALSE, step |-> 0, steps |-> <<>>,
                   criteria |-> {}, retired |-> {}, moved |-> {}, closed |-> FALSE]
<1>1. active' = new /\ taskFiles' = Append(taskFiles, NoTask) /\ tasks' = tasks + 1
  BY DEF StartTask
<1>2. tasks \in Nat
  BY DEF TaskInv
<1>3. <<>> \in Seq(PlanStep)
  OBVIOUS
<1>4. Task(new)
  <2>1. /\ new.criteria = {} /\ new.retired = {} /\ new.step = 0
    OBVIOUS
  <2>2. new \in [id : Nat, status : {"in_progress", "completed", "stopped"}, planned : BOOLEAN, step : Nat,
                 steps : Seq(PlanStep), criteria : {{}}, retired : {{}}, moved : SUBSET Nat,
                 closed : BOOLEAN]
    BY <1>2, <1>3
  <2> HIDE DEF new
  <2> QED
    BY <2>1, <2>2 DEF Task
<1>5. new.planned = FALSE
  OBVIOUS
<1> HIDE DEF new
<1>6. Sound(new)
  BY <1>4, <1>5 DEF Sound
<1>7. Sound(active)'
  BY <1>1, <1>6 DEF Sound, Task, InOrder
<1>8. (\E S : taskFiles \in Seq(S))'
  <2>1. PICK S : taskFiles \in Seq(S)
    BY DEF TaskInv
  <2>2. taskFiles \in Seq(S \union {NoTask})
    BY <2>1
  <2>3. taskFiles' \in Seq(S \union {NoTask})
    BY <1>1, <2>2
  <2> QED
    BY <2>3
<1>9. ASSUME NEW id \in DOMAIN taskFiles', taskFiles'[id] # NoTask
      PROVE  Sound(taskFiles'[id])
  <2>1. PICK S : taskFiles \in Seq(S)
    BY DEF TaskInv
  <2>2. /\ DOMAIN taskFiles = 1 .. Len(taskFiles) /\ Len(taskFiles) \in Nat
        /\ DOMAIN taskFiles' = 1 .. Len(taskFiles) + 1
        /\ taskFiles'[Len(taskFiles) + 1] = NoTask
        /\ \A j \in 1 .. Len(taskFiles) : taskFiles'[j] = taskFiles[j]
    <3>1. taskFiles \in Seq(S \union {NoTask}) /\ NoTask \in S \union {NoTask}
      BY <2>1
    <3> HIDE DEF NoTask
    <3> QED
      BY <1>1, <3>1
  <2>3. id \in DOMAIN taskFiles /\ taskFiles'[id] = taskFiles[id]
    BY <1>9, <2>2
  <2> QED
    BY <1>9, <2>3 DEF TaskInv
<1>10. (\A id \in DOMAIN taskFiles : taskFiles[id] # NoTask => Sound(taskFiles[id]))'
  <2> SUFFICES ASSUME NEW id \in DOMAIN taskFiles', taskFiles'[id] # NoTask
               PROVE  Sound(taskFiles[id])'
    BY DEF NoTask
  <2>1. Sound(taskFiles'[id])
    BY <1>9
  <2> QED
    BY <2>1 DEF Sound, Task, InOrder
<1> QED
  BY <1>1, <1>2, <1>7, <1>8, <1>10 DEF TaskInv

\* One step of the manager, the router or the end of a turn.
LEMMA TaskStep ==
  ASSUME TaskInv, [TaskNext]_task_vars
  PROVE  TaskInv'
<1>1. CASE UNCHANGED task_vars
  BY <1>1 DEF task_vars, TaskInv, HasTask, NoTask, Sound, Task, InOrder
<1>2. CASE StartTask
  BY <1>2, StartKeeps
<1>3. CASE ContinueTask
  <2>1. PICK t : t = [active EXCEPT !.status = "in_progress"]
    OBVIOUS
  <2>2. Sound(active)
    BY <1>3 DEF TaskInv, ContinueTask
  <2>3. Sound(t)
    BY <2>1, <2>2, StatusOnly
  <2> QED
    BY <1>3, <2>1, <2>3, SaveKeeps DEF ContinueTask
<1>4. CASE CompleteTask
  <2>1. PICK t : t = [active EXCEPT !.status = "completed", !.step = 0, !.closed = TRUE]
    OBVIOUS
  <2>2. Sound(active)
    BY <1>4 DEF TaskInv, CompleteTask
  <2>3. Sound(t)
    BY <2>1, <2>2, CompleteKeeps
  <2> QED
    BY <1>4, <2>1, <2>3, SaveKeeps DEF CompleteTask
<1>5. CASE StopTask
  <2>1. PICK t : t = [active EXCEPT !.status = "stopped"]
    OBVIOUS
  <2>2. Sound(active)
    BY <1>5 DEF TaskInv, StopTask
  <2>3. Sound(t)
    BY <2>1, <2>2, StatusOnly
  <2> QED
    BY <1>5, <2>1, <2>3, SaveKeeps DEF StopTask
<1>6. ASSUME NEW id \in 1 .. MaxTasks, ResumeTask(id)
      PROVE  TaskInv'
  <2>1. PICK t : t = [taskFiles[id] EXCEPT !.status = "in_progress"]
    OBVIOUS
  <2>2. Sound(taskFiles[id])
    BY <1>6 DEF TaskInv, ResumeTask
  <2>3. Sound(t)
    BY <2>1, <2>2, StatusOnly
  <2> QED
    BY <1>6, <2>1, <2>3, SaveKeeps DEF ResumeTask
<1>7. ASSUME NEW sources \in SUBSET Sources, Register(sources)
      PROVE  TaskInv'
  <2>1. PICK t : t = [active EXCEPT !.criteria = Merged(active, sources)]
    OBVIOUS
  <2>2. Sound(active)
    BY <1>7 DEF TaskInv, Register
  <2>3. Sound(t)
    BY <2>1, <2>2, CriteriaOnly
  <2> QED
    BY <1>7, <2>1, <2>3, SaveKeeps DEF Register
<1>8. ASSUME NEW sources \in SUBSET Sources, NEW count \in StepCounts, NEW replace \in BOOLEAN,
             Plan(count, sources, replace)
      PROVE  TaskInv'
  <2> DEFINE new == [active EXCEPT
               !.status = "in_progress", !.planned = TRUE, !.step = 1,
               !.steps = [i \in 1 .. count |->
                            [status |-> IF i = 1 THEN "in_progress" ELSE "pending", evidence |-> FALSE]],
               !.criteria = Merged(active, sources), !.moved = {}, !.closed = FALSE]
  <2>1. PICK t : t = new
    OBVIOUS
  <2>2. Sound(active) /\ Save(new) /\ tasks' = tasks
    BY <1>8 DEF TaskInv, Plan
  <2>3. Sound(t)
    BY <2>1, <2>2, PlanKeeps
  <2> HIDE DEF new
  <2> QED
    BY <2>1, <2>2, <2>3, SaveKeeps
<1>9. ASSUME HasTask, NEW c \in active.criteria, NEW replacement, Revise(c, replacement)
      PROVE  TaskInv'
  <2> DEFINE criteria == (active.criteria \ {c}) \union
                         {[id |-> <<s, Cardinality(active.retired) + 1>>, source |-> s] : s \in replacement}
             retired == active.retired \union {[c EXCEPT !.id = <<c.id, Cardinality(active.retired) + 1>>]}
  <2>1. PICK t : t = [active EXCEPT !.criteria = criteria, !.retired = retired]
    OBVIOUS
  <2>2. Sound(active)
    BY <1>9 DEF TaskInv
  <2>3. Save([active EXCEPT !.criteria = criteria, !.retired = retired]) /\ tasks' = tasks
    <3>1. [active EXCEPT !.criteria = criteria, !.retired = retired]
            = [active EXCEPT
                 !.criteria = (@ \ {c}) \union
                   {[id |-> <<s, Cardinality(active.retired) + 1>>, source |-> s] : s \in replacement},
                 !.retired = @ \union {[c EXCEPT !.id = <<c.id, Cardinality(active.retired) + 1>>]}]
      BY <2>2 DEF Sound, Task
    <3> QED
      BY <1>9, <3>1 DEF Revise
  <2> HIDE DEF criteria, retired
  <2>4. Sound(t)
    BY <2>1, <2>2, CriteriaOnly
  <2> QED
    BY <2>1, <2>3, <2>4, SaveKeeps
<1>10. ASSUME NEW i \in 1 .. 20, NEW status \in Statuses, NEW evidence \in BOOLEAN,
              UpdateStep(i, status, evidence)
       PROVE  TaskInv'
  <2>1. PICK t : t = Advanced(active, i, status, evidence)
    OBVIOUS
  <2>2. Sound(active) /\ Save(Advanced(active, i, status, evidence)) /\ tasks' = tasks
    BY <1>10 DEF TaskInv, UpdateStep, Advanced
  <2>3. /\ active.planned /\ i \in DOMAIN active.steps
        /\ ~Satisfied(active.steps[i], status) /\ ~Refused(active, i, status, evidence)
    BY <1>10 DEF UpdateStep
  <2>4. Sound(t)
    BY <2>1, <2>2, <2>3, UpdateKeeps
  <2> QED
    BY <2>1, <2>2, <2>4, SaveKeeps
<1> QED
  BY <1>1, <1>2, <1>3, <1>4, <1>5, <1>6, <1>7, <1>8, <1>9, <1>10 DEF TaskNext, Statuses

\* Every reachable task and every task in a file is sound (forge/tasks/manager.py).
THEOREM TaskInductive == TaskSpec => []TaskInv
<1>1. TaskInit => TaskInv
  <2> SUFFICES ASSUME TaskInit PROVE TaskInv
    OBVIOUS
  <2>1. taskFiles = <<>> /\ active = NoTask /\ tasks = 0
    BY DEF TaskInit
  <2>2. <<>> \in Seq({})
    OBVIOUS
  <2> QED
    BY <2>1, <2>2 DEF TaskInv, HasTask
<1> QED
  BY <1>1, TaskStep, PTL DEF TaskSpec

\* Whatever was repeated, reset, blocked, continued or resumed, and whichever save failed: the plan
\* of the active task is in order (TaskManager.update_step, TaskUpdateTool.execute).
THEOREM PlanKept == TaskSpec => []PlanInOrder
<1>1. TaskInv => PlanInOrder
  BY DEF TaskInv, Sound, InOrder, PlanInOrder
<1> QED
  BY <1>1, TaskInductive, PTL

-----------------------------------------------------------------------------
(* Evidence: the invariant. *)

Versioned == [Tree -> Versions]

WorkInv ==
  /\ tree \in Versioned
  /\ tracker \in [baseline : Versioned, current : Versioned, watched : SUBSET Tree, revision : Nat, epoch : Nat]
  /\ gate \in [pc : {"idle", "running", "completed", "partial"}, turn : Nat,
               criterion : {"none", "registered", "retired"}, offered : {gate.offered}]
  /\ runs \in Nat

\* A tree a check ran on is the tree that stands, but for the paths written since by others.
SameBut(ran, touched, now) == \A p \in Tree \ touched : ran[p] = now[p]

\* The tree the call under way found, with what it wrote.
RanInv == SameBut(check.ran, check.touched, tree)

\* A tool call with the fields its kind has; there is one while a turn runs only.
Write(t) == t \in [op : {"write"}, pc : {"running", "ended"}, path : Tree]
Process(t) ==
  t \in [op : {"verify", "run_command"}, pc : {"running", "ended"}, path : {"none"}, command : {t.command},
         asserts : BOOLEAN, bound : BOOLEAN, supersedes : {t.supersedes}]

ToolInv ==
  /\ tool = NoTool \/ Write(tool) \/ Process(tool)
  /\ gate.pc # "running" => tool = NoTool

\* An item of the ledger, at its place.
Item(i, e) ==
  e \in [id : {i}, command : {e.command}, asserts : BOOLEAN, bound : BOOLEAN, supersedes : {e.supersedes},
         success : BOOLEAN, fresh : BOOLEAN, revision : Nat, epoch : Nat, turn : Nat, tree : {e.tree},
         watched : SUBSET Tree, runs : Nat, ran : {e.ran}, touched : {e.touched}]

ItemsInv ==
  /\ \E S : history \in Seq(S)
  /\ DOMAIN history = 1 .. Len(history) /\ Len(history) \in Nat
  /\ \A i \in DOMAIN history : Item(i, history[i])
  /\ \A i \in DOMAIN history : SameBut(history[i].ran, history[i].touched, history[i].tree)

\* What the tracker holds is what a check saw, but for the paths watched since: those are as the
\* tracker found them.
SeenBy(e) ==
  \A p \in Tracked \union tracker.watched :
    tracker.current[p] = (IF p \in tracker.watched \ e.watched THEN tracker.baseline[p] ELSE e.tree[p])

\* A fresh item is one of this turn, and if its revision is the tracker's, it has seen what the
\* tracker holds.
FreshAs(e) ==
  /\ e.turn = gate.turn /\ e.watched \subseteq tracker.watched
  /\ e.revision <= tracker.revision /\ e.epoch <= tracker.epoch
  /\ e.runs + tracker.epoch = runs + e.epoch
  /\ e.revision = tracker.revision => SeenBy(e)

\* The fresh items come last, with counters that only grow.
FreshInv ==
  /\ \A i \in DOMAIN history : history[i].fresh => FreshAs(history[i])
  /\ \A i, j \in DOMAIN history : i <= j /\ history[i].fresh =>
       /\ history[j].fresh
       /\ history[i].revision <= history[j].revision
       /\ history[i].epoch <= history[j].epoch

EvInv == WorkInv /\ RanInv /\ ToolInv /\ ItemsInv /\ FreshInv /\ CompletionTested

-----------------------------------------------------------------------------
(* Evidence: what the tracker does. *)

\* A look moves the revision exactly when the snapshot differs (WorkspaceTracker.refresh).
LEMMA LookFacts ==
  ASSUME WorkInv, NEW paths
  PROVE  LET k == Look(paths) IN
         /\ k \in [baseline : Versioned, current : Versioned, watched : SUBSET Tree, revision : Nat, epoch : Nat]
         /\ k.watched = tracker.watched /\ k.baseline = tracker.baseline /\ k.epoch = tracker.epoch
         /\ k.revision >= tracker.revision
         /\ k.revision = tracker.revision => k = tracker
         /\ \A p \in Tree \intersect paths : k.current[p] = tree[p]
<1> DEFINE taken == [p \in Tree |-> IF p \in paths THEN tree[p] ELSE tracker.current[p]]
           moved == [tracker EXCEPT !.current = taken, !.revision = @ + 1]
<1>1. tracker \in [baseline : Versioned, current : Versioned, watched : SUBSET Tree, revision : Nat, epoch : Nat]
  BY DEF WorkInv
<1>2. taken \in Versioned /\ \A p \in Tree \intersect paths : taken[p] = tree[p]
  BY <1>1 DEF WorkInv, Versioned
<1>3. Look(paths) = IF taken = tracker.current THEN tracker ELSE moved
  BY DEF Look
<1> HIDE DEF taken
<1>4. /\ moved \in [baseline : Versioned, current : Versioned, watched : SUBSET Tree, revision : Nat, epoch : Nat]
      /\ moved.watched = tracker.watched /\ moved.baseline = tracker.baseline /\ moved.epoch = tracker.epoch
      /\ moved.revision = tracker.revision + 1 /\ moved.current = taken
  <2>1. tracker.revision + 1 \in Nat
    BY <1>1
  <2>2. moved = [tracker EXCEPT !.current = taken, !.revision = tracker.revision + 1]
    BY <1>1
  <2> QED
    BY <1>1, <1>2, <2>1, <2>2
<1>5. tracker.revision \in Nat
  BY <1>1
<1> HIDE DEF moved
<1>6. CASE taken = tracker.current
  BY <1>1, <1>2, <1>3, <1>5, <1>6
<1>7. CASE taken # tracker.current
  BY <1>2, <1>3, <1>4, <1>5, <1>7
<1> QED
  BY <1>6, <1>7

\* A path enters the baseline and the snapshot together (WorkspaceTracker.watch_paths).
LEMMA WatchFacts ==
  ASSUME WorkInv, NEW p \in Tree
  PROVE  LET k == Watch(p) IN
         /\ k \in [baseline : Versioned, current : Versioned, watched : SUBSET Tree, revision : Nat, epoch : Nat]
         /\ k.watched = tracker.watched \union {p} /\ k.revision = tracker.revision /\ k.epoch = tracker.epoch
         /\ \A q \in Tree \ {p} : k.current[q] = tracker.current[q] /\ k.baseline[q] = tracker.baseline[q]
         /\ p \notin tracker.watched => k.current[p] = k.baseline[p]
         /\ p \in tracker.watched => k = tracker
<1> DEFINE added == [tracker EXCEPT !.watched = @ \union {p}, !.baseline[p] = tree[p], !.current[p] = tree[p]]
<1>1. tracker \in [baseline : Versioned, current : Versioned, watched : SUBSET Tree, revision : Nat, epoch : Nat]
  BY DEF WorkInv
<1>2. tree[p] \in Versions
  BY DEF WorkInv, Versioned
<1>3. added = [tracker EXCEPT !.watched = tracker.watched \union {p},
                              !.baseline = [tracker.baseline EXCEPT ![p] = tree[p]],
                              !.current = [tracker.current EXCEPT ![p] = tree[p]]]
  BY <1>1
<1>4. [tracker.baseline EXCEPT ![p] = tree[p]] \in Versioned /\ [tracker.current EXCEPT ![p] = tree[p]] \in Versioned
  BY <1>1, <1>2 DEF Versioned
<1>5. /\ added.watched = tracker.watched \union {p} /\ added.revision = tracker.revision
      /\ added.epoch = tracker.epoch
      /\ added.baseline = [tracker.baseline EXCEPT ![p] = tree[p]]
      /\ added.current = [tracker.current EXCEPT ![p] = tree[p]]
  BY <1>1, <1>3
<1>6. added \in [baseline : Versioned, current : Versioned, watched : SUBSET Tree, revision : Nat, epoch : Nat]
  BY <1>1, <1>3, <1>4
<1>7. Watch(p) = IF p \in tracker.watched THEN tracker ELSE added
  BY DEF Watch
<1> HIDE DEF added
<1>8. CASE p \in tracker.watched
  BY <1>1, <1>7, <1>8
<1>9. CASE p \notin tracker.watched
  BY <1>1, <1>5, <1>6, <1>7, <1>9 DEF Versioned
<1> QED
  BY <1>8, <1>9

\* An item stays fresh when the tracker moves: one of the tracker's revision is one of the revision
\* before, and what it has seen still stands.
LEMMA ItemKept ==
  ASSUME ItemsInv, FreshInv, NEW i \in DOMAIN history, NEW e, e = history[i], e.fresh,
         gate'.turn = gate.turn,
         tracker.revision \in Nat, tracker.epoch \in Nat, runs \in Nat,
         tracker'.revision \in Nat, tracker'.epoch \in Nat, runs' \in Nat,
         tracker'.revision >= tracker.revision, tracker'.epoch >= tracker.epoch,
         runs' + tracker.epoch = runs + tracker'.epoch,
         tracker.watched \subseteq tracker'.watched,
         tracker'.revision = tracker.revision /\ e.watched \subseteq tracker.watched /\ SeenBy(e) => SeenBy(e)'
  PROVE  FreshAs(e)'
<1>1. FreshAs(e)
  BY DEF FreshInv
<1>2. e.revision \in Nat /\ e.epoch \in Nat /\ e.runs \in Nat
  BY DEF ItemsInv, Item
<1>3. e.turn = gate'.turn /\ e.watched \subseteq tracker'.watched
  BY <1>1 DEF FreshAs
<1>4. e.revision <= tracker'.revision /\ e.epoch <= tracker'.epoch
  BY <1>1, <1>2 DEF FreshAs
<1>5. e.runs + tracker'.epoch = runs' + e.epoch
  BY <1>1, <1>2 DEF FreshAs
<1>6. e.revision = tracker'.revision => SeenBy(e)'
  BY <1>1, <1>2 DEF FreshAs
<1> QED
  BY <1>3, <1>4, <1>5, <1>6 DEF FreshAs

\* The ledger as a whole keeps its items and their freshness.
LEMMA FreshKept ==
  ASSUME ItemsInv, FreshInv, history' = history, gate'.turn = gate.turn,
         tracker.revision \in Nat, tracker.epoch \in Nat, runs \in Nat,
         tracker'.revision \in Nat, tracker'.epoch \in Nat, runs' \in Nat,
         tracker'.revision >= tracker.revision, tracker'.epoch >= tracker.epoch,
         runs' + tracker.epoch = runs + tracker'.epoch,
         tracker.watched \subseteq tracker'.watched,
         \A i \in DOMAIN history : history[i].fresh /\ tracker'.revision = tracker.revision
              /\ history[i].watched \subseteq tracker.watched /\ SeenBy(history[i]) =>
            \A p \in Tracked \union tracker'.watched :
              tracker'.current[p] = (IF p \in tracker'.watched \ history[i].watched THEN tracker'.baseline[p]
                                     ELSE history[i].tree[p])
  PROVE  FreshInv'
<1>1. ASSUME NEW i \in DOMAIN history, history[i].fresh
      PROVE  FreshAs(history[i])'
  <2>1. PICK e : e = history[i]
    OBVIOUS
  <2>2. tracker'.revision = tracker.revision /\ e.watched \subseteq tracker.watched /\ SeenBy(e) => SeenBy(e)'
    BY <1>1, <2>1 DEF SeenBy
  <2>3. FreshAs(e)'
    BY <1>1, <2>1, <2>2, ItemKept
  <2> QED
    BY <2>1, <2>3 DEF FreshAs, SeenBy
<1> QED
  BY <1>1 DEF FreshInv

-----------------------------------------------------------------------------
(* Evidence: what a finish without gaps rests on. *)

\* The counted items are items of the ledger.
LEMMA CountedItems ==
  ASSUME ItemsInv, NEW e \in Counted
  PROVE  /\ e.id \in DOMAIN history /\ e = history[e.id] /\ e.id \in Nat /\ e.id <= Len(history)
         /\ Item(e.id, e)
<1>1. e \in Items
  BY DEF Counted
<1>2. PICK i \in DOMAIN history : e = history[i]
  BY <1>1 DEF Items
<1>3. Item(i, e)
  BY <1>2 DEF ItemsInv
<1>4. e.id = i
  BY <1>3 DEF Item
<1> QED
  BY <1>2, <1>3, <1>4 DEF ItemsInv

\* Among the runs of a check there is a last one.
LEMMA LastRun ==
  ASSUME ItemsInv, NEW e \in Counted
  PROVE  \E l \in LaterRuns(e) : \A h \in LaterRuns(e) : h.id <= l.id
<1> DEFINE S == {Len(history) - h.id : h \in LaterRuns(e)}
<1>1. \A h \in LaterRuns(e) : h.id \in Nat /\ h.id <= Len(history)
  BY CountedItems DEF LaterRuns
<1>2. S \subseteq Nat
  BY <1>1 DEF ItemsInv
<1>3. e \in LaterRuns(e)
  BY CountedItems DEF LaterRuns, SameCheck
<1>4. S # {}
  BY <1>3
<1>5. \A h \in LaterRuns(e) : Len(history) - h.id \in S
  OBVIOUS
<1>6. \A x \in S : \E l \in LaterRuns(e) : x = Len(history) - l.id
  OBVIOUS
<1> HIDE DEF S
<1>7. PICK x \in S : \A y \in S : ~(<<y, x>> \in OpToRel(<, Nat))
  BY <1>2, <1>4, NatLessThanWellFounded, WFMin
<1>8. \A y \in S : x <= y
  <2> SUFFICES ASSUME NEW y \in S, y < x PROVE FALSE
    BY <1>2
  <2>1. <<y, x>> \in Nat \X Nat /\ <<y, x>>[1] < <<y, x>>[2]
    BY <1>2
  <2> QED
    BY <1>7, <2>1 DEF OpToRel
<1>9. PICK l \in LaterRuns(e) : x = Len(history) - l.id
  BY <1>6
<1>10. ASSUME NEW h \in LaterRuns(e) PROVE h.id <= l.id
  <2>1. x <= Len(history) - h.id
    BY <1>8, <1>5
  <2> QED
    BY <1>1, <1>9, <2>1 DEF ItemsInv
<1> QED
  BY <1>10

\* A decision without reasons found a current success, no current failure and no stale obligation
\* (CompletionGate.evaluate).
LEMMA NoReasons ==
  ASSUME NEW k, NEW criterion, Reasons(k, criterion) = {}
  PROVE  LET current == {e \in Counted : Current(k, e)}
             successful == {e \in current : e.success} IN
         /\ successful # {}
         /\ Unresolved(current) = {}
         /\ \A e \in Unresolved(Counted) \ current : e.bound => \E f \in successful : SameCheck(e, f)
<1> DEFINE current == {e \in Counted : Current(k, e)}
           successful == {e \in current : e.success}
           stale == {e \in Unresolved(Counted) \ current : e.bound /\ \A f \in successful : ~SameCheck(e, f)}
           holds(r) == CASE r = "unverified" -> successful = {}
                         [] r = "failed" -> Unresolved(current) # {}
                         [] r = "stale" -> stale # {}
                         [] r = "criterion" -> criterion = "registered" /\ \A e \in successful : ~e.asserts
<1>1. Reasons(k, criterion) = {r \in {"unverified", "failed", "stale", "criterion"} : holds(r)}
  BY DEF Reasons
<1> HIDE DEF holds
<1>2. ~holds("unverified") /\ ~holds("failed") /\ ~holds("stale")
  BY <1>1
<1> HIDE DEF current, successful, stale
<1>3. successful # {}
  BY <1>2 DEF holds
<1>4. Unresolved(current) = {}
  BY <1>2 DEF holds
<1>5. stale = {}
  BY <1>2 DEF holds
<1>6. \A e \in Unresolved(Counted) \ current : e.bound => \E f \in successful : SameCheck(e, f)
  BY <1>5 DEF stale
<1> QED
  BY <1>3, <1>4, <1>6 DEF current, successful

\* The bound failures of the ledger are answered when there is no reason left.
LEMMA Answered ==
  ASSUME ItemsInv, FreshInv, tracker.revision \in Nat, tracker.epoch \in Nat,
         NEW k, k.revision \in Nat, k.revision >= tracker.revision, k.epoch = tracker.epoch,
         NEW criterion, Reasons(k, criterion) = {}, NEW e \in Counted, e.bound, ~e.success
  PROVE  \/ \E f \in LaterRuns(e) : f.success
         \/ \E f \in LaterRuns(e), g \in Counted :
              g.id > f.id /\ g.success /\ f.id \in g.supersedes /\ (e.asserts => g.asserts)
         \/ \E f \in LaterRuns(e) : ~f.bound /\ \A h \in LaterRuns(e) : h.id <= f.id
<1> DEFINE current == {x \in Counted : Current(k, x)}
           successful == {x \in current : x.success}
<1>1. /\ Unresolved(current) = {}
      /\ \A x \in Unresolved(Counted) \ current : x.bound => \E f \in successful : SameCheck(x, f)
  BY NoReasons
<1>2. PICK l \in LaterRuns(e) : \A h \in LaterRuns(e) : h.id <= l.id
  BY LastRun
<1>3. l \in Counted /\ l.id >= e.id /\ SameCheck(e, l)
  BY DEF LaterRuns
<1>4. \A x \in Counted : x.id \in Nat
  BY CountedItems
<1>5. CASE l.success
  BY <1>2, <1>5
<1>6. CASE ~l.bound
  BY <1>2, <1>6
<1>7. CASE l.bound /\ ~l.success
  <2>1. CASE l \notin Unresolved(Counted)
    <3>1. PICK f \in Counted : f.id > l.id /\ (SameCheck(l, f) \/ Covers(l, f))
      BY <1>3, <1>7, <2>1 DEF Unresolved
    <3>2. ~SameCheck(l, f)
      <4>1. SUFFICES ASSUME SameCheck(l, f) PROVE FALSE
        OBVIOUS
      <4>2. f \in LaterRuns(e)
        BY <1>3, <1>4, <3>1, <4>1 DEF LaterRuns, SameCheck
      <4> QED
        BY <1>2, <1>3, <1>4, <3>1, <4>2
    <3>3. f.success /\ l.id \in f.supersedes /\ (l.asserts => f.asserts)
      BY <3>1, <3>2 DEF Covers
    <3>4. e.asserts = l.asserts
      BY <1>3 DEF SameCheck
    <3>5. e.asserts => f.asserts
      BY <3>3, <3>4
    <3> QED
      BY <1>2, <3>1, <3>3, <3>5
  <2>2. CASE l \in Unresolved(Counted)
    <3>1. l \notin current
      <4>1. SUFFICES ASSUME l \in current PROVE l \in Unresolved(current)
        BY <1>1
      <4> QED
        BY <2>2, <4>1 DEF Unresolved
    <3>2. PICK f \in successful : SameCheck(l, f)
      BY <1>1, <1>7, <2>2, <3>1
    <3>3. f \in Counted /\ f.success /\ Current(k, f) /\ SameCheck(e, f)
      BY <1>3, <3>2 DEF SameCheck
    <3>4. f.id >= e.id
      <4>1. SUFFICES ASSUME f.id <= l.id PROVE FALSE
        BY <1>3, <1>4, <3>3
      <4>2. /\ f.id \in DOMAIN history /\ l.id \in DOMAIN history
            /\ f = history[f.id] /\ l = history[l.id]
            /\ f.revision \in Nat /\ l.revision \in Nat /\ f.epoch \in Nat /\ l.epoch \in Nat
        BY <1>3, <3>3, CountedItems DEF Item
      <4>3. l.fresh /\ f.revision <= l.revision /\ f.epoch <= l.epoch
        BY <3>3, <4>1, <4>2 DEF FreshInv, Current
      <4>4. l.revision <= tracker.revision /\ l.epoch <= tracker.epoch
        BY <4>2, <4>3 DEF FreshInv, FreshAs
      <4>5. f.revision = k.revision /\ f.epoch = k.epoch
        BY <3>3 DEF Current
      <4>6. l.revision = k.revision /\ l.epoch = k.epoch
        BY <4>2, <4>3, <4>4, <4>5
      <4> QED
        BY <1>3, <3>1, <4>3, <4>6 DEF Current
    <3>5. f \in LaterRuns(e)
      BY <3>3, <3>4 DEF LaterRuns
    <3> QED
      BY <3>3, <3>5
  <2> QED
    BY <2>1, <2>2
<1> QED
  BY <1>5, <1>6, <1>7

-----------------------------------------------------------------------------
(* Evidence: every step keeps the invariant. *)

\* What a turn that is not accepted rests on is not asked.
LEMMA NotAccepted ==
  ASSUME gate'.pc # "completed"
  PROVE  CompletionTested'
  BY DEF CompletionTested, AcceptedIsTested, FailuresAnswered, Accepted

\* Steps that leave the ledger, the tracker and the counters alone.
LEMMA FreshSame ==
  ASSUME FreshInv, history' = history, tracker' = tracker, gate'.turn = gate.turn, runs' = runs
  PROVE  FreshInv'
  BY DEF FreshInv, FreshAs, SeenBy

\* begin: all items are history (TurnRunner._prepare_turn).
LEMMA BeginKeeps ==
  ASSUME EvInv, EvBeginTurn
  PROVE  EvInv'
<1>1. /\ history' = [i \in DOMAIN history |-> [history[i] EXCEPT !.fresh = FALSE]]
      /\ tracker' = [baseline |-> tree, current |-> tree, watched |-> {}, revision |-> 0, epoch |-> 0]
      /\ gate' = [gate EXCEPT !.pc = "running", !.turn = @ + 1, !.offered = {}]
      /\ tree' = tree /\ tool' = tool /\ runs' = runs /\ check' = check
  BY DEF EvBeginTurn, Expire
<1>2. gate'.pc = "running" /\ gate' \in [pc : {"idle", "running", "completed", "partial"}, turn : Nat,
               criterion : {"none", "registered", "retired"}, offered : {gate'.offered}]
  <2>1. gate.turn + 1 \in Nat
    BY DEF EvInv, WorkInv
  <2>2. gate' = [gate EXCEPT !.pc = "running", !.turn = gate.turn + 1, !.offered = {}]
    BY <1>1 DEF EvInv, WorkInv
  <2>3. gate'.pc = "running" /\ gate'.turn = gate.turn + 1 /\ gate'.offered = {}
    BY <2>2 DEF EvInv, WorkInv
  <2> QED
    BY <2>1, <2>2, <2>3 DEF EvInv, WorkInv
<1>3. WorkInv'
  BY <1>1, <1>2 DEF EvInv, WorkInv, Versioned
<1>4. ToolInv'
  <2>1. tool = NoTool
    BY DEF EvInv, ToolInv, EvBeginTurn
  <2> QED
    BY <1>1, <2>1 DEF ToolInv, NoTool
<1>5. ASSUME NEW i \in DOMAIN history
      PROVE  /\ Item(i, history'[i]) /\ ~history'[i].fresh
             /\ SameBut(history'[i].ran, history'[i].touched, history'[i].tree)
  <2>1. /\ history'[i] = [history[i] EXCEPT !.fresh = FALSE] /\ Item(i, history[i])
        /\ SameBut(history[i].ran, history[i].touched, history[i].tree)
    BY <1>1 DEF EvInv, ItemsInv
  <2> HIDE DEF EvInv
  <2>2. /\ history'[i].ran = history[i].ran /\ history'[i].touched = history[i].touched
        /\ history'[i].tree = history[i].tree
    BY <2>1 DEF Item
  <2>3. Item(i, history'[i]) /\ ~history'[i].fresh
    BY <2>1 DEF Item
  <2> QED
    BY <2>1, <2>2, <2>3
<1>6. DOMAIN history' = DOMAIN history /\ Len(history') = Len(history)
  <2>1. DOMAIN history' = 1 .. Len(history) /\ Len(history) \in Nat
    BY <1>1 DEF EvInv, ItemsInv
  <2> QED
    BY <2>1 DEF EvInv, ItemsInv
<1>7. ItemsInv'
  <2> DEFINE S == {history'[i] : i \in DOMAIN history}
  <2>1. DOMAIN history = 1 .. Len(history) /\ Len(history) \in Nat
    BY DEF EvInv, ItemsInv
  <2>2. history' = [i \in 1 .. Len(history) |-> history'[i]] /\ \A i \in 1 .. Len(history) : history'[i] \in S
    BY <1>1, <1>6, <2>1
  <2> HIDE DEF S
  <2>3. history' \in Seq(S)
    BY <2>1, <2>2
  <2> QED
    BY <1>5, <1>6, <2>1, <2>3 DEF ItemsInv, Item, SameBut
<1>8. FreshInv'
  BY <1>5, <1>6 DEF FreshInv
<1>9. RanInv'
  BY <1>1 DEF EvInv, RanInv, SameBut
<1> QED
  BY <1>2, <1>3, <1>4, <1>7, <1>8, <1>9, NotAccepted DEF EvInv

\* A write announces its path to the tracker before it starts.
LEMMA StartWriteKeeps ==
  ASSUME EvInv, NEW p \in Tree, StartWrite(p)
  PROVE  EvInv'
<1>1. /\ tracker' = Watch(p) /\ tool' = [op |-> "write", pc |-> "running", path |-> p]
      /\ gate.pc = "running" /\ gate' = gate /\ tree' = tree /\ history' = history /\ runs' = runs
      /\ check' = [ran |-> tree, touched |-> {}]
  BY DEF StartWrite, Start
<1>2. WorkInv /\ ItemsInv /\ FreshInv
  BY DEF EvInv
<1>3. /\ tracker' \in [baseline : Versioned, current : Versioned, watched : SUBSET Tree, revision : Nat, epoch : Nat]
      /\ tracker'.watched = tracker.watched \union {p} /\ tracker'.revision = tracker.revision
      /\ tracker'.epoch = tracker.epoch
      /\ \A q \in Tree \ {p} : /\ tracker'.current[q] = tracker.current[q]
                               /\ tracker'.baseline[q] = tracker.baseline[q]
      /\ p \notin tracker.watched => tracker'.current[p] = tracker'.baseline[p]
      /\ p \in tracker.watched => tracker' = tracker
  BY <1>1, <1>2, WatchFacts
<1>4. WorkInv'
  BY <1>1, <1>2, <1>3 DEF WorkInv, Versioned
<1>5. ToolInv'
  BY <1>1 DEF ToolInv, Write
<1>6. ItemsInv'
  BY <1>1, <1>2 DEF ItemsInv, Item, SameBut
<1>7. /\ tracker.revision \in Nat /\ tracker.epoch \in Nat /\ runs \in Nat /\ tracker.watched \subseteq Tree
  BY <1>2 DEF WorkInv
<1>8. ASSUME NEW i \in DOMAIN history, history[i].watched \subseteq tracker.watched, SeenBy(history[i]),
             NEW q \in Tracked \union tracker'.watched
      PROVE  tracker'.current[q] = (IF q \in tracker'.watched \ history[i].watched THEN tracker'.baseline[q]
                                    ELSE history[i].tree[q])
  <2>1. CASE p \in tracker.watched
    BY <1>3, <1>8, <2>1 DEF SeenBy
  <2>2. CASE p \notin tracker.watched /\ q = p
    BY <1>3, <1>8, <2>2
  <2>3. CASE p \notin tracker.watched /\ q # p
    <3>1. q \in Tree \ {p} /\ q \in Tracked \union tracker.watched
      BY <1>3, <1>7, <2>3 DEF Tree
    <3>2. tracker'.current[q] = tracker.current[q] /\ tracker'.baseline[q] = tracker.baseline[q]
      BY <1>3, <3>1
    <3>3. q \in tracker'.watched <=> q \in tracker.watched
      BY <1>3, <2>3
    <3> QED
      BY <1>8, <3>1, <3>2, <3>3 DEF SeenBy
  <2> QED
    BY <2>1, <2>2, <2>3
<1>9. FreshInv'
  <2>1. /\ tracker'.revision \in Nat /\ tracker'.epoch \in Nat /\ runs' \in Nat
        /\ tracker'.revision >= tracker.revision /\ tracker'.epoch >= tracker.epoch
        /\ runs' + tracker.epoch = runs + tracker'.epoch
        /\ tracker.watched \subseteq tracker'.watched
    BY <1>1, <1>3, <1>7
  <2> QED
    BY <1>1, <1>2, <1>7, <1>8, <2>1, FreshKept
<1>10. RanInv'
  BY <1>1 DEF RanInv, SameBut
<1> QED
  BY <1>1, <1>4, <1>5, <1>6, <1>9, <1>10, NotAccepted DEF EvInv

\* A process starts with what it will assert.
LEMMA StartProcessKeeps ==
  ASSUME EvInv, NEW op \in {"verify", "run_command"}, NEW command, NEW asserts \in BOOLEAN,
         NEW bound \in BOOLEAN, NEW supersedes, StartProcess(op, command, asserts, bound, supersedes)
  PROVE  EvInv'
<1>1. /\ tool' = [op |-> op, pc |-> "running", path |-> "none", command |-> command, asserts |-> asserts,
                  bound |-> bound, supersedes |-> supersedes]
      /\ gate.pc = "running" /\ gate' = gate /\ tree' = tree /\ history' = history /\ runs' = runs
      /\ tracker' = tracker /\ check' = [ran |-> tree, touched |-> {}]
  BY DEF StartProcess, Start
<1>2. Process(tool')
  <2>1. tool'.command = command /\ tool'.supersedes = supersedes
    BY <1>1
  <2> QED
    BY <1>1, <2>1 DEF Process
<1>3. WorkInv' /\ ToolInv' /\ ItemsInv' /\ RanInv'
  BY <1>1, <1>2 DEF EvInv, WorkInv, ToolInv, ItemsInv, Process, Item, RanInv, SameBut
<1> QED
  BY <1>1, <1>3, FreshSame, NotAccepted DEF EvInv

\* Writes to the tree: a tool's are part of what it ran on, another program's are noted.
LEMMA TreeChanges ==
  ASSUME EvInv, NEW p \in Tree, NEW version \in Versions, ToolActs(p, version) \/ ForeignChange(p, version)
  PROVE  EvInv'
<1>1. /\ tree' = [tree EXCEPT ![p] = version] /\ gate' = gate /\ history' = history /\ runs' = runs
      /\ tracker' = tracker
  BY DEF ToolActs, ForeignChange
<1>2. gate.pc = "running"
  <2>1. ToolActs(p, version) => tool # NoTool
    BY DEF ToolActs, NoTool
  <2> QED
    BY <2>1 DEF EvInv, ToolInv, ForeignChange
<1>3. WorkInv'
  BY <1>1 DEF EvInv, WorkInv, Versioned
<1>4. ToolInv'
  <2>1. CASE ForeignChange(p, version)
    BY <1>1, <2>1 DEF EvInv, ToolInv, ForeignChange, NoTool, Write, Process
  <2>2. CASE ToolActs(p, version)
    <3>1. tool' = [tool EXCEPT !.pc = "ended"] /\ tool # NoTool
      BY <2>2 DEF ToolActs, NoTool
    <3>2. CASE Write(tool)
      BY <1>1, <1>2, <3>1, <3>2 DEF ToolInv, Write
    <3>3. CASE Process(tool)
      <4>1. tool'.command = tool.command /\ tool'.supersedes = tool.supersedes
        BY <3>1, <3>3 DEF Process
      <4>2. Process(tool')
        BY <3>1, <3>3, <4>1 DEF Process
      <4> QED
        BY <1>1, <1>2, <4>2 DEF ToolInv, Process
    <3> QED
      BY <3>1, <3>2, <3>3 DEF EvInv, ToolInv
  <2> QED
    BY <2>1, <2>2
<1>5. ItemsInv'
  BY <1>1 DEF EvInv, ItemsInv, Item, SameBut
<1>6. RanInv'
  <2>1. CASE ToolActs(p, version)
    <3>1. check' = [check EXCEPT !.ran = tree']
      BY <2>1 DEF ToolActs
    <3> QED
      BY <3>1 DEF RanInv, SameBut
  <2>2. CASE ForeignChange(p, version)
    <3>1. check' = [check EXCEPT !.touched = check.touched \union {p}]
      BY <2>2 DEF ForeignChange
    <3> QED
      BY <1>1, <3>1 DEF EvInv, RanInv, SameBut
  <2> QED
    BY <2>1, <2>2
<1> QED
  BY <1>1, <1>2, <1>3, <1>4, <1>5, <1>6, FreshSame, NotAccepted DEF EvInv

\* After a look the items of the tracker's revision have seen what it holds.
LEMMA LookKeepsFresh ==
  ASSUME WorkInv, ItemsInv, FreshInv, NEW paths, NEW k, k = Look(paths),
         history' = history, gate'.turn = gate.turn, tracker'.epoch \in Nat, runs' \in Nat,
         tracker'.revision = k.revision, tracker'.watched = k.watched,
         tracker'.current = k.current, tracker'.baseline = k.baseline,
         tracker'.epoch >= tracker.epoch, runs' + tracker.epoch = runs + tracker'.epoch
  PROVE  FreshInv'
<1>1. /\ k.watched = tracker.watched /\ k.revision >= tracker.revision /\ k.revision \in Nat
      /\ k.revision = tracker.revision => k = tracker
  BY LookFacts
<1>2. /\ tracker.revision \in Nat /\ tracker.epoch \in Nat /\ runs \in Nat
  BY DEF WorkInv
<1>3. ASSUME NEW i \in DOMAIN history, tracker'.revision = tracker.revision, SeenBy(history[i])
      PROVE  \A p \in Tracked \union tracker'.watched :
               tracker'.current[p] = (IF p \in tracker'.watched \ history[i].watched THEN tracker'.baseline[p]
                                      ELSE history[i].tree[p])
  <2>1. k = tracker
    BY <1>1, <1>3
  <2> QED
    BY <1>3, <2>1 DEF SeenBy
<1> QED
  BY <1>1, <1>2, <1>3, FreshKept

\* The observations after a write and after a command.
LEMMA ObservedKeeps ==
  ASSUME EvInv, WriteObserved \/ CommandObserved
  PROVE  EvInv'
<1>1. /\ tool' = NoTool /\ gate' = gate /\ tree' = tree /\ history' = history /\ check' = check
  BY DEF WriteObserved, CommandObserved
<1>2. gate.pc = "running"
  <2>1. tool # NoTool
    BY DEF WriteObserved, CommandObserved, NoTool
  <2> QED
    BY <2>1 DEF EvInv, ToolInv
<1>3. WorkInv /\ ItemsInv /\ FreshInv
  BY DEF EvInv
<1>4. /\ tracker.revision \in Nat /\ tracker.epoch \in Nat /\ runs \in Nat
  BY <1>3 DEF WorkInv
<1>5. CASE WriteObserved
  <2>1. PICK k : k = Look({tool.path})
    OBVIOUS
  <2>2. tracker' = k /\ runs' = runs
    BY <1>5, <2>1 DEF WriteObserved
  <2>3. k \in [baseline : Versioned, current : Versioned, watched : SUBSET Tree, revision : Nat, epoch : Nat]
        /\ k.epoch = tracker.epoch
    BY <1>3, <2>1, LookFacts
  <2>4. WorkInv'
    BY <1>1, <1>3, <2>2, <2>3 DEF WorkInv, Versioned
  <2>5. FreshInv'
    <3>1. /\ tracker'.epoch \in Nat /\ runs' \in Nat /\ tracker'.epoch >= tracker.epoch
          /\ runs' + tracker.epoch = runs + tracker'.epoch
      BY <1>4, <2>2, <2>3
    <3> QED
      BY <1>1, <1>3, <2>1, <2>2, <3>1, LookKeepsFresh
  <2> QED
    BY <1>1, <1>2, <1>3, <2>4, <2>5, NotAccepted
    DEF EvInv, ToolInv, ItemsInv, Item, NoTool, RanInv, SameBut
<1>6. CASE CommandObserved
  <2>1. PICK k : k = Look(Observed)
    OBVIOUS
  <2>2. tracker' = [k EXCEPT !.epoch = k.epoch + 1] /\ runs' = runs + 1
    BY <1>6, <2>1 DEF CommandObserved
  <2>3. k \in [baseline : Versioned, current : Versioned, watched : SUBSET Tree, revision : Nat, epoch : Nat]
        /\ k.epoch = tracker.epoch
    BY <1>3, <2>1, LookFacts
  <2>4. /\ tracker'.revision = k.revision /\ tracker'.watched = k.watched /\ tracker'.current = k.current
        /\ tracker'.baseline = k.baseline /\ tracker'.epoch = tracker.epoch + 1
        /\ tracker' \in [baseline : Versioned, current : Versioned, watched : SUBSET Tree, revision : Nat,
                         epoch : Nat]
    <3>1. k.epoch + 1 \in Nat
      BY <2>3
    <3> QED
      BY <2>2, <2>3, <3>1
  <2>5. WorkInv'
    BY <1>1, <1>3, <1>4, <2>2, <2>4 DEF WorkInv, Versioned
  <2>6. FreshInv'
    <3>1. /\ tracker'.epoch \in Nat /\ runs' \in Nat /\ tracker'.epoch >= tracker.epoch
          /\ runs' + tracker.epoch = runs + tracker'.epoch
      BY <1>4, <2>2, <2>4
    <3> QED
      BY <1>1, <1>3, <2>1, <2>4, <3>1, LookKeepsFresh
  <2> QED
    BY <1>1, <1>2, <1>3, <2>5, <2>6, NotAccepted
    DEF EvInv, ToolInv, ItemsInv, Item, NoTool, RanInv, SameBut
<1> QED
  BY <1>5, <1>6

\* A check enters the ledger with the revision its own look arrives at (VerifyTool.execute).
LEMMA CheckKeeps ==
  ASSUME EvInv, NEW success \in BOOLEAN, CheckObserved(success)
  PROVE  EvInv'
<1> DEFINE item == [id |-> Len(history) + 1, command |-> tool.command, asserts |-> tool.asserts,
                    bound |-> tool.bound, supersedes |-> tool.supersedes, success |-> success,
                    fresh |-> TRUE, revision |-> tracker'.revision, epoch |-> tracker.epoch,
                    turn |-> gate.turn, tree |-> tree, watched |-> tracker.watched, runs |-> runs,
                    ran |-> check.ran, touched |-> check.touched]
<1>1. /\ tool.op = "verify" /\ tool # NoTool /\ tracker' = Look(Observed) /\ history' = Append(history, item)
      /\ tool' = NoTool /\ gate' = gate /\ tree' = tree /\ runs' = runs /\ check' = check
  BY DEF CheckObserved, NoTool
<1>2. gate.pc = "running" /\ Process(tool)
  BY <1>1 DEF EvInv, ToolInv, Write
<1>3. WorkInv /\ ItemsInv /\ FreshInv
  BY DEF EvInv
<1>4. /\ tracker.revision \in Nat /\ tracker.epoch \in Nat /\ runs \in Nat /\ tracker.watched \subseteq Tree
      /\ gate.turn \in Nat
  BY <1>3 DEF WorkInv
<1>5. /\ tracker' \in [baseline : Versioned, current : Versioned, watched : SUBSET Tree, revision : Nat, epoch : Nat]
      /\ tracker'.watched = tracker.watched /\ tracker'.baseline = tracker.baseline
      /\ tracker'.epoch = tracker.epoch /\ tracker'.revision >= tracker.revision
      /\ tracker'.revision = tracker.revision => tracker' = tracker
      /\ \A p \in Tree \intersect Observed : tracker'.current[p] = tree[p]
  BY <1>1, <1>3, LookFacts
<1>6. WorkInv'
  BY <1>1, <1>3, <1>5 DEF WorkInv, Versioned
<1>7. ToolInv'
  BY <1>1 DEF ToolInv, NoTool
<1>8. /\ item.id = Len(history) + 1 /\ item.fresh = TRUE /\ item.revision = tracker'.revision
      /\ item.epoch = tracker.epoch /\ item.turn = gate.turn /\ item.tree = tree
      /\ item.watched = tracker.watched /\ item.runs = runs
      /\ item.command = tool.command /\ item.supersedes = tool.supersedes
      /\ item.ran = check.ran /\ item.touched = check.touched
  OBVIOUS
<1>9. Item(Len(history) + 1, item)
  <2>1. tool.asserts \in BOOLEAN /\ tool.bound \in BOOLEAN /\ Len(history) + 1 \in Nat
    BY <1>2, <1>3 DEF Process, ItemsInv
  <2>2. tracker'.revision \in Nat
    BY <1>5
  <2>3. item \in [id : {Len(history) + 1}, command : {tool.command}, asserts : BOOLEAN, bound : BOOLEAN,
                  supersedes : {tool.supersedes}, success : BOOLEAN, fresh : BOOLEAN, revision : Nat,
                  epoch : Nat, turn : Nat, tree : {tree}, watched : SUBSET Tree, runs : Nat,
                  ran : {check.ran}, touched : {check.touched}]
    BY <1>4, <2>1, <2>2
  <2> HIDE DEF item
  <2> QED
    BY <1>8, <2>3 DEF Item
<1> HIDE DEF item
<1>10. /\ Len(history) \in Nat /\ DOMAIN history = 1 .. Len(history)
       /\ Len(history') = Len(history) + 1 /\ DOMAIN history' = 1 .. Len(history) + 1
       /\ \A i \in DOMAIN history : history'[i] = history[i]
       /\ history'[Len(history) + 1] = item
  <2>1. Len(history) \in Nat /\ DOMAIN history = 1 .. Len(history)
    BY <1>3 DEF ItemsInv
  <2>2. PICK S : history \in Seq(S)
    BY <1>3 DEF ItemsInv
  <2>3. history \in Seq(S \union {item}) /\ item \in S \union {item}
    BY <2>2
  <2> QED
    BY <1>1, <2>1, <2>3
<1>11. (\E S : history \in Seq(S))'
  <2>1. PICK S : history \in Seq(S)
    BY <1>3 DEF ItemsInv
  <2>2. history \in Seq(S \union {item}) /\ item \in S \union {item}
    BY <2>1
  <2>3. history' \in Seq(S \union {item})
    BY <1>1, <2>2
  <2> QED
    BY <2>3
<1>12. ItemsInv'
  <2>1. ASSUME NEW i \in DOMAIN history'
        PROVE  Item(i, history'[i]) /\ SameBut(history'[i].ran, history'[i].touched, history'[i].tree)
    <3>1. CASE i = Len(history) + 1
      BY <1>8, <1>9, <1>10, <3>1 DEF EvInv, RanInv
    <3>2. CASE i # Len(history) + 1
      <4>1. i \in DOMAIN history
        BY <1>10, <2>1, <3>2
      <4> QED
        BY <1>3, <1>10, <4>1 DEF ItemsInv
    <3> QED
      BY <3>1, <3>2
  <2> QED
    BY <1>10, <1>11, <2>1 DEF ItemsInv, Item, SameBut
<1>13. ASSUME NEW i \in DOMAIN history', history'[i].fresh
       PROVE  FreshAs(history[i])'
  <2>1. PICK e : e = history'[i]
    OBVIOUS
  <2>2. CASE i = Len(history) + 1
    <3>1. e = item
      BY <1>10, <2>1, <2>2
    <3>2. /\ e.revision = tracker'.revision /\ e.epoch = tracker.epoch /\ e.turn = gate.turn
          /\ e.tree = tree /\ e.watched = tracker.watched /\ e.runs = runs
      BY <1>8, <3>1
    <3>3. ASSUME NEW p \in Tracked \union tracker.watched PROVE tracker'.current[p] = e.tree[p]
      <4>1. p \in Tree \intersect Observed
        BY <1>4 DEF Tree, Observed
      <4> QED
        BY <1>5, <3>2, <4>1
    <3>4. SeenBy(e)'
      BY <1>5, <3>2, <3>3 DEF SeenBy
    <3> QED
      BY <1>1, <1>4, <1>5, <2>1, <3>2, <3>4 DEF FreshAs, SeenBy
  <2>3. CASE i # Len(history) + 1
    <3>1. i \in DOMAIN history /\ e = history[i] /\ e.fresh
      BY <1>10, <1>13, <2>1, <2>3
    <3>2. tracker'.revision = tracker.revision /\ SeenBy(e) => SeenBy(e)'
      BY <1>5 DEF SeenBy
    <3>3. /\ tracker'.revision \in Nat /\ tracker'.epoch \in Nat /\ runs' \in Nat
          /\ tracker'.revision >= tracker.revision /\ tracker'.epoch >= tracker.epoch
          /\ runs' + tracker.epoch = runs + tracker'.epoch
          /\ tracker.watched \subseteq tracker'.watched
      BY <1>1, <1>4, <1>5
    <3>4. FreshAs(e)'
      BY <1>1, <1>3, <1>4, <3>1, <3>2, <3>3, ItemKept
    <3> QED
      BY <2>1, <3>4 DEF FreshAs, SeenBy
  <2> QED
    BY <2>2, <2>3
<1>14. ASSUME NEW i \in DOMAIN history', NEW j \in DOMAIN history', i <= j, history'[i].fresh
       PROVE  /\ history'[j].fresh
              /\ history'[i].revision <= history'[j].revision
              /\ history'[i].epoch <= history'[j].epoch
  <2>1. CASE j = Len(history) + 1
    <3>1. history'[j] = item /\ history'[i].revision \in Nat /\ history'[i].epoch \in Nat
      BY <1>10, <1>12, <1>14, <2>1 DEF ItemsInv, Item
    <3>2. history'[i].revision <= tracker'.revision /\ history'[i].epoch <= tracker'.epoch
      BY <1>13, <1>14 DEF FreshAs
    <3> QED
      BY <1>5, <1>8, <3>1, <3>2
  <2>2. CASE j # Len(history) + 1
    <3>1. i \in DOMAIN history /\ j \in DOMAIN history /\ history'[i] = history[i] /\ history'[j] = history[j]
      BY <1>10, <1>14, <2>2
    <3> QED
      BY <1>3, <1>14, <3>1 DEF FreshInv
  <2> QED
    BY <2>1, <2>2
<1>15. FreshInv'
  BY <1>13, <1>14 DEF FreshInv
<1>16. RanInv'
  BY <1>1 DEF EvInv, RanInv, SameBut
<1> QED
  BY <1>1, <1>2, <1>6, <1>7, <1>12, <1>15, <1>16, NotAccepted DEF EvInv

\* Steps that change the gate and the tool only, and do not accept.
LEMMA GateOnly ==
  ASSUME EvInv, EvCancel \/ FinishIncomplete \/ RetireCriterion
  PROVE  EvInv'
<1>1. /\ history' = history /\ tracker' = tracker /\ tree' = tree /\ runs' = runs
      /\ tool' = NoTool /\ check' = check
  BY DEF EvCancel, FinishIncomplete, RetireCriterion
<1>2. /\ gate'.pc # "completed" /\ gate'.turn = gate.turn
      /\ gate' \in [pc : {"idle", "running", "completed", "partial"}, turn : Nat,
                    criterion : {"none", "registered", "retired"}, offered : {gate'.offered}]
  <2>1. gate' = [gate EXCEPT !.pc = "partial"]
          \/ (gate' = [gate EXCEPT !.criterion = "retired"] /\ gate.pc = "running")
    BY DEF EvCancel, FinishIncomplete, RetireCriterion
  <2>2. gate'.offered = gate.offered
    BY <2>1 DEF EvInv, WorkInv
  <2> QED
    BY <2>1, <2>2 DEF EvInv, WorkInv
<1>3. WorkInv'
  BY <1>1, <1>2 DEF EvInv, WorkInv, Versioned
<1>4. ToolInv' /\ ItemsInv' /\ RanInv'
  BY <1>1 DEF EvInv, ToolInv, ItemsInv, Item, NoTool, RanInv, SameBut
<1> QED
  BY <1>1, <1>2, <1>3, <1>4, FreshSame, NotAccepted DEF EvInv

\* A finish: without reasons the turn is accepted, on a tree a check of it has seen, and with every
\* bound failure answered (TurnRunner._finish_declaration, CompletionGate.evaluate).
LEMMA FinishKeeps ==
  ASSUME EvInv, NEW criterion \in {"none", "registered", "retired"}, FinishCompleted(criterion)
  PROVE  EvInv'
<1>1. /\ tracker' = Look(Observed) /\ tree' = tree /\ history' = history /\ tool' = tool /\ runs' = runs
      /\ gate.pc = "running" /\ tool = NoTool
      /\ criterion = gate.criterion \/ (gate.criterion = "none" /\ criterion = "registered")
      /\ accepted' = IF gate'.pc = "completed" THEN tree ELSE accepted
      /\ check' = check
  BY DEF FinishCompleted
<1>2. PICK k : k = tracker'
  OBVIOUS
<1>3. PICK reasons : reasons = Reasons(k, criterion)
  OBVIOUS
<1>4. /\ gate'.turn = gate.turn /\ gate'.criterion = criterion
      /\ gate'.pc \in {"completed", "running", "partial"}
      /\ gate'.pc = "completed" => reasons = {}
      /\ gate' \in [pc : {"idle", "running", "completed", "partial"}, turn : Nat,
                    criterion : {"none", "registered", "retired"}, offered : {gate'.offered}]
  <2>1. PICK pc, offered : /\ gate' = [gate EXCEPT !.criterion = criterion, !.pc = pc, !.offered = offered]
                           /\ pc \in {"completed", "running", "partial"}
                           /\ pc = "completed" => reasons = {}
    <3> DEFINE offer == reasons \notin gate.offered /\ Cardinality(gate.offered) < Repairs
               pc == IF reasons = {} THEN "completed" ELSE IF offer THEN "running" ELSE "partial"
               offered == IF reasons # {} /\ offer THEN gate.offered \union {reasons} ELSE gate.offered
    <3>1. gate' = [gate EXCEPT !.criterion = criterion, !.pc = pc, !.offered = offered]
      BY <1>2, <1>3 DEF FinishCompleted, EvInv, WorkInv
    <3>2. pc \in {"completed", "running", "partial"} /\ (pc = "completed" => reasons = {})
      OBVIOUS
    <3> HIDE DEF pc, offered
    <3> QED
      BY <3>1, <3>2
  <2>2. gate'.offered = offered /\ gate'.pc = pc /\ gate'.criterion = criterion /\ gate'.turn = gate.turn
    BY <2>1 DEF EvInv, WorkInv
  <2> QED
    BY <2>1, <2>2 DEF EvInv, WorkInv
<1>5. WorkInv /\ ItemsInv /\ FreshInv
  BY DEF EvInv
<1>6. /\ tracker.revision \in Nat /\ tracker.epoch \in Nat /\ runs \in Nat /\ tracker.watched \subseteq Tree
  BY <1>5 DEF WorkInv
<1>7. /\ k \in [baseline : Versioned, current : Versioned, watched : SUBSET Tree, revision : Nat, epoch : Nat]
      /\ k.watched = tracker.watched /\ k.baseline = tracker.baseline
      /\ k.epoch = tracker.epoch /\ k.revision >= tracker.revision
      /\ k.revision = tracker.revision => k = tracker
      /\ \A p \in Tree \intersect Observed : k.current[p] = tree[p]
  BY <1>1, <1>2, <1>5, LookFacts
<1>8. WorkInv'
  BY <1>1, <1>2, <1>4, <1>5, <1>7 DEF WorkInv, Versioned
<1>9. ToolInv' /\ ItemsInv' /\ RanInv'
  BY <1>1, <1>5 DEF ToolInv, ItemsInv, Item, NoTool, EvInv, RanInv, SameBut
<1>10. FreshInv'
  <2>1. /\ tracker'.epoch \in Nat /\ runs' \in Nat /\ tracker'.epoch >= tracker.epoch
        /\ runs' + tracker.epoch = runs + tracker'.epoch
    BY <1>1, <1>2, <1>6, <1>7
  <2> QED
    BY <1>1, <1>2, <1>4, <1>5, <2>1, LookKeepsFresh
<1>11. CASE gate'.pc # "completed"
  BY <1>8, <1>9, <1>10, <1>11, NotAccepted DEF EvInv
<1>12. CASE gate'.pc = "completed"
  <2>1. Reasons(k, criterion) = {}
    BY <1>3, <1>4, <1>12
  <2>2. AcceptedIsTested'
    <3>1. PICK e \in Counted : Current(k, e) /\ e.success
      BY <2>1, NoReasons
    <3>2. e.id \in DOMAIN history /\ e = history[e.id] /\ Item(e.id, e)
      BY <1>5, CountedItems
    <3>3. /\ e.revision \in Nat /\ e.epoch \in Nat /\ e.runs \in Nat
      BY <3>2 DEF Item
    <3>4. e.fresh /\ e.revision = k.revision /\ e.epoch = k.epoch
      BY <3>1 DEF Current
    <3>5. FreshAs(e)
      BY <1>5, <3>2, <3>4 DEF FreshInv
    <3>6. k.revision = tracker.revision /\ k = tracker /\ SeenBy(e)
      BY <1>6, <1>7, <3>3, <3>4, <3>5 DEF FreshAs
    <3>7. e.turn = gate.turn /\ e.runs = runs
      BY <1>6, <1>7, <3>3, <3>4, <3>5 DEF FreshAs
    <3>8. Items' = Items /\ e \in Items
      BY <1>1, <3>1 DEF Items, Counted
    <3>9. e \in Passed'
      BY <1>1, <1>4, <3>1, <3>7, <3>8 DEF Passed
    <3>10. ASSUME NEW p \in Tracked \union tracker'.watched
           PROVE  accepted'[p] = (IF p \in tracker'.watched \ e.watched THEN tracker'.baseline[p] ELSE Stood(e, p))
      <4>1. p \in Tree \intersect Observed
        BY <1>2, <1>6, <1>7 DEF Tree, Observed
      <4>2. accepted'[p] = k.current[p]
        BY <1>1, <1>7, <1>12, <4>1
      <4>3. Stood(e, p) = e.tree[p]
        BY <1>5, <3>2, <4>1 DEF ItemsInv, SameBut, Stood
      <4> QED
        BY <1>2, <3>6, <4>2, <4>3 DEF SeenBy
    <3> QED
      BY <3>9, <3>10 DEF AcceptedIsTested, Stood
  <2>3. Counted' = Counted
    <3>1. gate'.criterion = "retired" <=> gate.criterion = "retired"
      BY <1>1, <1>4
    <3>2. Items' = Items
      BY <1>1 DEF Items
    <3> QED
      BY <3>1, <3>2 DEF Counted
  <2>4. FailuresAnswered'
    <3>1. ASSUME NEW e \in Counted, e.bound, ~e.success
          PROVE  \/ \E f \in LaterRuns(e) : f.success
                 \/ \E f \in LaterRuns(e), g \in Counted :
                      g.id > f.id /\ g.success /\ f.id \in g.supersedes /\ (e.asserts => g.asserts)
                 \/ \E f \in LaterRuns(e) : ~f.bound /\ \A h \in LaterRuns(e) : h.id <= f.id
      BY <1>5, <1>6, <1>7, <2>1, <3>1, Answered
    <3>2. ASSUME NEW e \in Counted PROVE LaterRuns(e)' = LaterRuns(e)
      BY <2>3 DEF LaterRuns, SameCheck
    <3>3. ASSUME NEW e \in Counted, e.bound, ~e.success
          PROVE  \/ \E f \in LaterRuns(e)' : f.success
                 \/ \E f \in LaterRuns(e)', g \in Counted' :
                      g.id > f.id /\ g.success /\ f.id \in g.supersedes /\ (e.asserts => g.asserts)
                 \/ \E f \in LaterRuns(e)' : ~f.bound /\ \A h \in LaterRuns(e)' : h.id <= f.id
      <4>1. LaterRuns(e)' = LaterRuns(e)
        BY <3>2, <3>3
      <4> QED
        BY <2>3, <3>1, <3>3, <4>1
    <3> QED
      BY <2>3, <3>3 DEF FailuresAnswered
  <2> QED
    BY <1>8, <1>9, <1>10, <2>2, <2>4 DEF EvInv, CompletionTested
<1> QED
  BY <1>11, <1>12

\* One step of a turn, of a tool or of another program.
LEMMA EvStep ==
  ASSUME EvInv, [EvNext]_ev_vars
  PROVE  EvInv'
<1>1. CASE UNCHANGED ev_vars
  <2>1. /\ tree' = tree /\ tracker' = tracker /\ history' = history /\ gate' = gate /\ tool' = tool
        /\ accepted' = accepted /\ runs' = runs /\ check' = check
    BY <1>1 DEF ev_vars
  <2>2. WorkInv' /\ ToolInv' /\ ItemsInv' /\ RanInv'
    BY <2>1 DEF EvInv, WorkInv, Versioned, ToolInv, NoTool, Write, Process, ItemsInv, Item, RanInv, SameBut
  <2>3. FreshInv'
    BY <2>1, FreshSame DEF EvInv
  <2>4. CompletionTested'
    BY <2>1 DEF EvInv, CompletionTested, AcceptedIsTested, Stood, FailuresAnswered, Accepted, Passed, Items,
                Counted, LaterRuns, SameCheck
  <2> QED
    BY <2>2, <2>3, <2>4 DEF EvInv
<1>2. CASE EvBeginTurn
  BY <1>2, BeginKeeps
<1>3. CASE WriteObserved \/ CommandObserved
  BY <1>3, ObservedKeeps
<1>4. CASE EvCancel \/ FinishIncomplete \/ RetireCriterion
  BY <1>4, GateOnly
<1>5. ASSUME NEW p \in Tree, StartWrite(p) PROVE EvInv'
  BY <1>5, StartWriteKeeps
<1>6. ASSUME NEW command \in Commands, NEW asserts \in BOOLEAN, NEW bound \in BOOLEAN, NEW supersedes,
             StartProcess("verify", command, asserts, bound, supersedes)
      PROVE  EvInv'
  BY <1>6, StartProcessKeeps
<1>7. ASSUME NEW command \in Commands, NEW asserts \in BOOLEAN, NEW bound \in BOOLEAN,
             StartProcess("run_command", command, asserts, bound, {})
      PROVE  EvInv'
  BY <1>7, StartProcessKeeps
<1>8. ASSUME NEW p \in Tree, NEW version \in Versions, ToolActs(p, version) \/ ForeignChange(p, version)
      PROVE  EvInv'
  BY <1>8, TreeChanges
<1>9. ASSUME NEW success \in BOOLEAN, CheckObserved(success) PROVE EvInv'
  BY <1>9, CheckKeeps
<1>10. ASSUME NEW criterion \in {"none", "registered", "retired"}, FinishCompleted(criterion) PROVE EvInv'
  BY <1>10, FinishKeeps
<1> QED
  BY <1>1, <1>2, <1>3, <1>4, <1>5, <1>6, <1>7, <1>8, <1>9, <1>10 DEF EvNext

\* The tracker, the ledger and the gate agree in every reachable state (forge/runtime/workspace.py,
\* completion.py).
THEOREM EvidenceInductive == EvSpec => []EvInv
<1>1. EvInit => EvInv
  <2> SUFFICES ASSUME EvInit PROVE EvInv
    OBVIOUS
  <2>1. tree \in Versioned
    BY DEF EvInit, Versioned, Versions
  <2>2. WorkInv
    BY <2>1 DEF EvInit, WorkInv
  <2>3. history = <<>> /\ history \in Seq({}) /\ DOMAIN history = {} /\ Len(history) = 0
    BY DEF EvInit
  <2>4. ItemsInv /\ FreshInv
    BY <2>3 DEF ItemsInv, FreshInv
  <2>5. gate.pc = "idle" /\ tool = NoTool /\ RanInv
    BY DEF EvInit, RanInv, SameBut
  <2>6. ToolInv
    BY <2>5 DEF ToolInv
  <2>7. CompletionTested
    BY <2>5 DEF CompletionTested, AcceptedIsTested, FailuresAnswered, Accepted
  <2> QED
    BY <2>2, <2>4, <2>5, <2>6, <2>7 DEF EvInv
<1> QED
  BY <1>1, EvStep, PTL DEF EvSpec

\* An accepted turn was checked on the tree it left, but for what other programs wrote while the
\* check ran, after its last command, and no failure bound to its requirement was passed over; for
\* any paths, commands and number of turns, tools and writes by other programs
\* (CompletionGate.evaluate).
THEOREM CompletionHolds == EvSpec => []CompletionTested
<1>1. EvInv => CompletionTested
  BY DEF EvInv
<1> QED
  BY <1>1, EvidenceInductive, PTL

-----------------------------------------------------------------------------
(* Writeback: what stands in the workspace, and who put it there. *)

\* What stands at a name, with an identity no later write has.
Place(n, e, bound) == e = Nowhere \/ e \in [value : Values(n), id : 1 .. bound]

Applying == {"applying", "indeterminate", "done"}

WbTypes ==
  /\ writes \in Nat
  /\ DOMAIN host = Names /\ DOMAIN snapshot = Names /\ DOMAIN theirs = Names
  /\ \A n \in Names : Place(n, host[n], writes) /\ Place(n, snapshot[n], writes)
  /\ host["d"] = Nowhere => host["d/f"] = Nowhere
  /\ output \in Trees
  /\ apply \in [phase : {"capture", "running", "recapture", "compare", "rejected"} \cup Applying, next : Names,
                entries : SUBSET Names, checked : BOOLEAN]
  /\ applied \subseteq Names

\* The snapshot has taken the name.
Snapped(n) == apply.phase = "capture" => (n = "a" /\ apply.next # "a") \/ (n = "d" /\ apply.next = "d/f")

\* What nobody else wrote is the snapshot's or the sandbox's, what somebody else wrote is his.
Whose ==
  \A n \in Names :
    /\ theirs[n] = "nothing" /\ Snapped(n) =>
         host[n].value = IF n \in applied THEN output[n] ELSE snapshot[n].value
    /\ theirs[n] # "nothing" /\ n \notin raced => host[n].value = theirs[n]
    /\ theirs[n] # "nothing" /\ n \notin applied /\ (n = "d" \/ theirs[n] = "none") =>
         theirs[n] # snapshot[n].value

\* A file that is still the one of the snapshot was written by nobody; what appeared in a directory
\* that was not there when it was walked was written by somebody else.
Recognized ==
  /\ \A n \in FileNames : snapshot[n] # Nowhere /\ host[n] = snapshot[n] => theirs[n] = "nothing"
  /\ \A n \in Names : ~Snapped(n) => snapshot[n] = Nowhere
  /\ apply.phase = "capture" /\ apply.next = "d/f" /\ snapshot["d"] = Nowhere /\ host["d/f"] # Nowhere =>
       theirs["d/f"] # "nothing"

\* Whatever differs is applied or still to do, nothing twice, and what is checked is what stands.
Progress ==
  /\ apply.phase \notin Applying => applied = {} /\ raced = {} /\ apply.entries = {}
  /\ apply.entries \cap applied = {} /\ \A n \in apply.entries : Differs(n)
  /\ apply.phase \in {"applying", "done"} => \A n \in Names : Differs(n) => n \in applied \cup apply.entries
  /\ apply.phase = "done" => apply.entries = {}
  /\ apply.checked =>
       /\ apply.phase = "applying" /\ apply.entries # {}
       /\ NextEntry \notin raced /\ NextEntry \in FileNames /\ snapshot[NextEntry] # Nowhere =>
            host[NextEntry] = snapshot[NextEntry]

WbInv == WbTypes /\ Whose /\ Recognized /\ Progress

-----------------------------------------------------------------------------
(* Writeback: the proof. *)

\* The entry whose turn it is is one of those that are to be done (apply takes them in order).
LEMMA NextIsDue ==
  ASSUME apply.entries \subseteq Names, apply.entries # {}
  PROVE  NextEntry \in apply.entries
BY DEF NextEntry, Names

\* An identity that is not newer than one write is not newer than the next (lstat).
LEMMA PlaceLasts ==
  ASSUME NEW n, NEW e, NEW m \in Nat, Place(n, e, m)
  PROVE  Place(n, e, m + 1)
BY DEF Place

\* The tree before the snapshot is somebody's own, and nothing is applied (_capture).
LEMMA WbStarts == WbInit => WbInv
<1> SUFFICES ASSUME WbInit PROVE WbInv
  OBVIOUS
<1>1. PICK given \in Trees :
        host = [n \in Names |-> IF given[n] = "none" THEN Nowhere ELSE [value |-> given[n], id |-> 1]]
  BY DEF WbInit
<1>2. [n \in Names |-> "none"] \in Trees
  BY DEF Trees, WholeTree, Values, Names
<1>3. ASSUME NEW n \in Names PROVE Place(n, host[n], 1)
  BY <1>1, <1>3 DEF Place, Trees
<1>4. host["d"] = Nowhere => host["d/f"] = Nowhere
  <2>1. \A n \in Names : host[n] = Nowhere <=> given[n] = "none"
    BY <1>1 DEF Nowhere
  <2> QED
    BY <2>1 DEF Trees, WholeTree, Names
<1>5. WbTypes
  BY <1>1, <1>2, <1>3, <1>4 DEF WbInit, WbTypes, Place, Applying, Names
<1>6. Whose
  BY DEF WbInit, Whose, Snapped
<1>7. Recognized /\ Progress
  BY DEF WbInit, Recognized, Snapped, Progress, Applying, Names, FileNames
<1> QED
  BY <1>5, <1>6, <1>7 DEF WbInv

\* A name that is captured is nobody's but the snapshot's, but for a file that appeared in a
\* directory that was not there: it stays somebody else's (_capture).
LEMMA CaptureKeeps ==
  ASSUME WbInv, NEW n \in Names, CaptureName(n)
  PROVE  WbInv'
<1> USE DEF WbInv
<1>1. /\ apply.phase = "capture" /\ apply.next = n /\ applied = {} /\ apply.entries = {} /\ ~apply.checked
      /\ UNCHANGED <<host, output, applied, raced, writes>>
  BY DEF CaptureName, WbTypes, Progress, Applying
<1>2. /\ apply'.entries = {} /\ apply'.checked = FALSE
      /\ n = "d/f" => apply'.phase = "running" /\ apply'.next = "a"
      /\ n # "d/f" => apply'.phase = "capture" /\ apply'.next = NameAfter(n)
  BY <1>1 DEF CaptureName, WbTypes
<1>3. /\ DOMAIN snapshot' = Names /\ DOMAIN theirs' = Names
      /\ \A m \in Names : m # n => snapshot'[m] = snapshot[m] /\ theirs'[m] = theirs[m]
      /\ snapshot'[n] = Seen(n, snapshot)
      /\ theirs'[n] = IF Seen(n, snapshot) = host[n] THEN "nothing" ELSE theirs[n]
  BY DEF CaptureName, WbTypes
<1>4. Seen(n, snapshot) = host[n] \/ (n = "d/f" /\ snapshot["d"] = Nowhere /\ Seen(n, snapshot) = Nowhere)
  BY DEF Seen
<1>5. WbTypes'
  <2>1. apply' \in [phase : {"capture", "running", "recapture", "compare", "rejected"} \cup Applying,
                    next : Names, entries : SUBSET Names, checked : BOOLEAN]
    BY DEF CaptureName, WbTypes, NameAfter, Names
  <2>2. \A m \in Names : Place(m, snapshot'[m], writes)
    BY <1>3, <1>4 DEF WbTypes, Place
  <2> QED
    BY <1>1, <1>3, <2>1, <2>2 DEF WbTypes
<1>6. Whose'
  <2> SUFFICES ASSUME NEW m \in Names
               PROVE  /\ theirs'[m] = "nothing" /\ Snapped(m)' => host[m].value = snapshot'[m].value
                      /\ theirs'[m] # "nothing" /\ m \notin raced => host[m].value = theirs'[m]
                      /\ theirs'[m] # "nothing" /\ (m = "d" \/ theirs'[m] = "none") =>
                           theirs'[m] # snapshot'[m].value
    BY <1>1 DEF Whose
  <2>1. CASE m # n
    <3>1. Snapped(m)' => Snapped(m)
      BY <1>1, <1>2, <2>1 DEF Snapped, NameAfter, Names
    <3> QED
      BY <1>1, <1>3, <2>1, <3>1 DEF Whose
  <2>2. CASE m = n /\ Seen(n, snapshot) = host[n]
    BY <1>3, <2>2
  <2>3. CASE m = n /\ Seen(n, snapshot) # host[n]
    <3>1. n = "d/f" /\ snapshot["d"] = Nowhere /\ host[n] # Nowhere /\ theirs[n] # "nothing"
      BY <1>1, <1>4, <2>3 DEF Recognized
    <3>2. host[n].value \in FileBodies
      BY <3>1 DEF WbTypes, Place, Values, Names
    <3>3. theirs[n] # "none"
      BY <1>1, <3>1, <3>2, WritebackAssumption DEF Whose, Progress, Applying
    <3> QED
      BY <1>1, <1>3, <1>4, <2>3, <3>1, <3>3 DEF Whose, Progress, Applying
  <2> QED
    BY <2>1, <2>2, <2>3
<1>7. Recognized'
  <2>1. ASSUME NEW m \in FileNames, snapshot'[m] # Nowhere, host[m] = snapshot'[m]
        PROVE  theirs'[m] = "nothing"
    BY <1>3, <1>4, <2>1 DEF Recognized, FileNames, Names
  <2>2. ASSUME apply'.phase = "capture", apply'.next = "d/f", snapshot'["d"] = Nowhere, host["d/f"] # Nowhere
        PROVE  FALSE
    <3>1. n = "d"
      BY <1>2, <2>2 DEF NameAfter, Names
    <3> QED
      BY <1>3, <1>4, <2>2, <3>1 DEF WbTypes
  <2>3. ASSUME NEW m \in Names, ~Snapped(m)'
        PROVE  snapshot'[m] = Nowhere
    <3>1. ~Snapped(m) /\ m # n
      BY <1>1, <1>2, <2>3 DEF Snapped, NameAfter, Names
    <3> QED
      BY <1>3, <3>1 DEF Recognized
  <2> QED
    BY <1>1, <2>1, <2>2, <2>3 DEF Recognized
<1>8. Progress'
  BY <1>1, <1>2 DEF Progress, Applying
<1> QED
  BY <1>5, <1>6, <1>7, <1>8

\* What somebody else does to a name is his, unless it makes the name what it was; a file he wrote
\* is not the one of the snapshot any more (lstat).
LEMMA TouchKeeps ==
  ASSUME WbInv, NEW n \in Names, NEW v \in Values(n) \cup {"none"}, Touch(n, v)
  PROVE  WbInv'
<1> USE DEF WbInv
<1>1. UNCHANGED <<snapshot, output, apply, applied>> /\ writes' = writes + 1 /\ writes \in Nat
  BY DEF Touch, WbTypes
<1>2. v # "nothing" /\ (v = "none" \/ v \in Values(n)) /\ (v # "none" => v \in Values(n))
      /\ (v \in Values(n) => v # "none")
  BY WritebackAssumption DEF Values
<1>3. /\ DOMAIN host' = Names /\ DOMAIN theirs' = Names
      /\ \A m \in Names : m # n => host'[m] = host[m] /\ theirs'[m] = theirs[m]
      /\ host'[n] = IF v = "none" THEN Nowhere ELSE [value |-> v, id |-> writes + 1]
      /\ theirs'[n] = IF Unmade(n, v) THEN "nothing" ELSE v
  BY DEF Touch, WbTypes
<1>4. host'[n].value = v
  BY <1>3 DEF Nowhere
<1>5. Place(n, host'[n], writes')
  BY <1>1, <1>2, <1>3 DEF Place
<1>6. raced' = raced \/ (apply.checked /\ n = NextEntry /\ raced' = raced \cup {n})
  BY DEF Touch
<1>7. WbTypes'
  <2>1. \A m \in Names : Place(m, host'[m], writes') /\ Place(m, snapshot'[m], writes')
    BY <1>1, <1>3, <1>5, PlaceLasts DEF WbTypes
  <2>2. host'["d"] = Nowhere => host'["d/f"] = Nowhere
    <3>1. \A m \in Names : Exists(m) <=> host[m] # Nowhere
      BY WritebackAssumption DEF WbTypes, Place, Exists, Nowhere, Values, Names
    <3>2. v # "none" => Exists(DirectoryOf(n)) /\ host'[n] # Nowhere
      BY <1>2, <1>3, <1>4 DEF Touch, Nowhere
    <3>3. v = "none" /\ n = "d" => host["d/f"] = Nowhere
      BY <3>1 DEF Touch, Names
    <3> QED
      BY <1>3, <3>1, <3>2, <3>3 DEF WbTypes, DirectoryOf, Names
  <2> QED
    BY <1>1, <1>3, <2>1, <2>2 DEF WbTypes
<1>8. Whose'
  <2> SUFFICES ASSUME NEW m \in Names
               PROVE  /\ theirs'[m] = "nothing" /\ Snapped(m) =>
                           host'[m].value = IF m \in applied THEN output[m] ELSE snapshot[m].value
                      /\ theirs'[m] # "nothing" /\ m \notin raced' => host'[m].value = theirs'[m]
                      /\ theirs'[m] # "nothing" /\ m \notin applied /\ (m = "d" \/ theirs'[m] = "none") =>
                           theirs'[m] # snapshot[m].value
    BY <1>1 DEF Whose, Snapped
  <2>1. CASE m # n
    BY <1>3, <1>6, <2>1 DEF Whose
  <2>2. CASE m = n
    BY <1>2, <1>3, <1>4, <2>2 DEF Unmade
  <2> QED
    BY <2>1, <2>2
<1>9. Recognized'
  <2>1. ASSUME NEW m \in FileNames, snapshot[m] # Nowhere, host'[m] = snapshot[m]
        PROVE  theirs'[m] = "nothing"
    <3>1. Place(m, snapshot[m], writes)
      BY DEF WbTypes, FileNames, Names
    <3>2. m # n
      BY <1>1, <1>3, <2>1, <3>1 DEF Place
    <3> QED
      BY <1>3, <2>1, <3>2 DEF Recognized, FileNames, Names
  <2>2. ASSUME apply.phase = "capture", apply.next = "d/f", snapshot["d"] = Nowhere, host'["d/f"] # Nowhere
        PROVE  theirs'["d/f"] # "nothing"
    <3>1. n = "d/f" => v # "none"
      BY <1>3, <2>2
    <3>2. snapshot["d/f"] = Nowhere
      BY <2>2 DEF Snapped, Recognized, Names
    <3> QED
      BY <1>2, <1>3, <2>2, <3>1, <3>2 DEF Recognized, Unmade, Nowhere, Names
  <2> QED
    BY <1>1, <2>1, <2>2 DEF Recognized, Snapped
<1>10. Progress'
  <2>1. NextEntry' = NextEntry /\ \A m : Differs(m)' <=> Differs(m)
    BY <1>1 DEF NextEntry, Differs, Removed
  <2>2. apply.phase \notin Applying => raced' = {}
    BY <1>6 DEF Progress, Applying
  <2>3. ASSUME apply.checked, NextEntry \notin raced', NextEntry \in FileNames, snapshot[NextEntry] # Nowhere
        PROVE  host'[NextEntry] = snapshot[NextEntry]
    <3>1. n # NextEntry /\ NextEntry \notin raced
      BY <2>3 DEF Touch
    <3> QED
      BY <1>3, <2>3, <3>1 DEF Progress, FileNames, Names
  <2> QED
    BY <1>1, <2>1, <2>2, <2>3 DEF Progress
<1> QED
  BY <1>7, <1>8, <1>9, <1>10

\* The sandbox gives its tree back, or the second walk goes on: nothing of the workspace changes.
LEMMA WalkKeeps ==
  ASSUME WbInv, UNCHANGED <<host, snapshot, applied, theirs, raced, writes>>,
         apply.phase \in {"running", "recapture"}, output' \in Trees,
         apply' \in [phase : {"running", "recapture", "compare", "rejected"}, next : Names,
                    entries : {apply.entries}, checked : {apply.checked}]
  PROVE  WbInv'
<1> USE DEF WbInv
<1>1. applied = {} /\ raced = {} /\ apply.entries = {} /\ ~apply.checked
      /\ apply'.phase \in {"running", "recapture", "compare", "rejected"}
      /\ apply'.entries = {} /\ ~apply'.checked
  BY DEF Progress, Applying
<1>2. WbTypes'
  BY <1>1 DEF WbTypes
<1>3. \A m \in Names : Snapped(m) /\ Snapped(m)'
  BY <1>1 DEF Snapped
<1>4. Whose'
  BY <1>1, <1>3 DEF Whose
<1>5. Recognized'
  BY <1>1, <1>3 DEF Recognized
<1>6. Progress'
  BY <1>1 DEF Progress, Applying
<1> QED
  BY <1>2, <1>4, <1>5, <1>6

\* What is decided about the difference and its entries without a change of the workspace: the
\* preflight, the check of an entry, a failure and the end (apply).
LEMMA DecisionKeeps ==
  ASSUME WbInv, UNCHANGED <<host, snapshot, output, applied, theirs, raced, writes>>,
         apply.phase \in {"compare", "applying"},
         apply' \in [phase : {"rejected", "applying", "indeterminate", "done"}, next : Names,
                    entries : SUBSET Names, checked : BOOLEAN],
         Progress'
  PROVE  WbInv'
<1> USE DEF WbInv
<1>1. WbTypes'
  BY DEF WbTypes, Applying
<1>2. \A m \in Names : Snapped(m) /\ Snapped(m)'
  BY DEF Snapped
<1>3. Whose'
  BY <1>2 DEF Whose
<1>4. Recognized'
  BY <1>2 DEF Recognized
<1> QED
  BY <1>1, <1>3, <1>4

\* The entry whose turn it is is applied: by now it is not somebody else's, or he wrote it in the
\* moment after the check (unlink, rmdir, mkdir, link, replace).
LEMMA ChangeKeeps ==
  ASSUME WbInv, ChangeEntry, Possible(NextEntry)
  PROVE  WbInv'
<1> USE DEF WbInv
<1> DEFINE n == NextEntry
<1>1. /\ apply.phase = "applying" /\ apply.entries # {} /\ apply.checked
      /\ UNCHANGED <<snapshot, output, theirs, raced>>
      /\ writes' = writes + 1 /\ applied' = applied \cup {n} /\ writes \in Nat
      /\ host' = [host EXCEPT ![n] = IF Removed(n) THEN Nowhere ELSE [value |-> output[n], id |-> writes + 1]]
      /\ apply' = [apply EXCEPT !.entries = @ \ {n}, !.checked = FALSE]
  BY DEF ChangeEntry, WbTypes
<1>2. n \in apply.entries /\ n \in Names /\ n \notin applied /\ Differs(n)
  BY <1>1, NextIsDue DEF WbTypes, Progress
<1> HIDE DEF n
<1>3. /\ DOMAIN host' = Names /\ \A m \in Names : m # n => host'[m] = host[m]
      /\ host'[n] = IF Removed(n) THEN Nowhere ELSE [value |-> output[n], id |-> writes + 1]
  BY <1>1, <1>2 DEF WbTypes
<1>4. host'[n].value = output[n]
  BY <1>2, <1>3 DEF Removed, Nowhere
<1>5. output[n] \in Values(n) \/ (output[n] = "none" /\ Removed(n))
  BY <1>2 DEF WbTypes, Trees, Removed
<1>6. \A m \in Names : /\ host[m] = Nowhere <=> host[m].value = "none"
                       /\ snapshot[m] = Nowhere <=> snapshot[m].value = "none"
                       /\ host[m] # Nowhere => host[m].value \in Values(m)
                       /\ snapshot[m] # Nowhere => snapshot[m].value \in Values(m)
  BY WritebackAssumption DEF WbTypes, Place, Nowhere, Values, Names
<1>7. theirs[n] = "nothing" \/ n \in raced
  <2> SUFFICES ASSUME theirs[n] # "nothing", n \notin raced
               PROVE  FALSE
    OBVIOUS
  <2>1. host[n].value = theirs[n]
    BY <1>2 DEF Whose
  <2>2. n = "d" \/ theirs[n] = "none" => host[n].value # snapshot[n].value
    BY <1>2, <2>1 DEF Whose
  <2>3. CASE n # "d" /\ snapshot[n] # Nowhere
    BY <1>1, <1>2, <2>3 DEF Progress, Recognized, n, FileNames, Names
  <2>4. CASE n # "d" /\ snapshot[n] = Nowhere
    <3>1. ~Removed(n)
      BY <2>4 DEF Removed, Differs, Nowhere
    <3>2. ~Exists(n)
      BY <2>4, <3>1 DEF Possible, n
    <3> QED
      BY <1>2, <2>1, <2>2, <2>4, <3>2 DEF Exists, Nowhere, Names
  <2>5. CASE n = "d" /\ Removed(n)
    BY <1>2, <1>6, <2>2, <2>5 DEF Possible, n, Exists, Removed, Differs, Values
  <2>6. CASE n = "d" /\ ~Removed(n)
    <3>1. ~Exists("d")
      BY <2>6 DEF Possible, n
    <3>2. output[n] = "dir"
      BY <1>5, <2>6 DEF Values
    <3>3. snapshot[n] = Nowhere
      BY <1>2, <1>6, <2>6, <3>2 DEF Differs, Values
    <3> QED
      BY <2>2, <2>6, <3>1, <3>3 DEF Exists, Nowhere
  <2> QED
    BY <2>3, <2>4, <2>5, <2>6
<1>8. WbTypes'
  <2>1. \A m \in Names : Place(m, host'[m], writes + 1) /\ Place(m, snapshot[m], writes + 1)
    BY <1>1, <1>3, <1>5, PlaceLasts DEF WbTypes, Place
  <2>2. host'["d"] = Nowhere => host'["d/f"] = Nowhere
    <3>1. n = "d" /\ Removed(n) => host["d/f"] = Nowhere
      BY <1>6 DEF Possible, n, Exists, Names
    <3>2. n = "d/f" /\ ~Removed(n) => host["d"] # Nowhere
      BY <1>6 DEF Possible, n, Exists, DirectoryOf, Names
    <3>3. ~Removed(n) => host'[n] # Nowhere
      BY <1>1, <1>3 DEF Nowhere
    <3> QED
      BY <1>2, <1>3, <3>1, <3>2, <3>3 DEF WbTypes, Names
  <2>3. apply' \in [phase : {"capture", "running", "recapture", "compare", "rejected"} \cup Applying,
                    next : Names, entries : SUBSET Names, checked : BOOLEAN]
    BY <1>1 DEF WbTypes
  <2>4. applied' \subseteq Names /\ writes' \in Nat
    BY <1>1, <1>2 DEF WbTypes
  <2> QED
    BY <1>1, <1>3, <2>1, <2>2, <2>3, <2>4 DEF WbTypes
<1>9. Snapped(n) /\ \A m : Snapped(m)' <=> Snapped(m)
  BY <1>1 DEF Snapped, WbTypes
<1>10. Whose'
  <2> SUFFICES ASSUME NEW m \in Names
               PROVE  /\ theirs[m] = "nothing" /\ Snapped(m) =>
                           host'[m].value = IF m \in applied' THEN output[m] ELSE snapshot[m].value
                      /\ theirs[m] # "nothing" /\ m \notin raced => host'[m].value = theirs[m]
                      /\ theirs[m] # "nothing" /\ m \notin applied' /\ (m = "d" \/ theirs[m] = "none") =>
                           theirs[m] # snapshot[m].value
    BY <1>1, <1>9 DEF Whose
  <2>1. CASE m # n
    BY <1>1, <1>3, <2>1 DEF Whose
  <2>2. CASE m = n
    BY <1>1, <1>4, <1>7, <2>2
  <2> QED
    BY <2>1, <2>2
<1>11. Recognized'
  <2>1. ASSUME NEW m \in FileNames, snapshot[m] # Nowhere, host'[m] = snapshot[m]
        PROVE  theirs[m] = "nothing"
    <3>1. Place(m, snapshot[m], writes)
      BY DEF WbTypes, FileNames, Names
    <3>2. m # n
      BY <1>1, <1>3, <2>1, <3>1 DEF Place
    <3> QED
      BY <1>3, <2>1, <3>2 DEF Recognized, FileNames, Names
  <2> QED
    BY <1>1, <1>9, <2>1 DEF Recognized, WbTypes
<1>12. Progress'
  <2>1. \A m : Differs(m)' <=> Differs(m)
    BY <1>1 DEF Differs
  <2>2. apply'.phase = "applying" /\ apply'.entries = apply.entries \ {n} /\ apply'.checked = FALSE
    BY <1>1 DEF WbTypes
  <2> QED
    BY <1>1, <1>2, <2>1, <2>2 DEF Progress, Applying
<1> QED
  BY <1>8, <1>10, <1>11, <1>12

\* Nothing of the workspace moves when a change is not possible (OSError in apply).
LEMMA IndeterminateKeeps ==
  ASSUME WbInv, Indeterminate, apply.phase = "applying",
         UNCHANGED <<host, snapshot, output, applied, theirs, raced, writes>>
  PROVE  WbInv'
<1>1. /\ apply' \in [phase : {"indeterminate"}, next : Names, entries : SUBSET Names, checked : BOOLEAN]
      /\ apply'.phase = "indeterminate" /\ apply'.entries = apply.entries /\ apply'.checked = FALSE
  BY DEF Indeterminate, WbInv, WbTypes
<1>2. Progress'
  BY <1>1 DEF WbInv, Progress, Applying, Differs
<1> QED
  BY <1>1, <1>2, DecisionKeeps

\* The invariant of the writeback: each action of WbNext keeps it.
LEMMA WbKeeps ==
  ASSUME WbInv, WbNext
  PROVE  WbInv'
<1> USE DEF WbInv
<1>1. ASSUME NEW n \in Names, CaptureName(n) PROVE WbInv'
  BY <1>1, CaptureKeeps
<1>2. ASSUME NEW n \in Names, Recapture(n) PROVE WbInv'
  <2>1. apply' \in [phase : {"running", "recapture", "compare", "rejected"}, next : Names,
                   entries : {apply.entries}, checked : {apply.checked}]
    BY <1>2 DEF Recapture, WbTypes, NameAfter, Names
  <2> QED
    BY <1>2, <2>1, WalkKeeps DEF Recapture, WbTypes
<1>3. ASSUME NEW n \in Names, NEW v \in Values(n) \cup {"none"}, Touch(n, v) PROVE WbInv'
  BY <1>3, TouchKeeps
<1>4. ASSUME NEW given \in Trees, DecodeTree(given) PROVE WbInv'
  <2>1. apply' \in [phase : {"running", "recapture", "compare", "rejected"}, next : Names,
                   entries : {apply.entries}, checked : {apply.checked}]
    BY <1>4 DEF DecodeTree, WbTypes
  <2> QED
    BY <1>4, <2>1, WalkKeeps DEF DecodeTree
<1>5. CASE Preflight
  <2>1. CASE apply' = [apply EXCEPT !.phase = "rejected"]
    <3>1. Progress'
      BY <1>5, <2>1 DEF Preflight, WbTypes, Progress, Applying
    <3> QED
      BY <1>5, <2>1, <3>1, DecisionKeeps DEF Preflight, WbTypes
  <2>2. CASE apply' = [apply EXCEPT !.phase = "applying", !.entries = {n \in Names : Differs(n)}]
    <3>1. /\ apply'.phase = "applying" /\ apply'.entries = {n \in Names : Differs(n)} /\ ~apply'.checked
          /\ applied' = {} /\ \A n : Differs(n)' <=> Differs(n)
      BY <1>5, <2>2 DEF Preflight, WbTypes, Progress, Applying, Differs
    <3>2. Progress'
      BY <3>1 DEF Progress, Applying
    <3> QED
      BY <1>5, <2>2, <3>2, DecisionKeeps DEF Preflight, WbTypes
  <2> QED
    BY <1>5, <2>1, <2>2 DEF Preflight
<1>6. CASE CheckEntry
  <2>1. CASE Checked(NextEntry)
    <3>1. /\ apply' = [apply EXCEPT !.checked = TRUE] /\ apply.entries # {} /\ apply.phase = "applying"
          /\ UNCHANGED <<host, snapshot, output, applied, theirs, raced, writes>>
      BY <1>6, <2>1 DEF CheckEntry
    <3>2. /\ apply'.phase = "applying" /\ apply'.entries = apply.entries /\ NextEntry' = NextEntry
          /\ \A n : Differs(n)' <=> Differs(n)
      BY <3>1 DEF WbTypes, NextEntry, Removed, Differs
    <3>3. Progress'
      BY <2>1, <3>1, <3>2 DEF Progress, Applying, Checked, FileCurrent
    <3> QED
      BY <3>1, <3>3, DecisionKeeps DEF WbTypes
  <2> QED
    BY <1>6, <2>1, IndeterminateKeeps DEF CheckEntry
<1>7. CASE ChangeEntry
  <2>1. CASE Possible(NextEntry)
    BY <1>7, <2>1, ChangeKeeps
  <2> QED
    BY <1>7, <2>1, IndeterminateKeeps DEF ChangeEntry
<1>8. CASE FailEntry
  BY <1>8, IndeterminateKeeps DEF FailEntry
<1>9. CASE FinishApply
  <2>1. apply'.phase = "done" /\ apply'.entries = {} /\ apply'.checked = apply.checked /\ ~apply.checked
    BY <1>9 DEF FinishApply, WbTypes, Progress
  <2>2. \A n : Differs(n)' <=> Differs(n)
    BY <1>9 DEF FinishApply, Differs
  <2>3. Progress'
    BY <1>9, <2>1, <2>2 DEF FinishApply, Progress, Applying
  <2> QED
    BY <1>9, <2>3, DecisionKeeps DEF FinishApply, WbTypes
<1>10. CASE Hide
  <2>1. UNCHANGED <<host, snapshot, output, apply, applied, theirs, raced, writes>>
    BY <1>10 DEF Hide
  <2> QED
    BY <2>1 DEF WbTypes, Whose, Snapped, Recognized, Progress, NextEntry, Removed, Differs
<1> QED
  BY <1>1, <1>2, <1>3, <1>4, <1>5, <1>6, <1>7, <1>8, <1>9, <1>10 DEF WbNext

\* The invariant of the writeback holds in every reachable state: whose everything is that stands
\* in the workspace while a tree of the sandbox is applied (WorkspaceSnapshot.apply).
THEOREM Owned == WbSpec => []WbInv
<1>1. WbInv /\ UNCHANGED wb_vars => WbInv'
  BY DEF wb_vars, WbInv, WbTypes, Whose, Snapped, Recognized, Progress, NextEntry, Removed, Differs
<1> QED
  BY <1>1, WbStarts, WbKeeps, PTL DEF WbSpec

\* "Bounded workspace snapshots and conflict-checked application": nothing that somebody else wrote
\* is lost but in the moment between a check and its replacement, and the outcome apply reports is
\* what stands in the workspace.
THEOREM WrittenBack == WbSpec => []WritebackSound
<1>1. ASSUME WbInv PROVE WritebackSound
  <2>1. TheirsKept
    BY <1>1 DEF WbInv, Whose, TheirsKept
  <2>2. ASSUME NEW n \in Names, theirs[n] = "nothing", apply.phase \in Applying \cup {"rejected"}
        PROVE  host[n].value = IF n \in applied THEN output[n] ELSE snapshot[n].value
    BY <1>1, <2>2 DEF WbInv, Whose, Snapped, Applying
  <2>3. apply.phase = "rejected" => applied = {}
    BY <1>1 DEF WbInv, Progress, Applying
  <2>4. apply.phase = "done" => \A n \in Names : n \notin applied => output[n] = snapshot[n].value
    BY <1>1 DEF WbInv, Progress, Differs
  <2>5. AsReported
    BY <2>2, <2>3, <2>4 DEF AsReported, Applying
  <2> QED
    BY <2>1, <2>5 DEF WritebackSound
<1> QED
  BY <1>1, Owned, PTL

-----------------------------------------------------------------------------
(* Checkpoints: the checkpoints that were not undone stand on each other. *)

\* An entry of a manifest: none, or what the file held before, and after if that was recorded.
Entry == {NoEntry} \union [before : Contents, after : Contents \union {"unrecorded"}]

Manifest == [kept : BOOLEAN, entry : [Files -> Entry]]

CkTypes ==
  /\ files \in [Files -> Contents]
  /\ checkpoints \in Seq(Manifest)
  /\ start \in Seq([Files -> Contents]) /\ Len(start) = Len(checkpoints)
  /\ undone \subseteq DOMAIN checkpoints
  /\ turn \in BOOLEAN /\ quiet \in BOOLEAN
  /\ call \in [pc : {"idle", "running"}, targets : SUBSET Files, todo : SUBSET Files, text : {call.text}]
  /\ undo \in [pc : {"idle", "writing"}, checkpoint : Nat, todo : SUBSET Files]
  /\ \A w \in threads : w.file \in Files /\ w.text \in Contents

\* A call runs in a turn and on what it captured, a restore between two turns.
Phases ==
  /\ turn => checkpoints # <<>> /\ Len(checkpoints) \notin undone /\ undo = NoUndo
  /\ call # NoCall =>
       /\ turn /\ call.pc = "running" /\ call.todo \subseteq call.targets
       /\ call.targets \subseteq Captured(Len(checkpoints))
       /\ \A f \in call.targets : call.text[f] \in Contents
  /\ undo # NoUndo =>
       /\ undo.pc = "writing" /\ undo.checkpoint \in DOMAIN checkpoints
       /\ undo.todo \subseteq Captured(undo.checkpoint)

BlobsThere == Referenced(checkpoints) \subseteq blobs \union {Absent, "none"}

Active == {c \in DOMAIN checkpoints : Captured(c) # {} /\ c \notin undone}
Top(c) == c \in Active /\ Newer(c) \subseteq undone

\* What the turn of a checkpoint left.
LeftBy(c, f) == IF f \in Captured(c) THEN Expected(checkpoints[c].entry[f]) ELSE start[c][f]

\* A restore under way is that of the newest checkpoint, which was not undone before.
Orderly ==
  quiet /\ (undo # NoUndo => Newer(undo.checkpoint) \subseteq undone /\ undo.checkpoint \notin undone)

\* A file that the restore has put back is what it was at the beginning of the turn.
PutBack(c, f) == undo # NoUndo /\ undo.checkpoint = c /\ f \notin undo.todo

Standing(c, f) == files[f] = IF PutBack(c, f) THEN start[c][f] ELSE LeftBy(c, f)

Stack ==
  /\ threads = {}
  /\ turn /\ Captured(Len(checkpoints)) = {} => files = start[Len(checkpoints)]
  /\ \A c \in Active : \A f \in Captured(c) : checkpoints[c].entry[f].before = start[c][f]
  /\ \A b, c \in Active :
       b < c /\ (\A d \in Active : ~(b < d /\ d < c)) => \A f \in Files : start[c][f] = LeftBy(b, f)
  /\ \A c : Top(c) => \A f \in Files \ (call.targets \ call.todo) : Standing(c, f)

CkInv == CkTypes /\ Phases /\ BlobsThere /\ (Orderly => Stack)

-----------------------------------------------------------------------------
(* Checkpoints: the proof. *)

\* A path is captured exactly if its entry says what it held before (CheckpointStore.capture_before).
LEMMA CapturedEntry ==
  ASSUME CkTypes, NEW c \in DOMAIN checkpoints, NEW f \in Files
  PROVE  /\ f \in Captured(c) <=> checkpoints[c].entry[f].before # "none"
         /\ f \in Captured(c) => /\ checkpoints[c].entry[f].before \in Contents
                                 /\ checkpoints[c].entry[f] \in [before : Contents, after : Contents \union {"unrecorded"}]
         /\ f \notin Captured(c) => checkpoints[c].entry[f] = NoEntry
<1>1. checkpoints[c].entry[f] \in Entry
  <2>1. checkpoints[c] \in Manifest
    BY DEF CkTypes
  <2> QED
    BY <2>1 DEF Manifest
<1>2. "none" \notin Contents
  BY CkAssumption DEF Contents, Absent
<1> QED
  BY <1>1, <1>2 DEF Entry, NoEntry, Captured

\* Only one checkpoint is the newest that can be undone in sequence.
LEMMA OneTop ==
  ASSUME CkTypes, NEW c, NEW d, Top(c), Top(d)
  PROVE  c = d
<1>1. c \in Nat /\ d \in Nat
  BY DEF Top, Active, CkTypes
<1>2. ~(c < d) /\ ~(d < c)
  BY DEF Top, Active, Newer
<1> QED
  BY <1>1, <1>2

\* What no step of another store or of the workspace touches.
LEMMA SameStack ==
  ASSUME UNCHANGED <<checkpoints, start, undone>>
  PROVE  /\ Active' = Active
         /\ \A c : /\ Captured(c)' = Captured(c) /\ Newer(c)' = Newer(c) /\ (Top(c)' <=> Top(c))
                   /\ \A f : LeftBy(c, f)' = LeftBy(c, f)
BY DEF Active, Captured, Newer, Top, LeftBy, Expected

\* Nothing is checkpointed in the beginning (CheckpointStore).
LEMMA CkStarts == CkInit => CkInv
<1> SUFFICES ASSUME CkInit PROVE CkInv
  OBVIOUS
<1>1. CkTypes
  <2>1. checkpoints \in Seq(Manifest) /\ start \in Seq([Files -> Contents]) /\ Len(start) = Len(checkpoints)
    BY DEF CkInit
  <2> QED
    BY <2>1 DEF CkInit, CkTypes, NoCall, NoUndo
<1>2. Phases
  BY DEF CkInit, Phases
<1>3. BlobsThere
  BY DEF CkInit, BlobsThere, Referenced
<1>4. Stack
  BY DEF CkInit, Stack, Active, Top
<1> QED
  BY <1>1, <1>2, <1>3, <1>4 DEF CkInv

\* A turn begins: a checkpoint without entries, and the prune (CheckpointStore.begin).
LEMMA CheckpointBegins ==
  ASSUME CkInv, BeginTurn
  PROVE  CkInv'
<1> USE DEF CkInv
<1>0. PICK k \in Nat : k = Len(checkpoints) + 1
  BY DEF CkTypes
<1> DEFINE empty == [kept |-> TRUE, entry |-> [f \in Files |-> NoEntry]]
           grown == Append(checkpoints, empty)
<1>1. /\ ~turn /\ undo = NoUndo /\ call = NoCall /\ turn' = TRUE
      /\ start' = Append(start, files) /\ UNCHANGED <<files, call, threads, undo, undone, quiet>>
      /\ blobs' = blobs \intersect Referenced(checkpoints')
  BY DEF BeginTurn, Phases
<1>2. PICK expired \in 0 .. Len(checkpoints) : checkpoints' = Pruned(grown, expired)
  BY DEF BeginTurn
<1>3. /\ checkpoints \in Seq(Manifest) /\ Len(checkpoints) \in Nat
      /\ empty \in Manifest
  BY DEF CkTypes, Entry, Manifest
<1>4. /\ DOMAIN checkpoints = 1 .. Len(checkpoints) /\ DOMAIN grown = 1 .. k
      /\ grown \in Seq(Manifest)
      /\ \A c \in 1 .. Len(checkpoints) : grown[c] = checkpoints[c]
      /\ grown[k] = empty
  BY <1>0, <1>3
<1>5. /\ checkpoints' \in Seq(Manifest)
      /\ DOMAIN checkpoints' = 1 .. k /\ Len(checkpoints') = k
      /\ \A c \in 1 .. k : checkpoints'[c].entry = grown[c].entry
      /\ \A c \in 1 .. k : checkpoints'[c].kept => grown[c].kept
  <2>1. checkpoints' = [c \in 1 .. k |->
          [grown[c] EXCEPT !.kept = (@ /\ c > expired /\ c > Len(grown) - KeptCheckpoints)]]
    BY <1>0, <1>2, <1>4 DEF Pruned
  <2>2. ASSUME NEW c \in 1 .. k
        PROVE  /\ checkpoints'[c] \in Manifest
               /\ checkpoints'[c].entry = grown[c].entry
               /\ checkpoints'[c].kept => grown[c].kept
    <3>1. grown[c] \in Manifest
      BY <1>4, ElementOfSeq
    <3>2. checkpoints'[c] = [grown[c] EXCEPT !.kept = (@ /\ c > expired /\ c > Len(grown) - KeptCheckpoints)]
      BY <2>1
    <3> QED
      BY <3>1, <3>2 DEF Manifest
  <2>3. k \in Nat
    BY <1>3
  <2> HIDE DEF empty, grown
  <2>4. checkpoints' \in [1 .. k -> Manifest]
    BY <2>1, <2>2
  <2>5. checkpoints' \in Seq(Manifest) /\ DOMAIN checkpoints' = 1 .. k
    BY <1>0, <2>3, <2>4, SeqDef
  <2>6. Len(checkpoints') = k
    BY <2>3, <2>5
  <2> QED
    BY <2>2, <2>5, <2>6
<1>6. /\ start' \in Seq([Files -> Contents]) /\ Len(start') = k /\ start'[k] = files
      /\ \A c \in 1 .. Len(checkpoints) : start'[c] = start[c]
  BY <1>0, <1>1, <1>3 DEF CkTypes
<1>7. /\ DOMAIN checkpoints = 1 .. Len(checkpoints) /\ empty.entry = [f \in Files |-> NoEntry]
      /\ \A c \in 1 .. Len(checkpoints) : c \in 1 .. k /\ checkpoints'[c].entry = checkpoints[c].entry
  BY <1>0, <1>3, <1>4, <1>5
<1>8. k = Len(checkpoints) + 1 /\ k \in Nat /\ k \in 1 .. k /\ k \notin undone /\ k \notin DOMAIN checkpoints
  BY <1>0, <1>3, <1>7 DEF CkTypes
<1>9. checkpoints'[k].entry = [f \in Files |-> NoEntry]
  BY <1>4, <1>5, <1>7, <1>8
<1> HIDE DEF empty, grown
<1>10. /\ Captured(k)' = {} /\ \A c \in DOMAIN checkpoints : Captured(c)' = Captured(c)
       /\ \A c \in DOMAIN checkpoints' : c = k \/ c \in DOMAIN checkpoints
       /\ \A c \in DOMAIN checkpoints : c \in DOMAIN checkpoints'
  <2>1. Captured(k)' = {}
    BY <1>9 DEF Captured
  <2>2. \A c \in DOMAIN checkpoints : Captured(c)' = Captured(c)
    BY <1>7 DEF Captured
  <2> QED
    BY <1>3, <1>5, <1>7, <1>8, <2>1, <2>2
<1>11. CkTypes'
  BY <1>1, <1>4, <1>5, <1>6, <1>8 DEF CkTypes
<1>12. Phases'
  BY <1>1, <1>5, <1>8 DEF Phases, CkTypes
<1>13. BlobsThere'
  <2>1. Referenced(checkpoints') \subseteq Referenced(checkpoints) \union {"none"}
    <3> SUFFICES ASSUME NEW c \in DOMAIN checkpoints', NEW f \in Files, checkpoints'[c].kept
                 PROVE  checkpoints'[c].entry[f].before \in Referenced(checkpoints) \union {"none"}
      BY DEF Referenced
    <3>1. CASE c = k
      BY <1>9, <3>1 DEF NoEntry
    <3>2. CASE c # k
      <4>1. c \in DOMAIN checkpoints /\ grown[c] = checkpoints[c] /\ checkpoints[c].kept
        BY <1>4, <1>5, <1>7, <1>10, <3>2
      <4> QED
        BY <1>7, <4>1 DEF Referenced
    <3> QED
      BY <3>1, <3>2
  <2> QED
    BY <1>1, <2>1 DEF BlobsThere
<1>14. ASSUME Orderly' PROVE Stack'
  <2>1. Stack
    BY <1>1, <1>14 DEF Orderly
  <2>2. Active' = Active
    BY <1>1, <1>10 DEF Active
  <2>3. \A c \in Active : c \in DOMAIN checkpoints /\ c \in 1 .. Len(checkpoints)
    BY <1>7 DEF Active
  <2>4. \A c \in DOMAIN checkpoints : \A f \in Files : LeftBy(c, f)' = LeftBy(c, f)
    BY <1>6, <1>7, <1>10 DEF LeftBy, Expected
  <2>5. \A c : Top(c)' => Top(c)
    <3>1. \A c \in DOMAIN checkpoints : Newer(c) \subseteq Newer(c)'
      BY <1>10 DEF Newer
    <3> QED
      BY <1>1, <2>2, <2>3, <3>1 DEF Top
  <2>6. \A c : \A f : ~PutBack(c, f) /\ ~PutBack(c, f)'
    BY <1>1 DEF PutBack
  <2>7. \A c \in Active : \A f \in Captured(c)' :
          checkpoints'[c].entry[f].before = start'[c][f]
    BY <1>6, <1>7, <1>10, <2>1, <2>3 DEF Stack
  <2>8. \A b, c \in Active :
          b < c /\ (\A d \in Active : ~(b < d /\ d < c)) => \A f \in Files : start'[c][f] = LeftBy(b, f)'
    BY <1>6, <2>1, <2>3, <2>4 DEF Stack
  <2>9. \A c : Top(c)' => \A f \in Files \ (call'.targets \ call'.todo) : Standing(c, f)'
    <3> SUFFICES ASSUME NEW c, Top(c)', NEW f \in Files \ (call.targets \ call.todo)
                 PROVE  files'[f] = LeftBy(c, f)'
      BY <1>1, <2>6 DEF Standing
    <3>1. Standing(c, f)
      BY <2>1, <2>5 DEF Stack
    <3>2. c \in DOMAIN checkpoints
      BY <2>3, <2>5 DEF Top
    <3> QED
      BY <1>1, <2>4, <2>6, <3>1, <3>2 DEF Standing
  <2> QED
    BY <1>1, <1>5, <1>6, <2>1, <2>2, <2>7, <2>8, <2>9 DEF Stack
<1> QED
  BY <1>11, <1>12, <1>13, <1>14

\* A step that leaves the manifests, the blobs and what is undone alone needs only be looked at for
\* the files (the tools, other programs, and restore up to its return).
LEMMA ManifestsStay ==
  ASSUME CkInv, UNCHANGED <<checkpoints, blobs, start, undone>>, CkTypes', Phases',
         Orderly' =>
           /\ Orderly /\ threads' = {}
           /\ turn' /\ Captured(Len(checkpoints)) = {} => turn /\ files' = files
           /\ \A c : Top(c) => \A f \in Files \ (call'.targets \ call'.todo) : Standing(c, f)'
  PROVE  CkInv'
<1> USE DEF CkInv
<1>1. BlobsThere'
  BY DEF BlobsThere, Referenced
<1>2. ASSUME Orderly' PROVE Stack'
  <2>1. Stack
    BY <1>2
  <2>2. turn' /\ Captured(Len(checkpoints))' = {} => files' = start[Len(checkpoints)]
    BY <1>2, <2>1, SameStack DEF Stack
  <2>3. \A c \in Active' : \A f \in Captured(c)' : checkpoints'[c].entry[f].before = start'[c][f]
    BY <2>1, SameStack DEF Stack
  <2>4. \A b, c \in Active' :
          b < c /\ (\A d \in Active' : ~(b < d /\ d < c)) => \A f \in Files : start'[c][f] = LeftBy(b, f)'
    <3>1. ASSUME NEW b \in Active', NEW c \in Active', b < c, \A d \in Active' : ~(b < d /\ d < c),
                 NEW f \in Files
          PROVE  start'[c][f] = LeftBy(b, f)'
      <4>1. Active' = Active /\ LeftBy(b, f)' = LeftBy(b, f)
        BY SameStack
      <4>2. b \in Active /\ c \in Active /\ \A d \in Active : ~(b < d /\ d < c)
        BY <3>1, <4>1
      <4>3. start[c][f] = LeftBy(b, f)
        BY <2>1, <3>1, <4>2 DEF Stack
      <4> QED
        BY <4>1, <4>3
    <3> QED
      BY <3>1
  <2>5. \A c : Top(c)' => \A f \in Files \ (call'.targets \ call'.todo) : Standing(c, f)'
    BY <1>2, SameStack
  <2> QED
    BY <1>2, <2>2, <2>3, <2>4, <2>5 DEF Stack
<1> QED
  BY <1>1, <1>2

\* The turn ends, or a call comes to nothing before the tool starts.
LEMMA EndKeeps ==
  ASSUME CkInv, EndTurn \/ StartFails
  PROVE  CkInv'
<1> USE DEF CkInv
<1>1. /\ UNCHANGED <<files, checkpoints, blobs, threads, undo, start, undone, quiet>>
      /\ turn' \in BOOLEAN /\ (turn' => turn)
      /\ call.targets \ call.todo = {}
      /\ call' = NoCall
  <2>1. CASE EndTurn
    BY <2>1 DEF EndTurn, ck_store, ck_history, NoCall
  <2>2. CASE StartFails
    BY <2>2 DEF StartFails, ck_store, ck_history, CkTypes
  <2> QED
    BY <2>1, <2>2
<1>2. CkTypes'
  BY <1>1 DEF CkTypes, NoCall
<1>3. Phases'
  BY <1>1 DEF Phases, Captured
<1>4. Orderly' => Orderly
  BY <1>1 DEF Orderly, Newer, Captured
<1>5. ASSUME Orderly PROVE \A c : Top(c) => \A f \in Files : Standing(c, f)'
  <2>1. \A c : Top(c) => \A f \in Files : Standing(c, f)
    BY <1>1, <1>5 DEF Stack
  <2> QED
    BY <1>1, <2>1, SameStack DEF Standing, PutBack
<1>6. Orderly => threads' = {}
  BY <1>1 DEF Stack
<1> QED
  BY <1>1, <1>2, <1>3, <1>4, <1>5, <1>6, ManifestsStay

\* The tool writes or gives up: only files of the call are in the air (ToolExecutor).
LEMMA ToolKeeps ==
  ASSUME CkInv, ToolFails \/ \E f \in Files : ToolWrites(f)
  PROVE  CkInv'
<1> USE DEF CkInv
<1>1. /\ UNCHANGED <<checkpoints, blobs, turn, threads, undo, start, undone, quiet>>
      /\ call.pc = "running" /\ turn /\ undo = NoUndo /\ call # NoCall
      /\ call' = [call EXCEPT !.todo = call'.todo] /\ call'.todo \subseteq call.todo
  BY DEF ToolFails, ToolWrites, ck_store, ck_history, NoCall, Phases, CkTypes
<1>2. /\ call'.targets = call.targets /\ call'.pc = "running" /\ call'.text = call.text
      /\ call.todo \subseteq call.targets /\ call.targets \subseteq Files
      /\ call.targets \subseteq Captured(Len(checkpoints))
      /\ \A f \in call.targets : call.text[f] \in Contents
  BY <1>1 DEF CkTypes, Phases
<1>3. /\ files' \in [Files -> Contents]
      /\ \A f \in Files \ (call'.targets \ call'.todo) : files'[f] = files[f]
      /\ files' # files => call.todo # {}
  <2>1. CASE ToolFails
    BY <2>1 DEF ToolFails, CkTypes
  <2>2. ASSUME NEW f \in Files, ToolWrites(f) PROVE <1>3
    BY <1>2, <2>2 DEF ToolWrites, CkTypes
  <2> QED
    BY <2>1, <2>2
<1>4. CkTypes'
  BY <1>1, <1>2, <1>3 DEF CkTypes
<1>5. Phases'
  BY <1>1, <1>2, SameStack DEF Phases, NoCall
<1>6. Orderly' => Orderly
  BY <1>1 DEF Orderly, Newer, Captured
<1>7. ASSUME Orderly
      PROVE  \A c : Top(c) => \A f \in Files \ (call'.targets \ call'.todo) : Standing(c, f)'
  <2>1. \A c : Top(c) => \A f \in Files \ (call.targets \ call.todo) : Standing(c, f)
    BY <1>7 DEF Stack
  <2>2. Files \ (call'.targets \ call'.todo) \subseteq Files \ (call.targets \ call.todo)
    BY <1>1, <1>2
  <2> QED
    BY <1>1, <1>3, <2>1, <2>2, SameStack DEF Standing, PutBack
<1>8. Captured(Len(checkpoints)) = {} => files' = files
  BY <1>2, <1>3
<1>9. Orderly => threads' = {}
  BY <1>1 DEF Stack
<1> QED
  BY <1>1, <1>4, <1>5, <1>6, <1>7, <1>8, <1>9, ManifestsStay

\* After a cancellation, a write of a thread or of another program, or the end of the process in a
\* call or a restore nothing is claimed of the files.
LEMMA DisorderKeeps ==
  ASSUME CkInv, CancelCall \/ CkCrash \/ (\E w \in threads : ThreadWrites(w))
                  \/ \E f \in Files, text \in Contents : ForeignWrite(f, text)
  PROVE  CkInv'
<1> USE DEF CkInv
<1>1. CASE CancelCall
  <2>1. UNCHANGED <<files, checkpoints, blobs, start, undone, undo>> /\ call' = NoCall /\ turn' = FALSE /\ quiet' = FALSE
    BY <1>1 DEF CancelCall, ck_store
  <2>2. call # NoCall
    BY <1>1 DEF CancelCall, NoCall
  <2>3. \A w \in threads' : w.file \in Files /\ w.text \in Contents
    <3>1. \A f \in call.todo : f \in Files /\ call.text[f] \in Contents
      BY <2>2 DEF Phases, CkTypes
    <3> QED
      BY <1>1, <3>1 DEF CancelCall, CkTypes
  <2>4. CkTypes'
    BY <2>1, <2>3 DEF CkTypes, NoCall
  <2>5. Phases' /\ ~Orderly'
    BY <2>1, SameStack DEF Phases, Orderly
  <2> QED
    BY <2>1, <2>4, <2>5, ManifestsStay
<1>2. CASE CkCrash
  <2>1. /\ UNCHANGED <<files, checkpoints, blobs, start, undone>> /\ call' = NoCall /\ turn' = FALSE
        /\ threads' = {} /\ undo' = NoUndo /\ quiet' = (quiet /\ call = NoCall /\ undo = NoUndo)
    BY <1>2 DEF CkCrash, ck_store
  <2>2. CkTypes' /\ Phases'
    BY <2>1 DEF CkTypes, Phases, NoCall, NoUndo
  <2>3. ASSUME Orderly'
        PROVE  /\ Orderly
               /\ \A c : Top(c) => \A f \in Files \ (call'.targets \ call'.todo) : Standing(c, f)'
    <3>1. quiet /\ call = NoCall /\ undo = NoUndo
      BY <2>1, <2>3 DEF Orderly
    <3>2. Orderly
      BY <3>1 DEF Orderly
    <3>3. \A c : Top(c) => \A f \in Files \ (call.targets \ call.todo) : Standing(c, f)
      BY <3>2 DEF Stack
    <3>4. call' = call /\ undo' = undo
      BY <2>1, <3>1
    <3> QED
      BY <2>1, <3>2, <3>3, <3>4, SameStack DEF Standing, PutBack
  <2> QED
    BY <2>1, <2>2, <2>3, ManifestsStay
<1>3. ASSUME NEW w \in threads, ThreadWrites(w) PROVE CkInv'
  <2>1. /\ UNCHANGED <<checkpoints, blobs, turn, call, undo, start, undone, quiet>>
        /\ files' = [files EXCEPT ![w.file] = w.text] /\ threads' = threads \ {w}
    BY <1>3 DEF ThreadWrites, ck_store, ck_history
  <2>2. CkTypes'
    BY <1>3, <2>1 DEF CkTypes
  <2>3. Phases'
    BY <2>1, SameStack DEF Phases
  <2>4. ~Orderly'
    <3>1. Orderly' => Orderly
      BY <2>1, SameStack DEF Orderly
    <3> QED
      BY <1>3, <3>1 DEF Stack
  <2> QED
    BY <2>1, <2>2, <2>3, <2>4, ManifestsStay
<1>4. ASSUME NEW f \in Files, NEW text \in Contents, ForeignWrite(f, text) PROVE CkInv'
  <2>1. /\ UNCHANGED <<checkpoints, blobs, turn, call, threads, undo, start, undone>> /\ quiet' = FALSE
        /\ files' = [files EXCEPT ![f] = text]
    BY <1>4 DEF ForeignWrite, ck_store
  <2>2. CkTypes'
    BY <2>1 DEF CkTypes
  <2>3. Phases' /\ ~Orderly'
    BY <2>1, SameStack DEF Phases, Orderly
  <2> QED
    BY <2>1, <2>2, <2>3, ManifestsStay
<1> QED
  BY <1>1, <1>2, <1>3, <1>4

\* A restore begins, or puts a file back: of the newest checkpoint each file is what it was left or
\* what it was in the beginning (CheckpointStore.restore).
LEMMA RestoreKeeps ==
  ASSUME CkInv, (\E c \in DOMAIN checkpoints : Restore(c)) \/ \E f \in Files : RestoreFile(f)
  PROVE  CkInv'
<1> USE DEF CkInv
<1>1. ASSUME NEW c \in DOMAIN checkpoints, Restore(c) PROVE CkInv'
  <2>1. /\ UNCHANGED <<files, checkpoints, blobs, turn, call, threads, start, undone, quiet>>
        /\ ~turn /\ undo = NoUndo /\ undo' = [pc |-> "writing", checkpoint |-> c, todo |-> Captured(c)]
    BY <1>1 DEF Restore, ck_store, ck_history
  <2>2. Captured(c) \subseteq Files /\ c \in Nat
    BY DEF Captured, CkTypes
  <2>3. CkTypes'
    BY <2>1, <2>2 DEF CkTypes
  <2>4. undo'.pc = "writing" /\ undo'.checkpoint = c /\ undo'.todo = Captured(c) /\ undo' # NoUndo
    BY <2>1 DEF NoUndo
  <2>5. Phases'
    BY <2>1, <2>4, SameStack DEF Phases
  <2>6. ASSUME Orderly'
        PROVE  /\ Orderly
               /\ \A d : Top(d) => \A f \in Files \ (call'.targets \ call'.todo) : Standing(d, f)'
    <3>1. Orderly
      BY <2>1, <2>6 DEF Orderly
    <3>2. \A d : Top(d) => \A f \in Files \ (call'.targets \ call'.todo) : files[f] = LeftBy(d, f)
      BY <2>1, <3>1 DEF Stack, Standing, PutBack
    <3>3. \A d, f : PutBack(d, f)' => d = c /\ f \notin Captured(c)
      BY <2>4 DEF PutBack
    <3> QED
      BY <2>1, <3>1, <3>2, <3>3, SameStack DEF Standing, LeftBy
  <2>7. Orderly => threads' = {}
    BY <2>1 DEF Stack
  <2> QED
    BY <2>1, <2>3, <2>5, <2>6, <2>7, ManifestsStay
<1>2. ASSUME NEW f \in Files, RestoreFile(f) PROVE CkInv'
  <2> DEFINE c == undo.checkpoint
  <2>1. /\ UNCHANGED <<checkpoints, blobs, turn, call, threads, start, undone, quiet>>
        /\ undo.pc = "writing" /\ f \in undo.todo /\ undo # NoUndo
        /\ files' = [files EXCEPT ![f] = checkpoints[c].entry[f].before]
        /\ undo' = [undo EXCEPT !.todo = @ \ {f}]
    BY <1>2 DEF RestoreFile, ck_store, ck_history, NoUndo
  <2>2. c \in DOMAIN checkpoints /\ undo.todo \subseteq Captured(c) /\ f \in Captured(c) /\ ~turn /\ call = NoCall
    BY <2>1 DEF Phases
  <2>3. checkpoints[c].entry[f].before \in Contents
    BY <2>2, CapturedEntry
  <2>4. /\ undo'.pc = "writing" /\ undo'.checkpoint = c /\ undo'.todo = undo.todo \ {f} /\ undo' # NoUndo
        /\ undo' \in [pc : {"idle", "writing"}, checkpoint : Nat, todo : SUBSET Files]
    BY <2>1 DEF NoUndo, CkTypes
  <2>5. files' \in [Files -> Contents] /\ files'[f] = checkpoints[c].entry[f].before
        /\ \A g \in Files : g # f => files'[g] = files[g]
    BY <2>1, <2>3 DEF CkTypes
  <2>6. CkTypes'
    BY <2>1, <2>4, <2>5 DEF CkTypes
  <2>7. Phases'
    BY <2>1, <2>2, <2>4, SameStack DEF Phases
  <2>8. ASSUME Orderly'
        PROVE  /\ Orderly
               /\ \A d : Top(d) => \A g \in Files \ (call'.targets \ call'.todo) : Standing(d, g)'
    <3>1. Orderly
      BY <2>1, <2>4, <2>8, SameStack DEF Orderly
    <3>2. Top(c)
      BY <2>1, <2>2, <3>1 DEF Orderly, Top, Active
    <3> SUFFICES ASSUME NEW d, Top(d), NEW g \in Files
                 PROVE  Standing(d, g)'
      BY <3>1
    <3>3. d = c
      BY <3>2, OneTop
    <3>4. Standing(c, g)
      BY <2>2, <3>1, <3>2 DEF Stack, NoCall
    <3>5. CASE g = f
      <4>1. checkpoints[c].entry[f].before = start[c][f]
        BY <2>2, <3>1, <3>2 DEF Stack, Top
      <4>2. PutBack(c, f)' \/ c # c'
        BY <2>4 DEF PutBack
      <4> QED
        BY <2>1, <2>4, <2>5, <3>3, <3>5, <4>1 DEF Standing, PutBack
    <3>6. CASE g # f
      BY <2>1, <2>4, <2>5, <3>3, <3>4, <3>6, SameStack DEF Standing, PutBack
    <3> QED
      BY <3>5, <3>6
  <2>9. Orderly => threads' = {}
    BY <2>1 DEF Stack
  <2> QED
    BY <2>1, <2>2, <2>6, <2>7, <2>8, <2>9, ManifestsStay
<1> QED
  BY <1>1, <1>2

\* A path a call is about to write is captured, the first time in the turn (capture_before).
LEMMA CaptureStands ==
  ASSUME CkInv, NEW targets \in (SUBSET Files) \ {{}}, NEW text \in [targets -> Contents], Capture(targets, text)
  PROVE  CkInv'
<1> USE DEF CkInv
<1>0. PICK k \in Nat : k = Len(checkpoints)
  BY DEF CkTypes
<1>1. /\ turn /\ call = NoCall /\ undo = NoUndo /\ k \notin undone /\ k \in DOMAIN checkpoints
      /\ targets # {} /\ targets \subseteq Files
      /\ checkpoints' = [checkpoints EXCEPT ![k].entry = Before(k, targets)]
      /\ call' = [pc |-> "running", targets |-> targets, todo |-> targets, text |-> text]
      /\ UNCHANGED <<files, turn, threads, undo, start, undone, quiet>>
  <2>1. turn /\ call = NoCall
    BY DEF Capture
  <2>2. undo = NoUndo /\ k \notin undone /\ checkpoints # <<>>
    BY <1>0, <2>1 DEF Phases
  <2>3. k \in DOMAIN checkpoints
    BY <1>0, <2>2 DEF CkTypes
  <2> QED
    BY <1>0, <2>1, <2>2, <2>3 DEF Capture
<1>2. Before(k, targets) \in [Files -> Entry]
  <2> SUFFICES ASSUME NEW f \in Files
               PROVE  (IF f \in targets \ Captured(k) THEN [NoEntry EXCEPT !.before = files[f]]
                       ELSE checkpoints[k].entry[f]) \in Entry
    BY DEF Before
  <2>1. files[f] \in Contents
    BY DEF CkTypes
  <2>2. [NoEntry EXCEPT !.before = files[f]] \in Entry
    BY <2>1 DEF NoEntry, Entry
  <2>3. checkpoints[k].entry[f] \in Entry
    BY <1>1, CapturedEntry DEF Entry
  <2> QED
    BY <2>2, <2>3
<1>3. /\ checkpoints' \in Seq(Manifest) /\ DOMAIN checkpoints' = DOMAIN checkpoints /\ Len(checkpoints') = k
      /\ checkpoints'[k].entry = Before(k, targets)
      /\ \A c \in DOMAIN checkpoints : c # k => checkpoints'[c] = checkpoints[c]
      /\ \A c \in DOMAIN checkpoints : checkpoints'[c].kept = checkpoints[c].kept
  <2>0. checkpoints[k] \in Manifest
    BY <1>1 DEF CkTypes
  <2>1. checkpoints[k] \in Manifest /\ [checkpoints[k] EXCEPT !.entry = Before(k, targets)] \in Manifest
    BY <1>2, <2>0 DEF Manifest
  <2>2. checkpoints' = [checkpoints EXCEPT ![k] = [checkpoints[k] EXCEPT !.entry = Before(k, targets)]]
    BY <1>1
  <2> QED
    BY <1>0, <1>1, <2>1, <2>2 DEF CkTypes, Manifest
<1>4. /\ \A f \in Files : f \in targets /\ f \notin Captured(k) =>
           checkpoints'[k].entry[f].before = files[f] /\ checkpoints'[k].entry[f].after = "unrecorded"
      /\ \A f \in Files : f \notin targets \/ f \in Captured(k) =>
           checkpoints'[k].entry[f] = checkpoints[k].entry[f]
  BY <1>3 DEF Before, NoEntry
<1>5. /\ Captured(k)' = Captured(k) \union targets
      /\ \A c \in DOMAIN checkpoints : c # k => Captured(c)' = Captured(c)
  <2>1. \A f \in Files : files[f] # "none" /\ NoEntry.before = "none"
    BY CkAssumption DEF CkTypes, Contents, Absent, NoEntry
  <2>2. ASSUME NEW f \in Files
        PROVE  checkpoints'[k].entry[f] # NoEntry <=> checkpoints[k].entry[f] # NoEntry \/ f \in targets
    BY <1>4, <2>1, <2>2 DEF Captured
  <2>3. Captured(k)' = Captured(k) \union targets
    BY <2>2 DEF Captured
  <2>4. \A c \in DOMAIN checkpoints : c # k => Captured(c)' = Captured(c)
    BY <1>3 DEF Captured
  <2> QED
    BY <2>3, <2>4
<1>6. CkTypes'
  BY <1>0, <1>1, <1>3 DEF CkTypes
<1>7. Phases'
  BY <1>0, <1>1, <1>3, <1>5 DEF Phases, CkTypes
<1>8. BlobsThere'
  <2> SUFFICES ASSUME NEW c \in DOMAIN checkpoints, checkpoints[c].kept, NEW f \in Files
               PROVE  checkpoints'[c].entry[f].before \in blobs' \union {Absent, "none"}
    BY <1>3 DEF BlobsThere, Referenced
  <2>1. blobs' = blobs \union ({files[g] : g \in targets \ Captured(k)} \ {Absent})
    BY <1>0 DEF Capture
  <2>2. CASE c = k /\ f \in targets \ Captured(k)
    <3>1. checkpoints'[c].entry[f].before = files[f]
      BY <1>4, <2>2
    <3> QED
      BY <2>1, <2>2, <3>1
  <2>3. CASE ~(c = k /\ f \in targets \ Captured(k))
    <3>1. checkpoints'[c].entry[f] = checkpoints[c].entry[f]
      BY <1>3, <1>4, <2>3
    <3>2. checkpoints[c].entry[f].before \in blobs \union {Absent, "none"}
      BY DEF BlobsThere, Referenced
    <3> QED
      BY <2>1, <3>1, <3>2
  <2> QED
    BY <2>2, <2>3
<1>9. ASSUME Orderly' PROVE Stack'
  <2>1. Stack /\ Orderly
    BY <1>1, <1>9 DEF Orderly
  <2>2. \A c : c \in DOMAIN checkpoints => c \in Nat /\ c <= k
    BY <1>0 DEF CkTypes
  <2>3. Active' = Active \union {k}
    <3>1. Captured(k)' # {}
      BY <1>1, <1>5
    <3>2. \A c \in DOMAIN checkpoints : c \in Active' <=> c \in Active \/ c = k
      BY <1>1, <1>3, <1>5, <3>1 DEF Active
    <3> QED
      BY <1>1, <1>3, <3>2 DEF Active
  <2>4. \A c \in DOMAIN checkpoints : c # k => \A f : LeftBy(c, f)' = LeftBy(c, f)
    BY <1>1, <1>3, <1>5 DEF LeftBy, Expected
  <2>5. \A c, f : ~PutBack(c, f) /\ ~PutBack(c, f)'
    BY <1>1 DEF PutBack
  <2>6. ASSUME NEW c, Top(c) PROVE \A f \in Files : files[f] = LeftBy(c, f)
    BY <1>1, <2>1, <2>5, <2>6 DEF Stack, Standing, NoCall
  <2>7. \A f \in Files \ Captured(k) : files[f] = start[k][f]
    <3>1. CASE Captured(k) = {}
      BY <1>0, <1>1, <2>1, <3>1 DEF Stack
    <3>2. CASE Captured(k) # {}
      <4>1. Top(k)
        BY <1>1, <2>2, <3>2 DEF Top, Active, Newer
      <4> QED
        BY <2>6, <4>1 DEF LeftBy
    <3> QED
      BY <3>1, <3>2
  <2>8. ASSUME NEW c \in Active', NEW f \in Captured(c)'
        PROVE  checkpoints'[c].entry[f].before = start'[c][f]
    <3>1. CASE c # k
      BY <1>1, <1>3, <1>5, <2>1, <2>3, <2>8, <3>1 DEF Stack, Active
    <3>2. CASE c = k /\ f \in Captured(k)
      <4>1. k \in Active /\ f \in Files
        BY <1>1, <3>2 DEF Active, Captured
      <4> QED
        BY <1>1, <1>4, <2>1, <3>2, <4>1 DEF Stack
    <3>3. CASE c = k /\ f \in targets \ Captured(k)
      <4>1. checkpoints'[k].entry[f].before = files[f]
        BY <1>4, <3>3
      <4>2. files[f] = start[k][f]
        BY <1>1, <2>7, <3>3
      <4> QED
        BY <1>1, <3>3, <4>1, <4>2
    <3> QED
      BY <1>5, <2>8, <3>1, <3>2, <3>3
  <2>9. ASSUME NEW b \in Active', NEW c \in Active', b < c, \A d \in Active' : ~(b < d /\ d < c), NEW f \in Files
        PROVE  start'[c][f] = LeftBy(b, f)'
    <3>1. b \in Active /\ b # k /\ b \in DOMAIN checkpoints /\ b < k
      BY <1>1, <2>2, <2>3, <2>9 DEF Active
    <3>2. CASE c \in Active
      BY <1>1, <2>1, <2>3, <2>4, <2>9, <3>1, <3>2 DEF Stack
    <3>3. CASE c \notin Active
      <4>1. c = k /\ Captured(k) = {}
        BY <1>1, <2>3, <3>3 DEF Active
      <4>2. Top(b)
        <5>1. ASSUME NEW d \in DOMAIN checkpoints, d > b, Captured(d) # {}, d \notin undone
              PROVE  FALSE
          BY <2>2, <2>3, <2>9, <4>1, <5>1 DEF Active
        <5> QED
          BY <3>1, <5>1 DEF Top, Newer
      <4>3. files[f] = LeftBy(b, f)
        BY <2>6, <4>2
      <4> QED
        BY <1>1, <2>4, <2>7, <3>1, <4>1, <4>3
    <3> QED
      BY <3>2, <3>3
  <2>10. ASSUME NEW c, Top(c)', NEW f \in Files PROVE Standing(c, f)'
    <3>1. c = k
      <4>1. c \in DOMAIN checkpoints /\ c \notin undone /\ Newer(c)' \subseteq undone
        BY <1>1, <1>3, <2>10 DEF Top, Active
      <4>2. c < k => k \in Newer(c)'
        <5>1. Captured(k)' # {}
          BY <1>1, <1>5
        <5> QED
          BY <1>1, <1>3, <2>2, <4>1, <5>1 DEF Newer
      <4> QED
        BY <1>1, <2>2, <4>1, <4>2
    <3>2. files[f] = LeftBy(k, f)'
      <4>1. CASE f \in targets \ Captured(k)
        <5>1. f \in Captured(k)'
          BY <1>5, <4>1
        <5>2. checkpoints'[k].entry[f].after = "unrecorded" /\ checkpoints'[k].entry[f].before = files[f]
          BY <1>4, <4>1
        <5> QED
          BY <5>1, <5>2 DEF LeftBy, Expected
      <4>2. CASE f \in Captured(k)
        <5>1. Top(k)
          BY <1>1, <2>2, <4>2 DEF Top, Active, Newer
        <5>2. files[f] = Expected(checkpoints[k].entry[f])
          BY <2>6, <4>2, <5>1 DEF LeftBy
        <5> QED
          BY <1>4, <1>5, <4>2, <5>2 DEF LeftBy, Expected
      <4>3. CASE f \notin Captured(k) \union targets
        BY <1>1, <1>5, <2>7, <4>3 DEF LeftBy
      <4> QED
        BY <4>1, <4>2, <4>3
    <3> QED
      BY <1>1, <2>5, <3>1, <3>2 DEF Standing
  <2>11. threads' = {}
    BY <1>1, <2>1 DEF Stack
  <2>12. Captured(k)' # {} /\ Len(checkpoints') = k
    BY <1>1, <1>3, <1>5
  <2> QED
    BY <2>8, <2>9, <2>10, <2>11, <2>12 DEF Stack
<1> QED
  BY <1>6, <1>7, <1>8, <1>9

\* What a call left is recorded: its files are in the air no more (CheckpointStore.record_after).
LEMMA RecordKeeps ==
  ASSUME CkInv, RecordAfter
  PROVE  CkInv'
<1> USE DEF CkInv
<1>0. PICK k \in Nat : k = Len(checkpoints)
  BY DEF CkTypes
<1>1. /\ turn /\ undo = NoUndo /\ k \notin undone /\ k \in DOMAIN checkpoints /\ call' = NoCall
      /\ call.targets \subseteq Captured(k) /\ call.targets \subseteq Files /\ call.todo = {}
      /\ checkpoints' = [checkpoints EXCEPT ![k].entry = After(k, call.targets)]
      /\ UNCHANGED <<files, blobs, turn, threads, undo, start, undone, quiet>>
  <2>1. call # NoCall
    BY DEF RecordAfter, NoCall
  <2>2. turn /\ undo = NoUndo /\ k \notin undone /\ checkpoints # <<>>
    BY <1>0, <2>1 DEF Phases
  <2>3. k \in DOMAIN checkpoints
    BY <1>0, <2>2 DEF CkTypes
  <2>4. call.targets \subseteq Captured(k) /\ call.targets \subseteq Files
    BY <1>0, <2>1 DEF Phases, CkTypes
  <2> QED
    BY <1>0, <2>2, <2>3, <2>4 DEF RecordAfter, ck_history
<1>2. /\ \A f \in Files : files[f] \in Contents /\ files[f] # "unrecorded"
      /\ \A f \in call.targets : checkpoints[k].entry[f].before \in Contents /\
           checkpoints[k].entry[f] \in [before : Contents, after : Contents \union {"unrecorded"}]
  BY <1>1, CkAssumption, CapturedEntry DEF CkTypes, Contents, Absent
<1>3. After(k, call.targets) \in [Files -> Entry]
  <2> SUFFICES ASSUME NEW f \in Files
               PROVE  (IF f \in call.targets THEN [checkpoints[k].entry[f] EXCEPT !.after = files[f]]
                       ELSE checkpoints[k].entry[f]) \in Entry
    BY DEF After
  <2>1. checkpoints[k].entry[f] \in Entry
    BY <1>1, CapturedEntry DEF Entry
  <2>2. f \in call.targets => [checkpoints[k].entry[f] EXCEPT !.after = files[f]] \in Entry
    BY <1>2 DEF Entry
  <2> QED
    BY <2>1, <2>2
<1>4. /\ checkpoints' \in Seq(Manifest) /\ DOMAIN checkpoints' = DOMAIN checkpoints /\ Len(checkpoints') = k
      /\ checkpoints'[k].entry = After(k, call.targets)
      /\ \A c \in DOMAIN checkpoints : c # k => checkpoints'[c] = checkpoints[c]
      /\ \A c \in DOMAIN checkpoints : checkpoints'[c].kept = checkpoints[c].kept
  <2>0. checkpoints[k] \in Manifest
    BY <1>1 DEF CkTypes
  <2>1. checkpoints[k] \in Manifest /\ [checkpoints[k] EXCEPT !.entry = After(k, call.targets)] \in Manifest
    BY <1>3, <2>0 DEF Manifest
  <2>2. checkpoints' = [checkpoints EXCEPT ![k] = [checkpoints[k] EXCEPT !.entry = After(k, call.targets)]]
    BY <1>1
  <2> QED
    BY <1>0, <1>1, <2>1, <2>2 DEF CkTypes, Manifest
<1>5. /\ \A f \in call.targets : /\ checkpoints'[k].entry[f].before = checkpoints[k].entry[f].before
                                 /\ checkpoints'[k].entry[f].after = files[f]
      /\ \A f \in Files : f \notin call.targets => checkpoints'[k].entry[f] = checkpoints[k].entry[f]
  BY <1>1, <1>2, <1>4 DEF After
<1>6. \A c \in DOMAIN checkpoints : /\ Captured(c)' = Captured(c)
                                    /\ \A f \in Files : checkpoints'[c].entry[f].before = checkpoints[c].entry[f].before
  <2>1. \A f \in call.targets : checkpoints'[k].entry[f] # NoEntry
    BY <1>2, <1>5, CkAssumption DEF NoEntry, Contents, Absent
  <2>2. Captured(k)' = Captured(k)
    <3>1. ASSUME NEW f \in Files
          PROVE  checkpoints'[k].entry[f] # NoEntry <=> checkpoints[k].entry[f] # NoEntry
      BY <1>1, <1>5, <2>1, <3>1 DEF Captured
    <3> QED
      BY <3>1 DEF Captured
  <2>3. \A c \in DOMAIN checkpoints : c # k => Captured(c)' = Captured(c)
    BY <1>4 DEF Captured
  <2> QED
    BY <1>1, <1>4, <1>5, <2>2, <2>3
<1>7. CkTypes'
  BY <1>0, <1>1, <1>4 DEF CkTypes, NoCall
<1>8. Phases'
  BY <1>0, <1>1, <1>4 DEF Phases, CkTypes
<1>9. BlobsThere'
  <2>1. Referenced(checkpoints') = Referenced(checkpoints)
    BY <1>4, <1>6 DEF Referenced
  <2> QED
    BY <1>1, <2>1 DEF BlobsThere
<1>10. ASSUME Orderly' PROVE Stack'
  <2>1. Stack /\ Orderly
    BY <1>1, <1>10 DEF Orderly
  <2>2. \A c : c \in DOMAIN checkpoints => c \in Nat /\ c <= k
    BY <1>0 DEF CkTypes
  <2>3. Active' = Active /\ \A c : Top(c)' <=> Top(c)
    <3>1. Active' = Active
      BY <1>1, <1>4, <1>6 DEF Active
    <3>2. \A c : Newer(c)' = Newer(c)
      BY <1>4, <1>6 DEF Newer
    <3> QED
      BY <1>1, <3>1, <3>2 DEF Top
  <2>4. \A c \in DOMAIN checkpoints : c # k => \A f : LeftBy(c, f)' = LeftBy(c, f)
    BY <1>1, <1>4, <1>6 DEF LeftBy, Expected
  <2>5. \A c, f : ~PutBack(c, f) /\ ~PutBack(c, f)'
    BY <1>1 DEF PutBack
  <2>6. ASSUME NEW c \in Active', NEW f \in Captured(c)'
        PROVE  checkpoints'[c].entry[f].before = start'[c][f]
    <3>1. c \in DOMAIN checkpoints /\ f \in Captured(c) /\ f \in Files /\ c \in Active
      BY <1>6, <2>3, <2>6 DEF Active, Captured
    <3> QED
      BY <1>1, <1>6, <2>1, <3>1 DEF Stack
  <2>7. ASSUME NEW b \in Active', NEW c \in Active', b < c, \A d \in Active' : ~(b < d /\ d < c), NEW f \in Files
        PROVE  start'[c][f] = LeftBy(b, f)'
    <3>1. b \in DOMAIN checkpoints /\ b # k
      BY <2>2, <2>3, <2>7 DEF Active
    <3> QED
      BY <1>1, <2>1, <2>3, <2>4, <2>7, <3>1 DEF Stack
  <2>8. ASSUME NEW c, Top(c)', NEW f \in Files PROVE Standing(c, f)'
    <3>1. Top(c) /\ c \in DOMAIN checkpoints
      BY <2>3, <2>8 DEF Top, Active
    <3>2. f \notin call.targets => files[f] = LeftBy(c, f)
      BY <1>1, <2>1, <2>5, <3>1 DEF Stack, Standing
    <3>3. f \in call.targets => c = k
      <4>1. ASSUME f \in call.targets, c # k PROVE FALSE
        <5>1. k \in Newer(c)
          BY <1>1, <2>2, <3>1, <4>1 DEF Newer
        <5> QED
          BY <1>1, <3>1, <5>1 DEF Top
      <4> QED
        BY <4>1
    <3>4. CASE f \in call.targets
      <4>1. f \in Captured(k)' /\ checkpoints'[k].entry[f].after = files[f] /\ files[f] # "unrecorded"
        BY <1>1, <1>2, <1>5, <1>6, <3>4
      <4> QED
        BY <1>1, <2>5, <3>3, <3>4, <4>1 DEF Standing, LeftBy, Expected
    <3>5. CASE f \notin call.targets
      <4>1. LeftBy(c, f)' = LeftBy(c, f)
        BY <1>1, <1>4, <1>5, <1>6, <3>1, <3>5 DEF LeftBy, Expected
      <4> QED
        BY <1>1, <2>5, <3>2, <3>5, <4>1 DEF Standing
    <3> QED
      BY <3>4, <3>5
  <2>9. threads' = {} /\ (Captured(Len(checkpoints))' = {} => Captured(k) = {})
    BY <1>0, <1>1, <1>4, <1>6, <2>1 DEF Stack
  <2>10. turn' /\ Captured(Len(checkpoints))' = {} => files' = start'[Len(checkpoints')]
    BY <1>0, <1>1, <1>4, <2>1, <2>9 DEF Stack
  <2> QED
    BY <2>6, <2>7, <2>8, <2>9, <2>10 DEF Stack
<1> QED
  BY <1>7, <1>8, <1>9, <1>10

\* The newest checkpoint is undone: the workspace is that of the beginning of its turn, and so what
\* the one before it left (CheckpointStore.restore).
LEMMA ReturnKeeps ==
  ASSUME CkInv, RestoreReturns
  PROVE  /\ CkInv'
         /\ Orderly' /\ Captured(undo.checkpoint) # {} => files = start[undo.checkpoint]
<1> USE DEF CkInv
<1>0. PICK c : c = undo.checkpoint
  OBVIOUS
<1>1. /\ undo.pc = "writing" /\ undo.todo = {} /\ undo # NoUndo /\ undo' = NoUndo /\ ~turn /\ call = NoCall
      /\ c \in DOMAIN checkpoints /\ undone' = undone \union {c}
      /\ quiet' = (quiet /\ Newer(c) \subseteq undone /\ c \notin undone)
      /\ UNCHANGED <<files, checkpoints, blobs, turn, call, threads, start>>
  <2>1. undo # NoUndo /\ undo.pc = "writing"
    BY DEF RestoreReturns, NoUndo
  <2>2. c \in DOMAIN checkpoints /\ ~turn /\ call = NoCall
    BY <1>0, <2>1 DEF Phases
  <2> QED
    BY <1>0, <2>1, <2>2 DEF RestoreReturns, ck_store
<1>2. CkTypes'
  BY <1>1 DEF CkTypes, NoUndo
<1>3. Phases'
  BY <1>1 DEF Phases
<1>4. BlobsThere'
  BY <1>1 DEF BlobsThere, Referenced
<1>5. Orderly' => Orderly /\ Newer(c) \subseteq undone /\ c \notin undone
  BY <1>0, <1>1 DEF Orderly
<1>6. \A d : Captured(d)' = Captured(d) /\ Newer(d)' = Newer(d) /\ \A f : LeftBy(d, f)' = LeftBy(d, f)
  BY <1>1 DEF Captured, Newer, LeftBy, Expected
<1>7. Active' = Active \ {c}
  BY <1>1, <1>6 DEF Active
<1>8. ASSUME Orderly', Captured(c) # {} PROVE Top(c) /\ files = start[c]
  <2>1. Top(c)
    BY <1>1, <1>5, <1>8 DEF Top, Active
  <2>2. \A f \in Files : files[f] = start[c][f]
    BY <1>0, <1>1, <1>5, <1>8, <2>1 DEF Stack, Standing, PutBack, NoCall
  <2>3. files \in [Files -> Contents] /\ start[c] \in [Files -> Contents]
    BY <1>1 DEF CkTypes
  <2> QED
    BY <2>1, <2>2, <2>3
<1>9. ASSUME Orderly' PROVE Stack'
  <2>1. Stack /\ threads' = {} /\ ~turn'
    BY <1>1, <1>5, <1>9 DEF Stack
  <2>2. \A d, f : ~PutBack(d, f)'
    BY <1>1 DEF PutBack
  <2>3. \A d : d \in DOMAIN checkpoints => d \in Nat
    BY DEF CkTypes
  <2>4. ASSUME NEW d \in Active' PROVE d < c \/ c \notin Active
    <3>1. d \in Active /\ d # c /\ d \in DOMAIN checkpoints /\ d \notin Newer(c)
      BY <1>5, <1>7, <1>9, <2>4 DEF Active
    <3>2. ~(d > c)
      BY <3>1 DEF Active, Newer
    <3> QED
      BY <1>1, <2>3, <3>1, <3>2
  <2>5. ASSUME NEW d \in Active', NEW f \in Captured(d)'
        PROVE  checkpoints'[d].entry[f].before = start'[d][f]
    BY <1>1, <1>6, <1>7, <2>1, <2>5 DEF Stack
  <2>6. ASSUME NEW b \in Active', NEW d \in Active', b < d, \A e \in Active' : ~(b < e /\ e < d), NEW f \in Files
        PROVE  start'[d][f] = LeftBy(b, f)'
    <3>1. b \in Active /\ d \in Active
      BY <1>7, <2>6
    <3>2. \A e \in Active : ~(b < e /\ e < d)
      BY <1>1, <1>7, <2>3, <2>4, <2>6, <3>1 DEF Active
    <3> QED
      BY <1>1, <1>6, <2>1, <2>6, <3>1, <3>2 DEF Stack
  <2>7. ASSUME NEW d, Top(d)', NEW f \in Files PROVE Standing(d, f)'
    <3>1. d \in Active /\ d # c /\ d \in DOMAIN checkpoints /\ Newer(d) \subseteq undone \union {c}
      BY <1>1, <1>6, <1>7, <2>7 DEF Top, Active
    <3>2. files[f] = LeftBy(d, f)
      <4>1. CASE c \in Active
        <5>1. d < c
          BY <1>7, <2>4, <3>1, <4>1
        <5>2. \A e \in Active : ~(d < e /\ e < c)
          BY <1>1, <2>3, <3>1, <4>1 DEF Active, Newer
        <5>3. start[c][f] = LeftBy(d, f)
          BY <2>1, <3>1, <4>1, <5>1, <5>2 DEF Stack
        <5> QED
          BY <1>8, <1>9, <4>1, <5>3 DEF Active
      <4>2. CASE c \notin Active
        <5>1. Captured(c) = {}
          BY <1>1, <1>5, <1>9, <4>2 DEF Active
        <5>2. Top(d)
          BY <3>1, <5>1 DEF Top, Newer
        <5>3. Standing(d, f)
          BY <1>1, <2>1, <5>2 DEF Stack, NoCall
        <5> QED
          BY <1>0, <3>1, <5>3 DEF Standing, PutBack
      <4> QED
        BY <4>1, <4>2
    <3> QED
      BY <1>1, <1>6, <2>2, <3>2 DEF Standing
  <2> QED
    BY <2>1, <2>5, <2>6, <2>7 DEF Stack
<1> QED
  BY <1>0, <1>2, <1>3, <1>4, <1>8, <1>9

\* The invariant of the checkpoints: each action of CkNext keeps it.
LEMMA CkKeeps ==
  ASSUME CkInv, CkNext
  PROVE  CkInv'
<1>1. CASE BeginTurn
  BY <1>1, CheckpointBegins
<1>2. CASE EndTurn \/ StartFails
  BY <1>2, EndKeeps
<1>3. CASE ToolFails \/ \E f \in Files : ToolWrites(f)
  BY <1>3, ToolKeeps
<1>4. CASE RecordAfter
  BY <1>4, RecordKeeps
<1>5. CASE RestoreReturns
  BY <1>5, ReturnKeeps
<1>6. CASE CancelCall \/ CkCrash \/ (\E w \in threads : ThreadWrites(w))
             \/ \E f \in Files, text \in Contents : ForeignWrite(f, text)
  BY <1>6, DisorderKeeps
<1>7. CASE (\E c \in DOMAIN checkpoints : Restore(c)) \/ \E f \in Files : RestoreFile(f)
  BY <1>7, RestoreKeeps
<1>8. ASSUME NEW targets \in (SUBSET Files) \ {{}}, NEW text \in [targets -> Contents], Capture(targets, text)
      PROVE  CkInv'
  BY <1>8, CaptureStands
<1> QED
  BY <1>1, <1>2, <1>3, <1>4, <1>5, <1>6, <1>7, <1>8 DEF CkNext

\* A state that only stutters keeps what was said of it.
LEMMA CkStutters ==
  ASSUME CkInv, UNCHANGED ck_vars
  PROVE  CkInv'
<1> USE DEF CkInv
<1>1. UNCHANGED <<files, checkpoints, blobs, turn, call, threads, undo, start, undone, quiet>>
  BY DEF ck_vars, ck_store, ck_history
<1>2. CkTypes' /\ Phases'
  BY <1>1, SameStack DEF CkTypes, Phases
<1>3. Orderly' => Orderly
  BY <1>1, SameStack DEF Orderly
<1>4. Orderly =>
        /\ threads' = {}
        /\ \A c : Top(c) => \A f \in Files \ (call'.targets \ call'.todo) : Standing(c, f)'
  BY <1>1, SameStack DEF Stack, Standing, PutBack
<1> QED
  BY <1>1, <1>2, <1>3, <1>4, ManifestsStay

\* The invariant of the checkpoints holds in every reachable state: those that were not undone stand
\* on each other, and the workspace on the newest (CheckpointStore).
THEOREM Stacked == CkSpec => []CkInv
BY CkStarts, CkKeeps, CkStutters, PTL DEF CkSpec

\* An undo stays possible after every step and gives back what it promises: the blobs are there, the
\* newest checkpoint that was not undone has no conflict as long as only complete calls and undo
\* changed files, and its restore gives the workspace of the beginning of its turn
\* (CheckpointStore.prune, capture_before, record_after, restore).
THEOREM UndoHolds == CkSpec => UndoSound
<1>1. ASSUME CkInv PROVE UndoPossible
  <2>1. ASSUME NEW c \in Kept, quiet, call = NoCall, undo = NoUndo, c \notin undone, Newer(c) \subseteq undone,
               NEW f \in Captured(c)
        PROVE  files[f] = Expected(checkpoints[c].entry[f])
    <3>1. Orderly /\ Top(c) /\ f \in Files
      BY <2>1 DEF Orderly, Top, Active, Kept, Captured
    <3>2. Standing(c, f)
      BY <1>1, <2>1, <3>1 DEF CkInv, Stack, NoCall
    <3> QED
      BY <2>1, <3>2 DEF Standing, PutBack, LeftBy
  <2> QED
    BY <1>1, <2>1 DEF CkInv, BlobsThere, UndoPossible, Conflicts
<1>2. ASSUME CkInv, CkNext PROVE UndoReturns
  <2> SUFFICES ASSUME quiet', undone' # undone, Captured(undo.checkpoint) # {}
               PROVE  files' = start[undo.checkpoint]
    BY DEF UndoReturns
  <2>1. RestoreReturns
    BY <1>2 DEF CkNext, BeginTurn, EndTurn, ToolFails, StartFails, RecordAfter, CancelCall, CkCrash, Capture,
                ToolWrites, RestoreFile, ThreadWrites, Restore, ForeignWrite, ck_history
  <2>2. Orderly'
    BY <2>1 DEF RestoreReturns, Orderly
  <2> QED
    BY <1>2, <2>1, <2>2, ReturnKeeps DEF RestoreReturns
<1>3. CkInv /\ CkInv' /\ [CkNext]_ck_vars => [UndoPossible' /\ UndoReturns]_ck_vars
  <2>1. CkInv' => UndoPossible'
    BY <1>1, PTL
  <2> QED
    BY <1>2, <2>1
<1> QED
  BY <1>3, Stacked, PTL DEF CkSpec, UndoSound

-----------------------------------------------------------------------------
(* Sandboxes: what is known of an execution at each place of its task. *)

Places == {"none", "accepted", "starting", "running", "closing", "removing", "finals", "done"}
Known == [at : Places, hash : CommandHashes \union {"none", "probe"}, state : {"none", "accepted", "running", "finished", "indeterminate"},
          passed : BOOLEAN, owner : BOOLEAN, cancelled : BOOLEAN, produced : Nat, retained : Nat, sequence : Nat,
          finals : 0 .. 2, processes : {"unknown", "clean"}, cleanup : {"unknown", "clean"}]
Frame == [id : Identities, sequence : Nat \ {0}, final : BOOLEAN]

SandboxTypes ==
  /\ prep \in {"none", "checking", "probing", "ready", "failed"}
  /\ exec \in [Executions -> Known]
  /\ live \in [Executions -> {"none", "alive", "gone"}]
  /\ temp \subseteq Executions /\ confirmed \subseteq Executions /\ orphaned \subseteq Executions
  /\ outputs \in Seq(Frame) /\ delivered \in Seq(Frame)
  /\ closing \in {"none", "preparing", "tasks", "clean", "unknown"}

\* The processes that live without an owner are those a killed worker may have started.
Alone(id) == live[id] = "alive" => id \in orphaned

\* The task of an execution has got so far.
TaskProgress(id) ==
  LET e == exec[id] IN
  /\ e.at = "none" => e = NoExecution
  /\ e.at \in {"none", "accepted"} => id \notin temp
  /\ e.at \in {"none", "accepted", "starting"} => live[id] = "none" /\ ~e.owner
  /\ ~e.owner \/ e.processes = "clean" => Alone(id)
  /\ e.at = "finals" => e.finals \in {0, 1} /\ id # "probe"
  /\ e.at \notin {"finals", "done"} => e.finals = 0 /\ e.cleanup = "unknown"
  /\ e.at \in {"running", "starting", "accepted", "closing"} => e.processes = "unknown"
  /\ e.cleanup = "clean" => e.processes = "clean" /\ id \notin temp

\* The session admits commands once the probe has passed.
Admitted ==
  /\ prep = "ready" => exec["probe"].at = "done" /\ Proven
  /\ prep \in {"none", "checking"} => exec["probe"].at = "none"
  /\ \A id \in Identities : exec[id].at # "none" => prep = "ready"

Confirmed == \A id \in confirmed : exec[id].at = "done" /\ exec[id].cleanup = "clean"

Ended ==
  closing = "clean" => \A id \in Executions : \/ exec[id].at = "none"
                                              \/ exec[id].at = "done" /\ exec[id].cleanup = "clean"

\* What was sent of an execution is known of it.
Sent(f) == f.sequence <= exec[f.id].sequence /\ (f.final => exec[f.id].finals > 0)
FramesKnown == \A i \in DOMAIN (delivered \o outputs) : Sent((delivered \o outputs)[i])

SandboxInv ==
  /\ SandboxTypes /\ (\A id \in Executions : TaskProgress(id))
  /\ Admitted /\ Confirmed /\ Ended /\ FramesKnown /\ FramesInOrder

-----------------------------------------------------------------------------
(* Sandboxes: the proof. *)

\* What was sent stays what was sent when the collector takes the next frame (CollectFrame).
LEMMA CollectedOnce ==
  ASSUME NEW S, NEW d \in Seq(S), NEW o \in Seq(S), o # <<>>
  PROVE  Append(d, Head(o)) \o Tail(o) = d \o o
<1>1. o = <<Head(o)>> \o Tail(o)
  BY SMT
<1>2. Append(d, Head(o)) = d \o <<Head(o)>>
  BY SMT
<1>3. Head(o) \in S /\ Tail(o) \in Seq(S) /\ <<Head(o)>> \in Seq(S)
  BY SMT
<1> QED
  BY <1>1, <1>2, <1>3, ConcatAssociative

\* A frame that is put in the queue is the last one sent.
LEMMA QueuedLast ==
  ASSUME NEW S, NEW d \in Seq(S), NEW o \in Seq(S), NEW f \in S
  PROVE  d \o Append(o, f) = Append(d \o o, f)
<1>1. Append(o, f) = o \o <<f>> /\ Append(d \o o, f) = (d \o o) \o <<f>>
  BY SMT
<1> QED
  BY <1>1, ConcatAssociative

\* What one execution does leaves the others where they are.
LEMMA OthersStay ==
  ASSUME NEW o \in Executions, exec[o]' = exec[o], live[o]' = live[o],
         o \in temp' <=> o \in temp, o \in orphaned => o \in orphaned', TaskProgress(o)
  PROVE  TaskProgress(o)'
BY DEF TaskProgress, Alone

\* The task of one execution goes on: the session, and what was sent, stay accounted for.
LEMMA OneMoves ==
  ASSUME SandboxInv, NEW id \in Executions, NEW e \in Known, exec' = [exec EXCEPT ![id] = e],
         exec[id].at \notin {"none", "done"}, e.at # "none",
         exec[id].sequence <= e.sequence, exec[id].finals <= e.finals,
         UNCHANGED <<prep, closing, confirmed>>
  PROVE  /\ exec' \in [Executions -> Known] /\ exec'[id] = e
         /\ \A o \in Executions \ {id} : exec[o]' = exec[o]
         /\ Admitted' /\ Confirmed' /\ Ended'
         /\ UNCHANGED <<delivered, outputs>> => FramesKnown' /\ FramesInOrder'
<1>1. exec \in [Executions -> Known]
  BY DEF SandboxInv, SandboxTypes
<1>2. /\ exec' \in [Executions -> Known] /\ exec'[id] = e
      /\ \A o \in Executions \ {id} : exec[o]' = exec[o]
  BY <1>1
<1>3. Admitted'
  <2>1. exec["probe"]' = exec["probe"] \/ (id = "probe" /\ prep = "probing") \/ (id = "probe" /\ prep = "failed")
    BY <1>2 DEF SandboxInv, SandboxTypes, Admitted, Executions
  <2>2. \A o \in Identities : exec[o].at' # "none" => exec[o].at # "none"
    BY <1>2 DEF Executions
  <2> QED
    BY <2>1, <2>2 DEF Admitted, Proven, SandboxInv
<1>4. Confirmed' /\ Ended'
  BY <1>2 DEF SandboxInv, SandboxTypes, Confirmed, Ended
<1>5. UNCHANGED <<delivered, outputs>> => FramesKnown' /\ FramesInOrder'
  <2> SUFFICES ASSUME UNCHANGED <<delivered, outputs>> PROVE FramesKnown' /\ FramesInOrder'
    OBVIOUS
  <2>1. FramesInOrder'
    BY DEF FramesInOrder, SandboxInv
  <2>2. \A i \in DOMAIN (delivered \o outputs) : (delivered \o outputs)[i] \in Frame
    BY DEF SandboxInv, SandboxTypes
  <2>3. \A f \in Frame : Sent(f) => Sent(f)'
    <3> SUFFICES ASSUME NEW f \in Frame, Sent(f) PROVE Sent(f)'
      OBVIOUS
    <3>1. f.id \in Executions /\ f.sequence \in Nat
      BY DEF Frame, Executions
    <3>2. exec[f.id].sequence \in Nat /\ exec[f.id].finals \in Nat /\ e.sequence \in Nat /\ e.finals \in Nat
      BY <1>1, <3>1 DEF Known
    <3>3. exec[f.id].sequence <= exec[f.id].sequence' /\ exec[f.id].finals <= exec[f.id].finals'
      BY <1>2, <3>1, <3>2
    <3> QED
      BY <3>1, <3>2, <3>3, <1>2 DEF Sent, Known
  <2> QED
    BY <2>1, <2>2, <2>3 DEF FramesKnown, SandboxInv
<1> QED
  BY <1>2, <1>3, <1>4, <1>5

\* What an execution does within its own processes and directory, sending nothing.
LEMMA TaskMoves ==
  ASSUME SandboxInv, NEW id \in Executions, NEW e \in Known, exec' = [exec EXCEPT ![id] = e],
         exec[id].at \notin {"none", "done"}, e.at # "none",
         exec[id].sequence <= e.sequence, exec[id].finals <= e.finals,
         UNCHANGED <<prep, closing, confirmed, delivered, outputs>>,
         live' \in [Executions -> {"none", "alive", "gone"}], temp' \subseteq Executions,
         orphaned' \subseteq Executions, orphaned \subseteq orphaned',
         \A o \in Executions \ {id} : live[o]' = live[o] /\ (o \in temp' <=> o \in temp),
         TaskProgress(id)'
  PROVE  SandboxInv'
<1>1. /\ exec' \in [Executions -> Known]
      /\ \A o \in Executions \ {id} : exec[o]' = exec[o]
      /\ Admitted' /\ Confirmed' /\ Ended' /\ FramesKnown' /\ FramesInOrder'
  BY OneMoves
<1>2. SandboxTypes'
  BY <1>1 DEF SandboxInv, SandboxTypes
<1>3. ASSUME NEW o \in Executions PROVE TaskProgress(o)'
  <2>1. CASE o = id
    BY <2>1
  <2>2. CASE o # id
    BY <2>2, <1>1, OthersStay DEF SandboxInv
  <2> QED
    BY <2>1, <2>2
<1> QED
  BY <1>1, <1>2, <1>3 DEF SandboxInv

\* What is known of an execution (_executions).
LEMMA KnownOf ==
  ASSUME SandboxInv, NEW id \in Executions
  PROVE  exec[id] \in Known /\ TaskProgress(id) /\ exec[id].sequence \in Nat /\ exec[id].finals \in 0 .. 2
BY DEF SandboxInv, SandboxTypes, Known

\* The task begins, starts the command, sees it end, or is stopped by its limit (_run).
LEMMA RunKeeps ==
  ASSUME SandboxInv, NEW id \in Executions, NEW passed \in BOOLEAN,
         BeginRun(id) \/ Started(id) \/ FinishRun(id, passed) \/ Deadline(id)
  PROVE  SandboxInv'
<1> USE KnownOf
<1>1. CASE BeginRun(id)
  <2>1. PICK e \in Known : /\ exec' = [exec EXCEPT ![id] = e] /\ e.at \in {"starting", "closing"}
                           /\ e.sequence = exec[id].sequence /\ e.finals = exec[id].finals
                           /\ e.owner = exec[id].owner /\ e.processes = exec[id].processes
                           /\ e.cleanup = exec[id].cleanup
    <3>1. CASE Move(id, "starting")
      <4> DEFINE e == [exec[id] EXCEPT !.at = "starting"]
      <4>1. e \in Known /\ exec' = [exec EXCEPT ![id] = e]
        BY <3>1 DEF Move, Known, Places
      <4> QED
        BY <4>1 DEF Known
    <3>2. CASE Abort(id)
      <4> DEFINE e == [exec[id] EXCEPT !.at = "closing", !.state = "indeterminate"]
      <4>1. e \in Known /\ exec' = [exec EXCEPT ![id] = e]
        BY <3>2 DEF Abort, Known, Places
      <4> QED
        BY <4>1 DEF Known
    <3> QED
      BY <1>1, <3>1, <3>2 DEF BeginRun
  <2>2. exec'[id] = e
    BY <2>1 DEF SandboxInv, SandboxTypes
  <2>3. TaskProgress(id)'
    BY <1>1, <2>1, <2>2 DEF BeginRun, At, TaskProgress, Alone
  <2>9. /\ exec[id].at \notin {"none", "done"} /\ e.at # "none"
        /\ exec[id].sequence <= e.sequence /\ exec[id].finals <= e.finals
    BY <1>1, <2>1 DEF BeginRun, At
  <2>10. /\ UNCHANGED <<prep, closing, confirmed, delivered, outputs>>
         /\ live' \in [Executions -> {"none", "alive", "gone"}] /\ temp' \subseteq Executions
         /\ orphaned' \subseteq Executions /\ orphaned \subseteq orphaned'
         /\ \A o \in Executions \ {id} : live[o]' = live[o] /\ (o \in temp' <=> o \in temp)
    BY <1>1 DEF BeginRun, SandboxInv, SandboxTypes
  <2> QED
    BY <1>1, <2>1, <2>9, <2>10, <2>3, TaskMoves
<1>2. CASE Started(id)
  <2> DEFINE e == [exec[id] EXCEPT !.at = "running", !.state = "running", !.owner = TRUE]
  <2>1. e \in Known /\ exec' = [exec EXCEPT ![id] = e]
    BY <1>2 DEF Started, Known, Places
  <2>2. /\ e.at = "running" /\ e.sequence = exec[id].sequence /\ e.finals = exec[id].finals
        /\ e.owner = TRUE /\ e.processes = exec[id].processes /\ e.cleanup = exec[id].cleanup
    BY DEF Known
  <2> HIDE DEF e
  <2>3. exec'[id] = e
    BY <2>1 DEF SandboxInv, SandboxTypes
  <2>4. TaskProgress(id)'
    BY <1>2, <2>2, <2>3 DEF Started, At, TaskProgress, Alone
  <2>9. /\ exec[id].at \notin {"none", "done"} /\ e.at # "none"
        /\ exec[id].sequence <= e.sequence /\ exec[id].finals <= e.finals
    BY <1>2, <2>1, <2>2 DEF Started, At
  <2>10. /\ UNCHANGED <<prep, closing, confirmed, delivered, outputs>>
         /\ live' \in [Executions -> {"none", "alive", "gone"}] /\ temp' \subseteq Executions
         /\ orphaned' \subseteq Executions /\ orphaned \subseteq orphaned'
         /\ \A o \in Executions \ {id} : live[o]' = live[o] /\ (o \in temp' <=> o \in temp)
    BY <1>2 DEF Started, SandboxInv, SandboxTypes
  <2> QED
    BY <1>2, <2>1, <2>2, <2>9, <2>10, <2>4, TaskMoves
<1>3. CASE FinishRun(id, passed)
  <2> DEFINE e == [exec[id] EXCEPT !.at = "closing", !.state = "finished", !.passed = passed]
  <2>1. e \in Known /\ exec' = [exec EXCEPT ![id] = e]
    BY <1>3 DEF FinishRun, Known, Places
  <2>2. /\ e.at = "closing" /\ e.sequence = exec[id].sequence /\ e.finals = exec[id].finals
        /\ e.owner = exec[id].owner /\ e.processes = exec[id].processes /\ e.cleanup = exec[id].cleanup
    BY DEF Known
  <2> HIDE DEF e
  <2>3. exec'[id] = e
    BY <2>1 DEF SandboxInv, SandboxTypes
  <2>4. TaskProgress(id)'
    BY <1>3, <2>2, <2>3 DEF FinishRun, At, TaskProgress, Alone
  <2>9. /\ exec[id].at \notin {"none", "done"} /\ e.at # "none"
        /\ exec[id].sequence <= e.sequence /\ exec[id].finals <= e.finals
    BY <1>3, <2>1, <2>2 DEF FinishRun, At
  <2>10. /\ UNCHANGED <<prep, closing, confirmed, delivered, outputs>>
         /\ live' \in [Executions -> {"none", "alive", "gone"}] /\ temp' \subseteq Executions
         /\ orphaned' \subseteq Executions /\ orphaned \subseteq orphaned'
         /\ \A o \in Executions \ {id} : live[o]' = live[o] /\ (o \in temp' <=> o \in temp)
    BY <1>3 DEF FinishRun, SandboxInv, SandboxTypes
  <2> QED
    BY <1>3, <2>1, <2>2, <2>9, <2>10, <2>4, TaskMoves
<1>4. CASE Deadline(id)
  <2> DEFINE e == [exec[id] EXCEPT !.at = "closing", !.state = "indeterminate"]
  <2>1. e \in Known /\ exec' = [exec EXCEPT ![id] = e]
    BY <1>4 DEF Deadline, Abort, Known, Places
  <2>2. /\ e.at = "closing" /\ e.sequence = exec[id].sequence /\ e.finals = exec[id].finals
        /\ e.owner = exec[id].owner /\ e.processes = exec[id].processes /\ e.cleanup = exec[id].cleanup
    BY DEF Known
  <2> HIDE DEF e
  <2>3. exec'[id] = e
    BY <2>1 DEF SandboxInv, SandboxTypes
  <2>4. /\ live' \in [Executions -> {"none", "alive", "gone"}]
        /\ orphaned' \subseteq Executions /\ orphaned \subseteq orphaned'
        /\ \A o \in Executions \ {id} : live[o]' = live[o]
        /\ live[id]' = live[id] \/ id \in orphaned'
    BY <1>4 DEF Deadline, Orphaned, SandboxInv, SandboxTypes
  <2>5. TaskProgress(id)'
    BY <1>4, <2>2, <2>3, <2>4 DEF Deadline, At, TaskProgress, Alone
  <2>9. /\ exec[id].at \notin {"none", "done"} /\ e.at # "none"
        /\ exec[id].sequence <= e.sequence /\ exec[id].finals <= e.finals
    BY <1>4, <2>1, <2>2 DEF Deadline, At
  <2>10. /\ UNCHANGED <<prep, closing, confirmed, delivered, outputs>>
         /\ live' \in [Executions -> {"none", "alive", "gone"}] /\ temp' \subseteq Executions
         /\ orphaned' \subseteq Executions /\ orphaned \subseteq orphaned'
         /\ \A o \in Executions \ {id} : live[o]' = live[o] /\ (o \in temp' <=> o \in temp)
    BY <1>4, <2>4 DEF Deadline, SandboxInv, SandboxTypes
  <2> QED
    BY <1>4, <2>1, <2>2, <2>9, <2>10, <2>5, TaskMoves
<1> QED
  BY <1>1, <1>2, <1>3, <1>4

\* A frame that is sent has the next number, and is a final one after a final one (_read, _run).
LEMMA FrameSent ==
  ASSUME SandboxInv, NEW id \in Executions, NEW e \in Known, exec' = [exec EXCEPT ![id] = e],
         exec[id].sequence <= e.sequence, exec[id].finals <= e.finals,
         NEW f \in Frame, f.id = id, delivered' = delivered, outputs' = Append(outputs, f),
         exec[id].sequence < f.sequence, f.sequence <= e.sequence,
         exec[id].finals > 0 => f.final, f.final => e.finals > 0
  PROVE  FramesKnown' /\ FramesInOrder' /\ outputs' \in Seq(Frame)
<1> DEFINE sent == delivered \o outputs
<1>1. delivered \in Seq(Frame) /\ outputs \in Seq(Frame) /\ exec \in [Executions -> Known]
  BY DEF SandboxInv, SandboxTypes
<1>2. sent \in Seq(Frame) /\ (delivered \o outputs)' = Append(sent, f)
  BY <1>1, QueuedLast
<1>3. FramesKnown /\ FramesInOrder
  BY DEF SandboxInv
<1> HIDE DEF sent
<1>20. PICK all \in Seq(Frame) : all = Append(sent, f)
  <2>1. sent \in Seq(Frame)
    BY <1>2
  <2>2. Append(sent, f) \in Seq(Frame)
    BY <2>1, AppendProperties
  <2> QED
    BY <2>2
<1>4. /\ DOMAIN all = 1 .. Len(sent) + 1 /\ DOMAIN sent = 1 .. Len(sent) /\ Len(sent) \in Nat
      /\ all[Len(sent) + 1] = f
      /\ \A i \in 1 .. Len(sent) : all[i] = sent[i] /\ sent[i] \in Frame
      /\ (delivered \o outputs)' = all
  BY <1>2, <1>20
<1>5. \A i \in DOMAIN sent : Sent(sent[i])
  BY <1>3 DEF FramesKnown, sent
<1>6. exec'[id] = e /\ \A o \in Executions \ {id} : exec[o]' = exec[o]
  BY <1>1
<1>7. exec[id].sequence \in Nat /\ exec[id].finals \in Nat /\ e.sequence \in Nat /\ e.finals \in Nat
  BY <1>1 DEF Known
<1>8. \A g \in Frame : Sent(g) => Sent(g)'
  <2> SUFFICES ASSUME NEW g \in Frame, Sent(g) PROVE Sent(g)'
    OBVIOUS
  <2>1. g.id \in Executions /\ g.sequence \in Nat /\ g' = g
    BY DEF Frame, Executions
  <2>2. CASE g.id = id
    BY <2>1, <2>2, <1>6, <1>7 DEF Sent
  <2>3. CASE g.id # id
    BY <2>1, <2>3, <1>6 DEF Sent
  <2> QED
    BY <2>2, <2>3
<1>9. Sent(f)'
  BY <1>6, <1>7 DEF Sent, Frame
<1>10. FramesKnown'
  BY <1>4, <1>5, <1>8, <1>9 DEF FramesKnown
<1>11. FramesInOrder'
  <2> SUFFICES ASSUME NEW i \in 1 .. Len(sent) + 1, NEW j \in 1 .. Len(sent) + 1, i < j,
                      all[i].id = all[j].id
               PROVE  /\ all[i].sequence < all[j].sequence
                      /\ all[i].final => all[j].final
    BY <1>4 DEF FramesInOrder
  <2>1. CASE j \in 1 .. Len(sent)
    <3>1. i \in 1 .. Len(sent)
      BY <2>1, <1>4
    <3>2. sent[i].id = sent[j].id
      BY <3>1, <2>1, <1>4
    <3>3. sent[i].sequence < sent[j].sequence /\ (sent[i].final => sent[j].final)
      BY <3>1, <3>2, <2>1, <1>3, <1>4 DEF FramesInOrder, sent
    <3> QED
      BY <3>1, <3>3, <2>1, <1>4
  <2>2. CASE j = Len(sent) + 1
    <3>1. i \in 1 .. Len(sent) /\ all[j] = f /\ all[i] = sent[i]
      BY <2>2, <1>4
    <3>2. Sent(sent[i]) /\ sent[i].id = id /\ sent[i].sequence \in Nat /\ f.sequence \in Nat
      BY <3>1, <1>4, <1>5 DEF Frame
    <3>3. sent[i].sequence <= exec[id].sequence /\ (sent[i].final => exec[id].finals > 0)
      BY <3>2 DEF Sent
    <3>4. sent[i].sequence < f.sequence
      BY <3>2, <3>3, <1>7
    <3> QED
      BY <3>1, <3>3, <3>4
  <2>3. j \in 1 .. Len(sent) \/ j = Len(sent) + 1
    BY <1>4
  <2> QED
    BY <2>1, <2>2, <2>3
<1>12. outputs' \in Seq(Frame)
  BY <1>1
<1> QED
  BY <1>10, <1>11, <1>12

\* The same for a step that sends a frame.
LEMMA SendMoves ==
  ASSUME SandboxInv, NEW id \in Executions, NEW e \in Known, exec' = [exec EXCEPT ![id] = e],
         exec[id].at \notin {"none", "done"}, e.at # "none",
         exec[id].sequence <= e.sequence, exec[id].finals <= e.finals,
         UNCHANGED <<prep, closing, confirmed, delivered, live, temp, orphaned>>,
         outputs' \in Seq(Frame), FramesKnown', FramesInOrder', TaskProgress(id)'
  PROVE  SandboxInv'
<1>1. /\ exec' \in [Executions -> Known]
      /\ \A o \in Executions \ {id} : exec[o]' = exec[o]
      /\ Admitted' /\ Confirmed' /\ Ended'
  BY OneMoves
<1>2. SandboxTypes'
  BY <1>1 DEF SandboxInv, SandboxTypes
<1>3. ASSUME NEW o \in Executions PROVE TaskProgress(o)'
  <2>1. CASE o = id
    BY <2>1
  <2>2. CASE o # id
    BY <2>2, <1>1, OthersStay DEF SandboxInv
  <2> QED
    BY <2>1, <2>2
<1> QED
  BY <1>1, <1>2, <1>3 DEF SandboxInv

\* A chunk is read: kept or dropped, sent or not (_read).
LEMMA ReadKeeps ==
  ASSUME SandboxInv, NEW id \in Executions, ReadChunk(id)
  PROVE  SandboxInv'
<1> USE KnownOf
<1> DEFINE keep == exec[id].retained < FrameLimit
           frame == keep /\ id # "probe"
           e == [exec[id] EXCEPT !.produced = @ + 1, !.retained = IF keep THEN @ + 1 ELSE @,
                                 !.sequence = IF frame THEN @ + 1 ELSE @]
           f == [id |-> id, sequence |-> e.sequence, final |-> FALSE]
<1>1. e \in Known
  <2>1. exec[id].produced + 1 \in Nat /\ exec[id].retained + 1 \in Nat /\ exec[id].sequence + 1 \in Nat
    BY DEF Known
  <2> QED
    BY <2>1 DEF Known
<1>2. exec' = [exec EXCEPT ![id] = e]
  BY DEF ReadChunk
<1>3. /\ e.at = exec[id].at /\ e.finals = exec[id].finals /\ e.owner = exec[id].owner
      /\ e.sequence = (IF frame THEN exec[id].sequence + 1 ELSE exec[id].sequence)
      /\ e.processes = exec[id].processes /\ e.cleanup = exec[id].cleanup
  BY DEF Known
<1> HIDE DEF e, keep
<1>4. exec'[id] = e
  BY <1>1, <1>2 DEF SandboxInv, SandboxTypes
<1>5. exec[id].at \in {"running", "closing"} /\ exec[id].finals = 0
  BY DEF ReadChunk, At, TaskProgress
<1>6. UNCHANGED <<prep, closing, confirmed, delivered, live, temp, orphaned>>
  BY DEF ReadChunk
<1>7. TaskProgress(id)'
  BY <1>3, <1>4, <1>5, <1>6 DEF TaskProgress, Alone
<1>10. /\ exec[id].at \notin {"none", "done"} /\ e.at # "none"
       /\ exec[id].sequence <= e.sequence /\ exec[id].finals <= e.finals
  BY <1>3, <1>5
<1>8. CASE outputs' = outputs
  <2>1. FramesKnown' /\ FramesInOrder'
    BY <1>1, <1>2, <1>10, <1>6, <1>8, OneMoves
  <2>2. outputs' \in Seq(Frame)
    BY <1>8 DEF SandboxInv, SandboxTypes
  <2> QED
    BY <1>1, <1>2, <1>10, <1>6, <1>7, <2>1, <2>2, SendMoves
<1>9. CASE frame /\ outputs' = Append(outputs, f)
  <2>1. f \in Frame /\ f.id = id /\ f.sequence = e.sequence /\ f.final = FALSE
    <3>1. id \in Identities /\ e.sequence \in Nat \ {0}
      BY <1>9, <1>3 DEF Executions
    <3> QED
      BY <3>1 DEF Frame
  <2> HIDE DEF f
  <2>2. FramesKnown' /\ FramesInOrder' /\ outputs' \in Seq(Frame)
    <3>1. exec[id].sequence < f.sequence /\ f.sequence <= e.sequence /\ ~(exec[id].finals > 0)
      BY <1>3, <1>5, <1>9, <2>1
    <3> QED
      BY <1>1, <1>2, <1>10, <1>6, <1>9, <2>1, <3>1, FrameSent
  <2> QED
    BY <1>1, <1>2, <1>10, <1>6, <1>7, <2>2, SendMoves
<1> QED
  BY <1>4, <1>8, <1>9 DEF ReadChunk, keep

\* A final frame is sent, or finds no place (_run).
LEMMA FinalKeeps ==
  ASSUME SandboxInv, NEW id \in Executions, SendFinal(id)
  PROVE  SandboxInv'
<1> USE KnownOf
<1> DEFINE e == [exec[id] EXCEPT !.sequence = @ + 1, !.finals = @ + 1,
                                 !.at = IF exec[id].finals = 1 THEN "done" ELSE "finals"]
           f == [id |-> id, sequence |-> exec[id].sequence + 1, final |-> TRUE]
<1>1. exec[id].at = "finals" /\ exec[id].finals \in {0, 1} /\ id # "probe"
  BY DEF SendFinal, At, TaskProgress
<1>2. e \in Known /\ exec' = [exec EXCEPT ![id] = e]
  <2>1. exec[id].finals + 1 \in 0 .. 2 /\ exec[id].sequence + 1 \in Nat
    BY <1>1
  <2>2. e \in Known
    BY <2>1 DEF Known, Places
  <2>3. exec' = [exec EXCEPT ![id] = e]
    BY DEF SendFinal
  <2> QED
    BY <2>2, <2>3
<1>3. /\ e.at = (IF exec[id].finals = 1 THEN "done" ELSE "finals") /\ e.finals = exec[id].finals + 1
      /\ e.owner = exec[id].owner /\ e.sequence = exec[id].sequence + 1
      /\ e.processes = exec[id].processes /\ e.cleanup = exec[id].cleanup
  BY DEF Known
<1> HIDE DEF e
<1>4. exec'[id] = e
  BY <1>2 DEF SandboxInv, SandboxTypes
<1>6. UNCHANGED <<prep, closing, confirmed, delivered, live, temp, orphaned>>
  BY DEF SendFinal
<1>7. TaskProgress(id)'
  BY <1>1, <1>3, <1>4, <1>6 DEF TaskProgress, Alone
<1>10. /\ exec[id].at \notin {"none", "done"} /\ e.at # "none"
       /\ exec[id].sequence <= e.sequence /\ exec[id].finals <= e.finals
  BY <1>1, <1>3
<1>8. CASE outputs' = outputs
  <2>1. FramesKnown' /\ FramesInOrder'
    BY <1>2, <1>10, <1>6, <1>8, OneMoves
  <2>2. outputs' \in Seq(Frame)
    BY <1>8 DEF SandboxInv, SandboxTypes
  <2> QED
    BY <1>2, <1>10, <1>6, <1>7, <2>1, <2>2, SendMoves
<1>9. CASE outputs' = Append(outputs, f)
  <2>1. f \in Frame /\ f.id = id /\ f.sequence = e.sequence /\ f.final = TRUE
    BY <1>1, <1>3 DEF Frame, Executions
  <2> HIDE DEF f
  <2>2. FramesKnown' /\ FramesInOrder' /\ outputs' \in Seq(Frame)
    <3>1. exec[id].sequence < f.sequence /\ f.sequence <= e.sequence /\ f.final /\ e.finals > 0
      BY <1>1, <1>3, <1>9, <2>1
    <3> QED
        BY <1>2, <1>10, <1>6, <1>9, <2>1, <3>1, FrameSent
  <2> QED
    BY <1>2, <1>10, <1>6, <1>7, <2>2, SendMoves
<1> QED
  BY <1>8, <1>9 DEF SendFinal

\* A cancelled task closes its processes, or is done (task.cancel).
LEMMA CancelledKnown ==
  ASSUME NEW k \in Known
  PROVE  LET e == CancelledTask(k) IN
         /\ e \in Known
         /\ e.at = IF k.at \in {"starting", "running"} THEN "closing" ELSE IF k.at = "none" THEN "none" ELSE "done"
         /\ e.sequence = k.sequence /\ e.finals = k.finals /\ e.owner = k.owner
         /\ e.processes = k.processes /\ e.cleanup = k.cleanup
         /\ (k.at \in {"none", "done"} => e = k)
<1> DEFINE e == CancelledTask(k)
<1>1. CASE k.at \in {"accepted", "closing", "removing", "finals"}
  <2>1. e = [k EXCEPT !.at = "done", !.cancelled = TRUE]
    BY <1>1 DEF CancelledTask
  <2> QED
    BY <1>1, <2>1 DEF Known, Places
<1>2. CASE k.at \in {"starting", "running"}
  <2>1. e = [k EXCEPT !.at = "closing", !.state = "indeterminate", !.cancelled = TRUE]
    BY <1>2 DEF CancelledTask
  <2> QED
    BY <1>2, <2>1 DEF Known, Places
<1>3. CASE k.at \in {"none", "done"}
  <2>1. e = k
    BY <1>3 DEF CancelledTask
  <2> QED
    BY <1>3, <2>1
<1> QED
  BY <1>1, <1>2, <1>3 DEF Known, Places

\* The processes are closed and reported, the directory is removed, a cancelled task is done
\* (owner.close, _run, cancel).
LEMMA ExecutionEndKeeps ==
  ASSUME SandboxInv, NEW id \in Executions, NEW removed \in BOOLEAN,
         CloseProcesses(id) \/ RemoveTemp(id, removed) \/ CancelExecution(id)
  PROVE  SandboxInv'
<1> USE KnownOf
<1>1. CASE CloseProcesses(id)
  <2>1. PICK report \in {"clean", "unknown"} :
          /\ exec[id].owner \/ report = "clean"
          /\ exec' = [exec EXCEPT ![id].at = "removing", ![id].processes = report]
          /\ live' = IF exec[id].owner /\ report = "clean" THEN [live EXCEPT ![id] = "gone"] ELSE live
    BY <1>1 DEF CloseProcesses
  <2> DEFINE e == [exec[id] EXCEPT !.at = "removing", !.processes = report]
  <2>2. e \in Known /\ exec' = [exec EXCEPT ![id] = e]
    BY <2>1 DEF Known, Places
  <2>3. /\ e.at = "removing" /\ e.sequence = exec[id].sequence /\ e.finals = exec[id].finals
        /\ e.owner = exec[id].owner /\ e.processes = report /\ e.cleanup = exec[id].cleanup
    BY DEF Known
  <2> HIDE DEF e
  <2>4. exec'[id] = e
    BY <2>2 DEF SandboxInv, SandboxTypes
  <2>5. /\ live' \in [Executions -> {"none", "alive", "gone"}]
        /\ \A o \in Executions \ {id} : live[o]' = live[o]
        /\ live[id]' = live[id] \/ live[id]' = "gone"
        /\ exec[id].owner /\ report = "clean" => live[id]' = "gone"
    BY <2>1 DEF SandboxInv, SandboxTypes
  <2>6. TaskProgress(id)'
    BY <1>1, <2>1, <2>3, <2>4, <2>5 DEF CloseProcesses, At, TaskProgress, Alone
  <2>9. /\ exec[id].at \notin {"none", "done"} /\ e.at # "none"
        /\ exec[id].sequence <= e.sequence /\ exec[id].finals <= e.finals
    BY <1>1, <2>3 DEF CloseProcesses, At
  <2>10. /\ UNCHANGED <<prep, closing, confirmed, delivered, outputs>>
         /\ temp' \subseteq Executions
         /\ orphaned' \subseteq Executions /\ orphaned \subseteq orphaned'
         /\ \A o \in Executions \ {id} : live[o]' = live[o] /\ (o \in temp' <=> o \in temp)
    BY <1>1, <2>5 DEF CloseProcesses, SandboxInv, SandboxTypes
  <2> QED
    BY <2>2, <2>5, <2>6, <2>9, <2>10, TaskMoves
<1>2. CASE RemoveTemp(id, removed)
  <2> DEFINE place == IF id = "probe" THEN "done" ELSE "finals"
             e == [exec[id] EXCEPT !.at = place, !.cleanup = CleanupReport(exec[id].processes, removed)]
  <2>1. CleanupReport(exec[id].processes, removed) \in {"unknown", "clean"}
    BY DEF CleanupReport
  <2>2. e \in Known /\ exec' = [exec EXCEPT ![id] = e]
    BY <1>2, <2>1 DEF RemoveTemp, Known, Places
  <2>3. /\ e.at = place /\ e.sequence = exec[id].sequence /\ e.finals = exec[id].finals
        /\ e.owner = exec[id].owner /\ e.processes = exec[id].processes
        /\ e.cleanup = CleanupReport(exec[id].processes, removed)
    BY DEF Known
  <2> HIDE DEF e
  <2>4. exec'[id] = e
    BY <2>2 DEF SandboxInv, SandboxTypes
  <2>5. temp' \subseteq Executions /\ (\A o \in Executions \ {id} : o \in temp' <=> o \in temp)
        /\ (removed => id \notin temp')
    BY <1>2 DEF RemoveTemp, SandboxInv, SandboxTypes
  <2>6. TaskProgress(id)'
    BY <1>2, <2>3, <2>4, <2>5 DEF RemoveTemp, At, TaskProgress, Alone, CleanupReport
  <2>9. /\ exec[id].at \notin {"none", "done"} /\ e.at # "none"
        /\ exec[id].sequence <= e.sequence /\ exec[id].finals <= e.finals
    BY <1>2, <2>3 DEF RemoveTemp, At
  <2>10. /\ UNCHANGED <<prep, closing, confirmed, delivered, outputs>>
         /\ live' \in [Executions -> {"none", "alive", "gone"}]
         /\ orphaned' \subseteq Executions /\ orphaned \subseteq orphaned'
         /\ \A o \in Executions \ {id} : live[o]' = live[o] /\ (o \in temp' <=> o \in temp)
    BY <1>2, <2>5 DEF RemoveTemp, SandboxInv, SandboxTypes
  <2> QED
    BY <2>2, <2>5, <2>6, <2>9, <2>10, TaskMoves
<1>3. CASE CancelExecution(id)
  <2>1. PICK e \in Known : /\ exec' = [exec EXCEPT ![id] = e]
                           /\ e.at = IF exec[id].at \in {"starting", "running"} THEN "closing" ELSE "done"
                           /\ e.sequence = exec[id].sequence /\ e.finals = exec[id].finals
                           /\ e.owner = exec[id].owner /\ e.processes = exec[id].processes
                           /\ e.cleanup = exec[id].cleanup
    BY <1>3, CancelledKnown DEF CancelExecution
  <2>3. exec'[id] = e
    BY <2>1 DEF SandboxInv, SandboxTypes
  <2>4. /\ live' \in [Executions -> {"none", "alive", "gone"}]
        /\ orphaned' \subseteq Executions /\ orphaned \subseteq orphaned'
        /\ \A o \in Executions \ {id} : live[o]' = live[o]
        /\ live[id]' = live[id] \/ (id \in orphaned' /\ exec[id].at = "starting")
    BY <1>3 DEF CancelExecution, Orphaned, SandboxInv, SandboxTypes, At
  <2>5. TaskProgress(id)'
    BY <1>3, <2>1, <2>3, <2>4 DEF CancelExecution, TaskProgress, Alone
  <2>9. /\ exec[id].at \notin {"none", "done"} /\ e.at # "none"
        /\ exec[id].sequence <= e.sequence /\ exec[id].finals <= e.finals
    BY <1>3, <2>1 DEF CancelExecution
  <2>10. /\ UNCHANGED <<prep, closing, confirmed, delivered, outputs>> /\ temp' \subseteq Executions
         /\ \A o \in Executions \ {id} : live[o]' = live[o] /\ (o \in temp' <=> o \in temp)
    BY <1>3, <2>4 DEF CancelExecution, SandboxInv, SandboxTypes
  <2> QED
    BY <2>1, <2>4, <2>5, <2>9, <2>10, TaskMoves
<1> QED
  BY <1>1, <1>2, <1>3

\* What was sent is a sequence of frames (outputs).
LEMMA SentFrames ==
  ASSUME SandboxInv
  PROVE  \E all \in Seq(Frame) : delivered \o outputs = all
<1>1. delivered \in Seq(Frame) /\ outputs \in Seq(Frame)
  BY DEF SandboxInv, SandboxTypes
<1>2. delivered \o outputs \in Seq(Frame)
  BY <1>1
<1> QED
  BY <1>2

\* The collector, the processes and the answers change nothing an execution knows of itself
\* (ProcessesEnd, CollectFrame, AnswerCancel).
LEMMA AroundKeeps ==
  ASSUME SandboxInv, NEW id \in Executions,
         ProcessesEnd(id) \/ CollectFrame \/ AnswerCancel(id)
  PROVE  SandboxInv'
<1>1. CASE ProcessesEnd(id)
  <2>1. SandboxTypes'
    BY <1>1 DEF ProcessesEnd, SandboxInv, SandboxTypes
  <2>2. \A o \in Executions : live[o]' = live[o] \/ (live[o] = "alive" /\ live[o]' = "gone")
    BY <1>1 DEF ProcessesEnd, SandboxInv, SandboxTypes
  <2>3. \A o \in Executions : TaskProgress(o)'
    BY <1>1, <2>2 DEF ProcessesEnd, SandboxInv, TaskProgress, Alone
  <2>4. UNCHANGED <<prep, exec, closing, confirmed, outputs, delivered>>
    BY <1>1 DEF ProcessesEnd
  <2>5. Admitted' /\ Confirmed' /\ Ended'
    BY <2>4 DEF SandboxInv, Admitted, Proven, Confirmed, Ended
  <2>6. FramesKnown' /\ FramesInOrder'
    BY <2>4 DEF SandboxInv, FramesKnown, Sent, FramesInOrder
  <2> QED
    BY <2>1, <2>3, <2>5, <2>6 DEF SandboxInv
<1>2. CASE CollectFrame
  <2>1. delivered \in Seq(Frame) /\ outputs \in Seq(Frame) /\ outputs # <<>>
    BY <1>2 DEF CollectFrame, SandboxInv, SandboxTypes
  <2>2. (delivered \o outputs)' = delivered \o outputs
    BY <1>2, <2>1, CollectedOnce DEF CollectFrame
  <2>3. delivered' \in Seq(Frame) /\ outputs' \in Seq(Frame)
    BY <1>2, <2>1 DEF CollectFrame
  <2>4. FramesKnown' /\ FramesInOrder'
    <3>1. PICK all \in Seq(Frame) : delivered \o outputs = all
      BY SentFrames
    <3>2. (delivered \o outputs)' = all
      BY <2>2, <3>1
    <3>3. exec' = exec
      BY <1>2 DEF CollectFrame
    <3>4. FramesKnown'
      BY <3>1, <3>2, <3>3 DEF SandboxInv, FramesKnown, Sent
    <3>5. FramesInOrder'
      BY <3>1, <3>2 DEF SandboxInv, FramesInOrder
    <3> QED
      BY <3>4, <3>5
  <2>5. SandboxTypes' /\ Admitted' /\ Confirmed' /\ Ended'
    BY <1>2, <2>3 DEF CollectFrame, SandboxInv, SandboxTypes, Admitted, Proven, Confirmed, Ended
  <2>6. \A o \in Executions : TaskProgress(o)'
    BY <1>2 DEF CollectFrame, SandboxInv, TaskProgress, Alone
  <2> QED
    BY <2>4, <2>5, <2>6 DEF SandboxInv
<1>3. CASE AnswerCancel(id)
  <2>1. SandboxTypes' /\ Confirmed'
    BY <1>3 DEF AnswerCancel, SandboxInv, SandboxTypes, Confirmed
  <2>2. \A o \in Executions : TaskProgress(o)'
    BY <1>3 DEF AnswerCancel, SandboxInv, TaskProgress, Alone
  <2>3. Admitted' /\ Ended' /\ FramesKnown' /\ FramesInOrder'
    BY <1>3 DEF AnswerCancel, SandboxInv, Admitted, Proven, Ended, FramesKnown, Sent, FramesInOrder
  <2> QED
    BY <2>1, <2>2, <2>3 DEF SandboxInv
<1> QED
  BY <1>1, <1>2, <1>3

\* An execution is accepted that was not known (_accept).
LEMMA AcceptKeeps ==
  ASSUME SandboxInv, NEW id \in Executions, NEW hash \in CommandHashes \union {"probe"},
         exec[id].at = "none", Accept(id, hash),
         UNCHANGED <<live, temp, outputs, delivered, confirmed, closing, orphaned>>, closing = "none",
         prep' \in {"none", "checking", "probing", "ready", "failed"}
  PROVE  /\ SandboxTypes' /\ (\A o \in Executions : TaskProgress(o)') /\ Confirmed' /\ Ended'
         /\ FramesKnown' /\ FramesInOrder' /\ exec[id]'.at = "accepted"
         /\ \A o \in Executions \ {id} : exec[o]' = exec[o]
<1> DEFINE e == [NoExecution EXCEPT !.at = "accepted", !.hash = hash, !.state = "accepted"]
<1>1. e \in Known /\ exec' = [exec EXCEPT ![id] = e]
  <2>1. NoExecution \in Known
    BY DEF NoExecution, Known, Places
  <2>2. e \in Known
    BY <2>1 DEF Known, Places
  <2>3. exec' = [exec EXCEPT ![id] = e]
    BY DEF Accept
  <2> QED
    BY <2>2, <2>3
<1>2. /\ e.at = "accepted" /\ e.owner = FALSE /\ e.finals = 0 /\ e.processes = "unknown"
      /\ e.cleanup = "unknown"
  BY DEF NoExecution
<1> HIDE DEF e
<1>3. exec'[id] = e /\ (\A o \in Executions \ {id} : exec[o]' = exec[o]) /\ exec' \in [Executions -> Known]
  BY <1>1 DEF SandboxInv, SandboxTypes
<1>4. SandboxTypes'
  BY <1>3 DEF SandboxInv, SandboxTypes
<1>5. exec[id] = NoExecution
  BY DEF SandboxInv, TaskProgress
<1>6. ASSUME NEW o \in Executions PROVE TaskProgress(o)'
  <2>1. CASE o = id
    BY <2>1, <1>2, <1>3 DEF SandboxInv, TaskProgress, Alone
  <2>2. CASE o # id
    BY <2>2, <1>3, OthersStay DEF SandboxInv
  <2> QED
    BY <2>1, <2>2
<1>7. Confirmed' /\ Ended'
  BY <1>3 DEF SandboxInv, Confirmed, Ended, SandboxTypes
<1>8. FramesKnown' /\ FramesInOrder'
  <2>1. PICK all \in Seq(Frame) : delivered \o outputs = all
    BY SentFrames
  <2>2. (delivered \o outputs)' = all
    BY <2>1
  <2>3. \A i \in DOMAIN all : all[i] \in Frame /\ Sent(all[i])
    BY <2>1 DEF SandboxInv, FramesKnown
  <2>4. \A f \in Frame : Sent(f) => f.id \in Executions \ {id}
    <3> SUFFICES ASSUME NEW f \in Frame, Sent(f), f.id = id PROVE FALSE
      BY DEF Frame, Executions
    <3>1. f.sequence <= 0 /\ f.sequence \in Nat \ {0}
      BY <1>5 DEF Sent, NoExecution, Frame
    <3> QED
      BY <3>1
  <2>5. \A f \in Frame : Sent(f) => Sent(f)'
    BY <2>4, <1>3 DEF Sent
  <2>6. FramesKnown'
    BY <2>2, <2>3, <2>5 DEF FramesKnown
  <2>7. FramesInOrder'
    BY <2>1, <2>2 DEF SandboxInv, FramesInOrder
  <2> QED
    BY <2>6, <2>7
<1> QED
  BY <1>2, <1>3, <1>4, <1>6, <1>7, <1>8

\* The session is prepared and proven (prepare).
LEMMA PhaseKeeps ==
  ASSUME SandboxInv, NEW passes \in BOOLEAN, Prepare \/ FinishChecks(passes) \/ FinishProbe
  PROVE  SandboxInv'
<1>1. CASE Prepare \/ FinishProbe \/ (FinishChecks(passes) /\ ~(passes /\ closing = "none"))
  <2>1. /\ UNCHANGED <<exec, live, temp, outputs, delivered, confirmed, closing, orphaned>>
        /\ prep' \in {"checking", "ready", "failed"}
        /\ prep' = "checking" => prep = "none"
        /\ prep' = "ready" => prep = "probing" /\ exec["probe"].at = "done" /\ Proven
        /\ prep # "ready"
    BY <1>1 DEF Prepare, FinishChecks, FinishProbe
  <2>2. SandboxTypes' /\ Confirmed' /\ Ended'
    BY <2>1 DEF SandboxInv, SandboxTypes, Confirmed, Ended
  <2>3. \A o \in Executions : TaskProgress(o)'
    BY <2>1 DEF SandboxInv, TaskProgress, Alone
  <2>4. Admitted'
    BY <2>1 DEF SandboxInv, Admitted, Proven
  <2>5. FramesKnown' /\ FramesInOrder'
    BY <2>1 DEF SandboxInv, FramesKnown, Sent, FramesInOrder
  <2> QED
    BY <2>2, <2>3, <2>4, <2>5 DEF SandboxInv
<1>2. CASE FinishChecks(passes) /\ passes /\ closing = "none"
  <2>1. /\ prep = "checking" /\ prep' = "probing" /\ Accept("probe", "probe")
        /\ UNCHANGED <<live, temp, outputs, delivered, confirmed, closing, orphaned>>
    BY <1>2 DEF FinishChecks
  <2>2. exec["probe"].at = "none" /\ "probe" \in Executions
    BY <2>1 DEF SandboxInv, Admitted, Executions
  <2>3. /\ SandboxTypes' /\ (\A o \in Executions : TaskProgress(o)') /\ Confirmed' /\ Ended'
        /\ FramesKnown' /\ FramesInOrder' /\ \A o \in Executions \ {"probe"} : exec[o]' = exec[o]
    BY <1>2, <2>1, <2>2, AcceptKeeps
  <2>4. Admitted'
    BY <2>1, <2>3, SandboxAssumption DEF SandboxInv, Admitted, Executions
  <2> QED
    BY <2>3, <2>4 DEF SandboxInv
<1> QED
  BY <1>1, <1>2 DEF Prepare, FinishChecks, FinishProbe

\* A command is admitted (execute).
LEMMA ExecuteKeeps ==
  ASSUME SandboxInv, NEW id \in Identities, NEW hash \in CommandHashes, Execute(id, hash)
  PROVE  SandboxInv'
<1>1. /\ prep = "ready" /\ prep' = prep /\ closing = "none" /\ exec[id].at = "none" /\ Accept(id, hash)
      /\ UNCHANGED <<live, temp, outputs, delivered, confirmed, closing, orphaned>>
  BY DEF Execute
<1>2. id \in Executions /\ id # "probe"
  BY SandboxAssumption DEF Executions
<1>3. /\ SandboxTypes' /\ (\A o \in Executions : TaskProgress(o)') /\ Confirmed' /\ Ended'
      /\ FramesKnown' /\ FramesInOrder' /\ \A o \in Executions \ {id} : exec[o]' = exec[o]
  BY <1>1, <1>2, AcceptKeeps
<1>4. exec["probe"]' = exec["probe"]
  BY <1>2, <1>3 DEF Executions
<1>5. Admitted'
  BY <1>1, <1>4 DEF SandboxInv, Admitted, Proven
<1> QED
  BY <1>3, <1>5 DEF SandboxInv

\* It closes: every task is cancelled, and awaited as long as the limit allows (close).
LEMMA CloseKeeps ==
  ASSUME SandboxInv, NEW removed \in BOOLEAN,
         Close \/ CloseTasks \/ FinishClose(removed) \/ CloseLimit
  PROVE  SandboxInv'
<1>1. CASE Close \/ FinishClose(removed) \/ CloseLimit
  <2>1. /\ UNCHANGED <<prep, exec, live, temp, outputs, delivered, confirmed, orphaned>>
        /\ closing' \in {"preparing", "clean", "unknown"}
        /\ closing' = "clean" => \A id \in Executions : \/ exec[id].at = "none"
                                                        \/ exec[id].at = "done" /\ exec[id].cleanup = "clean"
    BY <1>1 DEF Close, FinishClose, CloseLimit, Running, At
  <2>2. SandboxTypes' /\ Confirmed' /\ Ended'
    BY <2>1 DEF SandboxInv, SandboxTypes, Confirmed, Ended
  <2>3. \A o \in Executions : TaskProgress(o)'
    BY <2>1 DEF SandboxInv, TaskProgress, Alone
  <2>4. Admitted'
    BY <2>1 DEF SandboxInv, Admitted, Proven
  <2>5. FramesKnown' /\ FramesInOrder'
    BY <2>1 DEF SandboxInv, FramesKnown, Sent, FramesInOrder
  <2> QED
    BY <2>2, <2>3, <2>4, <2>5 DEF SandboxInv
<1>2. CASE CloseTasks
  <2>1. PICK set \in SUBSET {id \in Executions : At(id, "starting") /\ ~exec[id].cancelled} :
          /\ orphaned' = orphaned \cup set
          /\ live' = [id \in Executions |-> IF id \in set THEN "alive" ELSE live[id]]
    BY <1>2 DEF CloseTasks
  <2>2. /\ closing = "preparing" /\ closing' = "tasks" /\ prep \notin {"checking", "probing"}
        /\ exec' = [id \in Executions |-> IF exec[id].cancelled THEN exec[id] ELSE CancelledTask(exec[id])]
        /\ UNCHANGED <<prep, temp, outputs, delivered, confirmed>>
    BY <1>2 DEF CloseTasks
  <2>3. \A id \in Executions :
          /\ exec[id]' \in Known
          /\ exec[id]' = exec[id] \/
               (exec[id]'.at = IF exec[id].at \in {"starting", "running"} THEN "closing"
                               ELSE IF exec[id].at = "none" THEN "none" ELSE "done")
          /\ exec[id]'.sequence = exec[id].sequence /\ exec[id]'.finals = exec[id].finals
          /\ exec[id]'.owner = exec[id].owner /\ exec[id]'.processes = exec[id].processes
          /\ exec[id]'.cleanup = exec[id].cleanup
          /\ exec[id].at \in {"none", "done"} => exec[id]' = exec[id]
          /\ exec[id].at = "starting" /\ ~exec[id].cancelled => exec[id]'.at = "closing"
    <3> SUFFICES ASSUME NEW id \in Executions
                 PROVE  /\ exec'[id] \in Known
                        /\ exec'[id] = exec[id] \/
                             (exec'[id].at = IF exec[id].at \in {"starting", "running"} THEN "closing"
                                             ELSE IF exec[id].at = "none" THEN "none" ELSE "done")
                        /\ exec'[id].sequence = exec[id].sequence /\ exec'[id].finals = exec[id].finals
                        /\ exec'[id].owner = exec[id].owner /\ exec'[id].processes = exec[id].processes
                        /\ exec'[id].cleanup = exec[id].cleanup
                        /\ exec[id].at \in {"none", "done"} => exec'[id] = exec[id]
                        /\ exec[id].at = "starting" /\ ~exec[id].cancelled => exec'[id].at = "closing"
      OBVIOUS
    <3>1. exec[id] \in Known
      BY KnownOf
    <3>2. CASE exec[id].cancelled
      BY <3>1, <3>2, <2>2
    <3>3. CASE ~exec[id].cancelled
      <4>1. exec'[id] = CancelledTask(exec[id])
        BY <3>3, <2>2
      <4> QED
        BY <3>1, <4>1, CancelledKnown
    <3> QED
      BY <3>2, <3>3
  <2>4. exec' \in [Executions -> Known]
    BY <2>2, <2>3
  <2>5. SandboxTypes'
    BY <2>1, <2>2, <2>4 DEF SandboxInv, SandboxTypes, At
  <2>6. ASSUME NEW id \in Executions PROVE TaskProgress(id)'
    <3>1. /\ live[id]' = live[id] \/ (id \in orphaned' /\ exec[id].at = "starting" /\ exec[id]'.at = "closing")
          /\ id \in orphaned => id \in orphaned'
      BY <2>1, <2>3 DEF At
    <3>2. TaskProgress(id)
      BY DEF SandboxInv
    <3> QED
      BY <3>1, <3>2, <2>2, <2>3 DEF TaskProgress, Alone
  <2>7. Admitted'
    <3>1. "probe" \in Executions /\ Identities \subseteq Executions
      BY DEF Executions
    <3>2. exec["probe"].at \in {"none", "done"} => exec["probe"]' = exec["probe"]
      BY <3>1, <2>3
    <3>3. \A id \in Identities : exec[id].at = "none" => exec[id]' = exec[id]
      BY <3>1, <2>3
    <3> QED
      BY <3>2, <3>3, <2>2 DEF SandboxInv, Admitted, Proven
  <2>8. Confirmed' /\ Ended'
    BY <2>2, <2>3 DEF SandboxInv, SandboxTypes, Confirmed, Ended
  <2>9. FramesKnown' /\ FramesInOrder'
    <3>1. PICK all \in Seq(Frame) : delivered \o outputs = all
      BY SentFrames
    <3>2. (delivered \o outputs)' = all
      BY <2>2, <3>1
    <3>3. \A f \in Frame : Sent(f) => Sent(f)'
      BY <2>3 DEF Sent, Frame, Executions
    <3>4. FramesKnown'
      BY <3>1, <3>2, <3>3 DEF SandboxInv, FramesKnown
    <3>5. FramesInOrder'
      BY <3>1, <3>2 DEF SandboxInv, FramesInOrder
    <3> QED
      BY <3>4, <3>5
  <2> QED
    BY <2>5, <2>6, <2>7, <2>8, <2>9 DEF SandboxInv
<1> QED
  BY <1>1, <1>2

\* Nothing runs and nothing was sent in the beginning (_NativeSandboxSession).
LEMMA SandboxStarts == SandboxInit => SandboxInv
<1> SUFFICES ASSUME SandboxInit PROVE SandboxInv
  OBVIOUS
<1>1. NoExecution \in Known
  BY DEF NoExecution, Known, Places
<1>2. outputs \in Seq(Frame) /\ delivered \in Seq(Frame)
  BY DEF SandboxInit
<1>3. SandboxTypes
  BY <1>1, <1>2 DEF SandboxInit, SandboxTypes
<1>4. \A id \in Executions : TaskProgress(id)
  BY DEF SandboxInit, TaskProgress, Alone, NoExecution
<1>5. Admitted /\ Confirmed /\ Ended
  BY DEF SandboxInit, Admitted, Confirmed, Ended, NoExecution, Executions
<1>6. delivered \o outputs = <<>>
  BY DEF SandboxInit
<1>7. FramesKnown /\ FramesInOrder
  BY <1>6 DEF FramesKnown, FramesInOrder
<1> QED
  BY <1>3, <1>4, <1>5, <1>7 DEF SandboxInv

\* One step of the session, by its actions (workspace_backend.py).
LEMMA SandboxKeeps == SandboxInv /\ [SandboxNext]_sandbox_vars => SandboxInv'
<1> SUFFICES ASSUME SandboxInv, [SandboxNext]_sandbox_vars PROVE SandboxInv'
  OBVIOUS
<1>1. CASE Prepare \/ FinishProbe
  BY <1>1, PhaseKeeps
<1>2. CASE CollectFrame
  BY <1>2, AroundKeeps DEF Executions
<1>3. CASE Close \/ CloseTasks \/ CloseLimit
  BY <1>3, CloseKeeps
<1>4. ASSUME NEW b \in BOOLEAN, FinishChecks(b) \/ FinishClose(b) PROVE SandboxInv'
  BY <1>4, CloseKeeps, PhaseKeeps
<1>5. ASSUME NEW id \in Identities, NEW hash \in CommandHashes, Execute(id, hash) PROVE SandboxInv'
  BY <1>5, ExecuteKeeps
<1>6. ASSUME NEW id \in Executions, BeginRun(id) \/ Started(id) \/ Deadline(id) PROVE SandboxInv'
  BY <1>6, RunKeeps
<1>7. ASSUME NEW id \in Executions, ReadChunk(id) \/ SendFinal(id) PROVE SandboxInv'
  BY <1>7, ReadKeeps, FinalKeeps
<1>8. ASSUME NEW id \in Executions, CloseProcesses(id) \/ CancelExecution(id) PROVE SandboxInv'
  BY <1>8, ExecutionEndKeeps
<1>9. ASSUME NEW id \in Executions, ProcessesEnd(id) \/ AnswerCancel(id) PROVE SandboxInv'
  BY <1>9, AroundKeeps
<1>10. ASSUME NEW id \in Executions, NEW b \in BOOLEAN, FinishRun(id, b) \/ RemoveTemp(id, b) PROVE SandboxInv'
  BY <1>10, RunKeeps, ExecutionEndKeeps
<1>11. CASE UNCHANGED sandbox_vars
  BY <1>11 DEF sandbox_vars, SandboxInv, SandboxTypes, TaskProgress, Alone, Admitted, Proven, Confirmed,
               Ended, FramesKnown, Sent, FramesInOrder
<1> QED
  BY <1>1, <1>2, <1>3, <1>4, <1>5, <1>6, <1>7, <1>8, <1>9, <1>10, <1>11 DEF SandboxNext

\* The invariant says what the session reports (SandboxHonest).
LEMMA SandboxTold == SandboxInv => SandboxHonest
<1> SUFFICES ASSUME SandboxInv PROVE SandboxHonest
  OBVIOUS
<1>1. ASSUME NEW id \in Executions, \/ exec[id].at = "none"
                                    \/ exec[id].at = "done" /\ exec[id].cleanup = "clean"
      PROVE  ~Left(id)
  BY <1>1 DEF SandboxInv, SandboxTypes, TaskProgress, Alone, Left, Running
<1>2. ReportsTrue
  BY <1>1 DEF SandboxInv, SandboxTypes, Confirmed, Ended, ReportsTrue
<1>3. AdmittedProven
  BY DEF SandboxInv, Admitted, AdmittedProven, Proven, TaskProgress, Executions
<1> QED
  BY <1>2, <1>3 DEF SandboxInv, SandboxHonest

\* A session admits commands only after its probe passed and left nothing; it reports itself
\* clean, and confirms a cancel, only when no process, directory or task is left; the frames of a
\* command keep their order (prepare, cancel, close and _run of the native sandbox session).
THEOREM SessionHonest == SandboxSpec => []SandboxHonest
<1>1. SandboxInit => SandboxInv
  BY SandboxStarts
<1>2. SandboxInv /\ [SandboxNext]_sandbox_vars => SandboxInv'
  BY SandboxKeeps
<1>3. SandboxInv => SandboxHonest
  BY SandboxTold
<1> QED
  BY <1>1, <1>2, <1>3, PTL DEF SandboxSpec

=============================================================================
