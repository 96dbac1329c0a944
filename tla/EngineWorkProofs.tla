-------------------------- MODULE EngineWorkProofs --------------------------
(***************************************************************************)
(* Machine-checked properties of EngineWork, for any set of client actions *)
(* and any bounds.                                                         *)
(*                                                                         *)
(* None of the properties is inductive: that the two tables agree after a  *)
(* recovery needs what each stage of a work item says of its version, its  *)
(* owner and its lifecycle row (StageAt); that a claim holds needs where   *)
(* the task, the timer and the scheduler can be (TaskInv, HoldInv); and    *)
(* that a new turn starts clean needs that nothing behind the scheduler's  *)
(* gate re-opens while it works (CleanInv).                                *)
(***************************************************************************)
EXTENDS EngineWork, FiniteSetTheorems, WellFoundedInduction, TLAPS

USE BoundAssumption

Held == {"running", "cancel_requested"}

\* The rows of one turn, whatever the process does.
AgreeAt(t) ==
  work[t].state = IF turn[t].state = "awaiting_approval" THEN "running" ELSE turn[t].state

AnsweredAt(t) ==
  t \in cancelled /\ turn[t].state = "finished" =>
    /\ life[t].cancel \in {"confirmed", "indeterminate"}
    /\ life[t].cancel = "confirmed" => life[t].cleanup = "clean" /\ turn[t].outcome # "indeterminate"

StageAt(t) ==
  /\ work[t].state \in {"none", "queued"} =>
       work[t] = [state |-> work[t].state, version |-> 0, owner |-> 0]
       /\ life[t] = NoRow /\ t \notin cancelled
  /\ work[t].state \in Held =>
       /\ work[t].version = 1 /\ work[t].owner = epoch
       /\ life[t] = NoRow \/ life[t].owner = epoch
  /\ work[t].state = "running" => t \notin cancelled
  /\ work[t].state = "cancel_requested" => life[t].cancel = "requested" /\ life[t].owner = epoch
  /\ work[t].state \in {"reconciling", "finished"} => work[t].version \in 1 .. 2

RowInv == \A t \in Turns : AgreeAt(t) /\ AnsweredAt(t) /\ StageAt(t)

\* There is a task exactly while the scheduler awaits it, its timer lives only inside
\* execute_turn, and the finally block knows how the turn ended.
TaskInv ==
  /\ exec.pc = "none" <=> sched # "await"
  /\ exec.pc = "none" => exec = NoExec
  /\ exec.pc # "none" => up /\ exec.turn \in Turns
  /\ exec.timer => exec.pc \in {"opening", "working", "draining"}
  /\ exec.asking => exec.pc = "working"
  /\ exec.pc \in {"draining", "untiming", "closing"} => exec.outcome # "none"

\* A dispatched task holds its claim at the version it was given, and no other turn runs.
HoldInv ==
  exec.pc \notin {"none", "created"} =>
    /\ work[exec.turn].state \in Held /\ exec.version = 1
    /\ \A t \in Turns \ {exec.turn} : work[t].state # "running"

\* While it may still work, what other turns left is clean or is their cancellation's.
CleanInv ==
  exec.pc \in {"claimed", "opening", "working"} =>
    \A t \in Turns \ {exec.turn} :
      life[t] = NoRow \/ life[t].cleanup = "clean" \/ work[t].state = "cancel_requested"

\* Turns are numbered as they are accepted.
OrderInv == \E n \in 0 .. MaxTurns : Accepted = 1 .. n

\* An action is answered with a turn of its own.
ActionInv ==
  /\ \A a \in Actions : actions[a] # 0 => turn[actions[a]].state # "none"
  /\ \A a, b \in Actions : actions[a] = actions[b] /\ actions[a] # 0 => a = b

\* The inductive invariant.
IInv == TypeOK /\ RowInv /\ TaskInv /\ HoldInv /\ CleanInv /\ OrderInv /\ ActionInv

CleanPcs == {"claimed", "opening", "working"}

\* A step that leaves the rows of all turns but t alone.
Elsewhere(t) ==
  \A u \in Turns \ {t} :
    /\ turn'[u] = turn[u] /\ work'[u] = work[u] /\ life'[u] = life[u]
    /\ u \in cancelled' <=> u \in cancelled

\* TypeOK by tables and by process, the parts that steps leave alone together.
RowTypes ==
  /\ turn \in [Turns -> TurnRow] /\ work \in [Turns -> WorkRow] /\ life \in [Turns -> LifeRow]
  /\ \A t \in Turns : turn[t].state = "finished" <=> turn[t].outcome # "none"
  /\ cancelled \subseteq Turns

ProcessTypes ==
  /\ epoch \in 0 .. MaxEpochs /\ up \in BOOLEAN /\ initialized \in BOOLEAN
  /\ stop \in {"no", "drain", "cancelling", "cancel"}
  /\ sched \in {"poll", "wait", "await", "returned", "dead"} /\ ready \in BOOLEAN
  /\ faults \in 0 .. MaxFaults

\* TypeOK is the conjunction of its parts, before and after a step.
LEMMA TypeParts ==
  /\ TypeOK <=> actions \in [Actions -> Turns \cup {0}] /\ RowTypes /\ ProcessTypes /\ exec \in Exec
  /\ TypeOK' <=> actions' \in [Actions -> Turns \cup {0}] /\ RowTypes' /\ ProcessTypes' /\ exec' \in Exec
<1>1. TypeOK <=> actions \in [Actions -> Turns \cup {0}] /\ RowTypes /\ ProcessTypes /\ exec \in Exec
  BY Zenon DEF TypeOK, RowTypes, ProcessTypes
<1>2. TypeOK' <=> actions' \in [Actions -> Turns \cup {0}] /\ RowTypes' /\ ProcessTypes' /\ exec' \in Exec
  BY Zenon DEF TypeOK, RowTypes, ProcessTypes, Exec, ExecPcs, Outcomes
<1> QED BY <1>1, <1>2

\* No turn is accepted and no answer given by a step that keeps the states "none".
LEMMA OrderKept ==
  ASSUME OrderInv, ActionInv, actions \in [Actions -> Turns \cup {0}], actions' = actions,
         \A t \in Turns : turn'[t].state = "none" <=> turn[t].state = "none"
  PROVE  OrderInv' /\ ActionInv'
<1>1. Accepted' = Accepted BY DEF Accepted
<1>2. OrderInv' BY <1>1 DEF OrderInv
<1>3. ActionInv' BY DEF ActionInv
<1> QED BY <1>2, <1>3

\* A step that leaves every row alone: only the execution has to be looked at.
LEMMA ExecOnly ==
  ASSUME IInv, UNCHANGED <<rows, cancelled, epoch>>, ProcessTypes', exec' \in Exec, TaskInv',
         exec'.pc \notin {"none", "created"} =>
           /\ exec.pc \notin {"none", "created"}
           /\ exec'.turn = exec.turn /\ exec'.version = exec.version,
         exec'.pc \in CleanPcs => exec.pc \in CleanPcs
  PROVE  IInv'
<1>0. UNCHANGED <<actions, turn, work, life, cancelled, epoch>> BY DEF rows
<1>1. TypeOK'
  <2>1. actions \in [Actions -> Turns \cup {0}] /\ RowTypes BY TypeParts DEF IInv
  <2>2. RowTypes' BY <1>0, <2>1 DEF RowTypes
  <2> QED BY <1>0, <2>1, <2>2, TypeParts
<1>2. RowInv' BY <1>0 DEF IInv, RowInv, AgreeAt, AnsweredAt, StageAt
<1>3. HoldInv' BY <1>0 DEF IInv, HoldInv
<1>4. CleanInv' BY <1>0 DEF IInv, CleanInv, CleanPcs
<1>5. OrderInv' /\ ActionInv' BY <1>0, <1>1, OrderKept, TypeParts DEF IInv
<1> QED BY <1>1, <1>2, <1>3, <1>4, <1>5 DEF IInv

\* A step that touches the rows of one accepted turn.
LEMMA OneTurn ==
  ASSUME IInv, NEW t \in Turns, Elsewhere(t), UNCHANGED <<actions, epoch>>,
         ProcessTypes', exec' \in Exec, RowTypes',
         AgreeAt(t)', AnsweredAt(t)', StageAt(t)',
         turn[t].state # "none", turn'[t].state # "none",
         TaskInv', HoldInv', CleanInv'
  PROVE  IInv'
<1>1. TypeOK'
  <2>1. actions \in [Actions -> Turns \cup {0}] BY TypeParts DEF IInv
  <2> QED BY <2>1, TypeParts
<1>2. RowInv'
  <2> SUFFICES ASSUME NEW u \in Turns \ {t} PROVE (AgreeAt(u) /\ AnsweredAt(u) /\ StageAt(u))'
    BY DEF RowInv
  <2>1. AgreeAt(u) /\ AnsweredAt(u) /\ StageAt(u) BY DEF IInv, RowInv
  <2>2. /\ turn'[u] = turn[u] /\ work'[u] = work[u] /\ life'[u] = life[u]
        /\ u \in cancelled' <=> u \in cancelled
    BY DEF Elsewhere
  <2> QED BY <2>1, <2>2 DEF AgreeAt, AnsweredAt, StageAt
<1>3. OrderInv' /\ ActionInv'
  <2>1. \A u \in Turns : turn'[u].state = "none" <=> turn[u].state = "none"
    BY DEF Elsewhere
  <2> QED BY <2>1, <1>1, OrderKept, TypeParts DEF IInv
<1> QED BY <1>1, <1>2, <1>3 DEF IInv

-----------------------------------------------------------------------------
(***************************************************************************)
(* Steps of the process and of the execution that touch no row.            *)
(***************************************************************************)
\* system.initialize and the requests to stop leave the task alone.
LEMMA ProcessSteps ==
  ASSUME IInv, Initialize \/ (\E mode \in {"drain", "cancel"} : Shutdown(mode))
  PROVE  IInv'
<1>0. ProcessTypes /\ exec \in Exec /\ TaskInv BY TypeParts DEF IInv
<1>1. UNCHANGED <<rows, cancelled, epoch, up, exec, sched, faults>>
  BY DEF Initialize, Shutdown
<1>2. ProcessTypes'
  BY <1>0, <1>1 DEF ProcessTypes, Initialize, Shutdown
<1>3. TaskInv' BY <1>0, <1>1 DEF TaskInv
<1> QED BY <1>0, <1>1, <1>2, <1>3, ExecOnly

\* The engine leaves only when its scheduler has returned or died: nothing is executed.
LEMMA ExitStep ==
  ASSUME IInv, Exit
  PROVE  IInv'
<1>0. ProcessTypes /\ exec \in Exec /\ TaskInv BY TypeParts DEF IInv
<1>1. UNCHANGED <<rows, cancelled, epoch, exec, sched, ready, faults>> /\ exec.pc = "none"
      /\ up' = FALSE /\ stop' = "no" /\ initialized' = FALSE
  BY <1>0 DEF Exit, TaskInv
<1>2. ProcessTypes' BY <1>0, <1>1 DEF ProcessTypes
<1>3. TaskInv' BY <1>0, <1>1 DEF TaskInv
<1> QED BY <1>0, <1>1, <1>2, <1>3, ExecOnly

\* Whatever ends the task without a write leaves no task behind.
LEMMA TaskGone ==
  ASSUME IInv, UNCHANGED <<rows, cancelled, epoch>>, ProcessTypes', exec' = NoExec,
         sched' # "await"
  PROVE  IInv'
<1>1. exec' \in Exec
  BY DEF NoExec, Exec, ExecPcs, Outcomes
<1>2. TaskInv' BY DEF TaskInv, NoExec
<1>3. exec'.pc = "none" BY DEF NoExec
<1> QED BY <1>1, <1>2, <1>3, ExecOnly DEF CleanPcs

\* A crash, a task the loop gives up, and a last write that fails leave the rows as they are.
LEMMA LossSteps ==
  ASSUME IInv, Crash \/ Abandon \/ SettleFails
  PROVE  IInv'
<1>0. ProcessTypes BY TypeParts DEF IInv
<1>1. UNCHANGED <<rows, cancelled, epoch>> /\ exec' = NoExec /\ sched' \in {"poll", "dead"}
  BY DEF Crash, Abandon, SettleFails, Done, process
<1>2. ProcessTypes'
  <2>1. /\ faults' \in 0 .. MaxFaults /\ up' \in BOOLEAN /\ initialized' \in BOOLEAN
        /\ stop' \in {"no", "drain", "cancelling", "cancel"} /\ ready' \in BOOLEAN
    <3>1. CASE Crash BY <1>0, <3>1 DEF ProcessTypes, Crash
    <3>2. CASE Abandon BY <1>0, <3>2 DEF ProcessTypes, Abandon, process
    <3>3. CASE SettleFails BY <1>0, <3>3, BoundAssumption DEF ProcessTypes, SettleFails, process
    <3> QED BY <3>1, <3>2, <3>3
  <2> QED BY <1>0, <1>1, <2>1 DEF ProcessTypes
<1> QED BY <1>1, <1>2, TaskGone

\* A set of turns that is not empty has a smallest one.
LEMMA MinTurn ==
  ASSUME NEW S \in SUBSET Turns, S # {}
  PROVE  Min(S) \in S
<1>1. S \subseteq Nat BY DEF Turns
<1>2. PICK x \in S : \A y \in S : ~(<<y, x>> \in OpToRel(<, Nat))
  BY <1>1, NatLessThanWellFounded, WFMin
<1>3. \A y \in S : x <= y
  <2> SUFFICES ASSUME NEW y \in S, y < x PROVE FALSE
    BY <1>1
  <2>1. <<y, x>> \in Nat \X Nat /\ <<y, x>>[1] < <<y, x>>[2] BY <1>1
  <2> QED BY <1>2, <2>1 DEF OpToRel
<1> QED BY <1>3 DEF Min

\* The scheduler takes the lowest queued turn, waits or returns, and writes nothing.
LEMMA PollStep ==
  ASSUME IInv, Poll
  PROVE  IInv'
<1>0. ProcessTypes /\ exec \in Exec /\ TaskInv BY TypeParts DEF IInv
<1>1. UNCHANGED <<rows, cancelled, epoch, up, initialized, stop, faults>> /\ ready' = FALSE /\ Loop
  BY DEF Poll, process
<1>2. exec = NoExec /\ exec.pc = "none"
  BY <1>0 DEF Poll, TaskInv
<1>3. CASE UNCHANGED exec /\ sched' \in {"wait", "returned"}
  <2>1. ProcessTypes' BY <1>0, <1>1, <1>3 DEF ProcessTypes
  <2>2. sched' # "await" BY <1>3
  <2> QED BY <1>1, <1>2, <1>3, <2>1, <2>2, TaskGone
<1>4. CASE Queued # {} /\ exec' = [NoExec EXCEPT !.turn = Min(Queued), !.pc = "created"]
           /\ sched' = "await"
  <2>1. Min(Queued) \in Turns BY <1>4, MinTurn DEF Queued
  <2>2. exec' \in Exec
    <3>1. NoExec \in Exec BY DEF NoExec, Exec, ExecPcs, Outcomes
    <3> QED BY <1>4, <2>1, <3>1 DEF Exec, ExecPcs
  <2>3. exec'.pc = "created" /\ exec'.turn \in Turns /\ ~exec'.timer
        /\ ~exec'.asking
    BY <1>4, <2>1 DEF NoExec
  <2>4. ProcessTypes' BY <1>0, <1>1, <1>4 DEF ProcessTypes
  <2>5. TaskInv' BY <1>1, <1>4, <2>3 DEF TaskInv, Loop
  <2> QED BY <1>1, <2>2, <2>3, <2>4, <2>5, ExecOnly DEF CleanPcs
<1> QED BY <1>3, <1>4 DEF Poll

\* What a step inside the body of execute_turn may do to the task.
LEMMA TaskMoves ==
  ASSUME IInv, UNCHANGED <<rows, cancelled, epoch, up, sched>>, ProcessTypes', exec' \in Exec,
         exec.pc \notin {"none", "created"}, exec'.pc \notin {"none", "created"},
         exec'.turn = exec.turn, exec'.version = exec.version,
         exec'.timer => exec'.pc \in {"opening", "working", "draining"},
         exec'.asking => exec'.pc = "working",
         exec'.pc \in {"draining", "untiming", "closing"} => exec'.outcome # "none",
         exec'.pc \in CleanPcs => exec.pc \in CleanPcs
  PROVE  IInv'
<1>1. TaskInv BY DEF IInv
<1>2. TaskInv' BY <1>1 DEF TaskInv
<1> QED BY <1>2, ExecOnly

\* Opening the backend, or failing to, moves the task and touches no row.
LEMMA OpenStep ==
  ASSUME IInv, Open
  PROVE  IInv'
<1>0. ProcessTypes /\ exec \in Exec /\ TaskInv BY TypeParts DEF IInv
<1>1. UNCHANGED <<rows, cancelled, epoch, up, initialized, stop, sched, ready, faults>>
      /\ exec.pc = "opening"
  BY DEF Open, process
<1>a. ~exec.asking BY <1>0, <1>1 DEF TaskInv
<1>2. ProcessTypes' BY <1>0, <1>1 DEF ProcessTypes
<1>3. CASE exec' = [exec EXCEPT !.pc = "working"]
  <2>1. /\ exec' \in Exec /\ exec'.pc = "working" /\ exec'.turn = exec.turn
        /\ exec'.version = exec.version
    BY <1>0, <1>3 DEF Exec, ExecPcs
  <2> QED BY <1>1, <1>a, <1>2, <2>1, TaskMoves DEF CleanPcs
<1>4. ASSUME NEW outcome \in {"blocked", "failed"},
             exec' = [exec EXCEPT !.pc = "untiming", !.outcome = outcome, !.timer = FALSE]
      PROVE  IInv'
  <2>1. /\ exec' \in Exec /\ exec'.pc = "untiming" /\ exec'.turn = exec.turn
        /\ exec'.version = exec.version /\ ~exec'.timer /\ exec'.outcome # "none"
        /\ exec'.asking = exec.asking
    BY <1>0, <1>4 DEF Exec, ExecPcs, Outcomes
  <2> QED BY <1>1, <1>a, <1>2, <2>1, TaskMoves DEF CleanPcs
<1> QED BY <1>3, <1>4 DEF Open

\* The end of adapter.stream fixes the outcome.
LEMMA WorkEndsStep ==
  ASSUME IInv, WorkEnds
  PROVE  IInv'
<1>0. ProcessTypes /\ exec \in Exec /\ TaskInv BY TypeParts DEF IInv
<1>1. UNCHANGED <<rows, cancelled, epoch, up, initialized, stop, sched, ready, faults>>
      /\ exec.pc = "working" /\ ~exec.asking
  BY DEF WorkEnds, process
<1>2. ProcessTypes' BY <1>0, <1>1 DEF ProcessTypes
<1>3. PICK outcome \in {"completed", "failed", "blocked", "indeterminate"} :
        exec' = [exec EXCEPT !.pc = "draining", !.outcome = outcome]
  BY DEF WorkEnds
<1>4. /\ exec' \in Exec /\ exec'.pc = "draining" /\ exec'.turn = exec.turn
      /\ exec'.version = exec.version /\ exec'.outcome # "none" /\ exec'.asking = exec.asking
  BY <1>0, <1>3 DEF Exec, ExecPcs, Outcomes
<1> QED BY <1>1, <1>2, <1>4, TaskMoves DEF CleanPcs

\* A projection that cannot be written ends the stream.
LEMMA ProjectionFailsStep ==
  ASSUME IInv, ProjectionFails
  PROVE  IInv'
<1>0. ProcessTypes /\ exec \in Exec /\ TaskInv BY TypeParts DEF IInv
<1>1. UNCHANGED <<rows, cancelled, epoch, up, initialized, stop, sched, ready>>
      /\ exec.pc = "working" /\ faults < MaxFaults /\ faults' = faults + 1
  BY DEF ProjectionFails, process
<1>2. ProcessTypes'
  <2>1. faults' \in 0 .. MaxFaults BY <1>0, <1>1, BoundAssumption DEF ProcessTypes
  <2> QED BY <1>0, <1>1, <2>1 DEF ProcessTypes
<1>3. CASE exec' = [exec EXCEPT !.projection = TRUE, !.cancel = TRUE]
  <2>1. /\ exec' \in Exec /\ exec'.pc = "working" /\ exec'.turn = exec.turn
        /\ exec'.version = exec.version
    BY <1>0, <1>1, <1>3 DEF Exec
  <2> QED BY <1>1, <1>2, <2>1, TaskMoves DEF CleanPcs
<1>4. CASE ~exec.asking /\ exec' = [exec EXCEPT !.projection = TRUE, !.pc = "draining",
                                                !.outcome = "indeterminate"]
  <2>1. /\ exec' \in Exec /\ exec'.pc = "draining" /\ exec'.turn = exec.turn
        /\ exec'.version = exec.version /\ exec'.outcome # "none" /\ exec'.asking = exec.asking
    BY <1>0, <1>4 DEF Exec, ExecPcs, Outcomes
  <2> QED BY <1>1, <1>2, <1>4, <2>1, TaskMoves DEF CleanPcs
<1> QED BY <1>3, <1>4 DEF ProjectionFails

\* The first gather of the finally block.
LEMMA StopObservingStep ==
  ASSUME IInv, StopObserving
  PROVE  IInv'
<1>0. ProcessTypes /\ exec \in Exec /\ TaskInv BY TypeParts DEF IInv
<1>1. UNCHANGED <<rows, cancelled, epoch, up, initialized, stop, sched, ready, faults>>
      /\ exec.pc = "draining" /\ exec' = [exec EXCEPT !.pc = "untiming", !.timer = FALSE]
  BY DEF StopObserving, process
<1>2. ProcessTypes' BY <1>0, <1>1 DEF ProcessTypes
<1>3. /\ exec' \in Exec /\ exec'.pc = "untiming" /\ exec'.turn = exec.turn
      /\ exec'.version = exec.version /\ exec'.outcome = exec.outcome /\ ~exec'.timer
      /\ exec'.asking = exec.asking
  BY <1>0, <1>1 DEF Exec, ExecPcs
<1>4. exec.outcome # "none" /\ ~exec.asking BY <1>0, <1>1 DEF TaskInv
<1> QED BY <1>1, <1>2, <1>3, <1>4, TaskMoves DEF CleanPcs

-----------------------------------------------------------------------------
(***************************************************************************)
(* Cancellation.                                                           *)
(***************************************************************************)
\* What the transaction of cancel_turn does to the rows of one accepted turn.
CancelEffect(t) ==
  \/ work'[t] = work[t] /\ life'[t] = life[t]
  \/ work[t].state = "queued" /\ work'[t].state = "finished" /\ life'[t].cleanup = "clean"
  \/ work[t].state = "running" /\ work'[t].state = "cancel_requested"

\* What the transaction of cancel_turn leaves in the three tables.
LEMMA CancelRowsStep ==
  ASSUME IInv, NEW t \in Turns, turn[t].state # "none", CancelRows(t), epoch' = epoch
  PROVE  /\ RowTypes' /\ Elsewhere(t) /\ turn'[t].state # "none"
         /\ AgreeAt(t)' /\ AnsweredAt(t)' /\ StageAt(t)'
         /\ CancelEffect(t)
<1>0. RowTypes /\ AgreeAt(t) /\ AnsweredAt(t) /\ StageAt(t) /\ epoch \in 0 .. MaxEpochs
  BY TypeParts DEF IInv, RowInv, ProcessTypes
<1>1. CASE turn[t].state = "queued" /\ CancelQueued(t) /\ cancelled' = cancelled \cup {t}
  <2>1. work[t] = [state |-> "queued", version |-> 0, owner |-> 0] /\ life[t] = NoRow
    BY <1>0, <1>1 DEF AgreeAt, StageAt
  <2>2. /\ turn' = [turn EXCEPT ![t] = [state |-> "finished", outcome |-> "cancelled"]]
        /\ work' = [work EXCEPT ![t] = [state |-> "finished", version |-> 1, owner |-> 0]]
        /\ life' = [life EXCEPT ![t] = [cancel |-> "confirmed", cleanup |-> "clean", owner |-> epoch]]
    <3>1. work' = [work EXCEPT ![t] = [state |-> "finished", version |-> 1, owner |-> 0]]
      BY <1>0, <1>1, <2>1 DEF CancelQueued, RowTypes, WorkRow
    <3> QED BY <1>1, <2>1, <3>1 DEF CancelQueued, LifeCancel
  <2>3. RowTypes'
    <3>1. turn' \in [Turns -> TurnRow]
      BY <1>0, <2>2 DEF RowTypes, TurnRow, TurnStates, Outcomes
    <3>2. work' \in [Turns -> WorkRow]
      BY <1>0, <2>2 DEF RowTypes, WorkRow, TurnStates
    <3>3. life' \in [Turns -> LifeRow]
      BY <1>0, <2>2 DEF RowTypes, LifeRow
    <3>4. \A u \in Turns : turn'[u].state = "finished" <=> turn'[u].outcome # "none"
      BY <1>0, <2>2 DEF RowTypes
    <3> QED BY <1>0, <1>1, <3>1, <3>2, <3>3, <3>4 DEF RowTypes
  <2>4. Elsewhere(t) BY <1>0, <1>1, <2>2 DEF Elsewhere, RowTypes
  <2>5. /\ turn'[t] = [state |-> "finished", outcome |-> "cancelled"]
        /\ work'[t] = [state |-> "finished", version |-> 1, owner |-> 0]
        /\ life'[t] = [cancel |-> "confirmed", cleanup |-> "clean", owner |-> epoch]
    BY <1>0, <2>2 DEF RowTypes
  <2>6. AgreeAt(t)' /\ AnsweredAt(t)' /\ StageAt(t)'
    BY <2>5 DEF AgreeAt, AnsweredAt, StageAt, Held
  <2> QED BY <2>1, <2>3, <2>4, <2>5, <2>6 DEF CancelEffect
<1>2. CASE turn[t].state \in Active /\ CancelActive(t) /\ cancelled' = cancelled \cup {t}
  <2>1. work[t].state = "running" /\ work[t].version = 1 /\ work[t].owner = epoch
        /\ (life[t] = NoRow \/ life[t].owner = epoch)
    BY <1>0, <1>2 DEF AgreeAt, StageAt, Active, Held
  <2>2. /\ turn'[t] = [turn[t] EXCEPT !.state = "cancel_requested"]
        /\ work'[t] = [work[t] EXCEPT !.state = "cancel_requested"]
        /\ life'[t] = LifeCancel(t, "requested", "pending")
    BY <1>0, <1>2 DEF CancelActive, RowTypes
  <2>3. /\ turn'[t] \in TurnRow /\ turn'[t].state = "cancel_requested"
        /\ turn'[t].outcome = turn[t].outcome /\ turn[t].outcome = "none"
    BY <1>0, <1>2, <2>2 DEF RowTypes, TurnRow, TurnStates, Active
  <2>4. /\ work'[t] \in WorkRow /\ work'[t].state = "cancel_requested"
        /\ work'[t].version = 1 /\ work'[t].owner = epoch
    BY <1>0, <2>1, <2>2 DEF RowTypes, WorkRow, TurnStates
  <2>5. life'[t] \in LifeRow /\ life'[t].cancel = "requested" /\ life'[t].owner = epoch
    BY <1>0, <2>1, <2>2 DEF RowTypes, LifeRow, LifeCancel
  <2>6. Elsewhere(t) BY <1>0, <1>2 DEF Elsewhere, RowTypes, CancelActive
  <2>7. RowTypes'
    <3>1. turn' \in [Turns -> TurnRow] /\ work' \in [Turns -> WorkRow] /\ life' \in [Turns -> LifeRow]
      BY <1>0, <1>2, <2>2, <2>3, <2>4, <2>5 DEF RowTypes, CancelActive
    <3>2. \A u \in Turns : turn'[u].state = "finished" <=> turn'[u].outcome # "none"
      BY <1>0, <2>3, <2>6 DEF RowTypes, Elsewhere
    <3> QED BY <1>0, <1>2, <3>1, <3>2 DEF RowTypes
  <2>8. AgreeAt(t)' /\ AnsweredAt(t)' /\ StageAt(t)'
    BY <2>3, <2>4, <2>5 DEF AgreeAt, AnsweredAt, StageAt, Held
  <2> QED BY <2>1, <2>3, <2>4, <2>6, <2>7, <2>8 DEF CancelEffect
<1>3. CASE UNCHANGED <<turn, work, life, cancelled>>
  BY <1>0, <1>3 DEF RowTypes, Elsewhere, AgreeAt, AnsweredAt, StageAt, CancelEffect
<1> QED BY <1>1, <1>2, <1>3 DEF CancelRows

\* A cancellation whose task keeps its turn, version and place.
LEMMA CancelKeeps ==
  ASSUME IInv, NEW t \in Turns, turn[t].state # "none", CancelRows(t),
         UNCHANGED <<actions, epoch, up, sched>>, ProcessTypes', exec' \in Exec,
         exec'.turn = exec.turn, exec'.pc = exec.pc, exec'.version = exec.version,
         exec'.outcome = exec.outcome, exec'.timer => exec.timer,
         exec'.asking = exec.asking,
         exec.pc = "none" => exec' = exec
  PROVE  IInv'
<1>1. /\ RowTypes' /\ Elsewhere(t) /\ turn'[t].state # "none"
      /\ AgreeAt(t)' /\ AnsweredAt(t)' /\ StageAt(t)' /\ CancelEffect(t)
  BY CancelRowsStep
<1>2. TaskInv' BY DEF IInv, TaskInv
<1>3. HoldInv'
  <2> SUFFICES ASSUME exec.pc \notin {"none", "created"}
               PROVE  /\ work'[exec.turn].state \in Held
                      /\ \A u \in Turns \ {exec.turn} : work'[u].state # "running"
    BY DEF IInv, HoldInv
  <2>1. /\ work[exec.turn].state \in Held /\ exec.turn \in Turns
        /\ \A u \in Turns \ {exec.turn} : work[u].state # "running"
    BY DEF IInv, HoldInv, TaskInv
  <2> QED BY <1>1, <2>1 DEF Elsewhere, CancelEffect, Held
<1>4. CleanInv'
  <2> SUFFICES ASSUME exec.pc \in CleanPcs, NEW u \in Turns \ {exec.turn}
               PROVE  life'[u] = NoRow \/ life'[u].cleanup = "clean"
                      \/ work'[u].state = "cancel_requested"
    BY DEF CleanInv, CleanPcs
  <2>1. /\ life[u] = NoRow \/ life[u].cleanup = "clean" \/ work[u].state = "cancel_requested"
        /\ work[u].state # "running"
    BY DEF IInv, HoldInv, CleanInv, CleanPcs
  <2> QED BY <1>1, <2>1 DEF Elsewhere, CancelEffect
<1> QED BY <1>1, <1>2, <1>3, <1>4, OneTurn

\* cancel_turn with its signal to the task.
LEMMA CancelTurnStep ==
  ASSUME IInv, NEW t \in Turns, turn[t].state # "none", CancelTurn(t),
         UNCHANGED <<actions, epoch, up, sched>>, ProcessTypes'
  PROVE  IInv'
<1>0. exec \in Exec /\ TaskInv BY TypeParts DEF IInv
<1>1. CancelRows(t) BY DEF CancelTurn
<1>2. CASE exec' = exec BY <1>0, <1>1, <1>2, CancelKeeps
<1>3. CASE Owns(t) /\ exec' = [exec EXCEPT !.cancel = TRUE]
  <2>1. /\ exec' \in Exec /\ exec'.turn = exec.turn /\ exec'.pc = exec.pc
        /\ exec'.version = exec.version /\ exec'.outcome = exec.outcome
        /\ exec'.timer = exec.timer /\ exec'.asking = exec.asking
    BY <1>0, <1>3 DEF Exec
  <2>2. exec.pc # "none"
    BY <1>0, <1>3 DEF TaskInv, Owns, NoExec, Turns
  <2> QED BY <1>1, <2>1, <2>2, CancelKeeps
<1> QED BY <1>2, <1>3 DEF CancelTurn

\* turn.cancel, requested by a client.
LEMMA CancelStep ==
  ASSUME IInv, NEW t \in Turns, Cancel(t)
  PROVE  IInv'
<1>0. ProcessTypes BY TypeParts DEF IInv
<1>1. /\ UNCHANGED <<actions, epoch, up, initialized, stop, sched, faults>> /\ ready' = TRUE
      /\ CancelTurn(t) /\ turn[t].state # "none"
  BY DEF Cancel, process, Accepted
<1>2. ProcessTypes' BY <1>0, <1>1 DEF ProcessTypes
<1> QED BY <1>1, <1>2, CancelTurnStep

\* A cancelling shutdown goes through the open turns, lowest first.
LEMMA ShutdownCancelsStep ==
  ASSUME IInv, ShutdownCancels
  PROVE  IInv'
<1> DEFINE open == {t \in Turns : turn[t].state \in Active \cup {"queued"}}
<1>0. ProcessTypes /\ exec \in Exec /\ TaskInv BY TypeParts DEF IInv
<1>1. UNCHANGED <<actions, epoch, up, initialized, sched, faults>>
  BY DEF ShutdownCancels
<1>2. CASE open # {} /\ CancelTurn(Min(open)) /\ UNCHANGED <<stop, ready>>
  <2>1. Min(open) \in Turns /\ turn[Min(open)].state # "none"
    <3>1. Min(open) \in open BY <1>2, MinTurn
    <3> QED BY <3>1 DEF Active
  <2>2. ProcessTypes' BY <1>0, <1>1, <1>2 DEF ProcessTypes
  <2> HIDE DEF open
  <2> QED BY <1>1, <1>2, <2>1, <2>2, CancelTurnStep
<1>3. CASE stop' = "cancel" /\ ready' = TRUE /\ UNCHANGED <<turn, work, life, exec, cancelled>>
  <2>1. ProcessTypes' BY <1>0, <1>1, <1>3 DEF ProcessTypes
  <2>2. TaskInv' BY <1>0, <1>1, <1>3 DEF TaskInv
  <2>3. UNCHANGED <<rows, cancelled, epoch>> BY <1>1, <1>3 DEF rows
  <2> QED BY <1>0, <1>3, <2>1, <2>2, <2>3, ExecOnly
<1> QED BY <1>2, <1>3 DEF ShutdownCancels

\* The deadline of a turn cancels it as a client would.
LEMMA ExpireStep ==
  ASSUME IInv, Expire
  PROVE  IInv'
<1>0. ProcessTypes /\ exec \in Exec /\ TaskInv BY TypeParts DEF IInv
<1>1. /\ UNCHANGED <<actions, epoch, up, initialized, stop, sched, ready, faults>>
      /\ CancelRows(exec.turn) /\ exec.timer
      /\ exec' = [exec EXCEPT !.cancel = TRUE, !.expired = TRUE, !.timer = FALSE]
  BY DEF Expire, process
<1>2. ProcessTypes' BY <1>0, <1>1 DEF ProcessTypes
<1>3. exec.pc \in {"opening", "working", "draining"} /\ exec.turn \in Turns
  BY <1>0, <1>1 DEF TaskInv
<1>4. turn[exec.turn].state # "none"
  BY <1>3 DEF IInv, HoldInv, RowInv, AgreeAt, Held
<1>5. /\ exec' \in Exec /\ exec'.turn = exec.turn /\ exec'.pc = exec.pc
      /\ exec'.version = exec.version /\ exec'.outcome = exec.outcome /\ ~exec'.timer
      /\ exec'.asking = exec.asking
  BY <1>0, <1>1 DEF Exec
<1> QED BY <1>1, <1>2, <1>3, <1>4, <1>5, CancelKeeps

-----------------------------------------------------------------------------
(***************************************************************************)
(* The execution of a turn writes only the rows of that turn.              *)
(***************************************************************************)
\* claim_work_item: nothing runs, nothing waits for reconciliation and everything that is
\* over is cleaned up, so what is left of other turns is unsettled or was never opened.
LEMMA ClaimStep ==
  ASSUME IInv, Claim
  PROVE  IInv'
<1>t. PICK t \in Turns : t = exec.turn BY DEF IInv, TaskInv, Claim
<1>0. /\ ProcessTypes /\ RowTypes /\ exec \in Exec /\ TaskInv /\ exec.pc = "created"
      /\ AgreeAt(t) /\ AnsweredAt(t) /\ StageAt(t)
  BY <1>t, TypeParts DEF IInv, TaskInv, RowInv, Claim
<1>1. UNCHANGED <<actions, life, epoch, up, initialized, stop, ready, cancelled, faults>>
  BY DEF Claim, process
<1>2. CASE Claimable(t)
  <2>1. work[t] = [state |-> "queued", version |-> 0, owner |-> 0] /\ life[t] = NoRow
        /\ turn[t].state = "queued" /\ t \notin cancelled
    BY <1>t, <1>0, <1>2 DEF AgreeAt, StageAt, Claimable, RowTypes, TurnRow, TurnStates
  <2>2. /\ work' = [work EXCEPT ![t] = [state |-> "running", version |-> 1, owner |-> epoch]]
        /\ turn' = [turn EXCEPT ![t].state = "running"]
        /\ sched' = sched
    BY <1>t, <1>2, <2>1 DEF Claim
  <2>3. work'[t] = [state |-> "running", version |-> 1, owner |-> epoch]
    BY <1>t, <1>0, <2>2 DEF RowTypes
  <2>4. exec' = [exec EXCEPT !.pc = "claimed", !.version = 1]
    BY <1>t, <1>2, <2>3 DEF Claim
  <2>5. /\ exec' \in Exec /\ exec'.pc = "claimed" /\ exec'.version = 1 /\ exec'.turn = t
        /\ ~exec'.timer /\ ~exec'.asking
    <3>1. ~exec.timer /\ ~exec.asking BY <1>0 DEF TaskInv, Exec
    <3>2. exec' \in Exec
      <4>1. 1 \in 0 .. 3 /\ "claimed" \in ExecPcs BY DEF ExecPcs
      <4>2. \A v \in 0 .. 3 : [exec EXCEPT !.pc = "claimed", !.version = v] \in Exec
        BY <1>0, <4>1 DEF Exec
      <4> QED BY <2>4, <4>1, <4>2
    <3> QED BY <1>t, <1>0, <2>4, <3>1, <3>2 DEF Exec
  <2>6. turn'[t] \in TurnRow /\ turn'[t].state = "running" /\ turn'[t].outcome = "none"
    BY <1>t, <1>0, <2>1, <2>2 DEF RowTypes, TurnRow, TurnStates
  <2>7. Elsewhere(t) BY <1>t, <1>0, <1>1, <2>2 DEF Elsewhere, RowTypes
  <2>8. RowTypes'
    <3>1. turn' \in [Turns -> TurnRow] BY <1>t, <1>0, <2>2, <2>6 DEF RowTypes
    <3>2. work' \in [Turns -> WorkRow]
      BY <1>t, <1>0, <2>2 DEF RowTypes, WorkRow, TurnStates, ProcessTypes
    <3>3. \A u \in Turns : turn'[u].state = "finished" <=> turn'[u].outcome # "none"
      BY <1>t, <1>0, <2>6, <2>7 DEF RowTypes, Elsewhere
    <3> QED BY <1>t, <1>0, <1>1, <3>1, <3>2, <3>3 DEF RowTypes
  <2>9. AgreeAt(t)' /\ AnsweredAt(t)' /\ StageAt(t)'
    BY <1>1, <2>1, <2>3, <2>6 DEF AgreeAt, AnsweredAt, StageAt, Held
  <2>10. ProcessTypes' BY <1>t, <1>0, <1>1, <2>2 DEF ProcessTypes
  <2>11. TaskInv' BY <1>t, <1>0, <1>1, <2>2, <2>5 DEF TaskInv
  <2>12. HoldInv'
    <3>1. \A u \in Turns \ {t} : work'[u].state # "running"
      BY <1>2, <2>7 DEF Claimable, InWork, Elsewhere
    <3> QED BY <2>3, <2>5, <3>1 DEF HoldInv, Held
  <2>13. CleanInv'
    <3> SUFFICES ASSUME NEW u \in Turns \ {t}
                 PROVE  life'[u] = NoRow \/ life'[u].cleanup = "clean"
                        \/ work'[u].state = "cancel_requested"
      BY <2>5 DEF CleanInv
    <3>1. /\ life[u] = NoRow \/ life[u].cleanup = "clean" \/ work[u].state # "finished"
          /\ work[u].state \notin {"running", "reconciling"}
      BY <1>2 DEF Claimable, Blocked, CleanupBlocked, InWork
    <3>2. work[u].state \in {"none", "queued"} => life[u] = NoRow
      BY DEF IInv, RowInv, StageAt
    <3>3. work[u].state \in {"none", "queued", "running", "cancel_requested", "reconciling",
                             "finished"}
      BY <1>0 DEF RowTypes, WorkRow, TurnStates
    <3> QED BY <2>7, <3>1, <3>2, <3>3 DEF Elsewhere
  <2> QED BY <1>t, <1>0, <1>1, <2>1, <2>5, <2>6, <2>7, <2>8, <2>9, <2>10, <2>11, <2>12, <2>13, OneTurn
<1>3. CASE ~Claimable(t)
  <2>1. exec' = NoExec /\ sched' = "poll" /\ UNCHANGED <<turn, work>>
    BY <1>t, <1>3 DEF Claim, Done
  <2>2. ProcessTypes' BY <1>t, <1>0, <1>1, <2>1 DEF ProcessTypes
  <2>3. UNCHANGED <<rows, cancelled, epoch>> BY <1>1, <2>1 DEF rows
  <2> QED BY <2>1, <2>2, <2>3, TaskGone
<1> QED BY <1>2, <1>3

\* A step of the task that keeps the claim: the rows of the other turns and the state of its
\* own work item stay.
LEMMA OwnRows ==
  ASSUME IInv, NEW t \in Turns, t = exec.turn, exec.pc \notin {"none", "created"}, Elsewhere(t),
         UNCHANGED <<actions, work, epoch, up, sched, cancelled>>, ProcessTypes', RowTypes',
         exec' \in Exec, exec'.turn = exec.turn, exec'.version = exec.version,
         exec'.pc \notin {"none", "created"},
         exec'.pc \in CleanPcs => exec.pc \in CleanPcs,
         exec'.timer => exec'.pc \in {"opening", "working", "draining"},
         exec'.asking => exec'.pc = "working",
         exec'.pc \in {"draining", "untiming", "closing"} => exec'.outcome # "none",
         AgreeAt(t)',
         life'[t].cancel = life[t].cancel
           \/ life[t] = NoRow,
         life'[t].owner = life[t].owner \/ life'[t].owner = epoch,
         life[t] = NoRow => life'[t] = NoRow \/ life'[t].owner = epoch
  PROVE  IInv'
<1>0. /\ AgreeAt(t) /\ AnsweredAt(t) /\ StageAt(t) /\ TaskInv
      /\ work[t].state \in Held
  BY DEF IInv, TaskInv, RowInv, HoldInv
<1>1. TaskInv' BY <1>0 DEF TaskInv
<1>2. HoldInv' BY DEF IInv, HoldInv
<1>3. CleanInv' BY DEF IInv, CleanInv, CleanPcs, Elsewhere
<1>4. turn[t].state # "none" /\ turn[t].state # "finished"
  BY <1>0 DEF AgreeAt, Held
<1>5. turn'[t].state # "none" /\ turn'[t].state # "finished"
  BY <1>0 DEF AgreeAt, Held
<1>6. AnsweredAt(t)' BY <1>5 DEF AnsweredAt
<1>7. StageAt(t)'
  BY <1>0 DEF StageAt, Held, NoRow
<1> QED BY <1>0, <1>1, <1>2, <1>3, <1>4, <1>5, <1>6, <1>7, OneTurn

\* The lifecycle row is inserted and the deadline runs, or the turn ends without a row.
LEMMA BeginStep ==
  ASSUME IInv, Begin
  PROVE  IInv'
<1>t. PICK t \in Turns : t = exec.turn BY DEF IInv, TaskInv, Begin
<1>0. /\ ProcessTypes /\ RowTypes /\ exec \in Exec /\ TaskInv /\ exec.pc = "claimed"
      /\ AgreeAt(t) /\ StageAt(t) /\ work[t].state \in Held
  BY <1>t, TypeParts DEF IInv, TaskInv, RowInv, Begin, HoldInv
<1>1. UNCHANGED <<actions, turn, work, epoch, up, initialized, stop, sched, ready, cancelled, faults>>
  BY DEF Begin, process
<1>2. ProcessTypes' BY <1>t, <1>0, <1>1 DEF ProcessTypes
<1>3. AgreeAt(t)' BY <1>t, <1>0, <1>1 DEF AgreeAt
<1>4. CASE /\ life' = [life EXCEPT ![t] = IF @ = NoRow
                    THEN [cancel |-> "none", cleanup |-> "pending", owner |-> epoch] ELSE @]
           /\ exec' = [exec EXCEPT !.pc = "opening", !.timer = TRUE]
  <2>1. /\ exec' \in Exec /\ exec'.pc = "opening" /\ exec'.turn = t
        /\ exec'.version = exec.version /\ exec'.asking = exec.asking
    BY <1>t, <1>0, <1>4 DEF Exec, ExecPcs
  <2>2. /\ life'[t] = IF life[t] = NoRow
             THEN [cancel |-> "none", cleanup |-> "pending", owner |-> epoch] ELSE life[t]
        /\ life' \in [Turns -> LifeRow]
    BY <1>t, <1>0, <1>4 DEF RowTypes, LifeRow, ProcessTypes
  <2>3. Elsewhere(t) BY <1>t, <1>0, <1>1, <1>4 DEF Elsewhere, RowTypes
  <2>4. RowTypes' BY <1>t, <1>0, <1>1, <2>2 DEF RowTypes
  <2>5. ~exec.asking BY <1>0 DEF TaskInv, Exec
  <2> QED BY <1>t, <1>0, <1>1, <1>2, <1>3, <2>1, <2>2, <2>3, <2>4, <2>5, OwnRows DEF CleanPcs
<1>5. ASSUME NEW outcome \in {"blocked", "failed"},
             exec' = [exec EXCEPT !.pc = "closing", !.outcome = outcome], UNCHANGED life
      PROVE  IInv'
  <2>1. /\ exec' \in Exec /\ exec'.pc = "closing" /\ exec'.turn = t
        /\ exec'.version = exec.version /\ exec'.outcome # "none" /\ exec'.timer = exec.timer
        /\ exec'.asking = exec.asking
    BY <1>t, <1>0, <1>5 DEF Exec, ExecPcs, Outcomes
  <2>2. ~exec.timer /\ ~exec.asking BY <1>0 DEF TaskInv, Exec
  <2>3. Elsewhere(t) /\ RowTypes' BY <1>t, <1>0, <1>1, <1>5 DEF Elsewhere, RowTypes
  <2> QED BY <1>t, <1>0, <1>1, <1>2, <1>3, <1>5, <2>1, <2>2, <2>3, OwnRows DEF CleanPcs
<1> QED BY <1>t, <1>4, <1>5 DEF Begin

\* The turn's state moves between running and awaiting_approval, its work item stays.
LEMMA AskRows ==
  ASSUME IInv, NEW t \in Turns, UNCHANGED <<work, life, cancelled>>,
         NEW s \in Active,
         \/ UNCHANGED turn
         \/ turn[t].state \in Active /\ turn' = [turn EXCEPT ![t].state = s]
  PROVE  Elsewhere(t) /\ RowTypes' /\ AgreeAt(t)'
<1>0. RowTypes /\ AgreeAt(t) BY TypeParts DEF IInv, RowInv
<1>1. CASE UNCHANGED turn BY <1>0, <1>1 DEF RowTypes, Elsewhere, AgreeAt
<1>2. CASE turn[t].state \in Active /\ turn' = [turn EXCEPT ![t].state = s]
  <2>1. turn'[t] \in TurnRow /\ turn'[t].state = s /\ turn'[t].outcome = turn[t].outcome
        /\ turn[t].outcome = "none"
    BY <1>0, <1>2 DEF RowTypes, TurnRow, TurnStates, Active
  <2>2. Elsewhere(t) BY <1>0, <1>2 DEF Elsewhere, RowTypes
  <2>3. turn' \in [Turns -> TurnRow] BY <1>0, <1>2, <2>1 DEF RowTypes
  <2>4. \A u \in Turns : turn'[u].state = "finished" <=> turn'[u].outcome # "none"
    BY <1>0, <2>1, <2>2 DEF RowTypes, Elsewhere, Active
  <2>5. RowTypes' BY <1>0, <2>3, <2>4 DEF RowTypes
  <2>6. AgreeAt(t)' BY <1>0, <1>2, <2>1 DEF AgreeAt, Active
  <2> QED BY <2>2, <2>5, <2>6
<1> QED BY <1>1, <1>2

\* authorize moves the turn to awaiting_approval.
LEMMA AskApprovalStep ==
  ASSUME IInv, AskApproval
  PROVE  IInv'
<1>t. PICK t \in Turns : t = exec.turn BY DEF IInv, TaskInv, AskApproval
<1>0. ProcessTypes /\ exec \in Exec /\ TaskInv BY TypeParts DEF IInv
<1>1. /\ UNCHANGED <<actions, work, life, epoch, up, initialized, stop, sched, ready, cancelled, faults>>
      /\ exec.pc = "working" /\ exec.asks < MaxAsks
      /\ exec' = [exec EXCEPT !.asking = TRUE, !.asks = @ + 1]
  BY DEF AskApproval, process
<1>2. ProcessTypes' BY <1>0, <1>1 DEF ProcessTypes
<1>3. /\ exec' \in Exec /\ exec'.pc = "working" /\ exec'.turn = exec.turn
      /\ exec'.version = exec.version
  <2>1. exec.asks + 1 \in 0 .. MaxAsks BY <1>0, <1>1, BoundAssumption DEF Exec
  <2> QED BY <1>0, <1>1, <2>1 DEF Exec
<1>4. Elsewhere(t) /\ RowTypes' /\ AgreeAt(t)'
  <2>1. "awaiting_approval" \in Active BY DEF Active
  <2>2. \/ UNCHANGED turn
        \/ /\ turn[t].state \in Active
           /\ turn' = [turn EXCEPT ![t].state = "awaiting_approval"]
    BY <1>t DEF AskApproval, Active
  <2> QED BY <1>1, <2>1, <2>2, AskRows
<1> QED BY <1>t, <1>1, <1>2, <1>3, <1>4, OwnRows DEF CleanPcs

\* The finally clause of authorize.
LEMMA AskedRows ==
  ASSUME IInv, NEW t \in Turns, UNCHANGED <<work, life, cancelled>>, turn' = Asked(t)
  PROVE  Elsewhere(t) /\ RowTypes' /\ AgreeAt(t)'
<1>1. "running" \in Active BY DEF Active
<1>2. \/ UNCHANGED turn
      \/ /\ turn[t].state \in Active
         /\ turn' = [turn EXCEPT ![t].state = "running"]
  BY DEF Asked, Active
<1> QED BY <1>1, <1>2, AskRows

\* An answered approval moves it back, unless it was cancelled meanwhile.
LEMMA AnswerStep ==
  ASSUME IInv, Answer
  PROVE  IInv'
<1>t. PICK t \in Turns : t = exec.turn BY DEF IInv, TaskInv, Answer
<1>0. ProcessTypes /\ exec \in Exec /\ TaskInv BY TypeParts DEF IInv
<1>1. /\ UNCHANGED <<actions, work, life, epoch, up, initialized, stop, sched, ready, cancelled, faults>>
      /\ exec.asking /\ exec' = [exec EXCEPT !.asking = FALSE] /\ turn' = Asked(t)
  BY <1>t DEF Answer, process
<1>2. ProcessTypes' BY <1>0, <1>1 DEF ProcessTypes
<1>3. /\ exec' \in Exec /\ exec'.pc = exec.pc /\ exec'.turn = exec.turn
      /\ exec'.version = exec.version /\ exec'.timer = exec.timer /\ exec'.outcome = exec.outcome
      /\ ~exec'.asking
  BY <1>0, <1>1 DEF Exec
<1>4. exec.pc \notin {"none", "created"} BY <1>0, <1>1 DEF TaskInv
<1>5. Elsewhere(t) /\ RowTypes' /\ AgreeAt(t)' BY <1>1, AskedRows
<1> QED BY <1>t, <1>0, <1>1, <1>2, <1>3, <1>4, <1>5, OwnRows DEF TaskInv

\* So does a cancellation that interrupts the work.
LEMMA InterruptedStep ==
  ASSUME IInv, Interrupted
  PROVE  IInv'
<1>t. PICK t \in Turns : t = exec.turn BY DEF IInv, TaskInv, Interrupted
<1>0. ProcessTypes /\ exec \in Exec /\ TaskInv BY TypeParts DEF IInv
<1>1. /\ UNCHANGED <<actions, work, life, epoch, up, initialized, stop, sched, ready, cancelled, faults>>
      /\ exec.pc \in {"opening", "working"} /\ turn' = Asked(t)
  BY <1>t DEF Interrupted, process
<1>2. ProcessTypes' BY <1>0, <1>1 DEF ProcessTypes
<1>3. PICK outcome \in {"timed_out", "cancelled", "indeterminate"} :
        exec' = [exec EXCEPT !.pc = IF @ = "working" THEN "draining" ELSE "untiming",
                             !.timer = @ /\ exec.pc = "working",
                             !.outcome = outcome, !.cancel = FALSE, !.asking = FALSE]
  BY DEF Interrupted
<1>4. /\ exec'.pc = (IF exec.pc = "working" THEN "draining" ELSE "untiming")
      /\ exec'.timer = (exec.timer /\ exec.pc = "working")
      /\ exec'.outcome = outcome /\ ~exec'.asking
      /\ exec'.turn = exec.turn /\ exec'.version = exec.version
  BY <1>0, <1>3 DEF Exec
<1>5. exec' \in Exec
  BY <1>0, <1>3 DEF Exec, ExecPcs, Outcomes
<1>6. Elsewhere(t) /\ RowTypes' /\ AgreeAt(t)' BY <1>1, AskedRows
<1> QED BY <1>t, <1>1, <1>2, <1>4, <1>5, <1>6, OwnRows DEF CleanPcs

\* The second gather, after which the clean-up is recorded as running.
LEMMA StopTimerStep ==
  ASSUME IInv, StopTimer
  PROVE  IInv'
<1>t. PICK t \in Turns : t = exec.turn BY DEF IInv, TaskInv, StopTimer
<1>0. ProcessTypes /\ RowTypes /\ exec \in Exec /\ TaskInv /\ AgreeAt(t) /\ StageAt(t)
  BY TypeParts DEF IInv, RowInv
<1>1. /\ UNCHANGED <<actions, turn, work, epoch, up, initialized, stop, sched, ready, cancelled, faults>>
      /\ exec.pc = "untiming" /\ exec' = [exec EXCEPT !.pc = "closing"]
      /\ life' = IF life[t].owner = epoch THEN [life EXCEPT ![t].cleanup = "running"] ELSE life
  BY <1>t DEF StopTimer, process
<1>2. ProcessTypes' BY <1>0, <1>1 DEF ProcessTypes
<1>3. /\ exec' \in Exec /\ exec'.pc = "closing" /\ exec'.turn = exec.turn
      /\ exec'.version = exec.version /\ exec'.outcome = exec.outcome
      /\ exec'.timer = exec.timer /\ exec'.asking = exec.asking
  BY <1>0, <1>1 DEF Exec, ExecPcs
<1>4. exec.outcome # "none" /\ ~exec.timer /\ ~exec.asking BY <1>0, <1>1 DEF TaskInv, Exec
<1>5. /\ life'[t] \in LifeRow /\ life'[t].cancel = life[t].cancel /\ life'[t].owner = life[t].owner
      /\ life[t].owner # epoch => life'[t] = life[t]
  BY <1>0, <1>1 DEF RowTypes, LifeRow
<1>6. Elsewhere(t) BY <1>0, <1>1 DEF Elsewhere, RowTypes
<1>7. RowTypes'
  <2>1. life' \in [Turns -> LifeRow] BY <1>0, <1>1, <1>5 DEF RowTypes
  <2> QED BY <1>0, <1>1, <2>1 DEF RowTypes
<1>8. AgreeAt(t)' BY <1>0, <1>1 DEF AgreeAt
<1> QED BY <1>t, <1>1, <1>2, <1>3, <1>4, <1>5, <1>6, <1>7, <1>8, OwnRows DEF CleanPcs

\* The last write of execute_turn ends the turn or leaves it to reconciliation.
LEMMA SettleStep ==
  ASSUME IInv, Settle
  PROVE  IInv'
<1>t. PICK t \in Turns : t = exec.turn BY DEF IInv, TaskInv, Settle
<1>0. /\ ProcessTypes /\ RowTypes /\ exec \in Exec /\ AgreeAt(t) /\ AnsweredAt(t) /\ StageAt(t)
      /\ exec.outcome \in Outcomes /\ work[t].state \in Held /\ exec.version = 1
  <2>1. ProcessTypes /\ RowTypes /\ exec \in Exec BY TypeParts DEF IInv
  <2>2. exec.outcome # "none" /\ work[t].state \in Held /\ exec.version = 1
    BY <1>t DEF IInv, TaskInv, HoldInv, Settle
  <2> QED BY <2>1, <2>2 DEF IInv, RowInv, Exec
<1>1. /\ UNCHANGED <<actions, epoch, up, initialized, stop, ready, cancelled>>
      /\ exec' = NoExec /\ sched' = "poll" /\ faults' \in 0 .. MaxFaults
  BY <1>0, BoundAssumption DEF Settle, process, Done, ProcessTypes
<1>2. ProcessTypes' BY <1>0, <1>1 DEF ProcessTypes
<1>3. /\ exec' \in Exec /\ TaskInv' /\ HoldInv' /\ CleanInv'
  <2>1. exec' \in Exec BY <1>1 DEF NoExec, Exec, ExecPcs, Outcomes
  <2>2. TaskInv' BY <1>1 DEF TaskInv, NoExec
  <2>3. exec'.pc = "none" BY <1>1 DEF NoExec
  <2> QED BY <2>1, <2>2, <2>3 DEF HoldInv, CleanInv
<1>4. PICK cleanup \in {"clean", "unknown"}, outcome \in Outcomes :
        Finish(t, outcome, cleanup) \/ Reconcile(t, cleanup)
  <2>1. PICK cleanup \in {"clean", "unknown"} :
          LET outcome == IF exec.outcome \in {"cancelled", "timed_out"} /\ cleanup # "clean"
                         THEN "indeterminate" ELSE exec.outcome
          IN  Finish(t, outcome, cleanup) \/ Reconcile(t, cleanup)
    BY <1>t DEF Settle
  <2> QED BY <1>0, <2>1 DEF Outcomes
<1>5. turn[t].state # "none" /\ work[t].version = 1 /\ work[t].owner = epoch
      /\ (life[t] = NoRow \/ life[t].owner = epoch)
      /\ (t \in cancelled => life[t].cancel = "requested" /\ life[t].owner = epoch)
  BY <1>0 DEF AgreeAt, StageAt, Held
<1>6. CASE Finish(t, outcome, cleanup)
  <2>1. /\ work' = [work EXCEPT ![t].state = "finished", ![t].version = @ + 1]
        /\ turn' = [turn EXCEPT ![t] = [state |-> "finished", outcome |-> outcome]]
        /\ life' = IF life[t].owner # epoch THEN life
                   ELSE [life EXCEPT ![t].cancel = CancelState(@ = "requested", outcome, cleanup),
                                     ![t].cleanup = cleanup]
    BY <1>0, <1>5, <1>6 DEF Finish, Held
  <2>2. work'[t] = [state |-> "finished", version |-> 2, owner |-> epoch]
    BY <1>0, <1>5, <2>1 DEF RowTypes, WorkRow
  <2>3. work'[t] \in WorkRow /\ work'[t].state = "finished" /\ work'[t].version = 2
    BY <1>0, <2>2 DEF ProcessTypes, WorkRow, TurnStates
  <2>4. /\ turn'[t] = [state |-> "finished", outcome |-> outcome]
        /\ turn'[t] \in TurnRow /\ turn'[t].state = "finished" /\ turn'[t].outcome = outcome
        /\ turn'[t].outcome # "none"
    BY <1>0, <1>4, <2>1 DEF RowTypes, TurnRow, TurnStates, Outcomes
  <2>5. /\ life'[t] \in LifeRow
        /\ life[t].owner = epoch =>
             /\ life'[t].cancel = CancelState(life[t].cancel = "requested", outcome, cleanup)
             /\ life'[t].cleanup = cleanup
    BY <1>0, <1>4, <2>1 DEF RowTypes, LifeRow, CancelState
  <2>6. Elsewhere(t) BY <1>0, <1>1, <2>1 DEF Elsewhere, RowTypes
  <2>7. RowTypes'
    <3>1. turn' \in [Turns -> TurnRow] BY <1>0, <2>1, <2>4 DEF RowTypes
    <3>2. work' \in [Turns -> WorkRow] BY <1>0, <2>1, <2>3 DEF RowTypes
    <3>3. life' \in [Turns -> LifeRow] BY <1>0, <2>1, <2>5 DEF RowTypes
    <3>4. \A u \in Turns : turn'[u].state = "finished" <=> turn'[u].outcome # "none"
      BY <1>0, <2>4, <2>6 DEF RowTypes, Elsewhere
    <3> QED BY <1>0, <1>1, <3>1, <3>2, <3>3, <3>4 DEF RowTypes
  <2>8. AgreeAt(t)' BY <2>3, <2>4 DEF AgreeAt
  <2>9. AnsweredAt(t)'
    BY <1>1, <1>5, <2>4, <2>5 DEF AnsweredAt, CancelState
  <2>10. StageAt(t)' BY <2>3 DEF StageAt, Held
  <2> QED BY <1>1, <1>2, <1>3, <1>5, <2>4, <2>6, <2>7, <2>8, <2>9, <2>10, OneTurn
<1>7. CASE Reconcile(t, cleanup)
  <2>1. /\ work' = [work EXCEPT ![t].state = "reconciling", ![t].version = @ + 1]
        /\ turn' = [turn EXCEPT ![t].state = "reconciling"]
        /\ life' = IF life[t] = NoRow THEN life
                   ELSE [life EXCEPT ![t].cancel = "indeterminate", ![t].cleanup = cleanup]
    BY <1>7 DEF Reconcile
  <2>2. work'[t] = [state |-> "reconciling", version |-> 2, owner |-> epoch]
    BY <1>0, <1>5, <2>1 DEF RowTypes, WorkRow
  <2>3. work'[t] \in WorkRow /\ work'[t].state = "reconciling" /\ work'[t].version = 2
    BY <1>0, <2>2 DEF ProcessTypes, WorkRow, TurnStates
  <2>4. /\ turn'[t] \in TurnRow /\ turn'[t].state = "reconciling"
        /\ turn'[t].outcome = turn[t].outcome /\ turn[t].outcome = "none"
    BY <1>0, <2>1 DEF RowTypes, TurnRow, TurnStates, AgreeAt, Held
  <2>5. life'[t] \in LifeRow
    BY <1>0, <1>4, <2>1 DEF RowTypes, LifeRow
  <2>6. Elsewhere(t) BY <1>0, <1>1, <2>1 DEF Elsewhere, RowTypes
  <2>7. RowTypes'
    <3>1. turn' \in [Turns -> TurnRow] BY <1>0, <2>1, <2>4 DEF RowTypes
    <3>2. work' \in [Turns -> WorkRow] BY <1>0, <2>1, <2>3 DEF RowTypes
    <3>3. life' \in [Turns -> LifeRow] BY <1>0, <2>1, <2>5 DEF RowTypes
    <3>4. \A u \in Turns : turn'[u].state = "finished" <=> turn'[u].outcome # "none"
      BY <1>0, <2>4, <2>6 DEF RowTypes, Elsewhere
    <3> QED BY <1>0, <1>1, <3>1, <3>2, <3>3, <3>4 DEF RowTypes
  <2>8. AgreeAt(t)' /\ AnsweredAt(t)' BY <2>3, <2>4 DEF AgreeAt, AnsweredAt
  <2>10. StageAt(t)' BY <2>3 DEF StageAt, Held
  <2> QED BY <1>1, <1>2, <1>3, <1>5, <2>4, <2>6, <2>7, <2>8, <2>10, OneTurn
<1> QED BY <1>4, <1>6, <1>7

-----------------------------------------------------------------------------
(***************************************************************************)
(* Acceptance and the start of the engine.                                 *)
(***************************************************************************)
\* The number of accepted turns is the number of the last one.
LEMMA LastAccepted ==
  ASSUME OrderInv
  PROVE  Cardinality(Accepted) \in 0 .. MaxTurns /\ Accepted = 1 .. Cardinality(Accepted)
<1>1. PICK n \in 0 .. MaxTurns : Accepted = 1 .. n BY DEF OrderInv
<1>2. Cardinality(1 .. n) = n BY <1>1, FS_Interval
<1> QED BY <1>1, <1>2

\* session.start_turn adds the next turn, or answers a repeated action with the old one.
LEMMA AcceptStep ==
  ASSUME IInv, NEW a \in Actions, Accept(a)
  PROVE  IInv'
<1>0. /\ ProcessTypes /\ RowTypes /\ exec \in Exec /\ TaskInv /\ HoldInv /\ CleanInv
      /\ OrderInv /\ ActionInv /\ RowInv /\ actions \in [Actions -> Turns \cup {0}]
  BY TypeParts DEF IInv
<1>1. UNCHANGED <<epoch, up, initialized, stop, sched, exec, cancelled, faults, life>> /\ ready' = TRUE
  BY DEF Accept, process, rows
<1>2. ProcessTypes' BY <1>0, <1>1 DEF ProcessTypes
<1>3. TaskInv' BY <1>0, <1>1 DEF TaskInv
<1>4. CASE UNCHANGED rows BY <1>0, <1>1, <1>2, <1>3, <1>4, ExecOnly
<1>5. CASE actions[a] = 0 /\ Cardinality(Accepted) < MaxTurns /\ ~UNCHANGED rows
  <2>1. /\ Cardinality(Accepted) \in 0 .. MaxTurns /\ Accepted = 1 .. Cardinality(Accepted)
    BY <1>0, LastAccepted
  <2>2. PICK t \in Turns : t = Cardinality(Accepted) + 1
    BY <1>5, <2>1, BoundAssumption DEF Turns
  <2>3. t \notin Accepted /\ Accepted \cup {t} = 1 .. t /\ t \in 0 .. MaxTurns
    BY <2>1, <2>2, BoundAssumption DEF Turns
  <2>4. /\ actions' = [actions EXCEPT ![a] = t]
        /\ turn' = [turn EXCEPT ![t].state = "queued"]
        /\ work' = [work EXCEPT ![t].state = "queued"]
    BY <1>5, <2>2 DEF Accept
  <2>5. turn[t].state = "none" /\ turn[t].outcome = "none"
    BY <1>0, <2>3 DEF Accepted, RowTypes
  <2>6. work[t] = [state |-> "none", version |-> 0, owner |-> 0] /\ life[t] = NoRow /\ t \notin cancelled
    BY <1>0, <2>5 DEF RowInv, AgreeAt, StageAt
  <2>7. work'[t] = [state |-> "queued", version |-> 0, owner |-> 0]
    BY <1>0, <2>4, <2>6 DEF RowTypes
  <2>8. turn'[t] \in TurnRow /\ turn'[t].state = "queued" /\ turn'[t].outcome = "none"
    BY <1>0, <2>4, <2>5 DEF RowTypes, TurnRow, TurnStates
  <2>9. \A u \in Turns \ {t} : turn'[u] = turn[u] /\ work'[u] = work[u]
    BY <1>0, <2>4 DEF RowTypes
  <2>10. TypeOK'
    <3>1. turn' \in [Turns -> TurnRow] BY <1>0, <2>4, <2>8 DEF RowTypes
    <3>2. work' \in [Turns -> WorkRow]
      <4>1. work'[t] \in WorkRow BY <2>7, BoundAssumption DEF WorkRow, TurnStates
      <4> QED BY <1>0, <2>4, <4>1 DEF RowTypes
    <3>3. \A u \in Turns : turn'[u].state = "finished" <=> turn'[u].outcome # "none"
      BY <1>0, <2>8, <2>9 DEF RowTypes
    <3>4. RowTypes' BY <1>0, <1>1, <3>1, <3>2, <3>3 DEF RowTypes
    <3>5. actions' \in [Actions -> Turns \cup {0}] BY <1>0, <2>4
    <3> QED BY <1>0, <1>1, <1>2, <3>4, <3>5, TypeParts
  <2>11. RowInv'
    <3> SUFFICES ASSUME NEW u \in Turns PROVE (AgreeAt(u) /\ AnsweredAt(u) /\ StageAt(u))'
      BY DEF RowInv
    <3>1. CASE u = t
      BY <1>1, <2>6, <2>7, <2>8, <3>1 DEF AgreeAt, AnsweredAt, StageAt, Held
    <3>2. CASE u # t
      BY <1>0, <1>1, <2>9, <3>2 DEF RowInv, AgreeAt, AnsweredAt, StageAt
    <3> QED BY <3>1, <3>2
  <2>12. HoldInv'
    <3> SUFFICES ASSUME exec.pc \notin {"none", "created"} PROVE HoldInv' BY <1>1 DEF HoldInv
    <3>1. /\ work[exec.turn].state \in Held /\ exec.version = 1 /\ exec.turn \in Turns
          /\ \A u \in Turns \ {exec.turn} : work[u].state # "running"
      BY <1>0 DEF HoldInv, TaskInv
    <3>2. exec.turn # t BY <2>6, <3>1 DEF Held
    <3> QED BY <1>1, <2>7, <2>9, <3>1, <3>2 DEF HoldInv
  <2>13. CleanInv'
    <3> SUFFICES ASSUME exec.pc \in CleanPcs, NEW u \in Turns \ {exec.turn}
                 PROVE  life[u] = NoRow \/ life[u].cleanup = "clean"
                        \/ work'[u].state = "cancel_requested"
      BY <1>1 DEF CleanInv, CleanPcs
    <3> QED BY <1>0, <2>6, <2>9 DEF CleanInv, CleanPcs
  <2>14. OrderInv'
    <3>1. Accepted' = Accepted \cup {t} BY <2>8, <2>9 DEF Accepted
    <3> QED BY <2>3, <3>1 DEF OrderInv
  <2>15. ActionInv'
    <3>1. \A b \in Actions : actions[b] # t
      BY <1>0, <2>5 DEF ActionInv, Turns
    <3>2. t # 0 BY DEF Turns
    <3> QED BY <1>0, <2>4, <2>8, <2>9, <3>1, <3>2 DEF ActionInv
  <2> QED BY <1>3, <2>10, <2>11, <2>12, <2>13, <2>14, <2>15 DEF IInv
<1> QED BY <1>4, <1>5 DEF Accept

\* The store is opened by a new epoch: work that an earlier process held waits for
\* reconciliation, in both tables.
LEMMA StartEngineStep ==
  ASSUME IInv, StartEngine
  PROVE  IInv'
<1>0. /\ ProcessTypes /\ RowTypes /\ exec \in Exec /\ TaskInv
      /\ OrderInv /\ ActionInv /\ RowInv /\ actions \in [Actions -> Turns \cup {0}]
  BY TypeParts DEF IInv
<1>1. /\ ~up /\ epoch < MaxEpochs /\ epoch' = epoch + 1 /\ up' = TRUE /\ initialized' = FALSE
      /\ stop' = "no" /\ sched' = "poll" /\ ready' = FALSE
      /\ UNCHANGED <<actions, exec, cancelled, faults>>
  BY DEF StartEngine
<1>2. exec = NoExec /\ exec.pc = "none" BY <1>0, <1>1 DEF TaskInv
<1>3. ProcessTypes'
  <2>1. epoch' \in 0 .. MaxEpochs BY <1>0, <1>1, BoundAssumption DEF ProcessTypes
  <2> QED BY <1>0, <1>1, <2>1 DEF ProcessTypes
<1>4. TaskInv' BY <1>0, <1>1, <1>2 DEF TaskInv
<1>5. HoldInv' /\ CleanInv' BY <1>1, <1>2 DEF HoldInv, CleanInv
<1>6. /\ work' = [t \in Turns |->
            IF work[t].state \in Held /\ work[t].owner # epoch'
            THEN [work[t] EXCEPT !.state = "reconciling", !.version = @ + 1] ELSE work[t]]
      /\ turn' = [t \in Turns |-> IF work'[t].state = "reconciling" /\ turn[t].state # "finished"
                   THEN [turn[t] EXCEPT !.state = "reconciling"] ELSE turn[t]]
      /\ life' = [t \in Turns |-> IF life[t].owner # epoch' /\ life[t].cleanup \in {"pending", "running"}
                   THEN [life[t] EXCEPT !.cleanup = "unknown", !.cancel = "indeterminate"]
                   ELSE life[t]]
  BY DEF StartEngine, Recovered, RecoveredTurns, RecoveredLife, Held
<1>7. ASSUME NEW t \in Turns
      PROVE  /\ work'[t] \in WorkRow /\ turn'[t] \in TurnRow /\ life'[t] \in LifeRow
             /\ turn'[t].state = "finished" <=> turn'[t].outcome # "none"
             /\ turn'[t].state = "none" <=> turn[t].state = "none"
             /\ AgreeAt(t)' /\ AnsweredAt(t)' /\ StageAt(t)'
  <2>0. /\ AgreeAt(t) /\ AnsweredAt(t) /\ StageAt(t)
        /\ turn[t] \in TurnRow /\ work[t] \in WorkRow /\ life[t] \in LifeRow
        /\ turn[t].state = "finished" <=> turn[t].outcome # "none"
    BY <1>0 DEF RowInv, RowTypes
  <2>a. /\ work'[t] = IF work[t].state \in Held /\ work[t].owner # epoch'
              THEN [work[t] EXCEPT !.state = "reconciling", !.version = @ + 1] ELSE work[t]
        /\ turn'[t] = IF work'[t].state = "reconciling" /\ turn[t].state # "finished"
              THEN [turn[t] EXCEPT !.state = "reconciling"] ELSE turn[t]
        /\ life'[t] = IF life[t].owner # epoch' /\ life[t].cleanup \in {"pending", "running"}
              THEN [life[t] EXCEPT !.cleanup = "unknown", !.cancel = "indeterminate"] ELSE life[t]
    BY <1>6
  <2>1. /\ life'[t] \in LifeRow
        /\ life[t] = NoRow => life'[t] = NoRow
        /\ life[t].cancel = "confirmed" /\ life[t].cleanup = "clean" => life'[t] = life[t]
        /\ life'[t] = life[t] \/ life'[t].cancel = "indeterminate"
    <3>1. CASE life[t].owner # epoch' /\ life[t].cleanup \in {"pending", "running"}
      <4>1. life'[t] = [life[t] EXCEPT !.cleanup = "unknown", !.cancel = "indeterminate"]
        BY <2>a, <3>1
      <4>2. life'[t] \in LifeRow /\ life'[t].cancel = "indeterminate"
        BY <2>0, <4>1 DEF LifeRow
      <4> QED BY <3>1, <4>2 DEF NoRow
    <3>2. CASE ~(life[t].owner # epoch' /\ life[t].cleanup \in {"pending", "running"})
      BY <2>0, <2>a, <3>2
    <3> QED BY <3>1, <3>2
  <2>2. CASE work[t].state \in Held
    <3>1. work[t].version = 1 /\ work[t].owner = epoch /\ epoch # epoch'
      BY <1>0, <1>1, <2>0, <2>2 DEF StageAt, ProcessTypes
    <3>2. work'[t] = [state |-> "reconciling", version |-> 2, owner |-> epoch]
      <4>1. work'[t] = [work[t] EXCEPT !.state = "reconciling", !.version = @ + 1]
        BY <2>2, <2>a, <3>1
      <4>2. \A r \in WorkRow : [r EXCEPT !.state = "reconciling"]
                             = [state |-> "reconciling", version |-> r.version, owner |-> r.owner]
        BY DEF WorkRow
      <4>3. work'[t] = [[state |-> "reconciling", version |-> 1, owner |-> epoch]
                          EXCEPT !.version = @ + 1]
        BY Zenon, <2>0, <3>1, <4>1, <4>2
      <4> QED BY <4>3
    <3>3. work'[t] \in WorkRow BY <1>0, <3>2 DEF WorkRow, TurnStates, ProcessTypes
    <3>4. turn[t].state \notin {"none", "finished"} BY <2>0, <2>2 DEF AgreeAt, Held
    <3>5. turn'[t] = [turn[t] EXCEPT !.state = "reconciling"] BY <2>a, <3>2, <3>4
    <3>6. turn'[t] \in TurnRow /\ turn'[t].state = "reconciling" /\ turn'[t].outcome = turn[t].outcome
      BY <2>0, <3>5 DEF TurnRow, TurnStates
    <3> QED BY <2>0, <2>1, <3>2, <3>3, <3>4, <3>6 DEF AgreeAt, AnsweredAt, StageAt, Held
  <2>3. CASE work[t].state \notin Held
    <3>1. work'[t] = work[t] BY <2>a, <2>3
    <3>2. work[t].state = "reconciling" => turn[t].state = "reconciling"
      BY <2>0 DEF AgreeAt
    <3>3. turn'[t] = turn[t]
      <4>1. turn[t].state = "reconciling" => [turn[t] EXCEPT !.state = "reconciling"] = turn[t]
        BY <2>0 DEF TurnRow
      <4> QED BY <2>a, <3>1, <3>2, <4>1
    <3>4. AgreeAt(t)' BY <2>0, <3>1, <3>3 DEF AgreeAt
    <3>5. AnsweredAt(t)' BY <1>1, <2>0, <2>1, <3>3 DEF AnsweredAt
    <3>6. StageAt(t)' BY <1>1, <2>0, <2>1, <2>3, <3>1 DEF StageAt, Held
    <3> QED BY <2>0, <2>1, <3>1, <3>3, <3>4, <3>5, <3>6
  <2> QED BY <2>2, <2>3
<1>8. RowTypes'
  <2>1. work' \in [Turns -> WorkRow] BY <1>6, <1>7
  <2>2. turn' \in [Turns -> TurnRow] BY <1>6, <1>7
  <2>3. life' \in [Turns -> LifeRow] BY <1>6, <1>7
  <2> QED BY <1>0, <1>1, <1>7, <2>1, <2>2, <2>3 DEF RowTypes
<1>9. TypeOK' BY <1>0, <1>1, <1>3, <1>8, TypeParts
<1>10. RowInv' BY <1>7 DEF RowInv
<1>11. OrderInv' /\ ActionInv' BY <1>0, <1>1, <1>7, OrderKept
<1> QED BY <1>4, <1>5, <1>9, <1>10, <1>11 DEF IInv

-----------------------------------------------------------------------------
\* Rows, claims and history fit together in every reachable state.
THEOREM Inductive == Spec => []IInv
<1>1. Init => IInv
  <2> SUFFICES ASSUME Init PROVE IInv OBVIOUS
  <2> USE DEF Init
  <2>1. RowTypes
    <3>1. NoTurn \in TurnRow BY DEF NoTurn, TurnRow, TurnStates
    <3>2. NoWork \in WorkRow BY BoundAssumption DEF NoWork, WorkRow, TurnStates
    <3>3. NoRow \in LifeRow BY BoundAssumption DEF NoRow, LifeRow
    <3>4. turn \in [Turns -> TurnRow] /\ work \in [Turns -> WorkRow] /\ life \in [Turns -> LifeRow]
      BY <3>1, <3>2, <3>3
    <3>5. \A t \in Turns : turn[t].state = "none" /\ turn[t].outcome = "none" BY DEF NoTurn
    <3>6. cancelled \subseteq Turns OBVIOUS
    <3>7. \A t \in Turns : turn[t].state = "finished" <=> turn[t].outcome # "none"
      BY <3>5
    <3> QED BY <3>4, <3>6, <3>7 DEF RowTypes
  <2>2. ProcessTypes
    <3>1. epoch \in 0 .. MaxEpochs /\ faults \in 0 .. MaxFaults BY BoundAssumption
    <3> QED BY <3>1 DEF ProcessTypes
  <2>3. exec \in Exec BY BoundAssumption DEF NoExec, Exec, ExecPcs
  <2>4. TypeOK BY <2>1, <2>2, <2>3, TypeParts
  <2>5. RowInv BY DEF RowInv, AgreeAt, AnsweredAt, StageAt, NoTurn, NoWork, Held
  <2>6. TaskInv /\ HoldInv /\ CleanInv BY DEF TaskInv, HoldInv, CleanInv, NoExec
  <2>7. OrderInv
    <3>1. Accepted = 1 .. 0 BY DEF Accepted, NoTurn
    <3> QED BY <3>1, BoundAssumption DEF OrderInv
  <2>8. ActionInv BY DEF ActionInv
  <2> QED BY <2>4, <2>5, <2>6, <2>7, <2>8 DEF IInv
<1>2. IInv /\ [Next]_vars => IInv'
  <2> SUFFICES ASSUME IInv, [Next]_vars PROVE IInv' OBVIOUS
  <2>1. CASE EngineStep
    BY <2>1, PollStep, ClaimStep, BeginStep, OpenStep, AnswerStep, WorkEndsStep,
       InterruptedStep, StopObservingStep, StopTimerStep, LossSteps, SettleStep,
       ShutdownCancelsStep, ExitStep DEF EngineStep
  <2>2. CASE Environment
    BY <2>2, ProcessSteps, AcceptStep, CancelStep, ExpireStep, AskApprovalStep,
       ProjectionFailsStep, LossSteps, StartEngineStep DEF Environment
  <2>3. CASE UNCHANGED vars
    <3> USE <2>3 DEF vars, rows, process
    <3>1. TypeOK' BY DEF IInv, TypeOK
    <3>2. RowInv' BY DEF IInv, RowInv, AgreeAt, AnsweredAt, StageAt
    <3>3. TaskInv' /\ HoldInv' /\ CleanInv' BY DEF IInv, TaskInv, HoldInv, CleanInv
    <3>4. OrderInv' /\ ActionInv' BY DEF IInv, OrderInv, ActionInv, Accepted
    <3> QED BY <3>1, <3>2, <3>3, <3>4 DEF IInv
  <2> QED BY <2>1, <2>2, <2>3 DEF Next
<1> QED BY <1>1, <1>2, PTL DEF Spec

\* Types; a turn has an outcome exactly when it is finished.
THEOREM Types == Spec => []TypeOK
<1>1. IInv => TypeOK BY DEF IInv
<1> QED BY <1>1, Inductive, PTL

\* The turns and the work_items table agree after every transaction, recovery included.
THEOREM TablesAgree == Spec => []RowsAgree
<1>1. IInv => RowsAgree BY DEF IInv, RowInv, AgreeAt, RowsAgree
<1> QED BY <1>1, Inductive, PTL

\* A turn works only while its claim stands, and only where nothing of another turn is left
\* open.
THEOREM ClaimHolds == Spec => []OwnerHolds
<1>1. IInv => OwnerHolds
  <2> SUFFICES ASSUME IInv PROVE OwnerKeeps /\ StartsOnClean BY DEF OwnerHolds
  <2>1. OwnerKeeps
    BY DEF IInv, HoldInv, RowInv, StageAt, TaskInv, OwnerKeeps, Held
  <2>2. StartsOnClean
    BY DEF IInv, CleanInv, RowInv, StageAt, StartsOnClean, Unsettled, Owns, Held
  <2> QED BY <2>1, <2>2
<1> QED BY <1>1, Inductive, PTL

\* Whoever cancelled a turn is told what became of it, and told "confirmed" only when all
\* is cleaned up and no effect is in doubt.
THEOREM CancellationAnswered == Spec => []CancelAnswered
<1>1. IInv => CancelAnswered
  BY DEF IInv, TypeOK, RowInv, AnsweredAt, CancelAnswered
<1> QED BY <1>1, Inductive, PTL

-----------------------------------------------------------------------------
\* The state function of the refinement mapping.
Fates == [a \in Actions |-> Fate(actions[a])]

\* What may become of the fate of one turn in a step.
FateMoves(t) ==
  \/ Fate(t)' = Fate(t)
  \/ Fate(t) = "accepted" /\ Fate(t)' = "cancelled"
  \/ Fate(t) = "accepted" /\ Fate(t)' = "started" /\ \A u \in Turns : Fate(u) # "started"
  \/ Fate(t) = "started" /\ Fate(t)' \in Outcomes \cup {"lost"}

\* The fate of an accepted turn, before and after a step.
LEMMA FateIs ==
  ASSUME NEW t \in Turns
  PROVE  /\ Fate(0) = "none" /\ Fate(0)' = "none"
         /\ Fate(t) = IF turn[t].state = "queued" THEN "accepted"
                      ELSE IF turn[t].state = "finished" THEN turn[t].outcome
                      ELSE IF Owns(t) THEN "started" ELSE "lost"
         /\ Fate(t)' = IF turn'[t].state = "queued" THEN "accepted"
                       ELSE IF turn'[t].state = "finished" THEN turn'[t].outcome
                       ELSE IF Owns(t)' THEN "started" ELSE "lost"
<1>1. t # 0 BY DEF Turns
<1> QED BY <1>1 DEF Fate

\* The fate of a turn without an action is nobody's; that of an action moves alone.
LEMMA OneFate ==
  ASSUME IInv, actions' = actions, NEW t \in Turns, FateMoves(t),
         \A u \in Turns \ {t} : Fate(u)' = Fate(u)
  PROVE  [Life!Next]_Fates
<1>0. /\ actions \in [Actions -> Turns \cup {0}]
      /\ \A a, b \in Actions : actions[a] = actions[b] /\ actions[a] # 0 => a = b
      /\ t # 0 /\ Fate(0) = "none" /\ Fate(0)' = "none"
  BY TypeParts, FateIs DEF IInv, ActionInv, Turns
<1>1. CASE \A a \in Actions : actions[a] # t
  <2>1. \A a \in Actions : Fate(actions[a])' = Fate(actions[a])
    <3> SUFFICES ASSUME NEW a \in Actions PROVE Fate(actions[a])' = Fate(actions[a]) OBVIOUS
    <3>1. PICK n \in Turns \cup {0} : n = actions[a] BY <1>0
    <3>2. Fate(n)' = Fate(n) BY <1>0, <1>1, <3>1
    <3>3. Fate(actions[a]) = Fate(n) /\ Fate(actions[a])' = Fate(n)' BY <3>1 DEF Fate, Owns
    <3> QED BY <3>2, <3>3
  <2> QED BY <2>1 DEF Fates
<1>2. ASSUME NEW a \in Actions, actions[a] = t PROVE [Life!Next]_Fates
  <2>1. \A b \in Actions \ {a} : Fate(actions[b])' = Fate(actions[b])
    <3> SUFFICES ASSUME NEW b \in Actions \ {a} PROVE Fate(actions[b])' = Fate(actions[b]) OBVIOUS
    <3>1. PICK n \in Turns \cup {0} : n = actions[b] BY <1>0
    <3>2. n # t BY <1>0, <1>2, <3>1
    <3>3. Fate(n)' = Fate(n) BY <1>0, <3>2
    <3>4. Fate(actions[b]) = Fate(n) /\ Fate(actions[b])' = Fate(n)' BY <3>1 DEF Fate, Owns
    <3> QED BY <3>3, <3>4
  <2>2. Fate(actions[a]) = Fate(t) /\ Fate(actions[a])' = Fate(t)' BY <1>2 DEF Fate, Owns
  <2>3. Fates[a] = Fate(t) /\ Fates' = [Fates EXCEPT ![a] = Fate(t)']
    BY <2>1, <2>2 DEF Fates
  <2>4. ASSUME \A u \in Turns : Fate(u) # "started"
        PROVE  \A b \in Actions : Fates[b] # "started"
    <3> SUFFICES ASSUME NEW b \in Actions PROVE Fates[b] # "started" OBVIOUS
    <3>1. PICK n \in Turns \cup {0} : n = actions[b] BY <1>0
    <3>2. Fate(n) # "started" BY <1>0, <2>4
    <3>3. Fate(actions[b]) = Fate(n) BY <3>1 DEF Fate, Owns
    <3> QED BY <3>2, <3>3 DEF Fates
  <2>5. CASE Fate(t)' = Fate(t) BY <2>3, <2>5 DEF Fates
  <2>6. CASE Fate(t) = "accepted" /\ Fate(t)' = "cancelled"
    BY <2>3, <2>6 DEF Life!Next, Life!Withdraw, Life!Move, Fates
  <2>7. CASE Fate(t) = "accepted" /\ Fate(t)' = "started" /\ \A u \in Turns : Fate(u) # "started"
    BY <2>3, <2>4, <2>7 DEF Life!Next, Life!Start, Life!Move, Fates
  <2>8. CASE Fate(t) = "started" /\ Fate(t)' \in Outcomes \cup {"lost"}
    BY <2>3, <2>8 DEF Life!Next, Life!End, Life!Lose, Life!Move, Fates
  <2> QED BY <2>5, <2>6, <2>7, <2>8 DEF FateMoves
<1> QED BY <1>1, <1>2

\* A step that neither ends, dequeues, takes up nor lets go of a turn.
LEMMA FatesKept ==
  ASSUME IInv, actions' = actions,
         \A t \in Turns :
           /\ turn'[t].state = "queued" <=> turn[t].state = "queued"
           /\ turn'[t].state = "finished" <=> turn[t].state = "finished"
           /\ turn[t].state = "finished" => turn'[t].outcome = turn[t].outcome
           /\ Owns(t)' <=> Owns(t)
  PROVE  Fates' = Fates
<1>0. actions \in [Actions -> Turns \cup {0}] BY TypeParts DEF IInv
<1> SUFFICES ASSUME NEW a \in Actions PROVE Fate(actions[a])' = Fate(actions[a])
  BY DEF Fates
<1>1. PICK n \in Turns \cup {0} : n = actions[a] BY <1>0
<1>2. Fate(n)' = Fate(n) BY FateIs DEF Fate
<1>3. Fate(actions[a]) = Fate(n) /\ Fate(actions[a])' = Fate(n)' BY <1>1 DEF Fate, Owns
<1> QED BY <1>2, <1>3

\* A task that ends without a last write loses its turn.
LEMMA LossFates ==
  ASSUME IInv, UNCHANGED <<actions, turn>>, exec' = NoExec
  PROVE  [Life!Next]_Fates
<1>1. \A u \in Turns : ~Owns(u)' BY DEF Owns, NoExec, Turns
<1>2. CASE \A u \in Turns : ~Owns(u)
  <2>1. Fates' = Fates BY <1>1, <1>2, FatesKept
  <2> QED BY <2>1
<1>3. ASSUME NEW t \in Turns, Owns(t) PROVE [Life!Next]_Fates
  <2>1. exec.pc \notin {"none", "created"} /\ exec.turn = t
    BY <1>3 DEF IInv, TaskInv, Owns, NoExec, Turns
  <2>2. turn[t].state \notin {"queued", "finished"}
    BY <2>1 DEF IInv, HoldInv, RowInv, AgreeAt, Held
  <2>3. FateMoves(t) BY <1>1, <1>3, <2>2, FateIs DEF FateMoves
  <2>4. \A u \in Turns \ {t} : ~Owns(u) BY <2>1 DEF Owns
  <2>5. \A u \in Turns \ {t} : Fate(u)' = Fate(u) BY <1>1, <2>4, FateIs
  <2> QED BY <2>3, <2>5, OneFate
<1> QED BY <1>2, <1>3

\* cancel_turn withdraws a turn that was not dispatched and leaves the fate of others.
LEMMA CancelFates ==
  ASSUME IInv, NEW t \in Turns, actions' = actions, CancelRows(t),
         exec'.turn = exec.turn, exec'.pc = exec.pc
  PROVE  [Life!Next]_Fates
<1>0. RowTypes BY TypeParts DEF IInv
<1>1. \A u \in Turns : Owns(u)' <=> Owns(u) BY DEF Owns
<1>2. CASE turn[t].state = "queued" /\ CancelQueued(t)
  <2>1. turn'[t] = [state |-> "finished", outcome |-> "cancelled"]
        /\ \A u \in Turns \ {t} : turn'[u] = turn[u]
    BY <1>0, <1>2 DEF CancelQueued, RowTypes
  <2>2. FateMoves(t) BY <1>2, <2>1, FateIs DEF FateMoves
  <2>3. \A u \in Turns \ {t} : Fate(u)' = Fate(u) BY <1>1, <2>1, FateIs
  <2> QED BY <2>2, <2>3, OneFate
<1>3. CASE turn[t].state \in Active /\ CancelActive(t)
  <2>1. turn'[t].state = "cancel_requested" /\ \A u \in Turns \ {t} : turn'[u] = turn[u]
    BY <1>0, <1>3 DEF CancelActive, RowTypes, TurnRow
  <2>2. Fates' = Fates BY <1>1, <1>3, <2>1, FatesKept DEF Active
  <2> QED BY <2>2
<1>4. CASE UNCHANGED turn
  <2>1. Fates' = Fates BY <1>1, <1>4, FatesKept
  <2> QED BY <2>1
<1> QED BY <1>2, <1>3, <1>4 DEF CancelRows

\* So does cancel_turn with its signal.
LEMMA CancelTurnFates ==
  ASSUME IInv, NEW t \in Turns, actions' = actions, CancelTurn(t)
  PROVE  [Life!Next]_Fates
<1>1. exec \in Exec BY TypeParts DEF IInv
<1>2. exec'.turn = exec.turn /\ exec'.pc = exec.pc BY <1>1 DEF CancelTurn, Exec
<1> QED BY <1>2, CancelFates DEF CancelTurn

\* A claim starts the turn when no other is being executed.
LEMMA ClaimFates ==
  ASSUME IInv, Claim
  PROVE  [Life!Next]_Fates
<1>t. PICK t \in Turns : t = exec.turn BY DEF IInv, TaskInv, Claim
<1>0. RowTypes /\ exec \in Exec /\ AgreeAt(t) /\ exec.pc = "created" /\ actions' = actions
  BY TypeParts DEF IInv, RowInv, Claim
<1>1. \A u \in Turns : ~Owns(u) BY <1>0 DEF Owns
<1>2. CASE Claimable(t)
  <2>1. turn[t].state = "queued"
    BY <1>0, <1>2 DEF AgreeAt, Claimable, RowTypes, TurnRow, TurnStates
  <2>2. /\ turn' = [turn EXCEPT ![t].state = "running"]
        /\ exec' = [exec EXCEPT !.pc = "claimed", !.version = work'[t].version]
    BY <1>t, <1>2, <2>1 DEF Claim
  <2>3. exec'.pc = "claimed" /\ exec'.turn = t BY <1>t, <1>0, <2>2 DEF Exec
  <2>4. Owns(t)' /\ \A u \in Turns \ {t} : ~Owns(u)' BY <2>3 DEF Owns
  <2>5. turn'[t].state = "running" /\ \A u \in Turns \ {t} : turn'[u] = turn[u]
    BY <1>0, <2>2 DEF RowTypes, TurnRow
  <2>6. \A u \in Turns : Fate(u) # "started"
    <3> SUFFICES ASSUME NEW u \in Turns PROVE Fate(u) # "started" OBVIOUS
    <3>1. turn[u].outcome # "started" BY <1>0 DEF RowTypes, TurnRow, Outcomes
    <3> QED BY <1>1, <3>1, FateIs
  <2>7. FateMoves(t) BY <2>1, <2>4, <2>5, <2>6, FateIs DEF FateMoves
  <2>8. \A u \in Turns \ {t} : Fate(u)' = Fate(u) BY <1>1, <2>4, <2>5, FateIs
  <2> QED BY <1>0, <2>7, <2>8, OneFate
<1>3. CASE ~Claimable(t)
  BY <1>0, <1>t, <1>3, LossFates DEF Claim, Done
<1> QED BY <1>2, <1>3

\* The last write of a task ends its turn, or loses it to reconciliation.
LEMMA SettleFates ==
  ASSUME IInv, Settle
  PROVE  [Life!Next]_Fates
<1>t. PICK t \in Turns : t = exec.turn BY DEF IInv, TaskInv, Settle
<1>0. /\ RowTypes /\ exec \in Exec /\ exec.pc = "closing" /\ actions' = actions /\ exec' = NoExec
      /\ exec.outcome \in Outcomes
  <2>1. RowTypes /\ exec \in Exec BY TypeParts DEF IInv
  <2>2. exec.pc = "closing" /\ actions' = actions /\ exec' = NoExec BY DEF Settle, Done
  <2>3. exec.outcome # "none" BY <2>2 DEF IInv, TaskInv
  <2> QED BY <2>1, <2>2, <2>3 DEF Exec
<1>1. turn[t].state \notin {"queued", "finished"}
  BY <1>t, <1>0 DEF IInv, HoldInv, RowInv, AgreeAt, Held
<1>2. Owns(t) /\ (\A u \in Turns \ {t} : ~Owns(u)) /\ \A u \in Turns : ~Owns(u)'
  BY <1>t, <1>0 DEF Owns, NoExec, Turns
<1>3. /\ \A u \in Turns \ {t} : turn'[u] = turn[u]
      /\ \/ turn'[t].state = "finished" /\ turn'[t].outcome \in Outcomes
         \/ turn'[t].state \notin {"queued", "finished"}
  <2>1. PICK cleanup \in {"clean", "unknown"} :
          LET outcome == IF exec.outcome \in {"cancelled", "timed_out"} /\ cleanup # "clean"
                         THEN "indeterminate" ELSE exec.outcome
          IN  Finish(t, outcome, cleanup) \/ Reconcile(t, cleanup)
    BY <1>t DEF Settle
  <2>2. PICK outcome \in Outcomes : Finish(t, outcome, cleanup) \/ Reconcile(t, cleanup)
    BY <1>0, <2>1 DEF Outcomes
  <2>3. CASE turn' = [turn EXCEPT ![t] = [state |-> "finished", outcome |-> outcome]]
    BY <1>0, <2>3 DEF RowTypes
  <2>4. CASE turn' = [turn EXCEPT ![t].state = "reconciling"]
    BY <1>0, <2>4 DEF RowTypes, TurnRow
  <2>5. CASE UNCHANGED turn BY <1>1, <2>5
  <2> QED BY <2>2, <2>3, <2>4, <2>5 DEF Finish, Reconcile
<1>4. FateMoves(t) BY <1>1, <1>2, <1>3, FateIs DEF FateMoves
<1>5. \A u \in Turns \ {t} : Fate(u)' = Fate(u) BY <1>2, <1>3, FateIs
<1> QED BY <1>0, <1>4, <1>5, OneFate

\* session.start_turn gives an action a turn of its own, once.
LEMMA AcceptFates ==
  ASSUME IInv, NEW a \in Actions, Accept(a)
  PROVE  [Life!Next]_Fates
<1>0. RowTypes /\ exec' = exec /\ OrderInv /\ ActionInv /\ actions \in [Actions -> Turns \cup {0}]
  BY TypeParts DEF IInv, Accept
<1>1. \A u \in Turns : Owns(u)' <=> Owns(u) BY <1>0 DEF Owns
<1>2. CASE UNCHANGED rows
  <2>1. Fates' = Fates BY <1>1, <1>2, FatesKept DEF rows
  <2> QED BY <2>1
<1>3. CASE actions[a] = 0 /\ Cardinality(Accepted) < MaxTurns /\ ~UNCHANGED rows
  <2>1. /\ Cardinality(Accepted) \in 0 .. MaxTurns /\ Accepted = 1 .. Cardinality(Accepted)
    BY <1>0, LastAccepted
  <2>2. PICK t \in Turns : t = Cardinality(Accepted) + 1
    BY <1>3, <2>1, BoundAssumption DEF Turns
  <2>3. t \notin Accepted BY <2>1, <2>2
  <2>4. actions' = [actions EXCEPT ![a] = t] /\ turn' = [turn EXCEPT ![t].state = "queued"]
    BY <1>3, <2>2 DEF Accept
  <2>5. turn'[t].state = "queued" /\ \A u \in Turns \ {t} : turn'[u] = turn[u]
    BY <1>0, <2>4 DEF RowTypes, TurnRow
  <2>6. \A b \in Actions : actions[b] # t
    <3>1. turn[t].state = "none" /\ t # 0 BY <2>3 DEF Accepted, Turns
    <3> QED BY <1>0, <3>1 DEF ActionInv
  <2>7. \A b \in Actions \ {a} : Fate(actions[b])' = Fate(actions[b])
    <3> SUFFICES ASSUME NEW b \in Actions \ {a} PROVE Fate(actions[b])' = Fate(actions[b]) OBVIOUS
    <3>1. PICK n \in Turns \cup {0} : n = actions[b] BY <1>0
    <3>2. n # t /\ actions'[b] = n BY <1>0, <2>4, <2>6, <3>1
    <3>3. Fate(n)' = Fate(n)
      <4>1. CASE n = 0 BY <2>2, <4>1, FateIs
      <4>2. CASE n # 0 BY <1>1, <2>5, <3>1, <3>2, <4>2, FateIs
      <4> QED BY <4>1, <4>2
    <3>4. Fate(actions[b]) = Fate(n) /\ Fate(actions[b])' = Fate(n)' BY <3>1, <3>2 DEF Fate, Owns
    <3> QED BY <3>3, <3>4
  <2>8. Fates[a] = "none"
    <3>1. Fate(0) = "none" BY <2>2, FateIs
    <3>2. Fate(actions[a]) = Fate(0) BY <1>3 DEF Fate
    <3> QED BY <3>1, <3>2 DEF Fates
  <2>9. Fate(actions[a])' = "accepted"
    <3>1. actions'[a] = t BY <1>0, <2>4
    <3>2. Fate(t)' = "accepted" BY <2>5, FateIs
    <3>3. Fate(actions[a])' = Fate(t)' BY <3>1 DEF Fate, Owns
    <3> QED BY <3>2, <3>3
  <2>10. Fates' = [Fates EXCEPT ![a] = "accepted"] BY <2>7, <2>9 DEF Fates
  <2> QED BY <2>8, <2>10 DEF Life!Next, Life!Accept, Life!Move, Fates
<1> QED BY <1>2, <1>3 DEF Accept

\* Every other step leaves all fates alone.
LEMMA QuietFates ==
  ASSUME IInv, actions' = actions,
         \A t \in Turns : Owns(t)' <=> Owns(t),
         \/ UNCHANGED turn
         \/ \E t \in Turns, s \in Active :
              turn[t].state \in Active /\ turn' = [turn EXCEPT ![t].state = s]
  PROVE  [Life!Next]_Fates
<1>0. RowTypes BY TypeParts DEF IInv
<1>1. CASE UNCHANGED turn
  <2>1. Fates' = Fates BY <1>1, FatesKept
  <2> QED BY <2>1
<1>2. ASSUME NEW t \in Turns, NEW s \in Active, turn[t].state \in Active,
             turn' = [turn EXCEPT ![t].state = s]
      PROVE  [Life!Next]_Fates
  <2>1. turn'[t].state = s /\ \A u \in Turns \ {t} : turn'[u] = turn[u]
    BY <1>0, <1>2 DEF RowTypes, TurnRow
  <2>2. Fates' = Fates BY <1>2, <2>1, FatesKept DEF Active
  <2> QED BY <2>2
<1> QED BY <1>1, <1>2

\* Recovery moves interrupted turns to reconciling: they were lost with the process before.
LEMMA StartFates ==
  ASSUME IInv, StartEngine
  PROVE  [Life!Next]_Fates
<1>0. RowTypes /\ RowInv BY TypeParts DEF IInv
<1>1. exec' = exec /\ actions' = actions BY DEF StartEngine
<1>2. ASSUME NEW t \in Turns
      PROVE  /\ turn'[t].state = "queued" <=> turn[t].state = "queued"
             /\ turn'[t].state = "finished" <=> turn[t].state = "finished"
             /\ turn[t].state = "finished" => turn'[t].outcome = turn[t].outcome
  <2>1. turn'[t] = IF work'[t].state = "reconciling" /\ turn[t].state # "finished"
                   THEN [turn[t] EXCEPT !.state = "reconciling"] ELSE turn[t]
    BY DEF StartEngine, RecoveredTurns
  <2>2. work[t].state = "queued" => work'[t] = work[t]
    BY DEF StartEngine, Recovered
  <2>3. turn[t].state = "queued" => work[t].state = "queued"
    BY <1>0 DEF RowInv, AgreeAt
  <2>4. turn[t] \in TurnRow BY <1>0 DEF RowTypes
  <2>5. [turn[t] EXCEPT !.state = "reconciling"].state = "reconciling" BY <2>4 DEF TurnRow
  <2> QED BY <2>1, <2>2, <2>3, <2>5
<1>3. \A t \in Turns : Owns(t)' <=> Owns(t) BY <1>1 DEF Owns
<1>4. Fates' = Fates BY <1>1, <1>2, <1>3, FatesKept
<1> QED BY <1>4

\* The steps of the task that touch no fate.
LEMMA TaskFates ==
  ASSUME IInv,
         \/ Begin \/ Open \/ Answer \/ WorkEnds \/ Interrupted \/ StopObserving \/ StopTimer
         \/ AskApproval \/ ProjectionFails
  PROVE  [Life!Next]_Fates
<1>0. exec \in Exec BY TypeParts DEF IInv
<1>1. actions' = actions
  BY DEF Begin, Open, Answer, WorkEnds, Interrupted, StopObserving, StopTimer, AskApproval,
         ProjectionFails, rows
<1>2. exec.pc \notin {"none", "created"}
  BY DEF Begin, Open, Answer, WorkEnds, Interrupted, StopObserving, StopTimer, AskApproval,
         ProjectionFails, IInv, TaskInv
<1>t. PICK t \in Turns : t = exec.turn BY <1>2 DEF IInv, TaskInv
<1>3. exec'.turn = exec.turn /\ exec'.pc \notin {"none", "created"}
  <2>1. CASE Begin BY <1>0, <2>1 DEF Begin, Exec
  <2>2. CASE Open BY <1>0, <2>2 DEF Open, Exec
  <2>3. CASE Answer BY <1>0, <1>2, <2>3 DEF Answer, Exec
  <2>4. CASE WorkEnds BY <1>0, <2>4 DEF WorkEnds, Exec
  <2>5. CASE Interrupted BY <1>0, <2>5 DEF Interrupted, Exec
  <2>6. CASE StopObserving BY <1>0, <2>6 DEF StopObserving, Exec
  <2>7. CASE StopTimer BY <1>0, <2>7 DEF StopTimer, Exec
  <2>8. CASE AskApproval BY <1>0, <1>2, <2>8 DEF AskApproval, Exec
  <2>9. CASE ProjectionFails BY <1>0, <1>2, <2>9 DEF ProjectionFails, Exec
  <2> QED BY <2>1, <2>2, <2>3, <2>4, <2>5, <2>6, <2>7, <2>8, <2>9
<1>4. \A u \in Turns : Owns(u)' <=> Owns(u) BY <1>2, <1>3 DEF Owns
<1>5. \/ UNCHANGED turn
      \/ \E u \in Turns, s \in Active :
           turn[u].state \in Active /\ turn' = [turn EXCEPT ![u].state = s]
  BY <1>t DEF Begin, Open, Answer, WorkEnds, Interrupted, StopObserving, StopTimer, AskApproval,
         ProjectionFails, rows, Asked, Active
<1> QED BY <1>1, <1>4, <1>5, QuietFates

\* The turn of a client action lives as TurnLife says: accepted once, started at most once
\* and never while another turn runs, ended once, and never restarted after a loss.
THEOREM LivesAsPromised == Spec => LivesOnce
<1>1. Init => Life!Init
  <2> SUFFICES ASSUME Init PROVE Life!Init OBVIOUS
  <2>1. \A a \in Actions : Fate(actions[a]) = "none" BY DEF Init, Fate
  <2> QED BY <2>1 DEF Life!Init
<1>2. IInv /\ [Next]_vars => [Life!Next]_Fates
  <2> SUFFICES ASSUME IInv, [Next]_vars PROVE [Life!Next]_Fates OBVIOUS
  <2>1. CASE Crash \/ Abandon \/ SettleFails
    BY <2>1, LossFates DEF Crash, Abandon, SettleFails, Done, rows
  <2>2. CASE \/ Begin \/ Open \/ Answer \/ WorkEnds \/ Interrupted \/ StopObserving
             \/ StopTimer \/ AskApproval \/ ProjectionFails
    BY <2>2, TaskFates
  <2>3. CASE Claim \/ Settle \/ StartEngine
    BY <2>3, ClaimFates, SettleFates, StartFates
  <2>4. ASSUME NEW a \in Actions, Accept(a) PROVE [Life!Next]_Fates BY <2>4, AcceptFates
  <2>5. ASSUME NEW t \in Turns, Cancel(t) PROVE [Life!Next]_Fates
    BY <2>5, CancelTurnFates DEF Cancel
  <2>6. CASE ShutdownCancels
    <3> DEFINE open == {t \in Turns : turn[t].state \in Active \cup {"queued"}}
    <3>1. actions' = actions BY <2>6 DEF ShutdownCancels
    <3>2. CASE open # {} /\ CancelTurn(Min(open))
      <4>1. Min(open) \in Turns BY <3>2, MinTurn
      <4> HIDE DEF open
      <4> QED BY <3>1, <3>2, <4>1, CancelTurnFates
    <3>3. CASE UNCHANGED <<turn, exec>>
      BY <3>1, <3>3, QuietFates DEF Owns
    <3> QED BY <2>6, <3>2, <3>3 DEF ShutdownCancels
  <2>7. CASE Expire
    <3>1. exec \in Exec /\ exec.turn \in Turns
      BY <2>7, TypeParts DEF IInv, TaskInv, Expire
    <3>2. exec'.turn = exec.turn /\ exec'.pc = exec.pc /\ actions' = actions /\ CancelRows(exec.turn)
      BY <2>7, <3>1 DEF Expire, Exec
    <3> QED BY <3>1, <3>2, CancelFates
  <2>8. CASE Poll
    <3>1. \A u \in Turns : ~Owns(u)
      BY <2>8 DEF Poll, IInv, TaskInv, Owns, NoExec, Turns
    <3>2. \A u \in Turns : ~Owns(u)'
      BY <2>8, <3>1 DEF Poll, Owns, NoExec
    <3>3. actions' = actions /\ UNCHANGED turn BY <2>8 DEF Poll, rows
    <3> QED BY <3>1, <3>2, <3>3, QuietFates
  <2>9. CASE Initialize \/ Exit \/ \E mode \in {"drain", "cancel"} : Shutdown(mode)
    <3>1. UNCHANGED <<actions, turn, exec>> BY <2>9 DEF Initialize, Exit, Shutdown, rows
    <3> QED BY <3>1, QuietFates DEF Owns
  <2>10. CASE UNCHANGED vars
    <3>1. UNCHANGED <<actions, turn, exec>> BY <2>10 DEF vars, rows
    <3> QED BY <3>1, QuietFates DEF Owns
  <2> QED BY <2>1, <2>2, <2>3, <2>4, <2>5, <2>6, <2>7, <2>8, <2>9, <2>10
          DEF Next, EngineStep, Environment
<1>3. IInv /\ [Next]_vars => [Life!Next]_[a \in Actions |-> Fate(actions[a])]
  BY <1>2 DEF Fates
<1> QED BY <1>1, <1>3, Inductive, PTL DEF Spec, LivesOnce, Life!Spec

=============================================================================
