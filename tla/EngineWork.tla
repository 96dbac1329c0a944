------------------------------ MODULE EngineWork ------------------------------
(***************************************************************************)
(* The durable turns of the engine: their rows in SQLite (Store in         *)
(* forge/engine/persistence.py), the service that accepts, cancels and     *)
(* executes them (ApplicationServices in forge/application/services.py),   *)
(* the scheduler that dispatches them one at a time (TurnScheduler), and   *)
(* the engine process that starts, drains, shuts down and crashes.         *)
(*                                                                         *)
(* Everything but a crash runs in one event loop: requests, the deadline   *)
(* and the scheduler interleave with an execution only where it awaits.    *)
(***************************************************************************)
EXTENDS Naturals, FiniteSets, FiniteSetsExt

CONSTANTS
  Actions,     \* client action ids of session.start_turn
  MaxTurns,    \* bound: turns accepted
  MaxEpochs,   \* bound: times the engine starts
  MaxAsks,     \* bound: approvals a turn asks for
  MaxFaults    \* bound: failures of the store or of the projection

ASSUME BoundAssumption ==
  MaxTurns \in Nat /\ MaxEpochs \in Nat /\ MaxAsks \in Nat /\ MaxFaults \in Nat

VARIABLES
  actions,     \* the actions table: the turn an action was answered with, 0 for none
  turn,        \* the turns table
  work,        \* the work_items table
  life,        \* the turn_lifecycle table
  epoch,       \* Store.epoch
  up,          \* the engine process exists
  initialized, \* the client has shaken hands
  stop,        \* EngineMethods.stopping and shutdown_mode
  sched,       \* where TurnScheduler.run is
  ready,       \* the event work_ready
  exec,        \* the task execute_turn
  cancelled,   \* history: turns whose cancellation was accepted
  faults       \* counter of the bound

rows == <<actions, turn, work, life>>
process == <<epoch, up, initialized, stop>>
vars == <<rows, process, sched, ready, exec, cancelled, faults>>

Turns == 1 .. MaxTurns

\* "completed" stands for every outcome a finished turn reports by itself.
Outcomes == {"completed", "failed", "cancelled", "timed_out", "blocked", "indeterminate"}
TurnStates == {"none", "queued", "running", "awaiting_approval", "cancel_requested",
               "reconciling", "finished"}
Active == {"running", "awaiting_approval"}

NoTurn == [state |-> "none", outcome |-> "none"]
NoWork == [state |-> "none", version |-> 0, owner |-> 0]
NoRow == [cancel |-> "absent", cleanup |-> "absent", owner |-> 0]

\* pc: created, claimed, opening (backend), working (adapter.stream), then the finally
\* block: draining and untiming (its two gathers), closing (adapter and backend).
NoExec == [turn |-> 0, pc |-> "none", version |-> 0, outcome |-> "none", cancel |-> FALSE,
           expired |-> FALSE, timer |-> FALSE, asking |-> FALSE, asks |-> 0,
           projection |-> FALSE]

Accepted == {t \in Turns : turn[t].state # "none"}
Queued == {t \in Turns : work[t].state = "queued"}
InWork(state) == {t \in Turns : work[t].state = state}

\* The event loop may run another callback: execute_turn does not await from its claim to
\* the opening of the backend, nor begin_shutdown while it cancels.
Loop == up /\ exec.pc # "claimed" /\ stop # "cancelling"

\* Frames are read and their requests handled.
Serving == Loop /\ initialized /\ stop = "no"

Owns(t) == exec.turn = t /\ exec.pc # "created"

-----------------------------------------------------------------------------
Init ==
  /\ actions = [a \in Actions |-> 0]
  /\ turn = [t \in Turns |-> NoTurn]
  /\ work = [t \in Turns |-> NoWork]
  /\ life = [t \in Turns |-> NoRow]
  /\ epoch = 0 /\ up = FALSE /\ initialized = FALSE /\ stop = "no"
  /\ sched = "poll" /\ ready = FALSE
  /\ exec = NoExec
  /\ cancelled = {} /\ faults = 0

\* Mistake: work of another epoch is queued again.
RecoveredRequeue(e) ==
  [t \in Turns |->
    IF work[t].state \in {"running", "cancel_requested"} /\ work[t].owner # e
    THEN [work[t] EXCEPT !.state = "queued", !.version = @ + 1] ELSE work[t]]

\* Store.__init__: work of another epoch waits for reconciliation.
Recovered(e) ==
  [t \in Turns |->
    IF work[t].state \in {"running", "cancel_requested"} /\ work[t].owner # e
    THEN [work[t] EXCEPT !.state = "reconciling", !.version = @ + 1] ELSE work[t]]

\* Mistake: the turn keeps its state when its work waits for reconciliation.
RecoveredTurnsKept(w) == turn

RecoveredTurns(w) ==
  [t \in Turns |-> IF w[t].state = "reconciling" /\ turn[t].state # "finished"
                   THEN [turn[t] EXCEPT !.state = "reconciling"] ELSE turn[t]]

RecoveredLife(e) ==
  [t \in Turns |-> IF life[t].owner # e /\ life[t].cleanup \in {"pending", "running"}
                   THEN [life[t] EXCEPT !.cleanup = "unknown", !.cancel = "indeterminate"]
                   ELSE life[t]]

StartEngine ==
  /\ ~up /\ epoch < MaxEpochs
  /\ epoch' = epoch + 1
  /\ up' = TRUE /\ initialized' = FALSE /\ stop' = "no"
  /\ work' = Recovered(epoch')
  /\ turn' = RecoveredTurns(work')
  /\ life' = RecoveredLife(epoch')
  /\ sched' = "poll" /\ ready' = FALSE
  /\ UNCHANGED <<actions, exec, cancelled, faults>>

\* system.initialize
Initialize ==
  /\ Loop /\ stop = "no" /\ ~initialized
  /\ initialized' = TRUE
  /\ ready' = TRUE
  /\ UNCHANGED <<rows, epoch, up, stop, sched, exec, cancelled, faults>>

\* Mistake: the scheduler is not told of the new work.
AcceptSilently(a) ==
  /\ Serving
  /\ actions[a] = 0 /\ Cardinality(Accepted) < MaxTurns
  /\ LET t == Cardinality(Accepted) + 1
     IN  /\ actions' = [actions EXCEPT ![a] = t]
         /\ turn' = [turn EXCEPT ![t].state = "queued"]
         /\ work' = [work EXCEPT ![t].state = "queued"]
  /\ UNCHANGED <<life, process, sched, ready, exec, cancelled, faults>>

\* session.start_turn, in one transaction; an action sent again gets the same answer.
Accept(a) ==
  /\ Serving
  /\ \/ /\ actions[a] = 0 /\ Cardinality(Accepted) < MaxTurns
        /\ LET t == Cardinality(Accepted) + 1
           IN  /\ actions' = [actions EXCEPT ![a] = t]
               /\ turn' = [turn EXCEPT ![t].state = "queued"]
               /\ work' = [work EXCEPT ![t].state = "queued"]
        /\ UNCHANGED life
     \/ actions[a] # 0 /\ UNCHANGED rows
  /\ ready' = TRUE
  /\ UNCHANGED <<process, sched, exec, cancelled, faults>>

-----------------------------------------------------------------------------
LifeCancel(t, cancel, cleanup) ==
  IF life[t] = NoRow THEN [cancel |-> cancel, cleanup |-> cleanup, owner |-> epoch]
  ELSE [life[t] EXCEPT !.cancel = cancel]

CancelQueued(t) ==
  /\ turn' = [turn EXCEPT ![t] = [state |-> "finished", outcome |-> "cancelled"]]
  /\ work' = [work EXCEPT ![t].state = "finished", ![t].version = @ + 1]
  /\ life' = [life EXCEPT ![t] = LifeCancel(t, "confirmed", "clean")]

CancelActive(t) ==
  /\ turn' = [turn EXCEPT ![t].state = "cancel_requested"]
  /\ work' = [work EXCEPT ![t].state = "cancel_requested"]
  /\ life' = [life EXCEPT ![t] = LifeCancel(t, "requested", "pending")]

\* The transaction of cancel_turn; on a turn that is over or already asked it does nothing.
CancelRows(t) ==
  \/ turn[t].state = "queued" /\ CancelQueued(t) /\ cancelled' = cancelled \cup {t}
  \/ turn[t].state \in Active /\ CancelActive(t) /\ cancelled' = cancelled \cup {t}
  \/ turn[t].state \notin Active \cup {"queued"} /\ UNCHANGED <<turn, work, life, cancelled>>

\* cancel_turn: the rows, then the task of a turn that was being executed.
CancelTurn(t) ==
  /\ CancelRows(t)
  /\ exec' = IF Owns(t) /\ turn[t].state \in Active THEN [exec EXCEPT !.cancel = TRUE] ELSE exec

\* session.cancel_turn
Cancel(t) ==
  /\ Serving
  /\ t \in Accepted
  /\ CancelTurn(t)
  /\ ready' = TRUE
  /\ UNCHANGED <<actions, process, sched, faults>>

\* Deadline.watch: expire() cancels the turn, and the task is cancelled in any case.
Expire ==
  /\ Loop /\ exec.timer
  /\ CancelRows(exec.turn)
  /\ exec' = [exec EXCEPT !.cancel = TRUE, !.expired = TRUE, !.timer = FALSE]
  /\ UNCHANGED <<actions, process, sched, ready, faults>>

\* system.shutdown, or the client is gone (end of the pipe, parent exited).
Shutdown(mode) ==
  /\ Loop
  /\ \/ mode = "drain" /\ stop = "no" /\ initialized /\ stop' = "drain" /\ ready' = TRUE
     \/ mode = "cancel" /\ stop \in {"no", "drain"} /\ stop' = "cancelling" /\ UNCHANGED ready
  /\ UNCHANGED <<rows, epoch, up, initialized, sched, exec, cancelled, faults>>

\* begin_shutdown in mode cancel cancels the turns one by one, each in its transaction;
\* then work_ready is set.
ShutdownCancels ==
  /\ up /\ stop = "cancelling"
  /\ LET open == {t \in Turns : turn[t].state \in Active \cup {"queued"}}
     IN  IF open # {} THEN CancelTurn(Min(open)) /\ UNCHANGED <<stop, ready>>
         ELSE /\ stop' = "cancel" /\ ready' = TRUE
              /\ UNCHANGED <<turn, work, life, exec, cancelled>>
  /\ UNCHANGED <<actions, epoch, up, initialized, sched, faults>>

\* RpcServer.run awaits the scheduler and returns, or fails with it.
Exit ==
  /\ up /\ stop \in {"drain", "cancel"} /\ sched \in {"returned", "dead"}
  /\ up' = FALSE /\ stop' = "no" /\ initialized' = FALSE
  /\ UNCHANGED <<rows, epoch, sched, ready, exec, cancelled, faults>>

Crash ==
  /\ up /\ epoch < MaxEpochs
  /\ up' = FALSE /\ stop' = "no" /\ initialized' = FALSE
  /\ exec' = NoExec /\ sched' = "poll"
  /\ UNCHANGED <<rows, epoch, ready, cancelled, faults>>

-----------------------------------------------------------------------------
\* Mistake: a finished turn no longer counts, whatever its cleanup.
CleanupBlockedByEpoch ==
  \E t \in Turns : /\ life[t] # NoRow /\ life[t].cleanup # "clean"
                   /\ work[t].owner \notin {0, epoch}

\* "Terminal business state never proves historical resource cleanup."
CleanupBlocked ==
  \E t \in Turns : /\ life[t] # NoRow /\ life[t].cleanup # "clean"
                   /\ work[t].state = "finished" \/ work[t].owner \notin {0, epoch}

Blocked == CleanupBlocked \/ InWork("reconciling") # {}

\* One round of TurnScheduler.run, which does not await between the check and the wait.
Poll ==
  /\ Loop
  /\ sched = "poll" \/ (sched = "wait" /\ ready)
  /\ ready' = FALSE
  /\ IF stop # "cancel" /\ initialized /\ Queued # {} /\ ~Blocked /\ InWork("running") = {}
     THEN /\ exec' = [NoExec EXCEPT !.turn = Min(Queued), !.pc = "created"]
          /\ sched' = "await"
     ELSE /\ sched' = IF stop = "no" THEN "wait" ELSE "returned"
          /\ UNCHANGED exec
  /\ UNCHANGED <<rows, process, cancelled, faults>>

Done == exec' = NoExec /\ sched' = "poll"

\* claim_work_item succeeds.
Claimable(t) == ~Blocked /\ InWork("running") = {} /\ work[t].state = "queued"

\* execute_turn: the claim, or the error of one refused, which ends the task.
Claim ==
  /\ Loop /\ exec.pc = "created"
  /\ LET t == exec.turn
     IN  IF Claimable(t)
         THEN /\ work' = [work EXCEPT ![t] = [state |-> "running", version |-> @.version + 1,
                                             owner |-> epoch]]
              /\ turn' = IF turn[t].state = "queued" THEN [turn EXCEPT ![t].state = "running"]
                         ELSE turn
              /\ exec' = [exec EXCEPT !.pc = "claimed", !.version = work'[t].version]
              /\ UNCHANGED sched
         ELSE Done /\ UNCHANGED <<turn, work>>
  /\ UNCHANGED <<actions, life, process, ready, cancelled, faults>>

\* The accepted configuration is still available, the lifecycle row is inserted and the
\* deadline runs; or it is not, and the turn ends before it has a row.
Begin ==
  /\ up /\ exec.pc = "claimed"
  /\ LET t == exec.turn
     IN  \/ /\ life' = [life EXCEPT ![t] = IF @ = NoRow
                           THEN [cancel |-> "none", cleanup |-> "pending", owner |-> epoch] ELSE @]
            /\ exec' = [exec EXCEPT !.pc = "opening", !.timer = TRUE]
         \/ \E outcome \in {"blocked", "failed"} :
              /\ exec' = [exec EXCEPT !.pc = "closing", !.outcome = outcome]
              /\ UNCHANGED life
  /\ UNCHANGED <<actions, turn, work, process, sched, ready, cancelled, faults>>

\* The backend and the adapter are made, or one of them fails.
Open ==
  /\ Loop /\ exec.pc = "opening" /\ ~exec.cancel
  /\ \/ exec' = [exec EXCEPT !.pc = "working"]
     \/ \E outcome \in {"blocked", "failed"} :
          exec' = [exec EXCEPT !.pc = "untiming", !.outcome = outcome, !.timer = FALSE]
  /\ UNCHANGED <<rows, process, sched, ready, cancelled, faults>>

\* ApprovalService.authorize asks and waits for the answer.
AskApproval ==
  /\ Loop /\ exec.pc = "working" /\ ~exec.asking /\ ~exec.cancel /\ exec.asks < MaxAsks
  /\ exec' = [exec EXCEPT !.asking = TRUE, !.asks = @ + 1]
  /\ turn' = IF turn[exec.turn].state = "running"
             THEN [turn EXCEPT ![exec.turn].state = "awaiting_approval"] ELSE turn
  /\ UNCHANGED <<actions, work, life, process, sched, ready, cancelled, faults>>

\* The turns table after the finally clause of authorize.
Asked(t) ==
  IF exec.asking /\ turn[t].state = "awaiting_approval"
  THEN [turn EXCEPT ![t].state = "running"] ELSE turn

\* The approval is decided or expires.
Answer ==
  /\ Loop /\ exec.asking /\ ~exec.cancel
  /\ exec' = [exec EXCEPT !.asking = FALSE]
  /\ turn' = Asked(exec.turn)
  /\ UNCHANGED <<actions, work, life, process, sched, ready, cancelled, faults>>

\* adapter.stream is exhausted or fails.
WorkEnds ==
  /\ Loop /\ exec.pc = "working" /\ ~exec.asking /\ ~exec.cancel
  /\ \E outcome \in {"completed", "failed", "blocked", "indeterminate"} :
       exec' = [exec EXCEPT !.pc = "draining", !.outcome = outcome]
  /\ UNCHANGED <<rows, process, sched, ready, cancelled, faults>>

\* project_live fails: in observe_quiet_boundaries, which cancels the task, or in the task.
ProjectionFails ==
  /\ Loop /\ exec.pc = "working" /\ ~exec.cancel
  /\ faults < MaxFaults
  /\ faults' = faults + 1
  /\ \/ exec' = [exec EXCEPT !.projection = TRUE, !.cancel = TRUE]
     \/ /\ ~exec.asking
        /\ exec' = [exec EXCEPT !.projection = TRUE, !.pc = "draining",
                               !.outcome = "indeterminate"]
  /\ UNCHANGED <<rows, process, sched, ready, cancelled>>

\* CancelledError reaches the body of execute_turn.
Interrupted ==
  /\ Loop /\ exec.cancel /\ exec.pc \in {"opening", "working"}
  /\ \E outcome \in {IF exec.expired THEN "timed_out" ELSE "cancelled", "indeterminate"} :
       /\ exec.pc = "opening" => outcome # "indeterminate"
       /\ exec' = [exec EXCEPT !.pc = IF @ = "working" THEN "draining" ELSE "untiming",
                              !.timer = @ /\ exec.pc = "working",
                              !.outcome = outcome, !.cancel = FALSE, !.asking = FALSE]
  /\ turn' = Asked(exec.turn)
  /\ UNCHANGED <<actions, work, life, process, sched, ready, cancelled, faults>>

\* The finally block of execute_turn awaits the observation timer, then the deadline.
StopObserving ==
  /\ Loop /\ exec.pc = "draining" /\ ~exec.cancel
  /\ exec' = [exec EXCEPT !.pc = "untiming", !.timer = FALSE]
  /\ UNCHANGED <<rows, process, sched, ready, cancelled, faults>>

StopTimer ==
  /\ Loop /\ exec.pc = "untiming" /\ ~exec.cancel
  /\ exec' = [exec EXCEPT !.pc = "closing"]
  /\ life' = IF life[exec.turn].owner = epoch
             THEN [life EXCEPT ![exec.turn].cleanup = "running"] ELSE life
  /\ UNCHANGED <<actions, turn, work, process, sched, ready, cancelled, faults>>

\* CancelledError reaches one of these two awaits: the rest of the block is skipped, and
\* the error passes through the scheduler, which awaits the task, and ends it too.
Abandon ==
  /\ Loop /\ exec.cancel /\ exec.pc \in {"draining", "untiming"}
  /\ exec' = NoExec /\ sched' = "dead"
  /\ UNCHANGED <<rows, process, ready, cancelled, faults>>

Reconcile(t, cleanup) ==
  /\ work' = [work EXCEPT ![t].state = "reconciling", ![t].version = @ + 1]
  /\ turn' = [turn EXCEPT ![t].state = "reconciling"]
  /\ life' = IF life[t] = NoRow THEN life
             ELSE [life EXCEPT ![t].cancel = "indeterminate", ![t].cleanup = cleanup]

\* Mistake: only a cancelled outcome answers a request to cancel.
CancelStateByOutcome(requested, outcome, cleanup) ==
  IF requested /\ outcome = "cancelled" THEN "confirmed" ELSE "none"

CancelState(requested, outcome, cleanup) ==
  CASE ~requested -> "none"
    [] requested /\ outcome # "indeterminate" /\ cleanup = "clean" -> "confirmed"
    [] OTHER -> "indeterminate"

\* _finish; its compare-and-swap fails when another owner or version is there.
Finish(t, outcome, cleanup) ==
  IF /\ work[t].version = exec.version /\ work[t].owner = epoch
     /\ work[t].state \in {"running", "cancel_requested"}
  THEN /\ work' = [work EXCEPT ![t].state = "finished", ![t].version = @ + 1]
       /\ turn' = [turn EXCEPT ![t] = [state |-> "finished", outcome |-> outcome]]
       /\ life' = IF life[t].owner # epoch THEN life
                  ELSE [life EXCEPT ![t].cancel = CancelState(@ = "requested", outcome, cleanup),
                                    ![t].cleanup = cleanup]
  ELSE UNCHANGED <<turn, work, life>>

\* The adapter and the backend are closed; a cancellation meanwhile is caught there and
\* leaves the cleanup unknown.
Settle ==
  /\ Loop /\ exec.pc = "closing"
  /\ \E cleanup \in (IF exec.cancel THEN {} ELSE {"clean"}) \cup {"unknown"} :
       LET outcome == IF exec.outcome \in {"cancelled", "timed_out"} /\ cleanup # "clean"
                      THEN "indeterminate" ELSE exec.outcome
       IN  \/ ~exec.projection /\ Finish(exec.turn, outcome, cleanup) /\ UNCHANGED faults
           \/ exec.projection /\ Reconcile(exec.turn, cleanup) /\ UNCHANGED faults
           \/ /\ faults < MaxFaults /\ faults' = faults + 1   \* the last projection fails
              /\ Reconcile(exec.turn, cleanup)
  /\ Done
  /\ UNCHANGED <<actions, process, ready, cancelled>>

\* A write of the finally block fails: the rest of it is skipped, the scheduler goes on.
SettleFails ==
  /\ Loop /\ exec.pc \in {"draining", "untiming", "closing"}
  /\ exec.pc # "closing" => ~exec.cancel
  /\ faults < MaxFaults
  /\ faults' = faults + 1
  /\ Done
  /\ UNCHANGED <<rows, process, ready, cancelled>>

-----------------------------------------------------------------------------
EngineStep ==
  \/ Poll \/ Claim \/ Begin \/ Open \/ Answer \/ WorkEnds \/ Interrupted \/ StopObserving
  \/ StopTimer \/ Abandon \/ Settle \/ ShutdownCancels \/ Exit

Environment ==
  \/ Initialize \/ (\E a \in Actions : Accept(a)) \/ (\E t \in Turns : Cancel(t))
  \/ (\E mode \in {"drain", "cancel"} : Shutdown(mode))
  \/ Expire \/ AskApproval \/ ProjectionFails \/ SettleFails \/ Crash \/ StartEngine

Next == EngineStep \/ Environment

Spec == Init /\ [][Next]_vars

\* The event loop runs what is ready, and the deadline bounds what a turn waits for.
FairSpec == Spec /\ WF_vars(EngineStep)

-----------------------------------------------------------------------------
(***************************************************************************)
(* Properties.                                                             *)
(***************************************************************************)
TurnRow == [state: TurnStates, outcome: Outcomes \cup {"none"}]
WorkRow == [state: TurnStates \ {"awaiting_approval"}, version: 0 .. 3, owner: 0 .. MaxEpochs]
LifeRow == [cancel: {"absent", "none", "requested", "confirmed", "indeterminate"},
            cleanup: {"absent", "pending", "running", "clean", "unknown"},
            owner: 0 .. MaxEpochs]
ExecPcs == {"none", "created", "claimed", "opening", "working", "draining", "untiming", "closing"}
Exec == [turn: Turns \cup {0}, pc: ExecPcs, version: 0 .. 3, outcome: Outcomes \cup {"none"},
         cancel: BOOLEAN, expired: BOOLEAN, timer: BOOLEAN, asking: BOOLEAN,
         asks: 0 .. MaxAsks, projection: BOOLEAN]

\* The domains, with the check the turns table declares: an outcome when and only when
\* finished.
TypeOK ==
  /\ actions \in [Actions -> Turns \cup {0}]
  /\ turn \in [Turns -> TurnRow] /\ work \in [Turns -> WorkRow] /\ life \in [Turns -> LifeRow]
  /\ \A t \in Turns : turn[t].state = "finished" <=> turn[t].outcome # "none"
  /\ epoch \in 0 .. MaxEpochs /\ up \in BOOLEAN /\ initialized \in BOOLEAN
  /\ stop \in {"no", "drain", "cancelling", "cancel"}
  /\ sched \in {"poll", "wait", "await", "returned", "dead"} /\ ready \in BOOLEAN
  /\ exec \in Exec
  /\ cancelled \subseteq Turns /\ faults \in 0 .. MaxFaults

\* The two tables tell the same story after every transaction, recovery included.
RowsAgree ==
  \A t \in Turns :
    work[t].state = IF turn[t].state = "awaiting_approval" THEN "running" ELSE turn[t].state

\* While a turn is executed nothing takes its work away: the compare-and-swap of _finish is
\* never the one that loses, whoever cancels.
OwnerKeeps ==
  exec.pc \notin {"none", "created"} =>
    /\ work[exec.turn].state \in {"running", "cancel_requested"}
    /\ work[exec.turn].owner = epoch /\ work[exec.turn].version = exec.version

\* The finally block of a turn failed to write: it is not over and nobody executes it.
Unsettled(t) ==
  work[t].state \in {"running", "cancel_requested"} /\ work[t].owner = epoch /\ ~Owns(t)

\* A turn works only when whatever other turns opened, in this process or before a crash,
\* is known to be cleaned up.  (The turn of a failed settlement escapes this check once it
\* is cancelled.)
StartsOnClean ==
  exec.pc \in {"opening", "working"} =>
    \A t \in Turns \ {exec.turn} : life[t] = NoRow \/ life[t].cleanup = "clean" \/ Unsettled(t)

\* A turn works only on what is its own and nobody else's remains (claim, cleanup_blocked).
OwnerHolds == OwnerKeeps /\ StartsOnClean

\* Who cancelled a turn is told what became of it: the cancellation of a turn that is over
\* is confirmed or indeterminate, and confirmed only if all was cleaned up and no effect
\* is in doubt.
CancelAnswered ==
  \A t \in cancelled : turn[t].state = "finished" =>
    /\ life[t].cancel \in {"confirmed", "indeterminate"}
    /\ life[t].cancel = "confirmed" => life[t].cleanup = "clean" /\ turn[t].outcome # "indeterminate"

Fate(t) ==
  CASE t = 0 -> "none"
    [] t # 0 /\ turn[t].state = "queued" -> "accepted"
    [] t # 0 /\ turn[t].state = "finished" -> turn[t].outcome
    [] t # 0 /\ turn[t].state \notin {"queued", "finished"} -> IF Owns(t) THEN "started" ELSE "lost"

Life == INSTANCE TurnLife WITH fate <- [a \in Actions |-> Fate(actions[a])]

\* The turn of a client action lives the life of TurnLife: one turn per action, started at
\* most once, never after a cancellation or a crash, with one outcome.
LivesOnce == Life!Spec

\* The engine is ready for work and has none that hangs.
Able ==
  /\ up /\ initialized /\ stop = "no" /\ sched # "dead"
  /\ ~Blocked /\ \A t \in Turns : ~Unsettled(t)

\* A queued turn does not wait for a wake-up that was lost: as long as the engine is able,
\* it is dispatched or cancelled.
QueuedDispatched == \A t \in Turns : turn[t].state = "queued" ~> turn[t].state # "queued" \/ ~Able

\* An engine asked to stop does stop, whatever it is executing or waiting for.
StopEnds == stop # "no" ~> ~up

\* Neither a queued turn nor a client that asked for shutdown waits for ever (run_scheduler,
\* shutdown).
QueuedServed == QueuedDispatched /\ StopEnds

\* A turn that is executed and cancelled comes to its end.  (It does not when the
\* cancellation arrives while the turn is ending: see EngineWorkCancel.)
CancelSettles ==
  \A t \in Turns : turn[t].state = "cancel_requested" ~> turn[t].state = "finished" \/ ~up

=============================================================================
