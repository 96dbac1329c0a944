---------------------------- MODULE Evaluations ----------------------------
(***************************************************************************)
(* Evaluation runs: tickets, runs and their trials, attempts, the one      *)
(* local worker, grades, cancellation, retries, restart and reconciliation *)
(* (forge/application/evaluations.py, benchmark/core/scheduler.py,         *)
(* benchmark/adapters/harbor.py, forge/engine/persistence.py).             *)
(*                                                                         *)
(* A transaction is one step. Between two awaits of the executor nothing   *)
(* but a crash comes in. What a task, a model or a grader computes is a    *)
(* choice; the resources of an attempt (containers, volumes) are on the    *)
(* host, outlive the engine and end when they end. unclean stands for      *)
(* cleanup that is residual or unknown: no code tells the two apart.       *)
(***************************************************************************)
EXTENDS Naturals, FiniteSets, SequencesExt

CONSTANTS
  Runs,
  Repeats,          \* trials of a run, in the order of the plan: 1 .. Repeats
  MaxAttempts,      \* max_infrastructure_attempts of the plan
  Retryable,        \* infrastructure_retry_categories of the plan
  MaxTickets,       \* bound: validations
  MaxEngineCrashes  \* bound: crashes of the engine

ASSUME EvaluationAssumption ==
  /\ Repeats \in Nat \ {0} /\ MaxAttempts \in Nat \ {0}
  /\ Retryable \subseteq {"environment_setup", "grader_infrastructure", "runner_crash"}
  /\ MaxTickets \in Nat /\ MaxEngineCrashes \in Nat

Trials == Runs \X (1 .. Repeats)
RunOf(t) == t[1]
TrialsOf(r) == {t \in Trials : RunOf(t) = r}

VARIABLES
  ticket,        \* the last validation ticket: none, valid, spent
  runState,      \* runs.state, "none": not created
  attempts,      \* per trial: its attempts by attempt_no, with their work item and grade
  pending,       \* queued work items by rowid
  executor,      \* what the worker executes: trial, where it is, cancelled, graded result
  resources,     \* attempts whose containers, volumes or networks exist
  engineCrashes,
  ticketCount,
  askedToStop    \* history: runs somebody cancelled

eval_vars == <<ticket, runState, attempts, pending, executor, resources, engineCrashes,
               ticketCount, askedToStop>>

NoTrial == <<"none", 0>>
NotExecuting == [trial |-> NoTrial, at |-> "idle", cancelled |-> FALSE, result |-> <<>>]
NothingRuns == executor = NotExecuting
\* The event loop takes no request between the grade of an attempt and its end.
Listening == executor.at # "graded"

QueuedAttempt ==
  [work |-> "queued", execution |-> "queued", origin |-> "none", cleanup |-> "pending",
   grade |-> "none", authoritative |-> FALSE, exhausted |-> FALSE]
SelectedAttempt(t) == Last(attempts[t])
AttemptId(t) == <<t, Len(attempts[t])>>
WorkOf(table, r) ==
  UNION {{table[t][n].work : n \in DOMAIN table[t]} : t \in TrialsOf(r)}
WorkStates == UNION {WorkOf(attempts, r) : r \in Runs}

\* The selected attempt of t with other facts.
WithFacts(a, facts) == [f \in DOMAIN a |-> IF f \in DOMAIN facts THEN facts[f] ELSE a[f]]
UpdateAttempt(t, facts) == [attempts EXCEPT ![t][Len(attempts[t])] = WithFacts(@, facts)]

\* The queue without the items of a run; kept[i] is what of its first i is left.
WithoutRun(list, r) ==
  LET kept[i \in 0 .. Len(list)] ==
        IF i = 0 THEN <<>>
        ELSE IF RunOf(list[i]) = r THEN kept[i - 1] ELSE Append(kept[i - 1], list[i])
  IN  kept[Len(list)]

-----------------------------------------------------------------------------
(***************************************************************************)
(* The state of a run follows its work items.                              *)
(***************************************************************************)
Faulty(table, t) ==
  LET last == Last(table[t]) IN
  last.execution \in {"blocked", "error"} \/ (last.authoritative /\ last.grade = "grader_error")

SettledRun(table, r, state) ==
  LET works == WorkOf(table, r) IN
  IF "reconciling" \in works THEN "indeterminate"
  ELSE IF works \cap {"queued", "running", "cancel_requested"} # {} THEN state
  ELSE IF state = "cancel_requested" THEN "cancelled"
  ELSE IF works = {} THEN state
  ELSE IF \E t \in TrialsOf(r) : attempts[t] # <<>> /\ Faulty(table, t) THEN "failed"
  ELSE "completed"


\* The facts of t and what they make of its run.
SettleRun(t, facts, state) ==
  /\ attempts' = UpdateAttempt(t, facts)
  /\ runState' = [runState EXCEPT
                    ![RunOf(t)] = SettledRun(UpdateAttempt(t, facts), RunOf(t), state)]

-----------------------------------------------------------------------------
(***************************************************************************)
(* Requests: validate, create_run, start, cancel, retry.                   *)
(***************************************************************************)
Validate ==
  /\ Listening /\ ticketCount < MaxTickets
  /\ ticket' = "valid" /\ ticketCount' = ticketCount + 1
  /\ UNCHANGED <<runState, attempts, pending, executor, resources, engineCrashes, askedToStop>>

TicketExpires ==
  /\ ticket = "valid" /\ ticket' = "spent"
  /\ UNCHANGED <<runState, attempts, pending, executor, resources, engineCrashes, ticketCount,
                 askedToStop>>

CreateRun(r) ==
  /\ Listening /\ runState[r] = "none" /\ ticket = "valid"
  /\ ticket' = "spent"
  /\ runState' = [runState EXCEPT ![r] = "created"]
  /\ UNCHANGED <<attempts, pending, executor, resources, engineCrashes, ticketCount, askedToStop>>

StartTrials(r) ==
  /\ Listening /\ runState[r] = "created"
  /\ attempts' = [t \in Trials |->
       IF RunOf(t) = r THEN Append(attempts[t], QueuedAttempt) ELSE attempts[t]]
  /\ pending' = pending \o [k \in 1 .. Repeats |-> <<r, k>>]
  /\ runState' = [runState EXCEPT ![r] = "queued"]
  /\ UNCHANGED <<ticket, executor, resources, engineCrashes, ticketCount, askedToStop>>

CancelledInQueue(a) ==
  [a EXCEPT !.work = "finished", !.execution = "cancelled", !.cleanup = "clean"]

\* cancel of one attempt: a queued one is over, a running one is asked to end.
CancelAttempt(a) ==
  IF a.work = "queued" THEN CancelledInQueue(a)
  ELSE IF a.work = "running" THEN [a EXCEPT !.work = "cancel_requested"] ELSE a


CancelRun(r) ==
  LET table == [t \in Trials |->
                  IF RunOf(t) = r THEN [n \in DOMAIN attempts[t] |-> CancelAttempt(attempts[t][n])]
                  ELSE attempts[t]] IN
  /\ Listening /\ runState[r] \notin {"none", "completed", "failed", "cancelled"}
  /\ attempts' = table
  /\ pending' = WithoutRun(pending, r)
  /\ runState' = [runState EXCEPT ![r] = SettledRun(table, r, "cancel_requested")]
  /\ executor' = IF RunOf(executor.trial) = r THEN [executor EXCEPT !.cancelled = TRUE]
                 ELSE executor
  /\ askedToStop' = askedToStop \cup {r}
  /\ UNCHANGED <<ticket, resources, engineCrashes, ticketCount>>

MayRetry(t) ==
  /\ runState[RunOf(t)] \notin {"cancel_requested", "cancelled", "indeterminate"}
  /\ attempts[t] # <<>>
  /\ SelectedAttempt(t).work = "finished" /\ SelectedAttempt(t).cleanup = "clean"
  /\ SelectedAttempt(t).origin \in Retryable
  /\ Len(attempts[t]) < MaxAttempts


RetryTrial(t) ==
  /\ Listening /\ MayRetry(t)
  /\ attempts' = [attempts EXCEPT ![t] = Append(@, QueuedAttempt)]
  /\ pending' = Append(pending, t)
  /\ runState' = [runState EXCEPT ![RunOf(t)] = "queued"]
  /\ UNCHANGED <<ticket, executor, resources, engineCrashes, ticketCount, askedToStop>>

-----------------------------------------------------------------------------
(***************************************************************************)
(* The worker.                                                             *)
(***************************************************************************)
\* No work may begin while other work runs or its cleanup is in doubt.
CleanupBlocked == \E t \in Trials : \E n \in DOMAIN attempts[t] :
  attempts[t][n].work = "finished" /\ attempts[t][n].cleanup # "clean"
WorkerFree == NothingRuns /\ WorkStates \cap {"running", "reconciling"} = {} /\ ~CleanupBlocked
\* The first of the queue is the one that is claimed, and raises while its run is over or in doubt.
Claimable(t) ==
  /\ WorkerFree /\ pending # <<>> /\ Head(pending) = t
  /\ runState[RunOf(t)] \in {"queued", "running"}
WallExhausted(t) == \E n \in DOMAIN attempts[t] : attempts[t][n].exhausted

Claim(t) ==
  /\ Claimable(t) /\ ~WallExhausted(t)
  /\ attempts' = UpdateAttempt(t, [work |-> "running", execution |-> "running"])
  /\ runState' = [runState EXCEPT ![RunOf(t)] = "running"]
  /\ pending' = Tail(pending)
  /\ executor' = [NotExecuting EXCEPT !.trial = t, !.at = "preparing"]
  /\ UNCHANGED <<ticket, resources, engineCrashes, ticketCount, askedToStop>>

ClaimExhausted(t) ==
  /\ Claimable(t) /\ WallExhausted(t)
  /\ SettleRun(t, CancelledInQueue(SelectedAttempt(t)), runState[RunOf(t)])
  /\ pending' = Tail(pending)
  /\ UNCHANGED <<ticket, executor, resources, engineCrashes, ticketCount, askedToStop>>

\* finish: a cancelled attempt whose cleanup is in doubt is an error of the runner.
Finish(execution, origin, cleanup, exhausted, authoritative) ==
  LET doubt == execution = "cancelled" /\ cleanup # "clean"
      t == executor.trial IN
  /\ SettleRun(t, [work |-> IF cleanup = "clean" THEN "finished" ELSE "reconciling",
                execution |-> IF doubt THEN "error" ELSE execution,
                origin |-> IF doubt THEN "runner_crash" ELSE origin,
                cleanup |-> cleanup, exhausted |-> exhausted, authoritative |-> authoritative],
            runState[RunOf(t)])
  /\ executor' = NotExecuting
  /\ UNCHANGED <<ticket, pending, engineCrashes, ticketCount, askedToStop>>

\* No executor, an incompatible plan, no Docker, no key.
Block ==
  /\ executor.at = "preparing" /\ ~executor.cancelled
  /\ \E origin \in {"environment_setup", "runner_unavailable"} :
       Finish("blocked", origin, "clean", FALSE, FALSE)
  /\ UNCHANGED resources

Run ==
  /\ executor.at = "preparing" /\ ~executor.cancelled
  /\ executor' = [executor EXCEPT !.at = "running"]
  /\ resources' = resources \cup {AttemptId(executor.trial)}
  /\ UNCHANGED <<ticket, runState, attempts, pending, engineCrashes, ticketCount, askedToStop>>

\* The task is cancelled, its time is over, or it raises: what is left is unknown.
CutOff ==
  /\ executor.at \in {"preparing", "running"}
  /\ \E exhausted \in BOOLEAN :
       \/ executor.cancelled /\ Finish("cancelled", "none", "unclean", exhausted, FALSE)
       \/ ~executor.cancelled /\ Finish("error", "runner_crash", "unclean", exhausted, FALSE)
  /\ UNCHANGED resources

\* The receipts of the runner: an inventory after the stop.
Receipts ==
  IF AttemptId(executor.trial) \in resources THEN {"unclean"} ELSE {"unclean", "clean"}

\* normalize: what a result says of the task and of the runner.
Normalized ==
  ({"finished"} \X {"none"} \X {"graded", "none"})
  \cup ({"error"} \X {"environment_setup"} \X {"graded", "grader_error", "none"})
  \cup ({"error"} \X {"grader_infrastructure"} \X {"grader_error"})
  \cup ({"error"} \X {"runner_crash"} \X {"graded", "none"})

RunnerEnds ==
  /\ executor.at = "running" /\ ~executor.cancelled
  /\ \E cleanup \in Receipts, result \in Normalized, exhausted \in BOOLEAN :
       IF result[3] = "none"
       THEN Finish(result[1], result[2], cleanup, exhausted, FALSE)
       ELSE /\ attempts' = UpdateAttempt(executor.trial, [grade |-> result[3]])
            /\ executor' = [executor EXCEPT !.at = "graded",
                                           !.result = <<result[1], result[2], cleanup, exhausted>>]
            /\ UNCHANGED <<ticket, runState, pending, engineCrashes, ticketCount, askedToStop>>
  /\ UNCHANGED resources

FinishGraded ==
  LET result == executor.result IN
  /\ executor.at = "graded"
  /\ Finish(result[1], result[2], result[3], result[4], TRUE)
  /\ UNCHANGED resources

\* The files of the run cannot be collected or published.
CollectFails ==
  /\ executor.at = "running" /\ ~executor.cancelled
  /\ \E cleanup \in Receipts, exhausted \in BOOLEAN :
       Finish("error", "runner_crash", cleanup, exhausted, FALSE)
  /\ UNCHANGED resources

ResourcesEnd(a) ==
  /\ a \in resources /\ resources' = resources \ {a}
  /\ UNCHANGED <<ticket, runState, attempts, pending, executor, engineCrashes, ticketCount,
                 askedToStop>>

-----------------------------------------------------------------------------
(***************************************************************************)
(* A new engine, and the reconciliation of what an old one left.           *)
(***************************************************************************)
RecoveredToQueue(a) ==
  IF a.work \in {"running", "cancel_requested"}
  THEN [a EXCEPT !.work = "finished", !.execution = "error", !.origin = "runner_crash",
                 !.cleanup = "clean"]
  ELSE a
Recovered(a) ==
  IF a.work \in {"running", "cancel_requested"}
  THEN [a EXCEPT !.work = "reconciling", !.cleanup = "unclean"]
  ELSE IF a.work = "reconciling" THEN [a EXCEPT !.cleanup = "unclean"] ELSE a


EngineCrash ==
  LET table == [t \in Trials |-> [n \in DOMAIN attempts[t] |-> Recovered(attempts[t][n])]] IN
  /\ engineCrashes < MaxEngineCrashes
  /\ engineCrashes' = engineCrashes + 1
  /\ attempts' = table
  /\ runState' = [r \in Runs |->
       IF "reconciling" \in WorkOf(table, r) THEN "indeterminate" ELSE runState[r]]
  /\ executor' = NotExecuting
  /\ UNCHANGED <<ticket, pending, resources, ticketCount, askedToStop>>

\* A trusted caller saw that nothing of the attempt is left.
Reconcile(t) ==
  /\ Listening /\ attempts[t] # <<>> /\ SelectedAttempt(t).work = "reconciling"
  /\ AttemptId(t) \notin resources
  /\ SettleRun(t, [work |-> "finished", execution |-> "error", origin |-> "runner_crash",
                cleanup |-> "clean"], runState[RunOf(t)])
  /\ UNCHANGED <<ticket, pending, executor, resources, engineCrashes, ticketCount, askedToStop>>

EvalInit ==
  /\ ticket = "none" /\ ticketCount = 0
  /\ runState = [r \in Runs |-> "none"]
  /\ attempts = [t \in Trials |-> <<>>]
  /\ pending = <<>> /\ executor = NotExecuting
  /\ resources = {} /\ engineCrashes = 0 /\ askedToStop = {}

EvalNext ==
  \/ Validate \/ TicketExpires
  \/ \E r \in Runs : CreateRun(r) \/ StartTrials(r) \/ CancelRun(r)
  \/ \E t \in Trials : RetryTrial(t) \/ Claim(t) \/ ClaimExhausted(t) \/ Reconcile(t)
  \/ Block \/ Run \/ CutOff \/ RunnerEnds \/ FinishGraded \/ CollectFails
  \/ \E a \in resources : ResourcesEnd(a)
  \/ EngineCrash

EvalSpec == EvalInit /\ [][EvalNext]_eval_vars

-----------------------------------------------------------------------------
(***************************************************************************)
(* Properties.                                                             *)
(***************************************************************************)
\* An attempt begins only when nothing of an earlier one is left on the host, whatever was
\* cancelled, cut off, interrupted by a crash or retried; the attempts of a trial before its
\* last one are over, clean and of a category the plan lets be retried.
AttemptsApart ==
  /\ executor.at # "idle" => resources \subseteq {AttemptId(executor.trial)}
  /\ \A t \in Trials :
       /\ Len(attempts[t]) <= MaxAttempts
       /\ \A n \in 1 .. Len(attempts[t]) - 1 :
            /\ attempts[t][n].work = "finished" /\ attempts[t][n].cleanup = "clean"
            /\ attempts[t][n].origin \in Retryable

\* What a run says of itself is what its attempts are: over only when each trial has an
\* attempt that is over and has left nothing, in doubt while the cleanup of one is, completed
\* without an error, failed with one, cancelled only if somebody asked.
RunsAgree ==
  \A r \in Runs :
    LET over == runState[r] \in {"completed", "failed", "cancelled"} IN
    /\ "reconciling" \in WorkOf(attempts, r) => runState[r] = "indeterminate"
    /\ over => WorkOf(attempts, r) \subseteq {"finished"}
    /\ over => \A t \in TrialsOf(r) : AttemptId(t) \notin resources
    /\ runState[r] \in {"completed", "failed"} => \A t \in TrialsOf(r) : attempts[t] # <<>>
    /\ runState[r] = "completed" => \A t \in TrialsOf(r) : ~Faulty(attempts, t)
    /\ runState[r] = "failed" => \E t \in TrialsOf(r) : Faulty(attempts, t)
    /\ runState[r] \in {"cancelled", "cancel_requested"} => r \in askedToStop

\* Through cancellation, time limits, crashes, reconciliation and retries
\* (EvaluationScheduler.claim, finish, settle_run, reconcile; EvaluationService.retry).
EvaluationsHonest == AttemptsApart /\ RunsAgree
=============================================================================
