--------------------------- MODULE ToolExecution ----------------------------
(***************************************************************************)
(* The turns of one conversation and the tool calls inside them            *)
(* (TurnRunner in forge/runtime/runner.py, ToolExecutor in                 *)
(* forge/runtime/executor.py), the records they append to the session      *)
(* journal, and what SessionStore._build_state makes of those records      *)
(* after the process ended anywhere.                                       *)
(*                                                                         *)
(* Cancellation, timeouts and closing the event stream are exceptions that *)
(* arrive where the code awaits or yields; a crash may come between any    *)
(* two steps.  One append is one step here: SessionJournal shows what is   *)
(* below it.  Calls are numbered 1, 2, ... as the model requests them.     *)
(***************************************************************************)
EXTENDS Naturals, Sequences, FiniteSets, SequencesExt

CONSTANTS
  Effects,          \* ToolRegistry.effect, a subset of EffectClasses
  RepeatIds,        \* may a provider use a call id again in a later response?
  MaxModelCalls,    \* TurnState.max_model_calls
  MaxToolCalls,     \* TurnState.max_tool_calls
  MaxBatch,         \* bound: calls in one response
  MaxCalls,         \* bound: calls in the session
  SpreadCalls,      \* bound: may more than one turn of the session request calls?
  MaxTurns,         \* bound: turns begun
  MaxAsks,          \* bound: model calls of a turn and turns before it
  MaxFaults         \* bound: crashes and failed appends

\* "write" stands for workspace_write and process, whose results may be indeterminate.
EffectClasses == {"read", "write"}

ASSUME EffectAssumption == Effects \subseteq EffectClasses
ASSUME RepeatAssumption == RepeatIds \in BOOLEAN /\ SpreadCalls \in BOOLEAN
ASSUME LimitAssumption ==
  /\ MaxModelCalls \in Nat /\ MaxToolCalls \in Nat /\ MaxBatch \in Nat /\ MaxCalls \in Nat
  /\ MaxTurns \in Nat /\ MaxAsks \in Nat /\ MaxFaults \in Nat

VARIABLES
  journal,      \* records of the session, in file order
  phase,        \* where the turn is: a member of Phases
  turn,         \* turns begun; the current turn_id
  modelCalls,   \* TurnState.model_calls
  toolRequests, \* TurnState.tool_requests
  calls,        \* calls requested since the session began
  batch,        \* the calls of the last response, by index
  pos,          \* position of the call at hand
  stop,         \* batch_reason is set
  outcome,      \* what ToolExecutor is about to record
  exc,          \* the exception that ends the turn once the batch is closed
  messages,     \* conversation.messages
  startedIds,   \* journal._tool_started_ids
  completedIds, \* journal._tool_completed_ids
  fenced,       \* a failed append made every later one fail
  effects,      \* history: calls that changed the world
  escaped,      \* history: calls whose outcome an exception took from ToolExecutor
  faults,       \* crashes and failed appends so far
  failedAppend  \* history: this process saw an append fail

batchVars == <<batch, pos, stop, outcome>>
turnVars == <<turn, modelCalls, toolRequests, calls>>
memoryVars == <<messages, startedIds, completedIds, fenced, failedAppend>>
vars == <<journal, phase, turnVars, batchVars, exc, memoryVars, effects, escaped, faults>>

Call == [n: Nat, id: Nat, effect: EffectClasses]
NoCall == [n |-> 0, id |-> 0, effect |-> "read"]
NoMessage == [kind |-> "none", calls |-> <<>>]

\* Phases that end with an append, in the order of a turn.
Appending == {"begin", "prompt", "reply", "prepare", "record", "tail", "results",
              "checkpoint", "completed", "closing"}
Phases == {"down", "idle", "model", "check", "run", "observe"} \cup Appending

Statuses == {"executed", "cached", "rejected", "cancelled", "indeterminate"}
Outcome(status, ok) == [status |-> status, ok |-> ok]
NotExecuted == Outcome("cancelled", FALSE)

-----------------------------------------------------------------------------
(***************************************************************************)
(* The records, and what a reader makes of them.                           *)
(***************************************************************************)
\* late is history: the record follows a failed append of its process.
Entry(kind, call, result, msgs) ==
  [kind |-> kind, turn |-> turn, call |-> call, result |-> result, msgs |-> msgs,
   late |-> failedAppend]
Plain(kind) == Entry(kind, NoCall, NotExecuted, <<>>)
Message(kind, message) == Entry(kind, NoCall, NotExecuted, <<message>>)

\* tool_key: turn_id and tool_call_id.
Key(r) == <<r.turn, r.call.id>>
Started(j) == {Key(j[i]) : i \in {k \in 1 .. Len(j) : j[k].kind = "tool_started"}}
Completions(j) == {k \in 1 .. Len(j) : j[k].kind = "tool_completed"}

\* SessionState.indeterminate_tools.
Indeterminate(j) ==
  (Started(j) \ {Key(j[k]) : k \in Completions(j)})
    \cup {Key(j[k]) : k \in {i \in Completions(j) : j[i].result.status = "indeterminate"}}

\* The message part of _build_state: an assistant message with tool calls waits for the
\* tool results that match it.
ReplayMessage(state, r) ==
  CASE r.kind = "user_message" -> [state EXCEPT !.messages = Append(@, r.msgs[1])]
    [] r.kind = "assistant_message" ->
         IF r.msgs[1].kind = "calls"
         THEN [state EXCEPT !.pending = r.msgs[1]]
         ELSE [state EXCEPT !.messages = Append(@, r.msgs[1])]
    [] r.kind = "tool_result_message" ->
         [messages |-> IF state.pending # NoMessage /\ state.pending.calls = r.msgs[1].calls
                       THEN Append(Append(state.messages, state.pending), r.msgs[1])
                       ELSE state.messages,
          pending |-> NoMessage]
    [] r.kind = "message_checkpoint" -> [messages |-> r.msgs, pending |-> NoMessage]
    [] OTHER -> state

NothingReplayed == [messages |-> <<>>, pending |-> NoMessage]
\* after[i] is what the first i records make.
Replayed(j) ==
  LET after[i \in 0 .. Len(j)] ==
        IF i = 0 THEN NothingReplayed ELSE ReplayMessage(after[i - 1], j[i])
  IN  after[Len(j)]
Restored(j) == Replayed(j).messages

\* The ids SessionJournal._hydrate_tool_lifecycle collects since the last turn_started.
HydratedIds(j, kind) ==
  {j[i].call.id : i \in {k \in 1 .. Len(j) : j[k].kind = kind /\ j[k].turn = turn}}

-----------------------------------------------------------------------------
Init ==
  /\ journal = <<>>
  /\ phase = "idle"
  /\ turn = 0 /\ modelCalls = 0 /\ toolRequests = 0 /\ calls = 0
  /\ batch = <<>> /\ pos = 1 /\ stop = FALSE /\ outcome = NotExecuted
  /\ exc = "none"
  /\ messages = <<>> /\ startedIds = {} /\ completedIds = {}
  /\ fenced = FALSE /\ failedAppend = FALSE
  /\ effects = {} /\ escaped = {}
  /\ faults = 0

current == batch[pos]

NoBatch == batch' = <<>> /\ pos' = 1 /\ stop' = FALSE /\ outcome' = NotExecuted

\* The record that the present phase appends.
Due == CASE phase = "begin" -> Plain("turn_started")
         [] phase = "prompt" -> Message("user_message", Last(messages))
         [] phase = "reply" -> Message("assistant_message", Last(messages))
         [] phase = "prepare" -> Entry("tool_started", current, NotExecuted, <<>>)
         [] phase = "record" -> Entry("tool_completed", current, outcome, <<>>)
         [] phase = "tail" -> Entry("tool_completed", current, NotExecuted, <<>>)
         [] phase = "results" -> Message("tool_result_message", Last(messages))
         [] phase = "checkpoint" ->
              Entry("message_checkpoint", NoCall, NotExecuted, messages)
         [] phase = "completed" -> Plain("turn_completed")
         [] phase = "closing" -> Plain(IF exc = "cancel" THEN "turn_cancelled"
                                       ELSE "turn_error")

AppendDue == ~fenced /\ journal' = Append(journal, Due)

\* Conversation.stream: a new TurnRunner with a fresh TurnState.
StartTurn ==
  /\ phase = "idle"
  /\ turn < MaxTurns
  /\ turn' = turn + 1
  /\ modelCalls' = 0 /\ toolRequests' = 0
  /\ startedIds' = {} /\ completedIds' = {}
  /\ phase' = "begin"
  /\ UNCHANGED <<journal, calls, batchVars, exc, messages, fenced, failedAppend, effects,
                 escaped, faults>>

\* record_turn_started, then _prepare_turn puts the user message into self.messages.
RecordTurnStarted ==
  /\ phase = "begin"
  /\ AppendDue
  /\ messages' = Append(messages, [kind |-> "user", calls |-> <<turn>>])
  /\ phase' = "prompt"
  /\ UNCHANGED <<turnVars, batchVars, exc, startedIds, completedIds, fenced, failedAppend,
                 effects, escaped, faults>>

RecordUserMessage ==
  /\ phase = "prompt"
  /\ AppendDue
  /\ phase' = "model"
  /\ UNCHANGED <<turnVars, batchVars, exc, memoryVars, effects, escaped, faults>>

\* can_request_tool_batch(0) is false.
OverBudget(requests) == requests > MaxToolCalls

\* The ids of k new calls: ids are distinct in one response; across the responses of a
\* turn nothing checks them.
NewIds(k) ==
  LET fresh == calls + 1 .. calls + k
      used == IF RepeatIds THEN startedIds \cup completedIds ELSE {}
  IN  {f \in [1 .. k -> fresh \cup used] :
         \A i, j \in 1 .. k : /\ f[i] = f[j] => i = j
                              /\ f[i] \in fresh => f[i] = calls + i}

\* _loop: the budget check, the model request and its response.  No call of a batch runs
\* when the tool budget is exhausted, finish_task is one of several calls, or the
\* response broke off after complete calls.
ModelResponds ==
  /\ phase = "model"
  /\ modelCalls < MaxModelCalls /\ modelCalls + turn <= MaxAsks
  /\ modelCalls' = modelCalls + 1
  /\ \/ /\ batch' = <<>>
        /\ messages' = Append(messages, [kind |-> "text", calls |-> <<>>])
        /\ UNCHANGED <<toolRequests, calls, stop>>
     \/ \E k \in 1 .. MaxBatch : \E ids \in NewIds(k), es \in [1 .. k -> Effects] :
          /\ calls + k <= MaxCalls /\ (SpreadCalls \/ calls = toolRequests)
          /\ batch' = [i \in 1 .. k |-> [n |-> calls + i, id |-> ids[i], effect |-> es[i]]]
          /\ messages' = Append(messages, [kind |-> "calls", calls |-> batch'])
          /\ toolRequests' = toolRequests + k
          /\ calls' = calls + k
          /\ stop' \in IF OverBudget(toolRequests') THEN {TRUE} ELSE BOOLEAN
  /\ pos' = 1
  /\ phase' = "reply"
  /\ UNCHANGED <<journal, turn, outcome, exc, startedIds, completedIds, fenced,
                 failedAppend, effects, escaped, faults>>

\* An empty or malformed response is answered by runtime feedback, a user message that
\* no record of its own carries.
Feedback ==
  /\ phase = "model"
  /\ modelCalls < MaxModelCalls /\ modelCalls + turn <= MaxAsks
  /\ modelCalls' = modelCalls + 1
  /\ messages' = Append(messages, [kind |-> "feedback", calls |-> <<>>])
  /\ UNCHANGED <<journal, phase, turn, toolRequests, calls, batchVars, exc, startedIds,
                 completedIds, fenced, failedAppend, effects, escaped, faults>>

\* _check_budget raises BudgetExhausted: the turn finishes as failed.
BudgetExhausted ==
  /\ phase = "model"
  /\ modelCalls >= MaxModelCalls
  /\ exc' = "budget"
  /\ phase' = "checkpoint"
  /\ UNCHANGED <<journal, turnVars, batchVars, memoryVars, effects, escaped, faults>>

\* A text answer finishes the turn unless steering waits, its completion is refused or
\* its output was cut off.
RecordAssistant ==
  /\ phase = "reply"
  /\ AppendDue
  /\ phase' \in IF batch = <<>> THEN {"model", "checkpoint"} ELSE {"check"}
  /\ UNCHANGED <<turnVars, batchVars, exc, memoryVars, effects, escaped, faults>>

-----------------------------------------------------------------------------
(***************************************************************************)
(* One call in ToolExecutor._execute, from _batch.                         *)
(***************************************************************************)

\* batch_reason is set: the call is recorded as not executed.
SkipCall ==
  /\ phase = "check" /\ pos <= Len(batch)
  /\ stop
  /\ outcome' = NotExecuted
  /\ phase' = "record"
  /\ UNCHANGED <<journal, turnVars, batch, pos, stop, exc, memoryVars, effects, escaped,
                 faults>>

\* Validation, hooks, scope and permission refuse the call, or a cached read answers it.
AnswerWithoutRunning ==
  /\ phase = "check" /\ pos <= Len(batch)
  /\ ~stop
  /\ \/ outcome' = Outcome("rejected", FALSE)
     \/ current.effect = "read" /\ outcome' = Outcome("cached", TRUE)
  /\ phase' = "record"
  /\ UNCHANGED <<journal, turnVars, batch, pos, stop, exc, memoryVars, effects, escaped,
                 faults>>

Authorize ==
  /\ phase = "check" /\ pos <= Len(batch)
  /\ ~stop
  /\ phase' = "prepare"
  /\ UNCHANGED <<journal, turnVars, batchVars, exc, memoryVars, effects, escaped, faults>>

\* Watching the paths or capturing the checkpoint fails.
PrepareFails ==
  /\ phase = "prepare"
  /\ outcome' = Outcome("rejected", FALSE)
  /\ phase' = "record"
  /\ UNCHANGED <<journal, turnVars, batch, pos, stop, exc, memoryVars, effects, escaped,
                 faults>>

\* Mistake: a write that runs without its intent being recorded.
RunUnrecorded ==
  /\ phase = "prepare"
  /\ IF current.effect = "write" THEN UNCHANGED <<journal, startedIds>>
     ELSE /\ AppendDue
          /\ startedIds' = startedIds \cup {current.id}
  /\ phase' = "run"
  /\ UNCHANGED <<turnVars, batchVars, exc, messages, completedIds, fenced, failedAppend,
                 effects, escaped, faults>>

\* The paths are watched and the checkpoint has its before image; the intent is recorded.
\* record_tool_started returns at once for an id it has seen in this turn.
RecordIntent ==
  /\ phase = "prepare"
  /\ IF current.id \in startedIds
     THEN UNCHANGED <<journal, startedIds>>
     ELSE /\ AppendDue
          /\ startedIds' = startedIds \cup {current.id}
  /\ phase' = "run"
  /\ UNCHANGED <<turnVars, batchVars, exc, messages, completedIds, fenced, failedAppend,
                 effects, escaped, faults>>

\* The running tool changes the world.
TakeEffect ==
  /\ phase = "run"
  /\ current.effect = "write"
  /\ \A e \in effects : e.n # current.n
  /\ effects' = effects \cup {[n |-> current.n, id |-> current.id, turn |-> turn,
                               first |-> batch[1].n]}
  /\ UNCHANGED <<journal, phase, turnVars, batchVars, exc, memoryVars, escaped, faults>>

Took(c) == \E e \in effects : e.n = c.n

\* The tool returns a result: success, failure, or its own INDETERMINATE.
Return ==
  /\ phase = "run"
  /\ \/ outcome' = Outcome("executed", TRUE) /\ (current.effect = "write" => Took(current))
     \/ outcome' = Outcome("executed", FALSE)
     \/ outcome' = Outcome("indeterminate", FALSE)
  /\ phase' = "observe"
  /\ UNCHANGED <<journal, turnVars, batch, pos, stop, exc, memoryVars, effects, escaped,
                 faults>>

\* Mistake: an exception in the backend counts as a refusal.
RaiseRejected ==
  /\ phase = "run"
  /\ outcome' = Outcome("rejected", FALSE)
  /\ phase' = "record"
  /\ UNCHANGED <<journal, turnVars, batch, pos, stop, exc, memoryVars, effects, escaped,
                 faults>>

\* The backend raises, or the result of a write cannot be added to the checkpoint.
Raise ==
  /\ phase = "run"
  /\ outcome' = Outcome(IF current.effect = "write" THEN "indeterminate" ELSE "rejected",
                        FALSE)
  /\ phase' = "record"
  /\ UNCHANGED <<journal, turnVars, batch, pos, stop, exc, memoryVars, effects, escaped,
                 faults>>

\* Workspace refresh, AfterFileEdit, PostToolUse and the result transformer.
Observe ==
  /\ phase = "observe"
  /\ phase' = "record"
  /\ UNCHANGED <<journal, turnVars, batchVars, exc, memoryVars, effects, escaped, faults>>

\* Cancellation inside the try block of _execute becomes an outcome.
CancelInside ==
  /\ phase \in {"prepare", "run"}
  /\ outcome' = Outcome(IF current.effect = "write" THEN "indeterminate" ELSE "cancelled",
                        FALSE)
  /\ exc' \in {"cancel", "budget"}
  /\ phase' = "record"
  /\ UNCHANGED <<journal, turnVars, batch, pos, stop, memoryVars, effects, escaped, faults>>

\* Mistake: the batch is left without its finally block.
InterruptSkipsFinally ==
  /\ phase \in {"check", "observe"}
  /\ exc' \in {"cancel", "budget", "error"}
  /\ escaped' = IF phase = "observe" THEN escaped \cup {current.n} ELSE escaped
  /\ phase' = "closing"
  /\ UNCHANGED <<journal, turnVars, batchVars, memoryVars, effects, faults>>

\* Elsewhere an exception leaves _execute and _batch, whose finally block runs next:
\* cancellation, the turn's timeout or budget, GeneratorExit, a failing hook.
Interrupt ==
  /\ phase \in {"check", "observe"}
  /\ exc' \in {"cancel", "budget", "error"}
  /\ escaped' = IF phase = "observe" THEN escaped \cup {current.n} ELSE escaped
  /\ phase' = "tail"
  /\ UNCHANGED <<journal, turnVars, batchVars, memoryVars, effects, faults>>

\* The same while no batch is open: _finish for a budget, turn_cancelled or turn_error
\* otherwise.
InterruptModel ==
  /\ phase = "model"
  /\ exc' \in {"cancel", "budget", "error"}
  /\ phase' = IF exc' = "budget" THEN "checkpoint" ELSE "closing"
  /\ UNCHANGED <<journal, turnVars, batchVars, memoryVars, effects, escaped, faults>>

\* _outcome: record_tool_completed returns at once for an id it has seen in this turn.
Complete ==
  IF current.id \in completedIds
  THEN UNCHANGED <<journal, completedIds>>
  ELSE /\ AppendDue
       /\ completedIds' = completedIds \cup {current.id}

\* The rest of the loop body in _batch.  An indeterminate outcome interrupts the turn
\* after the batch, a cancelled read at once.
RecordOutcome ==
  /\ phase = "record"
  /\ Complete
  /\ pos' = pos + 1
  /\ stop' = (stop \/ ~outcome.ok)
  /\ exc' = IF exc = "none" /\ outcome.status = "indeterminate" THEN "cancel" ELSE exc
  /\ phase' = IF outcome.status = "cancelled" /\ ~stop THEN "tail" ELSE "check"
  /\ outcome' = NotExecuted
  /\ UNCHANGED <<turnVars, batch, messages, startedIds, fenced, failedAppend, effects,
                 escaped, faults>>

EndBatch ==
  /\ phase = "check" /\ pos > Len(batch)
  /\ phase' = "tail"
  /\ UNCHANGED <<journal, turnVars, batchVars, exc, memoryVars, effects, escaped, faults>>

\* The finally block: what has no result yet is recorded as not executed.
RecordTail ==
  /\ phase = "tail" /\ pos <= Len(batch)
  /\ Complete
  /\ pos' = pos + 1
  /\ UNCHANGED <<phase, turnVars, batch, stop, outcome, exc, messages, startedIds, fenced,
                 failedAppend, effects, escaped, faults>>

\* _append_results: first into the messages, then into the journal.
CloseBatch ==
  /\ phase = "tail" /\ pos > Len(batch)
  /\ messages' = Append(messages, [kind |-> "results", calls |-> batch])
  /\ phase' = "results"
  /\ UNCHANGED <<journal, turnVars, batchVars, exc, startedIds, completedIds, fenced,
                 failedAppend, effects, escaped, faults>>

\* Then the pending exception goes on, a terminal declaration or an exhausted tool
\* budget finishes the turn, or the model is asked again.
RecordResults ==
  /\ phase = "results"
  /\ AppendDue
  /\ phase' \in CASE exc = "budget" -> {"checkpoint"}
                  [] exc \in {"cancel", "error"} -> {"closing"}
                  [] exc = "none" /\ OverBudget(toolRequests) -> {"checkpoint"}
                  [] OTHER -> {"model", "checkpoint"}
  /\ NoBatch
  /\ UNCHANGED <<turnVars, exc, memoryVars, effects, escaped, faults>>

-----------------------------------------------------------------------------
(***************************************************************************)
(* The end of a turn.                                                      *)
(***************************************************************************)

\* _finish: record_turn_completed appends message_checkpoint and turn_completed.
RecordCheckpoint ==
  /\ phase = "checkpoint"
  /\ AppendDue
  /\ phase' = "completed"
  /\ UNCHANGED <<turnVars, batchVars, exc, memoryVars, effects, escaped, faults>>

RecordTurnCompleted ==
  /\ phase = "completed"
  /\ AppendDue
  /\ phase' = "idle"
  /\ exc' = "none"
  /\ UNCHANGED <<turnVars, batchVars, memoryVars, effects, escaped, faults>>

\* The except clauses of TurnRunner.run.
RecordTurnEnded ==
  /\ phase = "closing"
  /\ AppendDue
  /\ phase' = "idle"
  /\ exc' = "none"
  /\ NoBatch
  /\ UNCHANGED <<turnVars, memoryVars, effects, escaped, faults>>

\* Mistake: closing the turn is tried again until it succeeds.
AfterFailureRetries == IF phase = "record" THEN "tail" ELSE "closing"
\* Where the exception of a failed append leads: to the finally block of _batch, to the
\* except clauses of run, or out of them.
AfterFailure == CASE phase = "record" -> "tail"
                  [] phase = "closing" -> "idle"
                  [] phase \in {"checkpoint", "completed"} /\ exc = "budget" -> "idle"
                  [] OTHER -> "closing"

\* An append raises, and the exception takes the place of the one under way.  Nothing
\* was written (another writer held the lock, or its record came first), or the record
\* was written and only fsync failed.  After any error past the head check the journal
\* object refuses all later appends.
AppendFails ==
  /\ phase \in Appending
  /\ phase = "prepare" => current.id \notin startedIds
  /\ phase = "tail" => pos <= Len(batch)
  /\ phase \in {"record", "tail"} => current.id \notin completedIds
  /\ failedAppend' = TRUE
  /\ IF fenced
     THEN UNCHANGED <<journal, fenced, faults>>
     ELSE /\ faults < MaxFaults
          /\ faults' = faults + 1
          /\ \/ fenced' \in BOOLEAN /\ UNCHANGED journal
             \/ fenced' = TRUE /\ AppendDue
  /\ IF phase = "prepare"
     THEN \* caught in _execute like any error before execution_started
          /\ outcome' = Outcome("rejected", FALSE)
          /\ phase' = "record"
          /\ UNCHANGED <<exc, escaped>>
     ELSE /\ phase' = AfterFailure
          /\ exc' = IF phase' = "idle" THEN "none" ELSE "error"
          /\ escaped' = IF phase = "record" THEN escaped \cup {current.n} ELSE escaped
          /\ UNCHANGED outcome
  /\ UNCHANGED <<turnVars, batch, pos, stop, messages, startedIds, completedIds, effects>>

\* Mistake: the calls of an unfinished turn are read back as if they had not been made.
CrashForgetsIntents ==
  /\ phase # "down"
  /\ faults < MaxFaults
  /\ faults' = faults + 1
  /\ phase' = "down"
  /\ journal' = SelectSeq(journal, LAMBDA r : r.kind # "tool_started")
  /\ NoBatch
  /\ exc' = "none"
  /\ messages' = <<>> /\ startedIds' = {} /\ completedIds' = {}
  /\ fenced' = FALSE /\ failedAppend' = FALSE
  /\ UNCHANGED <<turnVars, effects, escaped>>

\* The process ends anywhere.
Crash ==
  /\ phase # "down"
  /\ faults < MaxFaults
  /\ faults' = faults + 1
  /\ phase' = "down"
  /\ NoBatch
  /\ exc' = "none"
  /\ messages' = <<>> /\ startedIds' = {} /\ completedIds' = {}
  /\ fenced' = FALSE /\ failedAppend' = FALSE
  /\ UNCHANGED <<journal, turnVars, effects, escaped>>

\* SessionStore.open in a new process.
Resume ==
  /\ phase = "down"
  /\ phase' = "idle"
  /\ messages' = Restored(journal)
  /\ startedIds' = HydratedIds(journal, "tool_started")
  /\ completedIds' = HydratedIds(journal, "tool_completed")
  /\ UNCHANGED <<journal, turnVars, batchVars, exc, fenced, failedAppend, effects, escaped,
                 faults>>

TurnStep ==
  \/ RecordTurnStarted \/ RecordUserMessage \/ ModelResponds \/ Feedback \/ BudgetExhausted
  \/ RecordAssistant \/ SkipCall \/ AnswerWithoutRunning \/ Authorize \/ PrepareFails
  \/ RecordIntent \/ Return \/ Raise \/ Observe \/ CancelInside \/ Interrupt
  \/ InterruptModel \/ RecordOutcome \/ EndBatch \/ RecordTail \/ CloseBatch
  \/ RecordResults \/ RecordCheckpoint \/ RecordTurnCompleted \/ RecordTurnEnded
  \/ AppendFails

Next == StartTurn \/ TakeEffect \/ TurnStep \/ Crash \/ Resume

Spec == Init /\ [][Next]_vars

\* Tools return or are cancelled, the model answers or fails, and the event loop runs
\* what is ready.
FairSpec == Spec /\ WF_vars(TurnStep)

-----------------------------------------------------------------------------
(***************************************************************************)
(* Properties.                                                             *)
(***************************************************************************)
MessageKinds == {"user", "text", "calls", "results", "feedback"}

\* Types, with the position inside the batch and the counters of TurnState within the
\* budgets that _check_budget and can_request_tool_batch enforce.
TypeOK ==
  /\ phase \in Phases
  /\ turn \in 0 .. MaxTurns /\ modelCalls \in 0 .. MaxModelCalls
  /\ toolRequests \in 0 .. MaxToolCalls + MaxBatch /\ calls \in Nat
  /\ \A i \in DOMAIN batch : batch[i] \in Call
  /\ pos \in 1 .. Len(batch) + 1 /\ stop \in BOOLEAN
  /\ outcome.status \in Statuses /\ outcome.ok \in BOOLEAN
  /\ exc \in {"none", "cancel", "budget", "error"}
  /\ \A i \in DOMAIN messages : messages[i].kind \in MessageKinds
  /\ startedIds \subseteq 1 .. calls /\ completedIds \subseteq 1 .. calls
  /\ fenced \in BOOLEAN /\ failedAppend \in BOOLEAN
  /\ faults \in 0 .. MaxFaults

EffectKey(e) == <<e.turn, e.id>>
ReportedExecuted(e) == \E k \in Completions(journal) :
  Key(journal[k]) = EffectKey(e) /\ journal[k].result.status = "executed"

\* At every moment a crash may choose, a journal reader that opens the session learns of
\* each effect on the world that it happened or may have happened: its call is recorded
\* as executed or listed among indeterminate_tools.  Calls are set apart whose outcome an
\* exception took from the executor: ToolExecutionEscape is about them.
EffectsKnown ==
  \A e \in effects : e.n \in escaped \/ ReportedExecuted(e)
                       \/ EffectKey(e) \in Indeterminate(journal)

\* _batch runs the calls of one response in order and none after one that failed, was
\* interrupted or raised: a call that changes the world finds every earlier write of its
\* batch recorded as executed with success.
StopsAtFirstFailure ==
  \A e, f \in effects : e.first = f.first /\ e.n < f.n =>
    \E k \in Completions(journal) : /\ Key(journal[k]) = EffectKey(e)
                                    /\ journal[k].result = Outcome("executed", TRUE)

\* After an operation with unknown effect a turn asks the model for nothing more and runs
\* nothing more, also when a process that takes the session up again is involved.
InterruptedTurnStops ==
  \A k \in Completions(journal) : journal[k].result.status = "indeterminate" =>
    \A i \in k + 1 .. Len(journal) :
      journal[i].turn = journal[k].turn =>
        journal[i].kind \notin {"tool_started", "assistant_message"}

\* What the calls of a turn did to the world is on record, in order, and what is unknown
\* ends the turn (_batch, indeterminate_tools).
EffectsAccounted == EffectsKnown /\ StopsAtFirstFailure /\ InterruptedTurnStops

\* What is not feedback; kept[i] is what of the first i messages is not.
Public(msgs) ==
  LET kept[i \in 0 .. Len(msgs)] ==
        IF i = 0 THEN <<>>
        ELSE IF msgs[i].kind = "feedback" THEN kept[i - 1] ELSE Append(kept[i - 1], msgs[i])
  IN  kept[Len(msgs)]

\* Between turns, however the last one ended, a process that opened the session would see
\* the messages this process holds; only runtime feedback of a turn that did not complete
\* is in memory alone.  A failed append ends the claim until the session is reopened.
RestoredHistory ==
  phase = "idle" /\ ~failedAppend => Public(Restored(journal)) = Public(messages)

\* Every message with tool calls is followed at once by the results of exactly these calls.
Paired(msgs) ==
  \A i \in DOMAIN msgs : msgs[i].kind = "calls" =>
    i < Len(msgs) /\ msgs[i + 1] = [kind |-> "results", calls |-> msgs[i].calls]

\* A process went on after a failed append, which may leave a call without results in its
\* messages, and a turn that completed has saved them as they are.
Spoiled == \E i \in DOMAIN journal : journal[i].kind = "message_checkpoint" /\ journal[i].late

\* What the model is sent is well formed.  After a failed append that takes a new process,
\* and one does not help any more when the damage was saved.
WellPaired ==
  phase \in {"idle", "model"} /\ ~failedAppend /\ ~Spoiled => Paired(messages)

\* The conversation in memory can be sent to a model, and read back from the journal.
HistorySound == RestoredHistory /\ WellPaired

\* A turn ends, however its tools, hooks, appends and interruptions turn out.
TurnEnds == phase \notin {"idle", "down"} ~> phase \in {"idle", "down"}

\* The message recorded for a call without a result, "The tool did not execute before the
\* turn stopped.", is true.  (It is not: see ToolExecutionEscape.)
NotExecutedMeansNoEffect ==
  \A k \in Completions(journal) : journal[k].result.status = "cancelled" =>
    \A e \in effects : EffectKey(e) # Key(journal[k])

\* Every effect has an intent of its own in the journal before it happens.  (It does not
\* when a provider uses a call id again: see ToolExecutionRepeat.)
IntentBeforeEffect ==
  \A e \in effects : \E i \in 1 .. Len(journal) :
    journal[i].kind = "tool_started" /\ journal[i].call.n = e.n

=============================================================================
