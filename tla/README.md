# ForgeCode in TLA+

ForgeCode is a coding agent: a conversation with a model, tools that change a
workspace, a journal from which a conversation can be taken up again, an engine that
runs turns for other programs, and around them evaluations, training records and a
chat gateway. This directory holds TLA+ modules of these parts, the TLC configurations
that check them and TLAPS proofs about most of them. Paths are relative to the
repository (`forge/...` is `src/forge/...`).

## 1. Inventory

| Component | State it keeps | Operations | Hard part | What makes it correct |
|---|---|---|---|---|
| Session journal (`sessions/store.py`, `sessions/locking.py`) | JSONL file with a chain uuid → parent, artifacts, a lock file; in memory sequence, parent, deferred records, tool ids | create, open, append, commit, load | several processes, crash between write and fsync, torn lines, failed writes | one chain; nothing acknowledged is lost; what was acknowledged can be read |
| Turn runner (`runtime/runner.py`, `turn_state.py`), tool executor (`runtime/executor.py`) | messages, budgets, the batch under way, how the turn ends; execution status of a call | run, _loop, _batch, _finish; execute, record_result | cancellation, timeout, crash or exception at every await | every requested call has a result; every effect is accounted for; memory and journal agree; the turn ends |
| Inbox (`sessions/inbox.py`, `terminal_input.py`), prompt loop (`cli.py`) | pending inputs with their mode; auto_queue | queue, peek, consumed, discard, defer_steering, restore | inputs queued while a turn runs, is cancelled or fails; restart | settled at most once, never lost, in order, served in the end |
| Conversation (`runtime/agent_loop.py`) | history, inbox, evidence and task of the current session | resume, clear, fork, branch, rewind, compact, other model | memory changed and its append fails; crash between two files | memory is what the session file would restore |
| Checkpoint store (`sessions/checkpoint.py`) | manifests, blobs | begin, capture_before, record_after, restore, prune | cancelled calls whose thread still writes, edits by others, crash in a restore | an undo overwrites no work of others and gives back what was there |
| File tools (`tools/filesystem.py`, `tools/patch.py`) | the files | write, chunk, replace, correct, patch, remove | a cancelled thread finishes later; a patch that fits at several places | a call does what its arguments mean or nothing |
| Command tools (`tools/shell.py`, `tools/linux_process_worker.py`, `sandbox/process_owner.py`, `hooks/runner.py`) | process trees, pipes | run_process, cancel, timeout, hook | detached children, output behind a closed pipe, second cancellation | what a command started ends with it and its output is whole |
| Sandbox (`sandbox/workspace_backend.py`, `workspace_transfer.py`) | sessions, executions, cleanup; snapshot and output tree | prepare, execute, cancel, close; capture, check, apply | cancel at every await; others write while files are given back | cleanup reports are true; nobody's work is overwritten |
| Tracker, evidence, completion (`runtime/workspace.py`, `verification.py`, `check_contracts.py`, `completion.py`) | revision, environment epoch, verification runs | refresh, observe, verify, gate decision | evidence that is stale when used | no completion is accepted on evidence about another state |
| Tasks (`tasks/`) | active task, plan, criteria, task files | start, plan, update_step, complete, resume | long sequences of legal calls, failed saves | a completed step has evidence, steps are taken in order |
| Context (`context/`) | summaries, transcripts, dropped messages | cheap_compact, prepare, compact_history | failures and cancellation of a summary, replay | instructions of the user stay, pairs stay together |
| Model calls (`runtime/model_client.py`, `providers.py`, `model_budget.py`, `service_health.py`), subagents | budgets, account of attempts, circuit breaker | request, retry, probe | turns and subagents that share budget and circuit | every attempt is charged once; one probe at a time |
| Permissions (`permissions/`) | rules of user, project, session; mode | authorize, answer, remember | foreign edits of the rules, restarts, children | what is allowed has a reason that holds |
| Engine work items and lifecycle (`engine/persistence.py`, `scheduler.py`, `lifecycle.py`, `recovery.py`, `application/services.py`) | SQLite rows of actions, turns, work items, lifecycle | start_turn, cancel_turn, claim, finish, cleanup | restart, repeated requests, cancel against finish, cleanup that blocks | accepted once, run at most once by one owner |
| Event stream and projection (`engine/event_stream.py`, `journal_projection.py`) | events by source sequence, offsets, cursors | insert, append, quarantine, subscribe, ack | repeated and conflicting events, broken clients | every event once and in order for each reader |
| Approvals, connections, trust (`application/approvals.py`, `connections.py`, `engine/methods.py`) | nonces, pending approvals, keys | prepare, decide, authorize, set, test | state that changes while a handler awaits | what is done is what was shown, once |
| Workspace views (`application/workspaces.py`) | rows of files and changes by revision, baselines | refresh, files, changes, read, capture, diff | a scan that others write into | a view tells what was there |
| Chat gateway (`channels/`, `delivery.py`) | event log, session index, locks, cards | reserve, run, ask, reply | repeated delivery, restart, torn lines | one turn per message, one session per chat |
| MCP (`mcp/manager.py`) | connections, registered names | connect, refresh, call, reset, close | refreshes and resets that overlap | the registry is what the manager believes |
| Observability (`observability/`) | usage ledger, export queue | record, confirm, enqueue, post | early and late usage, evictions, restarts | usage and spans are accounted for |
| Evaluations (`application/evaluations.py`, `benchmark/core/scheduler.py`, `benchmark/adapters/harbor.py`) | tickets, runs, trials, attempts, grades | validate, create, claim, finish, retry, cancel, reconcile | crash and cancellation with containers left behind | attempts never overlap; the state of a run is the state of its trials |
| Campaign (`src/evals/`) | campaign file, slots | invoke, run a case, record, resume | paid calls repeated after a crash | a slot is paid once; a pass is a correct tree |
| Bundles (`application/artifacts.py`, `benchmark/core/bundle.py`, `results.py`), failures (`application/annotations.py`) | intents, artifacts, imported facts; notes, candidates, checks | export, import; annotate, save, check | crash between commits, files of others, damage | an export is what was frozen; what reproduces is proven |
| Recording (`src/extensions/qwen_tool_distillation.py`) | trace file | record, load, clean, build rows | broken streams, crash, two processes on one file | only whole episodes pass for whole ones |
| Harness sessions (`api.py`, `runtime/factory.py`, `model_registry.py`) and plugins (`plugins.py`) | plugin host with its disposers, model clients, backend, turn and child | open, activate, register, turn, child, other model, close | something fails or is cancelled at every await of opening and closing | what a session opened ends with it; nothing is closed under a running turn |
| Configuration, skills, office tools, release, datasets, packages | files read at start | | no concurrent state | not modelled (section 7) |

How they interact: the prompt loop takes a prompt from the terminal or the inbox and
calls `Conversation.stream`, which takes the workspace lock and lets a `TurnRunner`
run; the runner prepares the context, calls the model, admits steering from the inbox,
hands each tool call to the executor, which asks the permissions and captures files in
the checkpoint, and appends every message and every step of a call to the journal; the
completion gate looks at the evidence before a turn is accepted. `SessionStore` rebuilds
messages, pending inputs and tools of unknown effect from the journal in a later
process. The engine dispatches the same turns from a queue in a database, projects the
journal into its event stream, asks clients for approvals, shows them the workspace and
keeps the observations. Evaluations, campaigns and bundles work on what turns leave
behind. One process is one event loop: tasks interleave only at awaits; tools that write
files run in threads. Processes share the journal, its lock and the workspace.

## 2. Plan

Done, in this order because the journal is what all recovery rests on, the tool calls
are what can do harm, and the rest is what a turn uses, changes and leaves behind:

1. `DurableLog`, `SessionJournal`, `SessionJournalProofs`: the journal below one append.
2. `ToolExecution`, `ToolExecutionProofs`: turns and tool calls above it, where one append
   is one step.
3. `SessionInbox`: the inputs that reach those turns. `Sessions`: the sessions they go to.
4. `TurnLife`, `EngineWork`, `EngineWorkProofs`: the durable queue that runs turns for other
   programs.
5. The workspace: `Checkpoints`, `Patches`, `FileEdits`, `Evidence`, `Tasks`,
   `Processes`, `Sandboxes`, `Writeback`.
6. The services: `ModelCalls`, `Context`, `Permissions`, `Confirmations`, `EventStream`,
   `Views`, `Mcp`, `Gateway`, `Lifetimes`.
7. What is made of turns: `Recording`, `Observations`, `Evaluations`, `Campaign`,
   `Bundles`, `Failures`.

Proofs stand in modules of their own, those of several small parts together (section 5):
`SessionJournalProofs`, `ToolExecutionProofs`, `SessionInboxProofs` and `EngineWorkProofs`
are about the model they are named for; `WorkspaceProofs` is about `Tasks`, `Evidence`,
`Writeback`, `Checkpoints` and `Sandboxes`; `ServiceProofs` about `Gateway`, `Mcp`,
`Permissions`, `Confirmations`, `EventStream` and `Lifetimes`; `ApplicationProofs` about
`Failures`, `Views`, `Processes`, `Campaign`, `Bundles`, `ModelCalls` and `Evaluations`.
`FoldLemmas` has the inductions they share.

To do: theorems for every value of the constants about the parts that have none, the one
first whose invariant is close to inductive: `FileEdits` EditsMeant; then `Sessions`, `Context`, `Recording` and `Observations`. No
module here declares a RECURSIVE operator, so that each can be proved about as it stands.

## 3. Modules and their correspondence to the code

### SessionJournal, DurableLog

A `Writer` is a process with one `SessionJournal` object. The file is `lines` (the
terminated records, each with uuid, parent and sequence) and `tail`, what stands behind
the last newline: nothing, a partial record, a record whose text contains a line
separator and is torn there, one torn between two bytes of a character, or a whole record
without its newline. `synced` counts the
lines fsync has covered, `artifacts` the payload files. A process is at `pc` inside one
append: `locked` (after `exclusive_append`), `artifact`, `write`, `sync`.

| Action | Code |
|---|---|
| Create, Buffer, Release | `SessionStore.create`, `append` of a deferred session, `commit` |
| OpenLoad, OpenHead | the two reads of the file in `SessionStore.open` |
| Acquire, HeadMatches/RefuseHead, BuildRecord, WriteArtifact, WriteLine, Acknowledge | `append`, `_assert_append_head`, `_append_locked`, `_write_artifact` |
| TearLine, FailIO | a write that stops in the middle or an error of it |
| Crash, PowerLoss | the process ends and the OS frees its lock; everything unsynced may go |

`Parsed`, `ValidChain`, `Winner` and `Loadable` are the reader: `_read_records`,
`_select_valid_record_chain` and `_payload`. `DurableLog` is the promise: records are
added at the end, confirmed, and only unconfirmed ones are lost. The refinement maps
`log` to the records of the file and `durable` to `synced`.

### ToolExecution

`journal` is the sequence of records; one append is one step, and `AppendFails` has the
three outcomes `SessionJournal` shows (nothing written and refused, nothing written and
the object unusable, written but reported as failed). `phase` is where the turn stands:
`begin`, `prompt`, `model`, `reply`, then for each call of the batch `check`,
`prepare`, `run`, `observe`, `record`, then `tail` (the finally block of `_batch`),
`results`, and `checkpoint`, `completed` (`_finish`) or `closing` (the except clauses of
`run`). `TakeEffect` is the world changing while the tool runs. A call has a number
`n` of its own beside the id that the provider chose. `Restored` and `Indeterminate`
are `_build_state`. A record is `late` when an append of its process failed before it: the
object goes on after a failure that wrote nothing, with an assistant message in memory whose
calls got no result, and the `message_checkpoint` of a later turn that completes saves the
messages as they are. From then on (`Spoiled`) a new process restores the call without its
result. Validation, hooks, scope and permission are one refusal; model
answers are nondeterministic; context compaction and task state are left out.

### SessionInbox

`items` is `SessionInbox._items`, `journal` the records that concern it, `phase` the
prompt loop and the turn: `prompt`, `starting`, `preparing`, `boundary` (the top of
`_loop`), `asking` (everything awaited until the response is complete), `deciding`
(`_completion_reasons`), `deferring`, `cancelled`. In the phases `Awaiting` another task
may queue an input or cancel. Text is a class: `command` is one that the prompt loop
takes for a command of its own.

### EngineWork, TurnLife

`actions`, `turn`, `work` and `life` are the SQLite tables actions, turns, work_items and
turn_lifecycle; one transaction is one step. `exec` is the task `execute_turn`, with the
await it stands at: `created`, `claimed` (no await until the backend opens: `Loop` keeps
other callbacks out), `opening`, `working` (`adapter.stream`), and in the finally block
`draining`, `untiming` (the two gathers) and `closing`. `exec.cancel` is a cancellation
that the next await of the task will raise.

| Action | Code |
|---|---|
| StartEngine, Crash, Exit | `Store.__init__` with its recovery, the end of the process, the end of `RpcServer.run` |
| Initialize, Accept, Cancel, Shutdown, ShutdownCancels | the requests; `begin_shutdown` cancels the turns one transaction after the other |
| Expire | `Deadline.watch` |
| Poll, Claim | one round of `TurnScheduler.run`; `claim_work_item` with its refusals |
| Begin, Open, AskApproval, Answer, WorkEnds, ProjectionFails, Interrupted | the body of `execute_turn` |
| StopObserving, StopTimer, Settle, SettleFails, Abandon | its finally block and `_finish`; a write of it that fails; a cancellation that escapes from it |

`TurnLife` is what a client may rely on: an action is accepted once, its turn started at
most once and only from the queue, it ends with one outcome or is lost, and what is lost
stays so. A turn maps to "started" while the process executes it and to "lost" when its
rows say otherwise but nobody does.

Configuration, credentials, policies and the adapter are one choice of success or
failure; "completed" stands for every outcome a result reports by itself. Evaluation
attempts, events and traces are left out.

### The parts of a workspace (`WorkspaceParts`)

`WorkspaceParts` and `ServiceParts` put modules side by side that share no variable: the
part that moves is chosen in the initial state, the others rest. A step of one part
changes nothing that another part's properties speak of, so checking them one after the other
loses no behaviour, and each part keeps its own Init, Next and Spec. What does
interact is composed inside a part: the tool, its thread, the undo and other programs
in `Checkpoints`; tracker, ledger, gate and turn in `Evidence`; command, worker and
waiter in `Processes`.

| Module | Code | State and actions | Left to a choice or out |
|---|---|---|---|
| Checkpoints | `sessions/checkpoint.py`, its calls in `executor.py`, `agent_loop.py` | manifests and blobs; Capture, ToolWrites, RecordAfter around a write call, CancelCall whose thread writes later, Restore file by file, prune, CkCrash, ForeignWrite | contents are opaque |
| Patches | `tools/patch.py` | ReadEnvelope, ReadDiff, ApplyWithGit, ValidateWithoutGit, WriteWithoutGit over files of lines; the search for a hunk's place, the materialisation and rendering of a file as in the code; where `git apply` looks for a hunk's place | line ends, a last line without one, binary files |
| FileEdits | `tools/filesystem.py` | one file and its parent; read, decide, replace in a thread, CancelEdit | reading and listing tools |
| Evidence | `runtime/workspace.py`, `verification.py`, `check_contracts.py`, `completion.py`, `runner.py` | a tracked and an ignored file, revision and epoch, checks with binding, supersession and expiry, the tree a check ran on beside the one its refresh found; the gate's reasons | how a command is recognised as a check |
| Tasks | `tasks/`, `tools/task.py` | plan, criteria, current step, the two files of a task and their failing saves | goals, scopes |
| Processes | `tools/shell.py`, `linux_process_worker.py`, `process_owner.py`, `hooks/runner.py` | processes with parent, group and pipe, one of which may take an identity that the worker may not signal (Elevate, KillRefused); the worker's relay, loop and cleanup; the waiter with its limits and cancellations | contents of output |
| Writeback | `sandbox/workspace_transfer.py` | capture, recapture, preflight, entry after entry with check and change; others Touch and Hide | modes |
| Sandboxes | `sandbox/workspace_backend.py` | preparation with its probe, executions with their frames, deadline, cancel, cleanup; close | bubblewrap arguments |
| Recording | `extensions/qwen_tool_distillation.py` | pieces of streamed calls, the lines of the trace, a crash and a second recorder; the reader | prompts, tokens |
| Observations | `observability/` recorder, projection, usage_ledger, export_queue | rows of requests and usage; queue with limits of items and bytes; Post, PostAnswered, restart with another collector | prices |
| Evaluations | `application/evaluations.py`, `benchmark/core/scheduler.py`, `harbor.py`, `persistence.py` | tickets, runs, trials with attempts, the worker's execution, resources on the host, EngineCrash, Reconcile | what a grader computes |
| Campaign | `src/evals/native_swe_campaign.py`, `native_swe.py`, `runner.py`, `swe_lite_environment.py` | the campaign file, an invocation and its case from fixture to report, crash, cancellation, resume, edits of code and suites | datasets |
| Bundles | `application/artifacts.py`, `benchmark/core/bundle.py`, `results.py` | snapshot, intent, link, record as four commits; selections; imports compared with all facts | archive format |
| Failures | `application/annotations.py` | notes under the newest one seen, candidates, checks and the proof of a reproduction | texts |

### The parts of a service (`ServiceParts`)

| Module | Code | State and actions | Left to a choice or out |
|---|---|---|---|
| ModelCalls | `runtime/model_client.py`, `providers.py`, `model_budget.py`, `service_health.py`, `subagents/` | callers, two of them children of one turn; attempts, usage reports, retries with Wake, the circuit with its cooldown and probe | text of answers |
| Context | `context/compactor.py`, `manager.py` | messages with sizes; BeginSummary, SummaryReturns, SummaryFails, SummaryCancelled; Reopen replays the journal | wording |
| EventStream | `engine/event_stream.py`, `journal_projection.py`, `services.py` | journal records, capture of appends, offset, store; subscription, batches, acks, breaks, a new engine | contents of events |
| Gateway | `channels/gateway.py`, `feishu.py` | log and index on disk, memory of them, locks, cards, turns; Deliver any number of times, GatewayRestarts | wire format |
| Mcp | `mcp/manager.py` | connections, names recorded and registered, refreshes page by page, the user's way through ensure, call, reset and close | schemas |
| Sessions | `runtime/agent_loop.py`, `runner.py`, `factory.py`, `sessions/store.py` | session files as what `_build_state` makes of them, and memory; every action counts the appends that succeed before one fails | message texts |
| Permissions | `permissions/policy.py`, `risk.py`, `executor.py` | rules of four origins, mode, pending question, child; a call is its capability, the files it changes, the targets `risk.py` finds for it and traits | parsing of commands and which files they change |
| Confirmations | `application/approvals.py`, `connections.py`, `engine/methods.py` | nonces, approvals with their futures, the workspace row, keys; handlers that await the workspace | wording |
| Views | `application/workspaces.py` | tree of files and directories with identities, a scan entry by entry, rows of content and changes, baseline of a turn; a client and others who write | pages |
| Lifetimes | `api.py`, `plugins.py`, `runtime/agent_loop.py`, `model_registry.py`, `factory.py` | host with disposers in order, what plugins hold, names of the registry, clients, backend; opening, its undoing, turn, child, SelectModelOf, close with its task; CutOpening, CutClose, LeaveChild for cancellations | what handlers and services do; a child is a session whose own end is clean or not |

## 4. What the runs check

| Run | Result | Shows |
|---|---|---|
| SessionJournal | holds, 210,196 states | two writers, three records, torn lines, failed writes, crashes, one power loss: NoFork, AckedKept, FailedWriterFenced, Replayable, ImplementsLog, LockReleased |
| SessionJournalSeparator | AlwaysReplayable violated | finding 1 |
| SessionJournalOpen | AppendsOverSeenHistory violated | finding 2 |
| ToolExecution | holds, about 890,000 states | two turns, batches of two, one crash or failed append: EffectsAccounted, HistorySound, TurnEnds |
| ToolExecutionEscape | NotExecutedMeansNoEffect violated | finding 3 |
| ToolExecutionRepeat | IntentBeforeEffect violated | finding 4 |
| SessionInbox | holds, 76,578 states | two inputs, a typed prompt, two failures: InputsKept (with QueueIsJournal, NothingLost, SettledOnce, OnlySteeringOvertakes, CancelDefers), InputsServed |
| SessionInboxCommand | FollowUpsServed violated | finding 5 |
| EngineWork | holds, 129,901 states | two turns, two engine processes, an approval, a failure of store or projection: RowsAgree, OwnerHolds, CancelAnswered, LivesOnce (refinement of `TurnLife`), QueuedServed |
| EngineWorkCancel | CancelSettles violated | finding 6 |
| WorkspaceParts | holds, about 2,990,000 states | one property for each of its fourteen parts, below |
| ServiceParts | holds, about 2,010,000 states | one property for each of its ten parts, below |

Each part has one property, a conjunction of named claims that its module states one by one:

| Property | What it says |
|---|---|
| UndoSound | blobs of kept manifests are there; while only complete calls and undo, newest first and once each, changed files the next undo has no conflict and gives back the workspace of its turn's beginning |
| PatchSound | an applied envelope changed each file in the one way in which its hunks fit, in order; an applied diff changed it at the stated lines, or, by git, at others where its lines stand; no other file was changed, and by a refused patch none |
| EditsMeant | a call that reports success made of the file it found what its arguments mean; one that reports an error left it |
| CompletionTested | an accepted turn had a check that passed in it, after its last command, on the tree that was accepted, but for what others wrote while it ran; no counted failure was passed over |
| PlanInOrder | a completed step has evidence, no two are active, no step before the current one was passed over unsaid |
| CommandContained | nothing is left of a command whose worker ended, but by a refused signal; a report of a clean end is true; the output of a finished command is whole |
| WritebackSound | what somebody else wrote after the snapshot stands; the outcome that is reported is the one the files show |
| SandboxHonest | cleanup reports are true, only a proven session admits commands, frames come in order |
| EpisodesTrue | an accepted trace is one whole episode; what is trained on are answers the server finished |
| ObservationsAccounted | every ended span waits, arrived at its own collector or is counted as lost; the ledger's final usage is one the provider gave |
| EvaluationsHonest | an attempt begins only when nothing of an earlier one is left; the state of a run is that of its trials and attempts |
| CampaignHonest | slots are paid once and in order; a case that passed left what the frozen suite accepts; a workspace with live processes stays |
| BundlesFaithful | an action puts one bundle in place and replaces no file of others; all imported facts agree |
| FailuresHonest | notes on an attempt are one chain; a candidate was a failure; what counts as reproduced is proven by both executions |
| CallsHonest | attempts stay within the budgets of turn and parent and are charged once; one probe at a time |
| ContextKept | instructions stay word for word in memory, journal and request; no result is separated from its call; tool results are in the history or in a transcript |
| StreamFaithful | the store holds the journal up to its offset once and in order; a client has every matching event up to its cursor once and in order |
| OneTurnOneSession | a message has at most one turn, a chat one session, an approval comes from the sender for the turn that asked |
| RegistryAgrees | names lead to the server that the manager recorded, and no list takes a local name |
| SessionFaithful | memory is what a new process would restore; a checkpoint holds nothing of its own turn |
| AllowedIsGranted | every allowed call has a reason that still holds, and no denial in force speaks against what its request names; a denied or protected file is changed only where the request does not name it |
| ConfirmedAsShown | a call passed with the files, environment and trust that were shown, decided once; keys of settings that are gone are not used |
| ViewsTell | a client that follows the changes knows the files of its revision; a diff accounts for every file but one whose place a directory took |
| ScopesEnd | a clean report of close, and an opening that failed, leave no plugin, client, backend or child; no turn runs on what is closed; plugins end before those they require |

### Bounds

Three records let two writers each append behind the other and one fail between; a fourth
adds no new relation between a head, a file and a reader. A power loss is allowed once
because each one only shortens the unsynced end. In `ToolExecution` the calls of one turn
come in one or two responses; two calls in a batch are enough for one to precede, follow or
be cut off from the other, and the second turn shows what the first one left behind. Two
inputs of either mode are enough for one to overtake the other. In `EngineWork` two turns are
one that is executed and one that waits behind it or is cancelled before it runs; the second
engine process finds what a crash of the first left, and a third would only find the same
rows as reconciling. `MaxFaults` bounds crashes and failed appends together. SpreadCalls and
MaxAsks in `ToolExecution` keep the product of turns and batches small: the tool calls happen
in one turn of a run, whichever it is.

In the parts a bound is two where two things can stand in each other's way and one where the
second is like the first:

- `Checkpoints` two files, two checkpoints and two calls: a file captured twice, a checkpoint
  undone under a newer one. A prune takes a checkpoint by its age there; by the number `KeptCheckpoints` it
  would need a third turn, and the proof has no bound on either.
- `Patches` three lines over two texts, one of them the empty line: the smallest in which a hunk fits
  twice, once or not at all, a wrong number has another place, and an empty file, or one of an empty line, is
  left; the second of two hunks has no context line. `FileEdits` three characters over two letters: a text of two may stand at overlapping places.
- `Evidence` two turns, two tool calls, one foreign write: evidence of an earlier turn, and a
  change between check and acceptance. `Repairs` is 0 in the run, so that a refused completion ends the
  turn as partial: a repair is one more round of the same gate.
- `Processes` the command and one child, one of which may be stuck in the kernel, one under another identity.
- `Writeback` two names, one in a directory, two foreign writes and one failing change.
- `Sandboxes` the probe and one execution a caller starts, output of two chunks against a queue
  of one frame.
- `Recording` two requests, two calls that arrive interleaved, one retry, two recorders.
- `Observations` one request that is billed twice, one confirmation, one stop, and two spans of which one
  does not fit beside the other.
- `Evaluations` one run of two trials and two attempts each, one crash; `Campaign` two slots and
  two invocations; `Bundles` two actions and two bundles; `Failures` two executions, two notes.
- `ModelCalls` one turn and two children, so that budget and circuit are shared by three.
- `Context` five messages of size one, or three for what a tool read, against a threshold of six tokens, with
  one unit retained; summaries of one or three tokens, two of them, two losses at most. So an automatic summary
  is accepted, is refused as too large and tried again, a second one is made of a history that has
  one, and the kept tail, a call with its result, goes on in the history.
- `EventStream` three records and two events of the engine against batches of two, two breaks.
- `Gateway` three messages of two chats with a log that keeps two entries, and two cards of one message.
- `Mcp` two servers, two names of which one is the program's own, two pages, one overlapping refresh.
- `Sessions` three session files and two turns; `Permissions` two targets, two calls and one change of the mode or of the
  project's file;
  `Confirmations` two tokens, one approval and two revisions; `Views` three paths that may be files or
  directories, one foreign write and three requests.
- `Lifetimes` two plugins of which one requires the other, one registration, one turn with a child,
  two clients more than the start makes, one close that fails (two registrations and two failures
  were checked by themselves: nothing else appears).

Each cfg sets CHECK_DEADLOCK FALSE because the system stops when the bounds are used up.

### Fairness

`SessionJournal`: a process inside the lock goes on, fails or crashes (an
append has no wait inside it and the OS frees the lock of a dead process); nothing is
assumed of a process outside. `ToolExecution`: a turn takes a step when it can, because
the event loop runs ready tasks, tools have timeouts or return, and model requests
answer or fail; nothing makes an effect, a crash or a new turn happen.
`SessionInbox`: the prompt loop and the turn go on; no fairness of the user, of
cancellation or of failures. `EngineWork`: the event loop runs what is ready, a backend opens
or fails, and a turn ends, because its deadline cancels what it waits for; requests, the
deadline's moment, failures and crashes come as they come. The parts of the two composites
state safety only and assume no fairness.

### What is set apart

EffectsAccounted does not speak of calls whose outcome an exception took from the executor
(finding 3), HistorySound not of a process one of whose appends failed (its journal object
refuses to go on in all but one case), nor of pairs after a turn of such a process has saved
its messages (`Spoiled`), Replayable not of texts with separators (finding 1), of a last line
cut inside a character (finding 1), and not of power losses, which may take an artifact that was never synced. OwnerHolds does not
speak of a turn whose settlement failed to write in this process: once cancelled it holds
nothing back, which PROJECT.json lists among the hazards. QueuedServed speaks of an engine that
is not blocked: reconciling work and unconfirmed cleanup block it until somebody repairs the
database, because no code calls `mark_indeterminate`.

Among the parts: PatchSound leaves out a write that fails between two files, CompletionTested takes what
others wrote between the start of a check and the refresh that records it as tested, CommandContained leaves out
what a worker leaves that a refused signal ended, AllowedIsGranted the rules and the protection of files for
a request that names none (a unified diff) and the protection for tools that state their own request, ViewsTell a
file whose place a directory took, EditsMeant a call that
meets a thread of a cancelled one, WritebackSound a write in the moment between check and
replacement, SandboxHonest a command that a worker killed during its start may have started,
CampaignHonest a suite that was edited after the invocation had compared it, OneTurnOneSession a message the
log forgot and a chat whose entry could not be written, SessionFaithful an append that failed
after memory was changed and a task chosen but not recorded, CallsHonest (its probe) an attempt
from before the opening that ends beside it, ContextKept a single omitted message,
ObservationsAccounted a usage that does not add up and a quarantined journal. Each is a hazard of
the code, listed in PROJECT.json or in section 6.

## 5. What is proved

Eight modules hold the theorems; each is for any constants that meet the named assumptions
of the model, so without the bounds of the runs. A theorem `Inductive` shows that an
invariant stronger than the property is kept by every action, one step per action with
lemmas below it; the property follows from it.

| Module | Theorems | What the inductive invariant adds, and why it is needed |
|---|---|---|
| `SessionJournalProofs` | `Types`; `Unforked` (NoFork); `Durable` (AckedKept); `Fenced` (FailedWriterFenced); `Reloads` (Replayable); `Implements` (ImplementsLog: every step is an Add, a Confirm, a Lose or a stutter of `DurableLog`) | The chain as a relation of neighbours; a uuid stands in one place; between head check and acknowledgement the file's last record is the parent of the one under way, and the sequence of a failed writer runs ahead for good. For Reloads also that an artifact is there before the line that names it; for Implements what is left of the bound on uuids |
| `EngineWorkProofs` | `Types`; `TablesAgree` (RowsAgree); `ClaimHolds` (OwnerHolds); `CancellationAnswered` (CancelAnswered); `LivesAsPromised` (LivesOnce: refinement of `TurnLife`) | What each stage of a work item says of its version, owner and lifecycle row, so that a recovery finds rows it can repair; where task, timer and scheduler can be while a claim stands; that nothing behind the scheduler's gate reopens while a turn works; for the refinement that at most one turn is started |
| `ToolExecutionProofs` | `Accounted` (EffectsAccounted); `Remembered` (HistorySound) | The property speaks of an effect when the turn is over or the call answered. The invariant adds that the intent is on disk before the tool runs, that calls behind the one at hand are untouched, that what is at hand denies no effect, and that a turn with an unknown effect runs no further tool. HistorySound holds between turns only; the invariant says in each phase what the journal lacks of the messages, and what it would be read back as |
| `WorkspaceProofs` | `PlanKept` (PlanInOrder of Tasks); `CompletionHolds` (CompletionTested of Evidence); `WrittenBack` (WritebackSound); `UndoHolds` (UndoSound of Checkpoints); `SessionHonest` (SandboxHonest) | Tasks: the same of every file, because a task comes back from one, and that a step was blocked by an update only. Evidence: the gate compares a revision and an epoch, the property speaks of the tree and the commands; a check of this turn at the tracker's revision has seen what the tracker holds, and the epochs since then count the commands. Writeback: whose everything is that stands in the workspace, and that what is still the file of the snapshot was written by nobody, so that an entry whose check and system call pass is nobody else's, but for one written between the two. Checkpoints: those that were not undone stand on each other, what one turn left is what the next one found, and the workspace is what the newest one left. Sandboxes: what the task of each execution has done at each place of it: who started its processes, whether they were waited for, which directory is left, how many frames were sent |
| `SessionInboxProofs` | `QueueKept` (InputsKept) | What the journal holds as pending was queued once, under a number given out, and is not settled; the queue in memory is the pending one while the journal object takes appends; the turn that starts holds its head. What is pending is what a replay of the whole journal leaves |
| `ServiceProofs` | `OneTurn` (OneTurnOneSession of Gateway); `RegistryKept` (RegistryAgrees of Mcp); `Granted` (AllowedIsGranted of Permissions); `Confirmed` (ConfirmedAsShown of Confirmations); `Delivered` (StreamFaithful of EventStream); `ScopesEnded` (ScopesEnd of Lifetimes) | Gateway: what runs or waits is in memory and what is in memory is in the file; a message stands once in the queue of its chat and not any more when its turn is over; whatever names a session names the session of one chat. Mcp: what a refresh and the conversation carry over an await: whose list, whose connection, which servers are left. Permissions: every rule has an origin: somebody wrote it, or an answer that is not narrower left it; rules of a session or child are gone before its number changes; nothing that forbids a waiting question changes while it waits. Confirmations: an approved row has one decision on record, nobody changes the row between the decision and the last look, and the number of a nonce is not given again. EventStream: what was scanned and not taken is on its way in one batch, and no acknowledgement of an older batch passes for one of this. Lifetimes: who owes the end of what until everything is closed: each open client, the backend, what plugins hold behind what they rest on, the names that lead to a plugin |
| `ApplicationProofs` | `Honest` (FailuresHonest); `ViewsAreTrue` (ViewsTell); `Contained` (CommandContained of Processes); `CampaignTrue` (CampaignHonest); `BundlesTrue` (BundlesFaithful); `CallsAccounted` (CallsHonest of ModelCalls); `EvaluationsTrue` (EvaluationsHonest) | Failures: notes, candidates and checks name attempts and notes that there are, and a history that is not empty has a newest note. Views: what a client was shown of files that no later entry names is still so. Processes: every process descends from the worker while it lives, by a rank that decreases from child to parent, so that a worker without children has no descendants; no output is lost on its way. Campaign: what is true of the case at each phase, and that slots are taken in order, one started at most. Bundles: an action has one intent, and what it put in place is the artifact of it. ModelCalls: what the tokens of an attempt that is not settled add, that the parent's account is the total over its children, and that a probe holds the mark of an open circuit. Evaluations: whatever stands on the host is of the attempt that is executed, the last of its trial and at work, or of one whose cleanup is in doubt, and a free worker has neither; the trials of a run begin together, so that a run that is over speaks for all of them |
| `FoldLemmas` | lemmas only | A fold of a sequence exists, is unique and does at each position what its definition says; a sum over a finite set exists and follows a change of one summand |

Assumptions beyond the types of the bounds:

- `Accounted` supposes `~RepeatIds`: a model does not use a call id again in its turn.
  Where a provider does, the account breaks, as run ToolExecutionRepeat shows (finding 4). `Remembered` does without.
- Reloads states what Replayable states: no power loss, no text with a line separator and no last line cut inside a character (finding 1).
- `PermissionAssumption`: the targets are finitely many, and none is named `*` or has the empty name:
  `*` is the pattern of a rule for all targets, and the empty name that of no target.
- `WritebackAssumption`, `CkAssumption`: no content of a file is the mark for "nothing stands here", "nobody
  wrote" or "not recorded".
- `McpAssumption`: nobody and the program's own tools are no server, and not each other.
- `ProcessAssumption`: the worker, init and nobody are no process of the command. `ViewsAssumption`,
  `CallAssumption`: finitely many paths and callers. `LifetimesAssumption`: "none" and "own" are no
  plugin, what is registered is a tool, a service or a check, and there may be two clients.

Facts about a whole sequence are proved by induction without an operator as parameter: the
claim for each length is a function to BOOLEAN, and a least counterexample, which exists
because < is well-founded on Nat (`WFMin`), is refuted by the step. `FoldLemmas` states
this once (`UpTo`), and with it that a recursive function exists (`FoldExists`) and is unique
(`OneFunction`). The replay of the journal in `ToolExecution` and `SessionInbox`, the
projection and the batches of `EventStream`, the budgets of `ModelCalls` and the cancelled
queue of `Evaluations` are of this kind.

The proofs changed the models, each time checked against the source:

- Gateway: a broken line of the log is no message, but counts towards the limit when the log is
  loaded, so that a restart may forget the oldest message of it; the model had dropped the line.
- Evidence: an accepted turn has registered its criterion or had none to begin with; the model let a turn
  end with a criterion "retired" that was never there.
- Evidence: FailuresAnswered had said that a failure bound to the requirement is always answered by a
  later success. With two checks and three tools this is false (section 6, Completion): the
  ledger keeps the last run of a check only. The property now names that way out, and says that a repair may
  name a repetition of the check that failed. The run's two tools are too few for
  these cases; they rest on the theorem, and were checked by TLC with one check, four tools and
  one turn (2.8 million states).
- Writeback: of the files to be removed the one in the directory is first, as `apply` sorts them; the
  model had the other order.
- Checkpoints: UndoSound had taken a checkpoint that is restored twice for an undo in sequence. `restore`
  keeps no record of what was undone: with three checkpoints a file written to y, then back to z, both
  undone and the second one restored again leaves the oldest checkpoint in conflict. The run has two
  checkpoints and did not meet it; the property now sets a second restore apart, as it does one out of
  order (`quiet`), was checked by TLC with four checkpoints of one file (4.6 million states)
  and is proved for any number.
- ToolExecution: WellPaired had been said of every process whose own appends succeeded. It is
  false in the process after a `Spoiled` one (section 3); the property now sets that apart. The repository's
  test of an incomplete pair (`tests/sessions/test_store.py:192`) meets it as loose records, which
  the reader drops, and not inside a message_checkpoint, which it takes as it is.
- Processes: the guard of Stop had read as an implication, so that a stop could also come when nobody
  waited any more; the run had passed with these steps too.
- SessionInbox, EventStream, Evaluations: filter, replay, projection and batch are recursive functions now
  instead of library folds, and new facts of an attempt replace old ones field by field. Sandboxes: the order of frames is stated for each pair. Views: a rename is stated for each pair.
- Mcp, Permissions, Writeback, Processes, Views and Lifetimes: the assumptions named above, which TLC's model values had met unsaid.

Checked by TLC only:

- liveness under fairness: LockReleased, TurnEnds, InputsServed, QueuedServed, which no installed
  prover treats;
- ContextKept, SessionFaithful, EpisodesTrue and PatchSound: each compares a state with what several filters
  and folds of the code make of whole sequences of sequences. The inductions of `FoldLemmas` would serve,
  but each needs an invariant about all intermediate lists, which is not written;
- EditsMeant and ObservationsAccounted, which have no proof yet (section 2).

## 6. Findings

1. `store.py:1027` (run SessionJournalSeparator): the reader splits the file with
   `splitlines()`, the writer leaves U+2028, U+2029 and U+0085 raw in a record. A
   message with one of them is acknowledged and the session cannot be opened again,
   which is not "Crash-tolerant append-only session persistence" (`store.py:1`). The same
   property fails without a separator: the writer puts down UTF-8 bytes
   (`ensure_ascii=False`, `store.py:413`), so a write that stops may end between two bytes of a
   character; the strict `read_text` then raises UnicodeDecodeError, which nothing catches, and
   all acknowledged records of the session are out of reach (Texts = {"wide"} shows it).
2. `store.py:569` (SessionJournalOpen): state and head come from two reads; a record
   appended between them is appended over unseen. "Refuse to fork a journal changed by
   another live writer" (`store.py:430`).
3. `runner.py:613` (ToolExecutionEscape): refresh, hooks and the result transformer
   after the tool are outside the executor's try block; an interruption there records
   "The tool did not execute before the turn stopped." for a tool that did.
4. `store.py:226` (ToolExecutionRepeat): an id used again in a later response of a turn
   runs without intent ("intent fsync 后才执行", `docs/implementation/architecture.md:163`).
5. `cli.py:353` (SessionInboxCommand): a queued text that reads as a command is never
   consumed and blocks the queue (`docs/install/terminal-quickstart.md:149`).
6. `services.py:393` (EngineWorkCancel): the finally block of `execute_turn` awaits its
   timers unguarded. A cancellation or deadline that arrives there skips the settlement,
   leaves the turn cancel_requested, and ends the scheduler, which catches `Exception`
   only, while the engine goes on accepting turns. `test_rpc.py:269` expects a cancelled
   turn to finish as cancelled.

### Observed without a run

Read off the code while modelling, and left to the hazards or set apart above:

- Sessions: `session_clear` empties inbox and evidence before its record is written
  (`agent_loop.py:1132`), `checkpoint_rewind` changes memory before its append (`:967`). After a
  failed write the journal object refuses `/resume` and `/clear` too. A crash inside a fork leaves
  half a session that `latest()` may pick (`store.py:555`). A turn cancelled between the start
  of its task and `record_task_state` leaves the task unrecorded (`runner.py:166`).
  `HarnessSession.close` records its stop on the first journal even after a branch (`api.py:358`).
- Permissions: `_save_rules` drops rules another process wrote since the load
  (`policy.py:349`); a grant for several targets becomes one for `*` (`policy.py:298`); a project
  grant whose save fails stays in memory. `risk.py:41`-43 and `:294`-306 find the files of a call in its paths and
  in the Update, Add and Delete headers of an envelope. A unified diff, which `patch.py` accepts as well, has none,
  so that no rule for a file, and no protection of names, speaks of it; what remains is the answer for calls
  without targets, and the tool's own refusal of `.forge` and `.env` paths (`tools/paths.py`). `remove_directory`
  and the tools of other services state their own request (`executor.py:182`), for which the check of
  protected paths is not made.
- Approvals: a decision that commits after the wait has timed out raises InvalidStateError
  behind a row 'approved' (`approvals.py:179`).
- Tasks: a retracted criterion gives its id to the next one (`manager.py:421`); after `complete()` a
  continued plan has no current step; the two files of a task are not written together.
- Patches: between an empty file and no file there is no diff, so that deleting an empty file is refused, or,
  beside other changes, dropped and reported as done (`patch.py:642`, `:815`). An update that removes every
  line leaves a lone newline (`patch.py:712`). `git apply` takes a hunk whose stated line is wrong to another place
  where its lines stand, also before the hunk in front of it; the code without git refuses it. That code deletes the file
  of a section `+++ /dev/null` whatever its hunks leave of it (`patch.py:440`), which git refuses. A removed
  line that begins with `-- ` reads as a header.
- Edits: `old_text` is counted without overlap (`filesystem.py:788`): "aa" stands once in "aaa" and is replaced
  at the first of its two places, not refused as ambiguous.
- Files: without git two sections for one file overwrite each other and a rename keeps the
  old path; a write of a cancelled thread arrives later; a foreign edit between two tool edits of
  one checkpoint is lost by its undo; a crash in a restore leaves part of the files.
- Model calls: the probe mark is cleared by the end of an attempt that is no probe
  (`model_client.py:284`).
- Context: when exactly one message is omitted a missing instruction is not put back
  (`manager.py:237`).
- Event stream: an event larger than a batch's 64 KB stops its subscription (`event_stream.py:139`).
- Gateway: a torn line takes the next message's line with it. At the next start a broken line
  counts towards the limit of the log and may push the oldest message out of it (`gateway.py:150`).
- Completion: "an explicitly linked acceptance failure remains an obligation" beyond the revision it was
  made on (`completion.py:166`), but the ledger keeps the last run of a check only (`check_contracts.py:119`-134): when a
  bound check fails, is repeated without the binding and fails again, the repetition takes its place
  and is forgotten with the next change of the workspace. The tree of a check is that of the refresh after it
  (`executor.py:301`-315): what another program writes between the start of the check and this refresh counts as tested.
- MCP: a failed connect keeps the names it had; `call_tool` reconnects in plan mode too; `close()`
  looks at its notification tasks once (`manager.py:384`).
- Commands: the worker's `cleanup` catches ProcessLookupError only (`linux_process_worker.py:31`-33). When a
  descendant has another identity, its PermissionError ends the worker with exit 1, the processes go on, and the
  owner reports 'clean' (`process_owner.py:65`). A second cancellation during cleanup skips the SIGKILL of the group; detached
  processes survive the two second limit.
- Sandbox: a cancel while the last cleanup runs leaves its state 'unknown' for good. The check of
  a file's identity and `os.replace` are two calls.
- Evaluations: reconcile has no caller in src/; a run with an indeterminate attempt and queued ones makes the
  scheduler's loop spin (`engine/scheduler.py:23`); a cancelled Harbor attempt always ends indeterminate.
- Campaign: the suite is read again for every slot but compared once per invocation
  (`native_swe.py:138`); a second cancellation during `owner.close()` loses the cleanup report.
- Bundles: a run exported while it is unfinished conflicts with its finished export at every
  importer; a damaged frozen artifact makes the retry of its export fail for ever.
- Recording: the runner yields WorkspaceChanged before ToolExecutionCompleted (`runner.py:549`), the
  recorder expects the opposite order; an outcome recorded by it has no validator, so building training rows
  from it is always refused.
- Observability: `confirm_usage` has no caller in src/; an early confirmation makes the later event
  conflict and quarantines the journal of its turn; usage that does not add up leaves its
  request 'running' (`recorder.py:122`).
- Views: a scan cut off half-way logs files that exist as deleted (`workspaces.py:166`). A diff passes over a path
  that holds a directory now (`workspaces.py:259`-265): a file whose place a directory took is not shown as deleted. A
  file in the place of a directory is 'modified'.
- Harness sessions: `_open_runtime` reads permission rules and model aliases between the opening of
  the sandbox backend and the `try` that closes it (`api.py:155`-172): a `models` setting that is refused there
  leaves the backend open, unreported. A cancellation during its cleanup skips the rest (`api.py:191`). A close
  that is cancelled while it waits for the turn closes nothing, and every later one returns None at
  once (`api.py:348`). When closing the first client of a failed selection fails, the second one belongs to
  nobody (`model_registry.py:167`). A cancelled parent stops waiting for the close of its child and may itself
  report clean before it (`agent_loop.py:381`). A tool that a plugin registers after the start never reaches the
  registry (`plugins.py:134`). The client of the explore subagent is left out of `Lifetimes`: its close reports to
  nobody (`explore.py:216`).
- Turns: when the append of an assistant message with calls writes nothing and fails, the object may
  go on; the message stays in memory, and a later turn that completes saves it with `message_checkpoint`, so that
  every later process restores a call without a result (section 3, `Spoiled`).
- Journal: the artifact of a large payload is renamed into place without being synced (`store.py:479`).

## 7. Not modelled

PROJECT.json lists every component with its reason. Configuration, skills, office tools
and release read or convert files and keep no state that steps of two actors share; datasets, reports,
packages and their readers compute over finished results. What only reads (search, git
inspection, query views, rendering) and the wire formats of RPC, providers, the chat platform
and OTLP are left out everywhere, and so are the lock file of a workspace (one call of the
operating system), the Windows branches, and the bubblewrap arguments, whose effect is the
kernel's. How a shell command is read (verification command or not, risk, targets) is a choice of
the traits that matter to the gate and to the permissions. In the journal rename, index and
list of sessions are left out; fork is in `Sessions`.
