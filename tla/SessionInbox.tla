---------------------------- MODULE SessionInbox ----------------------------
(***************************************************************************)
(* User inputs that wait for their turn: SessionInbox                      *)
(* (forge/sessions/inbox.py), the turn that admits them                    *)
(* (TurnRunner in forge/runtime/runner.py), the prompt loop of the         *)
(* terminal that takes the next one (forge/cli.py), and the records from   *)
(* which SessionStore rebuilds the queue.                                  *)
(*                                                                         *)
(* A steering input enters the conversation before the next model request, *)
(* a follow-up becomes the prompt of a later turn.  Everything runs in one *)
(* event loop: another task can queue only where the turn awaits.          *)
(***************************************************************************)
EXTENDS Naturals, Sequences, FiniteSets

CONSTANTS
  Contents,    \* what inputs look like to the prompt loop: a subset of ContentClasses
  Limit,       \* pending inputs allowed, 16 in the code
  MaxAsks,     \* model requests a turn may make
  MaxInputs,   \* bound: inputs queued
  MaxPrompts,  \* bound: turns whose prompt is typed
  MaxFaults    \* bound: crashes, failed appends, turns that cannot start

\* A command is a text the prompt loop takes for one of its own, such as /context.
ContentClasses == {"text", "command"}
Modes == {"steering", "follow_up"}

ASSUME ContentAssumption == Contents \subseteq ContentClasses
ASSUME BoundAssumption ==
  Limit \in Nat /\ MaxAsks \in Nat /\ MaxInputs \in Nat /\ MaxPrompts \in Nat /\ MaxFaults \in Nat

VARIABLES
  journal,      \* input_queued, input_deferred, input_discarded, user_message, turn_cancelled
  items,        \* SessionInbox._items
  phase,        \* what the process is doing: a member of Phases
  input,        \* input_id of the turn that starts, 0 for a typed prompt
  asks,         \* model requests of the turn
  autoQueue,    \* auto_queue of the prompt loop
  acknowledged, \* history: inputs whose queueing returned an id
  fenced,       \* the journal object refuses appends
  failedAppend, \* history: an append failed in this process
  inputs, prompts, faults  \* counters of the bounds

counters == <<inputs, prompts, faults>>
vars == <<journal, items, phase, input, asks, autoQueue, acknowledged, fenced, failedAppend,
          counters>>

Phases == {"down", "prompt", "starting", "preparing", "boundary", "asking", "deciding",
           "deferring", "cancelled"}
Awaiting == {"starting", "preparing", "asking", "deciding"}  \* other tasks may run
Inputs == 1 .. MaxInputs
Item == [n: Inputs, mode: Modes, content: Contents]

Rec(kind, ns, item) == [kind |-> kind, ns |-> ns, item |-> item]
NoItem == [n |-> 0, mode |-> "none", content |-> "none"]

Numbers(list) == {list[i].n : i \in DOMAIN list}
Steering(list) == {i \in DOMAIN list : list[i].mode = "steering"}
FirstSteering(list) == list[CHOOSE i \in Steering(list) : \A k \in Steering(list) : i <= k].n

\* A list without the inputs of these numbers; kept[i] is what of its first i is left.
Without(list, ns) ==
  LET kept[i \in 0 .. Len(list)] ==
        IF i = 0 THEN <<>>
        ELSE IF list[i].n \in ns THEN kept[i - 1] ELSE Append(kept[i - 1], list[i])
  IN  kept[Len(list)]
Deferred(list, ns) ==
  [i \in DOMAIN list |-> IF list[i].n \in ns THEN [list[i] EXCEPT !.mode = "follow_up"]
                         ELSE list[i]]

\* pending_inputs of _build_state.
Replay(list, r) ==
  CASE r.kind = "input_queued" -> Append(list, r.item)
    [] r.kind \in {"input_discarded", "user_message"} -> Without(list, r.ns)
    [] r.kind = "input_deferred" -> Deferred(list, r.ns)
    [] OTHER -> list
Pending(j) ==
  LET after[i \in 0 .. Len(j)] == IF i = 0 THEN <<>> ELSE Replay(after[i - 1], j[i])
  IN  after[Len(j)]

Write(r) == ~fenced /\ journal' = Append(journal, r)

-----------------------------------------------------------------------------
Init ==
  /\ journal = <<>> /\ items = <<>>
  /\ phase = "prompt" /\ input = 0 /\ asks = 0
  /\ autoQueue = TRUE
  /\ acknowledged = {}
  /\ fenced = FALSE /\ failedAppend = FALSE
  /\ inputs = 0 /\ prompts = 0 /\ faults = 0

EndTurn == phase' = "prompt" /\ input' = 0 /\ asks' = 0

NewItem(mode, content) == [n |-> inputs + 1, mode |-> mode, content |-> content]

\* Mistake: the id is returned before the input is on disk.
QueueUnsaved(mode, content) ==
  /\ phase \in Awaiting
  /\ inputs < MaxInputs /\ Len(items) < Limit
  /\ inputs' = inputs + 1
  /\ items' = Append(items, NewItem(mode, content))
  /\ acknowledged' = acknowledged \cup {inputs'}
  /\ UNCHANGED <<journal, phase, input, asks, autoQueue, fenced, failedAppend, prompts, faults>>

\* SessionInbox.queue, called by TurnInput while a turn awaits.
Queue(mode, content) ==
  /\ phase \in Awaiting
  /\ inputs < MaxInputs /\ Len(items) < Limit
  /\ inputs' = inputs + 1
  /\ Write(Rec("input_queued", {inputs'}, NewItem(mode, content)))
  /\ items' = Append(items, NewItem(mode, content))
  /\ acknowledged' = acknowledged \cup {inputs'}
  /\ UNCHANGED <<phase, input, asks, autoQueue, fenced, failedAppend, prompts, faults>>

\* The prompt loop reads from the terminal only when no queued input comes first.
Reading == phase = "prompt" /\ (items = <<>> \/ ~autoQueue)

TypePrompt ==
  /\ Reading
  /\ prompts < MaxPrompts
  /\ prompts' = prompts + 1
  /\ input' = 0 /\ asks' = 0
  /\ phase' = "starting"
  /\ UNCHANGED <<journal, items, autoQueue, acknowledged, fenced, failedAppend, inputs, faults>>

\* /discard
Discard(n) ==
  /\ Reading
  /\ n \in Numbers(items)
  /\ Write(Rec("input_discarded", {n}, NoItem))
  /\ items' = Without(items, {n})
  /\ UNCHANGED <<phase, input, asks, autoQueue, acknowledged, fenced, failedAppend, counters>>

\* /next
TypeNext ==
  /\ Reading /\ items # <<>>
  /\ autoQueue' = TRUE
  /\ UNCHANGED <<journal, items, phase, input, asks, acknowledged, fenced, failedAppend,
                 counters>>

\* Mistake: only a follow-up becomes a prompt.
TakeFollowUp ==
  /\ phase = "prompt" /\ autoQueue /\ items # <<>>
  /\ Head(items).content = "text" /\ Head(items).mode = "follow_up"
  /\ input' = Head(items).n /\ asks' = 0
  /\ phase' = "starting"
  /\ UNCHANGED <<journal, items, autoQueue, acknowledged, fenced, failedAppend, counters>>

\* The loop takes the first pending input, whatever its mode, for the next prompt.
TakeQueued ==
  /\ phase = "prompt" /\ autoQueue /\ items # <<>>
  /\ Head(items).content = "text"
  /\ input' = Head(items).n /\ asks' = 0
  /\ phase' = "starting"
  /\ UNCHANGED <<journal, items, autoQueue, acknowledged, fenced, failedAppend, counters>>

\* A first pending input that reads as a command is carried out as one; the loop continues
\* and finds it in the queue again.
TakeCommand ==
  /\ phase = "prompt" /\ autoQueue /\ items # <<>>
  /\ Head(items).content = "command"
  /\ UNCHANGED vars

\* The workspace lock is taken or the baseline fails: no turn begins.
StartFails ==
  /\ phase = "starting"
  /\ faults < MaxFaults
  /\ faults' = faults + 1
  /\ EndTurn
  /\ UNCHANGED <<journal, items, autoQueue, acknowledged, fenced, failedAppend, inputs,
                 prompts>>

\* _prepare_turn: the user message with its input_id, then consumed.
RecordPrompt ==
  /\ phase = "starting"
  /\ Write(Rec("user_message", {input}, NoItem))
  /\ items' = Without(items, {input})
  /\ phase' = "preparing" /\ input' = 0
  /\ UNCHANGED <<asks, autoQueue, acknowledged, fenced, failedAppend, counters>>

\* The rest of _prepare_turn awaits hooks, routing and MCP, any of which may fail.
Prepare ==
  /\ phase = "preparing"
  /\ \/ phase' = "boundary" /\ UNCHANGED <<input, asks>>
     \/ EndTurn
  /\ UNCHANGED <<journal, items, autoQueue, acknowledged, fenced, failedAppend, counters>>

\* _admit_steering, one input at a time.
AdmitSteering ==
  /\ phase = "boundary" /\ asks < MaxAsks
  /\ Steering(items) # {}
  /\ LET n == FirstSteering(items)
     IN  /\ Write(Rec("user_message", {n}, NoItem))
         /\ items' = Without(items, {n})
  /\ UNCHANGED <<phase, input, asks, autoQueue, acknowledged, fenced, failedAppend, counters>>

\* The budget is checked before the steering is admitted and again before the request.
Ask ==
  /\ phase = "boundary" /\ Steering(items) = {}
  /\ asks < MaxAsks
  /\ asks' = asks + 1
  /\ phase' = "asking"
  /\ UNCHANGED <<journal, items, input, autoQueue, acknowledged, fenced, failedAppend, counters>>

\* A budget of requests, tokens or time is exhausted: the turn ends as failed and leaves
\* the steering it has not admitted where it was.
EndAtBoundary ==
  /\ phase = "boundary"
  /\ EndTurn
  /\ UNCHANGED <<journal, items, autoQueue, acknowledged, fenced, failedAppend, counters>>

\* The response had tools, or steering arrived meanwhile: the loop goes on.  A final answer
\* has its completion reviewed, which awaits.  An unusable answer ends the turn.
Answer ==
  /\ phase = "asking"
  /\ \/ phase' = "boundary" /\ UNCHANGED <<input, asks>>
     \/ Steering(items) = {} /\ phase' = "deciding" /\ UNCHANGED <<input, asks>>
     \/ EndTurn
  /\ UNCHANGED <<journal, items, autoQueue, acknowledged, fenced, failedAppend, counters>>

\* The completion is refused, or the turn is over whatever was queued meanwhile.
Decide ==
  /\ phase = "deciding"
  /\ \/ phase' = "boundary" /\ UNCHANGED <<input, asks>>
     \/ EndTurn
  /\ UNCHANGED <<journal, items, autoQueue, acknowledged, fenced, failedAppend, counters>>

\* Cancellation reaches the turn at an await; before run() it only ends the start.
Cancel ==
  /\ phase \in Awaiting
  /\ phase' = CASE phase = "starting" -> "prompt"
                [] phase # "starting" /\ Steering(items) # {} -> "deferring"
                [] OTHER -> "cancelled"
  /\ input' = 0
  /\ autoQueue' = FALSE
  /\ UNCHANGED <<journal, items, asks, acknowledged, fenced, failedAppend, counters>>

SteeringNumbers == {items[i].n : i \in Steering(items)}

\* Mistake: only the items in memory change.
DeferUnsaved ==
  /\ phase = "deferring"
  /\ items' = Deferred(items, SteeringNumbers)
  /\ phase' = "cancelled"
  /\ UNCHANGED <<journal, input, asks, autoQueue, acknowledged, fenced, failedAppend, counters>>

\* defer_steering
Defer ==
  /\ phase = "deferring"
  /\ Write(Rec("input_deferred", SteeringNumbers, NoItem))
  /\ items' = Deferred(items, SteeringNumbers)
  /\ phase' = "cancelled"
  /\ UNCHANGED <<input, asks, autoQueue, acknowledged, fenced, failedAppend, counters>>

RecordCancelled ==
  /\ phase = "cancelled"
  /\ Write(Rec("turn_cancelled", {}, NoItem))
  /\ EndTurn
  /\ UNCHANGED <<items, autoQueue, acknowledged, fenced, failedAppend, counters>>

-----------------------------------------------------------------------------
\* What the pending append of a phase would write.
Due ==
  CASE phase = "starting" -> Rec("user_message", {input}, NoItem)
    [] phase = "boundary" -> Rec("user_message", {FirstSteering(items)}, NoItem)
    [] phase = "deferring" -> Rec("input_deferred", SteeringNumbers, NoItem)
    [] phase = "cancelled" -> Rec("turn_cancelled", {}, NoItem)

\* Nothing was written, or everything was and only fsync failed: see SessionJournal.
Fault(r) ==
  /\ failedAppend' = TRUE
  /\ IF fenced THEN UNCHANGED <<journal, fenced, faults>>
     ELSE /\ faults < MaxFaults
          /\ faults' = faults + 1
          /\ \/ fenced' \in BOOLEAN /\ UNCHANGED journal
             \/ fenced' = TRUE /\ Write(r)

\* The append of a turn fails: the error ends the turn, the items stay as they were.
TurnAppendFails ==
  /\ phase \in {"starting", "boundary", "deferring", "cancelled"}
  /\ phase = "boundary" => asks < MaxAsks /\ Steering(items) # {}
  /\ Fault(Due)
  /\ EndTurn
  /\ UNCHANGED <<items, autoQueue, acknowledged, inputs, prompts>>

\* The append of queue fails: the caller gets the error and no id.
QueueFails(mode, content) ==
  /\ phase \in Awaiting
  /\ inputs < MaxInputs /\ Len(items) < Limit
  /\ inputs' = inputs + 1
  /\ Fault(Rec("input_queued", {inputs'}, NewItem(mode, content)))
  /\ UNCHANGED <<items, phase, input, asks, autoQueue, acknowledged, prompts>>

Crash ==
  /\ phase # "down"
  /\ faults < MaxFaults
  /\ faults' = faults + 1
  /\ phase' = "down" /\ input' = 0 /\ asks' = 0
  /\ items' = <<>>
  /\ fenced' = FALSE /\ failedAppend' = FALSE
  /\ UNCHANGED <<journal, autoQueue, acknowledged, inputs, prompts>>

\* create_runtime: restore(state.pending_inputs), in a new prompt loop.
Resume ==
  /\ phase = "down"
  /\ items' = Pending(journal)
  /\ autoQueue' = TRUE
  /\ phase' = "prompt"
  /\ UNCHANGED <<journal, input, asks, acknowledged, fenced, failedAppend, counters>>

ProcessStep ==
  \/ TakeQueued \/ TakeCommand \/ StartFails \/ RecordPrompt \/ Prepare \/ AdmitSteering \/ Ask
  \/ EndAtBoundary \/ Answer \/ Decide \/ Defer \/ RecordCancelled \/ TurnAppendFails

UserStep ==
  \/ \E mode \in Modes, content \in Contents : Queue(mode, content) \/ QueueFails(mode, content)
  \/ TypePrompt \/ TypeNext \/ Cancel \/ \E n \in Inputs : Discard(n)

Next == ProcessStep \/ UserStep \/ Crash \/ Resume

Spec == Init /\ [][Next]_vars

\* The event loop runs; the user and the failures come as they come.
FairSpec == Spec /\ WF_vars(ProcessStep)

-----------------------------------------------------------------------------
(***************************************************************************)
(* Properties.                                                             *)
(***************************************************************************)
TypeOK ==
  /\ phase \in Phases
  /\ \A i \in DOMAIN items : items[i] \in Item
  /\ Len(items) <= Limit
  /\ input \in Inputs \cup {0} /\ asks \in 0 .. MaxAsks
  /\ autoQueue \in BOOLEAN /\ fenced \in BOOLEAN /\ failedAppend \in BOOLEAN
  /\ acknowledged \subseteq Inputs
  /\ inputs \in 0 .. MaxInputs /\ prompts \in 0 .. MaxPrompts /\ faults \in 0 .. MaxFaults

\* What restore would give a new process is what this process holds, inputs, modes and
\* order, at every await of the event loop, until an append has failed.
QueueIsJournal == phase # "down" /\ ~failedAppend => items = Pending(journal)

Settling(n) == {i \in DOMAIN journal : /\ journal[i].kind \in {"user_message", "input_discarded"}
                                       /\ n \in journal[i].ns}

\* An input enters the conversation once or is discarded once, never both, whatever
\* crashes, failed appends, cancels and restarts come between peek and consumed.
SettledOnce == \A n \in Inputs : Cardinality(Settling(n)) <= 1

\* An input whose id queue() returned is not lost: the journal holds it as pending until
\* it is settled.
NothingLost == \A n \in acknowledged : n \in Numbers(Pending(journal)) \/ Settling(n) # {}

Prefix(i) == SubSeq(journal, 1, i - 1)

\* An input overtakes an earlier one only as steering overtakes a follow-up.
OnlySteeringOvertakes ==
  \A i \in DOMAIN journal : journal[i].kind = "user_message" =>
    LET before == Pending(Prefix(i))
    IN  \A a, b \in DOMAIN before : a < b /\ before[b].n \in journal[i].ns =>
          before[a].mode = "follow_up" /\ before[b].mode = "steering"

\* "Cancel turns steering that was not consumed into work to do": when a cancelled turn is
\* on record, no steering of it is left.
CancelDefers ==
  \A i \in DOMAIN journal : journal[i].kind = "turn_cancelled" =>
    Steering(Pending(Prefix(i))) = {}

\* Every input that was taken is pending or settled, settled once and in its turn, across
\* cancels, restarts and failed appends (queue, consumed, discard, defer_steering, replay).
InputsKept == QueueIsJournal /\ NothingLost /\ SettledOnce /\ OnlySteeringOvertakes /\ CancelDefers

Served(n) == n \notin Numbers(items) \/ ~autoQueue \/ failedAppend

\* While the prompt loop takes queued inputs by itself each one is served, whatever turn
\* comes first and however it ends, as long as no command stands before it.
InputsServed ==
  \A n \in Inputs :
    n \in Numbers(items) ~> Served(n) \/ Head(items).content = "command"

\* "/follow queues a task for after the current turn": each queued input is served.  (It
\* is not when its text reads as a command: see SessionInboxCommand.)
FollowUpsServed == \A n \in Inputs : n \in Numbers(items) ~> Served(n)

=============================================================================
