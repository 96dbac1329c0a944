------------------------------ MODULE Sessions ------------------------------
(***************************************************************************)
(* What a conversation holds in memory and what its session file restores: *)
(* turns, compaction, rewind, branch, resume, clear, another model, and    *)
(* the start of the next process (forge/runtime/agent_loop.py, runner.py,  *)
(* factory.py, forge/sessions/store.py, driven by forge/cli.py).           *)
(*                                                                         *)
(* A session is kept as what _build_state makes of its records. An append  *)
(* is atomic here; torn lines and foreign writers are in SessionJournal,   *)
(* the order of the inputs in SessionInbox, files in Checkpoints.          *)
(***************************************************************************)
EXTENDS Naturals, Sequences, SequencesExt, TLC

CONSTANTS
  MaxSessionTurns,  \* bound: turns
  MaxTurnSteps,     \* bound: steps of a turn
  MaxSessionFiles,  \* bound: session files
  MaxCommands,      \* bound: commands between turns
  MaxAppendFaults   \* bound: appends that fail, and crashes

ASSUME SessionAssumption ==
  /\ MaxSessionTurns \in Nat /\ MaxTurnSteps \in Nat /\ MaxSessionFiles \in Nat
  /\ MaxCommands \in Nat /\ MaxAppendFaults \in Nat

VARIABLES
  archive,    \* the session files, by the order of their creation
  writing,    \* session_journal: the session it writes, 0 while it is deferred
  fenced,     \* the journal object refuses to append after a write that failed
  said,       \* Conversation.messages
  waiting,    \* inbox: inputs that wait
  proofs,     \* verification_history
  current,    \* task_manager.active
  at,         \* what the process does: a member of Stages
  stale,      \* history: memory was changed and the append for it failed
  unsaved,    \* history: the task changed and no task_state was recorded
  turns, steps, commands, appendFaults   \* counters of the bounds

memory == <<said, waiting, proofs, current>>
sess_vars == <<archive, writing, fenced, memory, at, stale, unsaved,
               turns, steps, commands, appendFaults>>

\* Down; between turns; prompt recorded; task chosen; at work.
Stages == {"down", "idle", "starting", "routed", "working"}

\* A task is known by its id and by how often it changed.
NoActive == <<0, 0>>
Said(kind) == <<turns, kind>>
Summary == <<0, "summary">>

\* portable_history: another model gets calls and results as text.
AsText == [request |-> "request text", result |-> "result text"]
Portable(list) ==
  [i \in DOMAIN list |-> IF list[i][2] \in DOMAIN AsText THEN <<list[i][1], AsText[list[i][2]]>>
                         ELSE list[i]]

-----------------------------------------------------------------------------
(***************************************************************************)
(* Replay: _build_state, record by record.                                 *)
(***************************************************************************)
NewFile == [messages |-> <<>>, asked |-> <<>>, task |-> NoActive, evidence |-> {}, inputs |-> {},
            checkpoints |-> <<>>]
Entry(kind, value) == [kind |-> kind, value |-> value]

ReplayEntry(s, r) ==
  CASE r.kind = "user_message" ->
         [s EXCEPT !.messages = Append(@, r.value.message), !.inputs = @ \ {r.value.input}]
    [] r.kind = "answer" -> [s EXCEPT !.messages = Append(@, r.value)]
    [] r.kind = "request" -> [s EXCEPT !.asked = <<r.value>>]
    [] r.kind = "result" ->
         [s EXCEPT !.messages = IF s.asked # <<>> /\ s.asked[1][1] = r.value[1]
                                THEN @ \o s.asked \o <<r.value>> ELSE @,
                   !.asked = <<>>]
    [] r.kind = "messages" -> [s EXCEPT !.messages = r.value, !.asked = <<>>]
    [] r.kind = "task_state" -> [s EXCEPT !.task = r.value]
    [] r.kind = "verification_recorded" -> [s EXCEPT !.evidence = @ \cup {r.value}]
    [] r.kind = "input_queued" -> [s EXCEPT !.inputs = @ \cup {r.value}]
    [] r.kind = "input_discarded" -> [s EXCEPT !.inputs = @ \ {r.value}]
    [] r.kind = "checkpoint_created" -> [s EXCEPT !.checkpoints = (turns :> r.value) @@ @]
    [] r.kind = "conversation_rewound" ->
         [s EXCEPT !.messages = r.value.messages, !.task = r.value.task, !.evidence = {},
                   !.asked = <<>>]
    [] OTHER -> s
Replayed(s, entries) == FoldLeft(ReplayEntry, s, entries)

\* The record of a message list: context_compacted, message_checkpoint, model_selected.
Listed(list) == Entry("messages", list)
TaskState(task) == Entry("task_state", task)

(***************************************************************************)
(* Appending entries to the journal of the conversation: the first n are   *)
(* written. A failure before the write (the file is busy) may be repeated, *)
(* one in the write fences the journal object.                             *)
(***************************************************************************)
Record(entries, n) ==
  /\ n \in IF fenced THEN {0} ELSE 0 .. Len(entries)
  /\ IF n = Len(entries) \/ fenced THEN UNCHANGED <<fenced, appendFaults>>
     ELSE /\ appendFaults < MaxAppendFaults /\ appendFaults' = appendFaults + 1
          /\ fenced' \in BOOLEAN
  /\ archive' = [archive EXCEPT ![writing] = Replayed(@, SubSeq(entries, 1, n))]
Written(entries, n) == n = Len(entries)

\* What is appended while the journal is deferred is kept until its commit; none of it is about
\* messages, the task, evidence or inputs.
WriteOrDefer(entries, n) ==
  IF writing = 0 THEN n = Len(entries) /\ UNCHANGED <<archive, fenced, appendFaults>>
  ELSE Record(entries, n)

Command == at = "idle" /\ commands < MaxCommands /\ commands' = commands + 1
Bind(id) == writing' = id /\ fenced' = FALSE
Load(id) ==
  /\ said' = archive[id].messages /\ waiting' = archive[id].inputs
  /\ proofs' = archive[id].evidence /\ current' = archive[id].task

-----------------------------------------------------------------------------
(***************************************************************************)
(* A turn (TurnRunner). It copies the messages, and gives them back to the *)
(* conversation when it is prepared.                                       *)
(***************************************************************************)
Draft == Append(said, Said("prompt"))
EndOfTurn == at' = "idle" /\ steps' = 0

\* commit makes a deferred journal a file before its first entry.
CommitAndWrite(entries, n) ==
  IF writing # 0 THEN Record(entries, n) /\ UNCHANGED writing
  ELSE /\ Len(archive) < MaxSessionFiles
       /\ n \in IF fenced THEN {0} ELSE 0 .. Len(entries)
       /\ IF n = Len(entries) \/ fenced THEN UNCHANGED <<fenced, appendFaults>>
          ELSE /\ appendFaults < MaxAppendFaults /\ appendFaults' = appendFaults + 1
               /\ fenced' \in BOOLEAN
       /\ \/ n = 0 /\ UNCHANGED <<archive, writing>>
          \/ ~fenced /\ archive' = Append(archive, Replayed(NewFile, SubSeq(entries, 1, n)))
             /\ writing' = Len(archive')

\* The prompt and the task before it; input 0 is a prompt that was typed.
StartTurn(input, n) ==
  /\ at = "idle" /\ turns < MaxSessionTurns
  /\ turns' = turns + 1
  /\ LET prompt == <<turns', "prompt">>
         entries == <<Entry("turn_started", 0),
                      Entry("user_message", [message |-> prompt, input |-> input]),
                      TaskState(current)>> IN
     /\ CommitAndWrite(entries, n)
     /\ IF Written(entries, n)
        THEN at' = "starting" /\ waiting' = waiting \ {input} /\ unsaved' = FALSE
             /\ UNCHANGED <<said, stale>>
        ELSE /\ said' = IF n = 0 THEN said ELSE Append(said, prompt)
             /\ stale' = (stale \/ n > 0)
             /\ UNCHANGED <<at, waiting, unsaved>>
  /\ UNCHANGED <<proofs, current, steps, commands>>

\* Routing: the turn starts a task, continues one, or leaves it alone.
Route(task) ==
  /\ at = "starting" /\ at' = "routed"
  /\ task \in {current, <<turns, 1>>}
             \cup (IF current = NoActive THEN {} ELSE {<<current[1], current[2] + 1>>})
  /\ current' = task
  /\ unsaved' = (unsaved \/ task # current)
  /\ UNCHANGED <<archive, writing, fenced, said, waiting, proofs, stale, turns, steps, commands,
                 appendFaults>>

\* The checkpoint of the turn: the messages before its prompt, the task it has chosen.
Prepare(n) ==
  /\ at = "routed"
  /\ LET entries == <<Entry("checkpoint_created",
                            [messages |-> said, task |-> current]),
                      TaskState(current)>> IN
     /\ Record(entries, n)
     /\ said' = Draft
     /\ IF Written(entries, n) THEN at' = "working" /\ steps' = 0 /\ unsaved' = FALSE
        ELSE EndOfTurn /\ UNCHANGED unsaved
  /\ UNCHANGED <<writing, waiting, proofs, current, stale, turns, commands>>

\* A step of the turn: the entries, and what memory holds when all of them or only n are written.
Step(entries, n, messages, part) ==
  /\ at = "working" /\ steps < MaxTurnSteps
  /\ Record(entries, n)
  /\ IF Written(entries, n)
     THEN said' = messages /\ steps' = steps + 1 /\ UNCHANGED <<at, stale>>
     ELSE said' = part /\ EndOfTurn /\ stale' = TRUE
  /\ UNCHANGED <<writing, turns, commands>>

Answer(n) ==
  LET more == Append(said, Said("answer")) IN
  /\ Step(<<Entry("answer", Said("answer"))>>, n, more, more)
  /\ UNCHANGED <<waiting, proofs, current, unsaved>>

\* A call and its result; a check gives evidence; a tool may change the task. The batch is closed in
\* memory also when its records fail.
RunCall(check, task, n) ==
  LET asked == Append(said, Said("request"))
      whole == Append(asked, Said("result"))
      evidence == IF check THEN <<Entry("verification_recorded", <<turns, steps>>)>> ELSE <<>>
      entries == <<Entry("request", Said("request"))>> \o evidence
                 \o <<Entry("result", Said("result")), TaskState(task)>> IN
  /\ task \in {current} \cup (IF current = NoActive THEN {<<turns, 1>>}
                              ELSE {<<current[1], current[2] + 1>>})
  /\ Step(entries, n, whole, IF n = 0 THEN asked ELSE whole)
  /\ proofs' = IF check /\ n > 0 THEN proofs \cup {<<turns, steps>>} ELSE proofs
  /\ current' = IF n = 0 THEN current ELSE task
  /\ unsaved' = IF Written(entries, n) THEN FALSE ELSE unsaved \/ current' # current
  /\ UNCHANGED waiting

\* _feedback changes the messages and records nothing.
AddFeedback ==
  /\ Step(<<>>, 0, Append(said, Said("feedback")), said)
  /\ UNCHANGED <<waiting, proofs, current, unsaved>>

CompactInTurn(n) ==
  /\ Step(<<Listed(<<Summary>>)>>, n, <<Summary>>, said)
  /\ UNCHANGED <<waiting, proofs, current, unsaved>>

\* _admit_steering: the message and the task are recorded, then the inbox lets go of the input.
Admit(input, n) ==
  LET more == Append(said, Said("steering"))
      entries == <<Entry("user_message", [message |-> Said("steering"), input |-> input]),
                   TaskState(current)>> IN
  /\ input \in waiting
  /\ Step(entries, n, more, more)
  /\ waiting' = IF Written(entries, n) THEN waiting \ {input} ELSE waiting
  /\ unsaved' = IF Written(entries, n) THEN FALSE ELSE unsaved
  /\ UNCHANGED <<proofs, current>>

\* _finish and record_turn_completed, whatever the status.
FinishTurn(task, n) ==
  /\ at = "working"
  /\ task \in {current} \cup (IF current = NoActive THEN {} ELSE {<<current[1], current[2] + 1>>})
  /\ current' = task
  /\ LET entries == <<Listed(said), TaskState(task), Entry("turn_completed", 0)>> IN
     /\ Record(entries, n)
     /\ stale' = (stale \/ ~Written(entries, n))
  /\ EndOfTurn /\ unsaved' = FALSE
  /\ UNCHANGED <<writing, said, waiting, proofs, turns, commands>>

\* A turn that is cancelled or raises keeps its messages; turn_cancelled and turn_error change
\* nothing that is replayed.
Interrupt ==
  /\ at \in {"starting", "routed", "working"}
  /\ said' = IF at = "working" THEN said ELSE Draft
  /\ EndOfTurn
  /\ UNCHANGED <<archive, writing, fenced, waiting, proofs, current, stale, unsaved, turns,
                 commands, appendFaults>>

-----------------------------------------------------------------------------
(***************************************************************************)
(* Commands: inputs, /compact, /model, /task resume, /rewind.              *)
(***************************************************************************)
\* Inputs may be queued at any time; the order and the mode are in SessionInbox.
QueueInput(n) ==
  /\ at # "down" /\ commands < MaxCommands /\ commands' = commands + 1
  /\ LET entries == <<Entry("input_queued", commands')>> IN
     /\ CommitAndWrite(entries, n)
     /\ waiting' = IF Written(entries, n) THEN waiting \cup {commands'} ELSE waiting
  /\ UNCHANGED <<said, proofs, current, at, stale, unsaved, turns, steps>>

DiscardInput(input, n) ==
  /\ Command /\ input \in waiting
  /\ Record(<<Entry("input_discarded", input)>>, n)
  /\ waiting' = IF n = 1 THEN waiting \ {input} ELSE waiting
  /\ UNCHANGED <<writing, said, proofs, current, at, stale, unsaved, turns, steps>>

CompactNow(n) ==
  /\ Command /\ said # <<>>
  /\ said' = <<Summary>>
  /\ Record(<<Listed(said')>>, n)
  /\ stale' = (stale \/ n = 0)
  /\ UNCHANGED <<writing, waiting, proofs, current, at, unsaved, turns, steps>>

SelectModel(n) ==
  /\ Command
  /\ WriteOrDefer(<<Listed(Portable(said))>>, n)
  /\ said' = IF n = 1 THEN Portable(said) ELSE said
  /\ UNCHANGED <<writing, waiting, proofs, current, at, stale, unsaved, turns, steps>>

\* /task resume: an earlier task becomes the active one, and nothing is recorded.
ResumeOldTask(task) ==
  /\ Command /\ task # current
  /\ task \in UNION {{archive[i].checkpoints[t].task : t \in DOMAIN archive[i].checkpoints}
                       : i \in DOMAIN archive} \ {NoActive}
  /\ current' = task /\ unsaved' = TRUE
  /\ UNCHANGED <<archive, writing, fenced, said, waiting, proofs, at, stale, turns, steps,
                 appendFaults>>

\* checkpoint_rewind of the conversation: memory first, the record last.
Rewind(t, n) ==
  /\ Command /\ writing # 0 /\ t \in DOMAIN archive[writing].checkpoints
  /\ LET to == archive[writing].checkpoints[t] IN
     /\ said' = to.messages /\ current' = to.task /\ proofs' = {}
     /\ Record(<<Entry("conversation_rewound", to)>>, n)
  /\ stale' = (stale \/ n = 0)
  /\ unsaved' = FALSE
  /\ UNCHANGED <<writing, waiting, at, turns, steps>>

-----------------------------------------------------------------------------
(***************************************************************************)
(* Commands that bind another session.                                     *)
(***************************************************************************)
Resumable(s) == s.messages # <<>> \/ s.task # NoActive \/ s.inputs # {}

\* session_resume: the old session is stopped first; then memory is what the file restores. n = 0:
\* the stop fails; n = 1: the record of the resumption fails.
Resume(id, n) ==
  /\ Command /\ id \in DOMAIN archive \ {writing} /\ Resumable(archive[id])
  /\ IF n = 0
     THEN /\ writing # 0
          /\ Record(<<Entry("session_stopped", 0)>>, 0)
          /\ UNCHANGED <<memory, writing, stale, unsaved>>
     ELSE /\ n \in {1, 2} /\ (writing # 0 => ~fenced)
          /\ IF n = 2 THEN UNCHANGED appendFaults
             ELSE appendFaults < MaxAppendFaults /\ appendFaults' = appendFaults + 1
          /\ Load(id) /\ writing' = id /\ fenced' \in (IF n = 1 THEN BOOLEAN ELSE {FALSE})
          /\ stale' = FALSE /\ unsaved' = FALSE
          /\ UNCHANGED archive
  /\ UNCHANGED <<at, turns, steps>>

\* Mistake: a fork leaves the evidence behind.
ForkWithoutEvidence(source, messages, task) ==
  <<Entry("session_started", 0), Entry("session_forked", 0), Listed(messages), TaskState(task)>>

\* What fork appends.
ForkOf(source, messages, task) ==
  <<Entry("session_started", 0), Entry("session_forked", 0), Listed(messages), TaskState(task)>>
  \o [i \in 1 .. Len(SetToSeq(source.evidence)) |->
        Entry("verification_recorded", SetToSeq(source.evidence)[i])]

\* session_branch: messages and task as memory holds them, evidence as the file of the source
\* restores it. A fork that fails leaves what it has written, and the conversation where it was.
Branch(n) ==
  /\ Command /\ writing # 0 /\ Len(archive) < MaxSessionFiles
  /\ LET entries == ForkOf(archive[writing], said, current) IN
     /\ n \in 0 .. Len(entries)
     /\ archive' = IF n = 0 THEN archive
                   ELSE Append(archive, Replayed(NewFile, SubSeq(entries, 1, n)))
     /\ IF Written(entries, n)
        THEN /\ Bind(Len(archive')) /\ waiting' = {} /\ unsaved' = FALSE
             /\ UNCHANGED appendFaults
        ELSE /\ appendFaults < MaxAppendFaults /\ appendFaults' = appendFaults + 1
             /\ UNCHANGED <<writing, fenced, waiting, unsaved>>
  /\ UNCHANGED <<said, proofs, current, at, stale, turns, steps>>

\* session_clear: inputs and evidence leave memory before the old session is stopped.
Clear(n) ==
  /\ Command
  /\ waiting' = {} /\ proofs' = {}
  /\ n \in {0, 1} /\ (n = 0 => writing # 0) /\ (n = 1 => writing = 0 \/ ~fenced)
  /\ IF n = 0
     THEN /\ Record(<<Entry("session_stopped", 0)>>, 0)
          /\ stale' = TRUE
          /\ UNCHANGED <<writing, said, current, unsaved>>
     ELSE /\ Bind(0) /\ said' = <<>> /\ current' = NoActive
          /\ stale' = FALSE /\ unsaved' = FALSE
          /\ UNCHANGED <<archive, appendFaults>>
  /\ UNCHANGED <<at, turns, steps>>

-----------------------------------------------------------------------------
(***************************************************************************)
(* The end of the process, and create_runtime in the next one.             *)
(***************************************************************************)
Down ==
  /\ at' = "down" /\ writing' = 0 /\ fenced' = FALSE
  /\ said' = <<>> /\ waiting' = {} /\ proofs' = {} /\ current' = NoActive
  /\ stale' = FALSE /\ unsaved' = FALSE /\ steps' = 0

\* stop_interactive_session_async records session_stopped last.
Exit ==
  /\ at = "idle" /\ commands < MaxCommands /\ commands' = commands + 1
  /\ Down
  /\ UNCHANGED <<archive, turns, appendFaults>>

CrashProcess ==
  /\ at # "down" /\ appendFaults < MaxAppendFaults /\ appendFaults' = appendFaults + 1
  /\ Down
  /\ UNCHANGED <<archive, turns, commands>>

StartNew ==
  /\ at = "down" /\ at' = "idle"
  /\ UNCHANGED <<archive, writing, fenced, memory, stale, unsaved, turns, steps, commands,
                 appendFaults>>

\* --resume takes the session that is named, --continue the one written last that has messages or a
\* task; which one that is is left open here.
StartStored(id) ==
  /\ at = "down" /\ at' = "idle"
  /\ id \in DOMAIN archive /\ Resumable(archive[id])
  /\ Load(id) /\ Bind(id)
  /\ UNCHANGED <<archive, stale, unsaved, turns, steps, commands, appendFaults>>

\* --fork-session: the conversation starts from what the new file restores.
StartFork(id) ==
  /\ at = "down" /\ at' = "idle" /\ Len(archive) < MaxSessionFiles
  /\ id \in DOMAIN archive /\ Resumable(archive[id])
  /\ LET s == archive[id]
         file == Replayed(NewFile, ForkOf(s, s.messages, s.task)) IN
     /\ archive' = Append(archive, file)
     /\ said' = file.messages /\ waiting' = file.inputs
     /\ proofs' = file.evidence /\ current' = file.task
     /\ Bind(Len(archive'))
  /\ UNCHANGED <<stale, unsaved, turns, steps, commands, appendFaults>>

-----------------------------------------------------------------------------
SessInit ==
  /\ archive = <<>> /\ writing = 0 /\ fenced = FALSE
  /\ said = <<>> /\ waiting = {} /\ proofs = {} /\ current = NoActive
  /\ at = "idle" /\ stale = FALSE /\ unsaved = FALSE
  /\ turns = 0 /\ steps = 0 /\ commands = 0 /\ appendFaults = 0

ActiveTasks == {NoActive} \cup ((1 .. MaxSessionTurns) \X (1 .. MaxTurnSteps + 4))
InputIds == 1 .. MaxCommands

SessNext ==
  \/ AddFeedback \/ Interrupt \/ Exit \/ CrashProcess \/ StartNew
  \/ \E task \in ActiveTasks : Route(task) \/ ResumeOldTask(task)
  \/ \E n \in 0 .. 4 : \/ Prepare(n) \/ Answer(n) \/ CompactInTurn(n) \/ QueueInput(n)
                       \/ CompactNow(n) \/ SelectModel(n) \/ Clear(n)
                       \/ \E input \in InputIds \cup {0} :
                            input \in waiting \cup {0} /\ StartTurn(input, n)
                       \/ \E input \in InputIds : Admit(input, n) \/ DiscardInput(input, n)
                       \/ \E task \in ActiveTasks : \/ FinishTurn(task, n)
                                               \/ \E check \in BOOLEAN : RunCall(check, task, n)
                       \/ \E t \in 1 .. MaxSessionTurns : Rewind(t, n)
                       \/ \E id \in 1 .. MaxSessionFiles : Resume(id, n)
  \/ \E n \in 0 .. 4 + MaxSessionTurns * MaxTurnSteps : Branch(n)
  \/ \E id \in 1 .. MaxSessionFiles : StartStored(id) \/ StartFork(id)

SessSpec == SessInit /\ [][SessNext]_sess_vars

-----------------------------------------------------------------------------
\* What the session does not hold until the turn ends: feedback of the runtime.
Recorded(list) == SelectSeq(list, LAMBDA m : m[2] # "feedback")

(***************************************************************************)
(* Between turns, and within one at each of its records, the conversation  *)
(* holds what a new process would restore from its session: the messages   *)
(* but for feedback, the inputs that wait, the evidence and the task. Set  *)
(* apart: an append that failed after memory was changed (agent_loop.py    *)
(* 967-981 and 1132-1139 change memory first, and so does a turn), and a   *)
(* task that was chosen or resumed and not recorded (runner.py 166-183,    *)
(* agent_loop.py 834). A deferred session holds nothing.                   *)
(***************************************************************************)
MemoryIsSession ==
  at \in {"idle", "working"} /\ ~stale =>
    IF writing = 0 THEN said = <<>> /\ waiting = {} /\ proofs = {}
    ELSE LET s == archive[writing] IN
         /\ Recorded(said) = Recorded(s.messages)
         /\ waiting = s.inputs
         /\ proofs = s.evidence
         /\ unsaved \/ current = s.task

(***************************************************************************)
(* A checkpoint goes back to before its turn: it holds no message of that  *)
(* turn or of a later one.                                                 *)
(***************************************************************************)
CheckpointsPrecede ==
  \A i \in DOMAIN archive : \A t \in DOMAIN archive[i].checkpoints :
    LET before == archive[i].checkpoints[t].messages IN
    \A p \in DOMAIN before : before[p][1] < t

\* Both: what a session restores now, and what it restores when a turn is taken back.
SessionFaithful == MemoryIsSession /\ CheckpointsPrecede
=============================================================================
