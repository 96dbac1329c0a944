----------------------------- MODULE Checkpoints -----------------------------
(***************************************************************************)
(* The checkpoints of a session (CheckpointStore in                        *)
(* forge/sessions/checkpoint.py), as the executor fills them around a      *)
(* write tool and as /undo and /rewind restore them.                       *)
(*                                                                         *)
(* Store and restore are synchronous: of this process only a thread of a   *)
(* cancelled tool runs beside them. Other programs change files at any     *)
(* time.                                                                   *)
(***************************************************************************)
EXTENDS Naturals, Sequences, FiniteSets

CONSTANTS
  Files,           \* paths of the workspace
  Texts,           \* contents of a file, identified by their hash
  MaxCheckpoints,  \* bound: turns
  MaxToolCalls,    \* bound: write calls
  MaxFaults,       \* bound: changes by other programs, cancellations and ends of the process
  KeptCheckpoints  \* the argument maximum of prune

ASSUME CkAssumption ==
  /\ MaxCheckpoints \in Nat /\ MaxToolCalls \in Nat /\ MaxFaults \in Nat
  /\ KeptCheckpoints \in Nat \ {0}
  /\ {"absent", "none", "unrecorded"} \intersect Texts = {}

VARIABLES
  files,        \* the workspace
  checkpoints,  \* the manifests, oldest first
  blobs,        \* the blob directory
  turn,         \* a turn is running
  call,         \* the write call under way
  threads,      \* writes of cancelled calls whose thread still runs
  undo,         \* the restore under way
  start,        \* history: the workspace when each turn began
  undone,       \* history: checkpoints restored completely
  quiet,        \* history: only calls that came to their end and undo, newest first and once,
                \*          changed files
  calls,        \* history: number of write calls
  faults        \* history: number of faults

ck_store == <<checkpoints, blobs>>
ck_history == <<start, undone, quiet, calls, faults>>
ck_vars == <<files, ck_store, turn, call, threads, undo, ck_history>>

Absent == "absent"
Contents == Texts \union {Absent}

\* An entry of a manifest; a path without one is "none".
NoEntry == [before |-> "none", after |-> "unrecorded"]
Captured(c) == {f \in Files : checkpoints[c].entry[f] # NoEntry}
Kept == {c \in DOMAIN checkpoints : checkpoints[c].kept}

NoCall == [pc |-> "idle", targets |-> {}, todo |-> {}, text |-> <<>>]
NoUndo == [pc |-> "idle", checkpoint |-> 0, todo |-> {}]

CkInit ==
  /\ files \in [Files -> Contents]
  /\ checkpoints = <<>> /\ blobs = {} /\ turn = FALSE
  /\ call = NoCall /\ threads = {} /\ undo = NoUndo
  /\ start = <<>> /\ undone = {} /\ quiet = TRUE /\ calls = 0 /\ faults = 0

(***************************************************************************)
(* begin, and the prune at its end: of the older manifests those beyond    *)
(* the newest KeptCheckpoints go, and those of more than thirty days; then *)
(* the blobs that no manifest left refers to.                              *)
(***************************************************************************)
Pruned(list, expired) ==
  [c \in DOMAIN list |->
    [list[c] EXCEPT !.kept = (@ /\ c > expired /\ c > Len(list) - KeptCheckpoints)]]

Referenced(list) ==
  {list[c].entry[f].before : c \in {d \in DOMAIN list : list[d].kept}, f \in Files}

BeginTurn ==
  /\ ~turn /\ undo = NoUndo /\ Len(checkpoints) < MaxCheckpoints
  /\ \E expired \in 0 .. Len(checkpoints) :
       checkpoints' = Pruned(Append(checkpoints, [kept |-> TRUE, entry |-> [f \in Files |-> NoEntry]]),
                             expired)
  /\ blobs' = blobs \intersect Referenced(checkpoints')
  /\ turn' = TRUE
  /\ start' = Append(start, files)
  /\ UNCHANGED <<files, call, threads, undo, undone, quiet, calls, faults>>

EndTurn ==
  /\ turn /\ call = NoCall
  /\ turn' = FALSE
  /\ UNCHANGED <<files, ck_store, call, threads, undo, ck_history>>

(***************************************************************************)
(* A write call: capture_before, the tool, record_after. Only the first    *)
(* call of a turn on a path captures it.                                   *)
(***************************************************************************)
Before(c, targets) ==
  [f \in Files |-> IF f \in targets \ Captured(c) THEN [NoEntry EXCEPT !.before = files[f]]
                   ELSE checkpoints[c].entry[f]]

Capture(targets, text) ==
  LET current == Len(checkpoints) IN
  /\ turn /\ call = NoCall /\ calls < MaxToolCalls
  /\ checkpoints' = [checkpoints EXCEPT ![current].entry = Before(current, targets)]
  /\ blobs' = blobs \union ({files[f] : f \in targets \ Captured(current)} \ {Absent})
  /\ call' = [pc |-> "running", targets |-> targets, todo |-> targets, text |-> text]
  /\ calls' = calls + 1
  /\ UNCHANGED <<files, turn, threads, undo, start, undone, quiet, faults>>

\* The tool changes its files one after the other.
ToolWrites(f) ==
  /\ call.pc = "running" /\ f \in call.todo
  /\ files' = [files EXCEPT ![f] = call.text[f]]
  /\ call' = [call EXCEPT !.todo = @ \ {f}]
  /\ UNCHANGED <<ck_store, turn, threads, undo, ck_history>>

\* It may give up in between; the call goes on to record_after all the same.
ToolFails ==
  /\ call.pc = "running" /\ call.todo # {}
  /\ call' = [call EXCEPT !.todo = {}]
  /\ UNCHANGED <<files, ck_store, turn, threads, undo, ck_history>>

\* The record that the tool started cannot be written: no tool, and no record_after.
StartFails ==
  /\ call.pc = "running" /\ call.todo = call.targets
  /\ call' = NoCall
  /\ UNCHANGED <<files, ck_store, turn, threads, undo, ck_history>>

After(c, targets) ==
  [f \in Files |-> IF f \in targets THEN [checkpoints[c].entry[f] EXCEPT !.after = files[f]]
                   ELSE checkpoints[c].entry[f]]

RecordAfter ==
  /\ call.pc = "running" /\ call.todo = {}
  /\ checkpoints' = [checkpoints EXCEPT ![Len(checkpoints)].entry =
                       After(Len(checkpoints), call.targets)]
  /\ call' = NoCall
  /\ UNCHANGED <<files, blobs, turn, threads, undo, ck_history>>

\* A cancellation at the await of the tool: nothing is recorded and the turn ends. What runs
\* in a thread goes on; a process is killed.
CancelCall ==
  /\ call.pc = "running" /\ faults < MaxFaults
  /\ \/ threads' = threads \union {[file |-> f, text |-> call.text[f]] : f \in call.todo}
     \/ call.todo # {} /\ UNCHANGED threads
  /\ call' = NoCall /\ turn' = FALSE
  /\ quiet' = FALSE /\ faults' = faults + 1
  /\ UNCHANGED <<files, ck_store, undo, start, undone, calls>>

ThreadWrites(w) ==
  /\ w \in threads
  /\ files' = [files EXCEPT ![w.file] = w.text]
  /\ threads' = threads \ {w}
  /\ UNCHANGED <<ck_store, turn, call, undo, ck_history>>

(***************************************************************************)
(* restore: every captured file must hold what the last call left (or what *)
(* it held before, if no outcome was recorded); then file after file gets  *)
(* its earlier content. The process may end in the middle.                 *)
(***************************************************************************)
ExpectedAfter(entry) == entry.after

Expected(entry) == IF entry.after = "unrecorded" THEN entry.before ELSE entry.after

Conflicts(c) == {f \in Captured(c) : files[f] # Expected(checkpoints[c].entry[f])}

Restore(c) ==
  /\ ~turn /\ undo = NoUndo
  /\ c \in Kept /\ Conflicts(c) = {}
  /\ undo' = [pc |-> "writing", checkpoint |-> c, todo |-> Captured(c)]
  /\ UNCHANGED <<files, ck_store, turn, call, threads, ck_history>>

RestoreFile(f) ==
  LET before == checkpoints[undo.checkpoint].entry[f].before IN
  /\ undo.pc = "writing" /\ f \in undo.todo
  /\ before \in blobs \union {Absent}
  /\ files' = [files EXCEPT ![f] = before]
  /\ undo' = [undo EXCEPT !.todo = @ \ {f}]
  /\ UNCHANGED <<ck_store, turn, call, threads, ck_history>>

Newer(c) == {d \in DOMAIN checkpoints : d > c /\ Captured(d) # {}}

\* A checkpoint restored before a newer one leaves the newer one without its sequence; one that is
\* restored for the second time, those before it.
RestoreReturns ==
  /\ undo.pc = "writing" /\ undo.todo = {}
  /\ undo' = NoUndo
  /\ undone' = undone \union {undo.checkpoint}
  /\ quiet' = (quiet /\ Newer(undo.checkpoint) \subseteq undone /\ undo.checkpoint \notin undone)
  /\ UNCHANGED <<files, ck_store, turn, call, threads, start, calls, faults>>

\* Another program writes a file.
ForeignWrite(f, text) ==
  /\ faults < MaxFaults /\ files[f] # text
  /\ files' = [files EXCEPT ![f] = text]
  /\ quiet' = FALSE /\ faults' = faults + 1
  /\ UNCHANGED <<ck_store, turn, call, threads, undo, start, undone, calls>>

\* The process ends: its threads with it; the files, the manifests and the blobs stay.
CkCrash ==
  /\ turn \/ undo # NoUndo
  /\ faults < MaxFaults /\ faults' = faults + 1
  /\ turn' = FALSE /\ call' = NoCall /\ threads' = {} /\ undo' = NoUndo
  /\ quiet' = (quiet /\ call = NoCall /\ undo = NoUndo)
  /\ UNCHANGED <<files, ck_store, start, undone, calls>>

CkNext ==
  \/ BeginTurn \/ EndTurn \/ ToolFails \/ StartFails \/ RecordAfter \/ CancelCall
  \/ RestoreReturns \/ CkCrash
  \/ \E targets \in (SUBSET Files) \ {{}} : \E text \in [targets -> Contents] : Capture(targets, text)
  \/ \E f \in Files : ToolWrites(f) \/ RestoreFile(f)
  \/ \E w \in threads : ThreadWrites(w)
  \/ \E c \in DOMAIN checkpoints : Restore(c)
  \/ \E f \in Files, text \in Contents : ForeignWrite(f, text)

CkSpec == CkInit /\ [][CkNext]_ck_vars

(***************************************************************************)
(* What an undo needs and what it does.                                    *)
(***************************************************************************)

\* The blobs of every manifest that is left are there, whatever was pruned, cancelled or cut off.
\* While only complete calls and undo changed files, the newest checkpoint that was not undone
\* yet has no conflict: a call that failed half-way or that wrote a file for the second time is
\* no reason to refuse (CheckpointStore.prune, capture_before, record_after, restore).
UndoPossible ==
  /\ Referenced(checkpoints) \subseteq blobs \union {Absent, "none"}
  /\ \A c \in Kept :
       quiet /\ call = NoCall /\ undo = NoUndo /\ c \notin undone /\ Newer(c) \subseteq undone
         => Conflicts(c) = {}

\* Undone newest first, a checkpoint gives the workspace of the beginning of its turn, with
\* every file the turn created removed (CheckpointStore.restore).
UndoReturns ==
  quiet' /\ undone' # undone /\ Captured(undo.checkpoint) # {} => files' = start[undo.checkpoint]

\* An undo stays possible after every step, and gives back what it promises.
UndoSound == [][UndoPossible' /\ UndoReturns]_ck_vars
=============================================================================
