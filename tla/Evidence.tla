------------------------------- MODULE Evidence -------------------------------
(***************************************************************************)
(* What verification evidence is worth when a turn asks to be accepted:    *)
(* the working tree tracker (forge/runtime/workspace.py), the check ledger *)
(* of the turn (runner.py, turn_state.py, check_contracts.py) and the      *)
(* completion gate (completion.py, delivery.py).                           *)
(*                                                                         *)
(* The model has one task with one acceptance requirement, the policy      *)
(* require_verification, and a local workspace without the restricted      *)
(* observer. The thread of a cancelled write is one of the foreign writers.*)
(***************************************************************************)
EXTENDS Naturals, Sequences, FiniteSets

CONSTANTS
  Tracked,      \* paths that git status reports when they change
  Ignored,      \* paths it does not report
  Commands,     \* command lines of checks
  Repairs,      \* TaskPolicy.effective_delivery_repairs
  MaxEvidenceTurns,     \* bound: turns
  MaxTools,     \* bound: tool calls
  MaxForeign    \* bound: writes by other programs

ASSUME EvidenceAssumption ==
  /\ Tracked \intersect Ignored = {}
  /\ Repairs \in 0 .. 2 /\ MaxEvidenceTurns \in Nat /\ MaxTools \in Nat /\ MaxForeign \in Nat

VARIABLES
  tree,         \* the working tree
  tracker,      \* WorkspaceTracker
  history,      \* Conversation.verification_history, and the same in TurnState.evidence
  gate,         \* the turn: its state, registered criterion, offered repairs
  tool,         \* the tool call under way
  check,        \* history: the tree a process ran on, and the paths others wrote since it started
  accepted,     \* history: the tree as the accepting refresh saw it
  tools,        \* history: number of tool calls
  runs,         \* history: number of commands run that are no checks
  foreign       \* history: number of foreign writes

ev_vars == <<tree, tracker, history, gate, tool, check, accepted, tools, runs, foreign>>

Tree == Tracked \union Ignored
Versions == {0, 1}

Items == {history[i] : i \in DOMAIN history}

NoTool == [op |-> "none", pc |-> "idle", path |-> "none"]

EvInit ==
  /\ tree = [p \in Tree |-> 0]
  /\ tracker = [baseline |-> tree, current |-> tree, watched |-> {}, revision |-> 0, epoch |-> 0]
  /\ history = <<>>
  /\ gate = [pc |-> "idle", turn |-> 0, criterion |-> "none", offered |-> {}]
  /\ tool = NoTool /\ check = [ran |-> tree, touched |-> {}]
  /\ accepted = tree /\ tools = 0 /\ runs = 0 /\ foreign = 0

(***************************************************************************)
(* The tracker. What is outside Observed keeps the value of the beginning. *)
(***************************************************************************)
Observed == Tracked \union tracker.watched

\* watch_paths: a path not watched yet enters the baseline and the current snapshot as it is now.
Watch(p) ==
  IF p \in tracker.watched THEN tracker
  ELSE [tracker EXCEPT !.watched = @ \union {p}, !.baseline[p] = tree[p], !.current[p] = tree[p]]

\* refresh and refresh_paths: a revision for every snapshot that differs.
Look(paths) ==
  LET snapshot == [p \in Tree |-> IF p \in paths THEN tree[p] ELSE tracker.current[p]] IN
  IF snapshot = tracker.current THEN tracker
  ELSE [tracker EXCEPT !.current = snapshot, !.revision = @ + 1]

(***************************************************************************)
(* The ledger: which failures still stand.                                 *)
(***************************************************************************)
SameCheck(a, b) == a.command = b.command /\ a.asserts = b.asserts

\* checker_revision_covers: a repaired checker keeps what the old one demanded. Without recorded
\* assertions only the unchanged invocation does.
Covers(old, new) ==
  /\ new.success /\ old.id \in new.supersedes
  /\ IF old.asserts THEN new.asserts
     ELSE old.command = new.command /\ (old.bound => new.bound)

Unresolved(list) ==
  {e \in list : ~e.success /\ \A f \in list : f.id > e.id => ~SameCheck(e, f) /\ ~Covers(e, f)}

\* begin: all that was known before the turn is history.
Expire == [i \in DOMAIN history |-> [history[i] EXCEPT !.fresh = FALSE]]

EvBeginTurn ==
  /\ gate.pc # "running" /\ gate.turn < MaxEvidenceTurns
  /\ history' = Expire
  /\ tracker' = [baseline |-> tree, current |-> tree, watched |-> {}, revision |-> 0, epoch |-> 0]
  /\ gate' = [gate EXCEPT !.pc = "running", !.turn = @ + 1, !.offered = {}]
  /\ UNCHANGED <<tree, tool, check, accepted, tools, runs, foreign>>

(***************************************************************************)
(* The tools, between the observations the executor makes around them.     *)
(***************************************************************************)
Start(call) ==
  /\ gate.pc = "running" /\ tool = NoTool /\ tools < MaxTools
  /\ tool' = call /\ tools' = tools + 1
  /\ check' = [ran |-> tree, touched |-> {}]
  /\ UNCHANGED <<tree, history, gate, accepted, runs, foreign>>

StartWrite(p) ==
  /\ Start([op |-> "write", pc |-> "running", path |-> p])
  /\ tracker' = Watch(p)

\* What a check asserts is bound to the requirement; a check may be bound without asserting.
StartProcess(op, command, asserts, bound, supersedes) ==
  /\ Start([op |-> op, pc |-> "running", path |-> "none", command |-> command, asserts |-> asserts,
            bound |-> bound, supersedes |-> supersedes])
  /\ asserts => bound
  /\ UNCHANGED tracker

\* The tool acts: a write on its target or not at all, a process anywhere or not at all. What a
\* check says concerns the tree it found, with what it wrote itself.
ToolActs(p, version) ==
  /\ tool.pc = "running" /\ (tool.op = "write" => p = tool.path)
  /\ tree' = [tree EXCEPT ![p] = version]
  /\ tool' = [tool EXCEPT !.pc = "ended"] /\ check' = [check EXCEPT !.ran = tree']
  /\ UNCHANGED <<tracker, history, gate, accepted, tools, runs, foreign>>

WriteObserved ==
  /\ tool.pc = "ended" /\ tool.op = "write"
  /\ tracker' = Look({tool.path})
  /\ tool' = NoTool
  /\ UNCHANGED <<tree, history, gate, check, accepted, tools, runs, foreign>>

CommandObserved ==
  /\ tool.pc = "ended" /\ tool.op = "run_command"
  /\ tracker' = [Look(Observed) EXCEPT !.epoch = @ + 1]
  /\ tool' = NoTool /\ runs' = runs + 1
  /\ UNCHANGED <<tree, history, gate, check, accepted, tools, foreign>>

\* The result of a check is tied to the revision its own refresh arrives at, which is that of the
\* tree when the refresh looks: after the check.
CheckObserved(success) ==
  LET item == [id |-> Len(history) + 1, command |-> tool.command, asserts |-> tool.asserts,
               bound |-> tool.bound, supersedes |-> tool.supersedes, success |-> success,
               fresh |-> TRUE, revision |-> tracker'.revision, epoch |-> tracker.epoch,
               turn |-> gate.turn, tree |-> tree, watched |-> tracker.watched, runs |-> runs,
               ran |-> check.ran, touched |-> check.touched] IN
  /\ tool.pc = "ended" /\ tool.op = "verify"
  /\ tracker' = Look(Observed)
  /\ history' = Append(history, item)
  /\ tool' = NoTool
  /\ UNCHANGED <<tree, gate, check, accepted, tools, runs, foreign>>

\* Cancelled in the middle of a tool, the turn ends without a declaration.
EvCancel ==
  /\ gate.pc = "running" /\ tool # NoTool
  /\ tool' = NoTool /\ gate' = [gate EXCEPT !.pc = "partial"]
  /\ UNCHANGED <<tree, tracker, history, check, accepted, tools, runs, foreign>>

ForeignChange(p, version) ==
  /\ foreign < MaxForeign /\ tree[p] # version
  /\ gate.pc = "running"
  /\ tree' = [tree EXCEPT ![p] = version] /\ foreign' = foreign + 1
  /\ check' = [check EXCEPT !.touched = @ \union {p}]
  /\ UNCHANGED <<tracker, history, gate, tool, accepted, tools, runs>>

(***************************************************************************)
(* The gate.                                                               *)
(***************************************************************************)
CurrentRevision(tracked, e) == e.fresh /\ e.revision = tracked.revision

Current(tracked, e) == e.fresh /\ e.revision = tracked.revision /\ e.epoch = tracked.epoch

\* Evidence that only concerns a retired requirement does not count.
Counted == IF gate.criterion = "retired" THEN {e \in Items : ~e.bound} ELSE Items

\* evaluate, for a registered criterion or without one.
Reasons(tracked, criterion) ==
  LET current == {e \in Counted : Current(tracked, e)}
      successful == {e \in current : e.success}
      stale == {e \in Unresolved(Counted) \ current :
                  e.bound /\ \A f \in successful : ~SameCheck(e, f)} IN
  {r \in {"unverified", "failed", "stale", "criterion"} :
     CASE r = "unverified" -> successful = {}
       [] r = "failed" -> Unresolved(current) # {}
       [] r = "stale" -> stale # {}
       [] r = "criterion" -> criterion = "registered" /\ \A e \in successful : ~e.asserts}

\* A finish with status completed: an unregistered criterion may come with it. Gaps are answered
\* by a repair, once for each set of gaps, or make the result partial.
FinishCompleted(criterion) ==
  /\ gate.pc = "running" /\ tool = NoTool
  /\ criterion = gate.criterion \/ (gate.criterion = "none" /\ criterion = "registered")
  /\ tracker' = Look(Observed)
  /\ LET reasons == Reasons(tracker', criterion)
         offer == reasons \notin gate.offered /\ Cardinality(gate.offered) < Repairs IN
     gate' = [gate EXCEPT
                !.criterion = criterion,
                !.pc = IF reasons = {} THEN "completed" ELSE IF offer THEN "running" ELSE "partial",
                !.offered = IF reasons # {} /\ offer THEN @ \union {reasons} ELSE @]
  /\ accepted' = IF gate'.pc = "completed" THEN tree ELSE accepted
  /\ UNCHANGED <<tree, history, tool, check, tools, runs, foreign>>

\* A declared partial or failed ends the turn, as does an exhausted budget.
FinishIncomplete ==
  /\ gate.pc = "running" /\ tool = NoTool
  /\ gate' = [gate EXCEPT !.pc = "partial"]
  /\ UNCHANGED <<tree, tracker, history, tool, check, accepted, tools, runs, foreign>>

\* A new plan replaces the criterion.
RetireCriterion ==
  /\ gate.pc = "running" /\ tool = NoTool /\ gate.criterion = "registered"
  /\ gate' = [gate EXCEPT !.criterion = "retired"]
  /\ UNCHANGED <<tree, tracker, history, tool, check, accepted, tools, runs, foreign>>

EvNext ==
  \/ EvBeginTurn \/ WriteObserved \/ CommandObserved \/ EvCancel \/ FinishIncomplete \/ RetireCriterion
  \/ \E p \in Tree : StartWrite(p)
  \/ \E command \in Commands, asserts \in BOOLEAN, bound \in BOOLEAN :
       \/ \E supersedes \in {{}} \union {{i} : i \in DOMAIN history} :
            StartProcess("verify", command, asserts, bound, supersedes)
       \/ ~asserts /\ ~bound /\ StartProcess("run_command", command, asserts, bound, {})
  \/ \E p \in Tree, version \in Versions : ToolActs(p, version) \/ ForeignChange(p, version)
  \/ \E success \in BOOLEAN : CheckObserved(success)
  \/ \E criterion \in {"none", "registered", "retired"} : FinishCompleted(criterion)

EvSpec == EvInit /\ [][EvNext]_ev_vars

(***************************************************************************)
(* What an accepted turn rests on.                                         *)
(***************************************************************************)
Accepted == gate.pc = "completed"
Passed == {e \in Items : e.success /\ e.turn = gate.turn /\ e.runs = runs}

\* What of a check's tree the evidence stands for: what it ran on, and for a path that another
\* program wrote while it ran, what the refresh after it found: no check saw that.
Stood(e, p) == IF p \in e.touched THEN e.tree[p] ELSE e.ran[p]

\* An accepted turn had a check that passed in this very turn, after the last command, on the
\* tree that was accepted: on every path git reports or a tool wrote before the check, and a path
\* first written after it has kept what the write found. A path that another program wrote between
\* the start of the check and the refresh that records it is taken for tested as the refresh found
\* it (WorkspaceTracker, ToolExecutor.execute, CompletionGate.evaluate).
AcceptedIsTested ==
  Accepted =>
    \E e \in Passed : \A p \in Tracked \union tracker.watched :
      accepted[p] = (IF p \in tracker.watched \ e.watched THEN tracker.baseline[p] ELSE Stood(e, p))

\* The runs of the check of an item, from that item on.
LaterRuns(e) == {f \in Counted : f.id >= e.id /\ SameCheck(e, f)}

\* In an accepted turn a failure of a check bound to the requirement, of this or an earlier turn
\* of the task, was answered later: the same check passed, or a check that still asserts what it
\* asserted names it or a repetition of it. Neither a new turn nor a change of the code makes it
\* forgotten; what does is its last repetition, when that failed as well and was not bound to the
\* requirement: it takes the place of the bound failure in the ledger, and without a link it does
\* not outlive the revision it was made on (unresolved_verification_failures, evaluate).
FailuresAnswered ==
  Accepted =>
    \A e \in {f \in Counted : f.bound /\ ~f.success} :
      \/ \E f \in LaterRuns(e) : f.success
      \/ \E f \in LaterRuns(e), g \in Counted :
           g.id > f.id /\ g.success /\ f.id \in g.supersedes /\ (e.asserts => g.asserts)
      \/ \E f \in LaterRuns(e) : ~f.bound /\ \A h \in LaterRuns(e) : h.id <= f.id

\* What a turn that the gate let pass rests on: its own checks, and no failure passed over.
CompletionTested == AcceptedIsTested /\ FailuresAnswered
=============================================================================
