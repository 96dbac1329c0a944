----------------------------- MODULE Processes -----------------------------
(***************************************************************************)
(* One command and everything it starts: run_process, the Linux worker     *)
(* that owns the processes of a command, the owner of a process tree and   *)
(* the hook that runs under it (forge/tools/shell.py,                      *)
(* linux_process_worker.py, forge/sandbox/process_owner.py,                *)
(* forge/hooks/runner.py).                                                 *)
(*                                                                         *)
(* Output is counted, one stream stands for both. Limits of time may pass  *)
(* at any moment. A process may be stuck in the kernel: no signal ends it  *)
(* until it leaves. A process may take another user's identity (sudo, su), *)
(* and what it starts then has it too: the worker may not signal these.    *)
(***************************************************************************)
EXTENDS Naturals, FiniteSets

CONSTANTS
  Procs,          \* processes the command may start, itself included
  TheCommand,     \* the command
  MaxWritten,     \* bound: chunks of output
  MaxStuck,       \* bound: processes that get stuck
  MaxElevated     \* bound: processes with another identity, past which no further one takes it

ASSUME ProcessAssumption ==
  /\ TheCommand \in Procs /\ {"worker", "init", "none"} \cap Procs = {}
  /\ MaxWritten \in Nat /\ MaxStuck \in Nat /\ MaxElevated \in Nat

VARIABLES
  owned,      \* TRUE: LocalProcessOwner (--cleanup-on-exit), FALSE: run_process
  process,    \* per process: state, parent, whether it holds the output, is in the group, is stuck
  worker,     \* the worker: where it is, interrupted, exit code, whether it reaped everything
  flow,       \* output: in the command's pipe, in the worker, in the worker's pipe, read
  wrote,    \* history: output of the command
  eof,        \* the worker saw the end of the command's pipe
  waiter,     \* run_process or run_hook_command: where it is, timed_out, output_incomplete
  report,     \* what LocalProcessOwner.close reported
  elevated,   \* the processes that took another user's identity, and what they started
  stuckCount

proc_vars == <<owned, process, worker, flow, wrote, eof, waiter, report, elevated, stuckCount>>

NotAlive(state) ==
  [state |-> state, parent |-> "none", pipe |-> FALSE, group |-> FALSE, stuck |-> FALSE]
Unborn == NotAlive("unborn")
DeadProcess == NotAlive("dead")
Alive == {p \in Procs : process[p].state = "alive"}
ChildrenOf(parent) == {p \in Alive : process[p].parent = parent}
Exited == worker.pc = "exited"

\* Orphans go to the next subreaper, which is the worker while it lives.
Died(set, heir) ==
  [p \in Procs |->
     IF p \in set THEN DeadProcess
     ELSE IF process[p].parent \in set THEN [process[p] EXCEPT !.parent = heir]
     ELSE process[p]]
Adopted(heir, table) ==
  [p \in Procs |->
     IF table[p].parent = "worker" THEN [table[p] EXCEPT !.parent = heir] ELSE table[p]]
Heir == IF Exited THEN "init" ELSE "worker"

-----------------------------------------------------------------------------
(***************************************************************************)
(* The processes of the command.                                           *)
(***************************************************************************)
Fork(p, q, holds) ==
  /\ p \in Alive /\ ~process[p].stuck /\ process[q].state = "unborn"
  /\ holds => process[p].pipe
  /\ process' = [process EXCEPT ![q] = [state |-> "alive", parent |-> p, pipe |-> holds,
                                        group |-> process[p].group, stuck |-> FALSE]]
  /\ elevated' = IF p \in elevated THEN elevated \cup {q} ELSE elevated
  /\ UNCHANGED <<owned, worker, flow, wrote, eof, waiter, report, stuckCount>>
Detach(p) ==
  /\ p \in Alive /\ process[p].group /\ process' = [process EXCEPT ![p].group = FALSE]
  /\ UNCHANGED <<owned, worker, flow, wrote, eof, waiter, report, elevated, stuckCount>>
WriteOutput(p) ==
  /\ p \in Alive /\ process[p].pipe /\ wrote < MaxWritten
  /\ wrote' = wrote + 1 /\ flow' = [flow EXCEPT !.command = @ + 1]
  /\ UNCHANGED <<owned, process, worker, eof, waiter, report, elevated, stuckCount>>
ExitProcess(p) ==
  /\ p \in Alive /\ ~process[p].stuck /\ process' = Died({p}, Heir)
  /\ UNCHANGED <<owned, worker, flow, wrote, eof, waiter, report, elevated, stuckCount>>
GetStuck(p) ==
  /\ p \in Alive /\ ~process[p].stuck /\ stuckCount < MaxStuck /\ stuckCount' = stuckCount + 1
  /\ process' = [process EXCEPT ![p].stuck = TRUE]
  /\ UNCHANGED <<owned, worker, flow, wrote, eof, waiter, report, elevated>>
GetFree(p) ==
  /\ p \in Alive /\ process[p].stuck /\ process' = [process EXCEPT ![p].stuck = FALSE]
  /\ UNCHANGED <<owned, worker, flow, wrote, eof, waiter, report, elevated, stuckCount>>
Elevate(p) ==
  /\ p \in Alive /\ ~process[p].stuck /\ Cardinality(elevated) < MaxElevated
  /\ elevated' = elevated \cup {p}
  /\ UNCHANGED <<owned, process, worker, flow, wrote, eof, waiter, report, stuckCount>>

-----------------------------------------------------------------------------
(***************************************************************************)
(* The worker: run and cleanup.                                            *)
(***************************************************************************)
\* What the worker leaves when it is gone: its output ends, its children go to init.
Gone(code, table) ==
  /\ worker' = [worker EXCEPT !.pc = "exited", !.code = code]
  /\ process' = Adopted("init", table)

\* Popen. Without it, or without prctl, the worker ends with an error.
StartCommand ==
  /\ worker.pc = "starting"
  /\ process' = [process EXCEPT ![TheCommand] =
                   [state |-> "alive", parent |-> "worker", pipe |-> TRUE, group |-> TRUE,
                    stuck |-> FALSE]]
  /\ worker' = [worker EXCEPT !.pc = "relay"]
  /\ UNCHANGED <<owned, flow, wrote, eof, waiter, report, elevated, stuckCount>>
FailToStart ==
  /\ worker.pc = "starting" /\ Gone("error", process)
  /\ UNCHANGED <<owned, flow, wrote, eof, waiter, report, elevated, stuckCount>>

RelayRead ==
  /\ worker.pc = "relay" /\ ~worker.interrupted /\ flow.command > 0
  /\ flow' = [flow EXCEPT !.command = @ - 1, !.worker = @ + 1]
  /\ UNCHANGED <<owned, process, worker, wrote, eof, waiter, report, elevated, stuckCount>>
RelayEof ==
  /\ worker.pc = "relay" /\ ~worker.interrupted /\ ~eof /\ flow.command = 0
  /\ ~\E p \in Alive : process[p].pipe
  /\ eof' = TRUE
  /\ UNCHANGED <<owned, process, worker, flow, wrote, waiter, report, elevated, stuckCount>>

\* Nobody reads any more: BrokenPipeError leaves the loop.
RelayWrite ==
  /\ worker.pc = "relay" /\ ~worker.interrupted /\ flow.worker > 0
  /\ IF waiter.reading
     THEN flow' = [flow EXCEPT !.worker = @ - 1, !.out = @ + 1] /\ UNCHANGED worker
     ELSE worker' = [worker EXCEPT !.pc = "cleanup", !.code = "error"] /\ UNCHANGED flow
  /\ UNCHANGED <<owned, process, wrote, eof, waiter, report, elevated, stuckCount>>

\* Mistake: the exit of the command is enough.
CommandDoneOnExit == process[TheCommand].state = "dead" /\ flow.worker = 0

\* The command has exited and nobody holds its output.
CommandDone == process[TheCommand].state = "dead" /\ eof /\ flow.worker = 0
FinishCommand ==
  /\ worker.pc = "relay" /\ ~worker.interrupted /\ CommandDone
  /\ IF owned THEN worker' = [worker EXCEPT !.pc = "cleanup", !.code = "done"] /\ UNCHANGED process
     ELSE Gone("done", process)
  /\ UNCHANGED <<owned, flow, wrote, eof, waiter, report, elevated, stuckCount>>
LeaveLoop ==
  /\ worker.pc = "relay" /\ worker.interrupted
  /\ worker' = [worker EXCEPT !.pc = "cleanup", !.code = "interrupted"]
  /\ UNCHANGED <<owned, process, flow, wrote, eof, waiter, report, elevated, stuckCount>>

\* A round of cleanup kills the children there are; theirs are the worker's in the next.
KillChild(p) ==
  /\ worker.pc = "cleanup" /\ p \in ChildrenOf("worker") \ elevated /\ ~process[p].stuck
  /\ process' = Died({p}, "worker")
  /\ UNCHANGED <<owned, worker, flow, wrote, eof, waiter, report, elevated, stuckCount>>
\* os.kill raises PermissionError, which nothing catches: the worker ends, with exit 1, in the
\* middle of its round.
KillRefused ==
  /\ worker.pc = "cleanup" /\ ChildrenOf("worker") \cap elevated # {}
  /\ Gone("refused", process)
  /\ UNCHANGED <<owned, flow, wrote, eof, waiter, report, elevated, stuckCount>>
CleanedUp ==
  /\ worker.pc = "cleanup" /\ ChildrenOf("worker") = {} /\ Gone(worker.code, process)
  /\ UNCHANGED <<owned, flow, wrote, eof, waiter, report, elevated, stuckCount>>
\* After 1.5 seconds it says so on stderr, and with --cleanup-on-exit exits with 125.
LeaveCleanup ==
  /\ worker.pc = "cleanup" /\ ChildrenOf("worker") # {}
  /\ Gone(IF owned THEN "125" ELSE "left", process)
  /\ UNCHANGED <<owned, flow, wrote, eof, waiter, report, elevated, stuckCount>>

-----------------------------------------------------------------------------
(***************************************************************************)
(* The caller.                                                             *)
(***************************************************************************)
Launch ==
  /\ waiter.pc = "idle" /\ waiter' = [waiter EXCEPT !.pc = "waiting", !.reading = TRUE]
  /\ worker' = [worker EXCEPT !.pc = "starting"]
  /\ UNCHANGED <<owned, process, flow, wrote, eof, report, elevated, stuckCount>>

ReadOutput ==
  /\ waiter.reading /\ flow.out > 0
  /\ flow' = [flow EXCEPT !.read = @ + flow.out, !.out = 0]
  /\ UNCHANGED <<owned, process, worker, wrote, eof, waiter, report, elevated, stuckCount>>

AllRead == Exited /\ flow.out = 0

\* SIGTERM: the handler sets a flag; before there is one the signal ends the worker.
Terminated ==
  CASE worker.pc = "starting" -> [worker EXCEPT !.pc = "exited", !.code = "killed"]
    [] worker.pc \in {"relay", "cleanup"} -> [worker EXCEPT !.interrupted = TRUE]
    [] OTHER -> worker

\* process.wait and both readers, within the timeout.
Collect ==
  /\ waiter.pc = "waiting" /\ AllRead
  /\ waiter' = [waiter EXCEPT !.pc = IF owned THEN "closing" ELSE "returned"]
  /\ UNCHANGED <<owned, process, worker, flow, wrote, eof, report, elevated, stuckCount>>

\* _stop_and_collect after a timeout or a cancellation; a hook closes its pipes first, and does so
\* too when it wrote too much.
Stop(why) ==
  /\ waiter.pc = "waiting" /\ (why = "limit" => owned)
  /\ waiter' = [waiter EXCEPT !.pc = IF owned THEN "closing" ELSE "stopping", !.why = why,
                              !.reading = ~owned]
  /\ worker' = IF owned THEN worker ELSE Terminated
  /\ UNCHANGED <<owned, process, flow, wrote, eof, report, elevated, stuckCount>>
Stopped ==
  /\ waiter.pc = "stopping" /\ AllRead /\ waiter' = [waiter EXCEPT !.pc = "returned"]
  /\ UNCHANGED <<owned, process, worker, flow, wrote, eof, report, elevated, stuckCount>>

Killed(table, set) ==
  [p \in Procs |->
     IF p \in set THEN DeadProcess
     ELSE IF table[p].parent \in set THEN [table[p] EXCEPT !.parent = "init"] ELSE table[p]]

\* After two seconds: SIGKILL for what is left of the group and may be signalled, the worker
\* included; when nobody is, killpg raises and the caller gets that error in place of the result.
StopLimit ==
  /\ waiter.pc = "stopping"
  /\ process' = Killed(Adopted("init", process),
                       {p \in Alive \ elevated : process[p].group /\ ~process[p].stuck})
  /\ worker' = IF Exited THEN worker ELSE [worker EXCEPT !.pc = "exited", !.code = "killed"]
  /\ waiter' = [waiter EXCEPT !.pc = "returned", !.incomplete = TRUE, !.reading = FALSE]
  /\ UNCHANGED <<owned, flow, wrote, eof, report, elevated, stuckCount>>
\* Cancelled once more: the exception leaves _stop_and_collect, after its SIGTERM.
CancelAgain ==
  /\ waiter.pc = "stopping"
  /\ waiter' = [waiter EXCEPT !.pc = "returned", !.why = "cancelled", !.incomplete = TRUE]
  /\ UNCHANGED <<owned, process, worker, flow, wrote, eof, report, elevated, stuckCount>>

\* LocalProcessOwner._close, shielded from the cancellation of who waits for it.
CloseOwner ==
  /\ waiter.pc = "closing" /\ report = "none" /\ report' = "closing"
  /\ worker' = Terminated
  /\ UNCHANGED <<owned, process, flow, wrote, eof, waiter, elevated, stuckCount>>
Clean(code) == code \notin {"125", "killed"}
ReportExit ==
  /\ report = "closing" /\ Exited
  /\ report' = IF Clean(worker.code) THEN "clean" ELSE "unknown"
  /\ UNCHANGED <<owned, process, worker, flow, wrote, eof, waiter, elevated, stuckCount>>
ReportLimit ==
  /\ report = "closing" /\ ~Exited /\ report' = "unknown"
  /\ Gone("killed", process)
  /\ UNCHANGED <<owned, flow, wrote, eof, waiter, elevated, stuckCount>>

\* run_hook_command: a hook that timed out, wrote too much or was not cleaned up is an error,
\* exit 2 a denial. Only an answer read to its end may allow.
HookAnswer(answer) ==
  /\ waiter.pc = "closing" /\ report \in {"clean", "unknown"}
  /\ answer \in IF waiter.why = "cancelled" THEN {"cancelled"}
                ELSE IF waiter.why # "none" \/ report = "unknown" \/ worker.code # "done"
                THEN {"error"}
                ELSE {"allow", "deny", "error"}
  /\ waiter' = [waiter EXCEPT !.pc = "returned", !.answer = answer]
  /\ UNCHANGED <<owned, process, worker, flow, wrote, eof, report, elevated, stuckCount>>

-----------------------------------------------------------------------------
ProcInit ==
  /\ owned \in BOOLEAN /\ process = [p \in Procs |-> Unborn]
  /\ worker = [pc |-> "unborn", interrupted |-> FALSE, code |-> "none"]
  /\ flow = [command |-> 0, worker |-> 0, out |-> 0, read |-> 0] /\ wrote = 0 /\ eof = FALSE
  /\ waiter = [pc |-> "idle", why |-> "none", incomplete |-> FALSE, reading |-> FALSE,
               answer |-> "none"]
  /\ report = "none" /\ elevated = {} /\ stuckCount = 0

ProcNext ==
  \/ \E p \in Procs : \/ Detach(p) \/ WriteOutput(p) \/ ExitProcess(p) \/ GetStuck(p) \/ GetFree(p)
                      \/ KillChild(p) \/ Elevate(p)
                      \/ \E q \in Procs, holds \in BOOLEAN : Fork(p, q, holds)
  \/ StartCommand \/ FailToStart \/ RelayRead \/ RelayEof \/ RelayWrite \/ FinishCommand
  \/ LeaveLoop \/ KillRefused \/ CleanedUp \/ LeaveCleanup
  \/ Launch \/ ReadOutput \/ Collect \/ Stopped \/ StopLimit \/ CancelAgain
  \/ \E why \in {"timeout", "cancelled", "limit"} : Stop(why)
  \/ CloseOwner \/ ReportExit \/ ReportLimit
  \/ \E answer \in {"allow", "deny", "error", "cancelled"} : HookAnswer(answer)

ProcSpec == ProcInit /\ [][ProcNext]_proc_vars

-----------------------------------------------------------------------------
\* A worker that ended by itself and did not say otherwise leaves nothing behind, but services of
\* a command that completed, and these hold none of its output; set apart is the worker that a
\* refused signal ended, whose exit 1 is that of any other error (linux_process_worker).
NothingLeft ==
  Exited =>
    /\ worker.code = "done" /\ ~owned => ~\E p \in Alive : process[p].pipe
    /\ worker.code \in {"interrupted", "error"} \/ (worker.code = "done" /\ owned) => Alive = {}

\* A report of a clean end is true, at any later time too, unless a refused signal ended the
\* worker: then the report calls clean what is left running (LocalProcessOwner._close).
CleanIsClean == report = "clean" /\ worker.code # "refused" => Alive = {}

\* A result that was neither timed out nor cancelled has all the output, of every process that
\* could write it; so has the answer of a hook that allows something.
OutputWhole ==
  waiter.pc = "returned" /\ worker.code = "done" /\ (waiter.why = "none" \/ waiter.answer = "allow")
    => flow.read = wrote

(***************************************************************************)
(* What a command started ends with it, and what it wrote is in its        *)
(* result, however its processes fork, detach, hang and die.               *)
(***************************************************************************)
CommandContained == NothingLeft /\ CleanIsClean /\ OutputWhole
=============================================================================
