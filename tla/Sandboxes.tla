----------------------------- MODULE Sandboxes -----------------------------
(***************************************************************************)
(* A native sandbox session: it is prepared once, proven by a probe,       *)
(* executes commands, cancels and closes                                   *)
(* (forge/sandbox/workspace_backend.py). What owns the processes of an     *)
(* execution is LocalProcessOwner: that its report of a clean end is true  *)
(* is shown in Processes. Limits of time may pass at any moment.           *)
(***************************************************************************)
EXTENDS Naturals, Sequences, FiniteSets

CONSTANTS
  Identities,     \* execution ids a client may use
  CommandHashes,  \* commands, by their hash
  FrameQueue,     \* places in outputs
  FrameLimit,     \* output_limit_bytes, in chunks
  MaxChunks       \* bound: output of an execution, in chunks

ASSUME SandboxAssumption ==
  /\ "probe" \notin Identities /\ FrameQueue \in Nat \ {0}
  /\ FrameLimit \in Nat /\ MaxChunks \in Nat

Executions == {"probe"} \cup Identities

VARIABLES
  prep,       \* prepare: none, checking, probing, ready, failed
  exec,       \* _executions: per identity what is known of it, and where its task is
  live,       \* per execution: its processes: none, alive, gone
  temp,       \* executions whose temporary directory exists
  outputs,    \* frames in the queue
  delivered,  \* history: frames the collector took
  confirmed,  \* history: executions whose cancel was confirmed
  closing,    \* close: none, preparing, tasks, or its report
  orphaned    \* history: executions whose worker was killed while it started

sandbox_vars == <<prep, exec, live, temp, outputs, delivered, confirmed, closing, orphaned>>

NoExecution == [at |-> "none", hash |-> "none", state |-> "none", passed |-> FALSE, owner |-> FALSE,
                cancelled |-> FALSE, produced |-> 0, retained |-> 0, sequence |-> 0, finals |-> 0,
                processes |-> "unknown", cleanup |-> "unknown"]

\* _accept: the entry and its task.
Accept(id, hash) ==
  exec' = [exec EXCEPT ![id] =
             [NoExecution EXCEPT !.at = "accepted", !.hash = hash, !.state = "accepted"]]

-----------------------------------------------------------------------------
(***************************************************************************)
(* prepare.                                                                *)
(***************************************************************************)
Prepare ==
  /\ prep = "none" /\ closing = "none" /\ prep' = "checking"
  /\ UNCHANGED <<exec, live, temp, outputs, delivered, confirmed, closing, orphaned>>

\* Versions, roots, directories; the probe is not started once the session is to close.
FinishChecks(passes) ==
  /\ prep = "checking"
  /\ IF passes /\ closing = "none"
     THEN prep' = "probing" /\ Accept("probe", "probe")
     ELSE prep' = "failed" /\ UNCHANGED exec
  /\ UNCHANGED <<live, temp, outputs, delivered, confirmed, closing, orphaned>>

Proven == exec["probe"].state = "finished" /\ exec["probe"].passed /\ exec["probe"].cleanup = "clean"
FinishProbe ==
  /\ prep = "probing" /\ exec["probe"].at = "done"
  /\ prep' = IF Proven /\ closing = "none" THEN "ready" ELSE "failed"
  /\ UNCHANGED <<exec, live, temp, outputs, delivered, confirmed, closing, orphaned>>

-----------------------------------------------------------------------------
(***************************************************************************)
(* execute and the task of an execution, _run.                             *)
(***************************************************************************)
\* An identity that is known is not executed again: the same command gets its entry, another one
\* is refused.
Execute(id, hash) ==
  /\ prep = "ready" /\ closing = "none" /\ exec[id].at = "none"
  /\ Accept(id, hash)
  /\ UNCHANGED <<prep, live, temp, outputs, delivered, confirmed, closing, orphaned>>

At(id, place) == exec[id].at = place
Move(id, place) == exec' = [exec EXCEPT ![id].at = place]
Abort(id) == exec' = [exec EXCEPT ![id].at = "closing", ![id].state = "indeterminate"]

BeginRun(id) ==
  /\ At(id, "accepted") /\ temp' = temp \cup {id}
  /\ Move(id, "starting") \/ Abort(id)
  /\ UNCHANGED <<prep, live, outputs, delivered, confirmed, closing, orphaned>>
Started(id) ==
  /\ At(id, "starting") /\ live' = [live EXCEPT ![id] = "alive"]
  /\ exec' = [exec EXCEPT ![id].at = "running", ![id].state = "running", ![id].owner = TRUE]
  /\ UNCHANGED <<prep, temp, outputs, delivered, confirmed, closing, orphaned>>

\* _read: what is beyond the limit, or finds no room, is counted and dropped; a frame that finds
\* no room has had its number.
ReadChunk(id) ==
  /\ At(id, "running") \/ (At(id, "closing") /\ exec[id].owner)
  /\ exec[id].produced < MaxChunks /\ live[id] # "none"
  /\ LET keep == exec[id].retained < FrameLimit
         frame == keep /\ id # "probe" IN
     /\ exec' = [exec EXCEPT ![id].produced = @ + 1,
                             ![id].retained = IF keep THEN @ + 1 ELSE @,
                             ![id].sequence = IF frame THEN @ + 1 ELSE @]
     /\ outputs' = IF frame /\ Len(outputs) < FrameQueue
                   THEN Append(outputs, [id |-> id, sequence |-> exec'[id].sequence, final |-> FALSE])
                   ELSE outputs
  /\ UNCHANGED <<prep, live, temp, delivered, confirmed, closing, orphaned>>
CollectFrame ==
  /\ outputs # <<>> /\ delivered' = Append(delivered, Head(outputs)) /\ outputs' = Tail(outputs)
  /\ UNCHANGED <<prep, exec, live, temp, confirmed, closing, orphaned>>

ProcessesEnd(id) ==
  /\ live[id] = "alive" /\ live' = [live EXCEPT ![id] = "gone"]
  /\ UNCHANGED <<prep, exec, temp, outputs, delivered, confirmed, closing, orphaned>>
FinishRun(id, passed) ==
  /\ At(id, "running") /\ live[id] = "gone"
  /\ exec' = [exec EXCEPT ![id].at = "closing", ![id].state = "finished", ![id].passed = passed]
  /\ UNCHANGED <<prep, live, temp, outputs, delivered, confirmed, closing, orphaned>>

\* The deadline of the command, or an error. A worker that is killed while it starts may have
\* started the command, which nobody owns then.
Orphaned(id) ==
  \/ UNCHANGED <<live, orphaned>>
  \/ /\ At(id, "starting") /\ live' = [live EXCEPT ![id] = "alive"]
     /\ orphaned' = orphaned \cup {id}
Deadline(id) ==
  /\ At(id, "starting") \/ At(id, "running")
  /\ Abort(id) /\ Orphaned(id)
  /\ UNCHANGED <<prep, temp, outputs, delivered, confirmed, closing>>

\* finally: owner.close, the readers, the temporary directory, the report, the final frames.
CloseProcesses(id) ==
  /\ At(id, "closing")
  /\ \E report \in IF exec[id].owner THEN {"clean", "unknown"} ELSE {"clean"} :
       /\ exec' = [exec EXCEPT ![id].at = "removing", ![id].processes = report]
       /\ live' = IF exec[id].owner /\ report = "clean" THEN [live EXCEPT ![id] = "gone"] ELSE live
  /\ UNCHANGED <<prep, temp, outputs, delivered, confirmed, closing, orphaned>>

\* Mistake: the report looks at the processes only.
CleanupOfProcesses(processes, removed) == processes

CleanupReport(processes, removed) ==
  IF processes = "clean" /\ removed THEN "clean" ELSE "unknown"
RemoveTemp(id, removed) ==
  /\ At(id, "removing") /\ (removed => exec[id].processes = "clean")
  /\ temp' = IF removed THEN temp \ {id} ELSE temp
  /\ exec' = [exec EXCEPT ![id].at = IF id = "probe" THEN "done" ELSE "finals",
                          ![id].cleanup = CleanupReport(exec[id].processes, removed)]
  /\ UNCHANGED <<prep, live, outputs, delivered, confirmed, closing, orphaned>>

\* A place is waited for, for one second.
SendFinal(id) ==
  /\ At(id, "finals")
  /\ exec' = [exec EXCEPT ![id].sequence = @ + 1, ![id].finals = @ + 1,
                          ![id].at = IF exec[id].finals = 1 THEN "done" ELSE "finals"]
  /\ \/ /\ Len(outputs) < FrameQueue
        /\ outputs' = Append(outputs, [id |-> id, sequence |-> exec[id].sequence + 1, final |-> TRUE])
     \/ Len(outputs) = FrameQueue /\ UNCHANGED outputs
  /\ UNCHANGED <<prep, live, temp, delivered, confirmed, closing, orphaned>>

-----------------------------------------------------------------------------
(***************************************************************************)
(* cancel and close.                                                       *)
(***************************************************************************)
\* task.cancel: a task that did not begin never does; within finally the rest of it is skipped.
CancelledTask(e) ==
  CASE e.at \in {"accepted", "closing", "removing", "finals"} ->
         [e EXCEPT !.at = "done", !.cancelled = TRUE]
    [] e.at \in {"starting", "running"} ->
         [e EXCEPT !.at = "closing", !.state = "indeterminate", !.cancelled = TRUE]
    [] OTHER -> e
CancelExecution(id) ==
  /\ exec[id].at \notin {"none", "done"} /\ ~exec[id].cancelled /\ id # "probe"
  /\ exec' = [exec EXCEPT ![id] = CancelledTask(@)]
  /\ Orphaned(id)
  /\ UNCHANGED <<prep, temp, outputs, delivered, confirmed, closing>>
AnswerCancel(id) ==
  /\ exec[id].at = "done" /\ exec[id].cleanup = "clean" /\ confirmed' = confirmed \cup {id}
  /\ UNCHANGED <<prep, exec, live, temp, outputs, delivered, closing, orphaned>>

Close ==
  /\ closing = "none" /\ closing' = "preparing"
  /\ UNCHANGED <<prep, exec, live, temp, outputs, delivered, confirmed, orphaned>>
Running == {id \in Executions : exec[id].at \notin {"none", "done"}}
CloseTasks ==
  /\ closing = "preparing" /\ prep \notin {"checking", "probing"}
  /\ closing' = "tasks"
  /\ exec' = [id \in Executions |-> IF exec[id].cancelled THEN exec[id] ELSE CancelledTask(exec[id])]
  /\ \E set \in SUBSET {id \in Executions : At(id, "starting") /\ ~exec[id].cancelled} :
       /\ orphaned' = orphaned \cup set
       /\ live' = [id \in Executions |-> IF id \in set THEN "alive" ELSE live[id]]
  /\ UNCHANGED <<prep, temp, outputs, delivered, confirmed>>
\* The directories of the session are removed last, which may fail.
FinishClose(removed) ==
  /\ closing = "tasks" /\ Running = {}
  /\ closing' = IF removed /\ \A id \in Executions : At(id, "done") => exec[id].cleanup = "clean"
                THEN "clean" ELSE "unknown"
  /\ UNCHANGED <<prep, exec, live, temp, outputs, delivered, confirmed, orphaned>>
CloseLimit ==
  /\ \/ closing = "preparing" /\ prep \in {"checking", "probing"}
     \/ closing = "tasks" /\ Running # {}
  /\ closing' = "unknown"
  /\ UNCHANGED <<prep, exec, live, temp, outputs, delivered, confirmed, orphaned>>

-----------------------------------------------------------------------------
SandboxInit ==
  /\ prep = "none" /\ exec = [id \in Executions |-> NoExecution]
  /\ live = [id \in Executions |-> "none"] /\ temp = {} /\ outputs = <<>> /\ delivered = <<>>
  /\ confirmed = {} /\ closing = "none" /\ orphaned = {}

SandboxNext ==
  \/ Prepare \/ FinishProbe \/ CollectFrame \/ Close \/ CloseTasks \/ CloseLimit
  \/ \E b \in BOOLEAN : FinishChecks(b) \/ FinishClose(b)
  \/ \E id \in Identities, hash \in CommandHashes : Execute(id, hash)
  \/ \E id \in Executions :
       \/ BeginRun(id) \/ Started(id) \/ ReadChunk(id) \/ ProcessesEnd(id) \/ Deadline(id)
       \/ CloseProcesses(id) \/ SendFinal(id) \/ CancelExecution(id) \/ AnswerCancel(id)
       \/ \E b \in BOOLEAN : FinishRun(id, b) \/ RemoveTemp(id, b)

SandboxSpec == SandboxInit /\ [][SandboxNext]_sandbox_vars

-----------------------------------------------------------------------------
\* Nothing is left of an execution: no process, no directory, no task that may start one. A
\* command that a killed worker may have started is beyond what the session knows.
Left(id) == (live[id] = "alive" /\ id \notin orphaned) \/ id \in temp \cup Running
ReportsTrue ==
  /\ closing = "clean" => \A id \in Executions : ~Left(id)
  /\ \A id \in confirmed : ~Left(id)

\* Only a session whose probe ran, was answered as expected and left nothing admits commands.
AdmittedProven ==
  (\E id \in Identities : exec[id].at # "none") => Proven /\ "probe" \notin temp

\* The frames of an execution come in order, and none after a final one.
FramesInOrder ==
  LET frames == delivered \o outputs IN
    \A i, j \in DOMAIN frames : i < j /\ frames[i].id = frames[j].id =>
      frames[i].sequence < frames[j].sequence /\ (frames[i].final => frames[j].final)

(***************************************************************************)
(* What the session reports of itself is true, whatever is cancelled, times*)
(* out, or closes while it starts.                                         *)
(***************************************************************************)
SandboxHonest == ReportsTrue /\ AdmittedProven /\ FramesInOrder
=============================================================================
