------------------------------ MODULE Campaign ------------------------------
(***************************************************************************)
(* A paid campaign over frozen tasks (src/evals/native_swe_campaign.py)    *)
(* and one case of it (src/evals/runner.py, src/evals/native_swe.py).      *)
(*                                                                         *)
(* The campaign file lists the slots of the plan. A slot is saved as       *)
(* started before anything of it runs and as finished with its outcome, so *)
(* a slot that a crash or a cancellation leaves started is never run       *)
(* again. A case prepares a workspace and its dependencies, opens a        *)
(* session, lets the agent work, closes the session, captures the          *)
(* candidate, grades it in a workspace of its own, reads its requests from *)
(* the journal and reports. Any of these may fail, be cancelled or be cut  *)
(* off by a crash. What the agent does to the files is a number, its tree. *)
(*                                                                         *)
(* Environment: somebody commits other code or edits a frozen suite        *)
(* between and during the invocations.                                     *)
(***************************************************************************)
EXTENDS Naturals, Sequences, FiniteSets

CONSTANTS
  CampaignSlots,   \* how many slots the plan has
  Correct,         \* the trees the frozen suite of a task accepts
  MaxInvocations,  \* bound: how often somebody invokes the campaign
  MaxTrees,        \* bound: how often an agent edits its workspace
  MaxCaseRequests,        \* bound: model requests of one case
  MaxMeddling,     \* bound: commits and edits of a suite
  MaxFileFaults    \* bound: saves of the campaign file that fail

ASSUME CampaignAssumption ==
  /\ CampaignSlots \in Nat \ {0}
  /\ MaxTrees \in Nat
  /\ Correct \subseteq 1..MaxTrees
  /\ {MaxInvocations, MaxCaseRequests, MaxMeddling, MaxFileFaults} \subseteq Nat

VARIABLES
  inputs,        \* the code and the suites as they are on disk, and how often
                 \* somebody changed them
  campaignFile,  \* campaign.json: <<>> or one record
  runner,        \* the invocation that runs: its phase, its copy of the file, its slot
  attempt,       \* the case of that slot
  began,         \* history: the slots whose agent began, in order
  stopped        \* history: the slots that ended with a reason to stop, and the invocation of each

camp_vars == <<inputs, campaignFile, runner, attempt, began, stopped>>

Slots == 1..CampaignSlots
Ways == {"error", "cancelled"}            \* how a step is left
Reports == {"none", "clean", "unknown"}   \* what is known of processes a step had started

NoAttempt ==
  [workspace |-> "none", alive |-> FALSE, tree |-> 0, foul |-> FALSE,
   session |-> FALSE, requests |-> 0, answered |-> 0, failed |-> FALSE, accounted |-> FALSE,
   result |-> "none", cleanup |-> "none", candidate |-> 0, captured |-> FALSE, suite |-> "frozen",
   verifier |-> "clean", evidence |-> "none", reasons |-> FALSE, left |-> "no"]

NoRunner == [at |-> "idle", copy |-> <<>>, slot |-> 0, invocation |-> 0, commit |-> 0, faults |-> 0]

CampInit ==
  /\ inputs = [commit |-> 0, suite |-> "frozen", meddled |-> 0]
  /\ campaignFile = <<>>
  /\ runner = NoRunner
  /\ attempt = NoAttempt
  /\ began = <<>>
  /\ stopped = {}

Doing(phase) == runner.at = phase
Goto(phase) == runner' = [runner EXCEPT !.at = phase]

\* The invocation is over, with so many failed saves more.
StopCampaign(faults) == runner' = [NoRunner EXCEPT !.invocation = runner.invocation,
                                           !.faults = runner.faults + faults]

-----------------------------------------------------------------------------
(***************************************************************************)
(* The campaign file.                                                      *)
(***************************************************************************)
NewCampaign(freeze) ==
  [freeze |-> freeze, state |-> "ready", slot |-> [s \in Slots |-> "not_started"],
   passed |-> [s \in Slots |-> FALSE]]

\* A plausible bug: an interrupted slot is taken for one that may be run again.
MayExecuteAgain(file, freeze, resume) == file.freeze = freeze /\ file.state # "complete" /\ resume

\* An existing campaign goes on only under its own freeze, with every admitted slot finished and
\* at an explicit request.
MayExecute(file, freeze, resume) ==
  /\ file.freeze = freeze
  /\ \A s \in Slots : file.slot[s] # "started"
  /\ file.state # "complete"
  /\ resume

\* save replaces the whole file or fails.
SaveFails == runner.faults < MaxFileFaults

\* The frozen inputs are compared, then the file is taken under a lock that no second process gets.
Invoke(resume) ==
  /\ Doing("idle")
  /\ runner.invocation < MaxInvocations
  /\ inputs.suite = "frozen"
  /\ LET copy == IF campaignFile = <<>> THEN NewCampaign(inputs.commit) ELSE campaignFile[1]
     IN  /\ IF campaignFile = <<>> THEN ~resume ELSE MayExecute(copy, inputs.commit, resume)
         /\ campaignFile' = <<copy>>
         /\ runner' = [runner EXCEPT !.at = "loop", !.copy = copy, !.invocation = @ + 1,
                                    !.commit = inputs.commit]
  /\ UNCHANGED <<inputs, attempt, began, stopped>>

NotStarted == {s \in Slots : runner.copy.slot[s] = "not_started"}
NextSlot == CHOOSE s \in NotStarted : \A t \in NotStarted : s <= t

\* The slot is durably admitted before its setup and before any client of a model.
AdmitSlot ==
  /\ Doing("loop") /\ NotStarted # {}
  /\ LET copy == [runner.copy EXCEPT !.slot[NextSlot] = "started", !.state = "running"]
     IN  \/ /\ campaignFile' = <<copy>>
            /\ runner' = [runner EXCEPT !.at = "prepare", !.copy = copy, !.slot = NextSlot]
            /\ attempt' = [NoAttempt EXCEPT !.suite = inputs.suite]
         \/ /\ SaveFails
            /\ StopCampaign(1)
            /\ UNCHANGED <<campaignFile, attempt>>
  /\ UNCHANGED <<inputs, began, stopped>>

Complete ==
  /\ Doing("loop") /\ NotStarted = {}
  /\ \/ campaignFile' = <<[runner.copy EXCEPT !.state = "complete"]>> /\ StopCampaign(0)
     \/ /\ SaveFails
        /\ StopCampaign(1)
        /\ UNCHANGED campaignFile
  /\ UNCHANGED <<inputs, attempt, began, stopped>>

-----------------------------------------------------------------------------
(***************************************************************************)
(* One case. A step that raises, or is cancelled while it awaits, leaves   *)
(* with what it can say of the processes it had started.                   *)
(***************************************************************************)
\* What runs after a report: nothing, unless nobody could confirm that.
StillAlive(report) == IF report = "unknown" THEN BOOLEAN ELSE {FALSE}

\* A plausible bug: only a session's own report retains the workspace.
LeaveOwned(a, report) ==
  [a EXCEPT !.workspace = IF @ = "kept" \/ (a.session /\ report = "unknown")
                          THEN "kept" ELSE "gone"]

\* A workspace goes with its case, unless the cleanup of its processes is not confirmed.
Leave(a, report) ==
  [a EXCEPT !.workspace = IF report = "unknown" \/ @ = "kept" THEN "kept" ELSE "gone"]

\* The base revision is unpacked without its hidden tests, and committed; or the archive differs
\* from the frozen one, or git fails.
PrepareFixture ==
  /\ Doing("prepare")
  /\ \/ attempt' = [attempt EXCEPT !.workspace = "there", !.alive = TRUE] /\ Goto("setup")
     \/ attempt' = [attempt EXCEPT !.workspace = "gone", !.left = "error"] /\ Goto("report")
  /\ UNCHANGED <<inputs, campaignFile, began, stopped>>

\* Dependencies are installed by owned processes, then the session is opened: both can fail before
\* there is a session to close.
PhaseAfter == [setup |-> "open", open |-> "agent"]

Advance(phase) ==
  /\ Doing(phase)
  /\ attempt' = [attempt EXCEPT !.alive = FALSE, !.session = (phase = "open")]
  /\ Goto(PhaseAfter[phase])
  /\ began' = IF phase = "setup" THEN began
              ELSE Append(began, [slot |-> runner.slot, invocation |-> runner.invocation,
                                  commit |-> runner.commit])
  /\ UNCHANGED <<inputs, campaignFile, stopped>>

FailBefore(phase, how) ==
  /\ Doing(phase)
  /\ \E report \in Reports : \E alive \in StillAlive(report) :
       attempt' = Leave([attempt EXCEPT !.alive = alive, !.left = how, !.cleanup = report], report)
  /\ Goto("report")
  /\ UNCHANGED <<inputs, campaignFile, began, stopped>>

StartRequest ==
  /\ Doing("agent")
  /\ attempt.requests < MaxCaseRequests
  /\ attempt' = [attempt EXCEPT !.requests = @ + 1]
  /\ UNCHANGED <<inputs, campaignFile, runner, began, stopped>>

\* The client is built with no retries: a request has one answer or one failure.
FinishRequest ==
  /\ Doing("agent")
  /\ attempt.answered < attempt.requests
  /\ \E failed \in BOOLEAN :
       attempt' = [attempt EXCEPT !.answered = @ + 1, !.failed = @ \/ failed]
  /\ UNCHANGED <<inputs, campaignFile, runner, began, stopped>>

\* A command or an edit of the agent, which may leave the scope or read what the evaluator keeps.
AgentActs ==
  /\ Doing("agent")
  /\ attempt.tree < MaxTrees
  /\ \E foul \in BOOLEAN :
       attempt' = [attempt EXCEPT !.tree = @ + 1, !.alive = TRUE, !.foul = @ \/ foul]
  /\ UNCHANGED <<inputs, campaignFile, runner, began, stopped>>

\* What a command left running may go on writing.
ProcessWrites ==
  /\ attempt.alive /\ attempt.session /\ attempt.workspace \in {"there", "kept"}
  /\ attempt.tree < MaxTrees
  /\ attempt' = [attempt EXCEPT !.tree = @ + 1]
  /\ UNCHANGED <<inputs, campaignFile, runner, began, stopped>>

\* The turn ends with a result ("verified" stands for everything acceptance asks of the result
\* itself: completed, a diff in scope, a successful check), and its count of requests agrees with
\* the journal or not; or it raises, or is cancelled. Of the requests only what stop_reason asks is
\* kept from here on.
AgentEnds ==
  /\ Doing("agent")
  /\ LET a == [attempt EXCEPT !.requests = 0, !.answered = 0, !.failed = FALSE]
         answered == attempt.answered = attempt.requests /\ ~attempt.failed
     IN  \/ \E result \in {"verified", "failed"}, counted \in BOOLEAN :
              attempt' = [a EXCEPT !.result = result, !.accounted = counted /\ answered]
         \/ \E how \in Ways : attempt' = [a EXCEPT !.left = how]
  /\ Goto("close")
  /\ UNCHANGED <<inputs, campaignFile, began, stopped>>

\* A close that raises or is cancelled before its report is there leaves an unknown cleanup; one
\* whose last record fails raises with its report.
CloseSession ==
  /\ Doing("close")
  /\ \E report \in {"clean", "unknown"}, how \in {attempt.left} \cup Ways :
       \E alive \in StillAlive(report) :
         LET closed == [attempt EXCEPT !.cleanup = report, !.alive = alive, !.left = how,
                                       !.reasons = (report = "unknown")]
         IN  attempt' = IF report = "unknown" THEN [closed EXCEPT !.workspace = "kept"] ELSE closed
  /\ Goto(IF attempt'.cleanup = "clean" THEN "capture" ELSE "report")
  /\ UNCHANGED <<inputs, campaignFile, began, stopped>>

\* What the agent left is compared with the snapshot of before; a failure keeps the workspace.
CaptureCandidate ==
  /\ Doing("capture")
  /\ LET a == attempt
         left == IF a.left # "no" \/ a.result = "none" THEN Leave(a, "clean") ELSE a
     IN  \/ attempt' = [left EXCEPT !.candidate = a.tree, !.captured = TRUE,
                                    !.reasons = @ \/ a.foul]
         \/ attempt' = [left EXCEPT !.workspace = "kept", !.reasons = TRUE]
  /\ Goto(IF attempt.left = "no" /\ attempt.result # "none" THEN "grade" ELSE "report")
  /\ UNCHANGED <<inputs, campaignFile, began, stopped>>

\* Only an honest candidate within its scope that differs from the base is graded.
Gradable(a) == a.captured /\ ~a.foul /\ a.candidate # 0

\* A verdict of the frozen suite, or of the one somebody put in its place.
Accepts(a) == IF a.suite = "frozen" THEN {a.candidate \in Correct} ELSE BOOLEAN

(***************************************************************************)
(* The grader works on a second copy of the base with the candidate in it  *)
(* and a session of its own that has no model: its setup or its session    *)
(* fails, it is cancelled, its cleanup is not confirmed, or it has a       *)
(* verdict. What could not be graded has no hidden tests, which is a       *)
(* reason as well. Then the case's own workspace goes.                     *)
(***************************************************************************)
Grade ==
  /\ Doing("grade")
  /\ LET done == Leave(attempt, "clean")
         refused(a, verifier) == [a EXCEPT !.reasons = TRUE, !.verifier = verifier]
     IN  \/ ~Gradable(attempt) /\ attempt' = refused(done, "clean")
         \/ ~Gradable(attempt) /\ ~attempt.captured
            /\ attempt' = [done EXCEPT !.left = "error"]
         \/ /\ Gradable(attempt)
            /\ \/ \E how \in Ways, verifier \in {"clean", "unknown"} :
                    attempt' = [done EXCEPT !.left = how, !.verifier = verifier]
               \/ attempt' = refused(done, "unknown")
               \/ \E accepted \in Accepts(attempt) :
                    attempt' = [done EXCEPT !.reasons = \/ @ \/ ~accepted
                                                        \/ attempt.result # "verified"]
  /\ Goto("report")
  /\ UNCHANGED <<inputs, campaignFile, began, stopped>>

-----------------------------------------------------------------------------
(***************************************************************************)
(* The report of a case and what the campaign makes of it.                 *)
(***************************************************************************)
CasePassed(a) == ~a.reasons /\ a.left = "no" /\ a.result = "verified"

\* What was left running, or cannot be accounted for, stops the campaign.
StopReason(a) ==
  \/ a.cleanup # "clean"
  \/ a.verifier # "clean"
  \/ a.evidence # "read"
  \/ ~a.accounted
  \/ a.left # "no"

\* The requests are read from the journal and the outcome is written; a cancelled case is reported
\* and raises, and so does one whose outcome cannot be written.
Report ==
  /\ Doing("report")
  /\ \E evidence \in IF attempt.session THEN {"read", "unreadable"} ELSE {"none"} :
       attempt' = [attempt EXCEPT !.evidence = evidence, !.reasons = @ \/ evidence = "unreadable"]
  /\ \/ attempt.left # "cancelled" /\ Goto("record")
     \/ Goto("interrupted")
  /\ UNCHANGED <<inputs, campaignFile, began, stopped>>

\* The slot stays started.
Interrupted ==
  /\ Doing("interrupted")
  /\ \/ /\ campaignFile' = <<[runner.copy EXCEPT !.state = "blocked"]>>
        /\ StopCampaign(0)
     \/ /\ SaveFails
        /\ StopCampaign(1)
        /\ UNCHANGED campaignFile
  /\ attempt' = NoAttempt
  /\ UNCHANGED <<inputs, began, stopped>>

\* The outcome is saved; when that fails it is saved once more, as blocked.
RecordSlot ==
  /\ Doing("record")
  /\ LET stop == StopReason(attempt)
         copy == [runner.copy EXCEPT !.slot[runner.slot] = "finished",
                    !.passed[runner.slot] = CasePassed(attempt),
                    !.state = IF stop THEN "blocked" ELSE "running"]
     IN  /\ \/ /\ campaignFile' = <<copy>>
               /\ IF stop THEN StopCampaign(0) ELSE runner' = [runner EXCEPT !.at = "loop", !.copy = copy]
            \/ /\ SaveFails
               /\ campaignFile' \in {<<[copy EXCEPT !.state = "blocked"]>>} \cup
                    (IF runner.faults + 1 < MaxFileFaults THEN {campaignFile} ELSE {})
               /\ StopCampaign(1)
         /\ stopped' = IF stop THEN stopped \cup {[slot |-> runner.slot,
                                                   invocation |-> runner.invocation]}
                       ELSE stopped
  /\ attempt' = NoAttempt
  /\ UNCHANGED <<inputs, began>>

\* The process dies: the lock goes with it, its copy and nothing on disk.
CampCrash ==
  /\ ~Doing("idle")
  /\ StopCampaign(0)
  /\ attempt' = NoAttempt
  /\ UNCHANGED <<inputs, campaignFile, began, stopped>>

\* What somebody changes is read when an invocation begins and when it admits a slot, so changes
\* before these two stand for those at any other time.
Meddle ==
  /\ runner.at \in {"idle", "loop"}
  /\ inputs.meddled < MaxMeddling
  /\ \/ inputs' = [inputs EXCEPT !.commit = @ + 1, !.meddled = @ + 1]
     \/ \E suite \in {"frozen", "edited"} \ {inputs.suite} :
          inputs' = [inputs EXCEPT !.suite = suite, !.meddled = @ + 1]
  /\ UNCHANGED <<campaignFile, runner, attempt, began, stopped>>

CampNext ==
  \/ \E resume \in BOOLEAN : Invoke(resume)
  \/ AdmitSlot
  \/ Complete
  \/ PrepareFixture
  \/ \E phase \in {"setup", "open"} : Advance(phase)
  \/ \E phase \in {"setup", "open"}, how \in Ways : FailBefore(phase, how)
  \/ StartRequest
  \/ FinishRequest
  \/ AgentActs
  \/ ProcessWrites
  \/ AgentEnds
  \/ CloseSession
  \/ CaptureCandidate
  \/ Grade
  \/ Report
  \/ Interrupted
  \/ RecordSlot
  \/ CampCrash
  \/ Meddle

CampSpec == CampInit /\ [][CampNext]_camp_vars

-----------------------------------------------------------------------------
(***************************************************************************)
(* No slot is paid for twice: agents begin in the order of the plan, each  *)
(* once, all under the code the campaign was frozen with, none while an    *)
(* earlier slot is interrupted, and none after a slot that ended with a    *)
(* reason to stop unless somebody resumed after it.                        *)
(***************************************************************************)
SlotsOnce ==
  \A i, j \in 1..Len(began) : i < j =>
    /\ began[i].slot < began[j].slot
    /\ began[i].commit = began[j].commit
    /\ campaignFile[1].slot[began[i].slot] = "finished"
    /\ \A stop \in stopped : (stop.slot = began[i].slot) => began[j].invocation > stop.invocation

(***************************************************************************)
(* A case that passed is one whose workspace, as the agent and everything  *)
(* it started left it, is what the frozen suite accepts, with a clean      *)
(* cleanup and no exception. Set apart: a suite that somebody edited after *)
(* the invocation had compared it (it is read again for every slot).       *)
(***************************************************************************)
PassedIsCorrect ==
  (Doing("record") /\ CasePassed(attempt) /\ attempt.suite = "frozen") =>
    /\ attempt.tree \in Correct
    /\ ~attempt.foul /\ ~attempt.alive
    /\ attempt.cleanup = "clean"

\* A workspace in which something may still run is not removed.
WorkspaceKept == attempt.workspace = "gone" => ~attempt.alive

\* A complete campaign has every slot finished.
CompleteIsFinished ==
  (campaignFile # <<>> /\ campaignFile[1].state = "complete") =>
    \A s \in Slots : campaignFile[1].slot[s] = "finished"

(***************************************************************************)
(* What a campaign reports was paid for once, in order, and judged as it   *)
(* was.                                                                    *)
(***************************************************************************)
CampaignHonest == SlotsOnce /\ PassedIsCorrect /\ WorkspaceKept /\ CompleteIsFinished
=============================================================================
