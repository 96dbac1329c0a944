------------------------------ MODULE Failures ------------------------------
(***************************************************************************)
(* What people say of failed attempts, and the failures they want to see   *)
(* again (src/forge/application/annotations.py).                           *)
(*                                                                         *)
(* The notes on an attempt are a history to which a note is appended under *)
(* the newest one its author has seen. A candidate keeps a failure with    *)
(* the conditions it ran under; a check names another execution for it.    *)
(* Whether that reproduces the failure is proved again at every view, from *)
(* what both executions left behind.                                       *)
(*                                                                         *)
(* Environment: attempts start and end (see Evaluations), others are       *)
(* imported (see Bundles), and artifacts get damaged. Attempts are         *)
(* numbered in the order of their starts, which is all that is compared of *)
(* the clock.                                                              *)
(***************************************************************************)
EXTENDS Naturals, Sequences, FiniteSets

CONSTANTS
  Conditions,     \* what a run may freeze: task, model, protocol
  Graders,        \* the graders in use
  MaxExecutions,  \* bound: attempts
  MaxLabels,      \* bound: notes
  MaxCandidates,  \* bound: candidates
  MaxChecks,      \* bound: checks of reproduction
  MaxLost         \* bound: artifacts damaged

ASSUME FailuresAssumption ==
  {MaxExecutions, MaxLabels, MaxCandidates, MaxChecks, MaxLost} \subseteq Nat

VARIABLES
  executions,  \* the attempts, in the order they started or were imported
  labels,      \* annotations and imported_annotation_notes, in order
  candidates,  \* regression_candidates, each with its checks, in order
  damaged      \* how many artifacts were damaged

failure_vars == <<executions, labels, candidates, damaged>>

FailureInit == executions = <<>> /\ labels = <<>> /\ candidates = <<>> /\ damaged = 0

RunNumbers == 1..Len(executions)

-----------------------------------------------------------------------------
(***************************************************************************)
(* Attempts. What an attempt may end with: a grade of its own with the     *)
(* evidence for it, an end that left no complete trace, or none at all.    *)
(***************************************************************************)
Ends(grader) ==
  {[state |-> "finished", clean |-> TRUE, grade |-> gt[1], grader |-> grader, traced |-> gt[2],
    evidence |-> "good"] : gt \in {<<"pass", TRUE>>, <<"fail", TRUE>>, <<"fail", FALSE>>}}
  \cup {[state |-> "error", clean |-> FALSE, grade |-> "none", grader |-> grader, traced |-> FALSE,
         evidence |-> "none"]}

Starting ==
  [state |-> "running", clean |-> FALSE, grade |-> "none", grader |-> "none", traced |-> FALSE,
   evidence |-> "none"]

ExecutionStarts(c) ==
  /\ Len(executions) < MaxExecutions
  /\ executions' = Append(executions, [origin |-> "local", under |-> c, is |-> Starting])
  /\ UNCHANGED <<labels, candidates, damaged>>

ExecutionEnds(i, end) ==
  /\ executions[i].is.state = "running"
  /\ executions' = [executions EXCEPT ![i].is = end]
  /\ UNCHANGED <<labels, candidates, damaged>>

ExecutionImported(c, end) ==
  /\ Len(executions) < MaxExecutions
  /\ executions' = Append(executions, [origin |-> "imported", under |-> c, is |-> end])
  /\ UNCHANGED <<labels, candidates, damaged>>

ArtifactLost ==
  /\ damaged < MaxLost
  /\ damaged' = damaged + 1
  /\ \/ \E i \in RunNumbers :
          /\ executions[i].is.evidence = "good"
          /\ executions' = [executions EXCEPT ![i].is.evidence = "damaged"]
          /\ UNCHANGED candidates
     \/ \E k \in DOMAIN candidates :
          /\ candidates[k].fixture
          /\ candidates' = [candidates EXCEPT ![k].fixture = FALSE]
          /\ UNCHANGED executions
  /\ UNCHANGED labels

-----------------------------------------------------------------------------
(***************************************************************************)
(* Notes.                                                                  *)
(***************************************************************************)
Over(i) == executions[i].is.state # "running"

\* A failed or unscored attempt that is over.
IsFailure(i) ==
  /\ Over(i)
  /\ executions[i].is.grade # "pass" \/ executions[i].is.state # "finished" \/ ~executions[i].is.clean

History(i) == {n \in DOMAIN labels : labels[n].of = i}
NewestLabel(i) ==
  IF History(i) = {} THEN 0 ELSE CHOOSE n \in History(i) : \A m \in History(i) : m <= n

\* A plausible bug: the head a note was written under is not compared with the history.
AnnotateUnseen(i, expected, cites) ==
  /\ Len(labels) < MaxLabels
  /\ cites => executions[i].is.evidence # "none"
  /\ labels' = Append(labels, [of |-> i, supersedes |-> expected, cites |-> cites])
  /\ UNCHANGED <<executions, candidates, damaged>>

\* The head is compared in the transaction that appends; a note may cite evidence of its attempt
\* only, damaged or not.
Annotate(i, expected, cites) ==
  /\ Len(labels) < MaxLabels
  /\ expected = NewestLabel(i)
  /\ cites => executions[i].is.evidence # "none"
  /\ labels' = Append(labels, [of |-> i, supersedes |-> expected, cites |-> cites])
  /\ UNCHANGED <<executions, candidates, damaged>>

-----------------------------------------------------------------------------
(***************************************************************************)
(* Candidates.                                                             *)
(***************************************************************************)
\* The fixture is an artifact of its own, published before the row: a crash between the two leaves
\* an artifact that nothing names.
SaveCandidate(i, expected) ==
  /\ Len(candidates) < MaxCandidates
  /\ IsFailure(i)
  /\ expected = NewestLabel(i)
  /\ candidates' = Append(candidates, [of |-> i, head |-> expected, under |-> executions[i].under,
                                       after |-> Len(executions), fixture |-> TRUE, checks |-> <<>>])
  /\ UNCHANGED <<executions, labels, damaged>>

Available(i) == executions[i].is.evidence = "good"
GradedFail(i) == executions[i].is.grade = "fail"
CompleteRun(i) ==
  executions[i].is.state = "finished" /\ executions[i].is.clean /\ executions[i].is.traced

\* What the candidate itself lacks.
OriginalBlocked(c) ==
  \/ ~c.fixture
  \/ executions[c.of].origin = "imported"
  \/ ~Available(c.of) \/ ~GradedFail(c.of) \/ ~CompleteRun(c.of)

\* What another execution lacks to show the same failure again.
ReproductionBlocked(c, other) ==
  \/ executions[other].origin = "imported"
  \/ other = c.of
  \/ other <= c.after
  \/ executions[other].under # c.under
  \/ ~Available(other) \/ ~GradedFail(other) \/ ~CompleteRun(other)
  \/ executions[other].is.grader # executions[c.of].is.grader

\* proof: what there is to say now, of the candidate alone or with another execution.
ProvenBy(c, other) == ~OriginalBlocked(c) /\ ~ReproductionBlocked(c, other)

\* The check is recorded with what it saw, whatever that is.
CheckReproduction(k, other) ==
  /\ Len(candidates[k].checks) < MaxChecks
  /\ candidates' = [candidates EXCEPT ![k].checks =
       Append(@, [other |-> other, saw |-> ProvenBy(candidates[k], other)])]
  /\ UNCHANGED <<executions, labels, damaged>>

\* A plausible bug: the view shows what the latest check saw.
ViewAsChecked(c) ==
  IF c.checks = <<>> THEN IF OriginalBlocked(c) THEN "blocked" ELSE "saved_pending_reproduction"
  ELSE IF c.checks[Len(c.checks)].saw THEN "reproduced" ELSE "blocked"

\* The view proves the latest check again.
CandidateView(c) ==
  IF c.checks = <<>> THEN IF OriginalBlocked(c) THEN "blocked" ELSE "saved_pending_reproduction"
  ELSE IF ProvenBy(c, c.checks[Len(c.checks)].other) THEN "reproduced" ELSE "blocked"

FailureNext ==
  \/ \E c \in Conditions : ExecutionStarts(c)
  \/ \E i \in RunNumbers, g \in Graders : \E end \in Ends(g) : ExecutionEnds(i, end)
  \/ \E c \in Conditions, g \in Graders : \E end \in Ends(g) : ExecutionImported(c, end)
  \/ ArtifactLost
  \/ \E i \in RunNumbers, expected \in 0..Len(labels), cites \in BOOLEAN :
       Annotate(i, expected, cites)
  \/ \E i \in RunNumbers, expected \in 0..Len(labels) : SaveCandidate(i, expected)
  \/ \E k \in DOMAIN candidates, other \in RunNumbers : CheckReproduction(k, other)

FailureSpec == FailureInit /\ [][FailureNext]_failure_vars

-----------------------------------------------------------------------------
(***************************************************************************)
(* Properties                                                              *)
(***************************************************************************)
\* The notes on an attempt are one chain: nobody's note hides another that its author never saw.
NotesAreChain ==
  \A n \in DOMAIN labels :
    LET earlier == {m \in History(labels[n].of) : m < n}
    IN  IF earlier = {} THEN labels[n].supersedes = 0
        ELSE labels[n].supersedes \in earlier /\ \A m \in earlier : m <= labels[n].supersedes

\* A candidate keeps the newest note of its time, and was a failure under its conditions.
CandidatesHold ==
  \A k \in DOMAIN candidates :
    /\ candidates[k].head # 0 => labels[candidates[k].head].of = candidates[k].of
    /\ IsFailure(candidates[k].of)
    /\ candidates[k].under = executions[candidates[k].of].under

\* A candidate is shown as reproduced only while the fixture and the evidence of two executions are
\* there, both of this engine, graded as failures by one grader under the same conditions, the
\* second begun after the candidate was saved.
ReproducedIsProven ==
  \A c \in {candidates[k] : k \in DOMAIN candidates} : CandidateView(c) = "reproduced" =>
    LET other == c.checks[Len(c.checks)].other
    IN  /\ c.fixture /\ other > c.after /\ other # c.of
        /\ \A i \in {c.of, other} :
             /\ executions[i].origin = "local" /\ executions[i].under = c.under
             /\ executions[i].is.grade = "fail" /\ executions[i].is.traced
             /\ executions[i].is.evidence = "good"
             /\ executions[i].is.grader = executions[c.of].is.grader

\* Notes and candidates are what they are shown as (annotations.py:142-264).
FailuresHonest == NotesAreChain /\ CandidatesHold /\ ReproducedIsProven
=============================================================================
