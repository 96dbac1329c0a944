------------------------- MODULE ApplicationProofs -------------------------
(***************************************************************************)
(* What the application shows of its work is true: the notes on attempts   *)
(* and the candidates of the optimizer (Failures), the views of a          *)
(* workspace (Views), the end of a command with its output (Processes),    *)
(* what a campaign reports of its cases (Campaign), what leaves and enters *)
(* the store of evaluations (Bundles), and what its calls of a model cost  *)
(* (ModelCalls). Each for every value of the constants.                    *)
(*                                                                         *)
(* FailInv adds to FailuresHonest that notes, candidates and checks name   *)
(* attempts and notes that there are, and that a history that is not empty *)
(* has a newest note: the note that the next one must name.                *)
(*                                                                         *)
(* ViewInv adds to ViewsTell what the log of changes remembers: for the    *)
(* files that no entry names since a client was shown them, what it was    *)
(* shown is still so.                                                      *)
(*                                                                         *)
(* ProcInv adds to CommandContained that every process descends from the   *)
(* worker while it lives, by a rank that decreases from child to parent:   *)
(* a worker without children has no descendants. And that no output is     *)
(* lost between the command and who reads it.                              *)
(*                                                                         *)
(* CampInv adds to CampaignHonest what is true of the case at each phase:  *)
(* the candidate is the tree that the agent left, its session is closed    *)
(* before it is captured, and a passed case has all of it. And that slots  *)
(* are taken in order, one started at most, by the invocation that runs.   *)
(*                                                                         *)
(* BundleInv adds to BundlesFaithful that an action has one intent, that   *)
(* what it put in place and answered is the artifact of this intent, whose *)
(* content nobody changes, and that a note cites evidence that there was.  *)
(*                                                                         *)
(* CallsHonest (ModelCalls), for any callers, budgets and retries: the     *)
(* account of each caller says what its attempts cost once the open one is *)
(* settled, and that of the parent is the total over its children, a sum   *)
(* that the lemmas of FoldLemmas follow through a change of one of them    *)
(* (AccountsInv). One probe goes out at a time because it holds the mark   *)
(* of an open circuit (ProbeInv).                                          *)
(*                                                                         *)
(* EvalInv adds to EvaluationsHonest where the things on the host come     *)
(* from: an attempt that is executed, the last of its trial and at work,   *)
(* or one whose cleanup is in doubt, which a free worker has none of. And  *)
(* that the trials of a run begin together, so that a run that is over     *)
(* speaks for all of them.                                                 *)
(***************************************************************************)
EXTENDS Failures, Views, Processes, Campaign, Bundles, ModelCalls, Evaluations, FoldLemmas,
        SequenceTheorems, FiniteSetTheorems, FunctionTheorems, TLAPS

-----------------------------------------------------------------------------
(***************************************************************************)
(* Failures.                                                               *)
(***************************************************************************)

\* The states of an attempt that are told apart.
Attempt == [state : {"running", "finished", "error"}, clean : BOOLEAN, grade : {"none", "pass", "fail"},
            grader : Graders \cup {"none"}, traced : BOOLEAN, evidence : {"none", "good", "damaged"}]
\* An attempt of this engine, or an imported one.
Execution == [origin : {"local", "imported"}, under : Conditions, is : Attempt]
\* A note, a check and a candidate.
Label == [of : Nat, supersedes : Nat, cites : BOOLEAN]
Check == [other : Nat, saw : BOOLEAN]
Candidate == [of : Nat, head : Nat, under : Conditions, after : Nat, fixture : BOOLEAN, checks : Seq(Check)]

\* Notes and candidates are about attempts and notes that there are.
ShapeInv ==
  /\ executions \in Seq(Execution) /\ labels \in Seq(Label) /\ candidates \in Seq(Candidate)
  /\ \A n \in DOMAIN labels : labels[n].of \in RunNumbers
  /\ \A k \in DOMAIN candidates :
       /\ candidates[k].of \in RunNumbers /\ candidates[k].head \in 0 .. Len(labels)
       /\ \A n \in DOMAIN candidates[k].checks : candidates[k].checks[n].other \in RunNumbers

\* A history that is not empty has a newest note.
NewestExists ==
  \A i \in RunNumbers : History(i) # {} => \E n \in History(i) : \A m \in History(i) : m <= n

\* The inductive invariant.
FailInv == ShapeInv /\ NewestExists /\ NotesAreChain /\ CandidatesHold

\* Appending keeps the members of a sequence, and what was there.
LEMMA AppendOne ==
  ASSUME NEW S, NEW s \in Seq(S), NEW e \in S
  PROVE  /\ Append(s, e) \in Seq(S) /\ Len(s) \in Nat /\ Len(Append(s, e)) = Len(s) + 1
         /\ DOMAIN s = 1 .. Len(s) /\ DOMAIN Append(s, e) = 1 .. Len(s) + 1
         /\ \A i \in 1 .. Len(s) : Append(s, e)[i] = s[i]
         /\ Append(s, e)[Len(s) + 1] = e
OBVIOUS

\* Replacing a member keeps the length and the others.
LEMMA ReplaceOne ==
  ASSUME NEW S, NEW s \in Seq(S), NEW i \in DOMAIN s, NEW e \in S
  PROVE  /\ [s EXCEPT ![i] = e] \in Seq(S) /\ Len([s EXCEPT ![i] = e]) = Len(s)
         /\ DOMAIN [s EXCEPT ![i] = e] = DOMAIN s
         /\ \A j \in DOMAIN s : j # i => [s EXCEPT ![i] = e][j] = s[j]
         /\ [s EXCEPT ![i] = e][i] = e
OBVIOUS

\* The newest note of a history that has one.
LEMMA NewestIs ==
  ASSUME ShapeInv, NewestExists, NEW i \in RunNumbers
  PROVE  IF History(i) = {} THEN NewestLabel(i) = 0
         ELSE NewestLabel(i) \in History(i) /\ \A m \in History(i) : m <= NewestLabel(i)
<1>1. CASE History(i) = {} BY <1>1 DEF NewestLabel
<1>2. CASE History(i) # {}
  <2>1. \E n \in History(i) : \A m \in History(i) : m <= n BY <1>2 DEF NewestExists
  <2> HIDE DEF History
  <2> QED BY <1>2, <2>1 DEF NewestLabel
<1> QED BY <1>1, <1>2

\* Attempts that are not fewer and notes that stay: what is said of the notes holds on.
LEMMA NotesKept ==
  ASSUME ShapeInv, NewestExists, NotesAreChain, labels' = labels, RunNumbers \subseteq RunNumbers'
  PROVE  NewestExists' /\ NotesAreChain'
<1>1. \A i : History(i)' = History(i) BY DEF History
<1>2. \A i \in RunNumbers' \ RunNumbers : History(i) = {} BY DEF ShapeInv, History
<1>3. NewestExists' BY <1>1, <1>2 DEF NewestExists
<1>4. NotesAreChain' BY <1>1 DEF NotesAreChain, History
<1> QED BY <1>3, <1>4

\* Candidates hold on as long as the failed attempts and the notes do.
LEMMA CandidatesKept ==
  ASSUME ShapeInv, CandidatesHold, UNCHANGED <<labels, candidates>>,
         \A i \in RunNumbers : IsFailure(i) => IsFailure(i)' /\ executions'[i].under = executions[i].under
  PROVE  CandidatesHold'
BY DEF ShapeInv, CandidatesHold

\* An attempt joins the others, of this engine or imported.
LEMMA JoinStep ==
  ASSUME FailInv, NEW e \in Execution, executions' = Append(executions, e), UNCHANGED <<labels, candidates>>
  PROVE  FailInv'
<1>1. /\ executions' \in Seq(Execution) /\ Len(executions) \in Nat /\ Len(executions') = Len(executions) + 1
      /\ \A i \in 1 .. Len(executions) : executions'[i] = executions[i]
  BY AppendOne DEF FailInv, ShapeInv
<1>2. RunNumbers \subseteq RunNumbers' BY <1>1 DEF RunNumbers
<1>3. ShapeInv' BY <1>1, <1>2 DEF FailInv, ShapeInv
<1>4. \A i \in RunNumbers : executions'[i] = executions[i] BY <1>1 DEF RunNumbers
<1>5. CandidatesHold' BY <1>4, CandidatesKept DEF FailInv, IsFailure, Over
<1> QED BY <1>2, <1>3, <1>5, NotesKept DEF FailInv

\* One attempt changes, which was not yet a failure or stays one.
LEMMA ChangeStep ==
  ASSUME FailInv, NEW i \in RunNumbers, NEW e \in Execution, executions' = [executions EXCEPT ![i] = e],
         e.under = executions[i].under, UNCHANGED <<labels, candidates>>,
         \/ executions[i].is.state = "running"
         \/ /\ e.is.state = executions[i].is.state /\ e.is.grade = executions[i].is.grade
            /\ e.is.clean = executions[i].is.clean
  PROVE  FailInv'
<1>0. i \in DOMAIN executions /\ DOMAIN executions = RunNumbers BY DEF FailInv, ShapeInv, RunNumbers
<1>1. /\ executions' \in Seq(Execution) /\ Len(executions') = Len(executions)
      /\ \A j \in RunNumbers : j # i => executions'[j] = executions[j]
      /\ executions'[i] = e
  BY <1>0, ReplaceOne DEF FailInv, ShapeInv
<1>2. RunNumbers' = RunNumbers BY <1>1 DEF RunNumbers
<1>3. ShapeInv' BY <1>1, <1>2 DEF FailInv, ShapeInv
<1>4. \A j \in RunNumbers : IsFailure(j) => IsFailure(j)' /\ executions'[j].under = executions[j].under
  BY <1>1 DEF IsFailure, Over
<1>5. CandidatesHold' BY <1>4, CandidatesKept DEF FailInv
<1> QED BY <1>2, <1>3, <1>5, NotesKept DEF FailInv

\* One candidate loses its fixture or gains a check; what it is about stays.
LEMMA CandidateStep ==
  ASSUME FailInv, NEW k \in DOMAIN candidates, NEW c \in Candidate, candidates' = [candidates EXCEPT ![k] = c],
         c.of = candidates[k].of, c.head = candidates[k].head, c.under = candidates[k].under,
         \A n \in DOMAIN c.checks : c.checks[n].other \in RunNumbers,
         UNCHANGED <<executions, labels>>
  PROVE  FailInv'
<1>1. /\ candidates' \in Seq(Candidate) /\ DOMAIN candidates' = DOMAIN candidates
      /\ \A j \in DOMAIN candidates : j # k => candidates'[j] = candidates[j]
      /\ candidates'[k] = c
  BY ReplaceOne DEF FailInv, ShapeInv
<1>2. \A j \in DOMAIN candidates : /\ candidates'[j].of = candidates[j].of
                                   /\ candidates'[j].head = candidates[j].head
                                   /\ candidates'[j].under = candidates[j].under
  BY <1>1
<1>3. RunNumbers' = RunNumbers BY DEF RunNumbers
<1>4. ShapeInv' BY <1>1, <1>2, <1>3 DEF FailInv, ShapeInv
<1>5. CandidatesHold' BY <1>1, <1>2 DEF FailInv, CandidatesHold, IsFailure, Over
<1> QED BY <1>3, <1>4, <1>5, NotesKept DEF FailInv

\* A note is appended under the newest one of its attempt.
LEMMA AnnotateStep ==
  ASSUME FailInv, NEW i \in RunNumbers, NEW expected \in 0 .. Len(labels), NEW cites \in BOOLEAN,
         Annotate(i, expected, cites)
  PROVE  FailInv'
<1> DEFINE note == [of |-> i, supersedes |-> expected, cites |-> cites]
           last == Len(labels) + 1
<1>1. /\ labels' = Append(labels, note) /\ expected = NewestLabel(i)
      /\ UNCHANGED <<executions, candidates>>
  BY DEF Annotate
<1>2. Len(labels) \in Nat /\ Len(executions) \in Nat BY DEF FailInv, ShapeInv
<1>3. note \in Label /\ note.of = i /\ note.supersedes = expected BY <1>2 DEF Label, RunNumbers
<1> HIDE DEF note
<1>4. /\ labels' \in Seq(Label) /\ Len(labels') = last /\ DOMAIN labels = 1 .. Len(labels)
      /\ DOMAIN labels' = 1 .. last
      /\ \A n \in 1 .. Len(labels) : labels'[n] = labels[n]
      /\ labels'[last] = note
  BY <1>1, <1>3, AppendOne DEF FailInv, ShapeInv
<1>5. RunNumbers' = RunNumbers BY <1>1 DEF RunNumbers
<1>6. ShapeInv'
  <2>1. \A n \in DOMAIN labels' : labels'[n].of \in RunNumbers
    BY <1>2, <1>3, <1>4 DEF FailInv, ShapeInv
  <2>2. \A k \in DOMAIN candidates :
          candidates[k].of \in RunNumbers /\ candidates[k].head \in 0 .. Len(labels')
    BY <1>2, <1>4 DEF FailInv, ShapeInv
  <2> QED BY <1>1, <1>4, <1>5, <2>1, <2>2 DEF FailInv, ShapeInv
<1>7. \A j : History(j)' = IF j = i THEN History(j) \cup {last} ELSE History(j)
  BY <1>2, <1>3, <1>4 DEF History
<1>8. \A j : History(j) \subseteq 1 .. Len(labels) BY <1>4 DEF History
<1>9. NewestExists'
  <2> SUFFICES ASSUME NEW j \in RunNumbers, History(j)' # {}
               PROVE  \E n \in History(j)' : \A m \in History(j)' : m <= n
    BY <1>5 DEF NewestExists
  <2>1. CASE j = i
    <3>1. last \in History(j)' /\ \A m \in History(j)' : m <= last BY <1>2, <1>7, <1>8, <2>1
    <3> QED BY <3>1
  <2>2. CASE j # i BY <1>7, <2>2 DEF FailInv, NewestExists
  <2> QED BY <2>1, <2>2
<1>10. NotesAreChain'
  <2> SUFFICES ASSUME NEW n \in 1 .. last
               PROVE  LET earlier == {m \in History(labels[n].of)' : m < n}
                      IN  IF earlier = {} THEN labels'[n].supersedes = 0
                          ELSE labels'[n].supersedes \in earlier
                               /\ \A m \in earlier : m <= labels'[n].supersedes
    BY <1>4 DEF NotesAreChain
  <2>1. CASE n = last
    <3>1. {m \in History(labels[n].of)' : m < n} = History(i)
      BY <1>2, <1>3, <1>4, <1>7, <1>8, <2>1
    <3>2. IF History(i) = {} THEN expected = 0
          ELSE expected \in History(i) /\ \A m \in History(i) : m <= expected
      BY <1>1, NewestIs DEF FailInv
    <3> QED BY <1>3, <1>4, <2>1, <3>1, <3>2
  <2>2. CASE n # last
    <3>1. n \in 1 .. Len(labels) /\ labels'[n] = labels[n] BY <1>2, <1>4, <2>2
    <3>2. {m \in History(labels[n].of)' : m < n} = {m \in History(labels[n].of) : m < n}
      BY <1>2, <1>7, <1>8, <3>1
    <3>3. LET earlier == {m \in History(labels[n].of) : m < n}
          IN  IF earlier = {} THEN labels[n].supersedes = 0
              ELSE labels[n].supersedes \in earlier /\ \A m \in earlier : m <= labels[n].supersedes
      BY <1>4, <3>1 DEF FailInv, NotesAreChain
    <3> QED BY <3>1, <3>2, <3>3
  <2> QED BY <2>1, <2>2
<1>11. CandidatesHold'
  <2>1. \A k \in DOMAIN candidates : candidates[k].head # 0 =>
          labels'[candidates[k].head] = labels[candidates[k].head]
    BY <1>2, <1>4 DEF FailInv, ShapeInv
  <2>2. \A j : IsFailure(j)' = IsFailure(j) BY <1>1 DEF IsFailure, Over
  <2> QED BY <1>1, <2>1, <2>2 DEF FailInv, CandidatesHold
<1> QED BY <1>6, <1>9, <1>10, <1>11 DEF FailInv

\* A failure becomes a candidate.
LEMMA SaveStep ==
  ASSUME FailInv, NEW i \in RunNumbers, NEW expected \in 0 .. Len(labels), SaveCandidate(i, expected)
  PROVE  FailInv'
<1> DEFINE c == [of |-> i, head |-> expected, under |-> executions[i].under,
                 after |-> Len(executions), fixture |-> TRUE, checks |-> <<>>]
<1>1. /\ candidates' = Append(candidates, c) /\ expected = NewestLabel(i) /\ IsFailure(i)
      /\ UNCHANGED <<executions, labels>>
  BY DEF SaveCandidate
<1>2. Len(labels) \in Nat /\ Len(executions) \in Nat /\ executions[i] \in Execution
  BY DEF FailInv, ShapeInv, RunNumbers
<1>3. /\ c \in Candidate /\ c.of = i /\ c.head = expected /\ c.under = executions[i].under
      /\ DOMAIN c.checks = {}
  <2>1. i \in Nat /\ expected \in Nat /\ executions[i].under \in Conditions
    BY <1>2 DEF RunNumbers, Execution
  <2>2. <<>> \in Seq(Check) OBVIOUS
  <2> QED BY <1>2, <2>1, <2>2 DEF Candidate
<1> HIDE DEF c
<1>4. /\ candidates' \in Seq(Candidate) /\ Len(candidates) \in Nat
      /\ DOMAIN candidates = 1 .. Len(candidates) /\ DOMAIN candidates' = 1 .. Len(candidates) + 1
      /\ \A k \in 1 .. Len(candidates) : candidates'[k] = candidates[k]
      /\ candidates'[Len(candidates) + 1] = c
  BY <1>1, <1>3, AppendOne DEF FailInv, ShapeInv
<1>5. \A k \in DOMAIN candidates' : \/ k \in DOMAIN candidates /\ candidates'[k] = candidates[k]
                                    \/ candidates'[k] = c
  BY <1>4
<1>6. RunNumbers' = RunNumbers BY <1>1 DEF RunNumbers
<1>7. ShapeInv' BY <1>1, <1>3, <1>4, <1>5, <1>6 DEF FailInv, ShapeInv
<1>8. expected # 0 => labels[expected].of = i
  <2>1. expected = 0 \/ expected \in History(i) BY <1>1, NewestIs DEF FailInv
  <2> QED BY <2>1 DEF History
<1>9. \A j : IsFailure(j)' = IsFailure(j) BY <1>1 DEF IsFailure, Over
<1>10. CandidatesHold' BY <1>1, <1>3, <1>5, <1>8, <1>9 DEF FailInv, CandidatesHold
<1> QED BY <1>1, <1>6, <1>7, <1>10, NotesKept DEF FailInv

\* FailInv is an invariant of the store of notes and candidates.
THEOREM Inductive == FailureSpec => []FailInv
<1>1. FailureInit => FailInv
  <2> SUFFICES ASSUME FailureInit PROVE FailInv OBVIOUS
  <2>1. executions = <<>> /\ labels = <<>> /\ candidates = <<>> BY DEF FailureInit
  <2>2. RunNumbers = {} /\ DOMAIN labels = {} /\ DOMAIN candidates = {} BY <2>1 DEF RunNumbers
  <2>3. /\ executions \in Seq(Execution) /\ labels \in Seq(Label) /\ candidates \in Seq(Candidate)
    BY <2>1
  <2> QED BY <2>2, <2>3 DEF FailInv, ShapeInv, NewestExists, NotesAreChain, CandidatesHold
<1>2. FailInv /\ [FailureNext]_failure_vars => FailInv'
  <2> SUFFICES ASSUME FailInv, [FailureNext]_failure_vars PROVE FailInv' OBVIOUS
  <2>0. \A i \in RunNumbers : executions[i] \in Execution BY DEF FailInv, ShapeInv, RunNumbers
  <2>e. ASSUME NEW g \in Graders, NEW end \in Ends(g) PROVE end \in Attempt
    <3> DEFINE Finished(grade, traced) ==
                 [state |-> "finished", clean |-> TRUE, grade |-> grade, grader |-> g, traced |-> traced,
                  evidence |-> "good"]
    <3>1. \/ end \in {Finished("pass", TRUE), Finished("fail", TRUE), Finished("fail", FALSE)}
          \/ end = [state |-> "error", clean |-> FALSE, grade |-> "none", grader |-> g, traced |-> FALSE,
                    evidence |-> "none"]
      <4>1. ASSUME NEW gt \in {<<"pass", TRUE>>, <<"fail", TRUE>>, <<"fail", FALSE>>}
            PROVE  Finished(gt[1], gt[2]) \in
                     {Finished("pass", TRUE), Finished("fail", TRUE), Finished("fail", FALSE)}
        <5>1. CASE gt = <<"pass", TRUE>> BY <5>1
        <5>2. CASE gt = <<"fail", TRUE>> BY <5>2
        <5>3. CASE gt = <<"fail", FALSE>> BY <5>3
        <5> QED BY <5>1, <5>2, <5>3
      <4>2. \/ \E gt \in {<<"pass", TRUE>>, <<"fail", TRUE>>, <<"fail", FALSE>>} : end = Finished(gt[1], gt[2])
            \/ end = [state |-> "error", clean |-> FALSE, grade |-> "none", grader |-> g, traced |-> FALSE,
                      evidence |-> "none"]
        BY Zenon DEF Ends
      <4> HIDE DEF Finished
      <4> QED BY <4>1, <4>2
    <3>2. \A grade \in {"pass", "fail"}, traced \in BOOLEAN : Finished(grade, traced) \in Attempt
      BY DEF Attempt
    <3>3. TRUE \in BOOLEAN /\ FALSE \in BOOLEAN BY Zenon
    <3>4. [state |-> "error", clean |-> FALSE, grade |-> "none", grader |-> g, traced |-> FALSE,
           evidence |-> "none"] \in Attempt
      BY <3>3 DEF Attempt
    <3> HIDE DEF Finished
    <3> QED BY <3>1, <3>2, <3>3, <3>4
  <2>1. CASE UNCHANGED failure_vars
    <3>1. UNCHANGED <<executions, labels, candidates>> BY <2>1 DEF failure_vars
    <3>2. RunNumbers' = RunNumbers BY <3>1 DEF RunNumbers
    <3>3. ShapeInv' BY <3>1, <3>2 DEF FailInv, ShapeInv
    <3>4. CandidatesHold' BY <3>1, CandidatesKept DEF FailInv, IsFailure, Over
    <3> QED BY <3>1, <3>2, <3>3, <3>4, NotesKept DEF FailInv
  <2>2. ASSUME NEW c \in Conditions, ExecutionStarts(c) PROVE FailInv'
    <3>1. [origin |-> "local", under |-> c, is |-> Starting] \in Execution
      BY DEF Execution, Attempt, Starting
    <3> QED BY <2>2, <3>1, JoinStep DEF ExecutionStarts
  <2>3. ASSUME NEW i \in RunNumbers, NEW g \in Graders, NEW end \in Ends(g), ExecutionEnds(i, end)
        PROVE  FailInv'
    <3> DEFINE e == [executions[i] EXCEPT !.is = end]
    <3>1. e \in Execution /\ e.under = executions[i].under BY <2>0, <2>e DEF Execution
    <3>2. executions' = [executions EXCEPT ![i] = e] BY <2>3 DEF ExecutionEnds
    <3>3. executions[i].is.state = "running" /\ UNCHANGED <<labels, candidates>>
      BY <2>3 DEF ExecutionEnds
    <3> HIDE DEF e
    <3> QED BY <3>1, <3>2, <3>3, ChangeStep
  <2>4. ASSUME NEW c \in Conditions, NEW g \in Graders, NEW end \in Ends(g), ExecutionImported(c, end)
        PROVE  FailInv'
    <3>1. [origin |-> "imported", under |-> c, is |-> end] \in Execution BY <2>e DEF Execution
    <3> QED BY <2>4, <3>1, JoinStep DEF ExecutionImported
  <2>5. ASSUME ArtifactLost PROVE FailInv'
    <3>1. ASSUME NEW i \in RunNumbers,
                 executions' = [executions EXCEPT ![i].is.evidence = "damaged"], UNCHANGED candidates
          PROVE  FailInv'
      <4> DEFINE e == [executions[i] EXCEPT !.is = [executions[i].is EXCEPT !.evidence = "damaged"]]
      <4>1. /\ e \in Execution /\ e.under = executions[i].under
            /\ e.is.state = executions[i].is.state /\ e.is.grade = executions[i].is.grade
            /\ e.is.clean = executions[i].is.clean
        BY <2>0 DEF Execution, Attempt
      <4>2. executions' = [executions EXCEPT ![i] = e] BY <3>1
      <4>3. UNCHANGED <<labels, candidates>> BY <2>5, <3>1 DEF ArtifactLost
      <4> HIDE DEF e
      <4> QED BY <4>1, <4>2, <4>3, ChangeStep
    <3>2. ASSUME NEW k \in DOMAIN candidates,
                 candidates' = [candidates EXCEPT ![k].fixture = FALSE], UNCHANGED executions
          PROVE  FailInv'
      <4> DEFINE c == [candidates[k] EXCEPT !.fixture = FALSE]
      <4>1. candidates[k] \in Candidate BY DEF FailInv, ShapeInv
      <4>2. /\ c \in Candidate /\ c.of = candidates[k].of /\ c.head = candidates[k].head
            /\ c.under = candidates[k].under /\ c.checks = candidates[k].checks
        BY <4>1 DEF Candidate
      <4>3. candidates' = [candidates EXCEPT ![k] = c] BY <3>2
      <4>4. UNCHANGED <<executions, labels>> BY <2>5, <3>2 DEF ArtifactLost
      <4>5. \A n \in DOMAIN c.checks : c.checks[n].other \in RunNumbers BY <4>2 DEF FailInv, ShapeInv
      <4> HIDE DEF c
      <4> QED BY <4>2, <4>3, <4>4, <4>5, CandidateStep
    <3> QED BY <2>5, <3>1, <3>2 DEF ArtifactLost
  <2>6. ASSUME NEW k \in DOMAIN candidates, NEW other \in RunNumbers, CheckReproduction(k, other)
        PROVE  FailInv'
    <3> DEFINE seen == [other |-> other, saw |-> ProvenBy(candidates[k], other)]
               c == [candidates[k] EXCEPT !.checks = Append(@, seen)]
    <3>1. candidates[k] \in Candidate BY DEF FailInv, ShapeInv
    <3>2. seen \in Check
      <4>1. ProvenBy(candidates[k], other) \in BOOLEAN BY DEF ProvenBy
      <4>2. other \in Nat BY DEF RunNumbers
      <4> HIDE DEF ProvenBy
      <4> QED BY <4>1, <4>2, Zenon DEF Check
    <3>3. /\ c \in Candidate /\ c.of = candidates[k].of /\ c.head = candidates[k].head
          /\ c.under = candidates[k].under /\ c.checks = Append(candidates[k].checks, seen)
      <4> HIDE DEF seen
      <4>1. Append(candidates[k].checks, seen) \in Seq(Check) BY <3>1, <3>2 DEF Candidate
      <4> QED BY <3>1, <4>1 DEF Candidate
    <3>5. \A n \in DOMAIN c.checks : c.checks[n].other \in RunNumbers
      <4>1. candidates[k].checks \in Seq(Check) BY <3>1 DEF Candidate
      <4>2. seen.other \in RunNumbers OBVIOUS
      <4>3. \A n \in DOMAIN candidates[k].checks : candidates[k].checks[n].other \in RunNumbers
        BY DEF FailInv, ShapeInv
      <4> HIDE DEF c, seen
      <4> QED BY <3>2, <3>3, <4>1, <4>2, <4>3, AppendOne
    <3>4. candidates' = [candidates EXCEPT ![k] = c] /\ UNCHANGED <<executions, labels>>
      BY <2>6 DEF CheckReproduction
    <3> HIDE DEF c
    <3> QED BY <3>3, <3>4, <3>5, CandidateStep
  <2> QED BY <2>1, <2>2, <2>3, <2>4, <2>5, <2>6, AnnotateStep, SaveStep DEF FailureNext
<1> QED BY <1>1, <1>2, PTL DEF FailureSpec

\* A view that says reproduced has two executions to show for it.
LEMMA ViewSound == FailInv => ReproducedIsProven
<1> SUFFICES ASSUME FailInv, NEW k \in DOMAIN candidates, CandidateView(candidates[k]) = "reproduced"
             PROVE  LET c == candidates[k]
                        other == c.checks[Len(c.checks)].other
                    IN  /\ c.fixture /\ other > c.after /\ other # c.of
                        /\ \A i \in {c.of, other} :
                             /\ executions[i].origin = "local" /\ executions[i].under = c.under
                             /\ executions[i].is.grade = "fail" /\ executions[i].is.traced
                             /\ executions[i].is.evidence = "good"
                             /\ executions[i].is.grader = executions[c.of].is.grader
  BY DEF ReproducedIsProven
<1> DEFINE c == candidates[k]
           other == c.checks[Len(c.checks)].other
<1>1. c.checks # <<>> /\ ProvenBy(c, other) BY DEF CandidateView
<1>2. /\ c \in Candidate /\ c.of \in RunNumbers /\ c.under = executions[c.of].under
      /\ \A n \in DOMAIN c.checks : c.checks[n].other \in RunNumbers
  BY DEF FailInv, ShapeInv, CandidatesHold
<1>3. other \in RunNumbers
  <2>1. c.checks \in Seq(Check) BY <1>2 DEF Candidate
  <2>2. Len(c.checks) \in DOMAIN c.checks BY <1>1, <2>1, EmptySeq, LenProperties
  <2> QED BY <1>2, <2>2
<1>4. c.after \in Nat /\ other \in Nat BY <1>2, <1>3 DEF Candidate, RunNumbers
<1>5. \A i \in RunNumbers : executions[i].origin \in {"local", "imported"}
  <2>1. \A i \in RunNumbers : executions[i] \in Execution BY DEF FailInv, ShapeInv, RunNumbers
  <2> QED BY <2>1 DEF Execution
<1> HIDE DEF c, other
<1>6. /\ c.fixture /\ executions[c.of].origin # "imported" /\ executions[other].origin # "imported"
      /\ other # c.of /\ ~(other <= c.after) /\ executions[other].under = c.under
      /\ executions[other].is.grader = executions[c.of].is.grader
      /\ \A i \in {c.of, other} : /\ executions[i].is.grade = "fail" /\ executions[i].is.traced
                                  /\ executions[i].is.evidence = "good"
  BY <1>1 DEF ProvenBy, OriginalBlocked, ReproductionBlocked, Available, GradedFail, CompleteRun
<1>7. /\ c.fixture /\ other > c.after /\ other # c.of
      /\ \A i \in {c.of, other} :
           /\ executions[i].origin = "local" /\ executions[i].under = c.under
           /\ executions[i].is.grade = "fail" /\ executions[i].is.traced
           /\ executions[i].is.evidence = "good"
           /\ executions[i].is.grader = executions[c.of].is.grader
  <2>1. other > c.after BY <1>4, <1>6
  <2>2. \A i \in {c.of, other} : executions[i].origin = "local" /\ executions[i].under = c.under
    BY <1>2, <1>3, <1>5, <1>6
  <2> QED BY <1>6, <2>1, <2>2, Zenon
<1> QED BY <1>7 DEF c, other

\* FailuresHonest for every number of attempts, notes, candidates and checks: nobody's note hides
\* one that its author did not see, and what is shown as reproduced is (annotations.py:142-264).
THEOREM Honest == FailureSpec => []FailuresHonest
<1>1. FailInv => FailuresHonest BY ViewSound DEF FailInv, FailuresHonest
<1> QED BY <1>1, Inductive, PTL

-----------------------------------------------------------------------------
(***************************************************************************)
(* Views.                                                                  *)
(***************************************************************************)

\* The types that the proof needs.
Texts == SmallTexts \cup {LargeText, "none", Directory}
Askings == {"nothing", "files", "changes", "read", "capture", "diff"}
ViewShape ==
  /\ content.revision \in Nat /\ content.files \in [ViewedPaths -> [text : Texts, stamp : Nat]]
  /\ tree \in [ViewedPaths -> [text : Texts, stamp : Nat]]
  /\ scanning \in [on : Askings, path : ViewedPaths \cup {"none"}, left : SUBSET ViewedPaths,
                   files : [ViewedPaths -> [text : Texts, stamp : Nat]], complete : BOOLEAN]
  /\ scanning.on = "read" => scanning.path \in ViewedPaths
  /\ viewer \in [revision : Nat, names : SUBSET ViewedPaths, copies : [ViewedPaths -> Texts], gap : BOOLEAN]
  /\ viewer.revision <= content.revision
  /\ made \in [writes : Nat, views : Nat]

\* An entry of the log is of a revision so far, and the last one of a file tells whether it is there.
LogInv ==
  \A e \in changeLog :
    /\ e.path \in ViewedPaths /\ e.revision \in 1 .. content.revision
    /\ (\A d \in changeLog : d.path = e.path => d.revision <= e.revision) =>
         (e.change = "deleted" <=> content.files[e.path] = NoEntry)

NoChangeSince(r, p) == \A e \in changeLog : e.path = p => e.revision <= r

\* As far as the log goes back, what did not change since a client was shown it is as it was shown.
ViewerInv ==
  ~viewer.gap /\ content.revision <= viewer.revision + KeptRevisions =>
    \A p \in ViewedPaths : NoChangeSince(viewer.revision, p) =>
      /\ p \in viewer.names <=> content.files[p] # NoEntry
      /\ viewer.copies[p] # "none" => viewer.copies[p] = content.files[p].text

\* So is what the thread was sent for.
ThreadInv ==
  thread # NoRead =>
    /\ thread.path \in ViewedPaths /\ thread.revision \in Nat /\ thread.revision <= content.revision
    /\ content.revision <= thread.revision + KeptRevisions /\ NoChangeSince(thread.revision, thread.path) =>
         content.files[thread.path] = thread.item

ViewInv == ViewShape /\ LogInv /\ ViewerInv /\ ThreadInv /\ (shown.given => before.taken) /\ DiffWhole

\* The pairs of a renaming match one to one: as many files went as came (diff).
LEMMA PairsMatch ==
  ASSUME NEW Old, NEW New, NEW pairs \in SUBSET (Old \X New), IsFiniteSet(Old),
         \A x \in pairs : \A y \in pairs : x[1] = y[1] <=> x[2] = y[2]
  PROVE  Cardinality({x[1] : x \in pairs}) = Cardinality({x[2] : x \in pairs})
<1> DEFINE A == {x[1] : x \in pairs}
           B == {x[2] : x \in pairs}
           f == [a \in A |-> CHOOSE b \in B : \E x \in pairs : x[1] = a /\ x[2] = b]
<1>1. \A x \in pairs : f[x[1]] = x[2]
  <2> SUFFICES ASSUME NEW x \in pairs PROVE f[x[1]] = x[2]
    OBVIOUS
  <2>1. x[1] \in A /\ x[2] \in B
    OBVIOUS
  <2>2. PICK y \in pairs : y[1] = x[1] /\ y[2] = f[x[1]]
    <3>1. \E b \in B : \E y \in pairs : y[1] = x[1] /\ y[2] = b
      BY <2>1
    <3>2. f[x[1]] = CHOOSE b \in B : \E y \in pairs : y[1] = x[1] /\ y[2] = b
      BY <2>1
    <3> QED
      BY <3>1, <3>2
  <2> QED
    BY <2>2
<1>2. f \in [A -> B]
  <2>1. \A a \in A : f[a] \in B
    <3> SUFFICES ASSUME NEW a \in A PROVE f[a] \in B
      OBVIOUS
    <3>1. PICK x \in pairs : x[1] = a
      OBVIOUS
    <3>2. f[a] = x[2]
      BY <1>1, <3>1
    <3> QED
      BY <3>2
  <2> HIDE DEF A, B
  <2> QED
    BY <2>1
<1>3. f \in Bijection(A, B)
  <2> HIDE DEF f
  <2>1. \A a, b \in A : f[a] = f[b] => a = b
    <3> SUFFICES ASSUME NEW a \in A, NEW b \in A, f[a] = f[b] PROVE a = b
      OBVIOUS
    <3>1. PICK x \in pairs : x[1] = a
      OBVIOUS
    <3>2. PICK y \in pairs : y[1] = b
      OBVIOUS
    <3>3. x[2] = y[2]
      BY <1>1, <3>1, <3>2
    <3> QED
      BY <3>1, <3>2, <3>3
  <2>2. \A b \in B : \E a \in A : f[a] = b
    <3> SUFFICES ASSUME NEW b \in B PROVE \E a \in A : f[a] = b
      OBVIOUS
    <3>1. PICK x \in pairs : x[2] = b
      OBVIOUS
    <3> QED
      BY <1>1, <3>1
  <2>3. DOMAIN f = A
    BY <1>2
  <2> HIDE DEF A, B
  <2> QED
    BY <1>2, <2>1, <2>2, <2>3 DEF Bijection, Injection, Surjection, IsInjective
<1>4. IsFiniteSet(A)
  <2>1. A \subseteq Old
    OBVIOUS
  <2> QED
    BY <2>1, FS_Subset
<1>5. ExistsBijection(A, B)
  BY <1>3 DEF ExistsBijection
<1> HIDE DEF A, B
<1>6. Cardinality(B) = Cardinality(A)
  BY <1>4, <1>5, FS_Bijection
<1> QED
  BY <1>6 DEF A, B

\* What a diff shows leads from the one state to the other.
LEMMA DiffIsWhole ==
  ASSUME ViewInv, Diff
  PROVE  DiffWhole'
<1> DEFINE there == FilesIn(Found)
           was == FilesIn(before.files)
           held == In(before.files)
           holds == In(Found)
           overlaid == was \cap DirectoriesIn(Found)
           replaced == DirectoriesIn(before.files) \cap there
           origin == {pair[1] : pair \in Renames}
           target == {pair[2] : pair \in Renames}
           changed == {q \in there \cap held : Found[q] # before.files[q]}
<1>1. /\ shown' = [given |-> TRUE, items |-> DiffItems, files |-> Found]
      /\ before' = before
  BY DEF Diff
<1>2. shown'.items = DiffItems /\ shown'.files = Found
  BY <1>1
<1>3. /\ Removed = was \ holds /\ Appeared = there \ held /\ Renames \subseteq Removed \X Appeared
      /\ origin \subseteq Removed /\ target \subseteq Appeared
      /\ there \subseteq ViewedPaths /\ was \subseteq ViewedPaths
      /\ was = held \ DirectoriesIn(before.files) /\ there = holds \ DirectoriesIn(Found)
      /\ DirectoriesIn(Found) \subseteq holds /\ DirectoriesIn(before.files) \subseteq held
      /\ \A p \in replaced : p \in changed
  <2>1. Removed = was \ holds /\ Appeared = there \ held
    BY DEF Removed, Appeared
  <2>2. Renames \subseteq Removed \X Appeared
    BY DEF Renames
  <2>3. there \subseteq ViewedPaths /\ was \subseteq ViewedPaths
    BY DEF In, FilesIn
  <2>4. /\ was = held \ DirectoriesIn(before.files) /\ there = holds \ DirectoriesIn(Found)
        /\ DirectoriesIn(Found) \subseteq holds /\ DirectoriesIn(before.files) \subseteq held
    BY DEF In, FilesIn, DirectoriesIn, NoEntry, Directory
  <2>5. \A p \in replaced : p \in changed
    <3> SUFFICES ASSUME NEW p \in replaced PROVE p \in there \cap held /\ Found[p] # before.files[p]
      OBVIOUS
    <3>1. before.files[p].text = Directory /\ Found[p].text # Directory
      BY DEF FilesIn, In, DirectoriesIn
    <3> QED
      BY <2>4, <3>1
  <2> QED
    BY <2>1, <2>2, <2>3, <2>4, <2>5
<1>4. \A x \in Renames : \A y \in Renames : x[1] = y[1] <=> x[2] = y[2]
  <2> SUFFICES ASSUME NEW x \in Renames, NEW y \in Renames PROVE x[1] = y[1] <=> x[2] = y[2]
    OBVIOUS
  <2>1. /\ x[1] \in Removed /\ x[2] \in Appeared /\ y[1] \in Removed /\ y[2] \in Appeared
        /\ Origins(x[2]) = {x[1]} /\ Origins(y[2]) = {y[1]}
        /\ \A other \in Appeared \ {x[2]} : Found[other].text # Found[x[2]].text
    BY DEF Renames
  <2>2. x[2] = y[2] => x[1] = y[1]
    BY <2>1
  <2>3. before.files[x[1]].text = Found[x[2]].text /\ before.files[y[1]].text = Found[y[2]].text
    BY <2>1 DEF Origins
  <2>4. x[1] = y[1] => x[2] = y[2]
    BY <2>1, <2>3
  <2> QED
    BY <2>2, <2>4
<1>5. Cardinality(origin) = Cardinality(target)
  <2>1. IsFiniteSet(Removed)
    <3>1. Removed \subseteq ViewedPaths
      BY <1>3
    <3> QED
      BY <3>1, ViewsAssumption, FS_Subset
  <2> HIDE DEF there, was, held, holds
  <2>2. Renames \in SUBSET (Removed \X Appeared)
    BY <1>3
  <2> QED
    BY <1>4, <2>1, <2>2, PairsMatch
<1> HIDE DEF there, was, held, holds, overlaid, replaced
<1>6. DiffItems = {[path |-> pair[2], previous |-> pair[1], change |-> "renamed"] : pair \in Renames}
                  \cup {[path |-> p, previous |-> "none", change |-> "created"] : p \in Appeared \ target}
                  \cup {[path |-> p, previous |-> "none", change |-> "deleted"] : p \in Removed \ origin}
                  \cup {[path |-> p, previous |-> "none", change |-> "modified"] : p \in changed}
  BY DEF DiffItems, Renamed, there, held
<1> DEFINE Under(c) == {i.path : i \in {j \in DiffItems : j.change = c}}
           Before == {i.previous : i \in {j \in DiffItems : j.change = "renamed"}}
<1>7. Under("renamed") = target /\ Before = origin
  <2>1. {j \in DiffItems : j.change = "renamed"} =
          {[path |-> pair[2], previous |-> pair[1], change |-> "renamed"] : pair \in Renames}
    BY <1>6
  <2> HIDE DEF Under, Before
  <2>2. Under("renamed") = {i.path : i \in {[path |-> pair[2], previous |-> pair[1], change |-> "renamed"] : pair \in Renames}}
    BY <2>1 DEF Under
  <2>3. Before = {i.previous : i \in {[path |-> pair[2], previous |-> pair[1], change |-> "renamed"] : pair \in Renames}}
    BY <2>1 DEF Before
  <2>4. Under("renamed") = target
    <3>1. ASSUME NEW pair \in Renames PROVE pair[2] \in Under("renamed")
      <4>1. [path |-> pair[2], previous |-> pair[1], change |-> "renamed"].path = pair[2]
        OBVIOUS
      <4> QED
        BY <2>2, <2>3, <4>1
    <3>2. ASSUME NEW x \in Under("renamed") PROVE \E pair \in Renames : x = pair[2]
      <4>1. PICK i \in {[path |-> pair[2], previous |-> pair[1], change |-> "renamed"] : pair \in Renames} : x = i.path
        BY <2>2, <2>3
      <4>2. PICK pair \in Renames : i = [path |-> pair[2], previous |-> pair[1], change |-> "renamed"]
        BY <4>1
      <4> QED
        BY <4>1, <4>2
    <3> QED
      BY <3>1, <3>2
  <2>5. Before = origin
    <3>1. ASSUME NEW pair \in Renames PROVE pair[1] \in Before
      <4>1. [path |-> pair[2], previous |-> pair[1], change |-> "renamed"].previous = pair[1]
        OBVIOUS
      <4> QED
        BY <2>2, <2>3, <4>1
    <3>2. ASSUME NEW x \in Before PROVE \E pair \in Renames : x = pair[1]
      <4>1. PICK i \in {[path |-> pair[2], previous |-> pair[1], change |-> "renamed"] : pair \in Renames} : x = i.previous
        BY <2>2, <2>3
      <4>2. PICK pair \in Renames : i = [path |-> pair[2], previous |-> pair[1], change |-> "renamed"]
        BY <4>1
      <4> QED
        BY <4>1, <4>2
    <3> QED
      BY <3>1, <3>2
  <2> QED
    BY <2>4, <2>5
<1>8. Under("created") = Appeared \ target
  <2>1. {j \in DiffItems : j.change = "created"} =
          {[path |-> p, previous |-> "none", change |-> "created"] : p \in Appeared \ target}
    BY <1>6
  <2>2. Under("created") = {i.path : i \in {[path |-> p, previous |-> "none", change |-> "created"] : p \in Appeared \ target}}
    BY <2>1
  <2> HIDE DEF target, Under
  <2>3. ASSUME NEW p \in Appeared \ target PROVE p \in Under("created")
    <3>1. [path |-> p, previous |-> "none", change |-> "created"].path = p
      OBVIOUS
    <3> QED
      BY <2>2, <3>1
  <2>4. ASSUME NEW x \in Under("created") PROVE x \in Appeared \ target
    <3>1. PICK i \in {[path |-> p, previous |-> "none", change |-> "created"] : p \in Appeared \ target} : x = i.path
      BY <2>2
    <3>2. PICK p \in Appeared \ target : i = [path |-> p, previous |-> "none", change |-> "created"]
      BY <3>1
    <3> QED
      BY <3>1, <3>2
  <2> QED
    BY <2>3, <2>4
<1>9. Under("deleted") = Removed \ origin
  <2>1. {j \in DiffItems : j.change = "deleted"} =
          {[path |-> p, previous |-> "none", change |-> "deleted"] : p \in Removed \ origin}
    BY <1>6
  <2>2. Under("deleted") = {i.path : i \in {[path |-> p, previous |-> "none", change |-> "deleted"] : p \in Removed \ origin}}
    BY <2>1
  <2> HIDE DEF origin, Under
  <2>3. ASSUME NEW p \in Removed \ origin PROVE p \in Under("deleted")
    <3>1. [path |-> p, previous |-> "none", change |-> "deleted"].path = p
      OBVIOUS
    <3> QED
      BY <2>2, <3>1
  <2>4. ASSUME NEW x \in Under("deleted") PROVE x \in Removed \ origin
    <3>1. PICK i \in {[path |-> p, previous |-> "none", change |-> "deleted"] : p \in Removed \ origin} : x = i.path
      BY <2>2
    <3>2. PICK p \in Removed \ origin : i = [path |-> p, previous |-> "none", change |-> "deleted"]
      BY <3>1
    <3> QED
      BY <3>1, <3>2
  <2> QED
    BY <2>3, <2>4
<1>10. \A p \in changed : p \in {i.path : i \in DiffItems}
  <2> SUFFICES ASSUME NEW p \in changed PROVE \E i \in DiffItems : i.path = p
    OBVIOUS
  <2>1. [path |-> p, previous |-> "none", change |-> "modified"] \in DiffItems
    BY <1>6
  <2> QED
    BY <2>1
<1>11. \A c : Under(c) \subseteq {i.path : i \in DiffItems}
  OBVIOUS
<1> HIDE DEF Under, Before
<1>12. (was \ (Under("deleted") \cup Before \cup overlaid)) \cup Under("created") \cup Under("renamed")
         \cup replaced = there
  BY <1>3, <1>7, <1>8, <1>9 DEF overlaid, replaced
<1>15. overlaid \cap ({i.path : i \in DiffItems} \cup Before) = {}
  <2>1. ASSUME NEW i \in DiffItems PROVE i.path \in there \cup Removed
    BY <1>3, <1>6
  <2> QED
    BY <1>3, <1>7, <2>1 DEF overlaid
<1>16. replaced \subseteq Under("modified")
  <2> SUFFICES ASSUME NEW p \in replaced PROVE p \in Under("modified")
    OBVIOUS
  <2>1. PICK i : i = [path |-> p, previous |-> "none", change |-> "modified"]
    OBVIOUS
  <2>2. i \in DiffItems
    BY <1>3, <1>6, <2>1
  <2>3. i.path = p /\ i.change = "modified"
    BY <2>1
  <2> QED
    BY <2>2, <2>3 DEF Under
<1>13. \A p \in there : p \in {i.path : i \in DiffItems} \/ Found[p] = before.files[p]
  <2> SUFFICES ASSUME NEW p \in there, p \notin {i.path : i \in DiffItems} PROVE Found[p] = before.files[p]
    OBVIOUS
  <2>1. p \notin Under("created") /\ p \notin Under("renamed")
    BY <1>11
  <2>2. p \in held
    BY <1>3, <1>7, <1>8, <2>1
  <2> QED
    BY <1>10, <2>2
<1>14. /\ Of("deleted")' = Under("deleted") /\ Of("created")' = Under("created")
       /\ Of("renamed")' = Under("renamed") /\ Of("modified")' = Under("modified")
       /\ Previous' = Before /\ Told' = {i.path : i \in DiffItems}
       /\ Overlaid' = overlaid /\ Replaced' = replaced
       /\ FilesIn(shown.files)' = there /\ FilesIn(before.files)' = was
  BY <1>1, <1>2 DEF Of, Previous, Under, Before, Told, Overlaid, Replaced, FilesIn, In, DirectoriesIn,
     there, was, overlaid, replaced
<1> QED
  BY <1>1, <1>2, <1>5, <1>7, <1>12, <1>13, <1>14, <1>15, <1>16 DEF DiffWhole

\* A scan that is over: the log tells what changed, as far back as it is kept (refresh).
LEMMA RefreshedTells ==
  ASSUME ViewInv, NEW what, Refreshed(what)
  PROVE  /\ content'.revision = Revision /\ content'.files = Found /\ changeLog' = Log
         /\ Revision \in Nat /\ content.revision <= Revision
         /\ Found \in [ViewedPaths -> [text : Texts, stamp : Nat]]
         /\ LogInv'
         /\ \A r \in Nat : r <= content.revision /\ Revision <= r + KeptRevisions =>
              \A p \in ViewedPaths : NoChangeSince(r, p)' => NoChangeSince(r, p) /\ Found[p] = content.files[p]
         /\ \A r \in Nat : content.revision <= Revision /\ (Revision <= r + KeptRevisions => content.revision <= r + KeptRevisions)
<1>1. /\ content' = [revision |-> Revision, files |-> Found] /\ changeLog' = Log
      /\ content.revision \in Nat /\ Found \in [ViewedPaths -> [text : Texts, stamp : Nat]]
      /\ content.files \in [ViewedPaths -> [text : Texts, stamp : Nat]]
      /\ KeptRevisions \in Nat /\ KeptRevisions > 0
  BY ViewsAssumption DEF Refreshed, Found, ViewInv, ViewShape
<1>2. /\ content'.revision = Revision /\ content'.files = Found /\ changeLog' = Log
  BY <1>1
<1>3. PICK old \in Nat, k \in Nat : old = content.revision /\ k = KeptRevisions /\ k > 0
  BY <1>1
<1>4. PICK new \in Nat : new = Revision /\ old <= new /\ (Changed # {} => new = old + 1)
  BY <1>3 DEF Revision
<1> DEFINE entries == {[revision |-> new, path |-> p, change |-> Change(p)] : p \in Changed}
<1>5. Log = {e \in changeLog \cup entries : new <= e.revision + k}
  <2>1. Log = {e \in changeLog \cup {[revision |-> Revision, path |-> p, change |-> Change(p)] : p \in Changed} :
                 e.revision + KeptRevisions >= Revision}
    BY DEF Log
  <2>2. \A e \in changeLog \cup entries : e.revision + k >= new <=> new <= e.revision + k
    <3>1. \A e \in changeLog \cup entries : e.revision \in Nat
      <4>1. \A e \in changeLog : e.revision \in Nat
        BY <1>3 DEF ViewInv, LogInv
      <4>2. \A e \in entries : e.revision = new
        OBVIOUS
      <4> QED
        BY <4>1, <4>2
    <3> QED
      BY <3>1
  <2> QED
    BY <1>3, <1>4, <2>1, <2>2
<1>6. \A e \in entries : /\ e.revision = new /\ new = old + 1 /\ e.path \in Changed /\ e.path \in ViewedPaths
                         /\ e.change = Change(e.path)
  <2> SUFFICES ASSUME NEW p \in Changed
               PROVE  LET e == [revision |-> new, path |-> p, change |-> Change(p)] IN
                      /\ e.revision = new /\ new = old + 1 /\ e.path \in Changed /\ e.path \in ViewedPaths
                      /\ e.change = Change(e.path)
    OBVIOUS
  <2>1. p \in ViewedPaths /\ Changed # {}
    BY DEF Changed
  <2> QED
    BY <1>4, <2>1
<1>7. \A p \in Changed : [revision |-> new, path |-> p, change |-> Change(p)] \in Log
  <2> SUFFICES ASSUME NEW p \in Changed PROVE [revision |-> new, path |-> p, change |-> Change(p)] \in Log
    OBVIOUS
  <2>1. [revision |-> new, path |-> p, change |-> Change(p)] \in entries
    OBVIOUS
  <2>2. new <= new + k
    OBVIOUS
  <2> QED
    BY <1>5, <2>1, <2>2
<1>8. \A e \in changeLog : /\ e.path \in ViewedPaths /\ e.revision \in Nat /\ 1 <= e.revision /\ e.revision <= old
                           /\ (\A d \in changeLog : d.path = e.path => d.revision <= e.revision) =>
                                (e.change = "deleted" <=> content.files[e.path] = NoEntry)
  BY <1>3 DEF ViewInv, LogInv
<1> HIDE DEF entries
<1>9. ASSUME NEW e \in Log
      PROVE  /\ e.path \in ViewedPaths /\ e.revision \in 1 .. new
             /\ (\A d \in Log : d.path = e.path => d.revision <= e.revision) =>
                  (e.change = "deleted" <=> Found[e.path] = NoEntry)
  <2>1. CASE e \in entries
    <3>1. e.change = Change(e.path) /\ e.path \in ViewedPaths /\ Found[e.path] # content.files[e.path]
      BY <1>6, <2>1 DEF Changed
    <3>2. e.change = "deleted" <=> Found[e.path] = NoEntry
      BY <3>1 DEF Change
    <3>3. e.revision \in 1 .. new
      BY <1>6, <2>1
    <3> QED
      BY <3>1, <3>2, <3>3
  <2>2. CASE e \in changeLog
    <3>1. e.path \in ViewedPaths /\ e.revision \in Nat /\ 1 <= e.revision /\ e.revision <= old /\ new <= e.revision + k
      BY <1>5, <1>8, <2>2
    <3>2. ASSUME \A d \in Log : d.path = e.path => d.revision <= e.revision
          PROVE  e.change = "deleted" <=> Found[e.path] = NoEntry
      <4>1. e.path \notin Changed
        <5>1. SUFFICES ASSUME e.path \in Changed PROVE FALSE
          OBVIOUS
        <5>2. PICK d \in Log : d = [revision |-> new, path |-> e.path, change |-> Change(e.path)]
          BY <1>7, <5>1
        <5>3. d.path = e.path /\ d.revision = new
          BY <5>2
        <5>4. new <= e.revision
          BY <3>2, <5>3
        <5>5. new = old + 1
          BY <1>4, <5>1
        <5> QED
          BY <3>1, <5>4, <5>5
      <4>2. Found[e.path] = content.files[e.path]
        BY <3>1, <4>1 DEF Changed
      <4>3. \A d \in changeLog : d.path = e.path => d.revision <= e.revision
        <5> SUFFICES ASSUME NEW d \in changeLog, d.path = e.path, ~(d.revision <= e.revision) PROVE FALSE
          OBVIOUS
        <5>1. d.revision \in Nat
          BY <1>8
        <5>2. new <= d.revision + k
          BY <3>1, <5>1
        <5>3. d \in Log
          BY <1>5, <5>2
        <5> QED
          BY <3>2, <5>3
      <4> QED
        BY <1>8, <2>2, <4>2, <4>3
    <3>3. e.revision \in 1 .. new
      BY <1>4, <3>1
    <3> QED
      BY <3>1, <3>2, <3>3
  <2> QED
    BY <1>5, <2>1, <2>2
<1>10. LogInv'
  BY <1>2, <1>4, <1>9 DEF LogInv
<1>11. ASSUME NEW r \in Nat, r <= old, new <= r + k, NEW p \in ViewedPaths,
              \A e \in Log : e.path = p => e.revision <= r
       PROVE  NoChangeSince(r, p) /\ Found[p] = content.files[p]
  <2>1. ASSUME NEW e \in changeLog, e.path = p, ~(e.revision <= r) PROVE FALSE
    <3>1. e.revision \in Nat
      BY <1>8
    <3>2. new <= e.revision + k
      BY <1>11, <2>1, <3>1
    <3>3. e \in Log
      BY <1>5, <3>2
    <3> QED
      BY <1>11, <2>1, <3>3
  <2>2. p \notin Changed
    <3>1. SUFFICES ASSUME p \in Changed PROVE FALSE
      OBVIOUS
    <3>2. PICK d \in Log : d = [revision |-> new, path |-> p, change |-> Change(p)]
      BY <1>7, <3>1
    <3>3. d.path = p /\ d.revision = new
      BY <3>2
    <3>4. new <= r /\ new = old + 1
      BY <1>4, <1>11, <3>1, <3>3
    <3> QED
      BY <1>11, <3>4
  <2> QED
    BY <2>1, <2>2 DEF NoChangeSince, Changed
<1>12. \A r \in Nat : r <= old /\ new <= r + k =>
              \A p \in ViewedPaths : NoChangeSince(r, p)' => NoChangeSince(r, p) /\ Found[p] = content.files[p]
  <2> SUFFICES ASSUME NEW r \in Nat, r <= old, new <= r + k, NEW p \in ViewedPaths, NoChangeSince(r, p)'
               PROVE  NoChangeSince(r, p) /\ Found[p] = content.files[p]
    OBVIOUS
  <2>1. \A e \in Log : e.path = p => e.revision <= r
    BY <1>2 DEF NoChangeSince
  <2> QED
    BY <1>11, <2>1
<1>13. \A r \in Nat : new <= r + k => old <= r + k
  BY <1>3, <1>4
<1> QED
  BY <1>1, <1>2, <1>3, <1>4, <1>10, <1>12, <1>13

\* What was shown before a scan is, after it, still what did not change.
LEMMA RefreshKeeps ==
  ASSUME ViewInv, NEW what, Refreshed(what)
  PROVE  /\ viewer' = viewer => ViewerInv'
         /\ thread' = thread => ThreadInv'
<1>1. viewer.revision \in Nat /\ viewer.revision <= content.revision
  BY DEF ViewInv, ViewShape
<1>2. ASSUME viewer' = viewer PROVE ViewerInv'
  <2>1. ASSUME ~viewer.gap, Revision <= viewer.revision + KeptRevisions, NEW p \in ViewedPaths,
               NoChangeSince(viewer.revision, p)'
        PROVE  /\ p \in viewer.names <=> Found[p] # NoEntry
               /\ viewer.copies[p] # "none" => viewer.copies[p] = Found[p].text
    <3>1. PICK r \in Nat : r = viewer.revision
      BY <1>1
    <3>2. NoChangeSince(r, p)'
      BY <1>2, <2>1, <3>1
    <3>3. NoChangeSince(r, p) /\ Found[p] = content.files[p] /\ content.revision <= r + KeptRevisions
      BY <1>1, <2>1, <3>1, <3>2, RefreshedTells
    <3> QED
      BY <2>1, <3>1, <3>3 DEF ViewInv, ViewerInv
  <2>2. content'.revision = Revision /\ content'.files = Found
    BY RefreshedTells
  <2> QED
    BY <1>2, <2>1, <2>2 DEF ViewerInv
<1>3. ASSUME thread' = thread PROVE ThreadInv'
  <2>1. CASE thread = NoRead
    BY <1>3, <2>1 DEF ThreadInv, NoRead, NoEntry
  <2>2. CASE thread # NoRead
    <3>1. PICK r \in Nat, p \in ViewedPaths : r = thread.revision /\ p = thread.path /\ r <= content.revision
      BY <2>2 DEF ViewInv, ThreadInv
    <3>2. content'.revision = Revision /\ content'.files = Found /\ Revision \in Nat /\ content.revision <= Revision
          /\ content.revision \in Nat
      BY RefreshedTells DEF ViewInv, ViewShape
    <3>3. ASSUME Revision <= r + KeptRevisions, NoChangeSince(r, p)' PROVE Found[p] = thread.item
      <4>1. NoChangeSince(r, p) /\ Found[p] = content.files[p] /\ content.revision <= r + KeptRevisions
        BY <3>1, <3>3, RefreshedTells
      <4> QED
        BY <2>2, <3>1, <4>1 DEF ViewInv, ThreadInv
    <3>4. r <= Revision
      BY <3>1, <3>2
    <3>5. thread'.revision = r /\ thread'.path = p /\ thread'.item = thread.item
      BY <1>3, <3>1
    <3>6. content'.revision <= r + KeptRevisions /\ NoChangeSince(r, p)' => content'.files[p] = thread.item
      BY <3>2, <3>3
    <3> QED
      BY <3>1, <3>2, <3>4, <3>5, <3>6 DEF ThreadInv
  <2> QED
    BY <2>1, <2>2
<1> QED
  BY <1>2, <1>3

\* Neither the log nor what a scan found changes, nor what a client and a thread hold.
LEMMA ViewsStay ==
  ASSUME ViewInv, UNCHANGED <<content, changeLog, thread, viewer>>
  PROVE  LogInv' /\ ViewerInv' /\ ThreadInv'
<1>1. \A r, p : NoChangeSince(r, p)' <=> NoChangeSince(r, p)
  BY DEF NoChangeSince
<1>2. LogInv'
  BY DEF ViewInv, LogInv
<1>3. ViewerInv'
  <2>1. ASSUME ~viewer.gap, content.revision <= viewer.revision + KeptRevisions, NEW p \in ViewedPaths,
               NoChangeSince(viewer.revision, p)'
        PROVE  /\ p \in viewer.names <=> content.files[p] # NoEntry
               /\ viewer.copies[p] # "none" => viewer.copies[p] = content.files[p].text
    <3>1. PICK r : r = viewer.revision
      OBVIOUS
    <3>2. NoChangeSince(r, p)'
      BY <2>1, <3>1
    <3>3. NoChangeSince(r, p)
      BY <1>1, <3>2
    <3> QED
      BY <2>1, <3>1, <3>3 DEF ViewInv, ViewerInv
  <2> QED
    BY <2>1 DEF ViewerInv
<1>4. ThreadInv'
  <2>1. CASE thread = NoRead
    BY <2>1 DEF ThreadInv, NoRead, NoEntry
  <2>2. CASE thread # NoRead
    <3>1. PICK r \in Nat, p \in ViewedPaths : r = thread.revision /\ p = thread.path /\ r <= content.revision
      BY <2>2 DEF ViewInv, ThreadInv
    <3>2. content.revision <= r + KeptRevisions /\ NoChangeSince(r, p)' => content.files[p] = thread.item
      BY <1>1, <2>2, <3>1 DEF ViewInv, ThreadInv
    <3>3. thread'.revision = r /\ thread'.path = p /\ thread'.item = thread.item /\ content' = content
      BY <3>1
    <3> QED
      BY <3>1, <3>2, <3>3 DEF ThreadInv
  <2> QED
    BY <2>1, <2>2
<1> QED
  BY <1>2, <1>3, <1>4

\* What a diff showed stays whole.
LEMMA DiffStays == ASSUME DiffWhole, UNCHANGED <<shown, before>> PROVE DiffWhole'
<1>1. \A c : Of(c)' = Of(c)
  BY DEF Of
<1>2. /\ Previous' = Previous /\ Told' = Told /\ Overlaid' = Overlaid /\ Replaced' = Replaced
      /\ FilesIn(shown.files)' = FilesIn(shown.files) /\ FilesIn(before.files)' = FilesIn(before.files)
  BY DEF Previous, Told, Overlaid, Replaced, FilesIn, DirectoriesIn, In
<1>3. /\ Of("deleted")' = Of("deleted") /\ Of("created")' = Of("created")
      /\ Of("renamed")' = Of("renamed") /\ Of("modified")' = Of("modified")
  BY <1>1
<1> QED
  BY <1>2, <1>3 DEF DiffWhole

\* What may stand in the workspace, or be found there, is an entry.
LEMMA EntryIs ==
  ASSUME ViewShape, NEW p \in ViewedPaths, ChangesTree(p)
  PROVE  /\ tree' \in [ViewedPaths -> [text : Texts, stamp : Nat]] /\ made' \in [writes : Nat, views : Nat]
<1>1. made \in [writes : Nat, views : Nat] /\ tree \in [ViewedPaths -> [text : Texts, stamp : Nat]]
  BY DEF ViewShape
<1>2. PICK entry \in Entries : tree' = [tree EXCEPT ![p] = entry]
  BY DEF ChangesTree
<1>3. entry \in [text : Texts, stamp : Nat]
  BY <1>1, <1>2 DEF Entries, NoEntry, Texts
<1>4. made' = [made EXCEPT !.writes = @ + 1]
  BY DEF ChangesTree
<1>5. made' \in [writes : Nat, views : Nat]
  BY <1>1, <1>4
<1> QED
  BY <1>1, <1>2, <1>3, <1>5

\* Writes of others, and the scan itself.
LEMMA ScanSteps ==
  ASSUME ViewInv,
         \/ OthersChange \/ ScanCut
         \/ \E what \in {"files", "changes", "capture", "diff"} : AskView(what, "none")
         \/ \E p \in ViewedPaths : ScanFile(p) \/ ScanRaced(p) \/ AskView("read", p)
  PROVE  ViewInv'
<1> DEFINE Scans == [on : Askings, path : ViewedPaths \cup {"none"}, left : SUBSET ViewedPaths,
                     files : [ViewedPaths -> [text : Texts, stamp : Nat]], complete : BOOLEAN]
<1>1. /\ tree \in [ViewedPaths -> [text : Texts, stamp : Nat]] /\ made \in [writes : Nat, views : Nat]
      /\ scanning \in Scans /\ (scanning.on = "read" => scanning.path \in ViewedPaths)
  BY DEF ViewInv, ViewShape
<1>2. /\ UNCHANGED <<content, changeLog, thread, before, shown, viewer>>
      /\ tree' \in [ViewedPaths -> [text : Texts, stamp : Nat]] /\ made' \in [writes : Nat, views : Nat]
      /\ scanning' \in Scans /\ (scanning'.on = "read" => scanning'.path \in ViewedPaths)
  <2>1. CASE OthersChange
    BY <1>1, <2>1, EntryIs DEF OthersChange, ViewInv
  <2>2. CASE ScanCut
    BY <1>1, <2>2 DEF ScanCut
  <2>3. ASSUME NEW what \in Askings, NEW p \in ViewedPaths \cup {"none"}, AskView(what, p),
               what = "read" => p \in ViewedPaths
        PROVE  <1>2
    <3>1. NoTree \in [ViewedPaths -> [text : Texts, stamp : Nat]]
      BY DEF NoTree, NoEntry, Texts
    <3>2. scanning' = [on |-> what, path |-> p, left |-> ViewedPaths, files |-> NoTree, complete |-> TRUE]
      BY <2>3 DEF AskView, NoScan
    <3>3. scanning' \in Scans /\ scanning'.on = what /\ scanning'.path = p
      BY <3>1, <3>2
    <3>4. made' \in [writes : Nat, views : Nat]
      <4>1. made' = [made EXCEPT !.views = @ + 1]
        BY <2>3 DEF AskView
      <4>2. made \in [writes : Nat, views : Nat]
        BY <1>1
      <4> QED
        BY ONLY <4>1, <4>2
    <3> QED
      BY <1>1, <2>3, <3>3, <3>4 DEF AskView
  <2>4. ASSUME NEW p \in ViewedPaths, ScanFile(p) PROVE <1>2
    <3>1. tree[p] \in [text : Texts, stamp : Nat]
      BY <1>1
    <3>2. scanning' = [scanning EXCEPT !.left = scanning.left \ {p}, !.files = [scanning.files EXCEPT ![p] = tree[p]]]
      BY <1>1, <2>4 DEF ScanFile
    <3>3. [scanning.files EXCEPT ![p] = tree[p]] \in [ViewedPaths -> [text : Texts, stamp : Nat]]
      BY <1>1, <3>1
    <3>4. scanning' \in Scans /\ scanning'.on = scanning.on /\ scanning'.path = scanning.path
      BY <1>1, <3>2, <3>3
    <3> QED
      BY <1>1, <2>4, <3>4 DEF ScanFile
  <2>5. ASSUME NEW p \in ViewedPaths, ScanRaced(p) PROVE <1>2
    BY <1>1, <2>5, EntryIs DEF ScanRaced, ViewInv
  <2>6. CASE \E what \in {"files", "changes", "capture", "diff"} : AskView(what, "none")
    BY <2>3, <2>6 DEF Askings
  <2>7. CASE \E p \in ViewedPaths : AskView("read", p)
    BY <2>3, <2>7 DEF Askings
  <2> QED
    BY <2>1, <2>2, <2>4, <2>5, <2>6, <2>7
<1>3. LogInv' /\ ViewerInv' /\ ThreadInv' /\ DiffWhole'
  BY <1>2, ViewsStay, DiffStays DEF ViewInv
<1>4. ViewShape'
  BY <1>2 DEF ViewInv, ViewShape
<1> QED
  BY <1>2, <1>3, <1>4 DEF ViewInv

\* The end of a scan leaves everything in its type but what the answer changes.
LEMMA RefreshedShape ==
  ASSUME ViewInv, NEW what, Refreshed(what)
  PROVE  /\ content'.revision \in Nat /\ content'.files \in [ViewedPaths -> [text : Texts, stamp : Nat]]
         /\ UNCHANGED <<tree, made>> /\ scanning' = NoScan
         /\ scanning' \in [on : Askings, path : ViewedPaths \cup {"none"}, left : SUBSET ViewedPaths,
                           files : [ViewedPaths -> [text : Texts, stamp : Nat]], complete : BOOLEAN]
         /\ scanning'.on = "nothing"
<1>1. NoTree \in [ViewedPaths -> [text : Texts, stamp : Nat]]
  BY DEF NoTree, NoEntry, Texts
<1>2. /\ scanning' = NoScan /\ UNCHANGED <<tree, made>>
  BY DEF Refreshed
<1>3. content'.revision \in Nat /\ content'.files \in [ViewedPaths -> [text : Texts, stamp : Nat]]
  BY RefreshedTells
<1>4. NoScan \in [on : Askings, path : ViewedPaths \cup {"none"}, left : SUBSET ViewedPaths,
                  files : [ViewedPaths -> [text : Texts, stamp : Nat]], complete : BOOLEAN]
      /\ NoScan.on = "nothing"
  BY <1>1 DEF NoScan, Askings
<1> QED
  BY <1>2, <1>3, <1>4

\* files: everything anew.
LEMMA FilesStep == ASSUME ViewInv, Files PROVE ViewInv'
<1>1. Refreshed("files") /\ UNCHANGED <<thread, before, shown>>
  BY DEF Files
<1>2. PICK r \in Nat : r = Revision /\ content'.revision = r /\ content'.files = Found
  BY <1>1, RefreshedTells
<1>3. viewer' = [revision |-> r, names |-> In(Found), copies |-> [p \in ViewedPaths |-> "none"],
                 gap |-> ~scanning.complete]
  BY <1>2 DEF Files, NotShown
<1>4. /\ viewer' \in [revision : Nat, names : SUBSET ViewedPaths, copies : [ViewedPaths -> Texts], gap : BOOLEAN]
      /\ viewer'.revision = r /\ viewer'.names = In(Found) /\ viewer'.copies = [p \in ViewedPaths |-> "none"]
  <2>1. In(Found) \in SUBSET ViewedPaths /\ [p \in ViewedPaths |-> "none"] \in [ViewedPaths -> Texts]
    BY DEF In, Texts
  <2>2. scanning.complete \in BOOLEAN
    BY DEF ViewInv, ViewShape
  <2> QED
    BY <1>3, <2>1, <2>2
<1>5. ViewShape'
  BY <1>1, <1>2, <1>4, RefreshedShape DEF ViewInv, ViewShape
<1>6. ViewerInv'
  <2>1. \A p \in ViewedPaths : (p \in In(Found) <=> Found[p] # NoEntry) /\ [q \in ViewedPaths |-> "none"][p] = "none"
    BY DEF In
  <2> QED
    BY <1>2, <1>4, <2>1 DEF ViewerInv
<1>7. LogInv' /\ ThreadInv'
  BY <1>1, RefreshedTells, RefreshKeeps
<1> QED
  BY <1>1, <1>5, <1>6, <1>7, DiffStays DEF ViewInv

\* capture and diff: the client learns nothing of the files.
LEMMA OtherAnswers == ASSUME ViewInv, Capture \/ Diff PROVE ViewInv'
<1>1. /\ Refreshed("capture") \/ Refreshed("diff")
      /\ UNCHANGED <<thread, viewer, before>> /\ (shown' = shown \/ (Diff /\ before.taken))
  BY DEF Capture, Diff
<1>2. LogInv' /\ ViewerInv' /\ ThreadInv'
  BY <1>1, RefreshedTells, RefreshKeeps
<1>3. ViewShape'
  <2>1. /\ content'.revision \in Nat /\ content'.files \in [ViewedPaths -> [text : Texts, stamp : Nat]]
        /\ UNCHANGED <<tree, made>>
        /\ scanning' \in [on : Askings, path : ViewedPaths \cup {"none"}, left : SUBSET ViewedPaths,
                          files : [ViewedPaths -> [text : Texts, stamp : Nat]], complete : BOOLEAN]
        /\ scanning'.on = "nothing"
    BY <1>1, RefreshedShape
  <2>2. viewer'.revision <= content'.revision
    <3>1. content'.revision = Revision /\ Revision \in Nat /\ content.revision <= Revision
      BY <1>1, RefreshedTells
    <3> QED
      BY <1>1, <3>1 DEF ViewInv, ViewShape
  <2> QED
    BY <1>1, <2>1, <2>2 DEF ViewInv, ViewShape
<1>4. DiffWhole' /\ (shown'.given => before'.taken)
  BY <1>1, DiffIsWhole, DiffStays DEF ViewInv
<1> QED
  BY <1>2, <1>3, <1>4 DEF ViewInv

\* read_file: the thread is sent for what was found at this revision.
LEMMA ReadFileStep == ASSUME ViewInv, ReadFile PROVE ViewInv'
<1>1. Refreshed("read") /\ UNCHANGED <<viewer, before, shown>> /\ scanning.on = "read"
  BY DEF ReadFile, Refreshed
<1>2. PICK r \in Nat : r = Revision /\ content'.revision = r /\ content'.files = Found
  BY <1>1, RefreshedTells
<1>3. ViewShape'
  <2>1. viewer'.revision <= content'.revision
    <3>1. content'.revision = Revision /\ Revision \in Nat /\ content.revision <= Revision
      BY <1>1, RefreshedTells
    <3> QED
      BY <1>1, <3>1 DEF ViewInv, ViewShape
  <2> QED
    BY <1>1, <2>1, RefreshedShape DEF ViewInv, ViewShape
<1>4. ThreadInv'
  <2>1. CASE thread' = thread
    BY <1>1, <2>1, RefreshKeeps
  <2>2. CASE thread' # thread
    <3>1. thread' = [path |-> scanning.path, item |-> Found[scanning.path], revision |-> r]
      BY <1>2, <2>2 DEF ReadFile
    <3>2. scanning.path \in ViewedPaths
      BY <1>1 DEF ViewInv, ViewShape
    <3>3. thread'.path = scanning.path /\ thread'.item = Found[scanning.path] /\ thread'.revision = r
      BY <3>1
    <3> QED
      BY <1>2, <3>2, <3>3 DEF ThreadInv
  <2> QED
    BY <2>1, <2>2
<1>5. LogInv' /\ ViewerInv' /\ DiffWhole'
  BY <1>1, RefreshedTells, RefreshKeeps, DiffStays DEF ViewInv
<1> QED
  BY <1>1, <1>3, <1>4, <1>5 DEF ViewInv

\* The thread reads: what it read counts if it is what was found, and the client still there.
LEMMA ThreadStep == ASSUME ViewInv, ReadInThread PROVE ViewInv'
<1>1. /\ thread # NoRead /\ thread' = NoRead
      /\ UNCHANGED <<tree, content, changeLog, scanning, capturing, before, shown, made>>
  BY DEF ReadInThread
<1>2. /\ viewer \in [revision : Nat, names : SUBSET ViewedPaths, copies : [ViewedPaths -> Texts], gap : BOOLEAN]
      /\ tree \in [ViewedPaths -> [text : Texts, stamp : Nat]] /\ viewer.revision <= content.revision
  BY DEF ViewInv, ViewShape
<1>3. PICK p \in ViewedPaths : p = thread.path
  BY <1>1 DEF ViewInv, ThreadInv
<1>4. \/ viewer' = viewer
      \/ /\ Same(thread.item, tree[p]) /\ viewer.revision = thread.revision
         /\ viewer' = [viewer EXCEPT !.copies = [viewer.copies EXCEPT ![p] = tree[p].text]]
  BY <1>2, <1>3 DEF ReadInThread
<1>5. PICK copies \in [ViewedPaths -> Texts] :
        /\ viewer'.copies = copies
        /\ \A q \in ViewedPaths :
             copies[q] = viewer.copies[q]
             \/ (q = p /\ Same(thread.item, tree[p]) /\ viewer.revision = thread.revision /\ copies[q] = tree[p].text)
        /\ viewer' \in [revision : Nat, names : SUBSET ViewedPaths, copies : [ViewedPaths -> Texts], gap : BOOLEAN]
        /\ viewer'.revision = viewer.revision /\ viewer'.names = viewer.names /\ viewer'.gap = viewer.gap
  <2>1. CASE viewer' = viewer
    BY <1>2, <2>1
  <2>2. CASE /\ Same(thread.item, tree[p]) /\ viewer.revision = thread.revision
             /\ viewer' = [viewer EXCEPT !.copies = [viewer.copies EXCEPT ![p] = tree[p].text]]
    <3>1. tree[p].text \in Texts
      BY <1>2
    <3>2. [viewer.copies EXCEPT ![p] = tree[p].text] \in [ViewedPaths -> Texts]
      BY <1>2, <3>1
    <3>3. PICK copies \in [ViewedPaths -> Texts] : copies = [viewer.copies EXCEPT ![p] = tree[p].text]
      BY <3>2
    <3>4. \A q \in ViewedPaths : copies[q] = IF q = p THEN tree[p].text ELSE viewer.copies[q]
      BY <1>2, <3>3
    <3>5. /\ viewer'.copies = copies
          /\ viewer' \in [revision : Nat, names : SUBSET ViewedPaths, copies : [ViewedPaths -> Texts], gap : BOOLEAN]
          /\ viewer'.revision = viewer.revision /\ viewer'.names = viewer.names /\ viewer'.gap = viewer.gap
      BY <1>2, <2>2, <3>3
    <3> QED
      BY <2>2, <3>4, <3>5
  <2> QED
    BY <1>4, <2>1, <2>2
<1>6. \A r, q : NoChangeSince(r, q)' <=> NoChangeSince(r, q)
  BY <1>1 DEF NoChangeSince
<1>7. ViewerInv'
  <2>1. ASSUME ~viewer.gap, content.revision <= viewer.revision + KeptRevisions, NEW q \in ViewedPaths,
               NoChangeSince(viewer.revision, q)
        PROVE  /\ q \in viewer.names <=> content.files[q] # NoEntry
               /\ copies[q] # "none" => copies[q] = content.files[q].text
    <3>1. /\ q \in viewer.names <=> content.files[q] # NoEntry
          /\ viewer.copies[q] # "none" => viewer.copies[q] = content.files[q].text
      BY <2>1 DEF ViewInv, ViewerInv
    <3>2. CASE copies[q] = viewer.copies[q]
      BY <3>1, <3>2
    <3>3. CASE q = p /\ Same(thread.item, tree[p]) /\ viewer.revision = thread.revision /\ copies[q] = tree[p].text
      <4>1. content.files[p] = thread.item
        BY <1>1, <1>3, <2>1, <3>3 DEF ViewInv, ThreadInv
      <4>2. tree[p].text = thread.item.text
        BY <3>3 DEF Same
      <4> QED
        BY <3>1, <3>3, <4>1, <4>2
    <3> QED
      BY <1>5, <3>2, <3>3
  <2>2. PICK r : r = viewer.revision
    OBVIOUS
  <2>3. \A q : NoChangeSince(viewer.revision, q)' <=> NoChangeSince(viewer.revision, q)
    <3>1. viewer'.revision = r
      BY <1>5, <2>2
    <3>2. \A q : NoChangeSince(r, q)' <=> NoChangeSince(r, q)
      BY <1>6
    <3> QED
      BY <2>2, <3>1, <3>2
  <2> QED
    BY <1>1, <1>5, <2>1, <2>3 DEF ViewerInv
<1>8. ThreadInv'
  BY <1>1 DEF ThreadInv, NoRead, NoEntry
<1>9. LogInv'
  BY <1>1 DEF ViewInv, LogInv
<1>10. ViewShape'
  BY <1>1, <1>2, <1>5 DEF ViewInv, ViewShape
<1> QED
  BY <1>1, <1>7, <1>8, <1>9, <1>10, DiffStays DEF ViewInv

\* The record of the state before a turn: nobody was shown a difference to it yet.
LEMMA RecordStep == ASSUME ViewInv, CaptureRecorded PROVE ViewInv'
<1>1. /\ UNCHANGED <<tree, content, changeLog, scanning, thread, shown, viewer, made>>
      /\ before.taken => before' = before
  BY DEF CaptureRecorded
<1>2. LogInv' /\ ViewerInv' /\ ThreadInv'
  BY <1>1, ViewsStay
<1>3. DiffWhole' /\ (shown'.given => before'.taken)
  <2>1. CASE shown.given
    BY <1>1, <2>1, DiffStays DEF ViewInv
  <2>2. CASE ~shown.given
    BY <1>1, <2>2 DEF DiffWhole
  <2> QED
    BY <2>1, <2>2
<1>4. ViewShape'
  BY <1>1 DEF ViewInv, ViewShape
<1> QED
  BY <1>2, <1>3, <1>4 DEF ViewInv

\* Of what changed to a file the last is there, if anything did.
LEMMA LastChange ==
  ASSUME NEW n \in Nat, NEW E, NEW e0 \in E, \A e \in E : e.revision \in 1 .. n
  PROVE  \E e \in E : \A d \in E : d.revision <= e.revision
<1> DEFINE M == {n - e.revision : e \in E}
<1>1. M \in SUBSET Nat /\ M # {}
  <2>1. \A e \in E : n - e.revision \in Nat
    OBVIOUS
  <2> QED
    BY <2>1
<1>2. PICK m \in M : \A k \in M : m <= k
  <2> HIDE DEF M
  <2> QED
    BY <1>1, LeastOf
<1>3. PICK e \in E : m = n - e.revision
  OBVIOUS
<1>4. \A d \in E : d.revision <= e.revision
  <2> SUFFICES ASSUME NEW d \in E PROVE d.revision <= e.revision
    OBVIOUS
  <2>1. n - d.revision \in M /\ d.revision \in 1 .. n /\ e.revision \in 1 .. n
    OBVIOUS
  <2>2. n - e.revision <= n - d.revision
    BY <1>2, <1>3, <2>1
  <2> QED
    BY <2>1, <2>2
<1> QED
  BY <1>4

\* changes: a client that follows is brought up to date, or told that the log does not go back.
LEMMA ChangesStep == ASSUME ViewInv, Changes PROVE ViewInv'
<1>1. Refreshed("changes") /\ UNCHANGED <<thread, before, shown>>
  BY DEF Changes
<1>2. PICK n \in Nat, r \in Nat : /\ n = Revision /\ content'.revision = n /\ content'.files = Found /\ changeLog' = Log
                                  /\ r = viewer.revision /\ r <= content.revision
                                  /\ content.revision \in Nat /\ content.revision <= n
  BY <1>1, RefreshedTells DEF ViewInv, ViewShape
<1> DEFINE touched == {e.path : e \in Since}
           gone == {p \in touched : LastOf(p).change = "deleted"}
           names == (viewer.names \cup touched) \ gone
           copies == [p \in ViewedPaths |-> IF p \in touched THEN "none" ELSE viewer.copies[p]]
           gap == viewer.gap \/ ~scanning.complete \/ viewer.revision + KeptRevisions < Revision
<1>3. viewer' = [revision |-> n, names |-> names, copies |-> copies, gap |-> gap]
  BY <1>2 DEF Changes
<1>4. /\ viewer.names \in SUBSET ViewedPaths /\ viewer.copies \in [ViewedPaths -> Texts] /\ viewer.gap \in BOOLEAN
      /\ scanning.complete \in BOOLEAN
  BY DEF ViewInv, ViewShape
<1>5. \A e \in Log : /\ e.path \in ViewedPaths /\ e.revision \in 1 .. n
                     /\ (\A d \in Log : d.path = e.path => d.revision <= e.revision) =>
                          (e.change = "deleted" <=> Found[e.path] = NoEntry)
  <2>1. LogInv'
    BY <1>1, RefreshedTells
  <2> QED
    BY <1>2, <2>1 DEF LogInv
<1>6. Since = {e \in Log : e.revision > r}
  BY <1>2 DEF Since
<1>7. touched \subseteq ViewedPaths
  BY <1>5, <1>6
<1>8. \A p \in touched : LastOf(p).change = "deleted" <=> Found[p] = NoEntry
  <2> SUFFICES ASSUME NEW p \in touched PROVE LastOf(p).change = "deleted" <=> Found[p] = NoEntry
    OBVIOUS
  <2> DEFINE E == {e \in Since : e.path = p}
  <2>1. PICK e0 \in E : TRUE
    OBVIOUS
  <2>2. \A e \in E : e.revision \in 1 .. n
    BY <1>5, <1>6
  <2>3. PICK f \in E : \A d \in E : d.revision <= f.revision
    <3> HIDE DEF E
    <3> QED
      BY <2>2, LastChange
  <2>4. f \in Since /\ f.path = p /\ \A d \in Since : d.path = p => d.revision <= f.revision
    BY <2>3
  <2>5. PICK e : e = LastOf(p) /\ e \in Since /\ e.path = p /\ \A d \in Since : d.path = p => d.revision <= e.revision
    <3>1. \E e \in Since : e.path = p /\ \A d \in Since : d.path = p => d.revision <= e.revision
      BY <2>4
    <3>2. LastOf(p) = CHOOSE e \in Since : e.path = p /\ \A d \in Since : d.path = p => d.revision <= e.revision
      BY DEF LastOf
    <3> QED
      BY <3>1, <3>2, Zenon
  <2>6. e \in Log /\ e.revision \in Nat /\ e.revision > r
    BY <1>5, <1>6, <2>5
  <2>7. \A d \in Log : d.path = e.path => d.revision <= e.revision
    <3> SUFFICES ASSUME NEW d \in Log, d.path = e.path PROVE d.revision <= e.revision
      OBVIOUS
    <3>1. d.revision \in Nat
      BY <1>5
    <3>2. CASE d.revision > r
      BY <1>6, <2>5, <3>2
    <3>3. CASE ~(d.revision > r)
      BY <1>2, <2>6, <3>1, <3>3
    <3> QED
      BY <3>2, <3>3
  <2> QED
    BY <1>5, <2>5, <2>6, <2>7
<1> HIDE DEF touched
<1>9. /\ names \in SUBSET ViewedPaths /\ copies \in [ViewedPaths -> Texts] /\ gap \in BOOLEAN
  <2>1. copies \in [ViewedPaths -> Texts]
    BY <1>4 DEF Texts
  <2> QED
    BY <1>4, <1>7, <2>1
<1>10. ASSUME ~gap, NEW p \in ViewedPaths
       PROVE  /\ p \in names <=> Found[p] # NoEntry
              /\ copies[p] # "none" => copies[p] = Found[p].text
  <2>1. CASE p \in touched
    <3>1. copies[p] = "none"
      BY <2>1
    <3>2. p \in gone <=> Found[p] = NoEntry
      BY <1>8, <2>1
    <3> QED
      BY <2>1, <3>1, <3>2
  <2>2. CASE p \notin touched
    <3>1. n <= r + KeptRevisions /\ ~viewer.gap
      BY <1>2, <1>10, ViewsAssumption
    <3>2. \A e \in Log : e.path = p => e.revision <= r
      <4> SUFFICES ASSUME NEW e \in Log, e.path = p PROVE e.revision <= r
        OBVIOUS
      <4>1. e \notin Since
        BY <2>2 DEF touched
      <4>2. e.revision \in Nat /\ ~(e.revision > r)
        BY <1>5, <1>6, <4>1
      <4> QED
        BY <1>2, <4>2
    <3>3. NoChangeSince(r, p)'
      BY <1>2, <3>2 DEF NoChangeSince
    <3>4. NoChangeSince(r, p) /\ Found[p] = content.files[p] /\ content.revision <= r + KeptRevisions
      BY <1>1, <1>2, <3>1, <3>3, RefreshedTells
    <3>5. /\ p \in viewer.names <=> content.files[p] # NoEntry
          /\ viewer.copies[p] # "none" => viewer.copies[p] = content.files[p].text
      BY <1>2, <3>1, <3>4 DEF ViewInv, ViewerInv
    <3>6. copies[p] = viewer.copies[p] /\ p \notin gone
      BY <2>2
    <3> QED
      BY <2>2, <3>4, <3>5, <3>6
  <2> QED
    BY <2>1, <2>2
<1> HIDE DEF names, copies, gap
<1>11. /\ viewer' \in [revision : Nat, names : SUBSET ViewedPaths, copies : [ViewedPaths -> Texts], gap : BOOLEAN]
       /\ viewer'.revision = n /\ viewer'.names = names /\ viewer'.copies = copies /\ viewer'.gap = gap
  BY <1>3, <1>9
<1>12. ViewShape'
  BY <1>1, <1>2, <1>11, RefreshedShape DEF ViewInv, ViewShape
<1>13. ViewerInv'
  BY <1>2, <1>10, <1>11 DEF ViewerInv
<1>14. LogInv' /\ ThreadInv'
  BY <1>1, RefreshedTells, RefreshKeeps
<1> QED
  BY <1>1, <1>12, <1>13, <1>14, DiffStays DEF ViewInv

\* A workspace that nobody looked at yet.
LEMMA ViewsBegin == ViewInit => ViewInv
<1> SUFFICES ASSUME ViewInit PROVE ViewInv
  OBVIOUS
<1>1. NoTree \in [ViewedPaths -> [text : Texts, stamp : Nat]]
  BY DEF NoTree, NoEntry, Texts
<1>2. tree \in [ViewedPaths -> [text : Texts, stamp : Nat]]
  <2>1. tree \in [ViewedPaths -> {NoEntry} \cup [text : SmallTexts, stamp : {0}]]
    BY DEF ViewInit
  <2>2. {NoEntry} \cup [text : SmallTexts, stamp : {0}] \subseteq [text : Texts, stamp : Nat]
    BY DEF NoEntry, Texts
  <2> QED
    BY <2>1, <2>2
<1>3. /\ content = [revision |-> 0, files |-> NoTree] /\ changeLog = {} /\ thread = NoRead
      /\ scanning = [on |-> "nothing", path |-> "none", left |-> {}, files |-> NoTree, complete |-> TRUE]
      /\ viewer = [revision |-> 0, names |-> {}, copies |-> [p \in ViewedPaths |-> "none"], gap |-> FALSE]
      /\ made = [writes |-> 0, views |-> 0] /\ ~shown.given
  BY DEF ViewInit, NoScan, NotShown, NoDiff
<1>4. ViewShape
  <2>1. [p \in ViewedPaths |-> "none"] \in [ViewedPaths -> Texts]
    BY DEF Texts
  <2>2. viewer \in [revision : Nat, names : SUBSET ViewedPaths, copies : [ViewedPaths -> Texts], gap : BOOLEAN]
    BY <1>3, <2>1
  <2>3. scanning \in [on : Askings, path : ViewedPaths \cup {"none"}, left : SUBSET ViewedPaths,
                      files : [ViewedPaths -> [text : Texts, stamp : Nat]], complete : BOOLEAN]
        /\ scanning.on # "read"
    BY <1>1, <1>3 DEF Askings
  <2> QED
    BY <1>1, <1>2, <1>3, <2>2, <2>3 DEF ViewShape
<1>5. LogInv /\ ThreadInv /\ DiffWhole
  BY <1>3 DEF LogInv, ThreadInv, DiffWhole
<1>6. ViewerInv
  BY <1>3 DEF ViewerInv, NoTree
<1> QED
  BY <1>3, <1>4, <1>5, <1>6 DEF ViewInv

\* A client that follows the changes of a workspace and was told of no gap knows what the last scan
\* found, and a diff leads from the one state to the other, but for a file whose place a directory
\* took; for any files, directories, contents, number of writes of others, requests and kept
\* revisions (WorkspaceService.refresh, changes, read_file, diff).
THEOREM ViewsAreTrue == ViewSpec => []ViewsTell
<1>1. ViewInv /\ [ViewNext]_view_vars => ViewInv'
  <2> SUFFICES ASSUME ViewInv, [ViewNext]_view_vars PROVE ViewInv'
    OBVIOUS
  <2>1. CASE UNCHANGED view_vars
    <3>1. UNCHANGED <<tree, content, changeLog, scanning, thread, before, shown, viewer, made>>
      BY <2>1 DEF view_vars
    <3>2. LogInv' /\ ViewerInv' /\ ThreadInv' /\ DiffWhole'
      BY <3>1, ViewsStay, DiffStays DEF ViewInv
    <3> QED
      BY <3>1, <3>2 DEF ViewInv, ViewShape
  <2>2. CASE ViewNext
    <3>1. \/ \/ OthersChange \/ ScanCut
             \/ \E what \in {"files", "changes", "capture", "diff"} : AskView(what, "none")
             \/ \E p \in ViewedPaths : ScanFile(p) \/ ScanRaced(p) \/ AskView("read", p)
          \/ Files \/ Changes \/ ReadFile \/ ReadInThread \/ Capture \/ CaptureRecorded \/ Diff
      BY <2>2 DEF ViewNext
    <3> QED
      BY <3>1, ScanSteps, FilesStep, ChangesStep, ReadFileStep, ThreadStep, OtherAnswers, RecordStep
  <2> QED
    BY <2>1, <2>2
<1>2. ASSUME ViewInv PROVE ViewsTell
  <2>1. ASSUME ~viewer.gap, viewer.revision = content.revision, NEW p \in ViewedPaths
        PROVE  /\ p \in viewer.names <=> content.files[p] # NoEntry
               /\ viewer.copies[p] # "none" => viewer.copies[p] = content.files[p].text
    <3>1. NoChangeSince(viewer.revision, p)
      BY <1>2, <2>1 DEF ViewInv, LogInv, NoChangeSince
    <3>2. content.revision <= viewer.revision + KeptRevisions
      BY <1>2, <2>1, ViewsAssumption DEF ViewInv, ViewShape
    <3> QED
      BY <1>2, <2>1, <3>1, <3>2 DEF ViewInv, ViewerInv
  <2>2. viewer.names \subseteq ViewedPaths /\ DiffWhole
    BY <1>2 DEF ViewInv, ViewShape
  <2> QED
    BY <2>1, <2>2 DEF ViewsTell, ClientFollows, In
<1> QED
  BY <1>1, <1>2, ViewsBegin, PTL DEF ViewSpec

-----------------------------------------------------------------------------
(***************************************************************************)
(* Processes.                                                              *)
(***************************************************************************)

\* The types that the proof needs.
ProcShape ==
  /\ owned \in BOOLEAN /\ eof \in BOOLEAN /\ wrote \in Nat
  /\ process \in [Procs -> [state : {"unborn", "alive", "dead"}, parent : Procs \cup {"worker", "init", "none"},
                            pipe : BOOLEAN, group : BOOLEAN, stuck : BOOLEAN]]
  /\ worker \in [pc : {"unborn", "starting", "relay", "cleanup", "exited"}, interrupted : BOOLEAN,
                 code : {"none", "done", "error", "interrupted", "left", "125", "killed", "refused"}]
  /\ flow \in [command : Nat, worker : Nat, out : Nat, read : Nat]
  /\ waiter \in [pc : {"idle", "waiting", "closing", "stopping", "returned"},
                 why : {"none", "timeout", "cancelled", "limit"}, incomplete : BOOLEAN, reading : BOOLEAN,
                 answer : {"none", "allow", "deny", "error", "cancelled"}]
  /\ report \in {"none", "closing", "clean", "unknown"}

\* While the worker lives every process descends from it.
Descends(rank) ==
  \A p \in Alive : \/ process[p].parent = "worker"
                   \/ process[p].parent \in Alive /\ rank[process[p].parent] < rank[p]
TreeInv == ~Exited => \E rank \in [Procs -> Nat] : Descends(rank)

\* What the worker says of itself, and what is left when it is gone.
WorkerInv ==
  /\ worker.pc \in {"unborn", "starting"} => Alive = {} /\ ~eof /\ worker.code = "none"
                                             /\ process[TheCommand].state = "unborn"
  /\ worker.pc = "relay" => worker.code = "none"
  /\ worker.pc = "cleanup" => worker.code \in {"done", "error", "interrupted"} /\ (worker.code = "done" => owned)
  /\ Exited => /\ worker.code \in {"done", "error", "interrupted", "killed", "refused", IF owned THEN "125" ELSE "left"}
               /\ worker.code \in {"error", "interrupted"} \/ (worker.code = "done" /\ owned) => Alive = {}
  /\ worker.code = "done" => eof /\ flow.worker = 0

\* No output is lost on its way, and none comes after its end.
FlowInv ==
  /\ wrote = flow.command + flow.worker + flow.out + flow.read
  /\ eof => flow.command = 0 /\ ~\E p \in Alive : process[p].pipe

\* What the caller knows.
WaiterInv ==
  /\ waiter.pc = "stopping" => waiter.why # "none"
  /\ waiter.pc \in {"closing", "returned"} /\ waiter.why = "none" => Exited /\ flow.out = 0
  /\ waiter.answer = "allow" => waiter.why = "none"
  /\ waiter.pc \in {"idle", "waiting", "closing", "stopping"} => waiter.answer = "none"
  /\ waiter.pc = "closing" => owned
  /\ waiter.pc = "idle" => worker.pc = "unborn" /\ report = "none"
  /\ report # "none" => owned
  /\ report = "clean" => Exited /\ (worker.code # "refused" => Alive = {})

ProcInv == ProcShape /\ TreeInv /\ WorkerInv /\ FlowInv /\ WaiterInv

\* No name of a process is that of the worker, of init or of nobody.
LEMMA OwnName == "worker" \notin Procs /\ "init" \notin Procs /\ "none" \notin Procs /\ TheCommand \in Procs
BY ProcessAssumption

\* As long as something of the command lives, the worker has a child.
LEMMA WorkerHasChild ==
  ASSUME ProcShape, NEW rank \in [Procs -> Nat], Descends(rank), Alive # {}
  PROVE  ChildrenOf("worker") # {}
<1>1. Alive \subseteq Procs
  BY DEF Alive
<1> DEFINE Ranks == {rank[p] : p \in Alive}
<1>2. Ranks \in SUBSET Nat /\ Ranks # {}
  BY <1>1
<1>3. PICK m \in Ranks : \A k \in Ranks : m <= k
  <2> HIDE DEF Ranks
  <2> QED
    BY <1>2, LeastOf
<1>4. PICK p \in Alive : rank[p] = m
  OBVIOUS
<1>5. process[p].parent = "worker"
  <2>1. SUFFICES ASSUME process[p].parent \in Alive, rank[process[p].parent] < rank[p] PROVE FALSE
    BY <1>4 DEF Descends
  <2>2. rank[process[p].parent] \in Ranks /\ rank[process[p].parent] \in Nat /\ rank[p] \in Nat
    BY <1>1, <1>4, <2>1
  <2>3. rank[p] <= rank[process[p].parent]
    BY <1>3, <1>4, <2>2
  <2> QED
    BY <2>1, <2>2, <2>3
<1> QED
  BY <1>4, <1>5 DEF ChildrenOf

\* Processes that end leave what they started to the worker.
LEMMA DiedIs ==
  ASSUME ProcShape, NEW set \in SUBSET Alive, NEW heir \in {"worker", "init"}, process' = Died(set, heir)
  PROVE  /\ process' \in [Procs -> [state : {"unborn", "alive", "dead"}, parent : Procs \cup {"worker", "init", "none"},
                                    pipe : BOOLEAN, group : BOOLEAN, stuck : BOOLEAN]]
         /\ Alive' = Alive \ set
         /\ \A p \in Alive' : process'[p].pipe = process[p].pipe
         /\ heir = "worker" => \A rank : Descends(rank) => Descends(rank)'
         /\ \A p \in Procs : process[p].state = "unborn" => process'[p].state = "unborn"
<1> DEFINE Process == [state : {"unborn", "alive", "dead"}, parent : Procs \cup {"worker", "init", "none"},
                       pipe : BOOLEAN, group : BOOLEAN, stuck : BOOLEAN]
<1>0. process \in [Procs -> Process] /\ Alive \subseteq Procs
  BY DEF ProcShape, Alive
<1>1. ASSUME NEW p \in Procs
      PROVE  /\ process'[p] \in Process
             /\ p \in set => process'[p].state = "dead"
             /\ p \notin set => /\ process'[p].state = process[p].state /\ process'[p].pipe = process[p].pipe
                                /\ process'[p].parent = IF process[p].parent \in set THEN heir ELSE process[p].parent
  <2>1. CASE p \in set
    <3>1. process'[p] = [state |-> "dead", parent |-> "none", pipe |-> FALSE, group |-> FALSE, stuck |-> FALSE]
      BY <2>1 DEF Died, DeadProcess, NotAlive
    <3>2. process'[p] \in Process
      BY ONLY <3>1
    <3>3. process'[p].state = "dead"
      BY <3>1
    <3> QED
      BY <2>1, <3>2, <3>3
  <2>2. CASE p \notin set /\ process[p].parent \in set
    <3>1. process'[p] = [process[p] EXCEPT !.parent = heir]
      BY <2>2 DEF Died
    <3>2. process[p] \in Process
      BY <1>0
    <3> QED
      BY <2>2, <3>1, <3>2
  <2>3. CASE p \notin set /\ process[p].parent \notin set
    <3>1. process'[p] = process[p]
      BY <2>3 DEF Died
    <3> QED
      BY <1>0, <2>3, <3>1
  <2> QED
    BY <2>1, <2>2, <2>3
<1>2. process' = [p \in Procs |-> process'[p]]
  BY DEF Died
<1>3. process' \in [Procs -> Process]
  BY <1>1, <1>2
<1>4. \A p \in Procs : p \in Alive' <=> p \in Alive /\ p \notin set
  BY <1>1 DEF Alive
<1>5. Alive' = Alive \ set
  BY <1>0, <1>4 DEF Alive
<1>6. ASSUME heir = "worker", NEW rank, Descends(rank) PROVE Descends(rank)'
  <2> SUFFICES ASSUME NEW p \in Alive'
               PROVE  \/ process'[p].parent = "worker"
                      \/ process'[p].parent \in Alive' /\ rank[process'[p].parent] < rank[p]
    BY DEF Descends
  <2>1. p \in Alive /\ p \notin set /\ p \in Procs
    BY <1>0, <1>5
  <2>2. process'[p].parent = IF process[p].parent \in set THEN heir ELSE process[p].parent
    BY <1>1, <2>1
  <2>3. \/ process[p].parent = "worker"
        \/ process[p].parent \in Alive /\ rank[process[p].parent] < rank[p]
    BY <1>6, <2>1 DEF Descends
  <2> QED
    BY <1>5, <1>6, <2>2, <2>3
<1>7. \A p \in Procs : process[p].state = "unborn" => process'[p].state = "unborn"
  BY <1>1 DEF Alive
<1>8. \A p \in Alive' : process'[p].pipe = process[p].pipe
  BY <1>0, <1>1, <1>5
<1> QED
  BY <1>3, <1>5, <1>6, <1>7, <1>8

\* A worker that is gone leaves its children to init.
LEMMA AdoptedIs ==
  ASSUME ProcShape, process' = Adopted("init", process)
  PROVE  /\ process' \in [Procs -> [state : {"unborn", "alive", "dead"}, parent : Procs \cup {"worker", "init", "none"},
                                    pipe : BOOLEAN, group : BOOLEAN, stuck : BOOLEAN]]
         /\ Alive' = Alive
         /\ \A p \in Procs : process'[p].pipe = process[p].pipe /\ process'[p].state = process[p].state
<1> DEFINE Process == [state : {"unborn", "alive", "dead"}, parent : Procs \cup {"worker", "init", "none"},
                       pipe : BOOLEAN, group : BOOLEAN, stuck : BOOLEAN]
<1>1. ASSUME NEW p \in Procs
      PROVE  /\ process'[p] \in Process
             /\ process'[p].state = process[p].state /\ process'[p].pipe = process[p].pipe
  <2>1. process[p] \in Process
    BY DEF ProcShape
  <2>2. process'[p] = IF process[p].parent = "worker" THEN [process[p] EXCEPT !.parent = "init"] ELSE process[p]
    BY DEF Adopted
  <2> QED
    BY <2>1, <2>2
<1>2. process' = [p \in Procs |-> process'[p]]
  BY DEF Adopted
<1>3. process' \in [Procs -> Process]
  BY <1>1, <1>2
<1> QED
  BY <1>1, <1>3 DEF Alive

\* What the worker and the caller know does not depend on which processes live, if none is new,
\* none holds the output that did not, and each still descends from the worker.
LEMMA ProcessesOnly ==
  ASSUME ProcInv, UNCHANGED <<owned, worker, eof, waiter, report>>,
         process' \in [Procs -> [state : {"unborn", "alive", "dead"}, parent : Procs \cup {"worker", "init", "none"},
                                 pipe : BOOLEAN, group : BOOLEAN, stuck : BOOLEAN]],
         Alive = {} => Alive' = {} /\ process'[TheCommand].state = process[TheCommand].state,
         (~\E p \in Alive : process[p].pipe) => ~\E p \in Alive' : process'[p].pipe,
         TreeInv', flow' \in [command : Nat, worker : Nat, out : Nat, read : Nat], wrote' \in Nat,
         flow'.worker = flow.worker /\ flow'.out = flow.out,
         eof => flow'.command = flow.command,
         wrote' = flow'.command + flow'.worker + flow'.out + flow'.read
  PROVE  ProcInv'
<1>1. ProcShape'
  BY DEF ProcInv, ProcShape
<1>2. WorkerInv'
  BY DEF ProcInv, WorkerInv, Exited
<1>3. FlowInv'
  BY DEF ProcInv, FlowInv
<1>4. WaiterInv'
  BY DEF ProcInv, WaiterInv, Exited
<1> QED
  BY <1>1, <1>2, <1>3, <1>4 DEF ProcInv

\* One process changes, and stays where it is in the tree.
LEMMA OneChanges ==
  ASSUME ProcInv, NEW p \in Alive, NEW r, process' = [process EXCEPT ![p] = r],
         r \in [state : {"unborn", "alive", "dead"}, parent : Procs \cup {"worker", "init", "none"},
                pipe : BOOLEAN, group : BOOLEAN, stuck : BOOLEAN],
         r.state = "alive", r.parent = process[p].parent, r.pipe = process[p].pipe,
         UNCHANGED <<owned, worker, flow, wrote, eof, waiter, report>>
  PROVE  ProcInv'
<1> DEFINE Process == [state : {"unborn", "alive", "dead"}, parent : Procs \cup {"worker", "init", "none"},
                       pipe : BOOLEAN, group : BOOLEAN, stuck : BOOLEAN]
<1>1. process \in [Procs -> Process] /\ p \in Procs /\ process[p].state = "alive"
  BY DEF ProcInv, ProcShape, Alive
<1>2. process' \in [Procs -> Process]
  BY <1>1
<1>3. \A q \in Procs : /\ process'[q].state = process[q].state /\ process'[q].parent = process[q].parent
                       /\ process'[q].pipe = process[q].pipe
  BY <1>1
<1>4. Alive' = Alive
  BY <1>3 DEF Alive
<1>5. \A q \in Alive : process'[q].parent = process[q].parent /\ process'[q].pipe = process[q].pipe
  BY <1>3 DEF Alive
<1>6. \A rank : Descends(rank) => Descends(rank)'
  BY <1>4, <1>5 DEF Descends
<1>7. TreeInv'
  BY <1>6 DEF ProcInv, TreeInv, Exited
<1> QED
  BY <1>2, <1>4, <1>5, <1>7, ProcessesOnly DEF ProcInv, ProcShape, FlowInv

\* The steps of the processes of the command.
LEMMA ForkStep ==
  ASSUME ProcInv, NEW p \in Procs, NEW q \in Procs, NEW holds \in BOOLEAN, Fork(p, q, holds)
  PROVE  ProcInv'
<1> DEFINE Process == [state : {"unborn", "alive", "dead"}, parent : Procs \cup {"worker", "init", "none"},
                       pipe : BOOLEAN, group : BOOLEAN, stuck : BOOLEAN]
           r == [state |-> "alive", parent |-> p, pipe |-> holds, group |-> process[p].group, stuck |-> FALSE]
<1>1. /\ process \in [Procs -> Process] /\ p \in Alive /\ process[q].state = "unborn" /\ (holds => process[p].pipe)
      /\ process' = [process EXCEPT ![q] = r] /\ p # q /\ q \notin Alive
      /\ UNCHANGED <<owned, worker, flow, wrote, eof, waiter, report>>
  BY DEF ProcInv, ProcShape, Alive, Fork
<1>2. r \in Process /\ r.state = "alive" /\ r.parent = p /\ r.pipe = holds
  BY <1>1
<1> HIDE DEF r
<1>3. process' \in [Procs -> Process]
  BY <1>1, <1>2
<1>4. process'[q] = r /\ \A a \in Procs : a # q => process'[a] = process[a]
  BY <1>1
<1>5. Alive' = Alive \cup {q} /\ Alive \subseteq Procs
  BY <1>2, <1>4 DEF Alive
<1>6. (~\E a \in Alive : process[a].pipe) => ~\E a \in Alive' : process'[a].pipe
  BY <1>1, <1>2, <1>4, <1>5
<1>7. TreeInv'
  <2>1. SUFFICES ASSUME ~Exited PROVE \E rank \in [Procs -> Nat] : Descends(rank)'
    BY <1>1 DEF TreeInv, Exited
  <2>2. PICK old \in [Procs -> Nat] : Descends(old)
    BY <2>1 DEF ProcInv, TreeInv
  <2>3. old[p] + 1 \in Nat
    BY <1>1
  <2> DEFINE rank == [a \in Procs |-> IF a = q THEN old[p] + 1 ELSE old[a]]
  <2>4. rank \in [Procs -> Nat]
    BY <2>3
  <2>5. rank[q] = old[p] + 1 /\ rank[p] = old[p] /\ \A a \in Alive : rank[a] = old[a]
    BY <1>1, <1>5
  <2> HIDE DEF rank
  <2>6. ASSUME NEW a \in Alive'
        PROVE  \/ process'[a].parent = "worker"
               \/ process'[a].parent \in Alive' /\ rank[process'[a].parent] < rank[a]
    <3>1. CASE a = q
      BY <1>1, <1>2, <1>4, <1>5, <2>3, <2>5, <3>1
    <3>2. CASE a # q
      <4>1. a \in Alive /\ process'[a] = process[a]
        BY <1>4, <1>5, <3>2
      <4>2. \/ process[a].parent = "worker"
            \/ process[a].parent \in Alive /\ old[process[a].parent] < old[a]
        BY <2>2, <4>1 DEF Descends
      <4> QED
        BY <1>5, <2>5, <4>1, <4>2
    <3> QED
      BY <3>1, <3>2
  <2>7. Descends(rank)'
    BY <2>6 DEF Descends
  <2> QED
    BY <2>4, <2>7
<1> QED
  BY <1>1, <1>3, <1>6, <1>7, ProcessesOnly DEF ProcInv, ProcShape, FlowInv

\* A process detaches, writes, hangs or goes on.
LEMMA ProcessSteps ==
  ASSUME ProcInv, NEW p \in Procs, Detach(p) \/ WriteOutput(p) \/ GetStuck(p) \/ GetFree(p)
  PROVE  ProcInv'
<1>1. process[p] \in [state : {"unborn", "alive", "dead"}, parent : Procs \cup {"worker", "init", "none"},
                      pipe : BOOLEAN, group : BOOLEAN, stuck : BOOLEAN]
      /\ process \in [Procs -> [state : {"unborn", "alive", "dead"}, parent : Procs \cup {"worker", "init", "none"},
                      pipe : BOOLEAN, group : BOOLEAN, stuck : BOOLEAN]]
  BY DEF ProcInv, ProcShape
<1>2. CASE Detach(p)
  <2>1. /\ p \in Alive /\ process' = [process EXCEPT ![p] = [process[p] EXCEPT !.group = FALSE]]
        /\ UNCHANGED <<owned, worker, flow, wrote, eof, waiter, report>>
    BY <1>1, <1>2 DEF Detach
  <2>2. process[p].state = "alive"
    BY <2>1 DEF Alive
  <2> QED
    BY <1>1, <2>1, <2>2, OneChanges
<1>3. CASE GetStuck(p)
  <2>1. /\ p \in Alive /\ process' = [process EXCEPT ![p] = [process[p] EXCEPT !.stuck = TRUE]]
        /\ UNCHANGED <<owned, worker, flow, wrote, eof, waiter, report>>
    BY <1>1, <1>3 DEF GetStuck
  <2>2. process[p].state = "alive"
    BY <2>1 DEF Alive
  <2> QED
    BY <1>1, <2>1, <2>2, OneChanges
<1>4. CASE GetFree(p)
  <2>1. /\ p \in Alive /\ process' = [process EXCEPT ![p] = [process[p] EXCEPT !.stuck = FALSE]]
        /\ UNCHANGED <<owned, worker, flow, wrote, eof, waiter, report>>
    BY <1>1, <1>4 DEF GetFree
  <2>2. process[p].state = "alive"
    BY <2>1 DEF Alive
  <2> QED
    BY <1>1, <2>1, <2>2, OneChanges
<1>5. CASE WriteOutput(p)
  <2>1. /\ p \in Alive /\ process[p].pipe /\ wrote' = wrote + 1
        /\ flow' = [flow EXCEPT !.command = flow.command + 1]
        /\ UNCHANGED <<owned, process, worker, eof, waiter, report>>
    BY <1>5 DEF WriteOutput
  <2>2. flow \in [command : Nat, worker : Nat, out : Nat, read : Nat] /\ wrote \in Nat
        /\ wrote = flow.command + flow.worker + flow.out + flow.read
    BY DEF ProcInv, ProcShape, FlowInv
  <2>3. /\ flow' \in [command : Nat, worker : Nat, out : Nat, read : Nat] /\ wrote' \in Nat
        /\ flow'.command = flow.command + 1 /\ flow'.worker = flow.worker /\ flow'.out = flow.out
        /\ flow'.read = flow.read
    BY <2>1, <2>2
  <2>4. wrote' = flow'.command + flow'.worker + flow'.out + flow'.read
    BY <2>1, <2>2, <2>3
  <2>5. ~eof
    BY <2>1 DEF ProcInv, FlowInv
  <2>6. Alive' = Alive /\ (\A rank : Descends(rank)' <=> Descends(rank))
    BY <2>1 DEF Alive, Descends
  <2>7. TreeInv'
    BY <2>1, <2>6 DEF ProcInv, TreeInv, Exited
  <2> QED
    BY <1>1, <2>1, <2>3, <2>4, <2>5, <2>6, <2>7, ProcessesOnly
<1> QED
  BY <1>2, <1>3, <1>4, <1>5

\* A process ends, by itself or killed by the cleanup.
LEMMA EndSteps ==
  ASSUME ProcInv, NEW p \in Procs, ExitProcess(p) \/ KillChild(p)
  PROVE  ProcInv'
<1>1. PICK heir \in {"worker", "init"} :
        /\ process' = Died({p}, heir) /\ p \in Alive /\ (~Exited => heir = "worker")
        /\ UNCHANGED <<owned, worker, flow, wrote, eof, waiter, report>>
  BY DEF ExitProcess, KillChild, Heir, ChildrenOf
<1>2. {p} \in SUBSET Alive /\ ProcShape
  BY <1>1 DEF ProcInv
<1>3. /\ process' \in [Procs -> [state : {"unborn", "alive", "dead"}, parent : Procs \cup {"worker", "init", "none"},
                                 pipe : BOOLEAN, group : BOOLEAN, stuck : BOOLEAN]]
      /\ Alive' = Alive \ {p} /\ \A q \in Alive' : process'[q].pipe = process[q].pipe
      /\ heir = "worker" => \A rank : Descends(rank) => Descends(rank)'
  BY <1>1, <1>2, DiedIs
<1>4. TreeInv'
  BY <1>1, <1>3 DEF ProcInv, TreeInv, Exited
<1>5. flow \in [command : Nat, worker : Nat, out : Nat, read : Nat] /\ wrote \in Nat
      /\ wrote = flow.command + flow.worker + flow.out + flow.read
  BY DEF ProcInv, ProcShape, FlowInv
<1> QED
  BY <1>1, <1>3, <1>4, <1>5, ProcessesOnly

\* The command starts, as the child of the worker.
LEMMA StartStep ==
  ASSUME ProcInv, StartCommand
  PROVE  ProcInv'
<1> DEFINE Process == [state : {"unborn", "alive", "dead"}, parent : Procs \cup {"worker", "init", "none"},
                       pipe : BOOLEAN, group : BOOLEAN, stuck : BOOLEAN]
           r == [state |-> "alive", parent |-> "worker", pipe |-> TRUE, group |-> TRUE, stuck |-> FALSE]
<1>1. /\ process \in [Procs -> Process] /\ TheCommand \in Procs /\ worker.pc = "starting"
      /\ worker \in [pc : {"unborn", "starting", "relay", "cleanup", "exited"}, interrupted : BOOLEAN,
                     code : {"none", "done", "error", "interrupted", "left", "125", "killed", "refused"}]
      /\ process' = [process EXCEPT ![TheCommand] = r] /\ worker' = [worker EXCEPT !.pc = "relay"]
      /\ UNCHANGED <<owned, flow, wrote, eof, waiter, report>>
  BY OwnName DEF ProcInv, ProcShape, StartCommand
<1>2. r \in Process /\ r.state = "alive" /\ r.parent = "worker"
  OBVIOUS
<1> HIDE DEF r
<1>3. process' \in [Procs -> Process]
  BY <1>1, <1>2
<1>4. Alive = {} /\ ~eof /\ worker.code = "none"
  BY <1>1 DEF ProcInv, WorkerInv
<1>5. Alive' = {TheCommand} /\ process'[TheCommand] = r
  <2>1. process'[TheCommand] = r /\ \A a \in Procs : a # TheCommand => process'[a] = process[a]
    BY <1>1
  <2> QED
    BY <1>1, <1>2, <1>4, <2>1 DEF Alive
<1>6. worker'.pc = "relay" /\ worker'.code = worker.code
      /\ worker' \in [pc : {"unborn", "starting", "relay", "cleanup", "exited"}, interrupted : BOOLEAN,
                      code : {"none", "done", "error", "interrupted", "left", "125", "killed", "refused"}]
  BY <1>1
<1>7. ProcShape'
  BY <1>1, <1>3, <1>6 DEF ProcInv, ProcShape
<1>8. TreeInv'
  <2> DEFINE rank == [a \in Procs |-> 0]
  <2>1. rank \in [Procs -> Nat]
    OBVIOUS
  <2>2. Descends(rank)'
    BY <1>2, <1>5 DEF Descends
  <2> QED
    BY <2>1, <2>2 DEF TreeInv
<1>9. WorkerInv'
  BY <1>4, <1>6 DEF WorkerInv, Exited
<1>10. FlowInv'
  BY <1>1, <1>4 DEF ProcInv, FlowInv
<1>11. ~Exited /\ waiter.pc # "idle" /\ report # "clean"
  BY <1>1 DEF ProcInv, WaiterInv, Exited
<1>12. WaiterInv'
  BY <1>1, <1>6, <1>11 DEF ProcInv, WaiterInv
<1> QED
  BY <1>7, <1>8, <1>9, <1>10, <1>12 DEF ProcInv

\* What the worker reads and passes on.
LEMMA RelaySteps ==
  ASSUME ProcInv, RelayRead \/ RelayEof \/ (RelayWrite /\ worker' = worker) \/ ReadOutput
  PROVE  ProcInv'
<1>1. /\ flow \in [command : Nat, worker : Nat, out : Nat, read : Nat] /\ wrote \in Nat
      /\ wrote = flow.command + flow.worker + flow.out + flow.read
      /\ UNCHANGED <<owned, process, worker, wrote, waiter, report>>
  BY DEF ProcInv, ProcShape, FlowInv, RelayRead, RelayEof, RelayWrite, ReadOutput
<1>2. /\ flow' \in [command : Nat, worker : Nat, out : Nat, read : Nat]
      /\ wrote = flow'.command + flow'.worker + flow'.out + flow'.read
      /\ flow'.command <= flow.command /\ eof' \in BOOLEAN
      /\ (eof => eof') /\ (eof' => eof \/ (flow'.command = 0 /\ ~\E p \in Alive : process[p].pipe))
      /\ flow.worker = 0 /\ flow.command = 0 => flow'.worker = 0
      /\ flow.out = 0 /\ flow.worker = 0 => flow'.out = 0
      /\ Exited => flow'.worker = flow.worker /\ (flow.out = 0 => flow'.out = 0)
  <2>1. CASE RelayRead
    <3>1. flow.command - 1 \in Nat /\ flow.worker + 1 \in Nat /\ ~Exited /\ eof' = eof
          /\ flow' = [flow EXCEPT !.command = flow.command - 1, !.worker = flow.worker + 1]
      BY <1>1, <2>1 DEF RelayRead, Exited
    <3>2. /\ flow' \in [command : Nat, worker : Nat, out : Nat, read : Nat] /\ flow'.command = flow.command - 1
          /\ flow'.worker = flow.worker + 1 /\ flow'.out = flow.out /\ flow'.read = flow.read
      BY <1>1, <3>1
    <3>3. ~(flow.command = 0)
      BY <1>1, <3>1
    <3>4. eof' \in BOOLEAN
      BY <3>1 DEF ProcInv, ProcShape
    <3> QED
      BY <1>1, <3>1, <3>2, <3>3, <3>4
  <2>2. CASE RelayEof
    BY <1>1, <2>2 DEF RelayEof, Exited
  <2>3. CASE RelayWrite /\ worker' = worker
    <3>1. CASE waiter.reading
      <4>1. flow.worker - 1 \in Nat /\ flow.out + 1 \in Nat /\ ~Exited /\ eof' = eof
            /\ flow' = [flow EXCEPT !.worker = flow.worker - 1, !.out = flow.out + 1]
        BY <1>1, <2>3, <3>1 DEF RelayWrite, Exited
      <4>2. /\ flow' \in [command : Nat, worker : Nat, out : Nat, read : Nat] /\ flow'.command = flow.command
            /\ flow'.worker = flow.worker - 1 /\ flow'.out = flow.out + 1 /\ flow'.read = flow.read
        BY <1>1, <4>1
      <4>3. ~(flow.worker = 0)
        BY <1>1, <4>1
      <4>4. eof' \in BOOLEAN
        BY <4>1 DEF ProcInv, ProcShape
      <4> QED
        BY <1>1, <4>1, <4>2, <4>3, <4>4
    <3>2. CASE ~waiter.reading
      <4>1. worker'.pc = "cleanup" /\ worker.pc = "relay"
        BY <1>1, <2>3, <3>2 DEF RelayWrite, ProcInv, ProcShape
      <4> QED
        BY <2>3, <4>1
    <3> QED
      BY <3>1, <3>2
  <2>4. CASE ReadOutput
    <3>1. flow.read + flow.out \in Nat /\ eof' = eof
          /\ flow' = [flow EXCEPT !.read = flow.read + flow.out, !.out = 0]
      BY <1>1, <2>4 DEF ReadOutput
    <3>2. /\ flow' \in [command : Nat, worker : Nat, out : Nat, read : Nat] /\ flow'.command = flow.command
          /\ flow'.worker = flow.worker /\ flow'.out = 0 /\ flow'.read = flow.read + flow.out
      BY <1>1, <3>1
    <3>3. eof' \in BOOLEAN
      BY <3>1 DEF ProcInv, ProcShape
    <3> QED
      BY <1>1, <3>1, <3>2, <3>3
  <2> QED
    BY <2>1, <2>2, <2>3, <2>4
<1>3. ProcShape'
  BY <1>1, <1>2 DEF ProcInv, ProcShape
<1>4. Alive' = Alive /\ (\A rank : Descends(rank)' <=> Descends(rank))
  BY <1>1 DEF Alive, Descends
<1>5. TreeInv'
  BY <1>1, <1>4 DEF ProcInv, TreeInv, Exited
<1>6. eof => flow.command = 0
  BY DEF ProcInv, FlowInv
<1>7. WorkerInv'
  <2>1. worker.pc \in {"unborn", "starting"} => ~eof'
    <3>1. ~RelayEof => eof' = eof
      BY DEF RelayRead, RelayWrite, ReadOutput
    <3>2. RelayEof => worker.pc = "relay"
      BY DEF RelayEof
    <3> QED
      BY <3>1, <3>2 DEF ProcInv, WorkerInv
  <2>2. worker.code = "done" => eof' /\ flow'.worker = 0
    BY <1>2, <1>6 DEF ProcInv, WorkerInv
  <2> QED
    BY <1>1, <1>4, <2>1, <2>2 DEF ProcInv, WorkerInv, Exited
<1>8. FlowInv'
  <2>1. eof' => flow'.command = 0 /\ ~\E p \in Alive : process[p].pipe
    <3>1. eof => flow'.command = 0
      BY <1>1, <1>2, <1>6
    <3> QED
      BY <1>2, <3>1 DEF ProcInv, FlowInv
  <2> QED
    BY <1>1, <1>2, <1>4, <2>1 DEF FlowInv
<1>9. WaiterInv'
  BY <1>1, <1>2, <1>4 DEF ProcInv, WaiterInv, Exited
<1> QED
  BY <1>3, <1>5, <1>7, <1>8, <1>9 DEF ProcInv

\* The worker leaves its loop, and cleans up.
LEMMA LoopLeft ==
  ASSUME ProcInv, NEW code \in {"done", "error", "interrupted"}, worker.pc = "relay",
         worker' = [worker EXCEPT !.pc = "cleanup", !.code = code],
         code = "done" => owned /\ eof /\ flow.worker = 0,
         UNCHANGED <<owned, process, flow, wrote, eof, waiter, report>>
  PROVE  ProcInv'
<1>1. worker \in [pc : {"unborn", "starting", "relay", "cleanup", "exited"}, interrupted : BOOLEAN,
                  code : {"none", "done", "error", "interrupted", "left", "125", "killed", "refused"}]
  BY DEF ProcInv, ProcShape
<1>2. worker'.pc = "cleanup" /\ worker'.code = code
      /\ worker' \in [pc : {"unborn", "starting", "relay", "cleanup", "exited"}, interrupted : BOOLEAN,
                  code : {"none", "done", "error", "interrupted", "left", "125", "killed", "refused"}]
  BY <1>1
<1>3. ~Exited /\ ~Exited' /\ Alive' = Alive /\ (\A rank : Descends(rank)' <=> Descends(rank))
  BY <1>2 DEF Alive, Descends, Exited
<1>4. ProcShape'
  BY <1>2 DEF ProcInv, ProcShape
<1>5. TreeInv'
  BY <1>3 DEF ProcInv, TreeInv
<1>6. WorkerInv'
  BY <1>2, <1>3 DEF ProcInv, WorkerInv
<1>7. FlowInv'
  BY <1>3 DEF ProcInv, FlowInv
<1>8. WaiterInv'
  BY <1>2, <1>3 DEF ProcInv, WaiterInv
<1> QED
  BY <1>4, <1>5, <1>6, <1>7, <1>8 DEF ProcInv

\* The three ways out of the loop of the worker that lead to a cleanup.
LEMMA LoopSteps ==
  ASSUME ProcInv, (RelayWrite /\ worker' # worker) \/ LeaveLoop \/ (FinishCommand /\ owned)
  PROVE  ProcInv'
<1>1. CASE RelayWrite /\ worker' # worker
  BY <1>1, LoopLeft DEF RelayWrite
<1>2. CASE LeaveLoop
  BY <1>2, LoopLeft DEF LeaveLoop
<1>3. CASE FinishCommand /\ owned
  BY <1>3, LoopLeft DEF FinishCommand, CommandDone
<1> QED
  BY <1>1, <1>2, <1>3

\* The worker is gone: with a code that is true of what it leaves.
LEMMA WorkerEnds ==
  ASSUME ProcInv, NEW code \in {"done", "error", "interrupted", "killed", "refused", IF owned THEN "125" ELSE "left"},
         worker' = [worker EXCEPT !.pc = "exited", !.code = code],
         process' \in [Procs -> [state : {"unborn", "alive", "dead"}, parent : Procs \cup {"worker", "init", "none"},
                                 pipe : BOOLEAN, group : BOOLEAN, stuck : BOOLEAN]],
         Alive' \subseteq Alive, \A p \in Alive' : process'[p].pipe = process[p].pipe,
         code = "done" => eof /\ flow.worker = 0,
         code \in {"error", "interrupted"} \/ (code = "done" /\ owned) => Alive = {},
         UNCHANGED <<owned, flow, wrote, eof>>
  PROVE  /\ worker' \in [pc : {"unborn", "starting", "relay", "cleanup", "exited"}, interrupted : BOOLEAN,
                         code : {"none", "done", "error", "interrupted", "left", "125", "killed", "refused"}]
         /\ worker'.pc = "exited" /\ worker'.code = code /\ TreeInv' /\ WorkerInv' /\ FlowInv'
<1>1. worker \in [pc : {"unborn", "starting", "relay", "cleanup", "exited"}, interrupted : BOOLEAN,
                  code : {"none", "done", "error", "interrupted", "left", "125", "killed", "refused"}]
  BY DEF ProcInv, ProcShape
<1>2. worker'.pc = "exited" /\ worker'.code = code /\ worker'.interrupted = worker.interrupted
  BY <1>1
<1>3. worker' \in [pc : {"unborn", "starting", "relay", "cleanup", "exited"}, interrupted : BOOLEAN,
                   code : {"none", "done", "error", "interrupted", "left", "125", "killed", "refused"}]
  BY <1>1
<1>4. TreeInv'
  BY <1>2 DEF TreeInv, Exited
<1>5. WorkerInv'
  BY <1>2 DEF WorkerInv, Exited
<1>6. FlowInv'
  BY DEF ProcInv, FlowInv
<1> QED
  BY <1>2, <1>3, <1>4, <1>5, <1>6

\* A caller that sees no more than the end of the worker knows what it knew.
LEMMA WaiterAfterEnd ==
  ASSUME ProcInv, worker.pc # "unborn", ~Exited, worker'.pc = "exited", UNCHANGED <<owned, flow, waiter, report>>
  PROVE  WaiterInv'
<1>1. waiter.pc # "idle" /\ report # "clean"
  BY DEF ProcInv, WaiterInv
<1> QED
  BY <1>1 DEF ProcInv, WaiterInv, Exited

\* Whatever the worker leaves goes to init.
LEMMA GoneStep ==
  ASSUME ProcInv, NEW code \in {"done", "error", "interrupted", "killed", "refused", IF owned THEN "125" ELSE "left"},
         worker.pc # "unborn", ~Exited, Gone(code, process),
         code = "done" => eof /\ flow.worker = 0,
         code \in {"error", "interrupted"} \/ (code = "done" /\ owned) => Alive = {},
         UNCHANGED <<owned, flow, wrote, eof, waiter, report>>
  PROVE  ProcInv'
<1>1. worker' = [worker EXCEPT !.pc = "exited", !.code = code] /\ process' = Adopted("init", process)
  BY DEF Gone
<1>2. ProcShape
  BY DEF ProcInv
<1>3. /\ process' \in [Procs -> [state : {"unborn", "alive", "dead"}, parent : Procs \cup {"worker", "init", "none"},
                                 pipe : BOOLEAN, group : BOOLEAN, stuck : BOOLEAN]]
      /\ Alive' = Alive /\ \A p \in Procs : process'[p].pipe = process[p].pipe
  BY <1>1, <1>2, AdoptedIs
<1>4. Alive' \subseteq Alive /\ \A p \in Alive' : process'[p].pipe = process[p].pipe
  BY <1>3 DEF Alive
<1>5. /\ worker' \in [pc : {"unborn", "starting", "relay", "cleanup", "exited"}, interrupted : BOOLEAN,
                      code : {"none", "done", "error", "interrupted", "left", "125", "killed", "refused"}]
      /\ worker'.pc = "exited" /\ TreeInv' /\ WorkerInv' /\ FlowInv'
  BY <1>1, <1>3, <1>4, WorkerEnds
<1>6. ProcShape'
  BY <1>2, <1>3, <1>5 DEF ProcShape
<1>7. WaiterInv'
  BY <1>5, WaiterAfterEnd
<1> QED
  BY <1>5, <1>6, <1>7 DEF ProcInv

\* The ways the worker ends by itself.
LEMMA GoneSteps ==
  ASSUME ProcInv, FailToStart \/ (FinishCommand /\ ~owned) \/ CleanedUp \/ LeaveCleanup \/ KillRefused
  PROVE  ProcInv'
<1>1. CASE FailToStart
  <2>1. worker.pc = "starting" /\ Gone("error", process) /\ UNCHANGED <<owned, flow, wrote, eof, waiter, report>>
    BY <1>1 DEF FailToStart
  <2>2. Alive = {} /\ ~Exited
    BY <2>1 DEF ProcInv, WorkerInv, Exited
  <2> QED
    BY <2>1, <2>2, GoneStep
<1>2. CASE FinishCommand /\ ~owned
  <2>1. /\ worker.pc = "relay" /\ Gone("done", process) /\ eof /\ flow.worker = 0 /\ ~owned
        /\ UNCHANGED <<owned, flow, wrote, eof, waiter, report>>
    BY <1>2 DEF FinishCommand, CommandDone
  <2>2. ~Exited
    BY <2>1 DEF Exited
  <2> QED
    BY <2>1, <2>2, GoneStep
<1>3. CASE CleanedUp
  <2>1. /\ worker.pc = "cleanup" /\ ChildrenOf("worker") = {} /\ Gone(worker.code, process)
        /\ UNCHANGED <<owned, flow, wrote, eof, waiter, report>>
    BY <1>3 DEF CleanedUp
  <2>2. ~Exited /\ worker.code \in {"done", "error", "interrupted"} /\ (worker.code = "done" => owned)
    BY <2>1 DEF ProcInv, WorkerInv, Exited
  <2>3. PICK rank \in [Procs -> Nat] : Descends(rank)
    BY <2>2 DEF ProcInv, TreeInv
  <2>4. Alive = {}
    BY <2>1, <2>3, WorkerHasChild DEF ProcInv
  <2>5. worker.code = "done" => eof /\ flow.worker = 0
    BY DEF ProcInv, WorkerInv
  <2> QED
    BY <2>1, <2>2, <2>4, <2>5, GoneStep
<1>4. CASE LeaveCleanup
  <2>1. /\ worker.pc = "cleanup" /\ Gone(IF owned THEN "125" ELSE "left", process)
        /\ UNCHANGED <<owned, flow, wrote, eof, waiter, report>>
    BY <1>4 DEF LeaveCleanup
  <2>2. ~Exited
    BY <2>1 DEF Exited
  <2> QED
    BY <2>1, <2>2, GoneStep
<1>5. CASE KillRefused
  <2>1. /\ worker.pc = "cleanup" /\ Gone("refused", process)
        /\ UNCHANGED <<owned, flow, wrote, eof, waiter, report>>
    BY <1>5 DEF KillRefused
  <2>2. ~Exited
    BY <2>1 DEF Exited
  <2> QED
    BY <2>1, <2>2, GoneStep
<1> QED
  BY <1>1, <1>2, <1>3, <1>4, <1>5

\* SIGTERM: the worker notes it, or ends if it has not begun.
LEMMA TerminatedIs ==
  ASSUME ProcInv, worker' = Terminated, UNCHANGED <<owned, process, flow, wrote, eof>>
  PROVE  /\ worker' \in [pc : {"unborn", "starting", "relay", "cleanup", "exited"}, interrupted : BOOLEAN,
                         code : {"none", "done", "error", "interrupted", "left", "125", "killed", "refused"}]
         /\ TreeInv' /\ WorkerInv' /\ FlowInv' /\ (Exited => Exited') /\ Alive' = Alive
<1>1. worker \in [pc : {"unborn", "starting", "relay", "cleanup", "exited"}, interrupted : BOOLEAN,
                  code : {"none", "done", "error", "interrupted", "left", "125", "killed", "refused"}]
  BY DEF ProcInv, ProcShape
<1>2. Alive' = Alive /\ (\A rank : Descends(rank)' <=> Descends(rank))
  BY DEF Alive, Descends
<1>3. FlowInv'
  BY <1>2 DEF ProcInv, FlowInv
<1>4. CASE worker.pc = "starting"
  <2>1. worker' = [worker EXCEPT !.pc = "exited", !.code = "killed"]
    BY <1>4 DEF Terminated
  <2>2. worker'.pc = "exited" /\ worker'.code = "killed" /\ worker'.interrupted = worker.interrupted
    BY <1>1, <2>1
  <2>3. worker' \in [pc : {"unborn", "starting", "relay", "cleanup", "exited"}, interrupted : BOOLEAN,
                     code : {"none", "done", "error", "interrupted", "left", "125", "killed", "refused"}]
    BY <1>1, <2>1
  <2>4. TreeInv' /\ WorkerInv'
    BY <2>2 DEF TreeInv, WorkerInv, Exited
  <2> QED
    BY <1>2, <1>3, <1>4, <2>2, <2>3, <2>4 DEF Exited
<1>5. CASE worker.pc \in {"relay", "cleanup"}
  <2>1. worker' = [worker EXCEPT !.interrupted = TRUE]
    BY <1>5 DEF Terminated
  <2>2. worker'.pc = worker.pc /\ worker'.code = worker.code
    BY <1>1, <2>1
  <2>3. worker' \in [pc : {"unborn", "starting", "relay", "cleanup", "exited"}, interrupted : BOOLEAN,
                     code : {"none", "done", "error", "interrupted", "left", "125", "killed", "refused"}]
    BY <1>1, <2>1
  <2>4. TreeInv' /\ WorkerInv'
    BY <1>2, <2>2 DEF ProcInv, TreeInv, WorkerInv, Exited
  <2> QED
    BY <1>2, <1>3, <1>5, <2>2, <2>3, <2>4 DEF Exited
<1>6. CASE worker.pc \notin {"starting", "relay", "cleanup"}
  <2>1. worker' = worker
    BY <1>6 DEF Terminated
  <2>2. TreeInv' /\ WorkerInv'
    BY <1>2, <2>1 DEF ProcInv, TreeInv, WorkerInv, Exited
  <2> QED
    BY <1>1, <1>2, <1>3, <2>1, <2>2 DEF Exited
<1> QED
  BY <1>4, <1>5, <1>6

\* What the caller does without the processes changes only what it knows.
LEMMA CallerOnly ==
  ASSUME ProcInv, UNCHANGED <<owned, process, worker, flow, wrote, eof>>, WaiterInv',
         waiter' \in [pc : {"idle", "waiting", "closing", "stopping", "returned"},
                      why : {"none", "timeout", "cancelled", "limit"}, incomplete : BOOLEAN, reading : BOOLEAN,
                      answer : {"none", "allow", "deny", "error", "cancelled"}],
         report' \in {"none", "closing", "clean", "unknown"}
  PROVE  ProcInv'
<1>1. Alive' = Alive /\ (\A rank : Descends(rank)' <=> Descends(rank))
  BY DEF Alive, Descends
<1>2. ProcShape'
  BY DEF ProcInv, ProcShape
<1>3. TreeInv' /\ WorkerInv' /\ FlowInv'
  BY <1>1 DEF ProcInv, TreeInv, WorkerInv, FlowInv, Exited
<1> QED
  BY <1>2, <1>3 DEF ProcInv

\* The caller collects, gives up waiting, or hears from the owner.
LEMMA CallerSteps ==
  ASSUME ProcInv, \/ Collect \/ Stopped \/ CancelAgain \/ ReportExit
                  \/ \E answer \in {"allow", "deny", "error", "cancelled"} : HookAnswer(answer)
  PROVE  ProcInv'
<1> DEFINE Waiter == [pc : {"idle", "waiting", "closing", "stopping", "returned"},
                      why : {"none", "timeout", "cancelled", "limit"}, incomplete : BOOLEAN, reading : BOOLEAN,
                      answer : {"none", "allow", "deny", "error", "cancelled"}]
<1>1. waiter \in Waiter /\ report \in {"none", "closing", "clean", "unknown"}
  BY DEF ProcInv, ProcShape
<1>2. Alive' = Alive <=> UNCHANGED Alive
  OBVIOUS
<1>3. CASE Collect
  <2>1. /\ waiter.pc = "waiting" /\ Exited /\ flow.out = 0 /\ report' = report
        /\ UNCHANGED <<owned, process, worker, flow, wrote, eof>>
        /\ waiter' = [waiter EXCEPT !.pc = IF owned THEN "closing" ELSE "returned"]
    BY <1>3 DEF Collect, AllRead
  <2>2. waiter' \in Waiter /\ waiter'.pc = (IF owned THEN "closing" ELSE "returned") /\ waiter'.why = waiter.why
        /\ waiter'.answer = waiter.answer
    BY <1>1, <2>1
  <2>3. Alive' = Alive
    BY <2>1 DEF Alive
  <2>4. WaiterInv'
    BY <2>1, <2>2, <2>3 DEF ProcInv, WaiterInv, Exited
  <2> QED
    BY <1>1, <2>1, <2>2, <2>4, CallerOnly
<1>4. CASE Stopped \/ CancelAgain
  <2>1. PICK why \in {waiter.why, "cancelled"}, incomplete \in BOOLEAN :
          /\ waiter' = [waiter EXCEPT !.pc = "returned", !.why = why, !.incomplete = incomplete]
          /\ waiter.pc = "stopping" /\ UNCHANGED <<owned, process, worker, flow, wrote, eof, report>>
    <3>1. CASE Stopped
      <4>1. waiter.why \in {waiter.why, "cancelled"} /\ waiter.incomplete \in BOOLEAN
        BY <1>1
      <4>2. waiter' = [waiter EXCEPT !.pc = "returned", !.why = waiter.why, !.incomplete = waiter.incomplete]
        BY <1>1, <3>1 DEF Stopped
      <4> QED
        BY <3>1, <4>1, <4>2 DEF Stopped
    <3>2. CASE CancelAgain
      BY <3>2 DEF CancelAgain
    <3> QED
      BY <1>4, <3>1, <3>2
  <2>2. waiter.why # "none" /\ waiter.answer = "none"
    BY <2>1 DEF ProcInv, WaiterInv
  <2>3. why # "none" /\ why \in {"none", "timeout", "cancelled", "limit"}
    BY <1>1, <2>1, <2>2
  <2>4. waiter' \in Waiter /\ waiter'.pc = "returned" /\ waiter'.why # "none" /\ waiter'.answer = "none"
    BY <1>1, <2>1, <2>2, <2>3
  <2>5. Alive' = Alive
    BY <2>1 DEF Alive
  <2>6. WaiterInv'
    BY <2>1, <2>4, <2>5 DEF ProcInv, WaiterInv, Exited
  <2> QED
    BY <1>1, <2>1, <2>4, <2>6, CallerOnly
<1>5. CASE ReportExit
  <2>1. /\ report = "closing" /\ Exited /\ report' = (IF Clean(worker.code) THEN "clean" ELSE "unknown")
        /\ UNCHANGED <<owned, process, worker, flow, wrote, eof, waiter>>
    BY <1>5 DEF ReportExit
  <2>2. owned
    BY <2>1 DEF ProcInv, WaiterInv
  <2>3. Clean(worker.code) /\ worker.code # "refused" => Alive = {}
    BY <2>1, <2>2 DEF ProcInv, WorkerInv, Clean
  <2>4. Alive' = Alive
    BY <2>1 DEF Alive
  <2>5. report' \in {"none", "closing", "clean", "unknown"} /\ (report' = "clean" => (worker.code # "refused" => Alive = {}))
    BY <2>1, <2>3
  <2>6. waiter.pc # "idle"
    BY <2>1 DEF ProcInv, WaiterInv
  <2>7. WaiterInv'
    BY <2>1, <2>2, <2>4, <2>5, <2>6 DEF ProcInv, WaiterInv, Exited
  <2> QED
    BY <1>1, <2>1, <2>5, <2>7, CallerOnly
<1>6. ASSUME NEW answer \in {"allow", "deny", "error", "cancelled"}, HookAnswer(answer) PROVE ProcInv'
  <2>1. /\ waiter.pc = "closing" /\ waiter' = [waiter EXCEPT !.pc = "returned", !.answer = answer]
        /\ (answer = "allow" => waiter.why = "none")
        /\ UNCHANGED <<owned, process, worker, flow, wrote, eof, report>>
    BY <1>6 DEF HookAnswer
  <2>2. waiter' \in Waiter /\ waiter'.pc = "returned" /\ waiter'.why = waiter.why /\ waiter'.answer = answer
    BY <1>1, <1>6, <2>1
  <2>3. Alive' = Alive
    BY <2>1 DEF Alive
  <2>4. WaiterInv'
    BY <2>1, <2>2, <2>3 DEF ProcInv, WaiterInv, Exited
  <2> QED
    BY <1>1, <2>1, <2>2, <2>4, CallerOnly
<1> QED
  BY <1>3, <1>4, <1>5, <1>6

\* The caller starts the worker.
LEMMA LaunchStep ==
  ASSUME ProcInv, Launch
  PROVE  ProcInv'
<1>1. /\ waiter.pc = "idle" /\ waiter' = [waiter EXCEPT !.pc = "waiting", !.reading = TRUE]
      /\ worker' = [worker EXCEPT !.pc = "starting"]
      /\ UNCHANGED <<owned, process, flow, wrote, eof, report>>
  BY DEF Launch
<1>2. worker.pc = "unborn" /\ report = "none" /\ waiter.answer = "none"
  BY <1>1 DEF ProcInv, WaiterInv
<1>3. worker' \in [pc : {"unborn", "starting", "relay", "cleanup", "exited"}, interrupted : BOOLEAN,
                   code : {"none", "done", "error", "interrupted", "left", "125", "killed", "refused"}]
      /\ worker'.pc = "starting" /\ worker'.code = worker.code
  BY <1>1 DEF ProcInv, ProcShape
<1>4. waiter' \in [pc : {"idle", "waiting", "closing", "stopping", "returned"},
                   why : {"none", "timeout", "cancelled", "limit"}, incomplete : BOOLEAN, reading : BOOLEAN,
                   answer : {"none", "allow", "deny", "error", "cancelled"}]
      /\ waiter'.pc = "waiting" /\ waiter'.answer = waiter.answer
  BY <1>1 DEF ProcInv, ProcShape
<1>5. Alive' = Alive /\ (\A rank : Descends(rank)' <=> Descends(rank))
  BY <1>1 DEF Alive, Descends
<1>6. ~Exited /\ ~Exited'
  BY <1>2, <1>3 DEF Exited
<1>7. ProcShape'
  BY <1>1, <1>3, <1>4 DEF ProcInv, ProcShape
<1>8. TreeInv' /\ WorkerInv' /\ FlowInv'
  BY <1>1, <1>2, <1>3, <1>5, <1>6 DEF ProcInv, TreeInv, WorkerInv, FlowInv, Exited
<1>9. WaiterInv'
  BY <1>1, <1>2, <1>4, <1>5 DEF ProcInv, WaiterInv
<1> QED
  BY <1>7, <1>8, <1>9 DEF ProcInv

\* Timeout, cancellation or too much output; and the end of the owner.
LEMMA StopSteps ==
  ASSUME ProcInv, (\E why \in {"timeout", "cancelled", "limit"} : Stop(why)) \/ CloseOwner
  PROVE  ProcInv'
<1>1. CASE CloseOwner
  <2>1. /\ waiter.pc = "closing" /\ report = "none" /\ report' = "closing" /\ worker' = Terminated
        /\ UNCHANGED <<owned, process, flow, wrote, eof, waiter>>
    BY <1>1 DEF CloseOwner
  <2>2. /\ worker' \in [pc : {"unborn", "starting", "relay", "cleanup", "exited"}, interrupted : BOOLEAN,
                        code : {"none", "done", "error", "interrupted", "left", "125", "killed", "refused"}]
        /\ TreeInv' /\ WorkerInv' /\ FlowInv' /\ (Exited => Exited') /\ Alive' = Alive
    BY <2>1, TerminatedIs
  <2>3. ProcShape'
    BY <2>1, <2>2 DEF ProcInv, ProcShape
  <2>4. owned
    BY <2>1 DEF ProcInv, WaiterInv
  <2>5. WaiterInv'
    BY <2>1, <2>2, <2>4 DEF ProcInv, WaiterInv
  <2> QED
    BY <2>2, <2>3, <2>5 DEF ProcInv
<1>2. ASSUME NEW why \in {"timeout", "cancelled", "limit"}, Stop(why) PROVE ProcInv'
  <2>1. /\ waiter.pc = "waiting"
        /\ waiter' = [waiter EXCEPT !.pc = IF owned THEN "closing" ELSE "stopping", !.why = why, !.reading = ~owned]
        /\ worker' = (IF owned THEN worker ELSE Terminated)
        /\ UNCHANGED <<owned, process, flow, wrote, eof, report>>
    BY <1>2 DEF Stop
  <2>2. waiter' \in [pc : {"idle", "waiting", "closing", "stopping", "returned"},
                     why : {"none", "timeout", "cancelled", "limit"}, incomplete : BOOLEAN, reading : BOOLEAN,
                     answer : {"none", "allow", "deny", "error", "cancelled"}]
        /\ waiter'.pc = (IF owned THEN "closing" ELSE "stopping") /\ waiter'.why = why
        /\ waiter'.answer = waiter.answer
    BY <1>2, <2>1 DEF ProcInv, ProcShape
  <2>3. waiter.answer = "none"
    BY <2>1 DEF ProcInv, WaiterInv
  <2>4. /\ worker' \in [pc : {"unborn", "starting", "relay", "cleanup", "exited"}, interrupted : BOOLEAN,
                        code : {"none", "done", "error", "interrupted", "left", "125", "killed", "refused"}]
        /\ TreeInv' /\ WorkerInv' /\ FlowInv' /\ (Exited => Exited') /\ Alive' = Alive
    <3>1. CASE owned
      <4>1. worker' = worker /\ Alive' = Alive /\ (\A rank : Descends(rank)' <=> Descends(rank))
        BY <2>1, <3>1 DEF Alive, Descends
      <4>2. worker' \in [pc : {"unborn", "starting", "relay", "cleanup", "exited"}, interrupted : BOOLEAN,
                        code : {"none", "done", "error", "interrupted", "left", "125", "killed", "refused"}]
        BY <4>1 DEF ProcInv, ProcShape
      <4>3. TreeInv' /\ WorkerInv' /\ FlowInv'
        BY <2>1, <4>1 DEF ProcInv, TreeInv, WorkerInv, FlowInv, Exited
      <4> QED
        BY <4>1, <4>2, <4>3 DEF Exited
    <3>2. CASE ~owned
      BY <2>1, <3>2, TerminatedIs
    <3> QED
      BY <3>1, <3>2
  <2>5. ProcShape'
    BY <2>1, <2>2, <2>4 DEF ProcInv, ProcShape
  <2>6. WaiterInv'
    BY <2>1, <2>2, <2>3, <2>4 DEF ProcInv, WaiterInv
  <2> QED
    BY <2>4, <2>5, <2>6 DEF ProcInv
<1> QED
  BY <1>1, <1>2

\* The owner gives up, and kills the worker.
LEMMA ReportLimitStep ==
  ASSUME ProcInv, ReportLimit
  PROVE  ProcInv'
<1>1. /\ report = "closing" /\ ~Exited /\ report' = "unknown"
      /\ worker' = [worker EXCEPT !.pc = "exited", !.code = "killed"] /\ process' = Adopted("init", process)
      /\ UNCHANGED <<owned, flow, wrote, eof, waiter>>
  BY DEF ReportLimit, Gone
<1>2. ProcShape /\ owned /\ waiter.pc # "idle"
  BY <1>1 DEF ProcInv, WaiterInv
<1>3. /\ process' \in [Procs -> [state : {"unborn", "alive", "dead"}, parent : Procs \cup {"worker", "init", "none"},
                                 pipe : BOOLEAN, group : BOOLEAN, stuck : BOOLEAN]]
      /\ Alive' = Alive /\ \A p \in Procs : process'[p].pipe = process[p].pipe
  BY <1>1, <1>2, AdoptedIs
<1>4. Alive' \subseteq Alive /\ \A p \in Alive' : process'[p].pipe = process[p].pipe
  BY <1>3 DEF Alive
<1>5. /\ worker' \in [pc : {"unborn", "starting", "relay", "cleanup", "exited"}, interrupted : BOOLEAN,
                      code : {"none", "done", "error", "interrupted", "left", "125", "killed", "refused"}]
      /\ worker'.pc = "exited" /\ TreeInv' /\ WorkerInv' /\ FlowInv'
  BY <1>1, <1>3, <1>4, WorkerEnds
<1>6. ProcShape'
  BY <1>1, <1>2, <1>3, <1>5 DEF ProcShape
<1>7. WaiterInv'
  BY <1>1, <1>2, <1>5 DEF ProcInv, WaiterInv, Exited
<1> QED
  BY <1>5, <1>6, <1>7 DEF ProcInv

\* After the limit what is left of the group dies, and the rest goes to init.
LEMMA KilledIs ==
  ASSUME ProcShape, NEW set \in SUBSET Alive, process' = Killed(Adopted("init", process), set)
  PROVE  /\ process' \in [Procs -> [state : {"unborn", "alive", "dead"}, parent : Procs \cup {"worker", "init", "none"},
                                    pipe : BOOLEAN, group : BOOLEAN, stuck : BOOLEAN]]
         /\ Alive' \subseteq Alive
         /\ \A p \in Alive' : process'[p].pipe = process[p].pipe
<1> DEFINE Process == [state : {"unborn", "alive", "dead"}, parent : Procs \cup {"worker", "init", "none"},
                       pipe : BOOLEAN, group : BOOLEAN, stuck : BOOLEAN]
           table == Adopted("init", process)
<1>1. ASSUME NEW p \in Procs
      PROVE  /\ process'[p] \in Process
             /\ p \in set => process'[p].state = "dead"
             /\ p \notin set => process'[p].state = process[p].state /\ process'[p].pipe = process[p].pipe
  <2>1. process[p] \in Process
    BY DEF ProcShape
  <2>2. table[p] = IF process[p].parent = "worker" THEN [process[p] EXCEPT !.parent = "init"] ELSE process[p]
    BY DEF Adopted
  <2>3. table[p] \in Process /\ table[p].state = process[p].state /\ table[p].pipe = process[p].pipe
    BY <2>1, <2>2
  <2>4. process'[p] = IF p \in set THEN DeadProcess
                      ELSE IF table[p].parent \in set THEN [table[p] EXCEPT !.parent = "init"] ELSE table[p]
    BY DEF Killed
  <2> HIDE DEF table
  <2>5. CASE p \in set
    <3>1. process'[p] = [state |-> "dead", parent |-> "none", pipe |-> FALSE, group |-> FALSE, stuck |-> FALSE]
      BY <2>4, <2>5 DEF DeadProcess, NotAlive
    <3>2. process'[p] \in Process
      BY ONLY <3>1
    <3>3. process'[p].state = "dead"
      BY <3>1
    <3> QED
      BY <2>5, <3>2, <3>3
  <2>6. CASE p \notin set
    <3>1. process'[p] = table[p] \/ process'[p] = [table[p] EXCEPT !.parent = "init"]
      BY <2>4, <2>6
    <3>2. process'[p] \in Process /\ process'[p].state = table[p].state /\ process'[p].pipe = table[p].pipe
      BY <2>3, <3>1
    <3> QED
      BY <2>3, <2>6, <3>2
  <2> QED
    BY <2>5, <2>6
<1>2. process' = [p \in Procs |-> process'[p]]
  BY DEF Killed
<1>3. process' \in [Procs -> Process]
  BY <1>1, <1>2
<1>4. Alive' \subseteq Alive
  BY <1>1 DEF Alive
<1>5. \A p \in Alive' : p \in Procs /\ p \notin set
  BY <1>1 DEF Alive
<1>6. \A p \in Alive' : process'[p].pipe = process[p].pipe
  BY <1>1, <1>5
<1> QED
  BY <1>3, <1>4, <1>6

\* The step at the limit keeps the invariant.
LEMMA StopLimitStep ==
  ASSUME ProcInv, StopLimit
  PROVE  ProcInv'
<1> DEFINE set == {p \in Alive \ elevated : process[p].group /\ ~process[p].stuck}
<1>1. /\ waiter.pc = "stopping" /\ process' = Killed(Adopted("init", process), set)
      /\ worker' = (IF Exited THEN worker ELSE [worker EXCEPT !.pc = "exited", !.code = "killed"])
      /\ waiter' = [waiter EXCEPT !.pc = "returned", !.incomplete = TRUE, !.reading = FALSE]
      /\ UNCHANGED <<owned, flow, wrote, eof, report>>
  BY DEF StopLimit
<1>2. set \in SUBSET Alive /\ ProcShape
  BY DEF ProcInv
<1> HIDE DEF set
<1>3. /\ process' \in [Procs -> [state : {"unborn", "alive", "dead"}, parent : Procs \cup {"worker", "init", "none"},
                                 pipe : BOOLEAN, group : BOOLEAN, stuck : BOOLEAN]]
      /\ Alive' \subseteq Alive /\ \A p \in Alive' : process'[p].pipe = process[p].pipe
  BY <1>1, <1>2, KilledIs
<1>4. /\ worker' \in [pc : {"unborn", "starting", "relay", "cleanup", "exited"}, interrupted : BOOLEAN,
                      code : {"none", "done", "error", "interrupted", "left", "125", "killed", "refused"}]
      /\ worker'.pc = "exited" /\ TreeInv' /\ WorkerInv' /\ FlowInv'
  <2>1. CASE Exited
    <3>1. worker' = worker /\ worker.pc = "exited"
      BY <1>1, <2>1 DEF Exited
    <3>2. TreeInv' /\ WorkerInv'
      BY <1>1, <1>3, <3>1 DEF ProcInv, TreeInv, WorkerInv, Exited
    <3>3. FlowInv'
      BY <1>1, <1>3 DEF ProcInv, FlowInv
    <3>4. worker' \in [pc : {"unborn", "starting", "relay", "cleanup", "exited"}, interrupted : BOOLEAN,
                       code : {"none", "done", "error", "interrupted", "left", "125", "killed", "refused"}]
      BY <3>1 DEF ProcInv, ProcShape
    <3> QED
      BY <3>1, <3>2, <3>3, <3>4
  <2>2. CASE ~Exited
    BY <1>1, <1>3, <2>2, WorkerEnds
  <2> QED
    BY <2>1, <2>2
<1>5. waiter' \in [pc : {"idle", "waiting", "closing", "stopping", "returned"},
                   why : {"none", "timeout", "cancelled", "limit"}, incomplete : BOOLEAN, reading : BOOLEAN,
                   answer : {"none", "allow", "deny", "error", "cancelled"}]
      /\ waiter'.pc = "returned" /\ waiter'.why = waiter.why /\ waiter'.answer = waiter.answer
  BY <1>1 DEF ProcInv, ProcShape
<1>6. waiter.why # "none" /\ waiter.answer = "none"
  BY <1>1 DEF ProcInv, WaiterInv
<1>7. ProcShape'
  BY <1>1, <1>2, <1>3, <1>4, <1>5 DEF ProcShape
<1>8. Alive = {} => Alive' = {}
  BY <1>3
<1>9. WaiterInv'
  BY <1>1, <1>4, <1>5, <1>6, <1>8 DEF ProcInv, WaiterInv, Exited
<1> QED
  BY <1>4, <1>7, <1>9 DEF ProcInv

\* In the beginning there is nothing.
LEMMA NothingYet == ProcInit => ProcInv
<1> SUFFICES ASSUME ProcInit PROVE ProcInv
  OBVIOUS
<1>1. /\ owned \in BOOLEAN /\ process = [p \in Procs |-> Unborn]
      /\ worker = [pc |-> "unborn", interrupted |-> FALSE, code |-> "none"]
      /\ flow = [command |-> 0, worker |-> 0, out |-> 0, read |-> 0] /\ wrote = 0 /\ eof = FALSE
      /\ waiter = [pc |-> "idle", why |-> "none", incomplete |-> FALSE, reading |-> FALSE, answer |-> "none"]
      /\ report = "none"
  BY DEF ProcInit
<1>2. \A p \in Procs : process[p] = [state |-> "unborn", parent |-> "none", pipe |-> FALSE, group |-> FALSE,
                                     stuck |-> FALSE]
  BY <1>1 DEF Unborn, NotAlive
<1>3. Alive = {} /\ process[TheCommand].state = "unborn"
  BY <1>2, OwnName DEF Alive
<1>4. process \in [Procs -> [state : {"unborn", "alive", "dead"}, parent : Procs \cup {"worker", "init", "none"},
                             pipe : BOOLEAN, group : BOOLEAN, stuck : BOOLEAN]]
  <2>1. Unborn \in [state : {"unborn", "alive", "dead"}, parent : Procs \cup {"worker", "init", "none"},
                    pipe : BOOLEAN, group : BOOLEAN, stuck : BOOLEAN]
    BY DEF Unborn, NotAlive
  <2> QED
    BY <1>1, <2>1
<1>5. ProcShape
  BY <1>1, <1>4 DEF ProcShape
<1>6. TreeInv
  <2> DEFINE rank == [p \in Procs |-> 0]
  <2>1. rank \in [Procs -> Nat]
    OBVIOUS
  <2>2. Descends(rank)
    BY <1>3 DEF Descends
  <2> QED
    BY <2>1, <2>2 DEF TreeInv
<1>7. WorkerInv /\ FlowInv /\ WaiterInv
  BY <1>1, <1>3 DEF WorkerInv, FlowInv, WaiterInv, Exited
<1> QED
  BY <1>5, <1>6, <1>7 DEF ProcInv

\* A step that leaves all as it is, but for whom the worker may signal.
LEMMA NothingHappens ==
  ASSUME ProcInv, UNCHANGED proc_vars \/ \E p \in Procs : Elevate(p)
  PROVE  ProcInv'
<1>1. UNCHANGED <<owned, process, worker, flow, wrote, eof, waiter, report>>
  BY DEF proc_vars, Elevate
<1>2. Alive' = Alive
  BY <1>1 DEF Alive
<1>3. WaiterInv'
  BY <1>1, <1>2 DEF ProcInv, WaiterInv, Exited
<1> QED
  BY <1>1, <1>3, CallerOnly DEF ProcInv, ProcShape

\* What the invariant says of the command is what the run checks.
LEMMA ContainedThen == ProcInv => CommandContained
<1> SUFFICES ASSUME ProcInv PROVE CommandContained
  OBVIOUS
<1>1. NothingLeft
  BY DEF ProcInv, WorkerInv, FlowInv, NothingLeft
<1>2. CleanIsClean
  BY DEF ProcInv, WaiterInv, CleanIsClean
<1>3. OutputWhole
  <2>1. SUFFICES ASSUME waiter.pc = "returned", worker.code = "done", waiter.why = "none" \/ waiter.answer = "allow"
                 PROVE  flow.read = wrote
    BY DEF OutputWhole
  <2>2. waiter.why = "none"
    BY <2>1 DEF ProcInv, WaiterInv
  <2>3. flow.out = 0
    BY <2>1, <2>2 DEF ProcInv, WaiterInv
  <2>4. flow.worker = 0 /\ flow.command = 0
    BY <2>1 DEF ProcInv, WorkerInv, FlowInv
  <2>5. flow.read \in Nat /\ wrote = flow.command + flow.worker + flow.out + flow.read
    BY DEF ProcInv, ProcShape, FlowInv
  <2> QED
    BY <2>3, <2>4, <2>5
<1> QED
  BY <1>1, <1>2, <1>3 DEF CommandContained

\* Whatever a command forks, detaches, leaves hanging, gives another identity or kills: the worker
\* that ends by itself, and not by a signal that was refused it, leaves nothing of it behind unsaid,
\* a clean end is one, and a result that was waited for is whole
\* (run_process, linux_process_worker, LocalProcessOwner, run_hook_command).
THEOREM Contained == ProcSpec => []CommandContained
<1>1. ProcInit => ProcInv
  BY NothingYet
<1>2. ProcInv /\ [ProcNext]_proc_vars => ProcInv'
  <2> SUFFICES ASSUME ProcInv, [ProcNext]_proc_vars PROVE ProcInv'
    OBVIOUS
  <2>1. ASSUME NEW p \in Procs, Detach(p) \/ WriteOutput(p) \/ GetStuck(p) \/ GetFree(p) PROVE ProcInv'
    BY <2>1, ProcessSteps
  <2>2. ASSUME NEW p \in Procs, ExitProcess(p) \/ KillChild(p) PROVE ProcInv'
    BY <2>2, EndSteps
  <2>3. ASSUME NEW p \in Procs, NEW q \in Procs, NEW holds \in BOOLEAN, Fork(p, q, holds) PROVE ProcInv'
    BY <2>3, ForkStep
  <2>4. CASE StartCommand
    BY <2>4, StartStep
  <2>5. CASE RelayRead \/ RelayEof \/ RelayWrite \/ ReadOutput
    BY <2>5, RelaySteps, LoopSteps
  <2>6. CASE FinishCommand \/ LeaveLoop
    BY <2>6, LoopSteps, GoneSteps
  <2>7. CASE FailToStart \/ CleanedUp \/ LeaveCleanup \/ KillRefused
    BY <2>7, GoneSteps
  <2>8. CASE Launch
    BY <2>8, LaunchStep
  <2>9. CASE Collect \/ Stopped \/ CancelAgain \/ ReportExit
             \/ \E answer \in {"allow", "deny", "error", "cancelled"} : HookAnswer(answer)
    BY <2>9, CallerSteps
  <2>10. CASE (\E why \in {"timeout", "cancelled", "limit"} : Stop(why)) \/ CloseOwner
    BY <2>10, StopSteps
  <2>11. CASE StopLimit
    BY <2>11, StopLimitStep
  <2>12. CASE ReportLimit
    BY <2>12, ReportLimitStep
  <2>13. CASE UNCHANGED proc_vars \/ \E p \in Procs : Elevate(p)
    BY <2>13, NothingHappens
  <2> QED
    BY <2>1, <2>2, <2>3, <2>4, <2>5, <2>6, <2>7, <2>8, <2>9, <2>10, <2>11, <2>12, <2>13 DEF ProcNext
<1>3. ProcInv => CommandContained
  BY ContainedThen
<1> QED
  BY <1>1, <1>2, <1>3, PTL DEF ProcSpec

-----------------------------------------------------------------------------
(***************************************************************************)
(* Campaign.                                                               *)
(***************************************************************************)

\* The types that the proof needs.
Phases == {"prepare", "setup", "open", "agent", "close", "capture", "grade", "report", "record", "interrupted"}
File == [freeze : Nat, state : {"ready", "running", "blocked", "complete"},
         slot : [Slots -> {"not_started", "started", "finished"}], passed : [Slots -> BOOLEAN]]
Case == [workspace : {"none", "there", "kept", "gone"}, alive : BOOLEAN, tree : Nat, foul : BOOLEAN,
         session : BOOLEAN, requests : Nat, answered : Nat, failed : BOOLEAN, accounted : BOOLEAN,
         result : {"none", "verified", "failed"}, cleanup : Reports, candidate : Nat, captured : BOOLEAN,
         suite : {"frozen", "edited"}, verifier : {"clean", "unknown"},
         evidence : {"none", "read", "unreadable"}, reasons : BOOLEAN, left : {"no", "error", "cancelled"}]
Beginning == [slot : Slots, invocation : Nat, commit : Nat]
CampShape ==
  /\ inputs \in [commit : Nat, suite : {"frozen", "edited"}, meddled : Nat]
  /\ campaignFile = <<>> \/ \E file \in File : campaignFile = <<file>>
  /\ runner \in [at : Phases \cup {"idle", "loop"}, copy : File \cup {<<>>}, slot : 0 .. CampaignSlots,
                 invocation : Nat, commit : Nat, faults : Nat]
  /\ attempt \in Case
  /\ began \in Seq(Beginning) /\ stopped \subseteq [slot : Slots, invocation : Nat]

\* Where a case is tells what its workspace and its candidate are.
CaseInv(at, a) ==
  /\ at \in {"idle", "loop", "prepare"} => a.workspace = "none" /\ ~a.alive
  /\ at \in {"setup", "open", "agent", "close"} => a.workspace = "there"
  /\ at \in {"capture", "grade"} => ~a.alive /\ a.cleanup = "clean"
  /\ at \notin {"grade", "report", "record", "interrupted"} => ~a.captured
  /\ at = "grade" /\ a.captured => a.candidate = a.tree
  /\ at \in {"report", "record", "interrupted"} /\ CasePassed(a) /\ a.suite = "frozen" =>
       a.tree \in Correct /\ ~a.foul /\ ~a.alive /\ a.cleanup = "clean"
  /\ a.workspace = "gone" => ~a.alive

\* Slots are taken in order, and a complete campaign has finished them.
InOrder(file) ==
  /\ \A s, t \in Slots : s < t /\ file.slot[s] = "not_started" => file.slot[t] = "not_started"
  /\ file.state = "complete" => \A s \in Slots : file.slot[s] = "finished"

\* The invocation that runs has the file as it is, and one slot at most is started.
FileInv ==
  /\ campaignFile # <<>> => InOrder(campaignFile[1])
  /\ ~Doing("idle") => /\ campaignFile = <<runner.copy>> /\ runner.copy \in File
                       /\ runner.commit = runner.copy.freeze /\ runner.copy.state # "complete"
  /\ Doing("loop") => \A s \in Slots : runner.copy.slot[s] # "started"
  /\ runner.at \in Phases =>
       /\ runner.slot \in Slots /\ runner.copy.slot[runner.slot] = "started"
       /\ \A s \in Slots : s # runner.slot => runner.copy.slot[s] # "started"

\* The agents that began, and the reasons to stop.
BeganInv ==
  /\ began # <<>> => campaignFile # <<>>
  /\ \A i \in 1 .. Len(began) : /\ campaignFile[1].slot[began[i].slot] # "not_started"
                                /\ began[i].commit = campaignFile[1].freeze
  /\ runner.at \in {"prepare", "setup", "open"} => \A i \in 1 .. Len(began) : began[i].slot < runner.slot
  /\ runner.at \in Phases => \A i \in 1 .. Len(began) : began[i].slot <= runner.slot
  /\ \A stop \in stopped : stop.invocation <= runner.invocation
  /\ ~Doing("idle") => \A stop \in stopped : stop.invocation < runner.invocation

CampInv == CampShape /\ CaseInv(runner.at, attempt) /\ FileInv /\ BeganInv /\ SlotsOnce

\* Within a case only the attempt and the phase change.
LEMMA CaseStep ==
  ASSUME CampInv, runner.at \in Phases, NEW at \in Phases, runner' = [runner EXCEPT !.at = at],
         at \in {"prepare", "setup", "open"} => runner.at \in {"prepare", "setup", "open"},
         UNCHANGED <<inputs, campaignFile, began, stopped>>, attempt' \in Case, CaseInv(at, attempt')
  PROVE  CampInv'
<1>1. runner \in [at : Phases \cup {"idle", "loop"}, copy : File \cup {<<>>}, slot : 0 .. CampaignSlots,
                  invocation : Nat, commit : Nat, faults : Nat]
  BY DEF CampInv, CampShape
<1>2. /\ runner'.at = at /\ runner'.copy = runner.copy /\ runner'.slot = runner.slot
      /\ runner'.invocation = runner.invocation /\ runner'.commit = runner.commit
      /\ runner' \in [at : Phases \cup {"idle", "loop"}, copy : File \cup {<<>>}, slot : 0 .. CampaignSlots,
                      invocation : Nat, commit : Nat, faults : Nat]
  BY <1>1
<1>3. at \notin {"idle", "loop"} /\ runner.at \notin {"idle", "loop"}
  BY DEF Phases
<1>4. CampShape'
  BY <1>2 DEF CampInv, CampShape
<1>5. FileInv'
  BY <1>2, <1>3 DEF CampInv, FileInv, Doing
<1>6. BeganInv'
  BY <1>2, <1>3 DEF CampInv, BeganInv, Doing
<1>7. SlotsOnce'
  BY DEF CampInv, SlotsOnce
<1>8. CaseInv(runner'.at, attempt')
  BY <1>2
<1> QED
  BY <1>4, <1>5, <1>6, <1>7, <1>8 DEF CampInv

\* What is known of a case while it runs.
LEMMA CaseKnown ==
  ASSUME CampInv
  PROVE  /\ attempt \in Case /\ CaseInv(runner.at, attempt)
         /\ runner = [runner EXCEPT !.at = runner.at]
         /\ \A at : Goto(at) => runner' = [runner EXCEPT !.at = at]
<1>1. runner \in [at : Phases \cup {"idle", "loop"}, copy : File \cup {<<>>}, slot : 0 .. CampaignSlots,
                  invocation : Nat, commit : Nat, faults : Nat]
  BY DEF CampInv, CampShape
<1> QED
  BY <1>1 DEF CampInv, CampShape, Goto

\* A fixture is made or not.
LEMMA PrepareStep == ASSUME CampInv, PrepareFixture PROVE CampInv'
<1>1. PICK at \in {"setup", "report"} :
        /\ runner.at = "prepare" /\ runner' = [runner EXCEPT !.at = at]
        /\ attempt' = IF at = "setup" THEN [attempt EXCEPT !.workspace = "there", !.alive = TRUE]
                      ELSE [attempt EXCEPT !.workspace = "gone", !.left = "error"]
        /\ UNCHANGED <<inputs, campaignFile, began, stopped>>
  BY CaseKnown DEF PrepareFixture, Doing
<1>2. attempt \in Case /\ CaseInv(runner.at, attempt)
  BY CaseKnown
<1>3. CASE at = "setup"
  <2>1. attempt' \in Case /\ attempt'.workspace = "there" /\ attempt'.captured = attempt.captured
    BY <1>1, <1>2, <1>3 DEF Case
  <2>2. CaseInv("setup", attempt')
    BY <1>1, <1>2, <2>1 DEF CaseInv
  <2> QED
    BY <1>1, <1>3, <2>1, <2>2, CaseStep DEF Phases
<1>4. CASE at = "report"
  <2>1. attempt' \in Case /\ attempt'.workspace = "gone" /\ attempt'.alive = attempt.alive /\ attempt'.left = "error"
    BY <1>1, <1>2, <1>4 DEF Case
  <2>2. CaseInv("report", attempt')
    BY <1>1, <1>2, <2>1 DEF CaseInv, CasePassed
  <2> QED
    BY <1>1, <1>4, <2>1, <2>2, CaseStep DEF Phases
<1> QED
  BY <1>1, <1>3, <1>4

\* The setup succeeds.
LEMMA SetupStep == ASSUME CampInv, Advance("setup") PROVE CampInv'
<1>1. /\ runner.at = "setup" /\ runner' = [runner EXCEPT !.at = "open"]
      /\ attempt' = [attempt EXCEPT !.alive = FALSE, !.session = FALSE]
      /\ UNCHANGED <<inputs, campaignFile, began, stopped>>
  BY CaseKnown DEF Advance, Doing, PhaseAfter
<1>2. attempt \in Case /\ CaseInv(runner.at, attempt)
  BY CaseKnown
<1>3. attempt' \in Case /\ attempt'.workspace = attempt.workspace /\ attempt'.captured = attempt.captured
      /\ attempt'.alive = FALSE
  BY <1>1, <1>2 DEF Case
<1>4. CaseInv("open", attempt')
  BY <1>1, <1>2, <1>3 DEF CaseInv
<1> QED
  BY <1>1, <1>3, <1>4, CaseStep DEF Phases

\* Setup or opening fails.
LEMMA FailStep ==
  ASSUME CampInv, NEW phase \in {"setup", "open"}, NEW how \in Ways, FailBefore(phase, how)
  PROVE  CampInv'
<1>1. PICK said \in Reports, alive \in BOOLEAN :
        /\ runner.at = phase /\ runner' = [runner EXCEPT !.at = "report"] /\ (said # "unknown" => ~alive)
        /\ attempt' = Leave([attempt EXCEPT !.alive = alive, !.left = how, !.cleanup = said], said)
        /\ UNCHANGED <<inputs, campaignFile, began, stopped>>
  BY CaseKnown DEF FailBefore, Doing, StillAlive
<1>2. attempt \in Case /\ how \in {"error", "cancelled"}
  BY CaseKnown DEF Ways
<1> DEFINE a == [attempt EXCEPT !.alive = alive, !.left = how, !.cleanup = said]
<1>3. a \in Case /\ a.alive = alive /\ a.left = how
  BY <1>1, <1>2 DEF Case
<1>4. PICK w \in {"kept", "gone"} : attempt' = [a EXCEPT !.workspace = w] /\ (said = "unknown" => w = "kept")
  BY <1>1 DEF Leave
<1> HIDE DEF a
<1>5. attempt' \in Case /\ attempt'.alive = alive /\ attempt'.left = how /\ attempt'.workspace = w
  BY <1>3, <1>4 DEF Case
<1>6. CaseInv("report", attempt')
  BY <1>1, <1>2, <1>4, <1>5 DEF CaseInv, CasePassed
<1> QED
  BY <1>1, <1>5, <1>6, CaseStep DEF Phases

\* The agent works.
LEMMA AgentSteps ==
  ASSUME CampInv, StartRequest \/ FinishRequest \/ AgentActs \/ ProcessWrites
  PROVE  CampInv'
<1>1. attempt \in Case /\ CaseInv(runner.at, attempt) /\ runner' = [runner EXCEPT !.at = runner.at]
      /\ UNCHANGED <<inputs, campaignFile, began, stopped>>
  BY CaseKnown DEF StartRequest, FinishRequest, AgentActs, ProcessWrites
<1>2. CASE StartRequest
  <2>1. attempt' = [attempt EXCEPT !.requests = attempt.requests + 1] /\ runner.at = "agent"
    BY <1>2 DEF StartRequest, Doing
  <2>2. attempt' \in Case /\ attempt'.workspace = attempt.workspace /\ attempt'.captured = attempt.captured
    BY <1>1, <2>1 DEF Case
  <2>3. CaseInv("agent", attempt')
    BY <1>1, <2>1, <2>2 DEF CaseInv
  <2> QED
    BY <1>1, <2>1, <2>2, <2>3, CaseStep DEF Phases
<1>3. CASE FinishRequest
  <2>1. PICK failed \in BOOLEAN :
          /\ attempt' = [attempt EXCEPT !.answered = attempt.answered + 1, !.failed = attempt.failed \/ failed]
          /\ runner.at = "agent"
    BY <1>3 DEF FinishRequest, Doing
  <2>2. attempt' \in Case /\ attempt'.workspace = attempt.workspace /\ attempt'.captured = attempt.captured
    <3>1. attempt.answered + 1 \in Nat /\ (attempt.failed \/ failed) \in BOOLEAN
      BY <1>1 DEF Case
    <3> QED
      BY <1>1, <2>1, <3>1 DEF Case
  <2>3. CaseInv("agent", attempt')
    BY <1>1, <2>1, <2>2 DEF CaseInv
  <2> QED
    BY <1>1, <2>1, <2>2, <2>3, CaseStep DEF Phases
<1>4. CASE AgentActs
  <2>1. PICK foul \in BOOLEAN :
          /\ attempt' = [attempt EXCEPT !.tree = attempt.tree + 1, !.alive = TRUE, !.foul = attempt.foul \/ foul]
          /\ runner.at = "agent"
    BY <1>4 DEF AgentActs, Doing
  <2>2. attempt' \in Case /\ attempt'.workspace = attempt.workspace /\ attempt'.captured = attempt.captured
    <3>1. attempt.tree + 1 \in Nat /\ (attempt.foul \/ foul) \in BOOLEAN
      BY <1>1 DEF Case
    <3> QED
      BY <1>1, <2>1, <3>1 DEF Case
  <2>3. CaseInv("agent", attempt')
    BY <1>1, <2>1, <2>2 DEF CaseInv
  <2> QED
    BY <1>1, <2>1, <2>2, <2>3, CaseStep DEF Phases
<1>5. CASE ProcessWrites
  <2>1. attempt' = [attempt EXCEPT !.tree = attempt.tree + 1] /\ attempt.alive
        /\ attempt.workspace \in {"there", "kept"}
    BY <1>5 DEF ProcessWrites
  <2>2. /\ attempt' \in Case /\ attempt'.workspace = attempt.workspace /\ attempt'.captured = attempt.captured
        /\ attempt'.alive = attempt.alive /\ attempt'.cleanup = attempt.cleanup /\ attempt'.foul = attempt.foul
        /\ attempt'.left = attempt.left /\ attempt'.reasons = attempt.reasons /\ attempt'.result = attempt.result
        /\ attempt'.suite = attempt.suite
    <3>1. attempt.tree + 1 \in Nat
      BY <1>1 DEF Case
    <3>2. attempt' \in Case
      BY <1>1, <2>1, <3>1 DEF Case
    <3> QED
      BY <1>1, <2>1, <3>2 DEF Case
  <2>3. CaseInv(runner.at, attempt')
    BY <1>1, <2>1, <2>2 DEF CaseInv, CasePassed
  <2>4. runner.at \in Phases
    BY <1>1, <2>1 DEF CampInv, CampShape, CaseInv
  <2> QED
    BY <1>1, <2>2, <2>3, <2>4, CaseStep
<1> QED
  BY <1>2, <1>3, <1>4, <1>5

\* The turn ends.
LEMMA AgentEndsStep == ASSUME CampInv, AgentEnds PROVE CampInv'
<1>1. PICK result \in {attempt.result, "verified", "failed"}, accounted \in BOOLEAN,
           left \in {attempt.left, "error", "cancelled"} :
        /\ runner.at = "agent" /\ runner' = [runner EXCEPT !.at = "close"]
        /\ attempt' = [attempt EXCEPT !.requests = 0, !.answered = 0, !.failed = FALSE, !.result = result,
                                      !.accounted = accounted, !.left = left]
        /\ UNCHANGED <<inputs, campaignFile, began, stopped>>
  <2> DEFINE a == [attempt EXCEPT !.requests = 0, !.answered = 0, !.failed = FALSE]
             answered == attempt.answered = attempt.requests /\ ~attempt.failed
  <2>1. /\ runner.at = "agent" /\ runner' = [runner EXCEPT !.at = "close"]
        /\ UNCHANGED <<inputs, campaignFile, began, stopped>>
    BY CaseKnown DEF AgentEnds, Doing
  <2>2. attempt \in Case
    BY CaseKnown
  <2>3. a = [attempt EXCEPT !.requests = 0, !.answered = 0, !.failed = FALSE, !.result = attempt.result,
                            !.accounted = attempt.accounted, !.left = attempt.left]
    BY ZenonT(40), <2>2 DEF Case
  <2>4. CASE \E result \in {"verified", "failed"}, counted \in BOOLEAN :
               attempt' = [a EXCEPT !.result = result, !.accounted = counted /\ answered]
    <3>1. PICK result \in {"verified", "failed"}, counted \in BOOLEAN :
               attempt' = [a EXCEPT !.result = result, !.accounted = counted /\ answered]
      BY <2>4
    <3>2. (counted /\ answered) \in BOOLEAN
      OBVIOUS
    <3>3. attempt' = [attempt EXCEPT !.requests = 0, !.answered = 0, !.failed = FALSE, !.result = result,
                                     !.accounted = (counted /\ answered), !.left = attempt.left]
      BY ZenonT(40), <2>2, <3>1 DEF Case
    <3> QED
      BY <2>1, <3>2, <3>3
  <2>5. CASE \E how \in Ways : attempt' = [a EXCEPT !.left = how]
    <3>1. PICK how \in {"error", "cancelled"} : attempt' = [a EXCEPT !.left = how]
      BY <2>5 DEF Ways
    <3>2. attempt' = [attempt EXCEPT !.requests = 0, !.answered = 0, !.failed = FALSE, !.result = attempt.result,
                                     !.accounted = attempt.accounted, !.left = how]
      BY ZenonT(40), <2>2, <3>1 DEF Case
    <3>3. attempt.accounted \in BOOLEAN
      BY SMTT(30), <2>2 DEF Case
    <3> QED
      BY <2>1, <3>2, <3>3
  <2> QED
    BY <2>4, <2>5 DEF AgentEnds
<1>2. attempt \in Case /\ CaseInv(runner.at, attempt)
  BY CaseKnown
<1>3. attempt' \in Case /\ attempt'.workspace = attempt.workspace /\ attempt'.captured = attempt.captured
  <2>1. attempt.result \in {"none", "verified", "failed"} /\ attempt.left \in {"no", "error", "cancelled"}
    BY SMTT(30), <1>2 DEF Case
  <2>2. PICK r \in {"none", "verified", "failed"}, c \in BOOLEAN, w \in {"no", "error", "cancelled"} :
          attempt' = [attempt EXCEPT !.requests = 0, !.answered = 0, !.failed = FALSE, !.result = r,
                                     !.accounted = c, !.left = w]
    BY <1>1, <2>1
  <2> QED
    BY ZenonT(40), <1>2, <2>2 DEF Case
<1>4. CaseInv("close", attempt')
  BY <1>1, <1>2, <1>3 DEF CaseInv
<1> QED
  BY <1>1, <1>3, <1>4, CaseStep DEF Phases

\* The session is closed.
LEMMA CloseStep == ASSUME CampInv, CloseSession PROVE CampInv'
<1>1. attempt \in Case /\ CaseInv(runner.at, attempt) /\ runner.at = "close"
      /\ UNCHANGED <<inputs, campaignFile, began, stopped>>
  BY CaseKnown DEF CloseSession, Doing
<1>2. PICK said \in {"clean", "unknown"}, how \in {attempt.left} \cup Ways, alive \in BOOLEAN :
        /\ said # "unknown" => ~alive
        /\ LET closed == [attempt EXCEPT !.cleanup = said, !.alive = alive, !.left = how,
                                         !.reasons = (said = "unknown")]
           IN  attempt' = IF said = "unknown" THEN [closed EXCEPT !.workspace = "kept"] ELSE closed
  BY ZenonT(40) DEF CloseSession, StillAlive
<1>3. how \in {"no", "error", "cancelled"} /\ (said = "unknown") \in BOOLEAN
  BY SMTT(30), <1>1, <1>2 DEF Ways, Case
<1>4. runner' = [runner EXCEPT !.at = IF attempt'.cleanup = "clean" THEN "capture" ELSE "report"]
  BY CaseKnown DEF CloseSession, Goto
<1>5. CASE said = "unknown"
  <2>1. attempt' = [attempt EXCEPT !.cleanup = "unknown", !.alive = alive, !.left = how, !.reasons = TRUE,
                                   !.workspace = "kept"]
    BY ZenonT(40), <1>1, <1>2, <1>5 DEF Case
  <2>2. attempt' \in Case /\ attempt'.cleanup = "unknown" /\ attempt'.reasons = TRUE /\ attempt'.workspace = "kept"
    <3>1. "unknown" \in Reports /\ alive \in BOOLEAN /\ TRUE \in BOOLEAN
      BY <1>2 DEF Reports
    <3>2. attempt' \in Case
      BY ZenonT(40), <1>1, <1>3, <2>1, <3>1 DEF Case
    <3> QED
      BY SMTT(30), <1>1, <2>1, <3>2 DEF Case
  <2>3. CaseInv("report", attempt')
    BY <2>2 DEF CaseInv, CasePassed
  <2> QED
    BY <1>1, <1>4, <2>2, <2>3, CaseStep DEF Phases
<1>6. CASE said = "clean"
  <2>1. attempt' = [attempt EXCEPT !.cleanup = "clean", !.alive = FALSE, !.left = how, !.reasons = FALSE]
    BY ZenonT(40), <1>1, <1>2, <1>6 DEF Case
  <2>2. attempt' \in Case /\ attempt'.cleanup = "clean" /\ attempt'.alive = FALSE
        /\ attempt'.workspace = attempt.workspace /\ attempt'.captured = attempt.captured
    <3>1. "clean" \in Reports /\ FALSE \in BOOLEAN
      BY DEF Reports
    <3>2. attempt' \in Case
      BY ZenonT(40), <1>1, <1>3, <2>1, <3>1 DEF Case
    <3> QED
      BY SMTT(30), <1>1, <2>1, <3>2 DEF Case
  <2>3. CaseInv("capture", attempt')
    BY <1>1, <2>2 DEF CaseInv, CasePassed
  <2> QED
    BY <1>1, <1>4, <2>2, <2>3, CaseStep DEF Phases
<1> QED
  BY <1>2, <1>5, <1>6

\* What the agent left is captured.
LEMMA CaptureStep == ASSUME CampInv, CaptureCandidate PROVE CampInv'
<1>1. attempt \in Case /\ CaseInv(runner.at, attempt) /\ runner.at = "capture"
      /\ UNCHANGED <<inputs, campaignFile, began, stopped>>
  BY CaseKnown DEF CaptureCandidate, Doing
<1> DEFINE over == attempt.left # "no" \/ attempt.result = "none"
           at == IF over THEN "report" ELSE "grade"
<1>2. runner' = [runner EXCEPT !.at = at]
  BY CaseKnown DEF CaptureCandidate
<1>3. PICK left \in {attempt, [attempt EXCEPT !.workspace = "kept"], [attempt EXCEPT !.workspace = "gone"]} :
        \/ attempt' = [left EXCEPT !.candidate = attempt.tree, !.captured = TRUE,
                                   !.reasons = left.reasons \/ attempt.foul]
        \/ attempt' = [left EXCEPT !.workspace = "kept", !.reasons = TRUE]
  <2>1. Leave(attempt, "clean") \in {[attempt EXCEPT !.workspace = "kept"], [attempt EXCEPT !.workspace = "gone"]}
    BY DEF Leave
  <2> QED
    BY <2>1 DEF CaptureCandidate
<1>4. /\ left \in Case /\ left.alive = attempt.alive /\ left.cleanup = attempt.cleanup /\ left.tree = attempt.tree
      /\ left.captured = attempt.captured /\ left.left = attempt.left /\ left.result = attempt.result
  BY SMTT(30), <1>1, <1>3 DEF Case
<1>5. /\ attempt' \in Case /\ attempt'.alive = left.alive /\ attempt'.cleanup = left.cleanup
      /\ attempt'.tree = left.tree /\ attempt'.left = left.left /\ attempt'.result = left.result
      /\ attempt'.captured => attempt'.candidate = attempt'.tree
  <2>1. (left.reasons \/ attempt.foul) \in BOOLEAN /\ attempt.tree \in Nat /\ ~left.captured
    BY SMTT(30), <1>1, <1>4 DEF Case, CaseInv
  <2>2. CASE attempt' = [left EXCEPT !.candidate = attempt.tree, !.captured = TRUE,
                                     !.reasons = left.reasons \/ attempt.foul]
    <3>1. attempt' \in Case
      BY ZenonT(40), <1>4, <2>1, <2>2 DEF Case
    <3> QED
      BY SMTT(30), <1>4, <2>1, <2>2, <3>1 DEF Case
  <2>3. CASE attempt' = [left EXCEPT !.workspace = "kept", !.reasons = TRUE]
    <3>1. attempt' \in Case
      BY ZenonT(40), <1>4, <2>3 DEF Case
    <3> QED
      BY SMTT(30), <1>4, <2>1, <2>3, <3>1 DEF Case
  <2> QED
    BY <1>3, <2>2, <2>3
<1>6. CaseInv(at, attempt')
  BY <1>1, <1>4, <1>5 DEF CaseInv, CasePassed
<1>7. at \in Phases /\ at \notin {"prepare", "setup", "open"} /\ runner.at \in Phases
  BY <1>1 DEF Phases
<1> QED
  BY <1>1, <1>2, <1>5, <1>6, <1>7, CaseStep

\* The candidate is graded.
LEMMA GradeStep == ASSUME CampInv, Grade PROVE CampInv'
<1>1. attempt \in Case /\ CaseInv(runner.at, attempt) /\ runner.at = "grade"
      /\ runner' = [runner EXCEPT !.at = "report"] /\ UNCHANGED <<inputs, campaignFile, began, stopped>>
  BY CaseKnown DEF Grade, Doing
<1>2. PICK w \in {"kept", "gone"} : Leave(attempt, "clean") = [attempt EXCEPT !.workspace = w]
  BY DEF Leave
<1> DEFINE done == [attempt EXCEPT !.workspace = w]
<1>3. /\ done \in Case /\ done.tree = attempt.tree /\ done.alive = attempt.alive /\ done.foul = attempt.foul
      /\ done.cleanup = attempt.cleanup /\ done.candidate = attempt.candidate /\ done.suite = attempt.suite
      /\ done.result = attempt.result
  BY SMTT(30), <1>1 DEF Case
<1>4. \/ \E verifier \in {"clean", "unknown"} : attempt' = [done EXCEPT !.reasons = TRUE, !.verifier = verifier]
      \/ \E how \in Ways, verifier \in {"clean", "unknown"} :
           attempt' = [done EXCEPT !.left = how, !.verifier = verifier]
      \/ attempt' = [done EXCEPT !.left = "error"]
      \/ Gradable(attempt) /\ \E accepted \in Accepts(attempt) :
           attempt' = [done EXCEPT !.reasons = done.reasons \/ ~accepted \/ attempt.result # "verified"]
  BY <1>2 DEF Grade
<1> HIDE DEF done
<1>5. CASE \E verifier \in {"clean", "unknown"} : attempt' = [done EXCEPT !.reasons = TRUE, !.verifier = verifier]
  <2>1. attempt' \in Case /\ attempt'.reasons = TRUE /\ attempt'.alive = done.alive
    BY ZenonT(40), <1>3, <1>5 DEF Case
  <2>2. CaseInv("report", attempt')
    BY <1>1, <1>3, <2>1 DEF CaseInv, CasePassed
  <2> QED
    BY <1>1, <2>1, <2>2, CaseStep DEF Phases
<1>6. CASE \/ \E how \in Ways, verifier \in {"clean", "unknown"} :
                attempt' = [done EXCEPT !.left = how, !.verifier = verifier]
           \/ attempt' = [done EXCEPT !.left = "error"]
  <2>1. attempt' \in Case /\ attempt'.left # "no" /\ attempt'.alive = done.alive
    <3>1. CASE attempt' = [done EXCEPT !.left = "error"]
      BY SMTT(30), <1>3, <3>1 DEF Case
    <3>2. CASE \E how \in Ways, verifier \in {"clean", "unknown"} :
                 attempt' = [done EXCEPT !.left = how, !.verifier = verifier]
      <4>1. PICK how \in {"error", "cancelled"}, verifier \in {"clean", "unknown"} :
              attempt' = [done EXCEPT !.left = how, !.verifier = verifier]
        BY <3>2 DEF Ways
      <4> QED
        BY ZenonT(40), <1>3, <4>1 DEF Case
    <3> QED
      BY <1>6, <3>1, <3>2
  <2>2. CaseInv("report", attempt')
    BY <1>1, <1>3, <2>1 DEF CaseInv, CasePassed
  <2> QED
    BY <1>1, <2>1, <2>2, CaseStep DEF Phases
<1>7. CASE Gradable(attempt) /\ \E accepted \in Accepts(attempt) :
             attempt' = [done EXCEPT !.reasons = done.reasons \/ ~accepted \/ attempt.result # "verified"]
  <2>1. PICK accepted \in Accepts(attempt) :
             attempt' = [done EXCEPT !.reasons = done.reasons \/ ~accepted \/ attempt.result # "verified"]
    BY <1>7
  <2>2. (done.reasons \/ ~accepted \/ attempt.result # "verified") \in BOOLEAN
    OBVIOUS
  <2>3. attempt' \in Case
    BY ZenonT(40), <1>3, <2>1, <2>2 DEF Case
  <2>4. /\ attempt'.reasons = (done.reasons \/ ~accepted \/ attempt.result # "verified")
        /\ attempt'.alive = done.alive /\ attempt'.tree = done.tree /\ attempt'.foul = done.foul
        /\ attempt'.cleanup = done.cleanup /\ attempt'.suite = done.suite
    BY SMTT(30), <1>3, <2>1, <2>2 DEF Case
  <2>5. ~attempt'.reasons /\ attempt'.suite = "frozen" => attempt.candidate \in Correct
    BY <1>3, <2>1, <2>4 DEF Accepts
  <2>6. ~attempt.foul /\ attempt.candidate = attempt.tree /\ ~attempt.alive /\ attempt.cleanup = "clean"
    BY <1>1, <1>7 DEF Gradable, CaseInv
  <2>7. CaseInv("report", attempt')
    BY <1>3, <2>4, <2>5, <2>6 DEF CaseInv, CasePassed
  <2> QED
    BY <1>1, <2>3, <2>7, CaseStep DEF Phases
<1> QED
  BY <1>4, <1>5, <1>6, <1>7

\* The case is reported.
LEMMA ReportStep == ASSUME CampInv, Report PROVE CampInv'
<1>1. attempt \in Case /\ CaseInv(runner.at, attempt) /\ runner.at = "report"
      /\ UNCHANGED <<inputs, campaignFile, began, stopped>>
  BY CaseKnown DEF Report, Doing
<1>2. PICK at \in {"record", "interrupted"} : runner' = [runner EXCEPT !.at = at]
  BY CaseKnown DEF Report
<1>3. PICK evidence \in {"none", "read", "unreadable"} :
        attempt' = [attempt EXCEPT !.evidence = evidence, !.reasons = attempt.reasons \/ evidence = "unreadable"]
  BY DEF Report
<1>4. (attempt.reasons \/ evidence = "unreadable") \in BOOLEAN
  OBVIOUS
<1>5. attempt' \in Case
  BY <1>1, <1>3, <1>4 DEF Case
<1>6. /\ attempt'.reasons = (attempt.reasons \/ evidence = "unreadable") /\ attempt'.left = attempt.left
      /\ attempt'.alive = attempt.alive /\ attempt'.tree = attempt.tree /\ attempt'.foul = attempt.foul
      /\ attempt'.cleanup = attempt.cleanup /\ attempt'.suite = attempt.suite /\ attempt'.result = attempt.result
      /\ attempt'.workspace = attempt.workspace
  BY <1>1, <1>3, <1>4 DEF Case
<1>7. CaseInv(at, attempt')
  BY <1>1, <1>6 DEF CaseInv, CasePassed
<1> QED
  BY <1>1, <1>2, <1>5, <1>7, CaseStep DEF Phases

\* Somebody's agent begins.
LEMMA BeginStep == ASSUME CampInv, Advance("open") PROVE CampInv'
<1>1. /\ runner.at = "open" /\ runner' = [runner EXCEPT !.at = "agent"]
      /\ attempt' = [attempt EXCEPT !.alive = FALSE, !.session = TRUE]
      /\ began' = Append(began, [slot |-> runner.slot, invocation |-> runner.invocation, commit |-> runner.commit])
      /\ UNCHANGED <<inputs, campaignFile, stopped>>
  BY CaseKnown DEF Advance, Doing, PhaseAfter
<1> DEFINE new == [slot |-> runner.slot, invocation |-> runner.invocation, commit |-> runner.commit]
<1>2. /\ runner \in [at : Phases \cup {"idle", "loop"}, copy : File \cup {<<>>}, slot : 0 .. CampaignSlots,
                     invocation : Nat, commit : Nat, faults : Nat]
      /\ attempt \in Case /\ CaseInv("open", attempt) /\ began \in Seq(Beginning)
      /\ stopped \subseteq [slot : Slots, invocation : Nat]
  BY <1>1 DEF CampInv, CampShape
<1>3. /\ runner'.at = "agent" /\ runner'.copy = runner.copy /\ runner'.slot = runner.slot
      /\ runner'.invocation = runner.invocation /\ runner'.commit = runner.commit
      /\ runner' \in [at : Phases \cup {"idle", "loop"}, copy : File \cup {<<>>}, slot : 0 .. CampaignSlots,
                      invocation : Nat, commit : Nat, faults : Nat]
  <2>1. "agent" \in Phases
    BY DEF Phases
  <2> QED
    BY <1>1, <1>2, <2>1
<1>4. /\ runner.slot \in Slots /\ runner.copy.slot[runner.slot] = "started"
      /\ \A s \in Slots : s # runner.slot => runner.copy.slot[s] # "started"
      /\ campaignFile = <<runner.copy>> /\ runner.copy \in File /\ runner.commit = runner.copy.freeze
      /\ campaignFile[1] = runner.copy
  BY <1>1 DEF CampInv, FileInv, Doing, Phases
<1>5. new \in Beginning
  BY <1>2, <1>4 DEF Beginning
<1>6. /\ began' \in Seq(Beginning) /\ Len(began) \in Nat /\ Len(began') = Len(began) + 1
      /\ began'[Len(began) + 1] = new /\ \A i \in 1 .. Len(began) : began'[i] = began[i]
      /\ \A i \in 1 .. Len(began) : began[i] \in Beginning
  BY <1>1, <1>2, <1>5
<1>7. \A i \in 1 .. Len(began) : began[i].slot < runner.slot /\ began[i].slot \in Slots
  BY <1>1, <1>6 DEF CampInv, BeganInv, Beginning
<1>8. \A i \in 1 .. Len(began) : campaignFile[1].slot[began[i].slot] = "finished"
  <2> SUFFICES ASSUME NEW i \in 1 .. Len(began) PROVE runner.copy.slot[began[i].slot] = "finished"
    BY <1>4
  <2>1. runner.copy.slot[began[i].slot] \in {"not_started", "started", "finished"}
    BY <1>4, <1>7 DEF File
  <2>2. runner.copy.slot[began[i].slot] # "not_started"
    BY <1>4 DEF CampInv, BeganInv
  <2>3. began[i].slot # runner.slot
    BY <1>4, <1>7 DEF Slots
  <2> QED
    BY <1>4, <1>7, <2>1, <2>2, <2>3
<1>9. attempt' \in Case /\ attempt'.workspace = attempt.workspace /\ attempt'.captured = attempt.captured
      /\ attempt'.alive = FALSE
  BY <1>1, <1>2 DEF Case
<1>10. CaseInv("agent", attempt')
  BY <1>2, <1>9 DEF CaseInv
<1>11. CampShape'
  BY <1>1, <1>3, <1>6, <1>9 DEF CampInv, CampShape
<1>12. FileInv'
  BY <1>1, <1>3, <1>4 DEF CampInv, FileInv, Doing
<1>13. \A i \in 1 .. Len(began') : i \in 1 .. Len(began) \/ (i = Len(began) + 1 /\ began'[i] = new)
  BY <1>6
<1>14. ~Doing("idle")
  BY <1>1 DEF Doing
<1>15. BeganInv'
  <2>1. (began # <<>> => campaignFile # <<>>)'
    BY <1>1, <1>4
  <2>2. ASSUME NEW i \in 1 .. Len(began')
        PROVE  /\ campaignFile[1].slot[began'[i].slot] # "not_started" /\ began'[i].commit = campaignFile[1].freeze
               /\ began'[i].slot <= runner.slot
    <3>1. CASE i \in 1 .. Len(began)
      <4>1. began'[i] = began[i] /\ began[i].slot < runner.slot /\ began[i].slot \in Nat /\ runner.slot \in Nat
        BY <1>4, <1>6, <1>7, <3>1 DEF Slots
      <4> QED
        BY <3>1, <4>1 DEF CampInv, BeganInv
    <3>2. CASE began'[i] = new
      BY <1>4, <3>2 DEF Slots
    <3> QED
      BY <1>13, <3>1, <3>2
  <2>3. \A stop \in stopped : stop.invocation < runner.invocation /\ stop.invocation <= runner.invocation
    BY <1>14 DEF CampInv, BeganInv
  <2> QED
    BY <1>1, <1>3, <2>1, <2>2, <2>3 DEF BeganInv
<1>16. SlotsOnce'
  <2> SUFFICES ASSUME NEW i \in 1 .. Len(began'), NEW j \in 1 .. Len(began'), i < j
               PROVE  /\ began'[i].slot < began'[j].slot /\ began'[i].commit = began'[j].commit
                      /\ campaignFile'[1].slot[began'[i].slot] = "finished"
                      /\ \A stop \in stopped' : stop.slot = began'[i].slot => began'[j].invocation > stop.invocation
    BY DEF SlotsOnce
  <2>1. i \in 1 .. Len(began) /\ began'[i] = began[i]
    BY <1>6
  <2>2. CASE j \in 1 .. Len(began)
    <3>1. began'[j] = began[j]
      BY <1>6, <2>2
    <3> QED
      BY <1>1, <2>1, <2>2, <3>1 DEF CampInv, SlotsOnce
  <2>3. CASE began'[j] = new
    <3>1. began[i].commit = runner.commit
      BY <1>4, <2>1 DEF CampInv, BeganInv
    <3>2. \A stop \in stopped : runner.invocation > stop.invocation
      <4>1. \A stop \in stopped : stop.invocation < runner.invocation /\ stop.invocation \in Nat
        BY <1>2, <1>14 DEF CampInv, BeganInv
      <4> QED
        BY <1>2, <4>1
    <3> QED
      BY <1>1, <1>7, <1>8, <2>1, <2>3, <3>1, <3>2
  <2> QED
    BY <1>13, <2>2, <2>3
<1> QED
  BY <1>3, <1>10, <1>11, <1>12, <1>15, <1>16 DEF CampInv

\* Before a case and after it there is nothing of it.
LEMMA NoCase ==
  ASSUME NEW suite \in {"frozen", "edited"}
  PROVE  /\ NoAttempt \in Case /\ [NoAttempt EXCEPT !.suite = suite] \in Case
         /\ \A at \in {"idle", "loop", "prepare"} :
              CaseInv(at, NoAttempt) /\ CaseInv(at, [NoAttempt EXCEPT !.suite = suite])
<1>1. NoAttempt \in Case
  BY DEF NoAttempt, Case, Reports
<1>2. [NoAttempt EXCEPT !.suite = suite] \in Case
  BY <1>1 DEF Case
<1>3. ASSUME NEW a \in {NoAttempt, [NoAttempt EXCEPT !.suite = suite]}, NEW at \in {"idle", "loop", "prepare"}
      PROVE  CaseInv(at, a)
  <2>1. a.workspace = "none" /\ a.alive = FALSE /\ a.captured = FALSE
    BY DEF NoAttempt
  <2> QED
    BY <2>1 DEF CaseInv
<1> QED
  BY <1>1, <1>2, <1>3

\* What began stays in order while the file only goes on.
LEMMA BeganKept ==
  ASSUME CampInv, campaignFile # <<>>, campaignFile' # <<>>, began' = began,
         campaignFile'[1].freeze = campaignFile[1].freeze,
         \A s \in Slots : campaignFile[1].slot[s] # "not_started" => campaignFile'[1].slot[s] # "not_started",
         \A s \in Slots : campaignFile[1].slot[s] = "finished" => campaignFile'[1].slot[s] = "finished",
         \A stop \in stopped' : \/ stop \in stopped
                                \/ \A i, j \in 1 .. Len(began) : i < j => stop.slot # began[i].slot
  PROVE  /\ SlotsOnce'
         /\ \A i \in 1 .. Len(began) : /\ campaignFile'[1].slot[began[i].slot] # "not_started"
                                       /\ began[i].commit = campaignFile'[1].freeze
<1>1. \A i \in 1 .. Len(began) : began[i].slot \in Slots
  <2>1. began \in Seq(Beginning)
    BY DEF CampInv, CampShape
  <2>2. \A i \in 1 .. Len(began) : began[i] \in Beginning
    BY <2>1
  <2> QED
    BY <2>2 DEF Beginning
<1>2. \A i \in 1 .. Len(began) : /\ campaignFile'[1].slot[began[i].slot] # "not_started"
                                 /\ began[i].commit = campaignFile'[1].freeze
  BY <1>1 DEF CampInv, BeganInv
<1>3. SlotsOnce'
  BY <1>1 DEF CampInv, SlotsOnce
<1> QED
  BY <1>2, <1>3

\* An invocation ends, perhaps with a last word in the file.
LEMMA StopStep ==
  ASSUME CampInv, NEW n \in {0, 1}, StopCampaign(n), NEW file \in File, campaignFile' = <<file>>, campaignFile # <<>>,
         attempt' \in Case, CaseInv("idle", attempt'), UNCHANGED <<inputs, began>>,
         InOrder(file), file.freeze = campaignFile[1].freeze,
         \A s \in Slots : campaignFile[1].slot[s] # "not_started" => file.slot[s] # "not_started",
         \A s \in Slots : campaignFile[1].slot[s] = "finished" => file.slot[s] = "finished",
         stopped' \subseteq [slot : Slots, invocation : Nat],
         \A stop \in stopped' : stop.invocation <= runner.invocation,
         \A stop \in stopped' : \/ stop \in stopped
                                \/ \A i, j \in 1 .. Len(began) : i < j => stop.slot # began[i].slot
  PROVE  CampInv'
<1>1. runner \in [at : Phases \cup {"idle", "loop"}, copy : File \cup {<<>>}, slot : 0 .. CampaignSlots,
                  invocation : Nat, commit : Nat, faults : Nat]
  BY DEF CampInv, CampShape
<1>2. /\ runner'.at = "idle" /\ runner'.invocation = runner.invocation
      /\ runner' \in [at : Phases \cup {"idle", "loop"}, copy : File \cup {<<>>}, slot : 0 .. CampaignSlots,
                      invocation : Nat, commit : Nat, faults : Nat]
  <2>1. runner' = [at |-> "idle", copy |-> <<>>, slot |-> 0, invocation |-> runner.invocation, commit |-> 0,
                   faults |-> runner.faults + n]
    BY DEF StopCampaign, NoRunner
  <2>2. runner.faults + n \in Nat /\ 0 \in 0 .. CampaignSlots
    BY <1>1, CampaignAssumption
  <2> QED
    BY <1>1, <2>1, <2>2
<1>3. campaignFile'[1] = file /\ campaignFile' # <<>>
  OBVIOUS
<1>4. /\ SlotsOnce'
      /\ \A i \in 1 .. Len(began) : /\ campaignFile'[1].slot[began[i].slot] # "not_started"
                                    /\ began[i].commit = campaignFile'[1].freeze
  BY <1>3, BeganKept
<1>5. CampShape'
  BY <1>2 DEF CampInv, CampShape
<1>6. FileInv'
  BY <1>2, <1>3 DEF FileInv, Doing, Phases
<1>7. BeganInv'
  BY <1>2, <1>3, <1>4 DEF BeganInv, Doing, Phases
<1> QED
  BY <1>2, <1>4, <1>5, <1>6, <1>7 DEF CampInv

\* What a runner knows.
LEMMA Running ==
  ASSUME CampInv, ~Doing("idle")
  PROVE  /\ campaignFile = <<runner.copy>> /\ runner.copy \in File /\ runner.commit = runner.copy.freeze
         /\ runner.copy.state # "complete" /\ campaignFile[1] = runner.copy /\ campaignFile # <<>>
         /\ InOrder(runner.copy) /\ stopped \subseteq [slot : Slots, invocation : Nat]
         /\ \A stop \in stopped : stop.invocation <= runner.invocation
         /\ runner.at \in Phases => /\ runner.slot \in Slots /\ runner.copy.slot[runner.slot] = "started"
                                    /\ \A s \in Slots : s # runner.slot => runner.copy.slot[s] # "started"
         /\ Doing("loop") => \A s \in Slots : runner.copy.slot[s] # "started"
<1>1. campaignFile = <<runner.copy>> /\ runner.copy \in File /\ runner.commit = runner.copy.freeze
      /\ runner.copy.state # "complete"
  BY DEF CampInv, FileInv
<1>2. campaignFile[1] = runner.copy /\ campaignFile # <<>>
  BY <1>1
<1>3. InOrder(runner.copy)
  BY <1>2 DEF CampInv, FileInv
<1> QED
  BY <1>1, <1>2, <1>3 DEF CampInv, CampShape, FileInv, BeganInv

\* The process dies, a save fails, or nothing is left to do.
LEMMA OverSteps ==
  ASSUME CampInv, CampCrash \/ Interrupted \/ Complete
  PROVE  CampInv'
<1>1. ~Doing("idle") /\ UNCHANGED <<inputs, began, stopped>>
  BY DEF CampCrash, Interrupted, Complete, Doing
<1>2. /\ campaignFile = <<runner.copy>> /\ runner.copy \in File /\ campaignFile[1] = runner.copy /\ campaignFile # <<>>
      /\ InOrder(runner.copy) /\ stopped \subseteq [slot : Slots, invocation : Nat]
      /\ \A stop \in stopped : stop.invocation <= runner.invocation
      /\ Doing("loop") => \A s \in Slots : runner.copy.slot[s] # "started"
  BY <1>1, Running
<1>3. PICK n \in {0, 1} : StopCampaign(n)
  BY DEF CampCrash, Interrupted, Complete
<1>4. attempt' \in Case /\ CaseInv("idle", attempt')
  <2>1. CASE Complete
    BY <2>1 DEF CampInv, CampShape, CaseInv, Complete, Doing
  <2>2. CASE attempt' = NoAttempt
    BY <2>2, NoCase
  <2> QED
    BY <2>1, <2>2 DEF CampCrash, Interrupted
<1>5. PICK state \in {runner.copy.state, "blocked", "complete"} :
        /\ campaignFile' = <<[runner.copy EXCEPT !.state = state]>>
        /\ state = "complete" /\ runner.copy.state # "complete" => Doing("loop") /\ NotStarted = {}
  <2>1. runner.copy = [runner.copy EXCEPT !.state = runner.copy.state]
    BY <1>2 DEF File
  <2>2. CASE campaignFile' = campaignFile
    BY <1>2, <2>1, <2>2
  <2>3. CASE campaignFile' # campaignFile
    BY <2>3 DEF CampCrash, Interrupted, Complete
  <2> QED
    BY <2>2, <2>3
<1> DEFINE file == [runner.copy EXCEPT !.state = state]
<1>6. file \in File /\ file.state = state /\ file.slot = runner.copy.slot /\ file.freeze = runner.copy.freeze
  BY <1>2, <1>5 DEF File
<1>7. InOrder(file)
  <2>1. state = "complete" => \A s \in Slots : runner.copy.slot[s] = "finished"
    <3>1. SUFFICES ASSUME state = "complete", runner.copy.state # "complete", NEW s \in Slots
                   PROVE  runner.copy.slot[s] = "finished"
      BY <1>2 DEF InOrder
    <3>2. runner.copy.slot[s] \in {"not_started", "started", "finished"}
      BY <1>2 DEF File
    <3>3. runner.copy.slot[s] # "not_started" /\ runner.copy.slot[s] # "started"
      BY <1>2, <1>5, <3>1 DEF NotStarted
    <3> QED
      BY <3>2, <3>3
  <2> QED
    BY <1>2, <1>6, <2>1 DEF InOrder
<1> HIDE DEF file
<1>8. campaignFile' = <<file>>
  BY <1>5 DEF file
<1> QED
  BY <1>1, <1>2, <1>3, <1>4, <1>6, <1>7, <1>8, StopStep

\* Somebody changes what is on disk.
LEMMA MeddleStep == ASSUME CampInv, Meddle PROVE CampInv'
<1>1. inputs' \in [commit : Nat, suite : {"frozen", "edited"}, meddled : Nat]
  <2>1. inputs \in [commit : Nat, suite : {"frozen", "edited"}, meddled : Nat]
    BY DEF CampInv, CampShape
  <2>2. inputs.commit + 1 \in Nat /\ inputs.meddled + 1 \in Nat
    BY <2>1
  <2> QED
    BY <2>1, <2>2 DEF Meddle
<1>2. UNCHANGED <<campaignFile, runner, attempt, began, stopped>>
  BY DEF Meddle
<1> QED
  BY <1>1, <1>2 DEF CampInv, CampShape, FileInv, BeganInv, SlotsOnce, Doing

\* The campaign file is taken, new or as it was left.
LEMMA InvokeStep == ASSUME CampInv, NEW resume \in BOOLEAN, Invoke(resume) PROVE CampInv'
<1> DEFINE copy == IF campaignFile = <<>> THEN NewCampaign(inputs.commit) ELSE campaignFile[1]
<1>1. /\ Doing("idle") /\ campaignFile' = <<copy>>
      /\ campaignFile # <<>> => MayExecute(copy, inputs.commit, resume)
      /\ runner' = [runner EXCEPT !.at = "loop", !.copy = copy, !.invocation = runner.invocation + 1,
                                  !.commit = inputs.commit]
      /\ UNCHANGED <<inputs, attempt, began, stopped>>
  BY DEF Invoke
<1>2. /\ runner \in [at : Phases \cup {"idle", "loop"}, copy : File \cup {<<>>}, slot : 0 .. CampaignSlots,
                     invocation : Nat, commit : Nat, faults : Nat]
      /\ inputs.commit \in Nat /\ attempt \in Case /\ CaseInv("idle", attempt)
      /\ stopped \subseteq [slot : Slots, invocation : Nat]
  BY <1>1 DEF CampInv, CampShape, Doing
<1>3. /\ copy \in File /\ copy.freeze = inputs.commit /\ copy.state # "complete" /\ InOrder(copy)
      /\ \A s \in Slots : copy.slot[s] # "started"
  <2>1. CASE campaignFile = <<>>
    <3>1. copy = [freeze |-> inputs.commit, state |-> "ready", slot |-> [s \in Slots |-> "not_started"],
                  passed |-> [s \in Slots |-> FALSE]]
      BY <2>1 DEF NewCampaign
    <3>2. [s \in Slots |-> "not_started"] \in [Slots -> {"not_started", "started", "finished"}]
          /\ [s \in Slots |-> FALSE] \in [Slots -> BOOLEAN]
      OBVIOUS
    <3>3. \A c \in Nat, l \in [Slots -> {"not_started", "started", "finished"}], d \in [Slots -> BOOLEAN] :
            [freeze |-> c, state |-> "ready", slot |-> l, passed |-> d] \in File
      BY DEF File
    <3>5. [freeze |-> inputs.commit, state |-> "ready", slot |-> [s \in Slots |-> "not_started"],
           passed |-> [s \in Slots |-> FALSE]] \in File
      BY ONLY <1>2, <3>2, <3>3
    <3> HIDE DEF copy
    <3>4. copy \in File
      BY ONLY <3>1, <3>5
    <3> QED
      BY <3>1, <3>4 DEF InOrder
  <2>2. CASE campaignFile # <<>>
    <3>1. copy \in File /\ InOrder(copy)
      BY <2>2 DEF CampInv, CampShape, FileInv
    <3> QED
      BY <1>1, <2>2, <3>1 DEF MayExecute
  <2> QED
    BY <2>1, <2>2
<1>4. campaignFile # <<>> => campaignFile' = campaignFile
  BY <1>1 DEF CampInv, CampShape
<1> HIDE DEF copy
<1>5. /\ runner'.at = "loop" /\ runner'.copy = copy /\ runner'.invocation = runner.invocation + 1
      /\ runner'.commit = inputs.commit /\ runner'.slot = runner.slot
      /\ runner' \in [at : Phases \cup {"idle", "loop"}, copy : File \cup {<<>>}, slot : 0 .. CampaignSlots,
                      invocation : Nat, commit : Nat, faults : Nat]
  <2>1. runner.invocation + 1 \in Nat
    BY <1>2
  <2> QED
    BY <1>1, <1>2, <1>3, <2>1
<1>6. campaignFile' # <<>> /\ campaignFile'[1] = copy /\ \E file \in File : campaignFile' = <<file>>
  BY <1>1, <1>3
<1>7. CampShape'
  BY <1>1, <1>5, <1>6 DEF CampInv, CampShape
<1>8. FileInv'
  BY <1>1, <1>3, <1>5, <1>6 DEF FileInv, Doing, Phases
<1>9. \A stop \in stopped : stop.invocation < runner'.invocation /\ stop.invocation <= runner'.invocation
  <2>1. \A stop \in stopped : stop.invocation <= runner.invocation /\ stop.invocation \in Nat
    BY <1>2 DEF CampInv, BeganInv
  <2> QED
    BY <1>2, <1>5, <2>1
<1>10. BeganInv'
  <2>1. (\A i \in 1 .. Len(began) : /\ campaignFile[1].slot[began[i].slot] # "not_started"
                                    /\ began[i].commit = campaignFile[1].freeze)'
    <3>1. CASE campaignFile # <<>>
      BY <1>1, <1>4, <3>1 DEF CampInv, BeganInv
    <3>2. CASE campaignFile = <<>>
      <4>1. began = <<>>
        BY <3>2 DEF CampInv, BeganInv
      <4> QED
        BY <1>1, <4>1
    <3> QED
      BY <3>1, <3>2
  <2> QED
    BY <1>1, <1>5, <1>6, <1>9, <2>1 DEF BeganInv, Doing, Phases
<1>11. SlotsOnce'
  <2>1. CASE campaignFile # <<>>
    BY <1>1, <1>4, <2>1 DEF CampInv, SlotsOnce
  <2>2. CASE campaignFile = <<>>
    <3>1. began = <<>>
      BY <2>2 DEF CampInv, BeganInv
    <3> QED
      BY <1>1, <3>1 DEF SlotsOnce
  <2> QED
    BY <2>1, <2>2
<1>12. CaseInv("loop", attempt)
  BY <1>2 DEF CaseInv
<1> QED
  BY <1>1, <1>5, <1>7, <1>8, <1>10, <1>11, <1>12 DEF CampInv

\* The next slot is the first that nobody started.
LEMMA NextIs ==
  ASSUME NotStarted # {}
  PROVE  NextSlot \in NotStarted /\ \A t \in NotStarted : NextSlot <= t
<1>1. NotStarted \in SUBSET Nat
  BY DEF NotStarted, Slots
<1>2. \E s \in NotStarted : \A t \in NotStarted : s <= t
  BY <1>1, LeastOf
<1> QED
  BY <1>2 DEF NextSlot

\* A slot is admitted, or its admission is not saved.
LEMMA AdmitStep == ASSUME CampInv, AdmitSlot PROVE CampInv'
<1> DEFINE slots == [runner.copy.slot EXCEPT ![NextSlot] = "started"]
           copy == [runner.copy EXCEPT !.slot = slots, !.state = "running"]
<1>1. /\ Doing("loop") /\ NotStarted # {} /\ UNCHANGED <<inputs, began, stopped>>
      /\ \/ /\ campaignFile' = <<copy>> /\ attempt' = [NoAttempt EXCEPT !.suite = inputs.suite]
            /\ runner' = [runner EXCEPT !.at = "prepare", !.copy = copy, !.slot = NextSlot]
         \/ StopCampaign(1) /\ UNCHANGED <<campaignFile, attempt>>
  <2>1. ~Doing("idle") \/ ~Doing("loop")
    BY DEF Doing
  <2>2. Doing("loop") => runner.copy \in File
    BY <2>1, Running
  <2>3. Doing("loop") => copy = [runner.copy EXCEPT !.slot[NextSlot] = "started", !.state = "running"]
    BY <2>2 DEF File
  <2> QED
    BY <2>3 DEF AdmitSlot
<1>2. /\ campaignFile = <<runner.copy>> /\ runner.copy \in File /\ runner.commit = runner.copy.freeze
      /\ campaignFile[1] = runner.copy /\ campaignFile # <<>> /\ InOrder(runner.copy)
      /\ stopped \subseteq [slot : Slots, invocation : Nat]
      /\ \A stop \in stopped : stop.invocation <= runner.invocation
      /\ \A s \in Slots : runner.copy.slot[s] # "started"
  BY <1>1, Running DEF Doing
<1>3. CASE StopCampaign(1) /\ UNCHANGED <<campaignFile, attempt>>
  <2>1. attempt' \in Case /\ CaseInv("idle", attempt')
    BY <1>1, <1>3 DEF CampInv, CampShape, CaseInv, Doing
  <2> QED
    BY <1>1, <1>2, <1>3, <2>1, StopStep
<1>4. CASE /\ campaignFile' = <<copy>> /\ attempt' = [NoAttempt EXCEPT !.suite = inputs.suite]
           /\ runner' = [runner EXCEPT !.at = "prepare", !.copy = copy, !.slot = NextSlot]
  <2>1. /\ runner \in [at : Phases \cup {"idle", "loop"}, copy : File \cup {<<>>}, slot : 0 .. CampaignSlots,
                       invocation : Nat, commit : Nat, faults : Nat]
        /\ inputs.suite \in {"frozen", "edited"} /\ began \in Seq(Beginning)
    BY DEF CampInv, CampShape
  <2>2. NextSlot \in Slots /\ runner.copy.slot[NextSlot] = "not_started"
        /\ \A t \in Slots : runner.copy.slot[t] = "not_started" => NextSlot <= t
    BY <1>1, NextIs DEF NotStarted
  <2>3. /\ runner.copy.slot \in [Slots -> {"not_started", "started", "finished"}]
        /\ slots \in [Slots -> {"not_started", "started", "finished"}] /\ slots[NextSlot] = "started"
        /\ \A s \in Slots : s # NextSlot => slots[s] = runner.copy.slot[s]
    <3>1. runner.copy.slot \in [Slots -> {"not_started", "started", "finished"}]
      BY <1>2 DEF File
    <3> QED
      BY <2>2, <3>1
  <2> HIDE DEF slots
  <2>4. copy \in File /\ copy.slot = slots /\ copy.state = "running" /\ copy.freeze = runner.copy.freeze
    BY <1>2, <2>3 DEF File
  <2> HIDE DEF copy
  <2>5. InOrder(copy)
    <3>1. ASSUME NEW s \in Slots, NEW t \in Slots, s < t, slots[s] = "not_started" PROVE slots[t] = "not_started"
      <4>1. s # NextSlot /\ runner.copy.slot[s] = "not_started"
        BY <2>3, <3>1
      <4>2. runner.copy.slot[t] = "not_started" /\ NextSlot <= s
        BY <1>2, <2>2, <3>1, <4>1 DEF InOrder
      <4>3. t # NextSlot
        BY <2>2, <3>1, <4>2 DEF Slots
      <4> QED
        BY <2>3, <4>2, <4>3
    <3> QED
      BY <2>4, <3>1 DEF InOrder
  <2>6. /\ runner'.at = "prepare" /\ runner'.copy = copy /\ runner'.slot = NextSlot
        /\ runner'.invocation = runner.invocation /\ runner'.commit = runner.commit
        /\ runner' \in [at : Phases \cup {"idle", "loop"}, copy : File \cup {<<>>}, slot : 0 .. CampaignSlots,
                        invocation : Nat, commit : Nat, faults : Nat]
    <3>1. "prepare" \in Phases /\ NextSlot \in 0 .. CampaignSlots
      BY <2>2, CampaignAssumption DEF Phases, Slots
    <3> QED
      BY <1>4, <2>1, <2>4, <3>1
  <2>7. campaignFile' # <<>> /\ campaignFile'[1] = copy /\ \E file \in File : campaignFile' = <<file>>
    BY <1>4, <2>4
  <2>8. attempt' \in Case /\ CaseInv("prepare", attempt')
    BY <1>4, <2>1, NoCase
  <2>9. CampShape'
    BY <1>1, <2>6, <2>7, <2>8 DEF CampInv, CampShape
  <2>10. FileInv'
    BY <1>2, <1>4, <2>2, <2>3, <2>4, <2>5, <2>6, <2>7 DEF FileInv, Doing
  <2>11. /\ SlotsOnce'
         /\ \A i \in 1 .. Len(began) : /\ campaignFile'[1].slot[began[i].slot] # "not_started"
                                       /\ began[i].commit = campaignFile'[1].freeze
    <3>1. \A s \in Slots : runner.copy.slot[s] # "not_started" => copy.slot[s] # "not_started"
      BY <2>3, <2>4
    <3>2. \A s \in Slots : runner.copy.slot[s] = "finished" => copy.slot[s] = "finished"
      BY <2>2, <2>3, <2>4
    <3> QED
      BY <1>1, <1>2, <2>4, <2>7, <3>1, <3>2, BeganKept
  <2>12. \A i \in 1 .. Len(began) : began[i].slot < NextSlot /\ began[i].slot <= NextSlot
    <3> SUFFICES ASSUME NEW i \in 1 .. Len(began) PROVE began[i].slot < NextSlot /\ began[i].slot <= NextSlot
      OBVIOUS
    <3>1. began[i] \in Beginning
      BY <2>1
    <3>2. began[i].slot \in Slots /\ runner.copy.slot[began[i].slot] # "not_started"
      BY <1>2, <3>1 DEF CampInv, BeganInv, Beginning
    <3>3. began[i].slot # NextSlot /\ ~(NextSlot < began[i].slot)
      BY <1>2, <2>2, <3>2 DEF InOrder
    <3> QED
      BY <2>2, <3>2, <3>3 DEF Slots
  <2>13. ~Doing("idle")
    BY <1>1 DEF Doing
  <2>14. BeganInv'
    BY <1>1, <2>6, <2>7, <2>11, <2>12, <2>13 DEF CampInv, BeganInv, Doing
  <2> QED
    BY <2>6, <2>8, <2>9, <2>10, <2>11, <2>14 DEF CampInv
<1> QED
  BY <1>1, <1>3, <1>4

\* The outcome of a slot is saved, as it is or as blocked.
LEMMA RecordSlotStep == ASSUME CampInv, RecordSlot PROVE CampInv'
<1> DEFINE file(state) == [runner.copy EXCEPT !.slot = [runner.copy.slot EXCEPT ![runner.slot] = "finished"],
                             !.passed = [runner.copy.passed EXCEPT ![runner.slot] = CasePassed(attempt)],
                             !.state = state]
           new == [slot |-> runner.slot, invocation |-> runner.invocation]
<1>1. Doing("record") /\ attempt' = NoAttempt /\ UNCHANGED <<inputs, began>>
  BY DEF RecordSlot
<1>2. ~Doing("idle") /\ runner.at \in Phases
  BY <1>1 DEF Doing, Phases
<1>3. /\ campaignFile = <<runner.copy>> /\ runner.copy \in File /\ campaignFile[1] = runner.copy /\ campaignFile # <<>>
      /\ InOrder(runner.copy) /\ stopped \subseteq [slot : Slots, invocation : Nat]
      /\ \A stop \in stopped : stop.invocation <= runner.invocation
      /\ runner.slot \in Slots /\ runner.copy.slot[runner.slot] = "started"
      /\ \A s \in Slots : s # runner.slot => runner.copy.slot[s] # "started"
      /\ runner.commit = runner.copy.freeze
  BY <1>2, Running
<1>4. /\ runner \in [at : Phases \cup {"idle", "loop"}, copy : File \cup {<<>>}, slot : 0 .. CampaignSlots,
                     invocation : Nat, commit : Nat, faults : Nat]
      /\ began \in Seq(Beginning)
  BY DEF CampInv, CampShape
<1>5. ASSUME NEW state \in {"running", "blocked"}
      PROVE  /\ file(state) \in File /\ file(state).freeze = runner.copy.freeze /\ file(state).state = state
             /\ file(state).slot[runner.slot] = "finished"
             /\ \A s \in Slots : s # runner.slot => file(state).slot[s] = runner.copy.slot[s]
             /\ InOrder(file(state))
             /\ file(state) = [runner.copy EXCEPT !.slot[runner.slot] = "finished",
                                 !.passed[runner.slot] = CasePassed(attempt), !.state = state]
  <2>1. /\ runner.copy.slot \in [Slots -> {"not_started", "started", "finished"}]
        /\ runner.copy.passed \in [Slots -> BOOLEAN]
    BY <1>3 DEF File
  <2>2. CasePassed(attempt) \in BOOLEAN
    BY DEF CasePassed
  <2>3. PICK slots : slots = [runner.copy.slot EXCEPT ![runner.slot] = "finished"]
    OBVIOUS
  <2>4. PICK passed : passed = [runner.copy.passed EXCEPT ![runner.slot] = CasePassed(attempt)]
    OBVIOUS
  <2>5. /\ slots \in [Slots -> {"not_started", "started", "finished"}] /\ slots[runner.slot] = "finished"
        /\ \A s \in Slots : s # runner.slot => slots[s] = runner.copy.slot[s]
    BY <1>3, <2>1, <2>3
  <2>6. passed \in [Slots -> BOOLEAN]
    BY <2>1, <2>2, <2>4
  <2>7. file(state) = [runner.copy EXCEPT !.slot = slots, !.passed = passed, !.state = state]
    BY <2>3, <2>4
  <2>8. file(state) = [runner.copy EXCEPT !.slot[runner.slot] = "finished",
                         !.passed[runner.slot] = CasePassed(attempt), !.state = state]
    BY <1>3 DEF File
  <2> HIDE DEF file
  <2>9. file(state) \in File /\ file(state).freeze = runner.copy.freeze /\ file(state).state = state
        /\ file(state).slot = slots
    BY <1>3, <2>5, <2>6, <2>7 DEF File
  <2>10. InOrder(file(state))
    <3>1. ASSUME NEW s \in Slots, NEW t \in Slots, s < t, slots[s] = "not_started" PROVE slots[t] = "not_started"
      <4>1. s # runner.slot /\ runner.copy.slot[s] = "not_started"
        BY <2>5, <3>1
      <4>2. runner.copy.slot[t] = "not_started"
        BY <1>3, <3>1, <4>1 DEF InOrder
      <4>3. t # runner.slot
        BY <1>3, <4>2
      <4> QED
        BY <2>5, <4>2, <4>3
    <3> QED
      BY <2>9, <3>1 DEF InOrder
  <2> QED
    BY <2>5, <2>8, <2>9, <2>10
<1>6. \A i \in 1 .. Len(began) : began[i].slot <= runner.slot /\ began[i].slot \in Slots
  <2>1. \A i \in 1 .. Len(began) : began[i] \in Beginning
    BY <1>4
  <2> QED
    BY <1>2, <2>1 DEF CampInv, BeganInv, Beginning
<1>7. \A i, j \in 1 .. Len(began) : i < j => runner.slot # began[i].slot
  <2> SUFFICES ASSUME NEW i \in 1 .. Len(began), NEW j \in 1 .. Len(began), i < j PROVE runner.slot # began[i].slot
    OBVIOUS
  <2>1. began[i].slot < began[j].slot
    BY DEF CampInv, SlotsOnce
  <2> QED
    BY <1>3, <1>6, <2>1 DEF Slots
<1>8. new \in [slot : Slots, invocation : Nat] /\ new.slot = runner.slot /\ new.invocation = runner.invocation
  BY <1>3, <1>4
<1> DEFINE stop == StopReason(attempt)
<1>9. stopped' = IF stop THEN stopped \cup {new} ELSE stopped
  BY DEF RecordSlot
<1> HIDE DEF file, new, stop
<1>10. \/ campaignFile' = <<file("blocked")>> /\ stop /\ StopCampaign(0)
       \/ campaignFile' = <<file("running")>> /\ ~stop /\ runner' = [runner EXCEPT !.at = "loop", !.copy = file("running")]
       \/ (campaignFile' = <<file("blocked")>> \/ campaignFile' = campaignFile) /\ StopCampaign(1)
  <2> DEFINE copy(state) == [runner.copy EXCEPT !.slot[runner.slot] = "finished",
                               !.passed[runner.slot] = CasePassed(attempt), !.state = state]
  <2>1. copy("blocked") = file("blocked") /\ copy("running") = file("running")
    BY <1>5
  <2>2. \/ /\ campaignFile' = <<copy(IF stop THEN "blocked" ELSE "running")>>
           /\ IF stop THEN StopCampaign(0)
              ELSE runner' = [runner EXCEPT !.at = "loop", !.copy = copy(IF stop THEN "blocked" ELSE "running")]
        \/ /\ campaignFile' \in {<<[copy(IF stop THEN "blocked" ELSE "running") EXCEPT !.state = "blocked"]>>}
                                  \cup {campaignFile}
           /\ StopCampaign(1)
    BY DEF RecordSlot, stop
  <2>3. \A state \in {"running", "blocked"} : [copy(state) EXCEPT !.state = "blocked"] = copy("blocked")
    BY <1>3 DEF File
  <2> HIDE DEF copy
  <2>4. [copy(IF stop THEN "blocked" ELSE "running") EXCEPT !.state = "blocked"] = copy("blocked")
    BY <2>3
  <2> QED
    BY <2>1, <2>2, <2>4
<1>11. attempt' \in Case /\ CaseInv("idle", attempt') /\ CaseInv("loop", attempt')
  BY <1>1, NoCase
<1>12. /\ stopped' \subseteq [slot : Slots, invocation : Nat]
       /\ \A s \in stopped' : s.invocation <= runner.invocation
       /\ \A s \in stopped' : s \in stopped \/ \A i, j \in 1 .. Len(began) : i < j => s.slot # began[i].slot
  <2>1. runner.invocation <= runner.invocation
    BY <1>4
  <2>2. \A s \in stopped' : s \in stopped \/ s = new
    BY <1>9
  <2> QED
    BY <1>3, <1>7, <1>8, <2>1, <2>2
<1>13. ASSUME NEW f \in File, f.freeze = runner.copy.freeze, f.slot[runner.slot] \in {"started", "finished"},
              \A s \in Slots : s # runner.slot => f.slot[s] = runner.copy.slot[s]
       PROVE  /\ \A s \in Slots : campaignFile[1].slot[s] # "not_started" => f.slot[s] # "not_started"
              /\ \A s \in Slots : campaignFile[1].slot[s] = "finished" => f.slot[s] = "finished"
  BY <1>3, <1>13
<1>14. ASSUME NEW n \in {0, 1}, StopCampaign(n), NEW f \in {runner.copy, file("blocked")}, campaignFile' = <<f>>
       PROVE  CampInv'
  <2>1. f \in File /\ InOrder(f) /\ f.freeze = runner.copy.freeze /\ f.slot[runner.slot] \in {"started", "finished"}
        /\ \A s \in Slots : s # runner.slot => f.slot[s] = runner.copy.slot[s]
    BY <1>3, <1>5
  <2>2. /\ \A s \in Slots : campaignFile[1].slot[s] # "not_started" => f.slot[s] # "not_started"
        /\ \A s \in Slots : campaignFile[1].slot[s] = "finished" => f.slot[s] = "finished"
    BY <1>13, <2>1
  <2>3. f.freeze = campaignFile[1].freeze
    BY <1>3, <2>1
  <2> QED
    BY <1>1, <1>3, <1>11, <1>12, <1>14, <2>1, <2>2, <2>3, StopStep
<1>15. CASE \/ campaignFile' = <<file("blocked")>> /\ stop /\ StopCampaign(0)
            \/ (campaignFile' = <<file("blocked")>> \/ campaignFile' = campaignFile) /\ StopCampaign(1)
  BY <1>3, <1>14, <1>15
<1>16. CASE campaignFile' = <<file("running")>> /\ ~stop /\ runner' = [runner EXCEPT !.at = "loop", !.copy = file("running")]
  <2>1. PICK f \in File : /\ f = file("running") /\ campaignFile' = <<f>> /\ InOrder(f)
                          /\ runner' = [runner EXCEPT !.at = "loop", !.copy = f]
                          /\ f.freeze = runner.copy.freeze /\ f.slot[runner.slot] = "finished" /\ f.state = "running"
                          /\ \A s \in Slots : s # runner.slot => f.slot[s] = runner.copy.slot[s]
    BY <1>5, <1>16
  <2>2. stopped' = stopped
    BY <1>9, <1>16
  <2>3. /\ runner'.at = "loop" /\ runner'.copy = f /\ runner'.slot = runner.slot
        /\ runner'.invocation = runner.invocation /\ runner'.commit = runner.commit
        /\ runner' \in [at : Phases \cup {"idle", "loop"}, copy : File \cup {<<>>}, slot : 0 .. CampaignSlots,
                        invocation : Nat, commit : Nat, faults : Nat]
    BY <1>4, <2>1
  <2>4. campaignFile' # <<>> /\ campaignFile'[1] = f
    BY <2>1
  <2>5. /\ \A s \in Slots : campaignFile[1].slot[s] # "not_started" => f.slot[s] # "not_started"
        /\ \A s \in Slots : campaignFile[1].slot[s] = "finished" => f.slot[s] = "finished"
    BY <1>13, <2>1
  <2>6. /\ SlotsOnce'
        /\ \A i \in 1 .. Len(began) : /\ campaignFile'[1].slot[began[i].slot] # "not_started"
                                      /\ began[i].commit = campaignFile'[1].freeze
    BY <1>1, <1>3, <1>12, <2>1, <2>4, <2>5, BeganKept
  <2>7. CampShape'
    BY <1>1, <1>11, <1>12, <2>1, <2>3 DEF CampInv, CampShape
  <2>8. FileInv'
    BY <1>3, <2>1, <2>3, <2>4 DEF FileInv, Doing, Phases
  <2>9. BeganInv'
    BY <1>1, <1>2, <2>2, <2>3, <2>4, <2>6 DEF CampInv, BeganInv, Doing, Phases
  <2> QED
    BY <1>11, <2>3, <2>6, <2>7, <2>8, <2>9 DEF CampInv
<1> QED
  BY <1>10, <1>15, <1>16

\* In the beginning there is no campaign.
LEMMA NoCampaign == CampInit => CampInv
<1> SUFFICES ASSUME CampInit PROVE CampInv
  OBVIOUS
<1>1. /\ inputs = [commit |-> 0, suite |-> "frozen", meddled |-> 0] /\ campaignFile = <<>> /\ began = <<>>
      /\ runner = [at |-> "idle", copy |-> <<>>, slot |-> 0, invocation |-> 0, commit |-> 0, faults |-> 0]
      /\ stopped = {} /\ attempt = NoAttempt
  BY DEF CampInit, NoRunner
<1>2. NoAttempt \in Case /\ CaseInv("idle", NoAttempt)
  BY NoCase
<1>3. runner \in [at : Phases \cup {"idle", "loop"}, copy : File \cup {<<>>}, slot : 0 .. CampaignSlots,
                  invocation : Nat, commit : Nat, faults : Nat] /\ runner.at = "idle"
  BY <1>1, CampaignAssumption
<1>4. <<>> \in Seq(Beginning) /\ Len(<<>>) = 0
  OBVIOUS
<1>5. CampShape
  BY <1>1, <1>2, <1>3, <1>4 DEF CampShape
<1> QED
  BY <1>1, <1>2, <1>3, <1>4, <1>5 DEF CampInv, FileInv, BeganInv, SlotsOnce, Doing, Phases

\* What the invariant says of a campaign is what the run checks.
LEMMA HonestThen == CampInv => CampaignHonest
BY DEF CampInv, CampaignHonest, CaseInv, FileInv, InOrder, PassedIsCorrect, WorkspaceKept, CompleteIsFinished, Doing

\* What a campaign reports was paid for once, in the order of its plan and under the code it was
\* frozen with, and a case that passed is what the frozen suite accepts, over crashes, failed saves,
\* cancelled and resumed invocations (native_swe_campaign, runner, native_swe).
THEOREM CampaignTrue == CampSpec => []CampaignHonest
<1>1. CampInit => CampInv
  BY NoCampaign
<1>2. CampInv /\ [CampNext]_camp_vars => CampInv'
  <2> SUFFICES ASSUME CampInv, [CampNext]_camp_vars PROVE CampInv'
    OBVIOUS
  <2>1. CASE \E resume \in BOOLEAN : Invoke(resume)
    BY <2>1, InvokeStep
  <2>2. CASE AdmitSlot
    BY <2>2, AdmitStep
  <2>3. CASE Complete \/ Interrupted \/ CampCrash
    BY <2>3, OverSteps
  <2>4. CASE PrepareFixture
    BY <2>4, PrepareStep
  <2>5. CASE \E phase \in {"setup", "open"} : Advance(phase)
    BY <2>5, SetupStep, BeginStep
  <2>6. CASE \E phase \in {"setup", "open"}, how \in Ways : FailBefore(phase, how)
    BY <2>6, FailStep
  <2>7. CASE StartRequest \/ FinishRequest \/ AgentActs \/ ProcessWrites
    BY <2>7, AgentSteps
  <2>8. CASE AgentEnds
    BY <2>8, AgentEndsStep
  <2>9. CASE CloseSession
    BY <2>9, CloseStep
  <2>10. CASE CaptureCandidate
    BY <2>10, CaptureStep
  <2>11. CASE Grade
    BY <2>11, GradeStep
  <2>12. CASE Report
    BY <2>12, ReportStep
  <2>13. CASE RecordSlot
    BY <2>13, RecordSlotStep
  <2>14. CASE Meddle
    BY <2>14, MeddleStep
  <2>15. CASE UNCHANGED camp_vars
    BY <2>15 DEF camp_vars, CampInv, CampShape, CaseInv, FileInv, BeganInv, SlotsOnce, Doing
  <2> QED
    BY <2>1, <2>2, <2>3, <2>4, <2>5, <2>6, <2>7, <2>8, <2>9, <2>10, <2>11, <2>12, <2>13, <2>14, <2>15 DEF CampNext
<1>3. CampInv => CampaignHonest
  BY HonestThen
<1> QED
  BY <1>1, <1>2, <1>3, PTL DEF CampSpec

-----------------------------------------------------------------------------
(***************************************************************************)
(* Bundles.                                                                *)
(***************************************************************************)

\* The types that the proof needs: what a bundle says is not among them.
Trial == [execution : {"running", "finished"}, cleanup : {"pending", "clean"}, grade : Grades \cup {"none"},
          evidence : {"none", "metadata", "private", "damaged"}]
Note == [attempt : Nat, cites : BOOLEAN, supersedes : Nat]

\* A note is on an attempt that there is, follows an earlier one on it, and cites what there is.
BenchInv ==
  /\ bench \in [state : {"running", "completed"}, attempts : Seq(Trial), notes : Seq(Note)]
  /\ \A n \in 1 .. Len(bench.notes) :
       /\ bench.notes[n].attempt \in 1 .. Len(bench.attempts) /\ bench.notes[n].supersedes < n
       /\ bench.notes[n].supersedes # 0 =>
            bench.notes[bench.notes[n].supersedes].attempt = bench.notes[n].attempt
       /\ bench.notes[n].cites => bench.attempts[bench.notes[n].attempt].evidence # "none"

\* The artifacts of exports.
Published(list) == \E contents : list \in Seq([content : contents, good : BOOLEAN])

\* An action has one intent, which is of an artifact that is kept, and what was put in place and
\* what the action answered is that artifact.
ExportInv ==
  /\ Published(kept)
  /\ export = [at |-> export.at, action |-> export.action, bundle |-> export.bundle, token |-> export.token]
  /\ export.at \in {"idle", "frozen", "intended", "writing", "linked"}
  /\ \A i \in intents : i.bundle \in 1 .. Len(kept)
  /\ \A i, j \in intents : i.action = j.action => i = j
  /\ export.at # "idle" => export.bundle \in 1 .. Len(kept)
  /\ export.at = "frozen" => Intended(export.action) = {}
  /\ export.at \in {"intended", "writing", "linked"} => \E i \in Intended(export.action) : i.bundle = export.bundle
  /\ \A l \in linked : \E i \in Intended(l.action) : kept[i.bundle].content = l.bundle
  /\ \A d \in handled : d.method = "export" => \E i \in Intended(d.action) : kept[i.bundle].content = d.bundle

\* What another program put in the folder is there.
PlaceInv ==
  /\ folder = [id |-> folder.id, file |-> [p \in FolderNames |-> folder.file[p]]]
  /\ others = [p \in FolderNames |-> others[p]]
  /\ \A p \in FolderNames : others[p] # NoFileThere => folder.file[p] = others[p]

\* What was imported agrees with itself.
ImportInv ==
  /\ away = [bundles |-> away.bundles, facts |-> away.facts, report |-> away.report]
  /\ \A f \in away.facts : f = <<f[1], f[2], f[3]>>
  /\ ImportsAgree

BundleInv == BenchInv /\ ExportInv /\ PlaceInv /\ ImportInv

\* What a step leaves alone stays true.
LEMMA BenchKept == ASSUME BenchInv, UNCHANGED bench PROVE BenchInv'
BY DEF BenchInv

\* The folder stands as it did.
LEMMA PlaceKept == ASSUME PlaceInv, UNCHANGED <<folder, others>> PROVE PlaceInv'
BY DEF PlaceInv

\* An export that ends, or the answer to an import, changes nothing of it.
LEMMA ExportKept ==
  ASSUME ExportInv, UNCHANGED <<kept, intents, linked>>, export' = export \/ export' = NoExport,
         \A d \in handled' : d \in handled \/ d.method = "import"
  PROVE  ExportInv'
<1>1. /\ export' = [at |-> export'.at, action |-> export'.action, bundle |-> export'.bundle, token |-> export'.token]
      /\ export'.at \in {"idle", "frozen", "intended", "writing", "linked"}
      /\ export'.at # "idle" => export' = export
  BY DEF ExportInv, NoExport
<1>2. \A d \in handled' : d.method = "export" => d \in handled
  OBVIOUS
<1>3. \A a : Intended(a)' = Intended(a)
  BY DEF Intended
<1> QED
  BY <1>1, <1>2, <1>3 DEF ExportInv

\* Nothing was imported.
LEMMA ImportKept ==
  ASSUME ImportInv, UNCHANGED away, \A d \in handled' : d \in handled \/ d.method # "import"
  PROVE  ImportInv'
BY DEF ImportInv, ImportsAgree

\* The steps of the run, of the selections and of the other programs.
LEMMA AloneSteps ==
  ASSUME BundleInv, GrantExpires \/ BundleCrash \/ (\E token : Select(token))
  PROVE  BundleInv'
<1>1. UNCHANGED <<bench, kept, intents, handled, away, folder, linked, others>> /\ (export' = export \/ export' = NoExport)
  BY DEF GrantExpires, BundleCrash, Select
<1> QED
  BY <1>1, BenchKept, PlaceKept, ExportKept, ImportKept DEF BundleInv

\* Another program writes.
LEMMA OthersStep == ASSUME BundleInv, OthersWrite PROVE BundleInv'
<1>1. PlaceInv /\ UNCHANGED <<bench, kept, intents, handled, away, selections, export, linked>>
  BY DEF BundleInv, OthersWrite
<1>2. PlaceInv'
  <2>1. CASE /\ folder' = [id |-> folder.id + 1, file |-> [p \in FolderNames |-> NoFileThere]]
             /\ others' = [p \in FolderNames |-> NoFileThere]
    BY <2>1 DEF PlaceInv
  <2>2. CASE \E p \in FolderNames : \E put :
               folder' = [folder EXCEPT !.file[p] = put] /\ others' = [others EXCEPT ![p] = put]
    <3>0. PICK p \in FolderNames : \E put :
               folder' = [folder EXCEPT !.file[p] = put] /\ others' = [others EXCEPT ![p] = put]
      BY <2>2
    <3>1. PICK put :
               folder' = [folder EXCEPT !.file[p] = put] /\ others' = [others EXCEPT ![p] = put]
      BY <3>0
    <3>2. folder' = [id |-> folder.id, file |-> [q \in FolderNames |-> IF q = p THEN put ELSE folder.file[q]]]
      BY <1>1, <3>1 DEF PlaceInv
    <3>3. others' = [q \in FolderNames |-> IF q = p THEN put ELSE others[q]]
      BY <1>1, <3>1 DEF PlaceInv
    <3> QED
      BY <1>1, <3>2, <3>3 DEF PlaceInv
  <2> QED
    BY <2>1, <2>2 DEF OthersWrite
<1> QED
  BY <1>1, <1>2, BenchKept, ExportKept, ImportKept DEF BundleInv

\* A step of the run.
LEMMA RunSteps ==
  ASSUME BundleInv, BenchInv', UNCHANGED <<kept, intents, handled, away, folder, export, linked, others>>
  PROVE  BundleInv'
BY PlaceKept, ExportKept, ImportKept DEF BundleInv

\* An attempt begins.
LEMMA BeginsStep == ASSUME BundleInv, AttemptBegins PROVE BundleInv'
<1>1. /\ BenchInv /\ UNCHANGED <<kept, intents, handled, away, folder, export, linked, others>>
      /\ bench' = [bench EXCEPT !.attempts = Append(@,
           [execution |-> "running", cleanup |-> "pending", grade |-> "none", evidence |-> "none"])]
  BY DEF BundleInv, AttemptBegins
<1> DEFINE e == [execution |-> "running", cleanup |-> "pending", grade |-> "none", evidence |-> "none"]
<1>2. bench.attempts \in Seq(Trial) /\ e \in Trial
  BY <1>1 DEF BenchInv, Trial
<1> HIDE DEF e
<1>3. /\ bench'.state = bench.state /\ bench'.notes = bench.notes /\ bench'.attempts = Append(bench.attempts, e)
      /\ bench' = [state |-> bench.state, attempts |-> Append(bench.attempts, e), notes |-> bench.notes]
  BY <1>1 DEF BenchInv, e
<1>4. /\ Append(bench.attempts, e) \in Seq(Trial) /\ Len(bench.attempts) \in Nat
      /\ Len(Append(bench.attempts, e)) = Len(bench.attempts) + 1
      /\ \A i \in 1 .. Len(bench.attempts) : Append(bench.attempts, e)[i] = bench.attempts[i]
  BY <1>2, AppendOne
<1>5. BenchInv'
  <2>1. \A n \in 1 .. Len(bench.notes) :
          /\ bench.notes[n].attempt \in 1 .. Len(bench'.attempts)
          /\ bench'.attempts[bench.notes[n].attempt] = bench.attempts[bench.notes[n].attempt]
    BY <1>1, <1>3, <1>4 DEF BenchInv
  <2>2. bench' \in [state : {"running", "completed"}, attempts : Seq(Trial), notes : Seq(Note)]
    BY <1>1, <1>3, <1>4 DEF BenchInv
  <2> QED
    BY <1>1, <1>3, <2>1, <2>2 DEF BenchInv
<1> QED
  BY <1>1, <1>5, RunSteps

\* An attempt that has its evidence replaced by some other.
LEMMA EvidenceChanges ==
  ASSUME BundleInv, NEW i \in Attempts, NEW e \in Trial, NEW state \in {"running", "completed"}, e.evidence # "none",
         bench' = [state |-> state, attempts |-> [bench.attempts EXCEPT ![i] = e], notes |-> bench.notes],
         UNCHANGED <<kept, intents, handled, away, folder, export, linked, others>>
  PROVE  BundleInv'
<1>1. BenchInv /\ bench.attempts \in Seq(Trial) /\ i \in DOMAIN bench.attempts /\ DOMAIN bench.attempts = 1 .. Len(bench.attempts)
  BY DEF BundleInv, BenchInv, Attempts
<1>2. /\ [bench.attempts EXCEPT ![i] = e] \in Seq(Trial)
      /\ Len([bench.attempts EXCEPT ![i] = e]) = Len(bench.attempts)
      /\ \A j \in DOMAIN bench.attempts : j # i => [bench.attempts EXCEPT ![i] = e][j] = bench.attempts[j]
      /\ [bench.attempts EXCEPT ![i] = e][i] = e
  BY <1>1, ReplaceOne
<1>3. BenchInv'
  BY <1>1, <1>2 DEF BenchInv
<1> QED
  BY <1>3, RunSteps

\* An attempt is graded.
LEMMA OverStep == ASSUME BundleInv, AttemptIsOver PROVE BundleInv'
<1>1. UNCHANGED <<kept, intents, handled, away, folder, export, linked, others>>
  BY DEF AttemptIsOver
<1>2. PICK i \in Attempts, grade \in Grades, evidence \in {"metadata", "private"}, state \in {bench.state, "completed"} :
        bench' = [bench EXCEPT !.attempts[i] = [execution |-> "finished", cleanup |-> "clean",
                                                grade |-> grade, evidence |-> evidence],
                               !.state = state]
  BY DEF AttemptIsOver
<1> DEFINE e == [execution |-> "finished", cleanup |-> "clean", grade |-> grade, evidence |-> evidence]
<1>3. e \in Trial /\ e.evidence # "none"
  BY DEF Trial
<1>4. bench \in [state : {"running", "completed"}, attempts : Seq(Trial), notes : Seq(Note)]
  BY DEF BundleInv, BenchInv
<1>5. bench' = [state |-> state, attempts |-> [bench.attempts EXCEPT ![i] = e], notes |-> bench.notes]
  BY <1>2, <1>4
<1>6. state \in {"running", "completed"}
  BY <1>4
<1> HIDE DEF e
<1> QED
  BY <1>1, <1>3, <1>5, <1>6, EvidenceChanges

\* The evidence of an attempt is damaged.
LEMMA DamageStep == ASSUME BundleInv, DamageEvidence PROVE BundleInv'
<1>1. UNCHANGED <<kept, intents, handled, away, folder, export, linked, others>>
  BY DEF DamageEvidence
<1>2. PICK i \in Attempts : bench' = [bench EXCEPT !.attempts[i].evidence = "damaged"]
  BY DEF DamageEvidence
<1>3. bench \in [state : {"running", "completed"}, attempts : Seq(Trial), notes : Seq(Note)]
  BY DEF BundleInv, BenchInv
<1>4. bench.attempts[i] \in Trial
  BY <1>3 DEF Attempts
<1> DEFINE e == [bench.attempts[i] EXCEPT !.evidence = "damaged"]
<1>5. e \in Trial /\ e.evidence # "none"
  BY <1>4 DEF Trial
<1>6. bench' = [state |-> bench.state, attempts |-> [bench.attempts EXCEPT ![i] = e], notes |-> bench.notes]
  BY <1>2, <1>3
<1> HIDE DEF e
<1> QED
  BY <1>1, <1>3, <1>5, <1>6, EvidenceChanges

\* Among the earlier notes there is a newest one.
LEMMA NewestOf ==
  ASSUME NEW N \in Nat, NEW S \in SUBSET (1 .. N), S # {}
  PROVE  \E n \in S : \A m \in S : m <= n
<1> DEFINE D == {N - n : n \in S}
<1>1. D \in SUBSET Nat /\ D # {}
  <2>1. \A n \in S : n \in Nat /\ n <= N /\ N - n \in Nat
    OBVIOUS
  <2> QED
    BY <2>1
<1>2. PICK d \in D : \A k \in D : d <= k
  BY <1>1, LeastOf
<1>3. PICK n \in S : d = N - n
  OBVIOUS
<1>4. ASSUME NEW m \in S PROVE m <= n
  <2>1. N - m \in D
    OBVIOUS
  <2>2. N - n <= N - m
    BY <1>2, <1>3, <2>1
  <2> QED
    BY <2>2
<1> QED
  BY <1>4

\* A note is appended.
LEMMA AnnotatedStep ==
  ASSUME BundleInv, NEW i \in Attempts, NEW cites \in BOOLEAN, Annotated(i, cites)
  PROVE  BundleInv'
<1>1. /\ BenchInv /\ UNCHANGED <<kept, intents, handled, away, folder, export, linked, others>>
      /\ cites => bench.attempts[i].evidence # "none"
  BY DEF BundleInv, Annotated
<1>2. /\ bench \in [state : {"running", "completed"}, attempts : Seq(Trial), notes : Seq(Note)]
      /\ Len(bench.notes) \in Nat /\ Len(bench.attempts) \in Nat /\ DOMAIN bench.notes = 1 .. Len(bench.notes)
  BY <1>1 DEF BenchInv
<1> DEFINE earlier == {n \in DOMAIN bench.notes : bench.notes[n].attempt = i}
           last == IF earlier = {} THEN 0 ELSE CHOOSE n \in earlier : \A m \in earlier : m <= n
           note == [attempt |-> i, cites |-> cites, supersedes |-> last]
<1>3. /\ last \in 0 .. Len(bench.notes)
      /\ last # 0 => bench.notes[last].attempt = i
  <2>1. CASE earlier = {}
    BY <1>2, <2>1
  <2>2. CASE earlier # {}
    <3>1. \E n \in earlier : \A m \in earlier : m <= n
      BY <1>2, <2>2, NewestOf
    <3>2. last \in earlier
      BY <2>2, <3>1
    <3> QED
      BY <1>2, <3>2
  <2> QED
    BY <2>1, <2>2
<1>4. bench' = [bench EXCEPT !.notes = Append(@, note)]
  BY DEF Annotated
<1> HIDE DEF last, earlier
<1>5. note \in Note /\ note.attempt = i /\ note.supersedes = last /\ note.cites = cites
  BY <1>2, <1>3 DEF Note, Attempts
<1> HIDE DEF note
<1>6. /\ bench' = [state |-> bench.state, attempts |-> bench.attempts, notes |-> Append(bench.notes, note)]
      /\ bench'.state = bench.state /\ bench'.attempts = bench.attempts /\ bench'.notes = Append(bench.notes, note)
  BY <1>2, <1>4
<1>7. /\ Append(bench.notes, note) \in Seq(Note) /\ Len(Append(bench.notes, note)) = Len(bench.notes) + 1
      /\ \A n \in 1 .. Len(bench.notes) : Append(bench.notes, note)[n] = bench.notes[n]
      /\ Append(bench.notes, note)[Len(bench.notes) + 1] = note
  BY <1>2, <1>5, AppendOne
<1>8. BenchInv'
  <2> DEFINE s == bench'.notes
  <2>1. ASSUME NEW n \in 1 .. Len(s)
        PROVE  /\ s[n].attempt \in 1 .. Len(bench.attempts) /\ s[n].supersedes < n
               /\ s[n].supersedes # 0 => s[s[n].supersedes].attempt = s[n].attempt
               /\ s[n].cites => bench.attempts[s[n].attempt].evidence # "none"
    <3>1. CASE n = Len(bench.notes) + 1
      BY <1>1, <1>2, <1>3, <1>5, <1>6, <1>7, <3>1 DEF Attempts
    <3>2. CASE n \in 1 .. Len(bench.notes)
      <4>1. s[n] = bench.notes[n] /\ s[n] \in Note
        BY <1>2, <1>6, <1>7, <3>2
      <4>2. s[n].supersedes \in Nat /\ s[n].supersedes < n
        BY <1>1, <3>2, <4>1 DEF BenchInv, Note
      <4>3. s[n].supersedes # 0 => s[s[n].supersedes] = bench.notes[s[n].supersedes]
        BY <1>2, <1>6, <1>7, <3>2, <4>2
      <4> QED
        BY <1>1, <3>2, <4>1, <4>2, <4>3 DEF BenchInv
    <3>3. Len(s) = Len(bench.notes) + 1
      BY <1>6, <1>7
    <3>4. n = Len(bench.notes) + 1 \/ n \in 1 .. Len(bench.notes)
      BY <1>2, <3>3
    <3> QED
      BY <3>1, <3>2, <3>4
  <2> QED
    BY <1>2, <1>6, <1>7, <2>1 DEF BenchInv
<1> QED
  BY <1>1, <1>8, RunSteps

\* Artifacts are only added: what a bundle says stays, whatever becomes of its bytes.
LEMMA KeptGrows ==
  ASSUME ExportInv, Len(kept) \in Nat, Len(kept') \in Nat, Len(kept) <= Len(kept'),
         \A k \in 1 .. Len(kept) : kept'[k].content = kept[k].content,
         Published(kept'),
         UNCHANGED <<intents, linked, handled>>,
         \/ UNCHANGED export
         \/ /\ export' = [at |-> "frozen", action |-> export'.action, bundle |-> export'.bundle, token |-> export'.token]
            /\ export'.bundle \in 1 .. Len(kept') /\ Intended(export'.action) = {}
  PROVE  ExportInv'
<1>1. \A a : Intended(a)' = Intended(a) /\ Intended(a) \subseteq intents
  BY DEF Intended
<1>2. \A i \in intents : /\ i.bundle \in 1 .. Len(kept) /\ i.bundle \in 1 .. Len(kept')
                         /\ kept'[i.bundle].content = kept[i.bundle].content
  BY DEF ExportInv
<1>3. \A l \in linked : \E i \in Intended(l.action) : kept'[i.bundle].content = l.bundle
  <2>1. TAKE l \in linked
  <2>2. PICK i \in Intended(l.action) : kept[i.bundle].content = l.bundle
    BY DEF ExportInv
  <2> QED
    BY <1>1, <1>2, <2>2
<1>4. \A d \in handled : d.method = "export" => \E i \in Intended(d.action) : kept'[i.bundle].content = d.bundle
  <2>1. TAKE d \in handled
  <2>2. HAVE d.method = "export"
  <2>3. PICK i \in Intended(d.action) : kept[i.bundle].content = d.bundle
    BY <2>2 DEF ExportInv
  <2> QED
    BY <1>1, <1>2, <2>3
<1>5. CASE UNCHANGED export
  <2>1. export'.at # "idle" => export'.bundle \in 1 .. Len(kept')
    BY <1>5 DEF ExportInv
  <2> QED
    BY <1>1, <1>2, <1>3, <1>4, <1>5, <2>1 DEF ExportInv
<1>6. CASE /\ export' = [at |-> "frozen", action |-> export'.action, bundle |-> export'.bundle, token |-> export'.token]
           /\ export'.bundle \in 1 .. Len(kept') /\ Intended(export'.action) = {}
  <2>1. export'.at = "frozen"
    BY <1>6
  <2> QED
    BY <1>1, <1>2, <1>3, <1>4, <1>6, <2>1 DEF ExportInv
<1> QED
  BY <1>5, <1>6

\* The bytes of an artifact are damaged.
LEMMA DamageKeptStep == ASSUME BundleInv, DamageKept PROVE BundleInv'
<1>1. /\ ExportInv /\ UNCHANGED <<bench, intents, handled, away, folder, selections, export, linked, others>>
  BY DEF BundleInv, DamageKept
<1>2. PICK contents : kept \in Seq([content : contents, good : BOOLEAN])
  BY <1>1 DEF ExportInv, Published
<1>3. PICK k \in DOMAIN kept : kept' = [kept EXCEPT ![k].good = FALSE]
  BY DEF DamageKept
<1> DEFINE R == [content : contents, good : BOOLEAN]
           e == [kept[k] EXCEPT !.good = FALSE]
<1>4. kept[k] \in R /\ DOMAIN kept = 1 .. Len(kept) /\ Len(kept) \in Nat
  <2>1. kept \in Seq(R)
    BY <1>2
  <2> HIDE DEF R
  <2>2. DOMAIN kept = 1 .. Len(kept) /\ Len(kept) \in Nat
    BY <2>1
  <2>3. k \in 1 .. Len(kept)
    BY <1>3, <2>2
  <2>4. kept[k] \in R
    BY <2>1, <2>3, ElementOfSeq
  <2> QED
    BY <2>2, <2>4
<1>5. e \in R /\ e.content = kept[k].content
  BY <1>4
<1>6. kept' = [kept EXCEPT ![k] = e]
  BY <1>2, <1>3
<1>7. kept \in Seq(R)
  BY <1>2
<1> HIDE DEF e, R
<1>8. /\ kept' \in Seq(R) /\ Len(kept') = Len(kept)
      /\ \A j \in DOMAIN kept : j # k => kept'[j] = kept[j]
      /\ kept'[k] = e
  <2>1. e \in R /\ k \in DOMAIN kept
    BY <1>3, <1>5
  <2>2. /\ [kept EXCEPT ![k] = e] \in Seq(R) /\ Len([kept EXCEPT ![k] = e]) = Len(kept)
        /\ \A j \in DOMAIN kept : j # k => [kept EXCEPT ![k] = e][j] = kept[j]
        /\ [kept EXCEPT ![k] = e][k] = e
    BY <1>7, <2>1, ReplaceOne
  <2> QED
    BY <1>6, <2>2
<1>9. \A j \in 1 .. Len(kept) : kept'[j].content = kept[j].content
  BY <1>4, <1>5, <1>8
<1>10. Published(kept')
  BY <1>8 DEF R, Published
<1>11. Len(kept') \in Nat /\ Len(kept) <= Len(kept') /\ UNCHANGED <<intents, linked, handled, export>>
  BY <1>1, <1>4, <1>8
<1>12. ExportInv'
  BY <1>1, <1>4, <1>9, <1>10, <1>11, KeptGrows
<1> QED
  BY <1>1, <1>12, BenchKept, PlaceKept, ImportKept DEF BundleInv

\* An export freezes a snapshot.
LEMMA FreshStep ==
  ASSUME BundleInv, NEW a, NEW token, ExportFresh(a, token)
  PROVE  BundleInv'
<1>1. /\ ExportInv /\ Intended(a) = {} /\ UNCHANGED <<bench, intents, handled, away, folder, linked, others>>
      /\ export' = [at |-> "frozen", action |-> a, bundle |-> Len(kept) + 1, token |-> token]
  BY DEF BundleInv, ExportFresh
<1>2. PICK b : kept' = Append(kept, [content |-> b, good |-> TRUE])
  BY DEF ExportFresh, Publish
<1>3. PICK contents : kept \in Seq([content : contents, good : BOOLEAN])
  BY <1>1 DEF ExportInv, Published
<1> DEFINE R == [content : contents, good : BOOLEAN]
           T == [content : contents \cup {b}, good : BOOLEAN]
           e == [content |-> b, good |-> TRUE]
<1>4. R \subseteq T /\ e \in T
  OBVIOUS
<1>5. kept \in Seq(R)
  BY <1>3
<1> HIDE DEF R
<1>6. \A list \in Seq(T) : Published(list)
  BY DEF Published
<1> HIDE DEF T, e
<1>7. kept \in Seq(T)
  BY <1>4, <1>5, SeqMonotonic
<1>8. /\ Append(kept, e) \in Seq(T) /\ Len(kept) \in Nat /\ Len(Append(kept, e)) = Len(kept) + 1
      /\ \A k \in 1 .. Len(kept) : Append(kept, e)[k] = kept[k]
  BY <1>4, <1>7, AppendOne
<1>9. kept' = Append(kept, e)
  BY <1>2 DEF e
<1>10. /\ Len(kept') \in Nat /\ Len(kept) <= Len(kept') /\ Published(kept')
       /\ \A k \in 1 .. Len(kept) : kept'[k].content = kept[k].content
  <2>1. Len(kept') = Len(kept) + 1 /\ kept' \in Seq(T)
    BY <1>8, <1>9
  <2>2. \A k \in 1 .. Len(kept) : kept'[k] = kept[k]
    BY <1>8, <1>9
  <2> QED
    BY <1>6, <1>8, <2>1, <2>2
<1>11. /\ export' = [at |-> "frozen", action |-> export'.action, bundle |-> export'.bundle, token |-> export'.token]
       /\ export'.bundle \in 1 .. Len(kept') /\ Intended(export'.action) = {}
  BY <1>1, <1>8, <1>9
<1>12. ExportInv'
  BY <1>1, <1>8, <1>10, <1>11, KeptGrows
<1> QED
  BY <1>1, <1>12, BenchKept, PlaceKept, ImportKept DEF BundleInv

\* An export goes on with the bundle of its intent.
LEMMA ExportGoes ==
  ASSUME ExportInv, UNCHANGED <<kept, intents, handled, linked>>, NEW i \in intents,
         export' = [at |-> export'.at, action |-> i.action, bundle |-> i.bundle, token |-> export'.token],
         export'.at \in {"intended", "writing", "linked"}
  PROVE  ExportInv'
<1>1. \A a : Intended(a)' = Intended(a)
  BY DEF Intended
<1>2. export'.bundle = i.bundle /\ export'.action = i.action /\ i \in Intended(i.action)
  BY DEF Intended
<1> QED
  BY <1>1, <1>2 DEF ExportInv

\* An export is asked for again.
LEMMA AgainStep ==
  ASSUME BundleInv, NEW a, ExportAgain(a)
  PROVE  BundleInv'
<1>1. ExportInv /\ UNCHANGED <<bench, kept, intents, handled, away, folder, linked, others>>
  BY DEF BundleInv, ExportAgain
<1>2. PICK i \in Intended(a) : export' = [at |-> "intended", action |-> a, bundle |-> i.bundle, token |-> i.token]
  BY DEF ExportAgain
<1>3. i \in intents /\ i.action = a
  BY DEF Intended
<1>4. ExportInv'
  BY <1>1, <1>2, <1>3, ExportGoes
<1> QED
  BY <1>1, <1>4, BenchKept, PlaceKept, ImportKept DEF BundleInv

\* The destination is checked.
LEMMA CheckStep == ASSUME BundleInv, CheckDestination PROVE BundleInv'
<1>1. /\ ExportInv /\ UNCHANGED <<bench, kept, intents, handled, away, folder, linked, others>>
      /\ export.at = "intended"
  BY DEF BundleInv, CheckDestination
<1>2. export' = NoExport \/ (\E at \in {"writing", "linked"} : export' = [export EXCEPT !.at = at])
  BY DEF CheckDestination
<1>3. CASE export' = NoExport
  BY <1>1, <1>3, ExportKept, BenchKept, PlaceKept, ImportKept DEF BundleInv
<1>4. CASE \E at \in {"writing", "linked"} : export' = [export EXCEPT !.at = at]
  <2>1. PICK at \in {"writing", "linked"} : export' = [export EXCEPT !.at = at]
    BY <1>4
  <2>2. export' = [at |-> at, action |-> export.action, bundle |-> export.bundle, token |-> export.token]
    BY <1>1, <2>1 DEF ExportInv
  <2>3. PICK i \in Intended(export.action) : i.bundle = export.bundle
    BY <1>1 DEF ExportInv
  <2>4. i \in intents /\ i.action = export.action
    BY DEF Intended
  <2>5. ExportInv'
    BY <1>1, <2>2, <2>3, <2>4, ExportGoes
  <2> QED
    BY <1>1, <2>5, BenchKept, PlaceKept, ImportKept DEF BundleInv
<1> QED
  BY <1>2, <1>3, <1>4

\* The intent is recorded.
LEMMA IntentStep == ASSUME BundleInv, RecordIntent PROVE BundleInv'
<1> DEFINE new == [action |-> export.action, bundle |-> export.bundle, token |-> export.token]
<1>1. /\ ExportInv /\ UNCHANGED <<bench, kept, handled, away, folder, linked, others>>
      /\ export.at = "frozen" /\ intents' = intents \cup {new} /\ export' = [export EXCEPT !.at = "intended"]
  BY DEF BundleInv, RecordIntent
<1>2. new.action = export.action /\ new.bundle = export.bundle
  OBVIOUS
<1> HIDE DEF new
<1>3. export' = [at |-> "intended", action |-> export.action, bundle |-> export.bundle, token |-> export.token]
  BY <1>1 DEF ExportInv
<1>4. Intended(export.action) = {} /\ export.bundle \in 1 .. Len(kept)
  BY <1>1 DEF ExportInv
<1>5. \A i \in intents : i.action # export.action
  BY <1>4 DEF Intended
<1>6. /\ \A a : Intended(a) \subseteq Intended(a)' /\ new \in Intended(export.action)'
  BY <1>1, <1>2 DEF Intended
<1>7. /\ \A i \in intents' : i.bundle \in 1 .. Len(kept')
      /\ \A i, j \in intents' : i.action = j.action => i = j
  BY <1>1, <1>2, <1>4, <1>5 DEF ExportInv
<1>8. /\ \A l \in linked' : \E i \in Intended(l.action)' : kept'[i.bundle].content = l.bundle
      /\ \A d \in handled' : d.method = "export" => \E i \in Intended(d.action)' : kept'[i.bundle].content = d.bundle
  BY <1>1, <1>6 DEF ExportInv
<1>9. export'.at = "intended" /\ export'.bundle = export.bundle /\ export'.action = export.action
  BY <1>3
<1>10. \E i \in Intended(export.action)' : i.bundle = export.bundle
  BY <1>2, <1>6
<1>11. ExportInv'
  BY <1>1, <1>3, <1>4, <1>7, <1>8, <1>9, <1>10 DEF ExportInv
<1> QED
  BY <1>1, <1>11, BenchKept, PlaceKept, ImportKept DEF BundleInv

\* What the export in progress puts in place, or answers, is what its intent says.
LEMMA InProgress ==
  ASSUME ExportInv, export.at \in {"intended", "writing", "linked"}
  PROVE  \E i \in Intended(export.action) : kept[i.bundle].content = Bytes
<1>1. PICK i \in Intended(export.action) : i.bundle = export.bundle
  BY DEF ExportInv
<1> QED
  BY <1>1 DEF Bytes

\* The bundle is put in place.
LEMMA LinkStep == ASSUME BundleInv, LinkDestination PROVE BundleInv'
<1>1. /\ ExportInv /\ PlaceInv /\ UNCHANGED <<bench, kept, intents, handled, away, selections, others>>
      /\ export.at = "writing"
  BY DEF BundleInv, LinkDestination
<1>2. CASE export' = NoExport /\ UNCHANGED <<folder, linked>>
  BY <1>1, <1>2, ExportKept, BenchKept, PlaceKept, ImportKept DEF BundleInv
<1>3. CASE ~(export' = NoExport /\ UNCHANGED <<folder, linked>>)
  <2> DEFINE place == export.token.place
             new == [action |-> export.action, bundle |-> Bytes]
  <2>1. /\ folder.file[place] = NoFileThere /\ folder' = [folder EXCEPT !.file[place] = Bytes]
        /\ linked' = linked \cup {new} /\ export' = [export EXCEPT !.at = "linked"]
    BY <1>3 DEF LinkDestination
  <2>2. new.action = export.action /\ new.bundle = Bytes
    OBVIOUS
  <2> HIDE DEF place, new
  <2>3. folder' = [id |-> folder.id, file |-> [p \in FolderNames |-> IF p = place THEN Bytes ELSE folder.file[p]]]
    BY <1>1, <2>1 DEF PlaceInv
  <2>4. PlaceInv'
    BY <1>1, <2>1, <2>3 DEF PlaceInv
  <2>5. export' = [at |-> "linked", action |-> export.action, bundle |-> export.bundle, token |-> export.token]
    BY <1>1, <2>1 DEF ExportInv
  <2>6. PICK i \in Intended(export.action) : i.bundle = export.bundle
    BY <1>1 DEF ExportInv
  <2>7. kept[i.bundle].content = Bytes /\ i \in intents /\ i.action = export.action
    BY <2>6 DEF Bytes, Intended
  <2>8. \A a : Intended(a)' = Intended(a)
    BY <1>1 DEF Intended
  <2>9. \A l \in linked' : \E j \in Intended(l.action)' : kept'[j.bundle].content = l.bundle
    <3>1. TAKE l \in linked'
    <3>2. CASE l = new
      BY <1>1, <2>2, <2>6, <2>7, <2>8, <3>2
    <3>3. CASE l \in linked
      BY <1>1, <2>8, <3>3 DEF ExportInv
    <3> QED
      BY <2>1, <3>2, <3>3
  <2>10. export'.at = "linked" /\ export'.action = export.action /\ export'.bundle = export.bundle
    BY <2>5
  <2>11. ExportInv'
    BY <1>1, <2>5, <2>6, <2>8, <2>9, <2>10 DEF ExportInv
  <2> QED
    BY <1>1, <2>4, <2>11, BenchKept, ImportKept DEF BundleInv
<1> QED
  BY <1>2, <1>3

\* The answer is recorded.
LEMMA AnsweredStep == ASSUME BundleInv, RecordExport PROVE BundleInv'
<1> DEFINE new == [action |-> export.action, method |-> "export", bundle |-> Bytes]
<1>1. /\ ExportInv /\ UNCHANGED <<bench, kept, intents, away, folder, linked, others>>
      /\ export.at = "linked" /\ handled' = handled \cup {new} /\ export' = NoExport
  BY DEF BundleInv, RecordExport
<1>2. new.action = export.action /\ new.bundle = Bytes /\ new.method = "export"
  OBVIOUS
<1> HIDE DEF new
<1>3. PICK i \in Intended(export.action) : kept[i.bundle].content = Bytes
  BY <1>1, InProgress
<1>4. \A a : Intended(a)' = Intended(a)
  BY <1>1 DEF Intended
<1>5. \A d \in handled' : d.method = "export" => \E j \in Intended(d.action)' : kept'[j.bundle].content = d.bundle
  <2>1. TAKE d \in handled'
  <2>2. HAVE d.method = "export"
  <2>3. CASE d = new
    BY <1>1, <1>2, <1>3, <1>4, <2>3
  <2>4. CASE d \in handled
    BY <1>1, <1>4, <2>2, <2>4 DEF ExportInv
  <2> QED
    BY <1>1, <2>3, <2>4
<1>6. /\ export' = [at |-> export'.at, action |-> export'.action, bundle |-> export'.bundle, token |-> export'.token]
      /\ export'.at = "idle"
  BY <1>1 DEF NoExport
<1>7. ExportInv'
  BY <1>1, <1>4, <1>5, <1>6 DEF ExportInv
<1>8. ImportInv'
  BY <1>1, <1>2, ImportKept DEF BundleInv
<1> QED
  BY <1>1, <1>7, <1>8, BenchKept, PlaceKept DEF BundleInv

\* A fact is a kind, an identity and a value, and a bundle says one value of each identity.
LEMMA FactsAre ==
  ASSUME NEW b
  PROVE  /\ \A f \in Facts(b) : f = <<f[1], f[2], f[3]>>
         /\ \A f, g \in Facts(b) : f[1] = g[1] /\ f[2] = g[2] => f[3] = g[3]
<1> DEFINE Value(kind, n) == CASE kind = "run" -> b.state
                               [] kind = "trial" -> b.selected[n]
                               [] kind = "attempt" -> b.attempts[n]
                               [] OTHER -> b.notes[n]
<1>1. ASSUME NEW f \in Facts(b)
      PROVE  f = <<f[1], f[2], f[3]>> /\ f[3] = Value(f[1], f[2])
  <2>1. CASE f = <<"run", 0, b.state>>
    BY <2>1
  <2>2. CASE \E t \in 1 .. MaxRepeats : f = <<"trial", t, b.selected[t]>>
    BY <2>2
  <2>3. CASE \E i \in DOMAIN b.attempts : f = <<"attempt", i, b.attempts[i]>>
    BY <2>3
  <2>4. CASE \E n \in DOMAIN b.notes : f = <<"note", n, b.notes[n]>>
    BY <2>4
  <2> QED
    BY <2>1, <2>2, <2>3, <2>4 DEF Facts
<1> HIDE DEF Value
<1> QED
  BY <1>1

\* A bundle is imported.
LEMMA ImportStep ==
  ASSUME BundleInv, NEW a, NEW token, ImportBundle(a, token)
  PROVE  BundleInv'
<1>1. /\ ImportInv /\ UNCHANGED <<bench, kept, intents, folder, export, linked, others>>
  BY DEF BundleInv, ImportBundle
<1>2. CASE UNCHANGED <<away, handled, selections>>
  BY <1>1, <1>2, ExportKept, BenchKept, PlaceKept, ImportKept DEF BundleInv
<1>3. CASE ~UNCHANGED <<away, handled, selections>>
  <2> DEFINE b == token.identity
             new == [action |-> a, method |-> "import", bundle |-> b]
  <2>1. /\ Readable(b) /\ Contradicted(b) = {}
        /\ away' = [away EXCEPT !.bundles = @ \cup {b}, !.facts = Remember(@, b),
                                !.report = IF @ = <<>> THEN <<b>> ELSE @]
        /\ handled' = handled \cup {new}
    BY <1>3 DEF ImportBundle
  <2>2. new.method = "import" /\ new.bundle = b
    OBVIOUS
  <2> HIDE DEF b, new
  <2>3. away' = [bundles |-> away.bundles \cup {b}, facts |-> Remember(away.facts, b),
                 report |-> IF away.report = <<>> THEN <<b>> ELSE away.report]
    BY <1>1, <2>1 DEF ImportInv
  <2>4. /\ away'.bundles = away.bundles \cup {b} /\ away'.facts = Remember(away.facts, b)
        /\ away'.report = IF away.report = <<>> THEN <<b>> ELSE away.report
    BY <2>3
  <2>5. \A f \in Facts(b) : f = <<f[1], f[2], f[3]>>
    BY FactsAre
  <2>6. \A f, g \in Facts(b) : f[1] = g[1] /\ f[2] = g[2] => f[3] = g[3]
    BY FactsAre
  <2>7. \A f \in away'.facts : f \in away.facts \/ (f \in Facts(b) /\ \A g \in away.facts : ~(f[1] = g[1] /\ f[2] = g[2]))
    BY <2>4 DEF Remember
  <2>8. \A f \in away'.facts : f = <<f[1], f[2], f[3]>>
    BY <1>1, <2>5, <2>7 DEF ImportInv
  <2>9. \A f, g \in away.facts : f[1] = g[1] /\ f[2] = g[2] => f[3] = g[3]
    BY <1>1 DEF ImportInv, ImportsAgree
  <2>10. \A f, g \in away'.facts : f[1] = g[1] /\ f[2] = g[2] => f[3] = g[3]
    BY <2>6, <2>7, <2>9
  <2>11. Facts(b) \subseteq away'.facts
    <3> SUFFICES ASSUME NEW f \in Facts(b) PROVE f \in away'.facts
      OBVIOUS
    <3>2. CASE \A g \in away.facts : ~(f[1] = g[1] /\ f[2] = g[2])
      BY <2>4, <3>2 DEF Remember
    <3>3. CASE \E g \in away.facts : f[1] = g[1] /\ f[2] = g[2]
      <4>1. PICK g \in away.facts : f[1] = g[1] /\ f[2] = g[2]
        BY <3>3
      <4>2. f[3] = g[3]
        BY <2>1, <4>1 DEF Contradicted
      <4>3. g = <<g[1], g[2], g[3]>> /\ f = <<f[1], f[2], f[3]>>
        BY <1>1, <2>5 DEF ImportInv
      <4>4. f = g
        BY <4>1, <4>2, <4>3
      <4> QED
        BY <2>4, <4>4 DEF Remember
    <3> QED
      BY <3>2, <3>3
  <2>12. \A x \in away'.bundles : Readable(x) /\ Facts(x) \subseteq away'.facts
    <3>1. away.facts \subseteq away'.facts
      BY <2>4 DEF Remember
    <3>2. \A x \in away.bundles : Readable(x) /\ Facts(x) \subseteq away.facts
      BY <1>1 DEF ImportInv, ImportsAgree
    <3> QED
      BY <2>1, <2>4, <2>11, <3>1, <3>2
  <2>13. \A d \in handled' : d.method = "import" => d.bundle \in away'.bundles
    BY <1>1, <2>1, <2>2, <2>4 DEF ImportInv, ImportsAgree
  <2>14. away'.report # <<>> => away'.report[1] \in away'.bundles
    <3>1. CASE away.report = <<>>
      BY <2>4, <3>1
    <3>2. CASE away.report # <<>>
      BY <1>1, <2>4, <3>2 DEF ImportInv, ImportsAgree
    <3> QED
      BY <3>1, <3>2
  <2>15. away' = [bundles |-> away'.bundles, facts |-> away'.facts, report |-> away'.report]
    BY <2>3
  <2>16. \A f, g \in away'.facts : <<f[1], f[2]>> = <<g[1], g[2]>> => f[3] = g[3]
    BY <2>10
  <2>17. ImportsAgree'
    BY <2>12, <2>13, <2>14, <2>16 DEF ImportsAgree, Readable, Facts, TrialsSound, NotesSound
  <2>18. ImportInv'
    BY <2>8, <2>15, <2>17 DEF ImportInv
  <2>19. \A d \in handled' : d \in handled \/ d.method = "import"
    BY <2>1, <2>2
  <2> QED
    BY <1>1, <2>18, <2>19, ExportKept, BenchKept, PlaceKept DEF BundleInv
<1> QED
  BY <1>2, <1>3

\* In the beginning nothing was exported or imported.
LEMMA NothingSaid == BundleInit => BundleInv
<1> SUFFICES ASSUME BundleInit PROVE BundleInv
  OBVIOUS
<1>1. BenchInv
  <2>1. <<>> \in Seq(Trial) /\ <<>> \in Seq(Note) /\ Len(<<>>) = 0
    OBVIOUS
  <2> QED
    BY <2>1 DEF BundleInit, BenchInv
<1>2. ExportInv
  <2>1. Published(kept)
    BY DEF BundleInit, Published
  <2> QED
    BY <2>1 DEF BundleInit, ExportInv, NoExport
<1>3. PlaceInv
  BY DEF BundleInit, PlaceInv
<1>4. ImportInv
  BY DEF BundleInit, ImportInv, ImportsAgree
<1> QED
  BY <1>1, <1>2, <1>3, <1>4 DEF BundleInv

\* What is frozen of a run as it is, is readable.
LEMMA FrozenIsReadable ==
  ASSUME BenchInv, NEW privacy, NEW id
  PROVE  Readable(Freeze(privacy, id))
<1> DEFINE b == Freeze(privacy, id)
<1>1. /\ b.sealed = TRUE /\ b.notes = bench.notes /\ DOMAIN b.attempts = Attempts
      /\ b.selected = [t \in 1 .. MaxRepeats |-> IF t \in Attempts THEN t ELSE 0]
      /\ b.evidence = [i \in Attempts |-> EvidenceStatus(bench.attempts[i].evidence, privacy)]
  BY DEF Freeze
<1>2. b # NoFileThere
  <2>1. DOMAIN b # DOMAIN NoFileThere
    BY DEF Freeze, NoFileThere
  <2> QED
    BY <2>1
<1> HIDE DEF b
<1>3. TrialsSound(b)
  BY <1>1 DEF TrialsSound
<1>4. /\ bench.attempts \in Seq(Trial) /\ bench.notes \in Seq(Note)
      /\ Attempts = 1 .. Len(bench.attempts) /\ DOMAIN bench.notes = 1 .. Len(bench.notes)
  BY DEF BenchInv, Attempts
<1>5. \A i \in Attempts : bench.attempts[i].evidence # "none" => b.evidence[i] # "none"
  <2>1. TAKE i \in Attempts
  <2>2. bench.attempts[i] \in Trial
    BY <1>4
  <2>3. bench.attempts[i].evidence \in {"none", "metadata", "private", "damaged"}
    BY <2>2 DEF Trial
  <2> QED
    BY <1>1, <2>3 DEF EvidenceStatus
<1>6. NotesSound(b)
  BY <1>1, <1>4, <1>5 DEF BenchInv, NotesSound
<1>7. b.sealed
  BY <1>1
<1>8. Readable(b)
  BY <1>2, <1>3, <1>6, <1>7 DEF Readable
<1> QED
  BY <1>8 DEF b

\* The invariant says what the property says.
LEMMA FaithfulThen == BundleInv => BundlesFaithful
<1> SUFFICES ASSUME BundleInv PROVE BundlesFaithful
  OBVIOUS
<1>1. SnapshotsReadable
  BY FrozenIsReadable DEF BundleInv, SnapshotsReadable
<1>2. \A l, m \in linked : l.action = m.action => l.bundle = m.bundle
  <2>1. TAKE l, m \in linked
  <2>2. HAVE l.action = m.action
  <2>3. PICK i \in Intended(l.action) : kept[i.bundle].content = l.bundle
    BY DEF BundleInv, ExportInv
  <2>4. PICK j \in Intended(m.action) : kept[j.bundle].content = m.bundle
    BY DEF BundleInv, ExportInv
  <2>5. i = j
    BY <2>2 DEF BundleInv, ExportInv, Intended
  <2> QED
    BY <2>3, <2>4, <2>5
<1>3. ExportsAgree
  BY <1>2 DEF BundleInv, ExportInv, PlaceInv, ExportsAgree
<1> QED
  BY <1>1, <1>3 DEF BundleInv, ImportInv, BundlesFaithful

(***************************************************************************)
(* Whatever crashes, however often an export is asked for again, whatever  *)
(* other programs write into the folder, forge or remove: an action puts   *)
(* one bundle in place and never over a file of somebody else, what the    *)
(* store freezes is what its reader accepts, and what was imported agrees  *)
(* with itself (artifacts.py:113-263, results.py:62-222).                  *)
(***************************************************************************)
THEOREM BundlesTrue == BundleSpec => []BundlesFaithful
<1>1. BundleInit => BundleInv
  BY NothingSaid
<1>2. BundleInv /\ [BundleNext]_bundle_vars => BundleInv'
  <2> SUFFICES ASSUME BundleInv, [BundleNext]_bundle_vars PROVE BundleInv'
    OBVIOUS
  <2>1. CASE UNCHANGED bundle_vars
    BY <2>1, BenchKept, PlaceKept, ExportKept, ImportKept DEF bundle_vars, BundleInv
  <2>2. CASE AttemptBegins
    BY <2>2, BeginsStep
  <2>3. CASE AttemptIsOver
    BY <2>3, OverStep
  <2>4. CASE DamageEvidence
    BY <2>4, DamageStep
  <2>5. CASE DamageKept
    BY <2>5, DamageKeptStep
  <2>6. CASE \E p \in FolderNames : GrantSource(p) \/ \E privacy \in Privacies : GrantDestination(p, privacy)
    BY <2>6, AloneSteps DEF GrantSource, GrantDestination
  <2>7. CASE GrantExpires
    BY <2>7, AloneSteps
  <2>8. CASE \E a \in BundleActions : \/ ExportAgain(a)
                                      \/ \E token \in selections : ExportFresh(a, token) \/ ImportBundle(a, token)
    BY <2>8, AgainStep, FreshStep, ImportStep
  <2>9. CASE RecordIntent
    BY <2>9, IntentStep
  <2>10. CASE CheckDestination
    BY <2>10, CheckStep
  <2>11. CASE LinkDestination
    BY <2>11, LinkStep
  <2>12. CASE RecordExport
    BY <2>12, AnsweredStep
  <2>13. CASE \E i \in Attempts, cites \in BOOLEAN : Annotated(i, cites)
    BY <2>13, AnnotatedStep
  <2>14. CASE BundleCrash
    BY <2>14, AloneSteps
  <2>15. CASE OthersWrite
    BY <2>15, OthersStep
  <2> QED
    BY <2>1, <2>2, <2>3, <2>4, <2>5, <2>6, <2>7, <2>8, <2>9, <2>10, <2>11, <2>12, <2>13, <2>14, <2>15
    DEF BundleNext
<1>3. BundleInv => BundlesFaithful
  BY FaithfulThen
<1> QED
  BY <1>1, <1>2, <1>3, PTL DEF BundleSpec

(***************************************************************************)
(* ModelCalls.                                                             *)
(***************************************************************************)

Account == [calls : Nat, usage : Nat, unknown : Nat]
Call == [pc : {"idle", "begin", "streaming", "sleeping"}, attempt : Nat, began : Nat, started : BOOLEAN,
         probe : BOOLEAN, reported : Nat, final : BOOLEAN, open : BOOLEAN, calls : Nat]

CallTypes ==
  /\ caller \in [Callers -> Call] /\ account \in [Callers -> Account] /\ parentAccount \in Account
  /\ sent \in [Callers -> [started : Nat, finished : Nat]]
  /\ billed \in [Callers -> [tokens : Nat, unknown : Nat]]
HealthTypes ==
  /\ health \in [failures : Nat, circuit : {"closed", "cooling", "cooled"}, probe : BOOLEAN, paused : BOOLEAN]
  /\ disturbed \in BOOLEAN

\* What a call at each place says of its attempt: k its record, a the account, s and b the histories.
AttemptTrue(k, a, s, b) ==
  /\ k.open <=> k.pc = "streaming"
  /\ k.started => k.pc = "streaming"
  /\ k.began = IF k.started THEN 1 ELSE 0
  /\ k.pc = "idle" => k.reported = 0
  /\ s.started = a.calls /\ a.calls <= Limit
  /\ s.started = s.finished + (IF k.open THEN 1 ELSE 0)
  /\ a.usage + k.reported = b.tokens /\ a.unknown = b.unknown
AttemptsInv == \A c \in Callers : AttemptTrue(caller[c], account[c], sent[c], billed[c])

Made == [c \in Callers |-> account[c].calls]
Spent == [c \in Callers |-> account[c].usage]
ParentInv ==
  /\ parentAccount.calls = Total(Made, Children) /\ parentAccount.calls <= ParentLimit
  /\ parentAccount.usage = Total(Spent, Children)

\* The one probe has the mark, and the circuit is open, so that nobody else may have it.
Alone == \A c, d \in Probing : c = d
Marked == Probing # {} => health.probe /\ health.circuit # "closed"
ProbeInv == ~disturbed => Alone /\ Marked

AccountsInv == CallTypes /\ AttemptsInv /\ ParentInv
CallInvariant == AccountsInv /\ HealthTypes /\ ProbeInv

\* One caller's call, account and histories change together, and true ones replace true ones.
LEMMA OneCaller ==
  ASSUME CallTypes, AttemptsInv, NEW c \in Callers, NEW k \in Call, NEW a \in Account,
         NEW s \in [started : Nat, finished : Nat], NEW b \in [tokens : Nat, unknown : Nat],
         caller' = [caller EXCEPT ![c] = k], account' = [account EXCEPT ![c] = a],
         sent' = [sent EXCEPT ![c] = s], billed' = [billed EXCEPT ![c] = b],
         parentAccount' \in Account, AttemptTrue(k, a, s, b)
  PROVE  CallTypes' /\ AttemptsInv'
<1>1. CallTypes'
  BY DEF CallTypes
<1>2. ASSUME NEW d \in Callers PROVE AttemptTrue(caller'[d], account'[d], sent'[d], billed'[d])
  <2>1. CASE d = c
    <3>1. caller'[d] = k /\ account'[d] = a /\ sent'[d] = s /\ billed'[d] = b
      BY <2>1 DEF CallTypes
    <3> QED
      BY <3>1
  <2>2. CASE d # c
    <3>1. caller'[d] = caller[d] /\ account'[d] = account[d] /\ sent'[d] = sent[d] /\ billed'[d] = billed[d]
      BY <2>2 DEF CallTypes
    <3> QED
      BY <3>1 DEF AttemptsInv
  <2> QED
    BY <2>1, <2>2
<1> QED
  BY <1>1, <1>2 DEF AttemptsInv

\* What a caller has not touched is as if it were written again.
LEMMA Untouched ==
  ASSUME CallTypes, NEW c \in Callers
  PROVE  /\ caller = [caller EXCEPT ![c] = caller[c]] /\ account = [account EXCEPT ![c] = account[c]]
         /\ sent = [sent EXCEPT ![c] = sent[c]] /\ billed = [billed EXCEPT ![c] = billed[c]]
         /\ caller[c] \in Call /\ account[c] \in Account
         /\ sent[c] \in [started : Nat, finished : Nat] /\ billed[c] \in [tokens : Nat, unknown : Nat]
BY DEF CallTypes

\* Settle adds to the caller what it adds to the parent.
LEMMA Settles ==
  ASSUME CallTypes, ParentInv, NEW c \in Callers, NEW k \in Call, NEW n \in Nat, Settle(c, k, n),
         c \in Children => parentAccount.calls + n <= ParentLimit,
         NEW u \in Nat, u = Lacking(k), NEW r \in Nat, r = k.reported
  PROVE  /\ account' = [account EXCEPT ![c] = [calls |-> account[c].calls + n, usage |-> account[c].usage + r,
                                               unknown |-> account[c].unknown + u]]
         /\ parentAccount' \in Account /\ ParentInv'
<1> DEFINE new == [calls |-> account[c].calls + n, usage |-> account[c].usage + r,
                   unknown |-> account[c].unknown + u]
<1>1. account' = [account EXCEPT ![c] = new]
  BY DEF Settle, CallTypes
<1>2. account[c] \in Account /\ new \in Account
  BY DEF CallTypes, Account
<1>3. parentAccount' = IF c \in Children
                       THEN [calls |-> parentAccount.calls + n, usage |-> parentAccount.usage + r,
                             unknown |-> parentAccount.unknown + u]
                       ELSE parentAccount
  BY DEF Settle
<1>4. parentAccount \in Account
  BY DEF CallTypes
<1>5. parentAccount' \in Account
  BY <1>3, <1>4 DEF Account
<1>6. new.calls = account[c].calls + n /\ new.usage = account[c].usage + r
  OBVIOUS
<1>7. IsFiniteSet(Children) /\ Children \subseteq Callers
  BY CallAssumption, FS_Subset
<1> HIDE DEF new
<1>8. \A y \in Children : /\ account[y].calls \in Nat /\ account[y].usage \in Nat
                          /\ account'[y].calls = account[y].calls + (IF y = c THEN n ELSE 0)
                          /\ account'[y].usage = account[y].usage + (IF y = c THEN r ELSE 0)
  <2> SUFFICES ASSUME NEW y \in Children
               PROVE  /\ account[y].calls \in Nat /\ account[y].usage \in Nat
                      /\ account'[y].calls = account[y].calls + (IF y = c THEN n ELSE 0)
                      /\ account'[y].usage = account[y].usage + (IF y = c THEN r ELSE 0)
    OBVIOUS
  <2>1. y \in Callers /\ account[y] \in Account /\ account'[y] = IF y = c THEN new ELSE account[y]
    BY <1>1, <1>7 DEF CallTypes
  <2>2. account[y].calls \in Nat /\ account[y].usage \in Nat
    BY <2>1 DEF Account
  <2> QED
    BY <1>6, <2>1, <2>2
<1> DEFINE newMade == [x \in Callers |-> account'[x].calls]
           newSpent == [x \in Callers |-> account'[x].usage]
<1>9. \A y \in Children : Made[y] \in Nat /\ newMade[y] = Made[y] + (IF y = c THEN n ELSE 0)
  BY <1>7, <1>8 DEF Made
<1>14. \A y \in Children : Spent[y] \in Nat /\ newSpent[y] = Spent[y] + (IF y = c THEN r ELSE 0)
  BY <1>7, <1>8 DEF Spent
<1>10. Made' = newMade /\ Spent' = newSpent
  BY DEF Made, Spent
<1> HIDE DEF newMade, newSpent
<1>11. Total(Made, Children) \in Nat /\ Total(newMade, Children) = Total(Made, Children) + (IF c \in Children THEN n ELSE 0)
  BY ONLY n \in Nat, <1>7, <1>9, TotalStep, ZenonT(30)
<1>12. Total(Spent, Children) \in Nat /\ Total(newSpent, Children) = Total(Spent, Children) + (IF c \in Children THEN r ELSE 0)
  BY ONLY r \in Nat, <1>7, <1>14, TotalStep, ZenonT(30)
<1>13. ParentInv'
  <2>1. parentAccount.calls \in Nat /\ parentAccount.usage \in Nat
    BY <1>4 DEF Account
  <2>2. parentAccount'.calls = (IF c \in Children THEN parentAccount.calls + n ELSE parentAccount.calls)
        /\ parentAccount'.usage = (IF c \in Children THEN parentAccount.usage + r ELSE parentAccount.usage)
    BY <1>3
  <2>3. parentAccount.calls = Total(Made, Children) /\ parentAccount.calls <= ParentLimit
        /\ parentAccount.usage = Total(Spent, Children)
    BY DEF ParentInv
  <2>4. parentAccount'.calls = Total(newMade, Children) /\ parentAccount'.calls <= ParentLimit
        /\ parentAccount'.usage = Total(newSpent, Children)
    BY <1>11, <1>12, <2>1, <2>2, <2>3
  <2> QED
    BY <1>10, <2>4 DEF ParentInv
<1> QED
  BY <1>1, <1>5, <1>13 DEF new

\* CountUnknown leaves the calls and the tokens of the two accounts alone.
LEMMA CountsUnknown ==
  ASSUME CallTypes, ParentInv, NEW c \in Callers, NEW u \in Nat, CountUnknown(c, u)
  PROVE  /\ account' = [account EXCEPT ![c] = [calls |-> account[c].calls, usage |-> account[c].usage,
                                               unknown |-> account[c].unknown + u]]
         /\ parentAccount' \in Account /\ ParentInv'
<1> DEFINE new == [calls |-> account[c].calls, usage |-> account[c].usage, unknown |-> account[c].unknown + u]
<1>1. account[c] \in Account /\ account[c] = [calls |-> account[c].calls, usage |-> account[c].usage, unknown |-> account[c].unknown]
  BY DEF CallTypes, Account
<1>2. account' = [account EXCEPT ![c] = new]
  <2>1. \A q \in Account, v \in Nat :
            [q EXCEPT !.unknown = v] = [calls |-> q.calls, usage |-> q.usage, unknown |-> v]
    BY DEF Account
  <2>2. account[c].unknown + u \in Nat
    BY <1>1 DEF Account
  <2>3. [account[c] EXCEPT !.unknown = account[c].unknown + u] = new
    BY <1>1, <2>1, <2>2
  <2>4. account' = [account EXCEPT ![c] = [account[c] EXCEPT !.unknown = account[c].unknown + u]]
    BY DEF CountUnknown, CallTypes
  <2> QED
    BY <2>3, <2>4
<1>3. parentAccount \in Account
  BY DEF CallTypes
<1>4. /\ parentAccount' \in Account
      /\ parentAccount'.calls = parentAccount.calls /\ parentAccount'.usage = parentAccount.usage
  BY <1>3 DEF CountUnknown, Account
<1>5. \A x \in Callers : account'[x].calls = account[x].calls /\ account'[x].usage = account[x].usage
  <2>1. new.calls = account[c].calls /\ new.usage = account[c].usage
    OBVIOUS
  <2> HIDE DEF new
  <2> QED
    BY <1>2, <2>1 DEF CallTypes
<1>6. Made' = Made /\ Spent' = Spent
  BY <1>5 DEF Made, Spent
<1> QED
  BY <1>2, <1>4, <1>6 DEF ParentInv

\* The record of a call that ended.
LEMMA EndedIs ==
  ASSUME NEW k \in Call
  PROVE  /\ Ended(k) \in Call /\ Ended(k).pc = "idle" /\ ~Ended(k).open /\ ~Ended(k).started /\ ~Ended(k).probe
         /\ Ended(k).began = 0 /\ Ended(k).reported = 0
BY DEF Ended, NoCallYet, Call

\* Whether an attempt is open, and whether a report of it is missing, in numbers.
OpenOnes(k) == IF k.open THEN 1 ELSE 0

\* They are numbers.
LEMMA Numbers ==
  ASSUME NEW k \in Call
  PROVE  /\ Lacking(k) \in Nat /\ OpenOnes(k) \in Nat
         /\ ~k.open => Lacking(k) = 0 /\ OpenOnes(k) = 0
         /\ k.reported \in Nat /\ k.began \in Nat /\ k.open \in BOOLEAN /\ k.started \in BOOLEAN
BY DEF Lacking, OpenOnes, Call

\* What the histories say when an attempt ends, or when none was open.
Noted(c) ==
  /\ sent' = [sent EXCEPT ![c] = [started |-> sent[c].started, finished |-> sent[c].finished + OpenOnes(caller[c])]]
  /\ billed' = [billed EXCEPT ![c] = [tokens |-> billed[c].tokens, unknown |-> billed[c].unknown + Lacking(caller[c])]]

\* The end of an attempt writes its two histories.
LEMMA ReportedNotes ==
  ASSUME CallTypes, NEW c \in Callers, Reported(c)
  PROVE  Noted(c)
<1> DEFINE o == OpenOnes(caller[c])
           u == Lacking(caller[c])
<1>1. o \in Nat /\ u \in Nat
  <2>1. caller[c] \in Call
    BY DEF CallTypes
  <2> QED
    BY <2>1, Numbers, Zenon
<1>2. /\ sent' = [sent EXCEPT ![c] = [sent[c] EXCEPT !.finished = sent[c].finished + o]]
      /\ billed' = [billed EXCEPT ![c] = [billed[c] EXCEPT !.unknown = billed[c].unknown + u]]
  BY DEF Reported, CallTypes, OpenOnes
<1> HIDE DEF o, u
<1>3. \A q \in [started : Nat, finished : Nat], v \in Nat :
        [q EXCEPT !.finished = v] = [started |-> q.started, finished |-> v]
  OBVIOUS
<1>4. \A q \in [tokens : Nat, unknown : Nat], v \in Nat :
        [q EXCEPT !.unknown = v] = [tokens |-> q.tokens, unknown |-> v]
  OBVIOUS
<1>5. sent[c] \in [started : Nat, finished : Nat] /\ billed[c] \in [tokens : Nat, unknown : Nat]
  BY DEF CallTypes
<1>6. sent[c].finished + o \in Nat /\ billed[c].unknown + u \in Nat
  BY <1>1, <1>5
<1>7. /\ [sent[c] EXCEPT !.finished = sent[c].finished + o] = [started |-> sent[c].started, finished |-> sent[c].finished + o]
      /\ [billed[c] EXCEPT !.unknown = billed[c].unknown + u] = [tokens |-> billed[c].tokens, unknown |-> billed[c].unknown + u]
  BY <1>3, <1>4, <1>5, <1>6
<1> QED
  BY <1>2, <1>7 DEF Noted, o, u

\* Where no attempt is open there is nothing to write.
LEMMA NothingToNote ==
  ASSUME CallTypes, NEW c \in Callers, ~caller[c].open, UNCHANGED <<sent, billed>>
  PROVE  Noted(c)
<1>1. Lacking(caller[c]) = 0 /\ OpenOnes(caller[c]) = 0
  <2>1. caller[c] \in Call
    BY DEF CallTypes
  <2> QED
    BY <2>1, Numbers, Zenon
<1>2. sent[c] \in [started : Nat, finished : Nat] /\ billed[c] \in [tokens : Nat, unknown : Nat]
  BY DEF CallTypes
<1>3. /\ sent[c] = [started |-> sent[c].started, finished |-> sent[c].finished + 0]
      /\ billed[c] = [tokens |-> billed[c].tokens, unknown |-> billed[c].unknown + 0]
  BY <1>2
<1>4. sent = [sent EXCEPT ![c] = sent[c]] /\ billed = [billed EXCEPT ![c] = billed[c]]
  BY Untouched
<1> QED
  BY <1>1, <1>3, <1>4 DEF Noted

\* The end of a call, wherever it was.
LEMMA Ending ==
  ASSUME AccountsInv, NEW c \in Callers, caller' = [caller EXCEPT ![c] = Ended(caller[c])],
         Settle(c, caller[c], 0), Noted(c)
  PROVE  AccountsInv'
<1> DEFINE k == Ended(caller[c])
           u == Lacking(caller[c])
           o == OpenOnes(caller[c])
           r == caller[c].reported
           a == [calls |-> account[c].calls + 0, usage |-> account[c].usage + r, unknown |-> account[c].unknown + u]
           s == [started |-> sent[c].started, finished |-> sent[c].finished + o]
           b == [tokens |-> billed[c].tokens, unknown |-> billed[c].unknown + u]
<1>1. CallTypes /\ AttemptsInv /\ ParentInv
  BY DEF AccountsInv
<1>2. caller[c] \in Call /\ account[c] \in Account
      /\ sent[c] \in [started : Nat, finished : Nat] /\ billed[c] \in [tokens : Nat, unknown : Nat]
  BY <1>1 DEF CallTypes
<1>3. u \in Nat /\ o \in Nat /\ r \in Nat
  BY <1>2, Numbers, Zenon
<1>4. c \in Children => parentAccount.calls + 0 <= ParentLimit
  BY <1>1, CallAssumption DEF ParentInv, CallTypes, Account
<1>5. 0 \in Nat
  OBVIOUS
<1>6. account' = [account EXCEPT ![c] = a] /\ parentAccount' \in Account /\ ParentInv'
  BY <1>1, <1>2, <1>3, <1>4, <1>5, Settles
<1>7. sent' = [sent EXCEPT ![c] = s] /\ billed' = [billed EXCEPT ![c] = b]
  BY DEF Noted
<1>8. a \in Account /\ s \in [started : Nat, finished : Nat] /\ b \in [tokens : Nat, unknown : Nat]
  <2> HIDE DEF u, o, r
  <2> QED
    BY <1>2, <1>3 DEF Account
<1>9. AttemptTrue(k, a, s, b)
  <2>1. AttemptTrue(caller[c], account[c], sent[c], billed[c])
    BY <1>1 DEF AttemptsInv
  <2>2. account[c].calls \in Nat /\ account[c].usage \in Nat /\ account[c].unknown \in Nat
        /\ sent[c].started \in Nat /\ sent[c].finished \in Nat /\ billed[c].tokens \in Nat /\ billed[c].unknown \in Nat
    BY <1>2 DEF Account
  <2>3. k.pc = "idle" /\ ~k.open /\ ~k.started /\ k.began = 0 /\ k.reported = 0
    BY <1>2, EndedIs
  <2>4. sent[c].started = account[c].calls /\ account[c].calls <= Limit /\ sent[c].started = sent[c].finished + o
        /\ account[c].usage + r = billed[c].tokens /\ account[c].unknown = billed[c].unknown
    BY <2>1 DEF AttemptTrue, OpenOnes
  <2>5. a.calls = account[c].calls + 0 /\ a.usage = account[c].usage + r /\ a.unknown = account[c].unknown + u
        /\ s.started = sent[c].started /\ s.finished = sent[c].finished + o
        /\ b.tokens = billed[c].tokens /\ b.unknown = billed[c].unknown + u
    OBVIOUS
  <2> HIDE DEF k, u, o, r, a, s, b
  <2>6. a.calls = account[c].calls /\ s.started = s.finished + 0 /\ a.usage + k.reported = b.tokens /\ a.unknown = b.unknown
    <3>1. a.calls = account[c].calls
      BY <2>2, <2>5
    <3>2. s.started = s.finished + 0
      BY <1>3, <2>2, <2>4, <2>5
    <3>3. a.usage + k.reported = b.tokens
      BY <1>3, <2>2, <2>3, <2>4, <2>5
    <3>4. a.unknown = b.unknown
      BY <1>3, <2>2, <2>4, <2>5
    <3> QED
      BY <3>1, <3>2, <3>3, <3>4
  <2>7. s.started = s.finished + (IF k.open THEN 1 ELSE 0) /\ k.began = (IF k.started THEN 1 ELSE 0)
        /\ (k.open <=> k.pc = "streaming") /\ (k.started => k.pc = "streaming")
        /\ (k.pc = "idle" => k.reported = 0)
    BY <2>3, <2>6
  <2> QED
    BY <2>4, <2>5, <2>6, <2>7 DEF AttemptTrue
<1>10. k \in Call
  BY <1>2, EndedIs
<1> HIDE DEF k, a, s, b
<1>11. caller' = [caller EXCEPT ![c] = k]
  BY DEF k
<1> QED
  BY <1>1, <1>6, <1>7, <1>8, <1>9, <1>10, <1>11, OneCaller DEF AccountsInv

\* A step of a call that leaves the accounts and the attempts sent alone.
LEMMA CallGoesOn ==
  ASSUME AccountsInv, NEW c \in Callers, NEW k \in Call, NEW b \in [tokens : Nat, unknown : Nat],
         caller' = [caller EXCEPT ![c] = k], billed' = [billed EXCEPT ![c] = b],
         UNCHANGED <<account, parentAccount, sent>>,
         k.open = caller[c].open, k.open <=> k.pc = "streaming", k.started => k.pc = "streaming",
         k.began = IF k.started THEN 1 ELSE 0, k.pc = "idle" => k.reported = 0,
         account[c].usage + k.reported = b.tokens, b.unknown = billed[c].unknown
  PROVE  AccountsInv'
<1>1. CallTypes /\ AttemptsInv /\ ParentInv
  BY DEF AccountsInv
<1>2. AttemptTrue(k, account[c], sent[c], b)
  BY <1>1 DEF AttemptsInv, AttemptTrue
<1>3. parentAccount' \in Account
  BY <1>1 DEF CallTypes
<1>4. /\ account' = [account EXCEPT ![c] = account[c]] /\ sent' = [sent EXCEPT ![c] = sent[c]]
      /\ account[c] \in Account /\ sent[c] \in [started : Nat, finished : Nat]
  BY <1>1, Untouched
<1>5. CallTypes' /\ AttemptsInv'
  BY <1>1, <1>2, <1>3, <1>4, OneCaller
<1>6. Made' = Made /\ Spent' = Spent
  BY DEF Made, Spent
<1> QED
  BY <1>1, <1>5, <1>6 DEF AccountsInv, ParentInv

\* Who begins a call has no tokens that wait.
LEMMA BeginCallAccounts ==
  ASSUME AccountsInv, NEW c \in Callers, BeginCall(c)
  PROVE  AccountsInv'
<1> DEFINE k == [NoCallYet EXCEPT !.pc = "begin", !.attempt = 1, !.calls = caller[c].calls + 1]
<1>1. caller[c] \in Call /\ AttemptTrue(caller[c], account[c], sent[c], billed[c]) /\ CallTypes
  BY DEF AccountsInv, CallTypes, AttemptsInv
<1>2. caller[c].pc = "idle" /\ caller' = [caller EXCEPT ![c] = k]
  BY DEF BeginCall
<1>3. /\ k \in Call /\ ~k.open /\ k.pc = "begin" /\ ~k.started /\ k.began = 0 /\ k.reported = 0
  <2>1. caller[c].calls + 1 \in Nat
    BY <1>1 DEF Call
  <2>2. NoCallYet \in Call
    BY DEF NoCallYet, Call
  <2>3. k \in Call
    BY <2>1, <2>2 DEF Call
  <2>4. ~k.open /\ k.pc = "begin" /\ ~k.started
    BY DEF NoCallYet
  <2>5. k.began = 0 /\ k.reported = 0
    BY DEF NoCallYet
  <2> QED
    BY <2>3, <2>4, <2>5
<1>4. billed[c] \in [tokens : Nat, unknown : Nat] /\ billed' = [billed EXCEPT ![c] = billed[c]]
  BY <1>1, Untouched DEF BeginCall
<1>5. ~caller[c].open /\ account[c].usage + 0 = billed[c].tokens
  BY <1>1, <1>2 DEF AttemptTrue
<1>6. UNCHANGED <<account, parentAccount, sent>>
  BY DEF BeginCall
<1> HIDE DEF k
<1>7. k.open = caller[c].open
  BY <1>1, <1>3, <1>5 DEF Call
<1> QED
  BY <1>2, <1>3, <1>4, <1>5, <1>6, <1>7, CallGoesOn

\* Output comes from the open attempt, and none came before.
LEMMA OutputAccounts ==
  ASSUME AccountsInv, NEW c \in Callers, Output(c)
  PROVE  AccountsInv'
<1> DEFINE k == [caller[c] EXCEPT !.started = TRUE, !.began = caller[c].began + 1]
<1>1. caller[c] \in Call /\ AttemptTrue(caller[c], account[c], sent[c], billed[c]) /\ CallTypes
  BY DEF AccountsInv, CallTypes, AttemptsInv
<1>2. caller' = [caller EXCEPT ![c] = k] /\ caller[c].pc = "streaming" /\ caller[c].open /\ ~caller[c].started
  BY DEF Output, Streams, AccountsInv, CallTypes
<1>3. caller[c].began \in Nat /\ caller[c].began = 0
  BY <1>1, <1>2 DEF AttemptTrue, Call
<1>4. /\ k \in Call /\ k.open = caller[c].open /\ k.pc = "streaming" /\ k.started /\ k.began = caller[c].began + 1
      /\ k.reported = caller[c].reported
  <2>4. caller[c].began + 1 \in Nat
    BY <1>3
  <2>1. k \in Call
    BY <1>1, <2>4 DEF Call
  <2>2. k.open = caller[c].open /\ k.pc = caller[c].pc /\ k.started /\ k.began = caller[c].began + 1
    BY <1>1 DEF Call
  <2>3. k.reported = caller[c].reported
    BY <1>1 DEF Call
  <2> QED
    BY <1>2, <2>1, <2>2, <2>3
<1>5. billed[c] \in [tokens : Nat, unknown : Nat] /\ billed' = [billed EXCEPT ![c] = billed[c]]
  BY <1>1, Untouched DEF Output
<1>6. account[c].usage + k.reported = billed[c].tokens
  BY <1>1, <1>4 DEF AttemptTrue
<1>7. UNCHANGED <<account, parentAccount, sent>>
  BY DEF Output
<1> HIDE DEF k
<1>8. k.began = (IF k.started THEN 1 ELSE 0) /\ k.open /\ (k.pc = "idle" => k.reported = 0)
  BY <1>2, <1>3, <1>4
<1> QED
  BY <1>2, <1>4, <1>5, <1>6, <1>7, <1>8, CallGoesOn

\* A later report of an attempt takes the place of the earlier one.
LEMMA UsageAccounts ==
  ASSUME AccountsInv, NEW c \in Callers, NEW count \in 1 .. MaxTokens, NEW final \in BOOLEAN, Usage(c, count, final)
  PROVE  AccountsInv'
<1> DEFINE k == [caller[c] EXCEPT !.reported = count, !.final = final]
           b == [tokens |-> billed[c].tokens - caller[c].reported + count, unknown |-> billed[c].unknown]
<1>1. caller[c] \in Call /\ AttemptTrue(caller[c], account[c], sent[c], billed[c]) /\ CallTypes
      /\ account[c] \in Account /\ billed[c] \in [tokens : Nat, unknown : Nat]
  BY DEF AccountsInv, CallTypes, AttemptsInv
<1>2. caller' = [caller EXCEPT ![c] = k] /\ caller[c].pc = "streaming" /\ caller[c].open
  BY DEF Usage, Streams, AccountsInv, CallTypes
<1>3. count \in Nat
  BY CallAssumption
<1>4. account[c].usage \in Nat /\ caller[c].reported \in Nat /\ account[c].usage + caller[c].reported = billed[c].tokens
  BY <1>1 DEF AttemptTrue, Account, Call
<1>5. billed[c].tokens - caller[c].reported + count = account[c].usage + count
      /\ account[c].usage + count \in Nat
  BY <1>3, <1>4
<1>6. /\ k \in Call /\ k.open = caller[c].open /\ k.pc = "streaming" /\ k.started = caller[c].started
      /\ k.began = caller[c].began /\ k.reported = count
  BY <1>1, <1>2, <1>3 DEF Call
<1>7. b \in [tokens : Nat, unknown : Nat]
  BY <1>1, <1>5
<1>8. billed' = [billed EXCEPT ![c] = b]
  <2>1. billed' = [billed EXCEPT ![c] = [billed[c] EXCEPT !.tokens = billed[c].tokens - caller[c].reported + count]]
    BY <1>1 DEF Usage, CallTypes
  <2>2. \A q \in [tokens : Nat, unknown : Nat], v \in Nat :
          [q EXCEPT !.tokens = v] = [tokens |-> v, unknown |-> q.unknown]
    OBVIOUS
  <2>3. [billed[c] EXCEPT !.tokens = billed[c].tokens - caller[c].reported + count] = b
    BY <1>1, <1>5, <2>2
  <2> QED
    BY <2>1, <2>3
<1>9. b.tokens = billed[c].tokens - caller[c].reported + count /\ b.unknown = billed[c].unknown
  OBVIOUS
<1>10. UNCHANGED <<account, parentAccount, sent>>
  BY DEF Usage
<1> HIDE DEF k, b
<1>11. k.began = (IF k.started THEN 1 ELSE 0)
  BY <1>1, <1>6 DEF AttemptTrue
<1>12. account[c].usage + k.reported = b.tokens
  BY <1>5, <1>6, <1>9
<1>13. (k.open <=> k.pc = "streaming") /\ (k.started => k.pc = "streaming") /\ (k.pc = "idle" => k.reported = 0)
  BY <1>2, <1>6
<1> QED
  BY <1>2, <1>6, <1>7, <1>8, <1>9, <1>10, <1>11, <1>12, <1>13, CallGoesOn

\* A retry takes the tokens of the attempt before along.
LEMMA WakeAccounts ==
  ASSUME AccountsInv, NEW c \in Callers, Wake(c)
  PROVE  AccountsInv'
<1> DEFINE k == [caller[c] EXCEPT !.pc = "begin", !.attempt = caller[c].attempt + 1]
<1>1. caller[c] \in Call /\ AttemptTrue(caller[c], account[c], sent[c], billed[c]) /\ CallTypes
  BY DEF AccountsInv, CallTypes, AttemptsInv
<1>2. caller' = [caller EXCEPT ![c] = k] /\ caller[c].pc = "sleeping"
  BY DEF Wake, AccountsInv, CallTypes
<1>3. /\ k \in Call /\ k.open = caller[c].open /\ k.pc = "begin" /\ k.started = caller[c].started
      /\ k.began = caller[c].began /\ k.reported = caller[c].reported
  <2>1. caller[c].attempt + 1 \in Nat
    BY <1>1 DEF Call
  <2>2. k \in Call
    BY <1>1, <2>1 DEF Call
  <2>3. k.open = caller[c].open /\ k.pc = "begin" /\ k.started = caller[c].started
    BY <1>1 DEF Call
  <2>4. k.began = caller[c].began /\ k.reported = caller[c].reported
    BY <1>1 DEF Call
  <2> QED
    BY <2>2, <2>3, <2>4
<1>4. ~caller[c].open /\ ~caller[c].started /\ account[c].usage + caller[c].reported = billed[c].tokens
      /\ caller[c].began = IF caller[c].started THEN 1 ELSE 0
  BY <1>1, <1>2 DEF AttemptTrue
<1>5. billed[c] \in [tokens : Nat, unknown : Nat] /\ billed' = [billed EXCEPT ![c] = billed[c]]
  BY <1>1, Untouched DEF Wake
<1>6. UNCHANGED <<account, parentAccount, sent>>
  BY DEF Wake
<1> HIDE DEF k
<1>7. k.began = (IF k.started THEN 1 ELSE 0) /\ (k.open <=> k.pc = "streaming") /\ (k.started => k.pc = "streaming")
      /\ (k.pc = "idle" => k.reported = 0) /\ account[c].usage + k.reported = billed[c].tokens
  BY <1>3, <1>4
<1> QED
  BY <1>2, <1>3, <1>5, <1>6, <1>7, CallGoesOn

\* An attempt that goes out settles the one before, and both budgets have room for it.
LEMMA BeginAttemptAccounts ==
  ASSUME AccountsInv, HealthTypes, NEW c \in Callers, BeginAttempt(c)
  PROVE  AccountsInv'
<1>1. caller[c] \in Call /\ account[c] \in Account /\ sent[c] \in [started : Nat, finished : Nat]
      /\ billed[c] \in [tokens : Nat, unknown : Nat] /\ parentAccount \in Account
  BY DEF AccountsInv, CallTypes
<1>2. CallTypes /\ AttemptsInv /\ ParentInv /\ AttemptTrue(caller[c], account[c], sent[c], billed[c])
  BY DEF AccountsInv, AttemptsInv
<1>3. caller[c].pc = "begin" /\ UNCHANGED billed
  BY DEF BeginAttempt
<1>4. ~caller[c].open /\ caller[c].began = 0
  BY <1>2, <1>3 DEF AttemptTrue
<1>5. CASE Exhausted(c)
  <2>1. caller' = [caller EXCEPT ![c] = Ended(caller[c])] /\ Settle(c, caller[c], 0) /\ UNCHANGED sent
    BY <1>2, <1>5 DEF BeginAttempt, CallTypes
  <2>2. Noted(c)
    BY <1>2, <1>3, <1>4, <2>1, NothingToNote
  <2> QED
    BY <2>1, <2>2, Ending
<1>6. CASE ~Exhausted(c)
  <2> DEFINE p == (health.circuit = "cooled")
             k == [caller[c] EXCEPT !.pc = "streaming", !.started = FALSE, !.reported = 0, !.final = FALSE,
                                    !.open = TRUE, !.probe = p]
             r == caller[c].reported
             a == [calls |-> account[c].calls + 1, usage |-> account[c].usage + r, unknown |-> account[c].unknown + 0]
             s == [started |-> sent[c].started + 1, finished |-> sent[c].finished]
             b == billed[c]
  <2>1. /\ caller' = [caller EXCEPT ![c] = k] /\ Settle(c, caller[c], 1)
        /\ sent' = [sent EXCEPT ![c] = [sent[c] EXCEPT !.started = sent[c].started + 1]]
    BY <1>2, <1>6 DEF BeginAttempt, CallTypes
  <2>2. k \in Call
    <3>1. p \in BOOLEAN
      OBVIOUS
    <3> HIDE DEF p
    <3> QED
      BY <1>1, <3>1 DEF Call
  <2>3. k.pc = "streaming" /\ ~k.started /\ k.open
    BY <1>1 DEF Call
  <2>4. k.reported = 0 /\ k.began = caller[c].began
    BY <1>1 DEF Call
  <2>5. Lacking(caller[c]) = 0 /\ r \in Nat /\ 0 \in Nat /\ 1 \in Nat
    <3>1. Lacking(caller[c]) = 0 /\ r \in Nat
      BY <1>1, <1>4, Numbers
    <3> QED
      BY <3>1
  <2>6. account[c].calls + 1 <= Limit /\ (c \in Children => parentAccount.calls + 1 <= ParentLimit)
    BY <1>1, <1>6, CallAssumption DEF Exhausted, Account
  <2>7. account' = [account EXCEPT ![c] = a] /\ parentAccount' \in Account /\ ParentInv'
    BY <1>1, <1>2, <2>1, <2>5, <2>6, Settles
  <2>8. a \in Account /\ s \in [started : Nat, finished : Nat]
    <3> HIDE DEF r
    <3> QED
      BY <1>1, <2>5 DEF Account
  <2>9. sent' = [sent EXCEPT ![c] = s]
    <3>1. \A q \in [started : Nat, finished : Nat], v \in Nat :
            [q EXCEPT !.started = v] = [started |-> v, finished |-> q.finished]
      OBVIOUS
    <3>2. sent[c].started + 1 \in Nat
      BY <1>1
    <3>3. [sent[c] EXCEPT !.started = sent[c].started + 1] = s
      BY <1>1, <3>1, <3>2
    <3> QED
      BY <2>1, <3>3
  <2>10. billed' = [billed EXCEPT ![c] = b]
    BY <1>2, <1>3, Untouched
  <2>11. a.calls = account[c].calls + 1 /\ a.usage = account[c].usage + r /\ a.unknown = account[c].unknown + 0
         /\ s.started = sent[c].started + 1 /\ s.finished = sent[c].finished
    OBVIOUS
  <2>12. /\ account[c].calls \in Nat /\ account[c].usage \in Nat /\ account[c].unknown \in Nat
         /\ sent[c].started \in Nat /\ sent[c].finished \in Nat
    BY <1>1 DEF Account
  <2>13. /\ sent[c].started = account[c].calls /\ sent[c].started = sent[c].finished + 0
         /\ account[c].usage + r = billed[c].tokens /\ account[c].unknown = billed[c].unknown
    BY <1>2, <1>4 DEF AttemptTrue
  <2> HIDE DEF p, k, r, a, s, b
  <2>14. AttemptTrue(k, a, s, b)
    <3>1. s.started = a.calls /\ a.calls <= Limit
      BY <2>6, <2>11, <2>13
    <3>2. s.started = s.finished + (IF k.open THEN 1 ELSE 0)
      BY <2>3, <2>11, <2>12, <2>13
    <3>3. a.usage + k.reported = b.tokens /\ a.unknown = b.unknown
      <4>1. billed[c].tokens = a.usage /\ billed[c].tokens \in Nat /\ billed[c].unknown = a.unknown
        BY <1>1, <2>11, <2>12, <2>13
      <4> QED
        BY <2>4, <4>1 DEF b
    <3>4. (k.open <=> k.pc = "streaming") /\ (k.started => k.pc = "streaming")
          /\ k.began = (IF k.started THEN 1 ELSE 0) /\ (k.pc = "idle" => k.reported = 0)
      BY <1>4, <2>3, <2>4
    <3> QED
      BY <3>1, <3>2, <3>3, <3>4 DEF AttemptTrue
  <2>15. b \in [tokens : Nat, unknown : Nat]
    BY <1>1 DEF b
  <2> QED
    BY <1>2, <2>1, <2>2, <2>7, <2>8, <2>9, <2>10, <2>14, <2>15, OneCaller DEF AccountsInv
<1> QED
  BY <1>5, <1>6

\* A failure that is retried reports the attempt and leaves its tokens to the next.
LEMMA FailsTransientlyAccounts ==
  ASSUME AccountsInv, NEW c \in Callers, FailsTransiently(c)
  PROVE  AccountsInv'
<1>1. caller[c] \in Call /\ account[c] \in Account /\ sent[c] \in [started : Nat, finished : Nat]
      /\ billed[c] \in [tokens : Nat, unknown : Nat]
  BY DEF AccountsInv, CallTypes
<1>2. CallTypes /\ AttemptsInv /\ ParentInv /\ AttemptTrue(caller[c], account[c], sent[c], billed[c])
  BY DEF AccountsInv, AttemptsInv
<1>3. caller[c].pc = "streaming" /\ caller[c].open /\ Reported(c)
  BY DEF FailsTransiently, Streams
<1>4. Noted(c)
  BY <1>2, <1>3, ReportedNotes
<1>5. CASE ~CanRetry(caller[c])
  <2>1. caller' = [caller EXCEPT ![c] = Ended(caller[c])] /\ Settle(c, caller[c], 0)
    BY <1>2, <1>5 DEF FailsTransiently, CallTypes
  <2> QED
    BY <1>4, <2>1, Ending
<1>6. CASE CanRetry(caller[c])
  <2> DEFINE k == [caller[c] EXCEPT !.pc = "sleeping", !.open = FALSE]
             u == Lacking(caller[c])
             o == OpenOnes(caller[c])
             a == [calls |-> account[c].calls, usage |-> account[c].usage, unknown |-> account[c].unknown + u]
             s == [started |-> sent[c].started, finished |-> sent[c].finished + o]
             b == [tokens |-> billed[c].tokens, unknown |-> billed[c].unknown + u]
  <2>1. caller' = [caller EXCEPT ![c] = k] /\ CountUnknown(c, u)
    BY <1>2, <1>6 DEF FailsTransiently, CallTypes
  <2>2. ~caller[c].started
    BY <1>6 DEF CanRetry
  <2>3. k \in Call
    BY <1>1 DEF Call
  <2>4. k.pc = "sleeping" /\ ~k.open /\ k.started = caller[c].started
    BY <1>1 DEF Call
  <2>5. k.reported = caller[c].reported /\ k.began = caller[c].began
    BY <1>1 DEF Call
  <2>6. u \in Nat /\ o \in Nat
    BY <1>1, Numbers
  <2>7. account' = [account EXCEPT ![c] = a] /\ parentAccount' \in Account /\ ParentInv'
    BY <1>2, <2>1, <2>6, CountsUnknown
  <2>8. sent' = [sent EXCEPT ![c] = s] /\ billed' = [billed EXCEPT ![c] = b]
    BY <1>4 DEF Noted
  <2>9. a \in Account /\ s \in [started : Nat, finished : Nat] /\ b \in [tokens : Nat, unknown : Nat]
    <3> HIDE DEF u, o
    <3> QED
      BY <1>1, <2>6 DEF Account
  <2>10. a.calls = account[c].calls /\ a.usage = account[c].usage /\ a.unknown = account[c].unknown + u
         /\ s.started = sent[c].started /\ s.finished = sent[c].finished + o
         /\ b.tokens = billed[c].tokens /\ b.unknown = billed[c].unknown + u
    OBVIOUS
  <2>11. /\ account[c].calls \in Nat /\ account[c].usage \in Nat /\ account[c].unknown \in Nat
         /\ sent[c].started \in Nat /\ sent[c].finished \in Nat
    BY <1>1 DEF Account
  <2>12. /\ sent[c].started = account[c].calls /\ account[c].calls <= Limit /\ sent[c].started = sent[c].finished + o
         /\ account[c].usage + caller[c].reported = billed[c].tokens /\ account[c].unknown = billed[c].unknown
         /\ caller[c].began = IF caller[c].started THEN 1 ELSE 0
    BY <1>2 DEF AttemptTrue, OpenOnes
  <2> HIDE DEF k, u, o, a, s, b
  <2>13. AttemptTrue(k, a, s, b)
    <3>1. s.started = a.calls /\ a.calls <= Limit
      BY <2>10, <2>12
    <3>2. s.started = s.finished + (IF k.open THEN 1 ELSE 0)
      BY <2>4, <2>6, <2>10, <2>11, <2>12
    <3>3. a.usage + k.reported = b.tokens /\ a.unknown = b.unknown
      BY <2>5, <2>10, <2>12
    <3>4. (k.open <=> k.pc = "streaming") /\ (k.started => k.pc = "streaming")
          /\ k.began = (IF k.started THEN 1 ELSE 0) /\ (k.pc = "idle" => k.reported = 0)
      BY <2>2, <2>4, <2>5, <2>12
    <3> QED
      BY <3>1, <3>2, <3>3, <3>4 DEF AttemptTrue
  <2> QED
    BY <1>2, <2>1, <2>3, <2>7, <2>8, <2>9, <2>13, OneCaller DEF AccountsInv
<1> QED
  BY <1>5, <1>6

\* Every step keeps the accounts true.
LEMMA AccountsStep ==
  ASSUME AccountsInv, HealthTypes, CallNext
  PROVE  AccountsInv'
<1>1. CASE Cooldown
  <2>1. CallTypes' /\ AttemptsInv'
    BY <1>1 DEF Cooldown, AccountsInv, CallTypes, AttemptsInv
  <2>2. Made' = Made /\ Spent' = Spent
    BY <1>1 DEF Cooldown, Made, Spent
  <2> QED
    BY <1>1, <2>1, <2>2 DEF Cooldown, AccountsInv, ParentInv
<1>2. ASSUME NEW c \in Callers, RefusedByHealth(c) \/ Succeeds(c) \/ FailsForGood(c) PROVE AccountsInv'
  <2>1. CallTypes /\ AttemptTrue(caller[c], account[c], sent[c], billed[c])
    BY DEF AccountsInv, AttemptsInv
  <2>2. caller' = [caller EXCEPT ![c] = Ended(caller[c])] /\ Settle(c, caller[c], 0)
    BY <1>2, <2>1 DEF RefusedByHealth, Succeeds, FailsForGood, CallTypes
  <2>3. Noted(c)
    <3>1. CASE RefusedByHealth(c)
      <4>1. ~caller[c].open /\ UNCHANGED <<sent, billed>>
        BY <2>1, <3>1 DEF RefusedByHealth, AttemptTrue
      <4> QED
        BY <2>1, <4>1, NothingToNote
    <3>2. CASE Succeeds(c) \/ FailsForGood(c)
      BY <2>1, <3>2, ReportedNotes DEF Succeeds, FailsForGood
    <3> QED
      BY <1>2, <3>1, <3>2
  <2> QED
    BY <2>2, <2>3, Ending
<1> QED
  BY <1>1, <1>2, BeginCallAccounts, BeginAttemptAccounts, OutputAccounts, UsageAccounts, FailsTransientlyAccounts,
     WakeAccounts DEF CallNext

\* Who probes after a step of one caller.
LEMMA ProbingAfter ==
  ASSUME CallTypes, NEW c \in Callers, NEW k, caller' = [caller EXCEPT ![c] = k]
  PROVE  /\ \A d \in Callers : d # c => (d \in Probing' <=> d \in Probing)
         /\ c \in Probing' <=> k.pc \in {"streaming", "sleeping"} /\ k.probe
         /\ Probing \subseteq Callers /\ Probing' \subseteq Callers
<1>1. caller'[c] = k /\ \A d \in Callers : d # c => caller'[d] = caller[d]
  BY DEF CallTypes
<1> QED
  BY <1>1 DEF Probing, InFlight

\* Whoever did not probe and does not begin to leaves no more probes than there were.
LEMMA FewerProbes ==
  ASSUME ProbeInv, Probing' \subseteq Probing, disturbed' \in BOOLEAN,
         ~disturbed' => ~disturbed /\ (Probing' = {} \/ (health'.probe /\ health'.circuit # "closed"))
  PROVE  ProbeInv'
BY DEF ProbeInv, Alone, Marked

\* Every step keeps the health a record of its kind.
LEMMA HealthStep ==
  ASSUME HealthTypes, AccountsInv, CallNext
  PROVE  HealthTypes'
<1> DEFINE H == [failures : Nat, circuit : {"closed", "cooling", "cooled"}, probe : BOOLEAN, paused : BOOLEAN]
<1>1. health \in H
  BY DEF HealthTypes
<1>2. \A h \in H : Left(h) \in H /\ Succeeded(h) \in H
  BY DEF Left, Succeeded
<1>3. \A h \in H : Failed(h) \in H
  <2>1. SUFFICES ASSUME NEW h \in H PROVE Failed(h) \in H
    OBVIOUS
  <2>2. h.failures + 1 \in Nat /\ (h.paused \/ h.probe) \in BOOLEAN
    OBVIOUS
  <2>3. (IF h.failures + 1 >= Threshold THEN "cooling" ELSE h.circuit) \in {"closed", "cooling", "cooled"}
    OBVIOUS
  <2> QED
    BY <2>2, <2>3 DEF Failed
<1> HIDE DEF H
<1>4. health' \in H
  <2>1. CASE Cooldown
    BY <1>1, <2>1 DEF Cooldown, H
  <2>2. ASSUME NEW c \in Callers, BeginAttempt(c) PROVE health' \in H
    <3>1. CASE Exhausted(c)
      BY <1>1, <1>2, <2>2, <3>1 DEF BeginAttempt
    <3>2. CASE ~Exhausted(c)
      <4>1. health' = [health EXCEPT !.probe = (health.probe \/ health.circuit = "cooled")]
        BY <1>1, <2>2, <3>2 DEF BeginAttempt, H
      <4>2. (health.probe \/ health.circuit = "cooled") \in BOOLEAN
        OBVIOUS
      <4>3. \A v \in BOOLEAN : [health EXCEPT !.probe = v] \in H
        BY <1>1 DEF H
      <4> QED
        BY <4>1, <4>2, <4>3
    <3> QED
      BY <3>1, <3>2
  <2>3. ASSUME NEW c \in Callers, FailsTransiently(c) PROVE health' \in H
    BY <1>1, <1>2, <1>3, <2>3 DEF FailsTransiently
  <2>4. ASSUME NEW c \in Callers, Succeeds(c) \/ Wake(c) \/ FailsForGood(c) PROVE health' \in H
    BY <1>1, <1>2, <2>4 DEF Succeeds, Wake, FailsForGood
  <2>5. ASSUME NEW c \in Callers, NEW count \in 1 .. MaxTokens, NEW final \in BOOLEAN,
               BeginCall(c) \/ RefusedByHealth(c) \/ Output(c) \/ Usage(c, count, final)
        PROVE  health' \in H
    BY <1>1, <2>5 DEF BeginCall, RefusedByHealth, Output, Usage
  <2>6. ASSUME NEW c \in Callers, BeginCall(c) \/ RefusedByHealth(c) \/ Output(c)
        PROVE  health' \in H
    BY <1>1, <2>6 DEF BeginCall, RefusedByHealth, Output
  <2> QED
    BY <2>1, <2>2, <2>3, <2>4, <2>5, <2>6 DEF CallNext
<1>5. disturbed' \in BOOLEAN
  <2>1. disturbed \in BOOLEAN
    BY DEF HealthTypes
  <2>2. \A c \in Callers : (disturbed \/ Disturbs(c)) \in BOOLEAN
    BY <2>1, Zenon
  <2>3. disturbed' = disturbed \/ \E c \in Callers : disturbed' = (disturbed \/ Disturbs(c))
    BY DEF CallNext, Cooldown, BeginCall, RefusedByHealth, BeginAttempt, Output, Usage, Succeeds, FailsTransiently,
           Wake, FailsForGood
  <2> QED
    BY <2>1, <2>2, <2>3
<1> QED
  BY <1>4, <1>5 DEF HealthTypes, H

\* An attempt that ends without disturbing leaves no probe behind.
LEMMA ProbeOver ==
  ASSUME ProbeInv, CallTypes, HealthTypes, NEW c \in Callers, InFlight(c), c \notin Probing', Probing' \subseteq Probing,
         disturbed' = (disturbed \/ Disturbs(c))
  PROVE  ProbeInv'
<1>1. ASSUME ~disturbed' PROVE ~disturbed /\ Probing' = {}
  <2>1. ~disturbed /\ (caller[c].probe \/ Probing = {})
    BY <1>1 DEF Disturbs
  <2>2. CASE caller[c].probe
    <3>1. c \in Probing
      BY <2>2 DEF Probing
    <3>2. \A d \in Probing : d = c
      BY <2>1, <3>1 DEF ProbeInv, Alone
    <3> QED
      BY <2>1, <3>2
  <2> QED
    BY <2>1, <2>2
<1> QED
  BY <1>1 DEF ProbeInv, Alone, Marked

\* No step lets a second probe out.
LEMMA ProbeStep ==
  ASSUME AccountsInv, HealthTypes, ProbeInv, CallNext
  PROVE  ProbeInv'
<1>1. CallTypes /\ \A c \in Callers : caller[c] \in Call
  BY DEF AccountsInv, CallTypes
<1>2. CASE Cooldown
  <2>1. Probing' = Probing /\ UNCHANGED disturbed
    BY <1>2 DEF Cooldown, Probing, InFlight
  <2>2. health'.probe = health.probe /\ health'.circuit = "cooled"
    BY <1>2 DEF Cooldown, HealthTypes
  <2> QED
    BY <2>1, <2>2 DEF ProbeInv, Alone, Marked
<1>3. ASSUME NEW c \in Callers, BeginCall(c) \/ RefusedByHealth(c) PROVE ProbeInv'
  <2>1. PICK k : caller' = [caller EXCEPT ![c] = k] /\ k.pc \notin {"streaming", "sleeping"}
    <3>1. CASE BeginCall(c)
      <4> DEFINE k == [NoCallYet EXCEPT !.pc = "begin", !.attempt = 1, !.calls = caller[c].calls + 1]
      <4>1. k.pc = "begin" /\ caller' = [caller EXCEPT ![c] = k]
        BY <3>1 DEF BeginCall, NoCallYet
      <4> QED
        BY <4>1
    <3>2. CASE RefusedByHealth(c)
      <4>1. caller' = [caller EXCEPT ![c] = Ended(caller[c])]
        BY <1>1, <3>2 DEF RefusedByHealth, CallTypes
      <4>2. Ended(caller[c]).pc = "idle"
        BY <1>1, EndedIs
      <4> QED
        BY <4>1, <4>2
    <3> QED
      BY <1>3, <3>1, <3>2
  <2>2. Probing' \subseteq Probing
    BY <1>1, <2>1, ProbingAfter
  <2>3. UNCHANGED <<health, disturbed>>
    BY <1>3 DEF BeginCall, RefusedByHealth
  <2> QED
    BY <2>2, <2>3 DEF ProbeInv, Alone, Marked
<1>4. ASSUME NEW c \in Callers, BeginAttempt(c) PROVE ProbeInv'
  <2>1. ~Refuses(health) /\ UNCHANGED disturbed
    BY <1>4 DEF BeginAttempt
  <2>2. ~disturbed => Probing = {}
    BY <2>1 DEF ProbeInv, Marked, Refuses, HealthTypes
  <2>3. CASE Exhausted(c)
    <3>1. caller' = [caller EXCEPT ![c] = Ended(caller[c])] /\ Ended(caller[c]).pc = "idle"
      BY <1>1, <1>4, <2>3, EndedIs DEF BeginAttempt, CallTypes
    <3>2. Probing' \subseteq Probing
      BY <1>1, <3>1, ProbingAfter
    <3> QED
      BY <2>1, <2>2, <3>2 DEF ProbeInv, Alone, Marked
  <2>4. CASE ~Exhausted(c)
    <3> DEFINE p == (health.circuit = "cooled")
               k == [caller[c] EXCEPT !.pc = "streaming", !.started = FALSE, !.reported = 0, !.final = FALSE,
                                      !.open = TRUE, !.probe = p]
    <3>1. caller' = [caller EXCEPT ![c] = k]
      BY <1>1, <1>4, <2>4 DEF BeginAttempt, CallTypes
    <3>2. k.probe = p
      BY <1>1 DEF Call
    <3>3. /\ \A d \in Callers : d # c => (d \in Probing' <=> d \in Probing)
          /\ c \in Probing' => k.probe
          /\ Probing' \subseteq Callers
      BY <1>1, <3>1, ProbingAfter
    <3>4. p => health'.probe /\ health'.circuit = "cooled"
      BY <1>4, <2>4 DEF BeginAttempt, HealthTypes
    <3> HIDE DEF k
    <3>5. ASSUME ~disturbed PROVE \A d \in Probing' : d = c /\ health.circuit = "cooled"
      BY <2>2, <3>2, <3>3, <3>5
    <3>6. ~disturbed' => ~disturbed
      BY <2>1
    <3>7. ASSUME ~disturbed' PROVE Alone' /\ Marked'
      <4>1. \A d \in Probing' : d = c /\ p
        BY <3>5, <3>6, <3>7
      <4>2. \A d, e \in Probing' : d = e
        BY <4>1
      <4>3. Probing' # {} => health'.probe /\ health'.circuit # "closed"
        BY <3>4, <4>1
      <4> QED
        BY <4>2, <4>3 DEF Alone, Marked
    <3> QED
      BY <3>7 DEF ProbeInv
  <2> QED
    BY <2>3, <2>4
<1>5. ASSUME NEW c \in Callers, Output(c) \/ \E count \in 1 .. MaxTokens, final \in BOOLEAN : Usage(c, count, final)
      PROVE  ProbeInv'
  <2>1. PICK k : /\ caller' = [caller EXCEPT ![c] = k]
                 /\ k.pc = caller[c].pc /\ k.probe = caller[c].probe
    <3>1. CASE Output(c)
      <4> DEFINE k == [caller[c] EXCEPT !.started = TRUE, !.began = caller[c].began + 1]
      <4>1. caller' = [caller EXCEPT ![c] = k]
        BY <1>1, <3>1 DEF Output, CallTypes
      <4>2. k.pc = caller[c].pc /\ k.probe = caller[c].probe
        BY <1>1 DEF Call
      <4> QED
        BY <4>1, <4>2
    <3>2. ASSUME NEW count \in 1 .. MaxTokens, NEW final \in BOOLEAN, Usage(c, count, final)
          PROVE  \E k : /\ caller' = [caller EXCEPT ![c] = k]
                        /\ k.pc = caller[c].pc /\ k.probe = caller[c].probe
      <4> DEFINE k == [caller[c] EXCEPT !.reported = count, !.final = final]
      <4>1. caller' = [caller EXCEPT ![c] = k]
        BY <1>1, <3>2 DEF Usage, CallTypes
      <4>2. k.pc = caller[c].pc /\ k.probe = caller[c].probe
        BY <1>1 DEF Call
      <4> QED
        BY <4>1, <4>2
    <3> QED
      BY <1>5, <3>1, <3>2
  <2>4. \A d \in Callers : caller'[d].pc = caller[d].pc /\ caller'[d].probe = caller[d].probe
    BY <1>1, <2>1 DEF CallTypes
  <2>2. Probing' = Probing
    BY <2>4 DEF Probing, InFlight
  <2>3. UNCHANGED <<health, disturbed>>
    BY <1>5 DEF Output, Usage
  <2> QED
    BY <2>2, <2>3 DEF ProbeInv, Alone, Marked
<1>6. ASSUME NEW c \in Callers, FailsTransiently(c) /\ CanRetry(caller[c]) PROVE ProbeInv'
  <2>1. \A d \in Callers : caller'[d].probe = caller[d].probe /\ (InFlight(d))' = InFlight(d)
    <3>1. caller' = [caller EXCEPT ![c] = [caller[c] EXCEPT !.pc = "sleeping", !.open = FALSE]] /\ caller[c].pc = "streaming"
      BY <1>1, <1>6 DEF FailsTransiently, Streams, CallTypes
    <3>2. \A d \in Callers : caller'[d] = IF d = c THEN [caller[c] EXCEPT !.pc = "sleeping", !.open = FALSE] ELSE caller[d]
      BY <1>1, <3>1 DEF CallTypes
    <3>3. [caller[c] EXCEPT !.pc = "sleeping", !.open = FALSE].probe = caller[c].probe
          /\ [caller[c] EXCEPT !.pc = "sleeping", !.open = FALSE].pc = "sleeping"
      BY <1>1 DEF Call
    <3> QED
      BY <3>1, <3>2, <3>3 DEF InFlight
  <2>2. Probing' = Probing
    BY <2>1 DEF Probing
  <2>3. UNCHANGED disturbed /\ health' = Failed(health)
    BY <1>6 DEF FailsTransiently
  <2>4. health'.probe = health.probe /\ (health'.circuit = "cooling" \/ health'.circuit = health.circuit)
    BY <2>3 DEF Failed, HealthTypes
  <2> QED
    BY <2>2, <2>3, <2>4 DEF ProbeInv, Alone, Marked
<1>7. ASSUME NEW c \in Callers, Succeeds(c) \/ (FailsTransiently(c) /\ ~CanRetry(caller[c])) \/ Wake(c) \/ FailsForGood(c)
      PROVE  ProbeInv'
  <2>1. PICK k : caller' = [caller EXCEPT ![c] = k] /\ k.pc \notin {"streaming", "sleeping"}
    <3>1. CASE Wake(c)
      <4> DEFINE k == [caller[c] EXCEPT !.pc = "begin", !.attempt = caller[c].attempt + 1]
      <4>1. caller' = [caller EXCEPT ![c] = k] /\ k.pc = "begin"
        BY <1>1, <3>1 DEF Wake, CallTypes, Call
      <4> QED
        BY <4>1
    <3>2. CASE ~Wake(c)
      <4>1. caller' = [caller EXCEPT ![c] = Ended(caller[c])]
        BY <1>1, <1>7, <3>2 DEF Succeeds, FailsTransiently, FailsForGood, CallTypes
      <4>2. Ended(caller[c]).pc = "idle"
        BY <1>1, EndedIs
      <4> QED
        BY <4>1, <4>2
    <3> QED
      BY <3>1, <3>2
  <2>2. Probing' \subseteq Probing /\ c \notin Probing'
    BY <1>1, <2>1, ProbingAfter
  <2>3. InFlight(c) /\ disturbed' = (disturbed \/ Disturbs(c))
    BY <1>7 DEF Succeeds, FailsTransiently, Wake, FailsForGood, Streams, InFlight
  <2> QED
    BY <1>1, <2>2, <2>3, ProbeOver
<1> QED
  BY <1>2, <1>3, <1>4, <1>5, <1>6, <1>7 DEF CallNext

\* Nothing was sent or spent yet.
LEMMA CallsInit ==
  CallInit => CallInvariant
<1> SUFFICES ASSUME CallInit PROVE CallInvariant
  OBVIOUS
<1>1. NoCallYet \in Call /\ NewAccount \in Account
  BY DEF NoCallYet, NewAccount, Call, Account
<1>2. CallTypes /\ HealthTypes
  BY <1>1 DEF CallInit, CallTypes, HealthTypes
<1>3. ASSUME NEW c \in Callers PROVE AttemptTrue(caller[c], account[c], sent[c], billed[c])
  <2>1. caller[c] = NoCallYet /\ account[c] = NewAccount /\ sent[c] = [started |-> 0, finished |-> 0]
        /\ billed[c] = [tokens |-> 0, unknown |-> 0]
    BY DEF CallInit
  <2> QED
    BY <2>1, CallAssumption DEF AttemptTrue, NoCallYet, NewAccount
<1>4. \A c \in Callers : account[c].calls = 0 /\ account[c].usage = 0
  BY DEF CallInit, NewAccount
<1>5. IsFiniteSet(Children) /\ Children \subseteq Callers
  BY CallAssumption, FS_Subset
<1>6. \A c \in Children : Made[c] = 0
  BY <1>4, <1>5 DEF Made
<1>7. \A c \in Children : Spent[c] = 0
  BY <1>4, <1>5 DEF Spent
<1>8. Total(Made, Children) = 0
  BY ONLY <1>5, <1>6, TotalZero, Zenon
<1>9. Total(Spent, Children) = 0
  BY ONLY <1>5, <1>7, TotalZero, Zenon
<1>10. ParentInv
  BY <1>8, <1>9, CallAssumption DEF CallInit, NewAccount, ParentInv
<1>11. Probing = {}
  BY DEF CallInit, Probing, InFlight, NoCallYet
<1> QED
  BY <1>2, <1>3, <1>10, <1>11 DEF CallInvariant, AccountsInv, AttemptsInv, ProbeInv, Alone, Marked

\* The sums of the model are the totals of the proof.
LEMMA SumsAreTotals ==
  ASSUME CallTypes, AttemptsInv, ParentInv
  PROVE  LET SentBy(c) == sent[c].started
             Used(c) == account[c].usage IN
         SumOf(SentBy, Children) = parentAccount.calls /\ SumOf(Used, Children) = parentAccount.usage
<1>1. IsFiniteSet(Children) /\ Children \subseteq Callers
  BY CallAssumption, FS_Subset
<1>2. \A c \in Children : /\ Made[c] \in Nat /\ Made[c] = sent[c].started
                           /\ Spent[c] \in Nat /\ Spent[c] = account[c].usage
  <2> SUFFICES ASSUME NEW c \in Children PROVE /\ Made[c] \in Nat /\ Made[c] = sent[c].started
                                               /\ Spent[c] \in Nat /\ Spent[c] = account[c].usage
    OBVIOUS
  <2>1. c \in Callers /\ account[c] \in Account /\ AttemptTrue(caller[c], account[c], sent[c], billed[c])
    BY <1>1 DEF CallTypes, AttemptsInv
  <2>2. account[c].calls \in Nat /\ account[c].usage \in Nat /\ sent[c].started = account[c].calls
    BY <2>1 DEF Account, AttemptTrue
  <2> QED
    BY <2>1, <2>2 DEF Made, Spent
<1>3. ASSUME NEW s \in SUBSET Children, s # {}
      PROVE  /\ Made[Choice(s)] = sent[CHOOSE x \in s : TRUE].started
             /\ Spent[Choice(s)] = account[CHOOSE x \in s : TRUE].usage
  <2>1. Choice(s) \in Children
    BY <1>3 DEF Choice
  <2> QED
    BY <1>2, <2>1 DEF Choice
<1> DEFINE it == CHOOSE g : g = [s \in SUBSET Children |->
                     IF s = {} THEN 0 ELSE sent[CHOOSE x \in s : TRUE].started + g[s \ {CHOOSE x \in s : TRUE}]]
           iu == CHOOSE g : g = [s \in SUBSET Children |->
                     IF s = {} THEN 0 ELSE account[CHOOSE x \in s : TRUE].usage + g[s \ {CHOOSE x \in s : TRUE}]]
<1>4. ASSUME NEW g
      PROVE  IsSum(g, Made, Children) <=> g = [s \in SUBSET Children |->
               IF s = {} THEN 0 ELSE sent[CHOOSE x \in s : TRUE].started + g[s \ {CHOOSE x \in s : TRUE}]]
  BY <1>3 DEF IsSum, Choice
<1>5. ASSUME NEW g
      PROVE  IsSum(g, Spent, Children) <=> g = [s \in SUBSET Children |->
               IF s = {} THEN 0 ELSE account[CHOOSE x \in s : TRUE].usage + g[s \ {CHOOSE x \in s : TRUE}]]
  BY <1>3 DEF IsSum, Choice
<1>6. IsSum(it, Made, Children)
  <2>1. PICK g : IsSum(g, Made, Children)
    BY ONLY <1>1, <1>2, SumExists, Zenon
  <2> QED
    BY <1>4, <2>1
<1>7. IsSum(iu, Spent, Children)
  <2>1. PICK g : IsSum(g, Spent, Children)
    BY ONLY <1>1, <1>2, SumExists, Zenon
  <2> QED
    BY <1>5, <2>1
<1> HIDE DEF it, iu
<1>8. it[Children] = Total(Made, Children)
  BY ONLY <1>1, <1>2, <1>6, TotalIs, Zenon
<1>9. iu[Children] = Total(Spent, Children)
  BY ONLY <1>1, <1>2, <1>7, TotalIs, Zenon
<1> QED
  BY <1>8, <1>9 DEF ParentInv, SumOf, MapThenSumSet, MapThenFoldSet, it, iu

\* The invariant says what the property says.
LEMMA CallsImply ==
  ASSUME CallInvariant
  PROVE  CallsHonest
<1>1. CallTypes /\ AttemptsInv /\ ParentInv /\ ProbeInv
  BY DEF CallInvariant, AccountsInv
<1>2. ASSUME NEW c \in Callers
      PROVE  /\ sent[c].started = account[c].calls /\ account[c].calls <= Limit
             /\ sent[c].started = sent[c].finished + (IF caller[c].open THEN 1 ELSE 0)
             /\ account[c].usage + caller[c].reported = billed[c].tokens
             /\ account[c].unknown = billed[c].unknown
             /\ caller[c].began <= 1
  BY <1>1 DEF AttemptsInv, AttemptTrue
<1>3. AttemptsAccounted
  BY <1>1, <1>2, SumsAreTotals DEF AttemptsAccounted, ParentInv
<1>4. OneProbe
  <2>1. SUFFICES ASSUME ~disturbed PROVE Cardinality(Probing) <= 1
    BY DEF OneProbe
  <2>2. Alone
    BY <1>1, <2>1 DEF ProbeInv
  <2>3. CASE Probing = {}
    BY <2>3, FS_EmptySet
  <2>4. CASE Probing # {}
    <3>1. PICK c \in Probing : TRUE
      BY <2>4
    <3>2. Probing = {c}
      BY <2>2, <3>1 DEF Alone
    <3>3. Cardinality({c}) = 1
      BY FS_Singleton
    <3> QED
      BY <3>2, <3>3
  <2> QED
    BY <2>3, <2>4
<1> QED
  BY <1>3, <1>4 DEF CallsHonest

\* However attempts of a turn and of its children are retried, refused, cut off or cancelled, the accounts and
\* the provider's bill agree, no budget is exceeded, and one probe goes out at a time (BudgetedModelClient.stream,
\* TurnState, ServiceHealth.before_request).
THEOREM CallsAccounted == CallSpec => []CallsHonest
<1>1. CallInit => CallInvariant
  BY CallsInit
<1>2. CallInvariant /\ [CallNext]_call_vars => CallInvariant'
  <2> SUFFICES ASSUME CallInvariant, [CallNext]_call_vars PROVE CallInvariant'
    OBVIOUS
  <2>1. AccountsInv /\ HealthTypes /\ ProbeInv
    BY DEF CallInvariant
  <2>2. CASE CallNext
    BY <2>1, <2>2, AccountsStep, HealthStep, ProbeStep DEF CallInvariant
  <2>3. CASE UNCHANGED call_vars
    <3>1. UNCHANGED <<caller, account, parentAccount, health, sent, billed, disturbed>>
      BY <2>3 DEF call_vars
    <3>2. CallTypes' /\ AttemptsInv' /\ HealthTypes'
      BY <2>1, <3>1 DEF AccountsInv, CallTypes, AttemptsInv, HealthTypes
    <3>3. Made' = Made /\ Spent' = Spent /\ Probing' = Probing
      BY <3>1 DEF Made, Spent, Probing, InFlight
    <3>4. ParentInv'
      BY <2>1, <3>1, <3>3 DEF AccountsInv, ParentInv
    <3>5. ProbeInv'
      BY <2>1, <3>1, <3>3 DEF ProbeInv, Alone, Marked
    <3> QED
      BY <3>2, <3>4, <3>5 DEF CallInvariant, AccountsInv
  <2> QED
    BY <2>2, <2>3
<1>3. CallInvariant => CallsHonest
  BY CallsImply
<1> QED
  BY <1>1, <1>2, <1>3, PTL DEF CallSpec

-----------------------------------------------------------------------------
(***************************************************************************)
(* Evaluations: the strengthening of EvaluationsHonest.                    *)
(***************************************************************************)
\* The facts of an attempt, the states of a run and the results of a runner that are told apart.
TrialAttempt ==
  [work : {"queued", "running", "cancel_requested", "reconciling", "finished"},
   execution : {"queued", "running", "cancelled", "blocked", "error", "finished"},
   origin : {"none", "environment_setup", "runner_unavailable", "grader_infrastructure", "runner_crash"},
   cleanup : {"pending", "clean", "unclean"}, grade : {"none", "graded", "grader_error"},
   authoritative : BOOLEAN, exhausted : BOOLEAN]
LiveStates == {"queued", "running", "indeterminate", "cancel_requested"}
OverStates == {"completed", "failed", "cancelled"}
Results == {"finished", "error"}
             \X {"none", "environment_setup", "grader_infrastructure", "runner_crash"} \X {"clean", "unclean"} \X BOOLEAN

AttemptTypes == attempts \in [Trials -> Seq(TrialAttempt)]
RunTypes == runState \in [Runs -> {"none", "created"} \union LiveStates \union OverStates]
ExecutorTypes ==
  executor \in [trial : Trials \union {NoTrial}, at : {"idle", "preparing", "running", "graded"},
                cancelled : BOOLEAN, result : Results \union {<<>>}]

\* The attempts of a trial before its last one are behind it.
Behind(a) == a.work = "finished" /\ a.cleanup = "clean" /\ a.origin \in Retryable
EarlierInv ==
  \A t \in Trials : /\ Len(attempts[t]) <= MaxAttempts
                    /\ \A n \in 1 .. Len(attempts[t]) - 1 : Behind(attempts[t][n])

\* What is executed is the last attempt of a trial, and graded clean only when nothing is left of it.
ExecutorInv ==
  executor.at # "idle" =>
    /\ executor.trial \in Trials /\ attempts[executor.trial] # <<>>
    /\ SelectedAttempt(executor.trial).work \in {"running", "cancel_requested"}
    /\ executor.at = "graded" =>
         /\ executor.result \in Results
         /\ executor.result[3] = "clean" => AttemptId(executor.trial) \notin resources

\* What stands on the host is of the attempt that is executed, or of one whose cleanup is in doubt.
Known(a) ==
  /\ a \in Trials \X Nat /\ a[2] \in DOMAIN attempts[a[1]]
  /\ \/ attempts[a[1]][a[2]].work = "reconciling"
     \/ executor.at \in {"running", "graded"} /\ a = AttemptId(executor.trial)
ResourcesInv ==
  /\ \A a \in resources : Known(a)
  /\ executor.at # "idle" => resources \subseteq {AttemptId(executor.trial)}

\* All trials of a run begin together; what is queued has begun.
Begun(r) == \A t \in TrialsOf(r) : attempts[t] # <<>>
Unbegun(r) == \A t \in TrialsOf(r) : attempts[t] = <<>>
BegunTrials == {t \in Trials : attempts[t] # <<>>}
PendingInv == pending \in Seq(BegunTrials)

\* What a state s says of the attempts in table.
Tells(s, table, r) ==
  /\ "reconciling" \in WorkOf(table, r) => s = "indeterminate"
  /\ s \in OverStates => WorkOf(table, r) \subseteq {"finished"}
  /\ s = "completed" => \A t \in TrialsOf(r) : ~Faulty(table, t)
  /\ s = "failed" => \E t \in TrialsOf(r) : Faulty(table, t)
RunInv(r) ==
  /\ Tells(runState[r], attempts, r)
  /\ runState[r] \in LiveStates \union {"completed", "failed"} => Begun(r)
  /\ runState[r] \in {"none", "created"} => Unbegun(r)
  /\ runState[r] \in {"cancelled", "cancel_requested"} => r \in askedToStop
RunsInv == \A r \in Runs : RunInv(r)

EvalTypes == AttemptTypes /\ RunTypes /\ ExecutorTypes
EvalInv == EvalTypes /\ EarlierInv /\ ExecutorInv /\ ResourcesInv /\ PendingInv /\ RunsInv

\* A table of attempts, and what it says of a run.
Table == [Trials -> Seq(TrialAttempt)]

\* A run has the work of its attempts.
LEMMA WorkOfIs ==
  ASSUME NEW table, NEW r, NEW w
  PROVE  w \in WorkOf(table, r)
           <=> \E t \in TrialsOf(r) : \E n \in DOMAIN table[t] : table[t][n].work = w
  BY DEF WorkOf

\* A trial is one of its run.
LEMMA TrialIs ==
  ASSUME NEW t \in Trials
  PROVE  RunOf(t) \in Runs /\ t \in TrialsOf(RunOf(t)) /\ \A r : t \in TrialsOf(r) <=> RunOf(t) = r
  BY DEF Trials, RunOf, TrialsOf

\* A sequence with other facts at its end.
LEMMA NewEnd ==
  ASSUME NEW S, NEW s \in Seq(S), s # <<>>, NEW u \in S
  PROVE  /\ Len(s) \in 1 .. Len(s) /\ Len(s) \in Nat /\ DOMAIN s = 1 .. Len(s)
         /\ [s EXCEPT ![Len(s)] = u] \in Seq(S) /\ [s EXCEPT ![Len(s)] = u] # <<>>
         /\ Len([s EXCEPT ![Len(s)] = u]) = Len(s) /\ [s EXCEPT ![Len(s)] = u][Len(s)] = u
         /\ \A n \in 1 .. Len(s) - 1 : [s EXCEPT ![Len(s)] = u][n] = s[n]
<1>1. Len(s) \in Nat /\ Len(s) # 0 /\ DOMAIN s = 1 .. Len(s)
  OBVIOUS
<1>2. Len(s) \in 1 .. Len(s)
  BY <1>1
<1> DEFINE e == [s EXCEPT ![Len(s)] = u]
<1>3. e \in Seq(S) /\ Len(e) = Len(s) /\ \A n \in 1 .. Len(s) : e[n] = IF n = Len(s) THEN u ELSE s[n]
  BY <1>1, <1>2, ExceptSeq
<1>4. e[Len(s)] = u
  BY <1>2, <1>3
<1>5. \A n \in 1 .. Len(s) - 1 : e[n] = s[n]
  <2>1. \A k \in Nat : \A n \in 1 .. k - 1 : n \in 1 .. k /\ n # k
    OBVIOUS
  <2> HIDE DEF e
  <2> QED
    BY <1>1, <1>3, <2>1
<1>6. e # <<>>
  <2> HIDE DEF e
  <2> QED
    BY <1>1, <1>3
<1> QED
  BY <1>1, <1>2, <1>3, <1>4, <1>5, <1>6

\* The selected attempt of a trial has other facts, and nothing else has.
LEMMA UpdateIs ==
  ASSUME AttemptTypes, NEW t \in Trials, attempts[t] # <<>>, NEW facts,
         WithFacts(SelectedAttempt(t), facts) \in TrialAttempt
  PROVE  /\ UpdateAttempt(t, facts) \in Table
         /\ \A s \in Trials : s # t => UpdateAttempt(t, facts)[s] = attempts[s]
         /\ UpdateAttempt(t, facts)[t] # <<>>
         /\ \A s \in Trials : Len(UpdateAttempt(t, facts)[s]) = Len(attempts[s])
         /\ UpdateAttempt(t, facts)[t][Len(attempts[t])] = WithFacts(SelectedAttempt(t), facts)
         /\ \A n \in 1 .. Len(attempts[t]) - 1 : UpdateAttempt(t, facts)[t][n] = attempts[t][n]
         /\ Len(attempts[t]) \in 1 .. Len(attempts[t]) /\ DOMAIN attempts[t] = 1 .. Len(attempts[t])
<1> DEFINE q == attempts[t]
           table == UpdateAttempt(t, facts)
           u == WithFacts(SelectedAttempt(t), facts)
<1>1. attempts \in Table /\ q \in Seq(TrialAttempt) /\ q # <<>>
  BY DEF AttemptTypes, Table
<1>2. u = WithFacts(q[Len(q)], facts)
  BY DEF SelectedAttempt, Last
<1>3. table = [attempts EXCEPT ![t] = [q EXCEPT ![Len(q)] = u]]
  BY <1>2 DEF UpdateAttempt
<1>0. u \in TrialAttempt
  OBVIOUS
<1> HIDE DEF u
<1>4. /\ Len(q) \in 1 .. Len(q) /\ Len(q) \in Nat /\ DOMAIN q = 1 .. Len(q)
      /\ [q EXCEPT ![Len(q)] = u] \in Seq(TrialAttempt) /\ [q EXCEPT ![Len(q)] = u] # <<>>
      /\ Len([q EXCEPT ![Len(q)] = u]) = Len(q) /\ [q EXCEPT ![Len(q)] = u][Len(q)] = u
      /\ \A n \in 1 .. Len(q) - 1 : [q EXCEPT ![Len(q)] = u][n] = q[n]
  <2> HIDE DEF q
  <2> QED
    BY <1>0, <1>1, NewEnd
<1>5. table \in Table /\ table[t] = [q EXCEPT ![Len(q)] = u] /\ \A s \in Trials : s # t => table[s] = attempts[s]
  <2> DEFINE e == [q EXCEPT ![Len(q)] = u]
  <2>1. e \in Seq(TrialAttempt) /\ table = [attempts EXCEPT ![t] = e]
    BY <1>3, <1>4
  <2> HIDE DEF e, table
  <2>2. table \in Table /\ table[t] = e /\ \A s \in Trials : s # t => table[s] = attempts[s]
    BY <2>1, <1>1 DEF Table
  <2> QED
    BY <2>2 DEF e
<1> HIDE DEF table
<1>6. \A s \in Trials : Len(table[s]) = Len(attempts[s])
  BY <1>4, <1>5
<1>7. table[t] # <<>> /\ table[t][Len(q)] = u /\ \A n \in 1 .. Len(q) - 1 : table[t][n] = q[n]
  BY <1>4, <1>5
<1> QED
  BY <1>4, <1>5, <1>6, <1>7 DEF table, u

\* A run whose trials have begun settles in a state that tells the truth of them.
LEMMA SettledTells ==
  ASSUME NEW table \in Table, NEW r, NEW state \in LiveStates,
         \A t \in TrialsOf(r) : attempts[t] # <<>> /\ table[t] # <<>>
  PROVE  /\ SettledRun(table, r, state) \in LiveStates \union OverStates
         /\ Tells(SettledRun(table, r, state), table, r)
         /\ SettledRun(table, r, state) \in {"cancelled", "cancel_requested"} => state = "cancel_requested"
<1> DEFINE s == SettledRun(table, r, state)
           works == WorkOf(table, r)
           faulty == \E t \in TrialsOf(r) : Faulty(table, t)
<1>1. works \subseteq {"queued", "running", "cancel_requested", "reconciling", "finished"}
  <2>1. \A t \in TrialsOf(r) : t \in Trials
    BY DEF TrialsOf
  <2>2. \A t \in TrialsOf(r) : \A n \in DOMAIN table[t] : table[t][n] \in TrialAttempt
    BY <2>1 DEF Table
  <2>3. \A a \in TrialAttempt :
          a.work \in {"queued", "running", "cancel_requested", "reconciling", "finished"}
    BY DEF TrialAttempt
  <2> QED
    BY <2>2, <2>3 DEF WorkOf
<1>2. s = IF "reconciling" \in works THEN "indeterminate"
          ELSE IF works \cap {"queued", "running", "cancel_requested"} # {} THEN state
          ELSE IF state = "cancel_requested" THEN "cancelled"
          ELSE IF works = {} THEN state
          ELSE IF faulty THEN "failed" ELSE "completed"
  BY DEF SettledRun
<1>3. faulty <=> \E t \in TrialsOf(r) : Faulty(table, t)
  OBVIOUS
<1> HIDE DEF s, works, faulty
<1>4. s \in LiveStates \union OverStates
  BY <1>2 DEF LiveStates, OverStates
<1>5. s \in {"cancelled", "cancel_requested"} => state = "cancel_requested"
  BY <1>2 DEF LiveStates
<1>6. "reconciling" \in works => s = "indeterminate"
  BY <1>2
<1>7. s \in OverStates => works \subseteq {"finished"}
  <2>1. SUFFICES ASSUME s \in OverStates, NEW w \in works, w # "finished" PROVE FALSE
    OBVIOUS
  <2>2. s # state /\ s # "indeterminate"
    BY <2>1 DEF LiveStates, OverStates
  <2>3. "reconciling" \notin works /\ works \cap {"queued", "running", "cancel_requested"} = {}
    BY <1>2, <2>2
  <2> QED
    BY <1>1, <2>1, <2>3
<1>8. s = "completed" => ~faulty
  BY <1>2 DEF LiveStates
<1>9. s = "failed" => faulty
  BY <1>2 DEF LiveStates
<1>10. Tells(s, table, r)
  BY <1>6, <1>7, <1>8, <1>9, <1>3 DEF Tells, works
<1> QED
  BY <1>4, <1>5, <1>10 DEF s

\* The facts of an attempt that begins, that is graded, that ends, that is reconciled, and all of them.
LEMMA AttemptFactsAre ==
  ASSUME NEW a \in TrialAttempt
  PROVE  /\ WithFacts(a, [work |-> "running", execution |-> "running"])
              = [work |-> "running", execution |-> "running", origin |-> a.origin, cleanup |-> a.cleanup,
                 grade |-> a.grade, authoritative |-> a.authoritative, exhausted |-> a.exhausted]
         /\ \A g : WithFacts(a, [grade |-> g])
              = [work |-> a.work, execution |-> a.execution, origin |-> a.origin, cleanup |-> a.cleanup,
                 grade |-> g, authoritative |-> a.authoritative, exhausted |-> a.exhausted]
         /\ \A b \in TrialAttempt : WithFacts(a, b) = b
<1>1. DOMAIN a = {"work", "execution", "origin", "cleanup", "grade", "authoritative", "exhausted"}
  BY DEF TrialAttempt
<1>2. ASSUME NEW b \in TrialAttempt PROVE WithFacts(a, b) = b
  <2>1. DOMAIN b = DOMAIN a
    BY DEF TrialAttempt
  <2>2. b = [f \in DOMAIN b |-> b[f]]
    BY DEF TrialAttempt
  <2> QED
    BY <2>1, <2>2 DEF WithFacts
<1> QED
  BY <1>1, <1>2 DEF WithFacts

\* The facts of an attempt that has ended, and of one that is reconciled.
EndedFacts(w, e, o, c, x, y) ==
  [work |-> w, execution |-> e, origin |-> o, cleanup |-> c, exhausted |-> x, authoritative |-> y]
Endings == {"cancelled", "blocked", "error", "finished"}
FaultOrigins == {"none", "environment_setup", "runner_unavailable", "grader_infrastructure", "runner_crash"}
Outcomes == {"finished", "reconciling"}
Cleanups == {"clean", "unclean"}
ReconciledFacts == [work |-> "finished", execution |-> "error", origin |-> "runner_crash", cleanup |-> "clean"]

\* An attempt that has ended.
LEMMA EndedFactsAre ==
  ASSUME NEW a \in TrialAttempt, NEW w \in Outcomes, NEW e \in Endings, NEW o \in FaultOrigins,
         NEW c \in Cleanups, NEW x \in BOOLEAN, NEW y \in BOOLEAN
  PROVE  WithFacts(a, EndedFacts(w, e, o, c, x, y)) \in TrialAttempt
         /\ WithFacts(a, EndedFacts(w, e, o, c, x, y)).work = w
<1>1. DOMAIN a = {"work", "execution", "origin", "cleanup", "grade", "authoritative", "exhausted"}
  BY DEF TrialAttempt
<1>2. a.grade \in {"none", "graded", "grader_error"}
  BY DEF TrialAttempt
<1>3. WithFacts(a, EndedFacts(w, e, o, c, x, y))
        = [work |-> w, execution |-> e, origin |-> o, cleanup |-> c, grade |-> a.grade,
           authoritative |-> y, exhausted |-> x]
  BY <1>1 DEF WithFacts, EndedFacts
<1> QED
  BY <1>2, <1>3 DEF TrialAttempt, Endings, FaultOrigins, Outcomes, Cleanups

\* An attempt that is reconciled.
LEMMA ReconciledFactsAre ==
  ASSUME NEW a \in TrialAttempt
  PROVE  WithFacts(a, ReconciledFacts) \in TrialAttempt /\ WithFacts(a, ReconciledFacts).work = "finished"
<1>1. DOMAIN a = {"work", "execution", "origin", "cleanup", "grade", "authoritative", "exhausted"}
  BY DEF TrialAttempt
<1>2. a.grade \in {"none", "graded", "grader_error"} /\ a.authoritative \in BOOLEAN /\ a.exhausted \in BOOLEAN
  BY DEF TrialAttempt
<1>3. WithFacts(a, ReconciledFacts)
        = [work |-> "finished", execution |-> "error", origin |-> "runner_crash", cleanup |-> "clean", grade |-> a.grade,
           authoritative |-> a.authoritative, exhausted |-> a.exhausted]
  BY <1>1 DEF WithFacts, ReconciledFacts
<1> QED
  BY <1>2, <1>3 DEF TrialAttempt

\* With other facts of its selected attempt a trial has as many attempts, and the earlier ones are the same.
LEMMA Updated ==
  ASSUME AttemptTypes, EarlierInv, NEW t \in Trials, attempts[t] # <<>>, NEW facts, NEW u \in TrialAttempt,
         u = WithFacts(SelectedAttempt(t), facts), attempts' = UpdateAttempt(t, facts)
  PROVE  /\ AttemptTypes' /\ EarlierInv' /\ BegunTrials' = BegunTrials
         /\ \A s \in Trials : AttemptId(s)' = AttemptId(s)
         /\ \A s \in Trials : s # t => attempts'[s] = attempts[s]
         /\ \A s \in Trials : s # t => SelectedAttempt(s)' = SelectedAttempt(s)
         /\ SelectedAttempt(t)' = u /\ attempts'[t] # <<>>
<1>1. /\ attempts' \in Table
      /\ \A s \in Trials : s # t => attempts'[s] = attempts[s]
      /\ attempts'[t] # <<>>
      /\ \A s \in Trials : Len(attempts'[s]) = Len(attempts[s])
      /\ attempts'[t][Len(attempts[t])] = u
      /\ \A n \in 1 .. Len(attempts[t]) - 1 : attempts'[t][n] = attempts[t][n]
  <2> DEFINE table == UpdateAttempt(t, facts)
  <2>1. WithFacts(SelectedAttempt(t), facts) \in TrialAttempt
    OBVIOUS
  <2>2. /\ table \in Table
        /\ \A s \in Trials : s # t => table[s] = attempts[s]
        /\ table[t] # <<>>
        /\ \A s \in Trials : Len(table[s]) = Len(attempts[s])
        /\ table[t][Len(attempts[t])] = WithFacts(SelectedAttempt(t), facts)
        /\ \A n \in 1 .. Len(attempts[t]) - 1 : table[t][n] = attempts[t][n]
    BY <2>1, UpdateIs, Zenon
  <2> HIDE DEF table
  <2>3. attempts' = table
    BY DEF table
  <2> QED
    BY <2>2, <2>3
<1>2. AttemptTypes'
  BY <1>1 DEF AttemptTypes, Table
<1>3. EarlierInv'
  <2> SUFFICES ASSUME NEW s \in Trials
      PROVE /\ Len(attempts'[s]) <= MaxAttempts
            /\ \A n \in 1 .. Len(attempts'[s]) - 1 : Behind(attempts'[s][n])
    BY DEF EarlierInv
  <2>1. /\ Len(attempts[s]) <= MaxAttempts
        /\ \A n \in 1 .. Len(attempts[s]) - 1 : Behind(attempts[s][n])
    BY DEF EarlierInv
  <2>2. Len(attempts'[s]) = Len(attempts[s])
    BY <1>1
  <2>3. \A n \in 1 .. Len(attempts[s]) - 1 : attempts'[s][n] = attempts[s][n]
    BY <1>1
  <2> QED
    BY <2>1, <2>2, <2>3
<1>4. BegunTrials' = BegunTrials
  BY <1>1 DEF BegunTrials
<1>5. \A s \in Trials : AttemptId(s)' = AttemptId(s)
  BY <1>1 DEF AttemptId
<1>6. SelectedAttempt(t)' = u
  BY <1>1 DEF SelectedAttempt, Last
<1>7. \A s \in Trials : s # t => SelectedAttempt(s)' = SelectedAttempt(s)
  BY <1>1 DEF SelectedAttempt
<1> QED
  BY <1>1, <1>2, <1>3, <1>4, <1>5, <1>6, <1>7

\* The attempts of a run are as they were, and so is what it says of them.
LEMMA RunUntouched ==
  ASSUME NEW r \in Runs, RunInv(r), \A s \in TrialsOf(r) : attempts'[s] = attempts[s],
         runState'[r] = runState[r], askedToStop \subseteq askedToStop'
  PROVE  RunInv(r)'
<1>1. WorkOf(attempts, r)' = WorkOf(attempts, r)
  BY DEF WorkOf
<1>2. \A t \in TrialsOf(r) : Faulty(attempts, t)' = Faulty(attempts, t)
  BY DEF Faulty
<1>3. Begun(r)' = Begun(r) /\ Unbegun(r)' = Unbegun(r)
  BY DEF Begun, Unbegun
<1>4. Tells(runState[r], attempts, r)'
  BY <1>1, <1>2 DEF RunInv, Tells
<1> QED
  BY <1>3, <1>4 DEF RunInv

\* The selected attempt of a trial is there, its number is the last, and it is one of the attempts of the run.
LEMMA SelectedIs ==
  ASSUME AttemptTypes, NEW t \in Trials, attempts[t] # <<>>
  PROVE  /\ SelectedAttempt(t) \in TrialAttempt /\ SelectedAttempt(t) = attempts[t][Len(attempts[t])]
         /\ Len(attempts[t]) \in DOMAIN attempts[t] /\ Len(attempts[t]) \in Nat /\ AttemptId(t) \in Trials \X Nat
         /\ SelectedAttempt(t).work \in WorkOf(attempts, RunOf(t))
<1>1. attempts[t] \in Seq(TrialAttempt)
  BY DEF AttemptTypes
<1>2. Len(attempts[t]) \in DOMAIN attempts[t] /\ Len(attempts[t]) \in Nat
  BY <1>1
<1>3. SelectedAttempt(t) = attempts[t][Len(attempts[t])]
  BY DEF SelectedAttempt, Last
<1>4. SelectedAttempt(t) \in TrialAttempt
  BY <1>1, <1>2, <1>3
<1> QED
  BY <1>2, <1>3, <1>4, TrialIs, WorkOfIs DEF AttemptId

\* A trial that has begun settles its run.
LEMMA RunSettles ==
  ASSUME AttemptTypes, RunTypes, RunsInv, EarlierInv, NEW t \in Trials, attempts[t] # <<>>, NEW facts,
         NEW u \in TrialAttempt, u = WithFacts(SelectedAttempt(t), facts),
         runState[RunOf(t)] \in LiveStates, SettleRun(t, facts, runState[RunOf(t)]), askedToStop' = askedToStop
  PROVE  RunTypes' /\ RunsInv'
<1> DEFINE r == RunOf(t)
           table == UpdateAttempt(t, facts)
           s == SettledRun(table, r, runState[r])
<1>1. attempts' = table /\ runState' = [runState EXCEPT ![r] = s] /\ r \in Runs /\ t \in TrialsOf(r)
  BY TrialIs DEF SettleRun
<1>2. /\ table \in Table
      /\ \A q \in Trials : q # t => table[q] = attempts[q]
      /\ table[t] # <<>>
  <2>1. WithFacts(SelectedAttempt(t), facts) \in TrialAttempt
    OBVIOUS
  <2> QED
    BY <2>1, UpdateIs, Zenon
<1>3. RunInv(r)
  BY <1>1 DEF RunsInv
<1>4. Begun(r) /\ r \in {"never"} \union Runs
  BY <1>1, <1>3 DEF RunInv
<1>5. \A q \in TrialsOf(r) : attempts[q] # <<>> /\ table[q] # <<>>
  BY <1>2, <1>4 DEF Begun, TrialsOf
<1>6. runState[r] \in LiveStates
  OBVIOUS
<1> HIDE DEF table, s, r
<1>7. /\ s \in LiveStates \union OverStates /\ Tells(s, table, r)
      /\ s \in {"cancelled", "cancel_requested"} => runState[r] = "cancel_requested"
  BY <1>2, <1>5, <1>6, SettledTells DEF s
<1>8. RunTypes'
  BY <1>1, <1>7 DEF RunTypes
<1>9. runState'[r] = s
  BY <1>1 DEF RunTypes
<1>10. RunInv(r)'
  <2>1. Tells(runState[r], attempts, r)'
    BY <1>1, <1>7, <1>9 DEF Tells, WorkOf, Faulty
  <2>2. Begun(r)'
    BY <1>1, <1>5 DEF Begun
  <2>3. s \notin {"none", "created"}
    BY <1>7 DEF LiveStates, OverStates
  <2>4. s \in {"cancelled", "cancel_requested"} => r \in askedToStop'
    BY <1>3, <1>7 DEF RunInv
  <2> QED
    BY <1>9, <2>1, <2>2, <2>3, <2>4 DEF RunInv
<1>11. ASSUME NEW p \in Runs, p # r PROVE RunInv(p)'
  <2>1. \A q \in TrialsOf(p) : q \in Trials /\ q # t
    BY <1>11, TrialIs DEF TrialsOf, r
  <2>2. \A q \in TrialsOf(p) : attempts'[q] = attempts[q]
    BY <2>1, <1>1, <1>2
  <2>3. runState'[p] = runState[p]
    BY <1>1, <1>11 DEF RunTypes
  <2>4. RunInv(p)
    BY DEF RunsInv
  <2> QED
    BY <2>2, <2>3, <2>4, RunUntouched
<1> QED
  BY <1>8, <1>10, <1>11 DEF RunsInv

\* What stands on the host is of the last attempt of a trial, executed or in doubt.
LEMMA ResourceIs ==
  ASSUME AttemptTypes, EarlierInv, ExecutorInv, NEW a, Known(a)
  PROVE  /\ a[1] \in Trials /\ attempts[a[1]] # <<>> /\ a = AttemptId(a[1])
         /\ \/ SelectedAttempt(a[1]).work = "reconciling"
            \/ executor.at \in {"running", "graded"} /\ a[1] = executor.trial
<1> DEFINE t == a[1]
           q == attempts[t]
<1>1. a \in Trials \X Nat /\ a[2] \in DOMAIN q
  BY DEF Known
<1>2. t \in Trials /\ a = <<t, a[2]>>
  BY <1>1
<1>3. q \in Seq(TrialAttempt)
  BY <1>2 DEF AttemptTypes
<1>4. DOMAIN q = 1 .. Len(q) /\ Len(q) \in Nat /\ a[2] \in Nat
  BY <1>1, <1>3
<1>5. q # <<>>
  BY <1>1
<1>6. CASE q[a[2]].work = "reconciling"
  <2>1. \A n \in 1 .. Len(q) - 1 : q[n].work = "finished"
    BY <1>2 DEF EarlierInv, Behind
  <2>2. a[2] \notin 1 .. Len(q) - 1
    BY <1>6, <2>1
  <2>3. a[2] = Len(q)
    BY <1>1, <1>4, <2>2
  <2> QED
    BY <1>2, <1>5, <1>6, <2>3 DEF SelectedAttempt, Last, AttemptId
<1>7. CASE executor.at \in {"running", "graded"} /\ a = AttemptId(executor.trial)
  <2>1. executor.trial \in Trials /\ attempts[executor.trial] # <<>>
    BY <1>7 DEF ExecutorInv
  <2>2. a = <<executor.trial, Len(attempts[executor.trial])>>
    BY <1>7 DEF AttemptId
  <2>3. t = executor.trial
    BY <2>2
  <2> QED
    BY <1>2, <1>5, <1>7, <2>2, <2>3 DEF AttemptId
<1> QED
  BY <1>6, <1>7 DEF Known

\* And so it is known.
LEMMA ResourcesFollow ==
  ASSUME AttemptTypes', executor'.at # "idle" => resources' \subseteq {AttemptId(executor.trial)'},
         \A a \in resources' :
           /\ a[1] \in Trials /\ attempts'[a[1]] # <<>> /\ a = AttemptId(a[1])'
           /\ \/ SelectedAttempt(a[1])'.work = "reconciling"
              \/ executor'.at \in {"running", "graded"} /\ a[1] = executor'.trial
  PROVE  ResourcesInv'
<1> SUFFICES ASSUME NEW a \in resources' PROVE Known(a)'
  BY DEF ResourcesInv, AttemptId
<1> DEFINE t == a[1]
           q == attempts'[t]
<1>1. t \in Trials /\ q # <<>> /\ a = <<t, Len(q)>>
  BY DEF AttemptId
<1>2. q \in Seq(TrialAttempt)
  BY <1>1 DEF AttemptTypes
<1>3. Len(q) \in Nat /\ Len(q) \in DOMAIN q
  BY <1>1, <1>2
<1>4. a \in Trials \X Nat /\ a[2] = Len(q)
  BY <1>1, <1>3
<1>5. \/ attempts'[a[1]][a[2]].work = "reconciling"
      \/ executor'.at \in {"running", "graded"} /\ a = AttemptId(executor.trial)'
  BY <1>4 DEF SelectedAttempt, Last, AttemptId
<1> QED
  BY <1>3, <1>4, <1>5 DEF Known

\* Nothing runs and nothing is in doubt when the worker is free.
LEMMA FreeHost ==
  ASSUME AttemptTypes, EarlierInv, ExecutorInv, ResourcesInv, WorkerFree
  PROVE  resources = {} /\ executor.at = "idle"
<1>1. executor = NotExecuting /\ executor.at = "idle"
  BY DEF WorkerFree, NothingRuns, NotExecuting
<1>2. ASSUME NEW a \in resources PROVE FALSE
  <2>1. Known(a)
    BY DEF ResourcesInv
  <2>2. a[1] \in Trials /\ attempts[a[1]] # <<>> /\ SelectedAttempt(a[1]).work = "reconciling"
    BY <1>1, <2>1, ResourceIs
  <2>3. "reconciling" \in WorkOf(attempts, RunOf(a[1])) /\ RunOf(a[1]) \in Runs
    BY <2>2, SelectedIs, TrialIs
  <2> QED
    BY <2>3 DEF WorkerFree, WorkStates
<1> QED
  BY <1>1, <1>2

\* A run one of whose attempts is at work is not over.
LEMMA LiveRun ==
  ASSUME AttemptTypes, RunTypes, RunsInv, NEW t \in Trials, attempts[t] # <<>>,
         SelectedAttempt(t).work \in {"running", "cancel_requested", "reconciling"}
  PROVE  runState[RunOf(t)] \in LiveStates
<1>1. RunOf(t) \in Runs /\ SelectedAttempt(t).work \in WorkOf(attempts, RunOf(t)) /\ t \in TrialsOf(RunOf(t))
  BY SelectedIs, TrialIs
<1>2. RunInv(RunOf(t))
  BY <1>1 DEF RunsInv
<1>3. ~Unbegun(RunOf(t))
  BY <1>1 DEF Unbegun
<1>4. runState[RunOf(t)] \notin {"none", "created"}
  BY <1>2, <1>3 DEF RunInv
<1>5. runState[RunOf(t)] \notin OverStates
  BY <1>1, <1>2 DEF RunInv, Tells
<1>6. runState[RunOf(t)] \in {"none", "created"} \union LiveStates \union OverStates
  BY <1>1 DEF RunTypes
<1> QED
  BY <1>4, <1>5, <1>6

\* The queue loses its first item, or is as it was, while the trials that have begun are the same.
LEMMA EvalQueueKept ==
  ASSUME PendingInv, BegunTrials \subseteq BegunTrials'
  PROVE  /\ pending' = pending => PendingInv'
         /\ pending # <<>> => Head(pending) \in BegunTrials /\ (pending' = Tail(pending) => PendingInv')
<1>1. pending \in Seq(BegunTrials')
  BY DEF PendingInv
<1>2. ASSUME pending # <<>> PROVE Head(pending) \in BegunTrials /\ Tail(pending) \in Seq(BegunTrials')
  BY <1>1, <1>2 DEF PendingInv
<1> QED
  BY <1>1, <1>2 DEF PendingInv

\* The end of an attempt keeps the invariant: it left nothing, or its cleanup is in doubt.
LEMMA FinishKeeps ==
  ASSUME EvalInv, executor.at # "idle", NEW e \in Endings, NEW o \in FaultOrigins,
         NEW c \in Cleanups, NEW x \in BOOLEAN, NEW y \in BOOLEAN,
         c = "clean" => AttemptId(executor.trial) \notin resources,
         Finish(e, o, c, x, y), resources' = resources
  PROVE  EvalInv'
<1>1. AttemptTypes /\ RunTypes /\ ExecutorTypes /\ EarlierInv /\ ExecutorInv /\ ResourcesInv /\ PendingInv /\ RunsInv
  BY DEF EvalInv, EvalTypes
<1>2. PICK t \in Trials : /\ t = executor.trial /\ attempts[t] # <<>>
                          /\ SelectedAttempt(t).work \in {"running", "cancel_requested"}
  BY <1>1 DEF ExecutorInv
<1> DEFINE doubt == e = "cancelled" /\ c # "clean"
           w == IF c = "clean" THEN "finished" ELSE "reconciling"
           ee == IF doubt THEN "error" ELSE e
           oo == IF doubt THEN "runner_crash" ELSE o
           facts == EndedFacts(w, ee, oo, c, x, y)
           u == WithFacts(SelectedAttempt(t), facts)
<1>3. /\ SettleRun(t, facts, runState[RunOf(t)]) /\ executor' = NotExecuting
      /\ pending' = pending /\ askedToStop' = askedToStop
  BY <1>2 DEF Finish, EndedFacts
<1>4. SelectedAttempt(t) \in TrialAttempt
  BY <1>1, <1>2, SelectedIs
<1>5. w \in Outcomes /\ ee \in Endings /\ oo \in FaultOrigins /\ (c = "clean" \/ w = "reconciling")
  BY DEF Outcomes, Endings, FaultOrigins
<1> HIDE DEF w, ee, oo
<1>8. u \in TrialAttempt /\ u.work = w
  BY <1>4, <1>5, EndedFactsAre
<1>9. runState[RunOf(t)] \in LiveStates
  BY <1>1, <1>2, LiveRun
<1>10. attempts' = UpdateAttempt(t, facts)
  BY <1>3 DEF SettleRun
<1> HIDE DEF facts, u
<1>11. u = WithFacts(SelectedAttempt(t), facts)
  BY DEF u
<1>12. RunTypes' /\ RunsInv'
  BY <1>1, <1>2, <1>3, <1>8, <1>9, <1>11, RunSettles
<1>13. /\ AttemptTypes' /\ EarlierInv' /\ BegunTrials' = BegunTrials
       /\ \A s \in Trials : AttemptId(s)' = AttemptId(s)
       /\ SelectedAttempt(t)' = u /\ attempts'[t] # <<>>
  BY ONLY <1>1, <1>2, <1>8, <1>10, <1>11, Updated
<1>14. executor'.at = "idle" /\ ExecutorTypes' /\ ExecutorInv'
  BY <1>3 DEF ExecutorTypes, ExecutorInv, NotExecuting
<1>15. ResourcesInv'
  <2> SUFFICES ASSUME NEW a \in resources'
      PROVE  /\ a[1] \in Trials /\ attempts'[a[1]] # <<>> /\ a = AttemptId(a[1])'
             /\ SelectedAttempt(a[1])'.work = "reconciling"
    BY <1>13, <1>14, ResourcesFollow
  <2>1. a = AttemptId(t) /\ a \in resources
    BY <1>1, <1>2 DEF ResourcesInv
  <2>2. a[1] = t
    BY <2>1 DEF AttemptId
  <2>3. w = "reconciling"
    BY <1>2, <1>5, <2>1
  <2>4. a[1] \in Trials /\ attempts'[a[1]] # <<>> /\ SelectedAttempt(t)'.work = "reconciling"
    BY <1>2, <1>8, <1>13, <2>2, <2>3
  <2>5. a = AttemptId(a[1])'
    BY <1>2, <1>13, <2>1, <2>2
  <2>6. SelectedAttempt(a[1])' = SelectedAttempt(t)'
    BY <2>2 DEF SelectedAttempt
  <2> QED
    BY <2>4, <2>5, <2>6
<1>16. PendingInv'
  BY <1>1, <1>3, <1>13, EvalQueueKept
<1> QED
  BY <1>12, <1>13, <1>14, <1>15, <1>16 DEF EvalInv, EvalTypes

\* Blocked, cut off, over or not collected: each keeps the invariant.
LEMMA EndKeeps ==
  ASSUME EvalInv, Block \/ CutOff \/ CollectFails \/ FinishGraded
  PROVE  EvalInv'
<1>1. ExecutorInv /\ ResourcesInv /\ ExecutorTypes /\ AttemptTypes /\ EarlierInv
  BY DEF EvalInv, EvalTypes
<1>2. CASE Block
  <2>1. PICK o \in {"environment_setup", "runner_unavailable"} : Finish("blocked", o, "clean", FALSE, FALSE)
    BY <1>2 DEF Block
  <2>2. executor.at = "preparing" /\ resources' = resources
    BY <1>2 DEF Block
  <2>3. AttemptId(executor.trial) \notin resources
    <3>1. SUFFICES ASSUME AttemptId(executor.trial) \in resources PROVE FALSE
      OBVIOUS
    <3>2. Known(AttemptId(executor.trial))
      BY <1>1, <3>1 DEF ResourcesInv
    <3>3. SelectedAttempt(AttemptId(executor.trial)[1]).work = "reconciling"
      BY <1>1, <2>2, <3>2, ResourceIs
    <3>4. AttemptId(executor.trial)[1] = executor.trial
      BY DEF AttemptId
    <3> QED
      BY <1>1, <2>2, <3>3, <3>4 DEF ExecutorInv
  <2> QED
    BY <2>1, <2>2, <2>3, FinishKeeps DEF Endings, FaultOrigins, Cleanups
<1>3. CASE CutOff
  <2>1. executor.at # "idle" /\ resources' = resources
    BY <1>3 DEF CutOff
  <2>2. PICK x \in BOOLEAN : \/ Finish("cancelled", "none", "unclean", x, FALSE)
                             \/ Finish("error", "runner_crash", "unclean", x, FALSE)
    BY <1>3 DEF CutOff
  <2>3. CASE Finish("cancelled", "none", "unclean", x, FALSE)
    BY <2>1, <2>3, FinishKeeps DEF Endings, FaultOrigins, Cleanups
  <2>4. CASE Finish("error", "runner_crash", "unclean", x, FALSE)
    BY <2>1, <2>4, FinishKeeps DEF Endings, FaultOrigins, Cleanups
  <2> QED
    BY <2>2, <2>3, <2>4
<1>4. CASE CollectFails
  <2>1. executor.at # "idle" /\ resources' = resources
    BY <1>4 DEF CollectFails
  <2>2. PICK c \in Receipts, x \in BOOLEAN : Finish("error", "runner_crash", c, x, FALSE)
    BY <1>4 DEF CollectFails
  <2>3. c \in {"clean", "unclean"} /\ (c = "clean" => AttemptId(executor.trial) \notin resources)
    BY DEF Receipts
  <2> QED
    BY <2>1, <2>2, <2>3, FinishKeeps DEF Endings, FaultOrigins, Cleanups
<1>5. CASE FinishGraded
  <2>1. /\ executor.at = "graded" /\ resources' = resources
        /\ Finish(executor.result[1], executor.result[2], executor.result[3], executor.result[4], TRUE)
    BY <1>5 DEF FinishGraded
  <2>2. executor.result \in Results /\ (executor.result[3] = "clean" => AttemptId(executor.trial) \notin resources)
    BY <1>1, <2>1 DEF ExecutorInv
  <2>3. /\ executor.result[1] \in {"cancelled", "blocked", "error", "finished"}
        /\ executor.result[2] \in {"none", "environment_setup", "runner_unavailable", "grader_infrastructure", "runner_crash"}
        /\ executor.result[3] \in {"clean", "unclean"} /\ executor.result[4] \in BOOLEAN
    BY <2>2 DEF Results
  <2> QED
    BY <2>1, <2>2, <2>3, FinishKeeps DEF Endings, FaultOrigins, Cleanups
<1> QED
  BY <1>2, <1>3, <1>4, <1>5

\* What is executed and what stands on the host are of trials that a step does not touch.
LEMMA OthersFollow ==
  ASSUME AttemptTypes, EarlierInv, ExecutorTypes, ExecutorInv, ResourcesInv, NEW T, AttemptTypes',
         executor' = executor, resources' = resources,
         \A s \in Trials : s \notin T => attempts'[s] = attempts[s],
         executor.at # "idle" => executor.trial \notin T,
         \A s \in Trials \cap T :
           attempts[s] # <<>> => SelectedAttempt(s).work # "reconciling" \/ AttemptId(s) \notin resources
  PROVE  ExecutorTypes' /\ ExecutorInv' /\ ResourcesInv'
<1>1. ASSUME NEW s \in Trials, s \notin T
      PROVE  attempts'[s] = attempts[s] /\ SelectedAttempt(s)' = SelectedAttempt(s) /\ AttemptId(s)' = AttemptId(s)
  BY <1>1 DEF SelectedAttempt, AttemptId
<1>2. ASSUME executor.at # "idle"
      PROVE  ExecutorInv' /\ resources' \subseteq {AttemptId(executor.trial)'}
  <2>1. PICK s \in Trials : s = executor.trial /\ s \notin T /\ attempts[s] # <<>>
    BY <1>2 DEF ExecutorInv
  <2>2. attempts'[s] = attempts[s] /\ SelectedAttempt(s)' = SelectedAttempt(s) /\ AttemptId(s)' = AttemptId(s)
    BY <1>1, <2>1
  <2>3. SelectedAttempt(executor.trial)' = SelectedAttempt(s)' /\ AttemptId(executor.trial)' = AttemptId(s)'
    BY <2>1
  <2> QED
    BY <1>2, <2>1, <2>2, <2>3 DEF ExecutorInv, ResourcesInv
<1>3. ExecutorTypes' /\ ExecutorInv'
  BY <1>2 DEF ExecutorTypes, ExecutorInv
<1>4. ASSUME NEW a \in resources'
      PROVE  /\ a[1] \in Trials /\ attempts'[a[1]] # <<>> /\ a = AttemptId(a[1])'
             /\ \/ SelectedAttempt(a[1])'.work = "reconciling"
                \/ executor'.at \in {"running", "graded"} /\ a[1] = executor'.trial
  <2>1. Known(a) /\ a \in resources
    BY <1>4 DEF ResourcesInv
  <2>2. /\ a[1] \in Trials /\ attempts[a[1]] # <<>> /\ a = AttemptId(a[1])
        /\ \/ SelectedAttempt(a[1]).work = "reconciling"
           \/ executor.at \in {"running", "graded"} /\ a[1] = executor.trial
    BY <2>1, ResourceIs
  <2>3. a[1] \notin T
    BY <2>1, <2>2
  <2> QED
    BY <1>1, <2>2, <2>3
<1>5. executor'.at # "idle" => resources' \subseteq {AttemptId(executor.trial)'}
  BY <1>2
<1>6. ResourcesInv'
  BY <1>4, <1>5, ResourcesFollow
<1> QED
  BY <1>3, <1>6

\* Reconciliation keeps the invariant: nothing is left of what is over.
LEMMA ReconcileKeeps ==
  ASSUME EvalInv, NEW t \in Trials, Reconcile(t)
  PROVE  EvalInv'
<1>1. AttemptTypes /\ RunTypes /\ ExecutorTypes /\ EarlierInv /\ ExecutorInv /\ ResourcesInv /\ PendingInv /\ RunsInv
  BY DEF EvalInv, EvalTypes
<1>2. /\ attempts[t] # <<>> /\ SelectedAttempt(t).work = "reconciling" /\ AttemptId(t) \notin resources
      /\ SettleRun(t, ReconciledFacts, runState[RunOf(t)])
      /\ pending' = pending /\ executor' = executor /\ resources' = resources /\ askedToStop' = askedToStop
  BY DEF Reconcile, ReconciledFacts
<1> DEFINE u == WithFacts(SelectedAttempt(t), ReconciledFacts)
<1>3. u \in TrialAttempt
  BY <1>1, <1>2, SelectedIs, ReconciledFactsAre
<1>4. runState[RunOf(t)] \in LiveStates
  BY <1>1, <1>2, LiveRun
<1>5. attempts' = UpdateAttempt(t, ReconciledFacts)
  BY <1>2 DEF SettleRun
<1> HIDE DEF u
<1>6. u = WithFacts(SelectedAttempt(t), ReconciledFacts)
  BY DEF u
<1>7. RunTypes' /\ RunsInv'
  BY <1>1, <1>2, <1>3, <1>4, <1>6, RunSettles
<1>8. /\ AttemptTypes' /\ EarlierInv' /\ BegunTrials' = BegunTrials
      /\ \A s \in Trials : s # t => attempts'[s] = attempts[s]
  BY <1>1, <1>2, <1>3, <1>5, <1>6, Updated
<1>9. PendingInv'
  BY <1>1, <1>2, <1>8, EvalQueueKept
<1>10. ExecutorTypes' /\ ExecutorInv' /\ ResourcesInv'
  <2> DEFINE T == {t}
  <2>1. /\ \A s \in Trials : s \notin T => attempts'[s] = attempts[s]
        /\ executor.at # "idle" => executor.trial \notin T
        /\ \A s \in Trials \cap T :
             attempts[s] # <<>> => SelectedAttempt(s).work # "reconciling" \/ AttemptId(s) \notin resources
    BY <1>1, <1>2, <1>8 DEF ExecutorInv
  <2> HIDE DEF T
  <2> QED
    BY <1>1, <1>2, <1>8, <2>1, OthersFollow
<1> QED
  BY <1>7, <1>8, <1>9, <1>10 DEF EvalInv, EvalTypes

\* Where no selected attempt comes to be in doubt, no run does.
LEMMA NoDoubt ==
  ASSUME NEW T, AttemptTypes', EarlierInv', \A q \in Trials : q \notin T => attempts'[q] = attempts[q],
         \A q \in Trials \cap T : SelectedAttempt(q)'.work # "reconciling", NEW r
  PROVE  "reconciling" \in WorkOf(attempts, r)' => "reconciling" \in WorkOf(attempts, r)
<1>1. SUFFICES ASSUME "reconciling" \in WorkOf(attempts', r) PROVE "reconciling" \in WorkOf(attempts, r)
  BY DEF WorkOf
<1>2. PICK q \in TrialsOf(r) : \E n \in DOMAIN attempts'[q] : attempts'[q][n].work = "reconciling"
  BY <1>1 DEF WorkOf
<1>3. PICK n \in DOMAIN attempts'[q] : attempts'[q][n].work = "reconciling"
  BY <1>2
<1>4. q \in Trials
  BY DEF TrialsOf
<1>5. CASE q \notin T
  BY <1>3, <1>4, <1>5 DEF WorkOf
<1>6. CASE q \in T
  <2>1. attempts'[q] \in Seq(TrialAttempt) /\ n \in DOMAIN attempts'[q]
    BY <1>3, <1>4 DEF AttemptTypes
  <2>2. n = Len(attempts'[q]) \/ n \in 1 .. Len(attempts'[q]) - 1
    BY <2>1
  <2>3. n = Len(attempts'[q])
    BY <1>3, <1>4, <2>2 DEF EarlierInv, Behind
  <2> QED
    BY <1>3, <1>4, <1>6, <2>3 DEF SelectedAttempt, Last
<1> QED
  BY <1>5, <1>6

\* A graded attempt and one that runs are still the ones that are executed.
LEMMA RunnerKeeps ==
  ASSUME EvalInv, Run \/ RunnerEnds
  PROVE  EvalInv'
<1>1. AttemptTypes /\ RunTypes /\ ExecutorTypes /\ EarlierInv /\ ExecutorInv /\ ResourcesInv /\ PendingInv /\ RunsInv
  BY DEF EvalInv, EvalTypes
<1>2. executor.at # "idle"
  BY DEF Run, RunnerEnds
<1>3. PICK t \in Trials : /\ t = executor.trial /\ attempts[t] # <<>>
                          /\ SelectedAttempt(t).work \in {"running", "cancel_requested"}
  BY <1>1, <1>2 DEF ExecutorInv
<1>4. resources \subseteq {AttemptId(t)}
  BY <1>1, <1>2, <1>3 DEF ResourcesInv
<1>5. CASE Run
  <2>1. /\ executor' = [executor EXCEPT !.at = "running"] /\ resources' = resources \cup {AttemptId(t)}
        /\ attempts' = attempts /\ runState' = runState /\ pending' = pending /\ askedToStop' = askedToStop
    BY <1>3, <1>5 DEF Run
  <2>2. AttemptTypes' /\ RunTypes' /\ EarlierInv' /\ PendingInv'
    BY <1>1, <2>1 DEF AttemptTypes, RunTypes, EarlierInv, PendingInv, BegunTrials
  <2>3. RunsInv'
    BY <1>1, <2>1, RunUntouched DEF RunsInv
  <2>4. ExecutorTypes' /\ executor'.at = "running" /\ executor'.trial = t
    BY <1>1, <1>3, <2>1 DEF ExecutorTypes
  <2>5. SelectedAttempt(t)' = SelectedAttempt(t) /\ AttemptId(t)' = AttemptId(t)
    BY <2>1 DEF SelectedAttempt, AttemptId
  <2>6. SelectedAttempt(executor.trial)' = SelectedAttempt(t)' /\ AttemptId(executor.trial)' = AttemptId(t)'
    BY <2>4
  <2>7. ExecutorInv'
    BY <1>3, <2>1, <2>4, <2>5, <2>6 DEF ExecutorInv
  <2>8. ASSUME NEW a \in resources'
        PROVE  a[1] = t /\ a = AttemptId(a[1])'
    <3>1. a = AttemptId(t)
      BY <1>4, <2>1
    <3>2. a[1] = t
      BY <3>1 DEF AttemptId
    <3> QED
      BY <2>5, <3>1, <3>2
  <2>9. resources' \subseteq {AttemptId(executor.trial)'}
    BY <1>4, <2>1, <2>5, <2>6
  <2>10. ResourcesInv'
    BY <1>3, <2>1, <2>2, <2>4, <2>8, <2>9, ResourcesFollow
  <2> QED
    BY <2>2, <2>3, <2>4, <2>7, <2>10 DEF EvalInv, EvalTypes
<1>6. CASE RunnerEnds
  <2>1. resources' = resources /\ executor.at = "running"
    BY <1>6 DEF RunnerEnds
  <2>2. PICK c \in Receipts, res \in Normalized, x \in BOOLEAN :
          \/ res[3] = "none" /\ Finish(res[1], res[2], c, x, FALSE)
          \/ /\ res[3] # "none" /\ attempts' = UpdateAttempt(t, [grade |-> res[3]])
             /\ executor' = [executor EXCEPT !.at = "graded", !.result = <<res[1], res[2], c, x>>]
             /\ UNCHANGED <<ticket, runState, pending, engineCrashes, ticketCount, askedToStop>>
    BY <1>3, <1>6 DEF RunnerEnds
  <2>3. c \in Cleanups /\ (c = "clean" => AttemptId(t) \notin resources)
    BY <1>3 DEF Receipts, Cleanups
  <2>4. /\ res[1] \in {"finished", "error"}
        /\ res[2] \in {"none", "environment_setup", "grader_infrastructure", "runner_crash"}
        /\ res[3] \in {"none", "graded", "grader_error"}
    BY DEF Normalized
  <2>5. CASE res[3] = "none" /\ Finish(res[1], res[2], c, x, FALSE)
    <3>1. PICK e \in Endings, o \in FaultOrigins : e = res[1] /\ o = res[2]
      BY <2>4 DEF Endings, FaultOrigins
    <3>2. Finish(e, o, c, x, FALSE) /\ (c = "clean" => AttemptId(executor.trial) \notin resources)
      BY <1>3, <2>3, <2>5, <3>1
    <3> QED
      BY <1>2, <2>1, <2>3, <3>2, FinishKeeps
  <2>6. CASE /\ res[3] # "none" /\ attempts' = UpdateAttempt(t, [grade |-> res[3]])
             /\ executor' = [executor EXCEPT !.at = "graded", !.result = <<res[1], res[2], c, x>>]
             /\ UNCHANGED <<ticket, runState, pending, engineCrashes, ticketCount, askedToStop>>
    <3> DEFINE sel == SelectedAttempt(t)
               facts == [grade |-> res[3]]
               u == WithFacts(sel, facts)
               result == <<res[1], res[2], c, x>>
    <3>1. sel \in TrialAttempt
      BY <1>1, <1>3, SelectedIs
    <3>2. u \in TrialAttempt /\ u.work = sel.work
      <4>1. PICK g : g = res[3] /\ g \in {"graded", "grader_error"}
        BY <2>4, <2>6
      <4> HIDE DEF sel
      <4>2. u = [work |-> sel.work, execution |-> sel.execution, origin |-> sel.origin, cleanup |-> sel.cleanup,
                 grade |-> g, authoritative |-> sel.authoritative, exhausted |-> sel.exhausted]
        BY <3>1, <4>1, AttemptFactsAre
      <4> QED
        BY <3>1, <4>1, <4>2 DEF TrialAttempt
    <3>3. result \in Results
      BY <2>3, <2>4 DEF Results, Cleanups
    <3> HIDE DEF facts, u, result
    <3>4. u = WithFacts(SelectedAttempt(t), facts) /\ attempts' = UpdateAttempt(t, facts)
      BY <2>6 DEF u, facts
    <3>5. /\ AttemptTypes' /\ EarlierInv' /\ BegunTrials' = BegunTrials
          /\ \A s \in Trials : AttemptId(s)' = AttemptId(s)
          /\ \A s \in Trials : s # t => attempts'[s] = attempts[s]
          /\ SelectedAttempt(t)' = u /\ attempts'[t] # <<>>
      BY <1>1, <1>3, <3>2, <3>4, Updated
    <3>6. executor'.trial = t /\ executor'.at = "graded" /\ executor'.result = result /\ ExecutorTypes'
      BY <1>1, <1>3, <2>6, <3>3 DEF ExecutorTypes, result
    <3>7. SelectedAttempt(executor.trial)' = SelectedAttempt(t)' /\ AttemptId(executor.trial)' = AttemptId(t)'
      BY <3>6
    <3>8. result[3] = c
      BY DEF result
    <3>9. ExecutorInv'
      BY <1>3, <2>1, <2>3, <3>2, <3>3, <3>5, <3>6, <3>7, <3>8 DEF ExecutorInv
    <3>10. ResourcesInv'
      <4>1. ASSUME NEW a \in resources' PROVE a[1] = t /\ a = AttemptId(a[1])'
        <5>1. a = AttemptId(t)
          BY <1>4, <2>1
        <5>2. a[1] = t
          BY <5>1 DEF AttemptId
        <5> QED
          BY <3>5, <5>1, <5>2
      <4>2. resources' \subseteq {AttemptId(executor.trial)'}
        BY <1>4, <2>1, <3>5, <3>7
      <4> QED
        BY <3>5, <3>6, <4>1, <4>2, ResourcesFollow
    <3>11. PendingInv'
      BY <1>1, <2>6, <3>5, EvalQueueKept
    <3>12. RunTypes' /\ RunsInv'
      <4>1. RunTypes' /\ runState' = runState /\ askedToStop' = askedToStop
        BY <1>1, <2>6 DEF RunTypes
      <4>2. RunOf(t) \in Runs /\ runState[RunOf(t)] \in LiveStates /\ RunInv(RunOf(t)) /\ t \in TrialsOf(RunOf(t))
        BY <1>1, <1>3, LiveRun, TrialIs DEF RunsInv
      <4>3. RunInv(RunOf(t))'
        <5> DEFINE r == RunOf(t)
        <5>1. Begun(r)
          BY <4>2 DEF RunInv
        <5>2. Begun(r)'
          BY <3>5, <5>1 DEF Begun, TrialsOf
        <5>3. "reconciling" \in WorkOf(attempts, r)' => "reconciling" \in WorkOf(attempts, r)
          <6> DEFINE T == {t}
          <6>1. /\ \A q \in Trials : q \notin T => attempts'[q] = attempts[q]
                /\ \A q \in Trials \cap T : SelectedAttempt(q)'.work # "reconciling"
            BY <1>3, <3>2, <3>5
          <6> HIDE DEF T
          <6> QED
            BY <3>5, <6>1, NoDoubt
        <5>4. Tells(runState[r], attempts, r)'
          BY <4>1, <4>2, <5>3 DEF Tells, RunInv, LiveStates, OverStates
        <5> QED
          BY <4>1, <4>2, <5>2, <5>4 DEF RunInv, LiveStates
      <4>4. ASSUME NEW r \in Runs, r # RunOf(t) PROVE RunInv(r)'
        <5>1. \A q \in TrialsOf(r) : attempts'[q] = attempts[q]
          BY <3>5, <4>4, TrialIs DEF TrialsOf
        <5> QED
          BY <1>1, <4>1, <5>1, RunUntouched DEF RunsInv
      <4> QED
        BY <4>1, <4>3, <4>4 DEF RunsInv
    <3> QED
      BY <3>5, <3>6, <3>9, <3>10, <3>11, <3>12 DEF EvalInv, EvalTypes
  <2> QED
    BY <2>2, <2>5, <2>6
<1> QED
  BY <1>5, <1>6

\* Trials that have none, or whose attempts are behind them, get another one.
LEMMA Appended ==
  ASSUME AttemptTypes, EarlierInv, NEW T,
         attempts' = [s \in Trials |-> IF s \in T THEN Append(attempts[s], QueuedAttempt) ELSE attempts[s]],
         \A s \in Trials \cap T : /\ Len(attempts[s]) < MaxAttempts
                                  /\ attempts[s] # <<>> => Behind(SelectedAttempt(s))
  PROVE  /\ AttemptTypes' /\ EarlierInv' /\ BegunTrials' = BegunTrials \union (Trials \cap T)
         /\ \A s \in Trials : s \notin T => attempts'[s] = attempts[s]
         /\ \A s \in Trials \cap T : SelectedAttempt(s)' = QueuedAttempt /\ attempts'[s] # <<>>
<1>1. QueuedAttempt \in TrialAttempt
  BY DEF QueuedAttempt, TrialAttempt
<1>2. ASSUME NEW s \in Trials, s \notin T PROVE attempts'[s] = attempts[s]
  BY <1>2
<1>3. ASSUME NEW s \in Trials, s \in T
      PROVE  /\ attempts'[s] = Append(attempts[s], QueuedAttempt) /\ attempts'[s] \in Seq(TrialAttempt)
             /\ attempts'[s] # <<>> /\ SelectedAttempt(s)' = QueuedAttempt /\ Len(attempts'[s]) <= MaxAttempts
             /\ \A n \in 1 .. Len(attempts'[s]) - 1 : Behind(attempts'[s][n])
  <2> DEFINE q == attempts[s]
             e == Append(q, QueuedAttempt)
  <2>1. attempts'[s] = e /\ q \in Seq(TrialAttempt)
    BY <1>3 DEF AttemptTypes
  <2>2. Len(q) < MaxAttempts /\ (q # <<>> => Behind(SelectedAttempt(s))) /\ MaxAttempts \in Nat
    BY <1>3, EvaluationAssumption
  <2>3. SelectedAttempt(s) = q[Len(q)] /\ \A n \in 1 .. Len(q) - 1 : Behind(q[n])
    BY <1>3 DEF SelectedAttempt, Last, EarlierInv
  <2> HIDE DEF q
  <2>4. /\ e \in Seq(TrialAttempt) /\ Len(e) = Len(q) + 1 /\ Len(q) \in Nat /\ e[Len(q) + 1] = QueuedAttempt
        /\ \A n \in 1 .. Len(q) : e[n] = q[n]
    BY <1>1, <2>1
  <2> HIDE DEF e
  <2>5. e # <<>> /\ e[Len(e)] = QueuedAttempt /\ Len(e) <= MaxAttempts
    BY <2>2, <2>4
  <2>6. ASSUME NEW n \in 1 .. Len(e) - 1 PROVE Behind(e[n])
    <3>1. n \in 1 .. Len(q) /\ e[n] = q[n]
      BY <2>4
    <3>2. CASE n = Len(q)
      <4>1. q # <<>>
        BY <2>1, <3>1
      <4> QED
        BY <2>2, <2>3, <3>1, <3>2, <4>1
    <3>3. CASE n # Len(q)
      <4>1. n \in 1 .. Len(q) - 1
        BY <2>4, <3>1, <3>3
      <4> QED
        BY <2>3, <3>1, <4>1
    <3> QED
      BY <3>2, <3>3
  <2> QED
    BY <2>1, <2>4, <2>5, <2>6 DEF SelectedAttempt, Last, e, q
<1>4. AttemptTypes'
  BY <1>2, <1>3 DEF AttemptTypes
<1>5. EarlierInv'
  BY <1>2, <1>3 DEF EarlierInv
<1>6. BegunTrials' = BegunTrials \union (Trials \cap T)
  BY <1>2, <1>3 DEF BegunTrials
<1> QED
  BY <1>2, <1>3, <1>4, <1>5, <1>6

\* A queue of trials that have begun with more of them at its end.
LEMMA QueueGrows ==
  ASSUME PendingInv, BegunTrials \subseteq BegunTrials', NEW more \in Seq(BegunTrials')
  PROVE  pending \o more \in Seq(BegunTrials')
<1>1. pending \in Seq(BegunTrials')
  BY DEF PendingInv
<1> QED
  BY <1>1

\* A new attempt of a trial, and of all trials of a run, keeps the invariant.
LEMMA BeginKeeps ==
  ASSUME EvalInv, NEW r \in Runs, StartTrials(r) \/ \E t \in Trials : RunOf(t) = r /\ RetryTrial(t)
  PROVE  EvalInv'
<1>1. AttemptTypes /\ RunTypes /\ ExecutorTypes /\ EarlierInv /\ ExecutorInv /\ ResourcesInv /\ PendingInv /\ RunsInv
  BY DEF EvalInv, EvalTypes
<1>2. RunInv(r) /\ MaxAttempts \in Nat /\ 0 < MaxAttempts
  BY <1>1, EvaluationAssumption DEF RunsInv
<1>3. PICK T \in SUBSET TrialsOf(r) :
        /\ attempts' = [s \in Trials |-> IF s \in T THEN Append(attempts[s], QueuedAttempt) ELSE attempts[s]]
        /\ \A s \in Trials \cap T : /\ Len(attempts[s]) < MaxAttempts
                                    /\ attempts[s] # <<>> => Behind(SelectedAttempt(s))
        /\ \E more \in Seq(T) : pending' = pending \o more
        /\ \/ runState[r] = "created" /\ T = TrialsOf(r)
           \/ runState[r] \notin {"none", "created", "indeterminate"}
        /\ Begun(r) \/ T = TrialsOf(r)
  <2>1. CASE StartTrials(r)
    <3> DEFINE T == TrialsOf(r)
               more == [k \in 1 .. Repeats |-> <<r, k>>]
    <3>1. /\ runState[r] = "created" /\ pending' = pending \o more
          /\ attempts' = [s \in Trials |-> IF s \in T THEN Append(attempts[s], QueuedAttempt) ELSE attempts[s]]
      BY <2>1 DEF StartTrials, TrialsOf
    <3>2. \A s \in Trials \cap T : attempts[s] = <<>> /\ Len(attempts[s]) < MaxAttempts
      BY <1>2, <3>1 DEF RunInv, Unbegun
    <3>3. more \in Seq(T)
      <4>1. \A k \in 1 .. Repeats : <<r, k>> \in T
        BY DEF TrialsOf, Trials, RunOf
      <4>2. Repeats \in Nat
        BY EvaluationAssumption
      <4> QED
        BY <4>1, <4>2
    <3> HIDE DEF T, more
    <3>4. T = TrialsOf(r)
      BY DEF T
    <3> QED
      BY <3>1, <3>2, <3>3, <3>4
  <2>2. CASE \E t \in Trials : RunOf(t) = r /\ RetryTrial(t)
    <3>1. PICK t \in Trials : RunOf(t) = r /\ RetryTrial(t)
      BY <2>2
    <3>2. /\ runState[r] \notin {"cancel_requested", "cancelled", "indeterminate"} /\ attempts[t] # <<>>
          /\ Behind(SelectedAttempt(t)) /\ Len(attempts[t]) < MaxAttempts
          /\ attempts' = [attempts EXCEPT ![t] = Append(attempts[t], QueuedAttempt)]
          /\ pending' = Append(pending, t)
      BY <3>1 DEF RetryTrial, MayRetry, Behind
    <3> DEFINE T == {t}
    <3>3. t \in TrialsOf(r)
      BY <3>1, TrialIs
    <3>4. T \in SUBSET TrialsOf(r) /\ <<t>> \in Seq(T) /\ t \in T
      BY <3>3
    <3>5. pending' = pending \o <<t>>
      BY <1>1, <3>2 DEF PendingInv
    <3>6. attempts' = [s \in Trials |-> IF s \in T THEN Append(attempts[s], QueuedAttempt) ELSE attempts[s]]
      BY <1>1, <3>2 DEF AttemptTypes
    <3>7. \A s \in Trials \cap T : Len(attempts[s]) < MaxAttempts /\ Behind(SelectedAttempt(s))
      BY <3>2
    <3>8. ~Unbegun(r)
      BY <3>2, <3>3 DEF Unbegun
    <3>9. runState[r] \notin {"none", "created"}
      BY <1>2, <3>8 DEF RunInv
    <3>10. Begun(r)
      BY <1>1, <1>2, <3>2, <3>9 DEF RunInv, RunTypes, LiveStates, OverStates
    <3> HIDE DEF T
    <3> QED
      BY <3>2, <3>4, <3>5, <3>6, <3>7, <3>9, <3>10
  <2> QED
    BY <2>1, <2>2
<1>4. /\ runState' = [runState EXCEPT ![r] = "queued"]
      /\ executor' = executor /\ resources' = resources /\ askedToStop' = askedToStop
  BY DEF StartTrials, RetryTrial
<1>5. /\ AttemptTypes' /\ EarlierInv' /\ BegunTrials' = BegunTrials \union (Trials \cap T)
      /\ \A s \in Trials : s \notin T => attempts'[s] = attempts[s]
      /\ \A s \in Trials \cap T : SelectedAttempt(s)' = QueuedAttempt /\ attempts'[s] # <<>>
  BY <1>1, <1>3, Appended
<1>6. T \subseteq Trials
  BY DEF TrialsOf
<1>7. PendingInv'
  <2>1. PICK more \in Seq(T) : pending' = pending \o more
    BY <1>3
  <2>2. more \in Seq(BegunTrials')
    BY <1>5, <1>6
  <2> QED
    BY <1>1, <1>5, <2>1, <2>2, QueueGrows DEF PendingInv
<1>8. ExecutorTypes' /\ ExecutorInv' /\ ResourcesInv'
  <2>1. ASSUME NEW s \in Trials \cap T, attempts[s] # <<>> PROVE SelectedAttempt(s).work = "finished"
    BY <1>3, <2>1 DEF Behind
  <2>2. executor.at # "idle" => executor.trial \notin T
    BY <1>1, <2>1 DEF ExecutorInv
  <2> QED
    BY <1>1, <1>4, <1>5, <2>1, <2>2, OthersFollow
<1>9. RunTypes' /\ runState'[r] = "queued"
  BY <1>1, <1>4 DEF RunTypes, LiveStates
<1>10. RunInv(r)'
  <2>1. "reconciling" \notin WorkOf(attempts, r)
    BY <1>2, <1>3 DEF RunInv, Tells
  <2>2. QueuedAttempt.work # "reconciling"
    BY DEF QueuedAttempt
  <2>3. "reconciling" \notin WorkOf(attempts, r)'
    BY <1>5, <2>1, <2>2, NoDoubt
  <2>4. Begun(r)'
    BY <1>3, <1>5 DEF Begun, TrialsOf
  <2>5. Tells(runState[r], attempts, r)'
    BY <1>9, <2>3 DEF Tells, OverStates
  <2> QED
    BY <1>9, <2>4, <2>5 DEF RunInv
<1>11. ASSUME NEW p \in Runs, p # r PROVE RunInv(p)'
  <2>1. \A q \in TrialsOf(p) : q \in Trials /\ q \notin T
    BY <1>3, <1>11 DEF TrialsOf
  <2>2. \A q \in TrialsOf(p) : attempts'[q] = attempts[q]
    BY <2>1, <1>5
  <2>3. runState'[p] = runState[p] /\ askedToStop \subseteq askedToStop'
    BY <1>1, <1>4, <1>11 DEF RunTypes
  <2> QED
    BY <1>1, <2>2, <2>3, RunUntouched DEF RunsInv
<1> QED
  BY <1>5, <1>7, <1>8, <1>9, <1>10, <1>11 DEF EvalInv, EvalTypes, RunsInv

\* A claim finds nothing on the host and begins an attempt, or ends it at once.
LEMMA ClaimKeeps ==
  ASSUME EvalInv, NEW t \in Trials, Claim(t) \/ ClaimExhausted(t)
  PROVE  EvalInv'
<1>1. AttemptTypes /\ RunTypes /\ ExecutorTypes /\ EarlierInv /\ ExecutorInv /\ ResourcesInv /\ PendingInv /\ RunsInv
  BY DEF EvalInv, EvalTypes
<1>2. Claimable(t) /\ pending' = Tail(pending) /\ resources' = resources /\ askedToStop' = askedToStop
  BY DEF Claim, ClaimExhausted
<1>3. pending # <<>> /\ Head(pending) = t /\ runState[RunOf(t)] \in {"queued", "running"} /\ WorkerFree
  BY <1>2 DEF Claimable
<1>4. resources = {} /\ executor.at = "idle"
  BY <1>1, <1>3, FreeHost
<1>5. t \in BegunTrials /\ attempts[t] # <<>>
  <2>1. pending \in Seq(BegunTrials)
    BY <1>1 DEF PendingInv
  <2>2. Head(pending) \in BegunTrials
    BY <1>3, <2>1
  <2> QED
    BY <1>3, <2>2 DEF BegunTrials
<1>6. SelectedAttempt(t) \in TrialAttempt /\ RunOf(t) \in Runs
  BY <1>1, <1>5, SelectedIs, TrialIs
<1>7. CASE Claim(t)
  <2> DEFINE facts == [work |-> "running", execution |-> "running"]
             sel == SelectedAttempt(t)
             u == WithFacts(sel, facts)
  <2>1. u \in TrialAttempt /\ u.work = "running"
    <3> HIDE DEF sel
    <3>1. sel \in TrialAttempt
      BY <1>6 DEF sel
    <3>2. u = [work |-> "running", execution |-> "running", origin |-> sel.origin, cleanup |-> sel.cleanup,
               grade |-> sel.grade, authoritative |-> sel.authoritative, exhausted |-> sel.exhausted]
      BY <3>1, AttemptFactsAre
    <3> QED
      BY <3>1, <3>2 DEF TrialAttempt
  <2>2. /\ attempts' = UpdateAttempt(t, facts) /\ runState' = [runState EXCEPT ![RunOf(t)] = "running"]
        /\ executor' = [NotExecuting EXCEPT !.trial = t, !.at = "preparing"]
    BY <1>7 DEF Claim
  <2> HIDE DEF facts, u
  <2>3. u = WithFacts(SelectedAttempt(t), facts)
    BY DEF u
  <2>4. /\ AttemptTypes' /\ EarlierInv' /\ BegunTrials' = BegunTrials
        /\ \A s \in Trials : s # t => attempts'[s] = attempts[s]
        /\ SelectedAttempt(t)' = u /\ attempts'[t] # <<>>
    BY <1>1, <1>5, <2>1, <2>2, <2>3, Updated
  <2>5. executor'.at = "preparing" /\ executor'.trial = t /\ ExecutorTypes'
    BY <2>2 DEF ExecutorTypes, NotExecuting
  <2>6. SelectedAttempt(executor.trial)' = SelectedAttempt(t)'
    BY <2>5
  <2>7. ExecutorInv'
    BY <2>1, <2>4, <2>5, <2>6 DEF ExecutorInv
  <2>8. ResourcesInv'
    BY <1>2, <1>4 DEF ResourcesInv
  <2>9. PendingInv'
    BY <1>1, <1>2, <1>3, <2>4, EvalQueueKept
  <2>10. RunTypes' /\ runState'[RunOf(t)] = "running"
    BY <1>1, <1>6, <2>2 DEF RunTypes, LiveStates
  <2>11. RunInv(RunOf(t))'
    <3> DEFINE r == RunOf(t)
               T == {t}
    <3>1. RunInv(r) /\ runState[r] \in LiveStates /\ runState[r] # "indeterminate"
      BY <1>1, <1>3, <1>6 DEF RunsInv, LiveStates
    <3>2. /\ \A q \in Trials : q \notin T => attempts'[q] = attempts[q]
          /\ \A q \in Trials \cap T : SelectedAttempt(q)'.work # "reconciling"
      BY <2>1, <2>4
    <3>3. Begun(r)'
      BY <2>4, <3>1 DEF RunInv, Begun, TrialsOf
    <3> HIDE DEF T
    <3>4. "reconciling" \notin WorkOf(attempts, r)'
      BY <2>4, <3>1, <3>2, NoDoubt DEF RunInv, Tells
    <3> QED
      BY <2>10, <3>3, <3>4 DEF RunInv, Tells, OverStates
  <2>12. ASSUME NEW p \in Runs, p # RunOf(t) PROVE RunInv(p)'
    <3>1. \A q \in TrialsOf(p) : attempts'[q] = attempts[q]
      BY <2>4, <2>12 DEF TrialsOf
    <3>2. runState'[p] = runState[p] /\ askedToStop \subseteq askedToStop'
      BY <1>1, <1>2, <2>2, <2>12 DEF RunTypes
    <3> QED
      BY <1>1, <3>1, <3>2, RunUntouched DEF RunsInv
  <2> QED
    BY <2>4, <2>5, <2>7, <2>8, <2>9, <2>10, <2>11, <2>12 DEF EvalInv, EvalTypes, RunsInv
<1>8. CASE ClaimExhausted(t)
  <2> DEFINE facts == CancelledInQueue(SelectedAttempt(t))
             u == WithFacts(SelectedAttempt(t), facts)
  <2>1. facts \in TrialAttempt
    BY <1>6 DEF CancelledInQueue, TrialAttempt
  <2>2. SettleRun(t, facts, runState[RunOf(t)]) /\ executor' = executor
    BY <1>8 DEF ClaimExhausted
  <2> HIDE DEF facts
  <2>3. u = facts /\ u \in TrialAttempt
    BY <1>6, <2>1, AttemptFactsAre
  <2> HIDE DEF u
  <2>4. attempts' = UpdateAttempt(t, facts) /\ u = WithFacts(SelectedAttempt(t), facts)
    BY <2>2 DEF SettleRun, u
  <2>5. AttemptTypes' /\ EarlierInv' /\ BegunTrials' = BegunTrials
    BY <1>1, <1>5, <2>3, <2>4, Updated
  <2>6. runState[RunOf(t)] \in LiveStates
    BY <1>3 DEF LiveStates
  <2>7. RunTypes' /\ RunsInv'
    BY <1>1, <1>2, <1>5, <2>2, <2>3, <2>4, <2>6, RunSettles
  <2>8. ExecutorTypes' /\ ExecutorInv' /\ ResourcesInv'
    BY <1>1, <1>2, <1>4, <2>2 DEF ExecutorTypes, ExecutorInv, ResourcesInv
  <2>9. PendingInv'
    BY <1>1, <1>2, <1>3, <2>5, EvalQueueKept
  <2> QED
    BY <2>5, <2>7, <2>8, <2>9 DEF EvalInv, EvalTypes
<1> QED
  BY <1>7, <1>8

\* Requests about tickets, a run that is created and resources that end keep the invariant.
LEMMA RequestKeeps ==
  ASSUME EvalInv,
         Validate \/ TicketExpires \/ (\E r \in Runs : CreateRun(r)) \/ (\E a \in resources : ResourcesEnd(a))
           \/ UNCHANGED eval_vars
  PROVE  EvalInv'
<1>1. AttemptTypes /\ RunTypes /\ ExecutorTypes /\ EarlierInv /\ ExecutorInv /\ ResourcesInv /\ PendingInv /\ RunsInv
  BY DEF EvalInv, EvalTypes
<1>2. /\ attempts' = attempts /\ pending' = pending /\ executor' = executor /\ askedToStop' = askedToStop
      /\ resources' \subseteq resources
      /\ runState' = runState \/ \E r \in Runs : runState[r] = "none" /\ runState' = [runState EXCEPT ![r] = "created"]
  BY DEF Validate, TicketExpires, CreateRun, ResourcesEnd, eval_vars
<1>3. AttemptTypes' /\ ExecutorTypes' /\ EarlierInv' /\ PendingInv'
  BY <1>1, <1>2 DEF AttemptTypes, ExecutorTypes, EarlierInv, PendingInv, BegunTrials
<1>4. ExecutorInv'
  <2>1. SelectedAttempt(executor.trial)' = SelectedAttempt(executor.trial)
        /\ AttemptId(executor.trial)' = AttemptId(executor.trial)
    BY <1>2 DEF SelectedAttempt, AttemptId
  <2> QED
    BY <1>1, <1>2, <2>1 DEF ExecutorInv
<1>5. ResourcesInv'
  <2>1. AttemptId(executor.trial)' = AttemptId(executor.trial)
    BY <1>2 DEF AttemptId
  <2>2. \A a \in resources' : Known(a)'
    BY <1>1, <1>2, <2>1 DEF ResourcesInv, Known
  <2> QED
    BY <1>1, <1>2, <2>1, <2>2 DEF ResourcesInv
<1>6. CASE runState' = runState
  <2>1. RunTypes' /\ RunsInv'
    BY <1>1, <1>2, <1>6, RunUntouched DEF RunTypes, RunsInv
  <2> QED
    BY <1>3, <1>4, <1>5, <2>1 DEF EvalInv, EvalTypes
<1>7. CASE \E r \in Runs : runState[r] = "none" /\ runState' = [runState EXCEPT ![r] = "created"]
  <2>1. PICK r \in Runs : runState[r] = "none" /\ runState' = [runState EXCEPT ![r] = "created"]
    BY <1>7
  <2>2. RunTypes' /\ runState'[r] = "created" /\ \A p \in Runs : p # r => runState'[p] = runState[p]
    BY <1>1, <2>1 DEF RunTypes
  <2>3. RunInv(r) /\ Unbegun(r)
    BY <1>1, <2>1 DEF RunsInv, RunInv
  <2>4. RunInv(r)'
    <3>1. Unbegun(r)'
      BY <1>2, <2>3 DEF Unbegun
    <3>2. "reconciling" \notin WorkOf(attempts, r)'
      BY <1>2, <2>3 DEF WorkOf, Unbegun
    <3> QED
      BY <2>2, <3>1, <3>2 DEF RunInv, Tells, LiveStates, OverStates
  <2>5. ASSUME NEW p \in Runs, p # r PROVE RunInv(p)'
    BY <1>1, <1>2, <2>2, <2>5, RunUntouched DEF RunsInv
  <2> QED
    BY <1>3, <1>4, <1>5, <2>2, <2>4, <2>5 DEF EvalInv, EvalTypes, RunsInv
<1> QED
  BY <1>2, <1>6, <1>7

\* Attempts change in place, and those that trials have behind them do not change.
LEMMA InPlace ==
  ASSUME AttemptTypes, EarlierInv, NEW table,
         attempts' = [s \in Trials |-> [n \in DOMAIN attempts[s] |-> table[s][n]]],
         \A s \in Trials : \A n \in DOMAIN attempts[s] :
           table[s][n] \in TrialAttempt /\ (Behind(attempts[s][n]) => table[s][n] = attempts[s][n])
  PROVE  /\ AttemptTypes' /\ EarlierInv' /\ BegunTrials' = BegunTrials
         /\ \A s \in Trials : AttemptId(s)' = AttemptId(s) /\ DOMAIN attempts'[s] = DOMAIN attempts[s]
         /\ \A s \in Trials : \A n \in DOMAIN attempts[s] : attempts'[s][n] = table[s][n]
         /\ \A s \in Trials : attempts[s] # <<>> =>
              attempts'[s] # <<>> /\ SelectedAttempt(s)' = table[s][Len(attempts[s])]
<1>1. ASSUME NEW s \in Trials
      PROVE  /\ attempts'[s] \in Seq(TrialAttempt) /\ Len(attempts'[s]) = Len(attempts[s])
             /\ DOMAIN attempts'[s] = DOMAIN attempts[s] /\ DOMAIN attempts[s] = 1 .. Len(attempts[s])
             /\ Len(attempts[s]) \in Nat
             /\ \A n \in DOMAIN attempts[s] : attempts'[s][n] = table[s][n]
             /\ attempts[s] # <<>> => Len(attempts[s]) \in DOMAIN attempts[s]
  <2>1. attempts[s] \in Seq(TrialAttempt)
    BY DEF AttemptTypes
  <2>2. attempts'[s] = [n \in DOMAIN attempts[s] |-> table[s][n]]
    OBVIOUS
  <2>3. PICK k \in Nat : k = Len(attempts[s]) /\ DOMAIN attempts[s] = 1 .. k
    BY <2>1
  <2>4. attempts'[s] = [n \in 1 .. k |-> table[s][n]] /\ \A n \in 1 .. k : table[s][n] \in TrialAttempt
    BY <2>2, <2>3
  <2>5. attempts'[s] \in Seq(TrialAttempt) /\ DOMAIN attempts'[s] = 1 .. k /\ \A n \in 1 .. k : attempts'[s][n] = table[s][n]
    BY <2>4
  <2>6. Len(attempts'[s]) = k
    BY <2>3, <2>5
  <2>7. attempts[s] # <<>> => k \in 1 .. k
    BY <2>1, <2>3
  <2> QED
    BY <2>3, <2>5, <2>6, <2>7
<1>2. AttemptTypes'
  BY <1>1 DEF AttemptTypes
<1>3. EarlierInv'
  <2> SUFFICES ASSUME NEW s \in Trials
      PROVE  /\ Len(attempts'[s]) <= MaxAttempts
             /\ \A n \in 1 .. Len(attempts'[s]) - 1 : Behind(attempts'[s][n])
    BY DEF EarlierInv
  <2>1. Len(attempts[s]) <= MaxAttempts /\ \A n \in 1 .. Len(attempts[s]) - 1 : Behind(attempts[s][n])
    BY DEF EarlierInv
  <2>2. PICK k \in Nat : k = Len(attempts[s]) /\ k = Len(attempts'[s])
    BY <1>1
  <2>3. ASSUME NEW n \in 1 .. k - 1 PROVE Behind(attempts'[s][n])
    <3>1. n \in 1 .. k /\ n \in DOMAIN attempts[s] /\ Behind(attempts[s][n])
      BY <1>1, <2>1, <2>2
    <3>2. attempts'[s][n] = attempts[s][n]
      BY <1>1, <3>1
    <3> QED
      BY <3>1, <3>2
  <2> QED
    BY <2>1, <2>2, <2>3
<1>4. ASSUME NEW s \in Trials, attempts[s] # <<>> PROVE attempts'[s] # <<>>
  BY <1>1, <1>4
<1>5. ASSUME NEW s \in Trials, attempts'[s] # <<>> PROVE attempts[s] # <<>>
  BY <1>1, <1>5
<1>6. BegunTrials' = BegunTrials
  BY <1>4, <1>5 DEF BegunTrials
<1>7. \A s \in Trials : AttemptId(s)' = AttemptId(s)
  BY <1>1 DEF AttemptId
<1>8. ASSUME NEW s \in Trials, attempts[s] # <<>> PROVE SelectedAttempt(s)' = table[s][Len(attempts[s])]
  BY <1>1, <1>8 DEF SelectedAttempt, Last
<1> QED
  BY <1>1, <1>2, <1>3, <1>4, <1>6, <1>7, <1>8

\* left filters the trials of a run from a list.
Filters(list, r, left) ==
  left = [i \in 0 .. Len(list) |->
            IF i = 0 THEN <<>>
            ELSE IF RunOf(list[i]) = r THEN left[i - 1] ELSE Append(left[i - 1], list[i])]

\* What is left of a queue is a queue of the same.
LEMMA WithoutRunIs ==
  ASSUME NEW S, NEW list \in Seq(S), NEW r
  PROVE  WithoutRun(list, r) \in Seq(S)
<1> DEFINE g == [x \in Seq(S) \X S |-> IF RunOf(x[2]) = r THEN x[1] ELSE Append(x[1], x[2])]
<1>1. g \in [Seq(S) \X S -> Seq(S)]
  OBVIOUS
<1>2. <<>> \in Seq(S) /\ Len(list) \in Nat
  OBVIOUS
<1>3. PICK f \in [0 .. Len(list) -> Seq(S)] : IsFold(f, <<>>, g, list)
  BY <1>1, <1>2, FoldExists
<1>4. ASSUME NEW i \in 0 .. Len(list)
      PROVE  f[i] = IF i = 0 THEN <<>>
                    ELSE IF RunOf(list[i]) = r THEN f[i - 1] ELSE Append(f[i - 1], list[i])
  <2>1. CASE i = 0
    BY <1>3, <2>1 DEF IsFold
  <2>2. CASE i # 0
    <3>1. i \in 1 .. Len(list) /\ i - 1 \in 0 .. Len(list)
      BY <2>2, <1>2
    <3>2. f[i - 1] \in Seq(S) /\ list[i] \in S
      BY <3>1, <1>3
    <3>3. f[i] = g[<<f[i - 1], list[i]>>]
      BY <3>1, <1>3 DEF IsFold
    <3> QED
      BY <2>2, <3>2, <3>3
  <2> QED
    BY <2>1, <2>2
<1>5. Filters(list, r, f)
  BY <1>3, <1>4 DEF Filters
<1>6. ASSUME NEW k, Filters(list, r, k) PROVE k = f
  <2>1. k = [i \in 0 .. Len(list) |-> k[i]] /\ f = [i \in 0 .. Len(list) |-> f[i]]
    BY <1>6, <1>3 DEF Filters
  <2>2. k[0] = f[0]
    BY <1>2, <1>4, <1>6 DEF Filters
  <2>3. ASSUME NEW i \in 1 .. Len(list), f[i - 1] = k[i - 1] PROVE f[i] = k[i]
    <3>1. i \in 0 .. Len(list) /\ i # 0
      BY <1>2
    <3> QED
      BY <1>4, <1>6, <2>3, <3>1 DEF Filters
  <2> QED
    BY <1>2, <2>1, <2>2, <2>3, OneFunction
<1>7. f = CHOOSE k : Filters(list, r, k)
  BY <1>5, <1>6
<1>8. WithoutRun(list, r) = f[Len(list)]
  BY <1>7 DEF WithoutRun, Filters
<1> QED
  BY <1>2, <1>3, <1>8

\* A cancelled attempt stays what it was, or is over, or is asked to end.
LEMMA CancelAttemptIs ==
  ASSUME NEW a \in TrialAttempt
  PROVE  /\ CancelAttempt(a) \in TrialAttempt /\ (Behind(a) => CancelAttempt(a) = a)
         /\ a.work = "reconciling" => CancelAttempt(a) = a
         /\ a.work \in {"running", "cancel_requested"} => CancelAttempt(a).work \in {"running", "cancel_requested"}
  BY DEF CancelAttempt, CancelledInQueue, TrialAttempt, Behind

\* The attempts that are executed, and what stands on the host, follow a change in place.
LEMMA InPlaceKeeps ==
  ASSUME EvalTypes, EarlierInv, ExecutorInv, ResourcesInv, NEW table,
         attempts' = [s \in Trials |-> [n \in DOMAIN attempts[s] |-> table[s][n]]],
         \A s \in Trials : \A n \in DOMAIN attempts[s] :
           /\ table[s][n] \in TrialAttempt /\ (Behind(attempts[s][n]) => table[s][n] = attempts[s][n])
           /\ attempts[s][n].work = "reconciling" => table[s][n].work = "reconciling"
           /\ attempts[s][n].work \in {"running", "cancel_requested"} =>
                IF executor'.at = "idle" THEN table[s][n].work = "reconciling"
                ELSE table[s][n].work \in {"running", "cancel_requested"},
         resources' = resources, ExecutorTypes',
         executor'.at # "idle" => /\ executor'.at = executor.at /\ executor'.trial = executor.trial
                                  /\ executor'.result = executor.result
  PROVE  ExecutorInv' /\ ResourcesInv'
<1>1. AttemptTypes
  BY DEF EvalTypes
<1>2. /\ AttemptTypes' /\ EarlierInv'
      /\ \A s \in Trials : AttemptId(s)' = AttemptId(s)
      /\ \A s \in Trials : attempts[s] # <<>> =>
           attempts'[s] # <<>> /\ SelectedAttempt(s)' = table[s][Len(attempts[s])]
  BY <1>1, InPlace
<1>3. ASSUME NEW s \in Trials, attempts[s] # <<>>
      PROVE  /\ SelectedAttempt(s).work = "reconciling" => SelectedAttempt(s)'.work = "reconciling"
             /\ SelectedAttempt(s).work \in {"running", "cancel_requested"} =>
                  IF executor'.at = "idle" THEN SelectedAttempt(s)'.work = "reconciling"
                  ELSE SelectedAttempt(s)'.work \in {"running", "cancel_requested"}
  <2>1. SelectedAttempt(s) = attempts[s][Len(attempts[s])] /\ Len(attempts[s]) \in DOMAIN attempts[s]
    BY <1>1, <1>3, SelectedIs
  <2>2. SelectedAttempt(s)' = table[s][Len(attempts[s])]
    BY <1>2, <1>3
  <2> QED
    BY <2>1, <2>2
<1>4. ASSUME executor'.at # "idle"
      PROVE  ExecutorInv' /\ resources' \subseteq {AttemptId(executor.trial)'}
  <2>1. PICK s \in Trials : /\ s = executor.trial /\ attempts[s] # <<>>
                            /\ SelectedAttempt(s).work \in {"running", "cancel_requested"}
    BY <1>4 DEF ExecutorInv
  <2>2. attempts'[s] # <<>> /\ AttemptId(s)' = AttemptId(s) /\ SelectedAttempt(s)'.work \in {"running", "cancel_requested"}
    BY <1>2, <1>3, <1>4, <2>1
  <2>3. SelectedAttempt(executor.trial)' = SelectedAttempt(s)' /\ AttemptId(executor.trial)' = AttemptId(s)'
    BY <1>4, <2>1
  <2> QED
    BY <1>4, <2>1, <2>2, <2>3 DEF ExecutorInv, ResourcesInv
<1>5. ASSUME NEW a \in resources'
      PROVE  /\ a[1] \in Trials /\ attempts'[a[1]] # <<>> /\ a = AttemptId(a[1])'
             /\ \/ SelectedAttempt(a[1])'.work = "reconciling"
                \/ executor'.at \in {"running", "graded"} /\ a[1] = executor'.trial
  <2>1. Known(a)
    BY <1>5 DEF ResourcesInv
  <2>2. /\ a[1] \in Trials /\ attempts[a[1]] # <<>> /\ a = AttemptId(a[1])
        /\ \/ SelectedAttempt(a[1]).work = "reconciling"
           \/ executor.at \in {"running", "graded"} /\ a[1] = executor.trial
    BY <1>1, <2>1, ResourceIs
  <2>3. attempts'[a[1]] # <<>> /\ a = AttemptId(a[1])'
    BY <1>2, <2>2
  <2>4. CASE SelectedAttempt(a[1]).work = "reconciling"
    BY <1>3, <2>2, <2>3, <2>4
  <2>5. CASE executor.at \in {"running", "graded"} /\ a[1] = executor.trial
    <3>1. SelectedAttempt(a[1]).work \in {"running", "cancel_requested"}
      BY <2>2, <2>5 DEF ExecutorInv
    <3> QED
      BY <1>3, <2>2, <2>3, <2>5, <3>1
  <2> QED
    BY <2>2, <2>4, <2>5
<1>6. executor'.at # "idle" => resources' \subseteq {AttemptId(executor.trial)'}
  BY <1>4
<1>7. ResourcesInv'
  BY <1>2, <1>5, <1>6, ResourcesFollow
<1> QED
  BY <1>4, <1>7 DEF ExecutorInv

\* Cancellation keeps the invariant.
LEMMA CancelKeeps ==
  ASSUME EvalInv, NEW r \in Runs, CancelRun(r)
  PROVE  EvalInv'
<1>1. AttemptTypes /\ RunTypes /\ ExecutorTypes /\ EarlierInv /\ ExecutorInv /\ ResourcesInv /\ PendingInv /\ RunsInv
      /\ EvalTypes
  BY DEF EvalInv, EvalTypes
<1> DEFINE table == [t \in Trials |->
                       IF RunOf(t) = r THEN [n \in DOMAIN attempts[t] |-> CancelAttempt(attempts[t][n])]
                       ELSE attempts[t]]
           state == SettledRun(table, r, "cancel_requested")
<1>2. /\ runState[r] \notin {"none", "completed", "failed", "cancelled"} /\ attempts' = table
      /\ pending' = WithoutRun(pending, r) /\ runState' = [runState EXCEPT ![r] = state]
      /\ executor' = IF RunOf(executor.trial) = r THEN [executor EXCEPT !.cancelled = TRUE] ELSE executor
      /\ askedToStop' = askedToStop \cup {r} /\ resources' = resources
  BY DEF CancelRun
<1>3. ASSUME NEW s \in Trials, NEW n \in DOMAIN attempts[s] PROVE attempts[s][n] \in TrialAttempt
  BY <1>1, <1>3 DEF AttemptTypes
<1>4. \A s \in Trials : attempts[s] = [n \in DOMAIN attempts[s] |-> attempts[s][n]]
  BY <1>1 DEF AttemptTypes
<1>5. table = [s \in Trials |-> [n \in DOMAIN attempts[s] |-> table[s][n]]]
  BY <1>4
<1>6. ASSUME NEW s \in Trials, NEW n \in DOMAIN attempts[s]
      PROVE  /\ table[s][n] \in TrialAttempt /\ (Behind(attempts[s][n]) => table[s][n] = attempts[s][n])
             /\ attempts[s][n].work = "reconciling" => table[s][n].work = "reconciling"
             /\ attempts[s][n].work \in {"running", "cancel_requested"} => table[s][n].work \in {"running", "cancel_requested"}
  <2>1. attempts[s][n] \in TrialAttempt
    BY <1>3
  <2>2. table[s][n] = IF RunOf(s) = r THEN CancelAttempt(attempts[s][n]) ELSE attempts[s][n]
    OBVIOUS
  <2> HIDE DEF table
  <2> QED
    BY <2>1, <2>2, CancelAttemptIs
<1>7. \A s \in Trials : RunOf(s) # r => table[s] = attempts[s]
  OBVIOUS
<1> HIDE DEF table, state
<1>8. ExecutorTypes' /\ executor'.at = executor.at /\ executor'.trial = executor.trial /\ executor'.result = executor.result
  BY <1>1, <1>2 DEF ExecutorTypes
<1>0. PICK tb : /\ tb = table
                /\ attempts' = [s \in Trials |-> [n \in DOMAIN attempts[s] |-> tb[s][n]]]
                /\ \A s \in Trials : \A n \in DOMAIN attempts[s] :
                     /\ tb[s][n] \in TrialAttempt /\ (Behind(attempts[s][n]) => tb[s][n] = attempts[s][n])
                     /\ attempts[s][n].work = "reconciling" => tb[s][n].work = "reconciling"
                     /\ attempts[s][n].work \in {"running", "cancel_requested"} =>
                          tb[s][n].work \in {"running", "cancel_requested"}
  BY <1>2, <1>5, <1>6
<1>9. /\ AttemptTypes' /\ EarlierInv' /\ BegunTrials' = BegunTrials
      /\ \A s \in Trials : attempts[s] # <<>> => attempts'[s] # <<>>
  BY <1>0, <1>1, InPlace
<1>10. ExecutorInv' /\ ResourcesInv'
  <2>1. CASE executor.at # "idle"
    BY <1>0, <1>1, <1>2, <1>8, <2>1, InPlaceKeeps
  <2>2. CASE executor.at = "idle"
    <3>1. ExecutorInv'
      BY <1>8, <2>2 DEF ExecutorInv
    <3>2. \A s \in Trials : /\ AttemptId(s)' = AttemptId(s)
                            /\ attempts[s] # <<>> => SelectedAttempt(s)' = tb[s][Len(attempts[s])]
      BY <1>0, <1>1, InPlace
    <3>3. ASSUME NEW a \in resources'
          PROVE  /\ a[1] \in Trials /\ attempts'[a[1]] # <<>> /\ a = AttemptId(a[1])'
                 /\ SelectedAttempt(a[1])'.work = "reconciling"
      <4>1. Known(a)
        BY <1>1, <1>2, <3>3 DEF ResourcesInv
      <4>2. a[1] \in Trials /\ attempts[a[1]] # <<>> /\ a = AttemptId(a[1]) /\ SelectedAttempt(a[1]).work = "reconciling"
        BY <1>1, <2>2, <4>1, ResourceIs
      <4>3. SelectedAttempt(a[1]) = attempts[a[1]][Len(attempts[a[1]])] /\ Len(attempts[a[1]]) \in DOMAIN attempts[a[1]]
        BY <1>1, <4>2, SelectedIs
      <4> QED
        BY <1>0, <1>9, <3>2, <4>2, <4>3
    <3> QED
      BY <1>8, <1>9, <2>2, <3>1, <3>3, ResourcesFollow
  <2> QED
    BY <2>1, <2>2
<1>11. PendingInv'
  BY <1>1, <1>2, <1>9, WithoutRunIs DEF PendingInv
<1>12. RunInv(r) /\ runState[r] \in {"created"} \union LiveStates
  BY <1>1, <1>2 DEF RunsInv, RunTypes, OverStates
<1>13. /\ state \in LiveStates \union OverStates /\ Tells(state, table, r)
       /\ state \in LiveStates \union {"completed", "failed"} => Begun(r)
  <2>1. CASE runState[r] = "created"
    <3>1. \A t \in TrialsOf(r) : attempts[t] = <<>>
      BY <1>12, <2>1 DEF RunInv, Unbegun
    <3>2. \A t \in TrialsOf(r) : DOMAIN table[t] = {}
      <4>1. \A t \in TrialsOf(r) : t \in Trials
        BY DEF TrialsOf
      <4>2. DOMAIN <<>> = {}
        OBVIOUS
      <4>3. \A s \in Trials : DOMAIN table[s] = DOMAIN attempts[s]
        BY <1>5
      <4> QED
        BY <3>1, <4>1, <4>2, <4>3
    <3>3. WorkOf(table, r) = {}
      BY <3>2 DEF WorkOf
    <3>4. state = "cancelled"
      BY <3>3 DEF state, SettledRun
    <3> QED
      BY <3>3, <3>4 DEF Tells, OverStates, LiveStates
  <2>2. CASE runState[r] \in LiveStates
    <3>1. Begun(r)
      BY <1>12, <2>2 DEF RunInv
    <3>2. table \in Table
      BY <1>2, <1>9 DEF AttemptTypes, Table
    <3>3. \A t \in TrialsOf(r) : attempts[t] # <<>> /\ table[t] # <<>>
      BY <1>2, <1>9, <3>1 DEF Begun, TrialsOf
    <3>4. "cancel_requested" \in LiveStates
      BY DEF LiveStates
    <3> QED
      BY <3>1, <3>2, <3>3, <3>4, SettledTells DEF state
  <2> QED
    BY <1>12, <2>1, <2>2
<1>14. RunTypes' /\ runState'[r] = state /\ \A p \in Runs : p # r => runState'[p] = runState[p]
  BY <1>1, <1>2, <1>13 DEF RunTypes
<1>15. RunInv(r)'
  <2>1. Tells(runState[r], attempts, r)'
    BY <1>2, <1>13, <1>14 DEF Tells, WorkOf, Faulty
  <2>2. Begun(r) => Begun(r)'
    BY <1>9 DEF Begun, TrialsOf
  <2>3. state \notin {"none", "created"}
    BY <1>13 DEF LiveStates, OverStates
  <2> QED
    BY <1>2, <1>13, <1>14, <2>1, <2>2, <2>3 DEF RunInv
<1>16. ASSUME NEW p \in Runs, p # r PROVE RunInv(p)'
  <2>1. \A q \in TrialsOf(p) : attempts'[q] = attempts[q]
    BY <1>2, <1>7, <1>16 DEF TrialsOf
  <2> QED
    BY <1>1, <1>2, <1>14, <1>16, <2>1, RunUntouched DEF RunsInv
<1> QED
  BY <1>8, <1>9, <1>10, <1>11, <1>14, <1>15, <1>16 DEF EvalInv, EvalTypes, RunsInv

\* What ran when the engine ended is in doubt; nothing else changes but that.
LEMMA RecoveredIs ==
  ASSUME NEW a \in TrialAttempt
  PROVE  /\ Recovered(a) \in TrialAttempt /\ (Behind(a) => Recovered(a) = a)
         /\ a.work \in {"running", "cancel_requested", "reconciling"} => Recovered(a).work = "reconciling"
         /\ Recovered(a).work = "reconciling" => a.work \in {"running", "cancel_requested", "reconciling"}
         /\ a.work = "finished" => Recovered(a) = a
         /\ Recovered(a).execution = a.execution /\ Recovered(a).authoritative = a.authoritative
         /\ Recovered(a).grade = a.grade
  BY DEF Recovered, TrialAttempt, Behind

\* A crash keeps the invariant.
LEMMA CrashKeeps ==
  ASSUME EvalInv, EngineCrash
  PROVE  EvalInv'
<1>1. AttemptTypes /\ RunTypes /\ ExecutorTypes /\ EarlierInv /\ ExecutorInv /\ ResourcesInv /\ PendingInv /\ RunsInv
      /\ EvalTypes
  BY DEF EvalInv, EvalTypes
<1> DEFINE table == [t \in Trials |-> [n \in DOMAIN attempts[t] |-> Recovered(attempts[t][n])]]
<1>2. /\ attempts' = table /\ executor' = NotExecuting /\ pending' = pending
      /\ runState' = [r \in Runs |-> IF "reconciling" \in WorkOf(table, r) THEN "indeterminate" ELSE runState[r]]
      /\ askedToStop' = askedToStop /\ resources' = resources
  BY DEF EngineCrash
<1>3. ASSUME NEW s \in Trials, NEW n \in DOMAIN attempts[s] PROVE attempts[s][n] \in TrialAttempt
  BY <1>1, <1>3 DEF AttemptTypes
<1>4. table = [s \in Trials |-> [n \in DOMAIN attempts[s] |-> table[s][n]]]
  OBVIOUS
<1>5. \A s \in Trials : /\ DOMAIN table[s] = DOMAIN attempts[s]
                        /\ \A n \in DOMAIN attempts[s] : table[s][n] = Recovered(attempts[s][n])
  OBVIOUS
<1> HIDE DEF table
<1>6. ASSUME NEW s \in Trials, NEW n \in DOMAIN attempts[s]
      PROVE  /\ table[s][n] \in TrialAttempt /\ (Behind(attempts[s][n]) => table[s][n] = attempts[s][n])
             /\ attempts[s][n].work = "reconciling" => table[s][n].work = "reconciling"
             /\ attempts[s][n].work \in {"running", "cancel_requested"} => table[s][n].work = "reconciling"
  BY <1>3, <1>5, <1>6, RecoveredIs
<1>0. PICK tb : /\ tb = table
                /\ attempts' = [s \in Trials |-> [n \in DOMAIN attempts[s] |-> tb[s][n]]]
                /\ \A s \in Trials : \A n \in DOMAIN attempts[s] :
                     /\ tb[s][n] \in TrialAttempt /\ (Behind(attempts[s][n]) => tb[s][n] = attempts[s][n])
                     /\ attempts[s][n].work = "reconciling" => tb[s][n].work = "reconciling"
                     /\ attempts[s][n].work \in {"running", "cancel_requested"} => tb[s][n].work = "reconciling"
  BY <1>2, <1>4, <1>6
<1>7. /\ AttemptTypes' /\ EarlierInv' /\ BegunTrials' = BegunTrials
      /\ \A s \in Trials : attempts[s] # <<>> =>
           attempts'[s] # <<>> /\ SelectedAttempt(s)' = tb[s][Len(attempts[s])]
  BY <1>0, <1>1, InPlace
<1>8. executor'.at = "idle" /\ ExecutorTypes'
  BY <1>2 DEF NotExecuting, ExecutorTypes
<1>9. ExecutorInv' /\ ResourcesInv'
  BY <1>0, <1>1, <1>2, <1>8, InPlaceKeeps
<1>10. PendingInv'
  BY <1>1, <1>2, <1>7, EvalQueueKept
<1>11. RunTypes'
  BY <1>1, <1>2 DEF RunTypes, LiveStates
<1>12. ASSUME NEW r \in Runs PROVE RunInv(r)'
  <2>1. RunInv(r)
    BY <1>1 DEF RunsInv
  <2>2. \A t \in TrialsOf(r) : t \in Trials
    BY DEF TrialsOf
  <2>3. Begun(r) => Begun(r)'
    BY <1>7, <2>2 DEF Begun
  <2>4. WorkOf(table, r) = WorkOf(attempts, r)'
    BY <1>2 DEF WorkOf
  <2>5. CASE "reconciling" \in WorkOf(table, r)
    <3>1. runState'[r] = "indeterminate"
      BY <1>2, <2>5
    <3>2. PICK t \in TrialsOf(r) : \E n \in DOMAIN table[t] : table[t][n].work = "reconciling"
      BY <2>5 DEF WorkOf
    <3>3. PICK n \in DOMAIN attempts[t] : Recovered(attempts[t][n]).work = "reconciling"
      BY <1>5, <2>2, <3>2
    <3>4. attempts[t][n].work \in {"running", "cancel_requested", "reconciling"}
      BY <1>3, <2>2, <3>3, RecoveredIs
    <3>5. attempts[t][n].work \in WorkOf(attempts, r)
      BY <3>3 DEF WorkOf
    <3>6. attempts[t] # <<>>
      BY <3>3
    <3>7. runState[r] \notin OverStates
      BY <2>1, <3>4, <3>5 DEF RunInv, Tells
    <3>8. runState[r] \notin {"none", "created"}
      BY <2>1, <3>6 DEF RunInv, Unbegun
    <3>9. Begun(r)
      BY <1>1, <2>1, <3>7, <3>8 DEF RunTypes, RunInv
    <3> QED
      BY <2>3, <3>1, <3>9 DEF RunInv, Tells, OverStates
  <2>6. CASE "reconciling" \notin WorkOf(table, r)
    <3>1. runState'[r] = runState[r]
      BY <1>2, <2>6
    <3>2. Unbegun(r) => Unbegun(r)'
      <4>1. ASSUME NEW t \in TrialsOf(r), attempts[t] = <<>> PROVE attempts'[t] = <<>>
        <5>1. t \notin BegunTrials
          BY <4>1 DEF BegunTrials
        <5> QED
          BY <1>7, <2>2, <5>1 DEF BegunTrials
      <4> QED
        BY <4>1 DEF Unbegun
    <3>3. WorkOf(attempts, r) \subseteq {"finished"} => WorkOf(attempts, r)' \subseteq {"finished"}
      <4>1. SUFFICES ASSUME WorkOf(attempts, r) \subseteq {"finished"}, NEW w \in WorkOf(table, r) PROVE w = "finished"
        BY <2>4
      <4>2. PICK t \in TrialsOf(r) : \E n \in DOMAIN table[t] : table[t][n].work = w
        BY <4>1 DEF WorkOf
      <4>3. PICK n \in DOMAIN attempts[t] : Recovered(attempts[t][n]).work = w
        BY <1>5, <2>2, <4>2
      <4>5. attempts[t][n].work \in WorkOf(attempts, r)
        BY <4>3 DEF WorkOf
      <4>4. attempts[t][n].work = "finished"
        BY <4>1, <4>5
      <4> QED
        BY <1>3, <2>2, <4>3, <4>4, RecoveredIs
    <3>4. ASSUME Begun(r), NEW t \in TrialsOf(r) PROVE Faulty(attempts, t)' <=> Faulty(attempts, t)
      <4>1. attempts[t] # <<>> /\ t \in Trials
        BY <2>2, <3>4 DEF Begun
      <4>2. SelectedAttempt(t) = attempts[t][Len(attempts[t])] /\ Len(attempts[t]) \in DOMAIN attempts[t]
        BY <1>1, <4>1, SelectedIs
      <4>3. SelectedAttempt(t)' = Recovered(SelectedAttempt(t)) /\ SelectedAttempt(t) \in TrialAttempt
        BY <1>0, <1>3, <1>5, <1>7, <4>1, <4>2
      <4>4. /\ SelectedAttempt(t)'.execution = SelectedAttempt(t).execution
            /\ SelectedAttempt(t)'.authoritative = SelectedAttempt(t).authoritative
            /\ SelectedAttempt(t)'.grade = SelectedAttempt(t).grade
        BY <4>3, RecoveredIs
      <4>5. /\ Faulty(attempts, t) <=> \/ SelectedAttempt(t).execution \in {"blocked", "error"}
                                       \/ SelectedAttempt(t).authoritative /\ SelectedAttempt(t).grade = "grader_error"
            /\ Faulty(attempts, t)' <=> \/ SelectedAttempt(t)'.execution \in {"blocked", "error"}
                                        \/ SelectedAttempt(t)'.authoritative /\ SelectedAttempt(t)'.grade = "grader_error"
        BY DEF Faulty, SelectedAttempt
      <4> QED
        BY <4>4, <4>5, Zenon
    <3>5. Tells(runState[r], attempts, r)'
      <4>1. "reconciling" \notin WorkOf(attempts, r)'
        BY <2>4, <2>6
      <4>2. runState'[r] \in OverStates => WorkOf(attempts, r)' \subseteq {"finished"}
        BY <2>1, <3>1, <3>3 DEF RunInv, Tells
      <4>3. runState[r] \in {"completed", "failed"} => Begun(r)
        BY <2>1 DEF RunInv
      <4>4. runState'[r] = "completed" => \A t \in TrialsOf(r) : ~Faulty(attempts, t)'
        BY <2>1, <3>1, <3>4, <4>3 DEF RunInv, Tells
      <4>5. runState'[r] = "failed" => \E t \in TrialsOf(r) : Faulty(attempts, t)'
        BY <2>1, <3>1, <3>4, <4>3 DEF RunInv, Tells
      <4> QED
        BY <4>1, <4>2, <4>4, <4>5 DEF Tells
    <3> QED
      BY <1>2, <2>1, <2>3, <3>1, <3>2, <3>5 DEF RunInv
  <2> QED
    BY <2>5, <2>6
<1> QED
  BY <1>7, <1>8, <1>9, <1>10, <1>11, <1>12 DEF EvalInv, EvalTypes, RunsInv

\* The strengthening holds of a new engine and is kept by every step.
LEMMA EvalInvAlways == EvalSpec => []EvalInv
<1>1. EvalInit => EvalInv
  <2> SUFFICES ASSUME EvalInit PROVE EvalInv
    OBVIOUS
  <2>1. /\ attempts = [t \in Trials |-> <<>>] /\ runState = [r \in Runs |-> "none"]
        /\ pending = <<>> /\ executor = NotExecuting /\ resources = {}
    BY DEF EvalInit
  <2>2. EvalTypes /\ ExecutorInv /\ ResourcesInv
    BY <2>1 DEF EvalTypes, AttemptTypes, RunTypes, ExecutorTypes, NotExecuting, ExecutorInv, ResourcesInv
  <2>3. EarlierInv /\ PendingInv
    <3>1. Len(<<>>) = 0 /\ 0 <= MaxAttempts /\ 1 .. 0 - 1 = {}
      BY EvaluationAssumption
    <3>2. EarlierInv
      BY <2>1, <3>1 DEF EarlierInv
    <3> QED
      BY <2>1, <3>2 DEF PendingInv
  <2>4. ASSUME NEW r \in Runs PROVE RunInv(r)
    <3>1. Unbegun(r)
      BY <2>1 DEF Unbegun, TrialsOf
    <3>2. WorkOf(attempts, r) = {}
      BY <3>1 DEF WorkOf, Unbegun
    <3> QED
      BY <2>1, <3>1, <3>2 DEF RunInv, Tells, LiveStates, OverStates
  <2> QED
    BY <2>2, <2>3, <2>4 DEF EvalInv, RunsInv
<1>2. EvalInv /\ [EvalNext]_eval_vars => EvalInv'
  <2> SUFFICES ASSUME EvalInv, [EvalNext]_eval_vars PROVE EvalInv'
    OBVIOUS
  <2>1. CASE Validate \/ TicketExpires \/ (\E r \in Runs : CreateRun(r)) \/ (\E a \in resources : ResourcesEnd(a))
               \/ UNCHANGED eval_vars
    BY <2>1, RequestKeeps
  <2>2. CASE \E r \in Runs : StartTrials(r)
    BY <2>2, BeginKeeps
  <2>3. CASE \E t \in Trials : RetryTrial(t)
    BY <2>3, TrialIs, BeginKeeps
  <2>4. CASE \E r \in Runs : CancelRun(r)
    BY <2>4, CancelKeeps
  <2>5. CASE \E t \in Trials : Claim(t) \/ ClaimExhausted(t)
    BY <2>5, ClaimKeeps
  <2>6. CASE \E t \in Trials : Reconcile(t)
    BY <2>6, ReconcileKeeps
  <2>7. CASE Block \/ CutOff \/ CollectFails \/ FinishGraded
    BY <2>7, EndKeeps
  <2>8. CASE Run \/ RunnerEnds
    BY <2>8, RunnerKeeps
  <2>9. CASE EngineCrash
    BY <2>9, CrashKeeps
  <2> QED
    BY <2>1, <2>2, <2>3, <2>4, <2>5, <2>6, <2>7, <2>8, <2>9 DEF EvalNext
<1> QED
  BY <1>1, <1>2, PTL DEF EvalSpec

\* For any runs, trials, plans of retries and crashes: an attempt begins only when nothing of an earlier one is
\* left on the host, and a run says of itself what its attempts are (EvaluationScheduler.claim, finish, settle_run,
\* reconcile; EvaluationService.cancel, retry).
THEOREM EvaluationsTrue == EvalSpec => []EvaluationsHonest
<1>1. EvalInv => AttemptsApart
  BY DEF EvalInv, ResourcesInv, EarlierInv, AttemptsApart, Behind
<1>2. EvalInv => RunsAgree
  <2> SUFFICES ASSUME EvalInv, NEW r \in Runs
      PROVE  LET over == runState[r] \in {"completed", "failed", "cancelled"} IN
             /\ "reconciling" \in WorkOf(attempts, r) => runState[r] = "indeterminate"
             /\ over => WorkOf(attempts, r) \subseteq {"finished"}
             /\ over => \A t \in TrialsOf(r) : AttemptId(t) \notin resources
             /\ runState[r] \in {"completed", "failed"} => \A t \in TrialsOf(r) : attempts[t] # <<>>
             /\ runState[r] = "completed" => \A t \in TrialsOf(r) : ~Faulty(attempts, t)
             /\ runState[r] = "failed" => \E t \in TrialsOf(r) : Faulty(attempts, t)
             /\ runState[r] \in {"cancelled", "cancel_requested"} => r \in askedToStop
    BY DEF RunsAgree
  <2>1. RunInv(r) /\ AttemptTypes /\ EarlierInv /\ ExecutorInv /\ ResourcesInv /\ RunsInv
    BY DEF EvalInv, EvalTypes, RunsInv
  <2>2. ASSUME runState[r] \in OverStates, NEW t \in TrialsOf(r), AttemptId(t) \in resources PROVE FALSE
    <3>7. PICK a \in resources : a = AttemptId(t)
      BY <2>2
    <3>1. Known(a)
      BY <2>1 DEF ResourcesInv
    <3>2. a[1] = t /\ t \in Trials /\ RunOf(t) = r
      BY <3>7 DEF AttemptId, TrialsOf
    <3>6. /\ attempts[a[1]] # <<>>
          /\ \/ SelectedAttempt(a[1]).work = "reconciling"
             \/ executor.at \in {"running", "graded"} /\ a[1] = executor.trial
      BY <2>1, <3>1, ResourceIs
    <3>3. attempts[t] # <<>> /\ (SelectedAttempt(t).work = "reconciling" \/ (executor.at # "idle" /\ t = executor.trial))
      BY <3>2, <3>6
    <3>4. SelectedAttempt(t).work \in {"running", "cancel_requested", "reconciling"}
      BY <2>1, <3>3 DEF ExecutorInv
    <3>5. SelectedAttempt(t).work \in WorkOf(attempts, r)
      BY <2>1, <3>2, <3>3, SelectedIs
    <3> QED
      BY <2>1, <2>2, <3>4, <3>5 DEF RunInv, Tells
  <2> QED
    BY <2>1, <2>2 DEF RunInv, Tells, Begun, OverStates
<1> QED
  BY <1>1, <1>2, EvalInvAlways, PTL DEF EvaluationsHonest

==============================================================================
