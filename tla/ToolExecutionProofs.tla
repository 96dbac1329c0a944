------------------------ MODULE ToolExecutionProofs ------------------------
(***************************************************************************)
(* No tool changes the workspace without the journal telling of it, for    *)
(* every number of calls, turns and faults (Accounted).                    *)
(*                                                                         *)
(* The property is not inductive: it speaks of an effect only once the     *)
(* turn is over or the call is answered, so the step that answers needs to *)
(* know what is true while the call is at hand. IInv adds that an intent   *)
(* is on disk before its tool runs (HandInv), that the calls behind the    *)
(* one at hand are untouched (AheadInv), that what is at hand never denies *)
(* an effect (HandInv, TailInv), that the calls before it succeeded        *)
(* (CleanInv), and that a turn with an operation of unknown effect runs no *)
(* further tool (StopInv).                                                 *)
(*                                                                         *)
(* The theorems suppose that a model does not give one id to two calls of  *)
(* a turn (~RepeatIds). The executor keeps its accounts by id, and where a *)
(* provider repeats one they do break: run ToolExecutionRepeat shows how.  *)
(*                                                                         *)
(* Remembered: between turns the conversation can be read back from the    *)
(* journal, and what a model is sent is well formed (HistorySound), also   *)
(* when ids repeat.  In the middle of a turn neither holds, so TalkInv     *)
(* says what the journal lacks in each phase (TellInv) and what it would   *)
(* be read back as. The replay is a recursive function: FoldLemmas has     *)
(* what is proved about all of these, and ReplayedStep adds one record.    *)
(***************************************************************************)
EXTENDS ToolExecution, FoldLemmas, SequenceTheorems, TLAPS

\* The phases in which batch holds the calls of the last response.
Calling == {"reply", "check", "prepare", "run", "observe", "record", "tail", "results"}

\* What the model remembers of a change of the workspace.
Effect == [n: Nat, id: Nat, turn: Nat, first: Nat]

\* The types of the control state, and ids only of calls that were requested.
ControlInv ==
  /\ phase \in Phases /\ turn \in Nat /\ calls \in Nat /\ pos \in Nat \ {0}
  /\ stop \in BOOLEAN /\ exc \in {"none", "cancel", "budget", "error"}
  /\ startedIds \subseteq 1 .. calls /\ completedIds \subseteq 1 .. calls
  /\ escaped \subseteq 1 .. calls

\* The records that name a call.
ToolKinds == {"tool_started", "tool_completed"}

\* Nothing in the journal is of a later turn or names a call that was not requested.
JournalInv ==
  /\ \E S : journal \in Seq(S)
  /\ \A i \in 1 .. Len(journal) :
       /\ journal[i].turn \in 0 .. turn
       /\ journal[i].kind \in ToolKinds => journal[i].call.id \in 1 .. calls

\* An effect is of a requested call, under that call's own id.
EffectInv ==
  \A e \in effects :
    e \in Effect /\ e.n \in 1 .. calls /\ e.id = e.n /\ e.first <= e.n

\* The calls of a batch are the last ones requested, each under an id of its own.
BatchInv ==
  phase \in Calling =>
    /\ batch \in Seq(Call) /\ Len(batch) <= calls /\ (phase = "reply" => pos = 1)
    /\ \A i \in 1 .. Len(batch) : batch[i].n + Len(batch) = calls + i /\ batch[i].id = batch[i].n

\* Nothing answers call n yet.
Uncompleted(n) ==
  /\ n \notin completedIds
  /\ \A i \in 1 .. Len(journal) : journal[i].kind = "tool_completed" => journal[i].call.id # n

\* Nothing at all happened with call n.
Unseen(n) ==
  /\ n \notin startedIds /\ n \notin completedIds
  /\ \A i \in 1 .. Len(journal) : journal[i].kind \in ToolKinds => journal[i].call.id # n
  /\ \A e \in effects : e.n # n

\* The calls after the one at hand are still to come.
AheadInv ==
  phase \in Calling =>
    \A i \in 1 .. Len(batch) :
      /\ i > pos \/ (i = pos /\ phase \in {"reply", "check", "prepare"}) => Unseen(batch[i].n)
      /\ \A e \in effects : e.n = batch[i].n => e.turn = turn /\ batch[i].effect = "write"

\* What changed the world is not yet answered by anything that denies it.
HandInv ==
  phase \in {"prepare", "run", "observe", "record"} =>
    /\ pos <= Len(batch)
    /\ Uncompleted(current.n)
    /\ phase \in {"run", "observe"} => <<turn, current.n>> \in Started(journal)
    /\ phase \in {"observe", "record"} /\ Took(current) =>
         outcome.status \in {"executed", "indeterminate"}
    /\ phase \in {"observe", "record"} =>
         outcome.ok \in BOOLEAN /\ (outcome.status = "indeterminate" => ~outcome.ok)
         /\ outcome = Outcome(outcome.status, outcome.ok)
    /\ phase # "record" => ~stop

\* A call that is answered unexecuted changed nothing, unless its effect is known to have escaped.
TailInv ==
  phase = "tail" /\ pos <= Len(batch) =>
    \A e \in effects : e.n = batch[pos].n => e.n \in escaped

\* The journal tells that the call behind an effect succeeded.
Succeeded(e) ==
  \E k \in Completions(journal) :
    Key(journal[k]) = EffectKey(e) /\ journal[k].result = Outcome("executed", TRUE)

\* Until something stops the batch, every effect of an earlier call is told of.
CleanInv ==
  phase \in {"check", "prepare", "run", "observe", "record"} /\ ~stop =>
    \A i \in 1 .. Len(batch) : \A e \in effects :
      i < pos /\ e.n = batch[i].n => Succeeded(e)

\* A turn with an operation of unknown effect is on its way out.
Doubtful == \E k \in Completions(journal) :
              journal[k].turn = turn /\ journal[k].result.status = "indeterminate"
StopInv ==
  Doubtful =>
    /\ phase \in {"check", "record", "tail", "results", "checkpoint", "completed", "closing",
                  "idle", "down"}
    /\ phase \in {"check", "record"} => stop
    /\ phase \in {"check", "record", "tail", "results"} => exc # "none"

\* What no action may lose, whatever the phase.
Facts == JournalInv /\ EffectInv /\ EffectsAccounted
\* The inductive invariant.
IInv ==
  /\ ControlInv /\ Facts
  /\ BatchInv /\ AheadInv /\ HandInv /\ TailInv /\ CleanInv /\ StopInv

\* Whatever is appended, a journal stays a sequence and keeps its records.
LEMMA AppendAny ==
  ASSUME NEW S, NEW s \in Seq(S), NEW r
  PROVE  /\ Append(s, r) \in Seq(S \cup {r})
         /\ Len(s) \in Nat /\ Len(Append(s, r)) = Len(s) + 1
         /\ \A i \in 1 .. Len(s) : Append(s, r)[i] = s[i]
         /\ Append(s, r)[Len(s) + 1] = r
<1>1. s \in Seq(S \cup {r})
  <2>1. Len(s) \in Nat /\ s \in [1 .. Len(s) -> S] BY LenProperties
  <2>2. s \in [1 .. Len(s) -> S \cup {r}] BY <2>1
  <2> QED BY <2>1, <2>2, SeqDef
<1> QED BY <1>1

\* The record of a phase is of the current turn, and only the phases around a call name one.
LEMMA DueIs ==
  /\ phase \in Appending => Due.turn = turn
  /\ phase \in Appending =>
       /\ Due.kind = "tool_started" <=> phase = "prepare"
       /\ Due.kind = "tool_completed" <=> phase \in {"record", "tail"}
       /\ Due.kind = "assistant_message" <=> phase = "reply"
  /\ phase \in {"prepare", "record", "tail"} => Due.call = current
  /\ phase = "record" => Due.result = outcome
  /\ phase = "tail" => Due.result = NotExecuted
<1>1. CASE phase = "begin" BY <1>1 DEF Due, Plain, Entry
<1>2. CASE phase = "prompt" BY <1>2 DEF Due, Message, Entry
<1>3. CASE phase = "reply" BY <1>3 DEF Due, Message, Entry
<1>4. CASE phase = "prepare" BY <1>4 DEF Due, Entry
<1>5. CASE phase = "record" BY <1>5 DEF Due, Entry
<1>6. CASE phase = "tail" BY <1>6 DEF Due, Entry
<1>7. CASE phase = "results" BY <1>7 DEF Due, Message, Entry
<1>8. CASE phase = "checkpoint" BY <1>8 DEF Due, Entry
<1>9. CASE phase = "completed" BY <1>9 DEF Due, Plain, Entry
<1>10. CASE phase = "closing" BY <1>10 DEF Due, Plain, Entry
<1> QED BY <1>1, <1>2, <1>3, <1>4, <1>5, <1>6, <1>7, <1>8, <1>9, <1>10 DEF Appending

\* What a step that writes nothing and changes nothing in the world keeps.
LEMMA FactsKept ==
  ASSUME IInv, UNCHANGED <<journal, turn, calls, effects>>, escaped \subseteq escaped'
  PROVE  Facts'
<1>1. JournalInv' /\ EffectInv' BY DEF IInv, Facts, JournalInv, EffectInv
<1>2. EffectsKnown'
  BY DEF IInv, Facts, EffectsAccounted, EffectsKnown, ReportedExecuted
<1>3. StopsAtFirstFailure' /\ InterruptedTurnStops'
  BY DEF IInv, Facts, EffectsAccounted, StopsAtFirstFailure, InterruptedTurnStops
<1> QED BY <1>1, <1>2, <1>3 DEF Facts, EffectsAccounted

\* An append keeps every record in its place.
LEMMA JournalGrows ==
  ASSUME JournalInv, NEW r, journal' = Append(journal, r)
  PROVE  /\ Len(journal) \in Nat /\ Len(journal') = Len(journal) + 1
         /\ \A i \in 1 .. Len(journal) : i \in 1 .. Len(journal') /\ journal'[i] = journal[i]
         /\ Len(journal) + 1 \in 1 .. Len(journal') /\ journal'[Len(journal) + 1] = r
         /\ \A i \in 1 .. Len(journal') : i \in 1 .. Len(journal) \/ i = Len(journal) + 1
         /\ \E S : journal' \in Seq(S)
<1>1. PICK S : journal \in Seq(S) BY DEF JournalInv
<1>2. /\ Append(journal, r) \in Seq(S \cup {r})
      /\ Len(journal) \in Nat /\ Len(Append(journal, r)) = Len(journal) + 1
      /\ \A i \in 1 .. Len(journal) : Append(journal, r)[i] = journal[i]
      /\ Append(journal, r)[Len(journal) + 1] = r
  BY <1>1, AppendAny
<1> QED BY <1>2

\* An append keeps the account of effects as long as it does not deny one and a turn in
\* doubt starts nothing more.
LEMMA FactsAppended ==
  ASSUME IInv, NEW r, journal' = Append(journal, r), UNCHANGED <<turn, calls, effects>>,
         escaped \subseteq escaped', r.turn = turn,
         r.kind \in ToolKinds => r.call.id \in 1 .. calls,
         r.kind = "tool_completed" =>
           \A e \in effects : e.n = r.call.id =>
             e.n \in escaped' \/ r.result.status \in {"executed", "indeterminate"},
         r.kind \in {"tool_started", "assistant_message"} => ~Doubtful
  PROVE  Facts'
<1> DEFINE m == Len(journal) + 1
<1>0. JournalInv /\ EffectInv /\ turn \in Nat BY DEF IInv, Facts, ControlInv
<1>1. /\ Len(journal) \in Nat /\ Len(journal') = m
      /\ \A i \in 1 .. Len(journal) : i \in 1 .. Len(journal') /\ journal'[i] = journal[i]
      /\ m \in 1 .. Len(journal') /\ journal'[m] = r
      /\ \A i \in 1 .. Len(journal') : i \in 1 .. Len(journal) \/ i = m
      /\ \E S : journal' \in Seq(S)
  BY <1>0, JournalGrows
<1> HIDE DEF m
<1>2. JournalInv'
  BY <1>0, <1>1 DEF JournalInv, ToolKinds
<1>3. EffectInv' BY <1>0 DEF EffectInv
<1>4. \A k \in Completions(journal) :
        k \in Completions(journal') /\ journal'[k] = journal[k]
  BY <1>1 DEF Completions
<1>5. \A k \in Completions(journal') :
        k \in Completions(journal) \/ (k = m /\ r.kind = "tool_completed")
  BY <1>1 DEF Completions
<1>6. EffectsKnown'
  <2> SUFFICES ASSUME NEW e \in effects, e.n \notin escaped', ~ReportedExecuted(e)'
               PROVE  EffectKey(e) \in Indeterminate(journal')
    BY DEF EffectsKnown
  <2>1. e.n \notin escaped /\ ~ReportedExecuted(e)
    BY <1>4 DEF ReportedExecuted
  <2>2. EffectKey(e) \in Indeterminate(journal)
    BY <2>1 DEF IInv, Facts, EffectsAccounted, EffectsKnown
  <2>3. CASE \E k \in Completions(journal) :
               Key(journal[k]) = EffectKey(e) /\ journal[k].result.status = "indeterminate"
    BY <2>3, <1>4 DEF Indeterminate
  <2>4. CASE /\ EffectKey(e) \in Started(journal)
             /\ \A k \in Completions(journal) : Key(journal[k]) # EffectKey(e)
    <3>1. EffectKey(e) \in Started(journal')
      BY <2>4, <1>1 DEF Started
    <3>2. CASE \A k \in Completions(journal') : Key(journal'[k]) # EffectKey(e)
      BY <3>1, <3>2 DEF Indeterminate
    <3>3. CASE ~ \A k \in Completions(journal') : Key(journal'[k]) # EffectKey(e)
      <4>1. m \in Completions(journal') /\ r.kind = "tool_completed" /\ Key(r) = EffectKey(e)
        BY <3>3, <2>4, <1>1, <1>4, <1>5
      <4>2. e.n = r.call.id
        BY <4>1, <1>0 DEF Key, EffectKey, EffectInv
      <4>3. r.result.status # "executed"
        BY <4>1, <1>1 DEF ReportedExecuted
      <4>4. r.result.status = "indeterminate" BY <4>1, <4>2, <4>3
      <4> QED BY <4>1, <4>4, <1>1 DEF Indeterminate
    <3> QED BY <3>2, <3>3
  <2> QED BY <2>2, <2>3, <2>4 DEF Indeterminate
<1>7. StopsAtFirstFailure'
  <2>1. \A e, f \in effects : e.first = f.first /\ e.n < f.n =>
          \E k \in Completions(journal) : /\ Key(journal[k]) = EffectKey(e)
                                          /\ journal[k].result = Outcome("executed", TRUE)
    BY DEF IInv, Facts, EffectsAccounted, StopsAtFirstFailure
  <2> SUFFICES ASSUME NEW e \in effects, NEW f \in effects, e.first = f.first, e.n < f.n
               PROVE  \E k \in Completions(journal') :
                        /\ Key(journal'[k]) = EffectKey(e)
                        /\ journal'[k].result = Outcome("executed", TRUE)
    BY DEF StopsAtFirstFailure
  <2>2. PICK k \in Completions(journal) : /\ Key(journal[k]) = EffectKey(e)
                                          /\ journal[k].result = Outcome("executed", TRUE)
    BY <2>1
  <2> QED BY <2>2, <1>4
<1>8. InterruptedTurnStops'
  <2> SUFFICES ASSUME NEW k \in Completions(journal'),
                      journal'[k].result.status = "indeterminate",
                      NEW i \in k + 1 .. Len(journal'), journal'[i].turn = journal'[k].turn
               PROVE  journal'[i].kind \notin {"tool_started", "assistant_message"}
    BY DEF InterruptedTurnStops
  <2>0. k \in 1 .. Len(journal') BY DEF Completions
  <2>1. k \in 1 .. Len(journal) /\ k \in Completions(journal) /\ journal'[k] = journal[k]
    <3>1. k \in 1 .. Len(journal) BY <2>0, <1>1 DEF m
    <3> QED BY <3>1, <1>1 DEF Completions
  <2>2. CASE i \in 1 .. Len(journal)
    <3>1. journal'[i] = journal[i] /\ i \in k + 1 .. Len(journal) BY <2>2, <1>1
    <3> QED BY <2>1, <3>1 DEF IInv, Facts, EffectsAccounted, InterruptedTurnStops
  <2>3. CASE i = m
    <3>1. Doubtful BY <2>1, <2>3, <1>1 DEF Doubtful
    <3> QED BY <3>1, <2>3, <1>1
  <2> QED BY <2>0, <2>2, <2>3, <1>1 DEF m
<1> QED BY <1>2, <1>3, <1>6, <1>7, <1>8 DEF Facts, EffectsAccounted

\* What an append leaves as it was of the other calls.
LEMMA CallsAppended ==
  ASSUME JournalInv, NEW r, journal' = Append(journal, r), UNCHANGED <<turn, effects>>
  PROVE  /\ \A n \in Nat :
              /\ Unseen(n) /\ n \notin startedIds' /\ n \notin completedIds'
              /\ r.kind \in ToolKinds => r.call.id # n
              => Unseen(n)'
         /\ \A n \in Nat :
              /\ Uncompleted(n) /\ n \notin completedIds'
              /\ r.kind = "tool_completed" => r.call.id # n
              => Uncompleted(n)'
         /\ \A e \in effects : Succeeded(e) => Succeeded(e)'
         /\ Started(journal) \subseteq Started(journal')
         /\ r.kind = "tool_started" => Key(r) \in Started(journal')
         /\ Doubtful' =>
              Doubtful \/ (r.kind = "tool_completed" /\ r.result.status = "indeterminate")
<1> DEFINE m == Len(journal) + 1
<1>1. /\ Len(journal) \in Nat /\ Len(journal') = m
      /\ \A i \in 1 .. Len(journal) : i \in 1 .. Len(journal') /\ journal'[i] = journal[i]
      /\ m \in 1 .. Len(journal') /\ journal'[m] = r
      /\ \A i \in 1 .. Len(journal') : i \in 1 .. Len(journal) \/ i = m
  BY JournalGrows
<1> HIDE DEF m
<1>2. ASSUME NEW n \in Nat, Unseen(n), n \notin startedIds', n \notin completedIds',
             r.kind \in ToolKinds => r.call.id # n
      PROVE  Unseen(n)'
  BY <1>1, <1>2 DEF Unseen, ToolKinds
<1>3. ASSUME NEW n \in Nat, Uncompleted(n), n \notin completedIds',
             r.kind = "tool_completed" => r.call.id # n
      PROVE  Uncompleted(n)'
  BY <1>1, <1>3 DEF Uncompleted
<1>4. \A k \in Completions(journal) :
        k \in Completions(journal') /\ journal'[k] = journal[k]
  BY <1>1 DEF Completions
<1>5. ASSUME NEW e \in effects, Succeeded(e) PROVE Succeeded(e)'
  <2>1. PICK k \in Completions(journal) : /\ Key(journal[k]) = EffectKey(e)
                                          /\ journal[k].result = Outcome("executed", TRUE)
    BY <1>5 DEF Succeeded
  <2> QED BY <2>1, <1>4 DEF Succeeded
<1>6. Started(journal) \subseteq Started(journal') BY <1>1 DEF Started
<1>7. r.kind = "tool_started" => Key(r) \in Started(journal') BY <1>1 DEF Started
<1>8. Doubtful' =>
        Doubtful \/ (r.kind = "tool_completed" /\ r.result.status = "indeterminate")
  BY <1>1 DEF Doubtful, Completions
<1> QED BY <1>2, <1>3, <1>5, <1>6, <1>7, <1>8

\* Outside the handling of a response only the journal and the way out matter.
LEMMA Outside ==
  ASSUME ControlInv', Facts', StopInv', phase' \notin Calling
  PROVE  IInv'
BY DEF IInv, Calling, BatchInv, AheadInv, HandInv, TailInv, CleanInv

\* A step that stays with the same calls and writes nothing.
LEMMA SameCalls ==
  ASSUME IInv, UNCHANGED <<journal, turn, calls, effects, batch, pos, startedIds, completedIds>>,
         escaped \subseteq escaped', phase' \in Calling \ {"reply"}, phase \in Calling,
         phase' \in {"reply", "check", "prepare"} => phase \in {"reply", "check", "prepare"},
         stop \in BOOLEAN, stop' \in BOOLEAN, stop => stop',
         phase' \in {"check", "prepare", "run", "observe", "record"} =>
           phase \in {"check", "prepare", "run", "observe", "record"}
  PROVE  Facts' /\ BatchInv' /\ AheadInv' /\ CleanInv' /\ (Doubtful' <=> Doubtful)
<1>1. Facts' BY FactsKept
<1>2. BatchInv' BY DEF IInv, BatchInv
<1>3. AheadInv' BY DEF IInv, AheadInv, Unseen
<1>4. CleanInv' BY DEF IInv, CleanInv, Succeeded
<1>5. Doubtful' <=> Doubtful BY DEF Doubtful
<1> QED BY <1>1, <1>2, <1>3, <1>4, <1>5

\* The parts of an outcome.
LEMMA OutcomeIs ==
  ASSUME NEW s, NEW ok \in BOOLEAN, NEW o, o = Outcome(s, ok)
  PROVE  o.status = s /\ o.ok = ok /\ o = Outcome(o.status, o.ok)
BY DEF Outcome

-----------------------------------------------------------------------------
(***************************************************************************)
(* The steps that write nothing.                                           *)
(***************************************************************************)

\* A call that is refused, skipped, answered from the cache or let through.
LEMMA CheckSteps ==
  ASSUME IInv, SkipCall \/ AnswerWithoutRunning \/ Authorize \/ PrepareFails
  PROVE  IInv'
<1>0. ControlInv /\ phase \in {"check", "prepare"} /\ BatchInv /\ AheadInv
  BY DEF IInv, SkipCall, AnswerWithoutRunning, Authorize, PrepareFails
<1>1. /\ UNCHANGED <<journal, turn, calls, effects, batch, pos, startedIds, completedIds, escaped, stop, exc>>
      /\ phase' \in {"prepare", "record"} /\ (phase' = "prepare" => phase = "check" /\ ~stop)
      /\ (phase' = "record" => outcome' \in {NotExecuted, Outcome("rejected", FALSE), Outcome("cached", TRUE)})
  BY DEF SkipCall, AnswerWithoutRunning, Authorize, PrepareFails, turnVars, batchVars, memoryVars
<1>2. ControlInv' BY <1>0, <1>1 DEF ControlInv, Phases, Appending
<1>3. Facts' /\ BatchInv' /\ AheadInv' /\ CleanInv' /\ (Doubtful' <=> Doubtful)
  BY <1>0, <1>1, <1>2, SameCalls DEF Calling, ControlInv
<1>4. pos <= Len(batch) /\ pos \in 1 .. Len(batch)
  <2>1. pos <= Len(batch)
    BY DEF SkipCall, AnswerWithoutRunning, Authorize, PrepareFails, IInv, HandInv
  <2> QED BY <1>0, <2>1 DEF BatchInv, Calling, ControlInv
<1>5. Unseen(current.n) BY <1>0, <1>4 DEF AheadInv, Calling, current
<1>6. HandInv'
  <2>1. Uncompleted(current.n)' BY <1>1, <1>5 DEF Uncompleted, Unseen, current, ToolKinds
  <2>2. ~Took(current)' BY <1>1, <1>5 DEF Took, Unseen, current
  <2>3. phase' = "record" =>
          outcome'.ok \in BOOLEAN /\ (outcome'.status = "indeterminate" => ~outcome'.ok)
          /\ outcome' = Outcome(outcome'.status, outcome'.ok)
    <3> SUFFICES ASSUME phase' = "record"
                 PROVE  outcome'.ok \in BOOLEAN /\ (outcome'.status = "indeterminate" => ~outcome'.ok)
                        /\ outcome' = Outcome(outcome'.status, outcome'.ok)
      OBVIOUS
    <3>1. CASE outcome' = NotExecuted BY <3>1, OutcomeIs DEF NotExecuted
    <3>2. CASE outcome' = Outcome("rejected", FALSE) BY <3>2, OutcomeIs
    <3>3. CASE outcome' = Outcome("cached", TRUE)
      <4>1. outcome'.status = "cached" /\ outcome'.ok = TRUE
            /\ outcome' = Outcome(outcome'.status, outcome'.ok)
        BY <3>3 DEF Outcome
      <4> QED BY <4>1
    <3> QED BY <1>1, <3>1, <3>2, <3>3
  <2> QED BY <1>1, <1>4, <2>1, <2>2, <2>3 DEF HandInv
<1>7. TailInv' BY <1>1 DEF TailInv
<1>8. StopInv'
  BY <1>0, <1>1, <1>3 DEF IInv, StopInv
<1> QED BY <1>2, <1>3, <1>6, <1>7, <1>8 DEF IInv

\* The tool returns, raises or is cancelled: what is said of it does not deny its effect.
LEMMA RunSteps ==
  ASSUME IInv, Return \/ Raise \/ Observe \/ CancelInside
  PROVE  IInv'
<1>0. ControlInv /\ phase \in {"prepare", "run", "observe"} /\ BatchInv /\ AheadInv /\ HandInv
  BY DEF IInv, Return, Raise, Observe, CancelInside
<1>1. /\ UNCHANGED <<journal, turn, calls, effects, batch, pos, startedIds, completedIds, escaped, stop>>
      /\ phase' \in {"observe", "record"} /\ (phase' = "observe" => phase = "run")
      /\ exc' \in {"none", "cancel", "budget", "error"}
  BY <1>0 DEF Return, Raise, Observe, CancelInside, turnVars, batchVars, memoryVars, ControlInv
<1>2. ControlInv' BY <1>0, <1>1 DEF ControlInv, Phases, Appending
<1>3. Facts' /\ BatchInv' /\ AheadInv' /\ CleanInv' /\ (Doubtful' <=> Doubtful)
  BY <1>0, <1>1, <1>2, SameCalls DEF Calling, ControlInv
<1>4. pos <= Len(batch) /\ pos \in 1 .. Len(batch) /\ ~stop
  BY <1>0 DEF HandInv, BatchInv, Calling, ControlInv
<1>5. current' = current /\ (Took(current)' <=> Took(current)) BY <1>1 DEF current, Took
<1>6. phase = "prepare" => ~Took(current)
  BY <1>0, <1>4 DEF AheadInv, Calling, current, Unseen, Took
<1>7. Took(current) => current.effect = "write"
  <2>1. phase \in Calling BY <1>0 DEF Calling
  <2> QED BY <1>0, <1>4, <2>1 DEF AheadInv, current, Took
<1>8. /\ outcome'.ok \in BOOLEAN /\ (outcome'.status = "indeterminate" => ~outcome'.ok)
      /\ outcome' = Outcome(outcome'.status, outcome'.ok)
      /\ Took(current) => outcome'.status \in {"executed", "indeterminate"}
  <2>1. CASE Return
    <3>1. CASE outcome' = Outcome("executed", TRUE)
      <4>1. outcome'.status = "executed" /\ outcome'.ok = TRUE
            /\ outcome' = Outcome(outcome'.status, outcome'.ok)
        BY <3>1 DEF Outcome
      <4> QED BY <4>1
    <3>2. CASE outcome' = Outcome("executed", FALSE) BY <3>2, OutcomeIs
    <3>3. CASE outcome' = Outcome("indeterminate", FALSE) BY <3>3, OutcomeIs
    <3> QED BY <2>1, <3>1, <3>2, <3>3 DEF Return
  <2>2. CASE Raise BY <2>2, <1>7, OutcomeIs DEF Raise
  <2>3. CASE Observe BY <2>3, <1>0 DEF Observe, HandInv, batchVars
  <2>4. CASE CancelInside BY <2>4, <1>7, OutcomeIs DEF CancelInside
  <2> QED BY <2>1, <2>2, <2>3, <2>4
<1>9. HandInv'
  <2>1. Uncompleted(current.n)' BY <1>0, <1>1, <1>5 DEF Uncompleted, HandInv
  <2>2. phase' = "observe" => <<turn', current'.n>> \in Started(journal')
    BY <1>0, <1>1, <1>5 DEF HandInv
  <2> QED BY <1>1, <1>4, <1>5, <1>8, <2>1, <2>2 DEF HandInv
<1>10. TailInv' BY <1>1 DEF TailInv
<1>11. StopInv' BY <1>0, <1>3 DEF IInv, StopInv
<1> QED BY <1>2, <1>3, <1>9, <1>10, <1>11 DEF IInv

\* An exception leaves the batch to its finally block; a tool that has run escapes.
LEMMA InterruptStep ==
  ASSUME IInv, Interrupt
  PROVE  IInv'
<1>0. ControlInv /\ phase \in {"check", "observe"} /\ BatchInv /\ AheadInv /\ HandInv
  BY DEF IInv, Interrupt
<1>1. /\ UNCHANGED <<journal, turn, calls, effects, batch, pos, startedIds, completedIds, stop>>
      /\ phase' = "tail" /\ exc' \in {"cancel", "budget", "error"}
      /\ escaped' = IF phase = "observe" THEN escaped \cup {current.n} ELSE escaped
  BY DEF Interrupt, turnVars, batchVars, memoryVars
<1>2. phase = "observe" => pos \in 1 .. Len(batch) /\ current.n \in 1 .. calls
  <2> SUFFICES ASSUME phase = "observe"
               PROVE  pos \in 1 .. Len(batch) /\ current.n \in 1 .. calls
    OBVIOUS
  <2>1. pos \in 1 .. Len(batch) /\ Len(batch) \in Nat
    BY <1>0 DEF HandInv, BatchInv, Calling, ControlInv
  <2>4. <<turn, current.n>> \in Started(journal) BY <1>0 DEF HandInv
  <2>5. current.n \in 1 .. calls
    <3>1. PICK i \in 1 .. Len(journal) :
            journal[i].kind = "tool_started" /\ <<turn, current.n>> = Key(journal[i])
      BY <2>4 DEF Started
    <3>2. journal[i].call.id = current.n BY <3>1 DEF Key
    <3> QED BY <3>1, <3>2 DEF IInv, Facts, JournalInv, ToolKinds
  <2> QED BY <2>1, <2>5
<1>3. ControlInv' BY <1>0, <1>1, <1>2 DEF ControlInv, Phases, Appending
<1>4. Facts' /\ BatchInv' /\ AheadInv' /\ CleanInv' /\ (Doubtful' <=> Doubtful)
  BY <1>0, <1>1, <1>3, SameCalls DEF Calling, ControlInv
<1>5. TailInv'
  <2> SUFFICES ASSUME pos <= Len(batch), NEW e \in effects, e.n = batch[pos].n
               PROVE  e.n \in escaped'
    BY <1>1 DEF TailInv
  <2>1. CASE phase = "observe" BY <2>1, <1>1 DEF current
  <2>2. CASE phase = "check"
    <3>1. pos \in 1 .. Len(batch) BY <1>0 DEF BatchInv, Calling, ControlInv
    <3>2. Unseen(batch[pos].n) BY <2>2, <3>1, <1>0 DEF AheadInv, Calling
    <3> QED BY <3>2 DEF Unseen
  <2> QED BY <1>0, <2>1, <2>2
<1>6. HandInv' BY <1>1 DEF HandInv
<1>7. StopInv' BY <1>1, <1>4 DEF IInv, StopInv
<1> QED BY <1>3, <1>4, <1>5, <1>6, <1>7 DEF IInv

\* The batch is at its end, then its results are in the messages.
LEMMA EndSteps ==
  ASSUME IInv, EndBatch \/ CloseBatch
  PROVE  IInv'
<1>0. ControlInv /\ phase \in {"check", "tail"} /\ pos > Len(batch)
  BY DEF IInv, EndBatch, CloseBatch
<1>1. /\ UNCHANGED <<journal, turn, calls, effects, batch, pos, startedIds, completedIds, escaped, stop, exc>>
      /\ phase' \in {"tail", "results"}
  BY DEF EndBatch, CloseBatch, turnVars, batchVars, memoryVars
<1>2. ControlInv' BY <1>0, <1>1 DEF ControlInv, Phases, Appending
<1>3. Facts' /\ BatchInv' /\ AheadInv' /\ CleanInv' /\ (Doubtful' <=> Doubtful)
  BY <1>0, <1>1, <1>2, SameCalls DEF Calling, ControlInv
<1>4. TailInv'
  <2>1. Len(batch) \in Nat BY <1>0 DEF IInv, BatchInv, Calling
  <2> QED BY <1>0, <1>1, <2>1 DEF TailInv, ControlInv
<1>5. HandInv' BY <1>1 DEF HandInv
<1>6. StopInv' BY <1>0, <1>1, <1>3 DEF IInv, StopInv
<1> QED BY <1>2, <1>3, <1>4, <1>5, <1>6 DEF IInv

\* Between responses nothing of a batch matters.
LEMMA ModelSteps ==
  ASSUME IInv, Feedback \/ BudgetExhausted \/ InterruptModel
  PROVE  IInv'
<1>0. ControlInv /\ phase = "model"
  BY DEF IInv, Feedback, BudgetExhausted, InterruptModel
<1>1. /\ UNCHANGED <<journal, turn, calls, effects, pos, startedIds, completedIds, escaped, stop>>
      /\ phase' \in {"model", "checkpoint", "closing"}
      /\ exc' \in {"none", "cancel", "budget", "error"}
  BY <1>0 DEF Feedback, BudgetExhausted, InterruptModel, turnVars, batchVars, memoryVars, ControlInv
<1>2. ControlInv' BY <1>0, <1>1 DEF ControlInv, Phases, Appending
<1>3. Facts' BY <1>1, FactsKept
<1>4. ~Doubtful' BY <1>0, <1>1 DEF IInv, StopInv, Doubtful
<1>5. StopInv' BY <1>4 DEF StopInv
<1> QED BY <1>1, <1>2, <1>3, <1>5, Outside DEF Calling

-----------------------------------------------------------------------------
(***************************************************************************)
(* The steps that write a record about no call.                            *)
(***************************************************************************)

\* Such a record changes nothing about calls, effects and doubt.
LEMMA PlainAppends ==
  ASSUME IInv, AppendDue,
         phase \in {"begin", "prompt", "reply", "results", "checkpoint", "completed", "closing"},
         UNCHANGED <<turn, calls, effects, startedIds, completedIds, escaped>>
  PROVE  /\ Facts' /\ (Doubtful' => Doubtful)
         /\ \A n \in Nat : Unseen(n) => Unseen(n)'
<1>0. JournalInv BY DEF IInv, Facts
<1>1. /\ journal' = Append(journal, Due) /\ Due.turn = turn /\ Due.kind \notin ToolKinds
      /\ (Due.kind = "assistant_message" => phase = "reply") /\ Due.kind # "tool_started"
  BY DueIs DEF AppendDue, Appending, ToolKinds
<1>2. phase = "reply" => ~Doubtful BY DEF IInv, StopInv
<1>3. Facts' BY <1>1, <1>2, FactsAppended DEF ToolKinds
<1>4. Doubtful' => Doubtful BY <1>0, <1>1, CallsAppended DEF ToolKinds
<1>5. ASSUME NEW n \in Nat, Unseen(n) PROVE Unseen(n)'
  BY <1>0, <1>1, <1>5, CallsAppended DEF Unseen
<1> QED BY <1>3, <1>4, <1>5

\* The records outside a batch, and the one that ends it.
LEMMA TurnRecordSteps ==
  ASSUME IInv,
         \/ RecordTurnStarted \/ RecordUserMessage \/ RecordResults \/ RecordCheckpoint
         \/ RecordTurnCompleted \/ RecordTurnEnded
  PROVE  IInv'
<1>0. ControlInv /\ StopInv BY DEF IInv
<1>1. /\ AppendDue /\ UNCHANGED <<turn, calls, effects, startedIds, completedIds, escaped>>
      /\ phase \in {"begin", "prompt", "results", "checkpoint", "completed", "closing"}
  BY DEF RecordTurnStarted, RecordUserMessage, RecordResults, RecordCheckpoint,
         RecordTurnCompleted, RecordTurnEnded, turnVars, memoryVars
<1>2. Facts' /\ (Doubtful' => Doubtful) BY <1>1, PlainAppends
<1>3. /\ pos' \in Nat \ {0} /\ stop' \in BOOLEAN /\ exc' \in {"none", "cancel", "budget", "error"}
  <2>1. UNCHANGED <<pos, stop>> \/ (pos' = 1 /\ stop' = FALSE)
    BY DEF RecordTurnStarted, RecordUserMessage, RecordResults, RecordCheckpoint,
           RecordTurnCompleted, RecordTurnEnded, NoBatch, batchVars
  <2>2. exc' = exc \/ exc' = "none"
    BY DEF RecordTurnStarted, RecordUserMessage, RecordResults, RecordCheckpoint,
           RecordTurnCompleted, RecordTurnEnded
  <2>3. stop' \in BOOLEAN BY <1>0, <2>1, Zenon DEF ControlInv
  <2> QED BY <1>0, <2>1, <2>2, <2>3 DEF ControlInv
<1>4. /\ phase' \in {"prompt", "model", "checkpoint", "closing", "completed", "idle"}
      /\ Doubtful => phase' \in {"checkpoint", "closing", "completed", "idle"}
  <2>1. CASE RecordResults
    <3>1. Doubtful => exc # "none" BY <2>1, <1>0 DEF StopInv, RecordResults
    <3>2. CASE exc = "budget" BY <2>1, <3>2 DEF RecordResults
    <3>3. CASE exc \in {"cancel", "error"} BY <2>1, <3>3 DEF RecordResults
    <3>4. CASE exc = "none" /\ OverBudget(toolRequests) BY <2>1, <3>4 DEF RecordResults
    <3>5. CASE exc = "none" /\ ~OverBudget(toolRequests)
      <4>1. phase' \in {"model", "checkpoint"} BY <2>1, <3>5 DEF RecordResults
      <4> QED BY <4>1, <3>1, <3>5
    <3> QED BY <1>0, <3>2, <3>3, <3>4, <3>5 DEF ControlInv
  <2>2. CASE ~RecordResults
    BY <2>2, <1>0 DEF StopInv, RecordTurnStarted, RecordUserMessage, RecordCheckpoint,
       RecordTurnCompleted, RecordTurnEnded
  <2> QED BY <2>1, <2>2
<1>5. ControlInv' BY <1>0, <1>1, <1>3, <1>4 DEF ControlInv, Phases, Appending
<1>6. StopInv' BY <1>2, <1>4 DEF StopInv
<1> QED BY <1>2, <1>4, <1>5, <1>6, Outside DEF Calling

\* The assistant message is on record: its calls are still to come.
LEMMA RecordAssistantStep ==
  ASSUME IInv, RecordAssistant
  PROVE  IInv'
<1>0. ControlInv /\ StopInv /\ phase = "reply" BY DEF IInv, RecordAssistant
<1>1. /\ AppendDue
      /\ UNCHANGED <<turn, calls, effects, startedIds, completedIds, escaped, batch, pos, stop, exc>>
      /\ phase' \in {"model", "checkpoint", "check"}
  BY DEF RecordAssistant, turnVars, memoryVars, batchVars
<1>2. /\ Facts' /\ (Doubtful' => Doubtful)
      /\ \A n \in Nat : Unseen(n) => Unseen(n)'
  BY <1>0, <1>1, PlainAppends
<1>3. ControlInv' BY <1>0, <1>1 DEF ControlInv, Phases, Appending
<1>4. StopInv' BY <1>0, <1>2 DEF StopInv
<1>5. CASE phase' # "check" BY <1>1, <1>2, <1>3, <1>4, <1>5, Outside DEF Calling
<1>6. CASE phase' = "check"
  <2>0. /\ batch \in Seq(Call) /\ Len(batch) \in Nat /\ pos = 1
        /\ \A i \in 1 .. Len(batch) : batch[i].n \in Nat
    <3>1. batch \in Seq(Call) /\ pos = 1 BY <1>0 DEF IInv, BatchInv, Calling
    <3>2. \A i \in 1 .. Len(batch) : batch[i] \in Call BY <3>1, ElementOfSeq
    <3> QED BY <3>1, <3>2 DEF Call
  <2>1. BatchInv' BY <1>0, <1>1 DEF IInv, BatchInv, Calling
  <2>2. AheadInv'
    <3> SUFFICES ASSUME NEW i \in 1 .. Len(batch)
                 PROVE  /\ i >= pos => Unseen(batch[i].n)'
                        /\ \A e \in effects : e.n = batch[i].n =>
                             e.turn = turn /\ batch[i].effect = "write"
      BY <1>1, <1>6, <2>0 DEF AheadInv
    <3>1. i >= pos => Unseen(batch[i].n) BY <1>0, <2>0 DEF IInv, AheadInv, Calling
    <3>2. \A e \in effects : e.n = batch[i].n => e.turn = turn /\ batch[i].effect = "write"
      BY <1>0 DEF IInv, AheadInv, Calling
    <3> QED BY <1>1, <1>2, <2>0, <3>1, <3>2
  <2>3. HandInv' /\ TailInv' BY <1>6 DEF HandInv, TailInv
  <2>4. CleanInv'
    <3>1. \A i \in 1 .. Len(batch) : ~(i < pos) BY <2>0
    <3> QED BY <1>1, <1>6, <3>1 DEF CleanInv
  <2> QED BY <1>2, <1>3, <1>4, <2>1, <2>2, <2>3, <2>4 DEF IInv
<1> QED BY <1>5, <1>6

\* A new turn, a crash and a resumed session begin outside of any batch.
LEMMA SessionSteps ==
  ASSUME IInv, StartTurn \/ Crash \/ Resume
  PROVE  IInv'
<1>0. ControlInv /\ StopInv /\ JournalInv BY DEF IInv, Facts
<1>1. UNCHANGED <<journal, calls, effects, escaped>>
      /\ phase' \in {"begin", "down", "idle"} /\ (phase' = "begin" <=> turn' = turn + 1)
      /\ (phase' # "begin" => turn' = turn)
  BY <1>0 DEF StartTurn, Crash, Resume, turnVars, ControlInv
<1>2. startedIds' \subseteq 1 .. calls /\ completedIds' \subseteq 1 .. calls
  <2>1. CASE StartTurn \/ Crash BY <2>1 DEF StartTurn, Crash
  <2>2. CASE Resume
    BY <2>2, <1>0 DEF Resume, HydratedIds, JournalInv, ToolKinds
  <2> QED BY <2>1, <2>2
<1>3. /\ pos' \in Nat \ {0} /\ stop' \in BOOLEAN /\ exc' \in {"none", "cancel", "budget", "error"}
  <2>1. (UNCHANGED <<pos, stop, exc>>) \/ (pos' = 1 /\ stop' = FALSE /\ exc' = "none")
    BY DEF StartTurn, Crash, Resume, NoBatch, batchVars
  <2>2. stop' \in BOOLEAN BY <1>0, <2>1, Zenon DEF ControlInv
  <2> QED BY <1>0, <2>1, <2>2 DEF ControlInv
<1>4. ControlInv' BY <1>0, <1>1, <1>2, <1>3 DEF ControlInv, Phases, Appending
<1>5. CASE phase' # "begin"
  <2>1. Facts' BY <1>1, <1>5, FactsKept
  <2>2. StopInv' BY <1>1, <1>5 DEF StopInv
  <2> QED BY <1>1, <1>4, <2>1, <2>2, Outside DEF Calling
<1>6. CASE phase' = "begin"
  <2>1. turn' = turn + 1 /\ turn \in Nat BY <1>0, <1>1, <1>6 DEF ControlInv
  <2>2. JournalInv' /\ EffectInv'
    <3>1. JournalInv' BY <1>0, <1>1, <2>1 DEF JournalInv
    <3>2. EffectInv' BY <1>1 DEF IInv, Facts, EffectInv
    <3> QED BY <3>1, <3>2
  <2>3. EffectsAccounted'
    BY <1>1 DEF IInv, Facts, EffectsAccounted, EffectsKnown, ReportedExecuted,
                StopsAtFirstFailure, InterruptedTurnStops
  <2>4. ~Doubtful'
    <3>1. \A i \in 1 .. Len(journal) : journal[i].turn # turn'
      BY <1>0, <2>1 DEF JournalInv
    <3> QED BY <1>1, <3>1 DEF Doubtful, Completions
  <2> QED BY <1>1, <1>4, <2>2, <2>3, <2>4, Outside DEF StopInv, Facts, Calling
<1> QED BY <1>5, <1>6

-----------------------------------------------------------------------------
(***************************************************************************)
(* The steps that concern the call at hand.                                *)
(***************************************************************************)

\* The calls of a response are numbered in a row.
LEMMA BatchFacts ==
  ASSUME ControlInv, BatchInv, phase \in Calling
  PROVE  /\ batch \in Seq(Call) /\ Len(batch) \in Nat
         /\ \A i \in 1 .. Len(batch) :
              /\ batch[i] \in Call /\ batch[i].n \in Nat /\ batch[i].n \in 1 .. calls
              /\ batch[i].id = batch[i].n
         /\ \A i, j \in 1 .. Len(batch) : i < j <=> batch[i].n < batch[j].n
         /\ \A i, j \in 1 .. Len(batch) : batch[i].n = batch[j].n => i = j
<1>1. /\ batch \in Seq(Call) /\ Len(batch) \in Nat /\ Len(batch) <= calls /\ calls \in Nat
      /\ \A i \in 1 .. Len(batch) : batch[i].n + Len(batch) = calls + i /\ batch[i].id = batch[i].n
  BY DEF BatchInv, ControlInv
<1>2. \A i \in 1 .. Len(batch) : batch[i] \in Call BY <1>1, ElementOfSeq
<1>3. \A i \in 1 .. Len(batch) : batch[i].n \in Nat BY <1>2 DEF Call
<1>4. \A i \in 1 .. Len(batch) : batch[i].n \in 1 .. calls BY <1>1, <1>3
<1>5. \A i, j \in 1 .. Len(batch) : i < j <=> batch[i].n < batch[j].n BY <1>1, <1>3
<1>6. \A i, j \in 1 .. Len(batch) : batch[i].n = batch[j].n => i = j BY <1>1, <1>3
<1> QED BY <1>1, <1>2, <1>3, <1>4, <1>5, <1>6

\* A record about the call at hand leaves the calls after it unseen.
LEMMA AheadAppended ==
  ASSUME IInv, phase \in Calling, pos \in 1 .. Len(batch),
         NEW r, journal' = Append(journal, r), r.call = current,
         UNCHANGED <<turn, effects, batch>>,
         startedIds' \subseteq startedIds \cup {current.id},
         completedIds' \subseteq completedIds \cup {current.id},
         NEW i \in 1 .. Len(batch), i > pos
  PROVE  Unseen(batch[i].n)'
<1>0. JournalInv /\ ControlInv /\ BatchInv /\ AheadInv BY DEF IInv, Facts
<1>1. Unseen(batch[i].n) BY <1>0 DEF AheadInv
<1>2. batch[i].n \in Nat /\ current.id = current.n /\ batch[i].n # current.n
  BY <1>0, BatchFacts DEF current
<1>3. batch[i].n \notin startedIds' /\ batch[i].n \notin completedIds'
  BY <1>1, <1>2 DEF Unseen
<1> QED BY <1>0, <1>1, <1>2, <1>3, CallsAppended

\* The intent is on record before the tool runs.
LEMMA RecordIntentStep ==
  ASSUME IInv, RecordIntent
  PROVE  IInv'
<1>0. /\ ControlInv /\ BatchInv /\ AheadInv /\ HandInv /\ StopInv /\ CleanInv /\ JournalInv
      /\ phase = "prepare" /\ phase \in Calling
  BY DEF IInv, RecordIntent, Calling, Facts
<1>1. /\ pos \in 1 .. Len(batch) /\ ~stop
      /\ current.id = current.n /\ current.n \in Nat /\ current.n \in 1 .. calls
  <2>1. pos <= Len(batch) /\ ~stop BY <1>0 DEF HandInv
  <2>2. pos \in 1 .. Len(batch) BY <1>0, <2>1, BatchFacts DEF ControlInv
  <2> QED BY <1>0, <2>1, <2>2, BatchFacts DEF current
<1>2. Unseen(current.n) BY <1>0, <1>1 DEF AheadInv, current
<1>3. /\ journal' = Append(journal, Due) /\ startedIds' = startedIds \cup {current.id}
      /\ phase' = "run"
      /\ UNCHANGED <<turn, calls, effects, escaped, batch, pos, stop, exc, completedIds>>
  BY <1>1, <1>2 DEF RecordIntent, Unseen, AppendDue, turnVars, batchVars
<1>4. Due.turn = turn /\ Due.kind = "tool_started" /\ Due.call = current
  BY <1>0, DueIs DEF Appending
<1>5. ControlInv' BY <1>0, <1>1, <1>3 DEF ControlInv, Phases
<1>6. ~Doubtful BY <1>0 DEF StopInv
<1>7. Facts' BY <1>1, <1>3, <1>4, <1>6, FactsAppended
<1>8. ~Doubtful' BY <1>0, <1>3, <1>4, <1>6, CallsAppended
<1>9. StopInv' BY <1>8 DEF StopInv
<1>10. BatchInv' BY <1>0, <1>3 DEF BatchInv, Calling
<1>11. AheadInv'
  <2>1. \A i \in 1 .. Len(batch) : i > pos => Unseen(batch[i].n)'
    BY <1>0, <1>1, <1>3, <1>4, AheadAppended
  <2> QED BY <1>0, <1>3, <2>1 DEF AheadInv
<1>12. HandInv'
  <2>1. Uncompleted(current.n) BY <1>0 DEF HandInv
  <2>2. current' = current BY <1>3 DEF current
  <2>3. Uncompleted(current.n)'
    BY <1>0, <1>1, <1>3, <1>4, <2>1, <2>2, CallsAppended DEF Uncompleted
  <2>4. Key(Due) = <<turn, current.n>> BY <1>1, <1>4 DEF Key
  <2>5. <<turn, current.n>> \in Started(journal')
    BY <1>0, <1>3, <1>4, <2>4, CallsAppended
  <2> QED BY <1>1, <1>3, <2>2, <2>3, <2>5 DEF HandInv
<1>13. TailInv' BY <1>3 DEF TailInv
<1>14. CleanInv'
  <2>1. \A i \in 1 .. Len(batch) : \A e \in effects :
          i < pos /\ e.n = batch[i].n => Succeeded(e)
    BY <1>0, <1>1 DEF CleanInv
  <2>2. \A e \in effects : Succeeded(e) => Succeeded(e)' BY <1>0, <1>3, CallsAppended
  <2> QED BY <1>3, <2>1, <2>2 DEF CleanInv
<1> QED BY <1>5, <1>7, <1>9, <1>10, <1>11, <1>12, <1>13, <1>14 DEF IInv

\* A tool changes the world only with its intent on record, and after every write of its
\* batch before it has succeeded.
LEMMA TakeEffectStep ==
  ASSUME IInv, TakeEffect
  PROVE  IInv'
<1> DEFINE new == [n |-> current.n, id |-> current.id, turn |-> turn, first |-> batch[1].n]
<1>0. /\ ControlInv /\ BatchInv /\ AheadInv /\ HandInv /\ StopInv /\ CleanInv
      /\ JournalInv /\ EffectInv /\ EffectsAccounted /\ phase = "run" /\ phase \in Calling
  BY DEF IInv, TakeEffect, Calling, Facts
<1>1. /\ pos \in 1 .. Len(batch) /\ ~stop /\ 1 \in 1 .. Len(batch) /\ batch[1].n \in Nat
      /\ current.id = current.n /\ current.n \in Nat /\ current.n \in 1 .. calls
      /\ batch[1].n <= current.n
  <2>1. pos <= Len(batch) /\ ~stop BY <1>0 DEF HandInv
  <2>2. pos \in 1 .. Len(batch) /\ 1 \in 1 .. Len(batch)
    BY <1>0, <2>1, BatchFacts DEF ControlInv
  <2>3. 1 < pos \/ 1 = pos BY <2>2
  <2>4. batch[1].n \in Nat /\ batch[pos].n \in Nat /\ (1 < pos => batch[1].n < batch[pos].n)
    BY <1>0, <2>2, BatchFacts
  <2> QED BY <1>0, <2>1, <2>2, <2>3, <2>4, BatchFacts DEF current
<1>2. /\ effects' = effects \cup {new} /\ current.effect = "write"
      /\ \A e \in effects : e.n # current.n
      /\ UNCHANGED <<journal, turn, calls, escaped, batch, pos, stop, exc, completedIds,
                     startedIds, phase, outcome>>
  BY DEF TakeEffect, turnVars, batchVars, memoryVars
<1>3. /\ new.n = current.n /\ new.id = current.n /\ new.turn = turn /\ new.first = batch[1].n
      /\ new \in Effect /\ EffectKey(new) = <<turn, current.n>>
  BY <1>0, <1>1 DEF Effect, EffectKey, ControlInv
<1> HIDE DEF new
<1>4. ControlInv' BY <1>0, <1>2 DEF ControlInv
<1>5. JournalInv' BY <1>0, <1>2 DEF JournalInv
<1>6. EffectInv' BY <1>0, <1>1, <1>2, <1>3 DEF EffectInv
<1>7. EffectsKnown'
  <2>1. <<turn, current.n>> \in Started(journal) /\ Uncompleted(current.n)
    BY <1>0 DEF HandInv
  <2>2. \A k \in Completions(journal) : Key(journal[k]) # <<turn, current.n>>
    BY <2>1 DEF Uncompleted, Completions, Key
  <2>3. EffectKey(new) \in Indeterminate(journal) BY <1>3, <2>1, <2>2 DEF Indeterminate
  <2> QED BY <1>0, <1>2, <2>3 DEF EffectsAccounted, EffectsKnown, ReportedExecuted
<1>8. \A e \in effects : e.first = new.first =>
        \E i \in 1 .. Len(batch) : i < pos /\ e.n = batch[i].n
  <2> SUFFICES ASSUME NEW e \in effects, e.first = batch[1].n
               PROVE  \E i \in 1 .. Len(batch) : i < pos /\ e.n = batch[i].n
    BY <1>3
  <2>1. e.n \in Nat /\ batch[1].n <= e.n /\ e.n <= calls /\ calls \in Nat
    BY <1>0 DEF EffectInv, Effect, ControlInv
  <2>2. /\ Len(batch) \in Nat
        /\ \A i \in 1 .. Len(batch) : batch[i].n + Len(batch) = calls + i /\ batch[i].n \in Nat
    BY <1>0, BatchFacts DEF BatchInv
  <2> DEFINE i == e.n + Len(batch) - calls
  <2>3. i \in 1 .. Len(batch)
    <3>1. batch[1].n + Len(batch) = calls + 1 /\ batch[1].n \in Nat BY <1>1, <2>2
    <3> QED BY <2>1, <2>2, <3>1
  <2>4. e.n = batch[i].n BY <2>1, <2>2, <2>3
  <2>5. ~(i > pos) BY <1>0, <2>3, <2>4 DEF AheadInv, Unseen
  <2>6. i # pos BY <1>2, <2>4 DEF current
  <2> HIDE DEF i
  <2> QED BY <1>1, <2>3, <2>4, <2>5, <2>6
<1>9. StopsAtFirstFailure'
  <2> SUFFICES ASSUME NEW e \in effects', NEW f \in effects', e.first = f.first, e.n < f.n
               PROVE  \E k \in Completions(journal) :
                        /\ Key(journal[k]) = EffectKey(e)
                        /\ journal[k].result = Outcome("executed", TRUE)
    BY <1>2 DEF StopsAtFirstFailure
  <2>1. CASE e \in effects /\ f \in effects
    BY <1>0, <2>1 DEF EffectsAccounted, StopsAtFirstFailure
  <2>2. CASE e \in effects /\ f = new
    <3>1. PICK i \in 1 .. Len(batch) : i < pos /\ e.n = batch[i].n BY <1>8, <2>2
    <3> QED BY <1>0, <1>1, <2>2, <3>1 DEF CleanInv, Succeeded
  <2>3. CASE e = new /\ f \in effects
    <3>1. PICK i \in 1 .. Len(batch) : i < pos /\ f.n = batch[i].n BY <1>8, <2>3
    <3>2. batch[i].n < batch[pos].n /\ batch[i].n \in Nat /\ batch[pos].n \in Nat
      BY <1>0, <1>1, <3>1, BatchFacts
    <3> QED BY <1>3, <2>3, <3>1, <3>2 DEF current
  <2>4. CASE e = new /\ f = new BY <2>4, <1>1, <1>3
  <2> QED BY <1>2, <2>1, <2>2, <2>3, <2>4
<1>10. Facts'
  <2>1. InterruptedTurnStops' BY <1>0, <1>2 DEF EffectsAccounted, InterruptedTurnStops
  <2> QED BY <1>5, <1>6, <1>7, <1>9, <2>1 DEF Facts, EffectsAccounted
<1>11. BatchInv' BY <1>0, <1>2 DEF BatchInv
<1>12. AheadInv'
  <2> SUFFICES ASSUME NEW i \in 1 .. Len(batch)
               PROVE  /\ i > pos => Unseen(batch[i].n)'
                      /\ \A e \in effects' : e.n = batch[i].n =>
                           e.turn = turn /\ batch[i].effect = "write"
    BY <1>0, <1>2 DEF AheadInv
  <2>1. batch[i].n = current.n => i = pos BY <1>0, <1>1, BatchFacts DEF current
  <2>2. i > pos => Unseen(batch[i].n)'
    <3> SUFFICES ASSUME i > pos PROVE Unseen(batch[i].n)' OBVIOUS
    <3>1. Unseen(batch[i].n) BY <1>0 DEF AheadInv
    <3>2. batch[i].n # current.n BY <1>1, <2>1
    <3> QED BY <1>2, <1>3, <3>1, <3>2 DEF Unseen
  <2>3. \A e \in effects' : e.n = batch[i].n => e.turn = turn /\ batch[i].effect = "write"
    BY <1>0, <1>2, <1>3, <2>1 DEF AheadInv, current
  <2> QED BY <2>2, <2>3
<1>13. HandInv' BY <1>0, <1>2 DEF HandInv, Uncompleted, current
<1>14. TailInv' BY <1>0, <1>2 DEF TailInv
<1>15. CleanInv'
  <2> SUFFICES ASSUME NEW i \in 1 .. Len(batch), NEW e \in effects', i < pos, e.n = batch[i].n
               PROVE  Succeeded(e)'
    BY <1>2 DEF CleanInv
  <2>1. e # new
    <3>1. batch[i].n < batch[pos].n /\ batch[i].n \in Nat BY <1>0, <1>1, BatchFacts
    <3> QED BY <1>1, <1>3, <3>1 DEF current
  <2> QED BY <1>0, <1>1, <1>2, <2>1 DEF CleanInv, Succeeded
<1>16. StopInv' BY <1>0, <1>2 DEF StopInv, Doubtful
<1> QED BY <1>4, <1>10, <1>11, <1>12, <1>13, <1>14, <1>15, <1>16 DEF IInv

\* The outcome is on record: it says what the tool did, and a failure stops the batch.
LEMMA RecordOutcomeStep ==
  ASSUME IInv, RecordOutcome
  PROVE  IInv'
<1>0. /\ ControlInv /\ BatchInv /\ AheadInv /\ HandInv /\ StopInv /\ CleanInv
      /\ JournalInv /\ EffectInv /\ phase = "record" /\ phase \in Calling
  BY DEF IInv, RecordOutcome, Calling, Facts
<1>1. /\ pos \in 1 .. Len(batch) /\ Len(batch) \in Nat
      /\ current.id = current.n /\ current.n \in Nat /\ current.n \in 1 .. calls
  <2>1. pos <= Len(batch) BY <1>0 DEF HandInv
  <2>2. pos \in 1 .. Len(batch) BY <1>0, <2>1, BatchFacts DEF ControlInv
  <2> QED BY <1>0, <2>2, BatchFacts DEF current
<1>2. /\ journal' = Append(journal, Due) /\ completedIds' = completedIds \cup {current.id}
      /\ pos' = pos + 1 /\ stop' = (stop \/ ~outcome.ok)
      /\ exc' = IF exc = "none" /\ outcome.status = "indeterminate" THEN "cancel" ELSE exc
      /\ phase' = IF outcome.status = "cancelled" /\ ~stop THEN "tail" ELSE "check"
      /\ UNCHANGED <<turn, calls, effects, escaped, batch, startedIds>>
  <2>1. current.id \notin completedIds BY <1>0, <1>1 DEF HandInv, Uncompleted
  <2> QED BY <2>1 DEF RecordOutcome, Complete, AppendDue, turnVars
<1>3. /\ Due.turn = turn /\ Due.kind = "tool_completed" /\ Due.call = current
      /\ Due.result = outcome
  BY <1>0, DueIs DEF Appending
<1>4. /\ outcome.ok \in BOOLEAN /\ (outcome.status = "indeterminate" => ~outcome.ok)
      /\ outcome = Outcome(outcome.status, outcome.ok)
      /\ Took(current) => outcome.status \in {"executed", "indeterminate"}
  BY <1>0 DEF HandInv
<1>5. ControlInv'
  <2>1. stop' \in BOOLEAN BY <1>2
  <2>2. exc' \in {"none", "cancel", "budget", "error"} BY <1>0, <1>2 DEF ControlInv
  <2>3. phase' \in Phases BY <1>2 DEF Phases, Appending
  <2>4. completedIds' \subseteq 1 .. calls BY <1>0, <1>1, <1>2 DEF ControlInv
  <2>5. pos' \in Nat \ {0} BY <1>1, <1>2
  <2>6. UNCHANGED <<turn, calls, startedIds, escaped>> BY <1>2
  <2> QED BY <1>0, <2>1, <2>2, <2>3, <2>4, <2>5, <2>6 DEF ControlInv
<1>6. Facts'
  <2>1. \A e \in effects : e.n = current.id =>
          e.n \in escaped' \/ outcome.status \in {"executed", "indeterminate"}
    BY <1>1, <1>4 DEF Took
  <2> QED BY <1>1, <1>2, <1>3, <2>1, FactsAppended DEF ToolKinds
<1>7. BatchInv' BY <1>0, <1>2 DEF BatchInv, Calling
<1>8. \A i \in 1 .. Len(batch) : i > pos => Unseen(batch[i].n)'
  BY <1>0, <1>1, <1>2, <1>3, AheadAppended
<1>9. AheadInv'
  <2>1. \A i \in 1 .. Len(batch) : i > pos' \/ i = pos' => i > pos BY <1>1, <1>2
  <2> QED BY <1>0, <1>2, <1>8, <2>1 DEF AheadInv
<1>10. HandInv' BY <1>2 DEF HandInv
<1>11. TailInv'
  <2> SUFFICES ASSUME pos + 1 <= Len(batch), NEW e \in effects, e.n = batch[pos + 1].n
               PROVE  FALSE
    BY <1>2 DEF TailInv
  <2>1. pos + 1 \in 1 .. Len(batch) /\ pos + 1 > pos BY <1>1
  <2>2. Unseen(batch[pos + 1].n) BY <1>0, <2>1 DEF AheadInv
  <2> QED BY <2>2 DEF Unseen
<1>12. CleanInv'
  <2> SUFFICES ASSUME ~stop', NEW i \in 1 .. Len(batch), NEW e \in effects, i < pos + 1,
                      e.n = batch[i].n
               PROVE  Succeeded(e)'
    BY <1>2 DEF CleanInv
  <2>1. ~stop /\ outcome.ok = TRUE BY <1>2, <1>4
  <2>2. CASE i < pos
    <3>1. Succeeded(e) BY <1>0, <2>1, <2>2 DEF CleanInv
    <3> QED BY <1>0, <1>2, <3>1, CallsAppended
  <2>3. CASE i = pos
    <3>1. Took(current) /\ e.n = current.n BY <2>3 DEF Took, current
    <3>2. outcome = Outcome("executed", TRUE)
      <4>1. outcome.status = "executed" BY <1>4, <2>1, <3>1
      <4> QED BY <1>4, <2>1, <4>1
    <3>3. e.turn = turn /\ e.id = current.n
      BY <1>0, <1>1, <2>3, <3>1 DEF AheadInv, EffectInv
    <3>4. Key(Due) = EffectKey(e) BY <1>1, <1>3, <3>3 DEF Key, EffectKey
    <3>5. /\ Len(journal) + 1 \in 1 .. Len(journal')
          /\ journal'[Len(journal) + 1] = Due
      BY <1>0, <1>2, JournalGrows
    <3>6. Len(journal) + 1 \in Completions(journal') BY <1>3, <3>5 DEF Completions
    <3> QED BY <1>3, <3>2, <3>4, <3>5, <3>6 DEF Succeeded
  <2> QED BY <1>1, <2>2, <2>3
<1>13. StopInv'
  <2>1. Doubtful' => Doubtful \/ outcome.status = "indeterminate"
    BY <1>0, <1>2, <1>3, CallsAppended
  <2>2. CASE Doubtful
    <3>1. stop /\ exc # "none" BY <1>0, <2>2 DEF StopInv
    <3>2. stop' /\ exc' # "none" /\ phase' = "check" BY <1>2, <3>1
    <3> QED BY <3>2 DEF StopInv
  <2>3. CASE outcome.status = "indeterminate"
    <3>1. stop' /\ exc' # "none" /\ phase' = "check" BY <1>2, <1>4, <2>3
    <3> QED BY <3>1 DEF StopInv
  <2> QED BY <2>1, <2>2, <2>3 DEF StopInv
<1> QED BY <1>5, <1>6, <1>7, <1>9, <1>10, <1>11, <1>12, <1>13 DEF IInv

\* The finally block says "not executed" only of calls that did nothing, or that escaped.
LEMMA RecordTailStep ==
  ASSUME IInv, RecordTail
  PROVE  IInv'
<1>0. /\ ControlInv /\ BatchInv /\ AheadInv /\ TailInv /\ StopInv
      /\ JournalInv /\ phase = "tail" /\ phase \in Calling
  BY DEF IInv, RecordTail, Calling, Facts
<1>1. /\ pos \in 1 .. Len(batch) /\ Len(batch) \in Nat
      /\ current.id = current.n /\ current.n \in Nat /\ current.n \in 1 .. calls
  <2>1. pos <= Len(batch) BY DEF RecordTail
  <2>2. pos \in 1 .. Len(batch) BY <1>0, <2>1, BatchFacts DEF ControlInv
  <2> QED BY <1>0, <2>2, BatchFacts DEF current
<1>2. /\ pos' = pos + 1 /\ completedIds' \subseteq completedIds \cup {current.id}
      /\ UNCHANGED <<turn, calls, effects, escaped, batch, startedIds, phase, stop, exc>>
      /\ (UNCHANGED <<journal, completedIds>>) \/ journal' = Append(journal, Due)
  BY DEF RecordTail, Complete, AppendDue, turnVars
<1>3. /\ Due.turn = turn /\ Due.kind = "tool_completed" /\ Due.call = current
      /\ Due.result = NotExecuted
  BY <1>0, DueIs DEF Appending
<1>4. ControlInv' BY <1>0, <1>1, <1>2 DEF ControlInv
<1>5. BatchInv' BY <1>0, <1>2 DEF BatchInv
<1>6. HandInv' /\ CleanInv' BY <1>0, <1>2 DEF HandInv, CleanInv
<1>7. TailInv'
  <2> SUFFICES ASSUME pos + 1 <= Len(batch), NEW e \in effects, e.n = batch[pos + 1].n
               PROVE  FALSE
    BY <1>2 DEF TailInv
  <2>1. pos + 1 \in 1 .. Len(batch) /\ pos + 1 > pos BY <1>1
  <2>2. Unseen(batch[pos + 1].n) BY <1>0, <2>1 DEF AheadInv
  <2> QED BY <2>2 DEF Unseen
<1>8. \A i \in 1 .. Len(batch) : i > pos' => i > pos BY <1>1, <1>2
<1>9. CASE UNCHANGED <<journal, completedIds>>
  <2>1. Facts' BY <1>2, <1>9, FactsKept
  <2>2. AheadInv' BY <1>0, <1>2, <1>8, <1>9 DEF AheadInv, Unseen
  <2>3. StopInv' BY <1>0, <1>2, <1>9 DEF StopInv, Doubtful
  <2> QED BY <1>4, <1>5, <1>6, <1>7, <2>1, <2>2, <2>3 DEF IInv
<1>10. CASE journal' = Append(journal, Due)
  <2>1. Facts'
    <3>1. \A e \in effects : e.n = current.id => e.n \in escaped'
      BY <1>0, <1>1, <1>2 DEF TailInv, current
    <3> QED BY <1>1, <1>2, <1>3, <1>10, <3>1, FactsAppended DEF ToolKinds
  <2>2. AheadInv'
    <3>1. \A i \in 1 .. Len(batch) : i > pos => Unseen(batch[i].n)'
      BY <1>0, <1>1, <1>2, <1>3, <1>10, AheadAppended
    <3> QED BY <1>0, <1>2, <1>8, <3>1 DEF AheadInv
  <2>3. StopInv'
    <3>1. Doubtful' => Doubtful
      BY <1>0, <1>2, <1>3, <1>10, CallsAppended, OutcomeIs DEF NotExecuted
    <3> QED BY <1>0, <1>2, <3>1 DEF StopInv
  <2> QED BY <1>4, <1>5, <1>6, <1>7, <2>1, <2>2, <2>3 DEF IInv
<1> QED BY <1>2, <1>9, <1>10

\* A response with calls: numbers nobody has seen, each its own id when the provider does
\* not use an id again.
LEMMA ModelRespondsStep ==
  ASSUME ~RepeatIds, IInv, ModelResponds
  PROVE  IInv'
<1>0. /\ ControlInv /\ JournalInv /\ EffectInv /\ StopInv /\ phase = "model" /\ calls \in Nat
      /\ turn \in Nat
  BY DEF IInv, ModelResponds, Facts, ControlInv
<1>1. /\ UNCHANGED <<journal, turn, effects, escaped, startedIds, completedIds, exc>>
      /\ pos' = 1 /\ phase' = "reply"
  BY DEF ModelResponds
<1>2. ~Doubtful' BY <1>0, <1>1 DEF StopInv, Doubtful
<1>3. StopInv' /\ TailInv' /\ HandInv' /\ CleanInv'
  BY <1>1, <1>2 DEF StopInv, TailInv, HandInv, CleanInv
<1>4. /\ calls' \in Nat /\ calls <= calls' /\ stop' \in BOOLEAN
      /\ batch' \in Seq(Call) /\ Len(batch') <= calls'
      /\ \A i \in 1 .. Len(batch') :
           /\ batch'[i].n + Len(batch') = calls' + i /\ batch'[i].id = batch'[i].n
           /\ batch'[i].n \in Nat /\ batch'[i].n > calls
  <2>1. CASE batch' = <<>> /\ UNCHANGED <<toolRequests, calls, stop>>
    <3>1. stop' \in BOOLEAN BY <1>0, <2>1 DEF ControlInv
    <3> QED BY <1>0, <2>1, <3>1
  <2>2. ASSUME NEW k \in 1 .. MaxBatch, NEW ids \in NewIds(k), NEW es \in [1 .. k -> Effects],
               batch' = [i \in 1 .. k |-> [n |-> calls + i, id |-> ids[i], effect |-> es[i]]],
               calls' = calls + k,
               stop' \in IF OverBudget(toolRequests') THEN {TRUE} ELSE BOOLEAN
        PROVE  /\ calls' \in Nat /\ calls <= calls' /\ stop' \in BOOLEAN
               /\ batch' \in Seq(Call) /\ Len(batch') <= calls'
               /\ \A i \in 1 .. Len(batch') :
                    /\ batch'[i].n + Len(batch') = calls' + i /\ batch'[i].id = batch'[i].n
                    /\ batch'[i].n \in Nat /\ batch'[i].n > calls
    <3>1. k \in Nat BY LimitAssumption
    <3>2. \A i \in 1 .. k : ids[i] = calls + i
      <4>1. ids \in [1 .. k -> calls + 1 .. calls + k]
            /\ \A i, j \in 1 .. k : ids[i] \in calls + 1 .. calls + k => ids[i] = calls + i
        BY DEF NewIds
      <4> QED BY <4>1
    <3>3. \A i \in 1 .. k : es[i] \in EffectClasses BY EffectAssumption
    <3>4. \A i \in 1 .. k : /\ batch'[i] = [n |-> calls + i, id |-> calls + i, effect |-> es[i]]
                            /\ batch'[i] \in Call
      <4> SUFFICES ASSUME NEW i \in 1 .. k
                   PROVE  /\ batch'[i] = [n |-> calls + i, id |-> calls + i, effect |-> es[i]]
                          /\ batch'[i] \in Call
        OBVIOUS
      <4>1. calls + i \in Nat BY <1>0, <3>1
      <4>2. batch'[i] = [n |-> calls + i, id |-> calls + i, effect |-> es[i]] BY <2>2, <3>2
      <4> QED BY <3>3, <4>1, <4>2 DEF Call
    <3>5. batch' \in [1 .. k -> Call] BY <2>2, <3>4
    <3>6. batch' \in Seq(Call) /\ Len(batch') = k BY <3>1, <3>5, SeqDef, LenProperties
    <3>7. \A i \in 1 .. k : batch'[i].n = calls + i /\ batch'[i].id = calls + i
      <4> SUFFICES ASSUME NEW i \in 1 .. k
                   PROVE  batch'[i].n = calls + i /\ batch'[i].id = calls + i
        OBVIOUS
      <4>1. batch'[i] = [n |-> calls + i, id |-> calls + i, effect |-> es[i]] BY <3>4
      <4> QED BY ONLY <4>1
    <3>8. stop' \in BOOLEAN BY <2>2
    <3> QED BY <1>0, <2>2, <3>1, <3>6, <3>7, <3>8
  <2> QED BY <2>1, <2>2 DEF ModelResponds
<1>5. ControlInv'
  <2>1. 1 .. calls \subseteq 1 .. calls' BY <1>0, <1>4
  <2> QED BY <1>0, <1>1, <1>4, <2>1 DEF ControlInv, Phases, Appending
<1>6. Facts'
  <2>1. JournalInv' BY <1>0, <1>1, <1>4 DEF JournalInv
  <2>2. EffectInv' BY <1>0, <1>1, <1>4 DEF EffectInv, Effect
  <2>3. EffectsAccounted'
    BY <1>1 DEF IInv, Facts, EffectsAccounted, EffectsKnown, ReportedExecuted,
                StopsAtFirstFailure, InterruptedTurnStops
  <2> QED BY <2>1, <2>2, <2>3 DEF Facts
<1>7. BatchInv' BY <1>1, <1>4 DEF BatchInv
<1>8. AheadInv'
  <2> SUFFICES ASSUME NEW i \in 1 .. Len(batch')
               PROVE  Unseen(batch[i].n)' /\ \A e \in effects : e.n # batch'[i].n
    BY <1>1 DEF AheadInv
  <2> DEFINE n == batch'[i].n
  <2>1. n \in Nat /\ n \notin 1 .. calls BY <1>0, <1>4
  <2>2. n \notin startedIds /\ n \notin completedIds BY <1>0, <2>1 DEF ControlInv
  <2>3. \A j \in 1 .. Len(journal) : journal[j].kind \in ToolKinds => journal[j].call.id # n
    BY <1>0, <2>1 DEF JournalInv
  <2>4. \A e \in effects : e.n # n BY <1>0, <2>1 DEF EffectInv
  <2> QED BY <1>1, <2>2, <2>3, <2>4 DEF Unseen
<1> QED BY <1>3, <1>5, <1>6, <1>7, <1>8 DEF IInv

\* A failed append, whether its record reached the file or not, leads to the refusal of the
\* call, to the finally block of the batch, or out of the turn.
LEMMA AppendFailsStep ==
  ASSUME IInv, AppendFails
  PROVE  IInv'
<1>0. /\ ControlInv /\ BatchInv /\ AheadInv /\ HandInv /\ TailInv /\ CleanInv /\ StopInv
      /\ JournalInv /\ phase \in Appending
  BY DEF IInv, AppendFails, Facts
<1>1. /\ UNCHANGED <<turn, calls, effects, batch, pos, stop, startedIds, completedIds>>
      /\ journal' = journal \/ journal' = Append(journal, Due)
  BY DEF AppendFails, AppendDue, turnVars
<1>2. /\ Due.turn = turn
      /\ Due.kind = "tool_started" <=> phase = "prepare"
      /\ Due.kind = "tool_completed" <=> phase \in {"record", "tail"}
      /\ Due.kind = "assistant_message" <=> phase = "reply"
      /\ phase \in {"prepare", "record", "tail"} => Due.call = current
      /\ phase = "record" => Due.result = outcome
      /\ phase = "tail" => Due.result = NotExecuted
  BY <1>0, DueIs
<1>3. phase \in {"prepare", "record", "tail"} =>
        /\ pos \in 1 .. Len(batch) /\ phase \in Calling
        /\ current.id = current.n /\ current.n \in Nat /\ current.n \in 1 .. calls
  <2> SUFFICES ASSUME phase \in {"prepare", "record", "tail"}
               PROVE  /\ pos \in 1 .. Len(batch) /\ phase \in Calling
                      /\ current.id = current.n /\ current.n \in Nat /\ current.n \in 1 .. calls
    OBVIOUS
  <2>1. phase \in Calling BY DEF Calling
  <2>2. pos <= Len(batch) BY <1>0 DEF HandInv, AppendFails
  <2>3. pos \in 1 .. Len(batch) BY <1>0, <2>1, <2>2, BatchFacts DEF ControlInv
  <2> QED BY <1>0, <2>1, <2>3, BatchFacts DEF current
<1>4. escaped' = IF phase = "record" THEN escaped \cup {current.n} ELSE escaped
  BY DEF AppendFails
<1>5. escaped \subseteq escaped' /\ escaped' \subseteq 1 .. calls
  BY <1>0, <1>3, <1>4 DEF ControlInv
<1>6. Facts'
  <2>1. CASE journal' = journal BY <1>1, <1>5, <2>1, FactsKept
  <2>2. CASE journal' = Append(journal, Due)
    <3>1. Due.kind \in ToolKinds => Due.call.id \in 1 .. calls
      BY <1>2, <1>3 DEF ToolKinds
    <3>2. Due.kind = "tool_completed" =>
            \A e \in effects : e.n = Due.call.id => e.n \in escaped'
      <4>1. CASE phase = "record" BY <1>2, <1>3, <1>4, <4>1
      <4>2. CASE phase = "tail" BY <1>0, <1>2, <1>3, <1>4, <4>2 DEF TailInv, current
      <4> QED BY <1>2, <4>1, <4>2
    <3>3. phase \in {"prepare", "reply"} => ~Doubtful BY <1>0 DEF StopInv
    <3> QED BY <1>1, <1>2, <1>5, <2>2, <3>1, <3>2, <3>3, FactsAppended
  <2> QED BY <1>1, <2>1, <2>2
<1>7. Doubtful' => Doubtful \/ phase \in {"record", "tail"}
  <2>1. CASE journal' = journal BY <1>1, <2>1 DEF Doubtful
  <2>2. CASE journal' = Append(journal, Due) BY <1>0, <1>1, <1>2, <2>2, CallsAppended
  <2> QED BY <1>1, <2>1, <2>2
<1>8. phase \in {"prepare", "record"} =>
        \A i \in 1 .. Len(batch) : i > pos => Unseen(batch[i].n)'
  <2>1. CASE journal' = journal
    <3>1. phase \in {"prepare", "record"} =>
            \A i \in 1 .. Len(batch) : i > pos => Unseen(batch[i].n)
      BY <1>0, <1>3 DEF AheadInv
    <3> QED BY <1>1, <2>1, <3>1 DEF Unseen
  <2>2. CASE journal' = Append(journal, Due)
    BY <1>1, <1>2, <1>3, <2>2, AheadAppended
  <2> QED BY <1>1, <2>1, <2>2
<1>9. CASE phase = "prepare"
  <2>1. outcome' = Outcome("rejected", FALSE) /\ phase' = "record" /\ exc' = exc
    BY <1>9 DEF AppendFails
  <2>2. ControlInv' BY <1>0, <1>1, <1>5, <2>1 DEF ControlInv, Phases, Appending
  <2>3. BatchInv' BY <1>0, <1>1, <1>9, <2>1 DEF BatchInv, Calling
  <2>4. AheadInv'
    BY <1>0, <1>1, <1>3, <1>8, <1>9, <2>1 DEF AheadInv
  <2>5. Unseen(current.n) /\ current' = current /\ ~stop
    BY <1>0, <1>1, <1>3, <1>9 DEF AheadInv, current, HandInv
  <2>6. Uncompleted(current.n)'
    <3>1. Uncompleted(current.n) BY <1>0, <1>9 DEF HandInv
    <3>2. CASE journal' = journal BY <1>1, <2>5, <3>1, <3>2 DEF Uncompleted
    <3>3. CASE journal' = Append(journal, Due)
      BY <1>0, <1>1, <1>2, <1>3, <1>9, <2>5, <3>1, <3>3, CallsAppended DEF Uncompleted
    <3> QED BY <1>1, <3>2, <3>3
  <2>7. HandInv'
    <3>1. outcome'.status = "rejected" /\ outcome'.ok = FALSE
          /\ outcome' = Outcome(outcome'.status, outcome'.ok)
      BY <2>1, OutcomeIs
    <3>2. ~Took(current)' BY <1>1, <2>5 DEF Took, Unseen
    <3>3. pos' <= Len(batch') BY <1>0, <1>1, <1>9 DEF HandInv
    <3>4. outcome'.ok \in BOOLEAN BY <3>1
    <3> QED BY <2>1, <2>6, <3>1, <3>2, <3>3, <3>4 DEF HandInv
  <2>8. TailInv' BY <2>1 DEF TailInv
  <2>9. CleanInv'
    <3>1. \A i \in 1 .. Len(batch) : \A e \in effects :
            i < pos /\ e.n = batch[i].n => Succeeded(e)
      BY <1>0, <1>9, <2>5 DEF CleanInv
    <3>2. \A e \in effects : Succeeded(e) => Succeeded(e)'
      <4>1. CASE journal' = journal BY <4>1 DEF Succeeded
      <4>2. CASE journal' = Append(journal, Due) BY <1>0, <1>1, <4>2, CallsAppended
      <4> QED BY <1>1, <4>1, <4>2
    <3> QED BY <1>1, <3>1, <3>2 DEF CleanInv
  <2>10. StopInv' BY <1>0, <1>7, <1>9 DEF StopInv
  <2> QED BY <1>6, <2>2, <2>3, <2>4, <2>7, <2>8, <2>9, <2>10 DEF IInv
<1>10. CASE phase = "record"
  <2>1. phase' = "tail" /\ exc' = "error" BY <1>10 DEF AppendFails, AfterFailure
  <2>2. ControlInv' BY <1>0, <1>1, <1>5, <2>1 DEF ControlInv, Phases, Appending
  <2>3. BatchInv' BY <1>0, <1>1, <1>10, <2>1 DEF BatchInv, Calling
  <2>4. AheadInv'
    BY <1>0, <1>1, <1>3, <1>8, <1>10, <2>1 DEF AheadInv
  <2>5. TailInv' BY <1>1, <1>4, <1>10 DEF TailInv, current
  <2>6. HandInv' /\ CleanInv' BY <2>1 DEF HandInv, CleanInv
  <2>7. StopInv' BY <2>1 DEF StopInv
  <2> QED BY <1>6, <2>2, <2>3, <2>4, <2>5, <2>6, <2>7 DEF IInv
<1>11. CASE phase \notin {"prepare", "record"}
  <2>1. phase' \in {"closing", "idle"} /\ exc' \in {"none", "error"}
    BY <1>11 DEF AppendFails, AfterFailure
  <2>2. ControlInv' BY <1>0, <1>1, <1>5, <2>1 DEF ControlInv, Phases, Appending
  <2>3. StopInv' BY <2>1 DEF StopInv
  <2> QED BY <1>6, <2>1, <2>2, <2>3, Outside DEF Calling
<1> QED BY <1>9, <1>10, <1>11

-----------------------------------------------------------------------------
\* Journal, batch and world fit together in every reachable state, when no provider uses a
\* call id again.
THEOREM Inductive == ~RepeatIds /\ Spec => []IInv
<1> SUFFICES ASSUME ~RepeatIds PROVE Spec => []IInv OBVIOUS
<1>1. Init => IInv
  <2> SUFFICES ASSUME Init PROVE IInv OBVIOUS
  <2>1. ControlInv
    <3>1. stop \in BOOLEAN /\ phase \in Phases /\ exc \in {"none", "cancel", "budget", "error"}
      BY DEF Init, Phases
    <3>2. turn = 0 /\ calls = 0 /\ pos = 1 /\ startedIds = {} /\ completedIds = {} /\ escaped = {}
      BY DEF Init
    <3> QED BY <3>1, <3>2 DEF ControlInv
  <2>2. journal = <<>> /\ Len(journal) = 0 /\ effects = {} /\ phase = "idle" BY DEF Init
  <2>3. journal \in Seq({}) BY <2>2
  <2>4. JournalInv /\ EffectInv BY <2>2, <2>3 DEF JournalInv, EffectInv
  <2>5. EffectsAccounted
    BY <2>2 DEF EffectsAccounted, EffectsKnown, StopsAtFirstFailure, InterruptedTurnStops,
                Completions
  <2>6. BatchInv /\ AheadInv /\ HandInv /\ TailInv /\ CleanInv /\ StopInv
    BY <2>2 DEF BatchInv, AheadInv, HandInv, TailInv, CleanInv, StopInv, Calling
  <2> QED BY <2>1, <2>4, <2>5, <2>6 DEF IInv, Facts
<1>2. IInv /\ [Next]_vars => IInv'
  <2> SUFFICES ASSUME IInv, [Next]_vars PROVE IInv' OBVIOUS
  <2>1. CASE Next
    BY <2>1, CheckSteps, RunSteps, InterruptStep, EndSteps, ModelSteps, TurnRecordSteps,
       RecordAssistantStep, SessionSteps, RecordIntentStep, TakeEffectStep, RecordOutcomeStep,
       RecordTailStep, ModelRespondsStep, AppendFailsStep DEF Next, TurnStep
  <2>2. CASE UNCHANGED vars
    <3>1. UNCHANGED <<journal, phase, turn, calls, batch, pos, stop, outcome, exc, startedIds,
                      completedIds, effects, escaped>>
      BY <2>2 DEF vars, turnVars, batchVars, memoryVars
    <3>2. ControlInv' BY <3>1 DEF IInv, ControlInv
    <3>3. Facts' BY <3>1, FactsKept
    <3>4. BatchInv' BY <3>1 DEF IInv, BatchInv
    <3>5. AheadInv' BY <3>1 DEF IInv, AheadInv, Unseen
    <3>6. HandInv' BY <3>1 DEF IInv, HandInv, Uncompleted, current, Took
    <3>7. TailInv' BY <3>1 DEF IInv, TailInv
    <3>8. CleanInv' BY <3>1 DEF IInv, CleanInv, Succeeded
    <3>9. StopInv' BY <3>1 DEF IInv, StopInv, Doubtful
    <3> QED BY <3>2, <3>3, <3>4, <3>5, <3>6, <3>7, <3>8, <3>9 DEF IInv
  <2> QED BY <2>1, <2>2
<1> QED BY <1>1, <1>2, PTL DEF Spec

\* Whatever cancels, raises, crashes or fails to be appended, and wherever it does, what the
\* calls did to the world is on record, in order, and an unknown effect ends the turn.
THEOREM Accounted == ~RepeatIds /\ Spec => []EffectsAccounted
<1>1. IInv => EffectsAccounted BY DEF IInv, Facts
<1> QED BY <1>1, Inductive, PTL

-----------------------------------------------------------------------------
(* HistorySound: what a process restores is what this one held. *)

Said == [kind : MessageKinds, calls : Seq(Nat) \union Seq(Call)]
Retold == [messages : Seq(Said), pending : {m \in Said : m.kind = "calls"} \union {NoMessage}]

\* A record has the messages that its kind says.
Tellable(r) ==
  /\ r.msgs \in Seq(Said)
  /\ r.kind = "user_message" => r.msgs # <<>> /\ r.msgs[1].kind = "user"
  /\ r.kind = "assistant_message" => r.msgs # <<>> /\ r.msgs[1].kind \in {"text", "calls"}
  /\ r.kind = "tool_result_message" => r.msgs # <<>> /\ r.msgs[1].kind = "results"
  /\ r.kind \in {"tool_started", "tool_completed"} => r.call.id \in Nat

Told == \E S : journal \in Seq(S) /\ \A r \in S : Tellable(r)

CallsMessage == [kind |-> "calls", calls |-> batch]
ResultsMessage == [kind |-> "results", calls |-> batch]

Between == {"idle", "begin", "model", "checkpoint", "completed", "closing"}
InBatch == {"check", "prepare", "run", "observe", "record", "tail"}

TalkTypes ==
  /\ phase \in Phases /\ turn \in Nat /\ calls \in Nat /\ batch \in Seq(Call) /\ pos \in Nat \ {0}
  /\ startedIds \subseteq Nat /\ completedIds \subseteq Nat
  /\ messages \in Seq(Said) /\ failedAppend \in BOOLEAN
  /\ phase \in {"prepare", "run", "observe", "record"} => pos <= Len(batch)

\* What the next append writes is the last message.
DueInv ==
  /\ phase \in {"prompt", "reply", "results"} => messages # <<>>
  /\ phase = "prompt" => Last(messages).kind = "user"
  /\ phase = "reply" => Last(messages).kind = (IF batch = <<>> THEN "text" ELSE "calls")
  /\ phase = "results" => Last(messages).kind = "results"

\* The messages that the journal tells of.
Agrees(msgs) ==
  /\ Public(Restored(journal)) = Public(msgs)
  /\ ~Spoiled => Paired(msgs)

\* So far the journal tells of all messages but those of the response under way.
TellInv ==
  ~failedAppend =>
    /\ phase \in Between => Agrees(messages)
    /\ phase = "prompt" => \E s \in Seq(Said), m \in Said : messages = Append(s, m) /\ Agrees(s)
    /\ phase = "reply" =>
         \E s \in Seq(Said) :
           /\ messages = Append(s, IF batch = <<>> THEN [kind |-> "text", calls |-> <<>>] ELSE CallsMessage)
           /\ Agrees(s)
    /\ phase \in InBatch =>
         \E s \in Seq(Said) :
           /\ messages = Append(s, CallsMessage) /\ Agrees(s)
           /\ Replayed(journal).pending = CallsMessage
    /\ phase = "results" =>
         \E s \in Seq(Said) :
           /\ messages = Append(Append(s, CallsMessage), ResultsMessage) /\ Agrees(s)
           /\ Replayed(journal).pending = CallsMessage

\* What a process would restore can be sent to a model.
TalkInv ==
  /\ TalkTypes /\ Told /\ DueInv /\ TellInv
  /\ Replayed(journal) \in Retold
  /\ ~Spoiled => Paired(Restored(journal))

-----------------------------------------------------------------------------
(* The replay of the journal and the messages of a conversation. *)

\* What of the first i messages is not feedback: the function Public is defined by.
Keeps(msgs, kept) ==
  kept = [i \in 0 .. Len(msgs) |->
            IF i = 0 THEN <<>>
            ELSE IF msgs[i].kind = "feedback" THEN kept[i - 1] ELSE Append(kept[i - 1], msgs[i])]

\* The function is there, and there is one only.
LEMMA KeepsOne ==
  ASSUME NEW msgs \in Seq(Said)
  PROVE  \E kept \in [0 .. Len(msgs) -> Seq(Said)] :
           /\ Keeps(msgs, kept) /\ Public(msgs) = kept[Len(msgs)]
           /\ \A k : Keeps(msgs, k) => k = kept
<1> DEFINE g == [x \in Seq(Said) \X Said |-> IF x[2].kind = "feedback" THEN x[1] ELSE Append(x[1], x[2])]
<1>1. g \in [Seq(Said) \X Said -> Seq(Said)]
  OBVIOUS
<1>2. <<>> \in Seq(Said) /\ Len(msgs) \in Nat
  OBVIOUS
<1>3. PICK f \in [0 .. Len(msgs) -> Seq(Said)] : IsFold(f, <<>>, g, msgs)
  BY <1>1, <1>2, FoldExists
<1>4. ASSUME NEW i \in 0 .. Len(msgs)
      PROVE  f[i] = IF i = 0 THEN <<>>
                    ELSE IF msgs[i].kind = "feedback" THEN f[i - 1] ELSE Append(f[i - 1], msgs[i])
  <2>1. CASE i = 0
    BY <1>3, <2>1 DEF IsFold
  <2>2. CASE i # 0
    <3>1. i \in 1 .. Len(msgs) /\ i - 1 \in 0 .. Len(msgs)
      BY <2>2, <1>2
    <3>2. f[i - 1] \in Seq(Said) /\ msgs[i] \in Said
      BY <3>1, <1>3
    <3>3. f[i] = g[<<f[i - 1], msgs[i]>>]
      BY <3>1, <1>3 DEF IsFold
    <3> QED
      BY <2>2, <3>2, <3>3
  <2> QED
    BY <2>1, <2>2
<1>5. Keeps(msgs, f)
  BY <1>3, <1>4 DEF Keeps
<1>6. ASSUME NEW k, Keeps(msgs, k) PROVE k = f
  <2>1. k = [i \in 0 .. Len(msgs) |-> k[i]] /\ f = [i \in 0 .. Len(msgs) |-> f[i]]
    BY <1>6, <1>3 DEF Keeps
  <2>2. k[0] = f[0]
    BY <1>2, <1>4, <1>6 DEF Keeps
  <2>3. ASSUME NEW i \in 1 .. Len(msgs), f[i - 1] = k[i - 1] PROVE f[i] = k[i]
    <3>1. i \in 0 .. Len(msgs) /\ i # 0
      BY <1>2
    <3> QED
      BY <1>4, <1>6, <2>3, <3>1 DEF Keeps
  <2> QED
    BY <1>2, <2>1, <2>2, <2>3, OneFunction
<1>7. f = CHOOSE k : Keeps(msgs, k)
  BY <1>5, <1>6
<1>8. Public(msgs) = f[Len(msgs)]
  BY <1>7 DEF Public, Keeps
<1> QED
  BY <1>5, <1>6, <1>8

\* A message more is a public one more, unless it is feedback.
LEMMA PublicStep ==
  ASSUME NEW s \in Seq(Said), NEW m \in Said
  PROVE  /\ Public(s) \in Seq(Said)
         /\ Public(Append(s, m)) = IF m.kind = "feedback" THEN Public(s) ELSE Append(Public(s), m)
<1>1. PICK before \in [0 .. Len(s) -> Seq(Said)] :
        /\ Public(s) = before[Len(s)] /\ \A k : Keeps(s, k) => k = before
  BY KeepsOne
<1>2. PICK n \in Nat, l \in Seq(Said) : n = Len(s) /\ l = Append(s, m)
  OBVIOUS
<1>3. Len(l) = n + 1 /\ l[n + 1] = m /\ \A i \in 1 .. n : l[i] = s[i]
  BY <1>2
<1>4. PICK after \in [0 .. Len(l) -> Seq(Said)] : Keeps(l, after) /\ Public(l) = after[Len(l)]
  BY KeepsOne
<1>5. \A i \in 0 .. n + 1 : after[i] = IF i = 0 THEN <<>>
                                       ELSE IF l[i].kind = "feedback" THEN after[i - 1] ELSE Append(after[i - 1], l[i])
  BY <1>3, <1>4 DEF Keeps
<1> DEFINE k == [i \in 0 .. n |-> after[i]]
<1>6. Keeps(s, k)
  <2>1. ASSUME NEW i \in 0 .. n
        PROVE  k[i] = IF i = 0 THEN <<>>
                      ELSE IF s[i].kind = "feedback" THEN k[i - 1] ELSE Append(k[i - 1], s[i])
    <3>1. CASE i = 0
      BY <1>5, <3>1
    <3>2. CASE i # 0
      <4>1. i \in 1 .. n /\ i - 1 \in 0 .. n /\ i \in 0 .. n + 1
        BY <3>2
      <4>2. k[i - 1] = after[i - 1] /\ k[i] = after[i] /\ l[i] = s[i]
        BY <4>1, <1>3
      <4> QED
        BY <4>1, <4>2, <1>5, <3>2
    <3> QED
      BY <3>1, <3>2
  <2> HIDE DEF k
  <2>2. k = [i \in 0 .. n |-> k[i]]
    BY DEF k
  <2> QED
    BY <2>1, <2>2, <1>2 DEF Keeps
<1>7. after[n] = Public(s)
  BY <1>1, <1>2, <1>6
<1>8. after[n + 1] = IF m.kind = "feedback" THEN after[n] ELSE Append(after[n], m)
  <2>1. n + 1 \in 0 .. n + 1 /\ n + 1 # 0 /\ (n + 1) - 1 = n
    BY <1>2
  <2>2. after[n + 1] = IF l[n + 1].kind = "feedback" THEN after[(n + 1) - 1] ELSE Append(after[(n + 1) - 1], l[n + 1])
    BY <1>5, <2>1
  <2> QED
    BY <1>3, <2>1, <2>2
<1>9. Public(s) \in Seq(Said)
  BY <1>1, <1>2
<1> QED
  BY <1>2, <1>3, <1>4, <1>7, <1>8, <1>9

\* One record replayed (_build_state).
LEMMA ReplayTyped ==
  ASSUME NEW st \in Retold, NEW r, Tellable(r)
  PROVE  ReplayMessage(st, r) \in Retold
<1>1. st.messages \in Seq(Said) /\ r.msgs \in Seq(Said)
  BY DEF Retold, Tellable
<1>2. r.msgs # <<>> => r.msgs[1] \in Said
  BY <1>1
<1>3. CASE r.kind = "user_message"
  <2>1. Append(st.messages, r.msgs[1]) \in Seq(Said)
    BY <1>1, <1>2, <1>3 DEF Tellable
  <2> QED
    BY <1>3, <2>1 DEF ReplayMessage, Retold
<1>4. CASE r.kind = "assistant_message"
  <2>1. Append(st.messages, r.msgs[1]) \in Seq(Said)
    BY <1>1, <1>2, <1>4 DEF Tellable
  <2>2. r.msgs[1] \in Said
    BY <1>2, <1>4 DEF Tellable
  <2> QED
    BY <1>4, <2>1, <2>2 DEF ReplayMessage, Retold
<1>5. CASE r.kind = "tool_result_message"
  <2>1. r.msgs[1] \in Said
    BY <1>2, <1>5 DEF Tellable
  <2>2. st.pending # NoMessage => Append(Append(st.messages, st.pending), r.msgs[1]) \in Seq(Said)
    <3>1. st.pending # NoMessage => st.pending \in Said
      BY DEF Retold
    <3> QED
      BY <1>1, <2>1, <3>1
  <2>3. ReplayMessage(st, r).messages \in Seq(Said) /\ ReplayMessage(st, r).pending = NoMessage
        /\ ReplayMessage(st, r) = [messages |-> ReplayMessage(st, r).messages, pending |-> NoMessage]
    BY <1>1, <1>5, <2>2 DEF ReplayMessage
  <2> QED
    BY <2>3 DEF Retold
<1>6. CASE r.kind = "message_checkpoint"
  BY <1>1, <1>6 DEF ReplayMessage, Retold
<1>7. CASE r.kind \notin {"user_message", "assistant_message", "tool_result_message", "message_checkpoint"}
  BY <1>7 DEF ReplayMessage
<1> QED
  BY <1>3, <1>4, <1>5, <1>6, <1>7

\* What the first i records make: the function Replayed is defined by.
Replays(j, after) ==
  after = [i \in 0 .. Len(j) |-> IF i = 0 THEN NothingReplayed ELSE ReplayMessage(after[i - 1], j[i])]

\* The function is there, and there is one only.
LEMMA ReplaysOne ==
  ASSUME NEW S, \A r \in S : Tellable(r), NEW j \in Seq(S)
  PROVE  \E after \in [0 .. Len(j) -> Retold] :
           /\ Replays(j, after) /\ Replayed(j) = after[Len(j)]
           /\ \A k : Replays(j, k) => k = after
<1> DEFINE g == [x \in Retold \X S |-> ReplayMessage(x[1], x[2])]
<1>1. g \in [Retold \X S -> Retold]
  BY ReplayTyped
<1>2. NothingReplayed \in Retold /\ Len(j) \in Nat
  BY DEF NothingReplayed, Retold
<1>3. PICK f \in [0 .. Len(j) -> Retold] : IsFold(f, NothingReplayed, g, j)
  BY <1>1, <1>2, FoldExists
<1>4. ASSUME NEW i \in 0 .. Len(j)
      PROVE  f[i] = IF i = 0 THEN NothingReplayed ELSE ReplayMessage(f[i - 1], j[i])
  <2>1. CASE i = 0
    BY <1>3, <2>1 DEF IsFold
  <2>2. CASE i # 0
    <3>1. i \in 1 .. Len(j) /\ i - 1 \in 0 .. Len(j)
      BY <2>2, <1>2
    <3>2. f[i - 1] \in Retold /\ j[i] \in S
      BY <3>1, <1>3
    <3>3. f[i] = g[<<f[i - 1], j[i]>>]
      BY <3>1, <1>3 DEF IsFold
    <3> QED
      BY <2>2, <3>2, <3>3
  <2> QED
    BY <2>1, <2>2
<1>5. Replays(j, f)
  BY <1>3, <1>4 DEF Replays
<1>6. ASSUME NEW k, Replays(j, k) PROVE k = f
  <2>1. k = [i \in 0 .. Len(j) |-> k[i]] /\ f = [i \in 0 .. Len(j) |-> f[i]]
    BY <1>6, <1>3 DEF Replays
  <2>2. k[0] = f[0]
    BY <1>2, <1>4, <1>6 DEF Replays
  <2>3. ASSUME NEW i \in 1 .. Len(j), f[i - 1] = k[i - 1] PROVE f[i] = k[i]
    <3>1. i \in 0 .. Len(j) /\ i # 0
      BY <1>2
    <3> QED
      BY <1>4, <1>6, <2>3, <3>1 DEF Replays
  <2> QED
    BY <1>2, <2>1, <2>2, <2>3, OneFunction
<1>7. f = CHOOSE k : Replays(j, k)
  BY <1>5, <1>6
<1>8. Replayed(j) = f[Len(j)]
  BY <1>7 DEF Replayed, Replays
<1> QED
  BY <1>5, <1>6, <1>8

\* A further record is replayed upon what there was.
LEMMA ReplayedStep ==
  ASSUME NEW S, \A e \in S : Tellable(e), NEW j \in Seq(S), NEW r \in S
  PROVE  Replayed(j) \in Retold /\ Replayed(Append(j, r)) = ReplayMessage(Replayed(j), r)
<1>1. PICK before \in [0 .. Len(j) -> Retold] :
        /\ Replayed(j) = before[Len(j)] /\ \A k : Replays(j, k) => k = before
  BY ReplaysOne
<1>2. PICK n \in Nat, l \in Seq(S) : n = Len(j) /\ l = Append(j, r)
  OBVIOUS
<1>3. Len(l) = n + 1 /\ l[n + 1] = r /\ \A i \in 1 .. n : l[i] = j[i]
  BY <1>2
<1>4. PICK after \in [0 .. Len(l) -> Retold] : Replays(l, after) /\ Replayed(l) = after[Len(l)]
  BY ReplaysOne
<1>5. \A i \in 0 .. n + 1 : after[i] = IF i = 0 THEN NothingReplayed ELSE ReplayMessage(after[i - 1], l[i])
  BY <1>3, <1>4 DEF Replays
<1> DEFINE k == [i \in 0 .. n |-> after[i]]
<1>6. Replays(j, k)
  <2>1. ASSUME NEW i \in 0 .. n
        PROVE  k[i] = IF i = 0 THEN NothingReplayed ELSE ReplayMessage(k[i - 1], j[i])
    <3>1. CASE i = 0
      BY <1>5, <3>1
    <3>2. CASE i # 0
      <4>1. i \in 1 .. n /\ i - 1 \in 0 .. n /\ i \in 0 .. n + 1
        BY <3>2
      <4>2. k[i - 1] = after[i - 1] /\ k[i] = after[i] /\ l[i] = j[i]
        BY <4>1, <1>3
      <4> QED
        BY <4>1, <4>2, <1>5, <3>2
    <3> QED
      BY <3>1, <3>2
  <2> HIDE DEF k
  <2>2. k = [i \in 0 .. n |-> k[i]]
    BY DEF k
  <2> QED
    BY <2>1, <2>2, <1>2 DEF Replays
<1>7. after[n] = Replayed(j)
  BY <1>1, <1>2, <1>6
<1>8. after[n + 1] = ReplayMessage(after[n], r)
  BY <1>3, <1>5
<1>9. Replayed(j) \in Retold
  BY <1>1, <1>2
<1> QED
  BY <1>2, <1>3, <1>4, <1>7, <1>8, <1>9

\* A message that calls nothing leaves the others paired.
LEMMA PairedStep ==
  ASSUME NEW s \in Seq(Said), Paired(s), NEW m \in Said, m.kind # "calls"
  PROVE  Paired(Append(s, m))
<1>0. Append(s, m) \in Seq(Said) /\ Len(s) \in Nat
  OBVIOUS
<1>1. PICK n \in Nat, l \in Seq(Said) : n = Len(s) /\ l = Append(s, m)
  BY ONLY <1>0
<1>2. /\ DOMAIN l = 1 .. n + 1 /\ DOMAIN s = 1 .. n /\ Len(l) = n + 1
      /\ l[n + 1] = m /\ \A i \in 1 .. n : l[i] = s[i]
  BY <1>1
<1>3. ASSUME NEW i \in 1 .. n + 1, l[i].kind = "calls"
      PROVE  i < n + 1 /\ l[i + 1] = [kind |-> "results", calls |-> l[i].calls]
  <2>1. i \in 1 .. n
    BY <1>2, <1>3
  <2>2. i < n /\ s[i + 1] = [kind |-> "results", calls |-> s[i].calls]
    BY <1>1, <1>2, <1>3, <2>1 DEF Paired
  <2>3. i + 1 \in 1 .. n /\ i < n + 1
    BY <2>1, <2>2
  <2> QED
    BY <1>2, <2>1, <2>2, <2>3
<1> QED
  BY <1>1, <1>2, <1>3 DEF Paired

\* Calls with their results leave the others paired.
LEMMA PairedPair ==
  ASSUME NEW s \in Seq(Said), Paired(s), NEW c \in Said, NEW m \in Said,
         m.kind = "results", m.calls = c.calls
  PROVE  Paired(Append(Append(s, c), m))
<1>0. Append(Append(s, c), m) \in Seq(Said) /\ Len(s) \in Nat
  OBVIOUS
<1>1. PICK n \in Nat, l \in Seq(Said) : n = Len(s) /\ l = Append(Append(s, c), m)
  BY ONLY <1>0
<1>2. /\ DOMAIN l = 1 .. n + 2 /\ DOMAIN s = 1 .. n /\ Len(l) = n + 2
      /\ l[n + 2] = m /\ l[n + 1] = c /\ \A i \in 1 .. n : l[i] = s[i]
  BY <1>1
<1>3. m = [kind |-> "results", calls |-> c.calls]
  BY DEF Said
<1>4. ASSUME NEW i \in 1 .. n + 2, l[i].kind = "calls"
      PROVE  i < n + 2 /\ l[i + 1] = [kind |-> "results", calls |-> l[i].calls]
  <2>1. i # n + 2
    BY <1>2, <1>4
  <2>2. CASE i = n + 1
    <3>1. i + 1 = n + 2 /\ i < n + 2
      BY <2>2
    <3> QED
      BY <1>2, <1>3, <2>2, <3>1
  <2>3. CASE i \in 1 .. n
    <3>1. i < n /\ s[i + 1] = [kind |-> "results", calls |-> s[i].calls]
      BY <1>1, <1>2, <1>4, <2>3 DEF Paired
    <3>2. i + 1 \in 1 .. n /\ i < n + 2
      BY <2>3, <3>1
    <3> QED
      BY <1>2, <2>3, <3>1, <3>2
  <2> QED
    BY <2>1, <2>2, <2>3
<1> QED
  BY <1>1, <1>2, <1>4 DEF Paired

-----------------------------------------------------------------------------
(* What a record and a step do to the replay. *)

\* The last of some messages is one of them.
LEMMA LastSaid ==
  /\ \A s \in Seq(Said) : s # <<>> => Last(s) \in Said
  /\ \A s \in Seq(Said), m \in Said : Append(s, m) \in Seq(Said) /\ Append(s, m) # <<>> /\ Last(Append(s, m)) = m
<1>1. ASSUME NEW s \in Seq(Said), s # <<>> PROVE Last(s) \in Said
  <2>1. Len(s) \in 1 .. Len(s)
    BY <1>1
  <2> QED
    BY <2>1 DEF Last
<1>2. ASSUME NEW s \in Seq(Said), NEW m \in Said
      PROVE  Append(s, m) \in Seq(Said) /\ Append(s, m) # <<>> /\ Last(Append(s, m)) = m
  BY DEF Last
<1> QED
  BY <1>1, <1>2

\* The record that a phase appends.
LEMMA DueTells ==
  ASSUME TalkTypes, DueInv, phase \in Appending, phase = "tail" => pos <= Len(batch)
  PROVE  /\ Tellable(Due) /\ Due.late = failedAppend
         /\ phase \in {"begin", "prepare", "record", "tail", "completed", "closing"} =>
              Due.kind \notin {"user_message", "assistant_message", "tool_result_message", "message_checkpoint"}
         /\ phase = "prompt" => Due.kind = "user_message" /\ Due.msgs = <<Last(messages)>>
         /\ phase = "reply" => Due.kind = "assistant_message" /\ Due.msgs = <<Last(messages)>>
         /\ phase = "results" => Due.kind = "tool_result_message" /\ Due.msgs = <<Last(messages)>>
         /\ phase = "checkpoint" => Due.kind = "message_checkpoint" /\ Due.msgs = messages
<1>1. CASE phase \in {"prompt", "reply", "results"}
  <2>1. Last(messages) \in Said /\ messages # <<>>
    BY <1>1, LastSaid DEF TalkTypes, DueInv
  <2>2. <<Last(messages)>> \in Seq(Said) /\ <<Last(messages)>> # <<>> /\ <<Last(messages)>>[1] = Last(messages)
    BY <2>1
  <2>3. CASE phase = "prompt"
    <3>1. Due.kind = "user_message" /\ Due.msgs = <<Last(messages)>> /\ Due.late = failedAppend
      BY <2>3 DEF Due, Message, Entry
    <3>2. Last(messages).kind = "user"
      BY <2>3 DEF DueInv
    <3>3. Tellable(Due)
      BY <2>2, <3>1, <3>2 DEF Tellable
    <3> QED
      BY <2>3, <3>1, <3>3
  <2>4. CASE phase = "reply"
    <3>1. Due.kind = "assistant_message" /\ Due.msgs = <<Last(messages)>> /\ Due.late = failedAppend
      BY <2>4 DEF Due, Message, Entry
    <3>2. Last(messages).kind \in {"text", "calls"}
      BY <2>4 DEF DueInv
    <3>3. Tellable(Due)
      BY <2>2, <3>1, <3>2 DEF Tellable
    <3> QED
      BY <2>4, <3>1, <3>3
  <2>5. CASE phase = "results"
    <3>1. Due.kind = "tool_result_message" /\ Due.msgs = <<Last(messages)>> /\ Due.late = failedAppend
      BY <2>5 DEF Due, Message, Entry
    <3>2. Last(messages).kind = "results"
      BY <2>5 DEF DueInv
    <3>3. Tellable(Due)
      BY <2>2, <3>1, <3>2 DEF Tellable
    <3> QED
      BY <2>5, <3>1, <3>3
  <2> QED
    BY <1>1, <2>3, <2>4, <2>5
<1>2. CASE phase = "checkpoint"
  <2>1. Due.kind = "message_checkpoint" /\ Due.msgs = messages /\ Due.late = failedAppend
    BY <1>2 DEF Due, Entry
  <2> QED
    BY <1>2, <2>1 DEF Tellable, TalkTypes
<1>3. CASE phase \in {"prepare", "record", "tail"}
  <2>1. pos \in 1 .. Len(batch)
    BY <1>3 DEF TalkTypes
  <2>2. current.id \in Nat
    <3>1. current \in Call
      BY <2>1 DEF TalkTypes, current
    <3> QED
      BY <3>1 DEF Call
  <2>3. Due.kind \in {"tool_started", "tool_completed"} /\ Due.call = current /\ Due.msgs = <<>> /\ Due.late = failedAppend
    BY <1>3 DEF Due, Entry
  <2> QED
    BY <1>3, <2>2, <2>3 DEF Tellable
<1>4. CASE phase \in {"begin", "completed", "closing"}
  <2>1. Due.kind \in {"turn_started", "turn_completed", "turn_cancelled", "turn_error"} /\ Due.msgs = <<>> /\ Due.late = failedAppend
    BY <1>4 DEF Due, Plain, Entry
  <2> QED
    BY <1>4, <2>1 DEF Tellable
<1> QED
  BY <1>1, <1>2, <1>3, <1>4 DEF Appending

\* One record replayed keeps the messages paired.
LEMMA ReplayPaired ==
  ASSUME NEW st \in Retold, NEW r, Tellable(r), Paired(st.messages),
         r.kind = "message_checkpoint" => Paired(r.msgs)
  PROVE  Paired(ReplayMessage(st, r).messages)
<1>1. st.messages \in Seq(Said) /\ r.msgs \in Seq(Said)
  BY DEF Retold, Tellable
<1>2. r.msgs # <<>> => r.msgs[1] \in Said
  BY <1>1
<1>3. CASE r.kind = "user_message"
  <2>1. r.msgs[1] \in Said /\ r.msgs[1].kind # "calls"
    BY <1>2, <1>3 DEF Tellable
  <2>2. Paired(Append(st.messages, r.msgs[1]))
    BY <1>1, <2>1, PairedStep
  <2>3. ReplayMessage(st, r).messages = Append(st.messages, r.msgs[1])
    BY <1>3 DEF ReplayMessage, Retold
  <2> QED
    BY <2>2, <2>3
<1>4. CASE r.kind = "assistant_message"
  <2>1. CASE r.msgs[1].kind = "calls"
    <3>1. ReplayMessage(st, r).messages = st.messages
      BY <1>4, <2>1 DEF ReplayMessage, Retold
    <3> QED
      BY <3>1
  <2>2. CASE r.msgs[1].kind # "calls"
    <3>1. r.msgs[1] \in Said
      BY <1>2, <1>4 DEF Tellable
    <3>2. Paired(Append(st.messages, r.msgs[1]))
      BY <1>1, <2>2, <3>1, PairedStep
    <3>3. ReplayMessage(st, r).messages = Append(st.messages, r.msgs[1])
      BY <1>4, <2>2 DEF ReplayMessage, Retold
    <3> QED
      BY <3>2, <3>3
  <2> QED
    BY <2>1, <2>2
<1>5. CASE r.kind = "tool_result_message"
  <2>1. r.msgs[1] \in Said /\ r.msgs[1].kind = "results"
    BY <1>2, <1>5 DEF Tellable
  <2>2. CASE st.pending # NoMessage /\ st.pending.calls = r.msgs[1].calls
    <3>1. st.pending \in Said
      BY <2>2 DEF Retold
    <3>2. Paired(Append(Append(st.messages, st.pending), r.msgs[1]))
      BY <1>1, <2>1, <2>2, <3>1, PairedPair
    <3>3. ReplayMessage(st, r).messages = Append(Append(st.messages, st.pending), r.msgs[1])
      BY <1>5, <2>2 DEF ReplayMessage
    <3> QED
      BY <3>2, <3>3
  <2>3. CASE ~(st.pending # NoMessage /\ st.pending.calls = r.msgs[1].calls)
    <3>1. ReplayMessage(st, r).messages = st.messages
      BY <1>5, <2>3 DEF ReplayMessage
    <3> QED
      BY <3>1
  <2> QED
    BY <2>2, <2>3
<1>6. CASE r.kind = "message_checkpoint"
  <2>1. ReplayMessage(st, r).messages = r.msgs
    BY <1>6 DEF ReplayMessage
  <2> QED
    BY <1>6, <2>1
<1>7. CASE r.kind \notin {"user_message", "assistant_message", "tool_result_message", "message_checkpoint"}
  <2>1. ReplayMessage(st, r) = st
    BY <1>7 DEF ReplayMessage
  <2> QED
    BY <2>1
<1> QED
  BY <1>3, <1>4, <1>5, <1>6, <1>7

\* A record is appended (SessionJournal._append).
LEMMA Recorded ==
  ASSUME TalkInv, phase \in Appending, phase = "tail" => pos <= Len(batch),
         journal' = Append(journal, Due)
  PROVE  /\ Told' /\ Replayed(journal') \in Retold
         /\ Replayed(journal') = ReplayMessage(Replayed(journal), Due)
         /\ Spoiled' <=> Spoiled \/ (phase = "checkpoint" /\ failedAppend)
         /\ ~Spoiled' => Paired(Restored(journal'))
<1>1. Tellable(Due) /\ Due.late = failedAppend /\ (Due.kind = "message_checkpoint" <=> phase = "checkpoint")
  BY DueTells DEF TalkInv, Appending
<1>2. PICK S : journal \in Seq(S) /\ \A r \in S : Tellable(r)
  BY DEF TalkInv, Told
<1>3. PICK T, d : T = S \union {d} /\ d = Due
  OBVIOUS
<1>4. \A r \in T : Tellable(r)
  BY <1>1, <1>2, <1>3
<1>5. journal \in Seq(T) /\ d \in T
  <2>1. Len(journal) \in Nat /\ \A i \in 1 .. Len(journal) : journal[i] \in T
    BY <1>2, <1>3
  <2>2. journal = [i \in 1 .. Len(journal) |-> journal[i]]
    BY <1>2
  <2> QED
    BY <1>3, <2>1, <2>2, SeqDef
<1>6. Replayed(journal) \in Retold /\ Replayed(Append(journal, d)) = ReplayMessage(Replayed(journal), d)
  BY <1>4, <1>5, ReplayedStep
<1>7. Replayed(journal') = ReplayMessage(Replayed(journal), Due)
  BY <1>3, <1>6
<1>8. Replayed(journal') \in Retold
  BY <1>1, <1>6, <1>7, ReplayTyped
<1>9. Told'
  <2>1. journal' \in Seq(T)
    BY <1>3, <1>5
  <2>2. \A r \in T : Tellable(r)'
    BY <1>4 DEF Tellable
  <2> QED
    BY <2>1, <2>2 DEF Told, Tellable
<1>10. Spoiled' <=> Spoiled \/ (phase = "checkpoint" /\ failedAppend)
  <2>1. PICK n \in Nat, l \in Seq(T) : n = Len(journal) /\ l = journal'
    BY <1>3, <1>5
  <2>2. /\ DOMAIN l = 1 .. n + 1 /\ DOMAIN journal = 1 .. n
        /\ l[n + 1] = Due /\ \A i \in 1 .. n : l[i] = journal[i]
    BY <2>1, <1>5
  <2>3. Spoiled' <=> \E i \in 1 .. n + 1 : l[i].kind = "message_checkpoint" /\ l[i].late
    BY <2>1, <2>2 DEF Spoiled
  <2>4. Spoiled <=> \E i \in 1 .. n : journal[i].kind = "message_checkpoint" /\ journal[i].late
    BY <2>2 DEF Spoiled
  <2>5. 1 .. n + 1 = (1 .. n) \union {n + 1}
    BY <2>1
  <2> QED
    BY <1>1, <2>2, <2>3, <2>4, <2>5
<1>11. ASSUME ~Spoiled' PROVE Paired(Restored(journal'))
  <2>1. ~Spoiled /\ ~(phase = "checkpoint" /\ failedAppend)
    BY <1>10, <1>11
  <2>2. Paired(Replayed(journal).messages)
    BY <2>1 DEF TalkInv, Restored
  <2>3. Due.kind = "message_checkpoint" => Paired(Due.msgs)
    <3>1. SUFFICES ASSUME phase = "checkpoint" PROVE Paired(Due.msgs)
      BY <1>1
    <3>2. Due.msgs = messages
      BY <3>1, DueTells DEF TalkInv, Appending
    <3>3. Agrees(messages)
      BY <2>1, <3>1 DEF TalkInv, TellInv, Between
    <3> QED
      BY <2>1, <3>2, <3>3 DEF Agrees
  <2> QED
    BY <1>1, <1>6, <1>7, <2>2, <2>3, ReplayPaired DEF Restored
<1> QED
  BY <1>7, <1>8, <1>9, <1>10, <1>11

-----------------------------------------------------------------------------
(* The steps. *)

\* The messages and what the journal tells of them stay, and so does the response under way.
LEMMA SameTalk ==
  ASSUME TalkInv, TalkTypes', Told', Replayed(journal') = Replayed(journal), Spoiled' <=> Spoiled,
         UNCHANGED <<messages, failedAppend>>,
         \/ phase \in Between /\ phase' \in Between
         \/ phase \in InBatch /\ phase' \in InBatch /\ batch' = batch
  PROVE  TalkInv'
<1>1. DueInv'
  BY DEF DueInv, Between, InBatch
<1>2. Replayed(journal') \in Retold /\ (~Spoiled' => Paired(Restored(journal')))
  BY DEF TalkInv, Restored
<1>3. Restored(journal') = Restored(journal)
  BY DEF Restored
<1>4. CASE phase \in Between /\ phase' \in Between
  <2>1. ~failedAppend => Agrees(messages)
    BY <1>4 DEF TalkInv, TellInv
  <2>2. phase' \notin {"prompt", "reply", "results"} /\ phase' \notin InBatch
    BY <1>4 DEF Between, InBatch
  <2>3. TellInv'
    BY <1>3, <2>1, <2>2 DEF TellInv, Agrees
  <2> QED
    BY <1>1, <1>2, <2>3 DEF TalkInv
<1>5. CASE phase \in InBatch /\ phase' \in InBatch /\ batch' = batch
  <2>1. ~failedAppend => \E s \in Seq(Said) : /\ messages = Append(s, CallsMessage) /\ Agrees(s)
                                              /\ Replayed(journal).pending = CallsMessage
    BY <1>5 DEF TalkInv, TellInv
  <2>2. phase' \notin {"prompt", "reply", "results"} /\ phase' \notin Between
    BY <1>5 DEF Between, InBatch
  <2>3. CallsMessage' = CallsMessage
    BY <1>5 DEF CallsMessage
  <2>4. TellInv'
    BY <1>3, <2>1, <2>2, <2>3 DEF TellInv, Agrees
  <2> QED
    BY <1>1, <1>2, <2>4 DEF TalkInv
<1> QED
  BY <1>4, <1>5

\* Nothing is written.
LEMMA QuietTalk ==
  ASSUME TalkInv, TalkTypes', UNCHANGED <<journal, messages, failedAppend>>,
         \/ phase \in Between /\ phase' \in Between
         \/ phase \in InBatch /\ phase' \in InBatch /\ batch' = batch
  PROVE  TalkInv'
<1>1. Told' /\ (Spoiled' <=> Spoiled) /\ Replayed(journal') = Replayed(journal)
  BY DEF TalkInv, Told, Spoiled, Tellable
<1> QED
  BY <1>1, SameTalk

\* A record without a message is written, or none.
LEMMA SilentTalk ==
  ASSUME TalkInv, TalkTypes', phase \in {"prepare", "record", "tail", "completed", "closing"},
         phase = "tail" => pos <= Len(batch),
         journal' = journal \/ journal' = Append(journal, Due),
         UNCHANGED <<messages, failedAppend>>,
         \/ phase \in Between /\ phase' \in Between
         \/ phase \in InBatch /\ phase' \in InBatch /\ batch' = batch
  PROVE  TalkInv'
<1>1. CASE journal' = journal
  BY <1>1, QuietTalk
<1>2. CASE journal' = Append(journal, Due)
  <2>1. /\ Told' /\ (Spoiled' <=> Spoiled)
        /\ Replayed(journal') = ReplayMessage(Replayed(journal), Due)
    BY <1>2, Recorded DEF Appending
  <2>2. Due.kind \notin {"user_message", "assistant_message", "tool_result_message", "message_checkpoint"}
    BY DueTells DEF TalkInv, Appending
  <2>3. Replayed(journal') = Replayed(journal)
    BY <2>1, <2>2 DEF ReplayMessage
  <2> QED
    BY <2>1, <2>3, SameTalk
<1> QED
  BY <1>1, <1>2

\* SessionJournal.record_turn_started, then the prompt is put into the messages.
LEMMA TalkRecordTurnStarted ==
  ASSUME TalkInv, RecordTurnStarted
  PROVE  TalkInv'
<1> USE DEF RecordTurnStarted, AppendDue, turnVars, batchVars
<1> DEFINE m == [kind |-> "user", calls |-> <<turn>>]
<1>1. m \in Said /\ m.kind = "user" /\ messages \in Seq(Said)
  BY DEF TalkInv, TalkTypes, Said, MessageKinds
<1> HIDE DEF m
<1>2. messages' = Append(messages, m) /\ phase = "begin" /\ phase' = "prompt"
  BY DEF m
<1>3. messages' \in Seq(Said) /\ messages' # <<>> /\ Last(messages') = m
  BY <1>1, <1>2, LastSaid
<1>4. TalkTypes'
  BY <1>3 DEF TalkInv, TalkTypes, Phases, Appending
<1>5. DueInv'
  BY <1>1, <1>2, <1>3 DEF DueInv
<1>6. /\ Told' /\ Replayed(journal') \in Retold /\ (Spoiled' <=> Spoiled)
      /\ Replayed(journal') = ReplayMessage(Replayed(journal), Due)
      /\ ~Spoiled' => Paired(Restored(journal'))
  BY Recorded DEF Appending
<1>7. Restored(journal') = Restored(journal)
  BY <1>2, <1>6, DueTells DEF TalkInv, Appending, ReplayMessage, Restored
<1>8. ~failedAppend' => Agrees(messages)
  BY <1>2 DEF TalkInv, TellInv, Between
<1>9. TellInv'
  <2>1. SUFFICES ASSUME ~failedAppend'
                 PROVE  \E s \in Seq(Said), k \in Said : messages' = Append(s, k) /\ Agrees(s)'
    BY <1>2 DEF TellInv, Between, InBatch
  <2>2. Agrees(messages)
    BY <1>8, <2>1
  <2>3. \A s : Agrees(s) => Agrees(s)'
    BY <1>6, <1>7 DEF Agrees
  <2> QED
    BY <1>1, <1>2, <2>2, <2>3
<1> QED
  BY <1>4, <1>5, <1>6, <1>9 DEF TalkInv

\* SessionJournal.record_message of the prompt.
LEMMA TalkRecordUserMessage ==
  ASSUME TalkInv, RecordUserMessage
  PROVE  TalkInv'
<1> USE DEF RecordUserMessage, AppendDue, turnVars, batchVars, memoryVars
<1>1. phase = "prompt" /\ phase' = "model" /\ messages' = messages /\ failedAppend' = failedAppend
  OBVIOUS
<1>2. TalkTypes' /\ DueInv'
  BY DEF TalkInv, TalkTypes, DueInv, Phases, Appending
<1>3. /\ Told' /\ Replayed(journal') \in Retold /\ (Spoiled' <=> Spoiled)
      /\ Replayed(journal') = ReplayMessage(Replayed(journal), Due)
      /\ ~Spoiled' => Paired(Restored(journal'))
  BY Recorded DEF Appending
<1>4. Due.kind = "user_message" /\ Due.msgs = <<Last(messages)>>
  BY DueTells DEF TalkInv, Appending
<1>5. Restored(journal') = Append(Restored(journal), Last(messages)) /\ Restored(journal) \in Seq(Said)
  BY <1>3, <1>4 DEF ReplayMessage, Restored, TalkInv, Retold
<1>6. ASSUME ~failedAppend PROVE Agrees(messages)'
  <2>1. PICK s \in Seq(Said), m \in Said : messages = Append(s, m) /\ Agrees(s)
    BY <1>6, <1>1 DEF TalkInv, TellInv
  <2>2. Last(messages) = m /\ m.kind = "user"
    BY <1>1, <2>1, LastSaid DEF TalkInv, DueInv
  <2>3. Public(Restored(journal')) = Append(Public(Restored(journal)), m)
    BY <1>5, <2>2, PublicStep
  <2>4. Public(messages) = Append(Public(s), m)
    BY <2>1, <2>2, PublicStep
  <2>5. ~Spoiled => Paired(messages)
    BY <2>1, <2>2, PairedStep DEF Agrees
  <2> QED
    BY <1>1, <1>3, <2>1, <2>3, <2>4, <2>5 DEF Agrees
<1>7. TellInv'
  BY <1>1, <1>6 DEF TellInv, InBatch
<1> QED
  BY <1>2, <1>3, <1>7 DEF TalkInv

\* TurnRunner._loop: the response of the model.
LEMMA TalkModelResponds ==
  ASSUME EffectAssumption, TalkInv, ModelResponds
  PROVE  TalkInv'
<1> USE DEF ModelResponds
<1>1. phase = "model" /\ phase' = "reply" /\ journal' = journal /\ failedAppend' = failedAppend /\ pos' = 1
  OBVIOUS
<1>2. /\ batch' \in Seq(Call) /\ calls' \in Nat
      /\ messages' = Append(messages, IF batch' = <<>> THEN [kind |-> "text", calls |-> <<>>]
                                      ELSE [kind |-> "calls", calls |-> batch'])
  <2>1. CASE batch' = <<>> /\ messages' = Append(messages, [kind |-> "text", calls |-> <<>>]) /\ calls' = calls
    BY <2>1 DEF TalkInv, TalkTypes
  <2>2. ASSUME NEW k \in 1 .. MaxBatch, NEW ids \in NewIds(k), NEW es \in [1 .. k -> Effects],
               batch' = [i \in 1 .. k |-> [n |-> calls + i, id |-> ids[i], effect |-> es[i]]],
               messages' = Append(messages, [kind |-> "calls", calls |-> batch']),
               calls' = calls + k
        PROVE  batch' \in Seq(Call) /\ batch' # <<>> /\ calls' \in Nat
    <3>1. k \in Nat \ {0} /\ calls \in Nat
      BY LimitAssumption DEF TalkInv, TalkTypes
    <3>2. \A i \in 1 .. k : ids[i] \in Nat
      <4>1. startedIds \union completedIds \subseteq Nat
        BY DEF TalkInv, TalkTypes
      <4>2. ids \in [1 .. k -> (calls + 1 .. calls + k) \union (IF RepeatIds THEN startedIds \union completedIds ELSE {})]
        BY <2>2 DEF NewIds
      <4>3. calls + 1 .. calls + k \subseteq Nat
        BY <3>1
      <4> QED
        BY <4>1, <4>2, <4>3
    <3>3. \A i \in 1 .. k : es[i] \in EffectClasses
      BY <2>2 DEF EffectAssumption
    <3>4. \A i \in 1 .. k : [n |-> calls + i, id |-> ids[i], effect |-> es[i]] \in Call
      BY <3>1, <3>2, <3>3 DEF Call
    <3>5. batch' \in [1 .. k -> Call]
      BY <2>2, <3>4
    <3>6. batch' \in Seq(Call) /\ DOMAIN batch' = 1 .. k
      BY <3>1, <3>5
    <3>7. batch' # <<>>
      BY <3>1, <3>6
    <3>8. calls + k \in Nat
      BY <3>1
    <3> QED
      BY <2>2, <3>6, <3>7, <3>8, Zenon
  <2>3. \/ batch' = <<>> /\ messages' = Append(messages, [kind |-> "text", calls |-> <<>>]) /\ calls' = calls
        \/ \E k \in 1 .. MaxBatch : \E ids \in NewIds(k), es \in [1 .. k -> Effects] :
             /\ batch' = [i \in 1 .. k |-> [n |-> calls + i, id |-> ids[i], effect |-> es[i]]]
             /\ messages' = Append(messages, [kind |-> "calls", calls |-> batch'])
             /\ calls' = calls + k
    OBVIOUS
  <2> QED
    BY <2>1, <2>2, <2>3
<1> DEFINE m == IF batch' = <<>> THEN [kind |-> "text", calls |-> <<>>] ELSE [kind |-> "calls", calls |-> batch']
<1>3. m \in Said /\ m.kind = (IF batch' = <<>> THEN "text" ELSE "calls") /\ messages \in Seq(Said)
  BY <1>2 DEF TalkInv, TalkTypes, Said, MessageKinds
<1>4. messages' \in Seq(Said) /\ messages' # <<>> /\ Last(messages') = m
  BY <1>2, <1>3, LastSaid
<1>5. TalkTypes'
  BY <1>1, <1>2, <1>4 DEF TalkInv, TalkTypes, Phases, Appending
<1>6. DueInv'
  BY <1>1, <1>3, <1>4 DEF DueInv
<1>7. Told' /\ (Spoiled' <=> Spoiled) /\ Replayed(journal') = Replayed(journal)
  BY <1>1 DEF TalkInv, Told, Spoiled, Tellable
<1>8. TellInv'
  <2>1. SUFFICES ASSUME ~failedAppend'
                 PROVE  \E s \in Seq(Said) :
                          /\ messages' = Append(s, IF batch' = <<>> THEN [kind |-> "text", calls |-> <<>>] ELSE CallsMessage')
                          /\ Agrees(s)'
    BY <1>1 DEF TellInv, Between, InBatch
  <2>2. Agrees(messages)
    BY <1>1, <2>1 DEF TalkInv, TellInv, Between
  <2>3. \A s : Agrees(s) => Agrees(s)'
    BY <1>7 DEF Agrees, Restored
  <2>4. CallsMessage' = [kind |-> "calls", calls |-> batch']
    BY DEF CallsMessage
  <2> QED
    BY <1>2, <1>3, <2>2, <2>3, <2>4
<1> QED
  BY <1>5, <1>6, <1>7, <1>8 DEF TalkInv, Restored

\* TurnRunner._loop: feedback of the runtime is put into the messages.
LEMMA TalkFeedback ==
  ASSUME TalkInv, Feedback
  PROVE  TalkInv'
<1> USE DEF Feedback, batchVars
<1> DEFINE m == [kind |-> "feedback", calls |-> <<>>]
<1>1. m \in Said /\ m.kind = "feedback" /\ messages \in Seq(Said)
  BY DEF TalkInv, TalkTypes, Said, MessageKinds
<1> HIDE DEF m
<1>2. messages' = Append(messages, m) /\ phase = "model" /\ phase' = "model" /\ journal' = journal /\ failedAppend' = failedAppend
  BY DEF m
<1>3. messages' \in Seq(Said)
  BY <1>1, <1>2
<1>4. TalkTypes' /\ DueInv'
  BY <1>2, <1>3 DEF TalkInv, TalkTypes, DueInv
<1>5. Told' /\ (Spoiled' <=> Spoiled) /\ Replayed(journal') = Replayed(journal)
  BY <1>2 DEF TalkInv, Told, Spoiled, Tellable
<1>6. ASSUME ~failedAppend PROVE Agrees(messages)'
  <2>1. Agrees(messages)
    BY <1>2, <1>6 DEF TalkInv, TellInv, Between
  <2>2. Public(Append(messages, m)) = Public(messages)
    BY <1>1, PublicStep
  <2>3. ~Spoiled => Paired(Append(messages, m))
    BY <1>1, <2>1, PairedStep DEF Agrees
  <2> QED
    BY <1>2, <1>5, <2>1, <2>2, <2>3 DEF Agrees, Restored
<1>7. TellInv'
  BY <1>2, <1>6 DEF TellInv, InBatch
<1> QED
  BY <1>4, <1>5, <1>7 DEF TalkInv, Restored

\* SessionJournal.record_message of the response.
LEMMA TalkRecordAssistant ==
  ASSUME TalkInv, RecordAssistant
  PROVE  TalkInv'
<1> USE DEF RecordAssistant, AppendDue, turnVars, batchVars, memoryVars
<1>1. phase = "reply" /\ messages' = messages /\ failedAppend' = failedAppend /\ batch' = batch
      /\ phase' \in IF batch = <<>> THEN {"model", "checkpoint"} ELSE {"check"}
  OBVIOUS
<1>2. TalkTypes' /\ DueInv'
  BY DEF TalkInv, TalkTypes, DueInv, Phases, Appending
<1>3. /\ Told' /\ Replayed(journal') \in Retold /\ (Spoiled' <=> Spoiled)
      /\ Replayed(journal') = ReplayMessage(Replayed(journal), Due)
      /\ ~Spoiled' => Paired(Restored(journal'))
  BY Recorded DEF Appending
<1>4. Due.kind = "assistant_message" /\ Due.msgs = <<Last(messages)>>
  BY DueTells DEF TalkInv, Appending
<1>5. Restored(journal) \in Seq(Said)
  BY DEF Restored, TalkInv, Retold
<1>6. CASE batch = <<>>
  <2> DEFINE m == [kind |-> "text", calls |-> <<>>]
  <2>1. m \in Said /\ m.kind = "text"
    BY DEF Said, MessageKinds
  <2> HIDE DEF m
  <2>2. ASSUME ~failedAppend PROVE Agrees(messages)'
    <3>1. PICK s \in Seq(Said) : messages = Append(s, m) /\ Agrees(s)
      BY <1>1, <1>6, <2>2 DEF TalkInv, TellInv, m
    <3>2. Last(messages) = m
      BY <2>1, <3>1, LastSaid
    <3>3. Restored(journal') = Append(Restored(journal), m)
      BY <1>3, <1>4, <2>1, <3>2 DEF ReplayMessage, Restored, TalkInv, Retold
    <3>4. Public(Restored(journal')) = Append(Public(Restored(journal)), m) /\ Public(messages) = Append(Public(s), m)
      BY <1>5, <2>1, <3>1, <3>3, PublicStep
    <3>5. ~Spoiled => Paired(messages)
      BY <2>1, <3>1, PairedStep DEF Agrees
    <3> QED
      BY <1>1, <1>3, <3>1, <3>4, <3>5 DEF Agrees
  <2>3. TellInv'
    BY <1>1, <1>6, <2>2 DEF TellInv, InBatch
  <2> QED
    BY <1>2, <1>3, <2>3 DEF TalkInv
<1>7. CASE batch # <<>>
  <2>1. phase' = "check"
    BY <1>1, <1>7
  <2>2. CallsMessage \in Said /\ CallsMessage.kind = "calls" /\ CallsMessage' = CallsMessage
    BY <1>1 DEF CallsMessage, Said, MessageKinds, TalkInv, TalkTypes
  <2>3. TellInv'
    <3>1. SUFFICES ASSUME ~failedAppend
                   PROVE  \E s \in Seq(Said) :
                            /\ messages = Append(s, CallsMessage) /\ Agrees(s)'
                            /\ Replayed(journal').pending = CallsMessage
      BY <1>1, <2>1, <2>2 DEF TellInv, Between, InBatch
    <3>2. PICK s \in Seq(Said) : messages = Append(s, CallsMessage) /\ Agrees(s)
      BY <1>1, <1>7, <3>1 DEF TalkInv, TellInv
    <3>3. Last(messages) = CallsMessage
      BY <2>2, <3>2, LastSaid
    <3>4. Replayed(journal') = [Replayed(journal) EXCEPT !.pending = CallsMessage]
      BY <1>3, <1>4, <2>2, <3>3 DEF ReplayMessage
    <3>5. Replayed(journal').pending = CallsMessage /\ Restored(journal') = Restored(journal)
      BY <3>4 DEF TalkInv, Retold, Restored
    <3>6. Agrees(s)'
      BY <1>3, <3>2, <3>5 DEF Agrees
    <3> QED
      BY <3>2, <3>5, <3>6
  <2> QED
    BY <1>2, <1>3, <2>3 DEF TalkInv
<1> QED
  BY <1>6, <1>7

\* TurnRunner._append_results puts the results into the messages.
LEMMA TalkCloseBatch ==
  ASSUME TalkInv, CloseBatch
  PROVE  TalkInv'
<1> USE DEF CloseBatch, turnVars, batchVars
<1>1. ResultsMessage \in Said /\ ResultsMessage.kind = "results" /\ messages \in Seq(Said)
  BY DEF TalkInv, TalkTypes, ResultsMessage, Said, MessageKinds
<1>2. messages' = Append(messages, ResultsMessage) /\ phase = "tail" /\ phase' = "results"
      /\ journal' = journal /\ failedAppend' = failedAppend /\ batch' = batch
  BY DEF ResultsMessage
<1>3. messages' \in Seq(Said) /\ messages' # <<>> /\ Last(messages') = ResultsMessage
  BY <1>1, <1>2, LastSaid
<1>4. TalkTypes' /\ DueInv'
  BY <1>1, <1>2, <1>3 DEF TalkInv, TalkTypes, DueInv, Phases, Appending
<1>5. Told' /\ (Spoiled' <=> Spoiled) /\ Replayed(journal') = Replayed(journal)
  BY <1>2 DEF TalkInv, Told, Spoiled, Tellable
<1>6. TellInv'
  <2>1. SUFFICES ASSUME ~failedAppend
                 PROVE  \E s \in Seq(Said) :
                          /\ messages' = Append(Append(s, CallsMessage), ResultsMessage) /\ Agrees(s)'
                          /\ Replayed(journal).pending = CallsMessage
    BY <1>2, <1>5 DEF TellInv, Between, InBatch, CallsMessage, ResultsMessage
  <2>2. PICK s \in Seq(Said) : /\ messages = Append(s, CallsMessage) /\ Agrees(s)
                               /\ Replayed(journal).pending = CallsMessage
    BY <1>2, <2>1 DEF TalkInv, TellInv, InBatch
  <2>3. Agrees(s)'
    BY <1>5, <2>2 DEF Agrees, Restored
  <2> QED
    BY <1>2, <2>2, <2>3
<1> QED
  BY <1>4, <1>5, <1>6 DEF TalkInv, Restored

\* SessionJournal.record_message of the results.
LEMMA TalkRecordResults ==
  ASSUME TalkInv, RecordResults
  PROVE  TalkInv'
<1> USE DEF RecordResults, AppendDue, turnVars, memoryVars
<1>1. phase = "results" /\ messages' = messages /\ failedAppend' = failedAppend
  OBVIOUS
<1>2. phase' \in {"model", "checkpoint", "closing"}
  OBVIOUS
<1>3. TalkTypes' /\ DueInv'
  BY <1>2 DEF TalkInv, TalkTypes, DueInv, Phases, Appending, NoBatch
<1>4. /\ Told' /\ Replayed(journal') \in Retold /\ (Spoiled' <=> Spoiled)
      /\ Replayed(journal') = ReplayMessage(Replayed(journal), Due)
      /\ ~Spoiled' => Paired(Restored(journal'))
  BY Recorded DEF Appending
<1>5. Due.kind = "tool_result_message" /\ Due.msgs = <<Last(messages)>>
  BY DueTells DEF TalkInv, Appending
<1>6. /\ ResultsMessage \in Said /\ ResultsMessage.kind = "results" /\ ResultsMessage.calls = batch
      /\ CallsMessage \in Said /\ CallsMessage.kind = "calls" /\ CallsMessage.calls = batch
  BY DEF TalkInv, TalkTypes, ResultsMessage, CallsMessage, Said, MessageKinds
<1>7. ASSUME ~failedAppend PROVE Agrees(messages)'
  <2>1. PICK s \in Seq(Said) : /\ messages = Append(Append(s, CallsMessage), ResultsMessage) /\ Agrees(s)
                               /\ Replayed(journal).pending = CallsMessage
    BY <1>1, <1>7 DEF TalkInv, TellInv
  <2>2. Append(s, CallsMessage) \in Seq(Said) /\ Restored(journal) \in Seq(Said)
        /\ Append(Restored(journal), CallsMessage) \in Seq(Said)
    BY <1>6 DEF Restored, TalkInv, Retold
  <2>3. Last(messages) = ResultsMessage
    BY <1>6, <2>1, <2>2, LastSaid
  <2>4. CallsMessage # NoMessage
    BY <1>6 DEF NoMessage
  <2>5. Restored(journal') = Append(Append(Restored(journal), CallsMessage), ResultsMessage)
    BY <1>4, <1>5, <1>6, <2>1, <2>3, <2>4 DEF ReplayMessage, Restored
  <2>6. /\ Public(Append(s, CallsMessage)) = Append(Public(s), CallsMessage)
        /\ Public(Append(Restored(journal), CallsMessage)) = Append(Public(Restored(journal)), CallsMessage)
    BY <1>6, <2>2, PublicStep
  <2>7. /\ Public(messages) = Append(Public(Append(s, CallsMessage)), ResultsMessage)
        /\ Public(Restored(journal')) = Append(Public(Append(Restored(journal), CallsMessage)), ResultsMessage)
    BY <1>6, <2>1, <2>2, <2>5, PublicStep
  <2>8. ~Spoiled => Paired(messages)
    BY <1>6, <2>1, PairedPair DEF Agrees
  <2> QED
    BY <1>1, <1>4, <2>1, <2>6, <2>7, <2>8 DEF Agrees
<1>8. TellInv'
  BY <1>1, <1>2, <1>7 DEF TellInv, InBatch
<1> QED
  BY <1>3, <1>4, <1>8 DEF TalkInv

\* SessionJournal.record_turn_completed saves the messages.
LEMMA TalkRecordCheckpoint ==
  ASSUME TalkInv, RecordCheckpoint
  PROVE  TalkInv'
<1> USE DEF RecordCheckpoint, AppendDue, turnVars, batchVars, memoryVars
<1>1. phase = "checkpoint" /\ phase' = "completed" /\ messages' = messages /\ failedAppend' = failedAppend
  OBVIOUS
<1>2. TalkTypes' /\ DueInv'
  BY DEF TalkInv, TalkTypes, DueInv, Phases, Appending
<1>3. /\ Told' /\ Replayed(journal') \in Retold /\ (Spoiled' <=> Spoiled \/ failedAppend)
      /\ Replayed(journal') = ReplayMessage(Replayed(journal), Due)
      /\ ~Spoiled' => Paired(Restored(journal'))
  BY Recorded DEF Appending
<1>4. Due.kind = "message_checkpoint" /\ Due.msgs = messages
  BY DueTells DEF TalkInv, Appending
<1>5. Restored(journal') = messages
  BY <1>3, <1>4 DEF ReplayMessage, Restored
<1>6. Agrees(messages)'
  BY <1>1, <1>3, <1>5 DEF Agrees
<1>7. TellInv'
  BY <1>1, <1>6 DEF TellInv, InBatch
<1> QED
  BY <1>2, <1>3, <1>7 DEF TalkInv

\* An append fails (SessionJournal._append).
LEMMA TalkAppendFails ==
  ASSUME TalkInv, AppendFails
  PROVE  TalkInv'
<1> USE DEF AppendFails, turnVars
<1>1. phase \in Appending /\ (phase = "tail" => pos <= Len(batch)) /\ failedAppend' = TRUE /\ UNCHANGED messages
  OBVIOUS
<1>2. phase' \in {"record", "tail", "idle", "closing"}
  BY DEF AfterFailure
<1>3. TalkTypes'
  <2>1. phase' = "record" => phase = "prepare"
    BY DEF AfterFailure
  <2> QED
    BY <1>2, <2>1 DEF TalkInv, TalkTypes, Phases, Appending
<1>4. DueInv' /\ TellInv'
  BY <1>1, <1>2 DEF DueInv, TellInv
<1>5. journal' = journal \/ journal' = Append(journal, Due)
  BY DEF AppendDue
<1>6. CASE journal' = journal
  <2>1. Told' /\ (Spoiled' <=> Spoiled) /\ Replayed(journal') = Replayed(journal)
    BY <1>6 DEF TalkInv, Told, Spoiled, Tellable
  <2> QED
    BY <1>3, <1>4, <2>1 DEF TalkInv, Restored
<1>7. CASE journal' = Append(journal, Due)
  <2>1. Told' /\ Replayed(journal') \in Retold /\ (~Spoiled' => Paired(Restored(journal')))
    BY <1>1, <1>7, Recorded
  <2> QED
    BY <1>3, <1>4, <2>1 DEF TalkInv
<1> QED
  BY <1>5, <1>6, <1>7

\* The process ends.
LEMMA TalkCrash ==
  ASSUME TalkInv, Crash
  PROVE  TalkInv'
<1> USE DEF Crash, turnVars, NoBatch
<1>1. phase' = "down" /\ messages' = <<>> /\ batch' = <<>>
  OBVIOUS
<1>2. TalkTypes'
  <2>1. <<>> \in Seq(Said) /\ <<>> \in Seq(Call)
    OBVIOUS
  <2>2. turn' \in Nat /\ calls' \in Nat /\ pos' \in Nat \ {0}
    BY DEF TalkInv, TalkTypes
  <2>3. startedIds' \subseteq Nat /\ completedIds' \subseteq Nat /\ failedAppend' \in BOOLEAN
    <3>1. startedIds' = {} /\ completedIds' = {} /\ failedAppend' = FALSE
      OBVIOUS
    <3> QED
      BY ONLY <3>1, Zenon
  <2>4. messages' \in Seq(Said) /\ batch' \in Seq(Call)
    BY ONLY <1>1, <2>1, Zenon
  <2>5. phase' \in Phases /\ phase' \notin {"prepare", "run", "observe", "record"}
    BY ONLY <1>1 DEF Phases
  <2> QED
    BY ONLY <2>2, <2>3, <2>4, <2>5, Zenon DEF TalkTypes
<1>3. DueInv' /\ TellInv'
  BY <1>1 DEF DueInv, TellInv, Between, InBatch
<1>4. Told' /\ (Spoiled' <=> Spoiled) /\ Replayed(journal') = Replayed(journal)
  BY DEF TalkInv, Told, Spoiled, Tellable
<1> QED
  BY <1>2, <1>3, <1>4 DEF TalkInv, Restored

\* SessionStore.open: another process takes the session up.
LEMMA TalkResume ==
  ASSUME TalkInv, Resume
  PROVE  TalkInv'
<1> USE DEF Resume, turnVars, batchVars
<1>1. phase' = "idle" /\ messages' = Restored(journal) /\ journal' = journal
  OBVIOUS
<1>2. Restored(journal) \in Seq(Said)
  BY DEF TalkInv, Retold, Restored
<1>3. startedIds' \subseteq Nat /\ completedIds' \subseteq Nat
  <2>1. PICK S : journal \in Seq(S) /\ \A r \in S : Tellable(r)
    BY DEF TalkInv, Told
  <2>2. \A i \in 1 .. Len(journal) : journal[i].kind \in {"tool_started", "tool_completed"} => journal[i].call.id \in Nat
    BY <2>1 DEF Tellable
  <2> QED
    BY <2>2 DEF HydratedIds
<1>4. TalkTypes' /\ DueInv'
  BY <1>1, <1>2, <1>3 DEF TalkInv, TalkTypes, DueInv, Phases
<1>5. Told' /\ (Spoiled' <=> Spoiled) /\ Replayed(journal') = Replayed(journal) /\ Restored(journal') = Restored(journal)
  BY <1>1 DEF TalkInv, Told, Spoiled, Tellable
<1>6. Agrees(messages)'
  BY <1>1, <1>5 DEF Agrees, TalkInv
<1>7. TellInv'
  BY <1>1, <1>6 DEF TellInv, InBatch
<1> QED
  BY <1>4, <1>5, <1>7 DEF TalkInv

\* The steps of a batch and of the end of a turn that write no message.
LEMMA TalkBatchStep ==
  ASSUME TalkInv,
         \/ SkipCall \/ AnswerWithoutRunning \/ Authorize \/ PrepareFails \/ RecordIntent
         \/ TakeEffect \/ Return \/ Raise \/ Observe \/ CancelInside \/ Interrupt
         \/ RecordOutcome \/ EndBatch \/ RecordTail
  PROVE  TalkInv'
<1>1. CASE SkipCall \/ AnswerWithoutRunning \/ Authorize \/ EndBatch \/ Interrupt
  <2> USE <1>1 DEF SkipCall, AnswerWithoutRunning, Authorize, EndBatch, Interrupt, turnVars, batchVars, memoryVars
  <2>1. TalkTypes'
    BY DEF TalkInv, TalkTypes, Phases, Appending
  <2>2. UNCHANGED <<journal, messages, failedAppend, batch>> /\ phase \in InBatch /\ phase' \in InBatch
    BY DEF InBatch
  <2> QED
    BY <2>1, <2>2, QuietTalk
<1>2. CASE PrepareFails \/ TakeEffect \/ Return \/ Raise \/ Observe \/ CancelInside
  <2> USE <1>2 DEF PrepareFails, TakeEffect, Return, Raise, Observe, CancelInside, turnVars, batchVars, memoryVars
  <2>1. UNCHANGED <<journal, messages, failedAppend, batch, pos, turn, calls, startedIds, completedIds>>
        /\ phase \in {"prepare", "run", "observe"} /\ phase' \in {"run", "observe", "record"}
    OBVIOUS
  <2>2. TalkTypes'
    BY <2>1 DEF TalkInv, TalkTypes, Phases, Appending
  <2>3. phase \in InBatch /\ phase' \in InBatch
    BY <2>1 DEF InBatch
  <2> QED
    BY <2>1, <2>2, <2>3, QuietTalk
<1>3. CASE RecordIntent
  <2> USE <1>3 DEF RecordIntent, AppendDue, turnVars, batchVars
  <2>1. current \in Call
    BY DEF TalkInv, TalkTypes, current
  <2>2. current.id \in Nat
    BY <2>1 DEF Call
  <2>3. TalkTypes'
    BY <2>2 DEF TalkInv, TalkTypes, Phases, Appending
  <2>4. phase = "prepare" /\ phase \in InBatch /\ phase' \in InBatch /\ batch' = batch
        /\ UNCHANGED <<messages, failedAppend>>
    BY DEF InBatch
  <2>5. journal' = journal \/ journal' = Append(journal, Due)
    OBVIOUS
  <2> QED
    BY <2>3, <2>4, <2>5, SilentTalk
<1>4. CASE RecordOutcome \/ RecordTail
  <2> USE <1>4 DEF RecordOutcome, RecordTail, turnVars
  <2>1. /\ phase \in {"record", "tail"} /\ (phase = "tail" => pos <= Len(batch)) /\ phase' \in {"tail", "check"}
        /\ UNCHANGED <<messages, failedAppend, batch, turn, calls, startedIds>> /\ pos' = pos + 1 /\ Complete
    OBVIOUS
  <2>2. pos \in 1 .. Len(batch)
    BY <2>1 DEF TalkInv, TalkTypes
  <2>3. current \in Call
    BY <2>2 DEF TalkInv, TalkTypes, current
  <2>4. current.id \in Nat
    BY <2>3 DEF Call
  <2>5. /\ journal' = journal \/ journal' = Append(journal, Due)
        /\ completedIds' = completedIds \/ completedIds' = completedIds \union {current.id}
    BY <2>1 DEF Complete, AppendDue
  <2>6. TalkTypes'
    <3>1. TalkTypes /\ pos' \in Nat \ {0}
      BY <2>1, <2>2 DEF TalkInv
    <3>2. completedIds' \subseteq Nat
      BY ONLY <2>4, <2>5, <3>1 DEF TalkTypes
    <3> QED
      BY ONLY <2>1, <3>1, <3>2 DEF TalkTypes, Phases, Appending
  <2>7. phase \in InBatch /\ phase' \in InBatch
    BY <2>1 DEF InBatch
  <2> QED
    BY <2>1, <2>5, <2>6, <2>7, SilentTalk
<1> QED
  BY <1>1, <1>2, <1>3, <1>4

\* The steps between batches that write no message.
LEMMA TalkTurnStep ==
  ASSUME TalkInv,
         StartTurn \/ BudgetExhausted \/ InterruptModel \/ RecordTurnCompleted \/ RecordTurnEnded
  PROVE  TalkInv'
<1>1. CASE StartTurn \/ BudgetExhausted \/ InterruptModel
  <2> USE <1>1 DEF StartTurn, BudgetExhausted, InterruptModel, turnVars, batchVars, memoryVars
  <2>1. /\ UNCHANGED <<journal, messages, failedAppend, batch, pos, calls>> /\ turn' \in {turn, turn + 1}
        /\ phase \in {"idle", "model"} /\ phase' \in {"begin", "checkpoint", "closing"}
        /\ startedIds' \in {startedIds, {}} /\ completedIds' \in {completedIds, {}}
    OBVIOUS
  <2>2. TalkTypes'
    BY <2>1 DEF TalkInv, TalkTypes, Phases, Appending
  <2>3. phase \in Between /\ phase' \in Between
    BY <2>1 DEF Between
  <2> QED
    BY <2>1, <2>2, <2>3, QuietTalk
<1>2. CASE RecordTurnCompleted \/ RecordTurnEnded
  <2> USE <1>2 DEF RecordTurnCompleted, RecordTurnEnded, AppendDue, turnVars, batchVars, memoryVars, NoBatch
  <2>1. /\ UNCHANGED <<messages, failedAppend, calls, turn, startedIds, completedIds>>
        /\ journal' = Append(journal, Due)
        /\ batch' \in {batch, <<>>} /\ pos' \in {pos, 1}
        /\ phase \in {"completed", "closing"} /\ phase' = "idle"
    OBVIOUS
  <2>2. TalkTypes'
    <3>1. TalkTypes
      BY DEF TalkInv
    <3>2. batch \in Seq(Call) /\ <<>> \in Seq(Call)
      BY ONLY <3>1 DEF TalkTypes
    <3>3. batch' = batch \/ batch' = <<>>
      OBVIOUS
    <3>4. batch' \in Seq(Call)
      BY ONLY <3>2, <3>3, Zenon
    <3> QED
      BY ONLY <2>1, <3>1, <3>4 DEF TalkTypes, Phases
  <2>3. phase \in Between /\ phase' \in Between
    BY <2>1 DEF Between
  <2> QED
    BY <2>1, <2>2, <2>3, SilentTalk
<1> QED
  BY <1>1, <1>2

\* A new session has no messages.
LEMMA TalkInit == Init => TalkInv
<1> SUFFICES ASSUME Init PROVE TalkInv
  OBVIOUS
<1> USE DEF Init
<1>1. <<>> \in Seq(Said) /\ <<>> \in Seq(Call) /\ journal \in Seq({})
  OBVIOUS
<1>2. TalkTypes /\ DueInv /\ Told
  <2>1. phase = "idle" /\ turn = 0 /\ calls = 0 /\ batch = <<>> /\ pos = 1 /\ messages = <<>> /\ failedAppend = FALSE
        /\ startedIds = {} /\ completedIds = {}
    OBVIOUS
  <2>2. messages \in Seq(Said) /\ batch \in Seq(Call)
    BY ONLY <1>1, <2>1, Zenon
  <2>4. phase \in Phases /\ phase \notin {"prepare", "run", "observe", "record"}
    BY ONLY <2>1 DEF Phases
  <2>5. TalkTypes
    <3>1. turn \in Nat /\ calls \in Nat /\ pos \in Nat \ {0}
      BY ONLY <2>1
    <3>2. startedIds \subseteq Nat /\ completedIds \subseteq Nat /\ failedAppend \in BOOLEAN
      BY ONLY <2>1, Zenon
    <3> QED
      BY ONLY <2>2, <2>4, <3>1, <3>2, Zenon DEF TalkTypes
  <2>3. DueInv
    BY ONLY <2>1 DEF DueInv
  <2> QED
    BY <1>1, <2>5, <2>3 DEF Told
<1>3. PICK after \in [0 .. Len(journal) -> Retold] : Replays(journal, after) /\ Replayed(journal) = after[Len(journal)]
  BY <1>1, ReplaysOne
<1>4. Len(journal) = 0 /\ 0 \in 0 .. Len(journal)
  OBVIOUS
<1>5. Replayed(journal) = NothingReplayed
  BY <1>3, <1>4 DEF Replays
<1>6. Restored(journal) = messages /\ Replayed(journal) \in Retold
  <2>1. NothingReplayed \in Retold
    BY ONLY <1>1 DEF NothingReplayed, Retold
  <2>2. messages = <<>>
    OBVIOUS
  <2> QED
    BY ONLY <1>5, <2>1, <2>2 DEF NothingReplayed, Restored
<1>7. Paired(messages)
  BY DEF Paired
<1>8. TellInv
  BY <1>6, <1>7 DEF TellInv, Agrees, InBatch
<1> QED
  BY <1>2, <1>6, <1>7, <1>8 DEF TalkInv

\* Every step keeps it.
LEMMA TalkNext == EffectAssumption /\ TalkInv /\ [Next]_vars => TalkInv'
<1> SUFFICES ASSUME EffectAssumption, TalkInv, [Next]_vars PROVE TalkInv'
  OBVIOUS
<1>1. CASE UNCHANGED vars
  <2>1. UNCHANGED <<journal, phase, turn, calls, batch, pos, messages, failedAppend, startedIds, completedIds>>
    BY <1>1 DEF vars, turnVars, batchVars, memoryVars
  <2>2. TalkTypes' /\ DueInv' /\ Told' /\ TellInv'
    BY <2>1 DEF TalkInv, TalkTypes, DueInv, Told, Tellable, TellInv, Agrees, Spoiled, CallsMessage, ResultsMessage
  <2> QED
    BY <2>1, <2>2 DEF TalkInv, Spoiled
<1>2. CASE StartTurn \/ BudgetExhausted \/ InterruptModel \/ RecordTurnCompleted \/ RecordTurnEnded
  BY <1>2, TalkTurnStep
<1>3. CASE \/ SkipCall \/ AnswerWithoutRunning \/ Authorize \/ PrepareFails \/ RecordIntent
           \/ TakeEffect \/ Return \/ Raise \/ Observe \/ CancelInside \/ Interrupt
           \/ RecordOutcome \/ EndBatch \/ RecordTail
  BY <1>3, TalkBatchStep
<1>4. CASE RecordTurnStarted \/ RecordUserMessage \/ ModelResponds \/ Feedback \/ RecordAssistant
  BY <1>4, TalkRecordTurnStarted, TalkRecordUserMessage, TalkModelResponds, TalkFeedback, TalkRecordAssistant
<1>5. CASE CloseBatch \/ RecordResults \/ RecordCheckpoint \/ AppendFails \/ Crash \/ Resume
  BY <1>5, TalkCloseBatch, TalkRecordResults, TalkRecordCheckpoint, TalkAppendFails, TalkCrash, TalkResume
<1> QED
  BY <1>1, <1>2, <1>3, <1>4, <1>5 DEF Next, TurnStep

\* Between turns the session can be read back, and what a model is sent is well formed:
\* for every number of turns, calls, crashes and failed appends, also when call ids repeat.
THEOREM Remembered == Spec => []HistorySound
<1>1. TalkInv => HistorySound
  BY DEF TalkInv, TellInv, Agrees, Between, HistorySound, RestoredHistory, WellPaired
<1> QED
  BY <1>1, TalkInit, TalkNext, EffectAssumption, PTL DEF Spec

=============================================================================
