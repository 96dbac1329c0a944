------------------------------ MODULE Recording ------------------------------
(***************************************************************************)
(* Recording one conversation for training                                 *)
(* (src/extensions/qwen_tool_distillation.py: QwenModelClient,             *)
(* TraceRecorder, RecordingModelClient, RecordedConversation, load_trace,  *)
(* clean_episode, build_sft_rows).                                         *)
(*                                                                         *)
(* A client puts the pieces of a streamed answer together and retries what *)
(* broke before anything was passed on. Around it a recorder writes a line *)
(* for each request, answer and tool result to a file, and one for the     *)
(* outcome. What was cancelled, crashed or written by two processes must   *)
(* be told from an episode that ran to its end, from the lines alone.      *)
(*                                                                         *)
(* A call is <<tag, index>>: its tag is the number of its request, unless  *)
(* the server uses an id again. Arguments are empty, part or whole.        *)
(*                                                                         *)
(* Environment: the server, the tools, the validator of the outcome, the   *)
(* user who cancels, crashes, and a later process with the same file.      *)
(***************************************************************************)
EXTENDS Naturals, Sequences, FiniteSets

CONSTANTS
  MaxParallelCalls,  \* bound: calls of one answer
  MaxStreamRetries,  \* max_retries
  MaxAsks,           \* bound: requests
  MaxRecorders       \* bound: processes that record into the file

ASSUME RecordingAssumption ==
  {MaxParallelCalls, MaxStreamRetries, MaxAsks, MaxRecorders} \subseteq Nat

VARIABLES
  traceFile,  \* the lines of the file, in order
  recorder,   \* TraceRecorder: sequence, latest request, revision, calls, pending result
  wire,       \* the answer being received
  work,       \* the runner: where it is, and the calls it still has to run
  really      \* history: what the server sent, what the tools did, how the conversation ended

rec_vars == <<traceFile, recorder, wire, work, really>>

Indexes == 1..MaxParallelCalls
NoWire == [attempt |-> 0, tag |-> 0, text |-> FALSE, got |-> [i \in Indexes |-> "none"]]
NoPending == <<0, 0>>
NewRecorder ==
  [next |-> 0, latest |-> 0, revision |-> 0, bound |-> {}, pending |-> NoPending, executed |-> FALSE]

RecInit ==
  /\ traceFile = <<>>
  /\ recorder = NewRecorder
  /\ wire = NoWire
  /\ work = [at |-> "new", calls |-> <<>>, asked |-> 0, process |-> 1]
  /\ really = [whole |-> {}, ran |-> {}, ended |-> "no"]

-----------------------------------------------------------------------------
(***************************************************************************)
(* The file. A line that a crash cut off swallows the one after it.        *)
(***************************************************************************)
TornLine == [kind |-> "torn"]
Torn(file) == file # <<>> /\ file[Len(file)] = TornLine

Written(file, lines) == IF Torn(file) THEN file \o Tail(lines) ELSE file \o lines

\* The line of a record, numbered after so many others of this recorder.
Line(kind, body, after) == [kind |-> kind, seq |-> recorder.next + after, body |-> body]

\* The request a result is bound to: the one its call came with, or else the latest.
RequestOf(call) ==
  LET known == {b \in recorder.bound : b.call = call}
  IN  IF known = {} THEN recorder.latest ELSE (CHOOSE b \in known : TRUE).request

\* _flush_tool: the result that waits becomes a line.
Flushed(after) ==
  IF recorder.pending = NoPending THEN <<>>
  ELSE <<Line("result", [call |-> recorder.pending, request |-> RequestOf(recorder.pending),
                         executed |-> recorder.executed, before |-> recorder.revision,
                         after |-> after], 0)>>

-----------------------------------------------------------------------------
(***************************************************************************)
(* The conversation and its requests.                                      *)
(***************************************************************************)
StartRecording ==
  /\ work.at = "new"
  /\ traceFile' = Written(traceFile, <<Line("started", [split |-> "train"], 0)>>)
  /\ recorder' = [recorder EXCEPT !.next = @ + 1]
  /\ work' = [work EXCEPT !.at = "ready"]
  /\ really' = [really EXCEPT !.ended = IF traceFile = <<>> THEN @ ELSE "other"]
  /\ UNCHANGED wire

\* model_request is written before the client is asked.
Ask ==
  /\ work.at = "ready" /\ work.calls = <<>>
  /\ work.asked < MaxAsks
  /\ LET n == work.asked + 1
     IN  /\ traceFile' = Written(traceFile, <<Line("request", [request |-> n], 0)>>)
         /\ recorder' = [recorder EXCEPT !.next = @ + 1, !.latest = n]
         /\ \E tag \in {1, n} : wire' = [NoWire EXCEPT !.attempt = 1, !.tag = tag]
  /\ work' = [work EXCEPT !.at = "streaming", !.asked = @ + 1]
  /\ UNCHANGED really

Streaming == work.at = "streaming"
Emitted == wire.text \/ \E i \in Indexes : wire.got[i] # "none"

\* _stream_once, one chunk: text, or a piece of the call at an index: its id and name, a part of
\* its arguments, the rest of them.
Chunk ==
  /\ Streaming
  /\ \/ /\ ~wire.text
        /\ wire' = [wire EXCEPT !.text = TRUE]
     \/ \E i \in Indexes :
          /\ wire.got[i] # "whole"
          /\ wire' = [wire EXCEPT !.got[i] =
               CASE @ = "none" -> "empty" [] @ = "empty" -> "part" [] @ = "part" -> "whole"]
  /\ UNCHANGED <<traceFile, recorder, work, really>>

\* What is left when the stream ends: the calls up to the first whose arguments are no object.
Present == {i \in Indexes : wire.got[i] # "none"}
Broken == {i \in Present : wire.got[i] = "part"}
Completed == {i \in Present : \A j \in Broken : i < j}
Ordered(indexes) ==
  LET Below(i) == Cardinality({j \in indexes : j < i})
  IN  [k \in 1..Cardinality(indexes) |-> <<wire.tag, CHOOSE i \in indexes : Below(i) = k - 1>>]

\* A plausible bug: a truncated answer hands over the calls it has so far.
AnsweredAnyway(finish) ==
  [calls |-> Completed, error |-> Broken # {} \/ ~Emitted, finish |-> finish, truncated |-> FALSE]

\* The end of a stream as the server says it. Too long an answer gives no call at all; one without
\* any reason for its end counts as complete.
Answered(finish) ==
  [calls |-> IF finish = "length" THEN {} ELSE Completed,
   error |-> finish = "length" \/ Broken # {} \/ ~Emitted,
   finish |-> finish, truncated |-> finish = "length"]

\* RecordingModelClient writes what it was handed and how the stream ended; the calls go to the
\* runner only if it ended well.
RecordAnswer(answer) ==
  /\ traceFile' = Written(traceFile, <<Line("response",
       [request |-> recorder.latest, calls |-> Ordered(answer.calls), truncated |-> answer.truncated,
        error |-> answer.error, finish |-> answer.finish], 0)>>)
  /\ recorder' = [recorder EXCEPT !.next = @ + 1,
       !.bound = {b \in @ : \A i \in answer.calls : b.call # <<wire.tag, i>>}
                 \cup {[call |-> <<wire.tag, i>>, request |-> recorder.latest] : i \in answer.calls}]
  /\ work' = [work EXCEPT !.at = IF answer.error THEN "failed" ELSE "ready",
                          !.calls = IF answer.error THEN <<>> ELSE Ordered(answer.calls)]
  /\ wire' = NoWire

StreamEnds(finish) ==
  /\ Streaming
  /\ RecordAnswer(Answered(finish))
  /\ really' = [really EXCEPT !.whole =
       IF finish = "stop" /\ Broken = {} /\ Emitted THEN @ \cup {recorder.latest} ELSE @]

\* A broken connection is tried again if the error is one to retry and nothing was passed on yet.
StreamBreaks ==
  /\ Streaming
  /\ \/ /\ ~Emitted /\ wire.attempt <= MaxStreamRetries
        /\ wire' = [wire EXCEPT !.attempt = @ + 1]
        /\ UNCHANGED <<traceFile, recorder, work>>
     \/ RecordAnswer([calls |-> {}, error |-> TRUE, finish |-> "error", truncated |-> FALSE])
  /\ UNCHANGED really

\* The consumer raises at a usage update and closes the generator: no answer is written.
GiveUp ==
  /\ Streaming
  /\ work' = [work EXCEPT !.at = "failed"]
  /\ wire' = NoWire
  /\ UNCHANGED <<traceFile, recorder, really>>

\* The runner tells the model of a bad answer and asks again, or ends the turn.
AskAgain ==
  /\ work.at = "failed"
  /\ work' = [work EXCEPT !.at = "ready"]
  /\ UNCHANGED <<traceFile, recorder, wire, really>>

-----------------------------------------------------------------------------
(***************************************************************************)
(* Tools and the end.                                                      *)
(***************************************************************************)
\* The runner tells of the change before it tells of the result, so the result that waits gets it.
RunTool(executed, changed) ==
  /\ work.at = "ready" /\ work.calls # <<>>
  /\ changed => executed
  /\ LET call == Head(work.calls)
         revision == IF changed THEN recorder.revision + 1 ELSE recorder.revision
         lines == Flushed(revision)
     IN  /\ traceFile' = IF lines = <<>> THEN traceFile ELSE Written(traceFile, lines)
         /\ recorder' = [recorder EXCEPT !.next = @ + Len(lines), !.revision = revision,
                                         !.pending = call, !.executed = executed]
         /\ really' = [really EXCEPT !.ran = @ \cup
              {[call |-> call, request |-> recorder.latest, executed |-> executed]}]
  /\ work' = [work EXCEPT !.calls = Tail(@)]
  /\ UNCHANGED wire

\* TurnCompleted: the runner has nothing left to do, the validator is asked, the outcome is written.
RecordEnd(status, validated) ==
  /\ \/ work.at = "ready" /\ work.calls = <<>> /\ recorder.latest > 0
     \/ work.at = "failed" /\ status # "completed"
  /\ LET lines == Flushed(recorder.revision)
     IN  /\ traceFile' = Written(traceFile, Append(lines,
              Line("outcome", [success |-> status = "completed" /\ validated,
                               validated |-> validated], Len(lines))))
         /\ recorder' = NewRecorder
  /\ work' = [work EXCEPT !.at = "over", !.calls = <<>>]
  /\ really' = [really EXCEPT !.ended = IF @ = "no" /\ validated THEN "validated" ELSE "other"]
  /\ UNCHANGED wire

\* Cancellation closes the generators: what waits is flushed, and that is all.
Cancel ==
  /\ work.at \in {"ready", "streaming", "failed"}
  /\ LET lines == Flushed(recorder.revision)
     IN  traceFile' = IF lines = <<>> THEN traceFile ELSE Written(traceFile, lines)
  /\ recorder' = NewRecorder
  /\ wire' = NoWire
  /\ work' = [work EXCEPT !.at = "over", !.calls = <<>>]
  /\ really' = [really EXCEPT !.ended = "other"]

\* A crash may cut off the line that was being written.
RecCrash ==
  /\ work.at \in {"ready", "streaming", "failed"}
  /\ traceFile' \in {traceFile, IF Torn(traceFile) THEN traceFile ELSE Append(traceFile, TornLine)}
  /\ recorder' = NewRecorder
  /\ wire' = NoWire
  /\ work' = [work EXCEPT !.at = "over", !.calls = <<>>]
  /\ really' = [really EXCEPT !.ended = "other"]

\* Another process records into the same file, with a sequence of its own.
RecordMore ==
  /\ work.at = "over" /\ work.process < MaxRecorders
  /\ work' = [work EXCEPT !.at = "new", !.process = @ + 1]
  /\ UNCHANGED <<traceFile, recorder, wire, really>>

RecNext ==
  \/ StartRecording
  \/ Ask
  \/ Chunk
  \/ \E finish \in {"stop", "length", "none"} : StreamEnds(finish)
  \/ StreamBreaks
  \/ GiveUp
  \/ AskAgain
  \/ \E executed, changed \in BOOLEAN : RunTool(executed, changed)
  \/ \E status \in {"completed", "error"}, validated \in BOOLEAN : RecordEnd(status, validated)
  \/ Cancel
  \/ RecCrash
  \/ RecordMore

-----------------------------------------------------------------------------
(***************************************************************************)
(* Reading the file.                                                       *)
(***************************************************************************)
Of(file, kind) == {k \in DOMAIN file : file[k].kind = kind}
LoadTrace(file) == Of(file, "torn") = {}

CallsOf(file) ==
  UNION {{[call |-> file[k].body.calls[j], request |-> file[k].body.request] :
            j \in DOMAIN file[k].body.calls} : k \in Of(file, "response")}
\* How often a call is announced.
Times(file, call) ==
  Cardinality({<<k, j>> \in Of(file, "response") \X Indexes :
                 j \in DOMAIN file[k].body.calls /\ file[k].body.calls[j] = call})

\* clean_episode: one episode from its start to its validated outcome, without a gap, each call
\* announced once and bound to its request by its result.
CleanEpisode(file) ==
  /\ {file[k].seq : k \in DOMAIN file} = 0..(Len(file) - 1)
  /\ Cardinality(Of(file, "started")) = 1 /\ Cardinality(Of(file, "outcome")) = 1
  /\ \A k \in Of(file, "started") : file[k].seq = 0
  /\ \A k \in Of(file, "response") :
       \E r \in Of(file, "request") : file[r].body.request = file[k].body.request
  /\ \A c \in CallsOf(file) :
       /\ Times(file, c.call) = 1
       /\ \E k \in Of(file, "result") : file[k].body.call = c.call
  /\ \A k \in Of(file, "result") :
       [call |-> file[k].body.call, request |-> file[k].body.request] \in CallsOf(file)
  /\ \A k \in Of(file, "outcome") : file[k].body.validated

\* build_sft_rows: a row for each request with an answer that is neither truncated nor an error.
Rows(file) ==
  {file[r].body.request : r \in {q \in Of(file, "request") : \E k \in Of(file, "response") :
     /\ file[k].body.request = file[q].body.request
     /\ ~file[k].body.truncated /\ ~file[k].body.error}}

\* validate_training_episode: as many complete answers as requests, each with a reason for its end.
PairsComplete(file) ==
  /\ Of(file, "request") # {}
  /\ \A r \in Of(file, "request") : file[r].body.request \in Rows(file)
  /\ \A k \in Of(file, "response") : file[k].body.finish # "none" /\ ~file[k].body.error

-----------------------------------------------------------------------------
(***************************************************************************)
(* Properties                                                              *)
(***************************************************************************)
EpisodeAccepted == LoadTrace(traceFile) /\ traceFile # <<>> /\ CleanEpisode(traceFile)

\* An episode that is accepted ran to its validated end in one process, and its results say of
\* every call that was run which request it answers and whether it was executed, and of no other.
EpisodeIsWhole ==
  EpisodeAccepted =>
    /\ really.ended = "validated"
    /\ {[call |-> traceFile[k].body.call, request |-> traceFile[k].body.request,
         executed |-> traceFile[k].body.executed] : k \in Of(traceFile, "result")} = really.ran

\* One that may be trained on has nothing but answers the server finished.
TrainedOnWhole ==
  EpisodeAccepted /\ PairsComplete(traceFile) => Rows(traceFile) \subseteq really.whole

\* No file that recording leaves behind passes for an episode it is not
\* (qwen_tool_distillation.py:1176-1284, 1354-1414, 1458-1462).
EpisodesTrue == EpisodeIsWhole /\ TrainedOnWhole
=============================================================================
