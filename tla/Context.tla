------------------------------- MODULE Context -------------------------------
(***************************************************************************)
(* The model's context: what of the history a request carries              *)
(* (cheap_compact in forge/context/compactor.py, ContextManager.prepare in *)
(* forge/context/manager.py) and how a summary replaces the history        *)
(* (compact_history, called by TurnRunner._compact and by /compact).       *)
(*                                                                         *)
(* A message has a size in tokens. Tool results are pruned when they enter *)
(* the history, so that their size is bounded; the summary awaits a model. *)
(***************************************************************************)
EXTENDS Naturals, Sequences, FiniteSets, FiniteSetsExt, SequencesExt

CONSTANTS
  Prompts,          \* texts of the user
  ReadSources,          \* file ranges that read_file shows
  Configs,          \* CompactionConfig: limit, first, recent, sources, retain, retries
  EnvelopeSizes,        \* tokens of system prompt, repository context and tools
  TokenThreshold,        \* pressure_threshold of the window
  MaxFailures,      \* max_summary_failures
  SummarySizes,     \* tokens of a summary
  ReadSize,         \* tokens of a file range; other messages count one
  MaxMessages,      \* bound: messages of a history
  MaxCompactions,   \* bound: summaries begun
  MaxLosses         \* bound: calls left without a result, records lost, restarts

ASSUME ContextAssumption ==
  /\ "none" \notin ReadSources /\ TokenThreshold \in Nat /\ MaxFailures \in Nat /\ EnvelopeSizes \subseteq Nat
  /\ SummarySizes \subseteq Nat /\ ReadSize \in Nat /\ MaxMessages \in Nat /\ MaxCompactions \in Nat /\ MaxLosses \in Nat

VARIABLES
  config,       \* the CompactionConfig of the agent
  messages,      \* Conversation.messages
  stored,       \* the history that a replay of the journal gives
  failures,     \* ContextManager.summary_failures
  summary,      \* the compact_history under way
  transcripts,  \* the tool results that .forge/context/transcripts holds
  given,        \* history: instructions of the user
  results,      \* history: number of tool results
  compactions,  \* history: number of summaries begun
  losses        \* history: number of losses

context_vars == <<config, messages, stored, failures, summary, transcripts, given, results, compactions, losses>>

\* A message is one of the user, of the assistant (text, or a call with its number and what it
\* reads), a result, a feedback of the runtime, a summary, or the anchor of instructions.
Message(kind, texts, size) == [kind |-> kind, texts |-> texts, size |-> size, call |-> 0, source |-> "none"]
CallMessage(n, source) == [Message("call", {}, 1) EXCEPT !.call = n, !.source = source]
ResultMessage(call) ==
  [call EXCEPT !.kind = "result", !.size = IF call.source = "none" THEN 1 ELSE ReadSize]
Anchor(texts) == Message("instructions", texts, Cardinality(texts))

ResultsIn(h) == {h[i].call : i \in {j \in DOMAIN h : h[j].kind = "result"}}
TokensFrom(h) ==
  LET from[i \in 1 .. Len(h) + 1] == IF i > Len(h) THEN 0 ELSE h[i].size + from[i + 1] IN from
Tokens(h) == TokensFrom(h)[1]
NoSummary == [working |-> <<>>, forced |-> FALSE, attempts |-> 0, envelope |-> 0]

ContextInit ==
  /\ config \in Configs
  /\ messages = <<>> /\ stored = <<>> /\ failures = 0 /\ summary = NoSummary /\ transcripts = {}
  /\ given = {} /\ results = 0 /\ compactions = 0 /\ losses = 0

(***************************************************************************)
(* atomic_message_units: a call and the result behind it are one unit. A   *)
(* unit is named by the place where it begins.                             *)
(***************************************************************************)
Joined(h, i) == i \in 2 .. Len(h) /\ h[i - 1].kind = "call" /\ h[i].kind = "result"
Units(h) == {i \in DOMAIN h : ~Joined(h, i)}
UnitAt(h, i) == {i} \union {j \in {i + 1} : Joined(h, j)}

\* original_user_instructions
Instructions(h) == UNION {h[i].texts : i \in DOMAIN h}

(***************************************************************************)
(* The request copy. Beyond the message limit the first and the last       *)
(* units stay, the anchors, and the latest reads of sources that nothing   *)
(* kept shows; a marker stands for the others.                             *)
(***************************************************************************)
FirstUnits(h) == {i \in Units(h) : i - 1 < config.first}
Anchors(h) == {i \in Units(h) : h[i].kind \in {"summary", "instructions"}}
RecentUnits(h) == {i \in Units(h) : \E j \in UnitAt(h, i) : Len(h) - j < config.recent}
Selected(h) == FirstUnits(h) \union Anchors(h) \union RecentUnits(h)

Reads(h, source) == {i \in Units(h) : h[i].source = source /\ UnitAt(h, i) # {i}}
LatestReads(h) == {Max(Reads(h, s)) : s \in {t \in ReadSources : Reads(h, t) # {}}}
FileEvidence(h, selected) ==
  LET others == LatestReads(h) \ selected IN
  {i \in others : Cardinality({j \in others : j > i}) < config.sources}

KeptPlaces(h) ==
  LET selected == Selected(h) IN
  IF config.limit = 0 \/ Len(h) <= config.limit THEN DOMAIN h
  ELSE UNION {UnitAt(h, i) : i \in selected \union FileEvidence(h, selected)}

At(h, places) ==
  LET order == SelectSeq([i \in DOMAIN h |-> i], LAMBDA i : i \in places) IN
  [i \in DOMAIN order |-> h[order[i]]]

Omitted(h) == DOMAIN h \ KeptPlaces(h)

Snipped(h) ==
  LET kept == KeptPlaces(h)
      front == UNION {UnitAt(h, i) : i \in FirstUnits(h)} IN
  IF kept = DOMAIN h THEN h
  ELSE At(h, front) \o <<Message("marker", {}, 0)>> \o At(h, kept \ front)

\* prepare; the instructions that were cut away come back in an anchor, where the history became
\* shorter at all.
Prepared(h) ==
  LET snipped == Snipped(h)
      missing == Instructions(h) \ Instructions(snipped) IN
  IF Len(h) > Len(snipped) /\ missing # {} THEN <<Anchor(missing)>> \o snipped ELSE snipped

(***************************************************************************)
(* The history grows. A call stays pending in the journal until its result *)
(* is recorded.                                                            *)
(***************************************************************************)
Idle == summary = NoSummary
CallsAnswered == messages # <<>> => (Last(messages).kind # "call" \/ Last(messages).call <= results)
CanGrow == Idle /\ Len(messages) < MaxMessages

UserSays(text) ==
  LET message == Message("user", {text}, 1) IN
  /\ CanGrow /\ CallsAnswered
  /\ messages' = Append(messages, message) /\ stored' = Append(stored, message)
  /\ given' = given \union {text}
  /\ UNCHANGED <<config, failures, summary, transcripts, results, compactions, losses>>

AssistantSays ==
  LET message == Message("text", {}, 1) IN
  /\ CanGrow /\ CallsAnswered /\ messages # <<>>
  /\ messages' = Append(messages, message) /\ stored' = Append(stored, message)
  /\ UNCHANGED <<config, failures, summary, transcripts, given, results, compactions, losses>>

AssistantCalls(source) ==
  /\ CanGrow /\ CallsAnswered /\ messages # <<>>
  /\ messages' = Append(messages, CallMessage(results + 1, source))
  /\ UNCHANGED <<config, stored, failures, summary, transcripts, given, results, compactions, losses>>

ToolReturns ==
  LET pair == <<Last(messages), ResultMessage(Last(messages))>> IN
  /\ Idle /\ ~CallsAnswered
  /\ messages' = Append(messages, ResultMessage(Last(messages))) /\ stored' = stored \o pair
  /\ results' = results + 1
  /\ UNCHANGED <<config, failures, summary, transcripts, given, compactions, losses>>

\* The results cannot be recorded: the turn ends with the call in memory. Numbering goes on.
ResultLost ==
  /\ Idle /\ ~CallsAnswered /\ losses < MaxLosses
  /\ messages' = [messages EXCEPT ![Len(messages)].call = 0]
  /\ losses' = losses + 1
  /\ UNCHANGED <<config, stored, failures, summary, transcripts, given, results, compactions>>

\* Feedback of the runtime is not in the journal.
Feedback ==
  /\ CanGrow /\ CallsAnswered /\ messages # <<>>
  /\ messages' = Append(messages, Message("feedback", {}, 1))
  /\ UNCHANGED <<config, stored, failures, summary, transcripts, given, results, compactions, losses>>

(***************************************************************************)
(* compact_history.                                                        *)
(***************************************************************************)
\* Where the tail begins: the last units that reach the tokens to retain, or all of them.
TailAnywhere(h, retain) ==
  LET from == TokensFrom(h)
      enough == {i \in DOMAIN h : from[i] >= retain} IN
  IF enough = {} THEN 1 ELSE Max(enough)

TailStart(h, retain) ==
  LET from == TokensFrom(h)
      enough == {i \in Units(h) : from[i] >= retain} IN
  IF enough = {} THEN 1 ELSE Max(enough)

Retain(forced) == IF forced THEN 0 ELSE config.retain
NoRange(h, forced) == ~forced /\ TailStart(h, Retain(forced)) = 1
Presses(h, envelope) == envelope + Tokens(h) > TokenThreshold

\* Begins when it is forced or the request presses on the window; not with the fuse open, nor
\* where the fixed part alone is too large.
BeginSummary(forced, envelope) ==
  LET prepared == Prepared(messages) IN
  /\ Idle /\ CallsAnswered /\ messages # <<>> /\ compactions < MaxCompactions
  /\ forced \/ Presses(prepared, envelope)
  /\ failures < MaxFailures
  /\ forced \/ envelope <= TokenThreshold
  /\ transcripts' = transcripts \union ResultsIn(messages)
  /\ compactions' = compactions + 1
  /\ IF NoRange(prepared, forced)
     THEN failures' = failures + 1 /\ UNCHANGED summary
     ELSE /\ summary' = [working |-> prepared, forced |-> forced, attempts |-> 1, envelope |-> envelope]
          /\ UNCHANGED failures
  /\ UNCHANGED <<config, messages, stored, given, results, losses>>

Compacted(size) ==
  LET h == summary.working
      tail == SubSeq(h, TailStart(h, Retain(summary.forced)), Len(h))
      texts == Instructions(messages) IN
  <<Message("summary", {}, size)>> \o (IF texts = {} THEN <<>> ELSE <<Anchor(texts)>>)
    \o <<Message("text", {}, 1)>> \o tail

GiveUp ==
  /\ summary' = NoSummary /\ failures' = failures + 1
  /\ UNCHANGED <<config, messages, stored, transcripts, given, results, compactions, losses>>

\* The new history holds, unless its record is lost, in the journal too.
Accept(compacted) ==
  /\ messages' = compacted /\ failures' = 0 /\ summary' = NoSummary
  /\ \/ stored' = compacted /\ UNCHANGED losses
     \/ losses < MaxLosses /\ losses' = losses + 1 /\ UNCHANGED stored
  /\ UNCHANGED <<config, transcripts, given, results, compactions>>

SummaryReturns(size) ==
  LET compacted == Compacted(size)
      request == Prepared(compacted) IN
  /\ ~Idle
  /\ \/ summary.forced /\ Accept(compacted)
     \/ /\ ~summary.forced /\ Tokens(request) < Tokens(summary.working)
        /\ ~Presses(request, summary.envelope)
        /\ Accept(compacted)
     \/ /\ ~summary.forced /\ Tokens(request) < Tokens(summary.working)
        /\ Presses(request, summary.envelope)
        /\ summary.attempts <= config.retries /\ ~NoRange(compacted, FALSE)
        /\ summary' = [summary EXCEPT !.working = compacted, !.attempts = @ + 1]
        /\ UNCHANGED <<config, messages, stored, failures, transcripts, given, results, compactions, losses>>
     \/ /\ ~summary.forced
        /\ \/ Tokens(request) >= Tokens(summary.working)
           \/ /\ Presses(request, summary.envelope)
              /\ summary.attempts > config.retries \/ NoRange(compacted, FALSE)
        /\ GiveUp

SummaryFails == ~Idle /\ GiveUp

\* A cancellation or an exhausted budget leaves everything as it was.
SummaryCancelled ==
  /\ ~Idle
  /\ summary' = NoSummary
  /\ UNCHANGED <<config, messages, stored, failures, transcripts, given, results, compactions, losses>>

\* The session is opened again: its history is what the journal gives.
Reopen ==
  /\ losses < MaxLosses /\ losses' = losses + 1
  /\ messages' = stored /\ failures' = 0 /\ summary' = NoSummary
  /\ UNCHANGED <<config, stored, transcripts, given, results, compactions>>

ContextNext ==
  \/ AssistantSays \/ ToolReturns \/ ResultLost \/ Feedback
  \/ SummaryFails \/ SummaryCancelled \/ Reopen
  \/ \E text \in Prompts : UserSays(text)
  \/ \E source \in ReadSources \union {"none"} : AssistantCalls(source)
  \/ \E forced \in BOOLEAN, envelope \in EnvelopeSizes : BeginSummary(forced, envelope)
  \/ \E size \in SummarySizes : SummaryReturns(size)

ContextSpec == ContextInit /\ [][ContextNext]_context_vars

(***************************************************************************)
(* What a context must not lose.                                           *)
(***************************************************************************)
PairsWhole(h) == \A i \in DOMAIN h : h[i].kind = "result" =>
                    i > 1 /\ h[i - 1].kind = "call" /\ h[i - 1].call = h[i].call

\* However often a history is cut, summarised, recorded and replayed: every instruction of the
\* user stays in it word for word, in memory and in the journal, and reaches the model (save
\* where the marker stands for a single message, when prepare does not look for missing ones);
\* no result is separated from its call; and what a tool returned is in the history or in a
\* transcript (atomic_message_units, original_user_instructions, compact_history).
ContextKept ==
  LET request == Prepared(messages) IN
  /\ given \subseteq Instructions(messages) \intersect Instructions(stored)
  /\ Cardinality(Omitted(messages)) # 1 => given \subseteq Instructions(request)
  /\ PairsWhole(messages) /\ PairsWhole(stored) /\ PairsWhole(request)
  /\ 1 .. results \subseteq transcripts \union ResultsIn(messages)
=============================================================================
