---------------------------- MODULE Observations ----------------------------
(***************************************************************************)
(* What the engine keeps and sends of its observations: the ledger of what *)
(* each request to a model used, and the queue of ended spans for a        *)
(* collector outside (forge/observability: recorder, projection,           *)
(* usage_ledger, export_queue).                                            *)
(*                                                                         *)
(* A request reports its usage while it streams, perhaps only a part of    *)
(* it, and ends well, with an error, cancelled or not at all.  A late      *)
(* confirmation by the provider may come before or after its end.  Spans   *)
(* that end are queued in the transaction of their event, while one task   *)
(* posts the queue with retries.  The engine stops at any moment and comes *)
(* back, perhaps with another collector.                                   *)
(*                                                                         *)
(* Events are projected at once: EventStream is about the way from the     *)
(* journal to the store.  Chunks, prices and the scope of evaluations are  *)
(* left out.                                                               *)
(***************************************************************************)
EXTENDS Naturals, Sequences, SequencesExt, FiniteSetsExt

CONSTANTS
  ModelRequests,     \* the requests a turn sends to its model
  Bills,             \* usages that add up
  OddUsage,          \* a usage that normalize_usage refuses
  NoUsage,           \* no usage was reported
  Collectors,        \* the endpoints an operator may configure
  NoCollector,       \* export is off
  SpanSizes,         \* sizes of spans that are no request
  QueueItems,        \* ObservationOptions.queue_items
  QueueBytes,        \* ObservationOptions.queue_bytes
  MaxSends,          \* ObservationOptions.max_attempts
  MaxSpans,          \* bound: spans that end
  MaxConfirms,       \* bound: confirmations
  MaxEngineStops     \* bound: stops of the engine

ASSUME ObservationsAssumption ==
  /\ {QueueItems, QueueBytes, MaxSends} \subseteq Nat \ {0}
  /\ {MaxSpans, MaxConfirms, MaxEngineStops} \subseteq Nat

VARIABLES
  collector,    \* the endpoint of this engine process
  sending,      \* model_budget: the requests under way and what they reported
  rows,         \* model_requests and usage_ledger
  stuck,        \* the journal is quarantined: no event after a refused one is projected
  queue,        \* export_queue, in the order of its rowids
  posting,      \* the row the exporter's task awaits an answer for
  failures,     \* export_failures, all reasons together
  counts,       \* how often the environment acted
  spans,        \* history: the spans that ended, with the collector they were meant for
  reached,      \* history: span and collector of every post that arrived
  posts,        \* history: how often each span was posted
  blamed,       \* history: the spans a failure was counted for
  vouched       \* history: the usages a provider called final, by request

export_vars == <<queue, posting, failures, spans, reached, posts, blamed>>
obs_vars == <<collector, sending, rows, stuck, counts, vouched, export_vars>>

NotPosting == [n |-> 0, tries |-> 0]
NotSent == [at |-> "not_begun", usage |-> NoUsage, final |-> FALSE]
NoRequest == [state |-> "none", quality |-> "none", usage |-> NoUsage]

ObsInit ==
  /\ collector \in Collectors
  /\ sending = [r \in ModelRequests |-> NotSent]
  /\ rows = [r \in ModelRequests |-> NoRequest]
  /\ stuck = FALSE
  /\ queue = <<>> /\ posting = NotPosting /\ failures = 0
  /\ counts = [confirms |-> 0, stops |-> 0]
  /\ spans = <<>> /\ reached = {} /\ posts = <<>> /\ blamed = {}
  /\ vouched = [r \in ModelRequests |-> {}]

-----------------------------------------------------------------------------
\* enqueue: the oldest rows give way, and each is counted.

TotalSize(rest) == FoldSeq(LAMBDA row, total : row.size + total, 0, rest)
\* How many of the oldest rows give way to a new one.
Evicted(rest, size) ==
  Min({n \in 0 .. Len(rest) :
         n = Len(rest) \/ /\ Len(rest) - n < QueueItems
                          /\ TotalSize(SubSeq(rest, n + 1, Len(rest))) + size <= QueueBytes})

Enqueue(size) ==
  /\ Len(spans) < MaxSpans
  /\ spans' = Append(spans, collector)
  /\ posts' = Append(posts, 0)
  /\ IF collector = NoCollector THEN UNCHANGED <<queue, failures, blamed>>
     ELSE IF size > QueueBytes
     THEN /\ failures' = failures + 1
          /\ blamed' = blamed \cup {Len(spans) + 1}
          /\ UNCHANGED queue
     ELSE LET n == Evicted(queue, size)
              row == [n |-> Len(spans) + 1, to |-> collector, size |-> size,
                      tries |-> 0, ripe |-> TRUE]
          IN  /\ queue' = Append(SubSeq(queue, n + 1, Len(queue)), row)
              /\ failures' = failures + n
              /\ blamed' = blamed \cup {queue[i].n : i \in 1 .. n}
  /\ UNCHANGED <<posting, reached>>

\* Any other span that ends: a tool, a verification, a grade.
SpanEnds ==
  /\ ~stuck
  /\ \E size \in SpanSizes : Enqueue(size)
  /\ UNCHANGED <<collector, sending, rows, stuck, counts, vouched>>

-----------------------------------------------------------------------------
\* The ledger.

\* begin_request: the start of an attempt is an event of its own.
RequestBegins(r) ==
  /\ sending[r].at = "not_begun"
  /\ sending' = [sending EXCEPT ![r].at = "under_way"]
  /\ rows' = IF stuck THEN rows
             ELSE [rows EXCEPT ![r] = [state |-> "running", quality |-> "unknown", usage |-> NoUsage]]
  /\ UNCHANGED <<collector, stuck, counts, vouched, export_vars>>

\* ModelUsageUpdate: cumulative counts, final or not.
UsageArrives(r, usage, final) ==
  /\ sending[r].at = "under_way" /\ ~sending[r].final
  /\ sending' = [sending EXCEPT ![r].usage = usage, ![r].final = final]
  /\ vouched' = IF final THEN [vouched EXCEPT ![r] = @ \cup {usage}] ELSE vouched
  /\ UNCHANGED <<collector, rows, stuck, counts, export_vars>>

\* Mistake: whatever was reported is taken for what the request used.
QualityAsReported(call) == IF call.usage # NoUsage THEN "actual" ELSE "unknown"

\* A count is actual when the provider called it final.
Quality(call) == IF call.usage # NoUsage /\ call.final THEN "actual" ELSE "unknown"

\* update_request: a row that is known is repeated, never overwritten.
Refuses(r, usage, quality) ==
  rows[r].quality # "unknown" /\ (rows[r].usage # usage \/ rows[r].quality # quality)
Settled(r, usage, quality) ==
  IF rows[r].quality # "unknown" THEN rows[r] ELSE [rows[r] EXCEPT !.usage = usage, !.quality = quality]

\* end_request: a usage that does not add up raises before the event is written; a refused
\* event undoes its transaction and quarantines the journal.
RequestEnds(r, outcome) ==
  /\ sending[r].at = "under_way"
  /\ sending' = [sending EXCEPT ![r].at = "over"]
  /\ LET call == sending[r]
         quality == Quality(call)
     IN  IF call.usage = OddUsage \/ stuck
         THEN UNCHANGED <<rows, stuck, export_vars>>
         ELSE IF Refuses(r, call.usage, quality)
         THEN stuck' = TRUE /\ UNCHANGED <<rows, export_vars>>
         ELSE /\ rows' = [rows EXCEPT ![r] = [Settled(r, call.usage, quality) EXCEPT !.state = outcome]]
              /\ Enqueue(1)
              /\ UNCHANGED stuck
  /\ UNCHANGED <<collector, counts, vouched>>

\* confirm_usage: the provider's word comes late, or early; it is no ended span.
Confirms(r, usage) ==
  /\ counts.confirms < MaxConfirms
  /\ counts' = [counts EXCEPT !.confirms = @ + 1]
  /\ rows[r].state # "none" /\ usage # OddUsage
  /\ IF Refuses(r, usage, "actual") THEN UNCHANGED <<rows, vouched>>
     ELSE /\ rows' = [rows EXCEPT ![r] = Settled(r, usage, "actual")]
          /\ vouched' = [vouched EXCEPT ![r] = @ \cup {usage}]
  /\ UNCHANGED <<collector, sending, stuck, export_vars>>

-----------------------------------------------------------------------------
\* ExportQueue.run.

\* The row that is sent next: the oldest one for this collector whose time has come.
Due == {i \in DOMAIN queue : queue[i].to = collector /\ queue[i].ripe}

Post ==
  /\ posting = NotPosting /\ Due # {}
  /\ LET row == queue[Min(Due)]
     IN  /\ posting' = [n |-> row.n, tries |-> row.tries]
         /\ posts' = [posts EXCEPT ![row.n] = @ + 1]
  /\ UNCHANGED <<collector, sending, rows, stuck, counts, vouched, queue, failures, spans,
                 reached, blamed>>

\* retry_at: the time of a row that waits has come.
Ripens ==
  /\ \E i \in DOMAIN queue : ~queue[i].ripe /\ queue' = [queue EXCEPT ![i].ripe = TRUE]
  /\ UNCHANGED <<collector, sending, rows, stuck, counts, vouched, posting, failures, spans,
                 reached, posts, blamed>>

\* An answer: accepted; a status or a lost connection that is tried again, whether or not
\* the post arrived; or a refusal, an odd answer, a partial rejection.
Answers == [arrived : BOOLEAN, reason : BOOLEAN, retry : BOOLEAN]
PossibleAnswers ==
  {a \in Answers : (~a.reason => a.arrived /\ ~a.retry) /\ (~a.arrived => a.retry)}

\* The transaction after the answer; a row that was evicted meanwhile does not come back.
PostAnswered(a) ==
  /\ posting # NotPosting
  /\ reached' = IF a.arrived THEN reached \cup {<<posting.n, collector>>} ELSE reached
  /\ failures' = IF a.reason THEN failures + 1 ELSE failures
  /\ blamed' = IF a.reason THEN blamed \cup {posting.n} ELSE blamed
  /\ queue' = IF a.reason /\ a.retry /\ posting.tries + 1 < MaxSends
              THEN [i \in DOMAIN queue |->
                      IF queue[i].n = posting.n
                      THEN [queue[i] EXCEPT !.tries = @ + 1, !.ripe = FALSE] ELSE queue[i]]
              ELSE SelectSeq(queue, LAMBDA row : row.n # posting.n)
  /\ posting' = NotPosting
  /\ UNCHANGED <<collector, sending, rows, stuck, counts, vouched, spans, posts>>

-----------------------------------------------------------------------------
\* The engine stops, or dies, in the middle of everything, and the next one begins: what a
\* request under way used is known to nobody, a post may have arrived.
EngineRestarts ==
  /\ counts.stops < MaxEngineStops
  /\ counts' = [counts EXCEPT !.stops = @ + 1]
  /\ collector' \in Collectors \cup {NoCollector}
  /\ sending' = [r \in ModelRequests |->
                   IF sending[r].at = "under_way" THEN [sending[r] EXCEPT !.at = "lost"]
                   ELSE sending[r]]
  /\ \/ UNCHANGED reached
     \/ posting # NotPosting /\ reached' = reached \cup {<<posting.n, collector>>}
  /\ posting' = NotPosting
  /\ UNCHANGED <<rows, stuck, vouched, queue, failures, spans, posts, blamed>>

ObsNext ==
  \/ SpanEnds \/ Post \/ Ripens \/ EngineRestarts
  \/ \E r \in ModelRequests :
       \/ RequestBegins(r)
       \/ \E outcome \in {"finished", "failed"} : RequestEnds(r, outcome)
       \/ \E usage \in Bills \cup {OddUsage}, final \in BOOLEAN : UsageArrives(r, usage, final)
       \/ \E usage \in Bills \cup {OddUsage} : Confirms(r, usage)
  \/ \E a \in PossibleAnswers : PostAnswered(a)

-----------------------------------------------------------------------------
Queued == {queue[i].n : i \in DOMAIN queue}

\* A span that ended while export was on waits in the queue, has reached the collector it
\* was meant for, or was counted as lost; none goes to another collector, none is posted
\* more often than its tries and the stops of the engine allow, and the queue keeps its
\* limits (enqueue, run).
SpansAnsweredFor ==
  /\ \A n \in DOMAIN spans : spans[n] # NoCollector =>
       n \in Queued \/ <<n, spans[n]>> \in reached \/ n \in blamed
  /\ \A pair \in reached : pair[2] = spans[pair[1]]
  /\ \A n \in DOMAIN posts : posts[n] <= MaxSends + counts.stops
  /\ Len(queue) <= QueueItems /\ TotalSize(queue) <= QueueBytes

\* The ledger says actual only of what the provider called final, and says one thing only:
\* a final count that arrived and was recorded is the one it keeps.  A request that is over
\* has its row settled, but where its usage does not add up or its journal is quarantined.
LedgerTrue ==
  \A r \in ModelRequests :
    /\ rows[r].quality = "actual" => rows[r].usage \in vouched[r]
    /\ sending[r].at = "over" /\ sending[r].usage # OddUsage /\ ~stuck =>
         /\ rows[r].state # "running"
         /\ sending[r].final => rows[r].usage = sending[r].usage /\ rows[r].quality = "actual"

\* What the engine tells of its work to an operator and to a collector adds up.
ObservationsAccounted == SpansAnsweredFor /\ LedgerTrue
=============================================================================
