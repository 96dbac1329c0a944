------------------------------ MODULE ModelCalls ------------------------------
(***************************************************************************)
(* Model calls: the retries of a client (forge/runtime/model_client.py,    *)
(* and in the same way providers.py), the budget and the account of every  *)
(* attempt (model_budget.py, turn_state.py), and the health of the         *)
(* endpoint that all clients of a profile share (service_health.py).       *)
(*                                                                         *)
(* Callers are turns of different conversations or of subagents; those in  *)
(* Children run for one parent turn and share its budget. The text of a    *)
(* response is whether it began; its blocks are in Recording.              *)
(***************************************************************************)
EXTENDS Naturals, FiniteSets, FiniteSetsExt

CONSTANTS
  Callers,
  Children,     \* callers whose TurnState has the parent
  Limit,        \* max_model_calls of a caller
  ParentLimit,  \* max_model_calls of the parent
  MaxRetries,
  Threshold,    \* failures that open the circuit
  MaxCalls,     \* bound: calls of a caller
  MaxTokens     \* bound: tokens a provider reports for an attempt

ASSUME CallAssumption ==
  /\ IsFiniteSet(Callers) /\ Children \subseteq Callers
  /\ Limit \in Nat /\ ParentLimit \in Nat /\ MaxRetries \in Nat /\ Threshold \in Nat \ {0}
  /\ MaxCalls \in Nat /\ MaxTokens \in Nat

VARIABLES
  caller,       \* the call each caller has under way
  account,      \* its TurnState: model_calls, usage, unknown_usage_requests
  parentAccount,
  health,       \* ServiceHealth of the profile
  sent,         \* history: attempts that went out, and how many of them were reported finished
  billed,       \* history: tokens of the last report of each attempt, and attempts without a final one
  disturbed     \* history: an attempt older than the circuit's opening ended beside a probe

call_vars == <<caller, account, parentAccount, health, sent, billed, disturbed>>

\* reported counts the tokens of the last ModelUsageUpdate of the attempt; 0 is no report yet.
NoCallYet == [pc |-> "idle", attempt |-> 0, began |-> 0, started |-> FALSE, probe |-> FALSE,
              reported |-> 0, final |-> FALSE, open |-> FALSE, calls |-> 0]
NewAccount == [calls |-> 0, usage |-> 0, unknown |-> 0]

CallInit ==
  /\ caller = [c \in Callers |-> NoCallYet]
  /\ account = [c \in Callers |-> NewAccount] /\ parentAccount = NewAccount
  /\ health = [failures |-> 0, circuit |-> "closed", probe |-> FALSE, paused |-> FALSE]
  /\ sent = [c \in Callers |-> [started |-> 0, finished |-> 0]]
  /\ billed = [c \in Callers |-> [tokens |-> 0, unknown |-> 0]]
  /\ disturbed = FALSE

(***************************************************************************)
(* The account. end_request reports the open attempt once; record_usage    *)
(* adds its tokens once; both reach the parent.                            *)
(***************************************************************************)
Lacking(k) == IF k.open /\ ~k.final THEN 1 ELSE 0

\* The end of an attempt: what it used and whether that is known.
Settle(c, k, calls) ==
  LET add(a) == [calls |-> a.calls + calls, usage |-> a.usage + k.reported,
                 unknown |-> a.unknown + Lacking(k)] IN
  /\ account' = [account EXCEPT ![c] = add(@)]
  /\ parentAccount' = IF c \in Children THEN add(parentAccount) ELSE parentAccount

\* The retry that is announced closes the report; the tokens wait for the next attempt.
CountUnknown(c, n) ==
  /\ account' = [account EXCEPT ![c].unknown = @ + n]
  /\ parentAccount' = IF c \in Children THEN [parentAccount EXCEPT !.unknown = @ + n]
                      ELSE parentAccount

Exhausted(c) ==
  account[c].calls >= Limit \/ (c \in Children /\ parentAccount.calls >= ParentLimit)

(***************************************************************************)
(* Health.                                                                 *)
(***************************************************************************)
Refuses(h) == h.paused \/ h.circuit = "cooling" \/ (h.circuit = "cooled" /\ h.probe)

Failed(h) ==
  [h EXCEPT !.failures = @ + 1, !.paused = @ \/ h.probe,
            !.circuit = IF h.failures + 1 >= Threshold THEN "cooling" ELSE @]
Succeeded(h) == [failures |-> 0, circuit |-> "closed", probe |-> FALSE, paused |-> FALSE]

\* The finally block of an attempt takes the probe mark away, whoever set it.
Left(h) == [h EXCEPT !.probe = FALSE]

InFlight(c) == caller[c].pc \in {"streaming", "sleeping"}
Probing == {c \in Callers : InFlight(c) /\ caller[c].probe}
Disturbs(c) == ~caller[c].probe /\ Probing # {}

(***************************************************************************)
(* A call and its attempts.                                                *)
(***************************************************************************)
BeginCall(c) ==
  /\ caller[c].pc = "idle" /\ caller[c].calls < MaxCalls
  /\ caller' = [caller EXCEPT ![c] = [NoCallYet EXCEPT !.pc = "begin", !.attempt = 1, !.calls = caller[c].calls + 1]]
  /\ UNCHANGED <<account, parentAccount, health, sent, billed, disturbed>>

Ended(k) == [NoCallYet EXCEPT !.calls = k.calls]

\* before_request refuses: the error leaves the loop before its try block.
RefusedByHealth(c) ==
  /\ caller[c].pc = "begin" /\ Refuses(health)
  /\ caller' = [caller EXCEPT ![c] = Ended(@)]
  /\ Settle(c, caller[c], 0)
  /\ UNCHANGED <<health, sent, billed, disturbed>>

\* begin_request: the usage of the attempt before is recorded, then the budget asked.
BeginAttempt(c) ==
  /\ caller[c].pc = "begin" /\ ~Refuses(health)
  /\ IF Exhausted(c)
     THEN /\ caller' = [caller EXCEPT ![c] = Ended(@)]
          /\ Settle(c, caller[c], 0)
          /\ health' = Left(health)
          /\ UNCHANGED sent
     ELSE /\ caller' = [caller EXCEPT ![c] = [@ EXCEPT
               !.pc = "streaming", !.started = FALSE, !.reported = 0, !.final = FALSE, !.open = TRUE,
               !.probe = health.circuit = "cooled"]]
          /\ Settle(c, caller[c], 1)
          /\ health' = [health EXCEPT !.probe = @ \/ health.circuit = "cooled"]
          /\ sent' = [sent EXCEPT ![c].started = @ + 1]
  /\ UNCHANGED <<billed, disturbed>>

Streams(c) == caller[c].pc = "streaming" /\ caller[c].open

Output(c) ==
  /\ Streams(c) /\ ~caller[c].started
  /\ caller' = [caller EXCEPT ![c].started = TRUE, ![c].began = @ + 1]
  /\ UNCHANGED <<account, parentAccount, health, sent, billed, disturbed>>

\* Reports are cumulative; the last one replaces those before.
Usage(c, tokens, final) ==
  /\ Streams(c) /\ ~caller[c].final /\ tokens >= caller[c].reported
  /\ final \/ caller[c].reported = 0
  /\ caller' = [caller EXCEPT ![c].reported = tokens, ![c].final = final]
  /\ billed' = [billed EXCEPT ![c].tokens = @ - caller[c].reported + tokens]
  /\ UNCHANGED <<account, parentAccount, health, sent, disturbed>>

\* What every end of an attempt does to the histories.
Reported(c) ==
  /\ sent' = [sent EXCEPT ![c].finished = @ + (IF caller[c].open THEN 1 ELSE 0)]
  /\ billed' = [billed EXCEPT ![c].unknown = @ + Lacking(caller[c])]

Succeeds(c) ==
  /\ Streams(c)
  /\ caller' = [caller EXCEPT ![c] = Ended(@)]
  /\ Settle(c, caller[c], 0)
  /\ health' = Succeeded(health)
  /\ Reported(c)
  /\ disturbed' = (disturbed \/ Disturbs(c))

CanRetryAlways(k) == k.attempt <= MaxRetries

CanRetry(k) == ~k.started /\ k.attempt <= MaxRetries

\* A timeout, a lost connection, a rate limit, an overloaded or failing server.
FailsTransiently(c) ==
  /\ Streams(c)
  /\ Reported(c)
  /\ IF CanRetry(caller[c])
     THEN /\ caller' = [caller EXCEPT ![c].pc = "sleeping", ![c].open = FALSE]
          /\ health' = Failed(health)
          /\ CountUnknown(c, Lacking(caller[c]))
          /\ UNCHANGED disturbed
     ELSE /\ caller' = [caller EXCEPT ![c] = Ended(@)]
          /\ health' = Left(Failed(health))
          /\ Settle(c, caller[c], 0)
          /\ disturbed' = (disturbed \/ Disturbs(c))

Wake(c) ==
  /\ caller[c].pc = "sleeping"
  /\ caller' = [caller EXCEPT ![c].pc = "begin", ![c].attempt = @ + 1]
  /\ health' = Left(health)
  /\ disturbed' = (disturbed \/ Disturbs(c))
  /\ UNCHANGED <<account, parentAccount, sent, billed>>

\* A request the provider rejects, a malformed response, or a cancellation; also while it sleeps.
FailsForGood(c) ==
  /\ InFlight(c)
  /\ caller' = [caller EXCEPT ![c] = Ended(@)]
  /\ Settle(c, caller[c], 0)
  /\ health' = Left(health)
  /\ Reported(c)
  /\ disturbed' = (disturbed \/ Disturbs(c))

Cooldown ==
  /\ health.circuit = "cooling"
  /\ health' = [health EXCEPT !.circuit = "cooled"]
  /\ UNCHANGED <<caller, account, parentAccount, sent, billed, disturbed>>

CallNext ==
  \/ Cooldown
  \/ \E c \in Callers :
       \/ BeginCall(c) \/ RefusedByHealth(c) \/ BeginAttempt(c) \/ Output(c)
       \/ \E tokens \in 1 .. MaxTokens, final \in BOOLEAN : Usage(c, tokens, final)
       \/ Succeeds(c) \/ FailsTransiently(c) \/ Wake(c) \/ FailsForGood(c)

CallSpec == CallInit /\ [][CallNext]_call_vars

(***************************************************************************)
(* What the account is worth, and the probe.                               *)
(***************************************************************************)
SumOf(f(_), set) == MapThenSumSet(f, set)

\* However attempts are retried, refused, cut off or cancelled: none goes out beyond the budget of
\* the turn or of its parent, each is reported finished exactly once, its tokens are added exactly
\* once, those of a child also to the parent, and an attempt without a final report is counted as
\* unknown. A call that gave output is not sent again (BudgetedModelClient.stream, TurnState).
AttemptsAccounted ==
  LET Sent(c) == sent[c].started
      Used(c) == account[c].usage IN
  /\ \A c \in Callers :
       /\ sent[c].started = account[c].calls /\ account[c].calls <= Limit
       /\ sent[c].started = sent[c].finished + (IF caller[c].open THEN 1 ELSE 0)
       /\ account[c].usage + caller[c].reported = billed[c].tokens
       /\ account[c].unknown = billed[c].unknown
       /\ caller[c].began <= 1
  /\ SumOf(Sent, Children) = parentAccount.calls /\ parentAccount.calls <= ParentLimit
  /\ SumOf(Used, Children) = parentAccount.usage

\* After the cooldown of an open circuit one probe goes out at a time, as long as no attempt from
\* before the opening ends beside it (ServiceHealth.before_request).
OneProbe == ~disturbed => Cardinality(Probing) <= 1

\* Both, for a turn and its children over one account and one circuit.
CallsHonest == AttemptsAccounted /\ OneProbe
=============================================================================
