--------------------------- MODULE Confirmations ---------------------------
(***************************************************************************)
(* What the engine does only when a person confirmed exactly that: a tool  *)
(* call of a turn, the trust of a workspace, the settings and the test of  *)
(* a connection (forge/application/approvals.py, connections.py and the    *)
(* handlers of forge/engine/methods.py). One turn, one workspace and one   *)
(* connection. The requests of clients interleave where a handler awaits   *)
(* the state of the workspace; the clock may pass any limit at any time.   *)
(***************************************************************************)
EXTENDS Naturals, Sequences, FiniteSets

CONSTANTS
  Settings,       \* what a connection may be set to
  MaxConfirmations,      \* bound: confirmations prepared
  MaxApprovals,   \* bound: calls that ask
  MaxWorld,       \* bound: states of the workspace
  MaxRevisions,   \* bound: changes of trust and of the connection
  MaxRequests,    \* bound: decisions sent, the repeated ones included
  MaxRestarts     \* bound: restarts of the engine

ASSUME ConfirmationAssumption ==
  /\ MaxConfirmations \in Nat /\ MaxApprovals \in Nat /\ MaxWorld \in Nat
  /\ MaxRevisions \in Nat /\ MaxRequests \in Nat /\ MaxRestarts \in Nat

VARIABLES
  epoch,        \* store.epoch
  world,        \* revision and environment epoch a refresh of the tracker finds
  workspace,    \* the row: revision, trust
  link,         \* the row of the connection, or NoRow
  key,          \* BoundCredentials: the scope of the installed secret, and whether it is revoked
  tests,        \* connection tests in flight: the scope of the key they use
  turnRow,      \* the turn: its state, and what it was configured with
  wait,         \* ApprovalService.authorize: where it is, and its future
  approvals,    \* rows of approvals, by the order of their creation
  tokens,       \* ConfirmationNonces.tokens: number, kind, target, binding
  handling,     \* requests whose handler awaits the workspace
  actionLog,    \* actions: request and recorded result
  done,         \* history: confirmed operations, each with its token
  allowed,      \* history: approvals that let a call pass, and what held at that moment
  issued, requests   \* counters of the bounds

conf_vars == <<epoch, world, workspace, link, key, tests, turnRow, wait, approvals, tokens,
               handling, actionLog, done, allowed, issued, requests>>

NoRow == [revision |-> 0, settings |-> "none"]
NoTurn == [state |-> "none", revision |-> 0, link |-> NoRow]
NoWait == [stage |-> "idle", future |-> "none"]
Latest == Len(approvals)

-----------------------------------------------------------------------------
(***************************************************************************)
(* Nonces: one operation on one target with one binding, once.             *)
(***************************************************************************)
Issue(kind, target, binding) ==
  /\ issued < MaxConfirmations /\ issued' = issued + 1
  /\ tokens' = tokens \cup {<<issued', kind, target, binding>>}

Valid(token, kind, target, binding) ==
  token \in tokens /\ Tail(token) = <<kind, target, binding>>

Consume(token) ==
  /\ tokens' = tokens \ {token}
  /\ done' = Append(done, [kind |-> token[2], token |-> token[1]])

\* A nonce lives 30 seconds.
ExpireToken(token) ==
  /\ token \in tokens /\ tokens' = tokens \ {token}
  /\ UNCHANGED <<epoch, world, workspace, link, key, tests, turnRow, wait, approvals, handling,
                 actionLog, done, allowed, issued, requests>>

-----------------------------------------------------------------------------
(***************************************************************************)
(* The turn and its calls.                                                 *)
(***************************************************************************)
\* Nothing but the installed secret is a key here: no trusted source holds one.
HasKey == link # NoRow /\ key = [scope |-> link, revoked |-> FALSE]

StartConfiguredTurn ==
  /\ turnRow.state = "none" /\ workspace.trusted /\ HasKey /\ Latest < MaxApprovals
  /\ turnRow' = [state |-> "running", revision |-> workspace.revision, link |-> link]
  /\ UNCHANGED <<epoch, world, workspace, link, key, tests, wait, approvals, tokens, handling,
                 actionLog, done, allowed, issued, requests>>

\* authorize after its refresh; a workspace that changed its row ends the call with an error.
AskApproval ==
  /\ turnRow.state = "running" /\ wait = NoWait /\ Latest < MaxApprovals
  /\ workspace.revision = turnRow.revision /\ workspace.trusted
  /\ approvals' = Append(approvals, [state |-> "pending", world |-> world, owner |-> epoch,
                                     revision |-> workspace.revision, late |-> FALSE])
  /\ turnRow' = [turnRow EXCEPT !.state = "awaiting_approval"]
  /\ wait' = [stage |-> "waiting", future |-> "none"]
  /\ UNCHANGED <<epoch, world, workspace, link, key, tests, tokens, handling, actionLog, done,
                 allowed, issued, requests>>

\* Mistake: the workspace is not looked at again.
StillAwaited(a) ==
  /\ workspace.revision = approvals[a].revision /\ workspace.trusted
  /\ turnRow.state = "awaiting_approval"

\* The part of _check_live before it awaits the workspace, and the part after it.
LiveSoFar(a, state) ==
  /\ approvals[a].owner = epoch /\ approvals[a].state = state /\ ~approvals[a].late
  /\ a = Latest /\ wait # NoWait
StillLive(a) ==
  /\ world = approvals[a].world
  /\ workspace.revision = approvals[a].revision /\ workspace.trusted
  /\ turnRow.state = "awaiting_approval"

\* finally: what was not consumed expires, and the turn goes on.
SettleApproval(state) ==
  /\ approvals' = [approvals EXCEPT ![Latest].state =
                     IF state = "consumed" THEN state
                     ELSE IF @ \in {"pending", "approved"} THEN "expired" ELSE @]
  /\ turnRow' = IF turnRow.state = "awaiting_approval" THEN [turnRow EXCEPT !.state = "running"]
                ELSE turnRow
  /\ wait' = NoWait

\* wait_for returns the decision, or cancels the future at its limit.
TakeDecision ==
  /\ wait.stage = "waiting"
  /\ \/ wait.future = "deny" /\ SettleApproval("denied")
     \/ /\ wait.future = "approve"
        /\ IF LiveSoFar(Latest, "approved")
           THEN wait' = [wait EXCEPT !.stage = "checking"] /\ UNCHANGED <<approvals, turnRow>>
           ELSE SettleApproval("refused")
     \/ /\ wait.future = "none"
        /\ wait' = [stage |-> "ending", future |-> "cancelled"]
        /\ UNCHANGED <<approvals, turnRow>>
  /\ UNCHANGED <<epoch, world, workspace, link, key, tests, tokens, handling, actionLog, done,
                 allowed, issued, requests>>

FinishCheck ==
  /\ wait.stage = "checking"
  /\ LET pass == StillLive(Latest) IN
     /\ SettleApproval(IF pass THEN "consumed" ELSE "refused")
     /\ allowed' = IF pass THEN Append(allowed, [approval |-> Latest, world |-> world,
                                                 workspace |-> workspace, epoch |-> epoch])
                   ELSE allowed
  /\ UNCHANGED <<epoch, world, workspace, link, key, tests, tokens, handling, actionLog, done,
                 issued, requests>>

EndWait ==
  /\ wait.stage = "ending" /\ SettleApproval("refused")
  /\ UNCHANGED <<epoch, world, workspace, link, key, tests, tokens, handling, actionLog, done,
                 allowed, issued, requests>>

\* cancel_turn cancels the task, wherever it waits.
Cancelled ==
  /\ turnRow' = IF turnRow.state \in {"running", "awaiting_approval"}
                THEN [turnRow EXCEPT !.state = "cancel_requested"] ELSE turnRow
  /\ wait' = IF wait # NoWait THEN [stage |-> "ending", future |-> "cancelled"] ELSE wait

CancelConfiguredTurn ==
  /\ turnRow.state \in {"running", "awaiting_approval"} /\ Cancelled
  /\ UNCHANGED <<epoch, world, workspace, link, key, tests, approvals, tokens, handling, actionLog,
                 done, allowed, issued, requests>>
EndConfiguredTurn ==
  /\ turnRow.state \in {"running", "cancel_requested"} /\ wait = NoWait
  /\ turnRow' = NoTurn
  /\ UNCHANGED <<epoch, world, workspace, link, key, tests, wait, approvals, tokens, handling,
                 actionLog, done, allowed, issued, requests>>

-----------------------------------------------------------------------------
(***************************************************************************)
(* approval.prepare_decision and approval.decide.                          *)
(***************************************************************************)
Begin(request) ==
  /\ requests < MaxRequests /\ requests' = requests + 1
  /\ request.approval \in DOMAIN approvals /\ LiveSoFar(request.approval, "pending")
  /\ request \notin handling /\ handling' = handling \cup {request}
  /\ UNCHANGED <<epoch, world, workspace, link, key, tests, turnRow, wait, approvals, tokens,
                 actionLog, done, allowed, issued>>

\* A request that is refused changes nothing.
Refuse(request) ==
  /\ request \in handling /\ handling' = handling \ {request}
  /\ UNCHANGED <<epoch, world, workspace, link, key, tests, turnRow, wait, approvals, tokens,
                 actionLog, done, allowed, issued, requests>>

FinishPrepare(request) ==
  /\ request \in handling /\ request.method = "prepare" /\ handling' = handling \ {request}
  /\ StillLive(request.approval)
  /\ Issue("approval", request.approval, request.approval)
  /\ UNCHANGED <<epoch, world, workspace, link, key, tests, turnRow, wait, approvals, actionLog,
                 done, allowed, requests>>

\* A repeated action id gets the recorded result. set_result on a cancelled future raises, after
\* the decision was committed.
FinishDecide(request) ==
  LET a == request.approval IN
  /\ request \in handling /\ request.method = "decide" /\ handling' = handling \ {request}
  /\ request \notin actionLog /\ StillLive(a)
  /\ Valid(request.token, "approval", a, a) /\ approvals[a].state = "pending"
  /\ Consume(request.token)
  /\ approvals' = [approvals EXCEPT ![a].state =
                     IF request.decision = "approve" THEN "approved" ELSE "denied"]
  /\ actionLog' = actionLog \cup {request}
  /\ wait' = IF wait.future = "cancelled" THEN wait ELSE [wait EXCEPT !.future = request.decision]
  /\ UNCHANGED <<epoch, world, workspace, link, key, tests, turnRow, allowed, issued, requests>>

-----------------------------------------------------------------------------
(***************************************************************************)
(* Trust of the workspace, the connection and its key.                     *)
(***************************************************************************)
WorkspaceBinding == <<workspace, epoch>>

PrepareTrust ==
  /\ Issue("workspace_authorization", "workspace", WorkspaceBinding)
  /\ UNCHANGED <<epoch, world, workspace, link, key, tests, turnRow, wait, approvals, handling,
                 actionLog, done, allowed, requests>>
AuthorizeWorkspace(token, allow) ==
  /\ Valid(token, "workspace_authorization", "workspace", WorkspaceBinding)
  /\ workspace.revision < MaxRevisions
  /\ Consume(token)
  /\ workspace' = [revision |-> workspace.revision + 1, trusted |-> allow]
  /\ UNCHANGED <<epoch, world, link, key, tests, turnRow, wait, approvals, handling, actionLog,
                 allowed, issued, requests>>

\* The connection is changed, deleted or loses its key: the key is forgotten, and what uses it is
\* cancelled.
Revoke ==
  /\ key' = [scope |-> NoRow, revoked |-> TRUE]
  /\ tests' = {}
  /\ Cancelled

PrepareSet(settings) ==
  /\ Issue("connection_set", settings, <<link.revision, epoch>>)
  /\ UNCHANGED <<epoch, world, workspace, link, key, tests, turnRow, wait, approvals, handling,
                 actionLog, done, allowed, requests>>
SetConnection(token, settings) ==
  /\ Valid(token, "connection_set", settings, <<link.revision, epoch>>)
  /\ link.revision < MaxRevisions
  /\ Consume(token)
  /\ link' = [revision |-> link.revision + 1, settings |-> settings]
  /\ Revoke
  /\ UNCHANGED <<epoch, world, workspace, approvals, handling, actionLog, allowed, issued,
                 requests>>

Inject ==
  /\ link # NoRow /\ key' = [scope |-> link, revoked |-> FALSE]
  /\ UNCHANGED <<epoch, world, workspace, link, tests, turnRow, wait, approvals, tokens, handling,
                 actionLog, done, allowed, issued, requests>>
ClearConnection(delete) ==
  /\ link # NoRow /\ Revoke
  /\ link' = IF delete THEN NoRow ELSE link
  /\ UNCHANGED <<epoch, world, workspace, approvals, tokens, handling, actionLog, done, allowed,
                 issued, requests>>

PrepareTest ==
  /\ link # NoRow /\ Issue("connection_test", "connection", link)
  /\ UNCHANGED <<epoch, world, workspace, link, key, tests, turnRow, wait, approvals, handling,
                 actionLog, done, allowed, requests>>
BeginTest(token) ==
  /\ link # NoRow /\ HasKey /\ Valid(token, "connection_test", "connection", link)
  /\ Consume(token) /\ tests' = tests \cup {key.scope}
  /\ UNCHANGED <<epoch, world, workspace, link, key, turnRow, wait, approvals, handling, actionLog,
                 allowed, issued, requests>>
EndTest(scope) ==
  /\ scope \in tests /\ tests' = tests \ {scope}
  /\ UNCHANGED <<epoch, world, workspace, link, key, turnRow, wait, approvals, tokens, handling,
                 actionLog, done, allowed, issued, requests>>

-----------------------------------------------------------------------------
\* Files or the environment change; the clock passes the limit of an approval.
ChangeWorld ==
  /\ world < MaxWorld /\ world' = world + 1
  /\ UNCHANGED <<epoch, workspace, link, key, tests, turnRow, wait, approvals, tokens, handling,
                 actionLog, done, allowed, issued, requests>>
BecomeLate ==
  /\ Latest > 0 /\ ~approvals[Latest].late
  /\ approvals' = [approvals EXCEPT ![Latest].late = TRUE]
  /\ UNCHANGED <<epoch, world, workspace, link, key, tests, turnRow, wait, tokens, handling,
                 actionLog, done, allowed, issued, requests>>

\* Nonces, keys and waits are in memory only; the rows stay.
RestartEngine ==
  /\ epoch <= MaxRestarts /\ epoch' = epoch + 1
  /\ key' = [scope |-> NoRow, revoked |-> FALSE] /\ tests' = {} /\ tokens' = {} /\ handling' = {}
  /\ turnRow' = NoTurn /\ wait' = NoWait
  /\ UNCHANGED <<world, workspace, link, approvals, actionLog, done, allowed, issued, requests>>

ConfInit ==
  /\ epoch = 1 /\ world = 1 /\ workspace = [revision |-> 1, trusted |-> TRUE]
  /\ link \in {NoRow} \cup {[revision |-> 1, settings |-> s] : s \in Settings}
  /\ key = [scope |-> link, revoked |-> FALSE] /\ tests = {} /\ turnRow = NoTurn /\ wait = NoWait
  /\ approvals = <<>> /\ tokens = {} /\ handling = {} /\ actionLog = {}
  /\ done = <<>> /\ allowed = <<>> /\ issued = 0 /\ requests = 0

Decisions(a) ==
  [method : {"decide"}, approval : {a}, token : {t \in tokens : t[2] = "approval"},
   decision : {"approve", "deny"}]
Preparation(a) == [method |-> "prepare", approval |-> a]

ConfNext ==
  \/ StartConfiguredTurn \/ AskApproval \/ TakeDecision \/ FinishCheck \/ EndWait
  \/ CancelConfiguredTurn \/ EndConfiguredTurn
  \/ \E a \in 1 .. MaxApprovals :
       Begin(Preparation(a)) \/ \E request \in Decisions(a) : Begin(request)
  \/ \E request \in handling : Refuse(request) \/ FinishPrepare(request) \/ FinishDecide(request)
  \/ \E token \in tokens : \/ ExpireToken(token) \/ BeginTest(token)
                           \/ \E allow \in BOOLEAN : AuthorizeWorkspace(token, allow)
                           \/ \E s \in Settings : SetConnection(token, s)
  \/ PrepareTrust \/ PrepareTest \/ Inject \/ ChangeWorld \/ BecomeLate \/ RestartEngine
  \/ \E s \in Settings : PrepareSet(s)
  \/ \E delete \in BOOLEAN : ClearConnection(delete)
  \/ \E scope \in tests : EndTest(scope)

ConfSpec == ConfInit /\ [][ConfNext]_conf_vars

-----------------------------------------------------------------------------
\* A call that passed had the one approval that was decided for it, in the engine that asked, with
\* the files, the environment and the trust that were shown.
ApprovedAsShown ==
  \A i \in DOMAIN allowed :
    LET pass == allowed[i]
        row == approvals[pass.approval] IN
    /\ row.state = "consumed" /\ row.owner = pass.epoch
    /\ row.world = pass.world
    /\ row.revision = pass.workspace.revision /\ pass.workspace.trusted
    /\ \E request \in actionLog : request.approval = pass.approval /\ request.decision = "approve"
    /\ \A j \in DOMAIN allowed : j # i => allowed[j].approval # pass.approval

\* An approval has one decision, and a confirmation serves one operation.
DecidedOnce ==
  /\ \A r, s \in actionLog : r.approval = s.approval => r = s
  /\ \A i, j \in DOMAIN done : i # j => done[i].token # done[j].token

\* No test and no turn that was not cancelled uses a key of settings that are gone.
KeysBound ==
  /\ tests \subseteq {link}
  /\ turnRow.state \in {"running", "awaiting_approval"} => turnRow.link = link

(***************************************************************************)
(* What needs a confirmation happens once for each, and as it was shown to *)
(* the person who confirmed it.                                            *)
(***************************************************************************)
ConfirmedAsShown == ApprovedAsShown /\ DecidedOnce /\ KeysBound
=============================================================================
