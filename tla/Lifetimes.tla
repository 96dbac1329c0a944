------------------------------ MODULE Lifetimes ------------------------------
(***************************************************************************)
(* What a session of the harness owns, from HarnessSession.open to its     *)
(* close: trusted plugins and what they register, model clients, the       *)
(* sandbox backend, a turn and the child a tool of the turn may run        *)
(* (forge/api.py, plugins.py, runtime/agent_loop.py, model_registry.py,    *)
(* factory.py).                                                            *)
(*                                                                         *)
(* Each of them is given back by somebody who may fail or be cancelled at  *)
(* the await where it does. What clients, backends and disposers do when   *)
(* they are closed is a choice of success or failure. A core agent has no  *)
(* backend, no intent router and no tools but those of its plugins.        *)
(***************************************************************************)
EXTENDS Integers, Sequences, FiniteSets, SequencesExt, FiniteSetsExt

CONSTANTS
  Plugins,           \* the plugins that may be listed
  Requires,          \* per plugin: the plugins it requires
  RegisteredKinds,   \* among "tool", "service", "check"
  PluginToolNames,   \* names a plugin may register something under
  OwnNames,          \* those of them that the program's own tools have
  MaxRegistrations,  \* bound: registrations under a name
  MaxClients,        \* bound: model clients of a coding agent; a core agent makes half of them
  MaxHarnessTurns,   \* bound: turns
  MaxCloseFailures   \* bound: closes and disposers that fail

ASSUME LifetimesAssumption ==
  /\ Requires \in [Plugins -> SUBSET Plugins] /\ OwnNames \subseteq PluginToolNames
  /\ {"none", "own"} \cap Plugins = {} /\ RegisteredKinds \subseteq {"tool", "service", "check"}
  /\ {MaxRegistrations, MaxClients, MaxHarnessTurns, MaxCloseFailures} \subseteq Nat /\ MaxClients >= 2

VARIABLES
  coding,       \* the agent has a workspace: AgentDefinition.base
  opening,      \* HarnessSession.open: where it is, the clients it still has to close, whether a
                \* close of it failed, whether a cancellation cut its undoing off or it has none
  host,         \* PluginHost: where it is, listed and loaded plugins, the one that activates,
                \* its disposers, whether one failed
  standing,     \* what plugins registered or hold and have not given back
  registry,     \* ToolRegistry: whose tool a name leads to
  hooked,       \* the conversation's hook_manager is the host
  modelClients, \* each client: none, open, closed
  wired,        \* the conversation's clients: client, intent_router.client, retired and role clients
  candidates,   \* clients of a selection that failed, still to be closed
  backend,      \* none, open, closed
  inTurn,       \* the turn: where it is, and a cancellation on its way
  childSession, \* the child of the turn: none, open, closing, unclean
  ending,       \* Conversation._close_task: where it is, clients to close, whether one failed, report
  session,      \* HarnessSession: closed, where close is, what it returned
  harnessTurns, \* history: number of turns
  closeFailures, \* history: number of closes that failed
  basis,        \* history: what plugins registered while they were activated
  astray        \* history: clients whose only owner did not come to close them

life_vars == <<coding, opening, host, standing, registry, hooked, modelClients, wired, candidates,
               backend, inTurn, childSession, ending, session, harnessTurns, closeFailures, basis,
               astray>>

host_vars == <<host, standing, registry, hooked, basis>>
client_vars == <<modelClients, wired, candidates, astray>>
run_vars == <<inTurn, childSession, harnessTurns>>

Held(p, what, name, late) == [plugin |-> p, what |-> what, name |-> name, late |-> late]
Unused == {c \in 1 .. (IF coding THEN MaxClients ELSE MaxClients \div 2) : modelClients[c] = "none"}

LifeInit ==
  /\ coding \in BOOLEAN
  /\ opening = [at |-> "none", clients |-> {}, unsure |-> FALSE, cut |-> FALSE]
  /\ host = [at |-> "none", listed |-> {}, loaded |-> {}, activating |-> {}, cleanups |-> <<>>,
             failed |-> FALSE]
  /\ standing = {} /\ basis = {} /\ hooked = FALSE
  /\ registry = [n \in PluginToolNames |-> "none"]
  /\ modelClients = [c \in 1 .. MaxClients |-> "none"]
  /\ wired = [main |-> 0, router |-> 0, others |-> {}]
  /\ candidates = {} /\ astray = {} /\ backend = "none"
  /\ inTurn = [at |-> "none", cancel |-> FALSE] /\ childSession = "none" /\ harnessTurns = 0
  /\ closeFailures = 0
  /\ ending = [at |-> "no", todo |-> {}, failed |-> FALSE, report |-> "none"]
  /\ session = [closed |-> FALSE, close |-> "none", cleanup |-> "none"]

-----------------------------------------------------------------------------
(***************************************************************************)
(* The plugin host.                                                        *)
(***************************************************************************)
\* Who opened the host and failed closes it; with no host there is nothing to undo.
Unload(o) ==
  IF host.at = "none" THEN opening' = [o EXCEPT !.at = "failed"] /\ UNCHANGED host
  ELSE opening' = [o EXCEPT !.at = "unloading"] /\ host' = [host EXCEPT !.at = "closing"]

\* A dependency that is not listed is refused before any plugin is imported.
OpenHarness(listed) ==
  /\ opening.at = "none"
  /\ IF listed = {} THEN opening' = [opening EXCEPT !.at = "configuring"] /\ UNCHANGED host
     ELSE LET sound == \A p \in listed : Requires[p] \subseteq listed IN
          /\ opening' = [opening EXCEPT !.at = IF sound THEN "loading" ELSE "unloading"]
          /\ host' = [host EXCEPT !.at = IF sound THEN "active" ELSE "closing", !.listed = listed]
  /\ UNCHANGED <<coding, standing, registry, hooked, basis, client_vars, backend, run_vars, ending, session>>

Owes(entry) == host' = [host EXCEPT !.cleanups = Append(@, entry)]

\* The module is imported, and activate called.
Activate(p) ==
  /\ opening.at = "loading" /\ host.activating = {}
  /\ p \in host.listed \ host.loaded /\ Requires[p] \subseteq host.loaded
  /\ LET module == Held(p, "module", "", FALSE) IN
     /\ host' = [host EXCEPT !.activating = {p}, !.cleanups = Append(@, module)]
     /\ standing' = standing \cup {module} /\ basis' = basis \cup {module}
  /\ UNCHANGED <<coding, opening, registry, hooked, client_vars, backend, run_vars, ending, session>>

\* register_tool, register_service, register_completion_check: refused once the host closes and
\* for a name that is taken. A plugin may register in a turn too, but no check.
Register(p, what, name) ==
  LET late == p \notin host.activating
      entry == Held(p, what, name, late) IN
  /\ host.at = "active"
  /\ late => p \in host.loaded /\ inTurn.at # "none" /\ what # "check"
  /\ Cardinality({e \in standing : e.name # ""}) < MaxRegistrations
  /\ ~\E e \in standing : e.what = what /\ e.name = name
  /\ Owes(entry) /\ standing' = standing \cup {entry}
  /\ basis' = IF late THEN basis ELSE basis \cup {entry}
  /\ UNCHANGED <<coding, opening, registry, hooked, client_vars, backend, run_vars, ending, session>>

\* activate returns, perhaps with a disposer of what the plugin holds.
ActivationEnds(p, disposer) ==
  LET entry == Held(p, "effect", "", FALSE) IN
  /\ host.activating = {p}
  /\ host' = [host EXCEPT !.activating = {}, !.loaded = @ \cup {p},
                          !.cleanups = IF disposer THEN Append(@, entry) ELSE @]
  /\ standing' = IF disposer THEN standing \cup {entry} ELSE standing
  /\ basis' = IF disposer THEN basis \cup {entry} ELSE basis
  /\ UNCHANGED <<coding, opening, registry, hooked, client_vars, backend, run_vars, ending, session>>

\* It raises, takes too long, or is cancelled.
ActivationFails ==
  /\ host.activating # {}
  /\ opening' = [opening EXCEPT !.at = "unloading"]
  /\ host' = [host EXCEPT !.activating = {}, !.at = "closing"]
  /\ UNCHANGED <<coding, standing, registry, hooked, basis, client_vars, backend, run_vars, ending, session>>

PluginsLoaded ==
  /\ opening.at = "loading" /\ host.loaded = host.listed
  /\ opening' = [opening EXCEPT !.at = "configuring"]
  /\ UNCHANGED <<coding, host_vars, client_vars, backend, run_vars, ending, session>>

\* One disposer, the latest first. Removing a registration cannot fail; a name in the registry is
\* removed only if it leads to this plugin's tool. A disposer of the plugin may fail or hang.
DisposeNext(succeeds) ==
  /\ host.at = "closing" /\ host.cleanups # <<>>
  /\ LET entry == Last(host.cleanups)
         released == entry.what # "effect" \/ succeeds IN
     /\ host' = [host EXCEPT !.cleanups = Front(@), !.failed = @ \/ ~released]
     /\ standing' = IF released THEN standing \ {entry} ELSE standing
     /\ registry' = IF entry.what = "tool" /\ ~entry.late /\ registry[entry.name] = entry.plugin
                    THEN [registry EXCEPT ![entry.name] = "none"] ELSE registry
  /\ UNCHANGED <<coding, opening, hooked, basis, client_vars, backend, run_vars, ending, session>>

HostClosed ==
  /\ host.at = "closing" /\ host.cleanups = <<>>
  /\ host' = [host EXCEPT !.at = "closed"] /\ hooked' = FALSE
  /\ UNCHANGED <<coding, opening, standing, registry, basis, client_vars, backend, run_vars, ending, session>>

-----------------------------------------------------------------------------
(***************************************************************************)
(* open_runtime.                                                           *)
(***************************************************************************)
\* Settings that are wrong, a policy or a sandbox that is refused; or a cancellation.
ConfigurationFails ==
  /\ opening.at = "configuring" /\ Unload(opening)
  /\ UNCHANGED <<coding, standing, registry, hooked, basis, client_vars, backend, run_vars, ending, session>>

BackendOpens ==
  /\ opening.at = "configuring"
  /\ opening' = [opening EXCEPT !.at = "assembling"]
  /\ backend' = IF coding THEN "open" ELSE "none"
  /\ UNCHANGED <<coding, host_vars, client_vars, run_vars, ending, session>>

PluginTools == {e \in standing : e.what = "tool"}
Assembled == IF coding THEN {1, 2} ELSE {1}

\* create_runtime and the first record: the clients are made, the tools of plugins join the own
\* ones, the host takes the place of the hooks.
Assemble ==
  /\ opening.at = "assembling"
  /\ coding => \A e \in PluginTools : e.name \notin OwnNames
  /\ opening' = [opening EXCEPT !.at = "open"]
  /\ modelClients' = [c \in DOMAIN modelClients |-> IF c \in Assembled THEN "open" ELSE "none"]
  /\ wired' = [wired EXCEPT !.main = 1, !.router = IF coding THEN 2 ELSE 0]
  /\ registry' = [n \in PluginToolNames |->
                    IF coding /\ n \in OwnNames THEN "own"
                    ELSE LET who == {e.plugin : e \in {t \in PluginTools : t.name = n}} IN
                         IF who = {} THEN "none" ELSE CHOOSE p \in who : TRUE]
  /\ hooked' = (host.at = "active")
  /\ UNCHANGED <<coding, host, standing, basis, candidates, astray, backend, run_vars, ending, session>>

\* Stored rules or model aliases that cannot be read raise between the opening of the backend and
\* the block that would undo it.
BindingsFail ==
  /\ opening.at = "assembling" /\ Unload([opening EXCEPT !.cut = TRUE])
  /\ UNCHANGED <<coding, standing, registry, hooked, basis, client_vars, backend, run_vars, ending, session>>

\* A store, a name taken twice, an unknown tool or the record fails, after some of the clients.
AssemblyFails(n) ==
  /\ opening.at = "assembling"
  /\ LET begun == {c \in Assembled : c <= n} IN
     /\ modelClients' = [c \in DOMAIN modelClients |-> IF c \in begun THEN "open" ELSE "none"]
     /\ opening' = [opening EXCEPT !.at = "unwinding", !.clients = begun]
  /\ UNCHANGED <<coding, host_vars, wired, candidates, astray, backend, run_vars, ending, session>>

\* The clients of the start are closed one after the other; a failure is noted. For a core agent
\* it replaces the error.
UnwindClient(succeeds) ==
  /\ opening.at = "unwinding" /\ opening.clients # {}
  /\ LET c == Min(opening.clients) IN
     /\ modelClients' = IF succeeds THEN [modelClients EXCEPT ![c] = "closed"] ELSE modelClients
     /\ opening' = [opening EXCEPT !.clients = @ \ {c}, !.unsure = @ \/ ~succeeds]
  /\ UNCHANGED <<coding, host_vars, wired, candidates, astray, backend, run_vars, ending, session>>

\* Then the backend, then the host.
UnwindBackend(succeeds) ==
  /\ opening.at = "unwinding" /\ opening.clients = {}
  /\ IF ~coding THEN backend' = backend /\ Unload(opening)
     ELSE /\ backend' = IF succeeds THEN "closed" ELSE backend
          /\ Unload([opening EXCEPT !.unsure = @ \/ ~succeeds])
  /\ UNCHANGED <<coding, standing, registry, hooked, basis, client_vars, run_vars, ending, session>>

\* A cancellation passes the handlers for Exception, and what they had still to close; the host is
\* shielded and goes on.
CutOpening ==
  /\ \/ /\ opening.at = "unwinding" /\ (opening.clients # {} \/ backend = "open")
        /\ Unload([opening EXCEPT !.cut = TRUE])
     \/ /\ opening.at = "unloading" /\ opening' = [opening EXCEPT !.at = "failed"] /\ UNCHANGED host
  /\ UNCHANGED <<coding, standing, registry, hooked, basis, client_vars, backend, run_vars, ending, session>>

Unloaded ==
  /\ opening.at = "unloading" /\ host.at = "closed"
  /\ opening' = [opening EXCEPT !.at = "failed"]
  /\ UNCHANGED <<coding, host_vars, client_vars, backend, run_vars, ending, session>>

-----------------------------------------------------------------------------
(***************************************************************************)
(* Turns, children and models of an open session.                          *)
(***************************************************************************)
Usable == opening.at = "open" /\ ~session.closed /\ inTurn.at = "none" /\ ending.at = "no"

BeginHarnessTurn ==
  /\ Usable /\ harnessTurns < MaxHarnessTurns /\ harnessTurns' = harnessTurns + 1
  /\ inTurn' = [at |-> "running", cancel |-> FALSE]
  /\ UNCHANGED <<coding, opening, host_vars, client_vars, backend, childSession, ending, session>>

\* It ends by itself, or by a cancellation.
EndHarnessTurn ==
  /\ inTurn.at = "running" /\ inTurn' = [at |-> "none", cancel |-> FALSE]
  /\ UNCHANGED <<coding, opening, host_vars, client_vars, backend, childSession, harnessTurns, ending, session>>

CancelHarnessTurn ==
  /\ inTurn.at # "none" /\ ~inTurn.cancel /\ inTurn' = [inTurn EXCEPT !.cancel = TRUE]
  /\ UNCHANGED <<coding, opening, host_vars, client_vars, backend, childSession, harnessTurns, ending, session>>

\* run_child: a session of its own, whose opening is that of any session.
StartChild ==
  /\ inTurn.at = "running" /\ childSession = "none"
  /\ inTurn' = [inTurn EXCEPT !.at = "child"] /\ childSession' = "open"
  /\ UNCHANGED <<coding, opening, host_vars, client_vars, backend, harnessTurns, ending, session>>

\* However its turn ends, a cancellation of the parent's included, the child is closed.
ChildEnds ==
  /\ inTurn.at = "child" /\ childSession' = "closing"
  /\ inTurn' = [at |-> "closing child", cancel |-> FALSE]
  /\ UNCHANGED <<coding, opening, host_vars, client_vars, backend, harnessTurns, ending, session>>

ChildClosed(clean) ==
  /\ childSession = "closing" /\ childSession' = IF clean THEN "none" ELSE "unclean"
  /\ inTurn' = IF inTurn.at = "closing child" THEN [inTurn EXCEPT !.at = "running"] ELSE inTurn
  /\ UNCHANGED <<coding, opening, host_vars, client_vars, backend, harnessTurns, ending, session>>

\* The parent no longer waits; the child's own task closes on.
LeaveChild ==
  /\ inTurn.at = "closing child" /\ inTurn.cancel
  /\ inTurn' = [inTurn EXCEPT !.at = "running", !.cancel = FALSE]
  /\ UNCHANGED <<coding, opening, host_vars, client_vars, backend, childSession, harnessTurns, ending, session>>

\* summary_model_client: a client for a role, made when it is first needed.
MakeRoleClient ==
  /\ inTurn.at = "running" /\ Unused # {}
  /\ LET c == Min(Unused) IN
     /\ modelClients' = [modelClients EXCEPT ![c] = "open"]
     /\ wired' = [wired EXCEPT !.others = @ \cup {c}]
  /\ UNCHANGED <<coding, opening, host_vars, candidates, astray, backend, run_vars, ending, session>>

\* As many new clients as the session has: the identities are taken in order.
FreshClients ==
  {s \in SUBSET Unused : Cardinality(s) = Cardinality(Assembled) /\ \A c \in s, d \in Unused \ s : c < d}

\* select_model: no await when it succeeds; the former clients stay owned.
SelectModelOf(fresh) ==
  /\ Usable
  /\ modelClients' = [c \in DOMAIN modelClients |-> IF c \in fresh THEN "open" ELSE modelClients[c]]
  /\ wired' = [main |-> Min(fresh), router |-> IF coding THEN Max(fresh) ELSE 0,
               others |-> wired.others \cup ({wired.main, wired.router} \ {0})]
  /\ UNCHANGED <<coding, opening, host_vars, candidates, astray, backend, run_vars, ending, session>>

\* It refuses after it made clients, or the record fails: they are closed, with awaits.
SelectionFails(fresh) ==
  /\ Usable /\ candidates = {}
  /\ modelClients' = [c \in DOMAIN modelClients |-> IF c \in fresh THEN "open" ELSE modelClients[c]]
  /\ candidates' = fresh
  /\ UNCHANGED <<coding, opening, host_vars, wired, astray, backend, run_vars, ending, session>>

\* The close of one that fails or is cancelled leaves the other to nobody.
CandidateClosed(succeeds) ==
  /\ candidates # {}
  /\ LET c == Min(candidates) IN
     IF succeeds
     THEN /\ modelClients' = [modelClients EXCEPT ![c] = "closed"]
          /\ candidates' = candidates \ {c} /\ UNCHANGED astray
     ELSE /\ astray' = astray \cup candidates /\ candidates' = {} /\ UNCHANGED modelClients
  /\ UNCHANGED <<coding, opening, host_vars, wired, backend, run_vars, ending, session>>

-----------------------------------------------------------------------------
(***************************************************************************)
(* HarnessSession.close and Conversation.runtime_close.                    *)
(***************************************************************************)
\* Mutant: close does not wait for the turn it cancels.
CloseAtOnce ==
  /\ opening.at = "open" /\ ~session.closed
  /\ session' = [session EXCEPT !.closed = TRUE, !.close = "waiting"]
  /\ ending' = [ending EXCEPT !.at = "ending"]
  /\ inTurn' = IF inTurn.at = "none" THEN inTurn ELSE [inTurn EXCEPT !.cancel = TRUE]
  /\ UNCHANGED <<coding, opening, host_vars, client_vars, backend, childSession, harnessTurns>>

\* A running turn is cancelled and awaited before anything is closed under it.
CloseSession ==
  /\ opening.at = "open" /\ ~session.closed
  /\ IF inTurn.at = "none"
     THEN /\ session' = [session EXCEPT !.closed = TRUE, !.close = "waiting"]
          /\ ending' = [ending EXCEPT !.at = "ending"] /\ UNCHANGED inTurn
     ELSE /\ session' = [session EXCEPT !.closed = TRUE, !.close = "draining"]
          /\ inTurn' = [inTurn EXCEPT !.cancel = TRUE] /\ UNCHANGED ending
  /\ UNCHANGED <<coding, opening, host_vars, client_vars, backend, childSession, harnessTurns>>

Drained ==
  /\ session.close = "draining" /\ inTurn.at = "none"
  /\ session' = [session EXCEPT !.close = "waiting"] /\ ending' = [ending EXCEPT !.at = "ending"]
  /\ UNCHANGED <<coding, opening, host_vars, client_vars, backend, run_vars>>

\* The caller of close is cancelled; _close_task is shielded, if there is one already.
CutClose ==
  /\ session.close \in {"draining", "waiting"} /\ session' = [session EXCEPT !.close = "cut"]
  /\ UNCHANGED <<coding, opening, host_vars, client_vars, backend, run_vars, ending>>

\* The SessionEnd hooks and the connections to tool servers; a failure is noted.
EndSession(succeeds) ==
  /\ ending.at = "ending"
  /\ ending' = [ending EXCEPT !.at = "clients", !.failed = @ \/ ~succeeds,
                              !.todo = ({wired.main, wired.router} \ {0}) \cup wired.others]
  /\ UNCHANGED <<coding, opening, host_vars, client_vars, backend, run_vars, session>>

CloseClient(succeeds) ==
  /\ ending.at = "clients" /\ ending.todo # {}
  /\ LET c == Min(ending.todo) IN
     /\ modelClients' = IF succeeds THEN [modelClients EXCEPT ![c] = "closed"] ELSE modelClients
     /\ ending' = [ending EXCEPT !.todo = @ \ {c}, !.failed = @ \/ ~succeeds]
  /\ UNCHANGED <<coding, opening, host_vars, wired, candidates, astray, backend, run_vars, session>>

ClosePlugins ==
  /\ ending.at = "clients" /\ ending.todo = {}
  /\ ending' = [ending EXCEPT !.at = "plugins"]
  /\ host' = IF host.at = "active" THEN [host EXCEPT !.at = "closing"] ELSE host
  /\ UNCHANGED <<coding, opening, standing, registry, hooked, basis, client_vars, backend, run_vars, session>>

\* The backend comes last; that its own report is true is shown in Sandboxes. A core agent without
\* plugins reports nothing, which run_child takes for clean.
CloseBackend(result) ==
  /\ ending.at = "plugins" /\ host.at \in {"none", "closed"}
  /\ backend' = IF coding /\ result = "clean" THEN "closed" ELSE backend
  /\ ending' = [ending EXCEPT !.at = "over",
       !.report = IF coding /\ result = "raised" THEN "none"
                  ELSE IF ending.failed \/ host.failed THEN "unknown"
                  ELSE IF coding THEN result ELSE "clean"]
  /\ UNCHANGED <<coding, opening, host_vars, client_vars, run_vars, session>>

CloseReturns ==
  /\ session.close = "waiting" /\ ending.at = "over"
  /\ session' = [session EXCEPT !.close = "returned", !.cleanup = ending.report]
  /\ UNCHANGED <<coding, opening, host_vars, client_vars, backend, run_vars, ending>>

\* Failures of what is closed are counted, for the bound.
CountClose(succeeds) ==
  /\ succeeds \/ closeFailures < MaxCloseFailures
  /\ closeFailures' = IF succeeds THEN closeFailures ELSE closeFailures + 1

CloseStep ==
  \/ \E succeeds \in BOOLEAN :
       /\ CountClose(succeeds)
       /\ \/ DisposeNext(succeeds) \/ UnwindClient(succeeds) \/ UnwindBackend(succeeds)
          \/ CandidateClosed(succeeds) \/ ChildClosed(succeeds)
          \/ EndSession(succeeds) \/ CloseClient(succeeds)
  \/ \E result \in {"clean", "unknown", "raised"} :
       CountClose(result = "clean") /\ CloseBackend(result)

OtherStep ==
  \/ \E listed \in SUBSET Plugins : OpenHarness(listed)
  \/ \E p \in Plugins :
       \/ Activate(p) \/ \E disposer \in BOOLEAN : ActivationEnds(p, disposer)
       \/ \E what \in RegisteredKinds, name \in PluginToolNames : Register(p, what, name)
  \/ ActivationFails \/ PluginsLoaded \/ HostClosed \/ ConfigurationFails \/ BackendOpens
  \/ BindingsFail \/ Assemble \/ CutOpening \/ Unloaded
  \/ \E n \in 0 .. 2 : AssemblyFails(n)
  \/ BeginHarnessTurn \/ EndHarnessTurn \/ CancelHarnessTurn \/ StartChild \/ ChildEnds \/ LeaveChild
  \/ MakeRoleClient
  \/ \E fresh \in FreshClients : SelectModelOf(fresh) \/ SelectionFails(fresh)
  \/ CloseSession \/ Drained \/ CutClose \/ ClosePlugins \/ CloseReturns

LifeNext == CloseStep \/ (OtherStep /\ UNCHANGED closeFailures)

LifeSpec == LifeInit /\ [][LifeNext]_life_vars

-----------------------------------------------------------------------------
(***************************************************************************)
(* What the owner of a session may believe.                                *)
(***************************************************************************)
OpenClients == {c \in 1 .. MaxClients : modelClients[c] = "open"}

\* When close returns a clean report nothing of the session is left: no turn, no open client, no
\* backend, no hook, nothing of a plugin, and no child but one that closes on by itself. Set apart:
\* the clients of a selection that failed and whose own close failed (HarnessSession.close,
\* _close_runtime, PluginHost._close).
CleanIsTrue ==
  session.cleanup = "clean" =>
    /\ inTurn.at = "none" /\ childSession # "open" /\ ~hooked
    /\ OpenClients \subseteq astray \cup candidates
    /\ backend # "open" /\ standing = {} /\ \A n \in PluginToolNames : registry[n] \in {"none", "own"}

\* A session that could not be opened leaves nothing behind either, unless a close failed, which
\* is reported. Set apart: a second cancellation that cuts the undoing off, and what fails where
\* _open_runtime would not undo it (open_runtime, _open_runtime, load).
FailedOpenIsUndone ==
  opening.at = "failed" /\ host.at # "closing" =>
    /\ standing = {} \/ host.failed
    /\ (OpenClients = {} /\ backend # "open") \/ opening.unsure \/ opening.cut

\* A turn never runs on what is closed, whoever closes the session and whenever.
UsedIsOpen ==
  inTurn.at # "none" =>
    /\ {wired.main, wired.router} \ {0} \subseteq OpenClients
    /\ coding => backend = "open"
    /\ host.at \in {"none", "active"} /\ hooked = (host.at = "active")

\* As long as a plugin has something to dispose of, what the plugins it requires registered when
\* they were activated stands; the program's own tools stay where they are whatever name a plugin
\* took later on (load, _close, register_tool).
DependentsFirst ==
  /\ \A i \in DOMAIN host.cleanups : \A q \in Requires[host.cleanups[i].plugin] :
       {e \in basis : e.plugin = q} \subseteq standing
  /\ opening.at = "open" /\ coding => \A n \in OwnNames : registry[n] = "own"

\* What a session opened ends with it, in an order that nobody in it notices.
ScopesEnd == CleanIsTrue /\ FailedOpenIsUndone /\ UsedIsOpen /\ DependentsFirst
=============================================================================
