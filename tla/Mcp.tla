-------------------------------- MODULE Mcp --------------------------------
(***************************************************************************)
(* The connections to external tool servers: MCPClientManager              *)
(* (mcp/manager.py) and the part of the tool registry it rewrites.         *)
(*                                                                         *)
(* One conversation uses the manager: it connects the servers when a turn  *)
(* starts, calls a tool, resets the connections when the session changes   *)
(* and closes them.  Beside it run the tasks the message handler starts    *)
(* when a server announces a changed list of tools.  Every await is a      *)
(* point where another of them may move.  A turn can be cancelled at each  *)
(* await; a CancelledError passes the handlers for Exception, so it leaves *)
(* the connection as it is.                                                *)
(*                                                                         *)
(* The servers are external: a page of tools/list holds any name, the last *)
(* page comes when it pleases, an answer may be lost.                      *)
(***************************************************************************)
EXTENDS Integers, Sequences, FiniteSets, Functions

CONSTANTS
    Servers,      \* the configured servers
    ToolNames,    \* names after normalization (mcp_tool_name)
    LocalTools,   \* the names the program's own tools have
    Refreshers,   \* slots for the refresh tasks of notifications
    Nobody,       \* not a server: a name nobody registered
    MaxSessions,  \* bound: connections opened
    MaxPages      \* bound: tools of one list

ASSUME McpAssumption ==
    /\ LocalTools \subseteq ToolNames
    /\ {Nobody, "local"} \cap Servers = {} /\ Nobody # "local"
    /\ "conversation" \notin Refreshers
    /\ MaxSessions \in Nat /\ MaxPages \in Nat

VARIABLES
    connections, \* MCPConnection: state, session (0 is None), authorization_denied
    recorded,    \* MCPConnection.tool_names
    registered,  \* ToolRegistry._tools: whose adapter a name leads to
    refreshes,   \* the refresh_tools calls under way
    user,        \* what the conversation is doing with the manager
    opened       \* history: connections opened so far

mcp_vars == <<connections, recorded, registered, refreshes, user, opened>>

Resting == [does |-> "nothing", server |-> Nobody, why |-> "none", left |-> {}]
NoRefresh == [server |-> Nobody, found |-> <<>>]

McpInit ==
    /\ connections = [s \in Servers |->
                  [state |-> "disconnected", session |-> 0, denied |-> FALSE]]
    /\ recorded = [s \in Servers |-> {}]
    /\ registered = [n \in ToolNames |-> IF n \in LocalTools THEN "local" ELSE Nobody]
    /\ refreshes = [r \in Refreshers \cup {"conversation"} |-> NoRefresh]
    /\ user = Resting
    /\ opened = 0

SetState(s, state) == connections' = [connections EXCEPT ![s].state = state]

UnavailableLocally(s) == LocalTools

(* The names a list of server s may not use: registered, and not by s.     *)
Unavailable(s) == {n \in ToolNames : registered[n] # Nobody} \ recorded[s]

(* The conversation goes on after server s is connected, or is not.        *)
AfterConnecting(s, connected) ==
    user' = IF user.why = "call" /\ connected
            THEN [user EXCEPT !.does = "calling"]
            ELSE IF user.why = "call" THEN Resting
            ELSE [user EXCEPT !.does = "ensuring", !.server = Nobody]

-----------------------------------------------------------------------------
(* Connecting                                                              *)

(* A turn starts: the mode is read once, and the servers are gone through. *)
EnsureConnected ==
    /\ user = Resting
    /\ \E why \in {"plan", "ensure"} :
          user' = [Resting EXCEPT !.does = "ensuring", !.why = why, !.left = Servers]
    /\ UNCHANGED <<connections, recorded, registered, refreshes, opened>>

(* _disconnect up to its await: the tools go, then the session.            *)
Disconnect(s, link) ==
    /\ registered' = [n \in ToolNames |->
                        IF n \in recorded[s] THEN Nobody ELSE registered[n]]
    /\ recorded' = [recorded EXCEPT ![s] = {}]
    /\ connections' = [connections EXCEPT ![s] = link]

EnsureNext ==
    /\ user.does = "ensuring"
    /\ \E s \in user.left :
          IF user.why = "plan"
          THEN /\ user' = [user EXCEPT !.left = @ \ {s}]
               /\ IF connections[s].session = 0
                  THEN UNCHANGED <<connections, recorded, registered>>
                  ELSE Disconnect(s, [connections[s] EXCEPT !.state = "disabled", !.session = 0])
          ELSE /\ user' = IF connections[s].session # 0 \/ connections[s].denied
                          THEN [user EXCEPT !.left = @ \ {s}]
                          ELSE [user EXCEPT !.left = @ \ {s}, !.does = "authorizing",
                                            !.server = s]
               /\ UNCHANGED <<connections, recorded, registered>>
    /\ UNCHANGED <<refreshes, opened>>

EnsureDone ==
    /\ user.does = "ensuring" /\ user.left = {}
    /\ user' = Resting
    /\ UNCHANGED <<connections, recorded, registered, refreshes, opened>>

(* The answer to the request for approval of the connection.               *)
Authorize(allowed) ==
    /\ user.does = "authorizing"
    /\ LET s == user.server IN
       IF allowed
       THEN /\ SetState(s, "connecting")
            /\ user' = [user EXCEPT !.does = "opening"]
       ELSE /\ connections' = [connections EXCEPT ![s].state = "disabled", ![s].denied = TRUE]
            /\ AfterConnecting(s, FALSE)
    /\ UNCHANGED <<recorded, registered, refreshes, opened>>

(* The transport opens and the server answers initialize: the session is   *)
(* visible before its tools are listed.                                    *)
Opened ==
    /\ user.does = "opening"
    /\ opened < MaxSessions
    /\ opened' = opened + 1
    /\ connections' = [connections EXCEPT ![user.server].session = opened + 1]
    /\ refreshes' = [refreshes EXCEPT !["conversation"].server = user.server]
    /\ user' = [user EXCEPT !.does = "listing"]
    /\ UNCHANGED <<recorded, registered>>

(* It does not open, or the time for connecting and listing is over.  The  *)
(* names an earlier refresh registered stay.                               *)
ConnectFails ==
    /\ user.does \in {"opening", "listing"}
    /\ connections' = [connections EXCEPT ![user.server].state = "failed",
                              ![user.server].session = 0]
    /\ refreshes' = [refreshes EXCEPT !["conversation"] = NoRefresh]
    /\ AfterConnecting(user.server, FALSE)
    /\ UNCHANGED <<recorded, registered, opened>>

-----------------------------------------------------------------------------
(* Listing the tools: refresh_tools, from the connection or a notification *)

ToolListChanged(r) ==
    /\ refreshes[r] = NoRefresh
    /\ \E s \in Servers :
          /\ connections[s].session # 0
          /\ refreshes' = [refreshes EXCEPT ![r].server = s]
    /\ UNCHANGED <<connections, recorded, registered, user, opened>>

(* A page that names another: the session was read before this await.      *)
NextPage(r) ==
    /\ refreshes[r] # NoRefresh
    /\ Len(refreshes[r].found) < MaxPages
    /\ \E n \in ToolNames :
          refreshes' = [refreshes EXCEPT ![r].found = Append(@, n)]
    /\ UNCHANGED <<connections, recorded, registered, user, opened>>

(* The refresh is over with the given state of the connection; the         *)
(* connection goes on, "ready" unless degraded.                            *)
RefreshOver(r, state) ==
    LET s == refreshes[r].server
        degraded == state = "degraded" \/ connections[s].state = "degraded" IN
    /\ refreshes' = [refreshes EXCEPT ![r] = NoRefresh]
    /\ IF r = "conversation"
       THEN /\ SetState(s, IF degraded THEN "degraded" ELSE "ready")
            /\ AfterConnecting(s, TRUE)
       ELSE /\ SetState(s, state)
            /\ UNCHANGED user

(* The last page is there: the list is checked against itself and against  *)
(* the registry as it is now, and replaces the adapters of this server.    *)
Replace(r) ==
    LET s == refreshes[r].server
        found == refreshes[r].found
        new == Range(found) IN
    /\ s # Nobody
    /\ IF Cardinality(new) # Len(found) \/ Unavailable(s) \cap new # {}
       THEN /\ RefreshOver(r, "degraded")
            /\ UNCHANGED <<recorded, registered>>
       ELSE /\ registered' = [n \in ToolNames |->
                                IF n \in new THEN s
                                ELSE IF n \in recorded[s] THEN Nobody
                                ELSE registered[n]]
            /\ recorded' = [recorded EXCEPT ![s] = new]
            /\ RefreshOver(r, connections[s].state)
    /\ UNCHANGED opened

(* The page does not come, or one of its schemas is invalid.               *)
RefreshFails(r) ==
    /\ refreshes[r] # NoRefresh
    /\ RefreshOver(r, "degraded")
    /\ UNCHANGED <<recorded, registered, opened>>

(* The transport reports an exception to the message handler.              *)
TransportError(s) ==
    /\ connections[s].session # 0
    /\ SetState(s, "degraded")
    /\ UNCHANGED <<recorded, registered, refreshes, user, opened>>

-----------------------------------------------------------------------------
(* Calling a tool                                                          *)

(* call_tool connects again when there is no session, whatever was denied. *)
CallTool(s) ==
    /\ user = Resting
    /\ \E n \in ToolNames : registered[n] = s
    /\ user' = [Resting EXCEPT !.server = s, !.why = "call",
                               !.does = IF connections[s].session = 0 THEN "authorizing"
                                        ELSE "calling"]
    /\ UNCHANGED <<connections, recorded, registered, refreshes, opened>>

CallAnswered ==
    /\ user.does = "calling"
    /\ user' = Resting
    /\ UNCHANGED <<connections, recorded, registered, refreshes, opened>>

(* mcp_result_unknown: the connection is given up, nothing is sent again.  *)
AnswerLost ==
    /\ user.does = "calling"
    /\ user' = Resting
    /\ Disconnect(user.server, [connections[user.server] EXCEPT !.state = "disconnected",
                                                          !.session = 0])
    /\ UNCHANGED <<refreshes, opened>>

(* The turn is cancelled at one of the awaits above.                       *)
TurnCancelled ==
    /\ user.does \in {"ensuring", "authorizing", "opening", "listing", "calling"}
    /\ user' = Resting
    /\ refreshes' = [refreshes EXCEPT !["conversation"] = NoRefresh]
    /\ UNCHANGED <<connections, recorded, registered, opened>>

-----------------------------------------------------------------------------
(* Leaving the session and the program                                     *)

ResetSession ==
    /\ user = Resting
    /\ user' = [Resting EXCEPT !.does = "resetting", !.left = Servers]
    /\ UNCHANGED <<connections, recorded, registered, refreshes, opened>>

(* close cancels the refreshes it finds; one may start while it waits for  *)
(* them to end.                                                            *)
McpClose ==
    /\ user = Resting
    /\ user' = [Resting EXCEPT !.does = "closing", !.left = Servers]
    /\ refreshes' = [r \in DOMAIN refreshes |-> NoRefresh]
    /\ UNCHANGED <<connections, recorded, registered, opened>>

LeaveServer ==
    /\ user.does \in {"resetting", "closing"}
    /\ \E s \in user.left :
          /\ user' = [user EXCEPT !.left = @ \ {s}]
          /\ IF user.does = "resetting"
             THEN Disconnect(s, [state |-> "disconnected", session |-> 0, denied |-> FALSE])
             ELSE Disconnect(s, [connections[s] EXCEPT !.state = "closed", !.session = 0])
    /\ UNCHANGED <<refreshes, opened>>

ResetDone ==
    /\ user.does = "resetting" /\ user.left = {}
    /\ user' = Resting
    /\ UNCHANGED <<connections, recorded, registered, refreshes, opened>>

McpNext ==
    \/ EnsureConnected \/ EnsureNext \/ EnsureDone
    \/ \E allowed \in BOOLEAN : Authorize(allowed)
    \/ Opened \/ ConnectFails
    \/ \E r \in Refreshers : ToolListChanged(r)
    \/ \E r \in DOMAIN refreshes : NextPage(r) \/ Replace(r) \/ RefreshFails(r)
    \/ \E s \in Servers : TransportError(s) \/ CallTool(s)
    \/ CallAnswered \/ AnswerLost \/ TurnCancelled
    \/ ResetSession \/ McpClose \/ LeaveServer \/ ResetDone

McpSpec == McpInit /\ [][McpNext]_mcp_vars

-----------------------------------------------------------------------------
(* What the manager believes it registered is what the registry leads to:  *)
(* whatever refreshes, lost answers, resets and cancelled turns overlap,   *)
(* no list takes a name of another server or of the program's own tools,   *)
(* and none leaves a name behind that nobody would unregister (the check   *)
(* in refresh_tools, manager.py, and the names _disconnect goes through).  *)
RegistryAgrees ==
    /\ \A s \in Servers : {n \in ToolNames : registered[n] = s} = recorded[s]
    /\ \A n \in LocalTools : registered[n] = "local"
=============================================================================
