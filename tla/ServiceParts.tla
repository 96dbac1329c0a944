---------------------------- MODULE ServiceParts ----------------------------
(***************************************************************************)
(* What a turn uses beside the workspace, and what else the engine serves: *)
(* the calls of models, the context they are given, the conversation and   *)
(* its sessions, permissions and confirmations, the stream of events, the  *)
(* gateway of a chat platform, external tool servers, the views of a       *)
(* workspace and what a harness session opens and closes, side by side for *)
(* one run. The part that moves is chosen at the beginning, the others     *)
(* rest in one of their initial states. The parts share no variable, so a  *)
(* step of one changes nothing that another one's properties speak of.     *)
(***************************************************************************)
EXTENDS ModelCalls, Context, EventStream, Gateway, Mcp, Sessions, Permissions,
        Confirmations, Views, Lifetimes

VARIABLE part   \* the part that moves

Parts == {"calls", "context", "stream", "gateway", "mcp", "conversation", "permissions",
          "confirmations", "views", "lifetimes"}

\* The instances a cfg cannot write.
TheChats == [m \in Messages |-> IF m = "m2" THEN "c2" ELSE "c1"]
TheSenders == [m \in Messages |-> IF m = "m2" THEN "v" ELSE "u"]
TheConfigs ==
  {[limit |-> 4, first |-> 1, recent |-> 1, sources |-> 1, retain |-> 1, retries |-> 1]}
TheRequires == [p \in Plugins |-> IF p = "p2" THEN {"p1"} ELSE {}]
TheUserRules == {[action |-> "ask", capability |-> "file.write", target |-> "*"]}
TheEditedRules == {[action |-> "deny", capability |-> "*", target |-> "f"]}

\* What an initial state may choose is chosen for the part that moves only.
PartsInit ==
  /\ part \in Parts
  /\ CallInit
  /\ IF part = "context" THEN ContextInit
     ELSE /\ config = CHOOSE c \in Configs : TRUE
          /\ ContextInit
  /\ StreamInit
  /\ GatewayInit
  /\ McpInit
  /\ SessInit
  /\ IF part = "permissions" THEN PermInit
     ELSE /\ mode = "auto"
          /\ projectFile = [readable |-> TRUE, rules |-> {}]
          /\ profile = [readOnly |-> FALSE, stored |-> TRUE, handler |-> TRUE]
          /\ PermInit
  /\ IF part = "confirmations" THEN ConfInit
     ELSE /\ link = NoRow
          /\ ConfInit
  /\ ViewInit
  /\ IF part = "lifetimes" THEN LifeInit
     ELSE /\ coding = TRUE
          /\ LifeInit

PartsNext ==
  /\ UNCHANGED part
  /\ \/ part = "calls"
        /\ UNCHANGED <<context_vars, stream_vars, gateway_vars, mcp_vars, sess_vars, perm_vars,
                        conf_vars, view_vars, life_vars>>
        /\ CallNext
     \/ part = "context"
        /\ UNCHANGED <<call_vars, stream_vars, gateway_vars, mcp_vars, sess_vars, perm_vars,
                        conf_vars, view_vars, life_vars>>
        /\ ContextNext
     \/ part = "stream"
        /\ UNCHANGED <<call_vars, context_vars, gateway_vars, mcp_vars, sess_vars, perm_vars,
                        conf_vars, view_vars, life_vars>>
        /\ StreamNext
     \/ part = "gateway"
        /\ UNCHANGED <<call_vars, context_vars, stream_vars, mcp_vars, sess_vars, perm_vars,
                        conf_vars, view_vars, life_vars>>
        /\ GatewayNext
     \/ part = "mcp"
        /\ UNCHANGED <<call_vars, context_vars, stream_vars, gateway_vars, sess_vars, perm_vars,
                        conf_vars, view_vars, life_vars>>
        /\ McpNext
     \/ part = "conversation"
        /\ UNCHANGED <<call_vars, context_vars, stream_vars, gateway_vars, mcp_vars, perm_vars,
                        conf_vars, view_vars, life_vars>>
        /\ SessNext
     \/ part = "permissions"
        /\ UNCHANGED <<call_vars, context_vars, stream_vars, gateway_vars, mcp_vars, sess_vars,
                        conf_vars, view_vars, life_vars>>
        /\ PermNext
     \/ part = "confirmations"
        /\ UNCHANGED <<call_vars, context_vars, stream_vars, gateway_vars, mcp_vars, sess_vars,
                        perm_vars, view_vars, life_vars>>
        /\ ConfNext
     \/ part = "views"
        /\ UNCHANGED <<call_vars, context_vars, stream_vars, gateway_vars, mcp_vars, sess_vars,
                        perm_vars, conf_vars, life_vars>>
        /\ ViewNext
     \/ part = "lifetimes"
        /\ UNCHANGED <<call_vars, context_vars, stream_vars, gateway_vars, mcp_vars, sess_vars,
                        perm_vars, conf_vars, view_vars>>
        /\ LifeNext

parts_vars == <<part, call_vars, context_vars, stream_vars, gateway_vars, mcp_vars,
                sess_vars, perm_vars, conf_vars, view_vars, life_vars>>

PartsSpec == PartsInit /\ [][PartsNext]_parts_vars
=============================================================================
