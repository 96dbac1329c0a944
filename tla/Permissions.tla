---------------------------- MODULE Permissions ----------------------------
(***************************************************************************)
(* Who may do what: the request a tool call makes, the rules of the user,  *)
(* of the project and of the session, the mode, the answer of the user and *)
(* what is remembered of it (forge/permissions/policy.py, risk.py, driven  *)
(* by forge/runtime/executor.py, agent_loop.py and forge/cli.py).          *)
(*                                                                         *)
(* A pattern is a target or "*": names with characters of a glob are left  *)
(* out. How a command is read is left to the traits it is given.           *)
(***************************************************************************)
EXTENDS Naturals, FiniteSets

CONSTANTS
  Targets,        \* what calls are about
  Protected,      \* targets no call may touch: .forge, .env, keys
  Roots,          \* targets under an authorized write root
  Traits,         \* what a command may be seen to do
  UserRules,      \* rules of ~/.forge/permissions.json
  EditedRules,    \* rules somebody may write into the project's file
  Nothing,        \* no call waits for an answer
  MaxSwitches,    \* bound: sessions after the first
  MaxPermissionCalls,       \* bound: calls
  MaxChanges      \* bound: changes of the mode and foreign writes of the project's file

ASSUME PermissionAssumption ==
  /\ Protected \subseteq Targets /\ Roots \subseteq Targets
  /\ IsFiniteSet(Targets) /\ {"*", ""} \cap Targets = {}
  /\ Traits \subseteq {"privileged", "discards", "broad", "deletes", "installs", "network"}
  /\ MaxSwitches \in Nat /\ MaxPermissionCalls \in Nat /\ MaxChanges \in Nat

VARIABLES
  mode,         \* PermissionManager.mode, of the parent and of its child
  profile,      \* execution_mode and load_stored_rules, from the start on
  projectFile,  \* .forge/permissions.json
  rules,        \* project_rules and session_rules of the parent and of the child
  question,       \* the request an approval handler was given and did not answer yet
  child,        \* run_child: a child acts, and its parent waits for it
  sitting,      \* which session the conversation is bound to
  verdict,      \* history: the decision of the last step
  remembered,   \* history: answers that are to hold for more than one call
  written,      \* history: rules that were in the project's file without an answer
  calls, changes   \* counters of the bounds

perm_vars == <<mode, profile, projectFile, rules, question, child, sitting, verdict, remembered,
               written, calls, changes>>

Holders == {"parent", "child"}
ReadOnly == {"file.read", "repository.read", "mcp.read"}

-----------------------------------------------------------------------------
(***************************************************************************)
(* What a call asks for: classify_tool_call, and the tools that say it     *)
(* themselves. The targets of a call are what its request names, its files *)
(* what it changes: a patch that is a unified diff names none of its files *)
(* (PATCH_PATH_PATTERN). What a command touches is not known.              *)
(***************************************************************************)
Forms == {"mcp_read", "mcp_write", "remove_directory", "write", "deleting_patch", "read"}
Named(call) == call.files = call.targets
IsDiff(call) == call.form \in {"write", "deleting_patch"} /\ call.targets = {}
CallSet ==
  {call \in [form : Forms, traits : {{}}, targets : SUBSET Targets, files : SUBSET Targets]
             \cup [form : {"command"}, traits : SUBSET Traits, targets : SUBSET Targets,
                   files : SUBSET Targets] : Named(call) \/ IsDiff(call)}

Request(capability, risk, call, hard) ==
  [capability |-> capability, risk |-> risk, targets |-> call.targets, hard |-> hard,
   files |-> call.files]

ClassifyProcess(call) ==
  IF "privileged" \in call.traits THEN Request("process.privileged", "critical", call, TRUE)
  ELSE IF "discards" \in call.traits THEN Request("file.delete", "critical", call, TRUE)
  ELSE IF "broad" \in call.traits THEN Request("file.delete", "critical", call, TRUE)
  ELSE IF "deletes" \in call.traits THEN Request("file.delete", "high", call, FALSE)
  ELSE IF "installs" \in call.traits THEN Request("dependency.install", "high", call, FALSE)
  ELSE IF "network" \in call.traits THEN Request("network.access", "high", call, FALSE)
  ELSE Request("process.exec", "low", call, FALSE)

Classify(call) ==
  CASE call.form = "mcp_read" -> Request("mcp.read", "low", call, FALSE)
    [] call.form = "mcp_write" -> Request("mcp.write", "high", call, FALSE)
    [] call.form = "remove_directory" -> Request("file.delete", "high", call, FALSE)
    [] OTHER ->
       IF call.targets \cap Protected # {} THEN Request("file.read", "critical", call, TRUE)
       ELSE CASE call.form = "command" -> ClassifyProcess(call)
              [] call.form = "deleting_patch" -> Request("file.delete", "high", call, FALSE)
              [] call.form = "write" -> Request("file.write", "low", call, FALSE)
              [] OTHER -> Request(IF call.targets # {} THEN "file.read" ELSE "repository.read",
                                  "low", call, FALSE)

-----------------------------------------------------------------------------
(***************************************************************************)
(* Rules.                                                                  *)
(***************************************************************************)
Covers(pattern, target) == pattern = "*" \/ pattern = target
About(request) == IF request.targets = {} THEN {""} ELSE request.targets

\* An allow must cover every target, a deny or an ask applies if it covers one.
RuleMatches(rule, request) ==
  /\ rule.capability \in {"*", request.capability}
  /\ IF rule.action = "allow" THEN \A t \in About(request) : Covers(rule.target, t)
     ELSE \E t \in About(request) : Covers(rule.target, t)

Scoped(set, scope) == {[rule |-> r, scope |-> scope] : r \in set}
Matching(holder, request) ==
  {s \in Scoped(IF profile.stored THEN UserRules ELSE {}, 0)
         \cup Scoped(rules[holder].project, 1) \cup Scoped(rules[holder].session, 2) :
     RuleMatches(s.rule, request)}

\* max by specificity and scope. Names differ in length, so that of two targets either may be first.
Prefer(s, t) ==
  LET fixed(x) == IF x.rule.target = "*" THEN 0 ELSE 1
      capability(x) == IF x.rule.capability = "*" THEN 0 ELSE 1 IN
  \/ fixed(s) > fixed(t)
  \/ /\ s.rule.target = t.rule.target
     /\ \/ capability(s) > capability(t)
        \/ capability(s) = capability(t) /\ s.scope > t.scope
MostSpecific(matching) == {s \in matching : ~\E t \in matching : Prefer(t, s)}

ModeDefault(request) ==
  LET read == request.capability \in ReadOnly IN
  IF mode = "plan" THEN (IF read THEN "allow" ELSE "deny")
  ELSE IF mode = "supervised" THEN (IF read THEN "allow" ELSE "ask")
  ELSE IF request.risk = "low" THEN "allow" ELSE "ask"

InRoots(request) ==
  /\ request.capability = "file.write" /\ request.risk = "low"
  /\ request.targets # {} /\ request.targets \subseteq Roots

\* authorize up to the question: what is decided, or "ask".
Evaluate(holder, request) ==
  LET matching == Matching(holder, request) IN
  IF request.hard THEN {"deny"}
  ELSE IF request.capability \notin ReadOnly /\ (profile.readOnly \/ mode = "plan") THEN {"deny"}
  ELSE IF \E s \in matching : s.rule.action = "deny" THEN {"deny"}
  ELSE IF request.capability = "mcp.write" THEN {"ask"}
  ELSE IF matching # {}
       THEN {IF s.rule.action = "allow" THEN "allow" ELSE "ask" : s \in MostSpecific(matching)}
  ELSE IF InRoots(request) THEN {"allow"}
  ELSE {ModeDefault(request)}

-----------------------------------------------------------------------------
(***************************************************************************)
(* A call is authorized.                                                   *)
(***************************************************************************)
NoVerdict == [request |-> Nothing, allowed |-> FALSE, holder |-> "parent", asked |-> FALSE]
Decision(holder, request, allowed, asked) ==
  [request |-> request, allowed |-> allowed, holder |-> holder, asked |-> asked]
Acting == IF child THEN "child" ELSE "parent"

\* Without a handler a question is a denial.
AuthorizeCall(call) ==
  /\ question = Nothing /\ calls < MaxPermissionCalls /\ calls' = calls + 1
  /\ LET request == Classify(call) IN
     \E outcome \in Evaluate(Acting, request) :
       IF outcome = "ask" /\ profile.handler
       THEN question' = request /\ verdict' = NoVerdict
       ELSE /\ verdict' = Decision(Acting, request, outcome = "allow", FALSE)
            /\ UNCHANGED question
  /\ UNCHANGED <<mode, profile, projectFile, rules, child, sitting, remembered, written, changes>>

\* Mistake: a grant to delete may be remembered for whatever it was asked.
EffectiveLoosely(request, choice) ==
  IF request.capability = "mcp.write" /\ choice # "deny" THEN "allow_once" ELSE choice

\* What an answer comes to: a write to another service is never remembered, a deletion not beyond
\* the session and the one target.
Effective(request, choice) ==
  IF request.capability = "mcp.write" /\ choice # "deny" THEN "allow_once"
  ELSE IF request.capability = "file.delete"
          /\ \/ choice = "allow_project"
             \/ choice = "allow_session" /\ Cardinality(request.targets) # 1
       THEN "allow_once"
  ELSE choice

RuleTarget(request) ==
  IF Cardinality(request.targets) = 1 THEN CHOOSE t \in request.targets : TRUE ELSE "*"
Grant(request) ==
  [action |-> "allow", capability |-> request.capability, target |-> RuleTarget(request)]

\* _save_rules writes what the manager holds; rules that others wrote since it loaded them are gone.
\* It refuses to write over a file it cannot read.
Respond(choice) ==
  /\ question # Nothing /\ question' = Nothing
  /\ LET request == question
         effective == Effective(request, choice)
         persist == effective = "allow_project" /\ profile.stored
         saved == persist /\ projectFile.readable IN
     /\ rules' = CASE effective = "allow_session" ->
                        [rules EXCEPT ![Acting].session = @ \cup {Grant(request)}]
                   [] persist -> [rules EXCEPT ![Acting].project = @ \cup {Grant(request)}]
                   [] OTHER -> rules
     /\ projectFile' = IF saved THEN [projectFile EXCEPT !.rules = rules'[Acting].project]
                       ELSE projectFile
     /\ remembered' = IF effective = "allow_session" \/ persist
                      THEN remembered \cup {[capability |-> request.capability,
                                             targets |-> request.targets, holder |-> Acting,
                                             sitting |-> IF persist THEN 0 ELSE sitting]}
                      ELSE remembered
     /\ verdict' = Decision(Acting, request,
                            effective \in {"allow_once", "allow_session"} \/ saved, TRUE)
  /\ UNCHANGED <<mode, profile, child, sitting, written, calls, changes>>

\* The turn is cancelled while the user is asked.
Abandon ==
  /\ question # Nothing /\ question' = Nothing /\ verdict' = NoVerdict
  /\ UNCHANGED <<mode, profile, projectFile, rules, child, sitting, remembered, written, calls, changes>>

-----------------------------------------------------------------------------
(***************************************************************************)
(* Modes, children, sessions, other processes.                             *)
(***************************************************************************)
NothingAsked == question = Nothing /\ verdict' = NoVerdict

SetMode(m) ==
  /\ NothingAsked /\ ~child /\ m # mode /\ changes < MaxChanges /\ changes' = changes + 1
  /\ mode' = m
  /\ UNCHANGED <<profile, projectFile, rules, question, child, sitting, remembered, written, calls>>

\* run_child copies the rules of the parent. What the child is granted ends with it.
OpenChild ==
  /\ NothingAsked /\ ~child /\ child' = TRUE
  /\ rules' = [rules EXCEPT !.child = rules.parent]
  /\ UNCHANGED <<mode, profile, projectFile, question, sitting, remembered, written, calls, changes>>
CloseChild ==
  /\ NothingAsked /\ child /\ child' = FALSE
  /\ rules' = [rules EXCEPT !.child = [project |-> {}, session |-> {}]]
  /\ remembered' = {a \in remembered : a.holder = "parent" \/ a.sitting = 0}
  /\ UNCHANGED <<mode, profile, projectFile, question, sitting, written, calls, changes>>

\* bind_session: another session begins without the rules of the last one.
BindSession(held) == [held EXCEPT !.session = {}]
SwitchSession ==
  /\ NothingAsked /\ ~child /\ sitting <= MaxSwitches /\ sitting' = sitting + 1
  /\ rules' = [rules EXCEPT !.parent = BindSession(@)]
  /\ UNCHANGED <<mode, profile, projectFile, question, child, remembered, written, calls, changes>>

\* The next process: rules come from the files, the mode from its options.
LoadRules(file) == IF profile.stored /\ file.readable THEN file.rules ELSE {}
Restart(m) ==
  /\ verdict' = NoVerdict /\ sitting <= MaxSwitches /\ sitting' = sitting + 1
  /\ rules' = [h \in Holders |->
                 [project |-> IF h = "parent" THEN LoadRules(projectFile) ELSE {}, session |-> {}]]
  /\ mode' = m /\ child' = FALSE /\ question' = Nothing
  /\ UNCHANGED <<profile, projectFile, remembered, written, calls, changes>>

\* Somebody edits the file, or another process saves what it was granted.
EditFile(file) ==
  /\ verdict' = NoVerdict /\ changes < MaxChanges /\ changes' = changes + 1
  /\ file # projectFile /\ projectFile' = file
  /\ written' = written \cup (file.rules \ projectFile.rules)
  /\ UNCHANGED <<mode, profile, rules, question, child, sitting, remembered, calls>>

-----------------------------------------------------------------------------
Modes == {"plan", "supervised", "auto"}

PermInit ==
  /\ mode \in Modes
  /\ profile \in [readOnly : BOOLEAN, stored : BOOLEAN, handler : BOOLEAN]
  /\ projectFile \in [readable : {TRUE}, rules : {{}} \cup {{r} : r \in EditedRules}]
  /\ rules = [h \in Holders |->
                [project |-> IF h = "parent" THEN LoadRules(projectFile) ELSE {}, session |-> {}]]
  /\ question = Nothing /\ child = FALSE /\ sitting = 1 /\ verdict = NoVerdict
  /\ remembered = {} /\ written = projectFile.rules /\ calls = 0 /\ changes = 0

PermNext ==
  \/ \E call \in CallSet : AuthorizeCall(call)
  \/ \E choice \in {"allow_once", "allow_session", "allow_project", "deny"} : Respond(choice)
  \/ \E m \in Modes : SetMode(m) \/ Restart(m)
  \/ \E r \in EditedRules, readable \in BOOLEAN :
       EditFile([readable |-> readable, rules |-> projectFile.rules \cup {r}])
  \/ Abandon \/ OpenChild \/ CloseChild \/ SwitchSession

PermSpec == PermInit /\ [][PermNext]_perm_vars

-----------------------------------------------------------------------------
\* An answer for several targets stands for all of its capability, and one for none likewise; a
\* deletion only for its target.
Stands(answer, request) ==
  /\ answer.capability = request.capability
  /\ \/ answer.targets = request.targets
     \/ Cardinality(answer.targets) # 1 /\ request.capability # "file.delete"
  /\ answer.sitting # 0 => request.capability # "mcp.write" /\ answer.sitting = sitting
  /\ answer.sitting = 0 => request.capability \notin {"mcp.write", "file.delete"}

\* What a request for one file alone would ask.
Alone(request, file) == [capability |-> request.capability, targets |-> {file}]

(***************************************************************************)
(* What is allowed has a reason that still holds: it only reads, the mode  *)
(* lets it pass, a rule somebody wrote covers every target of it, or the   *)
(* user allowed this call, or allowed its like in this session or for this *)
(* project. A grant does not outlive its session, a child's does not reach *)
(* its parent, writes to other services are asked for each time and        *)
(* deletions never go beyond the target that was shown. Nothing is allowed *)
(* against a deny rule in force that covers what the request names, nor an *)
(* effect in plan mode. A call changes a file that such a rule covers, or  *)
(* that is protected, only if its request names nothing at all: a unified  *)
(* diff, whose files the rules do not see, or, past the protection, if the *)
(* tool states its request itself (remove_directory, other services).      *)
(***************************************************************************)
AllowedIsGranted ==
  LET r == verdict.request IN
  verdict.allowed =>
    /\ ~r.hard
    /\ r.capability \notin ReadOnly => ~profile.readOnly /\ mode # "plan"
    /\ ~\E s \in Matching(verdict.holder, r) : s.rule.action = "deny"
    /\ \A f \in r.files :
         (\E s \in Matching(verdict.holder, Alone(r, f)) : s.rule.action = "deny") => r.targets = {}
    /\ r.files \cap Protected # {} =>
         r.targets = {} \/ r.capability \in {"mcp.read", "mcp.write", "file.delete"}
    /\ \/ r.capability \in ReadOnly
       \/ mode = "auto" /\ r.risk = "low"
       \/ InRoots(r)
       \/ verdict.asked
       \/ /\ r.capability # "mcp.write" /\ profile.stored
          /\ \E rule \in UserRules \cup written : rule.action = "allow" /\ RuleMatches(rule, r)
       \/ \E a \in remembered : Stands(a, r) /\ (a.holder = "parent" \/ verdict.holder = "child"
                                                 \/ a.sitting = 0)
=============================================================================
