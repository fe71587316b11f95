------------------------------ MODULE ToolGate ------------------------------
(***************************************************************************)
(* The gate every tool call of the agent goes through: the filter of a     *)
(* subagent, the rules and grants, the PreToolUse hooks, the preparation   *)
(* of the arguments, and for a call that is left unresolved the human, the *)
(* classifier or the reviewer.  Grants live as long as the session: they   *)
(* are saved after every round and read again when it is resumed.          *)
(*                                                                         *)
(* A call is a tool and its target; hooks may change the target.           *)
(***************************************************************************)
EXTENDS Permissions

CONSTANTS Tools,     \* the tools that the model calls
          Builtin,   \* those that is_builtin_tool_name knows
          RuleSets,  \* the configurations of rules
          Filters,   \* the tool filters; Tools if there is none
          NoGrant    \* no entry in the map of grants

ASSUME GateAssumption ==
  /\ Tools # {} /\ Builtin \subseteq Tools /\ Targets # {} /\ NoGrant \notin Targets
  /\ \A set \in RuleSets : \A r \in set :
       r.pattern \in Patterns \cup {"whole"} /\ r.does \in {"allow", "deny", "ask"}

VARIABLES mode, rules, interactive, filter,  \* the configuration
          grants,    \* permissions.grants
          granted,   \* grants_map
          saved,     \* the grants in the session's file
          at,        \* where the call is
          call,      \* the call as the model made it
          target,    \* the target it would be executed with
          decision,  \* what the rules said, before the hooks ran
          outcome,   \* what became of the call
          answers,   \* history: what the human said about a call
          unsaved    \* history: the calls that were allowed since the last save

config == <<mode, rules, interactive, filter>>
session == <<grants, granted, saved>>
history == <<answers, unsaved>>
vars == <<config, session, at, call, target, decision, outcome, history>>

Calls == [tool : Tools, target : Targets]
Start == CHOOSE c \in Calls : TRUE

Init ==
  /\ mode \in Modes /\ rules \in RuleSets /\ interactive \in BOOLEAN /\ filter \in Filters
  /\ grants = {} /\ granted = [t \in Tools |-> NoGrant] /\ saved = granted
  /\ at = "idle" /\ call = Start /\ target = Start.target
  /\ decision = "none" /\ outcome = "none"
  /\ answers = [c \in Calls |-> "none"] /\ unsaved = {}

\* A built-in tool outside the filter is answered at once; a name that
\* is_builtin_tool_name does not know passes.  The read-only policy that comes
\* next belongs to no mode: the registry has "code" and "ask", both with all tools.
Call(c) ==
  /\ at = "idle"
  /\ call' = c /\ target' = c.target
  /\ IF c.tool \in Builtin \ filter
       THEN at' = "idle" /\ decision' = "none" /\ outcome' = "filtered"
       ELSE /\ at' = "decided" /\ outcome' = "none"
            /\ decision' = Decide(mode, rules, grants, c.tool, c.target)
  /\ UNCHANGED <<config, session, history>>

\* The hooks run after the decision: they let the call pass, block it, or
\* change its arguments; then the arguments are prepared, which may fail.
Hook ==
  /\ at = "decided"
  /\ \/ at' = "idle" /\ outcome' = "blocked" /\ UNCHANGED target
     \/ at' = "prepared" /\ target' \in Targets /\ UNCHANGED outcome
  /\ UNCHANGED <<config, session, call, decision, history>>

\* Outcomes of calls that were executed.
Executed == {"by_rule", "by_human", "by_classifier"}

\* What the decision comes to.
Dispatch ==
  /\ at = "prepared"
  /\ \/ decision = "deny" /\ at' = "idle" /\ outcome' = "denied"
     \/ decision = "allow" /\ at' = "idle" /\ outcome' = "by_rule"
     \/ /\ decision = "unresolved" /\ mode = "ask"
        /\ IF interactive THEN at' = "asking" /\ UNCHANGED outcome
           ELSE at' = "idle" /\ outcome' = "unavailable"
     \/ /\ decision = "unresolved" /\ mode = "auto"
        /\ LET class == AutoClassify(call.tool, call.target) IN
             /\ at' = IF class = "undetermined" THEN "reviewing" ELSE "idle"
             /\ outcome' = CASE class = "allow" -> "by_classifier"
                             [] class = "deny" -> "not_classified"
                             [] OTHER -> outcome
  /\ UNCHANGED <<config, session, call, target, decision, history>>

\* Faulty variant: a grant is for every tool of the kind.
GrantForKind(c) == [tool |-> ToolKind(c.tool), target |-> c.target]

\* The grant of a call: its own tool, and its target as a pattern.
GrantFor(c) == [tool |-> c.tool, target |-> c.target]

\* The human says no, once or always; the last two are not told apart.
Answer(said) ==
  /\ at = "asking"
  /\ at' = "idle" /\ outcome' = IF said = "no" THEN "refused" ELSE "by_human"
  /\ IF said = "no" THEN UNCHANGED <<grants, granted, history>>
     ELSE /\ grants' = grants \cup {GrantFor(call)}
          /\ granted' = [granted EXCEPT ![call.tool] = call.target]
          /\ answers' = [answers EXCEPT ![call] = said]
          /\ unsaved' = unsaved \cup {call}
  /\ UNCHANGED <<config, saved, call, target, decision>>

\* The reviewer allows the call or not; its verdict is the result of the call.
Review ==
  /\ at = "reviewing"
  /\ at' = "idle" /\ outcome' \in {"review_allowed", "review_refused"}
  /\ UNCHANGED <<config, session, call, target, decision, history>>

\* After a round the session is saved; a save that fails is only reported.
SaveSession ==
  /\ at = "idle"
  /\ saved' = granted /\ unsaved' = {}
  /\ UNCHANGED <<config, grants, granted, at, call, target, decision, outcome, answers>>

\* The run ends or is killed anywhere, and a new one resumes the session.
Resume ==
  /\ grants' = {c \in Calls : saved[c.tool] = c.target}
  /\ granted' = saved /\ at' = "idle" /\ decision' = "none" /\ outcome' = "none"
  /\ answers' = [c \in Calls |->
                   IF c \in unsaved /\ saved[c.tool] # c.target THEN "none" ELSE answers[c]]
  /\ unsaved' = {}
  /\ UNCHANGED <<config, saved, call, target>>

Next ==
  \/ \E c \in Calls : Call(c)
  \/ Hook \/ Dispatch \/ Review \/ SaveSession \/ Resume
  \/ \E said \in {"no", "once", "always"} : Answer(said)

Spec == Init /\ [][Next]_vars

-----------------------------------------------------------------------------
(* Properties.                                                             *)

\* A call that the rules deny is not executed, whatever the human granted
\* before it in this run or in one that was resumed: grants "resolve unresolved
\* calls", as `decide` says (permissions.rs 305) and does.  The comment on the
\* type (189-191) says the opposite: see GrantsOverrideRules.
DeniedNeverRuns ==
  outcome \in Executed /\ mode # "yolo" => RuleFor(rules, call.tool, call.target) # "deny"

\* However many rules match, a denial yields only to an allowance that is
\* written for fewer targets, or for as few and for a nearer key: neither the
\* order of the rules nor a third one opens what a rule denies.
DenialYields ==
  RuleFor(rules, call.tool, call.target) = "allow" =>
    \A d \in Candidates(rules, call.tool, call.target) : d.does = "deny" =>
      \E a \in Candidates(rules, call.tool, call.target) :
        /\ a.does = "allow"
        /\ \/ Specificity(a) > Specificity(d)
           \/ Specificity(a) = Specificity(d) /\ Rank(a, call.tool) > Rank(d, call.tool)

\* The human allowed this call, or this tool for a target that covers this one.
HumanAllowed(c) ==
  \E a \in Calls : /\ answers[a] # "none"
                   /\ a = c \/ (a.tool = c.tool /\ c.target \in Covers[a.target])

\* A tool that needs approval is executed only with leave: from a rule, from
\* the human for this very tool, or from the classifier in automatic mode.
NeedsLeave ==
  outcome \in Executed /\ mode # "yolo" /\ NeedsApproval(call.tool) =>
    \/ RuleFor(rules, call.tool, call.target) = "allow"
    \/ HumanAllowed(call)
    \/ mode = "auto" /\ AutoClassify(call.tool, call.target) = "allow"

\* "Session grants override static rules (they represent explicit human
\* confirmation)": what is granted is not denied.
GrantsOverrideRules == outcome = "denied" => ~Granted(grants, call.tool, call.target)

\* Session grants are "don't ask again": a call that the human allowed always,
\* and that is not lost with an unsaved round, is not asked about again.
GrantIsKept ==
  [][at' = "asking" =>
       ~\E a \in Calls : answers[a] = "always" /\ a.tool = call.tool
                         /\ call.target \in Covers[a.target]]_vars

\* "Allow this one call": what was allowed once is not granted for the session.
OnceIsOnce == \A c \in Calls : answers[c] = "once" => c \notin grants

\* Hooks come "before local tool validation, permissions, and execution": what
\* is executed is what was decided.
ExecutedIsDecided == outcome \in Executed => target = call.target

\* "Unresolved review falls back to human approval in interactive mode": no
\* call of an interactive run ends with a refusal of the reviewer.
ReviewFallsBack == interactive => outcome # "review_refused"

\* "Names outside the admission snapshot are denied pre-execution."
FilterHolds == outcome \in Executed => call.tool \in filter

\* "A deny always wins over an allow for an overlapping target."
DenyAlwaysWins ==
  outcome \in Executed /\ mode # "yolo" =>
    \A r \in Candidates(rules, call.tool, call.target) : r.does # "deny"
=============================================================================
