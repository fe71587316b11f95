---------------------------- MODULE Permissions ----------------------------
(***************************************************************************)
(* How a tool call is decided: the rules of the configuration, the grants  *)
(* of the session, and what is done about a call that neither resolves.    *)
(*                                                                         *)
(* What a glob matches is data: Covers gives it for the patterns of the    *)
(* rules and for the targets, for a grant is a target read as a pattern.   *)
(***************************************************************************)
EXTENDS Integers, FiniteSets

CONSTANTS Targets,   \* what a call is about: a path, a command line
          Patterns,  \* the patterns that rules are written with
          Length,    \* the number of characters of a pattern
          Covers,    \* the targets that a pattern, or a target as one, matches
          Inside,    \* the targets that the sandbox allows
          Shell      \* what the shell classifier makes of a command

ASSUME PermissionsAssumption ==
  /\ "whole" \notin Patterns
  /\ Length \in [Patterns -> Nat]
  /\ Covers \in [Patterns \cup Targets -> SUBSET Targets]
  /\ Inside \subseteq Targets
  /\ Shell \in [Targets -> {"allow", "deny", "undetermined"}]
  \* a configuration is finite: of any patterns one is longest
  /\ \A some \in SUBSET Patterns :
       some # {} => \E p \in some : \A q \in some : Length[q] <= Length[p]

Modes == {"ask", "auto", "yolo"}

EditTools == {"write_file", "edit_file", "delete_file", "rename_file", "copy_file",
              "create_folder", "open_file"}
BashTools == {"run_command", "background_process", "terminal", "browser_terminal"}
ReadTools == {"read_file", "list_files", "glob_files", "grep_files", "file_info"}
McpTools == {"mcp__tool"}

ToolKind(tool) ==
  CASE tool \in EditTools                    -> "edit"
    [] tool \in BashTools                    -> "bash"
    [] tool \in ReadTools                    -> "read"
    [] tool \in {"web_search", "web_fetch"}  -> "web"
    [] tool = "install_skill"                -> "skill"
    [] OTHER                                 -> tool

NeedsApproval(tool) ==
  tool \in EditTools \cup {"run_command", "background_process", "install_skill", "vision"}

-----------------------------------------------------------------------------
(* The rules: records of a key (a tool, a kind, or "*"), a pattern and what *)
(* to do.  "whole" is the rule of a key without patterns.                  *)

RuleKeys(tool) == {"*", ToolKind(tool), tool}

Specificity(rule) == IF rule.pattern = "whole" THEN 0 ELSE Length[rule.pattern]
Rank(rule, tool) == IF rule.key = tool THEN 2 ELSE IF rule.key = "*" THEN 0 ELSE 1
Priority(rule) == CASE rule.does = "deny" -> 2 [] rule.does = "ask" -> 1 [] OTHER -> 0

\* Faulty variant: the nearer key wins before the longer pattern does.
BeatsByKey(a, b, tool) ==
  \/ Rank(a, tool) > Rank(b, tool)
  \/ Rank(a, tool) = Rank(b, tool) /\ Specificity(a) > Specificity(b)
  \/ Rank(a, tool) = Rank(b, tool) /\ Specificity(a) = Specificity(b) /\ Priority(a) > Priority(b)

\* The longer pattern wins, then the nearer key, then the stricter rule.
Beats(a, b, tool) ==
  \/ Specificity(a) > Specificity(b)
  \/ Specificity(a) = Specificity(b) /\ Rank(a, tool) > Rank(b, tool)
  \/ Specificity(a) = Specificity(b) /\ Rank(a, tool) = Rank(b, tool) /\ Priority(a) > Priority(b)

Candidates(rules, tool, target) ==
  {r \in rules : r.key \in RuleKeys(tool)
                 /\ (r.pattern = "whole" \/ target \in Covers[r.pattern])}

\* What the best rule says, or "none".
RuleFor(rules, tool, target) ==
  LET found == Candidates(rules, tool, target)
  IN  IF found = {} THEN "none"
      ELSE (CHOOSE r \in found : \A other \in found : ~Beats(other, r, tool)).does

\* A grant was given for a tool, and is also good for a kind of that name.
Granted(grants, tool, target) ==
  \E g \in grants : g.tool \in {tool, ToolKind(tool)} /\ target \in Covers[g.target]

\* No rule is about this tool, and it needs no approval.
Free(rules, tool) == ~NeedsApproval(tool) /\ \A r \in rules : r.key \notin RuleKeys(tool)

\* Faulty variant: a grant is looked at before the rules.
DecideGrantFirst(mode, rules, grants, tool, target) ==
  LET says == RuleFor(rules, tool, target) IN
  IF mode = "yolo" \/ Free(rules, tool) \/ Granted(grants, tool, target) THEN "allow"
  ELSE IF says \in {"allow", "deny"} THEN says
  ELSE IF NeedsApproval(tool) THEN "unresolved" ELSE "allow"

Decide(mode, rules, grants, tool, target) ==
  LET says == RuleFor(rules, tool, target) IN
  IF mode = "yolo" \/ Free(rules, tool) THEN "allow"
  ELSE IF says \in {"allow", "deny"} THEN says
  ELSE IF NeedsApproval(tool) /\ ~Granted(grants, tool, target) THEN "unresolved" ELSE "allow"

\* What the automatic mode makes of a call that is not resolved.
AutoClassify(tool, target) ==
  CASE tool \in McpTools \cup ReadTools -> "allow"
    [] ToolKind(tool) \in {"memory", "question", "vision", "subagent", "web"} -> "allow"
    [] ToolKind(tool) = "edit" -> IF target \in Inside THEN "allow" ELSE "deny"
    [] ToolKind(tool) = "skill" -> "deny"
    [] ToolKind(tool) = "bash" -> Shell[target]
    [] OTHER -> "undetermined"
=============================================================================
