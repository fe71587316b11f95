----------------------------- MODULE TurnProofs -----------------------------
(***************************************************************************)
(* What holds of a turn of the agent for every value of the constants: the *)
(* gate of the tools, one answer of the provider, the handles of results.  *)
(***************************************************************************)
EXTENDS MCTurn, SequenceTheorems, NaturalsInduction, WellFoundedInduction, TLAPS

\* The rules that a configuration may have.
RulesType(set) ==
  \A r \in set : r.pattern \in Patterns \cup {"whole"} /\ r.does \in {"allow", "deny", "ask"}

-----------------------------------------------------------------------------
(* The best rule.                                                          *)

\* The three marks of a rule are numbers, and the last two are at most 2.
LEMMA MarksOfRules ==
  ASSUME NEW set, RulesType(set), NEW tool, NEW r \in set
  PROVE  /\ Specificity(r) \in Nat
         /\ Rank(r, tool) \in 0 .. 2
         /\ Priority(r) \in 0 .. 2
<1>1. r.pattern \in Patterns \cup {"whole"}
  BY DEF RulesType
<1>2. Specificity(r) \in Nat
  BY <1>1, PermissionsAssumption DEF Specificity
<1>3. Rank(r, tool) \in 0 .. 2
  BY DEF Rank
<1>4. Priority(r) \in 0 .. 2
  BY DEF Priority
<1> QED BY <1>2, <1>3, <1>4

\* Among some rules, one has the longest pattern.
LEMMA LongestExists ==
  ASSUME NEW set, RulesType(set), set # {}
  PROVE  \E r \in set : \A other \in set : Specificity(other) <= Specificity(r)
<1> DEFINE some == {p \in Patterns : \E r \in set : r.pattern = p}
<1>1. CASE some = {}
  <2>1. \A r \in set : Specificity(r) = 0
    BY <1>1 DEF RulesType, Specificity
  <2> QED BY <2>1
<1>2. CASE some # {}
  <2>1. PICK p \in some : \A q \in some : Length[q] <= Length[p]
    BY <1>2, PermissionsAssumption
  <2>2. PICK r \in set : r.pattern = p
    BY <2>1
  <2>3. p # "whole" /\ Length[p] \in Nat /\ Specificity(r) = Length[p]
    BY <2>1, <2>2, PermissionsAssumption DEF Specificity
  <2>4. ASSUME NEW other \in set
        PROVE  Specificity(other) <= Specificity(r)
    <3>1. CASE other.pattern = "whole"
      BY <3>1, <2>3 DEF Specificity
    <3>2. CASE other.pattern # "whole"
      <4>1. other.pattern \in some
        BY <3>2 DEF RulesType
      <4> QED BY <4>1, <3>2, <2>1, <2>3 DEF Specificity
    <3> QED BY <3>1, <3>2
  <2> QED BY <2>2, <2>4
<1> QED BY <1>1, <1>2

\* Among some rules, one has the nearest key.
LEMMA NearestExists ==
  ASSUME NEW set, RulesType(set), set # {}, NEW tool
  PROVE  \E r \in set : \A other \in set : Rank(other, tool) <= Rank(r, tool)
<1>1. \A r \in set : Rank(r, tool) \in 0 .. 2
  BY MarksOfRules
<1>2. CASE \E r \in set : Rank(r, tool) = 2
  BY <1>1, <1>2
<1>3. CASE ~(\E r \in set : Rank(r, tool) = 2) /\ \E r \in set : Rank(r, tool) = 1
  BY <1>1, <1>3
<1>4. CASE \A r \in set : Rank(r, tool) = 0
  BY <1>4
<1> QED BY <1>1, <1>2, <1>3, <1>4

\* Among some rules, one is the strictest.
LEMMA StrictestExists ==
  ASSUME NEW set, RulesType(set), set # {}
  PROVE  \E r \in set : \A other \in set : Priority(other) <= Priority(r)
<1>1. \A r \in set : Priority(r) \in 0 .. 2
  BY MarksOfRules
<1>2. CASE \E r \in set : Priority(r) = 2
  BY <1>1, <1>2
<1>3. CASE ~(\E r \in set : Priority(r) = 2) /\ \E r \in set : Priority(r) = 1
  BY <1>1, <1>3
<1>4. CASE \A r \in set : Priority(r) = 0
  BY <1>4
<1> QED BY <1>1, <1>2, <1>3, <1>4

\* Among some rules there is one that none of them beats.
LEMMA BestExists ==
  ASSUME NEW set, RulesType(set), set # {}, NEW tool
  PROVE  \E r \in set : \A other \in set : ~Beats(other, r, tool)
<1>1. PICK long \in set : \A other \in set : Specificity(other) <= Specificity(long)
  BY LongestExists
<1> DEFINE Longest == {r \in set : Specificity(r) = Specificity(long)}
<1>2. Longest # {} /\ RulesType(Longest)
  BY DEF RulesType
<1>3. PICK near \in Longest : \A other \in Longest : Rank(other, tool) <= Rank(near, tool)
  BY <1>2, NearestExists
<1> DEFINE Nearest == {r \in Longest : Rank(r, tool) = Rank(near, tool)}
<1>4. Nearest # {} /\ RulesType(Nearest)
  BY <1>2 DEF RulesType
<1>5. PICK best \in Nearest : \A other \in Nearest : Priority(other) <= Priority(best)
  BY <1>4, StrictestExists
<1>6. ASSUME NEW other \in set
      PROVE  ~Beats(other, best, tool)
  <2>1. /\ Specificity(other) \in Nat /\ Specificity(best) \in Nat
        /\ Rank(other, tool) \in Nat /\ Rank(best, tool) \in Nat
        /\ Priority(other) \in Nat /\ Priority(best) \in Nat
    BY <1>5, MarksOfRules
  <2>2. Specificity(other) <= Specificity(best)
    BY <1>1, <1>5
  <2>3. Specificity(other) = Specificity(best) => Rank(other, tool) <= Rank(best, tool)
    BY <1>3, <1>5
  <2>4. Specificity(other) = Specificity(best) /\ Rank(other, tool) = Rank(best, tool)
          => Priority(other) <= Priority(best)
    BY <1>5
  <2> QED BY <2>1, <2>2, <2>3, <2>4 DEF Beats
<1> QED BY <1>5, <1>6

\* What the best rule is, when a rule applies.
LEMMA RuleForIsBest ==
  ASSUME NEW set, RulesType(set), NEW tool, NEW aim, Candidates(set, tool, aim) # {}
  PROVE  \E best \in Candidates(set, tool, aim) :
           /\ RuleFor(set, tool, aim) = best.does
           /\ \A other \in Candidates(set, tool, aim) : ~Beats(other, best, tool)
<1> DEFINE found == Candidates(set, tool, aim)
<1>1. RulesType(found)
  BY DEF RulesType, Candidates
<1>2. \E r \in found : \A other \in found : ~Beats(other, r, tool)
  BY <1>1, BestExists
<1> DEFINE best == CHOOSE r \in found : \A other \in found : ~Beats(other, r, tool)
<1>3. best \in found /\ \A other \in found : ~Beats(other, best, tool)
  BY <1>2
<1>4. RuleFor(set, tool, aim) = best.does
  BY DEF RuleFor
<1> QED BY <1>3, <1>4

\* A denial that matches yields only to a longer allowance, or to one as long
\* and of a nearer key.
LEMMA DenialsYieldToNearer ==
  ASSUME NEW set, RulesType(set), NEW tool, NEW aim,
         RuleFor(set, tool, aim) = "allow",
         NEW d \in Candidates(set, tool, aim), d.does = "deny"
  PROVE  \E a \in Candidates(set, tool, aim) :
           /\ a.does = "allow"
           /\ \/ Specificity(a) > Specificity(d)
              \/ Specificity(a) = Specificity(d) /\ Rank(a, tool) > Rank(d, tool)
<1>1. PICK best \in Candidates(set, tool, aim) :
        /\ RuleFor(set, tool, aim) = best.does
        /\ \A other \in Candidates(set, tool, aim) : ~Beats(other, best, tool)
  BY RuleForIsBest
<1>2. best.does = "allow" /\ ~Beats(d, best, tool)
  BY <1>1
<1>3. best \in set /\ d \in set
  BY DEF Candidates
<1>4. /\ Specificity(best) \in Nat /\ Specificity(d) \in Nat
      /\ Rank(best, tool) \in Nat /\ Rank(d, tool) \in Nat
  BY <1>3, MarksOfRules
<1>5. Priority(best) = 0 /\ Priority(d) = 2
  BY <1>2 DEF Priority
<1>6. \/ Specificity(best) > Specificity(d)
      \/ Specificity(best) = Specificity(d) /\ Rank(best, tool) > Rank(d, tool)
  BY <1>2, <1>4, <1>5 DEF Beats
<1> QED BY <1>2, <1>6

-----------------------------------------------------------------------------
(* The gate.                                                               *)

\* The rules stay those of a configuration.
RulesKept == rules \in RuleSets

LEMMA RulesAreTyped == ASSUME RulesKept PROVE RulesType(rules)
BY GateAssumption DEF RulesKept, RulesType

\* No step changes the configuration.
LEMMA ConfigurationStays == ASSUME [Next]_vars PROVE UNCHANGED config
BY DEF Next, Call, Hook, Dispatch, Answer, Review, SaveSession, Resume, vars, config

THEOREM RulesStay == Spec => []RulesKept
<1>1. Init => RulesKept
  BY DEF Init, RulesKept
<1>2. RulesKept /\ [Next]_vars => RulesKept'
  BY ConfigurationStays DEF RulesKept, config
<1> QED BY <1>1, <1>2, PTL DEF Spec

\* A denial yields only to a rule for fewer targets, or for as few and for a
\* nearer key, in every state of every configuration.
THEOREM DenialsYield == Spec => []DenialYields
<1>1. RulesKept => DenialYields
  <2> SUFFICES ASSUME RulesKept, RuleFor(rules, call.tool, call.target) = "allow",
                      NEW d \in Candidates(rules, call.tool, call.target), d.does = "deny"
               PROVE  \E a \in Candidates(rules, call.tool, call.target) :
                        /\ a.does = "allow"
                        /\ \/ Specificity(a) > Specificity(d)
                           \/ /\ Specificity(a) = Specificity(d)
                              /\ Rank(a, call.tool) > Rank(d, call.tool)
    BY DEF DenialYields
  <2> QED BY RulesAreTyped, DenialsYieldToNearer
<1> QED BY <1>1, RulesStay, PTL

-----------------------------------------------------------------------------
(* What the rules deny never runs.  While a call is on its way, the         *)
(* decision is the one that the rules make now: they do not change.        *)

Denied == mode # "yolo" /\ RuleFor(rules, call.tool, call.target) = "deny"

\* The invariant that is proved.
DenialFollowed ==
  /\ at \in {"decided", "prepared"} /\ Denied => decision = "deny"
  /\ at \in {"asking", "reviewing"} => ~Denied
  /\ outcome \in Executed => ~Denied

\* What the rules deny is decided so, whatever was granted.
LEMMA DenialIsDecided ==
  ASSUME NEW tool, NEW aim, mode # "yolo", RuleFor(rules, tool, aim) = "deny"
  PROVE  Decide(mode, rules, grants, tool, aim) = "deny"
<1>1. Candidates(rules, tool, aim) # {}
  BY DEF RuleFor
<1>2. ~Free(rules, tool)
  BY <1>1 DEF Candidates, Free
<1> QED BY <1>2 DEF Decide

\* A call that the rules deny is not executed, in any session.
THEOREM DeniedNeverExecuted == Spec => []DeniedNeverRuns
<1>1. Init => DenialFollowed
  BY DEF Init, DenialFollowed, Executed
<1>2. DenialFollowed /\ [Next]_vars => DenialFollowed'
  <2> SUFFICES ASSUME DenialFollowed, [Next]_vars
               PROVE  DenialFollowed'
    OBVIOUS
  <2>1. UNCHANGED <<mode, rules>>
    BY ConfigurationStays DEF config
  <2>2. ASSUME NEW c \in Calls, Call(c)
        PROVE  DenialFollowed'
    <3>1. \/ at' = "idle" /\ outcome' = "filtered"
          \/ /\ at' = "decided" /\ outcome' = "none" /\ call' = c
             /\ decision' = Decide(mode, rules, grants, c.tool, c.target)
      BY <2>2 DEF Call
    <3>2. CASE at' = "idle" /\ outcome' = "filtered"
      BY <3>2 DEF DenialFollowed, Executed
    <3>3. CASE /\ at' = "decided" /\ outcome' = "none" /\ call' = c
               /\ decision' = Decide(mode, rules, grants, c.tool, c.target)
      <4>1. Denied' => decision' = "deny"
        BY <2>1, <3>3, DenialIsDecided DEF Denied
      <4> QED BY <3>3, <4>1 DEF DenialFollowed, Executed
    <3> QED BY <3>1, <3>2, <3>3
  <2>3. ASSUME UNCHANGED call
        PROVE  Denied' <=> Denied
    BY <2>1, <2>3 DEF Denied
  <2>4. CASE Hook
    BY <2>3, <2>4 DEF Hook, DenialFollowed, Executed
  <2>5. CASE Dispatch
    <3>1. at = "prepared" /\ UNCHANGED call
      BY <2>5 DEF Dispatch
    <3>2. decision \in {"allow", "unresolved"} => ~Denied
      BY <3>1 DEF DenialFollowed
    <3>3. CASE decision = "deny"
      BY <2>5, <3>3 DEF Dispatch, DenialFollowed, Executed
    <3>4. CASE decision # "deny"
      <4>1. ~Denied'
        BY <2>3, <2>5, <3>1, <3>2, <3>4 DEF Dispatch
      <4> QED BY <4>1 DEF DenialFollowed
    <3> QED BY <3>3, <3>4
  <2>6. ASSUME NEW said \in {"no", "once", "always"}, Answer(said)
        PROVE  DenialFollowed'
    <3>1. at = "asking" /\ UNCHANGED call
      BY <2>6 DEF Answer
    <3>2. ~Denied'
      BY <2>3, <3>1 DEF DenialFollowed
    <3> QED BY <3>2 DEF DenialFollowed
  <2>7. CASE Review
    BY <2>7 DEF Review, DenialFollowed, Executed
  <2>8. CASE SaveSession
    BY <2>3, <2>8 DEF SaveSession, DenialFollowed
  <2>9. CASE Resume
    BY <2>9 DEF Resume, DenialFollowed, Executed
  <2>10. CASE UNCHANGED vars
    BY <2>3, <2>10 DEF vars, DenialFollowed
  <2> QED BY <2>2, <2>4, <2>5, <2>6, <2>7, <2>8, <2>9, <2>10 DEF Next
<1>3. DenialFollowed => DeniedNeverRuns
  BY DEF DenialFollowed, DeniedNeverRuns, Denied
<1> QED BY <1>1, <1>2, <1>3, PTL DEF Spec

-----------------------------------------------------------------------------
(* Nothing that needs approval runs without leave.  A grant is always one   *)
(* that the human gave for its own tool, in this run or in the one whose    *)
(* session was resumed, and no kind has the name of a tool that needs one.  *)

Said == {"none", "once", "always"}

\* A grant that the human gave.
Given(g) == answers[g] # "none" /\ NeedsApproval(g.tool)

\* Leave that is there before the call is dispatched.
Leave ==
  \/ mode = "yolo" \/ ~NeedsApproval(call.tool)
  \/ RuleFor(rules, call.tool, call.target) = "allow"
  \/ HumanAllowed(call)

GrantsInv ==
  /\ call \in Calls /\ grants \subseteq Calls
  /\ answers \in [Calls -> Said]
  /\ granted \in [Tools -> Targets \cup {NoGrant}]
  /\ saved \in [Tools -> Targets \cup {NoGrant}]
  /\ \A g \in grants : Given(g)
  /\ \A g \in Calls : granted[g.tool] = g.target \/ saved[g.tool] = g.target => Given(g)

LeaveInv ==
  /\ at \in {"decided", "prepared"} =>
       /\ decision = "allow" => Leave
       /\ decision = "unresolved" => NeedsApproval(call.tool)
  /\ at = "asking" => NeedsApproval(call.tool)
  /\ outcome \in Executed =>
       Leave \/ (mode = "auto" /\ AutoClassify(call.tool, call.target) = "allow")

\* What the decision rests on.
LEMMA DecisionHasLeave ==
  ASSUME GrantsInv, NEW c \in Calls, NEW said, said = Decide(mode, rules, grants, c.tool, c.target)
  PROVE  /\ said = "allow" =>
              \/ mode = "yolo" \/ ~NeedsApproval(c.tool)
              \/ RuleFor(rules, c.tool, c.target) = "allow"
              \/ HumanAllowed(c)
         /\ said = "unresolved" => NeedsApproval(c.tool)
<1>1. ASSUME Granted(grants, c.tool, c.target), NeedsApproval(c.tool)
      PROVE  HumanAllowed(c)
  <2>1. PICK g \in grants : g.tool \in {c.tool, ToolKind(c.tool)} /\ c.target \in Covers[g.target]
    BY <1>1 DEF Granted
  <2>2. g \in Calls /\ answers[g] # "none" /\ NeedsApproval(g.tool)
    BY <2>1 DEF GrantsInv, Given
  <2>3. g.tool = c.tool
    <3>1. ToolKind(c.tool) \in {"edit", "bash", "read", "web", "skill", c.tool}
      BY DEF ToolKind
    <3>2. ~NeedsApproval("edit") /\ ~NeedsApproval("bash") /\ ~NeedsApproval("read")
          /\ ~NeedsApproval("web") /\ ~NeedsApproval("skill")
      BY DEF NeedsApproval, EditTools
    <3> QED BY <2>1, <2>2, <3>1, <3>2
  <2> QED BY <2>1, <2>2, <2>3 DEF HumanAllowed
<1>2. CASE mode = "yolo" \/ Free(rules, c.tool)
  BY <1>2 DEF Decide, Free
<1>3. CASE ~(mode = "yolo" \/ Free(rules, c.tool))
  <2>1. CASE RuleFor(rules, c.tool, c.target) \in {"allow", "deny"}
    BY <1>3, <2>1 DEF Decide
  <2>2. CASE RuleFor(rules, c.tool, c.target) \notin {"allow", "deny"}
    <3>1. said = IF NeedsApproval(c.tool) /\ ~Granted(grants, c.tool, c.target)
                   THEN "unresolved" ELSE "allow"
      BY <1>3, <2>2 DEF Decide
    <3> QED BY <1>1, <3>1
  <2> QED BY <2>1, <2>2
<1> QED BY <1>2, <1>3

\* Where the answers stay, what was given stays so, and leave with it.
LEMMA LeaveStays ==
  ASSUME UNCHANGED <<config, answers, call>>
  PROVE  /\ Leave' <=> Leave
         /\ \A g : Given(g)' <=> Given(g)
BY DEF Leave, Given, HumanAllowed, config

\* A step that leaves the grants and the answers alone.
LEMMA GrantsStay ==
  ASSUME GrantsInv, UNCHANGED <<grants, granted, answers>>, call' \in Calls,
         saved' \in {saved, granted}
  PROVE  GrantsInv'
BY DEF GrantsInv, Given

LEMMA GrantsStep == ASSUME GrantsInv, LeaveInv, [Next]_vars PROVE GrantsInv'
<1>1. ASSUME NEW c \in Calls, Call(c) PROVE GrantsInv'
  BY <1>1, GrantsStay DEF Call, session, history
<1>2. CASE Hook \/ Dispatch \/ Review \/ UNCHANGED vars
  BY <1>2, GrantsStay DEF Hook, Dispatch, Review, vars, session, history, GrantsInv
<1>3. CASE SaveSession
  BY <1>3, GrantsStay DEF SaveSession, GrantsInv
<1>4. CASE Resume
  <2>1. grants' = {c \in Calls : saved[c.tool] = c.target} /\ granted' = saved
        /\ UNCHANGED <<saved, call>>
        /\ answers' = [c \in Calls |-> IF c \in unsaved /\ saved[c.tool] # c.target
                                       THEN "none" ELSE answers[c]]
    BY <1>4 DEF Resume
  <2>2. answers' \in [Calls -> Said]
    BY <2>1 DEF GrantsInv, Said
  <2>3. \A g \in Calls : saved[g.tool] = g.target => answers'[g] # "none" /\ NeedsApproval(g.tool)
    BY <2>1 DEF GrantsInv, Given
  <2> QED BY <2>1, <2>2, <2>3 DEF GrantsInv, Given
<1>5. ASSUME NEW said \in {"no", "once", "always"}, Answer(said)
      PROVE  GrantsInv'
  <2>1. NeedsApproval(call.tool) /\ UNCHANGED <<saved, call>>
    BY <1>5 DEF Answer, LeaveInv
  <2>2. CASE said = "no"
    BY <1>5, <2>1, <2>2, GrantsStay DEF Answer, history, GrantsInv
  <2>3. CASE said # "no"
    <3>1. /\ grants' = grants \cup {[tool |-> call.tool, target |-> call.target]}
          /\ granted' = [granted EXCEPT ![call.tool] = call.target]
          /\ answers' = [answers EXCEPT ![call] = said]
      BY <1>5, <2>3 DEF Answer, GrantFor
    <3>2. call \in Calls /\ call.tool \in Tools /\ call.target \in Targets
          /\ [tool |-> call.tool, target |-> call.target] = call
      BY DEF GrantsInv, Calls
    <3>3. answers' \in [Calls -> Said] /\ granted' \in [Tools -> Targets \cup {NoGrant}]
      BY <2>3, <3>1, <3>2 DEF GrantsInv, Said
    <3>4. \A g \in Calls : answers'[g] = IF g = call THEN said ELSE answers[g]
      BY <3>1 DEF GrantsInv
    <3>5. \A g \in Calls : Given(g) \/ g = call => Given(g)'
      BY <2>1, <2>3, <3>4 DEF Given
    <3>6. grants' \subseteq Calls /\ \A g \in grants' : Given(g)'
      BY <3>1, <3>2, <3>5 DEF GrantsInv
    <3>7. ASSUME NEW g \in Calls, granted'[g.tool] = g.target \/ saved'[g.tool] = g.target
          PROVE  Given(g)'
      <4>1. g.tool \in Tools /\ g = [tool |-> g.tool, target |-> g.target]
        BY DEF Calls
      <4>2. CASE g.tool = call.tool /\ granted'[g.tool] = g.target
        <5>1. granted'[g.tool] = call.target
          BY <3>1, <3>2, <4>1, <4>2 DEF GrantsInv
        <5> QED BY <3>2, <3>5, <4>1, <4>2, <5>1
      <4>3. CASE g.tool # call.tool /\ granted'[g.tool] = g.target
        BY <3>1, <3>5, <4>1, <4>3 DEF GrantsInv
      <4>4. CASE saved'[g.tool] = g.target
        BY <2>1, <3>5, <4>4 DEF GrantsInv
      <4> QED BY <3>7, <4>2, <4>3, <4>4
    <3> QED BY <2>1, <3>2, <3>3, <3>6, <3>7 DEF GrantsInv
  <2> QED BY <2>2, <2>3
<1> QED BY <1>1, <1>2, <1>3, <1>4, <1>5 DEF Next

LEMMA LeaveStep == ASSUME GrantsInv, LeaveInv, [Next]_vars PROVE LeaveInv'
<1>0. UNCHANGED config
  BY ConfigurationStays
<1>1. ASSUME NEW c \in Calls, Call(c) PROVE LeaveInv'
  <2>1. CASE at' = "idle" /\ outcome' = "filtered"
    BY <2>1 DEF LeaveInv, Executed
  <2>2. CASE /\ at' = "decided" /\ outcome' = "none"
             /\ decision' = Decide(mode, rules, grants, c.tool, c.target)
    <3>1. call' = c /\ UNCHANGED <<answers, mode, rules>>
      BY <1>0, <1>1 DEF Call, history, config
    <3>2. HumanAllowed(c) => HumanAllowed(call)'
      BY <3>1 DEF HumanAllowed
    <3>3. /\ decision' = "allow" => Leave'
          /\ decision' = "unresolved" => NeedsApproval(call'.tool)
      BY <2>2, <3>1, <3>2, DecisionHasLeave DEF Leave
    <3> QED BY <2>2, <3>3 DEF LeaveInv, Executed
  <2> QED BY <1>1, <2>1, <2>2 DEF Call
<1>2. CASE Hook
  <2>1. at = "decided" /\ UNCHANGED <<call, answers, decision>>
    BY <1>2 DEF Hook, history
  <2>2. Leave' <=> Leave
    BY <1>0, <2>1, LeaveStays
  <2>3. \/ at' = "idle" /\ outcome' = "blocked"
        \/ at' = "prepared" /\ outcome' = outcome
    BY <1>2 DEF Hook
  <2>4. CASE at' = "idle" /\ outcome' = "blocked"
    BY <2>4 DEF LeaveInv, Executed
  <2>5. CASE at' = "prepared" /\ outcome' = outcome
    BY <1>0, <2>1, <2>2, <2>5 DEF LeaveInv, config
  <2> QED BY <2>3, <2>4, <2>5
<1>3. CASE Dispatch
  <2>1. at = "prepared" /\ UNCHANGED <<call, answers, decision, mode>>
    BY <1>0, <1>3 DEF Dispatch, history, config
  <2>2. Leave' <=> Leave
    BY <1>0, <2>1, LeaveStays
  <2>3. CASE decision = "allow"
    BY <1>3, <2>1, <2>2, <2>3 DEF Dispatch, LeaveInv
  <2>4. CASE decision = "deny"
    BY <1>3, <2>4 DEF Dispatch, LeaveInv, Executed
  <2>5. CASE decision = "unresolved"
    <3>1. NeedsApproval(call'.tool)
      BY <2>1, <2>5 DEF LeaveInv
    <3>2. CASE mode = "ask"
      BY <1>3, <2>1, <2>2, <2>5, <3>1, <3>2 DEF Dispatch, LeaveInv, Executed
    <3>3. CASE mode = "auto"
      BY <1>3, <2>1, <2>2, <2>5, <3>1, <3>3 DEF Dispatch, LeaveInv, Executed
    <3> QED BY <1>3, <2>5, <3>2, <3>3 DEF Dispatch
  <2> QED BY <1>3, <2>3, <2>4, <2>5 DEF Dispatch
<1>4. ASSUME NEW said \in {"no", "once", "always"}, Answer(said)
      PROVE  LeaveInv'
  <2>1. at' = "idle" /\ UNCHANGED call
    BY <1>4 DEF Answer
  <2>2. CASE said = "no"
    BY <1>4, <2>1, <2>2 DEF Answer, LeaveInv, Executed
  <2>3. CASE said # "no"
    <3>1. call \in Calls /\ answers' = [answers EXCEPT ![call] = said]
      BY <1>4, <2>3 DEF Answer, GrantsInv
    <3>2. answers'[call] # "none"
      BY <2>3, <3>1 DEF GrantsInv
    <3>3. HumanAllowed(call)'
      BY <2>1, <3>1, <3>2 DEF HumanAllowed
    <3> QED BY <2>1, <3>3 DEF LeaveInv, Leave
  <2> QED BY <2>2, <2>3
<1>5. CASE Review \/ Resume
  BY <1>5 DEF Review, Resume, LeaveInv, Executed
<1>6. CASE SaveSession \/ UNCHANGED vars
  BY <1>0, <1>6, LeaveStays DEF SaveSession, vars, history, LeaveInv, config
<1> QED BY <1>1, <1>2, <1>3, <1>4, <1>5, <1>6 DEF Next

\* A tool that needs approval runs only with leave, in any session.
THEOREM NothingWithoutLeave == Spec => []NeedsLeave
<1> DEFINE Inv == GrantsInv /\ LeaveInv
<1>1. Init => Inv
  <2> SUFFICES ASSUME Init PROVE Inv
    OBVIOUS
  <2>1. Start \in Calls
    <3>1. PICK tool \in Tools, aim \in Targets : TRUE
      BY GateAssumption
    <3>2. [tool |-> tool, target |-> aim] \in Calls
      BY DEF Calls
    <3> QED BY <3>2 DEF Start
  <2>2. \A g \in Calls : g.target # NoGrant /\ g.tool \in Tools
    BY GateAssumption DEF Calls
  <2>3. GrantsInv
    BY <2>1, <2>2 DEF Init, GrantsInv, Said
  <2> QED BY <2>3 DEF Init, LeaveInv, Executed
<1>2. Inv /\ [Next]_vars => Inv'
  BY GrantsStep, LeaveStep
<1>3. Inv => NeedsLeave
  BY DEF LeaveInv, NeedsLeave, Leave
<1> QED BY <1>1, <1>2, <1>3, PTL DEF Spec

-----------------------------------------------------------------------------
(* Proof that an answer is one stream, for any number of rounds, attempts   *)
(* and events.  While a stream delivers, all that was heard is of this      *)
(* attempt, for the request dropped what an earlier one had left; and tools *)
(* run only for an attempt that ended.                                      *)

\* All of these pieces came from one stream.
AllOf(pieces, a) == \A k \in DOMAIN pieces : pieces[k] = a

\* A message of one of these streams.
OneStream(message, streams) ==
  \E a \in streams : AllOf(message.text, a) /\ AllOf(message.calls, a)

HeardInv ==
  /\ text \in Seq(Nat \X Nat) /\ calls \in Seq(Nat \X Nat)
  /\ step \in Nat /\ consumed \in Nat
  /\ runAt \in {"stream", "tools"} => AllOf(text, R!Attempt) /\ AllOf(calls, R!Attempt)
  /\ runAt = "tools" => R!Attempt \in whole
KeptInv ==
  /\ transcript \in Seq([text : Seq(Nat \X Nat), calls : Seq(Nat \X Nat)])
  /\ ran \in Seq(Nat \X Nat)
  /\ \A i \in DOMAIN transcript : OneStream(transcript[i], whole)
  /\ \A k \in DOMAIN ran : ran[k] \in whole
StreamInv == HeardInv /\ KeptInv

\* One piece more of the same stream.
LEMMA AppendOfOne ==
  ASSUME NEW s \in Seq(Nat \X Nat), NEW a \in Nat \X Nat, AllOf(s, a)
  PROVE  Append(s, a) \in Seq(Nat \X Nat) /\ AllOf(Append(s, a), a)
BY DEF AllOf

\* More streams that ended, the same messages.
LEMMA KeptStays ==
  ASSUME KeptInv, UNCHANGED R!kept, whole \subseteq whole'
  PROVE  KeptInv'
<1>1. \A i \in DOMAIN transcript : OneStream(transcript[i], whole')
  BY DEF KeptInv, OneStream
<1> QED BY <1>1 DEF KeptInv, R!kept

\* A step that hears nothing and leaves the round where it is.
LEMMA HeardStays ==
  ASSUME HeardInv, UNCHANGED <<text, calls, step>>, consumed' \in Nat,
         runAt' \notin {"stream", "tools"}
  PROVE  HeardInv'
BY DEF HeardInv

LEMMA StreamStep == ASSUME StreamInv, [R!Next]_(R!vars) PROVE StreamInv'
<1> USE DEF StreamInv
<1>1. CASE R!Round
  <2>1. KeptInv'
    BY <1>1, KeptStays DEF R!Round, R!kept
  <2>2. runAt' \notin {"stream", "tools"} /\ UNCHANGED <<text, calls>>
    BY <1>1 DEF R!Round, R!stream
  <2>3. step' \in Nat /\ consumed' \in Nat
    BY <1>1 DEF R!Round, HeardInv
  <2> QED BY <2>1, <2>2, <2>3 DEF HeardInv
<1>2. CASE R!Send
  <2>1. KeptInv'
    BY <1>2, KeptStays DEF R!Send, R!kept, R!history
  <2>2. text' = <<>> /\ calls' = <<>> /\ runAt' = "stream" /\ UNCHANGED <<step, consumed>>
    BY <1>2 DEF R!Send
  <2> QED BY <2>1, <2>2 DEF HeardInv, AllOf
<1>3. CASE R!Chunk
  <2>1. KeptInv'
    BY <1>3, KeptStays DEF R!Chunk, R!kept, R!history
  <2>2. runAt = "stream" /\ UNCHANGED <<runAt, step, consumed>>
    BY <1>3 DEF R!Chunk
  <2>3. R!Attempt \in Nat \X Nat /\ R!Attempt' = R!Attempt
    BY <2>2 DEF HeardInv, R!Attempt
  <2>4. AllOf(text, R!Attempt) /\ AllOf(calls, R!Attempt)
    BY <2>2 DEF HeardInv
  <2>5. \/ text' = Append(text, R!Attempt) /\ calls' = calls
        \/ calls' = Append(calls, R!Attempt) /\ text' = text
    BY <1>3 DEF R!Chunk
  <2>6. /\ text' \in Seq(Nat \X Nat) /\ AllOf(text', R!Attempt)
        /\ calls' \in Seq(Nat \X Nat) /\ AllOf(calls', R!Attempt)
    BY <2>3, <2>4, <2>5, AppendOfOne DEF HeardInv
  <2> QED BY <2>1, <2>2, <2>3, <2>6 DEF HeardInv
<1>4. CASE R!Pause
  <2>1. KeptInv'
    BY <1>4, KeptStays DEF R!Pause, R!kept, R!history
  <2> QED BY <1>4, <2>1, HeardStays DEF R!Pause, R!stream, HeardInv
<1>5. CASE R!StreamEnd
  <2>1. runAt = "stream" /\ UNCHANGED <<step, consumed, text, ran>> /\ whole' = whole \cup {R!Attempt}
    BY <1>5 DEF R!StreamEnd
  <2>2. R!Attempt \in Nat \X Nat /\ R!Attempt' = R!Attempt
    BY <2>1 DEF HeardInv, R!Attempt
  <2>3. AllOf(text, R!Attempt) /\ AllOf(calls, R!Attempt)
    BY <2>1 DEF HeardInv
  <2>4. calls' = calls \/ calls' = <<R!Attempt>>
    BY <1>5 DEF R!StreamEnd
  <2>5. calls' \in Seq(Nat \X Nat) /\ AllOf(calls', R!Attempt)
    <3>1. CASE calls' = calls
      BY <3>1, <2>3 DEF HeardInv
    <3>2. CASE calls' = <<R!Attempt>>
      <4> HIDE DEF R!Attempt
      <4>1. <<R!Attempt>> \in Seq(Nat \X Nat) /\ DOMAIN <<R!Attempt>> = {1} /\ <<R!Attempt>>[1] = R!Attempt
        BY <2>2
      <4> QED BY <3>2, <4>1 DEF AllOf
    <3> QED BY <2>4, <3>1, <3>2
  <2>6. HeardInv'
    BY <2>1, <2>2, <2>3, <2>5 DEF HeardInv
  <2> DEFINE message == [text |-> text, calls |-> calls']
  <2>7. OneStream(message, whole')
    BY <2>1, <2>3, <2>5 DEF OneStream
  <2>8. \A i \in DOMAIN transcript : OneStream(transcript[i], whole')
    BY <2>1 DEF KeptInv, OneStream
  <2>9. transcript' = transcript \/ transcript' = Append(transcript, message)
    BY <1>5 DEF R!StreamEnd
  <2>10. message \in [text : Seq(Nat \X Nat), calls : Seq(Nat \X Nat)]
    BY <2>5 DEF HeardInv
  <2> HIDE DEF message
  <2>11. /\ transcript' \in Seq([text : Seq(Nat \X Nat), calls : Seq(Nat \X Nat)])
         /\ \A i \in DOMAIN transcript' : OneStream(transcript'[i], whole')
    <3>1. CASE transcript' = transcript
      BY <3>1, <2>8 DEF KeptInv
    <3>2. CASE transcript' = Append(transcript, message)
      <4>1. /\ transcript' \in Seq([text : Seq(Nat \X Nat), calls : Seq(Nat \X Nat)])
            /\ DOMAIN transcript' = 1 .. Len(transcript) + 1
        BY <3>2, <2>10 DEF KeptInv
      <4>2. ASSUME NEW i \in DOMAIN transcript'
            PROVE  \/ transcript'[i] = message
                   \/ i \in DOMAIN transcript /\ transcript'[i] = transcript[i]
        <5>1. transcript \in Seq([text : Seq(Nat \X Nat), calls : Seq(Nat \X Nat)])
          BY DEF KeptInv
        <5>2. i \in 1 .. Len(transcript) + 1
          BY <4>1, <4>2
        <5>3. CASE i = Len(transcript) + 1
          BY <3>2, <5>1, <5>3
        <5>4. CASE i \in 1 .. Len(transcript)
          BY <3>2, <5>1, <5>4
        <5> QED BY <5>1, <5>2, <5>3, <5>4
      <4> QED BY <4>1, <4>2, <2>7, <2>8
    <3> QED BY <2>9, <3>1, <3>2
  <2>12. \A k \in DOMAIN ran' : ran'[k] \in whole'
    BY <2>1 DEF KeptInv
  <2> QED BY <2>1, <2>6, <2>11, <2>12 DEF KeptInv
<1>6. CASE R!RunTools
  <2>1. runAt = "tools" /\ runAt' = "round" /\ ran' = ran \o calls
        /\ UNCHANGED <<text, calls, step, consumed, transcript, whole>>
    BY <1>6 DEF R!RunTools, R!stream, R!history
  <2>2. HeardInv'
    BY <2>1, HeardStays DEF HeardInv
  <2>3. ran' \in Seq(Nat \X Nat)
    BY <2>1 DEF HeardInv, KeptInv
  <2>4. ASSUME NEW k \in DOMAIN ran'
        PROVE  ran'[k] \in whole
    <3>1. CASE k \in DOMAIN ran
      BY <3>1, <2>1 DEF HeardInv, KeptInv
    <3>2. CASE k \notin DOMAIN ran
      <4>1. k - Len(ran) \in DOMAIN calls /\ ran'[k] = calls[k - Len(ran)]
        BY <3>2, <2>1, <2>4 DEF HeardInv, KeptInv
      <4> QED BY <4>1, <2>1 DEF HeardInv, AllOf
    <3> QED BY <3>1, <3>2
  <2> QED BY <2>1, <2>2, <2>3, <2>4 DEF KeptInv
<1>7. ASSUME NEW c \in R!Causes, NEW s \in RetryAfters \cup {NoSeconds}, R!StreamError(c, s)
      PROVE  StreamInv'
  <2>1. KeptInv'
    BY <1>7, KeptStays DEF R!StreamError, R!kept
  <2>2. runAt' \in {"pause", "failed"} /\ UNCHANGED <<text, calls, step>>
    BY <1>7 DEF R!StreamError, R!stream
  <2>3. consumed' \in {consumed, consumed + 1}
    BY <1>7 DEF R!StreamError
  <2> QED BY <2>1, <2>2, <2>3, HeardStays DEF HeardInv
<1>8. CASE UNCHANGED R!vars
  BY <1>8, KeptStays DEF R!vars, R!stream, R!kept, R!history, HeardInv, R!Attempt
<1> QED BY <1>1, <1>2, <1>3, <1>4, <1>5, <1>6, <1>7, <1>8 DEF R!Next

\* What the run keeps is one answer, whole, however often streams break off.
THEOREM AnswersAreWhole == R!Spec => []AnswerIsOneStream
<1>1. R!Init => StreamInv
  BY DEF R!Init, StreamInv, HeardInv, KeptInv
<1>2. StreamInv => AnswerIsOneStream
  BY DEF StreamInv, KeptInv, AnswerIsOneStream, R!AnswerIsOneStream, OneStream, AllOf
<1> QED BY <1>1, <1>2, StreamStep, PTL DEF R!Spec

-----------------------------------------------------------------------------
(* Chains of values, each made from the one before it.                     *)

Less == {p \in Nat \X Nat : p[1] < p[2]}

\* A set of numbers has a smallest one.
LEMMA FirstOfAny ==
  ASSUME NEW set, set \subseteq Nat, set # {}
  PROVE  \E k \in set : \A j \in set : k <= j
<1>1. IsWellFoundedOn(Less, Nat)
  BY NatLessThanWellFounded DEF OpToRel, Less
<1>2. IsWellFoundedOn(Less, set)
  BY <1>1, IsWellFoundedOnSubset
<1>3. PICK k \in set : \A j \in set : ~(<<j, k>> \in Less)
  BY <1>2, WFMin
<1>4. \A j \in set : ~(j < k)
  BY <1>3 DEF Less
<1> QED BY <1>4

-----------------------------------------------------------------------------
(* Proof that an answer arrives as it was sent, of an OpenAI or an Anthropic *)
(* endpoint, for answers of any length and any interleaving of their calls.  *)
(* Calls open in the order of their index; each has a name, and arguments    *)
(* whose text is not empty.                                                  *)

WholeCalls ==
  /\ InOrder = TRUE
  /\ \A a \in Answers : \A i \in DOMAIN a.calls : a.calls[i].name # "" /\ a.calls[i].args # 0

\* The calls that the listener knows.
Known == Len(listening.order)

ListeningInv ==
  /\ listening = [text |-> listening.text, order |-> listening.order,
                  calls |-> listening.calls, tokens |-> listening.tokens]
  /\ listening.order \in Seq(Nat) /\ Known <= Len(answer.calls)
  /\ \A k \in 1 .. Known : listening.order[k] = k
  /\ listening.calls = [k \in 1 .. Known |-> listening.calls[k]]
  /\ listening.text = sent.text

SentInv ==
  /\ sent = [text |-> sent.text, usage |-> sent.usage, args |-> sent.args, closed |-> sent.closed]
  /\ sent.args \in [S!Calls -> Int] /\ sent.closed \in [S!Calls -> BOOLEAN]
  /\ \A i \in S!Calls : S!Opened(i) <=> i <= Known
  /\ \A i \in S!Calls : S!Opened(i) => sent.args[i] \in Nat
  /\ \A i \in S!Calls : S!Closed(i) => sent.args[i] = answer.calls[i].args

\* The slot of a call as far as it was sent.
SlotOf(i) == S!Slot(i, answer.calls[i].id, answer.calls[i].name, sent.args[i])

OpenAiInv == slots = [k \in 1 .. Known |-> SlotOf(k)]

AnthropicInv ==
  /\ \A i \in S!Calls : S!Closed(i) => listening.calls[i] = S!AsSent(i)
  /\ \A i \in S!Calls : S!Opened(i) /\ ~S!Closed(i) => i = Known /\ slots = <<SlotOf(i)>>
  /\ (\A i \in S!Calls : S!Opened(i) => S!Closed(i)) => slots = <<>>

Arriving ==
  /\ SentInv /\ ListeningInv
  /\ dialect = "openai" => OpenAiInv
  /\ dialect = "anthropic" => AnthropicInv

WireInv ==
  /\ answer \in Answers /\ dialect \in {"openai", "anthropic", "sdk"}
  /\ dialect # "sdk" /\ ending = "no" => Arriving
  /\ S!AnswerIsAsSent

\* The calls of an answer.
LEMMA CallsAre ==
  ASSUME answer \in Answers, S!StreamAssumption
  PROVE  /\ Len(answer.calls) \in Nat /\ S!Calls = 1 .. Len(answer.calls)
         /\ \A i \in S!Calls : answer.calls[i].args \in Nat
<1>1. answer.calls \in Seq([id : Seq(STRING), name : STRING, args : Nat])
  BY DEF S!StreamAssumption
<1>2. \A c \in Seq([id : Seq(STRING), name : STRING, args : Nat]) :
        Len(c) \in Nat /\ DOMAIN c = 1 .. Len(c) /\ \A i \in DOMAIN c : c[i].args \in Nat
  <2> DEFINE Shape == [id : Seq(STRING), name : STRING, args : Nat]
  <2>1. \A shape \in Shape : shape.args \in Nat
    OBVIOUS
  <2> HIDE DEF Shape
  <2>2. ASSUME NEW c \in Seq(Shape)
        PROVE  Len(c) \in Nat /\ DOMAIN c = 1 .. Len(c) /\ \A i \in DOMAIN c : c[i] \in Shape
    OBVIOUS
  <2>3. \A c \in Seq(Shape) :
          Len(c) \in Nat /\ DOMAIN c = 1 .. Len(c) /\ \A i \in DOMAIN c : c[i].args \in Nat
    BY <2>1, <2>2
  <2> QED BY <2>3 DEF Shape
<1>3. S!Calls = DOMAIN answer.calls
  BY DEF S!Calls
<1> QED BY <1>1, <1>2, <1>3

\* Two chains that begin alike and go on alike are alike.
LEMMA SameChain ==
  ASSUME NEW n \in Nat, NEW f, NEW g, f[0] = g[0],
         \A k \in 1 .. n : f[k - 1] = g[k - 1] => f[k] = g[k]
  PROVE  \A k \in 0 .. n : f[k] = g[k]
<1> DEFINE Bad == {k \in 0 .. n : f[k] # g[k]}
<1> SUFFICES ASSUME Bad # {} PROVE FALSE
  OBVIOUS
<1>1. PICK k \in Bad : \A j \in Bad : k <= j
  <2>1. Bad \subseteq Nat
    OBVIOUS
  <2> HIDE DEF Bad
  <2> QED BY <2>1, FirstOfAny
<1>2. k \in 1 .. n
  BY <1>1
<1>3. k - 1 \notin Bad /\ k - 1 \in 0 .. n
  <2>1. ~(k <= k - 1) /\ k - 1 \in 0 .. n
    BY <1>2
  <2> HIDE DEF Bad
  <2> QED BY <1>1, <2>1
<1> QED BY <1>1, <1>2, <1>3

\* The listener hears the events of a chain one after the other.
IsHeard(f, h, events) ==
  f = [k \in 0 .. Len(events) |-> IF k = 0 THEN h ELSE S!AgentHears(f[k - 1], events[k])]

\* The same, place by place.
Goes(g, h, events) ==
  /\ g = [k \in 0 .. Len(events) |-> g[k]]
  /\ g[0] = h
  /\ \A k \in 1 .. Len(events) : g[k] = S!AgentHears(g[k - 1], events[k])

LEMMA HearsAll ==
  ASSUME NEW events, Len(events) \in Nat, S!Hear(events), NEW g, Goes(g, listening, events)
  PROVE  listening' = g[Len(events)]
<1>1. listening' = (CHOOSE x : IsHeard(x, listening, events))[Len(events)]
  BY Zenon DEF S!Hear, IsHeard
<1>2. \A k \in 0 .. Len(events) : g[k] = IF k = 0 THEN listening ELSE S!AgentHears(g[k - 1], events[k])
  BY DEF Goes
<1>3. IsHeard(g, listening, events)
  BY <1>2, Zenon DEF IsHeard, Goes
<1>4. PICK f : IsHeard(f, listening, events) /\ listening' = f[Len(events)]
  BY <1>1, <1>3, Zenon
<1>5. PICK n \in Nat : n = Len(events)
  OBVIOUS
<1>6. \A k \in 0 .. n : f[k] = IF k = 0 THEN listening ELSE S!AgentHears(f[k - 1], events[k])
  BY <1>4, <1>5, Zenon DEF IsHeard
<1>7. f[0] = g[0]
  <2>1. 0 \in 0 .. n
    OBVIOUS
  <2> QED BY <1>2, <1>5, <1>6, <2>1
<1>8. \A k \in 1 .. n : f[k - 1] = g[k - 1] => f[k] = g[k]
  <2> SUFFICES ASSUME NEW k \in 1 .. n, f[k - 1] = g[k - 1] PROVE f[k] = g[k]
    OBVIOUS
  <2>1. k \in 0 .. n /\ k # 0
    OBVIOUS
  <2> QED BY <1>2, <1>5, <1>6, <2>1
<1>9. \A k \in 0 .. n : f[k] = g[k]
  <2>1. ASSUME NEW m \in Nat, \A k \in 1 .. m : f[k - 1] = g[k - 1] => f[k] = g[k] PROVE \A k \in 0 .. m : f[k] = g[k]
    BY <1>7, <2>1, SameChain
  <2> QED BY <1>8, <2>1
<1>10. n \in 0 .. n
  OBVIOUS
<1> QED BY <1>4, <1>5, <1>9, <1>10

LEMMA HearsNothing == ASSUME S!Hear(<<>>) PROVE listening' = listening
<1> DEFINE g == [k \in 0 .. 0 |-> listening]
<1>1. Len(<<>>) = 0 /\ g[0] = listening /\ g = [k \in 0 .. 0 |-> g[k]]
  OBVIOUS
<1> HIDE DEF g
<1>2. \A k \in 1 .. 0 : g[k] = S!AgentHears(g[k - 1], (<<>>)[k])
  OBVIOUS
<1>3. Goes(g, listening, <<>>)
  BY <1>1, <1>2 DEF Goes
<1> QED BY <1>1, <1>3, HearsAll

LEMMA HearsOne == ASSUME NEW e, S!Hear(<<e>>) PROVE listening' = S!AgentHears(listening, e)
<1> DEFINE g == [k \in 0 .. 1 |-> IF k = 0 THEN listening ELSE S!AgentHears(listening, e)]
<1>1. Len(<<e>>) = 1 /\ (<<e>>)[1] = e
  OBVIOUS
<1>2. g[0] = listening /\ g[1] = S!AgentHears(listening, e) /\ g = [k \in 0 .. 1 |-> g[k]]
  OBVIOUS
<1> HIDE DEF g
<1>3. \A k \in 1 .. 1 : g[k] = S!AgentHears(g[k - 1], (<<e>>)[k])
  <2> SUFFICES ASSUME NEW k \in 1 .. 1 PROVE g[k] = S!AgentHears(g[k - 1], (<<e>>)[k])
    OBVIOUS
  <2>1. k = 1 /\ k - 1 = 0
    OBVIOUS
  <2> QED BY <1>1, <1>2, <2>1
<1>4. Goes(g, listening, <<e>>)
  BY <1>1, <1>2, <1>3 DEF Goes
<1> QED BY <1>1, <1>2, <1>4, HearsAll

LEMMA HearsTwo ==
  ASSUME NEW d, NEW e, S!Hear(<<d, e>>)
  PROVE  listening' = S!AgentHears(S!AgentHears(listening, d), e)
<1> DEFINE one == S!AgentHears(listening, d)
           two == S!AgentHears(one, e)
           g == [k \in 0 .. 2 |-> IF k = 0 THEN listening ELSE IF k = 1 THEN one ELSE two]
<1>1. Len(<<d, e>>) = 2 /\ (<<d, e>>)[1] = d /\ (<<d, e>>)[2] = e
  OBVIOUS
<1> HIDE DEF one, two
<1>2. g[0] = listening /\ g[1] = one /\ g[2] = two /\ g = [k \in 0 .. 2 |-> g[k]]
  OBVIOUS
<1> HIDE DEF g
<1>3. \A k \in 1 .. 2 : g[k] = S!AgentHears(g[k - 1], (<<d, e>>)[k])
  <2> SUFFICES ASSUME NEW k \in 1 .. 2 PROVE g[k] = S!AgentHears(g[k - 1], (<<d, e>>)[k])
    OBVIOUS
  <2>1. CASE k = 1
    <3>1. k - 1 = 0
      BY <2>1
    <3> QED BY <1>1, <1>2, <2>1, <3>1 DEF one
  <2>2. CASE k = 2
    <3>1. k - 1 = 1
      BY <2>2
    <3> QED BY <1>1, <1>2, <2>2, <3>1 DEF two
  <2> QED BY <2>1, <2>2
<1>4. Goes(g, listening, <<d, e>>)
  BY <1>1, <1>2, <1>3 DEF Goes
<1>5. listening' = two
  BY <1>1, <1>2, <1>4, HearsAll
<1> QED BY <1>5 DEF one, two

-----------------------------------------------------------------------------
(* What the listener makes of each event.                                  *)

LEMMA ListenText == ASSUME ListeningInv PROVE S!AgentHears(listening, S!TextDelta) = [listening EXCEPT !.text = @ + 1]
BY DEF S!AgentHears, S!TextDelta

LEMMA ListenUsage ==
  ASSUME ListeningInv, NEW n
  PROVE  S!AgentHears(listening, S!Usage(n)) = [listening EXCEPT !.tokens = @ + n]
BY DEF S!AgentHears, S!Usage

\* Anything about a call that is known leaves the others, the order and the text.
SameBut(h, g, i) ==
  /\ g.text = h.text /\ g.order = h.order /\ g.tokens = h.tokens
  /\ g = [text |-> g.text, order |-> g.order, calls |-> g.calls, tokens |-> g.tokens]
  /\ g.calls = [k \in DOMAIN h.calls |-> g.calls[k]]
  /\ \A k \in DOMAIN h.calls : k # i => g.calls[k] = h.calls[k]

Listener(h) == h = [text |-> h.text, order |-> h.order, calls |-> h.calls, tokens |-> h.tokens]

LEMMA ListenDelta ==
  ASSUME NEW h, Listener(h), h.calls = [k \in DOMAIN h.calls |-> h.calls[k]], NEW i \in DOMAIN h.calls
  PROVE  SameBut(h, S!AgentHears(h, S!ArgDelta(i)), i)
<1>1. S!AgentHears(h, S!ArgDelta(i)) = [h EXCEPT !.calls[i].args = @ + 1]
  BY DEF S!AgentHears, S!ArgDelta
<1> QED BY <1>1 DEF SameBut, Listener

LEMMA ListenDone ==
  ASSUME NEW h, Listener(h), h.calls = [k \in DOMAIN h.calls |-> h.calls[k]], NEW i \in DOMAIN h.calls, NEW c
  PROVE  /\ SameBut(h, S!AgentHears(h, S!CallDone(i, c)), i)
         /\ S!AgentHears(h, S!CallDone(i, c)).calls[i] = c
<1>1. S!AgentHears(h, S!CallDone(i, c)) = [h EXCEPT !.calls[i] = c]
  BY DEF S!AgentHears, S!CallDone
<1> QED BY <1>1 DEF SameBut, Listener

\* What a listener has when a call was mentioned.
Mentioned(h, g, i) ==
  /\ Listener(g) /\ g.text = h.text
  /\ g.order = IF i \in DOMAIN h.calls THEN h.order ELSE Append(h.order, i)
  /\ g.calls = [k \in DOMAIN h.calls \cup {i} |-> g.calls[k]]
  /\ \A k \in DOMAIN h.calls : k # i => g.calls[k] = h.calls[k]

\* A call that is named: the next one, or one that is known and begins anew.
LEMMA StartMentions ==
  ASSUME NEW h, Listener(h), NEW i, NEW id, NEW name
  PROVE  Mentioned(h, S!AgentHears(h, S!CallStart(i, id, name)), i)
<1>1. S!AgentHears(h, S!CallStart(i, id, name)) =
        [h EXCEPT !.order = IF i \in DOMAIN h.calls THEN @ ELSE Append(@, i),
                  !.calls = S!At(@, i, S!Heard(id, name, 0, FALSE))]
  BY DEF S!AgentHears, S!CallStart
<1> DEFINE order == IF i \in DOMAIN h.calls THEN h.order ELSE Append(h.order, i)
           known == S!At(h.calls, i, S!Heard(id, name, 0, FALSE))
<1>2. S!AgentHears(h, S!CallStart(i, id, name)) =
        [text |-> h.text, order |-> order, calls |-> known, tokens |-> h.tokens]
  <2> HIDE DEF known
  <2> QED BY <1>1 DEF Listener, known
<1>3. /\ known = [k \in DOMAIN h.calls \cup {i} |-> known[k]]
      /\ \A k \in DOMAIN h.calls : k # i => known[k] = h.calls[k]
  BY DEF S!At
<1> HIDE DEF known, order
<1>4. Listener(S!AgentHears(h, S!CallStart(i, id, name)))
  BY <1>2 DEF Listener
<1> DEFINE g == S!AgentHears(h, S!CallStart(i, id, name))
<1>5. g.text = h.text /\ g.order = order /\ g.calls = known
  <2> HIDE DEF g
  <2>1. g = [text |-> h.text, order |-> order, calls |-> known, tokens |-> h.tokens]
    BY <1>2 DEF g
  <2> QED BY <2>1
<1> HIDE DEF g
<1>6. /\ g.calls = [k \in DOMAIN h.calls \cup {i} |-> g.calls[k]]
      /\ \A k \in DOMAIN h.calls : k # i => g.calls[k] = h.calls[k]
  BY <1>3, <1>5
<1>7. Listener(g)
  BY <1>4 DEF g
<1>8. Mentioned(h, g, i)
  BY <1>5, <1>6, <1>7, Zenon DEF order, Mentioned
<1> QED BY <1>8 DEF g

-----------------------------------------------------------------------------
(* Steps of the wire.                                                      *)

LEMMA SourceStays ==
  ASSUME S!Next
  PROVE  UNCHANGED <<provider, dialect, repeats, answer>>
BY DEF S!Next, S!Request, S!Text, S!ReportUsage, S!Error, S!End, S!SdkCall, S!BlockStart, S!BlockDelta,
       S!BlockStop, S!OpenAiCall, S!source

\* A step that tells nothing of a call.
LEMMA NothingOfCalls ==
  ASSUME Arriving, UNCHANGED <<answer, dialect, slots>>,
         sent' = [sent EXCEPT !.text = sent'.text, !.usage = sent'.usage],
         listening' = [listening EXCEPT !.text = sent'.text, !.tokens = listening'.tokens]
  PROVE  Arriving'
<1>1. /\ sent' = [text |-> sent'.text, usage |-> sent'.usage, args |-> sent.args, closed |-> sent.closed]
      /\ listening' = [text |-> sent'.text, order |-> listening.order,
                       calls |-> listening.calls, tokens |-> listening'.tokens]
  BY DEF Arriving, SentInv, ListeningInv
<1>2. /\ sent'.args = sent.args /\ sent'.closed = sent.closed
      /\ listening'.order = listening.order /\ listening'.calls = listening.calls
      /\ listening'.text = sent'.text
  BY <1>1
<1>3. /\ S!Calls' = S!Calls /\ Known' = Known
      /\ \A i \in S!Calls : (S!Opened(i)' <=> S!Opened(i)) /\ S!Closed(i)' = S!Closed(i)
      /\ \A i \in S!Calls : S!AsSent(i)' = S!AsSent(i)
      /\ \A i : SlotOf(i)' = SlotOf(i)
  BY <1>2 DEF S!Calls, Known, S!Opened, S!Closed, S!AsSent, SlotOf, S!Slot
<1>4. SentInv'
  BY <1>1, <1>2, <1>3 DEF Arriving, SentInv
<1>5. ListeningInv'
  BY <1>1, <1>2, <1>3 DEF Arriving, ListeningInv
<1>6. dialect' = "openai" => OpenAiInv'
  BY <1>3 DEF Arriving, OpenAiInv
<1>7. dialect' = "anthropic" => AnthropicInv'
  BY <1>2, <1>3 DEF Arriving, AnthropicInv
<1> QED BY <1>4, <1>5, <1>6, <1>7 DEF Arriving

LEMMA TextArrives == ASSUME Arriving, S!Text PROVE Arriving'
<1>1. sent' = [sent EXCEPT !.text = @ + 1] /\ S!Hear(<<S!TextDelta>>) /\ UNCHANGED <<answer, dialect, slots>>
  BY DEF S!Text, S!source
<1>2. listening' = [listening EXCEPT !.text = @ + 1]
  BY <1>1, HearsOne, ListenText DEF Arriving
<1> QED BY <1>1, <1>2, NothingOfCalls DEF Arriving, SentInv, ListeningInv

LEMMA UsageArrives == ASSUME Arriving, S!ReportUsage PROVE Arriving'
<1>1. /\ sent' = [sent EXCEPT !.usage = @ + 1] /\ S!Hear(<<S!Usage(sent.usage + 1)>>)
      /\ UNCHANGED <<answer, dialect, slots>>
  BY DEF S!ReportUsage, S!source
<1>2. listening' = [listening EXCEPT !.tokens = @ + (sent.usage + 1)]
  BY <1>1, HearsOne, ListenUsage DEF Arriving
<1> QED BY <1>1, <1>2, NothingOfCalls DEF Arriving, SentInv, ListeningInv

LEMMA DeltaMentions ==
  ASSUME NEW h, Listener(h), h.calls = [k \in DOMAIN h.calls |-> h.calls[k]], NEW i \in DOMAIN h.calls
  PROVE  Mentioned(h, S!AgentHears(h, S!ArgDelta(i)), i)
<1> DEFINE g == S!AgentHears(h, S!ArgDelta(i))
<1>1. SameBut(h, g, i)
  BY ListenDelta
<1> HIDE DEF g
<1>2. Mentioned(h, g, i)
  <2>1. DOMAIN h.calls \cup {i} = DOMAIN h.calls
    OBVIOUS
  <2>2. Listener(g) /\ g.text = h.text /\ g.order = h.order
    BY <1>1 DEF SameBut, Listener
  <2>3. /\ g.calls = [k \in DOMAIN h.calls \cup {i} |-> g.calls[k]]
        /\ \A k \in DOMAIN h.calls : k # i => g.calls[k] = h.calls[k]
    BY <1>1, <2>1 DEF SameBut
  <2> QED BY <2>2, <2>3 DEF Mentioned
<1> QED BY <1>2 DEF g

LEMMA MentionedTwice ==
  ASSUME NEW h, NEW g, NEW f, NEW i, Mentioned(h, g, i), Mentioned(g, f, i)
  PROVE  Mentioned(h, f, i)
<1>1. DOMAIN g.calls = DOMAIN h.calls \cup {i}
  BY Zenon DEF Mentioned
<1>2. DOMAIN g.calls \cup {i} = DOMAIN h.calls \cup {i} /\ i \in DOMAIN g.calls
  BY <1>1
<1>3. f.calls = [k \in DOMAIN h.calls \cup {i} |-> f.calls[k]]
  BY <1>2, Zenon DEF Mentioned
<1>4. Listener(f) /\ f.text = h.text /\ f.order = g.order
  BY <1>2, Zenon DEF Mentioned
<1>5. \A k \in DOMAIN h.calls : k # i => f.calls[k] = h.calls[k]
  BY <1>1, Zenon DEF Mentioned
<1> QED BY <1>3, <1>4, <1>5, Zenon DEF Mentioned

LEMMA TwoInOne == ASSUME NEW a, NEW b PROVE <<a>> \o <<b>> = <<a, b>>
<1> DEFINE both == <<a>> \o <<b>>
<1>1. <<a>> \in Seq({a, b}) /\ <<b>> \in Seq({a, b}) /\ <<a, b>> \in Seq({a, b})
  OBVIOUS
<1>2. Len(both) = 2 /\ both \in Seq({a, b})
  BY <1>1
<1>3. both[1] = a /\ both[2] = b
  BY <1>1
<1> HIDE DEF both
<1>4. \A k \in 1 .. Len(both) : both[k] = (<<a, b>>)[k]
  BY <1>2, <1>3
<1>5. Len(both) = Len(<<a, b>>)
  BY <1>2
<1>6. both = <<a, b>>
  BY <1>1, <1>2, <1>4, <1>5, SeqEqual
<1> QED BY <1>6 DEF both

\* What is heard of a chunk of a call.
LEMMA ChunkMentions ==
  ASSUME Listener(listening), listening.calls = [k \in DOMAIN listening.calls |-> listening.calls[k]],
         NEW i, NEW n \in 0 .. 1, NEW named \in BOOLEAN, NEW id, NEW name,
         named \/ i \in DOMAIN listening.calls,
         named \/ n = 1,
         S!Hear((IF named THEN <<S!CallStart(i, id, name)>> ELSE <<>>) \o [k \in 1 .. n |-> S!ArgDelta(i)])
  PROVE  Mentioned(listening, listening', i)
<1> DEFINE s == S!CallStart(i, id, name)
           d == S!ArgDelta(i)
<1>1. CASE named /\ n = 0
  <2> HIDE DEF s, d
  <2>1. <<s>> \o [k \in 1 .. n |-> d] = <<s>>
    <3>1. [k \in 1 .. n |-> d] = <<>>
      BY <1>1
    <3>2. <<s>> \in Seq({s})
      OBVIOUS
    <3> QED BY <3>1, <3>2, ConcatEmptySeq
  <2>2. S!Hear(<<s>>)
    BY <1>1, <2>1 DEF s, d
  <2>3. listening' = S!AgentHears(listening, s)
    BY <2>2, HearsOne
  <2> QED BY <2>3, StartMentions DEF s
<1>2. CASE named /\ n = 1
  <2> HIDE DEF s, d
  <2>1. <<s>> \o [k \in 1 .. n |-> d] = <<s, d>>
    <3>1. [k \in 1 .. n |-> d] = <<d>>
      BY <1>2
    <3> QED BY <3>1, TwoInOne
  <2>2. S!Hear(<<s, d>>)
    BY <1>2, <2>1 DEF s, d
  <2> DEFINE g == S!AgentHears(listening, s)
  <2>3. listening' = S!AgentHears(g, d)
    BY <2>2, HearsTwo
  <2>4. Mentioned(listening, g, i)
    BY StartMentions DEF s
  <2> HIDE DEF g
  <2>5. Listener(g) /\ i \in DOMAIN g.calls
    BY <2>4, Zenon DEF Mentioned
  <2>6. g.calls = [k \in DOMAIN g.calls |-> g.calls[k]]
    BY <2>4 DEF Mentioned
  <2>7. Mentioned(g, listening', i)
    BY <2>3, <2>5, <2>6, DeltaMentions DEF d
  <2> QED BY <2>4, <2>7, MentionedTwice
<1>3. CASE ~named
  <2> HIDE DEF s, d
  <2>1. <<>> \o [k \in 1 .. n |-> d] = <<d>>
    <3>1. [k \in 1 .. n |-> d] = <<d>>
      BY <1>3
    <3>2. <<d>> \in Seq({d})
      OBVIOUS
    <3> QED BY <3>1, <3>2, ConcatEmptySeq
  <2>2. S!Hear(<<d>>)
    BY <1>3, <2>1 DEF s, d
  <2>3. listening' = S!AgentHears(listening, d)
    BY <2>2, HearsOne
  <2> QED BY <1>3, <2>3, DeltaMentions DEF d
<1> QED BY <1>1, <1>2, <1>3

\* A call that was mentioned is known, the next one or one that was known.
LEMMA MentionKnown ==
  ASSUME ListeningInv, Len(answer.calls) \in Nat, NEW i \in 1 .. Len(answer.calls), i <= Known + 1,
         Mentioned(listening, listening', i), answer' = answer, sent'.text = sent.text
  PROVE  /\ ListeningInv'
         /\ Known' = IF i <= Known THEN Known ELSE Known + 1
         /\ Known \in Nat
         /\ \A k \in 1 .. Known : k # i => listening'.calls[k] = listening.calls[k]
<1>1. listening.order \in Seq(Nat) /\ Known \in Nat /\ DOMAIN listening.calls = 1 .. Known
      /\ (\A k \in 1 .. Known : listening.order[k] = k) /\ Known <= Len(answer.calls)
  BY DEF ListeningInv, Known
<1>2. /\ Listener(listening') /\ listening'.text = listening.text
      /\ listening'.order = IF i \in 1 .. Known THEN listening.order ELSE Append(listening.order, i)
      /\ listening'.calls = [k \in 1 .. Known \cup {i} |-> listening'.calls[k]]
      /\ \A k \in 1 .. Known : k # i => listening'.calls[k] = listening.calls[k]
  BY <1>1, Zenon DEF Mentioned
<1>3. CASE i <= Known
  <2>1. i \in 1 .. Known /\ 1 .. Known \cup {i} = 1 .. Known
    BY <1>1, <1>3
  <2>2. listening'.order = listening.order /\ listening'.calls = [k \in 1 .. Known |-> listening'.calls[k]]
    BY <1>2, <2>1
  <2>3. Known' = Known
    BY <2>2 DEF Known
  <2>4. listening'.text = sent'.text
    BY <1>2 DEF ListeningInv
  <2>5. ListeningInv'
    BY <1>1, <1>2, <2>2, <2>3, <2>4 DEF ListeningInv, Listener
  <2> QED BY <1>1, <1>2, <1>3, <2>3, <2>5
<1>4. CASE i = Known + 1
  <2>1. i \notin 1 .. Known /\ 1 .. Known \cup {i} = 1 .. Known + 1
    BY <1>1, <1>4
  <2>2. listening'.order = Append(listening.order, i)
        /\ listening'.calls = [k \in 1 .. Known + 1 |-> listening'.calls[k]]
    BY <1>2, <2>1
  <2>3. /\ listening'.order \in Seq(Nat) /\ Len(listening'.order) = Known + 1
        /\ \A k \in 1 .. Known + 1 : listening'.order[k] = k
    BY <1>1, <1>4, <2>2 DEF Known
  <2>4. Known' = Known + 1
    BY <2>3 DEF Known
  <2>5. listening'.text = sent'.text
    BY <1>2 DEF ListeningInv
  <2>6. ListeningInv'
    BY <1>1, <1>2, <1>4, <2>2, <2>3, <2>4, <2>5 DEF ListeningInv, Listener
  <2> QED BY <1>1, <1>2, <1>4, <2>4, <2>6
<1> QED BY <1>1, <1>3, <1>4

\* A chunk goes into the slot of its call.
LEMMA SlotFills ==
  ASSUME OpenAiInv, Known \in Nat, NEW i \in Nat \ {0}, i <= Known + 1, NEW n \in Nat,
         i <= Known => sent.args[i] \in Nat,
         S!Opened(i) <=> i <= Known
  PROVE  S!OpenAiSlot(i, n) =
           [k \in 1 .. (IF i <= Known THEN Known ELSE Known + 1) |->
             IF k = i THEN S!Slot(i, answer.calls[i].id, answer.calls[i].name,
                                  (IF i <= Known THEN sent.args[i] ELSE 0) + n)
             ELSE SlotOf(k)]
<1> DEFINE id == answer.calls[i].id
           name == answer.calls[i].name
           r == S!Reached(i)
           m == IF i <= Known THEN Known ELSE Known + 1
           before == IF i <= Known THEN SlotOf(i) ELSE S!Slot(i, S!NoId, S!NoName, 0)
<1>1. slots = [k \in 1 .. Known |-> SlotOf(k)] /\ Len(slots) = Known
  BY DEF OpenAiInv
<1>2. r = [k \in 1 .. m |-> IF k = i THEN before ELSE SlotOf(k)]
  <2>1. CASE i <= Known
    BY <1>1, <2>1 DEF S!Reached
  <2>2. CASE i = Known + 1
    <3>1. r = slots \o [k \in 1 .. 1 |-> before]
      BY <1>1, <2>2 DEF S!Reached
    <3> DEFINE U == {SlotOf(k) : k \in 1 .. Known} \cup {before}
               one == [k \in 1 .. 1 |-> before]
    <3>2. slots \in Seq(U) /\ Len(slots) = Known /\ \A k \in 1 .. Known : slots[k] = SlotOf(k)
      BY <1>1
    <3>3. one \in Seq(U) /\ Len(one) = 1 /\ one[1] = before
      OBVIOUS
    <3> HIDE DEF before, U, one
    <3>4. /\ slots \o one \in Seq(U) /\ Len(slots \o one) = Len(slots) + Len(one)
          /\ \A k \in 1 .. Len(slots) + Len(one) :
               (slots \o one)[k] = IF k <= Len(slots) THEN slots[k] ELSE one[k - Len(slots)]
      BY <3>2, <3>3, ConcatProperties
    <3>5. \A k \in 1 .. Known + 1 : (slots \o one)[k] = IF k = i THEN before ELSE SlotOf(k)
      BY <2>2, <3>2, <3>3, <3>4
    <3> DEFINE both == slots \o one
               this == [k \in 1 .. Known + 1 |-> IF k = i THEN before ELSE SlotOf(k)]
    <3>6. this \in Seq(U) /\ Len(this) = Known + 1 /\ \A k \in 1 .. Known + 1 : both[k] = this[k]
      <4>1. this \in Seq(U) /\ Len(this) = Known + 1
        BY <2>2 DEF U
      <4> QED BY <3>5, <4>1
    <3>7. both = this
      <4> HIDE DEF both, this
      <4> QED BY <3>2, <3>3, <3>4, <3>6, SeqEqual DEF both
    <3>8. m = Known + 1 /\ r = both
      BY <2>2, <3>1 DEF one
    <3> HIDE DEF m, r, both
    <3> QED BY <3>7, <3>8
  <2> QED BY <2>1, <2>2
<1> DEFINE after == S!Slot(i, IF S!Names(i) THEN id ELSE before.id, IF S!Names(i) THEN name ELSE before.name, before.args + n)
<1>3. S!OpenAiSlot(i, n) = [r EXCEPT ![i] = after]
  <2>1. r[i] = before /\ i \in 1 .. m
    BY <1>2
  <2>2. before.index = i
    BY DEF S!Slot, SlotOf
  <2>3. S!OpenAiSlot(i, n) =
          [r EXCEPT ![i] = S!Slot(r[i].index, IF S!Names(i) THEN id ELSE r[i].id,
                                  IF S!Names(i) THEN name ELSE r[i].name, r[i].args + n)]
    BY Zenon DEF S!OpenAiSlot
  <2> HIDE DEF r, before, id, name
  <2> QED BY <2>1, <2>2, <2>3
<1>4. after = S!Slot(i, id, name, (IF i <= Known THEN sent.args[i] ELSE 0) + n)
  <2>1. CASE i <= Known
    BY <2>1 DEF SlotOf, S!Slot
  <2>2. CASE ~(i <= Known)
    <3>1. S!Names(i)
      BY <2>2 DEF S!Names
    <3> QED BY <2>2, <3>1 DEF S!Slot
  <2> QED BY <2>1, <2>2
<1> HIDE DEF after, r, before
<1>5. S!OpenAiSlot(i, n) = [k \in 1 .. m |-> IF k = i THEN after ELSE SlotOf(k)]
  BY <1>2, <1>3
<1> QED BY <1>4, <1>5

\* The calls that are open are the first ones.
LEMMA OpenIsKnown ==
  ASSUME Arriving, answer \in Answers, S!StreamAssumption, NEW i \in S!Calls,
         S!Opened(i) \/ \A j \in 1 .. i - 1 : S!Opened(j)
  PROVE  i \in 1 .. Len(answer.calls) /\ i <= Known + 1 /\ Known \in Nat /\ Len(answer.calls) \in Nat
<1>1. Len(answer.calls) \in Nat /\ S!Calls = 1 .. Len(answer.calls) /\ i \in 1 .. Len(answer.calls)
  BY CallsAre
<1>2. Known \in Nat
  BY DEF Arriving, ListeningInv, Known
<1>3. CASE S!Opened(i)
  BY <1>1, <1>2, <1>3 DEF Arriving, SentInv
<1>4. CASE \A j \in 1 .. i - 1 : S!Opened(j)
  <2>1. CASE i = 1
    BY <1>1, <1>2, <2>1
  <2>2. CASE i > 1
    <3>1. i - 1 \in S!Calls /\ S!Opened(i - 1)
      BY <1>1, <1>4, <2>2
    <3>2. i - 1 <= Known
      BY <3>1 DEF Arriving, SentInv
    <3> QED BY <1>1, <1>2, <3>2
  <2> QED BY <1>1, <2>1, <2>2
<1> QED BY <1>1, <1>2, <1>3, <1>4

\* A step that sends more of one call.
Sends(i, n, closes) ==
  sent' = [sent EXCEPT !.args = [sent.args EXCEPT ![i] = n],
                       !.closed = [sent.closed EXCEPT ![i] = closes]]

LEMMA SendsOne ==
  ASSUME Arriving, answer \in Answers, S!StreamAssumption, UNCHANGED <<answer, dialect>>,
         NEW i \in S!Calls, Known \in Nat, i <= Known + 1,
         Known' = IF i <= Known THEN Known ELSE Known + 1,
         NEW n \in Nat, NEW closes \in BOOLEAN, closes => n = answer.calls[i].args,
         Sends(i, n, closes)
  PROVE  /\ SentInv' /\ sent'.text = sent.text
         /\ sent'.args = [sent.args EXCEPT ![i] = n] /\ sent'.closed = [sent.closed EXCEPT ![i] = closes]
<1> DEFINE a == [sent.args EXCEPT ![i] = n]
           c == [sent.closed EXCEPT ![i] = closes]
<1>1. sent' = [text |-> sent.text, usage |-> sent.usage, args |-> a, closed |-> c]
  <2> HIDE DEF a, c
  <2>1. sent' = [sent EXCEPT !.args = a, !.closed = c]
    BY DEF a, c, Sends
  <2>2. sent = [text |-> sent.text, usage |-> sent.usage, args |-> sent.args, closed |-> sent.closed]
    BY DEF Arriving, SentInv
  <2> QED BY <2>1, <2>2
<1>2. a \in [S!Calls -> Int] /\ c \in [S!Calls -> BOOLEAN] /\ a[i] = n /\ c[i] = closes
      /\ \A j \in S!Calls : j # i => a[j] = sent.args[j] /\ c[j] = sent.closed[j]
  BY DEF Arriving, SentInv
<1> HIDE DEF a, c
<1>3. sent'.text = sent.text /\ sent'.args = a /\ sent'.closed = c
  BY <1>1
<1>4. S!Calls' = S!Calls /\ S!Calls \subseteq Nat
  BY CallsAre DEF S!Calls
<1>5. \A j \in S!Calls : (S!Opened(j)' <=> a[j] # -1) /\ (S!Opened(j) <=> sent.args[j] # -1)
        /\ (S!Closed(j)' <=> c[j]) /\ (S!Closed(j) <=> sent.closed[j])
  BY <1>3 DEF S!Opened, S!Closed, S!Unopened
<1>6. \A j \in S!Calls : S!Opened(j)' <=> j <= Known'
  <2> SUFFICES ASSUME NEW j \in S!Calls PROVE S!Opened(j)' <=> j <= Known'
    BY <1>4
  <2>1. CASE j = i
    BY <1>2, <1>4, <1>5, <2>1
  <2>2. CASE j # i
    <3>1. S!Opened(j)' <=> S!Opened(j)
      BY <1>2, <1>5, <2>2
    <3>2. S!Opened(j) <=> j <= Known
      BY DEF Arriving, SentInv
    <3>3. j <= Known' <=> j <= Known
      BY <1>4, <2>2
    <3> QED BY <3>1, <3>2, <3>3
  <2> QED BY <2>1, <2>2
<1>7. \A j \in S!Calls : S!Opened(j)' => a[j] \in Nat
  BY <1>2, <1>5 DEF Arriving, SentInv
<1>8. \A j \in S!Calls : S!Closed(j)' => a[j] = answer.calls[j].args
  BY <1>2, <1>5 DEF Arriving, SentInv
<1>9. SentInv'
  <2>1. sent' = [text |-> sent'.text, usage |-> sent'.usage, args |-> sent'.args, closed |-> sent'.closed]
    BY <1>1
  <2>2. sent'.args \in [S!Calls' -> Int] /\ sent'.closed \in [S!Calls' -> BOOLEAN]
    BY <1>2, <1>3, <1>4
  <2>3. \A j \in S!Calls' : S!Opened(j)' => sent'.args[j] \in Nat
    BY <1>3, <1>4, <1>7
  <2>4. \A j \in S!Calls' : S!Closed(j)' => sent'.args[j] = answer'.calls[j].args
    BY <1>3, <1>4, <1>8
  <2> QED BY <1>4, <1>6, <2>1, <2>2, <2>3, <2>4 DEF SentInv
<1> QED BY <1>3, <1>9 DEF a, c

LEMMA ChunkArrives ==
  ASSUME WholeCalls, S!StreamAssumption, answer \in Answers, Arriving,
         NEW i \in S!Calls, NEW n \in 0 .. 1, S!OpenAiCall(i, n)
  PROVE  Arriving'
<1> DEFINE upto == (IF S!Opened(i) THEN sent.args[i] ELSE 0) + n
           closes == (upto = answer.calls[i].args)
<1>1. /\ dialect = "openai" /\ UNCHANGED <<answer, dialect, repeats>>
      /\ S!Opened(i) => n > 0
      /\ \A j \in 1 .. i - 1 : S!Opened(j)
      /\ slots' = S!OpenAiSlot(i, n)
  BY DEF S!OpenAiCall, S!source, WholeCalls
<1>2. Sends(i, upto, closes)
  <2>1. sent' = [sent EXCEPT !.args[i] = upto, !.closed[i] = closes]
    BY DEF S!OpenAiCall
  <2> HIDE DEF upto, closes
  <2>2. sent = [text |-> sent.text, usage |-> sent.usage, args |-> sent.args, closed |-> sent.closed]
    BY DEF Arriving, SentInv
  <2> QED BY <2>1, <2>2 DEF Sends
<1>3. i \in 1 .. Len(answer.calls) /\ i <= Known + 1 /\ Known \in Nat /\ Len(answer.calls) \in Nat
  BY <1>1, OpenIsKnown
<1>4. (S!Opened(i) <=> i <= Known) /\ (S!Opened(i) => sent.args[i] \in Nat) /\ upto \in Nat
  <2>1. (S!Opened(i) <=> i <= Known) /\ (S!Opened(i) => sent.args[i] \in Nat)
    BY DEF Arriving, SentInv
  <2> QED BY <2>1
<1>5. Listener(listening) /\ DOMAIN listening.calls = 1 .. Known
      /\ listening.calls = [k \in 1 .. Known |-> listening.calls[k]]
  BY DEF Arriving, ListeningInv, Listener
<1>6. Mentioned(listening, listening', i)
  <2> DEFINE named == S!Names(i)
             id == slots'[i].id
             name == slots'[i].name
  <2>1. S!Hear((IF named THEN <<S!CallStart(i, id, name)>> ELSE <<>>) \o [k \in 1 .. n |-> S!ArgDelta(i)])
    BY DEF S!OpenAiCall
  <2>2. (named \/ i \in DOMAIN listening.calls) /\ (named \/ n = 1)
    BY <1>1, <1>3, <1>4, <1>5 DEF S!Names
  <2>3. listening.calls = [k \in DOMAIN listening.calls |-> listening.calls[k]]
    BY <1>5, Zenon
  <2>4. PICK q \in BOOLEAN : q <=> named
    OBVIOUS
  <2>5. S!Hear((IF q THEN <<S!CallStart(i, id, name)>> ELSE <<>>) \o [k \in 1 .. n |-> S!ArgDelta(i)])
    BY <2>1, <2>4
  <2> HIDE DEF named, id, name
  <2> QED BY <1>5, <2>2, <2>3, <2>4, <2>5, ChunkMentions
<1> HIDE DEF upto, closes
<1>7. sent'.text = sent.text
  <2> DEFINE a == [sent.args EXCEPT ![i] = upto]
             c == [sent.closed EXCEPT ![i] = closes]
  <2> HIDE DEF a, c
  <2>1. sent' = [sent EXCEPT !.args = a, !.closed = c]
    BY <1>2 DEF a, c, Sends
  <2>2. sent = [text |-> sent.text, usage |-> sent.usage, args |-> sent.args, closed |-> sent.closed]
    BY DEF Arriving, SentInv
  <2> QED BY <2>1, <2>2
<1>8. ListeningInv' /\ Known' = IF i <= Known THEN Known ELSE Known + 1
  BY <1>1, <1>3, <1>6, <1>7, MentionKnown DEF Arriving
<1>9. SentInv' /\ sent'.args = [sent.args EXCEPT ![i] = upto]
  <2>1. closes \in BOOLEAN /\ (closes => upto = answer.calls[i].args)
    BY DEF closes
  <2> QED BY <1>1, <1>2, <1>3, <1>4, <1>8, <2>1, SendsOne
<1>10. OpenAiInv'
  <2>1. slots' = [k \in 1 .. Known' |->
                    IF k = i THEN S!Slot(i, answer.calls[i].id, answer.calls[i].name, upto) ELSE SlotOf(k)]
    <3>1. upto = (IF i <= Known THEN sent.args[i] ELSE 0) + n
      BY <1>4 DEF upto
    <3>2. i \in Nat \ {0} /\ n \in Nat /\ (i <= Known => sent.args[i] \in Nat)
      BY <1>3, <1>4
    <3> QED BY <1>1, <1>3, <1>4, <1>8, <3>1, <3>2, SlotFills DEF Arriving
  <2>2. \A k \in 1 .. Known' : SlotOf(k)' =
          IF k = i THEN S!Slot(i, answer.calls[i].id, answer.calls[i].name, upto) ELSE SlotOf(k)
    <3> SUFFICES ASSUME NEW k \in 1 .. Known'
                 PROVE  SlotOf(k)' = IF k = i THEN S!Slot(i, answer.calls[i].id, answer.calls[i].name, upto)
                                     ELSE SlotOf(k)
      OBVIOUS
    <3>1. k \in S!Calls
      BY <1>3, <1>8, CallsAre DEF Arriving, ListeningInv
    <3>2. sent'.args[k] = IF k = i THEN upto ELSE sent.args[k]
      BY <1>9, <3>1 DEF Arriving, SentInv
    <3> QED BY <1>1, <3>2 DEF SlotOf, S!Slot
  <2> QED BY <2>1, <2>2 DEF OpenAiInv
<1> QED BY <1>1, <1>8, <1>9, <1>10 DEF Arriving

\* The blocks of an Anthropic endpoint come one after the other.
LEMMA SameButMentions ==
  ASSUME NEW h, NEW g, Listener(h), NEW i \in DOMAIN h.calls, SameBut(h, g, i)
  PROVE  Mentioned(h, g, i)
<1>1. DOMAIN h.calls \cup {i} = DOMAIN h.calls
  OBVIOUS
<1>2. Listener(g) /\ g.text = h.text /\ g.order = h.order
  BY DEF SameBut, Listener
<1>3. /\ g.calls = [k \in DOMAIN h.calls \cup {i} |-> g.calls[k]]
      /\ \A k \in DOMAIN h.calls : k # i => g.calls[k] = h.calls[k]
  BY <1>1 DEF SameBut
<1> QED BY <1>2, <1>3 DEF Mentioned

LEMMA ClosedIsOpen ==
  ASSUME Arriving, answer \in Answers, S!StreamAssumption, NEW i \in S!Calls, S!Closed(i)
  PROVE  S!Opened(i)
<1>1. sent.args[i] = answer.calls[i].args /\ answer.calls[i].args \in Nat
  BY CallsAre DEF Arriving, SentInv
<1> QED BY <1>1 DEF S!Opened, S!Unopened

LEMMA BlockBegins ==
  ASSUME S!StreamAssumption, answer \in Answers, Arriving, NEW i \in S!Calls, S!BlockStart(i)
  PROVE  Arriving'
<1> DEFINE id == answer.calls[i].id
           name == answer.calls[i].name
<1>1. /\ dialect = "anthropic" /\ UNCHANGED <<answer, dialect>> /\ ~S!Opened(i)
      /\ \A j \in 1 .. i - 1 : S!Closed(j)
      /\ slots' = <<S!Slot(i, id, name, 0)>>
      /\ S!Hear(<<S!CallStart(i, id, name)>>)
  BY DEF S!BlockStart, S!source
<1>2. S!Calls = 1 .. Len(answer.calls) /\ Len(answer.calls) \in Nat
  BY CallsAre
<1>3. \A j \in 1 .. i - 1 : j \in S!Calls /\ S!Opened(j)
  <2> SUFFICES ASSUME NEW j \in 1 .. i - 1 PROVE j \in S!Calls /\ S!Opened(j)
    OBVIOUS
  <2>1. j \in S!Calls
    BY <1>2
  <2> QED BY <1>1, <2>1, ClosedIsOpen
<1>4. i \in 1 .. Len(answer.calls) /\ i <= Known + 1 /\ Known \in Nat
  BY <1>3, OpenIsKnown
<1>5. i = Known + 1
  <2>1. ~(i <= Known)
    BY <1>1 DEF Arriving, SentInv
  <2> QED BY <1>4, <2>1
<1>6. Mentioned(listening, listening', i)
  <2>1. Listener(listening)
    BY DEF Arriving, ListeningInv, Listener
  <2> HIDE DEF id, name
  <2>2. listening' = S!AgentHears(listening, S!CallStart(i, id, name))
    BY <1>1, HearsOne
  <2> QED BY <2>1, <2>2, StartMentions
<1>7. Sends(i, 0, FALSE)
  <2>1. sent' = [sent EXCEPT !.args[i] = 0]
    BY DEF S!BlockStart
  <2>2. sent = [text |-> sent.text, usage |-> sent.usage, args |-> sent.args, closed |-> sent.closed]
        /\ sent.closed \in [S!Calls -> BOOLEAN]
    BY DEF Arriving, SentInv
  <2>3. sent.closed[i] = FALSE
    BY <1>1, <2>2, ClosedIsOpen DEF S!Closed
  <2>4. [sent.closed EXCEPT ![i] = FALSE] = sent.closed
    BY <2>2, <2>3
  <2> QED BY <2>1, <2>2, <2>4 DEF Sends
<1>8. sent'.text = sent.text
  <2>1. sent' = [sent EXCEPT !.args[i] = 0]
    BY DEF S!BlockStart
  <2>2. sent = [text |-> sent.text, usage |-> sent.usage, args |-> sent.args, closed |-> sent.closed]
    BY DEF Arriving, SentInv
  <2> QED BY <2>1, <2>2
<1>9. ListeningInv' /\ Known' = Known + 1 /\ \A k \in 1 .. Known : listening'.calls[k] = listening.calls[k]
  <2>1. /\ ListeningInv' /\ Known' = IF i <= Known THEN Known ELSE Known + 1
        /\ \A k \in 1 .. Known : k # i => listening'.calls[k] = listening.calls[k]
    BY <1>1, <1>2, <1>4, <1>6, <1>8, MentionKnown DEF Arriving
  <2> QED BY <1>4, <1>5, <2>1
<1>10. /\ SentInv' /\ sent'.args = [sent.args EXCEPT ![i] = 0]
       /\ sent'.closed = [sent.closed EXCEPT ![i] = FALSE]
  <2>1. Known' = IF i <= Known THEN Known ELSE Known + 1
    BY <1>4, <1>5, <1>9
  <2>2. 0 \in Nat /\ FALSE \in BOOLEAN /\ (FALSE => 0 = answer.calls[i].args)
    OBVIOUS
  <2> QED BY <1>1, <1>4, <1>7, <2>1, <2>2, SendsOne
<1>11. AnthropicInv'
  <2>1. S!Calls' = S!Calls /\ \A j \in S!Calls : S!AsSent(j)' = S!AsSent(j)
    BY <1>1 DEF S!Calls, S!AsSent
  <2>2. \A j \in S!Calls : j # i => (S!Closed(j)' <=> S!Closed(j)) /\ (S!Opened(j)' <=> S!Opened(j))
    BY <1>10 DEF Arriving, SentInv, S!Closed, S!Opened
  <2>3. S!Opened(i)' /\ ~S!Closed(i)'
    BY <1>10 DEF Arriving, SentInv, S!Closed, S!Opened, S!Unopened
  <2>4. SlotOf(i)' = S!Slot(i, id, name, 0)
    <3>1. sent'.args[i] = 0
      BY <1>10 DEF Arriving, SentInv
    <3> QED BY <1>1, <3>1 DEF SlotOf, S!Slot
  <2>5. \A j \in S!Calls : S!Closed(j)' => listening'.calls[j] = S!AsSent(j)'
    <3> SUFFICES ASSUME NEW j \in S!Calls, S!Closed(j)' PROVE listening'.calls[j] = S!AsSent(j)
      BY <2>1
    <3>1. j # i /\ S!Closed(j)
      BY <2>2, <2>3
    <3>2. S!Opened(j)
      BY <3>1, ClosedIsOpen
    <3>3. j \in 1 .. Known
      BY <1>2, <1>4, <3>2 DEF Arriving, SentInv
    <3> QED BY <1>1, <1>9, <3>1, <3>3 DEF Arriving, AnthropicInv
  <2>6. \A j \in S!Calls : S!Opened(j)' /\ ~S!Closed(j)' => j = Known' /\ slots' = <<SlotOf(j)'>>
    <3> SUFFICES ASSUME NEW j \in S!Calls, S!Opened(j)', ~S!Closed(j)' PROVE j = i
      BY <1>1, <1>5, <1>9, <2>4
    <3>1. CASE j # i
      <4>1. S!Opened(j) /\ ~S!Closed(j)
        BY <2>2, <3>1
      <4>2. j <= Known
        BY <4>1 DEF Arriving, SentInv
      <4>3. j \in 1 .. i - 1
        BY <1>2, <1>4, <1>5, <4>2
      <4> QED BY <1>1, <4>1, <4>3
    <3> QED BY <3>1
  <2> QED BY <2>1, <2>3, <2>5, <2>6 DEF AnthropicInv
<1> QED BY <1>1, <1>9, <1>10, <1>11 DEF Arriving

\* More of the block that is open, or its end.
LEMMA BlockGoesOn ==
  ASSUME S!StreamAssumption, answer \in Answers, Arriving, dialect = "anthropic", UNCHANGED <<answer, dialect>>,
         NEW i \in S!Calls, S!Opened(i), ~S!Closed(i),
         NEW n \in Nat, NEW closes \in BOOLEAN, closes => n = answer.calls[i].args, Sends(i, n, closes),
         SameBut(listening, listening', i),
         closes => listening'.calls[i] = S!AsSent(i) /\ slots' = <<>>,
         ~closes => slots' = <<S!Slot(i, answer.calls[i].id, answer.calls[i].name, n)>>
  PROVE  Arriving'
<1>1. S!Calls = 1 .. Len(answer.calls) /\ Len(answer.calls) \in Nat
  BY CallsAre
<1>2. i \in 1 .. Len(answer.calls) /\ i = Known /\ Known \in Nat
  <2>1. AnthropicInv
    BY DEF Arriving
  <2> QED BY <2>1, OpenIsKnown DEF AnthropicInv
<1>3. DOMAIN listening.calls = 1 .. Known /\ Listener(listening)
  BY DEF Arriving, ListeningInv, Listener
<1>4. Mentioned(listening, listening', i)
  BY <1>2, <1>3, SameButMentions
<1>5. sent'.text = sent.text
  <2>1. PICK a, c : sent' = [sent EXCEPT !.args = a, !.closed = c]
    BY DEF Sends
  <2>2. sent = [text |-> sent.text, usage |-> sent.usage, args |-> sent.args, closed |-> sent.closed]
    BY DEF Arriving, SentInv
  <2> QED BY <2>1, <2>2
<1>6. ListeningInv' /\ Known' = Known /\ \A k \in 1 .. Known : k # i => listening'.calls[k] = listening.calls[k]
  <2>1. i <= Known + 1 /\ i <= Known
    BY <1>2
  <2> QED BY <1>1, <1>2, <1>4, <1>5, <2>1, MentionKnown DEF Arriving
<1>7. /\ SentInv' /\ sent'.args = [sent.args EXCEPT ![i] = n]
      /\ sent'.closed = [sent.closed EXCEPT ![i] = closes]
  <2>1. Known' = (IF i <= Known THEN Known ELSE Known + 1) /\ i <= Known + 1
    BY <1>2, <1>6
  <2> QED BY <1>2, <2>1, SendsOne
<1>8. S!Calls' = S!Calls /\ \A j \in S!Calls : S!AsSent(j)' = S!AsSent(j)
  BY DEF S!Calls, S!AsSent
<1>9. \A j \in S!Calls : j # i => (S!Closed(j)' <=> S!Closed(j)) /\ (S!Opened(j)' <=> S!Opened(j))
  BY <1>7 DEF Arriving, SentInv, S!Closed, S!Opened
<1>10. (S!Closed(i)' <=> closes) /\ SlotOf(i)' = S!Slot(i, answer.calls[i].id, answer.calls[i].name, n)
  <2>1. sent'.args[i] = n /\ sent'.closed[i] = closes
    BY <1>7 DEF Arriving, SentInv
  <2> QED BY <2>1 DEF SlotOf, S!Slot, S!Closed
<1>11. \A j \in S!Calls : j # i => ~(S!Opened(j) /\ ~S!Closed(j))
  BY <1>2 DEF Arriving, AnthropicInv
<1>12. \A j \in S!Calls : S!Closed(j)' => listening'.calls[j] = S!AsSent(j)'
  <2> SUFFICES ASSUME NEW j \in S!Calls, S!Closed(j)' PROVE listening'.calls[j] = S!AsSent(j)
    BY <1>8
  <2>1. CASE j = i
    BY <1>10, <2>1
  <2>2. CASE j # i
    <3>1. S!Closed(j) /\ S!Opened(j)
      BY <1>9, <2>2, ClosedIsOpen
    <3>2. j \in 1 .. Known
      BY <1>1, <1>2, <3>1 DEF Arriving, SentInv
    <3> QED BY <1>6, <2>2, <3>1, <3>2 DEF Arriving, AnthropicInv
  <2> QED BY <2>1, <2>2
<1>13. \A j \in S!Calls : S!Opened(j)' /\ ~S!Closed(j)' => j = Known' /\ slots' = <<SlotOf(j)'>>
  <2> SUFFICES ASSUME NEW j \in S!Calls, S!Opened(j)', ~S!Closed(j)'
               PROVE  j = Known' /\ slots' = <<SlotOf(j)'>>
    OBVIOUS
  <2>1. j = i
    BY <1>9, <1>11
  <2>2. ~closes
    BY <1>10, <2>1
  <2> QED BY <1>2, <1>6, <1>10, <2>1, <2>2
<1>14. (\A j \in S!Calls : S!Opened(j)' => S!Closed(j)') => slots' = <<>>
  <2>1. S!Opened(i)'
    BY <1>7 DEF Arriving, SentInv, S!Opened, S!Unopened
  <2> QED BY <1>10, <2>1
<1>15. AnthropicInv'
  BY <1>8, <1>12, <1>13, <1>14 DEF AnthropicInv
<1> QED BY <1>6, <1>7, <1>15 DEF Arriving

LEMMA BlockGrows ==
  ASSUME S!StreamAssumption, answer \in Answers, Arriving, NEW i \in S!Calls, S!BlockDelta(i)
  PROVE  Arriving'
<1>1. /\ dialect = "anthropic" /\ UNCHANGED <<answer, dialect>> /\ S!Opened(i) /\ ~S!Closed(i)
      /\ sent' = [sent EXCEPT !.args[i] = @ + 1] /\ S!Hear(<<S!ArgDelta(i)>>)
      /\ slots' = [slots EXCEPT ![1].args = @ + 1]
  BY DEF S!BlockDelta, S!source
<1>2. slots = <<SlotOf(i)>> /\ i = Known /\ sent.args[i] \in Nat
  BY <1>1 DEF Arriving, AnthropicInv, SentInv
<1>3. slots' = <<S!Slot(i, answer.calls[i].id, answer.calls[i].name, sent.args[i] + 1)>>
  <2> DEFINE id == answer.calls[i].id
             name == answer.calls[i].name
             n == sent.args[i]
  <2>1. slots' = [<<S!Slot(i, id, name, n)>> EXCEPT ![1].args = @ + 1]
    BY <1>1, <1>2 DEF SlotOf
  <2> HIDE DEF id, name, n
  <2>2. slots' = <<S!Slot(i, id, name, n + 1)>>
    BY <2>1 DEF S!Slot
  <2> QED BY <2>2 DEF id, name, n
<1>4. Sends(i, sent.args[i] + 1, FALSE)
  <2>1. sent = [text |-> sent.text, usage |-> sent.usage, args |-> sent.args, closed |-> sent.closed]
        /\ sent.closed \in [S!Calls -> BOOLEAN] /\ sent.args \in [S!Calls -> Int]
    BY DEF Arriving, SentInv
  <2>2. sent.closed[i] = FALSE
    BY <1>1, <2>1 DEF S!Closed
  <2>3. [sent.closed EXCEPT ![i] = FALSE] = sent.closed
    BY <2>1, <2>2
  <2> QED BY <1>1, <2>1, <2>3 DEF Sends
<1>5. SameBut(listening, listening', i)
  <2>1. Listener(listening) /\ DOMAIN listening.calls = 1 .. Known /\ Known \in Nat
        /\ listening.calls = [k \in 1 .. Known |-> listening.calls[k]]
    BY DEF Arriving, ListeningInv, Listener, Known
  <2>2. i \in DOMAIN listening.calls
    BY <1>2, <2>1, CallsAre
  <2>3. listening' = S!AgentHears(listening, S!ArgDelta(i))
    BY <1>1, HearsOne
  <2>4. listening.calls = [k \in DOMAIN listening.calls |-> listening.calls[k]]
    BY <2>1, Zenon
  <2> QED BY <2>1, <2>2, <2>3, <2>4, ListenDelta
<1>6. sent.args[i] + 1 \in Nat /\ FALSE \in BOOLEAN /\ (FALSE => sent.args[i] + 1 = answer.calls[i].args)
  BY <1>2
<1> QED BY <1>1, <1>3, <1>4, <1>5, <1>6, BlockGoesOn

LEMMA BlockEnds ==
  ASSUME WholeCalls, S!StreamAssumption, answer \in Answers, Arriving, NEW i \in S!Calls, S!BlockStop(i)
  PROVE  Arriving'
<1>1. /\ dialect = "anthropic" /\ UNCHANGED <<answer, dialect>> /\ S!Opened(i) /\ ~S!Closed(i)
      /\ sent.args[i] = answer.calls[i].args
      /\ sent' = [sent EXCEPT !.closed[i] = TRUE]
      /\ slots' = <<>> /\ S!Hear(<<S!CallDone(i, S!Finished(slots[1], i))>>)
  BY DEF S!BlockStop, S!source
<1>2. slots = <<SlotOf(i)>> /\ i = Known /\ sent.args[i] \in Nat
  BY <1>1 DEF Arriving, AnthropicInv, SentInv
<1>3. S!Finished(slots[1], i) = S!AsSent(i)
  <2>1. slots[1] = SlotOf(i)
    BY <1>2
  <2>2. sent.args[i] # 0
    BY <1>1 DEF WholeCalls, S!Calls
  <2> DEFINE c == answer.calls[i]
             n == sent.args[i]
  <2>3. S!Finished(slots[1], i) = S!Heard(c.id, c.name, n, n = 0 \/ n # c.args)
    BY <2>1 DEF S!Finished, SlotOf, S!Slot
  <2>4. S!AsSent(i) = S!Heard(c.id, c.name, c.args, FALSE)
    BY <1>1 DEF S!AsSent
  <2>5. n = c.args /\ (n = 0 \/ n # c.args) = FALSE
    BY <1>1, <2>2
  <2> QED BY <2>3, <2>4, <2>5
<1>4. Sends(i, sent.args[i], TRUE)
  <2>1. sent = [text |-> sent.text, usage |-> sent.usage, args |-> sent.args, closed |-> sent.closed]
        /\ sent.args \in [S!Calls -> Int]
    BY DEF Arriving, SentInv
  <2>2. [sent.args EXCEPT ![i] = sent.args[i]] = sent.args
    BY <2>1
  <2> QED BY <1>1, <2>1, <2>2 DEF Sends
<1>5. SameBut(listening, listening', i) /\ listening'.calls[i] = S!AsSent(i)
  <2>1. Listener(listening) /\ DOMAIN listening.calls = 1 .. Known /\ Known \in Nat
        /\ listening.calls = [k \in 1 .. Known |-> listening.calls[k]]
    BY DEF Arriving, ListeningInv, Listener, Known
  <2>2. i \in DOMAIN listening.calls
    BY <1>2, <2>1, CallsAre
  <2>3. listening' = S!AgentHears(listening, S!CallDone(i, S!AsSent(i)))
    BY <1>1, <1>3, HearsOne
  <2>4. listening.calls = [k \in DOMAIN listening.calls |-> listening.calls[k]]
    BY <2>1, Zenon
  <2> QED BY <2>1, <2>2, <2>3, <2>4, ListenDone
<1>6. sent.args[i] \in Nat /\ TRUE \in BOOLEAN
  BY <1>2
<1> QED BY <1>1, <1>4, <1>5, <1>6, BlockGoesOn

-----------------------------------------------------------------------------
(* The end mark: what is left in the slots.                                 *)

Told(s) ==
  LET named == IF s.id = S!NoId /\ dialect # "anthropic" THEN [s EXCEPT !.id = <<"call", s.index>>] ELSE s IN
  S!CallDone(s.index, S!Finished(named, s.index))

IsTold(f, before) ==
  f = [k \in 0 .. Len(before) |->
         IF k = 0 THEN <<>>
         ELSE IF before[k].name = S!NoName THEN f[k - 1] ELSE Append(f[k - 1], Told(before[k]))]

LEMMA LastCallsAre == S!LastCalls = (CHOOSE f : IsTold(f, slots))[Len(slots)]
BY Zenon DEF S!LastCalls, IsTold, Told

\* With every slot named, each is told of, in their order.
AllNamed(n) == Len(slots) = n /\ \A k \in 1 .. n : slots[k].name # ""

LEMMA AllAreTold ==
  ASSUME NEW n \in Nat, AllNamed(n)
  PROVE  S!LastCalls = [k \in 1 .. n |-> Told(slots[k])]
<1> DEFINE U == {Told(slots[k]) : k \in 1 .. n}
           Upto(k) == [j \in 1 .. k |-> Told(slots[j])]
           g == [k \in 0 .. n |-> Upto(k)]
<1>1. \A k \in 0 .. n : Upto(k) \in Seq(U) /\ Len(Upto(k)) = k
  OBVIOUS
<1>2. ASSUME NEW k \in 1 .. n PROVE Upto(k) = Append(Upto(k - 1), Told(slots[k]))
  <2> DEFINE this == Append(Upto(k - 1), Told(slots[k]))
             that == Upto(k)
             shorter == Upto(k - 1)
             e == Told(slots[k])
  <2>1. shorter \in Seq(U) /\ Len(shorter) = k - 1 /\ e \in U
    <3>1. k - 1 \in 0 .. n
      OBVIOUS
    <3> QED BY <1>1, <3>1
  <2>2. that \in Seq(U) /\ Len(that) = k
    BY <1>1
  <2>3. \A j \in 1 .. k - 1 : that[j] = shorter[j]
    OBVIOUS
  <2>4. that[k] = e
    OBVIOUS
  <2> HIDE DEF that, shorter, e, U
  <2>5. /\ Append(shorter, e) \in Seq(U) /\ Len(Append(shorter, e)) = k
        /\ \A j \in 1 .. k - 1 : Append(shorter, e)[j] = shorter[j]
        /\ Append(shorter, e)[k] = e
    BY <2>1, AppendProperties
  <2>6. \A j \in 1 .. Len(that) : that[j] = Append(shorter, e)[j]
    BY <2>2, <2>3, <2>4, <2>5
  <2>7. that = Append(shorter, e)
    BY <2>2, <2>5, <2>6, SeqEqual
  <2> QED BY <2>7 DEF that, shorter, e
<1>3. \A k \in 0 .. n : g[k] = Upto(k)
  OBVIOUS
<1>4. g[0] = <<>>
  <2>1. g[0] = Upto(0)
    BY <1>3
  <2>2. Upto(0) = <<>>
    OBVIOUS
  <2> QED BY <2>1, <2>2
<1>5. \A k \in 1 .. n : g[k] = Append(g[k - 1], Told(slots[k]))
  <2> SUFFICES ASSUME NEW k \in 1 .. n PROVE g[k] = Append(g[k - 1], Told(slots[k]))
    OBVIOUS
  <2>1. k \in 0 .. n /\ k - 1 \in 0 .. n
    OBVIOUS
  <2> HIDE DEF g, Upto
  <2> QED BY <1>2, <1>3, <2>1
<1>6. g = [k \in 0 .. n |-> g[k]]
  OBVIOUS
<1> HIDE DEF g, Upto, U
<1>7. \A k \in 0 .. n : g[k] = IF k = 0 THEN <<>> ELSE IF slots[k].name = S!NoName THEN g[k - 1]
                               ELSE Append(g[k - 1], Told(slots[k]))
  <2> SUFFICES ASSUME NEW k \in 0 .. n
               PROVE  g[k] = IF k = 0 THEN <<>> ELSE IF slots[k].name = S!NoName THEN g[k - 1]
                             ELSE Append(g[k - 1], Told(slots[k]))
    OBVIOUS
  <2>1. CASE k = 0
    BY <1>4, <2>1
  <2>2. CASE k # 0
    <3>1. k \in 1 .. n
      BY <2>2
    <3>2. slots[k].name # S!NoName
      BY <3>1 DEF S!NoName, AllNamed
    <3> QED BY <1>5, <2>2, <3>1, <3>2
  <2> QED BY <2>1, <2>2
<1>8. IsTold(g, slots)
  BY <1>6, <1>7, Zenon DEF IsTold, AllNamed
<1>9. PICK f : IsTold(f, slots) /\ S!LastCalls = f[n]
  BY <1>8, LastCallsAre, Zenon DEF AllNamed
<1>10. \A k \in 0 .. n : f[k] = IF k = 0 THEN <<>> ELSE IF slots[k].name = S!NoName THEN f[k - 1]
                                ELSE Append(f[k - 1], Told(slots[k]))
  BY <1>9, Zenon DEF IsTold, AllNamed
<1>11. f[0] = g[0]
  <2>1. 0 \in 0 .. n
    OBVIOUS
  <2> QED BY <1>4, <1>10, <2>1
<1>12. \A k \in 1 .. n : f[k - 1] = g[k - 1] => f[k] = g[k]
  <2> SUFFICES ASSUME NEW k \in 1 .. n, f[k - 1] = g[k - 1] PROVE f[k] = g[k]
    OBVIOUS
  <2>1. k \in 0 .. n /\ k # 0
    OBVIOUS
  <2> QED BY <1>5, <1>10, <2>1 DEF S!NoName, AllNamed
<1>13. ASSUME NEW m \in Nat, \A k \in 1 .. m : f[k - 1] = g[k - 1] => f[k] = g[k]
       PROVE  \A k \in 0 .. m : f[k] = g[k]
  BY <1>11, <1>13, SameChain
<1>14. f[n] = g[n] /\ n \in 0 .. n
  BY <1>12, <1>13
<1> QED BY <1>3, <1>9, <1>14 DEF Upto

\* Events that end calls replace what was put together of them.
KnowsCalls(n) == listening.calls = [k \in 1 .. n |-> listening.calls[k]]

LEMMA AllAreHeard ==
  ASSUME NEW n \in Nat, Listener(listening), KnowsCalls(n),
         NEW told, S!Hear([k \in 1 .. n |-> S!CallDone(k, told[k])])
  PROVE  /\ listening'.text = listening.text /\ listening'.order = listening.order
         /\ \A k \in 1 .. n : listening'.calls[k] = told[k]
<1> DEFINE events == [k \in 1 .. n |-> S!CallDone(k, told[k])]
           Ended(k) == [j \in 1 .. n |-> IF j <= k THEN told[j] ELSE listening.calls[j]]
           After(k) == [text |-> listening.text, order |-> listening.order,
                        calls |-> Ended(k), tokens |-> listening.tokens]
           g == [k \in 0 .. n |-> After(k)]
<1>1. Len(events) = n /\ \A k \in 1 .. n : events[k] = S!CallDone(k, told[k])
  OBVIOUS
<1>2. After(0) = listening
  <2>1. Ended(0) = listening.calls
    <3>1. \A j \in 1 .. n : ~(j <= 0)
      OBVIOUS
    <3> QED BY <3>1 DEF KnowsCalls
  <2> HIDE DEF Ended
  <2> QED BY <2>1 DEF Listener
<1>3. ASSUME NEW k \in 1 .. n PROVE After(k) = S!AgentHears(After(k - 1), S!CallDone(k, told[k]))
  <2>1. Ended(k) = [Ended(k - 1) EXCEPT ![k] = told[k]] /\ DOMAIN Ended(k - 1) = 1 .. n
    <3>1. \A j \in 1 .. n : (j <= k) <=> (j = k \/ j <= k - 1)
      OBVIOUS
    <3>2. Ended(k) = [j \in 1 .. n |-> IF j = k THEN told[k] ELSE Ended(k - 1)[j]]
      BY <3>1
    <3>3. [Ended(k - 1) EXCEPT ![k] = told[k]] = [j \in 1 .. n |-> IF j = k THEN told[k] ELSE Ended(k - 1)[j]]
      OBVIOUS
    <3>4. DOMAIN Ended(k - 1) = 1 .. n
      OBVIOUS
    <3> HIDE DEF Ended
    <3> QED BY <3>2, <3>3, <3>4
  <2> DEFINE h == After(k - 1)
             c == Ended(k - 1)
  <2>2. S!AgentHears(h, S!CallDone(k, told[k])) = [h EXCEPT !.calls[k] = told[k]]
    <3>1. k \in DOMAIN h.calls
      BY <2>1
    <3> HIDE DEF h
    <3> QED BY <3>1 DEF S!AgentHears, S!CallDone
  <2>3. h = [text |-> listening.text, order |-> listening.order, calls |-> c, tokens |-> listening.tokens]
    OBVIOUS
  <2> HIDE DEF h, c
  <2>4. [h EXCEPT !.calls[k] = told[k]]
          = [text |-> listening.text, order |-> listening.order,
             calls |-> [c EXCEPT ![k] = told[k]], tokens |-> listening.tokens]
    BY <2>3
  <2> QED BY <2>1, <2>2, <2>4 DEF h, c
<1>4. \A k \in 0 .. n : g[k] = After(k)
  OBVIOUS
<1>5. g = [k \in 0 .. n |-> g[k]]
  OBVIOUS
<1> HIDE DEF g, After, events
<1>6. \A k \in 1 .. Len(events) : g[k] = S!AgentHears(g[k - 1], events[k])
  <2> SUFFICES ASSUME NEW k \in 1 .. n PROVE g[k] = S!AgentHears(g[k - 1], events[k])
    BY <1>1
  <2>1. k \in 0 .. n /\ k - 1 \in 0 .. n
    OBVIOUS
  <2> QED BY <1>1, <1>3, <1>4, <2>1
<1>7. Goes(g, listening, events)
  <2>1. g[0] = listening
    BY <1>2, <1>4
  <2> QED BY <1>1, <1>5, <1>6, <2>1 DEF Goes
<1>8. S!Hear(events)
  BY DEF events
<1>9. listening' = g[Len(events)]
  BY <1>1, <1>7, <1>8, HearsAll
<1>10. listening' = After(n)
  BY <1>1, <1>4, <1>9
<1>11. /\ listening'.text = listening.text /\ listening'.order = listening.order
       /\ listening'.calls = Ended(n)
  <2> HIDE DEF Ended
  <2> QED BY <1>10 DEF After
<1> QED BY <1>11

\* The end mark, of an OpenAI endpoint: the slots hold the whole calls.
LEMMA SlotsAreWhole ==
  ASSUME WholeCalls, S!StreamAssumption, answer \in Answers, Arriving, dialect = "openai",
         Known = Len(answer.calls), \A i \in S!Calls : S!Closed(i)
  PROVE  /\ AllNamed(Known)
         /\ \A k \in 1 .. Known : Told(slots[k]) = S!CallDone(k, S!AsSent(k))
<1>1. S!Calls = 1 .. Known /\ Known \in Nat
  BY CallsAre
<1>2. slots = [k \in 1 .. Known |-> SlotOf(k)]
  BY DEF Arriving, OpenAiInv
<1>3. ASSUME NEW k \in 1 .. Known
      PROVE  slots[k].name # "" /\ Told(slots[k]) = S!CallDone(k, S!AsSent(k))
  <2> DEFINE c == answer.calls[k]
             named == IF c.id = S!NoId THEN <<"call", k>> ELSE c.id
  <2>1. sent.args[k] = c.args /\ c.args # 0 /\ c.name # ""
    BY <1>1 DEF Arriving, SentInv, WholeCalls, S!Calls
  <2>2. slots[k] = S!Slot(k, c.id, c.name, c.args)
    BY <1>2, <2>1 DEF SlotOf
  <2>3. S!AsSent(k) = S!Heard(named, c.name, c.args, FALSE)
    BY DEF S!AsSent
  <2>4. (IF slots[k].id = S!NoId /\ dialect # "anthropic" THEN [slots[k] EXCEPT !.id = <<"call", slots[k].index>>]
         ELSE slots[k]) = S!Slot(k, named, c.name, c.args)
    <3> HIDE DEF c
    <3> QED BY <2>2 DEF S!Slot, c
  <2>5. S!Finished(S!Slot(k, named, c.name, c.args), k) = S!Heard(named, c.name, c.args, FALSE)
    <3>1. (c.args = 0 \/ c.args # c.args) = FALSE
      BY <2>1
    <3>2. S!Finished(S!Slot(k, named, c.name, c.args), k)
            = S!Heard(named, c.name, c.args, c.args = 0 \/ c.args # c.args)
      BY DEF S!Finished, S!Slot
    <3> QED BY <3>1, <3>2
  <2>6. slots[k].index = k /\ slots[k].name = c.name
    BY <2>2 DEF S!Slot
  <2>7. Told(slots[k]) = S!CallDone(k, S!AsSent(k))
    BY <2>3, <2>4, <2>5, <2>6, Zenon DEF Told
  <2> QED BY <2>1, <2>6, <2>7
<1>4. Len(slots) = Known
  BY <1>1, <1>2
<1> QED BY <1>3, <1>4 DEF AllNamed

LEMMA EndArrives ==
  ASSUME WholeCalls, S!StreamAssumption, answer \in Answers, Arriving, dialect \in {"openai", "anthropic"},
         S!End("done")
  PROVE  listening'.text = answer'.text /\ S!Taken' = S!WholeAnswer'
<1> DEFINE n == Len(answer.calls)
<1>1. /\ S!Calls = 1 .. n /\ n \in Nat
  BY CallsAre
<1>2. /\ sent.text = answer.text /\ \A i \in S!Calls : S!Closed(i)
      /\ UNCHANGED <<answer, dialect>> /\ S!Hear(S!LastCalls)
  BY DEF S!End, S!AllSent, S!source
<1>3. Known = n
  <2>1. Known \in Nat /\ Known <= n
    BY DEF Arriving, ListeningInv, Known
  <2>2. CASE n = 0
    BY <2>1, <2>2
  <2>3. CASE n > 0
    <3>1. n \in S!Calls
      BY <1>1, <2>3
    <3>2. S!Opened(n)
      BY <1>2, <3>1, ClosedIsOpen
    <3>3. n <= Known
      BY <3>1, <3>2 DEF Arriving, SentInv
    <3> QED BY <1>1, <2>1, <3>3
  <2> QED BY <1>1, <2>2, <2>3
<1>4. /\ listening'.text = listening.text /\ listening'.order = listening.order
      /\ \A k \in 1 .. n : listening'.calls[k] = S!AsSent(k)
  <2>1. CASE dialect = "openai"
    <3>1. AllNamed(n) /\ \A k \in 1 .. n : Told(slots[k]) = S!CallDone(k, S!AsSent(k))
      BY <1>2, <1>3, <2>1, SlotsAreWhole
    <3> DEFINE told == [k \in 1 .. n |-> S!AsSent(k)]
    <3>2. S!LastCalls = [k \in 1 .. n |-> Told(slots[k])]
      BY <1>1, <3>1, AllAreTold
    <3>3. \A k \in 1 .. n : Told(slots[k]) = S!CallDone(k, told[k])
      BY <3>1
    <3> HIDE DEF told
    <3>4. S!Hear([k \in 1 .. n |-> S!CallDone(k, told[k])])
      <4>1. S!LastCalls = [k \in 1 .. n |-> S!CallDone(k, told[k])]
        BY <3>2, <3>3
      <4> QED BY <1>2, <4>1
    <3>5. Listener(listening) /\ KnowsCalls(n)
      BY <1>3 DEF Arriving, ListeningInv, Listener, KnowsCalls
    <3>6. /\ listening'.text = listening.text /\ listening'.order = listening.order
          /\ \A k \in 1 .. n : listening'.calls[k] = told[k]
      <4> HIDE DEF n
      <4> QED BY <1>1, <3>4, <3>5, AllAreHeard
    <3> QED BY <3>6 DEF told
  <2>2. CASE dialect = "anthropic"
    <3>1. slots = <<>> /\ \A k \in 1 .. n : listening.calls[k] = S!AsSent(k)
      BY <1>1, <1>2, <2>2 DEF Arriving, AnthropicInv
    <3>2. S!LastCalls = <<>>
      <4>1. AllNamed(0)
        BY <3>1 DEF AllNamed
      <4>2. S!LastCalls = [k \in 1 .. 0 |-> Told(slots[k])]
        BY <4>1, AllAreTold
      <4> QED BY <4>2
    <3>3. listening' = listening
      BY <1>2, <3>2, HearsNothing
    <3> QED BY <3>1, <3>3
  <2> QED BY <2>1, <2>2
<1>5. listening'.text = answer'.text
  BY <1>2, <1>4 DEF Arriving, ListeningInv
<1>6. S!Taken' = [k \in 1 .. n |-> S!AsSent(k)]
  <2>1. DOMAIN listening.order = 1 .. n /\ \A k \in 1 .. n : listening.order[k] = k
    BY <1>3 DEF Arriving, ListeningInv, Known
  <2>2. S!Taken' = [k \in DOMAIN listening'.order |-> listening'.calls[listening'.order[k]]]
    BY DEF S!Taken
  <2> HIDE DEF n
  <2>3. S!Taken' = [k \in 1 .. n |-> listening'.calls[listening.order[k]]]
    BY <1>4, <2>1, <2>2
  <2>4. \A k \in 1 .. n : listening'.calls[listening.order[k]] = S!AsSent(k)
    BY <1>4, <2>1
  <2> QED BY <2>3, <2>4
<1>7. S!WholeAnswer' = [k \in 1 .. n |-> S!AsSent(k)]
  BY <1>1, <1>2 DEF S!WholeAnswer, S!Calls, S!AsSent
<1> QED BY <1>5, <1>6, <1>7

LEMMA WireStep == ASSUME WholeCalls, S!StreamAssumption, WireInv, [S!Next]_(S!vars) PROVE WireInv'
<1>1. CASE UNCHANGED S!vars
  <2>1. UNCHANGED <<dialect, answer, sent, ending, slots, listening>>
    BY <1>1 DEF S!vars, S!source
  <2>2. /\ S!Calls' = S!Calls /\ Known' = Known /\ S!Taken' = S!Taken /\ S!WholeAnswer' = S!WholeAnswer
        /\ \A i : S!Opened(i)' = S!Opened(i) /\ S!Closed(i)' = S!Closed(i) /\ S!AsSent(i)' = S!AsSent(i)
                  /\ SlotOf(i)' = SlotOf(i)
    BY <2>1 DEF S!Calls, Known, S!Taken, S!WholeAnswer, S!Opened, S!Closed, S!AsSent, SlotOf
  <2>3. /\ SentInv' = SentInv /\ ListeningInv' = ListeningInv /\ OpenAiInv' = OpenAiInv
        /\ AnthropicInv' = AnthropicInv /\ S!AnswerIsAsSent' = S!AnswerIsAsSent
    BY <2>1, <2>2 DEF SentInv, ListeningInv, OpenAiInv, AnthropicInv, S!AnswerIsAsSent
  <2> QED BY <2>1, <2>3 DEF WireInv, Arriving
<1>2. CASE S!Next
  <2>1. UNCHANGED <<provider, dialect, repeats, answer>>
    BY <1>2, SourceStays
  <2>2. CASE dialect = "sdk"
    BY <2>1, <2>2 DEF WireInv, S!AnswerIsAsSent
  <2>3. CASE S!Request
    <3>1. UNCHANGED <<dialect, answer, sent, ending, slots, listening>>
      BY <2>3 DEF S!Request, S!source
    <3>2. Arriving => Arriving'
      <4>1. /\ S!Calls' = S!Calls /\ Known' = Known
            /\ \A i : S!Opened(i)' = S!Opened(i) /\ S!Closed(i)' = S!Closed(i) /\ S!AsSent(i)' = S!AsSent(i)
                      /\ SlotOf(i)' = SlotOf(i)
        BY <3>1 DEF S!Calls, Known, S!Opened, S!Closed, S!AsSent, SlotOf
      <4> QED BY <3>1, <4>1 DEF Arriving, SentInv, ListeningInv, OpenAiInv, AnthropicInv
    <3>3. S!Taken' = S!Taken /\ S!WholeAnswer' = S!WholeAnswer
      BY <3>1 DEF S!Taken, S!WholeAnswer, S!Calls, S!AsSent
    <3> QED BY <3>1, <3>2, <3>3 DEF WireInv, S!AnswerIsAsSent
  <2>4. CASE S!Error
    <3>1. ending' = "error"
      BY <2>4 DEF S!Error
    <3> QED BY <2>1, <3>1 DEF WireInv, S!AnswerIsAsSent
  <2>5. CASE dialect # "sdk" /\ ~S!Request /\ ~S!Error
    <3>1. dialect \in {"openai", "anthropic"} /\ answer \in Answers
      BY <2>5 DEF WireInv
    <3>2. ASSUME NEW how \in {"done", "eof"}, S!End(how) PROVE WireInv'
      <4>1. ending' = how /\ ending = "no"
        BY <3>2 DEF S!End, S!Streaming
      <4>2. how = "done" => listening'.text = answer'.text /\ S!Taken' = S!WholeAnswer'
        BY <2>5, <3>1, <3>2, <4>1, EndArrives DEF WireInv
      <4> QED BY <2>1, <4>1, <4>2 DEF WireInv, S!AnswerIsAsSent
    <3>3. CASE \A how \in {"done", "eof"} : ~S!End(how)
      <4>1. \/ S!Text \/ S!ReportUsage
            \/ \E i \in S!Calls :
                 \/ S!SdkCall(i) \/ S!BlockStart(i) \/ S!BlockDelta(i) \/ S!BlockStop(i)
                 \/ \E n \in 0 .. 1 : S!OpenAiCall(i, n)
        BY <1>2, <2>5, <3>3 DEF S!Next
      <4>2. ending = "no" /\ ending' = "no" /\ \A i \in S!Calls : ~S!SdkCall(i)
        BY <2>5, <4>1 DEF S!Text, S!ReportUsage, S!SdkCall, S!BlockStart, S!BlockDelta, S!BlockStop,
                          S!OpenAiCall, S!Streaming
      <4>3. Arriving
        BY <2>5, <4>2 DEF WireInv
      <4>4. Arriving'
        BY <3>1, <4>1, <4>2, <4>3, TextArrives, UsageArrives, ChunkArrives, BlockBegins, BlockGrows, BlockEnds
      <4> QED BY <2>1, <4>2, <4>4 DEF WireInv, S!AnswerIsAsSent
    <3> QED BY <3>2, <3>3
  <2> QED BY <2>2, <2>3, <2>4, <2>5
<1> QED BY <1>1, <1>2

LEMMA WireStarts == ASSUME S!StreamAssumption, S!Init PROVE WireInv
<1>1. answer \in Answers /\ ending = "no" /\ slots = <<>> /\ listening = S!Silence
      /\ sent = [text |-> 0, usage |-> 0,
                 args |-> [i \in S!Calls |-> S!Unopened], closed |-> [i \in S!Calls |-> FALSE]]
      /\ dialect \in {"openai", "anthropic", "sdk"}
  BY DEF S!Init, S!DialectsOf
<1>2. Len(answer.calls) \in Nat /\ S!Calls = 1 .. Len(answer.calls)
  BY <1>1, CallsAre
<1>3. /\ sent.text = 0 /\ \A i \in S!Calls : sent.args[i] = -1 /\ sent.closed[i] = FALSE
      /\ sent.args \in [S!Calls -> Int] /\ sent.closed \in [S!Calls -> BOOLEAN]
  BY <1>1 DEF S!Unopened
<1>4. /\ Known = 0 /\ listening.order = <<>> /\ listening.calls = <<>> /\ listening.text = 0
      /\ Listener(listening)
  BY <1>1 DEF S!Silence, Known, Listener
<1>5. \A i \in S!Calls : ~S!Opened(i) /\ ~S!Closed(i)
  BY <1>3 DEF S!Opened, S!Closed, S!Unopened
<1>6. SentInv
  <2>1. \A i \in S!Calls : ~(i <= Known)
    BY <1>2, <1>4
  <2> QED BY <1>1, <1>3, <1>5, <2>1 DEF SentInv
<1>7. ListeningInv
  <2>1. listening.calls = [k \in 1 .. 0 |-> listening.calls[k]]
    BY <1>4
  <2> QED BY <1>2, <1>3, <1>4, <2>1 DEF ListeningInv, Listener
<1>8. OpenAiInv
  BY <1>1, <1>4 DEF OpenAiInv
<1>9. AnthropicInv
  BY <1>1, <1>5 DEF AnthropicInv
<1> QED BY <1>1, <1>6, <1>7, <1>8, <1>9 DEF WireInv, Arriving, S!AnswerIsAsSent

\* Once the end mark of an OpenAI or an Anthropic endpoint has arrived, the run
\* goes on with the whole answer, however its calls were interleaved, cut and
\* named again: for answers of any length.
THEOREM AnswersArrive == ASSUME WholeCalls PROVE S!Spec => []AnswerIsAsSent
<1>1. S!StreamAssumption
  BY TurnAssumption
<1>2. S!Init => WireInv
  BY <1>1, WireStarts
<1>3. WireInv /\ [S!Next]_(S!vars) => WireInv'
  BY <1>1, WireStep
<1>4. WireInv => AnswerIsAsSent
  BY DEF WireInv, AnswerIsAsSent
<1> QED BY <1>2, <1>3, <1>4, PTL DEF S!Spec

\* What holds of the first number, and of each with the one before it, holds
\* of all up to a number.
LEMMA UpTo ==
  ASSUME NEW n \in Nat, NEW good, 0 \in good,
         \A k \in 1 .. n : k - 1 \in good => k \in good
  PROVE  \A k \in 0 .. n : k \in good
<1> SUFFICES ASSUME NEW k \in 0 .. n, k \notin good PROVE FALSE
  OBVIOUS
<1> DEFINE set == {j \in 0 .. n : j \notin good}
<1>1. PICK m \in set : \A j \in set : m <= j
  <2>1. set \subseteq Nat /\ set # {}
    OBVIOUS
  <2> HIDE DEF set
  <2> QED BY <2>1, FirstOfAny
<1>2. m \in 1 .. n /\ m - 1 \in 0 .. n
  OBVIOUS
<1>3. m - 1 \in good
  BY <1>1, <1>2
<1> QED BY <1>2, <1>3


\* A recursive function over the numbers up to n exists.
Stepping(next, n, set) == next \in [(1 .. n) \X set -> set]
Walking(f, n, set, first, next) ==
  f \in [0 .. n -> set] /\ f[0] = first /\ \A k \in 1 .. n : f[k] = next[<<k, f[k - 1]>>]

LEMMA WalkExists ==
  ASSUME NEW n \in Nat, NEW set, NEW first \in set, NEW next, Stepping(next, n, set)
  PROVE  \E f : Walking(f, n, set, first, next)
<1> DEFINE good == {m \in 0 .. n : \E f \in [0 .. m -> set] :
                      f[0] = first /\ \A k \in 1 .. m : f[k] = next[<<k, f[k - 1]>>]}
<1>1. 0 \in good
  <2> DEFINE f == [k \in 0 .. 0 |-> first]
  <2>1. f \in [0 .. 0 -> set] /\ f[0] = first /\ \A k \in 1 .. 0 : f[k] = next[<<k, f[k - 1]>>]
    OBVIOUS
  <2>2. 0 \in 0 .. n
    OBVIOUS
  <2> HIDE DEF f
  <2> QED BY <2>1, <2>2
<1>2. ASSUME NEW m \in 1 .. n, m - 1 \in good PROVE m \in good
  <2>1. PICK g \in [0 .. m - 1 -> set] : g[0] = first /\ \A k \in 1 .. m - 1 : g[k] = next[<<k, g[k - 1]>>]
    BY <1>2
  <2> DEFINE f == [k \in 0 .. m |-> IF k < m THEN g[k] ELSE next[<<m, g[m - 1]>>]]
  <2>2. next[<<m, g[m - 1]>>] \in set
    <3>1. g[m - 1] \in set /\ m \in 1 .. n
      BY <2>1
    <3> QED BY <3>1 DEF Stepping
  <2>3. f \in [0 .. m -> set]
    BY <2>2
  <2>4. f[0] = first /\ \A k \in 1 .. m : f[k] = next[<<k, f[k - 1]>>]
    <3>1. f[0] = first
      BY <2>1
    <3>2. ASSUME NEW k \in 1 .. m - 1 PROVE f[k] = next[<<k, f[k - 1]>>]
      <4>1. f[k] = g[k] /\ f[k - 1] = g[k - 1]
        OBVIOUS
      <4> HIDE DEF f
      <4> QED BY <2>1, <4>1
    <3>3. f[m] = next[<<m, f[m - 1]>>]
      <4>1. f[m] = next[<<m, g[m - 1]>>] /\ f[m - 1] = g[m - 1]
        OBVIOUS
      <4> HIDE DEF f
      <4> QED BY <4>1
    <3>4. \A k \in 1 .. m : k = m \/ k \in 1 .. m - 1
      OBVIOUS
    <3> HIDE DEF f
    <3> QED BY <3>1, <3>2, <3>3, <3>4
  <2>5. m \in 0 .. n
    OBVIOUS
  <2> HIDE DEF f
  <2> QED BY <2>3, <2>4, <2>5
<1> HIDE DEF good
<1>3. \A m \in 0 .. n : m \in good
  BY <1>1, <1>2, UpTo
<1>4. n \in good
  BY <1>3
<1> QED BY <1>4 DEF good, Walking


-----------------------------------------------------------------------------
(* Proof that ranges add up.                                               *)

\* What a text is made of, and what its characters are.
Byte == STRING \cup {"lc", "?", "torn"}

\* What is picked goes place by place.
PickedNext(items, places, n, before) == IF n \in places THEN Append(before, items[n]) ELSE before
PickedChain(f, items, places) ==
  f = [n \in 0 .. Len(items) |-> IF n = 0 THEN <<>> ELSE PickedNext(items, places, n, f[n - 1])]

LEMMA PickedIs ==
  ASSUME NEW items \in Seq(Byte), NEW places
  PROVE  /\ T!Picked(items, places)[0] = <<>>
         /\ \A n \in 1 .. Len(items) :
              T!Picked(items, places)[n] = PickedNext(items, places, n, T!Picked(items, places)[n - 1])
         /\ \A n \in 0 .. Len(items) : T!Picked(items, places)[n] \in Seq(Byte)
<1> DEFINE l == Len(items)
           next == [x \in (1 .. l) \X Seq(Byte) |-> PickedNext(items, places, x[1], x[2])]
<1>0. l \in Nat
  OBVIOUS
<1>0a. \A n \in 1 .. l, b \in Seq(Byte) : PickedNext(items, places, n, b) \in Seq(Byte)
  <2> TAKE n \in 1 .. l, b \in Seq(Byte)
  <2>1. items[n] \in Byte
    OBVIOUS
  <2>2. Append(b, items[n]) \in Seq(Byte)
    BY <2>1
  <2> QED BY <2>2 DEF PickedNext
<1>1. next \in [(1 .. l) \X Seq(Byte) -> Seq(Byte)]
  <2> QED BY <1>0a
<1>2. \A n \in 1 .. l, b \in Seq(Byte) : next[<<n, b>>] = PickedNext(items, places, n, b)
  OBVIOUS
<1>2a. Stepping(next, l, Seq(Byte))
  BY <1>1 DEF Stepping
<1> HIDE DEF next
<1>2b. PICK f : Walking(f, l, Seq(Byte), <<>>, next)
  <2> HIDE DEF l
  <2>1. <<>> \in Seq(Byte)
    OBVIOUS
  <2> QED BY <1>0, <1>2a, <2>1, WalkExists
<1>3. f \in [0 .. l -> Seq(Byte)] /\ f[0] = <<>> /\ \A k \in 1 .. l : f[k] = next[<<k, f[k - 1]>>]
  BY <1>2b DEF Walking
<1>3a. \A n \in 1 .. l : f[n] = PickedNext(items, places, n, f[n - 1])
  <2> TAKE n \in 1 .. l
  <2>1. n - 1 \in 0 .. l
    BY <1>0
  <2>2. f[n - 1] \in Seq(Byte)
    BY <1>3, <2>1
  <2> QED BY <1>2, <1>3, <2>1, <2>2
<1>4. \A n \in 0 .. l : f[n] = IF n = 0 THEN <<>> ELSE PickedNext(items, places, n, f[n - 1])
  <2>1. \A n \in 0 .. l : n = 0 \/ n \in 1 .. l
    BY <1>0
  <2> QED BY <1>3, <1>3a, <2>1
<1>5. PickedChain(f, items, places)
  <2>1. f = [n \in 0 .. l |-> f[n]]
    BY <1>3
  <2> QED BY <1>4, <2>1, Zenon DEF PickedChain
<1>6. T!Picked(items, places) = CHOOSE g : PickedChain(g, items, places)
  BY Zenon DEF T!Picked, PickedChain, PickedNext
<1>7. PickedChain(T!Picked(items, places), items, places)
  BY <1>5, <1>6, Zenon
<1> DEFINE picked == T!Picked(items, places)
<1>8. \A n \in 0 .. l : picked[n] = IF n = 0 THEN <<>> ELSE PickedNext(items, places, n, picked[n - 1])
  BY <1>7, Zenon DEF PickedChain
<1> HIDE DEF picked
<1>9. picked[0] = <<>> /\ \A n \in 1 .. l : picked[n] = PickedNext(items, places, n, picked[n - 1])
  BY <1>0, <1>8
<1> DEFINE good == {n \in 0 .. l : picked[n] \in Seq(Byte)}
<1> HIDE DEF l
<1>10. 0 \in good
  <2>1. <<>> \in Seq(Byte)
    OBVIOUS
  <2>2. picked[0] \in Seq(Byte)
    BY <1>9, <2>1
  <2>3. 0 \in 0 .. l
    BY <1>0
  <2> QED BY <2>2, <2>3
<1>11. ASSUME NEW n \in 1 .. l, n - 1 \in good PROVE n \in good
  <2>1. n \in 0 .. l /\ picked[n - 1] \in Seq(Byte)
    BY <1>0, <1>11
  <2>2. picked[n] \in Seq(Byte)
    BY <1>0a, <1>9, <2>1
  <2> QED BY <2>1, <2>2
<1> HIDE DEF good
<1>12. \A n \in 0 .. l : n \in good
  BY <1>0, <1>10, <1>11, UpTo
<1> QED BY <1>9, <1>12 DEF good, picked, l

\* The characters of a text, byte by byte.
LEMMA CharactersAre ==
  ASSUME NEW bytes \in Seq(Byte)
  PROVE  /\ T!CharactersUpTo(bytes)[0] = <<>>
         /\ \A n \in 1 .. Len(bytes) :
              T!CharactersUpTo(bytes)[n] =
                IF T!Begins(bytes, n) THEN Append(T!CharactersUpTo(bytes)[n - 1], T!CharacterAt(bytes, n))
                ELSE T!CharactersUpTo(bytes)[n - 1]
         /\ \A n \in 0 .. Len(bytes) : T!CharactersUpTo(bytes)[n] \in Seq(Byte)
<1> DEFINE items == [i \in DOMAIN bytes |-> T!CharacterAt(bytes, i)]
           places == {i \in DOMAIN bytes : T!Begins(bytes, i)}
<1>1. DOMAIN bytes = 1 .. Len(bytes) /\ Len(bytes) \in Nat
  OBVIOUS
<1>2. \A i \in 1 .. Len(bytes) : T!CharacterAt(bytes, i) \in Byte
  <2> TAKE i \in 1 .. Len(bytes)
  <2>1. bytes[i] \in Byte
    OBVIOUS
  <2>2. "?" \in Byte /\ "lc" \in Byte
    BY Zenon DEF Byte
  <2> QED BY <2>1, <2>2 DEF T!CharacterAt
<1>3. items \in Seq(Byte) /\ Len(items) = Len(bytes)
  BY <1>1, <1>2
<1>4. \A n \in 1 .. Len(bytes) : items[n] = T!CharacterAt(bytes, n) /\ (n \in places <=> T!Begins(bytes, n))
  BY <1>1
<1>5. T!CharactersUpTo(bytes) = T!Picked(items, places)
  BY DEF T!CharactersUpTo
<1> HIDE DEF items, places
<1>6. /\ T!Picked(items, places)[0] = <<>>
      /\ \A n \in 1 .. Len(bytes) :
           T!Picked(items, places)[n] = PickedNext(items, places, n, T!Picked(items, places)[n - 1])
      /\ \A n \in 0 .. Len(bytes) : T!Picked(items, places)[n] \in Seq(Byte)
  BY <1>3, PickedIs
<1> QED BY <1>4, <1>5, <1>6 DEF PickedNext

\* One character more.
LEMMA WholeOneMore ==
  ASSUME NEW chars \in Seq(Byte), NEW c \in Byte
  PROVE  T!Whole(Append(chars, c)) = IF c = "?" THEN T!Whole(chars) ELSE Append(T!Whole(chars), c)
<1> DEFINE more == Append(chars, c)
           l == Len(chars)
           those(s) == {k \in DOMAIN s : s[k] # "?"}
           old == T!Picked(chars, those(chars))
           new == T!Picked(more, those(more))
<1>1. /\ more \in Seq(Byte) /\ Len(more) = l + 1 /\ more[l + 1] = c /\ l \in Nat
      /\ \A k \in 1 .. l : more[k] = chars[k]
      /\ DOMAIN chars = 1 .. l /\ DOMAIN more = 1 .. l + 1
  <2>1. l \in Nat /\ DOMAIN chars = 1 .. l
    OBVIOUS
  <2>2. /\ more \in Seq(Byte) /\ Len(more) = l + 1 /\ more[l + 1] = c
        /\ \A k \in 1 .. l : more[k] = chars[k]
    BY AppendProperties
  <2> HIDE DEF more, l
  <2> QED BY <2>1, <2>2
<1>2. \A k \in 1 .. l : PickedNext(more, those(more), k, old[k - 1]) = PickedNext(chars, those(chars), k, old[k - 1])
  <2> TAKE k \in 1 .. l
  <2>1. k \in those(more) <=> k \in those(chars)
    BY <1>1
  <2> HIDE DEF more, those, old
  <2> QED BY <1>1, <2>1 DEF PickedNext
<1>3. l + 1 \in those(more) <=> c # "?"
  BY <1>1
<1> DEFINE oldPlaces == those(chars)
           newPlaces == those(more)
<1>3a. T!Whole(chars) = old[l] /\ T!Whole(more) = new[Len(more)]
  BY Zenon DEF T!Whole
<1> HIDE DEF more, those, l
<1>4. old[0] = <<>> /\ \A k \in 1 .. l : old[k] = PickedNext(chars, those(chars), k, old[k - 1])
  BY PickedIs DEF l
<1>5. new[0] = <<>> /\ \A k \in 1 .. Len(more) : new[k] = PickedNext(more, those(more), k, new[k - 1])
  BY <1>1, PickedIs
<1> DEFINE good == {k \in 0 .. l : new[k] = old[k]}
<1> HIDE DEF old, new
<1>6. 0 \in good
  BY <1>1, <1>4, <1>5
<1>7. ASSUME NEW k \in 1 .. l, k - 1 \in good PROVE k \in good
  <2>1. k \in 1 .. Len(more) /\ k \in 0 .. l /\ new[k - 1] = old[k - 1]
    BY <1>1, <1>7
  <2> QED BY <1>2, <1>4, <1>5, <2>1
<1> HIDE DEF good
<1>8. \A k \in 0 .. l : k \in good
  BY <1>1, <1>6, <1>7, UpTo
<1>9. new[l] = old[l]
  BY <1>1, <1>8 DEF good
<1>10. new[l + 1] = IF c = "?" THEN new[l] ELSE Append(new[l], c)
  <2>1. l + 1 \in 1 .. Len(more) /\ (l + 1) - 1 = l
    BY <1>1
  <2>2. new[l + 1] = PickedNext(more, those(more), l + 1, new[(l + 1) - 1])
    BY <1>5, <2>1
  <2> QED BY <1>1, <1>3, <2>1, <2>2 DEF PickedNext
<1> QED BY <1>1, <1>3a, <1>9, <1>10 DEF more


\* A part of a text, by its places.
LEMMA PieceOf ==
  ASSUME NEW bytes \in Seq(Byte), NEW s \in 0 .. Len(bytes), NEW b \in 0 .. Len(bytes), s < b,
         NEW d \in {0, 1}, d <= s
  PROVE  LET piece == SubSeq(bytes, (s + 1) - d, b) IN
         /\ piece \in Seq(Byte) /\ Len(piece) = d + (b - s)
         /\ \A k \in 1 .. b - s : piece[d + k] = bytes[s + k]
         /\ d = 1 => piece[1] = bytes[s]
<1> DEFINE first == (s + 1) - d
           piece == SubSeq(bytes, first, b)
<1>1. /\ s \in Nat /\ b \in Nat /\ Len(bytes) \in Nat /\ d \in Nat
      /\ first \in Nat /\ first \in 1 .. Len(bytes) + 1 /\ (b - first) + 1 = d + (b - s)
  OBVIOUS
<1>2. /\ piece \in Seq(Byte) /\ Len(piece) = (b - first) + 1
      /\ \A i \in 1 .. (b - first) + 1 : piece[i] = bytes[(first + i) - 1]
  <2> HIDE DEF first
  <2>1. /\ first \in 1 .. Len(bytes) + 1 /\ b \in first - 1 .. Len(bytes)
    BY <1>1 DEF first
  <2> QED BY <1>1, <2>1, SubSeqProperties
<1>3. \A k \in 1 .. b - s : d + k \in 1 .. (b - first) + 1 /\ (first + (d + k)) - 1 = s + k
  BY <1>1
<1>4. d = 1 => 1 \in 1 .. (b - first) + 1 /\ (first + 1) - 1 = s
  BY <1>1
<1>5. \A k \in 1 .. b - s : piece[d + k] = bytes[s + k]
  <2> HIDE DEF piece, first
  <2> QED BY <1>2, <1>3
<1>6. d = 1 => piece[1] = bytes[s]
  <2> HIDE DEF piece, first
  <2> QED BY <1>2, <1>4
<1> QED BY <1>1, <1>2, <1>5, <1>6

\* The part goes on after its first d bytes as the text does after s, up to b.
Follows(piece, bytes, d, s, n, b) ==
  /\ s + n = b /\ Len(piece) = d + n
  /\ \A k \in 1 .. n : piece[d + k] = bytes[s + k]

\* Where a character begins in the one, the same does in the other.
SameAt(piece, j, bytes, i) ==
  /\ T!Begins(piece, j) <=> T!Begins(bytes, i)
  /\ T!Begins(bytes, i) => T!CharacterAt(piece, j) = T!CharacterAt(bytes, i) /\ T!CharacterAt(bytes, i) # "?"

\* The characters of a part are those of the text, if the part begins and ends
\* where one does, or begins with the last byte of one.
LEMMA SameCharacters ==
  ASSUME NEW bytes \in Seq(Byte), T!IsText(bytes), NEW s \in 0 .. Len(bytes), NEW b \in 0 .. Len(bytes), s < b,
         T!IsBoundary(bytes, s), T!IsBoundary(bytes, b),
         NEW d \in Nat, NEW n \in Nat, NEW piece \in Seq(Byte), Follows(piece, bytes, d, s, n, b),
         NEW k \in 1 .. n
  PROVE  SameAt(piece, d + k, bytes, s + k)
<1>0. s + n = b /\ Len(piece) = d + n /\ \A m \in 1 .. n : piece[d + m] = bytes[s + m]
  BY DEF Follows
<1> DEFINE i == s + k
           j == d + k
<1>1. /\ i \in 1 .. Len(bytes) /\ DOMAIN bytes = 1 .. Len(bytes) /\ j \in Nat /\ Len(bytes) \in Nat
      /\ piece[j] = bytes[i] /\ j >= 1 /\ i <= b /\ (j < Len(piece) <=> i < b)
      /\ (k = 1 => i = s + 1) /\ (k > 1 => j > 1)
  BY <1>0
<1>2. /\ bytes[i] # "?"
      /\ bytes[i] = "c" => i > 1 /\ bytes[i - 1] = "l"
      /\ bytes[i] = "l" => i < Len(bytes) /\ bytes[i + 1] = "c"
  BY <1>1 DEF T!IsText
<1>3. k > 1 => piece[j - 1] = bytes[i - 1]
  <2> SUFFICES ASSUME k > 1 PROVE piece[j - 1] = bytes[i - 1]
    OBVIOUS
  <2>1. PICK m \in 1 .. n : m = k - 1
    <3>1. k - 1 \in 1 .. n
      BY <1>1
    <3> QED BY <3>1
  <2>2. piece[d + m] = bytes[s + m] /\ d + m = j - 1 /\ s + m = i - 1
    <3>1. m \in Int /\ k \in Int /\ d \in Int /\ s \in Int
      OBVIOUS
    <3>2. d + m = j - 1 /\ s + m = i - 1
      BY <2>1, <3>1
    <3> QED BY <1>0, <3>2
  <2> QED BY <2>2
<1>4. i < b => piece[j + 1] = bytes[i + 1]
  <2> SUFFICES ASSUME i < b PROVE piece[j + 1] = bytes[i + 1]
    OBVIOUS
  <2>1. PICK m \in 1 .. n : m = k + 1
    <3>1. k + 1 \in 1 .. n
      BY <1>0, <1>1
    <3> QED BY <3>1
  <2>2. piece[d + m] = bytes[s + m] /\ d + m = j + 1 /\ s + m = i + 1
    <3>1. m \in Int /\ k \in Int /\ d \in Int /\ s \in Int
      OBVIOUS
    <3>2. d + m = j + 1 /\ s + m = i + 1
      BY <2>1, <3>1
    <3> QED BY <1>0, <3>2
  <2> QED BY <2>2
<1>5. k = 1 => bytes[i] # "c"
  <2>1. bytes[s + 1] # "c"
    BY DEF T!IsBoundary
  <2> QED BY <1>1, <2>1
<1>6. i = b => ~(i < Len(bytes) /\ bytes[i + 1] = "c")
  <2>1. b >= Len(bytes) \/ bytes[b + 1] # "c"
    BY DEF T!IsBoundary
  <2> QED BY <1>1, <2>1
<1> HIDE DEF i, j
<1>9. SUFFICES SameAt(piece, j, bytes, i)
  BY DEF i, j
<1>7. CASE bytes[i] = "c"
  <2>1. k > 1 /\ piece[j - 1] = "l" /\ j # 1 /\ i # 1 /\ bytes[i - 1] = "l"
    BY <1>1, <1>2, <1>3, <1>5, <1>7
  <2>2. ~T!Begins(piece, j) /\ ~T!Begins(bytes, i)
    BY <1>1, <1>7, <2>1 DEF T!Begins
  <2> QED BY <2>2 DEF SameAt
<1>8. CASE bytes[i] # "c"
  <2>1. T!Begins(piece, j) /\ T!Begins(bytes, i)
    BY <1>1, <1>8 DEF T!Begins
  <2>2. T!CharacterAt(piece, j) = T!CharacterAt(bytes, i) /\ T!CharacterAt(bytes, i) # "?"
    <3>1. CASE bytes[i] = "l"
      <4>1. i < Len(bytes) /\ bytes[i + 1] = "c" /\ i < b
        BY <1>1, <1>2, <1>6, <3>1
      <4>2. piece[j + 1] = "c" /\ j < Len(piece)
        BY <1>1, <1>4, <4>1
      <4>3. T!CharacterAt(piece, j) = "lc" /\ T!CharacterAt(bytes, i) = "lc"
        BY <1>1, <3>1, <4>1, <4>2 DEF T!CharacterAt
      <4> QED BY <4>3
    <3>2. CASE bytes[i] # "l"
      <4>1. T!CharacterAt(piece, j) = bytes[i] /\ T!CharacterAt(bytes, i) = bytes[i]
        BY <1>1, <1>8, <3>2 DEF T!CharacterAt
      <4> QED BY <1>2, <4>1
    <3> QED BY <3>1, <3>2
  <2> QED BY <2>1, <2>2 DEF SameAt
<1> QED BY <1>7, <1>8

LEMMA Joined ==
  ASSUME NEW x \in Seq(Byte), NEW y \in Seq(Byte), NEW c \in Byte
  PROVE  /\ x \o Append(y, c) = Append(x \o y, c) /\ x \o y \in Seq(Byte)
         /\ x \o <<>> = x /\ Append(<<>>, c) = <<c>> /\ x \o <<c>> = Append(x, c)
OBVIOUS

LEMMA AddsOne ==
  ASSUME NEW x \in Seq(Byte), NEW y \in Seq(Byte), NEW c \in Byte, c # "?"
  PROVE  T!Whole(x \o Append(y, c)) = Append(T!Whole(x \o y), c)
<1>1. x \o y \in Seq(Byte) /\ x \o Append(y, c) = Append(x \o y, c)
  BY Joined
<1>2. T!Whole(Append(x \o y, c)) = Append(T!Whole(x \o y), c)
  BY <1>1, WholeOneMore
<1> QED BY <1>1, <1>2

\* What a part adds to what was read up to s.
Plus(i, m, k) == i = m + k

LEMMA PartAdds ==
  ASSUME NEW bytes \in Seq(Byte), T!IsText(bytes), NEW s \in 0 .. Len(bytes), NEW b \in 0 .. Len(bytes), s < b,
         T!IsBoundary(bytes, s), T!IsBoundary(bytes, b),
         NEW d \in {0, 1}, NEW n \in Nat, NEW piece \in Seq(Byte), Follows(piece, bytes, d, s, n, b),
         d = 1 => piece[1] = "c",
         NEW got \in Seq(Byte), T!Whole(got) = T!CharactersUpTo(bytes)[s]
  PROVE  /\ got \o T!Characters(piece) \in Seq(Byte)
         /\ T!Whole(got \o T!Characters(piece)) = T!CharactersUpTo(bytes)[b]
<1>1. /\ Len(piece) = d + n /\ s + n = b /\ d \in Nat /\ s \in Nat
      /\ \A k \in 1 .. n : piece[d + k] = bytes[s + k]
  BY DEF Follows
<1> DEFINE f == T!CharactersUpTo(bytes)
           g == T!CharactersUpTo(piece)
           good == {k \in 0 .. n : T!Whole(got \o g[d + k]) = f[s + k]}
<1>2. /\ \A i \in 1 .. Len(bytes) :
           f[i] = IF T!Begins(bytes, i) THEN Append(f[i - 1], T!CharacterAt(bytes, i)) ELSE f[i - 1]
      /\ T!Whole(got) = f[s]
  BY CharactersAre
<1>3. /\ g[0] = <<>>
      /\ \A i \in 1 .. Len(piece) :
           g[i] = IF T!Begins(piece, i) THEN Append(g[i - 1], T!CharacterAt(piece, i)) ELSE g[i - 1]
      /\ \A i \in 0 .. Len(piece) : g[i] \in Seq(Byte)
  BY CharactersAre
<1>4. ASSUME NEW k \in 1 .. n
      PROVE  SameAt(piece, d + k, bytes, s + k)
  <2>1. d \in Nat
    OBVIOUS
  <2> HIDE DEF f, g
  <2> QED BY <2>1, SameCharacters
<1>5. T!Characters(piece) = g[d + n]
  BY <1>1 DEF T!Characters
<1> HIDE DEF f, g
<1>6. 0 \in good
  <2>1. 0 \in 0 .. n /\ d + 0 = d /\ s + 0 = s
    BY <1>1
  <2>2. T!Whole(got \o g[d]) = f[s]
    <3>1. CASE d = 0
      <4>1. got \o g[d] = got \o <<>>
        BY <1>3, <3>1
      <4>2. got \o <<>> = got
        BY ConcatEmptySeq
      <4> QED BY <1>2, <4>1, <4>2
    <3>2. CASE d = 1
      <4>1. T!Begins(piece, 1) /\ T!CharacterAt(piece, 1) = "?"
        BY <1>1, <3>2 DEF T!Begins, T!CharacterAt
      <4>2. 1 \in 1 .. Len(piece) /\ 1 - 1 = 0
        BY <1>1, <3>2
      <4>3. g[1] = Append(<<>>, "?")
        BY <1>3, <4>1, <4>2
      <4>4. Append(<<>>, "?") = <<"?">> /\ got \o <<"?">> = Append(got, "?") /\ "?" \in Byte
        <5>1. "?" \in Byte
          BY Zenon DEF Byte
        <5> QED BY <5>1, Joined
      <4>5. T!Whole(Append(got, "?")) = T!Whole(got)
        BY <4>4, WholeOneMore
      <4> QED BY <1>2, <3>2, <4>3, <4>4, <4>5
    <3> QED BY <3>1, <3>2
  <2> QED BY <2>1, <2>2
<1>7. ASSUME NEW k \in 1 .. n, k - 1 \in good PROVE k \in good
  <2> PICK i, j : Plus(i, s, k) /\ Plus(j, d, k)
    BY DEF Plus
  <2>1. /\ i \in 1 .. Len(bytes) /\ j \in 1 .. Len(piece) /\ s + (k - 1) = i - 1 /\ d + (k - 1) = j - 1
        /\ j - 1 \in 0 .. Len(piece) /\ k \in 0 .. n /\ i = s + k /\ j = d + k
    BY <1>1 DEF Plus
  <2>2. T!Whole(got \o g[j - 1]) = f[i - 1]
    BY <1>7, <2>1
  <2>3. g[j - 1] \in Seq(Byte)
    BY <1>3, <2>1
  <2> HIDE DEF good
  <2>3a. SameAt(piece, j, bytes, i)
    BY <1>4, <2>1
  <2>4. T!Whole(got \o g[j]) = f[i]
    <3>1. CASE ~T!Begins(bytes, i)
      <4>1. f[i] = f[i - 1] /\ g[j] = g[j - 1]
        BY <1>2, <1>3, <2>1, <2>3a, <3>1 DEF SameAt
      <4> QED BY <2>2, <4>1
    <3>2. CASE T!Begins(bytes, i)
      <4> DEFINE c == T!CharacterAt(bytes, i)
      <4>1. T!Begins(piece, j) /\ T!CharacterAt(piece, j) = c /\ c # "?"
        BY <2>3a, <3>2 DEF SameAt
      <4>2. f[i] = Append(f[i - 1], c) /\ g[j] = Append(g[j - 1], c)
        BY <1>2, <1>3, <2>1, <3>2, <4>1
      <4>3. c \in Byte
        <5>1. bytes[i] \in Byte
          BY <2>1
        <5>2. "lc" \in Byte /\ "?" \in Byte
          BY Zenon DEF Byte
        <5> QED BY <5>1, <5>2 DEF T!CharacterAt
      <4> HIDE DEF c
      <4>4. T!Whole(got \o Append(g[j - 1], c)) = Append(T!Whole(got \o g[j - 1]), c)
        BY <2>3, <4>1, <4>3, AddsOne
      <4> QED BY <2>2, <4>2, <4>4
    <3> QED BY <3>1, <3>2
  <2> QED BY <2>1, <2>4 DEF good
<1> HIDE DEF good
<1>8. \A k \in 0 .. n : k \in good
  BY <1>1, <1>6, <1>7, UpTo
<1>9. n \in 0 .. n /\ d + n \in 0 .. Len(piece)
  BY <1>1
<1>10. T!Whole(got \o g[d + n]) = f[s + n]
  BY <1>8, <1>9 DEF good
<1>11. got \o g[d + n] \in Seq(Byte)
  BY <1>3, <1>9, Joined
<1> QED BY <1>1, <1>5, <1>10, <1>11 DEF f

\* What a range adds to what was read up to s.
LEMMA RangeAdds ==
  ASSUME NEW bytes \in Seq(Byte), T!IsText(bytes), NEW s \in 0 .. Len(bytes), NEW b \in 0 .. Len(bytes), s < b,
         T!IsBoundary(bytes, s), T!IsBoundary(bytes, b),
         NEW d \in {0, 1}, d <= s, d = 1 => bytes[s] = "c",
         NEW got \in Seq(Byte), T!Whole(got) = T!CharactersUpTo(bytes)[s]
  PROVE  LET piece == SubSeq(bytes, (s + 1) - d, b) IN
         /\ got \o T!Characters(piece) \in Seq(Byte)
         /\ T!Whole(got \o T!Characters(piece)) = T!CharactersUpTo(bytes)[b]
<1> DEFINE piece == SubSeq(bytes, (s + 1) - d, b)
           n == b - s
<1>1. /\ piece \in Seq(Byte) /\ Len(piece) = d + n
      /\ \A k \in 1 .. n : piece[d + k] = bytes[s + k]
      /\ d = 1 => piece[1] = bytes[s]
  BY PieceOf
<1>2. n \in Nat /\ s + n = b
  OBVIOUS
<1> HIDE DEF piece, n
<1>3. Follows(piece, bytes, d, s, n, b)
  BY <1>1, <1>2 DEF Follows
<1>4. d = 1 => piece[1] = "c"
  BY <1>1
<1>5. /\ got \o T!Characters(piece) \in Seq(Byte)
      /\ T!Whole(got \o T!Characters(piece)) = T!CharactersUpTo(bytes)[b]
  BY <1>1, <1>2, <1>3, <1>4, PartAdds
<1> QED BY <1>5 DEF piece


\* The range that is read when a reader goes on at next.
LEMMA RangeIs ==
  ASSUME NEW bytes \in Seq(Byte), T!IsText(bytes), NEW s \in 0 .. Len(bytes), s < Len(bytes), NEW count \in Nat,
         T!ResultAssumption
  PROVE  \E d \in {0, 1}, b \in 0 .. Len(bytes) :
           /\ T!RangeOf(bytes, s + 1, count) = <<(s + 1) - d, b>>
           /\ s < b /\ T!IsBoundary(bytes, b) /\ d <= s /\ (d = 1 => bytes[s] = "c")
<1> DEFINE l == Len(bytes)
           asked == IF count = 0 THEN ReadDefault ELSE T!Lesser(count, ReadMax)
           end == T!Lesser(l, s + asked)
           b == T!Forward(bytes, end)
           d == IF s > 0 /\ bytes[s] = "c" THEN 1 ELSE 0
<1>1. l \in Nat /\ s \in Nat
  OBVIOUS
<1>2. asked \in Nat /\ asked >= 1
  BY DEF T!ResultAssumption, T!Lesser
<1>3. end \in 0 .. l /\ s < end
  <2> HIDE DEF asked
  <2> QED BY <1>1, <1>2 DEF T!Lesser
<1>4. T!Backward(bytes, s) + 1 = (s + 1) - d
  BY <1>1 DEF T!Backward
<1>5. T!RangeOf(bytes, s + 1, count) = <<T!Backward(bytes, s) + 1, b>>
  <2>1. s + 1 # 0 /\ T!Lesser(s + 1, l + 1) - 1 = s
    BY <1>1 DEF T!Lesser
  <2> QED BY <2>1 DEF T!RangeOf
<1> HIDE DEF end
<1>6. b \in 0 .. l /\ s < b /\ T!IsBoundary(bytes, b)
  <2>1. CASE T!IsBoundary(bytes, end)
    <3>1. b = end
      BY <2>1 DEF T!Forward
    <3> QED BY <1>3, <2>1, <3>1
  <2>2. CASE ~T!IsBoundary(bytes, end)
    <3>1. b = end + 1 /\ end < l /\ bytes[end + 1] = "c"
      BY <1>1, <1>3, <2>2 DEF T!Forward, T!IsBoundary
    <3>2. ASSUME end + 1 < l PROVE bytes[(end + 1) + 1] # "c"
      <4> PICK i : i = (end + 1) + 1
        OBVIOUS
      <4>1. i \in 1 .. l /\ i - 1 = end + 1 /\ DOMAIN bytes = 1 .. l
        BY <1>1, <1>3, <3>2
      <4>2. bytes[i] = "c" => bytes[i - 1] = "l"
        BY <4>1 DEF T!IsText
      <4> QED BY <3>1, <4>1, <4>2
    <3>3. T!IsBoundary(bytes, end + 1)
      BY <1>1, <1>3, <3>2 DEF T!IsBoundary
    <3> QED BY <1>1, <1>3, <3>1, <3>3
  <2> QED BY <2>1, <2>2
<1>7. d \in {0, 1} /\ d <= s /\ (d = 1 => bytes[s] = "c")
  BY <1>1
<1> HIDE DEF b, d
<1> QED BY <1>4, <1>5, <1>6, <1>7

\* What files hold, and what agents are about to write, whoever shares a handle.
Ever == Texts \cup {<<>>, T!Torn}
Large == {u \in Texts : Len(u) > Threshold}
Busy(a) ==
  {T!Idle, [at |-> "panicked"]} \cup [at : {"open"}, call : CallIds(a), text : Large]
    \cup [at : {"write", "rename"}, call : CallIds(a), text : Large, on : {"tmp", "file", "gone"}]
HeldInv ==
  /\ files = [h \in T!Handles |-> files[h]] /\ tmp = [h \in T!Handles |-> tmp[h]]
  /\ \A h \in T!Handles : files[h] \in Ever /\ tmp[h] \in Ever
BusyInv == taking = [a \in Agents |-> taking[a]] /\ \A a \in Agents : taking[a] \in Busy(a)

LEMMA BusyFacts ==
  ASSUME NEW a \in Agents, NEW job \in Busy(a)
  PROVE  /\ job.at \in {"open", "write", "rename"} => job.call \in CallIds(a) /\ job.text \in Large
         /\ job.at \in {"write", "rename"} =>
              job \in [at : {"write", "rename"}, call : CallIds(a), text : Large, on : {"tmp", "file", "gone"}]
BY DEF Busy, T!Idle

LEMMA OneBusy ==
  ASSUME BusyInv, NEW a \in Agents, NEW job \in Busy(a), taking' = [taking EXCEPT ![a] = job]
  PROVE  BusyInv'
<1>1. \A b \in Agents : taking'[b] = IF b = a THEN job ELSE taking[b]
  BY DEF BusyInv
<1> QED BY <1>1 DEF BusyInv

LEMMA InlineBusy ==
  ASSUME BusyInv, NEW a \in Agents, NEW by, NEW result, T!Inline(a, by, result)
  PROVE  BusyInv'
<1>1. PICK job \in {T!Idle, [at |-> "panicked"]} : taking' = [taking EXCEPT ![a] = job]
  BY DEF T!Inline
<1>2. job \in Busy(a)
  BY DEF Busy
<1> QED BY <1>1, <1>2, OneBusy

LEMMA HeldStep == ASSUME HeldInv, BusyInv, [T!Next]_(T!vars) PROVE HeldInv' /\ BusyInv'
<1>1. ASSUME NEW a \in Agents, NEW by \in CallIds(a), NEW result \in Texts, T!Result(a, by, result)
      PROVE  HeldInv' /\ BusyInv'
  <2>1. UNCHANGED <<files, tmp>>
    BY <1>1 DEF T!Result
  <2>2. CASE Len(result) > Threshold
    <3>1. taking' = [taking EXCEPT ![a] = [at |-> "open", call |-> by, text |-> result]]
      BY <1>1, <2>2 DEF T!Result
    <3>2. [at |-> "open", call |-> by, text |-> result] \in Busy(a)
      BY <2>2 DEF Busy, Large
    <3> QED BY <2>1, <3>1, <3>2, OneBusy DEF HeldInv
  <2>3. CASE ~(Len(result) > Threshold)
    <3>1. T!Inline(a, by, result)
      BY <1>1, <2>3 DEF T!Result
    <3> QED BY <2>1, <3>1, InlineBusy DEF HeldInv
  <2> QED BY <2>2, <2>3
<1>2. ASSUME NEW a \in Agents, T!Open(a) PROVE HeldInv' /\ BusyInv'
  <2>1. taking[a].at = "open" /\ taking[a] \in Busy(a)
    BY <1>2 DEF T!Open, BusyInv
  <2>2. taking[a].call \in CallIds(a) /\ taking[a].text \in Large
    BY <2>1, BusyFacts
  <2>3. [at |-> "write", call |-> taking[a].call, text |-> taking[a].text, on |-> "tmp"] \in Busy(a)
    BY <2>2 DEF Busy
  <2>4. taking' = [taking EXCEPT ![a] = [at |-> "write", call |-> taking[a].call, text |-> taking[a].text, on |-> "tmp"]]
    BY <1>2 DEF T!Open, BusyInv
  <2>5. files' = files /\ tmp' = [tmp EXCEPT ![T!Job(a)] = T!Torn]
    BY <1>2 DEF T!Open
  <2>6. HeldInv'
    BY <2>5 DEF HeldInv, Ever
  <2> QED BY <2>3, <2>4, <2>6, OneBusy
<1>3. ASSUME NEW a \in Agents, T!Write(a) PROVE HeldInv' /\ BusyInv'
  <2>1. taking[a].at = "write" /\ taking[a] \in Busy(a)
    BY <1>3 DEF T!Write, BusyInv
  <2>2. /\ taking[a].text \in Large
        /\ taking[a] \in [at : {"write", "rename"}, call : CallIds(a), text : Large, on : {"tmp", "file", "gone"}]
    BY <2>1, BusyFacts
  <2>3. [taking[a] EXCEPT !.at = "rename"] \in Busy(a)
    BY <2>2 DEF Busy
  <2>4. taking' = [taking EXCEPT ![a] = [taking[a] EXCEPT !.at = "rename"]]
    BY <1>3 DEF T!Write
  <2>5. /\ tmp' = tmp \/ tmp' = [tmp EXCEPT ![T!Job(a)] = taking[a].text]
        /\ files' = files \/ files' = [files EXCEPT ![T!Job(a)] = taking[a].text]
    BY <1>3 DEF T!Write
  <2>6. HeldInv'
    <3> PICK result \in Large : result = taking[a].text
      BY <2>2
    <3>1. result \in Ever
      BY DEF Ever, Large
    <3> HIDE DEF Ever
    <3> QED BY <2>5, <3>1 DEF HeldInv
  <2> QED BY <2>3, <2>4, <2>6, OneBusy
<1>4. ASSUME NEW a \in Agents, T!Rename(a) PROVE HeldInv' /\ BusyInv'
  <2>1. /\ files' = [files EXCEPT ![T!Job(a)] = tmp[T!Job(a)]]
        /\ tmp' = [tmp EXCEPT ![T!Job(a)] = <<>>]
    BY <1>4 DEF T!Rename
  <2>2. HeldInv'
    BY <2>1 DEF HeldInv, Ever
  <2>3. PICK job \in {T!Idle, [at |-> "panicked"]} : taking' = [T!Moved(a) EXCEPT ![a] = job]
    BY <1>4 DEF T!Rename
  <2> DEFINE moved == T!Moved(a)
  <2>4. moved = [b \in Agents |-> moved[b]]
    BY DEF T!Moved
  <2>5. ASSUME NEW b \in Agents PROVE moved[b] \in Busy(b)
    <3>0. taking[b] \in Busy(b)
      BY DEF BusyInv
    <3>1. CASE taking[b].at \in {"write", "rename"} /\ T!Job(b) = T!Job(a)
      <4>1. taking[b] \in [at : {"write", "rename"}, call : CallIds(b), text : Large, on : {"tmp", "file", "gone"}]
        BY <3>0, <3>1, BusyFacts
      <4>2. PICK on \in {"file", "gone"} : moved[b] = [taking[b] EXCEPT !.on = on]
        BY <3>1 DEF T!Moved
      <4> HIDE DEF moved
      <4> QED BY <4>1, <4>2 DEF Busy
    <3>2. CASE ~(taking[b].at \in {"write", "rename"} /\ T!Job(b) = T!Job(a))
      <4>1. moved[b] = taking[b]
        BY <3>2 DEF T!Moved
      <4> QED BY <3>0, <4>1
    <3> QED BY <3>1, <3>2
  <2>6. job \in Busy(a)
    BY DEF Busy
  <2> HIDE DEF moved
  <2>7. \A b \in Agents : taking'[b] = IF b = a THEN job ELSE moved[b]
    BY <2>3, <2>4 DEF moved
  <2>8. taking' = [b \in Agents |-> taking'[b]]
    BY <2>3, <2>4 DEF moved
  <2> QED BY <2>2, <2>5, <2>6, <2>7, <2>8 DEF BusyInv
<1>5. ASSUME NEW a \in Agents, T!StoreFails(a) PROVE HeldInv' /\ BusyInv'
  <2>1. UNCHANGED <<files, tmp>> /\ T!Inline(a, taking[a].call, taking[a].text)
    BY <1>5 DEF T!StoreFails
  <2> QED BY <2>1, InlineBusy DEF HeldInv
<1>6. ASSUME NEW a \in Agents, T!Kill(a) PROVE HeldInv' /\ BusyInv'
  <2>1. UNCHANGED <<files, tmp>> /\ taking' = [taking EXCEPT ![a] = T!Idle] /\ T!Idle \in Busy(a)
    BY <1>6 DEF T!Kill, Busy
  <2> QED BY <2>1, OneBusy DEF HeldInv
<1>7. ASSUME NEW a \in Agents, NEW h, NEW query, T!Search(a, h, query) PROVE HeldInv' /\ BusyInv'
  <2>1. UNCHANGED <<files, tmp>> /\ taking' = [taking EXCEPT ![a] = [at |-> "panicked"]]
    BY <1>7 DEF T!Search
  <2>2. [at |-> "panicked"] \in Busy(a)
    BY DEF Busy
  <2> QED BY <2>1, <2>2, OneBusy DEF HeldInv
<1>8. ASSUME NEW h, NEW count, T!Read(h, count) PROVE HeldInv' /\ BusyInv'
  BY <1>8 DEF T!Read, HeldInv, BusyInv
<1>9. CASE UNCHANGED T!vars
  BY <1>9 DEF T!vars, HeldInv, BusyInv
<1> QED BY <1>1, <1>2, <1>3, <1>4, <1>5, <1>6, <1>7, <1>8, <1>9 DEF T!Next


\* What a reader has is what the text has up to where it goes on.
ReaderInv ==
  /\ reader.got \in Seq(Byte)
  /\ reader.of = <<>> => reader.next = 1 /\ reader.got = <<>>
  /\ reader.of # <<>> =>
       /\ reader.of \in Ever /\ reader.next \in 1 .. Len(reader.of) + 1
       /\ T!IsBoundary(reader.of, reader.next - 1)
       /\ T!Whole(reader.got) = T!CharactersUpTo(reader.of)[reader.next - 1]

LEMMA EverIsText ==
  ASSUME T!ResultAssumption, NEW bytes \in Ever
  PROVE  bytes \in Seq(Byte) /\ T!IsText(bytes)
<1>1. CASE bytes \in Texts
  <2>1. bytes \in Seq(STRING) /\ T!IsText(bytes)
    BY <1>1 DEF T!ResultAssumption
  <2> QED BY <2>1 DEF Byte
<1>2. CASE bytes = <<>>
  BY <1>2 DEF T!IsText
<1>3. CASE bytes = T!Torn
  <2>1. bytes = <<"torn">>
    BY <1>3 DEF T!Torn
  <2>2. bytes \in Seq(Byte)
    BY <2>1 DEF Byte
  <2>3. T!IsText(bytes)
    <3>1. DOMAIN bytes = {1} /\ bytes[1] = "torn"
      BY <2>1
    <3> QED BY <3>1 DEF T!IsText
  <2> QED BY <2>2, <2>3
<1> QED BY <1>1, <1>2, <1>3 DEF Ever

\* One range more.
LEMMA GoesOn ==
  ASSUME T!ResultAssumption, NEW bytes \in Seq(Byte), T!IsText(bytes), NEW count \in Nat,
         NEW s \in 0 .. Len(bytes), s < Len(bytes), T!IsBoundary(bytes, s),
         NEW got \in Seq(Byte), T!Whole(got) = T!CharactersUpTo(bytes)[s]
  PROVE  \E first, b \in 0 .. Len(bytes) :
           /\ T!RangeOf(bytes, s + 1, count) = <<first, b>> /\ s < b /\ T!IsBoundary(bytes, b)
           /\ got \o T!Characters(SubSeq(bytes, first, b)) \in Seq(Byte)
           /\ T!Whole(got \o T!Characters(SubSeq(bytes, first, b))) = T!CharactersUpTo(bytes)[b]
<1>1. PICK d \in {0, 1}, b \in 0 .. Len(bytes) :
           /\ T!RangeOf(bytes, s + 1, count) = <<(s + 1) - d, b>>
           /\ s < b /\ T!IsBoundary(bytes, b) /\ d <= s /\ (d = 1 => bytes[s] = "c")
  BY RangeIs
<1> DEFINE first == (s + 1) - d
<1>2. /\ got \o T!Characters(SubSeq(bytes, first, b)) \in Seq(Byte)
      /\ T!Whole(got \o T!Characters(SubSeq(bytes, first, b))) = T!CharactersUpTo(bytes)[b]
  BY <1>1, RangeAdds
<1>3. first \in 0 .. Len(bytes)
  BY <1>1
<1>4. T!RangeOf(bytes, s + 1, count) = <<first, b>>
  BY <1>1
<1> HIDE DEF first
<1> QED BY <1>1, <1>2, <1>3, <1>4

LEMMA ReadStep ==
  ASSUME T!ResultAssumption, HeldInv, ReaderInv, NEW h \in T!Handles, NEW count \in Nat, T!Read(h, count)
  PROVE  ReaderInv'
<1>0. T!ResultAssumption
  OBVIOUS
<1> PICK bytes : bytes = files[h]
  OBVIOUS
<1>1. bytes \in Ever /\ bytes \in Seq(Byte) /\ T!IsText(bytes)
  BY EverIsText DEF HeldInv
<1>2. /\ reader.next <= Len(bytes) /\ reader.of \in {<<>>, bytes}
      /\ reader' = [of |-> bytes, next |-> T!RangeOf(bytes, reader.next, count)[2] + 1,
                    got |-> reader.got \o T!Characters(SubSeq(bytes, T!RangeOf(bytes, reader.next, count)[1],
                                                              T!RangeOf(bytes, reader.next, count)[2]))]
  BY DEF T!Read
<1> PICK got : got = reader.got
  OBVIOUS
<1>3. /\ got \in Seq(Byte) /\ reader.next \in 1 .. Len(bytes) + 1
      /\ T!IsBoundary(bytes, reader.next - 1)
      /\ T!Whole(got) = T!CharactersUpTo(bytes)[reader.next - 1]
  <2>1. CASE reader.of = bytes /\ bytes # <<>>
    BY <2>1 DEF ReaderInv
  <2>2. CASE reader.of = <<>>
    <3>1. reader.next = 1 /\ got = <<>>
      BY <2>2 DEF ReaderInv
    <3>2. T!Whole(<<>>) = <<>>
      <4>1. <<>> \in Seq(Byte) /\ Len(<<>>) = 0
        OBVIOUS
      <4>2. T!Picked(<<>>, {k \in DOMAIN <<>> : <<>>[k] # "?"})[0] = <<>>
        BY <4>1, PickedIs
      <4> QED BY <4>1, <4>2 DEF T!Whole
    <3>3. T!CharactersUpTo(bytes)[0] = <<>>
      BY <1>1, CharactersAre
    <3>4. Len(bytes) \in Nat /\ Len(bytes) >= 1
      BY <1>1, <1>2, <3>1
    <3>5. T!IsBoundary(bytes, 0)
      <4>1. 1 \in DOMAIN bytes
        BY <1>1, <3>4
      <4>2. bytes[1] # "c"
        BY <1>1, <4>1 DEF T!IsText
      <4> QED BY <4>2 DEF T!IsBoundary
    <3>6. 1 - 1 = 0 /\ 1 \in 1 .. Len(bytes) + 1 /\ got \in Seq(Byte)
      BY <3>1, <3>4
    <3> QED BY <3>1, <3>2, <3>3, <3>5, <3>6
  <2> QED BY <1>2, <2>1, <2>2
<1> PICK s : s = reader.next - 1
  OBVIOUS
<1>4. /\ s \in 0 .. Len(bytes) /\ s < Len(bytes) /\ reader.next = s + 1 /\ T!IsBoundary(bytes, s)
      /\ T!Whole(got) = T!CharactersUpTo(bytes)[s]
  BY <1>1, <1>2, <1>3
<1>5. PICK first \in 0 .. Len(bytes), b \in 0 .. Len(bytes) :
           /\ T!RangeOf(bytes, s + 1, count) = <<first, b>> /\ s < b /\ T!IsBoundary(bytes, b)
           /\ got \o T!Characters(SubSeq(bytes, first, b)) \in Seq(Byte)
           /\ T!Whole(got \o T!Characters(SubSeq(bytes, first, b))) = T!CharactersUpTo(bytes)[b]
  BY <1>0, <1>1, <1>3, <1>4, GoesOn
<1> DEFINE more == got \o T!Characters(SubSeq(bytes, first, b))
<1>6. /\ T!RangeOf(bytes, reader.next, count)[1] = first /\ T!RangeOf(bytes, reader.next, count)[2] = b
  BY <1>4, <1>5
<1>7. reader' = [of |-> bytes, next |-> b + 1, got |-> more]
  BY <1>2, <1>6
<1>8. more \in Seq(Byte) /\ T!Whole(more) = T!CharactersUpTo(bytes)[b]
  BY <1>5
<1> HIDE DEF more
<1>9. reader'.of = bytes /\ reader'.next = b + 1 /\ reader'.got = more
  BY <1>7
<1>10. b + 1 \in 1 .. Len(bytes) + 1 /\ (b + 1) - 1 = b /\ bytes # <<>>
  <2>1. Len(bytes) \in Nat /\ Len(<<>>) = 0 /\ b \in Nat /\ s \in Nat
    BY <1>1, <1>4
  <2>2. b + 1 \in 1 .. Len(bytes) + 1 /\ (b + 1) - 1 = b /\ Len(bytes) # 0
    BY <1>4, <1>5, <2>1
  <2> QED BY <2>1, <2>2
<1> QED BY <1>1, <1>5, <1>8, <1>9, <1>10 DEF ReaderInv

\* A stored result that is read in ranges of any length, one after the other, is
\* all there (src/src/result_store.rs, read_by_range): for every text and however
\* saves, kills and other agents come between.
THEOREM RangesAddUp == T!Spec => []ReadsAddUp
<1> DEFINE IInv == HeldInv /\ BusyInv /\ ReaderInv
<1>0. T!ResultAssumption
  BY TurnAssumption
<1>1. T!Init => IInv
  <2> SUFFICES ASSUME T!Init PROVE IInv
    OBVIOUS
  <2>1. HeldInv
    BY DEF T!Init, HeldInv, Ever
  <2>2. BusyInv
    BY DEF T!Init, BusyInv, Busy
  <2>3. ReaderInv
    BY DEF T!Init, T!NoRead, ReaderInv
  <2> QED BY <2>1, <2>2, <2>3
<1>2. IInv /\ [T!Next]_(T!vars) => IInv'
  <2> SUFFICES ASSUME IInv, [T!Next]_(T!vars) PROVE IInv'
    OBVIOUS
  <2>1. HeldInv' /\ BusyInv'
    BY HeldStep
  <2>2. ReaderInv'
    <3>1. CASE \E h \in T!Handles, count \in 0 .. ReadMax : T!Read(h, count)
      <4>1. \A count \in 0 .. ReadMax : count \in Nat
        BY <1>0 DEF T!ResultAssumption
      <4> QED BY <1>0, <3>1, <4>1, ReadStep
    <3>2. CASE UNCHANGED reader
      BY <3>2 DEF ReaderInv
    <3>3. (\E h \in T!Handles, count \in 0 .. ReadMax : T!Read(h, count)) \/ UNCHANGED reader
      BY DEF T!Next, T!vars, T!Open, T!Write, T!Rename, T!StoreFails, T!Kill, T!Result, T!Search
    <3> QED BY <3>1, <3>2, <3>3
  <2> QED BY <2>1, <2>2
<1>3. IInv => ReadsAddUp
  <2> SUFFICES ASSUME IInv, reader.of # <<>>, reader.next > Len(reader.of)
               PROVE  T!Whole(reader.got) = T!Characters(reader.of)
    BY DEF ReadsAddUp, T!ReadsAddUp
  <2>1. /\ reader.of \in Seq(Byte) /\ reader.next \in 1 .. Len(reader.of) + 1
        /\ T!Whole(reader.got) = T!CharactersUpTo(reader.of)[reader.next - 1]
    BY <1>0, EverIsText DEF ReaderInv
  <2>2. reader.next - 1 = Len(reader.of)
    BY <2>1
  <2> QED BY <2>1, <2>2 DEF T!Characters
<1> QED BY <1>1, <1>2, <1>3, PTL DEF T!Spec

-----------------------------------------------------------------------------
(* Proof that handles lead back, for any number of agents that share the ids *)
(* of their calls.  What is wrong with the file of a handle is either in the  *)
(* hands of an agent that writes it or was left by one that stopped; and so  *)
(* with a temporary file, which matters while an agent may rename it.        *)

AllIds == UNION {CallIds(a) : a \in Agents}
Taken == [kind : {"inline", "cut", "stored"}, call : AllIds, text : Texts]

\* The handle of a result that was stored has a file.
Found(f, shown) ==
  shown.kind = "stored" => /\ T!Handle(shown.call, shown.text) \in T!Handles
                           /\ f[T!Handle(shown.call, shown.text)] # <<>>
TakenInv ==
  /\ taken \in [Agents -> Seq(Taken)]
  /\ \A a \in Agents : \A k \in DOMAIN taken[a] : Found(files, taken[a][k])

\* Agent a saves handle h, and writes the file that has this name.
SavesAt(a, h) == taking[a].at \in {"write", "rename"} /\ T!Job(a) = h
Writes(a, h, on) == taking[a].at = "write" /\ taking[a].on = on /\ T!Job(a) = h

FileOk(h) == files[h] \in {<<>>, h.text} \/ h \in spoiled \/ \E a \in Agents : Writes(a, h, "file")
TmpOk(h) ==
  \/ tmp[h] \in {<<>>, h.text} \/ h \in spoiled
  \/ \E a \in Agents : Writes(a, h, "tmp")
  \/ \A a \in Agents : ~SavesAt(a, h)
SavedInv == \A h \in T!Handles : FileOk(h) /\ TmpOk(h)

\* One more result.
LEMMA OneMoreTaken ==
  ASSUME TakenInv, NEW a \in Agents, NEW shown \in Taken,
         taken' = [taken EXCEPT ![a] = Append(@, shown)],
         \A one \in Taken : Found(files, one) => Found(files', one),
         Found(files', shown)
  PROVE  TakenInv'
<1>1. taken' \in [Agents -> Seq(Taken)]
  <2>1. taken[a] \in Seq(Taken) /\ Append(taken[a], shown) \in Seq(Taken)
    BY DEF TakenInv
  <2> QED BY <2>1 DEF TakenInv
<1>2. ASSUME NEW b \in Agents, NEW k \in DOMAIN taken'[b]
      PROVE  Found(files', taken'[b][k])
  <2>1. CASE b # a
    <3>1. taken'[b] = taken[b] /\ taken[b] \in Seq(Taken)
      BY <2>1 DEF TakenInv
    <3>2. taken[b][k] \in Taken
      <4>1. k \in DOMAIN taken[b]
        BY <1>2, <3>1
      <4> QED BY <3>1, <4>1
    <3> QED BY <1>2, <3>1, <3>2 DEF TakenInv
  <2>2. CASE b = a
    <3>1. taken'[b] = Append(taken[a], shown) /\ taken[a] \in Seq(Taken)
      BY <2>2 DEF TakenInv
    <3>2. k \in 1 .. Len(taken[a]) + 1
      BY <1>2, <3>1
    <3>3. CASE k = Len(taken[a]) + 1
      BY <3>1, <3>3
    <3>4. CASE k \in 1 .. Len(taken[a])
      <4>1. taken'[b][k] = taken[a][k] /\ taken[a][k] \in Taken
        BY <3>1, <3>4
      <4> QED BY <3>4, <4>1 DEF TakenInv
    <3> QED BY <3>2, <3>3, <3>4
  <2> QED BY <2>1, <2>2
<1> QED BY <1>1, <1>2 DEF TakenInv

\* What was one in is still there.
LEMMA TakenStays ==
  ASSUME TakenInv, UNCHANGED taken,
         \A one \in Taken : Found(files, one) => Found(files', one)
  PROVE  TakenInv'
<1>1. ASSUME NEW a \in Agents, NEW k \in DOMAIN taken[a]
      PROVE  Found(files', taken[a][k])
  <2>1. taken[a] \in Seq(Taken)
    BY DEF TakenInv
  <2>2. taken[a][k] \in Taken
    BY <1>1, <2>1
  <2> QED BY <1>1, <2>2 DEF TakenInv
<1> QED BY <1>1 DEF TakenInv

\* An agent goes on to what is no save; if it was writing, it stops there.
LEMMA StopStep ==
  ASSUME SavedInv, BusyInv, NEW a \in Agents, NEW job, job.at \notin {"write", "rename"},
         taking' = [taking EXCEPT ![a] = job], UNCHANGED <<files, tmp>>, T!Stopped(a)
  PROVE  SavedInv'
<1> SUFFICES ASSUME NEW h \in T!Handles PROVE FileOk(h)' /\ TmpOk(h)'
  BY DEF SavedInv
<1>1. /\ \A b \in Agents \ {a} : taking'[b] = taking[b] /\ T!Job(b)' = T!Job(b)
      /\ taking'[a] = job
  BY DEF BusyInv, T!Job
<1>2. spoiled \subseteq spoiled'
  BY DEF T!Stopped
<1>3. \A b \in Agents \ {a} : /\ SavesAt(b, h)' = SavesAt(b, h)
                              /\ Writes(b, h, "tmp")' = Writes(b, h, "tmp")
                              /\ Writes(b, h, "file")' = Writes(b, h, "file")
  BY <1>1 DEF SavesAt, Writes
<1>4. FileOk(h) /\ TmpOk(h)
  BY DEF SavedInv
<1>5. FileOk(h)'
  <2>1. CASE files[h] \in {<<>>, h.text} \/ h \in spoiled
    BY <1>2, <2>1 DEF FileOk
  <2>2. CASE \E b \in Agents : Writes(b, h, "file")
    <3>1. PICK b \in Agents : Writes(b, h, "file")
      BY <2>2
    <3>2. CASE b # a
      BY <1>3, <3>1, <3>2 DEF FileOk
    <3>3. CASE b = a
      BY <3>1, <3>3 DEF FileOk, Writes, T!Stopped
    <3> QED BY <3>2, <3>3
  <2> QED BY <1>4, <2>1, <2>2 DEF FileOk
<1>6. ~SavesAt(a, h)'
  BY <1>1 DEF SavesAt
<1>7. TmpOk(h)'
  <2>1. CASE tmp[h] \in {<<>>, h.text} \/ h \in spoiled
    BY <1>2, <2>1 DEF TmpOk
  <2>2. CASE \E b \in Agents : Writes(b, h, "tmp")
    <3>1. PICK b \in Agents : Writes(b, h, "tmp")
      BY <2>2
    <3>2. CASE b # a
      BY <1>3, <3>1, <3>2 DEF TmpOk
    <3>3. CASE b = a /\ \E c \in Agents \ {a} : SavesAt(c, h)
      BY <3>1, <3>3 DEF TmpOk, Writes, SavesAt, T!Stopped
    <3>4. CASE b = a /\ \A c \in Agents \ {a} : ~SavesAt(c, h)
      BY <1>3, <1>6, <3>4 DEF TmpOk
    <3> QED BY <3>2, <3>3, <3>4
  <2>3. CASE \A b \in Agents : ~SavesAt(b, h)
    BY <1>3, <1>6, <2>3 DEF TmpOk
  <2> QED BY <1>4, <2>1, <2>2, <2>3 DEF TmpOk
<1> QED BY <1>5, <1>7

\* An agent that does not save has nothing to stop.
LEMMA NothingStops ==
  ASSUME NEW a \in Agents, taking[a].at # "write", UNCHANGED spoiled
  PROVE  T!Stopped(a)
BY DEF T!Stopped

LEMMA OpenSaved ==
  ASSUME SavedInv, BusyInv, HeldInv, NEW a \in Agents, T!Open(a)
  PROVE  SavedInv'
<1> SUFFICES ASSUME NEW h \in T!Handles PROVE FileOk(h)' /\ TmpOk(h)'
  BY DEF SavedInv
<1>1. /\ \A b \in Agents \ {a} : taking'[b] = taking[b] /\ T!Job(b)' = T!Job(b)
      /\ taking'[a] = [at |-> "write", call |-> taking[a].call, text |-> taking[a].text, on |-> "tmp"]
  BY DEF BusyInv, T!Job, T!Open
<1>2. T!Job(a)' = T!Job(a) /\ taking'[a].at = "write" /\ taking'[a].on = "tmp" /\ taking[a].at = "open"
  BY <1>1 DEF T!Job, T!Open
<1>3. \A b \in Agents \ {a} : /\ SavesAt(b, h)' = SavesAt(b, h)
                              /\ Writes(b, h, "tmp")' = Writes(b, h, "tmp")
                              /\ Writes(b, h, "file")' = Writes(b, h, "file")
  BY <1>1 DEF SavesAt, Writes
<1>4. /\ UNCHANGED <<files, spoiled>> /\ \A g \in T!Handles \ {T!Job(a)} : tmp'[g] = tmp[g]
      /\ ~SavesAt(a, h) /\ ~Writes(a, h, "tmp") /\ ~Writes(a, h, "file")
  BY <1>2 DEF T!Open, HeldInv, SavesAt, Writes
<1>5. FileOk(h) /\ TmpOk(h)
  BY DEF SavedInv
<1>6. FileOk(h)'
  BY <1>3, <1>4, <1>5 DEF FileOk
<1>7. CASE h = T!Job(a)
  BY <1>2, <1>6, <1>7 DEF TmpOk, Writes
<1>8. CASE h # T!Job(a)
  <2>1. ~SavesAt(a, h)'
    BY <1>2, <1>8 DEF SavesAt
  <2>2. tmp'[h] = tmp[h]
    BY <1>4, <1>8
  <2> QED BY <1>3, <1>4, <1>5, <1>6, <2>1, <2>2 DEF TmpOk
<1> QED BY <1>7, <1>8

LEMMA WriteSaved ==
  ASSUME SavedInv, BusyInv, HeldInv, NEW a \in Agents, T!Write(a)
  PROVE  SavedInv'
<1> SUFFICES ASSUME NEW h \in T!Handles PROVE FileOk(h)' /\ TmpOk(h)'
  BY DEF SavedInv
<1>1. /\ \A b \in Agents \ {a} : taking'[b] = taking[b] /\ T!Job(b)' = T!Job(b)
      /\ taking'[a] = [taking[a] EXCEPT !.at = "rename"] /\ taking[a].at = "write"
  BY DEF BusyInv, T!Job, T!Write
<1>2. taking[a] \in [at : {"write", "rename"}, call : CallIds(a), text : Large, on : {"tmp", "file", "gone"}]
  BY <1>1, BusyFacts DEF BusyInv
<1>3. /\ taking'[a].at = "rename" /\ T!Job(a)' = T!Job(a)
      /\ taking[a].on \in {"tmp", "file", "gone"} /\ T!Job(a).text = taking[a].text
  BY <1>1, <1>2 DEF T!Job, T!Handle
<1>4. \A b \in Agents \ {a} : /\ SavesAt(b, h)' = SavesAt(b, h)
                              /\ Writes(b, h, "tmp")' = Writes(b, h, "tmp")
                              /\ Writes(b, h, "file")' = Writes(b, h, "file")
  BY <1>1 DEF SavesAt, Writes
<1>5. SavesAt(a, h)' = SavesAt(a, h)
  BY <1>1, <1>3 DEF SavesAt
<1>6. /\ UNCHANGED spoiled
      /\ files'[h] = IF taking[a].on = "file" /\ h = T!Job(a) THEN h.text ELSE files[h]
      /\ tmp'[h] = IF taking[a].on = "tmp" /\ h = T!Job(a) THEN h.text ELSE tmp[h]
  BY <1>3 DEF T!Write, HeldInv
<1>7. FileOk(h) /\ TmpOk(h)
  BY DEF SavedInv
<1>8. FileOk(h)'
  <2>1. CASE taking[a].on = "file" /\ h = T!Job(a)
    BY <1>6, <2>1 DEF FileOk
  <2>2. CASE ~(taking[a].on = "file" /\ h = T!Job(a))
    <3>1. ~Writes(a, h, "file") /\ files'[h] = files[h]
      BY <1>6, <2>2 DEF Writes
    <3> QED BY <1>4, <1>6, <1>7, <3>1 DEF FileOk
  <2> QED BY <2>1, <2>2
<1>9. TmpOk(h)'
  <2>1. CASE taking[a].on = "tmp" /\ h = T!Job(a)
    BY <1>6, <2>1 DEF TmpOk
  <2>2. CASE ~(taking[a].on = "tmp" /\ h = T!Job(a))
    <3>1. ~Writes(a, h, "tmp") /\ tmp'[h] = tmp[h]
      BY <1>6, <2>2 DEF Writes
    <3> QED BY <1>4, <1>5, <1>6, <1>7, <3>1 DEF TmpOk
  <2> QED BY <2>1, <2>2
<1> QED BY <1>8, <1>9

\* What was written into the temporary file is written into the file from now on.
LEMMA RenameSaved ==
  ASSUME SavedInv, BusyInv, HeldInv, NEW a \in Agents, T!Rename(a)
  PROVE  SavedInv'
<1> SUFFICES ASSUME NEW h \in T!Handles PROVE FileOk(h)' /\ TmpOk(h)'
  BY DEF SavedInv
<1>1. /\ taking[a].at = "rename" /\ UNCHANGED spoiled
      /\ files' = [files EXCEPT ![T!Job(a)] = tmp[T!Job(a)]]
      /\ tmp' = [tmp EXCEPT ![T!Job(a)] = <<>>]
  BY DEF T!Rename
<1>2. PICK job \in {T!Idle, [at |-> "panicked"]} : taking' = [T!Moved(a) EXCEPT ![a] = job]
  BY DEF T!Rename
<1>3. job.at \notin {"write", "rename"}
  BY DEF T!Idle
<1>4. taking'[a] = job /\ \A b \in Agents \ {a} : taking'[b] = T!Moved(a)[b]
  BY <1>2 DEF T!Moved
<1>5. ~SavesAt(a, h)' /\ ~Writes(a, h, "tmp") /\ ~Writes(a, h, "file")
  BY <1>1, <1>3, <1>4 DEF SavesAt, Writes
<1>6. FileOk(h) /\ TmpOk(h)
  BY DEF SavedInv
<1>7. CASE h = T!Job(a)
  <2>1. files'[h] = tmp[h] /\ tmp'[h] = <<>>
    BY <1>1, <1>7 DEF HeldInv
  <2>2. ASSUME NEW b \in Agents, Writes(b, h, "tmp") PROVE Writes(b, h, "file")'
    <3>1. b # a /\ taking[b].at = "write" /\ taking[b].on = "tmp" /\ T!Job(b) = h
      BY <1>5, <2>2 DEF Writes
    <3>2. taking[b] \in [at : {"write", "rename"}, call : CallIds(b), text : Large, on : {"tmp", "file", "gone"}]
      BY <3>1, BusyFacts DEF BusyInv
    <3>3. taking'[b] = [taking[b] EXCEPT !.on = "file"]
      BY <1>4, <1>7, <3>1 DEF T!Moved
    <3>4. /\ taking'[b].at = "write" /\ taking'[b].on = "file"
          /\ taking'[b].call = taking[b].call /\ taking'[b].text = taking[b].text
      BY <3>1, <3>2, <3>3
    <3> QED BY <3>1, <3>4 DEF Writes, T!Job
  <2>3. SavesAt(a, h)
    BY <1>1, <1>7 DEF SavesAt
  <2> QED BY <1>1, <1>6, <2>1, <2>2, <2>3 DEF FileOk, TmpOk
<1>8. CASE h # T!Job(a)
  <2>1. files'[h] = files[h] /\ tmp'[h] = tmp[h]
    BY <1>1, <1>8 DEF HeldInv
  <2>2. ASSUME NEW b \in Agents \ {a}, SavesAt(b, h) PROVE taking'[b] = taking[b] /\ T!Job(b)' = T!Job(b)
    <3>1. taking'[b] = taking[b]
      BY <1>4, <1>8, <2>2 DEF T!Moved, SavesAt
    <3> QED BY <3>1 DEF T!Job
  <2>3. ASSUME NEW b \in Agents, SavesAt(b, h)' PROVE SavesAt(b, h)
    <3>1. b # a
      BY <1>5, <2>3
    <3>2. CASE taking[b].at \in {"write", "rename"}
      <4>1. taking[b] \in [at : {"write", "rename"}, call : CallIds(b), text : Large, on : {"tmp", "file", "gone"}]
        BY <3>2, BusyFacts DEF BusyInv
      <4>2. taking'[b] = taking[b] \/ \E on \in {"file", "gone"} : taking'[b] = [taking[b] EXCEPT !.on = on]
        BY <1>4, <3>1 DEF T!Moved
      <4>3. taking'[b].call = taking[b].call /\ taking'[b].text = taking[b].text
        BY <4>1, <4>2
      <4> QED BY <2>3, <3>2, <4>3 DEF SavesAt, T!Job
    <3>3. CASE taking[b].at \notin {"write", "rename"}
      BY <1>4, <2>3, <3>1, <3>3 DEF T!Moved, SavesAt
    <3> QED BY <3>2, <3>3
  <2>4. \A b \in Agents : /\ Writes(b, h, "tmp") => Writes(b, h, "tmp")'
                          /\ Writes(b, h, "file") => Writes(b, h, "file")'
    BY <1>5, <2>2 DEF Writes, SavesAt
  <2> QED BY <1>1, <1>6, <2>1, <2>3, <2>4 DEF FileOk, TmpOk
<1> QED BY <1>7, <1>8

\* What an agent saves has a handle, and is not empty.
LEMMA SavedText ==
  ASSUME T!ResultAssumption, BusyInv, NEW a \in Agents, taking[a].at \in {"open", "write", "rename"}
  PROVE  /\ taking[a].call \in CallIds(a) /\ taking[a].text \in Large
         /\ T!Job(a) = T!Handle(taking[a].call, taking[a].text) /\ T!Job(a) \in T!Handles
         /\ taking[a].text # <<>>
<1>1. taking[a].call \in CallIds(a) /\ taking[a].text \in Large
  BY BusyFacts DEF BusyInv
<1>2. \A id \in CallIds(a), t \in Large : T!Handle(id, t) \in T!Handles
  <2>1. T!Handles = {T!Handle(id, t) : id \in AllIds, t \in Large}
    BY DEF T!Handles, AllIds, Large
  <2>2. CallIds(a) \subseteq AllIds
    BY DEF AllIds
  <2> QED BY <2>1, <2>2
<1>3. taking[a].text # <<>>
  BY <1>1 DEF Large, T!ResultAssumption
<1> QED BY <1>1, <1>2, <1>3 DEF T!Job

\* A result that is not stored.
LEMMA InlineSaved ==
  ASSUME SavedInv, TakenInv, BusyInv, NEW a \in Agents, NEW id \in CallIds(a), NEW t \in Texts,
         T!Inline(a, id, t), T!Stopped(a), UNCHANGED <<files, tmp>>
  PROVE  SavedInv' /\ TakenInv'
<1>1. PICK job \in {T!Idle, [at |-> "panicked"]} : taking' = [taking EXCEPT ![a] = job]
  BY DEF T!Inline
<1>2. SavedInv'
  BY <1>1, StopStep DEF T!Idle
<1>3. \/ UNCHANGED taken
      \/ \E kind \in {"inline", "cut"} :
           taken' = [taken EXCEPT ![a] = Append(@, T!Shown(kind, id, t))]
  BY DEF T!Inline, T!Enter
<1>4. \A kind \in {"inline", "cut"} :
        T!Shown(kind, id, t) \in Taken /\ Found(files', T!Shown(kind, id, t))
  BY DEF T!Shown, Taken, Found, AllIds
<1>5. TakenInv'
  BY <1>3, <1>4, TakenStays, OneMoreTaken
<1> QED BY <1>2, <1>5

LEMMA SavedStep ==
  ASSUME T!ResultAssumption, SavedInv, TakenInv, HeldInv, BusyInv, [T!Next]_(T!vars)
  PROVE  SavedInv' /\ TakenInv'
<1>0. T!ResultAssumption
  OBVIOUS
<1>1. ASSUME NEW a \in Agents, NEW job, job.at \notin {"write", "rename"},
             taking' = [taking EXCEPT ![a] = job], T!Stopped(a), UNCHANGED <<files, tmp, taken>>
      PROVE  SavedInv' /\ TakenInv'
  BY <1>1, StopStep, TakenStays
<1>2. ASSUME NEW a \in Agents, NEW id \in CallIds(a), NEW t \in Texts, T!Result(a, id, t)
      PROVE  SavedInv' /\ TakenInv'
  <2>1. T!Stopped(a) /\ UNCHANGED <<files, tmp>>
    BY <1>2, NothingStops DEF T!Result, T!Idle
  <2>2. CASE Len(t) > Threshold
    <3>1. taking' = [taking EXCEPT ![a] = [at |-> "open", call |-> id, text |-> t]] /\ UNCHANGED taken
      BY <1>2, <2>2 DEF T!Result
    <3> QED BY <1>1, <2>1, <3>1
  <2>3. CASE ~(Len(t) > Threshold)
    BY <1>2, <2>1, <2>3, InlineSaved DEF T!Result
  <2> QED BY <2>2, <2>3
<1>3. ASSUME NEW a \in Agents, T!Open(a)
      PROVE  SavedInv' /\ TakenInv'
  BY <1>3, OpenSaved, TakenStays DEF T!Open
<1>4. ASSUME NEW a \in Agents, T!Write(a)
      PROVE  SavedInv' /\ TakenInv'
  <2>1. taking[a].text # <<>> /\ taking[a].at = "write" /\ UNCHANGED taken
    BY <1>0, <1>4, SavedText DEF T!Write
  <2>2. files' = files \/ files' = [files EXCEPT ![T!Job(a)] = taking[a].text]
    BY <1>4 DEF T!Write
  <2>3. \A one \in Taken : Found(files, one) => Found(files', one)
    BY <2>1, <2>2 DEF Found, HeldInv
  <2> QED BY <1>4, <2>1, <2>3, WriteSaved, TakenStays
<1>5. ASSUME NEW a \in Agents, T!Rename(a)
      PROVE  SavedInv' /\ TakenInv'
  <2>1. PICK id, t : id = taking[a].call /\ t = taking[a].text
    OBVIOUS
  <2>2. /\ id \in CallIds(a) /\ t \in Large /\ T!Job(a) = T!Handle(id, t) /\ T!Job(a) \in T!Handles
    BY <1>0, <1>5, <2>1, SavedText DEF T!Rename
  <2>3. /\ files' = [files EXCEPT ![T!Job(a)] = tmp[T!Job(a)]] /\ tmp[T!Job(a)] # <<>>
    BY <1>5 DEF T!Rename
  <2>4. files'[T!Job(a)] # <<>> /\ \A h \in T!Handles : files[h] # <<>> => files'[h] # <<>>
    BY <2>2, <2>3 DEF HeldInv
  <2>5. \A one \in Taken : Found(files, one) => Found(files', one)
    BY <2>4 DEF Found
  <2>6. T!Shown("stored", id, t) \in Taken /\ Found(files', T!Shown("stored", id, t))
    BY <2>2, <2>4 DEF T!Shown, Taken, Found, AllIds, Large
  <2>7. UNCHANGED taken
        \/ taken' = [taken EXCEPT ![a] = Append(@, T!Shown("stored", id, t))]
    BY <1>5, <2>1 DEF T!Rename, T!Enter
  <2> QED BY <1>5, <2>5, <2>6, <2>7, RenameSaved, TakenStays, OneMoreTaken
<1>6. ASSUME NEW a \in Agents, T!StoreFails(a)
      PROVE  SavedInv' /\ TakenInv'
  <2>1. taking[a].call \in CallIds(a) /\ taking[a].text \in Texts
    BY <1>0, <1>6, SavedText DEF T!StoreFails, Large
  <2> QED BY <1>6, <2>1, InlineSaved DEF T!StoreFails
<1>7. ASSUME NEW a \in Agents, T!Kill(a)
      PROVE  SavedInv' /\ TakenInv'
  BY <1>1, <1>7 DEF T!Kill, T!Idle
<1>8. ASSUME NEW a \in Agents, NEW h, NEW query, T!Search(a, h, query)
      PROVE  SavedInv' /\ TakenInv'
  <2>1. T!Stopped(a)
    BY <1>8, NothingStops DEF T!Search, T!Idle
  <2> QED BY <1>1, <1>8, <2>1 DEF T!Search
<1>9. ASSUME UNCHANGED <<files, tmp, taking, taken, spoiled>>
      PROVE  SavedInv' /\ TakenInv'
  BY <1>9, TakenStays DEF SavedInv, FileOk, TmpOk, Writes, SavesAt, T!Job
<1>10. CASE \E h \in T!Handles, count \in 0 .. ReadMax : T!Read(h, count)
  BY <1>9, <1>10 DEF T!Read
<1>11. CASE UNCHANGED T!vars
  BY <1>9, <1>11 DEF T!vars
<1> QED BY <1>2, <1>3, <1>4, <1>5, <1>6, <1>7, <1>8, <1>10, <1>11 DEF T!Next

\* Runs share a directory, and their calls the same ids (src/src/result_store.rs,
\* prepare and store_at_handle): a handle that an agent was given leads to its
\* result for ever, but for another run that has the same result under the same
\* id, and is in the midst of writing it or was stopped there.
THEOREM HandlesLeadBack == T!Spec => []HandleReadsBack
<1> DEFINE IInv == HeldInv /\ BusyInv /\ SavedInv /\ TakenInv
<1>0. T!ResultAssumption
  BY TurnAssumption
<1>1. T!Init => IInv
  <2> SUFFICES ASSUME T!Init PROVE IInv
    OBVIOUS
  <2>1. HeldInv
    BY DEF T!Init, HeldInv, Ever
  <2>2. BusyInv
    BY DEF T!Init, BusyInv, Busy
  <2>3. SavedInv
    BY DEF T!Init, SavedInv, FileOk, TmpOk
  <2>4. \A a \in Agents : taken[a] = <<>> /\ DOMAIN taken[a] = {}
    BY DEF T!Init
  <2>5. TakenInv
    BY <2>4 DEF T!Init, TakenInv
  <2> QED BY <2>1, <2>2, <2>3, <2>5
<1>2. IInv /\ [T!Next]_(T!vars) => IInv'
  BY <1>0, HeldStep, SavedStep
<1>3. IInv => HandleReadsBack
  <2> SUFFICES ASSUME IInv, NEW a \in Agents, NEW k \in DOMAIN taken[a], taken[a][k].kind = "stored"
               PROVE  LET handle == T!Handle(taken[a][k].call, taken[a][k].text) IN
                      \/ files[handle] = taken[a][k].text \/ handle \in spoiled
                      \/ \E b \in Agents : /\ taking[b].at = "write" /\ taking[b].on = "file"
                                           /\ T!Job(b) = handle
    BY DEF HandleReadsBack, T!HandleReadsBack
  <2> DEFINE handle == T!Handle(taken[a][k].call, taken[a][k].text)
  <2>1. handle \in T!Handles /\ files[handle] # <<>>
    BY DEF TakenInv, Found
  <2>2. FileOk(handle)
    BY <2>1 DEF SavedInv
  <2>3. handle.text = taken[a][k].text
    BY DEF T!Handle
  <2> HIDE DEF handle
  <2>4. \/ files[handle] = taken[a][k].text \/ handle \in spoiled
        \/ \E b \in Agents : taking[b].at = "write" /\ taking[b].on = "file" /\ T!Job(b) = handle
    BY <2>1, <2>2, <2>3 DEF FileOk, Writes
  <2> QED BY <2>4 DEF handle
<1> QED BY <1>1, <1>2, <1>3, PTL DEF T!Spec
=============================================================================
