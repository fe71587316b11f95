------------------------------ MODULE Admission ------------------------------
(***************************************************************************)
(* What a child may do (subagent_authority.rs and its callers): an         *)
(* admission is captured when a child is created, by the subagent tool of  *)
(* an agent at work or by a command, is stored with the control record,    *)
(* and is derived anew whenever `fxrs subagent run` puts the child to      *)
(* work, from a record that other commands change at any time.  An agent   *)
(* at work may delegate with the tool, so a process holds a stack of them. *)
(*                                                                         *)
(* Of a record this is the part that decides what an agent may do.  Parent *)
(* ids are validated before they are stored and never refused afterwards,  *)
(* so they are left out.  The queue is one item, the bound of this module. *)
(***************************************************************************)
EXTENDS Naturals, Sequences

CONSTANTS Children,     \* ids, each the millisecond of its creation
          Tools,        \* the tools that a call may name and that are dispatched
          Builtin,      \* those of them that is_builtin_tool_name knows
          Delegate,     \* the one that is `subagent`
          BadName,      \* a tool name that no admission takes: empty or too long
          Modes,        \* permission modes that parse
          Odd,          \* any other text given for a mode
          Yolo,         \* the mode without checks
          MaxDepth,     \* of nested calls of the tool
          NoRecord, NoAdmission

AdmissionAssumption ==
  /\ Builtin \subseteq Tools /\ Delegate \in Builtin /\ BadName \notin Tools
  /\ Yolo \in Modes /\ Odd \notin Modes
  /\ MaxDepth \in Nat
  /\ NoRecord # NoAdmission /\ \A names \in SUBSET (Tools \cup {BadName}) : NoRecord # names

VARIABLES record,       \* the file of each child
          stack,        \* the agents of the process at work, the outermost first
          granted       \* history: the admission stored for each child that was created

vars == <<record, stack, granted>>

Names == SUBSET (Tools \cup {BadName})

Init == /\ record = [c \in Children |-> NoRecord]
        /\ stack = <<>>
        /\ granted = [c \in Children |-> NoRecord]

Top == stack[Len(stack)]
Depth == Len(SelectSeq(stack, LAMBDA frame : frame.by = "tool"))

-----------------------------------------------------------------------------
(* The names that an admission holds its child to, none if it is not held;  *)
(* an admission needs a model, and names that are.                          *)
capture_admission(model, names) ==
  IF ~model \/ BadName \in names THEN NoAdmission ELSE names

\* Faulty variant: the filter is derived from the configuration too.
resume_from_configuration(r) == capture_admission(TRUE, {})

(* The model is the configured one, that of the admission, or a marker: it  *)
(* is never what refuses here, and is left out of the record.               *)
resume_admission(r) ==
  capture_admission(TRUE, IF r.admission = NoAdmission THEN {} ELSE r.admission)

(* What an agent may call under a filter; there is none if it is empty.  A   *)
(* call outside it is refused only if the name is one that                   *)
(* is_builtin_tool_name knows: `read_tool_result`, `mcp` and the tools of    *)
(* MCP servers are not.                                                      *)
Filtered(names) == IF names = {} THEN Tools ELSE (names \cap Tools) \cup (Tools \ Builtin)

(* The agent of a run: the stored filter if the new admission is refused.   *)
FilterOfRun(r) ==
  LET resumed == resume_admission(r)
  IN  IF resumed # NoAdmission THEN Filtered(resumed)
      ELSE IF r.admission # NoAdmission THEN Filtered(r.admission) ELSE Tools

ModeOfRun(r) == IF r.mode \in Modes THEN r.mode ELSE Yolo

Record(mode, admission) == [mode |-> mode, admission |-> admission, pending |-> TRUE]

Agent(by, child, tools, mode, copy) ==
  [by |-> by, child |-> child, tools |-> tools, mode |-> mode, copy |-> copy]

Create(c, r) ==
  /\ record[c] = NoRecord /\ granted[c] = NoRecord
  /\ record' = [record EXCEPT ![c] = r]
  /\ granted' = [granted EXCEPT ![c] = r.admission]

-----------------------------------------------------------------------------
(* Commands, of any process at any time.                                    *)

CreateByCommand(c, mode, model) ==
  /\ Create(c, Record(mode, capture_admission(model, {})))
  /\ UNCHANGED stack

Configure(c, mode) ==
  /\ record[c] # NoRecord
  /\ record' = [record EXCEPT ![c].mode = mode]
  /\ UNCHANGED <<stack, granted>>

Send(c) ==
  /\ record[c] # NoRecord /\ ~record[c].pending
  /\ record' = [record EXCEPT ![c].pending = TRUE]
  /\ UNCHANGED <<stack, granted>>

Delete(c) ==
  /\ record[c] # NoRecord
  /\ record' = [record EXCEPT ![c] = NoRecord]
  /\ UNCHANGED <<stack, granted>>

-----------------------------------------------------------------------------
(* The process whose agents are at work.                                    *)

StartSession(mode) ==
  /\ stack = <<>>
  /\ stack' = <<Agent("session", NoRecord, Tools, mode, NoRecord)>>
  /\ UNCHANGED <<record, granted>>

(* The item is claimed in the file; the new admission is not stored.        *)
Run(c) ==
  /\ stack = <<>> /\ record[c] # NoRecord /\ record[c].pending
  /\ record' = [record EXCEPT ![c].pending = FALSE]
  /\ stack' = <<Agent("run", c, FilterOfRun(record[c]), ModeOfRun(record[c]), NoRecord)>>
  /\ UNCHANGED granted

Delegating == stack # <<>> /\ Delegate \in Top.tools

(* The admission is refused after the record was stored with its item.      *)
CreateRefused(c, mode, names) ==
  /\ Delegating /\ capture_admission(TRUE, names) = NoAdmission
  /\ Create(c, Record(mode, NoAdmission))
  /\ UNCHANGED stack

(* Whether the save of the admission succeeded is not looked at.            *)
Stored(names, saved) == IF saved THEN capture_admission(TRUE, names) ELSE NoAdmission

CreateTooDeep(c, mode, names, saved) ==
  /\ Delegating /\ BadName \notin names /\ Depth >= MaxDepth
  /\ Create(c, Record(mode, Stored(names, saved)))
  /\ UNCHANGED stack

(* The nested agent has the configuration of the agent that called the tool. *)
CreateAndRun(c, mode, names, saved) ==
  /\ Delegating /\ BadName \notin names /\ Depth < MaxDepth
  /\ LET r == [Record(mode, Stored(names, saved)) EXCEPT !.pending = FALSE]
     IN  /\ Create(c, r)
         /\ stack' = Append(stack, Agent("tool", c, Top.tools, Top.mode, r))

(* A run settles what is stored now, the tool the copy that it holds.       *)
Return ==
  /\ stack # <<>>
  /\ stack' = SubSeq(stack, 1, Len(stack) - 1)
  /\ record' = IF Top.by = "tool" THEN [record EXCEPT ![Top.child] = Top.copy] ELSE record
  /\ UNCHANGED granted

Kill == stack # <<>> /\ stack' = <<>> /\ UNCHANGED <<record, granted>>

Next ==
  \/ \E c \in Children, mode \in Modes \cup {Odd} :
       \/ \E model \in BOOLEAN : CreateByCommand(c, mode, model)
       \/ Configure(c, mode)
       \/ \E names \in Names : CreateRefused(c, mode, names)
       \/ \E names \in Names, saved \in BOOLEAN :
            CreateTooDeep(c, mode, names, saved) \/ CreateAndRun(c, mode, names, saved)
  \/ \E c \in Children : Send(c) \/ Delete(c) \/ Run(c)
  \/ \E mode \in Modes : StartSession(mode)
  \/ Return \/ Kill

Spec == Init /\ [][Next]_vars

-----------------------------------------------------------------------------
Held(c) == granted[c] \notin {NoRecord, NoAdmission, {}}

(* Whatever is configured, sent, saved over or killed between the creation  *)
(* of a child and its run: the agent of the run, and every agent that it    *)
(* has work for it, calls no tool that is_builtin_tool_name knows outside   *)
(* the admission that was stored.  The comment at agent.rs 532 says so of   *)
(* every name: see NothingOutsideAdmission.                                 *)
HeldToAdmission ==
  stack # <<>> /\ stack[1].by = "run" /\ Held(stack[1].child) =>
    \A i \in DOMAIN stack : stack[i].tools \cap Builtin \subseteq granted[stack[1].child]

-----------------------------------------------------------------------------
(* What the code does not do; the README says what each shows.              *)

(* "Names outside the admission snapshot are denied": every name.           *)
NothingOutsideAdmission ==
  stack # <<>> /\ stack[1].by = "run" /\ Held(stack[1].child) =>
    \A i \in DOMAIN stack : stack[i].tools \subseteq granted[stack[1].child]

(* And of each agent's own admission.                                       *)
EachHeldToItsOwn ==
  \A i \in DOMAIN stack :
    stack[i].by = "tool" /\ Held(stack[i].child) =>
      stack[i].tools \cap Builtin \subseteq granted[stack[i].child]

(* A child that was not admitted is not put to work.                        *)
RefusedIsIdle == \A i \in DOMAIN stack : stack[i].by = "run" => granted[stack[i].child] # NoAdmission

(* The subagent runs under its own configuration: its permission mode.      *)
RunsAsConfigured ==
  \A i \in DOMAIN stack :
    stack[i].by = "tool" => stack[i].mode = ModeOfRun(stack[i].copy)
=============================================================================
