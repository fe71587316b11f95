-------------------------------- MODULE Repl --------------------------------
(* The line-by-line interface, run_interactive of src/src/ui.rs: a line is a  *)
(* prompt or a slash command, and each prompt is a run of the agent of its    *)
(* own.  What the commands print is left out; what they do to the background  *)
(* processes, the terminals, the stored keys and the sessions is not.         *)
EXTENDS Naturals, Sequences, SequencesExt, FiniteSets

CONSTANTS MaxLinesRead, NoSession

SomeLines == MaxLinesRead > 0

VARIABLES
  open,         \* is the loop reading lines?
  read,         \* lines read
  first,        \* has nothing been sent since the program began?
  resume,       \* the session the program was told to resume, or NoSession
  conversation, \* per session, what the model was sent, in order
  asked,        \* what the user meant for the model, in order
  keys          \* the stored key of a provider: "none", "entry" (with no key) or "key"

vars == <<open, read, first, resume, conversation, asked, keys>>

(* Sessions count from 1; `resume last' of the command line is told to       *)
(* run_interactive as nothing to resume.                                     *)
Init ==
  /\ open = TRUE /\ read = 0 /\ first = TRUE
  /\ conversation = <<<<"before">>>>
  /\ resume \in {NoSession, 1}
  /\ asked = <<>> /\ keys = "none"

Line == open /\ read < MaxLinesRead /\ read' = read + 1

(* run_one: a run in the session that is resumed, or in one of its own; if   *)
(* it fails the loop ends with it.  The text of a resumed session that is    *)
(* not empty is not extended by the prompt.                                  *)
run_one(line, session) ==
  /\ conversation' = IF session = NoSession
                     THEN Append(conversation, <<line>>)
                     ELSE conversation
  /\ open' \in BOOLEAN

(* What follows the commands: the line is a prompt.  Only the first one goes *)
(* to the session to be resumed.                                             *)
Send(line) ==
  /\ run_one(line, IF first THEN resume ELSE NoSession)
  /\ first' = FALSE
  /\ UNCHANGED <<resume, keys>>

Prompt ==
  /\ Line
  /\ Send("prompt")
  /\ asked' = Append(asked, "prompt")

(* /background, /terminal and /compact print their answer and, unless a      *)
(* store cannot be opened, fall through to what sends a prompt.              *)
CommandFallsThrough ==
  /\ Line
  /\ Send("command")
  /\ UNCHANGED asked

(* /resume: a run that goes on with a session, the newest one by default.    *)
SlashResume ==
  /\ Line
  /\ \E session \in 1 .. Len(conversation) : run_one("", session)
  /\ UNCHANGED <<first, resume, asked, keys>>

(* The commands that print, and those that have another component do         *)
(* something and print what came of it, or that it failed.                   *)
CommandPrints ==
  /\ Line
  /\ UNCHANGED <<open, first, resume, conversation, asked, keys>>

(* /sessions and /session: an error of the store ends the loop.              *)
CommandLists ==
  /\ Line
  /\ open' \in BOOLEAN
  /\ UNCHANGED <<first, resume, conversation, asked, keys>>

(* /exit, ctrl-c or the end of the input.                                    *)
Quit ==
  /\ open
  /\ open' = FALSE
  /\ UNCHANGED <<read, first, resume, conversation, asked, keys>>

(* /login without a key makes an entry too, but leaves a key that is there.  *)
SlashLogin ==
  /\ Line
  /\ keys' \in {"key", IF keys = "key" THEN "key" ELSE "entry"}
  /\ UNCHANGED <<open, first, resume, conversation, asked>>

SlashLogout ==
  /\ Line
  /\ keys' = "none"
  /\ UNCHANGED <<open, first, resume, conversation, asked>>

Next ==
  \/ Prompt
  \/ CommandFallsThrough
  \/ SlashResume
  \/ CommandPrints
  \/ CommandLists
  \/ Quit
  \/ SlashLogin
  \/ SlashLogout

Spec == Init /\ [][Next]_vars

-----------------------------------------------------------------------------
(* What the code does not do: a command is not sent to the model, ...        *)
CommandsNotSent ==
  \A s \in DOMAIN conversation : "command" \notin ToSet(conversation[s])

(* ... and two prompts of one sitting are one conversation.                  *)
OneConversation ==
  Cardinality({s \in DOMAIN conversation : "prompt" \in ToSet(conversation[s])}) <= 1
=============================================================================
