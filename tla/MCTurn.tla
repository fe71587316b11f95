------------------------------- MODULE MCTurn -------------------------------
(* A turn of the agent: the rounds of requests, and when one is sent again  *)
(* (ModelRetry), what becomes of one answer (ProviderStream), whether a     *)
(* call is executed (ToolGate) and what becomes of its result (ToolResults).*)
(* While one component runs, the others rest in one initial state.          *)
EXTENDS ToolGate, Sequences

CONSTANTS a1, a2

-----------------------------------------------------------------------------
(* Two tools of one kind, or a shell command, and a tool of an MCP server   *)
(* that no filter holds back; a target whose text is itself a pattern that  *)
(* matches the other one; rules of every key, length and strictness.        *)
MCPatterns == {"long", "short"}
MCLength == [p \in MCPatterns |-> IF p = "long" THEN 2 ELSE 1]

(* "long" and "file" match the file alone; "short" and "glob" anything.     *)
MCCovers == [p \in MCPatterns \cup Targets |-> IF p \in {"long", "file"} THEN {"file"} ELSE Targets]
MCInside == {"file"}
MCShell == [t \in Targets |-> IF t = "file" THEN "allow" ELSE "undetermined"]

MCEdits == {"write_file", "edit_file"}
MCBuiltin == MCEdits \cup {"run_command"}
MCTools == MCBuiltin \cup {"mcp__tool"}
MCFilters == {MCEdits, {"run_command"}}

Rule(key, pattern, does) == [key |-> key, pattern |-> pattern, does |-> does]
MCRuleSets ==
  {{},
   {Rule("edit", "long", "deny"), Rule("bash", "short", "deny"), Rule("edit_file", "short", "allow")},
   {Rule("*", "whole", "ask"), Rule("write_file", "long", "deny")},
   {Rule("edit", "short", "deny"), Rule("edit", "long", "allow"), Rule("*", "whole", "deny")},
   {Rule("edit", "long", "allow"), Rule("edit_file", "long", "deny"), Rule("*", "long", "deny")},
   {Rule("bash", "short", "allow"), Rule("run_command", "short", "ask"), Rule("bash", "long", "deny")}}

-----------------------------------------------------------------------------
(* Two causes that are tried again; errors that name no delay, none to      *)
(* wait, a short one and one too long.                                      *)
CONSTANTS Transient, RetryAfters, NoSeconds, Limit, MaxSeconds, MaxSteps, MaxChunks
VARIABLES runAt, step, consumed, pacing, delay, text, calls, chunks, transcript, ran,
          whole, failures, resent
run == <<runAt, step, consumed, pacing, delay, text, calls, chunks, transcript, ran,
         whole, failures, resent>>
R == INSTANCE ModelRetry WITH at <- runAt

MCTransient == {"transport_interrupted", "rate_limited"}
MCRetryAfters == {1, 99}

-----------------------------------------------------------------------------
(* Answers of text alone, of two calls, and of two calls without ids.       *)
CONSTANTS Answers, Environments, Models, Repeats, InOrder, MaxUsages
VARIABLES provider, dialect, repeats, answer, sent, status, ending, slots, listening, chat
wire == <<provider, dialect, repeats, answer, sent, status, ending, slots, listening, chat>>
S == INSTANCE ProviderStream WITH agent <- listening

Wanted(id, name, args) == [id |-> id, name |-> name, args |-> args]
MCAnswers ==
  {[text |-> 2, calls |-> <<>>],
   [text |-> 1, calls |-> <<Wanted(<<"x">>, "read_file", 2), Wanted(<<"y">>, "read_file", 1)>>],
   [text |-> 0, calls |-> <<Wanted(<<>>, "read_file", 1), Wanted(<<>>, "edit_file", 2)>>]}
MCEnvironments ==
  [forced : {"none", "openai", "anthropic"},
   set : SUBSET {"AI_GATEWAY_API_KEY", "ANTHROPIC_API_KEY", "AI_BASE_URL"},
   stored : SUBSET {"gateway", "anthropic"}]

-----------------------------------------------------------------------------
(* Results below and above every limit, with wide characters everywhere.    *)
CONSTANTS Agents, CallIds(_), Texts, Threshold, PreviewBytes, InlineCap, ReadDefault,
          ReadMax, Queries, Cap, MaxResults
VARIABLES files, tmp, taking, taken, memory, reader, spoiled
results == <<files, tmp, taking, taken, memory, reader, spoiled>>
T == INSTANCE ToolResults WITH agent <- taking, transcript <- taken

MCTexts == {<<"a">>, <<"a", "l", "c", "b">>, <<"l", "c", "l", "c">>}
MCIds(a) == {"call_0"}
MCQueries == {<<"b">>}

ASSUME TurnAssumption == R!RetryAssumption /\ S!StreamAssumption /\ T!ResultAssumption

-----------------------------------------------------------------------------
VARIABLE part   \* the component that runs

GateIdle == mode = "ask" /\ rules = {} /\ interactive = TRUE /\ filter = MCEdits /\ Init
WireIdle ==
  /\ dialect = "openai" /\ repeats = FALSE /\ answer = [text |-> 2, calls |-> <<>>]
  /\ provider = S!Asked("gateway", "stored", "stored") /\ S!Init

MCInit ==
  /\ R!Init /\ T!Init
  /\ \/ part \in {"run", "results"} /\ GateIdle /\ WireIdle
     \/ part = "gate" /\ WireIdle /\ Init
     \/ part = "wire" /\ GateIdle /\ S!Init

RunStep == part = "run" /\ R!Next /\ UNCHANGED <<part, vars, wire, results>>
MCNext ==
  \/ RunStep
  \/ part = "gate" /\ Next /\ UNCHANGED <<part, run, wire, results>>
  \/ part = "wire" /\ S!Next /\ UNCHANGED <<part, run, vars, results>>
  \/ part = "results" /\ T!Next /\ UNCHANGED <<part, run, vars, wire>>

all == <<part, run, vars, wire, results>>
MCSpec == MCInit /\ [][MCNext]_all /\ WF_run(RunStep)

AnswerIsOneStream == R!AnswerIsOneStream
RunEnds == R!RunEnds
AnswerIsAsSent == S!AnswerIsAsSent
HandleReadsBack == T!HandleReadsBack
ReadsAddUp == T!ReadsAddUp
=============================================================================
