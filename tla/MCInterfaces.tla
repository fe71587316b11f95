---------------------------- MODULE MCInterfaces ----------------------------
(***************************************************************************)
(* What a user works with and what it reaches: the full-screen interface,  *)
(* its composer, the line-by-line interface and the tools of other         *)
(* servers, side by side.  One runs while the others rest in an initial    *)
(* state, so that one run visits the states of all and no product of them. *)
(***************************************************************************)
EXTENDS Naturals, Sequences

CONSTANTS Listed, Heights, ScreenRows, PageRows, MaxLines, MaxItems, MaxSpawned
VARIABLES loop, mode, rows, screen, resized, transcript, pick, loading, page, running, spawned,
          unheld
app == <<loop, mode, rows, screen, resized, transcript, pick, loading, page, running, spawned,
         unheld>>
T == INSTANCE TuiApp WITH at <- loop

ListedVal == [Resume |-> {"s1", "s2"}, Skills |-> {}]
PageRowsVal == [Help |-> 4, Settings |-> 1]

-----------------------------------------------------------------------------
CONSTANTS Chars, Word, Combining, Blank, MaxLen, MaxEdits, MaxKilled, MaxHistory
VARIABLES input, cursor, undo, redo, coalescing, ring, rotation, prompts, pos, panicked, base
composer == <<input, cursor, undo, redo, coalescing, ring, rotation, prompts, pos, panicked, base>>
C == INSTANCE Composer WITH history <- prompts

CharsVal == {<<" ">>, <<"e1", "e2">>}
WordVal == {<<"e1", "e2">>}
CombiningVal == {}
BlankVal == {<<" ">>}

-----------------------------------------------------------------------------
CONSTANTS MaxLinesRead, NoSession
VARIABLES open, read, first, resume, conversation, asked, keys
repl == <<open, read, first, resume, conversation, asked, keys>>
R == INSTANCE Repl

-----------------------------------------------------------------------------
CONSTANTS Configs, Tools, Calls, MaxAsked, MaxSkips, Versions, Noises, ServerIds, MaxNoise
VARIABLES servers, probed, state, published, turn, worker, link, told, executed
mcp == <<servers, probed, state, published, turn, worker, link, told, executed>>
M == INSTANCE Mcp WITH MaxRounds <- MaxAsked

Local == [scheme |-> "http", plain |-> TRUE, loopback |-> TRUE]
Listens(n, t) == [name |-> n, transport |-> t, enabled |-> TRUE, command |-> TRUE,
                  url |-> Local, token |-> "none", speaks |-> 2]
A == <<"a">>
AB == <<"a", "_", "b">>
(* Names with single underscores; names that are there twice, the first one *)
(* or the second one disabled; servers that cannot be probed.               *)
ConfigsVal ==
  {<<Listens(AB, "stdio")>>,
   <<[Listens(A, "http") EXCEPT !.url.loopback = FALSE], Listens(AB, "http")>>,
   <<Listens(A, "sse")>>,
   <<Listens(A, "http"), [Listens(A, "stdio") EXCEPT !.enabled = FALSE]>>,
   <<[Listens(A, "stdio") EXCEPT !.enabled = FALSE], Listens(A, "http")>>,
   <<Listens(A, "stdio"), Listens(A, "http")>>,
   <<[Listens(A, "http") EXCEPT !.token = "unset"], Listens(AB, "stdio")>>}
ToolsVal == {<<"_", "t">>}
VersionsVal == [http |-> 3, sse |-> 4]
CallsVal == 1 .. 2

-----------------------------------------------------------------------------
ASSUME InterfacesAssumption == T!ScreenAssumption /\ C!CharsAssumption /\ R!SomeLines

VARIABLE part   \* the component that runs

\* One initial state of each, in which it stays while another moves.
AppIdle == T!Init /\ rows = 3 /\ transcript.lines = <<1>>
ReplIdle == R!Init /\ resume = NoSession
McpIdle == M!Init /\ servers = <<Listens(AB, "stdio")>>

MCInit ==
  /\ C!Init
  /\ \/ part = "composer" /\ AppIdle /\ ReplIdle /\ McpIdle
     \/ part = "app" /\ T!Init /\ ReplIdle /\ McpIdle
     \/ part = "repl" /\ AppIdle /\ R!Init /\ McpIdle
     \/ part = "mcp" /\ AppIdle /\ ReplIdle /\ M!Init

MCNext ==
  /\ \/ part = "app" /\ T!Next /\ UNCHANGED <<composer, repl, mcp>>
     \/ part = "composer" /\ C!Next /\ UNCHANGED <<app, repl, mcp>>
     \/ part = "repl" /\ R!Next /\ UNCHANGED <<app, composer, mcp>>
     \/ part = "mcp" /\ M!Next /\ UNCHANGED <<app, composer, repl>>
  /\ UNCHANGED part

MCSpec == MCInit /\ [][MCNext]_<<app, composer, repl, mcp, part>>

SelectionOnScreen == T!SelectionOnScreen
UndoLeadsBack == C!UndoLeadsBack
NeverPanics == C!NeverPanics
PublishedLeadsBack == M!PublishedLeadsBack
AnswerIsOurs == M!AnswerIsOurs
=============================================================================
