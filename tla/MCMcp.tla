------------------------------- MODULE MCMcp -------------------------------
(* The MCP clients under a fair clock, what they check arguments with, and  *)
(* what reads their streams and a model's, side by side: while one runs,    *)
(* the others rest in one initial state.                                    *)
EXTENDS Mcp, TLC

Local == [scheme |-> "http", plain |-> TRUE, loopback |-> TRUE]
Distant == [Local EXCEPT !.loopback = FALSE]
Server(n, t) == [name |-> n, transport |-> t, enabled |-> TRUE, command |-> TRUE,
                 url |-> Local, token |-> "none", speaks |-> 2]

A == <<"a">>
AB == <<"a", "_", "b">>
(* Names with single underscores; names that are there twice, the first one *)
(* or the second one disabled; servers that cannot be probed.               *)
ConfigsVal ==
    {<<Server(AB, "stdio")>>,
     <<[Server(A, "http") EXCEPT !.url = Distant], Server(AB, "http")>>,
     <<Server(A, "sse")>>,
     <<Server(A, "http"), [Server(A, "stdio") EXCEPT !.enabled = FALSE]>>,
     <<[Server(A, "stdio") EXCEPT !.enabled = FALSE], Server(A, "http")>>,
     <<Server(A, "stdio"), Server(A, "http")>>,
     <<[Server(A, "http") EXCEPT !.token = "unset"], Server(AB, "stdio")>>}
ToolsVal == {<<"_", "t">>}
VersionsVal == [http |-> 3, sse |-> 4]
CallsVal == 1 .. 2

-----------------------------------------------------------------------------
CONSTANTS Open, Close, Texts, Bodies, Cut, MaxEvents
VARIABLES text, fed, mask, sse, lines
streams == <<text, fed, mask, sse, lines>>
S == INSTANCE Streams

Mark(t, n) == [text |-> t, name |-> n]
(* `<invoke`, `<tool_call` and `<tool_calls`, a parameter.                  *)
OpenVal == {Mark(<<"<", "i", "k">>, "invoke"), Mark(<<"<", "t">>, "tool_calls"),
            Mark(<<"<", "t", "s">>, "tool_calls"), Mark(<<"<", "p">>, "parameter")}
CloseVal == {Mark(<<"<", "/", "i", "k">>, "invoke"), Mark(<<"<", "/", "t">>, "tool_calls"),
             Mark(<<"<", "/", "t", "s">>, "tool_calls"), Mark(<<"<", "/", "p">>, "parameter")}
Pieces == {<<"<", "i", "k", ">">>, <<"<", "/", "i", "k", ">">>, <<"<", "t", "s", ">">>,
           <<"<", "/", "t", "s", ">">>, <<"<", "p", ">">>, <<"x">>, <<"n">>, <<"<">>, <<"/">>}
TextsVal == {s[1] \o s[2] \o s[3] \o s[4] : s \in [1 .. 4 -> Pieces]}
BodiesVal == UNION {[1 .. n -> {"d", "e", ":", "n", "r"}] : n \in 1 .. 5}
CutVal == {1, 2, 5}

-----------------------------------------------------------------------------
CONSTANTS Schemas, Values, MaxDepth
VARIABLES schema, instance, verdict
checking == <<schema, instance, verdict>>
J == INSTANCE McpSchema

Num(n) == [is |-> "number", n |-> n]
Text(n) == [is |-> "string", len |-> n]
Object(f) == [is |-> "object", map |-> f]
Array(s) == [is |-> "array", items |-> s]
Scalars == {Num(2), Num(3), Text(1), [is |-> "null"]}
Objects == {Object(f) : f \in UNION {[k -> {Num(2), Text(1)}] : k \in SUBSET {"a", "b", "c"}}}
Arrays == {Array(s) : s \in UNION {[1 .. n -> {Num(2), Num(3)}] : n \in 0 .. 3}}
ValuesVal == Scalars \cup Objects \cup Arrays
             \cup {Object([a |-> o]) : o \in Objects} \cup {Array(<<Array(<<Num(2)>>)>>)}

Integral == [type |-> {"integer"}]
Str == [type |-> {"string"}]
Leaves == {Integral, Str, [type |-> {"number", "null"}], [minimum |-> 3], [maxLength |-> 0],
           [const |-> Num(2)], [required |-> {"a"}], [uniqueItems |-> TRUE]}
Never == [never |-> TRUE]
Over(s, t) ==
    {[allOf |-> <<s, t>>], [anyOf |-> <<s, t>>], [oneOf |-> <<s, t>>], [not |-> <<s>>],
     [properties |-> [a |-> s, b |-> t], additionalProperties |-> Never],
     [properties |-> [a |-> s], patternProperties |-> [matches |-> {"a", "b"}, schema |-> t]],
     [properties |-> [a |-> s], additionalProperties |-> t, required |-> {"a"}],
     [items |-> <<s>>], [prefixItems |-> <<s, t>>, items |-> <<s>>, maxItems |-> 2]}
Refs == {[ref |-> "#"], [ref |-> "elsewhere"],
         [properties |-> [a |-> [ref |-> "#"]], required |-> {"a"}],
         [anyOf |-> <<[ref |-> "S"], [ref |-> "#"]>>, defs |-> [S |-> Str]],
         [items |-> <<[ref |-> "N"]>>, defs |-> [N |-> [anyOf |-> <<Integral, [ref |-> "#"]>>]]]}
Falses == {Never, [properties |-> [a |-> Never]], [items |-> <<Never>>, prefixItems |-> <<Str>>],
           [noItems |-> TRUE], [prefixItems |-> <<Integral>>, noItems |-> TRUE],
           [anyOf |-> <<Str, Never>>], [not |-> <<Never>>], [allOf |-> <<Integral, Never>>],
           [patternProperties |-> [matches |-> {"a"}, schema |-> Never], additionalProperties |-> Never]}
SchemasVal == Leaves \cup Refs \cup Falses \cup UNION {Over(s, t) : s, t \in Leaves}
              \cup UNION {Over([properties |-> [a |-> s, b |-> s]], [oneOf |-> <<s, Integral>>]) : s \in Leaves}

-----------------------------------------------------------------------------
McpIdle == servers = <<Server(AB, "stdio")>> /\ probed = 0 /\ turn = 0
StreamsIdle == text = [what |-> "sent", is |-> <<"d">>] /\ fed = 0
CheckingIdle == schema = Integral /\ instance = Num(2) /\ verdict = J!Unchecked

MCInit ==
    \/ text = [what |-> "sent", is |-> <<"d">>] /\ CheckingIdle /\ Init /\ S!Init /\ J!Init
    \/ servers = <<Server(AB, "stdio")>> /\ CheckingIdle /\ Init /\ S!Init /\ J!Init
    \/ servers = <<Server(AB, "stdio")>> /\ text = [what |-> "sent", is |-> <<"d">>] /\ Init /\ S!Init /\ J!Init

MCNext ==
    \/ StreamsIdle /\ CheckingIdle /\ Next /\ UNCHANGED <<streams, checking>>
    \/ McpIdle /\ CheckingIdle /\ S!Next /\ UNCHANGED <<vars, checking>>
    \/ McpIdle /\ StreamsIdle /\ J!Next /\ UNCHANGED <<vars, streams>>

all == <<vars, streams, checking>>
MCSpec == MCInit /\ [][MCNext]_all /\ WF_vars(Timeout) /\ WF_vars(Hear)

ShownHoweverCut == S!ShownHoweverCut
EventsAreItsLines == S!EventsAreItsLines
VerdictIsTheStandards == J!VerdictIsTheStandards
=============================================================================
