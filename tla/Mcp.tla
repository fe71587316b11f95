-------------------------------- MODULE Mcp --------------------------------
(* The clients of the Model Context Protocol (mcp.rs, mcp_transport.rs,     *)
(* mcp_ext.rs): the discovery of the configured servers, and one worker     *)
(* thread per call that opens a connection of its own, shakes hands, lists, *)
(* calls, and answers what the server asks on the way, while the agent      *)
(* waits for it no longer than the timeout.                                 *)
(* Servers are the environment: they answer, refuse, ask, say what nobody   *)
(* asked for, close or are silent.  Names are sequences of characters: what *)
(* a published name is taken apart into is part of the model.               *)
EXTENDS Integers, Sequences, FiniteSets

CONSTANTS
    Configs,    \* the lists of servers that the configuration may hold
    Tools,      \* the names of a server's tools
    Calls,      \* bound: the calls, 1 .. n, discovery included
    MaxRounds,  \* MRTR_MAX_ROUNDS
    MaxSkips,   \* the messages that a stdio request reads at most (500)
    Versions,   \* the protocol versions that are tried, by transport
    Noises,     \* what a server says unasked
    ServerIds,  \* the ids of a server's own requests
    MaxNoise    \* bound: the messages of a server that nobody asked for

ASSUME CallsAssumption == Calls \subseteq Nat \ {0} /\ IsFiniteSet(Calls)
ASSUME BoundsAssumption == MaxRounds \in Nat /\ MaxSkips \in Nat \ {0}

VARIABLES
    servers,    \* config.mcp_servers
    probed,     \* the servers that the discovery has dealt with
    state,      \* server -> availability, for those it reports
    published,  \* the tools that the discovery found, with their servers
    turn,       \* the call that the agent waits for, or 0
    worker,     \* call -> its worker thread
    link,       \* call -> its connection: request on its way, bytes on the way back
    told,       \* call -> what the agent was told
    executed    \* call -> the tool runs that the server made for it

vars == <<servers, probed, state, published, turn, worker, link, told, executed>>

\* Names
Sep == <<"_", "_">>
prefixed_name(server, tool) == server \o Sep \o tool
SepAt(name) == {i \in 1 .. Len(name) - 1 : SubSeq(name, i, i + 1) = Sep}
parse_prefixed(name) ==
    LET i == CHOOSE i \in SepAt(name) : \A j \in SepAt(name) : i <= j
    IN  [server |-> SubSeq(name, 1, i - 1), tool |-> SubSeq(name, i + 2, Len(name))]

(* The server that a name is sent to: the first of that name, if enabled.   *)
Named(server) == {i \in DOMAIN servers : servers[i].name = server}
Route(name) ==
    LET found == Named(parse_prefixed(name).server)
        first == CHOOSE i \in found : \A j \in found : i <= j
    IN  IF SepAt(name) = {} \/ found = {} THEN 0
        ELSE IF servers[first].enabled THEN first ELSE 0

(* A plain http endpoint is for this machine only, and none has a fragment  *)
(* or user information.                                                     *)
validate_endpoint(url) ==
    /\ url.scheme \in {"https", "http"}
    /\ url.plain
    /\ url.scheme = "http" => url.loopback

Reachable(cfg) == IF cfg.transport = "stdio" THEN cfg.command ELSE validate_endpoint(cfg.url)
AuthMissing(cfg) == cfg.transport # "stdio" /\ cfg.token = "unset"

NoWorker == [at |-> "none", srv |-> 0, want |-> "list", tool |-> <<>>, fits |-> TRUE,
             id |-> 0, attempt |-> 1, rounds |-> 0, responses |-> {}, skipped |-> 0]
NoRequest == [id |-> 0, round |-> 0, attempt |-> 0, responses |-> {}]
Closed == [open |-> FALSE, up |-> NoRequest, down |-> <<>>, last |-> NoRequest, noise |-> 0]
Nothing == [kind |-> "none", of |-> NoRequest]

Init ==
    /\ servers \in Configs
    /\ probed = 0
    /\ state = [i \in DOMAIN servers |-> "unknown"]
    /\ published = {}
    /\ turn = 0
    /\ worker = [c \in Calls |-> NoWorker]
    /\ link = [c \in Calls |-> Closed]
    /\ told = [c \in Calls |-> Nothing]
    /\ executed = [c \in Calls |-> <<>>]

-----------------------------------------------------------------------------
(* The agent: discovery, then calls.                                        *)

Unused == {c \in Calls : worker[c].at = "none" /\ told[c] = Nothing}
NextCall == CHOOSE c \in Unused : \A d \in Unused : c <= d

(* with_timeout: the work goes to a thread and the caller waits.            *)
with_timeout(w) ==
    /\ Unused # {}
    /\ turn' = NextCall
    /\ worker' = [worker EXCEPT ![NextCall] = w]
    /\ UNCHANGED <<link, told, executed>>

ShadowsNothing(i) == FALSE
Shadowed(i) == \E j \in 1 .. i - 1 : servers[j].name = servers[i].name

(* The discovery passes the servers in the order of the configuration; the  *)
(* first of a name is the one that counts.                                  *)
Discover ==
    LET i == probed + 1
        cfg == servers[i]
        says(a) == /\ state' = [state EXCEPT ![i] = a]
                   /\ probed' = i
                   /\ UNCHANGED <<turn, worker, link, told, executed>>
    IN  /\ turn = 0 /\ i \in DOMAIN servers
        /\ \/ Shadowed(i) /\ says("shadowed")
           \/ ~Shadowed(i) /\ ~cfg.enabled /\ says("disabled")
           \/ ~Shadowed(i) /\ cfg.enabled /\ ~Reachable(cfg) /\ says("failed")
           \/ ~Shadowed(i) /\ cfg.enabled /\ Reachable(cfg) /\ AuthMissing(cfg)
                /\ says("authentication_required")
           \/ /\ ~Shadowed(i) /\ cfg.enabled /\ Reachable(cfg) /\ ~AuthMissing(cfg)
              /\ with_timeout([NoWorker EXCEPT !.at = "opening", !.srv = i])
              /\ UNCHANGED <<state, probed>>
        /\ UNCHANGED <<servers, published>>

(* What the discovery does with an answer, and the agent with that of a call *)
Hear ==
    /\ turn # 0 /\ told[turn] # Nothing
    /\ IF worker[turn].want = "list"
       THEN LET i == worker[turn].srv
            IN  /\ probed' = i
                /\ state' = [state EXCEPT ![i] =
                       IF told[turn].kind = "ok" THEN "ready" ELSE "failed"]
                /\ published' = published \cup
                       (IF told[turn].kind = "ok"
                        THEN {[srv |-> i, tool |-> t] : t \in Tools} ELSE {})
       ELSE UNCHANGED <<probed, state, published>>
    /\ turn' = 0
    /\ UNCHANGED <<servers, worker, link, told, executed>>

(* execute_mcp: a published name is taken apart and its server looked up.   *)
(* A name that leads nowhere is refused without a thread.                   *)
Execute ==
    /\ turn = 0 /\ probed = Len(servers)
    /\ \E p \in published, fits \in BOOLEAN :
         LET name == prefixed_name(servers[p.srv].name, p.tool)
         IN  /\ Route(name) # 0
             /\ with_timeout([NoWorker EXCEPT !.at = "opening", !.srv = Route(name),
                                 !.want = "call", !.tool = parse_prefixed(name).tool,
                                 !.fits = fits])
    /\ UNCHANGED <<servers, probed, state, published>>

Waits(c) == turn = c /\ told[c] = Nothing
WaitsOn(c) == FALSE
GiveUp(c) == Waits(c)

(* The agent waits no longer than the timeout; the thread is not told.      *)
Timeout ==
    /\ \E c \in Calls :
         /\ GiveUp(c)
         /\ told' = [told EXCEPT ![c] = [Nothing EXCEPT !.kind = "timeout"]]
    /\ UNCHANGED <<servers, probed, state, published, turn, worker, link, executed>>

-----------------------------------------------------------------------------
(* A worker.                                                                *)

agent == <<servers, probed, state, published, turn>>
Transport(c) == servers[worker[c].srv].transport

(* The thread ends: its connection is torn down, and the agent hears of it  *)
(* if it still waits.                                                       *)
Finish(c, outcome) ==
    /\ worker' = [worker EXCEPT ![c].at = "ended"]
    /\ link' = [link EXCEPT ![c].open = FALSE, ![c].up = NoRequest, ![c].down = <<>>]
    /\ told' = IF Waits(c) THEN [told EXCEPT ![c] = outcome] ELSE told

Failed == [Nothing EXCEPT !.kind = "error"]
Answered(m) == [kind |-> "ok", of |-> m.of]

(* A request: written to the child, or posted, by http on a connection of   *)
(* its own.                                                                 *)
Send(c, w, l) ==
    LET r == [id |-> w.id, round |-> w.rounds, attempt |-> w.attempt, responses |-> w.responses]
    IN  /\ worker' = [worker EXCEPT ![c] = [w EXCEPT !.at = "awaiting", !.skipped = 0]]
        /\ link' = [link EXCEPT ![c] =
               [l EXCEPT !.up = r, !.last = r, !.open = @ \/ Transport(c) = "http"]]
        /\ UNCHANGED told

(* Spawning the child, or opening the connection, can fail; the first       *)
(* request is the handshake's.                                              *)
OpenLink(c) ==
    /\ worker[c].at = "opening"
    /\ \/ Send(c, [worker[c] EXCEPT !.id = 1], [Closed EXCEPT !.open = TRUE])
       \/ Finish(c, Failed)
    /\ UNCHANGED <<agent, executed>>

(* What follows an answer that is taken for the one to the request.  An     *)
(* answer to `initialize` without a version is refused; a remote client     *)
(* lists before it calls, and refuses arguments that the listing forbids.   *)
Proceed(c, m) ==
    LET w == worker[c]
        next(id) == Send(c, [w EXCEPT !.id = id, !.attempt = 1], [link[c] EXCEPT !.down = Tail(@)])
        listed == w.want = "list" \/ Transport(c) # "stdio"
    IN  \/ m.kind = "error" /\ Finish(c, Failed)
        \/ w.id = 1 /\ m.kind \notin {"error", "initialized"} /\ Finish(c, Failed)
        \/ w.id = 1 /\ m.kind = "initialized" /\ next(IF listed THEN 2 ELSE 3)
        \/ w.id = 2 /\ m.kind # "error" /\ w.want = "list" /\ Finish(c, Answered(m))
        \/ w.id = 2 /\ m.kind # "error" /\ w.want = "call" /\ ~w.fits /\ Finish(c, Failed)
        \/ w.id = 2 /\ m.kind # "error" /\ w.want = "call" /\ w.fits /\ next(3)

(* The requests of an envelope that fxrs has an answer to.  Nothing else is *)
(* answered; with no answer at all the request is sent as it was.           *)
build_mrtr_responses(asks) == asks \cap {"roots", "sampling", "elicitation"}
with_responses(old, new) == IF new = {} THEN old ELSE new
MayAskAgain(w) == w.rounds <= MaxRounds
MayAsk(w) == w.rounds < MaxRounds

(* The answer to a call: it may ask for more, a bounded number of times.    *)
Round(c, m) ==
    LET w == worker[c]
        again == m.asks # {} /\ MayAsk(w)
    IN  /\ w.id = 3 /\ m.kind # "error"
        /\ \/ ~again /\ Finish(c, Answered(m))
           \/ /\ again
              /\ Send(c, [w EXCEPT !.rounds = @ + 1, !.attempt = 1,
                             !.responses = with_responses(@, build_mrtr_responses(m.asks))],
                      [link[c] EXCEPT !.down = Tail(@)])

(* stdio: messages are read until one has the id of the request.            *)
AnybodysAnswer(c, m) == m.id # 0
Ours(c, m) == m.id = worker[c].id
ReadStdio(c) ==
    /\ worker[c].at = "awaiting" /\ Transport(c) = "stdio"
    /\ IF link[c].down = <<>>
       THEN ~link[c].open /\ Finish(c, Failed)
       ELSE LET m == Head(link[c].down)
            IN  \/ Ours(c, m) /\ (Proceed(c, m) \/ Round(c, m))
                \/ ~Ours(c, m) /\ worker[c].skipped + 1 = MaxSkips /\ Finish(c, Failed)
                \/ /\ ~Ours(c, m) /\ worker[c].skipped + 1 < MaxSkips
                   /\ worker' = [worker EXCEPT ![c].skipped = @ + 1]
                   /\ link' = [link EXCEPT ![c].down = Tail(@)]
                   /\ UNCHANGED told
    /\ UNCHANGED <<agent, executed>>

(* http: the first message of the body is the answer, whatever its id.      *)
(* A version that the server refuses is replaced by the next older one.     *)
ReadHttp(c) ==
    /\ worker[c].at = "awaiting" /\ Transport(c) = "http"
    /\ IF link[c].down = <<>>
       THEN ~link[c].open /\ Finish(c, Failed)
       ELSE LET m == Head(link[c].down)
                w == worker[c]
            IN  \/ m.kind = "unsupported" /\ w.attempt = Versions["http"] /\ Finish(c, Failed)
                \/ /\ m.kind = "unsupported" /\ w.attempt < Versions["http"]
                   /\ Send(c, [w EXCEPT !.attempt = @ + 1], [link[c] EXCEPT !.down = Tail(@)])
                \/ m.kind # "unsupported" /\ (Proceed(c, m) \/ Round(c, m))
    /\ UNCHANGED <<agent, executed>>

(* Legacy event stream: what has the id is handed on as it came, envelope   *)
(* and all, so that the handshake finds no version in it.  Any failure is   *)
(* taken for one of the version and the request is posted again.            *)
ReadSse(c) ==
    /\ worker[c].at = "awaiting" /\ Transport(c) = "sse"
    /\ LET w == worker[c]
       IN  IF link[c].down = <<>>
           THEN /\ ~link[c].open
                /\ \/ w.attempt = Versions["sse"] /\ Finish(c, Failed)
                   \/ w.attempt < Versions["sse"] /\ Send(c, [w EXCEPT !.attempt = @ + 1], link[c])
           ELSE \/ Ours(c, Head(link[c].down)) /\ Finish(c, Failed)
                \/ /\ ~Ours(c, Head(link[c].down))
                   /\ link' = [link EXCEPT ![c].down = Tail(@)]
                   /\ UNCHANGED <<worker, told>>
    /\ UNCHANGED <<agent, executed>>

-----------------------------------------------------------------------------
(* The servers.                                                             *)

Message(id, kind, asks, of) == [id |-> id, kind |-> kind, asks |-> asks, of |-> of]
Asks == {{}, {"roots"}, {"unknown"}}

Replies(c) ==
    LET r == link[c].up
        all == {Message(r.id, "error", {}, r)} \cup
               CASE r.id = 1 -> {Message(1, k, {}, r) : k \in {"initialized", "versionless"}}
                 [] r.id = 2 -> {Message(2, "tools", {}, r)}
                 [] OTHER -> {Message(3, "done", a, r) : a \in Asks}
        cfg == servers[worker[c].srv]
    IN  IF cfg.transport = "http" /\ r.attempt < cfg.speaks
        THEN {Message(r.id, "unsupported", {}, r)} ELSE all

(* A tool runs before the answer leaves.                                    *)
Serve(c) ==
    /\ link[c].open /\ link[c].up # NoRequest
    /\ \E m \in Replies(c) :
         /\ link' = [link EXCEPT ![c].down = Append(@, m), ![c].up = NoRequest]
         /\ executed' = IF m.kind = "done"
                        THEN [executed EXCEPT ![c] = Append(@, link[c].up.responses)]
                        ELSE executed
    /\ UNCHANGED <<agent, worker, told>>

(* Notifications, requests of its own, and answers that are sent again.     *)
Unasked(c) ==
    LET of == link[c].last
    IN  {m \in {Message(0, "notification", {}, NoRequest)} : "notification" \in Noises}
        \cup {Message(i, "request", {}, NoRequest) : i \in IF "request" \in Noises THEN ServerIds ELSE {}}
        \cup {m \in {Message(1, "initialized", {}, of)} : "repeat" \in Noises /\ of.id > 1}
        \cup {m \in {Message(3, "done", {}, [of EXCEPT !.round = 0])} :
                 "repeated round" \in Noises /\ of.id = 3 /\ of.round > 0}

Speaks(c) ==
    /\ link[c].open /\ link[c].noise < MaxNoise
    /\ Transport(c) = "http" => "stream" \in Noises /\ link[c].up # NoRequest
    /\ \E m \in Unasked(c) :
         link' = [link EXCEPT ![c].down = Append(@, m), ![c].noise = @ + 1]
    /\ UNCHANGED <<agent, worker, told, executed>>

Hangup(c) ==
    /\ link[c].open
    /\ link' = [link EXCEPT ![c].open = FALSE]
    /\ UNCHANGED <<agent, worker, told, executed>>

Next ==
    \/ Discover \/ Hear \/ Execute \/ Timeout
    \/ \E c \in Calls : \/ OpenLink(c)
                        \/ ReadStdio(c) \/ ReadHttp(c) \/ ReadSse(c)
                        \/ Serve(c) \/ Speaks(c) \/ Hangup(c)

(* The clock of recv_timeout runs; of servers nothing is assumed.           *)
Spec == Init /\ [][Next]_vars /\ WF_vars(Timeout) /\ WF_vars(Hear)

-----------------------------------------------------------------------------
(* A tool that the discovery published is one that its name leads back to:  *)
(* the same server, enabled, and the same tool (mcp.rs, discover and        *)
(* execute_mcp go through the same list in two ways).                       *)
PublishedLeadsBack ==
    \A p \in published :
        LET name == prefixed_name(servers[p.srv].name, p.tool)
        IN  Route(name) = p.srv /\ parse_prefixed(name).tool = p.tool

(* What the agent is told a call returned is what the server sent for the   *)
(* last request of that call, not a late answer to an earlier one.          *)
AnswerIsOurs ==
    \A c \in Calls :
        told[c].kind = "ok" => told[c].of = link[c].last /\ told[c].of.id > 1

(* A server never runs a tool more often for one call than the rounds       *)
(* allow, and never with arguments that its listing forbids.                *)
RunsAreBounded ==
    \A c \in Calls :
        /\ Len(executed[c]) <= 1 + MaxRounds
        /\ executed[c] # <<>> /\ Transport(c) # "stdio" => worker[c].fits

(* No server, silent or talkative, keeps the agent from going on            *)
(* (mcp.rs:16, "a misbehaving MCP server can never wedge the agent").       *)
AgentGoesOn == \A c \in Calls : (turn = c) ~> (turn # c)

-----------------------------------------------------------------------------
(* Refuted (README, section 4).                                             *)

(* After the agent was told of a timeout the tool is not run any more.      *)
NoLateRun ==
    [][\A c \in Calls : told[c].kind = "timeout" => executed'[c] = executed[c]]_vars

(* A server that speaks the legacy transport shakes hands (mcp.rs:10).      *)
LegacyShakesHands ==
    [][\A c \in Calls :
          /\ worker[c].at = "awaiting" /\ worker'[c].at = "ended"
          /\ Transport(c) = "sse" /\ link[c].down # <<>>
             => Head(link[c].down).kind # "initialized"]_vars

(* The answers that go with a round are those to what the round asks.       *)
AnswersAreOfThisRound ==
    [][\A c \in Calls :
          worker'[c].rounds > worker[c].rounds =>
              worker'[c].responses \subseteq Head(link[c].down).asks]_vars

(* What the `mcp` tool lists (it passes over no name twice) can be called.  *)
ListedLeadsBack ==
    \A i \in DOMAIN servers : servers[i].enabled =>
        \A t \in Tools : Route(prefixed_name(servers[i].name, t)) = i

(* The child of a call that is over is over too.                            *)
ChildIsReaped == \A c \in Calls : (told[c] # Nothing) ~> (worker[c].at = "ended")
=============================================================================
