--------------------------- MODULE ProviderStream ---------------------------
(***************************************************************************)
(* What becomes of one answer of the model on its way from the wire to the *)
(* run: the provider that the environment and the credentials select, the  *)
(* events of its dialect, the translation of each dialect into common      *)
(* stream events, and the two listeners that put an answer together again: *)
(* the agent's loop, and chat() for single questions.                      *)
(*                                                                         *)
(* An answer is pieces of text and tool calls, the arguments of a call are *)
(* fragments of one JSON text, and a JSON text parses if it is whole.      *)
(***************************************************************************)
EXTENDS Integers, Sequences, SequencesExt, FiniteSets

CONSTANTS Answers,      \* the answers: [text : Nat, calls : Seq([id, name, args : Nat])]
          Environments, \* the variables that are set, and the stored credentials
          Models,       \* the model names: "claude" or another
          Repeats,      \* bound: whether a wire may name a call in every chunk
          InOrder,      \* whether calls open in the order of their index
          MaxUsages     \* bound: reports of the tokens used so far

StreamAssumption ==
  /\ Repeats \subseteq BOOLEAN /\ InOrder \in BOOLEAN
  /\ \A a \in Answers :
       /\ a.text \in Nat
       /\ a.calls \in Seq([id : Seq(STRING), name : STRING, args : Nat])

VARIABLES provider,  \* what resolve_provider returned
          dialect,   \* how the endpoint speaks
          repeats,   \* whether it names a call in every chunk
          answer,    \* what the model says
          sent,      \* how much of it is on the wire
          status,    \* "streaming", "answered", "failed"
          ending,    \* how the wire ended
          slots,     \* the translator: the calls of this stream
          agent,     \* what the agent's loop has put together
          chat       \* what chat() has put together

NoName == ""   \* a name, an id that was not sent; an id is a sequence
NoId == <<>>

source == <<provider, dialect, repeats, answer>>
vars == <<source, sent, status, ending, slots, agent, chat>>

-----------------------------------------------------------------------------
(* Which provider is asked.  An environment is [forced, set, stored]: the  *)
(* FX_PROVIDER, the other variables that are set, the kinds in auth.json.  *)

None == "none"
FirstOf(set, names) ==
  LET there == SelectSeq(names, LAMBDA n : n \in set) IN IF there = <<>> THEN None ELSE Head(there)

KeyNames(kind) ==
  CASE kind = "gateway"   -> <<"AI_GATEWAY_API_KEY", "FX_GATEWAY_API_KEY">>
    [] kind = "anthropic" -> <<"ANTHROPIC_API_KEY">>
    [] kind = "openai"    -> <<"AI_API_KEY">>

BaseNames(kind) ==
  CASE kind = "gateway"   -> <<"FX_GATEWAY_BASE_URL", "AI_GATEWAY_BASE_URL">>
    [] kind = "anthropic" -> <<"ANTHROPIC_BASE_URL">>
    [] kind = "openai"    -> <<"AI_BASE_URL">>

Asked(kind, key, base) == [kind |-> kind, key |-> key, base |-> base]

OfEnvironment(env, kind) ==
  Asked(kind, FirstOf(env.set, KeyNames(kind)), FirstOf(env.set, BaseNames(kind)))

\* A key of the environment goes before the stored one and hides its base.
ResolveKey(env, kind) ==
  LET own == OfEnvironment(env, kind) IN
  IF own.key # None \/ kind \notin env.stored THEN own
  ELSE Asked(kind, "stored", IF own.base = None THEN "stored" ELSE own.base)

\* An explicit choice; else a key that fits the model, the gateway's, an
\* endpoint of one's own, and last what is stored for the model.
ResolveProvider(env, model) ==
  LET last == ResolveKey(env, IF model = "claude" THEN "anthropic" ELSE "gateway") IN
  IF env.forced # None THEN OfEnvironment(env, env.forced)
  ELSE IF model = "claude" /\ "ANTHROPIC_API_KEY" \in env.set THEN OfEnvironment(env, "anthropic")
  ELSE IF "AI_GATEWAY_API_KEY" \in env.set THEN OfEnvironment(env, "gateway")
  ELSE IF "AI_BASE_URL" \in env.set THEN OfEnvironment(env, "openai")
  ELSE IF last.key # None THEN last
  ELSE Asked(None, None, None)

\* The dialects of an endpoint: an OpenAI endpoint may be a proxy of the AI SDK.
DialectsOf(kind) == IF kind = "anthropic" THEN {"anthropic"} ELSE {"openai", "sdk"}

-----------------------------------------------------------------------------
(* The listeners.  A call is heard as [id, name, args, quoted]: a text that *)
(* does not parse is passed on as a JSON string.                           *)

Heard(id, name, args, quoted) == [id |-> id, name |-> name, args |-> args, quoted |-> quoted]
Silence == [text |-> 0, order |-> <<>>, calls |-> <<>>, tokens |-> 0]

TextDelta == [type |-> "text"]
Usage(n) == [type |-> "usage", tokens |-> n]
CallStart(i, id, name) == [type |-> "start", index |-> i, id |-> id, name |-> name]
ArgDelta(i) == [type |-> "args", index |-> i]
CallDone(i, call) == [type |-> "done", index |-> i, call |-> call]

At(f, i, x) == [j \in DOMAIN f \cup {i} |-> IF j = i THEN x ELSE f[j]]

\* Faulty variant: a call that is named again goes on with what it has.
AgentHearsKeeping(h, e) ==
  CASE e.type = "start" ->
         [h EXCEPT !.order = IF e.index \in DOMAIN h.calls THEN @ ELSE Append(@, e.index),
                   !.calls = IF e.index \in DOMAIN @ THEN @
                             ELSE At(@, e.index, Heard(e.id, e.name, 0, FALSE))]
    [] e.type = "args" /\ e.index \in DOMAIN h.calls -> [h EXCEPT !.calls[e.index].args = @ + 1]
    [] e.type = "text" -> [h EXCEPT !.text = @ + 1]
    [] OTHER -> h

\* The agent's loop: calls by index, in the order of their first mention.  The
\* end of a call replaces what was put together of it.
AgentHears(h, e) ==
  CASE e.type = "text"  -> [h EXCEPT !.text = @ + 1]
    [] e.type = "usage" -> [h EXCEPT !.tokens = @ + e.tokens]
    [] e.type = "start" ->
         [h EXCEPT !.order = IF e.index \in DOMAIN h.calls THEN @ ELSE Append(@, e.index),
                   !.calls = At(@, e.index, Heard(e.id, e.name, 0, FALSE))]
    [] OTHER ->
         IF e.index \notin DOMAIN h.calls THEN h
         ELSE IF e.type = "args" THEN [h EXCEPT !.calls[e.index].args = @ + 1]
         ELSE [h EXCEPT !.calls[e.index] = e.call]

\* chat(): a list of calls, every mention a new one, found again by index.
ChatHears(h, e) ==
  LET found == SelectInSeq(h.calls, LAMBDA c : c.index = e.index) IN
  CASE e.type = "text"  -> [h EXCEPT !.text = @ + 1]
    [] e.type = "usage" -> [h EXCEPT !.tokens = e.tokens]
    [] e.type = "start" ->
         [h EXCEPT !.calls = Append(@, [index |-> e.index, call |-> Heard(e.id, e.name, 0, FALSE)])]
    [] OTHER ->
         IF found = 0 THEN h
         ELSE IF e.type = "args" THEN [h EXCEPT !.calls[found].call.args = @ + 1]
         ELSE [h EXCEPT !.calls[found].call = e.call]

\* Both hear one event after the other.
Hear(events) ==
  LET heard[k \in 0 .. Len(events)] == IF k = 0 THEN agent ELSE AgentHears(heard[k - 1], events[k])
      asked[k \in 0 .. Len(events)] == IF k = 0 THEN chat ELSE ChatHears(asked[k - 1], events[k])
  IN  agent' = heard[Len(events)] /\ chat' = asked[Len(events)]

-----------------------------------------------------------------------------
(* The wire.                                                               *)

Calls == DOMAIN answer.calls
Unopened == -1
Opened(i) == sent.args[i] # Unopened
Closed(i) == sent.closed[i]
AllSent ==
  /\ sent.text = answer.text
  /\ \A i \in Calls : Closed(i)

Init ==
  /\ \E env \in Environments, model \in Models : provider = ResolveProvider(env, model)
  /\ dialect \in DialectsOf(provider.kind)
  /\ repeats \in Repeats /\ answer \in Answers
  /\ sent = [text |-> 0, usage |-> 0,
             args |-> [i \in Calls |-> Unopened], closed |-> [i \in Calls |-> FALSE]]
  /\ status = "request" /\ ending = "no" /\ slots = <<>>
  /\ agent = Silence /\ chat = Silence

Streaming == status = "streaming" /\ ending = "no"

\* Without credentials there is no provider; the Anthropic client needs a key.
Request ==
  /\ status = "request"
  /\ \/ status' = "failed"
     \/ provider.kind # None /\ ~(provider.kind = "anthropic" /\ provider.key = None)
        /\ status' = "streaming"
  /\ UNCHANGED <<source, sent, ending, slots, agent, chat>>

Text ==
  /\ Streaming /\ sent.text < answer.text
  /\ dialect = "anthropic" => \A i \in Calls : ~Opened(i)
  /\ sent' = [sent EXCEPT !.text = @ + 1]
  /\ Hear(<<TextDelta>>)
  /\ UNCHANGED <<source, status, ending, slots>>

\* The tokens used, from the beginning of the stream.
ReportUsage ==
  /\ Streaming /\ AllSent /\ sent.usage < MaxUsages
  /\ sent' = [sent EXCEPT !.usage = @ + 1]
  /\ Hear(<<Usage(sent.usage + 1)>>)
  /\ UNCHANGED <<source, status, ending, slots>>

\* A slot: [index, id, name, args].  Those before it are made with its index.
Slot(index, id, name, args) == [index |-> index, id |-> id, name |-> name, args |-> args]
Reached(i) == IF i <= Len(slots) THEN slots
              ELSE slots \o [k \in 1 .. i - Len(slots) |-> Slot(i, NoId, NoName, 0)]

Finished(slot, i) ==
  Heard(slot.id, slot.name, slot.args, slot.args = 0 \/ slot.args # answer.calls[i].args)

\* Whether this chunk of call i names it: the first one, or all of them.
Names(i) == ~Opened(i) \/ repeats

\* Faulty variant: every chunk is of the call that was opened last.
OpenAiSlotLast(i, args) ==
  LET last == IF Opened(i) THEN Len(slots) ELSE i IN
  [Reached(i) EXCEPT ![last].id = IF Names(i) THEN answer.calls[i].id ELSE @,
                     ![last].name = IF Names(i) THEN answer.calls[i].name ELSE @,
                     ![last].args = @ + args]

OpenAiSlot(i, args) ==
  LET call == answer.calls[i] IN
  [Reached(i) EXCEPT ![i] = Slot(@.index, IF Names(i) THEN call.id ELSE @.id,
                                 IF Names(i) THEN call.name ELSE @.name, @.args + args)]

\* A chunk of tool_calls: calls are told apart by index and may interleave.
OpenAiCall(i, args) ==
  /\ Streaming /\ dialect = "openai" /\ ~Closed(i)
  /\ InOrder => \A j \in 1 .. i - 1 : Opened(j)
  /\ LET upto == (IF Opened(i) THEN sent.args[i] ELSE 0) + args IN
     /\ Opened(i) => args > 0
     /\ upto <= answer.calls[i].args
     /\ sent' = [sent EXCEPT !.args[i] = upto, !.closed[i] = upto = answer.calls[i].args]
  /\ slots' = OpenAiSlot(i, args)
  /\ Hear((IF Names(i) THEN <<CallStart(i, slots'[i].id, slots'[i].name)>> ELSE <<>>)
          \o [k \in 1 .. args |-> ArgDelta(i)])
  /\ UNCHANGED <<source, status, ending>>

\* Events of the AI SDK fill a slot and say nothing to the listeners.
SdkCall(i) ==
  /\ Streaming /\ dialect = "sdk" /\ ~Opened(i) /\ \A j \in 1 .. i - 1 : Opened(j)
  /\ LET call == answer.calls[i] IN
     /\ sent' = [sent EXCEPT !.args[i] = call.args, !.closed[i] = TRUE]
     /\ slots' = Append(slots, Slot(i, call.id, call.name, call.args))
  /\ UNCHANGED <<source, status, ending, agent, chat>>

\* Blocks come one after the other; a text is the first.
BlockStart(i) ==
  /\ Streaming /\ dialect = "anthropic" /\ ~Opened(i)
  /\ sent.text = answer.text /\ \A j \in 1 .. i - 1 : Closed(j)
  /\ sent' = [sent EXCEPT !.args[i] = 0]
  /\ slots' = <<Slot(i, answer.calls[i].id, answer.calls[i].name, 0)>>
  /\ Hear(<<CallStart(i, answer.calls[i].id, answer.calls[i].name)>>)
  /\ UNCHANGED <<source, status, ending>>

BlockDelta(i) ==
  /\ Streaming /\ dialect = "anthropic" /\ Opened(i) /\ ~Closed(i)
  /\ sent.args[i] < answer.calls[i].args
  /\ sent' = [sent EXCEPT !.args[i] = @ + 1]
  /\ slots' = [slots EXCEPT ![1].args = @ + 1]
  /\ Hear(<<ArgDelta(i)>>)
  /\ UNCHANGED <<source, status, ending>>

BlockStop(i) ==
  /\ Streaming /\ dialect = "anthropic" /\ Opened(i) /\ ~Closed(i)
  /\ sent.args[i] = answer.calls[i].args
  /\ sent' = [sent EXCEPT !.closed[i] = TRUE]
  /\ slots' = <<>>
  /\ Hear(<<CallDone(i, Finished(slots[1], i))>>)
  /\ UNCHANGED <<source, status, ending>>

\* What is left in the slots is finished; a gateway makes up missing ids.
LastCalls ==
  LET Named(s) == IF s.id = NoId /\ dialect # "anthropic"
                    THEN [s EXCEPT !.id = <<"call", s.index>>] ELSE s
      Done(s) == CallDone(s.index, Finished(Named(s), s.index))
      done[k \in 0 .. Len(slots)] ==   \* of the first k slots
        IF k = 0 THEN <<>>
        ELSE IF slots[k].name = NoName THEN done[k - 1] ELSE Append(done[k - 1], Done(slots[k]))
  IN  done[Len(slots)]

\* The mark of the end, or the end of the connection: the agent cannot tell.
End(how) ==
  /\ Streaming
  /\ how = "done" => AllSent
  /\ ending' = how /\ status' = "answered" /\ slots' = <<>>
  /\ Hear(LastCalls)
  /\ UNCHANGED <<source, sent>>

\* The transport fails, or the wire carries an error: no answer.
Error ==
  /\ Streaming
  /\ ending' = "error" /\ status' = "failed"
  /\ UNCHANGED <<source, sent, slots, agent, chat>>

Next ==
  \/ Request \/ Text \/ ReportUsage \/ Error
  \/ \E how \in {"done", "eof"} : End(how)
  \/ \E i \in Calls :
       \/ SdkCall(i) \/ BlockStart(i) \/ BlockDelta(i) \/ BlockStop(i)
       \/ \E args \in 0 .. 1 : OpenAiCall(i, args)

Spec == Init /\ [][Next]_vars

-----------------------------------------------------------------------------
(* Properties.                                                             *)

\* What the run goes on with.
Taken == [k \in DOMAIN agent.order |-> agent.calls[agent.order[k]]]
Asking == [k \in DOMAIN chat.calls |-> chat.calls[k].call]

\* A call as it was sent: whole, and with an id that was made up if it had none.
AsSent(i) ==
  LET call == answer.calls[i] IN
  Heard(IF call.id = NoId /\ dialect # "anthropic" THEN <<"call", i>> ELSE call.id,
        call.name, call.args, FALSE)
WholeAnswer == [i \in Calls |-> AsSent(i)]

\* However an answer was cut, interleaved and repeated on the wire: once its
\* end mark arrived, the agent goes on with all of its text and with exactly
\* its calls, in their order, each with its whole arguments.  Calls of the
\* AI SDK's events are excepted.
AnswerIsAsSent ==
  ending = "done" /\ dialect # "sdk" =>
    agent.text = answer.text /\ Taken = WholeAnswer

\* Of what a stream left when it broke off without an error no call is run
\* with less than its arguments.
NoCallIsCut ==
  status = "answered" => \A k \in DOMAIN Taken : ~Taken[k].quoted

\* The calls of the AI SDK's events are "accumulated like OpenAI tool_calls".
SdkCallsArrive ==
  ending = "done" => Len(Taken) = Cardinality(Calls)

\* The two listeners understand the same answer.
ChatHearsTheSame ==
  ending = "done" => chat.text = agent.text /\ Asking = Taken

\* The tokens that are counted are the tokens that were used.
UsageIsCountedOnce == ending = "done" => agent.tokens = sent.usage
=============================================================================
