----------------------------- MODULE ModelRetry -----------------------------
(***************************************************************************)
(* One run of the agent against a provider whose streams may break off:    *)
(* rounds of request, stream and tools, and the policy that decides after  *)
(* a failure whether the request is sent again, and after which pause.     *)
(*                                                                         *)
(* What a stream delivers is named by the round and the attempt it came    *)
(* in; a request that is sent again replays the answer from its beginning. *)
(***************************************************************************)
EXTENDS Integers, Sequences, FiniteSets

CONSTANTS Transient,   \* the causes that are tried again
          RetryAfters, \* the delays that an error may name, in seconds
          NoSeconds,   \* an error that names none
          Limit,       \* DEFAULT_MAX_PROVIDER_ATTEMPTS
          MaxSeconds,  \* MAX_RETRY_AFTER_SECONDS
          MaxSteps,    \* max_agent_steps; 0, no limit, is not an instance
          MaxChunks    \* bound: events of one stream

RetryAssumption ==
  /\ Limit \in Nat /\ MaxSeconds \in Nat \ {0}
  /\ MaxSteps \in Nat \ {0} /\ MaxChunks \in Nat
  /\ RetryAfters \subseteq Nat /\ NoSeconds \notin Nat
  /\ {"content_filter", "request_limit_reached", "unknown", "none"} \cap Transient = {}

VARIABLES at,          \* what the run is doing
          step,        \* the round
          consumed,    \* provider_attempts.consumed
          pacing,      \* cause and number of the implicit delays in a row
          delay,       \* the pause before the next request, in ms
          text, calls, \* what the stream delivered so far
          chunks,      \* events of this stream
          transcript,  \* the answers that were committed
          ran,         \* the tool calls that were executed
          whole,       \* history: the streams that ended without an error
          failures,    \* history: the failures of this round that were tried again
          resent       \* history: the requests of the run that were sent again

stream == <<text, calls, chunks>>
kept == <<transcript, ran>>
history == <<whole, failures, resent>>
vars == <<at, step, consumed, pacing, delay, stream, kept, history>>

Ended == at \in {"stopped", "failed"}

Idle == [cause |-> "none", attempt |-> 0]

Init ==
  /\ at = "round" /\ step = 0
  /\ consumed = 0 /\ pacing = Idle /\ delay = 0
  /\ text = <<>> /\ calls = <<>> /\ chunks = 0
  /\ transcript = <<>> /\ ran = <<>>
  /\ whole = {} /\ failures = <<>> /\ resent = 0

-----------------------------------------------------------------------------
(* The policy.                                                             *)

\* What classify_failure makes of an error; "unknown" is never tried again.
Causes == Transient \cup {"content_filter", "request_limit_reached", "unknown"}

Least(a, b) == IF a <= b THEN a ELSE b

\* A delay that is too long is dropped, not shortened.
RetryAfter(named) == IF named # NoSeconds /\ named > MaxSeconds THEN NoSeconds ELSE named

\* The delay after so many implicit delays in a row, in ms.
RetryDelay(attempt) ==
  LET seconds[n \in 2 .. Limit + 2] ==
        IF n = 2 THEN 1 ELSE Least(2 * seconds[n - 1], MaxSeconds)
  IN  CASE attempt = 0 -> 0
        [] attempt = 1 -> 250
        [] OTHER -> 1000 * seconds[attempt]

\* Faulty variant: another cause goes on from the delay of the last one.
AfterFailureOfAny(pace, cause, after) ==
  IF after # NoSeconds THEN Idle
  ELSE [cause |-> cause, attempt |-> pace.attempt + 1]

AfterFailure(pace, cause, after) ==
  IF after # NoSeconds THEN Idle
  ELSE [cause |-> cause, attempt |-> IF pace.cause = cause THEN pace.attempt + 1 ELSE 1]

\* Nothing arrived: neither text nor a call.
Unsent == text = <<>> /\ calls = <<>>

Strategy(cause) ==
  CASE cause = "content_filter"        -> "stop"
    [] cause = "request_limit_reached" -> "pause"
    [] OTHER -> CASE consumed >= Limit -> "pause"
                  [] Unsent            -> "retry_request"
                  [] calls # <<>>      -> "reconcile_tool"
                  [] OTHER             -> "continue_response"

\* reserve_provider_attempt: whatever is neither a stop nor a pause takes of the budget.
Reserves(cause) == Strategy(cause) \notin {"stop", "pause"}

\* Faulty variant: a stream that named a tool is asked for again as well.
ResendsAlways(cause) == Reserves(cause)

\* The agent sends the request again; a tool call in doubt ends the run.
Resends(cause) == Strategy(cause) \in {"retry_request", "continue_response"}

-----------------------------------------------------------------------------
(* The rounds.                                                             *)

Attempt == <<step, consumed>>

\* The head of the loop: the step limit, the size of the context, a fresh budget.
Round ==
  /\ at = "round"
  /\ \/ step >= MaxSteps /\ at' = "stopped" /\ UNCHANGED <<step, consumed, pacing, delay>>
     \/ step < MaxSteps /\ step > 0 /\ at' = "failed"   \* the context is too large
        /\ UNCHANGED <<step, consumed, pacing, delay>>
     \/ step < MaxSteps /\ at' = "request" /\ step' = step + 1
        /\ consumed' = 0 /\ pacing' = Idle /\ delay' = 0
  /\ failures' = <<>>
  /\ UNCHANGED <<stream, kept, whole, resent>>

\* Faulty variant: a request that is sent again goes on after what was heard.
SendKeepingAnswer ==
  /\ at = "request"
  /\ at' = "stream" /\ chunks' = 0
  /\ UNCHANGED <<step, consumed, pacing, delay, text, calls, kept, history>>

\* Sends the request; whatever an earlier attempt delivered is dropped.
Send ==
  /\ at = "request"
  /\ at' = "stream"
  /\ text' = <<>> /\ calls' = <<>> /\ chunks' = 0
  /\ UNCHANGED <<step, consumed, pacing, delay, kept, history>>

Chunk ==
  /\ at = "stream" /\ chunks < MaxChunks
  /\ chunks' = chunks + 1
  /\ \/ text' = Append(text, Attempt) /\ UNCHANGED calls
     \/ calls' = Append(calls, Attempt) /\ UNCHANGED text
  /\ UNCHANGED <<at, step, consumed, pacing, delay, kept, history>>

\* The stream breaks off with an error of this cause.
StreamError(cause, named) ==
  LET after == RetryAfter(named) IN
  /\ at = "stream"
  /\ IF cause = "unknown"
       THEN at' = "failed" /\ UNCHANGED <<consumed, pacing, delay, failures, resent>>
       ELSE /\ consumed' = IF Reserves(cause) THEN consumed + 1 ELSE consumed
            /\ pacing' = IF Reserves(cause) THEN AfterFailure(pacing, cause, after) ELSE Idle
            /\ delay' = IF ~Reserves(cause) THEN 0
                        ELSE IF after # NoSeconds THEN 1000 * after
                        ELSE RetryDelay(pacing'.attempt)
            /\ at' = IF Resends(cause) THEN "pause" ELSE "failed"
            /\ IF Resends(cause)
                 THEN /\ failures' = IF Len(failures) = Limit THEN failures
                                     ELSE Append(failures, [cause |-> cause, after |-> after])
                      /\ resent' = Least(resent + 1, MaxSteps * Limit + 1)
                 ELSE UNCHANGED <<failures, resent>>
  /\ UNCHANGED <<step, stream, kept, whole>>

Pause ==
  /\ at = "pause"
  /\ at' = "request"
  /\ UNCHANGED <<step, consumed, pacing, delay, stream, kept, history>>

\* Faulty variant: an empty answer is asked for again.
AfterStreamAskingAgain(heard) ==
  IF Unsent THEN "request" ELSE IF heard = <<>> THEN "stopped" ELSE "tools"

\* An answer without a call is the last one.
AfterStream(heard) == IF heard = <<>> THEN "stopped" ELSE "tools"

\* The stream ends.  Calls may be written out in the text; an answer that says
\* nothing is not kept.
StreamEnd ==
  /\ at = "stream"
  /\ whole' = whole \cup {Attempt}
  /\ \E written \in {w \in BOOLEAN : w => calls = <<>> /\ text # <<>>} :
       calls' = IF written THEN <<Attempt>> ELSE calls
  /\ at' = AfterStream(calls')
  /\ transcript' = IF Unsent THEN transcript
                   ELSE Append(transcript, [text |-> text, calls |-> calls'])
  /\ UNCHANGED <<step, consumed, pacing, delay, text, chunks, ran, failures, resent>>

\* The tools of the answer run one after the other.
RunTools ==
  /\ at = "tools"
  /\ ran' = ran \o calls
  /\ at' = "round"
  /\ UNCHANGED <<step, consumed, pacing, delay, stream, transcript, history>>

Next ==
  \/ Round \/ Send \/ Chunk \/ Pause \/ StreamEnd \/ RunTools
  \/ \E c \in Causes, s \in RetryAfters \cup {NoSeconds} : StreamError(c, s)

\* The loop runs on by itself: a request has 300 seconds, and a pause ends.
Spec == Init /\ [][Next]_vars /\ WF_vars(Next)

-----------------------------------------------------------------------------
(* Properties.                                                             *)

\* What the run keeps is one answer of the provider, whole: all that was
\* committed as one message, and every call that was executed, came from a
\* single stream that ended, never from an attempt that broke off.
AnswerIsOneStream ==
  /\ \A i \in DOMAIN transcript : \E a \in whole :
       /\ \A k \in DOMAIN transcript[i].text : transcript[i].text[k] = a
       /\ \A k \in DOMAIN transcript[i].calls : transcript[i].calls[k] = a
  /\ \A k \in DOMAIN ran : ran[k] \in whole

\* A stream that named a tool and broke off is not asked for again: the run ends.
NoRetryAfterCall ==
  [][at = "stream" /\ calls # <<>> /\ at' # "stream" => at' \in {"tools", "failed"}]_vars

\* The failures of the last cause in a row, in this round and none of them
\* with a delay of its own.
InARow ==
  LET n == Len(failures) IN
  Cardinality({i \in 1 .. n : \A j \in i .. n :
    /\ failures[j].cause = failures[n].cause
    /\ failures[j].after = NoSeconds})

\* The pause is the one the error names, or 250 ms and then 1 s doubled with
\* every failure of the same cause in a row, never above the longest.
PauseFollowsFailures ==
  at = "pause" =>
    delay = CASE InARow = 0 -> 1000 * failures[Len(failures)].after
              [] InARow = 1 -> 250
              [] OTHER -> 1000 * Least(2 ^ (InARow - 2), MaxSeconds)

\* A provider that keeps failing does not hold a run that has begun: it ends.
RunEnds == step > 0 ~> Ended

\* "Bounded by a per-run attempt budget": no run sends more requests again
\* than the budget has.
BudgetIsPerRun == resent <= Limit
=============================================================================
