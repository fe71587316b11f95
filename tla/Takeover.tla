------------------------------ MODULE Takeover ------------------------------
(***************************************************************************)
(* The controller that gives the human's keys to a terminal session: its   *)
(* phases, the Ctrl-] prefix, pastes that are passed on as they are, the   *)
(* input that is kept until the session takes it, and which surface is     *)
(* shown afterwards.  Keys are typed, and the owner of the alternate       *)
(* screen changes, in any order; what the terminal answers is external.    *)
(***************************************************************************)
EXTENDS Integers, Sequences, FiniteSets

CONSTANTS Keys,       \* the bytes that are typed: of the delimiters, "prefix", "d", "?", others
          PasteBegin, \* PASTE_BEGIN and PASTE_END: no first byte comes again in them
          PasteEnd,
          MaxWrite,   \* MAX_WRITE_BYTES
          MaxKeys     \* bound: bytes of one takeover; a release is tried twice

TakeoverAssumption ==
  /\ MaxWrite \in Nat /\ MaxKeys \in Nat
  /\ PasteBegin \in Seq(Keys \ {"prefix"}) /\ PasteEnd \in Seq(Keys \ {"prefix"})
  /\ Len(PasteBegin) = Len(PasteEnd)
  /\ PasteBegin # <<>> /\ PasteBegin[1] = PasteEnd[1]
  /\ \A k \in 2 .. Len(PasteBegin) : PasteBegin[k] # PasteBegin[1]
  /\ \A k \in 2 .. Len(PasteEnd) : PasteEnd[k] # PasteEnd[1]

Failures == {"disconnected", "unavailable", "session_not_found", "session_lost",
             "authority_denied", "lease_conflict", "other"}
Ends == {"exited", "closed", "lost"}

VARIABLES phase,    \* "inactive", "acquiring", "active", "releasing"
          reason,   \* why it returns
          parser,   \* [pending, inPaste, begin, end]
          input,    \* what is kept for the session
          help,     \* whether the help is shown
          owner,    \* who has the alternate screen
          attempts, \* of releasing
          surface,  \* what the surface did last
          typed,    \* history: the keys of this takeover
          written   \* history: what the session took of them

vars == <<phase, reason, parser, input, help, owner, attempts, surface, typed, written>>

NotStarted == [pending |-> FALSE, inPaste |-> FALSE, begin |-> 0, end |-> 0]

Init ==
  /\ phase = "inactive" /\ reason = "detach"
  /\ parser = NotStarted /\ input = <<>> /\ help = FALSE
  /\ owner \in {"none", "manager"} /\ attempts = 0 /\ surface = "none"
  /\ typed = <<>> /\ written = <<>>

-----------------------------------------------------------------------------
(* The prefix parser.                                                      *)

Advance(current, key, delimiter) ==
  IF key = delimiter[current + 1] THEN current + 1
  ELSE IF key = delimiter[1] THEN 1 ELSE 0

Fed(next, action, forwarded) == [parser |-> next, action |-> action, forwarded |-> forwarded]

\* Faulty variant: a prefix is a prefix in a paste as well.
FeedPasteToo(p, key) ==
  IF p.pending THEN CASE key = "d" -> Fed([p EXCEPT !.pending = FALSE], "detach", <<>>)
                      [] key = "?" -> Fed([p EXCEPT !.pending = FALSE], "help", <<>>)
                      [] OTHER     -> Fed([p EXCEPT !.pending = FALSE], "none", <<key>>)
  ELSE IF key = "prefix" THEN Fed([p EXCEPT !.pending = TRUE], "none", <<>>)
  ELSE Fed(p, "none", <<key>>)

Feed(p, key) ==
  LET end == Advance(p.end, key, PasteEnd)
      begin == Advance(p.begin, key, PasteBegin)
      q == IF begin = Len(PasteBegin) THEN [p EXCEPT !.inPaste = TRUE, !.begin = 0]
           ELSE [p EXCEPT !.begin = begin]
      r == [q EXCEPT !.pending = FALSE]
  IN  IF p.inPaste
        THEN Fed(IF end = Len(PasteEnd) THEN [p EXCEPT !.inPaste = FALSE, !.end = 0]
                 ELSE [p EXCEPT !.end = end], "none", <<key>>)
      ELSE IF p.pending THEN CASE key = "d" -> Fed(r, "detach", <<>>)
                               [] key = "?" -> Fed(r, "help", <<>>)
                               [] OTHER     -> Fed(r, "none", <<key>>)
      ELSE IF key = "prefix" THEN Fed([q EXCEPT !.pending = TRUE], "none", <<>>)
      ELSE Fed(q, "none", <<key>>)

-----------------------------------------------------------------------------
(* The controller.                                                         *)

Blocks == owner = "terminal"

\* retain_input: what does not fit is dropped.
Retained(bytes) == IF Len(input) + Len(bytes) <= MaxWrite THEN input \o bytes ELSE input

\* begin_return, once.
BeginReturn(why, discard) ==
  /\ phase' = "releasing" /\ reason' = why
  /\ input' = IF discard THEN <<>> ELSE input

\* handle_byte: a key the controller consumes, or leaves to the surface of fxrs.
Consumes == phase = "acquiring" \/ (phase \in {"active", "releasing"} /\ Blocks)

Key(key) ==
  /\ phase # "inactive" /\ Len(typed) < MaxKeys
  /\ IF ~Consumes \/ phase = "releasing"
       THEN UNCHANGED <<phase, reason, parser, input, help, typed>>
       ELSE LET fed == Feed(parser, key) IN
            /\ typed' = Append(typed, key)
            /\ parser' = fed.parser
            /\ help' = (fed.action = "help")
            /\ IF fed.action = "detach" THEN BeginReturn("detach", FALSE)
               ELSE input' = Retained(fed.forwarded) /\ UNCHANGED <<phase, reason>>
  /\ UNCHANGED <<owner, attempts, surface, written>>

\* The terminal session ended, or an answer to a write or to the acquisition failed.
LifecycleReason(end) == IF end = "lost" THEN "lost" ELSE "exited"
CompletionReason(failure) ==
  IF failure \in {"session_not_found", "session_lost", "disconnected", "unavailable"}
    THEN "lost" ELSE "failure"
OwnershipGone(failure) ==
  failure \in {"session_not_found", "session_lost", "authority_denied", "lease_conflict"}

Returns(why) ==
  /\ phase \in {"acquiring", "active"}
  /\ BeginReturn(why, TRUE)
  /\ UNCHANGED <<parser, help, owner, attempts, surface, typed, written>>

\* What the surface does when the takeover is over.
SurfaceReturn(managerActive, recovering) ==
  CASE managerActive /\ owner = "terminal"  -> "handoff_to_manager"
    [] managerActive /\ owner = "none"      -> "enter_manager"
    [] managerActive /\ owner = "manager"   -> "render_manager"
    [] ~managerActive /\ owner = "terminal" -> "leave_to_inline"
    [] OTHER -> IF ~managerActive /\ owner = "none" /\ recovering THEN "recover_inline" ELSE "none"

-----------------------------------------------------------------------------
(* The terminal, and what fxrs would do with it: external.                 *)

Acquire ==
  /\ phase = "inactive"
  /\ phase' = "acquiring" /\ surface' = "none"
  /\ UNCHANGED <<reason, parser, input, help, owner, attempts, typed, written>>

Acquired ==
  /\ phase = "acquiring"
  /\ phase' = "active" /\ owner' = "terminal"
  /\ UNCHANGED <<reason, parser, input, help, attempts, surface, typed, written>>

\* The session takes what is kept.
Flush ==
  /\ phase \in {"active", "releasing"} /\ input # <<>>
  /\ written' = written \o input /\ input' = <<>>
  /\ UNCHANGED <<phase, reason, parser, help, owner, attempts, surface, typed>>

\* defer_release: a release is tried again, unless there is nothing to release any more.
ReleaseFails(failure) ==
  /\ phase = "releasing" /\ ~OwnershipGone(failure) /\ attempts < 1
  /\ attempts' = attempts + 1
  /\ UNCHANGED <<phase, reason, parser, input, help, owner, surface, typed, written>>

Released(managerActive, recovering) ==
  /\ phase = "releasing" /\ input = <<>>
  /\ phase' = "inactive" /\ reason' = "detach" /\ parser' = NotStarted
  /\ help' = FALSE /\ attempts' = 0 /\ typed' = <<>> /\ written' = <<>>
  /\ owner' = IF managerActive THEN "manager" ELSE "none"
  /\ surface' = SurfaceReturn(managerActive, recovering)
  /\ UNCHANGED input

Next ==
  \/ \E key \in Keys : Key(key)
  \/ \E end \in Ends : Returns(LifecycleReason(end))
  \/ \E failure \in Failures : Returns(CompletionReason(failure)) \/ ReleaseFails(failure)
  \/ Acquire \/ Acquired \/ Flush
  \/ \E m, r \in BOOLEAN : Released(m, r)

Spec == Init /\ [][Next]_vars

-----------------------------------------------------------------------------
(* Properties.                                                             *)

\* The last of the first n keys are the first m of a mark.
Fits(keys, n, mark, m) == n >= m /\ \A j \in 1 .. m : keys[n - m + j] = mark[j]
EndsWith(keys, n, mark) == Fits(keys, n, mark, Len(mark))

\* The places where a paste begins and ends, found in what was typed as a whole:
\* the first end mark after a begin mark, the first begin mark after an end.
PasteOf(keys) ==   \* the begin of the paste after n keys, 0: none
  LET paste[n \in 0 .. Len(keys)] ==
        IF n = 0 THEN 0
        ELSE IF paste[n - 1] = 0 THEN IF EndsWith(keys, n, PasteBegin) THEN n ELSE 0
        ELSE IF EndsWith(keys, n, PasteEnd) /\ n - Len(PasteEnd) >= paste[n - 1] THEN 0
        ELSE paste[n - 1]
  IN  paste

\* A prefix is consumed with the key after it, unless it is that of a paste.
IsCommand(keys) ==
  LET command[n \in 0 .. Len(keys)] ==
        IF n = 0 THEN FALSE
        ELSE keys[n] = "prefix" /\ PasteOf(keys)[n - 1] = 0 /\ ~command[n - 1]
  IN  command

\* The keys that are for the session.
ForSession(keys) ==
  LET kept[n \in 0 .. Len(keys)] ==
        IF n = 0 THEN <<>>
        ELSE IF IsCommand(keys)[n] \/ (IsCommand(keys)[n - 1] /\ keys[n] \in {"d", "?"}) THEN kept[n - 1]
        ELSE Append(kept[n - 1], keys[n])
  IN  kept[Len(keys)]

\* As long as nothing was too long to be kept and nothing ended the session, it
\* has got, or will get, exactly the keys that were meant for it: a paste to
\* the byte, with whatever it holds, and of the prefix only what is typed twice.
SessionGetsItsKeys ==
  phase # "inactive" /\ reason = "detach" /\ Len(typed) <= MaxWrite =>
    written \o input = ForSession(typed)

\* The takeover is detached by the prefix and a "d", never by what was pasted.
DetachIsAsked ==
  phase = "releasing" /\ reason = "detach" =>
    Len(typed) > 0 /\ IsCommand(typed)[Len(typed) - 1] /\ typed[Len(typed)] = "d"

\* No key is dropped.
NoKeyDropped == phase = "active" => written \o input = ForSession(typed)
=============================================================================
