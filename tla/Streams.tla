------------------------------ MODULE Streams ------------------------------
(* What arrives in pieces and must mean the same however it is cut: the     *)
(* mask that hides a model's textual tool calls from the screen             *)
(* (tools/mod.rs), and the two decoders of event streams, of the MCP        *)
(* transports (mcp_transport.rs) and of the providers (providers/sse.rs).   *)
(* A text is a sequence of characters; the markers are given as constants   *)
(* over a small alphabet, with the prefixes of one another they really have.*)
EXTENDS Integers, Sequences, FiniteSets, SequencesExt

CONSTANTS
    Open, Close,  \* MARKUP_OPEN, MARKUP_CLOSE: [text, name] records
    Texts,        \* what a model may say
    Bodies,       \* what a server may send
    Cut,          \* bound: the lengths of a delta
    MaxEvents     \* MAX_SSE_EVENTS

VARIABLES
    text,   \* the whole of it
    fed,    \* how much of it has arrived
    mask,   \* ToolMarkupMask and what it gave out
    sse,    \* SseParser and its events
    lines   \* the state of sse_events and what it yielded

vars == <<text, fed, mask, sse, lines>>

-----------------------------------------------------------------------------
(* ToolMarkupMask                                                           *)

At(s, t) == {i \in 0 .. Len(s) - Len(t) : SubSeq(s, i + 1, i + Len(t)) = t}
Drop(s, n) == SubSeq(s, n + 1, Len(s))

(* The earliest marker of a list, the longest of those at one place.        *)
find_markers(s, markers) ==
    LET found == UNION {{[at |-> i, len |-> Len(m.text), name |-> m.name] : i \in At(s, m.text)}
                        : m \in markers}
    IN  IF found = {} THEN [at |-> -1, len |-> 0, name |-> ""]
        ELSE CHOOSE f \in found : \A g \in found :
                 f.at < g.at \/ (f.at = g.at /\ f.len >= g.len)

(* The tail from the last `<` may be the beginning of a marker.             *)
PartialOf(s, markers) ==
    LET starts == {i \in 1 .. Len(s) : s[i] = "<"}
        last == CHOOSE i \in starts : \A j \in starts : j <= i
    IN  /\ starts # {}
        /\ \E m \in markers : IsPrefix(SubSeq(s, last, Len(s)), m.text)
OpenPartialOnly(s) == PartialOf(s, Open)
ends_with_partial(s) == PartialOf(s, Open \cup Close)

NewMask == [pending |-> <<>>, inside |-> FALSE, depth |-> 0, out |-> <<>>, held |-> FALSE]

(* One newline after a block is dropped with it.                            *)
AfterBlock(s) == IF s # <<>> /\ Head(s) = "n" THEN Tail(s) ELSE s

(* Inside a block: opens and closes are counted, parameters are not, and    *)
(* all else is thrown away.                                                 *)
Hide(k) ==
    LET o == find_markers(k.pending, Open)
        c == find_markers(k.pending, Close)
        closes == c.at >= 0 /\ (o.at < 0 \/ c.at < o.at)
        rest == Drop(k.pending, c.at + c.len)
        ends == At(rest, <<">">>)
        end == CHOOSE i \in ends : \A j \in ends : i <= j
        deeper == IF o.name = "parameter" THEN 0 ELSE 1
        depth == IF c.name = "parameter" \/ k.depth = 0 THEN k.depth ELSE k.depth - 1
        out == c.name # "parameter" /\ depth = 0
    IN  IF o.at < 0 /\ c.at < 0
        THEN [k EXCEPT !.held = TRUE,
                       !.pending = IF ends_with_partial(@) THEN @ ELSE <<>>]
        ELSE IF ~closes
        THEN [k EXCEPT !.pending = Drop(@, o.at + o.len), !.depth = @ + deeper]
        ELSE IF ends = {} THEN [k EXCEPT !.held = TRUE]
        ELSE [k EXCEPT !.depth = depth, !.inside = ~out,
                       !.pending = IF out THEN AfterBlock(Drop(rest, end + 1))
                                          ELSE Drop(rest, end + 1)]

(* Outside: text is given out up to the next block, unless its end may be   *)
(* the beginning of one.                                                    *)
Show(k) ==
    LET o == find_markers(k.pending, Open)
    IN  IF o.at < 0
        THEN IF ends_with_partial(k.pending) THEN [k EXCEPT !.held = TRUE]
             ELSE [k EXCEPT !.held = TRUE, !.out = @ \o k.pending, !.pending = <<>>]
        ELSE IF o.at > 0 /\ k.pending[o.at] = "/"
        THEN [k EXCEPT !.out = Append(@, Head(k.pending)), !.pending = Tail(@)]
        ELSE [k EXCEPT !.out = @ \o SubSeq(k.pending, 1, o.at),
                       !.pending = Drop(@, o.at + o.len), !.inside = TRUE, !.depth = 1]

RECURSIVE Settle(_)
Settle(k) == IF k.held THEN k ELSE Settle(IF k.inside THEN Hide(k) ELSE Show(k))

filter(k, chunk) == Settle([k EXCEPT !.pending = @ \o chunk, !.held = FALSE])
finish(k) == k.out \o (IF k.inside THEN <<>> ELSE k.pending)

-----------------------------------------------------------------------------
(* SseParser.  A character "d" stands for `data:x`, "e" for `event:x`,      *)
(* ":" begins a comment; "n" and "r" are the line ends.                     *)

NewSse == [line |-> <<>>, data |-> <<>>, kind |-> FALSE, cr |-> FALSE, out |-> <<>>]
Event(p) == [kind |-> p.kind, data |-> p.data]

dispatch_event(p) ==
    IF (p.data = <<>> /\ ~p.kind) \/ Len(p.out) >= MaxEvents THEN p
    ELSE [p EXCEPT !.out = Append(@, Event(p)), !.data = <<>>, !.kind = FALSE]

Field(p, line) ==
    CASE line = <<>> \/ line[1] = ":" -> p
      [] line[1] = "d" -> [p EXCEPT !.data = Append(@, Tail(line))]
      [] line[1] = "e" -> [p EXCEPT !.kind = TRUE]
      [] OTHER -> p

(* A blank line ends the event.                                             *)
dispatch_line(p) ==
    LET read == [Field(p, p.line) EXCEPT !.line = <<>>]
    IN  IF p.line = <<>> THEN dispatch_event(read) ELSE read

FeedUnfolded(p, b) ==
    LET q == IF p.cr THEN [dispatch_line(p) EXCEPT !.cr = FALSE] ELSE p
    IN  IF b = "r" THEN [q EXCEPT !.cr = TRUE]
        ELSE IF b = "n" THEN dispatch_line(q)
        ELSE [q EXCEPT !.line = Append(@, b)]
FeedByte(p, b) ==
    LET q == IF p.cr THEN [dispatch_line(p) EXCEPT !.cr = FALSE] ELSE p
    IN  IF p.cr /\ b = "n" THEN q
        ELSE IF b = "r" THEN [q EXCEPT !.cr = TRUE]
        ELSE IF b = "n" THEN dispatch_line(q)
        ELSE [q EXCEPT !.line = Append(@, b)]

feed(p, chunk) == FoldLeft(LAMBDA q, b : FeedByte(q, b), p, chunk)
SseFinish(p) == dispatch_event([Field(p, p.line) EXCEPT !.line = <<>>, !.cr = FALSE])

-----------------------------------------------------------------------------
(* sse_events: lines at "n" alone, a trailing "r" stripped, events without  *)
(* data dropped but their type kept for the next one.                       *)

NewLines == [buf |-> <<>>, data |-> <<>>, kind |-> FALSE, out |-> <<>>]
flush(p) ==
    IF p.data = <<>> THEN p
    ELSE [p EXCEPT !.out = Append(@, Event(p)), !.data = <<>>, !.kind = FALSE]
strip_cr(s) == IF s # <<>> /\ Last(s) = "r" THEN Front(s) ELSE s

RECURSIVE complete_lines(_)
complete_lines(p) ==
    LET ends == At(p.buf, <<"n">>)
        end == CHOOSE i \in ends : \A j \in ends : i <= j
        line == strip_cr(SubSeq(p.buf, 1, end))
        read == [p EXCEPT !.buf = Drop(@, end + 1)]
    IN  IF ends = {} THEN p
        ELSE complete_lines(IF line = <<>> THEN flush(read) ELSE Field(read, line))

take_chunk(p, chunk) == complete_lines([p EXCEPT !.buf = @ \o chunk])

-----------------------------------------------------------------------------
Init ==
    /\ text \in [what : {"said"}, is : Texts] \cup [what : {"sent"}, is : Bodies]
    /\ fed = 0
    /\ mask = NewMask
    /\ sse = NewSse
    /\ lines = NewLines

(* The next delta, of any length.                                           *)
Delta ==
    \E n \in Cut :
        LET chunk == SubSeq(text.is, fed + 1, fed + n)
        IN  /\ fed + n <= Len(text.is)
            /\ fed' = fed + n
            /\ IF text.what = "said"
               THEN mask' = filter(mask, chunk) /\ UNCHANGED <<sse, lines>>
               ELSE /\ sse' = feed(sse, chunk)
                    /\ lines' = take_chunk(lines, chunk)
                    /\ UNCHANGED mask
            /\ UNCHANGED text

Next == Delta
Spec == Init /\ [][Next]_vars

-----------------------------------------------------------------------------
(* However a model's text is cut into deltas, the same of it is shown and   *)
(* the same is hidden.  Newlines are left out of the comparison: the one    *)
(* after a block is shown if it comes with a later delta.                   *)
Visible(s) == SelectSeq(s, LAMBDA c : c # "n")
ShownHoweverCut ==
    text.what = "said" /\ fed = Len(text.is) =>
        Visible(finish(mask)) = Visible(finish(filter(NewMask, text.is)))

(* The lines of a text by the rule of the format: a line ends at "r" "n",   *)
(* or at either alone.                                                      *)
Ends(s) == {i \in 1 .. Len(s) : s[i] = "n" \/ (s[i] = "r" /\ (i = Len(s) \/ s[i + 1] # "n"))}
Line(s, i) ==
    LET before == {j \in Ends(s) : j < i}
        from == IF before = {} THEN 1 ELSE 1 + CHOOSE j \in before : \A k \in before : k <= j
    IN  SelectSeq(SubSeq(s, from, i - 1), LAMBDA c : c # "r")
LinesOf(s) == LET closed == IF s # <<>> /\ Len(s) \notin Ends(s) THEN Append(s, "n") ELSE s
              IN  [k \in 1 .. Cardinality(Ends(closed)) |->
                      Line(closed, CHOOSE i \in Ends(closed) :
                                       Cardinality({j \in Ends(closed) : j < i}) = k - 1)]
EventsOf(s) ==
    FoldLeft(LAMBDA p, l : IF l = <<>> THEN dispatch_event(p) ELSE Field(p, l), NewSse, LinesOf(s))

(* An MCP event stream gives the events that its lines spell, whichever of  *)
(* the three line ends it uses, however it is cut, with or without one at   *)
(* the end.                                                                 *)
EventsAreItsLines ==
    text.what = "sent" /\ fed = Len(text.is) =>
        SseFinish(sse).out = dispatch_event(EventsOf(text.is)).out

(* Refuted (README, section 4): the mask gives out the same characters,     *)
(* newlines included; the last line of a provider's stream counts without a *)
(* line end, as the one of an MCP stream does.                              *)
SameCharactersShown ==
    text.what = "said" /\ fed = Len(text.is) =>
        finish(mask) = finish(filter(NewMask, text.is))
LastLineCounts ==
    text.what = "sent" /\ fed = Len(text.is) =>
        {e.data : e \in ToSet(SseFinish(sse).out)} \ {<<>>} \subseteq {e.data : e \in ToSet(flush(lines).out)}
=============================================================================
