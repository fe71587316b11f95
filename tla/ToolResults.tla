---------------------------- MODULE ToolResults ----------------------------
(***************************************************************************)
(* What becomes of the result of a tool: put into the transcript as it is, *)
(* cut, or stored in a file under a handle that the model can read ranges  *)
(* of; and the memory of what the run has done.  Agents of several         *)
(* processes share one directory of results.                               *)
(*                                                                         *)
(* A text is the sequence of its bytes: "l" begins and "c" ends a          *)
(* character of two bytes, every other byte is a character.                *)
(***************************************************************************)
EXTENDS Integers, Sequences, SequencesExt, FiniteSets

CONSTANTS Agents,
          CallIds(_),   \* the ids that calls of an agent may have
          Texts,        \* the results tools may give
          Threshold,    \* large_result_threshold_bytes
          PreviewBytes, \* preview_bytes
          InlineCap,    \* max_tool_result_bytes
          ReadDefault,  \* read_default_bytes
          ReadMax,      \* read_max_bytes
          Queries,      \* what is searched for
          Cap,          \* entries of the execution memory
          MaxResults    \* bound: results of one agent

VARIABLES files,      \* what the file of each handle holds; <<>>: there is none
          tmp,        \* what the temporary file of each handle holds
          agent,      \* what each agent is doing
          transcript, \* the results each agent has taken in
          memory,     \* the execution memory
          reader,     \* a reader of a stored result, going on from its last range
          spoiled     \* history: the handles at which a write stopped that others shared

vars == <<files, tmp, agent, transcript, memory, reader, spoiled>>

\* Faulty variant: the handle is made of the call's id alone.
HandleOfCall(call, text) == [call |-> call, text |-> <<>>]

\* The handle is made of the call's id and of a digest of the text.
Handle(call, text) == [call |-> call, text |-> text]
Handles == {Handle(c, t) : c \in UNION {CallIds(a) : a \in Agents},
                           t \in {u \in Texts : Len(u) > Threshold}}

Idle == [at |-> "idle"]
Torn == <<"torn">>
NoRead == [of |-> <<>>, next |-> 1, got |-> <<>>]

-----------------------------------------------------------------------------
(* Texts and their characters.                                             *)

Lesser(a, b) == IF a <= b THEN a ELSE b
Greater(a, b) == IF a >= b THEN a ELSE b

\* No character is cut at idx bytes.
IsBoundary(text, idx) == idx >= Len(text) \/ text[idx + 1] # "c"

\* What a tool gives is a String: no byte is half of a character by itself.
IsText(text) ==
  \A i \in DOMAIN text :
    /\ text[i] # "?"
    /\ text[i] = "c" => i > 1 /\ text[i - 1] = "l"
    /\ text[i] = "l" => i < Len(text) /\ text[i + 1] = "c"

ResultAssumption ==
  /\ Threshold \in Nat /\ PreviewBytes \in Nat /\ InlineCap \in Nat
  /\ ReadDefault \in Nat \ {0} /\ ReadMax \in Nat \ {0}
  /\ Cap \in Nat \ {0} /\ MaxResults \in Nat
  /\ \A text \in Texts : text \in Seq(STRING) /\ IsText(text)

\* Of the first n items, for every n, those at the places.
Picked(items, places) ==
  LET picked[n \in 0 .. Len(items)] ==
        IF n = 0 THEN <<>>
        ELSE IF n \in places THEN Append(picked[n - 1], items[n]) ELSE picked[n - 1]
  IN  picked

\* from_utf8_lossy, by its characters; half of one becomes "?".
Begins(text, i) == text[i] # "c" \/ i = 1 \/ text[i - 1] # "l"
CharacterAt(text, i) ==
  IF text[i] = "c" THEN "?"
  ELSE IF text[i] # "l" THEN text[i]
  ELSE IF i < Len(text) /\ text[i + 1] = "c" THEN "lc" ELSE "?"
CharactersUpTo(text) ==
  Picked([i \in DOMAIN text |-> CharacterAt(text, i)], {i \in DOMAIN text : Begins(text, i)})
Characters(text) == CharactersUpTo(text)[Len(text)]

\* Faulty variant: a range ends where its last byte is.
ForwardNowhere(text, idx) == idx

\* utf8_forward_boundary, utf8_backward_boundary.  The latter looks at the byte
\* before: a range that begins after a wide character begins inside it.
Forward(text, idx) == IF IsBoundary(text, idx) THEN idx ELSE idx + 1
Backward(text, idx) == IF idx > 0 /\ text[idx] = "c" THEN idx - 1 ELSE idx

\* read_by_range: the first and last byte that are read.
RangeOf(text, startByte, byteCount) ==
  LET start == IF startByte = 0 THEN 0 ELSE Lesser(startByte, Len(text) + 1) - 1
      count == IF byteCount = 0 THEN ReadDefault ELSE Lesser(byteCount, ReadMax)
      end == Lesser(Len(text), start + count)
  IN  <<Backward(text, start) + 1, Forward(text, end)>>

\* search_by_query: the window around the first match.
Window(text, query, at) ==
  LET half == Greater(ReadDefault - Len(query), 0) \div 2 IN
  <<Greater(at - 1 - half, 0), Lesser(at - 1 + Len(query) + half, Len(text))>>

-----------------------------------------------------------------------------
(* The memory.                                                             *)

\* One entry is what a call was and how its result begins; the same entry is
\* not written twice in a row.
Remember(entries, entry) ==
  IF entries # <<>> /\ Last(entries) = entry THEN entries
  ELSE LET all == Append(entries, entry) IN
       IF Len(all) > Cap THEN Tail(all) ELSE all

-----------------------------------------------------------------------------
(* A result is taken in.                                                   *)

\* How a result of a call is shown: "inline", "cut" or "stored".
Shown(kind, call, text) == [kind |-> kind, call |-> call, text |-> text]

Enter(a, shown) ==
  /\ transcript' = [transcript EXCEPT ![a] = Append(@, shown)]
  /\ memory' = [memory EXCEPT ![a] = Remember(@, shown.text)]

\* capped_inline; to cut inside a character ends the run.
Inline(a, call, text) ==
  IF Len(text) <= InlineCap \/ IsBoundary(text, InlineCap)
    THEN /\ Enter(a, Shown(IF Len(text) <= InlineCap THEN "inline" ELSE "cut", call, text))
         /\ agent' = [agent EXCEPT ![a] = Idle]
    ELSE agent' = [agent EXCEPT ![a] = [at |-> "panicked"]] /\ UNCHANGED <<transcript, memory>>

Result(a, call, text) ==
  /\ agent[a] = Idle /\ Len(transcript[a]) < MaxResults
  /\ IF Len(text) > Threshold
       THEN agent' = [agent EXCEPT ![a] = [at |-> "open", call |-> call, text |-> text]]
            /\ UNCHANGED <<transcript, memory>>
       ELSE Inline(a, call, text)
  /\ UNCHANGED <<files, tmp, reader, spoiled>>

Job(a) == Handle(agent[a].call, agent[a].text)

\* The temporary file is made anew or emptied: all who save this handle share it.
Open(a) ==
  /\ agent[a].at = "open"
  /\ tmp' = [tmp EXCEPT ![Job(a)] = Torn]
  /\ agent' = [agent EXCEPT ![a] =
       [at |-> "write", call |-> @.call, text |-> @.text, on |-> "tmp"]]
  /\ UNCHANGED <<files, transcript, memory, reader, spoiled>>

\* Written is the file that was opened, whatever its name is now.
Write(a) ==
  /\ agent[a].at = "write"
  /\ tmp' = IF agent[a].on = "tmp" THEN [tmp EXCEPT ![Job(a)] = agent[a].text] ELSE tmp
  /\ files' = IF agent[a].on = "file" THEN [files EXCEPT ![Job(a)] = agent[a].text] ELSE files
  /\ agent' = [agent EXCEPT ![a].at = "rename"]
  /\ UNCHANGED <<transcript, memory, reader, spoiled>>

\* What the others who save this handle have open is the file now, or nothing.
Moved(a) ==
  [b \in Agents |->
    IF agent[b].at \in {"write", "rename"} /\ Job(b) = Job(a)
      THEN [agent[b] EXCEPT !.on = IF @ = "tmp" THEN "file" ELSE "gone"] ELSE agent[b]]

\* The file gets its name and the model a preview, which may end in a panic too.
Rename(a) ==
  /\ agent[a].at = "rename" /\ tmp[Job(a)] # <<>>
  /\ files' = [files EXCEPT ![Job(a)] = tmp[Job(a)]]
  /\ tmp' = [tmp EXCEPT ![Job(a)] = <<>>]
  /\ IF IsBoundary(agent[a].text, PreviewBytes)
       THEN /\ Enter(a, Shown("stored", agent[a].call, agent[a].text))
            /\ agent' = [Moved(a) EXCEPT ![a] = Idle]
       ELSE /\ agent' = [Moved(a) EXCEPT ![a] = [at |-> "panicked"]]
            /\ UNCHANGED <<transcript, memory>>
  /\ UNCHANGED <<reader, spoiled>>

\* A write that stops in a file that has its name already, or while another
\* agent saves the same handle and may rename what is there.
Stopped(a) ==
  spoiled' = IF /\ agent[a].at = "write"
                /\ \/ agent[a].on = "file"
                   \/ \E b \in Agents \ {a} : agent[b].at \in {"write", "rename"} /\ Job(b) = Job(a)
               THEN spoiled \cup {Job(a)} ELSE spoiled

\* The store fails, or another one has renamed the file: the result is cut.
StoreFails(a) ==
  /\ agent[a].at \in {"open", "write", "rename"}
  /\ Inline(a, agent[a].call, agent[a].text) /\ Stopped(a)
  /\ UNCHANGED <<files, tmp, reader>>

\* A run that was killed, or that panicked, is followed by another one.
Kill(a) ==
  /\ agent[a].at \in {"open", "write", "rename", "panicked"}
  /\ agent' = [agent EXCEPT ![a] = Idle] /\ Stopped(a)
  /\ UNCHANGED <<files, tmp, transcript, memory, reader>>

-----------------------------------------------------------------------------
(* A stored result is read.                                                *)

\* read_tool_result by a range: the reader goes on after the last byte it got.
Read(h, count) ==
  /\ \E a \in Agents : agent[a] = Idle
  /\ reader.next <= Len(files[h]) /\ reader.of \in {<<>>, files[h]}
  /\ LET range == RangeOf(files[h], reader.next, count) IN
     reader' = [of |-> files[h], next |-> range[2] + 1,
                got |-> reader.got \o Characters(SubSeq(files[h], range[1], range[2]))]
  /\ UNCHANGED <<files, tmp, agent, transcript, memory, spoiled>>

\* By a query; a window that begins or ends inside a character ends the run.
Search(a, h, query) ==
  /\ agent[a] = Idle
  /\ LET text == files[h]
         found == {k \in 1 .. Len(text) + 1 - Len(query) :
                       SubSeq(text, k, k + Len(query) - 1) = query} IN
     \E k \in found :
       /\ \A j \in found : k <= j
       /\ \E b \in 1 .. 2 : ~IsBoundary(text, Window(text, query, k)[b])
  /\ agent' = [agent EXCEPT ![a] = [at |-> "panicked"]]
  /\ UNCHANGED <<files, tmp, transcript, memory, reader, spoiled>>

Init ==
  /\ files = [h \in Handles |-> <<>>] /\ tmp = [h \in Handles |-> <<>>]
  /\ agent = [a \in Agents |-> Idle]
  /\ transcript = [a \in Agents |-> <<>>] /\ memory = [a \in Agents |-> <<>>]
  /\ reader = NoRead /\ spoiled = {}

Next ==
  \/ \E a \in Agents :
       \/ Open(a) \/ Write(a) \/ Rename(a) \/ StoreFails(a) \/ Kill(a)
       \/ \E call \in CallIds(a), text \in Texts : Result(a, call, text)
       \/ \E h \in Handles, query \in Queries : Search(a, h, query)
  \/ \E h \in Handles, count \in 0 .. ReadMax : Read(h, count)

Spec == Init /\ [][Next]_vars

-----------------------------------------------------------------------------
(* Properties.                                                             *)

\* Runs share a directory, and the ids of their calls repeat: a handle that the
\* model was given leads to its result for ever, whatever other results are saved
\* under the same id, unless another run has the very same result under the very
\* same id and is in the midst of writing it, or was stopped there.
HandleReadsBack ==
  \A a \in Agents : \A k \in DOMAIN transcript[a] :
    LET shown == transcript[a][k]
        handle == Handle(shown.call, shown.text)
    IN  shown.kind = "stored" =>
          \/ files[handle] = shown.text
          \/ handle \in spoiled
          \/ \E b \in Agents : agent[b].at = "write" /\ agent[b].on = "file" /\ Job(b) = handle

\* The characters that are whole.
Whole(chars) == Picked(chars, {k \in DOMAIN chars : chars[k] # "?"})[Len(chars)]

\* Read in ranges of any length, one after the other, a result is all there: no
\* character is lost between two ranges.
ReadsAddUp ==
  reader.of # <<>> /\ reader.next > Len(reader.of) =>
    Whole(reader.got) = Characters(reader.of)

\* "Offsets are clamped to UTF-8 boundaries."
RangesAreCharacters == \A k \in DOMAIN reader.got : reader.got[k] # "?"

\* A handle that the model was given leads to its result, always.
HandleAlwaysReadsBack ==
  \A a \in Agents : \A k \in DOMAIN transcript[a] :
    LET shown == transcript[a][k] IN
    shown.kind = "stored" => files[Handle(shown.call, shown.text)] = shown.text

\* Whatever a tool gave, the model has it or can read it.
NothingCutForGood ==
  \A a \in Agents : \A k \in DOMAIN transcript[a] : transcript[a][k].kind # "cut"

\* No result ends the run.
NoResultPanics == \A a \in Agents : agent[a].at # "panicked"
=============================================================================
