------------------------------ MODULE Composer ------------------------------
(* The prompt composer of the full-screen interface (src/src/tui/composer.rs) *)
(* over the editing core (src/src/input_composer.rs): a text with a cursor,   *)
(* undo and redo stacks, the kill ring and the prompts sent so far.           *)
(* The text is what the program holds, a sequence of BYTES, and the offsets   *)
(* count bytes: a character is a sequence of one or more of them, and slicing *)
(* a String anywhere but between two characters panics.  Keys that never      *)
(* reach the composer, because the application takes them first (ctrl-k and   *)
(* ctrl-r open screens), are left out; nothing in the program ever begins a   *)
(* selection, so there is none.                                               *)
EXTENDS Naturals, Sequences, FiniteSets, FiniteSetsExt

CONSTANTS
  Chars,        \* the characters typed: sequences of bytes, no first byte shared
  Word,         \* those that belong to words
  Combining,    \* those of no width, shown with the character before them
  Blank,        \* those that trim() takes away
  MaxLen,       \* bound: bytes in the text
  MaxEdits,     \* bound: entries of the undo and of the redo stack
  MaxKilled,    \* bound: bytes in the kill ring
  MaxHistory    \* bound: prompts sent

CharsAssumption ==
  /\ Word \subseteq Chars /\ Combining \subseteq Chars /\ Blank \subseteq Chars
  /\ \A c \in Chars : c \in Seq({c[i] : i \in DOMAIN c}) /\ Len(c) > 0
  /\ \A c, d \in Chars : Head(c) = Head(d) => c = d

VARIABLES
  input,        \* the text, a sequence of bytes
  cursor,       \* a byte offset into it
  undo, redo,   \* sequences of entries, the newest last
  coalescing,   \* may the next insertion join the last entry?
  ring,         \* the kill ring, the newest first
  rotation,     \* 1 after the first kill
  history,      \* the prompts sent
  pos,          \* where in the history the user is, 0 for nowhere
  panicked,     \* did the process panic?
  base          \* where the undo stack began, <<"?">> after an unrecorded edit

edit == <<undo, redo, coalescing>>
kills == <<ring, rotation>>
past == <<history, pos>>
vars == <<input, cursor, undo, redo, coalescing, ring, rotation, history, pos,
          panicked, base>>

-----------------------------------------------------------------------------
(* Characters and words.                                                     *)

CharAt(text, i) ==
  LET here == {c \in Chars : i + Len(c) <= Len(text)
                              /\ SubSeq(text, i + 1, i + Len(c)) = c}
  IN  IF here = {} THEN <<>> ELSE CHOOSE c \in here : TRUE

Boundary(text, i) == i = Len(text) \/ CharAt(text, i) # <<>>

(* The starts of display units: a combining character joins the one before.  *)
UnitStarts(text) ==
  {i \in 0 .. Len(text) - 1 :
     i = 0 \/ (Boundary(text, i) /\ CharAt(text, i) \notin Combining)}

next_character_end(text, start) ==
  Min({i \in UnitStarts(text) : i > start} \cup {Len(text)})

previous_character_start(text, end) ==
  Max({i \in UnitStarts(text) : i < end} \cup {0})

previous_word_start(text, at) ==
  LET previous(i) == previous_character_start(text, i)
      InWord(i) == CharAt(text, previous(i)) \in Word
      gap[i \in 0 .. Len(text)] == IF i = 0 \/ InWord(i) THEN i ELSE gap[previous(i)]
      word[i \in 0 .. Len(text)] == IF i = 0 \/ ~InWord(i) THEN i ELSE word[previous(i)]
  IN  word[gap[Min({at, Len(text)})]]

next_word_end(text, at) ==
  LET size == Len(text)
      InWord(i) == CharAt(text, i) \in Word
      gap[i \in 0 .. size] ==
        IF i = size \/ InWord(i) THEN i ELSE gap[next_character_end(text, i)]
      word[i \in 0 .. size] ==
        IF i = size \/ ~InWord(i) THEN i ELSE word[next_character_end(text, i)]
  IN  word[gap[Min({at, size})]]

-----------------------------------------------------------------------------
(* What a slice or a replacement of a range needs so as not to panic.        *)

Sliceable(text, from, to) ==
  from <= to /\ to <= Len(text) /\ Boundary(text, from) /\ Boundary(text, to)

Splice(text, from, to, with) ==
  SubSeq(text, 1, from) \o with \o SubSeq(text, to + 1, Len(text))

Panic ==
  panicked' = TRUE /\ UNCHANGED <<input, cursor, edit, kills, past, base>>

Entry(start, inserted, removed, before, after) ==
  [start |-> start, inserted |-> inserted, removed |-> removed,
   before |-> before, after |-> after]

\* For a mutant: an insertion joins the last one wherever it is.
record_anywhere(entry, coalesce) ==
  IF coalesce /\ coalescing /\ undo # <<>> /\ undo[Len(undo)].inserted # <<>>
  THEN /\ undo' = [undo EXCEPT ![Len(undo)].inserted = @ \o entry.inserted,
                               ![Len(undo)].after = entry.after]
       /\ UNCHANGED <<redo, coalescing>>
  ELSE /\ undo' = Append(undo, entry)
       /\ redo' = <<>>
       /\ coalescing' = coalesce

(* EditHistory::record: an insertion that starts where the last one ended    *)
(* joins it, and then the redo stack stays as it is.                         *)
record(entry, coalesce) ==
  IF /\ coalesce /\ coalescing /\ undo # <<>>
     /\ undo[Len(undo)].after = entry.start
     /\ undo[Len(undo)].inserted # <<>> /\ undo[Len(undo)].removed = <<>>
     /\ entry.removed = <<>>
  THEN /\ undo' = [undo EXCEPT ![Len(undo)].inserted = @ \o entry.inserted,
                               ![Len(undo)].after = entry.after]
       /\ UNCHANGED <<redo, coalescing>>
  ELSE /\ undo' = Append(undo, entry)
       /\ redo' = <<>>
       /\ coalescing' = coalesce

(* EditorState::insert_replacing_selection with record_insert.               *)
InsertText(text) ==
  LET at == Min({cursor, Len(input)})
  IN  IF ~Boundary(input, at) THEN Panic
      ELSE /\ input' = Splice(input, at, at, text)
           /\ cursor' = at + Len(text)
           /\ record(Entry(at, text, <<>>, at, at + Len(text)), TRUE)
           /\ UNCHANGED <<kills, past, panicked, base>>

(* record_delete: what was removed stood just after the new cursor.          *)
Remove(from, to) ==
  /\ input' = Splice(input, from, to, <<>>)
  /\ cursor' = from
  /\ record(Entry(from, <<>>, SubSeq(input, from + 1, to), to, from), FALSE)
  /\ UNCHANGED <<kills, past, panicked, base>>

(* KillRing::kill: rotation is 1 from the first kill on, because nothing in  *)
(* the program calls finish_kill, so every later kill joins the first.       *)
kill(text) ==
  /\ ring' = IF ring # <<>> /\ rotation = 1
             THEN [ring EXCEPT ![1] = @ \o text]
             ELSE <<text>> \o ring
  /\ rotation' = 1

(* apply_text: a text of its own, with nothing to undo.                      *)
apply_text(text) ==
  /\ input' = text /\ cursor' = Len(text)
  /\ undo' = <<>> /\ redo' = <<>> /\ coalescing' = FALSE
  /\ base' = text

(* trim(): the blanks at both ends go.                                       *)
trim(text) ==
  LET inked == {i \in 0 .. Len(text) - 1 :
                  Boundary(text, i) /\ CharAt(text, i) \notin Blank}
  IN  IF inked = {} THEN <<>>
      ELSE SubSeq(text, Min(inked) + 1, Max(inked) + Len(CharAt(text, Max(inked))))

-----------------------------------------------------------------------------
(* One action per key.                                                       *)

Init ==
  /\ input = <<>> /\ cursor = 0 /\ base = <<>>
  /\ undo = <<>> /\ redo = <<>> /\ coalescing = FALSE
  /\ ring = <<>> /\ rotation = 0
  /\ history = <<>> /\ pos = 0 /\ panicked = FALSE

Type(c) ==
  /\ Len(input) + Len(c) <= MaxLen /\ Len(undo) < MaxEdits
  /\ InsertText(c)

Backspace ==
  /\ cursor > 0 /\ Len(undo) < MaxEdits
  /\ LET start == previous_character_start(input, cursor)
     IN  IF Sliceable(input, start, cursor) THEN Remove(start, cursor) ELSE Panic

Delete ==
  /\ cursor < Len(input) /\ Len(undo) < MaxEdits
  /\ LET end == next_character_end(input, cursor)
     IN  IF Sliceable(input, cursor, end) THEN Remove(cursor, end) ELSE Panic

Move ==
  /\ cursor' \in {previous_character_start(input, cursor),
                  next_character_end(input, cursor),
                  previous_word_start(input, cursor),
                  next_word_end(input, cursor), 0, Len(input)}
  /\ UNCHANGED <<input, edit, kills, past, panicked, base>>

(* ctrl-u and ctrl-w: what goes is put into the ring, not into the history.  *)
Kill(start) ==
  IF ~Sliceable(input, start, cursor) THEN Panic
  ELSE /\ input' = Splice(input, start, cursor, <<>>)
       /\ cursor' = start
       /\ kill(SubSeq(input, start + 1, cursor))
       /\ base' = <<"?">>
       /\ UNCHANGED <<edit, past, panicked>>

KillToStart ==
  /\ cursor > 0
  /\ (ring # <<>> => Len(ring[1]) + cursor <= MaxKilled)
  /\ Kill(0)

KillWord ==
  LET start == previous_word_start(input, cursor)
  IN  /\ start < cursor
      /\ (ring # <<>> => Len(ring[1]) + cursor <= MaxKilled)
      /\ Kill(start)

Yank ==
  /\ ring # <<>> /\ Len(undo) < MaxEdits
  /\ Len(input) + Len(ring[1]) <= MaxLen
  /\ InsertText(ring[1])

(* alt-y: the last insertion, whatever it was, becomes the front of the      *)
(* rotated ring; cursor_after of its entry stays what it was.                *)
YankPop ==
  LET turned == IF Len(ring) <= 1 THEN ring ELSE Append(Tail(ring), ring[1])
      last == undo[Len(undo)]
      end == last.start + Len(last.inserted)
      replaces == undo # <<>> /\ last.inserted # <<>> /\ last.removed = <<>>
                    /\ end <= Len(input)
  IN  /\ ring # <<>> /\ Len(input) + Len(turned[1]) <= MaxLen
      /\ IF replaces /\ ~Sliceable(input, last.start, end) THEN Panic
         ELSE /\ ring' = turned
              /\ IF replaces
                 THEN /\ input' = Splice(input, last.start, end, turned[1])
                      /\ cursor' = last.start + Len(turned[1])
                      /\ undo' = [undo EXCEPT ![Len(undo)].inserted = turned[1]]
                      /\ base' = <<"?">>
                 ELSE UNCHANGED <<input, cursor, undo, base>>
              /\ UNCHANGED <<redo, coalescing, rotation, past, panicked>>

(* Undo puts `put' back where the entry says `there' stands; if something    *)
(* else stands there, both stacks are dropped; if the place is not between   *)
(* two characters, the comparison itself panics.                             *)
Applies(entry, there) ==
  LET end == entry.start + Len(there)
  IN  end <= Len(input) /\ SubSeq(input, entry.start + 1, end) = there

Falls(entry, there) ==
  LET end == entry.start + Len(there)
  IN  end <= Len(input) /\ ~Sliceable(input, entry.start, end)

Forget ==
  /\ undo' = <<>> /\ redo' = <<>> /\ base' = input
  /\ UNCHANGED <<input, cursor, coalescing, kills, past, panicked>>

Undo ==
  LET entry == undo[Len(undo)]
  IN  /\ undo # <<>> /\ Len(redo) < MaxEdits
      /\ IF Falls(entry, entry.inserted) THEN Panic
         ELSE IF ~Applies(entry, entry.inserted) THEN Forget
         ELSE /\ input' = Splice(input, entry.start,
                                 entry.start + Len(entry.inserted), entry.removed)
              /\ cursor' = entry.before
              /\ undo' = SubSeq(undo, 1, Len(undo) - 1)
              /\ redo' = Append(redo, entry)
              /\ UNCHANGED <<coalescing, kills, past, panicked, base>>

Redo ==
  LET entry == redo[Len(redo)]
  IN  /\ redo # <<>> /\ Len(undo) < MaxEdits
      /\ Len(input) + Len(entry.inserted) <= MaxLen
      /\ IF Falls(entry, entry.removed) THEN Panic
         ELSE IF ~Applies(entry, entry.removed) THEN Forget
         ELSE /\ input' = Splice(input, entry.start,
                                 entry.start + Len(entry.removed), entry.inserted)
              /\ cursor' = entry.after
              /\ redo' = SubSeq(redo, 1, Len(redo) - 1)
              /\ undo' = Append(undo, entry)
              /\ UNCHANGED <<coalescing, kills, past, panicked, base>>

(* Up and Down: an older or a newer prompt; past the newest, an empty text.  *)
history_back ==
  /\ history # <<>>
  /\ pos' = IF pos = 0 THEN Len(history) ELSE Max({pos - 1, 1})
  /\ apply_text(history[pos'])
  /\ UNCHANGED <<kills, history, panicked>>

history_forward ==
  /\ pos # 0
  /\ pos' = IF pos < Len(history) THEN pos + 1 ELSE 0
  /\ apply_text(IF pos' = 0 THEN <<>> ELSE history[pos'])
  /\ UNCHANGED <<kills, history, panicked>>

(* Enter on a text that is not blank: it is sent and remembered.             *)
Submit ==
  /\ trim(input) # <<>> /\ Len(history) < MaxHistory
  /\ history' = Append(history, trim(input))
  /\ pos' = 0
  /\ apply_text(<<>>)
  /\ UNCHANGED <<kills, panicked>>

Next ==
  /\ ~panicked
  /\ \/ \E c \in Chars : Type(c)
     \/ Backspace
     \/ Delete
     \/ Move
     \/ KillToStart
     \/ KillWord
     \/ Yank
     \/ YankPop
     \/ Undo
     \/ Redo
     \/ history_back
     \/ history_forward
     \/ Submit

Spec == Init /\ [][Next]_vars

-----------------------------------------------------------------------------
(* Unwound by its own undo stack, the text is the one the stack began with:  *)
(* the spans of the entries still fit although insertions join and redos     *)
(* that a joined insertion left standing interleave with them.  Two keys     *)
(* break the chain, and from then on undo may drop everything or worse: a    *)
(* kill edits and records nothing, and alt-y leaves the end of the entry it  *)
(* replaces where it was, so that a later insertion joins it from afar.      *)
UndoLeadsBack ==
  LET unwound[n \in 0 .. Len(undo)] ==
        IF n = Len(undo) THEN input
        ELSE Splice(unwound[n + 1], undo[n + 1].start,
                    undo[n + 1].start + Len(undo[n + 1].inserted),
                    undo[n + 1].removed)
  IN  (base # <<"?">>) => unwound[0] = base

(* Only a key can end the process, and none of those the composer handles    *)
(* may: an undo or redo whose span no longer matches is to drop the stacks.  *)
NeverPanics == ~panicked

(* The cursor is a place in the text, between two characters.                *)
CursorInText == panicked \/ (cursor <= Len(input) /\ Boundary(input, cursor))
=============================================================================
