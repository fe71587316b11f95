------------------------------ MODULE TuiViews ------------------------------
(* The views of the full-screen interface as values: the transcript with its  *)
(* viewport (src/src/tui/transcript.rs), the picker of the resume, models and *)
(* skills screens (src/src/tui/screens.rs) and the double-buffered screen     *)
(* (src/src/tui/screen.rs).  A transcript line is the number of display rows  *)
(* it wraps to; text, style and layout inside a row are left out.             *)
EXTENDS Naturals, Sequences, SequencesExt, FiniteSetsExt

(* usize::MAX, the scroll position that means the end.                       *)
AtEnd == 9999

-----------------------------------------------------------------------------
(* Transcript: [lines, follow, scroll_line].                                 *)

EmptyTranscript == [lines |-> <<>>, follow |-> TRUE, scroll_line |-> 0]

(* The display rows of the lines after the a-th up to the b-th.              *)
Rows(t, a, b) == FoldLeft(+, 0, SubSeq(t.lines, a + 1, b))

push(t, rows) ==
  [t EXCEPT !.lines = Append(@, rows),
            !.scroll_line = IF t.follow THEN AtEnd ELSE @]

\* For a mutant: the leading lines that overfill the window are kept.
clamp_overfull(t, view) ==
  LET top == IF t.follow THEN Len(t.lines) ELSE Min({t.scroll_line, Len(t.lines)})
  IN  Max({s \in 0 .. top : Rows(t, s, top) >= view} \cup {0})

(* The first line shown.  scroll_line is taken for the end of the window:    *)
(* walk back until it is full, then drop leading lines that overfill it.     *)
clamp_scroll(t, view) ==
  LET size == Len(t.lines)
      top == IF t.follow THEN size ELSE Min({t.scroll_line, size})
      back == Max({s \in 0 .. top : Rows(t, s, top) >= view} \cup {0})
  IN  IF size = 0 THEN 0
      ELSE Min({s \in back .. size : Rows(t, s, top) <= view \/ s + 1 >= size})

(* What a call of it leaves behind.                                          *)
clamped(t, view) ==
  IF t.follow THEN [t EXCEPT !.scroll_line = clamp_scroll(t, view)] ELSE t

(* Does the window that begins at scroll_line end exactly at the last line?  *)
is_at_bottom(t, view) ==
  LET from == Min({t.scroll_line, Len(t.lines)})
      to == Min({i \in from .. Len(t.lines) :
                   Rows(t, from, i) >= view \/ i = Len(t.lines)})
  IN  Rows(t, from, to) <= view

(* scroll_by with a negative and with a positive delta: here the clamped     *)
(* first line moves, and scroll_line becomes the first line.                 *)
scroll_up(t, delta, view) ==
  LET top == clamp_scroll([t EXCEPT !.follow = FALSE], view)
  IN  [t EXCEPT !.follow = FALSE,
                !.scroll_line =
                   Max({s \in 0 .. top : Rows(t, s, top) >= delta} \cup {0})]

scroll_down(t, delta, view) ==
  LET top == clamp_scroll([t EXCEPT !.follow = FALSE], view)
      size == Len(t.lines)
      target == Min({s \in top .. size : Rows(t, top, s) >= delta} \cup {size})
      moved == [t EXCEPT !.follow = FALSE, !.scroll_line = target]
  IN  [moved EXCEPT !.follow = is_at_bottom(moved, view)]

to_bottom(t, view) == clamped([t EXCEPT !.follow = TRUE], view)

-----------------------------------------------------------------------------
(* Picker: [items, selected, scroll, view], items a sequence of values, ""   *)
(* for a row that stands for nothing; positions count from 0.                *)

EmptyPicker == [items |-> <<>>, selected |-> 0, scroll |-> 0, view |-> 20]

selected_value(p) == p.items[p.selected + 1]

\* For a mutant: the scroll follows the selection up, not down.
clamp_upwards(p) ==
  LET chosen == Min({p.selected, Max({Len(p.items), 1}) - 1})
  IN  [p EXCEPT !.selected = chosen, !.scroll = Min({@, chosen})]

(* clamp(): the selection within the items, the scroll around the selection. *)
clamp(p) ==
  LET size == Len(p.items)
      chosen == Min({p.selected, size - 1})
      view == Max({p.view, 1})
      scroll == IF chosen < p.scroll THEN chosen
                ELSE IF chosen >= p.scroll + view THEN chosen + 1 - Min({view, chosen})
                ELSE p.scroll
  IN  IF size = 0 THEN [p EXCEPT !.selected = 0, !.scroll = 0]
      ELSE [p EXCEPT !.selected = chosen, !.scroll = scroll]

(* set_items: the row selected before stays selected wherever it is now.     *)
set_items(p, items) ==
  LET before == IF p.selected < Len(p.items) THEN selected_value(p) ELSE ""
      places == {i \in 1 .. Len(items) : items[i] = before /\ before # ""}
  IN  clamp([p EXCEPT !.items = items,
                      !.selected = IF places = {} THEN 0 ELSE Min(places) - 1])

move(p, up, by) ==
  LET last == Max({Len(p.items), 1}) - 1
  IN  [p EXCEPT !.selected =
         IF up THEN @ - Min({@, by}) ELSE IF @ >= last THEN @ ELSE Min({@ + by, last})]

-----------------------------------------------------------------------------
(* Screen: cells, the frame painted last, against what the terminal shows.   *)
(* A flush sends the cells that differ from the last frame: if the terminal  *)
(* showed that frame it now shows this one, otherwise what it shows is of no *)
(* frame; the buffer painted into is blank again afterwards.                 *)

Clear == <<"clear">>
Mixed == <<"mixed">>

flush(s, frame) ==
  [cells |-> frame,
   terminal |-> IF frame = s.cells THEN s.terminal
                ELSE IF s.terminal = s.cells THEN frame ELSE Mixed]
=============================================================================
