------------------------------- MODULE TuiApp -------------------------------
(* The full-screen interface, src/src/tui/app.rs: one loop that renders,      *)
(* drains two channels, waits for one key or a resize and handles it.         *)
(* The loop never awaits anything.  It is the future that LocalSet::run_until *)
(* polls, and the tasks it spawns with spawn_local (the agent, the fetch of   *)
(* the catalogue) are polled only when that future gives way: they never take *)
(* a step, so nothing is ever sent through the channels, no approval is ever  *)
(* asked for here, and the handlers of those events never run.                *)
(* Text is left out: a submission is a prompt or a command.                   *)
EXTENDS TuiViews

CONSTANTS
  Listed,       \* [Resume, Skills -> the sessions, the skills there are]
  Heights,      \* the sizes of a line of the transcript, in rows
  ScreenRows,   \* the heights a resize may give the terminal
  PageRows,     \* [Help, Settings -> rows of that page]
  MaxLines,     \* bound: lines in the transcript
  MaxItems,     \* bound: rows of a picker
  MaxSpawned    \* bound: agents started

ScreenAssumption ==
  /\ ScreenRows \subseteq Nat /\ \A r \in ScreenRows : r >= 3
  /\ \A h \in Heights : h >= 1

VARIABLES
  at,           \* where the loop is: "render", "wait" or "left"
  mode,         \* the screen on show
  rows,         \* rows of the terminal
  screen,       \* the cells painted last and what the terminal shows
  resized,      \* did the terminal change its size?
  transcript,   \* the conversation and its viewport
  pick,         \* the three pickers
  loading,      \* models_loading
  page,         \* help_scroll and settings_scroll
  running,      \* is a task held in `running'?
  spawned,      \* agents started
  unheld        \* agents whose handle was overwritten: nobody can abort them

views == <<screen, transcript, pick, page>>
tasks == <<running, spawned, unheld>>
vars == <<at, mode, rows, screen, resized, transcript, pick, loading, page,
          running, spawned, unheld>>

Pickers == {"Resume", "Models", "Skills"}
Pages == {"Help", "Settings"}
Modes == Pickers \cup Pages \cup {"Normal", "FullTranscript"}

Less(a, b) == a - Min({a, b})    \* saturating_sub

(* Rows for the conversation in the normal layout, rows of a full screen.    *)
transcript_view_rows == Max({Less(rows, 4), 1})
body_rows == rows - 2

(* What App::new leaves, a resumed session's lines included.                 *)
Init ==
  /\ at = "render" /\ mode = "Normal" /\ rows \in ScreenRows
  /\ screen = [cells |-> Clear, terminal |-> Clear] /\ resized = FALSE
  /\ transcript \in {push(EmptyTranscript, h) : h \in Heights}
  /\ pick = [p \in Pickers |-> EmptyPicker] /\ loading = FALSE
  /\ page = [p \in Pages |-> 0]
  /\ running = FALSE /\ spawned = 0 /\ unheld = 0

-----------------------------------------------------------------------------
(* The frame of a mode: what of the state it shows.                          *)
max_scroll(p) == Less(PageRows[p], IF p = "Help" THEN rows ELSE body_rows)

page_frame == Min({page[mode], max_scroll(mode)})
picker_frame(p) == <<p.items, p.selected, p.scroll>>
transcript_frame(view) == <<transcript.lines, clamp_scroll(transcript, view), running>>

Frame(view) ==
  <<mode, rows,
    CASE mode \in Pages -> page_frame
      [] mode \in Pickers -> picker_frame(pick'[mode])
      [] OTHER -> transcript_frame(view)>>

(* render: a page leaves its scroll at the maximum, which is what its        *)
(* painter returns; a picker takes the size of the screen and is clamped;    *)
(* the normal layout is flushed twice, the second time with a blank buffer.  *)
(* Then the channels are drained, which are empty.                           *)
render ==
  /\ at = "render"
  /\ at' = "wait"
  /\ LET view == IF mode = "FullTranscript" THEN body_rows ELSE transcript_view_rows
     IN  /\ transcript' = IF mode \in {"Normal", "FullTranscript"}
                          THEN clamped(transcript, view) ELSE transcript
         /\ pick' = IF mode \in Pickers
                    THEN [pick EXCEPT ![mode] = clamp([@ EXCEPT !.view = body_rows])]
                    ELSE pick
         /\ page' = IF mode \in Pages THEN [page EXCEPT ![mode] = max_scroll(mode)]
                    ELSE page
         /\ screen' = IF mode = "Normal"
                      THEN flush(flush(screen, Frame(view)), Clear)
                      ELSE flush(screen, Frame(view))
  /\ UNCHANGED <<mode, rows, resized, loading, tasks>>

-----------------------------------------------------------------------------
(* A key has been read: handle it, then render again.                        *)
Key(m) == at = "wait" /\ mode = m /\ at' = "render"

(* spawn_agent: the handle and the receiver of a task at work are replaced.  *)
spawn_agent ==
  /\ spawned < MaxSpawned
  /\ running' = TRUE
  /\ spawned' = spawned + 1
  /\ unheld' = IF running THEN unheld + 1 ELSE unheld

Says(t, heights) == FoldLeft(push, t, heights)
Room(n) == Len(transcript.lines) + n <= MaxLines

(* The keys of the full-page screens.                                        *)
PageKey ==
  \E p \in Pages :
    /\ Key(p)
    /\ \/ mode' = "Normal" /\ UNCHANGED page
       \/ /\ \E by \in {1, IF p = "Help" THEN 10 ELSE body_rows} :
               page' = [page EXCEPT ![p] = IF @ >= by THEN @ - by ELSE 0]
          /\ UNCHANGED mode
       \/ /\ \E by \in {1, IF p = "Help" THEN 10 ELSE body_rows} :
               page' = [page EXCEPT ![p] = @ + by]
          /\ UNCHANGED mode
    /\ UNCHANGED <<rows, screen, resized, transcript, pick, loading, tasks>>

(* The keys of the full transcript; it scrolls by the rows of the other      *)
(* layout.                                                                   *)
FullTranscriptKey ==
  LET view == transcript_view_rows
  IN  /\ Key("FullTranscript")
      /\ \/ mode' = "Normal" /\ transcript' = to_bottom(transcript, view)
         \/ /\ UNCHANGED mode
            /\ \/ \E by \in {1, view} : transcript' = scroll_up(transcript, by, view)
               \/ \E by \in {1, view} : transcript' = scroll_down(transcript, by, view)
               \/ transcript' = [transcript EXCEPT !.follow = FALSE, !.scroll_line = 0]
               \/ transcript' = to_bottom(transcript, view)
      /\ UNCHANGED <<rows, screen, resized, pick, loading, page, tasks>>

(* Moving in a picker, and leaving it.                                       *)
PickerKey ==
  \E p \in Pickers :
    /\ Key(p)
    /\ \/ mode' = "Normal" /\ UNCHANGED pick
       \/ /\ \E up \in BOOLEAN, by \in {1, body_rows} :
               pick' = [pick EXCEPT ![p] = move(@, up, by)]
          /\ UNCHANGED mode
    /\ UNCHANGED <<rows, screen, resized, transcript, loading, page, tasks>>

(* Enter in the resume screen: the session is replayed and an agent started, *)
(* whether or not one is at work; one that cannot be read is an error line.  *)
ResumePicked ==
  /\ Key("Resume") /\ Room(2)
  /\ mode' = "Normal"
  /\ \/ /\ selected_value(pick["Resume"]) # ""
        /\ \E h \in Heights : transcript' = Says(transcript, <<1, h>>)
        /\ spawn_agent
     \/ transcript' = Says(transcript, <<1>>) /\ UNCHANGED tasks
  /\ UNCHANGED <<rows, screen, resized, pick, loading, page>>

(* Enter in the models and in the skills screen: a line about the choice.    *)
ModelOrSkillPicked ==
  \E p \in {"Models", "Skills"} :
    /\ Key(p) /\ Room(1)
    /\ mode' = "Normal"
    /\ transcript' = Says(transcript, <<1>>)
    /\ UNCHANGED <<rows, screen, resized, pick, loading, page, tasks>>

-----------------------------------------------------------------------------
(* The normal layout.                                                        *)

(* open_resume_picker and open_skills_picker: the rows are read anew; an     *)
(* error or nothing to show is one row that stands for nothing.              *)
Listings(p) ==
  {<<"">>} \cup {s \in UNION {[1 .. n -> Listed[p]] : n \in 1 .. MaxItems} :
                  IsInjective(s)}

OpenPicker ==
  \E p \in {"Resume", "Skills"} :
    /\ Key("Normal")
    /\ mode' = p
    /\ \E items \in Listings(p) : pick' = [pick EXCEPT ![p] = set_items(@, items)]
    /\ UNCHANGED <<rows, screen, resized, transcript, loading, page, tasks>>

(* open_models_picker: the fetch is started once, the resolved model is the  *)
(* only row until the catalogue arrives.                                     *)
OpenModels ==
  /\ Key("Normal")
  /\ mode' = "Models"
  /\ loading' = TRUE
  /\ pick' = IF pick["Models"].items = <<>>
             THEN [pick EXCEPT !["Models"] = set_items(@, <<"resolved">>)] ELSE pick
  /\ UNCHANGED <<rows, screen, resized, transcript, page, tasks>>

(* ctrl-t, ctrl-s, /settings and /help, and the same by escape when idle.    *)
OpenScreen ==
  /\ Key("Normal")
  /\ \/ /\ mode' = "FullTranscript"
        /\ transcript' = [transcript EXCEPT !.follow = FALSE, !.scroll_line = 0]
        /\ UNCHANGED page
     \/ \E p \in Pages :
          /\ mode' = p
          /\ page' = [page EXCEPT ![p] = 0]
          /\ UNCHANGED transcript
  /\ UNCHANGED <<rows, screen, resized, pick, loading, tasks>>

(* escape or ctrl-c while a task is held.                                    *)
interrupt ==
  /\ Key("Normal") /\ running /\ Room(1)
  /\ running' = FALSE
  /\ transcript' = Says(transcript, <<1>>)
  /\ UNCHANGED <<mode, rows, screen, resized, pick, loading, page, spawned, unheld>>

(* PageUp, PageDown and, while a task is held, Up and Down.                  *)
Scroll ==
  LET view == transcript_view_rows
  IN  /\ Key("Normal")
      /\ \E by \in {view} \cup (IF running THEN {1} ELSE {}) :
           \/ transcript' = scroll_up(transcript, by, view)
           \/ transcript' = scroll_down(transcript, by, view)
      /\ UNCHANGED <<mode, rows, screen, resized, pick, loading, page, tasks>>

(* handle_submit of a prompt.                                                *)
SubmitPrompt ==
  /\ Key("Normal") /\ Room(1)
  /\ \E h \in Heights : transcript' = Says(transcript, <<h>>)
  /\ spawn_agent
  /\ UNCHANGED <<mode, rows, screen, resized, pick, loading, page>>

(* handle_slash: a command that says something, or one that has another      *)
(* component do something and says what came of it; /clear; /resume with an  *)
(* identifier, which unlike the picker refuses while a task is held.         *)
SlashSays ==
  /\ Key("Normal") /\ Room(1)
  /\ \E h \in Heights : transcript' = Says(transcript, <<h>>)
  /\ UNCHANGED <<mode, rows, screen, resized, pick, loading, page, tasks>>

SlashClear ==
  /\ Key("Normal")
  /\ transcript' = EmptyTranscript
  /\ UNCHANGED <<mode, rows, screen, resized, pick, loading, page, tasks>>

SlashResume ==
  /\ Key("Normal") /\ Room(2)
  /\ \/ /\ ~running
        /\ \E h \in Heights : transcript' = Says(transcript, <<1, h>>)
        /\ spawn_agent
     \/ transcript' = Says(transcript, <<1>>) /\ UNCHANGED tasks
  /\ UNCHANGED <<mode, rows, screen, resized, pick, loading, page>>

(* Another component's command: its answer, one line for each of its lines.  *)
SlashDelegates ==
  /\ Key("Normal")
  /\ \E n \in 0 .. 2 : Room(n) /\ transcript' = Says(transcript, [i \in 1 .. n |-> 1])
  /\ UNCHANGED <<mode, rows, screen, resized, pick, loading, page, tasks>>

(* A key the composer keeps, ctrl-l, or nothing within the 50 ms.            *)
OtherKey ==
  /\ at = "wait" /\ at' = "render"
  /\ UNCHANGED <<mode, rows, views, resized, loading, tasks>>

(* Screen::resize blanks both buffers but not the terminal, which shows what *)
(* is left of some frame.                                                    *)
resize ==
  /\ at = "wait" /\ at' = "render"
  /\ rows' \in ScreenRows
  /\ screen' = [cells |-> Clear, terminal |-> Mixed]
  /\ resized' = TRUE
  /\ UNCHANGED <<mode, transcript, pick, loading, page, tasks>>

(* ctrl-d and /exit.                                                         *)
Exit ==
  /\ at = "wait" /\ mode = "Normal"
  /\ at' = "left"
  /\ UNCHANGED <<mode, rows, views, resized, loading, tasks>>

Next ==
  \/ render
  \/ PageKey
  \/ FullTranscriptKey
  \/ PickerKey
  \/ ResumePicked
  \/ ModelOrSkillPicked
  \/ OpenPicker
  \/ OpenModels
  \/ OpenScreen
  \/ interrupt
  \/ Scroll
  \/ SubmitPrompt
  \/ SlashSays
  \/ SlashClear
  \/ SlashDelegates
  \/ SlashResume
  \/ OtherKey
  \/ resize
  \/ Exit

(* The loop turns, and a user who waits lets it.                             *)
Spec == Init /\ [][Next]_vars /\ WF_vars(render) /\ WF_vars(OtherKey)

-----------------------------------------------------------------------------
(* The row Enter would take is on the screen whenever a key is awaited,      *)
(* whatever was listed anew, paged or resized since.                         *)
SelectionOnScreen ==
  at = "wait" /\ mode \in Pickers /\ pick[mode].items # <<>> =>
    LET p == pick[mode]
    IN  /\ p.selected < Len(p.items)
        /\ p.scroll <= p.selected
        /\ 1 + p.selected - p.scroll < rows - 1

(* While it follows, the transcript shows the newest line whole, if it fits. *)
NewestInView ==
  LET view == IF mode = "FullTranscript" THEN body_rows ELSE transcript_view_rows
      size == Len(transcript.lines)
  IN  at = "wait" /\ mode \in {"Normal", "FullTranscript"} /\ transcript.follow
        /\ size > 0 /\ transcript.lines[size] <= view
      => /\ transcript.scroll_line < size
         /\ Rows(transcript, transcript.scroll_line, size) <= view

(* Until the terminal is resized, it shows the frame the next one is         *)
(* compared with: otherwise what is left out of a flush would be missing.    *)
TerminalAgrees == ~resized => screen.terminal = screen.cells

-----------------------------------------------------------------------------
(* What the code does not do; the README says what each shows.               *)

(* While the loop waits, the terminal shows the layout.                      *)
FrameOnTerminal == at = "wait" => screen.terminal # Clear

(* Scrolling down never moves the window up.                                 *)
ScrollDownGoesDown ==
  [][\A by \in {1, transcript_view_rows} :
       mode = "Normal" /\ transcript'.scroll_line # transcript.scroll_line
         /\ transcript' = scroll_down(transcript, by, transcript_view_rows)
       => clamp_scroll(transcript', transcript_view_rows)
            >= clamp_scroll(transcript, transcript_view_rows)]_vars

(* Rendering leaves a page where the keys put it, or at its end.             *)
RenderScrollsNothing ==
  [][at = "render" /\ mode \in Pages =>
       page'[mode] = page_frame]_vars

(* Every agent at work can be interrupted.                                   *)
EveryAgentHeld == unheld = 0

(* An agent that was started is done some day.                               *)
PromptIsServed == running ~> ~running
=============================================================================
