----------------------------- MODULE Projection -----------------------------
(***************************************************************************)
(* The executor's projection of raw output into text that is safe to show, *)
(* piece by piece: a character that a piece cuts is kept for the next one. *)
(*                                                                         *)
(* A byte is "a", printable; "n", a newline; "k", a control; "2", "3", the *)
(* lead of a character of that many bytes; "C", the lead of a C1 control;  *)
(* "c", a continuation; "x", no byte of UTF-8.                             *)
(***************************************************************************)
EXTENDS Integers, Sequences, FiniteSetsExt

CONSTANTS RawOutputs, \* what commands write, standard output and error in one
          ReadChunk   \* DIRECT_OUTPUT_READ_CHUNK_BYTES

ProjectionAssumption == ReadChunk \in Nat \ {0} /\ RawOutputs \subseteq Seq(STRING)

VARIABLES raw,      \* the whole output
          rest,     \* what was not pushed yet
          projector, \* [pending, shown, controls, invalid]
          stage     \* "pushing", "finished" or "panicked"

vars == <<raw, rest, projector, stage>>

Fresh == [pending |-> <<>>, shown |-> <<>>, controls |-> 0, invalid |-> 0]

\* utf8_sequence_length; 0: no character begins with this byte.
SequenceLength(byte) ==
  CASE byte \in {"2", "C"} -> 2 [] byte = "3" -> 3 [] byte \in {"c", "x"} -> 0 [] OTHER -> 1

IsCharacter(bytes) == \A k \in 2 .. Len(bytes) : bytes[k] = "c"

Escape(byte) == <<"escape", byte>>
Plain(bytes) == <<"plain">> \o bytes

\* What one step makes of the bytes from i on: what is shown, how many are passed.
Step(bytes, i) ==
  LET byte == bytes[i]
      length == SequenceLength(byte)
      taken == SubSeq(bytes, i, Min({i + length - 1, Len(bytes)}))
  IN  CASE byte \in {"a", "n"} -> [shown |-> Plain(<<byte>>), passed |-> 1, kind |-> "plain"]
        [] byte = "k"  -> [shown |-> Escape(byte), passed |-> 1, kind |-> "control"]
        [] length = 0  -> [shown |-> Escape(byte), passed |-> 1, kind |-> "invalid"]
        [] OTHER ->
             IF ~IsCharacter(taken) THEN [shown |-> Escape(byte), passed |-> length, kind |-> "invalid"]
             ELSE IF byte = "C" THEN [shown |-> Escape("C1"), passed |-> length, kind |-> "control"]
             ELSE [shown |-> Plain(taken), passed |-> length, kind |-> "plain"]

\* Faulty variant: what a piece cuts is shown at once.
KeepNothing(bytes, i) == FALSE

\* A character that begins here is not all there yet.
Cut(bytes, i) == Len(bytes) - i + 1 < SequenceLength(bytes[i])

Shows(p, step) ==
  [pending |-> p.pending, shown |-> Append(p.shown, step.shown),
   controls |-> IF step.kind = "control" THEN p.controls + 1 ELSE p.controls,
   invalid |-> IF step.kind = "invalid" THEN p.invalid + 1 ELSE p.invalid]

\* One turn of the loop of push, from where the walk stands.
Turn(bytes, walk) ==
  IF walk.at > Len(bytes) \/ Cut(bytes, walk.at) THEN walk
  ELSE LET step == Step(bytes, walk.at) IN
       [at |-> walk.at + step.passed, projector |-> Shows(walk.projector, step)]

\* The turns over the bytes: each passes one at least, so that many are enough.
Turns(p, bytes) ==
  LET turns[k \in 0 .. Len(bytes)] ==
        IF k = 0 THEN [at |-> 1, projector |-> [p EXCEPT !.pending = <<>>]]
        ELSE Turn(bytes, turns[k - 1])
  IN  turns

Pushed(p, piece) ==
  LET bytes == p.pending \o piece
      last == Turns(p, bytes)[Len(bytes)]
  IN  [last.projector EXCEPT !.pending = SubSeq(bytes, last.at, Len(bytes))]

\* finish: what is left begins a character that never ended.
Finished(p) ==
  [p EXCEPT !.shown = @ \o [k \in DOMAIN p.pending |-> Escape(p.pending[k])],
            !.invalid = @ + Len(p.pending), !.pending = <<>>]

Init ==
  /\ raw \in RawOutputs /\ rest = raw
  /\ projector = Fresh /\ stage = "pushing"

\* A piece that does not fit the buffer is a panic.
Push(n) ==
  /\ stage = "pushing" /\ n <= Len(rest)
  /\ LET piece == SubSeq(rest, 1, n) IN
     IF Len(projector.pending) + n > ReadChunk + 3
       THEN stage' = "panicked" /\ UNCHANGED <<rest, projector>>
       ELSE /\ projector' = Pushed(projector, piece)
            /\ rest' = SubSeq(rest, n + 1, Len(rest)) /\ UNCHANGED stage
  /\ UNCHANGED raw

Finish ==
  /\ stage = "pushing" /\ rest = <<>>
  /\ projector' = Finished(projector) /\ stage' = "finished"
  /\ UNCHANGED <<raw, rest>>

Next == Finish \/ \E n \in DOMAIN raw : Push(n)

Spec == Init /\ [][Next]_vars

-----------------------------------------------------------------------------
(* Properties.                                                             *)

\* However the output arrives in pieces, it is shown and counted as if it had
\* arrived whole.
ProjectedHoweverCut == stage = "finished" => projector = Finished(Pushed(Fresh, raw))

\* "Invalid UTF-8 escaped as \xNN": no byte is passed over.
NothingPassedOver ==
  stage = "finished" => \A k \in DOMAIN raw : raw[k] = "a" =>
    \E j \in DOMAIN projector.shown : projector.shown[j] = Plain(<<"a">>)

\* The output of a command is projected, whatever its length.
ProjectionNeverPanics == stage # "panicked"
=============================================================================
