--------------------------- MODULE SkillContract ---------------------------
(* The frontmatter of a SKILL.md (skills/contract.rs): the lines of a       *)
(* document that opens with `---`, read one at a time.  A line is           *)
(*   spaces   how many spaces it begins with                                *)
(*   tab      whether a tab follows them                                    *)
(*   is       "blank", "comment", "delimiter", "plain" (no colon) or "key"  *)
(*   key      its key, for the parser "name", "description" or another      *)
(*   value    what follows the colon: [form, text], where a form is         *)
(*            "bare", "quoted", "half quoted", a block style or "block"     *)
(* and a text is a record of its bytes' number and their kind.  Line ends   *)
(* of one byte and of two are both taken off, so that no line has one.      *)
EXTENDS Integers, Sequences, FiniteSets

CONSTANTS
    Docs,               \* documents, from the line after the opening one
    MaxName,            \* bytes of a name
    MaxDescription      \* bytes of a description

VARIABLES
    doc,                \* the document
    next,               \* the line that is read next
    read                \* what was read so far

vars == <<doc, next, read>>

NoCause == "none"
Styles == {">", ">-", "|"}
Blank(line) == line.is = "blank"
Indented(line) == line.spaces > 0 \/ line.tab
Recognized == {"name", "description"}

NoText == [len |-> 0, kind |-> "text"]
Gap(kind) == [extra |-> 0, text |-> [len |-> 1, kind |-> kind]]
Fold == Gap("space")
Break == Gap("line end")

(* The text of a block is in pieces: a line's, after its extra spaces, and  *)
(* what joins it to the next.                                               *)
Nothing == [name |-> NoText, description |-> NoText, block |-> <<>>, blocked |-> FALSE, cause |-> NoCause,
            after |-> FALSE, seen |-> {}, done |-> FALSE]

Init ==
    /\ doc \in Docs
    /\ next = 1
    /\ read = Nothing

-----------------------------------------------------------------------------
(* The first line that is exactly the delimiter closes the header; when     *)
(* there is none the document is not valid.                                 *)
find_closing_delimiter ==
    LET closing == {i \in DOMAIN doc : doc[i].is = "delimiter" /\ ~Indented(doc[i])}
    IN  IF closing = {} THEN 0 ELSE CHOOSE i \in closing : \A j \in closing : i <= j
HeaderLines == SubSeq(doc, 1, find_closing_delimiter - 1)

set_first_invalid_cause(current, cause) == IF current = NoCause THEN cause ELSE current

invalid_text_cause(text) ==
    IF text.kind = "not utf-8" THEN "InvalidUtf8" ELSE IF text.kind = "control" THEN "ControlByte" ELSE NoCause

invalid_skill_name_cause(text) ==
    IF text.len = 0 THEN "MissingName"
    ELSE IF text.len > MaxName THEN "NameTooLong"
    ELSE IF invalid_text_cause(text) # NoCause THEN invalid_text_cause(text)
    ELSE IF text.kind = "path" THEN "InvalidName" ELSE NoCause

value_cause(value) ==
    IF value.form \in Styles \cup {"block"} THEN "UnsupportedMultiline"
    ELSE IF value.form = "half quoted" THEN "MalformedQuote" ELSE NoCause

-----------------------------------------------------------------------------
(* A block goes on to the first line that begins at the margin.  Its indent *)
(* is that of its first line; a tab, or a line with less, spoils it.        *)
BlockEndAtBlank(from) ==   \* faulty variant: a blank line ends it
    LET out == {i \in from .. Len(HeaderLines) : Blank(HeaderLines[i]) \/ ~Indented(HeaderLines[i])}
    IN  IF out = {} THEN Len(HeaderLines) ELSE (CHOOSE i \in out : \A j \in out : i <= j) - 1
BlockEnd(from) ==
    LET out == {i \in from .. Len(HeaderLines) : ~Blank(HeaderLines[i]) /\ ~Indented(HeaderLines[i])}
    IN  IF out = {} THEN Len(HeaderLines) ELSE (CHOOSE i \in out : \A j \in out : i <= j) - 1

BlockCause(lines) ==
    LET step[i \in 0 .. Len(lines)] ==
           IF i = 0 THEN [base |-> 0, cause |-> NoCause]
           ELSE LET s == step[i - 1]
                    line == lines[i]
                    base == IF s.base = 0 THEN line.spaces ELSE s.base IN
                IF Blank(line) THEN s
                ELSE IF line.tab \/ line.spaces < s.base
                THEN [s EXCEPT !.cause = set_first_invalid_cause(@, "UnsupportedMultiline")]
                ELSE [base |-> base, cause |-> IF invalid_text_cause(line.text) = NoCause THEN s.cause
                                               ELSE set_first_invalid_cause(s.cause, invalid_text_cause(line.text))]
    IN  step[Len(lines)]

(* The lines to the last that is not blank, each after the base indent: a   *)
(* fold joins two lines by a space, anything else by a line end.            *)
decode(lines, base, style) ==
    LET last == {i \in DOMAIN lines : ~Blank(lines[i])}
        kept == IF last = {} THEN 0 ELSE CHOOSE i \in last : \A j \in last : j <= i
        Content(i) == IF Blank(lines[i]) THEN <<>> ELSE <<[extra |-> lines[i].spaces - base, text |-> lines[i].text]>>
        Between(i) == IF style # "|" /\ ~Blank(lines[i - 1]) /\ ~Blank(lines[i]) THEN <<Fold>> ELSE <<Break>>
        out[i \in 0 .. kept] == IF i = 0 THEN <<>>
                                ELSE out[i - 1] \o (IF i = 1 THEN <<>> ELSE Between(i)) \o Content(i)
    IN  IF kept = 0 THEN <<>> ELSE out[kept] \o (IF style = ">-" THEN <<>> ELSE <<Break>>)

Bytes(pieces) ==
    LET sum[i \in 0 .. Len(pieces)] ==
           IF i = 0 THEN 0
           ELSE sum[i - 1] + pieces[i].extra + pieces[i].text.len
    IN  sum[Len(pieces)]

parse_block(from, style) ==
    LET lines == SubSeq(HeaderLines, from, BlockEnd(from))
        block == BlockCause(lines)
        text == IF block.cause = "UnsupportedMultiline" THEN <<>> ELSE decode(lines, block.base, style)
    IN  [text |-> text,
         cause |-> IF Bytes(text) > MaxDescription
                   THEN set_first_invalid_cause(block.cause, "DescriptionTooLong") ELSE block.cause]

-----------------------------------------------------------------------------
(* One line of the header.                                                  *)
Reading == ~read.done /\ find_closing_delimiter # 0 /\ next <= Len(HeaderLines)
Line == HeaderLines[next]
Continues == read.after /\ Indented(Line)
Keep(r, cause) == [r EXCEPT !.cause = IF cause = NoCause THEN @ ELSE set_first_invalid_cause(@, cause)]
Again(key) == IF key \in read.seen THEN "DuplicateRecognizedKey" ELSE NoCause

PassOver ==
    /\ Reading
    /\ Line.is \in {"blank", "comment"}
    /\ next' = next + 1
    /\ UNCHANGED <<doc, read>>

Continuation ==
    /\ Reading
    /\ Line.is \notin {"blank", "comment"}
    /\ Continues
    /\ read' = Keep([read EXCEPT !.after = FALSE], "UnsupportedMultiline")
    /\ next' = next + 1
    /\ UNCHANGED doc

KeyLine(key) == Reading /\ ~Continues /\ Line.is = "key" /\ Line.key = key

NameLine ==
    /\ KeyLine("name")
    /\ read' = Keep(Keep([read EXCEPT !.after = TRUE, !.seen = @ \cup {"name"}, !.name = Line.value.text],
                         Again("name")), value_cause(Line.value))
    /\ next' = next + 1
    /\ UNCHANGED doc

DescriptionLine ==
    /\ KeyLine("description")
    /\ Line.value.form \notin Styles
    /\ read' = Keep(Keep([read EXCEPT !.after = TRUE, !.seen = @ \cup {"description"}, !.blocked = FALSE,
                                      !.description = Line.value.text],
                         Again("description")), value_cause(Line.value))
    /\ next' = next + 1
    /\ UNCHANGED doc

DescriptionBlock ==
    /\ KeyLine("description")
    /\ Line.value.form \in Styles
    /\ LET block == parse_block(next + 1, Line.value.form) IN
       read' = Keep(Keep([read EXCEPT !.after = FALSE, !.seen = @ \cup {"description"},
                                      !.blocked = TRUE, !.block = block.text],
                         Again("description")), block.cause)
    /\ next' = BlockEnd(next + 1) + 1
    /\ UNCHANGED doc

OtherLine ==
    /\ Reading /\ ~Continues
    /\ Line.is \in {"plain", "delimiter"} \/ (Line.is = "key" /\ Line.key \notin Recognized)
    /\ read' = [read EXCEPT !.after = FALSE]
    /\ next' = next + 1
    /\ UNCHANGED doc

(* The bounds of the name and of a description on one line.                 *)
NameCause == IF "name" \notin read.seen THEN "MissingName" ELSE invalid_skill_name_cause(read.name)
DescriptionCause ==
    IF read.blocked \/ "description" \notin read.seen THEN NoCause
    ELSE IF read.description.len > MaxDescription THEN "DescriptionTooLong"
    ELSE invalid_text_cause(read.description)

Finish ==
    /\ ~read.done
    /\ find_closing_delimiter = 0 \/ next > Len(HeaderLines)
    /\ read' = [IF find_closing_delimiter = 0 THEN Keep(read, "MissingClosingDelimiter")
                ELSE Keep(Keep(read, NameCause), DescriptionCause) EXCEPT !.done = TRUE]
    /\ UNCHANGED <<doc, next>>

Next == PassOver \/ Continuation \/ NameLine \/ DescriptionLine \/ DescriptionBlock \/ OtherLine \/ Finish

Spec == Init /\ [][Next]_vars

(* resolve_metadata.                                                        *)
Resolved ==
    [name |-> read.name,
     description |-> IF read.blocked THEN read.block
                     ELSE IF "description" \notin read.seen THEN <<>>
                     ELSE <<[extra |-> 0, text |-> read.description]>>]

-----------------------------------------------------------------------------
(* The reading of a whole header, without a reader: which lines a block     *)
(* owns, which continue another, and what is then said once.                *)
Owned ==
    LET owner[i \in 0 .. Len(HeaderLines)] ==
           IF i = 0 THEN 0
           ELSE IF owner[i - 1] # 0 /\ (Blank(HeaderLines[i]) \/ Indented(HeaderLines[i])) THEN owner[i - 1]
           ELSE IF HeaderLines[i].is = "key" /\ HeaderLines[i].key = "description" /\ HeaderLines[i].value.form \in Styles
                THEN i ELSE 0
    IN  owner

Top == {i \in DOMAIN HeaderLines : Owned[i] \in {0, i} /\ HeaderLines[i].is \notin {"blank", "comment"}}
Of(key) == {i \in Top : HeaderLines[i].is = "key" /\ HeaderLines[i].key = key}
BlockLines(i) == {j \in DOMAIN HeaderLines : Owned[j] = i /\ j # i}
Preceding(i) == {j \in Top : j < i /\ \A k \in Top : k < i => k <= j}
(* No line below a recognized one on a line of its own is indented.         *)
Continued ==
    \E i \in Top : Indented(HeaderLines[i]) /\ \E j \in Preceding(i) : j \in Of("name") \cup Of("description") /\ Owned[j] = 0

Sound(text, most) == text.len <= most /\ text.kind \notin {"not utf-8", "control"}
Straight(i) ==
    \A j \in BlockLines(i) : Blank(HeaderLines[j]) \/
       /\ ~HeaderLines[j].tab
       /\ Sound(HeaderLines[j].text, MaxDescription)
       /\ \A k \in BlockLines(i) : (k < j /\ ~Blank(HeaderLines[k])) =>
             \E first \in BlockLines(i) : /\ ~Blank(HeaderLines[first])
                                          /\ \A m \in BlockLines(i) : m < first => Blank(HeaderLines[m])
                                          /\ HeaderLines[first].spaces <= HeaderLines[j].spaces

(* A paragraph's lines are one line in a fold; between two paragraphs are   *)
(* the line ends of the blank lines, and one more.                          *)
Said(i) ==
    LET full == {j \in BlockLines(i) : ~Blank(HeaderLines[j])}
        first == CHOOSE j \in full : \A k \in full : j <= k
        last == CHOOSE j \in full : \A k \in full : k <= j
        style == HeaderLines[i].value.form
        Words(j) == <<[extra |-> HeaderLines[j].spaces - HeaderLines[first].spaces, text |-> HeaderLines[j].text]>>
        Ends(n) == [k \in 1 .. n |-> Break]
        Up(j) == CHOOSE k \in full : k > j /\ \A m \in full : m > j => k <= m
        from[j \in first .. last] ==
           Words(j) \o (IF j = last THEN (IF style = ">-" THEN <<>> ELSE <<Break>>)
                        ELSE (IF Up(j) = j + 1 /\ style # "|" THEN <<Fold>> ELSE Ends(Up(j) - j)) \o from[Up(j)])
        lead == IF full = {} THEN <<>> ELSE Ends(first - i - 1)
    IN  IF full = {} THEN <<>> ELSE lead \o from[first]

ValidDoc ==
    /\ find_closing_delimiter # 0
    /\ Cardinality(Of("name")) = 1
    /\ Cardinality(Of("description")) <= 1
    /\ ~Continued
    /\ \A i \in Of("name") : HeaderLines[i].value.form \in {"bare", "quoted"}
                             /\ HeaderLines[i].value.text.len > 0 /\ HeaderLines[i].value.text.kind # "path"
                             /\ Sound(HeaderLines[i].value.text, MaxName)
    /\ \A i \in Of("description") :
          IF Owned[i] = i THEN Straight(i) /\ Bytes(Said(i)) <= MaxDescription
          ELSE HeaderLines[i].value.form \in {"bare", "quoted"} /\ Sound(HeaderLines[i].value.text, MaxDescription)

(* A header is taken exactly when it says the name once, the description at *)
(* most once and both in a form and a length that is known, wherever blocks,*)
(* comments and other keys stand; and what is taken is what it says: no     *)
(* line of a block is a key, and none after it is a part of it.             *)
ReadAsWritten ==
    read.done =>
       /\ (read.cause = NoCause) = ValidDoc
       /\ ValidDoc =>
             /\ \A i \in Of("name") : Resolved.name = HeaderLines[i].value.text
             /\ \A i \in Of("description") :
                   Resolved.description = IF Owned[i] = i THEN Said(i)
                                          ELSE <<[extra |-> 0, text |-> HeaderLines[i].value.text]>>
             /\ Of("description") = {} => Resolved.description = <<>>

-----------------------------------------------------------------------------
(* What does not hold.                                                      *)
(* A key under another key is that one's.                                   *)
NestedKeysAreNotOurs ==
    read.done => ("name" \in read.seen => \E i \in DOMAIN HeaderLines : HeaderLines[i].is = "key" /\ HeaderLines[i].key = "name"
                                                               /\ ~Indented(HeaderLines[i]) /\ Owned[i] = 0)
=============================================================================
