---------------------------- MODULE SkillPrompt ----------------------------
(* What a run's first prompt makes of the skills (agent.rs, skills/mod.rs,  *)
(* skills/invocation.rs): the section that lists them, the skills the       *)
(* prompt names, and their texts.  A prompt is a sequence of characters;    *)
(* those that stand for more than one byte are "please", "use" (one of the  *)
(* five verbs), "the", "skill" and "wide", a character of three bytes.      *)
EXTENDS Integers, Sequences, FiniteSets

CONSTANTS
    Prompts,        \* what users write
    Catalogs,       \* catalogues: sequences of [name, bytes, text]
    Header,         \* bytes of the section without its entries
    Notice,         \* bytes of its line on what was left out
    CatalogLimit,   \* bytes the section is given
    LoadLimit       \* bytes the text of a skill is given

(* Discovery keeps one skill of each name.                                  *)
PromptAssumption ==
    /\ \A text \in Prompts : text \in Seq(STRING)
    /\ \A skills \in Catalogs :
          /\ skills \in Seq([name : Seq(STRING), bytes : Nat, text : Nat])
          /\ \A i, j \in DOMAIN skills : skills[i].name = skills[j].name => i = j

VARIABLES
    prompt, catalog,
    section,        \* what is listed: entries, omitted, bytes
    plan,           \* the skills that are to be loaded
    loaded,         \* those that are
    stage

vars == <<prompt, catalog, section, plan, loaded, stage>>

Nowhere == 0
Letters == {"use", "the", "skill", "please", "a", "b"}
Width == [c \in {"please", "use", "the", "skill", "wide", "quote", "a", "b", " ", ",", "-", "/"} |->
            IF c = "please" THEN 6 ELSE IF c \in {"use", "the", "wide"} THEN 3 ELSE IF c = "skill" THEN 5 ELSE 1]

Bytes(text) == LET sum[i \in 0 .. Len(text)] == IF i = 0 THEN 0 ELSE sum[i - 1] + Width[text[i]] IN sum[Len(text)]
From(text, i) == SubSeq(text, i, Len(text))
MinOf(s) == CHOOSE i \in s : \A j \in s : i <= j

-----------------------------------------------------------------------------
(* build_prompt_section: entries to the first that does not fit.            *)
Total(skills) == LET sum[i \in 0 .. Len(skills)] == IF i = 0 THEN Header ELSE sum[i - 1] + skills[i].bytes IN sum
build_prompt_section(skills) ==
    LET total == Total(skills)
        keep == IF total[Len(skills)] <= CatalogLimit THEN Len(skills)
                ELSE LET out == {i \in DOMAIN skills : total[i] > CatalogLimit} IN MinOf(out) - 1
    IN  [entries |-> SubSeq(skills, 1, keep), omitted |-> Len(skills) - keep,
         bytes |-> total[keep] + (IF keep < Len(skills) THEN Notice ELSE 0)]

-----------------------------------------------------------------------------
(* trim_start_matches.                                                      *)
TrimStart(text, cs) ==
    LET kept == {i \in DOMAIN text : text[i] \notin cs} IN IF kept = {} THEN <<>> ELSE From(text, MinOf(kept))

(* A cut in the middle of a character is a panic.                           *)
Boundary(text, n) == \/ \E i \in 0 .. Len(text) : Bytes(SubSeq(text, 1, i)) = n
                     \/ \E i \in DOMAIN text : /\ text[i] # "wide"
                                               /\ Bytes(SubSeq(text, 1, i - 1)) < n
                                               /\ n < Bytes(SubSeq(text, 1, i))
CutPanics(text) == Bytes(text) >= 6 /\ ~Boundary(text, 6)

natural_language_reference_start(text) ==
    LET t == TrimStart(text, {" "})
        rest == IF t # <<>> /\ t[1] = "please" /\ (Len(t) = 1 \/ t[2] \notin Letters)
                THEN TrimStart(Tail(t), {" ", ","}) ELSE t
    IN  IF rest # <<>> /\ rest[1] = "quote" THEN <<>> ELSE rest

(* normalize_reference_text: runs of what is no letter are one space, and   *)
(* none at either end.                                                      *)
Spaced(text) ==
    LET out[i \in 0 .. Len(text)] ==
           IF i = 0 THEN <<>>
           ELSE IF text[i] \in Letters THEN Append(out[i - 1], text[i])
           ELSE IF out[i - 1] = <<>> \/ out[i - 1][Len(out[i - 1])] = " " THEN out[i - 1]
           ELSE Append(out[i - 1], " ")
    IN  out
normalize(text) ==
    LET all == Spaced(text)[Len(text)]
    IN  IF all # <<>> /\ all[Len(all)] = " " THEN SubSeq(all, 1, Len(all) - 1) ELSE all

name_starts(text) ==
    IF Len(text) < 2 \/ text[1] # "use" \/ text[2] # " " THEN {}
    ELSE {3} \cup (IF Len(text) >= 4 /\ text[3] = "the" /\ text[4] = " " THEN {5} ELSE {})

(* normalized_reference_text_eql: a name, as it is written, against a part  *)
(* of the prompt, letter by letter; where the name has a run of other       *)
(* characters between two letters, the part has one space.  How much of the *)
(* part the name's first letters are, for each number of them.              *)
Unlike == 0 - 1
Skip(name, i, done) == IF done > 0 /\ name[i - 1] \notin Letters THEN 1 ELSE 0
GoesOn(letter, part, done, skip) ==
    /\ skip = 1 => done < Len(part) /\ part[done + 1] = " "
    /\ done + skip < Len(part) /\ part[done + skip + 1] = letter
Compared(name, part) ==
    LET done[i \in 0 .. Len(name)] ==
           IF i = 0 THEN 0
           ELSE IF done[i - 1] = Unlike \/ name[i] \notin Letters THEN done[i - 1]
           ELSE IF GoesOn(name[i], part, done[i - 1], Skip(name, i, done[i - 1]))
                THEN done[i - 1] + Skip(name, i, done[i - 1]) + 1 ELSE Unlike
    IN  done
eql(name, part) == Compared(name, part)[Len(name)] = Len(part)

(* matches_skill_name: each place where ` skill` ends a word may end the    *)
(* reference.                                                               *)
EndsAnywhere(text, at) == TRUE   \* faulty variant: `skillful` names a skill
EndsWord(text, at) == at + 2 > Len(text) \/ text[at + 2] = " "
matches_skill_name(text, name) ==
    \E start \in name_starts(text), at \in DOMAIN text :
       /\ at > start
       /\ at + 1 <= Len(text) /\ text[at] = " " /\ text[at + 1] = "skill"
       /\ EndsWord(text, at)
       /\ eql(name, SubSeq(text, start, at - 1))

(* matches_sigil_skill_at.                                                  *)
Continuation == Letters \cup {"-"}
matches_sigil(text, name) ==
    /\ text # <<>> /\ text[1] = "/"
    /\ Len(text) - 1 >= Len(name)
    /\ SubSeq(text, 2, Len(name) + 1) = name
    /\ Len(text) = Len(name) + 1 \/ text[Len(name) + 2] \notin Continuation

match_explicit_skill_indices(text, skills) ==
    {i \in DOMAIN skills :
       /\ Cardinality({j \in DOMAIN skills : skills[j].name = skills[i].name}) = 1
       /\ \/ matches_sigil(TrimStart(text, {" "}), skills[i].name)
          \/ matches_skill_name(normalize(natural_language_reference_start(text)), skills[i].name)}

-----------------------------------------------------------------------------
(* load_by_identity: the file is cut to its limit, then the part before the *)
(* offset is cut off.                                                       *)
load_by_identity(size, offset, limit) ==
    LET text == IF size > limit THEN limit ELSE size
    IN  [from |-> IF offset > text THEN text ELSE offset, upto |-> text]

(* open_resource: a path of names below the skill, and nothing else.        *)
open_resource(path, size, limit) ==
    IF path.absolute \/ path.segments = <<>> \/ \E i \in DOMAIN path.segments : path.segments[i] \in {".", ".."}
    THEN "invalid" ELSE IF size = Nowhere THEN "missing" ELSE "read"

-----------------------------------------------------------------------------
Init ==
    /\ prompt \in Prompts
    /\ catalog \in Catalogs
    /\ section = [entries |-> <<>>, omitted |-> 0, bytes |-> 0]
    /\ plan = {}
    /\ loaded = {}
    /\ stage = "discovered"

(* With no skill there is no section, and nothing is matched.               *)
Advertise ==
    /\ stage = "discovered"
    /\ IF catalog = <<>> THEN stage' = "ready" /\ UNCHANGED section
       ELSE stage' = "listed" /\ section' = build_prompt_section(catalog)
    /\ UNCHANGED <<prompt, catalog, plan, loaded>>

Match ==
    /\ stage = "listed"
    /\ IF CutPanics(TrimStart(prompt, {" "})) THEN stage' = "panicked" /\ UNCHANGED plan
       ELSE stage' = "loading" /\ plan' = match_explicit_skill_indices(prompt, catalog)
    /\ UNCHANGED <<prompt, catalog, section, loaded>>

(* The next skill of the plan, in the order of the catalogue; one that was  *)
(* removed since is told of in its place.                                   *)
LoadNext ==
    /\ stage = "loading"
    /\ plan # {}
    /\ LET i == MinOf(plan) IN
       \E gone \in BOOLEAN :
          /\ loaded' = loaded \cup {[skill |-> i, text |-> IF gone THEN "failed" ELSE
                                      open_resource([absolute |-> FALSE, segments |-> <<"SKILL.md">>],
                                                    catalog[i].text, LoadLimit)]}
          /\ plan' = plan \ {i}
    /\ UNCHANGED <<prompt, catalog, section, stage>>

Loaded ==
    /\ stage = "loading"
    /\ plan = {}
    /\ stage' = "ready"
    /\ UNCHANGED <<prompt, catalog, section, plan, loaded>>

Next == Advertise \/ Match \/ LoadNext \/ Loaded

Spec == Init /\ [][Next]_vars

-----------------------------------------------------------------------------
(* The words of a text: what its other characters keep apart.               *)
Longer(words, letter) == [words EXCEPT ![Len(words)] = Append(@, letter)]
WordsUpTo(text) ==
    LET out[i \in 0 .. Len(text)] ==
           IF i = 0 THEN <<>>
           ELSE IF text[i] \notin Letters THEN out[i - 1]
           ELSE IF i = 1 \/ text[i - 1] \notin Letters THEN Append(out[i - 1], <<text[i]>>)
           ELSE Longer(out[i - 1], text[i])
    IN  out
Words(text) == WordsUpTo(text)[Len(text)]

(* "use [the] <name> skill", in words.  Before it the prompt may say one    *)
(* polite word; a quoted one says nothing.                                  *)
Polite(text, n) ==
    /\ text[n] = "please" /\ \A i \in 1 .. n - 1 : text[i] = " "
    /\ n < Len(text) => text[n + 1] \notin Letters
Said(text) == IF \E n \in DOMAIN text : Polite(text, n) THEN Tail(Words(text)) ELSE Words(text)
QuotedFirst(text) ==
    \E n \in DOMAIN text :
       /\ text[n] = "quote"
       /\ \/ \A i \in 1 .. n - 1 : text[i] = " "
          \/ \E p \in 1 .. n - 1 : Polite(text, p) /\ \A i \in p + 1 .. n - 1 : text[i] \in {" ", ","}
SaysByWords(text, name) ==
    LET words == Said(text)
        the == IF Len(words) > 1 /\ words[2] = <<"the">> THEN {2, 3} ELSE {2}
    IN  /\ ~QuotedFirst(text)
        /\ words # <<>> /\ words[1] = <<"use">>
        /\ Words(name) # <<>>
        /\ \E first \in the : \E last \in first .. Len(words) - 1 :
              words[last + 1] = <<"skill">> /\ SubSeq(words, first, last) = Words(name)

SaysBySigil(text, name) ==
    \E n \in 0 .. Len(text) : /\ \A i \in 1 .. n : text[i] = " "
                              /\ \E m \in n + 1 .. Len(text) : SubSeq(text, n + 1, m) = <<"/">> \o name
                                                               /\ (m < Len(text) => text[m + 1] \notin Continuation)

(* The skills whose texts go with a prompt are those it names, as words and *)
(* not as parts of words, and each of them once.                            *)
NamedAreLoaded ==
    (stage = "ready" /\ catalog # <<>>) =>
       /\ {l.skill : l \in loaded} = {i \in DOMAIN catalog : \/ SaysByWords(prompt, catalog[i].name)
                                                             \/ SaysBySigil(prompt, catalog[i].name)}
       /\ \A l, k \in loaded : l.skill = k.skill => l = k

-----------------------------------------------------------------------------
(* What does not hold.                                                      *)
(* "descriptions never panic the prompt builder": a prompt does, when its   *)
(* sixth byte is inside a character.                                        *)
PromptNeverPanics == stage # "panicked"

(* The section is within its limit, its notice included.                    *)
SectionWithinLimit == section.bytes <= CatalogLimit

(* A text that is loaded in chunks is loaded to its end.                    *)
ChunksReachTheEnd ==
    \A i \in DOMAIN catalog : catalog[i].text > LoadLimit =>
       load_by_identity(catalog[i].text, LoadLimit, LoadLimit).from
          < load_by_identity(catalog[i].text, LoadLimit, LoadLimit).upto
=============================================================================
