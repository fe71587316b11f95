------------------------------ MODULE MCStores ------------------------------
(* What is kept on disk by several processes: a document that is saved      *)
(* (AtomicSave), and the skills: their directories (Skills), what is read   *)
(* of each (SkillContract) and what a prompt makes of them (SkillPrompt).   *)
(* While one component runs, the others rest in one initial state.          *)
EXTENDS AtomicSave, Sequences, TLC

CONSTANTS w1, w2, u1, u2, u3, i1, i2, i3, a1, a2

-----------------------------------------------------------------------------
CONSTANTS Actors, Dirs, Names, Tree, Roots, Clones, Present, Meta, Before, After, MayFail
VARIABLES at, files, actor, touched, installed
skills == <<at, files, actor, touched, installed>>
K == INSTANCE Skills WITH Inodes <- Dirs

ASSUME StoresAssumption == K!SkillsAssumption

Place(p, n) == [parent |-> p, name |-> n, given |-> n]
(* One skill; a repository of two, one of which says another name and has   *)
(* a third inside that is not valid.                                        *)
TreeVal == [one |-> Place("none", "x"), repo |-> Place("none", "tmp"),
            rx |-> Place("repo", "x"), ry |-> Place("repo", "y"), ryx |-> Place("ry", "x")]
MetaVal == [one |-> "p", repo |-> "no skill", rx |-> "none", ry |-> "p", ryx |-> "invalid"]
RootsVal == {"one", "repo"}
PresentVal == {"none", "one", "ry"}
BeforeVal == <<[name |-> "y", dir |-> "w", managed |-> FALSE],
               [name |-> "invalid", dir |-> "p", managed |-> FALSE]>>
AfterVal == <<[name |-> "p", dir |-> "h", managed |-> FALSE]>>

-----------------------------------------------------------------------------
CONSTANTS Docs, MaxName, MaxDescription
VARIABLES doc, next, read
contract == <<doc, next, read>>
C == INSTANCE SkillContract

Bytes(n) == [len |-> n, kind |-> "text"]
Line(spaces, tab, is, text) == [spaces |-> spaces, tab |-> tab, is |-> is, text |-> text]
Key(spaces, key, form, text) ==
    [spaces |-> spaces, tab |-> FALSE, is |-> "key", key |-> key, text |-> Bytes(3),
     value |-> [form |-> form, text |-> text]]
Close == Line(0, FALSE, "delimiter", Bytes(3))
Lines == {Line(0, FALSE, "blank", Bytes(0)), Close, Line(1, FALSE, "comment", Bytes(1)),
          Key(0, "name", "bare", Bytes(1)), Key(1, "name", "quoted", Bytes(2)), Key(0, "name", "bare", Bytes(9)),
          Key(0, "description", "bare", Bytes(1)), Key(0, "description", ">", Bytes(1)),
          Key(0, "description", ">-", Bytes(2)), Key(0, "description", "|", Bytes(1)),
          Key(0, "other", "bare", Bytes(1)),
          Line(1, FALSE, "plain", Bytes(1)), Line(2, FALSE, "plain", Bytes(1)), Line(1, TRUE, "plain", Bytes(1)),
          Line(1, FALSE, "plain", [len |-> 1, kind |-> "control"])}
Styled == {Key(0, "description", form, Bytes(1)) : form \in {">", ">-", "|"}}
Body == {Line(0, FALSE, "blank", Bytes(0)), Line(1, FALSE, "plain", Bytes(1)), Line(2, FALSE, "plain", Bytes(1)),
         Line(1, TRUE, "plain", Bytes(1)), Key(0, "name", "bare", Bytes(1)), Key(1, "name", "bare", Bytes(1))}
(* Any three lines; and a block with any three below it, then a name.       *)
DocsVal ==
    {<<>>} \cup {s \o <<Close>> : s \in UNION {[1 .. n -> Lines] : n \in 0 .. 3}}
    \cup {<<d>> \o s \o <<Key(0, "name", "bare", Bytes(1)), Close>> : d \in Styled, s \in [1 .. 3 -> Body]}

-----------------------------------------------------------------------------
CONSTANTS Prompts, Catalogs, Header, Notice, CatalogLimit, LoadLimit
VARIABLES prompt, catalog, section, plan, loaded, stage
prompting == <<prompt, catalog, section, plan, loaded, stage>>
P == INSTANCE SkillPrompt

ASSUME PromptsAssumption == P!PromptAssumption

Entry(name) == [name |-> name, bytes |-> 3, text |-> 4]
Starts == {<<>>, <<"/">>, <<"use", " ">>, <<"use", " ", "the">>, <<"please", " ", "use", " ">>,
           <<"-", "please", " ", "use", " ">>, <<" ", "please", ",", "use", " ">>, <<"please", ",", "quote", "use", " ">>,
           <<"quote", "use", " ">>}
Rest(n) == [1 .. n -> {"skill", " ", "a", "-", "wide"}]
PromptsVal == {s \o r : s \in Starts, r \in UNION {Rest(n) : n \in 0 .. 3}}
              \cup {<<"use", " ">> \o r : r \in UNION {Rest(n) : n \in 4 .. 5}}
CatalogsVal == {<<>>,
                <<Entry(<<"a">>), Entry(<<"a", "-", "a">>), Entry(<<"skill">>)>>,
                <<Entry(<<"a", "-", "-", "skill">>), Entry(<<"the", " ", "a">>), Entry(<<"-", "a", "-">>)>>}

-----------------------------------------------------------------------------
Symmetry == Permutations(Actors)

SaveIdle == Init
SkillsIdle == actor = [a \in Actors |-> K!Idle] /\ at = [p \in K!Paths |-> 0] /\ touched = {}
ContractIdle == doc = <<>> /\ next = 1 /\ ~read.done
PromptIdle == prompt = <<>> /\ catalog = <<>> /\ stage = "discovered"

SaveFirst == path = None /\ Init
SkillsFirst == installed = {} /\ K!Init
ContractFirst == doc = <<>> /\ C!Init
PromptFirst == prompt = <<>> /\ catalog = <<>> /\ P!Init

MCInit ==
    \/ SkillsFirst /\ ContractFirst /\ PromptFirst /\ Init
    \/ SaveFirst /\ ContractFirst /\ PromptFirst /\ K!Init
    \/ SaveFirst /\ SkillsFirst /\ PromptFirst /\ C!Init
    \/ SaveFirst /\ SkillsFirst /\ ContractFirst /\ P!Init

MCNext ==
    \/ SkillsIdle /\ ContractIdle /\ PromptIdle /\ Next /\ UNCHANGED <<skills, contract, prompting>>
    \/ SaveIdle /\ ContractIdle /\ PromptIdle /\ K!Next /\ UNCHANGED <<vars, contract, prompting>>
    \/ SaveIdle /\ SkillsIdle /\ PromptIdle /\ C!Next /\ UNCHANGED <<vars, skills, prompting>>
    \/ SaveIdle /\ SkillsIdle /\ ContractIdle /\ P!Next /\ UNCHANGED <<vars, skills, contract>>

all == <<vars, skills, contract, prompting>>
MCSpec == MCInit /\ [][MCNext]_all

NothingLost == K!NothingLost
VisibleIsWhole == K!VisibleIsWhole
FirstRootWins == K!FirstRootWins
ReadAsWritten == C!ReadAsWritten
NamedAreLoaded == P!NamedAreLoaded
=============================================================================
