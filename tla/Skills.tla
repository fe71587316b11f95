------------------------------- MODULE Skills -------------------------------
(* Skills on disk (skills/mod.rs, skills/commands.rs, tools/skill.rs): what *)
(* discovery makes of the roots, and the commands of several processes over *)
(* the managed root: install from a directory, create, remove and load.     *)
(* A directory is an inode that keeps its identity when it is renamed, and  *)
(* holds two files, its SKILL.md and one more.  One step is one call to the *)
(* file system, except the walk of a discovery, which is one step.  A       *)
(* process may be killed between any two.                                   *)
EXTENDS Integers, FiniteSets, Sequences

CONSTANTS
    Actors,         \* processes, each of which runs one command
    Inodes,         \* directories of the managed root
    Names,          \* names of directories
    Tree,           \* the directories an install may be given, by where they are
    Roots,          \* those an install may be told
    Clones,         \* those a clone may bring
    Present,        \* the skill that may be there at the start
    Meta,           \* what the frontmatter in each of them makes, see MetaOf
    Before, After,  \* the skills in the roots searched before and after the managed one
    MayFail         \* whether a call to the file system may fail

SkillsAssumption ==
    /\ IsFiniteSet(Names) /\ IsFiniteSet(DOMAIN Tree)
    /\ 0 \notin Inodes /\ 1 \in Inodes /\ "no file" \notin DOMAIN Tree
    /\ Roots \cup Clones \cup (Present \ {"none"}) \subseteq DOMAIN Tree
    /\ \A d \in Present \ {"none"} : Tree[d].name \in Names
    /\ Before \in Seq([name : STRING, dir : STRING, managed : {FALSE}])
    /\ After \in Seq([name : STRING, dir : STRING, managed : {FALSE}])

VARIABLES
    at,             \* the directory at each path of the managed root
    files,          \* what each directory holds
    actor,          \* the command each process runs and how far it is
    touched,        \* names someone asked to create or to remove
    installed       \* names a completed install put there

vars == <<at, files, actor, touched, installed>>

NoDir == 0
NoFile == "no file"
TornFile == "torn"
Absent == "none"
Template == "template"

Files == {"SKILL.md", "more"}
Skill(n) == <<"skill", n>>
Staged(a) == <<"staged", a>>
Backup(a) == <<"backup", a>>
Paths == {Skill(n) : n \in Names} \cup {Staged(a) : a \in Actors} \cup {Backup(a) : a \in Actors}

-----------------------------------------------------------------------------
(* What a SKILL.md says of the skill's name: the frontmatter's name, or     *)
(* "invalid".  A file that is empty, or has no frontmatter, has the name of *)
(* its directory.                                                           *)
MetaOf(text, dir) ==
    IF text \in {TornFile, Template} \/ Meta[text] = Absent THEN dir ELSE Meta[text]

(* The candidates of the managed root, in the order a listing has them; the *)
(* directories of a transaction begin with a dot and are passed over.       *)
Candidates == {n \in Names : at[Skill(n)] # NoDir /\ files[at[Skill(n)]]["SKILL.md"] # NoFile}

Listings ==
    {s \in [1 .. Cardinality(Candidates) -> Candidates] : \A i, j \in DOMAIN s : s[i] = s[j] => i = j}

Managed(listing) ==
    [i \in DOMAIN listing |->
        [name |-> MetaOf(files[at[Skill(listing[i])]]["SKILL.md"], listing[i]),
         dir |-> listing[i], managed |-> TRUE]]

(* The first root with a valid candidate of a name has it; a candidate that *)
(* is not valid is told of, and keeps no name from another.                 *)
AddLast(catalog, c) ==   \* faulty variant: the last root wins
    IF c.name = "invalid" THEN catalog ELSE {s \in catalog : s.name # c.name} \cup {c}
Add(catalog, c) ==
    IF c.name = "invalid" \/ \E s \in catalog : s.name = c.name THEN catalog ELSE catalog \cup {c}

collect_roots(listing) == Before \o Managed(listing) \o After

discover(listing) ==
    LET seq == collect_roots(listing)
        upto[i \in 0 .. Len(seq)] == IF i = 0 THEN {} ELSE Add(upto[i - 1], seq[i])
    IN  upto[Len(seq)]

find(catalog, name) == {s \in catalog : s.name = name}

-----------------------------------------------------------------------------
Nothing == [f \in Files |-> NoFile]
Idle == [at |-> "idle", name |-> Absent, held |-> NoDir, tree |-> Absent, filter |-> Absent,
         cloned |-> FALSE, stack |-> <<>>, skip |-> {}, names |-> <<>>, got |-> Absent]

(* An earlier install may have left a skill there, in the first directory.  *)
Init ==
    /\ \E d \in Present :
          /\ at = [p \in Paths |-> IF d # Absent /\ p = Skill(Tree[d].name) THEN 1 ELSE NoDir]
          /\ files = [i \in Inodes |-> IF d # Absent /\ i = 1 THEN [f \in Files |-> d] ELSE Nothing]
          /\ installed = IF d = Absent THEN {} ELSE {Tree[d].name}
    /\ actor = [a \in Actors |-> Idle]
    /\ touched = {}

Referenced(i) == (\E p \in Paths : at[p] = i) \/ (\E a \in Actors : actor[a].held = i)
Free == {i \in Inodes : ~Referenced(i)}
Is(a, step) == actor[a].at = step
Now(a, step) == [actor EXCEPT ![a].at = step]
Fresh(p) ==
    /\ Free # {}
    /\ LET i == CHOOSE i \in Free : TRUE IN
       at' = [at EXCEPT ![p] = i] /\ files' = [files EXCEPT ![i] = Nothing]
Empty(p) == at[p] # NoDir => files[at[p]] = Nothing

-----------------------------------------------------------------------------
(* install_from_source on a directory: the root first, under the name it    *)
(* was given, then every directory under it.                                *)
Children(d) == {c \in DOMAIN Tree : Tree[c].parent = d}
HasSkill(d) == Meta[d] # "no skill"
Accepts(d, dir, filter) ==
    /\ MetaOf(d, dir) # "invalid"
    /\ filter \in {Absent, dir, MetaOf(d, dir)}
    /\ dir \in Names

Candidate(a, d, dir, rest) ==
    actor' = [actor EXCEPT ![a] = [@ EXCEPT !.at = "stage", !.tree = d, !.name = dir, !.stack = rest]]

(* merge_install_filters: what the command, the source and the caller each  *)
(* ask for is one filter, or the request is refused.                        *)
Asking(a, b, c) == {a, b, c} \ {Absent}
Merged(filters) == IF filters = {} THEN Absent ELSE CHOOSE f \in filters : TRUE

FromDirectory(a, root, filter, cloned) ==
    actor' = [actor EXCEPT ![a] =
       [Idle EXCEPT !.filter = filter, !.cloned = cloned, !.stack = <<root>>,
                    !.tree = root, !.name = Tree[root].given,
                    !.at = IF HasSkill(root) /\ Accepts(root, Tree[root].given, filter)
                           THEN "stage" ELSE "walk"]]

Install(a, root, filters) ==
    /\ Is(a, "idle")
    /\ IF Cardinality(filters) > 1 THEN actor' = Now(a, "done")
       ELSE FromDirectory(a, root, Merged(filters), FALSE)
    /\ UNCHANGED <<at, files, touched, installed>>

(* install_from_github, also for a directory that had no skill to install.  *)
Clone(a) ==
    /\ Is(a, "clone")
    /\ \/ actor' = Now(a, "done")
       \/ \E root \in Clones : FromDirectory(a, root, actor[a].filter, TRUE)
    /\ UNCHANGED <<at, files, touched, installed>>

(* A directory is taken off the stack; its subdirectories go on in any      *)
(* order, without those a skill was installed from.                         *)
Walk(a) ==
    /\ Is(a, "walk")
    /\ LET st == actor[a].stack IN
       /\ st # <<>>
       /\ LET d == st[Len(st)]
              dirs == Children(d) \ actor[a].skip IN
          \E pushed \in {s \in [1 .. Cardinality(dirs) -> dirs] : \A c \in dirs : \E i \in DOMAIN s : s[i] = c} :
             LET rest == SubSeq(st, 1, Len(st) - 1) \o pushed IN
             IF d \notin actor[a].skip /\ HasSkill(d) /\ Accepts(d, Tree[d].name, actor[a].filter)
             THEN Candidate(a, d, Tree[d].name, rest)
             ELSE actor' = [actor EXCEPT ![a].stack = rest]
    /\ UNCHANGED <<at, files, touched, installed>>

Walked(a) ==
    /\ Is(a, "walk")
    /\ actor[a].stack = <<>>
    /\ actor' = Now(a, IF actor[a].names = <<>> /\ ~actor[a].cloned THEN "clone" ELSE "done")
    /\ UNCHANGED <<at, files, touched, installed>>

(* copy_skill_dir: the copy is made aside, what is there is moved away, and *)
(* the copy takes its place.                                                *)
Stage(a) ==
    /\ Is(a, "stage")
    /\ Fresh(Staged(a))
    /\ actor' = Now(a, "copy")
    /\ UNCHANGED <<touched, installed>>

Copy(a) ==
    /\ Is(a, "copy")
    /\ LET i == at[Staged(a)] IN
       \E f \in Files : files[i][f] = NoFile /\ files' = [files EXCEPT ![i][f] = actor[a].tree]
    /\ UNCHANGED <<at, actor, touched, installed>>

CopyFails(a) ==
    /\ MayFail
    /\ Is(a, "copy")
    /\ actor' = Now(a, "failed")
    /\ UNCHANGED <<at, files, touched, installed>>

\* Faulty variant: the copy takes its place while it is made.
SeeThereEarly(a) ==
    /\ Is(a, "copy")
    /\ \E f \in Files : files[at[Staged(a)]][f] # NoFile
    /\ actor' = Now(a, IF at[Skill(actor[a].name)] # NoDir THEN "aside" ELSE "commit")
    /\ UNCHANGED <<at, files, touched, installed>>

SeeThere(a) ==
    /\ Is(a, "copy")
    /\ \A f \in Files : files[at[Staged(a)]][f] # NoFile
    /\ actor' = Now(a, IF at[Skill(actor[a].name)] # NoDir THEN "aside" ELSE "commit")
    /\ UNCHANGED <<at, files, touched, installed>>

Rename(p, q) == at' = [at EXCEPT ![p] = NoDir, ![q] = at[p]]

MoveAside(a) ==
    /\ Is(a, "aside")
    /\ LET there == Skill(actor[a].name) IN
       IF at[there] # NoDir
       THEN Rename(there, Backup(a)) /\ actor' = Now(a, "commit")
       ELSE actor' = Now(a, "failed") /\ UNCHANGED at
    /\ UNCHANGED <<files, touched, installed>>

(* A rename takes the place of an empty directory, and of no other.         *)
Commit(a) ==
    /\ Is(a, "commit")
    /\ LET there == Skill(actor[a].name) IN
       \/ /\ Empty(there)
          /\ Rename(Staged(a), there)
          /\ actor' = Now(a, "committed")
          /\ installed' = installed \cup {actor[a].name}
       \/ /\ ~Empty(there) \/ MayFail
          /\ actor' = Now(a, "restore")
          /\ UNCHANGED <<at, installed>>
    /\ UNCHANGED <<files, touched>>

\* Faulty variant: what was moved aside is not brought back.
RestoreNothing(a) ==
    /\ Is(a, "restore")
    /\ actor' = Now(a, "failed")
    /\ UNCHANGED <<at, files, touched, installed>>

Restore(a) ==
    /\ Is(a, "restore")
    /\ LET there == Skill(actor[a].name) IN
       IF at[Backup(a)] # NoDir /\ Empty(there) THEN Rename(Backup(a), there) ELSE UNCHANGED at
    /\ actor' = Now(a, "failed")
    /\ UNCHANGED <<files, touched, installed>>

(* The transaction's directory goes, however it ended; an error ends the    *)
(* whole install.                                                           *)
CleanUp(a) ==
    /\ actor[a].at \in {"committed", "failed"}
    /\ at' = [at EXCEPT ![Staged(a)] = NoDir, ![Backup(a)] = NoDir]
    /\ LET me == actor[a] IN
       actor' = [actor EXCEPT ![a] =
          IF me.at = "failed" THEN [me EXCEPT !.at = "done"]
          ELSE [me EXCEPT !.at = "walk", !.skip = @ \cup {me.tree},
                          !.names = Append(@, MetaOf(me.tree, me.name))]]
    /\ UNCHANGED <<files, touched, installed>>

-----------------------------------------------------------------------------
(* create_skill_template: the directory, the file cut to nothing, its text. *)
Create(a, n) ==
    /\ Is(a, "idle")
    /\ actor' = [actor EXCEPT ![a] = [Idle EXCEPT !.at = "open", !.name = n]]
    /\ touched' = touched \cup {n}
    /\ IF at[Skill(n)] = NoDir THEN Fresh(Skill(n)) ELSE UNCHANGED <<at, files>>
    /\ UNCHANGED installed

OpenTemplate(a) ==
    /\ Is(a, "open")
    /\ LET i == at[Skill(actor[a].name)] IN
       IF i = NoDir THEN actor' = Now(a, "done") /\ UNCHANGED files
       ELSE /\ actor' = [actor EXCEPT ![a].at = "write", ![a].held = i]
            /\ files' = [files EXCEPT ![i]["SKILL.md"] = TornFile]
    /\ UNCHANGED <<at, touched, installed>>

WriteTemplate(a) ==
    /\ Is(a, "write")
    /\ files' = [files EXCEPT ![actor[a].held]["SKILL.md"] = Template]
    /\ actor' = [actor EXCEPT ![a].at = "done", ![a].held = NoDir]
    /\ UNCHANGED <<at, touched, installed>>

-----------------------------------------------------------------------------
(* Remove: the skill of that name, when it is managed, has the directory    *)
(* that is removed: its files, one at a time, then what is at the path.     *)
Remove(a, name) ==
    /\ Is(a, "idle")
    /\ \E listing \in Listings : \E s \in find(discover(listing), name) :
          /\ s.managed
          /\ actor' = [actor EXCEPT ![a] = [Idle EXCEPT !.at = "removing", !.name = s.dir, !.got = name]]
          /\ touched' = touched \cup {s.dir}
    /\ UNCHANGED <<at, files, installed>>

OpenRemoved(a) ==
    /\ Is(a, "removing")
    /\ LET i == at[Skill(actor[a].name)] IN
       actor' = [actor EXCEPT ![a].at = IF i = NoDir THEN "done" ELSE "unlink", ![a].held = i]
    /\ UNCHANGED <<at, files, touched, installed>>

Unlink(a) ==
    /\ Is(a, "unlink")
    /\ \E f \in Files : /\ files[actor[a].held][f] # NoFile
                        /\ files' = [files EXCEPT ![actor[a].held][f] = NoFile]
    /\ UNCHANGED <<at, actor, touched, installed>>

RemoveDir(a) ==
    /\ Is(a, "unlink")
    /\ files[actor[a].held] = Nothing
    /\ LET there == Skill(actor[a].name) IN
       at' = [at EXCEPT ![there] = IF Empty(there) THEN NoDir ELSE @]
    /\ actor' = [actor EXCEPT ![a].at = "done", ![a].held = NoDir]
    /\ UNCHANGED <<files, touched, installed>>

-----------------------------------------------------------------------------
(* `show`, and the tool that reads a skill: a discovery, then the file that *)
(* is at the path by then.                                                  *)
Load(a, name) ==
    /\ Is(a, "idle")
    /\ \E listing \in Listings : \E s \in find(discover(listing), name) :
          s.managed /\ actor' = [actor EXCEPT ![a] = [Idle EXCEPT !.at = "read", !.name = s.dir]]
    /\ UNCHANGED <<at, files, touched, installed>>

ReadSkill(a) ==
    /\ Is(a, "read")
    /\ LET i == at[Skill(actor[a].name)] IN
       actor' = [actor EXCEPT ![a].at = "done",
                              ![a].got = IF i = NoDir THEN NoFile ELSE files[i]["SKILL.md"]]
    /\ UNCHANGED <<at, files, touched, installed>>

-----------------------------------------------------------------------------
Kill(a) ==
    /\ actor[a].at \notin {"idle", "done", "dead"}
    /\ actor' = [actor EXCEPT ![a].at = "dead", ![a].held = NoDir]
    /\ UNCHANGED <<at, files, touched, installed>>

Filters == {Absent} \cup Names
Requests == {Asking(a, b, c) : a, b, c \in Filters}
Asked == (Names \cup {Meta[d] : d \in DOMAIN Meta}) \ {"invalid", "no skill", Absent}

Next ==
    \E a \in Actors :
       \/ \E root \in Roots, filters \in Requests : Install(a, root, filters)
       \/ Clone(a) \/ Walk(a) \/ Walked(a) \/ Stage(a) \/ Copy(a) \/ CopyFails(a) \/ SeeThere(a)
       \/ MoveAside(a) \/ Commit(a) \/ Restore(a) \/ CleanUp(a)
       \/ \E n \in Names : Create(a, n)
       \/ OpenTemplate(a) \/ WriteTemplate(a)
       \/ \E name \in Asked : Remove(a, name) \/ Load(a, name)
       \/ OpenRemoved(a) \/ Unlink(a) \/ RemoveDir(a) \/ ReadSkill(a)
       \/ Kill(a)

Spec == Init /\ [][Next]_vars

-----------------------------------------------------------------------------
Whole(i) == i # NoDir /\ \E d \in DOMAIN Tree : files[i] = [f \in Files |-> d]

(* A name that was installed, and that nobody asked to create or to remove, *)
(* has a whole version at its place, or one that was moved aside: no race   *)
(* of installs, no failure and no kill loses the last one.                  *)
NothingLost ==
    \A n \in installed \ touched :
       \/ Whole(at[Skill(n)])
       \/ /\ at[Skill(n)] = NoDir
          /\ \E a \in Actors : actor[a].name = n /\ Whole(at[Backup(a)])

(* What is under a name is never part of a skill: it comes there whole, and *)
(* stays so until someone asks to create or to remove under that name.      *)
VisibleIsWhole == \A n \in Names \ touched : at[Skill(n)] # NoDir => Whole(at[Skill(n)])

(* The catalogue has every name a valid candidate has, whatever the order   *)
(* of the listing, each from the first root that has it.                    *)
FirstRootWins ==
    \A listing \in Listings :
       LET seq == collect_roots(listing)
           valid == {i \in DOMAIN seq : seq[i].name # "invalid"}
       IN  discover(listing) = {seq[i] : i \in {j \in valid : \A k \in valid : k < j => seq[k].name # seq[j].name}}

-----------------------------------------------------------------------------
(* What does not hold.                                                      *)
(* A skill that was installed is found by the next process, when the one    *)
(* that replaced it was killed: it is left in a directory nothing restores. *)
SkillSurvivesKill ==
    \A n \in installed \ touched :
       (\A a \in Actors : actor[a].at \in {"idle", "done", "dead"}) => at[Skill(n)] # NoDir

(* "If the repo root is a single skill, do not also walk children."         *)
RootSkillIsAlone ==
    \A a \in Actors : Len(actor[a].names) > 1 => actor[a].skip \cap Roots = {}

(* Two skills of one install are two skills.                                *)
NoneOverwritten ==
    \A a \in Actors : Is(a, "done") => Len(actor[a].names) <= Cardinality({Tree[d].name : d \in actor[a].skip})

(* What removes a skill removes the one that has its name.                  *)
RemovesWhatItNamed ==
    \A a \in Actors : (Is(a, "unlink") /\ at[Skill(actor[a].name)] = actor[a].held) =>
       (files[actor[a].held]["SKILL.md"] # NoFile =>
          MetaOf(files[actor[a].held]["SKILL.md"], actor[a].name) = actor[a].got)

(* `create` makes a skill, and never changes one.                           *)
CreateChangesNone ==
    [][\A a \in Actors : (Is(a, "open") /\ actor'[a].at = "write") => files[actor'[a].held]["SKILL.md"] = NoFile]_vars

(* What is loaded was written to its end.                                   *)
LoadedIsWhole == \A a \in Actors : actor[a].got # TornFile

(* The catalogue does not depend on the order of a listing.                 *)
CatalogIsOne == \A p, q \in Listings : discover(p) = discover(q)
=============================================================================
