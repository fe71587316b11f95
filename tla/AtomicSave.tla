----------------------------- MODULE AtomicSave -----------------------------
(***************************************************************************)
(* The way every store of the program saves: load the file, change the     *)
(* copy, write it to a temporary file next to it and rename that.  The     *)
(* temporary file has one name for all processes, so two that save at the  *)
(* same time open the same file, and one can rename it while the other     *)
(* still writes.                                                           *)
(*                                                                         *)
(* A name refers to an inode; a rename moves the inode, and whoever has it *)
(* open goes on writing to it.                                             *)
(***************************************************************************)
EXTENDS Integers

CONSTANTS Writers,     \* processes that load, change and save
          Updates,     \* the changes they make
          Inodes,      \* files that a name may refer to
          None,        \* a name that refers to no file, a writer with no file
          Torn,        \* a content that does not parse
          NoValue,     \* no file to load
          Exclusive    \* a save begins only when no other is under way

ASSUME SaveAssumption ==
  /\ Exclusive \in BOOLEAN
  /\ None \notin Inodes
  /\ \A held \in SUBSET Updates : held # NoValue /\ held # Torn
  /\ Torn # NoValue

VARIABLES path,      \* the inode of the file, or None
          tmp,       \* the inode of the temporary file, or None
          content,   \* what each inode holds
          writer     \* per writer: at, copy, file

vars == <<path, tmp, content, writer>>

Empty == Torn   \* an empty file does not parse either

IdleWriter == [at |-> "idle", copy |-> {}, file |-> None]

Init ==
  /\ path = None /\ tmp = None
  /\ content = [i \in Inodes |-> Empty]
  /\ writer = [w \in Writers |-> IdleWriter]

Stored == IF path = None THEN NoValue ELSE content[path]

MayBegin(w) == Exclusive => \A v \in Writers : writer[v].at = "idle"

\* Faulty variant: the change is made to a copy that is not loaded again.
LoadNothing(w, u) ==
  /\ writer[w].at = "idle" /\ MayBegin(w)
  /\ writer' = [writer EXCEPT ![w] = [at |-> "loaded", file |-> None, copy |-> {u}]]
  /\ UNCHANGED <<path, tmp, content>>

\* Load the file, or start from nothing, and make one change.  A file that
\* does not parse ends the command.
Load(w, u) ==
  /\ writer[w].at = "idle" /\ MayBegin(w)
  /\ Stored # Torn
  /\ writer' = [writer EXCEPT ![w] =
       [at |-> "loaded", file |-> None,
        copy |-> (IF Stored = NoValue THEN {} ELSE Stored) \cup {u}]]
  /\ UNCHANGED <<path, tmp, content>>

Free(i) == i # path /\ i # tmp /\ \A v \in Writers : writer[v].file # i

\* Faulty variant: the file itself is opened, as for a session.
OpenInPlace(w) ==
  /\ writer[w].at = "loaded"
  /\ \E i \in Inodes :
       /\ IF path = None THEN Free(i) ELSE i = path
       /\ tmp' = i
       /\ content' = [content EXCEPT ![i] = Empty]
       /\ writer' = [writer EXCEPT ![w] =
            [at |-> "opened", copy |-> writer[w].copy, file |-> i]]
  /\ UNCHANGED path

\* Open the temporary file, as a new one or, if there is one, emptied.
OpenTmp(w) ==
  /\ writer[w].at = "loaded"
  /\ \E i \in Inodes :
       /\ IF tmp = None THEN Free(i) ELSE i = tmp
       /\ tmp' = i
       /\ content' = [content EXCEPT ![i] = Empty]
       /\ writer' = [writer EXCEPT ![w] =
            [at |-> "opened", copy |-> writer[w].copy, file |-> i]]
  /\ UNCHANGED path

\* Write the copy.  Over what another writer put there since, the longer of
\* the two leaves its end behind.
WriteTmp(w) ==
  /\ writer[w].at = "opened"
  /\ \E c \in IF content[writer[w].file] = Empty THEN {writer[w].copy}
              ELSE {writer[w].copy, Torn} :
       content' = [content EXCEPT ![writer[w].file] = c]
  /\ writer' = [writer EXCEPT ![w] =
       [at |-> "written", copy |-> writer[w].copy, file |-> None]]
  /\ UNCHANGED <<path, tmp>>

\* Rename whatever has the temporary name; if nothing has, the save fails.
Rename(w) ==
  /\ writer[w].at = "written"
  /\ path' = IF tmp = None THEN path ELSE tmp
  /\ tmp' = None
  /\ writer' = [writer EXCEPT ![w] = IdleWriter]
  /\ UNCHANGED content

\* The process is killed, or a write fails and the command with it.
Crash(w) ==
  /\ writer[w].at # "idle"
  /\ writer' = [writer EXCEPT ![w] = IdleWriter]
  /\ UNCHANGED <<path, tmp, content>>

\* A command that deletes the file.
Remove ==
  /\ path # None
  /\ Exclusive => \A v \in Writers : writer[v].at = "idle"
  /\ path' = None
  /\ UNCHANGED <<tmp, content, writer>>

Next ==
  \/ \E w \in Writers :
       \/ \E u \in Updates : Load(w, u)
       \/ OpenTmp(w) \/ WriteTmp(w) \/ Rename(w) \/ Crash(w)
  \/ Remove

Spec == Init /\ [][Next]_vars

-----------------------------------------------------------------------------
(* Properties.                                                             *)

\* Type correctness: names, contents and writers.
TypeOK ==
  /\ path \in Inodes \cup {None}
  /\ tmp \in Inodes \cup {None}
  /\ content \in [Inodes -> (SUBSET Updates) \cup {Torn}]
  /\ writer \in [Writers -> [at : {"idle", "loaded", "opened", "written"},
                             copy : SUBSET Updates, file : Inodes \cup {None}]]

\* A reader never finds a half-written file, at no point of a save and wherever
\* a process was killed.
AlwaysReadable == Stored # Torn

\* Between saves the file can be read.
ReadableAtRest == (\A w \in Writers : writer[w].at = "idle") => Stored # Torn

\* A save adds its update to all the updates that were committed, in one step:
\* none is lost and none appears before its save.
Store == INSTANCE AtomicStore WITH value <- Stored

ImplementsStore == Store!Spec
=============================================================================
