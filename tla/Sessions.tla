------------------------------ MODULE Sessions ------------------------------
(***************************************************************************)
(* The sessions of one workspace: a file per session, written in place     *)
(* (truncated, then filled), and a pointer file that names the session     *)
(* saved last.  Processes run agents that save after every round, delete,  *)
(* recover and migrate, by id or by `last`; nothing keeps them apart, and  *)
(* each may be killed between any two steps.                               *)
(***************************************************************************)
EXTENDS Integers, Sequences, FiniteSets, SequencesExt

CONSTANTS Clients,    \* processes that use the store
          MaxTime,    \* bound: the clock, in milliseconds
          MaxCopies,  \* bound: the number of a recovered id
          MaxRounds,  \* bound: rounds of a run
          MaxJobs,    \* bound: commands in all
          NoId        \* no session

VARIABLES clock,    \* milliseconds
          file,     \* per id: what its file holds
          pointer,  \* latest.json: the id in it, or NoId when there is none to read
          job,      \* per client: its command, and what it holds in memory
          given,    \* the number of commands given
          shared,   \* history: ids that two processes had in hand at the same time
          kept      \* history: per id, the messages of its last complete save

store == <<clock, file, pointer>>
history == <<shared, kept>>
vars == <<store, job, given, history>>

-----------------------------------------------------------------------------
(* Ids are the millisecond they were made in; a recovered one has a suffix. *)

Ids == [ms : 0..MaxTime, copy : 0..MaxCopies]
ASSUME SessionsAssumption == MaxTime \in Nat /\ MaxCopies \in Nat \ {0} /\ NoId \notin Ids
NewId == [ms |-> clock, copy |-> 0]
Candidate(n) == [ms |-> clock, copy |-> n]

\* A message is the prompt or the round of a client.
Messages == [by : Clients, is : {"prompt", "round"}]
Prompt(c) == [by |-> c, is |-> "prompt"]
Round(c) == [by |-> c, is |-> "round"]

Missing == [is |-> "missing"]
Whole(msgs, upd, old) == [is |-> "whole", msgs |-> msgs, upd |-> upd, old |-> old]
\* A file that does not parse: what can be read of it, if it names a session at all.
Torn(named, msgs, upd) == [is |-> "torn", named |-> named, msgs |-> msgs, upd |-> upd]

NoJob == [at |-> "idle", op |-> "none", id |-> NoId, msgs |-> <<>>, upd |-> 0,
          rounds |-> 0, todo |-> {}, then |-> "idle"]

\* A session of an old version, the first that was recovered in this millisecond.
OldOne == [ms |-> 0, copy |-> 1]

Init ==
  /\ clock = 0
  /\ file = [i \in Ids |-> IF i = OldOne THEN Whole(<<>>, 0, TRUE) ELSE Missing]
  /\ pointer = OldOne
  /\ job = [c \in Clients |-> NoJob]
  /\ given = 0
  /\ shared = {}
  /\ kept = [i \in Ids |-> <<>>]

\* The ids a process has in memory and may write back.
Holds(c, i) == job[c].id = i /\ job[c].at \in {"running", "truncate", "fill", "point", "migrating"}

Overlap(c, i) == IF \E d \in Clients \ {c} : Holds(d, i) THEN {i} ELSE {}

\* A new id that is not new: one of the same millisecond has a file, or will have.
Taken(c, i) == Overlap(c, i) \cup (IF file[i] = Missing THEN {} ELSE {i})

Set(c, j) == job' = [job EXCEPT ![c] = j]
Go(c, at) == Set(c, [job[c] EXCEPT !.at = at])
Done(c) == Set(c, NoJob)
Saving(j, then) == [j EXCEPT !.at = "truncate", !.then = then]

Tick ==
  /\ clock < MaxTime
  /\ clock' = clock + 1
  /\ UNCHANGED <<file, pointer, job, given, history>>

-----------------------------------------------------------------------------
(* Saving: in place, then the pointer.                                     *)

Truncate(c) ==
  /\ job[c].at = "truncate"
  /\ file' = [file EXCEPT ![job[c].id] = Torn(FALSE, <<>>, 0)]
  /\ Go(c, "fill")
  /\ UNCHANGED <<clock, pointer, given, history>>

\* Over a longer text that another process wrote meanwhile, its tail stays.
Fill(c) ==
  /\ job[c].at = "fill"
  /\ LET i == job[c].id
         over == file[i].is = "whole" /\ Len(file[i].msgs) >= Len(job[c].msgs)
     IN \E tail \in (IF over THEN BOOLEAN ELSE {FALSE}) :
          file' = [file EXCEPT ![i] = IF tail THEN Torn(TRUE, job[c].msgs, job[c].upd)
                                      ELSE Whole(job[c].msgs, job[c].upd, FALSE)]
  /\ kept' = [kept EXCEPT ![job[c].id] = job[c].msgs]
  /\ Go(c, "point")
  /\ UNCHANGED <<clock, pointer, given, shared>>

Point(c) ==
  /\ job[c].at = "point"
  /\ pointer' = job[c].id
  /\ IF job[c].then = "idle" THEN Done(c) ELSE Go(c, job[c].then)
  /\ UNCHANGED <<clock, file, given, history>>

-----------------------------------------------------------------------------
(* Runs of the agent.                                                      *)

\* Faulty variant: a resumed run begins with its prompt.
SeededAnew(c, msgs) == <<Prompt(c)>>

\* An empty transcript begins with the prompt; one that is resumed does not get it.
Seeded(c, msgs) == IF msgs = <<>> THEN <<Prompt(c)>> ELSE msgs

Open(c) ==
  /\ job[c].at = "open"
  /\ LET i == job[c].id
     IN IF file[i].is = "whole"
        THEN /\ Set(c, [job[c] EXCEPT !.at = "running", !.msgs = Seeded(c, file[i].msgs)])
             /\ shared' = shared \cup Overlap(c, i)
        ELSE Done(c) /\ UNCHANGED shared
  /\ UNCHANGED <<store, given, kept>>

\* A round ends with a save; so does the run, whose last round has no calls.
SaveRound(c) ==
  /\ job[c].at = "running" /\ job[c].rounds < MaxRounds
  /\ \E last \in BOOLEAN :
       Set(c, Saving([job[c] EXCEPT !.msgs = Append(@, Round(c)), !.upd = clock, !.rounds = @ + 1],
                     IF last THEN "idle" ELSE "running"))
  /\ UNCHANGED <<store, given, history>>

\* The run ends on an error, or without a word: what it has is saved once more.
EndRun(c) ==
  /\ job[c].at = "running"
  /\ Set(c, Saving([job[c] EXCEPT !.upd = clock], "idle"))
  /\ UNCHANGED <<store, given, history>>

-----------------------------------------------------------------------------
(* `last`: the pointer, or the newest of those that can be read.           *)

\* A pointer that is being written has nothing to read.
ReadPointer(c) ==
  /\ job[c].at = "last"
  /\ \E p \in {pointer} \cup (IF \E d \in Clients : job[d].at = "point" THEN {NoId} ELSE {}) :
       Set(c, [job[c] EXCEPT !.id = p, !.at = IF p = NoId THEN "scan" ELSE "pointed"])
  /\ UNCHANGED <<store, given, history>>

Begun(op) == CASE op = "resume" -> "open" [] op = "delete" -> "remove"
               [] op = "recover" -> "salvage" [] op = "migrate" -> "migrate"

LoadPointed(c) ==
  /\ job[c].at = "pointed"
  /\ CASE file[job[c].id].is = "whole"   -> Go(c, Begun(job[c].op))
       [] file[job[c].id].is = "missing" -> Go(c, "scan")
       [] file[job[c].id].is = "torn"    -> Done(c)
  /\ UNCHANGED <<store, given, history>>

Readable == {i \in Ids : file[i].is = "whole"}

Scan(c) ==
  /\ job[c].at = "scan"
  /\ IF Readable = {} THEN Done(c)
     ELSE \E i \in {k \in Readable : \A l \in Readable : file[k].upd >= file[l].upd} :
            Set(c, [job[c] EXCEPT !.id = i, !.at = "found"])
  /\ UNCHANGED <<store, given, history>>

LoadFound(c) ==
  /\ job[c].at = "found"
  /\ IF file[job[c].id].is = "whole" THEN Go(c, Begun(job[c].op)) ELSE Done(c)
  /\ UNCHANGED <<store, given, history>>

-----------------------------------------------------------------------------
(* Deleting, recovering, migrating.                                        *)

RemoveFile(c) ==
  /\ job[c].at = "remove"
  /\ IF file[job[c].id] = Missing
     THEN Done(c) /\ UNCHANGED <<file, history>>
     ELSE /\ file' = [file EXCEPT ![job[c].id] = Missing]
          /\ kept' = [kept EXCEPT ![job[c].id] = <<>>]
          /\ shared' = shared \cup Overlap(c, job[c].id)
          /\ Go(c, "unpoint")
  /\ UNCHANGED <<clock, pointer, given>>

Unpoint(c) ==
  /\ job[c].at = "unpoint"
  /\ IF pointer = job[c].id THEN Go(c, "unlink") ELSE Done(c)
  /\ UNCHANGED <<store, given, history>>

Unlink(c) ==
  /\ job[c].at = "unlink"
  /\ pointer' = NoId
  /\ Done(c)
  /\ UNCHANGED <<clock, file, given, history>>

\* What can be made of a file: all of it, the fields before the cut, or nothing.
Salvage(c) ==
  /\ job[c].at = "salvage"
  /\ LET f == file[job[c].id]
     IN IF f.is = "missing" \/ (f.is = "torn" /\ ~f.named) THEN Done(c)
        ELSE Set(c, [job[c] EXCEPT !.at = "name", !.msgs = f.msgs, !.upd = f.upd])
  /\ UNCHANGED <<store, given, history>>

Free(i, source) == file[i] = Missing /\ i # source

\* Faulty variant: the name is taken without a look.
NameAnew(c) ==
  /\ job[c].at = "name"
  /\ Set(c, Saving([job[c] EXCEPT !.id = Candidate(1)], "idle"))
  /\ UNCHANGED <<store, given, history>>

\* The first recovered id that has no file; the number is not bounded in the code.
Name(c) ==
  /\ job[c].at = "name"
  /\ \E n \in 1..MaxCopies :
       /\ Free(Candidate(n), job[c].id)
       /\ \A k \in 1..(n - 1) : ~Free(Candidate(k), job[c].id)
       /\ Set(c, Saving([job[c] EXCEPT !.id = Candidate(n)], "idle"))
       /\ shared' = shared \cup Overlap(c, Candidate(n))
  /\ UNCHANGED <<store, given, kept>>

\* One session is read and, when it is of an old version, saved as a new one.
MigrateOne(c) ==
  /\ job[c].at = "migrate"
  /\ LET i == job[c].id
     IN IF file[i].is = "whole" /\ file[i].old
        THEN /\ Set(c, Saving([job[c] EXCEPT !.msgs = file[i].msgs, !.upd = file[i].upd], "idle"))
             /\ shared' = shared \cup Overlap(c, i)
        ELSE Done(c) /\ UNCHANGED shared
  /\ UNCHANGED <<store, given, kept>>

\* Every session of the directory, one after the other; what does not parse is passed over.
MigrateNext(c) ==
  /\ job[c].at = "each"
  /\ IF job[c].todo = {} THEN Done(c) /\ UNCHANGED shared
     ELSE \E i \in job[c].todo :
            LET rest == [job[c] EXCEPT !.todo = @ \ {i}]
            IN IF file[i].is = "whole" /\ file[i].old
               THEN /\ Set(c, Saving([rest EXCEPT !.id = i, !.msgs = file[i].msgs, !.upd = file[i].upd],
                                     "each"))
                    /\ shared' = shared \cup Overlap(c, i)
               ELSE Set(c, rest) /\ UNCHANGED shared
  /\ UNCHANGED <<store, given, kept>>

-----------------------------------------------------------------------------
(* Commands.                                                               *)

Give(c, j) ==
  /\ job[c] = NoJob /\ given < MaxJobs
  /\ Set(c, j)
  /\ given' = given + 1

\* A new session has an id and no file until it is saved.
Ask(c) ==
  /\ Give(c, [NoJob EXCEPT !.at = "running", !.op = "ask", !.id = NewId, !.msgs = <<Prompt(c)>>])
  /\ shared' = shared \cup Taken(c, NewId)
  /\ UNCHANGED <<store, kept>>

ById(c, op, i) ==
  /\ Give(c, [NoJob EXCEPT !.at = Begun(op), !.op = op, !.id = i])
  /\ UNCHANGED <<store, history>>

ByLast(c, op) ==
  /\ Give(c, [NoJob EXCEPT !.at = "last", !.op = op])
  /\ UNCHANGED <<store, history>>

MigrateAll(c) ==
  /\ Give(c, [NoJob EXCEPT !.at = "each", !.op = "migrate all",
                           !.todo = {i \in Ids : file[i] # Missing}])
  /\ UNCHANGED <<store, history>>

\* A process is killed; a write that it was in may have left a part of the text.
Kill(c) ==
  /\ job[c] # NoJob
  /\ Done(c)
  /\ \E left \in (IF job[c].at = "fill"
                  THEN {Torn(FALSE, <<>>, 0), Torn(TRUE, <<>>, 0), Torn(TRUE, <<>>, job[c].upd),
                        Torn(TRUE, job[c].msgs, job[c].upd)}
                  ELSE {Missing}) :
       file' = IF job[c].at = "fill" THEN [file EXCEPT ![job[c].id] = left] ELSE file
  /\ pointer' \in {pointer} \cup (IF job[c].at = "point" THEN {NoId} ELSE {})
  /\ UNCHANGED <<clock, given, history>>

Work(c) ==
  \/ Truncate(c) \/ Fill(c) \/ Point(c)
  \/ Open(c) \/ SaveRound(c) \/ EndRun(c)
  \/ ReadPointer(c) \/ LoadPointed(c) \/ Scan(c) \/ LoadFound(c)
  \/ RemoveFile(c) \/ Unpoint(c) \/ Unlink(c)
  \/ Salvage(c) \/ Name(c) \/ MigrateOne(c) \/ MigrateNext(c)

Command(c) ==
  \/ Ask(c) \/ MigrateAll(c)
  \/ \E op \in {"resume", "delete", "recover", "migrate"} :
       ByLast(c, op) \/ \E i \in Ids : file[i] # Missing /\ ById(c, op, i)

Next == Tick \/ \E c \in Clients : Work(c) \/ Command(c) \/ Kill(c)

Spec == Init /\ [][Next]_vars
-----------------------------------------------------------------------------
(* Properties.                                                             *)

\* What the files, the pointer and the commands may be (sessions.rs:36).
SessionsTypeOK ==
  /\ clock \in 0..MaxTime
  /\ \A i \in Ids : /\ file[i].is \in {"missing", "torn", "whole"}
                    /\ file[i].is = "whole" => file[i].upd \in 0..clock
                    /\ file[i] # Missing => file[i].msgs \in Seq(Messages)
  /\ pointer \in Ids \cup {NoId}
  /\ given \in 0..MaxJobs
  /\ \A c \in Clients : job[c].todo \in SUBSET Ids
  /\ shared \in SUBSET Ids

\* What an agent or a migration saves goes on from what was saved before, through
\* resumes, crashes and files torn by them, unless two processes had the session
\* in hand at the same time (sessions.rs:157).
NothingForgotten ==
  [][\A c \in Clients :
       job[c].at = "fill" /\ job'[c].at = "point" /\ job[c].id \notin shared
         => IsPrefix(kept[job[c].id], job[c].msgs)]_vars

\* Recovery writes over no session, neither its source nor one that was recovered
\* in the same millisecond (sessions.rs:269).
RecoveryOverwritesNothing ==
  [][\A c \in Clients :
       job[c].at = "truncate" /\ job[c].op = "recover" /\ job'[c].at = "fill"
         => file[job[c].id] = Missing \/ job[c].id \in shared]_vars
=============================================================================
