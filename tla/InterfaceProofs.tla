--------------------------- MODULE InterfaceProofs ---------------------------
(***************************************************************************)
(* What those who use fxrs may rely on, for any number of processes, calls *)
(* and lines: the sessions of a workspace and the editor's server over     *)
(* them, the tools of other servers, the full-screen interface, and the    *)
(* undo stack of its composer.                                             *)
(***************************************************************************)
EXTENDS AcpServer, MCInterfaces, SequenceTheorems, WellFoundedInduction, TLAPS

-----------------------------------------------------------------------------
(* Sessions: what is in the files, and what processes hold of it.          *)

Texts == Seq(Messages)
TornFiles == [is : {"torn"}, named : BOOLEAN, msgs : Texts, upd : Nat]
Files ==
  {Missing} \cup TornFiles \cup [is : {"whole"}, msgs : Texts, upd : Nat, old : BOOLEAN]

Holding == {"running", "truncate", "fill", "point", "migrating"}
Named == {"running", "truncate", "fill", "point", "open", "pointed", "found", "remove", "unpoint",
          "unlink", "salvage", "name", "migrate"}
Idle == {"idle", "last", "scan", "each", "persisted", "refuse"}

\* What is done with a session that is named `last`, and how it is found.
Ops == {"resume", "delete", "recover", "migrate"}
Finding == {"last", "scan", "pointed", "found"}

\* The stages of a command that writes a session it has read: recovering is none.
Continuing == {"running", "open", "migrate", "each"}

Fields(j) ==
  j = [at |-> j.at, op |-> j.op, id |-> j.id, msgs |-> j.msgs, upd |-> j.upd,
       rounds |-> j.rounds, todo |-> j.todo, then |-> j.then]

IsJob(j) ==
  /\ Fields(j)
  /\ j.at \in Named \cup Idle
  /\ j.at \in Finding => j.op \in Ops
  /\ j.id \in Ids \cup {NoId} /\ (j.at \in Named => j.id \in Ids)
  /\ j.msgs \in Texts /\ j.upd \in Nat /\ j.todo \subseteq Ids
  /\ j.then \in {"idle", "running", "each", "persisted", "open", "refuse"}
  /\ j.op = "recover" => j.then = "idle" /\ j.at \notin Continuing

\* What was saved last is what a whole file has, and there is none without a file.
Agrees(f, k) == /\ f.is = "whole" => k = f.msgs
                /\ f = Missing => k = <<>>

\* A process that holds a session holds it alone, and goes on from what was saved
\* last, unless the session is one that two processes had in hand.
HeldAlone ==
  \A c, d \in Clients, i \in Ids : Holds(c, i) /\ Holds(d, i) => c = d \/ i \in shared
GoesOn ==
  \A c \in Clients, i \in Ids : Holds(c, i) /\ i \notin shared => IsPrefix(kept[i], job[c].msgs)
RecoversToNothing ==
  \A c \in Clients : job[c].at = "truncate" /\ job[c].op = "recover" =>
    file[job[c].id] = Missing \/ job[c].id \in shared

Shapes ==
  /\ clock \in 0 .. MaxTime
  /\ pointer \in Ids \cup {NoId}
  /\ file \in [Ids -> Files] /\ kept \in [Ids -> Texts]
  /\ job = [c \in Clients |-> job[c]] /\ \A c \in Clients : IsJob(job[c])

StoreInv ==
  /\ Shapes
  /\ \A i \in Ids : Agrees(file[i], kept[i])
  /\ HeldAlone /\ GoesOn /\ RecoversToNothing

\* What c may hold after a step, t the sessions that were shared: a session that
\* nobody else holds, from what was saved of it.
Fits(c, y, t) ==
  \A i \in Ids : y.at \in Holding /\ y.id = i /\ i \notin t =>
    /\ \A d \in Clients \ {c} : ~Holds(d, i)
    /\ IsPrefix(kept[i], y.msgs)
    /\ y.at = "truncate" /\ y.op = "recover" => file[i] = Missing

-----------------------------------------------------------------------------
(* Prefixes.                                                               *)

LEMMA PrefixOfItself ==
  ASSUME NEW s \in Texts PROVE IsPrefix(s, s)
BY DEF IsPrefix, Texts

LEMMA NothingIsPrefix ==
  ASSUME NEW s \in Texts PROVE IsPrefix(<<>>, s)
<1>1. Len(<<>>) = 0 /\ Len(s) \in Nat
  BY DEF Texts
<1>2. SubSeq(<<>>, 1, 0) = <<>> /\ SubSeq(s, 1, 0) = <<>>
  BY DEF Texts
<1> QED BY <1>1, <1>2 DEF IsPrefix

LEMMA PrefixOfLonger ==
  ASSUME NEW s \in Texts, NEW t \in Texts, NEW e \in Messages, IsPrefix(s, t)
  PROVE  IsPrefix(s, Append(t, e)) /\ Append(t, e) \in Texts
<1>1. Len(s) <= Len(t) /\ SubSeq(s, 1, Len(s)) = SubSeq(t, 1, Len(s))
  BY DEF IsPrefix
<1>2. Append(t, e) \in Texts /\ Len(Append(t, e)) = Len(t) + 1
  BY DEF Texts
<1>3. SubSeq(Append(t, e), 1, Len(s)) = SubSeq(t, 1, Len(s))
  <2>1. \A k \in 1 .. Len(s) : Append(t, e)[k] = t[k]
    BY <1>1 DEF Texts
  <2> QED BY <1>1, <1>2, <2>1 DEF Texts
<1> QED BY <1>1, <1>2, <1>3 DEF IsPrefix, Texts

-----------------------------------------------------------------------------
(* Steps of a process on the store.                                        *)

\* A step that changes no file.
LEMMA JobStep ==
  ASSUME StoreInv, NEW c \in Clients, NEW y, IsJob(y), Set(c, y), Fits(c, y, shared'),
         shared \subseteq shared', UNCHANGED <<file, kept>>,
         clock' \in 0 .. MaxTime, pointer' \in Ids \cup {NoId}
  PROVE  StoreInv'
<1> DEFINE now == [d \in Clients |-> IF d = c THEN y ELSE job[d]]
<1>1. job' = now
  BY DEF Set, StoreInv, Shapes
<1>2. \A d \in Clients : job'[d] = IF d = c THEN y ELSE job[d]
  BY <1>1
<1>3. Shapes'
  <2>1. \A d \in Clients : IsJob(job'[d])
    BY <1>2 DEF StoreInv, Shapes
  <2>2. job' = [d \in Clients |-> job'[d]]
    BY <1>1, <1>2
  <2>3. \A d \in Clients : IsJob(job[d])'
    BY <2>1 DEF IsJob, Fields
  <2> QED BY <2>2, <2>3 DEF StoreInv, Shapes
<1>4. \A d \in Clients \ {c}, i \in Ids : Holds(d, i)' <=> Holds(d, i)
  BY <1>2 DEF Holds
<1>5. \A i \in Ids : Holds(c, i)' <=> y.id = i /\ y.at \in Holding
  BY <1>2 DEF Holds, Holding
<1>6. HeldAlone'
  BY <1>4, <1>5 DEF HeldAlone, StoreInv, Fits
<1>7. GoesOn'
  <2> SUFFICES ASSUME NEW d \in Clients, NEW i \in Ids, Holds(d, i)', i \notin shared'
               PROVE  IsPrefix(kept[i], job'[d].msgs)
    BY DEF GoesOn
  <2>1. CASE d = c
    BY <1>2, <1>5, <2>1 DEF Fits
  <2>2. CASE d # c
    BY <1>2, <1>4, <2>2 DEF GoesOn, StoreInv
  <2> QED BY <2>1, <2>2
<1>8. RecoversToNothing'
  <2> SUFFICES ASSUME NEW d \in Clients, job'[d].at = "truncate", job'[d].op = "recover",
                      job'[d].id \notin shared'
               PROVE  file[job'[d].id] = Missing
    BY DEF RecoversToNothing
  <2>1. CASE d = c
    BY <1>2, <2>1 DEF Fits, IsJob, Named, Holding
  <2>2. CASE d # c
    BY <1>2, <2>2 DEF RecoversToNothing, StoreInv
  <2> QED BY <2>1, <2>2
<1>9. \A i \in Ids : Agrees(file[i], kept[i])'
  BY DEF StoreInv, Agrees
<1> QED BY <1>3, <1>6, <1>7, <1>8, <1>9 DEF StoreInv

\* A step that changes the file of session i, and what was saved of it: nobody else
\* holds i, or it is one that two had in hand.
LEMMA FileStep ==
  ASSUME StoreInv, NEW c \in Clients, NEW y, IsJob(y), Set(c, y), NEW i \in Ids,
         NEW f \in Files, NEW k \in Texts, Agrees(f, k),
         file' = [file EXCEPT ![i] = f], kept' = [kept EXCEPT ![i] = k],
         \A d \in Clients \ {c} : Holds(d, i) => i \in shared',
         y.at \in Holding => y.id = i /\ y.at # "truncate",
         y.at \in Holding /\ i \notin shared' => IsPrefix(k, y.msgs),
         shared \subseteq shared',
         clock' \in 0 .. MaxTime, pointer' \in Ids \cup {NoId}
  PROVE  StoreInv'
<1> DEFINE now == [d \in Clients |-> IF d = c THEN y ELSE job[d]]
<1>1. job' = now
  BY DEF Set, StoreInv, Shapes
<1>2. \A d \in Clients : job'[d] = IF d = c THEN y ELSE job[d]
  BY <1>1
<1>3. Shapes'
  <2>1. \A d \in Clients : IsJob(job'[d])
    BY <1>2 DEF StoreInv, Shapes
  <2>2. job' = [d \in Clients |-> job'[d]]
    BY <1>1, <1>2
  <2>3. \A d \in Clients : IsJob(job[d])'
    BY <2>1 DEF IsJob, Fields
  <2>4. file' \in [Ids -> Files] /\ kept' \in [Ids -> Texts]
    BY DEF StoreInv, Shapes
  <2> QED BY <2>2, <2>3, <2>4 DEF Shapes
<1>a. \A j \in Ids : /\ file'[j] = IF j = i THEN f ELSE file[j]
                     /\ kept'[j] = IF j = i THEN k ELSE kept[j]
  BY DEF StoreInv, Shapes
<1>4. \A d \in Clients \ {c}, j \in Ids : Holds(d, j)' <=> Holds(d, j)
  BY <1>2 DEF Holds
<1>5. \A j \in Ids : Holds(c, j)' <=> y.id = j /\ y.at \in Holding
  BY <1>2 DEF Holds, Holding
<1>6. HeldAlone'
  <2> SUFFICES ASSUME NEW a \in Clients, NEW b \in Clients, NEW j \in Ids,
                      Holds(a, j)', Holds(b, j)', a # b
               PROVE  j \in shared'
    BY DEF HeldAlone
  <2>1. CASE a # c /\ b # c
    BY <1>4, <2>1 DEF HeldAlone, StoreInv
  <2>2. CASE a = c \/ b = c
    BY <1>4, <1>5, <2>2
  <2> QED BY <2>1, <2>2
<1>7. GoesOn'
  <2> SUFFICES ASSUME NEW d \in Clients, NEW j \in Ids, Holds(d, j)', j \notin shared'
               PROVE  IsPrefix(kept'[j], job'[d].msgs)
    BY DEF GoesOn
  <2>1. CASE d = c
    BY <1>2, <1>5, <1>a, <2>1
  <2>2. CASE d # c
    <3>1. j # i /\ Holds(d, j)
      BY <1>4, <2>2
    <3> QED BY <1>2, <1>a, <2>2, <3>1 DEF GoesOn, StoreInv
  <2> QED BY <2>1, <2>2
<1>8. RecoversToNothing'
  <2> SUFFICES ASSUME NEW d \in Clients, job'[d].at = "truncate", job'[d].op = "recover",
                      job'[d].id \notin shared'
               PROVE  file'[job'[d].id] = Missing
    BY DEF RecoversToNothing
  <2>1. d # c
    BY <1>2 DEF Holding
  <2>2. job'[d] = job[d] /\ job[d].id \in Ids
    BY <1>2, <2>1 DEF StoreInv, Shapes, IsJob, Named
  <2>3. job[d].id # i
    BY <2>1, <2>2 DEF Holds
  <2> QED BY <1>a, <2>2, <2>3 DEF RecoversToNothing, StoreInv
<1>9. \A j \in Ids : Agrees(file[j], kept[j])'
  <2>1. \A j \in Ids : Agrees(file'[j], kept'[j])
    BY <1>a DEF StoreInv
  <2> QED BY <2>1 DEF Agrees
<1> QED BY <1>3, <1>6, <1>7, <1>8, <1>9 DEF StoreInv
-----------------------------------------------------------------------------
(* The actions of the store, one after the other.                          *)

\* A command that goes on to another stage.
Turned(x, at) ==
  [at |-> at, op |-> x.op, id |-> x.id, msgs |-> x.msgs, upd |-> x.upd, rounds |-> x.rounds,
   todo |-> x.todo, then |-> x.then]

LEMMA GoTurns ==
  ASSUME StoreInv, NEW c \in Clients, NEW at, Go(c, at)
  PROVE  Set(c, Turned(job[c], at))
<1> PICK x : x = job[c]
  OBVIOUS
<1>1. x = [at |-> x.at, op |-> x.op, id |-> x.id, msgs |-> x.msgs, upd |-> x.upd,
           rounds |-> x.rounds, todo |-> x.todo, then |-> x.then]
  BY DEF StoreInv, Shapes, IsJob, Fields
<1>2. [x EXCEPT !.at = at] = Turned(x, at)
  BY <1>1 DEF Turned
<1> QED BY <1>2 DEF Go

LEMMA TurnedIsJob ==
  ASSUME NEW x, IsJob(x), x.id \in Ids, NEW at \in Named \cup Idle,
         at \in Finding => x.op \in Ops,
         at \in Continuing => x.op # "recover"
  PROVE  /\ IsJob(Turned(x, at))
         /\ Turned(x, at).at = at /\ Turned(x, at).id = x.id /\ Turned(x, at).op = x.op
         /\ Turned(x, at).msgs = x.msgs
<1> PICK y : y = Turned(x, at)
  OBVIOUS
<1>1. /\ y.at = at /\ y.op = x.op /\ y.id = x.id /\ y.msgs = x.msgs /\ y.upd = x.upd
      /\ y.rounds = x.rounds /\ y.todo = x.todo /\ y.then = x.then
      /\ y = [at |-> y.at, op |-> y.op, id |-> y.id, msgs |-> y.msgs, upd |-> y.upd,
              rounds |-> y.rounds, todo |-> y.todo, then |-> y.then]
  BY DEF Turned
<1>2. IsJob(y)
  BY <1>1 DEF IsJob, Fields
<1> QED BY <1>1, <1>2

LEMMA NoJobIsJob == IsJob(NoJob) /\ NoJob.at = "idle" /\ NoJob.at \notin Holding
BY DEF NoJob, IsJob, Fields, Named, Idle, Holding, Texts, Finding, Ops, Continuing

LEMMA NoneHeld ==
  ASSUME NEW c, NEW y, y.at \notin Holding, NEW t
  PROVE  Fits(c, y, t)
BY DEF Fits

\* A command that holds a session holds it still, and has not begun to write.
LEMMA FitsStill ==
  ASSUME StoreInv, NEW c \in Clients, NEW y, job[c].at \in Holding, y.id = job[c].id,
         y.at = "truncate" => y.op # "recover",
         NEW t, shared \subseteq t, job[c].msgs \in Texts,
         y.msgs = job[c].msgs \/ \E e \in Messages : y.msgs = Append(job[c].msgs, e)
  PROVE  Fits(c, y, t)
<1> SUFFICES ASSUME NEW i \in Ids, y.id = i, i \notin t
             PROVE  /\ \A d \in Clients \ {c} : ~Holds(d, i)
                    /\ IsPrefix(kept[i], y.msgs)
  BY DEF Fits
<1>1. Holds(c, i) /\ i \notin shared
  BY DEF Holds, Holding
<1>2. \A d \in Clients \ {c} : ~Holds(d, i)
  BY <1>1 DEF StoreInv, HeldAlone
<1>3. IsPrefix(kept[i], job[c].msgs) /\ kept[i] \in Texts
  BY <1>1 DEF StoreInv, GoesOn, Shapes
<1>4. IsPrefix(kept[i], y.msgs)
  BY <1>3, PrefixOfLonger
<1> QED BY <1>2, <1>4

\* A command that comes to hold session i, with what is in its file or, if there
\* is none, whatever it has, when all who hold it are counted.
LEMMA FitsAnew ==
  ASSUME StoreInv, NEW c \in Clients, NEW y, NEW i \in Ids, y.id = i, NEW t,
         Overlap(c, i) \subseteq t, y.msgs \in Texts,
         i \notin t => \/ file[i].is = "whole" /\ (y.msgs = file[i].msgs \/ file[i].msgs = <<>>)
                       \/ file[i] = Missing,
         y.at = "truncate" /\ y.op = "recover" => file[i] = Missing
  PROVE  Fits(c, y, t)
<1> SUFFICES ASSUME i \notin t
             PROVE  /\ \A d \in Clients \ {c} : ~Holds(d, i)
                    /\ IsPrefix(kept[i], y.msgs)
  BY DEF Fits
<1>1. \A d \in Clients \ {c} : ~Holds(d, i)
  BY DEF Overlap
<1>2. kept[i] = y.msgs \/ kept[i] = <<>>
  BY DEF StoreInv, Agrees
<1>3. IsPrefix(kept[i], y.msgs)
  BY <1>2, PrefixOfItself, NothingIsPrefix
<1> QED BY <1>1, <1>3

LEMMA FilesAre ==
  ASSUME NEW m \in Texts, NEW u \in Nat
  PROVE  /\ Torn(TRUE, m, u) \in Files /\ Torn(TRUE, m, u).is = "torn"
         /\ Torn(FALSE, m, u) \in Files /\ Torn(FALSE, m, u).is = "torn"
         /\ Whole(m, u, FALSE) \in Files /\ Whole(m, u, FALSE).is = "whole"
         /\ Whole(m, u, FALSE).msgs = m
         /\ Missing \in Files /\ Missing.is = "missing"
BY DEF Torn, Whole, Missing, Files, TornFiles

LEMMA StepTruncate ==
  ASSUME StoreInv, NEW c \in Clients, Truncate(c)
  PROVE  StoreInv'
<1> PICK x : x = job[c]
  OBVIOUS
<1>1. IsJob(x) /\ x.at = "truncate" /\ x.id \in Ids
  BY DEF Truncate, StoreInv, Shapes, IsJob, Named
<1> DEFINE f == Torn(FALSE, <<>>, 0)
           y == Turned(x, "fill")
<1>2. f \in Files /\ f.is = "torn" /\ f # Missing
  <2>1. <<>> \in Texts
    BY DEF Texts
  <2> QED BY <2>1, FilesAre
<1>3. Set(c, y) /\ IsJob(y) /\ y.at = "fill" /\ y.id = x.id /\ y.msgs = x.msgs
  BY <1>1, GoTurns, TurnedIsJob DEF Truncate, Named, Finding, Continuing
<1> HIDE DEF f, y
<1>4. file' = [file EXCEPT ![x.id] = f]
  BY DEF Truncate, f
<1>5. kept' = [kept EXCEPT ![x.id] = kept[x.id]] /\ kept[x.id] \in Texts
  BY <1>1 DEF Truncate, history, StoreInv, Shapes
<1>6. Holds(c, x.id)
  BY <1>1 DEF Holds
<1>7. \A d \in Clients \ {c} : Holds(d, x.id) => x.id \in shared
  BY <1>1, <1>6 DEF StoreInv, HeldAlone
<1>8. x.id \notin shared => IsPrefix(kept[x.id], y.msgs)
  BY <1>1, <1>3, <1>6 DEF StoreInv, GoesOn
<1>9. clock' \in 0 .. MaxTime /\ pointer' \in Ids \cup {NoId} /\ shared' = shared
  BY DEF Truncate, StoreInv, Shapes, history
<1>10. Agrees(f, kept[x.id])
  BY <1>2 DEF Agrees
<1> QED BY <1>1, <1>2, <1>3, <1>4, <1>5, <1>7, <1>8, <1>9, <1>10, FileStep

LEMMA StepFill ==
  ASSUME StoreInv, NEW c \in Clients, Fill(c)
  PROVE  StoreInv'
<1> PICK x : x = job[c]
  OBVIOUS
<1>1. IsJob(x) /\ x.at = "fill" /\ x.id \in Ids /\ x.msgs \in Texts /\ x.upd \in Nat
  BY DEF Fill, StoreInv, Shapes, IsJob, Named
<1> DEFINE y == Turned(x, "point")
<1>2. Set(c, y) /\ IsJob(y) /\ y.at = "point" /\ y.id = x.id /\ y.msgs = x.msgs
  BY <1>1, GoTurns, TurnedIsJob DEF Fill, Named, Finding, Continuing
<1> HIDE DEF y
<1>3. PICK tail \in BOOLEAN :
        file' = [file EXCEPT ![x.id] = IF tail THEN Torn(TRUE, x.msgs, x.upd)
                                       ELSE Whole(x.msgs, x.upd, FALSE)]
  BY DEF Fill
<1> PICK f : f = IF tail THEN Torn(TRUE, x.msgs, x.upd) ELSE Whole(x.msgs, x.upd, FALSE)
  OBVIOUS
<1>4. f \in Files /\ f # Missing /\ (f.is = "whole" => f.msgs = x.msgs)
  <2>1. /\ Torn(TRUE, x.msgs, x.upd) \in Files /\ Torn(TRUE, x.msgs, x.upd).is = "torn"
        /\ Whole(x.msgs, x.upd, FALSE) \in Files /\ Whole(x.msgs, x.upd, FALSE).is = "whole"
        /\ Whole(x.msgs, x.upd, FALSE).msgs = x.msgs /\ Missing.is = "missing"
    BY <1>1, FilesAre
  <2>2. f = Torn(TRUE, x.msgs, x.upd) \/ f = Whole(x.msgs, x.upd, FALSE)
    OBVIOUS
  <2> QED BY <2>1, <2>2
<1>5. kept' = [kept EXCEPT ![x.id] = x.msgs]
  BY DEF Fill
<1>6. Holds(c, x.id)
  BY <1>1 DEF Holds
<1>7. \A d \in Clients \ {c} : Holds(d, x.id) => x.id \in shared
  BY <1>1, <1>6 DEF StoreInv, HeldAlone
<1>8. IsPrefix(x.msgs, y.msgs)
  BY <1>1, <1>2, PrefixOfItself
<1>9. clock' \in 0 .. MaxTime /\ pointer' \in Ids \cup {NoId} /\ shared' = shared
  BY DEF Fill, StoreInv, Shapes
<1>10. Agrees(f, x.msgs)
  BY <1>4 DEF Agrees
<1>11. file' = [file EXCEPT ![x.id] = f]
  BY <1>3
<1> QED BY <1>1, <1>2, <1>4, <1>5, <1>7, <1>8, <1>9, <1>10, <1>11, FileStep

\* A command that ends, or goes on to a stage in which it holds nothing.
LEMMA DoneStep ==
  ASSUME StoreInv, NEW c \in Clients, Done(c), UNCHANGED <<file, kept>>,
         shared \subseteq shared', clock' \in 0 .. MaxTime, pointer' \in Ids \cup {NoId}
  PROVE  StoreInv'
BY NoJobIsJob, NoneHeld, JobStep DEF Done

LEMMA GoStep ==
  ASSUME StoreInv, NEW c \in Clients, NEW at \in Named \cup Idle, Go(c, at), at \notin Holding,
         job[c].id \in Ids,
         at \in Finding => job[c].op \in Ops,
         at \in Continuing => job[c].op # "recover",
         UNCHANGED <<file, kept>>,
         shared \subseteq shared', clock' \in 0 .. MaxTime, pointer' \in Ids \cup {NoId}
  PROVE  StoreInv'
<1>1. IsJob(job[c])
  BY DEF StoreInv, Shapes
<1>2. Set(c, Turned(job[c], at)) /\ IsJob(Turned(job[c], at)) /\ Turned(job[c], at).at = at
  BY <1>1, GoTurns, TurnedIsJob
<1> QED BY <1>2, NoneHeld, JobStep

LEMMA StepPoint ==
  ASSUME StoreInv, NEW c \in Clients, Point(c)
  PROVE  StoreInv'
<1> PICK x : x = job[c]
  OBVIOUS
<1>1. /\ IsJob(x) /\ x.at = "point" /\ x.id \in Ids /\ x.msgs \in Texts
      /\ x.then \in {"idle", "running", "each", "persisted", "open", "refuse"}
      /\ x.op = "recover" => x.then = "idle"
  BY DEF Point, StoreInv, Shapes, IsJob, Named
<1>2. /\ clock' \in 0 .. MaxTime /\ pointer' \in Ids \cup {NoId} /\ shared' = shared
      /\ UNCHANGED <<file, kept>>
  BY <1>1 DEF Point, StoreInv, Shapes, history
<1>3. CASE x.then = "idle"
  BY <1>2, <1>3, DoneStep DEF Point
<1>4. CASE x.then \in {"each", "persisted", "open", "refuse"}
  BY <1>1, <1>2, <1>4, GoStep DEF Point, Named, Idle, Holding, Finding, Continuing
<1>5. CASE x.then = "running"
  <2> PICK y : y = Turned(x, "running")
    OBVIOUS
  <2>1. Set(c, y) /\ IsJob(y) /\ y.at = "running" /\ y.id = x.id /\ y.msgs = x.msgs
    BY <1>1, <1>5, GoTurns, TurnedIsJob DEF Point, Named, Finding, Continuing
  <2>2. Fits(c, y, shared')
    BY <1>1, <1>2, <2>1, FitsStill DEF Holding
  <2> QED BY <1>2, <2>1, <2>2, JobStep
<1> QED BY <1>1, <1>3, <1>4, <1>5

LEMMA StepOpen ==
  ASSUME StoreInv, NEW c \in Clients, Open(c)
  PROVE  StoreInv'
<1> PICK x : x = job[c]
  OBVIOUS
<1>1. IsJob(x) /\ x.at = "open" /\ x.id \in Ids
  BY DEF Open, StoreInv, Shapes, IsJob, Named
<1>2. /\ clock' \in 0 .. MaxTime /\ pointer' \in Ids \cup {NoId}
      /\ UNCHANGED <<file, kept>>
  BY <1>1 DEF Open, StoreInv, Shapes, store
<1>3. CASE file[x.id].is # "whole"
  <2>1. Done(c) /\ shared' = shared
    BY <1>3 DEF Open
  <2> QED BY <1>2, <2>1, DoneStep
<1>4. CASE file[x.id].is = "whole"
  <2> PICK m : m = Seeded(c, file[x.id].msgs)
    OBVIOUS
  <2> PICK y : y = [x EXCEPT !.at = "running", !.msgs = m]
    OBVIOUS
  <2>2. Set(c, y) /\ shared' = shared \cup Overlap(c, x.id)
    BY <1>4 DEF Open
  <2>3. file[x.id].msgs \in Texts
    BY <1>1, <1>4, FilesAre DEF StoreInv, Shapes, Files, TornFiles
  <2>4. m \in Texts /\ (m = file[x.id].msgs \/ file[x.id].msgs = <<>>)
    <3>1. Prompt(c) \in Messages
      BY DEF Prompt, Messages
    <3>2. <<Prompt(c)>> \in Texts
      BY <3>1 DEF Texts
    <3> QED BY <2>3, <3>2 DEF Seeded
  <2>0. Fields(x)
    BY <1>1 DEF IsJob
  <2>5. Fields(y) /\ y.at = "running" /\ y.op = x.op /\ y.id = x.id /\ y.msgs = m
        /\ y.upd = x.upd /\ y.todo = x.todo /\ y.then = x.then
    BY <2>0 DEF Fields
  <2>6. IsJob(y)
    BY <1>1, <2>4, <2>5 DEF IsJob, Named, Finding, Continuing
  <2>7. Fits(c, y, shared')
    BY <1>1, <1>4, <2>2, <2>4, <2>5, FitsAnew
  <2> QED BY <1>2, <2>2, <2>6, <2>7, JobStep
<1> QED BY <1>3, <1>4

\* The save that follows something a command did to its copy.
LEMMA SavingIsJob ==
  ASSUME NEW u, Fields(u), u.id \in Ids, u.msgs \in Texts, u.upd \in Nat, u.todo \subseteq Ids,
         NEW t \in {"idle", "running", "each", "persisted", "open", "refuse"},
         u.op = "recover" => t = "idle",
         NEW y, y = Saving(u, t)
  PROVE  /\ IsJob(y) /\ y.at = "truncate" /\ y.id = u.id /\ y.op = u.op /\ y.msgs = u.msgs
         /\ y.then = t
<1>1. /\ Fields(y) /\ y.at = "truncate" /\ y.op = u.op /\ y.id = u.id /\ y.msgs = u.msgs
      /\ y.upd = u.upd /\ y.todo = u.todo /\ y.then = t
  BY DEF Saving, Fields
<1>2. IsJob(y)
  BY <1>1 DEF IsJob, Named, Finding, Continuing
<1> QED BY <1>1, <1>2

\* A round, or the end of a run, is saved.
LEMMA RoundSaves ==
  ASSUME StoreInv, NEW c \in Clients, SaveRound(c) \/ EndRun(c)
  PROVE  \E u, y : \E t \in {"idle", "running"} :
           /\ Fields(u) /\ u.op = job[c].op /\ u.id = job[c].id /\ u.upd = clock
           /\ u.todo = job[c].todo
           /\ u.msgs = job[c].msgs \/ \E e \in Messages : u.msgs = Append(job[c].msgs, e)
           /\ y = Saving(u, t) /\ Set(c, y)
<1> PICK x : x = job[c]
  OBVIOUS
<1>1. Fields(x)
  BY DEF StoreInv, Shapes, IsJob
<1>2. CASE SaveRound(c)
  <2>1. PICK last \in BOOLEAN :
          Set(c, Saving([x EXCEPT !.msgs = Append(@, Round(c)), !.upd = clock, !.rounds = @ + 1],
                        IF last THEN "idle" ELSE "running"))
    BY <1>2 DEF SaveRound
  <2> PICK u : u = [x EXCEPT !.msgs = Append(@, Round(c)), !.upd = clock, !.rounds = @ + 1]
    OBVIOUS
  <2>2. Fields(u) /\ u.msgs = Append(x.msgs, Round(c)) /\ u.id = x.id /\ u.upd = clock
        /\ u.todo = x.todo /\ u.op = x.op
    BY <1>1 DEF Fields
  <2>3. Round(c) \in Messages
    BY DEF Round, Messages
  <2> PICK t \in {"idle", "running"} : t = IF last THEN "idle" ELSE "running"
    OBVIOUS
  <2>4. Set(c, Saving(u, t))
    BY <2>1
  <2> QED BY <2>2, <2>3, <2>4
<1>3. CASE EndRun(c)
  <2> PICK u : u = [x EXCEPT !.upd = clock]
    OBVIOUS
  <2>1. Fields(u) /\ u.msgs = x.msgs /\ u.id = x.id /\ u.upd = clock /\ u.todo = x.todo
        /\ u.op = x.op
    BY <1>1 DEF Fields
  <2>2. Set(c, Saving(u, "idle"))
    BY <1>3 DEF EndRun
  <2> QED BY <2>1, <2>2
<1> QED BY <1>2, <1>3

LEMMA StepSaveRound ==
  ASSUME StoreInv, NEW c \in Clients, SaveRound(c) \/ EndRun(c)
  PROVE  StoreInv'
<1> PICK x : x = job[c]
  OBVIOUS
<1>1. IsJob(x) /\ x.at = "running" /\ x.id \in Ids /\ x.msgs \in Texts /\ x.todo \subseteq Ids
      /\ x.op # "recover"
  BY DEF SaveRound, EndRun, StoreInv, Shapes, IsJob, Named, Continuing
<1>2. Fields(x) /\ clock \in Nat
  BY <1>1, SessionsAssumption DEF IsJob, StoreInv, Shapes
<1>3. /\ clock' \in 0 .. MaxTime /\ pointer' \in Ids \cup {NoId}
      /\ UNCHANGED <<file, kept>> /\ shared' = shared
  BY <1>1 DEF SaveRound, EndRun, StoreInv, Shapes, store, history
<1>4. PICK u, y : \E t \in {"idle", "running"} :
        /\ Fields(u) /\ u.op = x.op /\ u.id = x.id /\ u.upd = clock /\ u.todo = x.todo
        /\ u.msgs = x.msgs \/ \E e \in Messages : u.msgs = Append(x.msgs, e)
        /\ y = Saving(u, t) /\ Set(c, y)
  BY RoundSaves
<1>5. u.msgs \in Texts
  BY <1>1, <1>4, PrefixOfLonger, PrefixOfItself
<1>6. IsJob(y) /\ y.at = "truncate" /\ y.id = x.id /\ y.op = u.op /\ y.msgs = u.msgs
  BY <1>1, <1>2, <1>4, <1>5, SavingIsJob
<1>7. Fits(c, y, shared')
  BY <1>1, <1>3, <1>4, <1>6, FitsStill DEF Holding
<1> QED BY <1>3, <1>4, <1>6, <1>7, JobStep

\* What of a step on the store no stage of a command but a few touches.
Steady == clock' \in 0 .. MaxTime /\ pointer' \in Ids \cup {NoId} /\ shared \subseteq shared'

LEMMA StepFind ==
  ASSUME StoreInv, NEW c \in Clients, ReadPointer(c) \/ LoadPointed(c) \/ Scan(c) \/ LoadFound(c)
  PROVE  StoreInv'
<1> PICK x : x = job[c]
  OBVIOUS
<1>1. /\ IsJob(x) /\ Fields(x) /\ x.at \in Finding /\ x.op \in Ops
      /\ x.msgs \in Texts /\ x.upd \in Nat /\ x.todo \subseteq Ids
      /\ x.then \in {"idle", "running", "each", "persisted", "open", "refuse"}
      /\ x.op = "recover" => x.then = "idle"
      /\ x.at \in {"pointed", "found"} => x.id \in Ids
  BY DEF ReadPointer, LoadPointed, Scan, LoadFound, StoreInv, Shapes, IsJob, Finding, Named
<1>2. UNCHANGED <<file, kept>> /\ Steady
  BY DEF ReadPointer, LoadPointed, Scan, LoadFound, StoreInv, Shapes, store, history, Steady
<1>3. Begun(x.op) \in {"open", "remove", "salvage", "migrate"}
      /\ (x.op = "recover" => Begun(x.op) \notin {"open", "migrate"})
  BY <1>1 DEF Begun, Ops
<1>4. ASSUME Go(c, Begun(x.op)), x.id \in Ids
      PROVE  StoreInv'
  <2> PICK at : at = Begun(x.op)
    OBVIOUS
  <2>1. /\ at \in Named \cup Idle /\ at \notin Holding /\ at \notin Finding
        /\ at \in Continuing => x.op # "recover"
    BY <1>3 DEF Named, Holding, Finding, Continuing
  <2> QED BY <1>2, <1>4, <2>1, GoStep DEF Steady
<1>5. ASSUME Done(c)
      PROVE  StoreInv'
  BY <1>2, <1>5, DoneStep DEF Steady
<1>6. ASSUME Go(c, "scan"), x.id \in Ids
      PROVE  StoreInv'
  BY <1>1, <1>2, <1>6, GoStep DEF Steady, Idle, Holding, Continuing
<1>7. ASSUME NEW i \in Ids \cup {NoId}, NEW at \in {"scan", "pointed", "found"},
             at # "scan" => i \in Ids,
             Set(c, [x EXCEPT !.id = i, !.at = at])
      PROVE  StoreInv'
  <2> PICK y : y = [x EXCEPT !.id = i, !.at = at]
    OBVIOUS
  <2>1. /\ Fields(y) /\ y.at = at /\ y.id = i /\ y.op = x.op /\ y.msgs = x.msgs /\ y.upd = x.upd
        /\ y.todo = x.todo /\ y.then = x.then
    BY <1>1 DEF Fields
  <2>2. IsJob(y) /\ y.at \notin Holding
    BY <1>1, <1>7, <2>1 DEF IsJob, Named, Idle, Finding, Holding, Continuing
  <2> QED BY <1>2, <1>7, <2>2, NoneHeld, JobStep DEF Steady
<1>8. CASE ReadPointer(c)
  <2>1. PICK p \in {pointer, NoId} :
          Set(c, [x EXCEPT !.id = p, !.at = IF p = NoId THEN "scan" ELSE "pointed"])
    BY <1>8 DEF ReadPointer
  <2>2. p \in Ids \cup {NoId}
    BY DEF StoreInv, Shapes
  <2>3. CASE p = NoId
    BY <1>7, <2>1, <2>3
  <2>4. CASE p # NoId
    BY <1>7, <2>1, <2>2, <2>4
  <2> QED BY <2>3, <2>4
<1>9. CASE LoadPointed(c)
  <2>1. x.id \in Ids
    BY <1>1, <1>9 DEF LoadPointed
  <2>2. file[x.id].is \in {"whole", "missing", "torn"}
    BY <2>1 DEF StoreInv, Shapes, Files, Missing, TornFiles
  <2>3. Go(c, Begun(x.op)) \/ Go(c, "scan") \/ Done(c)
    BY <1>9, <2>2 DEF LoadPointed
  <2> QED BY <1>4, <1>5, <1>6, <2>1, <2>3
<1>10. CASE Scan(c)
  <2>1. Done(c) \/ \E i \in Ids : Set(c, [x EXCEPT !.id = i, !.at = "found"])
    BY <1>10 DEF Scan, Readable
  <2> QED BY <1>5, <1>7, <2>1
<1>11. CASE LoadFound(c)
  <2>1. x.id \in Ids
    BY <1>1, <1>11 DEF LoadFound
  <2> QED BY <1>4, <1>5, <1>11, <2>1 DEF LoadFound
<1> QED BY <1>8, <1>9, <1>10, <1>11

LEMMA StepRemoveFile ==
  ASSUME StoreInv, NEW c \in Clients, RemoveFile(c)
  PROVE  StoreInv'
<1> PICK x : x = job[c]
  OBVIOUS
<1>1. IsJob(x) /\ x.at = "remove" /\ x.id \in Ids
  BY DEF RemoveFile, StoreInv, Shapes, IsJob, Named
<1>2. clock' \in 0 .. MaxTime /\ pointer' \in Ids \cup {NoId}
  BY DEF RemoveFile, StoreInv, Shapes
<1>3. CASE file[x.id] = Missing
  <2>1. Done(c) /\ UNCHANGED <<file, history>>
    BY <1>3 DEF RemoveFile
  <2> QED BY <1>2, <2>1, DoneStep DEF history
<1>4. CASE file[x.id] # Missing
  <2> PICK y : y = Turned(x, "unpoint")
    OBVIOUS
  <2>1. Set(c, y) /\ IsJob(y) /\ y.at = "unpoint" /\ y.at \notin Holding
    BY <1>1, <1>4, GoTurns, TurnedIsJob DEF RemoveFile, Named, Finding, Continuing, Holding
  <2>2. /\ file' = [file EXCEPT ![x.id] = Missing] /\ kept' = [kept EXCEPT ![x.id] = <<>>]
        /\ shared' = shared \cup Overlap(c, x.id)
    BY <1>4 DEF RemoveFile
  <2>3. \A d \in Clients \ {c} : Holds(d, x.id) => x.id \in shared'
    BY <2>2 DEF Overlap
  <2>4. <<>> \in Texts /\ Missing \in Files /\ Agrees(Missing, <<>>)
    BY DEF Texts, Files, Agrees, Missing
  <2> QED BY <1>1, <1>2, <2>1, <2>2, <2>3, <2>4, FileStep
<1> QED BY <1>3, <1>4

LEMMA StepUnpoint ==
  ASSUME StoreInv, NEW c \in Clients, Unpoint(c) \/ Unlink(c)
  PROVE  StoreInv'
<1>1. /\ job[c].id \in Ids /\ UNCHANGED <<file, kept>> /\ Steady
  BY DEF Unpoint, Unlink, StoreInv, Shapes, IsJob, Named, Steady, store, history
<1>2. CASE Done(c)
  BY <1>1, <1>2, DoneStep DEF Steady
<1>3. CASE Go(c, "unlink")
  BY <1>1, <1>3, GoStep DEF Steady, Named, Holding, Finding, Continuing
<1> QED BY <1>2, <1>3 DEF Unpoint, Unlink

LEMMA StepSalvage ==
  ASSUME StoreInv, NEW c \in Clients, Salvage(c)
  PROVE  StoreInv'
<1> PICK x : x = job[c]
  OBVIOUS
<1>1. IsJob(x) /\ Fields(x) /\ x.at = "salvage" /\ x.id \in Ids
  BY DEF Salvage, StoreInv, Shapes, IsJob, Named
<1>2. UNCHANGED <<file, kept>> /\ Steady
  BY DEF Salvage, StoreInv, Shapes, store, history, Steady
<1> PICK f : f = file[x.id]
  OBVIOUS
<1>3. f \in Files
  BY <1>1 DEF StoreInv, Shapes
<1>4. CASE Done(c)
  BY <1>2, <1>4, DoneStep DEF Steady
<1>5. CASE ~Done(c)
  <2>1. /\ f.is # "missing"
        /\ Set(c, [x EXCEPT !.at = "name", !.msgs = f.msgs, !.upd = f.upd])
    BY <1>5 DEF Salvage
  <2>2. f.msgs \in Texts /\ f.upd \in Nat
    BY <1>3, <2>1 DEF Files, Missing, TornFiles
  <2> PICK y : y = [x EXCEPT !.at = "name", !.msgs = f.msgs, !.upd = f.upd]
    OBVIOUS
  <2>3. /\ Fields(y) /\ y.at = "name" /\ y.id = x.id /\ y.op = x.op /\ y.msgs = f.msgs
        /\ y.upd = f.upd /\ y.todo = x.todo /\ y.then = x.then
    BY <1>1 DEF Fields
  <2>4. IsJob(y) /\ y.at \notin Holding
    BY <1>1, <2>2, <2>3 DEF IsJob, Named, Finding, Holding, Continuing
  <2> QED BY <1>2, <2>1, <2>4, NoneHeld, JobStep DEF Steady
<1> QED BY <1>4, <1>5

LEMMA CandidateIsId ==
  ASSUME clock \in 0 .. MaxTime, NEW n \in 0 .. MaxCopies
  PROVE  Candidate(n) \in Ids
BY DEF Candidate, Ids

\* What was recovered is saved under an id that has no file.
LEMMA NamedStep ==
  ASSUME StoreInv, NEW c \in Clients, NEW i \in Ids, file[i] = Missing,
         NEW u, Fields(u), u.id = i, u.msgs \in Texts, u.upd \in Nat, u.todo \subseteq Ids,
         Set(c, Saving(u, "idle")), shared' = shared \cup Overlap(c, i),
         UNCHANGED <<file, kept>>, Steady
  PROVE  StoreInv'
<1> PICK y : y = Saving(u, "idle")
  OBVIOUS
<1>1. IsJob(y) /\ y.at = "truncate" /\ y.id = i /\ y.msgs = u.msgs
  BY SavingIsJob
<1>2. Fits(c, y, shared')
  BY <1>1, FitsAnew
<1> QED BY <1>1, <1>2, JobStep DEF Steady

LEMMA StepName ==
  ASSUME StoreInv, NEW c \in Clients, Name(c)
  PROVE  StoreInv'
<1> PICK x : x = job[c]
  OBVIOUS
<1>1. /\ IsJob(x) /\ Fields(x) /\ x.at = "name" /\ x.msgs \in Texts /\ x.upd \in Nat
      /\ x.todo \subseteq Ids
  BY DEF Name, StoreInv, Shapes, IsJob
<1>2. PICK n \in 1 .. MaxCopies :
        /\ file[Candidate(n)] = Missing
        /\ Set(c, Saving([x EXCEPT !.id = Candidate(n)], "idle"))
        /\ shared' = shared \cup Overlap(c, Candidate(n))
  BY DEF Name, Free
<1> PICK i : i = Candidate(n)
  OBVIOUS
<1>3. i \in Ids
  BY CandidateIsId, SessionsAssumption DEF StoreInv, Shapes
<1>4. UNCHANGED <<file, kept>> /\ Steady
  BY <1>2 DEF Name, StoreInv, Shapes, store, Steady
<1> PICK u : u = [x EXCEPT !.id = i]
  OBVIOUS
<1>5. /\ Fields(u) /\ u.id = i /\ u.op = x.op /\ u.msgs = x.msgs /\ u.upd = x.upd
      /\ u.todo = x.todo
  BY <1>1 DEF Fields
<1> QED BY <1>1, <1>2, <1>3, <1>4, <1>5, NamedStep

\* A migration saves session i as it read it.
LEMMA MigrationStep ==
  ASSUME StoreInv, NEW c \in Clients, NEW i \in Ids, file[i].is = "whole",
         NEW u, Fields(u), u.id = i, u.msgs = file[i].msgs, u.upd = file[i].upd,
         u.todo \subseteq Ids, u.op # "recover", NEW t \in {"idle", "each"},
         Set(c, Saving(u, t)), shared' = shared \cup Overlap(c, i),
         UNCHANGED <<file, kept>>, Steady
  PROVE  StoreInv'
<1>1. file[i].msgs \in Texts /\ file[i].upd \in Nat
  BY DEF StoreInv, Shapes, Files, Missing, TornFiles
<1> PICK y : y = Saving(u, t)
  OBVIOUS
<1>2. IsJob(y) /\ y.at = "truncate" /\ y.id = i /\ y.op = u.op /\ y.msgs = u.msgs
  BY <1>1, SavingIsJob
<1>3. Fits(c, y, shared')
  BY <1>1, <1>2, FitsAnew
<1> QED BY <1>2, <1>3, JobStep DEF Steady

LEMMA StepMigrateOne ==
  ASSUME StoreInv, NEW c \in Clients, MigrateOne(c)
  PROVE  StoreInv'
<1> PICK x : x = job[c]
  OBVIOUS
<1>1. /\ Fields(x) /\ x.at = "migrate" /\ x.id \in Ids /\ x.op # "recover" /\ x.todo \subseteq Ids
  BY DEF MigrateOne, StoreInv, Shapes, IsJob, Named, Continuing
<1>2. UNCHANGED <<file, kept>> /\ Steady
  BY DEF MigrateOne, StoreInv, Shapes, store, Steady
<1>3. CASE Done(c)
  BY <1>2, <1>3, DoneStep DEF Steady
<1>4. CASE ~Done(c)
  <2>1. /\ file[x.id].is = "whole"
        /\ Set(c, Saving([x EXCEPT !.msgs = file[x.id].msgs, !.upd = file[x.id].upd], "idle"))
        /\ shared' = shared \cup Overlap(c, x.id)
    BY <1>4 DEF MigrateOne
  <2> PICK u : u = [x EXCEPT !.msgs = file[x.id].msgs, !.upd = file[x.id].upd]
    OBVIOUS
  <2>2. /\ Fields(u) /\ u.id = x.id /\ u.op = x.op /\ u.msgs = file[x.id].msgs
        /\ u.upd = file[x.id].upd /\ u.todo = x.todo
    BY <1>1 DEF Fields
  <2> QED BY <1>1, <1>2, <2>1, <2>2, MigrationStep
<1> QED BY <1>3, <1>4

LEMMA StepMigrateNext ==
  ASSUME StoreInv, NEW c \in Clients, MigrateNext(c)
  PROVE  StoreInv'
<1> PICK x : x = job[c]
  OBVIOUS
<1>1. /\ IsJob(x) /\ Fields(x) /\ x.at = "each" /\ x.op # "recover" /\ x.todo \subseteq Ids
  BY DEF MigrateNext, StoreInv, Shapes, IsJob, Continuing
<1>2. UNCHANGED <<file, kept>> /\ Steady
  BY DEF MigrateNext, StoreInv, Shapes, store, Steady
<1>3. CASE x.todo = {}
  BY <1>2, <1>3, DoneStep DEF MigrateNext, Steady
<1>4. CASE x.todo # {}
  <2>1. PICK i \in x.todo :
          LET rest == [x EXCEPT !.todo = @ \ {i}]
          IN IF file[i].is = "whole" /\ file[i].old
             THEN /\ Set(c, Saving([rest EXCEPT !.id = i, !.msgs = file[i].msgs,
                                                !.upd = file[i].upd], "each"))
                  /\ shared' = shared \cup Overlap(c, i)
             ELSE Set(c, rest) /\ UNCHANGED shared
    BY <1>4 DEF MigrateNext
  <2> PICK r : r = [x EXCEPT !.todo = @ \ {i}]
    OBVIOUS
  <2>2. /\ Fields(r) /\ r.at = x.at /\ r.id = x.id /\ r.op = x.op /\ r.msgs = x.msgs
        /\ r.upd = x.upd /\ r.todo = x.todo \ {i} /\ r.then = x.then
    BY <1>1 DEF Fields
  <2>3. CASE file[i].is = "whole" /\ file[i].old
    <3> PICK u : u = [r EXCEPT !.id = i, !.msgs = file[i].msgs, !.upd = file[i].upd]
      OBVIOUS
    <3>1. /\ Fields(u) /\ u.id = i /\ u.op = x.op /\ u.msgs = file[i].msgs
          /\ u.upd = file[i].upd /\ u.todo = r.todo
      BY <2>2 DEF Fields
    <3>2. Set(c, Saving(u, "each")) /\ shared' = shared \cup Overlap(c, i)
      BY <2>1, <2>3
    <3> QED BY <1>1, <1>2, <2>2, <2>3, <3>1, <3>2, MigrationStep
  <2>4. CASE ~(file[i].is = "whole" /\ file[i].old)
    <3>1. Set(c, r)
      BY <2>1, <2>4
    <3>2. IsJob(r) /\ r.at \notin Holding
      BY <1>1, <2>2 DEF IsJob, Named, Finding, Holding, Continuing
    <3> QED BY <1>2, <3>1, <3>2, NoneHeld, JobStep DEF Steady
  <2> QED BY <2>3, <2>4
<1> QED BY <1>3, <1>4

LEMMA StepWork ==
  ASSUME StoreInv, NEW c \in Clients, Work(c)
  PROVE  StoreInv'
BY StepTruncate, StepFill, StepPoint, StepOpen, StepSaveRound, StepFind, StepRemoveFile,
   StepUnpoint, StepSalvage, StepName, StepMigrateOne, StepMigrateNext DEF Work

\* A session under a new id, held by all who had that id.
LEMMA NewStep ==
  ASSUME StoreInv, NEW c \in Clients, NEW i \in Ids, NEW y, IsJob(y), Set(c, y), y.id = i,
         y.op # "recover", shared' = shared \cup Taken(c, i),
         UNCHANGED <<file, kept>>, Steady
  PROVE  StoreInv'
<1>1. y.msgs \in Texts
  BY DEF IsJob
<1>2. Overlap(c, i) \subseteq shared' /\ (i \notin shared' => file[i] = Missing)
  BY DEF Taken
<1>3. Fits(c, y, shared')
  BY <1>1, <1>2, FitsAnew
<1> QED BY <1>3, JobStep DEF Steady

\* A command that begins and holds nothing.
LEMMA BeginStep ==
  ASSUME StoreInv, NEW c \in Clients, NEW y, IsJob(y), Set(c, y), y.at \notin Holding,
         UNCHANGED <<file, kept>>, Steady
  PROVE  StoreInv'
BY NoneHeld, JobStep DEF Steady

LEMMA StepCommand ==
  ASSUME StoreInv, NEW c \in Clients, Command(c)
  PROVE  StoreInv'
<1>1. UNCHANGED <<file, kept>> /\ Steady
  BY DEF Command, Ask, MigrateAll, ByLast, ById, StoreInv, Shapes, store, history, Steady
<1>2. Fields(NoJob) /\ NoJob.msgs = <<>> /\ NoJob.upd = 0 /\ NoJob.todo = {} /\ NoJob.then = "idle"
      /\ NoJob.id = NoId
  BY DEF NoJob, Fields
<1>3. <<>> \in Texts /\ <<Prompt(c)>> \in Texts
  <2>1. Prompt(c) \in Messages
    BY DEF Prompt, Messages
  <2> QED BY <2>1 DEF Texts
<1>4. CASE Ask(c)
  <2> PICK y : y = [NoJob EXCEPT !.at = "running", !.op = "ask", !.id = NewId,
                                 !.msgs = <<Prompt(c)>>]
    OBVIOUS
  <2>1. /\ Fields(y) /\ y.at = "running" /\ y.op = "ask" /\ y.id = NewId
        /\ y.msgs = <<Prompt(c)>> /\ y.upd = 0 /\ y.todo = {} /\ y.then = "idle"
    BY <1>2 DEF Fields
  <2>2. NewId \in Ids
    BY SessionsAssumption DEF NewId, Ids, StoreInv, Shapes
  <2>3. IsJob(y)
    BY <1>3, <2>1, <2>2 DEF IsJob, Named, Finding
  <2>4. Set(c, y) /\ shared' = shared \cup Taken(c, NewId)
    BY <1>4 DEF Ask, Give
  <2> QED BY <1>1, <2>1, <2>2, <2>3, <2>4, NewStep
<1>5. CASE MigrateAll(c)
  <2> DEFINE old == {i \in Ids : file[i] # Missing}
  <2> PICK y : y = [NoJob EXCEPT !.at = "each", !.op = "migrate all", !.todo = old]
    OBVIOUS
  <2>1. /\ Fields(y) /\ y.at = "each" /\ y.op = "migrate all" /\ y.id = NoId /\ y.msgs = <<>>
        /\ y.upd = 0 /\ y.todo = old /\ y.then = "idle"
    BY <1>2 DEF Fields
  <2>2. IsJob(y) /\ y.at \notin Holding
    BY <1>3, <2>1 DEF IsJob, Named, Idle, Finding, Holding
  <2>3. Set(c, y)
    BY <1>5 DEF MigrateAll, Give
  <2> QED BY <1>1, <2>2, <2>3, BeginStep
<1>6. ASSUME NEW op \in Ops, ByLast(c, op)
      PROVE  StoreInv'
  <2> PICK y : y = [NoJob EXCEPT !.at = "last", !.op = op]
    OBVIOUS
  <2>1. /\ Fields(y) /\ y.at = "last" /\ y.op = op /\ y.id = NoId /\ y.msgs = <<>>
        /\ y.upd = 0 /\ y.todo = {} /\ y.then = "idle"
    BY <1>2 DEF Fields
  <2>2. IsJob(y) /\ y.at \notin Holding
    BY <1>3, <2>1 DEF IsJob, Named, Idle, Finding, Holding, Continuing
  <2>3. Set(c, y)
    BY <1>6 DEF ByLast, Give
  <2> QED BY <1>1, <2>2, <2>3, BeginStep
<1>7. ASSUME NEW op \in Ops, NEW i \in Ids, ById(c, op, i)
      PROVE  StoreInv'
  <2> PICK at : at = Begun(op)
    OBVIOUS
  <2>1. at \in {"open", "remove", "salvage", "migrate"} /\ (op = "recover" => at = "salvage")
    BY DEF Begun, Ops
  <2> PICK y : y = [NoJob EXCEPT !.at = at, !.op = op, !.id = i]
    OBVIOUS
  <2>2. /\ Fields(y) /\ y.at = at /\ y.op = op /\ y.id = i /\ y.msgs = <<>>
        /\ y.upd = 0 /\ y.todo = {} /\ y.then = "idle"
    BY <1>2 DEF Fields
  <2>3. IsJob(y) /\ y.at \notin Holding
    BY <1>3, <2>1, <2>2 DEF IsJob, Named, Finding, Holding, Continuing
  <2>4. Set(c, y)
    BY <1>7 DEF ById, Give
  <2> QED BY <1>1, <2>3, <2>4, BeginStep
<1> QED BY <1>4, <1>5, <1>6, <1>7 DEF Command, Ops

LEMMA StepKill ==
  ASSUME StoreInv, NEW c \in Clients, Kill(c)
  PROVE  StoreInv'
<1> PICK x : x = job[c]
  OBVIOUS
<1>1. Steady /\ kept' = kept /\ shared' = shared
  BY DEF Kill, StoreInv, Shapes, history, Steady
<1>2. CASE x.at = "fill"
  <2>1. IsJob(x) /\ x.id \in Ids /\ x.msgs \in Texts /\ x.upd \in Nat
    BY <1>2 DEF StoreInv, Shapes, IsJob, Named
  <2>2. PICK left \in {Torn(FALSE, <<>>, 0), Torn(TRUE, <<>>, 0), Torn(TRUE, <<>>, x.upd),
                       Torn(TRUE, x.msgs, x.upd)} :
          file' = [file EXCEPT ![x.id] = left]
    BY <1>2 DEF Kill
  <2>3. left \in Files /\ left.is = "torn" /\ left # Missing
    <3>1. <<>> \in Texts
      BY DEF Texts
    <3>2. Torn(FALSE, <<>>, 0) \in TornFiles
      BY <3>1 DEF Torn, TornFiles
    <3>3. \A m \in Texts, u \in Nat : Torn(TRUE, m, u) \in TornFiles
      BY DEF Torn, TornFiles
    <3>4. Torn(TRUE, <<>>, 0) \in TornFiles
      BY <3>1, <3>3
    <3>5. Torn(TRUE, <<>>, x.upd) \in TornFiles /\ Torn(TRUE, x.msgs, x.upd) \in TornFiles
      BY <2>1, <3>1, <3>3
    <3>6. left \in TornFiles
      BY <3>2, <3>4, <3>5
    <3> QED BY <3>6 DEF TornFiles, Files, Missing
  <2>4. kept' = [kept EXCEPT ![x.id] = kept[x.id]] /\ kept[x.id] \in Texts
    BY <1>1, <2>1 DEF StoreInv, Shapes
  <2>5. \A d \in Clients \ {c} : Holds(d, x.id) => x.id \in shared'
    BY <1>1, <1>2, <2>1 DEF StoreInv, HeldAlone, Holds
  <2>6. Agrees(left, kept[x.id])
    BY <2>3 DEF Agrees
  <2>7. Set(c, NoJob) /\ IsJob(NoJob) /\ NoJob.at \notin Holding
    BY NoJobIsJob DEF Kill, Done
  <2> QED BY <1>1, <2>1, <2>2, <2>3, <2>4, <2>5, <2>6, <2>7, FileStep DEF Steady
<1>3. CASE x.at # "fill"
  <2>1. file' = file /\ Done(c)
    BY <1>3 DEF Kill
  <2> QED BY <1>1, <2>1, DoneStep DEF Steady
<1> QED BY <1>2, <1>3

LEMMA StepStill ==
  ASSUME StoreInv, UNCHANGED <<file, kept, job, shared, pointer>>, clock' \in 0 .. MaxTime
  PROVE  StoreInv'
<1>1. \A c \in Clients : IsJob(job[c])'
  BY DEF StoreInv, Shapes, IsJob, Fields
<1>2. \A c \in Clients, i \in Ids : Holds(c, i)' <=> Holds(c, i)
  BY DEF Holds
<1>3. Shapes'
  BY <1>1 DEF StoreInv, Shapes
<1>4. HeldAlone' /\ GoesOn' /\ RecoversToNothing'
  BY <1>2 DEF StoreInv, HeldAlone, GoesOn, RecoversToNothing
<1>5. \A i \in Ids : Agrees(file[i], kept[i])'
  BY DEF StoreInv, Agrees
<1> QED BY <1>3, <1>4, <1>5 DEF StoreInv

LEMMA StoreInit == Init => StoreInv
<1> SUFFICES ASSUME Init PROVE StoreInv
  OBVIOUS
<1>1. OldOne \in Ids /\ 0 \in 0 .. MaxTime
  BY SessionsAssumption DEF OldOne, Ids
<1>2. <<>> \in Texts /\ Missing \in Files /\ Missing.is = "missing"
      /\ Whole(<<>>, 0, TRUE) \in Files /\ Whole(<<>>, 0, TRUE).is = "whole"
      /\ Whole(<<>>, 0, TRUE).msgs = <<>>
  BY DEF Texts, Files, Missing, Whole
<1>3. \A i \in Ids : /\ file[i] \in Files /\ kept[i] = <<>>
                     /\ file[i] = Missing \/ file[i] = Whole(<<>>, 0, TRUE)
  BY <1>2 DEF Init
<1>4. Shapes
  <2>1. \A c \in Clients : job[c] = NoJob
    BY DEF Init
  <2>2. job = [c \in Clients |-> job[c]]
    BY DEF Init
  <2>3. file \in [Ids -> Files] /\ kept \in [Ids -> Texts]
    BY <1>2, <1>3 DEF Init
  <2> QED BY <1>1, <2>1, <2>2, <2>3, NoJobIsJob DEF Init, Shapes
<1>5. \A i \in Ids : Agrees(file[i], kept[i])
  BY <1>2, <1>3 DEF Agrees
<1>6. \A c \in Clients, i \in Ids : ~Holds(c, i)
  BY DEF Init, Holds, NoJob
<1>7. \A c \in Clients : job[c].at # "truncate"
  BY DEF Init, NoJob
<1> QED BY <1>4, <1>5, <1>6, <1>7 DEF StoreInv, HeldAlone, GoesOn, RecoversToNothing

-----------------------------------------------------------------------------
(* What is said of the store follows, for the processes on their own and   *)
(* for those beside an editor's server.                                    *)

\* In every step, what is saved goes on from what was saved last.
LEMMA SaveGoesOn ==
  ASSUME StoreInv, NEW c \in Clients, job[c].at = "fill", job[c].id \notin shared
  PROVE  IsPrefix(kept[job[c].id], job[c].msgs)
<1>1. job[c].id \in Ids
  BY DEF StoreInv, Shapes, IsJob, Named
<1>2. Holds(c, job[c].id)
  BY DEF Holds
<1> QED BY <1>1, <1>2 DEF StoreInv, GoesOn

\* Any number of processes, with whatever commands, on one store.
THEOREM StoreStaysInOrder == Spec => []StoreInv
<1>1. StoreInv /\ [Next]_vars => StoreInv'
  <2> SUFFICES ASSUME StoreInv, [Next]_vars PROVE StoreInv'
    OBVIOUS
  <2>1. ASSUME NEW c \in Clients, Work(c) \/ Command(c) \/ Kill(c)
        PROVE  StoreInv'
    BY <2>1, StepWork, StepCommand, StepKill
  <2>2. CASE Tick
    <3>1. clock \in 0 .. MaxTime /\ clock < MaxTime /\ clock' = clock + 1
      BY <2>2 DEF Tick, StoreInv, Shapes
    <3>2. clock' \in 0 .. MaxTime
      BY <3>1, SessionsAssumption
    <3> QED BY <2>2, <3>2, StepStill DEF Tick, history
  <2>3. CASE UNCHANGED vars
    BY <2>3, StepStill DEF vars, store, history, StoreInv, Shapes
  <2> QED BY <2>1, <2>2, <2>3 DEF Next
<1> QED BY <1>1, StoreInit, PTL DEF Spec

\* What an agent or a migration saves goes on from what was saved before.
THEOREM NothingIsForgotten == Spec => NothingForgotten
<1>1. StoreInv => [\A c \in Clients :
                     job[c].at = "fill" /\ job'[c].at = "point" /\ job[c].id \notin shared
                       => IsPrefix(kept[job[c].id], job[c].msgs)]_vars
  BY SaveGoesOn
<1> QED BY <1>1, StoreStaysInOrder, PTL DEF NothingForgotten

\* Recovery writes over no session that is there.
THEOREM RecoverySpares == Spec => RecoveryOverwritesNothing
<1>1. StoreInv => [\A c \in Clients :
                     job[c].at = "truncate" /\ job[c].op = "recover" /\ job'[c].at = "fill"
                       => file[job[c].id] = Missing \/ job[c].id \in shared]_vars
  BY DEF StoreInv, RecoversToNothing
<1> QED BY <1>1, StoreStaysInOrder, PTL DEF RecoveryOverwritesNothing

-----------------------------------------------------------------------------
(* The editor's server.                                                    *)

\* The server saves session i and has not finished; it is about to begin.
Fills(i) == job[Server].at = "fill" /\ job[Server].id = i
Begins(i) == job[Server].at = "truncate" /\ job[Server].id = i

\* A session that only the server touched is torn while the server saves it, and
\* no longer; one it made, or one that is asked for, is there.
Own(i) == /\ file[i].is = "torn" <=> Fills(i)
          /\ i \in promised \/ serving.id = i => file[i] # Missing \/ Begins(i)
OwnFiles == \A i \in Ids \ hurt : Own(i)

\* The steps of the server belong to the line at hand.
ServerAt == {"idle", "truncate", "fill", "point", "persisted", "open", "refuse", "running",
             "remove", "unpoint", "unlink"}
Removing == {"remove", "unpoint", "unlink"}
OneLine ==
  /\ job[Server].at \in ServerAt
  /\ job[Server].at # "idle" => serving.method \in {"persisted", "prompted", "refused", "removed"}
                                  /\ job[Server].id = serving.id
  /\ job[Server].at = "idle" => job[Server] = NoJob
  /\ job[Server].then \in {"idle", "running", "persisted", "open", "refuse"}
  /\ job[Server].at \in Removing <=> job[Server].op = "remove"

\* A line names a session, but for one that asks for a new one.
Asks ==
  /\ serving = Request(serving.method, serving.id)
  /\ serving.id \in Ids \cup {NoId}
  /\ serving.method \in {"load", "close", "remove"} => serving.id \in Ids
  /\ serving.method = "new" => serving.id = NoId

\* What fails did so for a session that another process changed, or a kill.
Serves ==
  /\ up => OwnFiles /\ OneLine
  /\ up /\ failed => serving.id \in hurt
  /\ answer.method = "prompted" /\ ~answer.ok => answer.id \in hurt

AcpInv ==
  /\ StoreInv
  /\ Asks
  /\ promised \subseteq Ids /\ hurt \subseteq Ids
  /\ Serves

LEMMA SetGives ==
  ASSUME StoreInv, NEW c \in Clients, NEW y, Set(c, y)
  PROVE  job'[c] = y /\ \A d \in Clients \ {c} : job'[d] = job[d]
BY DEF Set, StoreInv, Shapes

\* A process that is not the server leaves the server's job alone.
LEMMA OtherJobs ==
  ASSUME StoreInv, NEW c \in Clients \ {Server}, Work(c) \/ Command(c) \/ Kill(c)
  PROVE  job'[Server] = job[Server]
<1>1. \E y : Set(c, y)
  <2>1. \A z : Set(c, z) => \E y : Set(c, y)
    OBVIOUS
  <2>2. ASSUME Work(c) PROVE \E y : Set(c, y)
    <3>1. CASE Truncate(c) \/ Fill(c) \/ Point(c) \/ Open(c) \/ SaveRound(c) \/ EndRun(c)
      BY <2>1, <3>1 DEF Truncate, Fill, Point, Open, SaveRound, EndRun, Go, Done
    <3>2. CASE ReadPointer(c) \/ Scan(c)
      BY <2>1, <3>2 DEF ReadPointer, Scan, Go, Done
    <3>3. CASE LoadPointed(c) \/ LoadFound(c)
      <4>1. job[c].at = "pointed" => job[c].id \in Ids
        BY DEF StoreInv, Shapes, IsJob, Named
      <4>2. job[c].id \in Ids => file[job[c].id].is \in {"whole", "missing", "torn"}
        BY DEF StoreInv, Shapes, Files, Missing, TornFiles
      <4>3. \A at : Go(c, at) => \E y : Set(c, y)
        BY DEF Go
      <4>4. Done(c) => \E y : Set(c, y)
        BY DEF Done
      <4>5. CASE LoadPointed(c)
        BY <4>1, <4>2, <4>3, <4>4, <4>5 DEF LoadPointed
      <4>6. CASE LoadFound(c)
        BY <4>3, <4>4, <4>6 DEF LoadFound
      <4> QED BY <3>3, <4>5, <4>6
    <3>4. CASE RemoveFile(c) \/ Unpoint(c) \/ Unlink(c) \/ Salvage(c) \/ Name(c)
      BY <2>1, <3>4 DEF RemoveFile, Unpoint, Unlink, Salvage, Name, Go, Done
    <3>5. CASE MigrateOne(c) \/ MigrateNext(c)
      BY <2>1, <3>5 DEF MigrateOne, MigrateNext, Go, Done
    <3> QED BY <2>2, <3>1, <3>2, <3>3, <3>4, <3>5 DEF Work
  <2>3. ASSUME Command(c) PROVE \E y : Set(c, y)
    BY <2>1, <2>3 DEF Command, Ask, MigrateAll, ByLast, ById, Give
  <2>4. ASSUME Kill(c) PROVE \E y : Set(c, y)
    BY <2>1, <2>4 DEF Kill, Done
  <2> QED BY <2>2, <2>3, <2>4
<1> QED BY <1>1, SetGives, ServerAssumption

-----------------------------------------------------------------------------
(* What the server's lines do to the store.                                *)

LEMMA PersistIsJob ==
  ASSUME clock \in 0 .. MaxTime, NEW t \in {"persisted", "open", "refuse"},
         NEW y, y = PersistEmpty(t)
  PROVE  /\ IsJob(y) /\ y.at = "truncate" /\ y.id = NewId /\ y.op = "none" /\ y.then = t
         /\ NewId \in Ids
<1>1. \E u : /\ Fields(u) /\ u.op = "none" /\ u.id = NewId /\ u.msgs = <<>> /\ u.upd = clock
             /\ u.todo = {} /\ y = Saving(u, t)
  <2> PICK u : u = [NoJob EXCEPT !.id = NewId, !.upd = clock]
    OBVIOUS
  <2>1. /\ Fields(u) /\ u.op = "none" /\ u.id = NewId /\ u.msgs = <<>> /\ u.upd = clock
        /\ u.todo = {}
    BY DEF NoJob, Fields
  <2>2. y = Saving(u, t)
    BY DEF PersistEmpty
  <2> QED BY <2>1, <2>2
<1>2. PICK u : /\ Fields(u) /\ u.op = "none" /\ u.id = NewId /\ u.msgs = <<>> /\ u.upd = clock
               /\ u.todo = {} /\ y = Saving(u, t)
  BY <1>1
<1>3. NewId \in Ids /\ <<>> \in Texts /\ clock \in Nat
  BY SessionsAssumption DEF NewId, Ids, Texts
<1> QED BY <1>2, <1>3, SavingIsJob

\* The server's other jobs begin at one stage, with the session that is asked for.
Fresh(y, at, i) ==
  y \in {[NoJob EXCEPT !.at = at, !.id = i], [NoJob EXCEPT !.at = at, !.op = "remove", !.id = i]}

LEMMA BeginsIsJob ==
  ASSUME NEW i \in Ids, NEW at \in {"open", "refuse", "remove"}, NEW y, Fresh(y, at, i)
  PROVE  IsJob(y) /\ y.at = at /\ y.id = i /\ y.at \notin Holding /\ y.then = "idle"
<1>1. /\ Fields(y) /\ y.at = at /\ y.op \in {"none", "remove"} /\ y.id = i /\ y.msgs = <<>>
      /\ y.upd = 0 /\ y.todo = {} /\ y.then = "idle"
  BY DEF NoJob, Fields, Fresh
<1>2. <<>> \in Texts
  BY DEF Texts
<1> QED BY <1>1, <1>2 DEF IsJob, Named, Idle, Finding, Holding

LEMMA StepStart ==
  ASSUME StoreInv, Asks, HandleNew \/ HandleRemove \/ HandlePrompt
  PROVE  StoreInv'
<1>1. UNCHANGED <<file, kept>> /\ Steady
  BY DEF HandleNew, HandleRemove, HandlePrompt, Start, StoreInv, Shapes, store, Steady
<1>2. ASSUME NEW t \in {"persisted", "open", "refuse"}, Start(PersistEmpty(t))
      PROVE  StoreInv'
  <2> PICK y : y = PersistEmpty(t)
    OBVIOUS
  <2>1. IsJob(y) /\ y.at = "truncate" /\ y.id = NewId /\ y.op = "none" /\ NewId \in Ids
    BY PersistIsJob DEF StoreInv, Shapes
  <2>2. Set(Server, y) /\ shared' = shared \cup Taken(Server, NewId)
    BY <1>2, <2>1 DEF Start
  <2> QED BY <1>1, <2>1, <2>2, NewStep, ServerAssumption
<1>3. ASSUME NEW i \in Ids, NEW at \in {"open", "refuse", "remove"}, NEW y, Start(y), Fresh(y, at, i)
      PROVE  StoreInv'
  <2>1. IsJob(y) /\ y.at \notin Holding
    BY <1>3, BeginsIsJob
  <2>2. Set(Server, y)
    BY <1>3 DEF Start
  <2> QED BY <1>1, <2>1, <2>2, BeginStep, ServerAssumption
<1>4. CASE HandleNew
  BY <1>2, <1>4 DEF HandleNew
<1>5. CASE HandleRemove
  <2>1. serving.id \in Ids
    BY <1>5 DEF HandleRemove, At, Asks
  <2>2. Start([NoJob EXCEPT !.at = "remove", !.op = "remove", !.id = serving.id])
    BY <1>5 DEF HandleRemove
  <2> PICK y : y = [NoJob EXCEPT !.at = "remove", !.op = "remove", !.id = serving.id]
    OBVIOUS
  <2>3. Fresh(y, "remove", serving.id) /\ Start(y)
    BY <2>2 DEF Fresh
  <2> QED BY <1>3, <2>1, <2>3
<1>6. CASE HandlePrompt
  <2>1. PICK at \in {"open", "refuse"} :
          Start(IF serving.id = NoId THEN PersistEmpty(at)
                ELSE [NoJob EXCEPT !.at = at, !.id = serving.id])
    BY <1>6 DEF HandlePrompt
  <2>2. CASE serving.id = NoId
    BY <1>2, <2>1, <2>2
  <2>3. CASE serving.id # NoId
    <3> PICK y : y = [NoJob EXCEPT !.at = at, !.id = serving.id]
      OBVIOUS
    <3>1. serving.id \in Ids /\ Start(y) /\ Fresh(y, at, serving.id)
      BY <2>1, <2>3 DEF Asks, Fresh
    <3> QED BY <1>3, <3>1
  <2> QED BY <2>2, <2>3
<1> QED BY <1>4, <1>5, <1>6

LEMMA StoreKept ==
  ASSUME StoreInv, Asks, [AcpNext]_acpVars
  PROVE  StoreInv'
<1>1. CASE UNCHANGED vars
  BY <1>1, StepStill DEF vars, store, history, StoreInv, Shapes
<1>2. CASE HandleNew \/ HandleRemove \/ HandlePrompt
  BY <1>2, StepStart
<1>3. CASE AnswerNew \/ AnswerRefused
  <2>1. Done(Server) /\ UNCHANGED <<file, kept>> /\ Steady
    BY <1>3 DEF AnswerNew, AnswerRefused, store, history, StoreInv, Shapes, Steady
  <2> QED BY <2>1, DoneStep, ServerAssumption DEF Steady
<1>4. CASE Serve \/ Crash
  BY <1>4, StepWork, StepKill, ServerAssumption DEF Serve, Crash
<1>5. CASE Others
  <2>1. CASE Tick
    <3>1. clock \in 0 .. MaxTime /\ clock < MaxTime /\ clock' = clock + 1
      BY <2>1 DEF Tick, StoreInv, Shapes
    <3>2. clock' \in 0 .. MaxTime
      BY <3>1, SessionsAssumption
    <3> QED BY <2>1, <3>2, StepStill DEF Tick, history
  <2>2. CASE ~Tick
    BY <1>5, <2>2, StepWork, StepCommand, StepKill DEF Others
  <2> QED BY <2>1, <2>2
<1>6. CASE Read \/ AnswerLoad \/ AnswerClose \/ AnswerDone
  BY <1>1, <1>6 DEF Read, AnswerLoad, AnswerClose, AnswerDone
<1>7. CASE UNCHANGED acpVars
  BY <1>1, <1>7 DEF acpVars
<1> QED BY <1>2, <1>3, <1>4, <1>5, <1>6, <1>7 DEF AcpNext

LEMMA StageIs ==
  ASSUME Asks, NEW m, NEW i, Stage(m, i)
  PROVE  serving' = Request(m, i) /\ serving'.method = m /\ serving'.id = i
BY DEF Asks, Stage, Request

LEMMA AsksKept ==
  ASSUME StoreInv, Asks, promised \subseteq Ids, [AcpNext]_acpVars
  PROVE  Asks'
<1>1. NewId \in Ids
  BY SessionsAssumption DEF NewId, Ids, StoreInv, Shapes
<1>2. CASE Read
  <2>1. PICK m \in Methods : \E i \in Ids \cup {NoId} :
          /\ m = "new" => i = NoId
          /\ m \in {"load", "close", "remove"} => i # NoId
          /\ serving' = Request(m, i)
    BY <1>2 DEF Read
  <2>2. PICK i \in Ids \cup {NoId} :
          /\ m = "new" => i = NoId
          /\ m \in {"load", "close", "remove"} => i # NoId
          /\ serving' = Request(m, i)
    BY <2>1
  <2>3. serving'.method = m /\ serving'.id = i
    BY <2>2 DEF Request
  <2> QED BY <2>2, <2>3 DEF Asks, Request
<1>3. ASSUME serving' = serving
      PROVE  Asks'
  BY <1>3 DEF Asks, Request
<1>4. ASSUME serving' = Nothing
      PROVE  Asks'
  BY <1>4 DEF Asks, Nothing, Request
<1>5. ASSUME NEW m \in {"persisted", "removed", "prompted", "refused"}, NEW i \in Ids, Stage(m, i)
      PROVE  Asks'
  BY <1>5, StageIs DEF Asks, Request
<1>6. CASE HandleNew
  BY <1>1, <1>5, <1>6 DEF HandleNew
<1>7. CASE HandleRemove
  BY <1>5, <1>7 DEF HandleRemove, Asks, At
<1>8. CASE HandlePrompt
  <2>1. PICK m \in {"prompted", "refused"} :
          Stage(m, IF serving.id = NoId THEN NewId ELSE serving.id)
    BY <1>8 DEF HandlePrompt
  <2> PICK i \in Ids : i = IF serving.id = NoId THEN NewId ELSE serving.id
    BY <1>1 DEF Asks
  <2> QED BY <1>5, <2>1
<1> QED BY <1>2, <1>3, <1>4, <1>6, <1>7, <1>8
        DEF AcpNext, acpVars, acp, AnswerLoad, AnswerClose, AnswerNew, AnswerRefused, AnswerDone,
            Reply, Serve, Crash, Others

-----------------------------------------------------------------------------
(* What the server's lines do to its sessions.                             *)

LEMMA WatchKeeps ==
  ASSUME Asks, Asks', promised \subseteq Ids, hurt \subseteq Ids, Watch
  PROVE  /\ promised' \subseteq Ids /\ promised' \subseteq promised \cup {serving'.id}
         /\ serving.id # NoId \/ serving'.id = NoId => promised' = promised
         /\ hurt \subseteq hurt' /\ hurt' \subseteq Ids
         /\ file' = file => hurt' = hurt
BY DEF Watch, Asks

\* The server answers, and has nothing at hand.
LEMMA Answering ==
  ASSUME AcpInv, up, Asks', Watch, serving' = Nothing, failed' = FALSE, UNCHANGED <<file, up>>,
         job[Server].at \in {"idle", "persisted", "refuse"}, job'[Server] = NoJob,
         answer'.method = "prompted" /\ ~answer'.ok => answer'.id \in hurt
  PROVE  Serves'
<1>1. hurt' = hurt /\ promised' = promised /\ serving'.id = NoId
  BY WatchKeeps DEF AcpInv, Nothing, Request
<1>2. NoJob.at = "idle" /\ NoJob.then = "idle" /\ NoJob.op = "none"
  BY DEF NoJob
<1>3. OwnFiles'
  <2> SUFFICES ASSUME NEW i \in Ids \ hurt PROVE Own(i)'
    BY <1>1 DEF OwnFiles
  <2>1. Own(i)
    BY DEF AcpInv, Serves, OwnFiles
  <2> QED BY <1>1, <1>2, <2>1, SessionsAssumption DEF Own, Fills, Begins
<1>4. OneLine'
  BY <1>2 DEF OneLine, ServerAt, Removing
<1> QED BY <1>1, <1>3, <1>4 DEF Serves

LEMMA StepRead ==
  ASSUME AcpInv, Asks', Read, Watch
  PROVE  Serves'
<1>1. /\ up /\ serving.method = "plain" /\ serving.id = NoId /\ UNCHANGED <<file, job, failed, answer, up>>
      /\ \E i \in {k \in Ids : file[k] # Missing \/ k \in promised} \cup {NoId} : serving'.id = i
  BY DEF Read, Nothing, Request, vars, store
<1>2. promised' = promised /\ hurt' = hurt
  BY <1>1 DEF Read, Watch, AcpInv
<1>3. OwnFiles /\ OneLine /\ job[Server] = NoJob
  BY <1>1 DEF AcpInv, Serves, OneLine
<1>4. ~failed
  BY <1>1, SessionsAssumption DEF AcpInv, Serves
<1>5. NoJob.at = "idle"
  BY DEF NoJob
<1>6. OwnFiles'
  <2> SUFFICES ASSUME NEW i \in Ids \ hurt PROVE Own(i)'
    BY <1>2 DEF OwnFiles
  <2>1. Own(i)
    BY <1>3 DEF OwnFiles
  <2> QED BY <1>1, <1>2, <1>3, <1>5, <2>1, SessionsAssumption DEF Own, Fills, Begins
<1>7. OneLine'
  BY <1>1, <1>3, <1>5 DEF OneLine
<1> QED BY <1>1, <1>2, <1>4, <1>6, <1>7 DEF Serves, AcpInv

LEMMA StepAnswers ==
  ASSUME AcpInv, Asks', Watch, AnswerLoad \/ AnswerClose \/ AnswerNew \/ AnswerRefused \/ AnswerDone
  PROVE  Serves'
<1>1. up /\ file' = file
  BY DEF AnswerLoad, AnswerClose, AnswerNew, AnswerRefused, AnswerDone, At, vars, store
<1>2. CASE up' = FALSE
  <2>1. answer' = answer
    BY <1>1, <1>2 DEF AnswerLoad, AnswerClose, AnswerNew, AnswerRefused, AnswerDone
  <2>2. hurt \subseteq hurt'
    BY WatchKeeps DEF AcpInv
  <2> QED BY <1>2, <2>1, <2>2 DEF Serves, AcpInv
<1>3. CASE up' # FALSE
  <2>1. serving' = Nothing /\ failed' = FALSE /\ up' = up
    BY <1>1, <1>3 DEF AnswerLoad, AnswerClose, AnswerNew, AnswerRefused, AnswerDone, Reply
  <2>2. job[Server].at \in {"idle", "persisted", "refuse"} /\ job'[Server] = NoJob
    <3>1. CASE AnswerLoad \/ AnswerClose \/ AnswerDone
      <4>1. job' = job /\ job[Server] = NoJob
        BY <3>1 DEF AnswerLoad, AnswerClose, AnswerDone, At, vars
      <4> QED BY <4>1 DEF NoJob
    <3>2. CASE AnswerNew \/ AnswerRefused
      <4>1. Done(Server) /\ job[Server].at \in {"persisted", "refuse"}
        BY <3>2 DEF AnswerNew, AnswerRefused
      <4> QED BY <4>1, SetGives, ServerAssumption DEF Done, AcpInv
    <3> QED BY <3>1, <3>2
  <2>3. answer'.method = "prompted" /\ ~answer'.ok => answer'.id \in hurt
    <3>1. CASE AnswerLoad
      BY <3>1 DEF AnswerLoad, At, Reply, Answer
    <3>2. CASE AnswerClose
      <4>1. serving.method = "close" /\ answer' = Answer(serving.method, serving.id, TRUE)
        BY <1>3, <3>2 DEF AnswerClose, At, Reply
      <4>2. answer'.method = serving.method
        BY <4>1 DEF Answer
      <4> QED BY <4>1, <4>2
    <3>3. CASE AnswerNew \/ AnswerRefused
      BY <3>3 DEF AnswerNew, AnswerRefused, Reply, Answer
    <3>4. CASE AnswerDone
      <4>1. answer' = Answer(serving.method, serving.id, ~failed)
        BY <3>4 DEF AnswerDone, Reply
      <4>2. answer'.id = serving.id /\ (answer'.ok = ~failed)
        BY <4>1 DEF Answer
      <4>3. ~answer'.ok => failed
        BY <4>2
      <4> QED BY <1>1, <4>2, <4>3 DEF AcpInv, Serves
    <3> QED BY <3>1, <3>2, <3>3, <3>4
  <2> QED BY <1>1, <2>1, <2>2, <2>3, Answering
<1> QED BY <1>2, <1>3

\* The server begins a job for the line at hand.
LEMMA Starting ==
  ASSUME AcpInv, up, Asks', Watch, UNCHANGED <<file, failed, answer, up>>, job[Server] = NoJob,
         NEW y, job'[Server] = y, y.at \in {"truncate", "open", "refuse", "remove"},
         y.then \in {"idle", "persisted", "open", "refuse"}, y.at = "remove" <=> y.op = "remove",
         y.id = serving'.id, y.id \in Ids,
         serving'.method \in {"persisted", "prompted", "refused", "removed"},
         IF serving.id = NoId THEN y.at = "truncate" ELSE serving'.id = serving.id
  PROVE  Serves'
<1>1. hurt' = hurt /\ promised' \subseteq promised \cup {y.id}
      /\ (serving.id # NoId => promised' = promised)
  BY WatchKeeps DEF AcpInv
<1>2. NoJob.at = "idle"
  BY DEF NoJob
<1>3. OwnFiles'
  <2> SUFFICES ASSUME NEW i \in Ids \ hurt PROVE Own(i)'
    BY <1>1 DEF OwnFiles
  <2>1. Own(i)
    BY DEF AcpInv, Serves, OwnFiles
  <2>2. file[i].is # "torn" /\ (i \in promised \/ serving.id = i => file[i] # Missing)
    BY <1>2, <2>1 DEF Own, Fills, Begins
  <2>3. (file[i].is = "torn" <=> Fills(i))'
    BY <2>2 DEF Fills
  <2>4. ASSUME i \in promised' \/ serving'.id = i
        PROVE  file'[i] # Missing \/ Begins(i)'
    BY <1>1, <2>2, <2>4 DEF Begins
  <2> QED BY <2>3, <2>4 DEF Own
<1>4. OneLine'
  BY DEF OneLine, ServerAt, Removing
<1>5. failed => serving.id \in hurt /\ serving.id # NoId
  BY SessionsAssumption DEF AcpInv, Serves
<1> QED BY <1>1, <1>3, <1>4, <1>5 DEF Serves, AcpInv

LEMMA StepHandles ==
  ASSUME AcpInv, Asks', Watch, HandleNew \/ HandleRemove \/ HandlePrompt
  PROVE  Serves'
<1>1. /\ up /\ job[Server] = NoJob /\ UNCHANGED <<file, failed, answer, up>>
      /\ StoreInv /\ Asks /\ clock \in 0 .. MaxTime
  BY DEF HandleNew, HandleRemove, HandlePrompt, At, Start, store, AcpInv, StoreInv, Shapes
<1>2. \A y : Start(y) => job'[Server] = y
  BY <1>1, SetGives, ServerAssumption DEF Start
<1>3. ASSUME NEW t \in {"persisted", "open", "refuse"}, Start(PersistEmpty(t)), serving.id = NoId,
             NEW m \in {"persisted", "prompted", "refused"}, Stage(m, NewId)
      PROVE  Serves'
  <2> PICK y : y = PersistEmpty(t)
    OBVIOUS
  <2>1. IsJob(y) /\ y.at = "truncate" /\ y.id = NewId /\ y.op = "none" /\ y.then = t /\ NewId \in Ids
    BY <1>1, PersistIsJob
  <2>2. job'[Server] = y /\ serving'.method = m /\ serving'.id = NewId
    BY <1>1, <1>2, <1>3, StageIs
  <2> QED BY <1>1, <1>3, <2>1, <2>2, Starting
<1>4. ASSUME NEW i \in Ids, NEW at \in {"open", "refuse", "remove"}, NEW y, Start(y),
             Fresh(y, at, i), at = "remove" <=> y.op = "remove", serving.id = i,
             NEW m \in {"removed", "prompted", "refused"}, Stage(m, i)
      PROVE  Serves'
  <2>1. y.at = at /\ y.id = i /\ y.then = "idle"
    BY <1>4, BeginsIsJob
  <2>2. job'[Server] = y /\ serving'.method = m /\ serving'.id = i
    BY <1>1, <1>2, <1>4, StageIs
  <2>3. serving.id # NoId
    BY <1>4, SessionsAssumption
  <2> QED BY <1>1, <1>4, <2>1, <2>2, <2>3, Starting
<1>5. CASE HandleNew
  <2>1. serving.id = NoId
    BY <1>1, <1>5 DEF HandleNew, At, Asks
  <2> QED BY <1>3, <1>5, <2>1 DEF HandleNew
<1>6. CASE HandleRemove
  <2>1. serving.id \in Ids /\ Stage("removed", serving.id)
    BY <1>1, <1>6 DEF HandleRemove, At, Asks
  <2> PICK y : y = [NoJob EXCEPT !.at = "remove", !.op = "remove", !.id = serving.id]
    OBVIOUS
  <2>2. Fresh(y, "remove", serving.id) /\ Start(y)
    BY <1>6 DEF Fresh, HandleRemove
  <2>3. y.op = "remove"
    BY DEF NoJob
  <2> QED BY <1>4, <2>1, <2>2, <2>3
<1>7. CASE HandlePrompt
  <2>1. PICK at \in {"open", "refuse"} :
          /\ Start(IF serving.id = NoId THEN PersistEmpty(at)
                   ELSE [NoJob EXCEPT !.at = at, !.id = serving.id])
          /\ Stage(IF at = "open" THEN "prompted" ELSE "refused",
                   IF serving.id = NoId THEN NewId ELSE serving.id)
    BY <1>7 DEF HandlePrompt
  <2> PICK m \in {"prompted", "refused"} : m = IF at = "open" THEN "prompted" ELSE "refused"
    OBVIOUS
  <2>2. CASE serving.id = NoId
    <3>1. Start(PersistEmpty(at)) /\ Stage(m, NewId)
      BY <2>1, <2>2
    <3> QED BY <1>3, <2>2, <3>1
  <2>3. CASE serving.id # NoId
    <3> PICK y : y = [NoJob EXCEPT !.at = at, !.id = serving.id]
      OBVIOUS
    <3>1. Start(y) /\ Stage(m, serving.id) /\ serving.id \in Ids
      BY <1>1, <2>1, <2>3 DEF Asks
    <3>2. Fresh(y, at, serving.id)
      BY DEF Fresh
    <3>3. y.op = "none"
      BY DEF NoJob
    <3> QED BY <1>4, <3>1, <3>2, <3>3
  <2> QED BY <2>2, <2>3
<1> QED BY <1>5, <1>6, <1>7

\* A step of the server's job: what becomes of the job, and of the files.
LEMMA Serving ==
  ASSUME AcpInv, up, Asks', Watch, UNCHANGED <<serving, answer, up>>, job[Server].at # "idle",
         NEW y, job'[Server] = y, y.at \in ServerAt,
         y.at # "idle" => y.id = job[Server].id, y.at = "idle" => y = NoJob,
         y.then \in {"idle", "running", "persisted", "open", "refuse"},
         y.at \in Removing <=> y.op = "remove",
         \A i \in Ids \ hurt' :
           /\ file'[i].is = "torn" <=> y.at = "fill" /\ y.id = i
           /\ i \in promised \/ serving.id = i =>
                file'[i] # Missing \/ (y.at = "truncate" /\ y.id = i),
         failed' => serving.id \in hurt
  PROVE  Serves'
<1>1. hurt \subseteq hurt' /\ promised' = promised
  BY WatchKeeps DEF AcpInv
<1>2. OwnFiles'
  BY <1>1 DEF OwnFiles, Own, Fills, Begins
<1>3. OneLine'
  BY DEF OneLine, AcpInv, Serves
<1> QED BY <1>1, <1>2, <1>3 DEF Serves, AcpInv

\* What the server works on is the session of the line at hand.
LEMMA AtWork ==
  ASSUME AcpInv, up, job[Server].at # "idle"
  PROVE  /\ IsJob(job[Server]) /\ job[Server].at \in ServerAt
         /\ job[Server].id = serving.id
         /\ job[Server].then \in {"idle", "running", "persisted", "open", "refuse"}
         /\ job[Server].at \in Removing <=> job[Server].op = "remove"
         /\ \A i \in Ids \ hurt : Own(i)
         /\ failed => serving.id \in hurt
BY ServerAssumption DEF AcpInv, Serves, OwnFiles, StoreInv, Shapes, OneLine

\* A step that only takes the job to another stage.
LEMMA ServingOn ==
  ASSUME AcpInv, up, Asks', Watch, UNCHANGED <<serving, answer, up, file>>,
         job[Server].at \notin {"idle", "fill", "truncate"},
         NEW y, job'[Server] = y, y.at \in ServerAt \ {"fill"},
         y.at # "idle" => y.id = job[Server].id, y.at = "idle" => y = NoJob,
         y.then \in {"idle", "running", "persisted", "open", "refuse"},
         y.at \in Removing <=> y.op = "remove",
         failed' => serving.id \in hurt
  PROVE  Serves'
<1>1. \A i \in Ids \ hurt' : Own(i) /\ ~Fills(i) /\ ~Begins(i)
  <2>1. hurt \subseteq hurt'
    BY WatchKeeps DEF AcpInv
  <2> QED BY <2>1, AtWork DEF Fills, Begins
<1>2. \A i \in Ids \ hurt' :
        /\ file'[i].is = "torn" <=> y.at = "fill" /\ y.id = i
        /\ i \in promised \/ serving.id = i =>
             file'[i] # Missing \/ (y.at = "truncate" /\ y.id = i)
  BY <1>1 DEF Own
<1> QED BY <1>2, Serving

LEMMA StepServeSave ==
  ASSUME AcpInv, up, Asks', Watch, UNCHANGED <<serving, answer, up>>,
         failed' => serving.id \in hurt, Truncate(Server) \/ Fill(Server)
  PROVE  Serves'
<1> PICK x : x = job[Server]
  OBVIOUS
<1> PICK at \in {"fill", "point"} : at = IF x.at = "truncate" THEN "fill" ELSE "point"
  OBVIOUS
<1>1. /\ x.at \in {"truncate", "fill"} /\ Go(Server, at) /\ StoreInv /\ Server \in Clients
      /\ kept' = kept \/ kept' = [kept EXCEPT ![x.id] = x.msgs]
  BY ServerAssumption DEF Truncate, Fill, AcpInv, history
<1>2. /\ IsJob(x) /\ x.id \in Ids /\ x.id = serving.id
      /\ x.then \in {"idle", "running", "persisted", "open", "refuse"}
      /\ x.op # "remove" /\ \A i \in Ids \ hurt : Own(i)
  <2>1. x.at # "idle" /\ x.at \notin Removing /\ x.at \in Named
    BY <1>1 DEF Removing, Named
  <2> QED BY <2>1, AtWork DEF IsJob
<1> PICK y : y = Turned(x, at)
  OBVIOUS
<1>3. /\ job'[Server] = y /\ y.at = at /\ y.id = x.id /\ y.op = x.op /\ y.then = x.then
  <2>1. Set(Server, y)
    BY <1>1, GoTurns
  <2>2. y.at = at /\ y.id = x.id /\ y.op = x.op /\ y.then = x.then
    BY DEF Turned
  <2> QED BY <1>1, <2>1, <2>2, SetGives
<1>4. \A i \in Ids \ {x.id} : file'[i] = file[i]
  BY DEF Truncate, Fill, AcpInv, StoreInv, Shapes
<1>5. file \in [Ids -> Files]
  BY <1>1 DEF StoreInv, Shapes
<1>6. x.id \notin hurt => file'[x.id].is = IF at = "fill" THEN "torn" ELSE "whole"
  <2>1. CASE Truncate(Server)
    <3>1. at = "fill" /\ file' = [file EXCEPT ![x.id] = Torn(FALSE, <<>>, 0)]
      BY <2>1 DEF Truncate
    <3>2. file'[x.id] = Torn(FALSE, <<>>, 0)
      BY <1>2, <1>5, <3>1
    <3> QED BY <3>1, <3>2 DEF Torn
  <2>2. CASE Fill(Server)
    <3>1. at = "point" /\ x.at = "fill"
      BY <2>2 DEF Fill
    <3>2. x.id \notin hurt => file[x.id].is = "torn"
      BY <1>2, <3>1 DEF Own, Fills
    <3>3. x.id \notin hurt => file' = [file EXCEPT ![x.id] = Whole(x.msgs, x.upd, FALSE)]
      BY <2>2, <3>2 DEF Fill
    <3>4. x.id \notin hurt => file'[x.id] = Whole(x.msgs, x.upd, FALSE)
      BY <1>2, <1>5, <3>3
    <3> QED BY <3>1, <3>4 DEF Whole
  <2> QED BY <2>1, <2>2
<1>7. hurt \subseteq hurt'
  BY WatchKeeps DEF AcpInv
<1>8. \A i \in Ids \ hurt' :
        /\ file'[i].is = "torn" <=> y.at = "fill" /\ y.id = i
        /\ i \in promised \/ serving.id = i =>
             file'[i] # Missing \/ (y.at = "truncate" /\ y.id = i)
  <2> SUFFICES ASSUME NEW i \in Ids \ hurt'
               PROVE  /\ file'[i].is = "torn" <=> y.at = "fill" /\ y.id = i
                      /\ i \in promised \/ serving.id = i => file'[i] # Missing
    OBVIOUS
  <2>1. Own(i) /\ i \notin hurt
    BY <1>2, <1>7
  <2>2. CASE i = x.id
    BY <1>3, <1>6, <2>1, <2>2 DEF Missing
  <2>3. CASE i # x.id
    BY <1>3, <1>4, <2>1, <2>3 DEF Own, Fills, Begins
  <2> QED BY <2>2, <2>3
<1>9. y.at \in ServerAt /\ y.at # "idle" /\ (y.at \in Removing <=> y.op = "remove")
  BY <1>2, <1>3 DEF ServerAt, Removing
<1>10. x.at # "idle"
  BY <1>1
<1> QED BY <1>2, <1>3, <1>8, <1>9, <1>10, Serving

LEMMA StepServeRest ==
  ASSUME AcpInv, up, Asks', Watch, UNCHANGED <<serving, answer, up>>,
         failed' = (failed \/ (job[Server].at = "open" /\ job'[Server] = NoJob)),
         \/ Point(Server) \/ Open(Server) \/ SaveRound(Server) \/ EndRun(Server)
         \/ RemoveFile(Server) \/ Unpoint(Server) \/ Unlink(Server)
  PROVE  Serves'
<1> PICK x : x = job[Server]
  OBVIOUS
<1> PICK y : y = job'[Server]
  OBVIOUS
<1>1. /\ x.at \in {"point", "open", "running", "remove", "unpoint", "unlink"}
      /\ StoreInv /\ Server \in Clients
  BY ServerAssumption DEF Point, Open, SaveRound, EndRun, RemoveFile, Unpoint, Unlink, AcpInv
<1>2. /\ IsJob(x) /\ Fields(x) /\ x.id \in Ids /\ x.id = serving.id
      /\ x.then \in {"idle", "running", "persisted", "open", "refuse"}
      /\ x.at \in Removing <=> x.op = "remove"
      /\ \A i \in Ids \ hurt : Own(i)
      /\ failed => serving.id \in hurt
  <2>1. x.at # "idle" /\ x.at \in Named
    BY <1>1 DEF Named
  <2> QED BY <2>1, AtWork DEF IsJob
<1>3. \A j : Set(Server, j) => y = j
  BY <1>1, SetGives
<1>4. NoJob.at = "idle" /\ NoJob.then = "idle" /\ NoJob.op = "none"
  BY DEF NoJob
<1>5. \A at : Turned(x, at).at = at /\ Turned(x, at).id = x.id /\ Turned(x, at).op = x.op
              /\ Turned(x, at).then = x.then
  BY DEF Turned
<1>6. \A at : Go(Server, at) => y = Turned(x, at)
  BY <1>1, <1>3, GoTurns
<1>7. Done(Server) => y = NoJob
  BY <1>3 DEF Done
<1>8. x.at # "open" => (failed' => serving.id \in hurt)
  BY <1>2
<1>9. ASSUME file' = file, y.at \in ServerAt \ {"fill"},
             y.at # "idle" => y.id = x.id, y.at = "idle" => y = NoJob,
             y.then \in {"idle", "running", "persisted", "open", "refuse"},
             y.at \in Removing <=> y.op = "remove",
             failed' => serving.id \in hurt
      PROVE  Serves'
  BY <1>1, <1>9, ServingOn
<1>10. ASSUME file' = file, y = NoJob, failed' => serving.id \in hurt
       PROVE  Serves'
  BY <1>4, <1>9, <1>10 DEF ServerAt, Removing
<1>11. ASSUME file' = file, failed' => serving.id \in hurt, NEW at, y = Turned(x, at),
              at \in ServerAt \ {"fill", "idle"}, at \in Removing <=> x.at \in Removing
       PROVE  Serves'
  BY <1>2, <1>5, <1>9, <1>11
<1>12. CASE Point(Server)
  <2>1. file' = file /\ x.at = "point" /\ (y = NoJob \/ (x.then # "idle" /\ y = Turned(x, x.then)))
    BY <1>6, <1>7, <1>12 DEF Point
  <2>2. x.then # "idle" => /\ x.then \in ServerAt \ {"fill", "idle"}
                           /\ x.then \in Removing <=> x.at \in Removing
    BY <1>2, <2>1 DEF ServerAt, Removing
  <2> QED BY <1>8, <1>10, <1>11, <2>1, <2>2
<1>13. CASE Open(Server)
  <2>1. file' = file /\ x.at = "open"
    BY <1>13 DEF Open, store
  <2>2. CASE file[x.id].is = "whole"
    <3> PICK m : m = Seeded(Server, file[x.id].msgs)
      OBVIOUS
    <3>1. y = [x EXCEPT !.at = "running", !.msgs = m]
      BY <1>3, <1>13, <2>2 DEF Open
    <3>2. y.at = "running" /\ y.id = x.id /\ y.op = x.op /\ y.then = x.then
      BY <1>2, <3>1 DEF Fields
    <3>3. y # NoJob
      BY <1>4, <3>2
    <3>4. x.op # "remove"
      BY <1>2, <2>1 DEF Removing
    <3> QED BY <1>2, <1>9, <2>1, <3>2, <3>3, <3>4 DEF ServerAt, Removing
  <2>3. CASE file[x.id].is # "whole"
    <3>1. y = NoJob
      BY <1>7, <1>13, <2>3 DEF Open
    <3>2. x.id \notin hurt => Own(x.id) /\ ~Fills(x.id) /\ ~Begins(x.id)
      BY <1>2, <2>1 DEF Fills, Begins
    <3>3. x.id \notin hurt => file[x.id].is # "torn" /\ file[x.id] # Missing
      BY <1>2, <3>2 DEF Own
    <3>4. x.id \in hurt
      BY <1>1, <1>2, <2>3, <3>3 DEF StoreInv, Shapes, Files, TornFiles
    <3> QED BY <1>2, <1>10, <2>1, <3>1, <3>4
  <2> QED BY <2>2, <2>3
<1>14. CASE SaveRound(Server) \/ EndRun(Server)
  <2>1. file' = file /\ x.at = "running"
    BY <1>14 DEF SaveRound, EndRun, store
  <2>2. PICK u : \E t \in {"idle", "running"} :
          Fields(u) /\ u.op = x.op /\ u.id = x.id /\ y = Saving(u, t)
    BY <1>1, <1>3, <1>14, RoundSaves
  <2>3. /\ y.at = "truncate" /\ y.id = x.id /\ y.op = x.op /\ y.then \in {"idle", "running"}
    BY <2>2 DEF Saving, Fields
  <2>4. x.op # "remove"
    BY <1>2, <2>1 DEF Removing
  <2> QED BY <1>8, <1>9, <2>1, <2>3, <2>4 DEF ServerAt, Removing
<1>15. CASE Unpoint(Server) \/ Unlink(Server)
  <2>1. file' = file /\ x.at \in {"unpoint", "unlink"} /\ (y = NoJob \/ y = Turned(x, "unlink"))
    BY <1>6, <1>7, <1>15 DEF Unpoint, Unlink, store
  <2> QED BY <1>8, <1>10, <1>11, <2>1 DEF ServerAt, Removing
<1>16. CASE RemoveFile(Server)
  <2>1. x.at = "remove" /\ x.op = "remove"
    BY <1>2, <1>16 DEF RemoveFile, Removing
  <2>2. CASE file[x.id] = Missing
    BY <1>7, <1>8, <1>10, <1>16, <2>1, <2>2 DEF RemoveFile
  <2>3. CASE file[x.id] # Missing
    <3>1. y.at = "unpoint" /\ y.id = x.id /\ y.op = x.op /\ y.then = x.then
      BY <1>5, <1>6, <1>16, <2>3 DEF RemoveFile
    <3>2. \A i \in Ids \ hurt' : i \notin hurt /\ file'[i] = file[i]
      BY <2>1 DEF Watch
    <3>3. \A i \in Ids \ hurt' :
            /\ file'[i].is = "torn" <=> y.at = "fill" /\ y.id = i
            /\ i \in promised \/ serving.id = i =>
                 file'[i] # Missing \/ (y.at = "truncate" /\ y.id = i)
      BY <1>2, <2>1, <3>1, <3>2 DEF Own, Fills, Begins
    <3>4. y.at \in ServerAt /\ y.at # "idle" /\ (y.at \in Removing <=> y.op = "remove")
      BY <2>1, <3>1 DEF ServerAt, Removing
    <3>5. x.at # "idle" /\ (failed' => serving.id \in hurt)
      BY <1>8, <2>1
    <3> QED BY <1>2, <3>1, <3>3, <3>4, <3>5, Serving
  <2> QED BY <2>2, <2>3
<1> QED BY <1>12, <1>13, <1>14, <1>15, <1>16

LEMMA StepServe ==
  ASSUME AcpInv, Asks', Serve, Watch
  PROVE  Serves'
<1> PICK x : x = job[Server]
  OBVIOUS
<1>1. /\ up /\ Work(Server) /\ UNCHANGED <<serving, answer, up>>
      /\ failed' = (failed \/ (x.at = "open" /\ job'[Server] = NoJob))
  BY DEF Serve
<1>2. x.at \in ServerAt
  BY <1>1 DEF AcpInv, Serves, OneLine
<1>3. CASE Truncate(Server) \/ Fill(Server)
  <2>1. x.at # "open" /\ (failed => serving.id \in hurt)
    BY <1>1, <1>3 DEF Truncate, Fill, AcpInv, Serves
  <2> QED BY <1>1, <1>3, <2>1, StepServeSave
<1>4. CASE \/ Point(Server) \/ Open(Server) \/ SaveRound(Server) \/ EndRun(Server)
           \/ RemoveFile(Server) \/ Unpoint(Server) \/ Unlink(Server)
  BY <1>1, <1>4, StepServeRest
<1>5. ~ \/ ReadPointer(Server) \/ LoadPointed(Server) \/ Scan(Server) \/ LoadFound(Server)
        \/ Salvage(Server) \/ Name(Server) \/ MigrateOne(Server) \/ MigrateNext(Server)
  BY <1>2 DEF ServerAt, ReadPointer, LoadPointed, Scan, LoadFound, Salvage, Name, MigrateOne,
              MigrateNext
<1> QED BY <1>1, <1>3, <1>4, <1>5 DEF Work

\* Another process, or the clock: the server's job goes on where it was.
LEMMA StepOthers ==
  ASSUME AcpInv, Asks', Others, Watch
  PROVE  Serves'
<1>1. StoreInv /\ UNCHANGED <<serving, failed, answer, up>>
  BY DEF Others, acp, AcpInv
<1>2. job'[Server] = job[Server]
  BY <1>1, OtherJobs DEF Others, Tick
<1>3. hurt \subseteq hurt' /\ promised' = promised
  BY <1>1, WatchKeeps DEF AcpInv
<1>4. \A i \in Ids \ hurt' : i \notin hurt /\ file'[i] = file[i]
  BY <1>2 DEF Watch
<1>5. OwnFiles => OwnFiles'
  <2> SUFFICES ASSUME OwnFiles, NEW i \in Ids \ hurt' PROVE Own(i)'
    BY DEF OwnFiles
  <2>1. Own(i)
    BY <1>4 DEF OwnFiles
  <2> QED BY <1>1, <1>2, <1>3, <1>4, <2>1 DEF Own, Fills, Begins
<1>6. OneLine => OneLine'
  BY <1>1, <1>2 DEF OneLine
<1> QED BY <1>1, <1>3, <1>5, <1>6 DEF AcpInv, Serves

LEMMA AcpKept == AcpInv /\ [AcpNext]_acpVars => AcpInv'
<1> SUFFICES ASSUME AcpInv, [AcpNext]_acpVars PROVE AcpInv'
  OBVIOUS
<1>1. StoreInv' /\ Asks'
  BY StoreKept, AsksKept DEF AcpInv
<1>2. CASE UNCHANGED acpVars
  <2>1. UNCHANGED <<file, job, serving, failed, answer, up, promised, hurt>>
    BY <1>2 DEF acpVars, vars, store, acp
  <2>2. OwnFiles' <=> OwnFiles
    BY <2>1 DEF OwnFiles, Own, Fills, Begins
  <2>3. OneLine' <=> OneLine
    BY <2>1 DEF OneLine
  <2> QED BY <1>1, <2>1, <2>2, <2>3 DEF AcpInv, Serves
<1>3. CASE AcpNext
  <2>1. Watch
    BY <1>3 DEF AcpNext
  <2>2. promised' \subseteq Ids /\ hurt \subseteq hurt' /\ hurt' \subseteq Ids
    BY <1>1, <2>1, WatchKeeps DEF AcpInv
  <2>3. CASE Crash
    <3>1. up' = FALSE /\ UNCHANGED answer
      BY <2>3 DEF Crash
    <3> QED BY <1>1, <2>2, <3>1 DEF AcpInv, Serves
  <2>4. CASE ~Crash
    <3>1. Serves'
      BY <1>1, <1>3, <2>1, <2>4, StepRead, StepAnswers, StepHandles, StepServe, StepOthers
         DEF AcpNext
    <3> QED BY <1>1, <2>2, <3>1 DEF AcpInv
  <2> QED BY <2>3, <2>4
<1> QED BY <1>2, <1>3

LEMMA AcpStarts == AcpInit => AcpInv
<1> SUFFICES ASSUME AcpInit PROVE AcpInv
  OBVIOUS
<1>1. /\ StoreInv /\ serving = Nothing /\ failed = FALSE /\ answer.method = "plain"
      /\ promised = {} /\ hurt = {}
  BY StoreInit DEF AcpInit, Answer
<1>2. serving.method = "plain" /\ serving.id = NoId /\ Nothing = Request("plain", NoId)
  BY <1>1 DEF Nothing, Request
<1>3. Asks
  BY <1>1, <1>2 DEF Asks
<1>4. job[Server] = NoJob
  BY ServerAssumption DEF AcpInit, Init
<1>5. NoJob.at = "idle" /\ NoJob.then = "idle" /\ NoJob.op = "none"
  BY DEF NoJob
<1>6. OwnFiles
  <2> SUFFICES ASSUME NEW i \in Ids PROVE Own(i)
    BY DEF OwnFiles
  <2>1. file[i].is # "torn"
    BY DEF AcpInit, Init, Whole, Missing
  <2> QED BY <1>1, <1>2, <1>4, <1>5, <2>1, SessionsAssumption DEF Own, Fills, Begins
<1>7. OneLine
  BY <1>4, <1>5 DEF OneLine, ServerAt, Removing
<1> QED BY <1>1, <1>3, <1>6, <1>7 DEF AcpInv, Serves

\* Beside the command line and whatever else uses the store.
THEOREM ServerStaysInOrder == AcpSpec => []AcpInv
BY AcpStarts, AcpKept, PTL DEF AcpSpec

\* A session the server made can be prompted, unless another process got at it.
THEOREM PromptsFindTheirSessions == AcpSpec => []PromptFindsSession
<1>1. AcpInv => PromptFindsSession
  BY DEF AcpInv, Serves, PromptFindsSession
<1> QED BY <1>1, ServerStaysInOrder, PTL

\* Nor does the server make the store forget.
THEOREM NothingIsForgottenByServer == AcpSpec => NothingForgotten
<1>1. AcpInv => [\A c \in Clients :
                   job[c].at = "fill" /\ job'[c].at = "point" /\ job[c].id \notin shared
                     => IsPrefix(kept[job[c].id], job[c].msgs)]_vars
  BY SaveGoesOn DEF AcpInv
<1> QED BY <1>1, ServerStaysInOrder, PTL DEF NothingForgotten
-----------------------------------------------------------------------------
(* The tools of other servers: whose answer a call gets, and where a       *)
(* published name leads.                                                   *)

\* Servers number their own requests apart from ours, which are 1 to 3; one that
\* is called by http sends nothing before its answer, and none answers a round twice.
CivilServers ==
  ServerIds \cap 0 .. 3 = {} /\ "stream" \notin Noises /\ "repeated round" \notin Noises

CallsAreNumbers == Calls \subseteq Nat

AskKinds == {"roots", "sampling", "elicitation", "unknown"}
Requests == [id : 1 .. 3, round : Nat, attempt : Nat, responses : SUBSET AskKinds]
Kinds == {"error", "initialized", "versionless", "tools", "done", "unsupported", "notification",
          "request"}
Deliveries == [id : 0 .. 3 \cup ServerIds, kind : Kinds, asks : SUBSET AskKinds,
               of : Requests \cup {M!NoRequest}]

WorkerFields(w) ==
  w = [at |-> w.at, srv |-> w.srv, want |-> w.want, tool |-> w.tool, fits |-> w.fits, id |-> w.id,
       attempt |-> w.attempt, rounds |-> w.rounds, responses |-> w.responses,
       skipped |-> w.skipped]
IsWorker(w) ==
  /\ WorkerFields(w)
  /\ w.at \in {"none", "opening", "awaiting", "ended"}
  /\ w.rounds \in Nat /\ w.attempt \in Nat /\ w.responses \subseteq AskKinds
  /\ w.at = "awaiting" => w.id \in 1 .. 3

LinkFields(l) == l = [open |-> l.open, up |-> l.up, down |-> l.down, last |-> l.last,
                      noise |-> l.noise]
IsLink(l) ==
  /\ LinkFields(l)
  /\ l.up \in Requests \cup {M!NoRequest} /\ l.last \in Requests \cup {M!NoRequest}
  /\ l.down \in Seq(Deliveries)

\* The request that a worker waits for an answer to.
Asked(w) == [id |-> w.id, round |-> w.rounds, attempt |-> w.attempt, responses |-> w.responses]

\* By stdio what has the id of the request is its only answer, on its way only when
\* the request is not, and no id is one that is still to come.
OneAnswer(w, l) ==
  /\ \A k \in 1 .. Len(l.down) : l.down[k].id \in 1 .. 3 => l.down[k].id <= w.id
  /\ \A k \in 1 .. Len(l.down) : l.down[k].id = w.id => l.up = M!NoRequest /\ l.down[k].of = l.last
  /\ \A j, k \in 1 .. Len(l.down) : l.down[j].id = w.id /\ l.down[k].id = w.id => j = k

\* By http there is the request, or its answer, or neither.
OneBody(l) ==
  /\ l.up # M!NoRequest => l.down = <<>>
  /\ Len(l.down) <= 1
  /\ \A k \in 1 .. Len(l.down) : l.down[k].of = l.last

\* A worker, its connection by transport tr, and what the agent was told of the call.
Talk(w, l, o, tr) ==
  /\ l.open => w.at = "awaiting"
  /\ w.at = "awaiting" => /\ l.last = Asked(w) /\ l.up \in {M!NoRequest, l.last}
                          /\ tr = "stdio" => OneAnswer(w, l)
                          /\ tr = "http" => OneBody(l)
  /\ o.kind = "ok" => w.at = "ended" /\ o.of = l.last /\ o.of.id > 1

TalkInv ==
  /\ worker = [c \in Calls |-> worker[c]] /\ link = [c \in Calls |-> link[c]]
  /\ told = [c \in Calls |-> told[c]]
  /\ \A c \in Calls : IsWorker(worker[c]) /\ IsLink(link[c]) /\ Talk(worker[c], link[c], told[c], M!Transport(c))

LEMMA ChangeOne ==
  ASSUME TalkInv, NEW c \in Calls, NEW w, NEW l, NEW o, IsWorker(w), IsLink(l),
         Talk(w, l, o, servers[w.srv].transport), UNCHANGED servers,
         worker' = [worker EXCEPT ![c] = w], link' = [link EXCEPT ![c] = l],
         told' = [told EXCEPT ![c] = o]
  PROVE  TalkInv'
<1> DEFINE ws == [d \in Calls |-> IF d = c THEN w ELSE worker[d]]
           ls == [d \in Calls |-> IF d = c THEN l ELSE link[d]]
           os == [d \in Calls |-> IF d = c THEN o ELSE told[d]]
<1>1. worker' = ws /\ link' = ls /\ told' = os
  BY DEF TalkInv
<1>2. \A d \in Calls : /\ worker'[d] = IF d = c THEN w ELSE worker[d]
                       /\ link'[d] = IF d = c THEN l ELSE link[d]
                       /\ told'[d] = IF d = c THEN o ELSE told[d]
  BY <1>1
<1>3. /\ worker' = [d \in Calls |-> worker'[d]] /\ link' = [d \in Calls |-> link'[d]]
      /\ told' = [d \in Calls |-> told'[d]]
  BY <1>1
<1> HIDE DEF ws, ls, os
<1>4. \A d \in Calls : IsWorker(worker'[d]) /\ IsLink(link'[d])
                       /\ Talk(worker'[d], link'[d], told'[d], servers[worker'[d].srv].transport)
  BY <1>2 DEF TalkInv, M!Transport
<1>5. \A d \in Calls : /\ IsWorker(worker[d])' /\ IsLink(link[d])'
                       /\ Talk(worker[d], link[d], told[d], M!Transport(d))'
  <2> SUFFICES ASSUME NEW d \in Calls
               PROVE  /\ IsWorker(worker[d])' /\ IsLink(link[d])'
                      /\ Talk(worker[d], link[d], told[d], M!Transport(d))'
    OBVIOUS
  <2>1. IsWorker(worker[d])'
    BY <1>4 DEF IsWorker, WorkerFields
  <2>2. IsLink(link[d])'
    BY <1>4 DEF IsLink, LinkFields, M!NoRequest
  <2>3. Talk(worker[d], link[d], told[d], M!Transport(d))'
    BY <1>4 DEF Talk, OneAnswer, OneBody, Asked, M!Transport, M!NoRequest
  <2> QED BY <2>1, <2>2, <2>3
<1> QED BY <1>3, <1>5 DEF TalkInv

LEMMA SameTold ==
  ASSUME TalkInv, NEW c \in Calls
  PROVE  told = [told EXCEPT ![c] = told[c]] /\ worker = [worker EXCEPT ![c] = worker[c]]
         /\ link = [link EXCEPT ![c] = link[c]]
BY DEF TalkInv

\* A request, when nothing that is on its way back can be taken for its answer.
LEMMA SendStep ==
  ASSUME TalkInv, NEW c \in Calls, NEW w, NEW l, M!Send(c, w, l), UNCHANGED servers,
         WorkerFields(w), w.id \in 1 .. 3, w.rounds \in Nat, w.attempt \in Nat,
         w.responses \subseteq AskKinds, w.srv = worker[c].srv,
         LinkFields(l), l.down \in Seq(Deliveries),
         worker[c].at # "ended",
         M!Transport(c) = "stdio" => \A k \in 1 .. Len(l.down) : l.down[k].id \in 1 .. 3 => l.down[k].id < w.id,
         M!Transport(c) = "http" => l.down = <<>>
  PROVE  TalkInv'
<1> PICK r : r = [id |-> w.id, round |-> w.rounds, attempt |-> w.attempt, responses |-> w.responses]
  OBVIOUS
<1> PICK x : x = [w EXCEPT !.at = "awaiting", !.skipped = 0]
  OBVIOUS
<1> PICK m : m = [l EXCEPT !.up = r, !.last = r, !.open = @ \/ M!Transport(c) = "http"]
  OBVIOUS
<1>1. /\ WorkerFields(x) /\ x.at = "awaiting" /\ x.srv = w.srv /\ x.id = w.id
      /\ x.rounds = w.rounds /\ x.attempt = w.attempt /\ x.responses = w.responses
  BY DEF WorkerFields
<1>2. LinkFields(m) /\ m.up = r /\ m.last = r /\ m.down = l.down
  BY DEF LinkFields
<1>3. r = Asked(x) /\ r \in Requests
  BY <1>1 DEF Asked, Requests
<1>4. IsWorker(x)
  BY <1>1 DEF IsWorker
<1>5. IsLink(m)
  BY <1>2, <1>3 DEF IsLink
<1>6. told[c].kind # "ok"
  BY DEF TalkInv, Talk
<1>7. M!Transport(c) = servers[x.srv].transport
  BY <1>1 DEF M!Transport
<1>8. servers[x.srv].transport = "stdio" => OneAnswer(x, m)
  <2> SUFFICES ASSUME servers[x.srv].transport = "stdio" PROVE OneAnswer(x, m)
    OBVIOUS
  <2>1. \A k \in 1 .. Len(m.down) : m.down[k].id \in 1 .. 3 => m.down[k].id < x.id
    BY <1>1, <1>2, <1>7
  <2>2. \A k \in 1 .. Len(m.down) : m.down[k].id # x.id
    BY <1>1, <2>1
  <2> QED BY <1>1, <2>1, <2>2 DEF OneAnswer
<1>9. servers[x.srv].transport = "http" => OneBody(m)
  BY <1>2, <1>7 DEF OneBody
<1>10. Talk(x, m, told[c], servers[x.srv].transport)
  BY <1>1, <1>2, <1>3, <1>6, <1>8, <1>9 DEF Talk
<1>11. worker' = [worker EXCEPT ![c] = x] /\ link' = [link EXCEPT ![c] = m]
      /\ told' = [told EXCEPT ![c] = told[c]]
  BY SameTold DEF M!Send
<1> QED BY <1>4, <1>5, <1>10, <1>11, ChangeOne

\* The end of a worker, with a true answer if it is one.
LEMMA FinishStep ==
  ASSUME TalkInv, NEW c \in Calls, NEW o, M!Finish(c, o), UNCHANGED servers,
         worker[c].at # "ended",
         o.kind = "ok" => o.of = link[c].last /\ o.of.id > 1
  PROVE  TalkInv'
<1> PICK w, l : w = worker[c] /\ l = link[c]
  OBVIOUS
<1> PICK x : x = [w EXCEPT !.at = "ended"]
  OBVIOUS
<1> PICK m : m = [l EXCEPT !.open = FALSE, !.up = M!NoRequest, !.down = <<>>]
  OBVIOUS
<1> PICK a : a = IF M!Waits(c) THEN o ELSE told[c]
  OBVIOUS
<1>1. IsWorker(w) /\ IsLink(l) /\ told[c].kind # "ok"
  BY DEF TalkInv, Talk
<1>2. WorkerFields(x) /\ x.at = "ended" /\ x.rounds = w.rounds /\ x.attempt = w.attempt
      /\ x.responses = w.responses
  BY <1>1 DEF IsWorker, WorkerFields
<1>3. LinkFields(m) /\ ~m.open /\ m.up = M!NoRequest /\ m.down = <<>> /\ m.last = l.last
  BY <1>1 DEF IsLink, LinkFields
<1>4. IsWorker(x) /\ IsLink(m)
  BY <1>1, <1>2, <1>3 DEF IsWorker, IsLink
<1>5. Talk(x, m, a, servers[x.srv].transport)
  BY <1>1, <1>2, <1>3 DEF Talk
<1>6. worker' = [worker EXCEPT ![c] = x]
  BY DEF M!Finish, TalkInv
<1>7. link' = [link EXCEPT ![c] = m]
  BY DEF M!Finish, TalkInv
<1>8. told' = [told EXCEPT ![c] = a]
  BY SameTold DEF M!Finish
<1> QED BY <1>4, <1>5, <1>6, <1>7, <1>8, ChangeOne

LEMMA HeadAndTail ==
  ASSUME NEW s \in Seq(Deliveries), s # <<>>
  PROVE  /\ Head(s) = s[1] /\ 1 \in 1 .. Len(s) /\ Tail(s) \in Seq(Deliveries)
         /\ Len(Tail(s)) = Len(s) - 1
         /\ \A k \in 1 .. Len(Tail(s)) : k + 1 \in 1 .. Len(s) /\ Tail(s)[k] = s[k + 1]
OBVIOUS

LEMMA DropHead ==
  ASSUME NEW l, LinkFields(l), NEW m, m = [l EXCEPT !.down = Tail(@)]
  PROVE  LinkFields(m) /\ m.down = Tail(l.down) /\ m.open = l.open /\ m.up = l.up /\ m.last = l.last
BY DEF LinkFields

\* After the answer to a request has been read, the next request may be sent.
LEMMA AskNext ==
  ASSUME TalkInv, NEW c \in Calls, worker[c].at = "awaiting", UNCHANGED servers,
         M!Transport(c) \in {"stdio", "http"}, link[c].down # <<>>,
         M!Transport(c) = "stdio" => link[c].down[1].id = worker[c].id,
         NEW w, WorkerFields(w), w.id \in worker[c].id .. 3, w.rounds \in Nat, w.attempt \in Nat,
         w.responses \subseteq AskKinds, w.srv = worker[c].srv,
         NEW m, LinkFields(m), m.down = Tail(link[c].down), M!Send(c, w, m)
  PROVE  TalkInv'
<1> PICK l : l = link[c]
  OBVIOUS
<1>1. /\ IsLink(l) /\ LinkFields(l) /\ l.down \in Seq(Deliveries) /\ worker[c].id \in 1 .. 3
      /\ M!Transport(c) = "stdio" => OneAnswer(worker[c], l)
      /\ M!Transport(c) = "http" => OneBody(l)
  BY DEF TalkInv, IsLink, IsWorker, Talk
<1>2. m.down = Tail(l.down) /\ m.down \in Seq(Deliveries)
  BY <1>1, HeadAndTail
<1>3. M!Transport(c) = "stdio" =>
        \A k \in 1 .. Len(m.down) : m.down[k].id \in 1 .. 3 => m.down[k].id < w.id
  <2> SUFFICES ASSUME M!Transport(c) = "stdio", NEW k \in 1 .. Len(m.down), m.down[k].id \in 1 .. 3
               PROVE  m.down[k].id < w.id
    OBVIOUS
  <2>1. k + 1 \in 1 .. Len(l.down) /\ m.down[k] = l.down[k + 1] /\ 1 \in 1 .. Len(l.down) /\ k + 1 # 1
    BY <1>1, <1>2, HeadAndTail
  <2>2. m.down[k].id <= worker[c].id
    BY <1>1, <2>1 DEF OneAnswer
  <2>3. m.down[k].id # worker[c].id
    BY <1>1, <2>1 DEF OneAnswer
  <2> QED BY <1>1, <2>2, <2>3
<1>4. M!Transport(c) = "http" => m.down = <<>>
  <2> PICK s : s = l.down
    OBVIOUS
  <2>5. s \in Seq(Deliveries) /\ s # <<>>
    BY <1>1
  <2>6. Len(Tail(s)) = Len(s) - 1 /\ Len(s) # 0
    <3>1. Len(Tail(s)) = Len(s) - 1
      BY <2>5, HeadAndTail
    <3>2. Len(s) # 0
      BY <2>5, EmptySeq
    <3> QED BY <3>1, <3>2
  <2>1. Len(m.down) = Len(l.down) - 1 /\ Len(l.down) # 0
    BY <1>2, <2>6
  <2>2. Len(l.down) \in Nat
    BY <1>1, LenProperties
  <2>3. M!Transport(c) = "http" => Len(l.down) <= 1
    BY <1>1 DEF OneBody
  <2>4. M!Transport(c) = "http" => Len(m.down) = 0
    <3> SUFFICES ASSUME M!Transport(c) = "http"
                 PROVE  Len(m.down) = 0
      OBVIOUS
    <3>1. \A n \in Nat : n # 0 /\ n <= 1 => n - 1 = 0
      OBVIOUS
    <3>2. Len(l.down) <= 1
      BY <2>3
    <3>3. Len(l.down) - 1 = 0
      BY <2>1, <2>2, <3>1, <3>2
    <3> QED BY <2>1, <3>3
  <2> QED BY <1>2, <2>4, EmptySeq
<1>5. w.id \in 1 .. 3
  BY <1>1
<1> QED BY <1>2, <1>3, <1>4, <1>5, SendStep

\* What is done with the answer to a request.
LEMMA TakeStep ==
  ASSUME TalkInv, NEW c \in Calls, worker[c].at = "awaiting", UNCHANGED servers,
         M!Transport(c) \in {"stdio", "http"}, link[c].down # <<>>,
         M!Transport(c) = "stdio" => link[c].down[1].id = worker[c].id,
         NEW m, m = link[c].down[1], m.of = link[c].last,
         M!Proceed(c, m) \/ M!Round(c, m)
  PROVE  TalkInv'
<1> PICK w : w = worker[c]
  OBVIOUS
<1>1. /\ IsWorker(w) /\ WorkerFields(w) /\ w.id \in 1 .. 3 /\ link[c].last = Asked(w)
      /\ w.rounds \in Nat /\ w.responses \subseteq AskKinds
  BY DEF TalkInv, IsWorker, Talk
<1>2. ASSUME M!Finish(c, M!Failed)
      PROVE  TalkInv'
  <2>1. M!Failed.kind # "ok"
    BY DEF M!Failed, M!Nothing
  <2> QED BY <1>2, <2>1, FinishStep
<1>3. ASSUME M!Finish(c, M!Answered(m)), w.id > 1
      PROVE  TalkInv'
  <2>1. M!Answered(m).of = link[c].last /\ M!Answered(m).of.id > 1
    BY <1>1, <1>3 DEF M!Answered, Asked
  <2> QED BY <1>3, <2>1, FinishStep
<1>4. ASSUME NEW i \in w.id .. 3, NEW x, NEW l, M!Send(c, x, l), LinkFields(l),
             l.down = Tail(link[c].down), WorkerFields(x), x.id = i, x.rounds \in Nat, x.attempt = 1,
             x.responses \subseteq AskKinds, x.srv = w.srv
      PROVE  TalkInv'
  BY <1>1, <1>4, AskNext
<1>5. LinkFields([link[c] EXCEPT !.down = Tail(@)])
      /\ [link[c] EXCEPT !.down = Tail(@)].down = Tail(link[c].down)
  BY DropHead DEF TalkInv, IsLink
<1>6. ASSUME NEW i \in {2, 3}, w.id < i,
             M!Send(c, [w EXCEPT !.id = i, !.attempt = 1], [link[c] EXCEPT !.down = Tail(@)])
      PROVE  TalkInv'
  <2> PICK x, l : x = [w EXCEPT !.id = i, !.attempt = 1] /\ l = [link[c] EXCEPT !.down = Tail(@)]
    OBVIOUS
  <2>1. /\ WorkerFields(x) /\ x.id = i /\ x.rounds = w.rounds /\ x.attempt = 1
        /\ x.responses = w.responses /\ x.srv = w.srv
    BY <1>1 DEF WorkerFields
  <2>2. M!Send(c, x, l) /\ LinkFields(l) /\ l.down = Tail(link[c].down)
    BY <1>5, <1>6
  <2>3. i \in w.id .. 3
    BY <1>1, <1>6
  <2> QED BY <1>1, <1>4, <2>1, <2>2, <2>3
<1>7. CASE M!Proceed(c, m)
  <2>1. CASE M!Finish(c, M!Failed)
    BY <1>2, <2>1
  <2>2. CASE w.id = 2 /\ M!Finish(c, M!Answered(m))
    BY <1>3, <2>2
  <2> DEFINE next(i) == M!Send(c, [w EXCEPT !.id = i, !.attempt = 1],
                              [link[c] EXCEPT !.down = Tail(@)])
  <2>3. ASSUME w.id = 1, next(2)
        PROVE  TalkInv'
    BY <1>6, <2>3
  <2>4. ASSUME w.id \in {1, 2}, next(3)
        PROVE  TalkInv'
    BY <1>6, <2>4
  <2> HIDE DEF next
  <2>5. \/ M!Finish(c, M!Failed)
        \/ w.id = 2 /\ M!Finish(c, M!Answered(m))
        \/ w.id = 1 /\ (next(2) \/ next(3))
        \/ w.id = 2 /\ next(3)
    BY <1>7 DEF M!Proceed, next
  <2> QED BY <2>1, <2>2, <2>3, <2>4, <2>5
<1>8. CASE M!Round(c, m)
  <2>1. w.id = 3
    BY <1>8 DEF M!Round
  <2>2. CASE M!Finish(c, M!Answered(m))
    BY <1>3, <2>1, <2>2
  <2>3. CASE ~M!Finish(c, M!Answered(m))
    <3> PICK new : new = M!with_responses(w.responses, M!build_mrtr_responses(m.asks))
      OBVIOUS
    <3> PICK x, l : /\ x = [w EXCEPT !.rounds = @ + 1, !.attempt = 1, !.responses = new]
                    /\ l = [link[c] EXCEPT !.down = Tail(@)]
      OBVIOUS
    <3>1. M!Send(c, x, l) /\ LinkFields(l) /\ l.down = Tail(link[c].down)
      BY <1>5, <1>8, <2>3 DEF M!Round
    <3>2. new \subseteq AskKinds
      BY <1>1 DEF M!with_responses, M!build_mrtr_responses, AskKinds
    <3>3. /\ WorkerFields(x) /\ x.id = w.id /\ x.rounds = w.rounds + 1 /\ x.attempt = 1
          /\ x.responses = new /\ x.srv = w.srv
      BY <1>1 DEF WorkerFields
    <3>4. x.rounds \in Nat /\ 3 \in w.id .. 3
      BY <1>1, <2>1, <3>3
    <3> QED BY <1>4, <2>1, <3>1, <3>2, <3>3, <3>4
  <2> QED BY <2>2, <2>3
<1> QED BY <1>7, <1>8

LEMMA OpenStep ==
  ASSUME TalkInv, NEW c \in Calls, M!OpenLink(c)
  PROVE  TalkInv'
<1> PICK w, l : w = [worker[c] EXCEPT !.id = 1] /\ l = [M!Closed EXCEPT !.open = TRUE]
  OBVIOUS
<1>1. IsWorker(worker[c]) /\ WorkerFields(worker[c]) /\ worker[c].at = "opening"
  BY DEF TalkInv, IsWorker, M!OpenLink
<1>2. /\ WorkerFields(w) /\ w.id = 1 /\ w.rounds = worker[c].rounds
      /\ w.attempt = worker[c].attempt /\ w.responses = worker[c].responses
      /\ w.srv = worker[c].srv
  BY <1>1 DEF WorkerFields
<1>3. w.rounds \in Nat /\ w.attempt \in Nat /\ w.responses \subseteq AskKinds /\ w.id \in 1 .. 3
  BY <1>1, <1>2 DEF IsWorker
<1>4. LinkFields(l) /\ l.down = <<>>
  BY DEF LinkFields, M!Closed
<1>5. l.down \in Seq(Deliveries) /\ \A k \in 1 .. Len(l.down) : FALSE
  <2>1. <<>> \in Seq(Deliveries) /\ Len(<<>>) = 0
    OBVIOUS
  <2>2. l.down \in Seq(Deliveries) /\ Len(l.down) = 0
    BY <1>4, <2>1
  <2> QED BY <2>2
<1>6. UNCHANGED servers
  BY DEF M!OpenLink, M!agent
<1>7. CASE M!Send(c, w, l)
  BY <1>1, <1>2, <1>3, <1>4, <1>5, <1>6, <1>7, SendStep
<1>8. CASE M!Finish(c, M!Failed)
  <2>1. M!Failed.kind # "ok"
    BY DEF M!Failed, M!Nothing
  <2> QED BY <1>1, <1>6, <1>8, <2>1, FinishStep
<1> QED BY <1>7, <1>8 DEF M!OpenLink

LEMMA FailStep ==
  ASSUME TalkInv, NEW c \in Calls, M!Finish(c, M!Failed), UNCHANGED servers,
         worker[c].at = "awaiting"
  PROVE  TalkInv'
<1>1. M!Failed.kind # "ok"
  BY DEF M!Failed, M!Nothing
<1> QED BY <1>1, FinishStep

\* What is passed over is not the answer.
LEMMA SkipKeepsAnswer ==
  ASSUME NEW w, NEW l, NEW d, NEW x, OneAnswer(w, l), l.down \in Seq(Deliveries), l.down # <<>>,
         d.down = Tail(l.down), d.up = l.up, d.last = l.last, x.id = w.id
  PROVE  OneAnswer(x, d)
<1> PICK s, t : s = l.down /\ t = Tail(s) /\ t = d.down
  OBVIOUS
<1>1. s \in Seq(Deliveries) /\ s # <<>>
  OBVIOUS
<1>2. Len(t) = Len(s) - 1 /\ Len(s) \in Nat
  BY <1>1, HeadAndTail, LenProperties
<1>3. \A k \in 1 .. Len(t) : k + 1 \in 1 .. Len(s) /\ t[k] = s[k + 1]
  BY <1>1, HeadAndTail
<1>4. \A k \in 1 .. Len(t) : t[k].id \in 1 .. 3 => t[k].id <= x.id
  BY <1>3 DEF OneAnswer
<1>5. \A k \in 1 .. Len(t) : t[k].id = x.id => d.up = M!NoRequest /\ t[k].of = d.last
  BY <1>3 DEF OneAnswer
<1>6. ASSUME NEW j \in 1 .. Len(t), NEW k \in 1 .. Len(t), t[j].id = x.id, t[k].id = x.id
      PROVE  j = k
  <2>1. j + 1 = k + 1
    BY <1>3, <1>6 DEF OneAnswer
  <2> QED BY <2>1
<1> QED BY <1>4, <1>5, <1>6 DEF OneAnswer

LEMMA StdioStep ==
  ASSUME TalkInv, NEW c \in Calls, M!ReadStdio(c)
  PROVE  TalkInv'
<1>1. worker[c].at = "awaiting" /\ M!Transport(c) = "stdio" /\ UNCHANGED servers
  BY DEF M!ReadStdio, M!agent
<1>2. CASE M!Finish(c, M!Failed)
  BY <1>1, <1>2, FailStep
<1>3. CASE link[c].down # <<>> /\ ~M!Finish(c, M!Failed)
  <2> PICK m : m = Head(link[c].down)
    OBVIOUS
  <2>1. /\ IsWorker(worker[c]) /\ IsLink(link[c]) /\ link[c].down \in Seq(Deliveries)
        /\ OneAnswer(worker[c], link[c]) /\ Talk(worker[c], link[c], told[c], M!Transport(c))
    BY <1>1 DEF TalkInv, IsLink, Talk
  <2>2. m = link[c].down[1] /\ 1 \in 1 .. Len(link[c].down)
    BY <1>3, <2>1, HeadAndTail
  <2>3. CASE M!Ours(c, m) /\ (M!Proceed(c, m) \/ M!Round(c, m))
    <3>1. m.id = worker[c].id
      BY <2>3 DEF M!Ours
    <3>2. m.of = link[c].last
      BY <2>1, <2>2, <3>1 DEF OneAnswer
    <3> QED BY <1>1, <1>3, <2>2, <2>3, <3>1, <3>2, TakeStep
  <2>4. CASE /\ worker' = [worker EXCEPT ![c].skipped = @ + 1]
             /\ link' = [link EXCEPT ![c].down = Tail(@)]
             /\ UNCHANGED told
    <3> PICK w, l : w = worker[c] /\ l = link[c]
      OBVIOUS
    <3>1. \E x : /\ WorkerFields(x) /\ x.at = w.at /\ x.id = w.id /\ x.rounds = w.rounds
                 /\ x.srv = w.srv /\ x.attempt = w.attempt /\ x.responses = w.responses
                 /\ worker' = [worker EXCEPT ![c] = x]
      <4> PICK x : x = [w EXCEPT !.skipped = @ + 1]
        OBVIOUS
      <4>1. worker' = [worker EXCEPT ![c] = x]
        BY <2>4 DEF TalkInv
      <4>2. WorkerFields(w)
        BY <2>1 DEF IsWorker
      <4>3. /\ WorkerFields(x) /\ x.at = w.at /\ x.id = w.id /\ x.rounds = w.rounds /\ x.srv = w.srv
            /\ x.attempt = w.attempt /\ x.responses = w.responses
        BY <4>2 DEF WorkerFields
      <4> QED BY <4>1, <4>3
    <3>2. \E d : /\ LinkFields(d) /\ d.down = Tail(l.down) /\ d.open = l.open /\ d.up = l.up
                 /\ d.last = l.last /\ link' = [link EXCEPT ![c] = d]
      <4> PICK d : d = [l EXCEPT !.down = Tail(@)]
        OBVIOUS
      <4>1. link' = [link EXCEPT ![c] = d]
        BY <2>4 DEF TalkInv
      <4>2. LinkFields(l)
        BY <2>1 DEF IsLink
      <4>3. LinkFields(d) /\ d.down = Tail(l.down) /\ d.open = l.open /\ d.up = l.up /\ d.last = l.last
        BY <4>2, DropHead
      <4> QED BY <4>1, <4>3
    <3>3. PICK x : /\ WorkerFields(x) /\ x.at = w.at /\ x.id = w.id /\ x.rounds = w.rounds
                   /\ x.srv = w.srv /\ x.attempt = w.attempt /\ x.responses = w.responses
                   /\ worker' = [worker EXCEPT ![c] = x]
      BY <3>1
    <3>4. told' = [told EXCEPT ![c] = told[c]]
      BY <2>4, SameTold
    <3>5. PICK d : /\ LinkFields(d) /\ d.down = Tail(l.down) /\ d.open = l.open /\ d.up = l.up
                   /\ d.last = l.last /\ link' = [link EXCEPT ![c] = d]
      BY <3>2
    <3>6. IsWorker(x)
      BY <2>1, <3>3 DEF IsWorker
    <3>7. IsLink(d)
      <4>1. Tail(link[c].down) \in Seq(Deliveries)
        BY <1>3, <2>1, HeadAndTail
      <4> QED BY <2>1, <3>5, <4>1 DEF IsLink
    <3>8. OneAnswer(x, d)
      BY <1>3, <2>1, <3>3, <3>5, SkipKeepsAnswer
    <3>9. Asked(x) = Asked(w) /\ servers[x.srv].transport = "stdio"
      BY <1>1, <3>3 DEF Asked, M!Transport
    <3>10. Talk(x, d, told[c], servers[x.srv].transport)
      BY <1>1, <2>1, <3>3, <3>5, <3>8, <3>9 DEF Talk
    <3> QED BY <1>1, <3>3, <3>4, <3>5, <3>6, <3>7, <3>10, ChangeOne
  <2> QED BY <1>3, <2>3, <2>4 DEF M!ReadStdio
<1> QED BY <1>2, <1>3 DEF M!ReadStdio

LEMMA HttpStep ==
  ASSUME TalkInv, NEW c \in Calls, M!ReadHttp(c)
  PROVE  TalkInv'
<1>1. worker[c].at = "awaiting" /\ M!Transport(c) = "http" /\ UNCHANGED servers
  BY DEF M!ReadHttp, M!agent
<1>2. CASE M!Finish(c, M!Failed)
  BY <1>1, <1>2, FailStep
<1>3. CASE link[c].down # <<>> /\ ~M!Finish(c, M!Failed)
  <2> PICK m : m = Head(link[c].down)
    OBVIOUS
  <2>1. /\ IsWorker(worker[c]) /\ link[c].down \in Seq(Deliveries)
        /\ OneBody(link[c]) /\ LinkFields(link[c])
    BY <1>1 DEF TalkInv, IsLink, Talk
  <2>2. m = link[c].down[1] /\ 1 \in 1 .. Len(link[c].down)
    BY <1>3, <2>1, HeadAndTail
  <2>3. CASE M!Proceed(c, m) \/ M!Round(c, m)
    <3>1. m.of = link[c].last
      BY <2>1, <2>2 DEF OneBody
    <3> QED BY <1>1, <1>3, <2>2, <2>3, <3>1, TakeStep
  <2>4. CASE M!Send(c, [worker[c] EXCEPT !.attempt = @ + 1], [link[c] EXCEPT !.down = Tail(@)])
    <3> PICK w, x : w = worker[c] /\ x = [w EXCEPT !.attempt = @ + 1]
      OBVIOUS
    <3> PICK l, d : l = link[c] /\ d = [l EXCEPT !.down = Tail(@)]
      OBVIOUS
    <3>1. M!Send(c, x, d)
      BY <2>4
    <3>2. WorkerFields(w) /\ w.id \in 1 .. 3 /\ w.rounds \in Nat /\ w.attempt \in Nat
          /\ w.responses \subseteq AskKinds
      BY <1>1, <2>1 DEF IsWorker
    <3>3. /\ WorkerFields(x) /\ x.id = w.id /\ x.rounds = w.rounds /\ x.srv = w.srv
          /\ x.attempt = w.attempt + 1 /\ x.responses = w.responses
      BY <3>2 DEF WorkerFields
    <3>4. LinkFields(d) /\ d.down = Tail(l.down)
      BY <2>1, DropHead
    <3>5. x.attempt \in Nat /\ x.id \in w.id .. 3
      BY <3>2, <3>3
    <3> QED BY <1>1, <1>3, <3>1, <3>2, <3>3, <3>4, <3>5, AskNext
  <2> QED BY <1>3, <2>3, <2>4 DEF M!ReadHttp
<1> QED BY <1>2, <1>3 DEF M!ReadHttp

LEMMA SseStep ==
  ASSUME TalkInv, NEW c \in Calls, M!ReadSse(c)
  PROVE  TalkInv'
<1>1. worker[c].at = "awaiting" /\ M!Transport(c) = "sse" /\ UNCHANGED servers
  BY DEF M!ReadSse, M!agent
<1>2. CASE M!Finish(c, M!Failed)
  BY <1>1, <1>2, FailStep
<1>3. CASE M!Send(c, [worker[c] EXCEPT !.attempt = @ + 1], link[c])
  <2> PICK w, x : w = worker[c] /\ x = [w EXCEPT !.attempt = @ + 1]
    OBVIOUS
  <2>1. WorkerFields(w) /\ w.id \in 1 .. 3 /\ w.rounds \in Nat /\ w.attempt \in Nat
        /\ w.responses \subseteq AskKinds
    BY <1>1 DEF TalkInv, IsWorker
  <2>2. /\ WorkerFields(x) /\ x.id = w.id /\ x.rounds = w.rounds /\ x.srv = w.srv
        /\ x.attempt = w.attempt + 1 /\ x.responses = w.responses
    BY <2>1 DEF WorkerFields
  <2>3. x.attempt \in Nat
    BY <2>1, <2>2
  <2>4. LinkFields(link[c]) /\ link[c].down \in Seq(Deliveries)
    BY DEF TalkInv, IsLink
  <2>5. M!Send(c, x, link[c])
    BY <1>3
  <2> QED BY <1>1, <2>1, <2>2, <2>3, <2>4, <2>5, SendStep
<1>4. CASE /\ link[c].down # <<>>
           /\ link' = [link EXCEPT ![c].down = Tail(@)]
           /\ UNCHANGED <<worker, told>>
  <2> PICK l, d : l = link[c] /\ d = [l EXCEPT !.down = Tail(@)]
    OBVIOUS
  <2>1. /\ worker' = [worker EXCEPT ![c] = worker[c]] /\ link' = [link EXCEPT ![c] = d]
        /\ told' = [told EXCEPT ![c] = told[c]]
    BY <1>4, SameTold DEF TalkInv
  <2>2. IsLink(l) /\ LinkFields(l) /\ l.down \in Seq(Deliveries) /\ l.down # <<>>
    BY <1>4 DEF TalkInv, IsLink
  <2>3. LinkFields(d) /\ d.down = Tail(l.down) /\ d.open = l.open /\ d.up = l.up /\ d.last = l.last
    BY <2>2, DropHead
  <2>4. Tail(l.down) \in Seq(Deliveries)
    BY <2>2, HeadAndTail
  <2>5. IsLink(d)
    BY <2>2, <2>3, <2>4 DEF IsLink
  <2>6. IsWorker(worker[c]) /\ Talk(worker[c], d, told[c], M!Transport(c))
    BY <1>1, <2>3 DEF TalkInv, Talk
  <2> QED BY <1>1, <2>1, <2>5, <2>6, ChangeOne DEF M!Transport
<1> QED BY <1>2, <1>3, <1>4 DEF M!ReadSse

LEMMA HangupStep ==
  ASSUME TalkInv, NEW c \in Calls, M!Hangup(c)
  PROVE  TalkInv'
<1> PICK l, d : l = link[c] /\ d = [l EXCEPT !.open = FALSE]
  OBVIOUS
<1>1. /\ worker' = [worker EXCEPT ![c] = worker[c]] /\ link' = [link EXCEPT ![c] = d]
      /\ told' = [told EXCEPT ![c] = told[c]] /\ UNCHANGED servers
  BY SameTold DEF TalkInv, M!Hangup, M!agent
<1>2. IsLink(l) /\ LinkFields(l)
  BY DEF TalkInv, IsLink
<1>3. LinkFields(d) /\ d.down = l.down /\ d.open = FALSE /\ d.up = l.up /\ d.last = l.last
  BY <1>2 DEF LinkFields
<1>4. IsLink(d)
  BY <1>2, <1>3 DEF IsLink
<1>5. OneAnswer(worker[c], l) => OneAnswer(worker[c], d)
  BY <1>3 DEF OneAnswer
<1>6. OneBody(l) => OneBody(d)
  BY <1>3 DEF OneBody
<1>7. IsWorker(worker[c]) /\ Talk(worker[c], d, told[c], M!Transport(c))
  BY <1>3, <1>5, <1>6 DEF TalkInv, Talk
<1> QED BY <1>1, <1>4, <1>7, ChangeOne DEF M!Transport

LEMMA TimeoutStep ==
  ASSUME TalkInv, M!Timeout
  PROVE  TalkInv'
<1> PICK o : o = [M!Nothing EXCEPT !.kind = "timeout"]
  OBVIOUS
<1> PICK c \in Calls : told' = [told EXCEPT ![c] = o]
  BY DEF M!Timeout
<1>1. o.kind # "ok"
  BY DEF M!Nothing
<1>2. worker' = [worker EXCEPT ![c] = worker[c]] /\ link' = [link EXCEPT ![c] = link[c]]
      /\ UNCHANGED servers
  BY SameTold DEF M!Timeout
<1>3. IsWorker(worker[c]) /\ IsLink(link[c]) /\ Talk(worker[c], link[c], o, M!Transport(c))
  BY <1>1 DEF TalkInv, Talk
<1> QED BY <1>2, <1>3, ChangeOne DEF M!Transport

\* What a server answers is for the request that it has.
LEMMA RepliesAnswer ==
  ASSUME NEW c, NEW m \in M!Replies(c), link[c].up \in Requests
  PROVE  m \in Deliveries /\ m.id = link[c].up.id /\ m.of = link[c].up
<1> PICK r : r = link[c].up
  OBVIOUS
<1>1. r \in Requests /\ r.id \in {1, 2, 3}
  BY DEF Requests
<1>2. \A i \in 0 .. 3, k \in Kinds, a \in SUBSET AskKinds :
        /\ M!Message(i, k, a, r) \in Deliveries
        /\ M!Message(i, k, a, r).id = i /\ M!Message(i, k, a, r).of = r
  BY <1>1 DEF M!Message, Deliveries
<1>3. {"error", "initialized", "versionless", "tools", "done", "unsupported"} \subseteq Kinds
      /\ M!Asks \subseteq SUBSET AskKinds /\ {} \in SUBSET AskKinds
  BY DEF Kinds, M!Asks, AskKinds
<1>4. CASE m \in {M!Message(r.id, "unsupported", {}, r), M!Message(r.id, "error", {}, r)}
  BY <1>1, <1>2, <1>3, <1>4
<1>5. CASE r.id = 1 /\ m \in {M!Message(1, k, {}, r) : k \in {"initialized", "versionless"}}
  BY <1>1, <1>2, <1>3, <1>5
<1>6. CASE r.id = 2 /\ m \in {M!Message(2, "tools", {}, r)}
  BY <1>1, <1>2, <1>3, <1>6
<1>7. CASE r.id = 3 /\ m \in {M!Message(3, "done", a, r) : a \in M!Asks}
  BY <1>1, <1>2, <1>3, <1>7
<1> QED BY <1>1, <1>4, <1>5, <1>6, <1>7 DEF M!Replies

LEMMA MoreIsLast ==
  ASSUME NEW s \in Seq(Deliveries), NEW m \in Deliveries, NEW t, t = Append(s, m)
  PROVE  /\ t \in Seq(Deliveries) /\ Len(t) = Len(s) + 1 /\ Len(s) \in Nat
         /\ \A k \in 1 .. Len(t) : (k \in 1 .. Len(s) /\ t[k] = s[k]) \/ (k = Len(s) + 1 /\ t[k] = m)
<1>1. Len(s) \in Nat /\ t \in Seq(Deliveries) /\ Len(t) = Len(s) + 1
  OBVIOUS
<1>2. \A k \in 1 .. Len(s) + 1 : (k \in 1 .. Len(s) /\ t[k] = s[k]) \/ (k = Len(s) + 1 /\ t[k] = m)
  OBVIOUS
<1> QED BY <1>1, <1>2

LEMMA ServeStep ==
  ASSUME TalkInv, NEW c \in Calls, M!Serve(c)
  PROVE  TalkInv'
<1>1. PICK m \in M!Replies(c) :
        link' = [link EXCEPT ![c].down = Append(@, m), ![c].up = M!NoRequest]
  BY DEF M!Serve
<1> PICK l, w : l = link[c] /\ w = worker[c]
  OBVIOUS
<1>2. /\ IsLink(l) /\ LinkFields(l) /\ IsWorker(w) /\ w.id \in 1 .. 3 /\ l.last = Asked(w)
      /\ l.up = l.last /\ l.up \in Requests /\ l.down \in Seq(Deliveries)
      /\ M!Transport(c) = "stdio" => OneAnswer(w, l)
      /\ M!Transport(c) = "http" => OneBody(l)
      /\ l.up # M!NoRequest /\ w.at = "awaiting" /\ Talk(w, l, told[c], M!Transport(c))
  BY DEF TalkInv, IsLink, IsWorker, Talk, M!Serve
<1>3. m \in Deliveries /\ m.id = w.id /\ m.of = l.last
  BY <1>2, RepliesAnswer DEF Asked
<1>4. \E d : /\ LinkFields(d) /\ d.down = Append(l.down, m) /\ d.up = M!NoRequest
             /\ d.open = l.open /\ d.last = l.last /\ link' = [link EXCEPT ![c] = d]
  <2> PICK d : d = [l EXCEPT !.down = Append(@, m), !.up = M!NoRequest]
    OBVIOUS
  <2>1. link' = [link EXCEPT ![c] = d]
    BY <1>1 DEF TalkInv
  <2>2. /\ LinkFields(d) /\ d.down = Append(l.down, m) /\ d.up = M!NoRequest /\ d.open = l.open
        /\ d.last = l.last
    BY <1>2 DEF LinkFields
  <2> QED BY <2>1, <2>2
<1>5. /\ worker' = [worker EXCEPT ![c] = worker[c]] /\ told' = [told EXCEPT ![c] = told[c]]
      /\ UNCHANGED servers
  BY SameTold DEF M!Serve, M!agent
<1>6. PICK d : /\ LinkFields(d) /\ d.down = Append(l.down, m) /\ d.up = M!NoRequest
               /\ d.open = l.open /\ d.last = l.last /\ link' = [link EXCEPT ![c] = d]
  BY <1>4
<1> PICK s, t : s = l.down /\ t = Append(s, m)
  OBVIOUS
<1>7. /\ t \in Seq(Deliveries) /\ Len(t) = Len(s) + 1 /\ Len(s) \in Nat
      /\ \A k \in 1 .. Len(t) : (k \in 1 .. Len(s) /\ t[k] = s[k]) \/ (k = Len(s) + 1 /\ t[k] = m)
  <2>1. s \in Seq(Deliveries) /\ m \in Deliveries
    BY <1>2, <1>3
  <2> QED BY <2>1, MoreIsLast
<1>8. IsLink(d)
  BY <1>2, <1>6, <1>7 DEF IsLink
<1>9. M!Transport(c) = "stdio" => OneAnswer(w, d)
  <2> SUFFICES ASSUME M!Transport(c) = "stdio"
               PROVE  OneAnswer(w, d)
    OBVIOUS
  <2>1. \A k \in 1 .. Len(s) : s[k].id # w.id
    BY <1>2 DEF OneAnswer
  <2>2. \A k \in 1 .. Len(s) : s[k].id \in 1 .. 3 => s[k].id <= w.id
    BY <1>2 DEF OneAnswer
  <2>3. \A k \in 1 .. Len(t) : t[k].id = w.id => k = Len(s) + 1 /\ t[k] = m
    BY <1>7, <2>1
  <2>4. \A k \in 1 .. Len(t) : t[k].id \in 1 .. 3 => t[k].id <= w.id
    BY <1>2, <1>3, <1>7, <2>2
  <2> QED BY <1>3, <1>6, <2>3, <2>4 DEF OneAnswer
<1>10. M!Transport(c) = "http" => OneBody(d)
  <2> SUFFICES ASSUME M!Transport(c) = "http"
               PROVE  OneBody(d)
    OBVIOUS
  <2>1. s = <<>> /\ Len(s) = 0
    BY <1>2 DEF OneBody
  <2>2. Len(t) = 1 /\ \A k \in 1 .. Len(t) : t[k] = m
    BY <1>7, <2>1
  <2> QED BY <1>3, <1>6, <2>2 DEF OneBody
<1>11. Talk(w, d, told[c], M!Transport(c))
  BY <1>2, <1>6, <1>9, <1>10 DEF Talk
<1> QED BY <1>2, <1>5, <1>6, <1>8, <1>11, ChangeOne DEF M!Transport

LEMMA SpeakStep ==
  ASSUME CivilServers, TalkInv, NEW c \in Calls, M!Speaks(c)
  PROVE  TalkInv'
<1>1. PICK m \in M!Unasked(c) :
        link' = [link EXCEPT ![c].down = Append(@, m), ![c].noise = @ + 1]
  BY DEF M!Speaks
<1> PICK l, w : l = link[c] /\ w = worker[c]
  OBVIOUS
<1>2. /\ IsLink(l) /\ LinkFields(l) /\ IsWorker(w) /\ w.id \in 1 .. 3 /\ l.last = Asked(w)
      /\ l.last \in Requests /\ l.down \in Seq(Deliveries)
      /\ M!Transport(c) = "stdio" => OneAnswer(w, l)
      /\ w.at = "awaiting" /\ Talk(w, l, told[c], M!Transport(c))
  BY DEF TalkInv, IsLink, IsWorker, Talk, M!Speaks, Asked, Requests
<1>3. M!Transport(c) # "http"
  BY DEF M!Speaks, CivilServers
<1>4. m \in Deliveries /\ (m.id \in 0 .. 3 => m.id < w.id)
  <2>1. \A i \in 0 .. 3 \cup ServerIds, k \in Kinds, o \in Requests \cup {M!NoRequest} :
          M!Message(i, k, {}, o) \in Deliveries /\ M!Message(i, k, {}, o).id = i
    BY DEF M!Message, Deliveries
  <2>2. {"notification", "request", "initialized"} \subseteq Kinds
    BY DEF Kinds
  <2>3. CASE m = M!Message(0, "notification", {}, M!NoRequest)
    <3>1. m \in Deliveries /\ m.id = 0
      BY <2>1, <2>2, <2>3
    <3>2. w.id \in 1 .. 3
      BY <1>2 DEF TalkInv, IsWorker
    <3> QED BY <3>1, <3>2
  <2>4. ASSUME NEW i \in ServerIds, m = M!Message(i, "request", {}, M!NoRequest)
        PROVE  m \in Deliveries /\ m.id \notin 0 .. 3
    <3>1. i \notin 0 .. 3
      BY DEF CivilServers
    <3>2. m \in Deliveries /\ m.id = i
      BY <2>1, <2>2, <2>4
    <3> QED BY <3>1, <3>2
  <2>5. CASE m = M!Message(1, "initialized", {}, l.last) /\ l.last.id > 1
    <3>1. w.id > 1 /\ l.last \in Requests
      BY <1>2, <2>5 DEF Asked
    <3>2. m \in Deliveries /\ m.id = 1
      BY <2>1, <2>2, <2>5, <3>1
    <3> QED BY <1>2, <3>1, <3>2
  <2> QED BY <2>3, <2>4, <2>5 DEF M!Unasked, CivilServers
<1>5. \E d : /\ LinkFields(d) /\ d.down = Append(l.down, m) /\ d.up = l.up
             /\ d.open = l.open /\ d.last = l.last /\ link' = [link EXCEPT ![c] = d]
  <2> PICK d : d = [l EXCEPT !.down = Append(@, m), !.noise = @ + 1]
    OBVIOUS
  <2>1. link' = [link EXCEPT ![c] = d]
    BY <1>1 DEF TalkInv
  <2>2. /\ LinkFields(d) /\ d.down = Append(l.down, m) /\ d.up = l.up /\ d.open = l.open
        /\ d.last = l.last
    BY <1>2 DEF LinkFields
  <2> QED BY <2>1, <2>2
<1>6. /\ worker' = [worker EXCEPT ![c] = worker[c]] /\ told' = [told EXCEPT ![c] = told[c]]
      /\ UNCHANGED servers
  BY SameTold DEF M!Speaks, M!agent
<1>7. PICK d : /\ LinkFields(d) /\ d.down = Append(l.down, m) /\ d.up = l.up
               /\ d.open = l.open /\ d.last = l.last /\ link' = [link EXCEPT ![c] = d]
  BY <1>5
<1> PICK s, t : s = l.down /\ t = Append(s, m)
  OBVIOUS
<1>8. /\ t \in Seq(Deliveries) /\ Len(t) = Len(s) + 1 /\ Len(s) \in Nat
      /\ \A k \in 1 .. Len(t) : (k \in 1 .. Len(s) /\ t[k] = s[k]) \/ (k = Len(s) + 1 /\ t[k] = m)
  <2>1. s \in Seq(Deliveries) /\ m \in Deliveries
    BY <1>2, <1>4
  <2> QED BY <2>1, MoreIsLast
<1>9. IsLink(d)
  BY <1>2, <1>7, <1>8 DEF IsLink
<1>10. M!Transport(c) = "stdio" => OneAnswer(w, d)
  <2> SUFFICES ASSUME M!Transport(c) = "stdio"
               PROVE  OneAnswer(w, d)
    OBVIOUS
  <2>1. /\ \A k \in 1 .. Len(s) : s[k].id \in 1 .. 3 => s[k].id <= w.id
        /\ \A k \in 1 .. Len(s) : s[k].id = w.id => l.up = M!NoRequest /\ s[k].of = l.last
        /\ \A j, k \in 1 .. Len(s) : s[j].id = w.id /\ s[k].id = w.id => j = k
    BY <1>2 DEF OneAnswer
  <2>2. m.id # w.id /\ (m.id \in 1 .. 3 => m.id <= w.id)
    BY <1>2, <1>4
  <2>3. \A k \in 1 .. Len(t) : t[k].id = w.id => k \in 1 .. Len(s) /\ t[k] = s[k]
    BY <1>8, <2>2
  <2>4. \A k \in 1 .. Len(t) : t[k].id \in 1 .. 3 => t[k].id <= w.id
    BY <1>8, <2>1, <2>2
  <2> QED BY <1>7, <2>1, <2>3, <2>4 DEF OneAnswer
<1>11. Talk(w, d, told[c], M!Transport(c))
  BY <1>2, <1>3, <1>7, <1>10 DEF Talk
<1> QED BY <1>2, <1>6, <1>7, <1>9, <1>11, ChangeOne DEF M!Transport

Less == {pair \in Nat \X Nat : pair[1] < pair[2]}

\* There is a smallest of some numbers.
LEMMA FirstOfThem ==
  ASSUME NEW S, S \subseteq Nat, S # {}
  PROVE  \E x \in S : \A y \in S : x <= y
<1>1. IsWellFoundedOn(Less, Nat)
  BY NatLessThanWellFounded DEF OpToRel, Less
<1>2. IsWellFoundedOn(Less, S)
  BY <1>1, IsWellFoundedOnSubset
<1>3. PICK x \in S : \A y \in S : ~(<<y, x>> \in Less)
  BY <1>2, WFMin
<1>4. \A y \in S : ~(y < x)
  BY <1>3 DEF Less
<1> QED BY <1>4

LEMMA NextIsUnused ==
  ASSUME CallsAreNumbers, M!Unused # {}
  PROVE  M!NextCall \in Calls /\ worker[M!NextCall].at = "none" /\ told[M!NextCall] = M!Nothing
<1>1. M!Unused \subseteq Nat /\ M!Unused \subseteq Calls
  BY DEF CallsAreNumbers, M!Unused
<1>2. \E c \in M!Unused : \A d \in M!Unused : c <= d
  BY <1>1, FirstOfThem
<1>3. M!NextCall \in M!Unused
  BY <1>2 DEF M!NextCall
<1> QED BY <1>1, <1>3 DEF M!Unused

\* A thread that starts has no connection yet.
LEMMA StartStep ==
  ASSUME CallsAreNumbers, TalkInv, NEW w, M!with_timeout(w), UNCHANGED servers,
         WorkerFields(w), w.at = "opening", w.rounds = 0, w.attempt = 1, w.responses = {}
  PROVE  TalkInv'
<1> PICK c : c = M!NextCall
  OBVIOUS
<1>1. c \in Calls /\ worker[c].at = "none" /\ told[c] = M!Nothing
  BY NextIsUnused DEF M!with_timeout
<1>2. /\ worker' = [worker EXCEPT ![c] = w] /\ link' = [link EXCEPT ![c] = link[c]]
      /\ told' = [told EXCEPT ![c] = told[c]]
  BY <1>1, SameTold DEF M!with_timeout
<1>3. IsWorker(w)
  BY DEF IsWorker
<1>4. told[c].kind # "ok"
  BY <1>1 DEF M!Nothing
<1>5. IsLink(link[c]) /\ ~link[c].open
  BY <1>1 DEF TalkInv, Talk
<1>6. Talk(w, link[c], told[c], servers[w.srv].transport)
  BY <1>4, <1>5 DEF Talk
<1> QED BY <1>1, <1>2, <1>3, <1>5, <1>6, ChangeOne

LEMMA NothingMoves ==
  ASSUME TalkInv, UNCHANGED <<servers, worker, link, told>>
  PROVE  TalkInv'
BY DEF TalkInv, IsWorker, IsLink, Talk, OneAnswer, OneBody, Asked, WorkerFields, LinkFields, M!Transport, M!NoRequest

LEMMA TalkInit ==
  ASSUME M!Init
  PROVE  TalkInv
<1>1. /\ worker = [c \in Calls |-> M!NoWorker] /\ link = [c \in Calls |-> M!Closed]
      /\ told = [c \in Calls |-> M!Nothing]
  BY DEF M!Init
<1>2. IsWorker(M!NoWorker) /\ M!NoWorker.at = "none"
  BY DEF IsWorker, WorkerFields, M!NoWorker
<1>3. IsLink(M!Closed) /\ ~M!Closed.open
  BY DEF IsLink, LinkFields, M!Closed
<1>4. M!Nothing.kind # "ok"
  BY DEF M!Nothing
<1>5. \A tr : Talk(M!NoWorker, M!Closed, M!Nothing, tr)
  BY <1>2, <1>3, <1>4 DEF Talk
<1> QED BY <1>1, <1>2, <1>3, <1>5 DEF TalkInv

LEMMA DiscoverStep ==
  ASSUME CallsAreNumbers, TalkInv, M!Discover
  PROVE  TalkInv'
<1>1. UNCHANGED servers
  BY DEF M!Discover
<1>2. CASE UNCHANGED <<worker, link, told>>
  BY <1>1, <1>2, NothingMoves
<1>3. CASE \E i : M!with_timeout([M!NoWorker EXCEPT !.at = "opening", !.srv = i])
  <2> PICK i : M!with_timeout([M!NoWorker EXCEPT !.at = "opening", !.srv = i])
    BY <1>3
  <2>1. \E w : /\ M!with_timeout(w) /\ WorkerFields(w) /\ w.at = "opening" /\ w.rounds = 0
               /\ w.attempt = 1 /\ w.responses = {}
    <3> PICK w : w = [M!NoWorker EXCEPT !.at = "opening", !.srv = i]
      OBVIOUS
    <3>1. /\ WorkerFields(w) /\ w.at = "opening" /\ w.rounds = 0 /\ w.attempt = 1
          /\ w.responses = {}
      BY DEF WorkerFields, M!NoWorker
    <3> QED BY <3>1
  <2> QED BY <1>1, <2>1, StartStep
<1> QED BY <1>2, <1>3 DEF M!Discover

LEMMA ExecuteStep ==
  ASSUME CallsAreNumbers, TalkInv, M!Execute
  PROVE  TalkInv'
<1>1. UNCHANGED servers
  BY DEF M!Execute
<1>2. PICK i, t, f : M!with_timeout([M!NoWorker EXCEPT !.at = "opening", !.srv = i,
                                        !.want = "call", !.tool = t, !.fits = f])
  BY DEF M!Execute
<1>3. \E w : /\ M!with_timeout(w) /\ WorkerFields(w) /\ w.at = "opening" /\ w.rounds = 0
             /\ w.attempt = 1 /\ w.responses = {}
  <2> PICK w : w = [M!NoWorker EXCEPT !.at = "opening", !.srv = i, !.want = "call", !.tool = t,
                                      !.fits = f]
    OBVIOUS
  <2>1. /\ WorkerFields(w) /\ w.at = "opening" /\ w.rounds = 0 /\ w.attempt = 1 /\ w.responses = {}
    BY DEF WorkerFields, M!NoWorker
  <2>2. M!with_timeout(w)
    BY <1>2
  <2> QED BY <2>1, <2>2
<1> QED BY <1>1, <1>3, StartStep

\* What the agent is told a call returned is what the server sent for the last
\* request of that call, whatever else arrives and however late: the handshake
\* answered twice, a notification, a request of the server's own (mcp.rs, the loop
\* that reads for an id; mcp_transport.rs, request; with_timeout).
THEOREM CallsGetTheirAnswers ==
  ASSUME CivilServers, CallsAreNumbers
  PROVE  M!Spec => []AnswerIsOurs
<1>1. M!Init => TalkInv
  BY TalkInit
<1>2. TalkInv /\ [M!Next]_M!vars => TalkInv'
  <2> SUFFICES ASSUME TalkInv, [M!Next]_M!vars
               PROVE  TalkInv'
    OBVIOUS
  <2>1. CASE M!Discover
    BY <2>1, DiscoverStep
  <2>2. CASE M!Execute
    BY <2>2, ExecuteStep
  <2>3. CASE M!Hear
    BY <2>3, NothingMoves DEF M!Hear
  <2>4. CASE M!Timeout
    BY <2>4, TimeoutStep
  <2>5. ASSUME NEW c \in Calls,
               M!OpenLink(c) \/ M!ReadStdio(c) \/ M!ReadHttp(c) \/ M!ReadSse(c)
        PROVE  TalkInv'
    BY <2>5, OpenStep, StdioStep, HttpStep, SseStep
  <2>6. ASSUME NEW c \in Calls, M!Serve(c) \/ M!Speaks(c) \/ M!Hangup(c)
        PROVE  TalkInv'
    BY <2>6, ServeStep, SpeakStep, HangupStep
  <2>7. CASE UNCHANGED M!vars
    BY <2>7, NothingMoves DEF M!vars
  <2> QED BY <2>1, <2>2, <2>3, <2>4, <2>5, <2>6, <2>7 DEF M!Next
<1>3. TalkInv => AnswerIsOurs
  BY DEF TalkInv, Talk, AnswerIsOurs, M!AnswerIsOurs
<1> QED BY <1>1, <1>2, <1>3, CivilServers, CallsAreNumbers, PTL DEF M!Spec

-----------------------------------------------------------------------------
(* Where a published name leads.                                           *)

Underscore == "_"

LEMMA SepIs == M!Sep = <<Underscore, Underscore>>
BY Zenon DEF M!Sep, Underscore

\* Names that the first separator of a published name takes apart: no double
\* underscore in them, and none at their end.
Plain(n) == \A i \in 1 .. Len(n) : n[i] = Underscore => i < Len(n) /\ n[i + 1] # Underscore

IsText(s) == \E G : s \in Seq(G)

PlainNames ==
  /\ \A t \in Tools : IsText(t)
  /\ \A s \in Configs : IsText(s) /\ \A i \in 1 .. Len(s) : IsText(s[i].name) /\ Plain(s[i].name)

\* A name, a separator and another name.
Joined(G, n, t, name) ==
  /\ name \in Seq(G) /\ Len(n) \in Nat /\ Len(t) \in Nat
  /\ Len(name) = Len(n) + Len(t) + 2
  /\ \A i \in 1 .. Len(n) : name[i] = n[i]
  /\ name[Len(n) + 1] = Underscore /\ name[Len(n) + 2] = Underscore
  /\ \A i \in 1 .. Len(t) : name[Len(n) + 2 + i] = t[i]

LeadsTo(name, n, t) ==
  M!SepAt(name) # {} /\ M!parse_prefixed(name).server = n /\ M!parse_prefixed(name).tool = t

LEMMA NameParts ==
  ASSUME NEW G, NEW n \in Seq(G), NEW t \in Seq(G), Underscore \in G, NEW name, name = M!prefixed_name(n, t)
  PROVE  Joined(G, n, t, name)
<1> PICK u : u = <<Underscore, Underscore>>
  OBVIOUS
<1>1. u \in Seq(G) /\ Len(u) = 2 /\ u[1] = Underscore /\ u[2] = Underscore
  OBVIOUS
<1> PICK v : v = n \o u
  OBVIOUS
<1>2. /\ v \in Seq(G) /\ Len(v) = Len(n) + 2 /\ Len(n) \in Nat
      /\ \A i \in 1 .. Len(n) + 2 : v[i] = IF i <= Len(n) THEN n[i] ELSE u[i - Len(n)]
  BY <1>1, ConcatProperties, LenProperties
<1>3. name = v \o t
  BY SepIs DEF M!prefixed_name
<1>4. /\ name \in Seq(G) /\ Len(name) = Len(v) + Len(t) /\ Len(t) \in Nat
      /\ \A i \in 1 .. Len(v) + Len(t) : name[i] = IF i <= Len(v) THEN v[i] ELSE t[i - Len(v)]
  BY <1>2, <1>3, ConcatProperties, LenProperties
<1>5. \A i \in 1 .. Len(n) : name[i] = n[i]
  BY <1>2, <1>4
<1>6. name[Len(n) + 1] = Underscore /\ name[Len(n) + 2] = Underscore
  BY <1>1, <1>2, <1>4
<1>7. \A i \in 1 .. Len(t) : name[Len(n) + 2 + i] = t[i]
  <2> SUFFICES ASSUME NEW i \in 1 .. Len(t)
               PROVE  name[Len(n) + 2 + i] = t[i]
    OBVIOUS
  <2> PICK h : h = Len(v) + i
    OBVIOUS
  <2>1. h \in 1 .. Len(v) + Len(t) /\ ~(h <= Len(v)) /\ h - Len(v) = i
    BY <1>2, <1>4
  <2>2. name[h] = t[i]
    BY <1>4, <2>1
  <2>3. h = Len(n) + 2 + i
    BY <1>2
  <2> QED BY <2>2, <2>3
<1> QED BY <1>2, <1>4, <1>5, <1>6, <1>7 DEF Joined

\* The first separator of a published name is the one between its parts.
LEMMA FirstSeparator ==
  ASSUME NEW G, NEW name \in Seq(G), NEW n \in Seq(G), NEW k \in Nat, NEW z \in Nat,
         k = Len(n), z = Len(name), k + 2 <= z, Plain(n), Underscore \in G,
         \A i \in 1 .. k : name[i] = n[i], name[k + 1] = Underscore, name[k + 2] = Underscore
  PROVE  k + 1 \in M!SepAt(name) /\ \A i \in M!SepAt(name) : i \in Nat /\ k + 1 <= i
<1>2. \A i \in 1 .. z - 1 : i \in M!SepAt(name) <=> name[i] = Underscore /\ name[i + 1] = Underscore
  <2> SUFFICES ASSUME NEW i \in 1 .. z - 1
               PROVE  i \in M!SepAt(name) <=> name[i] = Underscore /\ name[i + 1] = Underscore
    OBVIOUS
  <2>1. i \in M!SepAt(name) <=> SubSeq(name, i, i + 1) = <<Underscore, Underscore>>
    BY SepIs DEF M!SepAt
  <2> PICK a, b : a = SubSeq(name, i, i + 1) /\ b = <<Underscore, Underscore>>
    OBVIOUS
  <2>2. a \in Seq(G) /\ Len(a) = 2 /\ a[1] = name[i] /\ a[2] = name[i + 1]
    <3>1. i \in 1 .. Len(name) /\ i + 1 \in 1 .. Len(name) /\ (i + 1) - i + 1 = 2
          /\ i + 1 - 1 = i /\ i + 2 - 1 = i + 1 /\ i <= i + 1
      OBVIOUS
    <3>2. a \in Seq(G) /\ Len(a) = 2
      BY <3>1, SubSeqProperties
    <3>3. \A h \in 1 .. 2 : a[h] = name[i + h - 1]
      BY <3>1, SubSeqProperties
    <3> QED BY <3>1, <3>2, <3>3
  <2>3. b \in Seq(G) /\ Len(b) = 2 /\ b[1] = Underscore /\ b[2] = Underscore
    OBVIOUS
  <2>4. a[1] = Underscore /\ a[2] = Underscore => a = b
    <3> SUFFICES ASSUME a[1] = Underscore, a[2] = Underscore
                 PROVE  a = b
      OBVIOUS
    <3>1. \A h \in 1 .. Len(a) : a[h] = b[h]
      BY <2>2, <2>3
    <3> QED BY <2>2, <2>3, <3>1, SeqEqual
  <2>5. a = b => a[1] = Underscore /\ a[2] = Underscore
    BY <2>3
  <2>6. i \in M!SepAt(name) <=> a = b
    BY <2>1
  <2> QED BY <2>2, <2>4, <2>5, <2>6
<1>3. k + 1 \in 1 .. z - 1
  OBVIOUS
<1>4. \A i \in 1 .. k : ~(name[i] = Underscore /\ name[i + 1] = Underscore)
  <2> SUFFICES ASSUME NEW i \in 1 .. k, name[i] = Underscore, name[i + 1] = Underscore
               PROVE  FALSE
    OBVIOUS
  <2>1. i < k /\ n[i + 1] # Underscore
    BY DEF Plain
  <2>2. i + 1 \in 1 .. k
    BY <2>1
  <2> QED BY <2>1, <2>2
<1>5. \A i \in M!SepAt(name) : i \in 1 .. z - 1
  BY DEF M!SepAt
<1> QED
  <2>1. k + 1 \in M!SepAt(name)
    BY <1>2, <1>3
  <2>2. \A i \in M!SepAt(name) : i \in Nat /\ ~(i \in 1 .. k)
    BY <1>2, <1>4, <1>5
  <2>3. \A i \in M!SepAt(name) : i \in Nat /\ k + 1 <= i
    BY <1>5, <2>2
  <2> QED BY <2>1, <2>3

LEMMA PartsOfName ==
  ASSUME NEW G, NEW name \in Seq(G), NEW n \in Seq(G), NEW t \in Seq(G), NEW k \in Nat, NEW j \in Nat,
         k = Len(n), j = Len(t), Len(name) = k + j + 2, Plain(n), Underscore \in G,
         \A i \in 1 .. k : name[i] = n[i], name[k + 1] = Underscore, name[k + 2] = Underscore,
         \A i \in 1 .. j : name[k + 2 + i] = t[i]
  PROVE  LeadsTo(name, n, t)
<1> PICK a, b : a = SubSeq(name, 1, k) /\ b = SubSeq(name, k + 3, Len(name))
  OBVIOUS
<1>1. a \in Seq(G) /\ Len(a) = k /\ \A i \in 1 .. k : a[i] = name[i]
  BY SubSeqProperties
<1>2. b \in Seq(G) /\ Len(b) = j /\ \A i \in 1 .. j : b[i] = name[k + 2 + i]
  BY SubSeqProperties
<1>3. a = n
  BY <1>1, SeqEqual
<1>4. b = t
  BY <1>2, SeqEqual
<1>5. k + 1 \in M!SepAt(name) /\ \A i \in M!SepAt(name) : i \in Nat /\ k + 1 <= i
  <2>1. Len(name) \in Nat /\ k + 2 <= Len(name)
    OBVIOUS
  <2> QED BY <2>1, FirstSeparator
<1>6. M!parse_prefixed(name) = [server |-> SubSeq(name, 1, (k + 1) - 1),
                                tool |-> SubSeq(name, (k + 1) + 2, Len(name))]
  <2> PICK least : least = CHOOSE i \in M!SepAt(name) : \A l \in M!SepAt(name) : i <= l
    OBVIOUS
  <2>1. least \in M!SepAt(name) /\ \A l \in M!SepAt(name) : least <= l
    <3>1. \A S : (\E i \in S : \A l \in S : i <= l) =>
            /\ (CHOOSE i \in S : \A l \in S : i <= l) \in S
            /\ \A m \in S : (CHOOSE i \in S : \A l \in S : i <= l) <= m
      BY Zenon
    <3>2. \E i \in M!SepAt(name) : \A l \in M!SepAt(name) : i <= l
      BY <1>5
    <3> QED BY <3>1, <3>2, Zenon
  <2>2. least \in Nat /\ k + 1 <= least /\ least <= k + 1
    BY <1>5, <2>1
  <2>3. least = k + 1
    BY <2>2
  <2>4. M!parse_prefixed(name) = [server |-> SubSeq(name, 1, least - 1),
                                  tool |-> SubSeq(name, least + 2, Len(name))]
    BY DEF M!parse_prefixed
  <2> QED BY <2>3, <2>4
<1>8. (k + 1) - 1 = k /\ (k + 1) + 2 = k + 3
  OBVIOUS
<1>9. M!parse_prefixed(name) = [server |-> a, tool |-> b]
  BY <1>6, <1>8
<1> QED BY <1>3, <1>4, <1>5, <1>9 DEF LeadsTo

LEMMA JoinedLeads ==
  ASSUME NEW G, NEW n \in Seq(G), NEW t \in Seq(G), Underscore \in G, Plain(n), NEW name,
         Joined(G, n, t, name)
  PROVE  LeadsTo(name, n, t)
<1>1. PICK k \in Nat, j \in Nat : k = Len(n) /\ j = Len(t)
  BY DEF Joined
<1>2. /\ name \in Seq(G) /\ Len(name) = k + j + 2
      /\ \A i \in 1 .. k : name[i] = n[i]
      /\ name[k + 1] = Underscore /\ name[k + 2] = Underscore
      /\ \A i \in 1 .. j : name[k + 2 + i] = t[i]
  BY <1>1 DEF Joined
<1> QED BY <1>1, <1>2, PartsOfName

LEMMA TakenApart ==
  ASSUME NEW n, NEW t, IsText(n), IsText(t), Plain(n)
  PROVE  LeadsTo(M!prefixed_name(n, t), n, t)
<1>1. PICK E, F : n \in Seq(E) /\ t \in Seq(F)
  BY DEF IsText
<1>2. \E G : n \in Seq(G) /\ t \in Seq(G) /\ Underscore \in G
  <2>1. n \in Seq(E \cup F \cup {Underscore}) /\ t \in Seq(E \cup F \cup {Underscore})
    BY <1>1
  <2> QED BY <2>1
<1>3. PICK G : n \in Seq(G) /\ t \in Seq(G) /\ Underscore \in G
  BY <1>2
<1>4. Joined(G, n, t, M!prefixed_name(n, t))
  BY <1>3, NameParts
<1> QED BY <1>3, <1>4, JoinedLeads

\* A server that is the first of its name, and enabled.
Led(i) == i \in DOMAIN servers /\ servers[i].enabled /\ ~M!Shadowed(i)

LedInv ==
  /\ servers \in Configs
  /\ worker = [c \in Calls |-> worker[c]] /\ \A c \in Calls : WorkerFields(worker[c])
  /\ \A c \in Calls : worker[c].at # "none" /\ worker[c].want = "list" => Led(worker[c].srv)
  /\ turn # 0 => turn \in Calls /\ worker[turn].at # "none"
  /\ \A p \in published : p.tool \in Tools /\ Led(p.srv)

LEMMA WorkerGoesOn ==
  ASSUME LedInv, NEW c \in Calls, NEW x, WorkerFields(x), x.at # "none",
         x.want = "list" => Led(x.srv), worker' = [worker EXCEPT ![c] = x],
         UNCHANGED <<servers, published>>, turn' = turn \/ turn' = c
  PROVE  LedInv'
<1> DEFINE ws == [d \in Calls |-> IF d = c THEN x ELSE worker[d]]
<1>1. worker' = ws
  BY DEF LedInv
<1>2. \A d \in Calls : worker'[d] = IF d = c THEN x ELSE worker[d]
  BY <1>1
<1>3. worker' = [d \in Calls |-> worker'[d]]
  BY <1>1
<1> HIDE DEF ws
<1>4. \A i : Led(i)' <=> Led(i)
  BY DEF Led, M!Shadowed
<1>5. \A d \in Calls : WorkerFields(worker'[d])
  BY <1>2 DEF LedInv
<1>6. \A d \in Calls : WorkerFields(worker[d])'
  BY <1>5 DEF WorkerFields
<1>7. \A d \in Calls : worker'[d].at # "none" /\ worker'[d].want = "list" => Led(worker'[d].srv)
  BY <1>2 DEF LedInv
<1>8. \A d \in Calls : (worker[d].at # "none" /\ worker[d].want = "list" => Led(worker[d].srv))'
  BY <1>7 DEF Led, M!Shadowed
<1>9. turn' # 0 => turn' \in Calls /\ worker'[turn'].at # "none"
  BY <1>2 DEF LedInv
<1>10. \A p \in published' : p.tool \in Tools /\ Led(p.srv)'
  BY <1>4 DEF LedInv
<1> QED BY <1>3, <1>6, <1>8, <1>9, <1>10 DEF LedInv

\* The worker of a call goes on for the same server and purpose.
WorkerMoves(c) ==
  \E x : /\ WorkerFields(x) /\ x.at # "none" /\ x.want = worker[c].want /\ x.srv = worker[c].srv
         /\ worker' = [worker EXCEPT ![c] = x]

LEMMA FinishMoves ==
  ASSUME LedInv, NEW c \in Calls, NEW o, M!Finish(c, o)
  PROVE  WorkerMoves(c)
<1> PICK w, x : w = worker[c] /\ x = [w EXCEPT !.at = "ended"]
  OBVIOUS
<1>1. WorkerFields(w)
  BY DEF LedInv
<1>2. WorkerFields(x) /\ x.at = "ended" /\ x.want = w.want /\ x.srv = w.srv
  BY <1>1 DEF WorkerFields
<1>3. worker' = [worker EXCEPT ![c] = x]
  BY DEF M!Finish, LedInv
<1> QED BY <1>2, <1>3 DEF WorkerMoves

LEMMA SendMoves ==
  ASSUME NEW c \in Calls, NEW w, NEW l, M!Send(c, w, l), WorkerFields(w),
         w.want = worker[c].want, w.srv = worker[c].srv
  PROVE  WorkerMoves(c)
<1> PICK x : x = [w EXCEPT !.at = "awaiting", !.skipped = 0]
  OBVIOUS
<1>1. WorkerFields(x) /\ x.at = "awaiting" /\ x.want = w.want /\ x.srv = w.srv
  BY DEF WorkerFields
<1>2. worker' = [worker EXCEPT ![c] = x]
  BY DEF M!Send
<1> QED BY <1>1, <1>2 DEF WorkerMoves

LEMMA OtherFields ==
  ASSUME NEW w, WorkerFields(w)
  PROVE  /\ \A i : LET x == [w EXCEPT !.id = i]
                   IN  WorkerFields(x) /\ x.want = w.want /\ x.srv = w.srv
         /\ \A i : LET x == [w EXCEPT !.id = i, !.attempt = 1]
                   IN  WorkerFields(x) /\ x.want = w.want /\ x.srv = w.srv
         /\ LET x == [w EXCEPT !.attempt = @ + 1]
            IN  WorkerFields(x) /\ x.want = w.want /\ x.srv = w.srv
         /\ \A n : LET x == [w EXCEPT !.rounds = @ + 1, !.attempt = 1, !.responses = n]
                   IN  WorkerFields(x) /\ x.want = w.want /\ x.srv = w.srv
<1>1. ASSUME NEW i, NEW x, x = [w EXCEPT !.id = i]
      PROVE  WorkerFields(x) /\ x.want = w.want /\ x.srv = w.srv
  BY <1>1 DEF WorkerFields
<1>2. ASSUME NEW i, NEW x, x = [w EXCEPT !.id = i, !.attempt = 1]
      PROVE  WorkerFields(x) /\ x.want = w.want /\ x.srv = w.srv
  BY <1>2 DEF WorkerFields
<1>3. ASSUME NEW x, x = [w EXCEPT !.attempt = @ + 1]
      PROVE  WorkerFields(x) /\ x.want = w.want /\ x.srv = w.srv
  BY <1>3 DEF WorkerFields
<1>4. ASSUME NEW n, NEW x, x = [w EXCEPT !.rounds = @ + 1, !.attempt = 1, !.responses = n]
      PROVE  WorkerFields(x) /\ x.want = w.want /\ x.srv = w.srv
  BY <1>4 DEF WorkerFields
<1> QED BY <1>1, <1>2, <1>3, <1>4

LEMMA ReaderMoves ==
  ASSUME LedInv, NEW c \in Calls, NEW m, M!Proceed(c, m) \/ M!Round(c, m)
  PROVE  WorkerMoves(c)
<1>1. ASSUME NEW o, M!Finish(c, o)
      PROVE  WorkerMoves(c)
  BY <1>1, FinishMoves
<1> PICK w : w = worker[c]
  OBVIOUS
<1>2. WorkerFields(w)
  BY DEF LedInv
<1>3. ASSUME NEW i, NEW l, M!Send(c, [w EXCEPT !.id = i, !.attempt = 1], l)
      PROVE  WorkerMoves(c)
  BY <1>2, <1>3, OtherFields, SendMoves
<1>4. ASSUME NEW n, NEW l,
             M!Send(c, [w EXCEPT !.rounds = @ + 1, !.attempt = 1, !.responses = n], l)
      PROVE  WorkerMoves(c)
  BY <1>2, <1>4, OtherFields, SendMoves
<1>5. CASE M!Proceed(c, m)
  BY <1>1, <1>3, <1>5 DEF M!Proceed
<1>6. CASE M!Round(c, m)
  BY <1>1, <1>4, <1>6 DEF M!Round
<1> QED BY <1>5, <1>6

LEMMA WorkerStep ==
  ASSUME LedInv, NEW c \in Calls,
         M!OpenLink(c) \/ M!ReadStdio(c) \/ M!ReadHttp(c) \/ M!ReadSse(c)
  PROVE  LedInv'
<1>1. worker[c].at # "none" /\ UNCHANGED <<servers, published, turn>>
  BY DEF M!OpenLink, M!ReadStdio, M!ReadHttp, M!ReadSse, M!agent
<1>2. ASSUME WorkerMoves(c)
      PROVE  LedInv'
  <2> PICK x : /\ WorkerFields(x) /\ x.at # "none" /\ x.want = worker[c].want /\ x.srv = worker[c].srv
               /\ worker' = [worker EXCEPT ![c] = x]
    BY <1>2 DEF WorkerMoves
  <2>1. x.want = "list" => Led(x.srv)
    BY <1>1 DEF LedInv
  <2> QED BY <1>1, <2>1, WorkerGoesOn
<1>3. WorkerFields(worker[c])
  BY DEF LedInv
<1>4. CASE M!OpenLink(c)
  <2>1. ASSUME NEW l, M!Send(c, [worker[c] EXCEPT !.id = 1], l)
        PROVE  WorkerMoves(c)
    BY <1>3, <2>1, OtherFields, SendMoves
  <2> QED BY <1>2, <1>4, <2>1, FinishMoves DEF M!OpenLink
<1>5. CASE M!ReadStdio(c)
  <2>1. ASSUME worker' = [worker EXCEPT ![c].skipped = @ + 1]
        PROVE  WorkerMoves(c)
    <3> PICK w, x : w = worker[c] /\ x = [w EXCEPT !.skipped = @ + 1]
      OBVIOUS
    <3>1. WorkerFields(x) /\ x.at = w.at /\ x.want = w.want /\ x.srv = w.srv
      BY <1>3 DEF WorkerFields
    <3>2. worker' = [worker EXCEPT ![c] = x]
      BY <2>1 DEF LedInv
    <3> QED BY <1>1, <3>1, <3>2 DEF WorkerMoves
  <2> QED BY <1>2, <1>5, <2>1, FinishMoves, ReaderMoves DEF M!ReadStdio
<1>6. ASSUME NEW l, M!Send(c, [worker[c] EXCEPT !.attempt = @ + 1], l)
      PROVE  WorkerMoves(c)
  BY <1>3, <1>6, OtherFields, SendMoves
<1>7. CASE M!ReadHttp(c)
  BY <1>2, <1>6, <1>7, FinishMoves, ReaderMoves DEF M!ReadHttp
<1>8. CASE M!ReadSse(c)
  <2>1. CASE UNCHANGED worker
    <3>1. worker' = [worker EXCEPT ![c] = worker[c]]
      BY <2>1 DEF LedInv
    <3> QED BY <1>1, <1>2, <1>3, <3>1 DEF WorkerMoves
  <2> QED BY <1>2, <1>6, <1>8, <2>1, FinishMoves DEF M!ReadSse
<1> QED BY <1>4, <1>5, <1>7, <1>8

LEMMA RouteOfLed ==
  ASSUME PlainNames, LedInv, NEW i, Led(i), NEW t \in Tools
  PROVE  LET name == M!prefixed_name(servers[i].name, t)
         IN  M!Route(name) = i /\ M!parse_prefixed(name).tool = t
<1>1. /\ DOMAIN servers = 1 .. Len(servers) /\ Len(servers) \in Nat /\ IsText(t)
      /\ \A j \in 1 .. Len(servers) : IsText(servers[j].name) /\ Plain(servers[j].name)
  <2>1. servers \in Configs
    BY DEF LedInv
  <2>2. IsText(servers) /\ IsText(t)
        /\ \A j \in 1 .. Len(servers) : IsText(servers[j].name) /\ Plain(servers[j].name)
    BY <2>1 DEF PlainNames
  <2>3. PICK G : servers \in Seq(G)
    BY <2>2 DEF IsText
  <2> QED BY <2>2, <2>3, LenProperties
<1> PICK n, name : n = servers[i].name /\ name = M!prefixed_name(n, t)
  OBVIOUS
<1>2. i \in 1 .. Len(servers) /\ IsText(n) /\ Plain(n)
  BY <1>1 DEF Led
<1>3. LeadsTo(name, n, t)
  BY <1>1, <1>2, TakenApart
<1>4. M!SepAt(name) # {} /\ M!parse_prefixed(name).server = n /\ M!parse_prefixed(name).tool = t
  BY <1>3 DEF LeadsTo
<1>5. i \in M!Named(n) /\ \A j \in M!Named(n) : j \in Nat /\ i <= j
  <2>1. i \in M!Named(n)
    BY <1>1, <1>2 DEF M!Named
  <2>2. \A j \in M!Named(n) : j \in 1 .. Len(servers) /\ servers[j].name = n
    BY <1>1 DEF M!Named
  <2>3. \A j \in 1 .. i - 1 : servers[j].name # n
    BY DEF Led, M!Shadowed
  <2>4. \A j \in M!Named(n) : j \in Nat /\ i <= j
    BY <1>2, <2>2, <2>3
  <2> QED BY <2>1, <2>4
<1>6. \E least : /\ least = CHOOSE l \in M!Named(n) : \A j \in M!Named(n) : l <= j
                 /\ least = i
  <2> PICK least : least = CHOOSE l \in M!Named(n) : \A j \in M!Named(n) : l <= j
    OBVIOUS
  <2>1. least \in M!Named(n) /\ \A j \in M!Named(n) : least <= j
    <3>1. \A S : (\E l \in S : \A j \in S : l <= j) =>
            /\ (CHOOSE l \in S : \A j \in S : l <= j) \in S
            /\ \A m \in S : (CHOOSE l \in S : \A j \in S : l <= j) <= m
      BY Zenon
    <3>2. \E l \in M!Named(n) : \A j \in M!Named(n) : l <= j
      BY <1>5
    <3> QED BY <3>1, <3>2, Zenon
  <2>2. least \in Nat /\ i \in Nat /\ i <= least /\ least <= i
    BY <1>5, <2>1
  <2>3. least = i
    BY <2>2
  <2> QED BY <2>3
<1>7. servers[i].enabled /\ M!Named(n) # {}
  BY <1>5 DEF Led
<1>8. M!Route(name) = i
  BY <1>4, <1>6, <1>7 DEF M!Route
<1> QED BY <1>4, <1>8

LEMMA LedInit ==
  ASSUME M!Init
  PROVE  LedInv
<1>1. /\ servers \in Configs /\ published = {} /\ turn = 0 /\ worker = [c \in Calls |-> M!NoWorker]
  BY DEF M!Init
<1>2. WorkerFields(M!NoWorker) /\ M!NoWorker.at = "none"
  BY DEF WorkerFields, M!NoWorker
<1> QED BY <1>1, <1>2 DEF LedInv

LEMMA LedStays ==
  ASSUME LedInv, UNCHANGED <<servers, worker>>, turn' = turn \/ turn' = 0,
         \A p \in published' : p.tool \in Tools /\ Led(p.srv)
  PROVE  LedInv'
BY DEF LedInv, Led, WorkerFields, M!Shadowed

LEMMA AgentStep ==
  ASSUME CallsAreNumbers, LedInv, M!Discover \/ M!Execute \/ M!Hear \/ M!Timeout
  PROVE  LedInv'
<1>1. ASSUME NEW x, M!with_timeout(x), UNCHANGED <<servers, published>>, WorkerFields(x),
             x.at # "none", x.want = "list" => Led(x.srv)
      PROVE  LedInv'
  <2>1. M!NextCall \in Calls /\ worker' = [worker EXCEPT ![M!NextCall] = x] /\ turn' = M!NextCall
    BY <1>1, NextIsUnused DEF M!with_timeout
  <2> QED BY <1>1, <2>1, WorkerGoesOn
<1>2. \A p \in published : p.tool \in Tools /\ Led(p.srv)
  BY DEF LedInv
<1>3. CASE M!Discover
  <2>1. UNCHANGED <<servers, published>>
    BY <1>3 DEF M!Discover
  <2> PICK i : i = probed + 1
    OBVIOUS
  <2>2. CASE UNCHANGED <<worker, turn>>
    BY <1>2, <2>1, <2>2, LedStays
  <2>3. CASE Led(i) /\ M!with_timeout([M!NoWorker EXCEPT !.at = "opening", !.srv = i])
    <3>1. \E x : M!with_timeout(x) /\ WorkerFields(x) /\ x.at = "opening" /\ x.srv = i
      <4> PICK x : x = [M!NoWorker EXCEPT !.at = "opening", !.srv = i]
        OBVIOUS
      <4>1. WorkerFields(x) /\ x.at = "opening" /\ x.srv = i
        BY DEF WorkerFields, M!NoWorker
      <4> QED BY <2>3, <4>1
    <3> QED BY <1>1, <2>1, <2>3, <3>1
  <2> QED BY <1>3, <2>2, <2>3 DEF M!Discover, Led
<1>4. CASE M!Execute
  <2>1. UNCHANGED <<servers, published>>
    BY <1>4 DEF M!Execute
  <2>2. PICK i, t, f : M!with_timeout([M!NoWorker EXCEPT !.at = "opening", !.srv = i,
                                          !.want = "call", !.tool = t, !.fits = f])
    BY <1>4 DEF M!Execute
  <2>3. \E x : M!with_timeout(x) /\ WorkerFields(x) /\ x.at = "opening" /\ x.want = "call"
    <3> PICK x : x = [M!NoWorker EXCEPT !.at = "opening", !.srv = i, !.want = "call",
                                        !.tool = t, !.fits = f]
      OBVIOUS
    <3>1. WorkerFields(x) /\ x.at = "opening" /\ x.want = "call"
      BY DEF WorkerFields, M!NoWorker
    <3>2. M!with_timeout(x)
      BY <2>2
    <3> QED BY <3>1, <3>2
  <2> QED BY <1>1, <2>1, <2>3
<1>5. CASE M!Hear
  <2>1. UNCHANGED <<servers, worker>> /\ turn' = 0
    BY <1>5 DEF M!Hear
  <2>2. \A p \in published' : p.tool \in Tools /\ Led(p.srv)
    <3>1. CASE published' = published
      BY <1>2, <3>1
    <3>2. CASE /\ worker[turn].want = "list"
               /\ published' = published \cup
                    {[srv |-> worker[turn].srv, tool |-> t] : t \in Tools}
      <4>1. Led(worker[turn].srv)
        BY <1>5, <3>2 DEF M!Hear, LedInv
      <4> QED BY <1>2, <3>2, <4>1
    <3> QED BY <1>5, <3>1, <3>2 DEF M!Hear
  <2> QED BY <2>1, <2>2, LedStays
<1>6. CASE M!Timeout
  BY <1>2, <1>6, LedStays DEF M!Timeout
<1> QED BY <1>3, <1>4, <1>5, <1>6

\* A tool that the discovery published is one that its name leads back to: the same
\* server, enabled, and the same tool.  The discovery passes the list in order and
\* skips what is shadowed; a call takes the name apart at its first separator and
\* looks the server up anew (mcp.rs, discover, parse_prefixed and execute_mcp).
THEOREM NamesLeadBack ==
  ASSUME PlainNames, CallsAreNumbers
  PROVE  M!Spec => []PublishedLeadsBack
<1>1. M!Init => LedInv
  BY LedInit
<1>2. LedInv /\ [M!Next]_M!vars => LedInv'
  <2> SUFFICES ASSUME LedInv, [M!Next]_M!vars
               PROVE  LedInv'
    OBVIOUS
  <2>1. \A p \in published : p.tool \in Tools /\ Led(p.srv)
    BY DEF LedInv
  <2>2. ASSUME NEW c \in Calls, M!Serve(c) \/ M!Speaks(c) \/ M!Hangup(c)
        PROVE  LedInv'
    BY <2>1, <2>2, LedStays DEF M!Serve, M!Speaks, M!Hangup, M!agent
  <2>3. CASE UNCHANGED M!vars
    BY <2>1, <2>3, LedStays DEF M!vars
  <2> QED BY <2>2, <2>3, AgentStep, WorkerStep DEF M!Next
<1>3. LedInv => PublishedLeadsBack
  <2> SUFFICES ASSUME LedInv
               PROVE  PublishedLeadsBack
    OBVIOUS
  <2>1. \A p \in published : p.tool \in Tools /\ Led(p.srv)
    BY DEF LedInv
  <2> QED BY <2>1, RouteOfLed DEF PublishedLeadsBack, M!PublishedLeadsBack
<1> QED BY <1>1, <1>2, <1>3, PlainNames, CallsAreNumbers, PTL DEF M!Spec

-----------------------------------------------------------------------------
(* The full-screen interface: what Enter would take.                       *)

TallScreens == ScreenRows \subseteq Nat /\ \A r \in ScreenRows : r >= 3

PickerFields(p) ==
  p = [items |-> p.items, selected |-> p.selected, scroll |-> p.scroll, view |-> p.view]
IsPicker(p) ==
  PickerFields(p) /\ IsText(p.items) /\ p.selected \in Nat /\ p.scroll \in Nat /\ p.view \in Nat

\* The selected row is one of the rows, and on a screen of so many lines.
OnScreen(p, tall) ==
  p.items # <<>> => /\ p.selected < Len(p.items) /\ p.scroll <= p.selected
                    /\ 1 + p.selected - p.scroll < tall - 1

PickInv ==
  /\ rows \in Nat /\ rows >= 3 /\ mode \in T!Modes
  /\ pick = [p \in T!Pickers |-> pick[p]] /\ \A p \in T!Pickers : IsPicker(pick[p])
  /\ loop = "wait" /\ mode \in T!Pickers => OnScreen(pick[mode], rows)

LEMMA SmallerOfTwo ==
  ASSUME NEW a \in Nat, NEW b \in Nat
  PROVE  /\ T!Min({a, b}) \in Nat /\ T!Min({a, b}) <= a /\ T!Min({a, b}) <= b
         /\ T!Min({a, b}) \in {a, b}
<1>1. \E m \in {a, b} : \A x \in {a, b} : m <= x
  OBVIOUS
<1>2. T!Min({a, b}) \in {a, b} /\ \A x \in {a, b} : T!Min({a, b}) <= x
  BY <1>1, Zenon DEF T!Min
<1> QED BY <1>2

LEMMA LargerOfTwo ==
  ASSUME NEW a \in Nat, NEW b \in Nat
  PROVE  /\ T!Max({a, b}) \in Nat /\ a <= T!Max({a, b}) /\ b <= T!Max({a, b})
         /\ T!Max({a, b}) \in {a, b}
<1>1. \E m \in {a, b} : \A x \in {a, b} : m >= x
  OBVIOUS
<1>2. T!Max({a, b}) \in {a, b} /\ \A x \in {a, b} : T!Max({a, b}) >= x
  BY <1>1, Zenon DEF T!Max
<1> QED BY <1>2

LEMMA SmallestOfPlaces ==
  ASSUME NEW S, S \subseteq Nat \ {0}, S # {}
  PROVE  T!Min(S) \in Nat \ {0}
<1>1. \E m \in S : \A x \in S : x >= m
  <2>1. PICK m \in S : \A x \in S : m <= x
    BY FirstOfThem
  <2>2. \A x \in S : x >= m
    BY <2>1
  <2> QED BY <2>2
<1>2. T!Min(S) \in S
  BY <1>1, Zenon DEF T!Min
<1> QED BY <1>2

LEMMA ClampFits ==
  ASSUME NEW p, IsPicker(p)
  PROVE  /\ IsPicker(T!clamp(p))
         /\ \A tall \in Nat : tall >= 3 /\ p.view = tall - 2 => OnScreen(T!clamp(p), tall)
<1>1. PickerFields(p) /\ p.selected \in Nat /\ p.scroll \in Nat /\ p.view \in Nat /\ IsText(p.items)
  BY DEF IsPicker
<1>2. PICK G : p.items \in Seq(G)
  BY <1>1 DEF IsText
<1> PICK size : size = Len(p.items)
  OBVIOUS
<1>3. size \in Nat /\ (size = 0 <=> p.items = <<>>)
  BY <1>2, LenProperties, EmptySeq
<1>4. CASE size = 0
  <2> PICK q : q = [p EXCEPT !.selected = 0, !.scroll = 0]
    OBVIOUS
  <2>1. PickerFields(q) /\ q.items = p.items /\ q.selected = 0 /\ q.scroll = 0 /\ q.view = p.view
    BY <1>1 DEF PickerFields
  <2>2. T!clamp(p) = q
    BY <1>4 DEF T!clamp
  <2> QED BY <1>1, <1>3, <1>4, <2>1, <2>2 DEF IsPicker, OnScreen
<1>5. CASE size # 0
  <2>1. PICK chosen \in Nat : chosen = T!Min({p.selected, size - 1}) /\ chosen <= size - 1
    <3>1. size - 1 \in Nat /\ p.selected \in Nat
      BY <1>1, <1>3, <1>5
    <3> QED BY <3>1, SmallerOfTwo
  <2>2. PICK view \in Nat : view = T!Max({p.view, 1}) /\ 1 <= view /\ (1 <= p.view => view = p.view)
    <3>1. p.view \in Nat /\ 1 \in Nat
      BY <1>1
    <3>2. T!Max({p.view, 1}) \in Nat /\ 1 <= T!Max({p.view, 1}) /\ p.view <= T!Max({p.view, 1})
          /\ T!Max({p.view, 1}) \in {p.view, 1}
      BY <3>1, LargerOfTwo
    <3> QED BY <3>1, <3>2
  <2>3. PICK less \in Nat : less = T!Min({view, chosen}) /\ less <= chosen
                           /\ (view <= chosen => less = view)
    <3>1. T!Min({view, chosen}) \in Nat /\ T!Min({view, chosen}) <= chosen
          /\ T!Min({view, chosen}) <= view /\ T!Min({view, chosen}) \in {view, chosen}
      BY SmallerOfTwo
    <3> QED BY <3>1
  <2>4. PICK scroll \in Nat : scroll = p.scroll
    BY <1>1
  <2>5. PICK top \in Nat : /\ top <= chosen /\ chosen - top < view
                          /\ top = IF chosen < scroll THEN chosen
                                   ELSE IF chosen >= scroll + view THEN chosen + 1 - less ELSE scroll
    <3>1. CASE chosen < scroll
      BY <2>2, <3>1
    <3>2. CASE scroll <= chosen /\ chosen < scroll + view
      BY <2>2, <3>2
    <3>3. CASE scroll <= chosen /\ scroll + view <= chosen
      <4>1. view <= chosen /\ chosen + 1 - less = chosen + 1 - view
        BY <2>2, <2>3, <3>3
      <4>2. chosen + 1 - less \in Nat /\ chosen + 1 - less <= chosen
            /\ chosen - (chosen + 1 - less) < view
        BY <2>2, <4>1
      <4> QED BY <3>3, <4>2
    <3> QED BY <3>1, <3>2, <3>3
  <2> PICK q : q = [p EXCEPT !.selected = chosen, !.scroll = top]
    OBVIOUS
  <2>6. PickerFields(q) /\ q.items = p.items /\ q.selected = chosen /\ q.scroll = top /\ q.view = p.view
    BY <1>1 DEF PickerFields
  <2>7. T!clamp(p) = q
    BY <1>5, <2>1, <2>2, <2>3, <2>4, <2>5 DEF T!clamp
  <2>8. IsPicker(q)
    BY <1>1, <2>6 DEF IsPicker
  <2>9. ASSUME NEW tall \in Nat, tall >= 3, p.view = tall - 2
        PROVE  OnScreen(q, tall)
    <3>1. view = tall - 2
      BY <2>2, <2>9
    <3>2. q.selected = chosen /\ q.scroll = top /\ Len(q.items) = size
      BY <2>6
    <3>3. chosen < size /\ 1 + chosen - top < tall - 1
      BY <1>3, <1>5, <2>1, <2>5, <2>9, <3>1
    <3> QED BY <2>5, <3>2, <3>3 DEF OnScreen
  <2> QED BY <2>7, <2>8, <2>9
<1> QED BY <1>4, <1>5

LEMMA MoveKeeps ==
  ASSUME NEW p, IsPicker(p), NEW raised \in BOOLEAN, NEW by \in Nat
  PROVE  IsPicker(T!move(p, raised, by))
<1>1. PickerFields(p) /\ p.selected \in Nat /\ p.scroll \in Nat /\ p.view \in Nat /\ IsText(p.items)
  BY DEF IsPicker
<1>2. PICK G : p.items \in Seq(G)
  BY <1>1 DEF IsText
<1>3. PICK size \in Nat : size = Len(p.items)
  BY <1>2, LenProperties
<1>4. PICK last \in Nat : last = T!Max({size, 1}) - 1
  <2>1. T!Max({size, 1}) \in Nat /\ 1 <= T!Max({size, 1})
    BY LargerOfTwo
  <2> QED BY <2>1
<1>5. PICK less \in Nat : less = T!Min({p.selected, by}) /\ less <= p.selected
  BY <1>1, SmallerOfTwo
<1>6. PICK more \in Nat : more = T!Min({p.selected + by, last})
  <2>1. p.selected + by \in Nat
    BY <1>1
  <2> QED BY <2>1, SmallerOfTwo
<1>7. PICK new \in Nat : new = IF raised THEN p.selected - less
                               ELSE IF p.selected >= last THEN p.selected ELSE more
  BY <1>1, <1>5
<1> PICK q : q = [p EXCEPT !.selected = new]
  OBVIOUS
<1>8. PickerFields(q) /\ q.items = p.items /\ q.selected = new /\ q.scroll = p.scroll /\ q.view = p.view
  BY <1>1 DEF PickerFields
<1>9. T!move(p, raised, by) = q
  BY <1>3, <1>4, <1>5, <1>6, <1>7 DEF T!move
<1> QED BY <1>1, <1>8, <1>9 DEF IsPicker

LEMMA SetItemsKeeps ==
  ASSUME NEW p, IsPicker(p), NEW items, IsText(items)
  PROVE  IsPicker(T!set_items(p, items))
<1>1. PickerFields(p) /\ p.scroll \in Nat /\ p.view \in Nat
  BY DEF IsPicker
<1> DEFINE before == IF p.selected < Len(p.items) THEN T!selected_value(p) ELSE ""
           places == {i \in 1 .. Len(items) : items[i] = before /\ before # ""}
           new == IF places = {} THEN 0 ELSE T!Min(places) - 1
<1>2. T!set_items(p, items) = T!clamp([p EXCEPT !.items = items, !.selected = new])
  BY Zenon DEF T!set_items
<1>3. places \subseteq 1 .. Len(items)
  BY Zenon
<1> HIDE DEF before, places
<1>4. new \in Nat
  <2>1. PICK G : items \in Seq(G)
    BY DEF IsText
  <2>2. Len(items) \in Nat
    BY <2>1, LenProperties
  <2>3. places \subseteq Nat \ {0}
    BY <1>3, <2>2
  <2>4. places # {} => T!Min(places) \in Nat \ {0}
    BY <2>3, SmallestOfPlaces
  <2>5. \A n \in Nat \ {0} : n - 1 \in Nat
    OBVIOUS
  <2> QED BY <2>4, <2>5
<1> HIDE DEF new
<1> PICK q : q = [p EXCEPT !.items = items, !.selected = new]
  OBVIOUS
<1>5. PickerFields(q) /\ q.items = items /\ q.selected = new /\ q.scroll = p.scroll /\ q.view = p.view
  BY <1>1 DEF PickerFields
<1>6. IsPicker(q)
  BY <1>1, <1>4, <1>5 DEF IsPicker
<1>7. T!set_items(p, items) = T!clamp(q)
  BY <1>2
<1> QED BY <1>6, <1>7, ClampFits

\* The pickers after an action that changes at most one of them.
LEMMA OnePicker ==
  ASSUME PickInv, NEW m \in T!Pickers, NEW q, IsPicker(q), pick' = [pick EXCEPT ![m] = q],
         rows' = rows, loop' # "wait", mode' \in T!Modes
  PROVE  PickInv'
<1> DEFINE f == [d \in T!Pickers |-> IF d = m THEN q ELSE pick[d]]
<1>1. pick' = f
  BY DEF PickInv
<1>2. \A d \in T!Pickers : pick'[d] = IF d = m THEN q ELSE pick[d]
  BY <1>1
<1>3. pick' = [d \in T!Pickers |-> pick'[d]]
  BY <1>1
<1> HIDE DEF f
<1>4. \A d \in T!Pickers : IsPicker(pick'[d])
  BY <1>2 DEF PickInv
<1>5. \A d \in T!Pickers : IsPicker(pick[d])'
  BY <1>4 DEF IsPicker, PickerFields, IsText
<1> QED BY <1>3, <1>5 DEF PickInv, T!Modes, T!Pickers, T!Pages

LEMMA NoPicker ==
  ASSUME PickInv, UNCHANGED pick, rows' \in Nat, rows' >= 3, loop' # "wait", mode' \in T!Modes
  PROVE  PickInv'
BY DEF PickInv, IsPicker, PickerFields, IsText, T!Modes, T!Pickers, T!Pages

LEMMA RenderStep ==
  ASSUME PickInv, T!render
  PROVE  PickInv'
<1>1. loop' = "wait" /\ UNCHANGED <<mode, rows>>
  BY DEF T!render
<1>2. CASE mode \notin T!Pickers
  <2>1. UNCHANGED pick
    BY <1>2 DEF T!render
  <2> QED BY <1>1, <1>2, <2>1 DEF PickInv, IsPicker, PickerFields, IsText, T!Modes, T!Pickers, T!Pages
<1>3. CASE mode \in T!Pickers
  <2> PICK p, m : p = pick[m] /\ m = mode
    OBVIOUS
  <2>1. IsPicker(p) /\ m \in T!Pickers /\ rows \in Nat /\ rows >= 3
    BY <1>3 DEF PickInv
  <2>2. \E q : /\ IsPicker(q) /\ q.view = rows - 2 /\ pick' = [pick EXCEPT ![m] = T!clamp(q)]
    <3> PICK q : q = [p EXCEPT !.view = rows - 2]
      OBVIOUS
    <3>1. PickerFields(p)
      BY <2>1 DEF IsPicker
    <3>2. PickerFields(q) /\ q.items = p.items /\ q.selected = p.selected /\ q.scroll = p.scroll
          /\ q.view = rows - 2
      BY <3>1 DEF PickerFields
    <3>3. rows - 2 \in Nat
      BY <2>1
    <3>4. IsPicker(q)
      BY <2>1, <3>2, <3>3 DEF IsPicker
    <3>5. pick' = [pick EXCEPT ![m] = T!clamp(q)]
      BY <1>3 DEF T!render, T!body_rows, PickInv
    <3> QED BY <3>2, <3>4, <3>5
  <2>3. PICK q : /\ IsPicker(q) /\ q.view = rows - 2 /\ pick' = [pick EXCEPT ![m] = T!clamp(q)]
    BY <2>2
  <2> PICK z : z = T!clamp(q)
    OBVIOUS
  <2>4. IsPicker(z) /\ OnScreen(z, rows)
    BY <2>1, <2>3, ClampFits
  <2> DEFINE f == [d \in T!Pickers |-> IF d = m THEN z ELSE pick[d]]
  <2>5. pick' = f
    BY <2>3 DEF PickInv
  <2>6. \A d \in T!Pickers : pick'[d] = IF d = m THEN z ELSE pick[d]
    BY <2>5
  <2>7. pick' = [d \in T!Pickers |-> pick'[d]]
    BY <2>5
  <2> HIDE DEF f
  <2>8. \A d \in T!Pickers : IsPicker(pick'[d])
    BY <2>4, <2>6 DEF PickInv
  <2>9. \A d \in T!Pickers : IsPicker(pick[d])'
    BY <2>8 DEF IsPicker, PickerFields, IsText
  <2>10. OnScreen(pick'[m], rows)
    BY <2>1, <2>4, <2>6
  <2> QED BY <1>1, <2>7, <2>9, <2>10 DEF PickInv, OnScreen, T!Modes, T!Pickers, T!Pages
<1> QED BY <1>2, <1>3

LEMMA ListingsAreTexts ==
  ASSUME NEW m, NEW s \in T!Listings(m)
  PROVE  IsText(s)
<1>1. \A x : IsText(<<x>>)
  <2> SUFFICES ASSUME NEW x PROVE IsText(<<x>>)
    OBVIOUS
  <2>1. <<x>> \in Seq({x})
    OBVIOUS
  <2> QED BY <2>1 DEF IsText
<1>2. \A n \in 1 .. MaxItems : \A t \in [1 .. n -> Listed[m]] : IsText(t)
  <2> SUFFICES ASSUME NEW n \in 1 .. MaxItems, NEW t \in [1 .. n -> Listed[m]]
               PROVE  IsText(t)
    OBVIOUS
  <2>1. n \in Nat
    OBVIOUS
  <2>2. t \in Seq(Listed[m])
    BY <2>1, SeqDef
  <2> QED BY <2>2 DEF IsText
<1> QED BY <1>1, <1>2, Zenon DEF T!Listings

\* The actions that leave the pickers alone.
LEMMA AwayFromPickers ==
  ASSUME TallScreens, PickInv,
         \/ T!PageKey \/ T!FullTranscriptKey \/ T!ResumePicked \/ T!ModelOrSkillPicked
         \/ T!OpenScreen \/ T!interrupt \/ T!Scroll \/ T!SubmitPrompt \/ T!SlashSays
         \/ T!SlashClear \/ T!SlashDelegates \/ T!SlashResume \/ T!OtherKey \/ T!resize \/ T!Exit
  PROVE  PickInv'
<1>1. /\ "Normal" \in T!Modes /\ "FullTranscript" \in T!Modes /\ T!Pages \subseteq T!Modes
      /\ T!Pickers \subseteq T!Modes /\ mode \in T!Modes /\ rows \in Nat /\ rows >= 3
  BY DEF PickInv, T!Modes
<1>2. UNCHANGED pick /\ loop' # "wait" /\ (rows' = rows \/ rows' \in ScreenRows)
  BY DEF T!PageKey, T!FullTranscriptKey, T!ResumePicked, T!ModelOrSkillPicked, T!OpenScreen,
         T!interrupt, T!Scroll, T!SubmitPrompt, T!SlashSays, T!SlashClear, T!SlashDelegates,
         T!SlashResume, T!OtherKey, T!resize, T!Exit, T!Key, T!views
<1>3. mode' \in T!Modes
  BY <1>1 DEF T!PageKey, T!FullTranscriptKey, T!ResumePicked, T!ModelOrSkillPicked, T!OpenScreen,
         T!interrupt, T!Scroll, T!SubmitPrompt, T!SlashSays, T!SlashClear, T!SlashDelegates,
         T!SlashResume, T!OtherKey, T!resize, T!Exit, T!Key
<1>4. rows' \in Nat /\ rows' >= 3
  BY <1>1, <1>2 DEF TallScreens
<1> QED BY <1>2, <1>3, <1>4, NoPicker

LEMMA PickerKeyStep ==
  ASSUME PickInv, T!PickerKey
  PROVE  PickInv'
<1>1. PICK m \in T!Pickers :
        /\ T!Key(m) /\ UNCHANGED rows
        /\ \/ mode' = "Normal" /\ UNCHANGED pick
           \/ /\ \E raised \in BOOLEAN, by \in {1, T!body_rows} :
                   pick' = [pick EXCEPT ![m] = T!move(@, raised, by)]
              /\ UNCHANGED mode
  BY DEF T!PickerKey
<1>2. /\ loop' # "wait" /\ mode \in T!Modes /\ "Normal" \in T!Modes /\ rows \in Nat /\ rows >= 3
      /\ IsPicker(pick[m]) /\ T!body_rows \in Nat
  BY <1>1 DEF PickInv, T!Key, T!Modes, T!body_rows
<1>3. CASE mode' = "Normal" /\ UNCHANGED pick
  BY <1>1, <1>2, <1>3, NoPicker
<1>4. ASSUME NEW raised \in BOOLEAN, NEW by \in {1, T!body_rows},
             pick' = [pick EXCEPT ![m] = T!move(@, raised, by)], UNCHANGED mode
      PROVE  PickInv'
  <2> PICK q : q = T!move(pick[m], raised, by)
    OBVIOUS
  <2>1. IsPicker(q)
    <3>1. by \in Nat
      BY <1>2
    <3> QED BY <1>2, <3>1, MoveKeeps
  <2>2. pick' = [pick EXCEPT ![m] = q]
    BY <1>4 DEF PickInv
  <2> QED BY <1>1, <1>2, <1>4, <2>1, <2>2, OnePicker
<1> QED BY <1>1, <1>3, <1>4

LEMMA OpenStepOfPicker ==
  ASSUME PickInv, T!OpenPicker \/ T!OpenModels
  PROVE  PickInv'
<1>1. /\ loop' # "wait" /\ UNCHANGED rows /\ mode' \in T!Pickers
  BY DEF T!OpenPicker, T!OpenModels, T!Key, T!Pickers
<1>2. T!Pickers \subseteq T!Modes /\ \A m \in T!Pickers : IsPicker(pick[m])
  BY DEF PickInv, T!Modes
<1>3. ASSUME NEW m \in T!Pickers, NEW items, IsText(items),
             pick' = [pick EXCEPT ![m] = T!set_items(@, items)]
      PROVE  PickInv'
  <2> PICK q : q = T!set_items(pick[m], items)
    OBVIOUS
  <2>1. IsPicker(q)
    BY <1>2, <1>3, SetItemsKeeps
  <2>2. pick' = [pick EXCEPT ![m] = q]
    BY <1>3 DEF PickInv
  <2> QED BY <1>1, <1>2, <2>1, <2>2, OnePicker
<1>4. CASE T!OpenPicker
  <2>1. PICK m \in {"Resume", "Skills"} : \E items \in T!Listings(m) :
          pick' = [pick EXCEPT ![m] = T!set_items(@, items)]
    BY <1>4 DEF T!OpenPicker
  <2>2. m \in T!Pickers
    BY DEF T!Pickers
  <2> QED BY <1>3, <2>1, <2>2, ListingsAreTexts
<1>5. CASE T!OpenModels
  <2>1. IsText(<<"resolved">>)
    <3>1. <<"resolved">> \in Seq({"resolved"})
      OBVIOUS
    <3> QED BY <3>1 DEF IsText
  <2>2. "Models" \in T!Pickers
    BY DEF T!Pickers
  <2>3. CASE UNCHANGED pick
    <3>1. rows' \in Nat /\ rows' >= 3
      BY <1>1 DEF PickInv
    <3> QED BY <1>1, <1>2, <2>3, <3>1, NoPicker
  <2>4. CASE pick' = [pick EXCEPT !["Models"] = T!set_items(@, <<"resolved">>)]
    BY <1>3, <2>1, <2>2, <2>4
  <2> QED BY <1>5, <2>3, <2>4 DEF T!OpenModels
<1> QED BY <1>4, <1>5

\* The row Enter would take is on the screen whenever a key is awaited, whatever was
\* listed anew, paged or resized since: the drawing of a picker takes the size of the
\* screen and clamps, and nothing but it lets a key be read (tui/screens.rs, clamp
\* and set_items; tui/app.rs, render).
THEOREM SelectionIsSeen == T!Spec => []SelectionOnScreen
<1>0. TallScreens
  BY InterfacesAssumption DEF T!ScreenAssumption, TallScreens
<1>1. T!Init => PickInv
  <2> SUFFICES ASSUME T!Init
               PROVE  PickInv
    OBVIOUS
  <2>1. IsPicker(T!EmptyPicker)
    BY DEF IsPicker, PickerFields, IsText, T!EmptyPicker
  <2>2. pick = [m \in T!Pickers |-> T!EmptyPicker] /\ loop = "render" /\ mode = "Normal"
        /\ rows \in ScreenRows
    BY DEF T!Init
  <2> QED BY <1>0, <2>1, <2>2 DEF PickInv, TallScreens, T!Modes
<1>2. PickInv /\ [T!Next]_T!vars => PickInv'
  <2> SUFFICES ASSUME PickInv, [T!Next]_T!vars
               PROVE  PickInv'
    OBVIOUS
  <2>1. CASE UNCHANGED T!vars
    BY <2>1 DEF T!vars, PickInv, IsPicker, PickerFields, IsText, OnScreen, T!Modes, T!Pickers, T!Pages
  <2>2. CASE T!Next
    BY <1>0, <2>2, AwayFromPickers, PickerKeyStep, OpenStepOfPicker, RenderStep DEF T!Next
  <2> QED BY <2>1, <2>2
<1>3. PickInv => SelectionOnScreen
  BY DEF PickInv, OnScreen, SelectionOnScreen, T!SelectionOnScreen
<1> QED BY <1>1, <1>2, <1>3, PTL DEF T!Spec

-----------------------------------------------------------------------------
(* The composer.  A text is a sequence of bytes; what a splice makes of it, *)
(* byte by byte, and when a splice takes another one back.                  *)
Bytes == UNION {{c[i] : i \in DOMAIN c} : c \in Chars}
Written == Seq(Bytes)
Edits == [start : Nat, inserted : Written, removed : Written, before : Nat, after : Nat]

\* The result r of putting w in the place of what stands between two offsets of t.
Spliced(r, t, from, to, w) ==
  /\ Len(r) = from + Len(w) + (Len(t) - to)
  /\ \A i \in 1 .. from : r[i] = t[i]
  /\ \A i \in 1 .. Len(w) : r[from + i] = w[i]
  /\ \A i \in 1 .. Len(t) - to : r[from + Len(w) + i] = t[to + i]

LEMMA Concatenated ==
  ASSUME NEW a \in Written, NEW c \in Written
  PROVE  /\ a \o c \in Written /\ Len(a \o c) = Len(a) + Len(c)
         /\ \A i \in 1 .. Len(a) : (a \o c)[i] = a[i]
         /\ \A i \in 1 .. Len(c) : (a \o c)[Len(a) + i] = c[i]
<1>1. Len(a) \in Nat /\ Len(c) \in Nat
  BY DEF Written
<1>2. \A i \in 1 .. Len(a) + Len(c) : (a \o c)[i] = IF i <= Len(a) THEN a[i] ELSE c[i - Len(a)]
  BY ConcatProperties DEF Written
<1>3. a \o c \in Written /\ Len(a \o c) = Len(a) + Len(c)
  BY ConcatProperties DEF Written
<1>4. ASSUME NEW i \in 1 .. Len(c) PROVE (a \o c)[Len(a) + i] = c[i]
  <2>1. Len(a) + i \in 1 .. Len(a) + Len(c) /\ ~(Len(a) + i <= Len(a)) /\ (Len(a) + i) - Len(a) = i
    BY <1>1
  <2> QED BY <1>2, <2>1
<1> QED BY <1>1, <1>2, <1>3, <1>4

LEMMA SpliceIs ==
  ASSUME NEW t \in Written, NEW w \in Written, NEW from \in Nat, NEW to \in Nat,
         from <= to, to <= Len(t)
  PROVE  C!Splice(t, from, to, w) \in Written /\ Spliced(C!Splice(t, from, to, w), t, from, to, w)
<1> DEFINE a == SubSeq(t, 1, from)
           c == SubSeq(t, to + 1, Len(t))
<1>1. Len(t) \in Nat /\ Len(w) \in Nat /\ DOMAIN t = 1 .. Len(t)
  BY DEF Written
<1>2. a \in Written /\ Len(a) = from /\ \A i \in 1 .. from : a[i] = t[i]
  <2>1. \A i \in 1 .. from : t[i] \in Bytes
    BY <1>1 DEF Written
  <2>2. a \in Seq(Bytes)
    BY <1>1, <2>1, SubSeqProperties
  <2>3. Len(a) = from /\ \A i \in 1 .. from : a[i] = t[i]
    BY <1>1, <2>1, SubSeqProperties
  <2> QED BY <2>2, <2>3 DEF Written
<1>3. /\ c \in Written /\ Len(c) = Len(t) - to
      /\ \A i \in 1 .. Len(t) - to : c[i] = t[to + i]
  <2>1. \A i \in to + 1 .. Len(t) : t[i] \in Bytes
    BY <1>1 DEF Written
  <2>2. c \in Seq(Bytes)
    BY <1>1, <2>1, SubSeqProperties
  <2>3. Len(c) = Len(t) - to
    <3>1. Len(c) = IF to + 1 <= Len(t) THEN Len(t) - (to + 1) + 1 ELSE 0
      BY <1>1, <2>1, SubSeqProperties
    <3> DEFINE l == Len(c)
               n == Len(t)
    <3>2. n \in Nat /\ to <= n /\ l = IF to + 1 <= n THEN n - (to + 1) + 1 ELSE 0
      BY <1>1, <3>1
    <3> HIDE DEF l, n, a, c
    <3>3. l = n - to
      BY <3>2
    <3> QED BY <3>3 DEF l, n
  <2>4. ASSUME NEW i \in 1 .. Len(t) - to PROVE c[i] = t[to + i]
    <3>1. i \in 1 .. Len(t) - (to + 1) + 1 /\ (to + 1) + i - 1 = to + i
      BY <1>1
    <3>2. c[i] = t[(to + 1) + i - 1]
      BY <1>1, <2>1, <3>1, SubSeqProperties
    <3> QED BY <3>1, <3>2
  <2> QED BY <2>2, <2>3, <2>4 DEF Written
<1>4. C!Splice(t, from, to, w) = (a \o w) \o c
  BY DEF C!Splice
<1> HIDE DEF a, c
<1> DEFINE b == a \o w
           r == b \o c
<1>5. /\ b \in Written /\ Len(b) = from + Len(w)
      /\ \A i \in 1 .. from : b[i] = t[i]
      /\ \A i \in 1 .. Len(w) : b[from + i] = w[i]
  BY <1>2, Concatenated
<1> HIDE DEF b
<1>6. /\ r \in Written /\ Len(r) = Len(b) + Len(c)
      /\ \A i \in 1 .. Len(b) : r[i] = b[i]
      /\ \A i \in 1 .. Len(c) : r[Len(b) + i] = c[i]
  BY <1>3, <1>5, Concatenated
<1>7. C!Splice(t, from, to, w) = r
  BY <1>4 DEF b
<1> HIDE DEF r
<1>8. /\ Len(r) = from + Len(w) + (Len(t) - to)
      /\ \A i \in 1 .. from : r[i] = t[i]
      /\ \A i \in 1 .. Len(w) : r[from + i] = w[i]
      /\ \A i \in 1 .. Len(t) - to : r[from + Len(w) + i] = t[to + i]
  <2> DEFINE n == Len(t)
             l == Len(w)
  <2>1. /\ n \in Nat /\ l \in Nat /\ to <= n
        /\ Len(b) = from + l /\ Len(c) = n - to /\ Len(r) = Len(b) + Len(c)
    BY <1>1, <1>3, <1>5, <1>6
  <2> HIDE DEF n, l
  <2>2. Len(r) = from + l + (n - to)
    BY <2>1
  <2>3. ASSUME NEW i \in 1 .. from PROVE r[i] = t[i]
    <3>1. i \in 1 .. Len(b)
      BY <2>1
    <3> QED BY <1>5, <1>6, <3>1
  <2>4. ASSUME NEW i \in 1 .. l PROVE r[from + i] = w[i]
    <3>1. from + i \in 1 .. Len(b) /\ i \in 1 .. Len(w)
      BY <2>1 DEF l
    <3> QED BY <1>5, <1>6, <3>1
  <2>5. ASSUME NEW i \in 1 .. n - to PROVE r[from + l + i] = t[to + i]
    <3>1. i \in 1 .. Len(c) /\ i \in 1 .. Len(t) - to
      BY <2>1 DEF n
    <3> QED BY <1>3, <1>6, <2>1, <3>1
  <2> QED BY <2>2, <2>3, <2>4, <2>5 DEF n, l
<1> QED BY <1>6, <1>7, <1>8 DEF Spliced

\* A text of which this is known is the result of the splice.
LEMMA SplicedOnce ==
  ASSUME NEW t \in Written, NEW w \in Written, NEW from \in Nat, NEW to \in Nat,
         from <= to, to <= Len(t), NEW r \in Written, Spliced(r, t, from, to, w)
  PROVE  C!Splice(t, from, to, w) = r
<1> DEFINE q == C!Splice(t, from, to, w)
<1>1. q \in Written /\ Spliced(q, t, from, to, w)
  BY SpliceIs
<1> HIDE DEF q
<1>2. Len(q) = Len(r) /\ Len(r) \in Nat /\ Len(t) \in Nat /\ Len(w) \in Nat
  BY <1>1 DEF Spliced, Written
<1>3. ASSUME NEW i \in 1 .. Len(q) PROVE q[i] = r[i]
  <2> DEFINE n == Len(t)
             l == Len(w)
  <2>1. n \in Nat /\ l \in Nat /\ to <= n /\ Len(r) = from + l + (n - to)
        /\ i \in Nat /\ i > 0 /\ i <= from + l + (n - to)
    BY <1>1, <1>2 DEF Spliced
  <2>2. CASE i <= from
    <3>1. i \in 1 .. from
      BY <2>1, <2>2
    <3> QED BY <1>1, <3>1 DEF Spliced
  <2>3. CASE i > from /\ i <= from + l
    <3> DEFINE j == i - from
    <3>1. j \in 1 .. l /\ i = from + j
      <4> HIDE DEF n, l
      <4> QED BY <2>1, <2>3
    <3> HIDE DEF j
    <3>2. q[from + j] = w[j] /\ r[from + j] = w[j]
      BY <1>1, <3>1 DEF Spliced
    <3> QED BY <3>1, <3>2
  <2>4. CASE i > from + l
    <3> DEFINE j == i - from - l
    <3>1. j \in 1 .. n - to /\ i = from + l + j
      <4> HIDE DEF n, l
      <4> QED BY <2>1, <2>4
    <3> HIDE DEF j
    <3>2. q[from + l + j] = t[to + j] /\ r[from + l + j] = t[to + j]
      BY <1>1, <3>1 DEF Spliced
    <3> QED BY <3>1, <3>2
  <2> HIDE DEF n, l
  <2> QED BY <2>1, <2>2, <2>3, <2>4
<1>4. q = r
  BY <1>1, <1>2, <1>3, SeqEqual DEF Written
<1> QED BY <1>4 DEF q

StoodThere(u, t, from, to) == u = SubSeq(t, from + 1, to)

\* Putting back what stood there takes a splice back.
LEMMA TakesBack ==
  ASSUME NEW t \in Written, NEW w \in Written, NEW from \in Nat, NEW to \in Nat,
         from <= to, to <= Len(t), NEW u \in Written, StoodThere(u, t, from, to),
         NEW r, r = C!Splice(t, from, to, w)
  PROVE  C!Splice(r, from, from + Len(w), u) = t
<1> DEFINE n == Len(t)
           l == Len(w)
<1>1. r \in Written /\ Spliced(r, t, from, to, w)
  BY SpliceIs
<1>2. n \in Nat /\ l \in Nat /\ to <= n /\ Len(r) = from + l + (n - to) /\ Len(r) \in Nat
  BY <1>1 DEF Spliced, Written
<1>3. Len(u) = to - from /\ \A i \in 1 .. to - from : u[i] = t[from + i]
  <2>1. \A i \in from + 1 .. to : t[i] \in Bytes
    BY <1>2 DEF Written
  <2>2. Len(u) = IF from + 1 <= to THEN to - (from + 1) + 1 ELSE 0
    BY <2>1, SubSeqProperties DEF StoodThere
  <2>3. ASSUME NEW i \in 1 .. to - from PROVE u[i] = t[from + i]
    <3>1. i \in 1 .. to - (from + 1) + 1 /\ (from + 1) + i - 1 = from + i
      OBVIOUS
    <3>2. u[i] = t[(from + 1) + i - 1]
      BY <2>1, <3>1, SubSeqProperties DEF StoodThere
    <3> QED BY <3>1, <3>2
  <2> QED BY <2>2, <2>3
<1>4. from + l \in Nat /\ from <= from + l /\ from + l <= Len(r)
  <2> HIDE DEF n, l
  <2> QED BY <1>2
<1>5. Spliced(t, r, from, from + l, u)
  <2>1. n = from + Len(u) + (Len(r) - (from + l)) /\ Len(r) - (from + l) = n - to
    <3> HIDE DEF n, l
    <3> QED BY <1>2, <1>3
  <2>2. \A i \in 1 .. from : t[i] = r[i]
    BY <1>1 DEF Spliced
  <2>3. \A i \in 1 .. Len(u) : t[from + i] = u[i]
    BY <1>3
  <2>4. ASSUME NEW i \in 1 .. n - to PROVE t[from + Len(u) + i] = r[from + l + i]
    <3>1. r[from + l + i] = t[to + i]
      BY <1>1 DEF Spliced
    <3>2. from + Len(u) + i = to + i
      <4> HIDE DEF n, l
      <4> QED BY <1>2, <1>3
    <3> QED BY <3>1, <3>2
  <2> QED BY <2>1, <2>2, <2>3, <2>4 DEF Spliced
<1>6. C!Splice(r, from, from + l, u) = t
  BY <1>1, <1>4, <1>5, SplicedOnce
<1> QED BY <1>6

\* What was put in where an insertion ended is taken out together with it.
LEMMA JoinsBack ==
  ASSUME NEW t \in Written, NEW w \in Written, NEW from \in Nat, NEW at \in Nat,
         from <= at, at <= Len(t), NEW r, r = C!Splice(t, at, at, w)
  PROVE  C!Splice(r, from, at + Len(w), <<>>) = C!Splice(t, from, at, <<>>)
<1> DEFINE q == C!Splice(t, from, at, <<>>)
           n == Len(t)
           l == Len(w)
<1>1. <<>> \in Written /\ Len(<<>>) = 0
  BY DEF Written
<1>2. r \in Written /\ Spliced(r, t, at, at, w)
  BY SpliceIs
<1>3. q \in Written /\ Spliced(q, t, from, at, <<>>)
  BY <1>1, SpliceIs
<1> HIDE DEF q
<1>4. /\ n \in Nat /\ l \in Nat /\ at <= n /\ Len(r) = at + l + (n - at) /\ Len(r) \in Nat
      /\ Len(q) = from + 0 + (n - at)
  BY <1>1, <1>2, <1>3 DEF Spliced, Written
<1>5. at + l \in Nat /\ from <= at + l /\ at + l <= Len(r)
  <2> HIDE DEF n, l
  <2> QED BY <1>4
<1>6. Spliced(q, r, from, at + l, <<>>)
  <2>1. Len(q) = from + Len(<<>>) + (Len(r) - (at + l)) /\ Len(r) - (at + l) = n - at
    <3> HIDE DEF n, l
    <3> QED BY <1>1, <1>4
  <2>2. ASSUME NEW i \in 1 .. from PROVE q[i] = r[i]
    <3>1. i \in 1 .. at
      OBVIOUS
    <3> QED BY <1>2, <1>3, <3>1 DEF Spliced
  <2>3. ASSUME NEW i \in 1 .. n - at PROVE q[from + Len(<<>>) + i] = r[at + l + i]
    BY <1>2, <1>3 DEF Spliced
  <2>4. \A i \in 1 .. Len(<<>>) : q[from + i] = <<>>[i]
    BY <1>1
  <2>5. \A i \in 1 .. Len(r) - (at + l) : q[from + Len(<<>>) + i] = r[at + l + i]
    BY <2>1, <2>3
  <2> HIDE DEF n, l
  <2> QED BY <2>1, <2>2, <2>4, <2>5 DEF Spliced
<1>7. C!Splice(r, from, at + l, <<>>) = q
  BY <1>1, <1>2, <1>3, <1>5, <1>6, SplicedOnce
<1> QED BY <1>7 DEF q

-----------------------------------------------------------------------------
(* What the undo stack makes of a text, entry by entry from the newest.     *)
Unwinds(f, text, edits) ==
  f = [n \in 0 .. Len(edits) |->
         IF n = Len(edits) THEN text
         ELSE C!Splice(f[n + 1], edits[n + 1].start,
                       edits[n + 1].start + Len(edits[n + 1].inserted), edits[n + 1].removed)]

Unwound(text, edits) == CHOOSE f : Unwinds(f, text, edits)

LEMMA LeadsBackIs == UndoLeadsBack <=> (base # <<"?">> => Unwound(input, undo)[0] = base)
BY DEF UndoLeadsBack, C!UndoLeadsBack, Unwound, Unwinds

\* The text before an edit, from the one after it.
Before(e, text) == C!Splice(text, e.start, e.start + Len(e.inserted), e.removed)

\* The same for the k newest entries.
PartlyUnwinds(f, text, edits, k) ==
  f = [n \in Len(edits) - k .. Len(edits) |->
         IF n = Len(edits) THEN text ELSE Before(edits[n + 1], f[n + 1])]

LEMMA PartUnwinds ==
  ASSUME NEW text, NEW edits, Len(edits) \in Nat
  PROVE  \E f : PartlyUnwinds(f, text, edits, Len(edits))
<1> DEFINE l == Len(edits)
           Bad == {k \in 0 .. l : ~ \E f : PartlyUnwinds(f, text, edits, k)}
<1>1. Bad = {}
  <2> SUFFICES ASSUME Bad # {} PROVE FALSE
    OBVIOUS
  <2>1. PICK k \in Bad : \A m \in Bad : k <= m
    <3> Bad \subseteq Nat
      OBVIOUS
    <3> HIDE DEF Bad
    <3> QED BY FirstOfThem
  <2>2. k \in 0 .. l /\ l \in Nat
    OBVIOUS
  <2>3. CASE k = 0
    <3> DEFINE h == [n \in l - 0 .. l |-> text]
    <3>1. \A n \in l - 0 .. l : n = l
      BY <2>2
    <3>2. h = [n \in l - 0 .. l |-> IF n = l THEN text ELSE Before(edits[n + 1], h[n + 1])]
      BY <3>1
    <3> HIDE DEF h
    <3>3. PartlyUnwinds(h, text, edits, 0)
      BY <3>2 DEF PartlyUnwinds
    <3> QED BY <2>1, <2>3, <3>3
  <2>4. CASE k > 0
    <3>1. k - 1 \in 0 .. l /\ k - 1 \notin Bad
      BY <2>1, <2>2, <2>4
    <3>2. PICK f : PartlyUnwinds(f, text, edits, k - 1)
      BY <3>1
    <3> DEFINE More(n) == IF n = l THEN text ELSE Before(edits[n + 1], f[n + 1])
    <3>3. \A n \in l - (k - 1) .. l : f[n] = More(n)
      BY <3>2, Zenon DEF PartlyUnwinds
    <3> DEFINE h == [n \in l - k .. l |-> More(n)]
    <3>4. ASSUME NEW n \in l - k .. l
          PROVE  h[n] = IF n = l THEN text ELSE Before(edits[n + 1], h[n + 1])
      <4>1. CASE n = l
        BY <4>1
      <4>2. CASE n # l
        <5>1. n + 1 \in l - (k - 1) .. l /\ n + 1 \in l - k .. l
          <6> HIDE DEF l
          <6> QED BY <2>2, <4>2
        <5>2. h[n + 1] = More(n + 1)
          BY <5>1
        <5>3. h[n + 1] = f[n + 1]
          BY <3>3, <5>1, <5>2
        <5> QED BY <4>2, <5>3
      <4> QED BY <4>1, <4>2
    <3>5. h = [n \in l - k .. l |-> h[n]]
      OBVIOUS
    <3> HIDE DEF h
    <3>6. PartlyUnwinds(h, text, edits, k)
      BY <3>4, <3>5, Zenon DEF PartlyUnwinds
    <3> QED BY <2>1, <3>6
  <2> QED BY <2>2, <2>3, <2>4
<1>2. l \in 0 .. l
  OBVIOUS
<1> QED BY <1>1, <1>2

\* What the equation says of each place in the stack.
LEMMA UnwoundStep ==
  ASSUME NEW text, NEW edits, Len(edits) \in Nat
  PROVE  /\ Unwound(text, edits)[Len(edits)] = text
         /\ \A n \in 0 .. Len(edits) : n # Len(edits) =>
              Unwound(text, edits)[n] = Before(edits[n + 1], Unwound(text, edits)[n + 1])
<1>1. PICK f : PartlyUnwinds(f, text, edits, Len(edits))
  BY PartUnwinds
<1>2. Len(edits) - Len(edits) = 0
  OBVIOUS
<1>3. Unwinds(f, text, edits)
  BY <1>1, <1>2 DEF PartlyUnwinds, Unwinds, Before
<1>4. Unwinds(Unwound(text, edits), text, edits)
  BY <1>3, Zenon DEF Unwound
<1> DEFINE u == Unwound(text, edits)
<1> HIDE DEF u
<1>5. \A n \in 0 .. Len(edits) : u[n] = IF n = Len(edits) THEN text ELSE Before(edits[n + 1], u[n + 1])
  BY <1>4, Zenon DEF Unwinds, Before, u
<1>6. Len(edits) \in 0 .. Len(edits)
  OBVIOUS
<1> QED BY <1>5, <1>6 DEF u

\* Two stacks whose oldest entries are the same lead back to the same text, if
\* they do from there on.
LEMMA SameEnd ==
  ASSUME NEW t1, NEW t2, NEW e1, NEW e2, Len(e1) \in Nat, Len(e2) \in Nat,
         NEW k \in Nat, k <= Len(e1), k <= Len(e2),
         \A i \in 1 .. k : e1[i] = e2[i], Unwound(t1, e1)[k] = Unwound(t2, e2)[k]
  PROVE  Unwound(t1, e1)[0] = Unwound(t2, e2)[0]
<1> DEFINE u1 == Unwound(t1, e1)
           u2 == Unwound(t2, e2)
           Bad == {m \in 0 .. k : u1[k - m] # u2[k - m]}
<1> SUFFICES Bad = {}
  <2>1. k \in 0 .. k /\ k - k = 0
    OBVIOUS
  <2>2. k \notin Bad
    OBVIOUS
  <2> HIDE DEF u1, u2
  <2>3. u1[0] = u2[0]
    BY <2>1, <2>2
  <2> QED BY <2>3 DEF u1, u2
<1> SUFFICES ASSUME Bad # {} PROVE FALSE
  OBVIOUS
<1>1. PICK m \in Bad : \A j \in Bad : m <= j
  <2> Bad \subseteq Nat
    OBVIOUS
  <2> HIDE DEF Bad
  <2> QED BY FirstOfThem
<1>2. u1[k] = u2[k]
  OBVIOUS
<1>3. /\ \A n \in 0 .. Len(e1) : n # Len(e1) => u1[n] = Before(e1[n + 1], u1[n + 1])
      /\ \A n \in 0 .. Len(e2) : n # Len(e2) => u2[n] = Before(e2[n + 1], u2[n + 1])
  BY UnwoundStep
<1> HIDE DEF u1, u2
<1>4. m \in 0 .. k /\ u1[k - m] # u2[k - m]
  BY <1>1
<1>5. m # 0 /\ m - 1 \in 0 .. k
  BY <1>2, <1>4
<1>6. u1[k - (m - 1)] = u2[k - (m - 1)]
  <2>1. m \in Nat /\ ~(m <= m - 1)
    BY <1>4
  <2> DEFINE d == m - 1
  <2>2. d \notin Bad
    <3> HIDE DEF Bad
    <3> QED BY <1>1, <2>1
  <2>3. d \in 0 .. k
    BY <1>5
  <2> HIDE DEF d
  <2>4. u1[k - d] = u2[k - d]
    BY <2>2, <2>3
  <2> QED BY <2>4 DEF d
<1> DEFINE n == k - m
<1>7. n \in 0 .. Len(e1) /\ n \in 0 .. Len(e2) /\ n # Len(e1) /\ n # Len(e2)
      /\ n + 1 \in 1 .. k /\ k - (m - 1) = n + 1
  BY <1>4, <1>5
<1>8. u1[n] # u2[n]
  BY <1>4
<1> HIDE DEF n
<1> QED BY <1>3, <1>6, <1>7, <1>8

-----------------------------------------------------------------------------
(* Offsets: wherever a key puts the cursor, it stays in the text.           *)
LEMMA MinIs ==
  ASSUME NEW S \in SUBSET Nat, S # {}
  PROVE  C!Min(S) \in S /\ \A y \in S : C!Min(S) <= y
<1>1. \E x \in S : \A y \in S : x <= y
  BY FirstOfThem
<1> QED BY <1>1 DEF C!Min

LEMMA MaxIs ==
  ASSUME NEW n \in Nat, NEW S \in SUBSET (0 .. n), S # {}
  PROVE  C!Max(S) \in S /\ \A y \in S : C!Max(S) >= y
<1> DEFINE Below == {n - x : x \in S}
<1>1. Below \subseteq Nat /\ Below # {}
  <2>1. \A x \in S : n - x \in Nat
    OBVIOUS
  <2> QED BY <2>1
<1>2. PICK r \in Below : \A y \in Below : r <= y
  <2> HIDE DEF Below
  <2> QED BY <1>1, FirstOfThem
<1>3. PICK x \in S : r = n - x
  BY <1>2
<1>4. ASSUME NEW y \in S PROVE x >= y
  <2>1. n - y \in Below
    OBVIOUS
  <2>2. n - x <= n - y
    BY <1>2, <1>3, <2>1
  <2>3. x \in 0 .. n /\ y \in 0 .. n
    OBVIOUS
  <2> QED BY <2>2, <2>3
<1>5. \E z \in S : \A y \in S : z >= y
  BY <1>4
<1> QED BY <1>5 DEF C!Max

LEMMA LenIsNumber == ASSUME NEW text \in Written PROVE Len(text) \in Nat
BY DEF Written

LEMMA CharStart ==
  ASSUME NEW text \in Written, NEW end \in Nat
  PROVE  /\ C!previous_character_start(text, end) \in 0 .. Len(text)
         /\ end > 0 => C!previous_character_start(text, end) < end
<1> DEFINE S == {i \in C!UnitStarts(text) : i < end} \cup {0}
<1>1. S \in SUBSET (0 .. Len(text)) /\ S # {}
  BY LenIsNumber DEF C!UnitStarts
<1>2. C!Max(S) \in S
  <2> HIDE DEF S
  <2> QED BY <1>1, LenIsNumber, MaxIs
<1>3. C!previous_character_start(text, end) = C!Max(S)
  BY DEF C!previous_character_start
<1>4. \A x \in S : end > 0 => x < end
  OBVIOUS
<1> HIDE DEF S
<1> QED BY <1>1, <1>2, <1>3, <1>4

LEMMA CharEnd ==
  ASSUME NEW text \in Written, NEW start \in Nat
  PROVE  /\ C!next_character_end(text, start) \in 0 .. Len(text)
         /\ start < Len(text) => C!next_character_end(text, start) > start
<1> DEFINE S == {i \in C!UnitStarts(text) : i > start} \cup {Len(text)}
<1>1. S \in SUBSET (0 .. Len(text)) /\ S # {}
  BY LenIsNumber DEF C!UnitStarts
<1>2. C!Min(S) \in S
  <2>1. S \in SUBSET Nat
    BY <1>1
  <2> HIDE DEF S
  <2> QED BY <1>1, <2>1, MinIs
<1>3. C!next_character_end(text, start) = C!Min(S)
  BY DEF C!next_character_end
<1>4. \A x \in S : start < Len(text) => x > start
  OBVIOUS
<1> HIDE DEF S
<1> QED BY <1>1, <1>2, <1>3, <1>4

\* A walk from place to place that ends where it is told to stop.
Walks(f, D, stop, p) == f = [i \in D |-> IF i \in stop THEN i ELSE f[p[i]]]

\* Each step that it takes leads nearer to the end, which is n steps away at most.
Nearer(D, stop, p, m, n) ==
  /\ m \in [D -> 0 .. n]
  /\ \A i \in D \ stop : p[i] \in D /\ m[p[i]] < m[i]

LEMMA WalkExists ==
  ASSUME NEW D, NEW stop, NEW p, NEW m, NEW n \in Nat, Nearer(D, stop, p, m, n)
  PROVE  \E f : Walks(f, D, stop, p)
<1> DEFINE Near(k) == {i \in D : m[i] <= k}
           Bad == {k \in 0 .. n : ~ \E f : Walks(f, Near(k), stop, p)}
<1>1. Bad = {}
  <2> SUFFICES ASSUME Bad # {} PROVE FALSE
    OBVIOUS
  <2>1. PICK k \in Bad : \A j \in Bad : k <= j
    <3> Bad \subseteq Nat
      OBVIOUS
    <3> HIDE DEF Bad
    <3> QED BY FirstOfThem
  <2>2. k \in 0 .. n
    OBVIOUS
  <2>3. \A i \in Near(k) : i \notin stop => m[i] \in 1 .. k /\ p[i] \in D /\ m[p[i]] <= k - 1 /\ k - 1 \in 0 .. n
    BY <2>2 DEF Nearer
  <2>4. PICK f : k - 1 \in 0 .. n => Walks(f, Near(k - 1), stop, p)
    <3>1. k - 1 < k
      BY <2>2
    <3>2. k - 1 \notin Bad
      <4> HIDE DEF Bad
      <4> QED BY <2>1, <2>2, <3>1
    <3> QED BY <3>2
  <2> DEFINE More(i) == IF i \in stop THEN i ELSE f[p[i]]
             h == [i \in Near(k) |-> More(i)]
  <2>5. ASSUME NEW i \in Near(k) PROVE h[i] = IF i \in stop THEN i ELSE h[p[i]]
    <3>1. CASE i \in stop
      BY <3>1
    <3>2. CASE i \notin stop
      <4>1. k - 1 \in 0 .. n /\ p[i] \in Near(k - 1) /\ p[i] \in Near(k)
        BY <2>2, <2>3, <3>2 DEF Nearer
      <4>2. f[p[i]] = More(p[i])
        BY <2>4, <4>1, Zenon DEF Walks
      <4>3. h[p[i]] = More(p[i])
        BY <4>1
      <4> QED BY <3>2, <4>2, <4>3
    <3> QED BY <3>1, <3>2
  <2>6. h = [i \in Near(k) |-> h[i]]
    OBVIOUS
  <2> HIDE DEF h
  <2>7. Walks(h, Near(k), stop, p)
    BY <2>5, <2>6, Zenon DEF Walks
  <2> QED BY <2>1, <2>7
<1>2. n \in 0 .. n /\ Near(n) = D
  BY DEF Nearer
<1> QED BY <1>1, <1>2

LEMMA WalkStays ==
  ASSUME NEW D, NEW stop, NEW p, NEW m, NEW n \in Nat, Nearer(D, stop, p, m, n),
         NEW f, Walks(f, D, stop, p)
  PROVE  \A i \in D : f[i] \in D
<1> DEFINE Bad == {i \in D : f[i] \notin D}
           How == {m[i] : i \in Bad}
<1> SUFFICES ASSUME Bad # {} PROVE FALSE
  OBVIOUS
<1>1. PICK k \in How : \A j \in How : k <= j
  <2>1. How \subseteq Nat /\ How # {}
    BY DEF Nearer
  <2> HIDE DEF How
  <2> QED BY <2>1, FirstOfThem
<1>2. PICK i \in Bad : m[i] = k
  BY <1>1
<1>3. f[i] = IF i \in stop THEN i ELSE f[p[i]]
  BY <1>2, Zenon DEF Walks
<1>4. i \notin stop /\ i \in D
  BY <1>2, <1>3
<1>5. p[i] \in D /\ m[p[i]] < m[i] /\ m[p[i]] \in Nat /\ m[i] \in Nat
  BY <1>4 DEF Nearer
<1>6. p[i] \notin Bad
  <2> SUFFICES ASSUME p[i] \in Bad PROVE FALSE
    OBVIOUS
  <2>1. m[p[i]] \in How
    OBVIOUS
  <2>2. m[i] <= m[p[i]]
    BY <1>1, <1>2, <2>1
  <2> QED BY <1>5, <2>2
<1> QED BY <1>2, <1>3, <1>4, <1>5, <1>6

\* To the start of a word: first out of the gap, then through the word.
StopsInWord(text) == {i \in 0 .. Len(text) : i = 0 \/ C!CharAt(text, C!previous_character_start(text, i)) \in Word}
StopsInGap(text) == {i \in 0 .. Len(text) : i = 0 \/ C!CharAt(text, C!previous_character_start(text, i)) \notin Word}
Backward(text) == [i \in 0 .. Len(text) |-> C!previous_character_start(text, i)]

IsGapBack(f, text) ==
  f = [i \in 0 .. Len(text) |->
         IF i = 0 \/ C!CharAt(text, C!previous_character_start(text, i)) \in Word THEN i
         ELSE f[C!previous_character_start(text, i)]]
IsWordBack(f, text) ==
  f = [i \in 0 .. Len(text) |->
         IF i = 0 \/ ~(C!CharAt(text, C!previous_character_start(text, i)) \in Word) THEN i
         ELSE f[C!previous_character_start(text, i)]]
GapBack(text) == CHOOSE f : IsGapBack(f, text)
WordBack(text) == CHOOSE f : IsWordBack(f, text)

LEMMA WordStartIs ==
  ASSUME NEW text, NEW at
  PROVE  C!previous_word_start(text, at) = WordBack(text)[GapBack(text)[C!Min({at, Len(text)})]]
BY DEF C!previous_word_start, WordBack, GapBack, IsWordBack, IsGapBack

LEMMA BackNearer ==
  ASSUME NEW text \in Written, NEW stop, 0 \in stop
  PROVE  Nearer(0 .. Len(text), stop, Backward(text), [i \in 0 .. Len(text) |-> i], Len(text))
<1> DEFINE n == Len(text)
           m == [i \in 0 .. n |-> i]
<1>1. n \in Nat
  BY LenIsNumber
<1>2. ASSUME NEW i \in (0 .. n) \ stop PROVE Backward(text)[i] \in 0 .. n /\ Backward(text)[i] < i
  <2>1. i \in Nat /\ i > 0 /\ i \in 0 .. Len(text)
    BY <1>1
  <2>2. Backward(text)[i] = C!previous_character_start(text, i)
    BY <2>1 DEF Backward
  <2> QED BY <2>1, <2>2, CharStart
<1>3. m \in [0 .. n -> 0 .. n] /\ \A i \in 0 .. n : m[i] = i
  OBVIOUS
<1> HIDE DEF m, n
<1>4. Nearer(0 .. n, stop, Backward(text), m, n)
  BY <1>1, <1>2, <1>3 DEF Nearer
<1> QED BY <1>4 DEF m, n

LEMMA GapBackStays ==
  ASSUME NEW text \in Written
  PROVE  \A i \in 0 .. Len(text) : GapBack(text)[i] \in 0 .. Len(text)
<1> DEFINE D == 0 .. Len(text)
           s == StopsInWord(text)
           p == Backward(text)
<1>1. \A f : Walks(f, D, s, p) <=> IsGapBack(f, text)
  <2> TAKE f
  <2>1. [i \in D |-> IF i \in s THEN i ELSE f[p[i]]]
        = [i \in D |->
             IF i = 0 \/ C!CharAt(text, C!previous_character_start(text, i)) \in Word THEN i
             ELSE f[C!previous_character_start(text, i)]]
    BY DEF StopsInWord, Backward
  <2> HIDE DEF D, s, p
  <2> QED BY <2>1, Zenon DEF Walks, IsGapBack, D
<1>2. Nearer(D, s, p, [i \in D |-> i], Len(text)) /\ Len(text) \in Nat
  BY BackNearer, LenIsNumber DEF StopsInWord
<1> HIDE DEF D, s, p
<1>3. \E f : Walks(f, D, s, p)
  BY <1>2, WalkExists
<1>4. IsGapBack(GapBack(text), text)
  BY <1>1, <1>3, Zenon DEF GapBack
<1>5. \A i \in D : GapBack(text)[i] \in D
  BY <1>1, <1>2, <1>4, WalkStays
<1> QED BY <1>5 DEF D

LEMMA WordBackStays ==
  ASSUME NEW text \in Written
  PROVE  \A i \in 0 .. Len(text) : WordBack(text)[i] \in 0 .. Len(text)
<1> DEFINE D == 0 .. Len(text)
           s == StopsInGap(text)
           p == Backward(text)
<1>1. \A f : Walks(f, D, s, p) <=> IsWordBack(f, text)
  <2> TAKE f
  <2>1. [i \in D |-> IF i \in s THEN i ELSE f[p[i]]]
        = [i \in D |->
             IF i = 0 \/ ~(C!CharAt(text, C!previous_character_start(text, i)) \in Word) THEN i
             ELSE f[C!previous_character_start(text, i)]]
    BY DEF StopsInGap, Backward
  <2> HIDE DEF D, s, p
  <2> QED BY <2>1, Zenon DEF Walks, IsWordBack, D
<1>2. Nearer(D, s, p, [i \in D |-> i], Len(text)) /\ Len(text) \in Nat
  BY BackNearer, LenIsNumber DEF StopsInGap
<1> HIDE DEF D, s, p
<1>3. \E f : Walks(f, D, s, p)
  BY <1>2, WalkExists
<1>4. IsWordBack(WordBack(text), text)
  BY <1>1, <1>3, Zenon DEF WordBack
<1>5. \A i \in D : WordBack(text)[i] \in D
  BY <1>1, <1>2, <1>4, WalkStays
<1> QED BY <1>5 DEF D

LEMMA MinOfTwo ==
  ASSUME NEW a \in Nat, NEW b \in Nat
  PROVE  C!Min({a, b}) \in 0 .. b /\ C!Min({a, b}) \in 0 .. a
<1>1. {a, b} \in SUBSET Nat /\ {a, b} # {}
  OBVIOUS
<1>2. C!Min({a, b}) \in {a, b} /\ C!Min({a, b}) <= a /\ C!Min({a, b}) <= b
  BY <1>1, MinIs
<1> QED BY <1>2

LEMMA WordStart ==
  ASSUME NEW text \in Written, NEW at \in Nat
  PROVE  C!previous_word_start(text, at) \in 0 .. Len(text)
<1>1. C!Min({at, Len(text)}) \in 0 .. Len(text)
  BY LenIsNumber, MinOfTwo
<1>2. GapBack(text)[C!Min({at, Len(text)})] \in 0 .. Len(text)
  BY <1>1, GapBackStays
<1> QED BY <1>2, WordBackStays, WordStartIs

\* To the end of a word, in the same way.
EndsInWord(text) == {i \in 0 .. Len(text) : i = Len(text) \/ C!CharAt(text, i) \in Word}
EndsInGap(text) == {i \in 0 .. Len(text) : i = Len(text) \/ C!CharAt(text, i) \notin Word}
Forward(text) == [i \in 0 .. Len(text) |-> C!next_character_end(text, i)]

IsGapOn(f, text) ==
  f = [i \in 0 .. Len(text) |->
         IF i = Len(text) \/ C!CharAt(text, i) \in Word THEN i
         ELSE f[C!next_character_end(text, i)]]
IsWordOn(f, text) ==
  f = [i \in 0 .. Len(text) |->
         IF i = Len(text) \/ ~(C!CharAt(text, i) \in Word) THEN i
         ELSE f[C!next_character_end(text, i)]]
GapOn(text) == CHOOSE f : IsGapOn(f, text)
WordOn(text) == CHOOSE f : IsWordOn(f, text)

LEMMA WordEndIs ==
  ASSUME NEW text, NEW at
  PROVE  C!next_word_end(text, at) = WordOn(text)[GapOn(text)[C!Min({at, Len(text)})]]
BY DEF C!next_word_end, WordOn, GapOn, IsWordOn, IsGapOn

LEMMA OnNearer ==
  ASSUME NEW text \in Written, NEW stop, Len(text) \in stop
  PROVE  Nearer(0 .. Len(text), stop, Forward(text), [i \in 0 .. Len(text) |-> Len(text) - i], Len(text))
<1> DEFINE n == Len(text)
           m == [i \in 0 .. n |-> n - i]
<1>1. n \in Nat
  BY LenIsNumber
<1>2. ASSUME NEW i \in (0 .. n) \ stop PROVE Forward(text)[i] \in 0 .. n /\ Forward(text)[i] > i
  <2>1. i \in Nat /\ i < Len(text) /\ i \in 0 .. Len(text)
    BY <1>1
  <2>2. Forward(text)[i] = C!next_character_end(text, i)
    BY <2>1 DEF Forward
  <2> QED BY <2>1, <2>2, CharEnd
<1>3. m \in [0 .. n -> 0 .. n] /\ \A i \in 0 .. n : m[i] = n - i
  OBVIOUS
<1> HIDE DEF m, n
<1>4. Nearer(0 .. n, stop, Forward(text), m, n)
  BY <1>1, <1>2, <1>3 DEF Nearer
<1> QED BY <1>4 DEF m, n

LEMMA GapOnStays ==
  ASSUME NEW text \in Written
  PROVE  \A i \in 0 .. Len(text) : GapOn(text)[i] \in 0 .. Len(text)
<1> DEFINE D == 0 .. Len(text)
           s == EndsInWord(text)
           p == Forward(text)
<1>1. \A f : Walks(f, D, s, p) <=> IsGapOn(f, text)
  <2> TAKE f
  <2>1. [i \in D |-> IF i \in s THEN i ELSE f[p[i]]]
        = [i \in D |->
             IF i = Len(text) \/ C!CharAt(text, i) \in Word THEN i
             ELSE f[C!next_character_end(text, i)]]
    BY DEF EndsInWord, Forward
  <2> HIDE DEF D, s, p
  <2> QED BY <2>1, Zenon DEF Walks, IsGapOn, D
<1>2. Nearer(D, s, p, [i \in D |-> Len(text) - i], Len(text)) /\ Len(text) \in Nat
  BY OnNearer, LenIsNumber DEF EndsInWord
<1> HIDE DEF D, s, p
<1>3. \E f : Walks(f, D, s, p)
  BY <1>2, WalkExists
<1>4. IsGapOn(GapOn(text), text)
  BY <1>1, <1>3, Zenon DEF GapOn
<1>5. \A i \in D : GapOn(text)[i] \in D
  BY <1>1, <1>2, <1>4, WalkStays
<1> QED BY <1>5 DEF D

LEMMA WordOnStays ==
  ASSUME NEW text \in Written
  PROVE  \A i \in 0 .. Len(text) : WordOn(text)[i] \in 0 .. Len(text)
<1> DEFINE D == 0 .. Len(text)
           s == EndsInGap(text)
           p == Forward(text)
<1>1. \A f : Walks(f, D, s, p) <=> IsWordOn(f, text)
  <2> TAKE f
  <2>1. [i \in D |-> IF i \in s THEN i ELSE f[p[i]]]
        = [i \in D |->
             IF i = Len(text) \/ ~(C!CharAt(text, i) \in Word) THEN i
             ELSE f[C!next_character_end(text, i)]]
    BY DEF EndsInGap, Forward
  <2> HIDE DEF D, s, p
  <2> QED BY <2>1, Zenon DEF Walks, IsWordOn, D
<1>2. Nearer(D, s, p, [i \in D |-> Len(text) - i], Len(text)) /\ Len(text) \in Nat
  BY OnNearer, LenIsNumber DEF EndsInGap
<1> HIDE DEF D, s, p
<1>3. \E f : Walks(f, D, s, p)
  BY <1>2, WalkExists
<1>4. IsWordOn(WordOn(text), text)
  BY <1>1, <1>3, Zenon DEF WordOn
<1>5. \A i \in D : WordOn(text)[i] \in D
  BY <1>1, <1>2, <1>4, WalkStays
<1> QED BY <1>5 DEF D

LEMMA WordEnd ==
  ASSUME NEW text \in Written, NEW at \in Nat
  PROVE  C!next_word_end(text, at) \in 0 .. Len(text)
<1>1. C!Min({at, Len(text)}) \in 0 .. Len(text)
  BY LenIsNumber, MinOfTwo
<1>2. GapOn(text)[C!Min({at, Len(text)})] \in 0 .. Len(text)
  BY <1>1, GapOnStays
<1> QED BY <1>2, WordOnStays, WordEndIs

-----------------------------------------------------------------------------
(* Texts: whatever a key puts into the composer is one.                     *)
LEMMA CharsAreTexts == ASSUME InterfacesAssumption PROVE \A c \in Chars : c \in Written /\ Len(c) > 0
<1> TAKE c \in Chars
<1>1. c \in Seq({c[i] : i \in DOMAIN c}) /\ Len(c) > 0
  BY DEF InterfacesAssumption, C!CharsAssumption
<1>2. {c[i] : i \in DOMAIN c} \subseteq Bytes
  BY DEF Bytes
<1> QED BY <1>1, <1>2 DEF Written

LEMMA CharFits ==
  ASSUME NEW text \in Written, NEW i \in Nat, C!CharAt(text, i) # <<>>
  PROVE  C!CharAt(text, i) \in Chars /\ i + Len(C!CharAt(text, i)) <= Len(text)
<1> DEFINE here == {c \in Chars : i + Len(c) <= Len(text) /\ SubSeq(text, i + 1, i + Len(c)) = c}
<1>1. C!CharAt(text, i) = IF here = {} THEN <<>> ELSE CHOOSE c \in here : TRUE
  BY DEF C!CharAt
<1>2. C!CharAt(text, i) \in here
  <2> HIDE DEF here
  <2> QED BY <1>1
<1> QED BY <1>2

LEMMA PartOf ==
  ASSUME NEW text \in Written, NEW from \in Nat, NEW to \in Nat, to <= Len(text)
  PROVE  SubSeq(text, from + 1, to) \in Written
<1>1. \A i \in from + 1 .. to : text[i] \in Bytes
  BY LenIsNumber DEF Written
<1> QED BY <1>1, SubSeqProperties DEF Written

LEMMA TrimIsText ==
  ASSUME InterfacesAssumption, NEW text \in Written
  PROVE  C!trim(text) \in Written
<1> DEFINE inked == {i \in 0 .. Len(text) - 1 : C!Boundary(text, i) /\ C!CharAt(text, i) \notin Blank}
           hi == C!Max(inked)
           to == hi + Len(C!CharAt(text, hi))
<1>1. C!trim(text) = IF inked = {} THEN <<>> ELSE SubSeq(text, C!Min(inked) + 1, to)
  BY DEF C!trim
<1>2. CASE inked = {}
  BY <1>1, <1>2 DEF Written
<1>3. CASE inked # {}
  <2>1. inked \in SUBSET (0 .. Len(text)) /\ inked \in SUBSET Nat /\ Len(text) \in Nat
    BY LenIsNumber
  <2>2. C!Min(inked) \in Nat /\ hi \in inked
    <3> HIDE DEF inked
    <3> QED BY <1>3, <2>1, MinIs, MaxIs
  <2>3. hi \in Nat /\ hi < Len(text) /\ C!Boundary(text, hi)
    <3> HIDE DEF hi
    <3> QED BY <2>2
  <2> HIDE DEF hi
  <2>4. C!CharAt(text, hi) # <<>>
    BY <2>3 DEF C!Boundary
  <2>5. to \in Nat /\ to <= Len(text)
    BY <2>3, <2>4, CharFits, CharsAreTexts, LenIsNumber
  <2> HIDE DEF to
  <2> HIDE DEF inked
  <2> QED BY <1>1, <1>3, <2>2, <2>5, PartOf
<1> QED BY <1>2, <1>3

-----------------------------------------------------------------------------
(* The invariant of the composer: an entry ends where its text ends, and    *)
(* the undo stack leads back, unless an edit that it does not know of was   *)
(* made since it began.                                                     *)
TextsOK ==
  /\ input \in Written /\ cursor \in Nat
  /\ undo \in Seq(Edits) /\ redo \in Seq(Edits)
  /\ ring \in Seq(Written) /\ prompts \in Seq(Written) /\ pos \in 0 .. Len(prompts)

EndsThere(e) == e.after = e.start + Len(e.inserted)

Unwindable ==
  /\ \A i \in DOMAIN undo : EndsThere(undo[i])
  /\ \A i \in DOMAIN redo : EndsThere(redo[i])
  /\ Unwound(input, undo)[0] = base

Recorded == base # <<"?">>

ComposerInv == TextsOK /\ (Recorded => Unwindable)

\* The stacks begin anew with the text that is there.
LEMMA BeginsAnew ==
  ASSUME input' \in Written, undo' = <<>>, redo' = <<>>, base' = input'
  PROVE  Unwindable' /\ undo' \in Seq(Edits) /\ redo' \in Seq(Edits)
<1>1. Len(<<>>) = 0
  OBVIOUS
<1>2. Unwound(input', <<>>)[0] = input'
  BY <1>1, UnwoundStep
<1> QED BY <1>2 DEF Unwindable

LEMMA ApplyKeeps ==
  ASSUME ComposerInv, NEW text \in Written, C!apply_text(text), ring' = ring,
         prompts' \in Seq(Written), pos' \in 0 .. Len(prompts')
  PROVE  ComposerInv'
<1>1. /\ input' = text /\ cursor' = Len(text) /\ undo' = <<>> /\ redo' = <<>> /\ base' = text
  BY DEF C!apply_text
<1>2. Unwindable' /\ undo' \in Seq(Edits) /\ redo' \in Seq(Edits)
  BY <1>1, BeginsAnew
<1> QED BY <1>1, <1>2, LenIsNumber DEF ComposerInv, TextsOK, Recorded

\* Of an edit that was made: what was there is what it removed.
Made(e) ==
  /\ e \in Edits /\ EndsThere(e)
  /\ e.start + Len(e.removed) <= Len(input)
  /\ e.removed = SubSeq(input, e.start + 1, e.start + Len(e.removed))
  /\ input' = C!Splice(input, e.start, e.start + Len(e.removed), e.inserted)

LEMMA MadeIsText == ASSUME TextsOK, NEW e, Made(e) PROVE input' \in Written /\ Before(e, input') = input
<1>1. /\ e.inserted \in Written /\ e.removed \in Written /\ e.start \in Nat /\ input \in Written
      /\ Len(e.removed) \in Nat
  BY LenIsNumber DEF Made, Edits, TextsOK
<1> DEFINE to == e.start + Len(e.removed)
<1>2. to \in Nat /\ e.start <= to /\ to <= Len(input)
  BY <1>1 DEF Made
<1>3. e.removed = SubSeq(input, e.start + 1, to) /\ input' = C!Splice(input, e.start, to, e.inserted)
  BY DEF Made
<1> HIDE DEF to
<1>4. C!Splice(input, e.start, to, e.inserted) \in Written
  BY <1>1, <1>2, SpliceIs
<1>5. C!Splice(C!Splice(input, e.start, to, e.inserted), e.start, e.start + Len(e.inserted), e.removed) = input
  <2> DEFINE w == e.inserted
             u == e.removed
             from == e.start
  <2>1. /\ w \in Written /\ u \in Written /\ from \in Nat /\ from <= to /\ StoodThere(u, input, from, to)
        /\ input \in Written /\ to \in Nat /\ to <= Len(input)
    BY <1>1, <1>2, <1>3 DEF StoodThere
  <2> HIDE DEF w, u, from
  <2>2. PICK r : r = C!Splice(input, from, to, w)
    OBVIOUS
  <2>3. C!Splice(r, from, from + Len(w), u) = input
    BY <2>1, <2>2, TakesBack
  <2> QED BY <2>2, <2>3 DEF w, u, from
<1> QED BY <1>3, <1>4, <1>5 DEF Before

LEMMA Appended ==
  ASSUME NEW S, NEW q \in Seq(S), NEW e \in S
  PROVE  /\ Append(q, e) \in Seq(S) /\ Len(q) \in Nat /\ Len(Append(q, e)) = Len(q) + 1
         /\ DOMAIN q = 1 .. Len(q) /\ DOMAIN Append(q, e) = 1 .. Len(q) + 1
         /\ Append(q, e)[Len(q) + 1] = e
         /\ \A i \in 1 .. Len(q) : Append(q, e)[i] = q[i]
OBVIOUS

\* With an entry more for an edit that was made, the stack leads back as before.
LEMMA PushLeadsBack ==
  ASSUME TextsOK, NEW e, Made(e), undo' = Append(undo, e)
  PROVE  Unwound(input', undo')[0] = Unwound(input, undo)[0]
<1> DEFINE n == Len(undo)
<1>1. /\ undo' \in Seq(Edits) /\ n \in Nat /\ Len(undo') = n + 1
      /\ undo'[n + 1] = e /\ \A i \in 1 .. n : undo'[i] = undo[i]
  BY Appended DEF TextsOK, Made
<1>2. Before(e, input') = input
  BY MadeIsText
<1>3. Unwound(input, undo)[n] = input
  BY <1>1, UnwoundStep
<1> DEFINE t == input'
           more == undo'
<1>4. Before(e, t) = input /\ Len(more) = n + 1 /\ more[n + 1] = e /\ \A i \in 1 .. n : more[i] = undo[i]
  BY <1>1, <1>2
<1> HIDE DEF n, t, more
<1>5. Unwound(t, more)[n + 1] = t
  BY <1>1, <1>4, UnwoundStep
<1>6. n \in 0 .. Len(more) /\ n # Len(more) /\ Len(more) \in Nat
  BY <1>1, <1>4
<1>7. Unwound(t, more)[n] = Before(more[n + 1], Unwound(t, more)[n + 1])
  BY <1>6, UnwoundStep
<1>8. Unwound(t, more)[n] = Unwound(input, undo)[n]
  BY <1>3, <1>4, <1>5, <1>7
<1>9. Len(undo) = n
  BY DEF n
<1>10. Unwound(t, more)[0] = Unwound(input, undo)[0]
  BY <1>1, <1>4, <1>6, <1>8, <1>9, SameEnd
<1> QED BY <1>10 DEF t, more

\* What a change of one element makes of a sequence.
LEMMA Changed ==
  ASSUME NEW S, NEW q \in Seq(S), NEW n \in 1 .. Len(q), NEW e \in S
  PROVE  /\ [q EXCEPT ![n] = e] \in Seq(S) /\ Len([q EXCEPT ![n] = e]) = Len(q)
         /\ DOMAIN [q EXCEPT ![n] = e] = 1 .. Len(q)
         /\ [q EXCEPT ![n] = e][n] = e /\ \A i \in 1 .. Len(q) : i # n => [q EXCEPT ![n] = e][i] = q[i]
OBVIOUS

\* An insertion that joins the last one: the two go together.
Joins(e) ==
  /\ undo # <<>> /\ undo[Len(undo)].after = e.start
  /\ undo[Len(undo)].removed = <<>> /\ e.removed = <<>>
  /\ undo' = [undo EXCEPT ![Len(undo)].inserted = @ \o e.inserted, ![Len(undo)].after = e.after]

LEMMA JoinLeadsBack ==
  ASSUME TextsOK, Unwindable, NEW e, Made(e), Joins(e)
  PROVE  /\ undo' \in Seq(Edits) /\ \A i \in DOMAIN undo' : EndsThere(undo'[i])
         /\ Unwound(input', undo')[0] = Unwound(input, undo)[0]
<1> DEFINE n == Len(undo)
           last == undo[n]
           both == [last EXCEPT !.inserted = @ \o e.inserted, !.after = e.after]
<1>1. /\ n \in Nat /\ n > 0 /\ DOMAIN undo = 1 .. n /\ last \in Edits
      /\ last.after = e.start /\ last.removed = <<>> /\ e.removed = <<>>
      /\ last.after = last.start + Len(last.inserted)
  BY DEF TextsOK, Joins, Unwindable, EndsThere
<1>2. undo' = [undo EXCEPT ![n] = both]
  <2>1. undo' = [undo EXCEPT ![n].inserted = undo[n].inserted \o e.inserted, ![n].after = e.after]
    BY DEF Joins
  <2> QED BY <1>1, <2>1
<1>3. /\ e \in Edits /\ last.inserted \in Written /\ e.inserted \in Written /\ last.start \in Nat
      /\ e.start \in Nat /\ input \in Written /\ e.after = e.start + Len(e.inserted) /\ e.after \in Nat
      /\ Len(last.inserted) \in Nat /\ Len(e.inserted) \in Nat
  BY <1>1, LenIsNumber DEF Made, Edits, EndsThere, TextsOK
<1>4. /\ last.inserted \o e.inserted \in Written
      /\ Len(last.inserted \o e.inserted) = Len(last.inserted) + Len(e.inserted)
  BY <1>3, Concatenated
<1> DEFINE w == last.inserted \o e.inserted
<1>5. /\ both.inserted = w /\ both.after = e.after /\ both.start = last.start /\ both.removed = <<>>
      /\ both \in Edits
  <2> HIDE DEF w
  <2> SUFFICES /\ both.inserted = w /\ both.after = e.after /\ both.start = last.start
               /\ both.removed = <<>> /\ both \in Edits
    OBVIOUS
  <2> DEFINE lst == last
  <2>1. lst \in Edits /\ w \in Written /\ e.after \in Nat /\ lst.removed = <<>>
    BY <1>1, <1>3, <1>4 DEF w
  <2>2. both = [lst EXCEPT !.inserted = w, !.after = e.after]
    BY <1>1 DEF w, Edits
  <2> HIDE DEF lst, both
  <2>3. /\ both.inserted = w /\ both.after = e.after /\ both.start = lst.start
        /\ both.removed = <<>> /\ both \in Edits
    BY <2>1, <2>2 DEF Edits
  <2> QED BY <2>3 DEF lst
<1>6. /\ undo' \in Seq(Edits) /\ Len(undo') = n /\ DOMAIN undo' = 1 .. n /\ undo'[n] = both
      /\ \A i \in 1 .. n : i # n => undo'[i] = undo[i]
  <2>1. undo \in Seq(Edits) /\ n \in 1 .. Len(undo) /\ n = Len(undo) /\ both \in Edits
    BY <1>1, <1>5 DEF TextsOK
  <2> HIDE DEF both, n
  <2> QED BY <1>2, <2>1, Changed
<1>7. both.start + Len(both.inserted) = e.start + Len(e.inserted) /\ EndsThere(both)
  <2> DEFINE a == Len(last.inserted)
             b == Len(e.inserted)
             f == last.start
             g == e.start
             l == Len(w)
  <2>1. a \in Nat /\ b \in Nat /\ f \in Nat /\ g \in Nat /\ g = f + a /\ l = a + b
    BY <1>1, <1>3, <1>4
  <2> HIDE DEF a, b, f, g, l
  <2>2. f + l = g + b
    BY <2>1
  <2>3. both.start = f /\ Len(both.inserted) = l /\ both.after = g + b
    <3> HIDE DEF both, w
    <3> QED BY <1>3, <1>5 DEF f, l, g, b
  <2>4. both.start + Len(both.inserted) = g + b /\ both.after = both.start + Len(both.inserted)
    <3> HIDE DEF both
    <3> QED BY <2>2, <2>3
  <2> HIDE DEF both
  <2> QED BY <2>4 DEF EndsThere, g, b
<1>8. \A i \in DOMAIN undo' : EndsThere(undo'[i])
  BY <1>1, <1>6, <1>7 DEF Unwindable
<1>9. /\ e.start <= Len(input) /\ input' = C!Splice(input, e.start, e.start, e.inserted)
  BY <1>1, <1>3 DEF Made
<1>10. Before(last, input) = C!Splice(input, last.start, e.start, <<>>)
  BY <1>1 DEF Before
<1>11. Before(both, input') = C!Splice(input', last.start, e.start + Len(e.inserted), <<>>)
  <2> HIDE DEF both, w, last
  <2> QED BY <1>5, <1>7 DEF Before
<1>12. last.start <= e.start
  BY <1>1, <1>3
<1>13. Before(both, input') = Before(last, input)
  <2> DEFINE from == last.start
             at == e.start
             v == e.inserted
             r == input'
  <2>1. /\ from \in Nat /\ at \in Nat /\ from <= at /\ at <= Len(input) /\ v \in Written
        /\ input \in Written /\ r = C!Splice(input, at, at, v)
    BY <1>3, <1>9, <1>12
  <2>2. /\ Before(last, input) = C!Splice(input, from, at, <<>>)
        /\ Before(both, input') = C!Splice(r, from, at + Len(v), <<>>)
    BY <1>10, <1>11
  <2> HIDE DEF from, at, v, r, last, both
  <2>3. C!Splice(r, from, at + Len(v), <<>>) = C!Splice(input, from, at, <<>>)
    BY <2>1, JoinsBack
  <2> QED BY <2>2, <2>3
<1> DEFINE t == input'
           more == undo'
           k == n - 1
<1> HIDE DEF last, both
<1>14. /\ Len(more) = n /\ k \in Nat /\ k + 1 = n /\ k \in 0 .. n /\ k # n /\ more[n] = both
       /\ \A i \in 1 .. k : more[i] = undo[i]
       /\ Before(both, t) = Before(last, input) /\ last = undo[n] /\ n = Len(undo) /\ n \in Nat
  <2>1. n \in Nat /\ n > 0 /\ n = Len(undo) /\ last = undo[n]
    BY <1>1 DEF last
  <2>2. Len(more) = n /\ more[n] = both /\ \A i \in 1 .. n : i # n => more[i] = undo[i]
    BY <1>6
  <2> HIDE DEF n
  <2>3. k \in Nat /\ k + 1 = n /\ k \in 0 .. n /\ k # n /\ \A i \in 1 .. k : i \in 1 .. n /\ i # n
    BY <2>1
  <2> HIDE DEF k, more
  <2>4. \A i \in 1 .. k : more[i] = undo[i]
    BY <2>2, <2>3
  <2> QED BY <1>13, <2>1, <2>2, <2>3, <2>4
<1> HIDE DEF t, more, k, last, both, n
<1>15. Unwound(t, more)[k] = Before(both, t)
  <2>1. Unwound(t, more)[n] = t /\ Unwound(t, more)[k] = Before(more[k + 1], Unwound(t, more)[k + 1])
    BY <1>14, UnwoundStep
  <2> QED BY <1>14, <2>1
<1>16. Unwound(input, undo)[k] = Before(last, input)
  <2>1. Unwound(input, undo)[n] = input
        /\ Unwound(input, undo)[k] = Before(undo[k + 1], Unwound(input, undo)[k + 1])
    BY <1>14, UnwoundStep
  <2> QED BY <1>14, <2>1
<1>17. k <= n /\ k <= Len(more) /\ k <= Len(undo)
  BY <1>14
<1>18. Unwound(t, more)[0] = Unwound(input, undo)[0]
  BY <1>14, <1>15, <1>16, <1>17, SameEnd
<1> QED BY <1>6, <1>8, <1>18 DEF t, more

\* An edit that was made and recorded.
LEMMA RecordKeeps ==
  ASSUME ComposerInv, NEW e, NEW joining, Made(e), C!record(e, joining),
         cursor' \in Nat, base' = base, UNCHANGED <<ring, prompts, pos>>
  PROVE  ComposerInv'
<1>1. input' \in Written
  BY MadeIsText DEF ComposerInv
<1>2. TextsOK /\ (Recorded => Unwindable) /\ e \in Edits /\ EndsThere(e)
  BY DEF ComposerInv, Made
<1>3. CASE Joins(e) /\ redo' = redo
  <2>1. /\ undo' \in Seq(Edits)
        /\ Recorded => Unwindable'
    <3>1. undo' \in Seq(Edits)
      <4> DEFINE last == undo[Len(undo)]
      <4>1. last \in Edits /\ Len(undo) \in 1 .. Len(undo)
        BY <1>2, <1>3 DEF Joins, TextsOK
      <4>2. last.inserted \o e.inserted \in Written /\ e.after \in Nat
        BY <1>2, <4>1, Concatenated DEF Edits
      <4>3. undo' = [undo EXCEPT ![Len(undo)].inserted = last.inserted \o e.inserted, ![Len(undo)].after = e.after]
        BY <1>3 DEF Joins
      <4> DEFINE w == last.inserted \o e.inserted
      <4>4. undo' = [undo EXCEPT ![Len(undo)] = [last EXCEPT !.inserted = w, !.after = e.after]]
        BY <1>2, <4>1, <4>3 DEF TextsOK
      <4>5. [last EXCEPT !.inserted = w, !.after = e.after] \in Edits
        <5> HIDE DEF last, w
        <5> QED BY <4>1, <4>2 DEF Edits, w
      <4> HIDE DEF last, w
      <4> DEFINE both == [last EXCEPT !.inserted = w, !.after = e.after]
      <4> HIDE DEF both
      <4>6. both \in Edits /\ undo' = [undo EXCEPT ![Len(undo)] = both] /\ undo \in Seq(Edits)
        BY <1>2, <4>4, <4>5 DEF both, TextsOK
      <4> QED BY <4>1, <4>6, Changed
    <3>2. ASSUME Recorded PROVE Unwindable'
      BY <1>2, <1>3, <3>2, JoinLeadsBack DEF Unwindable
    <3> QED BY <3>1, <3>2
  <2> QED BY <1>1, <1>2, <1>3, <2>1 DEF ComposerInv, TextsOK, Recorded
<1>4. CASE undo' = Append(undo, e) /\ redo' = <<>>
  <2>1. /\ undo' \in Seq(Edits) /\ redo' \in Seq(Edits) /\ DOMAIN redo' = {}
        /\ undo'[Len(undo) + 1] = e /\ Len(undo) \in Nat
        /\ DOMAIN undo' = 1 .. Len(undo) + 1 /\ DOMAIN undo = 1 .. Len(undo)
        /\ \A i \in 1 .. Len(undo) : undo'[i] = undo[i]
    BY <1>2, <1>4, Appended DEF TextsOK
  <2>2. Unwound(input', undo')[0] = Unwound(input, undo)[0]
    BY <1>2, <1>4, PushLeadsBack
  <2>3. Recorded => Unwindable'
    <3> SUFFICES ASSUME Recorded PROVE Unwindable'
      OBVIOUS
    <3>1. \A i \in DOMAIN undo' : EndsThere(undo'[i])
      BY <1>2, <2>1 DEF Unwindable
    <3> QED BY <1>2, <2>1, <2>2, <3>1 DEF Unwindable
  <2> QED BY <1>1, <1>2, <2>1, <2>3 DEF ComposerInv, TextsOK, Recorded
<1> QED BY <1>3, <1>4 DEF C!record, Joins

LEMMA NothingStands == ASSUME NEW text, NEW i \in Nat PROVE SubSeq(text, i + 1, i) = <<>>
BY SubSeqEmpty

LEMMA InsertKeeps ==
  ASSUME ComposerInv, NEW text \in Written, C!InsertText(text)
  PROVE  ComposerInv'
<1> DEFINE at == C!Min({cursor, Len(input)})
           e == C!Entry(at, text, <<>>, at, at + Len(text))
<1>1. at \in Nat /\ at <= Len(input) /\ Len(text) \in Nat /\ Len(input) \in Nat /\ input \in Written
  <2>1. input \in Written /\ cursor \in Nat
    BY DEF ComposerInv, TextsOK
  <2>2. Len(input) \in Nat /\ Len(text) \in Nat
    BY <2>1, LenIsNumber
  <2>3. at \in 0 .. Len(input)
    BY <2>1, <2>2, MinOfTwo
  <2> HIDE DEF at
  <2> QED BY <2>1, <2>2, <2>3
<1>2. CASE C!Panic
  BY <1>2 DEF C!Panic, C!edit, C!kills, C!past, ComposerInv, TextsOK, Recorded, Unwindable
<1>3. CASE ~C!Panic
  <2>1. /\ input' = C!Splice(input, at, at, text) /\ cursor' = at + Len(text)
        /\ C!record(e, TRUE) /\ base' = base /\ UNCHANGED <<ring, prompts, pos>>
    BY <1>3, Zenon DEF C!InsertText, C!kills, C!past
  <2> HIDE DEF at
  <2>2. e.start = at /\ e.inserted = text /\ e.removed = <<>> /\ e.after = at + Len(text) /\ e.before = at
    BY DEF C!Entry
  <2>3. e \in Edits
    BY <1>1 DEF C!Entry, Edits, Written
  <2> HIDE DEF e
  <2>4. e.start + Len(e.removed) = at
    BY <1>1, <2>2
  <2>5. SubSeq(input, at + 1, at) = <<>>
    BY <1>1, NothingStands
  <2>6. Made(e)
    BY <1>1, <2>1, <2>2, <2>3, <2>4, <2>5 DEF Made, EndsThere
  <2>7. cursor' \in Nat
    BY <1>1, <2>1
  <2> QED BY <2>1, <2>6, <2>7, RecordKeeps
<1> QED BY <1>2, <1>3

LEMMA RemoveKeeps ==
  ASSUME ComposerInv, NEW from \in Nat, NEW to \in Nat, C!Sliceable(input, from, to), C!Remove(from, to)
  PROVE  ComposerInv'
<1> DEFINE gone == SubSeq(input, from + 1, to)
           e == C!Entry(from, <<>>, gone, to, from)
<1>1. from <= to /\ to <= Len(input) /\ input \in Written /\ Len(input) \in Nat
  BY LenIsNumber DEF ComposerInv, TextsOK, C!Sliceable
<1>2. gone \in Written
  BY <1>1, PartOf
<1>3. Len(gone) = to - from
  <2>1. \A i \in from + 1 .. to : input[i] \in Bytes
    BY <1>1 DEF Written
  <2>2. Len(gone) = IF from + 1 <= to THEN to - (from + 1) + 1 ELSE 0
    BY <2>1, SubSeqProperties
  <2> HIDE DEF gone
  <2> QED BY <1>1, <2>2
<1>4. /\ input' = C!Splice(input, from, to, <<>>) /\ cursor' = from
      /\ C!record(e, FALSE) /\ base' = base /\ UNCHANGED <<ring, prompts, pos>>
  BY DEF C!Remove, C!kills, C!past
<1>5. gone = SubSeq(input, from + 1, to)
  OBVIOUS
<1> HIDE DEF gone
<1>6. e.start = from /\ e.inserted = <<>> /\ e.removed = gone /\ e.after = from /\ e.before = to
  BY DEF C!Entry
<1>7. e \in Edits
  BY <1>2 DEF C!Entry, Edits, Written
<1> HIDE DEF e
<1>8. e.start + Len(e.removed) = to /\ Len(e.inserted) = 0
  BY <1>1, <1>3, <1>6
<1>9. Made(e)
  <2>1. EndsThere(e)
    BY <1>6, <1>8 DEF EndsThere
  <2>2. e.start + Len(e.removed) <= Len(input)
    BY <1>1, <1>8
  <2>3. e.removed = SubSeq(input, e.start + 1, e.start + Len(e.removed))
    BY <1>5, <1>6, <1>8
  <2>4. input' = C!Splice(input, e.start, e.start + Len(e.removed), e.inserted)
    BY <1>4, <1>6, <1>8
  <2> QED BY <1>7, <2>1, <2>2, <2>3, <2>4 DEF Made
<1> QED BY <1>4, <1>9, RecordKeeps

LEMMA PanicKeeps == ASSUME ComposerInv, C!Panic PROVE ComposerInv'
BY DEF C!Panic, C!edit, C!kills, C!past, ComposerInv, TextsOK, Recorded, Unwindable

LEMMA DeleteKeeps == ASSUME ComposerInv, C!Backspace \/ C!Delete PROVE ComposerInv'
<1>1. input \in Written /\ cursor \in Nat /\ Len(input) \in Nat
  BY LenIsNumber DEF ComposerInv, TextsOK
<1> DEFINE start == C!previous_character_start(input, cursor)
           end == C!next_character_end(input, cursor)
<1>2. start \in Nat /\ end \in Nat
  <2>1. start \in 0 .. Len(input) /\ end \in 0 .. Len(input)
    BY <1>1, CharStart, CharEnd
  <2> HIDE DEF start, end
  <2> QED BY <1>1, <2>1
<1>3. CASE C!Backspace
  <2>1. (C!Sliceable(input, start, cursor) /\ C!Remove(start, cursor)) \/ C!Panic
    BY <1>3 DEF C!Backspace
  <2> HIDE DEF start
  <2> QED BY <1>1, <1>2, <2>1, RemoveKeeps, PanicKeeps
<1>4. CASE C!Delete
  <2>1. (C!Sliceable(input, cursor, end) /\ C!Remove(cursor, end)) \/ C!Panic
    BY <1>4 DEF C!Delete
  <2> HIDE DEF end
  <2> QED BY <1>1, <1>2, <2>1, RemoveKeeps, PanicKeeps
<1> QED BY <1>3, <1>4

LEMMA CursorKeeps == ASSUME ComposerInv, C!Move PROVE ComposerInv'
<1>1. input \in Written /\ cursor \in Nat /\ Len(input) \in Nat
  BY LenIsNumber DEF ComposerInv, TextsOK
<1>2. cursor' \in 0 .. Len(input)
  <2>1. /\ C!previous_character_start(input, cursor) \in 0 .. Len(input)
        /\ C!next_character_end(input, cursor) \in 0 .. Len(input)
        /\ C!previous_word_start(input, cursor) \in 0 .. Len(input)
        /\ C!next_word_end(input, cursor) \in 0 .. Len(input)
    BY <1>1, CharStart, CharEnd, WordStart, WordEnd
  <2>2. 0 \in 0 .. Len(input) /\ Len(input) \in 0 .. Len(input)
    BY <1>1
  <2> QED BY <2>1, <2>2 DEF C!Move
<1> QED BY <1>1, <1>2 DEF C!Move, C!edit, C!kills, C!past, ComposerInv, TextsOK, Recorded, Unwindable

LEMMA YankKeeps == ASSUME ComposerInv, C!Yank PROVE ComposerInv'
<1>1. ring[1] \in Written
  BY DEF ComposerInv, TextsOK, C!Yank
<1> QED BY <1>1, InsertKeeps DEF C!Yank

LEMMA TypeKeeps == ASSUME InterfacesAssumption, ComposerInv, NEW c \in Chars, C!Type(c) PROVE ComposerInv'
BY CharsAreTexts, InsertKeeps DEF C!Type

LEMMA KilledKeeps == ASSUME ComposerInv, C!KillToStart \/ C!KillWord PROVE ComposerInv'
<1>1. input \in Written /\ cursor \in Nat /\ Len(input) \in Nat /\ ring \in Seq(Written)
  BY LenIsNumber DEF ComposerInv, TextsOK
<1>2. PICK start \in Nat : C!Kill(start)
  BY <1>1, WordStart DEF C!KillToStart, C!KillWord
<1>3. CASE C!Panic
  BY <1>3, PanicKeeps
<1>4. CASE ~C!Panic
  <2> DEFINE gone == SubSeq(input, start + 1, cursor)
  <2>1. /\ C!Sliceable(input, start, cursor) /\ input' = C!Splice(input, start, cursor, <<>>)
        /\ cursor' = start /\ C!kill(gone) /\ base' = <<"?">> /\ UNCHANGED <<undo, redo, prompts, pos>>
    BY <1>2, <1>4, Zenon DEF C!Kill, C!edit, C!past
  <2>2. start <= cursor /\ cursor <= Len(input)
    BY <2>1 DEF C!Sliceable
  <2>3. gone \in Written
    BY <1>1, <2>2, PartOf
  <2>4. input' \in Written
    <3>1. <<>> \in Written
      BY DEF Written
    <3> QED BY <1>1, <2>1, <2>2, <3>1, SpliceIs
  <2> HIDE DEF gone
  <2>5. ring' \in Seq(Written)
    <3>1. CASE ring # <<>> /\ rotation = 1
      <4>1. ring' = [ring EXCEPT ![1] = ring[1] \o gone] /\ 1 \in 1 .. Len(ring) /\ ring[1] \in Written
        BY <1>1, <2>1, <3>1 DEF C!kill
      <4>2. ring[1] \o gone \in Written
        BY <2>3, <4>1, Concatenated
      <4> QED BY <1>1, <4>1, <4>2, Changed
    <3>2. CASE ~(ring # <<>> /\ rotation = 1)
      <4>1. ring' = <<gone>> \o ring
        BY <2>1, <3>2 DEF C!kill
      <4> QED BY <1>1, <2>3, <4>1
    <3> QED BY <3>1, <3>2
  <2> QED BY <2>1, <2>4, <2>5 DEF ComposerInv, TextsOK, Recorded
<1> QED BY <1>3, <1>4

LEMMA YankPopKeeps == ASSUME ComposerInv, C!YankPop PROVE ComposerInv'
<1> DEFINE turned == IF Len(ring) <= 1 THEN ring ELSE Append(Tail(ring), ring[1])
           n == Len(undo)
           last == undo[n]
           end == last.start + Len(last.inserted)
           replaces == undo # <<>> /\ last.inserted # <<>> /\ last.removed = <<>> /\ end <= Len(input)
<1>1. input \in Written /\ Len(input) \in Nat /\ ring \in Seq(Written) /\ ring # <<>> /\ undo \in Seq(Edits)
  BY LenIsNumber DEF ComposerInv, TextsOK, C!YankPop
<1>2. turned \in Seq(Written) /\ turned[1] \in Written
  <2>1. CASE Len(ring) <= 1
    BY <1>1, <2>1
  <2>2. CASE ~(Len(ring) <= 1)
    <3>1. Tail(ring) \in Seq(Written) /\ Len(Tail(ring)) = Len(ring) - 1 /\ Len(ring) \in Nat
          /\ ring[1] \in Written
      BY <1>1, <2>2
    <3>2. turned = Append(Tail(ring), ring[1]) /\ turned \in Seq(Written) /\ Len(turned) = Len(ring)
      BY <2>2, <3>1
    <3> HIDE DEF turned
    <3> QED BY <2>2, <3>1, <3>2
  <2> QED BY <2>1, <2>2
<1>3. CASE C!Panic
  BY <1>3, PanicKeeps
<1>4. CASE ~C!Panic /\ replaces
  <2>1. /\ ring' = turned /\ input' = C!Splice(input, last.start, end, turned[1])
        /\ cursor' = last.start + Len(turned[1])
        /\ undo' = [undo EXCEPT ![Len(undo)].inserted = turned[1]]
        /\ base' = <<"?">> /\ UNCHANGED <<redo, prompts, pos>>
    BY <1>4, Zenon DEF C!YankPop, C!past
  <2>2. last \in Edits /\ n \in 1 .. Len(undo) /\ n = Len(undo)
    BY <1>1, <1>4
  <2> HIDE DEF n, turned
  <2>3. last.start \in Nat /\ last.inserted \in Written /\ end \in Nat /\ last.start <= end /\ end <= Len(input)
    <3>1. last.start \in Nat /\ last.inserted \in Written /\ Len(last.inserted) \in Nat
      BY <2>2, LenIsNumber DEF Edits
    <3> QED BY <1>4, <3>1
  <2>4. input' \in Written /\ cursor' \in Nat
    <3> DEFINE t == turned[1]
               from == last.start
    <3>1. t \in Written /\ from \in Nat /\ from <= end /\ input' = C!Splice(input, from, end, t)
          /\ cursor' = from + Len(t)
      BY <1>2, <2>1, <2>3
    <3> HIDE DEF t, from
    <3>2. end \in Nat /\ end <= Len(input)
      BY <2>3
    <3> HIDE DEF end
    <3>3. input' \in Written
      BY <1>1, <3>1, <3>2, SpliceIs
    <3>4. Len(t) \in Nat
      BY <3>1, LenIsNumber
    <3> QED BY <3>1, <3>3, <3>4
  <2> DEFINE w == turned[1]
             put == [last EXCEPT !.inserted = w]
  <2>5. w \in Written
    BY <1>2
  <2>6. undo' = [undo EXCEPT ![n] = put]
    BY <2>1, <2>2
  <2>7. put \in Edits
    <3> HIDE DEF w, last
    <3> QED BY <2>2, <2>5 DEF Edits
  <2> HIDE DEF put
  <2>8. undo' \in Seq(Edits)
    BY <1>1, <2>2, <2>6, <2>7, Changed
  <2> QED BY <1>2, <2>1, <2>4, <2>8 DEF ComposerInv, TextsOK, Recorded
<1>5. CASE ~C!Panic /\ ~replaces
  <2>1. ring' = turned /\ UNCHANGED <<input, cursor, undo, base, redo, prompts, pos>>
    BY <1>5, Zenon DEF C!YankPop, C!past
  <2> HIDE DEF turned
  <2> QED BY <1>2, <2>1 DEF ComposerInv, TextsOK, Recorded, Unwindable
<1> QED BY <1>3, <1>4, <1>5

LEMMA ForgetKeeps == ASSUME ComposerInv, C!Forget PROVE ComposerInv'
<1>1. /\ input' = input /\ cursor' = cursor /\ undo' = <<>> /\ redo' = <<>> /\ base' = input
      /\ UNCHANGED <<ring, prompts, pos>> /\ input \in Written
  BY DEF C!Forget, C!kills, C!past, ComposerInv, TextsOK
<1>2. Unwindable' /\ undo' \in Seq(Edits) /\ redo' \in Seq(Edits)
  BY <1>1, BeginsAnew
<1> QED BY <1>1, <1>2 DEF ComposerInv, TextsOK, Recorded

\* One entry less.
LEMMA Shorter ==
  ASSUME NEW S, NEW q \in Seq(S), q # <<>>
  PROVE  LET r == SubSeq(q, 1, Len(q) - 1) IN
         /\ r \in Seq(S) /\ Len(q) \in Nat /\ Len(q) > 0 /\ Len(r) = Len(q) - 1
         /\ DOMAIN q = 1 .. Len(q) /\ DOMAIN r = 1 .. Len(q) - 1
         /\ \A i \in 1 .. Len(q) - 1 : r[i] = q[i]
<1> DEFINE n == Len(q)
           r == SubSeq(q, 1, n - 1)
<1>1. n \in Nat /\ n > 0 /\ DOMAIN q = 1 .. n /\ \A i \in 1 .. n - 1 : q[i] \in S
  OBVIOUS
<1> HIDE DEF n
<1>2. r \in Seq(S)
  BY <1>1, SubSeqProperties
<1>3. Len(r) = IF 1 <= n - 1 THEN n - 1 - 1 + 1 ELSE 0
  BY <1>1, SubSeqProperties
<1>4. ASSUME NEW i \in 1 .. n - 1 PROVE r[i] = q[i]
  <2>1. i \in 1 .. n - 1 - 1 + 1 /\ 1 + i - 1 = i
    BY <1>1
  <2>2. r[i] = q[1 + i - 1]
    BY <1>1, <2>1, SubSeqProperties
  <2> QED BY <2>1, <2>2
<1>5. Len(r) = n - 1
  <2> HIDE DEF r
  <2> QED BY <1>1, <1>3
<1>6. DOMAIN r = 1 .. n - 1
  <2> HIDE DEF r
  <2> QED BY <1>2, <1>5
<1> HIDE DEF r
<1>7. r \in Seq(S) /\ n \in Nat /\ n > 0 /\ Len(r) = n - 1 /\ DOMAIN q = 1 .. n /\ DOMAIN r = 1 .. n - 1
      /\ \A i \in 1 .. n - 1 : r[i] = q[i]
  BY <1>1, <1>2, <1>4, <1>5, <1>6
<1> QED BY <1>7 DEF n, r

LEMMA UndoKeeps == ASSUME ComposerInv, C!Undo PROVE ComposerInv'
<1> DEFINE n == Len(undo)
           e == undo[n]
           shorter == SubSeq(undo, 1, n - 1)
<1>1. input \in Written /\ undo \in Seq(Edits) /\ redo \in Seq(Edits) /\ undo # <<>>
  BY DEF ComposerInv, TextsOK, C!Undo
<1>2. CASE C!Panic
  BY <1>2, PanicKeeps
<1>3. CASE C!Forget
  BY <1>3, ForgetKeeps
<1>4. CASE ~C!Panic /\ ~C!Forget
  <2>1. /\ C!Applies(e, e.inserted)
        /\ input' = C!Splice(input, e.start, e.start + Len(e.inserted), e.removed)
        /\ cursor' = e.before /\ undo' = shorter /\ redo' = Append(redo, e) /\ base' = base
        /\ UNCHANGED <<ring, prompts, pos>>
    BY <1>4, Zenon DEF C!Undo, C!kills, C!past
  <2>2. /\ shorter \in Seq(Edits) /\ n \in Nat /\ n > 0 /\ Len(shorter) = n - 1
        /\ DOMAIN undo = 1 .. n /\ DOMAIN shorter = 1 .. n - 1 /\ \A i \in 1 .. n - 1 : shorter[i] = undo[i]
    BY <1>1, Shorter
  <2> HIDE DEF shorter
  <2>3. e \in Edits
    BY <1>1, <2>2
  <2>4. /\ Append(redo, e) \in Seq(Edits) /\ Len(redo) \in Nat
        /\ DOMAIN redo = 1 .. Len(redo) /\ DOMAIN Append(redo, e) = 1 .. Len(redo) + 1
        /\ Append(redo, e)[Len(redo) + 1] = e /\ \A i \in 1 .. Len(redo) : Append(redo, e)[i] = redo[i]
    <3> HIDE DEF e
    <3> QED BY <1>1, <2>3, Appended
  <2>5. input' = Before(e, input)
    BY <2>1 DEF Before
  <2>6. input' \in Written /\ cursor' \in Nat
    <3> DEFINE from == e.start
               to == from + Len(e.inserted)
               w == e.removed
    <3>1. from \in Nat /\ w \in Written /\ Len(e.inserted) \in Nat /\ e.before \in Nat
      BY <2>3, LenIsNumber DEF Edits
    <3>2. to <= Len(input) /\ input' = C!Splice(input, from, to, w) /\ cursor' = e.before
      BY <2>1 DEF C!Applies
    <3>3. to \in Nat /\ from <= to
      <4> HIDE DEF from
      <4> QED BY <3>1
    <3> HIDE DEF from, to, w
    <3>4. input' \in Written
      BY <1>1, <3>1, <3>2, <3>3, SpliceIs
    <3> QED BY <3>1, <3>2, <3>4
  <2>7. Unwound(input', undo')[0] = Unwound(input, undo)[0]
    <3> DEFINE t == input'
               k == n - 1
    <3>1. t = Before(e, input) /\ undo' = shorter /\ e = undo[n] /\ n = Len(undo)
      BY <2>1, <2>5
    <3>2. k \in Nat /\ k + 1 = n /\ k \in 0 .. n /\ k # n /\ n \in Nat /\ k <= n /\ Len(shorter) = k
          /\ \A i \in 1 .. k : shorter[i] = undo[i]
      BY <2>2
    <3> HIDE DEF t, k, e, n
    <3>3. Unwound(input, undo)[n] = input
          /\ Unwound(input, undo)[k] = Before(undo[k + 1], Unwound(input, undo)[k + 1])
      BY <3>1, <3>2, UnwoundStep
    <3>4. Unwound(t, shorter)[k] = t
      BY <3>2, UnwoundStep
    <3>5. Unwound(t, shorter)[k] = Unwound(input, undo)[k]
      BY <3>1, <3>2, <3>3, <3>4
    <3>6. k <= Len(shorter) /\ k <= Len(undo) /\ Len(shorter) \in Nat /\ Len(undo) \in Nat
      BY <3>1, <3>2
    <3>7. Unwound(t, shorter)[0] = Unwound(input, undo)[0]
      BY <3>2, <3>5, <3>6, SameEnd
    <3> QED BY <3>1, <3>7 DEF t
  <2>8. ASSUME Recorded PROVE Unwindable'
    <3>1. /\ \A i \in 1 .. n : EndsThere(undo[i])
          /\ \A i \in 1 .. Len(redo) : EndsThere(redo[i])
          /\ Unwound(input, undo)[0] = base
      BY <2>2, <2>4, <2>8 DEF ComposerInv, Unwindable
    <3>2. \A i \in DOMAIN undo' : EndsThere(undo'[i])
      BY <2>1, <2>2, <3>1
    <3>3. EndsThere(e)
      BY <2>2, <3>1
    <3>4. \A i \in 1 .. Len(redo) + 1 : EndsThere(Append(redo, e)[i])
      <4> HIDE DEF e, n
      <4> TAKE i \in 1 .. Len(redo) + 1
      <4> DEFINE longer == Append(redo, e)
      <4>1. CASE i = Len(redo) + 1
        <5>1. longer[i] = e
          BY <2>4, <4>1
        <5> HIDE DEF longer
        <5>2. EndsThere(longer[i])
          BY <3>3, <5>1
        <5> QED BY <5>2 DEF longer
      <4>2. CASE i # Len(redo) + 1
        <5>1. i \in 1 .. Len(redo)
          BY <2>4, <4>2
        <5>2. longer[i] = redo[i]
          BY <2>4, <5>1
        <5> HIDE DEF longer
        <5>3. EndsThere(longer[i])
          BY <3>1, <5>1, <5>2
        <5> QED BY <5>3 DEF longer
      <4> QED BY <4>1, <4>2
    <3> HIDE DEF e
    <3> QED BY <2>1, <2>4, <2>7, <3>1, <3>2, <3>4 DEF Unwindable
  <2> HIDE DEF e
  <2> QED BY <2>1, <2>2, <2>4, <2>6, <2>8 DEF ComposerInv, TextsOK, Recorded
<1> QED BY <1>2, <1>3, <1>4

LEMMA RedoKeeps == ASSUME ComposerInv, C!Redo PROVE ComposerInv'
<1> DEFINE n == Len(redo)
           e == redo[n]
           shorter == SubSeq(redo, 1, n - 1)
<1>1. input \in Written /\ undo \in Seq(Edits) /\ redo \in Seq(Edits) /\ redo # <<>> /\ TextsOK
  BY DEF ComposerInv, TextsOK, C!Redo
<1>2. CASE C!Panic
  BY <1>2, PanicKeeps
<1>3. CASE C!Forget
  BY <1>3, ForgetKeeps
<1>4. CASE ~C!Panic /\ ~C!Forget
  <2>1. /\ C!Applies(e, e.removed)
        /\ input' = C!Splice(input, e.start, e.start + Len(e.removed), e.inserted)
        /\ cursor' = e.after /\ redo' = shorter /\ undo' = Append(undo, e) /\ base' = base
        /\ UNCHANGED <<ring, prompts, pos>>
    BY <1>4, Zenon DEF C!Redo, C!kills, C!past
  <2>2. /\ shorter \in Seq(Edits) /\ n \in Nat /\ n > 0 /\ Len(shorter) = n - 1
        /\ DOMAIN redo = 1 .. n /\ DOMAIN shorter = 1 .. n - 1 /\ \A i \in 1 .. n - 1 : shorter[i] = redo[i]
    BY <1>1, Shorter
  <2> HIDE DEF shorter
  <2>3. e \in Edits
    BY <1>1, <2>2
  <2>4. /\ undo' \in Seq(Edits) /\ Len(undo) \in Nat
        /\ DOMAIN undo = 1 .. Len(undo) /\ DOMAIN undo' = 1 .. Len(undo) + 1
        /\ undo'[Len(undo) + 1] = e /\ \A i \in 1 .. Len(undo) : undo'[i] = undo[i]
    <3> HIDE DEF e
    <3> QED BY <1>1, <2>1, <2>3, Appended
  <2>5. /\ e.start + Len(e.removed) <= Len(input)
        /\ e.removed = SubSeq(input, e.start + 1, e.start + Len(e.removed))
    BY <2>1 DEF C!Applies
  <2>6. input' \in Written /\ cursor' \in Nat
    <3> DEFINE from == e.start
               to == from + Len(e.removed)
               w == e.inserted
    <3>1. from \in Nat /\ w \in Written /\ Len(e.removed) \in Nat /\ e.after \in Nat
      BY <2>3, LenIsNumber DEF Edits
    <3>2. to <= Len(input) /\ input' = C!Splice(input, from, to, w) /\ cursor' = e.after
      BY <2>1, <2>5
    <3>3. to \in Nat /\ from <= to
      <4> HIDE DEF from
      <4> QED BY <3>1
    <3> HIDE DEF from, to, w
    <3>4. input' \in Written
      BY <1>1, <3>1, <3>2, <3>3, SpliceIs
    <3> QED BY <3>1, <3>2, <3>4
  <2>7. ASSUME Recorded PROVE Unwindable'
    <3>1. /\ \A i \in 1 .. n : EndsThere(redo[i])
          /\ \A i \in 1 .. Len(undo) : EndsThere(undo[i])
          /\ Unwound(input, undo)[0] = base
      BY <2>2, <2>4, <2>7 DEF ComposerInv, Unwindable
    <3>2. \A i \in DOMAIN redo' : EndsThere(redo'[i])
      BY <2>1, <2>2, <3>1
    <3>3. EndsThere(e)
      BY <2>2, <3>1
    <3> HIDE DEF e, n
    <3>4. Made(e)
      BY <2>1, <2>3, <2>5, <3>3 DEF Made
    <3>5. Unwound(input', undo')[0] = Unwound(input, undo)[0]
      BY <1>1, <2>1, <3>4, PushLeadsBack
    <3>6. ASSUME NEW i \in 1 .. Len(undo) + 1 PROVE EndsThere(undo'[i])
      <4>1. CASE i = Len(undo) + 1
        BY <2>4, <3>3, <4>1
      <4>2. CASE i # Len(undo) + 1
        <5>1. i \in 1 .. Len(undo)
          BY <2>4, <4>2
        <5> QED BY <2>4, <3>1, <5>1
      <4> QED BY <4>1, <4>2
    <3> QED BY <2>1, <2>4, <3>1, <3>2, <3>5, <3>6 DEF Unwindable
  <2> HIDE DEF e, n
  <2> QED BY <2>1, <2>2, <2>4, <2>6, <2>7 DEF ComposerInv, TextsOK, Recorded
<1> QED BY <1>2, <1>3, <1>4

\* Another text: one of those that were sent, or none.
LEMMA PastKeeps == ASSUME InterfacesAssumption, ComposerInv,
                          C!history_back \/ C!history_forward \/ C!Submit
                   PROVE  ComposerInv'
<1>1. /\ input \in Written /\ prompts \in Seq(Written) /\ pos \in 0 .. Len(prompts) /\ Len(prompts) \in Nat
      /\ DOMAIN prompts = 1 .. Len(prompts) /\ <<>> \in Written
  BY DEF ComposerInv, TextsOK, Written
<1>2. CASE C!history_back
  <2>1. pos' \in 1 .. Len(prompts)
    <3>1. CASE pos = 0
      BY <1>1, <1>2, <3>1 DEF C!history_back
    <3>2. CASE pos # 0
      <4> DEFINE S == {pos - 1, 1}
      <4>1. S \in SUBSET (0 .. Len(prompts)) /\ S # {}
        BY <1>1, <3>2
      <4>2. pos' = C!Max(S)
        BY <1>2, <3>2 DEF C!history_back
      <4>3. 1 \in S
        OBVIOUS
      <4> HIDE DEF S
      <4>4. C!Max(S) \in S /\ C!Max(S) >= 1
        BY <1>1, <4>1, <4>3, MaxIs
      <4>5. pos' \in 0 .. Len(prompts) /\ pos' >= 1
        BY <4>1, <4>2, <4>4
      <4> QED BY <1>1, <4>5
    <3> QED BY <3>1, <3>2
  <2>2. prompts[pos'] \in Written /\ C!apply_text(prompts[pos']) /\ ring' = ring /\ prompts' = prompts
    BY <1>1, <1>2, <2>1 DEF C!history_back, C!kills
  <2>3. pos' \in 0 .. Len(prompts')
    BY <1>1, <2>1, <2>2
  <2> QED BY <1>1, <2>2, <2>3, ApplyKeeps
<1>3. CASE C!history_forward
  <2>1. pos' \in 0 .. Len(prompts) /\ prompts' = prompts /\ ring' = ring
    BY <1>1, <1>3 DEF C!history_forward, C!kills
  <2>2. PICK text \in Written : C!apply_text(text)
    <3>1. CASE pos' = 0
      BY <1>1, <1>3, <3>1 DEF C!history_forward
    <3>2. CASE pos' # 0
      <4>1. prompts[pos'] \in Written
        BY <1>1, <2>1, <3>2
      <4> QED BY <1>3, <3>2, <4>1 DEF C!history_forward
    <3> QED BY <3>1, <3>2
  <2> QED BY <1>1, <2>1, <2>2, ApplyKeeps
<1>4. CASE C!Submit
  <2>1. /\ C!trim(input) \in Written /\ prompts' = Append(prompts, C!trim(input)) /\ pos' = 0
        /\ C!apply_text(<<>>) /\ ring' = ring
    BY <1>1, <1>4, TrimIsText DEF C!Submit, C!kills
  <2>2. prompts' \in Seq(Written) /\ pos' \in 0 .. Len(prompts')
    <3>1. prompts' \in Seq(Written) /\ Len(prompts') = Len(prompts) + 1
      BY <1>1, <2>1, Appended
    <3> QED BY <1>1, <2>1, <3>1
  <2> QED BY <1>1, <2>1, <2>2, ApplyKeeps
<1> QED BY <1>2, <1>3, <1>4

LEMMA ComposerInvInit == ASSUME C!Init PROVE ComposerInv
<1>1. /\ input = <<>> /\ cursor = 0 /\ undo = <<>> /\ redo = <<>> /\ base = <<>>
      /\ ring = <<>> /\ prompts = <<>> /\ pos = 0 /\ Len(<<>>) = 0 /\ DOMAIN <<>> = {}
  BY DEF C!Init
<1>2. Unwound(input, undo)[0] = base
  BY <1>1, UnwoundStep
<1>3. TextsOK
  BY <1>1 DEF TextsOK, Written
<1> QED BY <1>1, <1>2, <1>3 DEF ComposerInv, Unwindable

LEMMA ComposerInvNext == InterfacesAssumption /\ ComposerInv /\ [C!Next]_(C!vars) => ComposerInv'
<1> SUFFICES ASSUME InterfacesAssumption, ComposerInv, [C!Next]_(C!vars) PROVE ComposerInv'
  OBVIOUS
<1>1. ASSUME NEW c \in Chars, C!Type(c) PROVE ComposerInv'
  BY <1>1, TypeKeeps
<1>2. CASE C!Backspace \/ C!Delete
  BY <1>2, DeleteKeeps
<1>3. CASE C!Move
  BY <1>3, CursorKeeps
<1>4. CASE C!KillToStart \/ C!KillWord
  BY <1>4, KilledKeeps
<1>5. CASE C!Yank
  BY <1>5, YankKeeps
<1>6. CASE C!YankPop
  BY <1>6, YankPopKeeps
<1>7. CASE C!Undo
  BY <1>7, UndoKeeps
<1>8. CASE C!Redo
  BY <1>8, RedoKeeps
<1>9. CASE C!history_back \/ C!history_forward \/ C!Submit
  BY <1>9, PastKeeps
<1>10. CASE UNCHANGED C!vars
  BY <1>10 DEF C!vars, ComposerInv, TextsOK, Recorded, Unwindable
<1> QED BY <1>1, <1>2, <1>3, <1>4, <1>5, <1>6, <1>7, <1>8, <1>9, <1>10 DEF C!Next

\* For every alphabet and texts, stacks and rings of any length: the undo stack
\* unwinds to the text that it began with, wherever insertions joined and redos
\* came between, unless a kill or alt-y made an edit that it does not know.
THEOREM StacksLeadBack == C!Spec => []UndoLeadsBack
<1>1. ComposerInv => UndoLeadsBack
  BY LeadsBackIs DEF ComposerInv, Recorded, Unwindable
<1> QED BY <1>1, ComposerInvInit, ComposerInvNext, InterfacesAssumption, PTL DEF C!Spec
=============================================================================
