----------------------- MODULE SubagentScheduleProofs -----------------------
(***************************************************************************)
(* What is sure of one child.                                              *)
(*                                                                         *)
(* Whatever number of processes load, change and save its record, at any   *)
(* interleaving of their steps and wherever they are killed, every record  *)
(* that is stored or about to be stored is well formed.                    *)
(*                                                                         *)
(* When a command, or what follows an agent, runs to its end before        *)
(* another begins, while agents of runs work on: no acknowledged message   *)
(* is lost, no item is given to two agents, a deleted child stays deleted, *)
(* and the files change as the manager promises.  These theorems have the  *)
(* hypothesis Schedule = "during_runs"; without it the code keeps none.    *)
(***************************************************************************)
EXTENDS SubagentHost, SubagentRecordProofs, FiniteSetTheorems

-----------------------------------------------------------------------------
(* Well formed records, under every schedule.                              *)

\* A record that a process may store: well formed, with its prompt at least.
Sound(r) == GoodRecord(Parents, Configs, r) /\ HasWork(r)

StepName == {"save_record", "load_ledger", "save_ledger", "agent", "reload", "reload_first",
             "read_parent", "load_record", "remove"}

\* s is one of the steps still to take.
Takes(c, s) == \E i \in DOMAIN c.steps : c.steps[i] = s

\* A process: its copy is sound, and is there when a step works on it; the
\* run that will settle an item knows which one.
Shaped(c) ==
  /\ c = [job |-> c.job, steps |-> c.steps, rec |-> c.rec, led |-> c.led, item |-> c.item]
  /\ c.steps \in Seq(StepName)

SoundProc(c) ==
  /\ Shaped(c)
  /\ c.rec # NoRecord => Sound(c.rec)
  /\ Takes(c, "reload_first") \/ Takes(c, "agent") => Sound(c.rec)
  /\ Takes(c, "reload") => c.item \in Nat

IInv ==
  /\ Exists => Sound(disk)
  /\ DOMAIN proc = Procs /\ proc = [q \in Procs |-> proc[q]]
  /\ \A p \in Procs : SoundProc(proc[p])

-----------------------------------------------------------------------------
(* Processes.                                                              *)

LEMMA IdleSound == SoundProc(IdleProc)
BY DEF SoundProc, Shaped, IdleProc, Takes

LEMMA InitIInv == Init => IInv
BY IdleSound DEF Init, IInv, Exists

\* When only p changes, IInv is about p's new memory and the new disk.
LEMMA OneMoves ==
  ASSUME IInv, NEW p \in Procs, NEW c, proc' = [proc EXCEPT ![p] = c], SoundProc(c),
         Exists' => Sound(disk')
  PROVE  IInv'
BY DEF IInv

\* The steps that are left after one are among the steps before.
LEMMA TailTakes ==
  ASSUME NEW c, Shaped(c), c.steps # <<>>, NEW d, d.steps = Tail(c.steps), NEW s, Takes(d, s)
  PROVE  Takes(c, s)
<1>1. PICK i \in DOMAIN Tail(c.steps) : Tail(c.steps)[i] = s
  BY DEF Takes
<1>2. c.steps \in Seq(StepName)
  BY DEF Shaped
<1>3. i + 1 \in DOMAIN c.steps /\ c.steps[i + 1] = Tail(c.steps)[i]
  BY <1>1, <1>2
<1>4. QED
  BY <1>1, <1>3 DEF Takes

\* Continue: one step less, with the copies it leaves.
LEMMA ContinueSound ==
  ASSUME NEW c, SoundProc(c), c.steps # <<>>, NEW r, NEW l, NEW t, t = Tail(c.steps),
         r # NoRecord => Sound(r),
         Takes(c, "reload_first") \/ Takes(c, "agent") => Sound(r)
  PROVE  SoundProc([c EXCEPT !.steps = t, !.rec = r, !.led = l])
<1>1. PICK j, m : j = c.job /\ m = c.item
  OBVIOUS
<1>2. t \in Seq(StepName)
  BY <1>1 DEF SoundProc, Shaped
<1>3. PICK d : d = [c EXCEPT !.steps = t, !.rec = r, !.led = l]
  OBVIOUS
<1>4. d = [job |-> j, steps |-> t, rec |-> r, led |-> l, item |-> m]
  BY <1>1, <1>3 DEF SoundProc, Shaped
<1>5. Shaped(d)
  BY <1>2, <1>4 DEF Shaped
<1>6. d.steps = Tail(c.steps) /\ d.rec = r /\ d.item = c.item
  BY <1>1, <1>4
<1>7. \A s : Takes(d, s) => Takes(c, s)
  BY <1>6, TailTakes DEF SoundProc
<1>8. SoundProc(d)
  BY <1>5, <1>6, <1>7 DEF SoundProc
<1>9. QED
  BY <1>1, <1>3, <1>8

\* The memory of p after Continue.
LEMMA AfterContinue ==
  ASSUME IInv, NEW p \in Procs, proc[p].steps # <<>>, NEW r, NEW l, Continue(p, r, l),
         r # NoRecord => Sound(r),
         Takes(proc[p], "reload_first") \/ Takes(proc[p], "agent") => Sound(r),
         Exists' => Sound(disk')
  PROVE  IInv'
<1>1. PICK t, e : /\ t = Tail(proc[p].steps)
                  /\ e = IF t = <<>> THEN IdleProc
                         ELSE [proc[p] EXCEPT !.steps = t, !.rec = r, !.led = l]
  OBVIOUS
<1>2. proc' = [proc EXCEPT ![p] = e]
  BY <1>1 DEF Continue
<1>3. SoundProc(proc[p])
  BY DEF IInv
<1>4. SoundProc([proc[p] EXCEPT !.steps = t, !.rec = r, !.led = l])
  BY <1>1, <1>3, ContinueSound
<1>5. SoundProc(e)
  BY <1>1, <1>4, IdleSound
<1>6. QED
  BY <1>2, <1>5, OneMoves

LEMMA AfterEnd ==
  ASSUME IInv, NEW p \in Procs, End(p), UNCHANGED disk
  PROVE  IInv'
<1>1. PICK c : c = IdleProc
  OBVIOUS
<1>2. proc' = [proc EXCEPT ![p] = c] /\ SoundProc(c)
  BY <1>1, IdleSound DEF End
<1>3. Exists' => Sound(disk')
  BY DEF IInv, Exists
<1>4. QED
  BY <1>2, <1>3, OneMoves

\* A command begins.
LEMMA AfterBegin ==
  ASSUME IInv, NEW p \in Procs, NEW k, NEW j, NEW s \in Seq(StepName), NEW r, NEW l, NEW m,
         Begin(p, k, j, s, r, l, m), UNCHANGED disk,
         r # NoRecord => Sound(r),
         (\E i \in DOMAIN s : s[i] \in {"reload_first", "agent"}) => Sound(r),
         (\E i \in DOMAIN s : s[i] = "reload") => m \in Nat
  PROVE  IInv'
<1>1. PICK c : c = [job |-> j, steps |-> s, rec |-> r, led |-> l, item |-> m]
  OBVIOUS
<1>2. Shaped(c)
  BY <1>1 DEF Shaped
<1>3. SoundProc(c)
  BY <1>1, <1>2 DEF SoundProc, Takes
<1>4. proc' = [proc EXCEPT ![p] = c]
  BY <1>1 DEF Begin
<1>5. Exists' => Sound(disk')
  BY DEF IInv, Exists
<1>6. QED
  BY <1>3, <1>4, <1>5, OneMoves

\* An edit of a sound record is sound.
LEMMA SoundKept ==
  ASSUME NEW r, Sound(r), NEW m, StillGood(Parents, Configs, r, m)
  PROVE  Sound(m)
BY DEF Sound, StillGood

\* A command that loads the record, changes it and saves it.
LEMMA AfterEdit ==
  ASSUME IInv, NEW p \in Procs, NEW k, NEW j, NEW s \in {<<"save_record">>, WithLedger},
         NEW r, BeginEdit(p, k, j, s, r), StillGood(Parents, Configs, disk, r)
  PROVE  IInv'
<1>1. Sound(disk) /\ Sound(r)
  BY SoundKept DEF BeginEdit, IInv
<1>2. /\ s \in Seq(StepName)
      /\ ~\E i \in DOMAIN s : s[i] \in {"reload_first", "agent"} \/ s[i] = "reload"
  <2>1. CASE s = <<"save_record">>
    BY <2>1 DEF StepName
  <2>2. CASE s = WithLedger
    BY <2>2 DEF WithLedger, StepName
  <2>3. QED
    BY <2>1, <2>2
<1>4. Begin(p, k, j, s, r, NoLed, NoItem) /\ UNCHANGED disk
  BY DEF BeginEdit, files
<1>5. PICK l, m : l = NoLed /\ m = NoItem
  OBVIOUS
<1>6. Begin(p, k, j, s, r, l, m)
  BY <1>4, <1>5
<1>7. QED
  BY <1>1, <1>2, <1>4, <1>6, AfterBegin

-----------------------------------------------------------------------------
(* The commands.                                                           *)

LEMMA DiskGood ==
  ASSUME IInv, Exists
  PROVE  GoodRecord(Parents, Configs, disk) /\ Sound(disk)
BY DEF IInv, Sound

LEMMA EditCommands ==
  ASSUME IInv, NEW p \in Procs,
         \/ \E c \in Configs : Configure(p, c)
         \/ \E q \in Parents \cup {NoValue} : Relationship(p, q)
         \/ \E a \in LifecycleAction : Lifecycle(p, a)
         \/ Send(p) \/ Milestone(p)
  PROVE  IInv'
<1>0. Exists
  BY DEF Configure, Relationship, Lifecycle, Send, Milestone, BeginEdit
<1>1. ASSUME NEW c \in Configs, Configure(p, c) PROVE IInv'
  <2>1. PICK r : r = ApplyConfigure(disk, c)
    OBVIOUS
  <2>2. StillGood(Parents, Configs, disk, r)
    BY <1>0, <2>1, DiskGood, ConfigureGood
  <2>3. BeginEdit(p, "configure", Edit, <<"save_record">>, r)
    BY <1>1, <2>1 DEF Configure
  <2>4. QED
    BY <2>2, <2>3, AfterEdit
<1>2. ASSUME NEW q \in Parents \cup {NoValue}, Relationship(p, q) PROVE IInv'
  <2>1. PICK r : r = ApplyRelationship(disk, q)
    OBVIOUS
  <2>2. StillGood(Parents, Configs, disk, r)
    BY <1>0, <2>1, DiskGood, RelationshipGood
  <2>3. BeginEdit(p, "relationship", Edit, <<"save_record">>, r)
    BY <1>2, <2>1 DEF Relationship
  <2>4. QED
    BY <2>2, <2>3, AfterEdit
<1>3. ASSUME NEW a \in LifecycleAction, Lifecycle(p, a) PROVE IInv'
  <2>1. PICK r : r = ApplyLifecycle(disk, a)
    OBVIOUS
  <2>2. StillGood(Parents, Configs, disk, r)
    BY <1>0, <1>3, <2>1, DiskGood, LifecycleGood DEF Lifecycle
  <2>3. CASE a \in {"cancel", "close"}
    <3>1. PICK j : BeginEdit(p, "lifecycle", j, WithLedger, r)
      BY <1>3, <2>1, <2>3 DEF Lifecycle
    <3>2. QED
      BY <2>2, <3>1, AfterEdit
  <2>4. CASE a \notin {"cancel", "close"}
    <3>1. BeginEdit(p, "lifecycle", Edit, <<"save_record">>, r)
      BY <1>3, <2>1, <2>4 DEF Lifecycle
    <3>2. QED
      BY <2>2, <3>1, AfterEdit
  <2>5. QED
    BY <2>3, <2>4
<1>4. ASSUME Send(p) PROVE IInv'
  <2>1. PICK r : r = ApplySend(disk)
    OBVIOUS
  <2>2. StillGood(Parents, Configs, disk, r)
    BY <1>0, <2>1, DiskGood, SendGood
  <2>3. PICK j : BeginEdit(p, "send", j, WithLedger, r)
    BY <1>4, <2>1 DEF Send
  <2>4. QED
    BY <2>2, <2>3, AfterEdit
<1>5. ASSUME Milestone(p) PROVE IInv'
  <2>1. PICK r : r = ApplyMilestone(disk)
    OBVIOUS
  <2>2. StillGood(Parents, Configs, disk, r)
    BY <1>0, <2>1, DiskGood, MilestoneGood
  <2>3. PICK j : BeginEdit(p, "milestone", j, WithLedger, r)
    BY <1>5, <2>1 DEF Milestone
  <2>4. QED
    BY <2>2, <2>3, AfterEdit
<1>6. QED
  BY <1>1, <1>2, <1>3, <1>4, <1>5

LEMMA CreateCommand ==
  ASSUME IInv, NEW p \in Procs, NEW c \in Configs, NEW k,
         NEW s \in {UnadmittedSteps, CreateSteps, ToolSteps}, Create(p, k, s, c)
  PROVE  IInv'
<1>1. PICK r : r = ApplyCreate("one_off", c, TRUE)
  OBVIOUS
<1>2. Sound(r)
  BY <1>1, CreateGood DEF Sound, Mode
<1>5. s \in Seq(StepName) /\ ~\E i \in DOMAIN s : s[i] = "reload"
  <2>1. CASE s = UnadmittedSteps
    BY <2>1 DEF UnadmittedSteps, StepName
  <2>2. CASE s = CreateSteps
    BY <2>2 DEF CreateSteps, StepName
  <2>3. CASE s = ToolSteps
    BY <2>3 DEF ToolSteps, StepName
  <2>4. QED
    BY <2>1, <2>2, <2>3
<1>6. PICK j, l, m : Begin(p, k, j, s, r, l, m)
  BY <1>1 DEF Create
<1>7. UNCHANGED disk
  BY DEF Create, files
<1>8. QED
  BY <1>2, <1>5, <1>6, <1>7, AfterBegin

LEMMA RunCommand ==
  ASSUME IInv, NEW p \in Procs, Run(p) \/ RunNothing(p)
  PROVE  IInv'
<1>1. CASE Run(p)
  <2>1. PICK w \in OldestPending(disk) :
          Begin(p, "run", Delivering(NoValue, "message", w.id, NoItem),
                <<"save_record", "agent", "reload", "save_record", "read_parent",
                  "load_ledger", "save_ledger">>,
                ClaimItem([disk EXCEPT !.state = StateAfterRestart(@)], w.id), NoLed, w.id)
    BY <1>1 DEF Run
  <2>2. GoodRecord(Parents, Configs, disk) /\ Sound(disk)
    BY <1>1, DiskGood DEF Run
  <2>3. PICK i \in DOMAIN disk.queue : w = disk.queue[i]
    BY DEF OldestPending
  <2>4. disk.queue \in Seq(WorkItem)
    BY <2>2, Fields
  <2>5. w.id \in Nat
    <3>1. disk.queue[i] \in WorkItem
      BY <2>4
    <3>2. QED
      BY <2>3, <3>1 DEF WorkItem
  <2>6. PICK r, m, s : /\ r = [disk EXCEPT !.state = StateAfterRestart(@)]
                       /\ m = ClaimItem(r, w.id)
                       /\ s = <<"save_record", "agent", "reload", "save_record", "read_parent",
                                "load_ledger", "save_ledger">>
    OBVIOUS
  <2>7. Sound(r)
    BY <2>2, <2>6, ReconciledGood, SoundKept
  <2>8. Sound(m)
    BY <2>6, <2>7, ClaimGood, SoundKept DEF Sound
  <2>9. s \in Seq(StepName)
    BY <2>6 DEF StepName
  <2>10. PICK j, l, id : Begin(p, "run", j, s, m, l, id) /\ id \in Nat
    BY <2>1, <2>5, <2>6
  <2>11. UNCHANGED disk
    BY <1>1 DEF Run, files
  <2>12. QED
    BY <2>8, <2>9, <2>10, <2>11, AfterBegin
<1>2. CASE RunNothing(p)
  <2>1. Begin(p, "run", NoJob, <<>>, NoRecord, NoLed, NoItem) /\ UNCHANGED disk
    BY <1>2 DEF RunNothing, files
  <2>2. PICK j, s, r, l, m : /\ Begin(p, "run", j, s, r, l, m)
                             /\ s = <<>> /\ r = NoRecord
    BY <2>1
  <2>3. s \in Seq(StepName) /\ DOMAIN s = {}
    BY <2>2
  <2>4. QED
    BY <2>1, <2>2, <2>3, AfterBegin
<1>3. QED
  BY <1>1, <1>2

\* The commands that begin with the ledger have no record yet.
LEMMA LedgerCommands ==
  ASSUME IInv, NEW p \in Procs,
         \/ Delete(p)
         \/ \E id \in Requests, w \in {NoRef, 0} : Register(p, id, "same", w)
         \/ \E id \in Requests, d \in Decision : Resolve(p, id, d)
  PROVE  IInv'
<1>1. PICK k, j, s, l, m :
        /\ Begin(p, k, j, s, NoRecord, l, m)
        /\ s \in {<<"save_ledger">>, <<"load_record">>, <<"save_ledger", "remove">>}
  BY DEF Delete, Register, Resolve
<1>2. UNCHANGED disk
  BY DEF Delete, Register, Resolve, files
<1>3. s \in Seq(StepName)
      /\ ~\E i \in DOMAIN s : s[i] \in {"reload_first", "agent"} \/ s[i] = "reload"
  <2>1. CASE s = <<"save_ledger">>
    BY <2>1 DEF StepName
  <2>2. CASE s = <<"load_record">>
    BY <2>2 DEF StepName
  <2>3. CASE s = <<"save_ledger", "remove">>
    BY <2>3 DEF StepName
  <2>4. QED
    BY <1>1, <2>1, <2>2, <2>3
<1>4. QED
  BY <1>1, <1>2, <1>3, AfterBegin

-----------------------------------------------------------------------------
(* The steps.                                                              *)

LEMMA AtStepFacts ==
  ASSUME IInv, NEW p \in Procs, NEW x, AtStep(p, x)
  PROVE  SoundProc(proc[p]) /\ proc[p].steps # <<>> /\ Takes(proc[p], x)
<1>1. SoundProc(proc[p]) /\ proc[p].steps # <<>> /\ Head(proc[p].steps) = x
  BY DEF IInv, AtStep
<1>2. proc[p].steps \in Seq(StepName)
  BY <1>1 DEF SoundProc, Shaped
<1>3. 1 \in DOMAIN proc[p].steps /\ proc[p].steps[1] = x
  BY <1>1, <1>2
<1>4. QED
  BY <1>1, <1>3 DEF Takes

\* The steps that keep p's own copy and leave the disk alone.
LEMMA LedgerSteps ==
  ASSUME IInv, NEW p \in Procs, LoadLedger(p) \/ SaveLedger(p)
  PROVE  IInv'
<1>1. PICK x : AtStep(p, x)
  BY DEF LoadLedger, SaveLedger
<1>2. PICK r, l : r = proc[p].rec /\ Continue(p, r, l)
  BY DEF LoadLedger, SaveLedger
<1>3. UNCHANGED disk
  BY DEF LoadLedger, SaveLedger, files
<1>4. Exists' => Sound(disk')
  BY <1>3 DEF IInv, Exists
<1>5. QED
  BY <1>1, <1>2, <1>4, AtStepFacts, AfterContinue DEF SoundProc

LEMMA SaveRecordStep ==
  ASSUME IInv, NEW p \in Procs, SaveRecord(p)
  PROVE  IInv'
<1>1. AtStep(p, "save_record") /\ disk' = proc[p].rec
  BY DEF SaveRecord
<1>2. PICK r, l : r = proc[p].rec /\ Continue(p, r, l)
  BY DEF SaveRecord
<1>3. Exists' => Sound(disk')
  BY <1>1, AtStepFacts DEF SoundProc, Exists
<1>4. QED
  BY <1>1, <1>2, <1>3, AtStepFacts, AfterContinue DEF SoundProc

LEMMA RemoveStep ==
  ASSUME IInv, NEW p \in Procs, Remove(p)
  PROVE  IInv'
<1>1. AtStep(p, "remove") /\ ~Exists'
  BY DEF Remove, Exists
<1>2. PICK r, l : r = proc[p].rec /\ Continue(p, r, l)
  BY DEF Remove
<1>3. QED
  BY <1>1, <1>2, AtStepFacts, AfterContinue DEF SoundProc

LEMMA ReloadFirstStep ==
  ASSUME IInv, NEW p \in Procs, ReloadFirst(p)
  PROVE  IInv'
<1>1. AtStep(p, "reload_first") /\ UNCHANGED disk
  BY DEF ReloadFirst, files
<1>2. PICK b : b = IF Exists THEN disk ELSE proc[p].rec
  OBVIOUS
<1>3. Sound(b)
  BY <1>1, <1>2, AtStepFacts DEF SoundProc, IInv
<1>4. PICK r, l : r = MarkFirstRunning(b) /\ Continue(p, r, l)
  BY <1>2 DEF ReloadFirst
<1>5. Sound(r)
  BY <1>3, <1>4, MarkFirstGood, SoundKept DEF Sound
<1>6. Exists' => Sound(disk')
  BY <1>1 DEF IInv, Exists
<1>7. QED
  BY <1>1, <1>4, <1>5, <1>6, AtStepFacts, AfterContinue

LEMMA ReloadRunStep ==
  ASSUME IInv, NEW p \in Procs, ReloadRun(p)
  PROVE  IInv'
<1>1. AtStep(p, "reload") /\ UNCHANGED disk
  BY DEF ReloadRun, files
<1>2. CASE ~Exists
  BY <1>1, <1>2, AfterEnd DEF ReloadRun
<1>3. CASE Exists
  <2>1. PICK o : o = IF proc[p].job.kind = "message" THEN "completed" ELSE "failed"
    OBVIOUS
  <2>2. PICK r, l : /\ r = TransitionWork(disk, [id |-> proc[p].item, status |-> "pending"], o)
                    /\ Continue(p, r, l)
    BY <1>3, <2>1 DEF ReloadRun
  <2>3. proc[p].item \in Nat
    BY <1>1, AtStepFacts DEF SoundProc
  <2>4. o \in Outcome /\ "pending" \in QueueStatus
    BY <2>1 DEF Outcome, QueueStatus
  <2>5. PICK id, b : id = proc[p].item /\ b = "pending"
    OBVIOUS
  <2>6. StillGood(Parents, Configs, disk, TransitionWork(disk, [id |-> id, status |-> b], o))
    BY <1>3, <2>3, <2>4, <2>5, DiskGood, TransitionGood
  <2>7. Sound(r)
    BY <1>3, <2>2, <2>5, <2>6, DiskGood, SoundKept
  <2>8. Exists' => Sound(disk')
    BY <1>1 DEF IInv, Exists
  <2>9. QED
    BY <1>1, <2>2, <2>7, <2>8, AtStepFacts, AfterContinue
<1>4. QED
  BY <1>2, <1>3

\* A step that only changes the job.
LEMMA AfterContinueWith ==
  ASSUME IInv, NEW p \in Procs, proc[p].steps # <<>>, NEW j, ContinueWith(p, j), UNCHANGED disk
  PROVE  IInv'
<1>1. SoundProc(proc[p])
  BY DEF IInv
<1>2. PICK c, t, d : /\ c = proc[p] /\ t = Tail(c.steps)
                     /\ d = [c EXCEPT !.steps = t, !.job = j]
  OBVIOUS
<1>3. SoundProc(c) /\ c.steps # <<>>
  BY <1>1, <1>2
<1>4. d = [job |-> j, steps |-> t, rec |-> c.rec, led |-> c.led, item |-> c.item]
  BY <1>2, <1>3 DEF SoundProc, Shaped
<1>5. t \in Seq(StepName)
  BY <1>2, <1>3 DEF SoundProc, Shaped
<1>6. Shaped(d)
  BY <1>4, <1>5 DEF Shaped
<1>7. d.steps = Tail(c.steps) /\ d.rec = c.rec /\ d.item = c.item
  BY <1>2, <1>4
<1>8. \A s : Takes(d, s) => Takes(c, s)
  BY <1>3, <1>7, TailTakes DEF SoundProc
<1>9. SoundProc(d)
  BY <1>3, <1>6, <1>7, <1>8 DEF SoundProc
<1>10. proc' = [proc EXCEPT ![p] = d]
  BY <1>2 DEF ContinueWith
<1>11. Exists' => Sound(disk')
  BY DEF IInv, Exists
<1>12. QED
  BY <1>9, <1>10, <1>11, OneMoves

LEMMA AgentSteps ==
  ASSUME IInv, NEW p \in Procs,
         \/ \E o \in {"completed", "failed"} : AgentStops(p, o)
         \/ AgentError(p) \/ Crash(p) \/ ReadParent(p)
  PROVE  IInv'
<1>1. ASSUME NEW o \in {"completed", "failed"}, AgentStops(p, o) PROVE IInv'
  <2>1. AtStep(p, "agent") /\ UNCHANGED disk
    BY <1>1 DEF AgentStops, files
  <2>2. CASE proc[p].job.op = "tool"
    <3>1. PICK r, l : r = FinishControl(proc[p].rec, o) /\ Continue(p, r, l)
      BY <1>1, <2>2 DEF AgentStops
    <3>2. Sound(proc[p].rec)
      BY <2>1, AtStepFacts DEF SoundProc
    <3>3. PICK c : c = proc[p].rec
      OBVIOUS
    <3>4. GoodRecord(Parents, Configs, c) /\ c.queue # <<>>
      BY <3>2, <3>3 DEF Sound, HasWork
    <3>5. o \in Outcome
      BY DEF Outcome
    <3>6. StillGood(Parents, Configs, c, r)
      BY <3>1, <3>3, <3>4, <3>5, FinishGood
    <3>7. Sound(r)
      BY <3>2, <3>3, <3>6, SoundKept
    <3>8. Exists' => Sound(disk')
      BY <2>1 DEF IInv, Exists
    <3>9. QED
      BY <2>1, <3>1, <3>7, <3>8, AtStepFacts, AfterContinue
  <2>3. CASE proc[p].job.op # "tool"
    <3>1. PICK j : ContinueWith(p, j)
      BY <1>1, <2>3 DEF AgentStops
    <3>2. QED
      BY <2>1, <3>1, AtStepFacts, AfterContinueWith
  <2>4. QED
    BY <2>2, <2>3
<1>2. CASE AgentError(p)
  BY <1>2, AfterEnd DEF AgentError, files
<1>3. CASE Crash(p)
  BY <1>3, AfterEnd DEF Crash, files
<1>4. CASE ReadParent(p)
  <2>1. PICK x, j : AtStep(p, x) /\ ContinueWith(p, j) /\ UNCHANGED disk
    BY <1>4 DEF ReadParent, files
  <2>2. QED
    BY <2>1, AtStepFacts, AfterContinueWith
<1>5. QED
  BY <1>1, <1>2, <1>3, <1>4

LEMMA ResolveStep ==
  ASSUME IInv, NEW p \in Procs, LoadForResolve(p)
  PROVE  IInv'
<1>1. AtStep(p, "load_record") /\ UNCHANGED disk
  BY DEF LoadForResolve, files
<1>2. \/ End(p)
      \/ \E w, l : Exists /\ SaveDenial(p, w, l)
      \/ \E l : SaveResolved(p, l)
  BY DEF LoadForResolve
<1>3. Exists' => Sound(disk')
  BY <1>1 DEF IInv, Exists
<1>4. CASE End(p)
  BY <1>1, <1>4, AfterEnd
<1>5. ASSUME NEW w, NEW l, Exists, SaveDenial(p, w, l) PROVE IInv'
  <2>1. PICK r, d : /\ r = [disk EXCEPT !.queue = SetStatus(@, w, "cancelled")]
                    /\ d = [job |-> [op |-> "deny"], steps |-> <<"save_ledger", "save_record">>,
                            rec |-> r, led |-> l, item |-> w]
    OBVIOUS
  <2>2. Sound(r)
    BY <1>5, <2>1, DiskGood, CancelItemGood, SoundKept
  <2>3. Shaped(d)
    BY <2>1 DEF Shaped, StepName
  <2>4. d.steps = <<"save_ledger", "save_record">> /\ d.rec = r
    BY <2>1
  <2>5. ~Takes(d, "reload_first") /\ ~Takes(d, "agent") /\ ~Takes(d, "reload")
    BY <2>4 DEF Takes
  <2>6. SoundProc(d)
    BY <2>2, <2>3, <2>4, <2>5 DEF SoundProc
  <2>7. proc' = [proc EXCEPT ![p] = d]
    BY <1>5, <2>1 DEF SaveDenial
  <2>8. QED
    BY <1>3, <2>6, <2>7, OneMoves
<1>6. ASSUME NEW l, SaveResolved(p, l) PROVE IInv'
  <2>1. PICK c, d : c = proc[p] /\ d = [c EXCEPT !.steps = <<"save_ledger">>, !.led = l]
    OBVIOUS
  <2>2. SoundProc(c)
    BY <2>1 DEF IInv
  <2>3. d = [job |-> c.job, steps |-> <<"save_ledger">>, rec |-> c.rec, led |-> l, item |-> c.item]
    BY <2>1, <2>2 DEF SoundProc, Shaped
  <2>4. Shaped(d)
    BY <2>3 DEF Shaped, StepName
  <2>5. d.steps = <<"save_ledger">> /\ d.rec = c.rec
    BY <2>3
  <2>6. ~Takes(d, "reload_first") /\ ~Takes(d, "agent") /\ ~Takes(d, "reload")
    BY <2>5 DEF Takes
  <2>7. SoundProc(d)
    BY <2>2, <2>4, <2>5, <2>6 DEF SoundProc
  <2>8. proc' = [proc EXCEPT ![p] = d]
    BY <1>6, <2>1 DEF SaveResolved
  <2>9. QED
    BY <1>3, <2>7, <2>8, OneMoves
<1>7. QED
  BY <1>2, <1>4, <1>5, <1>6

-----------------------------------------------------------------------------
(* The theorem.                                                            *)

LEMMA NextIInv == IInv /\ [Next]_vars => IInv'
<1> SUFFICES ASSUME IInv, [Next]_vars PROVE IInv'
  OBVIOUS
<1>1. ASSUME NEW p \in Procs, Command(p) PROVE IInv'
  <2>1. CASE \E c \in Configs, k \in {"create", "tool"},
               s \in {UnadmittedSteps, CreateSteps, ToolSteps} : Create(p, k, s, c)
    BY <2>1, CreateCommand
  <2>2. CASE \/ \E c \in Configs : Configure(p, c)
             \/ \E q \in Parents \cup {NoValue} : Relationship(p, q)
             \/ \E a \in LifecycleAction : Lifecycle(p, a)
             \/ Send(p) \/ Milestone(p)
    BY <2>2, EditCommands
  <2>3. CASE Run(p) \/ RunNothing(p)
    BY <2>3, RunCommand
  <2>4. CASE \/ Delete(p)
             \/ \E id \in Requests, w \in {NoRef, 0} : Register(p, id, "same", w)
             \/ \E id \in Requests, d \in Decision : Resolve(p, id, d)
    BY <2>4, LedgerCommands
  <2>5. QED
    BY <1>1, <2>1, <2>2, <2>3, <2>4 DEF Command
<1>2. ASSUME NEW p \in Procs, Step(p) PROVE IInv'
  BY <1>2, SaveRecordStep, ReloadFirstStep, ReloadRunStep, AgentSteps, LedgerSteps,
     ResolveStep, RemoveStep DEF Step
<1>3. ASSUME NEW p \in Procs,
             \/ \E o \in {"completed", "failed"} : AgentStops(p, o)
             \/ AgentError(p) \/ Crash(p)
      PROVE  IInv'
  BY <1>3, AgentSteps
<1>4. CASE UNCHANGED vars
  BY <1>4 DEF vars, IInv, Exists
<1>5. QED
  BY <1>1, <1>2, <1>3, <1>4 DEF Next

\* For any number of processes, commands and crashes, and whatever they lose
\* of each other's changes, no file and no copy about to be saved is ever a
\* record that contradicts itself.
THEOREM RecordsStayWellFormed == Spec => []RecordsWellFormed
<1>1. Spec => []IInv
  BY InitIInv, NextIInv, PTL DEF Spec
<1>2. IInv => RecordsWellFormed
  BY DEF IInv, RecordsWellFormed, SoundProc, Sound, GoodRecord, Exists
<1>3. QED
  BY <1>1, <1>2, PTL

-----------------------------------------------------------------------------
(* One command at a time, beside agents: the invariant.                    *)

\* The steps left of each command: Run4 is what a run still does when it has
\* four steps to take.
Run7 == <<"save_record", "agent", "reload", "save_record", "read_parent", "load_ledger",
          "save_ledger">>
Run6 == <<"agent", "reload", "save_record", "read_parent", "load_ledger", "save_ledger">>
Run5 == <<"reload", "save_record", "read_parent", "load_ledger", "save_ledger">>
Run4 == <<"save_record", "read_parent", "load_ledger", "save_ledger">>
Run3 == <<"read_parent", "load_ledger", "save_ledger">>
Ledger2 == <<"load_ledger", "save_ledger">>
Ledger1 == <<"save_ledger">>
Tool5 == <<"save_record", "reload_first", "save_record", "agent", "save_record">>
Tool4 == <<"reload_first", "save_record", "agent", "save_record">>
Tool3 == <<"save_record", "agent", "save_record">>
Tool2 == <<"agent", "save_record">>
Last == <<"save_record">>
Load1 == <<"load_record">>
Deny2 == <<"save_ledger", "save_record">>
Delete2 == <<"save_ledger", "remove">>
Delete1 == <<"remove">>

\* An agent was started on the item.
Started(item) == \E i \in DOMAIN ran : ran[i] = item

\* m is r after a command that only edits it.
Changed(r, m) ==
  \/ \E k \in Configs : m = ApplyConfigure(r, k)
  \/ \E q \in Parents \cup {NoValue} : m = ApplyRelationship(r, q)
  \/ \E a \in LifecycleAction : LifecycleTarget(r, a) # Invalid /\ m = ApplyLifecycle(r, a)
  \/ m = ApplySend(r)
  \/ m = ApplyMilestone(r)

Claimed(r, m, id) == \E w \in OldestPending(r) : id = w.id /\ m = ClaimItem(r, id)
Settled(r, m, id, before) ==
  \E o \in Outcome : m = TransitionWork(r, [id |-> id, status |-> before], o)
Cancelled(r, m, id) == m = [r EXCEPT !.queue = SetStatus(@, id, "cancelled")]

\* A new record, and the same with its prompt running.
Created(m) == \E k \in Configs : m = ApplyCreate("one_off", k, TRUE)
FirstRunning(m) == \E k \in Configs : m = MarkFirstRunning(ApplyCreate("one_off", k, TRUE))

\* The jobs.
Closes(job) == job.op = "invalidate" /\ job.status \in {"cancelled", "stale"}
Tells(job) == job = Delivering(job.target, job.kind, job.item, NoItem)
Queued(job) ==
  /\ job.op = "deliver"
  /\ job.message # NoItem => Exists /\ HasItem(disk, job.message)

\* The plans: which steps a process may be at, and what the copy that it will
\* save is made of.  It is always the record as it is stored.
Nothing(c) == c.steps = <<>>

Editing(c) == c.steps = Last /\ c.job.op = "edit" /\ Exists /\ Changed(disk, c.rec)

Announcing(c) ==
  /\ c.steps = WithLedger /\ Exists /\ Changed(disk, c.rec)
  /\ \/ Closes(c.job)
     \/ Tells(c.job)
     \/ c.job.op = "deliver" /\ c.job.message = disk.next /\ c.rec = ApplySend(disk)

Delivers(c) ==
  \/ c.steps = Ledger2 /\ (Closes(c.job) \/ Queued(c.job))
  \/ /\ c.steps = Ledger1
     /\ \/ c.job.op \in {"edit", "resolve"}
        \/ c.job.op = "invalidate" /\ PendingIds(c.led) = {}
        \/ Queued(c.job)

Resolving(c) == c.steps = Load1 /\ c.job.op = "resolve"

Denying(c) ==
  /\ c.steps \in {Deny2, Last} /\ c.job.op = "deny" /\ Exists /\ Cancelled(disk, c.rec, c.item)

Deleting(c) ==
  /\ c.job.op = "edit"
  /\ \/ c.steps = Delete2 /\ PendingIds(c.led) = {}
     \/ c.steps = Delete1 /\ PendingIds(ledger) = {}

Taking(c) == c.steps = Run7 /\ Tells(c.job) /\ Exists /\ Claimed(disk, c.rec, c.item)
Running(c) == c.steps \in {Run6, Run5} /\ Tells(c.job) /\ Started(c.item)
Settling(c) ==
  /\ c.steps = Run4 /\ Tells(c.job) /\ Started(c.item)
  /\ Exists /\ Settled(disk, c.rec, c.item, "pending")
Reporting(c) == c.steps = Run3 /\ Tells(c.job)

Making(c) ==
  /\ c.job.op = "create"
  /\ \/ c.steps \in {CreateSteps, Last} /\ ~Exists /\ ~deleted /\ Created(c.rec)
     \/ c.steps = Last /\ Exists /\ c.rec = disk

Calling(c) ==
  /\ c.job.op = "tool" /\ c.item = 0
  /\ \/ c.steps = ToolSteps /\ ~Exists /\ ~deleted /\ Created(c.rec)
     \/ c.steps \in {Tool5, Tool4} /\ Exists /\ c.rec = disk /\ Created(disk)
     \/ c.steps = Tool3 /\ Exists /\ Created(disk) /\ c.rec = MarkFirstRunning(disk)
     \/ c.steps = Tool2 /\ Exists /\ c.rec = disk /\ FirstRunning(disk) /\ Started(0)
     \/ /\ c.steps = Last /\ Exists /\ FirstRunning(disk) /\ Started(0)
        /\ \E o \in Outcome : c.rec = FinishControl(disk, o)

Planned(c) ==
  \/ Nothing(c) \/ Editing(c) \/ Announcing(c) \/ Delivers(c) \/ Resolving(c) \/ Denying(c)
  \/ Deleting(c) \/ Taking(c) \/ Running(c) \/ Settling(c) \/ Reporting(c) \/ Making(c)
  \/ Calling(c)

\* An item that no run may take any more.
NotPending(r, m) ==
  m < r.next /\ \A i \in DOMAIN r.queue : r.queue[i].id = m => r.queue[i].status # "pending"

\* What the record owes to the past: the messages that were acknowledged are
\* in it, and the items that an agent was started on are not pending.
Remembers(r) ==
  /\ \A m \in acked : HasItem(r, m)
  /\ \A i \in DOMAIN ran : NotPending(r, ran[i])

PastInv ==
  /\ DeletedStaysDeleted
  /\ ~Exists /\ ~deleted => (ran = <<>> /\ acked = {})
  /\ ran \in Seq(Nat)
  /\ NoItemRunTwice
  /\ Exists => Remembers(disk)

\* At most one process is at work; the others wait or have an agent at work.
Alone == \A p, q \in Procs : p = q \/ Resting(p) \/ Resting(q)
PlansInv == \A p \in Procs : Planned(proc[p])

\* Every approval in a ledger is one of the child's.
ChildApproval == [id : Requests, print : {"same"}, child : {Child}, work : {NoRef, 0},
                  grants : {TRUE}, status : ApprovalStatus, resolvedRev : Int]
OwnLedger(l) ==
  /\ l = [gen |-> l.gen, next |-> l.next, evicted |-> l.evicted, deliveries |-> l.deliveries,
          approvals |-> l.approvals, notes |-> l.notes, cursors |-> l.cursors]
  /\ l.gen \in Nat
  /\ l.approvals \in Seq(ChildApproval)
OwnInv == OwnLedger(ledger) /\ \A p \in Procs : OwnLedger(proc[p].led)

\* The processes whose agent was started and whose item is not settled yet.
Works(c) ==
  \/ c.steps \in {Run6, Run5, Run4, Tool2}
  \/ c.steps = Last /\ c.job.op = "tool"
WorksApart ==
  \A p, q \in Procs :
    Works(proc[p]) /\ Works(proc[q]) /\ proc[p].item = proc[q].item => p = q

SInv == IInv /\ OwnInv /\ Alone /\ PlansInv /\ PastInv /\ WorksApart

\* The processes that may still log an event.
Logs(c) == c.steps \in {Run7, Run6, Run5, Run4, WithLedger, CreateSteps, Last, ToolSteps,
                        Tool5, Tool4, Tool3, Tool2, Load1, Deny2}
Loggers == {p \in Procs : Logs(proc[p])}
Bounded ==
  /\ commands \in Nat /\ commands <= MaxCommands
  /\ IsFiniteSet(Loggers) /\ Cardinality(Loggers) <= commands
  /\ Exists => Len(disk.events) + Cardinality(Loggers) <= commands + 1

-----------------------------------------------------------------------------
(* Programs.                                                               *)

\* Each program is its first step followed by the next program.
LEMMA Programs ==
  /\ Run7 # <<>> /\ Head(Run7) = "save_record" /\ Tail(Run7) = Run6
  /\ Run6 # <<>> /\ Head(Run6) = "agent" /\ Tail(Run6) = Run5
  /\ Run5 # <<>> /\ Head(Run5) = "reload" /\ Tail(Run5) = Run4
  /\ Run4 # <<>> /\ Head(Run4) = "save_record" /\ Tail(Run4) = Run3
  /\ Run3 # <<>> /\ Head(Run3) = "read_parent" /\ Tail(Run3) = Ledger2
  /\ WithLedger # <<>> /\ Head(WithLedger) = "save_record" /\ Tail(WithLedger) = Ledger2
  /\ Ledger2 # <<>> /\ Head(Ledger2) = "load_ledger" /\ Tail(Ledger2) = Ledger1
  /\ Ledger1 # <<>> /\ Head(Ledger1) = "save_ledger" /\ Tail(Ledger1) = <<>>
  /\ CreateSteps # <<>> /\ Head(CreateSteps) = "save_record" /\ Tail(CreateSteps) = Last
  /\ Last # <<>> /\ Head(Last) = "save_record" /\ Tail(Last) = <<>>
  /\ ToolSteps # <<>> /\ Head(ToolSteps) = "save_record" /\ Tail(ToolSteps) = Tool5
  /\ Tool5 # <<>> /\ Head(Tool5) = "save_record" /\ Tail(Tool5) = Tool4
  /\ Tool4 # <<>> /\ Head(Tool4) = "reload_first" /\ Tail(Tool4) = Tool3
  /\ Tool3 # <<>> /\ Head(Tool3) = "save_record" /\ Tail(Tool3) = Tool2
  /\ Tool2 # <<>> /\ Head(Tool2) = "agent" /\ Tail(Tool2) = Last
  /\ Load1 # <<>> /\ Head(Load1) = "load_record" /\ Tail(Load1) = <<>>
  /\ Deny2 # <<>> /\ Head(Deny2) = "save_ledger" /\ Tail(Deny2) = Last
  /\ Delete2 # <<>> /\ Head(Delete2) = "save_ledger" /\ Tail(Delete2) = Delete1
  /\ Delete1 # <<>> /\ Head(Delete1) = "remove" /\ Tail(Delete1) = <<>>
<1>1. /\ Run7 # <<>> /\ Head(Run7) = "save_record" /\ Tail(Run7) = Run6
      /\ Run6 # <<>> /\ Head(Run6) = "agent" /\ Tail(Run6) = Run5
  BY DEF Run7, Run6, Run5
<1>2. /\ Run5 # <<>> /\ Head(Run5) = "reload" /\ Tail(Run5) = Run4
      /\ Run4 # <<>> /\ Head(Run4) = "save_record" /\ Tail(Run4) = Run3
      /\ Run3 # <<>> /\ Head(Run3) = "read_parent" /\ Tail(Run3) = Ledger2
  BY DEF Run5, Run4, Run3, Ledger2
<1>3. /\ WithLedger # <<>> /\ Head(WithLedger) = "save_record" /\ Tail(WithLedger) = Ledger2
      /\ Ledger2 # <<>> /\ Head(Ledger2) = "load_ledger" /\ Tail(Ledger2) = Ledger1
      /\ Ledger1 # <<>> /\ Head(Ledger1) = "save_ledger" /\ Tail(Ledger1) = <<>>
  BY DEF WithLedger, Ledger2, Ledger1
<1>4. /\ CreateSteps # <<>> /\ Head(CreateSteps) = "save_record" /\ Tail(CreateSteps) = Last
      /\ Last # <<>> /\ Head(Last) = "save_record" /\ Tail(Last) = <<>>
  BY DEF CreateSteps, Last
<1>5. /\ ToolSteps # <<>> /\ Head(ToolSteps) = "save_record" /\ Tail(ToolSteps) = Tool5
      /\ Tool5 # <<>> /\ Head(Tool5) = "save_record" /\ Tail(Tool5) = Tool4
      /\ Tool4 # <<>> /\ Head(Tool4) = "reload_first" /\ Tail(Tool4) = Tool3
  BY DEF ToolSteps, Tool5, Tool4, Tool3
<1>6. /\ Tool3 # <<>> /\ Head(Tool3) = "save_record" /\ Tail(Tool3) = Tool2
      /\ Tool2 # <<>> /\ Head(Tool2) = "agent" /\ Tail(Tool2) = Last
  BY DEF Tool3, Tool2, Last
<1>7. /\ Load1 # <<>> /\ Head(Load1) = "load_record" /\ Tail(Load1) = <<>>
      /\ Deny2 # <<>> /\ Head(Deny2) = "save_ledger" /\ Tail(Deny2) = Last
      /\ Delete2 # <<>> /\ Head(Delete2) = "save_ledger" /\ Tail(Delete2) = Delete1
      /\ Delete1 # <<>> /\ Head(Delete1) = "remove" /\ Tail(Delete1) = <<>>
  BY DEF Load1, Deny2, Delete2, Delete1, Last
<1>8. QED
  BY <1>1, <1>2, <1>3, <1>4, <1>5, <1>6, <1>7

\* The lengths that the guards of the code look at.
LEMMA Lengths ==
  /\ Len(Run4) = 4 /\ Len(Last) = 1 /\ Len(Tool3) = 3 /\ Len(Run7) = 7
  /\ Len(ToolSteps) = 6 /\ Len(Tool5) = 5 /\ Len(WithLedger) = 3 /\ Len(CreateSteps) = 2
  /\ Run7[2] = "agent" /\ Tool3[2] = "agent" /\ Run4[2] # "agent" /\ ToolSteps[2] # "agent"
  /\ Tool5[2] # "agent" /\ WithLedger[2] # "agent" /\ CreateSteps[2] # "agent"
BY DEF Run4, Last, Tool3, Run7, ToolSteps, Tool5, WithLedger, CreateSteps

-----------------------------------------------------------------------------
(* Records.                                                                *)

\* m is what r may become: its items stay where they are, none is pending
\* again, and the new ones have ids that r never used.
Grows(r, m) ==
  /\ r.next <= m.next
  /\ \A i \in DOMAIN r.queue :
       /\ i \in DOMAIN m.queue
       /\ m.queue[i].id = r.queue[i].id
       /\ r.queue[i].status # "pending" => m.queue[i].status # "pending"
  /\ \A i \in DOMAIN m.queue : i \in DOMAIN r.queue \/ m.queue[i].id >= r.next

Good(r) == GoodRecord(Parents, Configs, r)

LEMMA GoodFields ==
  ASSUME NEW r, Good(r)
  PROVE  /\ r.next \in Nat \ {0} /\ r.queue \in Seq(WorkItem) /\ r.events \in Seq(Event)
         /\ r.generation \in Nat
         /\ \A i \in DOMAIN r.queue : r.queue[i].id \in Nat /\ r.queue[i].id < r.next
         /\ \A i, j \in DOMAIN r.queue : r.queue[i].id = r.queue[j].id => i = j
         /\ r # NoRecord
<1>1. /\ r \in Record(Parents, Configs)
      /\ r.next \in Nat \ {0} /\ r.queue \in Seq(WorkItem) /\ r.events \in Seq(Event)
      /\ r.generation \in Nat
  BY Fields DEF Good
<1>2. \A i \in DOMAIN r.queue : r.queue[i] \in WorkItem
  BY <1>1
<1>3. QED
  BY <1>1, <1>2, HostAssumption DEF Good, GoodRecord, WellFormed, ItemsDistinct, WorkItem

LEMMA GrowsKeeps ==
  ASSUME NEW r, NEW m, Good(r), Good(m), Grows(r, m), NEW x
  PROVE  /\ HasItem(r, x) => HasItem(m, x)
         /\ x \in Nat /\ NotPending(r, x) => NotPending(m, x)
<1>1. HasItem(r, x) => HasItem(m, x)
  BY DEF HasItem, Grows
<1>2. ASSUME x \in Nat, NotPending(r, x) PROVE NotPending(m, x)
  <2>1. x < m.next
    BY <1>2, GoodFields DEF NotPending, Grows
  <2>2. ASSUME NEW i \in DOMAIN m.queue, m.queue[i].id = x PROVE m.queue[i].status # "pending"
    <3>1. i \in DOMAIN r.queue
      BY <1>2, <2>2, GoodFields DEF NotPending, Grows
    <3>2. QED
      BY <1>2, <2>2, <3>1 DEF NotPending, Grows
  <2>3. QED
    BY <2>1, <2>2 DEF NotPending
<1>3. QED
  BY <1>1, <1>2

\* The queue is the same.
LEMMA SameQueueGrows ==
  ASSUME NEW r, NEW m, Good(r), m.queue = r.queue, m.next \in {r.next, r.next + 1}
  PROVE  Grows(r, m)
BY GoodFields DEF Grows

\* One item of the queue has another status than pending.
LEMMA StatusGrows ==
  ASSUME NEW r, NEW m, Good(r), NEW id, NEW s \in QueueStatus \ {"pending"},
         m.queue = SetStatus(r.queue, id, s), m.next \in {r.next, r.next + 1}
  PROVE  Grows(r, m)
<1>1. PICK q : q = SetStatus(r.queue, id, s)
  OBVIOUS
<1>2. MarkedWell(r.queue, q)
  BY <1>1, SetStatusShape, GoodFields
<1>3. ASSUME NEW i \in DOMAIN r.queue, r.queue[i].status # "pending"
      PROVE  q[i].status # "pending"
  <2>1. r.queue[i] \in WorkItem
    BY GoodFields
  <2>2. q[i] = r.queue[i] \/ q[i] = [r.queue[i] EXCEPT !.status = s]
    BY <1>1 DEF SetStatus
  <2>3. QED
    BY <1>3, <2>1, <2>2 DEF WorkItem
<1>4. QED
  BY <1>1, <1>2, <1>3, GoodFields DEF Grows, MarkedWell

\* The nine fields of an edited record.
LEMMA EmitFields ==
  ASSUME NEW n, n \in Record(Parents, Configs), NEW rev, NEW kind, NEW item, NEW from, NEW to,
         NEW m, m = Emit(n, rev, kind, item, from, to)
  PROVE  m.queue = n.queue /\ m.next = n.next + 1 /\ Len(m.events) = Len(n.events) + 1
<1>1. PICK e : e = [seq |-> n.next, rev |-> rev, kind |-> kind, item |-> item, from |-> from,
                    to |-> to]
  OBVIOUS
<1>2. m = [mode |-> n.mode, config |-> n.config, parent |-> n.parent, state |-> n.state,
           archivedFrom |-> n.archivedFrom, generation |-> n.generation, queue |-> n.queue,
           events |-> Append(n.events, e), next |-> n.next + 1]
  BY <1>1, EmitShape
<1>3. m.events = Append(n.events, e) /\ m.queue = n.queue /\ m.next = n.next + 1
  BY <1>2
<1>4. n.events \in Seq(Event)
  BY DEF Record
<1>5. Len(Append(n.events, e)) = Len(n.events) + 1
  BY <1>4
<1>6. QED
  BY <1>3, <1>5

\* A message is the one new item.
LEMMA SendGrows ==
  ASSUME NEW r, Good(r), NEW m, m = ApplySend(r)
  PROVE  Good(m) /\ Grows(r, m) /\ Len(m.events) = Len(r.events) + 1 /\ HasItem(m, r.next)
<1>1. Good(m)
  BY SendGood DEF Good, StillGood
<1>2. PICK w, q : w = [id |-> r.next, status |-> "pending"] /\ q = Append(r.queue, w)
  OBVIOUS
<1>3. PICK n : n = [r EXCEPT !.queue = q]
  OBVIOUS
<1>4. w \in WorkItem /\ w.id = r.next
  BY <1>2, GoodFields DEF WorkItem, QueueStatus
<1>5. q \in Seq(WorkItem)
  BY <1>2, <1>4, GoodFields
<1>6. n \in Record(Parents, Configs) /\ n.queue = q /\ n.next = r.next /\ n.events = r.events
  BY <1>3, <1>5 DEF Good, GoodRecord, Record
<1>7. PICK rev, kind, item, from, to : m = Emit(n, rev, kind, item, from, to)
  BY <1>2, <1>3 DEF ApplySend
<1>8. m.queue = q /\ m.next = r.next + 1 /\ Len(m.events) = Len(r.events) + 1
  BY <1>6, <1>7, EmitFields
<1>9. /\ \A i \in DOMAIN r.queue : i \in DOMAIN q /\ q[i] = r.queue[i]
      /\ \A i \in DOMAIN q : i \in DOMAIN r.queue \/ q[i] = w
      /\ \E i \in DOMAIN q : q[i] = w
  <2>1. r.queue \in Seq(WorkItem) /\ w \in WorkItem
    BY <1>4, GoodFields
  <2>2. Len(q) = Len(r.queue) + 1 /\ q[Len(q)] = w /\ DOMAIN q = 1 .. Len(q)
    BY <1>2, <1>5, <2>1
  <2>3. QED
    BY <1>2, <2>1, <2>2
<1>10. Grows(r, m)
  BY <1>4, <1>8, <1>9, GoodFields DEF Grows
<1>11. HasItem(m, r.next)
  BY <1>4, <1>8, <1>9 DEF HasItem
<1>12. QED
  BY <1>1, <1>8, <1>10, <1>11

LEMMA ChangedGrows ==
  ASSUME NEW r, Good(r), NEW m, Changed(r, m)
  PROVE  Good(m) /\ Grows(r, m) /\ Len(m.events) \in {Len(r.events), Len(r.events) + 1}
<1>0. r \in Record(Parents, Configs) /\ GoodRecord(Parents, Configs, r)
  BY DEF Good, GoodRecord
<1>1. ASSUME NEW k \in Configs, m = ApplyConfigure(r, k)
      PROVE  Good(m) /\ Grows(r, m) /\ Len(m.events) \in {Len(r.events), Len(r.events) + 1}
  <2>1. Good(m)
    BY <1>0, <1>1, ConfigureGood DEF Good, StillGood
  <2>2. m.queue = r.queue /\ m.next = r.next /\ m.events = r.events
    BY <1>0, <1>1 DEF ApplyConfigure, Record
  <2>3. QED
    BY <2>1, <2>2, SameQueueGrows
<1>2. ASSUME NEW q \in Parents \cup {NoValue}, m = ApplyRelationship(r, q)
      PROVE  Good(m) /\ Grows(r, m) /\ Len(m.events) \in {Len(r.events), Len(r.events) + 1}
  <2>1. Good(m)
    BY <1>0, <1>2, RelationshipGood DEF Good, StillGood
  <2>2. m.queue = r.queue /\ m.next = r.next /\ m.events = r.events
    BY <1>0, <1>2 DEF ApplyRelationship, Record
  <2>3. QED
    BY <2>1, <2>2, SameQueueGrows
<1>3. ASSUME NEW a \in LifecycleAction, LifecycleTarget(r, a) # Invalid, m = ApplyLifecycle(r, a)
      PROVE  Good(m) /\ Grows(r, m) /\ Len(m.events) \in {Len(r.events), Len(r.events) + 1}
  <2>1. Good(m)
    BY <1>0, <1>3, LifecycleGood DEF Good, StillGood
  <2>2. PICK t, f : /\ t = LifecycleTarget(r, a)
                    /\ f = IF t = "archived" THEN r.state ELSE r.archivedFrom
    OBVIOUS
  <2>3. PICK n : n = [r EXCEPT !.state = t, !.archivedFrom = f]
    OBVIOUS
  <2>4. t \in State /\ f \in State \cup {NoValue}
    BY <1>0, <1>3, <2>2, LifecycleTargets, Fields
  <2>5. n \in Record(Parents, Configs) /\ n.queue = r.queue /\ n.next = r.next /\ n.events = r.events
    BY <1>0, <2>3, <2>4 DEF Record
  <2>6. m = Emit(n, r.generation, "lifecycle", NoItem, r.state, t)
    BY <1>3, <2>2, <2>3 DEF ApplyLifecycle
  <2>7. PICK rev, kind, item, from, to : m = Emit(n, rev, kind, item, from, to)
    BY <2>6
  <2>8. m.queue = r.queue /\ m.next = r.next + 1 /\ Len(m.events) = Len(r.events) + 1
    BY <2>5, <2>7, EmitFields
  <2>9. QED
    BY <2>1, <2>8, SameQueueGrows
<1>4. ASSUME m = ApplySend(r)
      PROVE  Good(m) /\ Grows(r, m) /\ Len(m.events) \in {Len(r.events), Len(r.events) + 1}
  BY <1>4, SendGrows
<1>5. ASSUME m = ApplyMilestone(r)
      PROVE  Good(m) /\ Grows(r, m) /\ Len(m.events) \in {Len(r.events), Len(r.events) + 1}
  <2>1. Good(m)
    BY <1>0, <1>5, MilestoneGood DEF Good, StillGood
  <2>2. PICK rev, kind, item, from, to : m = Emit(r, rev, kind, item, from, to)
    BY <1>5 DEF ApplyMilestone
  <2>3. m.queue = r.queue /\ m.next = r.next + 1 /\ Len(m.events) = Len(r.events) + 1
    BY <1>0, <2>2, EmitFields
  <2>4. QED
    BY <2>1, <2>3, SameQueueGrows
<1>6. QED
  BY <1>1, <1>2, <1>3, <1>4, <1>5 DEF Changed

LEMMA ClaimedGrows ==
  ASSUME NEW r, Good(r), NEW m, NEW id, Claimed(r, m, id)
  PROVE  /\ Good(m) /\ Grows(r, m) /\ m.events = r.events
         /\ id \in Nat /\ NotPending(m, id) /\ ~NotPending(r, id)
<1>1. PICK i \in DOMAIN r.queue :
        r.queue[i].status = "pending" /\ id = r.queue[i].id /\ m = ClaimItem(r, id)
  BY DEF Claimed, OldestPending, IsOldestPending
<1>2. Good(m)
  BY <1>1, ClaimGood DEF Good, StillGood
<1>3. m.queue = SetStatus(r.queue, id, "running") /\ m.next = r.next /\ m.events = r.events
  BY <1>1 DEF ClaimItem, Good, GoodRecord, Record
<1>4. "running" \in QueueStatus \ {"pending"}
  BY DEF QueueStatus
<1>5. Grows(r, m)
  BY <1>3, <1>4, StatusGrows
<1>6. id \in Nat /\ id < r.next /\ ~NotPending(r, id)
  BY <1>1, GoodFields DEF NotPending
<1>7. ASSUME NEW j \in DOMAIN m.queue, m.queue[j].id = id PROVE m.queue[j].status # "pending"
  <2>1. j \in DOMAIN r.queue /\ r.queue[j].id = id
    BY <1>3, <1>5, <1>7 DEF Grows, SetStatus
  <2>2. j = i
    BY <1>1, <2>1, GoodFields
  <2>3. IsItem(r.queue, i, id)
    BY <1>1, GoodFields DEF IsItem
  <2>4. m.queue[j] = [r.queue[i] EXCEPT !.status = "running"]
    BY <1>3, <2>1, <2>2, <2>3 DEF SetStatus
  <2>5. r.queue[i] \in WorkItem
    BY GoodFields
  <2>6. QED
    BY <2>4, <2>5 DEF WorkItem
<1>8. QED
  BY <1>2, <1>3, <1>5, <1>6, <1>7 DEF NotPending

LEMMA SettledGrows ==
  ASSUME NEW r, Good(r), NEW m, NEW id \in Nat, NEW b \in {"pending", "running"},
         Settled(r, m, id, b)
  PROVE  Good(m) /\ Grows(r, m) /\ Len(m.events) = Len(r.events) + 1
<1>1. PICK o \in Outcome : m = TransitionWork(r, [id |-> id, status |-> b], o)
  BY DEF Settled
<1>2. b \in QueueStatus /\ o \in QueueStatus \ {"pending"}
  BY DEF QueueStatus, Outcome
<1>3. Good(m)
  BY <1>1, <1>2, TransitionGood DEF Good, StillGood
<1>4. PICK v, s : /\ v = AppendRevision(r, id, b, o)
                  /\ s = IF o = "completed" THEN "completed" ELSE "failed"
  OBVIOUS
<1>5. PICK e : e = WorkEvent(r, id, b, o)
  OBVIOUS
<1>6. v = [mode |-> r.mode, config |-> r.config, parent |-> r.parent, state |-> r.state,
           archivedFrom |-> r.archivedFrom, generation |-> r.generation + 1,
           queue |-> r.queue, events |-> Append(r.events, e), next |-> r.next + 1]
  BY <1>4, <1>5, RevisionShape DEF Good, GoodRecord
<1>7. m = [v EXCEPT !.state = s, !.queue = SetStatus(v.queue, id, o)]
  BY <1>1, <1>4 DEF TransitionWork
<1>8. v.queue = r.queue
  BY <1>6
<1>9. PICK q : q = SetStatus(r.queue, id, o)
  OBVIOUS
<1>10. m = [v EXCEPT !.state = s, !.queue = q]
  BY <1>7, <1>8, <1>9
<1>11. m.queue = q /\ m.next = r.next + 1 /\ m.events = Append(r.events, e)
  BY <1>6, <1>10
<1>12. Len(Append(r.events, e)) = Len(r.events) + 1
  BY GoodFields
<1>13. Grows(r, m)
  BY <1>2, <1>9, <1>11, StatusGrows
<1>14. QED
  BY <1>3, <1>11, <1>12, <1>13

LEMMA CancelledGrows ==
  ASSUME NEW r, Good(r), NEW m, NEW id, Cancelled(r, m, id)
  PROVE  Good(m) /\ Grows(r, m) /\ m.events = r.events
<1>1. Good(m)
  BY CancelItemGood DEF Good, StillGood, Cancelled
<1>2. m.queue = SetStatus(r.queue, id, "cancelled") /\ m.next = r.next /\ m.events = r.events
  BY DEF Cancelled, Good, GoodRecord, Record
<1>3. "cancelled" \in QueueStatus \ {"pending"}
  BY DEF QueueStatus
<1>4. QED
  BY <1>1, <1>2, <1>3, StatusGrows

LEMMA SameGrows ==
  ASSUME NEW r, Good(r)
  PROVE  Grows(r, r)
BY SameQueueGrows

\* The one item of a new record is its prompt, called 0.
Prompt(s) == <<[id |-> 0, status |-> s]>>

LEMMA CreatedFacts ==
  ASSUME NEW m, Created(m)
  PROVE  /\ Good(m) /\ m.queue = Prompt("pending") /\ Len(m.events) = 1
         /\ ~NotPending(m, 0)
<1>1. PICK k \in Configs : m = ApplyCreate("one_off", k, TRUE)
  BY DEF Created
<1>2. Good(m)
  BY <1>1, CreateGood DEF Good, Mode
<1>3. PICK n : n = [DefaultRecord(k) EXCEPT !.mode = "one_off", !.queue = Prompt("pending"),
                                            !.state = "queued"]
  OBVIOUS
<1>4. n = [mode |-> "one_off", config |-> k, parent |-> NoValue, state |-> "queued",
           archivedFrom |-> NoValue, generation |-> 0, queue |-> Prompt("pending"),
           events |-> <<>>, next |-> 1]
  BY <1>3 DEF DefaultRecord
<1>5. Prompt("pending") \in Seq(WorkItem)
  BY DEF Prompt, WorkItem, QueueStatus
<1>6. n \in Record(Parents, Configs)
  BY <1>4, <1>5 DEF Record, State, Mode
<1>7. m = Emit(n, 0, "created", NoItem, NoValue, NoValue)
  BY <1>1, <1>3 DEF ApplyCreate, Prompt
<1>8. PICK rev, kind, item, from, to : m = Emit(n, rev, kind, item, from, to)
  BY <1>7
<1>9. m.queue = Prompt("pending") /\ Len(m.events) = 1
  <2>1. n.queue = Prompt("pending") /\ Len(n.events) = 0
    BY <1>4
  <2>2. m.queue = n.queue /\ Len(m.events) = Len(n.events) + 1
    BY <1>6, <1>8, EmitFields
  <2>3. QED
    BY <2>1, <2>2
<1>10. ~NotPending(m, 0)
  <2>1. 1 \in DOMAIN m.queue /\ m.queue[1].id = 0 /\ m.queue[1].status = "pending"
    BY <1>9 DEF Prompt
  <2>2. QED
    BY <2>1 DEF NotPending
<1>11. QED
  BY <1>2, <1>9, <1>10

\* The tool's own way of taking the first item is a claim.
LEMMA FirstClaimed ==
  ASSUME NEW r, Created(r)
  PROVE  /\ Claimed(r, MarkFirstRunning(r), 0) /\ FirstRunning(MarkFirstRunning(r))
         /\ MarkFirstRunning(r).queue = Prompt("running")
<1>1. /\ Good(r) /\ r.queue = Prompt("pending")
      /\ r \in Record(Parents, Configs)
  BY CreatedFacts DEF Good, GoodRecord
<1>2. PICK q : q = r.queue
  OBVIOUS
<1>3. q = <<[id |-> 0, status |-> "pending"]>>
  BY <1>1, <1>2 DEF Prompt
<1>4. SetFirst(q, "running") = Prompt("running")
  BY <1>3 DEF SetFirst, Prompt
<1>5. SetStatus(q, 0, "running") = Prompt("running")
  <2>1. DOMAIN q = {1} /\ IsItem(q, 1, 0)
    BY <1>3 DEF IsItem
  <2>2. SetStatus(q, 0, "running") = [i \in {1} |-> [q[1] EXCEPT !.status = "running"]]
    BY <2>1 DEF SetStatus
  <2>3. [q[1] EXCEPT !.status = "running"] = [id |-> 0, status |-> "running"]
    BY <1>3
  <2>4. QED
    BY <2>2, <2>3 DEF Prompt
<1>6. MarkFirstRunning(r) = [r EXCEPT !.queue = Prompt("running"), !.state = "running"]
  <2>1. q # <<>>
    BY <1>3
  <2>2. PICK f, g : f = SetFirst(q, "running") /\ g = Prompt("running") /\ f = g
    BY <1>4
  <2>3. MarkFirstRunning(r) = [r EXCEPT !.queue = f, !.state = "running"]
    BY <1>2, <2>1, <2>2 DEF MarkFirstRunning
  <2>4. QED
    BY <2>2, <2>3
<1>7. ClaimItem(r, 0) = [r EXCEPT !.queue = Prompt("running"), !.state = "running"]
  BY <1>2, <1>5 DEF ClaimItem
<1>8. PICK w : w = [id |-> 0, status |-> "pending"]
  OBVIOUS
<1>9. w \in OldestPending(r) /\ w.id = 0
  <2>1. DOMAIN q = {1} /\ q[1] = w /\ IsOldestPending(q, 1)
    BY <1>3, <1>8 DEF IsOldestPending
  <2>2. QED
    BY <1>2, <1>8, <2>1 DEF OldestPending
<1>10. Claimed(r, MarkFirstRunning(r), 0)
  BY <1>6, <1>7, <1>9 DEF Claimed
<1>11. MarkFirstRunning(r).queue = Prompt("running")
  BY <1>1, <1>6 DEF Record
<1>12. FirstRunning(MarkFirstRunning(r))
  BY DEF Created, FirstRunning
<1>13. QED
  BY <1>10, <1>11, <1>12

\* ... and its own way of finishing it is a transition.
LEMMA FirstSettled ==
  ASSUME NEW r, FirstRunning(r), NEW o \in Outcome
  PROVE  Settled(r, FinishControl(r, o), 0, "running")
<1>1. PICK b : Created(b) /\ r = MarkFirstRunning(b)
  BY DEF FirstRunning, Created
<1>2. r.queue = Prompt("running") /\ Good(r)
  BY <1>1, FirstClaimed, CreatedFacts, ClaimedGrows
<1>3. r \in Record(Parents, Configs) /\ o \in QueueStatus
  BY <1>2 DEF Good, GoodRecord, Outcome, QueueStatus
<1>4. PICK q : q = r.queue
  OBVIOUS
<1>5. q = <<[id |-> 0, status |-> "running"]>>
  BY <1>2, <1>4 DEF Prompt
<1>6. SetFirst(q, o) = Prompt(o)
  BY <1>5 DEF SetFirst, Prompt
<1>7. SetStatus(q, 0, o) = Prompt(o)
  <2>1. DOMAIN q = {1} /\ IsItem(q, 1, 0)
    BY <1>5 DEF IsItem
  <2>2. SetStatus(q, 0, o) = [i \in {1} |-> [q[1] EXCEPT !.status = o]]
    BY <2>1 DEF SetStatus
  <2>3. [q[1] EXCEPT !.status = o] = [id |-> 0, status |-> o]
    BY <1>5
  <2>4. QED
    BY <2>2, <2>3 DEF Prompt
<1>8. PICK f, n, e : /\ f = Prompt(o) /\ n = [r EXCEPT !.queue = f]
                     /\ e = WorkEvent(r, 0, "running", o)
  OBVIOUS
<1>9. /\ n = [mode |-> r.mode, config |-> r.config, parent |-> r.parent, state |-> r.state,
              archivedFrom |-> r.archivedFrom, generation |-> r.generation, queue |-> f,
              events |-> r.events, next |-> r.next]
      /\ f \in Seq(WorkItem)
  <2>1. [id |-> 0, status |-> o] \in WorkItem
    BY <1>3 DEF WorkItem
  <2>2. f \in Seq(WorkItem)
    BY <1>8, <2>1 DEF Prompt
  <2>3. QED
    BY <1>3, <1>8, <2>2 DEF Record
<1>10. n \in Record(Parents, Configs) /\ WorkEvent(n, 0, "running", o) = e
  BY <1>3, <1>8, <1>9 DEF Record, WorkEvent
<1>11. PICK from : from = "running"
  OBVIOUS
<1>12. PICK x : x = AppendRevision(n, 0, from, o)
  OBVIOUS
<1>13. x = [mode |-> r.mode, config |-> r.config, parent |-> r.parent, state |-> r.state,
            archivedFrom |-> r.archivedFrom, generation |-> r.generation + 1, queue |-> f,
            events |-> Append(r.events, e), next |-> r.next + 1]
  <2>1. x = [mode |-> n.mode, config |-> n.config, parent |-> n.parent, state |-> n.state,
             archivedFrom |-> n.archivedFrom, generation |-> n.generation + 1,
             queue |-> n.queue, events |-> Append(n.events, e), next |-> n.next + 1]
    BY <1>10, <1>11, <1>12, RevisionShape
  <2>2. QED
    BY <1>9, <2>1
<1>14. PICK y : y = AppendRevision(r, 0, from, o)
  OBVIOUS
<1>15. y = [mode |-> r.mode, config |-> r.config, parent |-> r.parent, state |-> r.state,
            archivedFrom |-> r.archivedFrom, generation |-> r.generation + 1,
            queue |-> r.queue, events |-> Append(r.events, e), next |-> r.next + 1]
  BY <1>3, <1>8, <1>11, <1>14, RevisionShape
<1>16. FinishControl(r, o) = [x EXCEPT !.state = o]
  <2>1. q # <<>> /\ q[1].id = 0 /\ q[1].status = from
    BY <1>5, <1>11
  <2>2. QED
    BY <1>4, <1>6, <1>8, <1>12, <2>1 DEF FinishControl
<1>17. TransitionWork(r, [id |-> 0, status |-> "running"], o) = [y EXCEPT !.state = o, !.queue = f]
  <2>1. (IF o = "completed" THEN "completed" ELSE "failed") = o
    BY DEF Outcome
  <2>2. SetStatus(y.queue, 0, o) = f
    BY <1>4, <1>7, <1>8, <1>15
  <2>3. QED
    BY <1>11, <1>14, <2>1, <2>2 DEF TransitionWork
<1>18. PICK es, a1, a2, a3, a4, a5, a6, a8 :
         /\ es = Append(r.events, e) /\ a1 = r.mode /\ a2 = r.config /\ a3 = r.parent
         /\ a4 = r.state /\ a5 = r.archivedFrom /\ a6 = r.generation + 1 /\ a8 = r.next + 1
  OBVIOUS
<1>19. [x EXCEPT !.state = o] = [y EXCEPT !.state = o, !.queue = f]
  <2>1. x = [mode |-> a1, config |-> a2, parent |-> a3, state |-> a4, archivedFrom |-> a5,
             generation |-> a6, queue |-> f, events |-> es, next |-> a8]
    BY <1>13, <1>18
  <2>2. PICK u : u = r.queue
    OBVIOUS
  <2>3. y = [mode |-> a1, config |-> a2, parent |-> a3, state |-> a4, archivedFrom |-> a5,
             generation |-> a6, queue |-> u, events |-> es, next |-> a8]
    BY <1>15, <1>18, <2>2
  <2>4. PICK z : z = [mode |-> a1, config |-> a2, parent |-> a3, state |-> o,
                       archivedFrom |-> a5, generation |-> a6, queue |-> f, events |-> es,
                       next |-> a8]
    OBVIOUS
  <2>5. [x EXCEPT !.state = o] = z
    BY <2>1, <2>4, OtherState
  <2>6. PICK v : v = [mode |-> a1, config |-> a2, parent |-> a3, state |-> o,
                       archivedFrom |-> a5, generation |-> a6, queue |-> u, events |-> es,
                       next |-> a8]
    OBVIOUS
  <2>7. [y EXCEPT !.state = o] = v
    BY <2>3, <2>6, OtherState
  <2>8. [v EXCEPT !.queue = f] = z
    BY <2>4, <2>6
  <2>9. QED
    BY <2>5, <2>7, <2>8
<1>20. QED
  BY <1>16, <1>17, <1>19 DEF Settled

-----------------------------------------------------------------------------
(* Processes.                                                              *)

DuringRuns == Schedule = "during_runs"

\* A plan is about the files and the items started, and nothing else.
LEMMA PlanKept ==
  ASSUME NEW c, Planned(c), UNCHANGED <<disk, ledger, deleted, ran>>
  PROVE  Planned(c)'
<1>1. Exists' = Exists
  BY DEF Exists
<1>2. \A i : Started(i)' = Started(i)
  BY DEF Started
<1>3. \A j : Queued(j)' = Queued(j)
  BY <1>1 DEF Queued
<1>4. Editing(c) => Editing(c)'
  BY <1>1 DEF Editing
<1>5. Announcing(c) => Announcing(c)'
  BY <1>1 DEF Announcing
<1>6. Delivers(c) => Delivers(c)'
  BY <1>3 DEF Delivers
<1>7. Denying(c) => Denying(c)'
  BY <1>1 DEF Denying
<1>8. Deleting(c) => Deleting(c)'
  BY DEF Deleting
<1>9. (Taking(c) => Taking(c)') /\ (Settling(c) => Settling(c)') /\ (Running(c) => Running(c)')
  BY <1>1, <1>2 DEF Taking, Settling, Running
<1>10. Making(c) => Making(c)'
  BY <1>1 DEF Making
<1>11. Calling(c) => Calling(c)'
  BY <1>1, <1>2 DEF Calling
<1>12. QED
  BY <1>4, <1>5, <1>6, <1>7, <1>8, <1>9, <1>10, <1>11 DEF Planned, Nothing, Resolving, Reporting

\* Whoever is at work is alone.
LEMMA OthersRest ==
  ASSUME Alone, DuringRuns, NEW p \in Procs, MayStep(p) \/ \E x : AtStep(p, x) /\ x # "agent"
  PROVE  \A q \in Procs \ {p} : Resting(q)
<1>1. CASE MayStep(p)
  BY <1>1 DEF MayStep, DuringRuns
<1>2. ASSUME NEW x, AtStep(p, x), x # "agent" PROVE \A q \in Procs \ {p} : Resting(q)
  <2>1. ~Resting(p)
    BY <1>2 DEF Resting, AtStep, Idle
  <2>2. QED
    BY <2>1 DEF Alone
<1>3. QED
  BY <1>1, <1>2

\* Whoever rests has nothing to do or waits for the agent of its run.
LEMMA RestingPlan ==
  ASSUME PlansInv, DuringRuns, NEW q \in Procs, Resting(q)
  PROVE  Nothing(proc[q]) \/ (proc[q].steps = Run6 /\ Running(proc[q]))
<1>1. PICK c : c = proc[q]
  OBVIOUS
<1>2. Planned(c)
  BY <1>1 DEF PlansInv
<1>3. c.steps = <<>> \/ (c.steps # <<>> /\ Head(c.steps) = "agent" /\ c.job.op # "tool")
  BY <1>1 DEF Resting, AtStep, Idle, DuringRuns
<1>4. CASE c.steps = <<>>
  BY <1>1, <1>4 DEF Nothing
<1>5. CASE Head(c.steps) = "agent" /\ c.job.op # "tool" /\ c.steps # <<>>
  <2>1. ~Nothing(c) /\ ~Editing(c) /\ ~Announcing(c) /\ ~Delivers(c) /\ ~Resolving(c)
    BY <1>5, Programs DEF Nothing, Editing, Announcing, Delivers, Resolving
  <2>2. ~Denying(c) /\ ~Deleting(c) /\ ~Taking(c) /\ ~Settling(c) /\ ~Reporting(c) /\ ~Making(c)
    BY <1>5, Programs DEF Denying, Deleting, Taking, Settling, Reporting, Making
  <2>3. ~Calling(c)
    BY <1>5 DEF Calling
  <2>4. Running(c) /\ c.steps # Run5
    BY <1>2, <1>5, <2>1, <2>2, <2>3, Programs DEF Planned
  <2>5. QED
    BY <1>1, <2>4 DEF Running
<1>6. QED
  BY <1>3, <1>4, <1>5

\* Items are started one after the other.
RanGrows == ran' = ran \/ \E x \in Nat : ran' = Append(ran, x)

LEMMA StartedStays ==
  ASSUME ran \in Seq(Nat), RanGrows, NEW i, Started(i)
  PROVE  Started(i)'
<1>1. CASE ran' = ran
  BY <1>1 DEF Started
<1>2. ASSUME NEW x \in Nat, ran' = Append(ran, x) PROVE Started(i)'
  <2>1. PICK k \in DOMAIN ran : ran[k] = i
    BY DEF Started
  <2>2. k \in DOMAIN ran' /\ ran'[k] = i
    BY <1>2, <2>1
  <2>3. QED
    BY <2>2 DEF Started
<1>3. QED
  BY <1>1, <1>2 DEF RanGrows

\* When p moves and the others rest, the rest of the invariant about processes
\* is about p's new memory alone.
LEMMA Moves ==
  ASSUME SInv, DuringRuns, NEW p \in Procs, NEW c, proc' = [proc EXCEPT ![p] = c],
         \A q \in Procs \ {p} : Resting(q), RanGrows, Planned(c)',
         Works(c) => (Works(proc[p]) /\ c.item = proc[p].item) \/ ~Started(c.item)
  PROVE  Alone' /\ PlansInv' /\ WorksApart'
<1>1. /\ DOMAIN proc = Procs /\ proc'[p] = c
      /\ \A q \in Procs \ {p} : proc'[q] = proc[q]
  BY DEF SInv, IInv
<1>2. ASSUME NEW q \in Procs \ {p}
      PROVE  /\ Resting(q)' /\ Planned(proc[q])'
             /\ Works(proc[q]) => Started(proc[q].item)
  <2>1. Resting(q)'
    BY <1>1 DEF Resting, Idle, AtStep
  <2>2. Nothing(proc[q]) \/ (proc[q].steps = Run6 /\ Running(proc[q]))
    BY RestingPlan DEF SInv
  <2>3. PICK d : d = proc[q]
    OBVIOUS
  <2>4. CASE Nothing(d)
    <3>1. Planned(d)' /\ ~Works(d)
      BY <2>4, Programs DEF Planned, Nothing, Works
    <3>2. QED
      BY <1>1, <2>1, <2>3, <3>1
  <2>5. CASE d.steps = Run6 /\ Running(d)
    <3>1. Started(d.item)' /\ Started(d.item)
      BY <2>5, StartedStays DEF Running, SInv, PastInv
    <3>2. Running(d)'
      BY <2>5, <3>1 DEF Running
    <3>3. Planned(d)'
      BY <3>2 DEF Planned
    <3>4. QED
      BY <1>1, <2>1, <2>3, <3>1, <3>3
  <2>6. QED
    BY <2>2, <2>3, <2>4, <2>5
<1>3. Alone'
  BY <1>2 DEF Alone
<1>4. PlansInv'
  BY <1>1, <1>2 DEF PlansInv
<1>5. WorksApart'
  <2>1. ASSUME NEW a \in Procs, NEW b \in Procs, Works(proc'[a]), Works(proc'[b]),
               proc'[a].item = proc'[b].item, a # b
        PROVE  FALSE
    <3>1. CASE a # p /\ b # p
      BY <1>1, <2>1, <3>1 DEF SInv, WorksApart
    <3>2. ASSUME NEW q \in Procs \ {p}, Works(proc[q]), Works(c), proc[q].item = c.item
          PROVE  FALSE
      <4>1. Started(c.item)
        BY <1>2, <3>2
      <4>2. Works(proc[p]) /\ proc[q].item = proc[p].item
        BY <3>2, <4>1
      <4>3. QED
        BY <3>2, <4>2 DEF SInv, WorksApart
    <3>3. QED
      BY <1>1, <2>1, <3>1, <3>2
  <2>2. QED
    BY <2>1 DEF WorksApart
<1>6. QED
  BY <1>3, <1>4, <1>5

\* A process that stops leaves the others as they were.
LEMMA StopMoves ==
  ASSUME SInv, NEW p \in Procs, End(p), UNCHANGED <<files, history>>
  PROVE  Alone' /\ PlansInv' /\ WorksApart'
<1>1. UNCHANGED <<disk, ledger, deleted, ran>>
  BY DEF files, history
<1>2. PICK c : c = IdleProc
  OBVIOUS
<1>3. c.steps = <<>>
  BY <1>2 DEF IdleProc
<1>4. /\ DOMAIN proc = Procs /\ proc'[p] = c
      /\ \A q \in Procs \ {p} : proc'[q] = proc[q]
  BY <1>2 DEF SInv, IInv, End
<1>5. Resting(p)' /\ Planned(c)' /\ ~Works(c)
  <2>1. Resting(p)'
    BY <1>3, <1>4 DEF Resting, Idle
  <2>2. Planned(c)' /\ ~Works(c)
    BY <1>3, Programs DEF Planned, Nothing, Works
  <2>3. QED
    BY <2>1, <2>2
<1>6. Alone'
  BY <1>4, <1>5 DEF SInv, Alone, Resting, Idle, AtStep
<1>7. \A q \in Procs \ {p} : Planned(proc[q])'
  <2>1. ASSUME NEW q \in Procs \ {p} PROVE Planned(proc[q])'
    <3>1. PICK d : d = proc[q]
      OBVIOUS
    <3>2. Planned(d)
      BY <3>1 DEF SInv, PlansInv
    <3>3. Planned(d)'
      BY <1>1, <3>2, PlanKept
    <3>4. QED
      BY <1>4, <3>1, <3>3
  <2>2. QED
    BY <2>1
<1>8. PlansInv'
  BY <1>4, <1>5, <1>7 DEF PlansInv
<1>9. WorksApart'
  BY <1>4, <1>5 DEF SInv, WorksApart
<1>10. QED
  BY <1>6, <1>8, <1>9

\* The past is the same.
LEMMA PastKept ==
  ASSUME PastInv, UNCHANGED <<disk, deleted, acked, ran>>
  PROVE  PastInv'
BY DEF PastInv, DeletedStaysDeleted, Exists, NoItemRunTwice, Remembers

\* What Continue leaves of p.
LEMMA Continued ==
  ASSUME IInv, NEW p \in Procs, NEW r, NEW l, Continue(p, r, l)
  PROVE  \E c : /\ proc' = [proc EXCEPT ![p] = c]
                /\ c.steps = Tail(proc[p].steps)
                /\ c.steps = <<>> => c = IdleProc
                /\ c.steps # <<>> => /\ c.job = proc[p].job /\ c.item = proc[p].item
                                     /\ c.rec = r /\ c.led = l
<1>1. PICK t : t = Tail(proc[p].steps)
  OBVIOUS
<1>2. PICK d : d = proc[p]
  OBVIOUS
<1>3. Shaped(d)
  BY <1>2 DEF IInv, SoundProc
<1>4. PICK e : e = [d EXCEPT !.steps = t, !.rec = r, !.led = l]
  OBVIOUS
<1>5. e = [job |-> d.job, steps |-> t, rec |-> r, led |-> l, item |-> d.item]
  BY <1>3, <1>4 DEF Shaped
<1>6. PICK c : c = IF t = <<>> THEN IdleProc ELSE e
  OBVIOUS
<1>7. proc' = [proc EXCEPT ![p] = c]
  BY <1>1, <1>2, <1>4, <1>6 DEF Continue
<1>8. c.steps = t /\ (c.steps = <<>> => c = IdleProc)
  BY <1>5, <1>6 DEF IdleProc
<1>9. c.steps # <<>> => c.job = d.job /\ c.item = d.item /\ c.rec = r /\ c.led = l
  BY <1>5, <1>6, <1>8
<1>10. QED
  BY <1>1, <1>2, <1>7, <1>8, <1>9

LEMMA ContinuedWith ==
  ASSUME IInv, NEW p \in Procs, NEW j, ContinueWith(p, j)
  PROVE  \E c : /\ proc' = [proc EXCEPT ![p] = c]
                /\ c.steps = Tail(proc[p].steps)
                /\ c.job = j /\ c.item = proc[p].item /\ c.rec = proc[p].rec
                /\ c.led = proc[p].led
<1>1. PICK t : t = Tail(proc[p].steps)
  OBVIOUS
<1>2. PICK d : d = proc[p]
  OBVIOUS
<1>3. Shaped(d)
  BY <1>2 DEF IInv, SoundProc
<1>4. PICK c : c = [d EXCEPT !.steps = t, !.job = j]
  OBVIOUS
<1>5. c = [job |-> j, steps |-> t, rec |-> d.rec, led |-> d.led, item |-> d.item]
  BY <1>3, <1>4 DEF Shaped
<1>6. proc' = [proc EXCEPT ![p] = c]
  BY <1>1, <1>2, <1>4 DEF ContinueWith
<1>7. c.steps = t /\ c.job = j /\ c.item = d.item /\ c.rec = d.rec /\ c.led = d.led
  BY <1>5
<1>8. QED
  BY <1>1, <1>2, <1>6, <1>7

-----------------------------------------------------------------------------
(* Ledgers.                                                                *)

LEMMA EmptyOwn == OwnLedger(NoLed) /\ OwnLedger(EmptyLedger({}))
BY DEF NoLed, OwnLedger, EmptyLedger

LEMMA DeliverOwn ==
  ASSUME NEW l, OwnLedger(l), NEW target, NEW kind, NEW work, NEW op
  PROVE  /\ OwnLedger(Deliver(l, target, kind, work, op))
         /\ Deliver(l, target, kind, work, op).approvals = l.approvals
<1>1. PICK a, b, g, h, m :
        /\ m = Deliver(l, target, kind, work, op)
        /\ m = [l EXCEPT !.deliveries = a, !.evicted = b, !.gen = g, !.next = h]
        /\ g = l.gen + 1
  BY DEF Deliver
<1>2. m = [gen |-> g, next |-> h, evicted |-> b, deliveries |-> a,
           approvals |-> l.approvals, notes |-> l.notes, cursors |-> l.cursors]
  BY <1>1 DEF OwnLedger
<1>3. /\ m.gen = g /\ m.next = h /\ m.evicted = b /\ m.deliveries = a
      /\ m.approvals = l.approvals /\ m.notes = l.notes /\ m.cursors = l.cursors
  BY <1>2
<1>4. g \in Nat
  BY <1>1 DEF OwnLedger
<1>5. OwnLedger(m)
  BY <1>2, <1>3, <1>4 DEF OwnLedger
<1>6. QED
  BY <1>1, <1>3, <1>5

LEMMA ReloadOwn ==
  ASSUME NEW l, OwnLedger(l)
  PROVE  OwnLedger(Reload(l)) /\ Reload(l).approvals = l.approvals
<1>1. PICK a : Reload(l) = l \/ Reload(l) = [l EXCEPT !.deliveries = a]
  BY DEF Reload
<1>2. CASE Reload(l) = [l EXCEPT !.deliveries = a]
  <2>1. PICK m : m = Reload(l)
    OBVIOUS
  <2>2. m = [gen |-> l.gen, next |-> l.next, evicted |-> l.evicted, deliveries |-> a,
             approvals |-> l.approvals, notes |-> l.notes, cursors |-> l.cursors]
    BY <1>2, <2>1 DEF OwnLedger
  <2>3. OwnLedger(m) /\ m.approvals = l.approvals
    BY <2>2 DEF OwnLedger
  <2>4. QED
    BY <2>1, <2>3
<1>3. QED
  BY <1>1, <1>2

\* A ledger with other approvals of the child.
LEMMA WithApprovals ==
  ASSUME NEW l, OwnLedger(l), NEW a \in Seq(ChildApproval)
  PROVE  OwnLedger([l EXCEPT !.approvals = a]) /\ [l EXCEPT !.approvals = a].approvals = a
<1>1. PICK m : m = [l EXCEPT !.approvals = a]
  OBVIOUS
<1>2. m = [gen |-> l.gen, next |-> l.next, evicted |-> l.evicted, deliveries |-> l.deliveries,
           approvals |-> a, notes |-> l.notes, cursors |-> l.cursors]
  BY <1>1 DEF OwnLedger
<1>3. OwnLedger(m) /\ m.approvals = a
  BY <1>2 DEF OwnLedger
<1>4. QED
  BY <1>1, <1>3

LEMMA RegisterOwn ==
  ASSUME NEW l, OwnLedger(l), NEW id \in Requests, NEW w \in {NoRef, 0}, NEW root
  PROVE  OwnLedger(RegisterApproval(l, id, "same", Child, w, TRUE, root))
<1>1. PICK d, x : /\ d = Deliver(l, root, "approval", NoRef, id)
                  /\ x = [id |-> id, print |-> "same", child |-> Child, work |-> w,
                          grants |-> TRUE, status |-> "pending", resolvedRev |-> -1]
  OBVIOUS
<1>2. OwnLedger(d)
  BY <1>1, DeliverOwn
<1>3. x \in ChildApproval
  BY <1>1 DEF ChildApproval, ApprovalStatus
<1>4. PICK a : a = Append(d.approvals, x)
  OBVIOUS
<1>5. a \in Seq(ChildApproval)
  BY <1>2, <1>3, <1>4 DEF OwnLedger
<1>6. OwnLedger([d EXCEPT !.approvals = a])
  BY <1>2, <1>5, WithApprovals
<1>7. \/ RegisterApproval(l, id, "same", Child, w, TRUE, root) = l
      \/ RegisterApproval(l, id, "same", Child, w, TRUE, root) = [d EXCEPT !.approvals = a]
  BY <1>1, <1>4 DEF RegisterApproval
<1>8. QED
  BY <1>6, <1>7

\* One approval with another status is still one of the child's.
SettledAs(a, s, g) == [a EXCEPT !.status = s, !.resolvedRev = g]

LEMMA SettledApproval ==
  ASSUME NEW a \in ChildApproval, NEW s \in ApprovalStatus, NEW g \in Int
  PROVE  SettledAs(a, s, g) \in ChildApproval /\ SettledAs(a, s, g).status = s
BY DEF ChildApproval, SettledAs

LEMMA CommitOwn ==
  ASSUME NEW l, OwnLedger(l), NEW id, Registered(l, id), NEW o \in Decision
  PROVE  OwnLedger(CommitStatus(l, IndexOf(l, id), Settlement(o)))
<1>1. PICK k : k = IndexOf(l, id)
  OBVIOUS
<1>2. k \in DOMAIN l.approvals
  BY <1>1 DEF IndexOf, Registered
<1>3. PICK a, s, g : a = l.approvals /\ s = Settlement(o) /\ g = l.gen
  OBVIOUS
<1>4. a \in Seq(ChildApproval) /\ g \in Int /\ k \in DOMAIN a
  BY <1>2, <1>3 DEF OwnLedger
<1>5. s \in ApprovalStatus
  BY <1>3 DEF Settlement, Decision, ApprovalStatus
<1>6. PICK b : b = SettledAs(a[k], s, g)
  OBVIOUS
<1>7. b \in ChildApproval
  <2>1. a[k] \in ChildApproval
    BY <1>4
  <2>2. QED
    BY <1>4, <1>5, <1>6, <2>1, SettledApproval
<1>8. PICK f : f = [a EXCEPT ![k] = b]
  OBVIOUS
<1>9. f \in Seq(ChildApproval)
  BY <1>4, <1>7, <1>8
<1>10. CommitStatus(l, IndexOf(l, id), Settlement(o)) = [l EXCEPT !.approvals = f]
  BY <1>1, <1>3, <1>6, <1>8 DEF CommitStatus, SettledAs
<1>11. QED
  BY <1>9, <1>10, WithApprovals

\* Every approval is the child's, so invalidating the child's leaves none open.
LEMMA InvalidateOwn ==
  ASSUME NEW l, OwnLedger(l), NEW s \in ApprovalStatus \ {"pending"}
  PROVE  /\ OwnLedger(InvalidateApprovals(l, Child, s))
         /\ PendingIds(InvalidateApprovals(l, Child, s)) = {}
<1>1. PICK a, g : a = l.approvals /\ g = l.gen
  OBVIOUS
<1>2. a \in Seq(ChildApproval) /\ g \in Int
  BY <1>1 DEF OwnLedger
<1>3. PICK f : f = [i \in DOMAIN a |->
                      IF a[i].child = Child /\ a[i].status = "pending"
                        THEN [a[i] EXCEPT !.status = s, !.resolvedRev = g] ELSE a[i]]
  OBVIOUS
<1>4. ASSUME NEW i \in DOMAIN a PROVE f[i] \in ChildApproval /\ f[i].status # "pending"
  <2>1. a[i] \in ChildApproval
    BY <1>2
  <2>2. a[i].child = Child
    BY <2>1 DEF ChildApproval
  <2>3. CASE a[i].status = "pending"
    <3>1. f[i] = SettledAs(a[i], s, g)
      BY <1>3, <2>2, <2>3 DEF SettledAs
    <3>2. f[i] \in ChildApproval /\ f[i].status = s
      BY <1>2, <2>1, <3>1, SettledApproval
    <3>3. QED
      BY <3>2
  <2>4. CASE a[i].status # "pending"
    BY <1>3, <2>1, <2>4
  <2>5. QED
    BY <2>3, <2>4
<1>5. DOMAIN f = DOMAIN a
  BY <1>3
<1>6. f \in Seq(ChildApproval)
  <2>1. PICK n \in Nat : DOMAIN a = 1 .. n
    BY <1>2
  <2>2. f \in [1 .. n -> ChildApproval]
    BY <1>3, <1>4, <2>1
  <2>3. QED
    BY <2>2, SeqDef
<1>7. InvalidateApprovals(l, Child, s) = [l EXCEPT !.approvals = f]
  BY <1>1, <1>3 DEF InvalidateApprovals
<1>8. PICK m : m = InvalidateApprovals(l, Child, s)
  OBVIOUS
<1>9. OwnLedger(m) /\ m.approvals = f
  BY <1>6, <1>7, <1>8, WithApprovals
<1>10. PendingIds(m) = {}
  BY <1>4, <1>5, <1>9 DEF PendingIds
<1>11. QED
  BY <1>8, <1>9, <1>10

\* The plan of a process that is about to load the ledger.
LEMMA LoadPlan ==
  ASSUME PlansInv, NEW p \in Procs, AtStep(p, "load_ledger")
  PROVE  /\ proc[p].steps = Ledger2 /\ (Closes(proc[p].job) \/ Queued(proc[p].job))
         /\ proc[p].job.op = "invalidate" => proc[p].job.status \in {"cancelled", "stale"}
<1>1. PICK c : c = proc[p]
  OBVIOUS
<1>2. Planned(c) /\ c.steps # <<>> /\ Head(c.steps) = "load_ledger"
  BY <1>1 DEF PlansInv, AtStep
<1>3. /\ ~Nothing(c) /\ ~Editing(c) /\ ~Announcing(c) /\ ~Resolving(c) /\ ~Denying(c)
      /\ ~Deleting(c) /\ ~Taking(c)
  BY <1>2, Programs
     DEF Nothing, Editing, Announcing, Resolving, Denying, Deleting, Taking
<1>4. ~Running(c) /\ ~Settling(c) /\ ~Reporting(c) /\ ~Making(c) /\ ~Calling(c)
  BY <1>2, Programs DEF Running, Settling, Reporting, Making, Calling
<1>5. Delivers(c) /\ c.steps # Ledger1
  BY <1>2, <1>3, <1>4, Programs DEF Planned
<1>6. QED
  BY <1>1, <1>5 DEF Delivers, Closes, Queued

LEMMA OwnMoves ==
  ASSUME IInv, OwnInv, NEW p \in Procs, NEW c, proc' = [proc EXCEPT ![p] = c],
         OwnLedger(c.led), OwnLedger(ledger')
  PROVE  OwnInv'
<1>1. DOMAIN proc = Procs
  BY DEF IInv
<1>2. \A q \in Procs : OwnLedger(proc'[q].led)
  BY <1>1 DEF OwnInv
<1>3. QED
  BY <1>2 DEF OwnInv

LEMMA OwnBegin ==
  ASSUME IInv, OwnInv, NEW p \in Procs, NEW k, NEW j, NEW s, NEW r, NEW l, NEW m,
         Begin(p, k, j, s, r, l, m), OwnLedger(l), UNCHANGED ledger
  PROVE  OwnInv'
<1>1. PICK c : c = [job |-> j, steps |-> s, rec |-> r, led |-> l, item |-> m]
  OBVIOUS
<1>2. proc' = [proc EXCEPT ![p] = c] /\ OwnLedger(c.led)
  BY <1>1 DEF Begin
<1>3. OwnLedger(ledger')
  BY DEF OwnInv
<1>4. QED
  BY <1>2, <1>3, OwnMoves

LEMMA OwnContinue ==
  ASSUME IInv, OwnInv, NEW p \in Procs, NEW r, NEW l, Continue(p, r, l), OwnLedger(l),
         OwnLedger(ledger')
  PROVE  OwnInv'
<1>1. PICK c : /\ proc' = [proc EXCEPT ![p] = c]
               /\ c.steps = <<>> => c = IdleProc
               /\ c.steps # <<>> => c.led = l
  BY Continued
<1>2. OwnLedger(IdleProc.led)
  BY EmptyOwn DEF IdleProc
<1>3. OwnLedger(c.led)
  BY <1>1, <1>2
<1>4. QED
  BY <1>1, <1>3, OwnMoves

LEMMA OwnEnd ==
  ASSUME IInv, OwnInv, NEW p \in Procs, End(p), UNCHANGED ledger
  PROVE  OwnInv'
<1>1. PICK c : c = IdleProc
  OBVIOUS
<1>2. proc' = [proc EXCEPT ![p] = c] /\ OwnLedger(c.led)
  BY <1>1, EmptyOwn DEF IdleProc, End
<1>3. OwnLedger(ledger')
  BY DEF OwnInv
<1>4. QED
  BY <1>2, <1>3, OwnMoves

\* The commands that begin with an empty ledger, and those that load it.
LEMMA OwnCommand ==
  ASSUME IInv, OwnInv, NEW p \in Procs, Command(p)
  PROVE  OwnInv'
<1>1. UNCHANGED ledger
  BY DEF Command, Configure, Relationship, Lifecycle, Send, Milestone, Create, Run, RunNothing,
         Register, Resolve, Delete, BeginEdit, files
<1>2. CASE \E k, j, s, r, m : Begin(p, k, j, s, r, NoLed, m)
  <2>1. PICK k, j, s, r, m : Begin(p, k, j, s, r, NoLed, m)
    BY <1>2
  <2>2. PICK l : l = NoLed
    OBVIOUS
  <2>3. OwnLedger(l) /\ Begin(p, k, j, s, r, l, m)
    BY <2>1, <2>2, EmptyOwn
  <2>4. QED
    BY <1>1, <2>3, OwnBegin
<1>3. ASSUME NEW id \in Requests, NEW w \in {NoRef, 0}, Register(p, id, "same", w) PROVE OwnInv'
  <2>1. PICK k, j, s, r, l, m :
          /\ Begin(p, k, j, s, r, l, m)
          /\ l = RegisterApproval(Reload(ledger), id, "same", Child, w, TRUE, DefaultParent)
    BY <1>3 DEF Register
  <2>2. PICK b, root : b = Reload(ledger) /\ root = DefaultParent
    OBVIOUS
  <2>3. OwnLedger(b)
    BY <2>2, ReloadOwn DEF OwnInv
  <2>4. OwnLedger(l)
    BY <2>1, <2>2, <2>3, RegisterOwn
  <2>5. QED
    BY <1>1, <2>1, <2>4, OwnBegin
<1>4. ASSUME NEW id \in Requests, NEW d \in Decision, Resolve(p, id, d) PROVE OwnInv'
  <2>1. PICK k, j, s, r, l, m : Begin(p, k, j, s, r, l, m) /\ l = Reload(ledger)
    BY <1>4 DEF Resolve
  <2>2. OwnLedger(l)
    BY <2>1, ReloadOwn DEF OwnInv
  <2>3. QED
    BY <1>1, <2>1, <2>2, OwnBegin
<1>5. CASE Delete(p)
  <2>1. PICK k, j, s, r, l, m :
          Begin(p, k, j, s, r, l, m) /\ l = InvalidateApprovals(Reload(ledger), Child, "stale")
    BY <1>5 DEF Delete
  <2>2. PICK b, x : b = Reload(ledger) /\ x = "stale"
    OBVIOUS
  <2>3. OwnLedger(b) /\ x \in ApprovalStatus \ {"pending"}
    BY <2>2, ReloadOwn DEF OwnInv, ApprovalStatus
  <2>4. OwnLedger(l)
    BY <2>1, <2>2, <2>3, InvalidateOwn
  <2>5. QED
    BY <1>1, <2>1, <2>4, OwnBegin
<1>6. ASSUME NEW k, NEW j, NEW s, NEW r, BeginEdit(p, k, j, s, r) PROVE OwnInv'
  <2>1. PICK m : Begin(p, k, j, s, r, NoLed, m)
    BY <1>6 DEF BeginEdit
  <2>2. QED
    BY <1>2, <2>1
<1>7. ASSUME NEW c \in Configs, Configure(p, c) PROVE OwnInv'
  BY <1>6, <1>7 DEF Configure
<1>8. ASSUME NEW q \in Parents \cup {NoValue}, Relationship(p, q) PROVE OwnInv'
  BY <1>6, <1>8 DEF Relationship
<1>9. ASSUME NEW a \in LifecycleAction, Lifecycle(p, a) PROVE OwnInv'
  <2>1. PICK k, j, s, r : BeginEdit(p, k, j, s, r)
    BY <1>9 DEF Lifecycle
  <2>2. QED
    BY <1>6, <2>1
<1>10. CASE Send(p) \/ Milestone(p)
  BY <1>6, <1>10 DEF Send, Milestone
<1>11. ASSUME NEW c \in Configs, NEW k, NEW s, Create(p, k, s, c) PROVE OwnInv'
  BY <1>2, <1>11 DEF Create
<1>12. CASE Run(p) \/ RunNothing(p)
  BY <1>2, <1>12 DEF Run, RunNothing
<1>13. QED
  BY <1>3, <1>4, <1>5, <1>7, <1>8, <1>9, <1>10, <1>11, <1>12 DEF Command

LEMMA OwnStep ==
  ASSUME IInv, OwnInv, PlansInv, NEW p \in Procs, Step(p)
  PROVE  OwnInv'
<1>0. OwnLedger(ledger) /\ OwnLedger(proc[p].led)
  BY DEF OwnInv
<1>1. CASE SaveRecord(p) \/ ReloadFirst(p) \/ Remove(p)
  <2>1. PICK r, l : Continue(p, r, l) /\ l = proc[p].led /\ UNCHANGED ledger
    BY <1>1 DEF SaveRecord, ReloadFirst, Remove, files
  <2>2. OwnLedger(l) /\ OwnLedger(ledger')
    BY <1>0, <2>1
  <2>3. QED
    BY <2>1, <2>2, OwnContinue
<1>2. CASE ReloadRun(p)
  <2>1. UNCHANGED ledger
    BY <1>2 DEF ReloadRun, files
  <2>2. CASE Exists
    <3>1. PICK r, l : Continue(p, r, l) /\ l = proc[p].led
      BY <1>2, <2>2 DEF ReloadRun
    <3>2. OwnLedger(l) /\ OwnLedger(ledger')
      BY <1>0, <2>1, <3>1
    <3>3. QED
      BY <3>1, <3>2, OwnContinue
  <2>3. QED
    BY <1>2, <2>1, <2>2, OwnEnd DEF ReloadRun
<1>3. CASE SaveLedger(p)
  <2>1. PICK r, l : Continue(p, r, l) /\ l = proc[p].led /\ ledger' = l
    BY <1>3 DEF SaveLedger
  <2>2. OwnLedger(l) /\ OwnLedger(ledger')
    BY <1>0, <2>1
  <2>3. QED
    BY <2>1, <2>2, OwnContinue
<1>4. CASE ReadParent(p)
  <2>1. PICK j : ContinueWith(p, j) /\ UNCHANGED ledger
    BY <1>4 DEF ReadParent, files
  <2>2. PICK c : proc' = [proc EXCEPT ![p] = c] /\ c.led = proc[p].led
    BY <2>1, ContinuedWith
  <2>3. OwnLedger(c.led) /\ OwnLedger(ledger')
    BY <1>0, <2>1, <2>2
  <2>4. QED
    BY <2>2, <2>3, OwnMoves
<1>5. CASE LoadLedger(p)
  <2>1. PICK j, b : j = proc[p].job /\ b = Reload(ledger)
    OBVIOUS
  <2>2. PICK r, l :
          /\ Continue(p, r, l) /\ UNCHANGED ledger
          /\ l = IF j.op = "invalidate" THEN InvalidateApprovals(b, Child, j.status)
                 ELSE Deliver(b, j.target, j.kind, WorkRef(j.item), NoRef)
    BY <1>5, <2>1 DEF LoadLedger, files
  <2>3. OwnLedger(b)
    BY <1>0, <2>1, ReloadOwn
  <2>4. j.op = "invalidate" => j.status \in ApprovalStatus \ {"pending"}
      BY <1>5, <2>1, LoadPlan DEF LoadLedger, ApprovalStatus
  <2>5. OwnLedger(l)
    BY <2>2, <2>3, <2>4, InvalidateOwn, DeliverOwn
  <2>6. OwnLedger(ledger')
    BY <1>0, <2>2
  <2>7. QED
    BY <2>2, <2>5, <2>6, OwnContinue
<1>6. CASE LoadForResolve(p)
  <2>1. UNCHANGED ledger /\ OwnLedger(ledger')
    BY <1>0, <1>6 DEF LoadForResolve, files
  <2>2. \/ End(p)
        \/ \E w, l : OwnLedger(l) /\ SaveDenial(p, w, l)
        \/ \E l : OwnLedger(l) /\ SaveResolved(p, l)
    <3>1. PICK l : l = ResolveApproval(proc[p].led, proc[p].job.id, Child, proc[p].job.decision,
                                       disk.parent # NoValue, disk.state = "cancelled",
                                       disk.state = "archived")
      OBVIOUS
    <3>2. PICK b, id : b = proc[p].led /\ id = proc[p].job.id
      OBVIOUS
    <3>3. \/ End(p)
          \/ Registered(b, id) /\ \E w : SaveDenial(p, w, l)
          \/ Registered(b, id) /\ SaveResolved(p, l)
      BY <1>6, <3>1, <3>2 DEF LoadForResolve
    <3>4. l = b \/ \E o \in Decision : l = CommitStatus(b, IndexOf(b, id), Settlement(o))
      BY <3>1, <3>2 DEF ResolveApproval
    <3>5. OwnLedger(b)
      BY <1>0, <3>2
    <3>6. Registered(b, id) => OwnLedger(l)
      BY <3>4, <3>5, CommitOwn
    <3>7. QED
      BY <3>3, <3>6
  <2>3. ASSUME NEW w, NEW l, OwnLedger(l), SaveDenial(p, w, l) PROVE OwnInv'
    <3>0. PICK r, s, c : /\ r = [disk EXCEPT !.queue = SetStatus(@, w, "cancelled")]
                         /\ s = <<"save_ledger", "save_record">>
                         /\ c = [job |-> [op |-> "deny"], steps |-> s, rec |-> r, led |-> l,
                                 item |-> w]
      OBVIOUS
    <3>1. proc' = [proc EXCEPT ![p] = c]
      BY <2>3, <3>0 DEF SaveDenial
    <3>2. OwnLedger(c.led)
      BY <2>3, <3>0
    <3>3. QED
      BY <2>1, <3>1, <3>2, OwnMoves
  <2>4. ASSUME NEW l, OwnLedger(l), SaveResolved(p, l) PROVE OwnInv'
    <3>1. PICK d : d = proc[p]
      OBVIOUS
    <3>2. PICK c : c = [d EXCEPT !.steps = <<"save_ledger">>, !.led = l]
      OBVIOUS
    <3>3. Shaped(d)
      BY <3>1 DEF IInv, SoundProc
    <3>4. c = [job |-> d.job, steps |-> <<"save_ledger">>, rec |-> d.rec, led |-> l,
               item |-> d.item]
      BY <3>2, <3>3 DEF Shaped
    <3>5. c.led = l
      BY <3>4
    <3>6. proc' = [proc EXCEPT ![p] = c]
      BY <2>4, <3>1, <3>2 DEF SaveResolved
    <3>7. QED
      BY <2>1, <2>4, <3>5, <3>6, OwnMoves
  <2>5. QED
    BY <2>1, <2>2, <2>3, <2>4, OwnEnd
<1>7. QED
  BY <1>1, <1>2, <1>3, <1>4, <1>5, <1>6 DEF Step

LEMMA OwnRest ==
  ASSUME IInv, OwnInv, NEW p \in Procs,
         \/ \E o \in {"completed", "failed"} : AgentStops(p, o)
         \/ AgentError(p) \/ Crash(p)
  PROVE  OwnInv'
<1>0. UNCHANGED ledger /\ OwnLedger(ledger') /\ OwnLedger(proc[p].led)
  BY DEF AgentStops, AgentError, Crash, files, OwnInv
<1>1. CASE AgentError(p) \/ Crash(p)
  BY <1>0, <1>1, OwnEnd DEF AgentError, Crash
<1>2. ASSUME NEW o \in {"completed", "failed"}, AgentStops(p, o) PROVE OwnInv'
  <2>1. CASE proc[p].job.op = "tool"
    <3>1. PICK r, l : Continue(p, r, l) /\ l = proc[p].led
      BY <1>2, <2>1 DEF AgentStops
    <3>2. QED
      BY <1>0, <3>1, OwnContinue
  <2>2. CASE proc[p].job.op # "tool"
    <3>1. PICK j : ContinueWith(p, j)
      BY <1>2, <2>2 DEF AgentStops
    <3>2. PICK c : proc' = [proc EXCEPT ![p] = c] /\ c.led = proc[p].led
      BY <3>1, ContinuedWith
    <3>3. OwnLedger(c.led)
      BY <1>0, <3>2
    <3>4. QED
      BY <1>0, <3>2, <3>3, OwnMoves
  <2>3. QED
    BY <2>1, <2>2
<1>3. QED
  BY <1>1, <1>2

-----------------------------------------------------------------------------
(* Which plan a process follows is known from its next step.               *)

LEMMA SavePlan ==
  ASSUME NEW c, Planned(c), c.steps # <<>>, Head(c.steps) = "save_record"
  PROVE  \/ Editing(c) \/ Announcing(c) \/ Taking(c) \/ Settling(c) \/ Making(c)
         \/ (Denying(c) /\ c.steps = Last)
         \/ (Calling(c) /\ c.steps \in {ToolSteps, Tool5, Tool3, Last})
<1>1. ~Nothing(c) /\ ~Delivers(c) /\ ~Resolving(c) /\ ~Deleting(c) /\ ~Running(c) /\ ~Reporting(c)
  BY Programs DEF Nothing, Delivers, Resolving, Deleting, Running, Reporting
<1>2. Denying(c) => c.steps = Last
  BY Programs DEF Denying
<1>3. Calling(c) => c.steps \in {ToolSteps, Tool5, Tool3, Last}
  BY Programs DEF Calling
<1>4. QED
  BY <1>1, <1>2, <1>3 DEF Planned

LEMMA SaveLedgerPlan ==
  ASSUME NEW c, Planned(c), c.steps # <<>>, Head(c.steps) = "save_ledger"
  PROVE  \/ c.steps = Ledger1 /\ Delivers(c)
         \/ c.steps = Deny2 /\ Denying(c)
         \/ c.steps = Delete2 /\ Deleting(c)
<1>1. ~Nothing(c) /\ ~Editing(c) /\ ~Announcing(c) /\ ~Resolving(c) /\ ~Running(c) /\ ~Reporting(c)
  BY Programs DEF Nothing, Editing, Announcing, Resolving, Running, Reporting
<1>2. ~Taking(c) /\ ~Settling(c) /\ ~Making(c) /\ ~Calling(c)
  BY Programs DEF Taking, Settling, Making, Calling
<1>3. /\ Denying(c) => c.steps = Deny2
      /\ Delivers(c) => c.steps = Ledger1
      /\ Deleting(c) => c.steps = Delete2
  BY Programs DEF Denying, Delivers, Deleting
<1>4. QED
  BY <1>1, <1>2, <1>3 DEF Planned

LEMMA AgentPlan ==
  ASSUME NEW c, Planned(c), c.steps # <<>>, Head(c.steps) = "agent"
  PROVE  (c.steps = Run6 /\ Running(c)) \/ (c.steps = Tool2 /\ Calling(c))
<1>1. ~Nothing(c) /\ ~Editing(c) /\ ~Announcing(c) /\ ~Resolving(c) /\ ~Reporting(c)
  BY Programs DEF Nothing, Editing, Announcing, Resolving, Reporting
<1>2. ~Taking(c) /\ ~Settling(c) /\ ~Making(c) /\ ~Denying(c) /\ ~Delivers(c) /\ ~Deleting(c)
  BY Programs DEF Taking, Settling, Making, Denying, Delivers, Deleting
<1>3. (Running(c) => c.steps = Run6) /\ (Calling(c) => c.steps = Tool2)
  BY Programs DEF Running, Calling
<1>4. QED
  BY <1>1, <1>2, <1>3 DEF Planned

\* The steps that one plan has.
LEMMA OnlyPlan ==
  ASSUME NEW c, Planned(c), c.steps # <<>>
  PROVE  /\ Head(c.steps) = "reload" => c.steps = Run5 /\ Running(c)
         /\ Head(c.steps) = "reload_first" => c.steps = Tool4 /\ Calling(c)
         /\ Head(c.steps) = "read_parent" => Reporting(c)
         /\ Head(c.steps) = "load_record" => Resolving(c)
         /\ Head(c.steps) = "remove" => c.steps = Delete1 /\ Deleting(c)
<1>1. ASSUME Head(c.steps) \in {"reload", "reload_first", "read_parent", "load_record", "remove"}
      PROVE  \/ Resolving(c) \/ Running(c) \/ Reporting(c) \/ Deleting(c) \/ Calling(c)
  <2>1. ~Nothing(c) /\ ~Editing(c) /\ ~Announcing(c) /\ ~Delivers(c) /\ ~Denying(c)
    BY <1>1, Programs DEF Nothing, Editing, Announcing, Delivers, Denying
  <2>2. ~Taking(c) /\ ~Settling(c) /\ ~Making(c)
    BY <1>1, Programs DEF Taking, Settling, Making
  <2>3. QED
    BY <2>1, <2>2 DEF Planned
<1>2. /\ Resolving(c) => Head(c.steps) = "load_record"
      /\ Running(c) => Head(c.steps) = "agent" \/ (Head(c.steps) = "reload" /\ c.steps = Run5)
      /\ Reporting(c) => Head(c.steps) = "read_parent"
      /\ Deleting(c) => \/ Head(c.steps) = "save_ledger"
                        \/ Head(c.steps) = "remove" /\ c.steps = Delete1
  BY Programs DEF Resolving, Running, Reporting, Deleting
<1>3. Calling(c) => \/ Head(c.steps) \in {"save_record", "agent"}
                    \/ Head(c.steps) = "reload_first" /\ c.steps = Tool4
  BY Programs DEF Calling
<1>4. QED
  BY <1>1, <1>2, <1>3

-----------------------------------------------------------------------------
(* What a save of the record does to it.                                   *)

Fresh(c) == ~Exists /\ ~deleted /\ Created(c.rec) /\ c.steps \notin {Run7, Tool3}
Plain(c) ==
  /\ Exists /\ c.steps \notin {Run7, Tool3} /\ ~Works(c)
  /\ Changed(disk, c.rec) \/ c.rec = disk \/ Cancelled(disk, c.rec, c.item)
Claiming(c) == Exists /\ Claimed(disk, c.rec, c.item) /\ c.steps \in {Run7, Tool3}
Ending(c) ==
  /\ Exists /\ c.steps \notin {Run7, Tool3} /\ Started(c.item)
  /\ Settled(disk, c.rec, c.item, "pending") \/ Settled(disk, c.rec, c.item, "running")
  /\ Works(c)

LEMMA SaveKinds ==
  ASSUME NEW c, Planned(c), c.steps # <<>>, Head(c.steps) = "save_record"
  PROVE  Fresh(c) \/ Plain(c) \/ Claiming(c) \/ Ending(c)
<1>1. CASE Editing(c)
  BY <1>1, Programs DEF Editing, Plain, Works
<1>2. CASE Announcing(c)
  BY <1>2, Programs DEF Announcing, Plain, Works
<1>3. CASE Denying(c) /\ c.steps = Last
  BY <1>3, Programs DEF Denying, Plain, Works
<1>4. CASE Taking(c)
  BY <1>4 DEF Taking, Claiming
<1>5. CASE Settling(c)
  BY <1>5, Programs DEF Settling, Ending, Works
<1>6. CASE Making(c)
  BY <1>6, Programs DEF Making, Fresh, Plain, Works
<1>7. CASE Calling(c) /\ c.steps = ToolSteps
  BY <1>7, Programs DEF Calling, Fresh
<1>8. CASE Calling(c) /\ c.steps = Tool5
  BY <1>8, Programs DEF Calling, Plain, Works
<1>9. CASE Calling(c) /\ c.steps = Tool3
  <2>1. Exists /\ Created(disk) /\ c.rec = MarkFirstRunning(disk) /\ c.item = 0
    BY <1>9, Programs DEF Calling
  <2>2. PICK r : r = disk
    OBVIOUS
  <2>3. Claimed(r, MarkFirstRunning(r), 0)
    BY <2>1, <2>2, FirstClaimed
  <2>4. QED
    BY <1>9, <2>1, <2>2, <2>3 DEF Claiming
<1>10. CASE Calling(c) /\ c.steps = Last
  <2>1. PICK o \in Outcome : /\ Exists /\ FirstRunning(disk) /\ Started(0)
                             /\ c.rec = FinishControl(disk, o) /\ c.item = 0
    BY <1>10, Programs DEF Calling
  <2>2. PICK r : r = disk
    OBVIOUS
  <2>3. Settled(r, FinishControl(r, o), 0, "running")
    BY <2>1, <2>2, FirstSettled
  <2>4. Works(c)
    BY <1>10 DEF Works, Calling
  <2>5. QED
    BY <1>10, <2>1, <2>2, <2>3, <2>4, Programs DEF Ending
<1>11. QED
  BY <1>1, <1>2, <1>3, <1>4, <1>5, <1>6, <1>7, <1>8, <1>9, <1>10, SavePlan

-----------------------------------------------------------------------------
(* The commands.                                                           *)

\* What every step keeps besides OwnInv and IInv.
Kept == Alone' /\ PlansInv' /\ WorksApart' /\ PastInv'

LEMMA BegunPlan ==
  ASSUME SInv, DuringRuns, NEW p \in Procs, MayStep(p), NEW c, proc' = [proc EXCEPT ![p] = c],
         Planned(c), ~Works(c), UNCHANGED <<disk, ledger, deleted, acked, ran>>
  PROVE  Kept
<1>1. \A q \in Procs \ {p} : Resting(q)
  BY OthersRest DEF SInv
<1>2. RanGrows
  BY DEF RanGrows
<1>3. Planned(c)'
  BY PlanKept
<1>4. PastInv'
  BY PastKept DEF SInv
<1>5. QED
  BY <1>1, <1>2, <1>3, <1>4, Moves DEF Kept

LEMMA EditBegun ==
  ASSUME SInv, DuringRuns, NEW p \in Procs, NEW k, NEW j, NEW s \in {Last, WithLedger}, NEW r,
         BeginEdit(p, k, j, s, r), Changed(disk, r), j.op # "tool",
         s = Last => j.op = "edit",
         s = WithLedger => \/ Closes(j) \/ Tells(j)
                           \/ (j.op = "deliver" /\ j.message = disk.next /\ r = ApplySend(disk))
  PROVE  Kept
<1>1. PICK c : c = [job |-> j, steps |-> s, rec |-> r, led |-> NoLed, item |-> NoItem]
  OBVIOUS
<1>2. c.job = j /\ c.steps = s /\ c.rec = r
  BY <1>1
<1>3. /\ Exists /\ MayStep(p) /\ proc' = [proc EXCEPT ![p] = c]
      /\ UNCHANGED <<disk, ledger, deleted, acked, ran>>
  BY <1>1 DEF BeginEdit, Begin, files, history
<1>4. CASE s = Last
  <2>1. Planned(c)
    BY <1>2, <1>3, <1>4 DEF Planned, Editing
  <2>2. ~Works(c)
    BY <1>2, <1>4, Programs DEF Works
  <2>3. QED
    BY <1>3, <2>1, <2>2, BegunPlan
<1>5. CASE s = WithLedger
  <2>1. Announcing(c)
    BY <1>2, <1>3, <1>5 DEF Announcing
  <2>2. ~Works(c)
    BY <1>2, <1>5, Programs DEF Works
  <2>3. Planned(c)
    BY <2>1 DEF Planned
  <2>4. QED
    BY <1>3, <2>3, <2>2, BegunPlan
<1>6. QED
  BY <1>4, <1>5

LEMMA PlanEdit ==
  ASSUME SInv, DuringRuns, NEW p \in Procs,
         \/ \E k \in Configs : Configure(p, k)
         \/ \E q \in Parents \cup {NoValue} : Relationship(p, q)
         \/ \E a \in LifecycleAction : Lifecycle(p, a)
         \/ Send(p) \/ Milestone(p)
  PROVE  Kept
<1>0. Last = <<"save_record">> /\ Edit.op = "edit" /\ Last # WithLedger
  BY Programs DEF Last, Edit, Ledger2
<1>1. ASSUME NEW k \in Configs, Configure(p, k) PROVE Kept
  <2>1. PICK r, j : /\ r = ApplyConfigure(disk, k) /\ j = Edit
                    /\ BeginEdit(p, "configure", j, Last, r)
    BY <1>0, <1>1 DEF Configure
  <2>2. Changed(disk, r)
    BY <2>1 DEF Changed
  <2>3. QED
    BY <1>0, <2>1, <2>2, EditBegun
<1>2. ASSUME NEW q \in Parents \cup {NoValue}, Relationship(p, q) PROVE Kept
  <2>1. PICK r, j : /\ r = ApplyRelationship(disk, q) /\ j = Edit
                    /\ BeginEdit(p, "relationship", j, Last, r)
    BY <1>0, <1>2 DEF Relationship
  <2>2. Changed(disk, r)
    BY <2>1 DEF Changed
  <2>3. QED
    BY <1>0, <2>1, <2>2, EditBegun
<1>3. ASSUME NEW a \in LifecycleAction, Lifecycle(p, a) PROVE Kept
  <2>1. PICK r : r = ApplyLifecycle(disk, a)
    OBVIOUS
  <2>2. Changed(disk, r)
    BY <1>3, <2>1 DEF Changed, Lifecycle
  <2>3. CASE a \in {"cancel", "close"}
    <3>1. PICK j : /\ j = [op |-> "invalidate",
                           status |-> IF a = "cancel" THEN "cancelled" ELSE "stale"]
                   /\ BeginEdit(p, "lifecycle", j, WithLedger, r)
      BY <1>3, <2>1, <2>3 DEF Lifecycle
    <3>2. Closes(j) /\ j.op # "tool"
      BY <3>1 DEF Closes
    <3>3. QED
      BY <1>0, <2>2, <3>1, <3>2, EditBegun
  <2>4. CASE a \notin {"cancel", "close"}
    <3>1. PICK j : j = Edit /\ BeginEdit(p, "lifecycle", j, Last, r)
      BY <1>0, <1>3, <2>1, <2>4 DEF Lifecycle
    <3>2. QED
      BY <1>0, <2>2, <3>1, EditBegun
  <2>5. QED
    BY <2>3, <2>4
<1>4. CASE Send(p)
  <2>1. PICK r, j : /\ r = ApplySend(disk)
                    /\ j = Delivering(Child, "message", NoItem, disk.next)
                    /\ BeginEdit(p, "send", j, WithLedger, r)
    BY <1>4 DEF Send
  <2>2. Changed(disk, r)
    BY <2>1 DEF Changed
  <2>3. j.op = "deliver" /\ j.message = disk.next
    BY <2>1 DEF Delivering
  <2>4. QED
    BY <1>0, <2>1, <2>2, <2>3, EditBegun
<1>5. CASE Milestone(p)
  <2>1. PICK r, j, t : /\ r = ApplyMilestone(disk) /\ t = ParentOf(disk)
                       /\ j = Delivering(t, "milestone", NoItem, NoItem)
                       /\ BeginEdit(p, "milestone", j, WithLedger, r)
    BY <1>5 DEF Milestone
  <2>2. Changed(disk, r)
    BY <2>1 DEF Changed
  <2>3. Tells(j) /\ j.op # "tool"
    BY <2>1 DEF Tells, Delivering
  <2>4. QED
    BY <1>0, <2>1, <2>2, <2>3, EditBegun
<1>6. QED
  BY <1>1, <1>2, <1>3, <1>4, <1>5

LEMMA PlanCreate ==
  ASSUME SInv, DuringRuns, NEW p \in Procs, NEW k \in Configs, NEW kind,
         NEW s \in {UnadmittedSteps, CreateSteps, ToolSteps}, Create(p, kind, s, k)
  PROVE  Kept
<1>0. UnadmittedSteps = Last /\ CreateSteps # ToolSteps /\ Last # ToolSteps
  BY Lengths DEF UnadmittedSteps, Last
<1>1. PICK j, r : /\ j = [op |-> IF s = ToolSteps THEN "tool" ELSE "create"]
                  /\ r = ApplyCreate("one_off", k, TRUE)
                  /\ Begin(p, kind, j, s, r, NoLed, 0)
  BY DEF Create
<1>2. PICK c : c = [job |-> j, steps |-> s, rec |-> r, led |-> NoLed, item |-> 0]
  OBVIOUS
<1>3. c.job = j /\ c.steps = s /\ c.rec = r /\ c.item = 0
  BY <1>2
<1>4. /\ ~Exists /\ ~deleted /\ MayStep(p) /\ proc' = [proc EXCEPT ![p] = c]
      /\ UNCHANGED <<disk, ledger, deleted, acked, ran>>
  BY <1>1, <1>2 DEF Create, Begin, files, history
<1>5. Created(c.rec)
  BY <1>1, <1>3 DEF Created
<1>6. CASE s = ToolSteps
  <2>1. j.op = "tool"
    BY <1>1, <1>6
  <2>2. Calling(c)
    BY <1>3, <1>4, <1>5, <1>6, <2>1 DEF Calling
  <2>3. ~Works(c)
    BY <1>0, <1>3, <1>6, Programs DEF Works
  <2>4. Planned(c)
    BY <2>2 DEF Planned
  <2>5. QED
    BY <1>4, <2>3, <2>4, BegunPlan
<1>7. CASE s # ToolSteps
  <2>1. j.op = "create"
    BY <1>1, <1>7
  <2>2. Making(c)
    BY <1>0, <1>3, <1>4, <1>5, <1>7, <2>1 DEF Making
  <2>3. ~Works(c)
    BY <1>0, <1>3, <1>7, <2>1, Programs DEF Works
  <2>4. Planned(c)
    BY <2>2 DEF Planned
  <2>5. QED
    BY <1>4, <2>3, <2>4, BegunPlan
<1>8. QED
  BY <1>6, <1>7

\* The state that a claim finds is of no consequence.
LEMMA ClaimRestarted ==
  ASSUME NEW r \in Record(Parents, Configs), NEW s, NEW id
  PROVE  ClaimItem([r EXCEPT !.state = s], id) = ClaimItem(r, id)
<1>1. PICK n : n = [r EXCEPT !.state = s]
  OBVIOUS
<1>2. PICK q : q = SetStatus(r.queue, id, "running")
  OBVIOUS
<1>3. n = [mode |-> r.mode, config |-> r.config, parent |-> r.parent, state |-> s,
           archivedFrom |-> r.archivedFrom, generation |-> r.generation, queue |-> r.queue,
           events |-> r.events, next |-> r.next]
  BY <1>1 DEF Record
<1>4. n.queue = r.queue
  BY <1>3
<1>5. ClaimItem(n, id) = [n EXCEPT !.queue = q, !.state = "running"]
  BY <1>2, <1>4 DEF ClaimItem
<1>6. PICK n1, r1, run : /\ n1 = [n EXCEPT !.queue = q] /\ r1 = [r EXCEPT !.queue = q]
                         /\ run = "running"
  OBVIOUS
<1>7. [n1 EXCEPT !.state = run] = [r1 EXCEPT !.state = run]
  <2>1. PICK a1, a2, a3, a4, a5, a6, a8, a9 :
          /\ a1 = r.mode /\ a2 = r.config /\ a3 = r.parent /\ a4 = r.state
          /\ a5 = r.archivedFrom /\ a6 = r.generation /\ a8 = r.events /\ a9 = r.next
    OBVIOUS
  <2>2. n1 = [mode |-> a1, config |-> a2, parent |-> a3, state |-> s, archivedFrom |-> a5,
              generation |-> a6, queue |-> q, events |-> a8, next |-> a9]
    BY <1>3, <1>6, <2>1
  <2>3. r1 = [mode |-> a1, config |-> a2, parent |-> a3, state |-> a4, archivedFrom |-> a5,
              generation |-> a6, queue |-> q, events |-> a8, next |-> a9]
    BY <1>6, <2>1 DEF Record
  <2>4. /\ [n1 EXCEPT !.state = run] =
              [mode |-> a1, config |-> a2, parent |-> a3, state |-> run, archivedFrom |-> a5,
               generation |-> a6, queue |-> q, events |-> a8, next |-> a9]
        /\ [r1 EXCEPT !.state = run] =
              [mode |-> a1, config |-> a2, parent |-> a3, state |-> run, archivedFrom |-> a5,
               generation |-> a6, queue |-> q, events |-> a8, next |-> a9]
    BY <2>2, <2>3, OtherState
  <2>5. QED
    BY <2>4
<1>8. ClaimItem(r, id) = [r EXCEPT !.queue = q, !.state = "running"]
  BY <1>2 DEF ClaimItem
<1>9. QED
  BY <1>1, <1>5, <1>6, <1>7, <1>8

LEMMA PlanRun ==
  ASSUME SInv, DuringRuns, NEW p \in Procs, Run(p)
  PROVE  Kept
<1>1. PICK w \in OldestPending(disk) :
        Begin(p, "run", Delivering(NoValue, "message", w.id, NoItem), Run7,
              ClaimItem([disk EXCEPT !.state = StateAfterRestart(@)], w.id), NoLed, w.id)
  BY DEF Run, Run7
<1>2. PICK j, r, id, t : /\ id = w.id /\ t = NoValue
                         /\ j = Delivering(t, "message", id, NoItem)
                         /\ r = ClaimItem([disk EXCEPT !.state = StateAfterRestart(@)], id)
  OBVIOUS
<1>3. PICK c : c = [job |-> j, steps |-> Run7, rec |-> r, led |-> NoLed, item |-> id]
  OBVIOUS
<1>4. c.job = j /\ c.steps = Run7 /\ c.rec = r /\ c.item = id
  BY <1>3
<1>5. /\ Exists /\ MayStep(p) /\ proc' = [proc EXCEPT ![p] = c]
      /\ UNCHANGED <<disk, ledger, deleted, acked, ran>>
  BY <1>1, <1>2, <1>3 DEF Run, Begin, files, history
<1>6. r = ClaimItem(disk, id)
  <2>1. disk \in Record(Parents, Configs)
    BY <1>5 DEF SInv, IInv, Sound, GoodRecord
  <2>2. PICK s : s = StateAfterRestart(disk.state)
    OBVIOUS
  <2>3. QED
    BY <1>2, <2>1, <2>2, ClaimRestarted
<1>7. Claimed(disk, c.rec, c.item)
  BY <1>2, <1>4, <1>6 DEF Claimed
<1>8. Tells(c.job)
  BY <1>2, <1>4 DEF Tells, Delivering
<1>9. Taking(c) /\ ~Works(c)
  BY <1>4, <1>5, <1>7, <1>8, Programs DEF Taking, Works
<1>10. Planned(c)
  BY <1>9 DEF Planned
<1>11. QED
  BY <1>5, <1>9, <1>10, BegunPlan

LEMMA PlanLedger ==
  ASSUME SInv, DuringRuns, NEW p \in Procs,
         \/ RunNothing(p) \/ Delete(p)
         \/ \E id \in Requests, w \in {NoRef, 0} : Register(p, id, "same", w)
         \/ \E id \in Requests, d \in Decision : Resolve(p, id, d)
  PROVE  Kept
<1>0. UNCHANGED <<disk, ledger, deleted, acked, ran>>
  BY DEF RunNothing, Register, Resolve, Delete, files, history
<1>1. PICK k, j, s, r, l, m :
        /\ Begin(p, k, j, s, r, l, m)
        /\ \/ s = <<>>
           \/ s = Ledger1 /\ j.op = "edit"
           \/ s = Load1 /\ j.op = "resolve"
           \/ s = Delete2 /\ j.op = "edit" /\ l = InvalidateApprovals(Reload(ledger), Child, "stale")
  <2>1. CASE RunNothing(p)
    BY <2>1 DEF RunNothing
  <2>2. CASE Delete(p)
    BY <2>2 DEF Delete, Edit, Delete2
  <2>3. ASSUME NEW id \in Requests, NEW w \in {NoRef, 0}, Register(p, id, "same", w)
        PROVE  \E k, j, s, r, l, m : Begin(p, k, j, s, r, l, m) /\ s = Ledger1 /\ j.op = "edit"
    <3>1. PICK j, l : /\ j = Edit
                      /\ Begin(p, "register", j, Ledger1, NoRecord, l, NoItem)
      BY <2>3 DEF Register, Ledger1
    <3>2. j.op = "edit"
      BY <3>1 DEF Edit
    <3>3. QED
      BY <3>1, <3>2
  <2>4. ASSUME NEW id \in Requests, NEW d \in Decision, Resolve(p, id, d)
        PROVE  \E k, j, s, r, l, m : Begin(p, k, j, s, r, l, m) /\ s = Load1 /\ j.op = "resolve"
    <3>1. PICK j : /\ j = [op |-> "resolve", id |-> id, decision |-> d]
                   /\ Begin(p, "resolve", j, Load1, NoRecord, Reload(ledger), NoItem)
      BY <2>4 DEF Resolve, Load1
    <3>2. j.op = "resolve"
      BY <3>1
    <3>3. QED
      BY <3>1, <3>2
  <2>5. QED
    BY <2>1, <2>2, <2>3, <2>4
<1>2. PICK c : c = [job |-> j, steps |-> s, rec |-> r, led |-> l, item |-> m]
  OBVIOUS
<1>3. c.job = j /\ c.steps = s /\ c.led = l
  BY <1>2
<1>4. MayStep(p) /\ proc' = [proc EXCEPT ![p] = c]
  BY <1>1, <1>2 DEF Begin
<1>5. ~Works(c)
  <2>1. c.steps \in {<<>>, Ledger1, Load1, Delete2}
    BY <1>1, <1>3
  <2>2. c.steps \notin {Run6, Run5, Run4, Tool2}
    <3>1. CASE c.steps = <<>>
      BY <3>1, Programs
    <3>2. CASE c.steps # <<>> /\ Head(c.steps) \in {"save_ledger", "load_record"}
      BY <3>2, Programs
    <3>3. QED
      BY <2>1, <3>1, <3>2, Programs
  <2>3. c.steps # Last
    BY <2>1, Programs
  <2>4. QED
    BY <2>2, <2>3 DEF Works
<1>6. Planned(c)
  <2>1. CASE s = <<>>
    BY <1>3, <2>1 DEF Planned, Nothing
  <2>2. CASE s = Ledger1 /\ j.op = "edit"
    BY <1>3, <2>2 DEF Planned, Delivers
  <2>3. CASE s = Load1 /\ j.op = "resolve"
    BY <1>3, <2>3 DEF Planned, Resolving
  <2>4. CASE /\ s = Delete2 /\ j.op = "edit"
             /\ l = InvalidateApprovals(Reload(ledger), Child, "stale")
    <3>1. PICK b : b = Reload(ledger)
      OBVIOUS
    <3>2. OwnLedger(b) /\ "stale" \in ApprovalStatus \ {"pending"}
      BY <3>1, ReloadOwn DEF SInv, OwnInv, ApprovalStatus
    <3>3. PendingIds(l) = {}
      BY <2>4, <3>1, <3>2, InvalidateOwn
    <3>4. QED
      BY <1>3, <2>4, <3>3 DEF Planned, Deleting
  <2>5. QED
    BY <1>1, <2>1, <2>2, <2>3, <2>4
<1>7. QED
  BY <1>0, <1>4, <1>5, <1>6, BegunPlan

LEMMA PlanCommand ==
  ASSUME SInv, DuringRuns, NEW p \in Procs, Command(p)
  PROVE  Kept
BY PlanEdit, PlanCreate, PlanRun, PlanLedger DEF Command

-----------------------------------------------------------------------------
(* A save of the record.                                                   *)

\* The save starts an agent just when its plan says so.
LEMMA ClaimNextIff ==
  ASSUME NEW c, Planned(c), c.steps # <<>>, Head(c.steps) = "save_record"
  PROVE  (Len(c.steps) > 1 /\ c.steps[2] = "agent") <=> c.steps \in {Run7, Tool3}
<1>1. c.steps \in {Last, WithLedger, Run7, Run4, CreateSteps, ToolSteps, Tool5, Tool3}
  BY SavePlan DEF Editing, Announcing, Taking, Settling, Making
<1>2. CASE c.steps \in {Run7, Tool3}
  BY <1>2, Lengths
<1>3. CASE c.steps = Last
  <2>1. Last \notin {Run7, Tool3}
    BY Programs
  <2>2. QED
    BY <1>3, <2>1, Lengths
<1>4. CASE c.steps \in {WithLedger, Run4, CreateSteps, ToolSteps, Tool5}
  BY <1>4, Lengths
<1>5. QED
  BY <1>1, <1>2, <1>3, <1>4

\* What is saved is a good record, made of the stored one if there is one.
LEMMA SaveGrows ==
  ASSUME SInv, NEW c, Planned(c), c.steps # <<>>, Head(c.steps) = "save_record"
  PROVE  Good(c.rec) /\ ~deleted /\ (Exists => Good(disk) /\ Grows(disk, c.rec))
<1>1. Exists => Good(disk) /\ ~deleted
  BY DEF SInv, IInv, Sound, Good, PastInv, DeletedStaysDeleted
<1>2. CASE Fresh(c)
  BY <1>2, CreatedFacts DEF Fresh
<1>3. CASE Plain(c)
  <2>1. Good(disk) /\ ~deleted
    BY <1>1, <1>3 DEF Plain
  <2>2. PICK m : m = c.rec
    OBVIOUS
  <2>3. Good(m) /\ Grows(disk, m)
    BY <1>3, <2>1, <2>2, ChangedGrows, CancelledGrows, SameGrows DEF Plain
  <2>4. QED
    BY <2>1, <2>2, <2>3
<1>4. CASE Claiming(c)
  BY <1>1, <1>4, ClaimedGrows DEF Claiming
<1>5. CASE Ending(c)
  <2>1. Good(disk) /\ ~deleted
    BY <1>1, <1>5 DEF Ending
  <2>2. PICK m, id : m = c.rec /\ id = c.item
    OBVIOUS
  <2>3. id \in Nat
    BY <1>5, <2>2 DEF Ending, Started, SInv, PastInv
  <2>4. Good(m) /\ Grows(disk, m)
    BY <1>5, <2>1, <2>2, <2>3, SettledGrows DEF Ending
  <2>5. QED
    BY <2>1, <2>2, <2>4
<1>6. QED
  BY <1>2, <1>3, <1>4, <1>5, SaveKinds

\* An item that is claimed was never started.
LEMMA ClaimIsNew ==
  ASSUME SInv, NEW id, Exists, Claimed(disk, disk', id)
  PROVE  id \in Nat /\ NotPending(disk, id)' /\ ~Started(id)
<1>1. Good(disk)
  BY DEF SInv, IInv, Sound, Good
<1>2. PICK m : m = disk'
  OBVIOUS
<1>3. id \in Nat /\ NotPending(m, id) /\ ~NotPending(disk, id)
  BY <1>1, <1>2, ClaimedGrows
<1>4. ~Started(id)
  BY <1>3 DEF Started, SInv, PastInv, Remembers
<1>5. QED
  BY <1>2, <1>3, <1>4 DEF NotPending

LEMMA SavePast ==
  ASSUME SInv, NEW p \in Procs, SaveRecord(p)
  PROVE  PastInv' /\ Exists' /\ RanGrows
<1>1. PICK c : c = proc[p]
  OBVIOUS
<1>2. Planned(c) /\ c.steps # <<>> /\ Head(c.steps) = "save_record"
  BY <1>1 DEF SInv, PlansInv, SaveRecord, AtStep
<1>3. /\ disk' = c.rec /\ acked' = acked /\ deleted' = deleted
      /\ ran' = IF c.steps \in {Run7, Tool3} THEN Append(ran, c.item) ELSE ran
  BY <1>1, <1>2, ClaimNextIff DEF SaveRecord, ClaimNext
<1>4. PICK m : m = c.rec
  OBVIOUS
<1>5. Good(m) /\ ~deleted /\ (Exists => Good(disk) /\ Grows(disk, m))
  BY <1>2, <1>4, SaveGrows
<1>6. m # NoRecord /\ Exists'
  BY <1>3, <1>4, <1>5, GoodFields DEF Exists
<1>7. ran \in Seq(Nat) /\ NoItemRunTwice
  BY DEF SInv, PastInv
<1>8. Fresh(c) \/ Plain(c) \/ Claiming(c) \/ Ending(c)
  BY <1>2, SaveKinds
<1>9. CASE ~Exists
  <2>1. ran = <<>> /\ acked = {} /\ ran' = ran
    BY <1>3, <1>5, <1>8, <1>9 DEF SInv, PastInv, Fresh, Plain, Claiming, Ending
  <2>2. Remembers(disk)'
    BY <1>3, <2>1 DEF Remembers
  <2>3. NoItemRunTwice' /\ ran' \in Seq(Nat)
    BY <1>7, <2>1 DEF NoItemRunTwice
  <2>4. QED
    BY <1>3, <1>5, <1>6, <2>1, <2>2, <2>3 DEF PastInv, DeletedStaysDeleted, RanGrows
<1>10. CASE Exists
  <2>1. /\ \A x \in acked : HasItem(m, x)
        /\ \A i \in DOMAIN ran : NotPending(m, ran[i])
    BY <1>5, <1>7, <1>10, GrowsKeeps DEF SInv, PastInv, Remembers
  <2>2. CASE ran' = ran
    <3>1. Remembers(disk)'
      BY <1>3, <1>4, <2>1, <2>2 DEF Remembers, HasItem, NotPending
    <3>2. NoItemRunTwice' /\ ran' \in Seq(Nat)
      BY <1>7, <2>2 DEF NoItemRunTwice
    <3>3. QED
      BY <1>3, <1>5, <1>6, <2>2, <3>1, <3>2 DEF PastInv, DeletedStaysDeleted, RanGrows
  <2>3. CASE c.steps \in {Run7, Tool3}
    <3>0. PICK id : id = c.item
      OBVIOUS
    <3>1. Claiming(c)
      BY <1>8, <2>3 DEF Fresh, Plain, Ending
    <3>2. Claimed(disk, disk', id)
      BY <1>3, <3>0, <3>1 DEF Claiming
    <3>3. id \in Nat /\ NotPending(m, id) /\ ~Started(id)
      BY <1>3, <1>4, <1>10, <3>2, ClaimIsNew DEF NotPending
    <3>4. PICK s : s = Append(ran, id)
      OBVIOUS
    <3>5. /\ s \in Seq(Nat) /\ DOMAIN s = 1 .. (Len(ran) + 1) /\ DOMAIN ran = 1 .. Len(ran)
          /\ \A i \in DOMAIN ran : s[i] = ran[i]
          /\ s[Len(ran) + 1] = id
      BY <1>7, <3>3, <3>4
    <3>6. \A i \in DOMAIN s : NotPending(m, s[i])
      <4>1. ASSUME NEW i \in DOMAIN s PROVE NotPending(m, s[i])
        <5>1. CASE i \in DOMAIN ran
          BY <2>1, <3>5, <5>1
        <5>2. CASE i \notin DOMAIN ran
          BY <3>3, <3>5, <5>2, <1>7
        <5>3. QED
          BY <5>1, <5>2
      <4>2. QED
        BY <4>1
    <3>7. ran' = s
      BY <1>3, <2>3, <3>0, <3>4
    <3>8. Remembers(disk)'
      BY <1>3, <1>4, <2>1, <3>6, <3>7 DEF Remembers, HasItem, NotPending
    <3>9. NoItemRunTwice'
      <4>1. ASSUME NEW i \in DOMAIN s, NEW j \in DOMAIN s, s[i] = s[j] PROVE i = j
        <5>1. CASE i \in DOMAIN ran /\ j \in DOMAIN ran
          BY <1>7, <3>5, <4>1, <5>1 DEF NoItemRunTwice
        <5>2. \A k \in DOMAIN ran : ran[k] # id
          BY <3>3 DEF Started
        <5>3. CASE i \notin DOMAIN ran \/ j \notin DOMAIN ran
          BY <1>7, <3>5, <4>1, <5>2, <5>3
        <5>4. QED
          BY <5>1, <5>3
      <4>2. QED
        BY <3>7, <4>1 DEF NoItemRunTwice
    <3>10. QED
      BY <1>3, <1>5, <1>6, <3>3, <3>4, <3>5, <3>7, <3>8, <3>9
         DEF PastInv, DeletedStaysDeleted, RanGrows
  <2>4. QED
    BY <1>3, <2>2, <2>3
<1>11. QED
  BY <1>9, <1>10

\* The plan that is left after a save.
LEMMA SavePlanLeft ==
  ASSUME SInv, NEW p \in Procs, SaveRecord(p), NEW c, c = proc[p], NEW d,
         d.steps = Tail(c.steps),
         d.steps # <<>> => d.job = c.job /\ d.item = c.item /\ d.rec = c.rec
  PROVE  /\ Planned(d)'
         /\ Works(d) => (Works(c) /\ d.item = c.item) \/ ~Started(d.item)
<1>1. Planned(c) /\ c.steps # <<>> /\ Head(c.steps) = "save_record"
  BY DEF SInv, PlansInv, SaveRecord, AtStep
<1>2. /\ disk' = c.rec
      /\ ran' = IF c.steps \in {Run7, Tool3} THEN Append(ran, c.item) ELSE ran
  BY <1>1, ClaimNextIff DEF SaveRecord, ClaimNext
<1>3. Exists' /\ RanGrows /\ ran \in Seq(Nat)
  BY SavePast DEF SInv, PastInv
<1>4. CASE d.steps = <<>>
  BY <1>4, Programs DEF Planned, Nothing, Works
<1>5. CASE Announcing(c)
  <2>1. d.steps = Ledger2 /\ d.job = c.job
    BY <1>5, Programs DEF Announcing
  <2>2. Closes(d.job) \/ Queued(d.job)'
    <3>1. CASE Closes(c.job)
      BY <2>1, <3>1
    <3>2. CASE Tells(c.job)
      BY <2>1, <3>2 DEF Tells, Delivering, Queued
    <3>3. CASE c.job.op = "deliver" /\ c.job.message = disk.next /\ c.rec = ApplySend(disk)
      <4>1. Good(disk)
        BY <1>5 DEF Announcing, SInv, IInv, Sound, Good
      <4>2. PICK m : m = c.rec
        OBVIOUS
      <4>3. HasItem(m, disk.next)
        BY <3>3, <4>1, <4>2, SendGrows
      <4>4. HasItem(disk, c.job.message)'
        BY <1>2, <3>3, <4>2, <4>3 DEF HasItem
      <4>5. QED
        BY <1>3, <2>1, <3>3, <4>4 DEF Queued
    <3>4. QED
      BY <1>5, <3>1, <3>2, <3>3 DEF Announcing
  <2>3. Delivers(d)'
    BY <2>1, <2>2 DEF Delivers, Closes
  <2>4. ~Works(d)
    BY <2>1, Programs DEF Works
  <2>5. QED
    BY <2>3, <2>4 DEF Planned
<1>6. CASE Taking(c)
  <2>1. d.steps = Run6 /\ d.job = c.job /\ d.item = c.item /\ c.steps = Run7
    BY <1>6, Programs DEF Taking
  <2>2. c.item \in Nat /\ ~Started(c.item)
    <3>1. PICK id : id = c.item
      OBVIOUS
    <3>2. Exists /\ Claimed(disk, disk', id)
      BY <1>2, <1>6, <3>1 DEF Taking
    <3>3. QED
      BY <3>1, <3>2, ClaimIsNew
  <2>3. Started(d.item)'
    <3>1. PICK id, s : id = c.item /\ s = Append(ran, id)
      OBVIOUS
    <3>2. Len(ran) + 1 \in DOMAIN s /\ s[Len(ran) + 1] = id
      BY <1>3, <2>2, <3>1
    <3>3. QED
      BY <1>2, <2>1, <3>1, <3>2 DEF Started
  <2>4. Running(d)'
    BY <1>6, <2>1, <2>3 DEF Running, Taking
  <2>5. QED
    BY <2>1, <2>2, <2>4 DEF Planned
<1>7. CASE Settling(c)
  <2>1. d.steps = Run3 /\ d.job = c.job
    BY <1>7, Programs DEF Settling
  <2>2. Reporting(d)'
    BY <1>7, <2>1 DEF Settling, Reporting
  <2>3. ~Works(d)
    BY <2>1, Programs DEF Works
  <2>4. QED
    BY <2>2, <2>3 DEF Planned
<1>8. CASE Making(c) /\ c.steps = CreateSteps
  <2>1. d.steps = Last /\ d.job = c.job /\ d.rec = c.rec
    BY <1>8, Programs
  <2>2. Making(d)'
    BY <1>2, <1>3, <1>8, <2>1 DEF Making
  <2>3. ~Works(d)
    BY <1>8, <2>1, Programs DEF Works, Making
  <2>4. QED
    BY <2>2, <2>3 DEF Planned
<1>9. CASE Calling(c) /\ c.steps = ToolSteps
  <2>1. d.steps = Tool5 /\ d.job = c.job /\ d.rec = c.rec /\ d.item = c.item
    BY <1>9, Programs
  <2>2. Created(c.rec) /\ c.job.op = "tool" /\ c.item = 0
    BY <1>9, Programs DEF Calling
  <2>3. Created(disk)'
    BY <1>2, <2>2 DEF Created
  <2>4. Calling(d)'
    BY <1>2, <1>3, <2>1, <2>2, <2>3 DEF Calling
  <2>5. ~Works(d)
    BY <2>1, Programs DEF Works
  <2>6. QED
    BY <2>4, <2>5 DEF Planned
<1>10. CASE Calling(c) /\ c.steps = Tool5
  <2>1. d.steps = Tool4 /\ d.job = c.job /\ d.rec = c.rec /\ d.item = c.item
    BY <1>10, Programs
  <2>2. Created(disk) /\ c.rec = disk /\ c.job.op = "tool" /\ c.item = 0
    BY <1>10, Programs DEF Calling
  <2>3. Created(disk)'
    BY <1>2, <2>2 DEF Created
  <2>4. Calling(d)'
    BY <1>2, <1>3, <2>1, <2>2, <2>3 DEF Calling
  <2>5. ~Works(d)
    BY <2>1, Programs DEF Works
  <2>6. QED
    BY <2>4, <2>5 DEF Planned
<1>11. CASE Calling(c) /\ c.steps = Tool3
  <2>1. d.steps = Tool2 /\ d.job = c.job /\ d.rec = c.rec /\ d.item = c.item
    BY <1>11, Programs
  <2>2. /\ Exists /\ Created(disk) /\ c.rec = MarkFirstRunning(disk)
        /\ c.job.op = "tool" /\ c.item = 0
    BY <1>11, Programs DEF Calling
  <2>3. PICK r, m, id : r = disk /\ m = c.rec /\ id = 0
    OBVIOUS
  <2>4. Claimed(r, m, id) /\ FirstRunning(m)
    BY <2>2, <2>3, FirstClaimed
  <2>5. Claimed(disk, disk', id)
    BY <1>2, <2>3, <2>4
  <2>6. ~Started(id)
    BY <2>2, <2>5, ClaimIsNew
  <2>7. Started(id)'
    <3>1. PICK s : s = Append(ran, id)
      OBVIOUS
    <3>2. Len(ran) + 1 \in DOMAIN s /\ s[Len(ran) + 1] = id
      BY <1>3, <2>3, <3>1
    <3>3. QED
      BY <1>2, <1>11, <2>2, <2>3, <3>1, <3>2 DEF Started
  <2>8. FirstRunning(disk)'
    BY <1>2, <2>3, <2>4 DEF FirstRunning
  <2>9. Calling(d)'
    BY <1>2, <1>3, <2>1, <2>2, <2>3, <2>7, <2>8 DEF Calling
  <2>10. QED
    BY <2>1, <2>2, <2>3, <2>6, <2>9 DEF Planned
<1>12. c.steps = Last => d.steps = <<>>
  BY Programs
<1>13. (Editing(c) => c.steps = Last) /\ (Making(c) => c.steps \in {CreateSteps, Last})
  BY DEF Editing, Making
<1>14. QED
  BY <1>1, <1>4, <1>5, <1>6, <1>7, <1>8, <1>9, <1>10, <1>11, <1>12, <1>13, SavePlan

LEMMA PlanSave ==
  ASSUME SInv, DuringRuns, NEW p \in Procs, SaveRecord(p)
  PROVE  Kept
<1>1. PICK c, r, l : c = proc[p] /\ r = c.rec /\ l = c.led /\ Continue(p, r, l)
  BY DEF SaveRecord
<1>2. PICK d : /\ proc' = [proc EXCEPT ![p] = d]
               /\ d.steps = Tail(c.steps)
               /\ d.steps # <<>> => d.job = c.job /\ d.item = c.item /\ d.rec = r /\ d.led = l
  BY <1>1, Continued DEF SInv
<1>3. /\ Planned(d)'
      /\ Works(d) => (Works(c) /\ d.item = c.item) \/ ~Started(d.item)
  BY <1>1, <1>2, SavePlanLeft
<1>4. \A q \in Procs \ {p} : Resting(q)
  BY OthersRest DEF SInv, SaveRecord
<1>5. PastInv' /\ RanGrows
  BY SavePast
<1>6. Alone' /\ PlansInv' /\ WorksApart'
  BY <1>1, <1>2, <1>3, <1>4, <1>5, Moves
<1>7. QED
  BY <1>5, <1>6 DEF Kept

-----------------------------------------------------------------------------
(* The other steps.                                                        *)

\* A step that only moves p, by its plan.
LEMMA PlanMoves ==
  ASSUME SInv, DuringRuns, NEW p \in Procs, NEW c, c = proc[p],
         MayStep(p) \/ \E x : AtStep(p, x) /\ x # "agent",
         NEW d, proc' = [proc EXCEPT ![p] = d], Planned(d),
         Works(d) => Works(c) /\ d.item = c.item,
         UNCHANGED <<disk, ledger, deleted, acked, ran>>
  PROVE  Kept
<1>1. \A q \in Procs \ {p} : Resting(q)
  BY OthersRest DEF SInv
<1>2. RanGrows
  BY DEF RanGrows
<1>3. Planned(d)'
  BY PlanKept
<1>4. PastInv'
  BY PastKept DEF SInv
<1>5. Alone' /\ PlansInv' /\ WorksApart'
  BY <1>1, <1>2, <1>3, Moves
<1>6. QED
  BY <1>4, <1>5 DEF Kept

LEMMA PlanStops ==
  ASSUME SInv, NEW p \in Procs, End(p), UNCHANGED <<files, history>>
  PROVE  Kept
BY StopMoves, PastKept DEF Kept, SInv, files, history

LEMMA PlanReloadFirst ==
  ASSUME SInv, DuringRuns, NEW p \in Procs, ReloadFirst(p)
  PROVE  Kept
<1>1. PICK c, l : c = proc[p] /\ l = c.led
  OBVIOUS
<1>2. Planned(c) /\ c.steps # <<>> /\ Head(c.steps) = "reload_first"
  BY <1>1 DEF SInv, PlansInv, ReloadFirst, AtStep
<1>3. c.steps = Tool4 /\ Calling(c)
  BY <1>2, OnlyPlan
<1>4. Exists /\ Created(disk) /\ c.job.op = "tool" /\ c.item = 0
  BY <1>3, Programs DEF Calling
<1>5. PICK r : r = MarkFirstRunning(disk) /\ Continue(p, r, l)
  BY <1>1, <1>4 DEF ReloadFirst
<1>6. PICK d : /\ proc' = [proc EXCEPT ![p] = d]
               /\ d.steps = Tail(c.steps)
               /\ d.steps # <<>> => d.job = c.job /\ d.item = c.item /\ d.rec = r /\ d.led = l
  BY <1>1, <1>5, Continued DEF SInv
<1>7. d.steps = Tool3 /\ d.job = c.job /\ d.item = c.item /\ d.rec = r
  BY <1>3, <1>6, Programs
<1>8. Calling(d) /\ ~Works(d)
  BY <1>4, <1>5, <1>7, Programs DEF Calling, Works
<1>9. UNCHANGED <<disk, ledger, deleted, acked, ran>>
  BY DEF ReloadFirst, files, history
<1>10. \E x : AtStep(p, x) /\ x # "agent"
  BY DEF ReloadFirst
<1>11. Planned(d)
  BY <1>8 DEF Planned
<1>12. QED
  BY <1>1, <1>6, <1>8, <1>9, <1>10, <1>11, PlanMoves

LEMMA PlanAgent ==
  ASSUME SInv, DuringRuns, NEW p \in Procs, NEW o \in {"completed", "failed"}, AgentStops(p, o)
  PROVE  Kept
<1>1. PICK c, l : c = proc[p] /\ l = c.led
  OBVIOUS
<1>2. Planned(c) /\ c.steps # <<>> /\ Head(c.steps) = "agent"
  BY <1>1 DEF SInv, PlansInv, AgentStops, AtStep
<1>3. MayStep(p) /\ UNCHANGED <<disk, ledger, deleted, acked, ran>>
  BY DEF AgentStops, files, history
<1>4. CASE c.steps = Run6 /\ Running(c)
  <2>1. PICK j : j = [c.job EXCEPT !.kind = IF o = "completed" THEN "message" ELSE "milestone"]
    OBVIOUS
  <2>2. c.job = Delivering(c.job.target, c.job.kind, c.job.item, NoItem)
    BY <1>4 DEF Running, Tells
  <2>3. c.job.op = "deliver" /\ Tells(j)
    <3>1. PICK b, k, n : b = c.job /\ k = b.kind
                         /\ n = IF o = "completed" THEN "message" ELSE "milestone"
      OBVIOUS
    <3>2. b = [op |-> "deliver", target |-> b.target, kind |-> k, item |-> b.item,
               message |-> NoItem]
      BY <2>2, <3>1 DEF Delivering
    <3>3. j = [b EXCEPT !.kind = n]
      BY <2>1, <3>1
    <3>4. j = [op |-> "deliver", target |-> b.target, kind |-> n, item |-> b.item,
               message |-> NoItem]
      BY <3>2, <3>3
    <3>5. b.op = "deliver"
      BY <3>2
    <3>6. Tells(j)
      BY <3>4 DEF Tells, Delivering
    <3>7. QED
      BY <3>1, <3>5, <3>6
  <2>4. ContinueWith(p, j)
    BY <1>1, <2>1, <2>3 DEF AgentStops
  <2>5. PICK d : /\ proc' = [proc EXCEPT ![p] = d]
                 /\ d.steps = Tail(c.steps) /\ d.job = j /\ d.item = c.item
    BY <1>1, <2>4, ContinuedWith DEF SInv
  <2>6. d.steps = Run5
    BY <1>4, <2>5, Programs
  <2>7. Running(d) /\ Works(c)
    BY <1>4, <2>3, <2>5, <2>6 DEF Running, Works
  <2>8. Planned(d)
    BY <2>7 DEF Planned
  <2>9. QED
    BY <1>1, <1>3, <2>5, <2>7, <2>8, PlanMoves
<1>5. CASE c.steps = Tool2 /\ Calling(c)
  <2>1. /\ Exists /\ c.rec = disk /\ FirstRunning(disk) /\ Started(0)
        /\ c.job.op = "tool" /\ c.item = 0
    BY <1>5, Programs DEF Calling
  <2>2. PICK r : r = FinishControl(disk, o) /\ Continue(p, r, l)
    BY <1>1, <2>1 DEF AgentStops
  <2>3. PICK d : /\ proc' = [proc EXCEPT ![p] = d]
                 /\ d.steps = Tail(c.steps)
                 /\ d.steps # <<>> => d.job = c.job /\ d.item = c.item /\ d.rec = r /\ d.led = l
    BY <1>1, <2>2, Continued DEF SInv
  <2>4. d.steps = Last /\ d.job = c.job /\ d.item = c.item /\ d.rec = r
    BY <1>5, <2>3, Programs
  <2>5. Calling(d)
    BY <2>1, <2>2, <2>4 DEF Calling, Outcome
  <2>6. Works(c)
    BY <1>5 DEF Works
  <2>7. Planned(d)
    BY <2>5 DEF Planned
  <2>8. QED
    BY <1>1, <1>3, <2>3, <2>4, <2>6, <2>7, PlanMoves
<1>6. QED
  BY <1>2, <1>4, <1>5, AgentPlan

LEMMA PlanReload ==
  ASSUME SInv, DuringRuns, NEW p \in Procs, ReloadRun(p)
  PROVE  Kept
<1>1. PICK c, l : c = proc[p] /\ l = c.led
  OBVIOUS
<1>2. Planned(c) /\ c.steps # <<>> /\ Head(c.steps) = "reload"
  BY <1>1 DEF SInv, PlansInv, ReloadRun, AtStep
<1>3. c.steps = Run5 /\ Running(c)
  BY <1>2, OnlyPlan
<1>4. CASE ~Exists
  BY <1>4, PlanStops DEF ReloadRun
<1>5. CASE Exists
  <2>1. PICK o, r : /\ o = IF c.job.kind = "message" THEN "completed" ELSE "failed"
                    /\ r = TransitionWork(disk, [id |-> c.item, status |-> "pending"], o)
                    /\ Continue(p, r, l)
    BY <1>1, <1>5 DEF ReloadRun
  <2>2. PICK d : /\ proc' = [proc EXCEPT ![p] = d]
                 /\ d.steps = Tail(c.steps)
                 /\ d.steps # <<>> => d.job = c.job /\ d.item = c.item /\ d.rec = r /\ d.led = l
    BY <1>1, <2>1, Continued DEF SInv
  <2>3. d.steps = Run4 /\ d.job = c.job /\ d.item = c.item /\ d.rec = r
    BY <1>3, <2>2, Programs
  <2>4. Settled(disk, d.rec, d.item, "pending")
    BY <2>1, <2>3 DEF Settled, Outcome
  <2>5. Settling(d)
    BY <1>3, <1>5, <2>3, <2>4 DEF Settling, Running
  <2>6. Works(c)
    BY <1>3 DEF Works
  <2>7. UNCHANGED <<disk, ledger, deleted, acked, ran>>
    BY DEF ReloadRun, files, history
  <2>8. \E x : AtStep(p, x) /\ x # "agent"
    BY DEF ReloadRun
  <2>9. Planned(d)
    BY <2>5 DEF Planned
  <2>10. QED
    BY <1>1, <2>2, <2>3, <2>6, <2>7, <2>8, <2>9, PlanMoves
<1>6. QED
  BY <1>4, <1>5

LEMMA PlanParent ==
  ASSUME SInv, DuringRuns, NEW p \in Procs, ReadParent(p)
  PROVE  Kept
<1>1. PICK c, t, j : /\ c = proc[p] /\ t = ParentOf(disk)
                     /\ j = [c.job EXCEPT !.target = t] /\ ContinueWith(p, j)
  BY DEF ReadParent
<1>2. Planned(c) /\ c.steps # <<>> /\ Head(c.steps) = "read_parent"
  BY <1>1 DEF SInv, PlansInv, ReadParent, AtStep
<1>3. c.steps = Run3 /\ Tells(c.job)
  BY <1>2, OnlyPlan DEF Reporting
<1>4. Queued(j)
  <2>1. PICK b : b = c.job
    OBVIOUS
  <2>2. b = [op |-> "deliver", target |-> b.target, kind |-> b.kind, item |-> b.item,
             message |-> NoItem]
    BY <1>3, <2>1 DEF Tells, Delivering
  <2>3. j = [op |-> "deliver", target |-> t, kind |-> b.kind, item |-> b.item,
             message |-> NoItem]
    BY <1>1, <2>1, <2>2
  <2>4. QED
    BY <2>3 DEF Queued
<1>5. PICK d : /\ proc' = [proc EXCEPT ![p] = d] /\ d.steps = Tail(c.steps) /\ d.job = j
  BY <1>1, ContinuedWith DEF SInv
<1>6. d.steps = Ledger2
  BY <1>3, <1>5, Programs
<1>7. Planned(d) /\ ~Works(d)
  BY <1>4, <1>5, <1>6, Programs DEF Planned, Delivers, Works
<1>8. UNCHANGED <<disk, ledger, deleted, acked, ran>>
  BY DEF ReadParent, files, history
<1>9. \E x : AtStep(p, x) /\ x # "agent"
  BY DEF ReadParent
<1>10. QED
  BY <1>1, <1>5, <1>7, <1>8, <1>9, PlanMoves

LEMMA PlanLoadLedger ==
  ASSUME SInv, DuringRuns, NEW p \in Procs, LoadLedger(p)
  PROVE  Kept
<1>1. PICK c, r, b : c = proc[p] /\ r = c.rec /\ b = Reload(ledger)
  OBVIOUS
<1>2. c.steps = Ledger2 /\ (Closes(c.job) \/ Queued(c.job))
  BY <1>1, LoadPlan DEF SInv, LoadLedger
<1>3. PICK l : /\ l = IF c.job.op = "invalidate" THEN InvalidateApprovals(b, Child, c.job.status)
                      ELSE Deliver(b, c.job.target, c.job.kind, WorkRef(c.job.item), NoRef)
               /\ Continue(p, r, l)
  BY <1>1 DEF LoadLedger
<1>4. PICK d : /\ proc' = [proc EXCEPT ![p] = d]
               /\ d.steps = Tail(c.steps)
               /\ d.steps # <<>> => d.job = c.job /\ d.item = c.item /\ d.rec = r /\ d.led = l
  BY <1>1, <1>3, Continued DEF SInv
<1>5. d.steps = Ledger1 /\ d.job = c.job /\ d.led = l
  BY <1>2, <1>4, Programs
<1>6. Closes(c.job) => PendingIds(d.led) = {}
  <2>1. ASSUME Closes(c.job) PROVE PendingIds(l) = {}
    <3>1. PICK s : s = c.job.status
      OBVIOUS
    <3>2. s \in ApprovalStatus \ {"pending"} /\ c.job.op = "invalidate"
      BY <2>1, <3>1 DEF Closes, ApprovalStatus
    <3>3. OwnLedger(b)
      BY <1>1, ReloadOwn DEF SInv, OwnInv
    <3>4. l = InvalidateApprovals(b, Child, s)
      BY <1>3, <3>1, <3>2
    <3>5. QED
      BY <3>2, <3>3, <3>4, InvalidateOwn
  <2>2. QED
    BY <1>5, <2>1
<1>7. Delivers(d) /\ ~Works(d)
  BY <1>2, <1>5, <1>6, Programs DEF Delivers, Works, Closes
<1>8. UNCHANGED <<disk, ledger, deleted, acked, ran>>
  BY DEF LoadLedger, files, history
<1>9. \E x : AtStep(p, x) /\ x # "agent"
  BY DEF LoadLedger
<1>10. Planned(d)
  BY <1>7 DEF Planned
<1>11. QED
  BY <1>1, <1>4, <1>7, <1>8, <1>9, <1>10, PlanMoves

\* A message that is acknowledged is in the record.
LEMMA AckKnown ==
  ASSUME SInv, NEW p \in Procs, SaveLedger(p), NEW m \in AckOf(p)
  PROVE  Exists /\ HasItem(disk, m)
<1>1. PICK c : c = proc[p]
  OBVIOUS
<1>2. Planned(c) /\ c.steps # <<>> /\ Head(c.steps) = "save_ledger"
  BY <1>1 DEF SInv, PlansInv, SaveLedger, AtStep
<1>3. c.job.op = "deliver" /\ c.job.message # NoItem /\ m = c.job.message
  BY <1>1 DEF AckOf
<1>4. c.steps = Ledger1 /\ Delivers(c)
  BY <1>2, <1>3, SaveLedgerPlan DEF Denying, Deleting
<1>5. Queued(c.job)
  BY <1>3, <1>4, Programs DEF Delivers, Closes
<1>6. QED
  BY <1>3, <1>5 DEF Queued

LEMMA PlanSaveLedger ==
  ASSUME SInv, DuringRuns, NEW p \in Procs, SaveLedger(p)
  PROVE  Kept
<1>1. PICK c, r, l : c = proc[p] /\ r = c.rec /\ l = c.led /\ Continue(p, r, l) /\ ledger' = l
  BY DEF SaveLedger
<1>2. Planned(c) /\ c.steps # <<>> /\ Head(c.steps) = "save_ledger"
  BY <1>1 DEF SInv, PlansInv, SaveLedger, AtStep
<1>3. PICK d : /\ proc' = [proc EXCEPT ![p] = d]
               /\ d.steps = Tail(c.steps)
               /\ d.steps # <<>> => d.job = c.job /\ d.item = c.item /\ d.rec = r /\ d.led = l
  BY <1>1, Continued DEF SInv
<1>4. UNCHANGED <<disk, deleted, ran>> /\ acked' = acked \cup AckOf(p) /\ Exists' = Exists
  BY DEF SaveLedger, Exists
<1>5. Planned(d)' /\ ~Works(d)
  <2>1. CASE c.steps = Ledger1
    BY <1>3, <2>1, Programs DEF Planned, Nothing, Works
  <2>2. CASE c.steps = Deny2 /\ Denying(c)
    <3>1. d.steps = Last /\ d.job = c.job /\ d.rec = c.rec /\ d.item = c.item
      BY <1>1, <1>3, <2>2, Programs
    <3>2. Denying(d)'
      BY <1>4, <2>2, <3>1 DEF Denying
    <3>3. ~Works(d)
      BY <2>2, <3>1, Programs DEF Works, Denying
    <3>4. QED
      BY <3>2, <3>3 DEF Planned
  <2>3. CASE c.steps = Delete2 /\ Deleting(c)
    <3>1. d.steps = Delete1 /\ d.job = c.job
      BY <1>3, <2>3, Programs
    <3>2. c.job.op = "edit" /\ PendingIds(c.led) = {}
      BY <2>3, Programs DEF Deleting
    <3>3. PendingIds(ledger)' = {}
      BY <1>1, <3>2 DEF PendingIds
    <3>4. Deleting(d)'
      BY <3>1, <3>2, <3>3 DEF Deleting
    <3>5. ~Works(d)
      BY <3>1, Programs DEF Works
    <3>6. QED
      BY <3>4, <3>5 DEF Planned
  <2>4. QED
    BY <1>2, <2>1, <2>2, <2>3, SaveLedgerPlan
<1>6. PastInv'
  <2>1. \A m \in AckOf(p) : Exists /\ HasItem(disk, m)
    BY AckKnown
  <2>2. Exists' => Remembers(disk)'
    BY <1>4, <2>1 DEF SInv, PastInv, Remembers, NotPending, HasItem
  <2>3. ~Exists' /\ ~deleted' => ran' = <<>> /\ acked' = {}
    BY <1>4, <2>1 DEF SInv, PastInv
  <2>4. QED
    BY <1>4, <2>2, <2>3 DEF SInv, PastInv, DeletedStaysDeleted, NoItemRunTwice
<1>7. \A q \in Procs \ {p} : Resting(q)
  BY OthersRest DEF SInv, SaveLedger
<1>8. RanGrows
  BY <1>4 DEF RanGrows
<1>9. Alone' /\ PlansInv' /\ WorksApart'
  BY <1>3, <1>5, <1>7, <1>8, Moves
<1>10. QED
  BY <1>6, <1>9 DEF Kept

LEMMA PlanResolve ==
  ASSUME SInv, DuringRuns, NEW p \in Procs, LoadForResolve(p)
  PROVE  Kept
<1>1. PICK c : c = proc[p]
  OBVIOUS
<1>2. Planned(c) /\ c.steps # <<>> /\ Head(c.steps) = "load_record"
  BY <1>1 DEF SInv, PlansInv, LoadForResolve, AtStep
<1>3. c.job.op = "resolve"
  BY <1>2, OnlyPlan DEF Resolving
<1>4. UNCHANGED <<disk, ledger, deleted, acked, ran>>
  BY DEF LoadForResolve, files, history
<1>5. \E x : AtStep(p, x) /\ x # "agent"
  BY DEF LoadForResolve
<1>6. \/ End(p)
      \/ Exists /\ \E w, l : SaveDenial(p, w, l)
      \/ \E l : SaveResolved(p, l)
  <2>1. PICK w, l, b1, b2 :
          IF ~Exists \/ b1 THEN End(p) ELSE IF b2 THEN SaveDenial(p, w, l) ELSE SaveResolved(p, l)
    BY DEF LoadForResolve
  <2>2. QED
    BY <2>1
<1>7. CASE End(p)
  BY <1>7, PlanStops DEF LoadForResolve
<1>8. ASSUME Exists, NEW w, NEW l, SaveDenial(p, w, l) PROVE Kept
  <2>1. PICK r, j, d : /\ r = [disk EXCEPT !.queue = SetStatus(@, w, "cancelled")]
                       /\ j = [op |-> "deny"]
                       /\ d = [job |-> j, steps |-> Deny2, rec |-> r, led |-> l, item |-> w]
    OBVIOUS
  <2>2. d.job.op = "deny" /\ d.steps = Deny2 /\ d.rec = r /\ d.item = w
    BY <2>1
  <2>3. proc' = [proc EXCEPT ![p] = d]
    BY <1>8, <2>1 DEF SaveDenial, Deny2
  <2>4. Denying(d) /\ ~Works(d)
    BY <1>8, <2>1, <2>2, Programs DEF Denying, Cancelled, Works
  <2>5. Planned(d)
    BY <2>4 DEF Planned
  <2>6. QED
    BY <1>1, <1>4, <1>5, <2>3, <2>4, <2>5, PlanMoves
<1>9. ASSUME NEW l, SaveResolved(p, l) PROVE Kept
  <2>1. Shaped(c)
    BY <1>1 DEF SInv, IInv, SoundProc
  <2>2. PICK d : d = [c EXCEPT !.steps = Ledger1, !.led = l]
    OBVIOUS
  <2>3. d = [job |-> c.job, steps |-> Ledger1, rec |-> c.rec, led |-> l, item |-> c.item]
    BY <2>1, <2>2 DEF Shaped
  <2>4. d.job = c.job /\ d.steps = Ledger1
    BY <2>3
  <2>5. proc' = [proc EXCEPT ![p] = d]
    BY <1>1, <1>9, <2>2 DEF SaveResolved, Ledger1
  <2>6. Delivers(d) /\ ~Works(d)
    BY <1>3, <2>4, Programs DEF Delivers, Works
  <2>7. Planned(d)
    BY <2>6 DEF Planned
  <2>8. QED
    BY <1>1, <1>4, <1>5, <2>5, <2>6, <2>7, PlanMoves
<1>10. QED
  BY <1>6, <1>7, <1>8, <1>9

LEMMA PlanRemove ==
  ASSUME SInv, DuringRuns, NEW p \in Procs, Remove(p)
  PROVE  Kept
<1>1. PICK c, r, l : c = proc[p] /\ r = c.rec /\ l = c.led /\ Continue(p, r, l)
  BY DEF Remove
<1>2. Planned(c) /\ c.steps # <<>> /\ Head(c.steps) = "remove"
  BY <1>1 DEF SInv, PlansInv, Remove, AtStep
<1>3. c.steps = Delete1
  BY <1>2, OnlyPlan
<1>4. PICK d : proc' = [proc EXCEPT ![p] = d] /\ d.steps = Tail(c.steps)
  BY <1>1, Continued DEF SInv
<1>5. d.steps = <<>>
  BY <1>3, <1>4, Programs
<1>6. Planned(d)' /\ ~Works(d)
  BY <1>5, Programs DEF Planned, Nothing, Works
<1>7. /\ disk' = NoRecord /\ deleted' = (deleted \/ Exists) /\ acked' = acked /\ ran' = ran
      /\ ~Exists'
  BY DEF Remove, Exists
<1>8. PastInv'
  BY <1>7 DEF SInv, PastInv, DeletedStaysDeleted, NoItemRunTwice
<1>9. \A q \in Procs \ {p} : Resting(q)
  BY OthersRest DEF SInv, Remove
<1>10. RanGrows
  BY <1>7 DEF RanGrows
<1>11. Alone' /\ PlansInv' /\ WorksApart'
  BY <1>4, <1>6, <1>9, <1>10, Moves
<1>12. QED
  BY <1>8, <1>11 DEF Kept

-----------------------------------------------------------------------------
(* The invariant holds.                                                    *)

LEMMA StepKept ==
  ASSUME SInv, DuringRuns, NEW p \in Procs,
         \/ Step(p)
         \/ \E o \in {"completed", "failed"} : AgentStops(p, o)
         \/ AgentError(p) \/ Crash(p)
  PROVE  Kept
<1>1. CASE Step(p)
  BY <1>1, PlanSave, PlanReloadFirst, PlanReload, PlanParent, PlanLoadLedger, PlanSaveLedger,
     PlanResolve, PlanRemove DEF Step
<1>2. CASE \E o \in {"completed", "failed"} : AgentStops(p, o)
  BY <1>2, PlanAgent
<1>3. CASE AgentError(p) \/ Crash(p)
  BY <1>3, PlanStops DEF AgentError, Crash
<1>4. QED
  BY <1>1, <1>2, <1>3

LEMMA InitSInv == Init => SInv
<1> SUFFICES ASSUME Init PROVE SInv
  OBVIOUS
<1>1. IInv
  BY InitIInv
<1>2. PICK c : c = IdleProc
  OBVIOUS
<1>3. /\ \A p \in Procs : proc[p] = c
      /\ c.steps = <<>> /\ c.led = EmptyLedger({})
  BY <1>2 DEF Init, IdleProc
<1>4. OwnInv
  BY <1>3, EmptyOwn DEF OwnInv, Init
<1>5. Alone
  BY <1>3 DEF Alone, Resting, Idle
<1>6. PlansInv
  BY <1>3 DEF PlansInv, Planned, Nothing
<1>7. WorksApart
  <2>1. ~Works(c)
    BY <1>3, Programs DEF Works
  <2>2. QED
    BY <1>3, <2>1 DEF WorksApart
<1>8. PastInv
  <2>1. ~Exists /\ ~deleted /\ ran = <<>> /\ acked = {}
    BY DEF Init, Exists
  <2>2. QED
    BY <2>1 DEF PastInv, DeletedStaysDeleted, NoItemRunTwice
<1>9. QED
  BY <1>1, <1>4, <1>5, <1>6, <1>7, <1>8 DEF SInv

LEMMA NextSInv == DuringRuns /\ SInv /\ [Next]_vars => SInv'
<1> SUFFICES ASSUME DuringRuns, SInv, [Next]_vars PROVE SInv'
  OBVIOUS
<1>1. IInv'
  BY NextIInv DEF SInv
<1>2. CASE UNCHANGED vars
  <2>1. /\ UNCHANGED <<disk, ledger, proc, deleted, acked, ran>>
        /\ Exists' = Exists
    BY <1>2 DEF vars, Exists
  <2>2. OwnInv'
    BY <2>1 DEF SInv, OwnInv
  <2>3. Alone' /\ WorksApart'
    BY <2>1 DEF SInv, Alone, Resting, Idle, AtStep, WorksApart
  <2>4. PlansInv'
    <3>1. ASSUME NEW p \in Procs PROVE Planned(proc[p])'
      <4>1. PICK c : c = proc[p]
        OBVIOUS
      <4>2. Planned(c)
        BY <4>1 DEF SInv, PlansInv
      <4>3. Planned(c)'
        BY <2>1, <4>2, PlanKept
      <4>4. QED
        BY <2>1, <4>1, <4>3
    <3>2. QED
      BY <3>1 DEF PlansInv
  <2>5. PastInv'
    BY <2>1, PastKept DEF SInv
  <2>6. QED
    BY <1>1, <2>2, <2>3, <2>4, <2>5 DEF SInv
<1>3. CASE Next
  <2>1. PICK p \in Procs : \/ Command(p) \/ Step(p)
                           \/ \E o \in {"completed", "failed"} : AgentStops(p, o)
                           \/ AgentError(p) \/ Crash(p)
    BY <1>3 DEF Next
  <2>2. Kept
    BY <2>1, PlanCommand, StepKept
  <2>3. OwnInv'
    BY <2>1, OwnCommand, OwnStep, OwnRest DEF SInv
  <2>4. QED
    BY <1>1, <2>2, <2>3 DEF SInv, Kept
<1>4. QED
  BY <1>2, <1>3

LEMMA Inductive ==
  ASSUME Schedule = "during_runs"
  PROVE  Spec => []SInv
<1>1. DuringRuns
  BY DEF DuringRuns
<1>2. Init => SInv
  BY InitSInv
<1>3. SInv /\ [Next]_vars => SInv'
  BY <1>1, NextSInv
<1>4. QED
  BY <1>2, <1>3, PTL DEF Spec

-----------------------------------------------------------------------------
(* What follows.                                                           *)

\* No work item is given to two agents, whatever agents still work: the record
\* that a run takes its item from is the one that the run before left.
THEOREM NoSecondAgent ==
  ASSUME Schedule = "during_runs"
  PROVE  Spec => []NoItemRunTwice
<1>1. SInv => NoItemRunTwice
  BY DEF SInv, PastInv
<1>2. QED
  BY <1>1, Inductive, PTL

\* A message whose sender was told that it is queued is in the record for as
\* long as there is one: nothing writes an older copy over it.
THEOREM MessagesSurvive ==
  ASSUME Schedule = "during_runs"
  PROVE  Spec => []AckedMessageSurvives
<1>1. SInv => AckedMessageSurvives
  BY DEF SInv, PastInv, Remembers, AckedMessageSurvives
<1>2. QED
  BY <1>1, Inductive, PTL

\* A deleted child does not come back: no process saves a copy of it that it
\* made before.
THEOREM DeletedForGood ==
  ASSUME Schedule = "during_runs"
  PROVE  Spec => []DeletedStaysDeleted
<1>1. SInv => DeletedStaysDeleted
  BY DEF SInv, PastInv
<1>2. QED
  BY <1>1, Inductive, PTL

\* The step that ends a cancel, a close or a delete leaves no approval of the
\* child open: between the load of the ledger and its save nobody registers one.
THEOREM NothingLeftOpen ==
  ASSUME Schedule = "during_runs"
  PROVE  Spec => NoApprovalOutlivesCancel
<1>1. ASSUME SInv, NEW p \in Procs, proc[p].job.op = "invalidate", SaveLedger(p)
      PROVE  PendingIds(ledger') = {}
  <2>1. PICK c : c = proc[p]
    OBVIOUS
  <2>2. Planned(c) /\ c.steps # <<>> /\ Head(c.steps) = "save_ledger"
    BY <1>1, <2>1 DEF SInv, PlansInv, SaveLedger, AtStep
  <2>3. c.steps = Ledger1 /\ Delivers(c) /\ c.job.op = "invalidate"
    BY <1>1, <2>1, <2>2, SaveLedgerPlan DEF Denying, Deleting
  <2>4. PendingIds(c.led) = {}
    BY <2>3, Programs DEF Delivers, Queued
  <2>5. ledger' = c.led
    BY <1>1, <2>1 DEF SaveLedger
  <2>6. QED
    BY <2>4, <2>5
<1>2. ASSUME SInv, NEW p \in Procs, Remove(p)
      PROVE  PendingIds(ledger') = {}
  <2>1. PICK c : c = proc[p]
    OBVIOUS
  <2>2. Planned(c) /\ c.steps # <<>> /\ Head(c.steps) = "remove"
    BY <1>2, <2>1 DEF SInv, PlansInv, Remove, AtStep
  <2>3. c.steps = Delete1 /\ Deleting(c)
    BY <2>2, OnlyPlan
  <2>4. PendingIds(ledger) = {}
    BY <2>3, Programs DEF Deleting
  <2>5. ledger' = ledger
    BY <1>2 DEF Remove
  <2>6. QED
    BY <2>4, <2>5
<1>3. SInv => [\A p \in Procs :
                 (proc[p].job.op = "invalidate" /\ SaveLedger(p)) \/ Remove(p)
                   => PendingIds(ledger') = {}]_vars
  BY <1>1, <1>2
<1>4. QED
  BY <1>3, Inductive, PTL DEF NoApprovalOutlivesCancel

-----------------------------------------------------------------------------
(* How a step moves its process, for the bound of the log and for the items *)
(* at work.                                                                *)

\* p goes on as d: it starts no work and will log no more than before.
Quiet(p, d) ==
  /\ proc' = [proc EXCEPT ![p] = d]
  /\ Logs(d) => Logs(proc[p])
  /\ Works(d) => Works(proc[p]) /\ d.item = proc[p].item

LEMMA CommandMoves ==
  ASSUME NEW p \in Procs, Command(p)
  PROVE  /\ commands < MaxCommands /\ commands' = commands + 1 /\ UNCHANGED disk
         /\ proc[p].steps = <<>>
         /\ \E d : proc' = [proc EXCEPT ![p] = d] /\ ~Works(d)
<1>1. \E k, j, s, r, l, m :
        /\ Begin(p, k, j, s, r, l, m) /\ UNCHANGED disk
        /\ \/ s \in {<<>>, WithLedger, CreateSteps, ToolSteps, Run7, Ledger1, Load1, Delete2}
           \/ s = Last /\ j.op # "tool"
  <2>1. ASSUME NEW k, NEW j, NEW s, NEW r, BeginEdit(p, k, j, s, r)
        PROVE  \E l, m : Begin(p, k, j, s, r, l, m) /\ UNCHANGED disk
    BY <2>1 DEF BeginEdit, files
  <2>2. /\ Edit.op # "tool" /\ Last = <<"save_record">> /\ UnadmittedSteps = Last
        /\ Last # ToolSteps /\ CreateSteps # ToolSteps
    BY Programs, Lengths DEF Edit, Last, UnadmittedSteps
  <2>3. ASSUME NEW c \in Configs, Configure(p, c)
        PROVE  \E k, j, r : BeginEdit(p, k, j, Last, r) /\ j.op # "tool"
    BY <2>2, <2>3 DEF Configure
  <2>4. ASSUME NEW q \in Parents \cup {NoValue}, Relationship(p, q)
        PROVE  \E k, j, r : BeginEdit(p, k, j, Last, r) /\ j.op # "tool"
    BY <2>2, <2>4 DEF Relationship
  <2>5. ASSUME NEW a \in LifecycleAction, Lifecycle(p, a)
        PROVE  \E k, j, s, r : BeginEdit(p, k, j, s, r) /\ (s = WithLedger \/ (s = Last /\ j.op # "tool"))
    BY <2>2, <2>5 DEF Lifecycle
  <2>6. CASE Send(p) \/ Milestone(p)
    <3>1. \E k, j, r : BeginEdit(p, k, j, WithLedger, r)
      BY <2>6 DEF Send, Milestone
    <3>2. QED
      BY <2>1, <3>1
  <2>7. ASSUME NEW c \in Configs, NEW k, NEW s \in {UnadmittedSteps, CreateSteps, ToolSteps},
               Create(p, k, s, c)
        PROVE  \E j, r, l, m : /\ Begin(p, k, j, s, r, l, m) /\ UNCHANGED disk
                               /\ s = Last => j.op # "tool"
    <3>1. PICK j : /\ j = [op |-> IF s = ToolSteps THEN "tool" ELSE "create"]
                   /\ \E r, l, m : Begin(p, k, j, s, r, l, m)
      BY <2>7 DEF Create
    <3>2. s = Last => j.op # "tool"
      BY <2>2, <3>1
    <3>3. UNCHANGED disk
      BY <2>7 DEF Create, files
    <3>4. QED
      BY <3>1, <3>2, <3>3
  <2>8. ASSUME Run(p) PROVE \E k, j, r, l, m : Begin(p, k, j, Run7, r, l, m) /\ UNCHANGED disk
    BY <2>8 DEF Run, Run7, files
  <2>9. ASSUME RunNothing(p)
        PROVE  \E k, j, r, l, m : Begin(p, k, j, <<>>, r, l, m) /\ UNCHANGED disk
    BY <2>9 DEF RunNothing, files
  <2>10. ASSUME Delete(p)
         PROVE  \E k, j, r, l, m : Begin(p, k, j, Delete2, r, l, m) /\ UNCHANGED disk
    BY <2>10 DEF Delete, Delete2, files
  <2>11. ASSUME NEW id \in Requests, NEW w \in {NoRef, 0}, Register(p, id, "same", w)
         PROVE  \E k, j, r, l, m : Begin(p, k, j, Ledger1, r, l, m) /\ UNCHANGED disk
    BY <2>11 DEF Register, Ledger1, files
  <2>12. ASSUME NEW id \in Requests, NEW d \in Decision, Resolve(p, id, d)
         PROVE  \E k, j, r, l, m : Begin(p, k, j, Load1, r, l, m) /\ UNCHANGED disk
    BY <2>12 DEF Resolve, Load1, files
  <2>13. CASE \E c \in Configs : \/ Create(p, "create", CreateSteps, c)
                                 \/ Create(p, "tool", ToolSteps, c)
                                 \/ Create(p, "tool", CreateSteps, c)
                                 \/ Create(p, "tool", UnadmittedSteps, c)
    <3>1. PICK k, s : /\ s \in {UnadmittedSteps, CreateSteps, ToolSteps}
                      /\ \E c \in Configs : Create(p, k, s, c)
      BY <2>13
    <3>2. QED
      BY <2>2, <2>7, <3>1
  <2>14. CASE \/ \E c \in Configs : Configure(p, c)
              \/ \E q \in Parents \cup {NoValue} : Relationship(p, q)
    BY <2>1, <2>3, <2>4, <2>14
  <2>15. CASE \E a \in LifecycleAction : Lifecycle(p, a)
    BY <2>1, <2>5, <2>15
  <2>16. CASE Run(p) \/ RunNothing(p) \/ Delete(p)
    BY <2>8, <2>9, <2>10, <2>16
  <2>17. CASE \/ \E id \in Requests, w \in {NoRef, 0} : Register(p, id, "same", w)
              \/ \E id \in Requests, d \in Decision : Resolve(p, id, d)
    BY <2>11, <2>12, <2>17
  <2>18. QED
    BY <2>6, <2>13, <2>14, <2>15, <2>16, <2>17 DEF Command
<1>2. PICK k, j, s, r, l, m :
        /\ Begin(p, k, j, s, r, l, m) /\ UNCHANGED disk
        /\ \/ s \in {<<>>, WithLedger, CreateSteps, ToolSteps, Run7, Ledger1, Load1, Delete2}
           \/ s = Last /\ j.op # "tool"
  BY <1>1
<1>3. PICK d : d = [job |-> j, steps |-> s, rec |-> r, led |-> l, item |-> m]
  OBVIOUS
<1>4. d.job = j /\ d.steps = s
  BY <1>3
<1>5. s \notin {Run6, Run5, Run4, Tool2}
  <2>1. CASE s = <<>>
    BY <2>1, Programs
  <2>2. CASE s \in {WithLedger, CreateSteps, ToolSteps, Run7, Last}
    <3>1. Head(s) = "save_record" /\ s # Run4
      BY <2>2, Programs, Lengths
    <3>2. QED
      BY <3>1, Programs
  <2>3. CASE s \in {Ledger1, Load1, Delete2}
    BY <2>3, Programs
  <2>4. QED
    BY <1>2, <2>1, <2>2, <2>3
<1>6. s = Last => j.op # "tool"
  <2>1. Last \notin {<<>>, WithLedger, CreateSteps, ToolSteps, Run7, Ledger1, Load1, Delete2}
    BY Programs
  <2>2. QED
    BY <1>2, <2>1
<1>7. ~Works(d)
  BY <1>4, <1>5, <1>6 DEF Works
<1>8. QED
  BY <1>2, <1>3, <1>7 DEF Begin, Idle

LEMMA StopQuiet ==
  ASSUME NEW p \in Procs, End(p)
  PROVE  \E d : Quiet(p, d)
<1>1. PICK d : d = IdleProc
  OBVIOUS
<1>2. proc' = [proc EXCEPT ![p] = d] /\ d.steps = <<>>
  BY <1>1 DEF End, IdleProc
<1>3. ~Logs(d) /\ ~Works(d)
  BY <1>2, Programs DEF Logs, Works
<1>4. QED
  BY <1>2, <1>3 DEF Quiet

\* Programs that are told apart by more than their first step.
LEMMA Distinct ==
  /\ Tool3 \notin {Run6, Run5, Run4, Tool2, Last}
  /\ Last \notin {Run6, Run5, Run4, Tool2}
  /\ Deny2 \notin {Ledger2, Ledger1, Delete1}
<1>1. Tool3 \notin {Run6, Run5, Tool2} /\ Last \notin {Run6, Run5, Tool2}
  BY Programs
<1>2. Tool3 # Run4 /\ Tool3 # Last /\ Last # Run4
  <2>1. Tail(Tool3) # Tail(Run4)
    <3>1. Head(Tool2) # Head(Run3)
      BY Programs
    <3>2. QED
      BY <3>1, Programs
  <2>2. Tail(Tool3) # Tail(Last) /\ Tail(Run4) # Tail(Last)
    BY Programs
  <2>3. QED
    BY <2>1, <2>2
<1>3. Deny2 \notin {Ledger2, Delete1}
  BY Programs
<1>4. Deny2 # Ledger1
  BY Programs
<1>5. QED
  BY <1>1, <1>2, <1>3, <1>4

\* A step that goes to the next with the same item.
LEMMA NextQuiet ==
  ASSUME NEW p \in Procs, NEW c, c = proc[p], NEW d, proc' = [proc EXCEPT ![p] = d],
         d.steps = Tail(c.steps),
         d.steps # <<>> => d.item = c.item /\ d.job.op = c.job.op,
         \/ c.steps \in {Tool4, Run6, Tool2, Run5, Run3, Ledger2, Ledger1, Delete2, Delete1, Load1}
         \/ c.steps = Deny2 /\ c.job.op # "tool"
  PROVE  Quiet(p, d)
<1>1. CASE c.steps = Tool4
  <2>1. d.steps = Tool3
    BY <1>1, Programs
  <2>2. Logs(c) /\ ~Works(d)
    BY <1>1, <2>1, Distinct DEF Logs, Works
  <2>3. QED
    BY <2>2 DEF Quiet
<1>2. CASE c.steps = Run6
  BY <1>2, Programs DEF Quiet, Logs, Works
<1>3. CASE c.steps = Tool2
  BY <1>3, Programs DEF Quiet, Logs, Works
<1>4. CASE c.steps = Run5
  BY <1>4, Programs DEF Quiet, Logs, Works
<1>5. CASE c.steps \in {Run3, Ledger2, Delete2}
  <2>1. d.steps \in {Ledger2, Ledger1, Delete1}
    BY <1>5, Programs
  <2>2. d.steps # <<>> /\ d.steps # Deny2
    BY <2>1, Programs, Distinct
  <2>0. Head(d.steps) \in {"load_ledger", "save_ledger", "remove"}
    BY <2>1, Programs
  <2>3. /\ d.steps \notin {Run7, Run6, Run5, Run4, WithLedger, CreateSteps, Last}
        /\ d.steps \notin {ToolSteps, Tool5, Tool4, Tool3, Tool2, Load1}
    BY <2>2, <2>0, Programs
  <2>4. ~Logs(d) /\ ~Works(d)
    BY <2>2, <2>3 DEF Logs, Works
  <2>5. QED
    BY <2>4 DEF Quiet
<1>6. CASE c.steps \in {Ledger1, Delete1, Load1}
  <2>1. d.steps = <<>>
    BY <1>6, Programs
  <2>2. ~Logs(d) /\ ~Works(d)
    BY <2>1, Programs DEF Logs, Works
  <2>3. QED
    BY <2>2 DEF Quiet
<1>7. CASE c.steps = Deny2 /\ c.job.op # "tool"
  <2>1. d.steps = Last /\ d.job.op # "tool" /\ d.steps \notin {Run6, Run5, Run4, Tool2}
    <3>1. d.steps = Last /\ d.steps # <<>>
      BY <1>7, Programs
    <3>2. d.job.op # "tool"
      BY <1>7, <3>1
    <3>3. QED
      BY <3>1, <3>2, Distinct
  <2>2. Logs(c) /\ ~Works(d)
    BY <1>7, <2>1 DEF Logs, Works
  <2>3. QED
    BY <2>2 DEF Quiet
<1>8. QED
  BY <1>1, <1>2, <1>3, <1>4, <1>5, <1>6, <1>7

LEMMA QuietSteps ==
  ASSUME SInv, DuringRuns, NEW p \in Procs,
         \/ ReloadFirst(p) \/ ReloadRun(p) \/ ReadParent(p) \/ LoadLedger(p) \/ SaveLedger(p)
         \/ LoadForResolve(p) \/ Remove(p)
         \/ \E o \in {"completed", "failed"} : AgentStops(p, o)
         \/ AgentError(p) \/ Crash(p)
  PROVE  \E d : Quiet(p, d)
<1>1. PICK c, r, l : c = proc[p] /\ r = c.rec /\ l = c.led
  OBVIOUS
<1>2. Planned(c)
  BY <1>1 DEF SInv, PlansInv
<1>3. ASSUME NEW a, NEW b, Continue(p, a, b),
             \/ c.steps \in {Tool4, Tool2, Run5, Ledger2, Ledger1, Delete2, Delete1}
             \/ c.steps = Deny2 /\ c.job.op # "tool"
      PROVE  \E d : Quiet(p, d)
  <2>1. PICK d : /\ proc' = [proc EXCEPT ![p] = d] /\ d.steps = Tail(c.steps)
                 /\ d.steps # <<>> => d.job = c.job /\ d.item = c.item
    BY <1>1, <1>3, Continued DEF SInv
  <2>2. QED
    BY <1>1, <1>3, <2>1, NextQuiet
<1>4. ASSUME NEW j, ContinueWith(p, j), c.steps \in {Run6, Run3}, j.op = c.job.op
      PROVE  \E d : Quiet(p, d)
  <2>1. PICK d : /\ proc' = [proc EXCEPT ![p] = d] /\ d.steps = Tail(c.steps)
                 /\ d.job = j /\ d.item = c.item
    BY <1>1, <1>4, ContinuedWith DEF SInv
  <2>2. QED
    BY <1>1, <1>4, <2>1, NextQuiet
<1>5. CASE ReloadFirst(p)
  <2>1. c.steps = Tool4
    BY <1>1, <1>2, <1>5, OnlyPlan DEF ReloadFirst, AtStep
  <2>2. PICK a : Continue(p, a, l)
    BY <1>1, <1>5 DEF ReloadFirst
  <2>3. QED
    BY <1>3, <2>1, <2>2
<1>6. CASE ReloadRun(p)
  <2>1. c.steps = Run5
    BY <1>1, <1>2, <1>6, OnlyPlan DEF ReloadRun, AtStep
  <2>2. End(p) \/ \E a : Continue(p, a, l)
    BY <1>1, <1>6 DEF ReloadRun
  <2>3. QED
    BY <1>3, <2>1, <2>2, StopQuiet
<1>7. CASE ReadParent(p)
  <2>1. c.steps = Run3 /\ Tells(c.job)
    BY <1>1, <1>2, <1>7, OnlyPlan DEF ReadParent, AtStep, Reporting
  <2>2. PICK b, t, j : b = c.job /\ j = [b EXCEPT !.target = t] /\ ContinueWith(p, j)
    BY <1>1, <1>7 DEF ReadParent
  <2>3. b = [op |-> "deliver", target |-> b.target, kind |-> b.kind, item |-> b.item,
             message |-> NoItem]
    BY <2>1, <2>2 DEF Tells, Delivering
  <2>4. j.op = b.op
    BY <2>2, <2>3
  <2>5. QED
    BY <1>4, <2>1, <2>2, <2>4
<1>8. CASE LoadLedger(p)
  <2>1. c.steps = Ledger2
    BY <1>1, <1>8, LoadPlan DEF LoadLedger, SInv
  <2>2. PICK a, b : Continue(p, a, b)
    BY <1>8 DEF LoadLedger
  <2>3. QED
    BY <1>3, <2>1, <2>2
<1>9. CASE SaveLedger(p)
  <2>1. c.steps \in {Ledger1, Delete2} \/ (c.steps = Deny2 /\ c.job.op # "tool")
    BY <1>1, <1>2, <1>9, SaveLedgerPlan DEF SaveLedger, AtStep, Denying
  <2>2. Continue(p, r, l)
    BY <1>1, <1>9 DEF SaveLedger
  <2>3. QED
    BY <1>3, <2>1, <2>2
<1>10. CASE Remove(p)
  <2>1. c.steps = Delete1
    BY <1>1, <1>2, <1>10, OnlyPlan DEF Remove, AtStep
  <2>2. Continue(p, r, l)
    BY <1>1, <1>10 DEF Remove
  <2>3. QED
    BY <1>3, <2>1, <2>2
<1>11. CASE LoadForResolve(p)
  <2>1. c.steps = Load1
    BY <1>1, <1>2, <1>11, OnlyPlan DEF LoadForResolve, AtStep, Resolving
  <2>2. End(p) \/ (\E w, a : SaveDenial(p, w, a)) \/ \E a : SaveResolved(p, a)
    BY <1>11 DEF LoadForResolve
  <2>3. ASSUME NEW w, NEW a, SaveDenial(p, w, a) PROVE \E d : Quiet(p, d)
    <3>1. PICK m, d : /\ m = [disk EXCEPT !.queue = SetStatus(@, w, "cancelled")]
                      /\ d = [job |-> [op |-> "deny"], steps |-> Deny2, rec |-> m, led |-> a,
                              item |-> w]
      OBVIOUS
    <3>2. proc' = [proc EXCEPT ![p] = d] /\ d.steps = Deny2
      BY <2>3, <3>1 DEF SaveDenial, Deny2
    <3>3. Logs(c) /\ ~Works(d)
      BY <2>1, <3>2, Programs DEF Logs, Works
    <3>4. QED
      BY <1>1, <3>2, <3>3 DEF Quiet
  <2>4. ASSUME NEW a, SaveResolved(p, a) PROVE \E d : Quiet(p, d)
    <3>1. Shaped(c)
      BY <1>1 DEF SInv, IInv, SoundProc
    <3>2. PICK d : d = [c EXCEPT !.steps = Ledger1, !.led = a]
      OBVIOUS
    <3>3. proc' = [proc EXCEPT ![p] = d] /\ d.steps = Ledger1
      BY <1>1, <2>4, <3>1, <3>2 DEF SaveResolved, Ledger1, Shaped
    <3>4. Logs(c) /\ ~Works(d)
      BY <2>1, <3>3, Programs DEF Logs, Works
    <3>5. QED
      BY <1>1, <3>3, <3>4 DEF Quiet
  <2>5. QED
    BY <2>2, <2>3, <2>4, StopQuiet
<1>12. ASSUME NEW o \in {"completed", "failed"}, AgentStops(p, o)
       PROVE  \E d : Quiet(p, d)
  <2>1. (c.steps = Run6 /\ Running(c)) \/ (c.steps = Tool2 /\ Calling(c))
    BY <1>1, <1>2, <1>12, AgentPlan DEF AgentStops, AtStep
  <2>2. CASE c.steps = Run6 /\ Running(c)
    <3>1. PICK b, k, j : b = c.job /\ j = [b EXCEPT !.kind = k] /\ (b.op # "tool" => ContinueWith(p, j))
      BY <1>1, <1>12 DEF AgentStops
    <3>2. b = [op |-> "deliver", target |-> b.target, kind |-> b.kind, item |-> b.item,
               message |-> NoItem]
      BY <2>2, <3>1 DEF Tells, Delivering, Running
    <3>3. j.op = b.op /\ b.op # "tool"
      BY <3>1, <3>2
    <3>4. QED
      BY <1>4, <2>2, <3>1, <3>3
  <2>3. CASE c.steps = Tool2 /\ Calling(c)
    <3>1. PICK a : Continue(p, a, l)
      BY <1>1, <1>12, <2>3 DEF AgentStops, Calling
    <3>2. QED
      BY <1>3, <2>3, <3>1
  <2>4. QED
    BY <2>1, <2>2, <2>3
<1>13. CASE AgentError(p) \/ Crash(p)
  BY <1>13, StopQuiet DEF AgentError, Crash
<1>14. QED
  BY <1>5, <1>6, <1>7, <1>8, <1>9, <1>10, <1>11, <1>12, <1>13

-----------------------------------------------------------------------------
(* The log is bounded by the commands.                                     *)

LEMMA LogsMove ==
  ASSUME IInv, NEW p \in Procs, NEW d, proc' = [proc EXCEPT ![p] = d]
  PROVE  /\ Loggers' \subseteq Loggers \cup {p}
         /\ (Logs(d) => Logs(proc[p])) => Loggers' \subseteq Loggers
         /\ ~Logs(d) => Loggers' \subseteq Loggers \ {p}
<1>1. /\ proc'[p] = d
      /\ \A q \in Procs \ {p} : proc'[q] = proc[q]
  BY DEF IInv
<1>2. QED
  BY <1>1 DEF Loggers

\* A step that logs nothing, a step that logs an event and ends p's part in
\* the log, and the first event of a log.
LEMMA BoundKept ==
  ASSUME IInv, Bounded, UNCHANGED commands, NEW p \in Procs, NEW d,
         proc' = [proc EXCEPT ![p] = d], Logs(d) => Logs(proc[p]),
         Exists' => \/ Exists /\ Good(disk) /\ Len(disk'.events) = Len(disk.events)
                    \/ /\ Exists /\ Good(disk) /\ Logs(proc[p]) /\ ~Logs(d)
                       /\ Len(disk'.events) = Len(disk.events) + 1
                    \/ Len(disk'.events) = 1
  PROVE  Bounded'
<1>1. IsFiniteSet(Loggers) /\ Loggers' \subseteq Loggers
  BY LogsMove DEF Bounded
<1>2. PICK a, b : a = Loggers /\ b = Loggers'
  OBVIOUS
<1>3. IsFiniteSet(b) /\ Cardinality(b) <= Cardinality(a) /\ Cardinality(a) \in Nat
      /\ Cardinality(b) \in Nat
  <2>1. IsFiniteSet(a) /\ b \in SUBSET a
    BY <1>1, <1>2
  <2>2. QED
    BY <2>1, FS_Subset, FS_CardinalityType
<1>4. commands \in Nat /\ commands <= MaxCommands /\ Cardinality(a) <= commands
  BY <1>2 DEF Bounded
<1>5. Exists' => Len(disk'.events) + Cardinality(b) <= commands + 1
  <2>1. CASE Exists /\ Good(disk) /\ Len(disk'.events) = Len(disk.events)
    <3>1. Len(disk.events) \in Nat
      BY <2>1, GoodFields
    <3>2. Len(disk.events) + Cardinality(a) <= commands + 1
      BY <1>2, <2>1 DEF Bounded
    <3>3. QED
      BY <1>3, <1>4, <2>1, <3>1, <3>2
  <2>2. CASE /\ Exists /\ Good(disk) /\ Logs(proc[p]) /\ ~Logs(d)
             /\ Len(disk'.events) = Len(disk.events) + 1
    <3>1. Len(disk.events) \in Nat
      BY <2>2, GoodFields
    <3>2. Len(disk.events) + Cardinality(a) <= commands + 1
      BY <1>2, <2>2 DEF Bounded
    <3>3. p \in a /\ b \subseteq a \ {p}
      BY <1>2, <2>2, LogsMove DEF Loggers
    <3>4. IsFiniteSet(a \ {p}) /\ Cardinality(a \ {p}) = Cardinality(a) - 1
      BY <1>1, <1>2, <3>3, FS_RemoveElement
    <3>5. Cardinality(b) <= Cardinality(a) - 1
      <4>1. PICK e : e = a \ {p}
        OBVIOUS
      <4>2. b \in SUBSET e /\ IsFiniteSet(e) /\ Cardinality(e) = Cardinality(a) - 1
        BY <3>3, <3>4, <4>1
      <4>3. Cardinality(b) <= Cardinality(e)
        BY <4>2, FS_Subset
      <4>4. QED
        BY <4>2, <4>3
    <3>6. QED
      BY <1>3, <1>4, <2>2, <3>1, <3>2, <3>5
  <2>3. CASE Len(disk'.events) = 1
    BY <1>3, <1>4, <2>3
  <2>4. QED
    BY <2>1, <2>2, <2>3
<1>6. QED
  BY <1>2, <1>3, <1>4, <1>5 DEF Bounded

LEMMA BoundBegun ==
  ASSUME SInv, Bounded, NEW p \in Procs, Command(p)
  PROVE  Bounded'
<1>1. /\ commands < MaxCommands /\ commands' = commands + 1 /\ UNCHANGED disk
      /\ \E d : proc' = [proc EXCEPT ![p] = d]
  BY CommandMoves
<1>2. IsFiniteSet(Loggers) /\ Loggers' \subseteq Loggers \cup {p}
  BY <1>1, LogsMove DEF Bounded, SInv
<1>3. PICK a, b, e : a = Loggers /\ b = Loggers' /\ e = a \cup {p}
  OBVIOUS
<1>4. IsFiniteSet(e) /\ Cardinality(e) <= Cardinality(a) + 1 /\ Cardinality(a) \in Nat
  BY <1>2, <1>3, FS_AddElement, FS_CardinalityType
<1>5. b \in SUBSET e
  BY <1>2, <1>3
<1>6. IsFiniteSet(b) /\ Cardinality(b) <= Cardinality(e) /\ Cardinality(b) \in Nat
      /\ Cardinality(e) \in Nat
  BY <1>4, <1>5, FS_Subset, FS_CardinalityType
<1>7. commands \in Nat /\ MaxCommands \in Nat /\ Cardinality(a) <= commands
  BY <1>3, HostAssumption DEF Bounded
<1>8. Exists' => Len(disk'.events) + Cardinality(b) <= commands' + 1
  <2>1. ASSUME Exists' PROVE Len(disk'.events) + Cardinality(b) <= commands' + 1
    <3>1. Exists /\ Good(disk) /\ disk' = disk
      BY <1>1, <2>1 DEF Exists, SInv, IInv, Sound, Good
    <3>2. Len(disk.events) \in Nat /\ Len(disk.events) + Cardinality(a) <= commands + 1
      BY <1>3, <3>1, GoodFields DEF Bounded
    <3>3. QED
      BY <1>1, <1>4, <1>6, <1>7, <3>1, <3>2
  <2>2. QED
    BY <2>1
<1>9. QED
  BY <1>1, <1>3, <1>4, <1>6, <1>7, <1>8 DEF Bounded

LEMMA BoundSaved ==
  ASSUME SInv, Bounded, NEW p \in Procs, SaveRecord(p)
  PROVE  Bounded'
<1>1. PICK c, r, l : c = proc[p] /\ r = c.rec /\ l = c.led /\ Continue(p, r, l)
  BY DEF SaveRecord
<1>2. PICK d : proc' = [proc EXCEPT ![p] = d] /\ d.steps = Tail(c.steps)
  BY <1>1, Continued DEF SInv
<1>3. Planned(c) /\ c.steps # <<>> /\ Head(c.steps) = "save_record"
  BY <1>1 DEF SInv, PlansInv, SaveRecord, AtStep
<1>4. disk' = r /\ UNCHANGED commands
  BY <1>1 DEF SaveRecord
<1>5. Exists => Good(disk)
  BY DEF SInv, IInv, Sound, Good
<1>6. PICK n : n = Len(disk.events)
  OBVIOUS
<1>7. Logs(c)
  BY <1>3, SavePlan DEF Logs, Editing, Announcing, Taking, Settling, Making
<1>8. d.steps \in {<<>>, Ledger2, Run3} => ~Logs(d)
  <2>1. d.steps = <<>> => ~Logs(d)
    BY Programs DEF Logs
  <2>2. d.steps = Ledger2 => ~Logs(d)
    <3>1. /\ Ledger2 \notin {Run7, Run6, Run5, Run4, WithLedger, CreateSteps, Last, ToolSteps}
          /\ Ledger2 \notin {Tool5, Tool4, Tool3, Tool2, Load1, Deny2}
      BY Programs
    <3>2. QED
      BY <3>1 DEF Logs
  <2>3. d.steps = Run3 => ~Logs(d)
    BY Programs DEF Logs
  <2>4. QED
    BY <2>1, <2>2, <2>3
<1>9. \/ Exists /\ Len(r.events) = n
      \/ Exists /\ Len(r.events) = n + 1 /\ d.steps \in {<<>>, Ledger2, Run3}
      \/ Len(r.events) = 1
  <2>1. CASE Editing(c) \/ Announcing(c)
    <3>1. Exists /\ Changed(disk, r) /\ d.steps \in {<<>>, Ledger2}
      BY <1>1, <1>2, <2>1, Programs DEF Editing, Announcing
    <3>2. Len(r.events) \in {n, n + 1}
      BY <1>5, <1>6, <3>1, ChangedGrows
    <3>3. QED
      BY <3>1, <3>2
  <2>2. CASE Denying(c)
    <3>1. PICK id : id = c.item
      OBVIOUS
    <3>2. Exists /\ Cancelled(disk, r, id)
      BY <1>1, <2>2, <3>1 DEF Denying
    <3>3. r.events = disk.events
      BY <1>5, <3>2, CancelledGrows
    <3>4. QED
      BY <1>6, <3>2, <3>3
  <2>3. CASE Taking(c)
    <3>1. PICK id : id = c.item
      OBVIOUS
    <3>2. Exists /\ Claimed(disk, r, id)
      BY <1>1, <2>3, <3>1 DEF Taking
    <3>3. r.events = disk.events
      BY <1>5, <3>2, ClaimedGrows
    <3>4. QED
      BY <1>6, <3>2, <3>3
  <2>4. ASSUME NEW b \in {"pending", "running"}, Settled(disk, r, c.item, b), Exists,
               Started(c.item), d.steps \in {<<>>, Run3}
        PROVE  Exists /\ Len(r.events) = n + 1 /\ d.steps \in {<<>>, Ledger2, Run3}
    <3>1. PICK id : id = c.item
      OBVIOUS
    <3>2. id \in Nat /\ Settled(disk, r, id, b)
      BY <2>4, <3>1 DEF Started, SInv, PastInv
    <3>3. Len(r.events) = n + 1
      BY <1>5, <1>6, <2>4, <3>2, SettledGrows
    <3>4. QED
      BY <2>4, <3>3
  <2>5. CASE Settling(c)
    <3>1. d.steps = Run3 /\ Settled(disk, r, c.item, "pending") /\ Exists /\ Started(c.item)
      BY <1>1, <1>2, <2>5, Programs DEF Settling
    <3>2. QED
      BY <2>4, <3>1
  <2>6. CASE (Making(c) /\ ~Exists) \/ (Calling(c) /\ c.steps = ToolSteps)
    <3>1. Created(r)
      BY <1>1, <2>6, Programs DEF Making, Calling
    <3>2. QED
      BY <3>1, CreatedFacts
  <2>7. CASE (Making(c) /\ Exists) \/ (Calling(c) /\ c.steps = Tool5)
    <3>1. Exists /\ r = disk
      BY <1>1, <2>7, Programs DEF Making, Calling
    <3>2. QED
      BY <1>6, <3>1
  <2>8. CASE Calling(c) /\ c.steps = Tool3
    <3>1. Exists /\ Created(disk) /\ r = MarkFirstRunning(disk)
      BY <1>1, <2>8, Programs DEF Calling
    <3>2. PICK b, id : b = disk /\ id = 0
      OBVIOUS
    <3>3. Claimed(b, r, id) /\ Good(b)
      BY <1>5, <3>1, <3>2, FirstClaimed
    <3>4. r.events = b.events
      BY <3>3, ClaimedGrows
    <3>5. QED
      BY <1>6, <3>1, <3>2, <3>4
  <2>9. CASE Calling(c) /\ c.steps = Last
    <3>1. PICK o \in Outcome : /\ Exists /\ FirstRunning(disk) /\ Started(c.item)
                              /\ r = FinishControl(disk, o) /\ c.item = 0
      BY <1>1, <2>9, Programs DEF Calling
    <3>2. PICK b : b = disk
      OBVIOUS
    <3>3. Settled(b, r, c.item, "running")
      BY <3>1, <3>2, FirstSettled
    <3>4. d.steps = <<>>
      BY <1>2, <2>9, Programs
    <3>5. QED
      BY <2>4, <3>1, <3>2, <3>3, <3>4
  <2>10. QED
    BY <1>3, <2>1, <2>2, <2>3, <2>5, <2>6, <2>7, <2>8, <2>9, SavePlan
<1>10. Exists' => \/ Exists /\ Good(disk) /\ Len(disk'.events) = Len(disk.events)
                  \/ /\ Exists /\ Good(disk) /\ Logs(proc[p]) /\ ~Logs(d)
                     /\ Len(disk'.events) = Len(disk.events) + 1
                  \/ Len(disk'.events) = 1
  BY <1>1, <1>4, <1>5, <1>6, <1>7, <1>8, <1>9
<1>11. QED
  BY <1>1, <1>2, <1>4, <1>7, <1>10, BoundKept DEF SInv

LEMMA BoundMoves ==
  ASSUME SInv, Bounded, DuringRuns, [Next]_vars
  PROVE  Bounded'
<1>1. CASE UNCHANGED vars
  BY <1>1 DEF vars, Bounded, Loggers, Exists
<1>2. ASSUME NEW p \in Procs, Command(p) PROVE Bounded'
  BY <1>2, BoundBegun
<1>3. ASSUME NEW p \in Procs, SaveRecord(p) PROVE Bounded'
  BY <1>3, BoundSaved
<1>4. ASSUME NEW p \in Procs,
             \/ ReloadFirst(p) \/ ReloadRun(p) \/ ReadParent(p) \/ LoadLedger(p) \/ SaveLedger(p)
             \/ LoadForResolve(p) \/ Remove(p)
             \/ \E o \in {"completed", "failed"} : AgentStops(p, o)
             \/ AgentError(p) \/ Crash(p)
      PROVE  Bounded'
  <2>1. PICK d : Quiet(p, d)
    BY <1>4, QuietSteps
  <2>2. UNCHANGED commands /\ (Exists' => disk' = disk /\ Exists)
    BY <1>4 DEF ReloadFirst, ReloadRun, ReadParent, LoadLedger, SaveLedger, LoadForResolve, Remove,
                AgentStops, AgentError, Crash, files, Exists
  <2>3. Exists => Good(disk)
    BY DEF SInv, IInv, Sound, Good
  <2>4. QED
    BY <2>1, <2>2, <2>3, BoundKept DEF Quiet, SInv
<1>5. QED
  BY <1>1, <1>2, <1>3, <1>4 DEF Next, Step

LEMMA InitBounded == Init => Bounded
<1> SUFFICES ASSUME Init PROVE Bounded
  OBVIOUS
<1>1. Loggers = {}
  <2>1. ASSUME NEW p \in Procs PROVE ~Logs(proc[p])
    <3>1. PICK c : c = proc[p]
      OBVIOUS
    <3>2. c.steps = <<>>
      BY <3>1 DEF Init, IdleProc
    <3>3. QED
      BY <3>1, <3>2, Programs DEF Logs
  <2>2. QED
    BY <2>1 DEF Loggers
<1>2. IsFiniteSet(Loggers) /\ Cardinality(Loggers) = 0
  BY <1>1, FS_EmptySet
<1>3. commands = 0 /\ ~Exists /\ MaxCommands \in Nat
  BY HostAssumption DEF Init, Exists
<1>4. QED
  BY <1>2, <1>3 DEF Bounded

-----------------------------------------------------------------------------
(* The manager's promise.                                                  *)

\* The manager computes the records as the processes do.
LEMMA SameRecords ==
  ASSUME NEW r
  PROVE  /\ \A k : Manager!ApplyCreate("one_off", k, TRUE) = ApplyCreate("one_off", k, TRUE)
         /\ \A k : Manager!ApplyConfigure(r, k) = ApplyConfigure(r, k)
         /\ \A q : Manager!ApplyRelationship(r, q) = ApplyRelationship(r, q)
         /\ \A a : Manager!LifecycleTarget(r, a) = LifecycleTarget(r, a)
         /\ \A a : Manager!ApplyLifecycle(r, a) = ApplyLifecycle(r, a)
         /\ Manager!ApplySend(r) = ApplySend(r)
         /\ Manager!ApplyMilestone(r) = ApplyMilestone(r)
         /\ Manager!OldestPending(r) = OldestPending(r)
         /\ \A id : Manager!ClaimItem(r, id) = ClaimItem(r, id)
         /\ \A w, o : Manager!TransitionWork(r, w, o) = TransitionWork(r, w, o)
         /\ \A q, id, s : Manager!SetStatus(q, id, s) = SetStatus(q, id, s)
<1>1. \A rev, kind, item, from, to, n :
        Manager!Emit(n, rev, kind, item, from, to) = Emit(n, rev, kind, item, from, to)
  BY DEF Manager!Emit, Emit
<1>2. Manager!NoItem = NoItem /\ Manager!NoValue = NoValue
  BY DEF Manager!NoItem, NoItem, Manager!NoValue, NoValue
<1>3. \A k : Manager!ApplyCreate("one_off", k, TRUE) = ApplyCreate("one_off", k, TRUE)
  BY <1>1, <1>2 DEF Manager!ApplyCreate, ApplyCreate, Manager!DefaultRecord, DefaultRecord
<1>4. /\ \A k : Manager!ApplyConfigure(r, k) = ApplyConfigure(r, k)
      /\ \A q : Manager!ApplyRelationship(r, q) = ApplyRelationship(r, q)
  BY DEF Manager!ApplyConfigure, ApplyConfigure, Manager!ApplyRelationship, ApplyRelationship
<1>5. \A a : Manager!LifecycleTarget(r, a) = LifecycleTarget(r, a)
  <2>1. PICK h : h = HasPending(r)
    OBVIOUS
  <2>2. Manager!HasPending(r) = h
    BY <2>1 DEF Manager!HasPending, HasPending
  <2>3. \A m, s, a, f : Manager!NextLifecycleState(m, s, a, h, f) = NextLifecycleState(m, s, a, h, f)
    BY DEF Manager!NextLifecycleState, NextLifecycleState, Manager!Invalid, Invalid
  <2>4. QED
    BY <2>1, <2>2, <2>3 DEF Manager!LifecycleTarget, LifecycleTarget
<1>6. \A a : Manager!ApplyLifecycle(r, a) = ApplyLifecycle(r, a)
  <2>1. ASSUME NEW a PROVE Manager!ApplyLifecycle(r, a) = ApplyLifecycle(r, a)
    <3>1. PICK t, n : /\ t = LifecycleTarget(r, a)
                      /\ n = [r EXCEPT !.state = t,
                                       !.archivedFrom = IF t = "archived" THEN r.state ELSE @]
      OBVIOUS
    <3>2. ApplyLifecycle(r, a) = Emit(n, r.generation, "lifecycle", NoItem, r.state, t)
      BY <3>1 DEF ApplyLifecycle
    <3>3. Manager!ApplyLifecycle(r, a) =
            Manager!Emit(n, r.generation, "lifecycle", NoItem, r.state, t)
      <4>1. Manager!LifecycleTarget(r, a) = t
        BY <1>5, <3>1
      <4>2. QED
        BY <1>2, <3>1, <4>1 DEF Manager!ApplyLifecycle
    <3>4. QED
      BY <1>1, <3>2, <3>3
  <2>2. QED
    BY <2>1
<1>7. /\ Manager!ApplySend(r) = ApplySend(r)
      /\ Manager!ApplyMilestone(r) = ApplyMilestone(r)
  BY <1>1, <1>2 DEF Manager!ApplySend, ApplySend, Manager!ApplyMilestone, ApplyMilestone
<1>8. Manager!OldestPending(r) = OldestPending(r)
  BY DEF Manager!OldestPending, OldestPending, Manager!IsOldestPending, IsOldestPending
<1>9. \A q, id, s : Manager!SetStatus(q, id, s) = SetStatus(q, id, s)
  BY DEF Manager!SetStatus, SetStatus, Manager!IsItem, IsItem
<1>10. \A id : Manager!ClaimItem(r, id) = ClaimItem(r, id)
  BY <1>9 DEF Manager!ClaimItem, ClaimItem
<1>11. \A n, item, from, to : Manager!AppendRevision(n, item, from, to) = AppendRevision(n, item, from, to)
  BY <1>1 DEF Manager!AppendRevision, AppendRevision
<1>12. \A w, o : Manager!TransitionWork(r, w, o) = TransitionWork(r, w, o)
  BY <1>9, <1>11 DEF Manager!TransitionWork, TransitionWork
<1>13. QED
  BY <1>3, <1>4, <1>5, <1>6, <1>7, <1>8, <1>9, <1>10, <1>12

\* The items at work: the items of the processes whose agent was started.
AtWork == {proc[p].item : p \in {q \in Procs : Works(proc[q])}}
SameWork == Working = IF Exists THEN AtWork ELSE {}
WorkStarted == \A p \in Procs : Works(proc[p]) => Started(proc[p].item)

\* What a run still does after its agent is no part of another program.
LEMMA Run4Alone ==
  Run4 \notin {Last, CreateSteps, ToolSteps, Tool5, Tool3, Run7, WithLedger}
<1>1. Tail(Run4) = Run3 /\ Run3 # <<>> /\ Head(Run3) = "read_parent"
  BY Programs
<1>2. Run4 # Last
  BY <1>1, Programs
<1>3. Run4 # CreateSteps /\ Run4 # WithLedger
  BY <1>1, Programs
<1>4. Run4 # ToolSteps /\ Run4 # Tool5
  BY <1>1, Programs
<1>5. Run4 # Tool3 /\ Run4 # Run7
  BY <1>1, Programs
<1>6. QED
  BY <1>2, <1>3, <1>4, <1>5

LEMMA WorkIsSame == SInv => SameWork /\ WorkStarted
<1> SUFFICES ASSUME SInv PROVE SameWork /\ WorkStarted
  OBVIOUS
<1>1. ASSUME NEW p \in Procs
      PROVE  /\ (\/ AtStep(p, "agent") \/ AtStep(p, "reload")
                 \/ /\ AtStep(p, "save_record")
                    /\ \/ proc[p].job.op = "deliver" /\ Len(proc[p].steps) = 4
                       \/ proc[p].job.op = "tool" /\ Len(proc[p].steps) = 1)
               <=> Works(proc[p])
             /\ Works(proc[p]) => Started(proc[p].item)
  <2>1. PICK c : c = proc[p]
    OBVIOUS
  <2>2. Planned(c)
    BY <2>1 DEF SInv, PlansInv
  <2>3. c.steps # <<>> /\ Head(c.steps) \in {"agent", "reload"} => Works(c)
    BY <2>2, AgentPlan, OnlyPlan DEF Works
  <2>4. ASSUME c.steps # <<>>, Head(c.steps) = "save_record",
               \/ c.job.op = "deliver" /\ Len(c.steps) = 4
               \/ c.job.op = "tool" /\ Len(c.steps) = 1
        PROVE  Works(c)
    <3>1. \/ Editing(c) \/ Announcing(c) \/ Taking(c) \/ Settling(c) \/ Making(c)
          \/ (Denying(c) /\ c.steps = Last)
          \/ (Calling(c) /\ c.steps \in {ToolSteps, Tool5, Tool3, Last})
      BY <2>2, <2>4, SavePlan
    <3>2. ~Editing(c) /\ ~Making(c) /\ ~Denying(c)
      BY <2>4 DEF Editing, Making, Denying
    <3>0. /\ Len(WithLedger) = 3 /\ Len(Run7) = 7 /\ Len(ToolSteps) = 6 /\ Len(Tool5) = 5
          /\ Len(Tool3) = 3
      BY Lengths
    <3>3. ~Announcing(c) /\ ~Taking(c)
      <4>1. ASSUME c.steps = WithLedger PROVE FALSE
        <5>1. Len(c.steps) = 3
          BY <3>0, <4>1
        <5>2. QED
          BY <2>4, <5>1
      <4>2. ASSUME c.steps = Run7 PROVE FALSE
        <5>1. Len(c.steps) = 7
          BY <3>0, <4>2
        <5>2. QED
          BY <2>4, <5>1
      <4>3. QED
        BY <4>1, <4>2 DEF Announcing, Taking
    <3>4. Calling(c) => c.job.op = "tool"
      BY DEF Calling
    <3>5. QED
      BY <2>4, <3>0, <3>1, <3>2, <3>3, <3>4 DEF Works, Settling
  <2>5. ASSUME Works(c)
        PROVE  /\ c.steps # <<>>
               /\ \/ Head(c.steps) \in {"agent", "reload"}
                  \/ /\ Head(c.steps) = "save_record"
                     /\ \/ c.job.op = "deliver" /\ Len(c.steps) = 4
                        \/ c.job.op = "tool" /\ Len(c.steps) = 1
               /\ Started(c.item)
    <3>1. CASE c.steps \in {Run6, Run5}
      <4>1. c.steps # <<>> /\ Head(c.steps) \in {"agent", "reload"}
        BY <3>1, Programs
      <4>2. Running(c)
        <5>1. CASE Head(c.steps) = "reload"
          BY <2>2, <4>1, <5>1, OnlyPlan
        <5>2. CASE Head(c.steps) = "agent"
          BY <2>2, <3>1, <4>1, <5>2, AgentPlan, Programs
        <5>3. QED
          BY <4>1, <5>1, <5>2
      <4>3. QED
        BY <4>1, <4>2 DEF Running
    <3>2. CASE c.steps = Tool2
      <4>1. c.steps # <<>> /\ Head(c.steps) = "agent"
        BY <3>2, Programs
      <4>2. Calling(c)
        BY <2>2, <3>2, <4>1, AgentPlan, Programs
      <4>3. Started(c.item)
        BY <3>2, <4>2, Programs DEF Calling
      <4>4. QED
        BY <4>1, <4>3
    <3>3. CASE c.steps = Run4
      <4>1. c.steps # <<>> /\ Head(c.steps) = "save_record" /\ Len(c.steps) = 4
        BY <3>3, Programs, Lengths
      <4>2. Settling(c)
        <5>1. \/ Editing(c) \/ Announcing(c) \/ Taking(c) \/ Settling(c) \/ Making(c)
              \/ (Denying(c) /\ c.steps = Last)
              \/ (Calling(c) /\ c.steps \in {ToolSteps, Tool5, Tool3, Last})
          BY <2>2, <4>1, SavePlan
        <5>2. c.steps \notin {Last, CreateSteps, ToolSteps, Tool5, Tool3, Run7, WithLedger}
          BY <3>3, Run4Alone
        <5>3. QED
          BY <5>1, <5>2 DEF Editing, Announcing, Taking, Making
      <4>3. QED
        BY <4>1, <4>2 DEF Settling, Tells, Delivering
    <3>4. CASE c.steps = Last /\ c.job.op = "tool"
      <4>1. c.steps # <<>> /\ Head(c.steps) = "save_record" /\ Len(c.steps) = 1
        BY <3>4, Programs, Lengths
      <4>2. Calling(c)
        <5>1. \/ Editing(c) \/ Announcing(c) \/ Taking(c) \/ Settling(c) \/ Making(c)
              \/ Denying(c) \/ Calling(c)
          BY <2>2, <4>1, SavePlan
        <5>2. QED
          BY <3>4, <5>1, Programs
             DEF Editing, Announcing, Taking, Settling, Making, Denying, Tells, Delivering
      <4>3. Started(c.item)
        BY <3>4, <4>2, Programs DEF Calling
      <4>4. QED
        BY <3>4, <4>1, <4>3
    <3>5. QED
      BY <2>5, <3>1, <3>2, <3>3, <3>4 DEF Works
  <2>6. QED
    BY <2>1, <2>3, <2>4, <2>5 DEF AtStep
<1>2. SameWork
  BY <1>1 DEF SameWork, Working, AtWork
<1>3. QED
  BY <1>1, <1>2 DEF WorkStarted

\* How the items at work change when p goes on as d.
LEMMA WorkMoves ==
  ASSUME IInv, WorksApart, NEW p \in Procs, NEW c, c = proc[p], NEW d,
         proc' = [proc EXCEPT ![p] = d]
  PROVE  /\ ~Works(c) /\ ~Works(d) => AtWork' = AtWork
         /\ Works(c) /\ Works(d) /\ d.item = c.item => AtWork' = AtWork
         /\ Works(c) /\ ~Works(d) => AtWork' = AtWork \ {c.item} /\ c.item \in AtWork
         /\ ~Works(c) /\ Works(d) => AtWork' = AtWork \cup {d.item}
<1>1. /\ proc'[p] = d
      /\ \A q \in Procs \ {p} : proc'[q] = proc[q]
  BY DEF IInv
<1>2. \A x : x \in AtWork <=> \E q \in Procs : Works(proc[q]) /\ x = proc[q].item
  BY DEF AtWork
<1>3. \A x : x \in AtWork' <=> \E q \in Procs : Works(proc'[q]) /\ x = proc'[q].item
  BY DEF AtWork
<1>4. \A x : x \in AtWork' <=>
                \/ Works(d) /\ x = d.item
                \/ \E q \in Procs \ {p} : Works(proc[q]) /\ x = proc[q].item
  BY <1>1, <1>3
<1>5. \A x : x \in AtWork <=>
                \/ Works(c) /\ x = c.item
                \/ \E q \in Procs \ {p} : Works(proc[q]) /\ x = proc[q].item
  BY <1>2
<1>6. Works(c) => \A q \in Procs \ {p} : Works(proc[q]) => proc[q].item # c.item
  BY DEF WorksApart
<1>7. ~Works(c) /\ ~Works(d) => AtWork' = AtWork
  BY <1>4, <1>5
<1>8. Works(c) /\ Works(d) /\ d.item = c.item => AtWork' = AtWork
  BY <1>4, <1>5
<1>9. Works(c) /\ ~Works(d) => AtWork' = AtWork \ {c.item} /\ c.item \in AtWork
  BY <1>4, <1>5, <1>6
<1>10. ~Works(c) /\ Works(d) => AtWork' = AtWork \cup {d.item}
  BY <1>4, <1>5
<1>11. QED
  BY <1>7, <1>8, <1>9, <1>10

\* A change of the stored record that a command made.
LEMMA ChangedMaps ==
  ASSUME NEW r, NEW m, r = disk, m = disk', Exists, Changed(r, m), UNCHANGED Working,
         Len(r.events) < 3 * MaxCommands
  PROVE  Manager!Next
<1>1. Manager!Exists /\ Manager!Room
  BY DEF Exists, Manager!Exists, Manager!Room
<1>2. ASSUME NEW k \in Configs, m = ApplyConfigure(r, k) PROVE Manager!Next
  <2>1. Manager!Configure(k)
    BY <1>1, <1>2, SameRecords DEF Manager!Configure
  <2>2. QED
    BY <2>1 DEF Manager!Next
<1>3. ASSUME NEW q \in Parents \cup {NoValue}, m = ApplyRelationship(r, q) PROVE Manager!Next
  <2>1. Manager!Relationship(q) /\ Manager!NoValue = NoValue
    BY <1>1, <1>3, SameRecords DEF Manager!Relationship, Manager!NoValue, NoValue
  <2>2. QED
    BY <2>1 DEF Manager!Next
<1>4. ASSUME NEW a \in LifecycleAction, LifecycleTarget(r, a) # Invalid, m = ApplyLifecycle(r, a)
      PROVE  Manager!Next
  <2>1. Manager!LifecycleTarget(r, a) # Manager!Invalid /\ Manager!ApplyLifecycle(r, a) = m
    BY <1>4, SameRecords DEF Manager!Invalid, Invalid
  <2>2. Manager!Lifecycle(a) /\ Manager!LifecycleAction = LifecycleAction
    BY <1>1, <2>1 DEF Manager!Lifecycle, Manager!LifecycleAction, LifecycleAction
  <2>3. QED
    BY <2>2 DEF Manager!Next
<1>5. ASSUME m = ApplySend(r) PROVE Manager!Next
  <2>1. Manager!Send
    BY <1>1, <1>5, SameRecords DEF Manager!Send
  <2>2. QED
    BY <2>1 DEF Manager!Next
<1>6. ASSUME m = ApplyMilestone(r) PROVE Manager!Next
  <2>1. Manager!Milestone
    BY <1>1, <1>6, SameRecords DEF Manager!Milestone
  <2>2. QED
    BY <2>1 DEF Manager!Next
<1>7. QED
  BY <1>2, <1>3, <1>4, <1>5, <1>6 DEF Changed

\* A cancelled item: the manager's denial of it, or nothing if there is none.
LEMMA CancelledMaps ==
  ASSUME NEW r, NEW m, r = disk, m = disk', Exists, Good(r), NEW id, Cancelled(r, m, id),
         UNCHANGED Working
  PROVE  Manager!Next \/ m = r
<1>1. PICK q : q = r.queue
  OBVIOUS
<1>2. q \in Seq(WorkItem) /\ m = [r EXCEPT !.queue = SetStatus(q, id, "cancelled")]
  BY <1>1 DEF Good, GoodRecord, Record, Cancelled
<1>3. CASE \E i \in DOMAIN q : q[i].id = id
  <2>1. id \in Manager!ItemIds
    BY <1>1, <1>3 DEF Manager!ItemIds, Manager!Exists, Exists
  <2>2. Manager!SetStatus(q, id, "cancelled") = SetStatus(q, id, "cancelled")
    BY SameRecords
  <2>3. m = [r EXCEPT !.queue = Manager!SetStatus(r.queue, id, "cancelled")]
    BY <1>1, <1>2, <2>2
  <2>4. Manager!Deny(id)
    BY <2>3 DEF Manager!Deny, Manager!Exists, Exists
  <2>5. QED
    BY <2>1, <2>4 DEF Manager!Next
<1>4. CASE ~\E i \in DOMAIN q : q[i].id = id
  <2>1. \A i \in DOMAIN q : ~IsItem(q, i, id)
    BY <1>4 DEF IsItem
  <2>2. SetStatus(q, id, "cancelled") = [i \in DOMAIN q |-> q[i]]
    BY <2>1 DEF SetStatus
  <2>3. q = [i \in DOMAIN q |-> q[i]]
    BY <1>2
  <2>4. m = [r EXCEPT !.queue = q]
    BY <1>2, <2>2, <2>3
  <2>5. m = r
    <3>1. PICK a1, a2, a3, a4, a5, a6, a8, a9 :
            r = [mode |-> a1, config |-> a2, parent |-> a3, state |-> a4, archivedFrom |-> a5,
                 generation |-> a6, queue |-> q, events |-> a8, next |-> a9]
      BY <1>1, Fields DEF Good
    <3>2. QED
      BY <2>4, <3>1
  <2>6. QED
    BY <2>5
<1>5. QED
  BY <1>3, <1>4

\* What the manager promises of one step.
Follows == [Manager!Next]_(Manager!vars)

LEMMA SameFollows ==
  ASSUME UNCHANGED <<disk, Working>>
  PROVE  Follows
BY DEF Follows, Manager!vars

\* There is room for one more event.
LEMMA RoomLeft ==
  ASSUME Bounded, NEW p \in Procs, Logs(proc[p]), Exists, Good(disk)
  PROVE  Len(disk.events) < 3 * MaxCommands
<1>1. PICK s, n : s = Loggers /\ n = Len(disk.events)
  OBVIOUS
<1>2. p \in s
  BY <1>1 DEF Loggers
<1>3. IsFiniteSet(s) /\ Cardinality(s) <= commands /\ commands \in Nat
      /\ commands <= MaxCommands /\ n + Cardinality(s) <= commands + 1
  BY <1>1 DEF Bounded
<1>4. Cardinality(s) \in Nat
  BY <1>3, FS_CardinalityType
<1>5. Cardinality(s) # 0
  BY <1>2, <1>3, FS_EmptySet
<1>6. n \in Nat /\ MaxCommands \in Nat
  BY <1>1, HostAssumption DEF Good, GoodRecord, Record
<1>7. n < 3 * MaxCommands
  BY <1>3, <1>4, <1>5, <1>6
<1>8. QED
  BY <1>1, <1>7

Mapped == SInv /\ Bounded /\ SameWork /\ WorkStarted

LEMMA SaveFollows ==
  ASSUME Mapped, Mapped', NEW p \in Procs, SaveRecord(p)
  PROVE  Follows
<1>1. PICK c, r, l : c = proc[p] /\ r = c.rec /\ l = c.led /\ Continue(p, r, l)
  BY DEF SaveRecord
<1>0. SInv /\ IInv /\ WorksApart /\ Bounded /\ WorkStarted
  BY DEF Mapped, SInv
<1>2. PICK d : /\ proc' = [proc EXCEPT ![p] = d] /\ d.steps = Tail(c.steps)
               /\ d.steps # <<>> => d.job = c.job /\ d.item = c.item /\ d.rec = c.rec
  BY <1>0, <1>1, Continued
<1>3. Planned(c) /\ c.steps # <<>> /\ Head(c.steps) = "save_record"
  BY <1>0, <1>1 DEF SInv, PlansInv, SaveRecord, AtStep
<1>4. /\ disk' = r /\ Exists'
      /\ c.steps \notin {Run7, Tool3} => ran' = ran
  BY <1>0, <1>1, <1>3, SavePast, ClaimNextIff DEF SaveRecord, ClaimNext
<1>5. Exists => Good(disk)
  BY <1>0 DEF SInv, IInv, Sound, Good
<1>6. /\ Working = IF Exists THEN AtWork ELSE {}
      /\ Working' = AtWork'
  BY <1>4 DEF Mapped, SameWork
<1>7. Works(d) => (Works(c) /\ d.item = c.item) \/ ~Started(d.item)
  BY <1>0, <1>1, <1>2, SavePlanLeft
<1>8. Works(d) => Started(d.item)'
  BY <1>2, <1>0 DEF Mapped, WorkStarted, IInv
<1>9. c.steps \notin {Run7, Tool3} => (Works(d) => Works(c) /\ d.item = c.item)
  BY <1>4, <1>7, <1>8 DEF Started
<1>10. Works(c) => Started(c.item)
  BY <1>0, <1>1 DEF WorkStarted
<1>11. /\ ~Works(c) /\ ~Works(d) => AtWork' = AtWork
       /\ Works(c) /\ ~Works(d) => AtWork' = AtWork \ {c.item} /\ c.item \in AtWork
       /\ ~Works(c) /\ Works(d) => AtWork' = AtWork \cup {d.item}
  BY <1>0, <1>1, <1>2, WorkMoves
<1>12. Logs(c)
  BY <1>3, SavePlan DEF Logs, Editing, Announcing, Taking, Settling, Making
<1>13. CASE Fresh(c)
  <2>1. ran = <<>> /\ ~Exists
    BY <1>0, <1>13 DEF Fresh, SInv, PastInv
  <2>2. \A x : ~Started(x)
    BY <2>1 DEF Started
  <2>3. ~Works(c) /\ ~Works(d) /\ AtWork = {}
    BY <1>0, <1>9, <1>10, <1>13, <2>2 DEF WorkStarted, AtWork, Fresh
  <2>4. Working' = Working
    BY <1>6, <1>11, <2>1, <2>3
  <2>5. PICK k \in Configs : r = ApplyCreate("one_off", k, TRUE)
    BY <1>1, <1>13 DEF Fresh, Created
  <2>6. Manager!Create("one_off", k, TRUE)
    BY <1>4, <2>1, <2>4, <2>5, SameRecords DEF Manager!Create, Manager!Exists, Exists
  <2>7. Manager!Next
    BY <2>6 DEF Manager!Next
  <2>8. QED
    BY <2>7 DEF Follows
<1>14. CASE Plain(c)
  <2>1. Exists /\ Working' = Working
    BY <1>6, <1>9, <1>11, <1>14 DEF Plain
  <2>2. CASE Changed(disk, c.rec)
    <3>1. Len(disk.events) < 3 * MaxCommands
      BY <1>0, <1>1, <1>5, <1>12, <2>1, RoomLeft
    <3>2. PICK a : a = disk
      OBVIOUS
    <3>3. Manager!Next
      BY <1>1, <1>4, <2>1, <2>2, <3>1, <3>2, ChangedMaps
    <3>4. QED
      BY <3>3 DEF Follows
  <2>3. CASE c.rec = disk
    BY <1>1, <1>4, <2>1, <2>3, SameFollows
  <2>4. CASE Cancelled(disk, c.rec, c.item)
    <3>1. PICK a, id : a = disk /\ id = c.item
      OBVIOUS
    <3>2. Manager!Next \/ r = a
      BY <1>1, <1>4, <1>5, <2>1, <2>4, <3>1, CancelledMaps
    <3>3. QED
      BY <1>4, <2>1, <3>1, <3>2, SameFollows DEF Follows
  <2>5. QED
    BY <1>14, <2>2, <2>3, <2>4 DEF Plain
<1>15. CASE Claiming(c)
  <2>1. PICK w \in OldestPending(disk) : c.item = w.id /\ c.rec = ClaimItem(disk, w.id)
    BY <1>15 DEF Claiming, Claimed
  <2>2. Exists /\ c.steps \in {Run7, Tool3}
    BY <1>15 DEF Claiming
  <2>3. Works(d) /\ d.item = c.item
    <3>1. d.steps \in {Run6, Tool2} /\ d.steps # <<>>
      BY <1>2, <2>2, Programs
    <3>2. QED
      BY <1>2, <3>1 DEF Works
  <2>4. ~Works(c)
    <3>1. Run7 \notin {Run6, Run5, Tool2} /\ Run7 # Last /\ Run7 # Run4
      BY Programs
    <3>2. QED
      BY <2>2, <3>1, Distinct DEF Works
  <2>5. Working' = Working \cup {w.id}
    BY <1>6, <1>11, <2>1, <2>2, <2>3, <2>4
  <2>6. PICK a : a = disk
    OBVIOUS
  <2>7. /\ w \in Manager!OldestPending(a) /\ disk' = Manager!ClaimItem(a, w.id)
    BY <1>1, <1>4, <2>1, <2>6, SameRecords
  <2>8. Manager!Claim
    BY <2>2, <2>5, <2>6, <2>7 DEF Manager!Claim, Manager!Exists, Exists
  <2>9. QED
    BY <2>8 DEF Follows, Manager!Next
<1>16. CASE Ending(c)
  <2>1. PICK b \in {"pending", "running"} : Settled(disk, c.rec, c.item, b)
    BY <1>16 DEF Ending
  <2>2. PICK o \in Outcome : c.rec = TransitionWork(disk, [id |-> c.item, status |-> b], o)
    BY <2>1 DEF Settled
  <2>3. Exists /\ Works(c)
    BY <1>16 DEF Ending
  <2>4. ~Works(d)
    <3>1. c.steps = Run4 \/ c.steps = Last
      BY <1>3, <2>3, Programs DEF Works
    <3>2. d.steps = Run3 \/ d.steps = <<>>
      BY <1>2, <3>1, Programs
    <3>3. Run3 \notin {Run6, Run5, Run4, Tool2} /\ Run3 # Last
      BY Programs
    <3>4. <<>> \notin {Run6, Run5, Run4, Tool2} /\ Last # <<>>
      BY Programs
    <3>5. QED
      BY <3>2, <3>3, <3>4 DEF Works
  <2>5. Working' = Working \ {c.item} /\ c.item \in Working
    BY <1>6, <1>11, <2>3, <2>4
  <2>6. PICK a, id : a = disk /\ id = c.item
    OBVIOUS
  <2>7. disk' = Manager!TransitionWork(a, [id |-> id, status |-> b], o)
    BY <1>1, <1>4, <2>2, <2>6, SameRecords
  <2>8. Manager!Room
    BY <1>0, <1>1, <1>5, <1>12, <2>3, RoomLeft DEF Manager!Room, Manager!Exists, Exists
  <2>9. Manager!Settle(id, b, o) /\ id \in Working /\ o \in {"completed", "failed"}
    BY <2>5, <2>6, <2>7, <2>8 DEF Manager!Settle, Outcome
  <2>10. Manager!Next
    BY <2>9 DEF Manager!Next
  <2>11. QED
    BY <2>10 DEF Follows
<1>17. QED
  BY <1>3, <1>13, <1>14, <1>15, <1>16, SaveKinds

\* A step that saves no record: the item of p is at work as before, or p gave
\* it up; a removal takes the record and what works on it.
LEMMA QuietFollows ==
  ASSUME Mapped, Mapped', DuringRuns, NEW p \in Procs,
         \/ ReloadFirst(p) \/ ReloadRun(p) \/ ReadParent(p) \/ LoadLedger(p) \/ SaveLedger(p)
         \/ LoadForResolve(p) \/ Remove(p)
         \/ \E o \in {"completed", "failed"} : AgentStops(p, o)
         \/ AgentError(p) \/ Crash(p)
  PROVE  Follows
<1>1. SInv /\ IInv /\ WorksApart
  BY DEF Mapped, SInv
<1>2. PICK c, d : c = proc[p] /\ Quiet(p, d)
  BY <1>1, QuietSteps
<1>3. \/ disk' = disk
      \/ disk' = NoRecord
  BY DEF ReloadFirst, ReloadRun, ReadParent, LoadLedger, SaveLedger, LoadForResolve, Remove,
         AgentStops, AgentError, Crash, files
<1>4. /\ Working = IF Exists THEN AtWork ELSE {}
      /\ Working' = IF Exists' THEN AtWork' ELSE {}
  BY DEF Mapped, SameWork
<1>5. AtWork' = AtWork \/ (AtWork' = AtWork \ {c.item} /\ c.item \in AtWork)
  BY <1>1, <1>2, WorkMoves DEF Quiet
<1>6. CASE disk' = NoRecord /\ Exists
  <2>1. Manager!Delete
    BY <1>4, <1>6 DEF Manager!Delete, Manager!Exists, Exists
  <2>2. QED
    BY <2>1 DEF Follows, Manager!Next
<1>7. CASE ~Exists
  BY <1>3, <1>4, <1>7, SameFollows DEF Exists
<1>8. CASE disk' = disk /\ Exists /\ AtWork' = AtWork
  BY <1>4, <1>8, SameFollows DEF Exists
<1>9. CASE disk' = disk /\ Exists /\ AtWork' = AtWork \ {c.item} /\ c.item \in AtWork
  <2>1. PICK id : id = c.item
    OBVIOUS
  <2>2. Manager!Abandon(id) /\ id \in Working
    BY <1>4, <1>9, <2>1 DEF Manager!Abandon, Exists
  <2>3. QED
    BY <2>2 DEF Follows, Manager!Next
<1>10. QED
  BY <1>3, <1>5, <1>6, <1>7, <1>8, <1>9

LEMMA StepFollows ==
  ASSUME Mapped, Mapped', DuringRuns, [Next]_vars
  PROVE  Follows
<1>0. /\ IInv /\ WorksApart
      /\ Working = IF Exists THEN AtWork ELSE {}
      /\ Working' = IF Exists' THEN AtWork' ELSE {}
  BY DEF Mapped, SameWork, SInv
<1>1. CASE UNCHANGED vars
  <2>1. disk' = disk /\ Exists' = Exists /\ AtWork' = AtWork
    BY <1>1 DEF vars, Exists, AtWork
  <2>2. QED
    BY <1>0, <2>1, SameFollows
<1>2. ASSUME NEW p \in Procs, Command(p) PROVE Follows
  <2>1. PICK c, d : /\ c = proc[p] /\ c.steps = <<>> /\ UNCHANGED disk
                    /\ proc' = [proc EXCEPT ![p] = d] /\ ~Works(d)
    BY <1>2, CommandMoves
  <2>2. ~Works(c)
    BY <2>1, Programs DEF Works
  <2>3. AtWork' = AtWork
    BY <1>0, <2>1, <2>2, WorkMoves
  <2>4. QED
    BY <1>0, <2>1, <2>3, SameFollows DEF Exists
<1>3. ASSUME NEW p \in Procs, SaveRecord(p) PROVE Follows
  BY <1>3, SaveFollows
<1>4. ASSUME NEW p \in Procs,
             \/ ReloadFirst(p) \/ ReloadRun(p) \/ ReadParent(p) \/ LoadLedger(p) \/ SaveLedger(p)
             \/ LoadForResolve(p) \/ Remove(p)
             \/ \E o \in {"completed", "failed"} : AgentStops(p, o)
             \/ AgentError(p) \/ Crash(p)
      PROVE  Follows
  BY <1>4, QuietFollows
<1>5. QED
  BY <1>1, <1>2, <1>3, <1>4 DEF Next, Step

\* The files change as the manager promises, by one transition at a time made
\* of the record as it is stored: every step of the processes is a step of
\* SubagentLifecycle on the stored record, or changes nothing that it sees.
THEOREM FollowsManager ==
  ASSUME Schedule = "during_runs"
  PROVE  Spec => ImplementsManager
<1>1. DuringRuns
  BY DEF DuringRuns
<1>2. Spec => []SInv
  BY Inductive
<1>3. Init => Bounded
  BY InitBounded
<1>4. SInv /\ Bounded /\ [Next]_vars => Bounded'
  BY <1>1, BoundMoves
<1>5. SInv => SameWork /\ WorkStarted
  BY WorkIsSame
<1>6. Mapped <=> SInv /\ Bounded /\ SameWork /\ WorkStarted
  BY DEF Mapped
<1>7. Spec => []Mapped
  BY <1>2, <1>3, <1>4, <1>5, <1>6, PTL DEF Spec
<1>8. Init => Manager!Init
  BY DEF Init, Manager!Init, Working, Exists
<1>9. Mapped /\ Mapped' /\ [Next]_vars => [Manager!Next]_(Manager!vars)
  BY <1>1, StepFollows DEF Follows
<1>10. QED
  BY <1>7, <1>8, <1>9, PTL DEF Spec, ImplementsManager, Manager!Spec
=============================================================================
