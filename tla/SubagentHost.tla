---------------------------- MODULE SubagentHost ----------------------------
(***************************************************************************)
(* The processes that work on one child: every `fxrs subagent` command and *)
(* the subagent tool load the child's files, change the copy in memory and *)
(* save it, with nothing that keeps two of them apart.  One save is one    *)
(* step: AtomicSave is about what happens inside it.                       *)
(*                                                                         *)
(* A process holds the steps it has still to take, the copies it loaded    *)
(* and the job that says what to do with them.                             *)
(***************************************************************************)
EXTENDS SubagentRecord, CommunicationLedger

CONSTANTS Procs,          \* processes
          Commands,       \* the commands they may be given
          Parents,        \* ids a child may be attached to
          Configs,        \* configurations
          Requests,       \* approval request ids
          Child,          \* the child's id
          NoRecord,       \* no control record
          Schedule,       \* which commands may overlap, see MayStep
          MaxCommands,    \* bound: commands started in one behaviour
          MaxCrashes      \* bound: processes killed in one behaviour

ASSUME HostAssumption ==
  /\ Schedule \in {"during_runs", "during_agents", "free"}
  /\ MaxCommands \in Nat /\ MaxCrashes \in Nat
  /\ NoRecord \notin Record(Parents, Configs)

VARIABLES disk,       \* the control record file
          ledger,     \* the communication ledger file
          proc,       \* per process: job, steps, rec, led, item
          commands,   \* commands started
          crashes,    \* processes killed, and runs that gave up
          deleted,    \* the record was deleted: ids are never used again
          acked,      \* messages whose sender was told that they are queued
          ran,        \* work items an agent was started on, in order
          denied,     \* work items whose denial was reported
          report      \* state last reported by a run that had nothing to do

vars == <<disk, ledger, proc, commands, crashes, deleted, acked, ran, denied, report>>
files == <<disk, ledger, deleted>>
history == <<acked, ran, denied, report>>

DefaultParent == "parent"
NoJob == [op |-> "none"]

\* A process with no command: what a crash or the end of a command leaves.
IdleProc == [job |-> NoJob, steps |-> <<>>, rec |-> NoRecord,
             led |-> EmptyLedger({}), item |-> NoItem]

Init ==
  /\ disk = NoRecord
  /\ ledger = EmptyLedger({})
  /\ proc = [p \in Procs |-> IdleProc]
  /\ commands = 0 /\ crashes = 0 /\ deleted = FALSE
  /\ acked = {} /\ ran = <<>> /\ denied = {} /\ report = NoValue

Exists == disk # NoRecord

-----------------------------------------------------------------------------
(* The schedule.  "free": processes interleave at every step.              *)
(* "during_agents": a command, or what follows an agent, runs to its end   *)
(* before another begins, but an agent at work stops nobody.               *)
(* "during_runs": the same, but the agent of a tool call is waited for.    *)

AtStep(p, s) == proc[p].steps # <<>> /\ Head(proc[p].steps) = s
Idle(p) == proc[p].steps = <<>>
Resting(p) ==
  \/ Idle(p)
  \/ AtStep(p, "agent") /\ Schedule = "during_agents"
  \/ AtStep(p, "agent") /\ Schedule = "during_runs" /\ proc[p].job.op # "tool"

MayStep(p) == Schedule = "free" \/ \A q \in Procs \ {p} : Resting(q)

Begin(p, kind, job, steps, rec, led, item) ==
  /\ Idle(p)
  /\ MayStep(p)
  /\ kind \in Commands
  /\ commands < MaxCommands
  /\ commands' = commands + 1
  /\ proc' = [proc EXCEPT ![p] = [job |-> job, steps |-> steps, rec |-> rec,
                                  led |-> led, item |-> item]]

\* The next step is done; what the step loaded replaces the old copy.
\* A process that has no step left is gone, and its memory with it.
Continue(p, rec, led) ==
  LET rest == Tail(proc[p].steps)
  IN  proc' = [proc EXCEPT ![p] =
                 IF rest = <<>> THEN IdleProc
                 ELSE [@ EXCEPT !.steps = rest, !.rec = rec, !.led = led]]

\* The next step is done and the job knows more; the copies stay.
ContinueWith(p, job) ==
  LET rest == Tail(proc[p].steps)
  IN  proc' = [proc EXCEPT ![p] = [@ EXCEPT !.steps = rest, !.job = job]]

End(p) == proc' = [proc EXCEPT ![p] = IdleProc]

-----------------------------------------------------------------------------
(* The commands: each reads the files that it works on.                    *)

NoLed == EmptyLedger({})
Edit == [op |-> "edit"]

\* What a command that loads the record does when there is one.
BeginEdit(p, kind, job, steps, rec) ==
  /\ Exists
  /\ Begin(p, kind, job, steps, rec, NoLed, NoItem)
  /\ UNCHANGED <<files, crashes, history>>

Configure(p, config) ==
  BeginEdit(p, "configure", Edit, <<"save_record">>, ApplyConfigure(disk, config))

Relationship(p, parent) ==
  BeginEdit(p, "relationship", Edit, <<"save_record">>, ApplyRelationship(disk, parent))

WithLedger == <<"save_record", "load_ledger", "save_ledger">>

Lifecycle(p, action) ==
  /\ Exists
  /\ LifecycleTarget(disk, action) # Invalid
  /\ IF action \in {"cancel", "close"}
       THEN BeginEdit(p, "lifecycle",
                      [op |-> "invalidate",
                       status |-> IF action = "cancel" THEN "cancelled" ELSE "stale"],
                      WithLedger, ApplyLifecycle(disk, action))
       ELSE BeginEdit(p, "lifecycle", Edit, <<"save_record">>, ApplyLifecycle(disk, action))

Delivering(target, kind, item, message) ==
  [op |-> "deliver", target |-> target, kind |-> kind, item |-> item, message |-> message]

\* Faulty variant: the delivery is saved, and the sender told, before the record.
SendLedgerFirst(p) ==
  /\ Exists
  /\ BeginEdit(p, "send", Delivering(Child, "message", NoItem, disk.next),
               <<"load_ledger", "save_ledger", "save_record">>, ApplySend(disk))

Send(p) ==
  /\ Exists
  /\ BeginEdit(p, "send", Delivering(Child, "message", NoItem, disk.next),
               WithLedger, ApplySend(disk))

ParentOf(r) == IF r = NoRecord \/ r.parent = NoValue THEN DefaultParent ELSE r.parent

Milestone(p) ==
  /\ Exists
  /\ BeginEdit(p, "milestone", Delivering(ParentOf(disk), "milestone", NoItem, NoItem),
               WithLedger, ApplyMilestone(disk))

\* The record is saved when it is made and again with its admission.  The
\* tool goes on to run the prompt, unless the nesting depth is used up.
\* Without an admission the tool stops after the first save.
UnadmittedSteps == <<"save_record">>
CreateSteps == <<"save_record", "save_record">>
ToolSteps == <<"save_record", "save_record", "reload_first", "save_record", "agent",
               "save_record">>

Create(p, kind, steps, config) ==
  /\ ~Exists /\ ~deleted
  /\ Begin(p, kind, [op |-> IF steps = ToolSteps THEN "tool" ELSE "create"], steps,
           ApplyCreate("one_off", config, TRUE), NoLed, 0)
  /\ UNCHANGED <<files, crashes, history>>

\* Faulty variant: the result is delivered before the transition is saved.
RunDeliveringFirst(p) ==
  /\ Exists
  /\ \E w \in OldestPending(disk) :
       Begin(p, "run", Delivering(NoValue, "message", w.id, NoItem),
             <<"save_record", "agent", "read_parent", "load_ledger", "save_ledger",
               "reload", "save_record">>,
             ClaimItem([disk EXCEPT !.state = StateAfterRestart(@)], w.id), NoLed, w.id)
  /\ UNCHANGED <<files, crashes, history>>

\* A run with a pending item; the reconciled state is in memory only.
Run(p) ==
  /\ Exists
  /\ \E w \in OldestPending(disk) :
       Begin(p, "run", Delivering(NoValue, "message", w.id, NoItem),
             <<"save_record", "agent", "reload", "save_record", "read_parent",
               "load_ledger", "save_ledger">>,
             ClaimItem([disk EXCEPT !.state = StateAfterRestart(@)], w.id), NoLed, w.id)
  /\ UNCHANGED <<files, crashes, history>>

\* A run with nothing pending reports the reconciled state and saves nothing.
RunNothing(p) ==
  /\ Exists /\ ~HasPending(disk)
  /\ Begin(p, "run", NoJob, <<>>, NoRecord, NoLed, NoItem)
  /\ report' = StateAfterRestart(disk.state)
  /\ UNCHANGED <<files, crashes, acked, ran, denied>>

\* An approval is registered whether or not the child exists; a conflict or a
\* full registry ends the command.
Register(p, id, print, work) ==
  /\ RegisterResult(Reload(ledger), id, print) \in {"registered", "replay"}
  /\ Begin(p, "register", Edit, <<"save_ledger">>, NoRecord,
           RegisterApproval(Reload(ledger), id, print, Child, work, TRUE, DefaultParent), NoItem)
  /\ UNCHANGED <<files, crashes, history>>

Resolve(p, id, decision) ==
  /\ Begin(p, "resolve", [op |-> "resolve", id |-> id, decision |-> decision],
           <<"load_record">>, NoRecord, Reload(ledger), NoItem)
  /\ UNCHANGED <<files, crashes, history>>

\* Faulty variant: a deleted child's approvals are left open.
DeleteOnly(p) ==
  /\ Begin(p, "delete", Edit, <<"remove">>, NoRecord, NoLed, NoItem)
  /\ UNCHANGED <<files, crashes, history>>

Delete(p) ==
  /\ Begin(p, "delete", Edit, <<"save_ledger", "remove">>, NoRecord,
           InvalidateApprovals(Reload(ledger), Child, "stale"), NoItem)
  /\ UNCHANGED <<files, crashes, history>>

-----------------------------------------------------------------------------
(* The steps.                                                              *)

\* Does the save that p is about to make start an agent?
ClaimNext(p) == Len(proc[p].steps) > 1 /\ proc[p].steps[2] = "agent"

\* The last save of a denial is the one that reports it.
DenialOf(p) == IF proc[p].job.op = "deny" THEN {proc[p].item} ELSE {}

SaveRecord(p) ==
  /\ AtStep(p, "save_record")
  /\ disk' = proc[p].rec
  /\ ran' = IF ClaimNext(p) THEN Append(ran, proc[p].item) ELSE ran
  /\ denied' = denied \cup DenialOf(p)
  /\ report' = NoValue
  /\ Continue(p, proc[p].rec, proc[p].led)
  /\ UNCHANGED <<ledger, commands, crashes, deleted, acked>>

\* The tool takes up its new record again, or its own copy if it is gone.
ReloadFirst(p) ==
  /\ AtStep(p, "reload_first")
  /\ Continue(p, MarkFirstRunning(IF Exists THEN disk ELSE proc[p].rec), proc[p].led)
  /\ UNCHANGED <<files, commands, crashes, history>>

\* The agent of p stops.  The tool finishes the copy it has held since; a run
\* goes on to load the record again.
AgentStops(p, outcome) ==
  /\ AtStep(p, "agent")
  /\ MayStep(p)
  /\ IF proc[p].job.op = "tool"
       THEN Continue(p, FinishControl(proc[p].rec, outcome), proc[p].led)
       ELSE ContinueWith(p, [proc[p].job EXCEPT
              !.kind = IF outcome = "completed" THEN "message" ELSE "milestone"])
  /\ UNCHANGED <<files, commands, crashes, history>>

\* An agent that could not be run ends the run: the item stays running, as
\* after a crash, and counts as one.
AgentError(p) ==
  /\ AtStep(p, "agent") /\ proc[p].job.op # "tool"
  /\ MayStep(p)
  /\ crashes < MaxCrashes
  /\ crashes' = crashes + 1
  /\ End(p)
  /\ UNCHANGED <<files, commands, history>>

\* Faulty variant: the run finishes the copy that it made before the agent ran.
FinishOwnCopy(p) ==
  /\ AtStep(p, "reload")
  /\ Continue(p, TransitionWork(proc[p].rec, [id |-> proc[p].item, status |-> "pending"],
                   IF proc[p].job.kind = "message" THEN "completed" ELSE "failed"),
              proc[p].led)
  /\ UNCHANGED <<files, commands, crashes, history>>

\* The item as the run found it: still pending.
ReloadRun(p) ==
  /\ AtStep(p, "reload")
  /\ IF Exists
       THEN Continue(p, TransitionWork(disk, [id |-> proc[p].item, status |-> "pending"],
                          IF proc[p].job.kind = "message" THEN "completed" ELSE "failed"),
                     proc[p].led)
       ELSE End(p)
  /\ UNCHANGED <<files, commands, crashes, history>>

ReadParent(p) ==
  /\ AtStep(p, "read_parent")
  /\ ContinueWith(p, [proc[p].job EXCEPT !.target = ParentOf(disk)])
  /\ UNCHANGED <<files, commands, crashes, history>>

WorkRef(item) == IF item = NoItem THEN NoRef ELSE item

\* A result carries an operation id made for it alone, which no other delivery
\* can repeat: like having none.
LoadLedger(p) ==
  /\ AtStep(p, "load_ledger")
  /\ LET job == proc[p].job
         led == Reload(ledger)
     IN  Continue(p, proc[p].rec,
                  IF job.op = "invalidate" THEN InvalidateApprovals(led, Child, job.status)
                  ELSE Deliver(led, job.target, job.kind, WorkRef(job.item), NoRef))
  /\ UNCHANGED <<files, commands, crashes, history>>

\* The last step of a message tells its sender that it is queued.
AckOf(p) ==
  LET job == proc[p].job
  IN  IF job.op = "deliver" /\ job.message # NoItem THEN {job.message} ELSE {}

SaveLedger(p) ==
  /\ AtStep(p, "save_ledger")
  /\ ledger' = proc[p].led
  /\ acked' = acked \cup AckOf(p)
  /\ Continue(p, proc[p].rec, proc[p].led)
  /\ UNCHANGED <<disk, commands, crashes, deleted, ran, denied, report>>

\* A denial saves the ledger and then the record, with its item cancelled.
SaveDenial(p, work, led) ==
  proc' = [proc EXCEPT ![p] =
             [job |-> [op |-> "deny"], steps |-> <<"save_ledger", "save_record">>,
              rec |-> [disk EXCEPT !.queue = SetStatus(@, work, "cancelled")],
              led |-> led, item |-> work]]

SaveResolved(p, led) ==
  proc' = [proc EXCEPT ![p] = [@ EXCEPT !.steps = <<"save_ledger">>, !.led = led]]

\* A resolution reads the record after the ledger.  Without a record, or
\* without the request, it ends in an error.
LoadForResolve(p) ==
  /\ AtStep(p, "load_record")
  /\ LET job == proc[p].job
         led == proc[p].led
         k   == IndexOf(led, job.id)
         outcome == ResolveOutcome(led, job.id, Child, job.decision, disk.parent # NoValue,
                                   disk.state = "cancelled", disk.state = "archived")
         resolved == ResolveApproval(led, job.id, Child, job.decision, disk.parent # NoValue,
                                     disk.state = "cancelled", disk.state = "archived")
         work == led.approvals[k].work
     IN  IF ~Exists \/ ~Registered(led, job.id) THEN End(p)
         ELSE IF outcome = "deny" /\ work # NoRef THEN SaveDenial(p, work, resolved)
         ELSE SaveResolved(p, resolved)
  /\ UNCHANGED <<files, commands, crashes, history>>

Remove(p) ==
  /\ AtStep(p, "remove")
  /\ disk' = NoRecord
  /\ deleted' = (deleted \/ Exists)
  /\ report' = NoValue
  /\ Continue(p, proc[p].rec, proc[p].led)
  /\ UNCHANGED <<ledger, commands, crashes, acked, ran, denied>>

\* The process is killed: the files stay as its last save left them.
Crash(p) ==
  /\ ~Idle(p)
  /\ crashes < MaxCrashes
  /\ crashes' = crashes + 1
  /\ End(p)
  /\ UNCHANGED <<files, commands, history>>

Step(p) ==
  \/ SaveRecord(p) \/ ReloadFirst(p) \/ ReloadRun(p) \/ ReadParent(p)
  \/ LoadLedger(p) \/ SaveLedger(p) \/ LoadForResolve(p) \/ Remove(p)

Command(p) ==
  \/ \E c \in Configs : \/ Configure(p, c)
                        \/ Create(p, "create", CreateSteps, c)
                        \/ Create(p, "tool", ToolSteps, c)
                        \/ Create(p, "tool", CreateSteps, c)
                        \/ Create(p, "tool", UnadmittedSteps, c)
  \/ \E q \in Parents \cup {NoValue} : Relationship(p, q)
  \/ \E a \in LifecycleAction : Lifecycle(p, a)
  \/ Send(p) \/ Milestone(p) \/ Run(p) \/ RunNothing(p) \/ Delete(p)
  \/ \E id \in Requests, w \in {NoRef, 0} : Register(p, id, "same", w)
  \/ \E id \in Requests, d \in Decision : Resolve(p, id, d)

Next ==
  \E p \in Procs :
    \/ Command(p)
    \/ Step(p)
    \/ \E o \in {"completed", "failed"} : AgentStops(p, o)
    \/ AgentError(p)
    \/ Crash(p)

Spec == Init /\ [][Next]_vars

-----------------------------------------------------------------------------
(* Properties.                                                             *)

\* Whatever the processes interleave and wherever they are killed, the stored
\* record and every copy a process may still save are well formed.
RecordsWellFormed ==
  /\ Exists => WellFormed(disk)
  /\ \A p \in Procs : proc[p].rec # NoRecord => WellFormed(proc[p].rec)

\* The same for the ledger: no interleaving makes a ledger whose window,
\* revisions, approvals or notifications contradict each other.
LedgersWellFormed ==
  /\ LedgerWellFormed(ledger)
  /\ \A p \in Procs : LedgerWellFormed(proc[p].led)

\* A message whose sender was told that it is queued stays in the record.
AckedMessageSurvives == Exists => \A m \in acked : HasItem(disk, m)

\* No work item is ever given to two agents.
NoItemRunTwice == \A i, j \in DOMAIN ran : ran[i] = ran[j] => i = j

\* Unless a process died or a run gave up, a child that nobody works on has no
\* work item that is said to be running.
NothingLeftRunning ==
  (Exists /\ crashes = 0 /\ \A p \in Procs : Idle(p)) =>
    /\ disk.state # "running"
    /\ \A i \in DOMAIN disk.queue : disk.queue[i].status # "running"

\* A deleted child does not come back.
DeletedStaysDeleted == deleted => ~Exists

\* A result that the parent may read is about a work item whose outcome the
\* record holds: the control transition is the durable record.
ResultHasTransition ==
  Exists => \A i \in DOMAIN ledger.deliveries :
    LET d == ledger.deliveries[i]
    IN  d.work # NoRef =>
          \E k \in DOMAIN disk.events :
            /\ disk.events[k].kind = "work" /\ disk.events[k].item = d.work
            /\ disk.events[k].to = IF d.kind = "message" THEN "completed" ELSE "failed"

\* The step that ends a cancel, a close or a delete leaves no approval of the
\* child open to a decision.
NoApprovalOutlivesCancel ==
  [][\A p \in Procs :
       (proc[p].job.op = "invalidate" /\ SaveLedger(p)) \/ Remove(p)
         => PendingIds(ledger') = {}]_vars

\* The work items that an agent was started on and nobody has settled.
Working ==
  IF ~Exists THEN {}
  ELSE {proc[p].item : p \in {q \in Procs :
          \/ AtStep(q, "agent") \/ AtStep(q, "reload")
          \/ /\ AtStep(q, "save_record")
             /\ \/ proc[q].job.op = "deliver" /\ Len(proc[q].steps) = 4
                \/ proc[q].job.op = "tool" /\ Len(proc[q].steps) = 1}}

\* The files change as the manager promises: one transition at a time, each
\* made of the record that is stored.
Manager == INSTANCE SubagentLifecycle
             WITH record <- disk, working <- Working, Modes <- {"one_off"},
                  MaxEvents <- 3 * MaxCommands

ImplementsManager == Manager!Spec

\* A denied work item stays cancelled ("denied resolves cancel the work item").
DeniedStaysCancelled ==
  Exists => \A i \in denied : HasItem(disk, i) => StatusOf(disk, i) = "cancelled"

\* A child reported as interrupted can be resumed: the crash that left it
\* running is reconcilable.
InterruptedIsResumable ==
  report = "interrupted" => LifecycleTarget(disk, "resume") # Invalid
=============================================================================
