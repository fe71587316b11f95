-------------------------- MODULE SubagentLifecycle --------------------------
(***************************************************************************)
(* What the subagent manager promises of one child: its durable record     *)
(* changes only by one manager transition at a time, each applied to the   *)
(* record as it is stored.  Every library call of subagent_control.rs and  *)
(* subagent_executor.rs is one atomic action here; SubagentHost has the    *)
(* processes that load, change and save the record in separate steps.      *)
(*                                                                         *)
(* `working` holds the work items some run claimed and has not settled.    *)
(***************************************************************************)
EXTENDS SubagentRecord, SequencesExt

CONSTANTS Parents,      \* ids a child may be attached to
          Configs,      \* configurations
          NoRecord,     \* no control record on disk
          Modes,        \* modes a child may be created with
          MaxEvents     \* bound: length of a child's event log

ASSUME LifecycleAssumption == Modes \subseteq Mode /\ MaxEvents \in Nat

VARIABLES record, working

vars == <<record, working>>

Init == record = NoRecord /\ working = {}

Exists == record # NoRecord

\* The bound of the event log.
Room == Exists /\ Len(record.events) < MaxEvents

Create(mode, config, hasPrompt) ==
  /\ ~Exists
  /\ record' = ApplyCreate(mode, config, hasPrompt)
  /\ UNCHANGED working

Configure(config) ==
  /\ Exists
  /\ record' = ApplyConfigure(record, config)
  /\ UNCHANGED working

Relationship(parent) ==
  /\ Exists
  /\ record' = ApplyRelationship(record, parent)
  /\ UNCHANGED working

\* Faulty variant: an invalid transition is applied.
LifecycleUnchecked(action) ==
  /\ Room
  /\ record' = ApplyLifecycle(record, action)
  /\ UNCHANGED working

Lifecycle(action) ==
  /\ Room
  /\ LifecycleTarget(record, action) # Invalid
  /\ record' = ApplyLifecycle(record, action)
  /\ UNCHANGED working

Send ==
  /\ Room
  /\ record' = ApplySend(record)
  /\ UNCHANGED working

Milestone ==
  /\ Room
  /\ record' = ApplyMilestone(record)
  /\ UNCHANGED working

\* A run takes the oldest pending item, whatever the child's state is.
Claim ==
  /\ Exists
  /\ \E w \in OldestPending(record) :
       /\ record' = ClaimItem(record, w.id)
       /\ working' = working \cup {w.id}

\* The run of a claimed item ends; `before` is what the run believes the
\* item's status to have been.
Settle(id, before, outcome) ==
  /\ Room
  /\ id \in working
  /\ record' = TransitionWork(record, [id |-> id, status |-> before], outcome)
  /\ working' = working \ {id}

\* A run that dies, or whose agent returns an error, settles nothing.
Abandon(id) ==
  /\ working' = working \ {id}
  /\ UNCHANGED record

Await(id) ==
  /\ Room
  /\ record' = AwaitApproval(record, id)
  /\ UNCHANGED working

Resume(id) ==
  /\ Room
  /\ record' = ResumeApproval(record, id)
  /\ UNCHANGED working

\* A denied approval cancels the work item that it names.
Deny(id) ==
  /\ Exists
  /\ record' = [record EXCEPT !.queue = SetStatus(@, id, "cancelled")]
  /\ UNCHANGED working

Delete ==
  /\ Exists
  /\ record' = NoRecord
  /\ working' = {}

ItemIds == IF Exists THEN {record.queue[i].id : i \in DOMAIN record.queue} ELSE {}

Next ==
  \/ \E m \in Modes, c \in Configs, b \in BOOLEAN : Create(m, c, b)
  \/ \E c \in Configs : Configure(c)
  \/ \E p \in Parents \cup {NoValue} : Relationship(p)
  \/ \E a \in LifecycleAction : Lifecycle(a)
  \/ Send
  \/ Milestone
  \/ Claim
  \/ \E id \in working, b \in {"pending", "running"}, o \in {"completed", "failed"} :
       Settle(id, b, o)
  \/ \E id \in working : Abandon(id)
  \/ \E id \in ItemIds : Await(id) \/ Resume(id) \/ Deny(id)
  \/ Delete

Spec == Init /\ [][Next]_vars

-----------------------------------------------------------------------------
(* Properties.                                                             *)

\* Type correctness of the stored record.
TypeOK ==
  /\ Exists => record \in Record(Parents, Configs)
  /\ working \subseteq Nat

\* Whatever the manager is asked to do, the stored record is well formed: a
\* dense log, ordered revisions, distinct and announced work items, an
\* outcome only with the work event that produced it.
RecordWellFormed == Exists => WellFormed(record)

\* No transition makes an item that was taken, settled or cancelled pending
\* again: it is never executed a second time.
NeverPendingAgain ==
  [][(Exists /\ Exists') =>
       \A i \in DOMAIN record.queue :
         /\ i \in DOMAIN record'.queue
         /\ record'.queue[i].id = record.queue[i].id
         /\ record.queue[i].status # "pending" => record'.queue[i].status # "pending"]_vars

\* An approval that arrives late never brings a cancelled item back to life
\* (`cancellation_won` of await_approval and resume_approval).
CancelledNeverLive ==
  [][(Exists /\ Exists') =>
       \A i \in DOMAIN record.queue :
         record.queue[i].status = "cancelled" =>
           record'.queue[i].status \notin {"pending", "running", "awaiting_approval"}]_vars
=============================================================================
