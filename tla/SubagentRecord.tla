--------------------------- MODULE SubagentRecord ---------------------------
(***************************************************************************)
(* The durable control record of one subagent and the pure functions that  *)
(* change it (subagent_control.rs, the transition helpers of               *)
(* subagent_executor.rs and tools/subagent.rs).  No state: the modules     *)
(* SubagentLifecycle and SubagentHost apply these functions.               *)
(*                                                                         *)
(* Abstractions.  Timestamps, names, prompts and message bodies are        *)
(* dropped; the configuration is one opaque value.  A work item is named   *)
(* by a number: 0 is the creation prompt (`w-<len>` in the code) and n is  *)
(* the message `m-<n>` queued at event sequence n.  The u64 counters are   *)
(* naturals: no run of the program reaches 2^64 events.                    *)
(***************************************************************************)
EXTENDS Integers, Sequences

State == {"idle", "queued", "running", "awaiting_approval", "interrupted",
          "completed", "failed", "cancelled", "archived"}

QueueStatus == {"pending", "running", "awaiting_approval", "completed",
                "failed", "cancelled", "interrupted"}

LifecycleAction == {"cancel", "resume", "close", "reopen"}

Mode == {"one_off", "persistent"}

EventKind == {"created", "message_queued", "milestone", "lifecycle", "work"}

NoValue == "none"       \* Rust's None for a parent and for archived_from
NoItem  == -1           \* an event that is about no work item

\* What `from` and `to` of an event may hold: states for a lifecycle event,
\* queue statuses for a work event, NoValue otherwise.
EventLabel == State \cup QueueStatus \cup {NoValue}

WorkItem == [id : Nat, status : QueueStatus]
Event == [seq : Nat \ {0}, rev : Nat, kind : EventKind, item : Nat \cup {NoItem},
          from : EventLabel, to : EventLabel]

\* The records over a set of parent ids and a set of configurations.
Record(Parents, Configs) ==
  [mode : Mode, config : Configs, parent : Parents \cup {NoValue},
   state : State, archivedFrom : State \cup {NoValue},
   generation : Nat, queue : Seq(WorkItem), events : Seq(Event), next : Nat \ {0}]

-----------------------------------------------------------------------------
(* Queue lookups.                                                          *)

\* The positions that `queue.iter().find(..)` stops at: the first item called
\* id and the first pending one.
IsItem(q, i, id) == q[i].id = id /\ \A j \in 1 .. i - 1 : q[j].id # id
IsOldestPending(q, i) ==
  q[i].status = "pending" /\ \A j \in 1 .. i - 1 : q[j].status # "pending"

HasPending(r) == \E i \in DOMAIN r.queue : r.queue[i].status = "pending"

HasItem(r, id) == \E i \in DOMAIN r.queue : r.queue[i].id = id

\* The oldest pending item, as a set of at most one element.
OldestPending(r) ==
  {r.queue[i] : i \in {k \in DOMAIN r.queue : IsOldestPending(r.queue, k)}}

\* The first item called id gets a new status; a missing item changes nothing.
SetStatus(q, id, s) ==
  [i \in DOMAIN q |-> IF IsItem(q, i, id) THEN [q[i] EXCEPT !.status = s] ELSE q[i]]

StatusOf(r, id) ==
  LET i == CHOOSE k \in DOMAIN r.queue : IsItem(r.queue, k, id)
  IN  r.queue[i].status

-----------------------------------------------------------------------------
(* The event log.                                                          *)

\* Faulty variant: the next sequence is not taken.
EmitSameSequence(r, rev, kind, item, from, to) ==
  [r EXCEPT !.events = Append(@, [seq |-> r.next, rev |-> rev, kind |-> kind,
                                  item |-> item, from |-> from, to |-> to])]

\* One event at the current sequence, with the revision the caller chose.
Emit(r, rev, kind, item, from, to) ==
  [r EXCEPT !.events = Append(@, [seq |-> r.next, rev |-> rev, kind |-> kind,
                                  item |-> item, from |-> from, to |-> to]),
            !.next = @ + 1]

\* Faulty variant: the event is at a generation that the record never reaches.
AppendUnrevised(r, item, from, to) == Emit(r, r.generation + 1, "work", item, from, to)

\* append_revision with one transition: the event carries the new generation.
AppendRevision(r, item, from, to) ==
  [Emit(r, r.generation + 1, "work", item, from, to) EXCEPT !.generation = @ + 1]

-----------------------------------------------------------------------------
(* The manager's commands.                                                 *)

DefaultRecord(config) ==
  [mode |-> "one_off", config |-> config, parent |-> NoValue, state |-> "idle",
   archivedFrom |-> NoValue, generation |-> 0, queue |-> <<>>, events |-> <<>>, next |-> 1]

ApplyCreate(mode, config, hasPrompt) ==
  LET fresh == [DefaultRecord(config) EXCEPT
                  !.mode = mode,
                  !.queue = IF hasPrompt THEN <<[id |-> 0, status |-> "pending"]>> ELSE <<>>,
                  !.state = "queued"]
  IN  Emit(fresh, 0, "created", NoItem, NoValue, NoValue)

ApplyConfigure(r, config) == [r EXCEPT !.config = config]

\* Attach and reparent set the parent, detach clears it: no event, no check.
ApplyRelationship(r, parent) == [r EXCEPT !.parent = parent]

Invalid == "invalid_lifecycle_transition"

NextLifecycleState(mode, current, action, hasPending, archivedFrom) ==
  CASE action = "cancel" /\ current \in {"queued", "running", "awaiting_approval", "interrupted"} ->
         IF mode = "persistent" THEN "idle" ELSE "cancelled"
    [] action = "resume" /\ current = "interrupted" -> IF hasPending THEN "queued" ELSE "idle"
    [] action = "resume" /\ current = "queued" /\ hasPending -> "queued"
    [] action = "close" /\ current # "archived" -> "archived"
    [] action = "reopen" /\ current = "archived" ->
         IF hasPending THEN "queued"
         ELSE IF archivedFrom \in {"completed", "failed", "cancelled"} THEN archivedFrom
         ELSE "idle"
    [] OTHER -> Invalid

LifecycleTarget(r, action) ==
  NextLifecycleState(r.mode, r.state, action, HasPending(r), r.archivedFrom)

\* The queue is left alone: the items of a cancelled child keep their status.
ApplyLifecycle(r, action) ==
  LET target == LifecycleTarget(r, action)
  IN  Emit([r EXCEPT !.state = target,
                     !.archivedFrom = IF target = "archived" THEN r.state ELSE @],
           r.generation, "lifecycle", NoItem, r.state, target)

\* A message queues the pending item `m-<sequence>`; the state does not change.
ApplySend(r) ==
  Emit([r EXCEPT !.queue = Append(@, [id |-> r.next, status |-> "pending"])],
       r.generation, "message_queued", r.next, NoValue, NoValue)

ApplyMilestone(r) == Emit(r, r.generation, "milestone", NoItem, NoValue, NoValue)

-----------------------------------------------------------------------------
(* The execution side.                                                     *)

StateAfterRestart(s) ==
  IF s \in {"queued", "running", "awaiting_approval"} THEN "interrupted" ELSE s

\* Faulty variant: the child runs but its item stays pending.
ClaimStateOnly(r, id) == [r EXCEPT !.state = "running"]

\* run_work_item marks the item it took, without an event.
ClaimItem(r, id) == [r EXCEPT !.queue = SetStatus(@, id, "running"), !.state = "running"]

\* Faulty variant: the item keeps the status that it ran with.
TransitionStateOnly(r, work, current) ==
  [AppendRevision(r, work.id, work.status, current) EXCEPT
     !.state = IF current = "completed" THEN "completed" ELSE "failed"]

\* transition_work: `work` is the item as it was BEFORE it was marked running.
TransitionWork(r, work, current) ==
  LET revised == AppendRevision(r, work.id, work.status, current)
  IN  [revised EXCEPT !.state = IF current = "completed" THEN "completed" ELSE "failed",
                      !.queue = SetStatus(@, work.id, current)]

\* The subagent tool works on the first item of the queue, whatever its status.
SetFirst(q, s) == [i \in DOMAIN q |-> IF i = 1 THEN [q[i] EXCEPT !.status = s] ELSE q[i]]

\* Faulty variant: the state without the item.
MarkStateOnly(r) == [r EXCEPT !.state = "running"]

MarkFirstRunning(r) ==
  IF r.queue = <<>> THEN r
  ELSE [r EXCEPT !.queue = SetFirst(@, "running"), !.state = "running"]

\* Faulty variant: the outcome is logged but the item stays running.
FinishStateOnly(r, target) ==
  [AppendRevision(r, r.queue[1].id, r.queue[1].status, target) EXCEPT !.state = target]

\* finish_control of the subagent tool, on the tool's own copy of the record.
FinishControl(r, target) ==
  LET finished == IF r.queue = <<>> THEN r
                  ELSE AppendRevision([r EXCEPT !.queue = SetFirst(@, target)],
                                      r.queue[1].id, r.queue[1].status, target)
  IN  [finished EXCEPT !.state = target]

-----------------------------------------------------------------------------
(* The approval transitions of the library; their outcome is in the code   *)
(* one of changed / already_in_state / cancellation_won / stale_work.      *)

\* Faulty variant: whatever the item's status, the transition is made.
ApprovalAlwaysChanges(r, id, wanted, before) ==
  IF HasItem(r, id) THEN "changed" ELSE "stale_work"

ApprovalOutcome(r, id, wanted, before) ==
  IF ~HasItem(r, id) THEN "stale_work"
  ELSE CASE StatusOf(r, id) = wanted      -> "already_in_state"
         [] StatusOf(r, id) = "cancelled" -> "cancellation_won"
         [] StatusOf(r, id) = before      -> "changed"
         [] OTHER                         -> "stale_work"

AwaitOutcome(r, id)  == ApprovalOutcome(r, id, "awaiting_approval", "running")
ResumeOutcome(r, id) == ApprovalOutcome(r, id, "running", "awaiting_approval")

AwaitApproval(r, id) ==
  IF AwaitOutcome(r, id) # "changed" THEN r
  ELSE AppendRevision([r EXCEPT !.queue = SetStatus(@, id, "awaiting_approval"),
                                !.state = "awaiting_approval"],
                      id, "running", "awaiting_approval")

\* Faulty variant: the item goes back to the queue instead of on with its run.
ResumeByRequeueing(r, id) ==
  IF ResumeOutcome(r, id) # "changed" THEN r
  ELSE AppendRevision([r EXCEPT !.queue = SetStatus(@, id, "pending"), !.state = "queued"],
                      id, "awaiting_approval", "pending")

ResumeApproval(r, id) ==
  IF ResumeOutcome(r, id) # "changed" THEN r
  ELSE AppendRevision([r EXCEPT !.queue = SetStatus(@, id, "running"), !.state = "running"],
                      id, "awaiting_approval", "running")

-----------------------------------------------------------------------------
(* What every record a process ever writes satisfies, whatever other       *)
(* processes wrote in between.                                             *)

\* Sequences are dense from 1 and `next` is the one after the last.
LogDense(r) ==
  /\ r.next = Len(r.events) + 1
  /\ \A i \in DOMAIN r.events : r.events[i].seq = i

\* Revisions never go back along the log nor pass the record's generation.
RevisionsOrdered(r) ==
  /\ \A i \in DOMAIN r.events : r.events[i].rev <= r.generation
  /\ \A i, j \in DOMAIN r.events : i <= j => r.events[i].rev <= r.events[j].rev

\* No two work items share an id, and no id is one that a later message takes.
ItemsDistinct(r) ==
  /\ \A i \in DOMAIN r.queue : r.queue[i].id < r.next
  /\ \A i, j \in DOMAIN r.queue : r.queue[i].id = r.queue[j].id => i = j

\* A queued message has the event that announced it.
ItemsAnnounced(r) ==
  \A i \in DOMAIN r.queue : r.queue[i].id > 0 =>
    \E k \in DOMAIN r.events :
      r.events[k].kind = "message_queued" /\ r.events[k].item = r.queue[i].id

\* A record that claims an outcome has the work event of that outcome.
OutcomeWitnessed(r) ==
  \A s \in {"completed", "failed"} : (s \in {r.state, r.archivedFrom}) =>
    \E k \in DOMAIN r.events : r.events[k].kind = "work" /\ r.events[k].to = s

\* An archived child remembers the state that it was archived from.
ArchiveRemembers(r) ==
  /\ r.archivedFrom # "archived"
  /\ r.state = "archived" => r.archivedFrom # NoValue

WellFormed(r) ==
  /\ LogDense(r)
  /\ RevisionsOrdered(r)
  /\ ItemsDistinct(r)
  /\ ItemsAnnounced(r)
  /\ OutcomeWitnessed(r)
  /\ ArchiveRemembers(r)
=============================================================================
