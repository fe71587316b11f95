----------------------- MODULE SubagentLifecycleProofs -----------------------
(***************************************************************************)
(* The manager of SubagentLifecycle keeps every record it stores well      *)
(* formed, for any parents, configurations and modes.                      *)
(***************************************************************************)
EXTENDS SubagentLifecycle, SubagentRecordProofs

\* The stored record has its type and is well formed; only queued items run.
IInv ==
  /\ Exists => GoodRecord(Parents, Configs, record)
  /\ working \subseteq Nat

LEMMA InitIInv == Init => IInv
BY DEF Init, IInv, Exists

\* The id of an item of a well-formed record.
LEMMA ItemIdIsNat ==
  ASSUME NEW r, GoodRecord(Parents, Configs, r), NEW i \in DOMAIN r.queue
  PROVE  r.queue[i].id \in Nat
<1>1. r.queue \in Seq(WorkItem)
  BY Fields
<1>2. r.queue[i] \in WorkItem
  BY <1>1
<1>3. QED
  BY <1>2 DEF WorkItem

LEMMA NextIInv == IInv /\ [Next]_vars => IInv'
<1> SUFFICES ASSUME IInv, [Next]_vars PROVE IInv'
  OBVIOUS
<1> USE DEF IInv, Exists, StillGood
<1>1. ASSUME NEW m \in Modes, NEW c \in Configs, NEW b \in BOOLEAN, Create(m, c, b)
      PROVE  IInv'
  BY <1>1, CreateGood, LifecycleAssumption DEF Create
<1>2. ASSUME NEW c \in Configs, Configure(c) PROVE IInv'
  BY <1>2, ConfigureGood DEF Configure
<1>3. ASSUME NEW p \in Parents \cup {NoValue}, Relationship(p) PROVE IInv'
  BY <1>3, RelationshipGood DEF Relationship
<1>4. ASSUME NEW a \in LifecycleAction, Lifecycle(a) PROVE IInv'
  BY <1>4, LifecycleGood DEF Lifecycle, Room
<1>5. ASSUME Send PROVE IInv'
  BY <1>5, SendGood DEF Send, Room
<1>6. ASSUME Milestone PROVE IInv'
  BY <1>6, MilestoneGood DEF Milestone, Room
<1>7. ASSUME Claim PROVE IInv'
  <2>1. PICK w \in OldestPending(record) :
          /\ Exists
          /\ record' = ClaimItem(record, w.id)
          /\ working' = working \cup {w.id}
    BY <1>7 DEF Claim
  <2>2. GoodRecord(Parents, Configs, record')
    BY <2>1, ClaimGood
  <2>3. w.id \in Nat
    <3>1. PICK i \in DOMAIN record.queue : w = record.queue[i]
      BY DEF OldestPending
    <3>2. QED
      BY <2>1, <3>1, ItemIdIsNat
  <2>4. QED
    BY <2>1, <2>2, <2>3
<1>8. ASSUME NEW id \in working, NEW b \in {"pending", "running"},
             NEW o \in {"completed", "failed"}, Settle(id, b, o)
      PROVE  IInv'
  <2>1. id \in Nat /\ b \in QueueStatus /\ o \in Outcome
    BY DEF QueueStatus, Outcome
  <2>2. GoodRecord(Parents, Configs, record')
    BY <1>8, <2>1, TransitionGood DEF Settle, Room
  <2>3. QED
    BY <1>8, <2>2 DEF Settle
<1>9. ASSUME NEW id \in working, Abandon(id) PROVE IInv'
  BY <1>9 DEF Abandon
<1>10. ASSUME NEW id \in ItemIds, Await(id) \/ Resume(id) \/ Deny(id) PROVE IInv'
  <2>1. record # NoRecord /\ id \in Nat
    BY ItemIdIsNat DEF ItemIds
  <2>2. CASE Await(id)
    BY <2>1, <2>2, ApprovalGood DEF Await
  <2>3. CASE Resume(id)
    BY <2>1, <2>3, ApprovalGood DEF Resume
  <2>4. CASE Deny(id)
    BY <2>1, <2>4, CancelItemGood DEF Deny
  <2>5. QED
    BY <1>10, <2>2, <2>3, <2>4
<1>11. ASSUME Delete PROVE IInv'
  BY <1>11 DEF Delete
<1>12. CASE UNCHANGED vars
  BY <1>12 DEF vars
<1>13. QED
  BY <1>1, <1>2, <1>3, <1>4, <1>5, <1>6, <1>7, <1>8, <1>9, <1>10, <1>11, <1>12 DEF Next

LEMMA IInvHolds == Spec => []IInv
BY InitIInv, NextIInv, PTL DEF Spec

\* The stored record has its type and no run works on anything but item ids.
THEOREM TypeCorrect == Spec => []TypeOK
<1>1. IInv => TypeOK
  BY DEF IInv, TypeOK, GoodRecord
<1>2. QED
  BY <1>1, IInvHolds, PTL

\* Whatever sequence of manager calls is made, the record that is stored has a
\* dense log, ordered revisions, distinct and announced items, and an outcome
\* only with its work event.
THEOREM RecordAlwaysWellFormed == Spec => []RecordWellFormed
<1>1. IInv => RecordWellFormed
  BY DEF IInv, RecordWellFormed, GoodRecord
<1>2. QED
  BY <1>1, IInvHolds, PTL

-----------------------------------------------------------------------------
(* What a step may do to the work items that are there.                    *)

Live == {"pending", "running", "awaiting_approval"}

\* Every item of q is still at its place in f; none is pending again and no
\* cancelled one is live again.
ItemsStep(q, f) ==
  \A i \in DOMAIN q :
    /\ i \in DOMAIN f
    /\ f[i].id = q[i].id
    /\ q[i].status # "pending" => f[i].status # "pending"
    /\ q[i].status = "cancelled" => f[i].status \notin Live

LEMMA SetStatusStep ==
  ASSUME NEW q \in Seq(WorkItem), NEW id, NEW s \in QueueStatus \ {"pending"},
         s \in Live => \A i \in DOMAIN q : IsItem(q, i, id) => q[i].status # "cancelled"
  PROVE  ItemsStep(q, SetStatus(q, id, s))
<1>1. PICK f : f = SetStatus(q, id, s)
  OBVIOUS
<1>2. DOMAIN f = DOMAIN q
  BY <1>1 DEF SetStatus
<1>3. ASSUME NEW i \in DOMAIN q
      PROVE  /\ f[i].id = q[i].id
             /\ q[i].status # "pending" => f[i].status # "pending"
             /\ q[i].status = "cancelled" => f[i].status \notin Live
  <2>1. q[i] \in WorkItem
    OBVIOUS
  <2>2. CASE IsItem(q, i, id)
    <3>1. f[i] = [q[i] EXCEPT !.status = s]
      BY <1>1, <2>2 DEF SetStatus
    <3>2. f[i].id = q[i].id /\ f[i].status = s
      BY <2>1, <3>1 DEF WorkItem
    <3>3. QED
      BY <2>2, <3>2
  <2>3. CASE ~IsItem(q, i, id)
    <3>1. f[i] = q[i]
      BY <1>1, <2>3 DEF SetStatus
    <3>2. QED
      BY <3>1 DEF Live
  <2>4. QED
    BY <2>2, <2>3
<1>4. ItemsStep(q, f)
  BY <1>2, <1>3 DEF ItemsStep
<1>5. QED
  BY <1>1, <1>4

\* The position that the code finds is the only one with that id.
LEMMA StatusIsAt ==
  ASSUME NEW r, GoodRecord(Parents, Configs, r), NEW i \in DOMAIN r.queue, NEW id,
         IsItem(r.queue, i, id)
  PROVE  StatusOf(r, id) = r.queue[i].status
<1>1. PICK k : k = CHOOSE j \in DOMAIN r.queue : IsItem(r.queue, j, id)
  OBVIOUS
<1>2. k \in DOMAIN r.queue /\ IsItem(r.queue, k, id)
  BY <1>1
<1>3. r.queue[i].id = id /\ r.queue[k].id = id
  BY <1>2 DEF IsItem
<1>4. i = k
  BY <1>2, <1>3 DEF GoodRecord, WellFormed, ItemsDistinct
<1>5. StatusOf(r, id) = r.queue[k].status
  BY <1>1 DEF StatusOf
<1>6. QED
  BY <1>4, <1>5

\* An approval transition moves an item that is running or waits.
LEMMA ApprovalStep ==
  ASSUME NEW r, GoodRecord(Parents, Configs, r), NEW id \in Nat,
         NEW wanted \in {"running", "awaiting_approval"},
         NEW before \in {"running", "awaiting_approval"},
         ApprovalOutcome(r, id, wanted, before) = "changed"
  PROVE  ItemsStep(r.queue, SetStatus(r.queue, id, wanted))
<1>1. StatusOf(r, id) # "cancelled"
  BY DEF ApprovalOutcome
<1>2. \A i \in DOMAIN r.queue : IsItem(r.queue, i, id) => r.queue[i].status # "cancelled"
  BY <1>1, StatusIsAt
<1>3. r.queue \in Seq(WorkItem)
  BY Fields
<1>4. wanted \in QueueStatus \ {"pending"}
  BY DEF QueueStatus
<1>5. QED
  BY <1>2, <1>3, <1>4, SetStatusStep

\* The queue after an event is appended is the queue before.
LEMMA RevisionQueue ==
  ASSUME NEW r, NEW m, NEW q, NEW s, NEW item, NEW from, NEW to,
         GoodRecord(Parents, Configs, r),
         m = AppendRevision([r EXCEPT !.queue = q, !.state = s], item, from, to)
  PROVE  m.queue = q
<1>1. r \in Record(Parents, Configs)
  BY Fields
<1>2. PICK n : n = [r EXCEPT !.queue = q, !.state = s]
  OBVIOUS
<1>3. n = [mode |-> r.mode, config |-> r.config, parent |-> r.parent, state |-> s,
           archivedFrom |-> r.archivedFrom, generation |-> r.generation, queue |-> q,
           events |-> r.events, next |-> r.next]
  BY <1>1, <1>2 DEF Record
<1>4. PICK e : e = Append(n.events, [seq |-> n.next, rev |-> n.generation + 1, kind |-> "work",
                                     item |-> item, from |-> from, to |-> to])
  OBVIOUS
<1>5. PICK x : x = Emit(n, n.generation + 1, "work", item, from, to)
  OBVIOUS
<1>6. x = [n EXCEPT !.events = e, !.next = n.next + 1]
  BY <1>4, <1>5 DEF Emit
<1>7. x = [mode |-> r.mode, config |-> r.config, parent |-> r.parent, state |-> s,
           archivedFrom |-> r.archivedFrom, generation |-> r.generation, queue |-> q,
           events |-> e, next |-> n.next + 1]
  BY <1>3, <1>6
<1>8. PICK g : g = x.generation + 1
  OBVIOUS
<1>9. m = [x EXCEPT !.generation = g]
  BY <1>2, <1>5, <1>8 DEF AppendRevision
<1>10. QED
  BY <1>7, <1>9

\* A settled item has an outcome.
LEMMA TransitionStep ==
  ASSUME NEW r, GoodRecord(Parents, Configs, r), NEW id \in Nat, NEW before, NEW o \in Outcome
  PROVE  ItemsStep(r.queue, TransitionWork(r, [id |-> id, status |-> before], o).queue)
<1>1. PICK v, s, q : /\ v = AppendRevision(r, id, before, o)
                     /\ s = IF o = "completed" THEN "completed" ELSE "failed"
                     /\ q = SetStatus(r.queue, id, o)
  OBVIOUS
<1>2. r \in Record(Parents, Configs)
  BY Fields
<1>3. v = [mode |-> r.mode, config |-> r.config, parent |-> r.parent, state |-> r.state,
           archivedFrom |-> r.archivedFrom, generation |-> r.generation + 1,
           queue |-> r.queue, events |-> Append(r.events, WorkEvent(r, id, before, o)),
           next |-> r.next + 1]
  BY <1>1, <1>2, RevisionShape
<1>4. TransitionWork(r, [id |-> id, status |-> before], o) =
        [v EXCEPT !.state = s, !.queue = SetStatus(v.queue, id, o)]
  BY <1>1 DEF TransitionWork
<1>5. v.queue = r.queue
  BY <1>3
<1>6. TransitionWork(r, [id |-> id, status |-> before], o).queue = q
  BY <1>1, <1>3, <1>4, <1>5
<1>7. r.queue \in Seq(WorkItem)
  BY Fields
<1>8. o \in QueueStatus \ {"pending"} /\ o \notin Live
  BY DEF QueueStatus, Live, Outcome
<1>9. ItemsStep(r.queue, q)
  BY <1>1, <1>7, <1>8, SetStatusStep
<1>10. QED
  BY <1>6, <1>9

LEMMA SameQueue ==
  ASSUME NEW q
  PROVE  ItemsStep(q, q)
BY DEF ItemsStep, Live

LEMMA StepKeepsItems ==
  ASSUME IInv, [Next]_vars, Exists, Exists'
  PROVE  ItemsStep(record.queue, record'.queue)
<1> USE DEF Exists
<1>0. GoodRecord(Parents, Configs, record)
  BY DEF IInv
<1>1. record \in Record(Parents, Configs) /\ record.queue \in Seq(WorkItem)
  BY <1>0, Fields
<1>2. CASE record'.queue = record.queue
  BY <1>2, SameQueue
<1>3. ASSUME NEW m \in Modes, NEW c \in Configs, NEW b \in BOOLEAN, Create(m, c, b)
      PROVE  FALSE
  BY <1>3 DEF Create
<1>4. ASSUME NEW c \in Configs, Configure(c) PROVE record'.queue = record.queue
  BY <1>1, <1>4 DEF Configure, ApplyConfigure, Record
<1>5. ASSUME NEW p \in Parents \cup {NoValue}, Relationship(p)
      PROVE  record'.queue = record.queue
  BY <1>1, <1>5 DEF Relationship, ApplyRelationship, Record
<1>6. ASSUME NEW a \in LifecycleAction, Lifecycle(a) PROVE record'.queue = record.queue
  <2>1. PICK t, f : /\ t = LifecycleTarget(record, a)
                    /\ f = IF t = "archived" THEN record.state ELSE record.archivedFrom
    OBVIOUS
  <2>2. PICK n : n = [record EXCEPT !.state = t, !.archivedFrom = f]
    OBVIOUS
  <2>3. n.queue = record.queue
    BY <1>1, <2>2 DEF Record
  <2>4. record' = Emit(n, record.generation, "lifecycle", NoItem, record.state, t)
    BY <1>6, <2>1, <2>2 DEF Lifecycle, ApplyLifecycle
  <2>5. PICK es, x : record' = [n EXCEPT !.events = es, !.next = x]
    BY <2>4 DEF Emit
  <2>6. n = [mode |-> record.mode, config |-> record.config, parent |-> record.parent,
             state |-> t, archivedFrom |-> f, generation |-> record.generation,
             queue |-> record.queue, events |-> record.events, next |-> record.next]
    BY <1>1, <2>2 DEF Record
  <2>7. QED
    BY <2>5, <2>6
<1>7. ASSUME Send PROVE ItemsStep(record.queue, record'.queue)
  <2>1. PICK w, q : /\ w = [id |-> record.next, status |-> "pending"]
                    /\ q = Append(record.queue, w)
    OBVIOUS
  <2>2. PICK n : n = [record EXCEPT !.queue = q]
    OBVIOUS
  <2>3. n = [mode |-> record.mode, config |-> record.config, parent |-> record.parent,
             state |-> record.state, archivedFrom |-> record.archivedFrom,
             generation |-> record.generation, queue |-> q,
             events |-> record.events, next |-> record.next]
    BY <1>1, <2>2 DEF Record
  <2>4. record' = Emit(n, record.generation, "message_queued", record.next, NoValue, NoValue)
    BY <1>7, <2>1, <2>2 DEF Send, ApplySend
  <2>5. PICK es, x : record' = [n EXCEPT !.events = es, !.next = x]
    BY <2>4 DEF Emit
  <2>6. record'.queue = q
    BY <2>3, <2>5
  <2>7. w \in WorkItem
    BY <1>1, <2>1 DEF Record, WorkItem, QueueStatus
  <2>8. \A i \in DOMAIN record.queue : i \in DOMAIN q /\ q[i] = record.queue[i]
    BY <1>1, <2>1, <2>7
  <2>9. QED
    BY <2>6, <2>8 DEF ItemsStep, Live
<1>8. ASSUME Milestone PROVE record'.queue = record.queue
  <2>1. record' = Emit(record, record.generation, "milestone", NoItem, NoValue, NoValue)
    BY <1>8 DEF Milestone, ApplyMilestone
  <2>2. PICK es, x : record' = [record EXCEPT !.events = es, !.next = x]
    BY <2>1 DEF Emit
  <2>3. QED
    BY <1>1, <2>2 DEF Record
<1>9. ASSUME Claim PROVE ItemsStep(record.queue, record'.queue)
  <2>1. PICK k \in DOMAIN record.queue :
          /\ record.queue[k].status = "pending"
          /\ record' = ClaimItem(record, record.queue[k].id)
    BY <1>9 DEF Claim, OldestPending, IsOldestPending
  <2>2. PICK id, q : id = record.queue[k].id /\ q = SetStatus(record.queue, id, "running")
    OBVIOUS
  <2>3. record'.queue = q
    BY <1>1, <2>1, <2>2 DEF ClaimItem, Record
  <2>4. ASSUME NEW i \in DOMAIN record.queue, IsItem(record.queue, i, id)
        PROVE  record.queue[i].status # "cancelled"
    <3>1. record.queue[i].id = record.queue[k].id
      BY <2>2, <2>4 DEF IsItem
    <3>2. i = k
      BY <1>0, <3>1 DEF GoodRecord, WellFormed, ItemsDistinct
    <3>3. QED
      BY <2>1, <3>2
  <2>5. "running" \in QueueStatus \ {"pending"}
    BY DEF QueueStatus
  <2>6. ItemsStep(record.queue, q)
    BY <1>1, <2>2, <2>4, <2>5, SetStatusStep
  <2>7. QED
    BY <2>3, <2>6
<1>10. ASSUME NEW id \in working, NEW b \in {"pending", "running"},
              NEW o \in {"completed", "failed"}, Settle(id, b, o)
       PROVE  ItemsStep(record.queue, record'.queue)
  <2>1. id \in Nat /\ o \in Outcome
    BY DEF IInv, Outcome
  <2>2. QED
    BY <1>0, <1>10, <2>1, TransitionStep DEF Settle
<1>11. ASSUME NEW id \in working, Abandon(id) PROVE record'.queue = record.queue
  BY <1>11 DEF Abandon
<1>12. ASSUME NEW id \in ItemIds, Await(id) \/ Resume(id) \/ Deny(id)
       PROVE  ItemsStep(record.queue, record'.queue)
  <2>1. id \in Nat
    BY <1>0, ItemIdIsNat DEF ItemIds
  <2>2. CASE Await(id) /\ AwaitOutcome(record, id) = "changed"
    <3>1. PICK q : q = SetStatus(record.queue, id, "awaiting_approval")
      OBVIOUS
    <3>2. record'.queue = q
      <4>1. record' = AppendRevision([record EXCEPT !.queue = q, !.state = "awaiting_approval"],
                                     id, "running", "awaiting_approval")
        BY <2>2, <3>1 DEF Await, AwaitApproval
      <4>2. PICK r, m, s, from, to : /\ r = record /\ m = record'
                                     /\ s = "awaiting_approval" /\ from = "running" /\ to = "awaiting_approval"
        OBVIOUS
      <4>3. m = AppendRevision([r EXCEPT !.queue = q, !.state = s], id, from, to)
        BY <4>1, <4>2
      <4>4. m.queue = q
        BY <1>0, <4>2, <4>3, RevisionQueue, Zenon
      <4>5. QED
        BY <4>2, <4>4
    <3>3. ItemsStep(record.queue, q)
      BY <1>0, <2>1, <2>2, <3>1, ApprovalStep DEF AwaitOutcome
    <3>4. QED
      BY <3>2, <3>3
  <2>3. CASE Resume(id) /\ ResumeOutcome(record, id) = "changed"
    <3>1. PICK q : q = SetStatus(record.queue, id, "running")
      OBVIOUS
    <3>2. record'.queue = q
      <4>1. record' = AppendRevision([record EXCEPT !.queue = q, !.state = "running"],
                                     id, "awaiting_approval", "running")
        BY <2>3, <3>1 DEF Resume, ResumeApproval
      <4>2. PICK r, m, s, from, to : /\ r = record /\ m = record'
                                     /\ s = "running" /\ from = "awaiting_approval" /\ to = "running"
        OBVIOUS
      <4>3. m = AppendRevision([r EXCEPT !.queue = q, !.state = s], id, from, to)
        BY <4>1, <4>2
      <4>4. m.queue = q
        BY <1>0, <4>2, <4>3, RevisionQueue, Zenon
      <4>5. QED
        BY <4>2, <4>4
    <3>3. ItemsStep(record.queue, q)
      BY <1>0, <2>1, <2>3, <3>1, ApprovalStep DEF ResumeOutcome
    <3>4. QED
      BY <3>2, <3>3
  <2>4. CASE Await(id) /\ AwaitOutcome(record, id) # "changed"
    BY <2>4, SameQueue DEF Await, AwaitApproval
  <2>5. CASE Resume(id) /\ ResumeOutcome(record, id) # "changed"
    BY <2>5, SameQueue DEF Resume, ResumeApproval
  <2>6. CASE Deny(id)
    <3>1. PICK q : q = SetStatus(record.queue, id, "cancelled")
      OBVIOUS
    <3>2. record' = [record EXCEPT !.queue = q]
      BY <2>6, <3>1 DEF Deny
    <3>3. record'.queue = q
      BY <1>1, <3>2 DEF Record
    <3>4. "cancelled" \in QueueStatus \ {"pending"} /\ "cancelled" \notin Live
      BY DEF QueueStatus, Live
    <3>5. ItemsStep(record.queue, q)
      BY <1>1, <3>1, <3>4, SetStatusStep
    <3>6. QED
      BY <3>3, <3>5
  <2>7. QED
    BY <1>12, <2>2, <2>3, <2>4, <2>5, <2>6
<1>13. ASSUME Delete PROVE FALSE
  BY <1>13 DEF Delete
<1>14. CASE UNCHANGED vars
  BY <1>14, SameQueue DEF vars
<1>15. QED
  BY <1>2, <1>3, <1>4, <1>5, <1>6, <1>7, <1>8, <1>9, <1>10, <1>11, <1>12, <1>13, <1>14
     DEF Next

\* No manager call makes an item that was taken, settled or cancelled pending
\* again, so `find_pending_item` never returns it a second time.
THEOREM TakenOnce == Spec => NeverPendingAgain
<1>1. IInv /\ [Next]_vars =>
        [(Exists /\ Exists') =>
           \A i \in DOMAIN record.queue :
             /\ i \in DOMAIN record'.queue
             /\ record'.queue[i].id = record.queue[i].id
             /\ record.queue[i].status # "pending" => record'.queue[i].status # "pending"]_vars
  BY StepKeepsItems DEF ItemsStep
<1>2. QED
  BY <1>1, IInvHolds, PTL DEF Spec, NeverPendingAgain

\* An approval that is answered after its item was cancelled does not bring
\* the item back: cancellation wins, for any number of items and approvals.
THEOREM CancellationWins == Spec => CancelledNeverLive
<1>1. IInv /\ [Next]_vars =>
        [(Exists /\ Exists') =>
           \A i \in DOMAIN record.queue :
             record.queue[i].status = "cancelled" =>
               record'.queue[i].status \notin {"pending", "running", "awaiting_approval"}]_vars
  BY StepKeepsItems DEF ItemsStep, Live
<1>2. QED
  BY <1>1, IInvHolds, PTL DEF Spec, CancelledNeverLive
=============================================================================
