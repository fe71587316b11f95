------------------------- MODULE CommunicationLedger -------------------------
(***************************************************************************)
(* One child's communication ledger and the pure functions that change it  *)
(* (subagent_communication.rs and subagent_approval.rs).  The ledger keeps *)
(* the bounded list of deliveries, the consumers' cursors, the bounded     *)
(* list of live work notifications and the approvals.                      *)
(*                                                                         *)
(* Abstractions.  Timestamps, bodies and labels are dropped.  The SHA-256  *)
(* identity fingerprint of a registration is an opaque value `print`: two  *)
(* registrations have the same one exactly when their identity fields are  *)
(* equal.  An approval's grants are reduced to whether there are any.      *)
(***************************************************************************)
EXTENDS Integers, Sequences

CONSTANTS MaxDeliveries,     \* MAX_DELIVERIES, 256 in the code
          MaxApprovals,      \* MAX_APPROVALS, 64 in the code
          MaxNotes,          \* MAX_ACTIVE_WORK_NOTIFICATIONS, 8 in the code
          NoRef              \* an absent work or operation id

ASSUME CapacityAssumption ==
  /\ MaxDeliveries \in Nat \ {0}
  /\ MaxApprovals \in Nat \ {0}
  /\ MaxNotes \in Nat \ {0}

DeliveryKind   == {"message", "milestone", "approval"}
ApprovalStatus == {"pending", "allowed_once", "allowed_always", "denied",
                   "cancelled", "stale"}
Decision       == {"once", "always", "deny"}

Delivery(Targets, Refs) ==
  [seq : Nat \ {0}, rev : Nat, target : Targets, kind : DeliveryKind,
   work : Refs \cup {NoRef}, op : Refs \cup {NoRef}]

Approval(Ids, Prints, Refs, Children) ==
  [id : Ids, print : Prints, child : Children, work : Refs \cup {NoRef}, grants : BOOLEAN,
   status : ApprovalStatus, resolvedRev : Nat \cup {-1}]

EmptyLedger(Consumers) ==
  [gen |-> 0, next |-> 1, evicted |-> 0, deliveries |-> <<>>, approvals |-> <<>>,
   notes |-> <<>>, cursors |-> [c \in Consumers |-> 0]]

-----------------------------------------------------------------------------
(* Deliveries.                                                             *)

NewDelivery(l, target, kind, work, op) ==
  [seq |-> l.next, rev |-> l.gen, target |-> target, kind |-> kind, work |-> work, op |-> op]

\* Faulty variants of Deliver: the newest delivery is the one dropped; the
\* generation is left alone.
DeliverDroppingNewest(l, target, kind, work, op) ==
  LET all == Append(l.deliveries, NewDelivery(l, target, kind, work, op))
  IN  [l EXCEPT !.deliveries = IF Len(all) > MaxDeliveries THEN @ ELSE all,
                !.evicted = IF Len(all) > MaxDeliveries THEN Head(all).seq ELSE @,
                !.gen = @ + 1, !.next = @ + 1]

DeliverSameGeneration(l, target, kind, work, op) ==
  LET all  == Append(l.deliveries, NewDelivery(l, target, kind, work, op))
      full == Len(all) > MaxDeliveries
  IN  [l EXCEPT !.deliveries = IF full THEN Tail(all) ELSE all,
                !.evicted = IF full THEN Head(all).seq ELSE @, !.next = @ + 1]

\* Append one delivery, then drop from the front down to the bound.  One
\* delivery is added at a time, so at most one is dropped.
Deliver(l, target, kind, work, op) ==
  LET all  == Append(l.deliveries, NewDelivery(l, target, kind, work, op))
      full == Len(all) > MaxDeliveries
  IN  [l EXCEPT !.deliveries = IF full THEN Tail(all) ELSE all,
                !.evicted    = IF full THEN Head(all).seq ELSE @,
                !.gen        = @ + 1,
                !.next       = @ + 1]

\* Faulty variant: the cursor follows whatever the consumer says.
SetCursor(l, consumer, seq) == [l EXCEPT !.cursors[consumer] = seq]

\* advance_cursor: a consumer's cursor never moves back.
AdvanceCursor(l, consumer, seq) ==
  [l EXCEPT !.cursors[consumer] = IF seq > @ THEN seq ELSE @]

\* Faulty variant: an off-by-one in the load-time filter.
UnevictedPlusOne(l, d) == d.seq > l.evicted + 1

\* What CommunicationStore::load makes of a stored ledger: it keeps the
\* deliveries after the eviction mark (all of them, in a well-formed ledger).
Unevicted(l, d) == d.seq > l.evicted

Reload(l) ==
  IF \A i \in DOMAIN l.deliveries : Unevicted(l, l.deliveries[i]) THEN l
  ELSE [l EXCEPT !.deliveries = SelectSeq(@, LAMBDA d : Unevicted(l, d))]

\* The notification list is idempotent per work id and keeps the newest ones.
NoteActiveWork(l, work) ==
  IF \E i \in DOMAIN l.notes : l.notes[i] = work THEN l
  ELSE LET all == Append(l.notes, work)
       IN  [l EXCEPT !.notes = IF Len(all) > MaxNotes THEN Tail(all) ELSE all]

\* `retain(|n| n.work_id != work_id)`: a work id is noted at most once.
ClearWorkNotification(l, work) ==
  IF \A i \in DOMAIN l.notes : l.notes[i] # work THEN l
  ELSE LET i == CHOOSE k \in DOMAIN l.notes : l.notes[k] = work
       IN  [l EXCEPT !.notes = SubSeq(@, 1, i - 1) \o SubSeq(@, i + 1, Len(@))]

-----------------------------------------------------------------------------
(* Approvals.                                                              *)

Registered(l, id) == \E i \in DOMAIN l.approvals : l.approvals[i].id = id

\* The position of the approval called id; ids are distinct (ApprovalsDistinct).
IndexOf(l, id) == CHOOSE i \in DOMAIN l.approvals : l.approvals[i].id = id

RegisterResult(l, id, print) ==
  IF Registered(l, id)
    THEN IF l.approvals[IndexOf(l, id)].print = print THEN "replay" ELSE "conflict"
    ELSE IF Len(l.approvals) >= MaxApprovals THEN "capacity" ELSE "registered"

\* Faulty variant: a replayed registration is announced again.
RegisterAnnouncingReplays(l, id, print, child, work, grants, root) ==
  CASE RegisterResult(l, id, print) = "registered" ->
         [Deliver(l, root, "approval", NoRef, id) EXCEPT
            !.approvals = Append(@, [id |-> id, print |-> print, child |-> child, work |-> work,
                                     grants |-> grants, status |-> "pending", resolvedRev |-> -1])]
    [] RegisterResult(l, id, print) = "replay" -> Deliver(l, root, "approval", NoRef, id)
    [] OTHER -> l

\* A first registration also delivers an approval envelope to the root,
\* correlated with the request; a replay, a conflict and a full registry
\* leave the ledger as it was.
RegisterApproval(l, id, print, child, work, grants, root) ==
  IF RegisterResult(l, id, print) # "registered" THEN l
  ELSE [Deliver(l, root, "approval", NoRef, id) EXCEPT
          !.approvals = Append(@, [id |-> id, print |-> print, child |-> child, work |-> work,
                                   grants |-> grants, status |-> "pending", resolvedRev |-> -1])]

\* decide_approval_response, in the order in which the code rejects.
Decide(a, child, decision, attached, cancelled, closed) ==
  CASE a.child # child                       -> "reject_wrong_child"
    [] a.child = child /\ a.status # "pending" -> "reject_resolved"
    [] a.child = child /\ a.status = "pending" ->
         IF ~attached THEN "reject_detached"
         ELSE IF cancelled THEN "reject_cancelled"
         ELSE IF closed THEN "reject_closed"
         ELSE IF decision = "always" /\ ~a.grants THEN "reject_invalid"
         ELSE decision

\* Faulty variant: the decision is stored where the status belongs.
DecisionAsStatus(outcome) == outcome

Settlement(outcome) ==
  CASE outcome = "once"   -> "allowed_once"
    [] outcome = "always" -> "allowed_always"
    [] outcome = "deny"   -> "denied"

ResolveOutcome(l, id, child, decision, attached, cancelled, closed) ==
  Decide(l.approvals[IndexOf(l, id)], child, decision, attached, cancelled, closed)

\* commit_status on the approval at position k.
CommitStatus(l, k, status) ==
  [l EXCEPT !.approvals =
     [l.approvals EXCEPT ![k] =
        [l.approvals[k] EXCEPT !.status = status, !.resolvedRev = l.gen]]]

\* resolve_approval on a registered id: a rejected response changes nothing.
ResolveApproval(l, id, child, decision, attached, cancelled, closed) ==
  LET outcome == ResolveOutcome(l, id, child, decision, attached, cancelled, closed)
  IN  IF outcome \notin Decision THEN l
      ELSE CommitStatus(l, IndexOf(l, id), Settlement(outcome))

\* Faulty variant: the settled approvals are overwritten with the pending ones.
InvalidateEveryApproval(l, child, status) ==
  [l EXCEPT !.approvals =
     [i \in DOMAIN l.approvals |->
        IF l.approvals[i].child = child
          THEN [l.approvals[i] EXCEPT !.status = status, !.resolvedRev = l.gen]
          ELSE l.approvals[i]]]

\* Every pending approval of the child becomes cancelled or stale.
InvalidateApprovals(l, child, status) ==
  [l EXCEPT !.approvals =
     [i \in DOMAIN l.approvals |->
        IF l.approvals[i].child = child /\ l.approvals[i].status = "pending"
          THEN [l.approvals[i] EXCEPT !.status = status, !.resolvedRev = l.gen]
          ELSE l.approvals[i]]]

PendingIds(l) ==
  {l.approvals[i].id : i \in {k \in DOMAIN l.approvals : l.approvals[k].status = "pending"}}

-----------------------------------------------------------------------------
(* What every ledger that is ever stored satisfies.                        *)

\* The retained deliveries are exactly the ones after the eviction mark, in
\* order and within the bound.
WindowDense(l) ==
  /\ Len(l.deliveries) <= MaxDeliveries
  /\ l.next = l.evicted + Len(l.deliveries) + 1
  /\ \A i \in DOMAIN l.deliveries : l.deliveries[i].seq = l.evicted + i

\* Each delivery took one generation: it records the generation it was made at.
RevisionsMatch(l) ==
  /\ l.gen = l.next - 1
  /\ \A i \in DOMAIN l.deliveries : l.deliveries[i].rev = l.deliveries[i].seq - 1

\* One approval per request id, within the bound, settled exactly when it
\* carries the revision it was settled at.
ApprovalsDistinct(l) ==
  /\ Len(l.approvals) <= MaxApprovals
  /\ \A i, j \in DOMAIN l.approvals : l.approvals[i].id = l.approvals[j].id => i = j
  /\ \A i \in DOMAIN l.approvals :
       /\ l.approvals[i].status = "pending" <=> l.approvals[i].resolvedRev = -1
       /\ l.approvals[i].resolvedRev <= l.gen

\* A request stays announced to its root until its envelope is evicted.
ApprovalsAnnounced(l) ==
  l.evicted = 0 => \A i \in DOMAIN l.approvals :
    \E k \in DOMAIN l.deliveries :
      l.deliveries[k].kind = "approval" /\ l.deliveries[k].op = l.approvals[i].id

\* No work id is notified twice and the list is within its bound.
NotesDistinct(l) ==
  /\ Len(l.notes) <= MaxNotes
  /\ \A i, j \in DOMAIN l.notes : l.notes[i] = l.notes[j] => i = j

LedgerWellFormed(l) ==
  /\ WindowDense(l)
  /\ RevisionsMatch(l)
  /\ ApprovalsDistinct(l)
  /\ ApprovalsAnnounced(l)
  /\ NotesDistinct(l)
=============================================================================
