--------------------------- MODULE SubagentLedger ---------------------------
(***************************************************************************)
(* One ledger under every sequence of library calls: each call loads the   *)
(* ledger, applies one function of CommunicationLedger and stores it.  Two *)
(* calls that overlap are the subject of SubagentHost.                     *)
(*                                                                         *)
(* `sent` is a history variable: every delivery ever made, in order.       *)
(***************************************************************************)
EXTENDS CommunicationLedger

CONSTANTS Consumers,   \* consumer ids of delivery cursors
          Targets,     \* ids that a delivery may be addressed to
          Requests,    \* approval request ids
          Prints,      \* identity fingerprints
          WorkIds,     \* work ids an approval or a notification names
          Children,    \* child ids an approval may be registered for
          MaxSent      \* bound: deliveries made in one behaviour

ASSUME SentAssumption == MaxSent \in Nat

VARIABLES ledger, sent

vars == <<ledger, sent>>

Refs == Requests \cup WorkIds

Init ==
  /\ ledger = EmptyLedger(Consumers)
  /\ sent = <<>>

\* The history grows by the newest delivery when a call made one.
Record(l) ==
  sent' = IF l.next > ledger.next THEN Append(sent, l.deliveries[Len(l.deliveries)]) ELSE sent

SendDelivery(target, kind, work) ==
  /\ Len(sent) < MaxSent
  /\ ledger' = Deliver(ledger, target, kind, work, NoRef)
  /\ Record(ledger')

Register(id, print, child, work, grants, root) ==
  /\ Len(sent) < MaxSent
  /\ ledger' = RegisterApproval(ledger, id, print, child, work, grants, root)
  /\ Record(ledger')

Resolve(id, child, decision, attached, cancelled, closed) ==
  /\ Registered(ledger, id)
  /\ ledger' = ResolveApproval(ledger, id, child, decision, attached, cancelled, closed)
  /\ UNCHANGED sent

Invalidate(child, status) ==
  /\ ledger' = InvalidateApprovals(ledger, child, status)
  /\ UNCHANGED sent

Advance(consumer, seq) ==
  /\ ledger' = AdvanceCursor(ledger, consumer, seq)
  /\ UNCHANGED sent

Note(work) ==
  /\ ledger' = NoteActiveWork(ledger, work)
  /\ UNCHANGED sent

Clear(work) ==
  /\ ledger' = ClearWorkNotification(ledger, work)
  /\ UNCHANGED sent

\* A call that only loads and stores.
Restore ==
  /\ ledger' = Reload(ledger)
  /\ UNCHANGED sent

Next ==
  \/ \E t \in Targets, k \in {"message", "milestone"}, w \in WorkIds \cup {NoRef} :
       SendDelivery(t, k, w)
  \/ \E i \in Requests, p \in Prints, c \in Children, w \in WorkIds \cup {NoRef},
        g \in BOOLEAN, t \in Targets : Register(i, p, c, w, g, t)
  \/ \E i \in Requests, c \in Children, d \in Decision, att, can, clo \in BOOLEAN :
       Resolve(i, c, d, att, can, clo)
  \/ \E c \in Children, s \in {"cancelled", "stale"} : Invalidate(c, s)
  \/ \E c \in Consumers, n \in 0 .. MaxSent : Advance(c, n)
  \/ \E w \in WorkIds : Note(w) \/ Clear(w)
  \/ Restore

Spec == Init /\ [][Next]_vars

-----------------------------------------------------------------------------
(* Properties.                                                             *)

LedgerType ==
  [gen : Nat, next : Nat \ {0}, evicted : Nat,
   deliveries : Seq(Delivery(Targets, Refs)),
   approvals : Seq(Approval(Requests, Prints, Refs, Children)),
   notes : Seq(WorkIds),
   cursors : [Consumers -> Nat]]

\* Type correctness of the stored ledger and of the history.
TypeOK ==
  /\ ledger \in LedgerType
  /\ sent \in Seq(Delivery(Targets, Refs))

\* What is retained is exactly the end of what was ever sent: eviction drops
\* only the oldest deliveries and `deliver` never rewrites a retained one.
WindowIsSuffix ==
  /\ Len(sent) = ledger.next - 1
  /\ \A i \in DOMAIN ledger.deliveries : ledger.deliveries[i] = sent[ledger.evicted + i]

\* Loading a stored ledger loses nothing: the load-time filter on the
\* eviction mark agrees with what eviction already removed.
LoadIsFaithful == Reload(ledger).deliveries = ledger.deliveries

\* A settled approval keeps its decision and the revision it was made at,
\* and no approval ever leaves the registry (the exact-once model).
SettledIsFinal ==
  [][\A i \in DOMAIN ledger.approvals :
       /\ i \in DOMAIN ledger'.approvals
       /\ ledger'.approvals[i].id = ledger.approvals[i].id
       /\ ledger.approvals[i].status # "pending" =>
            ledger'.approvals[i] = ledger.approvals[i]]_vars

\* Registering a request again, with the same or another identity, neither
\* adds an approval nor announces it a second time.
RegisteredOnce ==
  \A i, j \in DOMAIN sent :
    /\ sent[i].kind = "approval" /\ sent[j].kind = "approval"
    /\ sent[i].op = sent[j].op
    => i = j

\* No counter or cursor of the ledger ever moves back.
NothingGoesBack ==
  [][/\ ledger'.gen >= ledger.gen
     /\ ledger'.next >= ledger.next
     /\ ledger'.evicted >= ledger.evicted
     /\ \A c \in Consumers : ledger'.cursors[c] >= ledger.cursors[c]]_vars
=============================================================================
