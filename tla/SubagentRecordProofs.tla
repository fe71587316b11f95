------------------------ MODULE SubagentRecordProofs ------------------------
(***************************************************************************)
(* Every function of SubagentRecord keeps a record well formed: lemmas for *)
(* the proofs about SubagentLifecycle and SubagentHost.                    *)
(***************************************************************************)
EXTENDS SubagentRecord, SequenceTheorems, TLAPS

\* m still has every event of r, at its place.
LogKept(r, m) ==
  \A k \in DOMAIN r.events : k \in DOMAIN m.events /\ m.events[k] = r.events[k]

\* m has the same work items as r, with whatever status.
ItemsKept(r, m) ==
  /\ DOMAIN m.queue = DOMAIN r.queue
  /\ \A i \in DOMAIN r.queue : m.queue[i].id = r.queue[i].id

\* The outcome that m claims is one that r claimed or that m's log has.
OutcomeFrom(r, m) ==
  \A s \in {"completed", "failed"} : s \in {m.state, m.archivedFrom} =>
    \/ s \in {r.state, r.archivedFrom}
    \/ \E k \in DOMAIN m.events : m.events[k].kind = "work" /\ m.events[k].to = s

-----------------------------------------------------------------------------
(* Logs.                                                                   *)

\* One more event at the next sequence and at the new generation.
LEMMA LogAppended ==
  ASSUME NEW P, NEW C, NEW r \in Record(P, C), NEW m \in Record(P, C), WellFormed(r),
         NEW e \in Event, m.events = Append(r.events, e), m.next = r.next + 1,
         e.seq = r.next, e.rev = m.generation, m.generation >= r.generation
  PROVE  /\ LogDense(m) /\ RevisionsOrdered(m) /\ LogKept(r, m)
         /\ Len(r.events) + 1 \in DOMAIN m.events
         /\ m.events[Len(r.events) + 1] = e
<1>1. PICK ev, n, g, h :
        /\ ev = r.events /\ n = Len(r.events) /\ g = r.generation /\ h = m.generation
  OBVIOUS
<1>2. /\ ev \in Seq(Event) /\ n \in Nat /\ g \in Nat /\ h \in Nat /\ DOMAIN ev = 1 .. n
      /\ h >= g
  BY <1>1 DEF Record
<1>3. /\ r.next = n + 1
      /\ \A i \in 1 .. n : ev[i].seq = i
      /\ \A i \in 1 .. n : ev[i].rev <= g
      /\ \A i, j \in 1 .. n : i <= j => ev[i].rev <= ev[j].rev
  BY <1>1, <1>2 DEF WellFormed, LogDense, RevisionsOrdered
<1>4. /\ DOMAIN m.events = 1 .. n + 1 /\ Len(m.events) = n + 1
      /\ m.events[n + 1] = e
      /\ \A i \in 1 .. n : m.events[i] = ev[i]
  BY <1>1, <1>2
<1>5. LogKept(r, m)
  BY <1>1, <1>2, <1>4 DEF LogKept
<1>6. LogDense(m)
  <2>1. m.next = Len(m.events) + 1
    BY <1>2, <1>3, <1>4
  <2>2. ASSUME NEW i \in 1 .. n + 1 PROVE m.events[i].seq = i
    <3>1. CASE i = n + 1
      BY <3>1, <1>3, <1>4
    <3>2. CASE i # n + 1
      <4>1. i \in 1 .. n
        BY <3>2, <1>2
      <4>2. QED
        BY <4>1, <1>3, <1>4
    <3>3. QED
      BY <3>1, <3>2
  <2>3. QED
    BY <2>1, <2>2, <1>4 DEF LogDense
<1>7. RevisionsOrdered(m)
  <2>1. ASSUME NEW i \in 1 .. n PROVE ev[i].rev \in Nat /\ ev[i].rev <= h
    <3>1. ev[i] \in Event
      BY <1>2
    <3>2. ev[i].rev \in Nat /\ ev[i].rev <= g
      BY <3>1, <1>3 DEF Event
    <3>3. QED
      BY <3>2, <1>2
  <2>2. ASSUME NEW i \in 1 .. n + 1 PROVE m.events[i].rev <= h
    <3>1. CASE i = n + 1
      BY <3>1, <1>1, <1>2, <1>4
    <3>2. CASE i # n + 1
      <4>1. i \in 1 .. n
        BY <3>2, <1>2
      <4>2. QED
        BY <4>1, <2>1, <1>4
    <3>3. QED
      BY <3>1, <3>2
  <2>3. ASSUME NEW i \in 1 .. n + 1, NEW j \in 1 .. n + 1, i <= j
        PROVE  m.events[i].rev <= m.events[j].rev
    <3>1. CASE j = n + 1
      <4>1. m.events[j].rev = h
        BY <3>1, <1>1, <1>4
      <4>2. QED
        BY <4>1, <2>2
    <3>2. CASE j # n + 1
      <4>1. i \in 1 .. n /\ j \in 1 .. n
        BY <2>3, <3>2, <1>2
      <4>2. QED
        BY <4>1, <2>3, <1>3, <1>4
    <3>3. QED
      BY <3>1, <3>2
  <2>4. QED
    BY <2>2, <2>3, <1>1, <1>4 DEF RevisionsOrdered
<1>8. QED
  BY <1>1, <1>2, <1>4, <1>5, <1>6, <1>7

\* The same log, next sequence and generation.
LEMMA LogUnchanged ==
  ASSUME NEW r, NEW m, WellFormed(r), m.events = r.events, m.next = r.next,
         m.generation = r.generation
  PROVE  LogDense(m) /\ RevisionsOrdered(m) /\ LogKept(r, m)
BY DEF WellFormed, LogDense, RevisionsOrdered, LogKept

-----------------------------------------------------------------------------
(* Queues and outcomes.                                                    *)

LEMMA QueueKept ==
  ASSUME NEW P, NEW C, NEW r \in Record(P, C), NEW m \in Record(P, C), WellFormed(r),
         LogKept(r, m), ItemsKept(r, m), m.next >= r.next
  PROVE  ItemsDistinct(m) /\ ItemsAnnounced(m)
<1>1. ASSUME NEW i \in DOMAIN m.queue
      PROVE  i \in DOMAIN r.queue /\ m.queue[i].id = r.queue[i].id
  BY DEF ItemsKept
<1>2. ASSUME NEW i \in DOMAIN m.queue PROVE m.queue[i].id < m.next
  <2>1. r.queue[i].id < r.next
    BY <1>1 DEF WellFormed, ItemsDistinct
  <2>2. r.queue[i] \in WorkItem
    BY <1>1 DEF Record
  <2>3. r.queue[i].id \in Nat /\ r.next \in Nat /\ m.next \in Nat
    BY <2>2 DEF Record, WorkItem
  <2>4. QED
    BY <1>1, <2>1, <2>3
<1>3. ItemsDistinct(m)
  BY <1>1, <1>2 DEF WellFormed, ItemsDistinct
<1>4. ItemsAnnounced(m)
  <2>1. ASSUME NEW i \in DOMAIN m.queue, m.queue[i].id > 0
        PROVE  \E k \in DOMAIN m.events :
                 m.events[k].kind = "message_queued" /\ m.events[k].item = m.queue[i].id
    <3>1. PICK k \in DOMAIN r.events :
            r.events[k].kind = "message_queued" /\ r.events[k].item = r.queue[i].id
      BY <1>1, <2>1 DEF WellFormed, ItemsAnnounced
    <3>2. QED
      BY <1>1, <3>1 DEF LogKept
  <2>2. QED
    BY <2>1 DEF ItemsAnnounced
<1>5. QED
  BY <1>3, <1>4

LEMMA OutcomeKept ==
  ASSUME NEW r, NEW m, WellFormed(r), LogKept(r, m), OutcomeFrom(r, m)
  PROVE  OutcomeWitnessed(m)
<1>1. ASSUME NEW s \in {"completed", "failed"}, s \in {m.state, m.archivedFrom}
      PROVE  \E k \in DOMAIN m.events : m.events[k].kind = "work" /\ m.events[k].to = s
  <2>1. CASE s \in {r.state, r.archivedFrom}
    <3>1. PICK k \in DOMAIN r.events : r.events[k].kind = "work" /\ r.events[k].to = s
      BY <2>1 DEF WellFormed, OutcomeWitnessed
    <3>2. QED
      BY <3>1 DEF LogKept
  <2>2. CASE s \notin {r.state, r.archivedFrom}
    BY <1>1, <2>2 DEF OutcomeFrom
  <2>3. QED
    BY <2>1, <2>2
<1>2. QED
  BY <1>1 DEF OutcomeWitnessed

\* The three parts together.
LEMMA StaysWellFormed ==
  ASSUME NEW P, NEW C, NEW r \in Record(P, C), NEW m \in Record(P, C), WellFormed(r),
         LogDense(m), RevisionsOrdered(m), LogKept(r, m), ItemsKept(r, m), m.next >= r.next,
         OutcomeFrom(r, m), ArchiveRemembers(m)
  PROVE  WellFormed(m)
<1>1. ItemsDistinct(m) /\ ItemsAnnounced(m)
  BY QueueKept
<1>2. OutcomeWitnessed(m)
  BY OutcomeKept
<1>3. QED
  BY <1>1, <1>2 DEF WellFormed

\* f is q with the status of some items set to s.
Marked(q, s, f) ==
  /\ f = [i \in DOMAIN q |-> f[i]]
  /\ \A i \in DOMAIN q : f[i] = q[i] \/ f[i] = [q[i] EXCEPT !.status = s]

MarkedWell(q, f) ==
  /\ f \in Seq(WorkItem)
  /\ DOMAIN f = DOMAIN q
  /\ \A i \in DOMAIN q : f[i].id = q[i].id

LEMMA MarkedQueue ==
  ASSUME NEW q \in Seq(WorkItem), NEW s \in QueueStatus, NEW f, Marked(q, s, f)
  PROVE  MarkedWell(q, f)
<1>0. /\ DOMAIN f = DOMAIN q /\ f = [i \in DOMAIN q |-> f[i]]
      /\ \A i \in DOMAIN q : f[i] = q[i] \/ f[i] = [q[i] EXCEPT !.status = s]
  BY DEF Marked
<1>1. ASSUME NEW i \in DOMAIN q PROVE f[i] \in WorkItem /\ f[i].id = q[i].id
  <2>1. q[i] \in WorkItem
    OBVIOUS
  <2>2. PICK w : w = q[i]
    OBVIOUS
  <2>3. [w EXCEPT !.status = s] = [id |-> w.id, status |-> s]
    BY <2>1, <2>2 DEF WorkItem
  <2>4. [w EXCEPT !.status = s] \in WorkItem /\ [w EXCEPT !.status = s].id = w.id
    BY <2>1, <2>2, <2>3 DEF WorkItem
  <2>5. QED
    BY <2>1, <2>2, <2>4, <1>0
<1>2. PICK n \in Nat : DOMAIN q = 1 .. n
  OBVIOUS
<1>3. f \in [1 .. n -> WorkItem]
  BY <1>0, <1>1, <1>2
<1>4. QED
  BY <1>0, <1>1, <1>3, SeqDef DEF MarkedWell

LEMMA SetStatusShape ==
  ASSUME NEW q \in Seq(WorkItem), NEW id, NEW s \in QueueStatus
  PROVE  MarkedWell(q, SetStatus(q, id, s))
<1>1. Marked(q, s, SetStatus(q, id, s))
  BY DEF Marked, SetStatus
<1>2. QED
  BY <1>1, MarkedQueue

LEMMA SetFirstShape ==
  ASSUME NEW q \in Seq(WorkItem), NEW s \in QueueStatus
  PROVE  MarkedWell(q, SetFirst(q, s))
<1>1. Marked(q, s, SetFirst(q, s))
  BY DEF Marked, SetFirst
<1>2. QED
  BY <1>1, MarkedQueue

-----------------------------------------------------------------------------
(* Edits of a record.                                                      *)

GoodRecord(P, C, r) == r \in Record(P, C) /\ WellFormed(r)

\* What a change of r to m keeps: m is good, and has a work item if r has one.
HasWork(r) == 1 \in DOMAIN r.queue
StillGood(P, C, r, m) == GoodRecord(P, C, m) /\ (HasWork(r) => HasWork(m))

\* An edit that adds no event.
LEMMA QuietEdit ==
  ASSUME NEW P, NEW C, NEW r, GoodRecord(P, C, r), NEW m \in Record(P, C),
         m.events = r.events, m.next = r.next, m.generation = r.generation,
         ItemsKept(r, m), OutcomeFrom(r, m), ArchiveRemembers(m)
  PROVE  StillGood(P, C, r, m)
<1>1. r \in Record(P, C) /\ WellFormed(r) /\ r.next \in Nat
  BY DEF GoodRecord, Record
<1>2. LogDense(m) /\ RevisionsOrdered(m) /\ LogKept(r, m)
  BY <1>1, LogUnchanged
<1>3. m.next >= r.next
  BY <1>1
<1>4. WellFormed(m)
  BY <1>1, <1>2, <1>3, StaysWellFormed
<1>5. QED
  BY <1>4 DEF GoodRecord, StillGood, HasWork, ItemsKept

\* m has exactly the event e more than r, at the generation that m has.
OneMore(r, m, e) ==
  /\ m.events = Append(r.events, e)
  /\ m.next = r.next + 1
  /\ e.seq = r.next
  /\ e.rev = m.generation
  /\ m.generation >= r.generation

\* An edit with one event keeps the log.
LEMMA OneMoreLog ==
  ASSUME NEW P, NEW C, NEW r, GoodRecord(P, C, r), NEW m \in Record(P, C), NEW e \in Event,
         OneMore(r, m, e)
  PROVE  /\ LogDense(m) /\ RevisionsOrdered(m) /\ LogKept(r, m) /\ m.next >= r.next
         /\ \E k \in DOMAIN m.events : m.events[k] = e
<1>1. r \in Record(P, C) /\ WellFormed(r) /\ r.next \in Nat
  BY DEF GoodRecord, Record
<1>2. /\ LogDense(m) /\ RevisionsOrdered(m) /\ LogKept(r, m)
      /\ Len(r.events) + 1 \in DOMAIN m.events
      /\ m.events[Len(r.events) + 1] = e
  BY <1>1, LogAppended DEF OneMore
<1>3. m.next >= r.next
  BY <1>1 DEF OneMore
<1>4. QED
  BY <1>2, <1>3

\* An edit that adds one event and no work item.
LEMMA LoggedEdit ==
  ASSUME NEW P, NEW C, NEW r, GoodRecord(P, C, r), NEW m \in Record(P, C), NEW e \in Event,
         OneMore(r, m, e), ItemsKept(r, m), OutcomeFrom(r, m), ArchiveRemembers(m)
  PROVE  StillGood(P, C, r, m)
<1>1. r \in Record(P, C) /\ WellFormed(r)
  BY DEF GoodRecord
<1>2. LogDense(m) /\ RevisionsOrdered(m) /\ LogKept(r, m) /\ m.next >= r.next
  BY OneMoreLog
<1>3. WellFormed(m)
  BY <1>1, <1>2, StaysWellFormed
<1>4. QED
  BY <1>3 DEF GoodRecord, StillGood, HasWork, ItemsKept

\* The fields of a well-formed record.
LEMMA Fields ==
  ASSUME NEW P, NEW C, NEW r, GoodRecord(P, C, r)
  PROVE  /\ r \in Record(P, C)
         /\ r.mode \in Mode /\ r.config \in C /\ r.parent \in P \cup {NoValue}
         /\ r.state \in State /\ r.archivedFrom \in State \cup {NoValue}
         /\ r.generation \in Nat /\ r.queue \in Seq(WorkItem) /\ r.events \in Seq(Event)
         /\ r.next \in Nat \ {0}
         /\ r = [mode |-> r.mode, config |-> r.config, parent |-> r.parent, state |-> r.state,
                 archivedFrom |-> r.archivedFrom, generation |-> r.generation,
                 queue |-> r.queue, events |-> r.events, next |-> r.next]
         /\ ArchiveRemembers(r)
BY DEF GoodRecord, Record, WellFormed

\* A record made of fields of the right types.
LEMMA Built ==
  ASSUME NEW P, NEW C, NEW mode \in Mode, NEW config \in C, NEW parent \in P \cup {NoValue},
         NEW state \in State, NEW from \in State \cup {NoValue}, NEW gen \in Nat,
         NEW queue \in Seq(WorkItem), NEW events \in Seq(Event), NEW next \in Nat \ {0}
  PROVE  [mode |-> mode, config |-> config, parent |-> parent, state |-> state,
          archivedFrom |-> from, generation |-> gen, queue |-> queue, events |-> events,
          next |-> next] \in Record(P, C)
BY DEF Record

\* One event more, and the next sequence.
LEMMA EmitShape ==
  ASSUME NEW P, NEW C, NEW r \in Record(P, C), NEW rev, NEW kind, NEW item, NEW from, NEW to
  PROVE  Emit(r, rev, kind, item, from, to) =
           [mode |-> r.mode, config |-> r.config, parent |-> r.parent, state |-> r.state,
            archivedFrom |-> r.archivedFrom, generation |-> r.generation, queue |-> r.queue,
            events |-> Append(r.events, [seq |-> r.next, rev |-> rev, kind |-> kind,
                                         item |-> item, from |-> from, to |-> to]),
            next |-> r.next + 1]
<1>1. PICK e, m : /\ e = [seq |-> r.next, rev |-> rev, kind |-> kind, item |-> item,
                         from |-> from, to |-> to]
                  /\ m = Emit(r, rev, kind, item, from, to)
  OBVIOUS
<1>2. PICK es, x : es = Append(r.events, e) /\ x = r.next + 1
  OBVIOUS
<1>3. m = [r EXCEPT !.events = es, !.next = x]
  BY <1>1, <1>2 DEF Emit
<1>4. m = [mode |-> r.mode, config |-> r.config, parent |-> r.parent, state |-> r.state,
           archivedFrom |-> r.archivedFrom, generation |-> r.generation, queue |-> r.queue,
           events |-> es, next |-> x]
  BY <1>3 DEF Record
<1>5. QED
  BY <1>1, <1>2, <1>4

-----------------------------------------------------------------------------
(* The manager's commands.                                                 *)

LEMMA CreateGood ==
  ASSUME NEW P, NEW C, NEW mode \in Mode, NEW config \in C, NEW b \in BOOLEAN
  PROVE  /\ GoodRecord(P, C, ApplyCreate(mode, config, b))
         /\ b => HasWork(ApplyCreate(mode, config, b))
<1>1. PICK e, q, m :
        /\ e = [seq |-> 1, rev |-> 0, kind |-> "created", item |-> NoItem,
                from |-> NoValue, to |-> NoValue]
        /\ q = IF b THEN <<[id |-> 0, status |-> "pending"]>> ELSE <<>>
        /\ m = ApplyCreate(mode, config, b)
  OBVIOUS
<1>2. q \in Seq(WorkItem) /\ \A i \in DOMAIN q : i = 1 /\ q[i].id = 0
  <2>1. [id |-> 0, status |-> "pending"] \in WorkItem
    BY DEF WorkItem, QueueStatus
  <2>2. QED
    BY <1>1, <2>1
<1>3. m = [mode |-> mode, config |-> config, parent |-> NoValue, state |-> "queued",
           archivedFrom |-> NoValue, generation |-> 0, queue |-> q, events |-> <<e>>,
           next |-> 2]
  <2>1. PICK fresh : fresh = [DefaultRecord(config) EXCEPT
                                !.mode = mode,
                                !.queue = IF b THEN <<[id |-> 0, status |-> "pending"]>> ELSE <<>>,
                                !.state = "queued"]
    OBVIOUS
  <2>2. fresh = [mode |-> mode, config |-> config, parent |-> NoValue, state |-> "queued",
                 archivedFrom |-> NoValue, generation |-> 0, queue |-> q, events |-> <<>>,
                 next |-> 1]
    BY <1>1, <2>1 DEF DefaultRecord
  <2>3. m = Emit(fresh, 0, "created", NoItem, NoValue, NoValue)
    BY <1>1, <2>1 DEF ApplyCreate
  <2>4. fresh \in Record(P, C)
    BY <1>2, <2>2 DEF Record, State
  <2>5. m = [mode |-> mode, config |-> config, parent |-> NoValue, state |-> "queued",
             archivedFrom |-> NoValue, generation |-> 0, queue |-> q,
             events |-> Append(<<>>, e), next |-> 1 + 1]
    BY <1>1, <2>2, <2>3, <2>4, EmitShape
  <2>6. Append(<<>>, e) = <<e>> /\ 1 + 1 = 2
    OBVIOUS
  <2>7. QED
    BY <2>5, <2>6
<1>4. e \in Event
  BY <1>1 DEF Event, EventKind, EventLabel
<1>5. m \in Record(P, C)
  BY <1>2, <1>3, <1>4 DEF Record, State
<1>6. LogDense(m) /\ RevisionsOrdered(m)
  BY <1>1, <1>3 DEF LogDense, RevisionsOrdered
<1>7. ItemsDistinct(m) /\ ItemsAnnounced(m)
  BY <1>2, <1>3 DEF ItemsDistinct, ItemsAnnounced
<1>8. OutcomeWitnessed(m) /\ ArchiveRemembers(m)
  BY <1>3 DEF OutcomeWitnessed, ArchiveRemembers, NoValue
<1>9. b => HasWork(m)
  BY <1>1, <1>3 DEF HasWork
<1>10. QED
  BY <1>1, <1>5, <1>6, <1>7, <1>8, <1>9 DEF GoodRecord, WellFormed

LEMMA ConfigureGood ==
  ASSUME NEW P, NEW C, NEW r, GoodRecord(P, C, r), NEW c \in C
  PROVE  StillGood(P, C, r, ApplyConfigure(r, c))
<1>1. PICK m : m = ApplyConfigure(r, c)
  OBVIOUS
<1>2. m = [mode |-> r.mode, config |-> c, parent |-> r.parent, state |-> r.state,
           archivedFrom |-> r.archivedFrom, generation |-> r.generation,
           queue |-> r.queue, events |-> r.events, next |-> r.next]
  BY <1>1, Fields DEF ApplyConfigure
<1>3. m \in Record(P, C)
  BY <1>2, Fields, Built
<1>4. ItemsKept(r, m) /\ OutcomeFrom(r, m) /\ ArchiveRemembers(m)
  BY <1>2, Fields DEF ItemsKept, OutcomeFrom, ArchiveRemembers
<1>5. m.events = r.events /\ m.next = r.next /\ m.generation = r.generation
  BY <1>2
<1>6. QED
  BY <1>1, <1>3, <1>4, <1>5, QuietEdit

LEMMA RelationshipGood ==
  ASSUME NEW P, NEW C, NEW r, GoodRecord(P, C, r), NEW p \in P \cup {NoValue}
  PROVE  StillGood(P, C, r, ApplyRelationship(r, p))
<1>1. PICK m : m = ApplyRelationship(r, p)
  OBVIOUS
<1>2. m = [mode |-> r.mode, config |-> r.config, parent |-> p, state |-> r.state,
           archivedFrom |-> r.archivedFrom, generation |-> r.generation,
           queue |-> r.queue, events |-> r.events, next |-> r.next]
  BY <1>1, Fields DEF ApplyRelationship
<1>3. m \in Record(P, C)
  BY <1>2, Fields, Built
<1>4. ItemsKept(r, m) /\ OutcomeFrom(r, m) /\ ArchiveRemembers(m)
  BY <1>2, Fields DEF ItemsKept, OutcomeFrom, ArchiveRemembers
<1>5. m.events = r.events /\ m.next = r.next /\ m.generation = r.generation
  BY <1>2
<1>6. QED
  BY <1>1, <1>3, <1>4, <1>5, QuietEdit

\* A lifecycle action never leads to an outcome that the record did not claim,
\* and leads to the archive only from another state.
LEMMA LifecycleTargets ==
  ASSUME NEW P, NEW C, NEW r, GoodRecord(P, C, r), NEW a \in LifecycleAction,
         LifecycleTarget(r, a) # Invalid
  PROVE  /\ LifecycleTarget(r, a) \in State
         /\ LifecycleTarget(r, a) = "archived" => r.state # "archived"
         /\ \A s \in {"completed", "failed"} : LifecycleTarget(r, a) = s => s = r.archivedFrom
<1>1. PICK t, h : t = LifecycleTarget(r, a) /\ h = HasPending(r)
  OBVIOUS
<1>2. r.archivedFrom # "archived" /\ r.state \in State /\ r.mode \in Mode
  BY Fields DEF ArchiveRemembers
<1>3. t = NextLifecycleState(r.mode, r.state, a, h, r.archivedFrom)
  BY <1>1 DEF LifecycleTarget
<1>4. a \in {"cancel", "resume", "close", "reopen"} /\ t # Invalid
  BY <1>1 DEF LifecycleAction
<1>5. CASE a = "cancel"
  BY <1>1, <1>2, <1>3, <1>4, <1>5 DEF NextLifecycleState, Invalid, State
<1>6. CASE a = "resume"
  BY <1>1, <1>2, <1>3, <1>4, <1>6 DEF NextLifecycleState, Invalid, State
<1>7. CASE a = "close"
  BY <1>1, <1>2, <1>3, <1>4, <1>7 DEF NextLifecycleState, Invalid, State
<1>8. CASE a = "reopen"
  BY <1>1, <1>2, <1>3, <1>4, <1>8 DEF NextLifecycleState, Invalid, State
<1>9. QED
  BY <1>4, <1>5, <1>6, <1>7, <1>8

LEMMA LifecycleGood ==
  ASSUME NEW P, NEW C, NEW r, GoodRecord(P, C, r), NEW a \in LifecycleAction,
         LifecycleTarget(r, a) # Invalid
  PROVE  StillGood(P, C, r, ApplyLifecycle(r, a))
<1>1. PICK m, t, f, e :
        /\ m = ApplyLifecycle(r, a)
        /\ t = LifecycleTarget(r, a)
        /\ f = IF t = "archived" THEN r.state ELSE r.archivedFrom
        /\ e = [seq |-> r.next, rev |-> r.generation, kind |-> "lifecycle", item |-> NoItem,
                from |-> r.state, to |-> t]
  OBVIOUS
<1>2. /\ t \in State
      /\ t = "archived" => r.state # "archived"
      /\ \A s \in {"completed", "failed"} : t = s => s = r.archivedFrom
  BY <1>1, LifecycleTargets
<1>3. e \in Event
  BY <1>1, <1>2, Fields DEF Event, EventKind, EventLabel
<1>4. f \in State \cup {NoValue}
  BY <1>1, Fields
<1>5. m = [mode |-> r.mode, config |-> r.config, parent |-> r.parent, state |-> t,
           archivedFrom |-> f, generation |-> r.generation,
           queue |-> r.queue, events |-> Append(r.events, e), next |-> r.next + 1]
  <2>1. PICK n : n = [r EXCEPT !.state = t, !.archivedFrom = f]
    OBVIOUS
  <2>2. n = [mode |-> r.mode, config |-> r.config, parent |-> r.parent, state |-> t,
             archivedFrom |-> f, generation |-> r.generation,
             queue |-> r.queue, events |-> r.events, next |-> r.next]
    <3>1. r \in Record(P, C)
      BY Fields
    <3>2. QED
      BY <2>1, <3>1 DEF Record
  <2>3. m = Emit(n, r.generation, "lifecycle", NoItem, r.state, t)
    <3>1. n = [r EXCEPT !.state = t,
                        !.archivedFrom = IF t = "archived" THEN r.state ELSE r.archivedFrom]
      BY <1>1, <2>1
    <3>2. QED
      BY <1>1, <3>1 DEF ApplyLifecycle
  <2>4. n \in Record(P, C)
    BY <1>2, <1>4, <2>2, Fields, Built
  <2>5. m = [mode |-> n.mode, config |-> n.config, parent |-> n.parent, state |-> n.state,
             archivedFrom |-> n.archivedFrom, generation |-> n.generation, queue |-> n.queue,
             events |-> Append(n.events, [seq |-> n.next, rev |-> r.generation,
                                          kind |-> "lifecycle", item |-> NoItem,
                                          from |-> r.state, to |-> t]),
             next |-> n.next + 1]
    BY <2>3, <2>4, EmitShape
  <2>6. QED
    BY <1>1, <2>2, <2>5
<1>6. m \in Record(P, C)
  <2>1. Append(r.events, e) \in Seq(Event) /\ r.next + 1 \in Nat \ {0}
    BY <1>3, Fields
  <2>2. QED
    BY <2>1, <1>2, <1>4, <1>5, Fields, Built
<1>7. ItemsKept(r, m)
  BY <1>5 DEF ItemsKept
<1>8. OutcomeFrom(r, m)
  BY <1>1, <1>2, <1>5 DEF OutcomeFrom
<1>9. ArchiveRemembers(m)
  <2>1. r.archivedFrom # "archived" /\ r.state # NoValue
    BY Fields DEF ArchiveRemembers, State, NoValue
  <2>2. QED
    BY <2>1, <1>1, <1>2, <1>5 DEF ArchiveRemembers
<1>10. OneMore(r, m, e)
  BY <1>1, <1>5, Fields DEF OneMore
<1>11. QED
  BY <1>1, <1>3, <1>6, <1>7, <1>8, <1>9, <1>10, LoggedEdit

LEMMA MilestoneGood ==
  ASSUME NEW P, NEW C, NEW r, GoodRecord(P, C, r)
  PROVE  StillGood(P, C, r, ApplyMilestone(r))
<1>1. PICK m, e : /\ m = ApplyMilestone(r)
                  /\ e = [seq |-> r.next, rev |-> r.generation, kind |-> "milestone",
                          item |-> NoItem, from |-> NoValue, to |-> NoValue]
  OBVIOUS
<1>2. m = [mode |-> r.mode, config |-> r.config, parent |-> r.parent, state |-> r.state,
           archivedFrom |-> r.archivedFrom, generation |-> r.generation, queue |-> r.queue,
           events |-> Append(r.events, e), next |-> r.next + 1]
  BY <1>1, Fields, EmitShape DEF ApplyMilestone
<1>3. e \in Event
  BY <1>1, Fields DEF Event, EventKind, EventLabel
<1>4. m \in Record(P, C)
  <2>1. Append(r.events, e) \in Seq(Event) /\ r.next + 1 \in Nat \ {0}
    BY <1>3, Fields
  <2>2. QED
    BY <2>1, <1>2, Fields, Built
<1>5. ItemsKept(r, m) /\ OutcomeFrom(r, m) /\ ArchiveRemembers(m)
  BY <1>2, Fields DEF ItemsKept, OutcomeFrom, ArchiveRemembers
<1>6. OneMore(r, m, e)
  BY <1>1, <1>2, Fields DEF OneMore
<1>7. QED
  BY <1>1, <1>3, <1>4, <1>5, <1>6, LoggedEdit

\* A message takes the sequence of its own event as its id: it is new.
LEMMA SendGood ==
  ASSUME NEW P, NEW C, NEW r, GoodRecord(P, C, r)
  PROVE  StillGood(P, C, r, ApplySend(r))
<1>1. PICK m, e, w, q :
        /\ m = ApplySend(r)
        /\ e = [seq |-> r.next, rev |-> r.generation, kind |-> "message_queued",
                item |-> r.next, from |-> NoValue, to |-> NoValue]
        /\ w = [id |-> r.next, status |-> "pending"]
        /\ q = Append(r.queue, w)
  OBVIOUS
<1>2. w \in WorkItem /\ e \in Event
  BY <1>1, Fields DEF WorkItem, QueueStatus, Event, EventKind, EventLabel
<1>3. PICK n \in Nat : n = Len(r.queue) /\ DOMAIN r.queue = 1 .. n
  BY Fields
<1>4. /\ q \in Seq(WorkItem) /\ DOMAIN q = 1 .. n + 1
      /\ q[n + 1] = w
      /\ \A i \in 1 .. n : q[i] = r.queue[i]
  BY <1>1, <1>2, <1>3, Fields
<1>5. m = [mode |-> r.mode, config |-> r.config, parent |-> r.parent, state |-> r.state,
           archivedFrom |-> r.archivedFrom, generation |-> r.generation, queue |-> q,
           events |-> Append(r.events, e), next |-> r.next + 1]
  <2>1. PICK o : o = [r EXCEPT !.queue = q]
    OBVIOUS
  <2>2. o = [mode |-> r.mode, config |-> r.config, parent |-> r.parent, state |-> r.state,
             archivedFrom |-> r.archivedFrom, generation |-> r.generation, queue |-> q,
             events |-> r.events, next |-> r.next]
    <3>1. r \in Record(P, C)
      BY Fields
    <3>2. QED
      BY <2>1, <3>1 DEF Record
  <2>3. m = Emit(o, r.generation, "message_queued", r.next, NoValue, NoValue)
    BY <1>1, <2>1 DEF ApplySend
  <2>4. o \in Record(P, C)
    BY <1>4, <2>2, Fields, Built
  <2>5. m = [mode |-> o.mode, config |-> o.config, parent |-> o.parent, state |-> o.state,
             archivedFrom |-> o.archivedFrom, generation |-> o.generation, queue |-> o.queue,
             events |-> Append(o.events, [seq |-> o.next, rev |-> r.generation,
                                          kind |-> "message_queued", item |-> r.next,
                                          from |-> NoValue, to |-> NoValue]),
             next |-> o.next + 1]
    BY <2>3, <2>4, EmitShape
  <2>6. QED
    BY <1>1, <2>2, <2>5
<1>6. m \in Record(P, C)
  <2>1. Append(r.events, e) \in Seq(Event) /\ r.next + 1 \in Nat \ {0}
    BY <1>2, Fields
  <2>2. QED
    BY <2>1, <1>4, <1>5, Fields, Built
<1>7. OutcomeFrom(r, m) /\ ArchiveRemembers(m)
  BY <1>5, Fields DEF OutcomeFrom, ArchiveRemembers
<1>8. OneMore(r, m, e)
  BY <1>1, <1>5, Fields DEF OneMore
<1>9. /\ LogDense(m) /\ RevisionsOrdered(m) /\ LogKept(r, m)
      /\ \E k \in DOMAIN m.events : m.events[k] = e
  BY <1>2, <1>6, <1>8, OneMoreLog
<1>10. OutcomeWitnessed(m)
  BY <1>7, <1>9, OutcomeKept DEF GoodRecord
<1>11. ASSUME NEW i \in 1 .. n
       PROVE  /\ m.queue[i] = r.queue[i] /\ i \in DOMAIN r.queue
              /\ m.queue[i].id \in Nat /\ m.queue[i].id < r.next
  <2>1. i \in DOMAIN r.queue /\ m.queue[i] = r.queue[i]
    BY <1>3, <1>4, <1>5
  <2>2. r.queue[i] \in WorkItem
    BY <2>1, Fields
  <2>3. r.queue[i].id < r.next
    BY <2>1 DEF GoodRecord, WellFormed, ItemsDistinct
  <2>4. QED
    BY <2>1, <2>2, <2>3 DEF WorkItem
<1>12. m.queue[n + 1].id = r.next /\ DOMAIN m.queue = 1 .. n + 1 /\ m.next = r.next + 1
  BY <1>1, <1>4, <1>5
<1>13. ItemsDistinct(m)
  <2>1. r.next \in Nat
    BY Fields
  <2>2. ASSUME NEW i \in DOMAIN m.queue PROVE m.queue[i].id < m.next
    <3>1. CASE i = n + 1
      BY <3>1, <2>1, <1>12
    <3>2. CASE i # n + 1
      <4>1. i \in 1 .. n
        BY <3>2, <1>3, <1>12
      <4>2. QED
        BY <4>1, <2>1, <1>11, <1>12
    <3>3. QED
      BY <3>1, <3>2
  <2>3. ASSUME NEW i \in DOMAIN m.queue, NEW j \in DOMAIN m.queue, m.queue[i].id = m.queue[j].id
        PROVE  i = j
    <3>1. CASE i \in 1 .. n /\ j \in 1 .. n
      <4>1. /\ i \in DOMAIN r.queue /\ j \in DOMAIN r.queue
            /\ r.queue[i].id = r.queue[j].id
        BY <3>1, <2>3, <1>11
      <4>2. QED
        BY <4>1 DEF GoodRecord, WellFormed, ItemsDistinct
    <3>2. CASE i \in 1 .. n /\ j = n + 1
      BY <3>2, <2>1, <2>3, <1>11, <1>12
    <3>3. CASE i = n + 1 /\ j \in 1 .. n
      BY <3>3, <2>1, <2>3, <1>11, <1>12
    <3>4. QED
      BY <3>1, <3>2, <3>3, <1>3, <1>12
  <2>4. QED
    BY <2>2, <2>3 DEF ItemsDistinct
<1>14. ItemsAnnounced(m)
  <2>1. ASSUME NEW i \in DOMAIN m.queue, m.queue[i].id > 0
        PROVE  \E k \in DOMAIN m.events :
                 m.events[k].kind = "message_queued" /\ m.events[k].item = m.queue[i].id
    <3>1. CASE i = n + 1
      BY <3>1, <1>1, <1>9, <1>12
    <3>2. CASE i # n + 1
      <4>1. i \in 1 .. n
        BY <3>2, <1>3, <1>12
      <4>2. i \in DOMAIN r.queue /\ m.queue[i] = r.queue[i] /\ r.queue[i].id > 0
        BY <4>1, <2>1, <1>11
      <4>3. PICK k \in DOMAIN r.events :
              r.events[k].kind = "message_queued" /\ r.events[k].item = r.queue[i].id
        BY <4>2 DEF GoodRecord, WellFormed, ItemsAnnounced
      <4>4. QED
        BY <4>2, <4>3, <1>9 DEF LogKept
    <3>3. QED
      BY <3>1, <3>2
  <2>2. QED
    BY <2>1 DEF ItemsAnnounced
<1>15. HasWork(m)
  BY <1>3, <1>12 DEF HasWork
<1>16. QED
  BY <1>1, <1>6, <1>7, <1>9, <1>10, <1>13, <1>14, <1>15 DEF GoodRecord, WellFormed, StillGood

-----------------------------------------------------------------------------
(* The execution side.                                                     *)

\* A new queue status and state, without an event.
LEMMA StatusGood ==
  ASSUME NEW P, NEW C, NEW r, GoodRecord(P, C, r), NEW q, MarkedWell(r.queue, q),
         NEW s \in State, s \in {"completed", "failed"} => s = r.state,
         s = "archived" => r.state = "archived",
         NEW m, m = [r EXCEPT !.queue = q, !.state = s]
  PROVE  StillGood(P, C, r, m)
<1>1. m = [mode |-> r.mode, config |-> r.config, parent |-> r.parent, state |-> s,
           archivedFrom |-> r.archivedFrom, generation |-> r.generation, queue |-> q,
           events |-> r.events, next |-> r.next]
  <2>1. r \in Record(P, C)
    BY Fields
  <2>2. QED
    BY <2>1 DEF Record
<1>2. m \in Record(P, C)
  <2>1. q \in Seq(WorkItem)
    BY DEF MarkedWell
  <2>2. /\ r.mode \in Mode /\ r.config \in C /\ r.parent \in P \cup {NoValue}
        /\ r.archivedFrom \in State \cup {NoValue}
        /\ r.generation \in Nat /\ r.events \in Seq(Event) /\ r.next \in Nat \ {0}
    BY Fields
  <2>3. QED
    BY <2>1, <2>2, <1>1 DEF Record
<1>3. ItemsKept(r, m)
  BY <1>1 DEF ItemsKept, MarkedWell
<1>4. OutcomeFrom(r, m)
  BY <1>1 DEF OutcomeFrom
<1>5. ArchiveRemembers(m)
  BY <1>1, Fields DEF ArchiveRemembers
<1>6. m.events = r.events /\ m.next = r.next /\ m.generation = r.generation
  BY <1>1
<1>7. QED
  BY <1>2, <1>3, <1>4, <1>5, <1>6, QuietEdit

LEMMA ClaimGood ==
  ASSUME NEW P, NEW C, NEW r, GoodRecord(P, C, r), NEW id
  PROVE  StillGood(P, C, r, ClaimItem(r, id))
<1>1. PICK q : q = SetStatus(r.queue, id, "running")
  OBVIOUS
<1>2. MarkedWell(r.queue, q)
  BY <1>1, Fields, SetStatusShape DEF QueueStatus
<1>3. ClaimItem(r, id) = [r EXCEPT !.queue = q, !.state = "running"]
  BY <1>1 DEF ClaimItem
<1>4. "running" \in State
  BY DEF State
<1>5. QED
  BY <1>2, <1>3, <1>4, StatusGood

LEMMA MarkFirstGood ==
  ASSUME NEW P, NEW C, NEW r, GoodRecord(P, C, r)
  PROVE  StillGood(P, C, r, MarkFirstRunning(r))
<1>1. PICK q : q = SetFirst(r.queue, "running")
  OBVIOUS
<1>2. MarkedWell(r.queue, q)
  BY <1>1, Fields, SetFirstShape DEF QueueStatus
<1>3. CASE r.queue = <<>>
  BY <1>3 DEF MarkFirstRunning, StillGood
<1>4. CASE r.queue # <<>>
  <2>1. MarkFirstRunning(r) = [r EXCEPT !.queue = q, !.state = "running"]
    BY <1>1, <1>4 DEF MarkFirstRunning
  <2>2. QED
    BY <1>2, <2>1, StatusGood DEF State
<1>5. QED
  BY <1>3, <1>4

\* A denial cancels an item and leaves the state alone.
LEMMA CancelItemGood ==
  ASSUME NEW P, NEW C, NEW r, GoodRecord(P, C, r), NEW id
  PROVE  StillGood(P, C, r, [r EXCEPT !.queue = SetStatus(@, id, "cancelled")])
<1>1. PICK q : q = SetStatus(r.queue, id, "cancelled")
  OBVIOUS
<1>2. MarkedWell(r.queue, q)
  BY <1>1, Fields, SetStatusShape DEF QueueStatus
<1>3. [r EXCEPT !.queue = q] = [r EXCEPT !.queue = q, !.state = r.state]
  <2>1. r \in Record(P, C)
    BY Fields
  <2>2. QED
    BY <2>1 DEF Record
<1>4. PICK m : m = [r EXCEPT !.queue = q, !.state = r.state]
  OBVIOUS
<1>5. StillGood(P, C, r, m)
  BY <1>2, <1>4, Fields, StatusGood
<1>6. QED
  BY <1>1, <1>3, <1>4, <1>5

\* The same record in the state that a restart reconciles it to.
LEMMA ReconciledGood ==
  ASSUME NEW P, NEW C, NEW r, GoodRecord(P, C, r)
  PROVE  StillGood(P, C, r, [r EXCEPT !.state = StateAfterRestart(@)])
<1>1. PICK s : s = StateAfterRestart(r.state)
  OBVIOUS
<1>2. s \in State /\ (s # r.state => s = "interrupted")
  BY <1>1, Fields DEF StateAfterRestart, State
<1>3. [r EXCEPT !.state = s] = [r EXCEPT !.queue = r.queue, !.state = s]
  <2>1. r \in Record(P, C)
    BY Fields
  <2>2. QED
    BY <2>1 DEF Record
<1>4. MarkedWell(r.queue, r.queue)
  BY Fields DEF MarkedWell
<1>5. PICK m : m = [r EXCEPT !.queue = r.queue, !.state = s]
  OBVIOUS
<1>6. s \in {"completed", "failed"} => s = r.state
  BY <1>2
<1>7. s = "archived" => r.state = "archived"
  BY <1>2
<1>8. StillGood(P, C, r, m)
  BY <1>2, <1>4, <1>5, <1>6, <1>7, StatusGood
<1>9. QED
  BY <1>1, <1>3, <1>5, <1>8

WorkEvent(r, item, from, to) ==
  [seq |-> r.next, rev |-> r.generation + 1, kind |-> "work", item |-> item,
   from |-> from, to |-> to]

\* A record of nine fields with another state, or with another generation.
LEMMA OtherState ==
  ASSUME NEW mode, NEW config, NEW parent, NEW state, NEW from, NEW gen, NEW queue,
         NEW events, NEW next, NEW s, NEW v,
         v = [mode |-> mode, config |-> config, parent |-> parent, state |-> state,
              archivedFrom |-> from, generation |-> gen, queue |-> queue, events |-> events,
              next |-> next]
  PROVE  [v EXCEPT !.state = s] =
           [mode |-> mode, config |-> config, parent |-> parent, state |-> s,
            archivedFrom |-> from, generation |-> gen, queue |-> queue, events |-> events,
            next |-> next]
OBVIOUS

LEMMA OtherGeneration ==
  ASSUME NEW mode, NEW config, NEW parent, NEW state, NEW from, NEW gen, NEW queue,
         NEW events, NEW next, NEW g, NEW v,
         v = [mode |-> mode, config |-> config, parent |-> parent, state |-> state,
              archivedFrom |-> from, generation |-> gen, queue |-> queue, events |-> events,
              next |-> next]
  PROVE  [v EXCEPT !.generation = g] =
           [mode |-> mode, config |-> config, parent |-> parent, state |-> state,
            archivedFrom |-> from, generation |-> g, queue |-> queue, events |-> events,
            next |-> next]
OBVIOUS

\* append_revision adds one event and takes one generation.
LEMMA RevisionShape ==
  ASSUME NEW P, NEW C, NEW r \in Record(P, C), NEW item, NEW from, NEW to
  PROVE  AppendRevision(r, item, from, to) =
           [mode |-> r.mode, config |-> r.config, parent |-> r.parent, state |-> r.state,
            archivedFrom |-> r.archivedFrom, generation |-> r.generation + 1,
            queue |-> r.queue, events |-> Append(r.events, WorkEvent(r, item, from, to)),
            next |-> r.next + 1]
<1>1. PICK o, g, e : /\ o = Emit(r, r.generation + 1, "work", item, from, to)
                     /\ g = r.generation + 1
                     /\ e = WorkEvent(r, item, from, to)
  OBVIOUS
<1>2. PICK es, nx, a1, a2, a3, a4, a5, a6, a7 :
        /\ es = Append(r.events, e) /\ nx = r.next + 1 /\ a1 = r.mode /\ a2 = r.config
        /\ a3 = r.parent /\ a4 = r.state /\ a5 = r.archivedFrom /\ a6 = r.generation
        /\ a7 = r.queue
  OBVIOUS
<1>3. o = [mode |-> r.mode, config |-> r.config, parent |-> r.parent, state |-> r.state,
           archivedFrom |-> r.archivedFrom, generation |-> r.generation, queue |-> r.queue,
           events |-> Append(r.events, e), next |-> r.next + 1]
  BY <1>1, EmitShape DEF WorkEvent
<1>4. AppendRevision(r, item, from, to) = [o EXCEPT !.generation = g]
  <2>1. o.generation = r.generation
    BY <1>3
  <2>2. AppendRevision(r, item, from, to) = [o EXCEPT !.generation = o.generation + 1]
    BY <1>1 DEF AppendRevision
  <2>3. QED
    BY <1>1, <2>1, <2>2
<1>5. [o EXCEPT !.generation = g] =
        [mode |-> r.mode, config |-> r.config, parent |-> r.parent, state |-> r.state,
         archivedFrom |-> r.archivedFrom, generation |-> g, queue |-> r.queue,
         events |-> Append(r.events, e), next |-> r.next + 1]
  <2>1. o = [mode |-> a1, config |-> a2, parent |-> a3, state |-> a4, archivedFrom |-> a5,
             generation |-> a6, queue |-> a7, events |-> es, next |-> nx]
    BY <1>3, <1>2
  <2>2. [o EXCEPT !.generation = g] =
          [mode |-> a1, config |-> a2, parent |-> a3, state |-> a4, archivedFrom |-> a5,
           generation |-> g, queue |-> a7, events |-> es, next |-> nx]
    BY <2>1, OtherGeneration
  <2>3. QED
    BY <2>2, <1>2
<1>6. QED
  BY <1>1, <1>4, <1>5

\* A record with a work event, other item statuses and another state, which
\* claims an outcome only if the event is that outcome.
LEMMA RevisionGood ==
  ASSUME NEW P, NEW C, NEW r, GoodRecord(P, C, r), NEW q, MarkedWell(r.queue, q),
         NEW item \in Nat \cup {NoItem}, NEW from \in EventLabel, NEW to \in EventLabel,
         NEW s \in State \ {"archived"}, s \in {"completed", "failed"} => to = s,
         NEW m,
         m = [mode |-> r.mode, config |-> r.config, parent |-> r.parent, state |-> s,
              archivedFrom |-> r.archivedFrom, generation |-> r.generation + 1, queue |-> q,
              events |-> Append(r.events, WorkEvent(r, item, from, to)), next |-> r.next + 1]
  PROVE  StillGood(P, C, r, m)
<1>1. PICK e : e = WorkEvent(r, item, from, to)
  OBVIOUS
<1>2. e \in Event /\ e.kind = "work" /\ e.to = to
  BY <1>1, Fields DEF WorkEvent, Event, EventKind
<1>3. /\ Append(r.events, e) \in Seq(Event) /\ r.next + 1 \in Nat \ {0}
      /\ r.generation + 1 \in Nat
      /\ Append(r.events, e)[Len(r.events) + 1] = e
      /\ Len(r.events) + 1 \in DOMAIN Append(r.events, e)
  BY <1>2, Fields
<1>4. m \in Record(P, C)
  <2>1. q \in Seq(WorkItem)
    BY DEF MarkedWell
  <2>2. /\ r.mode \in Mode /\ r.config \in C /\ r.parent \in P \cup {NoValue}
        /\ r.archivedFrom \in State \cup {NoValue}
    BY Fields
  <2>3. QED
    BY <2>1, <2>2, <1>1, <1>3 DEF Record
<1>5. ItemsKept(r, m)
  BY DEF ItemsKept, MarkedWell
<1>6. OutcomeFrom(r, m)
  <2>1. m.events = Append(r.events, e) /\ m.state = s /\ m.archivedFrom = r.archivedFrom
    BY <1>1
  <2>2. QED
    BY <2>1, <1>2, <1>3 DEF OutcomeFrom
<1>7. ArchiveRemembers(m)
  BY Fields DEF ArchiveRemembers
<1>8. OneMore(r, m, e)
  BY <1>1, Fields DEF OneMore, WorkEvent
<1>9. QED
  BY <1>2, <1>4, <1>5, <1>6, <1>7, <1>8, LoggedEdit

Outcome == {"completed", "failed"}

LEMMA TransitionGood ==
  ASSUME NEW P, NEW C, NEW r, GoodRecord(P, C, r), NEW id \in Nat,
         NEW before \in QueueStatus, NEW o \in Outcome
  PROVE  StillGood(P, C, r, TransitionWork(r, [id |-> id, status |-> before], o))
<1>1. PICK q, v, s, m :
        /\ q = SetStatus(r.queue, id, o)
        /\ v = AppendRevision(r, id, before, o)
        /\ s = IF o = "completed" THEN "completed" ELSE "failed"
        /\ m = TransitionWork(r, [id |-> id, status |-> before], o)
  OBVIOUS
<1>2. MarkedWell(r.queue, q)
  BY <1>1, Fields, SetStatusShape DEF QueueStatus, Outcome
<1>3. v = [mode |-> r.mode, config |-> r.config, parent |-> r.parent, state |-> r.state,
           archivedFrom |-> r.archivedFrom, generation |-> r.generation + 1,
           queue |-> r.queue, events |-> Append(r.events, WorkEvent(r, id, before, o)),
           next |-> r.next + 1]
  <2>1. r \in Record(P, C)
    BY Fields
  <2>2. QED
    BY <1>1, <2>1, RevisionShape
<1>4. m = [v EXCEPT !.state = s, !.queue = q]
  <2>1. m = [v EXCEPT !.state = s, !.queue = SetStatus(v.queue, id, o)]
    BY <1>1 DEF TransitionWork
  <2>2. v.queue = r.queue
    BY <1>3
  <2>3. QED
    BY <1>1, <2>1, <2>2
<1>5. m = [mode |-> r.mode, config |-> r.config, parent |-> r.parent, state |-> s,
           archivedFrom |-> r.archivedFrom, generation |-> r.generation + 1, queue |-> q,
           events |-> Append(r.events, WorkEvent(r, id, before, o)), next |-> r.next + 1]
  BY <1>3, <1>4
<1>6. s \in State \ {"archived"} /\ (s \in {"completed", "failed"} => o = s)
  BY <1>1 DEF State, Outcome
<1>7. o \in EventLabel /\ before \in EventLabel /\ id \in Nat \cup {NoItem}
  BY DEF EventLabel, QueueStatus, Outcome
<1>8. QED
  BY <1>1, <1>2, <1>5, <1>6, <1>7, RevisionGood

\* What follows when append_revision is applied to a copy with another queue
\* and another state.
LEMMA RevisedGood ==
  ASSUME NEW P, NEW C, NEW r, GoodRecord(P, C, r), NEW q, MarkedWell(r.queue, q),
         NEW item \in Nat \cup {NoItem}, NEW from \in EventLabel, NEW to \in EventLabel,
         NEW t \in State, NEW s \in State \ {"archived"},
         s \in {"completed", "failed"} => to = s
  PROVE  StillGood(P, C, r, [AppendRevision([r EXCEPT !.queue = q, !.state = t], item, from, to)
                             EXCEPT !.state = s])
<1>1. PICK n, v, m : /\ n = [r EXCEPT !.queue = q, !.state = t]
                     /\ v = AppendRevision(n, item, from, to)
                     /\ m = [v EXCEPT !.state = s]
  OBVIOUS
<1>2. n = [mode |-> r.mode, config |-> r.config, parent |-> r.parent, state |-> t,
           archivedFrom |-> r.archivedFrom, generation |-> r.generation, queue |-> q,
           events |-> r.events, next |-> r.next]
  <2>1. r \in Record(P, C)
    BY Fields
  <2>2. QED
    BY <1>1, <2>1 DEF Record
<1>3. n \in Record(P, C)
  <2>1. q \in Seq(WorkItem)
    BY DEF MarkedWell
  <2>2. /\ r.mode \in Mode /\ r.config \in C /\ r.parent \in P \cup {NoValue}
        /\ r.archivedFrom \in State \cup {NoValue}
        /\ r.generation \in Nat /\ r.events \in Seq(Event) /\ r.next \in Nat \ {0}
    BY Fields
  <2>3. QED
    BY <2>1, <2>2, <1>2 DEF Record
<1>4. WorkEvent(n, item, from, to) = WorkEvent(r, item, from, to)
  BY <1>2 DEF WorkEvent
<1>5. v = [mode |-> n.mode, config |-> n.config, parent |-> n.parent, state |-> n.state,
           archivedFrom |-> n.archivedFrom, generation |-> n.generation + 1,
           queue |-> n.queue, events |-> Append(n.events, WorkEvent(n, item, from, to)),
           next |-> n.next + 1]
  BY <1>1, <1>3, RevisionShape
<1>6. m = [mode |-> r.mode, config |-> r.config, parent |-> r.parent, state |-> s,
           archivedFrom |-> r.archivedFrom, generation |-> r.generation + 1, queue |-> q,
           events |-> Append(r.events, WorkEvent(r, item, from, to)), next |-> r.next + 1]
  <2>1. v = [mode |-> r.mode, config |-> r.config, parent |-> r.parent, state |-> t,
             archivedFrom |-> r.archivedFrom, generation |-> r.generation + 1, queue |-> q,
             events |-> Append(r.events, WorkEvent(r, item, from, to)), next |-> r.next + 1]
    BY <1>2, <1>4, <1>5
  <2>2. m = [v EXCEPT !.state = s]
    BY <1>1
  <2>3. QED
    BY <2>1, <2>2, OtherState
<1>7. StillGood(P, C, r, m)
  BY <1>6, RevisionGood
<1>8. m = [AppendRevision([r EXCEPT !.queue = q, !.state = t], item, from, to)
             EXCEPT !.state = s]
  BY <1>1
<1>9. QED
  BY <1>7, <1>8

LEMMA FinishGood ==
  ASSUME NEW P, NEW C, NEW r, GoodRecord(P, C, r), r.queue # <<>>, NEW o \in Outcome
  PROVE  StillGood(P, C, r, FinishControl(r, o))
<1>1. PICK q, w : q = SetFirst(r.queue, o) /\ w = r.queue[1]
  OBVIOUS
<1>2. MarkedWell(r.queue, q)
  BY <1>1, Fields, SetFirstShape DEF QueueStatus, Outcome
<1>3. w \in WorkItem
  <2>1. r.queue \in Seq(WorkItem)
    BY Fields
  <2>2. QED
    BY <1>1, <2>1
<1>4. /\ w.id \in Nat \cup {NoItem} /\ w.status \in EventLabel /\ o \in EventLabel
      /\ o \in State \ {"archived"}
  BY <1>3 DEF WorkItem, EventLabel, QueueStatus, State, Outcome
<1>5. [r EXCEPT !.queue = q] = [r EXCEPT !.queue = q, !.state = r.state]
  <2>1. r \in Record(P, C)
    BY Fields
  <2>2. QED
    BY <2>1 DEF Record
<1>6. FinishControl(r, o) =
        [AppendRevision([r EXCEPT !.queue = q, !.state = r.state], w.id, w.status, o)
           EXCEPT !.state = o]
  <2>1. FinishControl(r, o) =
          [AppendRevision([r EXCEPT !.queue = q], w.id, w.status, o) EXCEPT !.state = o]
    BY <1>1 DEF FinishControl
  <2>2. QED
    BY <1>5, <2>1
<1>7. r.state \in State
  BY Fields
<1>8. PICK item, from, t : item = w.id /\ from = w.status /\ t = r.state
  OBVIOUS
<1>9. StillGood(P, C, r, [AppendRevision([r EXCEPT !.queue = q, !.state = t], item, from, o)
                          EXCEPT !.state = o])
  BY <1>2, <1>4, <1>7, <1>8, RevisedGood
<1>10. QED
  BY <1>6, <1>8, <1>9

\* The two approval transitions of the library.
LEMMA ApprovalGood ==
  ASSUME NEW P, NEW C, NEW r, GoodRecord(P, C, r), NEW id \in Nat
  PROVE  StillGood(P, C, r, AwaitApproval(r, id)) /\ StillGood(P, C, r, ResumeApproval(r, id))
<1>1. ASSUME NEW a \in {"running", "awaiting_approval"}, NEW b \in {"running", "awaiting_approval"},
             NEW m, m = AppendRevision([r EXCEPT !.queue = SetStatus(@, id, b), !.state = b],
                                       id, a, b)
      PROVE  StillGood(P, C, r, m)
  <2>1. PICK q, v : /\ q = SetStatus(r.queue, id, b)
                    /\ v = AppendRevision([r EXCEPT !.queue = q, !.state = b], id, a, b)
    OBVIOUS
  <2>2. MarkedWell(r.queue, q)
    BY <2>1, Fields, SetStatusShape DEF QueueStatus
  <2>3. PICK n : n = [r EXCEPT !.queue = q, !.state = b]
    OBVIOUS
  <2>4. n = [mode |-> r.mode, config |-> r.config, parent |-> r.parent, state |-> b,
             archivedFrom |-> r.archivedFrom, generation |-> r.generation, queue |-> q,
             events |-> r.events, next |-> r.next]
    <3>1. r \in Record(P, C)
      BY Fields
    <3>2. QED
      BY <2>3, <3>1 DEF Record
  <2>5. n \in Record(P, C)
    <3>1. q \in Seq(WorkItem) /\ b \in State
      BY <2>2 DEF MarkedWell, State
    <3>2. /\ r.mode \in Mode /\ r.config \in C /\ r.parent \in P \cup {NoValue}
          /\ r.archivedFrom \in State \cup {NoValue}
          /\ r.generation \in Nat /\ r.events \in Seq(Event) /\ r.next \in Nat \ {0}
      BY Fields
    <3>3. QED
      BY <3>1, <3>2, <2>4 DEF Record
  <2>6. WorkEvent(n, id, a, b) = WorkEvent(r, id, a, b)
    BY <2>4 DEF WorkEvent
  <2>7. v = [mode |-> n.mode, config |-> n.config, parent |-> n.parent, state |-> n.state,
             archivedFrom |-> n.archivedFrom, generation |-> n.generation + 1,
             queue |-> n.queue, events |-> Append(n.events, WorkEvent(n, id, a, b)),
             next |-> n.next + 1]
    <3>1. v = AppendRevision(n, id, a, b)
      BY <2>1, <2>3
    <3>2. QED
      BY <3>1, <2>5, RevisionShape
  <2>8. v = [mode |-> r.mode, config |-> r.config, parent |-> r.parent, state |-> b,
             archivedFrom |-> r.archivedFrom, generation |-> r.generation + 1, queue |-> q,
             events |-> Append(r.events, WorkEvent(r, id, a, b)), next |-> r.next + 1]
    BY <2>4, <2>6, <2>7
  <2>9. /\ a \in EventLabel /\ b \in EventLabel /\ id \in Nat \cup {NoItem}
        /\ b \in State \ {"archived"} /\ (b \in {"completed", "failed"} => b = b)
    BY DEF EventLabel, QueueStatus, State
  <2>10. StillGood(P, C, r, v)
    BY <2>2, <2>8, <2>9, RevisionGood
  <2>11. m = v
    BY <1>1, <2>1
  <2>12. QED
    BY <2>10, <2>11
<1>2. StillGood(P, C, r, AwaitApproval(r, id))
  BY <1>1 DEF AwaitApproval, StillGood
<1>3. StillGood(P, C, r, ResumeApproval(r, id))
  BY <1>1 DEF ResumeApproval, StillGood
<1>4. QED
  BY <1>2, <1>3
=============================================================================
