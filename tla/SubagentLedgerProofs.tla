------------------------ MODULE SubagentLedgerProofs ------------------------
(***************************************************************************)
(* Proofs about the ledger of a session, for every capacity, every set of  *)
(* ids and every length of behaviour; and about what a child may do, for   *)
(* every set of tools and children and every depth of delegation.          *)
(***************************************************************************)
EXTENDS MCSubagentLedger, SequenceTheorems, TLAPS

\* Every approval envelope ever sent belongs to a request that is registered:
\* what makes a second registration of the same request a replay.
SentRegistered ==
  \A i \in DOMAIN sent : sent[i].kind = "approval" => Registered(ledger, sent[i].op)

IInv ==
  /\ TypeOK
  /\ WindowDense(ledger)
  /\ WindowIsSuffix
  /\ SentRegistered
  /\ RegisteredOnce

\* m is the well-formed ledger that results from delivering d on l.
Delivered(l, m, d) ==
  /\ m \in LedgerType
  /\ WindowDense(m)
  /\ m.next = l.next + 1
  /\ m.approvals = l.approvals
  /\ m.deliveries # <<>>
  /\ m.deliveries[Len(m.deliveries)] = d
  /\ m.evicted \in {l.evicted, l.evicted + 1}
  /\ \A i \in 1 .. Len(m.deliveries) - 1 :
       /\ i + m.evicted - l.evicted \in DOMAIN l.deliveries
       /\ m.deliveries[i] = l.deliveries[i + m.evicted - l.evicted]

-----------------------------------------------------------------------------
(* A window: a sequence whose members are numbered from e + 1 on.          *)
Numbered(ds, e) == \A i \in DOMAIN ds : ds[i].seq = e + i

\* Appending the next number keeps a window a window.
LEMMA AppendWindow ==
  ASSUME NEW S, NEW ds \in Seq(S), NEW e \in Nat, NEW d \in S,
         Numbered(ds, e), d.seq = e + Len(ds) + 1
  PROVE  Numbered(Append(ds, d), e)
<1> DEFINE longer == Append(ds, d)
<1>1. /\ longer \in Seq(S) /\ Len(longer) = Len(ds) + 1
      /\ longer[Len(ds) + 1] = d
      /\ \A i \in 1 .. Len(ds) : longer[i] = ds[i]
  OBVIOUS
<1>2. ASSUME NEW i \in DOMAIN longer PROVE longer[i].seq = e + i
  <2>1. CASE i = Len(ds) + 1
    BY <2>1, <1>1
  <2>2. CASE i # Len(ds) + 1
    <3>1. i \in 1 .. Len(ds) /\ i \in DOMAIN ds
      BY <2>2, <1>1
    <3>2. longer[i] = ds[i]
      BY <3>1, <1>1
    <3>3. ds[i].seq = e + i
      BY <3>1 DEF Numbered
    <3>4. QED
      BY <3>2, <3>3
  <2>3. QED
    BY <2>1, <2>2
<1>3. QED
  BY <1>2 DEF Numbered

\* Dropping the oldest member of a window moves its start by one.
LEMMA TailWindow ==
  ASSUME NEW S, NEW longer \in Seq(S), NEW e \in Nat, Numbered(longer, e), Len(longer) > 0
  PROVE  Numbered(Tail(longer), e + 1) /\ Head(longer).seq = e + 1
<1> DEFINE rest == Tail(longer)
<1>1. /\ rest \in Seq(S) /\ Len(rest) = Len(longer) - 1 /\ longer # <<>>
      /\ \A i \in 1 .. Len(rest) : rest[i] = longer[i + 1] /\ i + 1 \in DOMAIN longer
  OBVIOUS
<1>2. ASSUME NEW i \in DOMAIN rest PROVE rest[i].seq = e + 1 + i
  <2>1. i \in 1 .. Len(rest) /\ i \in Nat
    BY <1>1
  <2>2. rest[i] = longer[i + 1] /\ longer[i + 1].seq = e + (i + 1)
    BY <2>1, <1>1 DEF Numbered
  <2>3. QED
    BY <2>1, <2>2
<1>3. Head(longer) = longer[1] /\ 1 \in DOMAIN longer
  BY <1>1
<1>4. QED
  BY <1>2, <1>3 DEF Numbered

(* Deliver appends exactly one delivery at the end of the window, which    *)
(* stays dense, and drops at most the oldest one.                          *)
LEMMA DeliverWindow ==
  ASSUME NEW l \in LedgerType, WindowDense(l),
         NEW t \in Targets, NEW k \in DeliveryKind,
         NEW w \in Refs \cup {NoRef}, NEW o \in Refs \cup {NoRef}
  PROVE  Delivered(l, Deliver(l, t, k, w, o), NewDelivery(l, t, k, w, o))
<1>1. PICK ds, e, n, d, longer, m :
        /\ ds = l.deliveries /\ e = l.evicted /\ n = Len(ds)
        /\ d = NewDelivery(l, t, k, w, o)
        /\ longer = Append(ds, d)
        /\ m = Deliver(l, t, k, w, o)
  OBVIOUS
<1>2. /\ ds \in Seq(Delivery(Targets, Refs)) /\ e \in Nat /\ n \in Nat
      /\ l.next = e + n + 1 /\ n <= MaxDeliveries /\ MaxDeliveries \in Nat \ {0}
      /\ Numbered(ds, e)
  BY <1>1, CapacityAssumption DEF WindowDense, LedgerType, Numbered
<1>3. d \in Delivery(Targets, Refs) /\ d.seq = e + n + 1
  BY <1>1, <1>2 DEF LedgerType, Delivery, NewDelivery
<1>4. /\ longer \in Seq(Delivery(Targets, Refs)) /\ Len(longer) = n + 1
      /\ longer[n + 1] = d
      /\ \A i \in 1 .. n : longer[i] = ds[i]
      /\ Numbered(longer, e)
  <2>1. d.seq = e + Len(ds) + 1 /\ longer = Append(ds, d)
    BY <1>1, <1>3
  <2>2. /\ longer \in Seq(Delivery(Targets, Refs)) /\ Len(longer) = Len(ds) + 1
        /\ longer[Len(ds) + 1] = d
        /\ \A i \in 1 .. Len(ds) : longer[i] = ds[i]
        /\ Numbered(longer, e)
    <3>1. /\ longer \in Seq(Delivery(Targets, Refs)) /\ Len(longer) = Len(ds) + 1
          /\ longer[Len(ds) + 1] = d
          /\ \A i \in 1 .. Len(ds) : longer[i] = ds[i]
      BY <2>1, <1>2, <1>3
    <3>2. Numbered(longer, e)
      BY <2>1, <1>2, <1>3, AppendWindow
    <3>3. QED
      BY <3>1, <3>2
  <2>3. QED
    BY <2>2, <1>1
<1>5. CASE n + 1 > MaxDeliveries
  <2>1. PICK rest : rest = Tail(longer)
    OBVIOUS
  <2>2. /\ rest \in Seq(Delivery(Targets, Refs)) /\ Len(rest) = n
        /\ \A i \in 1 .. n : rest[i] = longer[i + 1]
        /\ Numbered(rest, e + 1)
        /\ Head(longer).seq = e + 1
    <3>1. Len(longer) > 0
      BY <1>2, <1>4
    <3>2. /\ rest \in Seq(Delivery(Targets, Refs)) /\ Len(rest) = Len(longer) - 1
          /\ \A i \in 1 .. Len(rest) : rest[i] = longer[i + 1] /\ i + 1 \in DOMAIN longer
          /\ Numbered(rest, e + 1)
          /\ Head(longer).seq = e + 1
      <4>1. /\ rest \in Seq(Delivery(Targets, Refs)) /\ Len(rest) = Len(longer) - 1
            /\ \A i \in 1 .. Len(rest) : rest[i] = longer[i + 1] /\ i + 1 \in DOMAIN longer
        BY <3>1, <2>1, <1>4
      <4>2. Numbered(rest, e + 1) /\ Head(longer).seq = e + 1
        BY <3>1, <2>1, <1>2, <1>4, TailWindow
      <4>3. QED
        BY <4>1, <4>2
    <3>3. Len(rest) = n
      BY <3>2, <1>2, <1>4
    <3>4. QED
      BY <3>2, <3>3
  <2>3. m = [gen |-> l.gen + 1, next |-> l.next + 1, evicted |-> e + 1,
             deliveries |-> rest, approvals |-> l.approvals, notes |-> l.notes,
             cursors |-> l.cursors]
    BY <1>1, <1>4, <1>5, <2>1, <2>2 DEF Deliver, LedgerType
  <2>4. m \in LedgerType
    <3>1. rest \in Seq(Delivery(Targets, Refs)) /\ e + 1 \in Nat
      BY <1>2, <2>2
    <3>2. QED
      BY <2>3, <3>1 DEF LedgerType
  <2>5. WindowDense(m)
    <3>1. /\ m.deliveries = rest /\ m.evicted = e + 1 /\ m.next = l.next + 1
          /\ Len(rest) = n
      BY <2>3, <2>2
    <3>2. m.next = m.evicted + Len(rest) + 1
      BY <3>1, <1>2
    <3>3. QED
      BY <3>1, <3>2, <2>2, <1>2 DEF WindowDense, Numbered
  <2>6. rest # <<>> /\ rest[n] = d
    BY <2>2, <1>2, <1>4, <1>5
  <2>7. ASSUME NEW i \in 1 .. n - 1 PROVE i + 1 \in DOMAIN ds /\ rest[i] = ds[i + 1]
    <3>1. i \in 1 .. n /\ i + 1 \in 1 .. n /\ i + 1 \in DOMAIN ds
      BY <1>1, <1>2
    <3>2. rest[i] = longer[i + 1] /\ longer[i + 1] = ds[i + 1]
      BY <3>1, <2>2, <1>4
    <3>3. QED
      BY <3>1, <3>2
  <2>8. ASSUME NEW i \in 1 .. n - 1 PROVE i + (e + 1) - e = i + 1
    BY <1>2
  <2>9. /\ m.next = l.next + 1 /\ m.approvals = l.approvals /\ m.deliveries = rest
        /\ m.evicted = e + 1
    BY <2>3
  <2>10. Delivered(l, m, d)
    <3>1. m.deliveries # <<>> /\ m.deliveries[Len(m.deliveries)] = d
      BY <2>2, <2>6, <2>9
    <3>2. m.evicted \in {l.evicted, l.evicted + 1}
      BY <1>1, <2>9
    <3>3. ASSUME NEW i \in 1 .. Len(m.deliveries) - 1
          PROVE  /\ i + m.evicted - l.evicted \in DOMAIN l.deliveries
                 /\ m.deliveries[i] = l.deliveries[i + m.evicted - l.evicted]
      <4>1. i \in 1 .. n - 1
        BY <2>2, <2>9
      <4>2. i + m.evicted - l.evicted = i + 1
        BY <4>1, <2>8, <2>9, <1>1
      <4>3. QED
        BY <4>1, <4>2, <2>7, <2>9, <1>1
    <3>4. QED
      BY <3>1, <3>2, <3>3, <2>4, <2>5, <2>9 DEF Delivered
  <2>11. QED
    BY <2>10, <1>1
<1>6. CASE ~(n + 1 > MaxDeliveries)
  <2>1. m = [gen |-> l.gen + 1, next |-> l.next + 1, evicted |-> e,
             deliveries |-> longer, approvals |-> l.approvals, notes |-> l.notes,
             cursors |-> l.cursors]
    BY <1>1, <1>4, <1>6 DEF Deliver, LedgerType
  <2>2. m \in LedgerType
    <3>1. longer \in Seq(Delivery(Targets, Refs)) /\ e \in Nat
      BY <1>2, <1>4
    <3>2. QED
      BY <2>1, <3>1 DEF LedgerType
  <2>3. WindowDense(m)
    <3>1. /\ m.deliveries = longer /\ m.evicted = e /\ m.next = l.next + 1
          /\ Len(longer) = n + 1 /\ Numbered(longer, e)
      BY <2>1, <1>4
    <3>2. Len(longer) <= MaxDeliveries /\ m.next = e + Len(longer) + 1
      BY <3>1, <1>2, <1>6
    <3>3. QED
      BY <3>1, <3>2 DEF WindowDense, Numbered
  <2>4. longer # <<>>
    BY <1>2, <1>4
  <2>5. ASSUME NEW i \in 1 .. n
        PROVE  i + e - e = i /\ i \in DOMAIN ds /\ longer[i] = ds[i]
    BY <1>1, <1>2, <1>4
  <2>6. /\ m.next = l.next + 1 /\ m.approvals = l.approvals /\ m.deliveries = longer
        /\ m.evicted = e /\ Len(longer) - 1 = n
    BY <2>1, <1>2, <1>4
  <2>7. Delivered(l, m, d)
    BY <1>1, <1>2, <1>4, <2>2, <2>3, <2>4, <2>5, <2>6 DEF Delivered
  <2>8. QED
    BY <2>7, <1>1
<1>7. QED
  BY <1>5, <1>6, <1>2

-----------------------------------------------------------------------------
(* A step that delivers d keeps the window the end of the history.         *)
LEMMA SuffixGrows ==
  ASSUME TypeOK, WindowDense(ledger), WindowIsSuffix,
         NEW m, NEW d \in Delivery(Targets, Refs), Delivered(ledger, m, d),
         sent' = Append(sent, d), WindowDense(m),
         ledger'.deliveries = m.deliveries, ledger'.evicted = m.evicted,
         ledger'.next = m.next
  PROVE  WindowIsSuffix' /\ WindowDense(ledger)'
<1>1. PICK n, e, ds, ms, f :
        /\ n = Len(sent) /\ e = ledger.evicted /\ ds = ledger.deliveries
        /\ ms = m.deliveries /\ f = m.evicted
  OBVIOUS
<1>2. /\ sent \in Seq(Delivery(Targets, Refs)) /\ n \in Nat /\ e \in Nat
      /\ ds \in Seq(Delivery(Targets, Refs)) /\ n = ledger.next - 1 /\ n = e + Len(ds)
      /\ \A i \in DOMAIN ds : ds[i] = sent[e + i]
      /\ ledger.next \in Nat
  <2>1. ledger.evicted \in Nat /\ ledger.next \in Nat /\ ledger.deliveries \in Seq(Delivery(Targets, Refs))
    BY DEF TypeOK, LedgerType
  <2>2. sent \in Seq(Delivery(Targets, Refs))
    BY DEF TypeOK
  <2>3. n = ledger.next - 1 /\ \A i \in DOMAIN ds : ds[i] = sent[e + i]
    BY <1>1 DEF WindowIsSuffix
  <2>4. ledger.next = e + Len(ds) + 1
    BY <1>1 DEF WindowDense
  <2>5. n \in Nat
    BY <2>2, <1>1
  <2>6. QED
    BY <2>1, <2>2, <2>3, <2>4, <2>5, <1>1
<1>3. /\ ms \in Seq(Delivery(Targets, Refs)) /\ Len(ms) \in Nat
      /\ m.next = n + 2 /\ f \in {e, e + 1} /\ ms # <<>> /\ ms[Len(ms)] = d
      /\ \A i \in 1 .. Len(ms) - 1 : i + f - e \in DOMAIN ds /\ ms[i] = ds[i + f - e]
  <2>1. m.deliveries \in Seq(Delivery(Targets, Refs))
    BY DEF Delivered, LedgerType
  <2>2. Len(ms) \in Nat
    BY <2>1, <1>1
  <2>3. m.next = n + 2
    BY <1>1, <1>2 DEF Delivered
  <2>4. /\ f \in {e, e + 1} /\ ms # <<>> /\ ms[Len(ms)] = d
        /\ \A i \in 1 .. Len(ms) - 1 : i + f - e \in DOMAIN ds /\ ms[i] = ds[i + f - e]
    BY <1>1 DEF Delivered
  <2>5. QED
    BY <2>1, <2>2, <2>3, <2>4, <1>1
<1>4. f \in Nat /\ f + Len(ms) = n + 1
  <2>1. m.next = f + Len(ms) + 1
    BY <1>1 DEF WindowDense
  <2>2. f \in Nat
    BY <1>2, <1>3
  <2>3. n \in Nat /\ Len(ms) \in Nat /\ n + 2 = f + Len(ms) + 1
    BY <2>1, <1>2, <1>3
  <2>4. QED
    BY <2>2, <2>3
<1>5. /\ Len(sent') = n + 1 /\ sent'[n + 1] = d
      /\ \A i \in 1 .. n : sent'[i] = sent[i]
  <2>1. /\ Len(Append(sent, d)) = Len(sent) + 1
        /\ Append(sent, d)[Len(sent) + 1] = d
        /\ \A i \in 1 .. Len(sent) : Append(sent, d)[i] = sent[i]
    BY <1>2
  <2>2. QED
    BY <2>1, <1>1
<1>6. ASSUME NEW i \in DOMAIN ms PROVE ms[i] = sent'[f + i]
  <2>1. i \in 1 .. Len(ms) /\ i \in Nat
    BY <1>3
  <2>2. CASE i = Len(ms)
    BY <2>2, <1>3, <1>4, <1>5
  <2>3. CASE i # Len(ms)
    <3>1. i \in 1 .. Len(ms) - 1
      BY <2>1, <2>3, <1>3
    <3>2. i + f - e \in DOMAIN ds /\ ms[i] = ds[i + f - e]
      BY <3>1, <1>3
    <3>3. ds[i + f - e] = sent[e + (i + f - e)]
      BY <3>2, <1>2
    <3>4. e + (i + f - e) = f + i /\ f + i \in 1 .. n
      <4>1. Len(ms) \in Nat /\ e \in Nat /\ n \in Nat /\ f \in Nat /\ f + Len(ms) = n + 1
        BY <1>2, <1>3, <1>4
      <4>2. QED
        BY <4>1, <2>1, <3>1
    <3>5. QED
      BY <3>2, <3>3, <3>4, <1>5
  <2>4. QED
    BY <2>2, <2>3
<1>7. WindowIsSuffix'
  <2>1. Len(sent') = ledger'.next - 1
    BY <1>2, <1>3, <1>5
  <2>2. QED
    BY <2>1, <1>1, <1>6 DEF WindowIsSuffix
<1>8. QED
  BY <1>7 DEF WindowDense

\* A step that delivers nothing and forgets no request keeps the invariant.
LEMMA QuietStep ==
  ASSUME IInv, ledger' \in LedgerType, sent' = sent,
         ledger'.deliveries = ledger.deliveries, ledger'.evicted = ledger.evicted,
         ledger'.next = ledger.next,
         \A id : Registered(ledger, id) => Registered(ledger', id)
  PROVE  IInv'
<1>1. TypeOK'
  BY DEF IInv, TypeOK
<1>2. WindowDense(ledger)'
  BY DEF IInv, WindowDense
<1>3. WindowIsSuffix'
  BY DEF IInv, WindowIsSuffix
<1>4. SentRegistered'
  BY DEF IInv, SentRegistered
<1>5. RegisteredOnce'
  BY DEF IInv, RegisteredOnce
<1>6. QED
  BY <1>1, <1>2, <1>3, <1>4, <1>5 DEF IInv

\* An approval that keeps its place, its id and its type keeps every
\* registration.
LEMMA SameIds ==
  ASSUME NEW l, NEW m, DOMAIN m.approvals = DOMAIN l.approvals,
         \A i \in DOMAIN l.approvals : m.approvals[i].id = l.approvals[i].id
  PROVE  \A id : Registered(l, id) => Registered(m, id)
BY DEF Registered

\* The position of a registered request.
LEMMA IndexOfRegistered ==
  ASSUME NEW l, NEW id, Registered(l, id)
  PROVE  IndexOf(l, id) \in DOMAIN l.approvals /\ l.approvals[IndexOf(l, id)].id = id
BY DEF Registered, IndexOf

\* In a well-formed ledger the filter of `load` keeps every delivery.
LEMMA ReloadIsIdentity ==
  ASSUME IInv
  PROVE  Reload(ledger) = ledger
<1>1. ASSUME NEW i \in DOMAIN ledger.deliveries
      PROVE  Unevicted(ledger, ledger.deliveries[i])
  <2>1. i \in Nat \ {0} /\ ledger.evicted \in Nat
    BY DEF IInv, TypeOK, LedgerType
  <2>2. ledger.deliveries[i].seq = ledger.evicted + i
    BY DEF IInv, WindowDense
  <2>3. QED
    BY <2>1, <2>2 DEF Unevicted
<1>2. QED
  BY <1>1 DEF Reload

-----------------------------------------------------------------------------
(* Each action keeps the invariant.                                        *)

LEMMA InitInv == Init => IInv
<1> SUFFICES ASSUME Init PROVE IInv
  OBVIOUS
<1>1. ledger = [gen |-> 0, next |-> 1, evicted |-> 0, deliveries |-> <<>>, approvals |-> <<>>,
                notes |-> <<>>, cursors |-> [c \in Consumers |-> 0]] /\ sent = <<>>
  BY DEF Init, EmptyLedger
<1>2. TypeOK
  BY <1>1 DEF TypeOK, LedgerType
<1>3. WindowDense(ledger) /\ WindowIsSuffix
  BY <1>1, CapacityAssumption DEF WindowDense, WindowIsSuffix
<1>4. SentRegistered /\ RegisteredOnce
  BY <1>1 DEF SentRegistered, RegisteredOnce
<1>5. QED
  BY <1>2, <1>3, <1>4 DEF IInv

LEMMA SendInv ==
  ASSUME IInv, NEW t \in Targets, NEW k \in {"message", "milestone"},
         NEW w \in WorkIds \cup {NoRef}, SendDelivery(t, k, w)
  PROVE  IInv'
<1>1. ledger \in LedgerType /\ WindowDense(ledger) /\ TypeOK /\ WindowIsSuffix
  BY DEF IInv, TypeOK
<1>2. PICK d : d = NewDelivery(ledger, t, k, w, NoRef)
  OBVIOUS
<1>3. ledger' = Deliver(ledger, t, k, w, NoRef)
  BY DEF SendDelivery
<1>4. k \in DeliveryKind /\ w \in Refs \cup {NoRef} /\ NoRef \in Refs \cup {NoRef}
  BY DEF DeliveryKind, Refs
<1>5. d \in Delivery(Targets, Refs) /\ d.kind = k
  BY <1>1, <1>2, <1>4 DEF Delivery, NewDelivery, LedgerType
<1>6. Delivered(ledger, ledger', d)
  BY <1>1, <1>2, <1>3, <1>4, DeliverWindow
<1>7. sent' = Append(sent, d)
  <2>1. ledger'.next > ledger.next
    BY <1>1, <1>6 DEF Delivered, LedgerType
  <2>2. ledger'.deliveries[Len(ledger'.deliveries)] = d
    BY <1>6 DEF Delivered
  <2>3. QED
    BY <2>1, <2>2 DEF SendDelivery, Record
<1>8. ledger' \in LedgerType /\ WindowDense(ledger') /\ ledger'.approvals = ledger.approvals
  BY <1>6 DEF Delivered
<1>9. TypeOK'
  BY <1>1, <1>5, <1>7, <1>8 DEF TypeOK
<1>10. WindowIsSuffix' /\ WindowDense(ledger)'
  BY <1>1, <1>5, <1>6, <1>7, <1>8, SuffixGrows
<1>11. SentRegistered' /\ RegisteredOnce'
  <2>1. sent \in Seq(Delivery(Targets, Refs))
    BY <1>1 DEF TypeOK
  <2>2. ASSUME NEW i \in DOMAIN sent', sent'[i].kind = "approval"
        PROVE  i \in DOMAIN sent /\ sent'[i] = sent[i]
    BY <2>1, <2>2, <1>5, <1>7
  <2>3. QED
    BY <2>2, <1>8 DEF SentRegistered, RegisteredOnce, Registered, IInv
<1>12. QED
  BY <1>9, <1>10, <1>11 DEF IInv

LEMMA RegisterInv ==
  ASSUME IInv, NEW i \in Requests, NEW p \in Prints, NEW c \in Children,
         NEW w \in WorkIds \cup {NoRef}, NEW g \in BOOLEAN, NEW t \in Targets,
         Register(i, p, c, w, g, t)
  PROVE  IInv'
<1>1. ledger \in LedgerType /\ WindowDense(ledger) /\ TypeOK /\ WindowIsSuffix
  BY DEF IInv, TypeOK
<1>2. CASE RegisterResult(ledger, i, p) # "registered"
  <2>1. ledger' = ledger
    BY <1>2 DEF Register, RegisterApproval
  <2>2. sent' = sent
    BY <2>1, <1>1 DEF Register, Record, LedgerType
  <2>3. QED
    BY <2>1, <2>2, <1>1, QuietStep
<1>3. CASE RegisterResult(ledger, i, p) = "registered"
  <2>1. ~Registered(ledger, i)
    BY <1>3 DEF RegisterResult
  <2>2. PICK d, m, a :
          /\ d = NewDelivery(ledger, t, "approval", NoRef, i)
          /\ m = Deliver(ledger, t, "approval", NoRef, i)
          /\ a = [id |-> i, print |-> p, child |-> c, work |-> w,
                  grants |-> g, status |-> "pending", resolvedRev |-> -1]
    OBVIOUS
  <2>3. "approval" \in DeliveryKind /\ i \in Refs \cup {NoRef} /\ NoRef \in Refs \cup {NoRef}
    BY DEF DeliveryKind, Refs
  <2>4. d \in Delivery(Targets, Refs) /\ d.kind = "approval" /\ d.op = i
    BY <1>1, <2>2, <2>3 DEF Delivery, NewDelivery, LedgerType
  <2>5. Delivered(ledger, m, d)
    BY <1>1, <2>2, <2>3, DeliverWindow
  <2>6. /\ m \in LedgerType /\ WindowDense(m) /\ m.approvals = ledger.approvals
        /\ m.next = ledger.next + 1
    BY <2>5 DEF Delivered
  <2>7. a \in Approval(Requests, Prints, Refs, Children)
    BY <2>2 DEF Approval, ApprovalStatus, Refs
  <2>8. /\ Append(ledger.approvals, a) \in Seq(Approval(Requests, Prints, Refs, Children))
        /\ DOMAIN Append(ledger.approvals, a) = 1 .. Len(ledger.approvals) + 1
        /\ Append(ledger.approvals, a)[Len(ledger.approvals) + 1] = a
        /\ \A x \in DOMAIN ledger.approvals :
             x \in 1 .. Len(ledger.approvals) + 1
               /\ Append(ledger.approvals, a)[x] = ledger.approvals[x]
        /\ Len(ledger.approvals) \in Nat
    BY <1>1, <2>7 DEF LedgerType
  <2>9. ledger' = [gen |-> m.gen, next |-> m.next, evicted |-> m.evicted,
                   deliveries |-> m.deliveries, approvals |-> Append(ledger.approvals, a),
                   notes |-> m.notes, cursors |-> m.cursors]
    <3>1. ledger' = [m EXCEPT !.approvals = Append(@, a)]
      BY <1>3, <2>2 DEF Register, RegisterApproval
    <3>2. QED
      BY <3>1, <2>6 DEF LedgerType
  <2>10. ledger' \in LedgerType
    BY <2>6, <2>8, <2>9 DEF LedgerType
  <2>11. sent' = Append(sent, d)
    <3>1. ledger'.next > ledger.next
      BY <1>1, <2>6, <2>9 DEF LedgerType
    <3>2. ledger'.deliveries[Len(ledger'.deliveries)] = d
      BY <2>5, <2>9 DEF Delivered
    <3>3. QED
      BY <3>1, <3>2 DEF Register, Record
  <2>12. TypeOK'
    BY <1>1, <2>4, <2>10, <2>11 DEF TypeOK
  <2>13. WindowIsSuffix' /\ WindowDense(ledger)'
    BY <1>1, <2>4, <2>5, <2>6, <2>9, <2>11, SuffixGrows
  <2>14. /\ \A id : Registered(ledger, id) => Registered(ledger', id)
         /\ Registered(ledger', i)
    <3>1. ledger'.approvals = Append(ledger.approvals, a) /\ a.id = i
      BY <2>2, <2>9
    <3>2. Len(ledger.approvals) + 1 \in DOMAIN Append(ledger.approvals, a)
      BY <2>8
    <3>3. QED
      BY <2>8, <3>1, <3>2 DEF Registered
  <2>15. /\ sent' \in Seq(Delivery(Targets, Refs)) /\ DOMAIN sent' = 1 .. Len(sent) + 1
         /\ sent'[Len(sent) + 1] = d /\ Len(sent) \in Nat
         /\ \A x \in DOMAIN sent' : x # Len(sent) + 1 => x \in DOMAIN sent /\ sent'[x] = sent[x]
    BY <1>1, <2>4, <2>11 DEF TypeOK
  <2>16. SentRegistered'
    BY <2>4, <2>14, <2>15 DEF SentRegistered, IInv
  <2>17. \A x \in DOMAIN sent : sent[x].kind = "approval" => sent[x].op # i
    BY <2>1 DEF SentRegistered, IInv
  <2>18. RegisteredOnce'
    BY <2>4, <2>15, <2>17 DEF RegisteredOnce, IInv
  <2>19. QED
    BY <2>12, <2>13, <2>16, <2>18 DEF IInv
<1>4. QED
  BY <1>2, <1>3

\* A resolution rewrites at most the status and the revision of one pending
\* approval.
LEMMA ResolveShape ==
  ASSUME TypeOK, NEW i \in Requests, NEW c \in Children, NEW d \in Decision,
         NEW att \in BOOLEAN, NEW can \in BOOLEAN, NEW clo \in BOOLEAN,
         Resolve(i, c, d, att, can, clo)
  PROVE  \/ ledger' = ledger
         \/ \E k \in DOMAIN ledger.approvals, s \in ApprovalStatus :
              /\ ledger.approvals[k].status = "pending"
              /\ ledger' = CommitStatus(ledger, k, s)
<1>1. PICK k : k = IndexOf(ledger, i)
  OBVIOUS
<1>2. k \in DOMAIN ledger.approvals
  BY <1>1, IndexOfRegistered DEF Resolve
<1>3. PICK o : o = ResolveOutcome(ledger, i, c, d, att, can, clo)
  OBVIOUS
<1>4. CASE o \notin Decision
  BY <1>3, <1>4 DEF Resolve, ResolveApproval
<1>5. CASE o \in Decision
  <2>1. ledger' = CommitStatus(ledger, k, Settlement(o))
    BY <1>1, <1>3, <1>5 DEF Resolve, ResolveApproval
  <2>2. Settlement(o) \in ApprovalStatus
    BY <1>5 DEF Settlement, Decision, ApprovalStatus
  <2>3. ledger.approvals[k] \in Approval(Requests, Prints, Refs, Children)
    BY <1>2 DEF TypeOK, LedgerType
  <2>4. ledger.approvals[k].status = "pending"
    BY <1>1, <1>3, <1>5, <2>3 DEF ResolveOutcome, Decide, Decision, Approval
  <2>5. QED
    BY <1>2, <2>1, <2>2, <2>4
<1>6. QED
  BY <1>4, <1>5

\* The approvals after settling the one at k, in full.
LEMMA SettledApprovals ==
  ASSUME NEW l \in LedgerType, NEW k \in DOMAIN l.approvals, NEW s \in ApprovalStatus,
         NEW m, m = CommitStatus(l, k, s)
  PROVE  /\ m \in LedgerType
         /\ m.deliveries = l.deliveries /\ m.evicted = l.evicted /\ m.next = l.next
         /\ DOMAIN m.approvals = DOMAIN l.approvals
         /\ \A x \in DOMAIN l.approvals : m.approvals[x].id = l.approvals[x].id
         /\ \A x \in DOMAIN l.approvals : x # k => m.approvals[x] = l.approvals[x]
<1>1. PICK a, b, aps :
        /\ a = l.approvals[k]
        /\ b = [a EXCEPT !.status = s, !.resolvedRev = l.gen]
        /\ aps = [l.approvals EXCEPT ![k] = b]
  OBVIOUS
<1>2. a \in Approval(Requests, Prints, Refs, Children)
  BY <1>1 DEF LedgerType
<1>3. b = [id |-> a.id, print |-> a.print, child |-> a.child, work |-> a.work,
           grants |-> a.grants, status |-> s, resolvedRev |-> l.gen]
  BY <1>1, <1>2 DEF Approval
<1>4. b \in Approval(Requests, Prints, Refs, Children) /\ b.id = a.id
  BY <1>2, <1>3 DEF Approval, LedgerType
<1>5. /\ aps \in Seq(Approval(Requests, Prints, Refs, Children))
      /\ DOMAIN aps = DOMAIN l.approvals
      /\ aps[k] = b
      /\ \A x \in DOMAIN l.approvals : x # k => aps[x] = l.approvals[x]
  BY <1>1, <1>4 DEF LedgerType
<1>6. m = [gen |-> l.gen, next |-> l.next, evicted |-> l.evicted, deliveries |-> l.deliveries,
           approvals |-> aps, notes |-> l.notes, cursors |-> l.cursors]
  <2>1. m = [l EXCEPT !.approvals = aps]
    BY <1>1 DEF CommitStatus
  <2>2. QED
    BY <2>1 DEF LedgerType
<1>7. m \in LedgerType
  BY <1>5, <1>6 DEF LedgerType
<1>8. QED
  BY <1>1, <1>4, <1>5, <1>6, <1>7

LEMMA ResolveInv ==
  ASSUME IInv, NEW i \in Requests, NEW c \in Children, NEW d \in Decision,
         NEW att \in BOOLEAN, NEW can \in BOOLEAN, NEW clo \in BOOLEAN,
         Resolve(i, c, d, att, can, clo)
  PROVE  IInv'
<1>1. TypeOK /\ ledger \in LedgerType /\ sent' = sent
  BY DEF IInv, TypeOK, Resolve
<1>2. CASE ledger' = ledger
  BY <1>1, <1>2, QuietStep
<1>3. CASE ledger' # ledger
  <2>1. PICK k \in DOMAIN ledger.approvals, s \in ApprovalStatus :
          ledger' = CommitStatus(ledger, k, s)
    BY <1>1, <1>3, ResolveShape
  <2>2. /\ ledger' \in LedgerType
        /\ ledger'.deliveries = ledger.deliveries /\ ledger'.evicted = ledger.evicted
        /\ ledger'.next = ledger.next
        /\ DOMAIN ledger'.approvals = DOMAIN ledger.approvals
        /\ \A x \in DOMAIN ledger.approvals : ledger'.approvals[x].id = ledger.approvals[x].id
    BY <1>1, <2>1, SettledApprovals
  <2>3. \A id : Registered(ledger, id) => Registered(ledger', id)
    BY <2>2, SameIds
  <2>4. QED
    BY <1>1, <2>2, <2>3, QuietStep
<1>4. QED
  BY <1>2, <1>3

\* An invalidation rewrites the status and the revision of pending approvals.
LEMMA InvalidateShape ==
  ASSUME NEW l \in LedgerType, NEW c, NEW s \in {"cancelled", "stale"},
         NEW m, m = InvalidateApprovals(l, c, s)
  PROVE  /\ m \in LedgerType
         /\ m.deliveries = l.deliveries /\ m.evicted = l.evicted /\ m.next = l.next
         /\ m.gen = l.gen /\ m.cursors = l.cursors
         /\ DOMAIN m.approvals = DOMAIN l.approvals
         /\ \A x \in DOMAIN l.approvals : m.approvals[x].id = l.approvals[x].id
         /\ \A x \in DOMAIN l.approvals :
              l.approvals[x].status # "pending" => m.approvals[x] = l.approvals[x]
<1>1. PICK aps :
        aps = [x \in DOMAIN l.approvals |->
                 IF l.approvals[x].child = c /\ l.approvals[x].status = "pending"
                   THEN [l.approvals[x] EXCEPT !.status = s, !.resolvedRev = l.gen]
                   ELSE l.approvals[x]]
  OBVIOUS
<1>2. l.approvals \in Seq(Approval(Requests, Prints, Refs, Children)) /\ l.gen \in Nat
  BY DEF LedgerType
<1>3. ASSUME NEW x \in DOMAIN l.approvals
      PROVE  /\ aps[x] \in Approval(Requests, Prints, Refs, Children)
             /\ aps[x].id = l.approvals[x].id
             /\ l.approvals[x].status # "pending" => aps[x] = l.approvals[x]
  <2>1. l.approvals[x] \in Approval(Requests, Prints, Refs, Children)
    BY <1>2
  <2>2. PICK a, b : a = l.approvals[x] /\ b = [a EXCEPT !.status = s, !.resolvedRev = l.gen]
    OBVIOUS
  <2>3. b = [id |-> a.id, print |-> a.print, child |-> a.child, work |-> a.work,
             grants |-> a.grants, status |-> s, resolvedRev |-> l.gen]
    BY <2>1, <2>2 DEF Approval
  <2>4. b \in Approval(Requests, Prints, Refs, Children) /\ b.id = a.id
    BY <1>2, <2>1, <2>2, <2>3 DEF Approval, ApprovalStatus
  <2>5. QED
    BY <1>1, <2>1, <2>2, <2>4
<1>4. aps \in Seq(Approval(Requests, Prints, Refs, Children)) /\ DOMAIN aps = DOMAIN l.approvals
  <2>1. PICK n \in Nat : DOMAIN l.approvals = 1 .. n
    BY <1>2
  <2>2. aps \in [1 .. n -> Approval(Requests, Prints, Refs, Children)]
    BY <1>1, <1>3, <2>1
  <2>3. aps \in Seq(Approval(Requests, Prints, Refs, Children))
    BY <2>2, SeqDef
  <2>4. QED
    BY <1>1, <2>3
<1>5. m = [gen |-> l.gen, next |-> l.next, evicted |-> l.evicted, deliveries |-> l.deliveries,
           approvals |-> aps, notes |-> l.notes, cursors |-> l.cursors]
  BY <1>1 DEF LedgerType, InvalidateApprovals
<1>6. m \in LedgerType
  BY <1>4, <1>5 DEF LedgerType
<1>7. QED
  BY <1>3, <1>4, <1>5, <1>6

LEMMA InvalidateInv ==
  ASSUME IInv, NEW c \in Children, NEW s \in {"cancelled", "stale"}, Invalidate(c, s)
  PROVE  IInv'
<1>1. /\ ledger \in LedgerType /\ sent' = sent
      /\ ledger' = InvalidateApprovals(ledger, c, s)
  BY DEF IInv, TypeOK, Invalidate
<1>2. /\ ledger' \in LedgerType
      /\ ledger'.deliveries = ledger.deliveries /\ ledger'.evicted = ledger.evicted
      /\ ledger'.next = ledger.next
      /\ DOMAIN ledger'.approvals = DOMAIN ledger.approvals
      /\ \A x \in DOMAIN ledger.approvals : ledger'.approvals[x].id = ledger.approvals[x].id
  BY <1>1, InvalidateShape
<1>3. \A id : Registered(ledger, id) => Registered(ledger', id)
  BY <1>2, SameIds
<1>4. QED
  BY <1>1, <1>2, <1>3, QuietStep

\* A cursor step changes one cursor only, and never moves it back.
LEMMA AdvanceShape ==
  ASSUME NEW l \in LedgerType, NEW c \in Consumers, NEW n \in Nat,
         NEW m, m = AdvanceCursor(l, c, n)
  PROVE  /\ m \in LedgerType
         /\ m = [l EXCEPT !.cursors = m.cursors]
         /\ \A x \in Consumers : m.cursors[x] >= l.cursors[x]
<1>1. PICK v, cs : /\ v = IF n > l.cursors[c] THEN n ELSE l.cursors[c]
                   /\ cs = [l.cursors EXCEPT ![c] = v]
  OBVIOUS
<1>2. l.cursors \in [Consumers -> Nat]
  BY DEF LedgerType
<1>3. v \in Nat /\ v >= l.cursors[c]
  BY <1>1, <1>2
<1>4. cs \in [Consumers -> Nat] /\ \A x \in Consumers : cs[x] >= l.cursors[x]
  BY <1>1, <1>2, <1>3
<1>5. m = [gen |-> l.gen, next |-> l.next, evicted |-> l.evicted, deliveries |-> l.deliveries,
           approvals |-> l.approvals, notes |-> l.notes, cursors |-> cs]
  BY <1>1 DEF AdvanceCursor, LedgerType
<1>6. m \in LedgerType
  BY <1>4, <1>5 DEF LedgerType
<1>7. m = [l EXCEPT !.cursors = m.cursors]
  BY <1>5 DEF LedgerType
<1>8. QED
  BY <1>4, <1>5, <1>6, <1>7

LEMMA AdvanceInv ==
  ASSUME IInv, NEW c \in Consumers, NEW n \in Nat, Advance(c, n)
  PROVE  IInv'
<1>1. /\ ledger \in LedgerType /\ sent' = sent
      /\ ledger' = AdvanceCursor(ledger, c, n)
  BY DEF IInv, TypeOK, Advance
<1>2. ledger' \in LedgerType /\ ledger' = [ledger EXCEPT !.cursors = ledger'.cursors]
  BY <1>1, AdvanceShape
<1>3. /\ ledger'.deliveries = ledger.deliveries /\ ledger'.evicted = ledger.evicted
      /\ ledger'.next = ledger.next /\ ledger'.approvals = ledger.approvals
  BY <1>1, <1>2 DEF LedgerType
<1>4. \A id : Registered(ledger, id) => Registered(ledger', id)
  BY <1>3, SameIds
<1>5. QED
  BY <1>1, <1>2, <1>3, <1>4, QuietStep

\* Noting and clearing live work change the notifications only.
LEMMA NotesShape ==
  ASSUME NEW l \in LedgerType, NEW w \in WorkIds,
         NEW m, m = NoteActiveWork(l, w) \/ m = ClearWorkNotification(l, w)
  PROVE  m \in LedgerType /\ m = [l EXCEPT !.notes = m.notes]
<1>1. l.notes \in Seq(WorkIds)
  BY DEF LedgerType
<1>2. CASE m = l
  BY <1>2 DEF LedgerType
<1>3. ASSUME NEW ns \in Seq(WorkIds), m = [l EXCEPT !.notes = ns]
      PROVE  m \in LedgerType /\ m = [l EXCEPT !.notes = m.notes]
  <2>1. m = [gen |-> l.gen, next |-> l.next, evicted |-> l.evicted,
             deliveries |-> l.deliveries, approvals |-> l.approvals, notes |-> ns,
             cursors |-> l.cursors]
    BY <1>3 DEF LedgerType
  <2>2. m \in LedgerType
    BY <2>1 DEF LedgerType
  <2>3. QED
    BY <2>2, <1>3, <2>1
<1>4. CASE m = NoteActiveWork(l, w) /\ m # l
  <2>1. PICK longer : longer = Append(l.notes, w)
    OBVIOUS
  <2>2. longer \in Seq(WorkIds) /\ Len(longer) > 0 /\ Tail(longer) \in Seq(WorkIds)
    BY <1>1, <2>1
  <2>3. m = [l EXCEPT !.notes = IF Len(longer) > MaxNotes THEN Tail(longer) ELSE longer]
    BY <1>4, <2>1 DEF NoteActiveWork
  <2>4. QED
    BY <2>2, <2>3, <1>3
<1>5. CASE m = ClearWorkNotification(l, w) /\ m # l
  <2>1. PICK k : k = CHOOSE j \in DOMAIN l.notes : l.notes[j] = w
    OBVIOUS
  <2>2. k \in DOMAIN l.notes
    BY <1>5, <2>1 DEF ClearWorkNotification
  <2>3. PICK front, back : front = SubSeq(l.notes, 1, k - 1)
                           /\ back = SubSeq(l.notes, k + 1, Len(l.notes))
    OBVIOUS
  <2>4. front \in Seq(WorkIds) /\ back \in Seq(WorkIds)
    BY <1>1, <2>2, <2>3
  <2>5. front \o back \in Seq(WorkIds)
    BY <2>4
  <2>6. m = [l EXCEPT !.notes = front \o back]
    BY <1>5, <2>1, <2>3 DEF ClearWorkNotification
  <2>7. QED
    BY <2>5, <2>6, <1>3
<1>6. QED
  BY <1>2, <1>4, <1>5

LEMMA NotesInv ==
  ASSUME IInv, NEW w \in WorkIds, Note(w) \/ Clear(w)
  PROVE  IInv'
<1>1. /\ ledger \in LedgerType /\ sent' = sent
      /\ \/ ledger' = NoteActiveWork(ledger, w)
         \/ ledger' = ClearWorkNotification(ledger, w)
  BY DEF IInv, TypeOK, Note, Clear
<1>2. ledger' \in LedgerType /\ ledger' = [ledger EXCEPT !.notes = ledger'.notes]
  BY <1>1, NotesShape
<1>3. /\ ledger'.deliveries = ledger.deliveries /\ ledger'.evicted = ledger.evicted
      /\ ledger'.next = ledger.next /\ ledger'.approvals = ledger.approvals
  BY <1>1, <1>2 DEF LedgerType
<1>4. \A id : Registered(ledger, id) => Registered(ledger', id)
  BY <1>3, SameIds
<1>5. QED
  BY <1>1, <1>2, <1>3, <1>4, QuietStep

LEMMA RestoreInv == IInv /\ (Restore \/ UNCHANGED vars) => IInv'
<1> SUFFICES ASSUME IInv, Restore \/ UNCHANGED vars PROVE IInv'
  OBVIOUS
<1>1. ledger' = ledger /\ sent' = sent
  BY ReloadIsIdentity DEF Restore, vars
<1>2. ledger' \in LedgerType
  BY <1>1 DEF IInv, TypeOK
<1>3. QED
  BY <1>1, <1>2, QuietStep

-----------------------------------------------------------------------------
(* The inductive invariant and what it implies.                            *)

LEMMA StepInv == IInv /\ [Next]_vars => IInv'
<1> SUFFICES ASSUME IInv, [Next]_vars PROVE IInv'
  OBVIOUS
<1>1. CASE \E t \in Targets, k \in {"message", "milestone"}, w \in WorkIds \cup {NoRef} :
             SendDelivery(t, k, w)
  BY <1>1, SendInv
<1>2. CASE \E i \in Requests, p \in Prints, c \in Children, w \in WorkIds \cup {NoRef},
              g \in BOOLEAN, t \in Targets : Register(i, p, c, w, g, t)
  BY <1>2, RegisterInv
<1>3. CASE \E i \in Requests, c \in Children, d \in Decision, att, can, clo \in BOOLEAN :
             Resolve(i, c, d, att, can, clo)
  BY <1>3, ResolveInv
<1>4. CASE \E c \in Children, s \in {"cancelled", "stale"} : Invalidate(c, s)
  BY <1>4, InvalidateInv
<1>5. CASE \E c \in Consumers, n \in 0 .. MaxSent : Advance(c, n)
  BY <1>5, AdvanceInv, SentAssumption
<1>6. CASE \E w \in WorkIds : Note(w) \/ Clear(w)
  BY <1>6, NotesInv
<1>7. CASE Restore \/ UNCHANGED vars
  BY <1>7, RestoreInv
<1>8. QED
  BY <1>1, <1>2, <1>3, <1>4, <1>5, <1>6, <1>7 DEF Next

\* The stored ledger and the history stay well typed whatever calls are made.
THEOREM TypeCorrect == Spec => []TypeOK
<1>1. IInv => TypeOK
  BY DEF IInv
<1>2. QED
  BY InitInv, StepInv, <1>1, PTL DEF Spec

\* For every capacity: the ledger retains exactly the newest deliveries, in
\* order and unaltered (subagent_communication.rs, deliver and evict).
THEOREM WindowCorrect == Spec => []WindowIsSuffix
<1>1. IInv => WindowIsSuffix
  BY DEF IInv
<1>2. QED
  BY InitInv, StepInv, <1>1, PTL DEF Spec

\* The load-time filter never removes a delivery (CommunicationStore::load).
THEOREM LoadCorrect == Spec => []LoadIsFaithful
<1>1. IInv => LoadIsFaithful
  BY ReloadIsIdentity DEF LoadIsFaithful
<1>2. QED
  BY InitInv, StepInv, <1>1, PTL DEF Spec

\* A request is announced to its root at most once, however often and with
\* whatever identity it is registered again (subagent_approval.rs, register).
THEOREM RegistrationCorrect == Spec => []RegisteredOnce
<1>1. IInv => RegisteredOnce
  BY DEF IInv
<1>2. QED
  BY InitInv, StepInv, <1>1, PTL DEF Spec

-----------------------------------------------------------------------------
(* The exact-once decision.                                                *)

\* Every approval of l keeps its place and its id in m, a settled one all.
Kept(l, m) ==
  \A i \in DOMAIN l.approvals :
    /\ i \in DOMAIN m.approvals
    /\ m.approvals[i].id = l.approvals[i].id
    /\ l.approvals[i].status # "pending" => m.approvals[i] = l.approvals[i]

LEMMA RegisterKeeps ==
  ASSUME NEW l \in LedgerType, NEW i \in Requests, NEW p \in Prints, NEW c \in Children,
         NEW w \in WorkIds \cup {NoRef}, NEW g \in BOOLEAN, NEW t \in Targets, WindowDense(l)
  PROVE  Kept(l, RegisterApproval(l, i, p, c, w, g, t))
<1>1. CASE RegisterResult(l, i, p) # "registered"
  BY <1>1 DEF RegisterApproval, Kept
<1>2. CASE RegisterResult(l, i, p) = "registered"
  <2>1. PICK m, a : /\ m = Deliver(l, t, "approval", NoRef, i)
                    /\ a = [id |-> i, print |-> p, child |-> c, work |-> w,
                            grants |-> g, status |-> "pending", resolvedRev |-> -1]
    OBVIOUS
  <2>2. m \in LedgerType /\ m.approvals = l.approvals
    <3>1. "approval" \in DeliveryKind /\ i \in Refs \cup {NoRef} /\ NoRef \in Refs \cup {NoRef}
      BY DEF DeliveryKind, Refs
    <3>2. Delivered(l, m, NewDelivery(l, t, "approval", NoRef, i))
      BY <2>1, <3>1, DeliverWindow
    <3>3. QED
      BY <3>2 DEF Delivered
  <2>3. RegisterApproval(l, i, p, c, w, g, t) = [m EXCEPT !.approvals = Append(l.approvals, a)]
    BY <1>2, <2>1, <2>2 DEF RegisterApproval
  <2>4. RegisterApproval(l, i, p, c, w, g, t).approvals = Append(l.approvals, a)
    BY <2>2, <2>3 DEF LedgerType
  <2>5. \A x \in DOMAIN l.approvals : /\ x \in DOMAIN Append(l.approvals, a)
                                      /\ Append(l.approvals, a)[x] = l.approvals[x]
    BY DEF LedgerType
  <2>6. QED
    BY <2>4, <2>5 DEF Kept
<1>3. QED
  BY <1>1, <1>2

LEMMA StepKeeps == IInv /\ Next => Kept(ledger, ledger')
<1> SUFFICES ASSUME IInv, Next PROVE Kept(ledger, ledger')
  OBVIOUS
<1>1. TypeOK /\ ledger \in LedgerType /\ WindowDense(ledger)
  BY DEF IInv, TypeOK
<1>2. ASSUME ledger'.approvals = ledger.approvals PROVE Kept(ledger, ledger')
  BY <1>2 DEF Kept
<1>3. CASE \E t \in Targets, k \in {"message", "milestone"}, w \in WorkIds \cup {NoRef} :
             SendDelivery(t, k, w)
  <2>1. PICK t \in Targets, k \in {"message", "milestone"}, w \in WorkIds \cup {NoRef} :
          SendDelivery(t, k, w)
    BY <1>3
  <2>2. k \in DeliveryKind /\ w \in Refs \cup {NoRef} /\ NoRef \in Refs \cup {NoRef}
    BY DEF DeliveryKind, Refs
  <2>3. Delivered(ledger, ledger', NewDelivery(ledger, t, k, w, NoRef))
    BY <1>1, <2>1, <2>2, DeliverWindow DEF SendDelivery
  <2>4. QED
    BY <1>2, <2>3 DEF Delivered
<1>4. CASE \E i \in Requests, p \in Prints, c \in Children, w \in WorkIds \cup {NoRef},
              g \in BOOLEAN, t \in Targets : Register(i, p, c, w, g, t)
  BY <1>1, <1>4, RegisterKeeps DEF Register
<1>5. CASE \E i \in Requests, c \in Children, d \in Decision, att, can, clo \in BOOLEAN :
             Resolve(i, c, d, att, can, clo)
  <2>1. PICK i \in Requests, c \in Children, d \in Decision, att, can, clo \in BOOLEAN :
          Resolve(i, c, d, att, can, clo)
    BY <1>5
  <2>2. CASE ledger' = ledger
    BY <1>2, <2>2
  <2>3. CASE ledger' # ledger
    <3>1. PICK k \in DOMAIN ledger.approvals, s \in ApprovalStatus :
            ledger.approvals[k].status = "pending" /\ ledger' = CommitStatus(ledger, k, s)
      BY <1>1, <2>1, <2>3, ResolveShape
    <3>2. QED
      BY <1>1, <3>1, SettledApprovals DEF Kept
  <2>4. QED
    BY <2>2, <2>3
<1>6. CASE \E c \in Children, s \in {"cancelled", "stale"} : Invalidate(c, s)
  BY <1>1, <1>6, InvalidateShape DEF Invalidate, Kept
<1>7. CASE \E c \in Consumers, n \in 0 .. MaxSent : Advance(c, n)
  <2>1. PICK c \in Consumers, n \in Nat : ledger' = AdvanceCursor(ledger, c, n)
    BY <1>7, SentAssumption DEF Advance
  <2>2. ledger' = [ledger EXCEPT !.cursors = ledger'.cursors]
    BY <1>1, <2>1, AdvanceShape
  <2>3. QED
    BY <1>1, <1>2, <2>2 DEF LedgerType
<1>8. CASE \E w \in WorkIds : Note(w) \/ Clear(w)
  <2>1. PICK w \in WorkIds : \/ ledger' = NoteActiveWork(ledger, w)
                             \/ ledger' = ClearWorkNotification(ledger, w)
    BY <1>8 DEF Note, Clear
  <2>2. ledger' = [ledger EXCEPT !.notes = ledger'.notes]
    BY <1>1, <2>1, NotesShape
  <2>3. QED
    BY <1>1, <1>2, <2>2 DEF LedgerType
<1>9. CASE Restore
  BY <1>2, <1>9, ReloadIsIdentity DEF Restore
<1>10. QED
  BY <1>3, <1>4, <1>5, <1>6, <1>7, <1>8, <1>9 DEF Next

\* For every registry size: no sequence of library calls changes a settled
\* approval or forgets a registered one (the exact-once decision model).
THEOREM DecisionsAreFinal == Spec => SettledIsFinal
<1>1. IInv /\ [Next]_vars => [Kept(ledger, ledger')]_vars
  BY StepKeeps
<1>2. [Kept(ledger, ledger')]_vars =>
        [\A i \in DOMAIN ledger.approvals :
           /\ i \in DOMAIN ledger'.approvals
           /\ ledger'.approvals[i].id = ledger.approvals[i].id
           /\ ledger.approvals[i].status # "pending" =>
                ledger'.approvals[i] = ledger.approvals[i]]_vars
  BY DEF Kept
<1>3. QED
  BY InitInv, StepInv, <1>1, <1>2, PTL DEF Spec, SettledIsFinal
-----------------------------------------------------------------------------
(* What a child may do.  Every copy of a control record, in the file or in  *)
(* the hands of an agent, carries the admission that the child was created  *)
(* with; so what is derived from it, and from an agent that has another     *)
(* one work for it, stays inside.                                           *)

Admissions == A!Names \cup {NoAdmission}
Records == [mode : Modes \cup {Odd}, admission : Admissions, pending : BOOLEAN]
Frames == [by : {"session", "run", "tool"}, child : Born \cup {NoRecord}, tools : SUBSET Tools,
           mode : Modes, copy : Records \cup {NoRecord}]

FileInv ==
  /\ record \in [Born -> Records \cup {NoRecord}]
  /\ granted \in [Born -> Admissions \cup {NoRecord}]
  /\ \A c \in Born : record[c] # NoRecord => granted[c] # NoRecord /\ record[c].admission = granted[c]

\* An agent that was put to work for a child that was created.
FrameInv(f) ==
  /\ f.by \in {"run", "tool"} => f.child \in Born /\ granted[f.child] # NoRecord
  /\ f.by = "tool" => f.copy \in Records /\ f.copy.admission = granted[f.child]

StackInv ==
  /\ stack \in Seq(Frames)
  /\ \A i \in DOMAIN stack : FrameInv(stack[i])
  /\ A!HeldToAdmission

\* What a child was created with is never another thing afterwards.
GrantsStay == \A c \in Born : granted[c] # NoRecord => granted'[c] = granted[c]

\* A child that is created has no record and had none before.
LEMMA CreateKeeps ==
  ASSUME A!AdmissionAssumption, FileInv, NEW c \in Born, NEW r \in Records, A!Create(c, r)
  PROVE  FileInv' /\ GrantsStay /\ granted'[c] = r.admission /\ granted'[c] # NoRecord
<1>1. r.admission \in Admissions /\ r.admission # NoRecord
  <2>1. r.admission \in Admissions
    BY DEF Records
  <2>2. NoRecord \notin Admissions
    BY DEF Admissions, A!AdmissionAssumption, A!Names
  <2> QED BY <2>1, <2>2
<1>2. /\ record' = [record EXCEPT ![c] = r] /\ granted' = [granted EXCEPT ![c] = r.admission]
      /\ record[c] = NoRecord /\ granted[c] = NoRecord
  BY DEF A!Create
<1>3. \A b \in Born : /\ record'[b] = IF b = c THEN r ELSE record[b]
                      /\ granted'[b] = IF b = c THEN r.admission ELSE granted[b]
  BY <1>2 DEF FileInv
<1>4. record' \in [Born -> Records \cup {NoRecord}] /\ granted' \in [Born -> Admissions \cup {NoRecord}]
  BY <1>1, <1>2 DEF FileInv
<1>5. GrantsStay
  BY <1>2, <1>3 DEF GrantsStay
<1> QED BY <1>1, <1>3, <1>4, <1>5 DEF FileInv

\* A record that keeps its admission.
LEMMA RewriteKeeps ==
  ASSUME FileInv, NEW c \in Born, granted[c] # NoRecord, NEW r \in Records, r.admission = granted[c],
         record' = [record EXCEPT ![c] = r], UNCHANGED granted
  PROVE  FileInv' /\ GrantsStay
<1>1. \A b \in Born : record'[b] = IF b = c THEN r ELSE record[b]
  BY DEF FileInv
<1> QED BY <1>1 DEF FileInv, GrantsStay

\* The agents at work are not touched by what happens to the files.
LEMMA StackKept ==
  ASSUME StackInv, GrantsStay, UNCHANGED stack
  PROVE  StackInv'
<1>1. ASSUME NEW i \in DOMAIN stack
      PROVE  FrameInv(stack[i])'
  BY <1>1 DEF StackInv, FrameInv, GrantsStay
<1>2. A!HeldToAdmission'
  <2> SUFFICES ASSUME stack # <<>>, stack[1].by = "run", A!Held(stack[1].child)'
               PROVE  \A i \in DOMAIN stack : stack[i].tools \cap Builtin \subseteq granted'[stack[1].child]
    BY DEF A!HeldToAdmission
  <2>1. 1 \in DOMAIN stack
    BY DEF StackInv
  <2>2. granted'[stack[1].child] = granted[stack[1].child]
    BY <2>1 DEF StackInv, FrameInv, GrantsStay
  <2> QED BY <2>2 DEF StackInv, A!HeldToAdmission, A!Held
<1> QED BY <1>1, <1>2 DEF StackInv

\* The built-in tools that a record with an admission allows are inside it.
LEMMA FilterInside ==
  ASSUME A!AdmissionAssumption, NEW r \in Records
  PROVE  /\ A!FilterOfRun(r) \subseteq Tools
         /\ r.admission \notin {NoAdmission, {}} => A!FilterOfRun(r) \cap Builtin \subseteq r.admission
BY DEF A!FilterOfRun, A!resume_admission, A!capture_admission, A!Filtered, Records

\* One agent more, at the bottom or with no more tools than the one on top.
LEMMA OneMoreAgent ==
  ASSUME StackInv, GrantsStay, NEW f \in Frames, FrameInv(f)', stack' = Append(stack, f),
         stack # <<>>, f.tools \subseteq stack[Len(stack)].tools
  PROVE  StackInv'
<1>1. stack \in Seq(Frames) /\ stack' \in Seq(Frames) /\ Len(stack') = Len(stack) + 1
  BY DEF StackInv
<1>2. ASSUME NEW i \in DOMAIN stack'
      PROVE  \/ i \in DOMAIN stack /\ stack'[i] = stack[i]
             \/ i = Len(stack) + 1 /\ stack'[i] = f
  BY <1>1, <1>2
<1>3. ASSUME NEW i \in DOMAIN stack'
      PROVE  FrameInv(stack[i])'
  <2>1. CASE i \in DOMAIN stack /\ stack'[i] = stack[i]
    BY <2>1 DEF StackInv, FrameInv, GrantsStay
  <2> QED BY <1>2, <1>3, <2>1 DEF FrameInv
<1>4. A!HeldToAdmission'
  <2> SUFFICES ASSUME stack'[1].by = "run", A!Held(stack[1].child)', NEW i \in DOMAIN stack'
               PROVE  stack'[i].tools \cap Builtin \subseteq granted'[stack'[1].child]
    BY DEF A!HeldToAdmission
  <2>1. 1 \in DOMAIN stack /\ Len(stack) \in DOMAIN stack /\ stack'[1] = stack[1]
    BY <1>1
  <2>2. granted'[stack[1].child] = granted[stack[1].child]
    BY <2>1 DEF StackInv, FrameInv, GrantsStay
  <2>3. \A k \in DOMAIN stack : stack[k].tools \cap Builtin \subseteq granted[stack[1].child]
    BY <2>1, <2>2 DEF StackInv, A!HeldToAdmission, A!Held
  <2>4. CASE i \in DOMAIN stack /\ stack'[i] = stack[i]
    BY <2>1, <2>2, <2>3, <2>4
  <2>5. CASE stack'[i] = f
    BY <2>1, <2>2, <2>3, <2>5
  <2> QED BY <1>2, <2>4, <2>5
<1> QED BY <1>1, <1>3, <1>4 DEF StackInv

LEMMA AdmissionStep ==
  ASSUME A!AdmissionAssumption, FileInv, StackInv, [A!Next]_(A!vars)
  PROVE  FileInv' /\ StackInv'
<1>1. ASSUME NEW c \in Born, NEW r \in Records, A!Create(c, r), UNCHANGED stack
      PROVE  FileInv' /\ StackInv'
  BY <1>1, CreateKeeps, StackKept
<1>2. \A model \in BOOLEAN, names \in A!Names : A!capture_admission(model, names) \in Admissions
  BY DEF A!capture_admission, Admissions
<1>3. \A mode \in Modes \cup {Odd}, admitted \in Admissions : A!Record(mode, admitted) \in Records
  BY DEF A!Record, Records
<1>4. ASSUME NEW c \in Born, NEW mode \in Modes \cup {Odd}, NEW model \in BOOLEAN,
             A!CreateByCommand(c, mode, model)
      PROVE  FileInv' /\ StackInv'
  <2>1. {} \in A!Names
    BY DEF A!Names
  <2> QED BY <1>1, <1>2, <1>3, <1>4, <2>1 DEF A!CreateByCommand
<1>5. ASSUME NEW c \in Born, record[c] # NoRecord, NEW r \in Records,
             r.admission = record[c].admission, record' = [record EXCEPT ![c] = r],
             UNCHANGED granted
      PROVE  FileInv' /\ GrantsStay
  BY <1>5, RewriteKeeps DEF FileInv
<1>6. ASSUME NEW c \in Born, NEW mode \in Modes \cup {Odd}, A!Configure(c, mode)
      PROVE  FileInv' /\ StackInv'
  <2>1. record[c] \in Records
    BY <1>6 DEF A!Configure, FileInv
  <2>2. [record[c] EXCEPT !.mode = mode] \in Records
        /\ [record[c] EXCEPT !.mode = mode].admission = record[c].admission
    BY <2>1 DEF Records
  <2>3. record' = [record EXCEPT ![c] = [record[c] EXCEPT !.mode = mode]]
    BY <1>6 DEF A!Configure
  <2> QED BY <1>5, <1>6, <2>2, <2>3, StackKept DEF A!Configure
<1>7. ASSUME NEW c \in Born, record[c] # NoRecord, NEW pending \in BOOLEAN
      PROVE  /\ [record[c] EXCEPT !.pending = pending] \in Records
             /\ [record[c] EXCEPT !.pending = pending].admission = record[c].admission
  <2>1. record[c] \in Records
    BY <1>7 DEF FileInv
  <2> QED BY <2>1 DEF Records
<1>8. ASSUME NEW c \in Born, A!Send(c)
      PROVE  FileInv' /\ StackInv'
  <2>1. record' = [record EXCEPT ![c] = [record[c] EXCEPT !.pending = TRUE]]
    BY <1>8 DEF A!Send
  <2> QED BY <1>5, <1>7, <1>8, <2>1, StackKept DEF A!Send
<1>9. ASSUME NEW c \in Born, A!Delete(c)
      PROVE  FileInv' /\ StackInv'
  <2>1. FileInv' /\ GrantsStay
    BY <1>9 DEF A!Delete, FileInv, GrantsStay
  <2> QED BY <1>9, <2>1, StackKept DEF A!Delete
<1>10. ASSUME NEW mode \in Modes, A!StartSession(mode)
       PROVE  FileInv' /\ StackInv'
  <2>1. FileInv'
    BY <1>10 DEF A!StartSession, FileInv
  <2> DEFINE f == A!Agent("session", NoRecord, Tools, mode, NoRecord)
  <2>2. f \in Frames /\ f.by = "session"
    BY DEF A!Agent, Frames
  <2>3. stack' = <<f>>
    BY <1>10 DEF A!StartSession
  <2> HIDE DEF f
  <2>4. stack' \in Seq(Frames) /\ stack'[1] = f /\ \A i \in DOMAIN stack' : stack'[i] = f
    BY <2>2, <2>3
  <2> QED BY <2>1, <2>2, <2>4 DEF StackInv, FrameInv, A!HeldToAdmission
<1>11. ASSUME NEW c \in Born, A!Run(c)
       PROVE  FileInv' /\ StackInv'
  <2>1. /\ record[c] \in Records /\ UNCHANGED granted
        /\ granted[c] # NoRecord /\ record[c].admission = granted[c]
        /\ record' = [record EXCEPT ![c] = [record[c] EXCEPT !.pending = FALSE]]
    BY <1>11 DEF A!Run, FileInv
  <2>2. FileInv'
    BY <1>5, <1>7, <1>11, <2>1 DEF A!Run
  <2>9. PICK f : f = A!Agent("run", c, A!FilterOfRun(record[c]), A!ModeOfRun(record[c]), NoRecord)
    OBVIOUS
  <2>3. A!ModeOfRun(record[c]) \in Modes
    BY DEF A!ModeOfRun, A!AdmissionAssumption
  <2>4. /\ f \in Frames /\ f.by = "run" /\ f.child = c /\ f.tools = A!FilterOfRun(record[c])
    BY <2>1, <2>3, <2>9, FilterInside DEF A!Agent, Frames
  <2>5. stack' = <<f>>
    BY <1>11, <2>9 DEF A!Run
  <2>6. stack' \in Seq(Frames) /\ stack'[1] = f /\ \A i \in DOMAIN stack' : stack'[i] = f
    BY <2>4, <2>5
  <2>7. FrameInv(f)'
    BY <2>1, <2>4 DEF FrameInv
  <2>8. A!HeldToAdmission'
    <3> SUFFICES ASSUME A!Held(c)' PROVE f.tools \cap Builtin \subseteq granted[c]
      BY <2>1, <2>4, <2>6 DEF A!HeldToAdmission
    <3>1. record[c].admission \notin {NoAdmission, {}}
      BY <2>1 DEF A!Held
    <3> QED BY <2>1, <2>4, <3>1, FilterInside
  <2> QED BY <2>2, <2>6, <2>7, <2>8 DEF StackInv, FrameInv
<1>12. ASSUME NEW c \in Born, NEW mode \in Modes \cup {Odd}, NEW names \in A!Names,
              A!CreateRefused(c, mode, names)
       PROVE  FileInv' /\ StackInv'
  <2>1. NoAdmission \in Admissions
    BY DEF Admissions
  <2> QED BY <1>1, <1>3, <1>12, <2>1 DEF A!CreateRefused
<1>13. \A names \in A!Names, saved \in BOOLEAN : A!Stored(names, saved) \in Admissions
  BY <1>2 DEF A!Stored, Admissions
<1>14. ASSUME NEW c \in Born, NEW mode \in Modes \cup {Odd}, NEW names \in A!Names,
              NEW saved \in BOOLEAN, A!CreateTooDeep(c, mode, names, saved)
       PROVE  FileInv' /\ StackInv'
  BY <1>1, <1>3, <1>13, <1>14 DEF A!CreateTooDeep
<1>15. ASSUME NEW c \in Born, NEW mode \in Modes \cup {Odd}, NEW names \in A!Names,
              NEW saved \in BOOLEAN, A!CreateAndRun(c, mode, names, saved)
       PROVE  FileInv' /\ StackInv'
  <2>1. PICK r : r = [A!Record(mode, A!Stored(names, saved)) EXCEPT !.pending = FALSE]
    OBVIOUS
  <2>2. r \in Records
    <3>1. A!Record(mode, A!Stored(names, saved)) \in Records
      BY <1>3, <1>13
    <3> QED BY <2>1, <3>1 DEF Records
  <2>3. A!Create(c, r) /\ stack' = Append(stack, A!Agent("tool", c, A!Top.tools, A!Top.mode, r))
    BY <1>15, <2>1 DEF A!CreateAndRun
  <2>4. FileInv' /\ GrantsStay /\ granted'[c] = r.admission /\ granted'[c] # NoRecord
    BY <2>2, <2>3, CreateKeeps
  <2>5. stack # <<>> /\ A!Top \in Frames /\ A!Top = stack[Len(stack)]
    BY <1>15 DEF A!CreateAndRun, A!Delegating, A!Top, StackInv
  <2>6. PICK f : f = A!Agent("tool", c, A!Top.tools, A!Top.mode, r)
    OBVIOUS
  <2>7. /\ f \in Frames /\ f.by = "tool" /\ f.child = c /\ f.copy = r
        /\ f.tools = A!Top.tools
    BY <2>2, <2>5, <2>6 DEF A!Agent, Frames
  <2>8. FrameInv(f)'
    BY <2>2, <2>4, <2>7 DEF FrameInv
  <2> QED BY <2>3, <2>4, <2>5, <2>6, <2>7, <2>8, OneMoreAgent
<1>16. CASE A!Return
  <2>1. stack # <<>> /\ stack' = SubSeq(stack, 1, Len(stack) - 1) /\ UNCHANGED granted
    BY <1>16 DEF A!Return
  <2>2. /\ stack' \in Seq(Frames)
        /\ \A i \in DOMAIN stack' : i \in DOMAIN stack /\ stack'[i] = stack[i]
        /\ stack' # <<>> => 1 \in DOMAIN stack'
    BY <2>1 DEF StackInv
  <2>3. A!HeldToAdmission'
    BY <2>1, <2>2 DEF StackInv, A!HeldToAdmission, A!Held
  <2>4. StackInv'
    BY <2>1, <2>2, <2>3 DEF StackInv, FrameInv
  <2>5. CASE A!Top.by = "tool"
    <3>1. A!Top = stack[Len(stack)] /\ Len(stack) \in DOMAIN stack
      BY <2>1 DEF A!Top, StackInv
    <3>2. /\ A!Top.child \in Born /\ granted[A!Top.child] # NoRecord
          /\ A!Top.copy \in Records /\ A!Top.copy.admission = granted[A!Top.child]
      BY <2>5, <3>1 DEF StackInv, FrameInv
    <3>3. record' = [record EXCEPT ![A!Top.child] = A!Top.copy]
      BY <1>16, <2>5 DEF A!Return
    <3> QED BY <2>1, <2>4, <3>2, <3>3, RewriteKeeps
  <2>6. CASE A!Top.by # "tool"
    BY <1>16, <2>1, <2>4, <2>6 DEF A!Return, FileInv
  <2> QED BY <2>5, <2>6
<1>17. CASE A!Kill
  <2>1. stack' = <<>> /\ UNCHANGED <<record, granted>>
    BY <1>17 DEF A!Kill
  <2> QED BY <2>1 DEF FileInv, StackInv, FrameInv, A!HeldToAdmission
<1>18. CASE UNCHANGED A!vars
  BY <1>18, StackKept DEF A!vars, FileInv, GrantsStay
<1> QED BY <1>4, <1>6, <1>8, <1>9, <1>10, <1>11, <1>12, <1>14, <1>15, <1>16, <1>17, <1>18 DEF A!Next

\* However deep a child delegates, whatever is configured, saved over or killed
\* in between: no agent of its run calls a built-in tool that it was not admitted with
\* (agent.rs 534-543; the names that is_builtin_tool_name omits are let through).
THEOREM RunsAreHeld == ASSUME A!AdmissionAssumption PROVE A!Spec => []HeldToAdmission
<1>1. A!Init => FileInv /\ StackInv
  BY DEF A!Init, FileInv, StackInv, A!HeldToAdmission
<1>2. FileInv /\ StackInv /\ [A!Next]_(A!vars) => FileInv' /\ StackInv'
  BY AdmissionStep
<1>3. FileInv /\ StackInv => HeldToAdmission
  BY DEF StackInv, HeldToAdmission
<1> QED BY <1>1, <1>2, <1>3, PTL DEF A!Spec
=============================================================================
