---------------------------- MODULE StoresProofs ----------------------------
(***************************************************************************)
(* What is kept on disk: the document that is saved (AtomicSave), the      *)
(* skills (Skills) and the accounts of usage (UsageRecovery), for any      *)
(* number of processes.  The save protocol comes first; then what a        *)
(* discovery makes of a listing, by induction over the candidates (a       *)
(* smallest counterexample); then the invariant of install, create and     *)
(* remove, whose steps are those of one command: that change a file, that  *)
(* look, and that move a directory; then what the ledger of usage adds up  *)
(* to, line by line, and the invariant of a run's three places.            *)
(***************************************************************************)
EXTENDS MCStores, UsageRecovery, FiniteSetTheorems, SequenceTheorems, WellFoundedInduction, TLAPS

-----------------------------------------------------------------------------
(* The save protocol: with one save at a time the temporary file and the   *)
(* rename make a file that is never half written and that changes by whole *)
(* updates, wherever processes are killed and for any number of them.      *)
\* At most one writer is at work.
OneAtATime ==
  \A v, w \in Writers : writer[v].at # "idle" /\ writer[w].at # "idle" => v = w

\* What a writer at work may rely on: the temporary file is its own, and what
\* it is going to save is what is stored and one update more.
OwnsTmp(w) ==
  /\ writer[w].at # "opened" => writer[w].file = None
  /\ writer[w].at = "opened" =>
       /\ writer[w].file = tmp /\ tmp \in Inodes /\ content[tmp] = Torn
  /\ writer[w].at = "written" => tmp \in Inodes /\ content[tmp] = writer[w].copy

AddsOne(w) ==
  writer[w].at # "idle" => \E u \in Updates : writer[w].copy = Store!Held \cup {u}

NamesApart == tmp # None => path # tmp

IInv ==
  /\ TypeOK /\ AlwaysReadable /\ NamesApart
  /\ OneAtATime
  /\ \A w \in Writers : OwnsTmp(w) /\ AddsOne(w)

\* The initial state satisfies the invariant.
LEMMA InitIInv == Init => IInv
<1> SUFFICES ASSUME Init PROVE IInv
  OBVIOUS
<1>1. IdleWriter \in [at : {"idle", "loaded", "opened", "written"},
                     copy : SUBSET Updates, file : Inodes \cup {None}]
  BY DEF IdleWriter
<1>2. TypeOK
  <2>1. writer \in [Writers -> [at : {"idle", "loaded", "opened", "written"},
                               copy : SUBSET Updates, file : Inodes \cup {None}]]
    BY <1>1 DEF Init
  <2>2. content \in [Inodes -> (SUBSET Updates) \cup {Torn}]
    BY Zenon DEF Init, Empty
  <2> QED BY <2>1, <2>2 DEF TypeOK, Init
<1>3. AlwaysReadable /\ NamesApart
  BY SaveAssumption DEF AlwaysReadable, NamesApart, Init, Stored
<1>4. \A w \in Writers : writer[w].at = "idle" /\ writer[w].file = None
  BY DEF Init, IdleWriter
<1> QED BY <1>2, <1>3, <1>4 DEF IInv, OneAtATime, OwnsTmp, AddsOne

\* A writer that works leaves the others idle.
LEMMA OthersIdle ==
  ASSUME OneAtATime, NEW w \in Writers, writer[w].at # "idle"
  PROVE  \A v \in Writers : v # w => writer[v].at = "idle"
  BY DEF OneAtATime

\* A step of one writer keeps the others idle and at most one at work.
LEMMA StaysAlone ==
  ASSUME TypeOK, NEW w \in Writers, NEW rec,
         \A v \in Writers : v # w => writer[v].at = "idle",
         writer' = [writer EXCEPT ![w] = rec]
  PROVE  /\ OneAtATime'
         /\ writer'[w] = rec
         /\ \A v \in Writers : v # w => writer'[v] = writer[v] /\ writer'[v].at = "idle"
<1>1. writer'[w] = rec
  BY DEF TypeOK
<1>2. \A v \in Writers : v # w => writer'[v] = writer[v]
  BY DEF TypeOK
<1> QED BY <1>1, <1>2 DEF OneAtATime

\* Loading begins a save from what is stored.
LEMMA LoadStep ==
  ASSUME IInv, Exclusive = TRUE, NEW w \in Writers, NEW u \in Updates, Load(w, u)
  PROVE  IInv' /\ Stored' = Stored
<1> DEFINE base == IF Stored = NoValue THEN {} ELSE Stored
           rec == [at |-> "loaded", file |-> None, copy |-> base \cup {u}]
<1>1. \A v \in Writers : writer[v].at = "idle"
  BY DEF Load, MayBegin
<1>2. /\ OneAtATime' /\ writer'[w] = rec
      /\ \A v \in Writers : v # w => writer'[v] = writer[v] /\ writer'[v].at = "idle"
  <2>1. writer' = [writer EXCEPT ![w] = rec]
    BY DEF Load
  <2>2. \A v \in Writers : v # w => writer[v].at = "idle"
    BY <1>1
  <2>3. TypeOK
    BY DEF IInv
  <2> HIDE DEF rec
  <2> QED BY <2>1, <2>2, <2>3, StaysAlone
<1>3. base = Store!Held
  BY DEF Store!Held
<1>4. base \subseteq Updates
  <2>1. CASE path = None
    BY <2>1 DEF Stored
  <2>2. CASE path # None
    <3>1. content[path] \in (SUBSET Updates) \cup {Torn} /\ Stored = content[path]
      BY <2>2 DEF Stored, IInv, TypeOK
    <3>2. Stored # Torn
      BY DEF Load
    <3>3. Stored \in SUBSET Updates
      BY <3>1, <3>2, Zenon
    <3> QED BY <3>3
  <2> QED BY <2>1, <2>2
<1>5. /\ rec \in [at : {"idle", "loaded", "opened", "written"},
                  copy : SUBSET Updates, file : Inodes \cup {None}]
      /\ rec.at = "loaded" /\ rec.file = None /\ rec.copy = base \cup {u}
  BY <1>4
<1> HIDE DEF base, rec
<1>6. Stored' = Stored
  BY DEF Load, Stored
<1>7. Store!Held' = Store!Held
  BY <1>6 DEF Store!Held
<1>8. TypeOK'
  <2>1. writer' = [writer EXCEPT ![w] = rec]
    BY DEF Load, rec, base
  <2> QED BY <2>1, <1>5 DEF TypeOK, IInv, Load
<1>9. AlwaysReadable' /\ NamesApart'
  BY <1>6 DEF AlwaysReadable, NamesApart, Load, IInv
<1>10. \A v \in Writers : OwnsTmp(v)' /\ AddsOne(v)'
  <2> TAKE v \in Writers
  <2>1. CASE v = w
    BY <2>1, <1>2, <1>3, <1>5, <1>7 DEF OwnsTmp, AddsOne
  <2>2. CASE v # w
    BY <2>2, <1>2 DEF OwnsTmp, AddsOne, IInv
  <2> QED BY <2>1, <2>2
<1> QED BY <1>2, <1>6, <1>8, <1>9, <1>10 DEF IInv

\* Opening the temporary file empties no file that has the stored name.
LEMMA OpenStep ==
  ASSUME IInv, NEW w \in Writers, OpenTmp(w)
  PROVE  IInv' /\ Stored' = Stored
<1> PICK i \in Inodes :
      /\ IF tmp = None THEN Free(i) ELSE i = tmp
      /\ tmp' = i
      /\ content' = [content EXCEPT ![i] = Empty]
      /\ writer' = [writer EXCEPT ![w] =
           [at |-> "opened", copy |-> writer[w].copy, file |-> i]]
  BY DEF OpenTmp
<1> DEFINE rec == [at |-> "opened", copy |-> writer[w].copy, file |-> i]
<1>1. path # i
  BY SaveAssumption DEF Free, IInv, NamesApart, TypeOK
<1>2. \A v \in Writers : v # w => writer[v].at = "idle"
  BY OthersIdle DEF IInv, OpenTmp
<1>3. /\ OneAtATime' /\ writer'[w] = rec
      /\ \A v \in Writers : v # w => writer'[v] = writer[v] /\ writer'[v].at = "idle"
  BY <1>2, StaysAlone DEF IInv
<1>4. /\ rec \in [at : {"idle", "loaded", "opened", "written"},
                  copy : SUBSET Updates, file : Inodes \cup {None}]
      /\ rec.at = "opened" /\ rec.file = i /\ rec.copy = writer[w].copy
  BY DEF IInv, TypeOK
<1>5. writer' = [writer EXCEPT ![w] = rec]
  OBVIOUS
<1> HIDE DEF rec
<1>6. path' = path /\ content'[i] = Torn /\ \A j \in Inodes : j # i => content'[j] = content[j]
  BY DEF OpenTmp, Empty, IInv, TypeOK
<1>7. Stored' = Stored
  BY <1>1, <1>6 DEF Stored, IInv, TypeOK
<1>8. Store!Held' = Store!Held
  BY <1>7 DEF Store!Held
<1>9. TypeOK'
  <2>1. content' \in [Inodes -> (SUBSET Updates) \cup {Torn}]
    <3>1. content \in [Inodes -> (SUBSET Updates) \cup {Torn}]
      BY DEF TypeOK, IInv
    <3>2. Torn \in (SUBSET Updates) \cup {Torn}
      BY Zenon
    <3>3. content' = [content EXCEPT ![i] = Torn]
      BY DEF Empty
    <3> QED BY <3>1, <3>2, <3>3, Zenon
  <2>2. writer' \in [Writers -> [at : {"idle", "loaded", "opened", "written"},
                                copy : SUBSET Updates, file : Inodes \cup {None}]]
    BY <1>4, <1>5 DEF TypeOK, IInv
  <2> QED BY <2>1, <2>2, <1>6 DEF TypeOK, IInv
<1>10. AlwaysReadable' /\ NamesApart'
  BY <1>1, <1>6, <1>7 DEF AlwaysReadable, NamesApart, IInv
<1>11. \A v \in Writers : OwnsTmp(v)' /\ AddsOne(v)'
  <2> TAKE v \in Writers
  <2>1. CASE v = w
    <3>1. \E u \in Updates : writer[w].copy = Store!Held \cup {u}
      BY DEF OpenTmp, IInv, AddsOne
    <3> QED BY <2>1, <3>1, <1>3, <1>4, <1>6, <1>8 DEF OwnsTmp, AddsOne
  <2>2. CASE v # w
    BY <2>2, <1>3 DEF OwnsTmp, AddsOne, IInv
  <2> QED BY <2>1, <2>2
<1> QED BY <1>3, <1>7, <1>9, <1>10, <1>11 DEF IInv

\* The whole copy is written: nobody else has written to the same file.
LEMMA WriteStep ==
  ASSUME IInv, NEW w \in Writers, WriteTmp(w)
  PROVE  IInv' /\ Stored' = Stored
<1> DEFINE rec == [at |-> "written", copy |-> writer[w].copy, file |-> None]
<1>1. writer[w].file = tmp /\ tmp \in Inodes /\ content[tmp] = Torn
  BY DEF IInv, OwnsTmp, WriteTmp
<1>2. content' = [content EXCEPT ![tmp] = writer[w].copy]
  BY <1>1 DEF WriteTmp, Empty
<1>3. \A v \in Writers : v # w => writer[v].at = "idle"
  BY OthersIdle DEF IInv, WriteTmp
<1>4. writer' = [writer EXCEPT ![w] = rec]
  BY DEF WriteTmp
<1>5. /\ OneAtATime' /\ writer'[w] = rec
      /\ \A v \in Writers : v # w => writer'[v] = writer[v] /\ writer'[v].at = "idle"
  BY <1>3, <1>4, StaysAlone DEF IInv
<1>6. /\ rec \in [at : {"idle", "loaded", "opened", "written"},
                  copy : SUBSET Updates, file : Inodes \cup {None}]
      /\ rec.at = "written" /\ rec.file = None /\ rec.copy = writer[w].copy
  BY DEF IInv, TypeOK
<1> HIDE DEF rec
<1>7. tmp' = tmp /\ path' = path /\ path # tmp
  BY <1>1, SaveAssumption DEF WriteTmp, IInv, NamesApart
<1>8. /\ content'[tmp] = writer[w].copy
      /\ \A j \in Inodes : j # tmp => content'[j] = content[j]
  BY <1>1, <1>2 DEF IInv, TypeOK
<1>9. Stored' = Stored
  BY <1>7, <1>8 DEF Stored, IInv, TypeOK
<1>10. Store!Held' = Store!Held
  BY <1>9 DEF Store!Held
<1>11. TypeOK'
  BY <1>2, <1>4, <1>6, <1>7 DEF TypeOK, IInv
<1>12. AlwaysReadable' /\ NamesApart'
  BY <1>7, <1>9 DEF AlwaysReadable, NamesApart, IInv
<1>13. \A v \in Writers : OwnsTmp(v)' /\ AddsOne(v)'
  <2> TAKE v \in Writers
  <2>1. CASE v = w
    <3>1. \E u \in Updates : writer[w].copy = Store!Held \cup {u}
      BY DEF WriteTmp, IInv, AddsOne
    <3> QED BY <2>1, <3>1, <1>1, <1>5, <1>6, <1>7, <1>8, <1>10 DEF OwnsTmp, AddsOne
  <2>2. CASE v # w
    BY <2>2, <1>5 DEF OwnsTmp, AddsOne, IInv
  <2> QED BY <2>1, <2>2
<1> QED BY <1>5, <1>9, <1>11, <1>12, <1>13 DEF IInv

\* The rename adds exactly one update to what is stored.
LEMMA RenameStep ==
  ASSUME IInv, NEW w \in Writers, Rename(w)
  PROVE  IInv' /\ \E u \in Updates : Store!Add(u)
<1>1. tmp \in Inodes /\ content[tmp] = writer[w].copy
  BY DEF IInv, OwnsTmp, Rename
<1>2. PICK u \in Updates : writer[w].copy = Store!Held \cup {u}
  BY DEF Rename, IInv, AddsOne
<1>3. path' = tmp /\ tmp' = None /\ content' = content
  BY <1>1, SaveAssumption DEF Rename
<1>4. Stored' = Store!Held \cup {u}
  BY <1>1, <1>2, <1>3, SaveAssumption DEF Stored
<1>5. \A v \in Writers : v # w => writer[v].at = "idle"
  BY OthersIdle DEF IInv, Rename
<1>6. writer' = [writer EXCEPT ![w] = IdleWriter]
  BY DEF Rename
<1>7. /\ OneAtATime' /\ writer'[w] = IdleWriter
      /\ \A v \in Writers : v # w => writer'[v] = writer[v] /\ writer'[v].at = "idle"
  BY <1>5, <1>6, StaysAlone DEF IInv
<1>8. TypeOK'
  BY <1>1, <1>3, <1>6 DEF TypeOK, IInv, IdleWriter
<1>9. AlwaysReadable' /\ NamesApart'
  <2>1. writer[w].copy \in SUBSET Updates
    BY DEF IInv, TypeOK
  <2> QED BY <2>1, <1>2, <1>3, <1>4, SaveAssumption DEF AlwaysReadable, NamesApart
<1>10. \A v \in Writers : OwnsTmp(v)' /\ AddsOne(v)'
  BY <1>5, <1>7 DEF OwnsTmp, AddsOne, IInv, IdleWriter
<1>11. Store!Add(u)
  BY <1>4 DEF Store!Add
<1> QED BY <1>7, <1>8, <1>9, <1>10, <1>11 DEF IInv

\* A crash leaves the file as it is.
LEMMA CrashStep ==
  ASSUME IInv, NEW w \in Writers, Crash(w)
  PROVE  IInv' /\ Stored' = Stored
<1>1. \A v \in Writers : v # w => writer[v].at = "idle"
  BY OthersIdle DEF IInv, Crash
<1>2. writer' = [writer EXCEPT ![w] = IdleWriter]
  BY DEF Crash
<1>3. /\ OneAtATime' /\ writer'[w] = IdleWriter
      /\ \A v \in Writers : v # w => writer'[v] = writer[v] /\ writer'[v].at = "idle"
  BY <1>1, <1>2, StaysAlone DEF IInv
<1>4. Stored' = Stored
  BY DEF Crash, Stored
<1>5. TypeOK'
  BY <1>2 DEF TypeOK, IInv, IdleWriter, Crash
<1>6. AlwaysReadable' /\ NamesApart'
  BY <1>4 DEF AlwaysReadable, NamesApart, IInv, Crash
<1>7. \A v \in Writers : OwnsTmp(v)' /\ AddsOne(v)'
  BY <1>1, <1>3 DEF OwnsTmp, AddsOne, IInv, IdleWriter
<1> QED BY <1>3, <1>4, <1>5, <1>6, <1>7 DEF IInv

\* A delete happens between saves.
LEMMA RemoveStep ==
  ASSUME IInv, Exclusive = TRUE, Remove
  PROVE  IInv' /\ Store!Delete
<1>1. Stored' = NoValue
  BY DEF Remove, Stored
<1>2. \A v \in Writers : writer[v].at = "idle"
  BY DEF Remove
<1>3. TypeOK' /\ NamesApart' /\ OneAtATime'
  BY DEF TypeOK, NamesApart, OneAtATime, IInv, Remove
<1>4. \A v \in Writers : OwnsTmp(v)' /\ AddsOne(v)'
  BY <1>2 DEF OwnsTmp, AddsOne, IInv, Remove
<1> QED BY <1>1, <1>3, <1>4, SaveAssumption DEF IInv, AlwaysReadable, Store!Delete

\* Every step keeps the invariant and is a step of the store, or none.
LEMMA StepRefines ==
  ASSUME IInv, Exclusive = TRUE, [Next]_vars
  PROVE  IInv' /\ [Store!Next]_Stored
<1>1. CASE UNCHANGED vars
  BY <1>1 DEF vars, IInv, TypeOK, AlwaysReadable, NamesApart, OneAtATime, OwnsTmp, AddsOne,
     Stored, Store!Held
<1>2. ASSUME NEW w \in Writers, NEW u \in Updates, Load(w, u)
      PROVE  IInv' /\ [Store!Next]_Stored
  BY <1>2, LoadStep
<1>3. ASSUME NEW w \in Writers, OpenTmp(w)
      PROVE  IInv' /\ [Store!Next]_Stored
  BY <1>3, OpenStep
<1>4. ASSUME NEW w \in Writers, WriteTmp(w)
      PROVE  IInv' /\ [Store!Next]_Stored
  BY <1>4, WriteStep
<1>5. ASSUME NEW w \in Writers, Rename(w)
      PROVE  IInv' /\ [Store!Next]_Stored
  BY <1>5, RenameStep DEF Store!Next
<1>6. ASSUME NEW w \in Writers, Crash(w)
      PROVE  IInv' /\ [Store!Next]_Stored
  BY <1>6, CrashStep
<1>7. CASE Remove
  BY <1>7, RemoveStep DEF Store!Next
<1> QED BY <1>1, <1>2, <1>3, <1>4, <1>5, <1>6, <1>7 DEF Next

\* With one save at a time the invariant holds.
LEMMA InvariantHolds == Exclusive = TRUE /\ Spec => []IInv
<1> SUFFICES ASSUME Exclusive = TRUE PROVE Spec => []IInv
  OBVIOUS
<1>1. IInv /\ [Next]_vars => IInv'
  BY StepRefines
<1> QED BY <1>1, InitIInv, PTL DEF Spec

\* A reader finds a whole file at every moment of every save, also after a
\* crash in the middle of one, if saves do not overlap.
THEOREM NeverHalfWritten == Exclusive = TRUE /\ Spec => []AlwaysReadable
<1>1. IInv => AlwaysReadable
  BY DEF IInv
<1> QED BY <1>1, InvariantHolds, PTL

\* Saves that do not overlap implement the store: the file changes by one whole
\* update at a time, made of what was there.
THEOREM SavesImplementStore == Exclusive = TRUE /\ Spec => ImplementsStore
<1> SUFFICES ASSUME Exclusive = TRUE PROVE Spec => ImplementsStore
  OBVIOUS
<1>1. Init => Store!Init
  BY DEF Init, Store!Init, Stored
<1>2. IInv /\ [Next]_vars => [Store!Next]_Stored
  BY StepRefines
<1>3. Spec => []IInv
  BY InvariantHolds
<1> QED BY <1>1, <1>2, <1>3, PTL DEF Spec, ImplementsStore, Store!Spec

-----------------------------------------------------------------------------
(* Skills: what a discovery finds.                                         *)

Less == {ss \in Nat \X Nat : ss[1] < ss[2]}

LEMMA LessIsWellFounded == IsWellFoundedOn(Less, Nat)
BY NatLessThanWellFounded DEF OpToRel, Less

\* A set of natural numbers that is not empty has a smallest.
LEMMA Least ==
  ASSUME NEW S \in SUBSET Nat, S # {}
  PROVE  \E m \in S : \A n \in S : m <= n
<1>1. PICK m \in S : \A n \in S : ~(<<n, m>> \in Less)
  BY LessIsWellFounded, WFMin
<1>2. \A n \in S : ~(n < m)
  BY <1>1 DEF Less
<1> QED BY <1>2

\* The catalogue after each of the candidates, by its equation.
IsCatalog(f, seq, n) ==
  f = [i \in 0 .. n |-> IF i = 0 THEN {} ELSE K!Add(f[i - 1], seq[i])]

LEMMA CatalogExists ==
  ASSUME NEW seq, NEW n \in Nat
  PROVE  \E f : IsCatalog(f, seq, n)
<1> DEFINE Bad == {k \in 0 .. n : ~ \E f : IsCatalog(f, seq, k)}
<1>1. Bad = {}
  <2> SUFFICES ASSUME Bad # {} PROVE FALSE
    OBVIOUS
  <2>1. PICK k \in Bad : \A l \in Bad : k <= l
    <3> Bad \in SUBSET Nat
      OBVIOUS
    <3> HIDE DEF Bad
    <3> QED BY Least
  <2>2. CASE k = 0
    <3> DEFINE g == [i \in 0 .. 0 |-> {}]
    <3>1. g = [i \in 0 .. 0 |-> IF i = 0 THEN {} ELSE K!Add(g[i - 1], seq[i])]
      OBVIOUS
    <3> HIDE DEF g
    <3>2. IsCatalog(g, seq, 0)
      BY <3>1 DEF IsCatalog
    <3> QED BY <2>1, <2>2, <3>2
  <2>3. CASE k > 0
    <3>1. k \in Nat /\ k - 1 \in 0 .. n /\ k - 1 \notin Bad
      BY <2>1, <2>3
    <3>2. PICK f : IsCatalog(f, seq, k - 1)
      BY <3>1
    <3>3. /\ f = [i \in 0 .. k - 1 |-> f[i]]
          /\ \A i \in 0 .. k - 1 : f[i] = IF i = 0 THEN {} ELSE K!Add(f[i - 1], seq[i])
      BY <3>2, Zenon DEF IsCatalog
    <3> DEFINE g == [i \in 0 .. k |-> IF i = k THEN K!Add(f[k - 1], seq[k]) ELSE f[i]]
    <3>4. \A i \in 0 .. k : g[i] = IF i = 0 THEN {} ELSE K!Add(g[i - 1], seq[i])
      <4> TAKE i \in 0 .. k
      <4>1. CASE i = k
        <5>1. g[i] = K!Add(f[k - 1], seq[k]) /\ g[i - 1] = f[k - 1] /\ i # 0
          BY <2>3, <3>1, <4>1
        <5> QED BY <4>1, <5>1
      <4>2. CASE i # k
        <5>1. i \in 0 .. k - 1 /\ g[i] = f[i] /\ (i # 0 => g[i - 1] = f[i - 1])
          BY <3>1, <4>2
        <5> QED BY <3>3, <5>1
      <4> QED BY <4>1, <4>2
    <3>5. g = [i \in 0 .. k |-> g[i]]
      OBVIOUS
    <3> HIDE DEF g
    <3>6. IsCatalog(g, seq, k)
      BY <3>4, <3>5, Zenon DEF IsCatalog
    <3> QED BY <2>1, <3>6
  <2> QED BY <2>1, <2>2, <2>3
<1> QED BY <1>1

\* The candidate j is the first valid one of its name.
First(seq, j) ==
  /\ seq[j].name # "invalid"
  /\ \A l \in 1 .. j - 1 : seq[l].name # seq[j].name
Firsts(seq, n) == {seq[j] : j \in {i \in 1 .. n : First(seq, i)}}

\* A name a valid candidate has is the name of a first one.
LEMMA SomeFirst ==
  ASSUME NEW seq, NEW n \in Nat, NEW l \in 1 .. n, seq[l].name # "invalid"
  PROVE  \E s \in Firsts(seq, n) : s.name = seq[l].name
<1> DEFINE Same == {i \in 1 .. n : seq[i].name = seq[l].name}
<1>1. PICK m \in Same : \A i \in Same : m <= i
  <2> Same \in SUBSET Nat /\ l \in Same
    OBVIOUS
  <2> HIDE DEF Same
  <2> QED BY Least
<1>2. First(seq, m)
  BY <1>1 DEF First
<1> QED BY <1>1, <1>2 DEF Firsts

LEMMA FirstsGrow ==
  ASSUME NEW seq, NEW n \in Nat \ {0}
  PROVE  Firsts(seq, n) = K!Add(Firsts(seq, n - 1), seq[n])
<1>1. CASE First(seq, n)
  <2>1. Firsts(seq, n) = Firsts(seq, n - 1) \cup {seq[n]}
    BY <1>1 DEF Firsts
  <2>2. seq[n].name # "invalid" /\ ~ \E s \in Firsts(seq, n - 1) : s.name = seq[n].name
    BY <1>1 DEF First, Firsts
  <2> QED BY <2>1, <2>2 DEF K!Add
<1>2. CASE ~First(seq, n)
  <2>1. Firsts(seq, n) = Firsts(seq, n - 1)
    BY <1>2 DEF Firsts
  <2>2. seq[n].name = "invalid" \/ \E s \in Firsts(seq, n - 1) : s.name = seq[n].name
    <3> SUFFICES ASSUME seq[n].name # "invalid"
                 PROVE  \E s \in Firsts(seq, n - 1) : s.name = seq[n].name
      OBVIOUS
    <3>1. PICK l \in 1 .. n - 1 : seq[l].name = seq[n].name
      BY <1>2 DEF First
    <3>2. \E s \in Firsts(seq, n - 1) : s.name = seq[l].name
      BY <3>1, SomeFirst
    <3> QED BY <3>1, <3>2
  <2> QED BY <2>1, <2>2 DEF K!Add
<1> QED BY <1>1, <1>2

LEMMA CatalogIsFirsts ==
  ASSUME NEW seq, NEW n \in Nat, NEW f, IsCatalog(f, seq, n)
  PROVE  f[n] = Firsts(seq, n)
<1> DEFINE Bad == {k \in 0 .. n : f[k] # Firsts(seq, k)}
<1>1. \A i \in 0 .. n : f[i] = IF i = 0 THEN {} ELSE K!Add(f[i - 1], seq[i])
  BY Zenon DEF IsCatalog
<1>2. Bad = {}
  <2> SUFFICES ASSUME Bad # {} PROVE FALSE
    OBVIOUS
  <2>1. PICK k \in Bad : \A l \in Bad : k <= l
    <3> Bad \in SUBSET Nat
      OBVIOUS
    <3> HIDE DEF Bad
    <3> QED BY Least
  <2>2. Firsts(seq, 0) = {}
    BY DEF Firsts
  <2>3. k \in Nat \ {0} /\ k - 1 \in 0 .. n
    BY <1>1, <2>1, <2>2
  <2>4. f[k - 1] = Firsts(seq, k - 1)
    BY <2>1, <2>3
  <2>5. f[k] = K!Add(f[k - 1], seq[k])
    BY <1>1, <2>1, <2>3
  <2>6. f[k] = Firsts(seq, k)
    BY <2>3, <2>4, <2>5, FirstsGrow
  <2> QED BY <2>1, <2>6
<1> QED BY <1>2

\* The instance has the finite sets of the library.
LEMMA SameFinite == ASSUME NEW S, K!IsFiniteSet(S) PROVE IsFiniteSet(S)
BY DEF K!IsFiniteSet, IsFiniteSet

LEMMA SameCardinality == ASSUME NEW S PROVE K!Cardinality(S) = Cardinality(S)
BY DEF K!Cardinality, Cardinality

LEMMA SeqWidens ==
  ASSUME NEW A, NEW B, A \subseteq B, NEW s \in Seq(A)
  PROVE  s \in Seq(B)
BY ElementOfSeq

\* What a discovery finds in the roots that are not the managed one.
Others == [name : STRING, dir : STRING, managed : {FALSE}]

\* A skill of the managed root, as a discovery has it.
Own(listing) == {K!Managed(listing)[i] : i \in DOMAIN listing}

LEMMA OwnAreNamed ==
  ASSUME K!SkillsAssumption, NEW listing \in K!Listings
  PROVE  /\ K!Managed(listing) \in Seq(Own(listing))
         /\ \A o \in Own(listing) : o.dir \in Names
<1>1. listing \in [1 .. K!Cardinality(K!Candidates) -> Names] /\ K!Cardinality(K!Candidates) \in Nat
  <2>1. K!Candidates \subseteq Names
    BY DEF K!Candidates
  <2>2. IsFiniteSet(Names)
    BY SameFinite, Zenon DEF K!SkillsAssumption
  <2>3. IsFiniteSet(K!Candidates)
    BY <2>1, <2>2, FS_Subset
  <2>4. K!Cardinality(K!Candidates) \in Nat
    BY <2>3, FS_CardinalityType, SameCardinality
  <2>5. listing \in [1 .. K!Cardinality(K!Candidates) -> K!Candidates]
    BY DEF K!Listings
  <2> QED BY <2>1, <2>4, <2>5
<1> QED BY <1>1 DEF K!Managed, Own

\* A discovery takes the first valid candidate of each name.
LEMMA DiscoveredAreFirsts ==
  ASSUME K!SkillsAssumption, NEW listing \in K!Listings
  PROVE  LET seq == K!collect_roots(listing)
         IN  /\ seq \in Seq(Others \cup Own(listing))
             /\ K!discover(listing) = Firsts(seq, Len(seq))
<1> DEFINE seq == K!collect_roots(listing)
           upto[i \in 0 .. Len(seq)] == IF i = 0 THEN {} ELSE K!Add(upto[i - 1], seq[i])
<1>1. seq \in Seq(Others \cup Own(listing))
  <2>1. Before \in Seq(Others) /\ After \in Seq(Others)
    BY Zenon DEF K!SkillsAssumption, Others
  <2>2. /\ Before \in Seq(Others \cup Own(listing)) /\ After \in Seq(Others \cup Own(listing))
        /\ K!Managed(listing) \in Seq(Others \cup Own(listing))
    BY <2>1, OwnAreNamed, SeqWidens
  <2> QED BY <2>2 DEF K!collect_roots
<1> HIDE DEF seq
<1>2. K!discover(listing) = upto[Len(seq)]
  BY DEF K!discover, seq
<1>3. Len(seq) \in Nat
  BY <1>1
<1>4. PICK f : IsCatalog(f, seq, Len(seq))
  BY <1>3, CatalogExists, Zenon
<1>5. IsCatalog(upto, seq, Len(seq))
  BY <1>4 DEF IsCatalog
<1> HIDE DEF upto
<1>6. upto[Len(seq)] = Firsts(seq, Len(seq))
  BY <1>3, <1>5, CatalogIsFirsts, Zenon
<1> QED BY <1>1, <1>2, <1>6 DEF seq

LEMMA ManagedAreNamed ==
  ASSUME K!SkillsAssumption, NEW listing \in K!Listings, NEW s \in K!discover(listing), s.managed
  PROVE  s.dir \in Names
<1> DEFINE seq == K!collect_roots(listing)
<1>1. seq \in Seq(Others \cup Own(listing)) /\ K!discover(listing) = Firsts(seq, Len(seq))
  BY DiscoveredAreFirsts, Zenon
<1> HIDE DEF seq
<1>2. s \in Others \cup Own(listing)
  BY <1>1 DEF Firsts
<1> QED BY <1>2, OwnAreNamed DEF Others

\* Discovery (collect_roots, add): whatever the order of a listing, the catalogue
\* has every name a valid candidate has, each from the first root that has it, and
\* a candidate that is not valid keeps no name from another.
THEOREM FirstRootHasIt == FirstRootWins
<1> SUFFICES ASSUME NEW listing \in K!Listings
    PROVE  LET seq == K!collect_roots(listing)
               valid == {i \in DOMAIN seq : seq[i].name # "invalid"}
           IN  K!discover(listing) =
                 {seq[i] : i \in {j \in valid : \A k \in valid : k < j => seq[k].name # seq[j].name}}
  BY Zenon DEF FirstRootWins, K!FirstRootWins
<1> DEFINE seq == K!collect_roots(listing)
           valid == {i \in DOMAIN seq : seq[i].name # "invalid"}
<1>1. seq \in Seq(Others \cup Own(listing)) /\ K!discover(listing) = Firsts(seq, Len(seq))
  BY StoresAssumption, DiscoveredAreFirsts, Zenon
<1> HIDE DEF seq
<1>2. DOMAIN seq = 1 .. Len(seq) /\ Len(seq) \in Nat
  BY <1>1
<1>3. {j \in 1 .. Len(seq) : First(seq, j)} = {j \in valid : \A k \in valid : k < j => seq[k].name # seq[j].name}
  BY <1>2 DEF First
<1>4. K!discover(listing) = {seq[i] : i \in {j \in valid : \A k \in valid : k < j => seq[k].name # seq[j].name}}
  BY <1>1, <1>3 DEF Firsts
<1> QED BY <1>4 DEF seq

-----------------------------------------------------------------------------
(* Skills: the inductive invariant.                                        *)

\* Stages at which an install has a skill in hand, and those at which a name
\* someone asked to create or to remove is worked on.
Copying == {"stage", "copy", "aside", "commit", "committed", "restore", "failed"}
Changing == {"open", "write", "removing", "unlink"}
Returns == {"commit", "restore", "dead"}

Contents == DOMAIN Tree \cup {K!NoFile, K!TornFile, K!Template}
IsWhole(f) == \E d \in DOMAIN Tree : f = [x \in K!Files |-> d]

IsActor(x) ==
  x = [at |-> x.at, name |-> x.name, held |-> x.held, tree |-> x.tree, filter |-> x.filter,
       cloned |-> x.cloned, stack |-> x.stack, skip |-> x.skip, names |-> x.names, got |-> x.got]

\* What the command x says of itself, t the names that were touched.
Sound(x, t) ==
  /\ IsActor(x)
  /\ x.held \in Dirs \cup {0} /\ x.stack \in Seq(DOMAIN Tree)
  /\ x.at \in Copying => x.name \in Names /\ x.tree \in DOMAIN Tree
  /\ x.at \in Changing => x.name \in t
  /\ x.held # 0 <=> x.at \in {"write", "unlink"}

\* What is in its transaction: s is the directory of the copy, which holds sf,
\* and b the one that was moved aside, which holds bf.
Keeps(x, s, b, sf, bf, t) ==
  /\ x.at \in {"copy", "aside", "commit", "restore"} => s # 0
  /\ s # 0 => x.at \in {"copy", "aside", "commit", "restore", "failed", "dead"}
  /\ b # 0 => x.at \in {"commit", "committed", "restore", "failed", "dead"} /\ x.name \in Names
  /\ x.at = "copy" => \A f \in K!Files : sf[f] \in {K!NoFile, x.tree}
  /\ x.at \in {"aside", "commit"} => IsWhole(sf)
  /\ b # 0 /\ x.name \notin t => IsWhole(bf)

Owner(a) ==
  /\ Sound(actor[a], touched)
  /\ Keeps(actor[a], at[K!Staged(a)], at[K!Backup(a)],
           files[at[K!Staged(a)]], files[at[K!Backup(a)]], touched)

\* A directory someone has open is at the name that was asked for, or was moved
\* aside from there.
Tied(p, n) == p = K!Skill(n) \/ \E b \in Actors : p = K!Backup(b) /\ actor[b].name = n
Held(a) == actor[a].held # 0 => \A p \in K!Paths : at[p] = actor[a].held => Tied(p, actor[a].name)

Apart == \A p, q \in K!Paths : at[p] = at[q] /\ at[p] # 0 => p = q

\* There is a directory under n, or one someone will bring back or was killed
\* before bringing back.
Lasts(n) ==
  \/ at[K!Skill(n)] # 0
  \/ \E b \in Actors : actor[b].name = n /\ actor[b].at \in Returns /\ at[K!Backup(b)] # 0

Typed ==
  /\ at \in [K!Paths -> Dirs \cup {0}]
  /\ files \in [Dirs -> [K!Files -> Contents]]
  /\ actor = [a \in Actors |-> actor[a]]
  /\ touched \subseteq Names /\ installed \subseteq Names

SkillsInv ==
  /\ Typed /\ Apart
  /\ \A a \in Actors : Owner(a)
  /\ \A a \in Actors : Held(a)
  /\ \A n \in Names \ touched : at[K!Skill(n)] # 0 => IsWhole(files[at[K!Skill(n)]])
  /\ \A n \in installed \ touched : Lasts(n)

-----------------------------------------------------------------------------
(* Lemmas about paths and records.                                         *)

LEMMA PathsApart ==
  /\ \A n, m : K!Skill(n) = K!Skill(m) => n = m
  /\ \A a, b : K!Staged(a) = K!Staged(b) => a = b
  /\ \A a, b : K!Backup(a) = K!Backup(b) => a = b
  /\ \A n, a : K!Skill(n) # K!Staged(a) /\ K!Skill(n) # K!Backup(a)
  /\ \A a, b : K!Staged(a) # K!Backup(b)
BY DEF K!Skill, K!Staged, K!Backup

LEMMA PathsAre ==
  /\ \A n \in Names : K!Skill(n) \in K!Paths
  /\ \A a \in Actors : K!Staged(a) \in K!Paths /\ K!Backup(a) \in K!Paths
  /\ \A p \in K!Paths : \/ \E n \in Names : p = K!Skill(n)
                        \/ \E a \in Actors : p = K!Staged(a) \/ p = K!Backup(a)
BY Zenon DEF K!Paths

\* A command that goes on.
LEMMA GoesOn ==
  ASSUME NEW x, IsActor(x), NEW step, NEW y, y = [x EXCEPT !.at = step]
  PROVE  /\ IsActor(y) /\ y.at = step
         /\ y.name = x.name /\ y.held = x.held /\ y.tree = x.tree /\ y.stack = x.stack /\ y.got = x.got
BY DEF IsActor

LEMMA IdleIs == IsActor(K!Idle) /\ K!Idle.at = "idle" /\ K!Idle.held = 0 /\ K!Idle.stack = <<>>
BY DEF IsActor, K!Idle, K!NoDir

-----------------------------------------------------------------------------
(* What a step of one command leaves to the others.                        *)

LEMMA OneActs ==
  ASSUME Typed, NEW a \in Actors, NEW y, actor' = [actor EXCEPT ![a] = y]
  PROVE  /\ actor'[a] = y /\ \A b \in Actors : b # a => actor'[b] = actor[b]
         /\ actor' = [b \in Actors |-> actor'[b]]
BY Zenon DEF Typed

\* What is in the transactions of the others is what it was.
Spares(a) ==
  \A b \in Actors \ {a} :
     /\ at'[K!Staged(b)] = at[K!Staged(b)] /\ at'[K!Backup(b)] = at[K!Backup(b)]
     /\ at[K!Staged(b)] # 0 => files'[at[K!Staged(b)]] = files[at[K!Staged(b)]]
     /\ at[K!Backup(b)] # 0 /\ actor[b].name \notin touched' =>
           files'[at[K!Backup(b)]] = files[at[K!Backup(b)]]

LEMMA OthersStay ==
  ASSUME SkillsInv, NEW a \in Actors, NEW y, actor' = [actor EXCEPT ![a] = y],
         touched \subseteq touched', Spares(a)
  PROVE  \A b \in Actors \ {a} : Owner(b)'
<1> TAKE b \in Actors \ {a}
<1>1. actor'[b] = actor[b]
  BY OneActs DEF SkillsInv
<1>2. Owner(b)
  BY DEF SkillsInv
<1> DEFINE s == at[K!Staged(b)]
           k == at[K!Backup(b)]
           x == actor[b]
<1>3. /\ at'[K!Staged(b)] = s /\ at'[K!Backup(b)] = k
      /\ s # 0 => files'[s] = files[s]
      /\ k # 0 /\ x.name \notin touched' => files'[k] = files[k]
  BY DEF Spares
<1>4. Sound(x, touched) /\ Keeps(x, s, k, files[s], files[k], touched)
  BY <1>2 DEF Owner
<1> HIDE DEF s, k, x
<1>5. Sound(x, touched')
  BY <1>4, Zenon DEF Sound
<1>6. Keeps(x, s, k, files'[s], files'[k], touched')
  <2>1. CASE s = 0
    <3>1. x.at \notin {"copy", "aside", "commit", "restore"}
      BY <1>4, <2>1 DEF Keeps
    <3> QED BY <1>3, <1>4, <2>1, <3>1 DEF Keeps
  <2>2. CASE s # 0
    BY <1>3, <1>4, <2>2 DEF Keeps
  <2> QED BY <2>1, <2>2
<1>7. actor'[b] = x
  BY <1>1 DEF x
<1> QED BY <1>3, <1>5, <1>6, <1>7, Zenon DEF Owner

\* A directory that may change: the copy of the one who acts, or one that is or
\* was at a name that was touched, or one that is nowhere.
Loose(i, a) ==
  \A p \in K!Paths : at[p] = i =>
     \/ p = K!Staged(a)
     \/ \E n \in touched' : p = K!Skill(n)
     \/ \E b \in Actors : p = K!Backup(b) /\ actor[b].name \in touched'

\* One directory at most is changed, and that is loose.
Changes(a) ==
  files' = files \/ \E i \in Dirs : Loose(i, a) /\ \A j \in Dirs \ {i} : files'[j] = files[j]

LEMMA SparesFiles ==
  ASSUME SkillsInv, NEW a \in Actors, Changes(a),
         \A b \in Actors \ {a} : at'[K!Staged(b)] = at[K!Staged(b)] /\ at'[K!Backup(b)] = at[K!Backup(b)]
  PROVE  /\ Spares(a)
         /\ at[K!Backup(a)] # 0 /\ actor[a].name \notin touched' =>
               files'[at[K!Backup(a)]] = files[at[K!Backup(a)]]
         /\ \A n \in Names \ touched' : at[K!Skill(n)] # 0 => files'[at[K!Skill(n)]] = files[at[K!Skill(n)]]
<1>1. CASE files' = files
  BY <1>1 DEF Spares
<1>2. CASE \E i \in Dirs : Loose(i, a) /\ \A j \in Dirs \ {i} : files'[j] = files[j]
  <2>1. PICK i \in Dirs : Loose(i, a) /\ \A j \in Dirs \ {i} : files'[j] = files[j]
    BY <1>2
  <2>2. at \in [K!Paths -> Dirs \cup {0}] /\ Apart
    BY DEF SkillsInv, Typed
  <2>3. \A p \in K!Paths : at[p] # 0 /\ at[p] # i => files'[at[p]] = files[at[p]]
    BY <2>1, <2>2
  <2>4. \A b \in Actors : b # a /\ at[K!Staged(b)] # 0 => at[K!Staged(b)] # i
    BY <2>1, PathsApart, PathsAre DEF Loose
  <2>5. \A b \in Actors : at[K!Backup(b)] # 0 /\ actor[b].name \notin touched' => at[K!Backup(b)] # i
    BY <2>1, PathsApart, PathsAre DEF Loose
  <2>6. \A n \in Names : at[K!Skill(n)] # 0 /\ n \notin touched' => at[K!Skill(n)] # i
    BY <2>1, PathsApart, PathsAre DEF Loose
  <2> QED BY <2>3, <2>4, <2>5, <2>6, PathsAre DEF Spares
<1> QED BY <1>1, <1>2 DEF Changes

\* A command keeps the name it has while something of it was moved aside.
KeepsName(a, y) == y.name = actor[a].name \/ at[K!Backup(a)] = 0

LEMMA TiedStays ==
  ASSUME SkillsInv, NEW a \in Actors, NEW y, actor' = [actor EXCEPT ![a] = y], KeepsName(a, y),
         NEW p \in K!Paths, at[p] # 0, NEW n, Tied(p, n)
  PROVE  Tied(p, n)'
<1>1. actor'[a] = y /\ \A b \in Actors : b # a => actor'[b] = actor[b]
  BY OneActs DEF SkillsInv
<1>2. \A b \in Actors : p = K!Backup(b) => actor'[b].name = actor[b].name
  BY <1>1 DEF KeepsName
<1> QED BY <1>2, Zenon DEF Tied

LEMMA HeldNext ==
  ASSUME NEW b \in Actors, NEW z, z = actor'[b],
         z.held # 0 => \A p \in K!Paths : at'[p] = z.held => Tied(p, z.name)'
  PROVE  Held(b)'
BY Zenon DEF Held, Tied, K!Paths, K!Skill, K!Staged, K!Backup

\* A step that moves nothing.
LEMMA QuietStep ==
  ASSUME SkillsInv, NEW a \in Actors, NEW y, actor' = [actor EXCEPT ![a] = y], at' = at, Changes(a),
         installed' = installed, touched \subseteq touched', touched' \subseteq Names,
         files' \in [Dirs -> [K!Files -> Contents]],
         Sound(y, touched'),
         Keeps(y, at[K!Staged(a)], at[K!Backup(a)],
               files'[at[K!Staged(a)]], files'[at[K!Backup(a)]], touched'),
         y.held # 0 => \A p \in K!Paths : at[p] = y.held => Tied(p, y.name),
         KeepsName(a, y),
         actor[a].at \in Returns /\ at[K!Backup(a)] # 0 =>
            y.at \in Returns \/ at[K!Skill(actor[a].name)] # 0
  PROVE  SkillsInv'
<1>1. /\ actor'[a] = y /\ \A b \in Actors : b # a => actor'[b] = actor[b]
      /\ actor' = [b \in Actors |-> actor'[b]]
  BY OneActs DEF SkillsInv
<1>2. Typed /\ Apart
  BY DEF SkillsInv
<1>3. /\ Spares(a)
      /\ \A n \in Names \ touched' : at[K!Skill(n)] # 0 => files'[at[K!Skill(n)]] = files[at[K!Skill(n)]]
  BY SparesFiles
<1>4. Typed' /\ Apart'
  <2>1. Typed'
    BY <1>1, <1>2, Zenon DEF Typed
  <2>2. Apart'
    BY <1>2 DEF Apart, K!Paths, K!Skill, K!Staged, K!Backup
  <2> QED BY <2>1, <2>2
<1>5. \A b \in Actors : Owner(b)'
  <2>1. \A b \in Actors \ {a} : Owner(b)'
    BY <1>3, OthersStay
  <2>2. Owner(a)'
    BY <1>1, Zenon DEF Owner
  <2> QED BY <2>1, <2>2
<1>6. \A b \in Actors : Held(b)'
  <2> TAKE b \in Actors
  <2>1. PICK z : z = actor'[b]
    OBVIOUS
  <2>2. ASSUME NEW p \in K!Paths, at[p] = z.held, z.held # 0
        PROVE  Tied(p, z.name)'
    <3>1. Tied(p, z.name)
      <4>1. CASE b = a
        BY <1>1, <2>1, <2>2, <4>1
      <4>2. CASE b # a
        <5>1. Held(b) /\ z = actor[b]
          BY <1>1, <2>1, <4>2 DEF SkillsInv
        <5> QED BY <2>2, <5>1 DEF Held
      <4> QED BY <4>1, <4>2
    <3> QED BY <2>2, <3>1, TiedStays
  <2>3. z.held # 0 => \A p \in K!Paths : at[p] = z.held => Tied(p, z.name)'
    BY <2>2, Zenon
  <2> QED BY <2>1, <2>3, HeldNext
<1>7. (\A n \in Names \ touched : at[K!Skill(n)] # 0 => IsWhole(files[at[K!Skill(n)]]))'
  <2>1. \A n \in Names \ touched : at[K!Skill(n)] # 0 => IsWhole(files[at[K!Skill(n)]])
    BY DEF SkillsInv
  <2>2. SUFFICES ASSUME NEW n \in Names \ touched', at[K!Skill(n)] # 0
        PROVE  IsWhole(files'[at[K!Skill(n)]])
    BY DEF IsWhole
  <2> QED BY <1>3, <2>1, <2>2
<1>8. (\A n \in installed \ touched : Lasts(n))'
  <2> SUFFICES ASSUME NEW n \in installed \ touched' PROVE Lasts(n)'
    OBVIOUS
  <2>1. Lasts(n)
    BY DEF SkillsInv
  <2>2. CASE at[K!Skill(n)] # 0
    BY <2>2 DEF Lasts
  <2>3. CASE \E b \in Actors : actor[b].name = n /\ actor[b].at \in Returns /\ at[K!Backup(b)] # 0
    <3>1. PICK b \in Actors : actor[b].name = n /\ actor[b].at \in Returns /\ at[K!Backup(b)] # 0
      BY <2>3
    <3>2. CASE b # a
      BY <1>1, <3>1, <3>2 DEF Lasts
    <3>3. CASE b = a
      <4>1. y.name = n
        BY <3>1, <3>3 DEF KeepsName
      <4> QED BY <1>1, <3>1, <3>3, <4>1 DEF Lasts
    <3> QED BY <3>2, <3>3
  <2> QED BY <2>1, <2>2, <2>3 DEF Lasts
<1> QED BY <1>4, <1>5, <1>6, <1>7, <1>8, Zenon DEF SkillsInv

-----------------------------------------------------------------------------
(* The steps of a command that has nothing in a transaction.               *)

InTransaction == {"copy", "aside", "commit", "committed", "restore", "failed", "dead"}

LEMMA RestStep ==
  ASSUME SkillsInv, NEW a \in Actors, actor[a].at \notin InTransaction,
         NEW y, actor' = [actor EXCEPT ![a] = y], y.at \notin InTransaction,
         at' = at, installed' = installed, touched \subseteq touched', touched' \subseteq Names,
         Sound(y, touched'), Changes(a), files' \in [Dirs -> [K!Files -> Contents]],
         y.held # 0 => \A p \in K!Paths : at[p] = y.held => Tied(p, y.name)
  PROVE  SkillsInv'
<1>1. Owner(a)
  BY DEF SkillsInv
<1>2. at[K!Staged(a)] = 0 /\ at[K!Backup(a)] = 0
  BY <1>1 DEF Owner, Keeps, InTransaction
<1>3. Keeps(y, at[K!Staged(a)], at[K!Backup(a)],
            files'[at[K!Staged(a)]], files'[at[K!Backup(a)]], touched')
  BY <1>2 DEF Keeps, InTransaction
<1>4. KeepsName(a, y)
  BY <1>2 DEF KeepsName
<1> QED BY <1>2, <1>3, <1>4, QuietStep

\* The same, when no file is changed and nothing is open.
LEMMA LookStep ==
  ASSUME SkillsInv, NEW a \in Actors, actor[a].at \notin InTransaction,
         NEW y, actor' = [actor EXCEPT ![a] = y], y.at \notin InTransaction,
         UNCHANGED <<at, files, installed>>, touched \subseteq touched', touched' \subseteq Names,
         Sound(y, touched'), y.held = 0
  PROVE  SkillsInv'
<1>1. Changes(a)
  BY DEF Changes
<1>2. files' \in [Dirs -> [K!Files -> Contents]]
  BY DEF SkillsInv, Typed
<1> QED BY <1>1, <1>2, RestStep

LEMMA CommandIs ==
  ASSUME SkillsInv, NEW a \in Actors
  PROVE  Typed /\ Sound(actor[a], touched) /\ IsActor(actor[a])
BY DEF SkillsInv, Owner, Sound

\* One command takes one step on.
LEMMA Steps ==
  ASSUME Typed, NEW a \in Actors, NEW step
  PROVE  K!Now(a, step) = [actor EXCEPT ![a] = [actor[a] EXCEPT !.at = step]]
BY DEF K!Now, Typed

\* An install from a directory begins with that, or looks below it.
Given(root, filter, cloned) ==
  [K!Idle EXCEPT !.filter = filter, !.cloned = cloned, !.stack = <<root>>,
                 !.tree = root, !.name = Tree[root].given,
                 !.at = IF K!HasSkill(root) /\ K!Accepts(root, Tree[root].given, filter)
                        THEN "stage" ELSE "walk"]

LEMMA GivenDirectory ==
  ASSUME NEW root \in DOMAIN Tree, NEW filter, NEW cloned
  PROVE  LET y == Given(root, filter, cloned)
         IN  Sound(y, touched) /\ y.at \in {"stage", "walk"} /\ y.held = 0
<1>1. PICK step : step = IF K!HasSkill(root) /\ K!Accepts(root, Tree[root].given, filter)
                         THEN "stage" ELSE "walk"
  OBVIOUS
<1>2. step = "stage" => Tree[root].given \in Names
  BY <1>1 DEF K!Accepts
<1>3. step \in {"stage", "walk"}
  BY <1>1
<1>4. PICK y : y = Given(root, filter, cloned)
  OBVIOUS
<1>5. y = [K!Idle EXCEPT !.filter = filter, !.cloned = cloned, !.stack = <<root>>,
                         !.tree = root, !.name = Tree[root].given, !.at = step]
  BY <1>1, <1>4 DEF Given
<1>6. /\ IsActor(y) /\ y.at = step /\ y.held = 0 /\ y.stack = <<root>>
      /\ y.tree = root /\ y.name = Tree[root].given
  <2>1. PICK u : u = [K!Idle EXCEPT !.filter = filter, !.cloned = cloned, !.stack = <<root>>]
    OBVIOUS
  <2>2. IsActor(u) /\ u.held = 0 /\ u.stack = <<root>>
    BY <2>1, IdleIs DEF IsActor
  <2>3. y = [u EXCEPT !.tree = root, !.name = Tree[root].given, !.at = step]
    BY <1>5, <2>1
  <2> QED BY <2>2, <2>3 DEF IsActor
<1>7. Sound(y, touched)
  BY <1>2, <1>3, <1>6 DEF Sound, Copying, Changing
<1> QED BY <1>3, <1>4, <1>6, <1>7

LEMMA InstallStep ==
  ASSUME SkillsInv, K!SkillsAssumption, NEW a \in Actors, NEW root \in Roots, NEW filters,
         K!Install(a, root, filters)
  PROVE  SkillsInv'
<1>1. actor[a].at = "idle" /\ UNCHANGED <<at, files, touched, installed>>
  BY DEF K!Install, K!Is
<1>2. Typed /\ Sound(actor[a], touched) /\ IsActor(actor[a]) /\ touched \subseteq Names
  BY CommandIs DEF SkillsInv, Typed
<1>3. \E y : /\ actor' = [actor EXCEPT ![a] = y]
             /\ Sound(y, touched) /\ y.at \notin InTransaction /\ y.held = 0
  <2>1. CASE actor' = K!Now(a, "done")
    <3>1. PICK y : y = [actor[a] EXCEPT !.at = "done"]
      OBVIOUS
    <3>2. actor' = [actor EXCEPT ![a] = y]
      BY <1>2, <2>1, <3>1, Steps
    <3>3. IsActor(y) /\ y.at = "done" /\ y.held = actor[a].held /\ y.stack = actor[a].stack
      BY <1>2, <3>1, GoesOn
    <3> QED BY <1>1, <1>2, <3>2, <3>3 DEF Sound, InTransaction, Copying, Changing
  <2>2. CASE K!FromDirectory(a, root, K!Merged(filters), FALSE)
    <3>1. root \in DOMAIN Tree
      BY Zenon DEF K!SkillsAssumption
    <3>2. PICK y : y = Given(root, K!Merged(filters), FALSE)
      OBVIOUS
    <3>3. actor' = [actor EXCEPT ![a] = y]
      BY <2>2, <3>2, Zenon DEF K!FromDirectory, Given
    <3>4. Sound(y, touched) /\ y.at \in {"stage", "walk"} /\ y.held = 0
      BY <3>1, <3>2, GivenDirectory
    <3> QED BY <3>3, <3>4 DEF InTransaction
  <2> QED BY <2>1, <2>2 DEF K!Install
<1> QED BY <1>1, <1>2, <1>3, LookStep DEF InTransaction

LEMMA CloneStep ==
  ASSUME SkillsInv, K!SkillsAssumption, NEW a \in Actors, K!Clone(a)
  PROVE  SkillsInv'
<1>1. actor[a].at = "clone" /\ UNCHANGED <<at, files, touched, installed>>
  BY DEF K!Clone, K!Is
<1>2. Typed /\ Sound(actor[a], touched) /\ IsActor(actor[a]) /\ touched \subseteq Names
  BY CommandIs DEF SkillsInv, Typed
<1>3. \E y : /\ actor' = [actor EXCEPT ![a] = y]
             /\ Sound(y, touched) /\ y.at \notin InTransaction /\ y.held = 0
  <2>1. CASE actor' = K!Now(a, "done")
    <3>1. PICK y : y = [actor[a] EXCEPT !.at = "done"]
      OBVIOUS
    <3>2. actor' = [actor EXCEPT ![a] = y]
      BY <1>2, <2>1, <3>1, Steps
    <3>3. IsActor(y) /\ y.at = "done" /\ y.held = actor[a].held /\ y.stack = actor[a].stack
      BY <1>2, <3>1, GoesOn
    <3> QED BY <1>1, <1>2, <3>2, <3>3 DEF Sound, InTransaction, Copying, Changing
  <2>2. CASE \E root \in Clones : K!FromDirectory(a, root, actor[a].filter, TRUE)
    <3> PICK root \in Clones : K!FromDirectory(a, root, actor[a].filter, TRUE)
      BY <2>2
    <3>1. root \in DOMAIN Tree
      BY Zenon DEF K!SkillsAssumption
    <3>2. PICK y : y = Given(root, actor[a].filter, TRUE)
      OBVIOUS
    <3>3. actor' = [actor EXCEPT ![a] = y]
      BY <3>2, Zenon DEF K!FromDirectory, Given
    <3>4. Sound(y, touched) /\ y.at \in {"stage", "walk"} /\ y.held = 0
      BY <3>1, <3>2, GivenDirectory
    <3> QED BY <3>3, <3>4 DEF InTransaction
  <2> QED BY <2>1, <2>2 DEF K!Clone
<1> QED BY <1>1, <1>2, <1>3, LookStep DEF InTransaction

LEMMA SomeFewer ==
  ASSUME K!SkillsAssumption, NEW d, NEW skip
  PROVE  K!Cardinality(K!Children(d) \ skip) \in Nat
<1>1. IsFiniteSet(DOMAIN Tree)
  BY SameFinite, Zenon DEF K!SkillsAssumption
<1>2. K!Children(d) \ skip \in SUBSET DOMAIN Tree
  BY DEF K!Children
<1> QED BY <1>1, <1>2, FS_Subset, FS_CardinalityType, SameCardinality

LEMMA WalkStep ==
  ASSUME SkillsInv, K!SkillsAssumption, NEW a \in Actors, K!Walk(a)
  PROVE  SkillsInv'
<1>1. actor[a].at = "walk" /\ UNCHANGED <<at, files, touched, installed>>
  BY DEF K!Walk, K!Is
<1> PICK x : x = actor[a]
  OBVIOUS
<1>2. Typed /\ Sound(x, touched) /\ IsActor(x) /\ touched \subseteq Names
  BY CommandIs DEF SkillsInv, Typed
<1> DEFINE d == x.stack[Len(x.stack)]
           dirs == K!Children(d) \ x.skip
<1>3. PICK pushed \in [1 .. K!Cardinality(dirs) -> dirs] :
        LET rest == SubSeq(x.stack, 1, Len(x.stack) - 1) \o pushed IN
        IF d \notin x.skip /\ K!HasSkill(d) /\ K!Accepts(d, Tree[d].name, x.filter)
        THEN K!Candidate(a, d, Tree[d].name, rest)
        ELSE actor' = [actor EXCEPT ![a].stack = rest]
  BY Zenon DEF K!Walk
<1>4. x.stack # <<>> /\ x.stack \in Seq(DOMAIN Tree)
  BY <1>2 DEF K!Walk, Sound
<1>5. d \in DOMAIN Tree
  BY <1>4
<1>6. PICK rest : rest = SubSeq(x.stack, 1, Len(x.stack) - 1) \o pushed
  OBVIOUS
<1>7. rest \in Seq(DOMAIN Tree)
  <2>1. K!Cardinality(dirs) \in Nat /\ dirs \subseteq DOMAIN Tree
    BY SomeFewer DEF K!Children
  <2> HIDE DEF dirs
  <2>2. pushed \in Seq(DOMAIN Tree)
    BY <2>1
  <2>3. SubSeq(x.stack, 1, Len(x.stack) - 1) \in Seq(DOMAIN Tree)
    BY <1>4
  <2> QED BY <1>6, <2>2, <2>3
<1> HIDE DEF d, dirs
<1>8. \E y : /\ actor' = [actor EXCEPT ![a] = y]
             /\ Sound(y, touched) /\ y.at \notin InTransaction /\ y.held = 0
  <2>1. CASE d \notin x.skip /\ K!HasSkill(d) /\ K!Accepts(d, Tree[d].name, x.filter)
    <3>1. PICK y : y = [x EXCEPT !.at = "stage", !.tree = d, !.name = Tree[d].name, !.stack = rest]
      OBVIOUS
    <3>2. actor' = [actor EXCEPT ![a] = y]
      BY <1>3, <1>6, <2>1, <3>1 DEF K!Candidate
    <3>3. Tree[d].name \in Names
      BY <2>1 DEF K!Accepts
    <3>4. IsActor(y) /\ y.at = "stage" /\ y.tree = d /\ y.name = Tree[d].name /\ y.stack = rest /\ y.held = x.held
      BY <1>2, <3>1 DEF IsActor
    <3>5. x.held = 0
      BY <1>1, <1>2 DEF Sound
    <3>6. Sound(y, touched)
      BY <1>5, <1>7, <3>3, <3>4, <3>5 DEF Sound, Copying, Changing
    <3> QED BY <3>2, <3>4, <3>5, <3>6 DEF InTransaction
  <2>2. CASE ~(d \notin x.skip /\ K!HasSkill(d) /\ K!Accepts(d, Tree[d].name, x.filter))
    <3>1. PICK y : y = [x EXCEPT !.stack = rest]
      OBVIOUS
    <3>2. actor' = [actor EXCEPT ![a] = y]
      BY <1>2, <1>3, <1>6, <2>2, <3>1 DEF Typed
    <3>3. IsActor(y) /\ y.at = x.at /\ y.tree = x.tree /\ y.name = x.name /\ y.stack = rest /\ y.held = x.held
      BY <1>2, <3>1 DEF IsActor
    <3>4. x.held = 0
      BY <1>1, <1>2 DEF Sound
    <3>5. Sound(y, touched)
      BY <1>1, <1>7, <3>3, <3>4 DEF Sound, Copying, Changing
    <3> QED BY <1>1, <3>2, <3>3, <3>4, <3>5 DEF InTransaction
  <2> QED BY <2>1, <2>2
<1> QED BY <1>1, <1>2, <1>8, LookStep DEF InTransaction

LEMMA WalkedStep ==
  ASSUME SkillsInv, NEW a \in Actors, K!Walked(a)
  PROVE  SkillsInv'
<1>1. actor[a].at = "walk" /\ UNCHANGED <<at, files, touched, installed>>
  BY DEF K!Walked, K!Is
<1>2. Typed /\ Sound(actor[a], touched) /\ IsActor(actor[a]) /\ touched \subseteq Names
  BY CommandIs DEF SkillsInv, Typed
<1>3. PICK step \in {"clone", "done"} : actor' = K!Now(a, step)
  BY DEF K!Walked
<1>4. PICK y : y = [actor[a] EXCEPT !.at = step]
  OBVIOUS
<1>5. actor' = [actor EXCEPT ![a] = y]
  BY <1>2, <1>3, <1>4, Steps
<1>6. IsActor(y) /\ y.at = step /\ y.held = actor[a].held /\ y.stack = actor[a].stack
  BY <1>2, <1>4, GoesOn
<1>7. Sound(y, touched) /\ y.held = 0
  BY <1>1, <1>2, <1>6 DEF Sound, Copying, Changing
<1> QED BY <1>1, <1>2, <1>5, <1>6, <1>7, LookStep DEF InTransaction

\* A file of a directory is written or removed.
LEMMA FileChanges ==
  ASSUME Typed, NEW i \in Dirs, NEW f \in K!Files, NEW c \in Contents,
         files' = [files EXCEPT ![i][f] = c]
  PROVE  /\ files' \in [Dirs -> [K!Files -> Contents]]
         /\ \A j \in Dirs \ {i} : files'[j] = files[j]
         /\ files'[i][f] = c /\ \A g \in K!Files \ {f} : files'[i][g] = files[i][g]
<1>1. files \in [Dirs -> [K!Files -> Contents]]
  BY DEF Typed
<1> HIDE DEF Contents
<1> QED BY <1>1

\* What a command opened, at a name that was touched, may change.
LEMMA HeldIsLoose ==
  ASSUME SkillsInv, NEW a \in Actors, actor[a].held # 0, actor[a].name \in touched,
         touched \subseteq touched'
  PROVE  Loose(actor[a].held, a)
<1>1. Held(a)
  BY DEF SkillsInv
<1> QED BY <1>1, Zenon DEF Held, Tied, Loose

LEMMA OpenTemplateStep ==
  ASSUME SkillsInv, NEW a \in Actors, K!OpenTemplate(a)
  PROVE  SkillsInv'
<1>1. actor[a].at = "open" /\ UNCHANGED <<at, touched, installed>>
  BY DEF K!OpenTemplate, K!Is
<1> PICK x : x = actor[a]
  OBVIOUS
<1>2. Typed /\ Sound(x, touched) /\ IsActor(x) /\ touched \subseteq Names
  BY CommandIs DEF SkillsInv, Typed
<1>3. x.name \in touched /\ x.name \in Names /\ x.held = 0
  BY <1>1, <1>2 DEF Sound, Changing
<1> PICK i : i = at[K!Skill(x.name)]
  OBVIOUS
<1>4. CASE i = 0
  <2>1. PICK y : y = [x EXCEPT !.at = "done"]
    OBVIOUS
  <2>2. actor' = [actor EXCEPT ![a] = y] /\ files' = files
    BY <1>2, <1>4, <2>1, Steps DEF K!OpenTemplate, K!NoDir
  <2>3. IsActor(y) /\ y.at = "done" /\ y.held = x.held /\ y.stack = x.stack
    BY <1>2, <2>1, GoesOn
  <2>4. Sound(y, touched) /\ y.held = 0
    BY <1>2, <1>3, <2>3 DEF Sound, Copying, Changing
  <2> QED BY <1>1, <1>2, <2>2, <2>3, <2>4, LookStep DEF InTransaction
<1>5. CASE i # 0
  <2>1. PICK y : y = [x EXCEPT !.at = "write", !.held = i]
    OBVIOUS
  <2>2. /\ actor' = [actor EXCEPT ![a] = y]
        /\ files' = [files EXCEPT ![i]["SKILL.md"] = K!TornFile]
    BY <1>2, <1>5, <2>1 DEF K!OpenTemplate, K!NoDir, Typed
  <2>3. /\ IsActor(y) /\ y.at = "write" /\ y.held = i
        /\ y.name = x.name /\ y.stack = x.stack
    BY <1>2, <2>1 DEF IsActor
  <2>4. i \in Dirs
    BY <1>2, <1>3, <1>5, PathsAre DEF Typed
  <2>5. Sound(y, touched)
    BY <1>2, <1>3, <1>5, <2>3, <2>4 DEF Sound, Copying, Changing
  <2>6. \A p \in K!Paths : at[p] = i => p = K!Skill(x.name)
    BY <1>3, <1>5, PathsAre DEF SkillsInv, Apart
  <2>7. Loose(i, a)
    BY <1>1, <1>3, <2>6 DEF Loose
  <2>8. "SKILL.md" \in K!Files /\ K!TornFile \in Contents
    BY DEF K!Files, Contents
  <2>9. /\ files' \in [Dirs -> [K!Files -> Contents]]
        /\ \A j \in Dirs \ {i} : files'[j] = files[j]
    BY <1>2, <2>2, <2>4, <2>8, FileChanges
  <2>10. Changes(a)
    BY <2>4, <2>7, <2>9 DEF Changes
  <2>11. y.held # 0 => \A p \in K!Paths : at[p] = y.held => Tied(p, y.name)
    BY <2>3, <2>6 DEF Tied
  <2> QED BY <1>1, <1>2, <2>2, <2>3, <2>5, <2>9, <2>10, <2>11, RestStep DEF InTransaction
<1> QED BY <1>4, <1>5

LEMMA WriteTemplateStep ==
  ASSUME SkillsInv, NEW a \in Actors, K!WriteTemplate(a)
  PROVE  SkillsInv'
<1>1. actor[a].at = "write" /\ UNCHANGED <<at, touched, installed>>
  BY DEF K!WriteTemplate, K!Is
<1> PICK x : x = actor[a]
  OBVIOUS
<1>2. Typed /\ Sound(x, touched) /\ IsActor(x) /\ touched \subseteq Names
  BY CommandIs DEF SkillsInv, Typed
<1>3. x.name \in touched /\ x.held # 0 /\ x.held \in Dirs
  BY <1>1, <1>2 DEF Sound, Changing
<1>4. PICK y : y = [x EXCEPT !.at = "done", !.held = 0]
  OBVIOUS
<1>5. /\ actor' = [actor EXCEPT ![a] = y]
      /\ files' = [files EXCEPT ![x.held]["SKILL.md"] = K!Template]
  BY <1>2, <1>4 DEF K!WriteTemplate, K!NoDir, Typed
<1>6. IsActor(y) /\ y.at = "done" /\ y.held = 0 /\ y.stack = x.stack
  BY <1>2, <1>4 DEF IsActor
<1>7. Sound(y, touched)
  BY <1>2, <1>6 DEF Sound, Copying, Changing
<1>8. Loose(x.held, a)
  BY <1>1, <1>3, HeldIsLoose
<1>9. "SKILL.md" \in K!Files /\ K!Template \in Contents
  BY DEF K!Files, Contents
<1>10. /\ files' \in [Dirs -> [K!Files -> Contents]]
       /\ \A j \in Dirs \ {x.held} : files'[j] = files[j]
  BY <1>2, <1>3, <1>5, <1>9, FileChanges
<1>11. Changes(a)
  BY <1>3, <1>8, <1>10 DEF Changes
<1> QED BY <1>1, <1>2, <1>5, <1>6, <1>7, <1>10, <1>11, RestStep DEF InTransaction

LEMMA RemoveSkillStep ==
  ASSUME SkillsInv, K!SkillsAssumption, NEW a \in Actors, NEW name, K!Remove(a, name)
  PROVE  SkillsInv'
<1>1. actor[a].at = "idle" /\ UNCHANGED <<at, files, installed>>
  BY DEF K!Remove, K!Is
<1>2. Typed /\ touched \subseteq Names
  BY DEF SkillsInv, Typed
<1>3. PICK listing \in K!Listings : \E s \in K!find(K!discover(listing), name) :
        /\ s.managed
        /\ actor' = [actor EXCEPT ![a] = [K!Idle EXCEPT !.at = "removing", !.name = s.dir, !.got = name]]
        /\ touched' = touched \cup {s.dir}
  BY Zenon DEF K!Remove
<1>4. PICK s \in K!discover(listing) :
        /\ s.managed
        /\ actor' = [actor EXCEPT ![a] = [K!Idle EXCEPT !.at = "removing", !.name = s.dir, !.got = name]]
        /\ touched' = touched \cup {s.dir}
  BY <1>3, Zenon DEF K!find
<1>5. s.dir \in Names
  BY <1>4, ManagedAreNamed
<1>6. PICK y : y = [K!Idle EXCEPT !.at = "removing", !.name = s.dir, !.got = name]
  OBVIOUS
<1>7. IsActor(y) /\ y.at = "removing" /\ y.name = s.dir /\ y.held = 0 /\ y.stack = <<>>
  BY <1>6, IdleIs DEF IsActor
<1>8. Sound(y, touched')
  BY <1>4, <1>7 DEF Sound, Copying, Changing
<1> QED BY <1>1, <1>2, <1>4, <1>5, <1>6, <1>7, <1>8, LookStep DEF InTransaction

LEMMA OpenRemovedStep ==
  ASSUME SkillsInv, NEW a \in Actors, K!OpenRemoved(a)
  PROVE  SkillsInv'
<1>1. actor[a].at = "removing" /\ UNCHANGED <<at, files, touched, installed>>
  BY DEF K!OpenRemoved, K!Is
<1> PICK x : x = actor[a]
  OBVIOUS
<1>2. Typed /\ Sound(x, touched) /\ IsActor(x) /\ touched \subseteq Names
  BY CommandIs DEF SkillsInv, Typed
<1>3. x.name \in touched /\ x.name \in Names
  BY <1>1, <1>2 DEF Sound, Changing
<1> PICK i : i = at[K!Skill(x.name)]
  OBVIOUS
<1> PICK step : step = IF i = 0 THEN "done" ELSE "unlink"
  OBVIOUS
<1>4. PICK y : y = [x EXCEPT !.at = step, !.held = i]
  OBVIOUS
<1>5. actor' = [actor EXCEPT ![a] = y]
  BY <1>2, <1>4 DEF K!OpenRemoved, K!NoDir, Typed
<1>6. IsActor(y) /\ y.at = step /\ y.held = i /\ y.name = x.name /\ y.stack = x.stack
  BY <1>2, <1>4 DEF IsActor
<1>7. i \in Dirs \cup {0}
  BY <1>2, <1>3, PathsAre DEF Typed
<1>8. Sound(y, touched)
  BY <1>2, <1>3, <1>6, <1>7 DEF Sound, Copying, Changing
<1>9. y.held # 0 => \A p \in K!Paths : at[p] = y.held => Tied(p, y.name)
  BY <1>3, <1>6, PathsAre DEF SkillsInv, Apart, Tied
<1>10. Changes(a) /\ files' \in [Dirs -> [K!Files -> Contents]]
  BY <1>1, <1>2 DEF Changes, Typed
<1> QED BY <1>1, <1>2, <1>5, <1>6, <1>8, <1>9, <1>10, RestStep DEF InTransaction

LEMMA UnlinkStep ==
  ASSUME SkillsInv, NEW a \in Actors, K!Unlink(a)
  PROVE  SkillsInv'
<1>1. actor[a].at = "unlink" /\ UNCHANGED <<at, actor, touched, installed>>
  BY DEF K!Unlink, K!Is
<1> PICK x : x = actor[a]
  OBVIOUS
<1>2. Typed /\ Sound(x, touched) /\ IsActor(x) /\ touched \subseteq Names
  BY CommandIs DEF SkillsInv, Typed
<1>3. x.name \in touched /\ x.held # 0 /\ x.held \in Dirs
  BY <1>1, <1>2 DEF Sound, Changing
<1>4. actor' = [actor EXCEPT ![a] = x]
  BY <1>1, <1>2 DEF Typed
<1>5. PICK f \in K!Files : files' = [files EXCEPT ![x.held][f] = K!NoFile]
  BY DEF K!Unlink
<1>6. Loose(x.held, a)
  BY <1>1, <1>3, HeldIsLoose
<1>7. K!NoFile \in Contents
  BY DEF Contents
<1>8. /\ files' \in [Dirs -> [K!Files -> Contents]]
      /\ \A j \in Dirs \ {x.held} : files'[j] = files[j]
  BY <1>2, <1>3, <1>5, <1>7, FileChanges
<1>9. Changes(a)
  BY <1>3, <1>6, <1>8 DEF Changes
<1>10. \A p \in K!Paths : at[p] = x.held => Tied(p, x.name)
  BY <1>3 DEF SkillsInv, Held
<1> QED BY <1>1, <1>2, <1>4, <1>8, <1>9, <1>10, RestStep DEF InTransaction

LEMMA LoadSkillStep ==
  ASSUME SkillsInv, NEW a \in Actors, NEW name, K!Load(a, name)
  PROVE  SkillsInv'
<1>1. actor[a].at = "idle" /\ UNCHANGED <<at, files, touched, installed>>
  BY DEF K!Load, K!Is
<1>2. Typed /\ touched \subseteq Names
  BY DEF SkillsInv, Typed
<1>3. PICK s : actor' = [actor EXCEPT ![a] = [K!Idle EXCEPT !.at = "read", !.name = s.dir]]
  BY Zenon DEF K!Load
<1>4. PICK y : y = [K!Idle EXCEPT !.at = "read", !.name = s.dir]
  OBVIOUS
<1>5. IsActor(y) /\ y.at = "read" /\ y.held = 0 /\ y.stack = <<>>
  BY <1>4, IdleIs DEF IsActor
<1>6. Sound(y, touched)
  BY <1>5 DEF Sound, Copying, Changing
<1> QED BY <1>1, <1>2, <1>3, <1>4, <1>5, <1>6, LookStep DEF InTransaction

LEMMA ReadSkillStep ==
  ASSUME SkillsInv, NEW a \in Actors, K!ReadSkill(a)
  PROVE  SkillsInv'
<1>1. actor[a].at = "read" /\ UNCHANGED <<at, files, touched, installed>>
  BY DEF K!ReadSkill, K!Is
<1> PICK x : x = actor[a]
  OBVIOUS
<1>2. Typed /\ Sound(x, touched) /\ IsActor(x) /\ touched \subseteq Names
  BY CommandIs DEF SkillsInv, Typed
<1>3. PICK c : actor' = [actor EXCEPT ![a].at = "done", ![a].got = c]
  BY Zenon DEF K!ReadSkill
<1>4. PICK y : y = [x EXCEPT !.at = "done", !.got = c]
  OBVIOUS
<1>5. actor' = [actor EXCEPT ![a] = y]
  BY <1>2, <1>3, <1>4 DEF Typed
<1>6. IsActor(y) /\ y.at = "done" /\ y.held = x.held /\ y.stack = x.stack
  BY <1>2, <1>4 DEF IsActor
<1>7. Sound(y, touched) /\ y.held = 0
  BY <1>1, <1>2, <1>6 DEF Sound, Copying, Changing
<1> QED BY <1>1, <1>2, <1>5, <1>6, <1>7, LookStep DEF InTransaction

-----------------------------------------------------------------------------
(* The steps of an install that move nothing.                              *)

LEMMA CopyStep ==
  ASSUME SkillsInv, K!SkillsAssumption, NEW a \in Actors, K!Copy(a)
  PROVE  SkillsInv'
<1>1. actor[a].at = "copy" /\ UNCHANGED <<at, actor, touched, installed>>
  BY DEF K!Copy, K!Is
<1> PICK x : x = actor[a]
  OBVIOUS
<1> PICK i : i = at[K!Staged(a)]
  OBVIOUS
<1> PICK k : k = at[K!Backup(a)]
  OBVIOUS
<1>2. Typed /\ Sound(x, touched) /\ IsActor(x) /\ touched \subseteq Names
  BY CommandIs DEF SkillsInv, Typed
<1>3. Keeps(x, i, k, files[i], files[k], touched)
  BY DEF SkillsInv, Owner
<1>4. i # 0 /\ i \in Dirs /\ k = 0
  BY <1>1, <1>2, <1>3, PathsAre DEF Keeps, Typed
<1>5. actor' = [actor EXCEPT ![a] = x]
  BY <1>1, <1>2 DEF Typed
<1> PICK d : d = x.tree
  OBVIOUS
<1>6. PICK f \in K!Files : files' = [files EXCEPT ![i][f] = d]
  BY DEF K!Copy
<1>7. d \in Contents
  BY <1>1, <1>2 DEF Contents, Sound, Copying
<1>8. /\ files' \in [Dirs -> [K!Files -> Contents]]
      /\ \A j \in Dirs \ {i} : files'[j] = files[j]
      /\ files'[i][f] = d /\ \A g \in K!Files \ {f} : files'[i][g] = files[i][g]
  BY <1>2, <1>4, <1>6, <1>7 DEF Typed
<1>9. Changes(a)
  <2>1. Loose(i, a)
    BY <1>4, PathsAre DEF Loose, SkillsInv, Apart
  <2> QED BY <1>4, <1>8, <2>1 DEF Changes
<1>10. Keeps(x, i, k, files'[i], files'[k], touched)
  <2>1. \A g \in K!Files : files'[i][g] \in {K!NoFile, x.tree}
    BY <1>1, <1>3, <1>8 DEF Keeps
  <2> QED BY <1>1, <1>3, <1>4, <2>1 DEF Keeps
<1>11. x.held # 0 => \A p \in K!Paths : at[p] = x.held => Tied(p, x.name)
  BY DEF SkillsInv, Held
<1>12. KeepsName(a, x)
  BY DEF KeepsName
<1> QED BY <1>1, <1>2, <1>5, <1>8, <1>9, <1>10, <1>11, <1>12, QuietStep

\* A command of a transaction that goes on, and moves and writes nothing.
LEMMA DecideStep ==
  ASSUME SkillsInv, NEW a \in Actors, NEW step,
         actor[a].held = 0 \/ step = "dead", UNCHANGED <<at, files, touched, installed>>,
         NEW y, actor' = [actor EXCEPT ![a] = y],
         y = IF step = "dead" THEN [actor[a] EXCEPT !.at = step, !.held = 0]
             ELSE [actor[a] EXCEPT !.at = step],
         step \in {"aside", "commit", "failed", "dead"},
         step # "dead" => actor[a].at = "copy",
         step \in {"aside", "commit"} => IsWhole(files[at[K!Staged(a)]])
  PROVE  SkillsInv'
<1> PICK x : x = actor[a]
  OBVIOUS
<1> PICK i : i = at[K!Staged(a)]
  OBVIOUS
<1> PICK k : k = at[K!Backup(a)]
  OBVIOUS
<1>1. Typed /\ Sound(x, touched) /\ IsActor(x) /\ touched \subseteq Names
  BY CommandIs DEF SkillsInv, Typed
<1>2. Keeps(x, i, k, files[i], files[k], touched)
  BY DEF SkillsInv, Owner
<1>3. /\ IsActor(y) /\ y.at = step /\ y.held = 0 /\ y.name = x.name
      /\ y.tree = x.tree /\ y.stack = x.stack
  <2>1. CASE step = "dead"
    <3>1. y = [x EXCEPT !.at = step, !.held = 0]
      BY <2>1
    <3> QED BY <1>1, <3>1 DEF IsActor
  <2>2. CASE step # "dead"
    BY <1>1, <2>2, GoesOn
  <2> QED BY <2>1, <2>2
<1>4. step # "dead" => x.name \in Names /\ x.tree \in DOMAIN Tree
  BY <1>1 DEF Sound, Copying
<1>5. Sound(y, touched)
  BY <1>1, <1>3, <1>4 DEF Sound, Copying, Changing
<1>6. Keeps(y, i, k, files[i], files[k], touched)
  <2>1. CASE step = "dead"
    BY <1>2, <1>3, <2>1 DEF Keeps
  <2>2. CASE step # "dead"
    <3>1. k = 0 /\ i # 0
      BY <1>2, <2>2 DEF Keeps
    <3> QED BY <1>3, <2>2, <3>1 DEF Keeps
  <2> QED BY <2>1, <2>2
<1>7. KeepsName(a, y)
  BY <1>3 DEF KeepsName
<1>8. Changes(a) /\ files' \in [Dirs -> [K!Files -> Contents]]
  BY <1>1 DEF Changes, Typed
<1>9. x.at \in Returns => y.at \in Returns
  BY <1>3 DEF Returns
<1> QED BY <1>1, <1>3, <1>5, <1>6, <1>7, <1>8, <1>9, QuietStep

LEMMA CopyFailsStep ==
  ASSUME SkillsInv, NEW a \in Actors, K!CopyFails(a)
  PROVE  SkillsInv'
<1>1. actor[a].at = "copy" /\ UNCHANGED <<at, files, touched, installed>>
  BY DEF K!CopyFails, K!Is
<1>2. Typed /\ actor[a].held = 0
  BY <1>1, CommandIs DEF Sound
<1>3. PICK y : y = [actor[a] EXCEPT !.at = "failed"]
  OBVIOUS
<1>4. actor' = [actor EXCEPT ![a] = y]
  BY <1>2, <1>3, Steps DEF K!CopyFails
<1> QED BY <1>1, <1>2, <1>3, <1>4, DecideStep

LEMMA SeeThereStep ==
  ASSUME SkillsInv, NEW a \in Actors, K!SeeThere(a)
  PROVE  SkillsInv'
<1>1. actor[a].at = "copy" /\ UNCHANGED <<at, files, touched, installed>>
  BY DEF K!SeeThere, K!Is
<1>2. Typed /\ Sound(actor[a], touched) /\ actor[a].held = 0
  BY <1>1, CommandIs DEF Sound
<1>3. PICK step \in {"aside", "commit"} : actor' = K!Now(a, step)
  BY DEF K!SeeThere
<1>4. PICK y : y = [actor[a] EXCEPT !.at = step]
  OBVIOUS
<1>5. actor' = [actor EXCEPT ![a] = y]
  BY <1>2, <1>3, <1>4, Steps
<1>6. IsWhole(files[at[K!Staged(a)]])
  <2> PICK i : i = at[K!Staged(a)]
    OBVIOUS
  <2> PICK d : d = actor[a].tree
    OBVIOUS
  <2>1. /\ i # 0 /\ \A f \in K!Files : files[i][f] \in {K!NoFile, d}
    BY <1>1 DEF SkillsInv, Owner, Keeps
  <2>2. \A f \in K!Files : files[i][f] = d
    BY <2>1 DEF K!SeeThere
  <2>3. i \in Dirs /\ files[i] \in [K!Files -> Contents]
    BY <1>2, <2>1, PathsAre DEF Typed
  <2>4. files[i] = [f \in K!Files |-> d]
    BY <2>2, <2>3
  <2>5. d \in DOMAIN Tree
    BY <1>1, <1>2 DEF Sound, Copying
  <2> QED BY <2>4, <2>5 DEF IsWhole
<1> QED BY <1>1, <1>2, <1>3, <1>4, <1>5, <1>6, DecideStep

LEMMA KillStep ==
  ASSUME SkillsInv, NEW a \in Actors, K!Kill(a)
  PROVE  SkillsInv'
<1>1. UNCHANGED <<at, files, touched, installed>>
  BY DEF K!Kill
<1>2. Typed
  BY CommandIs
<1>3. PICK y : y = [actor[a] EXCEPT !.at = "dead", !.held = 0]
  OBVIOUS
<1>4. actor' = [actor EXCEPT ![a] = y]
  BY <1>2, <1>3 DEF K!Kill, K!NoDir, Typed
<1> QED BY <1>1, <1>3, <1>4, DecideStep

-----------------------------------------------------------------------------
(* The steps that move directories.                                        *)

\* A path has no directory, the one it had, one from a path that was tied to
\* the same names, or one nobody has open.
Arrives(p) ==
  \/ at'[p] \in {0, at[p]}
  \/ \E q \in K!Paths : at[q] = at'[p] /\ \A n \in Names : Tied(q, n) => Tied(p, n)'
  \/ \A b \in Actors : actor[b].held # at'[p]

\* What a step that moves directories owes: the command a becomes y, and m is
\* the name under which a directory comes or goes.
Moves(a, y, m) ==
  /\ actor' = [actor EXCEPT ![a] = y] /\ y.held = 0 /\ KeepsName(a, y)
  /\ \A p \in K!Paths \ {K!Staged(a), K!Backup(a), K!Skill(m)} : at'[p] = at[p]
  /\ at' \in [K!Paths -> Dirs \cup {0}] /\ files' \in [Dirs -> [K!Files -> Contents]]
  /\ \A j \in Dirs : files'[j] = files[j] \/ \A p \in K!Paths : at[p] # j
  /\ touched \subseteq touched' /\ touched' \subseteq Names
  /\ Sound(y, touched')
  /\ Keeps(y, at'[K!Staged(a)], at'[K!Backup(a)],
           files'[at'[K!Staged(a)]], files'[at'[K!Backup(a)]], touched')
  /\ \A p, q \in K!Paths : at'[p] = at'[q] /\ at'[p] # 0 => p = q
  /\ \A p \in K!Paths : Arrives(p)
  /\ m \notin touched' /\ at'[K!Skill(m)] # 0 => IsWhole(files'[at'[K!Skill(m)]])

LEMMA MoveStep ==
  ASSUME SkillsInv, NEW a \in Actors, NEW y, NEW m \in Names, Moves(a, y, m),
         installed' \in {installed, installed \cup {m}},
         m \in installed' \ touched' =>
            \/ at'[K!Skill(m)] # 0
            \/ m \in installed /\ at'[K!Skill(m)] = at[K!Skill(m)]
            \/ y.name = m /\ y.at \in Returns /\ at'[K!Backup(a)] # 0,
         actor[a].at \in Returns /\ at[K!Backup(a)] # 0 => at'[K!Skill(actor[a].name)] # 0
  PROVE  SkillsInv'
<1> USE DEF Moves
<1>1. /\ actor'[a] = y /\ \A b \in Actors : b # a => actor'[b] = actor[b]
      /\ actor' = [b \in Actors |-> actor'[b]]
  BY OneActs DEF SkillsInv
<1>2. Typed /\ Apart
  BY DEF SkillsInv
<1>3. Typed'
  <2>1. installed' \subseteq Names
    BY <1>2 DEF Typed
  <2> QED BY <1>1, <2>1, Zenon DEF Typed
<1>4. Spares(a)
  <2> SUFFICES ASSUME NEW b \in Actors \ {a}
               PROVE  /\ at'[K!Staged(b)] = at[K!Staged(b)] /\ at'[K!Backup(b)] = at[K!Backup(b)]
                      /\ at[K!Staged(b)] # 0 => files'[at[K!Staged(b)]] = files[at[K!Staged(b)]]
                      /\ at[K!Backup(b)] # 0 => files'[at[K!Backup(b)]] = files[at[K!Backup(b)]]
    BY DEF Spares
  <2>1. /\ K!Staged(b) \in K!Paths \ {K!Staged(a), K!Backup(a), K!Skill(m)}
        /\ K!Backup(b) \in K!Paths \ {K!Staged(a), K!Backup(a), K!Skill(m)}
    BY PathsApart, PathsAre
  <2>2. at[K!Staged(b)] \in Dirs \cup {0} /\ at[K!Backup(b)] \in Dirs \cup {0}
    BY <1>2, <2>1 DEF Typed
  <2> QED BY <2>1, <2>2
<1>5. \A b \in Actors : Owner(b)'
  <2>1. \A b \in Actors \ {a} : Owner(b)'
    BY <1>4, OthersStay
  <2>2. Owner(a)'
    BY <1>1, Zenon DEF Owner
  <2> QED BY <2>1, <2>2
<1>6. \A b \in Actors : Held(b)'
  <2> TAKE b \in Actors
  <2>1. PICK z : z = actor'[b]
    OBVIOUS
  <2>2. CASE z.held = 0
    BY <2>1, <2>2, HeldNext
  <2>3. CASE z.held # 0
    <3>1. b # a /\ z = actor[b]
      BY <1>1, <2>1, <2>3
    <3>2. Held(b) /\ Sound(z, touched)
      BY <3>1 DEF SkillsInv, Owner
    <3>3. z.name \in Names
      BY <1>2, <2>3, <3>2 DEF Sound, Changing, Typed
    <3>4. ASSUME NEW p \in K!Paths, at'[p] = z.held PROVE Tied(p, z.name)'
      <4>1. Arrives(p)
        OBVIOUS
      <4>2. CASE at'[p] = at[p]
        <5>1. Tied(p, z.name)
          BY <2>3, <3>1, <3>2, <3>4, <4>2 DEF Held
        <5> QED BY <2>3, <3>4, <4>2, <5>1, TiedStays
      <4>3. CASE \E q \in K!Paths : at[q] = at'[p] /\ \A n \in Names : Tied(q, n) => Tied(p, n)'
        <5>1. PICK q \in K!Paths : at[q] = at'[p] /\ \A n \in Names : Tied(q, n) => Tied(p, n)'
          BY <4>3
        <5>2. Tied(q, z.name)
          BY <2>3, <3>1, <3>2, <3>4, <5>1 DEF Held
        <5> QED BY <3>3, <5>1, <5>2
      <4> QED BY <2>3, <3>1, <3>4, <4>1, <4>2, <4>3 DEF Arrives
    <3> QED BY <2>1, <3>4, HeldNext
  <2> QED BY <2>2, <2>3
<1>7. (\A n \in Names \ touched : at[K!Skill(n)] # 0 => IsWhole(files[at[K!Skill(n)]]))'
  <2> SUFFICES ASSUME NEW n \in Names \ touched', at'[K!Skill(n)] # 0
               PROVE  IsWhole(files'[at'[K!Skill(n)]])
    BY DEF IsWhole
  <2>1. CASE n = m
    BY <2>1
  <2>2. CASE n # m
    <3>1. K!Skill(n) \in K!Paths \ {K!Staged(a), K!Backup(a), K!Skill(m)}
      BY <2>2, PathsApart, PathsAre
    <3>2. at'[K!Skill(n)] = at[K!Skill(n)]
      BY <3>1
    <3>3. at[K!Skill(n)] \in Dirs
      BY <1>2, <3>1, <3>2 DEF Typed
    <3>4. files'[at[K!Skill(n)]] = files[at[K!Skill(n)]]
      BY <3>1, <3>3
    <3>5. IsWhole(files[at[K!Skill(n)]])
      BY <3>2 DEF SkillsInv
    <3> QED BY <3>2, <3>4, <3>5
  <2> QED BY <2>1, <2>2
<1>8. (\A n \in installed \ touched : Lasts(n))'
  <2> SUFFICES ASSUME NEW n \in installed' \ touched' PROVE Lasts(n)'
    OBVIOUS
  <2>1. CASE at'[K!Skill(n)] # 0
    BY <2>1 DEF Lasts
  <2>2. CASE y.name = n /\ y.at \in Returns /\ at'[K!Backup(a)] # 0
    BY <1>1, <2>2 DEF Lasts
  <2>3. CASE n \in installed /\ at'[K!Skill(n)] = at[K!Skill(n)] /\ at'[K!Skill(n)] = 0
    <3>1. Lasts(n)
      <4>1. n \in installed \ touched
        BY <2>3
      <4>2. \A k \in installed \ touched : Lasts(k)
        BY Zenon DEF SkillsInv
      <4> QED BY <4>1, <4>2
    <3>2. PICK b \in Actors : actor[b].name = n /\ actor[b].at \in Returns /\ at[K!Backup(b)] # 0
      BY <2>3, <3>1 DEF Lasts
    <3>3. b # a
      BY <2>3, <3>2
    <3>4. K!Backup(b) \in K!Paths \ {K!Staged(a), K!Backup(a), K!Skill(m)}
      BY <3>3, PathsApart, PathsAre
    <3> QED BY <1>1, <3>2, <3>3, <3>4 DEF Lasts
  <2>4. n # m => n \in installed /\ at'[K!Skill(n)] = at[K!Skill(n)]
    <3> HAVE n # m
    <3>1. K!Skill(n) \in K!Paths \ {K!Staged(a), K!Backup(a), K!Skill(m)}
      BY <1>3, PathsApart, PathsAre DEF Typed
    <3> QED BY <3>1
  <2> QED BY <2>1, <2>2, <2>3, <2>4
<1>9. Apart'
  BY DEF Apart, K!Paths, K!Skill, K!Staged, K!Backup
<1> QED BY <1>3, <1>5, <1>6, <1>7, <1>8, <1>9, Zenon DEF SkillsInv

\* A rename, and a directory that is made, keep the paths apart.
LEMMA RenameApart ==
  ASSUME Typed, Apart, NEW p \in K!Paths, NEW q \in K!Paths, p # q, K!Rename(p, q)
  PROVE  /\ at' \in [K!Paths -> Dirs \cup {0}]
         /\ at'[p] = 0 /\ at'[q] = at[p] /\ \A r \in K!Paths \ {p, q} : at'[r] = at[r]
         /\ \A r, s \in K!Paths : at'[r] = at'[s] /\ at'[r] # 0 => r = s
<1>1. at \in [K!Paths -> Dirs \cup {0}]
  BY DEF Typed
<1>2. at' = [at EXCEPT ![p] = 0, ![q] = at[p]]
  BY DEF K!Rename, K!NoDir
<1>3. at' \in [K!Paths -> Dirs \cup {0}]
  BY <1>1, <1>2
<1>4. at'[p] = 0 /\ at'[q] = at[p] /\ \A r \in K!Paths \ {p, q} : at'[r] = at[r]
  BY <1>1, <1>2
<1>5. \A r, s \in K!Paths : at'[r] = at'[s] /\ at'[r] # 0 => r = s
  BY <1>4 DEF Apart
<1> QED BY <1>3, <1>4, <1>5

LEMMA FreshApart ==
  ASSUME Typed, Apart, NEW p \in K!Paths, K!Fresh(p), 0 \notin Dirs
  PROVE  \E i \in K!Free :
           /\ i \in Dirs /\ (\A q \in K!Paths : at[q] # i) /\ (\A b \in Actors : actor[b].held # i)
           /\ at' = [at EXCEPT ![p] = i] /\ files' = [files EXCEPT ![i] = K!Nothing]
           /\ at' \in [K!Paths -> Dirs \cup {0}] /\ files' \in [Dirs -> [K!Files -> Contents]]
           /\ \A q, r \in K!Paths : at'[q] = at'[r] /\ at'[q] # 0 => q = r
<1>1. PICK i \in K!Free : at' = [at EXCEPT ![p] = i] /\ files' = [files EXCEPT ![i] = K!Nothing]
  BY DEF K!Fresh
<1>2. i \in Dirs /\ (\A q \in K!Paths : at[q] # i) /\ (\A b \in Actors : actor[b].held # i)
  BY Zenon DEF K!Free, K!Referenced
<1>3. at \in [K!Paths -> Dirs \cup {0}] /\ files \in [Dirs -> [K!Files -> Contents]]
  BY DEF Typed
<1>4. at' \in [K!Paths -> Dirs \cup {0}]
  BY <1>1, <1>2, <1>3
<1>5. files' \in [Dirs -> [K!Files -> Contents]]
  <2>1. K!Nothing \in [K!Files -> Contents]
    BY DEF K!Nothing, Contents
  <2> HIDE DEF Contents
  <2> QED BY <1>1, <1>2, <1>3, <2>1
<1>6. at'[p] = i /\ \A q \in K!Paths \ {p} : at'[q] = at[q]
  BY <1>1, <1>3
<1>7. \A r, s \in K!Paths : at'[r] = at'[s] /\ at'[r] # 0 => r = s
  BY <1>2, <1>6 DEF Apart
<1> QED BY <1>1, <1>2, <1>4, <1>5, <1>7

\* The paths a step of one command does not name keep their directories.
LEMMA StageStep ==
  ASSUME SkillsInv, K!SkillsAssumption, NEW a \in Actors, K!Stage(a)
  PROVE  SkillsInv'
<1>1. actor[a].at = "stage" /\ UNCHANGED <<touched, installed>> /\ K!Fresh(K!Staged(a))
  BY DEF K!Stage, K!Is
<1> PICK x : x = actor[a]
  OBVIOUS
<1> PICK m : m = x.name
  OBVIOUS
<1>2. Typed /\ Apart /\ Sound(x, touched) /\ IsActor(x) /\ touched \subseteq Names
  BY CommandIs DEF SkillsInv, Typed
<1>3. m \in Names /\ x.tree \in DOMAIN Tree /\ x.held = 0
  BY <1>1, <1>2 DEF Sound, Copying
<1>4. at[K!Staged(a)] = 0 /\ at[K!Backup(a)] = 0
  BY <1>1 DEF SkillsInv, Owner, Keeps
<1>5. PICK y : y = [x EXCEPT !.at = "copy"]
  OBVIOUS
<1>6. actor' = [actor EXCEPT ![a] = y]
  BY <1>2, <1>5, Steps DEF K!Stage
<1>7. /\ IsActor(y) /\ y.at = "copy" /\ y.held = 0 /\ y.name = m
      /\ y.tree = x.tree /\ y.stack = x.stack
  BY <1>2, <1>3, <1>5, GoesOn
<1>8. 0 \notin Dirs
  BY Zenon DEF K!SkillsAssumption
<1>9. PICK i \in K!Free :
        /\ i \in Dirs /\ (\A q \in K!Paths : at[q] # i) /\ (\A b \in Actors : actor[b].held # i)
        /\ at' = [at EXCEPT ![K!Staged(a)] = i] /\ files' = [files EXCEPT ![i] = K!Nothing]
        /\ at' \in [K!Paths -> Dirs \cup {0}] /\ files' \in [Dirs -> [K!Files -> Contents]]
        /\ \A q, r \in K!Paths : at'[q] = at'[r] /\ at'[q] # 0 => q = r
  BY <1>1, <1>2, <1>8, PathsAre, FreshApart
<1>10. at'[K!Staged(a)] = i /\ \A q \in K!Paths \ {K!Staged(a)} : at'[q] = at[q]
  BY <1>2, <1>9, PathsAre DEF Typed
<1>11. files'[i] = K!Nothing /\ \A j \in Dirs \ {i} : files'[j] = files[j]
  BY <1>2, <1>9 DEF Typed
<1>12. at'[K!Backup(a)] = 0 /\ at'[K!Skill(m)] = at[K!Skill(m)]
  BY <1>3, <1>4, <1>10, PathsApart, PathsAre
<1>13. Sound(y, touched)
  BY <1>2, <1>3, <1>7 DEF Sound, Copying, Changing
<1>14. \A f \in K!Files : files'[i][f] = K!NoFile
  BY <1>11 DEF K!Nothing
<1>15. Keeps(y, i, 0, files'[i], files'[0], touched)
  BY <1>7, <1>8, <1>9, <1>14 DEF Keeps
<1>16. \A p \in K!Paths : Arrives(p)
  BY <1>9, <1>10 DEF Arrives
<1>17. m \notin touched /\ at'[K!Skill(m)] # 0 => IsWhole(files'[at'[K!Skill(m)]])
  <2>1. at[K!Skill(m)] # i /\ at[K!Skill(m)] \in Dirs \cup {0}
    BY <1>2, <1>3, <1>9, PathsAre DEF Typed
  <2>2. m \notin touched /\ at[K!Skill(m)] # 0 => IsWhole(files[at[K!Skill(m)]])
    BY <1>3 DEF SkillsInv
  <2> QED BY <1>11, <1>12, <2>1, <2>2
<1>18. KeepsName(a, y)
  BY <1>4 DEF KeepsName
<1>19. \A j \in Dirs : files'[j] = files[j] \/ \A p \in K!Paths : at[p] # j
  BY <1>9, <1>11
<1>20. Moves(a, y, m)
  BY <1>1, <1>2, <1>6, <1>7, <1>9, <1>10, <1>12, <1>13, <1>15, <1>16, <1>17, <1>18, <1>19 DEF Moves
<1> QED BY <1>1, <1>3, <1>4, <1>12, <1>20, MoveStep

\* After a rename, what is held is where it was or where it was renamed to.
LEMMA RenameArrives ==
  ASSUME NEW p \in K!Paths, NEW q \in K!Paths, at'[p] = 0, at'[q] = at[p],
         \A r \in K!Paths \ {p, q} : at'[r] = at[r],
         \A n \in Names : Tied(p, n) => Tied(q, n)'
  PROVE  \A r \in K!Paths : Arrives(r)
<1> TAKE r \in K!Paths
<1>1. CASE r = p
  BY <1>1 DEF Arrives
<1>2. CASE r = q
  BY <1>2, Zenon DEF Arrives
<1>3. CASE r # p /\ r # q
  BY <1>3 DEF Arrives
<1> QED BY <1>1, <1>2, <1>3

\* A command of a transaction that goes on, and finds nothing to move.
LEMMA StayStep ==
  ASSUME SkillsInv, NEW a \in Actors, actor[a].at \in {"aside", "commit", "restore"},
         NEW step \in {"restore", "failed"}, UNCHANGED <<at, files, touched, installed>>,
         actor' = K!Now(a, step),
         step = "restore" => actor[a].at = "commit",
         actor[a].at = "restore" /\ at[K!Backup(a)] # 0 => at[K!Skill(actor[a].name)] # 0,
         actor[a].at # "commit" \/ step = "restore"
  PROVE  SkillsInv'
<1> PICK x : x = actor[a]
  OBVIOUS
<1> PICK i : i = at[K!Staged(a)]
  OBVIOUS
<1> PICK k : k = at[K!Backup(a)]
  OBVIOUS
<1>1. Typed /\ Sound(x, touched) /\ IsActor(x) /\ touched \subseteq Names
  BY CommandIs DEF SkillsInv, Typed
<1>2. Keeps(x, i, k, files[i], files[k], touched)
  BY DEF SkillsInv, Owner
<1>3. PICK y : y = [x EXCEPT !.at = step]
  OBVIOUS
<1>4. actor' = [actor EXCEPT ![a] = y]
  BY <1>1, <1>3, Steps
<1>5. x.held = 0 /\ x.name \in Names /\ x.tree \in DOMAIN Tree
  BY <1>1 DEF Sound, Copying
<1>6. /\ IsActor(y) /\ y.at = step /\ y.held = 0 /\ y.name = x.name
      /\ y.tree = x.tree /\ y.stack = x.stack
  BY <1>1, <1>3, <1>5, GoesOn
<1>7. Sound(y, touched)
  BY <1>1, <1>5, <1>6 DEF Sound, Copying, Changing
<1>8. Keeps(y, i, k, files[i], files[k], touched)
  BY <1>2, <1>5, <1>6 DEF Keeps
<1>9. KeepsName(a, y)
  BY <1>6 DEF KeepsName
<1>10. Changes(a) /\ files' \in [Dirs -> [K!Files -> Contents]]
  BY <1>1 DEF Changes, Typed
<1>11. x.at \in Returns /\ k # 0 => y.at \in Returns \/ at[K!Skill(x.name)] # 0
  BY <1>2, <1>6 DEF Returns, Keeps
<1> QED BY <1>1, <1>4, <1>6, <1>7, <1>8, <1>9, <1>10, <1>11, QuietStep

LEMMA MoveAsideStep ==
  ASSUME SkillsInv, K!SkillsAssumption, NEW a \in Actors, K!MoveAside(a)
  PROVE  SkillsInv'
<1>1. actor[a].at = "aside" /\ UNCHANGED <<files, touched, installed>>
  BY DEF K!MoveAside, K!Is
<1> PICK x : x = actor[a]
  OBVIOUS
<1> PICK m : m = x.name
  OBVIOUS
<1>2. Typed /\ Apart /\ Sound(x, touched) /\ IsActor(x) /\ touched \subseteq Names
  BY CommandIs DEF SkillsInv, Typed
<1>3. m \in Names /\ x.tree \in DOMAIN Tree /\ x.held = 0
  BY <1>1, <1>2 DEF Sound, Copying
<1> PICK i : i = at[K!Staged(a)]
  OBVIOUS
<1>4. i # 0 /\ at[K!Backup(a)] = 0 /\ IsWhole(files[i])
  BY <1>1 DEF SkillsInv, Owner, Keeps
<1> PICK k : k = at[K!Skill(m)]
  OBVIOUS
<1>5. CASE k = 0
  <2>1. actor' = K!Now(a, "failed") /\ at' = at
    BY <1>5 DEF K!MoveAside, K!NoDir
  <2> QED BY <1>1, <2>1, StayStep
<1>6. CASE k # 0
  <2>1. K!Rename(K!Skill(m), K!Backup(a)) /\ actor' = K!Now(a, "commit")
    BY <1>6 DEF K!MoveAside, K!NoDir
  <2>2. PICK y : y = [x EXCEPT !.at = "commit"]
    OBVIOUS
  <2>3. actor' = [actor EXCEPT ![a] = y]
    BY <1>2, <2>1, <2>2, Steps
  <2>4. /\ IsActor(y) /\ y.at = "commit" /\ y.held = 0 /\ y.name = m
        /\ y.tree = x.tree /\ y.stack = x.stack
    BY <1>2, <1>3, <2>2, GoesOn
  <2>5. /\ K!Skill(m) \in K!Paths /\ K!Backup(a) \in K!Paths /\ K!Staged(a) \in K!Paths
        /\ K!Skill(m) # K!Backup(a) /\ K!Skill(m) # K!Staged(a) /\ K!Staged(a) # K!Backup(a)
    BY <1>3, PathsApart, PathsAre
  <2>6. /\ at' \in [K!Paths -> Dirs \cup {0}]
        /\ at'[K!Skill(m)] = 0 /\ at'[K!Backup(a)] = k
        /\ \A r \in K!Paths \ {K!Skill(m), K!Backup(a)} : at'[r] = at[r]
        /\ \A r, s \in K!Paths : at'[r] = at'[s] /\ at'[r] # 0 => r = s
    BY <1>2, <2>1, <2>5, RenameApart
  <2>7. at'[K!Staged(a)] = i
    BY <2>5, <2>6
  <2>8. Sound(y, touched)
    BY <1>2, <1>3, <2>4 DEF Sound, Copying, Changing
  <2>9. m \notin touched => IsWhole(files[k])
    BY <1>3, <1>6 DEF SkillsInv
  <2>10. Keeps(y, i, k, files[i], files[k], touched)
    BY <1>3, <1>4, <2>4, <2>9 DEF Keeps
  <2>11. \A p \in K!Paths : Arrives(p)
    <3>1. ASSUME NEW n \in Names, Tied(K!Skill(m), n) PROVE Tied(K!Backup(a), n)'
      <4>1. n = m
        BY <3>1, PathsApart, Zenon DEF Tied
      <4>2. actor'[a].name = m
        BY <1>2, <2>3, <2>4 DEF Typed
      <4> QED BY <4>1, <4>2 DEF Tied, K!Backup
    <3> QED BY <2>5, <2>6, <3>1, RenameArrives
  <2>12. KeepsName(a, y)
    BY <2>4 DEF KeepsName
  <2>13. files' \in [Dirs -> [K!Files -> Contents]]
    BY <1>1, <1>2 DEF Typed
  <2>14. Moves(a, y, m)
    BY <1>1, <1>2, <2>3, <2>4, <2>6, <2>7, <2>8, <2>10, <2>11, <2>12, <2>13 DEF Moves
  <2> QED BY <1>1, <1>3, <1>4, <1>6, <2>4, <2>6, <2>14, MoveStep DEF Returns
<1> QED BY <1>5, <1>6

LEMMA CommitStep ==
  ASSUME SkillsInv, NEW a \in Actors, K!Commit(a)
  PROVE  SkillsInv'
<1>1. actor[a].at = "commit" /\ UNCHANGED <<files, touched>>
  BY DEF K!Commit, K!Is
<1> PICK x : x = actor[a]
  OBVIOUS
<1> PICK m : m = x.name
  OBVIOUS
<1>2. Typed /\ Apart /\ Sound(x, touched) /\ IsActor(x) /\ touched \subseteq Names
  BY CommandIs DEF SkillsInv, Typed
<1>3. m \in Names /\ x.tree \in DOMAIN Tree /\ x.held = 0
  BY <1>1, <1>2 DEF Sound, Copying
<1> PICK i : i = at[K!Staged(a)]
  OBVIOUS
<1> PICK k : k = at[K!Backup(a)]
  OBVIOUS
<1>4. Keeps(x, i, k, files[i], files[k], touched) /\ i # 0 /\ IsWhole(files[i])
  BY <1>1 DEF SkillsInv, Owner, Keeps
<1>5. CASE actor' = K!Now(a, "restore") /\ UNCHANGED <<at, installed>>
  BY <1>1, <1>5, StayStep
<1>6. CASE /\ K!Rename(K!Staged(a), K!Skill(m))
           /\ actor' = K!Now(a, "committed")
           /\ installed' = installed \cup {m}
  <2>2. PICK y : y = [x EXCEPT !.at = "committed"]
    OBVIOUS
  <2>3. actor' = [actor EXCEPT ![a] = y]
    BY <1>2, <1>6, <2>2, Steps
  <2>4. /\ IsActor(y) /\ y.at = "committed" /\ y.held = 0 /\ y.name = m
        /\ y.tree = x.tree /\ y.stack = x.stack
    BY <1>2, <1>3, <2>2, GoesOn
  <2>5. /\ K!Skill(m) \in K!Paths /\ K!Backup(a) \in K!Paths /\ K!Staged(a) \in K!Paths
        /\ K!Skill(m) # K!Backup(a) /\ K!Skill(m) # K!Staged(a) /\ K!Staged(a) # K!Backup(a)
    BY <1>3, PathsApart, PathsAre
  <2>6. /\ at' \in [K!Paths -> Dirs \cup {0}]
        /\ at'[K!Staged(a)] = 0 /\ at'[K!Skill(m)] = i
        /\ \A r \in K!Paths \ {K!Staged(a), K!Skill(m)} : at'[r] = at[r]
        /\ \A r, s \in K!Paths : at'[r] = at'[s] /\ at'[r] # 0 => r = s
    BY <1>2, <1>6, <2>5, RenameApart
  <2>7. at'[K!Backup(a)] = k
    BY <2>5, <2>6
  <2>8. Sound(y, touched)
    BY <1>2, <1>3, <2>4 DEF Sound, Copying, Changing
  <2>9. Keeps(y, 0, k, files[0], files[k], touched)
    BY <1>3, <1>4, <2>4 DEF Keeps
  <2>10. \A p \in K!Paths : Arrives(p)
    <3>1. \A n \in Names : ~Tied(K!Staged(a), n)
      BY PathsApart, Zenon DEF Tied
    <3> QED BY <2>5, <2>6, <3>1, RenameArrives
  <2>11. KeepsName(a, y)
    BY <2>4 DEF KeepsName
  <2>12. files' \in [Dirs -> [K!Files -> Contents]]
    BY <1>1, <1>2 DEF Typed
  <2>13. Moves(a, y, m)
    BY <1>1, <1>2, <1>4, <2>3, <2>4, <2>6, <2>7, <2>8, <2>9, <2>10, <2>11, <2>12 DEF Moves
  <2> QED BY <1>1, <1>3, <1>4, <1>6, <2>6, <2>13, MoveStep
<1> QED BY <1>5, <1>6 DEF K!Commit

LEMMA RestoreStep ==
  ASSUME SkillsInv, NEW a \in Actors, K!Restore(a)
  PROVE  SkillsInv'
<1>1. /\ actor[a].at = "restore" /\ UNCHANGED <<files, touched, installed>>
      /\ actor' = K!Now(a, "failed")
  BY DEF K!Restore, K!Is
<1> PICK x : x = actor[a]
  OBVIOUS
<1> PICK m : m = x.name
  OBVIOUS
<1>2. Typed /\ Apart /\ Sound(x, touched) /\ IsActor(x) /\ touched \subseteq Names
  BY CommandIs DEF SkillsInv, Typed
<1>3. m \in Names /\ x.tree \in DOMAIN Tree /\ x.held = 0
  BY <1>1, <1>2 DEF Sound, Copying
<1> PICK i : i = at[K!Staged(a)]
  OBVIOUS
<1> PICK k : k = at[K!Backup(a)]
  OBVIOUS
<1>4. Keeps(x, i, k, files[i], files[k], touched) /\ i # 0
  BY <1>1 DEF SkillsInv, Owner, Keeps
<1>5. CASE ~(k # 0 /\ K!Empty(K!Skill(m)))
  <2>1. at' = at
    BY <1>5 DEF K!Restore, K!NoDir
  <2>2. k # 0 => at[K!Skill(m)] # 0
    BY <1>5 DEF K!Empty, K!NoDir
  <2> QED BY <1>1, <2>1, <2>2, StayStep
<1>6. CASE k # 0 /\ K!Empty(K!Skill(m))
  <2>1. K!Rename(K!Backup(a), K!Skill(m))
    BY <1>6 DEF K!Restore, K!NoDir
  <2>2. PICK y : y = [x EXCEPT !.at = "failed"]
    OBVIOUS
  <2>3. actor' = [actor EXCEPT ![a] = y]
    BY <1>1, <1>2, <2>2, Steps
  <2>4. /\ IsActor(y) /\ y.at = "failed" /\ y.held = 0 /\ y.name = m
        /\ y.tree = x.tree /\ y.stack = x.stack
    BY <1>2, <1>3, <2>2, GoesOn
  <2>5. /\ K!Skill(m) \in K!Paths /\ K!Backup(a) \in K!Paths /\ K!Staged(a) \in K!Paths
        /\ K!Skill(m) # K!Backup(a) /\ K!Skill(m) # K!Staged(a) /\ K!Staged(a) # K!Backup(a)
    BY <1>3, PathsApart, PathsAre
  <2>6. /\ at' \in [K!Paths -> Dirs \cup {0}]
        /\ at'[K!Backup(a)] = 0 /\ at'[K!Skill(m)] = k
        /\ \A r \in K!Paths \ {K!Backup(a), K!Skill(m)} : at'[r] = at[r]
        /\ \A r, s \in K!Paths : at'[r] = at'[s] /\ at'[r] # 0 => r = s
    BY <1>2, <2>1, <2>5, RenameApart
  <2>7. at'[K!Staged(a)] = i
    BY <2>5, <2>6
  <2>8. Sound(y, touched)
    BY <1>2, <1>3, <2>4 DEF Sound, Copying, Changing
  <2>9. Keeps(y, i, 0, files[i], files[0], touched)
    BY <1>3, <1>4, <2>4 DEF Keeps
  <2>10. \A p \in K!Paths : Arrives(p)
    <3>1. ASSUME NEW n \in Names, Tied(K!Backup(a), n) PROVE Tied(K!Skill(m), n)'
      <4>1. n = m
        BY <3>1, PathsApart, Zenon DEF Tied
      <4> QED BY <4>1 DEF Tied, K!Skill
    <3> QED BY <2>5, <2>6, <3>1, RenameArrives
  <2>11. KeepsName(a, y)
    BY <2>4 DEF KeepsName
  <2>12. files' \in [Dirs -> [K!Files -> Contents]]
    BY <1>1, <1>2 DEF Typed
  <2>13. m \notin touched => IsWhole(files[k])
    BY <1>4, <1>6 DEF Keeps
  <2>14. Moves(a, y, m)
    BY <1>1, <1>2, <2>3, <2>4, <2>6, <2>7, <2>8, <2>9, <2>10, <2>11, <2>12, <2>13 DEF Moves
  <2> QED BY <1>1, <1>3, <1>6, <2>6, <2>14, MoveStep
<1> QED BY <1>5, <1>6

LEMMA CleanUpStep ==
  ASSUME SkillsInv, NEW a \in Actors, K!CleanUp(a)
  PROVE  SkillsInv'
<1>1. /\ actor[a].at \in {"committed", "failed"} /\ UNCHANGED <<files, touched, installed>>
      /\ at' = [at EXCEPT ![K!Staged(a)] = 0, ![K!Backup(a)] = 0]
  BY DEF K!CleanUp, K!NoDir
<1> PICK x : x = actor[a]
  OBVIOUS
<1> PICK m : m = x.name
  OBVIOUS
<1>2. Typed /\ Apart /\ Sound(x, touched) /\ IsActor(x) /\ touched \subseteq Names
  BY CommandIs DEF SkillsInv, Typed
<1>3. m \in Names /\ x.tree \in DOMAIN Tree /\ x.held = 0
  BY <1>1, <1>2 DEF Sound, Copying
<1>4. PICK y : y = IF x.at = "failed" THEN [x EXCEPT !.at = "done"]
                   ELSE [x EXCEPT !.at = "walk", !.skip = @ \cup {x.tree},
                                  !.names = Append(@, K!MetaOf(x.tree, x.name))]
  OBVIOUS
<1>5. actor' = [actor EXCEPT ![a] = y]
  BY <1>4 DEF K!CleanUp
<1>6. /\ IsActor(y) /\ y.at \in {"walk", "done"} /\ y.held = 0 /\ y.name = m
      /\ y.tree = x.tree /\ y.stack = x.stack
  BY <1>2, <1>3, <1>4 DEF IsActor
<1>7. /\ K!Skill(m) \in K!Paths /\ K!Backup(a) \in K!Paths /\ K!Staged(a) \in K!Paths
      /\ K!Skill(m) # K!Backup(a) /\ K!Skill(m) # K!Staged(a) /\ K!Staged(a) # K!Backup(a)
  BY <1>3, PathsApart, PathsAre
<1>8. /\ at' \in [K!Paths -> Dirs \cup {0}]
      /\ at'[K!Staged(a)] = 0 /\ at'[K!Backup(a)] = 0
      /\ \A r \in K!Paths \ {K!Staged(a), K!Backup(a)} : at'[r] = at[r]
  BY <1>1, <1>2, <1>7 DEF Typed
<1>9. \A r, s \in K!Paths : at'[r] = at'[s] /\ at'[r] # 0 => r = s
  BY <1>2, <1>8 DEF Apart
<1>10. Sound(y, touched)
  BY <1>2, <1>3, <1>6 DEF Sound, Copying, Changing
<1>11. Keeps(y, 0, 0, files[0], files[0], touched)
  BY <1>6 DEF Keeps
<1>12. \A p \in K!Paths : Arrives(p)
  BY <1>8 DEF Arrives
<1>13. KeepsName(a, y)
  BY <1>6 DEF KeepsName
<1>14. files' \in [Dirs -> [K!Files -> Contents]]
  BY <1>1, <1>2 DEF Typed
<1>15. m \notin touched /\ at'[K!Skill(m)] # 0 => IsWhole(files[at'[K!Skill(m)]])
  BY <1>3, <1>7, <1>8 DEF SkillsInv
<1>16. Moves(a, y, m)
  BY <1>1, <1>2, <1>5, <1>6, <1>8, <1>9, <1>10, <1>11, <1>12, <1>13, <1>14, <1>15 DEF Moves
<1> QED BY <1>1, <1>3, <1>7, <1>8, <1>16, MoveStep DEF Returns

LEMMA RemoveDirStep ==
  ASSUME SkillsInv, NEW a \in Actors, K!RemoveDir(a)
  PROVE  SkillsInv'
<1>1. actor[a].at = "unlink" /\ UNCHANGED <<files, touched, installed>>
  BY DEF K!RemoveDir, K!Is
<1> PICK x : x = actor[a]
  OBVIOUS
<1> PICK m : m = x.name
  OBVIOUS
<1>2. Typed /\ Apart /\ Sound(x, touched) /\ IsActor(x) /\ touched \subseteq Names
  BY CommandIs DEF SkillsInv, Typed
<1>3. m \in touched /\ m \in Names
  BY <1>1, <1>2 DEF Sound, Changing
<1>4. at[K!Staged(a)] = 0 /\ at[K!Backup(a)] = 0
  BY <1>1 DEF SkillsInv, Owner, Keeps
<1>5. PICK y : y = [x EXCEPT !.at = "done", !.held = 0]
  OBVIOUS
<1>6. actor' = [actor EXCEPT ![a] = y]
  BY <1>2, <1>5 DEF K!RemoveDir, K!NoDir, Typed
<1>7. IsActor(y) /\ y.at = "done" /\ y.held = 0 /\ y.name = m /\ y.stack = x.stack
  BY <1>2, <1>5 DEF IsActor
<1>8. /\ K!Skill(m) \in K!Paths /\ K!Backup(a) \in K!Paths /\ K!Staged(a) \in K!Paths
      /\ K!Skill(m) # K!Backup(a) /\ K!Skill(m) # K!Staged(a)
  BY <1>3, PathsApart, PathsAre
<1>9. /\ at' \in [K!Paths -> Dirs \cup {0}]
      /\ at'[K!Skill(m)] \in {0, at[K!Skill(m)]}
      /\ \A r \in K!Paths \ {K!Skill(m)} : at'[r] = at[r]
  <2>1. at' = [at EXCEPT ![K!Skill(m)] = IF K!Empty(K!Skill(m)) THEN 0 ELSE @]
    BY DEF K!RemoveDir, K!NoDir
  <2> QED BY <1>2, <1>8, <2>1 DEF Typed
<1>10. \A r, s \in K!Paths : at'[r] = at'[s] /\ at'[r] # 0 => r = s
  BY <1>2, <1>9 DEF Apart
<1>11. at'[K!Staged(a)] = 0 /\ at'[K!Backup(a)] = 0
  BY <1>4, <1>8, <1>9
<1>12. Sound(y, touched)
  BY <1>2, <1>7 DEF Sound, Copying, Changing
<1>13. Keeps(y, 0, 0, files[0], files[0], touched)
  BY <1>7 DEF Keeps
<1>14. \A p \in K!Paths : Arrives(p)
  BY <1>9 DEF Arrives
<1>15. KeepsName(a, y)
  BY <1>7 DEF KeepsName
<1>16. files' \in [Dirs -> [K!Files -> Contents]]
  BY <1>1, <1>2 DEF Typed
<1>17. Moves(a, y, m)
  BY <1>1, <1>2, <1>3, <1>6, <1>7, <1>9, <1>10, <1>11, <1>12, <1>13, <1>14, <1>15, <1>16 DEF Moves
<1> QED BY <1>1, <1>3, <1>4, <1>17, MoveStep

LEMMA CreateStep ==
  ASSUME SkillsInv, K!SkillsAssumption, NEW a \in Actors, NEW m \in Names, K!Create(a, m)
  PROVE  SkillsInv'
<1>1. actor[a].at = "idle" /\ installed' = installed /\ touched' = touched \cup {m}
  BY DEF K!Create, K!Is
<1>2. Typed /\ Apart /\ touched \subseteq Names /\ touched' \subseteq Names
  BY <1>1 DEF SkillsInv, Typed
<1>3. at[K!Staged(a)] = 0 /\ at[K!Backup(a)] = 0
  BY <1>1 DEF SkillsInv, Owner, Keeps
<1>4. PICK y : y = [K!Idle EXCEPT !.at = "open", !.name = m]
  OBVIOUS
<1>5. actor' = [actor EXCEPT ![a] = y]
  BY <1>4 DEF K!Create
<1>6. IsActor(y) /\ y.at = "open" /\ y.held = 0 /\ y.name = m /\ y.stack = <<>>
  BY <1>4, IdleIs DEF IsActor
<1>7. Sound(y, touched')
  BY <1>1, <1>6 DEF Sound, Copying, Changing
<1>8. CASE UNCHANGED <<at, files>>
  BY <1>1, <1>2, <1>5, <1>6, <1>7, <1>8, LookStep DEF InTransaction
<1>9. CASE K!Fresh(K!Skill(m))
  <2>1. 0 \notin Dirs
    BY Zenon DEF K!SkillsAssumption
  <2>2. PICK i \in K!Free :
        /\ i \in Dirs /\ (\A q \in K!Paths : at[q] # i) /\ (\A b \in Actors : actor[b].held # i)
        /\ at' = [at EXCEPT ![K!Skill(m)] = i] /\ files' = [files EXCEPT ![i] = K!Nothing]
        /\ at' \in [K!Paths -> Dirs \cup {0}] /\ files' \in [Dirs -> [K!Files -> Contents]]
        /\ \A q, r \in K!Paths : at'[q] = at'[r] /\ at'[q] # 0 => q = r
    BY <1>2, <1>9, <2>1, PathsAre, FreshApart
  <2>3. at'[K!Skill(m)] = i /\ \A q \in K!Paths \ {K!Skill(m)} : at'[q] = at[q]
    BY <1>2, <2>2, PathsAre DEF Typed
  <2>4. \A j \in Dirs \ {i} : files'[j] = files[j]
    BY <1>2, <2>2 DEF Typed
  <2>5. at'[K!Staged(a)] = 0 /\ at'[K!Backup(a)] = 0
    BY <1>3, <2>3, PathsApart, PathsAre
  <2>6. Keeps(y, 0, 0, files'[0], files'[0], touched')
    BY <1>6 DEF Keeps
  <2>7. \A p \in K!Paths : Arrives(p)
    BY <2>2, <2>3 DEF Arrives
  <2>8. KeepsName(a, y)
    BY <1>3 DEF KeepsName
  <2>9. \A j \in Dirs : files'[j] = files[j] \/ \A p \in K!Paths : at[p] # j
    BY <2>2, <2>4
  <2>10. Moves(a, y, m)
    BY <1>1, <1>2, <1>5, <1>6, <1>7, <2>2, <2>3, <2>5, <2>6, <2>7, <2>8, <2>9 DEF Moves
  <2> QED BY <1>1, <1>3, <2>10, MoveStep
<1> QED BY <1>8, <1>9 DEF K!Create

-----------------------------------------------------------------------------
LEMMA SkillsInit ==
  ASSUME K!SkillsAssumption, K!Init
  PROVE  SkillsInv
<1>1. PICK d \in Present :
          /\ at = [p \in K!Paths |-> IF d # K!Absent /\ p = K!Skill(Tree[d].name) THEN 1 ELSE 0]
          /\ files = [i \in Dirs |-> IF d # K!Absent /\ i = 1 THEN [f \in K!Files |-> d] ELSE K!Nothing]
          /\ installed = IF d = K!Absent THEN {} ELSE {Tree[d].name}
  BY DEF K!Init, K!NoDir
<1>2. actor = [a \in Actors |-> K!Idle] /\ touched = {}
  BY DEF K!Init
<1>3. 0 \notin Dirs /\ 1 \in Dirs
  BY Zenon DEF K!SkillsAssumption
<1>4. d # K!Absent => d \in DOMAIN Tree /\ Tree[d].name \in Names
  <2>1. /\ Roots \cup Clones \cup (Present \ {"none"}) \subseteq DOMAIN Tree
        /\ \A e \in Present \ {"none"} : Tree[e].name \in Names
    BY Zenon DEF K!SkillsAssumption
  <2> QED BY <2>1 DEF K!Absent
<1>5. \A a \in Actors : actor[a] = K!Idle
  BY <1>2
<1>6. Typed
  <2>1. at \in [K!Paths -> Dirs \cup {0}]
    BY <1>1, <1>3
  <2>2. \A i \in Dirs : files[i] \in [K!Files -> Contents]
    BY <1>1, <1>4 DEF K!Nothing, Contents
  <2>3. files = [i \in Dirs |-> files[i]]
    BY <1>1
  <2>4. files \in [Dirs -> [K!Files -> Contents]]
    BY <2>2, <2>3, Zenon
  <2>5. installed \subseteq Names /\ touched \subseteq Names
    BY <1>1, <1>2, <1>4
  <2>6. actor = [a \in Actors |-> actor[a]]
    BY <1>2
  <2> QED BY <2>1, <2>4, <2>5, <2>6 DEF Typed
<1>7. Apart
  BY <1>1 DEF Apart
<1>8. \A a \in Actors : at[K!Staged(a)] = 0 /\ at[K!Backup(a)] = 0
  BY <1>1, PathsApart, PathsAre
<1>9. \A a \in Actors : Owner(a)
  <2> TAKE a \in Actors
  <2>1. Sound(K!Idle, touched)
    BY IdleIs DEF Sound, Copying, Changing
  <2>2. Keeps(K!Idle, 0, 0, files[0], files[0], touched)
    BY IdleIs DEF Keeps
  <2> QED BY <1>5, <1>8, <2>1, <2>2 DEF Owner
<1>10. \A a \in Actors : Held(a)
  BY <1>5, IdleIs DEF Held
<1>11. \A n \in Names : at[K!Skill(n)] # 0 => IsWhole(files[at[K!Skill(n)]])
  <2> SUFFICES ASSUME NEW n \in Names, at[K!Skill(n)] # 0 PROVE IsWhole(files[at[K!Skill(n)]])
    OBVIOUS
  <2>1. d # K!Absent /\ at[K!Skill(n)] = 1
    BY <1>1, PathsAre
  <2>2. files[1] = [f \in K!Files |-> d]
    BY <1>1, <1>3, <2>1
  <2> QED BY <1>4, <2>1, <2>2 DEF IsWhole
<1>12. \A n \in installed : Lasts(n)
  BY <1>1, <1>4, PathsAre DEF Lasts
<1> QED BY <1>6, <1>7, <1>9, <1>10, <1>11, <1>12 DEF SkillsInv

LEMMA SkillsStep ==
  ASSUME SkillsInv, K!SkillsAssumption, [K!Next]_K!vars
  PROVE  SkillsInv'
<1>1. CASE UNCHANGED K!vars
  <2> USE <1>1 DEF K!vars
  <2>1. Typed' /\ Apart'
    BY DEF SkillsInv, Typed, Apart, K!Paths, K!Skill, K!Staged, K!Backup
  <2>2. \A a \in Actors : Owner(a)'
    BY DEF SkillsInv, Owner
  <2>3. \A a \in Actors : Held(a)'
    BY DEF SkillsInv, Held, Tied, K!Paths, K!Skill, K!Staged, K!Backup
  <2>4. (\A n \in Names \ touched : at[K!Skill(n)] # 0 => IsWhole(files[at[K!Skill(n)]]))'
    BY DEF SkillsInv
  <2>5. (\A n \in installed \ touched : Lasts(n))'
    BY DEF SkillsInv, Lasts
  <2> QED BY <2>1, <2>2, <2>3, <2>4, <2>5, Zenon DEF SkillsInv
<1>2. CASE K!Next
  <2>1. PICK a \in Actors :
       \/ \E root \in Roots, filters \in K!Requests : K!Install(a, root, filters)
       \/ K!Clone(a) \/ K!Walk(a) \/ K!Walked(a) \/ K!Stage(a) \/ K!Copy(a) \/ K!CopyFails(a) \/ K!SeeThere(a)
       \/ K!MoveAside(a) \/ K!Commit(a) \/ K!Restore(a) \/ K!CleanUp(a)
       \/ \E n \in Names : K!Create(a, n)
       \/ K!OpenTemplate(a) \/ K!WriteTemplate(a)
       \/ \E name \in K!Asked : K!Remove(a, name) \/ K!Load(a, name)
       \/ K!OpenRemoved(a) \/ K!Unlink(a) \/ K!RemoveDir(a) \/ K!ReadSkill(a)
       \/ K!Kill(a)
    BY <1>2 DEF K!Next
  <2>2. CASE \E root \in Roots, filters \in K!Requests : K!Install(a, root, filters)
    BY <2>2, InstallStep
  <2>3. CASE K!Clone(a) \/ K!Walk(a) \/ K!Walked(a) \/ K!Stage(a) \/ K!Copy(a) \/ K!CopyFails(a) \/ K!SeeThere(a)
    BY <2>3, CloneStep, WalkStep, WalkedStep, StageStep, CopyStep, CopyFailsStep, SeeThereStep
  <2>4. CASE K!MoveAside(a) \/ K!Commit(a) \/ K!Restore(a) \/ K!CleanUp(a)
    BY <2>4, MoveAsideStep, CommitStep, RestoreStep, CleanUpStep
  <2>5. CASE \E n \in Names : K!Create(a, n)
    BY <2>5, CreateStep
  <2>6. CASE K!OpenTemplate(a) \/ K!WriteTemplate(a)
    BY <2>6, OpenTemplateStep, WriteTemplateStep
  <2>7. CASE \E name \in K!Asked : K!Remove(a, name) \/ K!Load(a, name)
    BY <2>7, RemoveSkillStep, LoadSkillStep
  <2>8. CASE K!OpenRemoved(a) \/ K!Unlink(a) \/ K!RemoveDir(a) \/ K!ReadSkill(a) \/ K!Kill(a)
    BY <2>8, OpenRemovedStep, UnlinkStep, RemoveDirStep, ReadSkillStep, KillStep
  <2> QED BY <2>1, <2>2, <2>3, <2>4, <2>5, <2>6, <2>7, <2>8
<1> QED BY <1>1, <1>2

LEMMA SkillsHold == K!Spec => []SkillsInv
<1>1. K!Init => SkillsInv
  BY StoresAssumption, SkillsInit
<1>2. SkillsInv /\ [K!Next]_K!vars => SkillsInv'
  BY StoresAssumption, SkillsStep
<1> QED BY <1>1, <1>2, PTL DEF K!Spec

LEMMA WholeIs ==
  ASSUME NEW i, i # 0, IsWhole(files[i])
  PROVE  K!Whole(i)
BY Zenon DEF K!Whole, IsWhole, K!NoDir

\* A skill that was installed, and that nobody asked to create or to remove, is
\* never lost: not by installs of several processes under one name (copy_skill_dir
\* moves what is there aside before the copy takes its place), nor by a call that
\* fails or a process that is killed at any point of it.
THEOREM LastVersionStays == K!Spec => []NothingLost
<1>1. SkillsInv => NothingLost
  <2> SUFFICES ASSUME SkillsInv, NEW n \in installed \ touched
      PROVE  \/ K!Whole(at[K!Skill(n)])
             \/ /\ at[K!Skill(n)] = K!NoDir
                /\ \E a \in Actors : actor[a].name = n /\ K!Whole(at[K!Backup(a)])
    BY Zenon DEF NothingLost, K!NothingLost
  <2>1. Lasts(n) /\ n \in Names \ touched
    BY DEF SkillsInv, Typed
  <2>2. CASE at[K!Skill(n)] # 0
    <3>1. IsWhole(files[at[K!Skill(n)]])
      BY <2>1, <2>2 DEF SkillsInv
    <3> QED BY <2>2, <3>1, WholeIs
  <2>3. CASE at[K!Skill(n)] = 0
    <3>1. PICK b \in Actors : actor[b].name = n /\ actor[b].at \in Returns /\ at[K!Backup(b)] # 0
      BY <2>1, <2>3 DEF Lasts
    <3>2. IsWhole(files[at[K!Backup(b)]])
      BY <2>1, <3>1 DEF SkillsInv, Owner, Keeps
    <3> QED BY <2>3, <3>1, <3>2, WholeIs DEF K!NoDir
  <2> QED BY <2>2, <2>3
<1> QED BY <1>1, SkillsHold, PTL

\* Under no name that nobody asked to create or to remove is there ever a part of
\* a skill: what copy_skill_dir puts there is whole, and nothing writes there.
THEOREM SeenWhole == K!Spec => []VisibleIsWhole
<1>1. SkillsInv => VisibleIsWhole
  <2> SUFFICES ASSUME SkillsInv, NEW n \in Names \ touched, at[K!Skill(n)] # 0
      PROVE  K!Whole(at[K!Skill(n)])
    BY Zenon DEF VisibleIsWhole, K!VisibleIsWhole, K!NoDir
  <2>1. IsWhole(files[at[K!Skill(n)]])
    BY DEF SkillsInv
  <2> QED BY <2>1, WholeIs
<1> QED BY <1>1, SkillsHold, PTL

-----------------------------------------------------------------------------
(* The account of what was used.  First sums, whatever the order they are  *)
(* taken in; then what a line more makes of what the ledger charges.       *)
Pick(T) == CHOOSE x \in T : TRUE

IsSum(f, g, S) ==
  f = [T \in SUBSET S |-> IF T = {} THEN 0 ELSE g[Pick(T)] + f[T \ {Pick(T)}]]

\* The same for the subsets of k elements at most.
UpTo(S, k) == {T \in SUBSET S : Cardinality(T) <= k}
IsPartSum(f, g, S, k) ==
  f = [T \in UpTo(S, k) |-> IF T = {} THEN 0 ELSE g[Pick(T)] + f[T \ {Pick(T)}]]

LEMMA PickIn == ASSUME NEW T, T # {} PROVE Pick(T) \in T
BY Zenon DEF Pick

\* Taking one element out makes a finite set smaller.
LEMMA OneLess ==
  ASSUME NEW S, IsFiniteSet(S), NEW T \in SUBSET S, NEW x \in T
  PROVE  /\ IsFiniteSet(T) /\ Cardinality(T) \in Nat /\ Cardinality(T \ {x}) \in Nat
         /\ Cardinality(T \ {x}) = Cardinality(T) - 1
<1>1. IsFiniteSet(T)
  BY FS_Subset
<1>2. IsFiniteSet(T \ {x}) /\ Cardinality(T \ {x}) = Cardinality(T) - 1
  BY <1>1, FS_RemoveElement
<1> QED BY <1>1, <1>2, FS_CardinalityType

LEMMA PartSumExists ==
  ASSUME NEW S, IsFiniteSet(S), NEW g, NEW n \in Nat
  PROVE  \E f : IsPartSum(f, g, S, n)
<1> DEFINE Bad == {k \in 0 .. n : ~ \E f : IsPartSum(f, g, S, k)}
<1>1. Bad = {}
  <2> SUFFICES ASSUME Bad # {} PROVE FALSE
    OBVIOUS
  <2>1. PICK k \in Bad : \A l \in Bad : k <= l
    <3> Bad \in SUBSET Nat
      OBVIOUS
    <3> HIDE DEF Bad
    <3> QED BY Least
  <2>2. CASE k = 0
    <3> DEFINE h == [T \in UpTo(S, 0) |-> 0]
    <3>1. \A T \in UpTo(S, 0) : T = {}
      <4> TAKE T \in UpTo(S, 0)
      <4>1. IsFiniteSet(T) /\ Cardinality(T) <= 0
        BY FS_Subset DEF UpTo
      <4> QED BY <4>1, FS_EmptySet, FS_CardinalityType
    <3>2. h = [T \in UpTo(S, 0) |-> IF T = {} THEN 0 ELSE g[Pick(T)] + h[T \ {Pick(T)}]]
      BY <3>1
    <3> HIDE DEF h
    <3>3. IsPartSum(h, g, S, 0)
      BY <3>2 DEF IsPartSum
    <3> QED BY <2>1, <2>2, <3>3
  <2>3. CASE k > 0
    <3>1. k \in Nat /\ k - 1 \in 0 .. n /\ k - 1 \notin Bad
      BY <2>1, <2>3
    <3>2. PICK f : IsPartSum(f, g, S, k - 1)
      BY <3>1
    <3> DEFINE More(T) == IF T = {} THEN 0 ELSE g[Pick(T)] + f[T \ {Pick(T)}]
    <3>3. \A T \in UpTo(S, k - 1) : f[T] = More(T)
      BY <3>2, Zenon DEF IsPartSum
    <3> DEFINE h == [T \in UpTo(S, k) |-> More(T)]
    <3>4. \A T \in UpTo(S, k) : h[T] = IF T = {} THEN 0 ELSE g[Pick(T)] + h[T \ {Pick(T)}]
      <4> SUFFICES ASSUME NEW T \in UpTo(S, k), T # {}
                   PROVE  h[T] = g[Pick(T)] + h[T \ {Pick(T)}]
        OBVIOUS
      <4>1. Pick(T) \in T /\ T \in SUBSET S /\ Cardinality(T) <= k
        BY PickIn DEF UpTo
      <4>2. T \ {Pick(T)} \in UpTo(S, k - 1) /\ T \ {Pick(T)} \in UpTo(S, k)
        BY <3>1, <4>1, OneLess DEF UpTo
      <4>3. h[T \ {Pick(T)}] = More(T \ {Pick(T)})
        BY <4>2
      <4>4. h[T \ {Pick(T)}] = f[T \ {Pick(T)}]
        BY <3>3, <4>2, <4>3
      <4> QED BY <4>4
    <3>5. h = [T \in UpTo(S, k) |-> h[T]]
      OBVIOUS
    <3> HIDE DEF h
    <3>6. IsPartSum(h, g, S, k)
      BY <3>4, <3>5, Zenon DEF IsPartSum
    <3> QED BY <2>1, <3>6
  <2> QED BY <2>1, <2>2, <2>3
<1> QED BY <1>1

LEMMA SumExists ==
  ASSUME NEW S, IsFiniteSet(S), NEW g
  PROVE  \E f : IsSum(f, g, S)
<1>1. Cardinality(S) \in Nat
  BY FS_CardinalityType
<1>2. PICK f : IsPartSum(f, g, S, Cardinality(S))
  BY <1>1, PartSumExists
<1>3. UpTo(S, Cardinality(S)) = SUBSET S
  BY FS_Subset DEF UpTo
<1> QED BY <1>2, <1>3, Zenon DEF IsSum, IsPartSum

\* What the equation says of each set.
Adds(f, g, T) ==
  /\ T = {} => f[T] = 0
  /\ T # {} => Pick(T) \in T /\ f[T] = g[Pick(T)] + f[T \ {Pick(T)}]

LEMMA SumStep ==
  ASSUME NEW S, NEW g, NEW f, IsSum(f, g, S)
  PROVE  \A T \in SUBSET S : Adds(f, g, T)
<1> TAKE T \in SUBSET S
<1>1. f[T] = IF T = {} THEN 0 ELSE g[Pick(T)] + f[T \ {Pick(T)}]
  BY Zenon DEF IsSum
<1> QED BY <1>1, PickIn DEF Adds

\* A set with the fewest elements among those for which something is wrong.
LEMMA Fewest ==
  ASSUME NEW S, IsFiniteSet(S), NEW Wrong \in SUBSET (SUBSET S), Wrong # {}
  PROVE  \E T \in Wrong : \A R \in Wrong : Cardinality(T) <= Cardinality(R)
<1> DEFINE N == {Cardinality(T) : T \in Wrong}
<1>1. N \in SUBSET Nat /\ N # {}
  BY FS_Subset, FS_CardinalityType
<1>2. PICK m \in N : \A n \in N : m <= n
  <2> HIDE DEF N
  <2> QED BY <1>1, Least
<1> QED BY <1>2

LEMMA SumValue ==
  ASSUME NEW S, IsFiniteSet(S), NEW g \in [S -> Nat], NEW f, IsSum(f, g, S)
  PROVE  \A T \in SUBSET S : f[T] \in Nat
<1> DEFINE Wrong == {T \in SUBSET S : f[T] \notin Nat}
<1>1. Wrong = {}
  <2> SUFFICES ASSUME Wrong # {} PROVE FALSE
    OBVIOUS
  <2>1. PICK T \in Wrong : \A R \in Wrong : Cardinality(T) <= Cardinality(R)
    <3> Wrong \in SUBSET (SUBSET S)
      OBVIOUS
    <3> HIDE DEF Wrong
    <3> QED BY Fewest
  <2>2. T # {} /\ Pick(T) \in T /\ T \ {Pick(T)} \in SUBSET S
        /\ f[T] = g[Pick(T)] + f[T \ {Pick(T)}]
    <3>1. T \in SUBSET S /\ f[T] \notin Nat
      BY <2>1
    <3> HIDE DEF Wrong
    <3>2. Adds(f, g, T)
      BY <3>1, SumStep
    <3> QED BY <3>1, <3>2 DEF Adds
  <2>3. T \ {Pick(T)} \notin Wrong
    BY <2>1, <2>2, OneLess
  <2> QED BY <2>1, <2>2, <2>3
<1> QED BY <1>1

\* Any element may be taken out.
LEMMA SumTakes ==
  ASSUME NEW S, IsFiniteSet(S), NEW g \in [S -> Nat], NEW f, IsSum(f, g, S)
  PROVE  \A T \in SUBSET S : \A x \in T : f[T] = g[x] + f[T \ {x}]
<1> DEFINE Wrong == {T \in SUBSET S : \E x \in T : f[T] # g[x] + f[T \ {x}]}
<1>1. Wrong = {}
  <2> SUFFICES ASSUME Wrong # {} PROVE FALSE
    OBVIOUS
  <2>1. PICK T \in Wrong : \A R \in Wrong : Cardinality(T) <= Cardinality(R)
    <3> Wrong \in SUBSET (SUBSET S)
      OBVIOUS
    <3> HIDE DEF Wrong
    <3> QED BY Fewest
  <2>2. PICK x \in T : f[T] # g[x] + f[T \ {x}]
    BY <2>1
  <2>3. PICK c : T \in SUBSET S /\ c \in T /\ f[T] = g[c] + f[T \ {c}] /\ c # x
    <3>1. T \in SUBSET S /\ T # {}
      BY <2>1, <2>2
    <3> HIDE DEF Wrong
    <3>2. Pick(T) \in T /\ f[T] = g[Pick(T)] + f[T \ {Pick(T)}]
      BY <3>1, SumStep DEF Adds
    <3> QED BY <2>2, <3>1, <3>2
  <2>4. /\ T \ {c} \in SUBSET S /\ x \in T \ {c} /\ T \ {c} \notin Wrong
        /\ T \ {x} \in SUBSET S /\ c \in T \ {x} /\ T \ {x} \notin Wrong
    <3>1. /\ Cardinality(T \ {c}) < Cardinality(T) /\ Cardinality(T \ {x}) < Cardinality(T)
          /\ Cardinality(T) \in Nat /\ Cardinality(T \ {c}) \in Nat /\ Cardinality(T \ {x}) \in Nat
      BY <2>2, <2>3, OneLess
    <3>2. T \ {c} \notin Wrong /\ T \ {x} \notin Wrong
      <4> HIDE DEF Wrong
      <4> QED BY <2>1, <3>1
    <3> QED BY <2>2, <2>3, <3>2
  <2>5. f[T \ {c}] = g[x] + f[(T \ {c}) \ {x}] /\ f[T \ {x}] = g[c] + f[(T \ {x}) \ {c}]
    BY <2>4
  <2>6. (T \ {c}) \ {x} = (T \ {x}) \ {c} /\ (T \ {x}) \ {c} \in SUBSET S
    BY <2>3
  <2>7. PICK v \in Nat : v = f[(T \ {x}) \ {c}]
    BY <2>6, SumValue
  <2>8. g[c] \in Nat /\ g[x] \in Nat /\ f[T \ {c}] = g[x] + v /\ f[T \ {x}] = g[c] + v
    BY <2>2, <2>3, <2>5, <2>6, <2>7
  <2>9. f[T] = g[x] + f[T \ {x}]
    <3> HIDE DEF Wrong
    <3> QED BY <2>3, <2>7, <2>8
  <2> QED BY <2>2, <2>9
<1> QED BY <1>1

\* The sum over a set depends on nothing else.
LEMMA SumAgrees ==
  ASSUME NEW S, IsFiniteSet(S), NEW g, NEW f, IsSum(f, g, S),
         NEW R, NEW h, NEW e, IsSum(e, h, R),
         NEW Q \in SUBSET S, Q \subseteq R, \A x \in Q : g[x] = h[x]
  PROVE  f[Q] = e[Q]
<1> DEFINE Wrong == {T \in SUBSET Q : f[T] # e[T]}
<1>1. Wrong = {}
  <2> SUFFICES ASSUME Wrong # {} PROVE FALSE
    OBVIOUS
  <2>1. PICK T \in Wrong : \A U \in Wrong : Cardinality(T) <= Cardinality(U)
    <3> Wrong \in SUBSET (SUBSET S)
      OBVIOUS
    <3> HIDE DEF Wrong
    <3> QED BY Fewest
  <2>2. T \in SUBSET S /\ T \in SUBSET R /\ f[T] # e[T]
    BY <2>1
  <2>3. Adds(f, g, T) /\ Adds(e, h, T)
    <3> HIDE DEF Wrong
    <3>1. \A X \in SUBSET S : Adds(f, g, X)
      BY SumStep
    <3>2. \A X \in SUBSET R : Adds(e, h, X)
      BY SumStep
    <3> QED BY <2>2, <3>1, <3>2
  <2>5. T # {} /\ Pick(T) \in T /\ g[Pick(T)] = h[Pick(T)]
    BY <2>1, <2>2, <2>3 DEF Adds
  <2>4. T \ {Pick(T)} \notin Wrong /\ T \ {Pick(T)} \in SUBSET Q
    BY <2>1, <2>5, OneLess
  <2> QED BY <2>1, <2>2, <2>3, <2>4, <2>5 DEF Adds
<1> QED BY <1>1

-----------------------------------------------------------------------------
(* What the ledger charges a session.                                      *)
Records == [session : Sessions, tokens : Nat]
OwnLines(ls, s) == {i \in DOMAIN ls : Len(ls[i]) = 1 /\ ls[i][1].session = s}
Total(ls, s) == MapThenSumSet(LAMBDA i : ls[i][1].tokens, OwnLines(ls, s))
Charge(ls, s) == [i \in OwnLines(ls, s) |-> ls[i][1].tokens]
Ledgers == Seq(Seq(Records))

LEMMA CountedIsTotal == ASSUME NEW s PROVE Counted(s) = Total(lines, s)
BY DEF Counted, Counts, Total, OwnLines

LEMMA OwnLinesFinite ==
  ASSUME NEW ls \in Ledgers, NEW s
  PROVE  IsFiniteSet(OwnLines(ls, s)) /\ Charge(ls, s) \in [OwnLines(ls, s) -> Nat]
<1>1. DOMAIN ls = 1 .. Len(ls) /\ Len(ls) \in Nat /\ OwnLines(ls, s) \subseteq 1 .. Len(ls)
  BY DEF Ledgers, OwnLines
<1>2. IsFiniteSet(OwnLines(ls, s))
  <2>1. IsFiniteSet(1 .. Len(ls))
    BY <1>1, FS_Interval
  <2> QED BY <1>1, <2>1, FS_Subset
<1>3. \A i \in OwnLines(ls, s) : ls[i][1].tokens \in Nat
  <2> TAKE i \in OwnLines(ls, s)
  <2>1. ls[i] \in Seq(Records) /\ Len(ls[i]) = 1
    BY DEF Ledgers, OwnLines
  <2>2. ls[i][1] \in Records
    BY <2>1
  <2> QED BY <2>2 DEF Records
<1> QED BY <1>2, <1>3 DEF Charge

LEMMA TotalIsSum ==
  ASSUME NEW ls \in Ledgers, NEW s
  PROVE  \E f : IsSum(f, Charge(ls, s), OwnLines(ls, s)) /\ Total(ls, s) = f[OwnLines(ls, s)]
<1> DEFINE S == OwnLines(ls, s)
           Amount(T) == ls[CHOOSE x \in T : TRUE][1].tokens
           IsIt(f) == f = [T \in SUBSET S |-> IF T = {} THEN 0
                             ELSE Amount(T) + f[T \ {CHOOSE x \in T : TRUE}]]
           It == CHOOSE f : IsIt(f)
<1>1. Total(ls, s) = It[S]
  BY Zenon DEF Total, MapThenSumSet, MapThenFoldSet
<1>2. PICK f : IsSum(f, Charge(ls, s), S)
  BY OwnLinesFinite, SumExists
<1>3. \A T \in SUBSET S : T # {} => Charge(ls, s)[Pick(T)] = Amount(T)
  <2> TAKE T \in SUBSET S
  <2> SUFFICES ASSUME T # {} PROVE Charge(ls, s)[Pick(T)] = Amount(T)
    OBVIOUS
  <2>1. Pick(T) \in S
    BY PickIn
  <2>2. Charge(ls, s)[Pick(T)] = ls[Pick(T)][1].tokens
    BY <2>1 DEF Charge
  <2> QED BY <2>2, Zenon DEF Pick
<1> HIDE DEF S, Amount
<1>4. \A g : IsIt(g) <=> IsSum(g, Charge(ls, s), S)
  <2> TAKE g
  <2>1. \A T \in SUBSET S :
          (IF T = {} THEN 0 ELSE Amount(T) + g[T \ {CHOOSE x \in T : TRUE}])
          = (IF T = {} THEN 0 ELSE Charge(ls, s)[Pick(T)] + g[T \ {Pick(T)}])
    <3> TAKE T \in SUBSET S
    <3>1. Pick(T) = CHOOSE x \in T : TRUE
      BY Zenon DEF Pick
    <3> QED BY <1>3, <3>1
  <2> QED BY <2>1, Zenon DEF IsSum
<1> HIDE DEF IsIt
<1>5. IsIt(It)
  BY <1>2, <1>4, Zenon
<1>6. IsSum(It, Charge(ls, s), S)
  BY <1>4, <1>5, Zenon
<1> HIDE DEF It
<1> QED BY <1>1, <1>6 DEF S

LEMMA TotalIsNumber ==
  ASSUME NEW ls \in Ledgers, NEW s
  PROVE  Total(ls, s) \in Nat
<1>1. PICK f : IsSum(f, Charge(ls, s), OwnLines(ls, s)) /\ Total(ls, s) = f[OwnLines(ls, s)]
  BY TotalIsSum
<1> QED BY <1>1, OwnLinesFinite, SumValue

\* A session with no record is charged nothing.
LEMMA TotalOfNone ==
  ASSUME NEW ls \in Ledgers, NEW s, \A i \in DOMAIN ls : \A j \in DOMAIN ls[i] : ls[i][j].session # s
  PROVE  Total(ls, s) = 0
<1>1. PICK f : IsSum(f, Charge(ls, s), OwnLines(ls, s)) /\ Total(ls, s) = f[OwnLines(ls, s)]
  BY TotalIsSum
<1>2. OwnLines(ls, s) = {}
  <2> SUFFICES ASSUME NEW i \in OwnLines(ls, s) PROVE FALSE
    OBVIOUS
  <2>1. i \in DOMAIN ls /\ ls[i] \in Seq(Records) /\ Len(ls[i]) = 1 /\ ls[i][1].session = s
    BY DEF OwnLines, Ledgers
  <2>2. 1 \in DOMAIN ls[i]
    BY <2>1
  <2> QED BY <2>1, <2>2
<1> QED BY <1>1, <1>2, SumStep DEF Adds

\* A record on a line of its own is charged to its session.
LEMMA TotalGrows ==
  ASSUME NEW ls \in Ledgers, NEW rec \in Records, NEW s \in Sessions
  PROVE  /\ Append(ls, <<rec>>) \in Ledgers
         /\ Total(Append(ls, <<rec>>), s)
              = Total(ls, s) + (IF rec.session = s THEN rec.tokens ELSE 0)
<1> DEFINE n == Len(ls) + 1
           more == Append(ls, <<rec>>)
           S == OwnLines(ls, s)
           R == OwnLines(more, s)
<1>1. /\ more \in Ledgers /\ Len(ls) \in Nat /\ DOMAIN ls = 1 .. Len(ls) /\ DOMAIN more = 1 .. n
      /\ more[n] = <<rec>> /\ \A i \in 1 .. Len(ls) : more[i] = ls[i]
  BY DEF Ledgers
<1>2. PICK f : IsSum(f, Charge(ls, s), S) /\ Total(ls, s) = f[S]
  BY TotalIsSum
<1>3. PICK e : IsSum(e, Charge(more, s), R) /\ Total(more, s) = e[R]
  BY <1>1, TotalIsSum
<1>4. S \subseteq R /\ n \notin S /\ R \ {n} = S /\ (n \in R <=> rec.session = s)
  <2> HIDE DEF more
  <2>1. Len(more[n]) = 1 /\ more[n][1] = rec
    BY <1>1
  <2>2. n \in R <=> rec.session = s
    <3>1. n \in DOMAIN more
      BY <1>1
    <3> HIDE DEF n
    <3> QED BY <2>1, <3>1 DEF OwnLines
  <2>3. S \subseteq 1 .. Len(ls) /\ R \subseteq 1 .. n
    BY <1>1 DEF OwnLines
  <2>4. \A i \in 1 .. Len(ls) : i \in R <=> i \in S
    BY <1>1 DEF OwnLines
  <2>5. 1 .. n = 1 .. Len(ls) \cup {n} /\ n \notin 1 .. Len(ls)
    BY <1>1
  <2> HIDE DEF S, R, n
  <2> QED BY <2>2, <2>3, <2>4, <2>5
<1>5. f[S] = e[S]
  <2>1. \A i \in S : Charge(ls, s)[i] = Charge(more, s)[i]
    <3> TAKE i \in S
    <3>1. i \in R /\ i \in 1 .. Len(ls)
      BY <1>1, <1>4 DEF OwnLines
    <3> HIDE DEF more
    <3> QED BY <1>1, <3>1 DEF Charge
  <2> HIDE DEF S, R, more
  <2> QED BY <1>2, <1>3, <1>4, <2>1, OwnLinesFinite, SumAgrees DEF S
<1>6. n \in R => Charge(more, s)[n] = rec.tokens
  <2> HIDE DEF more
  <2> QED BY <1>1 DEF Charge
<1>7. n \in R => e[R] = Charge(more, s)[n] + e[R \ {n}]
  <2>1. IsFiniteSet(R) /\ Charge(more, s) \in [R -> Nat] /\ R \in SUBSET R
    BY <1>1, OwnLinesFinite
  <2> HIDE DEF more, n, R
  <2> QED BY <1>3, <2>1, SumTakes
<1>8. rec.tokens \in Nat /\ Total(ls, s) \in Nat
  BY TotalIsNumber DEF Records
<1> HIDE DEF more, n, S, R
<1>9. CASE rec.session = s
  <2>1. Total(more, s) = rec.tokens + e[S]
    BY <1>3, <1>4, <1>6, <1>7, <1>9
  <2> QED BY <1>1, <1>2, <1>5, <1>8, <1>9, <2>1 DEF more
<1>10. CASE rec.session # s
  <2>1. R = S
    BY <1>4, <1>10
  <2>2. Total(more, s) = Total(ls, s)
    BY <1>2, <1>3, <1>5, <2>1
  <2> QED BY <1>1, <1>8, <1>10, <2>2 DEF more
<1> QED BY <1>9, <1>10

\* A record on a line that has one already makes that line count for nobody.
LEMMA TotalMixes ==
  ASSUME NEW ls \in Ledgers, NEW rec \in Records, NEW s \in Sessions,
         Len(ls) > 0, Len(ls[Len(ls)]) > 0
  PROVE  /\ [ls EXCEPT ![Len(ls)] = Append(@, rec)] \in Ledgers
         /\ Total([ls EXCEPT ![Len(ls)] = Append(@, rec)], s) <= Total(ls, s)
<1> DEFINE n == Len(ls)
           mixed == [ls EXCEPT ![n] = Append(@, rec)]
           S == OwnLines(ls, s)
           R == OwnLines(mixed, s)
<1>1. n \in Nat /\ DOMAIN ls = 1 .. n /\ n \in 1 .. n /\ ls[n] \in Seq(Records)
  BY DEF Ledgers
<1>2. Append(ls[n], rec) \in Seq(Records) /\ Len(Append(ls[n], rec)) = Len(ls[n]) + 1 /\ Len(ls[n]) \in Nat
  BY <1>1
<1>3. /\ mixed \in Ledgers /\ DOMAIN mixed = 1 .. n
      /\ mixed[n] = Append(ls[n], rec) /\ \A i \in 1 .. n : i # n => mixed[i] = ls[i]
  <2> HIDE DEF n
  <2> QED BY <1>1, <1>2 DEF Ledgers
<1>4. PICK f : IsSum(f, Charge(ls, s), S) /\ Total(ls, s) = f[S]
  BY TotalIsSum
<1>5. PICK e : IsSum(e, Charge(mixed, s), R) /\ Total(mixed, s) = e[R]
  BY <1>3, TotalIsSum
<1>6. R = S \ {n}
  <2> HIDE DEF mixed, n
  <2>1. n \notin R
    BY <1>2, <1>3 DEF OwnLines, n
  <2>2. \A i \in 1 .. n : i # n => (i \in R <=> i \in S)
    BY <1>1, <1>3 DEF OwnLines
  <2>3. R \subseteq 1 .. n /\ S \subseteq 1 .. n
    BY <1>1, <1>3 DEF OwnLines
  <2> QED BY <2>1, <2>2, <2>3
<1>7. f[R] = e[R]
  <2>1. R \in SUBSET S /\ \A i \in R : Charge(ls, s)[i] = Charge(mixed, s)[i]
    <3> HIDE DEF mixed, n
    <3>1. \A i \in R : i \in S /\ i # n /\ i \in 1 .. n
      BY <1>1, <1>6 DEF OwnLines
    <3> QED BY <1>3, <3>1 DEF Charge
  <2> HIDE DEF S, R, mixed, n
  <2> QED BY <1>4, <1>5, <2>1, OwnLinesFinite, SumAgrees DEF S
<1>8. f[R] \in Nat /\ f[S] \in Nat /\ (n \in S => f[S] = Charge(ls, s)[n] + f[R] /\ Charge(ls, s)[n] \in Nat)
  <2>1. IsFiniteSet(S) /\ Charge(ls, s) \in [S -> Nat]
    BY OwnLinesFinite
  <2>2. R \in SUBSET S /\ S \in SUBSET S
    BY <1>6
  <2> HIDE DEF S, R, n
  <2>3. f[R] \in Nat /\ f[S] \in Nat
    BY <1>4, <2>1, <2>2, SumValue
  <2>4. n \in S => f[S] = Charge(ls, s)[n] + f[S \ {n}]
    BY <1>4, <2>1, <2>2, SumTakes
  <2> QED BY <1>6, <2>1, <2>3, <2>4
<1>9. n \notin S => R = S
  BY <1>6
<1> HIDE DEF mixed, S, R
<1>10. f[R] <= f[S]
  BY <1>8, <1>9
<1> QED BY <1>3, <1>4, <1>5, <1>7, <1>10 DEF mixed, n

-----------------------------------------------------------------------------
(* The invariant of the runs, their markers and the ledger.                *)
ReportOK ==
  report \in [step : {"idle", "listed", "totals", "done"}, names : SUBSET (Sessions \X Nat),
              totals : [Sessions -> Nat], owed : [Sessions -> Nat], clean : BOOLEAN]

LinesOK == (open => Len(lines) > 0) /\ \A i \in DOMAIN lines : Len(lines[i]) > 0

HasFile(s) == file[s] \notin {NoFile, Unreadable}
Unrecorded(s) == \A i \in DOMAIN lines : \A j \in DOMAIN lines[i] : lines[i][j].session # s

\* A run that has not begun to write its record, or none at all.
BeforeRecord(s) == run[s].runs = 0 \/ run[s].at \notin {"idle", "newline"}

\* In its first run a session has no record, its file never claims more than
\* the run used, the newer the more, and whatever a checkpoint covered is
\* protected by the marker.
FirstRun(s) ==
  NeverResumed(s) =>
    /\ run[s].runs = 0 => Idle(s) /\ run[s].tokens = 0 /\ file[s] = NoFile
    /\ run[s].base = 0 /\ spent[s] <= run[s].tokens
    /\ BeforeRecord(s) => Unrecorded(s)
    /\ HasFile(s) =>
         /\ file[s].time <= run[s].time /\ file[s].tokens <= run[s].tokens
         /\ file[s].time = run[s].time => file[s].tokens = run[s].tokens
    /\ spent[s] > 0 => mark[s] # NoFile
    /\ HasFile(s) /\ mark[s] # NoFile /\ file[s].time >= mark[s] => file[s].tokens >= spent[s]

\* The ledger charges what earlier runs used, and this one when it has recorded.
Charged(s) ==
  Total(lines, s) <= run[s].before + (IF run[s].at \in {"idle", "newline"} THEN run[s].tokens ELSE 0)

\* What a report under way owes is of a session that it has listed, whose file
\* goes on claiming it.
Owing(s) ==
  report.step \in {"listed", "totals"} /\ NeverResumed(s) =>
    /\ report.owed[s] <= run[s].tokens
    /\ report.owed[s] > 0 => \E n \in report.names : n[1] = s
    /\ HasFile(s) => file[s].tokens >= report.owed[s]

UsageInv ==
  /\ UsageTypeOK /\ ReportOK /\ LinesOK
  /\ \A s \in Sessions : FirstRun(s) /\ Charged(s) /\ Owing(s)

LEMMA LinesTyped ==
  ASSUME NEW ls \in Seq(Seq([session : Sessions, tokens : 0 .. MaxTokens]))
  PROVE  ls \in Ledgers
<1> DEFINE A == [session : Sessions, tokens : 0 .. MaxTokens]
           B == Seq(A)
           D == Seq(Records)
<1>1. A \subseteq Records
  BY UsageAssumption DEF Records
<1>2. ls \in Seq(B)
  OBVIOUS
<1> HIDE DEF A
<1>3. B \subseteq D
  BY <1>1
<1> HIDE DEF B, D
<1>4. ls \in Seq(D)
  BY <1>2, <1>3
<1> QED BY <1>4 DEF Ledgers, D

LEMMA LedgerTyped == ASSUME UsageTypeOK PROVE lines \in Ledgers
BY LinesTyped DEF UsageTypeOK

RunRecords == [at : Stage, tokens : 0 .. MaxTokens, before : Nat, base : Nat,
               final : BOOLEAN, time : 0 .. MaxSaves, runs : Nat]

\* A session whose part of the state stays the same keeps its invariant.
LEMMA OthersKeep ==
  ASSUME UsageInv, NEW t \in Sessions,
         run'[t] = run[t], file'[t] = file[t], mark'[t] = mark[t], spent'[t] = spent[t],
         lines' = lines, report' = report
  PROVE  FirstRun(t)' /\ Charged(t)' /\ Owing(t)'
<1>1. FirstRun(t)'
  BY DEF UsageInv, FirstRun, NeverResumed, Idle, BeforeRecord, Unrecorded, HasFile
<1>2. Charged(t)'
  BY DEF UsageInv, Charged
<1>3. Owing(t)'
  BY DEF UsageInv, Owing, NeverResumed, HasFile
<1> QED BY <1>1, <1>2, <1>3

\* What a step of a run leaves alone.
LEMMA Elsewhere ==
  ASSUME UsageInv, NEW s \in Sessions,
         \A t \in Sessions \ {s} : /\ run'[t] = run[t] /\ file'[t] = file[t]
                                   /\ mark'[t] = mark[t] /\ spent'[t] = spent[t],
         lines' = lines, report' = report,
         FirstRun(s)', Charged(s)', Owing(s)'
  PROVE  \A t \in Sessions : FirstRun(t)' /\ Charged(t)' /\ Owing(t)'
BY OthersKeep

\* The same step as one of the run alone.
LEMMA RunSteps ==
  ASSUME UsageInv, NEW s \in Sessions, UsageTypeOK', lines' = lines, open' => open, report' = report,
         \A t \in Sessions \ {s} : /\ run'[t] = run[t] /\ file'[t] = file[t]
                                   /\ mark'[t] = mark[t] /\ spent'[t] = spent[t],
         FirstRun(s)', Charged(s)', Owing(s)'
  PROVE  UsageInv'
<1>1. ReportOK' /\ LinesOK'
  BY DEF UsageInv, ReportOK, LinesOK
<1> QED BY <1>1, Elsewhere DEF UsageInv

\* The facts about one session that its steps use.
LEMMA OneSession ==
  ASSUME UsageInv, NEW s \in Sessions
  PROVE  /\ run[s] \in RunRecords
         /\ HasFile(s) => file[s] \in [tokens : 0 .. MaxTokens, time : 0 .. MaxSaves]
         /\ mark[s] # NoFile => mark[s] \in 0 .. MaxSaves
         /\ spent[s] \in Nat /\ report.owed[s] \in Nat /\ Total(lines, s) \in Nat
         /\ FirstRun(s) /\ Charged(s) /\ Owing(s)
<1>1. Total(lines, s) \in Nat
  BY LedgerTyped, TotalIsNumber DEF UsageInv
<1> QED BY <1>1 DEF UsageInv, UsageTypeOK, ReportOK, HasFile, RunRecords

LEMMA BeginRunKeeps ==
  ASSUME UsageInv, NEW s \in Sessions, Fresh(s) \/ Resume(s)
  PROVE  UsageInv'
<1>1. BeginRun(s) /\ (run[s].runs = 0 \/ HasFile(s))
  BY DEF Fresh, Resume, HasFile
<1>2. /\ run'[s].at = "model" /\ run'[s].tokens = 0 /\ run'[s].before = run[s].before + run[s].tokens
      /\ run'[s].base = spent[s] /\ run'[s].time = run[s].time /\ run'[s].runs = run[s].runs + 1
      /\ run' \in [Sessions -> RunRecords]
      /\ \A t \in Sessions \ {s} : run'[t] = run[t]
  <2>1. run[s] \in RunRecords /\ spent[s] \in Nat /\ 0 \in 0 .. MaxTokens
    BY OneSession, UsageAssumption
  <2>2. run[s].before + run[s].tokens \in Nat /\ run[s].runs + 1 \in Nat
    BY <2>1, UsageAssumption DEF RunRecords
  <2>3. run \in [Sessions -> RunRecords]
    BY DEF UsageInv, UsageTypeOK, RunRecords
  <2> QED BY <1>1, <2>1, <2>2, <2>3 DEF BeginRun, RunRecords, Stage
<1>3. UNCHANGED <<file, mark, marking, lines, open, spent, faults, report>> /\ ended' \subseteq Sessions
  BY <1>1 DEF BeginRun, registry, ledger, UsageInv, UsageTypeOK
<1>4. UsageTypeOK'
  BY <1>2, <1>3 DEF UsageInv, UsageTypeOK, RunRecords
<1>5. run[s].at = "idle"
  BY <1>1 DEF BeginRun, Idle
<1>6. NeverResumed(s)' => run[s].runs = 0 /\ spent[s] = 0 /\ run[s].tokens = 0 /\ file[s] = NoFile
  BY <1>1, <1>2, OneSession DEF RunRecords, NeverResumed, FirstRun
<1>7. FirstRun(s)'
  BY <1>2, <1>3, <1>6, OneSession
     DEF RunRecords, FirstRun, NeverResumed, Idle, BeforeRecord, Unrecorded, HasFile
<1>8. Charged(s)'
  BY <1>2, <1>3, <1>5, OneSession DEF Charged, RunRecords
<1>9. Owing(s)'
  BY <1>2, <1>3, <1>6, OneSession DEF Owing, RunRecords, NeverResumed, HasFile
<1> QED BY <1>2, <1>3, <1>4, <1>7, <1>8, <1>9, RunSteps

LEMMA RoundKeeps ==
  ASSUME UsageInv, NEW s \in Sessions, Round(s)
  PROVE  UsageInv'
<1>1. PICK n \in 0 .. MaxTokens - run[s].tokens, f \in BOOLEAN :
        run' = [run EXCEPT ![s].at = "save", ![s].tokens = @ + n, ![s].final = f,
                           ![s].time = @ + 1]
  BY DEF Round
<1>2. /\ run[s].at = "model" /\ run[s].time < MaxSaves
      /\ UNCHANGED <<file, mark, marking, lines, open, spent, ended, faults, report>>
  BY DEF Round, registry, ledger
<1>3. run[s].tokens + n \in 0 .. MaxTokens /\ run[s].time + 1 \in 0 .. MaxSaves /\ n \in Nat
  BY <1>1, <1>2, OneSession, UsageAssumption DEF RunRecords
<1>4. /\ run'[s].at = "save" /\ run'[s].tokens = run[s].tokens + n /\ run'[s].before = run[s].before
      /\ run'[s].base = run[s].base /\ run'[s].time = run[s].time + 1 /\ run'[s].runs = run[s].runs
      /\ run' \in [Sessions -> RunRecords]
      /\ \A t \in Sessions \ {s} : run'[t] = run[t]
  <2>1. run \in [Sessions -> RunRecords]
    BY DEF UsageInv, UsageTypeOK, RunRecords
  <2> QED BY <1>1, <1>3, <2>1 DEF RunRecords, Stage
<1>5. UsageTypeOK'
  BY <1>2, <1>4 DEF UsageInv, UsageTypeOK, RunRecords
<1>6. FirstRun(s)'
  BY <1>2, <1>3, <1>4, OneSession
     DEF RunRecords, FirstRun, NeverResumed, Idle, BeforeRecord, Unrecorded, HasFile
<1>7. Charged(s)'
  BY <1>2, <1>4, OneSession DEF Charged, RunRecords
<1>8. Owing(s)'
  BY <1>2, <1>3, <1>4, OneSession DEF Owing, RunRecords, NeverResumed, HasFile
<1> QED BY <1>2, <1>4, <1>5, <1>6, <1>7, <1>8, RunSteps

\* Only the place of the run changes, to one before the record or to the end.
LEMMA GotoKeeps ==
  ASSUME UsageInv, NEW s \in Sessions, NEW to \in Stage, Goto(s, to), to # "newline",
         run[s].at # "idle", to # "idle" => run[s].at # "newline",
         UNCHANGED <<file, mark, lines, spent, report>>, open' = open \/ open' = FALSE,
         marking' \subseteq Sessions, ended' \subseteq Sessions, faults' \in 0 .. MaxFaults
  PROVE  UsageInv'
<1>1. /\ run'[s].at = to /\ run'[s].tokens = run[s].tokens /\ run'[s].before = run[s].before
      /\ run'[s].base = run[s].base /\ run'[s].time = run[s].time /\ run'[s].runs = run[s].runs
      /\ run' \in [Sessions -> RunRecords]
      /\ \A t \in Sessions \ {s} : run'[t] = run[t]
  BY OneSession DEF Goto, UsageInv, UsageTypeOK, RunRecords
<1>2. UsageTypeOK'
  BY <1>1 DEF UsageInv, UsageTypeOK, RunRecords
<1>3. FirstRun(s)'
  BY <1>1, OneSession DEF RunRecords, FirstRun, NeverResumed, Idle, BeforeRecord, Unrecorded, HasFile
<1>4. Charged(s)'
  BY <1>1, OneSession DEF Charged, RunRecords
<1>5. Owing(s)'
  BY <1>1, OneSession DEF Owing, RunRecords, NeverResumed, HasFile
<1> QED BY <1>1, <1>2, <1>3, <1>4, <1>5, RunSteps

\* The session's file is emptied, or gone: nothing is claimed.
LEMMA FileGoneKeeps ==
  ASSUME UsageInv, NEW s \in Sessions, NEW f \in {NoFile, Unreadable},
         file' = [file EXCEPT ![s] = f], run'[s].runs # 0 \/ f = NoFile,
         (Goto(s, "write") /\ run[s].at = "save") \/ run' = run,
         UNCHANGED <<mark, marking, lines, open, spent, ended, faults, report>>
  PROVE  UsageInv'
<1>1. /\ run'[s].tokens = run[s].tokens /\ run'[s].before = run[s].before
      /\ run'[s].base = run[s].base /\ run'[s].time = run[s].time /\ run'[s].runs = run[s].runs
      /\ run' \in [Sessions -> RunRecords]
      /\ \A t \in Sessions \ {s} : run'[t] = run[t]
      /\ run'[s].at = run[s].at \/ (run'[s].at = "write" /\ run[s].at = "save")
  <2>1. run[s] \in RunRecords /\ run \in [Sessions -> RunRecords]
    BY DEF UsageInv, UsageTypeOK, RunRecords
  <2>2. CASE Goto(s, "write") /\ run[s].at = "save"
    BY <2>1, <2>2 DEF Goto, RunRecords, Stage
  <2>3. CASE run' = run
    BY <2>1, <2>3
  <2> QED BY <2>2, <2>3
<1>2. /\ file' \in [Sessions -> {NoFile, Unreadable} \cup [tokens : 0 .. MaxTokens, time : 0 .. MaxSaves]]
      /\ file'[s] = f /\ \A t \in Sessions \ {s} : file'[t] = file[t]
  BY DEF UsageInv, UsageTypeOK
<1>3. UsageTypeOK'
  BY <1>1, <1>2 DEF UsageInv, UsageTypeOK, RunRecords
<1>4. FirstRun(s)'
  BY <1>1, <1>2, OneSession
     DEF RunRecords, FirstRun, NeverResumed, Idle, BeforeRecord, Unrecorded, HasFile
<1>5. Charged(s)'
  BY <1>1, OneSession DEF Charged, RunRecords
<1>6. Owing(s)'
  BY <1>1, <1>2, OneSession DEF Owing, RunRecords, NeverResumed, HasFile
<1> QED BY <1>1, <1>2, <1>3, <1>4, <1>5, <1>6, RunSteps

LEMMA TruncateKeeps ==
  ASSUME UsageInv, NEW s \in Sessions, TruncateSession(s)
  PROVE  UsageInv'
<1>1. /\ run[s].at = "save" /\ file' = [file EXCEPT ![s] = Unreadable] /\ Goto(s, "write")
      /\ UNCHANGED <<mark, marking, lines, open, spent, ended, faults, report>>
  BY DEF TruncateSession, registry, ledger
<1>2. run'[s].runs = run[s].runs
  BY <1>1, OneSession DEF Goto, UsageInv, UsageTypeOK, RunRecords
<1>3. run[s].runs # 0
  BY <1>1, OneSession, UsageAssumption DEF FirstRun, NeverResumed, Idle, RunRecords
<1> QED BY <1>1, <1>2, <1>3, FileGoneKeeps

LEMMA DeleteKeeps ==
  ASSUME UsageInv, NEW s \in Sessions, DeleteSession(s)
  PROVE  UsageInv'
<1>1. /\ file' = [file EXCEPT ![s] = NoFile]
      /\ UNCHANGED <<run, mark, marking, lines, open, spent, ended, faults, report>>
  BY DEF DeleteSession, registry, ledger
<1> QED BY <1>1, FileGoneKeeps

LEMMA WriteKeeps ==
  ASSUME UsageInv, NEW s \in Sessions, WriteSession(s)
  PROVE  UsageInv'
<1> DEFINE now == [tokens |-> run[s].tokens, time |-> run[s].time]
<1>1. /\ run[s].at = "write" /\ Goto(s, "check")
      /\ file' = [file EXCEPT ![s] = IF @ = NoFile THEN @ ELSE now]
      /\ UNCHANGED <<mark, marking, lines, open, spent, ended, faults, report>>
  BY DEF WriteSession, registry, ledger
<1>2. now \in [tokens : 0 .. MaxTokens, time : 0 .. MaxSaves]
  BY OneSession DEF RunRecords
<1>3. /\ run'[s].at = "check" /\ run'[s].tokens = run[s].tokens /\ run'[s].before = run[s].before
      /\ run'[s].base = run[s].base /\ run'[s].time = run[s].time /\ run'[s].runs = run[s].runs
      /\ run' \in [Sessions -> RunRecords]
      /\ \A t \in Sessions \ {s} : run'[t] = run[t]
  BY <1>1, OneSession DEF Goto, UsageInv, UsageTypeOK, RunRecords, Stage
<1>4. /\ file'[s] = NoFile \/ file'[s] = now
      /\ now.tokens = run[s].tokens /\ now.time = run[s].time
      /\ file' \in [Sessions -> {NoFile, Unreadable} \cup [tokens : 0 .. MaxTokens, time : 0 .. MaxSaves]]
      /\ \A t \in Sessions \ {s} : file'[t] = file[t]
  <2>1. file \in [Sessions -> {NoFile, Unreadable} \cup [tokens : 0 .. MaxTokens, time : 0 .. MaxSaves]]
    BY DEF UsageInv, UsageTypeOK
  <2>2. now.tokens = run[s].tokens /\ now.time = run[s].time
    OBVIOUS
  <2> HIDE DEF now
  <2> QED BY <1>1, <1>2, <2>1, <2>2
<1> HIDE DEF now
<1>5. UsageTypeOK'
  BY <1>1, <1>3, <1>4 DEF UsageInv, UsageTypeOK, RunRecords
<1>6. FirstRun(s)'
  <2> SUFFICES ASSUME NeverResumed(s)' PROVE FirstRun(s)'
    BY DEF FirstRun
  <2>1. NeverResumed(s) /\ run[s].runs # 0
    BY <1>1, <1>3, OneSession, UsageAssumption DEF FirstRun, NeverResumed, Idle, RunRecords
  <2> QED BY <1>1, <1>3, <1>4, <2>1, OneSession
          DEF RunRecords, FirstRun, NeverResumed, Idle, BeforeRecord, Unrecorded, HasFile
<1>7. Charged(s)'
  BY <1>1, <1>3, OneSession DEF Charged, RunRecords
<1>8. Owing(s)'
  BY <1>1, <1>3, <1>4, OneSession DEF Owing, RunRecords, NeverResumed, HasFile
<1> QED BY <1>1, <1>3, <1>4, <1>5, <1>6, <1>7, <1>8, RunSteps

\* A checkpoint that is complete, with or without a marker.
LEMMA SpentKeeps ==
  ASSUME UsageInv, NEW s \in Sessions,
         run[s].at \in {"check", "rename"}, Goto(s, AfterCheckpoint(s)), Checkpointed(s),
         \/ mark' = [mark EXCEPT ![s] = NoFile] /\ run[s].tokens <= Counted(s)
         \/ mark' = [mark EXCEPT ![s] = run[s].time],
         marking' \subseteq Sessions, UNCHANGED <<file, lines, open, ended, faults, report>>
  PROVE  UsageInv'
<1>1. AfterCheckpoint(s) \in {"append", "model"}
  BY DEF AfterCheckpoint
<1>2. /\ run'[s].at \in {"append", "model"} /\ run'[s].tokens = run[s].tokens /\ run'[s].before = run[s].before
      /\ run'[s].base = run[s].base /\ run'[s].time = run[s].time /\ run'[s].runs = run[s].runs
      /\ run' \in [Sessions -> RunRecords]
      /\ \A t \in Sessions \ {s} : run'[t] = run[t]
  BY <1>1, OneSession DEF Goto, UsageInv, UsageTypeOK, RunRecords, Stage
<1>3. run[s] \in RunRecords /\ spent \in [Sessions -> Nat] /\ mark \in [Sessions -> {NoFile} \cup 0 .. MaxSaves]
  BY OneSession DEF UsageInv, UsageTypeOK
<1>4. /\ spent' \in [Sessions -> Nat] /\ spent'[s] = run[s].base + run[s].tokens
      /\ \A t \in Sessions \ {s} : spent'[t] = spent[t]
  <2>1. run[s].base + run[s].tokens \in Nat
    BY <1>3, UsageAssumption DEF RunRecords
  <2> QED BY <1>3, <2>1 DEF Checkpointed
<1>5. /\ mark' \in [Sessions -> {NoFile} \cup 0 .. MaxSaves]
      /\ \/ mark'[s] = NoFile /\ run[s].tokens <= Counted(s)
         \/ mark'[s] = run[s].time /\ mark'[s] # NoFile
      /\ \A t \in Sessions \ {s} : mark'[t] = mark[t]
  <2>1. run[s].time \in 0 .. MaxSaves /\ run[s].time # NoFile
    BY <1>3, UsageAssumption DEF RunRecords
  <2>2. CASE mark' = [mark EXCEPT ![s] = NoFile] /\ run[s].tokens <= Counted(s)
    BY <1>3, <2>2
  <2>3. CASE mark' = [mark EXCEPT ![s] = run[s].time]
    BY <1>3, <2>1, <2>3
  <2> QED BY <2>2, <2>3
<1>6. UsageTypeOK'
  BY <1>2, <1>4, <1>5 DEF UsageInv, UsageTypeOK, RunRecords
<1>7. FirstRun(s)'
  <2> SUFFICES ASSUME NeverResumed(s)' PROVE FirstRun(s)'
    BY DEF FirstRun
  <2>1. NeverResumed(s) /\ run[s].runs # 0 /\ run[s].base = 0 /\ Unrecorded(s) /\ spent'[s] = run[s].tokens
    BY <1>2, <1>3, <1>4, OneSession, UsageAssumption
       DEF FirstRun, NeverResumed, Idle, BeforeRecord, RunRecords
  <2>2. Counted(s) = 0
    BY <2>1, LedgerTyped, TotalOfNone, CountedIsTotal DEF UsageInv, Unrecorded
  <2>3. mark'[s] = NoFile => spent'[s] = 0
    BY <1>3, <1>5, <2>1, <2>2, UsageAssumption DEF RunRecords
  <2>4. HasFile(s)' => /\ file[s].time <= run[s].time /\ file[s].tokens <= run[s].tokens
                       /\ file[s].time = run[s].time => file[s].tokens = run[s].tokens
                       /\ file[s] \in [tokens : 0 .. MaxTokens, time : 0 .. MaxSaves]
    BY <2>1, OneSession DEF FirstRun, HasFile
  <2>5. HasFile(s)' /\ mark'[s] # NoFile /\ file[s].time >= mark'[s] => file[s].tokens >= spent'[s]
    BY <1>3, <1>5, <2>1, <2>4, UsageAssumption DEF RunRecords
  <2>6. Unrecorded(s)'
    BY <2>1 DEF Unrecorded
  <2>7. spent'[s] <= run'[s].tokens
    BY <1>2, <1>3, <2>1, UsageAssumption DEF RunRecords
  <2> QED BY <1>2, <1>3, <2>1, <2>3, <2>4, <2>5, <2>6, <2>7, UsageAssumption DEF FirstRun, HasFile, RunRecords
<1>8. Charged(s)'
  BY <1>2, OneSession DEF Charged, RunRecords
<1>9. Owing(s)'
  BY <1>2, OneSession DEF Owing, RunRecords, NeverResumed, HasFile
<1>10. \A t \in Sessions \ {s} : /\ run'[t] = run[t] /\ file'[t] = file[t]
                                 /\ mark'[t] = mark[t] /\ spent'[t] = spent[t]
  BY <1>2, <1>4, <1>5
<1> QED BY <1>6, <1>7, <1>8, <1>9, <1>10, RunSteps

LEMMA CheckpointKeeps ==
  ASSUME UsageInv, NEW s \in Sessions, Checkpoint(s)
  PROVE  UsageInv'
<1>1. /\ run[s].at = "check" /\ UNCHANGED <<file, marking, lines, open, ended, faults, report>>
      /\ marking' \subseteq Sessions /\ ended' \subseteq Sessions /\ faults' \in 0 .. MaxFaults
  BY DEF Checkpoint, ledger, UsageInv, UsageTypeOK
<1>2. CASE NeedsRecovery(run[s].tokens, Counted(s))
  <2>1. Goto(s, "mark") /\ UNCHANGED <<mark, spent>> /\ "mark" \in Stage
    BY <1>2 DEF Checkpoint, Stage
  <2> QED BY <1>1, <2>1, GotoKeeps
<1>3. CASE ~NeedsRecovery(run[s].tokens, Counted(s))
  <2>1. /\ Goto(s, AfterCheckpoint(s)) /\ mark' = [mark EXCEPT ![s] = NoFile] /\ Checkpointed(s)
    BY <1>3 DEF Checkpoint
  <2>2. run[s].tokens <= Counted(s)
    <3>1. Counted(s) \in Nat /\ run[s].tokens \in 0 .. MaxTokens
      BY OneSession, CountedIsTotal DEF RunRecords
    <3> QED BY <1>3, <3>1, UsageAssumption DEF NeedsRecovery
  <2> QED BY <1>1, <2>1, <2>2, SpentKeeps
<1> QED BY <1>2, <1>3

LEMMA MarkKeeps ==
  ASSUME UsageInv, NEW s \in Sessions, WriteMark(s) \/ RenameMark(s)
  PROVE  UsageInv'
<1>1. marking \subseteq Sessions /\ ended \subseteq Sessions /\ faults \in 0 .. MaxFaults
  BY DEF UsageInv, UsageTypeOK
<1>2. CASE WriteMark(s)
  <2>1. /\ run[s].at = "mark" /\ Goto(s, "rename") /\ marking' = marking \cup {s} /\ "rename" \in Stage
        /\ UNCHANGED <<file, mark, lines, open, spent, ended, faults, report>>
    BY <1>2 DEF WriteMark, ledger, Stage
  <2> QED BY <1>1, <2>1, GotoKeeps
<1>3. CASE RenameMark(s)
  <2>1. /\ run[s].at = "rename" /\ Goto(s, AfterCheckpoint(s)) /\ marking' = marking \ {s}
        /\ mark' = [mark EXCEPT ![s] = run[s].time] /\ Checkpointed(s)
        /\ UNCHANGED <<file, lines, open, ended, faults, report>>
    BY <1>3 DEF RenameMark, ledger
  <2> QED BY <1>1, <2>1, SpentKeeps
<1> QED BY <1>2, <1>3

LEMMA FailKeeps ==
  ASSUME UsageInv, NEW s \in Sessions, WriteFails(s) \/ KillRun(s)
  PROVE  UsageInv'
<1>1. /\ UNCHANGED <<file, mark, marking, lines, open, spent, ended, report>>
      /\ marking' \subseteq Sessions /\ ended' \subseteq Sessions
      /\ faults < MaxFaults /\ faults' = faults + 1
  BY DEF WriteFails, KillRun, registry, ledger, UsageInv, UsageTypeOK
<1>2. faults' \in 0 .. MaxFaults
  BY <1>1, UsageAssumption DEF UsageInv, UsageTypeOK
<1>3. \E to \in Stage : Goto(s, to) /\ to # "newline" /\ run[s].at # "idle" /\ (to # "idle" => run[s].at # "newline")
  BY DEF WriteFails, KillRun, Idle, AfterCheckpoint, Stage
<1> QED BY <1>1, <1>2, <1>3, GotoKeeps

\* What an element more makes of a sequence.
LEMMA Appended ==
  ASSUME NEW R, NEW q \in Seq(R), NEW r \in R
  PROVE  /\ Append(q, r) \in Seq(R) /\ Len(q) \in Nat /\ Len(Append(q, r)) = Len(q) + 1
         /\ DOMAIN q = 1 .. Len(q) /\ DOMAIN Append(q, r) = 1 .. Len(q) + 1
         /\ Append(q, r)[Len(q) + 1] = r
         /\ \A i \in 1 .. Len(q) : Append(q, r)[i] = q[i]
OBVIOUS

\* A record is written: what it does to the ledger, for every session.
LEMMA Recorded ==
  ASSUME UsageInv, NEW s \in Sessions, NEW n \in 0 .. MaxTokens,
         AppendRecord([session |-> s, tokens |-> n])
  PROVE  /\ lines' \in Seq(Seq([session : Sessions, tokens : 0 .. MaxTokens])) /\ LinesOK' /\ open' = TRUE
         /\ \A t \in Sessions : Total(lines', t) <= Total(lines, t) + (IF t = s THEN n ELSE 0)
         /\ \A t \in Sessions \ {s} : Unrecorded(t) => Unrecorded(t)'
<1> DEFINE rec == [session |-> s, tokens |-> n]
           R == [session : Sessions, tokens : 0 .. MaxTokens]
           Q == Seq(R)
<1>1. rec \in Records /\ rec \in R /\ rec.session = s /\ rec.tokens = n /\ n \in Nat
  BY UsageAssumption DEF Records
<1>2. lines \in Ledgers /\ lines \in Seq(Q) /\ LinesOK
  BY LedgerTyped DEF UsageInv, UsageTypeOK
<1>3. \A t \in Sessions : Total(lines, t) \in Nat
  BY <1>2, TotalIsNumber
<1>4. /\ open => lines' = [lines EXCEPT ![Len(lines)] = Append(@, rec)]
      /\ ~open => lines' = Append(lines, <<rec>>)
      /\ open' = TRUE
  BY DEF AppendRecord
<1> HIDE DEF rec, R
<1>5. <<rec>> \in Q /\ Len(<<rec>>) = 1
  BY <1>1
<1>6. CASE open
  <2> DEFINE n0 == Len(lines)
  <2>1. n0 \in Nat /\ n0 > 0 /\ DOMAIN lines = 1 .. n0 /\ lines[n0] \in Q /\ Len(lines[n0]) > 0
    BY <1>2, <1>6 DEF LinesOK
  <2>2. /\ lines' \in Seq(Q) /\ Len(lines') = n0 /\ DOMAIN lines' = 1 .. n0
        /\ lines'[n0] = Append(lines[n0], rec)
        /\ \A i \in 1 .. n0 : i # n0 => lines'[i] = lines[i]
    <3>1. lines' = [lines EXCEPT ![n0] = Append(lines[n0], rec)]
      BY <1>4, <1>6
    <3>2. Append(lines[n0], rec) \in Q
      BY <1>1, <2>1, Appended
    <3> HIDE DEF Q, n0
    <3>3. lines \in [1 .. n0 -> Q]
      BY <1>2, <2>1 DEF n0
    <3>4. lines' \in [1 .. n0 -> Q] /\ lines'[n0] = Append(lines[n0], rec)
          /\ \A i \in 1 .. n0 : i # n0 => lines'[i] = lines[i]
      BY <2>1, <3>1, <3>2, <3>3
    <3> QED BY <2>1, <3>4
  <2>3. \A t \in Sessions : Total(lines', t) <= Total(lines, t) + (IF t = s THEN n ELSE 0)
    <3> TAKE t \in Sessions
    <3>1. Total(lines', t) <= Total(lines, t) /\ lines' \in Ledgers
      BY <1>1, <1>2, <1>4, <1>6, <2>1, TotalMixes
    <3>2. Total(lines', t) \in Nat
      BY <3>1, TotalIsNumber
    <3> QED BY <1>1, <1>3, <3>1, <3>2
  <2>4. LinesOK'
    <3>1. Len(lines'[n0]) > 0
      <4>1. Len(Append(lines[n0], rec)) = Len(lines[n0]) + 1 /\ Len(lines[n0]) \in Nat
        BY <1>1, <2>1, Appended
      <4> HIDE DEF Q, n0
      <4> QED BY <2>2, <4>1
    <3> HIDE DEF Q, n0
    <3> QED BY <1>2, <2>1, <2>2, <3>1 DEF LinesOK
  <2>5. \A t \in Sessions \ {s} : Unrecorded(t) => Unrecorded(t)'
    <3> SUFFICES ASSUME NEW t \in Sessions \ {s}, Unrecorded(t),
                        NEW i \in DOMAIN lines', NEW j \in DOMAIN lines'[i]
                 PROVE  lines'[i][j].session # t
      BY DEF Unrecorded
    <3>1. CASE i # n0
      BY <2>1, <2>2, <3>1 DEF Unrecorded
    <3>2. CASE i = n0
      <4>1. /\ Len(lines[n0]) \in Nat /\ j \in 1 .. Len(lines[n0]) + 1 /\ DOMAIN lines[n0] = 1 .. Len(lines[n0])
            /\ lines'[n0][Len(lines[n0]) + 1] = rec
            /\ \A k \in 1 .. Len(lines[n0]) : lines'[n0][k] = lines[n0][k]
        <5>1. /\ Len(lines[n0]) \in Nat /\ DOMAIN lines[n0] = 1 .. Len(lines[n0])
              /\ DOMAIN Append(lines[n0], rec) = 1 .. Len(lines[n0]) + 1
              /\ Append(lines[n0], rec)[Len(lines[n0]) + 1] = rec
              /\ \A k \in 1 .. Len(lines[n0]) : Append(lines[n0], rec)[k] = lines[n0][k]
          BY <1>1, <2>1, Appended
        <5> HIDE DEF Q, n0
        <5> QED BY <2>2, <3>2, <5>1
      <4>2. CASE j = Len(lines[n0]) + 1
        BY <1>1, <3>2, <4>1, <4>2
      <4>3. CASE j # Len(lines[n0]) + 1
        <5>1. j \in 1 .. Len(lines[n0])
          BY <4>1, <4>3
        <5> QED BY <2>1, <3>2, <4>1, <5>1 DEF Unrecorded
      <4> QED BY <4>2, <4>3
    <3> QED BY <3>1, <3>2
  <2> QED BY <1>4, <2>2, <2>3, <2>4, <2>5 DEF R
<1>7. CASE ~open
  <2> DEFINE n1 == Len(lines) + 1
  <2>1. Len(lines) \in Nat /\ DOMAIN lines = 1 .. Len(lines)
    BY <1>2
  <2>2. /\ lines' \in Seq(Q) /\ Len(lines') = n1 /\ DOMAIN lines' = 1 .. n1
        /\ lines'[n1] = <<rec>>
        /\ \A i \in 1 .. Len(lines) : lines'[i] = lines[i]
    <3> HIDE DEF Q
    <3>1. lines' = Append(lines, <<rec>>)
      BY <1>4, <1>7
    <3>2. /\ Append(lines, <<rec>>) \in Seq(Q) /\ Len(Append(lines, <<rec>>)) = Len(lines) + 1
          /\ DOMAIN Append(lines, <<rec>>) = 1 .. Len(lines) + 1
          /\ Append(lines, <<rec>>)[Len(lines) + 1] = <<rec>>
          /\ \A i \in 1 .. Len(lines) : Append(lines, <<rec>>)[i] = lines[i]
      BY <1>2, <1>5, Appended
    <3> QED BY <3>1, <3>2
  <2>3. \A t \in Sessions : Total(lines', t) <= Total(lines, t) + (IF t = s THEN n ELSE 0)
    <3> TAKE t \in Sessions
    <3>1. Total(lines', t) = Total(lines, t) + (IF rec.session = t THEN rec.tokens ELSE 0)
      <4>1. lines' = Append(lines, <<rec>>)
        BY <1>4, <1>7
      <4> QED BY <1>1, <1>2, <4>1, TotalGrows
    <3> QED BY <1>1, <1>3, <3>1
  <2>4. LinesOK'
    <3> SUFFICES ASSUME NEW i \in 1 .. n1 PROVE Len(lines'[i]) > 0
      BY <2>1, <2>2 DEF LinesOK
    <3>1. CASE i = n1
      <4>1. lines'[i] = <<rec>>
        BY <2>2, <3>1
      <4>2. Len(<<rec>>) = 1
        OBVIOUS
      <4>3. Len(lines'[i]) = 1
        <5> HIDE DEF Q, n1
        <5> QED BY <4>1, <4>2, Zenon
      <4> HIDE DEF Q, n1
      <4> QED BY <4>3
    <3>2. CASE i # n1
      <4>1. i \in 1 .. Len(lines)
        BY <2>1, <3>2
      <4> QED BY <1>2, <2>1, <2>2, <4>1 DEF LinesOK
    <3> QED BY <3>1, <3>2
  <2>5. \A t \in Sessions \ {s} : Unrecorded(t) => Unrecorded(t)'
    <3> SUFFICES ASSUME NEW t \in Sessions \ {s}, Unrecorded(t),
                        NEW i \in DOMAIN lines', NEW j \in DOMAIN lines'[i]
                 PROVE  lines'[i][j].session # t
      BY DEF Unrecorded
    <3>1. CASE i # n1
      BY <2>1, <2>2, <3>1 DEF Unrecorded
    <3>2. CASE i = n1
      BY <1>1, <2>2, <3>2
    <3> QED BY <3>1, <3>2
  <2> QED BY <1>4, <2>2, <2>3, <2>4, <2>5 DEF R
<1> QED BY <1>6, <1>7

LEMMA RecordKeeps ==
  ASSUME UsageInv, NEW s \in Sessions, RecordUsage(s)
  PROVE  UsageInv'
<1>1. /\ run[s].at = "append" /\ AppendRecord([session |-> s, tokens |-> run[s].tokens])
      /\ Goto(s, "newline") /\ UNCHANGED <<file, mark, marking, spent, ended, faults, report>>
  BY DEF RecordUsage, registry
<1>2. /\ run'[s].at = "newline" /\ run'[s].tokens = run[s].tokens /\ run'[s].before = run[s].before
      /\ run'[s].base = run[s].base /\ run'[s].time = run[s].time /\ run'[s].runs = run[s].runs
      /\ run' \in [Sessions -> RunRecords]
      /\ \A t \in Sessions \ {s} : run'[t] = run[t]
  BY <1>1, OneSession DEF Goto, UsageInv, UsageTypeOK, RunRecords, Stage
<1>3. /\ lines' \in Seq(Seq([session : Sessions, tokens : 0 .. MaxTokens])) /\ LinesOK' /\ open' = TRUE
      /\ \A t \in Sessions : Total(lines', t) <= Total(lines, t) + (IF t = s THEN run[s].tokens ELSE 0)
      /\ \A t \in Sessions \ {s} : Unrecorded(t) => Unrecorded(t)'
  <2>1. run[s].tokens \in 0 .. MaxTokens
    BY OneSession DEF RunRecords
  <2> QED BY <1>1, <2>1, Recorded
<1>4. UsageTypeOK'
  BY <1>1, <1>2, <1>3 DEF UsageInv, UsageTypeOK, RunRecords
<1>5. \A t \in Sessions : Total(lines', t) \in Nat
  <2>1. lines' \in Ledgers
    BY <1>3, LinesTyped
  <2> QED BY <2>1, TotalIsNumber
<1>6. ReportOK'
  BY <1>1 DEF UsageInv, ReportOK
<1>7. ASSUME NEW t \in Sessions PROVE FirstRun(t)' /\ Charged(t)' /\ Owing(t)'
  <2>1. CASE t = s
    <3>1. FirstRun(s)'
      <4> SUFFICES ASSUME NeverResumed(s)' PROVE FirstRun(s)'
        BY DEF FirstRun
      <4>1. NeverResumed(s) /\ run[s].runs # 0
        BY <1>1, <1>2, OneSession, UsageAssumption DEF FirstRun, NeverResumed, Idle, RunRecords
      <4> QED BY <1>1, <1>2, <4>1, OneSession
              DEF RunRecords, FirstRun, NeverResumed, BeforeRecord, HasFile
    <3>2. Charged(s)'
      <4>1. Total(lines', s) <= Total(lines, s) + run[s].tokens
        BY <1>3
      <4> QED BY <1>1, <1>2, <1>5, <4>1, OneSession, UsageAssumption DEF Charged, RunRecords
    <3>3. Owing(s)'
      BY <1>1, <1>2, OneSession DEF Owing, RunRecords, NeverResumed, HasFile
    <3> QED BY <2>1, <3>1, <3>2, <3>3
  <2>2. CASE t # s
    <3>1. /\ run'[t] = run[t] /\ Total(lines', t) <= Total(lines, t)
          /\ Unrecorded(t) => Unrecorded(t)'
      <4>1. Total(lines', t) <= Total(lines, t) + 0 /\ Total(lines, t) \in Nat
        BY <1>3, <2>2, OneSession
      <4> QED BY <1>2, <1>3, <1>5, <2>2, <4>1
    <3>2. FirstRun(t)'
      BY <1>1, <3>1, OneSession DEF FirstRun, NeverResumed, Idle, BeforeRecord, HasFile
    <3>3. Charged(t)'
      BY <1>5, <3>1, OneSession, UsageAssumption DEF Charged, RunRecords
    <3>4. Owing(t)'
      BY <1>1, <3>1, OneSession DEF Owing, NeverResumed, HasFile
    <3> QED BY <3>2, <3>3, <3>4
  <2> QED BY <2>1, <2>2
<1> QED BY <1>3, <1>4, <1>6, <1>7 DEF UsageInv

LEMMA EndLineKeeps ==
  ASSUME UsageInv, NEW s \in Sessions, EndLine(s)
  PROVE  UsageInv'
<1>1. /\ run[s].at = "newline" /\ open' = FALSE /\ Goto(s, "idle") /\ ended' = ended \cup {s}
      /\ UNCHANGED <<file, mark, marking, lines, spent, faults, report>>
  BY DEF EndLine, registry
<1>2. "idle" \in Stage /\ marking' \subseteq Sessions /\ ended' \subseteq Sessions /\ faults' \in 0 .. MaxFaults
  BY <1>1 DEF Stage, UsageInv, UsageTypeOK
<1> QED BY <1>1, <1>2, GotoKeeps

\* The collector reads.
LEMMA CollectKeeps ==
  ASSUME UsageInv, ListMarks \/ ReadLedger \/ LoadSessions
  PROVE  UsageInv'
<1>1. UNCHANGED <<file, mark, marking, lines, open, run, spent, ended, faults>>
  BY DEF ListMarks, ReadLedger, LoadSessions, registry, ledger
<1>2. ReportOK' /\ report'.step # "idle"
  <2>1. report \in [step : {"idle", "listed", "totals", "done"}, names : SUBSET (Sessions \X Nat),
                    totals : [Sessions -> Nat], owed : [Sessions -> Nat], clean : BOOLEAN]
    BY DEF UsageInv, ReportOK
  <2>2. CASE ListMarks
    <3> DEFINE names == {<<s, mark[s]>> : s \in Marked}
               owed == [s \in Sessions |-> IF s \in Marked THEN Claimed(s) ELSE 0]
    <3>1. names \in SUBSET (Sessions \X Nat)
      BY OneSession, UsageAssumption DEF Marked
    <3>2. owed \in [Sessions -> Nat]
      <4>1. \A s \in Sessions : Claimed(s) \in Nat
        BY OneSession, UsageAssumption DEF Claimed, HasFile
      <4> QED BY <4>1
    <3>3. /\ report'.step \in {"done", "listed"} /\ report'.names = names /\ report'.owed = owed
          /\ report'.totals = report.totals /\ report'.clean = FALSE
          /\ report' = [step |-> report'.step, names |-> report'.names, totals |-> report'.totals,
                        owed |-> report'.owed, clean |-> report'.clean]
      BY <2>1, <2>2 DEF ListMarks
    <3> HIDE DEF names, owed
    <3> QED BY <2>1, <3>1, <3>2, <3>3 DEF ReportOK
  <2>3. CASE ReadLedger
    <3> DEFINE totals == [s \in Sessions |-> Counted(s)]
    <3>1. totals \in [Sessions -> Nat]
      BY OneSession, CountedIsTotal
    <3>2. report' = [report EXCEPT !.step = "totals", !.totals = totals]
      BY <2>3 DEF ReadLedger
    <3> HIDE DEF totals
    <3> QED BY <2>1, <3>1, <3>2 DEF ReportOK
  <2>4. CASE LoadSessions
    <3>1. PICK b \in BOOLEAN : report' = [report EXCEPT !.step = "done", !.clean = b]
      BY <2>4 DEF LoadSessions
    <3> QED BY <2>1, <3>1 DEF ReportOK
  <2> QED BY <2>2, <2>3, <2>4
<1>3. UsageTypeOK'
  BY <1>1, <1>2 DEF UsageInv, UsageTypeOK, ReportOK
<1>4. ASSUME NEW s \in Sessions PROVE FirstRun(s)' /\ Charged(s)' /\ Owing(s)'
  <2>1. FirstRun(s)'
    BY <1>1, OneSession DEF FirstRun, NeverResumed, Idle, BeforeRecord, Unrecorded, HasFile
  <2>2. Charged(s)'
    BY <1>1, OneSession DEF Charged
  <2>3. Owing(s)'
    <3> SUFFICES ASSUME report'.step \in {"listed", "totals"}, NeverResumed(s) PROVE Owing(s)'
      BY <1>1 DEF Owing, NeverResumed
    <3>1. CASE ListMarks
      <4>1. /\ report'.names = {<<t, mark[t]>> : t \in Marked}
            /\ report'.owed[s] = IF s \in Marked THEN Claimed(s) ELSE 0
        BY <3>1 DEF ListMarks, UsageInv, ReportOK
      <4>2. run[s].tokens \in Nat /\ (HasFile(s) => Claimed(s) = file[s].tokens /\ file[s].tokens \in Nat)
            /\ (~HasFile(s) => Claimed(s) = 0)
        BY OneSession, UsageAssumption DEF RunRecords, HasFile, Claimed
      <4>3. report'.owed[s] <= run[s].tokens
        BY <4>1, <4>2, OneSession DEF FirstRun
      <4>4. s \in Marked => \E n \in report'.names : n[1] = s
        <5>1. s \in Marked => <<s, mark[s]>> \in report'.names
          BY <4>1
        <5> QED BY <5>1
      <4>5. report'.owed[s] > 0 => \E n \in report'.names : n[1] = s
        BY <4>1, <4>4
      <4>6. HasFile(s) => file[s].tokens >= report'.owed[s]
        BY <4>1, <4>2
      <4> QED BY <1>1, <4>3, <4>5, <4>6 DEF Owing, HasFile
    <3>2. CASE ReadLedger
      <4>1. report'.owed = report.owed /\ report'.names = report.names /\ report.step = "listed"
        BY <3>2 DEF ReadLedger, UsageInv, ReportOK
      <4> QED BY <1>1, <4>1, OneSession DEF Owing, HasFile
    <3>3. CASE LoadSessions
      <4>1. report'.step = "done"
        BY <3>3 DEF LoadSessions, UsageInv, ReportOK
      <4> QED BY <4>1
    <3> QED BY <3>1, <3>2, <3>3
  <2> QED BY <2>1, <2>2, <2>3
<1>5. LinesOK'
  BY <1>1 DEF UsageInv, LinesOK
<1> QED BY <1>2, <1>3, <1>4, <1>5 DEF UsageInv

LEMMA UsageInvInit == UsageInit => UsageInv
<1> SUFFICES ASSUME UsageInit PROVE UsageInv
  OBVIOUS
<1>1. lines = <<>> /\ Len(lines) = 0 /\ DOMAIN lines = {}
  BY DEF UsageInit
<1>2. UsageTypeOK
  <2>1. lines \in Seq(Seq([session : Sessions, tokens : 0 .. MaxTokens]))
    BY <1>1
  <2>2. run \in [Sessions -> RunRecords]
    BY UsageAssumption DEF UsageInit, RunRecords, Stage
  <2>3. file \in [Sessions -> {NoFile, Unreadable} \cup [tokens : 0 .. MaxTokens, time : 0 .. MaxSaves]]
    BY DEF UsageInit
  <2>4. mark \in [Sessions -> {NoFile} \cup 0 .. MaxSaves]
    BY DEF UsageInit
  <2>5. spent \in [Sessions -> Nat]
    BY DEF UsageInit
  <2>6. report.step = "idle" /\ report.clean = FALSE
    BY DEF UsageInit
  <2>7. marking = {} /\ ended = {} /\ open = FALSE /\ faults = 0
    BY DEF UsageInit
  <2>8. 0 \in 0 .. MaxFaults
    BY UsageAssumption
  <2> QED BY <2>1, <2>2, <2>3, <2>4, <2>5, <2>6, <2>7, <2>8 DEF UsageTypeOK, RunRecords
<1>3. ReportOK /\ LinesOK
  BY <1>1 DEF UsageInit, ReportOK, LinesOK
<1>4. ASSUME NEW s \in Sessions PROVE FirstRun(s) /\ Charged(s) /\ Owing(s)
  <2>1. FirstRun(s)
    BY <1>1 DEF UsageInit, FirstRun, NeverResumed, Idle, BeforeRecord, Unrecorded, HasFile
  <2>2. Charged(s)
    <3>1. Total(lines, s) = 0
      BY <1>1, <1>2, LedgerTyped, TotalOfNone
    <3> QED BY <3>1 DEF UsageInit, Charged
  <2>3. Owing(s)
    BY DEF UsageInit, Owing, HasFile
  <2> QED BY <2>1, <2>2, <2>3
<1> QED BY <1>2, <1>3, <1>4 DEF UsageInv

LEMMA UsageInvStep == UsageInv /\ [UsageNext]_usage => UsageInv'
<1> SUFFICES ASSUME UsageInv, [UsageNext]_usage PROVE UsageInv'
  OBVIOUS
<1>1. CASE UNCHANGED usage
  <2>1. UNCHANGED <<file, mark, marking, lines, open, run, spent, ended, faults, report>>
    BY <1>1 DEF usage
  <2>2. UsageTypeOK' /\ ReportOK' /\ LinesOK'
    BY <2>1 DEF UsageInv, UsageTypeOK, ReportOK, LinesOK
  <2>3. \A t \in Sessions : FirstRun(t)' /\ Charged(t)' /\ Owing(t)'
    BY <2>1, OthersKeep
  <2> QED BY <2>2, <2>3 DEF UsageInv
<1>2. ASSUME NEW s \in Sessions,
             \/ Fresh(s) \/ Resume(s) \/ Round(s) \/ TruncateSession(s) \/ WriteSession(s)
             \/ Checkpoint(s) \/ WriteMark(s) \/ RenameMark(s) \/ RecordUsage(s) \/ EndLine(s)
             \/ WriteFails(s) \/ KillRun(s) \/ DeleteSession(s)
      PROVE  UsageInv'
  BY <1>2, BeginRunKeeps, RoundKeeps, TruncateKeeps, WriteKeeps, CheckpointKeeps, MarkKeeps,
     RecordKeeps, EndLineKeeps, FailKeeps, DeleteKeeps
<1>3. CASE ListMarks \/ ReadLedger \/ LoadSessions
  BY <1>3, CollectKeeps
<1> QED BY <1>1, <1>2, <1>3 DEF UsageNext

LEMMA UsageHolds == UsageSpec => []UsageInv
<1> QED BY UsageInvInit, UsageInvStep, PTL DEF UsageSpec

\* What a run of a session that was never resumed used up to its last checkpoint
\* is in the ledger or the next report says that something is unresolved:
\* whatever was killed, whatever write failed, however lines were mixed.
THEOREM SpendingIsAccounted == UsageSpec => []SpentIsAccounted
<1>1. UsageInv => SpentIsAccounted
  <2> SUFFICES ASSUME UsageInv, NEW s \in Sessions, NeverResumed(s), spent[s] > Counted(s)
               PROVE  WouldReport
    BY DEF SpentIsAccounted
  <2>1. Counted(s) \in Nat /\ spent[s] \in Nat /\ spent[s] > 0 /\ mark[s] # NoFile
    <3>1. Counted(s) \in Nat /\ spent[s] \in Nat
      BY OneSession, CountedIsTotal
    <3>2. spent[s] > 0
      BY <3>1
    <3> QED BY <3>1, <3>2, OneSession DEF FirstRun
  <2>2. ~Settled(s, mark[s], Counted(s))
    <3> SUFFICES ASSUME Settled(s, mark[s], Counted(s)) PROVE FALSE
      OBVIOUS
    <3>1. HasFile(s) /\ file[s].time >= mark[s] /\ ~(file[s].tokens > Counted(s))
      BY DEF Settled, HasFile, NeedsRecovery
    <3>2. file[s].tokens >= spent[s] /\ file[s].tokens \in Nat
      BY <2>1, <3>1, OneSession, UsageAssumption DEF FirstRun
    <3> QED BY <2>1, <3>1, <3>2
  <2> QED BY <2>1, <2>2 DEF WouldReport, Marked
<1> QED BY <1>1, UsageHolds, PTL

\* The ledger never charges a session for more than its runs used, however
\* often it is resumed.
THEOREM NeverChargedForMore == UsageSpec => []NeverOvercounted
<1>1. UsageInv => NeverOvercounted
  <2> SUFFICES ASSUME UsageInv, NEW s \in Sessions
               PROVE  Counted(s) <= run[s].before + run[s].tokens
    BY DEF NeverOvercounted
  <2>1. Counted(s) = Total(lines, s) /\ Total(lines, s) \in Nat /\ Charged(s)
        /\ run[s].tokens \in Nat /\ run[s].before \in Nat
    BY OneSession, CountedIsTotal, UsageAssumption DEF RunRecords
  <2> QED BY <2>1 DEF Charged
<1> QED BY <1>1, UsageHolds, PTL

\* A clean report is true: what each session it listed had stored by then was in
\* the ledger when the ledger was read, whatever runs did between the reads.
THEOREM CleanReportsAreTrue == UsageSpec => CleanReportIsTrue
<1>1. UsageInv /\ LoadSessions /\ report'.clean =>
        \A s \in Sessions : NeverResumed(s) => report.owed[s] <= report.totals[s]
  <2> SUFFICES ASSUME UsageInv, LoadSessions, report'.clean, NEW s \in Sessions, NeverResumed(s)
               PROVE  report.owed[s] <= report.totals[s]
    OBVIOUS
  <2>1. /\ report.step = "totals"
        /\ \A n \in report.names : Settled(n[1], n[2], report.totals[n[1]])
    BY DEF LoadSessions, UsageInv, ReportOK
  <2>2. report.owed[s] \in Nat /\ report.totals[s] \in Nat
    BY DEF UsageInv, ReportOK
  <2>3. CASE report.owed[s] = 0
    BY <2>2, <2>3
  <2>4. CASE report.owed[s] > 0
    <3>1. PICK n \in report.names : n[1] = s
      BY <2>1, <2>4, OneSession DEF Owing
    <3>2. HasFile(s) /\ ~(file[s].tokens > report.totals[s])
      BY <2>1, <3>1 DEF Settled, HasFile, NeedsRecovery
    <3>3. file[s].tokens >= report.owed[s] /\ file[s].tokens \in Nat
      BY <2>1, <3>2, OneSession, UsageAssumption DEF Owing
    <3> QED BY <2>2, <3>2, <3>3
  <2> QED BY <2>2, <2>3, <2>4
<1> QED BY <1>1, UsageHolds, PTL DEF UsageSpec, CleanReportIsTrue

-----------------------------------------------------------------------------
(* What a prompt names.  A text grows by a character at its end: each      *)
(* function over a text is given by what one more character does.          *)
\* What holds of the first number, and of each with the one before it, holds
\* of all up to a number.
LEMMA ByCount ==
  ASSUME NEW n \in Nat, NEW good, 0 \in good,
         \A k \in 1 .. n : k - 1 \in good => k \in good
  PROVE  \A k \in 0 .. n : k \in good
<1> SUFFICES ASSUME NEW k \in 0 .. n, k \notin good PROVE FALSE
  OBVIOUS
<1> DEFINE set == {j \in 0 .. n : j \notin good}
<1>1. PICK m \in set : \A j \in set : m <= j
  <2>1. set \subseteq Nat /\ set # {}
    OBVIOUS
  <2> HIDE DEF set
  <2> QED BY <2>1, Least
<1>2. m \in 1 .. n /\ m - 1 \in 0 .. n
  OBVIOUS
<1>3. m - 1 \in good
  BY <1>1, <1>2
<1> QED BY <1>2, <1>3

\* What holds of no characters, and of each text with one more, holds of every
\* text.
LEMMA ByCharacters ==
  ASSUME NEW S, NEW good, <<>> \in good, \A t \in Seq(S), c \in S : t \in good => Append(t, c) \in good
  PROVE  \A t \in Seq(S) : t \in good
<1> TAKE t \in Seq(S)
<1> DEFINE n == Len(t)
           set == {k \in 0 .. n : \A u \in Seq(S) : Len(u) = k => u \in good}
<1>1. n \in Nat
  OBVIOUS
<1>2. 0 \in set
  <2>1. \A u \in Seq(S) : Len(u) = 0 => u = <<>>
    BY EmptySeq
  <2> QED BY <1>1, <2>1
<1>3. ASSUME NEW k \in 1 .. n, k - 1 \in set PROVE k \in set
  <2>1. ASSUME NEW u \in Seq(S), Len(u) = k PROVE u \in good
    <3>1. u # <<>>
      <4>1. Len(<<>>) = 0 /\ k # 0
        OBVIOUS
      <4> QED BY <2>1, <4>1
    <3>2. PICK v \in Seq(S), c \in S : u = Append(v, c)
      BY <3>1, SequenceEmptyOrAppend
    <3>3. Len(v) = k - 1
      <4>1. Len(u) = Len(v) + 1 /\ Len(v) \in Nat
        BY <3>2, AppendProperties
      <4> QED BY <2>1, <4>1
    <3>4. v \in good
      BY <1>3, <3>3
    <3> QED BY <3>2, <3>4
  <2>2. k \in 0 .. n
    BY <1>1
  <2> QED BY <2>1, <2>2
<1> HIDE DEF set
<1>4. \A k \in 0 .. n : k \in set
  BY <1>1, <1>2, <1>3, ByCount
<1>5. n \in set
  BY <1>1, <1>4
<1> QED BY <1>5 DEF set

\* A recursive function over the numbers up to n exists.
Stepping(f, n, set) == f \in [(1 .. n) \X set -> set]
Walking(f, n, set, one, more) ==
  f \in [0 .. n -> set] /\ f[0] = one /\ \A k \in 1 .. n : f[k] = more[<<k, f[k - 1]>>]
LEMMA WalkExists ==
  ASSUME NEW n \in Nat, NEW set, NEW one \in set, NEW more, Stepping(more, n, set)
  PROVE  \E f : Walking(f, n, set, one, more)
<1> DEFINE good == {m \in 0 .. n : \E f \in [0 .. m -> set] :
                      f[0] = one /\ \A k \in 1 .. m : f[k] = more[<<k, f[k - 1]>>]}
<1>1. 0 \in good
  <2> DEFINE f == [k \in 0 .. 0 |-> one]
  <2>1. f \in [0 .. 0 -> set] /\ f[0] = one /\ \A k \in 1 .. 0 : f[k] = more[<<k, f[k - 1]>>]
    OBVIOUS
  <2>2. 0 \in 0 .. n
    OBVIOUS
  <2> HIDE DEF f
  <2> QED BY <2>1, <2>2
<1>2. ASSUME NEW m \in 1 .. n, m - 1 \in good PROVE m \in good
  <2>1. PICK g \in [0 .. m - 1 -> set] : g[0] = one /\ \A k \in 1 .. m - 1 : g[k] = more[<<k, g[k - 1]>>]
    BY <1>2
  <2> DEFINE f == [k \in 0 .. m |-> IF k < m THEN g[k] ELSE more[<<m, g[m - 1]>>]]
  <2>2. more[<<m, g[m - 1]>>] \in set
    <3>1. g[m - 1] \in set /\ m \in 1 .. n
      BY <2>1
    <3> QED BY <3>1 DEF Stepping
  <2>3. f \in [0 .. m -> set]
    BY <2>2
  <2>4. f[0] = one /\ \A k \in 1 .. m : f[k] = more[<<k, f[k - 1]>>]
    <3>1. f[0] = one
      BY <2>1
    <3>2. ASSUME NEW k \in 1 .. m - 1 PROVE f[k] = more[<<k, f[k - 1]>>]
      <4>1. f[k] = g[k] /\ f[k - 1] = g[k - 1]
        OBVIOUS
      <4> HIDE DEF f
      <4> QED BY <2>1, <4>1
    <3>3. f[m] = more[<<m, f[m - 1]>>]
      <4>1. f[m] = more[<<m, g[m - 1]>>] /\ f[m - 1] = g[m - 1]
        OBVIOUS
      <4> HIDE DEF f
      <4> QED BY <4>1
    <3>4. \A k \in 1 .. m : k = m \/ k \in 1 .. m - 1
      OBVIOUS
    <3> HIDE DEF f
    <3> QED BY <3>1, <3>2, <3>3, <3>4
  <2>5. m \in 0 .. n
    OBVIOUS
  <2> HIDE DEF f
  <2> QED BY <2>3, <2>4, <2>5
<1> HIDE DEF good
<1>3. \A m \in 0 .. n : m \in good
  BY <1>1, <1>2, ByCount
<1>4. n \in good
  BY <1>3
<1> QED BY <1>4 DEF good, Walking
\* What texts are made of.
Char == STRING \cup {"use", "the", "skill", "please", "quote", " ", ",", "/"}
WordSeq == Seq(Seq(Char) \ {<<>>})
IsLetter(c) == c \in P!Letters

LEMMA Literals ==
  /\ "use" \in Char /\ "the" \in Char /\ "skill" \in Char /\ "please" \in Char /\ "quote" \in Char
  /\ " " \in Char /\ "," \in Char /\ "/" \in Char
  /\ IsLetter("use") /\ IsLetter("the") /\ IsLetter("skill") /\ IsLetter("please")
  /\ ~IsLetter(" ") /\ ~IsLetter(",") /\ ~IsLetter("quote") /\ ~IsLetter("/")
<1>1. /\ "use" \in Char /\ "the" \in Char /\ "skill" \in Char /\ "please" \in Char /\ "quote" \in Char
      /\ " " \in Char /\ "," \in Char /\ "/" \in Char
  BY Zenon DEF Char
<1>2. /\ IsLetter("use") /\ IsLetter("the") /\ IsLetter("skill") /\ IsLetter("please")
      /\ ~IsLetter(" ") /\ ~IsLetter(",") /\ ~IsLetter("quote") /\ ~IsLetter("/")
  BY DEF IsLetter, P!Letters
<1> QED BY <1>1, <1>2

\* Of sequences.
LEMMA Joining ==
  ASSUME NEW S, NEW x \in Seq(S), NEW y \in Seq(S), NEW z \in Seq(S)
  PROVE  /\ (x \o y) \o z = x \o (y \o z) /\ x \o y \in Seq(S)
         /\ Len(x \o y) = Len(x) + Len(y) /\ Len(x) \in Nat /\ Len(y) \in Nat
         /\ x \o <<>> = x /\ <<>> \o x = x
         /\ x \o y = <<>> <=> x = <<>> /\ y = <<>>
<1>1. (x \o y) \o z = x \o (y \o z)
  BY ConcatAssociative
<1>2. /\ x \o y \in Seq(S) /\ Len(x \o y) = Len(x) + Len(y) /\ Len(x) \in Nat /\ Len(y) \in Nat
  BY ConcatProperties
<1>3. x \o <<>> = x /\ <<>> \o x = x
  OBVIOUS
<1>4. x \o y = <<>> <=> x = <<>> /\ y = <<>>
  BY <1>2, EmptySeq
<1> QED BY <1>1, <1>2, <1>3, <1>4

LEMMA Single ==
  ASSUME NEW S, NEW c \in S
  PROVE  /\ <<c>> \in Seq(S) /\ <<c>> # <<>> /\ Len(<<c>>) = 1 /\ <<c>>[1] = c /\ Append(<<>>, c) = <<c>>
         /\ \A x \in Seq(S) : x \o <<c>> = Append(x, c) /\ Append(x, c) \in Seq(S) /\ Append(x, c) # <<>>
         /\ \A x, y \in Seq(S) : x \o Append(y, c) = Append(x \o y, c)
OBVIOUS

LEMMA Blank == <<" ">> \in Seq(Char) /\ <<" ">> # <<>>
<1> DEFINE S == Char
<1>1. " " \in S
  BY Literals
<1> HIDE DEF S
<1>2. <<" ">> \in Seq(S) /\ <<" ">> # <<>>
  BY <1>1, Single
<1> QED BY <1>2 DEF S

LEMMA Through ==
  ASSUME NEW x \in Seq(Char), NEW y \in Seq(Char), NEW z \in Seq(Char)
  PROVE  /\ (x \o y) \o z = x \o (y \o z) /\ x \o y \in Seq(Char)
         /\ Len(x \o y) = Len(x) + Len(y) /\ Len(x) \in Nat /\ Len(y) \in Nat
         /\ x \o y = <<>> <=> x = <<>> /\ y = <<>>
<1> DEFINE S == Char
<1>1. x \in Seq(S) /\ y \in Seq(S) /\ z \in Seq(S)
  OBVIOUS
<1> HIDE DEF S
<1>2. /\ (x \o y) \o z = x \o (y \o z) /\ x \o y \in Seq(S)
      /\ Len(x \o y) = Len(x) + Len(y) /\ Len(x) \in Nat /\ Len(y) \in Nat
      /\ x \o y = <<>> <=> x = <<>> /\ y = <<>>
  BY <1>1, Joining
<1> QED BY <1>2 DEF S

Associates(a, b, s, z) == ((a \o b) \o s) \o z = a \o ((b \o s) \o z)
LEMMA Associate ==
  ASSUME NEW S, NEW a \in Seq(S), NEW b \in Seq(S), NEW s \in Seq(S), NEW z \in Seq(S)
  PROVE  Associates(a, b, s, z)
<1> DEFINE bs == b \o s
           ab == a \o b
<1>1. bs \in Seq(S) /\ ab \in Seq(S)
  OBVIOUS
<1>2. ab \o s = a \o bs
  OBVIOUS
<1> HIDE DEF bs
<1>4. (a \o bs) \o z = a \o (bs \o z)
  BY <1>1
<1> QED BY <1>2, <1>4 DEF bs, Associates

LEMMA OneWordMore ==
  ASSUME NEW words \in WordSeq, NEW word \in Seq(Char) \ {<<>>}
  PROVE  Append(words, word) \in WordSeq /\ Append(words, word) # <<>>
<1> DEFINE S == Seq(Char) \ {<<>>}
<1>1. words \in Seq(S) /\ word \in S
  BY DEF WordSeq
<1> HIDE DEF S
<1>2. Append(words, word) \in Seq(S) /\ Append(words, word) # <<>>
  BY <1>1, AppendProperties
<1> QED BY <1>2 DEF S, WordSeq

LEMMA LongerIs ==
  ASSUME NEW words \in WordSeq, NEW word \in Seq(Char) \ {<<>>}, NEW c \in Char
  PROVE  /\ P!Longer(Append(words, word), c) = Append(words, Append(word, c))
         /\ Append(word, c) \in Seq(Char) \ {<<>>}
<1> DEFINE S == Seq(Char) \ {<<>>}
           n == Len(words) + 1
           more == Append(words, word)
<1>1. Append(word, c) \in S
  BY AppendProperties
<1>2. /\ more \in Seq(S) /\ Len(more) = n /\ more[n] = word /\ \A k \in 1 .. Len(words) : more[k] = words[k]
      /\ Len(words) \in Nat
  BY AppendProperties DEF WordSeq
<1>3. /\ Append(words, Append(word, c)) \in Seq(S) /\ Len(Append(words, Append(word, c))) = n
      /\ Append(words, Append(word, c))[n] = Append(word, c)
      /\ \A k \in 1 .. Len(words) : Append(words, Append(word, c))[k] = words[k]
  BY <1>1, AppendProperties DEF WordSeq
<1> DEFINE one == P!Longer(more, c)
           other == Append(words, Append(word, c))
<1>4. one = [more EXCEPT ![n] = Append(word, c)]
  BY <1>2 DEF P!Longer
<1>5. DOMAIN more = 1 .. n /\ n \in Nat
  BY <1>2
<1>6. DOMAIN other = 1 .. n
  BY <1>3, <1>5
<1> HIDE DEF more, other, S
<1>7. one = [k \in 1 .. n |-> IF k = n THEN Append(word, c) ELSE more[k]]
  BY <1>4, <1>5
<1>8. \A k \in 1 .. n : k = n \/ k \in 1 .. Len(words)
  BY <1>2
<1>9. \A k \in 1 .. n : other[k] = IF k = n THEN Append(word, c) ELSE more[k]
  <2> TAKE k \in 1 .. n
  <2>1. CASE k = n
    BY <1>3, <2>1 DEF other
  <2>2. CASE k # n
    <3>1. k \in 1 .. Len(words)
      BY <1>8, <2>2
    <3> QED BY <1>2, <1>3, <2>2, <3>1 DEF other
  <2> QED BY <2>1, <2>2
<1>10. other = [k \in 1 .. n |-> other[k]]
  <2>1. other \in [1 .. Len(other) -> S] /\ Len(other) = n
    BY <1>3, LenProperties DEF other
  <2> QED BY <2>1
<1>11. one = other
  BY <1>7, <1>9, <1>10
<1> QED BY <1>1, <1>11 DEF one, other, more, S

LEMMA LongerTyped ==
  ASSUME NEW words \in WordSeq, words # <<>>, NEW c \in Char
  PROVE  P!Longer(words, c) \in WordSeq /\ P!Longer(words, c) # <<>>
<1>1. PICK most \in WordSeq, word \in Seq(Char) \ {<<>>} : words = Append(most, word)
  BY SequenceEmptyOrAppend DEF WordSeq
<1>2. P!Longer(words, c) = Append(most, Append(word, c)) /\ Append(word, c) \in Seq(Char) \ {<<>>}
  BY <1>1, LongerIs
<1> QED BY <1>2, OneWordMore

\* The words of a text, character by character.
WordsNext(words, t, k) ==
  IF ~IsLetter(t[k]) THEN words
  ELSE IF k = 1 \/ ~IsLetter(t[k - 1]) \/ words = <<>> THEN Append(words, <<t[k]>>)
  ELSE P!Longer(words, t[k])
WordsThen(words, t, k) ==
  IF ~IsLetter(t[k]) THEN words
  ELSE IF k = 1 \/ ~IsLetter(t[k - 1]) THEN Append(words, <<t[k]>>)
  ELSE P!Longer(words, t[k])
WordsChain(f, t) == f = [k \in 0 .. Len(t) |-> IF k = 0 THEN <<>> ELSE WordsThen(f[k - 1], t, k)]

LEMMA WordsNextTyped ==
  ASSUME NEW t \in Seq(Char), NEW k \in 1 .. Len(t), NEW words \in WordSeq
  PROVE  WordsNext(words, t, k) \in WordSeq
<1> PICK c \in Char : c = t[k]
  OBVIOUS
<1>1. <<c>> \in Seq(Char) \ {<<>>}
  OBVIOUS
<1>2. Append(words, <<c>>) \in WordSeq
  BY <1>1, AppendProperties DEF WordSeq
<1>3. words # <<>> => P!Longer(words, c) \in WordSeq
  BY LongerTyped
<1> QED BY <1>2, <1>3 DEF WordsNext

\* The words of a text, letter by letter.
LEMMA WordsAre ==
  ASSUME NEW t \in Seq(Char)
  PROVE  /\ P!WordsUpTo(t)[0] = <<>>
         /\ \A k \in 1 .. Len(t) : P!WordsUpTo(t)[k] = WordsThen(P!WordsUpTo(t)[k - 1], t, k)
         /\ \A k \in 0 .. Len(t) : P!WordsUpTo(t)[k] \in WordSeq
         /\ \A k \in 1 .. Len(t) : IsLetter(t[k]) => P!WordsUpTo(t)[k] # <<>>
<1> DEFINE l == Len(t)
           more == [x \in (1 .. l) \X WordSeq |-> WordsNext(x[2], t, x[1])]
<1>0. l \in Nat
  OBVIOUS
<1>1. \A k \in 1 .. l, words \in WordSeq : WordsNext(words, t, k) \in WordSeq
  BY WordsNextTyped
<1>2. \A k \in 1 .. l, words \in WordSeq : more[<<k, words>>] = WordsNext(words, t, k)
  OBVIOUS
<1>3. Stepping(more, l, WordSeq)
  BY <1>1 DEF Stepping
<1>4. <<>> \in WordSeq
  BY DEF WordSeq
<1> HIDE DEF more, l
<1>5. PICK f : Walking(f, l, WordSeq, <<>>, more)
  BY <1>0, <1>3, <1>4, WalkExists
<1>6. f \in [0 .. l -> WordSeq] /\ f[0] = <<>> /\ \A k \in 1 .. l : f[k] = more[<<k, f[k - 1]>>]
  BY <1>5 DEF Walking
<1>7. \A k \in 1 .. l : f[k] = WordsNext(f[k - 1], t, k) /\ k - 1 \in 0 .. l
  <2> TAKE k \in 1 .. l
  <2>1. k - 1 \in 0 .. l
    BY <1>0
  <2>2. f[k - 1] \in WordSeq
    BY <1>6, <2>1
  <2> QED BY <1>2, <1>6, <2>1, <2>2
<1> DEFINE good == {k \in 0 .. l : k > 0 /\ IsLetter(t[k]) => f[k] # <<>>}
<1>8. 0 \in good
  BY <1>0
<1>9. ASSUME NEW k \in 1 .. l, k - 1 \in good PROVE k \in good
  <2>1. ASSUME IsLetter(t[k]) PROVE f[k] # <<>>
    <3>1. f[k - 1] \in WordSeq /\ f[k] = WordsNext(f[k - 1], t, k)
      BY <1>6, <1>7
    <3>2. PICK c \in Char : c = t[k]
      BY DEF l
    <3>3. Append(f[k - 1], <<c>>) # <<>>
      <4>1. <<c>> \in Seq(Char) \ {<<>>}
        OBVIOUS
      <4> QED BY <3>1, <4>1, OneWordMore
    <3>4. f[k - 1] # <<>> => P!Longer(f[k - 1], c) # <<>>
      BY <3>1, LongerTyped
    <3> QED BY <2>1, <3>1, <3>2, <3>3, <3>4 DEF WordsNext
  <2>2. k \in 0 .. l
    BY <1>0
  <2> QED BY <2>1, <2>2
<1> HIDE DEF good
<1>10. \A k \in 0 .. l : k \in good
  BY <1>0, <1>8, <1>9, ByCount
<1>11. \A k \in 1 .. l : f[k] = WordsThen(f[k - 1], t, k)
  <2> TAKE k \in 1 .. l
  <2>1. k # 1 /\ IsLetter(t[k - 1]) => f[k - 1] # <<>>
    <3>1. k # 1 => k - 1 > 0 /\ k - 1 \in 0 .. l
      BY <1>0
    <3> QED BY <1>10, <3>1 DEF good
  <2> QED BY <1>7, <2>1 DEF WordsNext, WordsThen
<1>12. \A k \in 0 .. l : f[k] = IF k = 0 THEN <<>> ELSE WordsThen(f[k - 1], t, k)
  <2>1. \A k \in 0 .. l : k = 0 \/ k \in 1 .. l
    BY <1>0
  <2> QED BY <1>6, <1>11, <2>1
<1>13. WordsChain(f, t)
  <2>1. f = [k \in 0 .. l |-> f[k]]
    BY <1>6
  <2> QED BY <1>12, <2>1, Zenon DEF WordsChain, l
<1>14. P!WordsUpTo(t) = CHOOSE g : WordsChain(g, t)
  BY Zenon DEF P!WordsUpTo, WordsChain, WordsThen, IsLetter
<1>15. WordsChain(P!WordsUpTo(t), t)
  BY <1>13, <1>14, Zenon
<1> DEFINE w == P!WordsUpTo(t)
<1>16. \A k \in 0 .. l : w[k] = IF k = 0 THEN <<>> ELSE WordsThen(w[k - 1], t, k)
  BY <1>15, Zenon DEF WordsChain, l
<1> HIDE DEF w
<1> DEFINE same == {k \in 0 .. l : w[k] = f[k]}
<1>17. 0 \in same
  <2>1. 0 \in 0 .. l
    BY <1>0
  <2>2. w[0] = <<>> /\ f[0] = <<>>
    BY <1>6, <1>16, <2>1
  <2> QED BY <2>1, <2>2
<1>18. ASSUME NEW k \in 1 .. l, k - 1 \in same PROVE k \in same
  <2>1. k \in 0 .. l /\ k # 0 /\ w[k - 1] = f[k - 1]
    BY <1>0, <1>18
  <2> QED BY <1>12, <1>16, <2>1
<1> HIDE DEF same
<1>19. \A k \in 0 .. l : k \in same
  BY <1>0, <1>17, <1>18, ByCount
<1>20. \A k \in 0 .. l : w[k] = f[k]
  BY <1>19 DEF same
<1>21. \A k \in 1 .. l : w[k] = WordsThen(w[k - 1], t, k)
  BY <1>0, <1>16
<1>22. \A k \in 1 .. l : IsLetter(t[k]) => w[k] # <<>>
  <2>1. \A k \in 1 .. l : k \in 0 .. l /\ k > 0
    BY <1>0
  <2> QED BY <1>10, <1>20, <2>1 DEF good
<1>23. w[0] = <<>> /\ \A k \in 0 .. l : w[k] \in WordSeq
  BY <1>0, <1>6, <1>20
<1> QED BY <1>21, <1>22, <1>23 DEF w, l

\* What one more character does to the words of a text.
LEMMA WordsGrow ==
  ASSUME NEW t \in Seq(Char), NEW c \in Char
  PROVE  P!Words(Append(t, c)) =
           IF ~IsLetter(c) THEN P!Words(t)
           ELSE IF t = <<>> \/ ~IsLetter(t[Len(t)]) THEN Append(P!Words(t), <<c>>)
           ELSE P!Longer(P!Words(t), c)
<1> DEFINE more == Append(t, c)
           l == Len(t)
           f == P!WordsUpTo(t)
           g == P!WordsUpTo(more)
           good == {k \in 0 .. l : g[k] = f[k]}
<1>1. /\ more \in Seq(Char) /\ Len(more) = l + 1 /\ more[l + 1] = c /\ l \in Nat
      /\ \A k \in 1 .. l : more[k] = t[k]
  BY AppendProperties
<1>2. f[0] = <<>> /\ \A k \in 1 .. l : f[k] = WordsThen(f[k - 1], t, k)
  BY WordsAre
<1> HIDE DEF more
<1>3. g[0] = <<>> /\ \A k \in 1 .. l + 1 : g[k] = WordsThen(g[k - 1], more, k)
  BY <1>1, WordsAre
<1>4. P!Words(t) = f[l] /\ P!Words(more) = g[l + 1]
  BY <1>1 DEF P!Words
<1>5. t = <<>> <=> l = 0
  BY EmptySeq
<1> HIDE DEF f, g, l
<1>6. 0 \in good
  BY <1>1, <1>2, <1>3
<1>7. ASSUME NEW k \in 1 .. l, k - 1 \in good PROVE k \in good
  <2>1. k \in 0 .. l /\ k \in 1 .. l + 1 /\ g[k - 1] = f[k - 1] /\ more[k] = t[k]
    BY <1>1, <1>7
  <2>2. k # 1 => more[k - 1] = t[k - 1]
    <3>1. k # 1 => k - 1 \in 1 .. l
      BY <1>1
    <3> QED BY <1>1, <3>1
  <2>3. WordsThen(g[k - 1], more, k) = WordsThen(f[k - 1], t, k)
    BY <2>1, <2>2 DEF WordsThen
  <2> QED BY <1>2, <1>3, <2>1, <2>3
<1> HIDE DEF good
<1>8. \A k \in 0 .. l : k \in good
  BY <1>1, <1>6, <1>7, ByCount
<1>9. g[l] = f[l]
  BY <1>1, <1>8 DEF good
<1>10. g[l + 1] = WordsThen(f[l], more, l + 1)
  <2>1. l + 1 \in 1 .. l + 1 /\ (l + 1) - 1 = l
    BY <1>1
  <2>2. g[l + 1] = WordsThen(g[(l + 1) - 1], more, l + 1)
    BY <1>3, <2>1
  <2> QED BY <1>9, <2>1, <2>2
<1>11. l # 0 => more[(l + 1) - 1] = t[l]
  <2>1. (l + 1) - 1 = l /\ (l # 0 => l \in 1 .. l)
    BY <1>1
  <2> QED BY <1>1, <2>1
<1>12. l + 1 = 1 <=> l = 0
  BY <1>1
<1>13. WordsThen(f[l], more, l + 1) =
         IF ~IsLetter(c) THEN f[l]
         ELSE IF l = 0 \/ ~IsLetter(t[l]) THEN Append(f[l], <<c>>) ELSE P!Longer(f[l], c)
  BY <1>1, <1>11, <1>12 DEF WordsThen
<1> QED BY <1>4, <1>5, <1>10, <1>13 DEF more, l

\* Words are texts that are not empty.
LEMMA WordsTyped ==
  ASSUME NEW t \in Seq(Char)
  PROVE  /\ P!Words(t) \in WordSeq
         /\ t # <<>> /\ IsLetter(t[Len(t)]) => P!Words(t) # <<>>
<1>1. Len(t) \in Nat /\ (t # <<>> => Len(t) \in 1 .. Len(t))
  BY EmptySeq
<1> QED BY <1>1, WordsAre DEF P!Words

LEMMA NoWords == P!Words(<<>>) = <<>>
<1>1. <<>> \in Seq(Char) /\ Len(<<>>) = 0
  BY EmptySeq
<1> QED BY <1>1, WordsAre DEF P!Words

\* The spaced text, character by character.
SpacedThen(out, t, k) ==
  IF IsLetter(t[k]) THEN Append(out, t[k])
  ELSE IF out = <<>> \/ out[Len(out)] = " " THEN out ELSE Append(out, " ")
SpacedChain(f, t) == f = [k \in 0 .. Len(t) |-> IF k = 0 THEN <<>> ELSE SpacedThen(f[k - 1], t, k)]
Spacing(t) == P!Spaced(t)[Len(t)]

\* normalize_reference_text before it trims its end, character by character.
LEMMA SpacedAre ==
  ASSUME NEW t \in Seq(Char)
  PROVE  /\ P!Spaced(t)[0] = <<>>
         /\ \A k \in 1 .. Len(t) : P!Spaced(t)[k] = SpacedThen(P!Spaced(t)[k - 1], t, k)
         /\ \A k \in 0 .. Len(t) : P!Spaced(t)[k] \in Seq(Char)
<1> DEFINE l == Len(t)
           more == [x \in (1 .. l) \X Seq(Char) |-> SpacedThen(x[2], t, x[1])]
<1>0. l \in Nat
  OBVIOUS
<1>1. \A k \in 1 .. l, out \in Seq(Char) : SpacedThen(out, t, k) \in Seq(Char)
  <2> TAKE k \in 1 .. l, out \in Seq(Char)
  <2>1. t[k] \in Char
    OBVIOUS
  <2>2. Append(out, t[k]) \in Seq(Char) /\ Append(out, " ") \in Seq(Char)
    BY <2>1, Literals, AppendProperties
  <2> QED BY <2>2 DEF SpacedThen
<1>2. \A k \in 1 .. l, out \in Seq(Char) : more[<<k, out>>] = SpacedThen(out, t, k)
  OBVIOUS
<1>3. Stepping(more, l, Seq(Char))
  BY <1>1 DEF Stepping
<1>4. <<>> \in Seq(Char)
  OBVIOUS
<1> HIDE DEF more, l
<1>5. PICK f : Walking(f, l, Seq(Char), <<>>, more)
  BY <1>0, <1>3, <1>4, WalkExists
<1>6. f \in [0 .. l -> Seq(Char)] /\ f[0] = <<>> /\ \A k \in 1 .. l : f[k] = more[<<k, f[k - 1]>>]
  BY <1>5 DEF Walking
<1>7. \A k \in 1 .. l : f[k] = SpacedThen(f[k - 1], t, k)
  <2> TAKE k \in 1 .. l
  <2>1. k - 1 \in 0 .. l
    BY <1>0
  <2>2. f[k - 1] \in Seq(Char)
    BY <1>6, <2>1
  <2> QED BY <1>2, <1>6, <2>1, <2>2
<1>8. \A k \in 0 .. l : f[k] = IF k = 0 THEN <<>> ELSE SpacedThen(f[k - 1], t, k)
  <2>1. \A k \in 0 .. l : k = 0 \/ k \in 1 .. l
    BY <1>0
  <2> QED BY <1>6, <1>7, <2>1
<1>9. SpacedChain(f, t)
  <2>1. f = [k \in 0 .. l |-> f[k]]
    BY <1>6
  <2> QED BY <1>8, <2>1, Zenon DEF SpacedChain, l
<1>10. P!Spaced(t) = CHOOSE g : SpacedChain(g, t)
  BY Zenon DEF P!Spaced, SpacedChain, SpacedThen, IsLetter
<1>11. SpacedChain(P!Spaced(t), t)
  BY <1>9, <1>10, Zenon
<1> DEFINE w == P!Spaced(t)
<1>12. \A k \in 0 .. l : w[k] = IF k = 0 THEN <<>> ELSE SpacedThen(w[k - 1], t, k)
  BY <1>11, Zenon DEF SpacedChain, l
<1> HIDE DEF w
<1>13. w[0] = <<>> /\ \A k \in 1 .. l : w[k] = SpacedThen(w[k - 1], t, k)
  BY <1>0, <1>12
<1> DEFINE good == {k \in 0 .. l : w[k] \in Seq(Char)}
<1>14. 0 \in good
  <2>1. 0 \in 0 .. l
    BY <1>0
  <2>2. w[0] \in Seq(Char)
    BY <1>4, <1>13
  <2> QED BY <2>1, <2>2
<1>15. ASSUME NEW k \in 1 .. l, k - 1 \in good PROVE k \in good
  <2>1. k \in 0 .. l /\ w[k - 1] \in Seq(Char)
    BY <1>0, <1>15
  <2>2. w[k] \in Seq(Char)
    BY <1>1, <1>13, <2>1
  <2> QED BY <2>1, <2>2
<1> HIDE DEF good
<1>16. \A k \in 0 .. l : k \in good
  BY <1>0, <1>14, <1>15, ByCount
<1> QED BY <1>13, <1>16 DEF good, w, l

\* What one more character does to it.
LEMMA SpacingGrows ==
  ASSUME NEW t \in Seq(Char), NEW c \in Char
  PROVE  Spacing(Append(t, c)) =
           IF IsLetter(c) THEN Append(Spacing(t), c)
           ELSE IF Spacing(t) = <<>> \/ Spacing(t)[Len(Spacing(t))] = " " THEN Spacing(t)
           ELSE Append(Spacing(t), " ")
<1> DEFINE more == Append(t, c)
           l == Len(t)
           f == P!Spaced(t)
           g == P!Spaced(more)
           good == {k \in 0 .. l : g[k] = f[k]}
<1>1. /\ more \in Seq(Char) /\ Len(more) = l + 1 /\ more[l + 1] = c /\ l \in Nat
      /\ \A k \in 1 .. l : more[k] = t[k]
  BY AppendProperties
<1>2. f[0] = <<>> /\ \A k \in 1 .. l : f[k] = SpacedThen(f[k - 1], t, k)
  BY SpacedAre
<1> HIDE DEF more
<1>3. g[0] = <<>> /\ \A k \in 1 .. l + 1 : g[k] = SpacedThen(g[k - 1], more, k)
  BY <1>1, SpacedAre
<1>4. Spacing(t) = f[l] /\ Spacing(more) = g[l + 1]
  BY <1>1 DEF Spacing
<1> HIDE DEF f, g, l
<1>6. 0 \in good
  BY <1>1, <1>2, <1>3
<1>7. ASSUME NEW k \in 1 .. l, k - 1 \in good PROVE k \in good
  <2>1. k \in 0 .. l /\ k \in 1 .. l + 1 /\ g[k - 1] = f[k - 1] /\ more[k] = t[k]
    BY <1>1, <1>7
  <2>2. SpacedThen(g[k - 1], more, k) = SpacedThen(f[k - 1], t, k)
    BY <2>1 DEF SpacedThen
  <2> QED BY <1>2, <1>3, <2>1, <2>2
<1> HIDE DEF good
<1>8. \A k \in 0 .. l : k \in good
  BY <1>1, <1>6, <1>7, ByCount
<1>9. g[l] = f[l]
  BY <1>1, <1>8 DEF good
<1>10. g[l + 1] = SpacedThen(f[l], more, l + 1)
  <2>1. l + 1 \in 1 .. l + 1 /\ (l + 1) - 1 = l
    BY <1>1
  <2>2. g[l + 1] = SpacedThen(g[(l + 1) - 1], more, l + 1)
    BY <1>3, <2>1
  <2> QED BY <1>9, <2>1, <2>2
<1> QED BY <1>1, <1>4, <1>10 DEF SpacedThen, more

LEMMA SpacingTyped ==
  ASSUME NEW t \in Seq(Char)
  PROVE  Spacing(t) \in Seq(Char) /\ (t = <<>> => Spacing(t) = <<>>)
<1>1. Len(t) \in 0 .. Len(t) /\ (t = <<>> => Len(t) = 0)
  BY EmptySeq
<1> QED BY <1>1, SpacedAre DEF Spacing
\* How far a name goes along a part of the prompt, character by character.
DoneThen(done, name, part, k) ==
  IF done = P!Unlike \/ ~IsLetter(name[k]) THEN done
  ELSE IF P!GoesOn(name[k], part, done, P!Skip(name, k, done)) THEN done + P!Skip(name, k, done) + 1
  ELSE P!Unlike
DoneChain(f, name, part) == f = [k \in 0 .. Len(name) |-> IF k = 0 THEN 0 ELSE DoneThen(f[k - 1], name, part, k)]
Far(name, part) == P!Compared(name, part)[Len(name)]

\* normalized_reference_text_eql, character by character of the name.
LEMMA DoneAre ==
  ASSUME NEW name \in Seq(Char), NEW part
  PROVE  /\ P!Compared(name, part)[0] = 0
         /\ \A k \in 1 .. Len(name) :
              P!Compared(name, part)[k] = DoneThen(P!Compared(name, part)[k - 1], name, part, k)
<1> DEFINE l == Len(name)
           more == [x \in (1 .. l) \X Int |-> DoneThen(x[2], name, part, x[1])]
<1>0. l \in Nat
  OBVIOUS
<1>1. \A k \in 1 .. l, done \in Int : DoneThen(done, name, part, k) \in Int
  BY DEF DoneThen, P!Skip, P!Unlike
<1>2. \A k \in 1 .. l, done \in Int : more[<<k, done>>] = DoneThen(done, name, part, k)
  OBVIOUS
<1>3. Stepping(more, l, Int)
  BY <1>1 DEF Stepping
<1> HIDE DEF more, l
<1>5. PICK f : Walking(f, l, Int, 0, more)
  <2>1. 0 \in Int
    OBVIOUS
  <2> QED BY <1>0, <1>3, <2>1, WalkExists
<1>6. f \in [0 .. l -> Int] /\ f[0] = 0 /\ \A k \in 1 .. l : f[k] = more[<<k, f[k - 1]>>]
  BY <1>5 DEF Walking
<1>7. \A k \in 1 .. l : f[k] = DoneThen(f[k - 1], name, part, k)
  <2> TAKE k \in 1 .. l
  <2>1. k - 1 \in 0 .. l
    BY <1>0
  <2>2. f[k - 1] \in Int
    BY <1>6, <2>1
  <2> QED BY <1>2, <1>6, <2>1, <2>2
<1>8. \A k \in 0 .. l : f[k] = IF k = 0 THEN 0 ELSE DoneThen(f[k - 1], name, part, k)
  <2>1. \A k \in 0 .. l : k = 0 \/ k \in 1 .. l
    BY <1>0
  <2> QED BY <1>6, <1>7, <2>1
<1>9. DoneChain(f, name, part)
  <2>1. f = [k \in 0 .. l |-> f[k]]
    BY <1>6
  <2> QED BY <1>8, <2>1, Zenon DEF DoneChain, l
<1>10. P!Compared(name, part) = CHOOSE g : DoneChain(g, name, part)
  BY Zenon DEF P!Compared, DoneChain, DoneThen, IsLetter
<1>11. DoneChain(P!Compared(name, part), name, part)
  BY <1>9, <1>10, Zenon
<1> DEFINE w == P!Compared(name, part)
<1>12. \A k \in 0 .. l : w[k] = IF k = 0 THEN 0 ELSE DoneThen(w[k - 1], name, part, k)
  BY <1>11, Zenon DEF DoneChain, l
<1> HIDE DEF w
<1>13. w[0] = 0 /\ \A k \in 1 .. l : w[k] = DoneThen(w[k - 1], name, part, k)
  BY <1>0, <1>12
<1> QED BY <1>13 DEF w, l

\* What one more character of the name does to it.
LEMMA DoneGrows ==
  ASSUME NEW name \in Seq(Char), NEW c \in Char, NEW part, NEW skip,
         skip = IF Far(name, part) > 0 /\ ~IsLetter(name[Len(name)]) THEN 1 ELSE 0
  PROVE  Far(Append(name, c), part) =
           IF Far(name, part) = P!Unlike \/ ~IsLetter(c) THEN Far(name, part)
           ELSE IF P!GoesOn(c, part, Far(name, part), skip) THEN Far(name, part) + skip + 1 ELSE P!Unlike
<1> DEFINE more == Append(name, c)
           l == Len(name)
           f == P!Compared(name, part)
           g == P!Compared(more, part)
           good == {k \in 0 .. l : g[k] = f[k]}
<1>1. /\ more \in Seq(Char) /\ Len(more) = l + 1 /\ more[l + 1] = c /\ l \in Nat
      /\ \A k \in 1 .. l : more[k] = name[k]
  BY AppendProperties
<1>2. f[0] = 0 /\ \A k \in 1 .. l : f[k] = DoneThen(f[k - 1], name, part, k)
  BY DoneAre
<1> HIDE DEF more
<1>3. g[0] = 0 /\ \A k \in 1 .. l + 1 : g[k] = DoneThen(g[k - 1], more, part, k)
  BY <1>1, DoneAre
<1>4. Far(name, part) = f[l] /\ Far(more, part) = g[l + 1]
  BY <1>1 DEF Far
<1> HIDE DEF f, g, l
<1>6. 0 \in good
  BY <1>1, <1>2, <1>3
<1>7. ASSUME NEW k \in 1 .. l, k - 1 \in good PROVE k \in good
  <2>1. k \in 0 .. l /\ k \in 1 .. l + 1 /\ g[k - 1] = f[k - 1] /\ more[k] = name[k]
    BY <1>1, <1>7
  <2>2. P!Skip(more, k, f[k - 1]) = P!Skip(name, k, f[k - 1])
    <3>1. CASE k = 1
      <4>1. f[k - 1] = 0
        BY <1>2, <3>1
      <4> QED BY <4>1 DEF P!Skip
    <3>2. CASE k # 1
      <4>1. k - 1 \in 1 .. l
        BY <1>1, <3>2
      <4>2. more[k - 1] = name[k - 1]
        BY <1>1, <4>1
      <4> QED BY <4>2 DEF P!Skip
    <3> QED BY <3>1, <3>2
  <2>3. DoneThen(g[k - 1], more, part, k) = DoneThen(f[k - 1], name, part, k)
    BY <2>1, <2>2 DEF DoneThen
  <2> QED BY <1>2, <1>3, <2>1, <2>3
<1> HIDE DEF good
<1>8. \A k \in 0 .. l : k \in good
  BY <1>1, <1>6, <1>7, ByCount
<1>9. g[l] = f[l]
  BY <1>1, <1>8 DEF good
<1>10. g[l + 1] = DoneThen(f[l], more, part, l + 1)
  <2>1. l + 1 \in 1 .. l + 1 /\ (l + 1) - 1 = l
    BY <1>1
  <2>2. g[l + 1] = DoneThen(g[(l + 1) - 1], more, part, l + 1)
    BY <1>3, <2>1
  <2> QED BY <1>9, <2>1, <2>2
<1>11. P!Skip(more, l + 1, f[l]) = skip
  <2>1. CASE l = 0
    <3>1. f[l] = 0
      BY <1>2, <2>1
    <3> QED BY <1>4, <3>1 DEF P!Skip
  <2>2. CASE l # 0
    <3>1. (l + 1) - 1 = l /\ l \in 1 .. l
      BY <1>1, <2>2
    <3>2. more[(l + 1) - 1] = name[l]
      BY <1>1, <3>1
    <3>3. skip = IF f[l] > 0 /\ ~IsLetter(name[l]) THEN 1 ELSE 0
      BY <1>4 DEF l
    <3> QED BY <3>2, <3>3 DEF P!Skip, IsLetter
  <2> QED BY <2>1, <2>2
<1>12. DoneThen(f[l], more, part, l + 1) =
         IF f[l] = P!Unlike \/ ~IsLetter(c) THEN f[l]
         ELSE IF P!GoesOn(c, part, f[l], skip) THEN f[l] + skip + 1 ELSE P!Unlike
  BY <1>1, <1>11 DEF DoneThen
<1> QED BY <1>4, <1>10, <1>12 DEF more, l

\* Words with a space between two of them.
JoinThen(out, words, k) == IF k = 1 THEN words[1] ELSE (out \o <<" ">>) \o words[k]
JoinUpTo(words) ==
  LET out[k \in 0 .. Len(words)] == IF k = 0 THEN <<>> ELSE JoinThen(out[k - 1], words, k) IN out
JoinChain(f, words) == f = [k \in 0 .. Len(words) |-> IF k = 0 THEN <<>> ELSE JoinThen(f[k - 1], words, k)]
Join(words) == JoinUpTo(words)[Len(words)]

\* Words with one space between each two.
LEMMA JoinAre ==
  ASSUME NEW words \in WordSeq
  PROVE  /\ JoinUpTo(words)[0] = <<>>
         /\ \A k \in 1 .. Len(words) : JoinUpTo(words)[k] = JoinThen(JoinUpTo(words)[k - 1], words, k)
         /\ \A k \in 0 .. Len(words) : JoinUpTo(words)[k] \in Seq(Char)
<1> DEFINE l == Len(words)
           more == [x \in (1 .. l) \X Seq(Char) |-> JoinThen(x[2], words, x[1])]
<1>0. l \in Nat
  BY DEF WordSeq
<1>1. \A k \in 1 .. l, out \in Seq(Char) : JoinThen(out, words, k) \in Seq(Char)
  <2> TAKE k \in 1 .. l, out \in Seq(Char)
  <2>1. words[k] \in Seq(Char) /\ <<" ">> \in Seq(Char)
    <3>1. words[k] \in Seq(Char) \ {<<>>}
      BY DEF WordSeq
    <3>2. <<" ">> \in Seq(Char)
      BY Blank
    <3> QED BY <3>1, <3>2
  <2>2. (out \o <<" ">>) \o words[k] \in Seq(Char)
    BY <2>1, ConcatProperties
  <2> QED BY <2>1, <2>2 DEF JoinThen
<1>2. \A k \in 1 .. l, out \in Seq(Char) : more[<<k, out>>] = JoinThen(out, words, k)
  OBVIOUS
<1>3. Stepping(more, l, Seq(Char))
  BY <1>1 DEF Stepping
<1>4. <<>> \in Seq(Char)
  OBVIOUS
<1> HIDE DEF more, l
<1>5. PICK f : Walking(f, l, Seq(Char), <<>>, more)
  BY <1>0, <1>3, <1>4, WalkExists
<1>6. f \in [0 .. l -> Seq(Char)] /\ f[0] = <<>> /\ \A k \in 1 .. l : f[k] = more[<<k, f[k - 1]>>]
  BY <1>5 DEF Walking
<1>7. \A k \in 1 .. l : f[k] = JoinThen(f[k - 1], words, k)
  <2> TAKE k \in 1 .. l
  <2>1. k - 1 \in 0 .. l
    BY <1>0
  <2>2. f[k - 1] \in Seq(Char)
    BY <1>6, <2>1
  <2> QED BY <1>2, <1>6, <2>1, <2>2
<1>8. \A k \in 0 .. l : f[k] = IF k = 0 THEN <<>> ELSE JoinThen(f[k - 1], words, k)
  <2>1. \A k \in 0 .. l : k = 0 \/ k \in 1 .. l
    BY <1>0
  <2> QED BY <1>6, <1>7, <2>1
<1>9. JoinChain(f, words)
  <2>1. f = [k \in 0 .. l |-> f[k]]
    BY <1>6
  <2> QED BY <1>8, <2>1, Zenon DEF JoinChain, l
<1>10. JoinUpTo(words) = CHOOSE g : JoinChain(g, words)
  BY Zenon DEF JoinUpTo, JoinChain
<1>11. JoinChain(JoinUpTo(words), words)
  BY <1>9, <1>10, Zenon
<1> DEFINE w == JoinUpTo(words)
<1>12. \A k \in 0 .. l : w[k] = IF k = 0 THEN <<>> ELSE JoinThen(w[k - 1], words, k)
  BY <1>11, Zenon DEF JoinChain, l
<1> HIDE DEF w
<1>13. w[0] = <<>> /\ \A k \in 1 .. l : w[k] = JoinThen(w[k - 1], words, k)
  BY <1>0, <1>12
<1> DEFINE good == {k \in 0 .. l : w[k] \in Seq(Char)}
<1>14. 0 \in good
  <2>1. 0 \in 0 .. l
    BY <1>0
  <2>2. w[0] \in Seq(Char)
    BY <1>4, <1>13
  <2> QED BY <2>1, <2>2
<1>15. ASSUME NEW k \in 1 .. l, k - 1 \in good PROVE k \in good
  <2>1. k \in 0 .. l /\ w[k - 1] \in Seq(Char)
    BY <1>0, <1>15
  <2>2. w[k] \in Seq(Char)
    BY <1>1, <1>13, <2>1
  <2> QED BY <2>1, <2>2
<1> HIDE DEF good
<1>16. \A k \in 0 .. l : k \in good
  BY <1>0, <1>14, <1>15, ByCount
<1> QED BY <1>13, <1>16 DEF good, w, l

\* What one more word does to them.
LEMMA JoinGrows ==
  ASSUME NEW words \in WordSeq, NEW word \in Seq(Char) \ {<<>>}
  PROVE  Join(Append(words, word)) = IF words = <<>> THEN word ELSE (Join(words) \o <<" ">>) \o word
<1> DEFINE more == Append(words, word)
           l == Len(words)
           f == JoinUpTo(words)
           g == JoinUpTo(more)
           good == {k \in 0 .. l : g[k] = f[k]}
<1>0. more \in WordSeq
  BY OneWordMore
<1>1. /\ Len(more) = l + 1 /\ more[l + 1] = word /\ l \in Nat
      /\ \A k \in 1 .. l : more[k] = words[k]
  BY AppendProperties DEF WordSeq
<1>2. f[0] = <<>> /\ \A k \in 1 .. l : f[k] = JoinThen(f[k - 1], words, k)
  BY JoinAre
<1> HIDE DEF more
<1>3. g[0] = <<>> /\ \A k \in 1 .. l + 1 : g[k] = JoinThen(g[k - 1], more, k)
  BY <1>0, <1>1, JoinAre
<1>4. Join(words) = f[l] /\ Join(more) = g[l + 1]
  BY <1>1 DEF Join
<1>5. words = <<>> <=> l = 0
  BY EmptySeq DEF WordSeq
<1> HIDE DEF f, g, l
<1>6. 0 \in good
  BY <1>1, <1>2, <1>3
<1>7. ASSUME NEW k \in 1 .. l, k - 1 \in good PROVE k \in good
  <2>1. k \in 0 .. l /\ k \in 1 .. l + 1 /\ g[k - 1] = f[k - 1] /\ more[k] = words[k]
    BY <1>1, <1>7
  <2>2. JoinThen(g[k - 1], more, k) = JoinThen(f[k - 1], words, k)
    BY <2>1 DEF JoinThen
  <2> QED BY <1>2, <1>3, <2>1, <2>2
<1> HIDE DEF good
<1>8. \A k \in 0 .. l : k \in good
  BY <1>1, <1>6, <1>7, ByCount
<1>9. g[l] = f[l]
  BY <1>1, <1>8 DEF good
<1>10. g[l + 1] = JoinThen(f[l], more, l + 1)
  <2>1. l + 1 \in 1 .. l + 1 /\ (l + 1) - 1 = l
    BY <1>1
  <2>2. g[l + 1] = JoinThen(g[(l + 1) - 1], more, l + 1)
    BY <1>3, <2>1
  <2> QED BY <1>9, <2>1, <2>2
<1>11. l + 1 = 1 <=> l = 0
  BY <1>1
<1>12. JoinThen(f[l], more, l + 1) = IF l = 0 THEN word ELSE (f[l] \o <<" ">>) \o word
  BY <1>1, <1>11 DEF JoinThen
<1> QED BY <1>4, <1>5, <1>10, <1>12 DEF more

LEMMA JoinTyped ==
  ASSUME NEW words \in WordSeq
  PROVE  /\ Join(words) \in Seq(Char)
         /\ words = <<>> => Join(words) = <<>>
<1>1. Len(words) \in 0 .. Len(words) /\ (words = <<>> => Len(words) = 0)
  BY EmptySeq DEF WordSeq
<1> QED BY <1>1, JoinAre DEF Join
\* Of texts as sequences.
Last(t) == t[Len(t)]
LEMMA AppendIs ==
  ASSUME NEW x \in Seq(Char), NEW c \in Char
  PROVE  /\ Append(x, c) \in Seq(Char) /\ Append(x, c) # <<>> /\ Last(Append(x, c)) = c
         /\ Len(Append(x, c)) = Len(x) + 1 /\ Len(x) \in Nat
         /\ SubSeq(Append(x, c), 1, Len(Append(x, c)) - 1) = x
<1> DEFINE more == Append(x, c)
           n == Len(x)
<1>1. /\ more \in Seq(Char) /\ more # <<>> /\ Len(more) = n + 1 /\ more[n + 1] = c /\ n \in Nat
      /\ \A k \in 1 .. n : more[k] = x[k]
  BY AppendProperties
<1>2. SubSeq(more, 1, Len(more) - 1) = x
  <2>1. Len(more) - 1 = n
    BY <1>1
  <2>2. \A k \in 1 .. n : more[k] \in Char
    BY <1>1
  <2> HIDE DEF more
  <2>3. /\ SubSeq(more, 1, n) \in Seq(Char) /\ Len(SubSeq(more, 1, n)) = n
        /\ \A k \in 1 .. n : SubSeq(more, 1, n)[k] = more[k]
    <3>1. (n - 1) + 1 = n /\ (1 <= n \/ n = 0) /\ n \in Int /\ 1 \in Int /\ \A k \in 1 .. n : (1 + k) - 1 = k
      BY <1>1
    <3> QED BY <1>1, <2>2, <3>1, SubSeqProperties
  <2>4. SubSeq(more, 1, n) = x
    BY <1>1, <2>3, SeqEqual
  <2> QED BY <2>1, <2>4
<1> QED BY <1>1, <1>2 DEF Last

\* A longer last word makes the joined text longer by the same letter.
LEMMA JoinLonger ==
  ASSUME NEW words \in WordSeq, words # <<>>, NEW c \in Char
  PROVE  Join(P!Longer(words, c)) = Append(Join(words), c)
<1>1. PICK most \in WordSeq, word \in Seq(Char) \ {<<>>} : words = Append(most, word)
  BY SequenceEmptyOrAppend DEF WordSeq
<1>2. P!Longer(words, c) = Append(most, Append(word, c)) /\ Append(word, c) \in Seq(Char) \ {<<>>}
  BY <1>1, LongerIs
<1>3. Join(words) = IF most = <<>> THEN word ELSE (Join(most) \o <<" ">>) \o word
  BY <1>1, JoinGrows
<1>4. Join(P!Longer(words, c)) = IF most = <<>> THEN Append(word, c) ELSE (Join(most) \o <<" ">>) \o Append(word, c)
  BY <1>2, JoinGrows
<1>5. (Join(most) \o <<" ">>) \o Append(word, c) = Append((Join(most) \o <<" ">>) \o word, c)
  <2>1. Join(most) \in Seq(Char) /\ word \in Seq(Char)
    BY JoinTyped
  <2> DEFINE x == Join(most) \o <<" ">>
  <2>2. x \in Seq(Char)
    BY <2>1, Blank, Joining
  <2> HIDE DEF x
  <2>3. x \o Append(word, c) = Append(x \o word, c)
    BY <2>1, <2>2, Single
  <2> QED BY <2>3 DEF x
<1> QED BY <1>3, <1>4, <1>5

\* Words joined in two parts are joined with one space between the parts.
LEMMA JoinConcat ==
  ASSUME NEW words \in WordSeq, words # <<>>, NEW others \in WordSeq, others # <<>>
  PROVE  Join(words \o others) = (Join(words) \o <<" ">>) \o Join(others)
<1> DEFINE S == Seq(Char) \ {<<>>}
           good == {ws \in WordSeq : ws # <<>> => Join(words \o ws) = (Join(words) \o <<" ">>) \o Join(ws)}
<1>1. <<>> \in good
  BY DEF WordSeq
<1>2. ASSUME NEW ws \in Seq(S), NEW word \in S, ws \in good PROVE Append(ws, word) \in good
  <2>1. ws \in WordSeq /\ Append(ws, word) \in WordSeq
    BY OneWordMore DEF WordSeq
  <2>0. words \in Seq(S)
    BY DEF WordSeq
  <2>2. words \o Append(ws, word) = Append(words \o ws, word)
    <3> HIDE DEF S
    <3> QED BY <2>0, Single
  <2>3. words \o ws \in WordSeq /\ words \o ws # <<>>
    <3>1. words \o ws \in Seq(S) /\ words \o ws # <<>>
      <4> HIDE DEF S
      <4> QED BY <2>0, Joining
    <3> QED BY <3>1 DEF WordSeq
  <2>4. Join(words \o Append(ws, word)) = (Join(words \o ws) \o <<" ">>) \o word
    BY <2>2, <2>3, JoinGrows
  <2>5. Join(Append(ws, word)) = IF ws = <<>> THEN word ELSE (Join(ws) \o <<" ">>) \o word
    BY <2>1, JoinGrows
  <2>6. Join(words \o Append(ws, word)) = (Join(words) \o <<" ">>) \o Join(Append(ws, word))
    <3>1. CASE ws = <<>>
      <4>1. words \o ws = words
        BY <3>1 DEF WordSeq
      <4> QED BY <2>4, <2>5, <3>1, <4>1
    <3>2. CASE ws # <<>>
      <4>1. Join(words \o ws) = (Join(words) \o <<" ">>) \o Join(ws)
        BY <1>2, <3>2
      <4> DEFINE a == Join(words) \o <<" ">>
                 b == Join(ws)
      <4>2. a \in Seq(Char) /\ b \in Seq(Char) /\ <<" ">> \in Seq(Char) /\ word \in Seq(Char)
        BY <2>1, JoinTyped, Blank, Joining
      <4>3. Join(words \o ws) = a \o b
        BY <4>1
      <4>4. Join(Append(ws, word)) = (b \o <<" ">>) \o word
        BY <2>5, <3>2
      <4> HIDE DEF a, b
      <4>5. ((a \o b) \o <<" ">>) \o word = a \o ((b \o <<" ">>) \o word)
        <5> DEFINE s == <<" ">>
        <5>1. s \in Seq(Char)
          BY <4>2
        <5> HIDE DEF s
        <5>2. ((a \o b) \o s) \o word = a \o ((b \o s) \o word)
          <6>1. Associates(a, b, s, word)
            BY <4>2, <5>1, Associate
          <6> QED BY <6>1 DEF Associates
        <5> QED BY <5>2 DEF s
      <4>6. Join(words \o Append(ws, word)) = a \o Join(Append(ws, word))
        BY <2>4, <4>3, <4>4, <4>5
      <4> QED BY <4>6 DEF a
    <3> QED BY <3>1, <3>2
  <2> QED BY <2>1, <2>6
<1> HIDE DEF good
<1>3. \A ws \in Seq(S) : ws \in good
  BY <1>1, <1>2, ByCharacters
<1>4. others \in good
  BY <1>3 DEF WordSeq
<1> QED BY <1>4 DEF good

\* Only no words are joined to nothing.
LEMMA JoinedAny ==
  ASSUME NEW words \in WordSeq
  PROVE  Join(words) = <<>> <=> words = <<>>
<1> SUFFICES ASSUME words # <<>> PROVE Join(words) # <<>>
  BY JoinTyped
<1>1. PICK most \in WordSeq, word \in Seq(Char) \ {<<>>} : words = Append(most, word)
  BY SequenceEmptyOrAppend DEF WordSeq
<1>2. Join(words) = IF most = <<>> THEN word ELSE (Join(most) \o <<" ">>) \o word
  BY <1>1, JoinGrows
<1>3. (Join(most) \o <<" ">>) \o word # <<>>
  <2>1. Join(most) \o <<" ">> \in Seq(Char) /\ word \in Seq(Char)
    BY JoinTyped, Blank, Joining
  <2>2. word # <<>>
    OBVIOUS
  <2> DEFINE x == Join(most) \o <<" ">>
  <2> HIDE DEF x
  <2>3. x \o word # <<>>
    BY <2>1, <2>2, Through DEF x
  <2> QED BY <2>3 DEF x
<1> QED BY <1>2, <1>3

\* The words of a text with their spaces, when a letter is added.
LEMMA JoinedGrow ==
  ASSUME NEW t \in Seq(Char), NEW c \in Char, IsLetter(c)
  PROVE  Join(P!Words(Append(t, c))) =
           IF P!Words(t) # <<>> /\ ~IsLetter(Last(t)) THEN Append(Append(Join(P!Words(t)), " "), c)
           ELSE Append(Join(P!Words(t)), c)
<1> DEFINE w == P!Words(t)
           joined == Join(w)
<1>1. w \in WordSeq /\ (t # <<>> /\ IsLetter(Last(t)) => w # <<>>)
  BY WordsTyped DEF Last
<1>2. t = <<>> => w = <<>>
  BY NoWords
<1>3. joined \in Seq(Char) /\ (w = <<>> => joined = <<>>)
  BY <1>1, JoinTyped
<1>4. P!Words(Append(t, c)) = IF t = <<>> \/ ~IsLetter(Last(t)) THEN Append(w, <<c>>) ELSE P!Longer(w, c)
  BY WordsGrow DEF Last
<1> HIDE DEF w
<1>5. Join(Append(w, <<c>>)) = IF w = <<>> THEN <<c>> ELSE (joined \o <<" ">>) \o <<c>>
  <2>1. <<c>> \in Seq(Char) \ {<<>>}
    OBVIOUS
  <2> QED BY <1>1, <2>1, JoinGrows
<1>6. w # <<>> => Join(P!Longer(w, c)) = Append(joined, c)
  BY <1>1, JoinLonger
<1> HIDE DEF joined
<1>7. (joined \o <<" ">>) \o <<c>> = Append(Append(joined, " "), c) /\ Append(<<>>, c) = <<c>>
  <2>1. " " \in Char
    BY Literals
  <2>2. joined \o <<" ">> = Append(joined, " ") /\ Append(joined, " ") \in Seq(Char)
    BY <1>3, <2>1, Single
  <2> DEFINE x == joined \o <<" ">>
  <2>3. x \in Seq(Char)
    BY <2>2
  <2> HIDE DEF x
  <2>4. x \o <<c>> = Append(x, c) /\ Append(<<>>, c) = <<c>>
    BY <2>3, Single
  <2> QED BY <2>2, <2>4 DEF x
<1> QED BY <1>1, <1>2, <1>3, <1>4, <1>5, <1>6, <1>7 DEF joined, w
\* What the words of a text look like with one space between two of them: what
\* normalize makes of it, and what eql goes through in a name.
J(t) == Join(P!Words(t))

LEMMA JTyped ==
  ASSUME NEW t \in Seq(Char)
  PROVE  /\ J(t) \in Seq(Char) /\ Len(J(t)) \in Nat
         /\ (J(t) = <<>> <=> P!Words(t) = <<>>) /\ (Len(J(t)) = 0 <=> J(t) = <<>>)
<1>1. P!Words(t) \in WordSeq
  BY WordsTyped
<1>2. J(t) \in Seq(Char)
  BY <1>1, JoinTyped DEF J
<1>3. Len(J(t)) \in Nat /\ (Len(J(t)) = 0 <=> J(t) = <<>>)
  BY <1>2, EmptySeq
<1> QED BY <1>1, <1>2, <1>3, JoinedAny DEF J

EndsLetter(x) == x # <<>> /\ IsLetter(Last(x))
JGrows(t, c) ==
  J(Append(t, c)) = IF ~IsLetter(c) THEN J(t)
                    ELSE IF P!Words(t) # <<>> /\ ~EndsLetter(t) THEN Append(Append(J(t), " "), c)
                    ELSE Append(J(t), c)
WGrows(t, c) ==
  P!Words(Append(t, c)) = IF ~IsLetter(c) THEN P!Words(t)
                          ELSE IF ~EndsLetter(t) THEN Append(P!Words(t), <<c>>)
                          ELSE P!Longer(P!Words(t), c)

\* What one more character does to the joined words of a text.
LEMMA JGrowsThus ==
  ASSUME NEW t \in Seq(Char), NEW c \in Char
  PROVE  /\ JGrows(t, c) /\ WGrows(t, c)
         /\ EndsLetter(t) => P!Words(t) # <<>>
         /\ EndsLetter(Append(t, c)) <=> IsLetter(c)
<1>1. WGrows(t, c)
  BY WordsGrow DEF WGrows, EndsLetter, Last
<1>2. t = <<>> => P!Words(t) = <<>>
  BY NoWords
<1>3. JGrows(t, c)
  <2>1. CASE IsLetter(c)
    BY <1>2, <2>1, JoinedGrow DEF J, JGrows, EndsLetter
  <2>2. CASE ~IsLetter(c)
    BY <1>1, <2>2 DEF J, JGrows, WGrows
  <2> QED BY <2>1, <2>2
<1>4. EndsLetter(t) => P!Words(t) # <<>>
  BY WordsTyped DEF EndsLetter, Last
<1>5. EndsLetter(Append(t, c)) <=> IsLetter(c)
  BY AppendIs DEF EndsLetter
<1> QED BY <1>1, <1>3, <1>4, <1>5

\* It ends with a letter, and its words are those of the text.
JIs(t) == /\ P!Words(t) # <<>> => EndsLetter(J(t))
          /\ P!Words(J(t)) = P!Words(t)

\* The joined words of a text have the words of the text, and end in a
\* letter.
LEMMA JKeepsWords ==
  ASSUME NEW t \in Seq(Char)
  PROVE  JIs(t)
<1> DEFINE good == {x \in Seq(Char) : JIs(x)}
<1>1. <<>> \in good
  <2>1. J(<<>>) = <<>> /\ <<>> \in Seq(Char)
    <3>1. <<>> \in Seq(Char)
      OBVIOUS
    <3> QED BY <3>1, NoWords, JTyped
  <2> QED BY <2>1, NoWords DEF JIs
<1>2. ASSUME NEW x \in Seq(Char), NEW c \in Char, x \in good PROVE Append(x, c) \in good
  <2>1. JIs(x) /\ Append(x, c) \in Seq(Char)
    BY <1>2, AppendIs
  <2>2. JGrows(x, c) /\ WGrows(x, c) /\ (EndsLetter(x) => P!Words(x) # <<>>)
    BY JGrowsThus
  <2>3. J(x) \in Seq(Char) /\ (J(x) = <<>> <=> P!Words(x) = <<>>)
    BY JTyped
  <2>4. CASE ~IsLetter(c)
    BY <2>1, <2>2, <2>4 DEF JIs, JGrows, WGrows
  <2>5. CASE IsLetter(c) /\ P!Words(x) # <<>> /\ ~EndsLetter(x)
    <3>0. J(Append(x, c)) = Append(Append(J(x), " "), c) /\ P!Words(Append(x, c)) = Append(P!Words(x), <<c>>)
      BY <2>2, <2>5 DEF JGrows, WGrows
    <3> DEFINE y == Append(J(x), " ")
    <3>1. y \in Seq(Char) /\ " " \in Char /\ ~IsLetter(" ")
      BY <2>3, Literals, AppendIs
    <3>2. WGrows(J(x), " ") /\ ~EndsLetter(y)
      BY <2>3, <3>1, JGrowsThus
    <3>3. P!Words(y) = P!Words(x)
      BY <2>1, <3>1, <3>2 DEF WGrows, JIs
    <3> HIDE DEF y
    <3>4. WGrows(y, c) /\ EndsLetter(Append(y, c))
      BY <2>5, <3>1, JGrowsThus
    <3>5. P!Words(Append(y, c)) = Append(P!Words(x), <<c>>)
      BY <2>5, <3>2, <3>3, <3>4 DEF WGrows
    <3> QED BY <2>1, <3>0, <3>4, <3>5 DEF y, JIs
  <2>6. CASE IsLetter(c) /\ ~(P!Words(x) # <<>> /\ ~EndsLetter(x))
    <3>0. J(Append(x, c)) = Append(J(x), c)
      BY <2>2, <2>6 DEF JGrows
    <3>1. WGrows(J(x), c) /\ EndsLetter(Append(J(x), c))
      BY <2>3, <2>6, JGrowsThus
    <3>2. EndsLetter(J(x)) <=> EndsLetter(x)
      <4>1. EndsLetter(J(x)) => J(x) # <<>>
        BY DEF EndsLetter
      <4> QED BY <2>1, <2>2, <2>3, <2>6, <4>1 DEF JIs
    <3>3. P!Words(Append(J(x), c)) = P!Words(Append(x, c))
      BY <2>1, <2>2, <2>6, <3>1, <3>2 DEF WGrows, JIs
    <3> QED BY <2>1, <3>0, <3>1, <3>3 DEF JIs
  <2> QED BY <2>1, <2>4, <2>5, <2>6
<1> HIDE DEF good
<1>3. \A x \in Seq(Char) : x \in good
  BY <1>1, <1>2, ByCharacters
<1> QED BY <1>3 DEF good

\* The spaced text is that, and a space where the text goes on behind its last
\* word.
SIs(t) == Spacing(t) = IF P!Words(t) = <<>> THEN <<>> ELSE IF EndsLetter(t) THEN J(t) ELSE Append(J(t), " ")
SGrows(t, c) ==
  Spacing(Append(t, c)) = IF IsLetter(c) THEN Append(Spacing(t), c)
                          ELSE IF Spacing(t) = <<>> \/ Last(Spacing(t)) = " " THEN Spacing(t)
                          ELSE Append(Spacing(t), " ")

\* What normalize_reference_text has before it trims: the joined words, and one
\* space where the text does not end in a letter.
LEMMA SpacingIs ==
  ASSUME NEW t \in Seq(Char)
  PROVE  SIs(t)
<1> DEFINE good == {x \in Seq(Char) : SIs(x)}
<1>1. <<>> \in good
  <2>1. <<>> \in Seq(Char)
    OBVIOUS
  <2> QED BY <2>1, NoWords, SpacingTyped DEF SIs
<1>2. ASSUME NEW x \in Seq(Char), NEW c \in Char, x \in good PROVE Append(x, c) \in good
  <2>1. SIs(x) /\ Append(x, c) \in Seq(Char)
    BY <1>2, AppendIs
  <2>2. JGrows(x, c) /\ WGrows(x, c) /\ (EndsLetter(x) => P!Words(x) # <<>>) /\ (EndsLetter(Append(x, c)) <=> IsLetter(c))
    BY JGrowsThus
  <2>3. SGrows(x, c)
    BY SpacingGrows DEF SGrows, Last
  <2>4. J(x) \in Seq(Char) /\ (J(x) = <<>> <=> P!Words(x) = <<>>) /\ JIs(x)
    BY JTyped, JKeepsWords
  <2>5. EndsLetter(Append(x, c)) => P!Words(Append(x, c)) # <<>>
    BY <2>1, WordsTyped DEF EndsLetter, Last
  <2>6. CASE IsLetter(c) /\ P!Words(x) = <<>>
    <3>1. Spacing(x) = J(x)
      BY <2>1, <2>4, <2>6 DEF SIs
    <3> QED BY <2>1, <2>2, <2>3, <2>5, <2>6, <3>1 DEF SGrows, SIs, JGrows
  <2>7. CASE IsLetter(c) /\ P!Words(x) # <<>>
    BY <2>1, <2>2, <2>3, <2>5, <2>7 DEF SGrows, SIs, JGrows
  <2>8. CASE ~IsLetter(c)
    <3>1. P!Words(Append(x, c)) = P!Words(x) /\ J(Append(x, c)) = J(x) /\ ~EndsLetter(Append(x, c))
      BY <2>2, <2>8 DEF JGrows, WGrows
    <3>2. Spacing(Append(x, c)) = IF Spacing(x) = <<>> \/ Last(Spacing(x)) = " " THEN Spacing(x) ELSE Append(Spacing(x), " ")
      BY <2>3, <2>8 DEF SGrows
    <3>3. CASE P!Words(x) = <<>>
      BY <2>1, <3>1, <3>2, <3>3 DEF SIs
    <3>4. CASE P!Words(x) # <<>> /\ EndsLetter(x)
      <4>1. Spacing(x) = J(x)
        BY <2>1, <3>4 DEF SIs
      <4>2. J(x) # <<>> /\ Last(J(x)) # " "
        BY <2>4, <3>4, Literals DEF JIs, EndsLetter
      <4> QED BY <2>1, <3>1, <3>2, <3>4, <4>1, <4>2 DEF SIs
    <3>5. CASE P!Words(x) # <<>> /\ ~EndsLetter(x)
      <4>1. Spacing(x) = Append(J(x), " ")
        BY <2>1, <3>5 DEF SIs
      <4>2. Append(J(x), " ") # <<>> /\ Last(Append(J(x), " ")) = " "
        BY <2>4, Literals, AppendIs
      <4> QED BY <2>1, <3>1, <3>2, <3>5, <4>1, <4>2 DEF SIs
    <3> QED BY <3>3, <3>4, <3>5
  <2> QED BY <2>1, <2>6, <2>7, <2>8
<1> HIDE DEF good
<1>3. \A x \in Seq(Char) : x \in good
  BY <1>1, <1>2, ByCharacters
<1> QED BY <1>3 DEF good

\* normalize_reference_text gives the words of the text, joined with one space.
LEMMA NormalizeIs ==
  ASSUME NEW t \in Seq(Char)
  PROVE  P!normalize(t) = J(t)
<1> DEFINE spaced == Spacing(t)
<1>1. P!normalize(t) = IF spaced # <<>> /\ Last(spaced) = " " THEN SubSeq(spaced, 1, Len(spaced) - 1) ELSE spaced
  BY DEF P!normalize, Spacing, Last
<1>2. SIs(t) /\ J(t) \in Seq(Char) /\ (J(t) = <<>> <=> P!Words(t) = <<>>) /\ JIs(t)
  BY SpacingIs, JTyped, JKeepsWords
<1>3. CASE P!Words(t) = <<>>
  BY <1>1, <1>2, <1>3 DEF SIs
<1>4. CASE P!Words(t) # <<>> /\ EndsLetter(t)
  <2>1. spaced = J(t) /\ Last(J(t)) # " "
    BY <1>2, <1>4, Literals DEF SIs, JIs, EndsLetter
  <2> QED BY <1>1, <2>1
<1>5. CASE P!Words(t) # <<>> /\ ~EndsLetter(t)
  <2>1. spaced = Append(J(t), " ")
    BY <1>2, <1>5 DEF SIs
  <2> DEFINE y == Append(J(t), " ")
  <2>2. y # <<>> /\ Last(y) = " " /\ SubSeq(y, 1, Len(y) - 1) = J(t)
    BY <1>2, Literals, AppendIs
  <2>3. spaced = y
    BY <2>1
  <2> HIDE DEF y, spaced
  <2> QED BY <1>1, <2>2, <2>3
<1> QED BY <1>3, <1>4, <1>5

\* Where a text has another character than a letter its words are those before
\* it and those behind it.
Then(u, v) == u \o v
LEMMA ThenIs ==
  ASSUME NEW S, NEW u \in Seq(S)
  PROVE  /\ Then(u, <<>>) = u
         /\ \A v \in Seq(S) : Then(u, v) \in Seq(S)
         /\ \A v \in Seq(S), c \in S : Then(u, Append(v, c)) = Append(Then(u, v), c)
<1>1. u \o <<>> = u
  OBVIOUS
<1>2. ASSUME NEW v \in Seq(S) PROVE u \o v \in Seq(S)
  OBVIOUS
<1>3. ASSUME NEW v \in Seq(S), NEW c \in S PROVE u \o Append(v, c) = Append(u \o v, c)
  OBVIOUS
<1> QED BY <1>1, <1>2, <1>3 DEF Then

LEMMA ThenWords ==
  ASSUME NEW u \in WordSeq, NEW v \in WordSeq
  PROVE  /\ Then(u, v) \in WordSeq /\ Then(u, <<>>) = u
         /\ \A word \in Seq(Char) \ {<<>>} : Then(u, Append(v, word)) = Append(Then(u, v), word)
         /\ v # <<>> => \A c \in Char : Then(u, P!Longer(v, c)) = P!Longer(Then(u, v), c)
<1> DEFINE S == Seq(Char) \ {<<>>}
<1>1. u \in Seq(S) /\ v \in Seq(S)
  BY DEF WordSeq
<1>2. /\ Then(u, <<>>) = u
      /\ \A w \in Seq(S) : Then(u, w) \in Seq(S)
      /\ \A w \in Seq(S), c \in S : Then(u, Append(w, c)) = Append(Then(u, w), c)
  <2> HIDE DEF S
  <2> QED BY <1>1, ThenIs
<1>3. ASSUME v # <<>>, NEW c \in Char PROVE Then(u, P!Longer(v, c)) = P!Longer(Then(u, v), c)
  <2>1. PICK most \in WordSeq, word \in Seq(Char) \ {<<>>} : v = Append(most, word)
    BY <1>3, SequenceEmptyOrAppend DEF WordSeq
  <2>2. P!Longer(v, c) = Append(most, Append(word, c)) /\ Append(word, c) \in Seq(Char) \ {<<>>}
    <3> HIDE DEF S
    <3>1. P!Longer(Append(most, word), c) = Append(most, Append(word, c)) /\ Append(word, c) \in Seq(Char) \ {<<>>}
      BY LongerIs
    <3> QED BY <2>1, <3>1
  <2>3. most \in Seq(S) /\ Then(u, most) \in WordSeq
    BY <1>2, <2>1 DEF WordSeq
  <2>4. Then(u, v) = Append(Then(u, most), word) /\ Then(u, P!Longer(v, c)) = Append(Then(u, most), Append(word, c))
    BY <1>2, <2>1, <2>2, <2>3
  <2> DEFINE m == Then(u, most)
  <2>5. P!Longer(Append(m, word), c) = Append(m, Append(word, c))
    <3>1. m \in WordSeq
      BY <2>3
    <3> HIDE DEF m
    <3> QED BY <3>1, LongerIs
  <2> QED BY <2>4, <2>5
<1> QED BY <1>1, <1>2, <1>3 DEF WordSeq

KeptApart(x, y) == P!Words(Then(x, y)) = Then(P!Words(x), P!Words(y))

\* The words of two texts that a character keeps apart are those of the first
\* and those of the second.
LEMMA WordsApart ==
  ASSUME NEW x \in Seq(Char), ~EndsLetter(x), NEW y \in Seq(Char)
  PROVE  KeptApart(x, y)
<1> DEFINE good == {t \in Seq(Char) : KeptApart(x, t) /\ (EndsLetter(Then(x, t)) <=> EndsLetter(t))}
<1>0. P!Words(x) \in WordSeq
  BY WordsTyped
<1>1. <<>> \in good
  <2>1. Then(x, <<>>) = x /\ Then(P!Words(x), <<>>) = P!Words(x)
    <3>1. x \in Seq(Char) /\ <<>> \in WordSeq
      BY DEF WordSeq
    <3> QED BY <1>0, <3>1, ThenIs, ThenWords
  <2>2. <<>> \in Seq(Char) /\ ~EndsLetter(<<>>)
    BY DEF EndsLetter
  <2> QED BY <2>1, <2>2, NoWords DEF KeptApart
<1>2. ASSUME NEW t \in Seq(Char), NEW c \in Char, t \in good PROVE Append(t, c) \in good
  <2>1. KeptApart(x, t) /\ (EndsLetter(Then(x, t)) <=> EndsLetter(t)) /\ Append(t, c) \in Seq(Char)
    BY <1>2, AppendIs
  <2> DEFINE z == Then(x, t)
  <2>2. z \in Seq(Char) /\ Then(x, Append(t, c)) = Append(z, c)
    BY ThenIs
  <2> HIDE DEF z
  <2>3. WGrows(z, c) /\ WGrows(t, c) /\ (EndsLetter(t) => P!Words(t) # <<>>)
    BY <2>2, JGrowsThus
  <2>4. (EndsLetter(Append(t, c)) <=> IsLetter(c)) /\ (EndsLetter(Append(z, c)) <=> IsLetter(c))
    BY <2>2, JGrowsThus
  <2>5. P!Words(z) = Then(P!Words(x), P!Words(t)) /\ (EndsLetter(z) <=> EndsLetter(t))
    BY <2>1 DEF z, KeptApart
  <2>6. P!Words(t) \in WordSeq
    BY WordsTyped
  <2>7. <<c>> \in Seq(Char) \ {<<>>}
    OBVIOUS
  <2>8. P!Words(Append(z, c)) = Then(P!Words(x), P!Words(Append(t, c)))
    <3>1. CASE ~IsLetter(c)
      BY <2>3, <2>5, <3>1 DEF WGrows
    <3>2. CASE IsLetter(c) /\ ~EndsLetter(t)
      <4>1. P!Words(Append(z, c)) = Append(P!Words(z), <<c>>) /\ P!Words(Append(t, c)) = Append(P!Words(t), <<c>>)
        BY <2>3, <2>5, <3>2 DEF WGrows
      <4>2. \A word \in Seq(Char) \ {<<>>} :
              Then(P!Words(x), Append(P!Words(t), word)) = Append(Then(P!Words(x), P!Words(t)), word)
        BY <1>0, <2>6, ThenWords
      <4> DEFINE one == <<c>>
      <4>3. one \in Seq(Char) \ {<<>>}
        BY <2>7
      <4> HIDE DEF one
      <4>4. Then(P!Words(x), Append(P!Words(t), one)) = Append(Then(P!Words(x), P!Words(t)), one)
        BY <4>2, <4>3
      <4> QED BY <2>5, <4>1, <4>4 DEF one
    <3>3. CASE IsLetter(c) /\ EndsLetter(t)
      <4>1. P!Words(Append(z, c)) = P!Longer(P!Words(z), c) /\ P!Words(Append(t, c)) = P!Longer(P!Words(t), c)
        BY <2>3, <2>5, <3>3 DEF WGrows
      <4> QED BY <1>0, <2>3, <2>5, <2>6, <3>3, <4>1, ThenWords
    <3> QED BY <3>1, <3>2, <3>3
  <2> QED BY <2>1, <2>2, <2>4, <2>8 DEF KeptApart
<1> HIDE DEF good
<1>3. \A t \in Seq(Char) : t \in good
  BY <1>1, <1>2, ByCharacters
<1> QED BY <1>3 DEF good

\* The same where it is given by its place.
LEMMA SubSeqIs ==
  ASSUME NEW S, NEW t \in Seq(S), NEW i \in 1 .. Len(t) + 1, NEW k \in i - 1 .. Len(t)
  PROVE  /\ SubSeq(t, i, k) \in Seq(S) /\ Len(SubSeq(t, i, k)) = (k + 1) - i
         /\ \A n \in 1 .. (k + 1) - i : SubSeq(t, i, k)[n] = t[(i + n) - 1]
<1>1. i \in Int /\ k \in Int /\ Len(t) \in Nat /\ i <= k + 1
  OBVIOUS
<1>2. \A n \in i .. k : t[n] \in S
  OBVIOUS
<1> QED BY <1>1, <1>2, SubSeqProperties

\* The part of a text from a place on.
LEMMA FromIs ==
  ASSUME NEW S, NEW t \in Seq(S), NEW i \in 1 .. Len(t) + 1
  PROVE  /\ P!From(t, i) \in Seq(S) /\ Len(P!From(t, i)) = (Len(t) + 1) - i
         /\ \A n \in 1 .. (Len(t) + 1) - i : P!From(t, i)[n] = t[(i + n) - 1]
         /\ (P!From(t, i) = <<>> <=> i = Len(t) + 1)
<1>1. Len(t) \in i - 1 .. Len(t) /\ Len(t) \in Nat
  OBVIOUS
<1>2. /\ P!From(t, i) \in Seq(S) /\ Len(P!From(t, i)) = (Len(t) + 1) - i
      /\ \A n \in 1 .. (Len(t) + 1) - i : P!From(t, i)[n] = t[(i + n) - 1]
  BY <1>1, SubSeqIs DEF P!From
<1>3. P!From(t, i) = <<>> <=> Len(P!From(t, i)) = 0
  BY <1>2, EmptySeq
<1> QED BY <1>1, <1>2, <1>3

\* A text is what is before a place and what is from it on.
LEMMA CutAt ==
  ASSUME NEW S, NEW t \in Seq(S), NEW n \in 0 .. Len(t)
  PROVE  t = Then(SubSeq(t, 1, n), P!From(t, n + 1))
<1> DEFINE x == SubSeq(t, 1, n)
           y == P!From(t, n + 1)
<1>0. Len(t) \in Nat /\ n \in Int
  OBVIOUS
<1>1. x \in Seq(S) /\ Len(x) = n /\ \A k \in 1 .. n : x[k] = t[k]
  <2>1. 1 \in 1 .. Len(t) + 1 /\ n \in 1 - 1 .. Len(t) /\ (n + 1) - 1 = n /\ \A k \in 1 .. n : (1 + k) - 1 = k
    BY <1>0
  <2>2. /\ x \in Seq(S) /\ Len(x) = (n + 1) - 1
        /\ \A k \in 1 .. (n + 1) - 1 : x[k] = t[(1 + k) - 1]
    BY <2>1, SubSeqIs
  <2> HIDE DEF x
  <2> QED BY <2>1, <2>2
<1>2. y \in Seq(S) /\ Len(y) = Len(t) - n /\ \A k \in 1 .. Len(t) - n : y[k] = t[n + k]
  <2>1. n + 1 \in 1 .. Len(t) + 1 /\ (Len(t) + 1) - (n + 1) = Len(t) - n
        /\ \A k \in 1 .. Len(t) - n : ((n + 1) + k) - 1 = n + k
    BY <1>0
  <2>2. /\ y \in Seq(S) /\ Len(y) = (Len(t) + 1) - (n + 1)
        /\ \A k \in 1 .. (Len(t) + 1) - (n + 1) : y[k] = t[((n + 1) + k) - 1]
    BY <2>1, FromIs
  <2> HIDE DEF y
  <2> QED BY <2>1, <2>2
<1> HIDE DEF x, y
<1>3. /\ x \o y \in Seq(S) /\ Len(x \o y) = Len(x) + Len(y)
      /\ \A k \in 1 .. Len(x) + Len(y) : (x \o y)[k] = IF k <= Len(x) THEN x[k] ELSE y[k - Len(x)]
  BY <1>1, <1>2, ConcatProperties
<1>4. Len(x \o y) = Len(t)
  BY <1>0, <1>1, <1>2, <1>3
<1>5. ASSUME NEW k \in 1 .. Len(t) PROVE (x \o y)[k] = t[k]
  <2>1. (x \o y)[k] = IF k <= n THEN x[k] ELSE y[k - n]
    BY <1>0, <1>1, <1>2, <1>3
  <2>2. CASE k <= n
    BY <1>1, <2>1, <2>2
  <2>3. CASE ~(k <= n)
    <3>1. k - n \in 1 .. Len(t) - n /\ n + (k - n) = k
      BY <1>0, <2>3
    <3> QED BY <1>2, <2>1, <2>3, <3>1
  <2> QED BY <2>2, <2>3
<1> DEFINE z == x \o y
<1>6. z \in Seq(S) /\ Len(z) = Len(t) /\ \A k \in 1 .. Len(t) : z[k] = t[k]
  BY <1>3, <1>4, <1>5
<1> HIDE DEF z
<1>7. z = t
  BY <1>6, SeqEqual
<1> QED BY <1>7 DEF z, x, y, Then

\* A part of a part.
LEMMA FromFrom ==
  ASSUME NEW S, NEW t \in Seq(S), NEW i \in 1 .. Len(t) + 1, NEW k \in 1 .. (Len(t) + 2) - i
  PROVE  P!From(P!From(t, i), k) = P!From(t, (i + k) - 1) /\ (i + k) - 1 \in 1 .. Len(t) + 1
<1> DEFINE u == P!From(t, i)
           j == (i + k) - 1
           l == Len(t)
<1>0. l \in Nat /\ i \in Int /\ k \in Int /\ j \in 1 .. l + 1 /\ k \in 1 .. ((l + 1) - i) + 1
  OBVIOUS
<1>1. u \in Seq(S) /\ Len(u) = (l + 1) - i /\ \A n \in 1 .. (l + 1) - i : u[n] = t[(i + n) - 1]
  BY FromIs
<1>2. P!From(t, j) \in Seq(S) /\ Len(P!From(t, j)) = (l + 1) - j
      /\ \A n \in 1 .. (l + 1) - j : P!From(t, j)[n] = t[(j + n) - 1]
  BY <1>0, FromIs
<1> HIDE DEF u, l
<1>3. k \in 1 .. Len(u) + 1
  BY <1>0, <1>1
<1>4. P!From(u, k) \in Seq(S) /\ Len(P!From(u, k)) = (Len(u) + 1) - k
      /\ \A n \in 1 .. (Len(u) + 1) - k : P!From(u, k)[n] = u[(k + n) - 1]
  <2>1. u \in Seq(S)
    BY <1>1
  <2> QED BY <1>3, <2>1, FromIs
<1>5. (Len(u) + 1) - k = (l + 1) - j
  BY <1>0, <1>1
<1>6. ASSUME NEW n \in 1 .. (l + 1) - j PROVE P!From(u, k)[n] = P!From(t, j)[n]
  <2>1. (k + n) - 1 \in 1 .. (l + 1) - i /\ (i + ((k + n) - 1)) - 1 = (j + n) - 1
    BY <1>0
  <2>2. P!From(u, k)[n] = u[(k + n) - 1]
    BY <1>4, <1>5
  <2> QED BY <1>1, <1>2, <2>1, <2>2
<1> DEFINE x == P!From(u, k)
           y == P!From(t, j)
<1>7. x \in Seq(S) /\ y \in Seq(S) /\ Len(x) = Len(y) /\ \A n \in 1 .. Len(y) : x[n] = y[n]
  BY <1>2, <1>4, <1>5, <1>6
<1> HIDE DEF x, y
<1>8. x = y
  BY <1>7, SeqEqual
<1> QED BY <1>0, <1>8 DEF x, y, u, l

LEMMA SubSeqGrows ==
  ASSUME NEW S, NEW t \in Seq(S), NEW n \in 1 .. Len(t)
  PROVE  SubSeq(t, 1, n) = Append(SubSeq(t, 1, n - 1), t[n])
<1> DEFINE u == SubSeq(t, 1, n - 1)
<1>0. Len(t) \in Nat /\ n \in Int /\ 1 \in 1 .. Len(t) + 1 /\ n \in 1 - 1 .. Len(t) /\ n - 1 \in 1 - 1 .. Len(t)
      /\ (n + 1) - 1 = n /\ ((n - 1) + 1) - 1 = n - 1 /\ \A k \in 1 .. n : (1 + k) - 1 = k
  OBVIOUS
<1>1. SubSeq(t, 1, n) \in Seq(S) /\ Len(SubSeq(t, 1, n)) = n /\ \A k \in 1 .. n : SubSeq(t, 1, n)[k] = t[k]
  <2>1. /\ SubSeq(t, 1, n) \in Seq(S) /\ Len(SubSeq(t, 1, n)) = (n + 1) - 1
        /\ \A k \in 1 .. (n + 1) - 1 : SubSeq(t, 1, n)[k] = t[(1 + k) - 1]
    BY <1>0, SubSeqIs
  <2> QED BY <1>0, <2>1
<1>2. u \in Seq(S) /\ Len(u) = n - 1 /\ \A k \in 1 .. n - 1 : u[k] = t[k]
  <2>1. /\ u \in Seq(S) /\ Len(u) = ((n - 1) + 1) - 1
        /\ \A k \in 1 .. ((n - 1) + 1) - 1 : u[k] = t[(1 + k) - 1]
    BY <1>0, SubSeqIs
  <2>2. \A k \in 1 .. n - 1 : k \in 1 .. n
    BY <1>0
  <2> QED BY <1>0, <2>1, <2>2
<1> HIDE DEF u
<1>3. t[n] \in S
  OBVIOUS
<1>4. /\ Append(u, t[n]) \in Seq(S) /\ Len(Append(u, t[n])) = n /\ Append(u, t[n])[n] = t[n]
      /\ \A k \in 1 .. n - 1 : Append(u, t[n])[k] = u[k]
  <2>1. (n - 1) + 1 = n
    BY <1>0
  <2> QED BY <1>2, <1>3, <2>1, AppendProperties
<1> DEFINE x == SubSeq(t, 1, n)
           y == Append(u, t[n])
<1>5. \A k \in 1 .. n : x[k] = y[k]
  <2>1. \A k \in 1 .. n : k = n \/ k \in 1 .. n - 1
    BY <1>0
  <2> QED BY <1>1, <1>2, <1>4, <2>1
<1>6. x \in Seq(S) /\ y \in Seq(S) /\ Len(x) = Len(y) /\ \A k \in 1 .. Len(y) : x[k] = y[k]
  BY <1>1, <1>4, <1>5
<1> HIDE DEF x, y
<1>7. x = y
  BY <1>6, SeqEqual
<1> QED BY <1>7 DEF x, y, u

\* The words before and behind a place that is no letter.
LEMMA PartedAt ==
  ASSUME NEW t \in Seq(Char), NEW p \in 1 .. Len(t), ~IsLetter(t[p])
  PROVE  /\ P!Words(t) = Then(P!Words(SubSeq(t, 1, p - 1)), P!Words(P!From(t, p + 1)))
         /\ SubSeq(t, 1, p - 1) \in Seq(Char) /\ P!From(t, p + 1) \in Seq(Char)
<1> DEFINE x == SubSeq(t, 1, p)
           w == SubSeq(t, 1, p - 1)
           y == P!From(t, p + 1)
<1>0. /\ Len(t) \in Nat /\ 1 \in 1 .. Len(t) + 1 /\ p \in 1 - 1 .. Len(t) /\ p - 1 \in 1 - 1 .. Len(t)
      /\ p + 1 \in 1 .. Len(t) + 1 /\ p \in 0 .. Len(t) /\ t[p] \in Char
  OBVIOUS
<1>1. x \in Seq(Char) /\ w \in Seq(Char) /\ y \in Seq(Char)
  BY <1>0, SubSeqIs, FromIs
<1>2. x = Append(w, t[p])
  BY SubSeqGrows
<1>3. t = Then(x, y)
  BY <1>0, CutAt
<1> HIDE DEF x, w, y
<1>4. ~EndsLetter(x) /\ P!Words(x) = P!Words(w)
  <2>1. WGrows(w, t[p]) /\ (EndsLetter(Append(w, t[p])) <=> IsLetter(t[p]))
    BY <1>0, <1>1, JGrowsThus
  <2> QED BY <1>2, <2>1 DEF WGrows
<1>5. KeptApart(x, y)
  BY <1>1, <1>4, WordsApart
<1>6. P!Words(t) = Then(P!Words(w), P!Words(y))
  BY <1>3, <1>4, <1>5 DEF KeptApart
<1> QED BY <1>1, <1>6 DEF w, y

\* A text without letters has no words; in front of others it takes none away.
LEMMA NoLetters ==
  ASSUME NEW t \in Seq(Char), \A i \in 1 .. Len(t) : ~IsLetter(t[i])
  PROVE  P!Words(t) = <<>>
<1> DEFINE f == P!WordsUpTo(t)
           l == Len(t)
           good == {k \in 0 .. l : f[k] = <<>>}
<1>1. f[0] = <<>> /\ (\A k \in 1 .. l : f[k] = WordsThen(f[k - 1], t, k)) /\ l \in Nat
  BY WordsAre
<1>2. \A k \in 1 .. l : ~IsLetter(t[k])
  OBVIOUS
<1>3. P!Words(t) = f[l]
  BY DEF P!Words
<1> HIDE DEF f, l
<1>4. 0 \in good
  BY <1>1
<1>5. ASSUME NEW k \in 1 .. l, k - 1 \in good PROVE k \in good
  <2>1. f[k - 1] = <<>> /\ k \in 0 .. l
    BY <1>1, <1>5
  <2>2. f[k] = WordsThen(f[k - 1], t, k) /\ ~IsLetter(t[k])
    BY <1>1, <1>2
  <2>3. f[k] = <<>>
    BY <2>1, <2>2 DEF WordsThen
  <2> QED BY <2>1, <2>3
<1> HIDE DEF good
<1>6. \A k \in 0 .. l : k \in good
  BY <1>1, <1>4, <1>5, ByCount
<1>7. f[l] = <<>>
  BY <1>1, <1>6 DEF good
<1> QED BY <1>3, <1>7

\* What is no letter at the start of a text adds no words.
LEMMA WordsPast ==
  ASSUME NEW t \in Seq(Char), NEW n \in 0 .. Len(t), \A i \in 1 .. n : ~IsLetter(t[i])
  PROVE  P!Words(P!From(t, n + 1)) = P!Words(t)
<1>0. Len(t) \in Nat
  OBVIOUS
<1>1. CASE n = 0
  <2>1. P!From(t, n + 1) = t
    <3>1. SubSeq(t, 1, Len(t)) = t
      OBVIOUS
    <3> QED BY <1>1, <3>1 DEF P!From
  <2> QED BY <2>1
<1>2. CASE n # 0
  <2>1. n \in 1 .. Len(t) /\ ~IsLetter(t[n])
    BY <1>0, <1>2
  <2> DEFINE w == SubSeq(t, 1, n - 1)
  <2>2. P!Words(t) = Then(P!Words(w), P!Words(P!From(t, n + 1))) /\ w \in Seq(Char) /\ P!From(t, n + 1) \in Seq(Char)
    BY <2>1, PartedAt
  <2>3. Len(w) = n - 1 /\ \A k \in 1 .. n - 1 : w[k] = t[k]
    <3>1. 1 \in 1 .. Len(t) + 1 /\ n - 1 \in 1 - 1 .. Len(t) /\ ((n - 1) + 1) - 1 = n - 1
          /\ \A k \in 1 .. n - 1 : (1 + k) - 1 = k
      BY <1>0, <2>1
    <3>2. Len(w) = ((n - 1) + 1) - 1 /\ \A k \in 1 .. ((n - 1) + 1) - 1 : w[k] = t[(1 + k) - 1]
      BY <3>1, SubSeqIs
    <3> QED BY <3>1, <3>2
  <2> HIDE DEF w
  <2>4. P!Words(w) = <<>>
    <3>1. \A k \in 1 .. Len(w) : ~IsLetter(w[k])
      BY <1>0, <2>3
    <3> QED BY <2>2, <3>1, NoLetters
  <2> DEFINE v == P!Words(P!From(t, n + 1))
  <2>5. v \in WordSeq
    BY <2>2, WordsTyped
  <2> HIDE DEF v
  <2>6. Then(<<>>, v) = v
    BY <2>5 DEF Then, WordSeq
  <2> QED BY <2>2, <2>4, <2>6 DEF v
<1> QED BY <1>1, <1>2

\* The first word of a text that begins with one of one letter.
LEMMA OneLetter ==
  ASSUME NEW c \in Char, IsLetter(c)
  PROVE  P!Words(<<c>>) = <<<<c>>>>
<1>1. WGrows(<<>>, c) /\ ~EndsLetter(<<>>)
  <2>1. <<>> \in Seq(Char)
    OBVIOUS
  <2> QED BY <2>1, JGrowsThus DEF EndsLetter
<1>2. P!Words(Append(<<>>, c)) = Append(<<>>, <<c>>)
  BY <1>1, NoWords DEF WGrows
<1>3. Append(<<>>, c) = <<c>>
  BY Single
<1>4. Append(<<>>, <<c>>) = <<<<c>>>>
  OBVIOUS
<1> QED BY <1>2, <1>3, <1>4

\* A text that begins with one letter alone has it as its first word.
LEMMA FirstWord ==
  ASSUME NEW t \in Seq(Char), t # <<>>, IsLetter(t[1]), Len(t) = 1 \/ ~IsLetter(t[2])
  PROVE  /\ P!Words(t) = Then(<<<<t[1]>>>>, P!Words(P!From(t, 2)))
         /\ Len(t) >= 2 => P!Words(P!From(t, 2)) = P!Words(P!From(t, 3)) /\ P!From(t, 3) \in Seq(Char)
         /\ P!From(t, 2) \in Seq(Char)
<1>0. Len(t) \in Nat /\ Len(t) >= 1 /\ t[1] \in Char
  <2>1. Len(t) # 0
    BY EmptySeq
  <2> QED BY <2>1
<1>1. P!From(t, 2) \in Seq(Char) /\ (P!From(t, 2) = <<>> <=> Len(t) = 1)
      /\ Len(P!From(t, 2)) = Len(t) - 1 /\ (Len(t) >= 2 => P!From(t, 2)[1] = t[2])
  <2>1. 2 \in 1 .. Len(t) + 1 /\ (Len(t) + 1) - 2 = Len(t) - 1 /\ (2 = Len(t) + 1 <=> Len(t) = 1)
        /\ (Len(t) >= 2 => 1 \in 1 .. (Len(t) + 1) - 2) /\ (2 + 1) - 1 = 2
    <3> DEFINE l == Len(t)
    <3>1. l \in Nat /\ l >= 1
      BY <1>0
    <3> HIDE DEF l
    <3>2. 2 \in 1 .. l + 1 /\ (l + 1) - 2 = l - 1
      BY <3>1
    <3>3. 2 = l + 1 <=> l = 1
      BY <3>1
    <3>4. l >= 2 => 1 \in 1 .. (l + 1) - 2
      BY <3>1
    <3>5. (2 + 1) - 1 = 2
      OBVIOUS
    <3> QED BY <3>2, <3>3, <3>4, <3>5 DEF l
  <2>2. P!From(t, 2) \in Seq(Char) /\ (P!From(t, 2) = <<>> <=> 2 = Len(t) + 1)
        /\ Len(P!From(t, 2)) = (Len(t) + 1) - 2 /\ \A n \in 1 .. (Len(t) + 1) - 2 : P!From(t, 2)[n] = t[(2 + n) - 1]
    BY <2>1, FromIs
  <2> QED BY <2>1, <2>2
<1>2. SubSeq(t, 1, 1) = <<t[1]>>
  <2>1. SubSeq(t, 1, 1) = Append(SubSeq(t, 1, 1 - 1), t[1])
    <3>1. 1 \in 1 .. Len(t)
      BY <1>0
    <3> QED BY <3>1, SubSeqGrows
  <2>2. SubSeq(t, 1, 1 - 1) = <<>>
    <3>1. 1 \in 1 .. Len(t) + 1 /\ 0 \in 1 - 1 .. Len(t)
      BY <1>0
    <3>2. SubSeq(t, 1, 0) \in Seq(Char) /\ Len(SubSeq(t, 1, 0)) = (0 + 1) - 1
      BY <3>1, SubSeqIs
    <3>3. SubSeq(t, 1, 0) = <<>>
      BY <3>2, EmptySeq
    <3> QED BY <3>3
  <2> QED BY <1>0, <2>1, <2>2, Single
<1>3. P!Words(<<t[1]>>) = <<<<t[1]>>>>
  BY <1>0, OneLetter
<1>4. CASE Len(t) = 1
  <2>1. t = <<t[1]>>
    BY <1>2, <1>4
  <2>2. P!Words(P!From(t, 2)) = <<>>
    BY <1>1, <1>4, NoWords
  <2>3. Then(<<<<t[1]>>>>, <<>>) = <<<<t[1]>>>>
    BY DEF Then
  <2>4. P!Words(t) = <<<<t[1]>>>>
    BY <1>3, <2>1
  <2> QED BY <1>1, <1>4, <2>2, <2>3, <2>4
<1>5. CASE Len(t) >= 2
  <2>1. 2 \in 1 .. Len(t) /\ ~IsLetter(t[2]) /\ 2 - 1 = 1 /\ 2 + 1 = 3
    BY <1>0, <1>5
  <2>2. P!Words(t) = Then(P!Words(SubSeq(t, 1, 1)), P!Words(P!From(t, 3))) /\ P!From(t, 3) \in Seq(Char)
    <3>1. /\ P!Words(t) = Then(P!Words(SubSeq(t, 1, 2 - 1)), P!Words(P!From(t, 2 + 1)))
          /\ P!From(t, 2 + 1) \in Seq(Char)
      BY <2>1, PartedAt
    <3> QED BY <2>1, <3>1
  <2>3. P!From(P!From(t, 2), 2) = P!From(t, 3)
    <3>1. 2 \in 1 .. Len(t) + 1 /\ 2 \in 1 .. (Len(t) + 2) - 2 /\ (2 + 2) - 1 = 3
      BY <1>0, <1>5
    <3>2. P!From(P!From(t, 2), 2) = P!From(t, (2 + 2) - 1)
      BY <3>1, FromFrom
    <3> QED BY <3>1, <3>2
  <2>4. P!Words(P!From(P!From(t, 2), 2)) = P!Words(P!From(t, 2))
    <3> DEFINE u == P!From(t, 2)
    <3>1. u \in Seq(Char) /\ 1 \in 0 .. Len(u) /\ (\A i \in 1 .. 1 : ~IsLetter(u[i])) /\ 1 + 1 = 2
      BY <1>0, <1>1, <1>5, <2>1
    <3> HIDE DEF u
    <3>2. P!Words(P!From(u, 1 + 1)) = P!Words(u)
      BY <3>1, WordsPast
    <3> QED BY <3>1, <3>2 DEF u
  <2> QED BY <1>1, <1>2, <1>3, <2>2, <2>3, <2>4
<1> QED BY <1>0, <1>4, <1>5

\* How far eql comes is how far the words of the name with their spaces are the
\* beginning of the part.
Heads(x, part) == Len(x) <= Len(part) /\ \A i \in 1 .. Len(x) : part[i] = x[i]
LEMMA HeadsGrow ==
  ASSUME NEW x \in Seq(Char), NEW c \in Char, NEW part \in Seq(Char)
  PROVE  Heads(Append(x, c), part) <=> Heads(x, part) /\ Len(x) < Len(part) /\ part[Len(x) + 1] = c
<1> DEFINE y == Append(x, c)
           n == Len(x)
<1>1. Len(y) = n + 1 /\ y[n + 1] = c /\ (\A k \in 1 .. n : y[k] = x[k]) /\ n \in Nat /\ Len(part) \in Nat
  BY AppendProperties
<1>2. \A k \in 1 .. n + 1 : k = n + 1 \/ k \in 1 .. n
  BY <1>1
<1>3. \A k \in 1 .. n : k \in 1 .. n + 1
  BY <1>1
<1> HIDE DEF y, n
<1>4. Heads(y, part) <=> (n + 1 <= Len(part) /\ (\A k \in 1 .. n : part[k] = x[k]) /\ part[n + 1] = c)
  <2>1. n + 1 \in 1 .. n + 1
    BY <1>1
  <2> QED BY <1>1, <1>2, <1>3, <2>1 DEF Heads
<1>5. Heads(x, part) <=> (n <= Len(part) /\ \A k \in 1 .. n : part[k] = x[k])
  BY DEF Heads, n
<1>6. n + 1 <= Len(part) <=> n < Len(part) /\ n <= Len(part)
  BY <1>1
<1> QED BY <1>4, <1>5, <1>6 DEF y, n

FarIs(x, part) == Far(x, part) = IF Heads(J(x), part) THEN Len(J(x)) ELSE P!Unlike

\* How far normalized_reference_text_eql comes in a part: to the end of what
\* the words of the name are in it.
LEMMA FarIsThis ==
  ASSUME NEW name \in Seq(Char), NEW part \in Seq(Char)
  PROVE  FarIs(name, part)
<1> DEFINE good == {x \in Seq(Char) : FarIs(x, part)}
<1>1. <<>> \in good
  <2>1. <<>> \in Seq(Char)
    OBVIOUS
  <2>2. J(<<>>) = <<>>
    BY <2>1, NoWords, JTyped
  <2>3. Far(<<>>, part) = 0
    <3>1. Len(<<>>) = 0
      OBVIOUS
    <3> QED BY <2>1, <3>1, DoneAre DEF Far
  <2>4. Heads(<<>>, part) /\ Len(<<>>) = 0
    BY DEF Heads
  <2> QED BY <2>1, <2>2, <2>3, <2>4 DEF FarIs
<1>2. ASSUME NEW x \in Seq(Char), NEW c \in Char, x \in good PROVE Append(x, c) \in good
  <2>1. FarIs(x, part) /\ Append(x, c) \in Seq(Char)
    BY <1>2, AppendIs
  <2> DEFINE far == Far(x, part)
             skip == IF far > 0 /\ ~IsLetter(x[Len(x)]) THEN 1 ELSE 0
             j == J(x)
             n == Len(j)
  <2>2. Far(Append(x, c), part) =
          IF far = P!Unlike \/ ~IsLetter(c) THEN far
          ELSE IF P!GoesOn(c, part, far, skip) THEN far + skip + 1 ELSE P!Unlike
    BY DoneGrows
  <2>3. JGrows(x, c)
    BY JGrowsThus
  <2>4. j \in Seq(Char) /\ n \in Nat /\ (j = <<>> <=> P!Words(x) = <<>>) /\ (n = 0 <=> j = <<>>)
    BY JTyped
  <2>5. far = IF Heads(j, part) THEN n ELSE P!Unlike
    BY <2>1 DEF FarIs
  <2>6. x = <<>> => P!Words(x) = <<>>
    BY NoWords
  <2>7. n > 0 => (EndsLetter(x) <=> IsLetter(x[Len(x)]))
    BY <2>4, <2>6 DEF EndsLetter, Last
  <2> HIDE DEF j
  <2>8. Heads(Append(j, c), part) <=> Heads(j, part) /\ n < Len(part) /\ part[n + 1] = c
    BY <2>4, HeadsGrow
  <2>9. Heads(Append(Append(j, " "), c), part)
          <=> Heads(j, part) /\ n < Len(part) /\ part[n + 1] = " " /\ n + 1 < Len(part) /\ part[n + 2] = c
    <3> DEFINE y == Append(j, " ")
    <3>0. " " \in Char /\ (n + 1) + 1 = n + 2
      <4>1. (n + 1) + 1 = n + 2
        BY <2>4
      <4> QED BY <4>1, Literals
    <3>1. y \in Seq(Char) /\ Len(y) = n + 1
      BY <2>4, <3>0, AppendIs
    <3>2. Heads(y, part) <=> Heads(j, part) /\ n < Len(part) /\ part[n + 1] = " "
      BY <2>4, <3>0, HeadsGrow
    <3> HIDE DEF y
    <3>3. Heads(Append(y, c), part) <=> Heads(y, part) /\ n + 1 < Len(part) /\ part[n + 2] = c
      <4>1. Heads(Append(y, c), part) <=> Heads(y, part) /\ Len(y) < Len(part) /\ part[Len(y) + 1] = c
        BY <3>1, HeadsGrow
      <4> QED BY <3>0, <3>1, <4>1
    <3> QED BY <3>2, <3>3 DEF y
  <2>10. Len(Append(j, c)) = n + 1 /\ Len(Append(Append(j, " "), c)) = n + 2
    <3> DEFINE y == Append(j, " ")
    <3>0. " " \in Char /\ (n + 1) + 1 = n + 2
      <4>1. (n + 1) + 1 = n + 2
        BY <2>4
      <4> QED BY <4>1, Literals
    <3>1. y \in Seq(Char) /\ Len(y) = n + 1
      BY <2>4, <3>0, AppendIs
    <3> HIDE DEF y
    <3>2. Len(Append(y, c)) = (n + 1) + 1
      BY <3>1, AppendIs
    <3>3. Len(Append(j, c)) = n + 1
      BY <2>4, AppendIs
    <3> QED BY <3>0, <3>2, <3>3 DEF y
  <2>11. P!Unlike = 0 - 1 /\ Len(part) \in Nat
    BY DEF P!Unlike
  <2> HIDE DEF far, n
  <2>12. CASE ~IsLetter(c)
    BY <2>1, <2>2, <2>3, <2>5, <2>12 DEF FarIs, JGrows, j, n
  <2>13. CASE IsLetter(c) /\ ~Heads(j, part)
    BY <2>1, <2>2, <2>3, <2>5, <2>8, <2>9, <2>13 DEF FarIs, JGrows, j
  <2>14. CASE IsLetter(c) /\ Heads(j, part) /\ P!Words(x) # <<>> /\ ~EndsLetter(x)
    <3>1. far = n /\ n > 0 /\ skip = 1 /\ far # P!Unlike
      BY <2>4, <2>5, <2>7, <2>11, <2>14
    <3>2. J(Append(x, c)) = Append(Append(j, " "), c)
      BY <2>3, <2>14 DEF JGrows, j
    <3>3. P!GoesOn(c, part, n, 1) <=> n < Len(part) /\ part[n + 1] = " " /\ n + 1 < Len(part) /\ part[n + 2] = c
      <4>1. (n + 1) + 1 = n + 2
        BY <2>4
      <4> QED BY <4>1 DEF P!GoesOn
    <3>4. Far(Append(x, c), part) = IF P!GoesOn(c, part, n, 1) THEN n + 2 ELSE P!Unlike
      <4>1. n + 1 + 1 = n + 2
        BY <2>4
      <4> HIDE DEF skip
      <4> QED BY <2>2, <2>14, <3>1, <4>1
    <3> QED BY <2>1, <2>9, <2>10, <2>14, <3>2, <3>3, <3>4 DEF FarIs
  <2>15. CASE IsLetter(c) /\ Heads(j, part) /\ ~(P!Words(x) # <<>> /\ ~EndsLetter(x))
    <3>1. far = n /\ skip = 0 /\ far # P!Unlike
      BY <2>4, <2>5, <2>7, <2>11, <2>15
    <3>2. J(Append(x, c)) = Append(j, c)
      BY <2>3, <2>15 DEF JGrows, j
    <3>3. P!GoesOn(c, part, n, 0) <=> n < Len(part) /\ part[n + 1] = c
      <4>1. n + 0 = n
        BY <2>4
      <4> QED BY <4>1 DEF P!GoesOn
    <3>4. Far(Append(x, c), part) = IF P!GoesOn(c, part, n, 0) THEN n + 1 ELSE P!Unlike
      <4>1. n + 0 + 1 = n + 1
        BY <2>4
      <4> HIDE DEF skip
      <4> QED BY <2>2, <2>15, <3>1, <4>1
    <3> QED BY <2>1, <2>8, <2>10, <2>15, <3>2, <3>3, <3>4 DEF FarIs
  <2> QED BY <2>12, <2>13, <2>14, <2>15
<1> HIDE DEF good
<1>3. \A x \in Seq(Char) : x \in good
  BY <1>1, <1>2, ByCharacters
<1> QED BY <1>3 DEF good

\* normalized_reference_text_eql says that the part is the words of the name,
\* joined with one space.
LEMMA EqlIs ==
  ASSUME NEW name \in Seq(Char), NEW part \in Seq(Char)
  PROVE  P!eql(name, part) <=> part = J(name)
<1> DEFINE j == J(name)
<1>1. P!eql(name, part) <=> (IF Heads(j, part) THEN Len(j) ELSE P!Unlike) = Len(part)
  BY FarIsThis DEF P!eql, Far, FarIs
<1>2. j \in Seq(Char) /\ Len(j) \in Nat /\ Len(part) \in Nat /\ P!Unlike = 0 - 1
  BY JTyped DEF P!Unlike
<1> HIDE DEF j
<1>3. part = j => Heads(j, part) /\ Len(j) = Len(part)
  BY <1>2 DEF Heads
<1>4. Heads(j, part) /\ Len(j) = Len(part) => part = j
  <2> HAVE Heads(j, part) /\ Len(j) = Len(part)
  <2>1. \A i \in 1 .. Len(part) : part[i] = j[i]
    BY DEF Heads
  <2> QED BY <1>2, <2>1, SeqEqual
<1> QED BY <1>1, <1>2, <1>3, <1>4 DEF j

\* The two parts of a sequence.
LEMMA ThenParts ==
  ASSUME NEW S, NEW u \in Seq(S), NEW v \in Seq(S)
  PROVE  /\ Then(u, v) \in Seq(S) /\ Len(Then(u, v)) = Len(u) + Len(v) /\ Len(u) \in Nat /\ Len(v) \in Nat
         /\ \A i \in 1 .. Len(u) : Then(u, v)[i] = u[i]
         /\ \A i \in 1 .. Len(v) : Then(u, v)[Len(u) + i] = v[i]
<1> DEFINE t == u \o v
<1>1. Len(u) \in Nat /\ Len(v) \in Nat
  OBVIOUS
<1>2. /\ t \in Seq(S) /\ Len(t) = Len(u) + Len(v)
      /\ \A i \in 1 .. Len(u) + Len(v) : t[i] = IF i <= Len(u) THEN u[i] ELSE v[i - Len(u)]
  BY ConcatProperties
<1> DEFINE l == Len(u)
           m == Len(v)
<1> HIDE DEF t, l, m
<1>3. ASSUME NEW i \in 1 .. l PROVE t[i] = u[i]
  <2>1. i \in 1 .. l + m /\ i <= l
    BY <1>1 DEF l, m
  <2> QED BY <1>2, <2>1 DEF l, m
<1>4. ASSUME NEW i \in 1 .. m PROVE t[l + i] = v[i]
  <2>1. l + i \in 1 .. l + m /\ ~(l + i <= l) /\ (l + i) - l = i
    BY <1>1 DEF l, m
  <2>2. t[l + i] = IF l + i <= l THEN u[l + i] ELSE v[(l + i) - l]
    BY <1>2, <2>1 DEF l, m
  <2> QED BY <2>1, <2>2
<1> QED BY <1>1, <1>2, <1>3, <1>4 DEF t, l, m, Then

LEMMA ThenFrom ==
  ASSUME NEW S, NEW u \in Seq(S), NEW v \in Seq(S)
  PROVE  P!From(Then(u, v), Len(u) + 1) = v /\ SubSeq(Then(u, v), 1, Len(u)) = u
<1> DEFINE t == Then(u, v)
           l == Len(u)
           m == Len(v)
           j == l + 1
           x == P!From(t, j)
           y == SubSeq(t, 1, l)
<1>1. /\ t \in Seq(S) /\ Len(t) = l + m /\ l \in Nat /\ m \in Nat
      /\ (\A i \in 1 .. l : t[i] = u[i]) /\ \A i \in 1 .. m : t[l + i] = v[i]
  <2>1. Then(u, v) \in Seq(S) /\ Len(Then(u, v)) = Len(u) + Len(v) /\ Len(u) \in Nat /\ Len(v) \in Nat
    BY ThenParts
  <2>2. \A i \in 1 .. Len(u) : Then(u, v)[i] = u[i]
    BY ThenParts
  <2>3. \A i \in 1 .. Len(v) : Then(u, v)[Len(u) + i] = v[i]
    BY ThenParts
  <2> QED BY <2>1, <2>2, <2>3, Zenon
<1> HIDE DEF t, l, m, j
<1>2. x \in Seq(S) /\ Len(x) = m /\ \A i \in 1 .. m : x[i] = v[i]
  <2>1. j \in 1 .. Len(t) + 1
    BY <1>1 DEF j
  <2>2. t \in Seq(S)
    BY <1>1
  <2>3. /\ x \in Seq(S) /\ Len(x) = (Len(t) + 1) - j
        /\ \A i \in 1 .. (Len(t) + 1) - j : x[i] = t[(j + i) - 1]
    BY <2>1, <2>2, FromIs
  <2>4. (Len(t) + 1) - j = m /\ \A i \in 1 .. m : (j + i) - 1 = l + i
    BY <1>1 DEF j
  <2> HIDE DEF x
  <2> QED BY <1>1, <2>3, <2>4
<1>3. y \in Seq(S) /\ Len(y) = l /\ \A i \in 1 .. l : y[i] = u[i]
  <2>1. 1 \in 1 .. Len(t) + 1 /\ l \in 1 - 1 .. Len(t) /\ (l + 1) - 1 = l /\ \A i \in 1 .. l : (1 + i) - 1 = i
    BY <1>1
  <2>2. t \in Seq(S)
    BY <1>1
  <2>3. /\ y \in Seq(S) /\ Len(y) = (l + 1) - 1
        /\ \A i \in 1 .. (l + 1) - 1 : y[i] = t[(1 + i) - 1]
    BY <2>1, <2>2, SubSeqIs
  <2> QED BY <1>1, <2>1, <2>3
<1> HIDE DEF x, y
<1>4. x = v
  BY <1>2, SeqEqual DEF m
<1>5. y = u
  BY <1>3, SeqEqual DEF l
<1> QED BY <1>4, <1>5 DEF x, y, t, l, j

\* The two parts of a text of words.
LEMMA JoinParts ==
  ASSUME NEW words \in WordSeq, words # <<>>, NEW others \in WordSeq, others # <<>>
  PROVE  Join(Then(words, others)) = Then(Append(Join(words), " "), Join(others))
<1> DEFINE x == Join(words)
           y == Join(words \o others)
           z == Join(others)
<1>1. y = (x \o <<" ">>) \o z
  BY JoinConcat
<1>2. x \in Seq(Char) /\ " " \in Char
  BY JoinTyped, Literals
<1> HIDE DEF x, y, z
<1>3. x \o <<" ">> = Append(x, " ")
  BY <1>2, Single
<1> QED BY <1>1, <1>3 DEF Then, x, y, z

LEMMA WordIs ==
  ASSUME NEW c \in Char
  PROVE  <<<<c>>>> \in WordSeq /\ <<<<c>>>> # <<>> /\ Len(<<<<c>>>>) = 1 /\ <<<<c>>>>[1] = <<c>> /\ Join(<<<<c>>>>) = <<c>>
<1>1. <<c>> \in Seq(Char) \ {<<>>} /\ <<>> \in WordSeq
  BY DEF WordSeq
<1>2. <<<<c>>>> = Append(<<>>, <<c>>)
  OBVIOUS
<1>3. Join(Append(<<>>, <<c>>)) = <<c>> /\ Append(<<>>, <<c>>) \in WordSeq
  BY <1>1, JoinGrows, OneWordMore
<1> QED BY <1>2, <1>3

WordsFrom(words, c) == words # <<>> /\ words[1] = <<c>>

\* Words with the first one apart.
LEMMA CutFirst ==
  ASSUME NEW words \in WordSeq, NEW c \in Char, WordsFrom(words, c)
  PROVE  /\ words = Then(<<<<c>>>>, P!From(words, 2)) /\ P!From(words, 2) \in WordSeq
         /\ (P!From(words, 2) = <<>> <=> Len(words) = 1) /\ Len(words) \in Nat /\ Len(words) >= 1
<1> DEFINE S == Seq(Char) \ {<<>>}
<1>1. words \in Seq(S) /\ words # <<>> /\ words[1] = <<c>> /\ <<c>> \in S
  BY DEF WordSeq, WordsFrom
<1> HIDE DEF S
<1>2. Len(words) \in Nat /\ Len(words) >= 1
  <2>1. Len(words) \in Nat /\ Len(words) # 0
    BY <1>1, EmptySeq
  <2> QED BY <2>1
<1>3. 1 \in 0 .. Len(words) /\ 1 \in 1 .. Len(words) /\ 2 \in 1 .. Len(words) + 1 /\ 1 + 1 = 2
  BY <1>2
<1>4. words = Then(SubSeq(words, 1, 1), P!From(words, 1 + 1))
  BY <1>1, <1>3, CutAt
<1>5. SubSeq(words, 1, 1) = <<<<c>>>>
  <2>1. SubSeq(words, 1, 1) = Append(SubSeq(words, 1, 1 - 1), words[1])
    BY <1>1, <1>3, SubSeqGrows
  <2>5. 1 - 1 = 0
    OBVIOUS
  <2>2. SubSeq(words, 1, 0) = <<>>
    <3>1. 1 \in 1 .. Len(words) + 1 /\ 0 \in 1 - 1 .. Len(words)
      BY <1>2
    <3>2. SubSeq(words, 1, 0) \in Seq(S) /\ Len(SubSeq(words, 1, 0)) = (0 + 1) - 1
      BY <1>1, <3>1, SubSeqIs
    <3> QED BY <3>2, EmptySeq
  <2> DEFINE w == <<c>>
  <2>3. w \in S /\ words[1] = w
    BY <1>1
  <2> HIDE DEF w
  <2>4. Append(<<>>, w) = <<w>>
    BY <2>3, Single
  <2>6. SubSeq(words, 1, 1) = Append(<<>>, w)
    BY <2>1, <2>2, <2>3, <2>5
  <2> QED BY <2>4, <2>6 DEF w
<1>6. P!From(words, 2) \in Seq(S) /\ (P!From(words, 2) = <<>> <=> 2 = Len(words) + 1)
  BY <1>1, <1>3, FromIs
<1>7. 2 = Len(words) + 1 <=> Len(words) = 1
  <2> DEFINE l == Len(words)
  <2>1. l \in Nat
    BY <1>2
  <2> HIDE DEF l
  <2>2. 2 = l + 1 <=> l = 1
    BY <2>1
  <2> QED BY <2>2 DEF l
<1> QED BY <1>2, <1>3, <1>4, <1>5, <1>6, <1>7 DEF S, WordSeq

JoinedFrom(words, t, c) ==
  /\ t # <<>> /\ t[1] = c
  /\ Len(words) = 1 => t = <<c>>
  /\ Len(words) >= 2 => Len(t) >= 2 /\ t[2] = " " /\ P!From(t, 3) = Join(P!From(words, 2))

\* The joined text of words with the first one apart.
LEMMA JoinFirst ==
  ASSUME NEW words \in WordSeq, NEW c \in Char, WordsFrom(words, c)
  PROVE  JoinedFrom(words, Join(words), c)
<1> DEFINE one == <<<<c>>>>
           rest == P!From(words, 2)
           x == Append(<<c>>, " ")
           y == Join(rest)
<1>1. /\ words = Then(one, rest) /\ rest \in WordSeq
      /\ (rest = <<>> <=> Len(words) = 1) /\ Len(words) \in Nat /\ Len(words) >= 1
  BY CutFirst
<1>2. one \in WordSeq /\ one # <<>> /\ Join(one) = <<c>>
  BY WordIs
<1>3. CASE Len(words) = 1
  <2>1. Then(one, <<>>) = one
    BY <1>2, ThenWords, <1>1
  <2>2. Join(words) = <<c>>
    BY <1>1, <1>2, <1>3, <2>1
  <2>3. <<c>> # <<>> /\ <<c>>[1] = c
    OBVIOUS
  <2> QED BY <1>3, <2>2, <2>3 DEF JoinedFrom
<1>4. CASE Len(words) # 1
  <2>1. Join(words) = Then(x, y) /\ y \in Seq(Char)
    <3>1. rest # <<>>
      BY <1>1, <1>4
    <3> HIDE DEF one, rest
    <3>2. Join(Then(one, rest)) = Then(Append(Join(one), " "), Join(rest)) /\ Join(rest) \in Seq(Char)
      BY <1>1, <1>2, <3>1, JoinParts, JoinTyped
    <3> QED BY <1>1, <1>2, <3>2
  <2>2. x \in Seq(Char) /\ Len(x) = 2 /\ x[1] = c /\ x[2] = " "
    <3> DEFINE space == " "
    <3>1. space \in Char
      BY Literals
    <3> HIDE DEF space
    <3>2. Append(<<c>>, space) \in Seq(Char) /\ Len(Append(<<c>>, space)) = 2
          /\ Append(<<c>>, space)[1] = c /\ Append(<<c>>, space)[2] = space
      BY <3>1
    <3> QED BY <3>2 DEF space
  <2> HIDE DEF x, y
  <2>3. /\ Then(x, y) \in Seq(Char) /\ Len(Then(x, y)) = Len(x) + Len(y) /\ Len(y) \in Nat
        /\ \A i \in 1 .. Len(x) : Then(x, y)[i] = x[i]
    BY <2>1, <2>2, ThenParts
  <2>4. P!From(Then(x, y), Len(x) + 1) = y
    BY <2>1, <2>2, ThenFrom
  <2>5. Len(Then(x, y)) >= 2 /\ Then(x, y)[1] = c /\ Then(x, y)[2] = " " /\ P!From(Then(x, y), 3) = y
    <3>1. 1 \in 1 .. 2 /\ 2 \in 1 .. 2 /\ 2 + 1 = 3 /\ 2 + Len(y) >= 2
      BY <2>3
    <3> QED BY <2>2, <2>3, <2>4, <3>1
  <2>6. Then(x, y) # <<>>
    <3> DEFINE n == Len(Then(x, y))
    <3>1. n >= 2
      BY <2>5
    <3> HIDE DEF n
    <3>2. n # 0
      BY <3>1
    <3>3. Then(x, y) = <<>> => n = 0
      BY DEF n
    <3> QED BY <3>2, <3>3
  <2> QED BY <1>4, <2>1, <2>5, <2>6 DEF JoinedFrom, y
<1> QED BY <1>3, <1>4

\* A text that is its words with spaces begins with a word of one letter and
\* another one as its words do, and what is behind that is such a text.
Proper(t) == t \in Seq(Char) /\ t = Join(P!Words(t))
TextBegins(t, c) == Len(t) >= 2 /\ t[1] = c /\ t[2] = " "
WordsBegin(words, c) == Len(words) >= 2 /\ words[1] = <<c>>

\* A normalized text begins with a word and a space where its words begin with
\* that word and go on.
LEMMA BeginAlike ==
  ASSUME NEW t, Proper(t), NEW c \in Char, IsLetter(c)
  PROVE  /\ TextBegins(t, c) <=> WordsBegin(P!Words(t), c)
         /\ TextBegins(t, c) => /\ P!Words(P!From(t, 3)) = P!From(P!Words(t), 2)
                                /\ Proper(P!From(t, 3))
<1> DEFINE w == P!Words(t)
           f == P!From(t, 3)
<1>1. t \in Seq(Char) /\ t = Join(w) /\ w \in WordSeq /\ Len(t) \in Nat
  BY WordsTyped DEF Proper
<1>2. ASSUME TextBegins(t, c) PROVE f \in Seq(Char) /\ w = Then(<<<<c>>>>, P!Words(f))
  <2>1. Len(t) >= 2 /\ t[1] = c /\ t[2] = " " /\ ~IsLetter(" ") /\ t # <<>>
    <3>1. Len(t) >= 2 /\ t[1] = c /\ t[2] = " "
      BY <1>2 DEF TextBegins
    <3> DEFINE n == Len(t)
    <3> HIDE DEF n
    <3>2. n # 0
      <4>1. n >= 2
        BY <3>1 DEF n
      <4> QED BY <4>1
    <3>3. t # <<>>
      <4>1. t = <<>> => n = 0
        BY DEF n
      <4> QED BY <3>2, <4>1
    <3> QED BY <3>1, <3>3, Literals
  <2>2. /\ P!Words(t) = Then(<<<<t[1]>>>>, P!Words(P!From(t, 2)))
        /\ P!Words(P!From(t, 2)) = P!Words(f) /\ f \in Seq(Char)
    <3> HIDE DEF w
    <3> QED BY <1>1, <2>1, FirstWord
  <2> QED BY <2>1, <2>2
<1>3. ASSUME TextBegins(t, c) PROVE WordsFrom(w, c) /\ P!From(w, 2) = P!Words(f)
  <2> DEFINE one == <<<<c>>>>
             v == P!Words(f)
             S == Seq(Char) \ {<<>>}
  <2>1. one \in WordSeq /\ v \in WordSeq /\ Len(one) = 1 /\ one[1] = <<c>>
    BY <1>2, <1>3, WordsTyped, WordIs
  <2>2. one \in Seq(S) /\ v \in Seq(S) /\ w = Then(one, v)
    BY <1>2, <1>3, <2>1 DEF WordSeq
  <2> HIDE DEF one, v, S
  <2>3. Len(Then(one, v)) = Len(one) + Len(v) /\ Len(v) \in Nat /\ \A i \in 1 .. Len(one) : Then(one, v)[i] = one[i]
    BY <2>2, ThenParts
  <2>4. P!From(Then(one, v), Len(one) + 1) = v
    BY <2>2, ThenFrom
  <2> HIDE DEF w
  <2>5. Len(w) >= 1 /\ w[1] = <<c>> /\ P!From(w, 2) = v
    <3>1. 1 \in 1 .. 1 /\ 1 + 1 = 2 /\ 1 + Len(v) >= 1
      BY <2>3
    <3> QED BY <2>1, <2>2, <2>3, <2>4, <3>1
  <2>6. w # <<>>
    <3>1. Len(<<>>) = 0
      OBVIOUS
    <3> QED BY <2>5, <3>1
  <2> QED BY <2>5, <2>6 DEF WordsFrom, v
<1>4. ASSUME WordsFrom(w, c) PROVE JoinedFrom(w, t, c) /\ Len(w) \in Nat /\ Len(w) >= 1
  <2>1. JoinedFrom(w, Join(w), c) /\ Len(w) \in Nat /\ Len(w) >= 1
    <3> HIDE DEF w
    <3> QED BY <1>1, <1>4, JoinFirst, CutFirst
  <2> QED BY <1>1, <2>1
<1>5. ASSUME TextBegins(t, c) PROVE WordsBegin(w, c) /\ P!Words(f) = P!From(w, 2) /\ Proper(f)
  <2>1. WordsFrom(w, c) /\ P!From(w, 2) = P!Words(f) /\ JoinedFrom(w, t, c) /\ Len(w) \in Nat /\ Len(w) >= 1
    BY <1>3, <1>4, <1>5
  <2>2. Len(w) >= 2
    <3>0. Len(w) # 1 => Len(w) >= 2
      <4> DEFINE n == Len(w)
      <4>1. n \in Nat /\ n >= 1
        BY <2>1
      <4> HIDE DEF n
      <4>2. n # 1 => n >= 2
        BY <4>1
      <4> QED BY <4>2 DEF n
    <3>1. SUFFICES ASSUME Len(w) = 1 PROVE FALSE
      BY <3>0
    <3>2. t = <<c>>
      BY <2>1, <3>1 DEF JoinedFrom
    <3>3. Len(<<c>>) = 1
      OBVIOUS
    <3>4. Len(t) >= 2
      BY <1>5 DEF TextBegins
    <3>5. Len(t) = 1
      BY <3>2, <3>3
    <3> QED BY <3>4, <3>5
  <2>3. f = Join(P!From(w, 2))
    BY <2>1, <2>2 DEF JoinedFrom
  <2> QED BY <1>2, <1>5, <2>1, <2>2, <2>3 DEF WordsBegin, WordsFrom, Proper
<1>6. ASSUME WordsBegin(w, c) PROVE TextBegins(t, c)
  <2>1. WordsFrom(w, c) /\ Len(w) >= 2
    <3>1. Len(<<>>) = 0 /\ Len(w) >= 2 /\ w[1] = <<c>>
      BY <1>6 DEF WordsBegin
    <3> QED BY <3>1 DEF WordsFrom
  <2> QED BY <1>4, <2>1 DEF JoinedFrom, TextBegins
<1> QED BY <1>5, <1>6

\* Where the name is followed by ` skill`: in a text from a place on, and in the
\* text that begins there.
At(t, start, place, name) ==
  /\ place > start /\ place + 1 <= Len(t) /\ t[place] = " " /\ t[place + 1] = "skill"
  /\ P!EndsWord(t, place) /\ SubSeq(t, start, place - 1) = J(name)
Behind(f, k, name) ==
  /\ k + 2 <= Len(f) /\ f[k + 1] = " " /\ f[k + 2] = "skill"
  /\ k + 3 > Len(f) \/ f[k + 3] = " "
  /\ SubSeq(f, 1, k) = J(name)
InText(f, name) == \E k \in 1 .. Len(f) : Behind(f, k, name)

LEMMA SubFrom ==
  ASSUME NEW S, NEW t \in Seq(S), NEW i \in 1 .. Len(t) + 1, NEW k \in 0 .. (Len(t) + 1) - i
  PROVE  SubSeq(P!From(t, i), 1, k) = SubSeq(t, i, (i + k) - 1)
<1> DEFINE f == P!From(t, i)
           j == (i + k) - 1
           l == Len(t)
<1>0. l \in Nat /\ i \in Int /\ k \in Int /\ j \in i - 1 .. l /\ (j + 1) - i = k
      /\ k <= (l + 1) - i /\ \A n \in 1 .. k : n \in 1 .. (l + 1) - i /\ (1 + n) - 1 = n
  OBVIOUS
<1>1. f \in Seq(S) /\ Len(f) = (l + 1) - i /\ \A n \in 1 .. (l + 1) - i : f[n] = t[(i + n) - 1]
  BY FromIs
<1>2. SubSeq(t, i, j) \in Seq(S) /\ Len(SubSeq(t, i, j)) = (j + 1) - i
      /\ \A n \in 1 .. (j + 1) - i : SubSeq(t, i, j)[n] = t[(i + n) - 1]
  BY <1>0, SubSeqIs
<1> HIDE DEF f, j, l
<1>3. 1 \in 1 .. Len(f) + 1 /\ k \in 1 - 1 .. Len(f) /\ (k + 1) - 1 = k
  BY <1>0, <1>1
<1>4. f \in Seq(S)
  BY <1>1
<1> DEFINE x == SubSeq(f, 1, k)
           y == SubSeq(t, i, j)
<1>5. x \in Seq(S) /\ Len(x) = (k + 1) - 1 /\ \A n \in 1 .. (k + 1) - 1 : x[n] = f[(1 + n) - 1]
  BY <1>3, <1>4, SubSeqIs
<1> HIDE DEF x
<1>6. x \in Seq(S) /\ Len(x) = k /\ \A n \in 1 .. k : x[n] = f[n]
  BY <1>0, <1>3, <1>5
<1>7. y \in Seq(S) /\ Len(y) = k /\ \A n \in 1 .. k : y[n] = t[(i + n) - 1]
  BY <1>0, <1>2
<1> HIDE DEF y
<1>8. \A n \in 1 .. k : x[n] = y[n]
  BY <1>0, <1>1, <1>6, <1>7
<1>9. x = y
  BY <1>6, <1>7, <1>8, SeqEqual
<1> QED BY <1>9 DEF x, y, f, j

\* A place of ` skill` in a text, and the text from the place on.
LEMMA AtIsBehind ==
  ASSUME NEW t \in Seq(Char), NEW name \in Seq(Char), NEW start \in 1 .. Len(t) + 1
  PROVE  (\E place \in DOMAIN t : At(t, start, place, name)) <=> InText(P!From(t, start), name)
<1> DEFINE f == P!From(t, start)
           l == Len(t)
<1>0. l \in Nat /\ start \in Int /\ DOMAIN t = 1 .. l
  OBVIOUS
<1>1. f \in Seq(Char) /\ Len(f) = (l + 1) - start /\ \A n \in 1 .. (l + 1) - start : f[n] = t[(start + n) - 1]
  BY FromIs
<1>2. \A k \in 0 .. (l + 1) - start : SubSeq(f, 1, k) = SubSeq(t, start, (start + k) - 1)
  BY SubFrom
<1> HIDE DEF f, l
<1>3. ASSUME NEW place \in Int, NEW k \in Int, k = place - start, k >= 1
      PROVE  At(t, start, place, name) <=> Behind(f, k, name)
  <2>1. place > start /\ (place + 1 <= l <=> k + 2 <= Len(f)) /\ (place + 2 > l <=> k + 3 > Len(f))
        /\ (start + k) - 1 = place - 1
    <3>1. Len(f) = (l + 1) - start /\ l \in Int /\ start \in Int
      BY <1>0, <1>1
    <3>2. place > start
      BY <1>3, <3>1
    <3>3. place + 1 <= l <=> k + 2 <= Len(f)
      BY <1>3, <3>1
    <3>4. place + 2 > l <=> k + 3 > Len(f)
      BY <1>3, <3>1
    <3>5. (start + k) - 1 = place - 1
      BY <1>3, <3>1
    <3> QED BY <3>2, <3>3, <3>4, <3>5
  <2>2. ASSUME place + 1 <= l PROVE f[k + 1] = t[place] /\ f[k + 2] = t[place + 1]
                                    /\ SubSeq(f, 1, k) = SubSeq(t, start, place - 1)
                                 /\ (place + 2 <= l => f[k + 3] = t[place + 2])
    <3>1. k + 1 \in 1 .. (l + 1) - start /\ (start + (k + 1)) - 1 = place
          /\ k + 2 \in 1 .. (l + 1) - start /\ (start + (k + 2)) - 1 = place + 1
          /\ k \in 0 .. (l + 1) - start
      <4>0. l \in Int /\ start \in Int
        BY <1>0
      <4>1. k + 1 \in 1 .. (l + 1) - start /\ (start + (k + 1)) - 1 = place
        BY <1>3, <2>2, <4>0
      <4>2. k + 2 \in 1 .. (l + 1) - start /\ (start + (k + 2)) - 1 = place + 1
        <5>1. k + 2 <= (l + 1) - start
          BY <1>3, <2>2, <4>0
        <5>2. (start + (k + 2)) - 1 = place + 1
          BY <1>3, <4>0
        <5>3. k + 2 >= 1
          BY <1>3
        <5> QED BY <4>0, <5>1, <5>2, <5>3
      <4>3. k \in 0 .. (l + 1) - start
        <5>1. k >= 1
          BY <1>3
        <5>2. k + 1 <= (l + 1) - start
          BY <4>1
        <5> QED BY <4>0, <5>1, <5>2
      <4> QED BY <4>1, <4>2, <4>3
    <3>2. place + 2 <= l => k + 3 \in 1 .. (l + 1) - start /\ (start + (k + 3)) - 1 = place + 2
      BY <1>0, <1>3
    <3>3. f[k + 1] = t[place] /\ f[k + 2] = t[place + 1]
      BY <1>1, <3>1
    <3>4. place + 2 <= l => f[k + 3] = t[place + 2]
      BY <1>1, <3>2
    <3>5. SubSeq(f, 1, k) = SubSeq(t, start, place - 1)
      BY <1>2, <2>1, <3>1
    <3> QED BY <3>3, <3>4, <3>5
  <2>3. At(t, start, place, name) <=>
          /\ place + 1 <= l /\ t[place] = " " /\ t[place + 1] = "skill"
          /\ place + 2 > l \/ t[place + 2] = " "
          /\ SubSeq(t, start, place - 1) = J(name)
    BY <2>1 DEF At, l, P!EndsWord
  <2>4. Behind(f, k, name) <=>
          /\ place + 1 <= l /\ f[k + 1] = " " /\ f[k + 2] = "skill"
          /\ place + 2 > l \/ f[k + 3] = " "
          /\ SubSeq(f, 1, k) = J(name)
    BY <2>1 DEF Behind
  <2>5. place + 2 > l \/ place + 2 <= l
    BY <1>0
  <2> QED BY <2>2, <2>3, <2>4, <2>5
<1>4. ASSUME NEW place \in DOMAIN t, At(t, start, place, name) PROVE InText(f, name)
  <2>1. place \in Int /\ place - start \in Int /\ place - start >= 1
    <3>1. place \in Int /\ place > start
      <4>1. place \in 1 .. l
        BY <1>0
      <4>2. place > start
        BY <1>4 DEF At
      <4> QED BY <4>1, <4>2
    <3> QED BY <1>0, <3>1
  <2>2. Behind(f, place - start, name)
    BY <1>3, <1>4, <2>1
  <2>3. place - start \in 1 .. Len(f)
    <3> DEFINE k == place - start
    <3>1. k \in Int /\ k >= 1 /\ Behind(f, k, name)
      BY <2>1, <2>2
    <3>2. Len(f) \in Int
      BY <1>1
    <3> HIDE DEF k
    <3>3. k + 2 <= Len(f)
      BY <3>1 DEF Behind
    <3>4. k \in 1 .. Len(f)
      BY <3>1, <3>2, <3>3
    <3> QED BY <3>4 DEF k
  <2> QED BY <2>2, <2>3 DEF InText
<1>5. ASSUME InText(f, name) PROVE \E place \in DOMAIN t : At(t, start, place, name)
  <2>1. PICK k \in 1 .. Len(f) : Behind(f, k, name)
    BY <1>5 DEF InText
  <2>2. start + k \in Int /\ k \in Int /\ k = (start + k) - start /\ k >= 1 /\ start + k \in 1 .. l
    <3>1. k + 2 <= Len(f)
      BY <2>1 DEF Behind
    <3> QED BY <1>0, <1>1, <3>1
  <2>3. At(t, start, start + k, name)
    BY <1>3, <2>1, <2>2
  <2> QED BY <1>0, <2>2, <2>3
<1> QED BY <1>4, <1>5 DEF f

\* The same of words: the name's, and then the word `skill`.
InWords(words, name) ==
  /\ P!Words(name) # <<>>
  /\ \E others \in WordSeq : WordsFrom(others, "skill") /\ words = Then(P!Words(name), others)

\* A name and then ` skill` in a text is the name and then the word in its
\* words.
LEMMA TextToWords ==
  ASSUME NEW f \in Seq(Char), NEW name \in Seq(Char), InText(f, name)
  PROVE  InWords(P!Words(f), name)
<1>1. PICK k \in 1 .. Len(f) : Behind(f, k, name)
  BY DEF InText
<1> DEFINE r == P!From(f, k + 2)
           x == SubSeq(f, 1, k)
           l == Len(f)
<1>2. l \in Nat /\ k + 1 \in 1 .. l /\ k + 2 \in 1 .. l + 1 /\ k + 2 <= l /\ (k + 1) - 1 = k /\ (k + 1) + 1 = k + 2
  <2>1. k + 2 <= l
    BY <1>1 DEF Behind
  <2> QED BY <2>1
<1>3. f[k + 1] = " " /\ f[k + 2] = "skill" /\ (k + 3 > l \/ f[k + 3] = " ") /\ x = J(name)
  BY <1>1 DEF Behind
<1>4. P!Words(f) = Then(P!Words(x), P!Words(r))
  <2>1. ~IsLetter(f[k + 1])
    BY <1>3, Literals
  <2>2. P!Words(f) = Then(P!Words(SubSeq(f, 1, (k + 1) - 1)), P!Words(P!From(f, (k + 1) + 1)))
    BY <1>2, <2>1, PartedAt
  <2> QED BY <1>2, <2>2
<1>5. r \in Seq(Char) /\ Len(r) = (l + 1) - (k + 2) /\ \A n \in 1 .. (l + 1) - (k + 2) : r[n] = f[((k + 2) + n) - 1]
  BY <1>2, FromIs
<1> HIDE DEF r, x, l
<1>6. r # <<>> /\ r[1] = "skill" /\ (Len(r) = 1 \/ r[2] = " ")
  <2>1. 1 \in 1 .. (l + 1) - (k + 2) /\ ((k + 2) + 1) - 1 = k + 2 /\ Len(r) >= 1
    BY <1>2, <1>5
  <2>2. r[1] = "skill"
    BY <1>3, <1>5, <2>1
  <2>3. CASE k + 3 > l
    <3>1. Len(r) = 1
      BY <1>2, <1>5, <2>3
    <3>2. r # <<>>
      <4> DEFINE n == Len(r)
      <4>1. n = 1
        BY <3>1
      <4>2. r = <<>> => n = 0
        OBVIOUS
      <4> HIDE DEF n
      <4> QED BY <4>1, <4>2
    <3> QED BY <2>2, <3>1, <3>2
  <2>4. CASE ~(k + 3 > l)
    <3>1. 2 \in 1 .. (l + 1) - (k + 2) /\ ((k + 2) + 2) - 1 = k + 3 /\ Len(r) >= 2
      BY <1>2, <1>5, <2>4
    <3>2. r[2] = " "
      BY <1>3, <1>5, <2>4, <3>1
    <3>3. r # <<>>
      <4> DEFINE n == Len(r)
      <4>1. n >= 2
        BY <3>1
      <4>2. r = <<>> => n = 0
        OBVIOUS
      <4> HIDE DEF n
      <4> QED BY <4>1, <4>2
    <3> QED BY <2>2, <3>2, <3>3
  <2> QED BY <2>3, <2>4
<1>7. P!Words(x) = P!Words(name) /\ P!Words(name) # <<>>
  <2>1. P!Words(J(name)) = P!Words(name)
    BY JKeepsWords DEF JIs
  <2>2. x # <<>>
    <3>1. 1 \in 1 .. l + 1 /\ k \in 1 - 1 .. l
      BY <1>2
    <3>2. Len(x) = (k + 1) - 1
      BY <3>1, SubSeqIs DEF x, l
    <3> DEFINE n == Len(x)
    <3>3. n = k
      BY <1>2, <3>2
    <3>4. x = <<>> => n = 0
      OBVIOUS
    <3> HIDE DEF n
    <3> QED BY <3>3, <3>4
  <2> QED BY <1>3, <2>1, <2>2, JTyped
<1>8. P!Words(r) \in WordSeq /\ WordsFrom(P!Words(r), "skill")
  <2> DEFINE v == P!Words(P!From(r, 2))
             one == <<<<"skill">>>>
             S == Seq(Char) \ {<<>>}
  <2>1. P!Words(r) = Then(one, v) /\ P!From(r, 2) \in Seq(Char)
    <3>1. IsLetter(r[1]) /\ (Len(r) = 1 \/ ~IsLetter(r[2]))
      BY <1>6, Literals
    <3>2. P!Words(r) = Then(<<<<r[1]>>>>, v) /\ P!From(r, 2) \in Seq(Char)
      BY <1>5, <1>6, <3>1, FirstWord
    <3> QED BY <1>6, <3>2
  <2>2. v \in Seq(S) /\ one \in Seq(S) /\ Len(one) = 1 /\ one[1] = <<"skill">>
    <3>1. v \in WordSeq
      BY <2>1, WordsTyped
    <3> DEFINE c == "skill"
    <3>2. c \in Char
      BY Literals
    <3> HIDE DEF c
    <3>3. <<<<c>>>> \in WordSeq /\ Len(<<<<c>>>>) = 1 /\ <<<<c>>>>[1] = <<c>>
      BY <3>2, WordIs
    <3> QED BY <3>1, <3>3 DEF c, WordSeq
  <2> HIDE DEF v, one, S
  <2>3. /\ Then(one, v) \in Seq(S) /\ Len(Then(one, v)) = Len(one) + Len(v) /\ Len(v) \in Nat
        /\ \A i \in 1 .. Len(one) : Then(one, v)[i] = one[i]
    BY <2>2, ThenParts
  <2> DEFINE z == Then(one, v)
  <2>4. z[1] = <<"skill">> /\ Len(z) >= 1
    <3>1. 1 \in 1 .. 1 /\ 1 + Len(v) >= 1
      BY <2>3
    <3> QED BY <2>2, <2>3, <3>1
  <2>5. z # <<>>
    <3> DEFINE n == Len(z)
    <3>1. n >= 1
      BY <2>4
    <3>2. z = <<>> => n = 0
      OBVIOUS
    <3> HIDE DEF n, z
    <3> QED BY <3>1, <3>2
  <2>6. P!Words(r) \in WordSeq
    BY <1>5, WordsTyped
  <2> QED BY <2>1, <2>4, <2>5, <2>6 DEF WordsFrom
<1> QED BY <1>4, <1>7, <1>8 DEF InWords

\* And the other way round.
LEMMA WordsToText ==
  ASSUME NEW words \in WordSeq, NEW name \in Seq(Char), InWords(words, name)
  PROVE  InText(Join(words), name)
<1> DEFINE n == P!Words(name)
           j == J(name)
           x == Append(j, " ")
           k == Len(j)
<1>1. PICK others \in WordSeq : WordsFrom(others, "skill") /\ words = Then(n, others)
  BY DEF InWords
<1> DEFINE y == Join(others)
           t == Then(x, y)
<1>2. n \in WordSeq /\ n # <<>> /\ others # <<>>
  BY <1>1, WordsTyped DEF InWords, WordsFrom
<1>3. Join(words) = t
  <2>1. Join(Then(n, others)) = Then(Append(Join(n), " "), Join(others))
    <3> HIDE DEF n
    <3> QED BY <1>2, JoinParts
  <2> QED BY <1>1, <2>1 DEF J
<1>4. j \in Seq(Char) /\ k \in Nat /\ k >= 1
  <2>1. j \in Seq(Char) /\ k \in Nat /\ k # 0
    BY <1>2, JTyped
  <2> HIDE DEF k
  <2> QED BY <2>1
<1>5. x \in Seq(Char) /\ Len(x) = k + 1 /\ x[k + 1] = " "
  <2>1. " " \in Char
    BY Literals
  <2> HIDE DEF j
  <2>2. x \in Seq(Char) /\ Len(x) = k + 1 /\ Last(x) = " "
    BY <1>4, <2>1, AppendIs
  <2> HIDE DEF x
  <2> QED BY <2>2 DEF Last
<1>6. y \in Seq(Char) /\ JoinedFrom(others, y, "skill") /\ Len(others) \in Nat /\ Len(others) >= 1
  <2> DEFINE c == "skill"
  <2>1. c \in Char /\ WordsFrom(others, c)
    BY <1>1, Literals
  <2> HIDE DEF c
  <2>2. JoinedFrom(others, Join(others), c)
    BY <2>1, JoinFirst
  <2>3. Len(others) \in Nat /\ Len(others) >= 1
    BY <2>1, CutFirst
  <2> QED BY <2>2, <2>3, JoinTyped DEF c
<1> HIDE DEF n, j, x, y
<1>7. y[1] = "skill" /\ Len(y) >= 1 /\ Len(y) \in Nat /\ (Len(y) < 2 \/ y[2] = " ")
  <2>1. Len(y) \in Nat /\ y # <<>> /\ y[1] = "skill"
    <3>1. y \in Seq(Char)
      BY <1>6
    <3>2. y # <<>> /\ y[1] = "skill"
      BY <1>6 DEF JoinedFrom
    <3> QED BY <3>1, <3>2
  <2> DEFINE m == Len(y)
  <2>2. m # 0
    BY <1>6, <2>1, EmptySeq
  <2>3. m \in Nat
    BY <2>1
  <2>4. m < 2 \/ y[2] = " "
    <3>1. CASE Len(others) = 1
      <4>1. y = <<"skill">>
        BY <1>6, <3>1 DEF JoinedFrom
      <4>2. Len(<<"skill">>) = 1
        OBVIOUS
      <4>3. m = 1
        BY <4>1, <4>2
      <4> HIDE DEF m
      <4> QED BY <4>3
    <3>2. CASE Len(others) # 1
      <4>1. Len(others) >= 2
        <5> DEFINE o == Len(others)
        <5>1. o \in Nat /\ o >= 1 /\ o # 1
          BY <1>6, <3>2
        <5> HIDE DEF o
        <5>2. o >= 2
          BY <5>1
        <5> QED BY <5>2 DEF o
      <4> QED BY <1>6, <4>1 DEF JoinedFrom
    <3> QED BY <3>1, <3>2
  <2> HIDE DEF m
  <2>5. m >= 1
    BY <2>2, <2>3
  <2> QED BY <2>1, <2>4, <2>5 DEF m
<1>8. /\ t \in Seq(Char) /\ Len(t) = (k + 1) + Len(y)
      /\ (\A i \in 1 .. k + 1 : t[i] = x[i])
      /\ (\A i \in 1 .. Len(y) : t[(k + 1) + i] = y[i])
      /\ SubSeq(t, 1, k + 1) = x
  <2>1. /\ t \in Seq(Char) /\ Len(t) = Len(x) + Len(y)
        /\ \A i \in 1 .. Len(x) : t[i] = x[i]
    BY <1>5, <1>6, ThenParts
  <2>2. \A i \in 1 .. Len(y) : t[Len(x) + i] = y[i]
    <3>1. x \in Seq(Char) /\ y \in Seq(Char)
      BY <1>5, <1>6
    <3> QED BY <3>1, ThenParts
  <2>3. SubSeq(t, 1, Len(x)) = x
    BY <1>5, <1>6, ThenFrom
  <2> HIDE DEF t
  <2> QED BY <1>5, <2>1, <2>2, <2>3
<1> DEFINE m == Len(y)
<1>14. m \in Nat /\ m >= 1 /\ k \in Nat /\ k >= 1 /\ Len(t) = (k + 1) + m
  BY <1>4, <1>7, <1>8
<1> HIDE DEF t, k, m
<1>9. k + 2 <= Len(t) /\ k + 1 \in 1 .. Len(t)
  BY <1>14
<1>10. t[k + 1] = " " /\ t[k + 2] = "skill"
  <2>1. k + 1 \in 1 .. k + 1 /\ 1 \in 1 .. Len(y) /\ (k + 1) + 1 = k + 2
    <3>1. k + 1 \in 1 .. k + 1 /\ 1 \in 1 .. m /\ (k + 1) + 1 = k + 2
      BY <1>14
    <3> QED BY <3>1 DEF m
  <2>2. t[k + 1] = x[k + 1]
    BY <1>8, <2>1
  <2>3. t[(k + 1) + 1] = y[1]
    BY <1>8, <2>1
  <2> QED BY <1>5, <1>7, <2>1, <2>2, <2>3
<1>11. k + 3 > Len(t) \/ t[k + 3] = " "
  <2>1. CASE Len(y) < 2
    <3>1. m < 2
      BY <2>1 DEF m
    <3>2. k + 3 > Len(t)
      BY <1>14, <3>1
    <3> QED BY <3>2
  <2>2. CASE ~(Len(y) < 2)
    <3>1. 2 \in 1 .. Len(y) /\ (k + 1) + 2 = k + 3
      <4>1. ~(m < 2)
        BY <2>2 DEF m
      <4>2. 2 \in 1 .. m /\ (k + 1) + 2 = k + 3
        BY <1>14, <4>1
      <4> QED BY <4>2 DEF m
    <3>2. t[(k + 1) + 2] = y[2]
      BY <1>8, <3>1
    <3> QED BY <1>7, <2>2, <3>1, <3>2
  <2> QED BY <2>1, <2>2
<1>12. SubSeq(t, 1, k) = j
  <2> DEFINE a == SubSeq(t, 1, k)
             c == t[k + 1]
  <2>0. " " \in Char
    BY Literals
  <2>1. x = Append(a, c) /\ c \in Char
    <3>1. SubSeq(t, 1, k + 1) = Append(SubSeq(t, 1, (k + 1) - 1), t[k + 1])
      BY <1>8, <1>9, SubSeqGrows
    <3>2. (k + 1) - 1 = k
      BY <1>4
    <3> QED BY <1>8, <1>10, <2>0, <3>1, <3>2
  <2>2. a \in Seq(Char)
    <3>1. 1 \in 1 .. Len(t) + 1 /\ k \in 1 - 1 .. Len(t)
      BY <1>4, <1>9
    <3> QED BY <1>8, <3>1, SubSeqIs
  <2> HIDE DEF a, c
  <2>3. SubSeq(x, 1, Len(x) - 1) = a
    <3>1. SubSeq(Append(a, c), 1, Len(Append(a, c)) - 1) = a
      BY <2>1, <2>2, AppendIs
    <3> QED BY <2>1, <3>1
  <2>4. SubSeq(x, 1, Len(x) - 1) = j
    <3>1. SubSeq(Append(j, " "), 1, Len(Append(j, " ")) - 1) = j
      BY <1>4, <2>0, AppendIs
    <3> QED BY <3>1 DEF x
  <2> QED BY <2>3, <2>4 DEF a
<1>13. k \in 1 .. Len(t)
  BY <1>4, <1>9
<1> QED BY <1>3, <1>9, <1>10, <1>11, <1>12, <1>13 DEF InText, Behind, j

\* By the places of the words, as the property has it.
Spells(words, first, name) ==
  \E last \in first .. Len(words) - 1 : words[last + 1] = <<"skill">> /\ SubSeq(words, first, last) = P!Words(name)

\* The same with the places of the words.
LEMMA InWordsIs ==
  ASSUME NEW words \in WordSeq, NEW name \in Seq(Char), NEW first \in 1 .. Len(words) + 1
  PROVE  InWords(P!From(words, first), name) <=> P!Words(name) # <<>> /\ Spells(words, first, name)
<1> DEFINE S == Seq(Char) \ {<<>>}
           n == P!Words(name)
           v == P!From(words, first)
           l == Len(words)
<1>0. l \in Nat /\ first \in Int
  BY DEF WordSeq
<1>1. words \in Seq(S) /\ n \in Seq(S)
  BY WordsTyped DEF WordSeq
<1> HIDE DEF S, n
<1>2. v \in Seq(S) /\ Len(v) = (l + 1) - first /\ \A i \in 1 .. (l + 1) - first : v[i] = words[(first + i) - 1]
  BY <1>1, FromIs
<1>3. \A i \in 0 .. (l + 1) - first : SubSeq(v, 1, i) = SubSeq(words, first, (first + i) - 1)
  BY <1>1, SubFrom
<1> HIDE DEF v, l
<1>4. ASSUME InWords(v, name) PROVE n # <<>> /\ Spells(words, first, name)
  <2>1. n # <<>>
    BY <1>4 DEF InWords, n
  <2>2. PICK others \in WordSeq : WordsFrom(others, "skill") /\ v = Then(n, others)
    BY <1>4 DEF InWords, n
  <2>3. others \in Seq(S) /\ others # <<>> /\ others[1] = <<"skill">>
    BY <2>2 DEF S, WordSeq, WordsFrom
  <2> DEFINE k == Len(n)
             m == Len(others)
  <2>4. k # 0 /\ m # 0
    BY <1>1, <2>1, <2>3, EmptySeq
  <2>5. Len(Then(n, others)) = k + m /\ k \in Nat /\ m \in Nat /\ \A i \in 1 .. m : Then(n, others)[k + i] = others[i]
    BY <1>1, <2>3, ThenParts
  <2>6. SubSeq(Then(n, others), 1, k) = n
    BY <1>1, <2>3, ThenFrom
  <2> HIDE DEF k, m
  <2>7. Len(v) = k + m /\ v[k + 1] = <<"skill">> /\ SubSeq(v, 1, k) = n
    <3>1. 1 \in 1 .. m
      BY <2>4, <2>5
    <3> QED BY <2>2, <2>3, <2>5, <2>6, <3>1
  <2> DEFINE last == (first + k) - 1
  <2>8. last \in first .. l - 1 /\ k \in 0 .. (l + 1) - first /\ k + 1 \in 1 .. (l + 1) - first
        /\ (first + (k + 1)) - 1 = last + 1
    <3>1. k + m = (l + 1) - first
      BY <1>2, <2>7
    <3>2. k \in Nat /\ m \in Nat
      BY <2>5
    <3>3. k >= 1 /\ m >= 1
      BY <2>4, <3>2
    <3> QED BY <1>0, <3>1, <3>2, <3>3
  <2>9. words[last + 1] = <<"skill">> /\ SubSeq(words, first, last) = n
    <3>1. v[k + 1] = words[(first + (k + 1)) - 1]
      BY <1>2, <2>8
    <3>2. SubSeq(v, 1, k) = SubSeq(words, first, (first + k) - 1)
      BY <1>3, <2>8
    <3> QED BY <2>7, <2>8, <3>1, <3>2
  <2> HIDE DEF last
  <2> QED BY <2>1, <2>8, <2>9 DEF Spells, n, l
<1>5. ASSUME n # <<>>, Spells(words, first, name) PROVE InWords(v, name)
  <2>1. PICK last \in first .. l - 1 : words[last + 1] = <<"skill">> /\ SubSeq(words, first, last) = n
    BY <1>5 DEF Spells, n, l
  <2> DEFINE k == (last + 1) - first
             others == P!From(v, k + 1)
  <2>2. k \in 0 .. (l + 1) - first /\ (first + k) - 1 = last /\ k + 1 \in 1 .. (l + 1) - first
        /\ (first + (k + 1)) - 1 = last + 1 /\ k \in Int
    BY <1>0
  <2> HIDE DEF k
  <2>3. SubSeq(v, 1, k) = n /\ v[k + 1] = <<"skill">>
    BY <1>2, <1>3, <2>1, <2>2
  <2>4. k \in 0 .. Len(v) /\ k + 1 \in 1 .. Len(v) + 1 /\ k + 1 # Len(v) + 1 /\ Len(v) \in Int
    BY <1>0, <1>2, <2>2
  <2>5. v = Then(SubSeq(v, 1, k), others)
    BY <1>2, <2>4, CutAt
  <2>6. /\ others \in Seq(S) /\ others # <<>>
        /\ \A i \in 1 .. (Len(v) + 1) - (k + 1) : others[i] = v[((k + 1) + i) - 1]
    BY <1>2, <2>4, FromIs
  <2> HIDE DEF others
  <2>7. others[1] = <<"skill">>
    <3>1. 1 \in 1 .. (Len(v) + 1) - (k + 1) /\ ((k + 1) + 1) - 1 = k + 1
      BY <2>2, <2>4
    <3>2. others[1] = v[((k + 1) + 1) - 1]
      BY <2>6, <3>1
    <3> QED BY <2>3, <3>1, <3>2
  <2>8. others \in WordSeq /\ WordsFrom(others, "skill") /\ v = Then(n, others)
    BY <2>3, <2>5, <2>6, <2>7 DEF S, WordSeq, WordsFrom
  <2> QED BY <1>5, <2>8 DEF InWords, n
<1> QED BY <1>4, <1>5 DEF n, v

ByWords(words, name) ==
  /\ words # <<>> /\ words[1] = <<"use">>
  /\ P!Words(name) # <<>>
  /\ \E first \in (IF Len(words) > 1 /\ words[2] = <<"the">> THEN {2, 3} ELSE {2}) : Spells(words, first, name)

\* The places where a name may begin.
LEMMA StartsAre ==
  ASSUME NEW t \in Seq(Char)
  PROVE  /\ P!name_starts(t) = IF ~TextBegins(t, "use") THEN {}
                               ELSE {3} \cup (IF TextBegins(P!From(t, 3), "the") THEN {5} ELSE {})
         /\ TextBegins(t, "use") => 3 \in 1 .. Len(t) + 1
         /\ TextBegins(t, "use") /\ TextBegins(P!From(t, 3), "the") =>
              5 \in 1 .. Len(t) + 1 /\ P!From(P!From(t, 3), 3) = P!From(t, 5)
<1> DEFINE l == Len(t)
<1>0. l \in Nat
  OBVIOUS
<1> HIDE DEF l
<1>1. CASE ~TextBegins(t, "use")
  <2>1. Len(t) < 2 \/ t[1] # "use" \/ t[2] # " "
    <3>1. l < 2 \/ l >= 2
      BY <1>0
    <3> QED BY <1>1, <3>1 DEF TextBegins, l
  <2> QED BY <1>1, <2>1 DEF P!name_starts
<1>2. CASE TextBegins(t, "use")
  <2>1. l >= 2 /\ t[1] = "use" /\ t[2] = " "
    BY <1>2 DEF TextBegins, l
  <2>0. l \in Nat /\ l >= 2
    BY <1>0, <2>1
  <2>2. 3 \in 1 .. l + 1 /\ ~(l < 2)
    BY <2>0
  <2> DEFINE f == P!From(t, 3)
  <2>3. f \in Seq(Char) /\ Len(f) = (l + 1) - 3 /\ \A i \in 1 .. (l + 1) - 3 : f[i] = t[(3 + i) - 1]
    BY <2>2, FromIs DEF l
  <2> HIDE DEF f
  <2>4. Len(f) >= 2 <=> l >= 4
    <3>1. Len(f) = (l + 1) - 3
      BY <2>3
    <3> QED BY <2>0, <3>1
  <2>5. l >= 4 => f[1] = t[3] /\ f[2] = t[4]
    <3>1. l >= 4 => 1 \in 1 .. (l + 1) - 3 /\ 2 \in 1 .. (l + 1) - 3
      BY <1>0
    <3>2. (3 + 1) - 1 = 3 /\ (3 + 2) - 1 = 4
      OBVIOUS
    <3>3. l >= 4 => f[1] = t[(3 + 1) - 1] /\ f[2] = t[(3 + 2) - 1]
      BY <2>3, <3>1
    <3> QED BY <3>2, <3>3
  <2>6. TextBegins(f, "the") <=> l >= 4 /\ t[3] = "the" /\ t[4] = " "
    BY <2>4, <2>5 DEF TextBegins
  <2>7. P!name_starts(t) = {3} \cup (IF TextBegins(f, "the") THEN {5} ELSE {})
    <3>1. P!name_starts(t) = {3} \cup (IF l >= 4 /\ t[3] = "the" /\ t[4] = " " THEN {5} ELSE {})
      BY <2>1, <2>2 DEF P!name_starts, l
    <3> QED BY <2>6, <3>1
  <2>8. TextBegins(f, "the") => 5 \in 1 .. l + 1 /\ P!From(f, 3) = P!From(t, 5)
    <3> HAVE TextBegins(f, "the")
    <3>1. 3 \in 1 .. (l + 2) - 3 /\ 5 \in 1 .. l + 1 /\ (3 + 3) - 1 = 5
      <4>1. l >= 4
        BY <2>6
      <4> QED BY <1>0, <4>1
    <3>2. P!From(P!From(t, 3), 3) = P!From(t, (3 + 3) - 1)
      BY <2>2, <3>1, FromFrom DEF l
    <3> QED BY <3>1, <3>2 DEF f
  <2> QED BY <1>2, <2>2, <2>7, <2>8 DEF f, l
<1> QED BY <1>1, <1>2

\* A place where the code finds a name and then ` skill`.
LEMMA MatchAtIs ==
  ASSUME NEW t \in Seq(Char), NEW name \in Seq(Char), P!name_starts(t) \subseteq 1 .. Len(t) + 1
  PROVE  P!matches_skill_name(t, name) <=> \E start \in P!name_starts(t) : InText(P!From(t, start), name)
<1> DEFINE starts == P!name_starts(t)
           l == Len(t)
<1>0. l \in Nat /\ DOMAIN t = 1 .. l
  OBVIOUS
<1>1. ASSUME NEW start \in starts, NEW place \in DOMAIN t
      PROVE  (/\ place > start
              /\ place + 1 <= Len(t) /\ t[place] = " " /\ t[place + 1] = "skill"
              /\ P!EndsWord(t, place)
              /\ P!eql(name, SubSeq(t, start, place - 1))) <=> At(t, start, place, name)
  <2>1. place > start => (P!eql(name, SubSeq(t, start, place - 1)) <=> SubSeq(t, start, place - 1) = J(name))
    <3> HAVE place > start
    <3>1. start \in 1 .. Len(t) + 1 /\ place - 1 \in start - 1 .. Len(t)
      <4>1. start \in 1 .. l + 1 /\ place \in 1 .. l /\ place > start
        BY <1>0
      <4> HIDE DEF starts, l
      <4>2. start \in 1 .. l + 1 /\ place - 1 \in start - 1 .. l
        BY <1>0, <4>1
      <4> QED BY <4>2 DEF l
    <3>2. SubSeq(t, start, place - 1) \in Seq(Char)
      BY <3>1, SubSeqIs
    <3> QED BY <3>2, EqlIs
  <2> QED BY <2>1 DEF At
<1>2. P!matches_skill_name(t, name) <=> \E start \in starts, place \in DOMAIN t : At(t, start, place, name)
  <2>1. P!matches_skill_name(t, name) <=>
          \E start \in starts, place \in DOMAIN t :
             /\ place > start
             /\ place + 1 <= Len(t) /\ t[place] = " " /\ t[place + 1] = "skill"
             /\ P!EndsWord(t, place)
             /\ P!eql(name, SubSeq(t, start, place - 1))
    BY Zenon DEF P!matches_skill_name
  <2> HIDE DEF starts
  <2> QED BY <1>1, <2>1, Zenon
<1>3. \A start \in starts : (\E place \in DOMAIN t : At(t, start, place, name)) <=> InText(P!From(t, start), name)
  BY AtIsBehind
<1> HIDE DEF starts
<1> QED BY <1>2, <1>3, Zenon DEF starts

\* From where a name may begin, the text says it where the words do.
LEMMA TextIsWords ==
  ASSUME NEW t, Proper(t), NEW name \in Seq(Char)
  PROVE  InText(t, name) <=> InWords(P!Words(t), name)
<1>1. t \in Seq(Char) /\ P!Words(t) \in WordSeq
  BY WordsTyped DEF Proper
<1>2. t = Join(P!Words(t))
  BY DEF Proper
<1>3. ASSUME InText(t, name) PROVE InWords(P!Words(t), name)
  BY <1>1, <1>3, TextToWords
<1>4. ASSUME InWords(P!Words(t), name) PROVE InText(t, name)
  <2>1. InText(Join(P!Words(t)), name)
    BY <1>1, <1>4, WordsToText
  <2> QED BY <1>2, <2>1
<1> QED BY <1>3, <1>4

\* matches_skill_name finds a name in a normalized text where its words say it.
LEMMA MatchesIs ==
  ASSUME NEW t, Proper(t), NEW name \in Seq(Char)
  PROVE  P!matches_skill_name(t, name) <=> ByWords(P!Words(t), name)
<1> DEFINE w == P!Words(t)
           f == P!From(t, 3)
           g == P!From(t, 5)
           use == "use"
           the == "the"
<1>0. t \in Seq(Char) /\ w \in WordSeq /\ Len(w) \in Nat
  BY WordsTyped DEF Proper, WordSeq
<1>1. use \in Char /\ the \in Char /\ IsLetter(use) /\ IsLetter(the)
  BY Literals
<1>2. /\ P!name_starts(t) = IF ~TextBegins(t, use) THEN {}
                            ELSE {3} \cup (IF TextBegins(f, the) THEN {5} ELSE {})
      /\ TextBegins(t, use) => 3 \in 1 .. Len(t) + 1
      /\ TextBegins(t, use) /\ TextBegins(f, the) => 5 \in 1 .. Len(t) + 1 /\ P!From(f, 3) = g
  BY <1>0, StartsAre
<1>3. P!matches_skill_name(t, name) <=> \E start \in P!name_starts(t) : InText(P!From(t, start), name)
  <2>1. P!name_starts(t) \subseteq 1 .. Len(t) + 1
    BY <1>2
  <2> QED BY <1>0, <2>1, MatchAtIs
<1> HIDE DEF use, the
<1>4. /\ TextBegins(t, use) <=> WordsBegin(w, use)
      /\ TextBegins(t, use) => P!Words(f) = P!From(w, 2) /\ Proper(f)
  BY <1>1, BeginAlike
<1>5. ByWords(w, name) <=> /\ w # <<>> /\ w[1] = <<use>> /\ P!Words(name) # <<>>
                           /\ Spells(w, 2, name) \/ (Len(w) > 1 /\ w[2] = <<the>> /\ Spells(w, 3, name))
  BY DEF ByWords, use, the
<1>6. CASE ~TextBegins(t, use)
  <2>1. ~P!matches_skill_name(t, name)
    BY <1>2, <1>3, <1>6
  <2>2. ~ByWords(w, name)
    <3>1. SUFFICES ASSUME ByWords(w, name) PROVE WordsBegin(w, use)
      BY <1>4, <1>6
    <3>2. w[1] = <<use>> /\ (Spells(w, 2, name) \/ Spells(w, 3, name))
      BY <1>5, <3>1
    <3>3. Len(w) >= 2
      <4> DEFINE n == Len(w)
      <4>1. n \in Nat /\ ((2 .. n - 1) # {} \/ (3 .. n - 1) # {})
        BY <1>0, <3>2 DEF Spells
      <4> HIDE DEF n
      <4>2. n >= 2
        BY <4>1
      <4> QED BY <4>2 DEF n
    <3> QED BY <3>2, <3>3 DEF WordsBegin
  <2> QED BY <2>1, <2>2
<1>7. CASE TextBegins(t, use)
  <2>1. P!Words(f) = P!From(w, 2) /\ Proper(f) /\ WordsBegin(w, use)
    BY <1>4, <1>7
  <2>2. Len(w) >= 2 /\ w[1] = <<use>> /\ w # <<>>
    <3>1. Len(w) >= 2 /\ w[1] = <<use>>
      BY <2>1 DEF WordsBegin
    <3> DEFINE n == Len(w)
    <3>2. n >= 2
      BY <3>1
    <3>3. w = <<>> => n = 0
      OBVIOUS
    <3> HIDE DEF n, w
    <3>4. w # <<>>
      BY <3>2, <3>3
    <3> QED BY <3>1, <3>4
  <2>3. InText(f, name) <=> P!Words(name) # <<>> /\ Spells(w, 2, name)
    <3>1. InText(f, name) <=> InWords(P!From(w, 2), name)
      BY <2>1, TextIsWords
    <3>2. 2 \in 1 .. Len(w) + 1
      BY <1>0, <2>2
    <3> HIDE DEF w
    <3> QED BY <1>0, <3>1, <3>2, InWordsIs
  <2>4. /\ TextBegins(f, the) <=> WordsBegin(P!Words(f), the)
        /\ TextBegins(f, the) => P!Words(P!From(f, 3)) = P!From(P!Words(f), 2) /\ Proper(P!From(f, 3))
    <3> HIDE DEF f
    <3> QED BY <1>1, <2>1, BeginAlike
  <2>5. WordsBegin(P!From(w, 2), the) <=> Len(w) >= 3 /\ w[2] = <<the>>
    <3> DEFINE v == P!From(w, 2)
               n == Len(w)
               S == Seq(Char) \ {<<>>}
    <3>1. n \in Nat /\ n >= 2 /\ w \in Seq(S)
      BY <1>0, <2>2 DEF WordSeq
    <3> HIDE DEF S, w
    <3>2. 2 \in 1 .. n + 1 /\ 1 \in 1 .. (n + 1) - 2 /\ (2 + 1) - 1 = 2
      <4> HIDE DEF n
      <4> QED BY <3>1
    <3>3. Len(v) = (n + 1) - 2 /\ \A i \in 1 .. (n + 1) - 2 : v[i] = w[(2 + i) - 1]
      BY <3>1, <3>2, FromIs
    <3> HIDE DEF v, n
    <3>4. v[1] = w[2] /\ (Len(v) >= 2 <=> n >= 3)
      BY <3>1, <3>2, <3>3
    <3> QED BY <3>4 DEF WordsBegin, v, n
  <2>6. ASSUME TextBegins(f, the) PROVE InText(g, name) <=> P!Words(name) # <<>> /\ Spells(w, 3, name)
    <3>1. P!From(f, 3) = g /\ Proper(g) /\ P!Words(g) = P!From(P!From(w, 2), 2) /\ Len(w) >= 3
      BY <1>2, <1>7, <2>1, <2>4, <2>5, <2>6
    <3>2. P!From(P!From(w, 2), 2) = P!From(w, 3) /\ 3 \in 1 .. Len(w) + 1
      <4> DEFINE n == Len(w)
                 S == Seq(Char) \ {<<>>}
      <4>1. n \in Nat /\ n >= 3 /\ w \in Seq(S)
        BY <1>0, <3>1 DEF WordSeq
      <4> HIDE DEF S, w
      <4>2. 2 \in 1 .. n + 1 /\ 2 \in 1 .. (n + 2) - 2 /\ (2 + 2) - 1 = 3 /\ 3 \in 1 .. n + 1
        <5> HIDE DEF n
        <5> QED BY <4>1
      <4>3. P!From(P!From(w, 2), 2) = P!From(w, (2 + 2) - 1)
        BY <4>1, <4>2, FromFrom
      <4> QED BY <4>2, <4>3
    <3>3. InText(g, name) <=> InWords(P!From(w, 3), name)
      BY <3>1, <3>2, TextIsWords
    <3> HIDE DEF w
    <3> QED BY <1>0, <3>2, <3>3, InWordsIs
  <2>7. Len(w) < 3 => ~Spells(w, 3, name)
    <3> DEFINE n == Len(w)
    <3>1. n \in Nat
      BY <1>0
    <3> HIDE DEF n
    <3>2. n < 3 => 3 .. n - 1 = {}
      BY <3>1
    <3> QED BY <3>2 DEF Spells, n
  <2>8. P!matches_skill_name(t, name) <=> InText(f, name) \/ (TextBegins(f, the) /\ InText(g, name))
    BY <1>2, <1>3, <1>7
  <2>9. Len(w) > 1 /\ (Len(w) >= 3 \/ Len(w) < 3)
    <3> DEFINE n == Len(w)
    <3>1. n \in Nat /\ n >= 2
      BY <1>0, <2>2
    <3> HIDE DEF n
    <3>2. n > 1 /\ (n >= 3 \/ n < 3)
      BY <3>1
    <3> QED BY <3>2 DEF n
  <2>10. TextBegins(f, the) <=> Len(w) >= 3 /\ w[2] = <<the>>
    BY <2>1, <2>4, <2>5
  <2> HIDE DEF w, f, g
  <2> QED BY <1>5, <2>2, <2>3, <2>6, <2>7, <2>8, <2>9, <2>10 DEF w
<1> QED BY <1>6, <1>7

\* How much of a text is trimmed at its start.
Leads(t, cs, n) == (\A i \in 1 .. n : t[i] \in cs) /\ (n < Len(t) => t[n + 1] \notin cs)

\* What trim_start_matches leaves.
LEMMA TrimIs ==
  ASSUME NEW t \in Seq(Char), NEW cs
  PROVE  \E n \in 0 .. Len(t) : Leads(t, cs, n) /\ P!TrimStart(t, cs) = P!From(t, n + 1)
<1> DEFINE kept == {i \in DOMAIN t : t[i] \notin cs}
           l == Len(t)
<1>0. l \in Nat /\ DOMAIN t = 1 .. l
  OBVIOUS
<1>1. P!TrimStart(t, cs) = IF kept = {} THEN <<>> ELSE P!From(t, P!MinOf(kept))
  BY DEF P!TrimStart
<1>2. CASE kept = {}
  <2>1. Leads(t, cs, l)
    <3>1. ~(l < l)
      BY <1>0
    <3> QED BY <1>0, <1>2, <3>1 DEF Leads
  <2>2. P!From(t, l + 1) = <<>> /\ l \in 0 .. l
    <3>1. l + 1 \in 1 .. l + 1 /\ l \in 0 .. l
      BY <1>0
    <3> QED BY <3>1, FromIs
  <2> QED BY <1>1, <1>2, <2>1, <2>2
<1>3. CASE kept # {}
  <2>1. \E i \in kept : \A j \in kept : i <= j
    <3>1. kept \subseteq Nat
      BY <1>0
    <3> HIDE DEF kept
    <3> QED BY <1>3, <3>1, Least
  <2> DEFINE m == P!MinOf(kept)
  <2>2. m \in kept /\ \A j \in kept : m <= j
    <3> HIDE DEF kept
    <3> QED BY <2>1 DEF P!MinOf
  <2>3. P!TrimStart(t, cs) = P!From(t, m)
    BY <1>1, <1>3
  <2>4. m \in 1 .. l /\ t[m] \notin cs
    BY <1>0, <2>2
  <2>5. \A i \in 1 .. m - 1 : t[i] \in cs
    <3> SUFFICES ASSUME NEW i \in 1 .. m - 1, t[i] \notin cs PROVE FALSE
      OBVIOUS
    <3>1. i \in 1 .. l /\ ~(m <= i)
      <4> HIDE DEF m, l
      <4> QED BY <1>0, <2>4
    <3> QED BY <1>0, <2>2, <3>1
  <2> HIDE DEF m, kept, l
  <2>6. m - 1 \in 0 .. l /\ (m - 1) + 1 = m
    BY <1>0, <2>4
  <2>7. Leads(t, cs, m - 1)
    BY <2>4, <2>5, <2>6 DEF Leads
  <2> QED BY <2>3, <2>6, <2>7 DEF l
<1> QED BY <1>2, <1>3

\* The first character that is kept.
LEMMA LeadsOnce ==
  ASSUME NEW t \in Seq(Char), NEW cs, NEW n \in 0 .. Len(t), Leads(t, cs, n),
         NEW m \in 1 .. Len(t), t[m] \notin cs, \A i \in 1 .. m - 1 : t[i] \in cs
  PROVE  m = n + 1
<1>0. Len(t) \in Nat
  OBVIOUS
<1>1. m > n
  <2> SUFFICES ASSUME m <= n PROVE FALSE
    BY <1>0
  <2>1. m \in 1 .. n
    BY <1>0
  <2> QED BY <2>1 DEF Leads
<1>2. ~(m > n + 1)
  <2> SUFFICES ASSUME m > n + 1 PROVE FALSE
    OBVIOUS
  <2>1. n + 1 \in 1 .. m - 1 /\ n < Len(t)
    BY <1>0
  <2> QED BY <2>1 DEF Leads
<1> QED BY <1>0, <1>1, <1>2

LEMMA TailIs ==
  ASSUME NEW S, NEW t \in Seq(S), t # <<>>
  PROVE  Tail(t) = P!From(t, 2)
BY DEF P!From

\* The places behind the first n.
Behinds(l, n) ==
  /\ n \in Int /\ n + 1 \in 1 .. l + 1 /\ (n + 1) - 1 = n /\ ((n + 1) + 1) - 1 = n + 1 /\ ((n + 1) + 2) - 1 = (n + 1) + 1
  /\ n + 1 = l + 1 <=> n = l
  /\ n + 1 \in 1 .. l <=> n # l
  /\ n # l => 1 \in 1 .. (l + 1) - (n + 1)
  /\ n # l => ((l + 1) - (n + 1) = 1 <=> ~(n + 1 < l))
  /\ n + 1 < l => 2 \in 1 .. (l + 1) - (n + 1)
LEMMA BehindsAre ==
  ASSUME NEW l \in Nat, NEW n \in 0 .. l
  PROVE  Behinds(l, n)
<1>1. n \in Int /\ n + 1 \in 1 .. l + 1 /\ (n + 1) - 1 = n /\ ((n + 1) + 1) - 1 = n + 1 /\ ((n + 1) + 2) - 1 = (n + 1) + 1
  OBVIOUS
<1>2. n + 1 = l + 1 <=> n = l
  OBVIOUS
<1>3. n + 1 \in 1 .. l <=> n # l
  OBVIOUS
<1>4. n # l => 1 \in 1 .. (l + 1) - (n + 1)
  OBVIOUS
<1>5. n # l => ((l + 1) - (n + 1) = 1 <=> ~(n + 1 < l))
  OBVIOUS
<1>6. n + 1 < l => 2 \in 1 .. (l + 1) - (n + 1)
  OBVIOUS
<1> QED BY <1>1, <1>2, <1>3, <1>4, <1>5, <1>6 DEF Behinds

LEMMA PlacesBefore ==
  ASSUME NEW l \in Nat, NEW m \in 1 .. l
  PROVE  \A k \in 1 .. m - 1 : k \in 1 .. l /\ k < m
OBVIOUS

\* What is said, and whether a quote comes first.
Blanks == {" "}
Fillers == {" ", ","}
PoliteFirst(t) == t # <<>> /\ t[1] = "please" /\ (Len(t) = 1 \/ ~IsLetter(t[2]))

\* The polite word of a prompt is its first, and the code looks for it there.
LEMMA PoliteIs ==
  ASSUME NEW p \in Seq(Char), NEW n \in 0 .. Len(p), Leads(p, Blanks, n)
  PROVE  /\ \A m \in DOMAIN p : P!Polite(p, m) => m = n + 1
         /\ PoliteFirst(P!From(p, n + 1)) <=> n + 1 \in DOMAIN p /\ P!Polite(p, n + 1)
<1> DEFINE t == P!From(p, n + 1)
           l == Len(p)
<1>0. l \in Nat /\ DOMAIN p = 1 .. l /\ n + 1 \in 1 .. l + 1 /\ Behinds(l, n)
  <2>1. l \in Nat /\ DOMAIN p = 1 .. l /\ n \in 0 .. l
    <3>1. l \in Nat /\ DOMAIN p = 1 .. l
      BY LenProperties
    <3>2. n \in 0 .. l
      OBVIOUS
    <3> QED BY <3>1, <3>2
  <2> HIDE DEF l
  <2>2. Behinds(l, n)
    BY <2>1, BehindsAre
  <2> QED BY <2>1, <2>2 DEF Behinds
<1>1. ASSUME NEW m \in DOMAIN p, P!Polite(p, m) PROVE m = n + 1
  <2>1. p[m] = "please" /\ \A i \in 1 .. m - 1 : p[i] = " "
    BY <1>1 DEF P!Polite
  <2>2. p[m] \notin Blanks /\ \A i \in 1 .. m - 1 : p[i] \in Blanks
    BY <2>1 DEF Blanks
  <2>3. m \in 1 .. Len(p)
    BY <1>0
  <2> QED BY <2>2, <2>3, LeadsOnce
<1>2. /\ t \in Seq(Char) /\ Len(t) = (l + 1) - (n + 1)
      /\ (\A i \in 1 .. (l + 1) - (n + 1) : t[i] = p[((n + 1) + i) - 1]) /\ (t = <<>> <=> n + 1 = l + 1)
  BY <1>0, FromIs
<1>3. \A i \in 1 .. n : p[i] = " "
  BY DEF Leads, Blanks
<1> HIDE DEF t, l
<1>4. CASE n = l
  <2>1. t = <<>> /\ n + 1 \notin DOMAIN p
    BY <1>0, <1>2, <1>4 DEF Behinds
  <2> QED BY <1>1, <2>1 DEF PoliteFirst, t
<1>5. CASE n # l
  <2>1. t # <<>> /\ n + 1 \in DOMAIN p /\ t[1] = p[n + 1]
    <3>1. 1 \in 1 .. (l + 1) - (n + 1) /\ ((n + 1) + 1) - 1 = n + 1 /\ n + 1 \in 1 .. l /\ n + 1 # l + 1
      BY <1>0, <1>5 DEF Behinds
    <3>2. t[1] = p[((n + 1) + 1) - 1]
      BY <1>2, <3>1
    <3> QED BY <1>0, <1>2, <3>1, <3>2
  <2>2. Len(t) = 1 <=> ~(n + 1 < l)
    BY <1>0, <1>2, <1>5 DEF Behinds
  <2>3. n + 1 < l => t[2] = p[(n + 1) + 1]
    <3>1. n + 1 < l => 2 \in 1 .. (l + 1) - (n + 1)
      BY <1>0 DEF Behinds
    <3>2. ((n + 1) + 2) - 1 = (n + 1) + 1
      BY <1>0 DEF Behinds
    <3>3. n + 1 < l => t[2] = p[((n + 1) + 2) - 1]
      BY <1>2, <3>1
    <3> QED BY <3>2, <3>3
  <2>4. P!Polite(p, n + 1) <=> p[n + 1] = "please" /\ (n + 1 < l => ~IsLetter(p[(n + 1) + 1]))
    <3>1. (n + 1) - 1 = n
      BY <1>0 DEF Behinds
    <3> QED BY <1>3, <3>1 DEF P!Polite, IsLetter, l
  <2> QED BY <1>1, <2>1, <2>2, <2>3, <2>4 DEF PoliteFirst, t
<1> QED BY <1>4, <1>5

QuotedAt(p, m) ==
  /\ p[m] = "quote"
  /\ \/ \A i \in 1 .. m - 1 : p[i] \in Blanks
     \/ \E k \in 1 .. m - 1 : P!Polite(p, k) /\ \A i \in k + 1 .. m - 1 : p[i] \in Fillers

\* A quote comes first.
LEMMA QuotedWhere ==
  ASSUME NEW p
  PROVE  P!QuotedFirst(p) <=> \E m \in DOMAIN p : QuotedAt(p, m)
<1>1. \A i : (p[i] = " " <=> p[i] \in Blanks) /\ (p[i] \in {" ", ","} <=> p[i] \in Fillers)
  BY DEF Blanks, Fillers
<1> QED BY <1>1 DEF P!QuotedFirst, QuotedAt

SaidIn(r, p) == /\ r \in Seq(Char)
                /\ P!QuotedFirst(p) <=> r # <<>> /\ r[1] = "quote"
                /\ P!Words(r) = P!Said(p)

\* Without a polite word, what is left when the blanks are trimmed.
LEMMA SaidPlainly ==
  ASSUME NEW p \in Seq(Char), NEW n \in 0 .. Len(p), Leads(p, Blanks, n), ~PoliteFirst(P!From(p, n + 1))
  PROVE  SaidIn(P!From(p, n + 1), p)
<1> DEFINE t == P!From(p, n + 1)
           l == Len(p)
<1>0. l \in Nat /\ DOMAIN p = 1 .. l /\ n + 1 \in 1 .. l + 1 /\ Behinds(l, n)
  <2>1. l \in Nat /\ DOMAIN p = 1 .. l /\ n \in 0 .. l
    <3>1. l \in Nat /\ DOMAIN p = 1 .. l
      BY LenProperties
    <3>2. n \in 0 .. l
      OBVIOUS
    <3> QED BY <3>1, <3>2
  <2> HIDE DEF l
  <2>2. Behinds(l, n)
    BY <2>1, BehindsAre
  <2> QED BY <2>1, <2>2 DEF Behinds
<1>1. \A m \in DOMAIN p : ~P!Polite(p, m)
  BY PoliteIs
<1>2. /\ t \in Seq(Char) /\ Len(t) = (l + 1) - (n + 1)
      /\ (\A i \in 1 .. (l + 1) - (n + 1) : t[i] = p[((n + 1) + i) - 1]) /\ (t = <<>> <=> n + 1 = l + 1)
  BY <1>0, FromIs
<1>3. \A i \in 1 .. n : p[i] = " "
  BY DEF Leads, Blanks
<1>4. P!Words(t) = P!Said(p)
  <2>1. \A i \in 1 .. n : ~IsLetter(p[i])
    BY <1>3, Literals
  <2>2. P!Words(t) = P!Words(p)
    BY <2>1, WordsPast
  <2> QED BY <1>1, <2>2 DEF P!Said
<1> HIDE DEF t, l
<1>5. n + 1 \in 1 .. l => t # <<>> /\ t[1] = p[n + 1]
  <2> HAVE n + 1 \in 1 .. l
  <2>1. 1 \in 1 .. (l + 1) - (n + 1) /\ ((n + 1) + 1) - 1 = n + 1 /\ n + 1 # l + 1
    BY <1>0 DEF Behinds
  <2>2. t[1] = p[((n + 1) + 1) - 1]
    BY <1>2, <2>1
  <2> QED BY <1>2, <2>1, <2>2
<1>6. ASSUME P!QuotedFirst(p) PROVE t # <<>> /\ t[1] = "quote"
  <2>1. PICK m \in DOMAIN p : QuotedAt(p, m)
    BY <1>6, QuotedWhere
  <2>2. \A k \in 1 .. m - 1 : k \in DOMAIN p
    <3>1. m \in 1 .. l /\ l \in Nat
      BY <1>0
    <3> HIDE DEF l
    <3>2. \A k \in 1 .. m - 1 : k \in 1 .. l
      BY <3>1, PlacesBefore
    <3> QED BY <1>0, <3>2
  <2>3. p[m] = "quote" /\ \A i \in 1 .. m - 1 : p[i] \in Blanks
    BY <1>1, <2>1, <2>2 DEF QuotedAt
  <2>6. p[m] \notin Blanks
    BY <2>3 DEF Blanks
  <2>4. m \in 1 .. Len(p)
    BY <1>0 DEF l
  <2>5. m = n + 1
    BY <2>3, <2>4, <2>6, LeadsOnce
  <2>7. m \in 1 .. l
    BY <1>0
  <2> QED BY <1>5, <2>3, <2>5, <2>7
<1>7. ASSUME t # <<>> /\ t[1] = "quote" PROVE P!QuotedFirst(p)
  <2>1. n + 1 \in 1 .. l /\ (n + 1) - 1 = n
    BY <1>0, <1>2, <1>7 DEF Behinds
  <2>2. p[n + 1] = "quote"
    BY <1>5, <1>7, <2>1
  <2>3. \A i \in 1 .. (n + 1) - 1 : p[i] = " "
    BY <1>3, <2>1
  <2> QED BY <1>0, <2>1, <2>2, <2>3 DEF P!QuotedFirst
<1>8. t \in Seq(Char)
  BY <1>2
<1> QED BY <1>4, <1>6, <1>7, <1>8 DEF SaidIn, t

\* The place of q behind a.
Within(l, a, q) ==
  /\ q - a \in 1 .. (l + 1) - (a + 1) /\ ((a + 1) + (q - a)) - 1 = q
  /\ \A i \in 1 .. (q - a) - 1 : i \in 1 .. (l + 1) - (a + 1) /\ ((a + 1) + i) - 1 \in a + 1 .. q - 1
LEMMA WithinIs ==
  ASSUME NEW l \in Nat, NEW a \in 1 .. l, NEW q \in 1 .. l, a < q
  PROVE  Within(l, a, q)
<1>1. q - a \in 1 .. (l + 1) - (a + 1) /\ ((a + 1) + (q - a)) - 1 = q
  OBVIOUS
<1>2. \A i \in 1 .. (q - a) - 1 : i \in 1 .. (l + 1) - (a + 1) /\ ((a + 1) + i) - 1 \in a + 1 .. q - 1
  OBVIOUS
<1> QED BY <1>1, <1>2 DEF Within

BehindPolite(u, p, n) == u = P!From(P!From(p, n + 1), 2)

\* With one, what is left behind it.
LEMMA SaidPolitely ==
  ASSUME NEW p \in Seq(Char), NEW n \in 0 .. Len(p), Leads(p, Blanks, n), PoliteFirst(P!From(p, n + 1)),
         NEW u, BehindPolite(u, p, n), NEW k \in 0 .. Len(u), Leads(u, Fillers, k)
  PROVE  SaidIn(P!From(u, k + 1), p)
<1> DEFINE t == P!From(p, n + 1)
           l == Len(p)
           a == n + 1
           r == P!From(u, k + 1)
           m == Len(u)
<1>0. l \in Nat /\ DOMAIN p = 1 .. l /\ a \in 1 .. l + 1 /\ Behinds(l, n)
  <2>1. l \in Nat /\ DOMAIN p = 1 .. l
    BY LenProperties
  <2>2. n \in 0 .. l
    OBVIOUS
  <2> HIDE DEF l
  <2>3. Behinds(l, n)
    BY <2>1, <2>2, BehindsAre
  <2> QED BY <2>1, <2>3 DEF Behinds
<1>1. (\A i \in DOMAIN p : P!Polite(p, i) => i = a) /\ a \in DOMAIN p /\ P!Polite(p, a)
  BY PoliteIs
<1>2. p[a] = "please" /\ \A i \in 1 .. n : p[i] = " "
  <2>1. a - 1 = n
    BY <1>0 DEF Behinds
  <2> QED BY <1>1, <2>1 DEF P!Polite
<1>3. a \in 1 .. l /\ a \in Int /\ n \in Int /\ n + 1 = a /\ n < a
  <2>1. a \in 1 .. l
    BY <1>0, <1>1
  <2>2. n \in Int
    BY <1>0 DEF Behinds
  <2> QED BY <2>1, <2>2
<1>4. t \in Seq(Char) /\ t # <<>> /\ IsLetter(t[1]) /\ (Len(t) = 1 \/ ~IsLetter(t[2])) /\ t[1] = "please"
  <2>1. t \in Seq(Char)
    BY <1>0, FromIs
  <2> QED BY <2>1, Literals DEF PoliteFirst
<1>5. u = P!From(p, a + 1) /\ a + 1 \in 1 .. l + 1
  <2>1. 2 \in 1 .. (l + 2) - a /\ (a + 2) - 1 = a + 1 /\ a + 1 \in 1 .. l + 1
    <3> HIDE DEF a, l
    <3>1. l \in Nat
      BY <1>0
    <3> QED BY <1>3, <3>1
  <2>2. P!From(P!From(p, a), 2) = P!From(p, (a + 2) - 1)
    BY <1>0, <2>1, FromFrom
  <2> QED BY <2>1, <2>2 DEF BehindPolite
<1>6. u \in Seq(Char) /\ m = (l + 1) - (a + 1) /\ \A i \in 1 .. (l + 1) - (a + 1) : u[i] = p[((a + 1) + i) - 1]
  <2>1. /\ P!From(p, a + 1) \in Seq(Char) /\ Len(P!From(p, a + 1)) = (l + 1) - (a + 1)
        /\ \A i \in 1 .. (l + 1) - (a + 1) : P!From(p, a + 1)[i] = p[((a + 1) + i) - 1]
    BY <1>5, FromIs
  <2> QED BY <1>5, <2>1
<1>7. P!Words(r) = P!Said(p)
  <2>1. P!Words(r) = P!Words(u)
    <3>1. \A i \in 1 .. k : ~IsLetter(u[i])
      <4>1. \A i \in 1 .. k : u[i] = " " \/ u[i] = ","
        BY DEF Leads, Fillers
      <4> QED BY <4>1, Literals
    <3> QED BY <1>6, <3>1, WordsPast
  <2> DEFINE c == "please"
             one == <<<<c>>>>
             v == P!Words(u)
             S == Seq(Char) \ {<<>>}
  <2>2. P!Words(t) = Then(one, v)
    <3>1. P!Words(t) = Then(<<<<t[1]>>>>, P!Words(P!From(t, 2)))
      BY <1>4, FirstWord
    <3> QED BY <1>4, <3>1 DEF BehindPolite
  <2>3. P!Words(p) = P!Words(t)
    <3>1. \A i \in 1 .. n : ~IsLetter(p[i])
      BY <1>2, Literals
    <3> QED BY <3>1, WordsPast
  <2>4. P!Said(p) = Tail(P!Words(p))
    BY <1>1 DEF P!Said
  <2>5. one \in WordSeq /\ Len(one) = 1 /\ v \in WordSeq
    <3>1. c \in Char
      BY Literals
    <3> HIDE DEF c
    <3> QED BY <1>6, <3>1, WordIs, WordsTyped
  <2>6. one \in Seq(S) /\ v \in Seq(S)
    BY <2>5 DEF WordSeq
  <2> HIDE DEF one, v, S
  <2>7. P!From(Then(one, v), Len(one) + 1) = v /\ Then(one, v) \in Seq(S) /\ Len(Then(one, v)) = Len(one) + Len(v)
        /\ Len(v) \in Nat
    BY <2>6, ThenFrom, ThenParts
  <2> DEFINE z == Then(one, v)
  <2>8. Tail(z) = P!From(z, 2)
    <3>1. z # <<>>
      <4> DEFINE q == Len(z)
      <4>1. q = 1 + Len(v) /\ Len(v) \in Nat
        BY <2>5, <2>7
      <4>2. z = <<>> => q = 0
        OBVIOUS
      <4> HIDE DEF q, z
      <4> QED BY <4>1, <4>2
    <3>2. z \in Seq(S)
      BY <2>7
    <3> HIDE DEF z
    <3> QED BY <3>1, <3>2, TailIs
  <2>9. Tail(z) = v
    <3>1. 1 + 1 = 2
      OBVIOUS
    <3> QED BY <2>5, <2>7, <2>8, <3>1
  <2> QED BY <2>1, <2>2, <2>3, <2>4, <2>9 DEF v
<1>8. /\ r \in Seq(Char) /\ (k + 1 \in 1 .. m => r # <<>> /\ r[1] = u[k + 1]) /\ (k = m => r = <<>>)
      /\ (k + 1 \in 1 .. m <=> k # m) /\ k \in Int /\ m \in Nat /\ (k + 1) - 1 = k
  <2>1. m \in Nat
    BY <1>6
  <2>2. k \in 0 .. m
    OBVIOUS
  <2>3. u \in Seq(Char)
    BY <1>6
  <2> HIDE DEF m
  <2>4. Behinds(m, k)
    BY <2>1, <2>2, BehindsAre
  <2>5. k + 1 \in 1 .. Len(u) + 1
    BY <2>4 DEF Behinds, m
  <2>6. /\ r \in Seq(Char) /\ (r = <<>> <=> k + 1 = m + 1)
        /\ \A i \in 1 .. (m + 1) - (k + 1) : r[i] = u[((k + 1) + i) - 1]
    BY <2>3, <2>5, FromIs DEF m
  <2> HIDE DEF r
  <2>7. k # m => r[1] = u[k + 1]
    <3> HAVE k # m
    <3>1. 1 \in 1 .. (m + 1) - (k + 1) /\ ((k + 1) + 1) - 1 = k + 1
      BY <2>4 DEF Behinds
    <3>2. r[1] = u[((k + 1) + 1) - 1]
      BY <2>6, <3>1
    <3> QED BY <3>1, <3>2
  <2> QED BY <2>1, <2>4, <2>6, <2>7 DEF Behinds
<1> HIDE DEF t, l, r
<1>9. ASSUME P!QuotedFirst(p) PROVE r # <<>> /\ r[1] = "quote"
  <2>1. PICK q \in DOMAIN p : QuotedAt(p, q)
    BY <1>9, QuotedWhere
  <2>2. q \in 1 .. l /\ l \in Nat /\ p[q] = "quote"
    BY <1>0, <2>1 DEF QuotedAt
  <2>3. a < q /\ \A i \in a + 1 .. q - 1 : p[i] \in Fillers
    <3>1. CASE \A i \in 1 .. q - 1 : p[i] \in Blanks
      <4>1. p[q] \notin Blanks
        BY <2>2 DEF Blanks
      <4>2. q \in 1 .. Len(p)
        BY <2>2 DEF l
      <4>3. q = a
        BY <3>1, <4>1, <4>2, LeadsOnce
      <4>4. p[q] = "please" /\ p[q] = "quote"
        BY <1>2, <2>2, <4>3
      <4> QED BY <4>4
    <3>2. CASE \E x \in 1 .. q - 1 : P!Polite(p, x) /\ \A i \in x + 1 .. q - 1 : p[i] \in Fillers
      <4>1. PICK x \in 1 .. q - 1 : P!Polite(p, x) /\ \A i \in x + 1 .. q - 1 : p[i] \in Fillers
        BY <3>2
      <4>2. \A k0 \in 1 .. q - 1 : k0 \in 1 .. l /\ k0 < q
        BY <2>2, PlacesBefore
      <4>3. x \in 1 .. l /\ x < q
        BY <4>2
      <4>4. x = a
        BY <1>0, <1>1, <4>1, <4>3
      <4> QED BY <4>1, <4>3, <4>4
    <3> QED BY <2>1, <3>1, <3>2 DEF QuotedAt
  <2> DEFINE j == q - a
  <2> HIDE DEF a
  <2>4. Within(l, a, q)
    BY <1>3, <2>2, <2>3, WithinIs
  <2>5. j \in 1 .. (l + 1) - (a + 1) /\ u[j] = "quote"
    <3>1. j \in 1 .. (l + 1) - (a + 1) /\ ((a + 1) + j) - 1 = q
      BY <2>4 DEF Within
    <3>2. u[j] = p[((a + 1) + j) - 1]
      BY <1>6, <3>1
    <3> QED BY <2>2, <3>1, <3>2
  <2>6. ASSUME NEW i \in 1 .. j - 1 PROVE u[i] \in Fillers
    <3>1. i \in 1 .. (l + 1) - (a + 1) /\ ((a + 1) + i) - 1 \in a + 1 .. q - 1
      BY <2>4 DEF Within
    <3>2. u[i] = p[((a + 1) + i) - 1]
      BY <1>6, <3>1
    <3> QED BY <2>3, <3>1, <3>2
  <2> HIDE DEF j
  <2>7. j \in 1 .. Len(u) /\ u[j] \notin Fillers /\ \A i \in 1 .. j - 1 : u[i] \in Fillers
    <3>1. u[j] \notin Fillers
      BY <2>5 DEF Fillers
    <3> QED BY <1>6, <2>5, <2>6, <3>1
  <2>8. j = k + 1
    BY <1>6, <2>7, LeadsOnce
  <2>9. k + 1 \in 1 .. m
    BY <2>7, <2>8
  <2> QED BY <1>8, <2>5, <2>8, <2>9
<1>10. ASSUME r # <<>> /\ r[1] = "quote" PROVE P!QuotedFirst(p)
  <2> DEFINE q == (a + 1) + k
  <2>1. k + 1 \in 1 .. m /\ u[k + 1] = "quote"
    BY <1>8, <1>10
  <2> HIDE DEF a, m
  <2>2. l \in Nat /\ a \in Int /\ k \in Int /\ m = (l + 1) - (a + 1) /\ a >= 1 /\ k >= 0 /\ k + 1 <= m
    BY <1>0, <1>3, <1>6, <1>8, <2>1
  <2>3. q \in 1 .. l /\ a \in 1 .. q - 1 /\ ((a + 1) + (k + 1)) - 1 = q /\ k + 1 \in 1 .. (l + 1) - (a + 1)
    BY <2>2
  <2>4. p[q] = "quote"
    BY <1>6, <2>1, <2>3
  <2>5. ASSUME NEW i \in a + 1 .. q - 1 PROVE p[i] \in Fillers
    <3>1. i - a \in 1 .. k /\ i - a \in 1 .. (l + 1) - (a + 1) /\ ((a + 1) + (i - a)) - 1 = i
      BY <2>2
    <3>2. u[i - a] = p[i]
      <4>1. u[i - a] = p[((a + 1) + (i - a)) - 1]
        BY <1>6, <3>1
      <4> QED BY <3>1, <4>1
    <3>3. u[i - a] \in Fillers
      BY <3>1 DEF Leads
    <3> QED BY <3>2, <3>3
  <2> HIDE DEF q
  <2>6. QuotedAt(p, q)
    BY <1>1, <2>3, <2>4, <2>5 DEF QuotedAt
  <2> QED BY <1>0, <2>3, <2>6, QuotedWhere
<1> QED BY <1>7, <1>8, <1>9, <1>10 DEF SaidIn, r

\* What the code takes for the reference.
Unquoted(r) == IF r # <<>> /\ r[1] = "quote" THEN <<>> ELSE r
LEMMA ReferenceIs ==
  ASSUME NEW p \in Seq(Char)
  PROVE  \E r : SaidIn(r, p) /\ P!natural_language_reference_start(p) = Unquoted(r)
<1> DEFINE t == P!TrimStart(p, Blanks)
           u == Tail(t)
           v == P!TrimStart(u, Fillers)
           rest == IF PoliteFirst(t) THEN v ELSE t
<1>1. P!natural_language_reference_start(p) = Unquoted(rest)
  BY DEF P!natural_language_reference_start, Unquoted, PoliteFirst, IsLetter, Blanks, Fillers
<1>2. PICK n \in 0 .. Len(p) : Leads(p, Blanks, n) /\ t = P!From(p, n + 1)
  BY TrimIs
<1> HIDE DEF t
<1>3. SaidIn(rest, p)
  <2>1. CASE ~PoliteFirst(t)
    <3>1. SaidIn(P!From(p, n + 1), p)
      BY <1>2, <2>1, SaidPlainly
    <3> QED BY <1>2, <2>1, <3>1
  <2>2. CASE PoliteFirst(t)
    <3>1. t \in Seq(Char) /\ t # <<>>
      <4>1. n + 1 \in 1 .. Len(p) + 1
        <5>1. Len(p) \in Nat
          OBVIOUS
        <5> QED BY <5>1
      <4> QED BY <1>2, <2>2, <4>1, FromIs DEF PoliteFirst
    <3>2. u = P!From(t, 2) /\ u \in Seq(Char)
      <4>1. u = P!From(t, 2)
        BY <3>1, TailIs
      <4>2. u \in Seq(Char)
        BY <3>1
      <4> QED BY <4>1, <4>2
    <3>3. BehindPolite(u, p, n)
      BY <1>2, <3>2 DEF BehindPolite
    <3> HIDE DEF u
    <3>4. PICK k \in 0 .. Len(u) : Leads(u, Fillers, k) /\ v = P!From(u, k + 1)
      BY <3>2, TrimIs
    <3> HIDE DEF v
    <3>5. PoliteFirst(P!From(p, n + 1))
      BY <1>2, <2>2
    <3>6. SaidIn(P!From(u, k + 1), p)
      BY <1>2, <3>3, <3>4, <3>5, SaidPolitely
    <3> QED BY <2>2, <3>4, <3>6
  <2> QED BY <2>1, <2>2
<1> QED BY <1>1, <1>3

\* The code finds a name in a prompt where the words of the prompt say it.
LEMMA WordsMatch ==
  ASSUME NEW p \in Seq(Char), NEW name \in Seq(Char)
  PROVE  P!matches_skill_name(P!normalize(P!natural_language_reference_start(p)), name) <=> P!SaysByWords(p, name)
<1>1. PICK r : SaidIn(r, p) /\ P!natural_language_reference_start(p) = Unquoted(r)
  BY ReferenceIs
<1> DEFINE x == Unquoted(r)
<1>2. x \in Seq(Char)
  BY <1>1, EmptySeq DEF SaidIn, Unquoted
<1>3. P!SaysByWords(p, name) <=> ~P!QuotedFirst(p) /\ ByWords(P!Said(p), name)
  BY DEF P!SaysByWords, ByWords, Spells
<1>4. P!QuotedFirst(p) => P!Words(x) = <<>>
  BY <1>1, NoWords DEF SaidIn, Unquoted
<1>5. ~P!QuotedFirst(p) => P!Words(x) = P!Said(p)
  BY <1>1 DEF SaidIn, Unquoted
<1>6. P!QuotedFirst(p) => ~ByWords(P!Words(x), name)
  BY <1>4 DEF ByWords
<1> HIDE DEF x
<1>7. P!normalize(x) = J(x) /\ Proper(J(x)) /\ P!Words(J(x)) = P!Words(x)
  <2>1. P!normalize(x) = J(x) /\ J(x) \in Seq(Char) /\ P!Words(J(x)) = P!Words(x)
    BY <1>2, NormalizeIs, JTyped, JKeepsWords DEF JIs
  <2> QED BY <2>1 DEF Proper, J
<1>8. P!matches_skill_name(J(x), name) <=> ByWords(P!Words(x), name)
  BY <1>7, MatchesIs
<1> QED BY <1>1, <1>3, <1>5, <1>6, <1>7, <1>8 DEF x

\* A character before a text.
Cons(c, s) == <<c>> \o s

\* Its characters.
LEMMA ConsIs ==
  ASSUME NEW S, NEW c \in S, NEW s \in Seq(S)
  PROVE  /\ Cons(c, s) \in Seq(S) /\ Len(Cons(c, s)) = Len(s) + 1 /\ Cons(c, s)[1] = c
         /\ \A i \in 1 .. Len(s) : Cons(c, s)[i + 1] = s[i]
<1> DEFINE one == <<c>>
           x == one \o s
           l == Len(s)
<1>1. one \in Seq(S) /\ Len(one) = 1 /\ one[1] = c /\ l \in Nat
  OBVIOUS
<1> HIDE DEF one
<1>2. x \in Seq(S) /\ Len(x) = 1 + l
      /\ \A i \in 1 .. 1 + l : x[i] = IF i <= 1 THEN one[i] ELSE s[i - 1]
  <2>1. /\ x \in Seq(S) /\ Len(x) = Len(one) + Len(s)
        /\ \A i \in 1 .. Len(one) + Len(s) : x[i] = IF i <= Len(one) THEN one[i] ELSE s[i - Len(one)]
    BY <1>1, ConcatProperties
  <2> HIDE DEF x
  <2> QED BY <1>1, <2>1
<1> HIDE DEF x, l
<1>3. 1 \in 1 .. 1 + l /\ 1 + l = l + 1 /\ \A i \in 1 .. l : i + 1 \in 1 .. 1 + l /\ ~(i + 1 <= 1) /\ (i + 1) - 1 = i
  BY <1>1
<1>4. x[1] = c
  BY <1>1, <1>2, <1>3
<1>5. ASSUME NEW i \in 1 .. l PROVE x[i + 1] = s[i]
  BY <1>2, <1>3
<1>6. x \in Seq(S) /\ Len(x) = l + 1 /\ x[1] = c /\ \A i \in 1 .. l : x[i + 1] = s[i]
  BY <1>2, <1>3, <1>4, <1>5
<1> QED BY <1>6 DEF x, l, one, Cons

LEMMA SameIfAlike ==
  ASSUME NEW S, NEW s \in Seq(S), NEW t \in Seq(S), Len(s) = Len(t), \A i \in 1 .. Len(s) : s[i] = t[i]
  PROVE  s = t
BY SeqEqual

\* Where a text begins with a name behind a character.
Starting(p, a, c, name) == p[a] = c /\ \A i \in 1 .. Len(name) : p[a + i] = name[i]

\* A part of a text is a character and a name where its places say so.
LEMMA StartingIs ==
  ASSUME NEW S, NEW p \in Seq(S), NEW c \in S, NEW name \in Seq(S), NEW a \in 1 .. Len(p), NEW m \in a .. Len(p)
  PROVE  SubSeq(p, a, m) = Cons(c, name) <=> m = a + Len(name) /\ Starting(p, a, c, name)
<1> DEFINE l == Len(p)
           k == Len(name)
           x == SubSeq(p, a, m)
           y == Cons(c, name)
<1>0. l \in Nat /\ k \in Nat /\ a \in 1 .. l /\ m \in a .. l
  OBVIOUS
<1> HIDE DEF l, k
<1>1. a \in 1 .. l + 1 /\ m \in a - 1 .. l /\ a \in Int /\ m \in Int
  BY <1>0
<1>2. x \in Seq(S) /\ Len(x) = (m + 1) - a /\ \A n \in 1 .. (m + 1) - a : x[n] = p[(a + n) - 1]
  BY <1>1, SubSeqIs DEF l
<1>3. y \in Seq(S) /\ Len(y) = k + 1 /\ y[1] = c /\ \A i \in 1 .. k : y[i + 1] = name[i]
  BY ConsIs DEF k
<1> HIDE DEF x, y
<1>4. (m + 1) - a = k + 1 <=> m = a + k
  BY <1>0, <1>1
<1>5. /\ 1 \in 1 .. k + 1 /\ (a + 1) - 1 = a
      /\ \A i \in 1 .. k : i + 1 \in 1 .. k + 1 /\ (a + (i + 1)) - 1 = a + i
  BY <1>0, <1>1
<1>6. ASSUME x = y PROVE m = a + k /\ p[a] = c /\ \A i \in 1 .. k : p[a + i] = name[i]
  <2>1. (m + 1) - a = k + 1
    BY <1>2, <1>3, <1>6
  <2>2. p[a] = c
    <3>1. x[1] = p[(a + 1) - 1]
      BY <1>2, <1>5, <2>1
    <3> QED BY <1>3, <1>5, <1>6, <3>1
  <2>3. ASSUME NEW i \in 1 .. k PROVE p[a + i] = name[i]
    <3>1. x[i + 1] = p[(a + (i + 1)) - 1]
      BY <1>2, <1>5, <2>1
    <3> QED BY <1>3, <1>5, <1>6, <3>1
  <2> QED BY <1>4, <2>1, <2>2, <2>3
<1>7. ASSUME m = a + k, p[a] = c, \A i \in 1 .. k : p[a + i] = name[i] PROVE x = y
  <2>1. (m + 1) - a = k + 1
    BY <1>4, <1>7
  <2>2. Len(x) = k + 1
    BY <1>2, <2>1
  <2>3. x[1] = y[1]
    <3>1. x[1] = p[(a + 1) - 1]
      BY <1>2, <1>5, <2>1
    <3> QED BY <1>3, <1>5, <1>7, <3>1
  <2>4. ASSUME NEW i \in 1 .. k PROVE x[i + 1] = y[i + 1]
    <3>1. x[i + 1] = p[(a + (i + 1)) - 1]
      BY <1>2, <1>5, <2>1
    <3> QED BY <1>3, <1>5, <1>7, <3>1
  <2>5. ASSUME NEW n \in 1 .. k + 1 PROVE x[n] = y[n]
    <3>1. n = 1 \/ (n - 1 \in 1 .. k /\ (n - 1) + 1 = n)
      BY <1>0
    <3>2. CASE n = 1
      BY <2>3, <3>2
    <3>3. CASE n - 1 \in 1 .. k /\ (n - 1) + 1 = n
      <4>1. x[(n - 1) + 1] = y[(n - 1) + 1]
        BY <2>4, <3>3
      <4> QED BY <3>3, <4>1
    <3> QED BY <3>1, <3>2, <3>3
  <2> QED BY <1>2, <1>3, <2>2, <2>5, SameIfAlike
<1> QED BY <1>6, <1>7 DEF x, y, k, Starting

\* The part of a text behind its first character, as long as a name, is the
\* name.
LEMMA BehindFirst ==
  ASSUME NEW S, NEW t \in Seq(S), NEW name \in Seq(S), Len(name) + 1 <= Len(t)
  PROVE  SubSeq(t, 2, Len(name) + 1) = name <=> \A i \in 1 .. Len(name) : t[i + 1] = name[i]
<1> DEFINE l == Len(t)
           k == Len(name)
           x == SubSeq(t, 2, k + 1)
<1>0. l \in Nat /\ k \in Nat /\ k + 1 <= l
  OBVIOUS
<1> HIDE DEF l, k
<1>1. 2 \in 1 .. l + 1 /\ k + 1 \in 2 - 1 .. l /\ ((k + 1) + 1) - 2 = k
  BY <1>0
<1>2. x \in Seq(S) /\ Len(x) = ((k + 1) + 1) - 2 /\ \A n \in 1 .. ((k + 1) + 1) - 2 : x[n] = t[(2 + n) - 1]
  BY <1>1, SubSeqIs DEF l
<1> HIDE DEF x
<1>3. x \in Seq(S) /\ Len(x) = k /\ \A n \in 1 .. k : x[n] = t[(2 + n) - 1]
  BY <1>1, <1>2
<1>4. \A n \in 1 .. k : (2 + n) - 1 = n + 1
  BY <1>0
<1>5. \A n \in 1 .. k : x[n] = t[n + 1]
  BY <1>3, <1>4
<1>6. ASSUME \A i \in 1 .. k : t[i + 1] = name[i] PROVE x = name
  <2>1. \A i \in 1 .. k : x[i] = name[i]
    BY <1>5, <1>6
  <2> QED BY <1>3, <2>1, SameIfAlike DEF k
<1> QED BY <1>5, <1>6 DEF x, k

\* The sigil of a skill where a prompt begins.
Sigiled(p, a, name) ==
  /\ a + Len(name) <= Len(p) /\ Starting(p, a, "/", name)
  /\ a + Len(name) < Len(p) => p[(a + Len(name)) + 1] \notin P!Continuation

\* A prompt says a sigil behind its blanks or nowhere.
LEMMA SigilSaid ==
  ASSUME NEW p \in Seq(Char), NEW name \in Seq(Char), NEW n \in 0 .. Len(p), Leads(p, Blanks, n)
  PROVE  P!SaysBySigil(p, name) <=> Sigiled(p, n + 1, name)
<1> DEFINE c == "/"
           l == Len(p)
           k == Len(name)
           Ends(m) == m < l => p[m + 1] \notin P!Continuation
<1>0. c \in Char /\ c \notin Blanks /\ l \in Nat /\ k \in Nat /\ n \in 0 .. l
  <2>1. c \in Char
    BY Literals
  <2>2. c \notin Blanks
    BY DEF Blanks
  <2>3. l \in Nat /\ k \in Nat /\ n \in 0 .. l
    OBVIOUS
  <2> QED BY <2>1, <2>2, <2>3
<1>1. P!SaysBySigil(p, name) <=> \E q \in 0 .. l : /\ \A i \in 1 .. q : p[i] \in Blanks
                                                  /\ \E m \in q + 1 .. l : SubSeq(p, q + 1, m) = Cons(c, name) /\ Ends(m)
  BY DEF P!SaysBySigil, Cons, Blanks
<1>2. Sigiled(p, n + 1, name) <=> (n + 1) + k <= l /\ Starting(p, n + 1, c, name) /\ Ends((n + 1) + k)
  BY DEF Sigiled
<1> HIDE DEF c, l, k, Ends
<1>3. ASSUME NEW q \in 0 .. l, NEW m \in q + 1 .. l
      PROVE  SubSeq(p, q + 1, m) = Cons(c, name) <=> m = (q + 1) + k /\ Starting(p, q + 1, c, name)
  <2>1. q + 1 \in 1 .. l
    BY <1>0
  <2> QED BY <1>0, <2>1, StartingIs DEF l, k
<1>4. ASSUME NEW q \in 0 .. l, \A i \in 1 .. q : p[i] \in Blanks, NEW m \in q + 1 .. l, Starting(p, q + 1, c, name)
      PROVE  q = n
  <2>1. q + 1 \in 1 .. l /\ (q + 1) - 1 = q
    BY <1>0
  <2>2. p[q + 1] \notin Blanks
    BY <1>0, <1>4 DEF Starting
  <2>3. q + 1 = n + 1
    <3>1. \A i \in 1 .. (q + 1) - 1 : p[i] \in Blanks
      BY <1>4, <2>1
    <3> QED BY <2>1, <2>2, <3>1, LeadsOnce DEF l
  <2> QED BY <1>0, <2>3
<1>5. ASSUME P!SaysBySigil(p, name) PROVE (n + 1) + k <= l /\ Starting(p, n + 1, c, name) /\ Ends((n + 1) + k)
  <2>0. PICK q \in 0 .. l : /\ \A i \in 1 .. q : p[i] \in Blanks
                           /\ \E m \in q + 1 .. l : SubSeq(p, q + 1, m) = Cons(c, name) /\ Ends(m)
    BY <1>1, <1>5
  <2>1. PICK m \in q + 1 .. l : SubSeq(p, q + 1, m) = Cons(c, name) /\ Ends(m)
    BY <2>0
  <2>2. m = (q + 1) + k /\ Starting(p, q + 1, c, name)
    BY <1>3, <2>1
  <2>3. q = n
    BY <1>4, <2>0, <2>1, <2>2
  <2>4. (q + 1) + k <= l
    <3>1. m <= l
      BY <1>0
    <3> QED BY <2>2, <3>1
  <2> QED BY <2>1, <2>2, <2>3, <2>4
<1>6. ASSUME (n + 1) + k <= l, Starting(p, n + 1, c, name), Ends((n + 1) + k) PROVE P!SaysBySigil(p, name)
  <2> DEFINE m == (n + 1) + k
  <2>1. m \in n + 1 .. l
    BY <1>0, <1>6
  <2>2. Ends(m)
    BY <1>6
  <2>3. \A i \in 1 .. n : p[i] \in Blanks
    BY DEF Leads
  <2>4. SubSeq(p, n + 1, m) = Cons(c, name)
    <3>1. m = (n + 1) + k
      OBVIOUS
    <3> HIDE DEF m
    <3> QED BY <1>0, <1>3, <1>6, <2>1, <3>1
  <2> HIDE DEF m
  <2> QED BY <1>0, <1>1, <2>1, <2>2, <2>3, <2>4
<1> QED BY <1>2, <1>5, <1>6

\* The code finds the sigil where the prompt says it.
LEMMA SigilMatches ==
  ASSUME NEW p \in Seq(Char), NEW name \in Seq(Char)
  PROVE  P!matches_sigil(P!TrimStart(p, Blanks), name) <=> P!SaysBySigil(p, name)
<1>1. PICK n \in 0 .. Len(p) : Leads(p, Blanks, n) /\ P!TrimStart(p, Blanks) = P!From(p, n + 1)
  BY TrimIs
<1> DEFINE c == "/"
           l == Len(p)
           k == Len(name)
           a == n + 1
           t == P!From(p, a)
           y == Len(t)
           EndsName(x) == x \notin P!Continuation
<1>2. P!SaysBySigil(p, name) <=> a + k <= l /\ Starting(p, a, c, name) /\ (a + k < l => EndsName(p[(a + k) + 1]))
  BY <1>1, SigilSaid DEF Sigiled
<1>3. P!matches_sigil(t, name) <=> /\ t # <<>> /\ t[1] = c /\ y - 1 >= k /\ SubSeq(t, 2, k + 1) = name
                                   /\ y = k + 1 \/ EndsName(t[k + 2])
  BY DEF P!matches_sigil
<1>0. l \in Nat /\ k \in Nat /\ n \in 0 .. l
  OBVIOUS
<1> HIDE DEF c, l, k, EndsName
<1>4. a \in 1 .. l + 1 /\ a \in Int
  BY <1>0
<1> HIDE DEF a
<1>5. t \in Seq(Char) /\ y = (l + 1) - a /\ (\A i \in 1 .. (l + 1) - a : t[i] = p[(a + i) - 1]) /\ (t = <<>> <=> a = l + 1)
  BY <1>4, FromIs DEF l
<1> HIDE DEF t, y
<1>6. (a + k <= l <=> y - 1 >= k) /\ (a + k <= l <=> k + 1 <= y) /\ (a + k <= l => (y = k + 1 <=> ~(a + k < l)))
  BY <1>0, <1>4, <1>5
<1>7. ASSUME a + k <= l
      PROVE  /\ t # <<>> /\ t[1] = p[a]
             /\ \A i \in 1 .. k : t[i + 1] = p[a + i]
             /\ a + k < l => t[k + 2] = p[(a + k) + 1]
  <2>1. t # <<>>
    <3>1. a # l + 1
      BY <1>0, <1>4, <1>7
    <3> QED BY <1>5, <3>1
  <2>2. 1 \in 1 .. (l + 1) - a /\ (a + 1) - 1 = a
    BY <1>0, <1>4, <1>7
  <2>3. \A i \in 1 .. k : i + 1 \in 1 .. (l + 1) - a /\ (a + (i + 1)) - 1 = a + i
    BY <1>0, <1>4, <1>7
  <2>4. a + k < l => k + 2 \in 1 .. (l + 1) - a /\ (a + (k + 2)) - 1 = (a + k) + 1
    BY <1>0, <1>4
  <2>5. t[1] = p[a]
    <3>1. t[1] = p[(a + 1) - 1]
      BY <1>5, <2>2
    <3> QED BY <2>2, <3>1
  <2>6. ASSUME NEW i \in 1 .. k PROVE t[i + 1] = p[a + i]
    <3>1. i + 1 \in 1 .. (l + 1) - a /\ (a + (i + 1)) - 1 = a + i
      BY <2>3
    <3>2. t[i + 1] = p[(a + (i + 1)) - 1]
      BY <1>5, <3>1
    <3> QED BY <3>1, <3>2
  <2>7. ASSUME a + k < l PROVE t[k + 2] = p[(a + k) + 1]
    <3>1. k + 2 \in 1 .. (l + 1) - a /\ (a + (k + 2)) - 1 = (a + k) + 1
      BY <2>4, <2>7
    <3>2. t[k + 2] = p[(a + (k + 2)) - 1]
      BY <1>5, <3>1
    <3> QED BY <3>1, <3>2
  <2> QED BY <2>1, <2>5, <2>6, <2>7
<1>8. a + k <= l => (SubSeq(t, 2, k + 1) = name <=> \A i \in 1 .. k : t[i + 1] = name[i])
  <2> HAVE a + k <= l
  <2>1. Len(name) + 1 <= Len(t)
    BY <1>6 DEF y, k
  <2> QED BY <1>5, <2>1, BehindFirst DEF k
<1>9. CASE ~(a + k <= l)
  BY <1>2, <1>3, <1>6, <1>9, <1>1 DEF a, t
<1>10. CASE a + k <= l
  <2>1. Starting(p, a, c, name) <=> t[1] = c /\ SubSeq(t, 2, k + 1) = name
    BY <1>7, <1>8, <1>10 DEF Starting, k
  <2>2. (a + k < l => EndsName(p[(a + k) + 1])) <=> y = k + 1 \/ EndsName(t[k + 2])
    BY <1>6, <1>7, <1>10
  <2>3. t # <<>> /\ y - 1 >= k
    BY <1>6, <1>7, <1>10
  <2>4. P!matches_sigil(t, name) <=> P!SaysBySigil(p, name)
    BY <1>2, <1>3, <1>10, <2>1, <2>2, <2>3
  <2> QED BY <1>1, <2>4 DEF t, a
<1> QED BY <1>9, <1>10

\* The code picks the skills whose names the prompt says.
Named(text, entries) == {i \in DOMAIN entries : P!SaysByWords(text, entries[i].name) \/ P!SaysBySigil(text, entries[i].name)}
Alone(entries) == \A i, j \in DOMAIN entries : entries[i].name = entries[j].name => i = j
Once(entries, i) == Cardinality({j \in DOMAIN entries : entries[j].name = entries[i].name}) = 1
Sigil(text, entries, i) == P!matches_sigil(P!TrimStart(text, {" "}), entries[i].name)
Words(text, entries, i) ==
  P!matches_skill_name(P!normalize(P!natural_language_reference_start(text)), entries[i].name)

\* The instance counts as the library does.
LEMMA SameSize == \A S : P!Cardinality(S) = Cardinality(S)
BY DEF P!Cardinality, Cardinality

\* match_explicit_skill_indices picks them: each name is there once.
LEMMA PickedIs ==
  ASSUME NEW text \in Seq(Char), NEW entries, Alone(entries), \A i \in DOMAIN entries : entries[i].name \in Seq(Char)
  PROVE  P!match_explicit_skill_indices(text, entries) = Named(text, entries)
<1> DEFINE picked == {i \in DOMAIN entries : Once(entries, i) /\ (Sigil(text, entries, i) \/ Words(text, entries, i))}
<1>1. ASSUME NEW i \in DOMAIN entries PROVE Once(entries, i)
  <2>1. {j \in DOMAIN entries : entries[j].name = entries[i].name} = {i}
    BY DEF Alone
  <2> QED BY <2>1, FS_Singleton DEF Once
<1>2. ASSUME NEW i \in DOMAIN entries
      PROVE  /\ Sigil(text, entries, i) <=> P!SaysBySigil(text, entries[i].name)
             /\ Words(text, entries, i) <=> P!SaysByWords(text, entries[i].name)
  <2> DEFINE name == entries[i].name
  <2>1. name \in Seq(Char)
    OBVIOUS
  <2> HIDE DEF name
  <2>2. P!matches_sigil(P!TrimStart(text, Blanks), name) <=> P!SaysBySigil(text, name)
    BY <2>1, SigilMatches
  <2>3. P!matches_skill_name(P!normalize(P!natural_language_reference_start(text)), name) <=> P!SaysByWords(text, name)
    BY <2>1, WordsMatch
  <2> QED BY <2>2, <2>3 DEF name, Blanks, Sigil, Words
<1>3. P!match_explicit_skill_indices(text, entries) = picked
  BY SameSize DEF P!match_explicit_skill_indices, Once, Sigil, Words
<1>4. picked = Named(text, entries)
  BY <1>1, <1>2 DEF Named
<1> QED BY <1>3, <1>4

-----------------------------------------------------------------------------
(* The run of a prompt.                                                     *)
LEMMA InLarger ==
  ASSUME NEW S, NEW T, S \subseteq T, NEW s \in Seq(S)
  PROVE  s \in Seq(T)
OBVIOUS

LEMMA NameTyped ==
  ASSUME NEW A, NEW B, NEW D, NEW entries \in Seq([name : A, bytes : B, text : D]), NEW i \in DOMAIN entries
  PROVE  entries[i].name \in A
<1> DEFINE R == [name : A, bytes : B, text : D]
<1>1. entries \in Seq(R) /\ i \in DOMAIN entries
  OBVIOUS
<1>2. entries[i] \in R
  <2> HIDE DEF R
  <2>1. i \in 1 .. Len(entries)
    BY <1>1, LenProperties
  <2> QED BY <1>1, <2>1, ElementOfSeq
<1> QED BY <1>2

\* What users and skills write is made of characters.
LEMMA AsCharacters ==
  /\ \A text \in Seq(STRING) : text \in Seq(Char)
  /\ \A entries \in Seq([name : Seq(STRING), bytes : Nat, text : Nat]) :
        \A i \in DOMAIN entries : entries[i].name \in Seq(Char)
<1>1. STRING \subseteq Char
  BY Zenon DEF Char
<1> DEFINE T == STRING
<1> HIDE DEF T
<1>2. \A text \in Seq(T) : text \in Seq(Char)
  <2>1. T \subseteq Char
    BY <1>1 DEF T
  <2> QED BY <2>1, InLarger
<1>3. ASSUME NEW entries \in Seq([name : Seq(T), bytes : Nat, text : Nat]), NEW i \in DOMAIN entries
      PROVE  entries[i].name \in Seq(Char)
  <2> DEFINE A == Seq(T)
  <2>1. entries \in Seq([name : A, bytes : Nat, text : Nat])
    BY <1>3
  <2> HIDE DEF A
  <2>2. entries[i].name \in A
    BY <1>3, <2>1, NameTyped
  <2> QED BY <1>2, <2>2 DEF A
<1> QED BY <1>2, <1>3 DEF T

\* The plan is what the prompt names and is not loaded yet.
Kept ==
  /\ prompt \in Prompts /\ catalog \in Catalogs
  /\ stage \in {"discovered", "listed"} => plan = {} /\ loaded = {}
  /\ stage \in {"loading", "ready"} /\ catalog # <<>> =>
       /\ plan \cup {l.skill : l \in loaded} = Named(prompt, catalog)
       /\ plan \cap {l.skill : l \in loaded} = {}
       /\ \A l, k \in loaded : l.skill = k.skill => l = k
  /\ stage = "ready" => plan = {}

\* That holds at the start.
LEMMA KeptInit == P!Init => Kept
BY DEF P!Init, Kept

\* Each step keeps that.
LEMMA KeptNext ==
  ASSUME Kept, P!Next
  PROVE  Kept'
<1> USE DEF Kept
<1>1. CASE P!Advertise
  BY <1>1 DEF P!Advertise
<1>2. CASE P!Match
  <2>1. CASE P!CutPanics(P!TrimStart(prompt, {" "}))
    BY <1>2, <2>1 DEF P!Match
  <2>2. CASE ~P!CutPanics(P!TrimStart(prompt, {" "}))
    <3>1. stage = "listed" /\ stage' = "loading" /\ plan' = P!match_explicit_skill_indices(prompt, catalog)
          /\ prompt' = prompt /\ catalog' = catalog /\ loaded' = loaded
      BY <1>2, <2>2 DEF P!Match
    <3>2. P!match_explicit_skill_indices(prompt, catalog) = Named(prompt, catalog)
      <4>1. /\ prompt \in Seq(STRING) /\ catalog \in Seq([name : Seq(STRING), bytes : Nat, text : Nat])
            /\ Alone(catalog)
        BY PromptsAssumption DEF PromptsAssumption, P!PromptAssumption, Alone
      <4>2. prompt \in Seq(Char) /\ \A i \in DOMAIN catalog : catalog[i].name \in Seq(Char)
        BY <4>1, AsCharacters
      <4> QED BY <4>1, <4>2, PickedIs
    <3>3. loaded' = {}
      BY <3>1
    <3>4. Named(prompt, catalog)' = Named(prompt, catalog)
      BY <3>1 DEF Named, P!SaysByWords, P!SaysBySigil
    <3> QED BY <3>1, <3>2, <3>3, <3>4
  <2> QED BY <2>1, <2>2
<1>3. CASE P!LoadNext
  <2> DEFINE i == P!MinOf(plan)
  <2>1. PICK text : loaded' = loaded \cup {[skill |-> i, text |-> text]}
    BY <1>3 DEF P!LoadNext
  <2>2. stage = "loading" /\ plan # {} /\ plan' = plan \ {i} /\ prompt' = prompt /\ catalog' = catalog /\ stage' = stage
    BY <1>3 DEF P!LoadNext
  <2>3. CASE catalog = <<>>
    BY <2>2, <2>3
  <2>4. CASE catalog # <<>>
    <3>1. i \in plan
      <4>1. plan \in SUBSET Nat
        <5>1. plan \subseteq DOMAIN catalog
          BY <2>2, <2>4 DEF Named
        <5>2. catalog \in Seq([name : Seq(STRING), bytes : Nat, text : Nat])
          BY PromptsAssumption DEF PromptsAssumption, P!PromptAssumption
        <5> QED BY <5>1, <5>2
      <4>2. \E m \in plan : \A n \in plan : m <= n
        BY <2>2, <4>1, Least
      <4> QED BY <4>2 DEF P!MinOf
    <3>2. Named(prompt, catalog)' = Named(prompt, catalog)
      BY <2>2
    <3> HIDE DEF i
    <3> DEFINE had == {l.skill : l \in loaded}
               have == {l.skill : l \in loaded'}
    <3>3. have = had \cup {i}
      <4> DEFINE one == [skill |-> i, text |-> text]
      <4>1. loaded' = loaded \cup {one} /\ one.skill = i
        BY <2>1
      <4> HIDE DEF one
      <4> QED BY <4>1
    <3>6. plan \cup had = Named(prompt, catalog) /\ plan \cap had = {}
      BY <2>2, <2>4
    <3>4. \A l \in loaded : l.skill # i
      BY <2>2, <2>4, <3>1
    <3>5. \A l, k \in loaded' : l.skill = k.skill => l = k
      BY <2>1, <2>2, <2>4, <3>4
    <3> HIDE DEF had, have
    <3>7. plan' \cup have = Named(prompt, catalog) /\ plan' \cap have = {}
      BY <2>2, <3>1, <3>3, <3>6
    <3>8. prompt' \in Prompts /\ catalog' \in Catalogs /\ stage' = "loading"
      BY <2>2
    <3> QED BY <3>2, <3>5, <3>7, <3>8 DEF have
  <2> QED BY <2>3, <2>4
<1>4. CASE P!Loaded
  BY <1>4 DEF P!Loaded
<1> QED BY <1>1, <1>2, <1>3, <1>4 DEF P!Next

\* The skills whose texts go with a prompt are those it names, each of them
\* once (match_explicit_skill_indices and the loads after it), whatever the
\* prompt and the catalogue.
THEOREM NamedSkillsComeAlong == P!Spec => []NamedAreLoaded
<1>1. P!Init => Kept
  BY KeptInit
<1>2. Kept /\ [P!Next]_P!vars => Kept'
  <2> SUFFICES ASSUME Kept, [P!Next]_P!vars PROVE Kept'
    OBVIOUS
  <2>1. CASE P!Next
    BY <2>1, KeptNext
  <2>2. CASE UNCHANGED P!vars
    BY <2>2 DEF P!vars, Kept
  <2> QED BY <2>1, <2>2
<1>3. Kept => NamedAreLoaded
  BY DEF Kept, NamedAreLoaded, P!NamedAreLoaded, Named
<1> QED BY <1>1, <1>2, <1>3, PTL DEF P!Spec
=============================================================================
